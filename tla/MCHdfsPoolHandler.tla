-------------------------- MODULE MCHdfsPoolHandler --------------------------
(* Small instances of HdfsPoolHandler: five units of space, two copies of  *)
(* each block, words of four bits.                                         *)
EXTENDS HdfsPoolHandler

AllStatuses == {"available", "beingPopulated", "toBeDeleted"}
=============================================================================
