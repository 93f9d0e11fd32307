--------------------------- MODULE MCHdfsNamespace ---------------------------
(* Small instances of HdfsNamespace: a directory of two or three entries,  *)
(* and the modes 0644 and 0755 as create() may be given them.              *)
EXTENDS HdfsNamespace

AnyMode    == {4, 5}
AllLookups == {"list", "stat", "exists"}
NoFaults   == {}
=============================================================================
