---------------------------- MODULE MCHdfsIOShared ----------------------------
(* Small instances of HdfsIOShared: two threads on a file of three units,  *)
(* with a BUFF_SIZE of two, so that there are short and full reads.        *)
EXTENDS HdfsIOShared

AllCalls    == CallKinds
SeekCalls   == {"read", "seekCur"}
=============================================================================
