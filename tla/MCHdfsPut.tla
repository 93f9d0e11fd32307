------------------------------ MODULE MCHdfsPut ------------------------------
(* Small instances of HdfsPut: two transfers whose paths, file names and   *)
(* random numbers are chosen so that they meet, or do not.                 *)
EXTENDS HdfsPutInv, TLC

CONSTANTS t1, t2, p1, p2

AllFaults     == FaultKinds
ClosesAnswer  == FaultKinds \ {"hclose"}
NoFaults      == {}

\* One transfer, two with a path each, or two writers of one path.
JustOne  == t1 :> p1
TwoPaths == t1 :> p1 @@ t2 :> p2
OnePath  == t1 :> p1 @@ t2 :> p1

\* The file names: different, or the same in two directories.
NamesDiffer == p1 :> <<"f">> @@ p2 :> <<"g">>
NamesEqual  == p1 :> <<"f">> @@ p2 :> <<"f">>

OneDraw  == {<<"1">>}
TwoDraws == {<<"1">>, <<"2">>}
=============================================================================
