----------------------------- MODULE AtomicStream -----------------------------
(***************************************************************************)
(* A read stream that several threads share, each operation in one step: a *)
(* thread gets the data at the position and the position moves past it, so *)
(* that no two reads get the same data and none is passed over.            *)
(***************************************************************************)
EXTENDS Naturals

CONSTANTS Size

VARIABLES pos,   \* the position of the stream
          got    \* what the last read returned: where, how much

vars == <<pos, got>>

Init == pos = 0 /\ got = <<0, 0>>

\* Something is returned unless the stream is at its end.
Read == \E n \in 0 .. Size - pos :
          /\ n = 0 => pos = Size
          /\ got' = <<pos, n>>
          /\ pos' = pos + n

Seek == /\ pos' \in 0 .. Size
        /\ UNCHANGED got

Next == Read \/ Seek

Spec == Init /\ [][Next]_vars
=============================================================================
