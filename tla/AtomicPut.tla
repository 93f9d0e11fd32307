------------------------------ MODULE AtomicPut ------------------------------
(***************************************************************************)
(* What a PUT promises to the readers of the name space: a path has no     *)
(* file, or all that one transfer has written, and a transfer publishes at *)
(* most once, after its last write, never after it has stopped.  How the   *)
(* data travels is not said.                                               *)
(***************************************************************************)
CONSTANTS Transfers, Paths, PathOf, Contents, Absent

VARIABLES visible,    \* path -> the contents a reader finds there, or Absent
          sent,       \* transfer -> what its client has written
          live        \* the transfers that may still write or publish

vars == <<visible, sent, live>>

Init == /\ visible = [p \in Paths |-> Absent]
        /\ sent \in [Transfers -> Contents]
        /\ live = Transfers

Send(t) == /\ t \in live
           /\ sent' \in [Transfers -> Contents]
           /\ \A u \in Transfers \ {t} : sent'[u] = sent[u]
           /\ UNCHANGED <<visible, live>>

Publish(t) == /\ t \in live
              /\ visible[PathOf[t]] = Absent
              /\ visible' = [visible EXCEPT ![PathOf[t]] = sent[t]]
              /\ live' = live \ {t}
              /\ UNCHANGED sent

Stop(t) == /\ live' = live \ {t}
           /\ UNCHANGED <<visible, sent>>

Remove(p) == /\ visible' = [visible EXCEPT ![p] = Absent]
             /\ UNCHANGED <<sent, live>>

Next == \/ \E t \in Transfers : Send(t) \/ Publish(t) \/ Stop(t)
        \/ \E p \in Paths : Remove(p)

Spec == Init /\ [][Next]_vars
=============================================================================
