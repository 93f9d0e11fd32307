------------------------------ MODULE MCHdfsGet ------------------------------
(* A small instance of HdfsGet: clients with addresses of their own, two   *)
(* gateways, tokens that are good until the clock ticks.                   *)
EXTENDS HdfsGet, TLC

CONSTANTS h1, h2, u1, u2

TwoAddress    == [u \in Users |-> IF u = u1 THEN h1 ELSE h2]
ReadAndUpdate == {{}, {"RDWR"}}

\* The clients may be exchanged, each with its address.
Clients == {p \in Permutations(Users \cup Addresses) :
              \A u \in Users : p[u] \in Users /\ p[Address[u]] = Address[p[u]]}
=============================================================================
