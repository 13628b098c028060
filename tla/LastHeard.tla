----------------------------- MODULE LastHeard -----------------------------
(***************************************************************************)
(* What the swarm promises about message numbers, whatever the radio does: *)
(* every node numbers its transmissions 1, 2, 3, ... and remembers, for    *)
(* every other node, the number of the newest transmission it has heard.   *)
(* A transmission may be missed by any node, but what is remembered was    *)
(* transmitted, and never gives way to something older.  Antenna.tla       *)
(* implements this specification.                                          *)
(***************************************************************************)
EXTENDS Naturals

CONSTANT Node

VARIABLES
  sent,   \* sent[n]: the number of transmissions of n that are complete
  heard   \* heard[n][m]: newest transmission of m that n remembers, 0 if none

vars == <<sent, heard>>

Init ==
  /\ sent = [n \in Node |-> 0]
  /\ heard = [n \in Node |-> [m \in Node |-> 0]]

Transmit(n) ==
  /\ sent' = [sent EXCEPT ![n] = @ + 1]
  /\ UNCHANGED heard

Hear(n, m) ==
  /\ n # m
  /\ \E s \in (heard[n][m] + 1)..sent[m] : heard' = [heard EXCEPT ![n][m] = s]
  /\ UNCHANGED sent

Next ==
  \/ \E n \in Node : Transmit(n)
  \/ \E n, m \in Node : Hear(n, m)

Spec == Init /\ [][Next]_vars
=============================================================================
