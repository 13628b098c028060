----------------------------- MODULE Simulation -----------------------------
(***************************************************************************)
(* The simulation: simulate() of src/host/simulate.py makes SimulationNode *)
(* objects exchange messages, losing some, and writes every transmission   *)
(* and reception to a file; evaluate_static() of src/host/evaluate.py then *)
(* feeds the file to the nodes, line by line.                              *)
(*                                                                         *)
(* Distances are given as times of flight, clock rates are integers (the   *)
(* truncation of a time to int is then exact), and which of the nodes      *)
(* receive a message is arbitrary.                                         *)
(***************************************************************************)
EXTENDS Node, FiniteSets

CONSTANTS
  Order,        \* the list nodes, by node_id
  Exchanges,    \* messages each node sends
  Interval,     \* ranging_interval
  clock_err,    \* rate of each node's clock
  clock_offset, \* and its value at global time 0
  Flight,       \* Flight[n][m]: time of flight between n and m
  MaxLost       \* BOUND: receptions lost in a run; see the README

ASSUME OrderAssumption == Order \in Seq(Nat) /\ Len(Order) > 0 /\ IsInjective(Order)
ASSUME ExchangesAssumption == Exchanges \in Nat
ASSUME IntervalAssumption == Interval \in Nat /\ Interval >= Len(Order)
ASSUME MaxLostAssumption == MaxLost \in Nat

Ids == ToSet(Order)

ASSUME ClockAssumption ==
  clock_err \in [Ids -> Nat \ {0}] /\ clock_offset \in [Ids -> Int]
ASSUME FlightAssumption ==
  Flight \in [Ids -> [Ids -> Nat]] /\ \A n, m \in Ids : Flight[n][m] = Flight[m][n]

VARIABLES
  sent,                \* exchange_counter - 1
  global_clock,
  sequence_number,     \* per node
  receive_timestamps,  \* per node, the dictionary's items in their order
  file,                \* the evaluation file
  line_no,             \* lines of it that evaluate_static has processed
  nodes,               \* per node, the state of the class Node
  lost                 \* receptions lost so far

vars == <<sent, global_clock, sequence_number, receive_timestamps,
          file, line_no, nodes, lost>>

Init ==
  /\ sent = 0
  /\ global_clock = 0
  /\ sequence_number = [n \in Ids |-> 1]
  /\ receive_timestamps = [n \in Ids |-> <<>>]
  /\ file = <<>>
  /\ line_no = 0
  /\ nodes = [n \in Ids |-> NewNode(n)]
  /\ lost = 0

\* A node's clock at global time t.
Clock(n, t) == t * clock_err[n] + clock_offset[n]

\* receive_timestamps[id] = (seq, rx): a known key keeps its place.
Remember(items, id, seq, rx) ==
  LET item == [id |-> id, seq |-> seq, rx |-> rx]
  IN  IF \E i \in DOMAIN items : items[i].id = id
        THEN [i \in DOMAIN items |-> IF items[i].id = id THEN item ELSE items[i]]
        ELSE Append(items, item)

\* SimulationNode.tx
TxLine(n, t) ==
  [kind |-> "tx range", id |-> n, seq |-> sequence_number[n], tx |-> Clock(n, t)]

\* SimulationNode.rx, at n, of the message m reports to have sent at time t.
RxLine(n, m, t) ==
  [kind |-> "rx range", id |-> n, sender |-> m, seq |-> sequence_number[m],
   tx |-> Clock(m, t), rx |-> Clock(n, t + Flight[m][n]),
   timestamps |-> receive_timestamps[m]]

\* The lines one transmission of m, heard by the nodes of the list, adds.
Written(m, t, heard) ==
  <<TxLine(m, t)>> \o [i \in DOMAIN heard |-> RxLine(heard[i], m, t)]

\* Fault: the transmitting node is not left out.
ReceiversAll(m) == Ids

\* The nodes that may receive a message of m.
Receivers(m) == Ids \ {m}

\* Where the list nodes has n.
Place(n) == CHOOSE i \in DOMAIN Order : Order[i] = n

\* One round of simulate()'s inner loop: the next node transmits, and others,
\* in the order of the list, hear it.  The outer loop looks at
\* exchange_counter after all nodes have had their turn.
Transmit ==
  LET m == Order[(sent % Len(Order)) + 1]
      t == global_clock + Interval \div Len(Order)
  IN  /\ sent < Exchanges * Len(Order)
      /\ \E k \in 0..(Len(Order) - 1) : \E heard \in [1..k -> Receivers(m)] :
           /\ \A i, j \in 1..k : i < j => Place(heard[i]) < Place(heard[j])
           /\ lost' = lost + Len(Order) - 1 - k
           /\ lost' <= MaxLost
           /\ file' = file \o Written(m, t, heard)
           /\ receive_timestamps' =
                [n \in Ids |-> IF \E i \in 1..k : heard[i] = n
                   THEN Remember(receive_timestamps[n], m, sequence_number[m],
                                 Clock(n, t + Flight[m][n]))
                   ELSE receive_timestamps[n]]
      /\ global_clock' = t
      /\ sequence_number' = [sequence_number EXCEPT ![m] = @ + 1]
      /\ sent' = sent + 1
      /\ UNCHANGED <<line_no, nodes>>

\* One round of evaluate_static()'s loop, after the simulation.
EvaluateLine ==
  LET line == file[line_no + 1]
      h == nodes[line.id]
  IN  /\ sent = Exchanges * Len(Order)
      /\ line_no < Len(file)
      /\ \A n \in Ids : ~nodes[n].raised
      /\ nodes' = [nodes EXCEPT ![line.id] =
                     IF line.kind = "tx range" THEN EvaluateTx(h, line)
                                               ELSE EvaluateRx(h, line)]
      /\ line_no' = line_no + 1
      /\ UNCHANGED <<sent, global_clock, sequence_number, receive_timestamps,
                     file, lost>>

Next == Transmit \/ EvaluateLine

Spec == Init /\ [][Next]_vars

-----------------------------------------------------------------------------
(***************************************************************************)
(* Properties.                                                             *)
(***************************************************************************)
TypeOK ==
  /\ sent \in 0..(Exchanges * Len(Order))
  /\ global_clock \in Nat
  /\ sequence_number \in [Ids -> 1..(Exchanges + 1)]
  /\ \A n \in Ids :
       /\ receive_timestamps[n] \in Seq([id : Ids \ {n}, seq : 1..Exchanges, rx : Int])
       /\ DOMAIN nodes[n].tx_ts \subseteq 1..Exchanges
       /\ DOMAIN nodes[n].rx_ts \subseteq (Ids \ {n}) \X (1..Exchanges)
       /\ DOMAIN nodes[n].other_rx_ts \subseteq Ids \X Ids \X (1..Exchanges)
  /\ line_no \in 0..Len(file)
  /\ lost \in 0..MaxLost

Finished == sent = Exchanges * Len(Order) /\ line_no = Len(file)

(***************************************************************************)
(* ActiveExact.  Whatever messages were lost, every active measurement is  *)
(* the time of flight between the two nodes, in the mean of their clock    *)
(* rates that the formula yields: the times put into it are those of three *)
(* messages that fit together.                                             *)
(***************************************************************************)
ActiveExact ==
  \A a \in Ids : \A m \in nodes[a].active :
    LET ra == clock_err[a]
        rb == clock_err[m.b]
    IN  m.num * (ra + rb) = m.den * (2 * ra * rb * Flight[a][m.b])

(***************************************************************************)
(* PassiveExact.  Whatever messages were lost, every passive measurement   *)
(* of nodes b and c at a is the flight time from c to b and on to a, less  *)
(* that from c to a, in a's clock: the drift of b's clock is compensated.  *)
(* evaluate_static subtracts just these distances to find the error.       *)
(***************************************************************************)
PassiveExact ==
  \A a \in Ids : \A m \in nodes[a].passive :
    m.num = m.den * (clock_err[a] *
              (Flight[m.b][m.c] + Flight[a][m.b] - Flight[a][m.c]))

(***************************************************************************)
(* LosslessComplete.  When no message was lost, every node has ranged with *)
(* every other node in each exchange but the first.                        *)
(***************************************************************************)
LosslessComplete ==
  Finished /\ lost = 0 =>
    \A a, b \in Ids : a # b =>
      Cardinality({m \in nodes[a].active : m.b = b}) = Exchanges - 1

(***************************************************************************)
(* NeverRaises.  No line makes evaluate_static stop with an exception,     *)
(* although messages are lost and neither the lookups in tx_ts nor the     *)
(* divisions of evaluate_rx are guarded.                                   *)
(***************************************************************************)
NeverRaises == \A n \in Ids : ~nodes[n].raised

(***************************************************************************)
(* RangesFromEveryEcho.  evaluate_rx ranges with the sender of a message   *)
(* whenever the message says when one of the node's own was heard and an   *)
(* earlier message of the sender is known, since it goes through all the   *)
(* timestamps of the message.                                              *)
(***************************************************************************)
RangesFromEveryEcho ==
  \A i \in 1..line_no :
    LET line == file[i]
        a == line.id
    IN  line.kind = "rx range"
        /\ (\E k \in DOMAIN line.timestamps : line.timestamps[k].id = a)
        /\ GetStoredRx(nodes[a], line.sender, line.seq) # NoSeq
        => \E m \in nodes[a].active : m.b = line.sender /\ m.m3 = line.seq
=============================================================================
