------------------------------ MODULE Ranging ------------------------------
(***************************************************************************)
(* Boards and hosts together: boards that follow Antenna.tla transmit by   *)
(* the clocks of DeviceClock.tla, hear some of each other's messages and   *)
(* report to hosts that follow Node.tla.  A board may restart, which its   *)
(* host and the other boards do not notice.                                *)
(*                                                                         *)
(* One step is a transmission with its receptions and the lines about it.  *)
(* An epoch is a life of a board and a turn of its counter; the epochs of  *)
(* the times a host stores are kept beside them, as history.               *)
(***************************************************************************)
EXTENDS Node, FiniteSets, DeviceClock

CONSTANTS
  Ids,         \* the boards
  Start,       \* Start[n]: the counter of n at global time 0
  Flight,      \* Flight[n][m]: time of flight between n and m
  Interval,    \* time between two transmissions
  MaxSent,     \* BOUND: transmissions of all boards
  MaxRestarts, \* BOUND: restarts of all boards
  ReachAll     \* do all the others hear every message?

ASSUME IdsAssumption == Ids \subseteq Nat /\ IsFiniteSet(Ids)
ASSUME StartAssumption == \A n \in Ids : Start[n] \in Nat
ASSUME FlightAssumption ==
  \A n, m \in Ids : Flight[n][m] \in Nat /\ Flight[n][m] = Flight[m][n]
ASSUME IntervalAssumption == Interval \in Nat

VARIABLES
  now,       \* global time
  seq,       \* per board, self.sequence_number
  table,     \* per board, received_messages: number, time, and their epochs
  offset,    \* per board, its counter at global time 0
  life,      \* per board, how often it was started
  host,      \* per board, the state of the class Node
  born,      \* per board, the epochs of the times in host: own and sender's
  measured,  \* the measurements the last message gave
  sentat     \* the time of the last transmission, as reported and as carried

vars == <<now, seq, table, offset, life, host, born, measured, sentat>>

Init ==
  /\ now = 0
  /\ seq = [n \in Ids |-> 1]
  /\ table = [n \in Ids |-> <<>>]
  /\ offset = [n \in Ids |-> Start[n]]
  /\ life = [n \in Ids |-> 1]
  /\ host = [n \in Ids |-> NewNode(n)]
  /\ born = [n \in Ids |-> <<>>]
  /\ measured = {}
  /\ sentat = [reported |-> 0, carried |-> 0]

\* The counter of n, if it did not wrap, and the epoch, at global time g.
Counter(n, g) == g + offset[n]
Epoch(n, g) == <<life[n], Counter(n, g) \div Turn>>

\* The epoch of a time that n reported for g.
EpochOf(n, g, time) == <<life[n], (Counter(n, g) - time) \div Turn>>

\* The i-th of a set of ids.
Nth(ids, i) == CHOOSE k \in ids : Cardinality({m \in ids : m <= k}) = i

\* The used elements of n's table, in the order of the ids.
Echoes(n) ==
  LET heard == DOMAIN table[n]
  IN  [i \in 1..Cardinality(heard) |->
         LET m == Nth(heard, i)
         IN  [id |-> m, seq |-> table[n][m].seq, rx |-> table[n][m].rx]]

\* Do the times that a combines for timestamp ts of message m3 of b belong
\* together, with m1 as the earlier message: are a's of one epoch, and b's,
\* and did a hear or send the message that b heard?  at is the element of b's
\* table that ts was made of.
Fit(epochs, b, m1, ts, at, m3) ==
  LET first == epochs[<<b, m1>>]
      second == epochs[<<ts.id, ts.seq>>]
      third == epochs[<<b, m3>>]
  IN  /\ first = third
      /\ second.own = third.own
      /\ at.own = third.of
      /\ at.of[1] = second.of[1]

\* The time of flight, or the difference of such times, that is measured.
Expected(a, m) ==
  IF "c" \in DOMAIN m THEN Flight[m.b][m.c] + Flight[a][m.b] - Flight[a][m.c]
                      ELSE Flight[a][m.b]

\* The measurements that message m3 of b gave a host that is now in state h.
Measurements(a, h, epochs, b, echoes, m3) ==
  LET made(ts) == {m \in h.active \cup h.passive :
                     IF "c" \in DOMAIN m THEN ts.id = m.c ELSE ts.id = a}
      at(ts) == table[b][ts.id]
      m1 == GetStoredRx(h, b, m3)
  IN  UNION {{[right |-> Fit(epochs, b, m1, ts, at(ts), m3),
               recent |-> /\ <<b, m3 - 1>> \in DOMAIN epochs
                          /\ Fit(epochs, b, m3 - 1, ts, at(ts), m3),
               exact |-> m.num = m.den * Expected(a, m)] : m \in made(ts)} :
             ts \in ToSet(echoes)}

\* tx_time of send_message of n, its tx_timestamp, and when the frame is sent.
TxTimeOf(n) == TxTime(ReadTime(Counter(n, now)))
TimestampOf(n) == TxTimestamp(TxTimeOf(n))
Air(n) == now + ((DepartureTime(TxTimeOf(n)) - Counter(n, now)) % Turn)

\* What m reports of the message of n, and the epochs of its times.
Line(n, m) ==
  [sender |-> n, seq |-> seq[n], tx |-> Carried(TimestampOf(n)),
   rx |-> ReadTime(Counter(m, Air(n) + Flight[n][m])), timestamps |-> Echoes(n)]

EpochsAt(n, m) ==
  [own |-> IF m = n THEN EpochOf(n, Air(n), TimestampOf(n))
                    ELSE Epoch(m, Air(n) + Flight[n][m]),
   of |-> Epoch(n, Air(n))]

(***************************************************************************)
(* send_message of n, check_received_messages of the boards of reach, and  *)
(* the lines about both at their hosts.                                    *)
(***************************************************************************)
Transmit(n, reach) ==
  LET heard(m) == EvaluateRx(host[m], Line(n, m))
      epochs(m) == Put(born[m], <<n, seq[n]>>, EpochsAt(n, m))
  IN  /\ sentat' = [reported |-> TimestampOf(n), carried |-> Carried(TimestampOf(n))]
      /\ host' = [m \in Ids |->
                    IF m = n
                      THEN EvaluateTx(host[n], [seq |-> seq[n], tx |-> TimestampOf(n)])
                      ELSE IF m \in reach
                             THEN [heard(m) EXCEPT !.active = {}, !.passive = {}]
                             ELSE host[m]]
      /\ measured' = UNION {Measurements(m, heard(m), epochs(m), n, Echoes(n), seq[n]) :
                              m \in reach}
      /\ born' = [m \in Ids |-> IF m \in reach \cup {n} THEN epochs(m) ELSE born[m]]
      /\ table' = [m \in Ids |->
                     IF m \in reach
                       THEN Put(table[m], n, [seq |-> seq[n], rx |-> Line(n, m).rx,
                                              own |-> EpochsAt(n, m).own,
                                              of |-> EpochsAt(n, m).of])
                       ELSE table[m]]
      /\ seq' = [seq EXCEPT ![n] = @ + 1]
      /\ now' = now + Interval
      /\ UNCHANGED <<offset, life>>

\* reset_DW1000 and the initial values of main.c: the counter starts again,
\* the table is empty and the numbers begin with 1.
Restart(n) ==
  /\ seq' = [seq EXCEPT ![n] = 1]
  /\ table' = [table EXCEPT ![n] = <<>>]
  /\ offset' = [offset EXCEPT ![n] = -now]
  /\ life' = [life EXCEPT ![n] = @ + 1]
  /\ UNCHANGED <<now, host, born, measured, sentat>>

Restarts == FoldFunction(LAMBDA l, sum : sum + l - 1, 0, life)

Next ==
  \E n \in Ids :
    \/ /\ now < MaxSent * Interval
       /\ \E reach \in IF ReachAll THEN {Ids \ {n}} ELSE SUBSET (Ids \ {n}) :
            Transmit(n, reach)
    \/ Restarts < MaxRestarts /\ Restart(n)

Spec == Init /\ [][Next]_vars

-----------------------------------------------------------------------------
(***************************************************************************)
(* ExactIfRight.  A measurement is exact if the counters did not wrap and  *)
(* the boards did not restart between the times it is made of, wherever    *)
(* else they did, and whatever was lost.                                   *)
(***************************************************************************)
ExactIfRight == \A m \in measured : m.right => m.exact

(***************************************************************************)
(* RightIfRecent.  After a restart of a board its old times are left in    *)
(* the host under numbers that are used again.  Yet a message whose        *)
(* predecessor was heard, and which echoes one of this life, is measured   *)
(* with the new times: the search backwards finds these first.             *)
(***************************************************************************)
RightIfRecent == \A m \in measured : m.recent => m.right

-----------------------------------------------------------------------------
(***************************************************************************)
(* What one might expect of the hosts, or what comments of the sources     *)
(* say, and the code does not do.                                          *)
(***************************************************************************)

(***************************************************************************)
(* AlwaysRight.  Times are combined only when they are the right ones.     *)
(* The host takes any earlier number for an earlier message, also one of   *)
(* the life before a restart.                                              *)
(***************************************************************************)
AlwaysRight == \A m \in measured : m.right

(***************************************************************************)
(* AlwaysExact.  A measurement is the time of flight.  When a counter      *)
(* wraps between two of its times their difference is negative.            *)
(***************************************************************************)
AlwaysExact == \A m \in measured : m.exact

(***************************************************************************)
(* ReportedAsCarried.  The time of a transmission that the sender's host   *)
(* stores is the one the other hosts store.  The antenna delay is added    *)
(* after the time was cut, and the sum is cut in the frame only.           *)
(***************************************************************************)
ReportedAsCarried == sentat.reported = sentat.carried
=============================================================================
