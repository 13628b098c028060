-------------------------------- MODULE Node --------------------------------
(***************************************************************************)
(* The class Node of src/host/node.py: what a host remembers of the lines  *)
(* its board reports, and the distances it computes from them.             *)
(*                                                                         *)
(* A Node is a record whose fields are the attributes of the class; a      *)
(* dictionary is a function whose domain is the set of its keys.  Times    *)
(* are integers, as in the source.  A measurement is kept as the fraction  *)
(* num / den the source computes: dividing, and scaling by the speed of    *)
(* light, are left out.  The lists of distances are sets of measurements,  *)
(* each with the nodes and the message it is of.                           *)
(***************************************************************************)
EXTENDS Integers, Sequences, SequencesExt

\* get_stored_rx_timestamp's None.
NoSeq == -1

\* d[k] = v
Put(d, k, v) == [x \in {k} \cup DOMAIN d |-> IF x = k THEN v ELSE d[x]]

\* __init__.  raised is set by an exception that leaves evaluate_rx.
NewNode(id) ==
  [node_id |-> id, tx_ts |-> <<>>, rx_ts |-> <<>>,
   other_tx_ts |-> <<>>, other_rx_ts |-> <<>>,
   active |-> {}, passive |-> {}, raised |-> FALSE]

\* Fault: the search starts at the message itself.
GetStoredRxSame(h, b, m3) ==
  LET Earlier == {s \in 0..m3 : <<b, s>> \in DOMAIN h.rx_ts}
  IN  IF Earlier = {} THEN NoSeq ELSE Max(Earlier)

\* Fault: the search starts at the newest message there is.
GetStoredRxNewest(h, b, m3) ==
  LET Others == {k[2] : k \in {k \in DOMAIN h.rx_ts : k[1] = b}} \ {m3}
  IN  IF Others = {} THEN NoSeq ELSE Max(Others)

\* get_stored_rx_timestamp(b, node_id, m3): the newest message of b before
\* m3 that this node received.
GetStoredRx(h, b, m3) ==
  LET Earlier == {s \in 0..(m3 - 1) : <<b, s>> \in DOMAIN h.rx_ts}
  IN  IF Earlier = {} THEN NoSeq ELSE Max(Earlier)

\* evaluate_tx
EvaluateTx(h, line) == [h EXCEPT !.tx_ts = Put(@, line.seq, line.tx)]

\* Faults: neither formula makes up for the drift of the clocks.
ActiveTofSingle(r_a, r_b, d_a, d_b) ==
  [num |-> r_a - d_b, den |-> 2]
PassiveTofUnadjusted(r_a2, t_dB, a_rx, b_tx) == [num |-> r_a2 - t_dB, den |-> 1]

\* Alternative double-sided two-way ranging.
ActiveTof(r_a, r_b, d_a, d_b) ==
  [num |-> r_a * r_b - d_a * d_b, den |-> r_a + r_b + d_a + d_b]

\* r_a2 - t_dB * estimated_clock_drift_ab, where the drift is a_rx / b_tx.
PassiveTof(r_a2, t_dB, a_rx, b_tx) ==
  [num |-> r_a2 * b_tx - t_dB * a_rx, den |-> b_tx]

(***************************************************************************)
(* The two measurements a message of b allows.  It is the later one, m3;   *)
(* m1 is an earlier one, and ts is a timestamp m3 carries: b's reception   *)
(* of message ts.seq of this node, or of another node.                     *)
(***************************************************************************)
ActiveMeasurement(h, b, m1, ts, m3) ==
  LET tof == ActiveTof(h.rx_ts[<<b, m3>>] - h.tx_ts[ts.seq],
                       ts.rx - h.other_tx_ts[<<b, m1>>],
                       h.tx_ts[ts.seq] - h.rx_ts[<<b, m1>>],
                       h.other_tx_ts[<<b, m3>>] - ts.rx)
  IN  [b |-> b, m3 |-> m3, num |-> tof.num, den |-> tof.den]

PassiveMeasurement(h, b, m1, ts, m3) ==
  LET tof == PassiveTof(h.rx_ts[<<b, m3>>] - h.rx_ts[<<ts.id, ts.seq>>],
                        h.other_tx_ts[<<b, m3>>] - ts.rx,
                        h.rx_ts[<<b, m3>>] - h.rx_ts[<<b, m1>>],
                        h.other_tx_ts[<<b, m3>>] - h.other_tx_ts[<<b, m1>>])
  IN  [b |-> b, c |-> ts.id, m3 |-> m3, num |-> tof.num, den |-> tof.den]

\* Fault: the sender must have been heard also where it is this node.
BreaksOwn(h, m1, ts) ==
  \/ m1 = NoSeq
  \/ <<ts.id, ts.seq>> \notin DOMAIN h.rx_ts

\* The loop of evaluate_rx ends early at timestamp ts: with a break because
\* a time is missing, ...
Breaks(h, m1, ts) ==
  \/ m1 = NoSeq
  \/ ts.id # h.node_id /\ <<ts.id, ts.seq>> \notin DOMAIN h.rx_ts

\* ... or with an exception, from a lookup that is not guarded or from a
\* division by zero.
Raises(h, b, m1, ts, m3) ==
  /\ ~Breaks(h, m1, ts)
  /\ IF ts.id = h.node_id
       THEN \/ ts.seq \notin DOMAIN h.tx_ts
            \/ ActiveMeasurement(h, b, m1, ts, m3).den = 0
       ELSE PassiveMeasurement(h, b, m1, ts, m3).den = 0

(***************************************************************************)
(* evaluate_rx: store the times of the message; then go through its        *)
(* timestamps (those of different nodes), store each and make the          *)
(* measurement it allows, up to the one where the loop ends.               *)
(***************************************************************************)
EvaluateRx(node, line) ==
  LET b == line.sender
      m3 == line.seq
      h == [node EXCEPT !.other_tx_ts = Put(@, <<b, m3>>, line.tx),
                        !.rx_ts = Put(@, <<b, m3>>, line.rx)]
      m1 == GetStoredRx(h, b, m3)
      Ending == {i \in DOMAIN line.timestamps :
                   \/ Breaks(h, m1, line.timestamps[i])
                   \/ Raises(h, b, m1, line.timestamps[i], m3)}
      end == Min(Ending \cup {Len(line.timestamps) + 1})
      done == {line.timestamps[i] : i \in 1..(end - 1)}
      stored == {line.timestamps[i] : i \in (1..end) \cap DOMAIN line.timestamps}
  IN  [h EXCEPT
        !.other_rx_ts =
          [k \in {<<b, ts.id, ts.seq>> : ts \in stored} \cup DOMAIN @ |->
             IF \E ts \in stored : k = <<b, ts.id, ts.seq>>
               THEN (CHOOSE ts \in stored : k = <<b, ts.id, ts.seq>>).rx
               ELSE @[k]],
        !.active = @ \cup {ActiveMeasurement(h, b, m1, ts, m3) :
                             ts \in {ts \in done : ts.id = h.node_id}},
        !.passive = @ \cup {PassiveMeasurement(h, b, m1, ts, m3) :
                              ts \in {ts \in done : ts.id # h.node_id}},
        !.raised = \E i \in Ending \cap {end} :
                     Raises(h, b, m1, line.timestamps[i], m3)]
=============================================================================
