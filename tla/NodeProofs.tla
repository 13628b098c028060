----------------------------- MODULE NodeProofs -----------------------------
(***************************************************************************)
(* Proofs about Node.tla: what evaluate_rx stores and measures, and that   *)
(* its formulas give, of the times of three messages that fit together,    *)
(* exactly the time of flight, for all clocks, distances and sending       *)
(* times.                                                                  *)
(***************************************************************************)
EXTENDS Node, WellFoundedInduction, TLAPS

\* Natural numbers have a least element, ...
LEMMA LeastExists ==
  ASSUME NEW S \in SUBSET Nat, S # {}
  PROVE  Min(S) \in S /\ \A y \in S : Min(S) <= y
<1> DEFINE Less == {pair \in Nat \X Nat : pair[1] < pair[2]}
<1>1. IsWellFoundedOn(Less, Nat)
  BY NatLessThanWellFounded DEF OpToRel
<1>2. \A y, x \in Nat : <<y, x>> \notin Less => x <= y
  OBVIOUS
<1> HIDE DEF Less
<1>3. PICK x \in S : \A y \in S : <<y, x>> \notin Less
  BY <1>1, WFMin
<1>4. x \in S /\ \A y \in S : x <= y
  BY <1>2, <1>3
<1> QED BY <1>4 DEF Min

\* ... and those up to a bound a greatest.
LEMMA GreatestExists ==
  ASSUME NEW n \in Nat, NEW S \in SUBSET (0..n), S # {}
  PROVE  Max(S) \in S /\ \A y \in S : y <= Max(S)
<1> DEFINE T == {n - x : x \in S}
<1>1. T \in SUBSET Nat /\ T # {}
  <2>1. \A x \in S : n - x \in Nat
    OBVIOUS
  <2> QED BY <2>1
<1> HIDE DEF T
<1>2. Min(T) \in T /\ \A y \in T : Min(T) <= y
  BY <1>1, LeastExists
<1>3. PICK x \in S : Min(T) = n - x
  BY <1>2 DEF T
<1>4. x \in S /\ \A y \in S : x >= y
  <2> SUFFICES ASSUME NEW y \in S PROVE x >= y
    OBVIOUS
  <2>1. n - x <= n - y
    BY <1>2, <1>3 DEF T
  <2> QED BY <2>1
<1>5. Max(S) \in S /\ \A y \in S : Max(S) >= y
  BY <1>4 DEF Max
<1> QED BY <1>5

\* What a dictionary is after an assignment.
LEMMA PutIs ==
  ASSUME NEW d, NEW k, NEW v
  PROVE  /\ Put(d, k, v) = [x \in {k} \cup DOMAIN d |-> IF x = k THEN v ELSE d[x]]
         /\ DOMAIN Put(d, k, v) = {k} \cup DOMAIN d
         /\ Put(d, k, v)[k] = v
         /\ \A x \in DOMAIN d : x # k => Put(d, k, v)[x] = d[x]
BY DEF Put

\* get_stored_rx_timestamp finds the newest message before m3 that was
\* received, if there is one.
LEMMA StoredRxIsNewest ==
  ASSUME NEW h, NEW b, NEW m3 \in Nat
  PROVE  LET m1 == GetStoredRx(h, b, m3)
         IN  \/ /\ m1 = NoSeq
                /\ \A s \in Nat : s < m3 => <<b, s>> \notin DOMAIN h.rx_ts
             \/ /\ m1 \in Nat /\ m1 < m3 /\ <<b, m1>> \in DOMAIN h.rx_ts
                /\ \A s \in Nat : s < m3 /\ <<b, s>> \in DOMAIN h.rx_ts => s <= m1
<1> DEFINE Earlier == {s \in 0..(m3 - 1) : <<b, s>> \in DOMAIN h.rx_ts}
<1>1. CASE Earlier = {}
  BY <1>1 DEF GetStoredRx
<1>2. CASE Earlier # {}
  <2>1. m3 - 1 \in Nat /\ Earlier \in SUBSET (0..(m3 - 1))
    <3>1. PICK s \in 0..(m3 - 1) : TRUE
      BY <1>2
    <3> QED BY <3>1
  <2>2. Max(Earlier) \in Earlier /\ \A y \in Earlier : y <= Max(Earlier)
    <3> HIDE DEF Earlier
    <3> QED BY <1>2, <2>1, GreatestExists
  <2>3. GetStoredRx(h, b, m3) = Max(Earlier)
    BY <1>2 DEF GetStoredRx
  <2> QED BY <2>2, <2>3
<1> QED BY <1>1, <1>2

\* The attributes of a Node.
Fields == {"node_id", "tx_ts", "rx_ts", "other_tx_ts", "other_rx_ts", "active",
           "passive", "raised"}

\* A node that has stored the times of the message of the line.
Stored(node, line) ==
  [node EXCEPT !.other_tx_ts = Put(@, <<line.sender, line.seq>>, line.tx),
               !.rx_ts = Put(@, <<line.sender, line.seq>>, line.rx)]

\* Timestamp ts is measured with: the loop does not end there.
Measured(h, b, m1, ts, m3) == ~Breaks(h, m1, ts) /\ ~Raises(h, b, m1, ts, m3)

(***************************************************************************)
(* What evaluate_rx changes: besides the times of the message, keys of its *)
(* timestamps and measurements made with them.                             *)
(***************************************************************************)
LEMMA EvaluateRxIs ==
  ASSUME NEW node, DOMAIN node = Fields,
         NEW line, NEW Items, line.timestamps \in Seq(Items)
  PROVE  LET b == line.sender
             m3 == line.seq
             h == Stored(node, line)
             m1 == GetStoredRx(h, b, m3)
             stamps == {line.timestamps[i] : i \in DOMAIN line.timestamps}
             new == EvaluateRx(node, line)
         IN  /\ DOMAIN new = Fields
             /\ new.node_id = node.node_id /\ new.tx_ts = node.tx_ts
             /\ new.other_tx_ts = Put(node.other_tx_ts, <<b, m3>>, line.tx)
             /\ new.rx_ts = Put(node.rx_ts, <<b, m3>>, line.rx)
             /\ \A k \in DOMAIN new.other_rx_ts \ DOMAIN node.other_rx_ts :
                  \E ts \in stamps : k = <<b, ts.id, ts.seq>>
             /\ \A m \in new.active \ node.active :
                  \E ts \in stamps : /\ Measured(h, b, m1, ts, m3)
                                     /\ ts.id = node.node_id
                                     /\ m = ActiveMeasurement(h, b, m1, ts, m3)
             /\ \A m \in new.passive \ node.passive :
                  \E ts \in stamps : /\ Measured(h, b, m1, ts, m3)
                                     /\ ts.id # node.node_id
                                     /\ m = PassiveMeasurement(h, b, m1, ts, m3)
             /\ new.raised => \E ts \in stamps : Raises(h, b, m1, ts, m3)
<1> DEFINE b == line.sender
           m3 == line.seq
           h == Stored(node, line)
           m1 == GetStoredRx(h, b, m3)
           stamps == {line.timestamps[i] : i \in DOMAIN line.timestamps}
           new == EvaluateRx(node, line)
           Ending == {i \in DOMAIN line.timestamps :
                        \/ Breaks(h, m1, line.timestamps[i])
                        \/ Raises(h, b, m1, line.timestamps[i], m3)}
           end == Min(Ending \cup {Len(line.timestamps) + 1})
           done == {line.timestamps[i] : i \in 1..(end - 1)}
           stored == {line.timestamps[i] : i \in (1..end) \cap DOMAIN line.timestamps}
           other == [k \in {<<b, ts.id, ts.seq>> : ts \in stored} \cup DOMAIN h.other_rx_ts |->
                       IF \E ts \in stored : k = <<b, ts.id, ts.seq>>
                         THEN (CHOOSE ts \in stored : k = <<b, ts.id, ts.seq>>).rx
                         ELSE h.other_rx_ts[k]]
           active == h.active \cup {ActiveMeasurement(h, b, m1, ts, m3) :
                                      ts \in {ts \in done : ts.id = h.node_id}}
           passive == h.passive \cup {PassiveMeasurement(h, b, m1, ts, m3) :
                                        ts \in {ts \in done : ts.id # h.node_id}}
           raised == \E i \in Ending \cap {end} : Raises(h, b, m1, line.timestamps[i], m3)
<1>1. new = [h EXCEPT !.other_rx_ts = other, !.active = active, !.passive = passive,
                      !.raised = raised]
  BY DEF EvaluateRx, Stored
<1>2. /\ DOMAIN h = Fields
      /\ h.node_id = node.node_id /\ h.tx_ts = node.tx_ts
      /\ h.active = node.active /\ h.passive = node.passive
      /\ h.other_rx_ts = node.other_rx_ts
      /\ h.other_tx_ts = Put(node.other_tx_ts, <<b, m3>>, line.tx)
      /\ h.rx_ts = Put(node.rx_ts, <<b, m3>>, line.rx)
  BY DEF Stored, Fields
<1>3. /\ end \in Ending \cup {Len(line.timestamps) + 1}
      /\ \A i \in Ending : end <= i
      /\ Len(line.timestamps) \in Nat /\ DOMAIN line.timestamps = 1..Len(line.timestamps)
      /\ end \in Nat /\ end <= Len(line.timestamps) + 1
  <2>1. Len(line.timestamps) \in Nat /\ DOMAIN line.timestamps = 1..Len(line.timestamps)
    OBVIOUS
  <2>2. /\ Ending \cup {Len(line.timestamps) + 1} \in SUBSET Nat
        /\ Ending \cup {Len(line.timestamps) + 1} # {}
    BY <2>1
  <2>3. Ending \subseteq 1..Len(line.timestamps)
    BY <2>1
  <2> HIDE DEF Ending
  <2>4. /\ end \in Ending \cup {Len(line.timestamps) + 1}
        /\ \A y \in Ending \cup {Len(line.timestamps) + 1} : end <= y
    BY <2>2, LeastExists
  <2>5. \A x, y \in Nat : x \in Ending \cup {y + 1} /\ Ending \subseteq 1..y => x <= y + 1
    OBVIOUS
  <2> HIDE DEF end
  <2>6. end \in Nat
    BY <2>2, <2>4
  <2> QED BY <2>1, <2>3, <2>4, <2>5, <2>6
<1>4. \A ts \in done : ts \in stamps /\ Measured(h, b, m1, ts, m3)
  <2> SUFFICES ASSUME NEW i \in 1..(end - 1)
               PROVE  /\ line.timestamps[i] \in stamps
                      /\ Measured(h, b, m1, line.timestamps[i], m3)
    OBVIOUS
  <2>1. i \in DOMAIN line.timestamps /\ ~(end <= i)
    <3> HIDE DEF end, Ending
    <3> QED BY <1>3
  <2>2. i \notin Ending
    <3> HIDE DEF end, Ending
    <3> QED BY <1>3, <2>1
  <2> QED BY <2>1, <2>2 DEF Measured
<1>5. stored \subseteq stamps
  OBVIOUS
<1>6. raised => \E ts \in stamps : Raises(h, b, m1, ts, m3)
  OBVIOUS
<1>7. /\ DOMAIN new = Fields
      /\ new.node_id = h.node_id /\ new.tx_ts = h.tx_ts
      /\ new.other_tx_ts = h.other_tx_ts /\ new.rx_ts = h.rx_ts
      /\ new.other_rx_ts = other /\ new.active = active /\ new.passive = passive
      /\ new.raised = raised
  <2> HIDE DEF new, h, other, active, passive, raised
  <2> QED BY <1>1, <1>2 DEF Fields
<1>8. /\ \A k \in DOMAIN other \ DOMAIN node.other_rx_ts :
           \E ts \in stamps : k = <<b, ts.id, ts.seq>>
  <2> HIDE DEF stored, stamps, h
  <2> QED BY <1>2, <1>5
<1>9. /\ \A m \in active \ node.active :
           \E ts \in stamps : /\ Measured(h, b, m1, ts, m3)
                              /\ ts.id = node.node_id
                              /\ m = ActiveMeasurement(h, b, m1, ts, m3)
      /\ \A m \in passive \ node.passive :
           \E ts \in stamps : /\ Measured(h, b, m1, ts, m3)
                              /\ ts.id # node.node_id
                              /\ m = PassiveMeasurement(h, b, m1, ts, m3)
  <2> HIDE DEF done, stamps, h, m1
  <2> QED BY <1>2, <1>4
<1> HIDE DEF new, h, other, active, passive, raised, stamps
<1>10. new.raised => \E ts \in stamps : Raises(h, b, m1, ts, m3)
  BY <1>6, <1>7
<1>11. /\ DOMAIN new = Fields
       /\ new.node_id = node.node_id /\ new.tx_ts = node.tx_ts
       /\ new.other_tx_ts = Put(node.other_tx_ts, <<b, m3>>, line.tx)
       /\ new.rx_ts = Put(node.rx_ts, <<b, m3>>, line.rx)
  BY <1>2, <1>7
<1> QED BY <1>7, <1>8, <1>9, <1>10, <1>11 DEF new, h, stamps

\* It measures with every timestamp of this node if the loop reaches it.
LEMMA EvaluateRxMeasures ==
  ASSUME NEW node, DOMAIN node = Fields,
         NEW line, NEW Items, line.timestamps \in Seq(Items),
         NEW p \in DOMAIN line.timestamps
  PROVE  LET b == line.sender
             m3 == line.seq
             h == Stored(node, line)
             m1 == GetStoredRx(h, b, m3)
             new == EvaluateRx(node, line)
         IN  /\ node.active \subseteq new.active
             /\ /\ line.timestamps[p].id = node.node_id
                /\ \A i \in DOMAIN line.timestamps :
                     Measured(h, b, m1, line.timestamps[i], m3)
                => ActiveMeasurement(h, b, m1, line.timestamps[p], m3) \in new.active
<1> DEFINE b == line.sender
           m3 == line.seq
           h == Stored(node, line)
           m1 == GetStoredRx(h, b, m3)
           new == EvaluateRx(node, line)
           Ending == {i \in DOMAIN line.timestamps :
                        \/ Breaks(h, m1, line.timestamps[i])
                        \/ Raises(h, b, m1, line.timestamps[i], m3)}
           end == Min(Ending \cup {Len(line.timestamps) + 1})
           done == {line.timestamps[i] : i \in 1..(end - 1)}
           active == h.active \cup {ActiveMeasurement(h, b, m1, ts, m3) :
                                      ts \in {ts \in done : ts.id = h.node_id}}
<1>1. /\ DOMAIN h = Fields
      /\ h.node_id = node.node_id /\ h.active = node.active
  BY DEF Stored, Fields
<1>2. new.active = active
  <2>1. PICK other, passive, raised :
          new = [h EXCEPT !.other_rx_ts = other, !.active = active,
                          !.passive = passive, !.raised = raised]
    BY DEF EvaluateRx, Stored
  <2> HIDE DEF new, h, active
  <2> QED BY <1>1, <2>1 DEF Fields
<1>3. ASSUME line.timestamps[p].id = node.node_id,
             \A i \in DOMAIN line.timestamps : Measured(h, b, m1, line.timestamps[i], m3)
      PROVE  ActiveMeasurement(h, b, m1, line.timestamps[p], m3) \in active
  <2>1. Ending = {}
    BY <1>3 DEF Measured
  <2>2. PICK n \in Nat : n = Len(line.timestamps) /\ DOMAIN line.timestamps = 1..n
    OBVIOUS
  <2>3. end = n + 1
    <3>1. end = Min({n + 1})
      BY <2>1, <2>2
    <3>2. {n + 1} \in SUBSET Nat /\ {n + 1} # {}
      OBVIOUS
    <3>3. Min({n + 1}) \in {n + 1}
      BY <3>2, LeastExists
    <3> QED BY <3>1, <3>3
  <2> HIDE DEF end, Ending
  <2>4. p \in 1..(end - 1)
    BY <2>2, <2>3
  <2>5. line.timestamps[p] \in done
    BY <2>4
  <2> HIDE DEF done, h, m1
  <2> QED BY <1>1, <1>3, <2>5
<1> HIDE DEF active
<1>4. node.active \subseteq active
  BY <1>1 DEF active
<1> HIDE DEF new
<1> QED BY <1>2, <1>3, <1>4 DEF new

\* What a clock of rate r and offset o shows at time t, as in
\* SimulationNode.tx.
Shows(r, o, t) == t * r + o

\* Node b sends at t1 and t3, node a (or c) at t2; T is the time of flight
\* between a and b, and Tab, Tac and Tbc are those between a, b and c.
ActiveOf(ra, rb, oa, ob, t1, t2, t3, T) ==
  ActiveTof(Shows(ra, oa, t3 + T) - Shows(ra, oa, t2),
            Shows(rb, ob, t2 + T) - Shows(rb, ob, t1),
            Shows(ra, oa, t2) - Shows(ra, oa, t1 + T),
            Shows(rb, ob, t3) - Shows(rb, ob, t2 + T))

PassiveOf(ra, rb, oa, ob, t1, t2, t3, Tab, Tac, Tbc) ==
  PassiveTof(Shows(ra, oa, t3 + Tab) - Shows(ra, oa, t2 + Tac),
             Shows(rb, ob, t3) - Shows(rb, ob, t2 + Tbc),
             Shows(ra, oa, t3 + Tab) - Shows(ra, oa, t1 + Tab),
             Shows(rb, ob, t3) - Shows(rb, ob, t1))

(***************************************************************************)
(* Node b sends at t1 and t3, node a at t2; the messages fly for T.  Then  *)
(* the active measurement is T times 2 ra rb / (ra + rb): T itself when    *)
(* both clocks have rate 1.  Neither the order of the three messages nor   *)
(* the offsets matter.                                                     *)
(***************************************************************************)
THEOREM ActiveTofExact ==
  ASSUME NEW ra, NEW rb, NEW oa, NEW ob, NEW t1, NEW t2, NEW t3, NEW T,
         ra \in Int, rb \in Int, oa \in Int, ob \in Int,
         t1 \in Int, t2 \in Int, t3 \in Int, T \in Int
  PROVE  LET tof == ActiveOf(ra, rb, oa, ob, t1, t2, t3, T)
         IN  tof.num * (ra + rb) = tof.den * (2 * ra * rb * T)
<1> DEFINE x == t2 - t1
           y == t3 - t2
<1>1. /\ Shows(ra, oa, t3 + T) - Shows(ra, oa, t2) = ra * (y + T)
      /\ Shows(rb, ob, t2 + T) - Shows(rb, ob, t1) = rb * (x + T)
      /\ Shows(ra, oa, t2) - Shows(ra, oa, t1 + T) = ra * (x - T)
      /\ Shows(rb, ob, t3) - Shows(rb, ob, t2 + T) = rb * (y - T)
  BY DEF Shows
<1>2. x \in Int /\ y \in Int
  OBVIOUS
<1> HIDE DEF x, y
<1>3. (ra * (y + T)) * (rb * (x + T)) - (ra * (x - T)) * (rb * (y - T))
        = (2 * ra * rb * T) * (x + y)
  BY <1>2
<1>4. ra * (y + T) + rb * (x + T) + ra * (x - T) + rb * (y - T) = (ra + rb) * (x + y)
  BY <1>2
<1>5. ((2 * ra * rb * T) * (x + y)) * (ra + rb) = ((ra + rb) * (x + y)) * (2 * ra * rb * T)
  BY <1>2
<1> QED BY <1>1, <1>3, <1>4, <1>5 DEF ActiveTof, ActiveOf

(***************************************************************************)
(* Node b sends at t1 and t3, node c at t2; Tab, Tac and Tbc are the       *)
(* flight times between a, b and c.  Then the passive measurement at a is  *)
(* Tbc + Tab - Tac in a's clock, whatever the rate of b's clock is.        *)
(***************************************************************************)
THEOREM PassiveTofExact ==
  ASSUME NEW ra, NEW rb, NEW oa, NEW ob, NEW t1, NEW t2, NEW t3,
         NEW Tab, NEW Tac, NEW Tbc,
         ra \in Int, rb \in Int, oa \in Int, ob \in Int,
         t1 \in Int, t2 \in Int, t3 \in Int,
         Tab \in Int, Tac \in Int, Tbc \in Int
  PROVE  LET tof == PassiveOf(ra, rb, oa, ob, t1, t2, t3, Tab, Tac, Tbc)
         IN  tof.num = tof.den * (ra * (Tbc + Tab - Tac))
<1> DEFINE y == t3 - t2
           z == t3 - t1
<1>1. /\ Shows(ra, oa, t3 + Tab) - Shows(ra, oa, t2 + Tac) = ra * (y + Tab - Tac)
      /\ Shows(rb, ob, t3) - Shows(rb, ob, t2 + Tbc) = rb * (y - Tbc)
      /\ Shows(ra, oa, t3 + Tab) - Shows(ra, oa, t1 + Tab) = ra * z
      /\ Shows(rb, ob, t3) - Shows(rb, ob, t1) = rb * z
  BY DEF Shows
<1>2. y \in Int /\ z \in Int
  OBVIOUS
<1> HIDE DEF y, z
<1>3. (ra * (y + Tab - Tac)) * (rb * z) - (rb * (y - Tbc)) * (ra * z)
        = (rb * z) * (ra * (Tbc + Tab - Tac))
  BY <1>2
<1> QED BY <1>1, <1>3 DEF PassiveTof, PassiveOf

\* Neither formula divides by zero if b's messages are of different times.
LEMMA Denominators ==
  ASSUME NEW ra, NEW rb, NEW oa, NEW ob, NEW t1, NEW t2, NEW t3,
         NEW Tab, NEW Tac, NEW Tbc,
         ra \in Nat \ {0}, rb \in Nat \ {0}, oa \in Int, ob \in Int,
         t1 \in Int, t2 \in Int, t3 \in Int, t1 < t3,
         Tab \in Int, Tac \in Int, Tbc \in Int
  PROVE  /\ ActiveOf(ra, rb, oa, ob, t1, t2, t3, Tab).den # 0
         /\ PassiveOf(ra, rb, oa, ob, t1, t2, t3, Tab, Tac, Tbc).den # 0
<1>1. Shows(rb, ob, t3) - Shows(rb, ob, t1) = rb * (t3 - t1)
  BY DEF Shows
<1>2. /\ Shows(ra, oa, t3 + Tab) - Shows(ra, oa, t2) = ra * (t3 + Tab - t2)
      /\ Shows(rb, ob, t2 + Tab) - Shows(rb, ob, t1) = rb * (t2 + Tab - t1)
      /\ Shows(ra, oa, t2) - Shows(ra, oa, t1 + Tab) = ra * (t2 - t1 - Tab)
      /\ Shows(rb, ob, t3) - Shows(rb, ob, t2 + Tab) = rb * (t3 - t2 - Tab)
  BY DEF Shows
<1>3. ra * (t3 + Tab - t2) + rb * (t2 + Tab - t1) + ra * (t2 - t1 - Tab)
        + rb * (t3 - t2 - Tab) = (ra + rb) * (t3 - t1)
  OBVIOUS
<1>4. \A x, y \in Int : x >= 1 /\ y >= 1 => x * y # 0
  OBVIOUS
<1>5. rb * (t3 - t1) # 0 /\ (ra + rb) * (t3 - t1) # 0
  BY <1>4
<1> QED BY <1>1, <1>2, <1>3, <1>5 DEF ActiveTof, PassiveTof, ActiveOf, PassiveOf

=============================================================================
