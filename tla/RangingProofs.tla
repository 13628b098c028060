--------------------------- MODULE RangingProofs ---------------------------
(***************************************************************************)
(* Proofs about Ranging.tla, for all boards, counters, distances, losses   *)
(* and restarts: a measurement whose times belong together is exact, and   *)
(* one whose sender's preceding message was heard is made of such times.   *)
(*                                                                         *)
(* A counter starts again when its board restarts, and numbers are used    *)
(* again, so that no present value of the state explains an old time.  The *)
(* invariant says that there is a history that explains all of them: off,  *)
(* the value of a counter at global time 0 in each life of its board, and  *)
(* when, the global time of each message of each life.                     *)
(***************************************************************************)
EXTENDS Ranging, NodeProofs, FiniteSetTheorems, SequenceTheorems

\* What a counter of n shows at global time 0, in an epoch.
Base(off, n, epoch) == off[<<n, epoch[1]>>] - (epoch[2] * Turn)

\* The history knows message s of c and the lives of an entry about it at a.
EntryFits(off, when, a, c, s, entry) ==
  /\ <<a, entry.own[1]>> \in DOMAIN off /\ entry.own[2] \in Int
  /\ <<c, entry.of[1]>> \in DOMAIN off /\ entry.of[2] \in Int
  /\ <<c, entry.of[1], s>> \in DOMAIN when

\* When the message was sent, and when it was received.
SentAt(when, c, s, entry) == when[<<c, entry.of[1], s>>]
RxFits(off, when, a, c, s, entry, time) ==
  time = SentAt(when, c, s, entry) + Flight[c][a] + Base(off, a, entry.own)
TxFits(off, when, c, s, entry, epoch, time) ==
  time = SentAt(when, c, s, entry) + Base(off, c, epoch)

\* What host h of a has stored, with the epochs e.
TimesFit(off, when, a, h, e) ==
  /\ \A c \in Ids \ {a}, s \in Nat :
       /\ <<c, s>> \in DOMAIN h.rx_ts => <<c, s>> \in DOMAIN e
       /\ <<c, s>> \in DOMAIN e =>
            /\ <<c, s>> \in DOMAIN h.rx_ts /\ <<c, s>> \in DOMAIN h.other_tx_ts
            /\ EntryFits(off, when, a, c, s, e[<<c, s>>])
            /\ RxFits(off, when, a, c, s, e[<<c, s>>], h.rx_ts[<<c, s>>])
            /\ TxFits(off, when, c, s, e[<<c, s>>], e[<<c, s>>].of, h.other_tx_ts[<<c, s>>])
  /\ \A s \in Nat : s \in DOMAIN h.tx_ts =>
       /\ <<a, s>> \in DOMAIN e
       /\ EntryFits(off, when, a, a, s, e[<<a, s>>])
       /\ TxFits(off, when, a, s, e[<<a, s>>], e[<<a, s>>].own, h.tx_ts[s])

HostFits(off, when, a, h, e) ==
  /\ DOMAIN h = Fields /\ h.node_id = a
  /\ h.active = {} /\ h.passive = {}
  /\ TimesFit(off, when, a, h, e)

\* What b has stored of the others' messages.
ElementFits(off, when, b, c, element) ==
  /\ element.seq \in Nat
  /\ EntryFits(off, when, b, c, element.seq, element)
  /\ RxFits(off, when, b, c, element.seq, element, element.rx)

TableFits(off, when, b, t) ==
  \A c \in DOMAIN t : c \in Ids \ {b} /\ ElementFits(off, when, b, c, t[c])

Shape ==
  /\ now \in Nat
  /\ seq \in [Ids -> Nat \ {0}]
  /\ life \in [Ids -> Nat \ {0}]
  /\ offset \in [Ids -> Int]
  /\ DOMAIN table = Ids /\ DOMAIN host = Ids /\ DOMAIN born = Ids

\* The history is that of the boards, and is of the past only.
Known(off) ==
  /\ \A k \in DOMAIN off : off[k] \in Int
  /\ \A n \in Ids : <<n, life[n]>> \in DOMAIN off /\ off[<<n, life[n]>>] = offset[n]
  /\ \A n \in Ids : \A l : <<n, l>> \in DOMAIN off => l \in Nat /\ l <= life[n]

Past(when) ==
  /\ \A k \in DOMAIN when : when[k] \in Int
  /\ \A n \in Ids : \A l, s : <<n, l, s>> \in DOMAIN when =>
       l \in Nat /\ s \in Nat /\ (l < life[n] \/ (l = life[n] /\ s < seq[n]))

Explained(off, when) ==
  /\ Known(off)
  /\ Past(when)
  /\ \A n \in Ids : HostFits(off, when, n, host[n], born[n])
  /\ \A n \in Ids : TableFits(off, when, n, table[n])

IInv ==
  /\ Shape
  /\ ExactIfRight
  /\ RightIfRecent
  /\ \E off, when : Explained(off, when)

-----------------------------------------------------------------------------
(* The counter. *)

LEMMA TurnIs == Turn \in Nat \ {0}
<1>1. \A x, y \in Nat \ {0} : x * y \in Nat \ {0}
  OBVIOUS
<1> QED BY <1>1, LowAssumption, HighAssumption DEF Turn

LEMMA DivisionIs ==
  ASSUME NEW x \in Int, NEW d \in Nat \ {0}
  PROVE  /\ x \div d \in Int /\ x % d \in 0..(d - 1)
         /\ x = ((x \div d) * d) + (x % d)
OBVIOUS

LEMMA QuotientIs ==
  ASSUME NEW q \in Int, NEW r \in Nat, NEW d \in Nat \ {0}, r < d
  PROVE  (((q * d) + r) \div d) = q
<1> DEFINE x == (q * d) + r
           p == x \div d
           m == x % d
<1>1. x \in Int
  OBVIOUS
<1> HIDE DEF x
<1>2. p \in Int /\ m \in 0..(d - 1) /\ x = (p * d) + m
  BY <1>1, DivisionIs
<1> HIDE DEF p, m
<1>3. (p - q) * d = r - m
  BY <1>2 DEF x
<1>4. r - m < d /\ r - m > -d
  BY <1>2
<1>5. \A k \in Int : k * d < d /\ k * d > -d => k = 0
  <2> SUFFICES ASSUME NEW k \in Int, k # 0, k * d < d, k * d > -d PROVE FALSE
    OBVIOUS
  <2>1. CASE k >= 1
    <3>1. k * d >= d
      <4>1. \A i, j \in Nat : (i + 1) * j >= j
        OBVIOUS
      <4>2. k - 1 \in Nat /\ k = (k - 1) + 1
        BY <2>1
      <4> QED BY <4>1, <4>2
    <3> QED BY <3>1
  <2>2. CASE k <= -1
    <3>1. (-k) * d >= d
      <4>1. \A i, j \in Nat : (i + 1) * j >= j
        OBVIOUS
      <4>2. -k - 1 \in Nat /\ -k = (-k - 1) + 1
        BY <2>2
      <4> QED BY <4>1, <4>2
    <3>2. (-k) * d = -(k * d)
      OBVIOUS
    <3>3. k * d \in Int
      OBVIOUS
    <3> QED BY <3>1, <3>2, <3>3
  <2> QED BY <2>1, <2>2
<1>6. p - q \in Int /\ p - q = 0
  BY <1>2, <1>3, <1>4, <1>5
<1> QED BY <1>2, <1>6 DEF p, x

\* A reading of the counter, in its epoch.
LEMMA ReadingIs ==
  ASSUME Shape, NEW m \in Ids, NEW g \in Int
  PROVE  /\ Epoch(m, g)[1] = life[m] /\ Epoch(m, g)[2] \in Int
         /\ ReadTime(Counter(m, g)) = g + offset[m] - (Epoch(m, g)[2] * Turn)
<1>1. Counter(m, g) \in Int
  BY DEF Counter, Shape
<1>2. Counter(m, g) = ((Counter(m, g) \div Turn) * Turn) + (Counter(m, g) % Turn)
  BY <1>1, TurnIs, DivisionIs
<1>3. Counter(m, g) \div Turn \in Int /\ Counter(m, g) % Turn \in Int
  BY <1>1, TurnIs, DivisionIs
<1> DEFINE q == Counter(m, g) \div Turn
<1>4. q * Turn \in Int
  BY <1>3, TurnIs
<1>5. Epoch(m, g)[1] = life[m] /\ Epoch(m, g)[2] = q
  BY DEF Epoch
<1> QED BY <1>1, <1>2, <1>3, <1>4, <1>5 DEF ReadTime, Counter, Shape

\* The times of a transmission: when it is made, as reported, as carried.
LEMMA TransmissionIs ==
  ASSUME Shape, NEW n \in Ids
  PROVE  /\ Air(n) \in Int /\ TimestampOf(n) \in Int
         /\ TimestampOf(n) % Turn = DepartureTime(TxTimeOf(n))
         /\ LET e == EpochOf(n, Air(n), TimestampOf(n))
            IN  /\ e[1] = life[n] /\ e[2] \in Int
                /\ TimestampOf(n) = Air(n) + offset[n] - (e[2] * Turn)
         /\ LET e == Epoch(n, Air(n))
            IN  /\ e[1] = life[n] /\ e[2] \in Int
                /\ Carried(TimestampOf(n)) = Air(n) + offset[n] - (e[2] * Turn)
<1> DEFINE C == Counter(n, now)
           ts == TimestampOf(n)
           D == DepartureTime(TxTimeOf(n))
<1>1. C \in Int /\ now \in Int /\ offset[n] \in Int /\ C = now + offset[n]
  BY DEF Counter, Shape
<1>2. TxTimeOf(n) \in Int
  <2>1. ReadTime(C) \in Int
    BY <1>1, TurnIs, DivisionIs DEF ReadTime
  <2> DEFINE t == ReadTime(C)
  <2>2. t + Processing \in Int
    BY <2>1, DelayAssumption
  <2> HIDE DEF C, t
  <2>3. (t + Processing) \div Low \in Int
    BY <2>2, LowAssumption, DivisionIs
  <2>4. ((t + Processing) \div Low) % High \in Int
    BY <2>3, HighAssumption, DivisionIs
  <2> QED BY <2>4 DEF TxTimeOf, TxTime, t, C
<1>3. ts \in Int
  <2>1. \A t, l, a \in Int : (t - (t % 2)) * l + a \in Int
    OBVIOUS
  <2>2. Low \in Int /\ AntennaDelay \in Int
    BY LowAssumption, DelayAssumption
  <2> QED BY <1>2, <2>1, <2>2 DEF TimestampOf, TxTimestamp
<1>4. ts % Turn = D
  BY DEF TimestampOf, TxTimestamp, DepartureTime
<1> HIDE DEF ts, D, C
<1>5. D \in 0..(Turn - 1) /\ ts = ((ts \div Turn) * Turn) + D /\ ts \div Turn \in Int
  BY <1>3, <1>4, TurnIs, DivisionIs
<1> DEFINE q == (D - C) \div Turn
           p == ts \div Turn
<1>6. q \in Int /\ D - C = (q * Turn) + ((D - C) % Turn) /\ (D - C) % Turn \in Int
  <2>1. D - C \in Int
    BY <1>1, <1>5, TurnIs
  <2>2. \A x \in Int : /\ x \div Turn \in Int /\ x % Turn \in Int
                        /\ x = ((x \div Turn) * Turn) + (x % Turn)
    BY TurnIs, DivisionIs
  <2> QED BY <2>1, <2>2
<1>7. Air(n) \in Int /\ Air(n) = now + ((D - C) % Turn)
  BY <1>1, <1>6 DEF Air, C, D
<1> HIDE DEF q, p
<1>8. q * Turn \in Int /\ p * Turn \in Int /\ p \in Int
  BY <1>5, <1>6, TurnIs DEF p
<1>9. Air(n) + offset[n] = D - (q * Turn)
  <2>1. D \in Int
    BY <1>5, TurnIs
  <2>2. \A c, d, g, o, m, x \in Int : c = g + o /\ d - c = x + m => g + m + o = d - x
    OBVIOUS
  <2> QED BY <1>1, <1>6, <1>7, <1>8, <2>1, <2>2
<1>10. Counter(n, Air(n)) = Air(n) + offset[n]
  BY DEF Counter
<1>11. /\ EpochOf(n, Air(n), ts)[1] = life[n]
       /\ EpochOf(n, Air(n), ts)[2] \in Int
       /\ ts = Air(n) + offset[n] - (EpochOf(n, Air(n), ts)[2] * Turn)
  <2> DEFINE k == -q - p
  <2>1. Counter(n, Air(n)) - ts = (k * Turn) + 0
    <3>1. ts = (p * Turn) + D
      BY <1>5 DEF p
    <3>2. Counter(n, Air(n)) - ts = -(q * Turn) - (p * Turn)
      BY <1>1, <1>3, <1>5, <1>8, <1>9, <1>10, <3>1, TurnIs
    <3>3. k * Turn = -(q * Turn) - (p * Turn)
      BY <1>6, <1>8, TurnIs
    <3> QED BY <1>8, <3>2, <3>3
  <2>2. k \in Int
    BY <1>6, <1>8
  <2> HIDE DEF k
  <2>3. (Counter(n, Air(n)) - ts) \div Turn = k
    BY <2>1, <2>2, TurnIs, QuotientIs
  <2>4. EpochOf(n, Air(n), ts)[1] = life[n] /\ EpochOf(n, Air(n), ts)[2] = k
    BY <2>3 DEF EpochOf
  <2>5. k * Turn \in Int
    BY <2>2, TurnIs
  <2> QED BY <1>1, <1>3, <1>7, <1>10, <2>1, <2>2, <2>4, <2>5
<1>12. /\ Epoch(n, Air(n))[1] = life[n] /\ Epoch(n, Air(n))[2] \in Int
       /\ Carried(ts) = Air(n) + offset[n] - (Epoch(n, Air(n))[2] * Turn)
  <2> DEFINE k == -q
  <2>1. k \in Int /\ k * Turn = -(q * Turn)
    BY <1>6, TurnIs
  <2>2. Counter(n, Air(n)) = (k * Turn) + D
    BY <1>5, <1>8, <1>9, <1>10, <2>1, TurnIs
  <2> HIDE DEF k
  <2>3. Counter(n, Air(n)) \div Turn = k
    <3>1. D \in Nat /\ D < Turn
      BY <1>5, TurnIs
    <3> QED BY <2>1, <2>2, <3>1, TurnIs, QuotientIs
  <2>4. Epoch(n, Air(n))[1] = life[n] /\ Epoch(n, Air(n))[2] = k
    BY <2>3 DEF Epoch
  <2>5. k * Turn \in Int /\ D \in Int
    BY <1>5, <2>1, TurnIs
  <2> QED BY <1>1, <1>4, <1>7, <1>10, <2>1, <2>2, <2>4, <2>5 DEF Carried
<1> QED BY <1>3, <1>4, <1>7, <1>11, <1>12 DEF ts, D

-----------------------------------------------------------------------------
(* The timestamps of a message, and what a host measures with one. *)

\* The ranks of ids are all the numbers up to their count.
LEMMA NthIs ==
  ASSUME NEW ids, ids \subseteq Nat, IsFiniteSet(ids), NEW i \in 1..Cardinality(ids)
  PROVE  Nth(ids, i) \in ids
<1> DEFINE upto(m) == {k \in ids : k <= m}
           N == Cardinality(ids)
           rank == [m \in ids |-> Cardinality(upto(m))]
<1>1. N \in Nat /\ IsFiniteSet(1..N) /\ Cardinality(1..N) = N
  <2>1. N \in Nat
    BY FS_CardinalityType
  <2> HIDE DEF N
  <2>2. IsFiniteSet(1..N) /\ Cardinality(1..N) = IF 1 > N THEN 0 ELSE N - 1 + 1
    BY <2>1, FS_Interval
  <2> QED BY <2>1, <2>2
<1>2. \A m \in ids : IsFiniteSet(upto(m)) /\ Cardinality(upto(m)) \in 1..N
  <2> SUFFICES ASSUME NEW m \in ids
               PROVE  IsFiniteSet(upto(m)) /\ Cardinality(upto(m)) \in 1..N
    OBVIOUS
  <2>1. upto(m) \in SUBSET ids /\ m \in upto(m)
    OBVIOUS
  <2> HIDE DEF upto
  <2>2. IsFiniteSet(upto(m)) /\ Cardinality(upto(m)) <= N
    BY <2>1, FS_Subset
  <2>3. Cardinality(upto(m)) \in Nat /\ Cardinality(upto(m)) # 0
    BY <2>1, <2>2, FS_CardinalityType, FS_EmptySet
  <2> HIDE DEF N
  <2> QED BY <1>1, <2>2, <2>3
<1>3. \A m, l \in ids : m < l => Cardinality(upto(m)) # Cardinality(upto(l))
  <2> SUFFICES ASSUME NEW m \in ids, NEW l \in ids, m < l
               PROVE  Cardinality(upto(m)) # Cardinality(upto(l))
    OBVIOUS
  <2>1. m \in Int /\ l \in Int /\ \A k \in ids : k \in Int
    OBVIOUS
  <2>2. (\A k \in ids : k <= m => k <= l) /\ l <= l /\ ~(l <= m)
    BY <2>1
  <2>3. upto(m) \subseteq upto(l) /\ l \in upto(l) /\ l \notin upto(m)
    BY <2>2
  <2> HIDE DEF upto
  <2> QED BY <1>2, <2>3, FS_Subset
<1>4. rank \in Injection(ids, 1..N)
  <2>1. rank \in [ids -> 1..N]
    BY <1>2
  <2>2. \A m, l \in ids : rank[m] = rank[l] => m = l
    <3> SUFFICES ASSUME NEW m \in ids, NEW l \in ids, rank[m] = rank[l] PROVE m = l
      OBVIOUS
    <3>1. Cardinality(upto(m)) = Cardinality(upto(l))
      OBVIOUS
    <3>2. m \in Nat /\ l \in Nat
      OBVIOUS
    <3> HIDE DEF upto, rank
    <3> QED BY <1>3, <3>1, <3>2
  <2> HIDE DEF rank
  <2> QED BY <2>1, <2>2 DEF Injection, IsInjective
<1>5. rank \in Surjection(ids, 1..N)
  <2> HIDE DEF rank
  <2> QED BY <1>1, <1>4, FS_Injection
<1>6. \E m \in ids : Cardinality(upto(m)) = i
  BY <1>5 DEF Surjection
<1> QED BY <1>6 DEF Nth

\* The timestamp that element m of n's table becomes.
Stamp(n, m) == [id |-> m, seq |-> table[n][m].seq, rx |-> table[n][m].rx]

LEMMA EchoesAre ==
  ASSUME NEW n \in Ids, DOMAIN table[n] \subseteq Ids
  PROVE  Echoes(n) \in Seq({Stamp(n, m) : m \in DOMAIN table[n]})
<1> DEFINE heard == DOMAIN table[n]
           N == Cardinality(heard)
<1>1. heard \subseteq Nat /\ IsFiniteSet(heard)
  BY IdsAssumption, FS_Subset
<1>2. N \in Nat
  BY <1>1, FS_CardinalityType
<1>3. \A i \in 1..N : Nth(heard, i) \in heard
  BY <1>1, NthIs
<1>4. Echoes(n) = [i \in 1..N |-> Stamp(n, Nth(heard, i))]
  BY DEF Echoes, Stamp
<1> HIDE DEF heard, N
<1>5. Echoes(n) \in [1..N -> {Stamp(n, m) : m \in heard}]
  BY <1>3, <1>4
<1> QED BY <1>2, <1>5, SeqDef DEF heard

\* Host h of a, with the epochs e, measures with timestamp ts of message m3 of
\* b, made of element at of b's table, and the times belong together.
Fitting(off, when, a, b, c, h, e, m1, ts, at, m3) ==
  /\ a \in Ids /\ b \in Ids /\ c \in Ids /\ a # b /\ c # b
  /\ \A k \in DOMAIN off : off[k] \in Int
  /\ \A k \in DOMAIN when : when[k] \in Int
  /\ h.node_id = a /\ TimesFit(off, when, a, h, e)
  /\ m3 \in Nat /\ <<b, m3>> \in DOMAIN h.rx_ts
  /\ ElementFits(off, when, b, c, at)
  /\ ts = [id |-> c, seq |-> at.seq, rx |-> at.rx]
  /\ m1 = GetStoredRx(h, b, m3)
  /\ Measured(h, b, m1, ts, m3)
  /\ Fit(e, b, m1, ts, at, m3)

ActiveIsExact(a, b, h, m1, ts, m3) ==
  LET m == ActiveMeasurement(h, b, m1, ts, m3)
  IN  m.num = m.den * Flight[a][b]

PassiveIsExact(a, b, c, h, m1, ts, m3) ==
  LET m == PassiveMeasurement(h, b, m1, ts, m3)
  IN  m.num = m.den * (Flight[b][c] + Flight[a][b] - Flight[a][c])

\* A measurement of times that belong together is exact.
LEMMA FittingIsExact ==
  ASSUME NEW off, NEW when, NEW a, NEW b, NEW c, NEW h, NEW e, NEW m1, NEW ts, NEW at,
         NEW m3, Fitting(off, when, a, b, c, h, e, m1, ts, at, m3)
  PROVE  /\ c = a => ActiveIsExact(a, b, h, m1, ts, m3)
         /\ c # a => PassiveIsExact(a, b, c, h, m1, ts, m3)
<1> SUFFICES ASSUME a \in Ids, b \in Ids, c \in Ids, a # b, c # b,
                    \A k \in DOMAIN off : off[k] \in Int,
                    \A k \in DOMAIN when : when[k] \in Int,
                    h.node_id = a, TimesFit(off, when, a, h, e),
                    m3 \in Nat, <<b, m3>> \in DOMAIN h.rx_ts,
                    ElementFits(off, when, b, c, at),
                    ts = [id |-> c, seq |-> at.seq, rx |-> at.rx],
                    m1 = GetStoredRx(h, b, m3),
                    Measured(h, b, m1, ts, m3),
                    Fit(e, b, m1, ts, at, m3)
             PROVE  /\ c = a => ActiveIsExact(a, b, h, m1, ts, m3)
                    /\ c # a => PassiveIsExact(a, b, c, h, m1, ts, m3)
  BY DEF Fitting
<1> DEFINE first == e[<<b, m1>>]
           second == e[<<c, at.seq>>]
           third == e[<<b, m3>>]
           oa == Base(off, a, third.own)
           ob == Base(off, b, third.of)
           t1 == when[<<b, third.of[1], m1>>]
           t2 == when[<<c, at.of[1], at.seq>>]
           t3 == when[<<b, third.of[1], m3>>]
           Tab == Flight[a][b]
           Tac == Flight[a][c]
           Tbc == Flight[b][c]
<1>1. m1 \in Nat /\ <<b, m1>> \in DOMAIN h.rx_ts
  <2>1. m1 # NoSeq
    BY DEF Measured, Breaks
  <2> QED BY <2>1, StoredRxIsNewest
<1>2. at.seq \in Nat /\ ts.id = c /\ ts.seq = at.seq /\ ts.rx = at.rx
  BY DEF ElementFits
<1>3. /\ first = third /\ second.own = third.own
      /\ at.own = third.of /\ at.of[1] = second.of[1]
  BY <1>2 DEF Fit
<1>4. /\ Tab \in Int /\ Tac \in Int /\ Tbc \in Int
      /\ Flight[b][a] = Tab /\ Flight[c][a] = Tac /\ Flight[c][b] = Tbc
  BY FlightAssumption
<1>5. /\ <<b, m3>> \in DOMAIN e /\ <<b, m1>> \in DOMAIN e
      /\ EntryFits(off, when, a, b, m3, third) /\ EntryFits(off, when, a, b, m1, first)
      /\ RxFits(off, when, a, b, m3, third, h.rx_ts[<<b, m3>>])
      /\ TxFits(off, when, b, m3, third, third.of, h.other_tx_ts[<<b, m3>>])
      /\ RxFits(off, when, a, b, m1, first, h.rx_ts[<<b, m1>>])
      /\ TxFits(off, when, b, m1, first, first.of, h.other_tx_ts[<<b, m1>>])
  BY <1>1 DEF TimesFit
<1>6. /\ EntryFits(off, when, b, c, at.seq, at)
      /\ RxFits(off, when, b, c, at.seq, at, at.rx)
  BY DEF ElementFits
<1>7. oa \in Int /\ ob \in Int /\ t1 \in Int /\ t2 \in Int /\ t3 \in Int
  <2>1. \A k \in Int : k * Turn \in Int
    BY TurnIs
  <2>2. \A x, k \in Int : x - (k * Turn) \in Int
    BY <2>1
  <2> HIDE DEF first, third
  <2>3. oa \in Int /\ ob \in Int
    BY <1>5, <2>2 DEF EntryFits, Base
  <2>4. t1 \in Int /\ t3 \in Int
    BY <1>3, <1>5 DEF EntryFits
  <2>5. t2 \in Int
    BY <1>6 DEF EntryFits
  <2> QED BY <2>3, <2>4, <2>5
<1>8. /\ h.rx_ts[<<b, m3>>] = t3 + Tab + oa /\ h.rx_ts[<<b, m1>>] = t1 + Tab + oa
      /\ h.other_tx_ts[<<b, m3>>] = t3 + ob /\ h.other_tx_ts[<<b, m1>>] = t1 + ob
  <2> HIDE DEF first, third
  <2> QED BY <1>3, <1>4, <1>5 DEF RxFits, TxFits, SentAt
<1>9. ts.rx = t2 + Tbc + ob
  <2> HIDE DEF third
  <2> QED BY <1>2, <1>3, <1>4, <1>6 DEF RxFits, SentAt
<1>10. \A o, t \in Int : Shows(1, o, t) = t + o
  BY DEF Shows
<1>11. ASSUME c = a
       PROVE  LET m == ActiveMeasurement(h, b, m1, ts, m3) IN m.num = m.den * Tab
  <2>1. at.seq \in DOMAIN h.tx_ts
    BY <1>2, <1>11 DEF Measured, Raises
  <2>2. TxFits(off, when, a, at.seq, second, second.own, h.tx_ts[at.seq])
    BY <1>2, <1>11, <2>1 DEF TimesFit
  <2>3. h.tx_ts[at.seq] = t2 + oa
    <3> HIDE DEF second, third
    <3> QED BY <1>3, <1>11, <2>2 DEF TxFits, SentAt
  <2>4. Tab = Tbc
    BY <1>4, <1>11
  <2> DEFINE tof == ActiveOf(1, 1, oa, ob, t1, t2, t3, Tab)
             m == ActiveMeasurement(h, b, m1, ts, m3)
  <2> HIDE DEF oa, ob, t1, t2, t3, Tab, Tac, Tbc
  <2>5. /\ t1 + Tab \in Int /\ t2 + Tab \in Int /\ t3 + Tab \in Int
    BY <1>4, <1>7
  <2>6. m = [b |-> b, m3 |-> m3, num |-> tof.num, den |-> tof.den]
    BY <1>2, <1>7, <1>8, <1>9, <1>10, <2>3, <2>4, <2>5 DEF ActiveMeasurement, ActiveOf
  <2>7. tof.num * (1 + 1) = tof.den * (2 * 1 * 1 * Tab)
    BY <1>4, <1>7, ActiveTofExact
  <2>8. tof.num \in Int /\ tof.den \in Int
    <3>1. \A x, y, z, w \in Int : /\ ActiveTof(x, y, z, w).num \in Int
                                  /\ ActiveTof(x, y, z, w).den \in Int
      BY DEF ActiveTof
    <3>2. /\ Shows(1, oa, t3 + Tab) - Shows(1, oa, t2) \in Int
          /\ Shows(1, ob, t2 + Tab) - Shows(1, ob, t1) \in Int
          /\ Shows(1, oa, t2) - Shows(1, oa, t1 + Tab) \in Int
          /\ Shows(1, ob, t3) - Shows(1, ob, t2 + Tab) \in Int
      <4>1. /\ Shows(1, oa, t3 + Tab) \in Int /\ Shows(1, oa, t2) \in Int
            /\ Shows(1, ob, t2 + Tab) \in Int /\ Shows(1, ob, t1) \in Int
            /\ Shows(1, oa, t1 + Tab) \in Int /\ Shows(1, ob, t3) \in Int
        BY <1>7, <1>10, <2>5
      <4> QED BY <4>1
    <3> QED BY <3>1, <3>2 DEF ActiveOf
  <2> HIDE DEF tof
  <2>9. tof.num = tof.den * Tab
    <3> DEFINE num == tof.num
               den == tof.den
    <3>1. num \in Int /\ den \in Int /\ num * (1 + 1) = den * (2 * 1 * 1 * Tab)
      BY <2>7, <2>8
    <3> HIDE DEF num, den
    <3>2. num = den * Tab
      BY <1>4, <3>1
    <3> QED BY <3>2 DEF num, den
  <2> QED BY <2>6, <2>9
<1>12. ASSUME c # a
       PROVE  LET m == PassiveMeasurement(h, b, m1, ts, m3)
              IN  m.num = m.den * (Tbc + Tab - Tac)
  <2>1. <<c, at.seq>> \in DOMAIN h.rx_ts
    BY <1>2, <1>12 DEF Measured, Breaks
  <2>2. RxFits(off, when, a, c, at.seq, second, h.rx_ts[<<c, at.seq>>])
    BY <1>2, <1>12, <2>1 DEF TimesFit
  <2>3. h.rx_ts[<<c, at.seq>>] = t2 + Tac + oa
    <3> HIDE DEF second, third
    <3> QED BY <1>3, <1>4, <2>2 DEF RxFits, SentAt
  <2> DEFINE tof == PassiveOf(1, 1, oa, ob, t1, t2, t3, Tab, Tac, Tbc)
             m == PassiveMeasurement(h, b, m1, ts, m3)
  <2> HIDE DEF oa, ob, t1, t2, t3, Tab, Tac, Tbc
  <2>4. /\ t1 + Tab \in Int /\ t3 + Tab \in Int /\ t2 + Tac \in Int /\ t2 + Tbc \in Int
    BY <1>4, <1>7
  <2>5. m = [b |-> b, c |-> c, m3 |-> m3, num |-> tof.num, den |-> tof.den]
    BY <1>2, <1>7, <1>8, <1>9, <1>10, <2>3, <2>4 DEF PassiveMeasurement, PassiveOf
  <2>6. tof.num = tof.den * (1 * (Tbc + Tab - Tac))
    BY <1>4, <1>7, PassiveTofExact
  <2>7. 1 * (Tbc + Tab - Tac) = Tbc + Tab - Tac
    BY <1>4
  <2> HIDE DEF tof
  <2> QED BY <2>5, <2>6, <2>7
<1> QED BY <1>11, <1>12 DEF ActiveIsExact, PassiveIsExact

-----------------------------------------------------------------------------
(* What a longer history, and one more message, leave true. *)

Extends(f, g) == \A k \in DOMAIN f : k \in DOMAIN g /\ g[k] = f[k]

LEMMA PutExtends ==
  ASSUME NEW f, NEW k, NEW v, k \notin DOMAIN f
  PROVE  Extends(f, Put(f, k, v))
BY DEF Extends, Put

LEMMA EntryKept ==
  ASSUME NEW off, NEW when, NEW longer, NEW wider,
         Extends(off, longer), Extends(when, wider),
         NEW a, NEW c, NEW s, NEW entry, EntryFits(off, when, a, c, s, entry)
  PROVE  /\ EntryFits(longer, wider, a, c, s, entry)
         /\ SentAt(wider, c, s, entry) = SentAt(when, c, s, entry)
         /\ Base(longer, a, entry.own) = Base(off, a, entry.own)
         /\ Base(longer, c, entry.of) = Base(off, c, entry.of)
BY DEF EntryFits, Extends, SentAt, Base

LEMMA HostKept ==
  ASSUME NEW off, NEW when, NEW longer, NEW wider,
         Extends(off, longer), Extends(when, wider),
         NEW a, NEW h, NEW e, HostFits(off, when, a, h, e)
  PROVE  HostFits(longer, wider, a, h, e)
<1>1. TimesFit(off, when, a, h, e)
  BY DEF HostFits
<1>2. ASSUME NEW c \in Ids \ {a}, NEW s \in Nat
      PROVE  /\ <<c, s>> \in DOMAIN h.rx_ts => <<c, s>> \in DOMAIN e
             /\ <<c, s>> \in DOMAIN e =>
                  /\ <<c, s>> \in DOMAIN h.rx_ts /\ <<c, s>> \in DOMAIN h.other_tx_ts
                  /\ EntryFits(longer, wider, a, c, s, e[<<c, s>>])
                  /\ RxFits(longer, wider, a, c, s, e[<<c, s>>], h.rx_ts[<<c, s>>])
                  /\ TxFits(longer, wider, c, s, e[<<c, s>>], e[<<c, s>>].of,
                            h.other_tx_ts[<<c, s>>])
  <2>1. /\ <<c, s>> \in DOMAIN h.rx_ts => <<c, s>> \in DOMAIN e
        /\ <<c, s>> \in DOMAIN e =>
             /\ <<c, s>> \in DOMAIN h.rx_ts /\ <<c, s>> \in DOMAIN h.other_tx_ts
             /\ EntryFits(off, when, a, c, s, e[<<c, s>>])
             /\ RxFits(off, when, a, c, s, e[<<c, s>>], h.rx_ts[<<c, s>>])
             /\ TxFits(off, when, c, s, e[<<c, s>>], e[<<c, s>>].of, h.other_tx_ts[<<c, s>>])
    BY <1>1 DEF TimesFit
  <2> QED BY <2>1, EntryKept DEF RxFits, TxFits
<1>3. ASSUME NEW s \in Nat, s \in DOMAIN h.tx_ts
      PROVE  /\ <<a, s>> \in DOMAIN e
             /\ EntryFits(longer, wider, a, a, s, e[<<a, s>>])
             /\ TxFits(longer, wider, a, s, e[<<a, s>>], e[<<a, s>>].own, h.tx_ts[s])
  <2>1. /\ <<a, s>> \in DOMAIN e
        /\ EntryFits(off, when, a, a, s, e[<<a, s>>])
        /\ TxFits(off, when, a, s, e[<<a, s>>], e[<<a, s>>].own, h.tx_ts[s])
    BY <1>1, <1>3 DEF TimesFit
  <2> QED BY <2>1, EntryKept DEF TxFits
<1>4. TimesFit(longer, wider, a, h, e)
  BY <1>2, <1>3 DEF TimesFit
<1> QED BY <1>4 DEF HostFits

LEMMA TableKept ==
  ASSUME NEW off, NEW when, NEW longer, NEW wider,
         Extends(off, longer), Extends(when, wider),
         NEW b, NEW t, TableFits(off, when, b, t)
  PROVE  TableFits(longer, wider, b, t)
<1> SUFFICES ASSUME NEW c \in DOMAIN t
             PROVE  c \in Ids \ {b} /\ ElementFits(longer, wider, b, c, t[c])
  BY DEF TableFits
<1>1. c \in Ids \ {b} /\ ElementFits(off, when, b, c, t[c])
  BY DEF TableFits
<1> QED BY <1>1, EntryKept DEF ElementFits, RxFits

\* evaluate_tx stores the time of a transmission.
LEMMA TxKeeps ==
  ASSUME NEW off, NEW when, NEW a, NEW h, NEW e, HostFits(off, when, a, h, e),
         NEW s \in Nat, NEW tx, NEW entry, EntryFits(off, when, a, a, s, entry),
         TxFits(off, when, a, s, entry, entry.own, tx)
  PROVE  HostFits(off, when, a, EvaluateTx(h, [seq |-> s, tx |-> tx]),
                  Put(e, <<a, s>>, entry))
<1> DEFINE new == EvaluateTx(h, [seq |-> s, tx |-> tx])
           times == Put(h.tx_ts, s, tx)
           epochs == Put(e, <<a, s>>, entry)
<1>1. /\ DOMAIN times = {s} \cup DOMAIN h.tx_ts /\ times[s] = tx
      /\ \A x \in DOMAIN h.tx_ts : x # s => times[x] = h.tx_ts[x]
  BY DEF Put
<1>2. /\ DOMAIN epochs = {<<a, s>>} \cup DOMAIN e /\ epochs[<<a, s>>] = entry
      /\ \A x \in DOMAIN e : x # <<a, s>> => epochs[x] = e[x]
  BY DEF Put
<1> HIDE DEF times, epochs
<1>3. /\ DOMAIN new = Fields /\ new.node_id = h.node_id /\ new.tx_ts = times
      /\ new.rx_ts = h.rx_ts /\ new.other_tx_ts = h.other_tx_ts
      /\ new.active = h.active /\ new.passive = h.passive
  BY DEF EvaluateTx, Fields, HostFits, times
<1> HIDE DEF new
<1>4. TimesFit(off, when, a, h, e)
  BY DEF HostFits
<1>5. ASSUME NEW c \in Ids \ {a}, NEW j \in Nat
      PROVE  /\ <<c, j>> \in DOMAIN epochs <=> <<c, j>> \in DOMAIN e
             /\ <<c, j>> \in DOMAIN e => epochs[<<c, j>>] = e[<<c, j>>]
  <2>1. <<c, j>> # <<a, s>>
    OBVIOUS
  <2> QED BY <1>2, <2>1
<1>6. ASSUME NEW j \in Nat, j \in DOMAIN times
      PROVE  /\ <<a, j>> \in DOMAIN epochs
             /\ EntryFits(off, when, a, a, j, epochs[<<a, j>>])
             /\ TxFits(off, when, a, j, epochs[<<a, j>>], epochs[<<a, j>>].own, times[j])
  <2>1. CASE j = s
    BY <1>1, <1>2, <2>1
  <2>2. CASE j # s
    <3>1. j \in DOMAIN h.tx_ts /\ times[j] = h.tx_ts[j]
      BY <1>1, <1>6, <2>2
    <3>2. <<a, j>> \in DOMAIN e /\ <<a, j>> # <<a, s>>
      BY <1>4, <2>2, <3>1 DEF TimesFit
    <3>3. <<a, j>> \in DOMAIN epochs /\ epochs[<<a, j>>] = e[<<a, j>>]
      BY <1>2, <3>2
    <3> QED BY <1>4, <3>1, <3>3 DEF TimesFit
  <2> QED BY <2>1, <2>2
<1>7. TimesFit(off, when, a, new, epochs)
  BY <1>3, <1>4, <1>5, <1>6 DEF TimesFit
<1>8. HostFits(off, when, a, new, epochs)
  BY <1>3, <1>7 DEF HostFits
<1> QED BY <1>8 DEF new, epochs

\* evaluate_rx stores the times of a message.
LEMMA StoredKeeps ==
  ASSUME NEW off, NEW when, NEW a, NEW h, NEW e, HostFits(off, when, a, h, e),
         NEW line, line.sender \in Ids, line.sender # a, line.seq \in Nat,
         NEW entry, EntryFits(off, when, a, line.sender, line.seq, entry),
         RxFits(off, when, a, line.sender, line.seq, entry, line.rx),
         TxFits(off, when, line.sender, line.seq, entry, entry.of, line.tx)
  PROVE  LET b == line.sender
             s == line.seq
         IN  /\ TimesFit(off, when, a, Stored(h, line), Put(e, <<b, s>>, entry))
             /\ <<b, s>> \in DOMAIN Stored(h, line).rx_ts
             /\ Stored(h, line).rx_ts = Put(h.rx_ts, <<b, s>>, line.rx)
             /\ Stored(h, line).other_tx_ts = Put(h.other_tx_ts, <<b, s>>, line.tx)
             /\ Stored(h, line).tx_ts = h.tx_ts
             /\ Stored(h, line).node_id = a
<1> DEFINE b == line.sender
           s == line.seq
           key == <<b, s>>
           new == Stored(h, line)
           rx == Put(h.rx_ts, key, line.rx)
           tx == Put(h.other_tx_ts, key, line.tx)
           epochs == Put(e, key, entry)
<1>1. /\ DOMAIN rx = {key} \cup DOMAIN h.rx_ts /\ rx[key] = line.rx
      /\ \A x \in DOMAIN h.rx_ts : x # key => rx[x] = h.rx_ts[x]
  BY DEF Put
<1>2. /\ DOMAIN tx = {key} \cup DOMAIN h.other_tx_ts /\ tx[key] = line.tx
      /\ \A x \in DOMAIN h.other_tx_ts : x # key => tx[x] = h.other_tx_ts[x]
  BY DEF Put
<1>3. /\ DOMAIN epochs = {key} \cup DOMAIN e /\ epochs[key] = entry
      /\ \A x \in DOMAIN e : x # key => epochs[x] = e[x]
  BY DEF Put
<1>4. /\ new.node_id = a /\ new.tx_ts = h.tx_ts
      /\ new.rx_ts = rx /\ new.other_tx_ts = tx
  <2> HIDE DEF rx, tx
  <2> QED BY DEF Stored, Fields, HostFits, rx, tx
<1> HIDE DEF new, rx, tx, epochs, key
<1>5. TimesFit(off, when, a, h, e)
  BY DEF HostFits
<1>6. ASSUME NEW c \in Ids \ {a}, NEW j \in Nat
      PROVE  /\ <<c, j>> \in DOMAIN rx => <<c, j>> \in DOMAIN epochs
             /\ <<c, j>> \in DOMAIN epochs =>
                  /\ <<c, j>> \in DOMAIN rx /\ <<c, j>> \in DOMAIN tx
                  /\ EntryFits(off, when, a, c, j, epochs[<<c, j>>])
                  /\ RxFits(off, when, a, c, j, epochs[<<c, j>>], rx[<<c, j>>])
                  /\ TxFits(off, when, c, j, epochs[<<c, j>>], epochs[<<c, j>>].of,
                            tx[<<c, j>>])
  <2>1. CASE <<c, j>> = key
    <3>1. c = b /\ j = s
      BY <2>1 DEF key
    <3> QED BY <1>1, <1>2, <1>3, <2>1, <3>1
  <2>2. CASE <<c, j>> # key
    <3>1. /\ <<c, j>> \in DOMAIN rx => <<c, j>> \in DOMAIN h.rx_ts
          /\ <<c, j>> \in DOMAIN epochs => <<c, j>> \in DOMAIN e
      BY <1>1, <1>3, <2>2
    <3>2. <<c, j>> \in DOMAIN e =>
            /\ <<c, j>> \in DOMAIN h.rx_ts /\ <<c, j>> \in DOMAIN h.other_tx_ts
            /\ EntryFits(off, when, a, c, j, e[<<c, j>>])
            /\ RxFits(off, when, a, c, j, e[<<c, j>>], h.rx_ts[<<c, j>>])
            /\ TxFits(off, when, c, j, e[<<c, j>>], e[<<c, j>>].of, h.other_tx_ts[<<c, j>>])
      BY <1>5 DEF TimesFit
    <3>3. <<c, j>> \in DOMAIN h.rx_ts => <<c, j>> \in DOMAIN e
      BY <1>5 DEF TimesFit
    <3> QED BY <1>1, <1>2, <1>3, <2>2, <3>1, <3>2, <3>3
  <2> QED BY <2>1, <2>2
<1>7. ASSUME NEW j \in Nat, j \in DOMAIN h.tx_ts
      PROVE  /\ <<a, j>> \in DOMAIN epochs
             /\ EntryFits(off, when, a, a, j, epochs[<<a, j>>])
             /\ TxFits(off, when, a, j, epochs[<<a, j>>], epochs[<<a, j>>].own, h.tx_ts[j])
  <2>1. <<a, j>> \in DOMAIN e /\ <<a, j>> # key
    BY <1>5, <1>7 DEF TimesFit, key
  <2>2. <<a, j>> \in DOMAIN epochs /\ epochs[<<a, j>>] = e[<<a, j>>]
    BY <1>3, <2>1
  <2> QED BY <1>5, <1>7, <2>2 DEF TimesFit
<1>8. TimesFit(off, when, a, new, epochs)
  BY <1>4, <1>6, <1>7 DEF TimesFit
<1> QED BY <1>1, <1>4, <1>8 DEF new, epochs, rx, tx, key

\* evaluate_rx stores the times, and makes measurements as the properties ask.
LEMMA RxKeeps ==
  ASSUME NEW off, NEW when, NEW a \in Ids, NEW b \in Ids, a # b,
         \A k \in DOMAIN off : off[k] \in Int,
         \A k \in DOMAIN when : when[k] \in Int,
         seq[b] \in Nat \ {0},
         HostFits(off, when, a, host[a], born[a]),
         TableFits(off, when, b, table[b]),
         EntryFits(off, when, a, b, seq[b], EpochsAt(b, a)),
         RxFits(off, when, a, b, seq[b], EpochsAt(b, a), Line(b, a).rx),
         TxFits(off, when, b, seq[b], EpochsAt(b, a), EpochsAt(b, a).of, Line(b, a).tx)
  PROVE  LET h == EvaluateRx(host[a], Line(b, a))
             e == Put(born[a], <<b, seq[b]>>, EpochsAt(b, a))
         IN  /\ HostFits(off, when, a, [h EXCEPT !.active = {}, !.passive = {}], e)
             /\ \A x \in Measurements(a, h, e, b, Echoes(b), seq[b]) :
                  (x.right => x.exact) /\ (x.recent => x.right)
<1> DEFINE line == Line(b, a)
           m3 == seq[b]
           h == EvaluateRx(host[a], line)
           h1 == Stored(host[a], line)
           e == Put(born[a], <<b, m3>>, EpochsAt(b, a))
           m1 == GetStoredRx(h1, b, m3)
           stamps == {line.timestamps[i] : i \in DOMAIN line.timestamps}
           Stamps == {Stamp(b, c) : c \in DOMAIN table[b]}
<1>1. /\ line.sender = b /\ line.seq = m3 /\ line.timestamps = Echoes(b)
      /\ m3 \in Nat /\ m3 # 0
  BY DEF Line
<1>2. Echoes(b) \in Seq(Stamps)
  <2>1. DOMAIN table[b] \subseteq Ids
    BY DEF TableFits
  <2> QED BY <2>1, EchoesAre
<1>3. /\ DOMAIN host[a] = Fields /\ host[a].node_id = a
      /\ host[a].active = {} /\ host[a].passive = {}
  BY DEF HostFits
<1> HIDE DEF line, m3
<1>4. /\ TimesFit(off, when, a, h1, e)
      /\ <<b, m3>> \in DOMAIN h1.rx_ts
      /\ h1.rx_ts = Put(host[a].rx_ts, <<b, m3>>, line.rx)
      /\ h1.other_tx_ts = Put(host[a].other_tx_ts, <<b, m3>>, line.tx)
      /\ h1.tx_ts = host[a].tx_ts
      /\ h1.node_id = a
  <2>1. /\ EntryFits(off, when, a, b, m3, EpochsAt(b, a))
        /\ RxFits(off, when, a, b, m3, EpochsAt(b, a), line.rx)
        /\ TxFits(off, when, b, m3, EpochsAt(b, a), EpochsAt(b, a).of, line.tx)
    BY DEF line, m3
  <2> QED BY <1>1, <2>1, StoredKeeps
<1>5. /\ DOMAIN h = Fields
      /\ h.node_id = host[a].node_id /\ h.tx_ts = host[a].tx_ts
      /\ h.other_tx_ts = Put(host[a].other_tx_ts, <<b, m3>>, line.tx)
      /\ h.rx_ts = Put(host[a].rx_ts, <<b, m3>>, line.rx)
      /\ \A m \in h.active \ host[a].active :
           \E ts \in stamps : /\ Measured(h1, b, m1, ts, m3)
                              /\ ts.id = host[a].node_id
                              /\ m = ActiveMeasurement(h1, b, m1, ts, m3)
      /\ \A m \in h.passive \ host[a].passive :
           \E ts \in stamps : /\ Measured(h1, b, m1, ts, m3)
                              /\ ts.id # host[a].node_id
                              /\ m = PassiveMeasurement(h1, b, m1, ts, m3)
  <2>1. line.timestamps \in Seq(Stamps)
    BY <1>1, <1>2
  <2> HIDE DEF Stamps
  <2> QED BY <1>1, <1>3, <2>1, EvaluateRxIs
<1>6. h.rx_ts = h1.rx_ts /\ h.other_tx_ts = h1.other_tx_ts /\ h.tx_ts = h1.tx_ts
  <2> HIDE DEF h, h1
  <2> QED BY <1>4, <1>5
<1>7. GetStoredRx(h, b, m3) = m1
  <2> HIDE DEF h, h1
  <2> QED BY <1>6 DEF GetStoredRx, m1
<1>8. \A ts \in stamps : \E c \in DOMAIN table[b] : ts = Stamp(b, c)
  BY <1>1, <1>2
<1>9. stamps = ToSet(Echoes(b))
  BY <1>1 DEF ToSet
<1> HIDE DEF h, h1, e, m1, stamps, Stamps
<1>10. HostFits(off, when, a, [h EXCEPT !.active = {}, !.passive = {}], e)
  <2> DEFINE new == [h EXCEPT !.active = {}, !.passive = {}]
  <2>1. /\ DOMAIN new = Fields /\ new.node_id = a
        /\ new.active = {} /\ new.passive = {}
        /\ new.rx_ts = h1.rx_ts /\ new.other_tx_ts = h1.other_tx_ts /\ new.tx_ts = h1.tx_ts
    BY <1>3, <1>5, <1>6 DEF Fields
  <2> HIDE DEF new
  <2>2. TimesFit(off, when, a, new, e)
    BY <1>4, <2>1 DEF TimesFit
  <2>3. HostFits(off, when, a, new, e)
    BY <2>1, <2>2 DEF HostFits
  <2> QED BY <2>3 DEF new
<1>11. ASSUME NEW x \in Measurements(a, h, e, b, Echoes(b), m3)
       PROVE  (x.right => x.exact) /\ (x.recent => x.right)
  <2>1. PICK ts \in stamps :
          \E m \in {m \in h.active \cup h.passive :
                      IF "c" \in DOMAIN m THEN ts.id = m.c ELSE ts.id = a} :
            x = [right |-> Fit(e, b, m1, ts, table[b][ts.id], m3),
                 recent |-> /\ <<b, m3 - 1>> \in DOMAIN e
                            /\ Fit(e, b, m3 - 1, ts, table[b][ts.id], m3),
                 exact |-> m.num = m.den * Expected(a, m)]
    BY <1>7, <1>9 DEF Measurements
  <2>2. PICK m \in h.active \cup h.passive :
          /\ IF "c" \in DOMAIN m THEN ts.id = m.c ELSE ts.id = a
          /\ x = [right |-> Fit(e, b, m1, ts, table[b][ts.id], m3),
                  recent |-> /\ <<b, m3 - 1>> \in DOMAIN e
                             /\ Fit(e, b, m3 - 1, ts, table[b][ts.id], m3),
                  exact |-> m.num = m.den * Expected(a, m)]
    BY <2>1
  <2>3. PICK c \in DOMAIN table[b] : ts = Stamp(b, c)
    BY <1>8
  <2> DEFINE at == table[b][c]
  <2>4. /\ c \in Ids /\ c # b /\ ElementFits(off, when, b, c, at)
        /\ ts = [id |-> c, seq |-> at.seq, rx |-> at.rx] /\ ts.id = c
    BY <2>3 DEF TableFits, Stamp
  <2> HIDE DEF at
  <2>5. \A other \in stamps : other.id = c => other = ts
    BY <1>8, <2>3 DEF Stamp
  <2>6. /\ x.right = Fit(e, b, m1, ts, at, m3)
        /\ x.recent = (<<b, m3 - 1>> \in DOMAIN e /\ Fit(e, b, m3 - 1, ts, at, m3))
        /\ x.exact = (m.num = m.den * Expected(a, m))
    BY <2>2, <2>4 DEF at
  <2>7. \/ /\ c = a /\ Measured(h1, b, m1, ts, m3)
           /\ m = ActiveMeasurement(h1, b, m1, ts, m3)
        \/ /\ c # a /\ Measured(h1, b, m1, ts, m3)
           /\ m = PassiveMeasurement(h1, b, m1, ts, m3)
    <3>1. CASE m \in h.active
      <4>1. PICK other \in stamps : /\ Measured(h1, b, m1, other, m3)
                                    /\ other.id = a
                                    /\ m = ActiveMeasurement(h1, b, m1, other, m3)
        BY <1>3, <1>5, <3>1
      <4>2. "c" \notin DOMAIN m
        BY <4>1 DEF ActiveMeasurement
      <4>3. ts.id = a
        BY <2>2, <4>2
      <4> QED BY <2>4, <2>5, <4>1, <4>3
    <3>2. CASE m \in h.passive
      <4>1. PICK other \in stamps : /\ Measured(h1, b, m1, other, m3)
                                    /\ other.id # a
                                    /\ m = PassiveMeasurement(h1, b, m1, other, m3)
        BY <1>3, <1>5, <3>2
      <4>2. "c" \in DOMAIN m /\ m.c = other.id
        BY <4>1 DEF PassiveMeasurement
      <4>3. ts.id = other.id
        BY <2>2, <4>2
      <4> QED BY <2>4, <2>5, <4>1, <4>3
    <3> QED BY <3>1, <3>2
  <2>8. ASSUME x.right PROVE x.exact
    <3>1. Fit(e, b, m1, ts, at, m3)
      BY <2>6, <2>8
    <3>2. Measured(h1, b, m1, ts, m3)
      BY <2>7
    <3>3. Fitting(off, when, a, b, c, h1, e, m1, ts, at, m3)
      <4>1. m1 = GetStoredRx(h1, b, m3)
        BY DEF m1
      <4> QED BY <1>1, <1>4, <2>4, <3>1, <3>2, <4>1 DEF Fitting
    <3>4. CASE c = a /\ m = ActiveMeasurement(h1, b, m1, ts, m3)
      <4>1. m.b = b /\ "c" \notin DOMAIN m
        BY <3>4 DEF ActiveMeasurement
      <4>2. ActiveIsExact(a, b, h1, m1, ts, m3)
        BY <3>3, <3>4, FittingIsExact
      <4>3. m.num = m.den * Flight[a][b]
        BY <3>4, <4>2 DEF ActiveIsExact
      <4> QED BY <2>6, <4>1, <4>3 DEF Expected
    <3>5. CASE c # a /\ m = PassiveMeasurement(h1, b, m1, ts, m3)
      <4>1. m.b = b /\ "c" \in DOMAIN m /\ m.c = c
        BY <2>4, <3>5 DEF PassiveMeasurement
      <4>2. PassiveIsExact(a, b, c, h1, m1, ts, m3)
        BY <3>3, <3>5, FittingIsExact
      <4>3. m.num = m.den * (Flight[b][c] + Flight[a][b] - Flight[a][c])
        BY <3>5, <4>2 DEF PassiveIsExact
      <4> QED BY <2>6, <4>1, <4>3 DEF Expected
    <3> QED BY <2>7, <3>4, <3>5
  <2>9. ASSUME x.recent PROVE x.right
    <3>1. <<b, m3 - 1>> \in DOMAIN e /\ Fit(e, b, m3 - 1, ts, at, m3)
      BY <2>6, <2>9
    <3>2. m3 - 1 \in Nat /\ m3 - 1 < m3
      BY <1>1
    <3>3. <<b, m3 - 1>> \in DOMAIN h1.rx_ts
      BY <1>4, <3>1, <3>2 DEF TimesFit
    <3>4. m1 \in Nat /\ m1 < m3 /\ m3 - 1 <= m1
      BY <1>1, <3>2, <3>3, StoredRxIsNewest DEF m1
    <3>5. m1 = m3 - 1
      BY <1>1, <3>4
    <3> QED BY <2>6, <3>1, <3>5
  <2> QED BY <2>8, <2>9
<1> QED BY <1>10, <1>11 DEF h, e, line, m3

-----------------------------------------------------------------------------
(* The steps. *)

LEMMA InitFits == Init => IInv
<1> SUFFICES ASSUME Init PROVE IInv
  OBVIOUS
<1>1. Shape
  BY StartAssumption DEF Init, Shape
<1>2. ExactIfRight /\ RightIfRecent
  BY DEF Init, ExactIfRight, RightIfRecent
<1> DEFINE off == [k \in {<<n, 1>> : n \in Ids} |-> Start[k[1]]]
           when == [k \in {} |-> 0]
<1>4. \A n \in Ids : <<n, 1>> \in DOMAIN off /\ off[<<n, 1>>] = Start[n]
  OBVIOUS
<1>5. \A k \in DOMAIN off : \E n \in Ids : k = <<n, 1>> /\ off[k] = Start[n]
  OBVIOUS
<1>6. DOMAIN when = {}
  OBVIOUS
<1> HIDE DEF off, when
<1>7. Known(off)
  <2>1. \A n \in Ids : life[n] = 1 /\ offset[n] = Start[n] /\ Start[n] \in Int
    BY StartAssumption DEF Init
  <2> QED BY <1>4, <1>5, <2>1 DEF Known
<1>8. Past(when)
  BY <1>6 DEF Past
<1>9. ASSUME NEW n \in Ids
      PROVE  HostFits(off, when, n, host[n], born[n]) /\ TableFits(off, when, n, table[n])
  <2>1. host[n] = NewNode(n) /\ born[n] = <<>> /\ table[n] = <<>>
    BY DEF Init
  <2>2. DOMAIN born[n] = {} /\ DOMAIN table[n] = {}
    BY <2>1
  <2>3. /\ DOMAIN host[n] = Fields /\ host[n].node_id = n
        /\ host[n].active = {} /\ host[n].passive = {}
        /\ DOMAIN host[n].rx_ts = {} /\ DOMAIN host[n].tx_ts = {}
    BY <2>1 DEF NewNode, Fields
  <2> QED BY <2>2, <2>3 DEF HostFits, TimesFit, TableFits
<1>10. Explained(off, when)
  BY <1>7, <1>8, <1>9 DEF Explained
<1> QED BY <1>1, <1>2, <1>10 DEF IInv

\* A board restarts: a new life of its counter.
LEMMA RestartKeeps ==
  ASSUME IInv, NEW n \in Ids, Restart(n)
  PROVE  IInv'
<1>1. Shape
  BY DEF IInv
<1>2. PICK off, when : Explained(off, when)
  BY DEF IInv
<1>3. /\ seq' = [seq EXCEPT ![n] = 1] /\ table' = [table EXCEPT ![n] = <<>>]
      /\ offset' = [offset EXCEPT ![n] = -now] /\ life' = [life EXCEPT ![n] = @ + 1]
      /\ now' = now /\ host' = host /\ born' = born
      /\ measured' = measured /\ sentat' = sentat
  BY DEF Restart
<1>4. Shape'
  BY <1>1, <1>3 DEF Shape
<1>5. ExactIfRight' /\ RightIfRecent'
  BY <1>3 DEF IInv, ExactIfRight, RightIfRecent
<1> PICK key : key = <<n, life[n] + 1>>
  OBVIOUS
<1> PICK longer : longer = Put(off, key, -now)
  OBVIOUS
<1>6. Known(off) /\ Past(when)
  BY <1>2 DEF Explained
<1>7. life[n] \in Nat /\ now \in Nat
  BY <1>1 DEF Shape
<1>8. key \notin DOMAIN off
  <2> SUFFICES ASSUME key \in DOMAIN off PROVE FALSE
    OBVIOUS
  <2>1. life[n] + 1 <= life[n]
    BY <1>6 DEF Known
  <2> QED BY <1>7, <2>1
<1>9. Extends(off, longer) /\ Extends(when, when)
  BY <1>8, PutExtends DEF Extends
<1>10. /\ DOMAIN longer = {key} \cup DOMAIN off /\ longer[key] = -now
       /\ \A k \in DOMAIN off : k # key => longer[k] = off[k]
  BY DEF Put
<1>11. Known(longer)'
  <2>1. \A k \in DOMAIN longer : longer[k] \in Int
    BY <1>6, <1>7, <1>10 DEF Known
  <2>2. ASSUME NEW m \in Ids
        PROVE  /\ <<m, life'[m]>> \in DOMAIN longer
               /\ longer[<<m, life'[m]>>] = offset'[m]
    <3>1. CASE m = n
      BY <1>1, <1>3, <1>10, <3>1 DEF Shape
    <3>2. CASE m # n
      <4>1. life'[m] = life[m] /\ offset'[m] = offset[m]
        BY <1>1, <1>3, <3>2 DEF Shape
      <4>2. <<m, life[m]>> # key
        BY <3>2
      <4> QED BY <1>6, <1>10, <4>1, <4>2 DEF Known
    <3> QED BY <3>1, <3>2
  <2>3. ASSUME NEW m \in Ids, NEW l, <<m, l>> \in DOMAIN longer
        PROVE  l \in Nat /\ l <= life'[m]
    <3>1. CASE <<m, l>> = key
      <4>1. m = n /\ l = life[n] + 1
        BY <3>1
      <4> QED BY <1>1, <1>3, <1>7, <4>1 DEF Shape
    <3>2. CASE <<m, l>> # key
      <4>1. l \in Nat /\ l <= life[m] /\ life[m] \in Nat
        BY <1>1, <1>6, <1>10, <2>3, <3>2 DEF Known, Shape
      <4>2. life'[m] = life[m] \/ life'[m] = life[m] + 1
        BY <1>1, <1>3 DEF Shape
      <4> QED BY <4>1, <4>2
    <3> QED BY <3>1, <3>2
  <2> QED BY <2>1, <2>2, <2>3 DEF Known
<1>12. Past(when)'
  <2>1. ASSUME NEW m \in Ids, NEW l, NEW s, <<m, l, s>> \in DOMAIN when
        PROVE  l \in Nat /\ s \in Nat /\ (l < life'[m] \/ (l = life'[m] /\ s < seq'[m]))
    <3>1. l \in Nat /\ s \in Nat /\ (l < life[m] \/ (l = life[m] /\ s < seq[m]))
      BY <1>6, <2>1 DEF Past
    <3>2. CASE m = n
      <4>1. life'[m] = life[m] + 1 /\ life[m] \in Nat
        BY <1>1, <1>3, <3>2 DEF Shape
      <4> QED BY <3>1, <4>1
    <3>3. CASE m # n
      BY <1>1, <1>3, <3>1, <3>3 DEF Shape
    <3> QED BY <3>2, <3>3
  <2> QED BY <1>6, <2>1 DEF Past
<1>13. ASSUME NEW m \in Ids
       PROVE  /\ HostFits(longer, when, m, host'[m], born'[m])
              /\ TableFits(longer, when, m, table'[m])
  <2>1. HostFits(off, when, m, host[m], born[m]) /\ TableFits(off, when, m, table[m])
    BY <1>2 DEF Explained
  <2>2. HostFits(longer, when, m, host'[m], born'[m])
    BY <1>3, <1>9, <2>1, HostKept
  <2>3. CASE m = n
    <3>1. DOMAIN table'[m] = {}
      BY <1>1, <1>3, <2>3 DEF Shape
    <3> QED BY <2>2, <3>1 DEF TableFits
  <2>4. CASE m # n
    <3>1. table'[m] = table[m]
      BY <1>1, <1>3, <2>4 DEF Shape
    <3> QED BY <1>9, <2>1, <2>2, <3>1, TableKept
  <2> QED BY <2>3, <2>4
<1>14. Explained(longer, when)'
  BY <1>11, <1>12, <1>13 DEF Explained
<1> QED BY <1>4, <1>5, <1>14 DEF IInv

\* A board transmits: one more message in the history.
LEMMA TransmitKeeps ==
  ASSUME IInv, NEW n \in Ids, NEW reach \in SUBSET (Ids \ {n}), Transmit(n, reach)
  PROVE  IInv'
<1>1. Shape
  BY DEF IInv
<1>2. PICK off, when : Explained(off, when)
  BY DEF IInv
<1>3. Known(off) /\ Past(when)
  BY <1>2 DEF Explained
<1>4. PICK air : air = Air(n)
  OBVIOUS
<1>5. PICK key : key = <<n, life[n], seq[n]>>
  OBVIOUS
<1>6. PICK wider : wider = Put(when, key, air)
  OBVIOUS
<1>7. /\ air \in Int /\ life[n] \in Nat /\ seq[n] \in Nat \ {0}
      /\ life[n] \in Int /\ seq[n] \in Int
  BY <1>1, <1>4, TransmissionIs DEF Shape
<1>8. key \notin DOMAIN when
  <2> SUFFICES ASSUME key \in DOMAIN when PROVE FALSE
    OBVIOUS
  <2>1. life[n] < life[n] \/ seq[n] < seq[n]
    BY <1>3, <1>5 DEF Past
  <2> QED BY <1>7, <2>1
<1>9. Extends(when, wider) /\ Extends(off, off)
  BY <1>6, <1>8, PutExtends DEF Extends
<1>10. /\ DOMAIN wider = {key} \cup DOMAIN when /\ wider[key] = air
       /\ \A k \in DOMAIN when : k # key => wider[k] = when[k]
  BY <1>6 DEF Put
<1>11. /\ \A k \in DOMAIN off : off[k] \in Int
       /\ \A k \in DOMAIN wider : wider[k] \in Int
  BY <1>3, <1>7, <1>10 DEF Known, Past
<1>12. \A m \in Ids : /\ HostFits(off, wider, m, host[m], born[m])
                      /\ TableFits(off, wider, m, table[m])
  BY <1>2, <1>9, HostKept, TableKept DEF Explained
\* The times of this message fit.
<1>13. ASSUME NEW m \in Ids
       PROVE  EntryFits(off, wider, m, n, seq[n], EpochsAt(n, m))
  <2> DEFINE entry == EpochsAt(n, m)
  <2>1. entry.of[1] = life[n] /\ entry.of[2] \in Int
    BY <1>1, TransmissionIs DEF EpochsAt
  <2>2. entry.own[1] = life[m] /\ entry.own[2] \in Int
    <3>1. CASE m = n
      <4>1. entry.own = EpochOf(n, Air(n), TimestampOf(n))
        BY <3>1 DEF EpochsAt
      <4> QED BY <1>1, <3>1, <4>1, TransmissionIs
    <3>2. CASE m # n
      <4>1. entry.own = Epoch(m, Air(n) + Flight[n][m])
        BY <3>2 DEF EpochsAt
      <4>2. Air(n) + Flight[n][m] \in Int
        BY <1>4, <1>7, FlightAssumption
      <4> QED BY <1>1, <4>1, <4>2, ReadingIs
    <3> QED BY <3>1, <3>2
  <2> HIDE DEF entry
  <2>3. <<m, life[m]>> \in DOMAIN off /\ <<n, life[n]>> \in DOMAIN off
    BY <1>3 DEF Known
  <2>4. <<n, life[n], seq[n]>> \in DOMAIN wider
    BY <1>5, <1>10
  <2>5. EntryFits(off, wider, m, n, seq[n], entry)
    BY <2>1, <2>2, <2>3, <2>4 DEF EntryFits
  <2> QED BY <2>5 DEF entry
<1>14. \A m \in Ids : SentAt(wider, n, seq[n], EpochsAt(n, m)) = air
  <2> SUFFICES ASSUME NEW m \in Ids PROVE SentAt(wider, n, seq[n], EpochsAt(n, m)) = air
    OBVIOUS
  <2>1. EpochsAt(n, m).of[1] = life[n]
    BY <1>1, TransmissionIs DEF EpochsAt
  <2> QED BY <1>5, <1>10, <2>1 DEF SentAt
<1>15. \A m \in Ids : \A epoch :
         epoch[1] = life[m] => Base(off, m, epoch) = offset[m] - (epoch[2] * Turn)
  BY <1>3 DEF Known, Base
<1>16. \A k \in Int : k * Turn \in Int
  BY TurnIs
<1>17. \A m \in Ids : offset[m] \in Int
  BY <1>1 DEF Shape
<1>18. ASSUME NEW m \in Ids, m # n
       PROVE  /\ RxFits(off, wider, m, n, seq[n], EpochsAt(n, m), Line(n, m).rx)
              /\ TxFits(off, wider, n, seq[n], EpochsAt(n, m), EpochsAt(n, m).of,
                        Line(n, m).tx)
  <2> DEFINE own == EpochsAt(n, m).own
             of == EpochsAt(n, m).of
  <2>1. Air(n) + Flight[n][m] \in Int /\ Flight[n][m] \in Int
    BY <1>4, <1>7, FlightAssumption
  <2>2. /\ own[1] = life[m] /\ own[2] \in Int
        /\ Line(n, m).rx = air + Flight[n][m] + offset[m] - (own[2] * Turn)
    <3>1. own = Epoch(m, Air(n) + Flight[n][m])
      BY <1>18 DEF EpochsAt
    <3>2. Line(n, m).rx = ReadTime(Counter(m, Air(n) + Flight[n][m]))
      BY DEF Line
    <3> HIDE DEF own
    <3> QED BY <1>1, <1>4, <2>1, <3>1, <3>2, ReadingIs
  <2>3. /\ of[1] = life[n] /\ of[2] \in Int
        /\ Line(n, m).tx = air + offset[n] - (of[2] * Turn)
    <3>1. of = Epoch(n, Air(n)) /\ Line(n, m).tx = Carried(TimestampOf(n))
      BY DEF EpochsAt, Line
    <3> HIDE DEF of
    <3> QED BY <1>1, <1>4, <3>1, TransmissionIs
  <2> HIDE DEF own, of
  <2>4. own[2] * Turn \in Int /\ of[2] * Turn \in Int
    BY <1>16, <2>2, <2>3
  <2>5. Line(n, m).rx = air + Flight[n][m] + Base(off, m, own)
    BY <1>7, <1>15, <1>17, <2>1, <2>2, <2>4
  <2>6. Line(n, m).tx = air + Base(off, n, of)
    BY <1>7, <1>15, <1>17, <2>3, <2>4
  <2> QED BY <1>14, <2>5, <2>6 DEF RxFits, TxFits, own, of
<1>19. TxFits(off, wider, n, seq[n], EpochsAt(n, n), EpochsAt(n, n).own, TimestampOf(n))
  <2> DEFINE own == EpochsAt(n, n).own
  <2>1. own = EpochOf(n, Air(n), TimestampOf(n))
    BY DEF EpochsAt
  <2> HIDE DEF own
  <2>2. /\ own[1] = life[n] /\ own[2] \in Int
        /\ TimestampOf(n) = air + offset[n] - (own[2] * Turn)
    BY <1>1, <1>4, <2>1, TransmissionIs
  <2>3. own[2] * Turn \in Int
    BY <1>16, <2>2
  <2>4. TimestampOf(n) = air + Base(off, n, own)
    BY <1>7, <1>15, <1>17, <2>2, <2>3
  <2> QED BY <1>14, <2>4 DEF TxFits, own
\* What the step does.
<1> DEFINE heard(m) == EvaluateRx(host[m], Line(n, m))
           epochs(m) == Put(born[m], <<n, seq[n]>>, EpochsAt(n, m))
           element(m) == [seq |-> seq[n], rx |-> Line(n, m).rx,
                          own |-> EpochsAt(n, m).own, of |-> EpochsAt(n, m).of]
<1>20. /\ sentat' = [reported |-> TimestampOf(n), carried |-> Carried(TimestampOf(n))]
       /\ measured' = UNION {Measurements(m, heard(m), epochs(m), n, Echoes(n), seq[n]) :
                               m \in reach}
       /\ seq' = [seq EXCEPT ![n] = @ + 1]
       /\ now' = now + Interval /\ offset' = offset /\ life' = life
       /\ DOMAIN host' = Ids /\ DOMAIN born' = Ids /\ DOMAIN table' = Ids
       /\ host'[n] = EvaluateTx(host[n], [seq |-> seq[n], tx |-> TimestampOf(n)])
       /\ born'[n] = epochs(n) /\ table'[n] = table[n]
       /\ \A m \in reach : /\ host'[m] = [heard(m) EXCEPT !.active = {}, !.passive = {}]
                           /\ born'[m] = epochs(m)
                           /\ table'[m] = Put(table[m], n, element(m))
       /\ \A m \in Ids \ (reach \cup {n}) :
            host'[m] = host[m] /\ born'[m] = born[m] /\ table'[m] = table[m]
  BY DEF Transmit
<1>21. Shape'
  <2>1. now' \in Nat
    <3>1. now' = now + Interval /\ now \in Nat
      BY <1>1, <1>20 DEF Shape
    <3> QED BY <3>1, IntervalAssumption
  <2>2. seq' \in [Ids -> Nat \ {0}]
    <3>1. seq' = [seq EXCEPT ![n] = @ + 1] /\ seq \in [Ids -> Nat \ {0}]
      BY <1>1, <1>20 DEF Shape
    <3> QED BY <1>7, <3>1
  <2> QED BY <1>1, <1>20, <2>1, <2>2 DEF Shape
<1> HIDE DEF heard, epochs, element
<1>23. ASSUME NEW m \in reach
       PROVE  /\ HostFits(off, wider, m, host'[m], born'[m])
              /\ \A x \in Measurements(m, heard(m), epochs(m), n, Echoes(n), seq[n]) :
                   (x.right => x.exact) /\ (x.recent => x.right)
  <2>1. m \in Ids /\ m # n
    OBVIOUS
  <2>2. /\ EntryFits(off, wider, m, n, seq[n], EpochsAt(n, m))
        /\ RxFits(off, wider, m, n, seq[n], EpochsAt(n, m), Line(n, m).rx)
        /\ TxFits(off, wider, n, seq[n], EpochsAt(n, m), EpochsAt(n, m).of, Line(n, m).tx)
    BY <1>13, <1>18, <2>1
  <2>3. /\ HostFits(off, wider, m, [heard(m) EXCEPT !.active = {}, !.passive = {}], epochs(m))
        /\ \A x \in Measurements(m, heard(m), epochs(m), n, Echoes(n), seq[n]) :
             (x.right => x.exact) /\ (x.recent => x.right)
    BY <1>7, <1>11, <1>12, <2>1, <2>2, RxKeeps DEF heard, epochs
  <2> QED BY <1>20, <2>3
<1>24. ExactIfRight' /\ RightIfRecent'
  <2>1. ASSUME NEW x \in measured' PROVE (x.right => x.exact) /\ (x.recent => x.right)
    <3>1. PICK m \in reach :
            x \in Measurements(m, heard(m), epochs(m), n, Echoes(n), seq[n])
      <4>1. measured' = UNION {Measurements(m, heard(m), epochs(m), n, Echoes(n), seq[n]) :
                                 m \in reach}
        BY <1>20
      <4> QED BY <2>1, <4>1
    <3> QED BY <1>23, <3>1
  <2> QED BY <2>1 DEF ExactIfRight, RightIfRecent
<1>25. ASSUME NEW m \in Ids
       PROVE  HostFits(off, wider, m, host'[m], born'[m])
  <2>1. CASE m = n
    <3>1. HostFits(off, wider, n,
                   EvaluateTx(host[n], [seq |-> seq[n], tx |-> TimestampOf(n)]), epochs(n))
      BY <1>7, <1>12, <1>13, <1>19, TxKeeps DEF epochs
    <3> QED BY <1>20, <2>1, <3>1
  <2>2. CASE m \in reach
    BY <1>23, <2>2
  <2>3. CASE m \in Ids \ (reach \cup {n})
    BY <1>12, <1>20, <2>3
  <2> QED BY <2>1, <2>2, <2>3
<1>26. ASSUME NEW m \in Ids
       PROVE  TableFits(off, wider, m, table'[m])
  <2>1. CASE m \notin reach
    BY <1>12, <1>20, <2>1
  <2>2. CASE m \in reach
    <3>1. m # n
      BY <2>2
    <3>2. ElementFits(off, wider, m, n, element(m))
      <4>1. /\ element(m).seq = seq[n] /\ element(m).rx = Line(n, m).rx
            /\ element(m).own = EpochsAt(n, m).own /\ element(m).of = EpochsAt(n, m).of
        BY DEF element
      <4>2. EntryFits(off, wider, m, n, seq[n], element(m))
        BY <1>13, <4>1 DEF EntryFits
      <4>3. RxFits(off, wider, m, n, seq[n], element(m), element(m).rx)
        BY <1>18, <3>1, <4>1 DEF RxFits, SentAt
      <4> QED BY <1>7, <4>1, <4>2, <4>3 DEF ElementFits
    <3>3. TableFits(off, wider, m, table[m])
      BY <1>12
    <3>4. /\ DOMAIN table'[m] = {n} \cup DOMAIN table[m]
          /\ table'[m][n] = element(m)
          /\ \A c \in DOMAIN table[m] : c # n => table'[m][c] = table[m][c]
      <4>1. table'[m] = Put(table[m], n, element(m))
        BY <1>20, <2>2
      <4>2. PICK row, entry : row = table[m] /\ entry = element(m)
        OBVIOUS
      <4>3. table'[m] = Put(row, n, entry)
        BY <4>1, <4>2
      <4>4. /\ DOMAIN table'[m] = {n} \cup DOMAIN row
            /\ table'[m][n] = entry
            /\ \A c \in DOMAIN row : c # n => table'[m][c] = row[c]
        BY <4>3 DEF Put
      <4> QED BY <4>2, <4>4
    <3> SUFFICES ASSUME NEW c \in DOMAIN table'[m]
                 PROVE  c \in Ids \ {m} /\ ElementFits(off, wider, m, c, table'[m][c])
      BY DEF TableFits
    <3>5. CASE c = n
      BY <3>1, <3>2, <3>4, <3>5
    <3>6. CASE c # n
      BY <3>3, <3>4, <3>6 DEF TableFits
    <3> QED BY <3>5, <3>6
  <2> QED BY <2>1, <2>2
<1>27. Known(off)'
  BY <1>3, <1>20 DEF Known
<1>28. Past(wider)'
  <2>1. ASSUME NEW m \in Ids, NEW l, NEW s, <<m, l, s>> \in DOMAIN wider
        PROVE  l \in Nat /\ s \in Nat /\ (l < life[m] \/ (l = life[m] /\ s < seq'[m]))
    <3>1. CASE <<m, l, s>> = key
      <4>1. m = n /\ l = life[n] /\ s = seq[n]
        BY <1>5, <3>1
      <4>2. seq'[n] = seq[n] + 1
        BY <1>1, <1>20 DEF Shape
      <4> QED BY <1>7, <4>1, <4>2
    <3>2. CASE <<m, l, s>> # key
      <4>1. l \in Nat /\ s \in Nat /\ (l < life[m] \/ (l = life[m] /\ s < seq[m]))
        BY <1>3, <1>10, <2>1, <3>2 DEF Past
      <4>2. seq[m] \in Nat /\ (seq'[m] = seq[m] \/ seq'[m] = seq[m] + 1)
        BY <1>1, <1>20 DEF Shape
      <4> QED BY <4>1, <4>2
    <3> QED BY <3>1, <3>2
  <2> QED BY <1>11, <1>20, <2>1 DEF Past
<1>29. Explained(off, wider)'
  BY <1>25, <1>26, <1>27, <1>28 DEF Explained
<1> QED BY <1>21, <1>24, <1>29 DEF IInv

-----------------------------------------------------------------------------
(* The theorems. *)

LEMMA StutterKeeps == IInv /\ UNCHANGED vars => IInv'
<1> SUFFICES ASSUME IInv, UNCHANGED vars PROVE IInv'
  OBVIOUS
<1>1. PICK off, when : Explained(off, when)
  BY DEF IInv
<1>2. Explained(off, when)'
  BY <1>1 DEF vars, Explained, Known, Past
<1>3. Shape' /\ ExactIfRight' /\ RightIfRecent'
  BY DEF IInv, vars, Shape, ExactIfRight, RightIfRecent
<1> QED BY <1>2, <1>3 DEF IInv

(***************************************************************************)
(* All times that boards and hosts have stored, of whatever lives and      *)
(* turns of the counters, are explained by one history: each message of    *)
(* each life was sent at one moment, and each time is the reading of a     *)
(* counter at that moment or after the time of flight.                     *)
(***************************************************************************)
THEOREM HistoryExplains == Spec => []IInv
<1>1. IInv /\ [Next]_vars => IInv'
  <2> SUFFICES ASSUME IInv, [Next]_vars PROVE IInv'
    OBVIOUS
  <2>1. ASSUME NEW n \in Ids, NEW reach \in SUBSET (Ids \ {n}), Transmit(n, reach)
        PROVE  IInv'
    BY <2>1, TransmitKeeps
  <2>2. ASSUME NEW n \in Ids, Restart(n) PROVE IInv'
    BY <2>2, RestartKeeps
  <2>3. CASE Next
    <3>1. PICK n \in Ids :
            \/ \E reach \in IF ReachAll THEN {Ids \ {n}} ELSE SUBSET (Ids \ {n}) :
                 Transmit(n, reach)
            \/ Restart(n)
      BY <2>3 DEF Next
    <3>2. (IF ReachAll THEN {Ids \ {n}} ELSE SUBSET (Ids \ {n})) \subseteq SUBSET (Ids \ {n})
      OBVIOUS
    <3> QED BY <2>1, <2>2, <3>1, <3>2
  <2> QED BY <2>3, StutterKeeps
<1> QED BY <1>1, InitFits, PTL DEF Spec

(***************************************************************************)
(* evaluate_rx measures exactly whenever the times it combines belong      *)
(* together, whatever was lost, restarted or has wrapped elsewhere.        *)
(***************************************************************************)
THEOREM ExactWhenRight == Spec => []ExactIfRight
<1>1. IInv => ExactIfRight
  BY DEF IInv
<1> QED BY <1>1, HistoryExplains, PTL

(***************************************************************************)
(* get_stored_rx_timestamp finds the times of the sender's present life,   *)
(* although those of an earlier one are stored under the same numbers, if  *)
(* the preceding message was heard and is of this life.                    *)
(***************************************************************************)
THEOREM RightWhenRecent == Spec => []RightIfRecent
<1>1. IInv => RightIfRecent
  BY DEF IInv
<1> QED BY <1>1, HistoryExplains, PTL

=============================================================================
