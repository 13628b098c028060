-------------------------- MODULE SimulationProofs --------------------------
(***************************************************************************)
(* Proofs about Simulation.tla, for every list of nodes, all clocks and    *)
(* distances, and whatever messages are lost: every measurement is exact,  *)
(* no line stops the evaluation, and if nothing was lost no measurement is *)
(* missing.                                                                *)
(*                                                                         *)
(* Every time that is stored anywhere is a clock's reading of a moment     *)
(* that the message's sender and number determine (When).  IInv says so of *)
(* the dictionaries of the nodes, of the file and of what was evaluated.   *)
(***************************************************************************)
EXTENDS Simulation, NodeProofs, SequenceTheorems, FiniteSetTheorems

\* The global time between two transmissions, and that of message s of n.
Pause == Interval \div Len(Order)
When(n, s) == ((s - 1) * Len(Order) + Place(n)) * Pause

\* The numbers that n has used.
Used(n) == 1..(sequence_number[n] - 1)

Item == [id : Ids, seq : Nat, rx : Int]
Line == [kind : {"tx range"}, id : Ids, seq : Nat, tx : Int]
        \cup [kind : {"rx range"}, id : Ids, sender : Ids, seq : Nat, tx : Int,
              rx : Int, timestamps : Seq(Item)]

Shape ==
  /\ sent \in 0..(Exchanges * Len(Order))
  /\ global_clock = sent * Pause
  /\ sequence_number \in [Ids -> Nat \ {0}]
  /\ receive_timestamps \in [Ids -> Seq(Item)]
  /\ file \in Seq(Line)
  /\ line_no \in 0..Len(file)
  /\ lost \in 0..MaxLost
  /\ DOMAIN nodes = Ids
  /\ \A n \in Ids : DOMAIN nodes[n] = Fields

\* The nodes transmit in turn.
InTurn ==
  \A n \in Ids :
    /\ (sequence_number[n] - 2) * Len(Order) + Place(n) <= sent
    /\ sent < (sequence_number[n] - 1) * Len(Order) + Place(n)

\* One of the first i lines says that n has sent its message s.
TxReported(n, s, i) ==
  \E j \in 1..i : file[j].kind = "tx range" /\ file[j].id = n /\ file[j].seq = s

\* What n remembers, or carries in a message, of another's message.
ItemFits(n, item, i) ==
  /\ item.id # n
  /\ item.seq \in Used(item.id)
  /\ item.rx = Clock(n, When(item.id, item.seq) + Flight[item.id][n])
  /\ TxReported(item.id, item.seq, i)

ItemsFit ==
  \A n \in Ids : \A k \in DOMAIN receive_timestamps[n] :
    ItemFits(n, receive_timestamps[n][k], Len(file))

TxLineFits(line) ==
  /\ line.seq \in Used(line.id)
  /\ line.tx = Clock(line.id, When(line.id, line.seq))

RxLineFits(line, i) ==
  /\ line.sender # line.id
  /\ line.seq \in Used(line.sender)
  /\ line.tx = Clock(line.sender, When(line.sender, line.seq))
  /\ line.rx = Clock(line.id, When(line.sender, line.seq) + Flight[line.sender][line.id])
  /\ \A k \in DOMAIN line.timestamps : ItemFits(line.sender, line.timestamps[k], i - 1)

LinesFit ==
  \A i \in 1..Len(file) : IF file[i].kind = "tx range" THEN TxLineFits(file[i])
                                                       ELSE RxLineFits(file[i], i)

\* What the evaluation has stored at a.
StoredFits(a, h) ==
  /\ h.node_id = a
  /\ \A s \in DOMAIN h.tx_ts : s \in Used(a) /\ h.tx_ts[s] = Clock(a, When(a, s))
  /\ DOMAIN h.other_tx_ts = DOMAIN h.rx_ts
  /\ DOMAIN h.rx_ts \subseteq (Ids \ {a}) \X Nat
  /\ \A k \in DOMAIN h.rx_ts :
       /\ k[2] \in Used(k[1])
       /\ h.rx_ts[k] = Clock(a, When(k[1], k[2]) + Flight[k[1]][a])
       /\ h.other_tx_ts[k] = Clock(k[1], When(k[1], k[2]))
  /\ \A k \in DOMAIN h.other_rx_ts : k \in Ids \X Ids \X Nat /\ k[3] \in Used(k[2])

NodesFit == \A a \in Ids : StoredFits(a, nodes[a])

\* The transmissions reported in the lines read so far are stored.
TxLinesRead ==
  \A j \in 1..line_no :
    file[j].kind = "tx range" => file[j].seq \in DOMAIN nodes[file[j].id].tx_ts

\* Measurements are of nodes of the list.
PeersKnown ==
  \A a \in Ids : /\ \A m \in nodes[a].active \cup nodes[a].passive : m.b \in Ids
                 /\ \A m \in nodes[a].passive : m.c \in Ids

IInv ==
  /\ Shape
  /\ InTurn
  /\ ItemsFit
  /\ LinesFit
  /\ NodesFit
  /\ TxLinesRead
  /\ PeersKnown
  /\ ActiveExact
  /\ PassiveExact
  /\ NeverRaises

-----------------------------------------------------------------------------
LEMMA OrderIs ==
  /\ Len(Order) \in Nat /\ Len(Order) >= 1
  /\ \A n \in Ids : Place(n) \in 1..Len(Order) /\ Order[Place(n)] = n
  /\ \A i \in 1..Len(Order) : Order[i] \in Ids /\ Place(Order[i]) = i
<1>1. /\ Len(Order) \in Nat /\ Len(Order) >= 1
      /\ DOMAIN Order = 1..Len(Order)
  BY OrderAssumption
<1>2. \A n \in Ids : \E i \in DOMAIN Order : Order[i] = n
  BY DEF Ids, ToSet
<1>3. \A n \in Ids : Place(n) \in DOMAIN Order /\ Order[Place(n)] = n
  BY <1>2 DEF Place
<1>4. \A i \in DOMAIN Order : Order[i] \in Ids
  BY DEF Ids, ToSet
<1>5. \A i \in DOMAIN Order : Place(Order[i]) = i
  BY <1>3, <1>4, OrderAssumption DEF IsInjective
<1> QED BY <1>1, <1>3, <1>4, <1>5

LEMMA PauseIs == Pause \in Nat /\ Pause >= 1
<1>1. \A x, y \in Nat : x >= y /\ y >= 1 => x \div y \in Nat /\ x \div y >= 1
  <2> SUFFICES ASSUME NEW x \in Nat, NEW y \in Nat, x >= y, y >= 1
               PROVE  x \div y \in Nat /\ x \div y >= 1
    OBVIOUS
  <2> DEFINE q == x \div y
             r == x % y
  <2>1. q \in Int /\ r \in 0..(y - 1) /\ x = y * q + r
    OBVIOUS
  <2> HIDE DEF q, r
  <2>2. q >= 1
    <3> SUFFICES ASSUME q <= 0 PROVE FALSE
      BY <2>1
    <3>1. y * q <= 0
      BY <2>1
    <3> QED BY <2>1, <3>1
  <2> QED BY <2>1, <2>2 DEF q
<1> QED BY <1>1, OrderIs, IntervalAssumption DEF Pause

\* A product grows with its factor.
LEMMA ProductGrows ==
  \A x, y, z \in Int : x < y /\ z >= 1 => x * z < y * z /\ x * z \in Int /\ y * z \in Int
<1> SUFFICES ASSUME NEW x \in Int, NEW y \in Int, NEW z \in Int, x < y, z >= 1
             PROVE  x * z < y * z
  OBVIOUS
<1>1. (y - x) * z >= 1
  <2>1. \A d, f \in Int : d >= 1 /\ f >= 1 => d * f >= 1
    OBVIOUS
  <2> QED BY <2>1
<1>2. (y - x) * z = y * z - x * z
  OBVIOUS
<1> QED BY <1>1, <1>2

\* Later messages of a node have later times.
LEMMA WhenGrows ==
  ASSUME NEW n \in Ids, NEW s \in Int
  PROVE  /\ When(n, s) \in Int
         /\ \A t \in Int : s < t => When(n, s) < When(n, t)
<1>1. /\ Len(Order) \in Int /\ Len(Order) >= 1 /\ Place(n) \in Int
      /\ Pause \in Int /\ Pause >= 1
  BY OrderIs, PauseIs
<1> DEFINE L == Len(Order)
           at(t) == (t - 1) * L + Place(n)
<1>2. \A t \in Int : at(t) \in Int
  BY <1>1
<1>3. When(n, s) \in Int
  BY <1>1, <1>2 DEF When
<1>4. ASSUME NEW t \in Int, s < t
      PROVE  When(n, s) < When(n, t)
  <2>1. (s - 1) * L < (t - 1) * L
    BY <1>1, <1>4, ProductGrows
  <2>2. at(s) < at(t)
    BY <1>1, <2>1
  <2>3. When(n, s) = at(s) * Pause /\ When(n, t) = at(t) * Pause
    BY DEF When
  <2>4. at(s) \in Int /\ at(t) \in Int
    BY <1>2
  <2> HIDE DEF at
  <2>5. at(s) * Pause < at(t) * Pause
    BY <1>1, <2>2, <2>4, ProductGrows
  <2> QED BY <2>3, <2>5
<1> QED BY <1>3, <1>4

LEMMA ClockIs ==
  \A n \in Ids : \A t \in Int : Clock(n, t) \in Int
BY ClockAssumption DEF Clock

\* The node that transmits next has its turn, and no other.
LEMMA TurnIs ==
  ASSUME Shape, InTurn
  PROVE  LET m == Order[(sent % Len(Order)) + 1]
             t == global_clock + Pause
         IN  /\ m \in Ids
             /\ t = When(m, sequence_number[m]) /\ t = (sent + 1) * Pause
             /\ sent + 1 = (sequence_number[m] - 1) * Len(Order) + Place(m)
             /\ \A n \in Ids \ {m} :
                  sent + 1 < (sequence_number[n] - 1) * Len(Order) + Place(n)
<1> DEFINE L == Len(Order)
           D == sent \div L
           p == sent % L
           m == Order[p + 1]
<1>1. L \in Nat /\ L >= 1 /\ sent \in Nat
  BY OrderIs DEF Shape
<1>2. D \in Int /\ p \in 0..(L - 1) /\ sent = L * D + p
  BY <1>1
<1> HIDE DEF D, p
<1>3. m \in Ids /\ Place(m) = p + 1
  <2>1. p + 1 \in 1..Len(Order)
    BY <1>1, <1>2
  <2> QED BY <2>1, OrderIs
<1>4. \A n \in Ids : /\ sequence_number[n] \in Int /\ Place(n) \in 1..L
                     /\ (sequence_number[n] - 2) * L + Place(n) <= sent
                     /\ sent < (sequence_number[n] - 1) * L + Place(n)
  BY OrderIs DEF Shape, InTurn
<1> HIDE DEF L
<1>5. sequence_number[m] - 1 = D
  <2> DEFINE q == sequence_number[m] - 1
  <2>1. q \in Int /\ (q - 1) * L + (p + 1) <= L * D + p /\ L * D + p < q * L + (p + 1)
    BY <1>2, <1>3, <1>4
  <2> HIDE DEF q
  <2>2. (q - 1) * L < D * L /\ D * L < (q + 1) * L
    <3>1. L * D = D * L /\ (q + 1) * L = q * L + L
      BY <1>1, <1>2, <2>1
    <3> HIDE DEF m
    <3>2. D * L \in Int /\ q * L \in Int /\ (q - 1) * L \in Int
      BY <1>1, <1>2, <2>1
    <3> QED BY <1>1, <1>2, <2>1, <3>1, <3>2
  <2>3. \A x, y \in Int : x * L < y * L => x < y
    <3> SUFFICES ASSUME NEW x \in Int, NEW y \in Int, x * L < y * L, y <= x PROVE FALSE
      OBVIOUS
    <3>1. CASE x = y
      BY <1>1, <3>1
    <3>2. CASE y < x
      <4>1. y * L < x * L /\ y * L \in Int /\ x * L \in Int
        BY <1>1, <3>2, ProductGrows
      <4> QED BY <4>1
    <3> QED BY <3>1, <3>2
  <2>4. q - 1 < D /\ D < q + 1
    BY <1>2, <2>1, <2>2, <2>3
  <2> QED BY <1>2, <2>1, <2>4 DEF q
<1>6. sent + 1 = (sequence_number[m] - 1) * L + Place(m)
  BY <1>1, <1>2, <1>3, <1>5
<1>7. global_clock + Pause = (sent + 1) * Pause
  BY <1>1, PauseIs DEF Shape
<1>8. (sent + 1) * Pause = When(m, sequence_number[m])
  BY <1>6 DEF When, L
<1>9. ASSUME NEW n \in Ids \ {m}
      PROVE  sent + 1 < (sequence_number[n] - 1) * L + Place(n)
  <2> DEFINE q == sequence_number[n] - 1
             i == Place(n)
  <2>1. q \in Int /\ i \in 1..L /\ sent < q * L + i
    BY <1>4
  <2>2. i # p + 1
    BY <1>3, OrderIs
  <2> HIDE DEF q, i
  <2>3. sent + 1 # q * L + i
    <3> SUFFICES ASSUME sent + 1 = q * L + i PROVE FALSE
      OBVIOUS
    <3>1. i - (p + 1) = (D - q) * L
      BY <1>1, <1>2, <2>1
    <3>2. (D - q) * L < 1 * L /\ (-1) * L < (D - q) * L
      BY <1>1, <1>2, <2>1, <3>1
    <3>3. ~(D - q >= 1)
      <4> SUFFICES ASSUME D - q >= 1 PROVE FALSE
        OBVIOUS
      <4>1. D - q = 1 \/ 1 < D - q
        BY <1>2, <2>1
      <4>2. 1 < D - q => 1 * L < (D - q) * L
        BY <1>1, <1>2, <2>1, ProductGrows
      <4> QED BY <1>1, <1>2, <2>1, <3>2, <4>1, <4>2
    <3>4. ~(D - q <= -1)
      <4> SUFFICES ASSUME D - q <= -1 PROVE FALSE
        OBVIOUS
      <4>1. D - q = -1 \/ D - q < -1
        BY <1>2, <2>1
      <4>2. D - q < -1 => (D - q) * L < (-1) * L
        BY <1>1, <1>2, <2>1, ProductGrows
      <4> QED BY <1>1, <1>2, <2>1, <3>2, <4>1, <4>2
    <3>5. D - q = 0
      BY <1>2, <2>1, <3>3, <3>4
    <3> QED BY <1>1, <1>2, <2>1, <2>2, <3>1, <3>5
  <2>4. sent + 1 \in Int /\ q * L + i \in Int
    BY <1>1, <2>1
  <2>5. sent + 1 < q * L + i
    BY <1>1, <2>1, <2>3, <2>4
  <2> QED BY <2>5 DEF q, i
<1> QED BY <1>3, <1>6, <1>7, <1>8, <1>9 DEF m, p, L


\* A measurement is exact if it is made of the times When determines, ...
LEMMA ActiveIsExact ==
  ASSUME NEW a \in Ids, NEW b \in Ids, NEW h, NEW ts,
         NEW m1 \in Int, NEW m3 \in Int, m1 < m3, ts.seq \in Int,
         h.rx_ts[<<b, m1>>] = Clock(a, When(b, m1) + Flight[b][a]),
         h.rx_ts[<<b, m3>>] = Clock(a, When(b, m3) + Flight[b][a]),
         h.other_tx_ts[<<b, m1>>] = Clock(b, When(b, m1)),
         h.other_tx_ts[<<b, m3>>] = Clock(b, When(b, m3)),
         h.tx_ts[ts.seq] = Clock(a, When(a, ts.seq)),
         ts.rx = Clock(b, When(a, ts.seq) + Flight[a][b])
  PROVE  LET m == ActiveMeasurement(h, b, m1, ts, m3)
             ra == clock_err[a]
             rb == clock_err[b]
         IN  /\ m.b = b
             /\ m.den # 0
             /\ m.num * (ra + rb) = m.den * (2 * ra * rb * Flight[a][b])
<1> DEFINE ra == clock_err[a]
           rb == clock_err[b]
           oa == clock_offset[a]
           ob == clock_offset[b]
           t1 == When(b, m1)
           t2 == When(a, ts.seq)
           t3 == When(b, m3)
           T == Flight[a][b]
           tof == ActiveOf(ra, rb, oa, ob, t1, t2, t3, T)
           m == ActiveMeasurement(h, b, m1, ts, m3)
<1>1. /\ ra \in Nat \ {0} /\ rb \in Nat \ {0} /\ oa \in Int /\ ob \in Int
      /\ T \in Nat /\ Flight[b][a] = T
  BY ClockAssumption, FlightAssumption
<1>2. t1 \in Int /\ t2 \in Int /\ t3 \in Int /\ t1 < t3
  BY WhenGrows
<1>3. \A n \in Ids : \A t \in Int : Clock(n, t) = Shows(clock_err[n], clock_offset[n], t)
  BY DEF Clock, Shows
<1>4. m = [b |-> b, m3 |-> m3, num |-> tof.num, den |-> tof.den]
  <2>1. /\ h.rx_ts[<<b, m1>>] = Shows(ra, oa, t1 + T)
        /\ h.rx_ts[<<b, m3>>] = Shows(ra, oa, t3 + T)
        /\ h.other_tx_ts[<<b, m1>>] = Shows(rb, ob, t1)
        /\ h.other_tx_ts[<<b, m3>>] = Shows(rb, ob, t3)
        /\ h.tx_ts[ts.seq] = Shows(ra, oa, t2)
        /\ ts.rx = Shows(rb, ob, t2 + T)
    <3> HIDE DEF t1, t2, t3
    <3>1. t1 + T \in Int /\ t2 + T \in Int /\ t3 + T \in Int
      BY <1>1, <1>2
    <3> QED BY <1>1, <1>2, <1>3, <3>1 DEF t1, t2, t3
  <2> HIDE DEF ra, rb, oa, ob, t1, t2, t3, T
  <2> QED BY <2>1 DEF ActiveMeasurement, ActiveOf
<1> HIDE DEF ra, rb, oa, ob, t1, t2, t3, T, m
<1>5. tof.num * (ra + rb) = tof.den * (2 * ra * rb * T)
  <2>1. ra \in Int /\ rb \in Int /\ oa \in Int /\ ob \in Int /\ T \in Int
    BY <1>1
  <2> QED BY <1>2, <2>1, ActiveTofExact
<1>6. tof.den # 0
  <2>1. T \in Int
    BY <1>1
  <2> QED BY <1>1, <1>2, <2>1, Denominators
<1> HIDE DEF tof
<1>7. m.b = b /\ m.num = tof.num /\ m.den = tof.den
  BY <1>4
<1> QED BY <1>5, <1>6, <1>7 DEF ra, rb, T, m

\* ... be it active or passive.
LEMMA PassiveIsExact ==
  ASSUME NEW a \in Ids, NEW b \in Ids, NEW h, NEW ts, ts.id \in Ids,
         NEW m1 \in Int, NEW m3 \in Int, m1 < m3, ts.seq \in Int,
         h.rx_ts[<<b, m1>>] = Clock(a, When(b, m1) + Flight[b][a]),
         h.rx_ts[<<b, m3>>] = Clock(a, When(b, m3) + Flight[b][a]),
         h.other_tx_ts[<<b, m1>>] = Clock(b, When(b, m1)),
         h.other_tx_ts[<<b, m3>>] = Clock(b, When(b, m3)),
         h.rx_ts[<<ts.id, ts.seq>>] = Clock(a, When(ts.id, ts.seq) + Flight[ts.id][a]),
         ts.rx = Clock(b, When(ts.id, ts.seq) + Flight[ts.id][b])
  PROVE  LET m == PassiveMeasurement(h, b, m1, ts, m3)
         IN  /\ m.b = b /\ m.c = ts.id
             /\ m.den # 0
             /\ m.num = m.den * (clock_err[a] *
                   (Flight[b][ts.id] + Flight[a][b] - Flight[a][ts.id]))
<1> DEFINE c == ts.id
           ra == clock_err[a]
           rb == clock_err[b]
           oa == clock_offset[a]
           ob == clock_offset[b]
           t1 == When(b, m1)
           t2 == When(c, ts.seq)
           t3 == When(b, m3)
           Tab == Flight[a][b]
           Tac == Flight[a][c]
           Tbc == Flight[b][c]
           tof == PassiveOf(ra, rb, oa, ob, t1, t2, t3, Tab, Tac, Tbc)
           m == PassiveMeasurement(h, b, m1, ts, m3)
<1>1. /\ ra \in Nat \ {0} /\ rb \in Nat \ {0} /\ oa \in Int /\ ob \in Int
      /\ Tab \in Nat /\ Flight[b][a] = Tab
      /\ Tac \in Nat /\ Flight[c][a] = Tac
      /\ Tbc \in Nat /\ Flight[c][b] = Tbc
  BY ClockAssumption, FlightAssumption
<1>2. t1 \in Int /\ t2 \in Int /\ t3 \in Int /\ t1 < t3
  BY WhenGrows
<1>3. \A n \in Ids : \A t \in Int : Clock(n, t) = Shows(clock_err[n], clock_offset[n], t)
  BY DEF Clock, Shows
<1>4. m = [b |-> b, c |-> c, m3 |-> m3, num |-> tof.num, den |-> tof.den]
  <2>1. /\ h.rx_ts[<<b, m1>>] = Shows(ra, oa, t1 + Tab)
        /\ h.rx_ts[<<b, m3>>] = Shows(ra, oa, t3 + Tab)
        /\ h.other_tx_ts[<<b, m1>>] = Shows(rb, ob, t1)
        /\ h.other_tx_ts[<<b, m3>>] = Shows(rb, ob, t3)
        /\ h.rx_ts[<<c, ts.seq>>] = Shows(ra, oa, t2 + Tac)
        /\ ts.rx = Shows(rb, ob, t2 + Tbc)
    <3> HIDE DEF t1, t2, t3
    <3>1. /\ t1 + Tab \in Int /\ t3 + Tab \in Int
          /\ t2 + Tac \in Int /\ t2 + Tbc \in Int
      BY <1>1, <1>2
    <3> QED BY <1>1, <1>2, <1>3, <3>1 DEF t1, t2, t3
  <2> HIDE DEF ra, rb, oa, ob, t1, t2, t3, Tab, Tac, Tbc
  <2> QED BY <2>1 DEF PassiveMeasurement, PassiveOf
<1> HIDE DEF ra, rb, oa, ob, t1, t2, t3, Tab, Tac, Tbc, m
<1>5. tof.num = tof.den * (ra * (Tbc + Tab - Tac))
  <2>1. /\ ra \in Int /\ rb \in Int /\ oa \in Int /\ ob \in Int
        /\ Tab \in Int /\ Tac \in Int /\ Tbc \in Int
    BY <1>1
  <2> QED BY <1>2, <2>1, PassiveTofExact
<1>6. tof.den # 0
  <2>1. Tab \in Int /\ Tac \in Int /\ Tbc \in Int
    BY <1>1
  <2> QED BY <1>1, <1>2, <2>1, Denominators
<1> HIDE DEF tof
<1>7. m.b = b /\ m.c = c /\ m.num = tof.num /\ m.den = tof.den
  BY <1>4
<1> QED BY <1>5, <1>6, <1>7 DEF ra, Tab, Tac, Tbc, m


-----------------------------------------------------------------------------
LEMMA InitFits == Init => IInv
<1> SUFFICES ASSUME Init PROVE IInv
  OBVIOUS
<1>1. Shape
  <2>1. file \in Seq(Line) /\ Len(file) = 0
    BY DEF Init
  <2>2. receive_timestamps \in [Ids -> Seq(Item)]
    BY DEF Init
  <2>3. global_clock = sent * Pause
    BY PauseIs DEF Init
  <2>4. \A n \in Ids : DOMAIN nodes[n] = Fields
    BY DEF Init, NewNode, Fields
  <2>5. sent \in 0..(Exchanges * Len(Order))
    <3>1. \A x, y \in Nat : 0 \in 0..(x * y)
      OBVIOUS
    <3> QED BY <3>1, OrderIs, ExchangesAssumption DEF Init
  <2> QED BY <2>1, <2>2, <2>3, <2>4, <2>5, MaxLostAssumption DEF Init, Shape
<1>2. InTurn
  <2> SUFFICES ASSUME NEW n \in Ids
               PROVE  /\ (sequence_number[n] - 2) * Len(Order) + Place(n) <= sent
                      /\ sent < (sequence_number[n] - 1) * Len(Order) + Place(n)
    BY DEF InTurn
  <2>1. sequence_number[n] = 1 /\ sent = 0
    BY DEF Init
  <2>2. Len(Order) \in Nat /\ Place(n) \in 1..Len(Order)
    BY OrderIs
  <2>3. \A x, y \in Nat : y \in 1..x => (1 - 2) * x + y <= 0 /\ 0 < (1 - 1) * x + y
    OBVIOUS
  <2> QED BY <2>1, <2>2, <2>3
<1>3. ItemsFit /\ LinesFit /\ TxLinesRead
  BY DEF Init, ItemsFit, LinesFit, TxLinesRead
<1>4. ASSUME NEW a \in Ids
      PROVE  /\ StoredFits(a, nodes[a])
             /\ nodes[a].active = {} /\ nodes[a].passive = {} /\ nodes[a].raised = FALSE
  <2>1. nodes[a] = NewNode(a)
    BY DEF Init
  <2> QED BY <2>1 DEF NewNode, StoredFits
<1>5. PeersKnown /\ ActiveExact /\ PassiveExact /\ NeverRaises
  BY <1>4 DEF PeersKnown, ActiveExact, PassiveExact, NeverRaises
<1> QED BY <1>1, <1>2, <1>3, <1>4, <1>5 DEF IInv, NodesFit

\* An element of a dictionary after an assignment.
LEMMA RememberIs ==
  ASSUME NEW items, NEW id, NEW seq, NEW rx,
         items \in Seq(Item), id \in Ids, seq \in Nat, rx \in Int
  PROVE  /\ Remember(items, id, seq, rx) \in Seq(Item)
         /\ \A k \in DOMAIN Remember(items, id, seq, rx) :
              \/ Remember(items, id, seq, rx)[k] = [id |-> id, seq |-> seq, rx |-> rx]
              \/ \E l \in DOMAIN items : Remember(items, id, seq, rx)[k] = items[l]
<1> DEFINE item == [id |-> id, seq |-> seq, rx |-> rx]
<1>1. item \in Item
  BY DEF Item
<1>2. CASE \E i \in DOMAIN items : items[i].id = id
  <2>1. Remember(items, id, seq, rx) =
          [i \in DOMAIN items |-> IF items[i].id = id THEN item ELSE items[i]]
    BY <1>2 DEF Remember
  <2>2. DOMAIN items = 1..Len(items) /\ Len(items) \in Nat
        /\ \A i \in DOMAIN items : items[i] \in Item
    OBVIOUS
  <2> HIDE DEF item
  <2> QED BY <1>1, <2>1, <2>2 DEF item
<1>3. CASE ~\E i \in DOMAIN items : items[i].id = id
  <2>1. Remember(items, id, seq, rx) = Append(items, item)
    BY <1>3 DEF Remember
  <2> HIDE DEF item
  <2> QED BY <1>1, <2>1 DEF item
<1> QED BY <1>2, <1>3

\* What fitted still does when lines are added.
LEMMA GrowingKeeps ==
  ASSUME Shape,
         \A n \in Ids : /\ sequence_number'[n] \in Nat
                        /\ sequence_number[n] <= sequence_number'[n],
         \A j \in 1..Len(file) : file'[j] = file[j]
  PROVE  /\ \A n \in Ids : Used(n) \subseteq Used(n)'
         /\ \A n, item, i, j :
              /\ n \in Ids /\ item \in Item /\ i \in 0..Len(file) /\ j \in Int /\ i <= j
              /\ ItemFits(n, item, i)
              => ItemFits(n, item, j)'
<1>1. ASSUME NEW n \in Ids PROVE Used(n) \subseteq Used(n)'
  <2>1. sequence_number[n] \in Nat
    BY DEF Shape
  <2> QED BY <2>1 DEF Used
<1>2. ASSUME NEW n, NEW item, NEW i, NEW j,
             n \in Ids, item \in Item, i \in 0..Len(file), j \in Int, i <= j,
             ItemFits(n, item, i)
      PROVE  ItemFits(n, item, j)'
  <2>1. PICK l \in 1..i : /\ file[l].kind = "tx range"
                          /\ file[l].id = item.id /\ file[l].seq = item.seq
    BY <1>2 DEF ItemFits, TxReported
  <2>2. l \in 1..j /\ file'[l] = file[l]
    <3>1. Len(file) \in Nat
      BY DEF Shape
    <3> QED BY <1>2, <3>1
  <2>3. TxReported(item.id, item.seq, j)'
    BY <2>1, <2>2 DEF TxReported
  <2>4. item.id \in Ids
    BY <1>2 DEF Item
  <2> QED BY <1>1, <1>2, <2>3, <2>4 DEF ItemFits, Clock
<1> QED BY <1>1, <1>2

\* The lines one transmission adds.
Grown(m, t, k, heard) ==
  /\ file' \in Seq(Line)
  /\ Len(file') = Len(file) + 1 + k
  /\ \A j \in 1..Len(file) : file'[j] = file[j]
  /\ file'[Len(file) + 1] = TxLine(m, t)
  /\ \A i \in 1..k : file'[Len(file) + 1 + i] = RxLine(heard[i], m, t)

LEMMA WrittenIs ==
  ASSUME Shape, NEW m, NEW t, NEW k, NEW heard,
         m \in Ids, t \in Int, k \in Nat, heard \in [1..k -> Ids],
         file' = file \o Written(m, t, heard)
  PROVE  Grown(m, t, k, heard)
<1> DEFINE lines == [i \in DOMAIN heard |-> RxLine(heard[i], m, t)]
<1>1. TxLine(m, t) \in Line
  BY ClockIs DEF TxLine, Line, Shape
<1>2. ASSUME NEW n \in Ids PROVE RxLine(n, m, t) \in Line
  <2>1. t + Flight[m][n] \in Int
    BY FlightAssumption
  <2> QED BY <2>1, ClockIs DEF RxLine, Line, Shape
<1>3. lines \in Seq(Line) /\ Len(lines) = k /\ \A i \in 1..k : lines[i] = RxLine(heard[i], m, t)
  BY <1>2
<1>4. Written(m, t, heard) = <<TxLine(m, t)>> \o lines
  BY DEF Written
<1> HIDE DEF lines
<1>5. /\ Written(m, t, heard) \in Seq(Line)
      /\ Len(Written(m, t, heard)) = 1 + k
      /\ Written(m, t, heard)[1] = TxLine(m, t)
      /\ \A i \in 1..k : Written(m, t, heard)[1 + i] = RxLine(heard[i], m, t)
  <2>1. <<TxLine(m, t)>> \in Seq(Line) /\ Len(<<TxLine(m, t)>>) = 1
        /\ <<TxLine(m, t)>>[1] = TxLine(m, t)
    BY <1>1
  <2>2. \A i \in 1..k : 1 + i \in 1..(1 + k) /\ ~(1 + i <= 1) /\ (1 + i) - 1 = i
    OBVIOUS
  <2> QED BY <1>3, <1>4, <2>1, <2>2, ConcatProperties
<1>6. file \in Seq(Line) /\ Len(file) \in Nat
  BY DEF Shape
<1> DEFINE new == Written(m, t, heard)
<1>7. file' = file \o new /\ new \in Seq(Line) /\ Len(new) = 1 + k
  BY <1>5
<1> HIDE DEF new
<1>8. /\ file' \in Seq(Line)
      /\ Len(file') = Len(file) + Len(new)
      /\ \A i \in 1..(Len(file) + Len(new)) :
           file'[i] = IF i <= Len(file) THEN file[i] ELSE new[i - Len(file)]
  <2>1. /\ file \o new \in Seq(Line)
        /\ Len(file \o new) = Len(file) + Len(new)
        /\ \A i \in 1..(Len(file) + Len(new)) :
             (file \o new)[i] = IF i <= Len(file) THEN file[i] ELSE new[i - Len(file)]
    <3> HIDE DEF Line
    <3> QED BY <1>6, <1>7, ConcatProperties
  <2> QED BY <1>7, <2>1
<1>9. \A j \in 1..Len(file) : file'[j] = file[j]
  BY <1>6, <1>7, <1>8
<1>10. \A i \in 1..(1 + k) : file'[Len(file) + i] = new[i]
  BY <1>6, <1>7, <1>8
<1>11. /\ file'[Len(file) + 1] = new[1]
       /\ \A i \in 1..k : file'[Len(file) + 1 + i] = new[1 + i]
  <2>1. 1 \in 1..(1 + k)
    OBVIOUS
  <2>2. ASSUME NEW i \in 1..k PROVE file'[Len(file) + 1 + i] = new[1 + i]
    <3>1. 1 + i \in 1..(1 + k) /\ Len(file) + 1 + i = Len(file) + (1 + i)
      BY <1>6
    <3>2. file'[Len(file) + (1 + i)] = new[1 + i]
      BY <1>10, <3>1
    <3> QED BY <3>1, <3>2
  <2> QED BY <1>10, <2>1, <2>2
<1> QED BY <1>5, <1>6, <1>7, <1>8, <1>9, <1>11 DEF new, Grown


\* A transmission of m at t, its message sq, heard by k nodes.
Heard(n, k, heard, m, t, sq) ==
  IF \E i \in 1..k : heard[i] = n
    THEN Remember(receive_timestamps[n], m, sq, Clock(n, t + Flight[m][n]))
    ELSE receive_timestamps[n]

Sends(m, t, sq, k, heard) ==
  /\ m \in Ids /\ t \in Int /\ sq \in Nat \ {0}
  /\ m = Order[(sent % Len(Order)) + 1] /\ t = global_clock + Pause
  /\ sq = sequence_number[m]
  /\ t = When(m, sq) /\ t = (sent + 1) * Pause
  /\ sent + 1 = (sq - 1) * Len(Order) + Place(m)
  /\ \A n \in Ids \ {m} :
       sent + 1 < (sequence_number[n] - 1) * Len(Order) + Place(n)
  /\ k \in 0..(Len(Order) - 1) /\ heard \in [1..k -> Receivers(m)]
  /\ lost' = lost + Len(Order) - 1 - k
  /\ lost' <= MaxLost
  /\ \A i, j \in 1..k : i < j => Place(heard[i]) < Place(heard[j])
  /\ file' = file \o Written(m, t, heard)
  /\ \A n \in Ids : receive_timestamps'[n] = Heard(n, k, heard, m, t, sq)
  /\ receive_timestamps' = [n \in Ids |-> receive_timestamps'[n]]

LEMMA TransmitIs ==
  ASSUME Shape, InTurn, Transmit
  PROVE  \E m, t, sq, k, heard : Sends(m, t, sq, k, heard)
<1>1. PICK m \in Ids, t \in Int, sq \in Nat \ {0} :
        /\ m = Order[(sent % Len(Order)) + 1] /\ t = global_clock + Pause
        /\ sq = sequence_number[m]
        /\ t = When(m, sq) /\ t = (sent + 1) * Pause
        /\ sent + 1 = (sq - 1) * Len(Order) + Place(m)
        /\ \A n \in Ids \ {m} :
             sent + 1 < (sequence_number[n] - 1) * Len(Order) + Place(n)
  <2> DEFINE x == Order[(sent % Len(Order)) + 1]
             y == sequence_number[x]
  <2>1. /\ x \in Ids /\ global_clock + Pause = When(x, y)
        /\ global_clock + Pause = (sent + 1) * Pause
        /\ sent + 1 = (y - 1) * Len(Order) + Place(x)
        /\ \A n \in Ids \ {x} :
             sent + 1 < (sequence_number[n] - 1) * Len(Order) + Place(n)
    BY TurnIs
  <2> HIDE DEF x
  <2>2. y \in Nat \ {0}
    BY <2>1 DEF Shape
  <2>3. When(x, y) \in Int
    BY <2>1, <2>2, WhenGrows
  <2> QED BY <2>1, <2>2, <2>3 DEF x
<1> DEFINE after(n, k, heard) == Heard(n, k, heard, m, t, sq)
<1>2. PICK k, heard :
        /\ k \in 0..(Len(Order) - 1) /\ heard \in [1..k -> Receivers(m)]
        /\ lost' = lost + Len(Order) - 1 - k
        /\ lost' <= MaxLost
        /\ \A i, j \in 1..k : i < j => Place(heard[i]) < Place(heard[j])
        /\ file' = file \o Written(m, t, heard)
        /\ \A n \in Ids : receive_timestamps'[n] = after(n, k, heard)
        /\ receive_timestamps' = [n \in Ids |-> receive_timestamps'[n]]
  <2> DEFINE x == Order[(sent % Len(Order)) + 1]
             y == global_clock + Pause
  <2>1. PICK k \in 0..(Len(Order) - 1) : \E heard \in [1..k -> Receivers(x)] :
          /\ lost' = lost + Len(Order) - 1 - k
          /\ lost' <= MaxLost
          /\ \A i, j \in 1..k : i < j => Place(heard[i]) < Place(heard[j])
          /\ file' = file \o Written(x, y, heard)
          /\ receive_timestamps' =
               [n \in Ids |-> IF \E i \in 1..k : heard[i] = n
                  THEN Remember(receive_timestamps[n], x, sequence_number[x],
                                Clock(n, y + Flight[x][n]))
                  ELSE receive_timestamps[n]]
    BY DEF Transmit, Pause
  <2>2. x = m /\ y = t /\ sequence_number[x] = sq
    BY <1>1
  <2> HIDE DEF x, y
  <2>3. PICK heard \in [1..k -> Receivers(x)] :
          /\ lost' = lost + Len(Order) - 1 - k
          /\ lost' <= MaxLost
          /\ \A i, j \in 1..k : i < j => Place(heard[i]) < Place(heard[j])
          /\ file' = file \o Written(x, y, heard)
          /\ receive_timestamps' =
               [n \in Ids |-> IF \E i \in 1..k : heard[i] = n
                  THEN Remember(receive_timestamps[n], x, sequence_number[x],
                                Clock(n, y + Flight[x][n]))
                  ELSE receive_timestamps[n]]
    BY <2>1
  <2>4. /\ receive_timestamps' = [n \in Ids |-> receive_timestamps'[n]]
        /\ \A n \in Ids : receive_timestamps'[n] =
             IF \E i \in 1..k : heard[i] = n
               THEN Remember(receive_timestamps[n], x, sequence_number[x],
                             Clock(n, y + Flight[x][n]))
               ELSE receive_timestamps[n]
    <3> DEFINE new(n) == IF \E i \in 1..k : heard[i] = n
                           THEN Remember(receive_timestamps[n], x, sequence_number[x],
                                         Clock(n, y + Flight[x][n]))
                           ELSE receive_timestamps[n]
    <3>1. receive_timestamps' = [n \in Ids |-> new(n)]
      BY <2>3
    <3> HIDE DEF new
    <3>2. /\ receive_timestamps' = [n \in Ids |-> receive_timestamps'[n]]
          /\ \A n \in Ids : receive_timestamps'[n] = new(n)
      BY <3>1
    <3> QED BY <3>2 DEF new
  <2>5. /\ k \in 0..(Len(Order) - 1) /\ heard \in [1..k -> Receivers(m)]
        /\ file' = file \o Written(m, t, heard)
    BY <2>2, <2>3
  <2>6. \A n \in Ids : receive_timestamps'[n] = after(n, k, heard)
    BY <2>2, <2>4 DEF Heard
  <2>7. receive_timestamps' = [n \in Ids |-> receive_timestamps'[n]]
    BY <2>4
  <2>8. /\ lost' = lost + Len(Order) - 1 - k /\ lost' <= MaxLost
        /\ \A i, j \in 1..k : i < j => Place(heard[i]) < Place(heard[j])
    BY <2>3
  <2> HIDE DEF after
  <2> QED BY <2>5, <2>6, <2>7, <2>8, Zenon
<1>3. Sends(m, t, sq, k, heard)
  BY <1>1, <1>2 DEF Sends
<1> QED BY <1>3

LEMMA TransmitKeeps == IInv /\ Transmit => IInv'
<1> SUFFICES ASSUME IInv, Transmit PROVE IInv'
  OBVIOUS
<1> USE DEF IInv
<1>0. PICK m, t, sq, k, heard : Sends(m, t, sq, k, heard)
  BY TransmitIs
<1>1. /\ m \in Ids /\ t \in Int /\ sq \in Nat \ {0}
      /\ m = Order[(sent % Len(Order)) + 1] /\ t = global_clock + Pause
      /\ sq = sequence_number[m]
      /\ t = When(m, sq) /\ t = (sent + 1) * Pause
      /\ sent + 1 = (sq - 1) * Len(Order) + Place(m)
      /\ \A n \in Ids \ {m} :
           sent + 1 < (sequence_number[n] - 1) * Len(Order) + Place(n)
  BY <1>0 DEF Sends
<1> DEFINE after(n, last, by) ==
             IF \E i \in 1..last : by[i] = n
               THEN Remember(receive_timestamps[n], m, sq, Clock(n, t + Flight[m][n]))
               ELSE receive_timestamps[n]
<1>2. /\ k \in 0..(Len(Order) - 1) /\ heard \in [1..k -> Receivers(m)]
      /\ lost' = lost + Len(Order) - 1 - k
      /\ lost' <= MaxLost
      /\ \A i, j \in 1..k : i < j => Place(heard[i]) < Place(heard[j])
      /\ file' = file \o Written(m, t, heard)
      /\ \A n \in Ids : receive_timestamps'[n] = after(n, k, heard)
      /\ receive_timestamps' = [n \in Ids |-> receive_timestamps'[n]]
  BY <1>0 DEF Sends, Heard
<1>3. /\ m \in Ids /\ t \in Int /\ sq \in Nat /\ sq = sequence_number[m]
      /\ k \in Nat /\ heard \in [1..k -> Ids]
      /\ file' = file \o Written(m, t, heard)
      /\ \A i \in 1..k : heard[i] \in Ids /\ heard[i] # m
  <2>1. k \in Nat
    BY <1>2, OrderIs
  <2> QED BY <1>1, <1>2, <2>1 DEF Receivers
<1>4. /\ sent < Exchanges * Len(Order) /\ sent' = sent + 1
      /\ global_clock' = t
      /\ sequence_number' = [sequence_number EXCEPT ![m] = sq + 1]
      /\ UNCHANGED <<line_no, nodes>>
  BY <1>1 DEF Transmit, Pause
<1>5. /\ sent \in Nat /\ Exchanges * Len(Order) \in Nat /\ k \in Nat /\ t \in Int
      /\ sq \in Nat \ {0} /\ heard \in [1..k -> Ids]
      /\ \A i \in 1..k : heard[i] # m /\ heard[i] \in Ids
  <2>1. sent \in Nat /\ Len(Order) \in Nat /\ k \in Nat
    BY <1>2, OrderIs DEF Shape
  <2>2. Exchanges * Len(Order) \in Nat
    BY <2>1, ExchangesAssumption
  <2> QED BY <1>1, <1>2, <2>1, <2>2 DEF Receivers
<1>6. /\ file' \in Seq(Line)
      /\ Len(file') = Len(file) + 1 + k /\ Len(file) \in Nat
      /\ \A j \in 1..Len(file) : file'[j] = file[j]
      /\ file'[Len(file) + 1] = TxLine(m, t)
      /\ \A i \in 1..k : file'[Len(file) + 1 + i] = RxLine(heard[i], m, t)
  <2>1. Len(file) \in Nat /\ Shape
    BY DEF Shape
  <2> HIDE DEF IInv
  <2>2. m \in Ids /\ t \in Int /\ k \in Nat /\ heard \in [1..k -> Ids]
        /\ file' = file \o Written(m, t, heard)
    BY <1>3
  <2>3. Grown(m, t, k, heard)
    BY <2>1, <2>2, WrittenIs
  <2> QED BY <2>1, <2>3 DEF Grown
<1>7. /\ sequence_number' \in [Ids -> Nat \ {0}]
      /\ sequence_number'[m] = sq + 1
      /\ \A n \in Ids \ {m} : sequence_number'[n] = sequence_number[n]
      /\ \A n \in Ids : sequence_number'[n] \in Nat /\ sequence_number[n] <= sequence_number'[n]
  <2>1. sequence_number \in [Ids -> Nat \ {0}] /\ sq = sequence_number[m]
    BY <1>1 DEF Shape
  <2> QED BY <1>1, <1>4, <2>1
<1>8. /\ \A n \in Ids : Used(n) \subseteq Used(n)'
      /\ \A n, item, i, j :
           /\ n \in Ids /\ item \in Item /\ i \in 0..Len(file) /\ j \in Int /\ i <= j
           /\ ItemFits(n, item, i)
           => ItemFits(n, item, j)'
  BY <1>6, <1>7, GrowingKeeps
<1>9. sq \in Used(m)' /\ t = When(m, sq)
  <2>1. sq \in 1..((sq + 1) - 1)
    BY <1>5
  <2>2. sq \in Used(m)'
    BY <1>7, <2>1 DEF Used
  <2> QED BY <1>1, <2>2
<1>11. \A n \in Ids : t + Flight[m][n] \in Int /\ Clock(n, t + Flight[m][n]) \in Int
  <2> SUFFICES ASSUME NEW n \in Ids PROVE t + Flight[m][n] \in Int
    BY ClockIs
  <2> QED BY <1>1, <1>5, FlightAssumption
<1>12. receive_timestamps' \in [Ids -> Seq(Item)]
  <2>1. \A n \in Ids : Remember(receive_timestamps[n], m, sq, Clock(n, t + Flight[m][n]))
                         \in Seq(Item)
    BY <1>3, <1>11, RememberIs DEF Shape
  <2>2. \A n \in Ids : receive_timestamps[n] \in Seq(Item)
    BY DEF Shape
  <2>3. \A n \in Ids : receive_timestamps'[n] \in Seq(Item)
    <3> SUFFICES ASSUME NEW n \in Ids PROVE receive_timestamps'[n] \in Seq(Item)
      OBVIOUS
    <3>1. \/ receive_timestamps'[n] =
               Remember(receive_timestamps[n], m, sq, Clock(n, t + Flight[m][n]))
          \/ receive_timestamps'[n] = receive_timestamps[n]
      BY <1>2
    <3> QED BY <2>1, <2>2, <3>1
  <2>4. receive_timestamps' = [n \in Ids |-> receive_timestamps'[n]]
    BY <1>2
  <2> QED BY <2>3, <2>4
<1>13. Shape'
  <2>1. sent' \in 0..(Exchanges * Len(Order))
    BY <1>4, <1>5
  <2>2. global_clock' = sent' * Pause
    BY <1>1, <1>4
  <2>3. line_no' \in 0..Len(file')
    BY <1>4, <1>5, <1>6 DEF Shape
  <2>4. lost' \in 0..MaxLost
    <3>1. lost \in Nat /\ MaxLost \in Nat /\ Len(Order) \in Nat
      BY MaxLostAssumption, OrderIs DEF Shape
    <3> QED BY <1>2, <3>1
  <2> QED BY <1>4, <1>6, <1>7, <1>12, <2>1, <2>2, <2>3, <2>4 DEF Shape
<1>14. InTurn'
  <2> SUFFICES ASSUME NEW n \in Ids
               PROVE  /\ (sequence_number'[n] - 2) * Len(Order) + Place(n) <= sent'
                      /\ sent' < (sequence_number'[n] - 1) * Len(Order) + Place(n)
    BY DEF InTurn
  <2>1. Len(Order) \in Nat /\ Len(Order) >= 1 /\ Place(n) \in Nat /\ Place(m) \in Nat
    BY <1>1, OrderIs
  <2>2. CASE n = m
    <3>1. (sq + 1) - 2 = sq - 1 /\ (sq + 1) - 1 = (sq - 1) + 1
      BY <1>5
    <3>2. ((sq - 1) + 1) * Len(Order) = (sq - 1) * Len(Order) + Len(Order)
      BY <1>5, <2>1
    <3>3. (sq - 1) * Len(Order) \in Int
      BY <1>5, <2>1
    <3>4. \A x, l, q : /\ x \in Int /\ l \in Nat /\ l >= 1 /\ q \in Int
                      => (x + q <= x + q) /\ (x + q < (x + l) + q)
      OBVIOUS
    <3> DEFINE x == (sq - 1) * Len(Order)
    <3>5. sent' = x + Place(m) /\ (sequence_number'[n] - 2) * Len(Order) = x
          /\ (sequence_number'[n] - 1) * Len(Order) = x + Len(Order)
      BY <1>1, <1>4, <1>7, <2>2, <3>1, <3>2
    <3> HIDE DEF x
    <3> QED BY <2>1, <2>2, <3>3, <3>4, <3>5 DEF x
  <2>3. CASE n # m
    <3>1. sequence_number'[n] = sequence_number[n] /\ sequence_number[n] \in Nat
      BY <1>7, <2>3 DEF Shape
    <3>2. (sequence_number[n] - 2) * Len(Order) \in Int
      BY <2>1, <3>1
    <3>3. (sequence_number[n] - 2) * Len(Order) + Place(n) <= sent
      BY DEF InTurn
    <3>4. (sequence_number[n] - 2) * Len(Order) + Place(n) <= sent + 1
      BY <1>5, <2>1, <3>2, <3>3
    <3> QED BY <1>1, <1>4, <2>3, <3>1, <3>4
  <2> QED BY <2>2, <2>3
<1>15. \A j \in Int : j >= Len(file) + 1 => TxReported(m, sq, j)'
  <2> SUFFICES ASSUME NEW j \in Int, j >= Len(file) + 1
               PROVE  TxReported(m, sq, j)'
    OBVIOUS
  <2>1. Len(file) + 1 \in 1..j
    BY <1>6
  <2>2. TxLine(m, t).kind = "tx range" /\ TxLine(m, t).id = m /\ TxLine(m, t).seq = sq
    BY <1>1 DEF TxLine
  <2> QED BY <1>6, <2>1, <2>2 DEF TxReported
<1>16. ItemsFit'
  <2> SUFFICES ASSUME NEW n \in Ids, NEW l \in DOMAIN receive_timestamps'[n]
               PROVE  ItemFits(n, receive_timestamps[n][l], Len(file))'
    BY DEF ItemsFit
  <2>1. Len(file) \in 0..Len(file) /\ Len(file') \in Int /\ Len(file) <= Len(file')
        /\ Len(file') >= Len(file) + 1
    BY <1>5, <1>6
  <2>2. \A p \in DOMAIN receive_timestamps[n] : /\ receive_timestamps[n][p] \in Item
                                               /\ ItemFits(n, receive_timestamps[n][p], Len(file))
    BY DEF ItemsFit, Shape
  <2>3. ASSUME NEW p \in DOMAIN receive_timestamps[n],
               receive_timestamps'[n][l] = receive_timestamps[n][p]
        PROVE  ItemFits(n, receive_timestamps[n][l], Len(file))'
    BY <1>8, <2>1, <2>2, <2>3
  <2>4. CASE \E i \in 1..k : heard[i] = n
    <3> DEFINE rx == Clock(n, t + Flight[m][n])
    <3>1. receive_timestamps'[n] = Remember(receive_timestamps[n], m, sq, rx)
      BY <1>2, <2>4
    <3>2. \/ receive_timestamps'[n][l] = [id |-> m, seq |-> sq, rx |-> rx]
          \/ \E p \in DOMAIN receive_timestamps[n] :
               receive_timestamps'[n][l] = receive_timestamps[n][p]
      <4>1. receive_timestamps[n] \in Seq(Item) /\ rx \in Int
        BY <1>11 DEF Shape
      <4> HIDE DEF rx
      <4> QED BY <1>3, <3>1, <4>1, RememberIs
    <3>3. CASE receive_timestamps'[n][l] = [id |-> m, seq |-> sq, rx |-> rx]
      <4> DEFINE item == [id |-> m, seq |-> sq, rx |-> rx]
      <4>1. item.id = m /\ item.seq = sq /\ item.rx = rx
        OBVIOUS
      <4> HIDE DEF item
      <4>2. m # n
        BY <1>5, <2>4
      <4>3. TxReported(m, sq, Len(file))'
        BY <1>15, <2>1
      <4>4. receive_timestamps'[n][l] = item
        BY <3>3 DEF item
      <4>5. rx = Clock(n, When(m, sq) + Flight[m][n])
        BY <1>9
      <4> HIDE DEF rx
      <4> QED BY <1>9, <4>1, <4>2, <4>3, <4>4, <4>5 DEF ItemFits, Clock
    <3> QED BY <2>3, <3>2, <3>3
  <2>5. CASE ~\E i \in 1..k : heard[i] = n
    BY <1>2, <2>3, <2>5
  <2> QED BY <2>4, <2>5
<1>17. LinesFit'
  <2> SUFFICES ASSUME NEW i \in 1..Len(file')
               PROVE  (IF file[i].kind = "tx range" THEN TxLineFits(file[i])
                                                    ELSE RxLineFits(file[i], i))'
    BY DEF LinesFit
  <2>1. CASE i \in 1..Len(file)
    <3>1. file'[i] = file[i] /\ file[i] \in Line
      <4>1. file \in Seq(Line)
        BY DEF Shape
      <4> HIDE DEF IInv
      <4>2. file[i] \in Line
        BY <2>1, <4>1, ElementOfSeq
      <4> QED BY <1>6, <2>1, <4>2
    <3>2. CASE file[i].kind = "tx range"
      <4>1. TxLineFits(file[i]) /\ file[i].id \in Ids
        BY <2>1, <3>1, <3>2 DEF LinesFit, Line
      <4> QED BY <1>8, <3>1, <3>2, <4>1 DEF TxLineFits, Clock
    <3>3. CASE file[i].kind # "tx range"
      <4>1. /\ RxLineFits(file[i], i)
            /\ file[i].id \in Ids /\ file[i].sender \in Ids
            /\ file[i].timestamps \in Seq(Item)
        BY <2>1, <3>1, <3>3 DEF LinesFit, Line
      <4>2. ASSUME NEW p \in DOMAIN file[i].timestamps
            PROVE  ItemFits(file[i].sender, file[i].timestamps[p], i - 1)'
        <5>1. /\ file[i].timestamps[p] \in Item
              /\ ItemFits(file[i].sender, file[i].timestamps[p], i - 1)
          BY <4>1 DEF RxLineFits
        <5>2. i - 1 \in 0..Len(file) /\ i - 1 \in Int
          BY <1>6, <2>1
        <5>3. PICK n, item, j : /\ n = file[i].sender /\ item = file[i].timestamps[p]
                                /\ j = i - 1
          OBVIOUS
        <5>4. ItemFits(n, item, j)'
          BY <1>8, <4>1, <5>1, <5>2, <5>3
        <5> QED BY <3>1, <5>3, <5>4
      <4> HIDE DEF IInv
      <4> QED BY <1>8, <3>1, <3>3, <4>1, <4>2 DEF RxLineFits, Clock
    <3> QED BY <3>2, <3>3
  <2>2. CASE i = Len(file) + 1
    <3>1. /\ TxLine(m, t).kind = "tx range" /\ TxLine(m, t).id = m
          /\ TxLine(m, t).seq = sq /\ TxLine(m, t).tx = Clock(m, t)
      BY <1>1 DEF TxLine
    <3> QED BY <1>6, <1>9, <2>2, <3>1 DEF TxLineFits, Clock
  <2>3. CASE i \notin 1..(Len(file) + 1)
    <3> DEFINE r == i - (Len(file) + 1)
    <3>1. r \in 1..k /\ i = Len(file) + 1 + r
      BY <1>5, <1>6, <2>3
    <3>2. file'[i] = RxLine(heard[r], m, t) /\ heard[r] \in Ids /\ heard[r] # m
      BY <1>5, <1>6, <3>1
    <3>3. /\ file'[i].kind = "rx range" /\ file'[i].id = heard[r] /\ file'[i].sender = m
          /\ file'[i].seq = sq /\ file'[i].tx = Clock(m, t)
          /\ file'[i].rx = Clock(heard[r], t + Flight[m][heard[r]])
          /\ file'[i].timestamps = receive_timestamps[m]
      <4>1. PICK n : n = heard[r]
        OBVIOUS
      <4>2. /\ RxLine(n, m, t).kind = "rx range" /\ RxLine(n, m, t).id = n
            /\ RxLine(n, m, t).sender = m /\ RxLine(n, m, t).seq = sequence_number[m]
            /\ RxLine(n, m, t).tx = Clock(m, t)
            /\ RxLine(n, m, t).rx = Clock(n, t + Flight[m][n])
            /\ RxLine(n, m, t).timestamps = receive_timestamps[m]
        BY DEF RxLine
      <4> HIDE DEF r, IInv
      <4> QED BY <1>3, <3>2, <4>1, <4>2
    <3>4. ASSUME NEW p \in DOMAIN receive_timestamps[m], NEW item,
                 item = receive_timestamps[m][p]
          PROVE  ItemFits(m, item, i - 1)'
      <4>1. item \in Item /\ ItemFits(m, item, Len(file))
        BY <1>3, <3>4 DEF ItemsFit, Shape
      <4>2. Len(file) \in 0..Len(file) /\ Len(file) <= i - 1 /\ i - 1 \in Int
        BY <1>6, <2>3
      <4>3. PICK j : j = i - 1
        OBVIOUS
      <4>4. ItemFits(m, item, j)'
        BY <1>3, <1>8, <4>1, <4>2, <4>3
      <4> QED BY <4>3, <4>4
    <3> HIDE DEF r, IInv
    <3>5. PICK line : line = file'[i]
      OBVIOUS
    <3>6. \A p \in DOMAIN line.timestamps : ItemFits(m, line.timestamps[p], i - 1)'
      BY <3>3, <3>4, <3>5
    <3> QED BY <1>9, <3>2, <3>3, <3>5, <3>6 DEF RxLineFits, Clock
  <2> HIDE DEF IInv
  <2>4. i \in 1..(Len(file) + 1) => i \in 1..Len(file) \/ i = Len(file) + 1
    BY <1>6
  <2> QED BY <2>1, <2>2, <2>3, <2>4
<1>18. NodesFit'
  <2> SUFFICES ASSUME NEW a \in Ids PROVE StoredFits(a, nodes[a])'
    BY DEF NodesFit
  <2>1. StoredFits(a, nodes[a]) /\ nodes' = nodes
    BY <1>4 DEF NodesFit
  <2>2. \A n \in Ids : \A s \in Used(n) : s \in Used(n)'
    BY <1>8
  <2> QED BY <2>1, <2>2 DEF StoredFits, Clock
<1>19. TxLinesRead'
  <2>1. 1..line_no \subseteq 1..Len(file) /\ line_no' = line_no /\ nodes' = nodes
    BY <1>4 DEF Shape
  <2> QED BY <1>6, <2>1 DEF TxLinesRead
<1>20. nodes' = nodes
  BY <1>4
<1> QED BY <1>13, <1>14, <1>16, <1>17, <1>18, <1>19, <1>20
       DEF PeersKnown, ActiveExact, PassiveExact, NeverRaises

-----------------------------------------------------------------------------
\* What IInv says of a measurement at a, and of the node a as a whole.
ActiveRight(a, m) ==
  /\ m.b \in Ids
  /\ m.num * (clock_err[a] + clock_err[m.b])
       = m.den * (2 * clock_err[a] * clock_err[m.b] * Flight[a][m.b])

PassiveRight(a, m) ==
  /\ m.b \in Ids /\ m.c \in Ids
  /\ m.num = m.den * (clock_err[a] *
               (Flight[m.b][m.c] + Flight[a][m.b] - Flight[a][m.c]))

Right(a, h) ==
  /\ DOMAIN h = Fields
  /\ StoredFits(a, h)
  /\ \A m \in h.active : ActiveRight(a, m)
  /\ \A m \in h.passive : PassiveRight(a, m)
  /\ ~h.raised

Parts ==
  /\ Shape
  /\ InTurn
  /\ ItemsFit
  /\ LinesFit
  /\ TxLinesRead
  /\ \A a \in Ids : Right(a, nodes[a])

LEMMA PartsAre == IInv <=> Parts
<1>1. ASSUME IInv, NEW a \in Ids PROVE Right(a, nodes[a])
  <2>1. DOMAIN nodes[a] = Fields /\ StoredFits(a, nodes[a]) /\ ~nodes[a].raised
    BY <1>1 DEF IInv, Shape, NodesFit, NeverRaises
  <2>2. ASSUME NEW m \in nodes[a].active PROVE ActiveRight(a, m)
    <3>1. m.b \in Ids
      BY <1>1 DEF IInv, PeersKnown
    <3> QED BY <1>1, <3>1 DEF IInv, ActiveExact, ActiveRight
  <2>3. ASSUME NEW m \in nodes[a].passive PROVE PassiveRight(a, m)
    <3>1. m.b \in Ids /\ m.c \in Ids
      BY <1>1 DEF IInv, PeersKnown
    <3> QED BY <1>1, <3>1 DEF IInv, PassiveExact, PassiveRight
  <2> QED BY <2>1, <2>2, <2>3 DEF Right
<1>2. ASSUME Parts PROVE IInv
  <2>1. NodesFit /\ NeverRaises
    BY <1>2 DEF Parts, Right, NodesFit, NeverRaises
  <2>2. \A a \in Ids : /\ \A m \in nodes[a].active : ActiveRight(a, m)
                       /\ \A m \in nodes[a].passive : PassiveRight(a, m)
    BY <1>2 DEF Parts, Right
  <2>3. PeersKnown
    BY <2>2 DEF PeersKnown, ActiveRight, PassiveRight
  <2>4. ActiveExact
    BY <2>2 DEF ActiveExact, ActiveRight
  <2>5. PassiveExact
    BY <2>2 DEF PassiveExact, PassiveRight
  <2> QED BY <1>2, <2>1, <2>3, <2>4, <2>5 DEF IInv, Parts
<1> QED BY <1>1, <1>2 DEF Parts, IInv

\* evaluate_tx stores the time of a transmission.
LEMMA TxIsRight ==
  ASSUME NEW a, NEW h, NEW line, a \in Ids, Right(a, h),
         TxLineFits(line), line.id = a
  PROVE  /\ Right(a, EvaluateTx(h, line))
         /\ DOMAIN EvaluateTx(h, line).tx_ts = {line.seq} \cup DOMAIN h.tx_ts
<1> DEFINE new == EvaluateTx(h, line)
           times == Put(h.tx_ts, line.seq, line.tx)
<1>1. DOMAIN h = Fields /\ StoredFits(a, h)
  BY DEF Right
<1>2. /\ DOMAIN times = {line.seq} \cup DOMAIN h.tx_ts
      /\ times[line.seq] = line.tx
      /\ \A x \in DOMAIN h.tx_ts : x # line.seq => times[x] = h.tx_ts[x]
  BY DEF Put
<1> HIDE DEF times
<1>3. /\ DOMAIN new = Fields /\ new.tx_ts = times
      /\ new.node_id = h.node_id /\ new.rx_ts = h.rx_ts
      /\ new.other_tx_ts = h.other_tx_ts /\ new.other_rx_ts = h.other_rx_ts
      /\ new.active = h.active /\ new.passive = h.passive /\ new.raised = h.raised
  BY <1>1 DEF EvaluateTx, Fields, times
<1> HIDE DEF new
<1>4. \A s \in DOMAIN new.tx_ts : s \in Used(a) /\ new.tx_ts[s] = Clock(a, When(a, s))
  <2> SUFFICES ASSUME NEW s \in DOMAIN new.tx_ts
               PROVE  s \in Used(a) /\ new.tx_ts[s] = Clock(a, When(a, s))
    OBVIOUS
  <2>1. CASE s = line.seq
    BY <1>2, <1>3, <2>1 DEF TxLineFits
  <2>2. CASE s # line.seq
    BY <1>1, <1>2, <1>3, <2>2 DEF StoredFits
  <2> QED BY <2>1, <2>2
<1>5. StoredFits(a, new)
  BY <1>1, <1>3, <1>4 DEF StoredFits
<1>6. Right(a, new)
  BY <1>3, <1>5 DEF Right
<1> QED BY <1>2, <1>3, <1>6 DEF new

\* evaluate_rx stores the times of the message ...
LEMMA StoredIsRight ==
  ASSUME NEW a, NEW h, NEW line, a \in Ids, DOMAIN h = Fields, StoredFits(a, h),
         line.id = a, line.sender \in Ids, line.sender # a,
         line.seq \in Nat, line.seq \in Used(line.sender),
         line.tx = Clock(line.sender, When(line.sender, line.seq)),
         line.rx = Clock(a, When(line.sender, line.seq) + Flight[line.sender][a])
  PROVE  /\ StoredFits(a, Stored(h, line))
         /\ <<line.sender, line.seq>> \in DOMAIN Stored(h, line).rx_ts
         /\ Stored(h, line).tx_ts = h.tx_ts
<1> DEFINE b == line.sender
           m3 == line.seq
           key == <<b, m3>>
           new == Stored(h, line)
           tx == Put(h.other_tx_ts, key, line.tx)
           rx == Put(h.rx_ts, key, line.rx)
<1>1. /\ DOMAIN tx = {key} \cup DOMAIN h.other_tx_ts
      /\ tx[key] = line.tx
      /\ \A k \in DOMAIN h.other_tx_ts : k # key => tx[k] = h.other_tx_ts[k]
  BY DEF Put
<1>2. /\ DOMAIN rx = {key} \cup DOMAIN h.rx_ts
      /\ rx[key] = line.rx
      /\ \A k \in DOMAIN h.rx_ts : k # key => rx[k] = h.rx_ts[k]
  BY DEF Put
<1> HIDE DEF tx, rx
<1>3. /\ new.tx_ts = h.tx_ts /\ new.node_id = h.node_id
      /\ new.other_tx_ts = tx /\ new.rx_ts = rx /\ new.other_rx_ts = h.other_rx_ts
  BY DEF Stored, Fields, tx, rx
<1> HIDE DEF new
<1>4. key \in (Ids \ {a}) \X Nat /\ key[1] = b /\ key[2] = m3
  OBVIOUS
<1> HIDE DEF key
<1>5. \A k \in DOMAIN new.rx_ts :
        /\ k[2] \in Used(k[1])
        /\ new.rx_ts[k] = Clock(a, When(k[1], k[2]) + Flight[k[1]][a])
        /\ new.other_tx_ts[k] = Clock(k[1], When(k[1], k[2]))
  <2> SUFFICES ASSUME NEW k \in DOMAIN rx
               PROVE  /\ k[2] \in Used(k[1])
                      /\ rx[k] = Clock(a, When(k[1], k[2]) + Flight[k[1]][a])
                      /\ tx[k] = Clock(k[1], When(k[1], k[2]))
    BY <1>3
  <2>1. CASE k = key
    BY <1>1, <1>2, <1>4, <2>1
  <2>2. CASE k # key
    <3>1. k \in DOMAIN h.rx_ts /\ k \in DOMAIN h.other_tx_ts
      BY <1>2, <2>2 DEF StoredFits
    <3>2. rx[k] = h.rx_ts[k] /\ tx[k] = h.other_tx_ts[k]
      BY <1>1, <1>2, <2>2, <3>1
    <3> QED BY <3>1, <3>2 DEF StoredFits
  <2> QED BY <2>1, <2>2
<1>6. /\ DOMAIN new.other_tx_ts = DOMAIN new.rx_ts
      /\ DOMAIN new.rx_ts \subseteq (Ids \ {a}) \X Nat
  BY <1>1, <1>2, <1>3, <1>4 DEF StoredFits
<1>7. StoredFits(a, new)
  BY <1>3, <1>5, <1>6 DEF StoredFits
<1> QED BY <1>2, <1>3, <1>7 DEF new, key

\* ... and makes a right measurement with every timestamp it does not stop at.
LEMMA MeasurementIsRight ==
  ASSUME NEW a, NEW h, NEW b, NEW m3, NEW ts, NEW i,
         a \in Ids, b \in Ids, b # a, m3 \in Nat, StoredFits(a, h),
         <<b, m3>> \in DOMAIN h.rx_ts, ts \in Item, ItemFits(b, ts, i),
         ts.id = a => ts.seq \in DOMAIN h.tx_ts,
         ~Breaks(h, GetStoredRx(h, b, m3), ts)
  PROVE  LET m1 == GetStoredRx(h, b, m3)
         IN  /\ ~Raises(h, b, m1, ts, m3)
             /\ ts.id = a => ActiveRight(a, ActiveMeasurement(h, b, m1, ts, m3))
             /\ ts.id # a => PassiveRight(a, PassiveMeasurement(h, b, m1, ts, m3))
<1> DEFINE m1 == GetStoredRx(h, b, m3)
<1>1. m1 # NoSeq /\ (ts.id # a => <<ts.id, ts.seq>> \in DOMAIN h.rx_ts)
  BY DEF Breaks, StoredFits
<1>2. m1 \in Nat /\ m1 < m3 /\ <<b, m1>> \in DOMAIN h.rx_ts
  BY <1>1, StoredRxIsNewest
<1> HIDE DEF m1
<1>3. /\ h.rx_ts[<<b, m1>>] = Clock(a, When(b, m1) + Flight[b][a])
      /\ h.rx_ts[<<b, m3>>] = Clock(a, When(b, m3) + Flight[b][a])
      /\ h.other_tx_ts[<<b, m1>>] = Clock(b, When(b, m1))
      /\ h.other_tx_ts[<<b, m3>>] = Clock(b, When(b, m3))
  <2>1. \A s : <<b, s>> \in DOMAIN h.rx_ts =>
               /\ h.rx_ts[<<b, s>>] = Clock(a, When(b, s) + Flight[b][a])
               /\ h.other_tx_ts[<<b, s>>] = Clock(b, When(b, s))
    <3> SUFFICES ASSUME NEW s, <<b, s>> \in DOMAIN h.rx_ts
                 PROVE  /\ h.rx_ts[<<b, s>>] = Clock(a, When(b, s) + Flight[b][a])
                        /\ h.other_tx_ts[<<b, s>>] = Clock(b, When(b, s))
      OBVIOUS
    <3> DEFINE k == <<b, s>>
    <3>1. k[1] = b /\ k[2] = s
      OBVIOUS
    <3> HIDE DEF k
    <3>2. k \in DOMAIN h.rx_ts
      BY DEF k
    <3>3. /\ h.rx_ts[k] = Clock(a, When(k[1], k[2]) + Flight[k[1]][a])
          /\ h.other_tx_ts[k] = Clock(k[1], When(k[1], k[2]))
      BY <3>2 DEF StoredFits
    <3>4. h.rx_ts[k] = Clock(a, When(b, s) + Flight[b][a])
          /\ h.other_tx_ts[k] = Clock(b, When(b, s))
      BY <3>1, <3>3
    <3> QED BY <3>4 DEF k
  <2> QED BY <1>2, <2>1
<1>4. /\ ts.id \in Ids /\ ts.seq \in Nat /\ ts.seq \in Int /\ m1 \in Int /\ m3 \in Int
      /\ ts.rx = Clock(b, When(ts.id, ts.seq) + Flight[ts.id][b])
  BY <1>2 DEF Item, ItemFits
<1>5. CASE ts.id = a
  <2>1. ts.seq \in DOMAIN h.tx_ts /\ h.tx_ts[ts.seq] = Clock(a, When(a, ts.seq))
    BY <1>5 DEF StoredFits
  <2>2. ts.rx = Clock(b, When(a, ts.seq) + Flight[a][b])
    BY <1>4, <1>5
  <2> DEFINE m == ActiveMeasurement(h, b, m1, ts, m3)
  <2>3. /\ m.b = b
        /\ m.den # 0
        /\ m.num * (clock_err[a] + clock_err[b])
             = m.den * (2 * clock_err[a] * clock_err[b] * Flight[a][b])
    BY <1>2, <1>3, <1>4, <2>1, <2>2, ActiveIsExact
  <2>4. ~Raises(h, b, m1, ts, m3)
    <3> HIDE DEF m
    <3>1. m.den # 0
      BY <2>3
    <3> QED BY <1>5, <2>1, <3>1 DEF Raises, StoredFits, m
  <2>5. ActiveRight(a, m)
    <3> HIDE DEF m
    <3> QED BY <2>3 DEF ActiveRight
  <2> QED BY <1>5, <2>4, <2>5 DEF m1
<1>6. CASE ts.id # a
  <2> DEFINE key == <<ts.id, ts.seq>>
  <2>1. key \in DOMAIN h.rx_ts /\ key[1] = ts.id /\ key[2] = ts.seq
    BY <1>1, <1>6
  <2> HIDE DEF key
  <2>2. h.rx_ts[key] = Clock(a, When(ts.id, ts.seq) + Flight[ts.id][a])
    BY <2>1 DEF StoredFits
  <2>3. h.rx_ts[<<ts.id, ts.seq>>] = Clock(a, When(ts.id, ts.seq) + Flight[ts.id][a])
    BY <2>2 DEF key
  <2> DEFINE m == PassiveMeasurement(h, b, m1, ts, m3)
  <2>4. /\ m.b = b /\ m.c = ts.id
        /\ m.den # 0
        /\ m.num = m.den * (clock_err[a] *
              (Flight[b][ts.id] + Flight[a][b] - Flight[a][ts.id]))
    BY <1>2, <1>3, <1>4, <2>3, PassiveIsExact
  <2>5. ~Raises(h, b, m1, ts, m3)
    <3> HIDE DEF m
    <3>1. m.den # 0
      BY <2>4
    <3> QED BY <1>6, <3>1 DEF Raises, StoredFits, m
  <2>6. PassiveRight(a, m)
    <3> HIDE DEF m
    <3> QED BY <1>4, <2>4 DEF PassiveRight
  <2> QED BY <1>6, <2>5, <2>6 DEF m1
<1> QED BY <1>5, <1>6

LEMMA RxIsRight ==
  ASSUME NEW a, NEW h, NEW line, NEW i, a \in Ids, Right(a, h), RxLineFits(line, i),
         line.id = a, line.sender \in Ids, line.seq \in Nat,
         line.timestamps \in Seq(Item),
         \A n \in Ids : Used(n) \subseteq Nat,
         \A s : TxReported(a, s, i - 1) => s \in DOMAIN h.tx_ts
  PROVE  /\ Right(a, EvaluateRx(h, line)) /\ EvaluateRx(h, line).tx_ts = h.tx_ts
         /\ \A p \in DOMAIN line.timestamps :
              LET h1 == Stored(h, line)
                  m1 == GetStoredRx(h1, line.sender, line.seq)
              IN  ~Raises(h1, line.sender, m1, line.timestamps[p], line.seq)
<1> DEFINE b == line.sender
           m3 == line.seq
           h1 == Stored(h, line)
           m1 == GetStoredRx(h1, b, m3)
           stamps == {line.timestamps[k] : k \in DOMAIN line.timestamps}
           new == EvaluateRx(h, line)
<1>1. /\ DOMAIN h = Fields /\ StoredFits(a, h) /\ h.node_id = a
      /\ b # a /\ b \in Ids /\ m3 \in Nat
  BY DEF Right, RxLineFits, StoredFits
<1>2. StoredFits(a, h1) /\ <<b, m3>> \in DOMAIN h1.rx_ts /\ h1.tx_ts = h.tx_ts
  BY <1>1, StoredIsRight DEF RxLineFits
<1>3. \A ts \in stamps : ts \in Item /\ ItemFits(b, ts, i - 1)
  BY DEF RxLineFits
<1>4. ASSUME NEW ts, ts \in stamps
      PROVE  /\ ~Raises(h1, b, m1, ts, m3)
             /\ Measured(h1, b, m1, ts, m3) /\ ts.id = a
                  => ActiveRight(a, ActiveMeasurement(h1, b, m1, ts, m3))
             /\ Measured(h1, b, m1, ts, m3) /\ ts.id # a
                  => PassiveRight(a, PassiveMeasurement(h1, b, m1, ts, m3))
  <2>1. ts \in Item /\ ItemFits(b, ts, i - 1)
    BY <1>3, <1>4
  <2>2. ts.id = a => ts.seq \in DOMAIN h1.tx_ts
    BY <1>2, <2>1 DEF ItemFits
  <2> HIDE DEF b, m3, h1, stamps, new
  <2>3. CASE Breaks(h1, m1, ts)
    BY <2>3 DEF Raises, Measured
  <2>4. CASE ~Breaks(h1, m1, ts)
    <3>1. PICK j : j = i - 1
      OBVIOUS
    <3> QED BY <1>1, <1>2, <2>1, <2>2, <2>4, <3>1, MeasurementIsRight
  <2> QED BY <2>3, <2>4
<1>5. /\ DOMAIN new = Fields
      /\ new.node_id = h.node_id /\ new.tx_ts = h.tx_ts
      /\ new.other_tx_ts = Put(h.other_tx_ts, <<b, m3>>, line.tx)
      /\ new.rx_ts = Put(h.rx_ts, <<b, m3>>, line.rx)
      /\ \A k \in DOMAIN new.other_rx_ts \ DOMAIN h.other_rx_ts :
           \E ts \in stamps : k = <<b, ts.id, ts.seq>>
      /\ \A m \in new.active \ h.active :
           \E ts \in stamps : /\ Measured(h1, b, m1, ts, m3)
                              /\ ts.id = h.node_id
                              /\ m = ActiveMeasurement(h1, b, m1, ts, m3)
      /\ \A m \in new.passive \ h.passive :
           \E ts \in stamps : /\ Measured(h1, b, m1, ts, m3)
                              /\ ts.id # h.node_id
                              /\ m = PassiveMeasurement(h1, b, m1, ts, m3)
      /\ new.raised => \E ts \in stamps : Raises(h1, b, m1, ts, m3)
  BY <1>1, EvaluateRxIs
<1>6. /\ h1.other_tx_ts = new.other_tx_ts /\ h1.rx_ts = new.rx_ts
  BY <1>1, <1>5 DEF Stored, Fields
<1>12. \A p \in DOMAIN line.timestamps : ~Raises(h1, b, m1, line.timestamps[p], m3)
  <2>1. \A p \in DOMAIN line.timestamps : line.timestamps[p] \in stamps
    OBVIOUS
  <2> HIDE DEF b, m3, h1, m1, stamps, new
  <2> QED BY <1>4, <2>1
<1> HIDE DEF b, m3, h1, m1, stamps, new
<1>7. StoredFits(a, new)
  <2>1. ASSUME NEW k \in DOMAIN new.other_rx_ts
        PROVE  k \in Ids \X Ids \X Nat /\ k[3] \in Used(k[2])
    <3>1. CASE k \in DOMAIN h.other_rx_ts
      BY <1>1, <3>1 DEF StoredFits
    <3>2. CASE k \notin DOMAIN h.other_rx_ts
      <4>1. PICK ts \in stamps : k = <<b, ts.id, ts.seq>>
        BY <1>5, <3>2
      <4>2. ts.id \in Ids /\ ts.seq \in Nat /\ ts.seq \in Used(ts.id)
        BY <1>3 DEF ItemFits, Item
      <4> QED BY <1>1, <4>1, <4>2
    <3> QED BY <3>1, <3>2
  <2>2. \A s \in DOMAIN new.tx_ts : s \in Used(a) /\ new.tx_ts[s] = Clock(a, When(a, s))
    BY <1>1, <1>5 DEF StoredFits
  <2> QED BY <1>1, <1>2, <1>5, <1>6, <2>1, <2>2 DEF StoredFits
<1>8. \A m \in new.active : ActiveRight(a, m)
  <2> SUFFICES ASSUME NEW m \in new.active PROVE ActiveRight(a, m)
    OBVIOUS
  <2>1. CASE m \in h.active
    BY <2>1 DEF Right
  <2>2. CASE m \notin h.active
    <3>1. PICK ts \in stamps : /\ Measured(h1, b, m1, ts, m3)
                               /\ ts.id = h.node_id
                               /\ m = ActiveMeasurement(h1, b, m1, ts, m3)
      BY <1>5, <2>2
    <3> QED BY <1>1, <1>4, <3>1
  <2> QED BY <2>1, <2>2
<1>9. \A m \in new.passive : PassiveRight(a, m)
  <2> SUFFICES ASSUME NEW m \in new.passive PROVE PassiveRight(a, m)
    OBVIOUS
  <2>1. CASE m \in h.passive
    BY <2>1 DEF Right
  <2>2. CASE m \notin h.passive
    <3>1. PICK ts \in stamps : /\ Measured(h1, b, m1, ts, m3)
                               /\ ts.id # h.node_id
                               /\ m = PassiveMeasurement(h1, b, m1, ts, m3)
      BY <1>5, <2>2
    <3> QED BY <1>1, <1>4, <3>1
  <2> QED BY <2>1, <2>2
<1>10. ~new.raised
  BY <1>4, <1>5
<1>11. Right(a, new) /\ new.tx_ts = h.tx_ts
  BY <1>5, <1>7, <1>8, <1>9, <1>10 DEF Right
<1> QED BY <1>11, <1>12 DEF new, b, m3, h1, m1

\* One line of the file is evaluated; the simulation is over.
Same ==
  /\ sent' = sent
  /\ global_clock' = global_clock
  /\ sequence_number' = sequence_number
  /\ receive_timestamps' = receive_timestamps
  /\ file' = file
  /\ lost' = lost

LEMMA SameKeeps ==
  Same /\ InTurn /\ ItemsFit /\ LinesFit => InTurn' /\ ItemsFit' /\ LinesFit'
<1> SUFFICES ASSUME Same, InTurn, ItemsFit, LinesFit
             PROVE  InTurn' /\ ItemsFit' /\ LinesFit'
  OBVIOUS
<1>1. InTurn'
  BY DEF Same, InTurn
<1>2. \A n : Used(n)' = Used(n)
  BY DEF Same, Used
<1>3. \A n, item, i : ItemFits(n, item, i)' = ItemFits(n, item, i)
  BY <1>2 DEF Same, ItemFits, TxReported, Clock
<1>4. /\ \A line : TxLineFits(line)' = TxLineFits(line)
      /\ \A line, i : RxLineFits(line, i)' = RxLineFits(line, i)
  BY <1>2, <1>3 DEF TxLineFits, RxLineFits, Clock
<1>5. ItemsFit'
  <2> SUFFICES ASSUME NEW n \in Ids, NEW k \in DOMAIN receive_timestamps[n]
               PROVE  ItemFits(n, receive_timestamps[n][k], Len(file))'
    BY DEF ItemsFit, Same
  <2>1. PICK item, i : item = receive_timestamps[n][k] /\ i = Len(file)
    OBVIOUS
  <2>2. ItemFits(n, item, i)'
    BY <1>3, <2>1 DEF ItemsFit
  <2> QED BY <2>1, <2>2 DEF Same
<1>6. LinesFit'
  <2> SUFFICES ASSUME NEW i \in 1..Len(file)
               PROVE  (IF file[i].kind = "tx range" THEN TxLineFits(file[i])
                                                    ELSE RxLineFits(file[i], i))'
    BY DEF LinesFit, Same
  <2>1. PICK line : line = file[i]
    OBVIOUS
  <2>2. IF line.kind = "tx range" THEN TxLineFits(line)' ELSE RxLineFits(line, i)'
    BY <1>4, <2>1 DEF LinesFit
  <2> QED BY <2>1, <2>2 DEF Same
<1> QED BY <1>1, <1>5, <1>6

\* Reading a line.
LEMMA EvaluateLineKeeps == IInv /\ EvaluateLine => IInv'
<1> SUFFICES ASSUME IInv, EvaluateLine PROVE IInv'
  OBVIOUS
<1>1. /\ Shape /\ InTurn /\ ItemsFit /\ LinesFit /\ TxLinesRead
      /\ \A n \in Ids : Right(n, nodes[n])
  BY PartsAre DEF Parts
<1>0. PICK i \in Int : i = line_no + 1
  BY <1>1 DEF Shape
<1>2. PICK line, a, h : /\ i = line_no + 1 /\ line = file[i]
                        /\ a = line.id /\ h = nodes[a]
  BY <1>0
<1>3. /\ line_no' = i /\ i \in 1..Len(file) /\ i \in Int
      /\ nodes' = [nodes EXCEPT ![a] = IF line.kind = "tx range" THEN EvaluateTx(h, line)
                                                                 ELSE EvaluateRx(h, line)]
      /\ Same
      /\ i - 1 = line_no /\ Len(file) \in Nat
  <2>1. line_no \in 0..Len(file) /\ Len(file) \in Nat
    BY <1>1 DEF Shape
  <2>2. line_no < Len(file)
    BY DEF EvaluateLine
  <2>3. i \in 1..Len(file) /\ i \in Int /\ i - 1 = line_no
    BY <1>2, <2>1, <2>2
  <2> QED BY <1>2, <2>1, <2>3 DEF EvaluateLine, Same
<1>4. \A j \in 1..Len(file) : file[j] \in Line
  <2>1. file \in Seq(Line)
    BY <1>1 DEF Shape
  <2> QED BY <2>1
<1>5. line \in Line /\ a \in Ids /\ Right(a, h) /\ DOMAIN nodes = Ids
  <2>1. line \in Line
    BY <1>2, <1>3, <1>4
  <2> QED BY <1>1, <1>2, <2>1 DEF Line, Shape
<1>6. /\ \A n \in Ids : n # a => nodes'[n] = nodes[n]
      /\ nodes'[a] = IF line.kind = "tx range" THEN EvaluateTx(h, line)
                                               ELSE EvaluateRx(h, line)
      /\ DOMAIN nodes' = Ids
  BY <1>3, <1>5
<1>7. /\ Right(a, nodes'[a])
      /\ DOMAIN h.tx_ts \subseteq DOMAIN nodes'[a].tx_ts
      /\ line.kind = "tx range" => line.seq \in DOMAIN nodes'[a].tx_ts
  <2>1. CASE line.kind = "tx range"
    <3>1. TxLineFits(line)
      BY <1>1, <1>2, <1>3, <2>1 DEF LinesFit
    <3>2. /\ Right(a, EvaluateTx(h, line))
          /\ DOMAIN EvaluateTx(h, line).tx_ts = {line.seq} \cup DOMAIN h.tx_ts
      BY <1>2, <1>5, <3>1, TxIsRight
    <3> QED BY <1>6, <2>1, <3>2
  <2>2. CASE line.kind # "tx range"
    <3>1. RxLineFits(line, i)
      BY <1>1, <1>2, <1>3, <2>2 DEF LinesFit
    <3>2. line.sender \in Ids /\ line.seq \in Nat /\ line.timestamps \in Seq(Item)
      BY <1>5, <2>2 DEF Line
    <3>3. \A n \in Ids : Used(n) \subseteq Nat
      <4>1. \A n \in Ids : sequence_number[n] \in Nat
        BY <1>1 DEF Shape
      <4> QED BY <4>1 DEF Used
    <3>4. ASSUME NEW s, TxReported(a, s, i - 1) PROVE s \in DOMAIN h.tx_ts
      <4>2. PICK j \in 1..line_no : /\ file[j].kind = "tx range"
                                    /\ file[j].id = a /\ file[j].seq = s
        BY <1>3, <3>4 DEF TxReported
      <4> QED BY <1>1, <1>2, <4>2 DEF TxLinesRead
    <3>5. Right(a, EvaluateRx(h, line)) /\ EvaluateRx(h, line).tx_ts = h.tx_ts
      BY <1>2, <1>5, <3>1, <3>2, <3>3, <3>4, RxIsRight
    <3> QED BY <1>6, <2>2, <3>5
  <2> QED BY <2>1, <2>2
<1>8. \A n \in Ids : Right(n, nodes[n])'
  <2> SUFFICES ASSUME NEW n \in Ids PROVE Right(n, nodes[n])'
    OBVIOUS
  <2>1. \A x : Right(n, x) => Right(n, x)'
    BY <1>3 DEF Same, Right, StoredFits, ActiveRight, PassiveRight, Used, Clock, When
  <2>2. Right(n, nodes'[n])
    BY <1>1, <1>6, <1>7
  <2>3. PICK x : x = nodes'[n]
    OBVIOUS
  <2> QED BY <2>1, <2>2, <2>3
<1>9. Shape'
  <2>1. line_no' \in 0..Len(file)
    <3>1. i \in 1..Len(file) /\ Len(file) \in Nat => i \in 0..Len(file)
      OBVIOUS
    <3> QED BY <1>3, <3>1
  <2>2. \A n \in Ids : DOMAIN nodes'[n] = Fields
    BY <1>8 DEF Right
  <2> QED BY <1>1, <1>3, <1>6, <2>1, <2>2 DEF Shape, Same
<1>10. InTurn' /\ ItemsFit' /\ LinesFit'
  BY <1>1, <1>3, SameKeeps
<1>11. TxLinesRead'
  <2>1. \A y \in 1..i : y \in 1..Len(file) /\ (y = i \/ y \in 1..line_no)
    <3>1. i \in 1..Len(file) /\ Len(file) \in Nat
      BY <1>3
    <3>2. i - 1 = line_no
      BY <1>3
    <3>3. \A y \in 1..i : y \in 1..Len(file) /\ (y = i \/ y \in 1..(i - 1))
      BY <3>1
    <3> QED BY <3>2, <3>3
  <2> SUFFICES ASSUME NEW j \in 1..i, file[j].kind = "tx range"
               PROVE  file[j].seq \in DOMAIN nodes'[file[j].id].tx_ts
    BY <1>3 DEF TxLinesRead, Same
  <2>2. file[j].id \in Ids
    <3>1. j \in 1..Len(file)
      BY <2>1
    <3> QED BY <1>4, <3>1 DEF Line
  <2>3. CASE j = i
    BY <1>2, <1>7, <2>3
  <2>4. CASE j # i
    <3>1. j \in 1..line_no
      BY <2>1, <2>4
    <3>2. file[j].seq \in DOMAIN nodes[file[j].id].tx_ts
      BY <1>1, <3>1 DEF TxLinesRead
    <3> QED BY <1>2, <1>6, <1>7, <2>2, <3>2
  <2> QED BY <2>3, <2>4
<1>12. Parts'
  BY <1>8, <1>9, <1>10, <1>11 DEF Parts
<1> QED BY <1>12, PartsAre, PTL

(***************************************************************************)
(* The inductive invariant: every time that is remembered, carried in a    *)
(* message, written to the file or stored by a node is the reading of a    *)
(* clock at the moment that the message's sender and number determine.     *)
(***************************************************************************)
THEOREM TimesFit == Spec => []IInv
<1>1. IInv /\ [Next]_vars => IInv'
  <2> SUFFICES ASSUME IInv, [Next]_vars PROVE IInv'
    OBVIOUS
  <2>1. CASE Transmit
    BY <2>1, TransmitKeeps
  <2>2. CASE EvaluateLine
    BY <2>2, EvaluateLineKeeps
  <2>3. CASE UNCHANGED vars
    <3>1. Same /\ nodes' = nodes /\ line_no' = line_no
      BY <2>3 DEF vars, Same
    <3>2. Parts
      BY PartsAre
    <3>3. InTurn' /\ ItemsFit' /\ LinesFit'
      BY <3>1, <3>2, SameKeeps DEF Parts
    <3>4. Shape' /\ TxLinesRead'
      BY <3>1, <3>2 DEF Parts, Shape, TxLinesRead, Same
    <3>5. \A x, n : Right(n, x) => Right(n, x)'
      BY <3>1 DEF Same, Right, StoredFits, ActiveRight, PassiveRight, Used, Clock, When
    <3>6. ASSUME NEW n \in Ids PROVE Right(n, nodes[n])'
      <4>1. PICK x : x = nodes[n]
        OBVIOUS
      <4>2. Right(n, x)'
        BY <3>2, <3>5, <4>1 DEF Parts
      <4> QED BY <3>1, <4>1, <4>2
    <3>7. Parts'
      BY <3>3, <3>4, <3>6 DEF Parts
    <3> QED BY <3>7, PartsAre, PTL
  <2> QED BY <2>1, <2>2, <2>3 DEF Next
<1> QED BY <1>1, InitFits, PTL DEF Spec

(***************************************************************************)
(* Whatever messages are lost, every measurement of evaluate_rx is exact,  *)
(* and none of its lookups and divisions fails.                            *)
(***************************************************************************)
THEOREM ActiveMeasurementsExact == Spec => []ActiveExact
BY TimesFit, PTL DEF IInv

\* The same for what a node computes from messages it overhears.
THEOREM PassiveMeasurementsExact == Spec => []PassiveExact
BY TimesFit, PTL DEF IInv

\* evaluate_static reads the file to its end.
THEOREM EvaluationNeverRaises == Spec => []NeverRaises
BY TimesFit, PTL DEF IInv

\* Sequence numbers stay within the exchanges, in the messages and in what
\* the nodes store.
THEOREM TypesKept == Spec => []TypeOK
<1>1. IInv => TypeOK
  <2> SUFFICES ASSUME IInv PROVE TypeOK
    OBVIOUS
  <2>1. Shape /\ InTurn /\ ItemsFit /\ NodesFit
    BY DEF IInv
  <2>2. ASSUME NEW n \in Ids PROVE sequence_number[n] \in 1..(Exchanges + 1)
    <3> DEFINE x == sequence_number[n] - 2
    <3>1. /\ x \in Int /\ sent \in Nat /\ Exchanges \in Nat /\ Len(Order) \in Nat
          /\ Len(Order) >= 1 /\ Place(n) \in 1..Len(Order)
          /\ x * Len(Order) + Place(n) <= sent /\ sent <= Exchanges * Len(Order)
          /\ sequence_number[n] \in Nat \ {0}
      <4>1. Exchanges \in Nat /\ Len(Order) \in Nat /\ Exchanges * Len(Order) \in Nat
        BY OrderIs, ExchangesAssumption
      <4> QED BY <2>1, <4>1, OrderIs DEF Shape, InTurn
    <3> HIDE DEF x
    <3>2. x < Exchanges
      <4> SUFFICES ASSUME Exchanges <= x PROVE FALSE
        BY <3>1
      <4>1. Exchanges * Len(Order) <= x * Len(Order)
        <5>1. CASE Exchanges = x
          BY <3>1, <5>1
        <5>2. CASE Exchanges < x
          <6>1. Exchanges * Len(Order) < x * Len(Order)
            BY <3>1, <5>2, ProductGrows
          <6> QED BY <3>1, <6>1
        <5> QED BY <3>1, <5>1, <5>2
      <4>2. x * Len(Order) \in Int /\ Exchanges * Len(Order) \in Int
        BY <3>1
      <4> QED BY <3>1, <4>1, <4>2
    <3> QED BY <3>1, <3>2 DEF x
  <2>3. \A n \in Ids : Used(n) \subseteq 1..Exchanges
    BY <2>2, ExchangesAssumption DEF Used
  <2>4. sequence_number \in [Ids -> 1..(Exchanges + 1)]
    BY <2>1, <2>2 DEF Shape
  <2>5. global_clock \in Nat
    <3>1. sent \in Nat
      <4>1. Exchanges * Len(Order) \in Nat
        BY OrderIs, ExchangesAssumption
      <4> QED BY <2>1, <4>1 DEF Shape
    <3> QED BY <2>1, <3>1, PauseIs DEF Shape
  <2>6. ASSUME NEW n \in Ids
        PROVE  receive_timestamps[n] \in Seq([id : Ids \ {n}, seq : 1..Exchanges, rx : Int])
    <3> DEFINE items == receive_timestamps[n]
    <3>1. items \in Seq(Item)
      BY <2>1 DEF Shape
    <3>2. ASSUME NEW k \in DOMAIN items
          PROVE  items[k] \in [id : Ids \ {n}, seq : 1..Exchanges, rx : Int]
      <4>1. items[k] \in Item
        BY <3>1
      <4>2. items[k].id # n /\ items[k].seq \in Used(items[k].id)
        BY <2>1 DEF ItemsFit, ItemFits
      <4>3. items[k].id \in Ids /\ items[k].rx \in Int
            /\ items[k] = [id |-> items[k].id, seq |-> items[k].seq, rx |-> items[k].rx]
        BY <4>1 DEF Item
      <4> HIDE DEF items
      <4> QED BY <2>3, <4>2, <4>3
    <3> HIDE DEF items
    <3>3. items = [k \in 1..Len(items) |-> items[k]] /\ Len(items) \in Nat
          /\ DOMAIN items = 1..Len(items)
      BY <3>1
    <3>4. items \in Seq([id : Ids \ {n}, seq : 1..Exchanges, rx : Int])
      <4> DEFINE S == [id : Ids \ {n}, seq : 1..Exchanges, rx : Int]
      <4>1. \A k \in 1..Len(items) : items[k] \in S
        BY <3>2, <3>3
      <4> HIDE DEF S
      <4>2. PICK n1 \in Nat : n1 = Len(items)
        BY <3>3
      <4>3. items \in [1..n1 -> S]
        BY <3>3, <4>1, <4>2
      <4>4. items \in Seq(S)
        BY <4>3, SeqDef
      <4> QED BY <4>4 DEF S
    <3> QED BY <3>4 DEF items
  <2>7. ASSUME NEW n \in Ids
        PROVE  /\ DOMAIN nodes[n].tx_ts \subseteq 1..Exchanges
               /\ DOMAIN nodes[n].rx_ts \subseteq (Ids \ {n}) \X (1..Exchanges)
               /\ DOMAIN nodes[n].other_rx_ts \subseteq Ids \X Ids \X (1..Exchanges)
    <3>1. StoredFits(n, nodes[n])
      BY <2>1 DEF NodesFit
    <3>2. DOMAIN nodes[n].tx_ts \subseteq 1..Exchanges
      BY <2>3, <3>1 DEF StoredFits
    <3>3. DOMAIN nodes[n].rx_ts \subseteq (Ids \ {n}) \X (1..Exchanges)
      BY <2>3, <3>1 DEF StoredFits
    <3>4. DOMAIN nodes[n].other_rx_ts \subseteq Ids \X Ids \X (1..Exchanges)
      BY <2>3, <3>1 DEF StoredFits
    <3> QED BY <3>2, <3>3, <3>4
  <2> QED BY <2>1, <2>4, <2>5, <2>6, <2>7 DEF TypeOK, Shape
<1> QED BY <1>1, TimesFit, PTL

-----------------------------------------------------------------------------
\* The line is of a reception.
IsRx(line) == line.kind = "rx range"

\* One of the first i lines says that n has received message s of m.
RxReported(n, m, s, i) ==
  \E j \in 1..i : /\ IsRx(file[j]) /\ file[j].id = n
                  /\ file[j].sender = m /\ file[j].seq = s

\* A message has one timestamp of each node.
OneEach(items) == \A k, l \in DOMAIN items : items[k].id = items[l].id => k = l

\* Nothing is remembered or written twice.
RememberedOnce == \A n \in Ids : OneEach(receive_timestamps[n])

CarriedOnce == \A i \in 1..Len(file) : IsRx(file[i]) => OneEach(file[i].timestamps)

WrittenOnce ==
  \A i, j \in 1..Len(file) :
    /\ IsRx(file[i]) /\ IsRx(file[j])
    /\ file[i].id = file[j].id /\ file[i].sender = file[j].sender
    /\ file[i].seq = file[j].seq
    => i = j

\* What was sent was received, ...
AllHeard ==
  \A m \in Ids : \A s \in Used(m) : \A n \in Ids \ {m} : RxReported(n, m, s, Len(file))

\* ... is remembered, ...
AllRemembered ==
  \A n, m \in Ids : n # m /\ sequence_number[m] > 1
    => \E k \in DOMAIN receive_timestamps[n] : receive_timestamps[n][k].id = m

\* ... and comes to the evaluation after what it is measured with.
LineComplete(line, i) ==
  /\ line.seq > 1 =>
       /\ RxReported(line.id, line.sender, line.seq - 1, i - 1)
       /\ \E k \in DOMAIN line.timestamps : line.timestamps[k].id = line.id
  /\ \A k \in DOMAIN line.timestamps :
       line.timestamps[k].id # line.id =>
         RxReported(line.id, line.timestamps[k].id, line.timestamps[k].seq, i - 1)

LinesComplete ==
  \A i \in 1..Len(file) : IsRx(file[i]) => LineComplete(file[i], i)

\* A reception that was read is stored and measured with.
LineRead(line, h) ==
  /\ <<line.sender, line.seq>> \in DOMAIN h.rx_ts
  /\ line.seq > 1 => \E m \in h.active : m.b = line.sender /\ m.m3 = line.seq

RxLinesRead ==
  \A j \in 1..line_no : IsRx(file[j]) => LineRead(file[j], nodes[file[j].id])

\* A measurement is of a line that was read, and the only one.
MadeOnce ==
  \A a \in Ids :
    /\ \A m \in nodes[a].active : m.m3 > 1 /\ RxReported(a, m.b, m.m3, line_no)
    /\ \A m, l \in nodes[a].active : m.b = l.b /\ m.m3 = l.m3 => m = l

\* The simulation's part of what holds if nothing was lost, ...
NoneLost ==
  /\ RememberedOnce /\ CarriedOnce /\ WrittenOnce
  /\ AllHeard /\ AllRemembered /\ LinesComplete

\* ... and the evaluation's.
Complete == NoneLost /\ RxLinesRead /\ MadeOnce

-----------------------------------------------------------------------------
\* A node remembers one time of each other, and forgets none.
LEMMA RememberOnce ==
  ASSUME NEW items \in Seq(Item), NEW id, NEW seq, NEW rx
  PROVE  LET new == Remember(items, id, seq, rx)
         IN  /\ OneEach(items) => OneEach(new)
             /\ \E k \in DOMAIN new : new[k].id = id
             /\ \A k \in DOMAIN items : \E l \in DOMAIN new : new[l].id = items[k].id
<1> DEFINE item == [id |-> id, seq |-> seq, rx |-> rx]
           new == Remember(items, id, seq, rx)
<1>1. PICK n \in Nat : n = Len(items) /\ DOMAIN items = 1..n
  OBVIOUS
<1>2. item.id = id
  OBVIOUS
<1> HIDE DEF item
<1>3. CASE \E i \in DOMAIN items : items[i].id = id
  <2>1. /\ DOMAIN new = DOMAIN items
        /\ \A i \in DOMAIN items : new[i] = IF items[i].id = id THEN item ELSE items[i]
    BY <1>3 DEF Remember, item
  <2> HIDE DEF new
  <2>2. \A i \in DOMAIN items : new[i].id = items[i].id
    BY <1>2, <2>1
  <2> QED BY <1>3, <2>1, <2>2 DEF new, OneEach
<1>4. CASE ~\E i \in DOMAIN items : items[i].id = id
  <2>1. new = Append(items, item)
    BY <1>4 DEF Remember, item
  <2>2. /\ DOMAIN new = 1..(n + 1)
        /\ \A i \in 1..n : new[i] = items[i]
        /\ new[n + 1] = item
    BY <1>1, <2>1
  <2> HIDE DEF new
  <2>3. \A i \in 1..(n + 1) : i \in 1..n \/ i = n + 1
    OBVIOUS
  <2>4. \A i \in 1..n : i \in DOMAIN new
    BY <2>2
  <2>5. OneEach(items) => OneEach(new)
    BY <1>1, <1>2, <1>4, <2>2, <2>3 DEF OneEach
  <2>6. n + 1 \in DOMAIN new /\ new[n + 1].id = id
    BY <1>2, <2>2
  <2>7. \A k \in DOMAIN items : k \in DOMAIN new /\ new[k].id = items[k].id
    BY <1>1, <2>2, <2>4
  <2> QED BY <2>5, <2>6, <2>7 DEF new
<1> QED BY <1>3, <1>4

\* With as many receivers as there are other nodes, all of them receive.
LEMMA AllHear ==
  ASSUME NEW m \in Ids, NEW heard \in [1..(Len(Order) - 1) -> Receivers(m)],
         \A i, j \in 1..(Len(Order) - 1) : i < j => Place(heard[i]) < Place(heard[j])
  PROVE  /\ \A i, j \in 1..(Len(Order) - 1) : heard[i] = heard[j] => i = j
         /\ \A n \in Ids \ {m} : \E i \in 1..(Len(Order) - 1) : heard[i] = n
<1>1. PICK L \in Nat \ {0} : L = Len(Order)
  BY OrderIs
<1> DEFINE S == 1..(L - 1)
           T == Ids \ {m}
<1>2. \A n \in Ids : Place(n) \in Int
  BY OrderIs
<1>3. heard \in [S -> T]
  BY <1>1 DEF Receivers
<1>4. ASSUME NEW i \in S, NEW j \in S, heard[i] = heard[j] PROVE i = j
  <2>1. i \in Int /\ j \in Int
    OBVIOUS
  <2>2. Place(heard[i]) \in Int /\ Place(heard[j]) = Place(heard[i])
    BY <1>2, <1>3, <1>4
  <2>3. ~(i < j) /\ ~(j < i)
    BY <1>1, <2>2
  <2> QED BY <2>1, <2>3
<1>5. IsFiniteSet(Ids) /\ Cardinality(Ids) = L
  <2>1. IsFiniteSet(1..L) /\ Cardinality(1..L) = L
    <3>1. 1 \in Int /\ L \in Int
      OBVIOUS
    <3>2. IsFiniteSet(1..L) /\ Cardinality(1..L) = IF 1 > L THEN 0 ELSE L - 1 + 1
      BY <3>1, FS_Interval
    <3> QED BY <3>2
  <2>2. Order \in [1..L -> Ids]
    BY <1>1, OrderIs, OrderAssumption
  <2>3. \A n \in Ids : \E i \in 1..L : Order[i] = n
    BY <1>1, OrderIs
  <2>4. \A i, j \in 1..L : Order[i] = Order[j] => i = j
    BY <1>1, OrderIs
  <2>5. Order \in Surjection(1..L, Ids)
    BY <2>2, <2>3 DEF Surjection
  <2>6. Order \in Injection(1..L, Ids)
    BY <2>2, <2>4 DEF Injection, IsInjective
  <2>7. /\ IsFiniteSet(Ids)
        /\ Cardinality(Ids) = Cardinality(1..L) <=> Order \in Injection(1..L, Ids)
    BY <2>1, <2>5, FS_Surjection
  <2> QED BY <2>1, <2>6, <2>7
<1>6. IsFiniteSet(T) /\ Cardinality(T) = L - 1
  BY <1>5, FS_RemoveElement
<1>7. IsFiniteSet(S) /\ Cardinality(S) = L - 1
  <2>1. 1 \in Int /\ L - 1 \in Int
    OBVIOUS
  <2>2. IsFiniteSet(S) /\ Cardinality(S) = IF 1 > L - 1 THEN 0 ELSE (L - 1) - 1 + 1
    BY <2>1, FS_Interval
  <2> QED BY <2>2
<1>8. \A n \in T : \E i \in S : heard[i] = n
  <2>1. heard \in Injection(S, T)
    BY <1>3, <1>4 DEF Injection, IsInjective
  <2> HIDE DEF S, T
  <2>2. heard \in Surjection(S, T)
    BY <1>6, <1>7, <2>1, FS_Injection
  <2> QED BY <2>2 DEF Surjection
<1> QED BY <1>1, <1>4, <1>8

\* What reading a reception does to what LineRead and MadeOnce are about.
RxDone(a, h, new, line) ==
  /\ DOMAIN new.rx_ts = {<<line.sender, line.seq>>} \cup DOMAIN h.rx_ts
  /\ h.active \subseteq new.active
  /\ \A m \in new.active \ h.active : m.b = line.sender /\ m.m3 = line.seq /\ m.m3 > 1
  /\ OneEach(line.timestamps) => \A m, l \in new.active \ h.active : m = l

\* The node has what the message is measured with.
Prepared(a, h, line) ==
  /\ <<line.sender, line.seq - 1>> \in DOMAIN h.rx_ts
  /\ \E k \in DOMAIN line.timestamps : line.timestamps[k].id = a
  /\ \A k \in DOMAIN line.timestamps :
       line.timestamps[k].id # a =>
         <<line.timestamps[k].id, line.timestamps[k].seq>> \in DOMAIN h.rx_ts

LEMMA RxReads ==
  ASSUME NEW a, NEW h, NEW line, NEW i, a \in Ids, Right(a, h), RxLineFits(line, i),
         line.id = a, line.sender \in Ids, line.seq \in Nat,
         line.timestamps \in Seq(Item),
         \A n \in Ids : Used(n) \subseteq Nat \ {0},
         \A s : TxReported(a, s, i - 1) => s \in DOMAIN h.tx_ts
  PROVE  /\ RxDone(a, h, EvaluateRx(h, line), line)
         /\ Prepared(a, h, line) =>
              \E m \in EvaluateRx(h, line).active : m.b = line.sender /\ m.m3 = line.seq
<1> DEFINE b == line.sender
           m3 == line.seq
           h1 == Stored(h, line)
           m1 == GetStoredRx(h1, b, m3)
           stamps == {line.timestamps[k] : k \in DOMAIN line.timestamps}
           new == EvaluateRx(h, line)
<1>1. /\ DOMAIN h = Fields /\ StoredFits(a, h) /\ h.node_id = a
      /\ b # a /\ b \in Ids /\ m3 \in Nat
  BY DEF Right, RxLineFits, StoredFits
<1>2. StoredFits(a, h1)
  BY <1>1, StoredIsRight DEF RxLineFits
<1>3. /\ new.rx_ts = Put(h.rx_ts, <<b, m3>>, line.rx)
      /\ \A m \in new.active \ h.active :
           \E ts \in stamps : /\ Measured(h1, b, m1, ts, m3)
                              /\ ts.id = h.node_id
                              /\ m = ActiveMeasurement(h1, b, m1, ts, m3)
  BY <1>1, EvaluateRxIs
<1>4. \A p \in DOMAIN line.timestamps : ~Raises(h1, b, m1, line.timestamps[p], m3)
  <2>1. \A n \in Ids : Used(n) \subseteq Nat
    OBVIOUS
  <2> QED BY <2>1, RxIsRight
<1>5. /\ h1.rx_ts = Put(h.rx_ts, <<b, m3>>, line.rx)
      /\ h1.node_id = a
  BY <1>1 DEF Stored, Fields
<1>6. /\ DOMAIN new.rx_ts = {<<b, m3>>} \cup DOMAIN h.rx_ts
      /\ DOMAIN h1.rx_ts = {<<b, m3>>} \cup DOMAIN h.rx_ts
  BY <1>3, <1>5 DEF Put
<1>7. \A ts : ActiveMeasurement(h1, b, m1, ts, m3).b = b
              /\ ActiveMeasurement(h1, b, m1, ts, m3).m3 = m3
  BY DEF ActiveMeasurement
<1>8. h.active \subseteq new.active
  <2>1. CASE DOMAIN line.timestamps = {}
    <3>1. PICK other, active, passive, raised :
            /\ new = [h1 EXCEPT !.other_rx_ts = other, !.active = @ \cup active,
                                !.passive = passive, !.raised = raised]
      BY DEF EvaluateRx, Stored
    <3>2. h1.active = h.active /\ DOMAIN h1 = Fields
      BY <1>1 DEF Stored, Fields
    <3> HIDE DEF new, h1
    <3> QED BY <3>1, <3>2 DEF Fields
  <2>2. CASE DOMAIN line.timestamps # {}
    <3>1. PICK p \in DOMAIN line.timestamps : TRUE
      BY <2>2
    <3> QED BY <1>1, <3>1, EvaluateRxMeasures
  <2> QED BY <2>1, <2>2
<1>9. m1 # NoSeq => m3 > 1
  <2> SUFFICES ASSUME m1 # NoSeq PROVE m3 > 1
    OBVIOUS
  <2>1. m1 \in Nat /\ m1 < m3 /\ <<b, m1>> \in DOMAIN h1.rx_ts
    BY <1>1, StoredRxIsNewest
  <2>2. PICK k : k = <<b, m1>>
    OBVIOUS
  <2> HIDE DEF m1, h1
  <2>3. k[2] \in Used(k[1]) /\ k[1] = b /\ k[2] = m1
    BY <1>2, <2>1, <2>2 DEF StoredFits
  <2>4. m1 # 0
    BY <1>1, <2>3
  <2> QED BY <1>1, <2>1, <2>4
<1>10. ASSUME NEW m \in new.active \ h.active PROVE m.b = b /\ m.m3 = m3 /\ m3 > 1
  <2>1. PICK ts \in stamps : /\ Measured(h1, b, m1, ts, m3)
                             /\ m = ActiveMeasurement(h1, b, m1, ts, m3)
    BY <1>3
  <2>2. m1 # NoSeq
    BY <2>1 DEF Measured, Breaks
  <2> HIDE DEF b, m3, h1, m1, stamps, new
  <2> QED BY <1>7, <1>9, <2>1, <2>2
<1>11. ASSUME OneEach(line.timestamps),
              NEW m \in new.active \ h.active, NEW l \in new.active \ h.active
       PROVE  m = l
  <2>1. PICK p \in DOMAIN line.timestamps :
          /\ line.timestamps[p].id = a
          /\ m = ActiveMeasurement(h1, b, m1, line.timestamps[p], m3)
    BY <1>1, <1>3
  <2>2. PICK q \in DOMAIN line.timestamps :
          /\ line.timestamps[q].id = a
          /\ l = ActiveMeasurement(h1, b, m1, line.timestamps[q], m3)
    BY <1>1, <1>3
  <2>3. p = q
    BY <1>11, <2>1, <2>2 DEF OneEach
  <2> QED BY <2>1, <2>2, <2>3
<1>12. ASSUME Prepared(a, h, line) PROVE \E m \in new.active : m.b = b /\ m.m3 = m3
  <2>1. PICK p \in DOMAIN line.timestamps : line.timestamps[p].id = a
    BY <1>12 DEF Prepared
  <2>2. m1 # NoSeq
    <3>1. <<b, m3 - 1>> \in DOMAIN h1.rx_ts /\ <<b, m3 - 1>> \in DOMAIN h.rx_ts
      BY <1>6, <1>12 DEF Prepared
    <3>2. m3 - 1 \in Nat /\ m3 - 1 < m3
      <4>1. <<b, m3 - 1>> \in (Ids \ {a}) \X Nat
        BY <1>1, <3>1 DEF StoredFits
      <4> QED BY <1>1, <4>1
    <3> HIDE DEF h1
    <3>3. \/ m1 \in Nat
          \/ \A s \in Nat : s < m3 => <<b, s>> \notin DOMAIN h1.rx_ts
      BY <1>1, StoredRxIsNewest
    <3>4. m1 \in Nat
      BY <3>1, <3>2, <3>3
    <3> QED BY <3>4 DEF NoSeq
  <2>3. \A k \in DOMAIN line.timestamps : Measured(h1, b, m1, line.timestamps[k], m3)
    <3> SUFFICES ASSUME NEW k \in DOMAIN line.timestamps
                 PROVE  ~Breaks(h1, m1, line.timestamps[k])
      BY <1>4 DEF Measured
    <3>1. line.timestamps[k].id # a =>
            <<line.timestamps[k].id, line.timestamps[k].seq>> \in DOMAIN h1.rx_ts
      BY <1>6, <1>12 DEF Prepared
    <3> HIDE DEF h1, m1
    <3> QED BY <1>5, <2>2, <3>1 DEF Breaks
  <2>4. ActiveMeasurement(h1, b, m1, line.timestamps[p], m3) \in new.active
    BY <1>1, <2>1, <2>3, EvaluateRxMeasures
  <2> HIDE DEF new, h1, m1, b, m3
  <2> QED BY <1>7, <2>4
<1>13. RxDone(a, h, new, line)
  <2> HIDE DEF new
  <2> QED BY <1>6, <1>8, <1>10, <1>11 DEF RxDone
<1> QED BY <1>12, <1>13

\* Lines that stay report what they reported.
LEMMA ReportsStay ==
  ASSUME Shape, \A j \in 1..Len(file) : file'[j] = file[j]
  PROVE  \A n, m, s : \A i \in 0..Len(file) : \A j \in Int :
           i <= j /\ RxReported(n, m, s, i) => RxReported(n, m, s, j)'
<1> SUFFICES ASSUME NEW n, NEW m, NEW s, NEW i \in 0..Len(file), NEW j \in Int, i <= j,
                    RxReported(n, m, s, i)
             PROVE  RxReported(n, m, s, j)'
  OBVIOUS
<1>1. Len(file) \in Nat
  BY DEF Shape
<1>2. PICK l \in 1..i : /\ IsRx(file[l]) /\ file[l].id = n
                        /\ file[l].sender = m /\ file[l].seq = s
  BY DEF RxReported
<1>3. l \in 1..j /\ file'[l] = file[l]
  BY <1>1
<1> QED BY <1>2, <1>3 DEF RxReported

\* The simulation's part does not change afterwards.
LEMMA SameNoneLost == ASSUME Same, NoneLost PROVE NoneLost'
<1>1. \A n : Used(n)' = Used(n)
  BY DEF Same, Used
<1>2. \A n, m, s, i : RxReported(n, m, s, i)' = RxReported(n, m, s, i)
  BY DEF Same, RxReported
<1>3. RememberedOnce' /\ CarriedOnce' /\ WrittenOnce' /\ AllRemembered'
  BY DEF NoneLost, Same, RememberedOnce, CarriedOnce, WrittenOnce, AllRemembered
<1>4. AllHeard'
  <2> SUFFICES ASSUME NEW m \in Ids, NEW s \in Used(m)', NEW n \in Ids \ {m}
               PROVE  RxReported(n, m, s, Len(file))'
    BY DEF AllHeard
  <2>1. PICK i : i = Len(file)
    OBVIOUS
  <2>2. RxReported(n, m, s, i)
    BY <1>1, <2>1 DEF NoneLost, AllHeard
  <2>3. RxReported(n, m, s, i)'
    BY <1>2, <2>2
  <2>4. Len(file') = i
    BY <2>1 DEF Same
  <2> QED BY <2>3, <2>4
<1>5. LinesComplete'
  <2>1. \A line, i : LineComplete(line, i)' = LineComplete(line, i)
    BY <1>2 DEF LineComplete
  <2> SUFFICES ASSUME NEW i \in 1..Len(file), IsRx(file[i])
               PROVE  LineComplete(file[i], i)'
    BY DEF Same, LinesComplete
  <2>2. PICK line : line = file[i]
    OBVIOUS
  <2>3. LineComplete(line, i)'
    BY <2>1, <2>2 DEF NoneLost, LinesComplete
  <2> QED BY <2>2, <2>3 DEF Same
<1> QED BY <1>3, <1>4, <1>5 DEF NoneLost

LEMMA EvaluateLineCompletes ==
  ASSUME IInv, Complete, EvaluateLine
  PROVE  RxLinesRead' /\ MadeOnce'
<1>1. /\ Shape /\ LinesFit /\ TxLinesRead
      /\ \A n \in Ids : Right(n, nodes[n])
  BY PartsAre DEF Parts
<1>2. PICK i \in Int : i = line_no + 1
  BY <1>1 DEF Shape
<1>3. PICK line, a, h : /\ i = line_no + 1 /\ line = file[i]
                        /\ a = line.id /\ h = nodes[a]
  BY <1>2
<1>4. /\ line_no' = i /\ i \in 1..Len(file) /\ i \in Int
      /\ nodes' = [nodes EXCEPT ![a] = IF line.kind = "tx range" THEN EvaluateTx(h, line)
                                                                 ELSE EvaluateRx(h, line)]
      /\ file' = file
      /\ i - 1 = line_no /\ Len(file) \in Nat
      /\ line_no \in 0..Len(file) /\ line_no <= i
  <2>1. line_no \in 0..Len(file) /\ Len(file) \in Nat
    BY <1>1 DEF Shape
  <2>2. line_no < Len(file)
    BY DEF EvaluateLine
  <2>3. i \in 1..Len(file) /\ i \in Int /\ i - 1 = line_no /\ line_no <= i
    BY <1>3, <2>1, <2>2
  <2> QED BY <1>3, <2>1, <2>3 DEF EvaluateLine
<1>5. \A j \in 1..Len(file) : file[j] \in Line
  <2>1. file \in Seq(Line)
    BY <1>1 DEF Shape
  <2> QED BY <2>1
<1>6. line \in Line /\ a \in Ids /\ Right(a, h) /\ DOMAIN nodes = Ids
  <2>1. line \in Line
    BY <1>3, <1>4, <1>5
  <2> QED BY <1>1, <1>3, <2>1 DEF Line, Shape
<1>7. PICK new : /\ nodes'[a] = new
                 /\ new = IF line.kind = "tx range" THEN EvaluateTx(h, line)
                                                    ELSE EvaluateRx(h, line)
                 /\ \A n \in Ids : n # a => nodes'[n] = nodes[n]
  BY <1>4, <1>6
<1>8. \A j \in 1..i : j \in 1..Len(file) /\ (j = i \/ j \in 1..line_no)
  <2>1. i \in 1..Len(file) /\ Len(file) \in Nat
    BY <1>4
  <2>2. i - 1 = line_no
    BY <1>4
  <2>3. \A j \in 1..i : j \in 1..Len(file) /\ (j = i \/ j \in 1..(i - 1))
    BY <2>1
  <2> QED BY <2>2, <2>3
<1>9. /\ i \in 1..i
       /\ \A j \in 1..line_no : j \in 1..i /\ j # i
  <2>1. i \in 1..Len(file) /\ Len(file) \in Nat
    BY <1>4
  <2>2. i - 1 = line_no
    BY <1>4
  <2>3. i \in 1..i /\ \A j \in 1..(i - 1) : j \in 1..i /\ j # i
    BY <2>1
  <2> QED BY <2>2, <2>3
<1>10. \A n, m, s : RxReported(n, m, s, line_no) => RxReported(n, m, s, i)'
  BY <1>1, <1>4, ReportsStay
<1>11. CASE line.kind = "tx range"
  <2>1. new.rx_ts = h.rx_ts /\ new.active = h.active
    <3>1. DOMAIN h = Fields
      BY <1>6 DEF Right
    <3> QED BY <1>7, <1>11, <3>1 DEF EvaluateTx, Fields
  <2>2. \A n \in Ids : nodes'[n].rx_ts = nodes[n].rx_ts /\ nodes'[n].active = nodes[n].active
    BY <1>3, <1>7, <2>1
  <2>3. \A j \in 1..i : IsRx(file[j]) => j \in 1..line_no
    BY <1>3, <1>11, <1>8 DEF IsRx
  <2>4. RxLinesRead'
    <3> SUFFICES ASSUME NEW j \in 1..i, IsRx(file[j])
                 PROVE  LineRead(file[j], nodes'[file[j].id])
      BY <1>4 DEF RxLinesRead, LineRead
    <3>1. j \in 1..line_no /\ j \in 1..Len(file)
      BY <1>8, <2>3
    <3>2. LineRead(file[j], nodes[file[j].id]) /\ file[j].id \in Ids
      BY <1>5, <3>1 DEF Complete, RxLinesRead, Line
    <3> QED BY <2>2, <3>2 DEF LineRead
  <2>5. MadeOnce'
    <3>1. \A n, m, s : RxReported(n, m, s, line_no) => RxReported(n, m, s, line_no)'
      BY <1>4, <1>10
    <3> QED BY <2>2, <3>1 DEF Complete, MadeOnce
  <2> QED BY <2>4, <2>5
<1>12. CASE IsRx(line)
  <2>1. /\ RxLineFits(line, i)
        /\ line.sender \in Ids /\ line.seq \in Nat /\ line.timestamps \in Seq(Item)
    BY <1>1, <1>3, <1>4, <1>6, <1>12 DEF LinesFit, Line, IsRx
  <2>2. \A n \in Ids : Used(n) \subseteq Nat \ {0}
    <3>1. \A n \in Ids : sequence_number[n] \in Nat
      BY <1>1 DEF Shape
    <3> QED BY <3>1 DEF Used
  <2>3. ASSUME NEW s, TxReported(a, s, i - 1) PROVE s \in DOMAIN h.tx_ts
    <3>1. PICK j \in 1..line_no : /\ file[j].kind = "tx range"
                                  /\ file[j].id = a /\ file[j].seq = s
      BY <1>4, <2>3 DEF TxReported
    <3> QED BY <1>1, <1>3, <3>1 DEF TxLinesRead
  <2>4. /\ RxDone(a, h, new, line)
        /\ Prepared(a, h, line) =>
             \E m \in new.active : m.b = line.sender /\ m.m3 = line.seq
    <3>1. new = EvaluateRx(h, line)
      BY <1>7, <1>12 DEF IsRx
    <3> QED BY <1>3, <1>6, <2>1, <2>2, <2>3, <3>1, RxReads
  <2>5. \A m, s : RxReported(a, m, s, line_no) => <<m, s>> \in DOMAIN h.rx_ts
    <3> SUFFICES ASSUME NEW m, NEW s, RxReported(a, m, s, line_no)
                 PROVE  <<m, s>> \in DOMAIN h.rx_ts
      OBVIOUS
    <3>1. PICK j \in 1..line_no : /\ IsRx(file[j]) /\ file[j].id = a
                                  /\ file[j].sender = m /\ file[j].seq = s
      BY DEF RxReported
    <3>2. LineRead(file[j], nodes[file[j].id])
      BY <3>1 DEF Complete, RxLinesRead
    <3> QED BY <1>3, <3>1, <3>2 DEF LineRead
  <2>6. line.seq > 1 => Prepared(a, h, line)
    <3> SUFFICES ASSUME line.seq > 1 PROVE Prepared(a, h, line)
      OBVIOUS
    <3>1. LineComplete(line, i)
      BY <1>3, <1>4, <1>12 DEF Complete, NoneLost, LinesComplete
    <3>2. /\ RxReported(a, line.sender, line.seq - 1, line_no)
          /\ \E k \in DOMAIN line.timestamps : line.timestamps[k].id = a
          /\ \A k \in DOMAIN line.timestamps :
               line.timestamps[k].id # a =>
                 RxReported(a, line.timestamps[k].id, line.timestamps[k].seq, line_no)
      BY <1>3, <1>4, <3>1 DEF LineComplete
    <3> QED BY <2>5, <3>2 DEF Prepared
  <2>7. LineRead(line, new)
    BY <2>4, <2>6 DEF LineRead, RxDone
  <2>8. RxLinesRead'
    <3> SUFFICES ASSUME NEW j \in 1..i, IsRx(file[j])
                 PROVE  LineRead(file[j], nodes'[file[j].id])
      BY <1>4 DEF RxLinesRead, LineRead
    <3>1. CASE j = i
      BY <1>3, <1>7, <2>7, <3>1
    <3>2. CASE j # i
      <4>1. j \in 1..line_no /\ j \in 1..Len(file)
        BY <1>8, <3>2
      <4>3. LineRead(file[j], nodes[file[j].id]) /\ file[j].id \in Ids
        BY <1>5, <4>1 DEF Complete, RxLinesRead, Line
      <4>4. CASE file[j].id = a
        BY <1>3, <1>7, <2>4, <4>3, <4>4 DEF LineRead, RxDone
      <4>5. CASE file[j].id # a
        BY <1>7, <4>3, <4>5
      <4> QED BY <4>4, <4>5
    <3> QED BY <3>1, <3>2
  <2>9. RxReported(a, line.sender, line.seq, i)'
    BY <1>3, <1>4, <1>12, <1>9 DEF RxReported
  <2>10. ~RxReported(a, line.sender, line.seq, line_no)
    <3> SUFFICES ASSUME RxReported(a, line.sender, line.seq, line_no) PROVE FALSE
      OBVIOUS
    <3>1. PICK j \in 1..line_no : /\ IsRx(file[j]) /\ file[j].id = a
                                  /\ file[j].sender = line.sender /\ file[j].seq = line.seq
      BY DEF RxReported
    <3>2. j \in 1..Len(file) /\ j # i
      BY <1>8, <1>9
    <3> QED BY <1>3, <1>4, <1>12, <3>1, <3>2 DEF Complete, NoneLost, WrittenOnce
  <2>11. OneEach(line.timestamps)
    BY <1>3, <1>4, <1>12 DEF Complete, NoneLost, CarriedOnce
  <2>12. /\ \A m \in h.active : m.m3 > 1 /\ RxReported(a, m.b, m.m3, line_no)
         /\ \A m, l \in h.active : m.b = l.b /\ m.m3 = l.m3 => m = l
    BY <1>3, <1>6 DEF Complete, MadeOnce
  <2>13. \A m \in new.active : m.m3 > 1 /\ RxReported(a, m.b, m.m3, i)'
    <3> SUFFICES ASSUME NEW m \in new.active
                 PROVE  m.m3 > 1 /\ RxReported(a, m.b, m.m3, i)'
      OBVIOUS
    <3>1. CASE m \in h.active
      BY <1>10, <2>12, <3>1
    <3>2. CASE m \notin h.active
      BY <2>4, <2>9, <3>2 DEF RxDone
    <3> QED BY <3>1, <3>2
  <2>14. \A m, l \in new.active : m.b = l.b /\ m.m3 = l.m3 => m = l
    <3>1. \A m \in h.active : \A l \in new.active \ h.active :
            ~(m.b = l.b /\ m.m3 = l.m3)
      BY <2>4, <2>10, <2>12 DEF RxDone
    <3>2. \A m, l \in new.active \ h.active : m = l
      BY <2>4, <2>11 DEF RxDone
    <3> QED BY <2>12, <3>1, <3>2
  <2>15. MadeOnce'
    <3> SUFFICES ASSUME NEW n \in Ids
                 PROVE  /\ \A m \in nodes'[n].active : m.m3 > 1 /\ RxReported(n, m.b, m.m3, i)'
                        /\ \A m, l \in nodes'[n].active : m.b = l.b /\ m.m3 = l.m3 => m = l
      BY <1>4 DEF MadeOnce
    <3>1. CASE n = a
      BY <1>7, <2>13, <2>14, <3>1
    <3>2. CASE n # a
      BY <1>7, <1>10, <3>2 DEF Complete, MadeOnce
    <3> QED BY <3>1, <3>2
  <2> QED BY <2>8, <2>15
<1> QED BY <1>6, <1>11, <1>12 DEF Line, IsRx

\* A node's second message comes after everybody's first.
LEMMA OthersHaveSent ==
  ASSUME Shape, NEW m \in Ids, NEW n \in Ids, NEW sq \in Nat, sq > 1,
         sent + 1 = (sq - 1) * Len(Order) + Place(m),
         sent + 1 < (sequence_number[n] - 1) * Len(Order) + Place(n)
  PROVE  sequence_number[n] > 1
<1>1. /\ Len(Order) \in Nat /\ Place(m) \in 1..Len(Order) /\ Place(n) \in 1..Len(Order)
      /\ sequence_number[n] \in Nat \ {0}
  BY OrderIs DEF Shape
<1> SUFFICES ASSUME sequence_number[n] = 1 PROVE FALSE
  BY <1>1
<1>2. (sequence_number[n] - 1) * Len(Order) = 0
  BY <1>1
<1>3. sent + 1 < Place(n)
  BY <1>1, <1>2
<1>4. (sq - 1) * Len(Order) >= Len(Order) /\ (sq - 1) * Len(Order) \in Int
  <2>1. CASE sq - 1 = 1
    BY <1>1, <2>1
  <2>2. CASE 1 < sq - 1
    <3>1. 1 * Len(Order) < (sq - 1) * Len(Order) /\ (sq - 1) * Len(Order) \in Int
      BY <1>1, <2>2, OrderIs, ProductGrows
    <3> QED BY <1>1, <3>1
  <2> QED BY <2>1, <2>2
<1> QED BY <1>1, <1>3, <1>4

LEMMA TransmitNoneLost ==
  ASSUME IInv, NoneLost, lost = 0, Transmit, lost' = 0
  PROVE  NoneLost'
<1>1. PICK m, t, q0, k0, heard : Sends(m, t, q0, k0, heard)
  BY TransmitIs DEF IInv
<1>2. PICK sq \in Nat, k \in Nat : Sends(m, t, sq, k, heard)
  <2>1. PICK L \in Nat : L = Len(Order)
    BY OrderIs
  <2>2. \A x \in 0..(L - 1) : x \in Nat
    OBVIOUS
  <2>3. k0 \in 0..(L - 1) /\ q0 \in Nat
    BY <1>1, <2>1 DEF Sends
  <2> QED BY <1>1, <2>2, <2>3
<1>3. /\ Shape /\ ItemsFit /\ LinesFit
      /\ m \in Ids /\ t \in Int /\ sq \in Nat \ {0} /\ sq = sequence_number[m]
      /\ sent + 1 = (sq - 1) * Len(Order) + Place(m)
      /\ \A n \in Ids \ {m} :
           sent + 1 < (sequence_number[n] - 1) * Len(Order) + Place(n)
      /\ file' = file \o Written(m, t, heard)
      /\ \A n \in Ids : receive_timestamps'[n] = Heard(n, k, heard, m, t, sq)
  BY <1>2 DEF Sends, IInv
<1>4. /\ k \in Nat
      /\ heard \in [1..k -> Receivers(m)] /\ heard \in [1..k -> Ids]
      /\ \A i, j \in 1..k : heard[i] = heard[j] => i = j
      /\ \A n \in Ids \ {m} : \E i \in 1..k : heard[i] = n
      /\ \A i \in 1..k : heard[i] \in Ids /\ heard[i] # m
  <2>1. k \in 0..(Len(Order) - 1) /\ lost' = lost + Len(Order) - 1 - k /\ Len(Order) \in Nat
    BY <1>2, OrderIs DEF Sends
  <2>2. k = Len(Order) - 1 /\ k \in Nat
    BY <2>1
  <2>3. /\ heard \in [1..(Len(Order) - 1) -> Receivers(m)]
        /\ \A i, j \in 1..(Len(Order) - 1) : i < j => Place(heard[i]) < Place(heard[j])
    BY <1>2, <2>2 DEF Sends
  <2>4. /\ \A i, j \in 1..(Len(Order) - 1) : heard[i] = heard[j] => i = j
        /\ \A n \in Ids \ {m} : \E i \in 1..(Len(Order) - 1) : heard[i] = n
    BY <1>3, <2>3, AllHear
  <2>5. heard \in [1..k -> Receivers(m)] /\ heard \in [1..k -> Ids]
    BY <2>2, <2>3 DEF Receivers
  <2>6. \A i \in 1..k : heard[i] \in Ids /\ heard[i] # m
    BY <2>5 DEF Receivers
  <2> QED BY <2>2, <2>4, <2>5, <2>6
<1>5. /\ Len(file') = Len(file) + 1 + k /\ Len(file) \in Nat
      /\ \A j \in 1..Len(file) : file'[j] = file[j]
      /\ file'[Len(file) + 1] = TxLine(m, t)
      /\ \A i \in 1..k : file'[Len(file) + 1 + i] = RxLine(heard[i], m, t)
  <2>1. Grown(m, t, k, heard)
    BY <1>3, <1>4, WrittenIs
  <2>2. Len(file) \in Nat
    BY <1>3 DEF Shape
  <2> QED BY <2>1, <2>2 DEF Grown
<1>6. /\ sequence_number'[m] = sq + 1
      /\ \A n \in Ids : n # m => sequence_number'[n] = sequence_number[n]
      /\ \A n \in Ids : sequence_number[n] \in Nat \ {0}
  <2>1. sequence_number' = [sequence_number EXCEPT ![m] = sq + 1]
    BY <1>2, <1>3 DEF Transmit, Sends
  <2> QED BY <1>3, <2>1 DEF Shape
<1>7. PICK F \in Nat, G \in Nat : F = Len(file) /\ G = Len(file') /\ G = F + 1 + k
  <2>1. Len(file) \in Nat /\ Len(file') \in Nat /\ Len(file') = Len(file) + 1 + k
    BY <1>5
  <2> QED BY <2>1
<1>8. \A j \in 1..G :
        \/ j \in 1..F /\ file'[j] = file[j]
        \/ j = F + 1 /\ ~IsRx(file'[j])
        \/ \E r \in 1..k : /\ j = F + 1 + r
                           /\ file'[j] = RxLine(heard[r], m, t)
  <2> SUFFICES ASSUME NEW j \in 1..G, j \notin 1..F, j # F + 1
               PROVE  \E r \in 1..k : /\ j = F + 1 + r
                                      /\ file'[j] = RxLine(heard[r], m, t)
    <3>1. ~IsRx(TxLine(m, t))
      BY DEF TxLine, IsRx
    <3> QED BY <1>7, <1>5, <3>1
  <2>1. j - (F + 1) \in 1..k /\ j = F + 1 + (j - (F + 1))
    BY <1>7, <1>4, <1>5
  <2> QED BY <1>7, <1>5, <2>1
<1>9. \A j \in 1..F : j \in Int /\ j - 1 \in 0..F
  BY <1>5
<1>10. \A n : /\ IsRx(RxLine(n, m, t)) /\ RxLine(n, m, t).id = n
             /\ RxLine(n, m, t).sender = m /\ RxLine(n, m, t).seq = sq
             /\ RxLine(n, m, t).timestamps = receive_timestamps[m]
  BY <1>3 DEF RxLine, IsRx
<1>11. \A n, b, s : \A i \in 0..F : \A j \in Int :
        i <= j /\ RxReported(n, b, s, i) => RxReported(n, b, s, j)'
  BY <1>7, <1>3, <1>5, ReportsStay
<1>12. \A n \in Ids : receive_timestamps[n] \in Seq(Item)
  BY <1>3 DEF Shape
<1>13. \A n \in Ids : LET items == receive_timestamps[n]
                         new == receive_timestamps'[n]
                     IN  /\ OneEach(items) => OneEach(new)
                         /\ n # m => \E l \in DOMAIN new : new[l].id = m
                         /\ \A p \in DOMAIN items : \E l \in DOMAIN new :
                              new[l].id = items[p].id
  <2> SUFFICES ASSUME NEW n \in Ids
               PROVE  LET items == receive_timestamps[n]
                          new == receive_timestamps'[n]
                      IN  /\ OneEach(items) => OneEach(new)
                          /\ n # m => \E l \in DOMAIN new : new[l].id = m
                          /\ \A p \in DOMAIN items : \E l \in DOMAIN new :
                               new[l].id = items[p].id
    OBVIOUS
  <2>1. CASE \E i \in 1..k : heard[i] = n
    <3>1. receive_timestamps'[n] =
            Remember(receive_timestamps[n], m, sq, Clock(n, t + Flight[m][n]))
      BY <1>3, <2>1 DEF Heard
    <3> QED BY <1>12, <3>1, RememberOnce
  <2>2. CASE ~\E i \in 1..k : heard[i] = n
    <3>1. receive_timestamps'[n] = receive_timestamps[n]
      BY <1>3, <2>2 DEF Heard
    <3>2. n = m
      BY <1>4, <2>2
    <3> QED BY <3>1, <3>2
  <2> QED BY <2>1, <2>2
<1>14. RememberedOnce'
  BY <1>13 DEF NoneLost, RememberedOnce
<1>15. CarriedOnce'
  <2> SUFFICES ASSUME NEW j \in 1..G, IsRx(file'[j])
               PROVE  OneEach(file'[j].timestamps)
    BY <1>7 DEF CarriedOnce, OneEach
  <2>1. CASE j \in 1..F /\ file'[j] = file[j]
    BY <1>7, <2>1 DEF NoneLost, CarriedOnce
  <2>2. CASE \E r \in 1..k : file'[j] = RxLine(heard[r], m, t)
    <3>1. file'[j].timestamps = receive_timestamps[m]
      BY <1>10, <2>2
    <3> QED BY <1>3, <3>1 DEF NoneLost, RememberedOnce
  <2> QED BY <1>8, <2>1, <2>2
<1>16. \A j \in 1..F : IsRx(file[j]) /\ file[j].sender = m
         => file[j].seq # sq
  <2> SUFFICES ASSUME NEW j \in 1..F, IsRx(file[j]),
                      file[j].sender = m, file[j].seq = sq
               PROVE  FALSE
    OBVIOUS
  <2>1. sq \in Used(m)
    BY <1>7, <1>3 DEF LinesFit, RxLineFits, IsRx
  <2>2. sq \in 1..(sq - 1)
    BY <1>3, <2>1 DEF Used
  <2>3. \A x \in Nat : ~(x \in 1..(x - 1))
    OBVIOUS
  <2> QED BY <2>2, <2>3
<1>17. WrittenOnce'
  <2> SUFFICES ASSUME NEW i \in 1..G, NEW j \in 1..G,
                      IsRx(file'[i]), IsRx(file'[j]),
                      file'[i].id = file'[j].id, file'[i].sender = file'[j].sender,
                      file'[i].seq = file'[j].seq
               PROVE  i = j
    BY <1>7 DEF WrittenOnce
  <2>1. CASE i \in 1..F /\ file'[i] = file[i]
             /\ j \in 1..F /\ file'[j] = file[j]
    BY <1>7, <2>1 DEF NoneLost, WrittenOnce
  <2>2. ASSUME NEW r \in 1..k, j \in 1..F, file'[j] = file[j],
               file'[i] = RxLine(heard[r], m, t)
        PROVE  FALSE
    <3>1. file'[i].sender = m /\ file'[i].seq = sq
      BY <1>10, <2>2
    <3> QED BY <1>16, <2>2, <3>1
  <2>3. ASSUME NEW r \in 1..k, i \in 1..F, file'[i] = file[i],
               file'[j] = RxLine(heard[r], m, t)
        PROVE  FALSE
    <3>1. file'[j].sender = m /\ file'[j].seq = sq
      BY <1>10, <2>3
    <3> QED BY <1>16, <2>3, <3>1
  <2>4. ASSUME NEW r \in 1..k, NEW q \in 1..k,
               i = F + 1 + r, j = F + 1 + q,
               file'[i] = RxLine(heard[r], m, t), file'[j] = RxLine(heard[q], m, t)
        PROVE  i = j
    <3>1. heard[r] = heard[q]
      BY <1>10, <2>4
    <3> QED BY <1>4, <2>4, <3>1
  <2>5. /\ \/ i \in 1..F /\ file'[i] = file[i]
           \/ \E r \in 1..k : /\ i = F + 1 + r
                              /\ file'[i] = RxLine(heard[r], m, t)
        /\ \/ j \in 1..F /\ file'[j] = file[j]
           \/ \E r \in 1..k : /\ j = F + 1 + r
                              /\ file'[j] = RxLine(heard[r], m, t)
    BY <1>8
  <2> QED BY <2>1, <2>2, <2>3, <2>4, <2>5
<1>18. \A n \in Ids \ {m} : RxReported(n, m, sq, Len(file))'
  <2> SUFFICES ASSUME NEW n \in Ids \ {m} PROVE RxReported(n, m, sq, Len(file))'
    OBVIOUS
  <2>1. PICK r \in 1..k : heard[r] = n
    BY <1>4
  <2>2. F + 1 + r \in 1..G
    BY <1>7, <1>4, <1>5
  <2>3. file'[F + 1 + r] = RxLine(n, m, t)
    BY <1>7, <1>5, <2>1
  <2>4. PICK j \in 1..G : file'[j] = RxLine(n, m, t)
    BY <2>2, <2>3
  <2>5. /\ IsRx(file'[j]) /\ file'[j].id = n
        /\ file'[j].sender = m /\ file'[j].seq = sq
    BY <1>10, <2>4
  <2> QED BY <1>7, <2>5 DEF RxReported
<1>19. AllHeard'
  <2> SUFFICES ASSUME NEW b \in Ids, NEW s \in Used(b)', NEW n \in Ids \ {b}
               PROVE  RxReported(n, b, s, Len(file))'
    BY DEF AllHeard
  <2>1. CASE s \in Used(b)
    <3>1. RxReported(n, b, s, F)
      BY <1>7, <2>1 DEF NoneLost, AllHeard
    <3>2. PICK j \in Int : j = G
      BY <1>4, <1>5
    <3>3. F \in 0..F /\ F <= j
      BY <1>7, <1>4, <1>5, <3>2
    <3>4. RxReported(n, b, s, j)'
      BY <1>11, <3>1, <3>3
    <3> QED BY <1>7, <3>2, <3>4
  <2>2. CASE s \notin Used(b)
    <3>1. b = m /\ s = sq
      <4>1. PICK x \in Nat \ {0}, y \in Nat \ {0} :
              /\ x = sequence_number[b] /\ y = sequence_number'[b]
              /\ b # m => y = x
              /\ b = m => x = sq /\ y = sq + 1
        <5>1. sequence_number[b] \in Nat \ {0}
          BY <1>6
        <5>2. b # m => sequence_number'[b] = sequence_number[b]
          BY <1>6
        <5>3. b = m => sequence_number[b] = sq /\ sequence_number'[b] = sq + 1
          BY <1>3, <1>6
        <5>4. sq + 1 \in Nat \ {0}
          BY <1>7
        <5> QED BY <5>1, <5>2, <5>3, <5>4
      <4>2. s \in 1..(y - 1) /\ s \notin 1..(x - 1)
        BY <2>2, <4>1 DEF Used
      <4> QED BY <4>1, <4>2
    <3> QED BY <1>18, <3>1
  <2> QED BY <2>1, <2>2
<1>20. AllRemembered'
  <2> SUFFICES ASSUME NEW n \in Ids, NEW b \in Ids, n # b, sequence_number'[b] > 1
               PROVE  \E l \in DOMAIN receive_timestamps'[n] :
                        receive_timestamps'[n][l].id = b
    BY DEF AllRemembered
  <2>1. CASE b = m
    BY <1>13, <2>1
  <2>2. CASE b # m
    <3>1. sequence_number[b] > 1
      BY <1>6, <2>2
    <3>2. PICK p \in DOMAIN receive_timestamps[n] : receive_timestamps[n][p].id = b
      BY <3>1 DEF NoneLost, AllRemembered
    <3> QED BY <1>13, <3>2
  <2> QED BY <2>1, <2>2
<1>21. LinesComplete'
  <2> SUFFICES ASSUME NEW j \in 1..G, IsRx(file'[j])
               PROVE  LineComplete(file[j], j)'
    BY <1>7 DEF LinesComplete
  <2>1. CASE j \in 1..F /\ file'[j] = file[j]
    <3>1. LineComplete(file[j], j)
      BY <1>7, <2>1 DEF NoneLost, LinesComplete
    <3>2. PICK i \in Int : i = j - 1
      <4>1. j \in Int
        BY <1>9, <2>1
      <4> QED BY <4>1
    <3>3. i \in 0..F /\ i <= i /\ i \in Int
      <4>1. j - 1 \in 0..F
        BY <1>9, <2>1
      <4> QED BY <3>2, <4>1
    <3>4. \A n, b, s : RxReported(n, b, s, i) => RxReported(n, b, s, i)'
      BY <1>11, <3>3
    <3>5. \A n, b, s : RxReported(n, b, s, j - 1) => RxReported(n, b, s, j - 1)'
      BY <3>2, <3>4
    <3> QED BY <2>1, <3>1, <3>5 DEF LineComplete
  <2>2. ASSUME NEW r \in 1..k, j = F + 1 + r, file'[j] = RxLine(heard[r], m, t)
        PROVE  LineComplete(file[j], j)'
    <3>8. PICK items \in Seq(Item) : items = receive_timestamps[m]
      BY <1>3, <1>12
    <3>0. F + r \in Int /\ j - 1 = F + r /\ heard[r] \in Ids
          /\ F <= F + r /\ F \in 0..F
      <4>1. F \in Nat /\ r \in Nat
        BY <1>4, <1>5
      <4>2. heard[r] \in Ids
        BY <1>4
      <4> QED BY <2>2, <4>1, <4>2
    <3>1. PICK n \in Ids, i \in Int : n = heard[r] /\ i = j - 1
      BY <3>0
    <3>2. /\ file'[j].id = n /\ file'[j].sender = m /\ file'[j].seq = sq
          /\ file'[j].timestamps = items /\ n # m
      <4>1. file'[j] = RxLine(n, m, t) /\ n # m
        BY <1>4, <2>2, <3>1
      <4> QED BY <1>10, <3>8, <4>1
    <3>3. F \in 0..F /\ F <= i
      BY <3>0, <3>1
    <3>4. \A b \in Ids \ {n} : \A s \in Used(b) : RxReported(n, b, s, i)'
      <4> SUFFICES ASSUME NEW b \in Ids \ {n}, NEW s \in Used(b)
                   PROVE  RxReported(n, b, s, i)'
        OBVIOUS
      <4>1. RxReported(n, b, s, F)
        BY <1>7 DEF NoneLost, AllHeard
      <4> QED BY <1>11, <3>3, <4>1
    <3>5. sq > 1 => RxReported(n, m, sq - 1, i)'
      <4> SUFFICES ASSUME sq > 1 PROVE RxReported(n, m, sq - 1, i)'
        OBVIOUS
      <4>1. sq - 1 \in Used(m)
        <5>1. sq \in Nat /\ sq = sequence_number[m]
          BY <1>3
        <5>2. sq - 1 \in 1..(sq - 1)
          <6>1. \A x \in Nat : x > 1 => x - 1 \in 1..(x - 1)
            OBVIOUS
          <6> QED BY <6>1
        <5> QED BY <5>1, <5>2 DEF Used
      <4> QED BY <1>3, <3>2, <3>4, <4>1
    <3>6. sq > 1 => \E p \in DOMAIN items : items[p].id = n
      <4> SUFFICES ASSUME sq > 1 PROVE \E p \in DOMAIN items : items[p].id = n
        OBVIOUS
      <4>1. sequence_number[n] > 1
        BY <1>3, <3>2, OthersHaveSent
      <4> QED BY <1>3, <3>2, <3>8, <4>1 DEF NoneLost, AllRemembered
    <3>7. ASSUME NEW p \in DOMAIN items, items[p].id # n
          PROVE  RxReported(n, items[p].id, items[p].seq, i)'
      <4>1. items[p] \in Item /\ ItemFits(m, items[p], F)
        <5>1. items[p] \in Item
          OBVIOUS
        <5> QED BY <1>3, <1>7, <3>8, <5>1 DEF ItemsFit
      <4>2. items[p].id \in Ids /\ items[p].seq \in Used(items[p].id)
        BY <4>1 DEF Item, ItemFits
      <4>3. PICK b, s : b = items[p].id /\ s = items[p].seq
        OBVIOUS
      <4>4. b \in Ids \ {n} /\ s \in Used(b)
        BY <3>7, <4>2, <4>3
      <4>5. RxReported(n, b, s, i)'
        BY <3>4, <4>4
      <4> QED BY <4>3, <4>5
    <3>9. PICK line : line = file'[j]
      OBVIOUS
    <3>10. /\ line.id = n /\ line.sender = m /\ line.seq = sq /\ line.timestamps = items
      BY <3>2, <3>9
    <3>11. LineComplete(line, j)'
      BY <3>1, <3>5, <3>6, <3>7, <3>10 DEF LineComplete
    <3> QED BY <3>9, <3>11
  <2> QED BY <1>8, <2>1, <2>2
<1> QED BY <1>14, <1>15, <1>17, <1>19, <1>20, <1>21 DEF NoneLost

\* What was lost stays lost.
LEMMA LostGrows ==
  ASSUME Shape, InTurn, [Next]_vars, lost' = 0
  PROVE  lost = 0
<1>1. CASE Transmit
  <2>1. PICK m, t, sq, k, heard : Sends(m, t, sq, k, heard)
    BY <1>1, TransmitIs
  <2>2. /\ k \in 0..(Len(Order) - 1) /\ lost' = lost + Len(Order) - 1 - k
        /\ Len(Order) \in Nat /\ lost \in Nat
    BY <2>1, OrderIs, MaxLostAssumption DEF Sends, Shape
  <2> QED BY <2>2
<1>2. CASE EvaluateLine
  BY <1>2 DEF EvaluateLine
<1>3. CASE UNCHANGED vars
  BY <1>3 DEF vars
<1> QED BY <1>1, <1>2, <1>3 DEF Next

(***************************************************************************)
(* If no message was lost, every message was received by everybody and is  *)
(* remembered, a line comes after all it is measured with, and each line   *)
(* that was read and is not of a first message gave one measurement.       *)
(***************************************************************************)
THEOREM NothingMissing == Spec => [](lost = 0 => Complete)
<1> DEFINE CInv == lost = 0 => Complete
<1>1. Init => CInv
  <2> SUFFICES ASSUME Init PROVE Complete
    OBVIOUS
  <2>1. \A n \in Ids : receive_timestamps[n] = <<>> /\ nodes[n].active = {}
                       /\ sequence_number[n] = 1
    BY DEF Init, NewNode
  <2>2. file = <<>> /\ Len(file) = 0 /\ line_no = 0
    BY DEF Init
  <2>3. RememberedOnce
    BY <2>1 DEF RememberedOnce, OneEach
  <2>4. CarriedOnce /\ WrittenOnce /\ LinesComplete /\ RxLinesRead
    BY <2>2 DEF CarriedOnce, WrittenOnce, LinesComplete, RxLinesRead
  <2>5. AllHeard
    BY <2>1 DEF AllHeard, Used
  <2>6. AllRemembered
    BY <2>1 DEF AllRemembered
  <2>7. MadeOnce
    BY <2>1 DEF MadeOnce
  <2> QED BY <2>3, <2>4, <2>5, <2>6, <2>7 DEF Complete, NoneLost
<1>2. IInv /\ CInv /\ [Next]_vars => CInv'
  <2> SUFFICES ASSUME IInv, CInv, [Next]_vars, lost' = 0 PROVE Complete'
    OBVIOUS
  <2>1. lost = 0 /\ Complete
    BY LostGrows DEF IInv
  <2>2. CASE Transmit
    <3>1. NoneLost'
      BY <2>1, <2>2, TransmitNoneLost DEF Complete
    <3>2. /\ line_no' = line_no /\ nodes' = nodes
      BY <2>2 DEF Transmit
    <3>3. Shape /\ \A j \in 1..Len(file) : file'[j] = file[j]
      <4>1. Shape
        BY DEF IInv
      <4>2. PICK m, t, sq, k, heard : Sends(m, t, sq, k, heard)
        BY <2>2, TransmitIs DEF IInv
      <4>3. m \in Ids /\ t \in Int /\ k \in Nat /\ heard \in [1..k -> Ids]
            /\ file' = file \o Written(m, t, heard)
        <5>1. PICK L \in Nat : L = Len(Order)
          BY OrderIs
        <5>2. k \in 0..(L - 1) /\ \A x \in 0..(L - 1) : x \in Nat
          BY <4>2, <5>1 DEF Sends
        <5>3. heard \in [1..k -> Ids]
          BY <4>2 DEF Sends, Receivers
        <5> QED BY <4>2, <5>2, <5>3 DEF Sends
      <4>4. Grown(m, t, k, heard)
        BY <4>1, <4>3, WrittenIs
      <4> QED BY <4>1, <4>4 DEF Grown
    <3>4. line_no \in 0..Len(file) /\ line_no \in Int /\ line_no <= line_no
      <4>1. Len(file) \in Nat /\ line_no \in 0..Len(file)
        BY <3>3 DEF Shape
      <4> QED BY <4>1
    <3>5. \A n, m, s : RxReported(n, m, s, line_no) => RxReported(n, m, s, line_no)'
      <4>1. PICK i \in Int : i = line_no
        BY <3>4
      <4>2. \A n, m, s : RxReported(n, m, s, i) => RxReported(n, m, s, i)'
        BY <3>3, <3>4, <4>1, ReportsStay
      <4> QED BY <3>2, <4>1, <4>2
    <3>6. \A j \in 1..line_no : file'[j] = file[j]
      <4>1. \A j \in 1..line_no : j \in 1..Len(file)
        BY <3>3, <3>4 DEF Shape
      <4> QED BY <3>3, <4>1
    <3>7. RxLinesRead'
      BY <2>1, <3>2, <3>6 DEF Complete, RxLinesRead, LineRead
    <3>8. MadeOnce'
      BY <2>1, <3>2, <3>5 DEF Complete, MadeOnce
    <3> QED BY <3>1, <3>7, <3>8 DEF Complete
  <2>3. CASE EvaluateLine
    <3>1. Same
      BY <2>3 DEF EvaluateLine, Same
    <3> QED BY <2>1, <2>3, <3>1, SameNoneLost, EvaluateLineCompletes DEF Complete
  <2>4. CASE UNCHANGED vars
    <3>1. Same /\ nodes' = nodes /\ line_no' = line_no
      BY <2>4 DEF vars, Same
    <3>2. NoneLost'
      BY <2>1, <3>1, SameNoneLost DEF Complete
    <3>3. RxLinesRead' /\ MadeOnce'
      BY <2>1, <3>1 DEF Complete, Same, RxLinesRead, LineRead, MadeOnce, RxReported
    <3> QED BY <3>2, <3>3 DEF Complete
  <2> QED BY <2>2, <2>3, <2>4 DEF Next
<1> QED BY <1>1, <1>2, TimesFit, PTL DEF Spec

\* At the end of the simulation every node has sent all its messages.
LEMMA AllSent ==
  ASSUME Shape, InTurn, sent = Exchanges * Len(Order), NEW n \in Ids
  PROVE  sequence_number[n] = Exchanges + 1
<1> DEFINE q == sequence_number[n]
<1>1. PICK L \in Nat \ {0}, E \in Nat, P \in Nat :
        L = Len(Order) /\ E = Exchanges /\ P = Place(n) /\ P \in 1..L
  BY OrderIs, ExchangesAssumption
<1>2. q \in Int /\ (q - 2) * L + P <= E * L /\ E * L < (q - 1) * L + P
  BY <1>1 DEF Shape, InTurn
<1> HIDE DEF q
<1>3. (q - 2) * L < E * L
  <2>1. (q - 2) * L \in Int /\ E * L \in Int
    BY <1>2
  <2> QED BY <1>1, <1>2, <2>1
<1>4. E * L < q * L
  <2>1. q * L = (q - 1) * L + L
    BY <1>2
  <2>2. (q - 1) * L \in Int /\ E * L \in Int
    BY <1>2
  <2> QED BY <1>1, <1>2, <2>1, <2>2
<1>5. \A x, y \in Int : x * L < y * L => x < y
  <2> SUFFICES ASSUME NEW x \in Int, NEW y \in Int, x * L < y * L, y <= x PROVE FALSE
    OBVIOUS
  <2>1. CASE x = y
    BY <2>1
  <2>2. CASE y < x
    <3>1. y * L < x * L /\ y * L \in Int /\ x * L \in Int
      BY <2>2, ProductGrows
    <3> QED BY <3>1
  <2> QED BY <2>1, <2>2
<1>6. q - 2 < E /\ E < q
  <2>1. q - 2 < E
    BY <1>2, <1>3, <1>5
  <2>2. E < q
    BY <1>2, <1>4, <1>5
  <2> QED BY <2>1, <2>2
<1>7. q = E + 1
  BY <1>2, <1>6
<1> QED BY <1>1, <1>7 DEF q

(***************************************************************************)
(* Without losses the evaluation ranges with everybody in every exchange   *)
(* but the first.  (With no exchange at all there is no first one to       *)
(* subtract.)                                                              *)
(***************************************************************************)
THEOREM LosslessRangesComplete ==
  ASSUME Exchanges # 0 PROVE Spec => []LosslessComplete
<1>1. IInv /\ (lost = 0 => Complete) => LosslessComplete
  <2> SUFFICES ASSUME IInv, Finished, lost = 0, Complete,
                      NEW a \in Ids, NEW b \in Ids, a # b
               PROVE  Cardinality({m \in nodes[a].active : m.b = b}) = Exchanges - 1
    BY DEF LosslessComplete
  <2> DEFINE S == {m \in nodes[a].active : m.b = b}
             T == 2..Exchanges
             number == [m \in S |-> m.m3]
  <2>1. sequence_number[b] = Exchanges + 1 /\ Exchanges \in Nat \ {0}
    BY AllSent, ExchangesAssumption DEF IInv, Finished
  <2>2. Used(b) = 1..Exchanges
    BY <2>1 DEF Used
  <2>3. \A m \in S : m.m3 \in T
    <3> SUFFICES ASSUME NEW m \in S PROVE m.m3 \in T
      OBVIOUS
    <3>1. m.m3 > 1 /\ RxReported(a, b, m.m3, line_no)
      BY DEF Complete, MadeOnce
    <3>2. PICK j \in 1..line_no : /\ IsRx(file[j]) /\ file[j].id = a
                                  /\ file[j].sender = b /\ file[j].seq = m.m3
      BY <3>1 DEF RxReported
    <3>3. j \in 1..Len(file)
      BY DEF Finished
    <3>4. file[j].seq \in Used(b)
      BY <3>2, <3>3 DEF IInv, LinesFit, RxLineFits, IsRx
    <3> QED BY <2>1, <2>2, <3>1, <3>2, <3>4
  <2>4. \A s \in T : \E m \in S : m.m3 = s
    <3> SUFFICES ASSUME NEW s \in T PROVE \E m \in S : m.m3 = s
      OBVIOUS
    <3>1. s \in Used(b) /\ s > 1
      BY <2>1, <2>2
    <3>2. RxReported(a, b, s, line_no)
      BY <3>1 DEF Complete, NoneLost, AllHeard, Finished
    <3>3. PICK j \in 1..line_no : /\ IsRx(file[j]) /\ file[j].id = a
                                  /\ file[j].sender = b /\ file[j].seq = s
      BY <3>2 DEF RxReported
    <3>4. LineRead(file[j], nodes[a])
      BY <3>3 DEF Complete, RxLinesRead
    <3> QED BY <3>1, <3>3, <3>4 DEF LineRead
  <2>5. \A m, l \in S : m.m3 = l.m3 => m = l
    BY DEF Complete, MadeOnce
  <2>6. number \in [S -> T]
    BY <2>3
  <2>7. number \in Injection(S, T)
    BY <2>5, <2>6 DEF Injection, IsInjective
  <2>8. number \in Surjection(S, T)
    BY <2>4, <2>6 DEF Surjection
  <2>9. IsFiniteSet(T) /\ Cardinality(T) = Exchanges - 1
    <3>1. 2 \in Int /\ Exchanges \in Int
      BY <2>1
    <3>2. IsFiniteSet(T) /\ Cardinality(T) = IF 2 > Exchanges THEN 0 ELSE Exchanges - 2 + 1
      BY <3>1, FS_Interval
    <3> QED BY <2>1, <3>2
  <2> HIDE DEF S, T, number
  <2>10. Cardinality(S) = Cardinality(T)
    BY <2>7, <2>8, <2>9, FS_Injection
  <2> QED BY <2>9, <2>10 DEF S
<1> QED BY <1>1, TimesFit, NothingMissing, PTL

=============================================================================
