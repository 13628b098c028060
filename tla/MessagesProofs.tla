--------------------------- MODULE MessagesProofs ---------------------------
(***************************************************************************)
(* Proofs about Messages.tla, for every size of a byte, every number of    *)
(* participants, all times and numbers: analyse_message finds in a frame   *)
(* what construct_message was given, which stays within its buffer and, up *)
(* to thirteen participants, within a frame.                               *)
(***************************************************************************)
EXTENDS Messages, FiniteSetTheorems, SequenceTheorems, TLAPS

-----------------------------------------------------------------------------
(* Arithmetic of bytes. *)

LEMMA RadixIs == Radix \in Nat \ {0, 1} /\ Word \in Nat \ {0} /\ Word = Radix * Radix
<1>1. \A a, b \in Nat : a * b \in Nat /\ (a # 0 /\ b # 0 => a * b # 0)
  OBVIOUS
<1> QED BY <1>1, RadixAssumption DEF Word

LEMMA ByteIs ==
  ASSUME NEW x \in Int
  PROVE  /\ x \div Radix \in Int /\ x % Radix \in 0 .. (Radix - 1)
         /\ x = ((x \div Radix) * Radix) + (x % Radix)
BY RadixIs

\* A quotient is below a bound that the dividend has times the divisor.
LEMMA QuotientBelow ==
  ASSUME NEW x \in Nat, NEW a \in Nat, x < a * Radix
  PROVE  x \div Radix \in Nat /\ x \div Radix < a
<1> DEFINE q == x \div Radix
           r == x % Radix
<1>1. q \in Int /\ r \in 0 .. (Radix - 1) /\ x = (q * Radix) + r
  BY ByteIs
<1> HIDE DEF q, r
<1>2. \A i, j \in Int : i >= j => i * Radix >= j * Radix
  BY RadixIs
<1>3. q * Radix \in Int /\ a * Radix \in Int /\ Radix \in Int
  BY <1>1, RadixIs
<1>4. q < a
  <2> SUFFICES ASSUME q >= a PROVE FALSE
    BY <1>1
  <2>1. q * Radix >= a * Radix
    BY <1>1, <1>2
  <2> QED BY <1>1, <1>3, <2>1
<1>5. q >= 0
  <2> SUFFICES ASSUME q <= -1 PROVE FALSE
    BY <1>1
  <2>1. q * Radix <= (-1) * Radix
    BY <1>1, <1>2
  <2>2. (-1) * Radix = -Radix
    BY RadixIs
  <2> QED BY <1>1, <1>3, <2>1, <2>2
<1> QED BY <1>1, <1>4, <1>5 DEF q

\* The two bytes of a word, read back, are the word.
LEMMA WordIs ==
  ASSUME NEW x \in Int16s
  PROVE  /\ WordBytes(x) \in Seq(Int) /\ Len(WordBytes(x)) = 2
         /\ Int16(WordBytes(x)[1] + (WordBytes(x)[2] * Radix)) = x
<1> DEFINE q == x \div Radix
           r == x % Radix
           h == q % Radix
           k == q \div Radix
           w == r + (h * Radix)
<1>1. x \in Int /\ -Word <= 2 * x /\ 2 * x < Word
  BY RadixIs DEF Int16s
<1>2. q \in Int /\ r \in 0 .. (Radix - 1) /\ x = (q * Radix) + r
  BY <1>1, ByteIs
<1>3. k \in Int /\ h \in 0 .. (Radix - 1) /\ q = (k * Radix) + h
  BY <1>2, ByteIs
<1>4. WordBytes(x) = <<r, h>>
  BY DEF WordBytes
<1> HIDE DEF q, r, h, k
<1>5. x = (k * Word) + w /\ w \in Int
  BY <1>2, <1>3, RadixIs
<1>6. 0 <= w /\ w < Word
  <2>1. 0 <= h * Radix /\ h * Radix <= (Radix - 1) * Radix /\ h * Radix \in Int
    <3>1. \A i, j \in Int : i >= j => i * Radix >= j * Radix
      BY RadixIs
    <3>2. 0 * Radix = 0
      BY RadixIs
    <3>3. h \in Int /\ 0 <= h /\ h <= Radix - 1 /\ Radix - 1 \in Int /\ Radix \in Int
      BY <1>3, RadixIs
    <3> QED BY <3>1, <3>2, <3>3
  <2>2. (Radix - 1) * Radix = Word - Radix
    BY RadixIs
  <2> QED BY <1>2, <2>1, <2>2, RadixIs
<1>7. (k = 0 /\ w = x) \/ (k = -1 /\ w = x + Word)
  <2>1. \A i, j \in Int : i >= j => i * Word >= j * Word
    BY RadixIs
  <2>2. k * Word \in Int /\ 1 * Word = Word /\ (-2) * Word = -2 * Word /\ 0 * Word = 0
        /\ (-1) * Word = -Word
    BY <1>3, RadixIs
  <2>3. ~(k >= 1)
    BY <1>1, <1>3, <1>5, <1>6, <2>1, <2>2, RadixIs
  <2>4. ~(k <= -2)
    BY <1>1, <1>3, <1>5, <1>6, <2>1, <2>2, RadixIs
  <2>5. k = 0 \/ k = -1
    BY <1>3, <2>3, <2>4
  <2> QED BY <1>1, <1>5, <1>6, <2>2, <2>5, RadixIs
<1>8. w % Word = w
  BY <1>5, <1>6, RadixIs
<1> HIDE DEF w
<1>9. Int16(w) = x
  <2>1. Int16(w) = IF 2 * w >= Word THEN w - Word ELSE w
    BY <1>8 DEF Int16
  <2>2. w \in Int /\ Word \in Int
    BY <1>5, RadixIs
  <2>3. CASE k = 0 /\ w = x
    <3>1. ~(2 * w >= Word)
      BY <1>1, <2>2, <2>3
    <3> QED BY <2>1, <2>3, <3>1
  <2>4. CASE k = -1 /\ w = x + Word
    <3>1. 2 * w >= Word /\ w - Word = x
      BY <1>1, <2>2, <2>4
    <3> QED BY <2>1, <3>1
  <2> QED BY <1>7, <2>3, <2>4
<1>10. r \in Int /\ h \in Int /\ Int16(r + (h * Radix)) = x
  BY <1>2, <1>3, <1>9 DEF w
<1>11. <<r, h>> \in Seq(Int) /\ Len(<<r, h>>) = 2 /\ <<r, h>>[1] = r /\ <<r, h>>[2] = h
  BY <1>10
<1>12. WordBytes(x)[1] = r /\ WordBytes(x)[2] = h
  BY <1>4, <1>11
<1>13. Int16(WordBytes(x)[1] + (WordBytes(x)[2] * Radix)) = x
  BY <1>10, <1>12
<1> QED BY <1>4, <1>11, <1>13

\* A number that was incremented is a number.
LEMMA Int16Is ==
  ASSUME NEW x \in Int
  PROVE  Int16(x) \in Int16s
<1> DEFINE w == x % Word
<1>1. w \in 0 .. (Word - 1)
  BY RadixIs
<1> HIDE DEF w
<1>2. Int16(x) = IF 2 * w >= Word THEN w - Word ELSE w
  BY DEF Int16, w
<1> QED BY <1>1, <1>2, RadixIs DEF Int16s

AllTimes == 0 .. (Word * Word * Radix - 1)

\* The five bytes of a time, read back, are the time.
LEMMA TimeIs ==
  ASSUME NEW t \in AllTimes
  PROVE  /\ WriteTimestamp(t) \in Seq(Int) /\ Len(WriteTimestamp(t)) = 5
         /\ LET w == WriteTimestamp(t)
            IN  t = (((((((w[1] * Radix) + w[2]) * Radix) + w[3]) * Radix) + w[4]) * Radix) + w[5]
<1> DEFINE t1 == t \div Radix
           t2 == t1 \div Radix
           t3 == t2 \div Radix
           t4 == t3 \div Radix
<1>1. /\ Word * Word * Radix \in Nat /\ Radix * Radix * Radix \in Nat
      /\ Word * Word = (Radix * Radix * Radix) * Radix
      /\ Radix * Radix * Radix = (Radix * Radix) * Radix
      /\ Word * Word \in Nat /\ Radix * Radix \in Nat
  <2>1. \A a, b \in Nat : a * b \in Nat
    OBVIOUS
  <2>2. Radix \in Nat
    BY RadixIs
  <2>3. Radix * Radix \in Nat
    BY <2>1, <2>2
  <2>4. (Radix * Radix) * Radix \in Nat /\ Word * Word \in Nat
    BY <2>1, <2>2, <2>3, RadixIs
  <2>5. (Word * Word) * Radix \in Nat
    BY <2>1, <2>2, <2>4
  <2>6. \A r \in Nat : (r * r) * (r * r) = ((r * r) * r) * r
    OBVIOUS
  <2> QED BY <2>2, <2>3, <2>4, <2>5, <2>6, RadixIs
<1>2. t \in Nat /\ t < (Word * Word) * Radix
  BY <1>1 DEF AllTimes
<1>3. t1 \in Nat /\ t1 < (Radix * Radix * Radix) * Radix
  BY <1>1, <1>2, QuotientBelow
<1>4. t2 \in Nat /\ t2 < (Radix * Radix) * Radix
  BY <1>1, <1>3, QuotientBelow
<1>5. t3 \in Nat /\ t3 < Radix * Radix
  BY <1>1, <1>4, QuotientBelow
<1>6. t4 \in Nat /\ t4 < Radix
  BY <1>5, RadixIs, QuotientBelow
<1>7. WriteTimestamp(t) = <<t4 % Radix, t3 % Radix, t2 % Radix, t1 % Radix, t % Radix>>
  BY DEF WriteTimestamp
<1>8. /\ t = (t1 * Radix) + (t % Radix) /\ t1 = (t2 * Radix) + (t1 % Radix)
      /\ t2 = (t3 * Radix) + (t2 % Radix) /\ t3 = (t4 * Radix) + (t3 % Radix)
      /\ t % Radix \in Int /\ t1 % Radix \in Int /\ t2 % Radix \in Int /\ t3 % Radix \in Int
      /\ t4 % Radix \in Int
  BY <1>2, <1>3, <1>4, <1>5, <1>6, ByteIs
<1>9. t4 % Radix = t4
  BY <1>6, RadixIs
<1> HIDE DEF t1, t2, t3, t4
<1> DEFINE w == WriteTimestamp(t)
<1>10. w[1] = t4 /\ w[2] = t3 % Radix /\ w[3] = t2 % Radix /\ w[4] = t1 % Radix /\ w[5] = t % Radix
  BY <1>7, <1>9
<1> QED BY <1>7, <1>8, <1>10

-----------------------------------------------------------------------------
(* Frames. *)

\* Frame b says that message s of m, with n timestamps, was transmitted at tx.
Says(b, m, s, tx, n, echoes) ==
  /\ b \in Seq(Int) /\ Len(b) = RxTimestampOffset + (RxTimestampSize * n)
  /\ BytesWord(b, SenderIdx + 1) = m
  /\ BytesWord(b, SequenceIdx + 1) = s
  /\ ReadTimestamp(b, TxTimestampIdx) = tx
  /\ \A j \in 1 .. n :
       LET i == RxTimestampOffset + ((j - 1) * RxTimestampSize)
       IN  echoes[j] = [id |-> BytesWord(b, i + 1), seq |-> BytesWord(b, i + 3),
                        rx |-> ReadTimestamp(b, i + 4)]

LEMMA SizesAre ==
  RxTimestampOffset = 14 /\ RxTimestampSize = 9 /\ SenderIdx = 7 /\ SequenceIdx = 5
  /\ TxTimestampIdx = 9
BY DEF RxTimestampOffset, RxTimestampSize, SenderIdx, SequenceIdx, TxTimestampIdx, TimestampSize

\* The transceiver sends the bytes it was given, and two more.
LEMMA OnAirIs ==
  ASSUME NEW b \in Seq(Int), Len(b) <= 1022
  PROVE  /\ OnAir(b) \in Seq(Int) /\ Len(OnAir(b)) = Len(b) + 2
         /\ \A i \in 1 .. Len(b) : OnAir(b)[i] = b[i]
<1>1. Len(b) \in Nat
  BY LenProperties
<1>2. WriteTxData(Len(b) + 2, b) = SubSeq(b, 1, Len(b))
  BY <1>1 DEF WriteTxData
<1>3. SubSeq(b, 1, Len(b)) = b
  BY SubSeqFull
<1>4. <<0, 0>> \in Seq(Int) /\ Len(<<0, 0>>) = 2
  OBVIOUS
<1>5. OnAir(b) = b \o <<0, 0>>
  BY <1>2, <1>3 DEF OnAir
<1> QED BY <1>1, <1>4, <1>5, ConcatProperties

\* What analyse_message finds.
Finds(info, m, s, tx, n, echoes) ==
  /\ info = [sender |-> m, seq |-> s, tx |-> tx, echoes |-> info.echoes]
  /\ info.echoes = [j \in 1 .. n |-> echoes[j]]

LEMMA AnalyseIs ==
  ASSUME NEW b, NEW m, NEW s, NEW tx, NEW n \in Nat, NEW echoes,
         Says(b, m, s, tx, n, echoes), Len(b) <= 1022
  PROVE  Finds(Analyse(OnAir(b), Len(b) + 2), m, s, tx, n, echoes)
<1> DEFINE f == OnAir(b)
           info == Analyse(f, Len(b) + 2)
<1>1. b \in Seq(Int) /\ Len(b) = 14 + (9 * n)
  BY SizesAre DEF Says
<1>2. \A i \in 1 .. Len(b) : f[i] = b[i]
  BY <1>1, OnAirIs
<1> HIDE DEF f
<1>3. TimestampsLen(Len(b) + 2) = n
  BY <1>1, SizesAre DEF TimestampsLen
<1>4. \A i \in 1 .. (Len(b) - 1) : BytesWord(f, i) = BytesWord(b, i)
  BY <1>1, <1>2 DEF BytesWord
<1>5. \A i \in 0 .. (Len(b) - 5) : ReadTimestamp(f, i) = ReadTimestamp(b, i)
  BY <1>1, <1>2 DEF ReadTimestamp
<1>6. /\ BytesWord(f, SenderIdx + 1) = m /\ BytesWord(f, SequenceIdx + 1) = s
      /\ ReadTimestamp(f, TxTimestampIdx) = tx
  BY <1>1, <1>4, <1>5, SizesAre DEF Says
<1> DEFINE found == [j \in 1 .. n |->
                 LET i == RxTimestampOffset + (j - 1) * RxTimestampSize
                 IN  [id |-> BytesWord(f, i + 1), seq |-> BytesWord(f, i + 3),
                      rx |-> ReadTimestamp(f, i + 4)]]
<1>7. info = [sender |-> m, seq |-> s, tx |-> tx, echoes |-> found]
  BY <1>3, <1>6 DEF Analyse
<1>8. \A j \in 1 .. n : found[j] = echoes[j]
  <2> SUFFICES ASSUME NEW j \in 1 .. n PROVE found[j] = echoes[j]
    OBVIOUS
  <2> DEFINE i == 14 + ((j - 1) * 9)
  <2>1. i \in Nat /\ i + 9 <= Len(b) /\ i = RxTimestampOffset + ((j - 1) * RxTimestampSize)
    BY <1>1, SizesAre
  <2> HIDE DEF i
  <2>2. /\ BytesWord(f, i + 1) = BytesWord(b, i + 1) /\ BytesWord(f, i + 3) = BytesWord(b, i + 3)
        /\ ReadTimestamp(f, i + 4) = ReadTimestamp(b, i + 4)
    BY <1>1, <1>4, <1>5, <2>1
  <2>3. echoes[j] = [id |-> BytesWord(b, i + 1), seq |-> BytesWord(b, i + 3),
                     rx |-> ReadTimestamp(b, i + 4)]
    BY <2>1 DEF Says
  <2> QED BY <2>1, <2>2, <2>3
<1> HIDE DEF found, info
<1>9. info.echoes = found
  BY <1>7
<1>10. found = [j \in 1 .. n |-> echoes[j]]
  BY <1>8 DEF found
<1> QED BY <1>7, <1>9, <1>10 DEF Finds, info, f

LEMMA ConcatIs ==
  ASSUME NEW a \in Seq(Int), NEW b \in Seq(Int)
  PROVE  /\ a \o b \in Seq(Int) /\ Len(a \o b) = Len(a) + Len(b)
         /\ \A i \in 1 .. Len(a) : (a \o b)[i] = a[i]
         /\ \A i \in 1 .. Len(b) : (a \o b)[Len(a) + i] = b[i]
<1>1. Len(a) \in Nat /\ Len(b) \in Nat
  BY LenProperties
<1>2. /\ a \o b \in Seq(Int) /\ Len(a \o b) = Len(a) + Len(b)
      /\ \A i \in 1 .. (Len(a) + Len(b)) :
           (a \o b)[i] = IF i <= Len(a) THEN a[i] ELSE b[i - Len(a)]
  BY ConcatProperties
<1> QED BY <1>1, <1>2

\* The first fourteen bytes of a frame, and the nine of an element.
LEMMA FieldsAre ==
  ASSUME NEW s \in Int16s, NEW m \in Int16s, NEW tx \in AllTimes, NEW junk \in Int
  PROVE  LET F == Fields(s, m, tx, junk)
         IN  /\ F \in Seq(Int) /\ Len(F) = 14
             /\ BytesWord(F, 6) = s /\ BytesWord(F, 8) = m /\ ReadTimestamp(F, 9) = tx
<1> DEFINE a == Header(junk)
           b == WordBytes(s)
           c == WordBytes(m)
           d == WriteTimestamp(tx)
           F == Fields(s, m, tx, junk)
<1>1. a \in Seq(Int) /\ Len(a) = 5
  BY DEF Header
<1>2. b \in Seq(Int) /\ Len(b) = 2 /\ Int16(b[1] + (b[2] * Radix)) = s
  BY WordIs
<1>3. c \in Seq(Int) /\ Len(c) = 2 /\ Int16(c[1] + (c[2] * Radix)) = m
  BY WordIs
<1>4. /\ d \in Seq(Int) /\ Len(d) = 5
      /\ tx = (((((((d[1] * Radix) + d[2]) * Radix) + d[3]) * Radix) + d[4]) * Radix) + d[5]
  BY TimeIs
<1>5. F = ((a \o b) \o c) \o d
  BY DEF Fields
<1> HIDE DEF a, b, c, d, F
<1> DEFINE e == a \o b
           f == e \o c
<1>6. e \in Seq(Int) /\ Len(e) = 7 /\ \A i \in 1 .. 2 : e[5 + i] = b[i]
  <2>1. e \in Seq(Int) /\ Len(e) = Len(a) + Len(b)
        /\ \A i \in 1 .. Len(b) : e[Len(a) + i] = b[i]
    BY <1>1, <1>2, ConcatIs
  <2> HIDE DEF e
  <2> QED BY <1>1, <1>2, <2>1
<1> HIDE DEF e
<1>7. /\ f \in Seq(Int) /\ Len(f) = 9 /\ \A i \in 1 .. 7 : f[i] = e[i]
      /\ \A i \in 1 .. 2 : f[7 + i] = c[i]
  <2>1. /\ f \in Seq(Int) /\ Len(f) = Len(e) + Len(c) /\ \A i \in 1 .. Len(e) : f[i] = e[i]
        /\ \A i \in 1 .. Len(c) : f[Len(e) + i] = c[i]
    BY <1>3, <1>6, ConcatIs
  <2> HIDE DEF f
  <2> QED BY <1>3, <1>6, <2>1
<1> HIDE DEF f
<1>8. /\ F \in Seq(Int) /\ Len(F) = 14 /\ \A i \in 1 .. 9 : F[i] = f[i]
      /\ \A i \in 1 .. 5 : F[9 + i] = d[i]
  <2>1. /\ f \o d \in Seq(Int) /\ Len(f \o d) = Len(f) + Len(d)
        /\ \A i \in 1 .. Len(f) : (f \o d)[i] = f[i]
        /\ \A i \in 1 .. Len(d) : (f \o d)[Len(f) + i] = d[i]
    BY <1>4, <1>7, ConcatIs
  <2>2. F = f \o d
    BY <1>5 DEF e, f
  <2>3. /\ F \in Seq(Int) /\ Len(F) = Len(f) + Len(d)
        /\ \A i \in 1 .. Len(f) : F[i] = f[i]
        /\ \A i \in 1 .. Len(d) : F[Len(f) + i] = d[i]
    BY <2>1, <2>2
  <2> QED BY <1>4, <1>7, <2>3
<1>9. F[6] = b[1] /\ F[7] = b[2] /\ F[8] = c[1] /\ F[9] = c[2]
  <2>1. e[6] = b[1] /\ e[7] = b[2]
    <3>1. e[5 + 1] = b[1] /\ e[5 + 2] = b[2]
      BY <1>6
    <3> QED BY <3>1
  <2>2. f[6] = e[6] /\ f[7] = e[7] /\ f[7 + 1] = c[1] /\ f[7 + 2] = c[2]
    BY <1>7
  <2>3. F[6] = f[6] /\ F[7] = f[7] /\ F[8] = f[8] /\ F[9] = f[9]
    BY <1>8
  <2> QED BY <2>1, <2>2, <2>3
<1>10. F[10] = d[1] /\ F[11] = d[2] /\ F[12] = d[3] /\ F[13] = d[4] /\ F[14] = d[5]
  <2>1. F[9 + 1] = d[1] /\ F[9 + 2] = d[2] /\ F[9 + 3] = d[3] /\ F[9 + 4] = d[4] /\ F[9 + 5] = d[5]
    BY <1>8
  <2> QED BY <2>1
<1>11. BytesWord(F, 6) = s /\ BytesWord(F, 8) = m
  BY <1>2, <1>3, <1>9 DEF BytesWord
<1>12. ReadTimestamp(F, 9) = tx
  BY <1>4, <1>10 DEF ReadTimestamp
<1> QED BY <1>8, <1>11, <1>12 DEF F

LEMMA ElementIs ==
  ASSUME NEW m \in Int16s, NEW s \in Int16s, NEW rx \in AllTimes
  PROVE  LET E == Element(m, s, rx)
         IN  /\ E \in Seq(Int) /\ Len(E) = 9
             /\ BytesWord(E, 1) = m /\ BytesWord(E, 3) = s /\ ReadTimestamp(E, 4) = rx
<1> DEFINE b == WordBytes(m)
           c == WordBytes(s)
           d == WriteTimestamp(rx)
           E == Element(m, s, rx)
<1>1. b \in Seq(Int) /\ Len(b) = 2 /\ Int16(b[1] + (b[2] * Radix)) = m
  BY WordIs
<1>2. c \in Seq(Int) /\ Len(c) = 2 /\ Int16(c[1] + (c[2] * Radix)) = s
  BY WordIs
<1>3. /\ d \in Seq(Int) /\ Len(d) = 5
      /\ rx = (((((((d[1] * Radix) + d[2]) * Radix) + d[3]) * Radix) + d[4]) * Radix) + d[5]
  BY TimeIs
<1>4. E = (b \o c) \o d
  BY DEF Element
<1> HIDE DEF b, c, d, E
<1> DEFINE e == b \o c
<1>5. e \in Seq(Int) /\ Len(e) = 4 /\ e[1] = b[1] /\ e[2] = b[2] /\ e[3] = c[1] /\ e[4] = c[2]
  <2>1. e \in Seq(Int) /\ Len(e) = Len(b) + Len(c) /\ (\A i \in 1 .. Len(b) : e[i] = b[i])
        /\ \A i \in 1 .. Len(c) : e[Len(b) + i] = c[i]
    BY <1>1, <1>2, ConcatIs
  <2> HIDE DEF e
  <2>2. e[2 + 1] = c[1] /\ e[2 + 2] = c[2]
    BY <1>1, <1>2, <2>1
  <2> QED BY <1>1, <1>2, <2>1, <2>2
<1> HIDE DEF e
<1>6. /\ E \in Seq(Int) /\ Len(E) = 9 /\ \A i \in 1 .. 4 : E[i] = e[i]
      /\ \A i \in 1 .. 5 : E[4 + i] = d[i]
  <2>1. /\ e \o d \in Seq(Int) /\ Len(e \o d) = Len(e) + Len(d)
        /\ \A i \in 1 .. Len(e) : (e \o d)[i] = e[i]
        /\ \A i \in 1 .. Len(d) : (e \o d)[Len(e) + i] = d[i]
    BY <1>3, <1>5, ConcatIs
  <2>2. E = e \o d
    BY <1>4 DEF e
  <2>3. /\ E \in Seq(Int) /\ Len(E) = Len(e) + Len(d)
        /\ \A i \in 1 .. Len(e) : E[i] = e[i]
        /\ \A i \in 1 .. Len(d) : E[Len(e) + i] = d[i]
    BY <2>1, <2>2
  <2> QED BY <1>3, <1>5, <2>3
<1>7. E[1] = b[1] /\ E[2] = b[2] /\ E[3] = c[1] /\ E[4] = c[2]
  BY <1>5, <1>6
<1>8. E[5] = d[1] /\ E[6] = d[2] /\ E[7] = d[3] /\ E[8] = d[4] /\ E[9] = d[5]
  <2>1. E[4 + 1] = d[1] /\ E[4 + 2] = d[2] /\ E[4 + 3] = d[3] /\ E[4 + 4] = d[4] /\ E[4 + 5] = d[5]
    BY <1>6
  <2> QED BY <2>1
<1>9. BytesWord(E, 1) = m /\ BytesWord(E, 3) = s
  BY <1>1, <1>2, <1>7 DEF BytesWord
<1>10. ReadTimestamp(E, 4) = rx
  BY <1>3, <1>8 DEF ReadTimestamp
<1> QED BY <1>6, <1>9, <1>10 DEF E

-----------------------------------------------------------------------------
(* The table. *)

\* The types, and that no element is used for the board itself.
FramesType ==
  /\ DOMAIN received_messages = Id
  /\ \A m \in Id : received_messages[m].seq \in Int16s /\ received_messages[m].rx \in AllTimes
  /\ received_messages[Self].seq = 0
  /\ sequence_number \in Int16s

LEMMA IdsAre ==
  /\ IsFiniteSet(Id) /\ Cardinality(Id) = Participants /\ Participants \in Nat
  /\ Id \subseteq Nat /\ Self \in Id /\ Id \subseteq Int16s
<1>1. Participants \in Nat
  BY ParticipantsAssumption
<1>2. IsFiniteSet(0 .. (Participants - 1)) /\ Cardinality(0 .. (Participants - 1)) =
        IF 0 > Participants - 1 THEN 0 ELSE Participants - 1 - 0 + 1
  BY <1>1, FS_Interval
<1> QED BY <1>1, <1>2, ParticipantsAssumption DEF Id

\* Each of the used elements has a place of its own, and the board itself none.
LEMMA UsedIs ==
  ASSUME FramesType
  PROVE  /\ Used \in Seq(UsedIds) /\ Len(Used) \in Nat /\ Len(Used) < Participants
         /\ DOMAIN Used = 1 .. Len(Used)
         /\ UsedIds \subseteq Id
<1> DEFINE N == Cardinality(UsedIds)
           upto(m) == {k \in UsedIds : k <= m}
           rank == [m \in UsedIds |-> Cardinality(upto(m))]
<1>1. UsedIds \subseteq Id \ {Self}
  BY DEF UsedIds, FramesType
<1>2. IsFiniteSet(UsedIds) /\ N \in Nat /\ N < Participants
  <2>1. IsFiniteSet(Id \ {Self}) /\ Cardinality(Id \ {Self}) = Participants - 1
    BY IdsAre, FS_RemoveElement
  <2>2. IsFiniteSet(UsedIds) /\ N <= Participants - 1
    BY <1>1, <2>1, FS_Subset
  <2>3. N \in Nat
    BY <2>2, FS_CardinalityType
  <2> QED BY <2>2, <2>3, IdsAre
<1>3. UsedIds \subseteq Nat
  BY <1>1, IdsAre
<1>4. IsFiniteSet(1 .. N) /\ Cardinality(1 .. N) = N
  <2> HIDE DEF N
  <2>1. IsFiniteSet(1 .. N) /\ Cardinality(1 .. N) = IF 1 > N THEN 0 ELSE N - 1 + 1
    BY <1>2, FS_Interval
  <2> QED BY <1>2, <2>1
<1>5. \A m \in UsedIds : IsFiniteSet(upto(m)) /\ Cardinality(upto(m)) \in 1 .. N
  <2> SUFFICES ASSUME NEW m \in UsedIds
               PROVE  IsFiniteSet(upto(m)) /\ Cardinality(upto(m)) \in 1 .. N
    OBVIOUS
  <2>1. upto(m) \in SUBSET UsedIds /\ m \in upto(m)
    BY <1>3
  <2> HIDE DEF upto
  <2>2. IsFiniteSet(upto(m)) /\ Cardinality(upto(m)) <= N
    BY <1>2, <2>1, FS_Subset
  <2>3. Cardinality(upto(m)) \in Nat /\ Cardinality(upto(m)) # 0
    BY <2>1, <2>2, FS_CardinalityType, FS_EmptySet
  <2> HIDE DEF N
  <2> QED BY <1>2, <2>2, <2>3
<1>6. \A m, l \in UsedIds : m < l => Cardinality(upto(m)) # Cardinality(upto(l))
  <2> SUFFICES ASSUME NEW m \in UsedIds, NEW l \in UsedIds, m < l
               PROVE  Cardinality(upto(m)) # Cardinality(upto(l))
    OBVIOUS
  <2>1. m \in Int /\ l \in Int /\ \A k \in UsedIds : k \in Int
    BY <1>3
  <2>2. (\A k \in UsedIds : k <= m => k <= l) /\ l <= l /\ ~(l <= m)
    BY <2>1
  <2>4. upto(m) \subseteq upto(l) /\ l \in upto(l) /\ l \notin upto(m)
    BY <2>2
  <2>3. IsFiniteSet(upto(l))
    BY <1>5
  <2> HIDE DEF upto
  <2> QED BY <2>3, <2>4, FS_Subset
<1>8. rank \in Injection(UsedIds, 1 .. N)
  <2>1. rank \in [UsedIds -> 1 .. N]
    BY <1>5
  <2>2. \A m, l \in UsedIds : rank[m] = rank[l] => m = l
    <3> SUFFICES ASSUME NEW m \in UsedIds, NEW l \in UsedIds, rank[m] = rank[l] PROVE m = l
      OBVIOUS
    <3>1. Cardinality(upto(m)) = Cardinality(upto(l))
      OBVIOUS
    <3>2. m \in Nat /\ l \in Nat
      BY <1>3
    <3> HIDE DEF upto, rank
    <3> QED BY <1>6, <3>1, <3>2
  <2> HIDE DEF rank
  <2> QED BY <2>1, <2>2 DEF Injection, IsInjective
<1>9. rank \in Surjection(UsedIds, 1 .. N)
  <2> HIDE DEF rank
  <2> QED BY <1>4, <1>8, FS_Injection
<1>10. \A j \in 1 .. N : \E m \in UsedIds : Cardinality(upto(m)) = j
  BY <1>9 DEF Surjection
<1>11. \A j \in 1 .. N : UsedAt(j) \in UsedIds
  BY <1>10 DEF UsedAt
<1>12. Used = [j \in 1 .. N |-> UsedAt(j)]
  BY DEF Used
<1> HIDE DEF N
<1>13. Used \in [1 .. N -> UsedIds]
  BY <1>11, <1>12
<1>14. Used \in Seq(UsedIds)
  BY <1>2, <1>13, SeqDef
<1>15. Len(Used) = N
  BY <1>2, <1>13, <1>14, LenProperties
<1> QED BY <1>1, <1>2, <1>13, <1>14, <1>15

\* As many elements fit as there are, at most; all of them in send_message's buffer.
LEMMA FittingIs ==
  ASSUME NEW n \in Nat, NEW bytes \in Nat
  PROVE  /\ Fitting(n, bytes) \in 0 .. n
         /\ bytes = BufferLen /\ n <= Participants => Fitting(n, bytes) = n
<1> DEFINE S == {j \in 0 .. (n - 1) : RxTimestampOffset + RxTimestampSize * j + 2 + 1 < bytes}
<1>1. IsFiniteSet(0 .. (n - 1)) /\ Cardinality(0 .. (n - 1)) = n
  <2>1. /\ IsFiniteSet(0 .. (n - 1))
        /\ Cardinality(0 .. (n - 1)) = IF 0 > n - 1 THEN 0 ELSE n - 1 - 0 + 1
    BY FS_Interval
  <2> QED BY <2>1
<1>2. S \subseteq 0 .. (n - 1)
  OBVIOUS
<1>3. bytes = BufferLen /\ n <= Participants => S = 0 .. (n - 1)
  BY SizesAre, ParticipantsAssumption DEF BufferLen, TimestampSize
<1> HIDE DEF S
<1>4. Cardinality(S) \in Nat /\ Cardinality(S) <= n
  BY <1>1, <1>2, FS_Subset, FS_CardinalityType
<1>5. Fitting(n, bytes) = Cardinality(S)
  BY DEF Fitting, S
<1> QED BY <1>1, <1>3, <1>4, <1>5

\* What construct_message writes says what it was given.
LEMMA ConstructSays ==
  ASSUME FramesType, NEW tx \in AllTimes, NEW bytes \in Nat, NEW junk \in Int
  PROVE  Says(Construct(tx, bytes, junk), Self, sequence_number, tx, Fitting(Len(Used), bytes),
              Known)
<1> DEFINE n == Fitting(Len(Used), bytes)
           b == Construct(tx, bytes, junk)
           F == Fields(sequence_number, Self, tx, junk)
           E(j) == Element(Used[j], received_messages[Used[j]].seq, received_messages[Used[j]].rx)
           at(k) == k - 15
<1>1. n \in 0 .. Len(Used) /\ Len(Used) \in Nat
  BY UsedIs, FittingIs
<1>2. /\ F \in Seq(Int) /\ Len(F) = 14 /\ BytesWord(F, 6) = sequence_number
      /\ BytesWord(F, 8) = Self /\ ReadTimestamp(F, 9) = tx
  <2>1. sequence_number \in Int16s /\ Self \in Int16s
    BY IdsAre DEF FramesType
  <2> QED BY <2>1, FieldsAre
<1>3. \A j \in 1 .. n :
        /\ E(j) \in Seq(Int) /\ Len(E(j)) = 9 /\ BytesWord(E(j), 1) = Used[j]
        /\ BytesWord(E(j), 3) = received_messages[Used[j]].seq
        /\ ReadTimestamp(E(j), 4) = received_messages[Used[j]].rx
  <2> SUFFICES ASSUME NEW j \in 1 .. n
               PROVE  /\ E(j) \in Seq(Int) /\ Len(E(j)) = 9 /\ BytesWord(E(j), 1) = Used[j]
                      /\ BytesWord(E(j), 3) = received_messages[Used[j]].seq
                      /\ ReadTimestamp(E(j), 4) = received_messages[Used[j]].rx
    OBVIOUS
  <2>1. j \in 1 .. Len(Used)
    BY <1>1
  <2>2. Used[j] \in Id
    BY <2>1, UsedIs, ElementOfSeq
  <2>3. /\ Used[j] \in Int16s /\ received_messages[Used[j]].seq \in Int16s
        /\ received_messages[Used[j]].rx \in AllTimes
    BY <2>2, IdsAre DEF FramesType
  <2> QED BY <2>3, ElementIs
<1>4. b = [k \in 1 .. (14 + (9 * n)) |->
             IF k <= 14 THEN F[k] ELSE E((at(k) \div 9) + 1)[(at(k) % 9) + 1]]
  BY SizesAre DEF Construct
<1>5. \A j \in DOMAIN Known :
        Known[j] = [id |-> Used[j], seq |-> received_messages[Used[j]].seq,
                    rx |-> received_messages[Used[j]].rx]
  BY DEF Known
<1>6. DOMAIN Known = 1 .. Len(Used)
  BY UsedIs DEF Known
<1> HIDE DEF b, F, E, n
<1>7. \A j \in 1 .. n : \A i \in 1 .. 9 : b[14 + ((j - 1) * 9) + i] = E(j)[i]
  <2> SUFFICES ASSUME NEW j \in 1 .. n, NEW i \in 1 .. 9
               PROVE  b[14 + ((j - 1) * 9) + i] = E(j)[i]
    OBVIOUS
  <2> DEFINE k == 14 + ((j - 1) * 9) + i
  <2>1. k \in 1 .. (14 + (9 * n)) /\ ~(k <= 14)
    BY <1>1
  <2>2. (at(k) \div 9) + 1 = j /\ (at(k) % 9) + 1 = i
    BY <1>1
  <2> HIDE DEF k
  <2>3. b[k] = E((at(k) \div 9) + 1)[(at(k) % 9) + 1]
    BY <1>4, <2>1
  <2> QED BY <2>2, <2>3 DEF k
<1>8. b \in Seq(Int) /\ Len(b) = 14 + (9 * n)
  <2>1. \A k \in 1 .. 14 : F[k] \in Int
    BY <1>2, ElementOfSeq
  <2>2. \A j \in 1 .. n : \A i \in 1 .. 9 : E(j)[i] \in Int
    BY <1>3, ElementOfSeq
  <2>3. \A k \in 1 .. (14 + (9 * n)) :
          ~(k <= 14) => (at(k) \div 9) + 1 \in 1 .. n /\ (at(k) % 9) + 1 \in 1 .. 9
    BY <1>1
  <2>7. \A k \in 1 .. (14 + (9 * n)) : b[k] \in Int
    <3> SUFFICES ASSUME NEW k \in 1 .. (14 + (9 * n)) PROVE b[k] \in Int
      OBVIOUS
    <3>1. CASE k <= 14
      <4>1. k \in 1 .. 14 /\ b[k] = F[k]
        BY <1>1, <1>4, <3>1
      <4> QED BY <2>1, <4>1
    <3>2. CASE ~(k <= 14)
      <4>1. b[k] = E((at(k) \div 9) + 1)[(at(k) % 9) + 1]
        BY <1>4, <3>2
      <4>2. (at(k) \div 9) + 1 \in 1 .. n /\ (at(k) % 9) + 1 \in 1 .. 9
        BY <2>3, <3>2
      <4> QED BY <2>2, <4>1, <4>2
    <3> QED BY <3>1, <3>2
  <2>4. b \in [1 .. (14 + (9 * n)) -> Int]
    <3>1. b = [k \in 1 .. (14 + (9 * n)) |-> b[k]]
      BY <1>4
    <3> QED BY <2>7, <3>1
  <2>5. 14 + (9 * n) \in Nat
    BY <1>1
  <2>6. b \in Seq(Int)
    BY <2>4, <2>5, SeqDef
  <2> QED BY <2>4, <2>5, <2>6, LenProperties
<1>9. \A k \in 1 .. 14 : b[k] = F[k]
  BY <1>1, <1>4
<1>10. BytesWord(b, 6) = sequence_number /\ BytesWord(b, 8) = Self
  BY <1>2, <1>9 DEF BytesWord
<1>11. ReadTimestamp(b, 9) = tx
  BY <1>2, <1>9 DEF ReadTimestamp
<1>12. \A j \in 1 .. n :
         LET i == 14 + ((j - 1) * 9)
         IN  Known[j] = [id |-> BytesWord(b, i + 1), seq |-> BytesWord(b, i + 3),
                         rx |-> ReadTimestamp(b, i + 4)]
  <2> SUFFICES ASSUME NEW j \in 1 .. n
               PROVE  LET i == 14 + ((j - 1) * 9)
                      IN  Known[j] = [id |-> BytesWord(b, i + 1), seq |-> BytesWord(b, i + 3),
                                      rx |-> ReadTimestamp(b, i + 4)]
    OBVIOUS
  <2> DEFINE i == 14 + ((j - 1) * 9)
  <2>1. /\ b[i + 1] = E(j)[1] /\ b[i + 2] = E(j)[2] /\ b[i + 3] = E(j)[3] /\ b[i + 4] = E(j)[4]
        /\ b[i + 5] = E(j)[5] /\ b[i + 6] = E(j)[6] /\ b[i + 7] = E(j)[7] /\ b[i + 8] = E(j)[8]
        /\ b[i + 9] = E(j)[9]
    BY <1>7
  <2>2. i \in Int
    BY <1>1
  <2>3. j \in DOMAIN Known
    BY <1>1, <1>6
  <2> HIDE DEF i
  <2>4. BytesWord(b, i + 1) = BytesWord(E(j), 1) /\ BytesWord(b, i + 3) = BytesWord(E(j), 3)
    BY <2>1, <2>2 DEF BytesWord
  <2>5. ReadTimestamp(b, i + 4) = ReadTimestamp(E(j), 4)
    BY <2>1, <2>2 DEF ReadTimestamp
  <2> QED BY <1>3, <1>5, <2>3, <2>4, <2>5 DEF i
<1> QED BY <1>8, <1>10, <1>11, <1>12, SizesAre DEF Says, b, n

LEMMA KnownIs ==
  ASSUME FramesType
  PROVE  Known = [j \in 1 .. Len(Used) |-> Known[j]] /\ Len(Known) = Len(Used)
<1>1. Len(Used) \in Nat /\ DOMAIN Used = 1 .. Len(Used)
  BY UsedIs
<1>2. Known = [j \in 1 .. Len(Used) |-> Known[j]]
  BY <1>1 DEF Known
<1>3. DOMAIN Known = 1 .. Len(Used)
  BY <1>2
<1>4. Known \in Seq({Known[j] : j \in 1 .. Len(Used)})
  BY <1>1, <1>2, SeqDef
<1> QED BY <1>1, <1>2, <1>3, <1>4, LenProperties

-----------------------------------------------------------------------------
(* What holds in every state. *)

\* The last frame says the first n of what it was built from, all of it if there was room.
SentSays(n) ==
  /\ Says(sent, said.sender, said.seq, said.tx, n, said.echoes)
  /\ said = [sender |-> said.sender, seq |-> said.seq, tx |-> said.tx, echoes |-> said.echoes]
  /\ said.echoes = [j \in 1 .. Len(said.echoes) |-> said.echoes[j]]
  /\ Len(said.echoes) \in Nat /\ Len(said.echoes) < Participants
  /\ n <= Len(said.echoes)
  /\ size = BufferLen => n = Len(said.echoes)

FramesInv == FramesType /\ (sent # <<>> => \E n \in Nat : SentSays(n))

LEMMA FramesInitial == FramesInit => FramesInv
<1> SUFFICES ASSUME FramesInit PROVE FramesInv
  OBVIOUS
<1>1. received_messages = [m \in Id |-> [seq |-> 0, rx |-> 0]] /\ sequence_number = 1 /\ sent = <<>>
  BY DEF FramesInit
<1>2. 0 \in Int16s /\ 1 \in Int16s
  <2>1. Word \in Nat /\ Word > 2
    <3>1. \A r \in Nat : r > 1 => r * r > 2 /\ r * r \in Nat
      <4> SUFFICES ASSUME NEW r \in Nat, r > 1 PROVE r * r > 2 /\ r * r \in Nat
        OBVIOUS
      <4>1. \A a, b \in Int : a >= 2 /\ b >= 2 => a * b >= 4 /\ a * b \in Nat
        OBVIOUS
      <4> QED BY <4>1
    <3> QED BY <3>1, RadixAssumption DEF Word
  <2> QED BY <2>1 DEF Int16s
<1>3. 0 \in AllTimes
  <2>1. \A a, b \in Nat : a # 0 /\ b # 0 => a * b \in Nat /\ a * b # 0
    OBVIOUS
  <2>2. Word * Word \in Nat /\ Word * Word # 0
    BY <2>1, RadixIs
  <2>3. Word * Word * Radix \in Nat /\ Word * Word * Radix # 0
    BY <2>1, <2>2, RadixIs
  <2> QED BY <2>3 DEF AllTimes
<1>4. FramesType
  BY <1>1, <1>2, <1>3, IdsAre DEF FramesType
<1> QED BY <1>1, <1>4 DEF FramesInv

LEMMA ReceiveKeeps ==
  ASSUME FramesInv, NEW m \in Id \ {Self}, NEW s \in Numbers, NEW t \in Times, Receive(m, s, t)
  PROVE  FramesInv'
<1> DEFINE b == Fields(s, m, t, 0)
           frame == OnAir(b)
           info == Analyse(frame, Len(frame))
<1>1. s \in Int16s /\ m \in Int16s /\ m \in Id /\ m # Self /\ t \in AllTimes
  BY IdsAre, NumbersAssumption, TimesAssumption DEF AllTimes
<1>2. b \in Seq(Int) /\ Len(b) = 14 /\ BytesWord(b, 6) = s /\ BytesWord(b, 8) = m
      /\ ReadTimestamp(b, 9) = t
  BY <1>1, FieldsAre
<1>3. Says(b, m, s, t, 0, <<>>)
  BY <1>2, SizesAre DEF Says
<1> HIDE DEF b
<1>5. b \in Seq(Int) /\ Len(b) <= 1022 /\ 0 \in Nat
  BY <1>2
<1>4. Len(frame) = Len(b) + 2
  BY <1>5, OnAirIs
<1>6. Finds(Analyse(OnAir(b), Len(b) + 2), m, s, t, 0, <<>>)
  BY <1>3, <1>5, AnalyseIs
<1>7. info.sender = m /\ info.seq = s
  BY <1>4, <1>6 DEF Finds
<1>8. received_messages' = [received_messages EXCEPT ![info.sender] = [seq |-> info.seq, rx |-> t]]
  BY DEF Receive, b
<1>9. UNCHANGED <<sequence_number, sent, said, size>>
  BY DEF Receive
<1> HIDE DEF info, frame
<1>10. received_messages' = [received_messages EXCEPT ![m] = [seq |-> s, rx |-> t]]
  BY <1>7, <1>8
<1>11. FramesType'
  BY <1>1, <1>9, <1>10, IdsAre DEF FramesInv, FramesType
<1>12. sent' # <<>> => \E n \in Nat : SentSays(n)'
  BY <1>9 DEF FramesInv, SentSays, Says
<1> QED BY <1>11, <1>12 DEF FramesInv

LEMMA SendKeeps ==
  ASSUME FramesInv, NEW t \in Times, NEW bytes \in Nat, NEW junk \in Int, Send(t, bytes, junk)
  PROVE  FramesInv'
<1>1. t \in AllTimes /\ FramesType
  BY TimesAssumption DEF AllTimes, FramesInv
<1>3. Len(Used) \in Nat /\ Len(Used) < Participants
  BY <1>1, UsedIs
<1>0. /\ Fitting(Len(Used), bytes) \in 0 .. Len(Used)
      /\ bytes = BufferLen /\ Len(Used) <= Participants => Fitting(Len(Used), bytes) = Len(Used)
  BY <1>3, FittingIs
<1>4. PICK n \in Nat : /\ n = Fitting(Len(Used), bytes) /\ n <= Len(Used)
                       /\ (bytes = BufferLen => n = Len(Used))
  BY <1>0, <1>3, IdsAre
<1>2. Says(Construct(t, bytes, junk), Self, sequence_number, t, n, Known)
  BY <1>1, <1>4, ConstructSays
<1>5. Known = [j \in 1 .. Len(Known) |-> Known[j]] /\ Len(Known) = Len(Used)
  BY <1>1, KnownIs
<1>6. /\ sent' = Construct(t, bytes, junk) /\ size' = bytes
      /\ said' = [sender |-> Self, seq |-> sequence_number, tx |-> t, echoes |-> Known]
      /\ sequence_number' = Int16(sequence_number + 1)
      /\ received_messages' = received_messages
  BY DEF Send
<1>7. FramesType'
  <2>1. sequence_number \in Int
    BY <1>1 DEF FramesType, Int16s
  <2>2. sequence_number' \in Int16s
    BY <1>6, <2>1, Int16Is
  <2> QED BY <1>1, <1>6, <2>2 DEF FramesType
<1>8. /\ said'.sender = Self /\ said'.seq = sequence_number /\ said'.tx = t
      /\ said'.echoes = Known
  BY <1>6
<1>9. SentSays(n)'
  <2>1. Says(sent, said.sender, said.seq, said.tx, n, said.echoes)'
    <3>1. Says(sent', said'.sender, said'.seq, said'.tx, n, said'.echoes)
      BY <1>2, <1>6, <1>8
    <3> QED BY <3>1 DEF Says
  <2> QED BY <1>3, <1>4, <1>5, <1>6, <1>8, <2>1 DEF SentSays
<1> QED BY <1>4, <1>7, <1>9 DEF FramesInv

LEMMA FramesStep == FramesInv /\ [FramesNext]_frames => FramesInv'
<1> SUFFICES ASSUME FramesInv, [FramesNext]_frames PROVE FramesInv'
  OBVIOUS
<1>1. CASE \E m \in Id \ {Self}, s \in Numbers, t \in Times : Receive(m, s, t)
  BY <1>1, ReceiveKeeps
<1>2. CASE \E t \in Times, bytes \in Sizes \cup {BufferLen}, junk \in {0, Radix - 1} :
             Send(t, bytes, junk)
  <2>1. BufferLen \in Nat
    BY SizesAre, IdsAre DEF BufferLen, TimestampSize
  <2>2. Sizes \cup {BufferLen} \subseteq Nat /\ {0, Radix - 1} \subseteq Int
    BY <2>1, SizesAssumption, RadixIs
  <2> QED BY <1>2, <2>2, SendKeeps
<1>3. CASE UNCHANGED frames
  BY <1>3 DEF frames, FramesInv, FramesType, SentSays, Says
<1> QED BY <1>1, <1>2, <1>3 DEF FramesNext

LEMMA FramesInvAlways == FramesSpec => []FramesInv
<1> QED BY FramesInitial, FramesStep, PTL DEF FramesSpec

(***************************************************************************)
(* Whatever has been heard and however large the buffer, analyse_message   *)
(* finds in a frame what construct_message was given, as far as it fits:   *)
(* for every size of a byte and up to 113 participants.  The transceiver   *)
(* takes nothing of a longer frame (dwt_writetxdata).                      *)
(***************************************************************************)
THEOREM RoundTripAlways ==
  ASSUME Participants <= 113
  PROVE  FramesSpec => []RoundTrip
<1>1. FramesInv => RoundTrip
  <2> SUFFICES ASSUME FramesInv, sent # <<>>
               PROVE  LET info == Analyse(OnAir(sent), Len(sent) + 2)
                      IN  /\ [info EXCEPT !.echoes = said.echoes] = said
                          /\ IsPrefix(info.echoes, said.echoes)
                          /\ size = BufferLen => info = said
    BY DEF RoundTrip
  <2> DEFINE info == Analyse(OnAir(sent), Len(sent) + 2)
             known_ == said.echoes
  <2>1. PICK n \in Nat : SentSays(n)
    BY DEF FramesInv
  <2>2. /\ Says(sent, said.sender, said.seq, said.tx, n, known_)
        /\ said = [sender |-> said.sender, seq |-> said.seq, tx |-> said.tx, echoes |-> known_]
        /\ known_ = [j \in 1 .. Len(known_) |-> known_[j]] /\ Len(known_) \in Nat
        /\ Len(known_) < Participants /\ n <= Len(known_) /\ (size = BufferLen => n = Len(known_))
    BY <2>1 DEF SentSays
  <2>3. Len(sent) = 14 + (9 * n) /\ Len(sent) <= 1022
    BY <2>2, IdsAre, SizesAre DEF Says
  <2> HIDE DEF known_
  <2>8. Finds(info, said.sender, said.seq, said.tx, n, known_)
    BY <2>2, <2>3, AnalyseIs
  <2>4. /\ info = [sender |-> said.sender, seq |-> said.seq, tx |-> said.tx, echoes |-> info.echoes]
        /\ info.echoes = [j \in 1 .. n |-> known_[j]]
    BY <2>8 DEF Finds
  <2> HIDE DEF info, known_
  <2>5. [info EXCEPT !.echoes = known_] = said
    BY <2>2, <2>4
  <2>6. size = BufferLen => info = said
    BY <2>2, <2>4
  <2>7. IsPrefix(info.echoes, known_)
    <3>1. Len(info.echoes) = n /\ \A j \in 1 .. n : info.echoes[j] = known_[j]
      <4>1. info.echoes \in Seq({known_[j] : j \in 1 .. n})
        BY <2>4, SeqDef
      <4> QED BY <2>4, <4>1, LenProperties
    <3> QED BY <2>2, <2>4, <3>1 DEF IsPrefix
  <2> QED BY <2>5, <2>6, <2>7 DEF info, known_
<1> QED BY <1>1, FramesInvAlways, PTL

(***************************************************************************)
(* construct_message stays within the buffer send_message provides, for    *)
(* every number of participants.                                           *)
(***************************************************************************)
THEOREM SizeRespectedAlways == FramesSpec => []SizeRespected
<1>1. FramesInv => SizeRespected
  <2> SUFFICES ASSUME FramesInv, size = BufferLen PROVE Len(sent) <= size
    BY DEF SizeRespected
  <2>1. BufferLen = 26 + (9 * Participants) /\ Participants \in Nat
    BY SizesAre, IdsAre DEF BufferLen, TimestampSize
  <2>2. CASE sent = <<>>
    BY <2>1, <2>2
  <2>3. CASE sent # <<>>
    <3>1. PICK n \in Nat : SentSays(n)
      BY <2>3 DEF FramesInv
    <3>2. Len(sent) = 14 + (9 * n) /\ n < Participants
      BY <2>1, <3>1, SizesAre DEF SentSays, Says
    <3> QED BY <2>1, <3>2
  <2> QED BY <2>2, <2>3
<1> QED BY <1>1, FramesInvAlways, PTL

(***************************************************************************)
(* A frame fits into 127 bytes, with up to thirteen participants: one with *)
(* the thirteen timestamps of a fourteenth's message does not.             *)
(***************************************************************************)
THEOREM FrameFitsAlways ==
  ASSUME Participants <= 13
  PROVE  FramesSpec => []FrameFits
<1>1. FramesInv => FrameFits
  <2> SUFFICES ASSUME FramesInv PROVE Len(OnAir(sent)) <= 127
    BY DEF FrameFits
  <2>1. CASE sent = <<>>
    <3>1. sent \in Seq(Int) /\ Len(sent) = 0 /\ Len(sent) <= 1022
      BY <2>1
    <3>2. Len(OnAir(sent)) = Len(sent) + 2
      BY <3>1, OnAirIs
    <3> QED BY <3>1, <3>2
  <2>2. CASE sent # <<>>
    <3>1. PICK n \in Nat : SentSays(n)
      BY <2>2 DEF FramesInv
    <3>2. sent \in Seq(Int) /\ Len(sent) = 14 + (9 * n) /\ n < 13
      BY <3>1, IdsAre, SizesAre DEF SentSays, Says
    <3>3. Len(sent) <= 1022
      BY <3>2
    <3>4. Len(OnAir(sent)) = Len(sent) + 2
      BY <3>2, <3>3, OnAirIs
    <3> QED BY <3>2, <3>4
  <2> QED BY <2>1, <2>2
<1> QED BY <1>1, FramesInvAlways, PTL
=============================================================================
