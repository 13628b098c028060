----------------------------- MODULE DwPmscProofs -----------------------------
(***************************************************************************)
(* Proofs about DwPmsc.tla: every use of a clock has it, and between two   *)
(* calls the clocks and flags are as the calls left them; for any calls of *)
(* the main loop, and callbacks that run between any two of their accesses.*)
(*                                                                         *)
(* A call is a sequence of accesses, and both properties are read off it.  *)
(* Whether a use has its clocks: each is switched by an access before the  *)
(* use, and no access in between touches it. What a call leaves a flag at: *)
(* its last access that does not spare the flag sets it, or puts back what *)
(* was read of it with nothing in between.  What is left of a call has the *)
(* same shape, if what its accesses have done counts by what they left in  *)
(* the registers; and a call of a callback, which runs within another one, *)
(* puts back all but a few flags that the other call does not rely on.     *)
(***************************************************************************)
EXTENDS DwPmsc, Integers, SequenceTheorems, TLAPS

Flag == Ctrl0 \cup Ctrl1 \cup RfConf
Access == [do : {"read", "put", "use", "woken", "reset", "save", "restore"},
           part : SUBSET Flag, add : SUBSET Flag, drop : SUBSET Flag]
Levels == {"on", "off"}

\* What a use wants at a level, and that an access brings a flag to it, or spares it.
Wanted(s, v) == IF v = "on" THEN s.add ELSE s.drop
Gives(s, f, v) ==
  /\ s.do = "put"
  /\ IF v = "on" THEN f \in s.add ELSE f \in s.part /\ f \in s.drop /\ f \notin s.add
Spares(s, f) ==
  \/ s.do \in {"read", "use", "woken", "save"}
  \/ s.do \in {"put", "restore"} /\ f \notin s.part /\ f \notin s.add

Given(seq, i, f, v) ==
  \E j \in 1 .. (i - 1) :
     Gives(seq[j], f, v) /\ \A k \in (j + 1) .. (i - 1) : Spares(seq[k], f)

\* Each use of the sequence has what it wants, and wants flags of S only.
Provided(seq, S) ==
  /\ seq \in Seq(Access)
  /\ \A i \in 1 .. Len(seq) : seq[i].do = "use" =>
       \A v \in Levels : \A f \in Wanted(seq[i], v) : f \in S /\ Given(seq, i, f, v)

\* The same of what is left of a call.
IsAt(f, v, r) == IF v = "on" THEN f \in r ELSE f \notin r
StillProvided(seq, S, r) ==
  /\ seq \in Seq(Access)
  /\ \A i \in 1 .. Len(seq) : seq[i].do = "use" =>
       \A v \in Levels : \A f \in Wanted(seq[i], v) :
          /\ f \in S
          /\ \/ Given(seq, i, f, v)
             \/ IsAt(f, v, r) /\ \A k \in 1 .. (i - 1) : Spares(seq[k], f)

LEMMA JoinIs ==
  ASSUME NEW A, NEW a \in Seq(A), NEW b \in Seq(A)
  PROVE  /\ a \o b \in Seq(A) /\ Len(a \o b) = Len(a) + Len(b)
         /\ Len(a) \in Nat /\ Len(b) \in Nat
         /\ \A i \in 1 .. Len(a) : (a \o b)[i] = a[i]
         /\ \A i \in 1 .. Len(b) : (a \o b)[Len(a) + i] = b[i]
<1>1. Len(a) \in Nat /\ Len(b) \in Nat
  BY LenProperties
<1>2. /\ a \o b \in Seq(A) /\ Len(a \o b) = Len(a) + Len(b)
      /\ \A i \in 1 .. (Len(a) + Len(b)) :
           (a \o b)[i] = IF i <= Len(a) THEN a[i] ELSE b[i - Len(a)]
  BY ConcatProperties
<1> QED BY <1>1, <1>2

LEMMA JoinProvided ==
  ASSUME NEW S, NEW a, NEW b, Provided(a, S), Provided(b, S)
  PROVE  Provided(a \o b, S)
<1> DEFINE c == a \o b
<1>1. a \in Seq(Access) /\ b \in Seq(Access)
  BY DEF Provided
<1>2. /\ c \in Seq(Access) /\ Len(c) = Len(a) + Len(b) /\ Len(a) \in Nat /\ Len(b) \in Nat
      /\ \A i \in 1 .. Len(a) : c[i] = a[i]
      /\ \A i \in 1 .. Len(b) : c[Len(a) + i] = b[i]
  BY <1>1, JoinIs
<1> HIDE DEF c
<1>3. SUFFICES ASSUME NEW i \in 1 .. Len(c), c[i].do = "use",
                      NEW v \in Levels, NEW f \in Wanted(c[i], v)
               PROVE  f \in S /\ Given(c, i, f, v)
  BY <1>2 DEF Provided, c
<1>4. CASE i \in 1 .. Len(a)
  <2>1. c[i] = a[i] /\ i \in Nat
    BY <1>2, <1>4
  <2>2. f \in S /\ Given(a, i, f, v)
    BY <1>3, <1>4, <2>1 DEF Provided
  <2>3. PICK j \in 1 .. (i - 1) :
          Gives(a[j], f, v) /\ \A k \in (j + 1) .. (i - 1) : Spares(a[k], f)
    BY <2>2 DEF Given
  <2>4. c[j] = a[j] /\ \A k \in (j + 1) .. (i - 1) : c[k] = a[k]
    BY <1>2, <1>4, <2>1
  <2> QED BY <2>2, <2>3, <2>4 DEF Given
<1>5. CASE i \notin 1 .. Len(a)
  <2>1. PICK l \in Nat : l = Len(a)
    BY <1>2
  <2>2. PICK h \in Int : h = i - l
    BY <2>1
  <2>3. h \in 1 .. Len(b) /\ i = l + h /\ h \in Nat
    BY <1>2, <1>5, <2>1, <2>2
  <2>4. c[i] = b[h]
    BY <1>2, <2>1, <2>3
  <2>5. f \in S /\ Given(b, h, f, v)
    BY <1>3, <2>3, <2>4 DEF Provided
  <2>6. PICK j \in 1 .. (h - 1) :
          Gives(b[j], f, v) /\ \A k \in (j + 1) .. (h - 1) : Spares(b[k], f)
    BY <2>5 DEF Given
  <2>7. l + j \in 1 .. (i - 1) /\ c[l + j] = b[j]
    BY <1>2, <2>1, <2>3
  <2>8. ASSUME NEW k \in ((l + j) + 1) .. (i - 1)
        PROVE  Spares(c[k], f)
    <3>1. PICK m \in Int : m = k - l
      BY <2>1, <2>3
    <3>2. m \in (j + 1) .. (h - 1) /\ m \in 1 .. Len(b) /\ k = l + m
      BY <1>2, <2>1, <2>3, <3>1
    <3>3. c[k] = b[m]
      BY <1>2, <2>1, <3>2
    <3> QED BY <2>6, <3>2, <3>3
  <2> QED BY <2>5, <2>6, <2>7, <2>8 DEF Given
<1> QED BY <1>4, <1>5

\* A sequence without a use, and one that ends with its only one.
LEMMA NothingUsed ==
  ASSUME NEW S, NEW a \in Seq(Access), \A i \in 1 .. Len(a) : a[i].do # "use"
  PROVE  Provided(a, S)
BY DEF Provided

LEMMA UseProvided ==
  ASSUME NEW S, NEW a \in Seq(Access), \A i \in 1 .. Len(a) : a[i].do # "use",
         NEW u \in Access,
         \A v \in Levels : \A f \in Wanted(u, v) :
            /\ f \in S
            /\ \E j \in 1 .. Len(a) :
                  Gives(a[j], f, v) /\ \A k \in (j + 1) .. Len(a) : Spares(a[k], f)
  PROVE  Provided(a \o <<u>>, S)
<1> DEFINE c == a \o <<u>>
<1>1. <<u>> \in Seq(Access) /\ Len(<<u>>) = 1 /\ <<u>>[1] = u
  OBVIOUS
<1>2. /\ c \in Seq(Access) /\ Len(c) = Len(a) + 1 /\ Len(a) \in Nat
      /\ \A i \in 1 .. Len(a) : c[i] = a[i]
      /\ \A i \in 1 .. 1 : c[Len(a) + i] = <<u>>[i]
  <2>1. PICK b \in Seq(Access) : b = <<u>>
    BY <1>1
  <2>2. /\ a \o b \in Seq(Access) /\ Len(a \o b) = Len(a) + Len(b)
        /\ Len(a) \in Nat /\ Len(b) \in Nat
        /\ \A i \in 1 .. Len(a) : (a \o b)[i] = a[i]
        /\ \A i \in 1 .. Len(b) : (a \o b)[Len(a) + i] = b[i]
    <3>1. a \in Seq(Access) /\ b \in Seq(Access)
      BY <2>1
    <3> QED BY <3>1, JoinIs
  <2> QED BY <1>1, <2>1, <2>2
<1> HIDE DEF c
<1>3. c[Len(a) + 1] = u
  BY <1>1, <1>2
<1>4. SUFFICES ASSUME NEW i \in 1 .. Len(c), c[i].do = "use",
                      NEW v \in Levels, NEW f \in Wanted(c[i], v)
               PROVE  f \in S /\ Given(c, i, f, v)
  BY <1>2 DEF Provided, c
<1>5. i = Len(a) + 1 /\ i - 1 = Len(a)
  <2>1. i \notin 1 .. Len(a)
    BY <1>2, <1>4
  <2> QED BY <1>2, <2>1
<1>6. f \in S /\ \E j \in 1 .. Len(a) :
         Gives(a[j], f, v) /\ \A k \in (j + 1) .. Len(a) : Spares(a[k], f)
  BY <1>3, <1>4, <1>5
<1>7. PICK j \in 1 .. (i - 1) :
         Gives(a[j], f, v) /\ \A k \in (j + 1) .. (i - 1) : Spares(a[k], f)
  BY <1>5, <1>6
<1>8. c[j] = a[j] /\ \A k \in (j + 1) .. (i - 1) : c[k] = a[k]
  BY <1>2, <1>5
<1> QED BY <1>6, <1>7, <1>8 DEF Given

-----------------------------------------------------------------------------
(* The calls. *)

Modes == {"ENABLE_ALL_SEQ", "FORCE_SYS_XTI", "FORCE_SYS_PLL", "READ_ACC_ON", "READ_ACC_OFF",
          "FORCE_TX_PLL", "FORCE_LDE"}

LEMMA PartsAreFlags ==
  /\ Byte0 \in SUBSET Flag /\ Byte1 \in SUBSET Flag
  /\ Ctrl0 \in SUBSET Flag /\ Ctrl1 \in SUBSET Flag
  /\ Ctrl1Low \in SUBSET Flag /\ RfConf \in SUBSET Flag
BY DEF Flag, Ctrl0, Ctrl1

LEMMA ForcedAreFlags ==
  ASSUME NEW mode \in Modes
  PROVE  Forced(mode).add \in SUBSET Flag /\ Forced(mode).drop \in SUBSET Flag
<1> DEFINE f == Forced(mode)
<1> USE DEF Flag, Ctrl0, Byte0, Byte1, Sys, Rx, Tx
<1>1. CASE mode = "ENABLE_ALL_SEQ"
  BY <1>1 DEF Forced
<1>2. CASE mode = "FORCE_SYS_XTI"
  BY <1>2 DEF Forced
<1>3. CASE mode = "FORCE_SYS_PLL"
  BY <1>3 DEF Forced
<1>4. CASE mode = "READ_ACC_ON"
  BY <1>4 DEF Forced
<1>5. CASE mode = "READ_ACC_OFF"
  BY <1>5 DEF Forced
<1>6. CASE mode = "FORCE_TX_PLL"
  BY <1>6 DEF Forced
<1>7. CASE mode = "FORCE_LDE"
  BY <1>7 DEF Forced
<1> QED BY <1>1, <1>2, <1>3, <1>4, <1>5, <1>6, <1>7 DEF Modes

LEMMA AccessesAre ==
  ASSUME NEW part \in SUBSET Flag, NEW add \in SUBSET Flag, NEW drop \in SUBSET Flag
  PROVE  /\ Read(part) \in Access /\ PmscPut(part, add, drop) \in Access
         /\ PmscWrite(part, add) \in Access
         /\ Save(part) \in Access /\ Restore(part) \in Access /\ Reset \in Access
BY DEF Access, Read, PmscPut, PmscWrite, Save, Restore, Reset

LEMMA EnableIs ==
  ASSUME NEW mode \in Modes
  PROVE  LET e == EnableClocks(mode)
             f == Forced(mode)
         IN  /\ e \in Seq(Access) /\ Len(e) = 3
             /\ e[1] = Read(Byte0 \cup Byte1)
             /\ e[2] = PmscPut(Byte0, f.add \cap Byte0, f.drop)
             /\ e[3] = PmscPut(Byte1, f.add \cap Byte1, f.drop)
<1> DEFINE f == Forced(mode)
           r == Read(Byte0 \cup Byte1)
           p == PmscPut(Byte0, f.add \cap Byte0, f.drop)
           q == PmscPut(Byte1, f.add \cap Byte1, f.drop)
<1>1. EnableClocks(mode) = <<r, p, q>>
  BY DEF EnableClocks
<1>2. r \in Access /\ p \in Access /\ q \in Access
  <2>1. /\ f.add \cap Byte0 \in SUBSET Flag /\ f.add \cap Byte1 \in SUBSET Flag
        /\ f.drop \in SUBSET Flag /\ Byte0 \cup Byte1 \in SUBSET Flag
    BY ForcedAreFlags, PartsAreFlags
  <2> QED BY <2>1, PartsAreFlags, AccessesAre
<1> HIDE DEF f, r, p, q
<1>3. <<r, p, q>> \in Seq(Access) /\ Len(<<r, p, q>>) = 3
      /\ <<r, p, q>>[1] = r /\ <<r, p, q>>[2] = p /\ <<r, p, q>>[3] = q
  BY <1>2
<1> QED BY <1>1, <1>3 DEF f, r, p, q

LEMMA EnableUsesNothing ==
  ASSUME NEW S, NEW mode \in Modes
  PROVE  Provided(EnableClocks(mode), S)
<1> DEFINE e == EnableClocks(mode)
           add == Forced(mode).add
           drop == Forced(mode).drop
<1>1. /\ e \in Seq(Access) /\ Len(e) = 3
      /\ e[1] = Read(Byte0 \cup Byte1)
      /\ e[2] = PmscPut(Byte0, add \cap Byte0, drop)
      /\ e[3] = PmscPut(Byte1, add \cap Byte1, drop)
  BY EnableIs
<1> HIDE DEF e, add, drop
<1>2. e[1].do = "read" /\ e[2].do = "put" /\ e[3].do = "put"
  BY <1>1 DEF Read, PmscPut
<1>3. Provided(e, S)
  BY <1>1, <1>2, NothingUsed
<1> QED BY <1>3 DEF e

\* What a mode switches, and a use may want after it.
LEMMA UseAfterEnable ==
  ASSUME NEW mode \in Modes, NEW needs \in SUBSET Flag, NEW not \in SUBSET Flag,
         needs \subseteq Forced(mode).add \cap (Byte0 \cup Byte1),
         not \subseteq Forced(mode).drop \cap Byte0,
         not \cap Forced(mode).add = {}
  PROVE  Provided(EnableClocks(mode) \o Use(needs, not), needs \cup not)
<1> DEFINE a == EnableClocks(mode)
           u == [do |-> "use", part |-> {}, add |-> needs, drop |-> not]
           add == Forced(mode).add
           drop == Forced(mode).drop
<1>0. Byte0 \cap Byte1 = {}
  BY DEF Byte0, Byte1, Sys, Rx, Tx
<1>1. /\ a \in Seq(Access) /\ Len(a) = 3
      /\ a[1] = Read(Byte0 \cup Byte1)
      /\ a[2] = PmscPut(Byte0, add \cap Byte0, drop)
      /\ a[3] = PmscPut(Byte1, add \cap Byte1, drop)
  BY EnableIs
<1>2. u \in Access
  BY DEF Access
<1>3. Use(needs, not) = <<u>>
  BY DEF Use
<1> HIDE DEF a, add, drop
<1>4. \A i \in 1 .. Len(a) : a[i].do # "use"
  <2>1. a[1].do = "read" /\ a[2].do = "put" /\ a[3].do = "put"
    BY <1>1 DEF Read, PmscPut
  <2> QED BY <1>1, <2>1
<1>5. ASSUME NEW v \in Levels, NEW f \in Wanted(u, v)
      PROVE  /\ f \in needs \cup not
             /\ \E j \in 1 .. Len(a) :
                   Gives(a[j], f, v) /\ \A k \in (j + 1) .. Len(a) : Spares(a[k], f)
  <2>1. \/ v = "on" /\ f \in needs
        \/ v # "on" /\ f \in not
    BY <1>5 DEF Wanted, Levels
  <2>2. CASE f \in Byte0
    <3>1. Gives(a[2], f, v)
      BY <1>1, <2>1, <2>2 DEF Gives, PmscPut, add, drop
    <3>2. Spares(a[3], f)
      BY <1>0, <1>1, <2>2 DEF Spares, PmscPut
    <3>3. 2 \in 1 .. Len(a) /\ \A k \in (2 + 1) .. Len(a) : k = 3
      BY <1>1
    <3> QED BY <2>1, <3>1, <3>2, <3>3
  <2>3. CASE f \notin Byte0
    <3>1. v = "on" /\ f \in needs /\ f \in add \cap Byte1
      BY <2>1, <2>3 DEF add
    <3>2. Gives(a[3], f, v)
      BY <1>1, <3>1 DEF Gives, PmscPut
    <3>3. 3 \in 1 .. Len(a) /\ (3 + 1) .. Len(a) = {}
      BY <1>1
    <3> QED BY <2>1, <3>2, <3>3
  <2> QED BY <2>2, <2>3
<1> HIDE DEF u
<1>6. Provided(a \o <<u>>, needs \cup not)
  BY <1>1, <1>2, <1>4, <1>5, UseProvided
<1> QED BY <1>3, <1>6 DEF a

\* Accesses other than uses.
LEMMA Unused1 ==
  ASSUME NEW S, NEW a \in Access, a.do # "use"
  PROVE  Provided(<<a>>, S)
<1>1. <<a>> \in Seq(Access) /\ Len(<<a>>) = 1 /\ <<a>>[1] = a
  OBVIOUS
<1> QED BY <1>1, NothingUsed

LEMMA Unused2 ==
  ASSUME NEW S, NEW a \in Access, a.do # "use", NEW b \in Access, b.do # "use"
  PROVE  Provided(<<a, b>>, S)
<1>1. /\ <<a, b>> \in Seq(Access) /\ Len(<<a, b>>) = 2
      /\ <<a, b>>[1] = a /\ <<a, b>>[2] = b
  OBVIOUS
<1> DEFINE s == <<a, b>>
<1> HIDE DEF s
<1>2. s \in Seq(Access) /\ \A i \in 1 .. Len(s) : s[i].do # "use"
  BY <1>1 DEF s
<1>3. Provided(s, S)
  BY <1>2, NothingUsed
<1> QED BY <1>3 DEF s

LEMMA Unused3 ==
  ASSUME NEW S, NEW a \in Access, a.do # "use", NEW b \in Access, b.do # "use",
         NEW c \in Access, c.do # "use"
  PROVE  Provided(<<a, b, c>>, S)
<1>1. /\ <<a, b, c>> \in Seq(Access) /\ Len(<<a, b, c>>) = 3
      /\ <<a, b, c>>[1] = a /\ <<a, b, c>>[2] = b /\ <<a, b, c>>[3] = c
  OBVIOUS
<1> DEFINE s == <<a, b, c>>
<1> HIDE DEF s
<1>2. s \in Seq(Access) /\ \A i \in 1 .. Len(s) : s[i].do # "use"
  BY <1>1 DEF s
<1>3. Provided(s, S)
  BY <1>2, NothingUsed
<1> QED BY <1>3 DEF s

LEMMA NotUses ==
  ASSUME NEW part, NEW add, NEW drop
  PROVE  /\ Read(part).do # "use" /\ PmscPut(part, add, drop).do # "use"
         /\ PmscWrite(part, add).do # "use"
         /\ Save(part).do # "use" /\ Restore(part).do # "use" /\ Reset.do # "use"
BY DEF Read, PmscPut, PmscWrite, Save, Restore, Reset

\* A change of the flags of S is provided for when S grows.
LEMMA MoreRelied ==
  ASSUME NEW S, NEW T, S \subseteq T, NEW a, Provided(a, S)
  PROVE  Provided(a, T)
BY DEF Provided

LEMMA ChangeUsesNothing ==
  ASSUME NEW S, NEW part \in SUBSET Flag, NEW add \in SUBSET Flag, NEW drop \in SUBSET Flag
  PROVE  Provided(PmscChange(part, add, drop), S)
<1>1. Read(part) \in Access /\ PmscPut(part, add, drop) \in Access
  BY AccessesAre
<1>2. Read(part).do # "use" /\ PmscPut(part, add, drop).do # "use"
  BY NotUses
<1>3. PICK a, b : a = Read(part) /\ b = PmscPut(part, add, drop)
  OBVIOUS
<1>4. Provided(<<a, b>>, S)
  BY <1>1, <1>2, <1>3, Unused2
<1> QED BY <1>3, <1>4 DEF PmscChange

LEMMA WriteUsesNothing ==
  ASSUME NEW S, NEW part \in SUBSET Flag, NEW add \in SUBSET Flag
  PROVE  Provided(<<PmscWrite(part, add)>>, S)
<1>1. PmscWrite(part, add) \in Access
  BY AccessesAre
<1>2. PmscWrite(part, add).do # "use"
  BY NotUses
<1> QED BY <1>1, <1>2, Unused1

AccClocks == {"RX_PLL", "FACE", "AMCE"}
OtherFlags == {"SYS_XTI", "SYS_PLL", "TX_PLL", "LDECE", "OTPCE", "RF_CAL", "PKTSEQ"}

Relied(call) == IF call = "readaccdata" THEN AccClocks ELSE OtherFlags

LEMMA XtiProvided ==
  Provided(EnableClocks("FORCE_SYS_XTI") \o Use({"SYS_XTI"}, {}), OtherFlags)
<1> DEFINE needs == {"SYS_XTI"}
           not == {}
<1>1. /\ "FORCE_SYS_XTI" \in Modes
      /\ needs \in SUBSET Flag /\ not \in SUBSET Flag
      /\ needs \subseteq Forced("FORCE_SYS_XTI").add \cap (Byte0 \cup Byte1)
      /\ not \subseteq Forced("FORCE_SYS_XTI").drop \cap Byte0
      /\ not \cap Forced("FORCE_SYS_XTI").add = {}
      /\ needs \cup not \subseteq OtherFlags
  BY DEF Modes, Flag, OtherFlags, Forced, Ctrl0, Byte0, Byte1, Sys
<1> HIDE DEF needs, not
<1>2. Provided(EnableClocks("FORCE_SYS_XTI") \o Use(needs, not), needs \cup not)
  BY <1>1, UseAfterEnable
<1>3. Provided(EnableClocks("FORCE_SYS_XTI") \o Use(needs, not), OtherFlags)
  BY <1>1, <1>2, MoreRelied
<1> QED BY <1>3 DEF needs, not

LEMMA AccProvided ==
  Provided(EnableClocks("READ_ACC_ON") \o Use({"RX_PLL", "FACE", "AMCE"}, {}), AccClocks)
<1> DEFINE needs == {"RX_PLL", "FACE", "AMCE"}
           not == {}
<1>1. /\ "READ_ACC_ON" \in Modes
      /\ needs \in SUBSET Flag /\ not \in SUBSET Flag
      /\ needs \subseteq Forced("READ_ACC_ON").add \cap (Byte0 \cup Byte1)
      /\ not \subseteq Forced("READ_ACC_ON").drop \cap Byte0
      /\ not \cap Forced("READ_ACC_ON").add = {}
      /\ needs \cup not \subseteq AccClocks
  BY DEF Modes, Flag, AccClocks, Forced, Ctrl0, Byte0, Byte1, Rx
<1> HIDE DEF needs, not
<1>2. Provided(EnableClocks("READ_ACC_ON") \o Use(needs, not), needs \cup not)
  BY <1>1, UseAfterEnable
<1>3. Provided(EnableClocks("READ_ACC_ON") \o Use(needs, not), AccClocks)
  BY <1>1, <1>2, MoreRelied
<1> QED BY <1>3 DEF needs, not

LEMMA LdeProvided ==
  Provided(EnableClocks("FORCE_LDE")
             \o Use({"SYS_XTI", "LDECE", "OTPCE"}, {"SYS_PLL"}), OtherFlags)
<1> DEFINE needs == {"SYS_XTI", "LDECE", "OTPCE"}
           not == {"SYS_PLL"}
<1>1. /\ "FORCE_LDE" \in Modes
      /\ needs \in SUBSET Flag /\ not \in SUBSET Flag
      /\ needs \subseteq Forced("FORCE_LDE").add \cap (Byte0 \cup Byte1)
      /\ not \subseteq Forced("FORCE_LDE").drop \cap Byte0
      /\ not \cap Forced("FORCE_LDE").add = {}
      /\ needs \cup not \subseteq OtherFlags
  BY DEF Modes, Flag, OtherFlags, Forced, Ctrl0, Byte0, Byte1, Sys
<1> HIDE DEF needs, not
<1>2. Provided(EnableClocks("FORCE_LDE") \o Use(needs, not), needs \cup not)
  BY <1>1, UseAfterEnable
<1>3. Provided(EnableClocks("FORCE_LDE") \o Use(needs, not), OtherFlags)
  BY <1>1, <1>2, MoreRelied
<1> QED BY <1>3 DEF needs, not

\* A calibration switches with plain writes; the crystal's clock is replaced by
\* the PLLs in the last of them.
LEMMA CalibrateProvided == Provided(Calibrate, OtherFlags)
<1> DEFINE a1 == Save(Byte0 \cup Ctrl1Low \cup RfConf)
           a2 == PmscWrite(Byte0, {"SYS_XTI"})
           a3 == PmscWrite(Ctrl1Low, {})
           a4 == PmscWrite(RfConf, {"RF_CAL"})
           a5 == PmscWrite(Byte0, {"SYS_PLL", "TX_PLL"})
           u == [do |-> "use", part |-> {}, add |-> {"SYS_PLL", "TX_PLL", "RF_CAL"},
                 drop |-> {"PKTSEQ"}]
           b1 == Restore(Byte0)
           b2 == Restore(Ctrl1Low)
           b3 == Restore(RfConf)
<1>1. Calibrate = (<<a1, a2, a3, a4, a5>> \o <<u>>) \o <<b1, b2, b3>>
  BY DEF Calibrate, Use
<1>2. /\ a1 \in Access /\ a2 \in Access /\ a3 \in Access /\ a4 \in Access /\ a5 \in Access
      /\ u \in Access
  <2>1. /\ {"SYS_XTI"} \in SUBSET Flag /\ {} \in SUBSET Flag /\ {"RF_CAL"} \in SUBSET Flag
        /\ {"SYS_PLL", "TX_PLL"} \in SUBSET Flag
        /\ {"SYS_PLL", "TX_PLL", "RF_CAL"} \in SUBSET Flag /\ {"PKTSEQ"} \in SUBSET Flag
    BY DEF Flag, Ctrl0, Byte0, Sys, Tx, Ctrl1, Ctrl1Low,
           RfConf
  <2>2. Byte0 \cup Ctrl1Low \cup RfConf \in SUBSET Flag
    BY PartsAreFlags
  <2>3. u \in Access
    BY <2>1 DEF Access
  <2> QED BY <2>1, <2>2, <2>3, PartsAreFlags, AccessesAre
<1>3. /\ b1 \in Access /\ b2 \in Access /\ b3 \in Access
      /\ b1.do # "use" /\ b2.do # "use" /\ b3.do # "use"
  BY PartsAreFlags, AccessesAre, NotUses
<1>4. /\ a1.do = "save" /\ a2.do = "put" /\ a3.do = "put" /\ a4.do = "put" /\ a5.do = "put"
      /\ a5.part = Byte0 /\ a5.add = {"SYS_PLL", "TX_PLL"}
      /\ a4.part = RfConf /\ a4.add = {"RF_CAL"}
      /\ a3.part = Ctrl1Low /\ a3.add = {} /\ a3.drop = Ctrl1Low
  BY DEF Save, PmscWrite, PmscPut
<1>5. Provided(<<b1, b2, b3>>, OtherFlags)
  BY <1>3, Unused3
<1>6. Provided(<<a1, a2, a3, a4, a5>> \o <<u>>, OtherFlags)
  <2> DEFINE a == <<a1, a2, a3, a4, a5>>
  <2> HIDE DEF a1, a2, a3, a4, a5
  <2>1. /\ a \in Seq(Access) /\ Len(a) = 5
        /\ a[1] = a1 /\ a[2] = a2 /\ a[3] = a3 /\ a[4] = a4 /\ a[5] = a5
    BY <1>2
  <2> HIDE DEF a
  <2>2. \A i \in 1 .. Len(a) : a[i].do # "use"
    BY <1>4, <2>1
  <2>3. ASSUME NEW v \in Levels, NEW f \in Wanted(u, v)
        PROVE  /\ f \in OtherFlags
               /\ \E j \in 1 .. Len(a) :
                     Gives(a[j], f, v) /\ \A k \in (j + 1) .. Len(a) : Spares(a[k], f)
    <3>1. \/ v = "on" /\ f \in {"SYS_PLL", "TX_PLL"}
          \/ v = "on" /\ f = "RF_CAL"
          \/ v # "on" /\ f = "PKTSEQ"
      BY <2>3 DEF Wanted, Levels
    <3>2. CASE v = "on" /\ f \in {"SYS_PLL", "TX_PLL"}
      <4>1. Gives(a[5], f, v)
        BY <1>4, <2>1, <3>2 DEF Gives
      <4>2. 5 \in 1 .. Len(a) /\ (5 + 1) .. Len(a) = {}
        BY <2>1
      <4>3. f \in OtherFlags
        BY <3>2 DEF OtherFlags
      <4> QED BY <4>1, <4>2, <4>3
    <3>3. CASE v = "on" /\ f = "RF_CAL"
      <4>1. Gives(a[4], f, v)
        BY <1>4, <2>1, <3>3 DEF Gives
      <4>2. 4 \in 1 .. Len(a) /\ \A k \in (4 + 1) .. Len(a) : k = 5
        BY <2>1
      <4>3. f \in OtherFlags /\ f \notin Byte0 /\ f \notin {"SYS_PLL", "TX_PLL"}
        BY <3>3 DEF OtherFlags, Byte0, Sys, Rx, Tx
      <4>4. Spares(a[5], f)
        BY <1>4, <2>1, <4>3 DEF Spares
      <4> QED BY <4>1, <4>2, <4>3, <4>4
    <3>4. CASE v # "on" /\ f = "PKTSEQ"
      <4>1. f \in Ctrl1Low
        BY <3>4 DEF Ctrl1Low
      <4>2. Gives(a[3], f, v)
        BY <1>4, <2>1, <3>4, <4>1 DEF Gives
      <4>3. 3 \in 1 .. Len(a) /\ \A k \in (3 + 1) .. Len(a) : k \in {4, 5}
        BY <2>1
      <4>4. /\ f \in OtherFlags /\ f \notin Byte0 /\ f \notin {"SYS_PLL", "TX_PLL"}
            /\ f \notin RfConf /\ f \notin {"RF_CAL"}
        BY <3>4 DEF OtherFlags, Byte0, Sys, Rx, Tx, RfConf
      <4>5. Spares(a[4], f) /\ Spares(a[5], f)
        BY <1>4, <2>1, <4>4 DEF Spares
      <4> QED BY <4>2, <4>3, <4>4, <4>5
    <3> QED BY <3>1, <3>2, <3>3, <3>4
  <2> HIDE DEF u
  <2>4. Provided(a \o <<u>>, OtherFlags)
    BY <1>2, <2>1, <2>2, <2>3, UseProvided
  <2> QED BY <2>4 DEF a
<1> HIDE DEF a1, a2, a3, a4, a5, u, b1, b2, b3
<1> QED BY <1>1, <1>5, <1>6, JoinProvided

LEMMA SetFlagProvided ==
  ASSUME NEW S, NEW name \in DOMAIN FlagOf, NEW on \in BOOLEAN
  PROVE  Provided(SetFlag(name, on), S)
<1>1. PICK part : part = IF FlagOf[name] \in Ctrl0 THEN Ctrl0 ELSE Ctrl1
  OBVIOUS
<1>2. FlagOf[name] \in Flag
  BY DEF FlagOf, Flag, Ctrl0, Ctrl1, Ctrl1Low
<1>3. PICK f \in Flag : f = FlagOf[name]
  BY <1>2
<1>4. part \in SUBSET Flag /\ {f} \in SUBSET Flag /\ {} \in SUBSET Flag
  BY <1>1, PartsAreFlags
<1>5. Provided(PmscChange(part, {f}, {}), S) /\ Provided(PmscChange(part, {}, {f}), S)
  BY <1>4, ChangeUsesNothing
<1>6. Provided(<<>>, S)
  BY DEF Provided
<1>7. CASE on
  BY <1>1, <1>3, <1>5, <1>7 DEF SetFlag
<1>8. CASE ~on /\ name # "leds"
  BY <1>1, <1>3, <1>5, <1>8 DEF SetFlag
<1>9. CASE ~on /\ name = "leds"
  BY <1>6, <1>9 DEF SetFlag
<1> QED BY <1>7, <1>8, <1>9

\* What a wake-up reads as it finds the clocks wants nothing of them.
LEMMA WokenProvided == ASSUME NEW S PROVE Provided(UseAsWoken({"SYS_XTI"}), S)
<1> DEFINE u == [do |-> "woken", part |-> {}, add |-> {"SYS_XTI"}, drop |-> {}]
<1>1. u \in Access /\ u.do # "use"
  <2>1. {"SYS_XTI"} \in SUBSET Flag
    BY DEF Flag, Ctrl0, Byte0, Sys
  <2> QED BY <2>1 DEF Access
<1>2. UseAsWoken({"SYS_XTI"}) = <<u>>
  BY DEF UseAsWoken
<1> HIDE DEF u
<1> QED BY <1>1, <1>2, Unused1

LEMMA RxResetProvided == ASSUME NEW S PROVE Provided(PmscRxReset, S)
<1>1. PICK w : w = PmscWrite({"PLL2_SEQ_EN"}, {})
  OBVIOUS
<1>2. {"PLL2_SEQ_EN"} \in SUBSET Flag /\ {} \in SUBSET Flag
  BY DEF Flag, Ctrl0
<1>3. w \in Access /\ w.do # "use"
  BY <1>1, <1>2, AccessesAre, NotUses
<1>4. Provided(<<w, w>>, S)
  BY <1>3, Unused2
<1> QED BY <1>1, <1>4 DEF PmscRxReset

LEMMA ResetProvided == ASSUME NEW S PROVE Provided(PmscSoftReset, S)
<1>1. Provided(EnableClocks("FORCE_SYS_XTI"), S)
  BY EnableUsesNothing DEF Modes
<1>2. Provided(<<PmscWrite(Ctrl1Low, {})>>, S)
  BY PartsAreFlags, WriteUsesNothing
<1>3. Provided(<<Reset>>, S)
  BY AccessesAre, NotUses, Unused1
<1>4. Provided(DisableSequencing, S)
  BY <1>1, <1>2, JoinProvided DEF DisableSequencing
<1> QED BY <1>3, <1>4, JoinProvided DEF PmscSoftReset

\* Every call switches the clocks its uses want, itself and before them.
LEMMA StepsProvided ==
  ASSUME NEW op \in KnownCalls
  PROVE  Provided(Steps(op), Relied(op.call))
<1> DEFINE O == OtherFlags
<1>1. /\ Provided(EnableClocks("FORCE_SYS_XTI"), O)
      /\ Provided(EnableClocks("ENABLE_ALL_SEQ"), O)
      /\ Provided(EnableClocks("FORCE_SYS_PLL"), O)
      /\ Provided(EnableClocks("FORCE_TX_PLL"), O)
      /\ Provided(EnableClocks("READ_ACC_OFF"), AccClocks)
  <2>1. /\ "FORCE_SYS_XTI" \in Modes /\ "ENABLE_ALL_SEQ" \in Modes
        /\ "FORCE_SYS_PLL" \in Modes /\ "FORCE_TX_PLL" \in Modes /\ "READ_ACC_OFF" \in Modes
    BY DEF Modes
  <2> QED BY <2>1, EnableUsesNothing
<1>2. Provided(PmscOtpRead, O)
  BY <1>1, XtiProvided, JoinProvided DEF PmscOtpRead, OtpWord
<1>3. Provided(PmscOtpWriteAndVerify, O)
  BY XtiProvided DEF PmscOtpWriteAndVerify, OtpWord
<1>4. Provided(ReadAccData, AccClocks)
  BY <1>1, AccProvided, JoinProvided DEF ReadAccData
<1>5. Provided(LoadFromRom, O)
  BY <1>1, LdeProvided, JoinProvided DEF LoadFromRom
<1>6. Provided(ReadAtXti, O)
  BY <1>1, XtiProvided, JoinProvided DEF ReadAtXti
<1>7. /\ {"RF_TX"} \in SUBSET Flag /\ {"SYS_PLL", "TX_PLL"} \in SUBSET Flag
      /\ {"LDECE", "OTPCE", "ADCCE"} \in SUBSET Flag /\ {} \in SUBSET Flag
      /\ {"LDERUNE"} \in SUBSET Flag
  BY DEF Flag, Ctrl0, Byte0, Byte1, Sys, Tx, Ctrl1, RfConf
<1>8. Provided(DisableSequencing, O)
  <2>1. Provided(<<PmscWrite(Ctrl1Low, {})>>, O)
    BY <1>7, PartsAreFlags, WriteUsesNothing
  <2> QED BY <1>1, <2>1, JoinProvided DEF DisableSequencing
<1>9. Provided(ConfigCwMode, O)
  <2>1. PICK x, y, z :
          /\ x = PmscWrite(RfConf, {"RF_TX"})
          /\ y = PmscWrite(Byte0, {"SYS_PLL", "TX_PLL"})
          /\ z = PmscWrite(Byte1, {"LDECE", "OTPCE", "ADCCE"})
    OBVIOUS
  <2>2. x \in Access /\ y \in Access /\ z \in Access
    BY <1>7, <2>1, PartsAreFlags, AccessesAre
  <2>3. x.do # "use" /\ y.do # "use" /\ z.do # "use"
    BY <2>1, NotUses
  <2>4. Provided(<<x, y, z>>, O)
    BY <2>2, <2>3, Unused3
  <2> QED BY <1>8, <2>1, <2>4, JoinProvided DEF ConfigCwMode
<1>10. Provided(ConfigContinuousFrameMode, O)
  <2>1. Provided(<<PmscWrite(RfConf, {"RF_TX"})>>, O)
    BY <1>7, PartsAreFlags, WriteUsesNothing
  <2>2. Provided(DisableSequencing \o <<PmscWrite(RfConf, {"RF_TX"})>>, O)
    BY <1>8, <2>1, JoinProvided
  <2>3. Provided((DisableSequencing \o <<PmscWrite(RfConf, {"RF_TX"})>>)
                   \o EnableClocks("FORCE_SYS_PLL"), O)
    BY <1>1, <2>2, JoinProvided
  <2> QED BY <1>1, <2>3, JoinProvided DEF ConfigContinuousFrameMode
<1>11. ASSUME NEW ucode \in BOOLEAN
       PROVE  Provided(PmscInitialise(ucode), O)
  <2>1. PICK tail : tail = IF ucode THEN LoadFromRom
                           ELSE PmscChange(Ctrl1, {}, {"LDERUNE"})
    OBVIOUS
  <2>2. Provided(tail, O)
    <3>1. Provided(PmscChange(Ctrl1, {}, {"LDERUNE"}), O)
      BY <1>7, PartsAreFlags, ChangeUsesNothing
    <3> QED BY <1>5, <2>1, <3>1
  <2>3. PICK a, b, c, d : /\ a = PmscSoftReset /\ b = EnableClocks("FORCE_SYS_XTI")
                          /\ c = OtpWord /\ d = EnableClocks("ENABLE_ALL_SEQ")
    OBVIOUS
  <2>4. /\ Provided(a, O) /\ Provided(b, O) /\ Provided(b \o c, O) /\ Provided(d, O)
        /\ c \in Seq(Access)
    <3>1. Provided(a, O)
      BY <2>3, ResetProvided
    <3>2. c \in Seq(Access)
      <4>1. {"SYS_XTI"} \in SUBSET Flag
        BY DEF Flag, Ctrl0, Byte0, Sys
      <4>2. [do |-> "use", part |-> {}, add |-> {"SYS_XTI"}, drop |-> {}] \in Access
        BY <4>1 DEF Access
      <4> QED BY <2>3, <4>2 DEF OtpWord, Use
    <3> QED BY <1>1, <2>3, <3>1, <3>2, XtiProvided DEF OtpWord
  <2>5. (a \o b) \o c = a \o (b \o c)
    <3>1. a \in Seq(Access) /\ b \in Seq(Access) /\ c \in Seq(Access)
      BY <2>4 DEF Provided
    <3> QED BY <3>1, ConcatAssociative
  <2>6. Provided(a \o (b \o c), O)
    BY <2>4, JoinProvided
  <2>7. Provided(((a \o b) \o c) \o tail, O)
    BY <2>2, <2>5, <2>6, JoinProvided
  <2>8. Provided((((a \o b) \o c) \o tail) \o d, O)
    BY <2>4, <2>7, JoinProvided
  <2> QED BY <2>1, <2>3, <2>8 DEF PmscInitialise
<1>12. ASSUME NEW reads \in BOOLEAN
       PROVE  Provided(PmscResume(reads), O)
  <2>1. PICK a, b : /\ a = IF reads THEN UseAsWoken({"SYS_XTI"}) ELSE EnableClocks("FORCE_SYS_XTI")
                    /\ b = EnableClocks("ENABLE_ALL_SEQ")
    OBVIOUS
  <2>2. Provided(a, O) /\ Provided(b, O)
    BY <1>1, <2>1, WokenProvided
  <2>3. Provided(a \o b, O)
    BY <2>2, JoinProvided
  <2> QED BY <2>1, <2>3 DEF PmscResume
<1> HIDE DEF O
<1>13. op.call \in CallNames /\ op.on \in BOOLEAN
  BY DEF KnownCalls
<1>14. CASE op.call \in DOMAIN FlagOf
  <2>1. Steps(op) = SetFlag(op.call, op.on)
    BY <1>14 DEF Steps, FlagOf
  <2> QED BY <1>13, <1>14, <2>1, SetFlagProvided
<1>15. CASE op.call = "readaccdata"
  BY <1>4, <1>15 DEF Steps, Relied
<1>16. CASE op.call \in CallNames \ ({"readaccdata"} \cup DOMAIN FlagOf)
  <2>1. Relied(op.call) = O
    BY <1>16 DEF Relied, O
  <2>2. op.call \in {"otpread", "otpwriteandverify", "loadopsettab", "readtempvbat", "softreset",
                     "rxreset", "calibrate", "cw", "frames", "initialise", "resume"}
    BY <1>16 DEF CallNames, FlagOf
  <2>3. Provided(Calibrate, O) /\ Provided(PmscSoftReset, O) /\ Provided(PmscRxReset, O)
    BY CalibrateProvided, ResetProvided, RxResetProvided DEF O
  <2>4. Provided(Steps(op), O)
    <3>1. CASE op.call \in {"otpread", "otpwriteandverify", "loadopsettab", "readtempvbat"}
      BY <1>2, <1>3, <1>5, <1>6, <3>1 DEF Steps
    <3>2. CASE op.call \in {"softreset", "rxreset", "calibrate", "cw", "frames"}
      BY <1>9, <1>10, <2>3, <3>2 DEF Steps
    <3>3. CASE op.call \in {"initialise", "resume"}
      BY <1>11, <1>12, <1>13, <3>3 DEF Steps
    <3> QED BY <2>2, <3>1, <3>2, <3>3
  <2> QED BY <2>1, <2>4
<1> QED BY <1>13, <1>14, <1>15, <1>16

-----------------------------------------------------------------------------
(* What a callback leaves as it was. *)

\* The flags the interrupt routine and its callbacks may change for another call;
\* they put the first three back.
Private(calls) ==
  (IF "readaccdata" \in calls THEN AccClocks ELSE {})
    \cup (IF "listen" \in calls THEN {"ARXSLP"} ELSE {})
    \cup (IF "rxreset" \in calls THEN {"PLL2_SEQ_EN"} ELSE {})

\* Every write is one of flags of P, or puts back, but for those, what a read
\* before it has read of R.
Transparent(seq, P, R) ==
  /\ seq \in Seq(Access)
  /\ \A i \in 1 .. Len(seq) :
       /\ seq[i].do \in {"read", "put", "use"}
       /\ seq[i].do = "read" => seq[i].part = R
       /\ seq[i].do = "put" =>
            /\ seq[i].add \subseteq P /\ seq[i].drop \subseteq P
            /\ \/ seq[i].part \subseteq P
               \/ seq[i].part \subseteq R /\ \E j \in 1 .. (i - 1) : seq[j].do = "read"

\* The same of what is left of a call that has read t.
StillTransparent(seq, P, R, t, r) ==
  /\ seq \in Seq(Access)
  /\ \A i \in 1 .. Len(seq) :
       /\ seq[i].do \in {"read", "put", "use"}
       /\ seq[i].do = "read" => seq[i].part = R
       /\ seq[i].do = "put" =>
            /\ seq[i].add \subseteq P /\ seq[i].drop \subseteq P
            /\ \/ seq[i].part \subseteq P
               \/ seq[i].part \subseteq R /\ \E j \in 1 .. (i - 1) : seq[j].do = "read"
               \/ seq[i].part \subseteq R /\ (R \cap t) \ P = (R \cap r) \ P

LEMMA JoinTransparent ==
  ASSUME NEW P, NEW R, NEW a, NEW b, Transparent(a, P, R), Transparent(b, P, R)
  PROVE  Transparent(a \o b, P, R)
<1> DEFINE c == a \o b
<1>1. a \in Seq(Access) /\ b \in Seq(Access)
  BY DEF Transparent
<1>2. /\ c \in Seq(Access) /\ Len(c) = Len(a) + Len(b) /\ Len(a) \in Nat /\ Len(b) \in Nat
      /\ \A i \in 1 .. Len(a) : c[i] = a[i]
      /\ \A i \in 1 .. Len(b) : c[Len(a) + i] = b[i]
  BY <1>1, JoinIs
<1> HIDE DEF c
<1>3. SUFFICES ASSUME NEW i \in 1 .. Len(c)
               PROVE  /\ c[i].do \in {"read", "put", "use"}
                      /\ c[i].do = "read" => c[i].part = R
                      /\ c[i].do = "put" =>
                           /\ c[i].add \subseteq P /\ c[i].drop \subseteq P
                           /\ \/ c[i].part \subseteq P
                              \/ /\ c[i].part \subseteq R
                                 /\ \E j \in 1 .. (i - 1) : c[j].do = "read"
  BY <1>2 DEF Transparent, c
<1>4. CASE i \in 1 .. Len(a)
  <2>1. c[i] = a[i] /\ \A j \in 1 .. (i - 1) : c[j] = a[j]
    BY <1>2, <1>4
  <2> QED BY <1>4, <2>1 DEF Transparent
<1>5. CASE i \notin 1 .. Len(a)
  <2>1. PICK l \in Nat : l = Len(a)
    BY <1>2
  <2>2. PICK h \in Int : h = i - l
    BY <2>1
  <2>3. h \in 1 .. Len(b) /\ i = l + h
    BY <1>2, <1>5, <2>1, <2>2
  <2>4. c[i] = b[h]
    BY <1>2, <2>1, <2>3
  <2>5. ASSUME NEW j \in 1 .. (h - 1)
        PROVE  l + j \in 1 .. (i - 1) /\ c[l + j] = b[j]
    <3>1. j \in 1 .. Len(b) /\ l + j \in 1 .. (i - 1)
      BY <1>2, <2>1, <2>3
    <3> QED BY <1>2, <2>1, <3>1
  <2>6. /\ b[h].do \in {"read", "put", "use"}
        /\ b[h].do = "read" => b[h].part = R
        /\ b[h].do = "put" =>
             /\ b[h].add \subseteq P /\ b[h].drop \subseteq P
             /\ \/ b[h].part \subseteq P
                \/ b[h].part \subseteq R /\ \E j \in 1 .. (h - 1) : b[j].do = "read"
    BY <2>3 DEF Transparent
  <2>7. (\E j \in 1 .. (h - 1) : b[j].do = "read") => \E j \in 1 .. (i - 1) : c[j].do = "read"
    <3> SUFFICES ASSUME NEW j \in 1 .. (h - 1), b[j].do = "read"
                 PROVE  \E k \in 1 .. (i - 1) : c[k].do = "read"
      OBVIOUS
    <3>1. l + j \in 1 .. (i - 1) /\ c[l + j] = b[j]
      BY <2>5
    <3> QED BY <3>1
  <2> QED BY <2>4, <2>6, <2>7
<1> QED BY <1>4, <1>5

\* A read of R and one or two writes after it; a use.
LEMMA ReadAndWrites ==
  ASSUME NEW P, NEW R, NEW r \in Access, NEW p \in Access, NEW q \in Access,
         r.do = "read", r.part = R, p.do = "put", q.do = "put",
         p.part \subseteq R, p.add \subseteq P, p.drop \subseteq P,
         q.part \subseteq R, q.add \subseteq P, q.drop \subseteq P
  PROVE  Transparent(<<r, p>>, P, R) /\ Transparent(<<r, p, q>>, P, R)
<1> DEFINE a == <<r, p>>
           b == <<r, p, q>>
<1>1. a \in Seq(Access) /\ Len(a) = 2 /\ a[1] = r /\ a[2] = p
  OBVIOUS
<1>2. b \in Seq(Access) /\ Len(b) = 3 /\ b[1] = r /\ b[2] = p /\ b[3] = q
  OBVIOUS
<1> HIDE DEF a, b
<1>3. Transparent(a, P, R)
  <2> SUFFICES ASSUME NEW i \in 1 .. Len(a)
               PROVE  /\ a[i].do \in {"read", "put", "use"}
                      /\ a[i].do = "read" => a[i].part = R
                      /\ a[i].do = "put" =>
                           /\ a[i].add \subseteq P /\ a[i].drop \subseteq P
                           /\ \/ a[i].part \subseteq P
                              \/ /\ a[i].part \subseteq R
                                 /\ \E j \in 1 .. (i - 1) : a[j].do = "read"
    BY <1>1 DEF Transparent
  <2>1. i = 1 \/ (i = 2 /\ 1 \in 1 .. (i - 1))
    BY <1>1
  <2> QED BY <1>1, <2>1
<1>4. Transparent(b, P, R)
  <2> SUFFICES ASSUME NEW i \in 1 .. Len(b)
               PROVE  /\ b[i].do \in {"read", "put", "use"}
                      /\ b[i].do = "read" => b[i].part = R
                      /\ b[i].do = "put" =>
                           /\ b[i].add \subseteq P /\ b[i].drop \subseteq P
                           /\ \/ b[i].part \subseteq P
                              \/ /\ b[i].part \subseteq R
                                 /\ \E j \in 1 .. (i - 1) : b[j].do = "read"
    BY <1>2 DEF Transparent
  <2>1. i = 1 \/ (i = 2 /\ 1 \in 1 .. (i - 1)) \/ (i = 3 /\ 1 \in 1 .. (i - 1))
    BY <1>2
  <2> QED BY <1>2, <2>1
<1> QED BY <1>3, <1>4 DEF a, b

LEMMA UseTransparent ==
  ASSUME NEW P, NEW R, NEW u \in Access, u.do = "use"
  PROVE  Transparent(<<u>>, P, R)
<1>1. <<u>> \in Seq(Access) /\ Len(<<u>>) = 1 /\ <<u>>[1] = u
  OBVIOUS
<1> DEFINE a == <<u>>
<1> HIDE DEF a
<1>2. a \in Seq(Access) /\ \A i \in 1 .. Len(a) : a[i].do = "use"
  BY <1>1 DEF a
<1>3. Transparent(a, P, R)
  BY <1>2 DEF Transparent
<1> QED BY <1>3 DEF a

LEMMA ReadAccDataTransparent ==
  ASSUME NEW P, AccClocks \subseteq P
  PROVE  Transparent(ReadAccData, P, Byte0 \cup Byte1)
<1> DEFINE R == Byte0 \cup Byte1
           u == [do |-> "use", part |-> {}, add |-> {"RX_PLL", "FACE", "AMCE"}, drop |-> {}]
<1>1. ASSUME NEW mode \in {"READ_ACC_ON", "READ_ACC_OFF"}
      PROVE  Transparent(EnableClocks(mode), P, R)
  <2>1. PICK add \in SUBSET Flag, drop \in SUBSET Flag :
          add = Forced(mode).add /\ drop = Forced(mode).drop
    BY ForcedAreFlags DEF Modes
  <2>2. add \subseteq P /\ drop \subseteq P
    BY <2>1 DEF Forced, AccClocks, Rx
  <2>3. PICK r, p, q : /\ r = Read(Byte0 \cup Byte1)
                       /\ p = PmscPut(Byte0, add \cap Byte0, drop)
                       /\ q = PmscPut(Byte1, add \cap Byte1, drop)
    OBVIOUS
  <2>4. r \in Access /\ p \in Access /\ q \in Access
    <3>1. /\ add \cap Byte0 \in SUBSET Flag /\ add \cap Byte1 \in SUBSET Flag
          /\ Byte0 \cup Byte1 \in SUBSET Flag
      BY PartsAreFlags
    <3> QED BY <2>3, <3>1, PartsAreFlags, AccessesAre
  <2>5. /\ r.do = "read" /\ r.part = R /\ p.do = "put" /\ q.do = "put"
        /\ p.part \subseteq R /\ p.add \subseteq P /\ p.drop \subseteq P
        /\ q.part \subseteq R /\ q.add \subseteq P /\ q.drop \subseteq P
    BY <2>2, <2>3 DEF Read, PmscPut
  <2> HIDE DEF R
  <2>6. Transparent(<<r, p, q>>, P, R)
    BY <2>4, <2>5, ReadAndWrites
  <2> QED BY <2>1, <2>3, <2>6 DEF EnableClocks
<1>2. u \in Access
  <2>1. {"RX_PLL", "FACE", "AMCE"} \in SUBSET Flag
    BY DEF Flag, Ctrl0, Byte0, Byte1, Rx
  <2> QED BY <2>1 DEF Access
<1> HIDE DEF R
<1>3. Transparent(Use({"RX_PLL", "FACE", "AMCE"}, {}), P, R)
  <2>1. u.do = "use"
    OBVIOUS
  <2> HIDE DEF u
  <2>2. Transparent(<<u>>, P, R)
    BY <1>2, <2>1, UseTransparent
  <2> QED BY <2>2 DEF u, Use
<1>4. Transparent(ReadAccData, P, R)
  BY <1>1, <1>3, JoinTransparent DEF ReadAccData
<1> QED BY <1>4 DEF R

LEMMA ListenTransparent ==
  ASSUME NEW P, "ARXSLP" \in P
  PROVE  Transparent(SetFlag("listen", FALSE), P, Ctrl1)
<1>1. FlagOf["listen"] = "ARXSLP" /\ "ARXSLP" \notin Ctrl0
  BY DEF FlagOf, Ctrl0, Byte0, Byte1, Sys, Rx, Tx
<1>2. PICK r, p : r = Read(Ctrl1) /\ p = PmscPut(Ctrl1, {}, {"ARXSLP"})
  OBVIOUS
<1>3. SetFlag("listen", FALSE) = <<r, p>>
  BY <1>1, <1>2 DEF SetFlag, PmscChange
<1>4. r \in Access /\ p \in Access
  <2>1. {"ARXSLP"} \in SUBSET Flag /\ {} \in SUBSET Flag
    BY DEF Flag, Ctrl1, Ctrl1Low
  <2> QED BY <1>2, <2>1, PartsAreFlags, AccessesAre
<1>5. /\ r.do = "read" /\ r.part = Ctrl1 /\ p.do = "put"
      /\ p.part \subseteq Ctrl1 /\ p.add \subseteq P /\ p.drop \subseteq P
  BY <1>2 DEF Read, PmscPut
<1> QED BY <1>3, <1>4, <1>5, ReadAndWrites

LEMMA RxResetTransparent ==
  ASSUME NEW P, "PLL2_SEQ_EN" \in P, NEW R
  PROVE  Transparent(PmscRxReset, P, R)
<1>1. PICK w : w = PmscWrite({"PLL2_SEQ_EN"}, {})
  OBVIOUS
<1>2. w \in Access
  BY <1>1, AccessesAre DEF Flag, Ctrl0
<1>3. /\ w.do = "put" /\ w.part = {"PLL2_SEQ_EN"} /\ w.add = {} /\ w.drop = {"PLL2_SEQ_EN"}
  BY <1>1 DEF PmscWrite, PmscPut
<1>4. PICK a : a = <<w, w>>
  OBVIOUS
<1>5. a \in Seq(Access) /\ \A i \in 1 .. Len(a) : a[i] = w
  BY <1>2, <1>4
<1>6. Transparent(a, P, R)
  BY <1>3, <1>5 DEF Transparent
<1> QED BY <1>1, <1>4, <1>6 DEF PmscRxReset

-----------------------------------------------------------------------------
(* The invariant. *)

Both == {"main", "isr"}

ClockInv ==
  /\ todo \in [Both -> Seq(Access)]
  /\ tmp = [p \in Both |-> tmp[p]]
  /\ inIsr \subseteq {"readaccdata", "rxreset", "listen"}
  /\ \E S : StillProvided(todo["main"], S, reg) /\ S \cap Private(inIsr) = {}
  /\ \E S : StillProvided(todo["isr"], S, reg)
  /\ \E R : StillTransparent(todo["isr"], Private(inIsr), R, tmp["isr"], reg)

LEMMA StillFromStart ==
  ASSUME NEW a, NEW S, NEW r, Provided(a, S)
  PROVE  StillProvided(a, S, r)
BY DEF Provided, StillProvided

LEMMA StillTransparentFromStart ==
  ASSUME NEW a, NEW P, NEW R, NEW t, NEW r, Transparent(a, P, R)
  PROVE  StillTransparent(a, P, R, t, r)
BY DEF Transparent, StillTransparent

LEMMA NothingLeft ==
  ASSUME NEW S, NEW P, NEW R, NEW t, NEW r
  PROVE  StillProvided(<<>>, S, r) /\ StillTransparent(<<>>, P, R, t, r)
BY DEF StillProvided, StillTransparent

LEMMA ClockInvInit == CallsKnown /\ PmscInit => ClockInv
<1> SUFFICES ASSUME CallsKnown, PmscInit PROVE ClockInv
  OBVIOUS
<1>1. /\ todo = [p \in Both |-> <<>>] /\ tmp = [p \in Both |-> {}] /\ inIsr \in Nested
  BY DEF PmscInit, Both
<1>2. /\ todo \in [Both -> Seq(Access)] /\ todo["main"] = <<>> /\ todo["isr"] = <<>>
      /\ tmp = [p \in Both |-> tmp[p]]
  BY <1>1 DEF Both
<1>3. inIsr \subseteq {"readaccdata", "rxreset", "listen"}
  BY <1>1 DEF CallsKnown
<1>4. StillProvided(<<>>, {}, reg) /\ {} \cap Private(inIsr) = {}
  BY NothingLeft
<1>5. StillTransparent(<<>>, Private(inIsr), {}, tmp["isr"], reg)
  BY NothingLeft
<1> QED BY <1>2, <1>3, <1>4, <1>5 DEF ClockInv

LEMMA CallKeeps ==
  ASSUME ClockInv, CallsKnown, NEW op \in Ops, Call(op)
  PROVE  ClockInv'
<1> DEFINE S == Relied(op.call)
           new == Steps(op)
<1>1. op \in KnownCalls /\ op.call \in CallNames
  BY DEF CallsKnown, KnownCalls
<1>2. /\ todo["isr"] = <<>> /\ (op.call \in inIsr => op.call \in {"listen", "rxreset"})
      /\ todo' = [todo EXCEPT !["main"] = new]
      /\ UNCHANGED <<reg, inIsr, tmp>>
  BY DEF Call, PmscIdle
<1>3. Provided(new, S)
  BY <1>1, StepsProvided
<1>4. S \cap Private(inIsr) = {}
  <2>1. op.call = "readaccdata" => "readaccdata" \notin inIsr
    BY <1>2
  <2> QED BY <2>1 DEF Relied, Private, AccClocks, OtherFlags
<1> HIDE DEF S, new
<1>5. /\ todo' \in [Both -> Seq(Access)] /\ todo'["main"] = new /\ todo'["isr"] = todo["isr"]
  <2>1. new \in Seq(Access)
    BY <1>3 DEF Provided
  <2> QED BY <1>2, <2>1 DEF ClockInv, Both
<1>6. StillProvided(todo'["main"], S, reg') /\ S \cap Private(inIsr') = {}
  BY <1>2, <1>3, <1>4, <1>5, StillFromStart
<1>7. \E T : StillProvided(todo'["isr"], T, reg')
  BY <1>2, <1>5 DEF ClockInv
<1>8. \E R : StillTransparent(todo'["isr"], Private(inIsr'), R, tmp'["isr"], reg')
  BY <1>2, <1>5 DEF ClockInv
<1>9. tmp' = [p \in Both |-> tmp'[p]] /\ inIsr' \subseteq {"readaccdata", "rxreset", "listen"}
  BY <1>2 DEF ClockInv
<1> QED BY <1>5, <1>6, <1>7, <1>8, <1>9 DEF ClockInv

LEMMA InterruptKeeps ==
  ASSUME ClockInv, NEW call \in inIsr, Interrupt(call)
  PROVE  ClockInv'
<1> DEFINE op == [call |-> call, on |-> FALSE]
           new == Steps(op)
<1>1. call \in {"readaccdata", "rxreset", "listen"}
  BY DEF ClockInv
<1>2. op \in KnownCalls /\ op.call = call
  BY <1>1 DEF KnownCalls, CallNames
<1>3. Provided(new, Relied(op.call))
  BY <1>2, StepsProvided
<1>4. \E R : Transparent(new, Private(inIsr), R)
  <2>1. CASE call = "readaccdata"
    <3>1. AccClocks \subseteq Private(inIsr)
      BY <2>1 DEF Private
    <3>2. new = ReadAccData
      BY <2>1 DEF Steps
    <3>3. Transparent(ReadAccData, Private(inIsr), Byte0 \cup Byte1)
      BY <3>1, ReadAccDataTransparent
    <3> QED BY <3>2, <3>3
  <2>2. CASE call = "listen"
    <3>1. "ARXSLP" \in Private(inIsr)
      BY <2>2 DEF Private
    <3>2. new = SetFlag("listen", FALSE)
      BY <2>2 DEF Steps
    <3>3. Transparent(SetFlag("listen", FALSE), Private(inIsr), Ctrl1)
      BY <3>1, ListenTransparent
    <3> QED BY <3>2, <3>3
  <2>3. CASE call = "rxreset"
    <3>1. "PLL2_SEQ_EN" \in Private(inIsr)
      BY <2>3 DEF Private
    <3>2. new = PmscRxReset
      BY <2>3 DEF Steps
    <3>3. Transparent(PmscRxReset, Private(inIsr), {})
      BY <3>1, RxResetTransparent
    <3> QED BY <3>2, <3>3
  <2> QED BY <1>1, <2>1, <2>2, <2>3
<1>5. todo' = [todo EXCEPT !["isr"] = new] /\ UNCHANGED <<reg, inIsr, tmp>>
  BY DEF Interrupt
<1> HIDE DEF op, new
<1>6. /\ todo' \in [Both -> Seq(Access)] /\ todo'["isr"] = new /\ todo'["main"] = todo["main"]
  <2>1. new \in Seq(Access)
    BY <1>3 DEF Provided
  <2> QED BY <1>5, <2>1 DEF ClockInv, Both
<1>7. \E T : StillProvided(todo'["main"], T, reg') /\ T \cap Private(inIsr') = {}
  BY <1>5, <1>6 DEF ClockInv
<1>8. \E T : StillProvided(todo'["isr"], T, reg')
  BY <1>3, <1>6, StillFromStart
<1>9. \E R : StillTransparent(todo'["isr"], Private(inIsr'), R, tmp'["isr"], reg')
  BY <1>4, <1>5, <1>6, StillTransparentFromStart
<1>10. tmp' = [p \in Both |-> tmp'[p]] /\ inIsr' \subseteq {"readaccdata", "rxreset", "listen"}
  BY <1>5 DEF ClockInv
<1> QED BY <1>6, <1>7, <1>8, <1>9, <1>10 DEF ClockInv

\* What a step does, of the call whose step it is.
Effect(s, t, sv, r) ==
  CASE s.do = "put"     -> (r \ s.part) \cup s.add \cup ((t \cap s.part) \ s.drop)
    [] s.do = "restore" -> (r \ s.part) \cup (sv \cap s.part)
    [] s.do = "reset"   -> ResetFlags
    [] OTHER            -> r

LEMMA StepIs ==
  ASSUME ClockInv, NEW p \in Both, PmscStep(p)
  PROVE  /\ todo[p] \in Seq(Access) /\ Len(todo[p]) \in Nat \ {0}
         /\ todo[p][1] \in Access
         /\ todo' \in [Both -> Seq(Access)] /\ todo'[p] = Tail(todo[p])
         /\ Tail(todo[p]) \in Seq(Access)
         /\ Len(Tail(todo[p])) = Len(todo[p]) - 1
         /\ \A i \in 1 .. (Len(todo[p]) - 1) : Tail(todo[p])[i] = todo[p][i + 1]
         /\ \A q \in Both \ {p} : todo'[q] = todo[q]
         /\ reg' = Effect(todo[p][1], tmp[p], saved[p], reg)
         /\ p = "main" => todo["isr"] = <<>>
         /\ inIsr' = inIsr
         /\ tmp' = [q \in Both |-> tmp'[q]]
         /\ \A q \in Both \ {p} : tmp'[q] = tmp[q]
         /\ todo[p][1].do = "read" => tmp'[p] = reg \cap todo[p][1].part
         /\ todo[p][1].do # "read" /\ Tail(todo[p]) # <<>> => tmp'[p] = tmp[p]
<1> DEFINE s == todo[p]
<1>1. s \in Seq(Access) /\ s # <<>> /\ (p = "main" => todo["isr"] = <<>>) /\ inIsr' = inIsr
  BY DEF ClockInv, PmscStep
<1>2. /\ Len(s) \in Nat \ {0} /\ s[1] \in Access /\ Head(s) = s[1]
      /\ Tail(s) \in Seq(Access) /\ Len(Tail(s)) = Len(s) - 1
      /\ \A i \in 1 .. (Len(s) - 1) : Tail(s)[i] = s[i + 1]
  <2> HIDE DEF s
  <2>1. Head(s) \in Access /\ Tail(s) \in Seq(Access)
    BY <1>1, HeadTailProperties
  <2> QED BY <1>1, <2>1
<1>3. todo' = [todo EXCEPT ![p] = Tail(s)]
  BY DEF PmscStep
<1>4. /\ todo' \in [Both -> Seq(Access)] /\ todo'[p] = Tail(s)
      /\ \A q \in Both \ {p} : todo'[q] = todo[q]
  <2> HIDE DEF s
  <2> QED BY <1>2, <1>3 DEF ClockInv
<1>5. reg' = Effect(s[1], tmp[p], saved[p], reg)
  BY <1>2 DEF PmscStep, Effect
<1>6. tmp' = [tmp EXCEPT ![p] = IF s[1].do = "read" THEN reg \cap s[1].part
                               ELSE IF Tail(s) = <<>> THEN {} ELSE tmp[p]]
  BY <1>2 DEF PmscStep
<1> HIDE DEF s
<1>7. /\ tmp' = [q \in Both |-> tmp'[q]]
      /\ \A q \in Both \ {p} : tmp'[q] = tmp[q]
      /\ s[1].do = "read" => tmp'[p] = reg \cap s[1].part
      /\ s[1].do # "read" /\ Tail(s) # <<>> => tmp'[p] = tmp[p]
  BY <1>6 DEF ClockInv
<1> QED BY <1>1, <1>2, <1>4, <1>5, <1>7 DEF s

LEMMA GivenIsAt ==
  ASSUME NEW a, NEW f, NEW v, Gives(a, f, v), NEW t, NEW sv, NEW r
  PROVE  IsAt(f, v, Effect(a, t, sv, r))
BY DEF Gives, IsAt, Effect

LEMMA SparedStays ==
  ASSUME NEW a, NEW f, NEW v, Spares(a, f), NEW t, NEW sv, NEW r, IsAt(f, v, r)
  PROVE  IsAt(f, v, Effect(a, t, sv, r))
<1>1. CASE a.do \in {"read", "use", "woken", "save"}
  BY <1>1 DEF Effect
<1>2. CASE a.do = "put" /\ f \notin a.part /\ f \notin a.add
  BY <1>2 DEF IsAt, Effect
<1>3. CASE a.do = "restore" /\ f \notin a.part
  BY <1>3 DEF IsAt, Effect
<1> QED BY <1>1, <1>2, <1>3 DEF Spares

\* What a call has done counts by what it has left in the registers.
LEMMA StepProvided ==
  ASSUME NEW seq \in Seq(Access), Len(seq) \in Nat \ {0},
         NEW rest \in Seq(Access), Len(rest) = Len(seq) - 1,
         \A i \in 1 .. (Len(seq) - 1) : rest[i] = seq[i + 1],
         NEW S, NEW r, StillProvided(seq, S, r), NEW t, NEW sv
  PROVE  StillProvided(rest, S, Effect(seq[1], t, sv, r))
<1> DEFINE r2 == Effect(seq[1], t, sv, r)
<1> HIDE DEF r2
<1> SUFFICES ASSUME NEW i \in 1 .. Len(rest), rest[i].do = "use",
                    NEW v \in Levels, NEW f \in Wanted(rest[i], v)
             PROVE  /\ f \in S
                    /\ \/ Given(rest, i, f, v)
                       \/ IsAt(f, v, r2) /\ \A k \in 1 .. (i - 1) : Spares(rest[k], f)
  BY DEF StillProvided, r2
<1>1. i \in Nat /\ i + 1 \in 1 .. Len(seq) /\ rest[i] = seq[i + 1] /\ (i + 1) - 1 = i
  OBVIOUS
<1>2. \A k \in 1 .. (i - 1) : rest[k] = seq[k + 1] /\ k + 1 \in 2 .. i
  OBVIOUS
<1>3. /\ f \in S
      /\ \/ Given(seq, i + 1, f, v)
         \/ IsAt(f, v, r) /\ \A k \in 1 .. i : Spares(seq[k], f)
  BY <1>1 DEF StillProvided
<1>4. CASE Given(seq, i + 1, f, v)
  <2>1. PICK j \in 1 .. i : Gives(seq[j], f, v) /\ \A k \in (j + 1) .. i : Spares(seq[k], f)
    BY <1>1, <1>4 DEF Given
  <2>2. CASE j = 1
    <3>1. IsAt(f, v, r2)
      BY <2>1, <2>2, GivenIsAt DEF r2
    <3>2. ASSUME NEW k \in 1 .. (i - 1)
          PROVE  Spares(rest[k], f)
      <4>1. k + 1 \in (j + 1) .. i /\ rest[k] = seq[k + 1]
        BY <1>1, <1>2, <2>2
      <4> QED BY <2>1, <4>1
    <3> QED BY <1>3, <3>1, <3>2
  <2>3. CASE j # 1
    <3>1. PICK h \in Int : h = j - 1
      BY <2>1
    <3>2. h \in 1 .. (i - 1) /\ h + 1 = j
      BY <1>1, <2>1, <2>3, <3>1
    <3>3. Gives(rest[h], f, v)
      BY <1>2, <2>1, <3>2
    <3>4. ASSUME NEW k \in (h + 1) .. (i - 1)
          PROVE  Spares(rest[k], f)
      <4>1. k \in 1 .. (i - 1) /\ k + 1 \in (j + 1) .. i
        BY <1>1, <3>2
      <4> QED BY <1>2, <2>1, <4>1
    <3> QED BY <1>3, <3>2, <3>3, <3>4 DEF Given
  <2> QED BY <2>2, <2>3
<1>5. CASE IsAt(f, v, r) /\ \A k \in 1 .. i : Spares(seq[k], f)
  <2>1. 1 \in 1 .. i
    BY <1>1
  <2>2. IsAt(f, v, r2)
    BY <1>5, <2>1, SparedStays DEF r2
  <2>3. \A k \in 1 .. (i - 1) : Spares(rest[k], f)
    <3> SUFFICES ASSUME NEW k \in 1 .. (i - 1) PROVE Spares(rest[k], f)
      OBVIOUS
    <3>1. k + 1 \in 1 .. i /\ rest[k] = seq[k + 1]
      BY <1>1, <1>2
    <3> QED BY <1>5, <3>1
  <2> QED BY <1>3, <2>2, <2>3
<1> QED BY <1>3, <1>4, <1>5

\* A transparent access changes no flag but those of P.
LEMMA OthersStay ==
  ASSUME NEW seq \in Seq(Access), Len(seq) \in Nat \ {0},
         NEW P, NEW R, NEW t, NEW r, StillTransparent(seq, P, R, t, r), NEW sv
  PROVE  \A f : f \notin P => (f \in Effect(seq[1], t, sv, r) <=> f \in r)
<1>1. 1 \in 1 .. Len(seq) /\ 1 .. (1 - 1) = {}
  OBVIOUS
<1>2. /\ seq[1].do \in {"read", "put", "use"}
      /\ seq[1].do = "put" =>
           /\ seq[1].add \subseteq P /\ seq[1].drop \subseteq P
           /\ \/ seq[1].part \subseteq P
              \/ seq[1].part \subseteq R /\ (R \cap t) \ P = (R \cap r) \ P
  BY <1>1 DEF StillTransparent
<1>3. CASE seq[1].do # "put"
  BY <1>2, <1>3 DEF Effect
<1>4. CASE seq[1].do = "put"
  <2>1. Effect(seq[1], t, sv, r) =
          (r \ seq[1].part) \cup seq[1].add \cup ((t \cap seq[1].part) \ seq[1].drop)
    BY <1>4 DEF Effect
  <2>2. CASE seq[1].part \subseteq P
    BY <1>2, <1>4, <2>1, <2>2
  <2>3. CASE seq[1].part \subseteq R /\ (R \cap t) \ P = (R \cap r) \ P
    BY <1>2, <1>4, <2>1, <2>3
  <2> QED BY <1>2, <1>4, <2>2, <2>3
<1> QED BY <1>3, <1>4

LEMMA StepTransparent ==
  ASSUME NEW seq \in Seq(Access), Len(seq) \in Nat \ {0},
         NEW rest \in Seq(Access), Len(rest) = Len(seq) - 1,
         \A i \in 1 .. (Len(seq) - 1) : rest[i] = seq[i + 1],
         NEW P, NEW R, NEW t, NEW r, StillTransparent(seq, P, R, t, r), NEW sv, NEW t2,
         seq[1].do = "read" => t2 = r \cap seq[1].part,
         seq[1].do # "read" /\ rest # <<>> => t2 = t
  PROVE  StillTransparent(rest, P, R, t2, Effect(seq[1], t, sv, r))
<1> DEFINE r2 == Effect(seq[1], t, sv, r)
<1>0. \A f : f \notin P => (f \in r2 <=> f \in r)
  BY OthersStay
<1>a. seq[1].do # "put" => r2 = r
  <2>1. seq[1].do \in {"read", "put", "use"}
    BY DEF StillTransparent
  <2> QED BY <2>1 DEF Effect
<1> HIDE DEF r2
<1> SUFFICES ASSUME NEW i \in 1 .. Len(rest)
             PROVE  /\ rest[i].do \in {"read", "put", "use"}
                    /\ rest[i].do = "read" => rest[i].part = R
                    /\ rest[i].do = "put" =>
                         /\ rest[i].add \subseteq P /\ rest[i].drop \subseteq P
                         /\ \/ rest[i].part \subseteq P
                            \/ /\ rest[i].part \subseteq R
                               /\ \E j \in 1 .. (i - 1) : rest[j].do = "read"
                            \/ /\ rest[i].part \subseteq R
                               /\ (R \cap t2) \ P = (R \cap r2) \ P
  BY DEF StillTransparent, r2
<1>1. i \in Nat /\ i + 1 \in 1 .. Len(seq) /\ rest[i] = seq[i + 1] /\ (i + 1) - 1 = i
      /\ rest # <<>>
  OBVIOUS
<1>2. /\ rest[i].do \in {"read", "put", "use"}
      /\ rest[i].do = "read" => rest[i].part = R
      /\ rest[i].do = "put" =>
           /\ rest[i].add \subseteq P /\ rest[i].drop \subseteq P
           /\ \/ rest[i].part \subseteq P
              \/ rest[i].part \subseteq R /\ \E j \in 1 .. i : seq[j].do = "read"
              \/ rest[i].part \subseteq R /\ (R \cap t) \ P = (R \cap r) \ P
  BY <1>1 DEF StillTransparent
<1>3. SUFFICES ASSUME rest[i].do = "put", ~(rest[i].part \subseteq P)
               PROVE  \/ \E j \in 1 .. (i - 1) : rest[j].do = "read"
                      \/ (R \cap t2) \ P = (R \cap r2) \ P
  BY <1>2
<1>4. CASE seq[1].do = "read"
  <2>1. seq[1].part = R
    BY <1>4 DEF StillTransparent
  <2> QED BY <1>4, <1>a, <2>1
<1>5. CASE seq[1].do # "read"
  <2>1. t2 = t
    BY <1>1, <1>5
  <2>2. CASE (R \cap t) \ P = (R \cap r) \ P
    BY <1>0, <2>1, <2>2
  <2>3. CASE \E j \in 1 .. i : seq[j].do = "read"
    <3>1. PICK j \in 1 .. i : seq[j].do = "read"
      BY <2>3
    <3>2. PICK h \in Int : h = j - 1
      BY <3>1
    <3>3. h \in 1 .. (i - 1) /\ rest[h] = seq[h + 1] /\ h + 1 = j
      BY <1>1, <1>5, <3>1, <3>2
    <3> QED BY <3>1, <3>3
  <2> QED BY <1>2, <1>3, <2>2, <2>3
<1> QED BY <1>4, <1>5

\* A step of a callback takes nothing from the call it runs within.
LEMMA StillProvidedAgree ==
  ASSUME NEW seq, NEW S, NEW r, NEW r2, NEW P, StillProvided(seq, S, r), S \cap P = {},
         \A f : f \notin P => (f \in r2 <=> f \in r)
  PROVE  StillProvided(seq, S, r2)
BY DEF StillProvided, IsAt

LEMMA StepKeeps ==
  ASSUME ClockInv, NEW p \in Both, PmscStep(p)
  PROVE  ClockInv'
<1>1. /\ todo[p] \in Seq(Access) /\ Len(todo[p]) \in Nat \ {0}
      /\ todo' \in [Both -> Seq(Access)] /\ todo'[p] = Tail(todo[p])
      /\ Tail(todo[p]) \in Seq(Access)
      /\ Len(Tail(todo[p])) = Len(todo[p]) - 1
      /\ \A i \in 1 .. (Len(todo[p]) - 1) : Tail(todo[p])[i] = todo[p][i + 1]
      /\ \A q \in Both \ {p} : todo'[q] = todo[q]
      /\ reg' = Effect(todo[p][1], tmp[p], saved[p], reg)
      /\ p = "main" => todo["isr"] = <<>>
      /\ inIsr' = inIsr
      /\ tmp' = [q \in Both |-> tmp'[q]]
      /\ todo[p][1].do = "read" => tmp'[p] = reg \cap todo[p][1].part
      /\ todo[p][1].do # "read" /\ Tail(todo[p]) # <<>> => tmp'[p] = tmp[p]
  BY StepIs
<1>a. PICK seq \in Seq(Access), rest \in Seq(Access) :
        /\ seq = todo[p] /\ rest = todo'[p]
        /\ Len(seq) \in Nat \ {0} /\ Len(rest) = Len(seq) - 1
        /\ \A i \in 1 .. (Len(seq) - 1) : rest[i] = seq[i + 1]
        /\ reg' = Effect(seq[1], tmp[p], saved[p], reg)
        /\ seq[1].do = "read" => tmp'[p] = reg \cap seq[1].part
        /\ seq[1].do # "read" /\ rest # <<>> => tmp'[p] = tmp[p]
  BY <1>1
<1>2. \A S : StillProvided(todo[p], S, reg) => StillProvided(todo'[p], S, reg')
  <2> SUFFICES ASSUME NEW S, StillProvided(seq, S, reg) PROVE StillProvided(rest, S, reg')
    BY <1>a
  <2>1. StillProvided(rest, S, Effect(seq[1], tmp[p], saved[p], reg))
    BY <1>a, StepProvided
  <2> QED BY <1>a, <2>1
<1>3. CASE p = "main"
  <2>1. \E S : StillProvided(todo'["main"], S, reg') /\ S \cap Private(inIsr') = {}
    BY <1>1, <1>2, <1>3 DEF ClockInv
  <2>2. todo'["isr"] = <<>>
    BY <1>1, <1>3 DEF Both
  <2>3. /\ StillProvided(<<>>, {}, reg')
        /\ StillTransparent(<<>>, Private(inIsr'), {}, tmp'["isr"], reg')
    BY NothingLeft
  <2> QED BY <1>1, <2>1, <2>2, <2>3 DEF ClockInv
<1>4. CASE p = "isr"
  <2>1. PICK R : StillTransparent(todo["isr"], Private(inIsr), R, tmp["isr"], reg)
    BY DEF ClockInv
  <2>2. StillTransparent(todo'["isr"], Private(inIsr'), R, tmp'["isr"], reg')
    <3> DEFINE P == Private(inIsr)
    <3> HIDE DEF P
    <3>1. StillTransparent(seq, P, R, tmp[p], reg)
      BY <1>a, <1>4, <2>1 DEF P
    <3>2. StillTransparent(rest, P, R, tmp'[p], Effect(seq[1], tmp[p], saved[p], reg))
      BY <1>a, <3>1, StepTransparent
    <3>3. Private(inIsr') = P
      BY <1>1 DEF P
    <3> QED BY <1>a, <1>4, <3>2, <3>3
  <2>3. \A f : f \notin Private(inIsr) => (f \in reg' <=> f \in reg)
    BY <1>1, <1>4, <2>1, OthersStay
  <2>4. todo'["main"] = todo["main"]
    BY <1>1, <1>4 DEF Both
  <2>5. PICK S : StillProvided(todo["main"], S, reg) /\ S \cap Private(inIsr) = {}
    BY DEF ClockInv
  <2>6. StillProvided(todo'["main"], S, reg') /\ S \cap Private(inIsr') = {}
    <3>1. StillProvided(todo["main"], S, reg')
      BY <2>3, <2>5, StillProvidedAgree
    <3> QED BY <1>1, <2>4, <2>5, <3>1
  <2>7. \E T : StillProvided(todo'["isr"], T, reg')
    BY <1>2, <1>4 DEF ClockInv
  <2> QED BY <1>1, <2>2, <2>6, <2>7 DEF ClockInv
<1> QED BY <1>3, <1>4 DEF Both

LEMMA ClockInvKept == CallsKnown /\ ClockInv /\ [PmscNext]_(pmscvars) => ClockInv'
<1> SUFFICES ASSUME CallsKnown, ClockInv, [PmscNext]_(pmscvars) PROVE ClockInv'
  OBVIOUS
<1>1. ASSUME NEW op \in Ops, Call(op) PROVE ClockInv'
  BY <1>1, CallKeeps
<1>2. ASSUME NEW call \in inIsr, Interrupt(call) PROVE ClockInv'
  BY <1>2, InterruptKeeps
<1>3. ASSUME NEW p \in {"main", "isr"}, PmscStep(p) PROVE ClockInv'
  BY <1>3, StepKeeps DEF Both
<1>4. CASE UNCHANGED pmscvars
  BY <1>4 DEF pmscvars, ClockInv
<1> QED BY <1>1, <1>2, <1>3, <1>4 DEF PmscNext

LEMMA ClockInvGivesClocked == ClockInv => Clocked
<1> SUFFICES ASSUME ClockInv, NEW p \in {"main", "isr"}, todo[p] # <<>>,
                    Head(todo[p]).do = "use"
             PROVE  Head(todo[p]).add \subseteq reg /\ Head(todo[p]).drop \cap reg = {}
  BY DEF Clocked
<1>1. PICK S : StillProvided(todo[p], S, reg)
  BY DEF ClockInv
<1>2. PICK seq \in Seq(Access) : seq = todo[p]
  BY DEF ClockInv, Both
<1>3. 1 \in 1 .. Len(seq) /\ Head(seq) = seq[1] /\ 1 .. (1 - 1) = {}
  BY <1>2
<1>4. \A v \in Levels : \A f \in Wanted(seq[1], v) : IsAt(f, v, reg)
  BY <1>1, <1>2, <1>3 DEF StillProvided, Given
<1>5. \A f \in seq[1].add : f \in reg
  BY <1>4 DEF Levels, Wanted, IsAt
<1>6. \A f \in seq[1].drop : f \notin reg
  BY <1>4 DEF Levels, Wanted, IsAt
<1> QED BY <1>2, <1>3, <1>5, <1>6

\* Whatever reads the OTP memory, the accumulator, the converters or the pulse
\* generator has the clocks it needs, in whichever order the calls come and
\* wherever the callbacks run: Clocked of DwPmsc (_dwt_enableclocks and its
\* callers), for any calls of the main loop and of the callbacks.  The wake-up
\* of dwt_initialise may be among them, but what it reads of the OTP memory with
\* the clocks as they are (deca_device.c:210-213) is not a use Clocked speaks of:
\* OtpReliable does, and is violated.
THEOREM UsesStayClocked == ASSUME CallsKnown PROVE PmscSpec => []Clocked
<1>1. CallsKnown /\ PmscInit => ClockInv
  BY ClockInvInit
<1>2. CallsKnown /\ ClockInv /\ [PmscNext]_(pmscvars) => ClockInv'
  BY ClockInvKept
<1>3. ClockInv => Clocked
  BY ClockInvGivesClocked
<1> QED BY <1>1, <1>2, <1>3, PTL DEF PmscSpec

-----------------------------------------------------------------------------
(* What a call leaves a flag at. *)

\* An access that brings a flag to a level, and one that puts back what was read.
Brings(s, f, v) ==
  \/ Gives(s, f, v)
  \/ s.do = "reset" /\ (IF v = "on" THEN f \in ResetFlags ELSE f \notin ResetFlags)
PutsBack(s, f) == s.do = "put" /\ f \notin s.add /\ f \notin s.drop

\* The last read before access k comes after access j, and reads the flag.
ReadFor(seq, j, k, f) ==
  \E m \in (j + 1) .. (k - 1) :
     /\ seq[m].do = "read" /\ f \in seq[m].part
     /\ \A l \in (m + 1) .. (k - 1) : seq[l].do # "read"

Kept(seq, j, k, f) ==
  Spares(seq[k], f) \/ (PutsBack(seq[k], f) /\ ReadFor(seq, j, k, f))

\* A call that ends with the flag at a level, and one that leaves it as it is.
Ends(seq, f, v) ==
  /\ seq \in Seq(Access)
  /\ \E j \in 1 .. Len(seq) :
        Brings(seq[j], f, v) /\ \A k \in (j + 1) .. Len(seq) : Kept(seq, j, k, f)
Keeps(seq, f) ==
  /\ seq \in Seq(Access)
  /\ \A k \in 1 .. Len(seq) : Kept(seq, 0, k, f)

\* What is left of a call ends with the flag at a level: it brings the flag
\* there, or leaves it there, or puts back what was saved.
StillKept(seq, k, f, v, t) ==
  \/ Spares(seq[k], f)
  \/ /\ PutsBack(seq[k], f)
     /\ \/ ReadFor(seq, 0, k, f)
        \/ IsAt(f, v, t) /\ \A m \in 1 .. (k - 1) : seq[m].do # "read"
Restores(seq, f, v, sv, r) ==
  \E j \in 1 .. Len(seq) :
     /\ seq[j].do = "restore" /\ f \in seq[j].part
     /\ \A k \in (j + 1) .. Len(seq) : Kept(seq, j, k, f)
     /\ \A m \in 2 .. (j - 1) : seq[m].do # "save"
     /\ seq[1].do = "save" => f \in seq[1].part /\ IsAt(f, v, r)
     /\ seq[1].do # "save" => IsAt(f, v, sv)
StillEnds(seq, f, v, t, sv, r) ==
  /\ seq \in Seq(Access)
  /\ \/ Ends(seq, f, v)
     \/ IsAt(f, v, r) /\ \A k \in 1 .. Len(seq) : StillKept(seq, k, f, v, t)
     \/ Restores(seq, f, v, sv, r)

LEMMA BroughtIsAt ==
  ASSUME NEW a, NEW f, NEW v, Brings(a, f, v), NEW t, NEW sv, NEW r
  PROVE  IsAt(f, v, Effect(a, t, sv, r))
<1>1. CASE Gives(a, f, v)
  BY <1>1, GivenIsAt
<1>2. CASE ~Gives(a, f, v)
  BY <1>2 DEF Brings, IsAt, Effect
<1> QED BY <1>1, <1>2

LEMMA PutBackStays ==
  ASSUME NEW a, NEW f, NEW v, PutsBack(a, f), NEW t, NEW sv, NEW r,
         IsAt(f, v, t), IsAt(f, v, r)
  PROVE  IsAt(f, v, Effect(a, t, sv, r))
BY DEF PutsBack, IsAt, Effect

LEMMA KeptLater ==
  ASSUME NEW seq \in Seq(Access), Len(seq) \in Nat \ {0},
         NEW rest \in Seq(Access), Len(rest) = Len(seq) - 1,
         \A i \in 1 .. (Len(seq) - 1) : rest[i] = seq[i + 1],
         NEW j \in Nat, NEW k \in 1 .. Len(rest), NEW f, Kept(seq, j + 1, k + 1, f)
  PROVE  Kept(rest, j, k, f)
<1>1. rest[k] = seq[k + 1] /\ k \in Nat /\ (k + 1) - 1 = k
  OBVIOUS
<1>2. CASE Spares(seq[k + 1], f)
  BY <1>1, <1>2 DEF Kept
<1>3. CASE PutsBack(seq[k + 1], f) /\ ReadFor(seq, j + 1, k + 1, f)
  <2>1. PICK m \in ((j + 1) + 1) .. k :
          /\ seq[m].do = "read" /\ f \in seq[m].part
          /\ \A l \in (m + 1) .. k : seq[l].do # "read"
    BY <1>1, <1>3 DEF ReadFor
  <2>2. PICK h \in Int : h = m - 1
    BY <2>1
  <2>3. h \in (j + 1) .. (k - 1) /\ h + 1 = m /\ rest[h] = seq[h + 1]
    BY <1>1, <2>1, <2>2
  <2>4. ASSUME NEW l \in (h + 1) .. (k - 1)
        PROVE  rest[l].do # "read"
    <3>1. l + 1 \in (m + 1) .. k /\ rest[l] = seq[l + 1]
      BY <1>1, <2>3
    <3> QED BY <2>1, <3>1
  <2>5. ReadFor(rest, j, k, f)
    BY <2>1, <2>3, <2>4 DEF ReadFor
  <2> QED BY <1>1, <1>3, <2>5 DEF Kept
<1> QED BY <1>2, <1>3 DEF Kept

LEMMA KeptIsStill ==
  ASSUME NEW seq, NEW k, NEW f, NEW v, NEW t, Kept(seq, 0, k, f)
  PROVE  StillKept(seq, k, f, v, t)
BY DEF Kept, StillKept

LEMMA StepEnds ==
  ASSUME NEW seq \in Seq(Access), Len(seq) \in Nat \ {0},
         NEW rest \in Seq(Access), Len(rest) = Len(seq) - 1,
         \A i \in 1 .. (Len(seq) - 1) : rest[i] = seq[i + 1],
         NEW f, NEW v, NEW t, NEW sv, NEW r, StillEnds(seq, f, v, t, sv, r),
         NEW t2, NEW sv2,
         seq[1].do = "read" => t2 = r \cap seq[1].part,
         seq[1].do # "read" /\ rest # <<>> => t2 = t,
         seq[1].do = "save" => sv2 = r \cap seq[1].part,
         seq[1].do # "save" /\ rest # <<>> => sv2 = sv
  PROVE  StillEnds(rest, f, v, t2, sv2, Effect(seq[1], t, sv, r))
<1> DEFINE r2 == Effect(seq[1], t, sv, r)
<1>1. \A k \in 1 .. Len(rest) :
        /\ rest # <<>> /\ k + 1 \in 2 .. Len(seq) /\ rest[k] = seq[k + 1]
        /\ k \in Nat /\ (k + 1) - 1 = k
  OBVIOUS
<1>2. ASSUME IsAt(f, v, r2), \A k \in 1 .. Len(rest) : Kept(seq, 1, k + 1, f)
      PROVE  StillEnds(rest, f, v, t2, sv2, r2)
  <2>1. ASSUME NEW k \in 1 .. Len(rest)
        PROVE  StillKept(rest, k, f, v, t2)
    <3>1. Kept(seq, 0 + 1, k + 1, f)
      BY <1>2
    <3>2. Kept(rest, 0, k, f)
      BY <3>1, KeptLater
    <3> QED BY <3>2, KeptIsStill
  <2> QED BY <1>2, <2>1 DEF StillEnds
<1>3. CASE Ends(seq, f, v)
  <2>1. PICK j \in 1 .. Len(seq) :
          Brings(seq[j], f, v) /\ \A k \in (j + 1) .. Len(seq) : Kept(seq, j, k, f)
    BY <1>3 DEF Ends
  <2>2. CASE j = 1
    <3>1. IsAt(f, v, r2)
      BY <2>1, <2>2, BroughtIsAt
    <3>2. ASSUME NEW k \in 1 .. Len(rest)
          PROVE  Kept(seq, 1, k + 1, f)
      <4>1. k + 1 \in (j + 1) .. Len(seq)
        BY <1>1, <2>2
      <4> QED BY <2>1, <2>2, <4>1
    <3> QED BY <1>2, <3>1, <3>2
  <2>3. CASE j # 1
    <3>1. PICK h \in Int : h = j - 1
      BY <2>1
    <3>2. h \in Nat /\ h \in 1 .. Len(rest) /\ h + 1 = j
      BY <2>1, <2>3, <3>1
    <3>3. Brings(rest[h], f, v)
      BY <1>1, <2>1, <3>2
    <3>4. ASSUME NEW k \in (h + 1) .. Len(rest)
          PROVE  Kept(rest, h, k, f)
      <4>1. k \in 1 .. Len(rest) /\ k + 1 \in (j + 1) .. Len(seq)
        BY <3>2
      <4>2. Kept(seq, h + 1, k + 1, f)
        BY <2>1, <3>2, <4>1
      <4> QED BY <3>2, <4>1, <4>2, KeptLater
    <3>5. Ends(rest, f, v)
      BY <3>2, <3>3, <3>4 DEF Ends
    <3> QED BY <3>5 DEF StillEnds
  <2> QED BY <2>2, <2>3
<1>4. CASE IsAt(f, v, r) /\ \A k \in 1 .. Len(seq) : StillKept(seq, k, f, v, t)
  <2>1. 1 \in 1 .. Len(seq) /\ 1 .. (1 - 1) = {} /\ (0 + 1) .. (1 - 1) = {}
    OBVIOUS
  <2>2. IsAt(f, v, r2)
    <3>1. StillKept(seq, 1, f, v, t)
      BY <1>4, <2>1
    <3>2. CASE Spares(seq[1], f)
      BY <1>4, <3>2, SparedStays
    <3>3. CASE ~Spares(seq[1], f)
      <4>1. ~ReadFor(seq, 0, 1, f)
        BY <2>1 DEF ReadFor
      <4>2. PutsBack(seq[1], f) /\ IsAt(f, v, t)
        BY <3>1, <3>3, <4>1 DEF StillKept
      <4> QED BY <1>4, <4>2, PutBackStays
    <3> QED BY <3>2, <3>3
  <2>3. ASSUME NEW k \in 1 .. Len(rest)
        PROVE  StillKept(rest, k, f, v, t2)
    <3>1. StillKept(seq, k + 1, f, v, t)
      BY <1>1, <1>4
    <3>2. CASE Spares(seq[k + 1], f)
      BY <1>1, <3>2 DEF StillKept
    <3>3. CASE PutsBack(seq[k + 1], f) /\ ReadFor(seq, 0, k + 1, f)
      <4>a. 0 + 1 = 1 /\ (k + 1) - 1 = k
        BY <1>1
      <4>1. PICK m \in 1 .. k : /\ seq[m].do = "read" /\ f \in seq[m].part
                                /\ \A l \in (m + 1) .. k : seq[l].do # "read"
        BY <3>3, <4>a DEF ReadFor
      <4>2. CASE m = 1
        <5>1. IsAt(f, v, t2)
          BY <1>4, <4>1, <4>2 DEF IsAt
        <5>2. ASSUME NEW l \in 1 .. (k - 1)
              PROVE  rest[l].do # "read"
          <6>1. l + 1 \in (1 + 1) .. k /\ rest[l] = seq[l + 1]
            BY <1>1
          <6> QED BY <4>1, <4>2, <6>1
        <5> QED BY <1>1, <3>3, <5>1, <5>2 DEF StillKept
      <4>3. CASE m # 1
        <5>1. m \in ((0 + 1) + 1) .. ((k + 1) - 1)
          BY <1>1, <4>1, <4>3
        <5>2. ReadFor(seq, 0 + 1, k + 1, f)
          BY <1>1, <4>1, <5>1 DEF ReadFor
        <5>3. Kept(seq, 0 + 1, k + 1, f)
          BY <3>3, <5>2 DEF Kept
        <5>4. Kept(rest, 0, k, f)
          BY <5>3, KeptLater
        <5> QED BY <5>4, KeptIsStill
      <4> QED BY <4>2, <4>3
    <3>4. CASE /\ PutsBack(seq[k + 1], f) /\ IsAt(f, v, t)
               /\ \A m \in 1 .. ((k + 1) - 1) : seq[m].do # "read"
      <4>1. 1 \in 1 .. ((k + 1) - 1)
        BY <1>1
      <4>2. t2 = t
        BY <1>1, <3>4, <4>1
      <4>3. ASSUME NEW l \in 1 .. (k - 1)
            PROVE  rest[l].do # "read"
        <5>1. l + 1 \in 1 .. ((k + 1) - 1) /\ rest[l] = seq[l + 1]
          BY <1>1
        <5> QED BY <3>4, <5>1
      <4> QED BY <1>1, <3>4, <4>2, <4>3 DEF StillKept
    <3> QED BY <3>1, <3>2, <3>3, <3>4 DEF StillKept
  <2> QED BY <2>2, <2>3 DEF StillEnds
<1>5. CASE Restores(seq, f, v, sv, r)
  <2>1. PICK j \in 1 .. Len(seq) :
          /\ seq[j].do = "restore" /\ f \in seq[j].part
          /\ \A k \in (j + 1) .. Len(seq) : Kept(seq, j, k, f)
          /\ \A m \in 2 .. (j - 1) : seq[m].do # "save"
          /\ seq[1].do = "save" => f \in seq[1].part /\ IsAt(f, v, r)
          /\ seq[1].do # "save" => IsAt(f, v, sv)
    BY <1>5 DEF Restores
  <2>2. CASE j = 1
    <3>1. IsAt(f, v, r2)
      BY <2>1, <2>2 DEF IsAt, Effect
    <3>2. ASSUME NEW k \in 1 .. Len(rest)
          PROVE  Kept(seq, 1, k + 1, f)
      <4>1. k + 1 \in (j + 1) .. Len(seq)
        BY <1>1, <2>2
      <4> QED BY <2>1, <2>2, <4>1
    <3> QED BY <1>2, <3>1, <3>2
  <2>3. CASE j # 1
    <3>1. PICK h \in Int : h = j - 1
      BY <2>1
    <3>2. h \in Nat /\ h \in 1 .. Len(rest) /\ h + 1 = j /\ 1 \in 1 .. Len(rest)
      BY <2>1, <2>3, <3>1
    <3>3. rest[h] = seq[j] /\ rest[1] = seq[1 + 1] /\ rest # <<>>
      BY <1>1, <3>2
    <3>4. ASSUME NEW k \in (h + 1) .. Len(rest)
          PROVE  Kept(rest, h, k, f)
      <4>1. k \in 1 .. Len(rest) /\ k + 1 \in (j + 1) .. Len(seq)
        BY <3>2
      <4>2. Kept(seq, h + 1, k + 1, f)
        BY <2>1, <3>2, <4>1
      <4> QED BY <3>2, <4>1, <4>2, KeptLater
    <3>5. rest[1].do # "save" /\ \A m \in 2 .. (h - 1) : rest[m].do # "save"
      <4>1. rest[1].do # "save"
        <5>1. CASE j = 2
          BY <2>1, <3>3, <5>1
        <5>2. CASE j # 2
          <6>1. 2 \in 2 .. (j - 1)
            BY <2>1, <2>3, <5>2
          <6> QED BY <2>1, <3>3, <6>1
        <5> QED BY <5>1, <5>2
      <4>2. ASSUME NEW m \in 2 .. (h - 1)
            PROVE  rest[m].do # "save"
        <5>1. m \in 1 .. Len(rest) /\ m + 1 \in 2 .. (j - 1)
          BY <3>2
        <5> QED BY <1>1, <2>1, <5>1
      <4> QED BY <4>1, <4>2
    <3>6. IsAt(f, v, sv2)
      BY <2>1, <3>3 DEF IsAt
    <3>7. Restores(rest, f, v, sv2, r2)
      BY <2>1, <3>2, <3>3, <3>4, <3>5, <3>6 DEF Restores
    <3> QED BY <3>7 DEF StillEnds
  <2> QED BY <2>2, <2>3
<1> QED BY <1>3, <1>4, <1>5 DEF StillEnds

\* A sequence of sequences.
LEMMA JoinKept ==
  ASSUME NEW a \in Seq(Access), NEW b \in Seq(Access), NEW f
  PROVE  /\ \A j \in Nat, k \in 1 .. Len(a) : Kept(a, j, k, f) => Kept(a \o b, j, k, f)
         /\ \A j \in Nat : \A k \in 1 .. Len(b), i \in 0 .. (Len(a) + j) :
              Kept(b, j, k, f) => Kept(a \o b, i, Len(a) + k, f)
<1> DEFINE c == a \o b
<1>1. /\ c \in Seq(Access) /\ Len(c) = Len(a) + Len(b) /\ Len(a) \in Nat /\ Len(b) \in Nat
      /\ \A i \in 1 .. Len(a) : c[i] = a[i]
      /\ \A i \in 1 .. Len(b) : c[Len(a) + i] = b[i]
  BY JoinIs
<1> HIDE DEF c
<1>2. ASSUME NEW j \in Nat, NEW k \in 1 .. Len(a), Kept(a, j, k, f)
      PROVE  Kept(c, j, k, f)
  <2>1. c[k] = a[k] /\ \A m \in (j + 1) .. (k - 1) : c[m] = a[m]
    BY <1>1
  <2>2. ReadFor(a, j, k, f) => ReadFor(c, j, k, f)
    <3> SUFFICES ASSUME ReadFor(a, j, k, f) PROVE ReadFor(c, j, k, f)
      OBVIOUS
    <3>1. PICK m \in (j + 1) .. (k - 1) :
            /\ a[m].do = "read" /\ f \in a[m].part
            /\ \A l \in (m + 1) .. (k - 1) : a[l].do # "read"
      BY DEF ReadFor
    <3>2. \A l \in (m + 1) .. (k - 1) : c[l] = a[l]
      BY <2>1
    <3> QED BY <2>1, <3>1, <3>2 DEF ReadFor
  <2> QED BY <1>2, <2>1, <2>2 DEF Kept
<1>3. ASSUME NEW j \in Nat, NEW k \in 1 .. Len(b), NEW i \in 0 .. (Len(a) + j), Kept(b, j, k, f)
      PROVE  Kept(c, i, Len(a) + k, f)
  <2>1. PICK n \in Nat : n = Len(a)
    BY <1>1
  <2>2. c[n + k] = b[k]
    BY <1>1, <2>1
  <2>3. ReadFor(b, j, k, f) => ReadFor(c, i, n + k, f)
    <3> SUFFICES ASSUME ReadFor(b, j, k, f) PROVE ReadFor(c, i, n + k, f)
      OBVIOUS
    <3>1. PICK m \in (j + 1) .. (k - 1) :
            /\ b[m].do = "read" /\ f \in b[m].part
            /\ \A l \in (m + 1) .. (k - 1) : b[l].do # "read"
      BY DEF ReadFor
    <3>2. m \in 1 .. Len(b) /\ n + m \in (i + 1) .. ((n + k) - 1) /\ c[n + m] = b[m]
      <4>1. m \in 1 .. Len(b)
        BY <1>1
      <4>2. n + m \in (i + 1) .. ((n + k) - 1)
        BY <2>1, <4>1
      <4> QED BY <1>1, <2>1, <4>1, <4>2
    <3>3. ASSUME NEW l \in ((n + m) + 1) .. ((n + k) - 1)
          PROVE  c[l].do # "read"
      <4>1. PICK h \in Int : h = l - n
        BY <2>1
      <4>2. h \in (m + 1) .. (k - 1) /\ h \in 1 .. Len(b) /\ l = n + h
        BY <1>1, <3>2, <4>1
      <4>3. c[l] = b[h]
        BY <1>1, <2>1, <4>2
      <4> QED BY <3>1, <4>2, <4>3
    <3> QED BY <3>1, <3>2, <3>3 DEF ReadFor
  <2> QED BY <1>3, <2>1, <2>2, <2>3 DEF Kept
<1> QED BY <1>2, <1>3 DEF c

LEMMA JoinKeeps ==
  ASSUME NEW a, NEW b, NEW f, Keeps(a, f), Keeps(b, f)
  PROVE  Keeps(a \o b, f)
<1> DEFINE c == a \o b
<1>1. a \in Seq(Access) /\ b \in Seq(Access)
  BY DEF Keeps
<1>2. /\ c \in Seq(Access) /\ Len(c) = Len(a) + Len(b) /\ Len(a) \in Nat /\ Len(b) \in Nat
  BY <1>1, JoinIs
<1>3. /\ \A k \in 1 .. Len(a) : Kept(a, 0, k, f) => Kept(c, 0, k, f)
      /\ \A k \in 1 .. Len(b) : Kept(b, 0, k, f) => Kept(c, 0, Len(a) + k, f)
  <2>1. 0 \in Nat /\ 0 \in 0 .. (Len(a) + 0)
    BY <1>2
  <2> QED BY <1>1, <2>1, JoinKept
<1> HIDE DEF c
<1>4. ASSUME NEW k \in 1 .. Len(c) PROVE Kept(c, 0, k, f)
  <2>1. CASE k \in 1 .. Len(a)
    BY <1>3, <2>1 DEF Keeps
  <2>2. CASE k \notin 1 .. Len(a)
    <3>1. PICK h \in Int : h = k - Len(a)
      <4>1. k \in Int /\ Len(a) \in Int
        BY <1>2
      <4> QED BY <4>1
    <3>2. h \in 1 .. Len(b) /\ k = Len(a) + h
      BY <1>2, <2>2, <3>1
    <3> QED BY <1>3, <3>2 DEF Keeps
  <2> QED BY <2>1, <2>2
<1>5. Keeps(c, f)
  BY <1>2, <1>4 DEF Keeps
<1> QED BY <1>5 DEF c

LEMMA JoinEnds ==
  ASSUME NEW a, NEW b, NEW f, NEW v, Ends(a, f, v), Keeps(b, f)
  PROVE  Ends(a \o b, f, v)
<1> DEFINE c == a \o b
<1>1. a \in Seq(Access) /\ b \in Seq(Access)
  BY DEF Ends, Keeps
<1>2. /\ c \in Seq(Access) /\ Len(c) = Len(a) + Len(b) /\ Len(a) \in Nat /\ Len(b) \in Nat
      /\ \A i \in 1 .. Len(a) : c[i] = a[i]
  BY <1>1, JoinIs
<1>3. PICK j \in 1 .. Len(a) :
        Brings(a[j], f, v) /\ \A k \in (j + 1) .. Len(a) : Kept(a, j, k, f)
  BY DEF Ends
<1>4. /\ \A k \in 1 .. Len(a) : Kept(a, j, k, f) => Kept(c, j, k, f)
      /\ \A k \in 1 .. Len(b) : Kept(b, 0, k, f) => Kept(c, j, Len(a) + k, f)
  <2>1. 0 \in Nat /\ j \in Nat /\ j \in 0 .. (Len(a) + 0)
    BY <1>2
  <2> QED BY <1>1, <2>1, JoinKept
<1> HIDE DEF c
<1>5. ASSUME NEW k \in (j + 1) .. Len(c) PROVE Kept(c, j, k, f)
  <2>1. CASE k \in 1 .. Len(a)
    BY <1>3, <1>4, <2>1
  <2>2. CASE k \notin 1 .. Len(a)
    <3>1. PICK h \in Int : h = k - Len(a)
      <4>1. k \in Int /\ Len(a) \in Int
        BY <1>2
      <4> QED BY <4>1
    <3>2. h \in 1 .. Len(b) /\ k = Len(a) + h
      BY <1>2, <2>2, <3>1
    <3> QED BY <1>4, <3>2 DEF Keeps
  <2> QED BY <2>1, <2>2
<1>6. j \in 1 .. Len(c) /\ Brings(c[j], f, v)
  BY <1>2, <1>3
<1>7. Ends(c, f, v)
  BY <1>2, <1>5, <1>6 DEF Ends
<1> QED BY <1>7 DEF c

LEMMA JoinEndsLast ==
  ASSUME NEW a \in Seq(Access), NEW b, NEW f, NEW v, Ends(b, f, v)
  PROVE  Ends(a \o b, f, v)
<1> DEFINE c == a \o b
<1>1. b \in Seq(Access)
  BY DEF Ends
<1>2. /\ c \in Seq(Access) /\ Len(c) = Len(a) + Len(b) /\ Len(a) \in Nat /\ Len(b) \in Nat
      /\ \A i \in 1 .. Len(b) : c[Len(a) + i] = b[i]
  BY <1>1, JoinIs
<1>3. PICK j \in 1 .. Len(b) :
        Brings(b[j], f, v) /\ \A k \in (j + 1) .. Len(b) : Kept(b, j, k, f)
  BY DEF Ends
<1>a. Len(a) + j \in 0 .. (Len(a) + j) /\ j \in Nat
  BY <1>2
<1>4. \A k \in 1 .. Len(b) : Kept(b, j, k, f) => Kept(c, Len(a) + j, Len(a) + k, f)
  BY <1>1, <1>a, JoinKept
<1> HIDE DEF c
<1>5. ASSUME NEW k \in ((Len(a) + j) + 1) .. Len(c) PROVE Kept(c, Len(a) + j, k, f)
  <2>1. PICK h \in Int : h = k - Len(a)
    <3>1. k \in Int /\ Len(a) \in Int
      BY <1>2
    <3>2. k - Len(a) \in Int
      BY <3>1
    <3> QED BY <3>2
  <2>2. h \in 1 .. Len(b) /\ h \in (j + 1) .. Len(b) /\ k = Len(a) + h
    BY <1>2, <2>1
  <2> QED BY <1>3, <1>4, <2>2
<1>6. Len(a) + j \in 1 .. Len(c) /\ Brings(c[Len(a) + j], f, v)
  BY <1>2, <1>3
<1>7. Ends(c, f, v)
  BY <1>2, <1>5, <1>6 DEF Ends
<1> QED BY <1>7 DEF c

-----------------------------------------------------------------------------
(* What the pieces of a call do to a flag. *)

LEMMA OneKeeps ==
  ASSUME NEW a \in Access, NEW f, Spares(a, f)
  PROVE  Keeps(<<a>>, f)
<1>1. <<a>> \in Seq(Access) /\ Len(<<a>>) = 1 /\ <<a>>[1] = a
  OBVIOUS
<1> DEFINE s == <<a>>
<1> HIDE DEF s
<1>2. s \in Seq(Access) /\ \A k \in 1 .. Len(s) : s[k] = a
  BY <1>1 DEF s
<1>3. Keeps(s, f)
  BY <1>2 DEF Keeps, Kept
<1> QED BY <1>3 DEF s

LEMMA OneEnds ==
  ASSUME NEW a \in Access, NEW f, NEW v, Brings(a, f, v)
  PROVE  Ends(<<a>>, f, v)
<1>1. <<a>> \in Seq(Access) /\ Len(<<a>>) = 1 /\ <<a>>[1] = a
  OBVIOUS
<1> DEFINE s == <<a>>
<1> HIDE DEF s
<1>2. s \in Seq(Access) /\ 1 \in 1 .. Len(s) /\ (1 + 1) .. Len(s) = {} /\ s[1] = a
  BY <1>1 DEF s
<1>3. Ends(s, f, v)
  BY <1>2 DEF Ends
<1> QED BY <1>3 DEF s

\* A write of fields, which brings each to a level, and a change of flags.
LEMMA WriteDoes ==
  ASSUME NEW part \in SUBSET Flag, NEW add \in SUBSET Flag, NEW f
  PROVE  LET w == <<PmscWrite(part, add)>>
         IN  /\ f \in add => Ends(w, f, "on")
             /\ f \in part /\ f \notin add => Ends(w, f, "off")
             /\ f \notin part /\ f \notin add => Keeps(w, f)
<1>1. PICK a \in Access : a = PmscWrite(part, add)
  BY AccessesAre
<1>2. a.do = "put" /\ a.part = part /\ a.add = add /\ a.drop = part
  BY <1>1 DEF PmscWrite, PmscPut
<1>3. f \in add => Ends(<<a>>, f, "on")
  BY <1>2, OneEnds DEF Brings, Gives
<1>4. f \in part /\ f \notin add => Ends(<<a>>, f, "off")
  BY <1>2, OneEnds DEF Brings, Gives
<1>5. f \notin part /\ f \notin add => Keeps(<<a>>, f)
  BY <1>2, OneKeeps DEF Spares
<1> QED BY <1>1, <1>3, <1>4, <1>5

LEMMA ReadPutKeeps ==
  ASSUME NEW r \in Access, NEW p \in Access, NEW f,
         r.do = "read", Spares(p, f) \/ (PutsBack(p, f) /\ f \in r.part)
  PROVE  Keeps(<<r, p>>, f)
<1> DEFINE s == <<r, p>>
<1>1. s \in Seq(Access) /\ Len(s) = 2 /\ s[1] = r /\ s[2] = p
  OBVIOUS
<1> HIDE DEF s
<1>2. \A k \in 1 .. Len(s) : k = 1 \/ k = 2
  BY <1>1
<1>3. Kept(s, 0, 1, f)
  BY <1>1 DEF Kept, Spares
<1>4. Kept(s, 0, 2, f)
  <2>1. 1 \in (0 + 1) .. (2 - 1) /\ (1 + 1) .. (2 - 1) = {}
    OBVIOUS
  <2>2. f \in r.part => ReadFor(s, 0, 2, f)
    BY <1>1, <2>1 DEF ReadFor
  <2> QED BY <1>1, <2>2 DEF Kept
<1>5. Keeps(s, f)
  BY <1>1, <1>2, <1>3, <1>4 DEF Keeps
<1> QED BY <1>5 DEF s

LEMMA ReadPutEnds ==
  ASSUME NEW r \in Access, NEW p \in Access, NEW f, NEW v, Brings(p, f, v)
  PROVE  Ends(<<r, p>>, f, v)
<1> DEFINE s == <<r, p>>
<1>1. s \in Seq(Access) /\ Len(s) = 2 /\ s[1] = r /\ s[2] = p
  OBVIOUS
<1> HIDE DEF s
<1>2. 2 \in 1 .. Len(s) /\ (2 + 1) .. Len(s) = {}
  BY <1>1
<1>3. Ends(s, f, v)
  BY <1>1, <1>2 DEF Ends
<1> QED BY <1>3 DEF s

LEMMA ReadPutPutKeeps ==
  ASSUME NEW r \in Access, NEW p \in Access, NEW q \in Access, NEW f,
         r.do = "read", p.do = "put",
         Spares(p, f) \/ (PutsBack(p, f) /\ f \in r.part),
         Spares(q, f) \/ (PutsBack(q, f) /\ f \in r.part)
  PROVE  Keeps(<<r, p, q>>, f)
<1> DEFINE s == <<r, p, q>>
<1>1. s \in Seq(Access) /\ Len(s) = 3 /\ s[1] = r /\ s[2] = p /\ s[3] = q
  OBVIOUS
<1> HIDE DEF s
<1>2. \A k \in 1 .. Len(s) : k = 1 \/ k = 2 \/ k = 3
  BY <1>1
<1>3. Kept(s, 0, 1, f)
  BY <1>1 DEF Kept, Spares
<1>4. Kept(s, 0, 2, f)
  <2>1. 1 \in (0 + 1) .. (2 - 1) /\ (1 + 1) .. (2 - 1) = {}
    OBVIOUS
  <2>2. f \in r.part => ReadFor(s, 0, 2, f)
    BY <1>1, <2>1 DEF ReadFor
  <2> QED BY <1>1, <2>2 DEF Kept
<1>5. Kept(s, 0, 3, f)
  <2>1. 1 \in (0 + 1) .. (3 - 1) /\ \A l \in (1 + 1) .. (3 - 1) : l = 2
    OBVIOUS
  <2>2. f \in r.part => ReadFor(s, 0, 3, f)
    BY <1>1, <2>1 DEF ReadFor
  <2> QED BY <1>1, <2>2 DEF Kept
<1>6. Keeps(s, f)
  BY <1>1, <1>2, <1>3, <1>4, <1>5 DEF Keeps
<1> QED BY <1>6 DEF s

LEMMA ReadPutPutEnds ==
  ASSUME NEW r \in Access, NEW p \in Access, NEW q \in Access, NEW f, NEW v,
         Brings(q, f, v) \/ (Brings(p, f, v) /\ Spares(q, f))
  PROVE  Ends(<<r, p, q>>, f, v)
<1> DEFINE s == <<r, p, q>>
<1>1. s \in Seq(Access) /\ Len(s) = 3 /\ s[1] = r /\ s[2] = p /\ s[3] = q
  OBVIOUS
<1> HIDE DEF s
<1>2. CASE Brings(q, f, v)
  <2>1. 3 \in 1 .. Len(s) /\ (3 + 1) .. Len(s) = {}
    BY <1>1
  <2> QED BY <1>1, <1>2, <2>1 DEF Ends, s
<1>3. CASE Brings(p, f, v) /\ Spares(q, f)
  <2>1. 2 \in 1 .. Len(s) /\ \A k \in (2 + 1) .. Len(s) : k = 3
    BY <1>1
  <2>2. Kept(s, 2, 3, f)
    BY <1>1, <1>3 DEF Kept
  <2> QED BY <1>1, <1>3, <2>1, <2>2 DEF Ends, s
<1> QED BY <1>2, <1>3

LEMMA ChangeDoes ==
  ASSUME NEW part \in SUBSET Flag, NEW add \in SUBSET Flag, NEW drop \in SUBSET Flag, NEW f
  PROVE  LET c == PmscChange(part, add, drop)
         IN  /\ f \in add => Ends(c, f, "on")
             /\ f \in part /\ f \in drop /\ f \notin add => Ends(c, f, "off")
             /\ f \notin drop /\ f \notin add => Keeps(c, f)
<1>1. PICK r \in Access, p \in Access :
        r = Read(part) /\ p = PmscPut(part, add, drop)
  BY AccessesAre
<1>2. /\ r.do = "read" /\ r.part = part
      /\ p.do = "put" /\ p.part = part /\ p.add = add /\ p.drop = drop
  BY <1>1 DEF Read, PmscPut
<1>3. f \in add => Ends(<<r, p>>, f, "on")
  BY <1>2, ReadPutEnds DEF Brings, Gives
<1>4. f \in part /\ f \in drop /\ f \notin add => Ends(<<r, p>>, f, "off")
  BY <1>2, ReadPutEnds DEF Brings, Gives
<1>5. f \notin drop /\ f \notin add => Keeps(<<r, p>>, f)
  BY <1>2, ReadPutKeeps DEF Spares, PutsBack
<1> QED BY <1>1, <1>3, <1>4, <1>5 DEF PmscChange

LEMMA EnableDoes ==
  ASSUME NEW mode \in Modes, NEW f
  PROVE  /\ f \notin Forced(mode).add /\ f \notin Forced(mode).drop
              => Keeps(EnableClocks(mode), f)
         /\ (f \in Byte0 \cup Byte1
               /\ f \in Forced(mode).drop /\ f \notin Forced(mode).add)
              => Ends(EnableClocks(mode), f, "off")
<1>1. PICK add \in SUBSET Flag, drop \in SUBSET Flag :
        add = Forced(mode).add /\ drop = Forced(mode).drop
  BY ForcedAreFlags
<1>2. PICK r \in Access, p \in Access, q \in Access :
        /\ r = Read(Byte0 \cup Byte1)
        /\ p = PmscPut(Byte0, add \cap Byte0, drop)
        /\ q = PmscPut(Byte1, add \cap Byte1, drop)
  <2>1. /\ add \cap Byte0 \in SUBSET Flag /\ add \cap Byte1 \in SUBSET Flag
        /\ Byte0 \cup Byte1 \in SUBSET Flag
    BY PartsAreFlags
  <2> QED BY <2>1, PartsAreFlags, AccessesAre
<1>3. /\ r.do = "read" /\ r.part = Byte0 \cup Byte1
      /\ p.do = "put" /\ p.part = Byte0 /\ p.add = add \cap Byte0 /\ p.drop = drop
      /\ q.do = "put" /\ q.part = Byte1 /\ q.add = add \cap Byte1 /\ q.drop = drop
  BY <1>2 DEF Read, PmscPut
<1>4. EnableClocks(mode) = <<r, p, q>>
  BY <1>1, <1>2 DEF EnableClocks
<1>5. ASSUME f \notin add, f \notin drop PROVE Keeps(<<r, p, q>>, f)
  <2>1. Spares(p, f) \/ (PutsBack(p, f) /\ f \in r.part)
    BY <1>3, <1>5 DEF Spares, PutsBack
  <2>2. Spares(q, f) \/ (PutsBack(q, f) /\ f \in r.part)
    BY <1>3, <1>5 DEF Spares, PutsBack
  <2> QED BY <1>3, <2>1, <2>2, ReadPutPutKeeps
<1>6. ASSUME f \in Byte0 \cup Byte1, f \in drop, f \notin add
      PROVE  Ends(<<r, p, q>>, f, "off")
  <2>1. CASE f \in Byte1
    <3>1. Brings(q, f, "off")
      BY <1>3, <1>6, <2>1 DEF Brings, Gives
    <3> QED BY <3>1, ReadPutPutEnds
  <2>2. CASE f \notin Byte1
    <3>1. Brings(p, f, "off") /\ Spares(q, f)
      BY <1>3, <1>6, <2>2 DEF Brings, Gives, Spares
    <3> QED BY <3>1, ReadPutPutEnds
  <2> QED BY <2>1, <2>2
<1>7. f \notin add /\ f \notin drop => Keeps(EnableClocks(mode), f)
  BY <1>4, <1>5
<1>8. f \in Byte0 \cup Byte1 /\ f \in drop /\ f \notin add
        => Ends(EnableClocks(mode), f, "off")
  BY <1>4, <1>6
<1> QED BY <1>1, <1>7, <1>8

LEMMA UseKeeps ==
  ASSUME NEW needs \in SUBSET Flag, NEW not \in SUBSET Flag, NEW f
  PROVE  Keeps(Use(needs, not), f)
<1>1. PICK u : u = [do |-> "use", part |-> {}, add |-> needs, drop |-> not]
  OBVIOUS
<1>2. u \in Access /\ u.do = "use"
  BY <1>1 DEF Access
<1>3. Keeps(<<u>>, f)
  BY <1>2, OneKeeps DEF Spares
<1> QED BY <1>1, <1>3 DEF Use

LEMMA WokenKeeps == ASSUME NEW f PROVE Keeps(UseAsWoken({"SYS_XTI"}), f)
<1>1. PICK u : u = [do |-> "woken", part |-> {}, add |-> {"SYS_XTI"}, drop |-> {}]
  OBVIOUS
<1>2. u \in Access /\ u.do = "woken"
  <2>1. {"SYS_XTI"} \in SUBSET Flag
    BY DEF Flag, Ctrl0, Byte0, Sys
  <2> QED BY <1>1, <2>1 DEF Access
<1>3. Keeps(<<u>>, f)
  BY <1>2, OneKeeps DEF Spares
<1> QED BY <1>1, <1>3 DEF UseAsWoken

LEMMA FieldsOf ==
  /\ Byte0 = {"SYS_XTI", "SYS_PLL", "RX_PLL", "TX_PLL", "FACE"}
  /\ Byte1 = {"LDECE", "OTPCE", "ADCCE", "AMCE"}
  /\ Ctrl1Low = {"PKTSEQ", "ATXSLP", "ARXSLP"}
  /\ RfConf = {"RF_TX", "RF_CAL"}
  /\ Flags = {"GPCE", "GPDCE", "PLL2_SEQ_EN", "ATXSLP", "ARXSLP"}
<1>1. Flags = {"GPCE", "GPDCE", "PLL2_SEQ_EN", "ATXSLP", "ARXSLP"}
  <2>1. DOMAIN FlagOf = {"gpio", "leds", "sniff", "sleepAfterTx", "listen"}
    BY DEF FlagOf
  <2>2. /\ FlagOf["gpio"] = "GPCE" /\ FlagOf["leds"] = "GPDCE"
        /\ FlagOf["sniff"] = "PLL2_SEQ_EN" /\ FlagOf["sleepAfterTx"] = "ATXSLP"
        /\ FlagOf["listen"] = "ARXSLP"
    BY DEF FlagOf
  <2> QED BY <2>1, <2>2 DEF Flags
<1> QED BY <1>1 DEF Byte0, Byte1, Ctrl1Low, RfConf, Sys, Rx, Tx

LEMMA ModesAre ==
  /\ Forced("ENABLE_ALL_SEQ").add = {}
  /\ Forced("ENABLE_ALL_SEQ").drop = Byte0 \cup {"LDECE"}
  /\ Forced("FORCE_SYS_XTI").add = {"SYS_XTI"}
  /\ Forced("FORCE_SYS_XTI").drop = {"SYS_XTI", "SYS_PLL"}
  /\ Forced("FORCE_SYS_PLL").add = {"SYS_PLL"}
  /\ Forced("FORCE_SYS_PLL").drop = {"SYS_XTI", "SYS_PLL"}
  /\ Forced("READ_ACC_ON").add = {"RX_PLL", "FACE", "AMCE"}
  /\ Forced("READ_ACC_ON").drop = {"RX_PLL", "FACE"}
  /\ Forced("READ_ACC_OFF").add = {}
  /\ Forced("READ_ACC_OFF").drop = {"RX_PLL", "FACE", "AMCE"}
  /\ Forced("FORCE_TX_PLL").add = {"TX_PLL"}
  /\ Forced("FORCE_TX_PLL").drop = {"TX_PLL"}
  /\ Forced("FORCE_LDE").add = {"SYS_XTI", "LDECE", "OTPCE"}
  /\ Forced("FORCE_LDE").drop = Byte0 \cup Byte1
BY DEF Forced, Sys, Rx, Tx

\* A call that puts back what it has saved first.
PutsRight(seq, f) ==
  /\ seq \in Seq(Access)
  /\ seq[1].do = "save" /\ f \in seq[1].part
  /\ \E j \in 1 .. Len(seq) :
       /\ seq[j].do = "restore" /\ f \in seq[j].part
       /\ \A k \in (j + 1) .. Len(seq) : Kept(seq, j, k, f)
       /\ \A m \in 2 .. (j - 1) : seq[m].do # "save"
Same(seq, f) == Keeps(seq, f) \/ PutsRight(seq, f)

\* Whatever the call, these flags are off when it has ended; these are so unless
\* it leaves the clocks forced.
AlwaysOff == AccClocks \cup {"RF_CAL"}
ClockFlags == {"SYS_XTI", "SYS_PLL", "TX_PLL", "LDECE"}

\* What a call leaves: the flags of on and off, and the clocks "off", the "same"
\* or "forced".
Leaves(s, on, off, clocks) ==
  /\ \A f \in Flags :
       /\ f \in on => Ends(s, f, "on")
       /\ f \in off => Ends(s, f, "off")
       /\ f \notin on /\ f \notin off => Same(s, f)
  /\ \A f \in AlwaysOff : Same(s, f) \/ Ends(s, f, "off")
  /\ \A f \in ClockFlags :
       /\ clocks = "same" => Same(s, f)
       /\ clocks = "off" => Ends(s, f, "off")
  /\ \/ Ends(s, "RF_TX", "on") \/ Ends(s, "PKTSEQ", "on")
     \/ Same(s, "RF_TX") /\ Same(s, "PKTSEQ")

LEMMA PiecesDo ==
  ASSUME NEW f
  PROVE  /\ f \notin {"SYS_XTI", "SYS_PLL"} => Keeps(EnableClocks("FORCE_SYS_XTI"), f)
         /\ f \notin {"SYS_XTI", "SYS_PLL"} => Keeps(EnableClocks("FORCE_SYS_PLL"), f)
         /\ f # "TX_PLL" => Keeps(EnableClocks("FORCE_TX_PLL"), f)
         /\ f \notin Byte0 \cup {"LDECE"} => Keeps(EnableClocks("ENABLE_ALL_SEQ"), f)
         /\ f \in Byte0 \cup {"LDECE"} =>
              Ends(EnableClocks("ENABLE_ALL_SEQ"), f, "off")
         /\ f \notin AccClocks => Keeps(EnableClocks("READ_ACC_ON"), f)
         /\ f \notin AccClocks => Keeps(EnableClocks("READ_ACC_OFF"), f)
         /\ f \in AccClocks => Ends(EnableClocks("READ_ACC_OFF"), f, "off")
         /\ f \notin Byte0 \cup Byte1 => Keeps(EnableClocks("FORCE_LDE"), f)
         /\ f = "AMCE" => Ends(EnableClocks("FORCE_LDE"), f, "off")
<1>1. /\ "ENABLE_ALL_SEQ" \in Modes /\ "FORCE_SYS_XTI" \in Modes /\ "FORCE_SYS_PLL" \in Modes
      /\ "READ_ACC_ON" \in Modes /\ "READ_ACC_OFF" \in Modes /\ "FORCE_TX_PLL" \in Modes
      /\ "FORCE_LDE" \in Modes
  BY DEF Modes
<1>2. ASSUME NEW mode \in Modes
      PROVE  /\ f \notin Forced(mode).add /\ f \notin Forced(mode).drop
                  => Keeps(EnableClocks(mode), f)
             /\ (f \in Byte0 \cup Byte1
                   /\ f \in Forced(mode).drop /\ f \notin Forced(mode).add)
                  => Ends(EnableClocks(mode), f, "off")
  BY EnableDoes
<1>3. f \notin {"SYS_XTI", "SYS_PLL"} => Keeps(EnableClocks("FORCE_SYS_XTI"), f)
  BY <1>1, <1>2, ModesAre
<1>4. f \notin {"SYS_XTI", "SYS_PLL"} => Keeps(EnableClocks("FORCE_SYS_PLL"), f)
  BY <1>1, <1>2, ModesAre
<1>5. f # "TX_PLL" => Keeps(EnableClocks("FORCE_TX_PLL"), f)
  BY <1>1, <1>2, ModesAre
<1>6. f \notin Byte0 \cup {"LDECE"} => Keeps(EnableClocks("ENABLE_ALL_SEQ"), f)
  BY <1>1, <1>2, ModesAre
<1>7. f \in Byte0 \cup {"LDECE"} => Ends(EnableClocks("ENABLE_ALL_SEQ"), f, "off")
  BY <1>1, <1>2, ModesAre, FieldsOf
<1>8. f \notin AccClocks => Keeps(EnableClocks("READ_ACC_ON"), f)
  BY <1>1, <1>2, ModesAre DEF AccClocks
<1>9. f \notin AccClocks => Keeps(EnableClocks("READ_ACC_OFF"), f)
  BY <1>1, <1>2, ModesAre DEF AccClocks
<1>10. f \in AccClocks => Ends(EnableClocks("READ_ACC_OFF"), f, "off")
  BY <1>1, <1>2, ModesAre, FieldsOf DEF AccClocks
<1>11. f \notin Byte0 \cup Byte1 => Keeps(EnableClocks("FORCE_LDE"), f)
  BY <1>1, <1>2, ModesAre, FieldsOf
<1>12. f = "AMCE" => Ends(EnableClocks("FORCE_LDE"), f, "off")
  BY <1>1, <1>2, ModesAre, FieldsOf
<1> QED BY <1>3, <1>4, <1>5, <1>6, <1>7, <1>8, <1>9, <1>10, <1>11, <1>12

LEMMA UsesDo ==
  ASSUME NEW f
  PROVE  /\ Keeps(OtpWord, f) /\ Keeps(Use({"SYS_XTI"}, {}), f)
         /\ Keeps(Use({"RX_PLL", "FACE", "AMCE"}, {}), f)
         /\ Keeps(Use({"SYS_XTI", "LDECE", "OTPCE"}, {"SYS_PLL"}), f)
<1>1. /\ {"SYS_XTI"} \in SUBSET Flag /\ {} \in SUBSET Flag /\ {"SYS_PLL"} \in SUBSET Flag
      /\ {"RX_PLL", "FACE", "AMCE"} \in SUBSET Flag
      /\ {"SYS_XTI", "LDECE", "OTPCE"} \in SUBSET Flag
  BY FieldsOf DEF Flag, Ctrl0
<1>2. Keeps(Use({"SYS_XTI"}, {}), f)
  BY <1>1, UseKeeps
<1>3. Keeps(Use({"RX_PLL", "FACE", "AMCE"}, {}), f)
  BY <1>1, UseKeeps
<1>4. Keeps(Use({"SYS_XTI", "LDECE", "OTPCE"}, {"SYS_PLL"}), f)
  BY <1>1, UseKeeps
<1> QED BY <1>2, <1>3, <1>4 DEF OtpWord

LEMMA KeepsIsSeq ==
  /\ \A a, f : Keeps(a, f) => a \in Seq(Access)
  /\ \A a, f, v : Ends(a, f, v) => a \in Seq(Access)
BY DEF Keeps, Ends

\* A call whose pieces end with the sequencing of all clocks.
LEMMA SequencingDoes ==
  ASSUME NEW a \in Seq(Access), NEW f
  PROVE  LET s == a \o EnableClocks("ENABLE_ALL_SEQ")
         IN  /\ f \in Byte0 \cup {"LDECE"} => Ends(s, f, "off")
             /\ f \notin Byte0 \cup {"LDECE"} /\ Keeps(a, f) => Keeps(s, f)
             /\ \A v : f \notin Byte0 \cup {"LDECE"} /\ Ends(a, f, v) => Ends(s, f, v)
<1> DEFINE e == EnableClocks("ENABLE_ALL_SEQ")
<1>1. /\ f \notin Byte0 \cup {"LDECE"} => Keeps(e, f)
      /\ f \in Byte0 \cup {"LDECE"} => Ends(e, f, "off")
  BY PiecesDo
<1> HIDE DEF e
<1>2. f \in Byte0 \cup {"LDECE"} => Ends(a \o e, f, "off")
  BY <1>1, JoinEndsLast
<1>3. f \notin Byte0 \cup {"LDECE"} /\ Keeps(a, f) => Keeps(a \o e, f)
  BY <1>1, JoinKeeps
<1>4. \A v : f \notin Byte0 \cup {"LDECE"} /\ Ends(a, f, v) => Ends(a \o e, f, v)
  BY <1>1, JoinEnds
<1> QED BY <1>2, <1>3, <1>4 DEF e

\* A call that forces the clocks it needs and sequences them again.
LEMMA SequencedLeaves ==
  ASSUME NEW a \in Seq(Access),
         \A f : f \notin Byte0 \cup Byte1 => Keeps(a, f),
         Keeps(a, "AMCE") \/ Ends(a, "AMCE", "off")
  PROVE  Leaves(a \o EnableClocks("ENABLE_ALL_SEQ"), {}, {}, "off")
<1> DEFINE s == a \o EnableClocks("ENABLE_ALL_SEQ")
<1>1. ASSUME NEW f, f \notin Byte0 \cup Byte1
      PROVE  Keeps(s, f)
  <2>1. f \notin Byte0 \cup {"LDECE"}
    BY <1>1, FieldsOf
  <2> QED BY <1>1, <2>1, SequencingDoes
<1>2. ASSUME NEW f, f \in Byte0 \cup {"LDECE"}
      PROVE  Ends(s, f, "off")
  BY <1>2, SequencingDoes
<1>3. Keeps(s, "AMCE") \/ Ends(s, "AMCE", "off")
  <2>1. "AMCE" \notin Byte0 \cup {"LDECE"}
    BY FieldsOf
  <2> QED BY <2>1, SequencingDoes
<1> HIDE DEF s
<1>4. \A f \in Flags : Keeps(s, f)
  BY <1>1, FieldsOf
<1>5. \A f \in AlwaysOff : Keeps(s, f) \/ Ends(s, f, "off")
  <2>1. Keeps(s, "RF_CAL") /\ Ends(s, "RX_PLL", "off") /\ Ends(s, "FACE", "off")
    BY <1>1, <1>2, FieldsOf
  <2> QED BY <1>3, <2>1 DEF AlwaysOff, AccClocks
<1>6. \A f \in ClockFlags : Ends(s, f, "off")
  BY <1>2, FieldsOf DEF ClockFlags
<1>7. Keeps(s, "RF_TX") /\ Keeps(s, "PKTSEQ")
  BY <1>1, FieldsOf
<1>8. Leaves(s, {}, {}, "off")
  BY <1>4, <1>5, <1>6, <1>7 DEF Leaves, Same
<1> QED BY <1>8 DEF s

LEMMA XtiReadsLeave ==
  /\ Leaves(PmscOtpRead, {}, {}, "off") /\ Leaves(ReadAtXti, {}, {}, "off")
  /\ \A reads \in BOOLEAN : Leaves(PmscResume(reads), {}, {}, "off")
  /\ Leaves(PmscOtpWriteAndVerify, {}, {}, "forced")
<1> DEFINE e == EnableClocks("FORCE_SYS_XTI")
           u == Use({"SYS_XTI"}, {})
<1>1. \A f : f \notin {"SYS_XTI", "SYS_PLL"} => Keeps(e, f)
  BY PiecesDo
<1>2. \A f : Keeps(u, f)
  BY UsesDo
<1> HIDE DEF e, u
<1>3. \A f : f \notin {"SYS_XTI", "SYS_PLL"} => Keeps(e \o u, f)
  BY <1>1, <1>2, JoinKeeps
<1>4. e \in Seq(Access) /\ e \o u \in Seq(Access)
  <2>1. Keeps(e, "AMCE") /\ Keeps(e \o u, "AMCE")
    BY <1>1, <1>3
  <2> QED BY <2>1, KeepsIsSeq
<1>5. /\ Leaves(e \o EnableClocks("ENABLE_ALL_SEQ"), {}, {}, "off")
      /\ Leaves((e \o u) \o EnableClocks("ENABLE_ALL_SEQ"), {}, {}, "off")
  <2>1. /\ \A f : f \notin Byte0 \cup Byte1 => Keeps(e, f) /\ Keeps(e \o u, f)
        /\ Keeps(e, "AMCE") /\ Keeps(e \o u, "AMCE")
    BY <1>1, <1>3, FieldsOf
  <2> QED BY <1>4, <2>1, SequencedLeaves
<1>6. Leaves(e \o u, {}, {}, "forced")
  <2>1. PICK s : s = e \o u
    OBVIOUS
  <2>2. /\ \A f \in Flags : Keeps(s, f)
        /\ \A f \in AlwaysOff : Keeps(s, f)
        /\ Keeps(s, "RF_TX") /\ Keeps(s, "PKTSEQ")
    BY <1>3, <2>1, FieldsOf DEF AlwaysOff, AccClocks
  <2> QED BY <2>1, <2>2 DEF Leaves, Same
<1>7. \A reads \in BOOLEAN : Leaves(PmscResume(reads), {}, {}, "off")
  <2>1. PICK w : w = UseAsWoken({"SYS_XTI"})
    OBVIOUS
  <2>2. \A f : Keeps(w, f)
    BY <2>1, WokenKeeps
  <2>3. w \in Seq(Access)
    BY <2>2, KeepsIsSeq
  <2>4. Leaves(w \o EnableClocks("ENABLE_ALL_SEQ"), {}, {}, "off")
    BY <2>2, <2>3, SequencedLeaves
  <2> QED BY <1>5, <2>1, <2>4 DEF PmscResume, e
<1> QED BY <1>5, <1>6, <1>7 DEF e, u, PmscOtpRead, ReadAtXti, PmscOtpWriteAndVerify, OtpWord

LEMMA LoadLeaves ==
  /\ Leaves(LoadFromRom, {}, {}, "off")
  /\ \A f : f \notin Byte0 \cup Byte1 => Keeps(LoadFromRom, f)
  /\ Ends(LoadFromRom, "AMCE", "off")
<1> DEFINE e == EnableClocks("FORCE_LDE")
           u == Use({"SYS_XTI", "LDECE", "OTPCE"}, {"SYS_PLL"})
<1>1. /\ \A f : f \notin Byte0 \cup Byte1 => Keeps(e, f)
      /\ Ends(e, "AMCE", "off")
  BY PiecesDo
<1>2. \A f : Keeps(u, f)
  BY UsesDo
<1> HIDE DEF e, u
<1>3. \A f : f \notin Byte0 \cup Byte1 => Keeps(e \o u, f)
  BY <1>1, <1>2, JoinKeeps
<1>4. Ends(e \o u, "AMCE", "off")
  BY <1>1, <1>2, JoinEnds
<1>5. e \o u \in Seq(Access)
  BY <1>4, KeepsIsSeq
<1>6. Leaves((e \o u) \o EnableClocks("ENABLE_ALL_SEQ"), {}, {}, "off")
  BY <1>3, <1>4, <1>5, SequencedLeaves
<1>7. /\ Ends((e \o u) \o EnableClocks("ENABLE_ALL_SEQ"), "AMCE", "off")
      /\ \A f : f \notin Byte0 \cup Byte1
            => Keeps((e \o u) \o EnableClocks("ENABLE_ALL_SEQ"), f)
  <2>1. "AMCE" \notin Byte0 \cup {"LDECE"}
    BY FieldsOf
  <2>2. \A f : f \notin Byte0 \cup Byte1 => f \notin Byte0 \cup {"LDECE"}
    BY FieldsOf
  <2> QED BY <1>3, <1>4, <1>5, <2>1, <2>2, SequencingDoes
<1> QED BY <1>6, <1>7 DEF e, u, LoadFromRom

LEMMA AccLeaves ==
  /\ Leaves(ReadAccData, {}, {}, "same")
  /\ \A f \in AccClocks : Ends(ReadAccData, f, "off")
<1> DEFINE a == EnableClocks("READ_ACC_ON")
           u == Use({"RX_PLL", "FACE", "AMCE"}, {})
           b == EnableClocks("READ_ACC_OFF")
<1>1. /\ \A f : f \notin AccClocks => Keeps(a, f) /\ Keeps(b, f)
      /\ \A f \in AccClocks : Ends(b, f, "off")
  BY PiecesDo
<1>2. \A f : Keeps(u, f)
  BY UsesDo
<1> HIDE DEF a, u, b
<1>3. \A f : f \notin AccClocks => Keeps(a \o u, f)
  BY <1>1, <1>2, JoinKeeps
<1>4. a \o u \in Seq(Access)
  <2>1. "RF_TX" \notin AccClocks
    BY DEF AccClocks
  <2> QED BY <1>3, <2>1, KeepsIsSeq
<1>5. PICK s : s = (a \o u) \o b
  OBVIOUS
<1>6. \A f : f \notin AccClocks => Keeps(s, f)
  BY <1>1, <1>3, <1>5, JoinKeeps
<1>7. \A f \in AccClocks : Ends(s, f, "off")
  BY <1>1, <1>4, <1>5, JoinEndsLast
<1>8. Leaves(s, {}, {}, "same")
  <2>1. /\ \A f \in Flags \cup ClockFlags \cup {"RF_CAL", "RF_TX", "PKTSEQ"} : Keeps(s, f)
    BY <1>6, FieldsOf DEF AccClocks, ClockFlags
  <2> QED BY <1>7, <2>1 DEF Leaves, Same, AlwaysOff
<1> QED BY <1>5, <1>7, <1>8 DEF a, u, b, ReadAccData

LEMMA DisableIsSeq == Provided(DisableSequencing, {})
<1>1. Provided(EnableClocks("FORCE_SYS_XTI"), {})
  BY EnableUsesNothing DEF Modes
<1>2. Provided(<<PmscWrite(Ctrl1Low, {})>>, {})
  BY PartsAreFlags, WriteUsesNothing
<1> QED BY <1>1, <1>2, JoinProvided DEF DisableSequencing

LEMMA ResetLeaves ==
  /\ \A f : f \notin ResetFlags => Ends(PmscSoftReset, f, "off")
  /\ Ends(PmscSoftReset, "PKTSEQ", "on")
  /\ Leaves(PmscSoftReset, {}, Flags, "off")
<1>1. PICK a \in Access : a = Reset
  BY PartsAreFlags, AccessesAre
<1>2. a.do = "reset"
  BY <1>1 DEF Reset
<1>3. DisableSequencing \in Seq(Access)
  BY DisableIsSeq DEF Provided
<1>4. ASSUME NEW f, f \notin ResetFlags
      PROVE  Ends(PmscSoftReset, f, "off")
  <2>1. Ends(<<a>>, f, "off")
    BY <1>2, <1>4, OneEnds DEF Brings
  <2> QED BY <1>1, <1>3, <2>1, JoinEndsLast DEF PmscSoftReset
<1>5. Ends(PmscSoftReset, "PKTSEQ", "on")
  <2>1. Ends(<<a>>, "PKTSEQ", "on")
    BY <1>2, OneEnds DEF Brings, ResetFlags
  <2> QED BY <1>1, <1>3, <2>1, JoinEndsLast DEF PmscSoftReset
<1>6. PICK s : s = PmscSoftReset
  OBVIOUS
<1>7. \A f \in Flags \cup AlwaysOff \cup ClockFlags : Ends(s, f, "off")
  BY <1>4, <1>6, FieldsOf DEF AlwaysOff, AccClocks, ClockFlags, ResetFlags
<1>8. Leaves(s, {}, Flags, "off")
  BY <1>5, <1>6, <1>7 DEF Leaves
<1> QED BY <1>4, <1>5, <1>6, <1>8

LEMMA InitialiseLeaves ==
  ASSUME NEW ucode \in BOOLEAN
  PROVE  Leaves(PmscInitialise(ucode), {}, Flags, "off")
<1> DEFINE B == Byte0 \cup Byte1
<1>1. PICK a, b, c, d, e :
        /\ a = PmscSoftReset /\ b = EnableClocks("FORCE_SYS_XTI") /\ c = OtpWord
        /\ d = IF ucode THEN LoadFromRom ELSE PmscChange(Ctrl1, {}, {"LDERUNE"})
        /\ e = EnableClocks("ENABLE_ALL_SEQ")
  OBVIOUS
<1>2. PmscInitialise(ucode) = (((a \o b) \o c) \o d) \o e
  BY <1>1 DEF PmscInitialise
<1>3. \A f : f \notin B => Keeps(b, f) /\ Keeps(c, f)
  <2>1. \A f : f \notin B => f \notin {"SYS_XTI", "SYS_PLL"}
    BY FieldsOf
  <2> QED BY <1>1, <2>1, PiecesDo, UsesDo
<1>4. Keeps(b, "AMCE") /\ Keeps(c, "AMCE")
  <2>1. "AMCE" \notin {"SYS_XTI", "SYS_PLL"}
    OBVIOUS
  <2> QED BY <1>1, <2>1, PiecesDo, UsesDo
<1>5. /\ \A f : f \notin B \cup {"LDERUNE"} => Keeps(d, f)
      /\ Keeps(d, "AMCE") \/ Ends(d, "AMCE", "off")
  <2>1. CASE ucode
    <3>1. d = LoadFromRom
      BY <1>1, <2>1
    <3> QED BY <3>1, LoadLeaves
  <2>2. CASE ~ucode
    <3>1. d = PmscChange(Ctrl1, {}, {"LDERUNE"})
      BY <1>1, <2>2
    <3>2. {} \in SUBSET Flag /\ {"LDERUNE"} \in SUBSET Flag
      BY DEF Flag, Ctrl1
    <3>3. \A f : f # "LDERUNE" => Keeps(d, f)
      BY <3>1, <3>2, PartsAreFlags, ChangeDoes
    <3> QED BY <3>3
  <2> QED BY <2>1, <2>2
<1>6. \A f : f \notin ResetFlags => Ends(a, f, "off")
  BY <1>1, ResetLeaves
<1>7. Ends(a, "PKTSEQ", "on")
  BY <1>1, ResetLeaves
<1> HIDE DEF B
<1>8. PICK s : s = ((a \o b) \o c) \o d
  OBVIOUS
<1>9. ASSUME NEW f, NEW v, f \notin B \cup {"LDERUNE"}, Ends(a, f, v)
      PROVE  Ends(s, f, v)
  <2>1. Ends(a \o b, f, v)
    BY <1>3, <1>9, JoinEnds
  <2>2. Ends((a \o b) \o c, f, v)
    BY <1>3, <1>9, <2>1, JoinEnds
  <2> QED BY <1>5, <1>8, <1>9, <2>2, JoinEnds
<1>10. s \in Seq(Access) /\ Ends(s, "PKTSEQ", "on")
  <2>1. "PKTSEQ" \notin B \cup {"LDERUNE"}
    BY FieldsOf DEF B
  <2>2. Ends(s, "PKTSEQ", "on")
    BY <1>7, <1>9, <2>1
  <2> QED BY <2>2, KeepsIsSeq
<1>11. Ends(s, "AMCE", "off")
  <2>1. Ends(a, "AMCE", "off")
    BY <1>6 DEF ResetFlags
  <2>2. Ends(a \o b, "AMCE", "off")
    BY <1>4, <2>1, JoinEnds
  <2>3. Ends((a \o b) \o c, "AMCE", "off")
    BY <1>4, <2>2, JoinEnds
  <2>4. (a \o b) \o c \in Seq(Access)
    BY <2>3, KeepsIsSeq
  <2> QED BY <1>5, <1>8, <2>3, <2>4, JoinEnds, JoinEndsLast
<1>12. ASSUME NEW f \in Flags \cup {"RF_CAL"}
       PROVE  Ends(s, f, "off")
  <2>1. f \notin B \cup {"LDERUNE"} /\ f \notin ResetFlags
    BY FieldsOf DEF B, ResetFlags
  <2> QED BY <1>6, <1>9, <2>1
<1>13. PICK w : w = s \o e
  OBVIOUS
<1>14. /\ \A f : f \in Byte0 \cup {"LDECE"} => Ends(w, f, "off")
       /\ \A f, v : f \notin Byte0 \cup {"LDECE"} /\ Ends(s, f, v) => Ends(w, f, v)
  BY <1>1, <1>10, <1>13, SequencingDoes
<1>15. \A f \in Flags \cup AlwaysOff \cup ClockFlags : Ends(w, f, "off")
  BY <1>11, <1>12, <1>14, FieldsOf DEF AlwaysOff, AccClocks, ClockFlags
<1>16. Ends(w, "PKTSEQ", "on")
  BY <1>10, <1>14, FieldsOf
<1>17. Leaves(w, {}, Flags, "off")
  BY <1>15, <1>16 DEF Leaves
<1> QED BY <1>2, <1>8, <1>13, <1>17

LEMMA SetFlagLeaves ==
  ASSUME NEW name \in DOMAIN FlagOf
  PROVE  /\ Leaves(SetFlag(name, TRUE), {FlagOf[name]}, {}, "same")
         /\ name # "leds" => Leaves(SetFlag(name, FALSE), {}, {FlagOf[name]}, "same")
         /\ name = "leds" => Leaves(SetFlag(name, FALSE), {}, {}, "same")
<1>1. FlagOf[name] \in Flags
  BY DEF Flags
<1>2. PICK g \in Flags : g = FlagOf[name]
  BY <1>1
<1>3. PICK part : part = IF g \in Ctrl0 THEN Ctrl0 ELSE Ctrl1
  OBVIOUS
<1>4. g \in part /\ part \in SUBSET Flag /\ {g} \in SUBSET Flag /\ {} \in SUBSET Flag
  <2>1. g \in Ctrl0 \/ g \in Ctrl1
    BY FieldsOf DEF Ctrl0, Ctrl1
  <2> QED BY <1>3, <2>1, PartsAreFlags
<1>5. PICK x, y : x = PmscChange(part, {g}, {}) /\ y = PmscChange(part, {}, {g})
  OBVIOUS
<1>6. /\ SetFlag(name, TRUE) = x
      /\ name # "leds" => SetFlag(name, FALSE) = y
      /\ name = "leds" => SetFlag(name, FALSE) = <<>>
  BY <1>2, <1>3, <1>5 DEF SetFlag
<1>7. Ends(x, g, "on") /\ \A f : f # g => Keeps(x, f)
  BY <1>4, <1>5, ChangeDoes
<1>8. Ends(y, g, "off") /\ \A f : f # g => Keeps(y, f)
  BY <1>4, <1>5, ChangeDoes
<1>9. \A f \in AlwaysOff \cup ClockFlags \cup {"RF_TX", "PKTSEQ"} : f # g
  BY FieldsOf DEF AlwaysOff, AccClocks, ClockFlags
<1>10. Leaves(x, {g}, {}, "same") /\ Leaves(y, {}, {g}, "same")
  BY <1>7, <1>8, <1>9 DEF Leaves, Same
<1>11. Leaves(<<>>, {}, {}, "same")
  <2>1. PICK s : s = <<>>
    OBVIOUS
  <2>2. s \in Seq(Access) /\ 1 .. Len(s) = {}
    BY <2>1
  <2>3. \A f : Keeps(s, f)
    BY <2>2 DEF Keeps
  <2> QED BY <2>1, <2>3 DEF Leaves, Same
<1> QED BY <1>2, <1>6, <1>10, <1>11

\* dwt_rxreset clears its flag, and no other.
LEMMA RxResetLeaves == Leaves(PmscRxReset, {}, {"PLL2_SEQ_EN"}, "same")
<1>1. PICK w \in Access : w = PmscWrite({"PLL2_SEQ_EN"}, {})
  <2>1. {"PLL2_SEQ_EN"} \in SUBSET Flag /\ {} \in SUBSET Flag
    BY DEF Flag, Ctrl0
  <2> QED BY <2>1, AccessesAre
<1>2. w.do = "put" /\ w.part = {"PLL2_SEQ_EN"} /\ w.add = {} /\ w.drop = {"PLL2_SEQ_EN"}
  BY <1>1 DEF PmscWrite, PmscPut
<1>3. PICK s : s = <<w, w>>
  OBVIOUS
<1>4. s \in Seq(Access) /\ Len(s) = 2 /\ s[1] = w /\ s[2] = w
  BY <1>3
<1>5. Ends(s, "PLL2_SEQ_EN", "off")
  <2>1. 2 \in 1 .. Len(s) /\ (2 + 1) .. Len(s) = {}
    BY <1>4
  <2>2. Brings(s[2], "PLL2_SEQ_EN", "off")
    BY <1>2, <1>4 DEF Brings, Gives
  <2> QED BY <1>4, <2>1, <2>2 DEF Ends
<1>6. ASSUME NEW f, f # "PLL2_SEQ_EN" PROVE Keeps(s, f)
  <2>1. \A k \in 1 .. Len(s) : s[k] = w
    BY <1>4
  <2>2. Spares(w, f)
    BY <1>2, <1>6 DEF Spares
  <2> QED BY <1>4, <2>1, <2>2 DEF Keeps, Kept
<1>7. \A f \in AlwaysOff \cup ClockFlags \cup {"RF_TX", "PKTSEQ"} : f # "PLL2_SEQ_EN"
  BY FieldsOf DEF AlwaysOff, AccClocks, ClockFlags
<1>8. Leaves(s, {}, {"PLL2_SEQ_EN"}, "same")
  BY <1>5, <1>6, <1>7 DEF Leaves, Same
<1> QED BY <1>1, <1>3, <1>8 DEF PmscRxReset

LEMMA JoinOfThree ==
  ASSUME NEW d \in Seq(Access), NEW x \in Access, NEW y \in Access, NEW z \in Access
  PROVE  d \o <<x, y, z>> = ((d \o <<x>>) \o <<y>>) \o <<z>>
<1>1. /\ <<x>> \in Seq(Access) /\ <<y>> \in Seq(Access) /\ <<z>> \in Seq(Access)
      /\ Len(<<x>>) = 1 /\ Len(<<y>>) = 1 /\ Len(<<z>>) = 1
      /\ <<x>>[1] = x /\ <<y>>[1] = y /\ <<z>>[1] = z
  OBVIOUS
<1>2. /\ <<x, y, z>> \in Seq(Access) /\ Len(<<x, y, z>>) = 3
      /\ <<x, y, z>>[1] = x /\ <<x, y, z>>[2] = y /\ <<x, y, z>>[3] = z
  OBVIOUS
<1> DEFINE a == <<x>>
           b == <<y>>
           c == <<z>>
           t == <<x, y, z>>
<1> HIDE DEF a, b, c, t
<1>a. a \in Seq(Access) /\ b \in Seq(Access) /\ c \in Seq(Access)
  BY <1>1 DEF a, b, c
<1>c. c \in Seq(Access)
  BY <1>a
<1>3. /\ a \in Seq(Access) /\ b \in Seq(Access) /\ c \in Seq(Access)
      /\ Len(a) = 1 /\ Len(b) = 1 /\ Len(c) = 1 /\ a[1] = x /\ b[1] = y /\ c[1] = z
  BY <1>1 DEF a, b, c
<1>4. t \in Seq(Access) /\ Len(t) = 3 /\ t[1] = x /\ t[2] = y /\ t[3] = z
  BY <1>2 DEF t
<1>5. (a \o b) \o c = t
  <2> DEFINE e == a \o b
             g == e \o c
  <2>2. e \in Seq(Access) /\ Len(e) = 2 /\ e[1] = x /\ e[2] = y
    <3>1. /\ e \in Seq(Access) /\ Len(e) = Len(a) + Len(b)
          /\ \A i \in 1 .. Len(a) : e[i] = a[i]
          /\ \A i \in 1 .. Len(b) : e[Len(a) + i] = b[i]
      BY <1>a, JoinIs
    <3> HIDE DEF e
    <3>2. e[1 + 1] = b[1]
      BY <1>3, <3>1
    <3> QED BY <1>3, <3>1, <3>2
  <2> HIDE DEF e
  <2>a. e \in Seq(Access)
    BY <2>2
  <2>4. g \in Seq(Access) /\ Len(g) = 3 /\ g[1] = x /\ g[2] = y /\ g[3] = z
    <3>1. /\ g \in Seq(Access) /\ Len(g) = Len(e) + Len(c)
          /\ \A i \in 1 .. Len(e) : g[i] = e[i]
          /\ \A i \in 1 .. Len(c) : g[Len(e) + i] = c[i]
      BY <1>c, <2>a, JoinIs
    <3> HIDE DEF g
    <3>2. g[2 + 1] = c[1]
      BY <1>3, <2>2, <3>1
    <3> QED BY <1>3, <2>2, <3>1, <3>2
  <2> HIDE DEF g
  <2>5. \A i \in 1 .. Len(g) : g[i] = t[i]
    BY <1>4, <2>4
  <2>6. g = t
    BY <1>4, <2>4, <2>5, SeqEqual
  <2> QED BY <2>6 DEF e, g
<1>6. ((d \o a) \o b) \o c = d \o ((a \o b) \o c)
  <2>1. PICK h \in Seq(Access) : h = a \o b
    BY <1>a, JoinIs
  <2>2. (d \o a) \o b = d \o (a \o b)
    BY <1>a, ConcatAssociative
  <2>3. (d \o h) \o c = d \o (h \o c)
    BY <1>c, ConcatAssociative
  <2> QED BY <2>1, <2>2, <2>3
<1>7. d \o t = ((d \o a) \o b) \o c
  BY <1>5, <1>6
<1> QED BY <1>7 DEF a, b, c, t

LEMMA DisableDoes ==
  /\ \A f : f \notin {"SYS_XTI", "SYS_PLL"} \cup Ctrl1Low => Keeps(DisableSequencing, f)
  /\ \A f \in Ctrl1Low : Ends(DisableSequencing, f, "off")
<1>1. PICK a, b : /\ a = EnableClocks("FORCE_SYS_XTI")
                  /\ b = <<PmscWrite(Ctrl1Low, {})>>
  OBVIOUS
<1>2. DisableSequencing = a \o b
  BY <1>1 DEF DisableSequencing
<1>3. \A f : f \notin {"SYS_XTI", "SYS_PLL"} => Keeps(a, f)
  BY <1>1, PiecesDo
<1>4. {} \in SUBSET Flag
  OBVIOUS
<1>5. /\ \A f : f \notin Ctrl1Low => Keeps(b, f)
      /\ \A f \in Ctrl1Low : Ends(b, f, "off")
  BY <1>1, <1>4, PartsAreFlags, WriteDoes
<1>6. a \in Seq(Access)
  <2>1. Keeps(a, "AMCE")
    BY <1>3
  <2> QED BY <2>1, KeepsIsSeq
<1>7. \A f : f \notin {"SYS_XTI", "SYS_PLL"} \cup Ctrl1Low => Keeps(a \o b, f)
  BY <1>3, <1>5, JoinKeeps
<1>8. \A f \in Ctrl1Low : Ends(a \o b, f, "off")
  BY <1>5, <1>6, JoinEndsLast
<1> QED BY <1>2, <1>7, <1>8

LEMMA CwLeaves == Leaves(ConfigCwMode, {}, {"ATXSLP", "ARXSLP"}, "forced")
<1>1. PICK d, x, y, z :
        /\ d = DisableSequencing
        /\ x = PmscWrite(RfConf, {"RF_TX"})
        /\ y = PmscWrite(Byte0, {"SYS_PLL", "TX_PLL"})
        /\ z = PmscWrite(Byte1, {"LDECE", "OTPCE", "ADCCE"})
  OBVIOUS
<1>2. ConfigCwMode = d \o <<x, y, z>>
  BY <1>1 DEF ConfigCwMode
<1>3. /\ {"RF_TX"} \in SUBSET Flag /\ {"SYS_PLL", "TX_PLL"} \in SUBSET Flag
      /\ {"LDECE", "OTPCE", "ADCCE"} \in SUBSET Flag
  BY FieldsOf DEF Flag, Ctrl0
<1>4. x \in Access /\ y \in Access /\ z \in Access
  BY <1>1, <1>3, PartsAreFlags, AccessesAre
<1>5. \A f : /\ f = "RF_TX" => Ends(<<x>>, f, "on")
             /\ f = "RF_CAL" => Ends(<<x>>, f, "off")
             /\ f \notin {"RF_TX", "RF_CAL"} => Keeps(<<x>>, f)
  <2>1. \A f : /\ f \in {"RF_TX"} => Ends(<<x>>, f, "on")
               /\ f \in RfConf /\ f \notin {"RF_TX"} => Ends(<<x>>, f, "off")
               /\ f \notin RfConf /\ f \notin {"RF_TX"} => Keeps(<<x>>, f)
    BY <1>1, <1>3, PartsAreFlags, WriteDoes
  <2> QED BY <2>1, FieldsOf
<1>6. \A f : /\ f \in {"RX_PLL", "FACE"} => Ends(<<y>>, f, "off")
             /\ f \notin Byte0 => Keeps(<<y>>, f)
  <2>1. \A f : /\ (f \in Byte0 /\ f \notin {"SYS_PLL", "TX_PLL"}) => Ends(<<y>>, f, "off")
               /\ (f \notin Byte0 /\ f \notin {"SYS_PLL", "TX_PLL"}) => Keeps(<<y>>, f)
    BY <1>1, <1>3, PartsAreFlags, WriteDoes
  <2> QED BY <2>1, FieldsOf
<1>7. \A f : /\ f = "AMCE" => Ends(<<z>>, f, "off")
             /\ f \notin Byte1 => Keeps(<<z>>, f)
  <2>1. \A f : /\ (f \in Byte1 /\ f \notin {"LDECE", "OTPCE", "ADCCE"})
                    => Ends(<<z>>, f, "off")
               /\ (f \notin Byte1 /\ f \notin {"LDECE", "OTPCE", "ADCCE"})
                    => Keeps(<<z>>, f)
    BY <1>1, <1>3, PartsAreFlags, WriteDoes
  <2> QED BY <2>1, FieldsOf
<1>8. PICK s : s = ((d \o <<x>>) \o <<y>>) \o <<z>>
  OBVIOUS
<1>9. d \in Seq(Access) /\ d \o <<x>> \in Seq(Access) /\ (d \o <<x>>) \o <<y>> \in Seq(Access)
  <2>1. d \in Seq(Access)
    BY <1>1, DisableIsSeq DEF Provided
  <2>2. <<x>> \in Seq(Access) /\ <<y>> \in Seq(Access)
    BY <1>4
  <2> QED BY <2>1, <2>2, JoinIs
<1>10. ConfigCwMode = s
  BY <1>2, <1>4, <1>8, <1>9, JoinOfThree
<1>11. /\ \A f : f \notin {"SYS_XTI", "SYS_PLL"} \cup Ctrl1Low => Keeps(d, f)
       /\ \A f \in Ctrl1Low : Ends(d, f, "off")
  BY <1>1, DisableDoes
<1>12. \A f \in {"GPCE", "GPDCE", "PLL2_SEQ_EN"} : Keeps(s, f)
  <2> SUFFICES ASSUME NEW f \in {"GPCE", "GPDCE", "PLL2_SEQ_EN"} PROVE Keeps(s, f)
    OBVIOUS
  <2>1. Keeps(d, f) /\ Keeps(<<x>>, f) /\ Keeps(<<y>>, f) /\ Keeps(<<z>>, f)
    BY <1>5, <1>6, <1>7, <1>11, FieldsOf
  <2>2. Keeps(d \o <<x>>, f)
    BY <2>1, JoinKeeps
  <2>3. Keeps((d \o <<x>>) \o <<y>>, f)
    BY <2>1, <2>2, JoinKeeps
  <2> QED BY <1>8, <2>1, <2>3, JoinKeeps
<1>13. \A f \in {"ATXSLP", "ARXSLP"} : Ends(s, f, "off")
  <2> SUFFICES ASSUME NEW f \in {"ATXSLP", "ARXSLP"} PROVE Ends(s, f, "off")
    OBVIOUS
  <2>1. Ends(d, f, "off") /\ Keeps(<<x>>, f) /\ Keeps(<<y>>, f) /\ Keeps(<<z>>, f)
    BY <1>5, <1>6, <1>7, <1>11, FieldsOf
  <2>2. Ends(d \o <<x>>, f, "off")
    BY <2>1, JoinEnds
  <2>3. Ends((d \o <<x>>) \o <<y>>, f, "off")
    BY <2>1, <2>2, JoinEnds
  <2> QED BY <1>8, <2>1, <2>3, JoinEnds
<1>14. Ends(s, "RF_TX", "on") /\ Ends(s, "RF_CAL", "off")
  <2> SUFFICES ASSUME NEW f \in {"RF_TX", "RF_CAL"}, NEW v, Ends(<<x>>, f, v)
               PROVE  Ends(s, f, v)
    BY <1>5
  <2>1. Keeps(<<y>>, f) /\ Keeps(<<z>>, f)
    BY <1>6, <1>7, FieldsOf
  <2>2. Ends(d \o <<x>>, f, v)
    BY <1>9, JoinEndsLast
  <2>3. Ends((d \o <<x>>) \o <<y>>, f, v)
    BY <2>1, <2>2, JoinEnds
  <2> QED BY <1>8, <2>1, <2>3, JoinEnds
<1>15. Ends(s, "RX_PLL", "off") /\ Ends(s, "FACE", "off") /\ Ends(s, "AMCE", "off")
  <2>1. ASSUME NEW f \in {"RX_PLL", "FACE"} PROVE Ends(s, f, "off")
    <3>1. Ends(<<y>>, f, "off") /\ Keeps(<<z>>, f)
      BY <1>6, <1>7, FieldsOf
    <3>2. Ends((d \o <<x>>) \o <<y>>, f, "off")
      BY <1>9, <3>1, JoinEndsLast
    <3> QED BY <1>8, <3>1, <3>2, JoinEnds
  <2>2. Ends(s, "AMCE", "off")
    BY <1>7, <1>8, <1>9, JoinEndsLast
  <2> QED BY <2>1, <2>2
<1>16. \A f \in Flags : f \in {"GPCE", "GPDCE", "PLL2_SEQ_EN", "ATXSLP", "ARXSLP"}
  BY FieldsOf
<1>17. \A f \in AlwaysOff : Ends(s, f, "off")
  BY <1>14, <1>15 DEF AlwaysOff, AccClocks
<1>18. Leaves(s, {}, {"ATXSLP", "ARXSLP"}, "forced")
  BY <1>12, <1>13, <1>14, <1>16, <1>17 DEF Leaves, Same
<1> QED BY <1>10, <1>18

LEMMA FramesLeaves ==
  Leaves(ConfigContinuousFrameMode, {}, {"ATXSLP", "ARXSLP"}, "forced")
<1>1. PICK d, x, y, z :
        /\ d = DisableSequencing
        /\ x = <<PmscWrite(RfConf, {"RF_TX"})>>
        /\ y = EnableClocks("FORCE_SYS_PLL") /\ z = EnableClocks("FORCE_TX_PLL")
  OBVIOUS
<1>2. PICK s : s = ((d \o x) \o y) \o z
  OBVIOUS
<1>3. ConfigContinuousFrameMode = s
  BY <1>1, <1>2 DEF ConfigContinuousFrameMode
<1>4. \A f : /\ f = "RF_TX" => Ends(x, f, "on")
             /\ f = "RF_CAL" => Ends(x, f, "off")
             /\ f \notin {"RF_TX", "RF_CAL"} => Keeps(x, f)
  <2>1. {"RF_TX"} \in SUBSET Flag
    BY FieldsOf DEF Flag
  <2>2. \A f : /\ f \in {"RF_TX"} => Ends(x, f, "on")
               /\ f \in RfConf /\ f \notin {"RF_TX"} => Ends(x, f, "off")
               /\ f \notin RfConf /\ f \notin {"RF_TX"} => Keeps(x, f)
    BY <1>1, <2>1, PartsAreFlags, WriteDoes
  <2> QED BY <2>2, FieldsOf
<1>5. \A f : f \notin {"SYS_XTI", "SYS_PLL", "TX_PLL"} => Keeps(y, f) /\ Keeps(z, f)
  BY <1>1, PiecesDo
<1>6. /\ \A f : f \notin {"SYS_XTI", "SYS_PLL"} \cup Ctrl1Low => Keeps(d, f)
      /\ \A f \in Ctrl1Low : Ends(d, f, "off")
  BY <1>1, DisableDoes
<1>7. d \in Seq(Access)
  BY <1>1, DisableIsSeq DEF Provided
<1>8. \A f \in {"GPCE", "GPDCE", "PLL2_SEQ_EN", "RX_PLL", "FACE", "AMCE"} : Keeps(s, f)
  <2> SUFFICES ASSUME NEW f \in {"GPCE", "GPDCE", "PLL2_SEQ_EN", "RX_PLL", "FACE", "AMCE"}
               PROVE  Keeps(s, f)
    OBVIOUS
  <2>1. Keeps(d, f) /\ Keeps(x, f) /\ Keeps(y, f) /\ Keeps(z, f)
    BY <1>4, <1>5, <1>6, FieldsOf
  <2>2. Keeps(d \o x, f)
    BY <2>1, JoinKeeps
  <2>3. Keeps((d \o x) \o y, f)
    BY <2>1, <2>2, JoinKeeps
  <2> QED BY <1>2, <2>1, <2>3, JoinKeeps
<1>9. \A f \in {"ATXSLP", "ARXSLP"} : Ends(s, f, "off")
  <2> SUFFICES ASSUME NEW f \in {"ATXSLP", "ARXSLP"} PROVE Ends(s, f, "off")
    OBVIOUS
  <2>1. Ends(d, f, "off") /\ Keeps(x, f) /\ Keeps(y, f) /\ Keeps(z, f)
    BY <1>4, <1>5, <1>6, FieldsOf
  <2>2. Ends(d \o x, f, "off")
    BY <2>1, JoinEnds
  <2>3. Ends((d \o x) \o y, f, "off")
    BY <2>1, <2>2, JoinEnds
  <2> QED BY <1>2, <2>1, <2>3, JoinEnds
<1>10. Ends(s, "RF_TX", "on") /\ Ends(s, "RF_CAL", "off")
  <2> SUFFICES ASSUME NEW f \in {"RF_TX", "RF_CAL"}, NEW v, Ends(x, f, v)
               PROVE  Ends(s, f, v)
    BY <1>4
  <2>1. Keeps(y, f) /\ Keeps(z, f)
    BY <1>5
  <2>2. Ends(d \o x, f, v)
    BY <1>7, JoinEndsLast
  <2>3. Ends((d \o x) \o y, f, v)
    BY <2>1, <2>2, JoinEnds
  <2> QED BY <1>2, <2>1, <2>3, JoinEnds
<1>11. \A f \in Flags : f \in {"GPCE", "GPDCE", "PLL2_SEQ_EN", "ATXSLP", "ARXSLP"}
  BY FieldsOf
<1>12. Leaves(s, {}, {"ATXSLP", "ARXSLP"}, "forced")
  BY <1>8, <1>9, <1>10, <1>11 DEF Leaves, Same, AlwaysOff, AccClocks
<1> QED BY <1>3, <1>12

LEMMA CalibrateLeaves == Leaves(Calibrate, {}, {}, "same")
<1> DEFINE P == Byte0 \cup Ctrl1Low \cup RfConf
           a1 == Save(P)
           a2 == PmscWrite(Byte0, {"SYS_XTI"})
           a3 == PmscWrite(Ctrl1Low, {})
           a4 == PmscWrite(RfConf, {"RF_CAL"})
           a5 == PmscWrite(Byte0, {"SYS_PLL", "TX_PLL"})
           u == [do |-> "use", part |-> {}, add |-> {"SYS_PLL", "TX_PLL", "RF_CAL"},
                 drop |-> {"PKTSEQ"}]
           b1 == Restore(Byte0)
           b2 == Restore(Ctrl1Low)
           b3 == Restore(RfConf)
<1>1. Calibrate = (<<a1, a2, a3, a4, a5>> \o <<u>>) \o <<b1, b2, b3>>
  BY DEF Calibrate, Use
<1>2. /\ a1 \in Access /\ a2 \in Access /\ a3 \in Access /\ a4 \in Access /\ a5 \in Access
      /\ u \in Access /\ b1 \in Access /\ b2 \in Access /\ b3 \in Access
  <2>1. /\ {"SYS_XTI"} \in SUBSET Flag /\ {} \in SUBSET Flag /\ {"RF_CAL"} \in SUBSET Flag
        /\ {"SYS_PLL", "TX_PLL"} \in SUBSET Flag
        /\ {"SYS_PLL", "TX_PLL", "RF_CAL"} \in SUBSET Flag /\ {"PKTSEQ"} \in SUBSET Flag
    BY FieldsOf DEF Flag, Ctrl0, Ctrl1
  <2>2. P \in SUBSET Flag
    BY PartsAreFlags
  <2>3. u \in Access
    BY <2>1 DEF Access
  <2> QED BY <2>1, <2>2, <2>3, PartsAreFlags, AccessesAre
<1>3. /\ a1.do = "save" /\ a1.part = P
      /\ a2.do = "put" /\ a2.part = Byte0 /\ a2.add = {"SYS_XTI"}
      /\ a3.do = "put" /\ a3.part = Ctrl1Low /\ a3.add = {}
      /\ a4.do = "put" /\ a4.part = RfConf /\ a4.add = {"RF_CAL"}
      /\ a5.do = "put" /\ a5.part = Byte0 /\ a5.add = {"SYS_PLL", "TX_PLL"}
  BY DEF Save, PmscWrite, PmscPut
<1>4. /\ b1.do = "restore" /\ b1.part = Byte0 /\ b1.add = {}
      /\ b2.do = "restore" /\ b2.part = Ctrl1Low /\ b2.add = {}
      /\ b3.do = "restore" /\ b3.part = RfConf /\ b3.add = {}
      /\ u.do = "use"
  BY DEF Restore
<1> HIDE DEF a1, a2, a3, a4, a5, u, b1, b2, b3
<1>5. PICK c : c = (<<a1, a2, a3, a4, a5>> \o <<u>>) \o <<b1, b2, b3>>
  OBVIOUS
<1>6. /\ c \in Seq(Access) /\ Len(c) = 9
      /\ c[1] = a1 /\ c[2] = a2 /\ c[3] = a3 /\ c[4] = a4 /\ c[5] = a5 /\ c[6] = u
      /\ c[7] = b1 /\ c[8] = b2 /\ c[9] = b3
  <2> DEFINE a == <<a1, a2, a3, a4, a5>>
             b == <<b1, b2, b3>>
             e == <<u>>
             d == a \o e
             w == d \o b
  <2>1. /\ a \in Seq(Access) /\ Len(a) = 5
        /\ a[1] = a1 /\ a[2] = a2 /\ a[3] = a3 /\ a[4] = a4 /\ a[5] = a5
    BY <1>2
  <2>2. b \in Seq(Access) /\ Len(b) = 3 /\ b[1] = b1 /\ b[2] = b2 /\ b[3] = b3
    BY <1>2
  <2>3. e \in Seq(Access) /\ Len(e) = 1 /\ e[1] = u
    BY <1>2
  <2> HIDE DEF a, b, e
  <2>4. a \in Seq(Access) /\ e \in Seq(Access) /\ b \in Seq(Access)
    BY <2>1, <2>2, <2>3
  <2>5. /\ d \in Seq(Access) /\ Len(d) = Len(a) + Len(e)
        /\ \A i \in 1 .. Len(a) : d[i] = a[i]
        /\ \A i \in 1 .. Len(e) : d[Len(a) + i] = e[i]
    BY <2>4, JoinIs
  <2> HIDE DEF d
  <2>6. d[5 + 1] = e[1]
    BY <2>1, <2>3, <2>5
  <2>7. /\ d \in Seq(Access) /\ Len(d) = 6
        /\ d[1] = a1 /\ d[2] = a2 /\ d[3] = a3 /\ d[4] = a4 /\ d[5] = a5 /\ d[6] = u
    BY <2>1, <2>3, <2>5, <2>6
  <2>8. d \in Seq(Access)
    BY <2>7
  <2>9. /\ w \in Seq(Access) /\ Len(w) = Len(d) + Len(b)
        /\ \A i \in 1 .. Len(d) : w[i] = d[i]
        /\ \A i \in 1 .. Len(b) : w[Len(d) + i] = b[i]
    BY <2>4, <2>8, JoinIs
  <2> HIDE DEF w
  <2>10. w[6 + 1] = b[1] /\ w[6 + 2] = b[2] /\ w[6 + 3] = b[3]
    BY <2>2, <2>7, <2>9
  <2>11. /\ w \in Seq(Access) /\ Len(w) = 9
         /\ w[1] = a1 /\ w[2] = a2 /\ w[3] = a3 /\ w[4] = a4 /\ w[5] = a5 /\ w[6] = u
    BY <2>2, <2>7, <2>9
  <2>12. w[7] = b1 /\ w[8] = b2 /\ w[9] = b3
    BY <2>2, <2>10
  <2>13. c = w
    BY <1>5 DEF w, d, a, e, b
  <2> QED BY <2>11, <2>12, <2>13
<1>7. \A k \in 1 .. Len(c) : k \in {1, 2, 3, 4, 5, 6, 7, 8, 9}
  BY <1>6
<1>8. c[1].do = "save" /\ \A k \in 2 .. 9 : c[k].do # "save"
  <2>1. \A k \in 2 .. 9 : k \in {2, 3, 4, 5, 6, 7, 8, 9}
    OBVIOUS
  <2> QED BY <1>3, <1>4, <1>6, <2>1
<1>9. ASSUME NEW f, f \notin P
      PROVE  Keeps(c, f)
  <2>1. f \notin Byte0 /\ f \notin Ctrl1Low /\ f \notin RfConf
    BY <1>9
  <2>2. /\ f \notin {"SYS_XTI"} /\ f \notin {"RF_CAL"} /\ f \notin {"SYS_PLL", "TX_PLL"}
    BY <2>1, FieldsOf
  <2>3. \A k \in 1 .. Len(c) : Spares(c[k], f)
    <3>1. Spares(c[1], f) /\ Spares(c[2], f) /\ Spares(c[3], f)
      BY <1>3, <1>6, <2>1, <2>2 DEF Spares
    <3>2. Spares(c[4], f) /\ Spares(c[5], f) /\ Spares(c[6], f)
      BY <1>3, <1>4, <1>6, <2>1, <2>2 DEF Spares
    <3>3. Spares(c[7], f) /\ Spares(c[8], f) /\ Spares(c[9], f)
      BY <1>4, <1>6, <2>1 DEF Spares
    <3> QED BY <1>7, <3>1, <3>2, <3>3
  <2> QED BY <1>6, <2>3 DEF Keeps, Kept
<1>10. ASSUME NEW f, f \in P
       PROVE  PutsRight(c, f)
  <2>1. c[1].do = "save" /\ f \in c[1].part
    BY <1>3, <1>6, <1>10
  <2>2. \E j \in 7 .. 9 : /\ c[j].do = "restore" /\ f \in c[j].part
                          /\ \A k \in (j + 1) .. 9 : Spares(c[k], f)
    <3>1. CASE f \in Byte0
      <4>1. f \notin Ctrl1Low /\ f \notin RfConf
        BY <3>1, FieldsOf
      <4>2. Spares(c[8], f) /\ Spares(c[9], f)
        BY <1>4, <1>6, <4>1 DEF Spares
      <4>3. 7 \in 7 .. 9 /\ \A k \in (7 + 1) .. 9 : k = 8 \/ k = 9
        OBVIOUS
      <4> QED BY <1>4, <1>6, <3>1, <4>2, <4>3
    <3>2. CASE f \in Ctrl1Low
      <4>1. f \notin RfConf
        BY <3>2, FieldsOf
      <4>2. Spares(c[9], f)
        BY <1>4, <1>6, <4>1 DEF Spares
      <4>3. 8 \in 7 .. 9 /\ \A k \in (8 + 1) .. 9 : k = 9
        OBVIOUS
      <4> QED BY <1>4, <1>6, <3>2, <4>2, <4>3
    <3>3. CASE f \in RfConf
      <4>1. 9 \in 7 .. 9 /\ (9 + 1) .. 9 = {}
        OBVIOUS
      <4> QED BY <1>4, <1>6, <3>3, <4>1
    <3> QED BY <1>10, <3>1, <3>2, <3>3
  <2>3. PICK j \in 7 .. 9 : /\ c[j].do = "restore" /\ f \in c[j].part
                           /\ \A k \in (j + 1) .. 9 : Spares(c[k], f)
    BY <2>2
  <2>4. j \in 1 .. Len(c) /\ \A m \in 2 .. (j - 1) : c[m].do # "save"
    BY <1>6, <1>8
  <2> QED BY <1>6, <2>1, <2>3, <2>4 DEF PutsRight, Kept
<1> HIDE DEF P
<1>11. \A f : Same(c, f)
  BY <1>9, <1>10 DEF Same
<1>12. Leaves(c, {}, {}, "same")
  BY <1>11 DEF Leaves
<1> QED BY <1>1, <1>5, <1>12

\* What the flags and the sequencing are said to be after a call is what its
\* accesses leave.
LEMMA CallLeaves ==
  ASSUME NEW op \in KnownCalls, Call(op), ownFlags \subseteq Flags
  PROVE  \E on, off \in SUBSET Flags, clocks \in {"off", "same", "forced"} :
           /\ Leaves(Steps(op), on, off, clocks)
           /\ ownFlags' = (ownFlags \ off) \cup on /\ on \cap off = {}
           /\ clocks = "forced" => sequenced' = FALSE
           /\ clocks = "same" => sequenced' = sequenced
<1>1. op.call \in CallNames /\ op.on \in BOOLEAN
  BY DEF KnownCalls
<1>2. DOMAIN FlagOf = {"gpio", "leds", "sniff", "sleepAfterTx", "listen"}
  BY DEF FlagOf
<1>3. /\ ownFlags' =
           CASE op.call \in DOMAIN FlagOf /\ op.on -> ownFlags \cup {FlagOf[op.call]}
             [] op.call \in DOMAIN FlagOf \ {"leds"} /\ ~op.on -> ownFlags \ {FlagOf[op.call]}
             [] op.call \in {"softreset", "initialise"} -> {}
             [] op.call \in {"cw", "frames"}            -> ownFlags \ Ctrl1Low
             [] op.call = "rxreset"                     -> ownFlags \ {"PLL2_SEQ_EN"}
             [] OTHER                                   -> ownFlags
      /\ sequenced' =
           CASE op.call \in {"cw", "frames", "otpwriteandverify"} -> FALSE
             [] op.call \in DOMAIN FlagOf \cup {"readaccdata", "calibrate", "rxreset"} -> sequenced
             [] OTHER -> TRUE
  BY DEF Call
<1>4. CASE op.call \in DOMAIN FlagOf
  <2>1. PICK g \in Flags : g = FlagOf[op.call]
    BY <1>4 DEF Flags
  <2>2. Steps(op) = SetFlag(op.call, op.on)
    BY <1>2, <1>4 DEF Steps
  <2>3. sequenced' = sequenced
    BY <1>2, <1>3, <1>4
  <2>a. op.call \notin {"softreset", "initialise", "cw", "frames", "rxreset"}
    BY <1>2, <1>4
  <2>4. CASE op.on
    <3>1. ownFlags' = ownFlags \cup {g}
      <4>1. ownFlags' = ownFlags \cup {FlagOf[op.call]}
        BY <1>3, <1>4, <2>4, <2>a
      <4> QED BY <2>1, <4>1
    <3>2. Steps(op) = SetFlag(op.call, TRUE)
      BY <1>1, <2>2, <2>4
    <3>3. Leaves(Steps(op), {g}, {}, "same")
      BY <1>4, <2>1, <3>2, SetFlagLeaves
    <3>4. ownFlags' = (ownFlags \ {}) \cup {g} /\ {g} \cap {} = {}
      BY <3>1
    <3>5. {g} \in SUBSET Flags /\ {} \in SUBSET Flags
      OBVIOUS
    <3> QED BY <2>3, <3>3, <3>4, <3>5
  <2>5. CASE ~op.on /\ op.call # "leds"
    <3>1. ownFlags' = ownFlags \ {g}
      <4>1. ownFlags' = ownFlags \ {FlagOf[op.call]}
        BY <1>3, <1>4, <2>5, <2>a
      <4> QED BY <2>1, <4>1
    <3>2. Steps(op) = SetFlag(op.call, FALSE)
      BY <1>1, <2>2, <2>5
    <3>3. Leaves(Steps(op), {}, {g}, "same")
      BY <1>4, <2>1, <2>5, <3>2, SetFlagLeaves
    <3>4. ownFlags' = (ownFlags \ {g}) \cup {} /\ {} \cap {g} = {}
      BY <3>1
    <3>5. {g} \in SUBSET Flags /\ {} \in SUBSET Flags
      OBVIOUS
    <3> QED BY <2>3, <3>3, <3>4, <3>5
  <2>6. CASE ~op.on /\ op.call = "leds"
    <3>1. ownFlags' = (ownFlags \ {}) \cup {} /\ {} \cap {} = {}
      BY <1>3, <2>6, <2>a
    <3>2. Steps(op) = SetFlag(op.call, FALSE)
      BY <1>1, <2>2, <2>6
    <3>3. Leaves(Steps(op), {}, {}, "same")
      BY <1>4, <2>6, <3>2, SetFlagLeaves
    <3>4. {} \in SUBSET Flags
      OBVIOUS
    <3> QED BY <2>3, <3>1, <3>3, <3>4
  <2> QED BY <2>4, <2>5, <2>6
<1>5. CASE op.call \in {"otpread", "loadopsettab", "readtempvbat", "resume"}
  <2>1. ownFlags' = (ownFlags \ {}) \cup {} /\ {} \cap {} = {}
    BY <1>2, <1>3, <1>5
  <2>2. Leaves(Steps(op), {}, {}, "off")
    BY <1>1, <1>5, XtiReadsLeave, LoadLeaves DEF Steps
  <2>3. {} \in SUBSET Flags
    OBVIOUS
  <2> QED BY <2>1, <2>2, <2>3
<1>6. CASE op.call = "otpwriteandverify"
  <2>1. ownFlags' = (ownFlags \ {}) \cup {} /\ {} \cap {} = {} /\ sequenced' = FALSE
    BY <1>2, <1>3, <1>6
  <2>2. Leaves(Steps(op), {}, {}, "forced")
    BY <1>6, XtiReadsLeave DEF Steps
  <2>3. {} \in SUBSET Flags
    OBVIOUS
  <2> QED BY <2>1, <2>2, <2>3
<1>7. CASE op.call \in {"readaccdata", "calibrate"}
  <2>1. ownFlags' = (ownFlags \ {}) \cup {} /\ {} \cap {} = {} /\ sequenced' = sequenced
    BY <1>2, <1>3, <1>7
  <2>2. Leaves(Steps(op), {}, {}, "same")
    BY <1>7, AccLeaves, CalibrateLeaves DEF Steps
  <2>3. {} \in SUBSET Flags
    OBVIOUS
  <2> QED BY <2>1, <2>2, <2>3
<1>8. CASE op.call \in {"softreset", "initialise"}
  <2>1. ownFlags' = (ownFlags \ Flags) \cup {} /\ {} \cap Flags = {}
    BY <1>2, <1>3, <1>8
  <2>2. Leaves(Steps(op), {}, Flags, "off")
    BY <1>1, <1>8, ResetLeaves, InitialiseLeaves DEF Steps
  <2>3. {} \in SUBSET Flags /\ Flags \in SUBSET Flags
    OBVIOUS
  <2> QED BY <2>1, <2>2, <2>3
<1>9. CASE op.call \in {"cw", "frames"}
  <2>1. ownFlags' = ownFlags \ Ctrl1Low /\ sequenced' = FALSE
    BY <1>2, <1>3, <1>9
  <2>2. ownFlags' = (ownFlags \ {"ATXSLP", "ARXSLP"}) \cup {} /\ {} \cap {"ATXSLP", "ARXSLP"} = {}
    BY <2>1, FieldsOf
  <2>3. Leaves(Steps(op), {}, {"ATXSLP", "ARXSLP"}, "forced")
    BY <1>9, CwLeaves, FramesLeaves DEF Steps
  <2>4. {} \in SUBSET Flags /\ {"ATXSLP", "ARXSLP"} \in SUBSET Flags
    BY FieldsOf
  <2> QED BY <2>1, <2>2, <2>3, <2>4
<1>10. CASE op.call = "rxreset"
  <2>1. /\ ownFlags' = (ownFlags \ {"PLL2_SEQ_EN"}) \cup {} /\ {} \cap {"PLL2_SEQ_EN"} = {}
        /\ sequenced' = sequenced
    BY <1>2, <1>3, <1>10
  <2>2. Leaves(Steps(op), {}, {"PLL2_SEQ_EN"}, "same")
    BY <1>10, RxResetLeaves DEF Steps
  <2>3. {} \in SUBSET Flags /\ {"PLL2_SEQ_EN"} \in SUBSET Flags
    BY FieldsOf
  <2> QED BY <2>1, <2>2, <2>3
<1> QED BY <1>1, <1>2, <1>4, <1>5, <1>6, <1>7, <1>8, <1>9, <1>10 DEF CallNames

-----------------------------------------------------------------------------
(* The invariant of AsLeft. *)

\* The routine runs nothing, or what is left of a reset of the receiver.
Resetting ==
  \A i \in 1 .. Len(todo["isr"]) : todo["isr"][i] = PmscWrite({"PLL2_SEQ_EN"}, {})

\* The registers for the call of the main loop, as if the flags a callback puts
\* back were off while it runs.
View == IF Resetting THEN reg ELSE reg \ AccClocks
MainEnds(f, v) == StillEnds(todo["main"], f, v, tmp["main"], saved["main"], View)

LeftInv ==
  /\ ClockInv
  /\ saved = [p \in Both |-> saved[p]]
  /\ inIsr \subseteq {"readaccdata", "rxreset"}
  /\ ownFlags \subseteq Flags
  /\ \A f \in Flags : /\ f \in ownFlags \ LostInIsr => MainEnds(f, "on")
                      /\ f \notin ownFlags => MainEnds(f, "off")
  /\ \A f \in AlwaysOff : MainEnds(f, "off")
  /\ sequenced => \A f \in ClockFlags : MainEnds(f, "off")
  /\ MainEnds("RF_TX", "on") \/ MainEnds("PKTSEQ", "on")
  /\ \/ Resetting /\ (todo["isr"] = <<>> \/ "rxreset" \in inIsr)
     \/ /\ \A f \in AccClocks : StillEnds(todo["isr"], f, "off", tmp["isr"], saved["isr"], reg)
        /\ \E R : StillTransparent(todo["isr"], AccClocks, R, tmp["isr"], reg)

LEMMA EndedIsAt ==
  ASSUME NEW f, NEW v, NEW t, NEW sv, NEW r
  PROVE  StillEnds(<<>>, f, v, t, sv, r) <=> IsAt(f, v, r)
<1>1. /\ <<>> \in Seq(Access) /\ Len(<<>>) = 0 /\ 1 .. 0 = {}
  OBVIOUS
<1> DEFINE s == <<>>
<1> HIDE DEF s
<1>2. s \in Seq(Access) /\ Len(s) = 0 /\ 1 .. Len(s) = {}
  BY <1>1 DEF s
<1>3. StillEnds(s, f, v, t, sv, r) <=> IsAt(f, v, r)
  BY <1>2 DEF StillEnds, Ends, Restores
<1> QED BY <1>3 DEF s

LEMMA EndsAgree ==
  ASSUME NEW seq, NEW f, NEW v, NEW t, NEW sv, NEW r, NEW r2,
         StillEnds(seq, f, v, t, sv, r), IsAt(f, v, r) => IsAt(f, v, r2)
  PROVE  StillEnds(seq, f, v, t, sv, r2)
<1>1. CASE Ends(seq, f, v)
  BY <1>1 DEF StillEnds
<1>2. CASE IsAt(f, v, r) /\ \A k \in 1 .. Len(seq) : StillKept(seq, k, f, v, t)
  BY <1>2 DEF StillEnds
<1>3. CASE Restores(seq, f, v, sv, r)
  <2>1. Restores(seq, f, v, sv, r2)
    BY <1>3 DEF Restores
  <2> QED BY <2>1 DEF StillEnds
<1> QED BY <1>1, <1>2, <1>3 DEF StillEnds

\* Nothing but a reset of the receiver left: the other flags are where they end.
LEMMA ResettingIsAt ==
  ASSUME NEW seq \in Seq(Access), NEW f, f # "PLL2_SEQ_EN", NEW t, NEW sv, NEW r,
         \A i \in 1 .. Len(seq) : seq[i] = PmscWrite({"PLL2_SEQ_EN"}, {}),
         StillEnds(seq, f, "off", t, sv, r)
  PROVE  f \notin r
<1>1. PICK w : w = PmscWrite({"PLL2_SEQ_EN"}, {})
  OBVIOUS
<1>2. w.do = "put" /\ w.part = {"PLL2_SEQ_EN"} /\ w.add = {} /\ w.drop = {"PLL2_SEQ_EN"}
  BY <1>1 DEF PmscWrite, PmscPut
<1>3. ~Brings(w, f, "off")
  BY <1>2 DEF Brings, Gives
<1>4. ~Ends(seq, f, "off")
  BY <1>1, <1>3 DEF Ends
<1>5. ~Restores(seq, f, "off", sv, r)
  BY <1>1, <1>2 DEF Restores
<1>6. IsAt(f, "off", r)
  BY <1>4, <1>5 DEF StillEnds
<1> QED BY <1>6 DEF IsAt

LEMMA EndsFromStart ==
  ASSUME NEW seq, NEW f, NEW v, NEW t, NEW sv, NEW r,
         Ends(seq, f, v) \/ (Same(seq, f) /\ IsAt(f, v, r))
  PROVE  StillEnds(seq, f, v, t, sv, r)
<1>1. CASE Ends(seq, f, v)
  BY <1>1 DEF StillEnds, Ends
<1>2. CASE Keeps(seq, f) /\ IsAt(f, v, r)
  <2>1. \A k \in 1 .. Len(seq) : StillKept(seq, k, f, v, t)
    BY <1>2, KeptIsStill DEF Keeps
  <2> QED BY <1>2, <2>1 DEF StillEnds, Keeps
<1>3. CASE PutsRight(seq, f) /\ IsAt(f, v, r)
  <2>1. Restores(seq, f, v, sv, r)
    BY <1>3 DEF PutsRight, Restores
  <2> QED BY <1>3, <2>1 DEF StillEnds, PutsRight
<1> QED BY <1>1, <1>2, <1>3 DEF Same

LEMMA NotAcc ==
  \A f \in Flags \cup {"RF_TX", "PKTSEQ"} : f \notin AccClocks
BY FieldsOf DEF AccClocks

LEMMA LeftInvInit == CallsPutBack /\ PmscInit => LeftInv
<1> SUFFICES ASSUME CallsPutBack, PmscInit PROVE LeftInv
  OBVIOUS
<1>1. ClockInv
  BY ClockInvInit DEF CallsPutBack
<1>2. /\ todo["main"] = <<>> /\ todo["isr"] = <<>> /\ saved = [p \in Both |-> {}]
      /\ reg = ResetFlags /\ ownFlags = {} /\ inIsr \in Nested
  BY DEF PmscInit, Both
<1>3. Resetting /\ View = reg
  BY <1>2 DEF Resetting, View
<1>4. \A f, v : IsAt(f, v, reg) => MainEnds(f, v)
  BY <1>2, <1>3, EndedIsAt DEF MainEnds
<1>5. saved = [p \in Both |-> saved[p]] /\ inIsr \subseteq {"readaccdata", "rxreset"}
  BY <1>2 DEF CallsPutBack
<1>6. \A f \in Flags \cup AlwaysOff \cup ClockFlags : IsAt(f, "off", reg)
  BY <1>2, FieldsOf DEF AlwaysOff, AccClocks, ClockFlags, IsAt, ResetFlags
<1>7. IsAt("PKTSEQ", "on", reg)
  BY <1>2 DEF IsAt, ResetFlags
<1> QED BY <1>1, <1>2, <1>3, <1>4, <1>5, <1>6, <1>7 DEF LeftInv

LEMMA CallLeft ==
  ASSUME LeftInv, CallsPutBack, NEW op \in Ops, Call(op)
  PROVE  LeftInv'
<1>1. ClockInv'
  BY CallKeeps DEF LeftInv, CallsPutBack
<1>2. op \in KnownCalls
  BY DEF CallsPutBack, CallsKnown
<1>3. PICK on, off \in SUBSET Flags, clocks \in {"off", "same", "forced"} :
        /\ Leaves(Steps(op), on, off, clocks)
        /\ ownFlags' = (ownFlags \ off) \cup on /\ on \cap off = {}
        /\ clocks = "forced" => sequenced' = FALSE
        /\ clocks = "same" => sequenced' = sequenced
  BY <1>2, CallLeaves DEF LeftInv
<1>4. PICK new : new = Steps(op)
  OBVIOUS
<1>5. /\ todo["main"] = <<>> /\ todo["isr"] = <<>>
      /\ todo' = [todo EXCEPT !["main"] = new] /\ UNCHANGED <<reg, inIsr, tmp, saved>>
  BY <1>4 DEF Call, PmscIdle
<1>6. /\ todo'["main"] = new /\ todo'["isr"] = <<>> /\ Resetting' /\ View = reg /\ View' = reg
      /\ LostInIsr' = LostInIsr
  <2>1. todo'["main"] = new /\ todo'["isr"] = <<>>
    BY <1>5 DEF LeftInv, ClockInv, Both
  <2>2. Resetting /\ Resetting'
    BY <1>5, <2>1 DEF Resetting
  <2> QED BY <1>5, <2>1, <2>2 DEF View, LostInIsr
<1>7. \A f, v : MainEnds(f, v) => IsAt(f, v, reg)
  BY <1>5, <1>6, EndedIsAt DEF MainEnds
<1>8. \A f, v : Ends(new, f, v) \/ (Same(new, f) /\ IsAt(f, v, reg)) => MainEnds(f, v)'
  BY <1>5, <1>6, EndsFromStart DEF MainEnds
<1>9. \A f \in Flags : /\ f \in (ownFlags \ LostInIsr)' => MainEnds(f, "on")'
                       /\ f \notin ownFlags' => MainEnds(f, "off")'
  <2> SUFFICES ASSUME NEW f \in Flags
               PROVE  /\ f \in (ownFlags \ LostInIsr)' => MainEnds(f, "on")'
                      /\ f \notin ownFlags' => MainEnds(f, "off")'
    OBVIOUS
  <2>1. CASE f \in on
    <3>1. f \in ownFlags' /\ Ends(new, f, "on")
      BY <1>3, <1>4, <2>1 DEF Leaves
    <3> QED BY <1>8, <3>1
  <2>2. CASE f \in off
    <3>1. f \notin ownFlags' /\ Ends(new, f, "off")
      BY <1>3, <1>4, <2>2 DEF Leaves
    <3> QED BY <1>8, <3>1
  <2>3. CASE f \notin on /\ f \notin off
    <3>1. (f \in ownFlags' <=> f \in ownFlags) /\ Same(new, f)
      BY <1>3, <1>4, <2>3 DEF Leaves
    <3>2. (f \in ownFlags \ LostInIsr => MainEnds(f, "on")) /\ (f \notin ownFlags => MainEnds(f, "off"))
      BY DEF LeftInv
    <3>3. (f \in ownFlags \ LostInIsr => IsAt(f, "on", reg)) /\ (f \notin ownFlags => IsAt(f, "off", reg))
      BY <1>7, <3>2
    <3> QED BY <1>6, <1>8, <3>1, <3>3
  <2> QED BY <2>1, <2>2, <2>3
<1>10. \A f \in AlwaysOff : MainEnds(f, "off")'
  <2>1. \A f \in AlwaysOff : Same(new, f) \/ Ends(new, f, "off")
    BY <1>3, <1>4 DEF Leaves
  <2>2. \A f \in AlwaysOff : IsAt(f, "off", reg)
    BY <1>7 DEF LeftInv
  <2> QED BY <1>8, <2>1, <2>2
<1>11. sequenced' => \A f \in ClockFlags : MainEnds(f, "off")'
  <2>1. CASE clocks = "off"
    <3>1. \A f \in ClockFlags : Ends(new, f, "off")
      BY <1>3, <1>4, <2>1 DEF Leaves
    <3> QED BY <1>8, <3>1
  <2>2. CASE clocks = "same"
    <3>1. \A f \in ClockFlags : Same(new, f)
      BY <1>3, <1>4, <2>2 DEF Leaves
    <3>2. sequenced' = sequenced
      BY <1>3, <2>2
    <3>3. sequenced => \A f \in ClockFlags : IsAt(f, "off", reg)
      BY <1>7 DEF LeftInv
    <3> QED BY <1>8, <3>1, <3>2, <3>3
  <2>3. CASE clocks = "forced"
    BY <1>3, <2>3
  <2> QED BY <2>1, <2>2, <2>3
<1>12. MainEnds("RF_TX", "on")' \/ MainEnds("PKTSEQ", "on")'
  <2>1. \/ Ends(new, "RF_TX", "on") \/ Ends(new, "PKTSEQ", "on")
        \/ Same(new, "RF_TX") /\ Same(new, "PKTSEQ")
    BY <1>3, <1>4 DEF Leaves
  <2>2. IsAt("RF_TX", "on", reg) \/ IsAt("PKTSEQ", "on", reg)
    BY <1>7 DEF LeftInv
  <2> QED BY <1>8, <2>1, <2>2
<1>13. /\ saved' = [p \in Both |-> saved'[p]] /\ inIsr' \subseteq {"readaccdata", "rxreset"}
       /\ ownFlags' \subseteq Flags
  BY <1>3, <1>5 DEF LeftInv
<1> QED BY <1>1, <1>6, <1>9, <1>10, <1>11, <1>12, <1>13 DEF LeftInv

LEMMA InterruptLeft ==
  ASSUME LeftInv, NEW call \in inIsr, Interrupt(call)
  PROVE  LeftInv'
<1>1. ClockInv'
  BY InterruptKeeps DEF LeftInv
<1>2. call = "readaccdata" \/ call = "rxreset"
  BY DEF LeftInv
<1>3. PICK new : new = Steps([call |-> call, on |-> FALSE])
  OBVIOUS
<1>4. /\ todo["isr"] = <<>> /\ todo' = [todo EXCEPT !["isr"] = new]
      /\ UNCHANGED <<reg, inIsr, tmp, saved, ownFlags, sequenced>>
  BY <1>2, <1>3 DEF Interrupt
<1>5. todo'["isr"] = new /\ todo'["main"] = todo["main"]
  BY <1>4 DEF LeftInv, ClockInv, Both
<1>6. View = reg /\ (View' = reg \/ View' = reg \ AccClocks) /\ LostInIsr' = LostInIsr
  <2>1. Resetting
    BY <1>4 DEF Resetting
  <2> QED BY <1>4, <2>1 DEF View, LostInIsr
<1>8. \A f, v : f \notin AccClocks \/ v = "off" => (IsAt(f, v, View) => IsAt(f, v, View'))
  BY <1>6 DEF IsAt
<1>9. \A f, v : (f \notin AccClocks \/ v = "off") /\ MainEnds(f, v) => MainEnds(f, v)'
  <2> SUFFICES ASSUME NEW f, NEW v, f \notin AccClocks \/ v = "off", MainEnds(f, v)
               PROVE  MainEnds(f, v)'
    OBVIOUS
  <2>1. IsAt(f, v, View) => IsAt(f, v, View')
    BY <1>8
  <2>2. StillEnds(todo["main"], f, v, tmp["main"], saved["main"], View)
    BY DEF MainEnds
  <2>3. StillEnds(todo["main"], f, v, tmp["main"], saved["main"], View')
    BY <2>1, <2>2, EndsAgree
  <2> QED BY <1>4, <1>5, <2>3 DEF MainEnds
<1>10. \/ Resetting' /\ (todo'["isr"] = <<>> \/ "rxreset" \in inIsr')
       \/ /\ \A f \in AccClocks :
                StillEnds(todo'["isr"], f, "off", tmp'["isr"], saved'["isr"], reg')
          /\ \E R : StillTransparent(todo'["isr"], AccClocks, R, tmp'["isr"], reg')
  <2>1. CASE call = "readaccdata"
    <3>1. new = ReadAccData
      BY <1>3, <2>1 DEF Steps
    <3>2. \A f \in AccClocks : Ends(new, f, "off")
      BY <3>1, AccLeaves
    <3>3. \A f \in AccClocks :
            StillEnds(todo'["isr"], f, "off", tmp'["isr"], saved'["isr"], reg')
      BY <1>5, <3>2, EndsFromStart
    <3>4. Transparent(new, AccClocks, Byte0 \cup Byte1)
      BY <3>1, ReadAccDataTransparent
    <3>5. StillTransparent(todo'["isr"], AccClocks, Byte0 \cup Byte1, tmp'["isr"], reg')
      BY <1>5, <3>4, StillTransparentFromStart
    <3> QED BY <3>3, <3>5
  <2>2. CASE call = "rxreset"
    <3>1. PICK w : w = PmscWrite({"PLL2_SEQ_EN"}, {})
      OBVIOUS
    <3>2. new = <<w, w>>
      BY <1>3, <2>2, <3>1 DEF Steps, PmscRxReset
    <3>3. \A i \in 1 .. Len(new) : new[i] = w
      BY <3>2
    <3>4. Resetting'
      BY <1>5, <3>1, <3>3 DEF Resetting
    <3> QED BY <1>4, <2>2, <3>4
  <2> QED BY <1>2, <2>1, <2>2
<1>11. \A f \in Flags : /\ f \in (ownFlags \ LostInIsr)' => MainEnds(f, "on")'
                        /\ f \notin ownFlags' => MainEnds(f, "off")'
  <2> SUFFICES ASSUME NEW f \in Flags
               PROVE  /\ f \in (ownFlags \ LostInIsr)' => MainEnds(f, "on")'
                      /\ f \notin ownFlags' => MainEnds(f, "off")'
    OBVIOUS
  <2>1. (f \in ownFlags \ LostInIsr => MainEnds(f, "on")) /\ (f \notin ownFlags => MainEnds(f, "off"))
    BY DEF LeftInv
  <2> QED BY <1>4, <1>6, <1>9, <2>1, NotAcc
<1>12. \A f \in AlwaysOff : MainEnds(f, "off")'
  BY <1>9 DEF LeftInv
<1>13. sequenced' => \A f \in ClockFlags : MainEnds(f, "off")'
  BY <1>4, <1>9 DEF LeftInv
<1>14. MainEnds("RF_TX", "on")' \/ MainEnds("PKTSEQ", "on")'
  BY <1>9, NotAcc DEF LeftInv
<1>15. /\ saved' = [p \in Both |-> saved'[p]] /\ inIsr' \subseteq {"readaccdata", "rxreset"}
       /\ ownFlags' \subseteq Flags
  BY <1>4 DEF LeftInv
<1> QED BY <1>1, <1>10, <1>11, <1>12, <1>13, <1>14, <1>15 DEF LeftInv

LEMMA SavedIs ==
  ASSUME LeftInv, NEW p \in Both, PmscStep(p)
  PROVE  /\ saved' = [q \in Both |-> saved'[q]]
         /\ \A q \in Both \ {p} : saved'[q] = saved[q]
         /\ todo[p][1].do = "save" => saved'[p] = reg \cap todo[p][1].part
         /\ todo[p][1].do # "save" /\ Tail(todo[p]) # <<>> => saved'[p] = saved[p]
         /\ UNCHANGED <<ownFlags, sequenced>>
<1> DEFINE s == todo[p]
<1>1. s \in Seq(Access) /\ s # <<>>
  BY DEF LeftInv, ClockInv, PmscStep
<1>2. Head(s) = s[1]
  <2> HIDE DEF s
  <2> QED BY <1>1
<1>3. saved' = [saved EXCEPT ![p] = IF s[1].do = "save" THEN reg \cap s[1].part
                                   ELSE IF Tail(s) = <<>> THEN {} ELSE saved[p]]
  BY <1>2 DEF PmscStep
<1>4. UNCHANGED <<ownFlags, sequenced>>
  BY DEF PmscStep
<1> HIDE DEF s
<1>5. /\ saved' = [q \in Both |-> saved'[q]]
      /\ \A q \in Both \ {p} : saved'[q] = saved[q]
      /\ s[1].do = "save" => saved'[p] = reg \cap s[1].part
      /\ s[1].do # "save" /\ Tail(s) # <<>> => saved'[p] = saved[p]
  BY <1>3 DEF LeftInv
<1> QED BY <1>4, <1>5 DEF s

\* What is left of the call that makes a step still ends as it did.
LEMMA OwnEnds ==
  ASSUME LeftInv, NEW p \in Both, PmscStep(p), NEW f, NEW v,
         StillEnds(todo[p], f, v, tmp[p], saved[p], reg)
  PROVE  StillEnds(todo'[p], f, v, tmp'[p], saved'[p], reg')
<1>1. /\ todo[p] \in Seq(Access) /\ Len(todo[p]) \in Nat \ {0}
      /\ todo'[p] = Tail(todo[p])
      /\ Tail(todo[p]) \in Seq(Access)
      /\ Len(Tail(todo[p])) = Len(todo[p]) - 1
      /\ \A i \in 1 .. (Len(todo[p]) - 1) : Tail(todo[p])[i] = todo[p][i + 1]
      /\ reg' = Effect(todo[p][1], tmp[p], saved[p], reg)
      /\ todo[p][1].do = "read" => tmp'[p] = reg \cap todo[p][1].part
      /\ todo[p][1].do # "read" /\ Tail(todo[p]) # <<>> => tmp'[p] = tmp[p]
  BY StepIs DEF LeftInv
<1>2. /\ todo[p][1].do = "save" => saved'[p] = reg \cap todo[p][1].part
      /\ todo[p][1].do # "save" /\ Tail(todo[p]) # <<>> => saved'[p] = saved[p]
  BY SavedIs
<1>3. PICK seq \in Seq(Access), rest \in Seq(Access) : seq = todo[p] /\ rest = todo'[p]
  BY <1>1
<1>4. PICK t, sv, r, t2, sv2 : /\ t = tmp[p] /\ sv = saved[p] /\ r = reg
                               /\ t2 = tmp'[p] /\ sv2 = saved'[p]
  OBVIOUS
<1>5. /\ Len(seq) \in Nat \ {0} /\ Len(rest) = Len(seq) - 1
      /\ \A i \in 1 .. (Len(seq) - 1) : rest[i] = seq[i + 1]
      /\ seq[1].do = "read" => t2 = r \cap seq[1].part
      /\ seq[1].do # "read" /\ rest # <<>> => t2 = t
      /\ seq[1].do = "save" => sv2 = r \cap seq[1].part
      /\ seq[1].do # "save" /\ rest # <<>> => sv2 = sv
      /\ reg' = Effect(seq[1], t, sv, r)
  BY <1>1, <1>2, <1>3, <1>4
<1>6. StillEnds(seq, f, v, t, sv, r)
  BY <1>3, <1>4
<1>7. StillEnds(rest, f, v, t2, sv2, Effect(seq[1], t, sv, r))
  BY <1>5, <1>6, StepEnds
<1> QED BY <1>3, <1>4, <1>5, <1>7

LEMMA StepLeft ==
  ASSUME LeftInv, NEW p \in Both, PmscStep(p)
  PROVE  LeftInv'
<1>1. ClockInv'
  BY StepKeeps DEF LeftInv
<1>2. /\ todo[p] \in Seq(Access) /\ Len(todo[p]) \in Nat \ {0}
      /\ \A q \in Both \ {p} : todo'[q] = todo[q]
      /\ reg' = Effect(todo[p][1], tmp[p], saved[p], reg)
      /\ p = "main" => todo["isr"] = <<>>
      /\ inIsr' = inIsr
      /\ \A q \in Both \ {p} : tmp'[q] = tmp[q]
  BY StepIs DEF LeftInv
<1>3. /\ saved' = [q \in Both |-> saved'[q]]
      /\ \A q \in Both \ {p} : saved'[q] = saved[q]
      /\ UNCHANGED <<ownFlags, sequenced>>
  BY SavedIs
<1>4. /\ p = "main" => todo'["isr"] = <<>> /\ Resetting /\ Resetting'
      /\ LostInIsr' = LostInIsr
  <2>1. p = "main" => todo'["isr"] = <<>>
    BY <1>2 DEF Both
  <2> QED BY <1>2, <2>1 DEF Resetting, LostInIsr
<1>5. CASE p = "main"
  <2>1. View = reg /\ View' = reg'
    BY <1>4, <1>5 DEF View
  <2>2. \A f, v : MainEnds(f, v) => MainEnds(f, v)'
    <3> SUFFICES ASSUME NEW f, NEW v, MainEnds(f, v) PROVE MainEnds(f, v)'
      OBVIOUS
    <3>1. StillEnds(todo[p], f, v, tmp[p], saved[p], reg)
      BY <1>5, <2>1 DEF MainEnds
    <3>2. StillEnds(todo'[p], f, v, tmp'[p], saved'[p], reg')
      BY <3>1, OwnEnds
    <3> QED BY <1>5, <2>1, <3>2 DEF MainEnds
  <2> QED BY <1>1, <1>2, <1>3, <1>4, <1>5, <2>2 DEF LeftInv
<1>6. CASE p = "isr"
  <2>1. /\ todo'["main"] = todo["main"] /\ tmp'["main"] = tmp["main"]
        /\ saved'["main"] = saved["main"]
    BY <1>2, <1>3, <1>6 DEF Both
  <2>2. PICK seq, rest \in Seq(Access) :
          /\ seq = todo["isr"] /\ rest = todo'["isr"] /\ Len(seq) \in Nat \ {0}
          /\ Len(rest) = Len(seq) - 1 /\ \A i \in 1 .. (Len(seq) - 1) : rest[i] = seq[i + 1]
    <3>1. PICK rest : rest = Tail(todo["isr"])
      OBVIOUS
    <3>2. /\ todo["isr"] \in Seq(Access) /\ Len(todo["isr"]) \in Nat \ {0}
          /\ rest \in Seq(Access) /\ rest = todo'["isr"]
          /\ Len(rest) = Len(todo["isr"]) - 1
          /\ \A i \in 1 .. (Len(todo["isr"]) - 1) : rest[i] = todo["isr"][i + 1]
      BY <1>6, <3>1, StepIs DEF LeftInv
    <3> QED BY <3>2
  <2> DEFINE ViewStays ==
        \A f, v : (/\ IsAt(f, v, View)
                   /\ f # "PLL2_SEQ_EN" \/ v = "off" \/ "rxreset" \notin inIsr)
                  => IsAt(f, v, View')
  <2>3. /\ ViewStays
        /\ \/ Resetting' /\ (todo'["isr"] = <<>> \/ "rxreset" \in inIsr')
           \/ /\ \A f \in AccClocks :
                    StillEnds(todo'["isr"], f, "off", tmp'["isr"], saved'["isr"], reg')
              /\ \E R : StillTransparent(todo'["isr"], AccClocks, R, tmp'["isr"], reg')
    <3>1. CASE Resetting /\ (todo["isr"] = <<>> \/ "rxreset" \in inIsr)
      <4>1. PICK w : w = PmscWrite({"PLL2_SEQ_EN"}, {})
        OBVIOUS
      <4>2. /\ w.do = "put" /\ w.part = {"PLL2_SEQ_EN"} /\ w.add = {}
            /\ w.drop = {"PLL2_SEQ_EN"}
        BY <4>1 DEF PmscWrite, PmscPut
      <4>3. seq[1] = w /\ \A i \in 1 .. Len(rest) : rest[i] = w
        <5>1. \A i \in 1 .. Len(seq) : seq[i] = w
          BY <2>2, <3>1, <4>1 DEF Resetting
        <5> QED BY <2>2, <5>1
      <4>4. reg' = reg \ {"PLL2_SEQ_EN"}
        <5>1. reg' = (reg \ w.part) \cup w.add \cup ((tmp["isr"] \cap w.part) \ w.drop)
          BY <1>2, <1>6, <2>2, <4>2, <4>3 DEF Effect
        <5> QED BY <4>2, <5>1
      <4>5. Resetting' /\ "rxreset" \in inIsr /\ inIsr' = inIsr
        <5>1. Resetting'
          BY <2>2, <4>1, <4>3 DEF Resetting
        <5>2. todo["isr"] # <<>>
          BY <2>2
        <5> QED BY <1>2, <3>1, <5>1, <5>2
      <4>6. View = reg /\ View' = reg'
        BY <3>1, <4>5 DEF View
      <4> QED BY <4>4, <4>5, <4>6 DEF IsAt
    <3>2. CASE /\ \A f \in AccClocks :
                    StillEnds(todo["isr"], f, "off", tmp["isr"], saved["isr"], reg)
               /\ \E R : StillTransparent(todo["isr"], AccClocks, R, tmp["isr"], reg)
      <4>1. PICK R : StillTransparent(seq, AccClocks, R, tmp["isr"], reg)
        BY <2>2, <3>2
      <4>2. \A g : g \notin AccClocks => (g \in reg' <=> g \in reg)
        BY <1>2, <1>6, <2>2, <4>1, OthersStay
      <4>3. StillTransparent(rest, AccClocks, R, tmp'["isr"], reg')
        <5>1. /\ seq[1].do = "read" => tmp'["isr"] = reg \cap seq[1].part
              /\ seq[1].do # "read" /\ rest # <<>> => tmp'["isr"] = tmp["isr"]
              /\ reg' = Effect(seq[1], tmp["isr"], saved["isr"], reg)
          BY <1>6, <2>2, StepIs DEF LeftInv
        <5> QED BY <2>2, <4>1, <5>1, StepTransparent
      <4>4. \A f \in AccClocks :
              StillEnds(todo'["isr"], f, "off", tmp'["isr"], saved'["isr"], reg')
        BY <1>6, <3>2, OwnEnds
      <4>5. View = reg \ AccClocks
        <5>1. ASSUME Resetting, NEW g \in AccClocks PROVE g \notin reg
          <6>1. g # "PLL2_SEQ_EN"
            BY DEF AccClocks
          <6>2. \A i \in 1 .. Len(seq) : seq[i] = PmscWrite({"PLL2_SEQ_EN"}, {})
            BY <2>2, <5>1 DEF Resetting
          <6>3. StillEnds(seq, g, "off", tmp["isr"], saved["isr"], reg)
            BY <2>2, <3>2
          <6> QED BY <2>2, <6>1, <6>2, <6>3, ResettingIsAt
        <5>2. Resetting => reg = reg \ AccClocks
          BY <5>1
        <5> QED BY <5>2 DEF View
      <4>6. Resetting' => reg' \cap AccClocks = {}
        <5> SUFFICES ASSUME Resetting', NEW g \in AccClocks PROVE g \notin reg'
          OBVIOUS
        <5>1. g # "PLL2_SEQ_EN"
          BY DEF AccClocks
        <5>2. \A i \in 1 .. Len(rest) : rest[i] = PmscWrite({"PLL2_SEQ_EN"}, {})
          BY <2>2 DEF Resetting
        <5>3. StillEnds(rest, g, "off", tmp'["isr"], saved'["isr"], reg')
          BY <2>2, <4>4
        <5> QED BY <2>2, <5>1, <5>2, <5>3, ResettingIsAt
      <4>7. View' = reg' \ AccClocks
        BY <4>6 DEF View
      <4>8. \A g : g \in View <=> g \in View'
        BY <4>2, <4>5, <4>7
      <4> QED BY <2>2, <4>3, <4>4, <4>8 DEF IsAt
    <3>3. \/ Resetting /\ (todo["isr"] = <<>> \/ "rxreset" \in inIsr)
          \/ /\ \A f \in AccClocks :
                   StillEnds(todo["isr"], f, "off", tmp["isr"], saved["isr"], reg)
             /\ \E R : StillTransparent(todo["isr"], AccClocks, R, tmp["isr"], reg)
      BY DEF LeftInv
    <3> HIDE DEF ViewStays
    <3> QED BY <3>1, <3>2, <3>3
  <2>4. \A f, v : (/\ MainEnds(f, v)
                   /\ f # "PLL2_SEQ_EN" \/ v = "off" \/ "rxreset" \notin inIsr)
                  => MainEnds(f, v)'
    <3> SUFFICES ASSUME NEW f, NEW v, MainEnds(f, v),
                        f # "PLL2_SEQ_EN" \/ v = "off" \/ "rxreset" \notin inIsr
                 PROVE  MainEnds(f, v)'
      OBVIOUS
    <3>1. StillEnds(todo["main"], f, v, tmp["main"], saved["main"], View)
      BY DEF MainEnds
    <3>2. StillEnds(todo["main"], f, v, tmp["main"], saved["main"], View')
      BY <2>3, <3>1, EndsAgree
    <3> QED BY <2>1, <3>2 DEF MainEnds
  <2>5. \A f \in Flags : /\ f \in (ownFlags \ LostInIsr)' => MainEnds(f, "on")'
                         /\ f \notin ownFlags' => MainEnds(f, "off")'
    <3> SUFFICES ASSUME NEW f \in Flags
                 PROVE  /\ f \in (ownFlags \ LostInIsr)' => MainEnds(f, "on")'
                        /\ f \notin ownFlags' => MainEnds(f, "off")'
      OBVIOUS
    <3>1. /\ f \in ownFlags \ LostInIsr => MainEnds(f, "on")
          /\ f \notin ownFlags => MainEnds(f, "off")
      BY DEF LeftInv
    <3>2. f \in ownFlags \ LostInIsr => f # "PLL2_SEQ_EN" \/ "rxreset" \notin inIsr
      BY DEF LostInIsr
    <3> QED BY <1>3, <1>4, <2>4, <3>1, <3>2
  <2>6. \A f \in AlwaysOff : MainEnds(f, "off")'
    BY <2>4 DEF LeftInv
  <2>7. sequenced' => \A f \in ClockFlags : MainEnds(f, "off")'
    BY <1>3, <2>4 DEF LeftInv
  <2>8. MainEnds("RF_TX", "on")' \/ MainEnds("PKTSEQ", "on")'
    BY <2>4 DEF LeftInv
  <2>9. inIsr' \subseteq {"readaccdata", "rxreset"} /\ ownFlags' \subseteq Flags
    BY <1>2, <1>3 DEF LeftInv
  <2> QED BY <1>1, <1>3, <2>3, <2>5, <2>6, <2>7, <2>8, <2>9 DEF LeftInv
<1> QED BY <1>5, <1>6 DEF Both

LEMMA LeftInvKept == CallsPutBack /\ LeftInv /\ [PmscNext]_(pmscvars) => LeftInv'
<1> SUFFICES ASSUME CallsPutBack, LeftInv, [PmscNext]_(pmscvars) PROVE LeftInv'
  OBVIOUS
<1>1. ASSUME NEW op \in Ops, Call(op) PROVE LeftInv'
  BY <1>1, CallLeft
<1>2. ASSUME NEW call \in inIsr, Interrupt(call) PROVE LeftInv'
  BY <1>2, InterruptLeft
<1>3. ASSUME NEW p \in {"main", "isr"}, PmscStep(p) PROVE LeftInv'
  BY <1>3, StepLeft DEF Both
<1>4. CASE UNCHANGED pmscvars
  BY <1>4 DEF pmscvars, LeftInv, ClockInv, MainEnds, View, Resetting, LostInIsr
<1> QED BY <1>1, <1>2, <1>3, <1>4 DEF PmscNext

LEMMA LeftInvGivesAsLeft == LeftInv => AsLeft
<1> SUFFICES ASSUME LeftInv, PmscIdle
             PROVE  /\ sequenced => reg \cap (Byte0 \cup {"LDECE", "AMCE"} \cup {"RF_CAL"}) = {}
                    /\ sequenced /\ "RF_TX" \notin reg => "PKTSEQ" \in reg
                    /\ reg \cap Flags \subseteq ownFlags
                    /\ ownFlags \ LostInIsr \subseteq reg
  BY DEF AsLeft
<1>1. todo["main"] = <<>> /\ todo["isr"] = <<>>
  BY DEF PmscIdle
<1>2. View = reg
  BY <1>1 DEF View, Resetting
<1>3. \A f, v : MainEnds(f, v) => IsAt(f, v, reg)
  BY <1>1, <1>2, EndedIsAt DEF MainEnds
<1>4. \A f : (MainEnds(f, "on") => f \in reg) /\ (MainEnds(f, "off") => f \notin reg)
  BY <1>3 DEF IsAt
<1>5. sequenced => reg \cap (Byte0 \cup {"LDECE", "AMCE"} \cup {"RF_CAL"}) = {}
  <2>1. \A f \in AlwaysOff : f \notin reg
    BY <1>4 DEF LeftInv
  <2>2. sequenced => \A f \in ClockFlags : f \notin reg
    BY <1>4 DEF LeftInv
  <2> QED BY <2>1, <2>2, FieldsOf DEF AlwaysOff, AccClocks, ClockFlags
<1>6. "RF_TX" \notin reg => "PKTSEQ" \in reg
  BY <1>4 DEF LeftInv
<1>7. \A f \in Flags : /\ f \in ownFlags \ LostInIsr => f \in reg
                       /\ f \in reg => f \in ownFlags
  BY <1>4 DEF LeftInv
<1>8. ownFlags \subseteq Flags
  BY DEF LeftInv
<1> QED BY <1>5, <1>6, <1>7, <1>8

\* Between two calls no clock is forced, unless the last call that sets them
\* leaves them so, the power management is sequenced unless a test mode keeps the
\* transmitter on, and each flag is as the last call has left it that sets it,
\* but for the bit of the sniff mode, which dwt_rxreset may clear in the interrupt
\* routine: AsLeft of DwPmsc, for any calls of the main loop, if what the routine
\* and its callbacks call puts back all else that it changes.
THEOREM FlagsStayAsLeft == ASSUME CallsPutBack PROVE PmscSpec => []AsLeft
<1>1. CallsPutBack /\ PmscInit => LeftInv
  BY LeftInvInit
<1>2. CallsPutBack /\ LeftInv /\ [PmscNext]_(pmscvars) => LeftInv'
  BY LeftInvKept
<1>3. LeftInv => AsLeft
  BY LeftInvGivesAsLeft
<1> QED BY <1>1, <1>2, <1>3, PTL DEF PmscSpec
=============================================================================
