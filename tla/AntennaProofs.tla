--------------------------- MODULE AntennaProofs ---------------------------
(***************************************************************************)
(* Proofs about Antenna.tla, for every set of nodes, every number of       *)
(* transmissions and every size of the ring.                               *)
(*                                                                         *)
(* StampInv is the inductive invariant behind TypeOK and StampOfItsFrame.  *)
(* Its heart is ReceiverQuiet: while a good frame waits in the             *)
(* transceiver the receiver is off, so nothing replaces the frame or its   *)
(* timestamp between the two steps that read them.                         *)
(*                                                                         *)
(* SwarmInv, further down, is that of the swarm: the firmware implements   *)
(* LastHeard.tla, and a node has reported a transmission to its host       *)
(* before it reports that somebody heard it.  It says what each copy of a  *)
(* message number, in received_messages, in a frame that waits to be read  *)
(* and in a frame that waits to be sent, may be compared with the newest   *)
(* transmission that has been on the air.                                  *)
(***************************************************************************)
EXTENDS Antenna, TLAPS

GoodFrame(f) == \A e \in f.heard : IsStampOf(e.rx, e.id, e.seq)

\* A message is sent only while the bound allows one more.
SendInBound ==
  \A n \in Node : timer[n] = "expired" \/ pc[n] = "txwait" => seq[n] <= MaxSeq

ReceiverQuiet ==
  \A n \in Node : rxfcg[n] =>
    /\ mode[n] # "rx"
    /\ rxbuf[n] # None
    /\ IsStampOf(rxstamp[n], rxbuf[n].sender, rxbuf[n].seq)
    /\ GoodFrame(rxbuf[n])

LoopReadsWaitingFrame ==
  \A n \in Node :
    /\ pc[n] \in {"data", "stamp", "ack"} => rxfcg[n]
    /\ pc[n] \in {"stamp", "ack"} => frame[n] = rxbuf[n]

PendingTransmission ==
  \A n \in Node : mode[n] = "tx" =>
    /\ pc[n] = "txwait"
    /\ txbuf[n] # None
    /\ txbuf[n].sender = n
    /\ txbuf[n].seq = seq[n]
    /\ GoodFrame(txbuf[n])

StampInv ==
  /\ TypeOK
  /\ SendInBound
  /\ ReceiverQuiet
  /\ LoopReadsWaitingFrame
  /\ PendingTransmission
  /\ StampOfItsFrame

-----------------------------------------------------------------------------
LEMMA RowNumbers ==
  ASSUME NEW t \in [Node -> [Node -> Row]]
  PROVE  \A k, l \in Node : t[k][l].seq \in Nat
BY DEF Row

USE MaxSeqAssumption, BlockSizeAssumption, LateTxAssumption, NoneAssumption

\* The slot of a transmission is inside the ring.
LEMMA SlotInRing == \A k \in Nat : k % BlockSize \in 0..(BlockSize - 1)
  BY BlockSizeAssumption

LEMMA InitStampInv == Init => StampInv
  BY DEF Init, StampInv, TypeOK, SendInBound, ReceiverQuiet, LoopReadsWaitingFrame,
         PendingTransmission, StampOfItsFrame, Row, Seq

LEMMA CheckStatusStampInv ==
  ASSUME StampInv, NEW n \in Node, CheckStatus(n)
  PROVE  StampInv'
<1> USE DEF StampInv, CheckStatus, Goto, RxEnable, SetTxTimestamp, firmware, receiver
<1>1. TypeOK'
  BY DEF TypeOK
<1>2. SendInBound'
  BY DEF TypeOK, SendInBound
<1>3. ReceiverQuiet'
  BY DEF TypeOK, ReceiverQuiet, GoodFrame, IsStampOf
<1>4. LoopReadsWaitingFrame'
  BY DEF TypeOK, LoopReadsWaitingFrame
<1>5. PendingTransmission'
  BY DEF TypeOK, PendingTransmission, GoodFrame, IsStampOf
<1>6. StampOfItsFrame'
  BY DEF TypeOK, StampOfItsFrame, GoodFrame, IsStampOf
<1> QED BY <1>1, <1>2, <1>3, <1>4, <1>5, <1>6

LEMMA ReadFrameStampInv ==
  ASSUME StampInv, NEW n \in Node, ReadFrame(n)
  PROVE  StampInv'
<1> USE DEF StampInv, ReadFrame, Goto, RxEnable, SetTxTimestamp, firmware, receiver
<1>1. TypeOK'
  BY DEF TypeOK
<1>2. SendInBound'
  BY DEF TypeOK, SendInBound
<1>3. ReceiverQuiet'
  BY DEF TypeOK, ReceiverQuiet, GoodFrame, IsStampOf
<1>4. LoopReadsWaitingFrame'
  BY DEF TypeOK, LoopReadsWaitingFrame
<1>5. PendingTransmission'
  BY DEF TypeOK, PendingTransmission, GoodFrame, IsStampOf
<1>6. StampOfItsFrame'
  BY DEF TypeOK, StampOfItsFrame, GoodFrame, IsStampOf
<1> QED BY <1>1, <1>2, <1>3, <1>4, <1>5, <1>6

LEMMA TakeFrameStampInv ==
  ASSUME StampInv, NEW n \in Node, TakeFrame(n)
  PROVE  StampInv'
<1> USE DEF StampInv, TakeFrame, Goto, receiver
<1>0. /\ frame[n] \in Frame
      /\ rxstamp[n] \in Stamp
      /\ IsStampOf(rxstamp[n], frame[n].sender, frame[n].seq)
      /\ GoodFrame(frame[n])
  BY DEF TypeOK, LoopReadsWaitingFrame, ReceiverQuiet, IsStampOf
<1>1. TypeOK'
  <2>1. [seq |-> frame[n].seq, rx |-> rxstamp[n]] \in Row
    BY <1>0 DEF Row, Frame, Seq
  <2>2. [frame |-> frame[n], rx |-> rxstamp[n]] \in RxLine
    BY <1>0 DEF RxLine
  <2>3. frame[n].sender \in Node
    BY <1>0 DEF Frame
  <2> QED BY <2>1, <2>2, <2>3 DEF TypeOK
<1>2. SendInBound'
  BY DEF TypeOK, SendInBound
<1>3. ReceiverQuiet'
  BY DEF TypeOK, ReceiverQuiet, GoodFrame, IsStampOf
<1>4. LoopReadsWaitingFrame'
  BY DEF TypeOK, LoopReadsWaitingFrame
<1>5. PendingTransmission'
  BY DEF TypeOK, PendingTransmission, GoodFrame, IsStampOf
<1>6. StampOfItsFrame'
  <2> SUFFICES ASSUME NEW k \in Node PROVE
        /\ \A m \in Node : table'[k][m].seq # 0
             => IsStampOf(table'[k][m].rx, m, table'[k][m].seq)
        /\ uart'[k].rx # None =>
             /\ uart'[k].rx.frame # None
             /\ IsStampOf(uart'[k].rx.rx, uart'[k].rx.frame.sender, uart'[k].rx.frame.seq)
             /\ GoodFrame(uart'[k].rx.frame)
    BY DEF StampOfItsFrame, GoodFrame, IsStampOf
  <2>1. CASE k = n
    <3>1. uart'[n].rx = [frame |-> frame[n], rx |-> rxstamp[n]]
      BY DEF TypeOK
    <3>2. \A m \in Node : table'[n][m] = IF m = frame[n].sender
                THEN [seq |-> frame[n].seq, rx |-> rxstamp[n]] ELSE table[n][m]
      BY DEF TypeOK
    <3>3. frame[n] # None
      BY <1>0
    <3> QED BY <1>0, <2>1, <3>1, <3>2, <3>3 DEF StampOfItsFrame
  <2>2. CASE k # n
    BY <2>2 DEF TypeOK, StampOfItsFrame, GoodFrame
  <2> QED BY <2>1, <2>2
<1> QED BY <1>1, <1>2, <1>3, <1>4, <1>5, <1>6

LEMMA AckFrameStampInv ==
  ASSUME StampInv, NEW n \in Node, AckFrame(n)
  PROVE  StampInv'
<1> USE DEF StampInv, AckFrame, Goto, RxEnable, SetTxTimestamp, firmware, receiver
<1>1. TypeOK'
  BY DEF TypeOK
<1>2. SendInBound'
  BY DEF TypeOK, SendInBound
<1>3. ReceiverQuiet'
  BY DEF TypeOK, ReceiverQuiet, GoodFrame, IsStampOf
<1>4. LoopReadsWaitingFrame'
  BY DEF TypeOK, LoopReadsWaitingFrame
<1>5. PendingTransmission'
  BY DEF TypeOK, PendingTransmission, GoodFrame, IsStampOf
<1>6. StampOfItsFrame'
  BY DEF TypeOK, StampOfItsFrame, GoodFrame, IsStampOf
<1> QED BY <1>1, <1>2, <1>3, <1>4, <1>5, <1>6

LEMMA NothingDueStampInv ==
  ASSUME StampInv, NEW n \in Node, NothingDue(n)
  PROVE  StampInv'
<1> USE DEF StampInv, NothingDue, Goto, RxEnable, SetTxTimestamp, firmware, receiver
<1>1. TypeOK'
  BY DEF TypeOK
<1>2. SendInBound'
  BY DEF TypeOK, SendInBound
<1>3. ReceiverQuiet'
  BY DEF TypeOK, ReceiverQuiet, GoodFrame, IsStampOf
<1>4. LoopReadsWaitingFrame'
  BY DEF TypeOK, LoopReadsWaitingFrame
<1>5. PendingTransmission'
  BY DEF TypeOK, PendingTransmission, GoodFrame, IsStampOf
<1>6. StampOfItsFrame'
  BY DEF TypeOK, StampOfItsFrame, GoodFrame, IsStampOf
<1> QED BY <1>1, <1>2, <1>3, <1>4, <1>5, <1>6

\* A message is assembled from what is stored, so its timestamps are good.
LEMMA ConstructGoodFrame ==
  ASSUME StampInv, NEW n \in Node, pc[n] = "timer", timer[n] = "expired"
  PROVE  Construct(n) \in Frame /\ GoodFrame(Construct(n))
<1> USE DEF StampInv
<1>1. seq[n] \in Seq
  BY DEF TypeOK, SendInBound, Seq
<1>2. \A m \in Node : table[n][m].seq # 0 =>
        /\ table[n][m].seq \in Seq
        /\ table[n][m].rx \in Stamp \cup {None}
  BY DEF TypeOK, Row, Seq
<1>3. Construct(n).heard \in SUBSET Echo
  BY <1>2 DEF Construct, Echo
<1>4. GoodFrame(Construct(n))
  BY DEF Construct, GoodFrame, StampOfItsFrame
<1> QED BY <1>1, <1>3, <1>4 DEF Construct, Frame

LEMMA StartSendStampInv ==
  ASSUME StampInv, NEW n \in Node, StartSend(n)
  PROVE  StampInv'
<1> USE DEF StampInv, StartSend, Goto, receiver
<1>0. Construct(n) \in Frame /\ GoodFrame(Construct(n))
  BY ConstructGoodFrame
<1>1. TypeOK'
  BY <1>0 DEF TypeOK
<1>2. SendInBound'
  BY DEF TypeOK, SendInBound
<1>3. ReceiverQuiet'
  BY DEF TypeOK, ReceiverQuiet, GoodFrame, IsStampOf
<1>4. LoopReadsWaitingFrame'
  BY DEF TypeOK, LoopReadsWaitingFrame
<1>5. PendingTransmission'
  <2>1. Construct(n).sender = n /\ Construct(n).seq = seq[n] /\ Construct(n) # None
    BY <1>0 DEF Construct
  <2>2. \A m \in Node \ {n} : txbuf'[m] = txbuf[m] /\ mode'[m] = mode[m] /\ pc'[m] = pc[m]
    BY DEF TypeOK
  <2>3. txbuf'[n] = Construct(n) /\ pc'[n] = "txwait"
    BY DEF TypeOK
  <2> QED BY <1>0, <2>1, <2>2, <2>3 DEF PendingTransmission
<1>6. StampOfItsFrame'
  BY DEF TypeOK, StampOfItsFrame, GoodFrame, IsStampOf
<1> QED BY <1>1, <1>2, <1>3, <1>4, <1>5, <1>6

LEMMA FinishSendStampInv ==
  ASSUME StampInv, NEW n \in Node, FinishSend(n)
  PROVE  StampInv'
<1> USE DEF StampInv, FinishSend, Goto, RxEnable, SetTxTimestamp, firmware, receiver
<1>1. TypeOK'
  <2>1. seq[n] \in 0..MaxSeq
    BY DEF TypeOK, SendInBound
  <2>2. seq[n] % BlockSize \in 0..(BlockSize - 1)
    BY <2>1, SlotInRing
  <2>3. tx_times' \in [Node -> [0..(BlockSize - 1) -> 0..MaxSeq]]
    <3> DEFINE Ring == [0..(BlockSize - 1) -> 0..MaxSeq]
               slots == [tx_times[n] EXCEPT ![seq[n] % BlockSize] = seq[n]]
    <3>1. tx_times \in [Node -> Ring]
      BY DEF TypeOK
    <3>2. slots \in Ring
      BY <2>1, <3>1
    <3>3. tx_times' = [tx_times EXCEPT ![n] = slots]
      OBVIOUS
    <3> HIDE DEF Ring, slots
    <3>4. tx_times' \in [Node -> Ring]
      BY <3>1, <3>2, <3>3
    <3> QED BY <3>4 DEF Ring
  <2>4. seq' \in [Node -> 1..(MaxSeq + 1)]
    BY <2>1 DEF TypeOK
  <2>5. uart' \in [Node -> [tx : 0..MaxSeq, rx : RxLine \cup {None}]]
    <3> DEFINE Report == [tx : 0..MaxSeq, rx : RxLine \cup {None}]
               report == [uart[n] EXCEPT !.tx = seq[n]]
    <3>1. uart \in [Node -> Report]
      BY DEF TypeOK
    <3>2. report \in Report
      BY <2>1, <3>1
    <3>3. uart' = [uart EXCEPT ![n] = report]
      OBVIOUS
    <3> HIDE DEF Report, report
    <3>4. uart' \in [Node -> Report]
      BY <3>1, <3>2, <3>3
    <3> QED BY <3>4 DEF Report
  <2> HIDE DEF SetTxTimestamp
  <2> QED BY <2>3, <2>4, <2>5 DEF TypeOK
<1>2. SendInBound'
  BY DEF TypeOK, SendInBound
<1>3. ReceiverQuiet'
  BY DEF TypeOK, ReceiverQuiet, GoodFrame, IsStampOf
<1>4. LoopReadsWaitingFrame'
  BY DEF TypeOK, LoopReadsWaitingFrame
<1>5. PendingTransmission'
  BY DEF TypeOK, PendingTransmission, GoodFrame, IsStampOf
<1>6. StampOfItsFrame'
  BY DEF TypeOK, StampOfItsFrame, GoodFrame, IsStampOf
<1> QED BY <1>1, <1>2, <1>3, <1>4, <1>5, <1>6

LEMMA ExpireStampInv ==
  ASSUME StampInv, NEW n \in Node, Expire(n)
  PROVE  StampInv'
<1> USE DEF StampInv, Expire, Goto, RxEnable, SetTxTimestamp, firmware, receiver
<1>1. TypeOK'
  BY DEF TypeOK
<1>2. SendInBound'
  BY DEF TypeOK, SendInBound
<1>3. ReceiverQuiet'
  BY DEF TypeOK, ReceiverQuiet, GoodFrame, IsStampOf
<1>4. LoopReadsWaitingFrame'
  BY DEF TypeOK, LoopReadsWaitingFrame
<1>5. PendingTransmission'
  BY DEF TypeOK, PendingTransmission, GoodFrame, IsStampOf
<1>6. StampOfItsFrame'
  BY DEF TypeOK, StampOfItsFrame, GoodFrame, IsStampOf
<1> QED BY <1>1, <1>2, <1>3, <1>4, <1>5, <1>6

LEMMA OnAirStampInv ==
  ASSUME StampInv, NEW n \in Node, OnAir(n)
  PROVE  StampInv'
<1> USE DEF StampInv, firmware
<1> DEFINE Listening == {m \in Node : mode[m] = "rx"}
<1> PICK good \in SUBSET Listening : \E bad \in SUBSET (Listening \ good) :
        Reception(n, good, bad)
  BY DEF OnAir
<1> PICK bad \in SUBSET (Listening \ good) : Reception(n, good, bad)
  OBVIOUS
<1> USE DEF Reception
<1>0. /\ mode[n] = "tx"
      /\ txfrs' = [txfrs EXCEPT ![n] = TRUE]
      /\ UNCHANGED <<pc, seq, table, frame, timer, tx_times, uart, txbuf>>
  BY DEF OnAir
<1>a. /\ txbuf[n] \in Frame
      /\ txbuf[n].sender = n
      /\ txbuf[n].seq \in Seq
      /\ GoodFrame(txbuf[n])
  BY <1>0 DEF TypeOK, PendingTransmission, Frame
<1>b. \A m \in Node : [sender |-> n, seq |-> txbuf[n].seq, sound |-> ~unreset[m]] \in Stamp
  BY <1>a DEF Stamp
<1>1. TypeOK'
  <2>1. mode' \in [Node -> {"off", "rx", "tx"}]
    BY DEF TypeOK
  <2>2. /\ rxfcg' \in [Node -> BOOLEAN] /\ rxerr' \in [Node -> BOOLEAN]
        /\ unreset' \in [Node -> BOOLEAN]
    OBVIOUS
  <2>3. rxbuf' \in [Node -> Frame \cup {None}]
    BY <1>a DEF TypeOK
  <2>4. rxstamp' \in [Node -> Stamp \cup {None}]
    <3> DEFINE s(m) == [sender |-> n, seq |-> txbuf[n].seq, sound |-> ~unreset[m]]
    <3>1. \A m \in Node : s(m) \in Stamp
      BY <1>b
    <3> HIDE DEF s
    <3>2. rxstamp' = [m \in Node |-> IF m \in good THEN s(m)
                                     ELSE IF m \in bad THEN None ELSE rxstamp[m]]
      BY DEF s
    <3> QED BY <3>1, <3>2 DEF TypeOK
  <2>5. txfrs' \in [Node -> BOOLEAN]
    BY <1>0 DEF TypeOK
  <2> QED BY <1>0, <2>1, <2>2, <2>3, <2>4, <2>5 DEF TypeOK
<1>2. SendInBound'
  BY <1>0 DEF TypeOK, SendInBound
<1>3. ReceiverQuiet'
  <2> SUFFICES ASSUME NEW m \in Node, rxfcg'[m]
               PROVE  /\ mode'[m] # "rx"
                      /\ rxbuf'[m] # None
                      /\ IsStampOf(rxstamp'[m], rxbuf'[m].sender, rxbuf'[m].seq)
                      /\ GoodFrame(rxbuf'[m])
    BY DEF ReceiverQuiet, GoodFrame, IsStampOf
  <2>1. CASE m \in good
    <3>1. rxstamp'[m] \in Stamp /\ rxstamp'[m].sender = n /\ rxstamp'[m].seq = txbuf[n].seq
      BY <1>b, <2>1
    <3>2. rxbuf'[m] = txbuf[n] /\ mode'[m] = "off"
      BY <2>1
    <3> QED BY <1>a, <3>1, <3>2 DEF IsStampOf
  <2>2. CASE m \notin good
    <3>1. rxfcg[m]
      BY <2>2
    <3>2. mode[m] # "rx"
      BY <3>1 DEF ReceiverQuiet
    <3>3. rxbuf'[m] = rxbuf[m] /\ rxstamp'[m] = rxstamp[m] /\ mode'[m] # "rx"
      BY <2>2, <3>2
    <3> QED BY <3>1, <3>3 DEF ReceiverQuiet
  <2> QED BY <2>1, <2>2
<1>4. LoopReadsWaitingFrame'
  <2> SUFFICES ASSUME NEW m \in Node, pc[m] \in {"data", "stamp", "ack"}
               PROVE  rxfcg'[m] /\ rxbuf'[m] = rxbuf[m]
    BY <1>0 DEF LoopReadsWaitingFrame
  <2>1. rxfcg[m] /\ mode[m] # "rx"
    BY DEF LoopReadsWaitingFrame, ReceiverQuiet
  <2> QED BY <2>1
<1>5. PendingTransmission'
  BY <1>0 DEF TypeOK, PendingTransmission, GoodFrame, IsStampOf
<1>6. StampOfItsFrame'
  BY <1>0 DEF TypeOK, StampOfItsFrame, GoodFrame, IsStampOf
<1> QED BY <1>1, <1>2, <1>3, <1>4, <1>5, <1>6

(***************************************************************************)
(* Every state the program reaches satisfies StampInv.                     *)
(***************************************************************************)
THEOREM StampInvariant == Spec => []StampInv
<1>1. Init => StampInv
  BY InitStampInv
<1>2. StampInv /\ [Next]_vars => StampInv'
  <2> SUFFICES ASSUME StampInv, [Next]_vars PROVE StampInv'
    OBVIOUS
  <2>1. ASSUME NEW n \in Node, Loop(n) PROVE StampInv'
    BY <2>1, CheckStatusStampInv, ReadFrameStampInv, TakeFrameStampInv, AckFrameStampInv,
       NothingDueStampInv, StartSendStampInv, FinishSendStampInv DEF Loop
  <2>2. ASSUME NEW n \in Node, Expire(n) PROVE StampInv'
    BY <2>2, ExpireStampInv
  <2>3. ASSUME NEW n \in Node, OnAir(n) PROVE StampInv'
    BY <2>3, OnAirStampInv
  <2>4. CASE UNCHANGED vars
    BY <2>4 DEF StampInv, vars, firmware, receiver, TypeOK, SendInBound, ReceiverQuiet,
                LoopReadsWaitingFrame, PendingTransmission, StampOfItsFrame, GoodFrame, IsStampOf
  <2> QED BY <2>1, <2>2, <2>3, <2>4 DEF Next
<1> QED BY <1>1, <1>2, PTL DEF Spec

(***************************************************************************)
(* The variables always have their types: in particular no frame and no    *)
(* timestamp is processed that was not received.                           *)
(***************************************************************************)
THEOREM TypeCorrect == Spec => []TypeOK
  BY StampInvariant, PTL DEF StampInv

(***************************************************************************)
(* Payload and timestamp of a frame are never mixed up, although they are  *)
(* read in two steps and travel through received_messages, the frames of   *)
(* other nodes and the lines to the host.                                  *)
(***************************************************************************)
THEOREM StampsBelongToTheirFrames == Spec => []StampOfItsFrame
  BY StampInvariant, PTL DEF StampInv

-----------------------------------------------------------------------------
\* Numbers less than one turn of the ring apart have different slots.
LEMMA SlotsDiffer ==
  ASSUME NEW s \in Nat, NEW t \in Nat, s < t, t < s + BlockSize
  PROVE  s % BlockSize # t % BlockSize
<1> SUFFICES ASSUME s % BlockSize = t % BlockSize PROVE FALSE
  OBVIOUS
<1> DEFINE p == s \div BlockSize
           q == t \div BlockSize
<1>1. p \in Int /\ q \in Int /\ s % BlockSize \in Int
  BY BlockSizeAssumption
<1>2. s = (BlockSize * p) + (s % BlockSize) /\ t = (BlockSize * q) + (t % BlockSize)
  BY BlockSizeAssumption
<1> HIDE DEF p, q
<1>3. t - s = BlockSize * (q - p)
  BY <1>1, <1>2, BlockSizeAssumption
<1>4. q - p >= 1
  BY <1>1, <1>3, BlockSizeAssumption
<1>5. BlockSize * (q - p) >= BlockSize
  BY <1>1, <1>4, BlockSizeAssumption
<1> QED BY <1>1, <1>3, <1>5, BlockSizeAssumption

(***************************************************************************)
(* The last BlockSize transmission times are where get_tx_timestamp looks  *)
(* for them: FinishSend overwrites the oldest and no other.                *)
(***************************************************************************)
THEOREM RecentTimesKept == Spec => []RecentTxKept
<1>1. Init => RecentTxKept
  BY DEF Init, RecentTxKept, Seq
<1>2. StampInv /\ RecentTxKept /\ [Next]_vars => RecentTxKept'
  <2> SUFFICES ASSUME StampInv, RecentTxKept, [Next]_vars PROVE RecentTxKept'
    OBVIOUS
  <2>1. ASSUME NEW n \in Node, FinishSend(n) PROVE RecentTxKept'
    <3> SUFFICES ASSUME NEW k \in Node, NEW s \in Seq,
                        s < seq'[k], seq'[k] <= s + BlockSize
                 PROVE  tx_times'[k][s % BlockSize] = s
      BY DEF RecentTxKept
    <3>1. seq[k] \in Nat /\ s \in Nat
      BY DEF StampInv, TypeOK, Seq
    <3>2. CASE k # n
      <4>1. seq'[k] = seq[k] /\ tx_times'[k] = tx_times[k]
        BY <2>1, <3>2 DEF FinishSend, SetTxTimestamp, StampInv, TypeOK
      <4> QED BY <4>1 DEF RecentTxKept
    <3>3. CASE k = n
      <4>1. seq'[n] = seq[n] + 1
        BY <2>1 DEF FinishSend, StampInv, TypeOK
      <4>2. \A i \in 0..(BlockSize - 1) :
              tx_times'[n][i] = IF i = seq[n] % BlockSize THEN seq[n] ELSE tx_times[n][i]
        BY <2>1 DEF FinishSend, SetTxTimestamp, StampInv, TypeOK
      <4>3. s % BlockSize \in 0..(BlockSize - 1)
        BY <3>1, SlotInRing
      <4>4. CASE s = seq[n]
        BY <3>3, <4>2, <4>3, <4>4
      <4>5. CASE s # seq[n]
        <5>1. s < seq[n] /\ seq[n] < s + BlockSize
          <6>1. s < seq[n] + 1 /\ seq[n] + 1 <= s + BlockSize
            BY <3>3, <4>1
          <6>2. seq[n] \in Nat /\ BlockSize \in Nat
            BY <3>1, <3>3, BlockSizeAssumption
          <6> QED BY <3>1, <4>5, <6>1, <6>2
        <5>2. s % BlockSize # seq[n] % BlockSize
          BY <3>1, <3>3, <5>1, SlotsDiffer
        <5>3. tx_times[n][s % BlockSize] = s
          <6>1. seq[n] \in Nat /\ BlockSize \in Nat
            BY <3>1, <3>3, BlockSizeAssumption
          <6>2. seq[n] <= s + BlockSize
            BY <3>1, <5>1, <6>1
          <6> QED BY <5>1, <6>2 DEF RecentTxKept
        <5> QED BY <3>3, <4>2, <4>3, <5>2, <5>3
      <4> QED BY <4>4, <4>5
    <3> QED BY <3>2, <3>3
  <2>2. ASSUME NEW n \in Node,
               \/ CheckStatus(n) \/ ReadFrame(n) \/ TakeFrame(n) \/ AckFrame(n)
               \/ NothingDue(n) \/ StartSend(n) \/ Expire(n) \/ OnAir(n)
        PROVE  RecentTxKept'
    <3>1. UNCHANGED <<seq, tx_times>>
      BY <2>2 DEF CheckStatus, ReadFrame, TakeFrame, AckFrame, NothingDue, StartSend,
                  Expire, OnAir, firmware
    <3> QED BY <3>1 DEF RecentTxKept
  <2>3. CASE UNCHANGED vars
    BY <2>3 DEF vars, firmware, RecentTxKept
  <2> QED BY <2>1, <2>2, <2>3 DEF Next, Loop
<1> QED BY <1>1, <1>2, StampInvariant, PTL DEF Spec

-----------------------------------------------------------------------------
(* The swarm. *)

\* TXFRS is set only while send_message() waits for it, by the transmission
\* it waits for.
TransmissionFlag ==
  \A n \in Node : /\ txfrs[n] => pc[n] = "txwait"
                  /\ mode[n] = "tx" => ~txfrs[n]

\* Everything before the current sequence number has been reported.
AllReported == \A n \in Node : uart[n].tx = seq[n] - 1

HeardWasOnAir ==
  \A n, m \in Node : /\ table[n][m].seq <= LastOnAir(m)
                     /\ table[n][n].seq = 0

EchoesOnAir(f) == \A e \in f.heard : e.seq <= LastOnAir(e.id)

PendingEchoesOnAir == \A n \in Node : mode[n] = "tx" => EchoesOnAir(txbuf[n])

WaitingFrameIsNews ==
  \A n \in Node : rxfcg[n] =>
    /\ rxbuf[n].sender # n
    /\ rxbuf[n].seq <= LastOnAir(rxbuf[n].sender)
    /\ EchoesOnAir(rxbuf[n])
    /\ pc[n] # "ack" => table[n][rxbuf[n].sender].seq < rxbuf[n].seq

SwarmInv ==
  /\ TransmissionFlag
  /\ AllReported
  /\ HeardWasOnAir
  /\ PendingEchoesOnAir
  /\ WaitingFrameIsNews
  /\ TxLineBeforeItsEcho
-----------------------------------------------------------------------------
LEMMA InitSwarmInv == Init => SwarmInv
  BY DEF Init, SwarmInv, TransmissionFlag, AllReported, HeardWasOnAir, LastOnAir,
         PendingEchoesOnAir, WaitingFrameIsNews, TxLineBeforeItsEcho

LEMMA CheckStatusSwarmInv ==
  ASSUME StampInv, SwarmInv, NEW n \in Node, CheckStatus(n)
  PROVE  SwarmInv'
<1> USE DEF StampInv, SwarmInv, CheckStatus, Goto, RxEnable, firmware, receiver, TypeOK
<1>1. TransmissionFlag'
  BY DEF TransmissionFlag
<1>2. AllReported'
  BY DEF AllReported
<1>3. HeardWasOnAir'
  BY DEF HeardWasOnAir, LastOnAir
<1>4. PendingEchoesOnAir'
  BY DEF PendingEchoesOnAir, EchoesOnAir, LastOnAir
<1>5. WaitingFrameIsNews'
  BY DEF WaitingFrameIsNews, EchoesOnAir, LastOnAir
<1>6. TxLineBeforeItsEcho'
  BY DEF TxLineBeforeItsEcho
<1> QED BY <1>1, <1>2, <1>3, <1>4, <1>5, <1>6

LEMMA ReadFrameSwarmInv ==
  ASSUME StampInv, SwarmInv, NEW n \in Node, ReadFrame(n)
  PROVE  SwarmInv'
<1> USE DEF StampInv, SwarmInv, ReadFrame, Goto, RxEnable, firmware, receiver, TypeOK
<1>1. TransmissionFlag'
  BY DEF TransmissionFlag
<1>2. AllReported'
  BY DEF AllReported
<1>3. HeardWasOnAir'
  BY DEF HeardWasOnAir, LastOnAir
<1>4. PendingEchoesOnAir'
  BY DEF PendingEchoesOnAir, EchoesOnAir, LastOnAir
<1>5. WaitingFrameIsNews'
  BY DEF WaitingFrameIsNews, EchoesOnAir, LastOnAir
<1>6. TxLineBeforeItsEcho'
  BY DEF TxLineBeforeItsEcho
<1> QED BY <1>1, <1>2, <1>3, <1>4, <1>5, <1>6

LEMMA TakeFrameSwarmInv ==
  ASSUME StampInv, SwarmInv, NEW n \in Node, TakeFrame(n)
  PROVE  SwarmInv'
<1> USE DEF StampInv, SwarmInv, TakeFrame, Goto, RxEnable, firmware, receiver, TypeOK
<1>1. TransmissionFlag'
  BY DEF TransmissionFlag
<1>2. AllReported'
  BY DEF AllReported
<1>0. /\ frame[n] \in Frame
      /\ frame[n].sender \in Node \ {n}
      /\ frame[n].seq <= LastOnAir(frame[n].sender)
      /\ EchoesOnAir(frame[n])
  BY DEF LoopReadsWaitingFrame, ReceiverQuiet, WaitingFrameIsNews, Frame
<1>a. \A m \in Node : LastOnAir(m)' = LastOnAir(m)
  BY DEF LastOnAir
<1>b. \A k, m \in Node : table'[k][m].seq =
         IF k = n /\ m = frame[n].sender THEN frame[n].seq ELSE table[k][m].seq
  BY <1>0
<1>3. HeardWasOnAir'
  <2> SUFFICES ASSUME NEW k \in Node, NEW m \in Node
               PROVE  table'[k][m].seq <= LastOnAir(m)' /\ table'[k][k].seq = 0
    BY DEF HeardWasOnAir
  <2>1. table[k][m].seq <= LastOnAir(m) /\ table[k][k].seq = 0
    BY DEF HeardWasOnAir
  <2>2. LastOnAir(m)' = LastOnAir(m)
    BY <1>a
  <2> QED BY <1>0, <1>b, <2>1, <2>2
<1>4. PendingEchoesOnAir'
  BY DEF PendingEchoesOnAir, EchoesOnAir, LastOnAir
<1>5. WaitingFrameIsNews'
  BY DEF WaitingFrameIsNews, EchoesOnAir, LastOnAir
<1>6. TxLineBeforeItsEcho'
  <2>1. uart'[n].tx = uart[n].tx /\ uart'[n].rx.frame = frame[n]
    OBVIOUS
  <2>2. \A e \in frame[n].heard : e.id = n => e.seq <= uart[n].tx
    <3>1. LastOnAir(n) = uart[n].tx
      BY DEF TransmissionFlag, AllReported, LastOnAir
    <3> QED BY <1>0, <3>1 DEF EchoesOnAir
  <2>3. \A m \in Node \ {n} : uart'[m] = uart[m]
    OBVIOUS
  <2> QED BY <2>1, <2>2, <2>3 DEF TxLineBeforeItsEcho
<1> QED BY <1>1, <1>2, <1>3, <1>4, <1>5, <1>6

LEMMA AckFrameSwarmInv ==
  ASSUME StampInv, SwarmInv, NEW n \in Node, AckFrame(n)
  PROVE  SwarmInv'
<1> USE DEF StampInv, SwarmInv, AckFrame, Goto, RxEnable, firmware, receiver, TypeOK
<1>1. TransmissionFlag'
  BY DEF TransmissionFlag
<1>2. AllReported'
  BY DEF AllReported
<1>3. HeardWasOnAir'
  BY DEF HeardWasOnAir, LastOnAir
<1>4. PendingEchoesOnAir'
  BY DEF PendingEchoesOnAir, EchoesOnAir, LastOnAir
<1>5. WaitingFrameIsNews'
  BY DEF WaitingFrameIsNews, EchoesOnAir, LastOnAir
<1>6. TxLineBeforeItsEcho'
  BY DEF TxLineBeforeItsEcho
<1> QED BY <1>1, <1>2, <1>3, <1>4, <1>5, <1>6

LEMMA NothingDueSwarmInv ==
  ASSUME StampInv, SwarmInv, NEW n \in Node, NothingDue(n)
  PROVE  SwarmInv'
<1> USE DEF StampInv, SwarmInv, NothingDue, Goto, RxEnable, firmware, receiver, TypeOK
<1>1. TransmissionFlag'
  BY DEF TransmissionFlag
<1>2. AllReported'
  BY DEF AllReported
<1>3. HeardWasOnAir'
  BY DEF HeardWasOnAir, LastOnAir
<1>4. PendingEchoesOnAir'
  BY DEF PendingEchoesOnAir, EchoesOnAir, LastOnAir
<1>5. WaitingFrameIsNews'
  BY DEF WaitingFrameIsNews, EchoesOnAir, LastOnAir
<1>6. TxLineBeforeItsEcho'
  BY DEF TxLineBeforeItsEcho
<1> QED BY <1>1, <1>2, <1>3, <1>4, <1>5, <1>6

LEMMA StartSendSwarmInv ==
  ASSUME StampInv, SwarmInv, NEW n \in Node, StartSend(n)
  PROVE  SwarmInv'
<1> USE DEF StampInv, SwarmInv, StartSend, Goto, RxEnable, firmware, receiver, TypeOK
<1>1. TransmissionFlag'
  BY DEF TransmissionFlag
<1>2. AllReported'
  BY DEF AllReported
<1>3. HeardWasOnAir'
  BY DEF HeardWasOnAir, LastOnAir
<1>4. PendingEchoesOnAir'
  <2>1. EchoesOnAir(Construct(n))
    BY DEF Construct, EchoesOnAir, HeardWasOnAir
  <2>2. \A m \in Node : LastOnAir(m)' = LastOnAir(m)
    BY DEF LastOnAir
  <2>3. \A m \in Node : mode'[m] = "tx" => EchoesOnAir(txbuf'[m])
    BY <2>1 DEF PendingEchoesOnAir
  <2>4. \A m \in Node : mode'[m] = "tx" => txbuf'[m] \in Frame
    <3>1. \A m \in Node \ {n} : mode'[m] = "tx" => txbuf'[m] \in Frame
      BY DEF PendingTransmission
    <3>2. txbuf'[n] = Construct(n)
      OBVIOUS
    <3>3. Construct(n) \in Frame
      BY ConstructGoodFrame
    <3> QED BY <3>1, <3>2, <3>3
  <2>5. \A f \in Frame : \A e \in f.heard : e.id \in Node
    BY DEF Frame, Echo
  <2> QED BY <2>2, <2>3, <2>4, <2>5 DEF PendingEchoesOnAir, EchoesOnAir
<1>5. WaitingFrameIsNews'
  BY DEF WaitingFrameIsNews, EchoesOnAir, LastOnAir
<1>6. TxLineBeforeItsEcho'
  BY DEF TxLineBeforeItsEcho
<1> QED BY <1>1, <1>2, <1>3, <1>4, <1>5, <1>6

LEMMA FinishSendSwarmInv ==
  ASSUME StampInv, SwarmInv, NEW n \in Node, FinishSend(n)
  PROVE  SwarmInv'
<1> USE DEF StampInv, SwarmInv, FinishSend, Goto, RxEnable, firmware, receiver, TypeOK
<1>1. TransmissionFlag'
  BY DEF TransmissionFlag
<1>2. AllReported'
  BY DEF AllReported
<1>3. HeardWasOnAir'
  BY DEF HeardWasOnAir, LastOnAir
<1>4. PendingEchoesOnAir'
  BY DEF PendingEchoesOnAir, EchoesOnAir, LastOnAir
<1>5. WaitingFrameIsNews'
  BY DEF WaitingFrameIsNews, EchoesOnAir, LastOnAir
<1>6. TxLineBeforeItsEcho'
  <2>1. \A m \in Node : uart'[m].rx = uart[m].rx /\ uart'[m].tx >= uart[m].tx
    BY DEF AllReported
  <2>2. \A m \in Node : uart[m].tx \in Nat
    OBVIOUS
  <2>3. ASSUME NEW m \in Node, uart'[m].rx # None, NEW e \in uart'[m].rx.frame.heard, e.id = m
        PROVE  e.seq <= uart'[m].tx
    <3>1. uart[m].rx # None /\ e \in uart[m].rx.frame.heard
      BY <2>1, <2>3
    <3>2. e.seq <= uart[m].tx
      BY <2>3, <3>1 DEF TxLineBeforeItsEcho
    <3>3. uart[m].rx \in RxLine /\ uart[m].rx.frame # None
      BY <3>1 DEF StampOfItsFrame
    <3>4. uart[m].rx.frame \in Frame
      BY <3>3 DEF RxLine
    <3>5. e.seq \in Nat
      BY <3>1, <3>4 DEF Frame, Echo, Seq
    <3>6. uart'[m].tx \in Nat
      BY <2>1, <2>2
    <3> QED BY <2>1, <2>2, <3>2, <3>5, <3>6
  <2> QED BY <2>3 DEF TxLineBeforeItsEcho
<1> QED BY <1>1, <1>2, <1>3, <1>4, <1>5, <1>6

LEMMA ExpireSwarmInv ==
  ASSUME StampInv, SwarmInv, NEW n \in Node, Expire(n)
  PROVE  SwarmInv'
<1> USE DEF StampInv, SwarmInv, Expire, Goto, RxEnable, firmware, receiver, TypeOK
<1>1. TransmissionFlag'
  BY DEF TransmissionFlag
<1>2. AllReported'
  BY DEF AllReported
<1>3. HeardWasOnAir'
  BY DEF HeardWasOnAir, LastOnAir
<1>4. PendingEchoesOnAir'
  BY DEF PendingEchoesOnAir, EchoesOnAir, LastOnAir
<1>5. WaitingFrameIsNews'
  BY DEF WaitingFrameIsNews, EchoesOnAir, LastOnAir
<1>6. TxLineBeforeItsEcho'
  BY DEF TxLineBeforeItsEcho
<1> QED BY <1>1, <1>2, <1>3, <1>4, <1>5, <1>6

LEMMA OnAirSwarmInv ==
  ASSUME StampInv, SwarmInv, NEW n \in Node, OnAir(n)
  PROVE  SwarmInv'
<1> USE DEF StampInv, SwarmInv, firmware, TypeOK
<1> DEFINE Listening == {m \in Node : mode[m] = "rx"}
           Newest(m) == IF txfrs'[m] THEN seq[m] ELSE seq[m] - 1
<1> PICK good \in SUBSET Listening : \E bad \in SUBSET (Listening \ good) :
        Reception(n, good, bad)
  BY DEF OnAir
<1> PICK bad \in SUBSET (Listening \ good) : Reception(n, good, bad)
  OBVIOUS
<1> USE DEF Reception
<1>0. /\ mode[n] = "tx"
      /\ txfrs' = [txfrs EXCEPT ![n] = TRUE]
      /\ UNCHANGED <<pc, seq, table, frame, timer, tx_times, uart, txbuf>>
  BY DEF OnAir
<1>a. /\ pc[n] = "txwait"
      /\ ~txfrs[n]
      /\ txbuf[n] \in Frame
      /\ txbuf[n].sender = n
      /\ txbuf[n].seq = seq[n]
      /\ EchoesOnAir(txbuf[n])
  BY <1>0 DEF TransmissionFlag, PendingTransmission, PendingEchoesOnAir
<1>b. /\ \A m \in Node : LastOnAir(m) \in Nat /\ Newest(m) \in Nat
      /\ \A m \in Node : Newest(m) >= LastOnAir(m)
      /\ LastOnAir(n) = seq[n] - 1
      /\ Newest(n) = seq[n]
  BY <1>0, <1>a DEF LastOnAir
<1> HIDE DEF Newest
<1>c. ASSUME NEW f \in Frame, EchoesOnAir(f)
      PROVE  \A e \in f.heard : e.seq <= Newest(e.id)
  <2>1. \A e \in f.heard : e.id \in Node /\ e.seq \in Nat
    BY DEF Frame, Echo, Seq
  <2> QED BY <1>b, <1>c, <2>1 DEF EchoesOnAir
<1>d. \A k, m \in Node : table[k][m].seq \in Nat
  BY DEF Row
<1>1. TransmissionFlag'
  <2>1. \A m \in Node : mode'[m] = "tx" => m # n /\ mode[m] = "tx"
    OBVIOUS
  <2> QED BY <1>0, <1>a, <2>1 DEF TransmissionFlag
<1>2. AllReported'
  BY <1>0 DEF AllReported
<1>3. HeardWasOnAir'
  <2> SUFFICES ASSUME NEW k \in Node, NEW m \in Node
               PROVE  table[k][m].seq <= Newest(m) /\ table[k][k].seq = 0
    BY <1>0 DEF HeardWasOnAir, LastOnAir, Newest
  <2>1. LastOnAir(m) \in Nat /\ Newest(m) \in Nat /\ Newest(m) >= LastOnAir(m)
    BY <1>b
  <2>2. table[k][m].seq \in Nat /\ table[k][m].seq <= LastOnAir(m) /\ table[k][k].seq = 0
    BY <1>d DEF HeardWasOnAir
  <2> HIDE DEF StampInv, SwarmInv, firmware, TypeOK, Reception
  <2> QED BY <2>1, <2>2
<1>4. PendingEchoesOnAir'
  <2> SUFFICES ASSUME NEW m \in Node, mode'[m] = "tx", NEW e \in txbuf[m].heard
               PROVE  e.seq <= Newest(e.id)
    BY <1>0 DEF PendingEchoesOnAir, EchoesOnAir, LastOnAir, Newest
  <2>1. mode[m] = "tx"
    OBVIOUS
  <2> QED BY <1>c, <2>1 DEF PendingEchoesOnAir, PendingTransmission
<1>5. WaitingFrameIsNews'
  <2> SUFFICES ASSUME NEW m \in Node, rxfcg'[m]
               PROVE  /\ rxbuf'[m].sender # m
                      /\ rxbuf'[m].seq <= Newest(rxbuf'[m].sender)
                      /\ \A e \in rxbuf'[m].heard : e.seq <= Newest(e.id)
                      /\ pc[m] # "ack" => table[m][rxbuf'[m].sender].seq < rxbuf'[m].seq
    BY <1>0 DEF WaitingFrameIsNews, EchoesOnAir, LastOnAir, Newest
  <2>1. CASE m \in good
    <3>1. rxbuf'[m] = txbuf[n] /\ m # n
      BY <1>0, <2>1
    <3>2. table[m][n].seq <= LastOnAir(n)
      BY DEF HeardWasOnAir
    <3>3. table[m][n].seq < seq[n]
      BY <1>b, <1>d, <3>2
    <3>4. \A e \in txbuf[n].heard : e.seq <= Newest(e.id)
      BY <1>a, <1>c
    <3>5. seq[n] \in Nat /\ seq[n] <= Newest(n)
      BY <1>b
    <3> HIDE DEF StampInv, SwarmInv, firmware, TypeOK, Reception
    <3>6. rxbuf'[m].sender = n /\ rxbuf'[m].seq = seq[n]
      BY <1>a, <3>1
    <3> QED BY <3>1, <3>3, <3>4, <3>5, <3>6
  <2>2. CASE m \notin good
    <3>1. rxfcg[m] /\ mode[m] # "rx"
      BY <2>2 DEF ReceiverQuiet
    <3>2. rxbuf'[m] = rxbuf[m] /\ rxbuf[m] \in Frame
      BY <2>2, <3>1 DEF ReceiverQuiet
    <3>3. rxbuf[m].sender \in Node /\ rxbuf[m].seq \in Nat
      BY <3>2 DEF Frame, Seq
    <3>4. rxbuf[m].seq <= LastOnAir(rxbuf[m].sender)
      BY <3>1 DEF WaitingFrameIsNews
    <3>5. rxbuf[m].seq <= Newest(rxbuf[m].sender)
      <4> DEFINE sender == rxbuf[m].sender
      <4>1. LastOnAir(sender) \in Nat /\ Newest(sender) \in Nat /\ Newest(sender) >= LastOnAir(sender)
        BY <1>b, <3>3
      <4> QED BY <3>3, <3>4, <4>1
    <3>6. \A e \in rxbuf[m].heard : e.seq <= Newest(e.id)
      BY <1>c, <3>1, <3>2 DEF WaitingFrameIsNews
    <3> QED BY <3>1, <3>2, <3>5, <3>6 DEF WaitingFrameIsNews
  <2> QED BY <2>1, <2>2
<1>6. TxLineBeforeItsEcho'
  BY <1>0 DEF TxLineBeforeItsEcho
<1> QED BY <1>1, <1>2, <1>3, <1>4, <1>5, <1>6

(***************************************************************************)
(* Every state the program reaches satisfies SwarmInv.                     *)
(***************************************************************************)
THEOREM SwarmInvariant == Spec => []SwarmInv
<1>1. Init => SwarmInv
  BY InitSwarmInv
<1>2. StampInv /\ SwarmInv /\ [Next]_vars => SwarmInv'
  <2> SUFFICES ASSUME StampInv, SwarmInv, [Next]_vars PROVE SwarmInv'
    OBVIOUS
  <2>1. ASSUME NEW n \in Node, Loop(n) PROVE SwarmInv'
    BY <2>1, CheckStatusSwarmInv, ReadFrameSwarmInv, TakeFrameSwarmInv, AckFrameSwarmInv,
       NothingDueSwarmInv, StartSendSwarmInv, FinishSendSwarmInv DEF Loop
  <2>2. ASSUME NEW n \in Node, Expire(n) PROVE SwarmInv'
    BY <2>2, ExpireSwarmInv
  <2>3. ASSUME NEW n \in Node, OnAir(n) PROVE SwarmInv'
    BY <2>3, OnAirSwarmInv
  <2>4. CASE UNCHANGED vars
    BY <2>4 DEF SwarmInv, vars, firmware, receiver, TransmissionFlag, AllReported,
                HeardWasOnAir, LastOnAir, PendingEchoesOnAir, EchoesOnAir,
                WaitingFrameIsNews, TxLineBeforeItsEcho
  <2> QED BY <2>1, <2>2, <2>3, <2>4 DEF Next
<1> QED BY <1>1, <1>2, StampInvariant, PTL DEF Spec

(***************************************************************************)
(* The host hears of a transmission before it hears of its reception, so   *)
(* the lookup of its time in evaluate_rx finds it.                         *)
(***************************************************************************)
THEOREM TransmissionReportedFirst == Spec => []TxLineBeforeItsEcho
  BY SwarmInvariant, PTL DEF SwarmInv

-----------------------------------------------------------------------------
(***************************************************************************)
(* The refinement.  Only two steps are seen from outside: OnAir is         *)
(* Transmit, and TakeFrame is Hear.                                        *)
(***************************************************************************)
LEMMA TakeFrameHears ==
  ASSUME StampInv, SwarmInv, NEW n \in Node, TakeFrame(n)
  PROVE  \E m \in Node : Swarm!Hear(n, m)
<1> USE DEF StampInv, SwarmInv, TakeFrame, receiver, TypeOK
<1>1. /\ frame[n] \in Frame
      /\ frame[n].sender # n
      /\ frame[n].seq <= LastOnAir(frame[n].sender)
      /\ table[n][frame[n].sender].seq < frame[n].seq
  BY DEF LoopReadsWaitingFrame, ReceiverQuiet, WaitingFrameIsNews
<1>2. frame[n].sender \in Node /\ frame[n].seq \in Nat
  BY <1>1 DEF Frame, Seq
<1> PICK m \in Node : m = frame[n].sender
  BY <1>2
<1> PICK s \in Nat : s = frame[n].seq
  BY <1>2
<1>3. LastOnAir(m) \in Nat /\ table[n][m].seq \in Nat
  <2>1. LastOnAir(m) \in Nat
    BY DEF LastOnAir
  <2>2. table[n][m] \in Row
    OBVIOUS
  <2> QED BY <2>1, <2>2 DEF Row
<1>4. s \in (table[n][m].seq + 1)..LastOnAir(m)
  BY <1>1, <1>3
<1>5. \A k, l \in Node : table'[k][l].seq =
         IF k = n /\ l = m THEN s ELSE table[k][l].seq
  BY <1>2
<1>6. \A k \in Node : LastOnAir(k)' = LastOnAir(k)
  BY DEF LastOnAir
<1>7. [k \in Node |-> [l \in Node |-> table'[k][l].seq]]
        = [[k \in Node |-> [l \in Node |-> table[k][l].seq]] EXCEPT ![n][m] = s]
  <2> DEFINE OldRow(k) == [l \in Node |-> table[k][l].seq]
             NewRow(k) == [l \in Node |-> table'[k][l].seq]
  <2> HIDE DEF StampInv, SwarmInv, TakeFrame, TypeOK
  <2>1. \A k \in Node \ {n} : NewRow(k) = OldRow(k)
    BY <1>5
  <2>2. NewRow(n) = [OldRow(n) EXCEPT ![m] = s]
    BY <1>5
  <2> HIDE DEF OldRow, NewRow
  <2>3. [k \in Node |-> NewRow(k)] = [[k \in Node |-> OldRow(k)] EXCEPT ![n][m] = s]
    BY <2>1, <2>2
  <2> QED BY <2>3 DEF OldRow, NewRow
<1>9. UNCHANGED [k \in Node |-> LastOnAir(k)]
  BY <1>6
<1> HIDE DEF StampInv, SwarmInv, TakeFrame, TypeOK
<1>8. Swarm!Hear(n, m)
  BY <1>1, <1>4, <1>7, <1>9 DEF Swarm!Hear
<1> QED BY <1>8

LEMMA OnAirTransmits ==
  ASSUME StampInv, SwarmInv, NEW n \in Node, OnAir(n)
  PROVE  Swarm!Transmit(n)
<1>1. mode[n] = "tx" /\ txfrs' = [txfrs EXCEPT ![n] = TRUE]
  BY DEF OnAir
<1>2. UNCHANGED <<seq, table>>
  BY DEF OnAir, firmware
<1>3. ~txfrs[n]
  BY <1>1 DEF SwarmInv, TransmissionFlag
<1>4. \A m \in Node : LastOnAir(m)' = IF m = n THEN LastOnAir(m) + 1 ELSE LastOnAir(m)
  BY <1>1, <1>2, <1>3 DEF LastOnAir, StampInv, TypeOK
<1> QED BY <1>2, <1>4 DEF Swarm!Transmit

LEMMA FinishSendUnseen ==
  ASSUME StampInv, NEW n \in Node, FinishSend(n)
  PROVE  UNCHANGED Swarm!vars
<1>1. \A m \in Node : LastOnAir(m)' = LastOnAir(m)
  BY DEF FinishSend, LastOnAir, StampInv, TypeOK
<1> QED BY <1>1 DEF FinishSend, Swarm!vars

LEMMA OtherStepsUnseen ==
  ASSUME UNCHANGED <<seq, table, txfrs>>
  PROVE  UNCHANGED Swarm!vars
  BY DEF Swarm!vars, LastOnAir

(***************************************************************************)
(* received_messages only ever changes by remembering a newer transmission *)
(* that another node has really made, and every node numbers its           *)
(* transmissions 1, 2, 3, ...: the firmware implements LastHeard.          *)
(***************************************************************************)
THEOREM FirmwareImplementsLastHeard == Spec => ImplementsLastHeard
<1>1. Init => Swarm!Init
  BY DEF Init, Swarm!Init, LastOnAir
<1>2. StampInv /\ SwarmInv /\ [Next]_vars => [Swarm!Next]_(Swarm!vars)
  <2> SUFFICES ASSUME StampInv, SwarmInv, [Next]_vars
               PROVE  Swarm!Next \/ UNCHANGED Swarm!vars
    OBVIOUS
  <2>1. ASSUME NEW n \in Node, TakeFrame(n) PROVE Swarm!Next
    BY <2>1, TakeFrameHears DEF Swarm!Next
  <2>2. ASSUME NEW n \in Node, OnAir(n) PROVE Swarm!Next
    BY <2>2, OnAirTransmits DEF Swarm!Next
  <2>3. ASSUME NEW n \in Node, FinishSend(n) PROVE UNCHANGED Swarm!vars
    BY <2>3, FinishSendUnseen
  <2>4. ASSUME NEW n \in Node,
               \/ CheckStatus(n) \/ ReadFrame(n) \/ AckFrame(n)
               \/ NothingDue(n) \/ StartSend(n) \/ Expire(n)
        PROVE  UNCHANGED Swarm!vars
    <3>1. UNCHANGED <<seq, table, txfrs>>
      BY <2>4 DEF CheckStatus, ReadFrame, AckFrame, NothingDue, StartSend, Expire
    <3> QED BY <3>1, OtherStepsUnseen
  <2>5. CASE UNCHANGED vars
    BY <2>5, OtherStepsUnseen DEF vars, firmware
  <2> QED BY <2>1, <2>2, <2>3, <2>4, <2>5 DEF Next, Loop
<1> QED BY <1>1, <1>2, StampInvariant, SwarmInvariant, PTL
        DEF Spec, ImplementsLastHeard, Swarm!Spec

-----------------------------------------------------------------------------
(***************************************************************************)
(* What the frames of one node say of the others only grows.  A frame is   *)
(* followed by what its sender remembers, by the frame the sender has      *)
(* pending, and by the next one of the same sender that a receiver holds.  *)
(***************************************************************************)
Covers(f, g) == \A e \in f.heard : \E h \in g.heard : h.id = e.id /\ h.seq >= e.seq

InTable(f) == \A e \in f.heard : e.seq <= table[f.sender][e.id].seq

Followed(f) ==
  /\ f \in Frame
  /\ InTable(f)
  /\ mode[f.sender] = "tx" => Covers(f, txbuf[f.sender])

EchoInv ==
  \A n \in Node :
    /\ mode[n] = "tx" => InTable(txbuf[n])
    /\ rxfcg[n] => Followed(rxbuf[n])
    /\ uart[n].rx # None =>
         /\ Followed(uart[n].rx.frame)
         /\ rxfcg[n] /\ rxbuf[n].sender = uart[n].rx.frame.sender
              => Covers(uart[n].rx.frame, rxbuf[n])

\* The frame that n builds covers all that its table does.
LEMMA ConstructCovers ==
  ASSUME TypeOK, NEW f \in Frame, InTable(f)
  PROVE  Covers(f, Construct(f.sender))
<1> SUFFICES ASSUME NEW e \in f.heard
             PROVE  \E h \in Construct(f.sender).heard : h.id = e.id /\ h.seq >= e.seq
  BY DEF Covers
<1>1. f.sender \in Node /\ e.id \in Node /\ e.seq \in Seq
  BY DEF Frame, Echo
<1> PICK m \in Node, k \in Node : m = f.sender /\ k = e.id
  BY <1>1
<1>2. e.seq <= table[m][k].seq /\ table[m][k].seq \in Nat
  <2>1. table[m][k] \in Row
    BY DEF TypeOK
  <2> QED BY <2>1 DEF InTable, Row, Seq
<1>3. table[m][k].seq # 0
  BY <1>1, <1>2 DEF Seq
<1>4. [id |-> k, seq |-> table[m][k].seq, rx |-> table[m][k].rx] \in Construct(m).heard
  BY <1>3 DEF Construct
<1> QED BY <1>1, <1>2, <1>4 DEF Seq

\* What a step does to the frames there are.
FramesStep ==
  /\ \A k, l \in Node : table[k][l].seq <= table'[k][l].seq
  /\ \A m \in Node : mode'[m] = "tx" =>
       \/ mode[m] = "tx" /\ txbuf'[m] = txbuf[m]
       \/ txbuf'[m] = Construct(m) /\ table'[m] = table[m]
  /\ \A n \in Node : rxfcg'[n] =>
       \/ rxfcg[n] /\ rxbuf'[n] = rxbuf[n]
       \/ /\ uart'[n] = uart[n]
          /\ \E m \in Node : mode[m] = "tx" /\ mode'[m] # "tx" /\ rxbuf'[n] = txbuf[m]
  /\ \A n \in Node :
       \/ uart'[n].rx = uart[n].rx
       \/ rxfcg[n] /\ rxbuf'[n] = rxbuf[n] /\ uart'[n].rx.frame = rxbuf[n]

LEMMA StepOfFrames ==
  ASSUME StampInv, SwarmInv, [Next]_vars
  PROVE  FramesStep
<1>0. \A k, l \in Node : table[k][l].seq \in Nat
  BY DEF StampInv, TypeOK, Row, Seq
<1>1. ASSUME NEW n \in Node, TakeFrame(n) PROVE FramesStep
  <2>1. /\ rxfcg[n] /\ frame[n] = rxbuf[n] /\ rxbuf[n] \in Frame
        /\ table[n][rxbuf[n].sender].seq < rxbuf[n].seq
    BY <1>1 DEF TakeFrame, StampInv, SwarmInv, TypeOK, LoopReadsWaitingFrame, ReceiverQuiet,
                WaitingFrameIsNews
  <2>2. rxbuf[n].sender \in Node /\ rxbuf[n].seq \in Nat
    BY <2>1 DEF Frame, Seq
  <2>3. \A k, l \in Node : table'[k][l].seq =
          IF k = n /\ l = rxbuf[n].sender THEN rxbuf[n].seq ELSE table[k][l].seq
    BY <1>1, <2>1, <2>2 DEF TakeFrame, StampInv, TypeOK
  <2>4. \A k, l \in Node : table[k][l].seq <= table'[k][l].seq
    BY <1>0, <2>1, <2>2, <2>3
  <2>5. UNCHANGED <<mode, txbuf, rxfcg, rxbuf>>
    BY <1>1 DEF TakeFrame, receiver
  <2>6. \A k \in Node : uart'[k].rx = uart[k].rx
                        \/ (k = n /\ uart'[k].rx.frame = frame[n])
    BY <1>1 DEF TakeFrame, StampInv, TypeOK
  <2> QED BY <2>1, <2>4, <2>5, <2>6 DEF FramesStep
<1>2. ASSUME NEW n \in Node, OnAir(n) PROVE FramesStep
  <2>1. mode[n] = "tx" /\ UNCHANGED <<table, uart, txbuf>>
    BY <1>2 DEF OnAir, firmware
  <2> DEFINE Listening == {m \in Node : mode[m] = "rx"}
  <2>2. PICK good \in SUBSET Listening : \E bad \in SUBSET (Listening \ good) :
               Reception(n, good, bad)
    BY <1>2 DEF OnAir
  <2>3. PICK bad \in SUBSET (Listening \ good) : Reception(n, good, bad)
    BY <2>2
  <2>4. \A m \in Node : /\ mode'[m] = "tx" => mode[m] = "tx"
                        /\ rxfcg'[m] = (rxfcg[m] \/ m \in good)
                        /\ m \in good => rxbuf'[m] = txbuf[n]
                        /\ m \notin good /\ m \notin bad => rxbuf'[m] = rxbuf[m]
                        /\ m \in bad => mode[m] = "rx"
    BY <2>3 DEF Reception
  <2>5. mode'[n] # "tx"
    BY <2>3 DEF Reception
  <2>6. \A m \in Node : m \in bad => ~rxfcg[m]
    BY <2>4 DEF StampInv, ReceiverQuiet
  <2>7. \A m \in Node : rxfcg'[m] =>
          \/ rxfcg[m] /\ rxbuf'[m] = rxbuf[m]
          \/ rxbuf'[m] = txbuf[n]
    BY <2>4, <2>6
  <2> QED BY <1>0, <2>1, <2>4, <2>5, <2>7 DEF FramesStep
<1>3. ASSUME NEW n \in Node, StartSend(n) PROVE FramesStep
  <2>1. UNCHANGED <<table, uart, rxfcg, rxbuf>>
    BY <1>3 DEF StartSend, receiver
  <2>2. \A m \in Node : mode'[m] = "tx" => txbuf'[m] = Construct(m)
                                           \/ (mode[m] = "tx" /\ txbuf'[m] = txbuf[m])
    BY <1>3 DEF StartSend, StampInv, TypeOK
  <2> QED BY <1>0, <2>1, <2>2 DEF FramesStep
<1>4. ASSUME NEW n \in Node, FinishSend(n) PROVE FramesStep
  <2>1. /\ UNCHANGED <<table, txbuf, rxbuf>>
        /\ \A m \in Node : /\ mode'[m] = "tx" => mode[m] = "tx"
                           /\ rxfcg'[m] => rxfcg[m]
                           /\ uart'[m].rx = uart[m].rx
    BY <1>4 DEF FinishSend, RxEnable, StampInv, TypeOK
  <2> QED BY <1>0, <2>1 DEF FramesStep
<1>5. ASSUME NEW n \in Node,
             \/ CheckStatus(n) \/ ReadFrame(n) \/ AckFrame(n) \/ NothingDue(n) \/ Expire(n)
      PROVE  FramesStep
  <2>1. /\ UNCHANGED <<table, mode, txbuf, rxbuf, uart>>
        /\ \A m \in Node : rxfcg'[m] => rxfcg[m]
    BY <1>5 DEF CheckStatus, ReadFrame, AckFrame, NothingDue, Expire, receiver, StampInv, TypeOK
  <2> QED BY <1>0, <2>1 DEF FramesStep
<1>6. CASE UNCHANGED vars
  BY <1>0, <1>6 DEF FramesStep, vars, firmware, receiver
<1> QED BY <1>1, <1>2, <1>3, <1>4, <1>5, <1>6 DEF Next, Loop

LEMMA FollowedKept ==
  ASSUME TypeOK, TypeOK', FramesStep, NEW f, Followed(f)
  PROVE  Followed(f)'
<1>1. f \in Frame /\ f.sender \in Node /\ \A e \in f.heard : e.id \in Node /\ e.seq \in Nat
  BY DEF Followed, Frame, Echo, Seq
<1>2. \A k, l \in Node : table[k][l].seq \in Nat /\ table'[k][l].seq \in Nat
  BY RowNumbers DEF TypeOK
<1>3. InTable(f)'
  <2> SUFFICES ASSUME NEW e \in f.heard PROVE e.seq <= table'[f.sender][e.id].seq
    BY DEF InTable
  <2>1. e.seq <= table[f.sender][e.id].seq
    BY DEF Followed, InTable
  <2>2. table[f.sender][e.id].seq <= table'[f.sender][e.id].seq
    BY <1>1 DEF FramesStep
  <2> QED BY <1>1, <1>2, <2>1, <2>2
<1>4. ASSUME mode'[f.sender] = "tx" PROVE Covers(f, txbuf'[f.sender])
  <2>1. CASE mode[f.sender] = "tx" /\ txbuf'[f.sender] = txbuf[f.sender]
    BY <2>1 DEF Followed
  <2>2. CASE txbuf'[f.sender] = Construct(f.sender)
    BY <1>1, <2>2, ConstructCovers DEF Followed
  <2> QED BY <1>1, <1>4, <2>1, <2>2 DEF FramesStep
<1> QED BY <1>1, <1>3, <1>4 DEF Followed, Covers

LEMMA EchoStep ==
  ASSUME StampInv, StampInv', EchoInv, FramesStep
  PROVE  EchoInv'
<1>1. TypeOK /\ TypeOK'
  BY DEF StampInv
<1>2. \A f : Followed(f) => Followed(f)'
  BY <1>1, FollowedKept
<1>3. \A k, l \in Node : table[k][l].seq \in Nat /\ table'[k][l].seq \in Nat
  BY <1>1, RowNumbers DEF TypeOK
<1>4. ASSUME NEW f \in Frame, InTable(f) PROVE InTable(f)'
  <2> SUFFICES ASSUME NEW e \in f.heard PROVE e.seq <= table'[f.sender][e.id].seq
    BY DEF InTable
  <2>1. f.sender \in Node /\ e.id \in Node /\ e.seq \in Nat
    BY DEF Frame, Echo, Seq
  <2>2. e.seq <= table[f.sender][e.id].seq
    BY <1>4 DEF InTable
  <2>3. table[f.sender][e.id].seq <= table'[f.sender][e.id].seq
    BY <2>1 DEF FramesStep
  <2> QED BY <1>3, <2>1, <2>2, <2>3
<1>5. \A m \in Node : mode[m] = "tx" => txbuf[m] \in Frame /\ txbuf[m].sender = m
                                        /\ InTable(txbuf[m])
  BY DEF StampInv, TypeOK, PendingTransmission, EchoInv
<1> SUFFICES ASSUME NEW n \in Node
             PROVE  /\ mode'[n] = "tx" => InTable(txbuf[n])'
                    /\ rxfcg'[n] => Followed(rxbuf[n])'
                    /\ uart'[n].rx # None =>
                         /\ Followed(uart[n].rx.frame)'
                         /\ rxfcg'[n] /\ rxbuf'[n].sender = uart'[n].rx.frame.sender
                              => Covers(uart'[n].rx.frame, rxbuf'[n])
  BY DEF EchoInv, Covers
<1>6. ASSUME mode'[n] = "tx" PROVE InTable(txbuf[n])'
  <2>1. CASE mode[n] = "tx" /\ txbuf'[n] = txbuf[n]
    <3>1. PICK f : f = txbuf[n]
      OBVIOUS
    <3>2. InTable(f)'
      BY <1>4, <1>5, <2>1, <3>1
    <3> QED BY <2>1, <3>1, <3>2
  <2>2. CASE txbuf'[n] = Construct(n) /\ table'[n] = table[n]
    <3>1. \A e \in Construct(n).heard : e.seq <= table[n][e.id].seq
      BY <1>3 DEF Construct
    <3>2. Construct(n).sender = n
      BY DEF Construct
    <3> QED BY <2>2, <3>1, <3>2 DEF InTable
  <2> QED BY <1>6, <2>1, <2>2 DEF FramesStep
<1>7. ASSUME rxfcg'[n] PROVE Followed(rxbuf[n])'
  <2>1. CASE rxfcg[n] /\ rxbuf'[n] = rxbuf[n]
    <3>1. PICK f : f = rxbuf[n]
      OBVIOUS
    <3>2. Followed(f)'
      BY <1>2, <2>1, <3>1 DEF EchoInv
    <3> QED BY <2>1, <3>1, <3>2
  <2>2. ASSUME NEW m \in Node, mode[m] = "tx", mode'[m] # "tx", rxbuf'[n] = txbuf[m]
        PROVE  Followed(rxbuf[n])'
    <3>1. PICK f : f = txbuf[m]
      OBVIOUS
    <3>2. InTable(f)' /\ f \in Frame /\ f.sender = m
      BY <1>4, <1>5, <2>2, <3>1
    <3>3. Followed(f)'
      BY <2>2, <3>2 DEF Followed
    <3> QED BY <2>2, <3>1, <3>3
  <2> QED BY <1>7, <2>1, <2>2 DEF FramesStep
<1>8. ASSUME uart'[n].rx # None PROVE Followed(uart[n].rx.frame)'
  <2>1. CASE uart'[n].rx = uart[n].rx
    <3>1. PICK f : f = uart[n].rx.frame
      OBVIOUS
    <3>2. Followed(f)'
      BY <1>2, <1>8, <2>1, <3>1 DEF EchoInv
    <3> QED BY <2>1, <3>1, <3>2
  <2>2. CASE rxfcg[n] /\ uart'[n].rx.frame = rxbuf[n]
    <3>1. PICK f : f = rxbuf[n]
      OBVIOUS
    <3>2. Followed(f)'
      BY <1>2, <2>2, <3>1 DEF EchoInv
    <3> QED BY <2>2, <3>1, <3>2
  <2> QED BY <2>1, <2>2 DEF FramesStep
<1>9. ASSUME uart'[n].rx # None, rxfcg'[n], rxbuf'[n].sender = uart'[n].rx.frame.sender
      PROVE  Covers(uart'[n].rx.frame, rxbuf'[n])
  <2>1. CASE uart'[n].rx # uart[n].rx
    <3>1. rxfcg[n] /\ rxbuf'[n] = rxbuf[n] /\ uart'[n].rx.frame = rxbuf[n]
      BY <2>1 DEF FramesStep
    <3>2. rxbuf[n] \in Frame
      BY <3>1 DEF EchoInv, Followed
    <3>3. \A e \in rxbuf[n].heard : e.seq \in Nat
      BY <3>2 DEF Frame, Echo, Seq
    <3> QED BY <3>1, <3>3 DEF Covers
  <2>2. CASE uart'[n].rx = uart[n].rx /\ rxfcg[n] /\ rxbuf'[n] = rxbuf[n]
    BY <1>9, <2>2 DEF EchoInv
  <2>3. ASSUME NEW m \in Node, uart'[n].rx = uart[n].rx, mode[m] = "tx", rxbuf'[n] = txbuf[m]
        PROVE  Covers(uart'[n].rx.frame, rxbuf'[n])
    <3>1. uart[n].rx.frame.sender = m
      BY <1>5, <1>9, <2>3
    <3> QED BY <1>9, <2>3, <3>1 DEF EchoInv, Followed
  <2> QED BY <1>9, <2>1, <2>2, <2>3 DEF FramesStep
<1> QED BY <1>6, <1>7, <1>8, <1>9

(***************************************************************************)
(* In the frames of one sender that a node reports, no echo is ever        *)
(* replaced by an older one or left out.                                   *)
(***************************************************************************)
THEOREM EchoesGrow == Spec => EchoesOnlyGrow
<1>1. Init => EchoInv
  BY DEF Init, EchoInv
<1>2. /\ StampInv /\ StampInv' /\ SwarmInv /\ EchoInv /\ [Next]_vars => EchoInv'
  BY StepOfFrames, EchoStep
<1>3. Spec => []EchoInv
  BY <1>1, <1>2, StampInvariant, SwarmInvariant, PTL DEF Spec
<1> DEFINE Grow ==
      \A n \in Node :
        LET old == uart[n].rx
            new == uart'[n].rx
        IN  old # None /\ new # old /\ old.frame.sender = new.frame.sender =>
              \A e \in old.frame.heard : \E g \in new.frame.heard :
                 g.id = e.id /\ g.seq >= e.seq
<1>4. StampInv /\ SwarmInv /\ EchoInv /\ [Next]_vars => [Grow]_uart
  <2> SUFFICES ASSUME StampInv, SwarmInv, EchoInv, [Next]_vars,
                      NEW n \in Node, uart[n].rx # None, uart'[n].rx # uart[n].rx,
                      uart[n].rx.frame.sender = uart'[n].rx.frame.sender
               PROVE  Covers(uart[n].rx.frame, uart'[n].rx.frame)
    BY DEF Covers
  <2>1. FramesStep
    BY StepOfFrames
  <2>2. rxfcg[n] /\ uart'[n].rx.frame = rxbuf[n]
    BY <2>1 DEF FramesStep
  <2> QED BY <2>2 DEF EchoInv
<1> QED BY <1>3, <1>4, StampInvariant, SwarmInvariant, PTL DEF Spec, EchoesOnlyGrow
=============================================================================
