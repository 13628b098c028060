----------------------------- MODULE EventsProofs -----------------------------
(***************************************************************************)
(* Proofs about the two programs that wait for events: the interrupt       *)
(* routine of the driver, DwIsr.tla, and the serial loop of the host,      *)
(* HostMain.tla. They share no state; each has a section of its own, with  *)
(* the inductive invariant of its specification.                           *)
(***************************************************************************)
EXTENDS DwIsr, HostMain, WellFoundedInduction, TLAPS

-----------------------------------------------------------------------------
(***************************************************************************)
(* The interrupt routine (DwIsr): whatever occurs while dwt_isr runs, it   *)
(* reads the oldest frame, forgets nothing, and the application concludes  *)
(* from its callbacks what the transceiver does; for any number of frames, *)
(* one receive buffer or two, and an interrupt of either kind.             *)
(***************************************************************************)

(***************************************************************************)
(* The RX callback starts no transmission; with automatic acknowledgements *)
(* events are read before the next one occurs.  Neither is so in general:  *)
(* the status cannot tell whose transmission TXFRS reports.                *)
(***************************************************************************)
Use ==
  /\ DoubleBuffer \in BOOLEAN /\ AutoAck \in BOOLEAN
  /\ ~Answers
  /\ AutoAck => Prompt

Bits == {"TXFRS", "RXTO", "RXERR", "AAT"}
Stages == {"rx", "tx", "to", "err"}

TypeOK ==
  /\ status \in SUBSET Bits
  /\ good \in [Buffer -> BOOLEAN] /\ buffer \in [Buffer -> Nat]
  /\ ic \in Buffer /\ hs \in Buffer
  /\ radio \in {"idle", "rx", "tx", "ack"}
  /\ respond \in BOOLEAN /\ wait4resp \in BOOLEAN
  /\ isr \in [at : {"none", "work", "call"}, todo : SUBSET Stages,
              status : SUBSET (Bits \cup {"RXFCG"})]
  /\ app \in SUBSET {"tx", "rx", "ack"}
  /\ frames \in Nat

\* The buffer the next frame is read from: after cbRxOk, the other one.
RxBuffer == IF DoubleBuffer /\ isr.at = "call" /\ Stage = "rx" THEN 1 - hs ELSE hs

\* At most one frame is left to report, and it is where dwt_isr will look.
BuffersExact ==
  /\ owed = <<>> \/ owed = <<buffer[RxBuffer]>>
  /\ \A b \in Buffer : good[b] = (b = RxBuffer /\ owed # <<>>)
  /\ ic = IF DoubleBuffer /\ owed # <<>> THEN 1 - RxBuffer ELSE RxBuffer

\* A reception has ended and is not reported.
RxPending == owed # <<>> \/ "RXTO" \in status \/ "RXERR" \in status

\* It has ended in one way.
OneEnd ==
  /\ owed # <<>> => "RXTO" \notin status /\ "RXERR" \notin status
  /\ "RXTO" \in status => "RXERR" \notin status
  /\ RxPending => radio \notin {"rx", "tx"}

\* An acknowledgement is sent, or its end is not reported.
AckDue == "ack" \in app \/ (AutoAck /\ owed # <<>> /\ AckReq(buffer[RxBuffer]))

\* The application waits for what the transceiver does, or has not reported.
AppKnows ==
  /\ "tx" \in app <=> radio = "tx" \/ ("TXFRS" \in status /\ ~AckDue)
  /\ "rx" \in app <=> \/ radio = "rx" /\ ~AckDue
                      \/ radio = "tx" /\ respond
                      \/ RxPending
  /\ radio = "tx" => "TXFRS" \notin status
  /\ txDue = IF "TXFRS" \in status /\ ~AckDue THEN 1 ELSE 0
  /\ respond => wait4resp /\ radio # "idle"

\* The stages that are still to be worked on.
Remaining ==
  CASE isr.at = "none" -> {}
    [] isr.at = "work" -> isr.todo
    [] isr.at = "call" -> isr.todo \ {Stage}

\* Each has its event, and a failed reception is dealt with last.
StagesDue ==
  /\ "rx" \in Remaining => owed # <<>>
  /\ \A stage \in Remaining \ {"rx"} : Bit[stage] \in status
  /\ {"to", "err"} \cap Remaining # {} /\ "TXFRS" \in status => "tx" \in Remaining
  /\ isr.at # "none" => isr.todo # {}

\* What AAT stands for.
AckKnown ==
  /\ "ack" \in app =>
       /\ app = {"ack"} /\ AutoAck /\ "AAT" \in status /\ ~RxPending
       /\ IF "TXFRS" \in status THEN radio = "idle" \/ (radio = "rx" /\ wait4resp)
          ELSE radio = "ack"
  /\ radio = "ack" => AutoAck /\ "TXFRS" \notin status /\ AckDue
  /\ "AAT" \in status => AutoAck /\ ("ack" \in app \/ owed # <<>>)
  /\ AutoAck /\ RxPending /\ "TXFRS" \in status => AckDue
  /\ AutoAck /\ owed # <<>> =>
       IF AckReq(buffer[RxBuffer])
         THEN "AAT" \in status /\ radio = (IF "TXFRS" \in status THEN "idle" ELSE "ack")
         ELSE radio = "idle"
  /\ AutoAck /\ RxBuffer # hs /\ respond =>
       owed = <<>> /\ (radio = "rx" => "TXFRS" \in status)
  /\ Remaining # {} =>
       /\ "AAT" \in isr.status <=> "AAT" \in status
       /\ AutoAck /\ owed # <<>> => "rx" \in Remaining

IInv == TypeOK /\ BuffersExact /\ OneEnd /\ AppKnows /\ StagesDue /\ AckKnown
-----------------------------------------------------------------------------
LEMMA StageTyped == TypeOK => Stage \in Stages /\ RxBuffer \in Buffer /\ RxBuffer \in 0 .. 1
BY DEF TypeOK, Stage, Stages, RxBuffer, Buffer

\* A step that neither reads nor leaves a stage, and leaves the buffers to
\* the transceiver.
LEMMA SameStages ==
  ASSUME isr' = isr, hs' = hs
  PROVE  RxBuffer' = RxBuffer /\ Remaining' = Remaining /\ Stage' = Stage
BY DEF RxBuffer, Remaining, Stage

\* Whether a frame asks for an acknowledgement can be told from it.
LEMMA FrameAsks == \A n \in Nat : AckReq(2 * n) /\ ~AckReq((2 * n) + 1)
BY DEF AckReq

\* With the line low, nothing is left to do.
LEMMA LineLow ==
  ASSUME IInv, ~Line, isr.at # "work"
  PROVE  /\ "TXFRS" \notin status /\ "RXTO" \notin status /\ "RXERR" \notin status
         /\ ~good[hs] /\ Remaining = {}
<1>1. /\ "TXFRS" \notin status /\ "RXTO" \notin status /\ "RXERR" \notin status /\ ~good[hs]
  BY DEF Line, Status
<1>2. \A stage \in Remaining \ {"rx"} : Bit[stage] \in status
  BY DEF IInv, StagesDue
<1>3. Remaining \subseteq Stages
  BY DEF IInv, TypeOK, Remaining
<1>4. Remaining \subseteq {"rx"}
  BY <1>1, <1>2, <1>3 DEF Stages, Bit
<1>5. "rx" \notin Remaining
  <2>1. "rx" \in Remaining => isr.at = "call" /\ "rx" \in isr.todo \ {Stage}
    BY DEF Remaining, IInv, TypeOK
  <2> QED BY <2>1 DEF Stage
<1> QED BY <1>1, <1>4, <1>5

\* A frame is received.
LEMMA ReceiveKeeps ==
  ASSUME Use, IInv, NEW ack \in BOOLEAN, NEW spurious \in BOOLEAN, Receive(ack, spurious),
         Prompt => isr.at # "work" /\ ~Line
  PROVE  IInv'
<1> USE DEF IInv
<1> DEFINE frame == IF ack THEN 2 * (frames + 1) ELSE (2 * (frames + 1)) + 1
<1>1. /\ isr' = isr /\ hs' = hs /\ wait4resp' = wait4resp /\ app' = app /\ txDue' = txDue
      /\ radio = "rx" /\ ~RxPending /\ owed = <<>> /\ ic = RxBuffer /\ RxBuffer \in Buffer
      /\ \A b \in Buffer : ~good[b]
  BY StageTyped DEF Receive, OneEnd, BuffersExact, RxPending
<1>2. RxBuffer' = RxBuffer /\ Remaining' = Remaining /\ Stage' = Stage
  BY <1>1, SameStages
<1>3. TypeOK'
  BY DEF Receive, TypeOK, Bits, Buffer
<1>4. /\ frame \in Nat /\ (AckReq(frame) <=> ack)
      /\ owed' = <<frame>> /\ owed' # <<>>
      /\ buffer' = [buffer EXCEPT ![ic] = frame] /\ good' = [good EXCEPT ![ic] = TRUE]
      /\ buffer'[RxBuffer'] = frame
  <2>1. frames + 1 \in Nat /\ frame \in Nat
    BY DEF TypeOK
  <2>2. AckReq(frame) <=> ack
    BY <2>1, FrameAsks
  <2>3. /\ buffer' = [buffer EXCEPT ![ic] = frame] /\ good' = [good EXCEPT ![ic] = TRUE]
        /\ owed' = Append(owed, buffer'[ic])
    BY DEF Receive
  <2>4. buffer'[ic] = frame
    BY <2>3 DEF TypeOK
  <2> QED BY <1>1, <1>2, <2>1, <2>2, <2>3, <2>4
<1> HIDE DEF frame
<1>5. BuffersExact'
  <2>1. owed' = <<buffer'[RxBuffer']>>
    BY <1>4
  <2>2. \A b \in Buffer : good'[b] = (b = RxBuffer' /\ owed' # <<>>)
    BY <1>1, <1>2, <1>4 DEF TypeOK
  <2>3. ic' = IF DoubleBuffer /\ owed' # <<>> THEN 1 - RxBuffer' ELSE RxBuffer'
    BY <1>1, <1>2, <1>4 DEF Receive
  <2> QED BY <2>1, <2>2, <2>3 DEF BuffersExact
<1>6. /\ status' = status \cup (IF ack \/ spurious THEN {"AAT"} ELSE {})
      /\ radio' = (IF ack THEN "ack" ELSE "idle") /\ respond' = (respond /\ ack)
      /\ (ack \/ spurious => AutoAck)
  BY DEF Receive
<1>7. OneEnd'
  BY <1>1, <1>4, <1>6 DEF OneEnd, RxPending
<1>8. Prompt => "TXFRS" \notin status /\ Remaining = {}
  BY LineLow
<1>9. "ack" \notin app
  BY <1>1, <1>8 DEF Use, AckKnown
<1>10. AckDue' = ack
  BY <1>1, <1>2, <1>4, <1>6, <1>9 DEF Use, AckDue
<1>11. AppKnows'
  BY <1>1, <1>4, <1>6, <1>8, <1>9, <1>10 DEF Use, AppKnows, AckDue, RxPending, TypeOK
<1>12. StagesDue'
  BY <1>1, <1>2, <1>4, <1>6 DEF StagesDue, Bit
<1>13. AckKnown'
  BY <1>1, <1>2, <1>4, <1>6, <1>8, <1>9, <1>10 DEF Use, AckKnown, RxPending
<1> QED BY <1>3, <1>5, <1>7, <1>11, <1>12, <1>13

\* A reception fails.
LEMMA ReceiveFailsKeeps ==
  ASSUME Use, IInv, NEW event \in {"RXTO", "RXERR"}, ReceiveFails(event),
         Prompt => isr.at # "work" /\ ~Line
  PROVE  IInv'
<1> USE DEF IInv
<1>1. /\ isr' = isr /\ hs' = hs /\ wait4resp' = wait4resp /\ app' = app /\ txDue' = txDue
      /\ owed' = owed /\ buffer' = buffer /\ good' = good /\ ic' = ic /\ frames' = frames
      /\ radio = "rx" /\ radio' = "idle" /\ respond' = FALSE /\ status' = status \cup {event}
      /\ ~RxPending /\ owed = <<>>
  BY DEF ReceiveFails, OneEnd, RxPending
<1>2. RxBuffer' = RxBuffer /\ Remaining' = Remaining /\ Stage' = Stage
  BY <1>1, SameStages
<1>3. Prompt => "TXFRS" \notin status /\ Remaining = {}
  BY LineLow
<1>4. "ack" \notin app /\ AckDue' = AckDue /\ ~AckDue
  BY <1>1, <1>2, <1>3 DEF Use, AckKnown, AckDue
<1>5. TypeOK'
  BY <1>1 DEF TypeOK, Bits
<1>6. BuffersExact'
  BY <1>1, <1>2 DEF BuffersExact
<1>7. OneEnd'
  BY <1>1 DEF OneEnd, RxPending
<1>8. AppKnows'
  BY <1>1, <1>3, <1>4 DEF AppKnows, RxPending
<1>9. StagesDue'
  BY <1>1, <1>2 DEF StagesDue
<1>10. AckKnown'
  BY <1>1, <1>2, <1>3, <1>4 DEF Use, AckKnown, RxPending
<1> QED BY <1>5, <1>6, <1>7, <1>8, <1>9, <1>10

\* A transmission ends.
LEMMA TransmittedKeeps ==
  ASSUME Use, IInv, Transmitted, Prompt => isr.at # "work" /\ ~Line
  PROVE  IInv'
<1> USE DEF IInv
<1>1. /\ isr' = isr /\ hs' = hs /\ wait4resp' = wait4resp /\ app' = app
      /\ owed' = owed /\ buffer' = buffer /\ good' = good /\ ic' = ic /\ frames' = frames
      /\ radio \in {"tx", "ack"} /\ radio' = (IF respond THEN "rx" ELSE "idle")
      /\ respond' = (respond /\ radio = "tx") /\ status' = status \cup {"TXFRS"}
      /\ txDue' = txDue + (IF radio = "tx" THEN 1 ELSE 0)
  BY DEF Transmitted
<1>2. RxBuffer' = RxBuffer /\ Remaining' = Remaining /\ Stage' = Stage
  BY <1>1, SameStages
<1>3. "TXFRS" \notin status
  BY <1>1 DEF AppKnows, AckKnown
<1>4. AckDue' = AckDue /\ (AckDue <=> radio = "ack")
  BY <1>1, <1>2, <1>3 DEF AckKnown, AckDue
<1>5. TypeOK'
  BY <1>1 DEF TypeOK, Bits
<1>6. BuffersExact'
  BY <1>1, <1>2 DEF BuffersExact
<1>7. RxPending => radio = "ack" /\ ~respond /\ owed # <<>>
  <2>1. RxPending => radio = "ack" /\ owed # <<>> /\ AutoAck
    BY <1>1, <1>4 DEF OneEnd, AckKnown, AckDue, RxPending
  <2>2. AutoAck /\ owed # <<>> => RxBuffer # hs
    BY LineLow, StageTyped DEF Use, BuffersExact
  <2> QED BY <2>1, <2>2 DEF AckKnown, TypeOK
<1>8. OneEnd'
  BY <1>1, <1>7 DEF OneEnd, RxPending
<1>9. AppKnows'
  <2>1. /\ "tx" \in app <=> radio = "tx"
        /\ "rx" \in app <=> (radio = "tx" /\ respond) \/ RxPending
        /\ txDue = 0 /\ (respond => wait4resp)
        /\ respond \in BOOLEAN /\ wait4resp \in BOOLEAN
        /\ radio = "tx" => ~RxPending
        /\ RxPending' <=> RxPending
    BY <1>1, <1>3 DEF AppKnows, RxPending, OneEnd, TypeOK
  <2>2. radio = "ack" => AckDue' /\ radio' # "tx"
    BY <1>1, <1>4
  <2>3. radio = "tx" => ~AckDue' /\ radio' # "tx" /\ "TXFRS" \in status'
    BY <1>1, <1>4
  <2>4. "tx" \in app' <=> radio' = "tx" \/ ("TXFRS" \in status' /\ ~AckDue')
    BY <1>1, <2>1, <2>2, <2>3
  <2>5. "rx" \in app' <=> \/ radio' = "rx" /\ ~AckDue'
                          \/ radio' = "tx" /\ respond'
                          \/ RxPending'
    BY <1>1, <2>1, <2>2, <2>3
  <2>6. txDue' = IF "TXFRS" \in status' /\ ~AckDue' THEN 1 ELSE 0
    BY <1>1, <2>1, <2>2, <2>3
  <2>7. /\ radio' # "tx"
        /\ respond' => wait4resp' /\ radio' # "idle"
    BY <1>1, <2>1
  <2> QED BY <2>4, <2>5, <2>6, <2>7 DEF AppKnows
<1>10. StagesDue'
  <2>1. {"to", "err"} \cap Remaining = {}
    BY <1>7 DEF StagesDue, RxPending, OneEnd, Bit
  <2> QED BY <1>1, <1>2, <2>1 DEF StagesDue
<1>11. AckKnown'
  <2>1. /\ RxPending' <=> RxPending
        /\ AutoAck => Remaining = {}
        /\ respond => wait4resp
    BY <1>1, LineLow DEF RxPending, AppKnows, Use
  <2>2. "ack" \in app' =>
          /\ app' = {"ack"} /\ AutoAck /\ "AAT" \in status' /\ ~RxPending'
          /\ IF "TXFRS" \in status' THEN radio' = "idle" \/ (radio' = "rx" /\ wait4resp')
             ELSE radio' = "ack"
    BY <1>1, <2>1 DEF AckKnown
  <2>3. /\ radio' = "ack" => AutoAck /\ "TXFRS" \notin status' /\ AckDue'
        /\ "AAT" \in status' => AutoAck /\ ("ack" \in app' \/ owed' # <<>>)
        /\ AutoAck /\ RxPending' /\ "TXFRS" \in status' => AckDue'
    BY <1>1, <1>4, <1>7, <2>1 DEF AckKnown
  <2>4. AutoAck /\ owed' # <<>> =>
          IF AckReq(buffer'[RxBuffer'])
            THEN "AAT" \in status' /\ radio' = (IF "TXFRS" \in status' THEN "idle" ELSE "ack")
            ELSE radio' = "idle"
    BY <1>1, <1>2, <1>3, <1>7 DEF AckKnown, RxPending
  <2>5. AutoAck /\ RxBuffer' # hs' /\ respond' =>
          owed' = <<>> /\ (radio' = "rx" => "TXFRS" \in status')
    BY <1>1, <1>2 DEF AckKnown
  <2> QED BY <1>1, <1>2, <2>1, <2>2, <2>3, <2>4, <2>5 DEF AckKnown
<1> QED BY <1>5, <1>6, <1>8, <1>9, <1>10, <1>11

\* Whatever has been received is given up: the transceiver is turned off, or
\* turned on again.
LEMMA OffKeeps ==
  ASSUME IInv, TypeOK',
         status' = {}, good' = [good EXCEPT ![hs] = FALSE], hs' = ic, ic' = ic, owed' = <<>>,
         respond' = FALSE, radio' \in {"idle", "rx"},
         app' = IF radio' = "rx" THEN {"rx"} ELSE {}, txDue' = 0,
         RxBuffer = hs, RxBuffer' = hs', Remaining' = {}, isr'.at # "none" => isr'.todo # {}
  PROVE  IInv'
<1>1. BuffersExact'
  <2>1. \A b \in Buffer : good'[b] = FALSE
    BY DEF IInv, TypeOK, BuffersExact
  <2> QED BY <2>1 DEF BuffersExact
<1>2. ~RxPending' /\ ~AckDue'
  BY DEF RxPending, AckDue
<1>3. OneEnd' /\ AppKnows'
  BY <1>2 DEF OneEnd, AppKnows
<1>4. StagesDue' /\ AckKnown'
  BY <1>2 DEF StagesDue, AckKnown
<1> QED BY <1>1, <1>3, <1>4 DEF IInv

\* The application gives up what it waits for.
LEMMA CancelKeeps ==
  ASSUME IInv, Cancel
  PROVE  IInv'
<1>1. RxBuffer = hs /\ RxBuffer' = hs' /\ Remaining' = {}
  BY DEF Cancel, RxBuffer, Remaining
<1>2. TypeOK'
  BY DEF IInv, TypeOK, Cancel, ForceTrxOff, SyncRxBufPtrs
<1> QED BY <1>1, <1>2, OffKeeps DEF Cancel, ForceTrxOff, SyncRxBufPtrs

\* What the application takes to be idle is idle.
LEMMA IdleWhenExpected ==
  ASSUME IInv, Expected = "idle"
  PROVE  /\ app = {} /\ radio = "idle" /\ ~respond /\ owed = <<>> /\ txDue = 0
         /\ ~RxPending /\ ~AckDue /\ Remaining = {}
         /\ "TXFRS" \notin status /\ "AAT" \notin status
<1>1. app = {}
  BY DEF IInv, TypeOK, Expected
<1>2. ~RxPending /\ owed = <<>> /\ ~AckDue
  BY <1>1 DEF IInv, AppKnows, RxPending, AckDue
<1>3. "TXFRS" \notin status /\ "AAT" \notin status /\ radio = "idle"
  BY <1>1, <1>2 DEF IInv, TypeOK, AppKnows, AckKnown
<1>4. ~respond /\ txDue = 0
  BY <1>3 DEF IInv, AppKnows
<1>5. Remaining = {}
  <2>1. Remaining \subseteq Stages
    BY DEF IInv, TypeOK, Remaining
  <2> QED BY <1>2, <1>3, <2>1 DEF IInv, StagesDue, RxPending, Bit, Stages
<1> QED BY <1>1, <1>2, <1>3, <1>4, <1>5

\* The application only starts what is not started.
LEMMA FreeIsIdle ==
  ASSUME Use, Free
  PROVE  isr.at \in {"none", "call"} /\ Expected = "idle"
BY DEF Use, Free

\* The receiver is enabled too late.
LEMMA RxEnableLateKeeps ==
  ASSUME Use, IInv, NEW idle \in BOOLEAN, RxEnableLate(idle)
  PROVE  IInv'
<1>1. txDue = 0
  BY FreeIsIdle, IdleWhenExpected DEF RxEnableLate
<1>2. RxBuffer = hs /\ RxBuffer' = hs' /\ Remaining' = {}
  BY DEF RxEnableLate, RxBuffer, Remaining
<1>3. TypeOK'
  BY DEF IInv, TypeOK, RxEnableLate, SyncRxBufPtrs
<1> QED BY <1>1, <1>2, <1>3, OffKeeps DEF RxEnableLate, SyncRxBufPtrs

\* The receiver is enabled: the pointers are aligned, or need not be.
LEMMA RxEnableKeeps ==
  ASSUME Use, IInv, RxEnable(DoubleBuffer /\ isr.at = "call")
  PROVE  IInv'
<1> USE DEF IInv
<1>1. /\ app = {} /\ radio = "idle" /\ ~respond /\ owed = <<>> /\ txDue = 0
      /\ ~RxPending /\ ~AckDue /\ Remaining = {}
      /\ "TXFRS" \notin status /\ "AAT" \notin status
  BY FreeIsIdle, IdleWhenExpected DEF RxEnable
<1>2. isr.at \in {"none", "call"}
  BY FreeIsIdle DEF RxEnable
<1>3. hs' = hs
  BY <1>1, <1>2 DEF RxEnable, SyncRxBufPtrs, BuffersExact, RxBuffer
<1>4. /\ isr' = isr /\ wait4resp' = wait4resp /\ txDue' = txDue /\ respond' = respond
      /\ owed' = owed /\ buffer' = buffer /\ good' = good /\ ic' = ic /\ frames' = frames
      /\ status' = status /\ radio' = "rx" /\ app' = {"rx"}
  BY DEF RxEnable
<1>5. RxBuffer' = RxBuffer /\ Remaining' = Remaining /\ Stage' = Stage
  BY <1>3, <1>4, SameStages
<1>6. ~RxPending' /\ ~AckDue'
  BY <1>1, <1>4 DEF RxPending, AckDue
<1>7. TypeOK'
  BY <1>3, <1>4 DEF TypeOK
<1>8. BuffersExact'
  BY <1>4, <1>5 DEF BuffersExact
<1>9. OneEnd' /\ AppKnows'
  BY <1>1, <1>4, <1>6 DEF OneEnd, AppKnows, RxPending
<1>10. StagesDue' /\ AckKnown'
  BY <1>1, <1>3, <1>4, <1>5, <1>6 DEF StagesDue, AckKnown
<1> QED BY <1>7, <1>8, <1>9, <1>10

\* A transmission is started, or too late.
LEMMA StartTxKeeps ==
  ASSUME Use, IInv, NEW response \in BOOLEAN, NEW late \in BOOLEAN, StartTx(response, late)
  PROVE  IInv'
<1> USE DEF IInv
<1>1. /\ app = {} /\ radio = "idle" /\ ~respond /\ owed = <<>> /\ txDue = 0
      /\ ~RxPending /\ ~AckDue /\ Remaining = {}
      /\ "TXFRS" \notin status /\ "AAT" \notin status
  BY FreeIsIdle, IdleWhenExpected DEF StartTx
<1>2. /\ isr' = isr /\ hs' = hs /\ txDue' = txDue
      /\ owed' = owed /\ buffer' = buffer /\ good' = good /\ ic' = ic /\ frames' = frames
      /\ status' = status
      /\ radio' = (IF late THEN "idle" ELSE "tx") /\ respond' = (response /\ ~late)
      /\ wait4resp' = (wait4resp \/ response)
      /\ app' = (IF late THEN {} ELSE {"tx"} \cup (IF response THEN {"rx"} ELSE {}))
  BY DEF StartTx
<1>3. RxBuffer' = RxBuffer /\ Remaining' = Remaining /\ Stage' = Stage
  BY <1>2, SameStages
<1>4. ~RxPending' /\ ~AckDue'
  BY <1>1, <1>2 DEF RxPending, AckDue
<1>5. TypeOK'
  BY <1>2 DEF TypeOK
<1>6. BuffersExact'
  BY <1>2, <1>3 DEF BuffersExact
<1>7. OneEnd' /\ AppKnows'
  BY <1>1, <1>2, <1>4 DEF OneEnd, AppKnows, RxPending
<1>8. StagesDue' /\ AckKnown'
  BY <1>1, <1>2, <1>3, <1>4 DEF StagesDue, AckKnown
<1> QED BY <1>5, <1>6, <1>7, <1>8


\* The routine works on the stages left, and the first of them is one.
LEMMA StageLeft ==
  ASSUME IInv, isr.at # "none"
  PROVE  /\ Stage \in isr.todo /\ isr.todo \subseteq Stages
         /\ Stage = "rx" <=> "rx" \in isr.todo
         /\ Stage = "to" => "tx" \notin isr.todo
         /\ Stage = "err" => "tx" \notin isr.todo /\ "to" \notin isr.todo
         /\ isr.at \in {"work", "call"}
BY DEF IInv, TypeOK, StagesDue, Stage, Stages

\* dwt_isr is entered.
LEMMA EnterKeeps ==
  ASSUME Use, IInv, Enter
  PROVE  IInv'
<1> USE DEF IInv
<1>1. /\ isr.at = "none" /\ hs' = hs /\ wait4resp' = wait4resp /\ app' = app
      /\ txDue' = txDue /\ owed' = owed /\ buffer' = buffer /\ good' = good /\ ic' = ic
      /\ frames' = frames /\ status' = status /\ radio' = radio /\ respond' = respond
      /\ isr' = IF Todo = {} THEN Idle
                ELSE [at |-> "work", todo |-> Todo, status |-> Status]
  BY DEF Enter, chipvars
<1>2. RxBuffer = hs /\ RxBuffer' = hs
  BY <1>1 DEF RxBuffer, Idle
<1>3. Remaining' = Todo /\ (isr'.at # "none" => isr'.todo = Todo /\ Todo # {})
  BY <1>1 DEF Remaining, Idle
<1>4. Todo \subseteq Stages /\ \A stage \in Stages : stage \in Todo <=> Bit[stage] \in Status
  BY DEF Todo, Bit, Stages
<1>5. /\ "rx" \in Todo <=> owed # <<>>
      /\ "tx" \in Todo <=> "TXFRS" \in status
      /\ \A stage \in Todo \ {"rx"} : Bit[stage] \in status
  <2>1. "RXFCG" \in Status <=> good[hs]
    BY DEF Status, TypeOK, Bits
  <2>2. good[hs] <=> owed # <<>>
    BY <1>2 DEF BuffersExact, TypeOK
  <2>3. \A bit \in Bits : bit \in Status <=> bit \in status
    BY DEF Status, Bits
  <2> QED BY <1>4, <2>1, <2>2, <2>3 DEF Bit, Stages, Bits
<1>6. TypeOK'
  <2>1. Status \subseteq Bits \cup {"RXFCG"}
    BY DEF Status, TypeOK
  <2> QED BY <1>1, <1>4, <2>1 DEF TypeOK, Idle
<1>7. BuffersExact'
  BY <1>1, <1>2 DEF BuffersExact
<1>8. (RxPending' <=> RxPending) /\ (AckDue' <=> AckDue)
  BY <1>1, <1>2 DEF RxPending, AckDue
<1>9. OneEnd' /\ AppKnows'
  BY <1>1, <1>8 DEF OneEnd, AppKnows
<1>10. StagesDue'
  BY <1>1, <1>3, <1>5 DEF StagesDue
<1>11. AckKnown'
  <2>1. Remaining' # {} => /\ "AAT" \in isr'.status <=> "AAT" \in status
                           /\ owed # <<>> => "rx" \in Remaining'
    BY <1>1, <1>3, <1>5 DEF Status
  <2> QED BY <1>1, <1>2, <1>8, <2>1 DEF AckKnown
<1> QED BY <1>6, <1>7, <1>9, <1>10, <1>11

\* A frame is reported.
LEMMA RxGoodKeeps ==
  ASSUME Use, IInv, RxGood
  PROVE  IInv'
<1> USE DEF IInv
<1> DEFINE asks  == AckReq(buffer[hs])
           stray == "AAT" \in isr.status /\ ~asks
<1>1. /\ isr.at = "work" /\ Stage = "rx" /\ isr' = [isr EXCEPT !.at = "call"]
      /\ hs' = hs /\ txDue' = txDue /\ buffer' = buffer /\ ic' = ic /\ frames' = frames
      /\ radio' = radio /\ respond' = respond
      /\ good' = [good EXCEPT ![hs] = FALSE]
      /\ status' = (IF stray THEN status \ {"AAT"} ELSE status)
      /\ wait4resp' = (wait4resp /\ ~stray)
      /\ app' = (app \ {"rx"}) \cup (IF "AAT" \in isr.status /\ asks THEN {"ack"} ELSE {})
      /\ owed' = IF owed = <<>> THEN <<>> ELSE Tail(owed)
  BY DEF RxGood, AtWork
<1>2. /\ RxBuffer = hs /\ RxBuffer' = (IF DoubleBuffer THEN 1 - hs ELSE hs)
      /\ Remaining = isr.todo /\ Remaining' = isr.todo \ {"rx"} /\ "rx" \in isr.todo
      /\ isr'.todo = isr.todo /\ isr'.status = isr.status
  BY <1>1, StageLeft DEF RxBuffer, Remaining, Stage, TypeOK
<1>3. owed = <<buffer[hs]>> /\ owed' = <<>>
  <2>1. owed = <<buffer[hs]>>
    BY <1>2 DEF StagesDue, BuffersExact
  <2> QED BY <1>1, <2>1
<1>4. /\ RxPending /\ "RXTO" \notin status /\ "RXERR" \notin status
      /\ radio \in {"idle", "ack"} /\ "rx" \in app /\ "ack" \notin app
  BY <1>3 DEF RxPending, OneEnd, AppKnows, AckKnown, TypeOK
<1>5. /\ "AAT" \in isr.status <=> "AAT" \in status
      /\ AckDue <=> AutoAck /\ asks
      /\ "AAT" \in status => AutoAck
      /\ AutoAck /\ asks => "AAT" \in status
  BY <1>2, <1>3, <1>4 DEF AckKnown, AckDue
<1>6. /\ ~RxPending'
      /\ "ack" \in app' <=> AutoAck /\ asks
      /\ AckDue' <=> AckDue
  <2>1. ~RxPending'
    BY <1>1, <1>3, <1>4 DEF RxPending
  <2>2. "ack" \in app' <=> AutoAck /\ asks
    BY <1>1, <1>4, <1>5
  <2> QED BY <1>3, <1>5, <2>1, <2>2 DEF AckDue
<1>7. TypeOK'
  BY <1>1, <1>3 DEF TypeOK
<1>8. BuffersExact'
  <2>1. \A b \in Buffer : good'[b] = FALSE
    BY <1>1, <1>2 DEF TypeOK, BuffersExact
  <2>2. ic' = RxBuffer'
    BY <1>1, <1>2, <1>3 DEF BuffersExact
  <2> QED BY <1>3, <2>1, <2>2 DEF BuffersExact
<1>9. OneEnd'
  BY <1>1, <1>3, <1>4, <1>6 DEF OneEnd
<1>10. \A bit \in {"TXFRS", "RXTO", "RXERR"} : bit \in status' <=> bit \in status
  BY <1>1
<1>11. AppKnows'
  <2>1. /\ "tx" \in app' <=> "tx" \in app
        /\ "rx" \notin app'
    BY <1>1
  <2>2. respond => radio = "ack" /\ wait4resp'
    BY <1>1, <1>4, <1>5 DEF AppKnows, AckKnown, TypeOK
  <2> QED BY <1>1, <1>4, <1>6, <1>10, <2>1, <2>2 DEF AppKnows
<1>12. StagesDue'
  BY <1>1, <1>2, <1>10 DEF StagesDue, Bit, TypeOK, Stages
<1>13. AckKnown'
  <2>1. "ack" \in app' =>
          /\ app' = {"ack"} /\ AutoAck /\ "AAT" \in status' /\ ~RxPending'
          /\ IF "TXFRS" \in status' THEN radio' = "idle" \/ (radio' = "rx" /\ wait4resp')
             ELSE radio' = "ack"
    <3> SUFFICES ASSUME AutoAck, asks
                 PROVE  /\ app' = {"ack"} /\ "AAT" \in status'
                        /\ radio' = (IF "TXFRS" \in status' THEN "idle" ELSE "ack")
      BY <1>6
    <3>1. "tx" \notin app
      BY <1>4, <1>5 DEF AppKnows
    <3>2. app' = {"ack"}
      BY <1>1, <1>5, <3>1 DEF TypeOK
    <3> QED BY <1>1, <1>2, <1>3, <1>5, <3>2 DEF AckKnown
  <2>2. /\ radio' = "ack" => AutoAck /\ "TXFRS" \notin status' /\ AckDue'
        /\ "AAT" \in status' => AutoAck /\ ("ack" \in app' \/ owed' # <<>>)
    BY <1>1, <1>5, <1>6, <1>10 DEF AckKnown
  <2>3. radio' # "rx"
    BY <1>1, <1>4
  <2>4. Remaining' # {} => ("AAT" \in isr'.status <=> "AAT" \in status')
    <3>1. Remaining' # {} => "TXFRS" \in status
      BY <1>2, <1>4 DEF StagesDue, Bit, TypeOK, Stages
    <3>2. AutoAck /\ "TXFRS" \in status => asks
      BY <1>4, <1>5 DEF AckKnown
    <3> QED BY <1>1, <1>2, <1>5, <3>1, <3>2
  <2> QED BY <1>3, <1>6, <2>1, <2>2, <2>3, <2>4 DEF AckKnown
<1> QED BY <1>7, <1>8, <1>9, <1>11, <1>12, <1>13


\* A transmission is reported: the receiver its acknowledgement may have
\* turned on is turned off.
LEMMA TxSentKeeps ==
  ASSUME Use, IInv, TxSent
  PROVE  IInv'
<1> USE DEF IInv
<1>1. /\ isr.at = "work" /\ Stage = "tx" /\ isr' = [isr EXCEPT !.at = "call"]
      /\ app' = app \ {"tx", "ack"}
      /\ txDue' = IF "tx" \in app /\ txDue > 0 THEN txDue - 1 ELSE txDue
  BY DEF TxSent, TxReported, AtWork
<1>2. /\ RxBuffer = hs /\ RxBuffer' = hs'
      /\ Remaining = isr.todo /\ Remaining' = isr.todo \ {"tx"}
      /\ "tx" \in isr.todo /\ "rx" \notin isr.todo /\ isr'.todo = isr.todo
      /\ isr'.status = isr.status
  BY <1>1, StageLeft DEF RxBuffer, Remaining, Stage, TypeOK
<1>3. /\ "TXFRS" \in status /\ radio # "tx" /\ (AutoAck => owed = <<>>)
      /\ "AAT" \in isr.status <=> "AAT" \in status
      /\ "tx" \in app <=> ~AckDue
      /\ txDue = (IF AckDue THEN 0 ELSE 1) /\ txDue' = 0
  <2>1. "TXFRS" \in status /\ radio # "tx"
    BY <1>2 DEF StagesDue, Bit, AppKnows
  <2>2. ("tx" \in app <=> ~AckDue) /\ txDue = (IF AckDue THEN 0 ELSE 1)
    BY <2>1 DEF AppKnows
  <2>3. txDue' = 0
    BY <1>1, <2>2
  <2>4. (AutoAck => owed = <<>>) /\ ("AAT" \in isr.status <=> "AAT" \in status)
    BY <1>2 DEF AckKnown, Use
  <2> QED BY <2>1, <2>2, <2>3, <2>4
<1>4. /\ "AAT" \in status => "ack" \in app
      /\ "ack" \in app => app = {"ack"} /\ ~RxPending /\ "AAT" \in status
                         /\ (~wait4resp => radio = "idle")
      /\ AckDue => "ack" \in app
      /\ radio # "ack"
  BY <1>3 DEF AckKnown, AckDue
<1>5. "AAT" \in status => Remaining' = {}
  BY <1>2, <1>4 DEF StagesDue, Bit, Stages, TypeOK, RxPending
<1>6. CASE "AAT" \in isr.status /\ wait4resp
  <2>1. ForceTrxOff
    BY <1>6 DEF TxSent
  <2>2. app' = {} /\ Remaining' = {} /\ isr'.todo # {}
    BY <1>1, <1>2, <1>3, <1>4, <1>5, <1>6
  <2>3. TypeOK'
    BY <1>1, <2>1, <2>2 DEF TypeOK, ForceTrxOff, SyncRxBufPtrs
  <2> QED BY <1>2, <1>3, <2>1, <2>2, <2>3, OffKeeps DEF ForceTrxOff, SyncRxBufPtrs
<1>7. CASE ~("AAT" \in isr.status /\ wait4resp)
  <2>1. /\ status' = status \ {"TXFRS", "AAT"}
        /\ hs' = hs /\ wait4resp' = wait4resp /\ owed' = owed /\ buffer' = buffer
        /\ good' = good /\ ic' = ic /\ frames' = frames /\ radio' = radio
        /\ respond' = respond
    BY <1>7 DEF TxSent
  <2>2. ~AckDue' /\ (RxPending' <=> RxPending)
    BY <1>1, <1>2, <1>3, <2>1 DEF AckDue, RxPending
  <2>3. TypeOK'
    BY <1>1, <2>1 DEF TypeOK
  <2>4. BuffersExact'
    BY <1>2, <2>1 DEF BuffersExact
  <2>5. OneEnd'
    BY <2>1, <2>2 DEF OneEnd
  <2>6. AppKnows'
    <3>1. "rx" \in app <=> radio = "rx" \/ RxPending
      <4>1. CASE AckDue
        BY <1>3, <1>4, <1>7, <4>1
      <4>2. CASE ~AckDue
        BY <1>3, <4>2 DEF AppKnows
      <4> QED BY <4>1, <4>2
    <3>2. respond => wait4resp /\ radio # "idle"
      BY DEF AppKnows
    <3> QED BY <1>1, <1>3, <2>1, <2>2, <3>1, <3>2 DEF AppKnows
  <2>7. StagesDue'
    BY <1>2, <2>1 DEF StagesDue, Bit, Stages, TypeOK
  <2>8. AckKnown'
    <3>1. "ack" \notin app' /\ radio' # "ack" /\ "AAT" \notin status' /\ "TXFRS" \notin status'
      BY <1>1, <1>4, <2>1
    <3>2. (AutoAck => owed' = <<>>) /\ RxBuffer' = hs'
      BY <1>2, <1>3, <2>1
    <3>3. Remaining' # {} => "AAT" \notin isr'.status
      BY <1>2, <1>3, <1>5
    <3> QED BY <3>1, <3>2, <3>3 DEF AckKnown
  <2> QED BY <2>3, <2>4, <2>5, <2>6, <2>7, <2>8
<1> QED BY <1>6, <1>7

\* A failed reception is reported.
LEMMA RxFailedKeeps ==
  ASSUME IInv, NEW stage \in {"to", "err"}, RxFailed(stage)
  PROVE  IInv'
<1> USE DEF IInv
<1>1. /\ isr.at = "work" /\ Stage = stage /\ isr' = [isr EXCEPT !.at = "call"]
      /\ ForceTrxOff /\ app' = app \ {"rx"} /\ txDue' = txDue
  BY DEF RxFailed, AtWork
<1>2. /\ RxBuffer = hs /\ RxBuffer' = hs'
      /\ Remaining = isr.todo /\ Remaining' = isr.todo \ {stage}
      /\ stage \in isr.todo /\ "rx" \notin isr.todo /\ "tx" \notin isr.todo
      /\ isr'.todo = isr.todo
  BY <1>1, StageLeft DEF RxBuffer, Remaining, Stage, TypeOK
<1>3. Bit[stage] \in status /\ RxPending /\ "TXFRS" \notin status
  BY <1>2 DEF StagesDue, Bit, RxPending
<1>4. app' = {} /\ txDue' = 0
  BY <1>1, <1>3 DEF AppKnows, AckKnown, OneEnd, TypeOK
<1>5. Remaining' = {}
  BY <1>1, <1>2, <1>3, StageLeft DEF StagesDue, OneEnd, Bit, Stages
<1>6. TypeOK'
  BY <1>1 DEF TypeOK, ForceTrxOff, SyncRxBufPtrs
<1> QED BY <1>1, <1>2, <1>4, <1>5, <1>6, OffKeeps DEF ForceTrxOff, SyncRxBufPtrs

\* A callback returns.
LEMMA LeaveKeeps ==
  ASSUME IInv, Leave
  PROVE  IInv'
<1> USE DEF IInv
<1>1. /\ isr.at = "call" /\ wait4resp' = wait4resp /\ app' = app
      /\ txDue' = txDue /\ owed' = owed /\ buffer' = buffer /\ good' = good /\ ic' = ic
      /\ frames' = frames /\ status' = status /\ radio' = radio /\ respond' = respond
      /\ isr' = IF isr.todo = {Stage} THEN Idle
                ELSE [isr EXCEPT !.at = "work", !.todo = @ \ {Stage}]
      /\ hs' = IF DoubleBuffer /\ Stage = "rx" THEN 1 - hs ELSE hs
  BY DEF Leave
<1>2. RxBuffer' = RxBuffer /\ RxBuffer' = hs'
  BY <1>1 DEF RxBuffer, Idle, TypeOK
<1>3. /\ Remaining' = Remaining
      /\ isr'.at # "none" => isr'.todo # {}
      /\ Remaining' # {} => isr'.status = isr.status
  BY <1>1, StageLeft DEF Remaining, Idle, TypeOK
<1>4. (RxPending' <=> RxPending) /\ (AckDue' <=> AckDue)
  BY <1>1, <1>2 DEF RxPending, AckDue
<1>5. TypeOK'
  <2>1. hs' \in Buffer
    BY <1>1 DEF TypeOK, Buffer
  <2>2. isr' \in [at : {"none", "work", "call"}, todo : SUBSET Stages,
                 status : SUBSET (Bits \cup {"RXFCG"})]
    BY <1>1 DEF TypeOK, Idle
  <2> QED BY <1>1, <2>1, <2>2 DEF TypeOK
<1>6. BuffersExact'
  BY <1>1, <1>2 DEF BuffersExact
<1>7. OneEnd' /\ AppKnows'
  BY <1>1, <1>4 DEF OneEnd, AppKnows
<1>8. StagesDue'
  BY <1>1, <1>3 DEF StagesDue
<1>9. AckKnown'
  BY <1>1, <1>2, <1>3, <1>4 DEF AckKnown
<1> QED BY <1>5, <1>6, <1>7, <1>8, <1>9
-----------------------------------------------------------------------------
LEMMA InitHolds == Init => IInv
<1> SUFFICES ASSUME Init
             PROVE  IInv
  OBVIOUS
<1>1. TypeOK
  <2>1. isr \in [at : {"none", "work", "call"}, todo : SUBSET Stages,
                status : SUBSET (Bits \cup {"RXFCG"})]
    BY DEF Init, Idle
  <2>2. /\ good \in [Buffer -> BOOLEAN] /\ buffer \in [Buffer -> Nat]
        /\ ic \in Buffer /\ hs \in Buffer /\ frames \in Nat
    BY DEF Init, Buffer
  <2> QED BY <2>1, <2>2 DEF Init, TypeOK
<1>2. RxBuffer = 0 /\ Remaining = {} /\ ~RxPending /\ ~AckDue
  BY DEF Init, Idle, RxBuffer, Remaining, RxPending, AckDue
<1>3. BuffersExact
  BY <1>2 DEF Init, BuffersExact
<1>4. OneEnd /\ AppKnows
  BY <1>2 DEF Init, OneEnd, AppKnows
<1>5. StagesDue /\ AckKnown
  BY <1>2 DEF Init, Idle, StagesDue, AckKnown
<1> QED BY <1>1, <1>3, <1>4, <1>5 DEF IInv

\* Every step of the transceiver, the routine and the application.
LEMMA NextKeeps ==
  ASSUME Use, IInv, [Next]_vars
  PROVE  IInv'
<1>1. CASE Isr
  BY <1>1, EnterKeeps, RxGoodKeeps, TxSentKeeps, RxFailedKeeps, LeaveKeeps DEF Isr
<1>2. CASE Chip
  BY <1>2, ReceiveKeeps, ReceiveFailsKeeps, TransmittedKeeps DEF Chip
<1>3. CASE Calls
  BY <1>3, RxEnableKeeps, RxEnableLateKeeps, StartTxKeeps, CancelKeeps DEF Calls
<1>4. CASE UNCHANGED vars
  BY <1>4 DEF vars, IInv, TypeOK, BuffersExact, OneEnd, AppKnows,
     StagesDue, AckKnown, RxBuffer, Remaining, RxPending, AckDue, Stage
<1> QED BY <1>1, <1>2, <1>3, <1>4 DEF Next

LEMMA ReadsOldest == IInv => OldestFirst
<1> SUFFICES ASSUME IInv, isr.at = "work", Stage = "rx"
             PROVE  owed # <<>> /\ buffer[hs] = Head(owed)
  BY DEF OldestFirst
<1>1. "rx" \in Remaining /\ RxBuffer = hs
  BY StageLeft DEF Remaining, RxBuffer
<1> QED BY <1>1 DEF IInv, StagesDue, BuffersExact

LEMMA ForgetsNothing == IInv => NothingForgotten
<1> SUFFICES ASSUME IInv, isr.at = "none"
             PROVE  (owed # <<>> => good[hs]) /\ (txDue > 0 => "TXFRS" \in status)
  BY DEF NothingForgotten
<1>1. RxBuffer = hs
  BY DEF RxBuffer
<1> QED BY <1>1 DEF IInv, TypeOK, BuffersExact, AppKnows

LEMMA TellsTheState == IInv => AsTold
<1> SUFFICES ASSUME IInv
             PROVE  AsTold
  OBVIOUS
<1>1. Expected = "idle" => radio = "idle"
  BY IdleWhenExpected
<1>2. ASSUME isr.at = "none", ~Line
      PROVE  radio = Expected
  <2>1. /\ "TXFRS" \notin status /\ "RXTO" \notin status /\ "RXERR" \notin status
        /\ ~good[hs] /\ RxBuffer = hs
    BY <1>2, LineLow DEF RxBuffer
  <2>2. owed = <<>> /\ ~RxPending /\ (AckDue <=> "ack" \in app)
    BY <2>1 DEF IInv, TypeOK, BuffersExact, RxPending, AckDue
  <2>3. /\ "tx" \in app <=> radio = "tx"
        /\ "rx" \in app <=> (radio = "rx" /\ ~AckDue) \/ (radio = "tx" /\ respond)
        /\ "ack" \in app => app = {"ack"} /\ radio = "ack"
        /\ radio = "ack" => AckDue
    BY <2>1, <2>2 DEF IInv, AppKnows, AckKnown
  <2> QED BY <2>2, <2>3 DEF IInv, TypeOK, Expected
<1> QED BY <1>1, <1>2 DEF AsTold
-----------------------------------------------------------------------------
\* The invariant holds throughout.
THEOREM StateKnown == ASSUME Use PROVE Spec => []IInv
<1>1. Init => IInv
  BY InitHolds
<1>2. IInv /\ [Next]_vars => IInv'
  BY NextKeeps
<1> QED BY <1>1, <1>2, PTL DEF Spec

\* Whatever is received, enabled or given up while dwt_isr runs, the frame
\* it reads is the oldest that is not reported.
THEOREM OldestFrameFirst == ASSUME Use PROVE Spec => []OldestFirst
BY StateKnown, ReadsOldest, PTL

\* dwt_isr leaves no frame and no transmission behind that the status does
\* not show.
THEOREM NothingLost == ASSUME Use PROVE Spec => []NothingForgotten
BY StateKnown, ForgetsNothing, PTL

\* What the callbacks let the application conclude is what the transceiver
\* does.
THEOREM CallbacksTell == ASSUME Use PROVE Spec => []AsTold
BY StateKnown, TellsTheState, PTL

-----------------------------------------------------------------------------
(***************************************************************************)
(* The serial loop (HostMain): for any number of boards and lines, and     *)
(* however the timeouts fall, the file has whole lines in their order.     *)
(***************************************************************************)
HostTypeOK ==
  /\ written \in [Boards -> Nat]
  /\ port \in [Boards -> Seq(Nat)]
  /\ turn \in 1 .. Len(Connections)
  /\ eval_file \in Seq(Boards \X Nat)
  /\ cut \in [Boards -> SUBSET Nat]

\* How many pieces of each board have been read.
Read == [b \in Boards |-> written[b] - Len(port[b])]

\* The pieces at the port are the last that the board has written.
PortExact ==
  \A b \in Boards :
    /\ Len(port[b]) <= written[b]
    /\ \A k \in 1 .. Len(port[b]) : port[b][k] = Read[b] + k

\* Of a recorded line both pieces have been read, of a line that was cut at
\* least one.
OnlyWhatWasRead ==
  /\ \A j \in DOMAIN eval_file : 2 * eval_file[j][2] <= Read[eval_file[j][1]]
  /\ \A b \in Boards : \A i \in cut[b] : 2 * i <= Read[b] + 1

FileInv == HostTypeOK /\ PortExact /\ OnlyWhatWasRead /\ RecordedInOrder
-----------------------------------------------------------------------------
\* The first of some positions exists.
LEMMA FirstExists ==
  ASSUME NEW S \in SUBSET Nat, S # {}
  PROVE  Min(S) \in S
<1> DEFINE Less == {pair \in Nat \X Nat : pair[1] < pair[2]}
<1>1. IsWellFoundedOn(Less, Nat)
  BY NatLessThanWellFounded DEF OpToRel
<1>2. \A y, x \in Nat : <<y, x>> \notin Less => x <= y
  OBVIOUS
<1> HIDE DEF Less
<1>3. PICK x \in S : \A y \in S : <<y, x>> \notin Less
  BY <1>1, WFMin
<1>4. x \in S /\ \A y \in S : x <= y
  BY <1>2, <1>3
<1> QED BY <1>4 DEF Min

LEMMA PieceOfLine ==
  /\ \A p \in Nat : LineOf(p) \in Nat /\ 2 * LineOf(p) <= p + 1 /\ p <= 2 * LineOf(p)
  /\ \A p \in Nat : ~EndsLine(p) => 2 * LineOf(p) = p + 1
BY DEF LineOf, EndsLine

LEMMA TurnIsBoard == HostTypeOK => Connections[turn] \in Boards
BY ConnectionsAssumption DEF HostTypeOK, Boards, ToSet

LEMMA TurnAdvances == HostTypeOK /\ Advance => turn' \in 1 .. Len(Connections)
<1> SUFFICES ASSUME HostTypeOK, Advance
             PROVE  turn' \in 1 .. Len(Connections)
  OBVIOUS
<1>1. Len(Connections) \in Nat /\ Len(Connections) >= 1
  BY ConnectionsAssumption
<1>2. turn % Len(Connections) \in 0 .. Len(Connections) - 1
  BY <1>1 DEF HostTypeOK
<1> QED BY <1>1, <1>2 DEF Advance

\* What Append makes of the file.
LEMMA AppendedLine ==
  ASSUME NEW S, NEW s \in Seq(S), NEW e \in S, NEW t, t = Append(s, e)
  PROVE  /\ DOMAIN t = 1 .. Len(s) + 1 /\ DOMAIN s = 1 .. Len(s)
         /\ Len(s) \in Nat
         /\ \A j \in DOMAIN s : t[j] = s[j]
         /\ t[Len(s) + 1] = e
         /\ t \in Seq(S)
  OBVIOUS

\* The first n pieces at the port of b are read and processed.
LEMMA ProcessKeeps ==
  ASSUME FileInv, NEW b \in Boards, NEW n \in 0 .. Len(port[b]),
         Process(b, SubSeq(port[b], 1, n)),
         port' = [port EXCEPT ![b] = SubSeq(@, n + 1, Len(@))],
         written' = written, turn' \in 1 .. Len(Connections)
  PROVE  FileInv'
<1> USE DEF FileInv
<1> DEFINE pieces == SubSeq(port[b], 1, n)
           i == LineOf(pieces[1])
<1>1. /\ port \in [Boards -> Seq(Nat)] /\ written \in [Boards -> Nat]
      /\ port[b] \in Seq(Nat) /\ Len(port[b]) \in Nat /\ n \in Nat /\ n <= Len(port[b])
      /\ written[b] \in Nat /\ Len(port[b]) <= written[b]
      /\ Read[b] \in Nat
  BY DEF HostTypeOK, PortExact, Read
<1>2. /\ pieces \in Seq(Nat) /\ Len(pieces) = n
      /\ \A k \in 1 .. n : pieces[k] = Read[b] + k
  BY <1>1 DEF PortExact
<1>3. /\ port' \in [Boards -> Seq(Nat)]
      /\ Len(port'[b]) = Len(port[b]) - n
      /\ \A k \in 1 .. Len(port'[b]) : port'[b][k] = port[b][n + k]
      /\ \A c \in Boards \ {b} : port'[c] = port[c]
  BY <1>1
<1>4. Read'[b] = Read[b] + n /\ \A c \in Boards \ {b} : Read'[c] = Read[c]
  BY <1>1, <1>3 DEF Read
<1>5. PortExact'
  <2> SUFFICES ASSUME NEW c \in Boards
               PROVE  /\ Len(port'[c]) <= written'[c]
                      /\ \A k \in 1 .. Len(port'[c]) : port'[c][k] = Read'[c] + k
    BY DEF PortExact
  <2>1. CASE c = b
    <3>1. Len(port'[b]) <= written'[b]
      BY <1>1, <1>3
    <3>2. ASSUME NEW k \in 1 .. Len(port'[b])
          PROVE  port'[b][k] = Read'[b] + k
      <4>1. n + k \in 1 .. Len(port[b]) /\ port'[b][k] = port[b][n + k]
        BY <1>1, <1>3
      <4>2. port[b][n + k] = Read[b] + (n + k)
        BY <4>1 DEF PortExact
      <4>3. k \in Nat /\ n \in Nat /\ Read[b] \in Nat /\ Read'[b] = Read[b] + n
        BY <1>1, <1>3, <1>4
      <4> QED BY <4>1, <4>2, <4>3
    <3> QED BY <2>1, <3>1, <3>2
  <2>2. CASE c # b
    <3>1. port'[c] = port[c] /\ Read'[c] = Read[c]
      BY <1>3, <1>4, <2>2
    <3> QED BY <3>1 DEF PortExact
  <2> QED BY <2>1, <2>2
<1>6. \A c \in Boards : Read[c] \in Int /\ Read[c] <= Read'[c] /\ Read'[c] \in Int
  <2> SUFFICES ASSUME NEW c \in Boards
               PROVE  Read[c] \in Int /\ Read[c] <= Read'[c] /\ Read'[c] \in Int
    OBVIOUS
  <2>1. Read[c] \in Int
    BY DEF Read, HostTypeOK
  <2>2. CASE c = b
    BY <1>1, <1>4, <2>2
  <2>3. CASE c # b
    <3>1. Read'[c] = Read[c]
      BY <1>4, <2>3
    <3> QED BY <2>1, <3>1
  <2> QED BY <2>2, <2>3
<1>7. \A j \in DOMAIN eval_file : /\ eval_file[j] \in Boards \X Nat
                                 /\ eval_file[j][1] \in Boards /\ eval_file[j][2] \in Nat
  <2>1. \A j \in DOMAIN eval_file : eval_file[j] \in Boards \X Nat
    BY DEF HostTypeOK
  <2> QED BY <2>1
<1>10. \A c \in Boards : \A l \in cut[c] : l \in Nat /\ 2 * l <= Read'[c] + 1
  <2> SUFFICES ASSUME NEW c \in Boards, NEW l \in cut[c]
               PROVE  l \in Nat /\ 2 * l <= Read'[c] + 1
    OBVIOUS
  <2>1. l \in Nat /\ 2 * l <= Read[c] + 1
    BY DEF OnlyWhatWasRead, HostTypeOK
  <2>2. Read[c] \in Int /\ Read[c] <= Read'[c] /\ Read'[c] \in Int
    BY <1>6
  <2> QED BY <2>1, <2>2
<1>8. CASE Decodes(pieces) /\ Lines[b][i].json
  <2>1. /\ eval_file' = Append(eval_file, <<b, i>>) /\ cut' = cut
        /\ Len(pieces) = 2 /\ ~EndsLine(pieces[1])
    BY <1>8 DEF Process, Decodes, Argument
  <2>2. n = 2 /\ pieces[1] = Read[b] + 1 /\ i \in Nat /\ 2 * i = Read[b] + 2
    <3>1. n = 2 /\ pieces[1] = Read[b] + 1
      BY <1>2, <2>1
    <3>2. Read[b] + 1 \in Nat
      BY <1>1
    <3>3. ~EndsLine(Read[b] + 1) /\ i = LineOf(Read[b] + 1)
      BY <2>1, <3>1
    <3> HIDE DEF pieces, i
    <3>4. i \in Nat /\ 2 * i = (Read[b] + 1) + 1
      BY <3>2, <3>3, PieceOfLine
    <3> QED BY <1>1, <3>1, <3>4
  <2>3. /\ DOMAIN eval_file' = 1 .. Len(eval_file) + 1 /\ DOMAIN eval_file = 1 .. Len(eval_file)
        /\ Len(eval_file) \in Nat
        /\ \A j \in DOMAIN eval_file : eval_file'[j] = eval_file[j]
        /\ eval_file'[Len(eval_file) + 1] = <<b, i>>
        /\ eval_file' \in Seq(Boards \X Nat)
    <3>1. eval_file \in Seq(Boards \X Nat) /\ <<b, i>> \in Boards \X Nat
      BY <2>2 DEF HostTypeOK
    <3> HIDE DEF i
    <3>2. eval_file' = Append(eval_file, <<b, i>>)
      BY <2>1
    <3> QED BY <3>1, <3>2, AppendedLine
  <2>4. HostTypeOK'
    BY <1>3, <2>1, <2>3 DEF HostTypeOK
  <2>5. OnlyWhatWasRead'
    <3>1. ASSUME NEW j \in DOMAIN eval_file'
          PROVE  2 * eval_file'[j][2] <= Read'[eval_file'[j][1]]
      <4>1. CASE j \in DOMAIN eval_file
        <5>1. /\ eval_file'[j] = eval_file[j] /\ eval_file[j][1] \in Boards
              /\ eval_file[j][2] \in Nat
              /\ 2 * eval_file[j][2] <= Read[eval_file[j][1]]
          BY <1>7, <2>3, <4>1 DEF OnlyWhatWasRead
        <5>2. \A x, y, z \in Int : 2 * x <= y /\ y <= z => 2 * x <= z
          OBVIOUS
        <5> QED BY <1>6, <5>1, <5>2
      <4>2. CASE j = Len(eval_file) + 1
        <5>1. eval_file'[j][1] = b /\ eval_file'[j][2] = i
          <6> HIDE DEF i
          <6> QED BY <2>3, <4>2
        <5>2. Read'[b] = Read[b] + 2
          BY <1>4, <2>2
        <5> HIDE DEF i
        <5> QED BY <1>1, <2>2, <5>1, <5>2
      <4> QED BY <2>3, <4>1, <4>2
    <3>2. \A c \in Boards : \A l \in cut'[c] : 2 * l <= Read'[c] + 1
      BY <1>10, <2>1
    <3> QED BY <3>1, <3>2 DEF OnlyWhatWasRead
  <2>6. RecordedInOrder'
    <3> SUFFICES ASSUME NEW j \in DOMAIN eval_file'
                 PROVE  /\ \A k \in 1 .. j - 1 : eval_file'[k][1] = eval_file'[j][1] =>
                                                 eval_file'[k][2] < eval_file'[j][2]
                        /\ eval_file'[j][2] \notin cut'[eval_file'[j][1]]
      BY DEF RecordedInOrder
    <3>1. CASE j \in DOMAIN eval_file
      BY <2>1, <2>3, <3>1 DEF RecordedInOrder
    <3>2. CASE j = Len(eval_file) + 1
      <4>1. ASSUME NEW k \in 1 .. j - 1, eval_file[k][1] = b
            PROVE  eval_file[k][2] < i
        <5>1. k \in DOMAIN eval_file
          BY <2>3, <3>2
        <5>2. eval_file[k][2] \in Nat /\ 2 * eval_file[k][2] <= Read[b]
          BY <1>7, <4>1, <5>1 DEF OnlyWhatWasRead
        <5>3. \A x, l, r \in Nat : 2 * x <= r /\ 2 * l = r + 2 => x < l
          OBVIOUS
        <5> HIDE DEF i
        <5> QED BY <1>1, <2>2, <5>2, <5>3
      <4>2. i \notin cut[b]
        BY <1>1, <2>2 DEF OnlyWhatWasRead
      <4> QED BY <2>1, <2>3, <3>2, <4>1, <4>2
    <3> QED BY <2>3, <3>1, <3>2
  <2> QED BY <1>5, <2>4, <2>5, <2>6
<1>9. CASE ~(Decodes(pieces) /\ Lines[b][i].json)
  <2>1. /\ eval_file' = eval_file
        /\ \/ cut' = cut
           \/ cut' = [cut EXCEPT ![b] = @ \cup {LineOf(p) : p \in ToSet(pieces)}]
    BY <1>9 DEF Process
  <2>2. \A p \in ToSet(pieces) : /\ p \in Nat /\ LineOf(p) \in Nat
                                /\ Read[b] + 1 <= 2 * LineOf(p)
                                /\ 2 * LineOf(p) <= Read'[b] + 1
    <3> SUFFICES ASSUME NEW p \in ToSet(pieces)
                 PROVE  /\ p \in Nat /\ LineOf(p) \in Nat
                        /\ Read[b] + 1 <= 2 * LineOf(p)
                        /\ 2 * LineOf(p) <= Read'[b] + 1
      OBVIOUS
    <3>1. PICK k \in 1 .. n : p = Read[b] + k
      <4>1. DOMAIN pieces = 1 .. n
        BY <1>2
      <4>2. PICK k \in DOMAIN pieces : p = pieces[k]
        BY DEF ToSet
      <4> HIDE DEF pieces
      <4> QED BY <1>2, <4>1, <4>2
    <3>2. p \in Nat /\ Read[b] + 1 <= p /\ p <= Read'[b]
      <4>1. Read'[b] = Read[b] + n /\ Read[b] \in Nat /\ n \in Nat
        BY <1>1, <1>4
      <4>2. \A r, m \in Nat : \A j \in 1 .. m :
              r + j \in Nat /\ r + 1 <= r + j /\ r + j <= r + m
        OBVIOUS
      <4>3. k \in 1 .. n /\ p = Read[b] + k
        BY <3>1
      <4> HIDE DEF pieces
      <4> QED BY <4>1, <4>2, <4>3
    <3>3. LineOf(p) \in Nat /\ 2 * LineOf(p) <= p + 1 /\ p <= 2 * LineOf(p)
      BY <3>2, PieceOfLine
    <3>4. \A r, s, q, l \in Nat : r + 1 <= q /\ q <= s /\ 2 * l <= q + 1 /\ q <= 2 * l =>
                                 r + 1 <= 2 * l /\ 2 * l <= s + 1
      OBVIOUS
    <3>5. Read[b] \in Nat /\ Read'[b] \in Nat
      BY <1>1, <1>4
    <3> QED BY <3>2, <3>3, <3>4, <3>5
  <2>3. /\ \A c \in Boards : \A l \in cut'[c] :
             \/ l \in cut[c]
             \/ c = b /\ l \in Nat /\ Read[b] + 1 <= 2 * l /\ 2 * l <= Read'[b] + 1
        /\ cut' \in [Boards -> SUBSET Nat]
    <3> DEFINE new == {LineOf(p) : p \in ToSet(pieces)}
    <3>1. \A l \in new : l \in Nat /\ Read[b] + 1 <= 2 * l /\ 2 * l <= Read'[b] + 1
      BY <2>2
    <3>2. cut \in [Boards -> SUBSET Nat] /\ new \subseteq Nat
      BY <3>1 DEF HostTypeOK
    <3>3. cut' = cut \/ cut' = [cut EXCEPT ![b] = @ \cup new]
      BY <2>1
    <3> HIDE DEF new, pieces
    <3>4. cut' \in [Boards -> SUBSET Nat]
      BY <3>2, <3>3
    <3>5. \A c \in Boards : \A l \in cut'[c] : l \in cut[c] \/ (c = b /\ l \in new)
      BY <3>2, <3>3
    <3> QED BY <3>1, <3>4, <3>5
  <2>4. HostTypeOK'
    BY <1>3, <2>1, <2>3 DEF HostTypeOK
  <2>5. OnlyWhatWasRead'
    <3>1. \A j \in DOMAIN eval_file' : 2 * eval_file'[j][2] <= Read'[eval_file'[j][1]]
      BY <1>6, <1>7, <2>1 DEF OnlyWhatWasRead
    <3>2. \A c \in Boards : \A l \in cut'[c] : 2 * l <= Read'[c] + 1
      BY <1>10, <2>3
    <3> QED BY <3>1, <3>2 DEF OnlyWhatWasRead
  <2>6. RecordedInOrder'
    <3>1. ASSUME NEW j \in DOMAIN eval_file
          PROVE  eval_file[j][2] \notin cut'[eval_file[j][1]]
      <4>1. /\ eval_file[j][1] \in Boards /\ eval_file[j][2] \in Nat
            /\ 2 * eval_file[j][2] <= Read[eval_file[j][1]]
            /\ eval_file[j][2] \notin cut[eval_file[j][1]]
        BY <1>7 DEF OnlyWhatWasRead, RecordedInOrder
      <4>2. ~(Read[b] + 1 <= 2 * eval_file[j][2] /\ eval_file[j][1] = b)
        BY <1>1, <4>1
      <4> QED BY <2>3, <4>1, <4>2
    <3> QED BY <2>1, <3>1 DEF RecordedInOrder
  <2> QED BY <1>5, <2>4, <2>5, <2>6
<1> QED BY <1>8, <1>9

\* A board writes a piece.
LEMMA WriteKeeps ==
  ASSUME FileInv, NEW b \in Boards, Write(b)
  PROVE  FileInv'
<1> USE DEF FileInv
<1>1. /\ written' = [written EXCEPT ![b] = @ + 1]
      /\ port' = [port EXCEPT ![b] = Append(@, written[b] + 1)]
      /\ turn' = turn /\ eval_file' = eval_file /\ cut' = cut
  BY DEF Write
<1>2. written[b] \in Nat /\ port[b] \in Seq(Nat)
  BY DEF HostTypeOK
<1>3. HostTypeOK'
  BY <1>1, <1>2 DEF HostTypeOK
<1>4. \A c \in Boards : Read'[c] = Read[c]
  BY <1>1, <1>2 DEF Read, HostTypeOK
<1>5. PortExact'
  <2> SUFFICES ASSUME NEW c \in Boards
               PROVE  /\ Len(port'[c]) <= written'[c]
                      /\ \A k \in 1 .. Len(port'[c]) : port'[c][k] = Read[c] + k
    BY <1>4 DEF PortExact
  <2>1. CASE c = b
    <3>1. port'[b] = Append(port[b], written[b] + 1) /\ written'[b] = written[b] + 1
      BY <1>1 DEF HostTypeOK
    <3>2. /\ Len(port[b]) \in Nat /\ Len(port'[b]) = Len(port[b]) + 1
          /\ Len(port[b]) <= written[b] /\ Read[b] = written[b] - Len(port[b])
      BY <1>2, <3>1 DEF PortExact, Read
    <3>3. ASSUME NEW k \in 1 .. Len(port'[b])
          PROVE  port'[b][k] = Read[b] + k
      <4>1. CASE k \in 1 .. Len(port[b])
        BY <1>2, <3>1, <4>1 DEF PortExact
      <4>2. CASE k = Len(port[b]) + 1
        BY <1>2, <3>1, <3>2, <4>2
      <4> QED BY <3>2, <4>1, <4>2
    <3> QED BY <1>2, <2>1, <3>1, <3>2, <3>3
  <2>2. CASE c # b
    BY <1>1, <2>2 DEF PortExact, HostTypeOK
  <2> QED BY <2>1, <2>2
<1>6. OnlyWhatWasRead'
  <2>1. \A j \in DOMAIN eval_file : eval_file[j][1] \in Boards
    BY DEF HostTypeOK
  <2> QED BY <1>1, <1>4, <2>1 DEF OnlyWhatWasRead
<1>7. RecordedInOrder'
  BY <1>1 DEF RecordedInOrder
<1> QED BY <1>3, <1>5, <1>6, <1>7

\* readline() returns up to the first newline, or what has arrived.
LEMMA LoopKeeps ==
  ASSUME FileInv, Loop
  PROVE  FileInv'
<1> DEFINE b == Connections[turn]
           end == SelectInSeq(port[b], EndsLine)
<1>1. b \in Boards /\ port[b] \in Seq(Nat)
  BY TurnIsBoard DEF FileInv, HostTypeOK
<1>2. written' = written /\ turn' \in 1 .. Len(Connections)
  BY TurnAdvances DEF Loop, ReadLine, ReadTimeout, FileInv
<1>3. CASE ReadLine
  <2>1. end \in 0 .. Len(port[b])
    <3> DEFINE I == {k \in 1 .. Len(port[b]) : EndsLine(port[b][k])}
    <3>1. CASE I = {}
      BY <1>1, <3>1 DEF SelectInSeq
    <3>2. CASE I # {}
      <4>1. end = Min(I)
        BY <3>2 DEF SelectInSeq
      <4>2. I \subseteq 1 .. Len(port[b]) /\ Len(port[b]) \in Nat
        BY <1>1
      <4> HIDE DEF I, end
      <4>3. Min(I) \in I
        <5>1. I \subseteq Nat
          BY <4>2
        <5> QED BY <3>2, <5>1, FirstExists
      <4>4. \A k \in 1 .. Len(port[b]) : k \in 0 .. Len(port[b])
        BY <4>2
      <4> QED BY <4>1, <4>2, <4>3, <4>4
    <3> QED BY <3>1, <3>2
  <2> QED BY <1>1, <1>2, <1>3, <2>1, ProcessKeeps DEF ReadLine
<1>4. CASE ReadTimeout
  <2>1. Len(port[b]) \in 0 .. Len(port[b]) /\ SubSeq(port[b], 1, Len(port[b])) = port[b]
        /\ SubSeq(port[b], Len(port[b]) + 1, Len(port[b])) = <<>>
    BY <1>1
  <2>2. port' = [port EXCEPT ![b] = SubSeq(@, Len(port[b]) + 1, Len(@))]
    BY <1>1, <1>4, <2>1 DEF ReadTimeout
  <2>3. Process(b, SubSeq(port[b], 1, Len(port[b])))
    BY <1>4, <2>1 DEF ReadTimeout
  <2> QED BY <1>1, <1>2, <2>1, <2>2, <2>3, ProcessKeeps
<1> QED BY <1>3, <1>4 DEF Loop
-----------------------------------------------------------------------------
\* However the lines of several boards and the timeouts fall, evaluation.txt
\* has whole lines of each board, each once and in their order.
THEOREM FileInOrder == HostSpec => []RecordedInOrder
<1>1. HostInit => FileInv
  BY ConnectionsAssumption
     DEF HostInit, FileInv, HostTypeOK, PortExact, OnlyWhatWasRead, RecordedInOrder, Read
<1>2. FileInv /\ [HostNext]_hostvars => FileInv'
  <2>1. FileInv /\ HostNext => FileInv'
    BY WriteKeeps, LoopKeeps DEF HostNext
  <2>2. FileInv /\ UNCHANGED hostvars => FileInv'
    BY DEF hostvars, FileInv, HostTypeOK, PortExact, OnlyWhatWasRead, RecordedInOrder, Read
  <2> QED BY <2>1, <2>2
<1>3. FileInv => RecordedInOrder
  BY DEF FileInv
<1> QED BY <1>1, <1>2, <1>3, PTL DEF HostSpec
=============================================================================
