------------------------------- MODULE DwIsr -------------------------------
(***************************************************************************)
(* Events of a transceiver and the interrupt routine that reports them     *)
(* (dwt_isr, dwt_starttx, dwt_rxenable, dwt_forcetrxoff and                *)
(* dwt_syncrxbufptrs of lib/decadriver/deca_device.c), with an application *)
(* that calls the driver from its callbacks and outside of them.           *)
(*                                                                         *)
(* The routine reads the status once and works through it; the transceiver *)
(* goes on while it does.  RXTO stands for RXRFTO and RXPTO, RXERR for the *)
(* flags of SYS_STATUS_ALL_RX_ERR.                                         *)
(***************************************************************************)
EXTENDS Naturals, Sequences

CONSTANTS
  DoubleBuffer,  \* dblbuffon, and SYS_CFG_DIS_DRXB clear
  AutoAck,       \* SYS_CFG_AUTOACK
  Edge,          \* the interrupt is raised by the rising edge of the line
  Answers,       \* the RX callback may start a transmission
  Prompt,        \* events are read and cleared before the next one occurs
  MaxFrames,     \* bound: frames received
  MaxTx          \* bound: transmissions

VARIABLES
  status,     \* the bits of SYS_STATUS without RXFCG
  good,       \* RXFCG of each receive buffer
  buffer,     \* the frame in each receive buffer
  ic, hs,     \* ICRBP and HSRBP: the buffer of the transceiver, of the processor
  radio,      \* what the transceiver does
  respond,    \* it turns to receiving after the transmission
  wait4resp,  \* of dw1000local
  isr,        \* where dwt_isr is, the stages left, the status it has read
  latch,      \* an edge the processor has not reacted to
  app,        \* what the application waits for
  owed,       \* frames received and not yet reported, oldest first
  txDue,      \* transmissions completed and not yet reported
  frames, transmissions

chipvars == <<status, good, buffer, ic, hs, radio, respond>>
vars == <<status, good, buffer, ic, hs, radio, respond, wait4resp, isr, latch, app, owed,
          txDue, frames, transmissions>>

Buffer == 0..1
\* The routine is not running, at work on the first of the stages left, or
\* in the callback of that stage.
Idle == [at |-> "none", todo |-> {}, status |-> {}]

\* The stages of the routine, in their order.
Stage == IF "rx" \in isr.todo THEN "rx"
         ELSE IF "tx" \in isr.todo THEN "tx"
         ELSE IF "to" \in isr.todo THEN "to" ELSE "err"

\* The bits dwt_isr reads, for the buffer of the processor.
Status == status \cup (IF good[hs] THEN {"RXFCG"} ELSE {})

\* The interrupt line: AAT is not an event of the mask.
Line == Status \ {"AAT"} # {}

Init ==
  /\ status = {} /\ good = [b \in Buffer |-> FALSE] /\ buffer = [b \in Buffer |-> 0]
  /\ ic = 0 /\ hs = 0 /\ radio = "idle" /\ respond = FALSE
  /\ wait4resp = FALSE /\ isr = Idle /\ latch = FALSE
  /\ app = {} /\ owed = <<>> /\ txDue = 0 /\ frames = 0 /\ transmissions = 0
-----------------------------------------------------------------------------
(* The transceiver. *)

\* A frame is received, which may ask for an acknowledgement.  With two
\* buffers the transceiver moves on to the other one.  AAT may be set for a
\* frame that does not ask.
Receive(ack, spurious) ==
  /\ radio = "rx" /\ frames < MaxFrames /\ ~good[ic]
  /\ ack => AutoAck
  /\ spurious => AutoAck /\ ~ack
  /\ frames' = frames + 1
  /\ good' = [good EXCEPT ![ic] = TRUE]
  /\ buffer' = [buffer EXCEPT ![ic] = IF ack THEN 2 * frames' ELSE (2 * frames') + 1]
  /\ owed' = Append(owed, buffer'[ic])
  /\ ic' = IF DoubleBuffer THEN 1 - ic ELSE ic
  /\ status' = status \cup (IF ack \/ spurious THEN {"AAT"} ELSE {})
  /\ radio' = IF ack THEN "ack" ELSE "idle"
  /\ respond' = (respond /\ ack)
  /\ UNCHANGED <<hs, wait4resp, isr, app, txDue, transmissions>>

\* Reception ends with a timeout or an error.
ReceiveFails(event) ==
  /\ radio = "rx" /\ event \in {"RXTO", "RXERR"}
  /\ status' = status \cup {event}
  /\ radio' = "idle" /\ respond' = FALSE
  /\ UNCHANGED <<good, buffer, ic, hs, wait4resp, isr, app, owed, txDue, frames,
                 transmissions>>

\* A transmission ends.  After the acknowledgement of a response the
\* transceiver wrongly turns to receiving once more.
Transmitted ==
  /\ radio \in {"tx", "ack"}
  /\ status' = status \cup {"TXFRS"}
  /\ radio' = IF respond THEN "rx" ELSE "idle"
  /\ respond' = (respond /\ radio = "tx")
  /\ txDue' = txDue + (IF radio = "tx" THEN 1 ELSE 0)
  /\ UNCHANGED <<good, buffer, ic, hs, wait4resp, isr, app, owed, frames, transmissions>>
-----------------------------------------------------------------------------
(* Calls of the driver. *)

\* dwt_syncrxbufptrs: the buffer of the processor becomes that of the transceiver.
SyncRxBufPtrs == hs' = ic

\* dwt_forcetrxoff: frames not yet reported are given up.
ForceTrxOff ==
  /\ status' = {} /\ good' = [good EXCEPT ![hs] = FALSE]
  /\ SyncRxBufPtrs
  /\ radio' = "idle" /\ respond' = FALSE /\ wait4resp' = FALSE
  /\ owed' = <<>>
  /\ UNCHANGED <<buffer, ic, frames>>

\* What the application takes the transceiver to do: it is told by the
\* callbacks.
Expected == CASE "tx" \in app -> "tx"
              [] "ack" \in app \ {"tx"} -> "ack"
              [] app = {"rx"} -> "rx"
              [] app = {} -> "idle"

\* The application calls the driver from a callback or outside of dwt_isr,
\* when it takes the transceiver to be idle.
InRxCallback == isr.at = "call" /\ Stage = "rx"
Free ==
  /\ isr.at \in {"none", "call"}
  /\ Expected = "idle" \/ (Answers /\ InRxCallback /\ app = {"tx"})

Cancel ==
  /\ isr.at = "none" /\ app # {}
  /\ ForceTrxOff
  /\ app' = {} /\ txDue' = 0
  /\ UNCHANGED <<isr, transmissions>>

\* Fault: the pointers are aligned whatever the mode.
RxEnableAligned(nosync) ==
  /\ Free
  /\ SyncRxBufPtrs
  /\ radio' = "rx" /\ app' = {"rx"}
  /\ UNCHANGED <<status, good, buffer, ic, respond, wait4resp, isr, owed, txDue, frames,
                 transmissions>>

\* dwt_rxenable, with or without DWT_NO_SYNC_PTRS.
RxEnable(nosync) ==
  /\ Free
  /\ IF nosync THEN UNCHANGED hs ELSE SyncRxBufPtrs
  /\ radio' = "rx" /\ app' = {"rx"}
  /\ UNCHANGED <<status, good, buffer, ic, respond, wait4resp, isr, owed, txDue, frames,
                 transmissions>>

\* dwt_rxenable with DWT_START_RX_DELAYED when the time has passed: the
\* delayed reception is cancelled, the receiver enabled unless
\* DWT_IDLE_ON_DLY_ERR is set.
RxEnableLate(idle) ==
  /\ Free /\ isr.at = "none"
  /\ status' = {} /\ good' = [good EXCEPT ![hs] = FALSE] /\ SyncRxBufPtrs
  /\ respond' = FALSE /\ wait4resp' = FALSE /\ owed' = <<>>
  /\ radio' = IF idle THEN "idle" ELSE "rx"
  /\ app' = IF idle THEN {} ELSE {"rx"}
  /\ UNCHANGED <<buffer, ic, isr, txDue, frames, transmissions>>

\* dwt_starttx, with or without DWT_RESPONSE_EXPECTED; late, with
\* DWT_START_TX_DELAYED and a time that has passed.
StartTx(response, late) ==
  /\ Free /\ transmissions < MaxTx
  /\ transmissions' = transmissions + 1
  /\ radio' = IF late THEN "idle" ELSE "tx"
  /\ respond' = (response /\ ~late)
  /\ wait4resp' = (wait4resp \/ response)
  /\ app' = IF late THEN {} ELSE {"tx"} \cup (IF response THEN {"rx"} ELSE {})
  /\ UNCHANGED <<status, good, buffer, ic, hs, isr, owed, txDue, frames>>
-----------------------------------------------------------------------------
(* dwt_isr. *)

Bit == [rx |-> "RXFCG", tx |-> "TXFRS", to |-> "RXTO", err |-> "RXERR"]

\* The stages the status calls for.
Todo == {stage \in DOMAIN Bit : Bit[stage] \in Status}

\* The status is read.
Enter ==
  /\ isr.at = "none" /\ (IF Edge THEN latch ELSE Line)
  /\ isr' = IF Todo = {} THEN Idle
            ELSE [at |-> "work", todo |-> Todo, status |-> Status]
  /\ UNCHANGED <<chipvars, wait4resp, app, owed, txDue, frames, transmissions>>

AtWork(stage) == isr.at = "work" /\ Stage = stage /\ isr' = [isr EXCEPT !.at = "call"]

\* The frame asks for an acknowledgement.
AckReq(frame) == frame % 2 = 0

\* RXFCG: the bits are cleared, the frame is read; AAT and wait4resp are
\* cleared unless the frame asks for an acknowledgement.  cbRxOk tells the
\* application, which sees AAT.
RxGood ==
  /\ AtWork("rx")
  /\ LET aat   == "AAT" \in isr.status
         stray == aat /\ ~AckReq(buffer[hs])
     IN /\ good' = [good EXCEPT ![hs] = FALSE]
        /\ status' = IF stray THEN status \ {"AAT"} ELSE status
        /\ wait4resp' = (wait4resp /\ ~stray)
        /\ app' = (app \ {"rx"}) \cup (IF aat /\ ~stray THEN {"ack"} ELSE {})
  /\ owed' = IF owed = <<>> THEN <<>> ELSE Tail(owed)
  /\ UNCHANGED <<buffer, ic, hs, radio, respond, txDue, frames, transmissions>>

\* What both branches for TXFRS do.
TxReported ==
  /\ AtWork("tx")
  /\ app' = app \ {"tx", "ack"}
  /\ txDue' = IF "tx" \in app /\ txDue > 0 THEN txDue - 1 ELSE txDue
  /\ UNCHANGED transmissions

\* Fault: the receiver an acknowledgement has turned on is left on.
TxSentOn ==
  /\ TxReported
  /\ status' = status \ {"TXFRS", "AAT"}
  /\ UNCHANGED <<good, buffer, ic, hs, radio, respond, wait4resp, owed, frames>>

\* Fault: TXFRS is not cleared.
TxSentKept ==
  /\ TxReported
  /\ IF "AAT" \in isr.status /\ wait4resp THEN ForceTrxOff
     ELSE UNCHANGED <<status, good, buffer, ic, hs, radio, respond, wait4resp, owed, frames>>

\* TXFRS: the receiver an acknowledgement has turned on is turned off.
TxSent ==
  /\ TxReported
  /\ IF "AAT" \in isr.status /\ wait4resp THEN ForceTrxOff
     ELSE /\ status' = status \ {"TXFRS", "AAT"}
          /\ UNCHANGED <<good, buffer, ic, hs, radio, respond, wait4resp, owed, frames>>

\* RXRFTO, RXPTO and the errors: the transceiver is turned off.
RxFailed(stage) ==
  /\ AtWork(stage)
  /\ ForceTrxOff
  /\ app' = app \ {"rx"}
  /\ UNCHANGED <<txDue, transmissions>>

\* Fault: the buffer of the processor is not toggled.
LeaveHere ==
  /\ isr.at = "call"
  /\ isr' = IF isr.todo = {Stage} THEN Idle
            ELSE [isr EXCEPT !.at = "work", !.todo = @ \ {Stage}]
  /\ UNCHANGED <<chipvars, wait4resp, app, owed, txDue, frames, transmissions>>

\* The callback returns; after cbRxOk, HRBT toggles the buffer.
Leave ==
  /\ isr.at = "call"
  /\ isr' = IF isr.todo = {Stage} THEN Idle
            ELSE [isr EXCEPT !.at = "work", !.todo = @ \ {Stage}]
  /\ hs' = IF DoubleBuffer /\ Stage = "rx" THEN 1 - hs ELSE hs
  /\ UNCHANGED <<status, good, buffer, ic, radio, respond, wait4resp, app, owed, txDue, frames,
                 transmissions>>

Isr == Enter \/ RxGood \/ TxSent \/ RxFailed("to") \/ RxFailed("err") \/ Leave

Chip ==
  /\ Prompt => isr.at # "work" /\ ~Line
  /\ \/ \E ack, spurious \in BOOLEAN : Receive(ack, spurious)
     \/ \E event \in {"RXTO", "RXERR"} : ReceiveFails(event)
     \/ Transmitted

Calls ==
  \/ RxEnable(DoubleBuffer /\ isr.at = "call")
  \/ \E b \in BOOLEAN : RxEnableLate(b)
  \/ \E response, late \in BOOLEAN : StartTx(response, late)
  \/ Cancel

\* The rising edge of the line is kept until the routine is entered.
Latch == latch' = ((~Line /\ Line') \/ (latch /\ isr'.at = isr.at) \/ (latch /\ isr.at # "none"))

Next == (Isr \/ Chip \/ Calls) /\ Latch

Spec == Init /\ [][Next]_vars

\* The processor runs the routine, the transceiver ends what it transmits.
FairSpec == Spec /\ WF_vars(Isr /\ Latch) /\ WF_vars(Transmitted /\ Latch)
-----------------------------------------------------------------------------
\* The frame dwt_isr reads from the receive buffer is the oldest that has not
\* been reported, whatever has been received, enabled or given up meanwhile.
OldestFirst ==
  isr.at = "work" /\ Stage = "rx" => owed # <<>> /\ buffer[hs] = Head(owed)

\* When dwt_isr is left, each frame and each transmission not yet reported
\* still shows in the status: none is forgotten.
NothingForgotten ==
  isr.at = "none" => /\ owed # <<>> => good[hs]
                     /\ txDue > 0 => "TXFRS" \in status

\* What the application concludes from the callbacks is what the transceiver
\* does: always when it concludes that it is idle, and otherwise when no
\* event is left to report.
AsTold ==
  /\ Expected = "idle" /\ isr.at # "work" => radio = "idle"
  /\ isr.at = "none" /\ ~Line => radio = Expected

\* The interrupt line does not stay high.
LineFalls == Line ~> ~Line
-----------------------------------------------------------------------------
\* What comments of the sources say and the code does not do.

\* "wait4response was set with last TX start command".
WaitsForLast == "tx" \in app /\ wait4resp => respond
=============================================================================
