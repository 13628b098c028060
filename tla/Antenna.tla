------------------------------ MODULE Antenna ------------------------------
(***************************************************************************)
(* The firmware of a swarm of antennas (src/antenna/main.c with the state  *)
(* of storage.c) and the DW1000 transceiver each of them polls.            *)
(*                                                                         *)
(* The firmware is one thread: main()'s endless loop, which calls          *)
(* check_received_messages() and, when transmission_timer has expired,     *)
(* send_message().  The transceiver runs beside it: frames are put on the  *)
(* air, arrive and set event flags between any two register accesses of    *)
(* the loop.  pc[n] names the register access that node n makes next.      *)
(*                                                                         *)
(* A timestamp is abstracted to the frame whose arrival it is the time of, *)
(* which is all the properties here need; the arithmetic on timestamps is  *)
(* the subject of Node.tla.  Logging is left out.                          *)
(***************************************************************************)
EXTENDS Integers, FiniteSets

CONSTANTS
  Node,        \* the participating ids: indices of received_messages
  MaxSeq,      \* BOUND: transmissions each node makes; see the README
  BlockSize,   \* TX_TIMESTAMP_BLOCKSIZE, slots of tx_timestamps
  LateTx,      \* can a delayed transmission be commanded too late?
  None         \* no frame, no timestamp

ASSUME MaxSeqAssumption == MaxSeq \in Nat
ASSUME BlockSizeAssumption == BlockSize \in Nat \ {0}
ASSUME LateTxAssumption == LateTx \in BOOLEAN

VARIABLES
  (* the firmware's state *)
  pc,          \* where main()'s loop is
  seq,         \* self.sequence_number
  table,       \* received_messages
  frame,       \* rx_buffer, the frame being processed
  timer,       \* transmission_timer
  tx_times,    \* tx_timestamps: whose transmission time each slot holds
  uart,        \* the last transmission and reception reported to the host
  (* the transceiver's state *)
  mode,        \* "off", "rx" (receiver enabled) or "tx" (delayed TX pending)
  txfrs,       \* SYS_STATUS_TXFRS
  rxfcg,       \* SYS_STATUS_RXFCG
  rxerr,       \* one of SYS_STATUS_ALL_RX_ERR
  txbuf,       \* TX_BUFFER
  rxbuf,       \* RX_BUFFER
  rxstamp,     \* RX_TIME
  unreset      \* has a reception failed since the receiver was last reset?

firmware == <<pc, seq, table, frame, timer, tx_times, uart>>
receiver == <<rxfcg, rxerr, rxbuf, rxstamp, unreset>>
vars == <<firmware, mode, txfrs, txbuf, receiver>>

Seq == 1..MaxSeq

\* The time of arrival of one frame; sound is false when the driver's
\* conditions for a correct timestamp were not met.
Stamp == [sender : Node, seq : Seq, sound : BOOLEAN]

\* One element of received_messages; seq 0 marks an element as unused.
Row == [seq : 0..MaxSeq, rx : Stamp \cup {None}]

\* The receive timestamps a frame carries, and the frame.
Echo == [id : Node, seq : Seq, rx : Stamp \cup {None}]
Frame == [sender : Node, seq : Seq, heard : SUBSET Echo]

\* A reception as process_in_message reports it.
RxLine == [frame : Frame \cup {None}, rx : Stamp \cup {None}]

ASSUME NoneAssumption == None \notin Stamp /\ None \notin Frame

TypeOK ==
  /\ pc \in [Node -> {"status", "data", "stamp", "ack", "timer", "txwait"}]
  /\ seq \in [Node -> 1..(MaxSeq + 1)]
  /\ table \in [Node -> [Node -> Row]]
  /\ frame \in [Node -> Frame \cup {None}]
  /\ timer \in [Node -> {"running", "expired", "stopped"}]
  /\ tx_times \in [Node -> [0..(BlockSize - 1) -> 0..MaxSeq]]
  /\ uart \in [Node -> [tx : 0..MaxSeq, rx : RxLine \cup {None}]]
  /\ mode \in [Node -> {"off", "rx", "tx"}]
  /\ txfrs \in [Node -> BOOLEAN]
  /\ rxfcg \in [Node -> BOOLEAN]
  /\ rxerr \in [Node -> BOOLEAN]
  /\ txbuf \in [Node -> Frame \cup {None}]
  /\ rxbuf \in [Node -> Frame \cup {None}]
  /\ rxstamp \in [Node -> Stamp \cup {None}]
  /\ unreset \in [Node -> BOOLEAN]

-----------------------------------------------------------------------------
(***************************************************************************)
(* main() up to its loop: static data, the loop that clears                *)
(* received_messages, the first k_timer_start.  The receiver is not        *)
(* enabled here.                                                           *)
(***************************************************************************)
Init ==
  /\ pc = [n \in Node |-> "status"]
  /\ seq = [n \in Node |-> 1]
  /\ table = [n \in Node |-> [m \in Node |-> [seq |-> 0, rx |-> None]]]
  /\ frame = [n \in Node |-> None]
  /\ timer = [n \in Node |-> "running"]
  /\ tx_times = [n \in Node |-> [i \in 0..(BlockSize - 1) |-> 0]]
  /\ uart = [n \in Node |-> [tx |-> 0, rx |-> None]]
  /\ mode = [n \in Node |-> "off"]
  /\ txfrs = [n \in Node |-> FALSE]
  /\ rxfcg = [n \in Node |-> FALSE]
  /\ rxerr = [n \in Node |-> FALSE]
  /\ txbuf = [n \in Node |-> None]
  /\ rxbuf = [n \in Node |-> None]
  /\ rxstamp = [n \in Node |-> None]
  /\ unreset = [n \in Node |-> FALSE]

Goto(n, label) == pc' = [pc EXCEPT ![n] = label]

(***************************************************************************)
(* check_received_messages(): the status register is read once; a good     *)
(* frame has priority over an error, and clearing an error is all that is  *)
(* done about it.                                                          *)
(***************************************************************************)
CheckStatus(n) ==
  /\ pc[n] = "status"
  /\ \/ /\ rxfcg[n]
        /\ Goto(n, "data")
        /\ UNCHANGED rxerr
     \/ /\ ~rxfcg[n]
        /\ Goto(n, "timer")
        /\ rxerr' = [rxerr EXCEPT ![n] = FALSE]
  /\ UNCHANGED <<seq, table, frame, timer, tx_times, uart,
                 mode, txfrs, txbuf, rxfcg, rxbuf, rxstamp, unreset>>

\* Fault: the receiver is enabled again before the timestamp has been read.
ReadFrameAndListen(n) ==
  /\ pc[n] = "data"
  /\ frame' = [frame EXCEPT ![n] = rxbuf[n]]
  /\ mode' = [mode EXCEPT ![n] = "rx"]
  /\ Goto(n, "stamp")
  /\ UNCHANGED <<seq, table, timer, tx_times, uart, txfrs, txbuf, receiver>>

\* dwt_readrxdata into rx_buffer.
ReadFrame(n) ==
  /\ pc[n] = "data"
  /\ frame' = [frame EXCEPT ![n] = rxbuf[n]]
  /\ Goto(n, "stamp")
  /\ UNCHANGED <<seq, table, timer, tx_times, uart, mode, txfrs, txbuf, receiver>>

\* Fault: only the message received last is remembered.
TakeFrameAlone(n) ==
  /\ pc[n] = "stamp"
  /\ table' = [table EXCEPT ![n] =
                 [m \in Node |-> IF m = frame[n].sender
                                   THEN [seq |-> frame[n].seq, rx |-> rxstamp[n]]
                                   ELSE [seq |-> 0, rx |-> None]]]
  /\ uart' = [uart EXCEPT ![n].rx = [frame |-> frame[n], rx |-> rxstamp[n]]]
  /\ Goto(n, "ack")
  /\ UNCHANGED <<seq, frame, timer, tx_times, mode, txfrs, txbuf, receiver>>

\* read_rx_timestamp, then analyse_message, process_in_message and the
\* update of received_messages, none of which touches the transceiver.
TakeFrame(n) ==
  /\ pc[n] = "stamp"
  /\ table' = [table EXCEPT ![n][frame[n].sender] =
                 [seq |-> frame[n].seq, rx |-> rxstamp[n]]]
  /\ uart' = [uart EXCEPT ![n].rx = [frame |-> frame[n], rx |-> rxstamp[n]]]
  /\ Goto(n, "ack")
  /\ UNCHANGED <<seq, frame, timer, tx_times, mode, txfrs, txbuf, receiver>>

\* Writing SYS_STATUS_RXFCG back; rx_buffer has been freed.
AckFrame(n) ==
  /\ pc[n] = "ack"
  /\ frame' = [frame EXCEPT ![n] = None]
  /\ rxfcg' = [rxfcg EXCEPT ![n] = FALSE]
  /\ Goto(n, "timer")
  /\ UNCHANGED <<seq, table, timer, tx_times, uart,
                 mode, txfrs, txbuf, rxerr, rxbuf, rxstamp, unreset>>

-----------------------------------------------------------------------------
\* k_timer_status_get returns 0: back to the top of the loop.
NothingDue(n) ==
  /\ pc[n] = "timer"
  /\ timer[n] # "expired"
  /\ Goto(n, "status")
  /\ UNCHANGED <<seq, table, frame, timer, tx_times, uart,
                 mode, txfrs, txbuf, receiver>>

\* Fault: the unused elements are sent too.
ConstructAll(n) ==
  [sender |-> n, seq |-> seq[n],
   heard |-> {[id |-> m, seq |-> table[n][m].seq, rx |-> table[n][m].rx] :
              m \in Node}]

\* construct_message: one receive timestamp per used element.
Construct(n) ==
  [sender |-> n, seq |-> seq[n],
   heard |-> {[id |-> m, seq |-> table[n][m].seq, rx |-> table[n][m].rx] :
              m \in {k \in Node : table[n][k].seq # 0}}]

\* Fault: the delayed transmission is set up and never started.
StartSendOff(n) ==
  /\ pc[n] = "timer"
  /\ timer[n] = "expired"
  /\ timer' = [timer EXCEPT ![n] = "stopped"]
  /\ txbuf' = [txbuf EXCEPT ![n] = Construct(n)]
  /\ mode' = [mode EXCEPT ![n] = "off"]
  /\ Goto(n, "txwait")
  /\ UNCHANGED <<seq, table, frame, tx_times, uart, txfrs, receiver>>

(***************************************************************************)
(* k_timer_status_get returns 1 and send_message() runs up to its busy     *)
(* wait.  dwt_starttx cancels the transmission and turns the transceiver   *)
(* off when the programmed time has passed; send_message() discards the    *)
(* DWT_ERROR it returns.                                                   *)
(***************************************************************************)
StartSend(n) ==
  /\ pc[n] = "timer"
  /\ timer[n] = "expired"
  /\ timer' = [timer EXCEPT ![n] = "stopped"]
  /\ txbuf' = [txbuf EXCEPT ![n] = Construct(n)]
  /\ \/ mode' = [mode EXCEPT ![n] = "tx"]
     \/ LateTx /\ mode' = [mode EXCEPT ![n] = "off"]
  /\ Goto(n, "txwait")
  /\ UNCHANGED <<seq, table, frame, tx_times, uart, txfrs, receiver>>

\* Fault: one slot too far.
SetTxTimestampNext(n) ==
  tx_times' = [tx_times EXCEPT ![n][(seq[n] + 1) % BlockSize] = seq[n]]

\* set_tx_timestamp of storage.c.
SetTxTimestamp(n) ==
  tx_times' = [tx_times EXCEPT ![n][seq[n] % BlockSize] = seq[n]]

\* Fault: receive events survive.
RxEnableKeepingEvents(n) ==
  /\ mode' = [mode EXCEPT ![n] = "rx"]
  /\ UNCHANGED receiver

\* dwt_rxenable(DWT_START_RX_IMMEDIATE): the transceiver drops the receive
\* events it still holds and starts to listen.
RxEnable(n) ==
  /\ mode' = [mode EXCEPT ![n] = "rx"]
  /\ rxfcg' = [rxfcg EXCEPT ![n] = FALSE]
  /\ rxerr' = [rxerr EXCEPT ![n] = FALSE]
  /\ UNCHANGED <<rxbuf, rxstamp, unreset>>

\* Faults: the transmission is not reported; sequence_number is not advanced.
FinishSendUnreported(n) ==
  /\ pc[n] = "txwait"
  /\ txfrs[n]
  /\ SetTxTimestamp(n)
  /\ txfrs' = [txfrs EXCEPT ![n] = FALSE]
  /\ RxEnable(n)
  /\ seq' = [seq EXCEPT ![n] = @ + 1]
  /\ timer' = [timer EXCEPT ![n] = "running"]
  /\ Goto(n, "status")
  /\ UNCHANGED <<table, frame, txbuf, uart>>

FinishSendSameNumber(n) ==
  /\ pc[n] = "txwait"
  /\ txfrs[n]
  /\ SetTxTimestamp(n)
  /\ uart' = [uart EXCEPT ![n].tx = seq[n]]
  /\ txfrs' = [txfrs EXCEPT ![n] = FALSE]
  /\ RxEnable(n)
  /\ timer' = [timer EXCEPT ![n] = "running"]
  /\ Goto(n, "status")
  /\ UNCHANGED <<seq, table, frame, txbuf>>

\* The busy wait sees TXFRS: the rest of send_message() and of the loop's
\* body, up to the k_timer_start that schedules the next transmission.
FinishSend(n) ==
  /\ pc[n] = "txwait"
  /\ txfrs[n]
  /\ SetTxTimestamp(n)
  /\ uart' = [uart EXCEPT ![n].tx = seq[n]]
  /\ txfrs' = [txfrs EXCEPT ![n] = FALSE]
  /\ RxEnable(n)
  /\ seq' = [seq EXCEPT ![n] = @ + 1]
  /\ timer' = [timer EXCEPT ![n] = "running"]
  /\ Goto(n, "status")
  /\ UNCHANGED <<table, frame, txbuf>>

-----------------------------------------------------------------------------
(***************************************************************************)
(* The environment: the kernel timer, and the transceivers and the medium. *)
(***************************************************************************)

\* BOUND: the timer of a node that has made MaxSeq transmissions stays quiet.
Expire(n) ==
  /\ timer[n] = "running"
  /\ seq[n] <= MaxSeq
  /\ timer' = [timer EXCEPT ![n] = "expired"]
  /\ UNCHANGED <<pc, seq, table, frame, tx_times, uart,
                 mode, txfrs, txbuf, receiver>>

(***************************************************************************)
(* The pending transmission of n reaches the listening nodes: those in     *)
(* good receive it, those in bad receive it damaged, the others miss it.   *)
(* After a reception, good or bad, the receiver is off: the firmware       *)
(* leaves SYS_CFG_RXAUTR unset.  A timestamp is sound unless an error has  *)
(* not been followed by a reset of the receiver.                           *)
(***************************************************************************)
Reception(n, good, bad) ==
  /\ mode' = [m \in Node |->
                IF m = n \/ m \in good \cup bad THEN "off" ELSE mode[m]]
  /\ rxfcg' = [m \in Node |-> rxfcg[m] \/ m \in good]
  /\ rxerr' = [m \in Node |-> rxerr[m] \/ m \in bad]
  /\ rxbuf' = [m \in Node |-> IF m \in good THEN txbuf[n]
                              ELSE IF m \in bad THEN None ELSE rxbuf[m]]
  /\ rxstamp' = [m \in Node |->
                   IF m \in good
                     THEN [sender |-> n, seq |-> txbuf[n].seq, sound |-> ~unreset[m]]
                     ELSE IF m \in bad THEN None ELSE rxstamp[m]]
  /\ unreset' = [m \in Node |-> unreset[m] \/ m \in bad]

\* The transmission of n is made at the time it was delayed to.
OnAir(n) ==
  LET Listening == {m \in Node : mode[m] = "rx"}
  IN  /\ mode[n] = "tx"
      /\ txfrs' = [txfrs EXCEPT ![n] = TRUE]
      /\ \E good \in SUBSET Listening : \E bad \in SUBSET (Listening \ good) :
            Reception(n, good, bad)
      /\ UNCHANGED <<firmware, txbuf>>

-----------------------------------------------------------------------------
Loop(n) ==
  \/ CheckStatus(n)
  \/ ReadFrame(n)
  \/ TakeFrame(n)
  \/ AckFrame(n)
  \/ NothingDue(n)
  \/ StartSend(n)
  \/ FinishSend(n)

Next == \E n \in Node : Loop(n) \/ Expire(n) \/ OnAir(n)

\* The loop never blocks in the kernel and nothing else runs on the board;
\* the timer and a pending transmission need no help from the firmware.
Fairness == \A n \in Node : /\ WF_vars(Loop(n))
                            /\ WF_vars(Expire(n))
                            /\ WF_vars(OnAir(n))

Spec == Init /\ [][Next]_vars

FairSpec == Spec /\ Fairness

-----------------------------------------------------------------------------
(***************************************************************************)
(* Properties.                                                             *)
(***************************************************************************)

\* Is t the time of arrival of transmission s of node m?
IsStampOf(t, m, s) == t # None /\ t.sender = m /\ t.seq = s

(***************************************************************************)
(* StampOfItsFrame.  The payload of a frame and its receive timestamp are  *)
(* read from the transceiver in two steps, with the medium running.  Still *)
(* every timestamp that is stored, that was last reported to the host, or  *)
(* that a frame carries to other nodes is the one of the message it stands *)
(* beside.                                                                 *)
(***************************************************************************)
StampOfItsFrame ==
  \A n \in Node :
    /\ \A m \in Node :
         table[n][m].seq # 0 => IsStampOf(table[n][m].rx, m, table[n][m].seq)
    /\ uart[n].rx # None =>
         LET line == uart[n].rx
         IN /\ line.frame # None
            /\ IsStampOf(line.rx, line.frame.sender, line.frame.seq)
            /\ \A e \in line.frame.heard : IsStampOf(e.rx, e.id, e.seq)

(***************************************************************************)
(* TxLineBeforeItsEcho.  When a frame reported to the host of n says that  *)
(* transmission s of n was heard, n has reported transmission s before:    *)
(* evaluate_rx of node.py looks the time of s up in tx_ts, and stops with  *)
(* a KeyError where it is missing.                                         *)
(***************************************************************************)
TxLineBeforeItsEcho ==
  \A n \in Node :
    uart[n].rx # None =>
      \A e \in uart[n].rx.frame.heard : e.id = n => e.seq <= uart[n].tx

(***************************************************************************)
(* RecentTxKept.  The ring of storage.c holds the transmission time of     *)
(* each of the last BlockSize transmissions in the slot where              *)
(* get_tx_timestamp looks for it.                                          *)
(***************************************************************************)
RecentTxKept ==
  \A n \in Node, s \in Seq :
    s < seq[n] /\ seq[n] <= s + BlockSize => tx_times[n][s % BlockSize] = s

\* The newest transmission of n that has been on the air.
LastOnAir(n) == IF txfrs[n] THEN seq[n] ELSE seq[n] - 1

(***************************************************************************)
(* Swarm!Spec.  The firmware implements LastHeard: whatever frames are     *)
(* lost, damaged, dropped unread or late, received_messages changes only   *)
(* by remembering a newer transmission that was really made by another     *)
(* node, and every node numbers its transmissions without a gap.           *)
(***************************************************************************)
Swarm == INSTANCE LastHeard WITH
           sent <- [n \in Node |-> LastOnAir(n)],
           heard <- [n \in Node |-> [m \in Node |-> table[n][m].seq]]

ImplementsLastHeard == Swarm!Spec

(***************************************************************************)
(* EchoesOnlyGrow.  In the frames of one sender, as one node reports them  *)
(* to its host, the message heard of a third node never becomes an older   *)
(* one and never disappears: node.py searches backwards from the newest.   *)
(***************************************************************************)
EchoesOnlyGrow ==
  [][\A n \in Node :
       LET old == uart[n].rx
           new == uart'[n].rx
       IN  old # None /\ new # old /\ old.frame.sender = new.frame.sender =>
             \A e \in old.frame.heard : \E g \in new.frame.heard :
                g.id = e.id /\ g.seq >= e.seq]_uart

(***************************************************************************)
(* DueIsSent.  When the delayed transmissions are commanded in time, a     *)
(* node whose timer has expired sends the message that is due and reports  *)
(* it: neither reception nor a failed reception holds the loop up.         *)
(***************************************************************************)
DueIsSent ==
  \A n \in Node, s \in Seq :
    timer[n] = "expired" /\ seq[n] = s ~> uart[n].tx >= s

-----------------------------------------------------------------------------
(***************************************************************************)
(* What comments of the sources say and the code does not do.              *)
(***************************************************************************)

(***************************************************************************)
(* ListensWhilePolling.  A node that looks for incoming messages, with     *)
(* none waiting, can receive one.  main.c enables the receiver only at the *)
(* end of send_message(), and one reception switches it off.               *)
(***************************************************************************)
ListensWhilePolling ==
  \A n \in Node :
    pc[n] = "status" /\ seq[n] > 1 /\ ~rxfcg[n] /\ ~rxerr[n] => mode[n] = "rx"

(***************************************************************************)
(* StampsSound.  Every receive timestamp that is stored was taken under    *)
(* the driver's condition for a correct one: the receiver has been reset   *)
(* since the last failed reception.                                        *)
(***************************************************************************)
StampsSound ==
  \A n, m \in Node : table[n][m].rx # None => table[n][m].rx.sound

(***************************************************************************)
(* SendCompletes.  send_message() returns, also when the driver reports    *)
(* that the time of the delayed transmission has passed.                   *)
(***************************************************************************)
SendCompletes == \A n \in Node : pc[n] = "txwait" ~> pc[n] = "status"
=============================================================================
