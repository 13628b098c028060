------------------------------ MODULE MCEvents ------------------------------
(***************************************************************************)
(* What happens in an order nobody chooses, for TLC: events of a           *)
(* transceiver and the interrupt routine that reports them (DwIsr), or     *)
(* lines of two boards that a host reads with timeouts (HostMain).  A      *)
(* behaviour is one of a transceiver in one of three modes, or one of the  *)
(* host; the variables of the other keep their initial values.             *)
(***************************************************************************)
EXTENDS DwIsr, HostMain

VARIABLE part  \* "double", "ack", "late" or "host"

\* A line of JSON is an object with "id" and "tx range" or "rx range"; the
\* latter's keys are what host_interface.c writes into it.
TxLine(b) == [json |-> TRUE, id |-> b, range |-> [seq_num |-> 1, tx_time |-> 10]]
RxLine(b) == [json |-> TRUE, id |-> b,
              range |-> [sender_id |-> 3 - b, seq_num |-> 1, rx_time |-> 12,
                         tx_time |-> 10, timestamps |-> <<>>]]
LogLine == [json |-> FALSE, range |-> <<>>]

TwoBoards == <<1, 2>>

LinesOfBoth == <<<<TxLine(1), LogLine, RxLine(1)>>, <<LogLine, RxLine(2), TxLine(2)>>>>

\* Acknowledgements, with events that are reported before the next occurs.
Ack == INSTANCE DwIsr WITH
  DoubleBuffer <- FALSE, AutoAck <- TRUE, Edge <- FALSE, Answers <- FALSE, Prompt <- TRUE,
  MaxFrames <- 4, MaxTx <- 4

\* No acknowledgements, and events that occur at any time.
Late == INSTANCE DwIsr WITH
  DoubleBuffer <- FALSE, AutoAck <- FALSE, Edge <- FALSE, Answers <- FALSE, Prompt <- FALSE,
  MaxFrames <- 4, MaxTx <- 4

SuiteInit ==
  /\ part \in {"double", "ack", "late", "host"}
  /\ Init
  /\ HostInit

\* The mode of Events.cfg: two receive buffers, and events that occur at any
\* time.
SuiteNext ==
  \/ part = "double" /\ Next /\ UNCHANGED <<part, hostvars>>
  \/ part = "ack" /\ Ack!Next /\ UNCHANGED <<part, hostvars>>
  \/ part = "late" /\ Late!Next /\ UNCHANGED <<part, hostvars>>
  \/ part = "host" /\ HostNext /\ UNCHANGED <<part, vars>>

\* The fairness of DwIsr and of HostMain.
Suite ==
  /\ SuiteInit
  /\ [][SuiteNext]_<<part, vars, hostvars>>
  /\ WF_vars(part = "double" /\ Isr /\ Latch)
  /\ WF_vars(part = "double" /\ Transmitted /\ Latch)
  /\ WF_vars(part = "ack" /\ Ack!Isr /\ Ack!Latch)
  /\ WF_vars(part = "ack" /\ Ack!Transmitted /\ Ack!Latch)
  /\ WF_vars(part = "late" /\ Late!Isr /\ Late!Latch)
  /\ WF_vars(part = "late" /\ Late!Transmitted /\ Late!Latch)
  /\ WF_hostvars(part = "host" /\ Loop)
=============================================================================
