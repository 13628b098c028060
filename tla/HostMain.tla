------------------------------ MODULE HostMain ------------------------------
(***************************************************************************)
(* The host's loop, src/host/main.py, and the serial lines it reads.       *)
(*                                                                         *)
(* A board writes a line in two pieces, the second of which ends with the  *)
(* newline; a timeout of readline() may fall between them.  A line is what *)
(* process_in_message or process_out_message wrote, or a line of the       *)
(* board's log, which is not JSON.                                         *)
(***************************************************************************)
EXTENDS Integers, Sequences, SequencesExt, FiniteSets

CONSTANTS
  Connections,  \* the list connections: the ids of the nodes
  Lines         \* BOUND: Lines[b]: the lines board b writes

\* connect() returns a list of three.
ASSUME ConnectionsAssumption == Connections \in Seq(Nat) \ {<<>>}

ASSUME LinesAssumption == \A b \in ToSet(Connections) : Len(Lines[b]) \in Nat

Boards == ToSet(Connections)

VARIABLES
  written,    \* per board, the pieces it has written
  port,       \* per board, the pieces that have not been read
  turn,       \* which of connections is read next
  eval_file,  \* the lines written to evaluation.txt: board and number
  stored,     \* per node, the numbers of the lines whose times it has stored
  cut,        \* per board, the lines of which readline() returned a part
  running     \* has no exception left the loop?

hostvars == <<written, port, turn, eval_file, stored, cut, running>>

HostInit ==
  /\ written = [b \in Boards |-> 0]
  /\ port = [b \in Boards |-> <<>>]
  /\ turn = 1
  /\ eval_file = <<>>
  /\ stored = [b \in Boards |-> {}]
  /\ cut = [b \in Boards |-> {}]
  /\ running = TRUE

\* Piece 2 * i - 1 is the first of line i, piece 2 * i the second.
LineOf(piece) == (piece + 1) \div 2
EndsLine(piece) == piece % 2 = 0

\* uart_out
Write(b) ==
  /\ written[b] < 2 * Len(Lines[b])
  /\ written' = [written EXCEPT ![b] = @ + 1]
  /\ port' = [port EXCEPT ![b] = Append(@, written[b] + 1)]
  /\ UNCHANGED <<turn, eval_file, stored, cut, running>>

\* Fault: what was read before the timeout is not checked.
DecodesAny(pieces) == pieces # <<>>

\* Is what readline() returned a line and nothing else?  Anything else is not
\* JSON.
Decodes(pieces) == Len(pieces) = 2 /\ ~EndsLine(pieces[1])

\* The dictionary handed to evaluate_rx or evaluate_tx.
Argument(line) == line.range

\* evaluate_rx and evaluate_tx begin with an assertion on message["id"].
KeyError(message) == "id" \notin DOMAIN message
AssertionError(message, b) == ~KeyError(message) /\ message.id # b

(***************************************************************************)
(* The body of the inner loop for node b, readline() having returned       *)
(* pieces.  JSONDecodeError and KeyError are caught, AssertionError is not.*)
(***************************************************************************)
Process(b, pieces) ==
  LET i == LineOf(pieces[1])
      line == Lines[b][i]
      message == Argument(line)
  IN  IF Decodes(pieces) /\ line.json
        THEN /\ eval_file' = Append(eval_file, <<b, i>>)
             /\ running' = ~AssertionError(message, b)
             /\ stored' = IF KeyError(message) \/ AssertionError(message, b)
                            THEN stored
                            ELSE [stored EXCEPT ![b] = @ \cup {i}]
             /\ UNCHANGED cut
        ELSE /\ cut' = IF Decodes(pieces) THEN cut
                       ELSE [cut EXCEPT ![b] = @ \cup {LineOf(p) : p \in ToSet(pieces)}]
             /\ UNCHANGED <<eval_file, stored, running>>

Advance == turn' = (turn % Len(Connections)) + 1

\* readline() finds a newline.
ReadLine ==
  LET b == Connections[turn]
      end == SelectInSeq(port[b], EndsLine)
  IN  /\ running
      /\ end # 0
      /\ Process(b, SubSeq(port[b], 1, end))
      /\ port' = [port EXCEPT ![b] = SubSeq(@, end + 1, Len(@))]
      /\ Advance
      /\ UNCHANGED written

\* Fault: the loop stays with a connection that was silent.
ReadTimeoutStay ==
  LET b == Connections[turn]
  IN  /\ running
      /\ SelectInSeq(port[b], EndsLine) = 0
      /\ Process(b, port[b])
      /\ port' = [port EXCEPT ![b] = <<>>]
      /\ UNCHANGED <<written, turn>>

\* readline() returns after a second without one.
ReadTimeout ==
  LET b == Connections[turn]
  IN  /\ running
      /\ SelectInSeq(port[b], EndsLine) = 0
      /\ Process(b, port[b])
      /\ port' = [port EXCEPT ![b] = <<>>]
      /\ Advance
      /\ UNCHANGED written

Loop == ReadLine \/ ReadTimeout

HostNext == (\E b \in Boards : Write(b)) \/ Loop

HostSpec == HostInit /\ [][HostNext]_hostvars

\* readline() has a timeout, so that every round of the loop ends; nothing is
\* assumed of the boards.
HostFairSpec == HostSpec /\ WF_hostvars(Loop)

-----------------------------------------------------------------------------
(***************************************************************************)
(* RecordedInOrder.  However the lines of several boards and the timeouts  *)
(* fall, the file has whole lines of each board, each once and in their    *)
(* order: evaluate_static relies on a transmission standing before its     *)
(* echo.                                                                   *)
(***************************************************************************)
RecordedInOrder ==
  \A j \in DOMAIN eval_file :
    LET b == eval_file[j][1]
        line == eval_file[j][2]
    IN  /\ \A i \in 1 .. j - 1 : eval_file[i][1] = b => eval_file[i][2] < line
        /\ line \notin cut[b]

(***************************************************************************)
(* WrittenIsRecorded.  A JSON line that a board has written is recorded,   *)
(* unless a timeout cut it: neither silent boards nor cut lines or logs    *)
(* hold the loop up, and no exception ends it.                             *)
(***************************************************************************)
WrittenIsRecorded ==
  \A b \in Boards : \A i \in DOMAIN Lines[b] :
    written[b] = 2 * i /\ Lines[b][i].json ~>
      i \in cut[b] \/ <<b, i>> \in ToSet(eval_file)

-----------------------------------------------------------------------------
(***************************************************************************)
(* What comments of the sources say and the code does not do.              *)
(***************************************************************************)

(***************************************************************************)
(* RangingIsFed.  The times of every line that was read are stored by the  *)
(* node, which ranges with them.  The node is handed the inner dictionary, *)
(* where there is no "id".                                                 *)
(***************************************************************************)
RangingIsFed == \A entry \in ToSet(eval_file) : entry[2] \in stored[entry[1]]
=============================================================================
