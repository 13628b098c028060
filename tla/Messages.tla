------------------------------ MODULE Messages ------------------------------
(***************************************************************************)
(* The frames of src/antenna/messages.c byte by byte, the table they are   *)
(* built from and the ring of storage.c, on one board that hears others    *)
(* and transmits: widths, offsets and bounds, over any number of           *)
(* transmissions.                                                          *)
(*                                                                         *)
(* A byte has Radix values, 256 in the source.  A sequence number or an id *)
(* is two bytes, a timestamp five; with a small Radix the 16-bit numbers   *)
(* wrap after a few transmissions instead of 32767.                        *)
(***************************************************************************)
EXTENDS Integers, Sequences, SequencesExt, FiniteSets

CONSTANTS
  Radix,         \* values of a byte
  Participants,  \* CONFIG_NUM_PARTICIPANTS
  Self,          \* self.id
  BlockSize,     \* TX_TIMESTAMP_BLOCKSIZE
  NumMax,        \* CONFIG_NUM_MAX_TIMESTAMPS
  Sizes,         \* values of message_buffer_size besides that of send_message
  Times,         \* the timestamps that occur
  Numbers        \* the sequence numbers the other boards use

VARIABLES
  received_messages,  \* sequence number and time of each id
  known,     \* ids a message has been received of
  sequence_number,    \* of self
  slot,      \* the index set_tx_timestamp wrote last
  sent,      \* the bytes of the last message, as construct_message wrote them
  said,      \* what the last message was built from
  size       \* message_buffer_size of the last message

frames == <<received_messages, known, sequence_number, slot, sent, said, size>>

Byte == 0..(Radix - 1)
Id == 0..(Participants - 1)
Word == Radix * Radix

\* The values of an int16_t.
Int16s == {x \in -Word .. Word : -Word <= 2 * x /\ 2 * x < Word}

ASSUME RadixAssumption == Radix \in Nat /\ Radix > 1
ASSUME ParticipantsAssumption == Participants \in Nat /\ Self \in Id /\ Id \subseteq Int16s
ASSUME SizesAssumption == Sizes \subseteq Nat
ASSUME TimesAssumption == Times \subseteq 0 .. (Word * Word * Radix - 1)
ASSUME NumbersAssumption == Numbers \subseteq Int16s

\* sequence_number_t and ranging_id_t are int16_t.
Int16(x) == LET w == x % Word IN IF 2 * w >= Word THEN w - Word ELSE w

\* x & 0xFF, (x >> 8) & 0xFF and back.
WordBytes(x) == <<x % Radix, (x \div Radix) % Radix>>
BytesWord(b, i) == Int16(b[i] + b[i + 1] * Radix)

\* Fault: the most significant byte is not written.
WriteTimestampShort(t) ==
  LET t1 == t \div Radix  t2 == t1 \div Radix  t3 == t2 \div Radix
  IN  <<0, t3 % Radix, t2 % Radix, t1 % Radix, t % Radix>>

\* message_write_timestamp: most significant byte first.
WriteTimestamp(t) ==
  LET t1 == t \div Radix  t2 == t1 \div Radix  t3 == t2 \div Radix  t4 == t3 \div Radix
  IN  <<t4 % Radix, t3 % Radix, t2 % Radix, t1 % Radix, t % Radix>>

\* message_read_timestamp of the bytes of b behind index i.
ReadTimestamp(b, i) ==
  (((b[i+1] * Radix + b[i+2]) * Radix + b[i+3]) * Radix + b[i+4]) * Radix + b[i+5]

\* message_definition.h.  Index k of the C array is b[k + 1].
SequenceIdx == 5
SenderIdx == 7
TxTimestampIdx == 9
TimestampSize == 5
RxTimestampOffset == TxTimestampIdx + TimestampSize
RxTimestampSize == TimestampSize + 4

\* Fault: room for the elements only.
BufferLenElements == Participants * RxTimestampSize

\* message_buffer_len of send_message.
BufferLen == TxTimestampIdx + TimestampSize + Participants * RxTimestampSize + 12

-----------------------------------------------------------------------------
\* Fault: unused elements are sent too.
UsedAll == [i \in 1..Participants |-> i - 1]

\* The used elements of received_messages, by id: j of them are not behind the j-th.
UsedIds == {m \in Id : received_messages[m].seq # 0}
UsedAt(j) == CHOOSE m \in UsedIds : Cardinality({k \in UsedIds : k <= m}) = j
Used == [j \in 1..Cardinality(UsedIds) |-> UsedAt(j)]

\* How many of n elements pass the check of the buffer's size.
Fitting(n, bytes) ==
  Cardinality({j \in 0..(n - 1) : RxTimestampOffset + RxTimestampSize * j + 2 + 1 < bytes})

\* Frame control and PAN id, constants that nobody here reads, about byte 2,
\* which nobody writes.
Header(junk) == <<0, 0, junk, 0, 0>>

\* The first RxTimestampOffset bytes, and those of an element.
Fields(s, m, tx, junk) == Header(junk) \o WordBytes(s) \o WordBytes(m) \o WriteTimestamp(tx)
Element(m, s, rx) == WordBytes(m) \o WordBytes(s) \o WriteTimestamp(rx)

\* construct_message: element j is written at RxTimestampOffset + RxTimestampSize * j.
Construct(tx, bytes, junk) ==
  LET used == Used
      element(j) == Element(used[j], received_messages[used[j]].seq, received_messages[used[j]].rx)
      at(k) == k - RxTimestampOffset - 1
  IN  [k \in 1..(RxTimestampOffset + RxTimestampSize * Fitting(Len(used), bytes)) |->
         IF k <= RxTimestampOffset THEN Fields(sequence_number, Self, tx, junk)[k]
         ELSE element((at(k) \div RxTimestampSize) + 1)[(at(k) % RxTimestampSize) + 1]]

\* rx_info.timestamps_len, for frames of at least RxTimestampOffset bytes.
TimestampsLen(len) == (len - RxTimestampOffset) \div RxTimestampSize

\* analyse_message of the len bytes of b.
Analyse(b, len) ==
  [sender |-> BytesWord(b, SenderIdx + 1),
   seq |-> BytesWord(b, SequenceIdx + 1),
   tx |-> ReadTimestamp(b, TxTimestampIdx),
   echoes |-> [j \in 1..TimestampsLen(len) |->
                 LET i == RxTimestampOffset + (j - 1) * RxTimestampSize
                 IN  [id |-> BytesWord(b, i + 1), seq |-> BytesWord(b, i + 3),
                      rx |-> ReadTimestamp(b, i + 4)]]]

\* dwt_writetxdata: what the transceiver's buffer takes of b, without the two
\* bytes of the checksum.
WriteTxData(txFrameLength, b) ==
  IF txFrameLength <= 1024 THEN SubSeq(b, 1, txFrameLength - 2) ELSE <<>>

\* send_message adds two bytes to the length, for the transceiver's checksum.
OnAir(b) == WriteTxData(Len(b) + 2, b) \o <<0, 0>>

\* What a message is to say about the others.
Known ==
  LET used == Used
  IN  [j \in DOMAIN used |-> [id |-> used[j], seq |-> received_messages[used[j]].seq,
                              rx |-> received_messages[used[j]].rx]]

-----------------------------------------------------------------------------
NoMessage == [sender |-> Self, seq |-> 0, tx |-> 0, echoes |-> <<>>]

FramesInit ==
  /\ received_messages = [m \in Id |-> [seq |-> 0, rx |-> 0]]
  /\ known = {}
  /\ sequence_number = 1
  /\ slot = 0
  /\ sent = <<>>
  /\ said = NoMessage
  /\ size = BufferLen

(***************************************************************************)
(* check_received_messages: a frame of m is analysed and its number and    *)
(* time are stored.  m follows the same code: its number is any int16_t.   *)
(***************************************************************************)
Receive(m, s, t) ==
  LET frame == OnAir(Fields(s, m, t, 0))
      info == Analyse(frame, Len(frame))
  IN  /\ received_messages' =
           [received_messages EXCEPT ![info.sender] = [seq |-> info.seq, rx |-> t]]
      /\ known' = known \cup {m}
      /\ UNCHANGED <<sequence_number, slot, sent, said, size>>

\* C's remainder has the sign of the dividend.
CRemainder(a, b) == IF a >= 0 THEN a % b ELSE -((-a) % b)

\* set_tx_timestamp: the slot it writes.
SetTxTimestamp(s) == slot' = CRemainder(s, BlockSize)

\* send_message with a transmission time of t, and sequence_number++.
Send(t, bytes, junk) ==
  /\ sent' = Construct(t, bytes, junk)
  /\ said' = [sender |-> Self, seq |-> sequence_number, tx |-> t, echoes |-> Known]
  /\ size' = bytes
  /\ SetTxTimestamp(sequence_number)
  /\ sequence_number' = Int16(sequence_number + 1)
  /\ UNCHANGED <<received_messages, known>>

FramesNext ==
  \/ \E m \in Id \ {Self}, s \in Numbers, t \in Times : Receive(m, s, t)
  \/ \E t \in Times, bytes \in Sizes \cup {BufferLen}, junk \in {0, Radix - 1} :
       Send(t, bytes, junk)

FramesSpec == FramesInit /\ [][FramesNext]_frames

-----------------------------------------------------------------------------
(***************************************************************************)
(* RoundTrip.  Whatever has been heard, and with numbers on either side of *)
(* the wrap, analyse_message finds in the frame, with its checksum, what   *)
(* construct_message was given: all of it in the buffer send_message       *)
(* provides, the first elements of it in a smaller one.                    *)
(***************************************************************************)
RoundTrip ==
  sent # <<>> =>
    LET info == Analyse(OnAir(sent), Len(sent) + 2)
    IN  /\ [info EXCEPT !.echoes = said.echoes] = said
        /\ IsPrefix(info.echoes, said.echoes)
        /\ size = BufferLen => info = said

(***************************************************************************)
(* SizeRespected.  construct_message writes no byte behind the buffer of   *)
(* send_message, however many boards were heard.  Its check looks at the   *)
(* first four of the nine bytes of an element, and does not ensure it.     *)
(***************************************************************************)
SizeRespected == size = BufferLen => Len(sent) <= size

(***************************************************************************)
(* FrameFits.  The frame and its checksum are within the 127 bytes of a    *)
(* frame without DWT_PHRMODE_EXT, which is how main.c configures the       *)
(* transceiver and what dwt_writetxdata asserts.                           *)
(***************************************************************************)
FrameFits == Len(OnAir(sent)) <= 127

-----------------------------------------------------------------------------
(***************************************************************************)
(* What comments of the sources say and the code does not do.              *)
(***************************************************************************)

(***************************************************************************)
(* SizeKept.  construct_message writes no byte behind the buffer it was    *)
(* given, of whatever size.                                                *)
(***************************************************************************)
SizeKept == Len(sent) <= size

(***************************************************************************)
(* KnownIsSent.  The next message says of every board that was heard when  *)
(* its message arrived.  An element whose number is 0 counts as unused,    *)
(* and after the wrap of int16_t 0 is a number like any other.             *)
(***************************************************************************)
KnownIsSent == known \subseteq ToSet(Used)

(***************************************************************************)
(* SlotInRing.  set_tx_timestamp writes to a slot of tx_timestamps.  The   *)
(* remainder of a negative number is negative.                             *)
(***************************************************************************)
SlotInRing == slot \in 0..(BlockSize - 1)

(***************************************************************************)
(* UpperBoundKept.  NUM_MAX_TIMESTAMPS bounds the timestamps of a message. *)
(* No code reads it.                                                       *)
(***************************************************************************)
UpperBoundKept ==
  sent # <<>> => Len(Analyse(OnAir(sent), Len(sent) + 2).echoes) <= NumMax
=============================================================================
