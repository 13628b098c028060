----------------------------- MODULE MCExchange -----------------------------
(***************************************************************************)
(* The messages of the boards, and what is measured with them, for TLC.    *)
(* A behaviour is one of four: boards in a triangle that range (Ranging),  *)
(* or two of them for longer, or the frames of one board (Messages), until *)
(* its words have wrapped, or with as many participants as a frame has     *)
(* room for.  The variables of the others keep their initial values.       *)
(***************************************************************************)
EXTENDS Ranging, Messages

VARIABLE part  \* "ranging", "pair", "wrap" or "full"

\* Counters that differ, and that wrap at different times.
Starts == [n \in 1..3 |-> 60 * n]

\* 3, 4 and 5: no two pairs are at the same distance.
Flights == [n \in 1..3 |-> [m \in 1..3 |-> IF n = m THEN 0 ELSE n + m]]

\* Two boards that transmit more often.
Pair == INSTANCE Ranging WITH Ids <- {1, 2}, MaxSent <- 6

\* Words are -18..17; numbers about the wrap and one whose bytes differ.
AboutTheWrap == {-18, 0, 1}

SuiteInit ==
  /\ part \in {"ranging", "pair", "wrap", "full"}
  /\ IF part = "pair" THEN Pair!Init ELSE Init
  /\ FramesInit

\* BOUND: until the words have wrapped, two boards are heard, and the buffer is
\* that of send_message; all boards are heard with one number, in the order of
\* their ids, and reported in few messages, which loses no length of a message.
Heard ==
  /\ part = "wrap" => known \subseteq {0, 2} /\ size = BufferLen
  /\ part = "full" => /\ sequence_number <= 3
                      /\ \A m \in known : /\ received_messages[m].seq = 1
                                          /\ \A k \in Id \ {Self} : k < m => k \in known

SuiteNext ==
  \/ part = "ranging" /\ Next /\ UNCHANGED <<part, frames>>
  \/ part = "pair" /\ Pair!Next /\ UNCHANGED <<part, frames>>
  \/ part \in {"wrap", "full"} /\ FramesNext /\ UNCHANGED <<part, vars>>

Suite == SuiteInit /\ [][SuiteNext]_<<part, vars, frames>>

-----------------------------------------------------------------------------
(* The properties are those of Ranging and of Messages. *)
=============================================================================
