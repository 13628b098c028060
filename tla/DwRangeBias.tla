---------------------------- MODULE DwRangeBias ----------------------------
(***************************************************************************)
(* The correction of a range (lib/platform/deca_range_tables.c): a table   *)
(* for each frequency of the pulses and width of the channel, with a row   *)
(* for each channel, holds for each centimetre of correction up to which   *)
(* range, in units of 25 cm, it applies.                                   *)
(***************************************************************************)
EXTENDS Integers, Sequences, FiniteSetsExt

CONSTANTS
  Starts,         \* the ranges to begin with, in centimetres
  Step, Farthest  \* by how much a range grows, and how far

VARIABLES
  chan, prf,  \* the channel and "16M" or "64M"
  range,      \* the range that is corrected, in centimetres
  at          \* the index of the correction in the row

vars == <<chan, prf, range, at>>

range25cm16PRFnb ==
  <<<<1, 3, 4, 5, 7, 9, 11, 12, 13, 15, 18, 20, 23, 25, 28, 30, 33, 36, 40,
      43, 47, 50, 54, 58, 63, 66, 71, 76, 82, 89, 98, 109, 127, 155, 222,
      255, 255>>,
    <<1, 2, 4, 5, 6, 8, 9, 10, 12, 13, 15, 18, 20, 22, 24, 27, 29, 32, 35,
      38, 41, 44, 47, 51, 55, 58, 62, 66, 71, 78, 85, 96, 111, 135, 194, 240,
      255>>,
    <<1, 2, 3, 4, 5, 7, 8, 9, 10, 12, 14, 16, 18, 20, 22, 24, 26, 28, 31, 33,
      36, 39, 42, 45, 49, 52, 55, 59, 63, 69, 76, 85, 98, 120, 173, 213, 255>>,
    <<1, 1, 2, 3, 4, 5, 6, 6, 7, 8, 9, 11, 12, 14, 15, 16, 18, 20, 21, 23,
      25, 27, 29, 31, 34, 36, 38, 41, 44, 48, 53, 59, 68, 83, 120, 148, 255>>>>

range25cm16PRFwb ==
  <<<<7, 7, 8, 9, 9, 10, 11, 11, 12, 13, 14, 15, 16, 17, 18, 19, 20, 21, 22,
      23, 24, 26, 27, 28, 30, 31, 32, 34, 36, 38, 40, 42, 44, 46, 48, 50, 52,
      55, 57, 59, 61, 63, 66, 68, 71, 74, 78, 81, 85, 89, 94, 99, 104, 110,
      116, 123, 130, 139, 150, 164, 182, 207, 238, 255, 255, 255, 255, 255>>,
    <<4, 5, 5, 5, 6, 6, 7, 7, 7, 8, 9, 9, 10, 10, 11, 11, 12, 13, 13, 14, 15,
      16, 17, 17, 18, 19, 20, 21, 22, 23, 25, 26, 27, 29, 30, 31, 32, 34, 35,
      36, 38, 39, 40, 42, 44, 46, 48, 50, 52, 55, 58, 61, 64, 68, 72, 75, 80,
      85, 92, 101, 112, 127, 147, 168, 182, 194, 205, 255>>>>

range25cm64PRFnb ==
  <<<<1, 2, 2, 3, 4, 5, 7, 10, 13, 16, 19, 22, 24, 27, 30, 32, 35, 38, 43,
      48, 56, 78, 101, 120, 157, 255>>,
    <<1, 2, 2, 3, 4, 4, 6, 9, 12, 14, 17, 19, 21, 24, 26, 28, 31, 33, 37, 42,
      49, 68, 89, 105, 138, 255>>,
    <<1, 1, 2, 3, 3, 4, 5, 8, 10, 13, 15, 17, 19, 21, 23, 25, 27, 30, 33, 37,
      44, 60, 79, 93, 122, 255>>,
    <<1, 1, 1, 2, 2, 3, 4, 6, 7, 9, 10, 12, 13, 15, 16, 17, 19, 21, 23, 26,
      30, 42, 55, 65, 85, 255>>>>

range25cm64PRFwb ==
  <<<<7, 8, 8, 9, 9, 10, 11, 12, 13, 13, 14, 15, 16, 16, 17, 18, 19, 19, 20,
      21, 22, 24, 25, 27, 28, 29, 30, 32, 33, 34, 35, 37, 39, 41, 43, 45, 48,
      50, 53, 56, 60, 64, 68, 74, 81, 89, 98, 109, 122, 136, 146, 154, 162,
      178, 220, 249, 255, 255, 255>>,
    <<4, 5, 5, 5, 6, 6, 7, 7, 8, 8, 9, 9, 10, 10, 10, 11, 11, 12, 13, 13, 14,
      15, 16, 16, 17, 18, 19, 19, 20, 21, 22, 23, 24, 25, 26, 28, 29, 31, 33,
      35, 37, 39, 42, 46, 50, 54, 60, 67, 75, 83, 90, 95, 100, 110, 135, 153,
      172, 192, 255>>>>

chan_idxnb == <<0, 1, 2, 0, 3, 0, 0>>
chan_idxwb == <<0, 0, 0, 0, 0, 0, 1>>

Wide(c) == c \in {4, 7}

Row(c, p) ==
  CASE Wide(c) /\ p = "16M"  -> range25cm16PRFwb[chan_idxwb[c] + 1]
    [] ~Wide(c) /\ p = "16M" -> range25cm16PRFnb[chan_idxnb[c] + 1]
    [] Wide(c) /\ p = "64M"  -> range25cm64PRFwb[chan_idxwb[c] + 1]
    [] ~Wide(c) /\ p = "64M" -> range25cm64PRFnb[chan_idxnb[c] + 1]

\* The conversion to int rounds towards zero.
Quarters(r) == Min({255, IF r < 0 THEN -(-r \div 25) ELSE r \div 25})

\* Fault: the entry that is equal to the range is passed.
IndexPast(row, r) ==
  Min({i \in 0 .. Len(row) : i = Len(row) \/ Quarters(r) < row[i + 1]})

\* The first entry not below the range; Len(row) is past the end of the row.
Index(row, r) ==
  Min({i \in 0 .. Len(row) : i = Len(row) \/ Quarters(r) <= row[i + 1]})

\* In centimetres.
Bias(c, p, i) ==
  i + (CASE Wide(c) /\ p = "16M"  -> -28
         [] ~Wide(c) /\ p = "16M" -> -23
         [] Wide(c) /\ p = "64M"  -> -30
         [] ~Wide(c) /\ p = "64M" -> -17)

Init ==
  /\ chan \in 1 .. 7
  /\ prf \in {"16M", "64M"}
  /\ range \in Starts
  /\ at = Index(Row(chan, prf), range)

\* dwt_getrangebias at a range somewhat farther than the last.
GetRangeBias ==
  /\ range < Farthest
  /\ range' = range + Step
  /\ at' = Index(Row(chan, prf), range')
  /\ UNCHANGED <<chan, prf>>

Next == GetRangeBias

Spec == Init /\ [][Next]_vars
-----------------------------------------------------------------------------
\* The search for a correction ends within the row of every channel, at any
\* range, and the ranges so corrected keep their order: the correction never
\* falls, and grows by less than the range has grown.
BiasInTable ==
  [][ /\ at' < Len(Row(chan, prf))
      /\ Bias(chan, prf, at') - Bias(chan, prf, at) \in 0 .. Step - 1 ]_vars
=============================================================================
