---------------------------- MODULE UnityAsserts ----------------------------
(***************************************************************************)
(* The comparisons of lib/unity/src/unity.c: of numbers, arrays of         *)
(* numbers, strings and memory.  An assertion reads elements of fewer bits *)
(* than its own integers, sign-extended whatever their type; it fails with *)
(* the element and the values that differ, or succeeds.                    *)
(*                                                                         *)
(* Elements have Short bits, Unity's integers Wide.                        *)
(***************************************************************************)
EXTENDS Integers, Sequences, SequencesExt

CONSTANTS
  Short, Wide,
  Assertions  \* sets of those that are made; the elements of arrays are bit patterns,
              \* strings are sequences of characters, and pointers may be NULL

VARIABLES
  asserted,  \* an assertion: [kind, expected, actual, n, style, flags, param]
  verdict    \* what it has come to, once it was made

vars == <<asserted, verdict>>

\* A pointer to nothing, which no array or string equals.
NULL == <<-1>>

\* The casts: to a signed integer of some bits, and to UNITY_UINT.
Cast(v, bits) == LET u == v % 2 ^ bits IN IF u >= 2 ^ (bits - 1) THEN u - (2 ^ bits) ELSE u
Uint(v) == v % 2 ^ Wide

\* The decimal digits of n, highest first (UnityPrintNumberUnsigned).
Digits[n \in Nat] == (IF n > 9 THEN Digits[n \div 10] ELSE <<>>) \o <<n % 10>>

\* UnityPrintNumber: the lowest number has no opposite, but is printed as one
\* of UNITY_UINT.
PrintNumber(n) == [minus |-> n < 0, digits |-> Digits[IF n < 0 THEN Uint(-n) ELSE n]]

\* UnityPrintNumberHex: the lowest nibbles of an element, here its lowest bits.
PrintHex(n) == [minus |-> FALSE, digits |-> [i \in 1 .. Short |-> (n \div 2 ^ (Short - i)) % 2]]

\* The bits of a number that are 1.
Ones(n) == {i \in 1 .. Wide : (Uint(n) \div 2 ^ (i - 1)) % 2 = 1}

\* UnityPrintMask: highest bit first, and X for a bit the mask leaves out.
PrintMask(mask, n) ==
  [i \in 1 .. Wide |-> LET bit == Wide + 1 - i
                      IN IF bit \notin Ones(mask) THEN "X"
                         ELSE IF bit \in Ones(n) THEN "1" ELSE "0"]

PrintNumberByStyle(n, style) ==
  CASE style = "INT"  -> PrintNumber(n)
    [] style = "UINT" -> [minus |-> FALSE, digits |-> Digits[Uint(n)]]
    [] style = "HEX"  -> PrintHex(Uint(n))

\* Fault: the sign extension of an unsigned element is printed.
PrintElementExtended(v, style) == PrintNumberByStyle(Cast(v, Short), style)

\* An element in a report: the sign extension of an unsigned one is masked off.
PrintElement(v, style) ==
  LET n == Cast(v, Short)
  IN PrintNumberByStyle(IF style = "UINT" THEN Uint(n) % 2 ^ Short ELSE n, style)

Success == [failed |-> FALSE]
Failure(element, expected, actual) ==
  [failed |-> TRUE, element |-> element, expected |-> expected, actual |-> actual]
Pointless == [failed |-> TRUE, pointless |-> TRUE]
NullPointer == [failed |-> TRUE, null |-> TRUE]

\* What precedes the loop over the elements of an array (with UnityIsOneArrayNull).
Guarded(expected, actual, n, outcome) ==
  IF n = 0 THEN Pointless
  ELSE IF expected = NULL /\ actual = NULL THEN Success
  ELSE IF expected = NULL \/ actual = NULL THEN NullPointer
  ELSE outcome

\* The element an array is compared with: its own, or the one value.
Against(expected, i, flags) == IF flags = "ARRAY_TO_ARRAY" THEN expected[i] ELSE expected[1]

\* A loop over the elements, which ends with the first that differs.
FirstOf(differing, report) == IF differing = {} THEN Success ELSE report[Min(differing)]

\* UnityAssertEqualIntArray.
AssertEqualIntArray(expected, actual, n, style, flags) ==
  Guarded(expected, actual, n,
    FirstOf({i \in 1 .. n : Cast(Against(expected, i, flags), Short) # Cast(actual[i], Short)},
            [i \in 1 .. n |-> Failure(i - 1, PrintElement(Against(expected, i, flags), style),
                                      PrintElement(actual[i], style))]))

\* The distance of two numbers is computed in UNITY_UINT, after they are ordered.
Within(delta, expected, actual, style) ==
  LET above == IF style = "INT" THEN actual > expected ELSE Uint(actual) > Uint(expected)
  IN IF above THEN Uint(actual - expected) <= delta ELSE Uint(expected - actual) <= delta

\* UnityAssertNumbersWithin, of two of Unity's integers.
AssertNumbersWithin(delta, expected, actual, style) ==
  IF Within(delta, expected, actual, style) THEN Success
  ELSE Failure(0, PrintNumberByStyle(expected, style), PrintNumberByStyle(actual, style))

\* UnityAssertNumbersArrayWithin.
AssertNumbersArrayWithin(delta, expected, actual, n, style, flags) ==
  Guarded(expected, actual, n,
    FirstOf({i \in 1 .. n : ~Within(delta, Cast(Against(expected, i, flags), Short),
                                     Cast(actual[i], Short), style)},
            [i \in 1 .. n |-> Failure(i - 1, PrintElement(Against(expected, i, flags), style),
                                      PrintElement(actual[i], style))]))

\* UnityAssertBits, of the bits of a mask.
AssertBits(mask, expected, actual) ==
  IF Ones(mask) \cap Ones(expected) = Ones(mask) \cap Ones(actual) THEN Success
  ELSE Failure(0, PrintMask(mask, expected), PrintMask(mask, actual))

AssertEqualNumber(expected, actual, style) ==
  IF expected = actual THEN Success
  ELSE Failure(0, PrintNumberByStyle(expected, style), PrintNumberByStyle(actual, style))

\* When UnityAssertGreaterOrLessOrEqualNumber fails.
GreaterOrLess(threshold, actual, compare, style) ==
  LET Of(n) == IF style = "INT" THEN n ELSE Uint(n)
  IN \/ threshold = actual /\ "EQUAL" \notin compare
     \/ threshold # actual /\ \/ Of(actual) > Of(threshold) /\ "SMALLER" \in compare
                              \/ Of(actual) < Of(threshold) /\ "GREATER" \in compare

AssertGreaterOrLess(threshold, actual, compare, style) ==
  IF GreaterOrLess(threshold, actual, compare, style)
    THEN Failure(0, PrintNumberByStyle(threshold, style), PrintNumberByStyle(actual, style))
    ELSE Success

\* A string in memory, up to its null character and past it.
At(s, i) == IF i <= Len(s) THEN s[i] ELSE 0

\* UnityAssertEqualString, and UnityAssertEqualStringLen up to a length.
AssertEqualString(expected, actual, length) ==
  IF expected = NULL \/ actual = NULL
    THEN IF expected = actual THEN Success ELSE Failure(0, expected, actual)
    ELSE LET ends == Len(IF Len(expected) > Len(actual) THEN expected ELSE actual)
             compared == 1 .. (IF length < ends THEN length ELSE ends)
         IN FirstOf({i \in compared : At(expected, i) # At(actual, i)},
                    [i \in compared |-> Failure(0, expected, actual)])

Long == 99

\* UnityAssertEqualStringArray: as it compares the strings one after the other.
AssertEqualStringArray(expected, actual, n, flags) ==
  Guarded(expected, actual, n,
    FirstOf({i \in 1 .. n : AssertEqualString(Against(expected, i, flags), actual[i], Long).failed},
            [i \in 1 .. n |-> Failure(i - 1, Against(expected, i, flags), actual[i])]))

\* UnityAssertEqualMemory, of elements of length bytes; the bytes of a value are
\* compared with those of each element.
AssertEqualMemory(expected, actual, length, n, flags) ==
  LET Byte(i) == IF flags = "ARRAY_TO_VAL" THEN expected[((i - 1) % length) + 1] ELSE expected[i]
  IN Guarded(expected, actual, n * length,
       FirstOf({i \in 1 .. n * length : Byte(i) # actual[i]},
               [i \in 1 .. n * length |->
                  Failure((i - 1) \div length, PrintHex(Byte(i)), PrintHex(actual[i]))]))

Outcome(a) ==
  CASE a.kind = "EqualIntArray" ->
         AssertEqualIntArray(a.expected, a.actual, a.n, a.style, a.flags)
    [] a.kind = "NumbersArrayWithin" ->
         AssertNumbersArrayWithin(a.param, a.expected, a.actual, a.n, a.style, a.flags)
    [] a.kind = "NumbersWithin"    -> AssertNumbersWithin(a.param, a.expected, a.actual, a.style)
    [] a.kind = "Bits"             -> AssertBits(a.param, a.expected, a.actual)
    [] a.kind = "EqualNumber"      -> AssertEqualNumber(a.expected, a.actual, a.style)
    [] a.kind = "GreaterOrLess"    -> AssertGreaterOrLess(a.expected, a.actual, a.param, a.style)
    [] a.kind = "EqualString"      -> AssertEqualString(a.expected, a.actual, a.param)
    [] a.kind = "EqualStringArray" -> AssertEqualStringArray(a.expected, a.actual, a.n, a.flags)
    [] a.kind = "EqualMemory"      -> AssertEqualMemory(a.expected, a.actual, a.param, a.n, a.flags)

Init == (\E n \in DOMAIN Assertions : asserted \in Assertions[n]) /\ verdict = <<>>

Evaluate ==
  /\ verdict = <<>>
  /\ verdict' = <<Outcome(asserted)>>
  /\ UNCHANGED asserted

Next == Evaluate

Spec == Init /\ [][Next]_vars
-----------------------------------------------------------------------------
\* What a bit pattern means in its type, and a report says.
Meaning(v, style) == IF style = "INT" THEN Cast(v, Short) ELSE v
Meant(n, style) == IF style = "INT" THEN n ELSE Uint(n)
Said(p, base) ==
  (IF p.minus THEN -1 ELSE 1) * FoldLeft(LAMBDA n, d : (n * base) + d, 0, p.digits)
Distance(x, y) == IF x > y THEN x - y ELSE y - x

\* The elements of an array that differ, by more than a delta.
Differing(a, delta) ==
  {i \in 1 .. a.n : Distance(Meaning(Against(a.expected, i, a.flags), a.style),
                             Meaning(a.actual[i], a.style)) > delta}

\* Elements whose sign bits agree, where extending them changes no distance.
SameSign(a) ==
  \A i \in 1 .. a.n :
    (Against(a.expected, i, a.flags) >= 2 ^ (Short - 1)) = (a.actual[i] >= 2 ^ (Short - 1))

RightArray(a, delta, v) ==
  LET D    == Differing(a, delta)
      base == IF a.style = "HEX" THEN 2 ELSE 10
      i    == v.element + 1
  IN IF D = {} THEN ~v.failed
     ELSE /\ v.failed /\ i \in D /\ \A j \in D : i <= j
          /\ Said(v.expected, base) = Meaning(Against(a.expected, i, a.flags), a.style)
          /\ Said(v.actual, base) = Meaning(a.actual[i], a.style)

\* An assertion fails exactly if what it compares differs, names the first
\* element that does, and prints both values as those of its type: signed,
\* unsigned or hexadecimal, although all are read as signed ones.
VerdictsRight ==
  verdict # <<>> =>
    LET a    == asserted
        v    == verdict[1]
        null == /\ a.kind \notin {"NumbersWithin", "GreaterOrLess", "Bits", "EqualNumber"}
                /\ a.expected = NULL \/ a.actual = NULL
    IN
     CASE a.n = 0 -> v.failed
       [] a.n > 0 /\ null -> v.failed = (a.expected # a.actual)
       [] a.n > 0 /\ ~null /\ a.kind = "EqualIntArray" -> RightArray(a, 0, v)
       [] a.n > 0 /\ ~null /\ a.kind = "NumbersArrayWithin" ->
            a.style = "INT" \/ SameSign(a) => RightArray(a, a.param, v)
       [] a.kind = "NumbersWithin" /\ a.style = "INT" ->
            v.failed = (Distance(a.expected, a.actual) > a.param)
       [] a.kind = "NumbersWithin" /\ a.style = "UINT" ->
            v.failed = (Distance(Uint(a.expected), Uint(a.actual)) > a.param)
       [] a.kind = "EqualNumber" ->
            /\ v.failed = (a.expected # a.actual)
            /\ v.failed => /\ Said(v.expected, 10) = Meant(a.expected, a.style)
                           /\ Said(v.actual, 10) = Meant(a.actual, a.style)
       [] a.kind = "Bits" ->
            LET masked(n) == {i \in 0 .. Wide - 1 : (Uint(n) \div 2 ^ i) % 2 = 1
                                                   /\ (Uint(a.param) \div 2 ^ i) % 2 = 1}
            IN /\ v.failed = (masked(a.expected) # masked(a.actual))
               /\ v.failed => v.expected # v.actual
       [] a.kind = "GreaterOrLess" ->
            LET x == IF a.style = "INT" THEN a.expected ELSE Uint(a.expected)
                y == IF a.style = "INT" THEN a.actual ELSE Uint(a.actual)
            IN v.failed = (CASE a.param = {}          -> x = y
                            [] a.param = {"GREATER"} -> y <= x
                            [] a.param = {"SMALLER"} -> y >= x
                            [] a.param = {"GREATER", "EQUAL"} -> y < x
                            [] a.param = {"SMALLER", "EQUAL"} -> y > x)
       [] a.n > 0 /\ ~null /\ a.kind = "EqualString" ->
            LET Cut(t) == SubSeq(t, 1, IF a.param < Len(t) THEN a.param ELSE Len(t))
            IN v.failed = (Cut(a.expected) # Cut(a.actual))
       [] a.n > 0 /\ ~null /\ a.kind = "EqualStringArray" ->
            v.failed = (\E i \in 1 .. a.n : Against(a.expected, i, a.flags) # a.actual[i])
       [] a.n > 0 /\ ~null /\ a.kind = "EqualMemory" ->
            LET Element(m, i) == SubSeq(m, ((i - 1) * a.param) + 1, i * a.param)
                Of(i) == IF a.flags = "ARRAY_TO_VAL" THEN 1 ELSE i
            IN v.failed =
                 (\E i \in 1 .. a.n : Element(a.expected, Of(i)) # Element(a.actual, i))
=============================================================================
