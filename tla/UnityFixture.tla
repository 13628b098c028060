---------------------------- MODULE UnityFixture ----------------------------
(***************************************************************************)
(* How the unit tests of the firmware are run (lib/unity/src/unity.c and   *)
(* extras/fixture/src/unity_fixture.c).  A test is a set-up, a body and a  *)
(* tear-down; an assertion that fails, a test that gives up or one that    *)
(* declares itself passed jumps out of the part it is in, by longjmp, to   *)
(* the next.  Afterwards the pointers the test has replaced are put back   *)
(* and the test is counted.  The workflow of the repository looks for      *)
(* "0 Failures" in what the runner prints.                                 *)
(***************************************************************************)
EXTENDS Naturals, Sequences, SequencesExt

CONSTANTS
  Pointers, Targets,
  MaxPointers,   \* UNITY_MAX_POINTERS
  MaxTests       \* how many tests a group runs

ASSUME TargetsAssumption == Targets # {}

VARIABLES
  part,     \* "idle", "setup", "body", "teardown", "undo" or "ended"
  Unity,    \* [CurrentTestFailed, CurrentTestIgnored, NumberOfTests, TestFailures,
            \*  TestIgnores]
  pointer,  \* what each pointer of the program points to
  pointer_store,  \* [pointer, old_value], in the order of UnityPointer_Set
  printed,  \* the number of failures UnityEnd has printed
  first,    \* history: what has decided the test that runs: "none", "fail", "ignore"
  decided   \* history: how many tests were decided in which way

fixturevars == <<part, Unity, pointer, pointer_store, printed, first, decided>>

Original == CHOOSE v \in Targets : TRUE
Decisions == {"none", "fail", "ignore"}

FixtureInit ==
  /\ part = "idle"
  /\ Unity = [CurrentTestFailed |-> FALSE, CurrentTestIgnored |-> FALSE, NumberOfTests |-> 0,
              TestFailures |-> 0, TestIgnores |-> 0]
  /\ pointer = [p \in Pointers |-> Original]
  /\ pointer_store = <<>>
  /\ printed = <<>>
  /\ first = "none"
  /\ decided = [d \in Decisions |-> 0]

\* UnityTestRunner, of a test the filters select.
UnityTestRunner ==
  /\ part = "idle" /\ Unity.NumberOfTests < MaxTests
  /\ part' = "setup"
  /\ Unity' = [Unity EXCEPT !.NumberOfTests = @ + 1]
  /\ pointer_store' = <<>>
  /\ first' = "none"
  /\ UNCHANGED <<pointer, printed, decided>>

UnityIgnoreTest ==
  /\ part = "idle" /\ Unity.NumberOfTests < MaxTests
  /\ Unity' = [Unity EXCEPT !.NumberOfTests = @ + 1, !.TestIgnores = @ + 1]
  /\ decided' = [decided EXCEPT !["ignore"] = @ + 1]
  /\ UNCHANGED <<part, pointer, pointer_store, printed, first>>

Parts == {"setup", "body", "teardown"}

\* TEST_ABORT: to the TEST_PROTECT of the part that runs, which leaves it.
AbortTo(p) == IF p = "teardown" THEN "undo" ELSE "teardown"
After(p) == CASE p = "setup" -> "body" [] p = "body" -> "teardown" [] p = "teardown" -> "undo"

Done == Unity.CurrentTestFailed \/ Unity.CurrentTestIgnored

Decide(outcome) == IF first = "none" THEN first' = outcome ELSE UNCHANGED first

\* Fault: an assertion after the test is decided is counted as well.
AssertionAgain(holds) ==
  /\ part \in Parts
  /\ part' = IF holds THEN part ELSE AbortTo(part)
  /\ Unity' = [Unity EXCEPT !.CurrentTestFailed = ~holds,
                            !.TestFailures = IF holds THEN @ ELSE @ + 1]
  /\ IF holds THEN UNCHANGED first ELSE Decide("fail")
  /\ UNCHANGED <<pointer, pointer_store, printed, decided>>

\* An assertion: once the test is decided it aborts whatever it compares
\* (RETURN_IF_FAIL_OR_IGNORE), otherwise if it fails.
Assertion(holds) ==
  /\ part \in Parts
  /\ part' = IF Done \/ ~holds THEN AbortTo(part) ELSE part
  /\ Unity' = IF Done \/ holds THEN Unity ELSE [Unity EXCEPT !.CurrentTestFailed = TRUE]
  /\ IF Done \/ holds THEN UNCHANGED first ELSE Decide("fail")
  /\ UNCHANGED <<pointer, pointer_store, printed, decided>>

\* TEST_IGNORE.
UnityIgnore ==
  /\ part \in Parts
  /\ part' = AbortTo(part)
  /\ Unity' = IF Done THEN Unity ELSE [Unity EXCEPT !.CurrentTestIgnored = TRUE]
  /\ Decide("ignore")
  /\ UNCHANGED <<pointer, pointer_store, printed, decided>>

\* TEST_PASS.
Pass ==
  /\ part \in Parts
  /\ part' = AbortTo(part)
  /\ UNCHANGED <<Unity, pointer, pointer_store, printed, first, decided>>

\* UT_PTR_SET.
UnityPointer_Set(p, v) ==
  /\ part \in Parts /\ Len(pointer_store) < MaxPointers
  /\ pointer_store' = Append(pointer_store, [pointer |-> p, old_value |-> pointer[p]])
  /\ pointer' = [pointer EXCEPT ![p] = v]
  /\ UNCHANGED <<part, Unity, printed, first, decided>>

\* UT_PTR_SET when the store is full: the test fails.
UnityPointer_SetFails ==
  /\ Len(pointer_store) >= MaxPointers
  /\ Assertion(FALSE)

EndOfPart ==
  /\ part \in Parts
  /\ part' = After(part)
  /\ UNCHANGED <<Unity, pointer, pointer_store, printed, first, decided>>

\* Fault: the pointers are put back in the order they were set.
UndoFirstSet ==
  /\ part = "undo" /\ pointer_store # <<>>
  /\ pointer' = [pointer EXCEPT ![Head(pointer_store).pointer] = Head(pointer_store).old_value]
  /\ pointer_store' = Tail(pointer_store)
  /\ UNCHANGED <<part, Unity, printed, first, decided>>

\* One turn of the loop of UnityPointer_UndoAllSets: the last set comes first.
UndoLastSet ==
  /\ part = "undo" /\ pointer_store # <<>>
  /\ pointer' = [pointer EXCEPT ![Last(pointer_store).pointer] = Last(pointer_store).old_value]
  /\ pointer_store' = Front(pointer_store)
  /\ UNCHANGED <<part, Unity, printed, first, decided>>

\* UnityConcludeFixtureTest, when the loop has ended.
Conclude ==
  /\ part = "undo" /\ pointer_store = <<>>
  /\ part' = "idle"
  /\ Unity' = [Unity EXCEPT
       !.TestIgnores = IF Unity.CurrentTestIgnored THEN @ + 1 ELSE @,
       !.TestFailures = IF ~Unity.CurrentTestIgnored /\ Unity.CurrentTestFailed THEN @ + 1 ELSE @,
       !.CurrentTestFailed = FALSE,
       !.CurrentTestIgnored = FALSE]
  /\ decided' = [decided EXCEPT ![first] = @ + 1]
  /\ UNCHANGED <<pointer, pointer_store, printed, first>>

\* The decimal digits of a number, as UnityPrintNumberUnsigned prints them.
Digits[n \in Nat] == (IF n > 9 THEN Digits[n \div 10] ELSE <<>>) \o <<n % 10>>

\* Fault: the tests are printed where the failures belong.
UnityEndTests ==
  /\ part = "idle"
  /\ part' = "ended"
  /\ printed' = Digits[Unity.NumberOfTests]
  /\ UNCHANGED <<Unity, pointer, pointer_store, first, decided>>

\* UnityEnd.
UnityEnd ==
  /\ part = "idle"
  /\ part' = "ended"
  /\ printed' = Digits[Unity.TestFailures]
  /\ UNCHANGED <<Unity, pointer, pointer_store, first, decided>>

\* The workflow: make | grep "0 Failures".
Workflow == printed # <<>> /\ Last(printed) = 0

FixtureNext ==
  \/ UnityTestRunner \/ UnityIgnoreTest
  \/ \E b \in BOOLEAN : Assertion(b)
  \/ UnityIgnore \/ Pass
  \/ \E p \in Pointers, v \in Targets : UnityPointer_Set(p, v)
  \/ UnityPointer_SetFails
  \/ EndOfPart \/ UndoLastSet \/ Conclude \/ UnityEnd

FixtureSpec == FixtureInit /\ [][FixtureNext]_fixturevars
-----------------------------------------------------------------------------
\* Between two tests each has been counted once, by what decided it first,
\* whichever of its parts that was in and whatever the later ones did.
CountsRight ==
  part = "idle" =>
    /\ Unity.TestFailures = decided["fail"]
    /\ Unity.TestIgnores = decided["ignore"]
    /\ Unity.NumberOfTests = decided["fail"] + decided["ignore"] + decided["none"]

\* Between two tests every pointer is what it was before the first, however
\* the tests ended and wherever they replaced it.
PointersRestored ==
  part \in {"idle", "ended"} => pointer = [p \in Pointers |-> Original]

\* The workflow succeeds exactly if no test has failed (of fewer than ten).
WorkflowSound ==
  part = "ended" => (Workflow <=> decided["fail"] = 0)
=============================================================================
