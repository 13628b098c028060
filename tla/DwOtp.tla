------------------------------- MODULE DwOtp -------------------------------
(***************************************************************************)
(* A word of the one-time programmable memory and its programming          *)
(* (dwt_otpwriteandverify of lib/decadriver/deca_device.c).  A bit that is *)
(* programmed stays so, unless it was programmed weakly: then it reads as  *)
(* 1 as long as the read margin is relaxed, and may be lost later.         *)
(*                                                                         *)
(* The memory is not in src/; it is modelled from what the retries and the *)
(* modes of the driver are there for.                                      *)
(***************************************************************************)
EXTENDS Naturals

CONSTANT Bits   \* of a word; a value is the set of the bits that are 1

VARIABLES
  word,     \* of each bit: "blank", "weak" or "strong"
  regs,     \* the mode registers MRA, MRB and MR
  at,       \* the next step of the call, "idle" when none runs
  value,    \* its argument
  retry,
  prog_ok   \* what the last call has returned; FALSE before the first

otpvars == <<word, regs, at, value, retry, prog_ok>>

Regs(a, b, r) == [mra |-> a, mrb |-> b, mr |-> r]

\* The modes: reset, programming, soak, high Vpp, low read margin, array clean.
MrRegs == [mode \in 0 .. 5 |->
  CASE mode = 0 -> Regs(0, 0, 0)         [] mode = 1 -> Regs(37408, 14, 4132)
    [] mode = 2 -> Regs(37408, 3, 6180)  [] mode = 3 -> Regs(37408, 78, 6180)
    [] mode = 4 -> Regs(0, 3, 0)         [] mode = 5 -> Regs(0, 3, 36)]

\* _dwt_otpsetmrregs writes MRA, MRB and MR in turn; nothing else uses the
\* memory meanwhile.
OtpSetMrRegs(mode) == regs' = MrRegs[mode]

\* What the memory returns: at the low margin a weak bit is 0.
OtpRead ==
  {b \in Bits : word[b] = "strong" \/ (word[b] = "weak" /\ regs # MrRegs[4])}

\* What a pulse of the charge pump may leave of a bit.
Pulsed(level) ==
  CASE level = "blank"  -> {"blank", "weak", "strong"}
    [] level = "weak"   -> {"weak", "strong"}
    [] level = "strong" -> {"strong"}

OtpInit ==
  /\ word \in [Bits -> {"blank", "strong"}]
  /\ regs = MrRegs[0]
  /\ at = "idle"
  /\ value = {}
  /\ retry = 0
  /\ prog_ok = FALSE

\* dwt_otpwriteandverify up to its loop.  A word is programmed again only to
\* add bits: none can be taken back.
OtpWriteAndVerify(v) ==
  /\ at = "idle" /\ at' = "program"
  /\ value \subseteq v
  /\ value' = v /\ retry' = 0
  /\ OtpSetMrRegs(1)
  /\ prog_ok' = TRUE
  /\ UNCHANGED word

\* _dwt_otpprogword32, and the wait for the memory.
OtpProgWord32 ==
  /\ at = "program" /\ at' = "check"
  /\ \E w \in [Bits -> {"blank", "weak", "strong"}] :
       /\ \A b \in Bits : IF b \in value /\ regs = MrRegs[1] THEN w[b] \in Pulsed(word[b])
                                                             ELSE w[b] = word[b]
       /\ word' = w
  /\ UNCHANGED <<regs, value, retry, prog_ok>>

\* The word is read back, and programmed anew if it is not what it should be.
Check ==
  /\ at = "check"
  /\ IF OtpRead = value
       THEN at' = "margin" /\ UNCHANGED retry
       ELSE retry' = retry + 1 /\ at' = IF retry' = 10 THEN "margin" ELSE "program"
  /\ UNCHANGED <<word, regs, value, prog_ok>>

\* Fault: the word is read again as it was before.
MarginRelaxed ==
  /\ at = "margin" /\ at' = "verify"
  /\ OtpSetMrRegs(0)
  /\ UNCHANGED <<word, value, retry, prog_ok>>

Margin ==
  /\ at = "margin" /\ at' = "verify"
  /\ OtpSetMrRegs(4)
  /\ UNCHANGED <<word, value, retry, prog_ok>>

\* The word is read at the low margin, and the mode is reset.
Verify ==
  /\ at = "verify" /\ at' = "idle"
  /\ prog_ok' = (OtpRead = value)
  /\ OtpSetMrRegs(0)
  /\ UNCHANGED <<word, value, retry>>

\* Years later.
Fade ==
  /\ at = "idle"
  /\ \E b \in Bits : word[b] = "weak" /\ word' = [word EXCEPT ![b] = "blank"]
  /\ UNCHANGED <<regs, at, value, retry, prog_ok>>

OtpNext ==
  \/ \E v \in SUBSET Bits : OtpWriteAndVerify(v)
  \/ OtpProgWord32 \/ Check \/ Margin \/ Verify \/ Fade

OtpSpec == OtpInit /\ [][OtpNext]_otpvars
-----------------------------------------------------------------------------
\* WrittenIsKept.  After a call that returned DWT_SUCCESS the word reads as
\* the value, with the mode registers reset, however many attempts it took,
\* whichever bits of the value the word held before, and whichever weak bits are
\* lost later.
WrittenIsKept == at = "idle" /\ prog_ok => regs = MrRegs[0] /\ OtpRead = value
=============================================================================
