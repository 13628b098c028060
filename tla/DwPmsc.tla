------------------------------- MODULE DwPmsc -------------------------------
(***************************************************************************)
(* The clocks of the transceiver (lib/decadriver/deca_device.c): the two   *)
(* control registers of its power management, PMSC_CTRL0 and PMSC_CTRL1,   *)
(* and RF_CONF.  A call forces the clocks a reading needs, reads, and puts *)
(* the clocks back; other calls keep a flag of their own in the same       *)
(* registers.  Every change is a read and a write over the SPI bus, so     *)
(* that a callback, which runs within the interrupt routine, may come      *)
(* between any two steps of the call of the main loop.                     *)
(*                                                                         *)
(* The registers are the set of the flags that are 1.                      *)
(***************************************************************************)
EXTENDS Naturals, Sequences

CONSTANTS
  Ops,     \* the calls of the main loop
  Nested   \* sets of calls: those of the callbacks, one chosen for a behaviour

VARIABLES
  reg,    \* the flags that are 1
  inIsr,  \* the calls the callbacks make
  todo,   \* of "main" and "isr": the steps left of the call that runs
  tmp,    \* of both: what the last step has read
  saved,  \* of both: what a calibration has to put back
  ownFlags,  \* history: the flags of their own the calls of the main loop have
             \* left on, and no callback has switched off
  sequenced  \* history: no call has left clocks forced

pmscvars == <<reg, inIsr, todo, tmp, saved, ownFlags, sequenced>>

\* The fields of the lower two bytes of PMSC_CTRL0, whose other half holds
\* flags one call each sets, the lower half of PMSC_CTRL1, and RF_CONF.
Sys == {"SYS_XTI", "SYS_PLL"}
Rx == {"RX_PLL"}
Tx == {"TX_PLL"}
Byte0 == Sys \cup Rx \cup Tx \cup {"FACE"}
Byte1 == {"LDECE", "OTPCE", "ADCCE", "AMCE"}
Ctrl0 == Byte0 \cup Byte1 \cup {"GPCE", "GPDCE", "PLL2_SEQ_EN"}
Ctrl1Low == {"PKTSEQ", "ATXSLP", "ARXSLP"}
Ctrl1 == Ctrl1Low \cup {"LDERUNE"}
RfConf == {"RF_TX", "RF_CAL"}

\* The registers after a reset.
ResetFlags == {"OTPCE", "PKTSEQ", "LDERUNE"}

\* The kinds of steps: a read, a write of what was read with flags added and
\* dropped, a use of the clocks, which needs some flags, one that takes them as
\* they are when the transceiver has woken, and a reset.
Read(part) == [do |-> "read", part |-> part, add |-> {}, drop |-> {}]
PmscPut(part, add, drop) == [do |-> "put", part |-> part, add |-> add, drop |-> drop]
PmscWrite(part, flags) == PmscPut(part, flags, part)
PmscChange(part, add, drop) == <<Read(part), PmscPut(part, add, drop)>>
Use(needs, not) == <<[do |-> "use", part |-> {}, add |-> needs, drop |-> not]>>
UseAsWoken(needs) == <<[do |-> "woken", part |-> {}, add |-> needs, drop |-> {}]>>
Reset == [do |-> "reset", part |-> {}, add |-> {}, drop |-> {}]
Save(part) == [do |-> "save", part |-> part, add |-> {}, drop |-> {}]
Restore(part) == [do |-> "restore", part |-> part, add |-> {}, drop |-> {}]

\* _dwt_enableclocks: what each mode adds and drops.
Forced(clocks) ==
  CASE clocks = "ENABLE_ALL_SEQ" -> [add |-> {}, drop |-> Byte0 \cup {"LDECE"}]
    [] clocks = "FORCE_SYS_XTI"  -> [add |-> {"SYS_XTI"}, drop |-> Sys]
    [] clocks = "FORCE_SYS_PLL"  -> [add |-> {"SYS_PLL"}, drop |-> Sys]
    [] clocks = "READ_ACC_ON"    -> [add |-> {"RX_PLL", "FACE", "AMCE"}, drop |-> Rx \cup {"FACE"}]
    [] clocks = "READ_ACC_OFF"   -> [add |-> {}, drop |-> Rx \cup {"FACE", "AMCE"}]
    [] clocks = "FORCE_TX_PLL"   -> [add |-> {"TX_PLL"}, drop |-> Tx]
    [] clocks = "FORCE_LDE"      -> [add |-> {"SYS_XTI", "LDECE", "OTPCE"},
                                     drop |-> Byte0 \cup Byte1]

\* The two bytes are read, then written one after the other.
EnableClocks(clocks) ==
  LET f == Forced(clocks)
  IN <<Read(Byte0 \cup Byte1),
       PmscPut(Byte0, f.add \cap Byte0, f.drop), PmscPut(Byte1, f.add \cap Byte1, f.drop)>>

DisableSequencing == EnableClocks("FORCE_SYS_XTI") \o <<PmscWrite(Ctrl1Low, {})>>

OtpWord == Use({"SYS_XTI"}, {})

\* Fault: the clocks are put back before the words are read.
OtpReadLate ==
  EnableClocks("FORCE_SYS_XTI") \o EnableClocks("ENABLE_ALL_SEQ") \o OtpWord

PmscOtpRead ==
  EnableClocks("FORCE_SYS_XTI") \o OtpWord \o EnableClocks("ENABLE_ALL_SEQ")

\* dwt_otpwriteandverify: programs and reads at the crystal's clock, and leaves it so.
PmscOtpWriteAndVerify == EnableClocks("FORCE_SYS_XTI") \o OtpWord

ReadAccData ==
  EnableClocks("READ_ACC_ON") \o Use({"RX_PLL", "FACE", "AMCE"}, {})
    \o EnableClocks("READ_ACC_OFF")

\* The microcode, or an operating parameter set, loaded from the ROM.
LoadFromRom ==
  EnableClocks("FORCE_LDE") \o Use({"SYS_XTI", "LDECE", "OTPCE"}, {"SYS_PLL"})
    \o EnableClocks("ENABLE_ALL_SEQ")

\* dwt_readtempvbat with a slow bus; dwt_configuresleepcnt and the reading of
\* dwt_calibratesleepcnt have the same steps.
ReadAtXti ==
  EnableClocks("FORCE_SYS_XTI") \o Use({"SYS_XTI"}, {}) \o EnableClocks("ENABLE_ALL_SEQ")

PmscSoftReset == DisableSequencing \o <<Reset>>

\* dwt_rxreset: the upper byte of PMSC_CTRL0 written twice, its bits for a reset
\* cleared and set, and PLL2_SEQ_EN with them.
PmscRxReset == <<PmscWrite({"PLL2_SEQ_EN"}, {}), PmscWrite({"PLL2_SEQ_EN"}, {})>>

\* Fault: the sequencing is not put back.
CalibrateForgets ==
  <<Save(Byte0 \cup Ctrl1Low \cup RfConf), PmscWrite(Byte0, {"SYS_XTI"}), PmscWrite(Ctrl1Low, {}),
    PmscWrite(RfConf, {"RF_CAL"}), PmscWrite(Byte0, {"SYS_PLL", "TX_PLL"})>>
  \o Use({"SYS_PLL", "TX_PLL", "RF_CAL"}, {"PKTSEQ"})
  \o <<Restore(Byte0), Restore(RfConf)>>

\* dwt_calcbandwidthtempadj and dwt_calcpgcount around their measurements.
Calibrate ==
  <<Save(Byte0 \cup Ctrl1Low \cup RfConf), PmscWrite(Byte0, {"SYS_XTI"}), PmscWrite(Ctrl1Low, {}),
    PmscWrite(RfConf, {"RF_CAL"}), PmscWrite(Byte0, {"SYS_PLL", "TX_PLL"})>>
  \o Use({"SYS_PLL", "TX_PLL", "RF_CAL"}, {"PKTSEQ"})
  \o <<Restore(Byte0), Restore(Ctrl1Low), Restore(RfConf)>>

ConfigCwMode ==
  DisableSequencing \o <<PmscWrite(RfConf, {"RF_TX"}), PmscWrite(Byte0, {"SYS_PLL", "TX_PLL"}),
                         PmscWrite(Byte1, {"LDECE", "OTPCE", "ADCCE"})>>

ConfigContinuousFrameMode ==
  DisableSequencing \o <<PmscWrite(RfConf, {"RF_TX"})>>
    \o EnableClocks("FORCE_SYS_PLL") \o EnableClocks("FORCE_TX_PLL")

\* dwt_initialise without DWT_DW_WAKE_UP, with DWT_LOADUCODE or without.
PmscInitialise(ucode) ==
  PmscSoftReset \o EnableClocks("FORCE_SYS_XTI") \o OtpWord
    \o (IF ucode THEN LoadFromRom ELSE PmscChange(Ctrl1, {}, {"LDERUNE"}))
    \o EnableClocks("ENABLE_ALL_SEQ")

\* With DWT_DW_WAKE_UP: the clock is forced when nothing is read.
PmscResume(reads) ==
  (IF reads THEN UseAsWoken({"SYS_XTI"}) ELSE EnableClocks("FORCE_SYS_XTI"))
    \o EnableClocks("ENABLE_ALL_SEQ")

\* The calls with a flag of their own: dwt_enablegpioclocks, dwt_setleds,
\* dwt_setsniffmode, dwt_entersleepaftertx, dwt_setlowpowerlistening.
FlagOf ==
  [gpio |-> "GPCE", leds |-> "GPDCE", sniff |-> "PLL2_SEQ_EN", sleepAfterTx |-> "ATXSLP",
   listen |-> "ARXSLP"]
Flags == {FlagOf[o] : o \in DOMAIN FlagOf}

\* dwt_setleds(0) leaves the clocks of the LEDs on.
SetFlag(op, on) ==
  LET part == IF FlagOf[op] \in Ctrl0 THEN Ctrl0 ELSE Ctrl1
  IN CASE on                -> PmscChange(part, {FlagOf[op]}, {})
       [] ~on /\ op # "leds" -> PmscChange(part, {}, {FlagOf[op]})
       [] ~on /\ op = "leds" -> <<>>

Steps(op) ==
  CASE op.call = "otpread"           -> PmscOtpRead
    [] op.call = "otpwriteandverify" -> PmscOtpWriteAndVerify
    [] op.call = "readaccdata"       -> ReadAccData
    [] op.call = "loadopsettab"      -> LoadFromRom
    [] op.call = "readtempvbat"      -> ReadAtXti
    [] op.call = "softreset"         -> PmscSoftReset
    [] op.call = "rxreset"           -> PmscRxReset
    [] op.call = "calibrate"         -> Calibrate
    [] op.call = "cw"                -> ConfigCwMode
    [] op.call = "frames"            -> ConfigContinuousFrameMode
    [] op.call = "initialise"        -> PmscInitialise(op.on)
    [] op.call = "resume"            -> PmscResume(op.on)
    [] OTHER                         -> SetFlag(op.call, op.on)

PmscIdle == todo = [p \in {"main", "isr"} |-> <<>>]

PmscInit ==
  /\ reg = ResetFlags
  /\ inIsr \in Nested
  /\ todo = [p \in {"main", "isr"} |-> <<>>]
  /\ tmp = [p \in {"main", "isr"} |-> {}]
  /\ saved = [p \in {"main", "isr"} |-> {}]
  /\ ownFlags = {}
  /\ sequenced = TRUE

\* The main loop makes a call; it leaves to the callbacks what they read.
Call(op) ==
  /\ PmscIdle /\ (op.call \in inIsr => op.call \in {"listen", "rxreset"})
  /\ todo' = [todo EXCEPT !["main"] = Steps(op)]
  /\ ownFlags' = CASE op.call \in DOMAIN FlagOf /\ op.on -> ownFlags \cup {FlagOf[op.call]}
                   [] op.call \in DOMAIN FlagOf \ {"leds"} /\ ~op.on ->
                        ownFlags \ {FlagOf[op.call]}
                   [] op.call \in {"softreset", "initialise"} -> {}
                   [] op.call \in {"cw", "frames"}            -> ownFlags \ Ctrl1Low
                   [] op.call = "rxreset"                     -> ownFlags \ {"PLL2_SEQ_EN"}
                   [] OTHER                                   -> ownFlags
  /\ sequenced' = CASE op.call \in {"cw", "frames", "otpwriteandverify"} -> FALSE
                    [] op.call \in DOMAIN FlagOf \cup {"readaccdata", "calibrate", "rxreset"} ->
                         sequenced
                    [] OTHER -> TRUE
  /\ UNCHANGED <<reg, inIsr, tmp, saved>>

\* The interrupt routine or its callback makes a call, within whatever the main
\* loop does; dwt_isr itself calls dwt_rxreset, dwt_lowpowerlistenisr itself calls
\* dwt_setlowpowerlistening(0).
Interrupt(call) ==
  /\ call \in inIsr /\ todo["isr"] = <<>>
  /\ todo' = [todo EXCEPT !["isr"] = Steps([call |-> call, on |-> FALSE])]
  /\ ownFlags' = IF call = "listen" THEN ownFlags \ {"ARXSLP"} ELSE ownFlags
  /\ UNCHANGED <<reg, inIsr, tmp, saved, sequenced>>

\* One access to the transceiver; the interrupt routine runs to its end.
PmscStep(p) ==
  LET s == Head(todo[p])
  IN /\ todo[p] # <<>> /\ (p = "main" => todo["isr"] = <<>>)
     /\ todo' = [todo EXCEPT ![p] = Tail(@)]
     /\ tmp' = [tmp EXCEPT ![p] = IF s.do = "read" THEN reg \cap s.part
                                  ELSE IF Tail(todo[p]) = <<>> THEN {} ELSE @]
     /\ saved' = [saved EXCEPT ![p] = IF s.do = "save" THEN reg \cap s.part
                                      ELSE IF Tail(todo[p]) = <<>> THEN {} ELSE @]
     /\ reg' = CASE s.do = "put"     -> (reg \ s.part) \cup s.add
                                           \cup ((tmp[p] \cap s.part) \ s.drop)
                 [] s.do = "restore" -> (reg \ s.part) \cup (saved[p] \cap s.part)
                 [] s.do = "reset"   -> ResetFlags
                 [] OTHER            -> reg
     /\ UNCHANGED <<inIsr, ownFlags, sequenced>>

PmscNext ==
  \/ \E op \in Ops : Call(op)
  \/ \E call \in inIsr : Interrupt(call)
  \/ \E p \in {"main", "isr"} : PmscStep(p)

PmscSpec == PmscInit /\ [][PmscNext]_pmscvars
-----------------------------------------------------------------------------
\* The calls of the main loop and of the interrupt routine and its callbacks.
\* dwt_enablegpioclocks switches nothing off.
CallNames ==
  {"otpread", "otpwriteandverify", "readaccdata", "loadopsettab", "readtempvbat", "softreset",
   "rxreset", "calibrate", "cw", "frames", "initialise", "resume", "gpio", "leds", "sniff",
   "sleepAfterTx", "listen"}
KnownCalls == {op \in [call : CallNames, on : BOOLEAN] : op.call = "gpio" => op.on}

CallsKnown ==
  /\ Ops \subseteq KnownCalls
  /\ \A calls \in Nested : calls \subseteq {"readaccdata", "rxreset", "listen"}

\* What the interrupt routine and its callbacks call puts back all it changes,
\* but for what a reset of the receiver clears.
CallsPutBack == CallsKnown /\ \A calls \in Nested : calls \subseteq {"readaccdata", "rxreset"}

-----------------------------------------------------------------------------
\* Whatever reads the OTP memory, the accumulator, the converters or the
\* pulse generator does so with the clocks it needs, whichever calls came
\* before and whatever a callback does in between; but for a wake-up that reads
\* the OTP memory, which takes the clocks as they are (OtpReliable).
Clocked ==
  \A p \in {"main", "isr"} :
    todo[p] # <<>> /\ Head(todo[p]).do = "use" /\ (p = "main" => todo["isr"] = <<>>)
      => Head(todo[p]).add \subseteq reg /\ Head(todo[p]).drop \cap reg = {}

\* A reset of the receiver in the interrupt routine, which clears it, may come
\* after the call of the main loop that has set it, or before it writes.
LostInIsr == IF "rxreset" \in inIsr THEN {"PLL2_SEQ_EN"} ELSE {}

\* Between two calls the clocks are sequenced, unless the last call that sets
\* them is one that leaves them forced, and the flags of the other calls are as
\* those have left them, but for the one the routine may clear; nothing
\* switches on a flag that no call has.
AsLeft ==
  PmscIdle => /\ sequenced => reg \cap (Byte0 \cup {"LDECE", "AMCE"} \cup {"RF_CAL"}) = {}
              /\ sequenced /\ "RF_TX" \notin reg => "PKTSEQ" \in reg
              /\ reg \cap Flags \subseteq ownFlags
              /\ ownFlags \ LostInIsr \subseteq reg
-----------------------------------------------------------------------------
\* What comments of the sources say, or a caller may expect, and the code does
\* not do.

\* "set system clock to XTI - this is necessary to make sure the values read by
\* _dwt_otpread are reliable": a wake-up reads them before.
OtpReliable ==
  todo["main"] # <<>> /\ Head(todo["main"]).do = "woken" => Head(todo["main"]).add \subseteq reg

\* The sniff mode set in the main loop lasts until the main loop ends it.
SniffLasts == PmscIdle => ("PLL2_SEQ_EN" \in ownFlags => "PLL2_SEQ_EN" \in reg)
=============================================================================
