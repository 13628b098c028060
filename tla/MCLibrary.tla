----------------------------- MODULE MCLibrary -----------------------------
(***************************************************************************)
(* The libraries of src/lib, for TLC.  A behaviour is one of one component *)
(* of the driver, the platform or the test framework; the variables of the *)
(* others keep their initial values, or are Unused.                        *)
(***************************************************************************)
EXTENDS DwConfig, DwPmsc, DwSleep, DwCalibration, DwOtp, DwSpi, UnityFixture

CONSTANTS beacon, data, fast, slow, v1, cleared

VARIABLES
  component,
  chan, prf, range, row,                           \* of DwRangeBias
  asserted, verdict                                \* of UnityAsserts

Unused == 0

-----------------------------------------------------------------------------
(* DwConfig: the calls that share a register, dwt_configure with those that tune
   the same bytes, the calls for pins and events, or all others with dwt_setleds. *)

\* A configuration with the bit rate of 110 kbit/s and long frames, one with neither.
BothConfigs == {[slow |-> TRUE, phrMode |-> 3, code |-> slow],
                [slow |-> FALSE, phrMode |-> 0, code |-> fast]}

\* Lengths and offsets with bits in common, and with none.
TwoFrames == {[len |-> {4, 0}, off |-> {}, tr |-> {0}], [len |-> {4, 1}, off |-> {3}, tr |-> {}]}

\* 12: the length of TX_FCTRL after a reset.
Twelve == {2, 3}

Nothing == {}

Registers == INSTANCE DwConfig WITH
  FrameTypes <- {}, Configs <- {}, Frames <- {}, Times <- {}, Values <- {v1}, Cleared <- cleared,
  Events <- {},
  Plain <- {"LDE_RXANTD", "TX_ANTD", "PAN_ID", "SHORT_ADDR", "EUI_64", "DRX_PRETOC",
            "PMSC_TXFINESEQ", "FS_XTALT", "MSGP2", "MSGP3"}

Tuning == INSTANCE DwConfig WITH
  FrameTypes <- {}, Configs <- BothConfigs, Frames <- TwoFrames, Times <- {}, Values <- {v1},
  Cleared <- cleared, Events <- {},
  Plain <- {"TC_PGDELAY", "TX_POWER", "CRTR_GEAR", "DRX_TUNE2+2"}

Pins == INSTANCE DwConfig WITH
  FrameTypes <- {}, Configs <- {}, Frames <- {}, Times <- {}, Values <- {0, 1}, Cleared <- 0,
  Events <- {"TFRS", "RFCG"},
  Plain <- {"TFRS", "RFCG", "GDP0", "GDP1", "GOP0", "MSGP4", "MSGP5", "MSGP6"}

-----------------------------------------------------------------------------
(* DwPmsc: three calls with a flag of their own stand for the five. *)

PmscCalls ==
  {[call |-> c, on |-> FALSE] : c \in {"otpread", "otpwriteandverify", "readaccdata",
     "loadopsettab", "readtempvbat", "softreset", "rxreset", "calibrate", "cw", "frames"}}
  \cup {[call |-> c, on |-> b] :
           c \in {"initialise", "resume", "leds", "sniff", "sleepAfterTx"}, b \in BOOLEAN}

\* What dwt_isr and its callbacks call.
ReadingsAndResets == SUBSET {"readaccdata", "rxreset"}

\* What the theorems about DwPmsc suppose of the calls.
ASSUME PmscCallsAssumption == CallsPutBack

(* DwSleep *)
NoModeOrOne == {{}, {"ONW_LDC"}}
SomeWakes ==
  {{"SLEEP_EN", "WAKE_CNT"}, {"SLEEP_EN", "WAKE_CS"}, {"SLEEP_EN", "WAKE_WK", "WAKE_CNT"}}

(* DwCalibration: powers at the bounds of the mixer's range, within and outside. *)
PowerByte(d, m) == [da |-> d, mixer |-> m]

ThreeCurves ==
  {[top |-> 2200, slope |-> 9], [top |-> 1500, slope |-> 3], [top |-> 900, slope |-> 40]}
ThreeDelays == {147, 201, 255}
TwoPowers ==
  {<<PowerByte(0, 4), PowerByte(2, 8), PowerByte(5, 20), PowerByte(7, 12)>>,
   <<PowerByte(3, 31), PowerByte(6, 0), PowerByte(1, 15), PowerByte(4, 6)>>}
SomeDrifts == {-60, -33, -7, 0, 6, 14, 41, 60}
ThreeChannels == {2, 5, 3}

(* DwOtp: words of three bits. *)
ThreeBits == 0 .. 2

(* DwRangeBias: from ranges below zero to past the last entry of every table. *)
RangeBias == INSTANCE DwRangeBias WITH
  Step <- 20, Starts <- {-60, 3000, 6200}, Farthest <- 6600, at <- row

(* DwSpi: indexes of one and two bytes, at the bounds, and registers that overlap. *)
To(file, index, v, n) == [file |-> file, index |-> index, value |-> v, n |-> n]
From(file, index, n) == [file |-> file, index |-> index, n |-> n]

FiveWrites == {To(42, 11, 258, 2), To(36, 127, 259, 2), To(36, 128, 5, 1), To(6, 0, 197121, 4),
               To(36, 300, 7, 1)}
OneRead == {From(36, 128, 2)}
IsrWrite == {To(15, 0, 255, 4)}
IsrRead == {From(15, 1, 1)}
TwoPorts == {[installed |-> FALSE, status |-> FALSE], [installed |-> TRUE, status |-> TRUE]}
SomeCells == ({36} \X {0, 1, 44, 127, 128, 129, 300}) \cup ({42} \X {11, 12})
               \cup ({6} \X (0 .. 4)) \cup ({15} \X (0 .. 3))

-----------------------------------------------------------------------------
(* UnityAsserts: elements of three bits, 0, 3, 4 and 7 among them; no, one and
   two elements; null pointers; deltas within and beyond what the bits hold. *)

Null == <<-1>>
Pairs(S) == [1 .. 2 -> S]
ArrayModes == {"ARRAY_TO_ARRAY", "ARRAY_TO_VAL"}

Assert1(kind, expected, actual, n, style, mode, param) ==
  [kind |-> kind, expected |-> expected, actual |-> actual, n |-> n, style |-> style,
   flags |-> mode, param |-> param]

Strings == {<<>>, <<1>>, <<1, 2>>, <<1, 2, 1>>, <<2>>, Null}

Kinds ==
  <<{Assert1(k, e, t, 2, s, f, d) : k \in {"EqualIntArray", "NumbersArrayWithin"},
       e \in Pairs({0, 3, 4, 7}), t \in Pairs({0, 3, 4, 7}), s \in {"INT", "UINT", "HEX"},
       f \in ArrayModes, d \in {1, 4}},
    {Assert1(k, p[1], p[2], n, "INT", "ARRAY_TO_ARRAY", 1) : n \in 0 .. 1,
       p \in {<<Null, Null>>, <<Null, <<1>>>>, <<<<1>>, Null>>},
       k \in {"EqualIntArray", "NumbersArrayWithin", "EqualStringArray", "EqualMemory"}},
    {Assert1("NumbersWithin", e, t, 1, s, "ARRAY_TO_ARRAY", d) : e \in -16 .. 15,
       t \in {-16, -3, 7, 15}, s \in {"INT", "UINT"}, d \in {0, 3, 16, 30}},
    {Assert1("Bits", e, t, 1, "INT", "ARRAY_TO_ARRAY", d) : e \in {-16, -6, 0, 5, 10},
       t \in -16 .. 15, d \in {-16, -1, 0, 3, 12}},
    {Assert1("EqualNumber", e, t, 1, s, "ARRAY_TO_ARRAY", 0) : e \in -16 .. 15,
       t \in {-16, -3, 7, 15}, s \in {"INT", "UINT"}},
    {Assert1("GreaterOrLess", e, t, 1, s, "ARRAY_TO_ARRAY", c) : e \in {-16, -1, 9},
       t \in -16 .. 15, s \in {"INT", "UINT"},
       c \in {{}, {"GREATER"}, {"SMALLER"}, {"GREATER", "EQUAL"}, {"SMALLER", "EQUAL"}}},
    {Assert1("EqualString", e, t, 1, "INT", "ARRAY_TO_ARRAY", l) : e \in Strings, t \in Strings,
       l \in 0 .. 3},
    {Assert1("EqualStringArray", e, t, 2, "INT", f, 0) : e \in Pairs(Strings \ {<<1, 2, 1>>}),
       t \in Pairs(Strings \ {<<2>>}), f \in ArrayModes},
    {Assert1("EqualMemory", e, t, 2, "INT", f, 2) : e \in [1 .. 4 -> {1, 2}],
       t \in [1 .. 4 -> {1, 2}], f \in ArrayModes}>>

Asserts == INSTANCE UnityAsserts WITH Short <- 3, Wide <- 5, Assertions <- Kinds

-----------------------------------------------------------------------------
Components == {"config", "registers", "tuning", "pins", "pmsc", "sleep", "calibration", "otp",
               "bias", "spi", "fixture", "asserts"}

\* The components that are not chosen have one initial state.
SuiteInit ==
  /\ component \in Components
  /\ CASE component = "registers" -> Registers!Init [] component = "tuning" -> Tuning!Init
       [] component = "pins" -> Pins!Init
       [] OTHER -> Init
  /\ SleepInit /\ (component # "sleep" => ~ldoTune)
  /\ CalibrationInit
  /\ component # "calibration" =>
       /\ curve.slope = 9 /\ target = Count(curve, 147) /\ ref[1].mixer = 4 /\ channel = 2
  /\ OtpInit /\ (component # "otp" => \A b \in Bits : word[b] = "blank")
  /\ SpiInit /\ (component # "spi" => ~port.installed)
  /\ FixtureInit
  /\ PmscInit /\ (component # "pmsc" => inIsr = {})
  /\ IF component = "bias" THEN RangeBias!Init
     ELSE chan = 1 /\ prf = "16M" /\ range = Unused /\ row = Unused
  /\ IF component = "asserts" THEN Asserts!Init ELSE asserted = Unused /\ verdict = Unused

\* A step of one component leaves the variables of the others alone.
Others(c) ==
  /\ UNCHANGED component
  /\ c \notin {"config", "registers", "tuning", "pins"} => UNCHANGED vars
  /\ c # "pmsc" => UNCHANGED pmscvars
  /\ c # "sleep" => UNCHANGED sleepvars
  /\ c # "calibration" => UNCHANGED calibrationvars
  /\ c # "otp" => UNCHANGED otpvars
  /\ c # "bias" => UNCHANGED <<chan, prf, range, row>>
  /\ c # "spi" => UNCHANGED spivars
  /\ c # "fixture" => UNCHANGED fixturevars
  /\ c # "asserts" => UNCHANGED <<asserted, verdict>>

SuiteNext ==
  \/ component = "config" /\ Calls /\ Others("config")
  \/ component = "registers" /\ Registers!Calls /\ Others("registers")
  \/ component = "tuning" /\ Tuning!Calls /\ Others("tuning")
  \/ component = "pins" /\ Pins!Calls /\ Others("pins")
  \/ component = "pmsc" /\ PmscNext /\ Others("pmsc")
  \/ component = "sleep" /\ SleepNext /\ Others("sleep")
  \/ component = "calibration" /\ CalibrationNext /\ Others("calibration")
  \/ component = "otp" /\ OtpNext /\ Others("otp")
  \/ component = "bias" /\ RangeBias!Next /\ Others("bias")
  \/ component = "spi" /\ SpiNext /\ Others("spi")
  \/ component = "fixture" /\ FixtureNext /\ Others("fixture")
  \/ component = "asserts" /\ Asserts!Next /\ Others("asserts")

allvars ==
  <<component, vars, pmscvars, sleepvars, calibrationvars, otpvars, RangeBias!vars, spivars,
    fixturevars, Asserts!vars>>

Suite == SuiteInit /\ [][SuiteNext]_allvars

-----------------------------------------------------------------------------
(* The invariants of the modules extended hold in every behaviour. *)

\* Corrections are within the tables and keep the order of the ranges (DwRangeBias).
BiasInTable == RangeBias!BiasInTable

\* An assertion fails exactly if what it compares differs, and says what (UnityAsserts).
VerdictsRight == component = "asserts" => Asserts!VerdictsRight
=============================================================================
