---------------------------- MODULE LibraryProofs ----------------------------
(***************************************************************************)
(* Proofs about the components of the driver, the bus and the test         *)
(* library: DwConfig.tla, DwSleep.tla, DwOtp.tla, DwCalibration.tla,       *)
(* DwSpi.tla and UnityFixture.tla. They share no state; each has a section *)
(* of its own, with the inductive invariant of its specification.          *)
(***************************************************************************)
EXTENDS DwConfig, DwSleep, DwCalibration, DwOtp, DwSpi, UnityFixture, TLAPS, SequenceTheorems

-----------------------------------------------------------------------------
(***************************************************************************)
(* The settings (DwConfig). Neither property holds on its own: that a call *)
(* which writes SYS_CFG from the copy undoes no other setting needs the    *)
(* copy to be exact, and so does that dwt_writetxfctrl sends the frame it  *)
(* is given.                                                               *)
(***************************************************************************)

\* The registers and the copies are records of their fields.
Shape ==
  /\ chip = [sys_cfg |-> chip.sys_cfg, tx_fctrl |-> chip.tx_fctrl, ack |-> chip.ack,
             fwto |-> chip.fwto, radio |-> chip.radio, plain |-> chip.plain]
  /\ chip.ack = [w4r |-> chip.ack.w4r, ack_tim |-> chip.ack.ack_tim]
  /\ local = [sysCFGreg |-> local.sysCFGreg, txFCTRL |-> local.txFCTRL,
              longFrames |-> local.longFrames, dblbuffon |-> local.dblbuffon]

\* CopiesExact, before it is guarded by Ready.
Copies ==
  /\ local.sysCFGreg = chip.sys_cfg
  /\ local.longFrames = PhrMode(chip.sys_cfg)
  /\ local.dblbuffon = ("DIS_DRXB" \notin chip.sys_cfg)
  /\ "radio" \in DOMAIN asked => local.txFCTRL = [None EXCEPT !.mode = chip.tx_fctrl.mode]

\* The settings that are flags of SYS_CFG.
RadioAsAsked ==
  "radio" \in DOMAIN asked =>
    asked["radio"] = [slow |-> "RXM110K" \in chip.sys_cfg, phrMode |-> PhrMode(chip.sys_cfg),
                      code |-> chip.radio]
FilterAsAsked ==
  "filter" \in DOMAIN asked =>
    asked["filter"] = IF "FFE" \in chip.sys_cfg THEN chip.sys_cfg \cap FrameTypes ELSE {}
SmartAsAsked ==
  "smart" \in DOMAIN asked => asked["smart"] = ("DIS_STXP" \notin chip.sys_cfg)
DblBuffAsAsked ==
  "dblBuff" \in DOMAIN asked => asked["dblBuff"] = ("DIS_DRXB" \notin chip.sys_cfg)
AutoAckAsAsked ==
  "autoAck" \in DOMAIN asked => asked["autoAck"] = ("AUTOACK" \in chip.sys_cfg)
TimeoutAsAsked ==
  "timeout" \in DOMAIN asked =>
    asked["timeout"] = IF "RXWTOE" \in chip.sys_cfg THEN chip.fwto ELSE 0

\* Their names.
FlagSettings == {"radio", "filter", "smart", "dblBuff", "autoAck", "timeout"}

FlagsAsAsked ==
  /\ RadioAsAsked /\ FilterAsAsked /\ SmartAsAsked
  /\ DblBuffAsAsked /\ AutoAckAsAsked /\ TimeoutAsAsked

\* The settings that are fields or registers of their own.
FieldsAsAsked ==
  /\ "ackTime" \in DOMAIN asked => asked["ackTime"] = chip.ack.ack_tim
  /\ "rxDelay" \in DOMAIN asked => asked["rxDelay"] = chip.ack.w4r
  /\ "frame" \in DOMAIN asked =>
       asked["frame"] = [len |-> chip.tx_fctrl.len, off |-> chip.tx_fctrl.off,
                         tr |-> chip.tx_fctrl.tr]
  /\ \A s \in DOMAIN asked :
       s \notin {"radio", "filter", "smart", "dblBuff", "autoAck", "timeout", "ackTime",
                 "rxDelay", "frame"} =>
         s \in DOMAIN chip.plain /\ asked[s] = chip.plain[s]

Exact == Copies /\ FlagsAsAsked /\ FieldsAsAsked

\* The events of SYS_MASK are enabled or disabled.
EventBits == \A e \in Events : e \in DOMAIN chip.plain /\ chip.plain[e] \in {0, 1}

IInv == Shape /\ (Ready => Exact)

\* What the invariant says is what the properties say.
LEMMA InvariantImplies == IInv => CopiesExact /\ AsAsked
<1> SUFFICES ASSUME IInv PROVE CopiesExact /\ AsAsked
  OBVIOUS
<1>1. CopiesExact
  BY DEF IInv, Exact, Copies, CopiesExact
<1>2. ASSUME NEW s \in DOMAIN asked PROVE Ready
  BY <1>2 DEF Ready
<1>3. ASSUME NEW s \in DOMAIN asked PROVE Setting(s) = asked[s]
  BY <1>2, <1>3 DEF IInv, Exact, FlagsAsAsked, FieldsAsAsked, Setting, RadioAsAsked,
    FilterAsAsked, SmartAsAsked, DblBuffAsAsked, AutoAckAsAsked, TimeoutAsAsked
<1> QED BY <1>1, <1>3 DEF AsAsked

\* dwt_initialise makes the copies from what it reads back.
LEMMA InitialiseExact == ASSUME IInv, Initialise PROVE IInv'
<1>1. Shape'
  BY DEF Initialise, Shape, ReadBack, ResetChip
<1>2. Copies'
  BY DEF Initialise, Copies, ReadBack, ResetChip, PhrMode
<1>3. FlagsAsAsked'
  BY DEF Initialise, ResetChip, FlagsAsAsked, RadioAsAsked, FilterAsAsked, SmartAsAsked,
    DblBuffAsAsked, AutoAckAsAsked, TimeoutAsAsked
<1>4. FieldsAsAsked'
  BY DEF Initialise, FieldsAsAsked, ResetChip
<1> QED BY <1>1, <1>2, <1>3, <1>4 DEF IInv, Exact

(***************************************************************************)
(* What the calls that write SYS_CFG and nothing else of the transceiver's *)
(* state have in common: the flags but the one they name, and the settings *)
(* made of them, stay.                                                     *)
(***************************************************************************)
LEMMA FlagsKept ==
  ASSUME FlagsAsAsked, NEW f,
         \A s \in (DOMAIN asked' \cap FlagSettings) \ {f} :
           s \in DOMAIN asked /\ asked'[s] = asked[s],
         "radio" # f => /\ "RXM110K" \in chip'.sys_cfg <=> "RXM110K" \in chip.sys_cfg
                        /\ "PHR_MODE" \in chip'.sys_cfg <=> "PHR_MODE" \in chip.sys_cfg
                        /\ chip'.radio = chip.radio,
         "filter" # f => /\ "FFE" \in chip'.sys_cfg <=> "FFE" \in chip.sys_cfg
                         /\ chip'.sys_cfg \cap FrameTypes = chip.sys_cfg \cap FrameTypes,
         "smart" # f => ("DIS_STXP" \in chip'.sys_cfg <=> "DIS_STXP" \in chip.sys_cfg),
         "dblBuff" # f => ("DIS_DRXB" \in chip'.sys_cfg <=> "DIS_DRXB" \in chip.sys_cfg),
         "autoAck" # f => ("AUTOACK" \in chip'.sys_cfg <=> "AUTOACK" \in chip.sys_cfg),
         "timeout" # f => /\ "RXWTOE" \in chip'.sys_cfg <=> "RXWTOE" \in chip.sys_cfg
                          /\ chip'.fwto = chip.fwto
  PROVE  /\ f # "radio" => RadioAsAsked'
         /\ f # "filter" => FilterAsAsked'
         /\ f # "smart" => SmartAsAsked'
         /\ f # "dblBuff" => DblBuffAsAsked'
         /\ f # "autoAck" => AutoAckAsAsked'
         /\ f # "timeout" => TimeoutAsAsked'
BY DEF FlagSettings, FlagsAsAsked, PhrMode, RadioAsAsked, FilterAsAsked, SmartAsAsked,
  DblBuffAsAsked, AutoAckAsAsked, TimeoutAsAsked

\* dwt_configure: both registers it writes, and both copies, are the same; it
\* asks for the byte of dwt_configurefor64plen it replaces.
LEMMA ConfigureExact == ASSUME IInv, Ready, NEW c \in Configs, Configure(c) PROVE IInv'
<1> USE DEF IInv, Exact
<1>0. /\ c = [slow |-> c.slow, phrMode |-> c.phrMode, code |-> c.code]
      /\ c.slow \in BOOLEAN /\ c.phrMode \in {0, 3}
  BY ConfigsAssumption
<1>1. Shape'
  BY DEF Configure, Shape
<1>2. Copies'
  BY <1>0 DEF Configure, Shape, Copies, PhrMode, Put
<1>3. FlagsAsAsked'
  <2> DEFINE slow == Put(local.sysCFGreg, "RXM110K", c.slow)
             cfg == Put(slow, "PHR_MODE", c.phrMode = 3)
  <2>1. /\ chip'.sys_cfg = cfg /\ chip'.radio = c.code /\ chip'.fwto = chip.fwto
        /\ local.sysCFGreg = chip.sys_cfg
    BY DEF Configure, Shape, Copies
  <2>2. /\ asked'["radio"] = c
        /\ \A s \in (DOMAIN asked' \cap FlagSettings) \ {"radio"} :
             s \in DOMAIN asked /\ asked'[s] = asked[s]
    BY DEF Configure, Asking, Over, FlagSettings
  <2>3. /\ "RXM110K" \in cfg <=> c.slow
        /\ "PHR_MODE" \in cfg <=> c.phrMode = 3
        /\ \A x : x \notin {"RXM110K", "PHR_MODE"} => (x \in cfg <=> x \in chip.sys_cfg)
        /\ cfg \cap FrameTypes = chip.sys_cfg \cap FrameTypes
    BY <1>0, <2>1, FlagsAssumption DEF Put
  <2> HIDE DEF cfg
  <2>4. RadioAsAsked'
    BY <1>0, <2>1, <2>2, <2>3 DEF RadioAsAsked, PhrMode
  <2>5. FilterAsAsked' /\ TimeoutAsAsked'
    BY <2>1, <2>2, <2>3 DEF FlagsAsAsked, FilterAsAsked, TimeoutAsAsked, FlagSettings
  <2>6. SmartAsAsked' /\ DblBuffAsAsked' /\ AutoAckAsAsked'
    BY <2>1, <2>2, <2>3 DEF FlagsAsAsked, SmartAsAsked, DblBuffAsAsked, AutoAckAsAsked,
      FlagSettings
  <2> QED BY <2>4, <2>5, <2>6 DEF FlagsAsAsked
<1>4. FieldsAsAsked'
  <2> DEFINE tune == [r \in {"DRX_TUNE2+2"} \cap Plain |-> c.code]
             new == Over(tune, [radio |-> c, frame |-> NoFrame])
  <2>1. /\ chip'.plain = Over(tune, chip.plain) /\ chip'.ack = chip.ack
        /\ chip'.tx_fctrl = [None EXCEPT !.mode = c.code]
        /\ asked' = Over(new, asked)
    BY DEF Configure, Shape, Asking
  <2>2. /\ DOMAIN new = {"radio", "frame"} \cup DOMAIN tune
        /\ new["frame"] = NoFrame
        /\ \A s \in DOMAIN tune : s = "DRX_TUNE2+2" /\ new[s] = tune[s]
    BY DEF Over
  <2> HIDE DEF tune, new
  <2>3. /\ DOMAIN asked' = DOMAIN asked \cup DOMAIN new
        /\ \A s \in DOMAIN asked' : asked'[s] = IF s \in DOMAIN new THEN new[s] ELSE asked[s]
    BY <2>1 DEF Over
  <2>4. /\ DOMAIN chip'.plain = DOMAIN chip.plain \cup DOMAIN tune
        /\ \A s \in DOMAIN chip'.plain :
             chip'.plain[s] = IF s \in DOMAIN tune THEN tune[s] ELSE chip.plain[s]
    BY <2>1 DEF Over
  <2>5. /\ "ackTime" \in DOMAIN asked' => asked'["ackTime"] = chip'.ack.ack_tim
        /\ "rxDelay" \in DOMAIN asked' => asked'["rxDelay"] = chip'.ack.w4r
    BY <2>1, <2>2, <2>3 DEF FieldsAsAsked
  <2>6. asked'["frame"] = [len |-> chip'.tx_fctrl.len, off |-> chip'.tx_fctrl.off,
                           tr |-> chip'.tx_fctrl.tr]
    BY <2>1, <2>2, <2>3 DEF None, NoFrame
  <2>7. ASSUME NEW s \in DOMAIN asked',
               s \notin {"radio", "filter", "smart", "dblBuff", "autoAck", "timeout", "ackTime",
                         "rxDelay", "frame"}
        PROVE  s \in DOMAIN chip'.plain /\ asked'[s] = chip'.plain[s]
    BY <2>2, <2>3, <2>4, <2>7 DEF FieldsAsAsked
  <2> QED BY <2>5, <2>6, <2>7 DEF FieldsAsAsked
<1> QED BY <1>1, <1>2, <1>3, <1>4

\* dwt_setrxtimeout: register and copy take the same bit, of equal words.
LEMMA SetRxTimeoutExact == ASSUME IInv, Ready, NEW t \in Times, SetRxTimeout(t) PROVE IInv'
<1> USE DEF IInv, Exact
<1>1. Shape'
  BY DEF SetRxTimeout, Shape
<1>2. Copies'
  BY DEF SetRxTimeout, Shape, Copies, PhrMode, Put, Asking, Over
<1>3. FlagsAsAsked'
  <2>1. /\ chip'.sys_cfg = Put(chip.sys_cfg, "RXWTOE", t > 0)
        /\ chip'.radio = chip.radio
        /\ chip'.fwto = IF t > 0 THEN t ELSE chip.fwto
    BY DEF SetRxTimeout, Shape
  <2>2. /\ \A s \in DOMAIN asked' \ {"timeout"} : s \in DOMAIN asked /\ asked'[s] = asked[s]
        /\ asked'["timeout"] = t
    BY DEF SetRxTimeout, Asking, Over
  <2>3. /\ "RXWTOE" \in chip'.sys_cfg <=> t > 0
        /\ \A x : x # "RXWTOE" => (x \in chip'.sys_cfg <=> x \in chip.sys_cfg)
        /\ chip'.sys_cfg \cap FrameTypes = chip.sys_cfg \cap FrameTypes
    BY <2>1, FlagsAssumption DEF Put
  <2>4. TimeoutAsAsked'
    BY <2>1, <2>2, <2>3, TimesAssumption DEF TimeoutAsAsked
  <2> QED BY <2>1, <2>2, <2>3, <2>4, FlagsKept DEF FlagsAsAsked, FlagSettings
<1>4. FieldsAsAsked'
  BY DEF SetRxTimeout, Shape, FieldsAsAsked, Asking, Over
<1> QED BY <1>1, <1>2, <1>3, <1>4

\* dwt_setsmarttxpower: what is read back is the copy, but for its bit.
LEMMA SetSmartTxPowerExact ==
  ASSUME IInv, Ready, NEW b \in BOOLEAN, SetSmartTxPower(b)
  PROVE  IInv'
<1> USE DEF IInv, Exact
<1>1. Shape'
  BY DEF SetSmartTxPower, Shape, WriteCfg
<1>2. Copies'
  BY FlagsAssumption DEF SetSmartTxPower, Shape, Copies, PhrMode, Put, Asking, Over, WriteCfg
<1>3. FlagsAsAsked'
  <2>1. /\ chip'.sys_cfg = Put(chip.sys_cfg, "DIS_STXP", ~b)
        /\ chip'.radio = chip.radio /\ chip'.fwto = chip.fwto
    BY DEF SetSmartTxPower, Shape, Copies, Put, WriteCfg
  <2>2. /\ \A s \in DOMAIN asked' \ {"smart"} : s \in DOMAIN asked /\ asked'[s] = asked[s]
        /\ asked'["smart"] = b
    BY DEF SetSmartTxPower, Asking, Over
  <2>3. /\ "DIS_STXP" \in chip'.sys_cfg <=> ~b
        /\ \A x : x # "DIS_STXP" => (x \in chip'.sys_cfg <=> x \in chip.sys_cfg)
        /\ chip'.sys_cfg \cap FrameTypes = chip.sys_cfg \cap FrameTypes
    BY <2>1, FlagsAssumption DEF Put
  <2>4. SmartAsAsked'
    BY <2>1, <2>2, <2>3 DEF SmartAsAsked
  <2> QED BY <2>1, <2>2, <2>3, <2>4, FlagsKept DEF FlagsAsAsked, FlagSettings
<1>4. FieldsAsAsked'
  BY DEF SetSmartTxPower, Shape, FieldsAsAsked, Asking, Over, WriteCfg
<1> QED BY <1>1, <1>2, <1>3, <1>4

\* dwt_setdblrxbuffmode: the copy it writes is exact, but for its bit.
LEMMA SetDblRxBuffModeExact ==
  ASSUME IInv, Ready, NEW b \in BOOLEAN, SetDblRxBuffMode(b)
  PROVE  IInv'
<1> USE DEF IInv, Exact
<1>1. Shape'
  BY DEF SetDblRxBuffMode, Shape
<1>2. Copies'
  BY FlagsAssumption DEF SetDblRxBuffMode, Shape, Copies, PhrMode, Put, Asking, Over
<1>3. FlagsAsAsked'
  <2>1. /\ chip'.sys_cfg = Put(chip.sys_cfg, "DIS_DRXB", ~b)
        /\ chip'.radio = chip.radio /\ chip'.fwto = chip.fwto
    BY DEF SetDblRxBuffMode, Shape, Copies, Put
  <2>2. /\ \A s \in DOMAIN asked' \ {"dblBuff"} : s \in DOMAIN asked /\ asked'[s] = asked[s]
        /\ asked'["dblBuff"] = b
    BY DEF SetDblRxBuffMode, Asking, Over
  <2>3. /\ "DIS_DRXB" \in chip'.sys_cfg <=> ~b
        /\ \A x : x # "DIS_DRXB" => (x \in chip'.sys_cfg <=> x \in chip.sys_cfg)
        /\ chip'.sys_cfg \cap FrameTypes = chip.sys_cfg \cap FrameTypes
    BY <2>1, FlagsAssumption DEF Put
  <2>4. DblBuffAsAsked'
    BY <2>1, <2>2, <2>3 DEF DblBuffAsAsked
  <2> QED BY <2>1, <2>2, <2>3, <2>4, FlagsKept DEF FlagsAsAsked, FlagSettings
<1>4. FieldsAsAsked'
  BY DEF SetDblRxBuffMode, Shape, FieldsAsAsked, Asking, Over
<1> QED BY <1>1, <1>2, <1>3, <1>4

\* dwt_enableautoack: the copy it writes is exact, but for its bit.
LEMMA EnableAutoAckExact == ASSUME IInv, Ready, NEW t, EnableAutoAck(t) PROVE IInv'
<1> USE DEF IInv, Exact
<1>1. Shape'
  BY DEF EnableAutoAck, Shape
<1>2. Copies'
  BY FlagsAssumption DEF EnableAutoAck, Shape, Copies, PhrMode, Put, Asking, Over
<1>3. FlagsAsAsked'
  <2>1. /\ chip'.sys_cfg = Put(chip.sys_cfg, "AUTOACK", TRUE)
        /\ chip'.radio = chip.radio /\ chip'.fwto = chip.fwto
    BY DEF EnableAutoAck, Shape, Copies, Put
  <2>2. /\ \A s \in DOMAIN asked' \ {"autoAck", "ackTime"} :
             s \in DOMAIN asked /\ asked'[s] = asked[s]
        /\ asked'["autoAck"] = TRUE
    BY DEF EnableAutoAck, Asking, Over
  <2>3. /\ "AUTOACK" \in chip'.sys_cfg
        /\ \A x : x # "AUTOACK" => (x \in chip'.sys_cfg <=> x \in chip.sys_cfg)
        /\ chip'.sys_cfg \cap FrameTypes = chip.sys_cfg \cap FrameTypes
    BY <2>1, FlagsAssumption DEF Put
  <2>4. AutoAckAsAsked'
    BY <2>1, <2>2, <2>3 DEF AutoAckAsAsked
  <2>5. RadioAsAsked'
    <3>1. RadioAsAsked
      BY DEF FlagsAsAsked
    <3>2. ("RXM110K" \in chip'.sys_cfg) = ("RXM110K" \in chip.sys_cfg)
      BY <2>3
    <3>3. PhrMode(chip'.sys_cfg) = PhrMode(chip.sys_cfg)
      BY <2>3 DEF PhrMode
    <3>4. "radio" \in DOMAIN asked' =>
            "radio" \in DOMAIN asked /\ asked'["radio"] = asked["radio"]
      BY <2>2
    <3> HIDE DEF IInv, Exact
    <3> QED BY <2>1, <3>1, <3>2, <3>3, <3>4 DEF RadioAsAsked
  <2>6. FilterAsAsked'
    BY <2>1, <2>2, <2>3 DEF FlagsAsAsked, FilterAsAsked
  <2>7. SmartAsAsked' /\ DblBuffAsAsked' /\ TimeoutAsAsked'
    BY <2>1, <2>2, <2>3 DEF FlagsAsAsked, SmartAsAsked, DblBuffAsAsked, TimeoutAsAsked
  <2> QED BY <2>4, <2>5, <2>6, <2>7 DEF FlagsAsAsked
<1>4. FieldsAsAsked'
  BY DEF EnableAutoAck, Shape, FieldsAsAsked, Asking, Over
<1> QED BY <1>1, <1>2, <1>3, <1>4

\* dwt_enableframefilter: the flags that are no frame types stay.
LEMMA EnableFrameFilterExact ==
  ASSUME IInv, Ready, NEW e \in SUBSET (FrameTypes \cup {"other"}), EnableFrameFilter(e)
  PROVE  IInv'
<1> USE DEF IInv, Exact
<1>0. /\ chip'.sys_cfg = IF e # {}
                            THEN (chip.sys_cfg \ FrameTypes) \cup (e \cap FrameTypes) \cup {"FFE"}
                            ELSE chip.sys_cfg \ {"FFE"}
      /\ local'.sysCFGreg = chip'.sys_cfg
      /\ chip'.radio = chip.radio /\ chip'.fwto = chip.fwto
  BY DEF EnableFrameFilter, WriteCfg, Shape
<1>1. Shape'
  BY DEF EnableFrameFilter, WriteCfg, Shape
<1>2. \A x \in {"HIRQ_POL", "DIS_DRXB", "PHR_MODE", "DIS_STXP", "RXM110K", "RXWTOE", "AUTOACK"} :
        x \in chip'.sys_cfg <=> x \in chip.sys_cfg
  BY <1>0, FlagsAssumption
<1>3. Copies'
  BY <1>0, <1>2 DEF EnableFrameFilter, WriteCfg, Shape, Copies, PhrMode, Asking, Over
<1>4. FlagsAsAsked'
  <2>1. /\ \A s \in DOMAIN asked' \ {"filter"} : s \in DOMAIN asked /\ asked'[s] = asked[s]
        /\ asked'["filter"] = e \cap FrameTypes
    BY DEF EnableFrameFilter, Asking, Over
  <2>2. FilterAsAsked'
    BY <1>0, <2>1, FlagsAssumption DEF FilterAsAsked
  <2> QED BY <1>0, <1>2, <2>1, <2>2, FlagsKept DEF FlagsAsAsked, FlagSettings
<1>5. FieldsAsAsked'
  BY DEF EnableFrameFilter, WriteCfg, Shape, FieldsAsAsked, Asking, Over
<1> QED BY <1>1, <1>3, <1>4, <1>5

\* dwt_setrxaftertxdelay: the other half of ACK_RESP_T stays.
LEMMA SetRxAfterTxDelayExact ==
  ASSUME IInv, Ready, NEW t, SetRxAfterTxDelay(t) PROVE IInv'
<1> USE DEF IInv, Exact
<1>1. Shape'
  BY DEF SetRxAfterTxDelay, Shape
<1>2. Copies'
  BY DEF SetRxAfterTxDelay, Shape, Copies, Asking, Over
<1>3. FlagsAsAsked'
  <2>1. /\ chip'.sys_cfg = chip.sys_cfg /\ chip'.radio = chip.radio /\ chip'.fwto = chip.fwto
    BY DEF SetRxAfterTxDelay, Shape
  <2>2. \A s \in DOMAIN asked' \ {"rxDelay"} : s \in DOMAIN asked /\ asked'[s] = asked[s]
    BY DEF SetRxAfterTxDelay, Asking, Over
  <2> QED BY <2>1, <2>2, FlagsKept DEF FlagsAsAsked, FlagSettings
<1>4. FieldsAsAsked'
  BY DEF SetRxAfterTxDelay, Shape, FieldsAsAsked, Asking, Over
<1> QED BY <1>1, <1>2, <1>3, <1>4

\* dwt_writetxfctrl: the word it ORs the frame into names no frame.
LEMMA WriteTxFctrlExact ==
  ASSUME IInv, Ready, "radio" \in DOMAIN asked, NEW f \in Frames, WriteTxFctrl(f)
  PROVE  IInv'
<1> USE DEF IInv, Exact
<1>0. f = [len |-> f.len, off |-> f.off, tr |-> f.tr]
  BY FramesAssumption
<1>1. Shape'
  BY DEF WriteTxFctrl, Shape
<1>2. Copies'
  BY DEF WriteTxFctrl, Shape, Copies, Asking, Over, None
<1>3. FlagsAsAsked'
  <2>1. /\ chip'.sys_cfg = chip.sys_cfg /\ chip'.radio = chip.radio /\ chip'.fwto = chip.fwto
    BY DEF WriteTxFctrl, Shape
  <2>2. \A s \in DOMAIN asked' \ {"frame"} : s \in DOMAIN asked /\ asked'[s] = asked[s]
    BY DEF WriteTxFctrl, Asking, Over
  <2> QED BY <2>1, <2>2, FlagsKept DEF FlagsAsAsked, FlagSettings
<1>4. FieldsAsAsked'
  BY <1>0 DEF WriteTxFctrl, Shape, Copies, FieldsAsAsked, Asking, Over, None
<1> QED BY <1>1, <1>2, <1>3, <1>4

(***************************************************************************)
(* A call that writes W to registers without a copy, A of it               *)
(* because it was asked to and the rest as it was.                         *)
(***************************************************************************)
LEMMA PlainExact ==
  ASSUME IInv, Ready, NEW W, NEW A,
         chip' = [chip EXCEPT !.plain = Over(W, @)], asked' = Over(A, asked), local' = local,
         DOMAIN A \cap SharedSettings = {},
         \A s \in DOMAIN A : s \in DOMAIN W /\ A[s] = W[s],
         \A s \in (DOMAIN asked \cap DOMAIN W) \ DOMAIN A : s \in SharedSettings \/ asked[s] = W[s]
  PROVE  IInv'
<1> USE DEF IInv, Exact
<1>1. Shape'
  BY DEF Shape
<1>2. /\ DOMAIN asked' = DOMAIN asked \cup DOMAIN A
      /\ \A s \in DOMAIN asked' : asked'[s] = IF s \in DOMAIN A THEN A[s] ELSE asked[s]
  BY DEF Over
<1>3. /\ chip'.sys_cfg = chip.sys_cfg /\ chip'.radio = chip.radio /\ chip'.fwto = chip.fwto
      /\ chip'.tx_fctrl = chip.tx_fctrl /\ chip'.ack = chip.ack
      /\ chip'.plain = Over(W, chip.plain)
  BY DEF Shape
<1>4. Copies'
  BY <1>2, <1>3 DEF Copies, SharedSettings, PhrMode
<1>5. FlagsAsAsked'
  BY <1>2, <1>3, FlagsKept DEF FlagsAsAsked, FlagSettings, SharedSettings
<1>6. FieldsAsAsked'
  <2>1. ASSUME NEW s \in DOMAIN asked', s \in DOMAIN A
        PROVE  s \in DOMAIN chip'.plain /\ asked'[s] = chip'.plain[s]
    BY <1>2, <1>3, <2>1 DEF Over
  <2>2. ASSUME NEW s \in DOMAIN asked', s \notin DOMAIN A, s \notin SharedSettings
        PROVE  s \in DOMAIN chip'.plain /\ asked'[s] = chip'.plain[s]
    <3>1. s \in DOMAIN asked /\ asked'[s] = asked[s]
      BY <1>2, <2>2
    <3>2. s \in DOMAIN chip.plain /\ asked[s] = chip.plain[s]
      BY <2>2, <3>1 DEF FieldsAsAsked, SharedSettings
    <3> QED BY <1>3, <2>2, <3>1, <3>2 DEF Over
  <2>3. /\ "ackTime" \in DOMAIN asked' => asked'["ackTime"] = chip'.ack.ack_tim
        /\ "rxDelay" \in DOMAIN asked' => asked'["rxDelay"] = chip'.ack.w4r
        /\ "frame" \in DOMAIN asked' =>
             asked'["frame"] = [len |-> chip'.tx_fctrl.len, off |-> chip'.tx_fctrl.off,
                                tr |-> chip'.tx_fctrl.tr]
    BY <1>2, <1>3 DEF FieldsAsAsked, SharedSettings
  <2> QED BY <2>1, <2>2, <2>3 DEF FieldsAsAsked, SharedSettings
<1> QED BY <1>1, <1>4, <1>5, <1>6

\* The calls that write some registers leave all others alone.
LEMMA WriteExact ==
  ASSUME IInv, EventBits, Ready, NEW R \in SUBSET OwnRegisters, NEW v, Write(R, v)
  PROVE  IInv' /\ EventBits'
<1> DEFINE new == [r \in R \cap Plain |-> v]
<1>1. /\ chip' = [chip EXCEPT !.plain = Over(new, @)] /\ asked' = Over(new, asked)
      /\ local' = local
  BY DEF Write, Asking
<1>2. IInv'
  BY <1>1, PlainExact DEF OwnRegisters, SharedSettings
<1>3. EventBits'
  BY <1>1, EventsAssumption DEF EventBits, Over, IInv, Shape
<1> QED BY <1>2, <1>3

\* dwt_setlnapamode: the modes of the other pins are written as they were read.
LEMMA SetLnaPaModeExact ==
  ASSUME IInv, EventBits, Ready, NEW lna \in BOOLEAN, NEW pa \in BOOLEAN, SetLnaPaMode(lna, pa)
  PROVE  IInv' /\ EventBits'
<1> DEFINE new == [r \in {"MSGP4", "MSGP5", "MSGP6"} \cap Plain |->
                     Bit(IF r = "MSGP6" THEN lna ELSE pa)]
<1>1. /\ chip' = [chip EXCEPT !.plain = Over(new, @)] /\ asked' = Over(new, asked)
      /\ local' = local
  BY DEF SetLnaPaMode, WriteBack, Asking
<1>2. IInv'
  BY <1>1, PlainExact DEF SharedSettings
<1>3. EventBits'
  BY <1>1, EventsAssumption DEF EventBits, Over, IInv, Shape, OwnRegisters
<1> QED BY <1>2, <1>3

\* dwt_setleds: the modes of the other pins are written as they were read.
LEMMA SetLedsExact ==
  ASSUME IInv, EventBits, Ready, NEW on \in BOOLEAN, SetLeds(on)
  PROVE  IInv' /\ EventBits'
<1> DEFINE new == [r \in {"MSGP2", "MSGP3"} \cap Plain |-> Bit(on)]
<1>1. /\ chip' = [chip EXCEPT !.plain = Over(new, @)] /\ asked' = Over(new, asked)
      /\ local' = local
  BY DEF SetLeds, WriteBack, Asking
<1>2. IInv'
  BY <1>1, PlainExact DEF SharedSettings
<1>3. EventBits'
  BY <1>1, EventsAssumption DEF EventBits, Over, IInv, Shape, OwnRegisters
<1> QED BY <1>2, <1>3

\* dwt_calcbandwidthtempadj: nothing is said of the delay any more, and all
\* else stays.
LEMMA TryDelaysExact ==
  ASSUME IInv, EventBits, Ready, NEW v, TryDelays(v)
  PROVE  IInv' /\ EventBits'
<1> USE DEF IInv, Exact
<1> DEFINE new == [r \in {"TC_PGDELAY"} \cap Plain |-> v]
<1>1. /\ chip' = [chip EXCEPT !.plain = Over(new, @)] /\ local' = local
      /\ DOMAIN asked' = DOMAIN asked \ {"TC_PGDELAY"}
      /\ \A s \in DOMAIN asked' : asked'[s] = asked[s]
  BY DEF TryDelays
<1>2. Shape'
  BY <1>1 DEF Shape
<1>3. /\ chip'.sys_cfg = chip.sys_cfg /\ chip'.radio = chip.radio /\ chip'.fwto = chip.fwto
      /\ chip'.tx_fctrl = chip.tx_fctrl /\ chip'.ack = chip.ack
      /\ chip'.plain = Over(new, chip.plain)
  BY <1>1 DEF Shape
<1>4. Copies'
  BY <1>1, <1>3 DEF Copies, PhrMode
<1>5. FlagsAsAsked'
  BY <1>1, <1>3, FlagsKept DEF FlagsAsAsked, FlagSettings
<1>6. FieldsAsAsked'
  BY <1>1, <1>3 DEF FieldsAsAsked, Over
<1>7. EventBits'
  BY <1>3, EventsAssumption DEF EventBits, Over, OwnRegisters
<1> QED BY <1>2, <1>4, <1>5, <1>6, <1>7

\* dwt_setinterrupt: the events the mask does not name stay as they were.
LEMMA SetInterruptExact ==
  ASSUME IInv, EventBits, Ready, NEW bitmask \in SUBSET Events, NEW operation \in 0 .. 2,
         SetInterrupt(bitmask, operation)
  PROVE  IInv' /\ EventBits'
<1> DEFINE mask == {e \in Events : chip.plain[e] = 1}
           new == CASE operation = 2 -> bitmask
                    [] operation = 1 -> mask \cup bitmask
                    [] operation = 0 -> mask \ bitmask
           W == [e \in Events |-> Bit(e \in new)]
           A == [e \in IF operation = 2 THEN Events ELSE bitmask |->
                   Bit(operation # 0 /\ e \in bitmask)]
<1>1. /\ chip' = [chip EXCEPT !.plain = Over(W, @)] /\ asked' = Over(A, asked)
      /\ local' = local
  BY DEF SetInterrupt, Asking
<1>2. \A e \in DOMAIN A : e \in DOMAIN W /\ A[e] = W[e]
  BY DEF Bit
<1>3. ASSUME NEW e \in (DOMAIN asked \cap DOMAIN W) \ DOMAIN A PROVE asked[e] = W[e]
  <2>1. e \in Events \ bitmask /\ operation # 2
    BY <1>3
  <2>2. W[e] = Bit(chip.plain[e] = 1)
    BY <2>1
  <2>3. chip.plain[e] = Bit(chip.plain[e] = 1)
    BY <2>1 DEF EventBits, Bit
  <2>4. e \notin SharedSettings
    BY <2>1, EventsAssumption
  <2>5. asked[e] = chip.plain[e]
    BY <1>3, <2>4 DEF IInv, Exact, FieldsAsAsked, SharedSettings
  <2> QED BY <2>2, <2>3, <2>5
<1>4. DOMAIN A \cap SharedSettings = {}
  BY EventsAssumption
<1>5. EventBits'
  BY <1>1 DEF EventBits, Over, IInv, Shape, Bit
<1> HIDE DEF W, A
<1>6. IInv'
  BY <1>1, <1>2, <1>3, <1>4, PlainExact
<1> QED BY <1>5, <1>6

\* All other calls leave those registers alone.
LEMMA EventBitsKept ==
  ASSUME Shape, EventBits, chip'.plain = chip.plain
  PROVE  EventBits'
BY DEF EventBits

\* Every call preserves the invariant.
LEMMA CallsExact == IInv /\ EventBits /\ [Calls]_vars => IInv' /\ EventBits'
<1> SUFFICES ASSUME IInv, EventBits, [Calls]_vars PROVE IInv' /\ EventBits'
  OBVIOUS
<1>1. CASE Initialise
  <2>1. EventBits'
    BY <1>1, EventsAssumption DEF Initialise, EventBits, ResetChip
  <2> QED BY <1>1, <2>1, InitialiseExact
<1>2. ASSUME Ready, NEW c \in Configs, Configure(c) PROVE IInv' /\ EventBits'
  <2>1. chip'.plain = Over([r \in {"DRX_TUNE2+2"} \cap Plain |-> c.code], chip.plain)
    BY <1>2 DEF Configure, IInv, Shape
  <2>2. EventBits'
    BY <2>1, EventsAssumption DEF EventBits, Over, OwnRegisters
  <2> QED BY <1>2, <2>2, ConfigureExact
<1>3. ASSUME Ready, NEW e \in SUBSET (FrameTypes \cup {"other"}), EnableFrameFilter(e)
      PROVE  IInv' /\ EventBits'
  <2>1. chip'.plain = chip.plain
    BY <1>3 DEF EnableFrameFilter, WriteCfg, IInv, Shape
  <2> QED BY <1>3, <2>1, EnableFrameFilterExact, EventBitsKept DEF IInv
<1>4. ASSUME Ready, NEW b \in BOOLEAN, SetSmartTxPower(b) \/ SetDblRxBuffMode(b)
      PROVE  IInv' /\ EventBits'
  <2>1. chip'.plain = chip.plain
    BY <1>4 DEF SetSmartTxPower, SetDblRxBuffMode, WriteCfg, IInv, Shape
  <2>2. IInv'
    BY <1>4, SetSmartTxPowerExact, SetDblRxBuffModeExact
  <2> QED BY <2>1, <2>2, EventBitsKept DEF IInv
<1>5. ASSUME Ready, NEW t \in Times,
             EnableAutoAck(t) \/ SetRxAfterTxDelay(t) \/ SetRxTimeout(t)
      PROVE  IInv' /\ EventBits'
  <2>1. chip'.plain = chip.plain
    BY <1>5 DEF EnableAutoAck, SetRxAfterTxDelay, SetRxTimeout, IInv, Shape
  <2>2. IInv'
    BY <1>5, EnableAutoAckExact, SetRxAfterTxDelayExact, SetRxTimeoutExact
  <2> QED BY <2>1, <2>2, EventBitsKept DEF IInv
<1>6. ASSUME Ready, "radio" \in DOMAIN asked, NEW f \in Frames, WriteTxFctrl(f)
      PROVE  IInv' /\ EventBits'
  <2>1. chip'.plain = chip.plain
    BY <1>6 DEF WriteTxFctrl, IInv, Shape
  <2> QED BY <1>6, <2>1, WriteTxFctrlExact, EventBitsKept DEF IInv
<1>7. ASSUME Ready, NEW v \in Values,
             \/ ConfigureTxRf(v) \/ ConfigureFor64PLen(v) \/ SetRxAntennaDelay(v)
             \/ SetTxAntennaDelay(v) \/ SetPanId(v) \/ SetAddress16(v) \/ SetEui(v)
             \/ SetPreambleDetectTimeout(v) \/ SetFineGrainTxSeq(v) \/ SetXtalTrim(v)
             \/ MeasurePg(v)
      PROVE  IInv' /\ EventBits'
  <2>1. PICK R \in SUBSET OwnRegisters : Write(R, v)
    BY <1>7 DEF ConfigureTxRf, ConfigureFor64PLen, SetRxAntennaDelay, SetTxAntennaDelay, SetPanId,
      SetAddress16, SetEui, SetPreambleDetectTimeout, SetFineGrainTxSeq, SetXtalTrim, MeasurePg,
      OwnRegisters
  <2> QED BY <1>7, <2>1, WriteExact
<1>8. ASSUME Ready, NEW pins \in SUBSET (0 .. 1), NEW v \in Values,
             SetGpioDirection(pins, v) \/ SetGpioValue(pins, v)
      PROVE  IInv' /\ EventBits'
  <2>1. PICK R \in SUBSET OwnRegisters : Write(R, v)
    BY <1>8 DEF SetGpioDirection, SetGpioValue, OwnRegisters
  <2> QED BY <1>8, <2>1, WriteExact
<1>9. ASSUME Ready, NEW lna \in BOOLEAN, NEW pa \in BOOLEAN, SetLnaPaMode(lna, pa)
      PROVE  IInv' /\ EventBits'
  BY <1>9, SetLnaPaModeExact
<1>10. ASSUME Ready, NEW bitmask \in SUBSET Events, NEW operation \in 0 .. 2,
              SetInterrupt(bitmask, operation)
       PROVE  IInv' /\ EventBits'
  BY <1>10, SetInterruptExact
<1>11. ASSUME Ready, NEW v \in Values, TryDelays(v) PROVE IInv' /\ EventBits'
  BY <1>11, TryDelaysExact
<1>12. ASSUME Ready, NEW on \in BOOLEAN, SetLeds(on) PROVE IInv' /\ EventBits'
  BY <1>12, SetLedsExact
<1>13. CASE UNCHANGED vars
  <2>1. Shape' /\ EventBits'
    BY <1>13 DEF IInv, Shape, EventBits, vars
  <2>2. Ready' => Copies' /\ FlagsAsAsked' /\ FieldsAsAsked'
    BY <1>13 DEF IInv, Exact, vars, Ready, Copies, FlagsAsAsked, FieldsAsAsked, RadioAsAsked,
      FilterAsAsked, SmartAsAsked, DblBuffAsAsked, AutoAckAsAsked, TimeoutAsAsked, PhrMode
  <2> QED BY <2>1, <2>2 DEF IInv, Exact
<1> QED
  BY <1>1, <1>2, <1>3, <1>4, <1>5, <1>6, <1>7, <1>8, <1>9, <1>10, <1>11, <1>12, <1>13
  DEF Calls

\* The invariant holds of any sequence of calls.
LEMMA AlwaysExact == Spec => []IInv
<1>1. Init => IInv /\ EventBits
  BY EventsAssumption DEF Init, IInv, Shape, ResetChip, Ready, EventBits
<1> QED BY <1>1, CallsExact, PTL DEF Spec

(***************************************************************************)
(* Whatever was called, the copies of dw1000local are those of the         *)
(* registers they stand for.                                               *)
(***************************************************************************)
THEOREM CopiesStayExact == Spec => []CopiesExact
<1>1. IInv => CopiesExact
  BY InvariantImplies
<1> QED BY <1>1, AlwaysExact, PTL

(***************************************************************************)
(* Whatever was called, each setting is the one that the last call that    *)
(* sets it asked for: no call, by writing a register it shares with        *)
(* another one, undoes what it does not set itself, for all configurations *)
(* and frames.  dwt_configure sets one byte of dwt_configurefor64plen.     *)
(***************************************************************************)
THEOREM SettingsStayAsAsked == Spec => []AsAsked
<1>1. IInv => AsAsked
  BY InvariantImplies
<1> QED BY <1>1, AlwaysExact, PTL

-----------------------------------------------------------------------------
(***************************************************************************)
(* Sleep (DwSleep). What the application needs on waking is remembered by  *)
(* the driver while it runs, and by the transceiver from then on.          *)
(***************************************************************************)

\* The registers and the application are records of their fields.
SleepShape ==
  /\ awake \in BOOLEAN /\ ldoTune \in BOOLEAN
  /\ aon = [wcfg |-> aon.wcfg, cfg0 |-> aon.cfg0, cfg1 |-> aon.cfg1]
  /\ app = [driver |-> app.driver, ucode |-> app.ucode, counted |-> app.counted,
            ready |-> app.ready]
  /\ app.driver \in BOOLEAN /\ app.ucode \in BOOLEAN /\ app.counted \in BOOLEAN
  /\ app.ready \in BOOLEAN

\* Flags of AON_WCFG that load all the application needs.
Carry(mode) ==
  /\ app.ucode => "ONW_LLDE" \in mode
  /\ ldoTune => "ONW_LLDO" \in mode

\* The transceiver holds it.
Holds ==
  /\ app.ucode => "ucode" \in loaded
  /\ ldoTune => "ldo" \in loaded

\* A flag is set that wakes the transceiver.
CanWake ==
  \/ {"WAKE_CS", "WAKE_WK"} \cap aon.cfg0 # {}
  \/ "WAKE_CNT" \in aon.cfg0 /\ "SLEEP_CEN" \in aon.cfg1

\* What is needed on waking is remembered by the driver while it runs, and by
\* AON_WCFG from the call of dwt_configuresleep on; the processor restarts only
\* then, so that the driver finds it again.
SleepInv ==
  /\ SleepShape
  /\ app.driver => Carry(sleep_mode)
  /\ aon.wcfg # {} \/ app.ready \/ ~awake => Carry(aon.wcfg)
  /\ awake /\ (app.driver \/ aon.wcfg # {}) => Holds
  /\ app.counted => "SLEEP_CEN" \in aon.cfg1
  /\ app.ready \/ ~awake => CanWake

\* What wakes with all flags set holds all.
LEMMA FetchedHolds ==
  ASSUME SleepShape, Carry(aon.wcfg)
  PROVE  /\ app.ucode => "ucode" \in Fetched
         /\ ldoTune => "ldo" \in Fetched
<1>1. /\ "ONW_LLDE" \in DOMAIN Loaded /\ Loaded["ONW_LLDE"] = "ucode"
      /\ "ONW_LLDO" \in DOMAIN Loaded /\ Loaded["ONW_LLDO"] = "ldo"
  BY DEF Loaded
<1> QED BY <1>1 DEF Carry, Fetched

LEMMA SleepInvKept == SleepInv /\ [SleepNext]_sleepvars => SleepInv'
<1> SUFFICES ASSUME SleepInv, [SleepNext]_sleepvars PROVE SleepInv'
  OBVIOUS
<1> USE DEF SleepInv
<1>1. ASSUME NEW ucode \in BOOLEAN, InitialiseReset(ucode) PROVE SleepInv'
  BY <1>1 DEF InitialiseReset, SleepShape, Carry, Holds, CanWake
<1>2. ASSUME NEW noUcode \in BOOLEAN, aon.wcfg # {}, InitialiseWake(noUcode) PROVE SleepInv'
  BY <1>2 DEF InitialiseWake, SleepShape, Carry, Holds, CanWake
<1>3. CASE ConfigureAwake
  BY <1>3 DEF ConfigureAwake, DriverRuns, SleepShape, Carry, Holds, CanWake
<1>4. CASE CalibrateSleepCnt
  BY <1>4 DEF CalibrateSleepCnt, DriverRuns, SleepShape, Carry, Holds, CanWake
<1>5. CASE ConfigureSleepCnt
  BY <1>5 DEF ConfigureSleepCnt, DriverRuns, SleepShape, Carry, Holds, CanWake
<1>6. ASSUME NEW mode \in SleepModes, NEW wake \in Wakes, ConfigureSleep(mode, wake)
      PROVE  SleepInv'
  <2>1. {"WAKE_CNT", "WAKE_CS", "WAKE_WK"} \cap wake # {}
    BY WakesAssumption
  <2> QED BY <1>6, <2>1 DEF ConfigureSleep, DriverRuns, SleepShape, Carry, Holds, CanWake
<1>7. CASE EnterSleep
  BY <1>7 DEF EnterSleep, DriverRuns, SleepShape, Carry, Holds, CanWake
<1>8. CASE ~awake /\ Wake
  <2>1. Holds'
    BY <1>8, FetchedHolds DEF Wake, Holds
  <2> QED BY <1>8, <2>1 DEF Wake, SleepShape, Carry, CanWake
<1>9. CASE aon.wcfg # {} /\ LoseRam
  BY <1>9 DEF LoseRam, SleepShape, Carry, Holds, CanWake
<1>10. CASE UNCHANGED sleepvars
  BY <1>10 DEF sleepvars, SleepShape, Carry, Holds, CanWake
<1> QED
  BY <1>1, <1>2, <1>3, <1>4, <1>5, <1>6, <1>7, <1>8, <1>9, <1>10
  DEF SleepNext, Elapse, Pin, SpiCsWakeUp

LEMMA SleepInvAlways == SleepSpec => []SleepInv
<1>1. SleepInit => SleepInv
  BY DEF SleepInit, SleepInv, SleepShape, Carry, Holds, CanWake
<1> QED BY <1>1, SleepInvKept, PTL DEF SleepSpec

(***************************************************************************)
(* A transceiver the driver runs on holds the microcode its application    *)
(* uses and the tuning of its OTP memory, for all modes and wake-ups       *)
(* (dwt_initialise, dwt_configuresleep).                                   *)
(***************************************************************************)
THEOREM WokenReadyAlways == SleepSpec => []WokenReady
<1>1. SleepInv => WokenReady
  BY DEF SleepInv, WokenReady, DriverRuns, Holds
<1> QED BY <1>1, SleepInvAlways, PTL

(***************************************************************************)
(* A transceiver asleep has something that wakes it, in whichever order    *)
(* the application configures the counter and the sleep.                   *)
(***************************************************************************)
THEOREM SleepsToWakeAlways == SleepSpec => []SleepsToWake
<1>1. SleepInv => SleepsToWake
  BY DEF SleepInv, SleepsToWake, CanWake
<1> QED BY <1>1, SleepInvAlways, PTL

-----------------------------------------------------------------------------
(***************************************************************************)
(* The one-time programmable memory (DwOtp). A weak bit is seen as         *)
(* programmed at the normal margin and as blank at the low one, or fades:  *)
(* only the check at the low margin tells that none is left.               *)
(***************************************************************************)

\* A weak bit is one of the value that is programmed: none is weak once the
\* value reads back at the low margin.
OtpInv ==
  /\ word \in [Bits -> {"blank", "weak", "strong"}]
  /\ value \subseteq Bits
  /\ \A b \in Bits : word[b] = "weak" => b \in value
  /\ at = "verify" => regs = MrRegs[4]
  /\ at = "idle" /\ prog_ok =>
       regs = MrRegs[0] /\ \A b \in Bits : word[b] = "strong" <=> b \in value

\* The mode of the margin is another than that of normal reading.
LEMMA MarginIsAMode == MrRegs[0] # MrRegs[4]
<1>1. MrRegs[0].mrb = 0
  BY DEF MrRegs, Regs
<1>2. MrRegs[4].mrb = 3
  BY DEF MrRegs, Regs
<1> QED BY <1>1, <1>2

LEMMA OtpInvKept == OtpInv /\ [OtpNext]_otpvars => OtpInv'
<1> SUFFICES ASSUME OtpInv, [OtpNext]_otpvars PROVE OtpInv'
  OBVIOUS
<1> USE DEF OtpInv
<1>1. ASSUME NEW v \in SUBSET Bits, OtpWriteAndVerify(v) PROVE OtpInv'
  BY <1>1 DEF OtpWriteAndVerify, OtpSetMrRegs
<1>2. CASE OtpProgWord32
  <2>1. PICK w \in [Bits -> {"blank", "weak", "strong"}] :
          /\ \A b \in Bits : IF b \in value /\ regs = MrRegs[1] THEN w[b] \in Pulsed(word[b])
                                                                ELSE w[b] = word[b]
          /\ word' = w
    BY <1>2 DEF OtpProgWord32
  <2>2. at = "program" /\ at' = "check" /\ UNCHANGED <<regs, value, retry, prog_ok>>
    BY <1>2 DEF OtpProgWord32
  <2>3. \A b \in Bits : word'[b] = "weak" => b \in value
    BY <2>1
  <2> QED BY <2>1, <2>2, <2>3
<1>3. CASE Check
  BY <1>3 DEF Check
<1>4. CASE Margin
  BY <1>4 DEF Margin, OtpSetMrRegs
<1>5. CASE Verify
  <2>1. /\ at' = "idle" /\ regs' = MrRegs[0] /\ UNCHANGED <<word, value, retry>>
        /\ regs = MrRegs[4]
    BY <1>5 DEF Verify, OtpSetMrRegs
  <2>2. prog_ok' => OtpRead = value
    BY <1>5 DEF Verify
  <2>3. OtpRead = {b \in Bits : word[b] = "strong"}
    BY <2>1 DEF OtpRead
  <2> QED BY <2>1, <2>2, <2>3
<1>6. CASE Fade
  <2>1. PICK b \in Bits : word[b] = "weak" /\ word' = [word EXCEPT ![b] = "blank"]
    BY <1>6 DEF Fade
  <2> QED BY <1>6, <2>1 DEF Fade
<1>7. CASE UNCHANGED otpvars
  BY <1>7 DEF otpvars
<1> QED BY <1>1, <1>2, <1>3, <1>4, <1>5, <1>6, <1>7 DEF OtpNext

(***************************************************************************)
(* After a call of dwt_otpwriteandverify that returned DWT_SUCCESS the     *)
(* word reads as the value whatever becomes of weak bits, for words of any *)
(* length, any value and any number of attempts.                           *)
(***************************************************************************)
THEOREM WrittenStays == OtpSpec => []WrittenIsKept
<1>1. OtpInit => OtpInv
  BY DEF OtpInit, OtpInv
<1>2. OtpInv => WrittenIsKept
  BY MarginIsAMode DEF OtpInv, WrittenIsKept, OtpRead
<1> QED BY <1>1, <1>2, OtpInvKept, PTL DEF OtpSpec

-----------------------------------------------------------------------------
(***************************************************************************)
(* The calibration of the bandwidth (DwCalibration). The search keeps the  *)
(* target between the counts of two delays it has measured, and no delay   *)
(* outside of them is closer than the best.                                *)
(***************************************************************************)

\* The steps of the search, each half of the one before.
Half(i) ==
  CASE i = 0 -> 128 [] i = 1 -> 64 [] i = 2 -> 32 [] i = 3 -> 16
    [] i = 4 -> 8 [] i = 5 -> 4 [] i = 6 -> 2 [] i = 7 -> 1

\* The counts at bw and at bw + bit, where the search has measured them, are on
\* either side of the target, and no delay that was measured comes closer than
\* the best.
BracketedBy(bw, bit, best, lowest) ==
  /\ bw \in 128 .. 255 /\ bw + bit <= 256
  /\ bw > 128 => Count(curve, bw) > target /\ lowest <= Off(bw)
  /\ bw + bit < 256 => Count(curve, bw + bit) <= target /\ lowest <= Off(bw + bit)
  /\ lowest \in 0 .. 300
  /\ lowest = 300 => best = 0
  /\ lowest < 300 => best \in 129 .. 255 /\ Off(best) = lowest

Bracketed == BracketedBy(search.bw, search.bit, search.best, search.lowest)

CalibrationInv ==
  /\ curve \in Curves
  /\ target \in Int
  /\ search.i \in 0 .. 7
  /\ search.bit = Half(search.i)
  /\ Bracketed

\* The count falls as the delay grows.
LEMMA CountFalls ==
  ASSUME NEW c \in Curves, NEW a \in 128 .. 255, NEW b \in 128 .. 255, a <= b
  PROVE  Count(c, a) \in Nat /\ Count(c, b) \in Nat /\ Count(c, b) <= Count(c, a)
<1>1. PICK top \in Nat, slope \in Nat : c.top = top /\ c.slope = slope
  BY CurvesAssumption
<1>2. PICK m \in Nat, n \in Nat : m = a - 128 /\ n = b - 128 /\ m <= n
  OBVIOUS
<1>3. slope * m \in Nat /\ slope * n \in Nat
  OBVIOUS
<1>4. slope * m <= slope * n
  BY <1>2
<1>5. PICK p \in Nat, q \in Nat : p = slope * m /\ q = slope * n /\ p <= q
  BY <1>3, <1>4
<1>6. Count(c, a) = (IF p < top THEN top - p ELSE 0) /\ Count(c, b) = (IF q < top THEN top - q ELSE 0)
  BY <1>1, <1>2, <1>5 DEF Count
<1> QED BY <1>5, <1>6

\* A count is a number.
LEMMA CountIsNat ==
  ASSUME NEW c \in Curves, NEW a \in 128 .. 255
  PROVE  Count(c, a) \in Nat
<1>1. a <= a
  OBVIOUS
<1> QED BY <1>1, CountFalls

\* The distance of a count from the target.
LEMMA OffIs ==
  ASSUME NEW b, NEW n \in Int, n = Count(curve, b), target \in Int
  PROVE  Off(b) = IF n > target THEN n - target ELSE target - n
BY DEF Off

LEMMA MeasureBrackets ==
  ASSUME CalibrationInv, Measure
  PROVE  CalibrationInv'
<1>1. PICK bw \in 128 .. 255, b \in Nat, i \in 0 .. 6 :
        /\ bw = search.bw /\ i = search.i /\ b >= 1 /\ bw + (2 * b) <= 256
        /\ search.bit = 2 * b /\ search.bit \div 2 = b /\ b = Half(i + 1)
        /\ bw + b \in 129 .. 255
  <2>1. PICK i \in 0 .. 6 : i = search.i
    BY DEF Measure, CalibrationInv
  <2>2. PICK b \in Nat : b = Half(i + 1) /\ b >= 1 /\ Half(i) = 2 * b /\ Half(i) \div 2 = b
    <3>1. Half(i + 1) \in Nat /\ Half(i + 1) >= 1 /\ Half(i) = 2 * Half(i + 1)
            /\ Half(i) \div 2 = Half(i + 1)
      BY <2>1 DEF Half
    <3> QED BY <3>1
  <2>3. PICK bw \in 128 .. 255 : bw = search.bw
    BY DEF CalibrationInv, Bracketed, BracketedBy
  <2>4. search.bit = 2 * b /\ search.bit \div 2 = b
    BY <2>1, <2>2 DEF CalibrationInv
  <2>5. bw + (2 * b) <= 256
    BY <2>3, <2>4 DEF CalibrationInv, Bracketed, BracketedBy
  <2>6. \A x \in 128 .. 255, y \in Nat : y >= 1 /\ x + (2 * y) <= 256 => x + y \in 129 .. 255
    OBVIOUS
  <2> QED BY <2>1, <2>2, <2>3, <2>4, <2>5, <2>6
<1>2. PICK n \in Nat : n = Count(curve, bw + b)
  <2>1. bw + b \in 128 .. 255
    BY <1>1
  <2> QED BY <2>1, CountIsNat DEF CalibrationInv
<1>3. PICK t \in Int : t = target
  BY DEF CalibrationInv
<1>4. PICK d \in Nat : d = (IF n > t THEN n - t ELSE t - n) /\ d = Off(bw + b)
  BY <1>2, <1>3, OffIs
<1>5. PICK low \in 0 .. 300 : low = search.lowest
  BY DEF CalibrationInv, Bracketed, BracketedBy
<1>6. /\ search'.i = search.i + 1 /\ search'.bit = b
      /\ search'.bw = IF n > t THEN bw + b ELSE bw
      /\ search'.best = IF d < low THEN bw + b ELSE search.best
      /\ search'.lowest = IF d < low THEN d ELSE low
      /\ UNCHANGED <<curve, target>>
  <2>1. search' = [i |-> search.i + 1, bit |-> b, bw |-> IF n > t THEN bw + b ELSE bw + b - b,
                   best |-> IF d < low THEN bw + b ELSE search.best,
                   lowest |-> IF d < low THEN d ELSE low]
    <3>1. (IF Count(curve, bw + b) > target THEN Count(curve, bw + b) - target
           ELSE target - Count(curve, bw + b)) = d
      BY <1>2, <1>3, <1>4
    <3> QED BY <1>1, <1>2, <1>3, <1>5, <3>1 DEF Measure
  <2>2. bw + b - b = bw
    BY <1>1
  <2> QED BY <2>1, <2>2 DEF Measure
<1>7. ASSUME NEW x, NEW y, NEW z, NEW w, BracketedBy(x, y, z, w) PROVE BracketedBy(x, y, z, w)'
  BY <1>6, <1>7 DEF BracketedBy, Off
<1>8. /\ bw > 128 => Count(curve, bw) > t /\ low <= Off(bw)
      /\ bw + (2 * b) < 256 => Count(curve, bw + (2 * b)) <= t /\ low <= Off(bw + (2 * b))
      /\ low = 300 => search.best = 0
      /\ low < 300 => search.best \in 129 .. 255 /\ Off(search.best) = low
  BY <1>1, <1>3, <1>5 DEF CalibrationInv, Bracketed, BracketedBy
<1>9. bw + b \in 129 .. 255
  BY <1>1
<1>10. PICK low2 \in 0 .. 300 : low2 = (IF d < low THEN d ELSE low) /\ low2 <= low /\ low2 <= d
  <2>1. \A x \in Nat, y \in 0 .. 300 :
          LET z == IF x < y THEN x ELSE y IN z \in 0 .. 300 /\ z <= y /\ z <= x
    OBVIOUS
  <2>2. LET z == IF d < low THEN d ELSE low IN z \in 0 .. 300 /\ z <= low /\ z <= d
    BY <2>1
  <2> QED BY <2>2
<1>11. PICK best2 : best2 = search'.best
  OBVIOUS
<1>12. /\ low2 = 300 => best2 = 0
       /\ low2 < 300 => best2 \in 129 .. 255 /\ Off(best2) = low2
  BY <1>1, <1>4, <1>6, <1>8, <1>10, <1>11
<1>13. PICK bw2 \in 128 .. 255 : bw2 = search'.bw /\ bw2 = IF n > t THEN bw + b ELSE bw
  BY <1>1, <1>6
<1>14. BracketedBy(bw2, b, best2, low2)
  <2>1. CASE n > t
    <3>1. bw2 = bw + b /\ bw2 + b = bw + (2 * b)
      BY <1>1, <1>13, <2>1
    <3>2. bw + (2 * b) < 256 => low2 <= Off(bw + (2 * b))
      <4>1. ASSUME bw + (2 * b) < 256 PROVE Off(bw + (2 * b)) \in Int
        <5>1. bw + (2 * b) \in 128 .. 255
          BY <1>1, <4>1
        <5>2. Count(curve, bw + (2 * b)) \in Nat
          BY <5>1, CountIsNat DEF CalibrationInv
        <5> QED BY <1>3, <5>2, OffIs
      <4> QED BY <1>8, <1>10, <4>1
    <3> QED BY <1>1, <1>2, <1>3, <1>4, <1>8, <1>10, <1>12, <2>1, <3>1, <3>2 DEF BracketedBy
  <2>2. CASE ~(n > t)
    <3>1. bw2 = bw
      BY <1>13, <2>2
    <3>2. bw > 128 => low2 <= Off(bw)
      <4>1. Count(curve, bw) \in Nat
        BY CountIsNat DEF CalibrationInv
      <4>2. Off(bw) \in Int
        BY <1>3, <4>1, OffIs
      <4> QED BY <1>8, <1>10, <4>2
    <3>3. bw2 + b = bw + b /\ bw + b <= 256
      BY <1>1, <3>1
    <3> QED BY <1>1, <1>2, <1>3, <1>4, <1>8, <1>10, <1>12, <2>2, <3>1, <3>2, <3>3 DEF BracketedBy
  <2> QED BY <2>1, <2>2
<1>15. search'.bit = b /\ search'.best = best2 /\ search'.lowest = low2 /\ search'.bw = bw2
  BY <1>6, <1>10, <1>11, <1>13
<1>16. Bracketed'
  BY <1>7, <1>14, <1>15 DEF Bracketed
<1>17. search'.i \in 0 .. 7 /\ search'.bit = Half(search'.i)
  BY <1>1, <1>6
<1> QED BY <1>6, <1>16, <1>17 DEF CalibrationInv

\* A count is a number.
LEMMA CountsAreIntegers ==
  ASSUME NEW c \in Curves, NEW d \in Delays, NEW noise \in Int
  PROVE  CalcPgCount(c, d, noise) \in Int
<1>1. PICK n \in Nat : n = Count(c, d)
  <2>1. d \in 128 .. 255
    BY DelaysAssumption
  <2> QED BY <2>1, CountIsNat
<1> QED BY <1>1 DEF CalcPgCount, NumSamples

\* A search that starts has measured nothing.
LEMMA StartBrackets ==
  /\ search = Start => search.i = 0 /\ search.bit = Half(search.i) /\ Bracketed
  /\ search' = Start => search'.i = 0 /\ search'.bit = Half(search'.i) /\ Bracketed'
<1>1. /\ Start.i = 0 /\ Start.bit = 128 /\ Start.bw = 128 /\ Start.best = 0
      /\ Start.lowest = 300
  BY DEF Start
<1> QED BY <1>1 DEF Bracketed, BracketedBy, Half

LEMMA CalibrationInvKept == CalibrationInv /\ [CalibrationNext]_calibrationvars => CalibrationInv'
<1> SUFFICES ASSUME CalibrationInv, [CalibrationNext]_calibrationvars PROVE CalibrationInv'
  OBVIOUS
<1>1. CASE Measure
  BY <1>1, MeasureBrackets
<1>2. ASSUME NEW d \in Drifts, NEW c \in Curves, Drift(d, c) PROVE CalibrationInv'
  <2>1. search' = Start /\ curve' \in Curves /\ target' = target
    BY <1>2 DEF Drift
  <2>2. search'.i = 0 /\ search'.bit = Half(search'.i) /\ Bracketed'
    BY <2>1, StartBrackets
  <2> QED BY <2>1, <2>2 DEF CalibrationInv
<1>3. ASSUME NEW p \in Delays, NEW n \in {-10, 0, 5}, TakeReference(p, n) PROVE CalibrationInv'
  <2>1. search' = Start /\ curve' = curve /\ target' = CalcPgCount(curve, p, n)
    BY <1>3 DEF TakeReference
  <2>2. search'.i = 0 /\ search'.bit = Half(search'.i) /\ Bracketed'
    BY <2>1, StartBrackets
  <2> QED BY <2>1, <2>2, CountsAreIntegers DEF CalibrationInv
<1>4. CASE UNCHANGED calibrationvars
  <2>1. UNCHANGED <<curve, target, search>>
    BY <1>4 DEF calibrationvars
  <2>2. Bracketed'
    BY <2>1 DEF CalibrationInv, Bracketed, BracketedBy, Off
  <2> QED BY <2>1, <2>2 DEF CalibrationInv
<1> QED BY <1>1, <1>2, <1>3, <1>4 DEF CalibrationNext

\* When all seven delays were measured, none is closer than the best.
LEMMA BestIsClosest ==
  ASSUME CalibrationInv, search.i = 7, NEW b \in 129 .. 255
  PROVE  Off(b) \in Nat /\ search.lowest <= Off(b)
<1>1. PICK bw \in 128 .. 255 : bw = search.bw
  BY DEF CalibrationInv, Bracketed, BracketedBy
<1>2. search.bit = 1
  BY DEF CalibrationInv, Half
<1>3. PICK t \in Int, n \in Nat : t = target /\ n = Count(curve, b)
  <2>1. b \in 128 .. 255 /\ curve \in Curves /\ target \in Int
    BY DEF CalibrationInv
  <2> QED BY <2>1, CountIsNat
<1>4. PICK d \in Nat : d = Off(b) /\ d = IF n > t THEN n - t ELSE t - n
  BY <1>3, OffIs
<1>5. PICK low \in 0 .. 300 : low = search.lowest
  BY DEF CalibrationInv, Bracketed, BracketedBy
<1>6. CASE b <= bw
  <2>1. Count(curve, bw) \in Nat /\ Count(curve, bw) <= n
    <3>1. bw >= b /\ b \in 128 .. 255 /\ curve \in Curves
      BY <1>6 DEF CalibrationInv
    <3> QED BY <1>3, <3>1, CountFalls
  <2>2. PICK m \in Nat : m = Count(curve, bw)
    BY <2>1
  <2>3. m > t /\ low <= Off(bw)
    BY <1>1, <1>3, <1>5, <1>6, <2>2 DEF CalibrationInv, Bracketed, BracketedBy
  <2>4. Off(bw) = m - t
    BY <1>3, <2>2, <2>3, OffIs
  <2> QED BY <1>3, <1>4, <1>5, <2>1, <2>2, <2>3, <2>4
<1>7. CASE b > bw
  <2>1. bw + 1 \in 128 .. 255 /\ bw + 1 <= b
    BY <1>7
  <2>2. PICK m \in Nat : m = Count(curve, bw + 1) /\ n <= m
    <3>1. b \in 128 .. 255 /\ curve \in Curves
      BY DEF CalibrationInv
    <3>2. Count(curve, bw + 1) \in Nat /\ Count(curve, b) <= Count(curve, bw + 1)
      BY <2>1, <3>1, CountFalls
    <3> QED BY <1>3, <3>2
  <2>3. m <= t /\ low <= Off(bw + 1)
    BY <1>1, <1>2, <1>3, <1>5, <2>1, <2>2 DEF CalibrationInv, Bracketed, BracketedBy
  <2>4. Off(bw + 1) = t - m
    BY <1>3, <2>2, <2>3, OffIs
  <2> QED BY <1>3, <1>4, <1>5, <2>2, <2>3, <2>4
<1> QED BY <1>6, <1>7

(***************************************************************************)
(* The search of dwt_calcbandwidthtempadj, which measures seven delays,    *)
(* ends with one that comes as close to the target as any of the 127, for  *)
(* all curves along which the count falls, and all targets.                *)
(***************************************************************************)
THEOREM SearchFindsClosest == CalibrationSpec => []Closest
<1>1. CalibrationInit => CalibrationInv
  <2>1. CalibrationInit => search = Start /\ curve \in Curves
    BY DEF CalibrationInit
  <2>2. CalibrationInit => target \in Int
    BY CountsAreIntegers DEF CalibrationInit
  <2> QED BY <2>1, <2>2, StartBrackets DEF CalibrationInv
<1>2. CalibrationInv => Closest
  <2> SUFFICES ASSUME CalibrationInv, search.i = 7 PROVE Closest
    BY DEF Closest
  <2> DEFINE near == {b \in 129 .. 255 : Off(b) < 300}
  <2>1. PICK low \in 0 .. 300 : low = search.lowest
    BY DEF CalibrationInv, Bracketed, BracketedBy
  <2>2. \A b \in 129 .. 255 : Off(b) \in Nat /\ low <= Off(b)
    BY <2>1, BestIsClosest
  <2>3. CASE low = 300
    <3>1. near = {}
      BY <2>2, <2>3
    <3>2. search.best = 0
      BY <2>1, <2>3 DEF CalibrationInv, Bracketed, BracketedBy
    <3> QED BY <3>1, <3>2 DEF Closest
  <2>4. CASE low < 300
    <3>1. search.best \in 129 .. 255 /\ Off(search.best) = low
      BY <2>1, <2>4 DEF CalibrationInv, Bracketed, BracketedBy
    <3>2. search.best \in near /\ \A b \in near : Off(search.best) <= Off(b)
      BY <2>2, <2>4, <3>1
    <3> QED BY <3>2 DEF Closest
  <2> QED BY <2>3, <2>4
<1> QED BY <1>1, <1>2, CalibrationInvKept, PTL DEF CalibrationSpec

(***************************************************************************)
(* The power for a temperature (_dwt_computetxpowersetting). A turn of its *)
(* loop leaves the level alone. As many turns as the loop takes bring the  *)
(* gain within bounds, and a setting of the level sought is at least as    *)
(* many attenuations away: if there is one, so is the setting found.       *)
(***************************************************************************)
ByteOfPower == [da : 0 .. 7, mixer : 0 .. 31]

LEMMA DeltaIsSmall ==
  ASSUME NEW chan, NEW delta \in -255 .. 255
  PROVE  DeltaPower(chan, delta) \in -37 .. 37
<1>1. Factor(chan) \in {607, 327, 0}
  BY DEF Factor
<1>2. CASE Factor(chan) = 607
  BY <1>2 DEF DeltaPower
<1>3. CASE Factor(chan) = 327
  BY <1>3 DEF DeltaPower
<1>4. CASE Factor(chan) = 0
  BY <1>4 DEF DeltaPower
<1> QED BY <1>1, <1>2, <1>3, <1>4

Downs(g, d, n) ==
  n \in 1 .. 7 /\ n <= d /\ g - (5 * n) \in 4 .. 20 /\ \A m \in 0 .. (n - 1) : g - (5 * m) > 20
Ups(g, d, n) ==
  n \in 1 .. 7 /\ d + n <= 7 /\ g + (5 * n) \in 4 .. 20 /\ \A m \in 0 .. (n - 1) : g + (5 * m) < 4

\* The turns up to a gain within bounds, and that a setting of the same level
\* is no fewer attenuations away.
LEMMA TurnsDown ==
  ASSUME NEW g \in Int, NEW d \in 0 .. 7, NEW sg \in 4 .. 20, NEW sd \in 0 .. 7,
         sg - (5 * sd) = g - (5 * d), g > 20
  PROVE  \E n : Downs(g, d, n)
<1>1. PICK n \in Int : 5 * n <= g - 16 /\ g - 16 < (5 * n) + 5
  <2>1. (g - 16) \div 5 \in Int /\ 5 * ((g - 16) \div 5) <= g - 16
        /\ g - 16 < (5 * ((g - 16) \div 5)) + 5
    OBVIOUS
  <2> QED BY <2>1
<1>2. n \in 1 .. 7 /\ n <= d
  BY <1>1
<1>3. \A m \in 0 .. (n - 1) : g - (5 * m) > 20
  BY <1>1
<1>4. g - (5 * n) \in 4 .. 20
  BY <1>1
<1> QED BY <1>2, <1>3, <1>4 DEF Downs

LEMMA TurnsUp ==
  ASSUME NEW g \in Int, NEW d \in 0 .. 7, NEW sg \in 4 .. 20, NEW sd \in 0 .. 7,
         sg - (5 * sd) = g - (5 * d), g < 4
  PROVE  \E n : Ups(g, d, n)
<1>1. PICK n \in Int : 5 * n <= 8 - g /\ 8 - g < (5 * n) + 5
  <2>1. (8 - g) \div 5 \in Int /\ 5 * ((8 - g) \div 5) <= 8 - g
        /\ 8 - g < (5 * ((8 - g) \div 5)) + 5
    OBVIOUS
  <2> QED BY <2>1
<1>2. n \in 1 .. 7 /\ d + n <= 7
  BY <1>1
<1>3. \A m \in 0 .. (n - 1) : g + (5 * m) < 4
  BY <1>1
<1>4. g + (5 * n) \in 4 .. 20
  BY <1>1
<1> QED BY <1>2, <1>3, <1>4 DEF Ups

LEMMA TurnsKeepLevel ==
  ASSUME NEW d \in Int, NEW m \in Int, NEW x \in Int, NEW adj \in Int
  PROVE  (m + (adj + (5 * x))) - (5 * (d + x)) = (m - (5 * d)) + adj
OBVIOUS

LEMMA LoopKeepsLevel ==
  ASSUME NEW adj \in Int, NEW byte \in ByteOfPower,
         NEW s \in Settings, Level(s) = Level(byte) + adj
  PROVE  LET c == Changes(adj, byte.mixer)
         IN /\ c.da \in Int /\ c.mixer = adj + (5 * c.da)
            /\ byte.da + c.da \in 0 .. 7 /\ byte.mixer + c.mixer \in 4 .. 20
<1> DEFINE gain == byte.mixer
           out == OutOfBounds(gain + adj)
           Mixer(n) == adj + (n * out * MixDaFactor)
           EndsAt(n) == OutOfBounds(gain + Mixer(n)) = 0 \/ n * out = 7
           First(n) == EndsAt(n) /\ \A m \in 0 .. (n - 1) : ~EndsAt(m)
           turns == CHOOSE n \in 0 .. MaxTurns : First(n)
<1>1. PICK g \in 0 .. 31, d \in 0 .. 7 : g = gain /\ d = byte.da
  BY DEF ByteOfPower
<1>2. PICK sg \in 4 .. 20, sd \in 0 .. 7 : sg - (5 * sd) = g + adj - (5 * d)
  <2>1. s.mixer \in 4 .. 20 /\ s.da \in 0 .. 7
    BY DEF Settings
  <2>2. s.mixer - (5 * s.da) = g + adj - (5 * d)
    BY <1>1, <2>1 DEF Level, MixDaFactor
  <2> QED BY <2>1, <2>2
<1>3. Changes(adj, gain) = [da |-> turns * out, mixer |-> Mixer(turns)]
  BY DEF Changes
<1>4. \A n, o \in Int : o = out => Mixer(n) = adj + (5 * (n * o))
  <2>1. ASSUME NEW n \in Int, NEW o \in Int, o = out
        PROVE  Mixer(n) = adj + (5 * (n * o))
    BY <2>1 DEF MixDaFactor
  <2> QED BY <2>1
<1>5. ASSUME NEW n \in 0 .. 7, First(n), d + (n * out) \in 0 .. 7, out \in {-1, 0, 1},
             g + adj + (5 * (n * out)) \in 4 .. 20
      PROVE  /\ turns * out \in Int /\ Mixer(turns) = adj + (5 * (turns * out))
             /\ d + (turns * out) \in 0 .. 7 /\ g + Mixer(turns) \in 4 .. 20
  <2> HIDE DEF First, turns
  <2>1. turns = n
    <3>1. turns \in 0 .. MaxTurns /\ First(turns)
      BY <1>5 DEF turns, MaxTurns
    <3>2. ~(turns < n) /\ ~(n < turns)
      BY <1>5, <3>1 DEF First, MaxTurns
    <3> QED BY <3>1, <3>2 DEF MaxTurns
  <2>2. PICK o \in {-1, 0, 1} : o = out
    BY <1>5
  <2>3. Mixer(n) = adj + (5 * (n * o))
    BY <1>4, <2>2
  <2>4. n * o \in Int
    BY <2>2
  <2> HIDE DEF out, Mixer
  <2>5. g + (adj + (5 * (n * o))) = g + adj + (5 * (n * o))
    BY <2>4
  <2> QED BY <1>5, <2>1, <2>2, <2>3, <2>4, <2>5
<1>6. \E n \in 0 .. 7 : /\ First(n) /\ d + (n * out) \in 0 .. 7 /\ out \in {-1, 0, 1}
                        /\ g + adj + (5 * (n * out)) \in 4 .. 20
  <2>1. CASE g + adj > 20
    <3>1. out = -1
      BY <1>1, <2>1 DEF OutOfBounds
    <3>2. PICK n \in 1 .. 7 : /\ n <= d /\ g + adj - (5 * n) \in 4 .. 20
                             /\ \A m \in 0 .. (n - 1) : g + adj - (5 * m) > 20
      <4> HIDE DEF out, Mixer, EndsAt, First, turns, gain
      <4>1. PICK t \in Int : t = g + adj
        OBVIOUS
      <4>2. sg - (5 * sd) = t - (5 * d) /\ t > 20
        BY <1>2, <2>1, <4>1
      <4>3. PICK n : Downs(t, d, n)
        BY <4>2, TurnsDown
      <4> QED BY <4>1, <4>3 DEF Downs
    <3>3. \A m \in 0 .. n : gain + Mixer(m) = g + adj - (5 * m) /\ m * out = -m
      BY <1>1, <3>1 DEF MixDaFactor
    <3>4. First(n)
      <4>1. OutOfBounds(gain + Mixer(n)) = 0
        BY <3>2, <3>3 DEF OutOfBounds
      <4>2. ASSUME NEW m \in 0 .. (n - 1) PROVE OutOfBounds(gain + Mixer(m)) # 0 /\ m * out # 7
        <5>1. gain + Mixer(m) = g + adj - (5 * m) /\ m * out = -m /\ g + adj - (5 * m) > 20
          BY <3>2, <3>3
        <5> QED BY <3>2, <5>1 DEF OutOfBounds
      <4> HIDE DEF Mixer, out
      <4> QED BY <4>1, <4>2
    <3> HIDE DEF First, out
    <3>5. d + (n * out) \in 0 .. 7 /\ g + adj + (5 * (n * out)) \in 4 .. 20
      BY <3>1, <3>2
    <3> QED BY <3>1, <3>4, <3>5
  <2>2. CASE g + adj < 4
    <3>1. out = 1
      BY <1>1, <2>2 DEF OutOfBounds
    <3>2. PICK n \in 1 .. 7 : /\ d + n <= 7 /\ g + adj + (5 * n) \in 4 .. 20
                             /\ \A m \in 0 .. (n - 1) : g + adj + (5 * m) < 4
      <4> HIDE DEF out, Mixer, EndsAt, First, turns, gain
      <4>1. PICK t \in Int : t = g + adj
        OBVIOUS
      <4>2. sg - (5 * sd) = t - (5 * d) /\ t < 4
        BY <1>2, <2>2, <4>1
      <4>3. PICK n : Ups(t, d, n)
        BY <4>2, TurnsUp
      <4> QED BY <4>1, <4>3 DEF Ups
    <3>3. \A m \in 0 .. n : gain + Mixer(m) = g + adj + (5 * m) /\ m * out = m
      BY <1>1, <3>1 DEF MixDaFactor
    <3>4. First(n)
      <4>1. OutOfBounds(gain + Mixer(n)) = 0
        BY <3>2, <3>3 DEF OutOfBounds
      <4>2. ASSUME NEW m \in 0 .. (n - 1) PROVE OutOfBounds(gain + Mixer(m)) # 0 /\ m * out # 7
        <5>1. gain + Mixer(m) = g + adj + (5 * m) /\ m * out = m /\ g + adj + (5 * m) < 4
          BY <3>2, <3>3
        <5> QED BY <3>2, <5>1 DEF OutOfBounds
      <4> HIDE DEF Mixer, out
      <4> QED BY <4>1, <4>2
    <3> HIDE DEF First, out
    <3>5. d + (n * out) \in 0 .. 7 /\ g + adj + (5 * (n * out)) \in 4 .. 20
      BY <3>1, <3>2
    <3> QED BY <3>1, <3>4, <3>5
  <2>3. CASE g + adj \in 4 .. 20
    <3>1. out = 0
      BY <1>1, <2>3 DEF OutOfBounds
    <3>2. g + Mixer(0) = g + adj
      BY <3>1 DEF MixDaFactor
    <3>3. First(0)
      BY <1>1, <2>3, <3>2 DEF OutOfBounds
    <3> HIDE DEF First, out
    <3> QED BY <2>3, <3>1, <3>3
  <2> QED BY <2>1, <2>2, <2>3
<1>7. /\ turns * out \in Int /\ Mixer(turns) = adj + (5 * (turns * out))
      /\ d + (turns * out) \in 0 .. 7 /\ g + Mixer(turns) \in 4 .. 20
  BY <1>5, <1>6
<1> HIDE DEF turns, out, Mixer
<1> QED BY <1>1, <1>3, <1>7

PowerInv ==
  /\ ref \in [1 .. 4 -> ByteOfPower]
  /\ drift \in -255 .. 255
  /\ power = CalcPowerTempAdj(channel, ref, drift)

LEMMA PowerAnswers == ASSUME PowerInv PROVE PowerAsAsked
<1> DEFINE adj == DeltaPower(channel, drift)
<1> SUFFICES ASSUME adj # 0, NEW n \in 1 .. 4, NEW s \in Settings,
                    Level(s) = Level(ref[n]) + adj
             PROVE  power[n] \in Settings /\ Level(power[n]) = Level(ref[n]) + adj
  BY DEF PowerAsAsked
<1>1. adj \in Int
  <2>1. drift \in -255 .. 255
    BY DEF PowerInv
  <2> HIDE DEF adj
  <2>2. DeltaPower(channel, drift) \in -37 .. 37
    BY <2>1, DeltaIsSmall
  <2> QED BY <2>2 DEF adj
<1>2. ref[n] \in ByteOfPower
  BY DEF PowerInv
<1> HIDE DEF adj
<1>3. PICK c : c = Changes(adj, ref[n].mixer)
  OBVIOUS
<1>4. /\ c.da \in Int /\ c.mixer = adj + (5 * c.da)
      /\ ref[n].da + c.da \in 0 .. 7 /\ ref[n].mixer + c.mixer \in 4 .. 20
  BY <1>1, <1>2, <1>3, LoopKeepsLevel
<1>5. power = ComputeTxPowerSetting(ref, adj)
  BY DEF PowerInv, CalcPowerTempAdj, adj
<1>6. power[n] = [da |-> (ref[n].da + c.da) % 8, mixer |-> (ref[n].mixer + c.mixer) % 32]
  BY <1>3, <1>5 DEF ComputeTxPowerSetting
<1>7. power[n].da = ref[n].da + c.da /\ power[n].mixer = ref[n].mixer + c.mixer
  BY <1>4, <1>6
<1>8. power[n] \in Settings
  BY <1>4, <1>6, <1>7 DEF Settings
<1>9. Level(power[n]) = Level(ref[n]) + adj
  <2>1. PICK d, m, x \in Int : d = ref[n].da /\ m = ref[n].mixer /\ x = c.da
    BY <1>2, <1>4 DEF ByteOfPower
  <2>2. power[n].da = d + x /\ power[n].mixer = m + (adj + (5 * x))
    BY <1>4, <1>7, <2>1
  <2>3. (m + (adj + (5 * x))) - (5 * (d + x)) = (m - (5 * d)) + adj
    BY <1>1, <2>1, TurnsKeepLevel
  <2> QED BY <2>1, <2>2, <2>3 DEF Level, MixDaFactor
<1> QED BY <1>8, <1>9

(***************************************************************************)
(* What dwt_calcpowertempadj returns differs from the reference by what    *)
(* the temperature asks for, with the mixer where it performs best, if     *)
(* there is such a setting: for every reference, and every difference of   *)
(* two bytes.                                                              *)
(***************************************************************************)
THEOREM PowerStaysAsAsked == CalibrationSpec => []PowerAsAsked
<1>1. CalibrationInit => PowerInv
  <2> SUFFICES ASSUME CalibrationInit PROVE PowerInv
    OBVIOUS
  <2>1. ref \in [1 .. 4 -> ByteOfPower] /\ drift = 0 /\ power = ref
    BY PowersAssumption DEF CalibrationInit, ByteOfPower
  <2>2. DeltaPower(channel, 0) = 0
    BY DEF DeltaPower, Factor
  <2> QED BY <2>1, <2>2 DEF PowerInv, CalcPowerTempAdj
<1>2. PowerInv /\ [CalibrationNext]_calibrationvars => PowerInv'
  <2> SUFFICES ASSUME PowerInv, [CalibrationNext]_calibrationvars PROVE PowerInv'
    OBVIOUS
  <2>1. CASE Measure
    BY <2>1 DEF Measure, PowerInv
  <2>2. ASSUME NEW d \in Drifts, NEW c \in Curves, Drift(d, c) PROVE PowerInv'
    BY <2>2, DriftsAssumption DEF Drift, PowerInv
  <2>3. ASSUME NEW p \in Delays, NEW n \in {-10, 0, 5}, TakeReference(p, n) PROVE PowerInv'
    BY <2>3 DEF TakeReference, PowerInv
  <2>4. CASE UNCHANGED calibrationvars
    BY <2>4 DEF calibrationvars, PowerInv
  <2> QED BY <2>1, <2>2, <2>3, <2>4 DEF CalibrationNext
<1>3. PowerInv => PowerAsAsked
  BY PowerAnswers
<1> QED BY <1>1, <1>2, <1>3, PTL DEF CalibrationSpec

-----------------------------------------------------------------------------
(***************************************************************************)
(* The bus (DwSpi). What one of the two drivers of the bus writes stays    *)
(* pending until the transceiver has received it, and the buffers belong   *)
(* to the one that is inside the mutex.                                    *)
(***************************************************************************)

Op(w) == IF w THEN 128 ELSE 0

HeaderOf(w, f, x) ==
  IF x = 0 THEN <<Op(w) + f>>
  ELSE IF x <= 127 THEN <<Op(w) + 64 + f, x>>
  ELSE <<Op(w) + 64 + f, 128 + (x % 128), (x \div 128) % 256>>

Call(w, f, x, b) == [write |-> w, file |-> f, index |-> x, body |-> b]
Place(w, f, x, n) == [write |-> w, file |-> f, index |-> x, at |-> n]

LEMMA HeaderForms ==
  ASSUME NEW w \in BOOLEAN, NEW f \in Files, NEW x \in Offsets, NEW b
  PROVE  Header(Call(w, f, x, b)) = HeaderOf(w, f, x)
BY DEF Header, Call, Op, HeaderOf, Files, Offsets

\* What the first byte of a header tells, and what the others.
LEMMA FirstByte ==
  ASSUME NEW w \in BOOLEAN, NEW f \in Files
  PROVE  /\ ((Op(w) + f) \div 64) % 2 = 0 /\ (Op(w) + f) % 64 = f
         /\ Op(w) + f >= 128 <=> w
         /\ ((Op(w) + 64 + f) \div 64) % 2 = 1 /\ (Op(w) + 64 + f) % 64 = f
         /\ Op(w) + 64 + f >= 128 <=> w
BY DEF Op, Files

LEMMA LongOffset ==
  ASSUME NEW x \in Nat, x < 32768
  PROVE  /\ x % 128 \in 0 .. 127 /\ 128 + (x % 128) >= 128
         /\ (128 + (x % 128)) % 128 = x % 128
         /\ (x \div 128) % 256 = x \div 128
         /\ (x % 128) + (128 * (x \div 128)) = x
<1>1. x % 128 \in 0 .. 127 /\ (x % 128) + (128 * (x \div 128)) = x
  OBVIOUS
<1>2. x \div 128 \in 0 .. 255
  OBVIOUS
<1>3. \A y \in 0 .. 127 : (128 + y) % 128 = y
  OBVIOUS
<1>4. \A y \in 0 .. 255 : y % 256 = y
  OBVIOUS
<1> QED BY <1>1, <1>2, <1>3, <1>4

Begins(buf, header) == \A i \in 1 .. Len(header) : buf[i] = header[i]

LEMMA ShortDecodes ==
  ASSUME NEW w \in BOOLEAN, NEW f \in Files, NEW buf, buf[1] = Op(w) + f
  PROVE  Addressed(buf) = Place(w, f, 0, 2)
<1>1. (buf[1] >= 128) = w
  BY FirstByte
<1>2. buf[1] % 64 = f /\ ~((buf[1] \div 64) % 2 = 1)
  BY FirstByte
<1> QED BY <1>1, <1>2 DEF Addressed, Place

LEMMA MediumDecodes ==
  ASSUME NEW w \in BOOLEAN, NEW f \in Files, NEW x \in 1 .. 127, NEW buf,
         buf[1] = Op(w) + 64 + f, buf[2] = x
  PROVE  Addressed(buf) = Place(w, f, x, 3)
<1>1. (buf[1] >= 128) = w
  BY FirstByte
<1>2. buf[1] % 64 = f /\ (buf[1] \div 64) % 2 = 1
  BY FirstByte
<1>3. ~(buf[2] >= 128)
  OBVIOUS
<1> QED BY <1>1, <1>2, <1>3 DEF Addressed, Place

LEMMA LongDecodes ==
  ASSUME NEW w \in BOOLEAN, NEW f \in Files, NEW x \in Nat, x < 32768, NEW buf,
         buf[1] = Op(w) + 64 + f, buf[2] = 128 + (x % 128), buf[3] = (x \div 128) % 256
  PROVE  Addressed(buf) = Place(w, f, x, 4)
<1>1. (buf[1] >= 128) = w
  BY FirstByte
<1>2. buf[1] % 64 = f /\ (buf[1] \div 64) % 2 = 1
  BY FirstByte
<1>3. buf[2] >= 128
  BY LongOffset
<1>4. buf[2] % 128 = x % 128 /\ buf[3] = x \div 128
  BY LongOffset
<1>5. (buf[2] % 128) + (128 * buf[3]) = x
  BY <1>4, LongOffset
<1> QED BY <1>1, <1>2, <1>3, <1>5 DEF Addressed, Place

LEMMA HeaderDecodes ==
  ASSUME NEW w \in BOOLEAN, NEW f \in Files, NEW x \in Offsets
  PROVE  LET h == HeaderOf(w, f, x)
         IN /\ h \in Seq(Nat) /\ Len(h) \in 1 .. 3
            /\ \A buf : Begins(buf, h) => Addressed(buf) = Place(w, f, x, Len(h) + 1)
<1> DEFINE h == HeaderOf(w, f, x)
<1>1. Op(w) + f \in Nat /\ Op(w) + 64 + f \in Nat
  BY DEF Op, Files
<1>2. CASE x = 0
  <2>1. h = <<Op(w) + f>>
    BY <1>2 DEF HeaderOf
  <2> HIDE DEF h
  <2>2. h \in Seq(Nat) /\ Len(h) = 1
    BY <1>1, <2>1
  <2>3. ASSUME NEW buf, Begins(buf, h) PROVE Addressed(buf) = Place(w, f, x, Len(h) + 1)
    <3>1. buf[1] = Op(w) + f
      BY <2>1, <2>2, <2>3 DEF Begins
    <3>2. Addressed(buf) = Place(w, f, 0, 2)
      BY <3>1, ShortDecodes, Zenon
    <3> QED BY <1>2, <2>2, <3>2
  <2> QED BY <2>2, <2>3 DEF h
<1>3. CASE x \in 1 .. 127
  <2>1. h = <<Op(w) + 64 + f, x>>
    BY <1>3 DEF HeaderOf
  <2> HIDE DEF h
  <2>2. h \in Seq(Nat) /\ Len(h) = 2
    BY <1>1, <1>3, <2>1
  <2>3. ASSUME NEW buf, Begins(buf, h) PROVE Addressed(buf) = Place(w, f, x, Len(h) + 1)
    <3>1. buf[1] = Op(w) + 64 + f /\ buf[2] = x
      BY <2>1, <2>2, <2>3 DEF Begins
    <3>2. Addressed(buf) = Place(w, f, x, 3)
      BY <1>3, <3>1, MediumDecodes, Zenon
    <3> QED BY <2>2, <3>2
  <2> QED BY <2>2, <2>3 DEF h
<1>4. CASE x \in Nat /\ x < 32768 /\ x > 127
  <2>1. h = <<Op(w) + 64 + f, 128 + (x % 128), (x \div 128) % 256>>
    <3>1. x # 0 /\ ~(x <= 127)
      BY <1>4
    <3> QED BY <3>1 DEF HeaderOf
  <2> HIDE DEF h
  <2>2. h \in Seq(Nat) /\ Len(h) = 3
    <3>1. 128 + (x % 128) \in Nat /\ (x \div 128) % 256 \in Nat
      BY <1>4
    <3> QED BY <1>1, <2>1, <3>1
  <2>3. ASSUME NEW buf, Begins(buf, h) PROVE Addressed(buf) = Place(w, f, x, Len(h) + 1)
    <3>1. buf[1] = Op(w) + 64 + f /\ buf[2] = 128 + (x % 128) /\ buf[3] = (x \div 128) % 256
      BY <2>1, <2>2, <2>3 DEF Begins
    <3>2. x \in Nat /\ x < 32768
      BY <1>4
    <3>3. Addressed(buf) = Place(w, f, x, 4)
      BY <3>1, <3>2, LongDecodes
    <3> QED BY <2>2, <3>3
  <2> QED BY <2>2, <2>3 DEF h
<1>5. x = 0 \/ x \in 1 .. 127 \/ (x \in Nat /\ x < 32768 /\ x > 127)
  BY DEF Offsets
<1> QED BY <1>2, <1>3, <1>4, <1>5

-----------------------------------------------------------------------------
\* A function of 1 .. n is a sequence of its values.
LEMMA FunctionIsSeq ==
  ASSUME NEW n \in Nat, NEW f, f = [i \in 1 .. n |-> f[i]]
  PROVE  f \in Seq({f[i] : i \in DOMAIN f}) /\ Len(f) = n
<1> DEFINE S == {f[i] : i \in DOMAIN f}
<1>1. f \in [1 .. n -> S]
  OBVIOUS
<1>2. f \in Seq(S)
  <2> HIDE DEF S
  <2> QED BY <1>1, SeqDef
<1>3. DOMAIN f = 1 .. Len(f) /\ Len(f) \in Nat
  <2> HIDE DEF S
  <2> QED BY <1>2, LenProperties
<1>4. Len(f) = n
  BY <1>1, <1>3
<1> QED BY <1>2, <1>4

IsBody(n, b) == b = [i \in 1 .. n |-> b[i]]

\* An access whose parts fit into the header and the buffer.
IsAccess(c) ==
  \E w \in BOOLEAN, f \in Files, x \in Offsets, n \in Sizes :
    \E b : c = Call(w, f, x, b) /\ IsBody(n, b)

\* What the driver encodes the transceiver decodes.
LEMMA AccessDecodes ==
  ASSUME NEW c, IsAccess(c)
  PROVE  /\ Header(c) \in Seq(Nat) /\ Len(Header(c)) \in 1 .. 3
         /\ \A buf : Begins(buf, Header(c)) =>
              Addressed(buf) = Place(c.write, c.file, c.index, Len(Header(c)) + 1)
<1> PICK w \in BOOLEAN, f \in Files, x \in Offsets, n \in Sizes :
      \E b : c = Call(w, f, x, b) /\ IsBody(n, b)
  BY Zenon DEF IsAccess
<1>1. PICK b : c = Call(w, f, x, b) /\ IsBody(n, b)
  OBVIOUS
<1>2. Header(c) = HeaderOf(w, f, x)
  BY <1>1, HeaderForms, Zenon
<1>3. c.write = w /\ c.file = f /\ c.index = x
  BY <1>1 DEF Call
<1>4. /\ HeaderOf(w, f, x) \in Seq(Nat) /\ Len(HeaderOf(w, f, x)) \in 1 .. 3
      /\ \A buf : Begins(buf, HeaderOf(w, f, x)) =>
           Addressed(buf) = Place(w, f, x, Len(HeaderOf(w, f, x)) + 1)
  BY HeaderDecodes, Zenon
<1> QED BY <1>2, <1>3, <1>4, Zenon

LEMMA AccessIs ==
  ASSUME NEW c, IsAccess(c)
  PROVE  /\ c.write \in BOOLEAN /\ c.file \in Nat /\ c.index \in Nat
         /\ Len(c.body) \in Sizes /\ Len(c.body) \in Nat
         /\ c.body \in Seq({c.body[i] : i \in DOMAIN c.body})
         /\ DOMAIN c.body = 1 .. Len(c.body)
<1> PICK w \in BOOLEAN, f \in Files, x \in Offsets, n \in Sizes :
      \E b : c = Call(w, f, x, b) /\ IsBody(n, b)
  BY Zenon DEF IsAccess
<1>1. PICK b : c = Call(w, f, x, b) /\ IsBody(n, b)
  OBVIOUS
<1>2. n \in Nat
  BY BufferAssumption DEF Sizes
<1>3. b \in Seq({b[i] : i \in DOMAIN b}) /\ Len(b) = n
  BY <1>1, <1>2, FunctionIsSeq, Zenon DEF IsBody
<1>4. c.write = w /\ c.file = f /\ c.index = x /\ c.body = b
  BY <1>1 DEF Call
<1>5. f \in Nat /\ x \in Nat
  BY DEF Files, Offsets
<1>6. DOMAIN b = 1 .. n
  BY <1>1, Zenon DEF IsBody
<1> QED BY <1>2, <1>3, <1>4, <1>5, <1>6, Zenon

LEMMA BodiesAre ==
  ASSUME NEW v, NEW n
  PROVE  IsBody(n, Bytes(v, n)) /\ IsBody(n, [i \in 1 .. n |-> 0])
BY DEF IsBody, Bytes

LEMMA FieldsMakeAccess ==
  ASSUME NEW r, r.file \in Files, r.index \in Offsets, r.n \in Sizes
  PROVE  IsAccess(WriteAccess(r)) /\ IsAccess(ReadAccess(r))
<1>1. WriteAccess(r) = Call(TRUE, r.file, r.index, Bytes(r.value, r.n))
  BY Zenon DEF WriteAccess, Call
<1>2. ReadAccess(r) = Call(FALSE, r.file, r.index, [i \in 1 .. r.n |-> 0])
  BY Zenon DEF ReadAccess, Call
<1>3. IsAccess(WriteAccess(r))
  BY <1>1, BodiesAre, Zenon DEF IsAccess
<1>4. IsAccess(ReadAccess(r))
  BY <1>2, BodiesAre, Zenon DEF IsAccess
<1> QED BY <1>3, <1>4

LEMMA SmallFields ==
  /\ {0, 6} \subseteq Files /\ {0, 1} \subseteq Offsets /\ {1, 4, 5} \subseteq Sizes
BY BufferAssumption DEF Files, Offsets, Sizes

\* The calls of the main loop and those of the interrupt routine.
Own(p) == IF p = "main" THEN MainCalls ELSE IsrCalls

LEMMA CallsAreAccesses ==
  ASSUME NEW p \in Procs, NEW c \in Own(p) \cup {NoCall}
  PROVE  IsAccess(c)
<1>1. ASSUME NEW r \in Writes \cup Reads \cup IsrWrites \cup IsrReads
      PROVE  IsAccess(WriteAccess(r)) /\ IsAccess(ReadAccess(r))
  <2>1. r.file \in Files /\ r.index \in Offsets /\ r.n \in Sizes
    BY AccessesAssumption, Zenon
  <2> QED BY <2>1, FieldsMakeAccess, Zenon
<1>2. ASSUME NEW f \in Files, NEW x \in Offsets, NEW n \in Sizes
      PROVE  IsAccess(ReadAccess([file |-> f, index |-> x, n |-> n]))
  <2> DEFINE r == [file |-> f, index |-> x, n |-> n]
  <2>1. r.file \in Files /\ r.index \in Offsets /\ r.n \in Sizes
    OBVIOUS
  <2> HIDE DEF r
  <2>2. IsAccess(ReadAccess(r))
    BY <2>1, FieldsMakeAccess, Zenon
  <2> QED BY <2>2 DEF r
<1>3. ASSUME NEW s \in Stamps(Clock) PROVE IsAccess(s)
  BY <1>2, SmallFields DEF Stamps, Clock
<1>4. IsAccess(NoCall)
  BY <1>2, SmallFields DEF NoCall
<1> QED BY <1>1, <1>3, <1>4, Zenon DEF Own, MainCalls, IsrCalls, Procs

-----------------------------------------------------------------------------
\* A byte of an access, by its place in the transceiver.
ByteFor(c, x) == c.body[x[2] - c.index + 1]
CellOf(c, i) == <<c.file, c.index + i - 1>>

LEMMA TouchedIs ==
  ASSUME NEW c, IsAccess(c), NEW x \in Cells
  PROVE  x \in Touched(c) <=> x[1] = c.file /\ x[2] \in c.index .. (c.index + Len(c.body) - 1)
<1>1. PICK a \in Nat, b \in Nat : x = <<a, b>>
  BY CellsAssumption
<1> PICK f : f = c.file
  OBVIOUS
<1>2. PICK j \in Nat, n \in Nat : f = c.file /\ j = c.index /\ n = Len(c.body)
  BY AccessIs, Zenon
<1>3. (\E i \in 1 .. n : b = j + i - 1) <=> b \in j .. (j + n - 1)
  <2>1. ASSUME b \in j .. (j + n - 1) PROVE \E i \in 1 .. n : b = j + i - 1
    <3>1. b - j + 1 \in 1 .. n /\ b = j + (b - j + 1) - 1
      BY <2>1
    <3> QED BY <3>1
  <2> QED BY <2>1
<1>4. x[1] = a /\ x[2] = b
  BY <1>1
<1>5. x \in Touched(c) <=> a = f /\ \E i \in 1 .. n : b = j + i - 1
  <2>1. Touched(c) = {<<f, j + i - 1>> : i \in 1 .. n}
    BY <1>2, Zenon DEF Touched
  <2>2. <<a, b>> \in {<<f, j + i - 1>> : i \in 1 .. n} <=> a = f /\ \E i \in 1 .. n : b = j + i - 1
    OBVIOUS
  <2> QED BY <1>1, <2>1, <2>2, Zenon
<1>6. x \in Touched(c) <=> a = f /\ b \in j .. (j + n - 1)
  BY <1>3, <1>5, Zenon
<1> QED BY <1>2, <1>4, <1>6, Zenon

LEMMA CellTouched ==
  ASSUME NEW c, NEW i \in 1 .. Len(c.body)
  PROVE  CellOf(c, i) \in Touched(c)
BY DEF CellOf, Touched

\* What a frame's receiver makes of a byte's place in the frame.
LEMMA PlaceInFrame ==
  \A j \in Nat, n \in Nat, h \in 1 .. 3, b \in Nat :
    /\ b - j + (h + 1) \in (h + 1) .. (h + n) <=> b \in j .. (j + n - 1)
    /\ b \in j .. (j + n - 1) => b - j + 1 \in 1 .. n /\ b - j + (h + 1) = h + (b - j + 1)
OBVIOUS

LEMMA FrameIs ==
  ASSUME NEW S, NEW T, NEW s \in Seq(S), NEW t \in Seq(T)
  PROVE  /\ Len(s \o t) = Len(s) + Len(t)
         /\ \A i \in 1 .. Len(s) : (s \o t)[i] = s[i]
         /\ \A i \in 1 .. Len(t) : (s \o t)[Len(s) + i] = t[i]
<1>1. s \in Seq(S \cup T) /\ t \in Seq(S \cup T) /\ Len(s) \in Nat /\ Len(t) \in Nat
  BY SeqDef, LenProperties
<1>2. /\ s \o t \in Seq(S \cup T) /\ Len(s \o t) = Len(s) + Len(t)
      /\ \A i \in 1 .. (Len(s) + Len(t)) :
           (s \o t)[i] = IF i <= Len(s) THEN s[i] ELSE t[i - Len(s)]
  BY <1>1, ConcatProperties
<1>3. \A m \in Nat, n \in Nat : \A i \in 1 .. n :
        m + i \in 1 .. (m + n) /\ ~(m + i <= m) /\ (m + i) - m = i
  OBVIOUS
<1>4. \A i \in 1 .. Len(s) : i \in 1 .. (Len(s) + Len(t)) /\ i <= Len(s)
  BY <1>1
<1> QED BY <1>1, <1>2, <1>3, <1>4

-----------------------------------------------------------------------------
\* A buffer that holds the frame of an access.
Filled(buf, c) ==
  /\ Begins(buf, Header(c))
  /\ \A i \in 1 .. Len(c.body) : buf[Len(Header(c)) + i] = c.body[i]

LEMMA FillMakesFrame ==
  ASSUME NEW c, IsAccess(c), NEW old, NEW buf, NEW frame, frame = Header(c) \o c.body,
         buf = [i \in 1 .. BufferSize |-> IF i <= Len(frame) THEN frame[i] ELSE old[i]]
  PROVE  Filled(buf, c)
<1>1. PICK h \in 1 .. 3, n \in Sizes : h = Len(Header(c)) /\ n = Len(c.body)
  BY AccessDecodes, AccessIs, Zenon
<1>2. /\ Len(frame) = h + n
      /\ \A i \in 1 .. h : frame[i] = Header(c)[i]
      /\ \A i \in 1 .. n : frame[h + i] = c.body[i]
  <2>1. Header(c) \in Seq(Nat) /\ c.body \in Seq({c.body[i] : i \in DOMAIN c.body})
    BY AccessDecodes, AccessIs, Zenon
  <2>2. PICK S, T : Header(c) \in Seq(S) /\ c.body \in Seq(T)
    BY <2>1, Zenon
  <2>3. /\ Len(Header(c) \o c.body) = Len(Header(c)) + Len(c.body)
        /\ \A i \in 1 .. Len(Header(c)) : (Header(c) \o c.body)[i] = Header(c)[i]
        /\ \A i \in 1 .. Len(c.body) : (Header(c) \o c.body)[Len(Header(c)) + i] = c.body[i]
    <3> DEFINE s == Header(c)
               t == c.body
    <3>1. s \in Seq(S) /\ t \in Seq(T)
      BY <2>2
    <3> HIDE DEF s, t
    <3>2. /\ Len(s \o t) = Len(s) + Len(t)
          /\ \A i \in 1 .. Len(s) : (s \o t)[i] = s[i]
          /\ \A i \in 1 .. Len(t) : (s \o t)[Len(s) + i] = t[i]
      BY <3>1, FrameIs
    <3> QED BY <3>2 DEF s, t
  <2> QED BY <1>1, <2>3, Zenon
<1>3. /\ \A i \in 1 .. h : i \in 1 .. BufferSize /\ i <= h + n
      /\ \A i \in 1 .. n : h + i \in 1 .. BufferSize /\ h + i <= h + n
  BY BufferAssumption DEF Sizes
<1>4. \A i \in 1 .. BufferSize : i <= h + n => buf[i] = frame[i]
  BY <1>2, Zenon
<1>5. (\A i \in 1 .. h : buf[i] = Header(c)[i]) /\ (\A i \in 1 .. n : buf[h + i] = c.body[i])
  BY <1>2, <1>3, <1>4, Zenon
<1> QED BY <1>1, <1>5, Zenon DEF Filled, Begins

\* What the transceiver makes of a frame: of a write, the bytes it is for.
Received(a, buf, total, old) ==
  [x \in Cells |->
     LET i == x[2] - a.index + a.at
     IN IF x[1] = a.file /\ i \in a.at .. total THEN buf[i] ELSE old[x]]

LEMMA WritesItsBytes ==
  ASSUME NEW c, IsAccess(c), c.write, NEW buf, Filled(buf, c), NEW old, NEW total,
         total = Len(Header(c)) + Len(c.body)
  PROVE  /\ Addressed(buf).write
         /\ Received(Addressed(buf), buf, total, old)
            = [x \in Cells |-> IF x \in Touched(c) THEN ByteFor(c, x) ELSE old[x]]
<1> DEFINE a == Addressed(buf)
<1>1. PICK h \in 1 .. 3, n \in Nat, j \in Nat :
        h = Len(Header(c)) /\ n = Len(c.body) /\ j = c.index
  BY AccessDecodes, AccessIs, Zenon
<1>2. a = Place(c.write, c.file, c.index, h + 1)
  BY <1>1, AccessDecodes, Zenon DEF Filled
<1>3. a.write = c.write /\ a.file = c.file /\ a.index = j /\ a.at = h + 1
  BY <1>1, <1>2 DEF Place
<1> HIDE DEF a
<1>4. \A i \in 1 .. n : buf[h + i] = c.body[i]
  BY <1>1, Zenon DEF Filled
<1>5. ASSUME NEW x \in Cells
      PROVE  /\ x[1] = a.file /\ x[2] - a.index + a.at \in a.at .. total <=> x \in Touched(c)
             /\ x \in Touched(c) => buf[x[2] - a.index + a.at] = ByteFor(c, x)
  <2>1. PICK b \in Nat : b = x[2]
    BY CellsAssumption
  <2>2. x \in Touched(c) <=> x[1] = c.file /\ b \in j .. (j + n - 1)
    BY <1>1, <2>1, TouchedIs, Zenon
  <2>3. /\ b - j + (h + 1) \in (h + 1) .. (h + n) <=> b \in j .. (j + n - 1)
        /\ b \in j .. (j + n - 1) => b - j + 1 \in 1 .. n /\ b - j + (h + 1) = h + (b - j + 1)
    BY PlaceInFrame
  <2>4. x[2] - a.index + a.at = b - j + (h + 1) /\ a.at = h + 1 /\ total = h + n
    BY <1>1, <1>3, <2>1, Zenon
  <2>5. b \in j .. (j + n - 1) => buf[b - j + (h + 1)] = c.body[b - j + 1]
    BY <1>4, <2>3, Zenon
  <2>6. ByteFor(c, x) = c.body[b - j + 1]
    BY <1>1, <2>1, Zenon DEF ByteFor
  <2> QED BY <1>3, <2>2, <2>3, <2>4, <2>5, <2>6, Zenon
<1>6. a.write
  BY <1>3
<1>7. Received(a, buf, total, old)
      = [x \in Cells |-> IF x \in Touched(c) THEN ByteFor(c, x) ELSE old[x]]
  BY <1>5, Zenon DEF Received
<1> QED BY <1>6, <1>7 DEF a

\* Of a reading, what it holds is answered was the place the driver looks for it.
Answer(a, total, bytes, old) ==
  LET Of(i) == <<a.file, a.index + i - a.at>>
  IN [i \in 1 .. BufferSize |->
        IF i \in a.at .. total /\ ~a.write /\ Of(i) \in Cells THEN bytes[Of(i)]
        ELSE IF i <= total THEN Zero ELSE old[i]]

Answers(c, a, total, bytes, old) ==
  \A i \in 1 .. Len(c.body) :
    CellOf(c, i) \in Cells =>
      Answer(a, total, bytes, old)[Len(Header(c)) + i] = bytes[CellOf(c, i)]

LEMMA AnswersItsBytes ==
  ASSUME NEW c, IsAccess(c), ~c.write, NEW buf, Filled(buf, c), NEW old, NEW total, NEW bytes,
         total = Len(Header(c)) + Len(c.body)
  PROVE  ~Addressed(buf).write /\ Answers(c, Addressed(buf), total, bytes, old)
<1> DEFINE a == Addressed(buf)
           answer == Answer(a, total, bytes, old)
           Of(i) == <<a.file, a.index + i - a.at>>
<1>1. PICK h \in 1 .. 3, n \in Sizes, j \in Nat :
        h = Len(Header(c)) /\ n = Len(c.body) /\ j = c.index
  BY AccessDecodes, AccessIs, Zenon
<1>2. a = Place(c.write, c.file, c.index, h + 1)
  BY <1>1, AccessDecodes, Zenon DEF Filled
<1>3. a.write = c.write /\ a.file = c.file /\ a.index = j /\ a.at = h + 1
  BY <1>1, <1>2 DEF Place
<1>4. \A i \in 1 .. BufferSize :
        answer[i] = IF i \in a.at .. total /\ ~a.write /\ Of(i) \in Cells THEN bytes[Of(i)]
                    ELSE IF i <= total THEN Zero ELSE old[i]
  BY DEF Answer
<1> HIDE DEF a, answer
<1>5. ASSUME NEW i \in 1 .. n, CellOf(c, i) \in Cells
      PROVE  answer[h + i] = bytes[CellOf(c, i)]
  <2>1. /\ h + i \in 1 .. BufferSize /\ h + i \in (h + 1) .. (h + n)
        /\ j + (h + i) - (h + 1) = j + i - 1
    BY BufferAssumption DEF Sizes
  <2>2. Of(h + i) = CellOf(c, i)
    BY <1>1, <1>3, <2>1, Zenon DEF CellOf
  <2>3. h + i \in a.at .. total /\ ~a.write
    BY <1>1, <1>3, <2>1, Zenon
  <2> HIDE DEF Of
  <2> QED BY <1>4, <1>5, <2>1, <2>2, <2>3, Zenon
<1>6. \A i \in 1 .. Len(c.body) :
        CellOf(c, i) \in Cells => answer[Len(Header(c)) + i] = bytes[CellOf(c, i)]
  BY <1>1, <1>5, Zenon
<1>7. ~a.write
  BY <1>3, Zenon
<1> QED BY <1>6, <1>7, Zenon DEF a, answer, Answers

-----------------------------------------------------------------------------
SpiSteps == {"idle", "mutexon", "fill", "lengths", "transceive", "copy", "mutexoff"}
Unguarded == {"idle", "mutexon"}

\* The mutex: the interrupt routine runs only while the main loop is not
\* between decamutexon and decamutexoff.
MutexInv ==
  /\ port \in Ports
  /\ pc \in [Procs -> SpiSteps]
  /\ pc["isr"] # "idle" => port.installed /\ pc["main"] \in Unguarded
  /\ port.installed /\ pc["main"] \notin Unguarded => enabled = FALSE

CallsInv ==
  /\ call \in [Procs -> MainCalls \cup IsrCalls \cup {NoCall}]
  /\ \A p \in Procs :
       /\ call[p] \in Own(p) \cup {NoCall}
       /\ pc[p] # "idle" => call[p] \in Own(p)

\* A write the transceiver has not received yet.
Pending(p) == pc[p] \in {"mutexon", "fill", "lengths", "transceive"} /\ call[p].write

\* The transceiver holds what it was asked to, except for the pending writes.
HeldInv ==
  /\ mem = [x \in Cells |-> mem[x]] /\ held = [x \in Cells |-> held[x]]
  /\ \A x \in Cells : (\A p \in Procs : Pending(p) => x \notin Touched(call[p])) => held[x] = mem[x]
  /\ \A x \in Cells, p \in Procs :
       Pending(p) /\ x \in Touched(call[p]) => held[x] = ByteFor(call[p], x)

\* The buffers are those of the access that is between two steps.
BuffersOf(p) ==
  /\ pc[p] \in {"lengths", "transceive"} => Filled(tx_buf, call[p])
  /\ pc[p] = "transceive" => len = Len(Header(call[p])) + Len(call[p].body)
  /\ pc[p] = "copy" =>
       /\ ~call[p].write
       /\ \A i \in 1 .. Len(call[p].body) :
            CellOf(call[p], i) \in Cells =>
              rx_buf[Len(Header(call[p])) + i] = mem[CellOf(call[p], i)]
BuffersInv == \A p \in Procs : BuffersOf(p)

\* What was read is what the transceiver holds.
GotOf(p) ==
  got[p] # <<>> =>
    /\ call[p] \in Own(p) /\ ~call[p].write
    /\ DOMAIN got[p] = 1 .. Len(call[p].body)
    /\ \A i \in DOMAIN got[p] : CellOf(call[p], i) \in Cells => got[p][i] = mem[CellOf(call[p], i)]
GotInv == got = [p \in Procs |-> got[p]] /\ \A p \in Procs : GotOf(p)

SpiInv == MutexInv /\ CallsInv /\ HeldInv /\ BuffersInv /\ GotInv

\* The port tells of an interrupt routine that is installed.
PortsTell == \A q \in Ports : q.installed => q.status

\* What one of the two writes the other does not touch.
LEMMA OthersUntouched ==
  ASSUME NEW p \in Procs, NEW q \in Procs, p # q, NEW c \in Own(p), NEW d \in Own(q), c.write,
         NEW x, x \in Touched(c)
  PROVE  x \notin Touched(d)
BY RegistersAssumption DEF Own, Procs

\* A step of one of the two leaves the other where it is, outside the mutex.
Steps(p, was, to) ==
  /\ pc[p] = was /\ pc'[p] = to
  /\ \A q \in Procs : q # p => pc'[q] = pc[q] /\ pc[q] \in Unguarded

LEMMA RunsAlone ==
  ASSUME MutexInv, NEW p \in Procs, NEW was, was # "idle", NEW to \in SpiSteps, Runs(p, was, to)
  PROVE  Steps(p, was, to) /\ pc' \in [Procs -> SpiSteps]
BY DEF MutexInv, Procs, Runs, Idle, Steps, Unguarded

LEMMA BeginsAlone ==
  ASSUME MutexInv, NEW p \in Procs, NEW c, Begin(p, c)
  PROVE  Steps(p, "idle", "mutexon") /\ pc' \in [Procs -> SpiSteps]
<1>1. pc' = [pc EXCEPT ![p] = "mutexon"] /\ pc[p] = "idle"
  BY DEF Begin, Idle
<1>2. \A q \in Procs : q # p => pc[q] \in Unguarded
  <2>1. CASE p = "isr"
    BY <2>1 DEF MutexInv, Begin, Procs, Unguarded
  <2>2. CASE p = "main"
    BY <2>2 DEF MutexInv, Begin, Procs, Unguarded, Idle
  <2> QED BY <2>1, <2>2 DEF Procs
<1>3. pc \in [Procs -> SpiSteps] /\ "mutexon" \in SpiSteps
  BY DEF MutexInv, SpiSteps
<1> QED BY <1>1, <1>2, <1>3 DEF Steps

LEMMA MutexKept ==
  ASSUME PortsTell, MutexInv, [SpiNext]_spivars
  PROVE  MutexInv'
<1> USE DEF MutexInv, Procs, SpiSteps, Unguarded, Idle
<1>1. ASSUME NEW v, SetSpeed(v) PROVE MutexInv'
  BY <1>1 DEF SetSpeed
<1>2. ASSUME NEW p \in Procs, NEW c, Begin(p, c) PROVE MutexInv'
  BY <1>2 DEF Begin
<1>3. ASSUME NEW p \in Procs, DecaMutexOn(p) PROVE MutexInv'
  BY <1>3 DEF DecaMutexOn, Runs, PortsTell
<1>4. ASSUME NEW p \in Procs, Fill(p) PROVE MutexInv'
  <2>1. Runs(p, "fill", "lengths") /\ UNCHANGED <<port, enabled>>
    BY <1>4 DEF Fill
  <2> QED BY <2>1 DEF Runs
<1>5. ASSUME NEW p \in Procs, Lengths(p) PROVE MutexInv'
  <2>1. Runs(p, "lengths", "transceive") /\ UNCHANGED <<port, enabled>>
    BY <1>5 DEF Lengths
  <2> QED BY <2>1 DEF Runs
<1>6. ASSUME NEW p \in Procs, Transceive(p) PROVE MutexInv'
  <2>1. Runs(p, "transceive", IF call[p].write THEN "mutexoff" ELSE "copy")
        /\ UNCHANGED <<port, enabled>>
    BY <1>6, Zenon DEF Transceive
  <2> QED BY <2>1 DEF Runs
<1>7. ASSUME NEW p \in Procs, Copy(p) PROVE MutexInv'
  <2>1. Runs(p, "copy", "mutexoff") /\ UNCHANGED <<port, enabled>>
    BY <1>7 DEF Copy
  <2> QED BY <2>1 DEF Runs
<1>8. ASSUME NEW p \in Procs, DecaMutexOff(p) PROVE MutexInv'
  BY <1>8 DEF DecaMutexOff, Runs
<1>9. CASE UNCHANGED spivars
  BY <1>9 DEF spivars
<1> QED BY <1>1, <1>2, <1>3, <1>4, <1>5, <1>6, <1>7, <1>8, <1>9 DEF SpiNext

-----------------------------------------------------------------------------
\* The steps that leave the transceiver and what was read alone.
LEMMA OthersKeepTheRest ==
  ASSUME CallsInv, HeldInv, GotInv, NEW p \in Procs, NEW was \in SpiSteps, NEW to \in SpiSteps,
         Steps(p, was, to), was # "idle", UNCHANGED <<call, mem, held, got>>,
         was \in {"mutexon", "fill", "lengths", "transceive"} /\ call[p].write
           <=> to \in {"mutexon", "fill", "lengths", "transceive"} /\ call[p].write
  PROVE  CallsInv' /\ HeldInv' /\ GotInv'
<1>1. \A q \in Procs : pc'[q] # "idle" => pc[q] # "idle"
  BY DEF Steps
<1>2. CallsInv'
  BY <1>1 DEF CallsInv
<1>3. \A q \in Procs : Pending(q)' <=> Pending(q)
  BY DEF Pending, Steps
<1>4. HeldInv'
  BY <1>3 DEF HeldInv
<1>5. GotInv'
  BY DEF GotInv, GotOf
<1> QED BY <1>2, <1>4, <1>5

\* Outside the mutex nobody uses the buffers.
LEMMA OutsideUnused ==
  ASSUME NEW q \in Procs, pc[q] \in Unguarded
  PROVE  BuffersOf(q)
BY DEF BuffersOf, Unguarded

LEMMA OutsideUnusedAfter ==
  ASSUME NEW q \in Procs, pc'[q] \in Unguarded
  PROVE  BuffersOf(q)'
BY DEF BuffersOf, Unguarded

\* Only the buffers of the one that makes a step matter.
LEMMA OnlyItsBuffers ==
  ASSUME NEW p \in Procs, NEW was, NEW to, Steps(p, was, to), BuffersOf(p)'
  PROVE  BuffersInv'
BY OutsideUnusedAfter DEF BuffersInv, Steps

Rest == CallsInv /\ HeldInv /\ BuffersInv /\ GotInv

LEMMA SetSpeedKeeps ==
  ASSUME SpiInv, NEW v, SetSpeed(v)
  PROVE  Rest'
<1>1. UNCHANGED <<pc, call, mem, held, got>> /\ \A q \in Procs : pc[q] = "idle"
  BY DEF SetSpeed, Idle
<1>2. CallsInv' /\ GotInv'
  BY <1>1 DEF SpiInv, CallsInv, GotInv, GotOf
<1>3. HeldInv'
  BY <1>1 DEF SpiInv, HeldInv, Pending
<1>4. BuffersInv'
  BY <1>1, OutsideUnusedAfter DEF BuffersInv, Unguarded
<1> QED BY <1>2, <1>3, <1>4 DEF Rest

LEMMA DecaMutexOnKeeps ==
  ASSUME SpiInv, NEW p \in Procs, DecaMutexOn(p)
  PROVE  Rest'
<1>1. Runs(p, "mutexon", "fill") /\ UNCHANGED <<call, tx_buf, rx_buf, len, spi_cfg, mem, held, got>>
  BY DEF DecaMutexOn
<1>2. Steps(p, "mutexon", "fill")
  BY <1>1, RunsAlone DEF SpiInv, SpiSteps
<1>3. CallsInv' /\ HeldInv' /\ GotInv'
  BY <1>1, <1>2, OthersKeepTheRest DEF SpiInv, SpiSteps
<1>4. BuffersOf(p)'
  BY <1>2 DEF Steps, BuffersOf
<1> QED BY <1>2, <1>3, <1>4, OnlyItsBuffers DEF Rest

LEMMA FillKeeps ==
  ASSUME SpiInv, NEW p \in Procs, Fill(p)
  PROVE  Rest'
<1> DEFINE frame == Header(call[p]) \o call[p].body
<1>1. /\ Runs(p, "fill", "lengths") /\ UNCHANGED <<call, rx_buf, len, spi_cfg, mem, held, got>>
      /\ tx_buf' = [i \in 1 .. BufferSize |-> IF i <= Len(frame) THEN frame[i] ELSE tx_buf[i]]
  BY DEF Fill
<1>2. Steps(p, "fill", "lengths")
  BY <1>1, RunsAlone DEF SpiInv, SpiSteps
<1>3. CallsInv' /\ HeldInv' /\ GotInv'
  BY <1>1, <1>2, OthersKeepTheRest DEF SpiInv, SpiSteps
<1>4. Filled(tx_buf, call[p])'
  <2>1. IsAccess(call[p])
    BY CallsAreAccesses DEF SpiInv, CallsInv
  <2>2. PICK c, fr, old, new : /\ c = call[p] /\ fr = frame /\ old = tx_buf /\ new = tx_buf'
    OBVIOUS
  <2>3. /\ IsAccess(c) /\ fr = Header(c) \o c.body
        /\ new = [i \in 1 .. BufferSize |-> IF i <= Len(fr) THEN fr[i] ELSE old[i]]
    BY <1>1, <2>1, <2>2, Zenon
  <2>4. Filled(new, c)
    BY <2>3, FillMakesFrame, Zenon
  <2>5. call'[p] = c /\ tx_buf' = new
    BY <1>1, <2>2
  <2> QED BY <2>4, <2>5 DEF Filled
<1>5. BuffersOf(p)'
  BY <1>2, <1>4 DEF Steps, BuffersOf
<1> QED BY <1>2, <1>3, <1>5, OnlyItsBuffers DEF Rest

LEMMA LengthsKeeps ==
  ASSUME SpiInv, NEW p \in Procs, Lengths(p)
  PROVE  Rest'
<1>1. /\ Runs(p, "lengths", "transceive") /\ UNCHANGED <<call, tx_buf, rx_buf, mem, held, got>>
      /\ len' = Len(Header(call[p])) + Len(call[p].body)
  BY DEF Lengths
<1>2. Steps(p, "lengths", "transceive")
  BY <1>1, RunsAlone DEF SpiInv, SpiSteps
<1>3. CallsInv' /\ HeldInv' /\ GotInv'
  BY <1>1, <1>2, OthersKeepTheRest DEF SpiInv, SpiSteps
<1>4. Filled(tx_buf, call[p])
  BY <1>2 DEF SpiInv, BuffersInv, BuffersOf, Steps
<1>5. BuffersOf(p)'
  BY <1>1, <1>2, <1>4, Zenon DEF Steps, BuffersOf
<1> QED BY <1>2, <1>3, <1>5, OnlyItsBuffers DEF Rest

LEMMA DecaMutexOffKeeps ==
  ASSUME SpiInv, NEW p \in Procs, DecaMutexOff(p)
  PROVE  Rest'
<1>1. Runs(p, "mutexoff", "idle") /\ UNCHANGED <<call, tx_buf, rx_buf, len, spi_cfg, mem, held, got>>
  BY DEF DecaMutexOff
<1>2. Steps(p, "mutexoff", "idle")
  BY <1>1, RunsAlone DEF SpiInv, SpiSteps
<1>3. CallsInv' /\ HeldInv' /\ GotInv'
  BY <1>1, <1>2, OthersKeepTheRest DEF SpiInv, SpiSteps
<1>4. BuffersOf(p)'
  BY <1>2 DEF Steps, BuffersOf
<1> QED BY <1>2, <1>3, <1>4, OnlyItsBuffers DEF Rest

\* What a write is for is asked of the transceiver.
LEMMA BeginAsks ==
  ASSUME HeldInv, NEW p \in Procs, NEW c, IsAccess(c), Begin(p, c)
  PROVE  held' = [x \in Cells |-> IF c.write /\ x \in Touched(c) THEN ByteFor(c, x) ELSE held[x]]
<1>1. held' = IF c.write
                THEN [x \in Cells |->
                        IF x[1] = c.file /\ x[2] \in c.index .. c.index + Len(c.body) - 1
                          THEN c.body[x[2] - c.index + 1] ELSE held[x]]
                ELSE held
  BY Zenon DEF Begin
<1>2. CASE c.write
  <2>1. \A x \in Cells : x[1] = c.file /\ x[2] \in c.index .. c.index + Len(c.body) - 1
                          <=> x \in Touched(c)
    BY TouchedIs, Zenon
  <2> QED BY <1>1, <1>2, <2>1, Zenon DEF ByteFor
<1>3. CASE ~c.write
  BY <1>1, <1>3, Zenon DEF HeldInv
<1> QED BY <1>2, <1>3

LEMMA BeginKeeps ==
  ASSUME SpiInv, NEW p \in Procs, NEW c \in Own(p), Begin(p, c)
  PROVE  Rest'
<1>1. /\ call' = [call EXCEPT ![p] = c] /\ got' = [got EXCEPT ![p] = <<>>]
      /\ UNCHANGED <<tx_buf, rx_buf, len, mem>>
  BY DEF Begin
<1>2. Steps(p, "idle", "mutexon")
  BY BeginsAlone DEF SpiInv
<1>3. held' = [x \in Cells |-> IF c.write /\ x \in Touched(c) THEN ByteFor(c, x) ELSE held[x]]
  BY BeginAsks, CallsAreAccesses, Zenon DEF SpiInv
<1>4. call'[p] = c /\ \A q \in Procs : q # p => call'[q] = call[q]
  BY <1>1 DEF SpiInv, CallsInv
<1>5. CallsInv'
  <2>1. call' \in [Procs -> MainCalls \cup IsrCalls \cup {NoCall}]
    BY <1>1 DEF SpiInv, CallsInv, Own
  <2> QED BY <1>2, <1>4, <2>1, Zenon DEF SpiInv, CallsInv, Steps
<1>6. Pending(p)' <=> c.write
  BY <1>2, <1>4 DEF Pending, Steps
<1>7. \A q \in Procs : q # p => (Pending(q)' <=> Pending(q))
  BY <1>2, <1>4 DEF Pending, Steps
<1>8. ASSUME NEW q \in Procs, q # p, Pending(q), NEW x, x \in Touched(call[q]), c.write
      PROVE  x \notin Touched(c)
  <2>1. call[q] \in Own(q) /\ call[q].write
    BY <1>8 DEF Pending, SpiInv, CallsInv
  <2> QED BY <1>8, <2>1, OthersUntouched, Zenon
<1>9. ~Pending(p)
  BY <1>2 DEF Steps, Pending
<1>10. HeldInv'
  <2>1. mem' = [x \in Cells |-> mem'[x]] /\ held' = [x \in Cells |-> held'[x]]
    BY <1>1, <1>3, Zenon DEF SpiInv, HeldInv
  <2>2. ASSUME NEW x \in Cells, \A q \in Procs : Pending(q)' => x \notin Touched(call'[q])
        PROVE  held'[x] = mem'[x]
    <3>1. ~(c.write /\ x \in Touched(c))
      BY <1>4, <1>6, <2>2
    <3>2. held'[x] = held[x]
      BY <1>3, <3>1, Zenon
    <3>3. \A q \in Procs : Pending(q) => x \notin Touched(call[q])
      BY <1>4, <1>7, <1>9, <2>2, Zenon
    <3> QED BY <1>1, <3>2, <3>3 DEF SpiInv, HeldInv
  <2>3. ASSUME NEW x \in Cells, NEW q \in Procs, Pending(q)', x \in Touched(call'[q])
        PROVE  held'[x] = ByteFor(call'[q], x)
    <3>1. CASE q = p
      BY <1>3, <1>4, <1>6, <2>3, <3>1, Zenon
    <3>2. CASE q # p
      <4>1. Pending(q) /\ x \in Touched(call[q])
        BY <1>4, <1>7, <2>3, <3>2, Zenon
      <4>2. ~(c.write /\ x \in Touched(c))
        BY <1>8, <3>2, <4>1, Zenon
      <4>3. held'[x] = held[x]
        BY <1>3, <4>2, Zenon
      <4> QED BY <1>4, <3>2, <4>1, <4>3, Zenon DEF SpiInv, HeldInv
    <3> QED BY <3>1, <3>2
  <2> QED BY <2>1, <2>2, <2>3, Zenon DEF HeldInv
<1>11. BuffersOf(p)'
  BY <1>2 DEF Steps, BuffersOf
<1>12. GotInv'
  <2>1. got' = [q \in Procs |-> got'[q]] /\ got'[p] = <<>>
        /\ \A q \in Procs : q # p => got'[q] = got[q]
    BY <1>1 DEF SpiInv, GotInv
  <2>2. GotOf(p)'
    BY <2>1 DEF GotOf
  <2>3. ASSUME NEW q \in Procs, q # p PROVE GotOf(q)'
    <3>1. got'[q] = got[q] /\ call'[q] = call[q] /\ mem' = mem /\ GotOf(q)
      BY <1>1, <1>4, <2>1, <2>3 DEF SpiInv, GotInv
    <3> QED BY <3>1 DEF GotOf
  <2> QED BY <2>1, <2>2, <2>3 DEF GotInv
<1> QED BY <1>2, <1>5, <1>10, <1>11, <1>12, OnlyItsBuffers DEF Rest

\* A write that is received is no longer pending; it leaves alone what the
\* other one has read.
LEMMA ReceivesWrite ==
  ASSUME SpiInv, NEW p \in Procs, Transceive(p), call[p].write
  PROVE  Rest'
<1>1. /\ Runs(p, "transceive", "mutexoff") /\ UNCHANGED <<call, tx_buf, len, held, got>>
  BY Zenon DEF Transceive
<1>2. Steps(p, "transceive", "mutexoff")
  BY <1>1, RunsAlone DEF SpiInv, SpiSteps
<1>3. mem' = [x \in Cells |-> IF x \in Touched(call[p]) THEN ByteFor(call[p], x) ELSE mem[x]]
  <2>1. IsAccess(call[p]) /\ Filled(tx_buf, call[p]) /\ len = Len(Header(call[p])) + Len(call[p].body)
    BY <1>2, CallsAreAccesses DEF SpiInv, CallsInv, BuffersInv, BuffersOf, Steps
  <2>2. PICK c, buf, total, old : c = call[p] /\ buf = tx_buf /\ total = len /\ old = mem
    OBVIOUS
  <2>3. IsAccess(c) /\ c.write /\ Filled(buf, c) /\ total = Len(Header(c)) + Len(c.body)
    BY <2>1, <2>2, Zenon
  <2>4. /\ Addressed(buf).write
        /\ Received(Addressed(buf), buf, total, old)
           = [x \in Cells |-> IF x \in Touched(c) THEN ByteFor(c, x) ELSE old[x]]
    BY <2>3, WritesItsBytes
  <2>5. /\ Addressed(tx_buf).write
        /\ Received(Addressed(tx_buf), tx_buf, len, mem)
           = [x \in Cells |-> IF x \in Touched(call[p]) THEN ByteFor(call[p], x) ELSE mem[x]]
    BY <2>2, <2>4, Zenon
  <2> QED BY <2>5, Zenon DEF Transceive, Received
<1>4. CallsInv'
  BY <1>1, <1>2, Zenon DEF SpiInv, CallsInv, Steps
<1>5. Pending(p) /\ ~Pending(p)' /\ \A q \in Procs : q # p => (Pending(q)' <=> Pending(q))
  BY <1>1, <1>2 DEF Pending, Steps
<1>6. call[p] \in Own(p)
  BY <1>2 DEF SpiInv, CallsInv, Steps
<1>7. HeldInv'
  <2>1. mem' = [x \in Cells |-> mem'[x]] /\ held' = [x \in Cells |-> held'[x]]
    BY <1>1, <1>3, Zenon DEF SpiInv, HeldInv
  <2>2. ASSUME NEW x \in Cells, \A q \in Procs : Pending(q)' => x \notin Touched(call'[q])
        PROVE  held'[x] = mem'[x]
    <3>1. CASE x \in Touched(call[p])
      BY <1>1, <1>3, <1>5, <3>1, Zenon DEF SpiInv, HeldInv
    <3>2. CASE x \notin Touched(call[p])
      <4>1. \A q \in Procs : Pending(q) => x \notin Touched(call[q])
        BY <1>1, <1>5, <2>2, <3>2, Zenon
      <4>2. mem'[x] = mem[x]
        BY <1>3, <3>2, Zenon
      <4> QED BY <1>1, <4>1, <4>2, Zenon DEF SpiInv, HeldInv
    <3> QED BY <3>1, <3>2
  <2>3. ASSUME NEW x \in Cells, NEW q \in Procs, Pending(q)', x \in Touched(call'[q])
        PROVE  held'[x] = ByteFor(call'[q], x)
    BY <1>1, <1>5, <2>3, Zenon DEF SpiInv, HeldInv
  <2> QED BY <2>1, <2>2, <2>3, Zenon DEF HeldInv
<1>8. BuffersOf(p)'
  BY <1>2 DEF Steps, BuffersOf
<1>9. GotInv'
  <2>1. ASSUME NEW q \in Procs, got[q] # <<>>, NEW i \in DOMAIN got[q], CellOf(call[q], i) \in Cells
        PROVE  mem'[CellOf(call[q], i)] = mem[CellOf(call[q], i)]
    <3>1. call[q] \in Own(q) /\ ~call[q].write /\ i \in 1 .. Len(call[q].body)
      BY <2>1, Zenon DEF SpiInv, GotInv, GotOf
    <3>2. q # p
      BY <3>1
    <3>3. CellOf(call[q], i) \in Touched(call[q])
      BY <3>1, CellTouched, Zenon
    <3>4. CellOf(call[q], i) \notin Touched(call[p])
      BY <1>6, <3>1, <3>2, <3>3, OthersUntouched, Zenon
    <3> QED BY <1>3, <2>1, <3>4, Zenon
  <2>2. ASSUME NEW q \in Procs PROVE GotOf(q)'
    <3>1. got' = got /\ call' = call /\ GotOf(q)
      BY <1>1 DEF SpiInv, GotInv
    <3>2. \A i \in DOMAIN got[q] :
            got[q] # <<>> /\ CellOf(call[q], i) \in Cells
              => mem'[CellOf(call[q], i)] = mem[CellOf(call[q], i)]
      BY <2>1, Zenon
    <3> QED BY <3>1, <3>2 DEF GotOf
  <2> QED BY <1>1, <2>2, Zenon DEF SpiInv, GotInv
<1> QED BY <1>2, <1>4, <1>7, <1>8, <1>9, OnlyItsBuffers DEF Rest

LEMMA AnswersReading ==
  ASSUME SpiInv, NEW p \in Procs, Transceive(p), ~call[p].write
  PROVE  Rest'
<1>1. /\ Runs(p, "transceive", "copy") /\ UNCHANGED <<call, tx_buf, len, held, got>>
  BY Zenon DEF Transceive
<1>2. Steps(p, "transceive", "copy")
  BY <1>1, RunsAlone DEF SpiInv, SpiSteps
<1>3. IsAccess(call[p]) /\ Filled(tx_buf, call[p]) /\ len = Len(Header(call[p])) + Len(call[p].body)
  BY <1>2, CallsAreAccesses DEF SpiInv, CallsInv, BuffersInv, BuffersOf, Steps
<1>4. rx_buf' = Answer(Addressed(tx_buf), len, mem, rx_buf)
  BY Zenon DEF Transceive, Answer
<1>5. /\ ~Addressed(tx_buf).write
      /\ \A i \in 1 .. Len(call[p].body) :
           CellOf(call[p], i) \in Cells =>
             rx_buf'[Len(Header(call[p])) + i] = mem[CellOf(call[p], i)]
  <2>1. PICK c, buf, old, total, bytes :
          c = call[p] /\ buf = tx_buf /\ old = rx_buf /\ total = len /\ bytes = mem
    OBVIOUS
  <2>2. IsAccess(c) /\ ~c.write /\ Filled(buf, c) /\ total = Len(Header(c)) + Len(c.body)
    BY <1>3, <2>1, Zenon
  <2>3. ~Addressed(buf).write /\ Answers(c, Addressed(buf), total, bytes, old)
    BY <2>2, AnswersItsBytes
  <2> QED BY <1>4, <2>1, <2>3, Zenon DEF Answers
<1>6. mem' = mem
  BY <1>5, Zenon DEF Transceive
<1>7. CallsInv' /\ HeldInv' /\ GotInv'
  BY <1>1, <1>2, <1>6, OthersKeepTheRest DEF SpiInv, SpiSteps
<1>9. BuffersOf(p)'
  <2>1. pc'[p] = "copy" /\ call'[p] = call[p] /\ ~call[p].write
    BY <1>1, <1>2 DEF Steps
  <2>2. \A i \in 1 .. Len(call'[p].body) :
          CellOf(call'[p], i) \in Cells =>
            rx_buf'[Len(Header(call'[p])) + i] = mem'[CellOf(call'[p], i)]
    BY <1>5, <1>6, <2>1, Zenon
  <2> QED BY <2>1, <2>2, Zenon DEF BuffersOf
<1> QED BY <1>2, <1>7, <1>9, OnlyItsBuffers DEF Rest

LEMMA CopyKeeps ==
  ASSUME SpiInv, NEW p \in Procs, Copy(p)
  PROVE  Rest'
<1>1. /\ Runs(p, "copy", "mutexoff") /\ UNCHANGED <<call, tx_buf, rx_buf, len, mem, held>>
      /\ got' = [got EXCEPT ![p] = [i \in DOMAIN call[p].body |-> rx_buf[Len(Header(call[p])) + i]]]
  BY DEF Copy
<1>2. Steps(p, "copy", "mutexoff")
  BY <1>1, RunsAlone DEF SpiInv, SpiSteps
<1>3. CallsInv'
  BY <1>1, <1>2, Zenon DEF SpiInv, CallsInv, Steps
<1>4. \A q \in Procs : Pending(q)' <=> Pending(q)
  BY <1>1, <1>2 DEF Pending, Steps
<1>5. HeldInv'
  BY <1>1, <1>4 DEF SpiInv, HeldInv
<1>6. BuffersOf(p)'
  BY <1>2 DEF Steps, BuffersOf
<1>7. GotInv'
  <2>1. got' = [q \in Procs |-> got'[q]]
        /\ got'[p] = [i \in DOMAIN call[p].body |-> rx_buf[Len(Header(call[p])) + i]]
        /\ \A q \in Procs : q # p => got'[q] = got[q]
    BY <1>1, Zenon DEF SpiInv, GotInv
  <2>2. call[p] \in Own(p) /\ ~call[p].write /\ IsAccess(call[p])
        /\ \A i \in 1 .. Len(call[p].body) :
             CellOf(call[p], i) \in Cells =>
               rx_buf[Len(Header(call[p])) + i] = mem[CellOf(call[p], i)]
    BY <1>2, CallsAreAccesses DEF SpiInv, CallsInv, BuffersInv, BuffersOf, Steps
  <2>3. DOMAIN call[p].body = 1 .. Len(call[p].body)
    BY <2>2, AccessIs, Zenon
  <2>4. GotOf(p)'
    BY <1>1, <2>1, <2>2, <2>3, Zenon DEF GotOf
  <2>5. ASSUME NEW q \in Procs, q # p PROVE GotOf(q)'
    <3>1. got'[q] = got[q] /\ call' = call /\ mem' = mem /\ GotOf(q)
      BY <1>1, <2>1, <2>5 DEF SpiInv, GotInv
    <3> QED BY <3>1 DEF GotOf
  <2> QED BY <2>1, <2>4, <2>5 DEF GotInv
<1> QED BY <1>2, <1>3, <1>5, <1>6, <1>7, OnlyItsBuffers DEF Rest

LEMMA SpiInvKept ==
  ASSUME PortsTell, SpiInv, [SpiNext]_spivars
  PROVE  SpiInv'
<1>1. ASSUME UNCHANGED spivars PROVE Rest'
  <2>1. UNCHANGED <<port, enabled, pc, call, tx_buf, rx_buf, len, mem, held, got>>
    BY <1>1 DEF spivars
  <2>2. CallsInv'
    BY <2>1 DEF SpiInv, CallsInv
  <2>3. HeldInv'
    BY <2>1 DEF SpiInv, HeldInv, Pending
  <2>4. BuffersInv'
    BY <2>1, Zenon DEF SpiInv, BuffersInv, BuffersOf
  <2>5. GotInv'
    BY <2>1 DEF SpiInv, GotInv, GotOf
  <2> QED BY <2>2, <2>3, <2>4, <2>5 DEF Rest
<1>2. ASSUME SpiNext PROVE Rest'
  <2>1. ASSUME NEW c \in MainCalls, Begin("main", c) PROVE Rest'
    BY <2>1, BeginKeeps DEF Own, Procs
  <2>2. ASSUME NEW c \in IsrCalls, Begin("isr", c) PROVE Rest'
    BY <2>2, BeginKeeps DEF Own, Procs
  <2>3. ASSUME NEW v, SetSpeed(v) PROVE Rest'
    BY <2>3, SetSpeedKeeps
  <2>4. ASSUME NEW p \in Procs, Transceive(p) PROVE Rest'
    BY <2>4, ReceivesWrite, AnswersReading
  <2>5. ASSUME NEW p \in Procs,
               DecaMutexOn(p) \/ Fill(p) \/ Lengths(p) \/ Copy(p) \/ DecaMutexOff(p)
        PROVE  Rest'
    BY <2>5, DecaMutexOnKeeps, FillKeeps, LengthsKeeps, CopyKeeps, DecaMutexOffKeeps
  <2> QED
    BY <1>2, <2>1, <2>2, <2>3, <2>4, <2>5 DEF SpiNext
<1>3. MutexInv'
  BY MutexKept DEF SpiInv
<1> QED BY <1>1, <1>2, <1>3 DEF SpiInv, Rest

(***************************************************************************)
(* Between two accesses the transceiver holds what it was asked to hold,   *)
(* for all accesses whose parts the header and the buffer hold, and an     *)
(* interrupt routine of registers of its own, on a port that tells of it   *)
(* (decamutexon).                                                          *)
(***************************************************************************)
THEOREM AccessesStayExact == ASSUME PortsTell PROVE SpiSpec => []AccessesExact
<1>1. SpiInit => SpiInv
  <2> SUFFICES ASSUME SpiInit PROVE SpiInv
    OBVIOUS
  <2>1. MutexInv
    BY DEF SpiInit, MutexInv, Procs, SpiSteps, Unguarded
  <2>2. CallsInv
    BY DEF SpiInit, CallsInv, Procs
  <2>3. HeldInv
    BY DEF SpiInit, HeldInv, Pending, Procs
  <2>4. BuffersInv
    BY DEF SpiInit, BuffersInv, BuffersOf, Procs
  <2>5. GotInv
    BY DEF SpiInit, GotInv, GotOf, Procs
  <2> QED BY <2>1, <2>2, <2>3, <2>4, <2>5 DEF SpiInv
<1>2. SpiInv /\ [SpiNext]_spivars => SpiInv'
  BY SpiInvKept
<1>3. SpiInv => AccessesExact
  <2> SUFFICES ASSUME SpiInv, \A p \in Procs : Idle(p)
               PROVE  /\ mem = held
                      /\ \A p \in Procs :
                           got[p] # <<>> =>
                             \A i \in DOMAIN got[p] :
                               CellOf(call[p], i) \in Cells => got[p][i] = held[CellOf(call[p], i)]
    BY DEF AccessesExact, CellOf
  <2>1. \A p \in Procs : ~Pending(p)
    BY DEF Pending, Idle
  <2>2. \A x \in Cells : held[x] = mem[x]
    BY <2>1, Zenon DEF SpiInv, HeldInv
  <2>3. mem = held
    BY <2>2 DEF SpiInv, HeldInv
  <2> QED BY <2>3 DEF SpiInv, GotInv, GotOf
<1> QED BY <1>1, <1>2, <1>3, PTL DEF SpiSpec

-----------------------------------------------------------------------------
(***************************************************************************)
(* The fixture of Unity (UnityFixture). The counters agree with a history  *)
(* of what decided each test first, and the store of pointers is undone    *)
(* from its last element to its first.                                     *)
(***************************************************************************)

\* A test runs: one of its parts, or its pointers are put back.
TestRuns == part \in Parts \cup {"undo"}

\* The counters and flags of Unity.
Counters == [CurrentTestFailed : BOOLEAN, CurrentTestIgnored : BOOLEAN,
           NumberOfTests : Nat, TestFailures : Nat, TestIgnores : Nat]

\* Each test that has ended was counted once, as the history has it; the one that
\* runs is counted among all.
Counted ==
  /\ Unity.TestFailures = decided["fail"]
  /\ Unity.TestIgnores = decided["ignore"]
  /\ Unity.NumberOfTests
       = decided["fail"] + decided["ignore"] + decided["none"] + (IF TestRuns THEN 1 ELSE 0)

\* The flags of the test that runs remember what the history does, the first
\* decision; between two tests they are reset, and the counters agree.
CountsInv ==
  /\ part \in Parts \cup {"idle", "undo", "ended"}
  /\ Unity \in Counters
  /\ Unity.CurrentTestFailed <=> TestRuns /\ first = "fail"
  /\ Unity.CurrentTestIgnored <=> TestRuns /\ first = "ignore"
  /\ first \in Decisions
  /\ decided \in [Decisions -> Nat]
  /\ Counted

\* One test more was decided so.
OneMore(d) ==
  /\ decided' \in [Decisions -> Nat]
  /\ \A e \in Decisions : decided'[e] = IF e = d THEN decided[e] + 1 ELSE decided[e]

LEMMA DecidedOnce ==
  ASSUME decided \in [Decisions -> Nat], NEW d \in Decisions,
         decided' = [decided EXCEPT ![d] = decided[d] + 1]
  PROVE  OneMore(d)
BY DEF OneMore

\* A test that ends is counted as it was decided.
LEMMA CountedOnce ==
  ASSUME Unity \in Counters, Unity' \in Counters, decided \in [Decisions -> Nat], Counted,
         NEW d \in Decisions, OneMore(d), ~TestRuns',
         Unity'.TestIgnores = IF d = "ignore" THEN Unity.TestIgnores + 1 ELSE Unity.TestIgnores,
         Unity'.TestFailures = IF d = "fail" THEN Unity.TestFailures + 1 ELSE Unity.TestFailures,
         Unity'.NumberOfTests = Unity.NumberOfTests + (IF TestRuns THEN 0 ELSE 1)
  PROVE  Counted'
<1>1. PICK f \in Nat, i \in Nat, n \in Nat :
        decided["fail"] = f /\ decided["ignore"] = i /\ decided["none"] = n
  BY DEF Decisions
<1>2. CASE d = "fail"
  <2>1. decided'["fail"] = f + 1 /\ decided'["ignore"] = i /\ decided'["none"] = n
    BY <1>1, <1>2 DEF OneMore, Decisions
  <2> QED BY <1>1, <1>2, <2>1 DEF Counted
<1>3. CASE d = "ignore"
  <2>1. decided'["fail"] = f /\ decided'["ignore"] = i + 1 /\ decided'["none"] = n
    BY <1>1, <1>3 DEF OneMore, Decisions
  <2> QED BY <1>1, <1>3, <2>1 DEF Counted
<1>4. CASE d = "none"
  <2>1. decided'["fail"] = f /\ decided'["ignore"] = i /\ decided'["none"] = n + 1
    BY <1>1, <1>4 DEF OneMore, Decisions
  <2> QED BY <1>1, <1>4, <2>1 DEF Counted
<1> QED BY <1>2, <1>3, <1>4 DEF Decisions

LEMMA CountsInvKept == CountsInv /\ [FixtureNext]_fixturevars => CountsInv'
<1> SUFFICES ASSUME CountsInv, [FixtureNext]_fixturevars PROVE CountsInv'
  OBVIOUS
<1> USE DEF CountsInv, TestRuns, Parts, Decisions
<1>1. CASE UnityTestRunner
  BY <1>1 DEF Counters, Counted, UnityTestRunner
<1>2. CASE UnityIgnoreTest
  <2>1. /\ part = "idle" /\ part' = part /\ first' = first
        /\ decided' = [decided EXCEPT !["ignore"] = decided["ignore"] + 1]
        /\ Unity' = [Unity EXCEPT !.NumberOfTests = Unity.NumberOfTests + 1,
                                  !.TestIgnores = Unity.TestIgnores + 1]
    BY <1>2 DEF UnityIgnoreTest
  <2>2. OneMore("ignore")
    BY <2>1, DecidedOnce
  <2>3. /\ Unity' \in Counters
        /\ Unity'.NumberOfTests = Unity.NumberOfTests + 1
        /\ Unity'.TestIgnores = Unity.TestIgnores + 1
        /\ Unity'.TestFailures = Unity.TestFailures
    <3>1. Unity' = [CurrentTestFailed |-> Unity.CurrentTestFailed,
                    CurrentTestIgnored |-> Unity.CurrentTestIgnored,
                    NumberOfTests |-> Unity.NumberOfTests + 1,
                    TestFailures |-> Unity.TestFailures, TestIgnores |-> Unity.TestIgnores + 1]
      BY <2>1 DEF Counters
    <3> QED BY <3>1 DEF Counters
  <2>4. ~TestRuns /\ ~TestRuns'
    BY <2>1
  <2>5. Unity'.CurrentTestFailed = FALSE /\ Unity'.CurrentTestIgnored = FALSE
    <3>1. Unity.CurrentTestFailed = FALSE /\ Unity.CurrentTestIgnored = FALSE
      BY <2>4 DEF Counters
    <3> QED BY <2>1, <3>1 DEF Counters
  <2> QED BY <2>1, <2>2, <2>3, <2>4, <2>5, CountedOnce DEF Counters
<1>3. ASSUME NEW b \in BOOLEAN, Assertion(b) PROVE CountsInv'
  BY <1>3 DEF Counters, Counted, Assertion, Done, AbortTo, Decide
<1>4. CASE UnityIgnore
  BY <1>4 DEF Counters, Counted, UnityIgnore, Done, AbortTo, Decide
<1>5. CASE Pass
  BY <1>5 DEF Counters, Counted, Pass, AbortTo
<1>6. ASSUME NEW p \in Pointers, NEW v \in Targets, UnityPointer_Set(p, v) PROVE CountsInv'
  BY <1>6 DEF Counters, Counted, UnityPointer_Set
<1>7. CASE UnityPointer_SetFails
  BY <1>3, <1>7 DEF UnityPointer_SetFails
<1>8. CASE EndOfPart
  BY <1>8 DEF Counters, Counted, EndOfPart, After
<1>9. CASE UndoLastSet
  BY <1>9 DEF Counters, Counted, UndoLastSet
<1>10. CASE Conclude
  <2>1. /\ part = "undo" /\ part' = "idle" /\ first' = first
        /\ decided' = [decided EXCEPT ![first] = decided[first] + 1]
        /\ Unity' = [Unity EXCEPT
             !.TestIgnores = IF Unity.CurrentTestIgnored THEN Unity.TestIgnores + 1
                                                         ELSE Unity.TestIgnores,
             !.TestFailures = IF ~Unity.CurrentTestIgnored /\ Unity.CurrentTestFailed
                                THEN Unity.TestFailures + 1 ELSE Unity.TestFailures,
             !.CurrentTestFailed = FALSE,
             !.CurrentTestIgnored = FALSE]
    BY <1>10 DEF Conclude
  <2>2. OneMore(first)
    BY <2>1, DecidedOnce
  <2>3. TestRuns /\ ~TestRuns'
    BY <2>1
  <2>4. /\ Unity' \in Counters
        /\ Unity'.NumberOfTests = Unity.NumberOfTests
        /\ Unity'.TestIgnores = IF first = "ignore" THEN Unity.TestIgnores + 1
                                                    ELSE Unity.TestIgnores
        /\ Unity'.TestFailures = IF first = "fail" THEN Unity.TestFailures + 1
                                                   ELSE Unity.TestFailures
    <3>1. Unity' = [CurrentTestFailed |-> FALSE, CurrentTestIgnored |-> FALSE,
                    NumberOfTests |-> Unity.NumberOfTests,
                    TestFailures |-> IF ~Unity.CurrentTestIgnored /\ Unity.CurrentTestFailed
                                       THEN Unity.TestFailures + 1 ELSE Unity.TestFailures,
                    TestIgnores |-> IF Unity.CurrentTestIgnored THEN Unity.TestIgnores + 1
                                                                ELSE Unity.TestIgnores]
      BY <2>1 DEF Counters
    <3>2. /\ Unity.CurrentTestFailed <=> first = "fail"
          /\ Unity.CurrentTestIgnored <=> first = "ignore"
      BY <2>3
    <3>3. Unity.TestFailures + 1 \in Nat /\ Unity.TestIgnores + 1 \in Nat
      BY DEF Counters
    <3>4. Unity' \in Counters
      BY <3>1, <3>3 DEF Counters
    <3> QED BY <3>1, <3>2, <3>4
  <2>5. Unity'.CurrentTestFailed = FALSE /\ Unity'.CurrentTestIgnored = FALSE
    BY <2>1 DEF Counters
  <2> QED BY <2>1, <2>2, <2>3, <2>4, <2>5, CountedOnce DEF Counters
<1>11. CASE UnityEnd
  BY <1>11 DEF Counters, Counted, UnityEnd
<1>12. CASE UNCHANGED fixturevars
  BY <1>12 DEF Counters, Counted, fixturevars
<1> QED
  BY <1>1, <1>2, <1>3, <1>4, <1>5, <1>6, <1>7, <1>8, <1>9, <1>10, <1>11, <1>12
  DEF FixtureNext

(***************************************************************************)
(* Between two tests each has been counted once, by what decided it first: *)
(* for any number of tests, whatever their parts do.                       *)
(***************************************************************************)
THEOREM CountsStayRight == FixtureSpec => []CountsRight
<1>1. FixtureInit => CountsInv
  BY DEF FixtureInit, CountsInv, TestRuns, Parts, Decisions, Counters, Counted
<1>2. CountsInv => CountsRight
  <2>1. part = "idle" => ~TestRuns
    BY DEF TestRuns, Parts
  <2>2. CountsInv => decided["fail"] \in Nat /\ decided["ignore"] \in Nat /\ decided["none"] \in Nat
    BY DEF CountsInv, Decisions
  <2> QED BY <2>1, <2>2 DEF CountsInv, CountsRight, Counted
<1> QED BY <1>1, <1>2, CountsInvKept, PTL DEF FixtureSpec

-----------------------------------------------------------------------------
\* A pointer that is in the store has there, where it comes first, what it was
\* before the test; one that is not was not replaced.
PointersInv ==
  /\ part \in Parts \cup {"idle", "undo", "ended"}
  /\ pointer \in [Pointers -> Targets]
  /\ pointer_store \in Seq([pointer : Pointers, old_value : Targets])
  /\ ~TestRuns => pointer_store = <<>>
  /\ \A p \in Pointers :
       (\A i \in 1 .. Len(pointer_store) : pointer_store[i].pointer # p) => pointer[p] = Original
  /\ \A i \in 1 .. Len(pointer_store) :
       (\A j \in 1 .. (i - 1) : pointer_store[j].pointer # pointer_store[i].pointer)
         => pointer_store[i].old_value = Original

LEMMA PointersInvKept == PointersInv /\ [FixtureNext]_fixturevars => PointersInv'
<1> SUFFICES ASSUME PointersInv, [FixtureNext]_fixturevars PROVE PointersInv'
  OBVIOUS
<1> USE DEF PointersInv, TestRuns, Parts
<1>1. CASE UnityTestRunner
  BY <1>1 DEF UnityTestRunner
<1>2. CASE \/ UnityIgnoreTest \/ UnityIgnore \/ Pass \/ EndOfPart \/ UnityEnd \/ Conclude
           \/ UNCHANGED fixturevars
  <2>1. UNCHANGED <<pointer, pointer_store>>
    BY <1>2 DEF UnityIgnoreTest, UnityIgnore, Pass, EndOfPart, UnityEnd, Conclude, fixturevars
  <2>2. part' \in Parts \cup {"idle", "undo", "ended"}
    BY <1>2 DEF UnityIgnoreTest, UnityIgnore, Pass, EndOfPart, UnityEnd, Conclude, fixturevars,
      AbortTo, After
  <2>3. ~TestRuns' => pointer_store = <<>>
    BY <1>2 DEF UnityIgnoreTest, UnityIgnore, Pass, EndOfPart, UnityEnd, Conclude, fixturevars,
      AbortTo, After
  <2> QED BY <2>1, <2>2, <2>3
<1>3. ASSUME NEW b \in BOOLEAN, Assertion(b) PROVE PointersInv'
  BY <1>3 DEF Assertion, AbortTo
<1>4. CASE UnityPointer_SetFails
  BY <1>3, <1>4 DEF UnityPointer_SetFails
<1>5. ASSUME NEW p \in Pointers, NEW v \in Targets, UnityPointer_Set(p, v) PROVE PointersInv'
  <2> DEFINE s == [pointer |-> p, old_value |-> pointer[p]]
  <2>1. /\ part' = part /\ part \in Parts
        /\ pointer_store' = Append(pointer_store, s)
        /\ pointer' = [pointer EXCEPT ![p] = v]
    BY <1>5 DEF UnityPointer_Set
  <2>2. s \in [pointer : Pointers, old_value : Targets]
    OBVIOUS
  <2>3. PICK n \in Nat : n = Len(pointer_store)
    BY LenProperties
  <2>4. /\ pointer_store' \in Seq([pointer : Pointers, old_value : Targets])
        /\ Len(pointer_store') = n + 1
        /\ \A i \in 1 .. n : pointer_store'[i] = pointer_store[i]
        /\ pointer_store'[n + 1] = s
    BY <2>1, <2>2, <2>3
  <2>5. ASSUME NEW q \in Pointers, \A i \in 1 .. (n + 1) : pointer_store'[i].pointer # q
        PROVE  pointer'[q] = Original
    <3>1. q # p
      BY <2>4, <2>5
    <3>2. \A i \in 1 .. n : pointer_store[i].pointer # q
      BY <2>4, <2>5
    <3> QED BY <2>1, <2>3, <3>1, <3>2
  <2>6. ASSUME NEW i \in 1 .. (n + 1),
               \A j \in 1 .. (i - 1) : pointer_store'[j].pointer # pointer_store'[i].pointer
        PROVE  pointer_store'[i].old_value = Original
    <3>1. CASE i \in 1 .. n
      <4>1. \A j \in 1 .. (i - 1) : j \in 1 .. n
        BY <3>1
      <4> QED BY <2>3, <2>4, <2>6, <3>1, <4>1
    <3>2. CASE i = n + 1
      BY <2>3, <2>4, <2>6, <3>2
    <3> QED BY <3>1, <3>2
  <2> HIDE DEF s
  <2> QED BY <2>1, <2>4, <2>5, <2>6
<1>6. CASE UndoLastSet
  <2>1. /\ part' = part /\ part = "undo" /\ pointer_store # <<>>
        /\ pointer' = [pointer EXCEPT ![Last(pointer_store).pointer]
                                        = Last(pointer_store).old_value]
        /\ pointer_store' = Front(pointer_store)
    BY <1>6 DEF UndoLastSet
  <2>2. PICK n \in Nat : Len(pointer_store) = n + 1
    <3>1. Len(pointer_store) \in Nat /\ Len(pointer_store) # 0
      BY <2>1, EmptySeq, LenProperties
    <3>2. Len(pointer_store) - 1 \in Nat /\ Len(pointer_store) = (Len(pointer_store) - 1) + 1
      BY <3>1
    <3> QED BY <3>2
  <2>3. PICK s \in [pointer : Pointers, old_value : Targets] : s = pointer_store[n + 1]
    <3>1. n + 1 \in 1 .. Len(pointer_store)
      BY <2>2
    <3> QED BY <3>1, ElementOfSeq
  <2>4. /\ pointer_store' \in Seq([pointer : Pointers, old_value : Targets])
        /\ Len(pointer_store') = n
        /\ \A i \in 1 .. n : pointer_store'[i] = pointer_store[i]
    <3>1. pointer_store' = SubSeq(pointer_store, 1, n)
      BY <2>1, <2>2 DEF Front
    <3>2. \A i \in 1 .. n : pointer_store[i] \in [pointer : Pointers, old_value : Targets]
      <4>1. \A i \in 1 .. n : i \in 1 .. Len(pointer_store)
        BY <2>2
      <4> QED BY <4>1, ElementOfSeq
    <3>3. IF 1 <= n THEN n - 1 + 1 = n ELSE 0 = n
      OBVIOUS
    <3>4. \A i \in 1 .. n : i \in 1 .. (n - 1 + 1) /\ 1 + i - 1 = i
      OBVIOUS
    <3> QED BY <3>1, <3>2, <3>3, <3>4, SubSeqProperties
  <2>5. pointer' = [pointer EXCEPT ![s.pointer] = s.old_value]
    BY <2>1, <2>2, <2>3 DEF Last
  <2>6. ASSUME NEW q \in Pointers, \A i \in 1 .. n : pointer_store'[i].pointer # q
        PROVE  pointer'[q] = Original
    <3>1. \A i \in 1 .. n : pointer_store[i].pointer # q
      BY <2>4, <2>6
    <3>2. CASE s.pointer = q
      BY <2>2, <2>3, <2>5, <3>1, <3>2
    <3>3. CASE s.pointer # q
      <4>1. \A i \in 1 .. (n + 1) : pointer_store[i].pointer # q
        BY <2>3, <3>1, <3>3
      <4> QED BY <2>2, <2>5, <3>3, <4>1
    <3> QED BY <3>2, <3>3
  <2>7. ASSUME NEW i \in 1 .. n,
               \A j \in 1 .. (i - 1) : pointer_store'[j].pointer # pointer_store'[i].pointer
        PROVE  pointer_store'[i].old_value = Original
    BY <2>2, <2>4, <2>7
  <2> QED BY <2>1, <2>4, <2>5, <2>6, <2>7
<1> QED BY <1>1, <1>2, <1>3, <1>4, <1>5, <1>6 DEF FixtureNext

(***************************************************************************)
(* Between two tests every pointer is what it was before the first, for    *)
(* any number of pointers and of replacements in a test.                   *)
(***************************************************************************)
THEOREM PointersStayRestored == FixtureSpec => []PointersRestored
<1>1. FixtureInit => PointersInv
  BY TargetsAssumption DEF FixtureInit, PointersInv, TestRuns, Parts, Original
<1>2. PointersInv => PointersRestored
  BY DEF PointersInv, PointersRestored, TestRuns, Parts
<1> QED BY <1>1, <1>2, PointersInvKept, PTL DEF FixtureSpec
=============================================================================
