------------------------------ MODULE DwConfig ------------------------------
(***************************************************************************)
(* The configuration of a transceiver (lib/decadriver/deca_device.c): the  *)
(* registers the driver's calls write, and the copies of some of them the  *)
(* driver keeps in dw1000local.  A call that changes one bit writes the    *)
(* whole register, from the copy or from what it reads back.               *)
(*                                                                         *)
(* A register of flags is the set of the flags that are 1, a field of      *)
(* numbers the set of the bits that are 1, so that |= is \cup, &= ~ is \   *)
(***************************************************************************)
EXTENDS Naturals

CONSTANTS
  FrameTypes,  \* SYS_CFG_FF*: the flags of SYS_CFG_FF_ALL_EN
  Configs,     \* the dwt_config_t: [slow, phrMode, code]
  Frames,      \* [len, off, tr]: arguments of dwt_writetxfctrl
  ResetLen,    \* TFLEN of TX_FCTRL after a reset
  Times,       \* timeouts and delays, 0 among them
  Plain,       \* registers, fields and bits that are settings by themselves
  Events,      \* those of Plain that are bits of SYS_MASK
  Values,      \* what is written to them
  Cleared      \* what a reset leaves in them

ASSUME ConfigsAssumption ==
  \A c \in Configs : /\ c = [slow |-> c.slow, phrMode |-> c.phrMode, code |-> c.code]
                     /\ c.slow \in BOOLEAN /\ c.phrMode \in {0, 3}
ASSUME FramesAssumption == \A f \in Frames : f = [len |-> f.len, off |-> f.off, tr |-> f.tr]
ASSUME TimesAssumption == Times \subseteq Nat

\* The registers, and fields and bits of registers, that have a call of their
\* own.  Two of them have a second one: dwt_configure writes "DRX_TUNE2+2", the
\* measurements of the pulse generator write "TC_PGDELAY".
OwnRegisters == {"TC_PGDELAY", "TX_POWER", "CRTR_GEAR", "DRX_TUNE2+2", "LDE_RXANTD", "TX_ANTD",
                 "PAN_ID", "SHORT_ADDR", "EUI_64", "DRX_PRETOC", "PMSC_TXFINESEQ", "FS_XTALT",
                 "GDP0", "GDP1", "GOP0", "GOP1", "MSGP2", "MSGP3", "MSGP4", "MSGP5", "MSGP6"}

\* The other settings.
SharedSettings == {"radio", "filter", "smart", "dblBuff", "autoAck", "timeout", "ackTime",
                   "rxDelay", "frame"}

\* A reset disables all events.
ASSUME EventsAssumption ==
  /\ Events \subseteq Plain \ (OwnRegisters \cup SharedSettings)
  /\ Events # {} => Cleared = 0
ASSUME FlagsAssumption ==
  FrameTypes \cap {"FFE", "HIRQ_POL", "DIS_DRXB", "PHR_MODE", "DIS_STXP", "RXM110K",
                   "RXWTOE", "AUTOACK", "other"} = {}

VARIABLES
  chip,   \* the registers of the transceiver
  local,  \* dw1000local
  asked   \* history: what each setting was last asked to be, since dwt_initialise

vars == <<chip, local, asked>>

NoFrame == [len |-> {}, off |-> {}, tr |-> {}]
None == [mode |-> "none", len |-> {}, off |-> {}, tr |-> {}]

\* The registers after a reset.
ResetChip ==
  [sys_cfg  |-> {"HIRQ_POL", "DIS_DRXB"},
   tx_fctrl |-> [None EXCEPT !.len = ResetLen],
   ack      |-> [w4r |-> 0, ack_tim |-> 0],
   fwto     |-> 0,
   radio    |-> "default",
   plain    |-> [r \in Plain |-> Cleared]]

\* g, but for what f says.
Over(f, g) == [x \in DOMAIN f \cup DOMAIN g |-> IF x \in DOMAIN f THEN f[x] ELSE g[x]]

\* What the calls up to now should have made of the transceiver.
Asking(f) == asked' = Over(f, asked)

Ready == asked # <<>>

Init ==
  /\ chip = ResetChip
  /\ local = [sysCFGreg |-> {}, txFCTRL |-> None, longFrames |-> 0, dblbuffon |-> FALSE]
  /\ asked = <<>>

\* The two bits of PHR_MODE, which are both set or both clear.
PhrMode(cfg) == IF "PHR_MODE" \in cfg THEN 3 ELSE 0

\* What dwt_initialise reads back at its end.
ReadBack(c) ==
  local' = [sysCFGreg |-> c.sys_cfg, txFCTRL |-> c.tx_fctrl,
            longFrames |-> PhrMode(c.sys_cfg), dblbuffon |-> FALSE]

\* dwt_initialise, which resets the transceiver.
Initialise ==
  /\ chip' = ResetChip
  /\ ReadBack(chip')
  /\ asked' = [dblBuff |-> FALSE]

\* dwt_initialise with DWT_DW_WAKE_UP: the transceiver has preserved its
\* registers but those of dwt_configurefor64plen, the RAM of the processor may
\* be lost.
Resume ==
  /\ Ready
  /\ ReadBack(chip)
  /\ chip' = [chip EXCEPT !.plain =
                Over([r \in {"CRTR_GEAR", "DRX_TUNE2+2"} \cap Plain |-> Cleared], @)]
  /\ UNCHANGED asked

\* dwt_initialise when the identity read is not that of a DW1000.
InitialiseFails ==
  /\ local' = [local EXCEPT !.dblbuffon = FALSE]
  /\ UNCHANGED <<chip, asked>>

SoftReset ==
  /\ chip' = ResetChip
  /\ UNCHANGED <<local, asked>>

\* SYS_CFG written from the copy.
WriteCfg(cfg) ==
  /\ chip' = [chip EXCEPT !.sys_cfg = cfg]
  /\ local' = [local EXCEPT !.sysCFGreg = cfg]

\* The flag set or cleared.
Put(flags, flag, on) == IF on THEN flags \cup {flag} ELSE flags \ {flag}

\* dwt_configure.  The channel, code, preamble and tuning registers are one
\* register named radio, but for the byte of DRX_TUNE2 that
\* dwt_configurefor64plen writes, too.
Configure(c) ==
  LET cfg == Put(Put(local.sysCFGreg, "RXM110K", c.slow), "PHR_MODE", c.phrMode = 3)
      fctrl == [None EXCEPT !.mode = c.code]
      tune == [r \in {"DRX_TUNE2+2"} \cap Plain |-> c.code]
  IN /\ chip' = [chip EXCEPT !.sys_cfg = cfg, !.radio = c.code, !.tx_fctrl = fctrl,
                             !.plain = Over(tune, @)]
     /\ local' = [local EXCEPT !.sysCFGreg = cfg, !.txFCTRL = fctrl, !.longFrames = c.phrMode]
     /\ Asking(Over(tune, [radio |-> c, frame |-> NoFrame]))

\* dwt_enableframefilter: reads SYS_CFG back; enable has 16 bits, of which
\* those of SYS_CFG_FF_ALL_EN are used.
EnableFrameFilter(enable) ==
  /\ WriteCfg(IF enable # {}
                THEN (chip.sys_cfg \ FrameTypes) \cup (enable \cap FrameTypes) \cup {"FFE"}
                ELSE chip.sys_cfg \ {"FFE"})
  /\ Asking([filter |-> enable \cap FrameTypes])

\* dwt_setsmarttxpower: reads SYS_CFG back.
SetSmartTxPower(enable) ==
  /\ WriteCfg(Put(chip.sys_cfg, "DIS_STXP", ~enable))
  /\ Asking([smart |-> enable])

\* dwt_setdblrxbuffmode: writes the copy.
SetDblRxBuffMode(enable) ==
  LET cfg == Put(local.sysCFGreg, "DIS_DRXB", ~enable)
  IN /\ chip' = [chip EXCEPT !.sys_cfg = cfg]
     /\ local' = [local EXCEPT !.sysCFGreg = cfg, !.dblbuffon = enable]
     /\ Asking([dblBuff |-> enable])

\* dwt_enableautoack: writes the copy.
EnableAutoAck(delay) ==
  LET cfg == local.sysCFGreg \cup {"AUTOACK"}
  IN /\ chip' = [chip EXCEPT !.sys_cfg = cfg, !.ack.ack_tim = delay]
     /\ local' = [local EXCEPT !.sysCFGreg = cfg]
     /\ Asking([autoAck |-> TRUE, ackTime |-> delay])

\* dwt_setrxaftertxdelay: the 20 bits of W4R_TIM in ACK_RESP_T.
SetRxAfterTxDelay(delay) ==
  /\ chip' = [chip EXCEPT !.ack.w4r = delay]
  /\ Asking([rxDelay |-> delay])
  /\ UNCHANGED local

\* Fault: the copy is not kept.
SetRxTimeoutForgets(time) ==
  /\ chip' = [chip EXCEPT !.sys_cfg = Put(@, "RXWTOE", time > 0),
                          !.fwto = IF time > 0 THEN time ELSE @]
  /\ Asking([timeout |-> time])
  /\ UNCHANGED local

\* dwt_setrxtimeout: reads the upper byte of SYS_CFG back, the copy takes
\* the bit alone.
SetRxTimeout(time) ==
  /\ chip' = [chip EXCEPT !.sys_cfg = Put(@, "RXWTOE", time > 0),
                          !.fwto = IF time > 0 THEN time ELSE @]
  /\ local' = [local EXCEPT !.sysCFGreg = Put(@, "RXWTOE", time > 0)]
  /\ Asking([timeout |-> time])

\* dwt_writetxfctrl: ORs the frame into the configured word.
WriteTxFctrl(f) ==
  /\ chip' = [chip EXCEPT !.tx_fctrl =
                [mode |-> local.txFCTRL.mode,
                 len  |-> local.txFCTRL.len \cup f.len,
                 off  |-> local.txFCTRL.off \cup f.off,
                 tr   |-> local.txFCTRL.tr \cup f.tr]]
  /\ Asking([frame |-> f])
  /\ UNCHANGED local

Write(registers, v) ==
  LET new == [r \in registers \cap Plain |-> v]
  IN /\ chip' = [chip EXCEPT !.plain = Over(new, @)]
     /\ Asking(new)
     /\ UNCHANGED local

\* Fault: the short address in the other half of PANADR is overwritten.
SetPanIdWhole(v) ==
  /\ chip' = [chip EXCEPT !.plain = Over([PAN_ID |-> v, SHORT_ADDR |-> Cleared], @)]
  /\ Asking([PAN_ID |-> v])
  /\ UNCHANGED local

\* The calls that write registers, or halves of one, and read nothing back.
ConfigureTxRf(v) == Write({"TC_PGDELAY", "TX_POWER"}, v)
ConfigureFor64PLen(v) == Write({"CRTR_GEAR", "DRX_TUNE2+2"}, v)
SetRxAntennaDelay(v) == Write({"LDE_RXANTD"}, v)
SetTxAntennaDelay(v) == Write({"TX_ANTD"}, v)
SetPanId(v) == Write({"PAN_ID"}, v)
SetAddress16(v) == Write({"SHORT_ADDR"}, v)
SetEui(v) == Write({"EUI_64"}, v)
SetPreambleDetectTimeout(v) == Write({"DRX_PRETOC"}, v)
SetFineGrainTxSeq(v) == Write({"PMSC_TXFINESEQ"}, v)
SetXtalTrim(v) == Write({"FS_XTALT"}, v)

\* dwt_calcpgcount measures with the delay it is given and leaves it.
MeasurePg(v) == Write({"TC_PGDELAY"}, v)

\* dwt_calcbandwidthtempadj leaves the delay it has tried last, whatever was
\* asked for before.
TryDelays(v) ==
  /\ chip' = [chip EXCEPT !.plain = Over([r \in {"TC_PGDELAY"} \cap Plain |-> v], @)]
  /\ asked' = [s \in DOMAIN asked \ {"TC_PGDELAY"} |-> asked[s]]
  /\ UNCHANGED local

\* The direction and the level of GPIO pins: the mask that goes with the
\* values has the transceiver change no other pin.
SetGpioDirection(pins, v) == Write({IF p = 0 THEN "GDP0" ELSE "GDP1" : p \in pins}, v)
SetGpioValue(pins, v) == Write({IF p = 0 THEN "GOP0" ELSE "GOP1" : p \in pins}, v)

Bit(on) == IF on THEN 1 ELSE 0

\* Writes some of the fields of a register and all others as they were read.
WriteBack(fields) ==
  /\ chip' = [chip EXCEPT !.plain = Over(fields, @)]
  /\ Asking(fields)
  /\ UNCHANGED local

\* dwt_setlnapamode: the modes of pins 4 and 5 for the amplifier of
\* transmissions, of pin 6 for that of receptions.
SetLnaPaMode(lna, pa) ==
  WriteBack([r \in {"MSGP4", "MSGP5", "MSGP6"} \cap Plain |-> Bit(IF r = "MSGP6" THEN lna ELSE pa)])

\* dwt_setleds: the modes of pins 2 and 3, for receptions and transmissions.
SetLeds(on) == WriteBack([r \in {"MSGP2", "MSGP3"} \cap Plain |-> Bit(on)])

\* dwt_setinterrupt: the events of the mask enabled, disabled, or the only
\* ones enabled.
SetInterrupt(bitmask, operation) ==
  LET mask == {e \in Events : chip.plain[e] = 1}
      new  == CASE operation = 2 -> bitmask
                [] operation = 1 -> mask \cup bitmask
                [] operation = 0 -> mask \ bitmask
  IN /\ chip' = [chip EXCEPT !.plain = Over([e \in Events |-> Bit(e \in new)], @)]
     /\ Asking([e \in IF operation = 2 THEN Events ELSE bitmask |->
                  Bit(operation # 0 /\ e \in bitmask)])
     /\ UNCHANGED local

\* Every call that leaves the transceiver running and its channel as
\* dwt_configure has set it, which the test modes do not.
Calls ==
  \/ Initialise
  \/ /\ Ready
     /\ \/ \E c \in Configs : Configure(c)
        \/ \E e \in SUBSET (FrameTypes \cup {"other"}) : EnableFrameFilter(e)
        \/ \E b \in BOOLEAN : SetSmartTxPower(b) \/ SetDblRxBuffMode(b)
        \/ \E t \in Times : EnableAutoAck(t) \/ SetRxAfterTxDelay(t) \/ SetRxTimeout(t)
        \/ "radio" \in DOMAIN asked /\ \E f \in Frames : WriteTxFctrl(f)
        \/ \E v \in Values :
             \/ ConfigureTxRf(v) \/ ConfigureFor64PLen(v) \/ SetRxAntennaDelay(v)
             \/ SetTxAntennaDelay(v) \/ SetPanId(v) \/ SetAddress16(v) \/ SetEui(v)
             \/ SetPreambleDetectTimeout(v) \/ SetFineGrainTxSeq(v) \/ SetXtalTrim(v)
             \/ MeasurePg(v) \/ TryDelays(v)
        \/ \E pins \in SUBSET (0 .. 1), v \in Values :
             SetGpioDirection(pins, v) \/ SetGpioValue(pins, v)
        \/ \E lna, pa \in BOOLEAN : SetLnaPaMode(lna, pa)
        \/ \E on \in BOOLEAN : SetLeds(on)
        \/ \E bitmask \in SUBSET Events, operation \in 0 .. 2 : SetInterrupt(bitmask, operation)

\* The firmware's use of the driver: dwt_initialise resets the transceiver,
\* and frames are sent once it is configured.
Spec == Init /\ [][Calls]_vars

\* With transceivers that sleep, and that do not answer.
SpecResume == Init /\ [][Calls \/ Resume \/ (Ready /\ InitialiseFails)]_vars

\* With a reset between two calls.
SpecReset == Init /\ [][Calls \/ (Ready /\ SoftReset)]_vars
-----------------------------------------------------------------------------
\* The settings the registers amount to.
Setting(s) ==
  CASE s = "radio"   -> [slow |-> "RXM110K" \in chip.sys_cfg,
                         phrMode |-> PhrMode(chip.sys_cfg), code |-> chip.radio]
    [] s = "filter"  -> IF "FFE" \in chip.sys_cfg THEN chip.sys_cfg \cap FrameTypes ELSE {}
    [] s = "smart"   -> "DIS_STXP" \notin chip.sys_cfg
    [] s = "dblBuff" -> "DIS_DRXB" \notin chip.sys_cfg
    [] s = "autoAck" -> "AUTOACK" \in chip.sys_cfg
    [] s = "ackTime" -> chip.ack.ack_tim
    [] s = "rxDelay" -> chip.ack.w4r
    [] s = "timeout" -> IF "RXWTOE" \in chip.sys_cfg THEN chip.fwto ELSE 0
    [] s = "frame"   -> [len |-> chip.tx_fctrl.len, off |-> chip.tx_fctrl.off,
                         tr |-> chip.tx_fctrl.tr]
    [] OTHER         -> chip.plain[s]

\* Each setting is what the last call that sets it asked for: no call, by
\* writing a register it shares from a copy or from what it reads back, undoes
\* the setting of another one, and the frame sent is the one named last.  Calls
\* that set the same thing do replace each other's: dwt_configure that byte of
\* dwt_configurefor64plen (TunedTogether), and both measurements of the pulse
\* generator the delay of dwt_configuretxrf.
AsAsked == \A s \in DOMAIN asked : Setting(s) = asked[s]

\* The copies of dw1000local are those of the transceiver's registers.
CopiesExact ==
  Ready => /\ local.sysCFGreg = chip.sys_cfg
           /\ local.longFrames = PhrMode(chip.sys_cfg)
           /\ local.dblbuffon = ("DIS_DRXB" \notin chip.sys_cfg)
           /\ "radio" \in DOMAIN asked
                => local.txFCTRL = [None EXCEPT !.mode = chip.tx_fctrl.mode]
-----------------------------------------------------------------------------
\* What comments of the sources say, or a caller may expect, and the code does
\* not do.

\* "Local copy of system config register".
CopyIsLocal == Ready => local.sysCFGreg = chip.sys_cfg

\* "Double RX buffer mode flag".
FlagIsMode == Ready => local.dblbuffon = ("DIS_DRXB" \notin chip.sys_cfg)

\* "pdw1000local->txFCTRL has kept configured bit rate information": the
\* frame sent is the one asked for.
FrameIsAsked == "frame" \in DOMAIN asked => Setting("frame") = asked.frame

\* Once dwt_configurefor64plen has set both its registers, they are set together.
TunedTogether ==
  {"CRTR_GEAR", "DRX_TUNE2+2"} \subseteq DOMAIN asked
    => chip.plain["CRTR_GEAR"] = chip.plain["DRX_TUNE2+2"]
=============================================================================
