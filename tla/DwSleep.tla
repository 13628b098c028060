------------------------------ MODULE DwSleep ------------------------------
(***************************************************************************)
(* A transceiver that sleeps (lib/decadriver/deca_device.c).  Asleep, it   *)
(* keeps the always-on registers and memory alone; on waking it does what  *)
(* AON_WCFG says: fetch the configuration back, load the microcode of the  *)
(* receiver, apply the voltage tuning.  The driver remembers in            *)
(* sleep_mode which of these the transceiver will need, and works it out   *)
(* anew when the processor has lost its memory.                            *)
(*                                                                         *)
(* The parts of the transceiver that are not in src/ are modelled from     *)
(* what the driver's calls rely on.                                        *)
(***************************************************************************)
EXTENDS Naturals

CONSTANTS
  SleepModes,  \* sets of flags of AON_WCFG the application asks for
  Wakes    \* sets of flags of AON_CFG0 it asks for

\* An application that has the transceiver sleep asks for something to wake it.
ASSUME WakesAssumption == \A w \in Wakes : {"WAKE_CNT", "WAKE_CS", "WAKE_WK"} \cap w # {}

VARIABLES
  awake,       \* the transceiver is awake
  loaded,      \* what it holds: of "config", "ucode", "ldo"
  stored,      \* what dwt_entersleep has saved to the always-on memory
  aon,         \* AON_WCFG, AON_CFG0, AON_CFG1
  ldoTune,     \* a tuning is programmed in the OTP memory
  sleep_mode,  \* dw1000local: flags of AON_WCFG to be added
  app          \* the application: [driver |-> dwt_initialise has been called since it
               \* started, ucode |-> it uses the microcode, counted |-> the counter is
               \* set, ready |-> the sleep is configured]

sleepvars == <<awake, loaded, stored, aon, ldoTune, sleep_mode, app>>

Loaded == [ONW_LDC |-> "config", ONW_LLDE |-> "ucode", ONW_LLDO |-> "ldo"]

SleepInit ==
  /\ awake = TRUE
  /\ loaded = {}
  /\ stored = {}
  /\ aon = [wcfg |-> {}, cfg0 |-> {}, cfg1 |-> {}]
  /\ ldoTune \in BOOLEAN
  /\ sleep_mode = {}
  /\ app = [driver |-> FALSE, ucode |-> FALSE, counted |-> FALSE, ready |-> FALSE]

\* dwt_initialise: a software reset, which clears AON_WCFG and AON_CFG0 and
\* saves them, then the tuning and, if asked for, the microcode; AON_CFG1 is
\* cleared at the end.
InitialiseReset(ucode) ==
  /\ awake
  /\ loaded' = (IF ldoTune THEN {"ldo"} ELSE {}) \cup (IF ucode THEN {"ucode"} ELSE {})
  /\ stored' = {}
  /\ aon' = [wcfg |-> {}, cfg0 |-> {}, cfg1 |-> {}]
  /\ sleep_mode' = (IF ldoTune THEN {"ONW_LLDO"} ELSE {}) \cup (IF ucode THEN {"ONW_LLDE"} ELSE {})
  /\ app' = [driver |-> TRUE, ucode |-> ucode, counted |-> FALSE, ready |-> FALSE]
  /\ UNCHANGED <<awake, ldoTune>>

\* Fault: the flag read as the comment in dwt_initialise reads it.
InitialiseWakeAsCommented(noUcode) ==
  /\ awake /\ noUcode = ~app.ucode
  /\ sleep_mode' = (IF "ldo" \in loaded THEN {"ONW_LLDO"} ELSE {})
                     \cup (IF noUcode THEN {"ONW_LLDE"} ELSE {})
  /\ aon' = [aon EXCEPT !.cfg1 = {}]
  /\ app' = [app EXCEPT !.driver = TRUE, !.counted = FALSE, !.ready = FALSE]
  /\ UNCHANGED <<awake, loaded, stored, ldoTune>>

\* dwt_initialise with DWT_DW_WAKE_UP, and with DWT_DW_WUP_NO_UCODE if the
\* microcode is not used; LDOTUNE tells whether the tuning is applied.
InitialiseWake(noUcode) ==
  /\ awake /\ noUcode = ~app.ucode
  /\ sleep_mode' = (IF "ldo" \in loaded THEN {"ONW_LLDO"} ELSE {})
                     \cup (IF noUcode THEN {} ELSE {"ONW_LLDE"})
  /\ aon' = [aon EXCEPT !.cfg1 = {}]
  /\ app' = [app EXCEPT !.driver = TRUE, !.counted = FALSE, !.ready = FALSE]
  /\ UNCHANGED <<awake, loaded, stored, ldoTune>>

DriverRuns == awake /\ app.driver

\* dwt_configure and the calls like it.
ConfigureAwake ==
  /\ DriverRuns
  /\ loaded' = loaded \cup {"config"}
  /\ UNCHANGED <<awake, stored, aon, ldoTune, sleep_mode, app>>

\* dwt_calibratesleepcnt: AON_CFG1 is left clear.
CalibrateSleepCnt ==
  /\ DriverRuns
  /\ aon' = [aon EXCEPT !.cfg1 = {}]
  /\ app' = [app EXCEPT !.counted = FALSE, !.ready = FALSE]
  /\ UNCHANGED <<awake, loaded, stored, ldoTune, sleep_mode>>

\* Fault: the counter is left disabled.
ConfigureSleepCntDisabled ==
  /\ DriverRuns
  /\ aon' = [aon EXCEPT !.cfg0 = {}, !.cfg1 = {}]
  /\ app' = [app EXCEPT !.counted = TRUE, !.ready = FALSE]
  /\ UNCHANGED <<awake, loaded, stored, ldoTune, sleep_mode>>

\* dwt_configuresleepcnt: AON_CFG0 is cleared, and the counter enabled.
ConfigureSleepCnt ==
  /\ DriverRuns
  /\ aon' = [aon EXCEPT !.cfg0 = {}, !.cfg1 = {"SLEEP_CEN"}]
  /\ app' = [app EXCEPT !.counted = TRUE, !.ready = FALSE]
  /\ UNCHANGED <<awake, loaded, stored, ldoTune, sleep_mode>>

\* dwt_configuresleep.  The counter, if it is to wake the transceiver, is set
\* before; the calls in between would undo either.
ConfigureSleep(mode, wake) ==
  /\ DriverRuns /\ ("WAKE_CNT" \in wake => app.counted)
  /\ aon' = [aon EXCEPT !.wcfg = mode \cup sleep_mode, !.cfg0 = wake]
  /\ app' = [app EXCEPT !.ready = TRUE]
  /\ UNCHANGED <<awake, loaded, stored, ldoTune, sleep_mode>>

\* dwt_entersleep: saves the registers, upon which the transceiver sleeps.
EnterSleep ==
  /\ DriverRuns /\ app.ready /\ "SLEEP_EN" \in aon.cfg0
  /\ stored' = loaded \cap {"config"}
  /\ loaded' = {}
  /\ awake' = FALSE
  /\ UNCHANGED <<aon, ldoTune, sleep_mode, app>>

\* What a transceiver that wakes holds.
Fetched ==
  {Loaded[f] : f \in aon.wcfg \cap DOMAIN Loaded}
    \ ((IF "config" \in stored THEN {} ELSE {"config"}) \cup (IF ldoTune THEN {} ELSE {"ldo"}))

Wake ==
  /\ awake' = TRUE
  /\ loaded' = Fetched
  /\ UNCHANGED <<stored, aon, ldoTune, sleep_mode, app>>

\* The sleep counter elapses; the WAKEUP pin is raised.
Elapse == ~awake /\ "WAKE_CNT" \in aon.cfg0 /\ "SLEEP_CEN" \in aon.cfg1 /\ Wake
Pin == ~awake /\ "WAKE_WK" \in aon.cfg0 /\ Wake

\* dwt_spicswakeup: holds the chip select low if the identity cannot be read;
\* it returns an error if the transceiver does not wake.
SpiCsWakeUp == ~awake /\ "WAKE_CS" \in aon.cfg0 /\ Wake

\* The processor restarts while the transceiver sleeps or runs.
LoseRam ==
  /\ app' = [app EXCEPT !.driver = FALSE, !.counted = FALSE, !.ready = FALSE]
  /\ sleep_mode' = {}
  /\ UNCHANGED <<awake, loaded, stored, aon, ldoTune>>

\* A processor that restarts uses the microcode as it did; the first call is a reset.
SleepNext ==
  \/ \E b \in BOOLEAN : InitialiseReset(b) \/ (aon.wcfg # {} /\ InitialiseWake(b))
  \/ ConfigureAwake \/ CalibrateSleepCnt \/ ConfigureSleepCnt
  \/ \E m \in SleepModes, w \in Wakes : ConfigureSleep(m, w)
  \/ EnterSleep \/ Elapse \/ Pin \/ SpiCsWakeUp
  \/ (aon.wcfg # {} /\ LoseRam)

SleepSpec == SleepInit /\ [][SleepNext]_sleepvars
-----------------------------------------------------------------------------
\* A transceiver the driver runs on holds the microcode its application uses
\* and the tuning of its OTP memory, whatever sleeps and restarts of the
\* processor came before.
WokenReady ==
  DriverRuns => /\ app.ucode => "ucode" \in loaded
                /\ ldoTune => "ldo" \in loaded

\* A transceiver asleep has something that wakes it.
SleepsToWake ==
  ~awake => \/ {"WAKE_CS", "WAKE_WK"} \cap aon.cfg0 # {}
            \/ "WAKE_CNT" \in aon.cfg0 /\ "SLEEP_CEN" \in aon.cfg1
=============================================================================
