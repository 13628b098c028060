---------------------------- MODULE DeviceClock ----------------------------
(***************************************************************************)
(* The clock of a transceiver and the times the firmware makes of it       *)
(* (src/antenna/timestamps.c, src/antenna/main.c).  The counter has 40     *)
(* bits.  The transmission time is programmed without its low 8 bits, as   *)
(* 32 bits of which the transceiver ignores the lowest.                    *)
(***************************************************************************)
EXTENDS Integers

CONSTANTS
  Low,            \* 2^8: the part of a time a register of 32 bits leaves out
  High,           \* 2^32: values of the register
  Processing,     \* CONFIG_TX_PROCESSING_DELAY * UUS_TO_DWT_TIME
  AntennaDelay    \* CONFIG_TX_ANTENNA_DELAY

ASSUME LowAssumption == Low \in Nat \ {0}
ASSUME HighAssumption == High \in Nat \ {0} /\ High % 2 = 0
ASSUME DelayAssumption == Processing \in Nat /\ AntennaDelay \in Nat

\* The counter wraps here, at 2^40.
Turn == Low * High

\* read_systemtime, read_rx_timestamp: five bytes of the counter, t counts
\* the same ticks without end.
ReadTime(t) == t % Turn

\* tx_time of send_message, a uint32_t, from the system time.
TxTime(systime) == ((systime + Processing) \div Low) % High

\* Fault: the lowest bit is not masked.
TxTimestampOdd(tx_time) == tx_time * Low + AntennaDelay

\* tx_timestamp of send_message.
TxTimestamp(tx_time) == (tx_time - (tx_time % 2)) * Low + AntennaDelay

\* What message_write_timestamp leaves of a time.
Carried(timestamp) == timestamp % Turn

\* When the transceiver transmits: at the programmed time, the lowest bit
\* ignored, and after the antenna delay of its TX_ANTD register.
DepartureTime(tx_time) == ((tx_time - (tx_time % 2)) * Low + AntennaDelay) % Turn
=============================================================================
