---------------------------- MODULE DwCalibration ----------------------------
(***************************************************************************)
(* The adjustments for temperature (lib/decadriver/deca_device.c).  At     *)
(* room temperature the application takes the count of the pulse generator *)
(* as a reference; at another temperature it has the driver search the     *)
(* delay whose count comes closest to that reference, and work out from    *)
(* the reference of the transmit power what to program now.                *)
(*                                                                         *)
(* The clocks that are forced around a measurement are those of DwPmsc.    *)
(***************************************************************************)
EXTENDS Integers, Sequences

CONSTANTS
  Curves,   \* [top, slope]: how the count falls as the delay grows, by temperature
  Delays,   \* the delays used at the reference temperature
  Powers,   \* the references of the transmit power: four [da, mixer] each
  Drifts,   \* the differences of temperature, in the converter's units
  Channels

ASSUME CurvesAssumption == \A c \in Curves : c.top \in Nat /\ c.slope \in Nat
ASSUME DelaysAssumption == Delays \subseteq 128 .. 255
ASSUME PowersAssumption == Powers \subseteq [1 .. 4 -> [da : 0 .. 7, mixer : 0 .. 31]]
\* The converter's values are bytes.
ASSUME DriftsAssumption == Drifts \subseteq -255 .. 255

VARIABLES
  curve,    \* the count as the temperature has it now
  target,   \* target_count
  search,   \* dwt_calcbandwidthtempadj: [i, bit, bw, best, lowest]
  ref,      \* ref_powerreg
  drift,    \* delta_temp
  channel,
  power     \* what dwt_calcpowertempadj has returned last

calibrationvars == <<curve, target, search, ref, drift, channel, power>>

\* The pulse generator, which counts less as the delay grows.
Count(c, bw) ==
  LET fall == c.slope * (bw - 128)
  IN IF fall < c.top THEN c.top - fall ELSE 0

NumSamples == 10

\* dwt_calcpgcount: the average of ten counts, which noise may move by one each.
CalcPgCount(c, pgdly, noise) ==
  ((NumSamples * Count(c, pgdly)) + noise) \div NumSamples

Start == [i |-> 0, bit |-> 128, bw |-> 128, best |-> 0, lowest |-> 300]

MixDaFactor == 5

\* -1 if the mixer's gain is above its best range, 1 if it is below.
OutOfBounds(gain) ==
  IF gain > 20 THEN -1 ELSE IF gain < 4 THEN 1 ELSE 0

\* No change that an int8 holds takes more turns to bring the gain within bounds.
MaxTurns == 28

\* The changes of attenuation and gain by the loop. It goes one way, since a turn
\* never takes the gain past the bounds, until the gain is within them or the
\* attenuation has gone through all its values.  The test of the other limit
\* compares the change with 0 after it was lowered, which it then never is.
Changes(adj, gain) ==
  LET out == OutOfBounds(gain + adj)
      Mixer(n) == adj + (n * out * MixDaFactor)
      Ends(n) == OutOfBounds(gain + Mixer(n)) = 0 \/ n * out = 7
      turns == CHOOSE n \in 0 .. MaxTurns : Ends(n) /\ \A m \in 0 .. (n - 1) : ~Ends(m)
  IN [da |-> turns * out, mixer |-> Mixer(turns)]

\* _dwt_computetxpowersetting: the fields are cut to their three and five bits.
ComputeTxPowerSetting(reg, adj) ==
  [n \in 1 .. 4 |->
     LET c == Changes(adj, reg[n].mixer)
     IN [da |-> (reg[n].da + c.da) % 8, mixer |-> (reg[n].mixer + c.mixer) % 32]]

Factor(chan) == CASE chan = 5 -> 607 [] chan = 2 -> 327 [] OTHER -> 0

\* The change of power, in half decibels, rounded towards zero.
DeltaPower(chan, delta) ==
  IF delta < 0 THEN -((-delta * Factor(chan)) \div 4096) ELSE (delta * Factor(chan)) \div 4096

\* Fault: the sign of the difference is lost.
CalcPowerTempAdjUnsigned(chan, reg, delta) ==
  LET adj == (IF delta < 0 THEN -1 ELSE 1) * DeltaPower(chan, delta)
  IN IF adj = 0 THEN reg ELSE ComputeTxPowerSetting(reg, adj)

CalcPowerTempAdj(chan, reg, delta) ==
  LET adj == DeltaPower(chan, delta)
  IN IF adj = 0 THEN reg ELSE ComputeTxPowerSetting(reg, adj)

CalibrationInit ==
  /\ curve \in Curves
  /\ target \in {CalcPgCount(c, d, 0) : c \in Curves, d \in Delays}
  /\ search = Start
  /\ ref \in Powers
  /\ drift = 0
  /\ channel \in Channels
  /\ power = ref

\* Fault: the delay closest to the target is not kept.
MeasureLast ==
  LET bit == search.bit \div 2
      bw  == search.bw + bit
      up  == Count(curve, bw) > target
  IN /\ search.i < 7
     /\ search' = [i |-> search.i + 1, bit |-> bit, bw |-> IF up THEN bw ELSE bw - bit,
                   best |-> bw, lowest |-> search.lowest]
     /\ UNCHANGED <<curve, target, ref, drift, channel, power>>

\* One turn of the loop of dwt_calcbandwidthtempadj.
Measure ==
  LET bit   == search.bit \div 2
      bw    == search.bw + bit
      count == Count(curve, bw)
      delta == IF count > target THEN count - target ELSE target - count
  IN /\ search.i < 7
     /\ search' = [i    |-> search.i + 1,
                   bit  |-> bit,
                   bw   |-> IF count > target THEN bw ELSE bw - bit,
                   best |-> IF delta < search.lowest THEN bw ELSE search.best,
                   lowest |-> IF delta < search.lowest THEN delta ELSE search.lowest]
     /\ UNCHANGED <<curve, target, ref, drift, channel, power>>

\* The temperature has changed; the application starts a search at the new one
\* and has the power adjusted.
Drift(d, c) ==
  /\ search.i \in {0, 7}
  /\ drift' = d
  /\ power' = CalcPowerTempAdj(channel, ref, d)
  /\ curve' = c
  /\ search' = Start
  /\ UNCHANGED <<target, ref, channel>>

\* The reference is taken anew.
TakeReference(pgdly, noise) ==
  /\ search.i = 7 /\ drift = 0
  /\ target' = CalcPgCount(curve, pgdly, noise)
  /\ search' = Start
  /\ UNCHANGED <<curve, ref, drift, channel, power>>

CalibrationNext ==
  \/ Measure
  \/ \E d \in Drifts, c \in Curves : Drift(d, c)
  \/ \E p \in Delays, n \in {-10, 0, 5} : TakeReference(p, n)

CalibrationSpec == CalibrationInit /\ [][CalibrationNext]_calibrationvars
-----------------------------------------------------------------------------
Off(bw) == LET d == Count(curve, bw) - target IN IF d < 0 THEN -d ELSE d

\* The delay the search ends with is one whose count comes as close to the
\* target as that of any delay the search may return, although it measures
\* seven of them; it ends without one only if none comes within 300.
Closest ==
  search.i = 7 =>
    LET near == {b \in 129 .. 255 : Off(b) < 300}
    IN IF near = {} THEN search.best = 0
       ELSE search.best \in near /\ \A b \in near : Off(search.best) <= Off(b)

\* In half decibels; an attenuation of one costs five.
Level(byte) == byte.mixer - (MixDaFactor * byte.da)

Settings == [da : 0 .. 7, mixer : 4 .. 20]

\* The power that is programmed differs from the reference by what the
\* difference of temperature asks for, and uses the mixer where it performs
\* best, whenever there is such a setting.
PowerAsAsked ==
  LET adj == DeltaPower(channel, drift)
  IN adj # 0 =>
       \A n \in 1 .. 4 :
         (\E s \in Settings : Level(s) = Level(ref[n]) + adj)
           => power[n] \in Settings /\ Level(power[n]) = Level(ref[n]) + adj
=============================================================================
