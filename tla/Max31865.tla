------------------------------- MODULE Max31865 -------------------------------
(***************************************************************************)
(* The driver of the temperature sensor: how a value read over SPI becomes *)
(* a temperature in degrees Celsius.                                       *)
(***************************************************************************)
EXTENDS Integers

RefResistanceOhm == 43000
Factor == 32768

\* The look-up table, thinned out to the entries that the limits of the heaters tell
\* apart: a resistance stands for the temperature of the first entry it does not exceed.
ResistanceToTemperature ==
    {[resistance |-> 8031,  temperature |-> -50], [resistance |-> 11940, temperature |-> 50],
     [resistance |-> 12286, temperature |-> 59],  [resistance |-> 12324, temperature |-> 60],
     [resistance |-> 19410, temperature |-> 250]}

MinInt16 == -32768
MaxInt16 == 32767

\* The two bytes of the register, taken as a signed number and shifted right; the
\* last bit tells a fault of the sensor.
AdcCode(word) == (IF word > MaxInt16 THEN word - 65536 ELSE word) \div 2
Fault(word) == word % 2 = 1

\* Division in C rounds towards zero.
Quotient(a, b) == IF a < 0 THEN -((-a) \div b) ELSE a \div b
Resistance(word) == Quotient(AdcCode(word) * RefResistanceOhm + Factor \div 2, Factor)

LookUp(resistance) ==
    LET above == {e \in ResistanceToTemperature : resistance <= e.resistance}
    IN  IF above = {} THEN MaxInt16
        ELSE (CHOOSE e \in above : \A f \in above : e.resistance <= f.resistance).temperature

getTemperature(word) == IF Fault(word) THEN MinInt16 ELSE LookUp(Resistance(word))

\* What the buffer holds after a read: the register; zeros, as before, if the chip
\* could not be selected; anything if the SPI device failed, since the byte that it
\* should have filled was never written.
Buffer(register, selected, transferred, anything) ==
    IF ~selected THEN {0} ELSE IF transferred THEN {register} ELSE anything

\* The lowest int, which no reading gives.
NotChecked == -2147483647 - 1

Temperatures ==
    {NotChecked, 0, MinInt16, MaxInt16} \cup {e.temperature : e \in ResistanceToTemperature}
=============================================================================
