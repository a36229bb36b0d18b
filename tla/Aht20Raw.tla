------------------------------ MODULE Aht20Raw ------------------------------
(***************************************************************************)
(* The data bytes of the AHT20 and the two 20-bit values in them           *)
(* (main/aht.c, lines 104-117): humidity in bytes 1, 2 and the upper half  *)
(* of 3, temperature in the lower half of 3, 4 and 5.  A buffer is a       *)
(* sequence, so buf[0] of the code is buf[1] here.                         *)
(***************************************************************************)
EXTENDS Integers, Sequences

Byte == 0..255
Raw == {n \in Nat : (n \div 256) \div 256 < 16}   \* 20 bits

(* How the sensor lays out its status and the two values.                  *)
Pack(status, humidity, temperature) ==
  <<status,
    (humidity \div 16) \div 256,
    (humidity \div 16) % 256,
    (humidity % 16) * 16 + (temperature \div 256) \div 256,
    (temperature \div 256) % 256,
    temperature % 256>>

(* raw_humidity, before it is scaled to percent.                           *)
RawHumidity(buf) == ((buf[2] * 256 + buf[3]) * 256 + buf[4]) \div 16

(* raw_temperature, before it is scaled to degrees.  Slip: the mask 0x0F   *)
(* is forgotten.                                                           *)
RawTemperatureUnmasked(buf) == (buf[4] * 256 + buf[5]) * 256 + buf[6]
RawTemperature(buf) == ((buf[4] % 16) * 256 + buf[5]) * 256 + buf[6]
=============================================================================
