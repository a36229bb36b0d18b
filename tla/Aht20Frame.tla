----------------------------- MODULE Aht20Frame -----------------------------
(***************************************************************************)
(* What the driver does with the seven bytes it has read (main/aht.c,      *)
(* lines 60-78 and 102-118): the CRC over the first six, its comparison    *)
(* with the seventh, and the unpacking of Aht20Raw.  The bytes may have    *)
(* been disturbed on the wires by a burst of up to eight bits.  The sensor *)
(* is the reference: it computes the CRC as the remainder of a division of *)
(* polynomials over the integers modulo 2, bit by bit.                     *)
(***************************************************************************)
EXTENDS Aht20Raw

CONSTANTS
  Measurements,  \* pairs of a humidity and a temperature
  Bursts         \* disturbances: naturals below 2^8, 0 for none

ASSUME FrameAssumption ==
  Measurements \subseteq Raw \X Raw /\ Bursts \subseteq Byte

VARIABLES
  measured,  \* what the sensor measured
  sent,      \* the seven bytes it sends
  buf,       \* the seven bytes the driver reads
  byte,      \* loop variable: how many bytes aht20_calc_crc has taken in
  crc,       \* its accumulator, an uint8_t
  result     \* what aht20_read_measures returns

vars == <<measured, sent, buf, byte, crc, result>>

(* Bytes and their bits, the highest first; the operator ^ of C on bytes.  *)
Weight == <<128, 64, 32, 16, 8, 4, 2, 1>>
Bits(n) == [k \in 1..8 |-> (n \div Weight[k]) % 2]
Number(b) == 128 * b[1] + 64 * b[2] + 32 * b[3] + 16 * b[4]
               + 8 * b[5] + 4 * b[6] + 2 * b[7] + b[8]
Plus(b, c) == [k \in 1..8 |-> IF b[k] = c[k] THEN 0 ELSE 1]
Xor(m, n) == Number(Plus(Bits(m), Bits(n)))

(* The sensor's side: the remainder by x^8 + x^5 + x^4 + 1 after the first *)
(* eight bits were inverted.  Long division subtracts the generator below  *)
(* each bit in turn that is still 1.                                       *)
Generator == <<1, 0, 0, 1, 1, 0, 0, 0, 1>>
Divide(a, k) ==
  IF a[k] = 0 THEN a
  ELSE [j \in 1..56 |->
          IF j \in k..(k + 8) /\ Generator[j - k + 1] = 1
          THEN 1 - a[j] ELSE a[j]]
DivideTwo(a, k) == Divide(Divide(a, k), k + 1)
DivideFour(a, k) == DivideTwo(DivideTwo(a, k), k + 2)
DivideByte(a, i) == DivideFour(DivideFour(a, 8 * i - 7), 8 * i - 3)
Dividend(bytes) ==
  [k \in 1..56 |-> IF k > 48 THEN 0
                   ELSE LET b == Bits(bytes[(k + 7) \div 8])[((k - 1) % 8) + 1]
                        IN  IF k <= 8 THEN 1 - b ELSE b]
Remainder(a) ==
  DivideByte(DivideByte(DivideByte(DivideByte(DivideByte(DivideByte(
    a, 1), 2), 3), 4), 5), 6)
CheckByte(bytes) ==
  LET r == Remainder(Dividend(bytes)) IN Number([k \in 1..8 |-> r[48 + k]])

(* The wires: burst e, beginning after p bits of byte q, is laid over the  *)
(* bits.  What would lie behind the last byte is lost.                     *)
Overlay(e, n) == [k \in 1..8 |-> IF k + n \in 1..8 THEN Bits(e)[k + n] ELSE 0]
Disturbed(bytes, q, p, e) ==
  [i \in 1..7 |->
     Number(Plus(Bits(bytes[i]), Overlay(e, 8 * (i - q) - p)))]

Init ==
  /\ measured \in Measurements
  /\ sent = LET bytes == Pack(24, measured[1], measured[2])
            IN  Append(bytes, CheckByte(bytes))
  /\ \E q \in 1..7, p \in 0..7, e \in Bursts : buf = Disturbed(sent, q, p, e)
  /\ byte = 0
  /\ crc = 255
  /\ result = "none"

(* A turn of the inner loop, and its eight turns.  Slips: the accumulator  *)
(* is wider than eight bits; the polynomial is applied without looking at  *)
(* the top bit.                                                            *)
ShiftedWide(c) ==
  256 * (c \div 128) + Xor((2 * c) % 256, 49 * ((c \div 128) % 2))
ShiftedAlways(c) == Xor((2 * c) % 256, 49)
Shifted(c) == IF c >= 128 THEN Xor((2 * c) % 256, 49) ELSE (2 * c) % 256
ShiftedTwice(c) == Shifted(Shifted(c))
ShiftedFour(c) == ShiftedTwice(ShiftedTwice(c))
ShiftedByte(c) == ShiftedFour(ShiftedFour(c))

(* The outer loop takes in the next byte.                                  *)
AddByte ==
  /\ byte < 6
  /\ crc' = ShiftedByte(Xor(crc, buf[byte + 1]))
  /\ byte' = byte + 1
  /\ UNCHANGED <<measured, sent, buf, result>>

(* The comparison that decides.                                            *)
Compare ==
  /\ byte = 6
  /\ result = "none"
  /\ result' = IF crc = buf[7] THEN "ESP_OK" ELSE "CRC"
  /\ UNCHANGED <<measured, sent, buf, byte, crc>>

Next == AddByte \/ Compare

Spec == Init /\ [][Next]_vars
-----------------------------------------------------------------------------
TypeOK ==
  /\ measured \in Measurements
  /\ sent \in Seq(Byte) /\ Len(sent) = 7
  /\ buf \in Seq(Byte) /\ Len(buf) = 7
  /\ byte \in 0..6
  /\ crc \in Byte
  /\ result \in {"none", "ESP_OK", "CRC"}

(* The shift register of lines 60-78 agrees with the sensor's division,    *)
(* and no disturbance of up to eight bits in a row passes for data: the    *)
(* driver accepts exactly the bytes the sensor sent (line 102).            *)
AcceptsWhatWasSent == result # "none" => (result = "ESP_OK" <=> buf = sent)

(* An accepted reading unpacks to the values that were measured            *)
(* (lines 104-117).                                                        *)
UnpacksWhatWasMeasured ==
  result = "ESP_OK" => <<RawHumidity(buf), RawTemperature(buf)>> = measured
=============================================================================
