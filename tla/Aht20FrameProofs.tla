-------------------------- MODULE Aht20FrameProofs --------------------------
(***************************************************************************)
(* Theorems about Aht20Frame: the unpacking of the raw values gives back   *)
(* what was packed; the driver's shift register computes the remainder of  *)
(* the sensor's division; no burst of up to eight bits, and no disturbance *)
(* of an odd number of bits, leaves the check byte fitting.                *)
(*                                                                         *)
(* The argument.  On the bits of the accumulator, a turn of the inner loop *)
(* is linear and loses nothing.  The division of the sensor and the        *)
(* register go through the message together (Same), so the driver accepts  *)
(* what was sent.  The difference of the registers over the bytes sent and *)
(* the bytes read is a register of its own, which is zero up to the burst, *)
(* not zero behind it, and never becomes zero again.                       *)
(***************************************************************************)
EXTENDS Aht20Frame, SequenceTheorems, TLAPS
-----------------------------------------------------------------------------
(* The shared byte keeps both halves apart.                                *)
LEMMA SharedByte ==
  ASSUME NEW a \in 0..15, NEW b \in 0..15
  PROVE  (a * 16 + b) \div 16 = a /\ ((a * 16 + b) % 16) = b
  OBVIOUS

(* Whatever the sensor measured, the driver's shifts and masks give back   *)
(* both values (lines 104-117).                                            *)
THEOREM UnpackInvertsPack ==
  ASSUME NEW s \in Byte, NEW h \in Raw, NEW t \in Raw
  PROVE  /\ RawHumidity(Pack(s, h, t)) = h
         /\ RawTemperature(Pack(s, h, t)) = t
  <1> DEFINE b == (h % 16) * 16 + (t \div 256) \div 256
  <1>1. (h % 16) \in 0..15 /\ (t \div 256) \div 256 \in 0..15
    BY DEF Raw
  <1>2. b \div 16 = (h % 16) /\ (b % 16) = (t \div 256) \div 256
    BY <1>1, SharedByte
  <1>3. b \in Byte
    BY <1>1 DEF Byte
  <1>4. RawHumidity(Pack(s, h, t)) = h
    <2>1. RawHumidity(Pack(s, h, t))
            = ((((h \div 16) \div 256) * 256 + ((h \div 16) % 256)) * 256 + b)
                \div 16
      BY DEF RawHumidity, Pack
    <2>2. ((h \div 16) \div 256) * 256 + ((h \div 16) % 256) = h \div 16
      BY DEF Raw
    <2>3. ((h \div 16) * 256 + b) \div 16 = (h \div 16) * 16 + b \div 16
      BY <1>3 DEF Raw, Byte
    <2>4. (h \div 16) * 16 + (h % 16) = h
      BY DEF Raw
    <2> QED
      BY <1>2, <2>1, <2>2, <2>3, <2>4
  <1>5. RawTemperature(Pack(s, h, t)) = t
    <2>1. RawTemperature(Pack(s, h, t))
            = ((b % 16) * 256 + ((t \div 256) % 256)) * 256 + (t % 256)
      BY DEF RawTemperature, Pack
    <2>2. ((t \div 256) \div 256) * 256 + ((t \div 256) % 256) = t \div 256
      BY DEF Raw
    <2>3. (t \div 256) * 256 + (t % 256) = t
      BY DEF Raw
    <2> QED
      BY <1>2, <2>1, <2>2, <2>3
  <1> QED
    BY <1>4, <1>5

(* Any six bytes, sent by the sensor or not, give values of 20 bits, so    *)
(* the sums of lines 104-117 stay far below 2^32.                          *)
THEOREM UnpackIsBounded ==
  ASSUME NEW bytes \in Seq(Byte), Len(bytes) >= 6
  PROVE  RawHumidity(bytes) \in Raw /\ RawTemperature(bytes) \in Raw
  <1>1. \A a, b, c \in Byte : ((a * 256 + b) * 256 + c) \div 16 \in Raw
    BY DEF Byte, Raw
  <1>2. \A a \in 0..15, b, c \in Byte : (a * 256 + b) * 256 + c \in Raw
    BY DEF Byte, Raw
  <1>3. /\ bytes[2] \in Byte /\ bytes[3] \in Byte /\ bytes[4] \in Byte
        /\ bytes[5] \in Byte /\ bytes[6] \in Byte
    OBVIOUS
  <1>4. \A a \in Byte : (a % 16) \in 0..15
    BY DEF Byte
  <1>5. RawHumidity(bytes) \in Raw
    BY <1>1, <1>3 DEF RawHumidity
  <1>6. RawTemperature(bytes) \in Raw
    BY <1>2, <1>3, <1>4 DEF RawTemperature
  <1> QED
    BY <1>5, <1>6
-----------------------------------------------------------------------------
(* A byte as its eight bits, and a turn of the inner loop of lines 68-74   *)
(* on them: all move up by one, the highest comes in below, and where the  *)
(* polynomial 0x31 has its other ones it is added.                         *)
Vec == [1..8 -> {0, 1}]
Turn(w) ==
  [k \in 1..8 |-> IF k = 8 THEN w[1]
                  ELSE IF k \in {3, 4} /\ w[1] = 1 THEN 1 - w[k + 1]
                  ELSE w[k + 1]]

(* Bits and Number are inverse to one another.                             *)
LEMMA BitsOfByte ==
  ASSUME NEW n \in Byte
  PROVE  Bits(n) \in Vec /\ Number(Bits(n)) = n
  <1> DEFINE B(d) == (n \div d) % 2
  <1>1. \A d \in {1, 2, 4, 8, 16, 32, 64, 128} : B(d) \in {0, 1}
    BY DEF Byte
  <1>2. Bits(n) = <<B(128), B(64), B(32), B(16), B(8), B(4), B(2), B(1)>>
    <2>1. \A k \in 1..8 : Bits(n)[k] = <<B(128), B(64), B(32), B(16), B(8), B(4), B(2), B(1)>>[k]
      BY DEF Bits, Weight
    <2>2. DOMAIN Bits(n) = 1..8
      BY DEF Bits
    <2> QED
      BY <2>1, <2>2 DEF Bits
  <1>3. n = 128 * B(128) + 64 * B(64) + 32 * B(32) + 16 * B(16)
              + 8 * B(8) + 4 * B(4) + 2 * B(2) + B(1)
    BY DEF Byte
  <1> QED
    BY <1>1, <1>2, <1>3 DEF Vec, Number

LEMMA ByteOfBits ==
  ASSUME NEW b \in Vec
  PROVE  Number(b) \in Byte /\ Bits(Number(b)) = b
  <1>1. \A k \in 1..8 : b[k] \in {0, 1}
    BY DEF Vec
  <1>2. \A k \in 1..8 : Bits(Number(b))[k] = b[k]
    BY <1>1 DEF Number, Bits, Weight
  <1>3. Number(b) \in Byte
    BY <1>1 DEF Number, Byte
  <1> QED
    BY <1>2, <1>3 DEF Vec, Bits

(* The sum of two vectors of bits is one.                                  *)
LEMMA PlusTyped ==
  \A b, c : Plus(b, c) \in Vec
  BY DEF Plus, Vec

(* The operator ^ of C works bit by bit.                                   *)
LEMMA BitsOfXor ==
  ASSUME NEW m, NEW n
  PROVE  Xor(m, n) \in Byte /\ Bits(Xor(m, n)) = Plus(Bits(m), Bits(n))
  BY ByteOfBits, PlusTyped DEF Xor

(* What the code does to its uint8_t, a comparison, a shift, the loss of   *)
(* what leaves eight bits and an exclusive or, is a turn (lines 69-73).    *)
LEMMA BitsOfShifted ==
  ASSUME NEW c \in Byte
  PROVE  Shifted(c) \in Byte /\ Bits(Shifted(c)) = Turn(Bits(c))
  <1> DEFINE w == Bits(c)
  <1>1. w \in Vec /\ Number(w) = c
    BY BitsOfByte
  <1>2. \A k \in 1..8 : w[k] \in {0, 1}
    BY <1>1 DEF Vec
  <1> HIDE DEF w
  <1> DEFINE v == <<w[2], w[3], w[4], w[5], w[6], w[7], w[8], 0>>
  <1>3. v \in Vec
    BY <1>2 DEF Vec
  <1>4. Number(v) = (2 * c) % 256 /\ (c >= 128 <=> w[1] = 1)
    BY <1>1, <1>2 DEF Number
  <1>5. Bits((2 * c) % 256) = v
    BY <1>3, <1>4, ByteOfBits
  <1>6. Bits(49) = <<0, 0, 1, 1, 0, 0, 0, 1>>
    BY DEF Bits, Weight
  <1>7. CASE c >= 128
    <2>1. Plus(v, Bits(49)) = Turn(w)
      BY <1>2, <1>4, <1>6, <1>7 DEF Plus, Turn
    <2> QED
      BY <2>1, <1>5, <1>7, BitsOfXor DEF Shifted, w
  <1>8. CASE ~(c >= 128)
    <2>1. v = Turn(w)
      BY <1>2, <1>4, <1>8 DEF Turn
    <2>2. Shifted(c) = (2 * c) % 256
      BY <1>8 DEF Shifted
    <2> QED
      BY <2>1, <2>2, <1>3, <1>4, <1>5, ByteOfBits DEF w
  <1> QED
    BY <1>7, <1>8
-----------------------------------------------------------------------------
(* The eight turns of the inner loop.                                      *)
TurnTwo(w) == Turn(Turn(w))
TurnFour(w) == TurnTwo(TurnTwo(w))
TurnByte(w) == TurnFour(TurnFour(w))

(* A turn gives a vector of bits.                                          *)
LEMMA TurnTyped ==
  ASSUME NEW w \in Vec
  PROVE  Turn(w) \in Vec
  BY DEF Turn, Vec

(* The inner loop makes eight turns.                                       *)
LEMMA BitsOfShiftedByte ==
  ASSUME NEW c \in Byte
  PROVE  ShiftedByte(c) \in Byte /\ Bits(ShiftedByte(c)) = TurnByte(Bits(c))
  <1>1. \A n \in Byte : /\ ShiftedTwice(n) \in Byte
                        /\ Bits(ShiftedTwice(n)) = TurnTwo(Bits(n))
    BY BitsOfShifted DEF ShiftedTwice, TurnTwo
  <1>2. \A n \in Byte : /\ ShiftedFour(n) \in Byte
                        /\ Bits(ShiftedFour(n)) = TurnFour(Bits(n))
    BY <1>1 DEF ShiftedFour, TurnFour
  <1> QED
    BY <1>2 DEF ShiftedByte, TurnByte

(* The accumulator of aht20_calc_crc on the bytes b: r[j] is what it holds *)
(* when j bytes are taken in (lines 64-75).                                *)
Run(b, r) ==
  /\ r \in [0..6 -> Byte]
  /\ r[0] = 255
  /\ \A j \in 0..5 : r[j + 1] = ShiftedByte(Xor(r[j], b[j + 1]))

Array == [1..56 -> {0, 1}]

(* After n turns since the last byte was taken in, the eight bits of the   *)
(* division from k on are the register, and the rest is the dividend: a    *)
(* bit the register has not taken in yet is added to its own.              *)
Same(a, w, k, n, d) ==
  /\ a \in Array
  /\ \A t \in 1..8 :
       a[k + t - 1] = IF t <= 8 - n THEN w[t]
                      ELSE IF w[t] = d[k + t - 1] THEN 0 ELSE 1
  /\ \A u \in (k + 8)..56 : a[u] = d[u]

(* A step of the long division and a turn of the register go together.     *)
LEMMA DivideIsTurn ==
  ASSUME NEW a, NEW w \in Vec, NEW k \in 1..48, NEW n \in 0..7, NEW d \in Array,
         Same(a, w, k, n, d)
  PROVE  Same(Divide(a, k), Turn(w), k + 1, n + 1, d)
  <1> DEFINE v == Turn(w)
             b == Divide(a, k)
  <1>1. \A t \in 1..8 : w[t] \in {0, 1}
    BY DEF Vec
  <1>2. /\ a \in Array
        /\ \A j \in 1..56 : a[j] \in {0, 1} /\ d[j] \in {0, 1}
    BY DEF Same, Array
  <1>3. a[k] = w[1]
    BY DEF Same
  <1>4. \A t \in 1..7 : a[k + t] = IF t + 1 <= 8 - n THEN w[t + 1]
                                   ELSE IF w[t + 1] = d[k + t] THEN 0 ELSE 1
    <2> TAKE t \in 1..7
    <2>1. t + 1 \in 1..8 /\ k + (t + 1) - 1 = k + t
      OBVIOUS
    <2> QED
      BY <2>1 DEF Same
  <1>5. a[k + 8] = d[k + 8]
    BY DEF Same
  <1>6. b \in Array
    BY <1>2 DEF Divide, Array
  <1>7. \A t \in 1..8 : b[k + t] = IF w[1] = 1 /\ t \in {3, 4, 8} THEN 1 - a[k + t]
                                   ELSE a[k + t]
    <2> TAKE t \in 1..8
    <2>1. /\ k + t \in 1..56 /\ k + t \in k..(k + 8) /\ (k + t) - k + 1 = t + 1
      OBVIOUS
    <2>2. Generator[t + 1] = 1 <=> t \in {3, 4, 8}
      BY DEF Generator
    <2> QED
      BY <2>1, <2>2, <1>1, <1>3 DEF Divide
  <1>8. \A t \in 1..8 : v[t] = IF t = 8 THEN w[1]
                               ELSE IF t \in {3, 4} /\ w[1] = 1 THEN 1 - w[t + 1]
                               ELSE w[t + 1]
    BY DEF Turn
  <1>9. \A t \in 1..8 : b[(k + 1) + t - 1]
                          = IF t <= 8 - (n + 1) THEN v[t]
                            ELSE IF v[t] = d[(k + 1) + t - 1] THEN 0 ELSE 1
    <2> TAKE t \in 1..8
    <2>1. (k + 1) + t - 1 = k + t /\ k + t \in 1..56
      OBVIOUS
    <2>2. CASE t = 8
      BY <2>1, <2>2, <1>1, <1>2, <1>5, <1>7, <1>8
    <2>3. CASE t \in 1..7
      BY <2>1, <2>3, <1>1, <1>2, <1>4, <1>7, <1>8
    <2> QED
      BY <2>2, <2>3
  <1>10. \A u \in (k + 9)..56 : b[u] = d[u]
    BY DEF Divide, Same
  <1> QED
    BY <1>6, <1>9, <1>10 DEF Same

(* So do eight of them.                                                    *)
LEMMA DivideByteIsTurnByte ==
  ASSUME NEW a, NEW w \in Vec, NEW i \in 1..6, NEW d \in Array,
         Same(a, w, 8 * i - 7, 0, d)
  PROVE  Same(DivideByte(a, i), TurnByte(w), 8 * i + 1, 8, d)
  <1>1. \A x, y, k, n : y \in Vec /\ k \in 1..47 /\ n \in 0..6 /\ Same(x, y, k, n, d)
          => Same(DivideTwo(x, k), TurnTwo(y), k + 2, n + 2, d) /\ TurnTwo(y) \in Vec
    <2> SUFFICES ASSUME NEW x, NEW y \in Vec, NEW k \in 1..47, NEW n \in 0..6,
                        Same(x, y, k, n, d)
                 PROVE  /\ Same(DivideTwo(x, k), TurnTwo(y), k + 2, n + 2, d)
                        /\ TurnTwo(y) \in Vec
      OBVIOUS
    <2>1. Same(Divide(x, k), Turn(y), k + 1, n + 1, d) /\ Turn(y) \in Vec
      <3>1. k \in 1..48 /\ n \in 0..7
        OBVIOUS
      <3> QED
        BY <3>1, DivideIsTurn, TurnTyped
    <2>2. k + 1 \in 1..48 /\ n + 1 \in 0..7 /\ (k + 1) + 1 = k + 2 /\ (n + 1) + 1 = n + 2
      OBVIOUS
    <2>3. Same(Divide(Divide(x, k), k + 1), Turn(Turn(y)), (k + 1) + 1, (n + 1) + 1, d)
      BY <2>1, <2>2, DivideIsTurn
    <2> QED
      BY <2>1, <2>2, <2>3, TurnTyped DEF DivideTwo, TurnTwo
  <1>2. \A x, y, k, n : y \in Vec /\ k \in 1..45 /\ n \in 0..4 /\ Same(x, y, k, n, d)
          => Same(DivideFour(x, k), TurnFour(y), k + 4, n + 4, d) /\ TurnFour(y) \in Vec
    <2> SUFFICES ASSUME NEW x, NEW y \in Vec, NEW k \in 1..45, NEW n \in 0..4,
                        Same(x, y, k, n, d)
                 PROVE  /\ Same(DivideFour(x, k), TurnFour(y), k + 4, n + 4, d)
                        /\ TurnFour(y) \in Vec
      OBVIOUS
    <2>1. Same(DivideTwo(x, k), TurnTwo(y), k + 2, n + 2, d) /\ TurnTwo(y) \in Vec
      <3>1. k \in 1..47 /\ n \in 0..6
        OBVIOUS
      <3> QED
        BY <3>1, <1>1
    <2>2. k + 2 \in 1..47 /\ n + 2 \in 0..6 /\ (k + 2) + 2 = k + 4 /\ (n + 2) + 2 = n + 4
      OBVIOUS
    <2>3. /\ Same(DivideTwo(DivideTwo(x, k), k + 2), TurnTwo(TurnTwo(y)),
                  (k + 2) + 2, (n + 2) + 2, d)
          /\ TurnTwo(TurnTwo(y)) \in Vec
      BY <1>1, <2>1, <2>2
    <2> QED
      BY <2>2, <2>3 DEF DivideFour, TurnFour
  <1> DEFINE k == 8 * i - 7
  <1>3. k \in 1..45 /\ k + 4 \in 1..45 /\ k + 4 = 8 * i - 3 /\ (k + 4) + 4 = 8 * i + 1
    OBVIOUS
  <1>4. Same(DivideFour(a, k), TurnFour(w), k + 4, 0 + 4, d) /\ TurnFour(w) \in Vec
    BY <1>2, <1>3
  <1>5. Same(DivideFour(DivideFour(a, k), k + 4), TurnFour(TurnFour(w)), (k + 4) + 4, 4 + 4, d)
    BY <1>2, <1>3, <1>4
  <1> QED
    BY <1>3, <1>5 DEF DivideByte, TurnByte
-----------------------------------------------------------------------------
(* The vector without a one.                                               *)
Zero == [k \in 1..8 |-> 0]

(* Induction up to a small number: what holds of 0 and is passed on holds  *)
(* of all.                                                                 *)
LEMMA UpTo ==
  ASSUME NEW m \in 0..8, NEW P, 0 \in P, \A n \in 0..(m - 1) : n \in P => n + 1 \in P
  PROVE  \A n \in 0..m : n \in P
  <1>1. (m >= 1 => 1 \in P) /\ (m >= 2 => 2 \in P) /\ (m >= 3 => 3 \in P)
    OBVIOUS
  <1>2. (m >= 4 => 4 \in P) /\ (m >= 5 => 5 \in P) /\ (m >= 6 => 6 \in P)
    BY <1>1
  <1>3. (m >= 7 => 7 \in P) /\ (m >= 8 => 8 \in P)
    BY <1>2
  <1> QED
    BY <1>1, <1>2, <1>3

(* The bits of the dividend: those of the bytes, the first eight inverted, *)
(* and eight zeros.                                                        *)
LEMMA DividendTyped ==
  ASSUME NEW b, \A i \in 1..6 : b[i] \in Byte
  PROVE  /\ Dividend(b) \in Array
         /\ \A i \in 2..6, t \in 1..8 : Dividend(b)[8 * (i - 1) + t] = Bits(b[i])[t]
         /\ \A t \in 1..8 : Dividend(b)[t] = 1 - Bits(b[1])[t]
         /\ \A t \in 1..8 : Dividend(b)[48 + t] = 0
  <1> DEFINE D == Dividend(b)
  <1>1. \A k \in 1..48 : (k + 7) \div 8 \in 1..6 /\ ((k - 1) % 8) + 1 \in 1..8
    OBVIOUS
  <1>2. \A i \in 1..6, t \in 1..8 : Bits(b[i])[t] \in {0, 1}
    BY BitsOfByte DEF Vec
  <1>3. D \in Array
    BY <1>1, <1>2 DEF Dividend, Array
  <1>4. \A i \in 1..6, t \in 1..8 :
          /\ 8 * (i - 1) + t \in 1..48
          /\ ((8 * (i - 1) + t) + 7) \div 8 = i
          /\ (((8 * (i - 1) + t) - 1) % 8) + 1 = t
          /\ (8 * (i - 1) + t <= 8 <=> i = 1)
    OBVIOUS
  <1>5. \A k \in 1..48 :
          D[k] = LET c == Bits(b[(k + 7) \div 8])[((k - 1) % 8) + 1]
                 IN  IF k <= 8 THEN 1 - c ELSE c
    BY DEF Dividend
  <1>6. \A i \in 1..6, t \in 1..8 :
          D[8 * (i - 1) + t] = IF i = 1 THEN 1 - Bits(b[i])[t] ELSE Bits(b[i])[t]
    BY <1>4, <1>5
  <1>7. \A i \in 2..6, t \in 1..8 : D[8 * (i - 1) + t] = Bits(b[i])[t]
    BY <1>6
  <1>8. \A t \in 1..8 : D[t] = 1 - Bits(b[1])[t]
    <2>1. \A t \in 1..8 : 8 * (1 - 1) + t = t
      OBVIOUS
    <2> QED
      BY <1>6, <2>1
  <1>9. \A t \in 1..8 : D[48 + t] = 0
    BY DEF Dividend
  <1> QED
    BY <1>3, <1>7, <1>8, <1>9

(* Line 67: the register takes in the next byte, and is again what the     *)
(* division has at that place.                                             *)
LEMMA TakeByteIn ==
  ASSUME NEW b, \A j \in 1..6 : b[j] \in Byte,
         NEW i \in 2..6, NEW a, NEW w \in Vec,
         Same(a, w, 8 * i - 7, 8, Dividend(b))
  PROVE  Same(a, Plus(w, Bits(b[i])), 8 * i - 7, 0, Dividend(b))
  <1> DEFINE D == Dividend(b)
             k == 8 * i - 7
             v == Plus(w, Bits(b[i]))
  <1>1. \A t \in 1..8 : D[k + t - 1] = Bits(b[i])[t]
    <2>1. \A t \in 1..8 : k + t - 1 = 8 * (i - 1) + t
      OBVIOUS
    <2> QED
      BY <2>1, DividendTyped
  <1>2. \A t \in 1..8 : v[t] = IF w[t] = Bits(b[i])[t] THEN 0 ELSE 1
    BY DEF Plus
  <1>3. /\ a \in Array
        /\ \A t \in 1..8 : a[k + t - 1] = IF t <= 8 - 8 THEN w[t]
                                          ELSE IF w[t] = D[k + t - 1] THEN 0 ELSE 1
        /\ \A u \in (k + 8)..56 : a[u] = D[u]
    BY DEF Same
  <1> HIDE DEF D, v
  <1>4. \A t \in 1..8 : a[k + t - 1] = v[t]
    BY <1>1, <1>2, <1>3
  <1>5. \A t \in 1..8 : a[k + t - 1] = IF t <= 8 - 0 THEN v[t]
                                       ELSE IF v[t] = D[k + t - 1] THEN 0 ELSE 1
    BY <1>4
  <1>6. Same(a, v, k, 0, D)
    BY <1>3, <1>5 DEF Same
  <1> QED
    BY <1>6 DEF D, v

(* The accumulator of lines 60-78, whatever the six bytes are, ends as the *)
(* remainder that the sensor sends.                                        *)
LEMMA RegisterDivides ==
  ASSUME NEW b, \A i \in 1..6 : b[i] \in Byte, NEW r, Run(b, r)
  PROVE  CheckByte(b) = r[6]
  <1> DEFINE D == Dividend(b)
             w(i) == Bits(r[i])
             A1 == DivideByte(D, 1)
             A2 == DivideByte(A1, 2)
             A3 == DivideByte(A2, 3)
             A4 == DivideByte(A3, 4)
             A5 == DivideByte(A4, 5)
             A6 == DivideByte(A5, 6)
  <1>1. \A i \in 0..6 : r[i] \in Byte /\ w(i) \in Vec
    BY BitsOfByte DEF Run
  <1>2. D \in Array
    BY DividendTyped
  <1>3. \A i \in 1..6 : w(i) = TurnByte(Plus(w(i - 1), Bits(b[i])))
    <2> TAKE i \in 1..6
    <2> DEFINE j == i - 1
    <2>1. j \in 0..5 /\ j + 1 = i
      OBVIOUS
    <2> HIDE DEF j
    <2>2. r[j + 1] = ShiftedByte(Xor(r[j], b[j + 1]))
      BY <2>1 DEF Run
    <2>3. Bits(r[i]) = TurnByte(Plus(Bits(r[j]), Bits(b[i])))
      BY <2>1, <2>2, BitsOfXor, BitsOfShiftedByte
    <2> QED
      BY <2>3 DEF j
  <1>4. Same(D, Plus(w(0), Bits(b[1])), 1, 0, D)
    <2> DEFINE v == Plus(w(0), Bits(b[1]))
    <2>1. Bits(b[1]) \in Vec
      BY BitsOfByte
    <2>2. \A t \in 1..8 : Bits(b[1])[t] \in {0, 1}
      BY <2>1 DEF Vec
    <2>3. \A t \in 1..8 : w(0)[t] = 1
      BY DEF Run, Bits, Weight
    <2>4. \A t \in 1..8 : v[t] = 1 - Bits(b[1])[t]
      BY <2>2, <2>3 DEF Plus
    <2>5. \A t \in 1..8 : D[1 + t - 1] = v[t]
      <3>1. \A t \in 1..8 : 1 + t - 1 = t
        OBVIOUS
      <3> QED
        BY <2>4, <3>1, DividendTyped
    <2>6. \A t \in 1..8 : D[1 + t - 1] = IF t <= 8 - 0 THEN v[t]
                                       ELSE IF v[t] = D[1 + t - 1] THEN 0 ELSE 1
      BY <2>5
    <2> HIDE DEF D, v
    <2>7. Same(D, v, 1, 0, D)
      BY <2>6, <1>2 DEF Same
    <2> QED
      BY <2>7 DEF v
  <1>5. \A a, x : \A i \in 1..6 :
           x \in Vec /\ Same(a, x, 8 * i - 7, 0, D)
              => Same(DivideByte(a, i), TurnByte(x), 8 * i + 1, 8, D)
    BY <1>2, DivideByteIsTurnByte
  <1>6. \A a : \A i \in 2..6 :
           Same(a, w(i - 1), 8 * (i - 1) + 1, 8, D)
              => Same(DivideByte(a, i), w(i), 8 * i + 1, 8, D)
    <2> SUFFICES ASSUME NEW a, NEW i \in 2..6,
                        Same(a, w(i - 1), 8 * (i - 1) + 1, 8, D)
                 PROVE  Same(DivideByte(a, i), w(i), 8 * i + 1, 8, D)
      OBVIOUS
    <2> DEFINE j == i - 1
    <2>1. j \in 0..6 /\ 8 * (i - 1) + 1 = 8 * i - 7 /\ i \in 1..6
      OBVIOUS
    <2> HIDE DEF j
    <2>2. w(j) \in Vec
      BY <1>1, <2>1
    <2>3. Same(a, w(j), 8 * i - 7, 8, D)
      BY <2>1 DEF j
    <2>4. Same(a, Plus(w(j), Bits(b[i])), 8 * i - 7, 0, D)
      BY <2>2, <2>3, TakeByteIn
    <2>5. Same(DivideByte(a, i), TurnByte(Plus(w(j), Bits(b[i]))), 8 * i + 1, 8, D)
      BY <1>5, <2>1, <2>4, PlusTyped
    <2>6. w(i) = TurnByte(Plus(w(j), Bits(b[i])))
      BY <1>3, <2>1 DEF j
    <2> QED
      BY <2>5, <2>6
  <1> HIDE DEF D, w
  <1>7. Same(A1, w(1), 9, 8, D)
    <2>1. w(1) = TurnByte(Plus(w(0), Bits(b[1])))
      BY <1>3
    <2>2. 8 * 1 - 7 = 1 /\ 8 * 1 + 1 = 9 /\ 1 \in 1..6
      OBVIOUS
    <2> QED
      BY <1>4, <1>5, <2>1, <2>2, PlusTyped
  <1>8. \A a : /\ Same(a, w(1), 9, 8, D)  => Same(DivideByte(a, 2), w(2), 17, 8, D)
               /\ Same(a, w(2), 17, 8, D) => Same(DivideByte(a, 3), w(3), 25, 8, D)
               /\ Same(a, w(3), 25, 8, D) => Same(DivideByte(a, 4), w(4), 33, 8, D)
               /\ Same(a, w(4), 33, 8, D) => Same(DivideByte(a, 5), w(5), 41, 8, D)
               /\ Same(a, w(5), 41, 8, D) => Same(DivideByte(a, 6), w(6), 49, 8, D)
    BY <1>6
  <1>9. Same(A6, w(6), 49, 8, D)
    BY <1>7, <1>8
  <1>10. Remainder(D) = A6
    BY DEF Remainder
  <1> HIDE DEF A6
  <1>11. \A t \in 1..8 : A6[48 + t] = w(6)[t]
    <2>1. \A t \in 1..8 : D[48 + t] = 0
      BY DividendTyped DEF D
    <2>2. \A t \in 1..8 : A6[49 + t - 1] = IF w(6)[t] = D[49 + t - 1] THEN 0 ELSE 1
      BY <1>9 DEF Same
    <2>3. \A t \in 1..8 : 49 + t - 1 = 48 + t
      OBVIOUS
    <2>4. \A t \in 1..8 : w(6)[t] \in {0, 1}
      BY <1>1 DEF Vec
    <2> QED
      BY <2>1, <2>2, <2>3, <2>4
  <1>12. [t \in 1..8 |-> A6[48 + t]] = w(6)
    BY <1>11, <1>1 DEF Vec
  <1>13. Number(w(6)) = r[6]
    BY <1>1, BitsOfByte DEF w
  <1> QED
    BY <1>10, <1>12, <1>13 DEF CheckByte, D
-----------------------------------------------------------------------------
(* Addition of bits without carry.                                         *)
LEMMA PlusFacts ==
  ASSUME NEW u \in Vec, NEW v \in Vec
  PROVE  /\ Plus(u, v) = Plus(v, u)
         /\ Plus(u, Zero) = u
         /\ Plus(u, v) = Zero <=> u = v
         /\ Plus(u, v) = v => u = Zero
  <1>1. \A k \in 1..8 : u[k] \in {0, 1} /\ v[k] \in {0, 1}
    BY DEF Vec
  <1>2. Plus(u, v) = Plus(v, u)
    BY <1>1 DEF Plus
  <1>3. Plus(u, Zero) = u
    BY <1>1 DEF Plus, Zero, Vec
  <1>4. u = v => Plus(u, v) = Zero
    BY <1>1 DEF Plus, Zero
  <1>5. ASSUME Plus(u, v) = Zero
        PROVE  u = v
    <2>1. \A k \in 1..8 : Plus(u, v)[k] = 0
      BY <1>5 DEF Zero
    <2>2. \A k \in 1..8 : u[k] = v[k]
      BY <2>1 DEF Plus
    <2> QED
      BY <2>2 DEF Vec
  <1>6. ASSUME Plus(u, v) = v
        PROVE  u = Zero
    <2>1. \A k \in 1..8 : Plus(u, v)[k] = v[k]
      BY <1>6
    <2>2. \A k \in 1..8 : u[k] = 0
      BY <1>1, <2>1 DEF Plus
    <2> QED
      BY <2>2 DEF Vec, Zero
  <1> QED
    BY <1>2, <1>3, <1>4, <1>5, <1>6

(* Sums may be regrouped.                                                  *)
LEMMA PlusOfSums ==
  ASSUME NEW s \in Vec, NEW t \in Vec, NEW u \in Vec, NEW v \in Vec
  PROVE  Plus(Plus(s, t), Plus(u, v)) = Plus(Plus(s, u), Plus(t, v))
  <1>1. \A k \in 1..8 : /\ s[k] \in {0, 1} /\ t[k] \in {0, 1}
                        /\ u[k] \in {0, 1} /\ v[k] \in {0, 1}
    BY DEF Vec
  <1> QED
    BY <1>1 DEF Plus

(* A turn of a sum is the sum of the turns.                                *)
LEMMA TurnIsLinear ==
  ASSUME NEW u \in Vec, NEW v \in Vec
  PROVE  Turn(Plus(u, v)) = Plus(Turn(u), Turn(v))
  <1>1. \A k \in 1..8 : u[k] \in {0, 1} /\ v[k] \in {0, 1}
    BY DEF Vec
  <1>2. \A k \in 1..8 : Turn(Plus(u, v))[k] = Plus(Turn(u), Turn(v))[k]
    BY <1>1 DEF Turn, Plus
  <1> QED
    BY <1>2 DEF Turn, Plus

(* No register but zero is turned into zero: the polynomial ends in a one. *)
LEMMA TurnLosesNothing ==
  ASSUME NEW u \in Vec, Turn(u) = Zero
  PROVE  u = Zero
  <1>1. \A k \in 1..8 : Turn(u)[k] = 0
    BY DEF Zero
  <1>2. u[1] = 0
    BY <1>1 DEF Turn
  <1>3. \A k \in 1..7 : u[k + 1] = 0
    BY <1>1, <1>2 DEF Turn
  <1>4. \A k \in 2..8 : k - 1 \in 1..7 /\ (k - 1) + 1 = k
    OBVIOUS
  <1>5. \A k \in 1..8 : u[k] = 0
    BY <1>2, <1>3, <1>4
  <1> QED
    BY <1>5 DEF Vec, Zero

(* Eight turns as the sequence of the registers they give.                 *)
Turning(z) ==
  /\ z \in [0..8 -> Vec]
  /\ \A n \in 0..7 : z[n + 1] = Turn(z[n])

(* It ends where the inner loop does.                                      *)
LEMMA TurningEnds ==
  ASSUME NEW z, Turning(z)
  PROVE  z[8] = TurnByte(z[0])
  <1>1. /\ z[1] = Turn(z[0]) /\ z[2] = Turn(z[1]) /\ z[3] = Turn(z[2])
        /\ z[4] = Turn(z[3]) /\ z[5] = Turn(z[4]) /\ z[6] = Turn(z[5])
        /\ z[7] = Turn(z[6]) /\ z[8] = Turn(z[7])
    <2>1. \A n \in 0..7 : z[n + 1] = Turn(z[n])
      BY DEF Turning
    <2> HIDE DEF Turning
    <2>2. /\ z[0 + 1] = Turn(z[0]) /\ z[1 + 1] = Turn(z[1]) /\ z[2 + 1] = Turn(z[2])
          /\ z[3 + 1] = Turn(z[3]) /\ z[4 + 1] = Turn(z[4]) /\ z[5 + 1] = Turn(z[5])
          /\ z[6 + 1] = Turn(z[6]) /\ z[7 + 1] = Turn(z[7])
      BY <2>1
    <2> QED
      BY <2>2
  <1> QED
    BY <1>1 DEF TurnByte, TurnFour, TurnTwo

(* It exists from any register on.                                         *)
LEMMA TurningExists ==
  ASSUME NEW w \in Vec
  PROVE  \E z : Turning(z) /\ z[0] = w
  <1> DEFINE w1 == Turn(w)
             w2 == Turn(w1)
             w3 == Turn(w2)
             w4 == Turn(w3)
             w5 == Turn(w4)
             w6 == Turn(w5)
             w7 == Turn(w6)
             w8 == Turn(w7)
             z == [n \in 0..8 |-> IF n = 0 THEN w ELSE <<w1, w2, w3, w4, w5, w6, w7, w8>>[n]]
  <1>1. /\ w1 \in Vec /\ w1 = Turn(w)
        /\ w2 \in Vec /\ w2 = Turn(w1)
        /\ w3 \in Vec /\ w3 = Turn(w2)
        /\ w4 \in Vec /\ w4 = Turn(w3)
        /\ w5 \in Vec /\ w5 = Turn(w4)
        /\ w6 \in Vec /\ w6 = Turn(w5)
        /\ w7 \in Vec /\ w7 = Turn(w6)
        /\ w8 \in Vec /\ w8 = Turn(w7)
    <2>1. w1 \in Vec
      BY TurnTyped
    <2>2. w2 \in Vec
      BY <2>1, TurnTyped
    <2>3. w3 \in Vec
      BY <2>2, TurnTyped
    <2>4. w4 \in Vec
      BY <2>3, TurnTyped
    <2>5. w5 \in Vec
      BY <2>4, TurnTyped
    <2>6. w6 \in Vec
      BY <2>5, TurnTyped
    <2>7. w7 \in Vec
      BY <2>6, TurnTyped
    <2>8. w8 \in Vec
      BY <2>7, TurnTyped
    <2> QED
      BY <2>1, <2>2, <2>3, <2>4, <2>5, <2>6, <2>7, <2>8
  <1> HIDE DEF w1, w2, w3, w4, w5, w6, w7, w8
  <1>2. /\ z[0] = w /\ z[1] = w1 /\ z[2] = w2 /\ z[3] = w3 /\ z[4] = w4
        /\ z[5] = w5 /\ z[6] = w6 /\ z[7] = w7 /\ z[8] = w8
    OBVIOUS
  <1>3. z \in [0..8 -> Vec]
    BY <1>1
  <1> HIDE DEF z
  <1>4. \A n \in 0..7 : z[n + 1] = Turn(z[n])
    BY <1>1, <1>2
  <1> QED
    BY <1>2, <1>3, <1>4 DEF Turning

(* It never comes to zero if it does not start there.                      *)
LEMMA TurningKeepsNonzero ==
  ASSUME NEW z, Turning(z), z[0] # Zero
  PROVE  \A n \in 0..8 : z[n] # Zero
  <1> DEFINE P == {n \in 0..8 : z[n] # Zero}
  <1>1. 0 \in P
    OBVIOUS
  <1>2. \A n \in 0..7 : n \in P => n + 1 \in P
    <2> SUFFICES ASSUME NEW n \in 0..7, n \in P
                 PROVE  n + 1 \in P
      OBVIOUS
    <2>1. z[n] \in Vec /\ z[n + 1] = Turn(z[n])
      BY DEF Turning
    <2>2. z[n + 1] # Zero
      BY <2>1, TurnLosesNothing
    <2> QED
      BY <2>2
  <1>3. \A n \in 0..8 : n \in P
    <2>1. 8 \in 0..8 /\ 8 - 1 = 7
      OBVIOUS
    <2> HIDE DEF P
    <2> QED
      BY <1>1, <1>2, <2>1, UpTo
  <1> QED
    BY <1>3

(* The same of eight turns at once.                                        *)
LEMMA TurnByteFacts ==
  ASSUME NEW w \in Vec
  PROVE  /\ TurnByte(w) \in Vec
         /\ TurnByte(w) = Zero <=> w = Zero
  <1>1. PICK z : Turning(z) /\ z[0] = w
    BY TurningExists
  <1>2. z[8] = TurnByte(w) /\ z[8] \in Vec
    BY <1>1, TurningEnds DEF Turning
  <1>3. w # Zero => TurnByte(w) # Zero
    BY <1>1, <1>2, TurningKeepsNonzero
  <1>4. Turn(Zero) = Zero
    BY DEF Turn, Zero
  <1>5. TurnByte(Zero) = Zero
    BY <1>4 DEF TurnByte, TurnFour, TurnTwo
  <1> QED
    BY <1>2, <1>3, <1>5

(* Eight turns of a sum are the sum of the turns.                          *)
LEMMA TurnByteIsLinear ==
  ASSUME NEW u \in Vec, NEW v \in Vec
  PROVE  TurnByte(Plus(u, v)) = Plus(TurnByte(u), TurnByte(v))
  <1>1. \A x, y \in Vec : TurnTwo(x) \in Vec /\ TurnTwo(Plus(x, y)) = Plus(TurnTwo(x), TurnTwo(y))
    BY TurnTyped, TurnIsLinear DEF TurnTwo
  <1>2. \A x, y \in Vec : TurnFour(x) \in Vec /\ TurnFour(Plus(x, y)) = Plus(TurnFour(x), TurnFour(y))
    BY <1>1 DEF TurnFour
  <1> QED
    BY <1>2 DEF TurnByte

(* A burst that begins after p bits of a byte leaves its upper 8 - p bits  *)
(* in this byte and the others in the next one. When the register has      *)
(* turned over the first and takes in the second, it holds the burst       *)
(* turned 8 - p times, which is not zero.                                  *)
LEMMA BurstStays ==
  ASSUME NEW e \in Byte, NEW p \in 0..7, Bits(e) # Zero
  PROVE  Plus(TurnByte(Overlay(e, 0 - p)), Overlay(e, 8 - p)) # Zero
  <1> DEFINE w == Bits(e)
             High(s) == [k \in 1..8 |-> IF k - s \in 1..(8 - p) THEN w[k - s] ELSE 0]
             Low(s) == [k \in 1..8 |-> IF k + s \in (9 - p)..8 THEN w[k + s] ELSE 0]
  <1>1. w \in Vec /\ \A k \in 1..8 : w[k] \in {0, 1}
    BY BitsOfByte DEF Vec
  <1> HIDE DEF w
  <1>2. PICK z : Turning(z) /\ z[0] = w
    BY <1>1, TurningExists
  <1>3. /\ z \in [0..8 -> Vec]
        /\ \A n \in 0..7 : z[n + 1] = Turn(z[n])
    BY <1>2 DEF Turning
  <1>4. \A s \in 0..8 : High(s) \in Vec /\ Low(s) \in Vec
    BY <1>1 DEF Vec
  <1>5. \A s \in 0..(p - 1) : Turn(High(s + 1)) = High(s)
    <2> TAKE s \in 0..(p - 1)
    <2>1. \A k \in 1..8 : Turn(High(s + 1))[k] = High(s)[k]
      BY <1>1 DEF Turn
    <2> QED
      BY <2>1 DEF Turn
  <1>6. \A s \in 0..(7 - p) : Turn(Low(s)) = Low(s + 1)
    <2> TAKE s \in 0..(7 - p)
    <2>1. \A k \in 1..8 : Turn(Low(s))[k] = Low(s + 1)[k]
      BY <1>1 DEF Turn
    <2> QED
      BY <2>1 DEF Turn
  <1>7. High(0) = Plus(w, Low(0))
    <2>1. \A k \in 1..8 : High(0)[k] = Plus(w, Low(0))[k]
      BY <1>1 DEF Plus
    <2> QED
      BY <2>1 DEF Plus
  <1>8. Overlay(e, 0 - p) = High(p) /\ Overlay(e, 8 - p) = Low(8 - p)
    BY DEF Overlay, w
  <1> DEFINE v == [n \in 0..8 |-> IF n <= p THEN High(p - n) ELSE Plus(z[n - p], Low(n - p))]
  <1> HIDE DEF High, Low
  <1>9. v \in [0..8 -> Vec]
    BY <1>4, PlusTyped
  <1>10. \A n \in 0..7 : v[n + 1] = Turn(v[n])
    <2> TAKE n \in 0..7
    <2>1. CASE n < p
      <3> DEFINE s == p - (n + 1)
      <3>1. s \in 0..(p - 1) /\ p - n = s + 1 /\ n + 1 <= p /\ n <= p
        BY <2>1
      <3>2. v[n] = High(s + 1) /\ v[n + 1] = High(s)
        BY <3>1
      <3> HIDE DEF s, v
      <3> QED
        BY <3>1, <3>2, <1>5
    <2>2. CASE n >= p
      <3> DEFINE s == n - p
      <3>1. s \in 0..7 /\ s \in 0..(7 - p) /\ (n + 1) - p = s + 1 /\ ~(n + 1 <= p)
        BY <2>2
      <3>2. v[n + 1] = Plus(z[s + 1], Low(s + 1))
        BY <3>1
      <3>3. v[n] = Plus(z[s], Low(s))
        <4>1. CASE n = p
          BY <4>1, <1>2, <1>7
        <4>2. CASE n > p
          BY <4>2
        <4> QED
          BY <4>1, <4>2, <2>2
      <3> HIDE DEF s, v
      <3>4. z[s] \in Vec /\ Low(s) \in Vec
        BY <3>1, <1>3, <1>4
      <3>5. Turn(Plus(z[s], Low(s))) = Plus(Turn(z[s]), Turn(Low(s)))
        BY <3>4, TurnIsLinear
      <3> QED
        BY <3>1, <3>2, <3>3, <3>5, <1>3, <1>6
    <2> QED
      BY <2>1, <2>2
  <1>11. v[0] = High(p) /\ v[8] = Plus(z[8 - p], Low(8 - p))
    OBVIOUS
  <1> HIDE DEF v
  <1>12. v[8] = TurnByte(High(p))
    BY <1>9, <1>10, <1>11, TurningEnds DEF Turning
  <1>13. z[8 - p] # Zero /\ z[8 - p] \in Vec
    BY <1>1, <1>2, <1>3, TurningKeepsNonzero DEF w
  <1>14. v[8] # Low(8 - p) /\ Low(8 - p) \in Vec
    <2>1. Low(8 - p) \in Vec
      BY <1>4
    <2> QED
      BY <2>1, <1>11, <1>13, PlusFacts
  <1> QED
    BY <1>8, <1>9, <1>12, <1>14, PlusFacts
-----------------------------------------------------------------------------
(* What is on the wires: seven bytes.                                      *)
Frames == [1..7 -> Byte]

(* The accumulator has a run on any bytes.                                 *)
LEMMA RunExists ==
  ASSUME NEW b, \A i \in 1..6 : b[i] \in Byte
  PROVE  \E r : Run(b, r)
  <1> DEFINE Next1(c, i) == ShiftedByte(Xor(c, b[i]))
             r1 == Next1(255, 1)
             r2 == Next1(r1, 2)
             r3 == Next1(r2, 3)
             r4 == Next1(r3, 4)
             r5 == Next1(r4, 5)
             r6 == Next1(r5, 6)
             r == [j \in 0..6 |-> IF j = 0 THEN 255 ELSE <<r1, r2, r3, r4, r5, r6>>[j]]
  <1>1. \A c, i : Next1(c, i) \in Byte
    BY BitsOfXor, BitsOfShiftedByte
  <1>2. /\ r1 \in Byte /\ r2 \in Byte /\ r3 \in Byte
        /\ r4 \in Byte /\ r5 \in Byte /\ r6 \in Byte
    BY <1>1
  <1>3. /\ r1 = ShiftedByte(Xor(255, b[1])) /\ r2 = ShiftedByte(Xor(r1, b[2]))
        /\ r3 = ShiftedByte(Xor(r2, b[3])) /\ r4 = ShiftedByte(Xor(r3, b[4]))
        /\ r5 = ShiftedByte(Xor(r4, b[5])) /\ r6 = ShiftedByte(Xor(r5, b[6]))
    OBVIOUS
  <1> HIDE DEF r1, r2, r3, r4, r5, r6
  <1>4. /\ r[0] = 255 /\ r[1] = r1 /\ r[2] = r2 /\ r[3] = r3 /\ r[4] = r4
        /\ r[5] = r5 /\ r[6] = r6
    OBVIOUS
  <1>5. r \in [0..6 -> Byte]
    BY <1>2 DEF Byte
  <1> HIDE DEF r
  <1>6. \A j \in 0..5 : r[j + 1] = ShiftedByte(Xor(r[j], b[j + 1]))
    BY <1>3, <1>4
  <1> QED
    BY <1>4, <1>5, <1>6 DEF Run

(* The difference of two runs turns like a register that is given the      *)
(* difference of the bytes.                                                *)
LEMMA DifferenceTurns ==
  ASSUME NEW b, NEW d, \A i \in 1..6 : b[i] \in Byte /\ d[i] \in Byte,
         NEW r, NEW s, Run(b, r), Run(d, s), NEW j \in 0..5
  PROVE  Plus(Bits(r[j + 1]), Bits(s[j + 1]))
           = TurnByte(Plus(Plus(Bits(r[j]), Bits(s[j])),
                           Plus(Bits(b[j + 1]), Bits(d[j + 1]))))
  <1> DEFINE i == j + 1
  <1>1. i \in 1..6
    OBVIOUS
  <1>2. /\ r[j] \in Byte /\ s[j] \in Byte
        /\ r[i] = ShiftedByte(Xor(r[j], b[i]))
        /\ s[i] = ShiftedByte(Xor(s[j], d[i]))
    BY DEF Run
  <1> HIDE DEF i
  <1>3. /\ Bits(r[j]) \in Vec /\ Bits(s[j]) \in Vec
        /\ Bits(b[i]) \in Vec /\ Bits(d[i]) \in Vec
    BY <1>1, <1>2, BitsOfByte
  <1>4. /\ Bits(r[i]) = TurnByte(Plus(Bits(r[j]), Bits(b[i])))
        /\ Bits(s[i]) = TurnByte(Plus(Bits(s[j]), Bits(d[i])))
    BY <1>2, BitsOfXor, BitsOfShiftedByte
  <1>5. Plus(Bits(r[i]), Bits(s[i]))
          = TurnByte(Plus(Plus(Bits(r[j]), Bits(b[i])), Plus(Bits(s[j]), Bits(d[i]))))
    BY <1>4, PlusTyped, TurnByteIsLinear
  <1>6. Plus(Plus(Bits(r[j]), Bits(b[i])), Plus(Bits(s[j]), Bits(d[i])))
          = Plus(Plus(Bits(r[j]), Bits(s[j])), Plus(Bits(b[i]), Bits(d[i])))
    BY <1>3, PlusOfSums
  <1> QED
    BY <1>5, <1>6 DEF i

(* A burst touches no byte but the two it lies on.                         *)
LEMMA OverlayFacts ==
  ASSUME NEW e \in Byte
  PROVE  /\ \A n \in Int : Overlay(e, n) \in Vec
         /\ \A n \in Int : ~(n \in -7..7) => Overlay(e, n) = Zero
         /\ Bits(e) = Zero => \A n \in Int : Overlay(e, n) = Zero
  <1>1. \A k \in 1..8 : Bits(e)[k] \in {0, 1}
    BY BitsOfByte DEF Vec
  <1>2. \A n \in Int : Overlay(e, n) \in Vec
    BY <1>1 DEF Overlay, Vec
  <1>3. \A n \in Int : ~(n \in -7..7) => Overlay(e, n) = Zero
    BY DEF Overlay, Zero
  <1>4. ASSUME Bits(e) = Zero, NEW n \in Int
        PROVE  Overlay(e, n) = Zero
    <2>1. \A k \in 1..8 : Bits(e)[k] = 0
      BY <1>4 DEF Zero
    <2> QED
      BY <2>1 DEF Overlay, Zero
  <1> QED
    BY <1>2, <1>3, <1>4

(* What the wires did is the difference of the bytes sent and read.        *)
LEMMA DisturbedFacts ==
  ASSUME NEW b \in Frames, NEW q \in 1..7, NEW p \in 0..7, NEW e \in Byte
  PROVE  LET d == Disturbed(b, q, p, e)
         IN  /\ d \in Frames
             /\ \A i \in 1..7 : Plus(Bits(b[i]), Bits(d[i])) = Overlay(e, 8 * (i - q) - p)
  <1> DEFINE d == Disturbed(b, q, p, e)
             x(i) == Overlay(e, 8 * (i - q) - p)
  <1>1. \A i \in 1..7 : 8 * (i - q) - p \in Int
    OBVIOUS
  <1>2. \A i \in 1..7 : x(i) \in Vec /\ Bits(b[i]) \in Vec
    BY <1>1, OverlayFacts, BitsOfByte DEF Frames
  <1>3. \A i \in 1..7 : d[i] = Number(Plus(Bits(b[i]), x(i)))
    BY DEF Disturbed
  <1>4. \A i \in 1..7 : d[i] \in Byte /\ Bits(d[i]) = Plus(Bits(b[i]), x(i))
    BY <1>3, PlusTyped, ByteOfBits
  <1>5. \A u, v \in Vec : Plus(u, Plus(u, v)) = v
    <2> TAKE u, v \in Vec
    <2>1. \A k \in 1..8 : u[k] \in {0, 1} /\ v[k] \in {0, 1}
      BY DEF Vec
    <2>2. \A k \in 1..8 : Plus(u, Plus(u, v))[k] = v[k]
      BY <2>1 DEF Plus
    <2> QED
      BY <2>2 DEF Plus, Vec
  <1>6. \A i \in 1..7 : Plus(Bits(b[i]), Bits(d[i])) = x(i)
    BY <1>2, <1>4, <1>5
  <1>7. d \in Frames
    <2>1. d = [i \in 1..7 |-> d[i]]
      BY DEF Disturbed
    <2> HIDE DEF d
    <2> QED
      BY <1>4, <2>1 DEF Frames
  <1> QED
    BY <1>6, <1>7

(* If the check byte of a frame fits, and that of the frame with a burst   *)
(* of up to eight bits laid over it fits too, the burst was empty (line    *)
(* 102).                                                                   *)
LEMMA BurstIsSeen ==
  ASSUME NEW b \in Frames, NEW q \in 1..7, NEW p \in 0..7, NEW e \in Byte,
         NEW d, d = Disturbed(b, q, p, e),
         NEW r, NEW s, Run(b, r), Run(d, s), r[6] = b[7], s[6] = d[7]
  PROVE  d = b
  <1> DEFINE x(i) == Overlay(e, 8 * (i - q) - p)
             D(j) == Plus(Bits(r[j]), Bits(s[j]))
  <1>1. d \in Frames /\ \A i \in 1..7 : Plus(Bits(b[i]), Bits(d[i])) = x(i)
    BY DisturbedFacts
  <1>2. \A j \in 0..6 : D(j) \in Vec
    BY PlusTyped
  <1>3. \A i \in 1..7 : 8 * (i - q) - p \in Int
    OBVIOUS
  <1>4. \A i \in 1..7 : x(i) \in Vec
    BY <1>3, OverlayFacts
  <1>5. \A j \in 0..5 : D(j + 1) = TurnByte(Plus(D(j), x(j + 1)))
    <2> TAKE j \in 0..5
    <2>1. j + 1 \in 1..7
      OBVIOUS
    <2>2. \A i \in 1..6 : b[i] \in Byte /\ d[i] \in Byte
      BY <1>1 DEF Frames
    <2>3. D(j + 1) = TurnByte(Plus(D(j), Plus(Bits(b[j + 1]), Bits(d[j + 1]))))
      BY <2>2, DifferenceTurns
    <2> HIDE DEF D, x
    <2> QED
      BY <1>1, <2>1, <2>3
  <1>6. D(0) = Zero
    BY PlusFacts, BitsOfByte DEF Run
  <1>7. D(6) = x(7)
    BY <1>1
  <1>8. \A i \in 1..7 : i < q \/ i > q + 1 => x(i) = Zero
    <2> SUFFICES ASSUME NEW i \in 1..7, i < q \/ i > q + 1
                 PROVE  x(i) = Zero
      OBVIOUS
    <2>1. 8 * (i - q) - p \in Int /\ ~(8 * (i - q) - p \in -7..7)
      OBVIOUS
    <2> QED
      BY <2>1, OverlayFacts
  <1>9. Bits(e) = Zero => \A i \in 1..7 : x(i) = Zero
    BY <1>3, OverlayFacts
  <1>10. x(q) = Overlay(e, 0 - p) /\ x(q + 1) = Overlay(e, 8 - p)
    BY DEF Overlay
  <1> HIDE DEF D, x
  <1>11. Zero \in Vec
    BY DEF Zero, Vec
  <1>12. D(q - 1) = Zero
    <2> DEFINE P == {n \in 0..(q - 1) : D(n) = Zero}
    <2>1. 0 \in P
      BY <1>6
    <2>2. \A n \in 0..((q - 1) - 1) : n \in P => n + 1 \in P
      <3> SUFFICES ASSUME NEW n \in 0..((q - 1) - 1), n \in P
                   PROVE  n + 1 \in P
        OBVIOUS
      <3>1. n \in 0..5 /\ n + 1 \in 1..7 /\ n + 1 < q
        OBVIOUS
      <3>2. D(n + 1) = TurnByte(Plus(Zero, Zero))
        BY <3>1, <1>5, <1>8
      <3>3. D(n + 1) = Zero
        BY <3>2, <1>11, PlusFacts, TurnByteFacts
      <3> QED
        BY <3>1, <3>3
    <2>3. q - 1 \in 0..8 /\ q - 1 \in 0..(q - 1)
      OBVIOUS
    <2>4. \A n \in 0..(q - 1) : n \in P
      <3> HIDE DEF P
      <3> QED
        BY <2>1, <2>2, <2>3, UpTo
    <2> QED
      BY <2>3, <2>4
  <1>13. ASSUME q <= 6
         PROVE  D(q) = TurnByte(Overlay(e, 0 - p)) /\ D(q) \in Vec
    <2> DEFINE n == q - 1
    <2>1. n \in 0..5 /\ n + 1 = q /\ q \in 1..7
      BY <1>13
    <2> HIDE DEF n
    <2>2. D(q) = TurnByte(Plus(D(n), x(q)))
      BY <2>1, <1>5
    <2>3. D(n) = Zero
      BY <1>12 DEF n
    <2>4. Plus(Zero, x(q)) = x(q) /\ x(q) \in Vec
      BY <2>1, <1>4, <1>11, PlusFacts
    <2> QED
      BY <2>2, <2>3, <2>4, <1>10, TurnByteFacts
  <1>14. ASSUME q <= 6, Bits(e) # Zero
         PROVE  FALSE
    <2>1. Plus(D(q), x(q + 1)) # Zero
      BY <1>10, <1>13, <1>14, BurstStays
    <2>2. CASE q = 6
      <3>1. x(7) \in Vec /\ q + 1 = 7
        BY <2>2, <1>4
      <3> QED
        BY <3>1, <2>1, <2>2, <1>7, <1>13, PlusFacts
    <2>3. CASE q <= 5
      <3> DEFINE P == {n \in 0..6 : n >= q + 1 => D(n) # Zero}
      <3>1. 0 \in P
        OBVIOUS
      <3>2. \A n \in 0..(6 - 1) : n \in P => n + 1 \in P
        <4> SUFFICES ASSUME NEW n \in 0..(6 - 1), n \in P, n + 1 >= q + 1
                     PROVE  D(n + 1) # Zero
          OBVIOUS
        <4>1. n \in 0..5 /\ n \in 0..6 /\ n + 1 \in 1..7
          OBVIOUS
        <4>2. D(n + 1) = TurnByte(Plus(D(n), x(n + 1)))
          BY <4>1, <1>5
        <4>3. CASE n = q
          BY <4>2, <4>3, <2>1, PlusTyped, TurnByteFacts
        <4>4. CASE n > q
          <5>1. D(n) # Zero /\ n + 1 > q + 1
            BY <4>4
          <5>2. x(n + 1) = Zero
            BY <5>1, <4>1, <1>8
          <5>3. D(n) \in Vec
            BY <4>1, <1>2
          <5> QED
            BY <4>2, <5>1, <5>2, <5>3, PlusFacts, TurnByteFacts
        <4> QED
          BY <4>3, <4>4
      <3>3. \A n \in 0..6 : n \in P
        <4>1. 6 \in 0..8
          OBVIOUS
        <4> HIDE DEF P
        <4> QED
          BY <3>1, <3>2, <4>1, UpTo
      <3>4. D(6) # Zero
        <4>1. 6 \in 0..6 /\ 6 >= q + 1
          BY <2>3
        <4> QED
          BY <3>3, <4>1
      <3>5. x(7) = Zero
        <4>1. 7 \in 1..7 /\ 7 > q + 1
          BY <2>3
        <4> QED
          BY <1>8, <4>1
      <3> QED
        BY <3>4, <3>5, <1>7
    <2> QED
      BY <2>2, <2>3, <1>14
  <1>15. \A i \in 1..7 : x(i) = Zero
    <2>1. CASE q <= 6
      BY <2>1, <1>9, <1>14
    <2>2. CASE q = 7
      <3>1. x(7) = Zero
        <4>1. q - 1 = 6
          BY <2>2
        <4> QED
          BY <4>1, <1>7, <1>12
      <3>2. \A i \in 1..7 : i = 7 \/ i < q
        BY <2>2
      <3> QED
        BY <3>1, <3>2, <1>8
    <2> QED
      BY <2>1, <2>2
  <1>16. \A i \in 1..7 : d[i] = b[i]
    <2> TAKE i \in 1..7
    <2>1. b[i] \in Byte /\ d[i] \in Byte
      BY <1>1 DEF Frames
    <2>2. Bits(b[i]) = Bits(d[i])
      BY <2>1, <1>1, <1>15, BitsOfByte, PlusFacts
    <2> QED
      BY <2>1, <2>2, BitsOfByte
  <1> QED
    BY <1>1, <1>16 DEF Frames
-----------------------------------------------------------------------------
(* The sum of two bits, and of the bits of a vector, modulo 2: the parity. *)
Sum2(x, y) == IF x = y THEN 0 ELSE 1
Parity(v) ==
  Sum2(Sum2(Sum2(v[1], v[2]), Sum2(v[3], v[4])), Sum2(Sum2(v[5], v[6]), Sum2(v[7], v[8])))

(* A turn keeps the parity: the polynomial has an even number of ones in   *)
(* all, the one that leaves included.                                      *)
LEMMA ParityFacts ==
  ASSUME NEW u \in Vec, NEW v \in Vec
  PROVE  /\ Parity(u) \in {0, 1}
         /\ Parity(Plus(u, v)) = Sum2(Parity(u), Parity(v))
         /\ Parity(Turn(u)) = Parity(u)
  <1>1. \A k \in 1..8 : u[k] \in {0, 1} /\ v[k] \in {0, 1}
    BY DEF Vec
  <1>2. Parity(u) \in {0, 1}
    BY DEF Parity, Sum2
  <1>3. Parity(Plus(u, v)) = Sum2(Parity(u), Parity(v))
    <2>1. \A a, b, c, d \in {0, 1} :
            Sum2(Sum2(a, b), Sum2(c, d)) = Sum2(Sum2(a, c), Sum2(b, d))
      BY DEF Sum2
    <2>2. \A a, b : Sum2(a, b) \in {0, 1}
      BY DEF Sum2
    <2>3. \A k \in 1..8 : Plus(u, v)[k] = Sum2(u[k], v[k])
      BY DEF Plus, Sum2
    <2>4. /\ Sum2(Plus(u, v)[1], Plus(u, v)[2]) = Sum2(Sum2(u[1], u[2]), Sum2(v[1], v[2]))
          /\ Sum2(Plus(u, v)[3], Plus(u, v)[4]) = Sum2(Sum2(u[3], u[4]), Sum2(v[3], v[4]))
          /\ Sum2(Plus(u, v)[5], Plus(u, v)[6]) = Sum2(Sum2(u[5], u[6]), Sum2(v[5], v[6]))
          /\ Sum2(Plus(u, v)[7], Plus(u, v)[8]) = Sum2(Sum2(u[7], u[8]), Sum2(v[7], v[8]))
      BY <1>1, <2>1, <2>3
    <2> QED
      BY <2>1, <2>2, <2>4 DEF Parity
  <1>4. Parity(Turn(u)) = Parity(u)
    <2>1. CASE u[1] = 0
      <3>1. Turn(u) = <<u[2], u[3], u[4], u[5], u[6], u[7], u[8], 0>>
        BY <2>1 DEF Turn
      <3> QED
        BY <1>1, <2>1, <3>1 DEF Parity, Sum2
    <2>2. CASE u[1] = 1
      <3>1. Turn(u) = <<u[2], u[3], 1 - u[4], 1 - u[5], u[6], u[7], u[8], 1>>
        BY <2>2 DEF Turn
      <3> QED
        BY <1>1, <2>2, <3>1 DEF Parity, Sum2
    <2> QED
      BY <1>1, <2>1, <2>2
  <1> QED
    BY <1>2, <1>3, <1>4

(* So do eight turns.                                                      *)
LEMMA TurnByteKeepsParity ==
  ASSUME NEW u \in Vec
  PROVE  Parity(TurnByte(u)) = Parity(u)
  <1>1. \A v \in Vec : TurnTwo(v) \in Vec /\ Parity(TurnTwo(v)) = Parity(v)
    BY TurnTyped, ParityFacts DEF TurnTwo
  <1>2. \A v \in Vec : TurnFour(v) \in Vec /\ Parity(TurnFour(v)) = Parity(v)
    BY <1>1 DEF TurnFour
  <1> QED
    BY <1>2 DEF TurnByte

(* Beyond bursts: two frames that the driver both accepts differ in an     *)
(* even number of bits, so that a disturbance of one or three bits, or of  *)
(* any odd number, is rejected wherever they are (line 102).               *)
THEOREM OddDisturbanceIsSeen ==
  ASSUME NEW b \in Frames, NEW d \in Frames, NEW r, NEW s, Run(b, r), Run(d, s),
         r[6] = b[7], s[6] = d[7]
  PROVE  LET x(i) == Parity(Plus(Bits(b[i]), Bits(d[i])))
         IN  Sum2(Sum2(Sum2(Sum2(Sum2(Sum2(x(1), x(2)), x(3)), x(4)), x(5)), x(6)), x(7)) = 0
  <1> DEFINE y(i) == Plus(Bits(b[i]), Bits(d[i]))
             D(j) == Plus(Bits(r[j]), Bits(s[j]))
  <1>1. \A i : y(i) \in Vec /\ D(i) \in Vec
    BY PlusTyped
  <1>3. \A j \in 0..5 : Parity(D(j + 1)) = Sum2(Parity(D(j)), Parity(y(j + 1)))
    <2> TAKE j \in 0..5
    <2>1. \A i \in 1..6 : b[i] \in Byte /\ d[i] \in Byte
      BY DEF Frames
    <2>2. D(j + 1) = TurnByte(Plus(D(j), y(j + 1)))
      BY <2>1, DifferenceTurns
    <2> HIDE DEF D, y
    <2> QED
      BY <1>1, <2>2, PlusTyped, TurnByteKeepsParity, ParityFacts
  <1>4. D(0) = Zero /\ D(6) = y(7)
    BY PlusFacts, BitsOfByte DEF Run
  <1>5. Parity(Zero) = 0
    BY DEF Parity, Sum2, Zero
  <1> HIDE DEF D, y
  <1>6. \A i : Parity(y(i)) \in {0, 1}
    BY <1>1, ParityFacts
  <1>7. /\ Parity(D(1)) = Sum2(0, Parity(y(1)))
        /\ Parity(D(2)) = Sum2(Parity(D(1)), Parity(y(2)))
        /\ Parity(D(3)) = Sum2(Parity(D(2)), Parity(y(3)))
        /\ Parity(D(4)) = Sum2(Parity(D(3)), Parity(y(4)))
        /\ Parity(D(5)) = Sum2(Parity(D(4)), Parity(y(5)))
        /\ Parity(D(6)) = Sum2(Parity(D(5)), Parity(y(6)))
    BY <1>3, <1>4, <1>5
  <1>8. Sum2(0, Parity(y(1))) = Parity(y(1))
    BY <1>6 DEF Sum2
  <1>9. Sum2(Parity(D(6)), Parity(y(7))) = 0
    BY <1>4 DEF Sum2
  <1> QED
    BY <1>7, <1>8, <1>9 DEF y
-----------------------------------------------------------------------------
(* The six bytes whose CRC is taken.                                       *)
Framed(m) == Pack(24, m[1], m[2])

(* The inductive invariant: what was sent and how it was disturbed do not  *)
(* change, the accumulator is where its run on the bytes read is, and the  *)
(* result is the comparison of line 102. AcceptsWhatWasSent alone says     *)
(* nothing before the last step.                                           *)
FrameInv ==
  /\ TypeOK
  /\ sent = Append(Framed(measured), CheckByte(Framed(measured)))
  /\ \E q \in 1..7, p \in 0..7, e \in Byte : buf = Disturbed(sent, q, p, e)
  /\ \A r : Run(buf, r) => crc = r[byte]
  /\ result # "none" => byte = 6 /\ (result = "ESP_OK" <=> crc = buf[7])

(* A frame is a sequence of seven bytes.                                   *)
LEMMA FramesAreSequences ==
  ASSUME NEW b
  PROVE  b \in Frames <=> b \in Seq(Byte) /\ Len(b) = 7
  <1>1. ASSUME b \in Frames
        PROVE  b \in Seq(Byte) /\ Len(b) = 7
    <2>1. b \in Seq(Byte)
      BY <1>1, SeqDef DEF Frames
    <2> QED
      BY <1>1, <2>1, LenProperties DEF Frames
  <1>2. ASSUME b \in Seq(Byte), Len(b) = 7
        PROVE  b \in Frames
    BY <1>2, LenProperties DEF Frames
  <1> QED
    BY <1>1, <1>2

(* Six elements and one more.                                              *)
LEMMA AppendToSix ==
  ASSUME NEW f \in Seq(Byte), Len(f) = 6, NEW c \in Byte
  PROVE  /\ Append(f, c) \in Seq(Byte)
         /\ Len(Append(f, c)) = 7
         /\ Append(f, c)[7] = c
         /\ \A i \in 1..6 : Append(f, c)[i] = f[i]
  <1>1. Append(f, c) \in Seq(Byte)
    BY AppendProperties, Zenon
  <1>2. Len(Append(f, c)) = Len(f) + 1
    BY AppendProperties, Zenon
  <1>3. Append(f, c)[Len(f) + 1] = c
    BY AppendProperties, Zenon
  <1>4. ASSUME NEW i \in 1..Len(f)
        PROVE  Append(f, c)[i] = f[i]
    <2>1. Append(f, c) = f \o <<c>>
      BY AppendIsConcat, Zenon
    <2>2. <<c>> \in Seq(Byte) /\ Len(<<c>>) = 1
      OBVIOUS
    <2>3. i \in 1..(Len(f) + Len(<<c>>)) /\ i <= Len(f)
      BY <2>2
    <2>4. (f \o <<c>>)[i] = IF i <= Len(f) THEN f[i] ELSE <<c>>[i - Len(f)]
      BY <2>2, <2>3, ConcatProperties, Zenon
    <2> QED
      BY <2>1, <2>3, <2>4
  <1> QED
    BY <1>1, <1>2, <1>3, <1>4

(* Six bytes make a sequence.                                              *)
LEMMA SixBytes ==
  \A a, b, c, d, e, f \in Byte :
    <<a, b, c, d, e, f>> \in Seq(Byte) /\ Len(<<a, b, c, d, e, f>>) = 6
  OBVIOUS

(* What the sensor packs is bytes.                                         *)
LEMMA PackIsBytes ==
  ASSUME NEW m \in Raw \X Raw
  PROVE  Framed(m) \in Seq(Byte) /\ Len(Framed(m)) = 6
  <1> DEFINE h == m[1]
             t == m[2]
  <1>1. h \in Raw /\ t \in Raw
    OBVIOUS
  <1> HIDE DEF h, t
  <1>2. \A n \in Raw : /\ (n \div 16) \div 256 \in Byte
                       /\ ((n \div 16) % 256) \in Byte
                       /\ ((n \div 256) % 256) \in Byte
                       /\ (n % 256) \in Byte
                       /\ (n % 16) \in 0..15
                       /\ (n \div 256) \div 256 \in 0..15
    BY DEF Raw, Byte
  <1>3. \A a, b \in 0..15 : a * 16 + b \in Byte
    BY DEF Byte
  <1>4. 24 \in Byte
    BY DEF Byte
  <1>5. (h % 16) * 16 + (t \div 256) \div 256 \in Byte
    <2>1. (h % 16) \in 0..15 /\ (t \div 256) \div 256 \in 0..15
      BY <1>1, <1>2
    <2> QED
      BY <2>1, <1>3
  <1>6. Pack(24, h, t) \in Seq(Byte) /\ Len(Pack(24, h, t)) = 6
    <2> DEFINE b1 == (h \div 16) \div 256
               b2 == (h \div 16) % 256
               b3 == (h % 16) * 16 + (t \div 256) \div 256
               b4 == (t \div 256) % 256
               b5 == t % 256
    <2>1. b1 \in Byte /\ b2 \in Byte /\ b3 \in Byte /\ b4 \in Byte /\ b5 \in Byte
      BY <1>1, <1>2, <1>5
    <2>2. Pack(24, h, t) = <<24, b1, b2, b3, b4, b5>>
      BY DEF Pack
    <2> HIDE DEF b1, b2, b3, b4, b5
    <2>3. /\ <<24, b1, b2, b3, b4, b5>> \in Seq(Byte)
          /\ Len(<<24, b1, b2, b3, b4, b5>>) = 6
      BY <1>4, <2>1
    <2> QED
      BY <2>2, <2>3
  <1> QED
    BY <1>6 DEF Framed, h, t

(* A frame of the sensor fits its check byte, and its data bytes unpack to *)
(* what was measured.                                                      *)
LEMMA SentFrame ==
  ASSUME NEW m \in Raw \X Raw, NEW b, b = Append(Framed(m), CheckByte(Framed(m)))
  PROVE  /\ b \in Frames
         /\ \A r : Run(b, r) => r[6] = b[7]
         /\ RawHumidity(b) = m[1] /\ RawTemperature(b) = m[2]
  <1> DEFINE f == Framed(m)
             c == CheckByte(f)
  <1>1. f \in Seq(Byte) /\ Len(f) = 6
    BY PackIsBytes
  <1>2. \A i \in 1..6 : f[i] \in Byte
    BY <1>1
  <1>3. m[1] \in Raw /\ m[2] \in Raw /\ 24 \in Byte
    BY DEF Byte
  <1> HIDE DEF f
  <1>4. \A r : Run(f, r) => c = r[6]
    BY <1>2, RegisterDivides
  <1>5. PICK r0 : Run(f, r0)
    BY <1>2, RunExists
  <1>6. c \in Byte
    BY <1>4, <1>5 DEF Run
  <1> HIDE DEF c
  <1>7. /\ b \in Seq(Byte) /\ Len(b) = 7 /\ b[7] = c
        /\ \A i \in 1..6 : b[i] = f[i]
    <2>1. b = Append(f, c)
      BY DEF f, c
    <2> QED
      BY <1>1, <1>6, <2>1, AppendToSix
  <1>8. \A r : Run(b, r) => Run(f, r)
    <2> SUFFICES ASSUME NEW r, Run(b, r)
                 PROVE  Run(f, r)
      OBVIOUS
    <2>1. \A j \in 0..5 : j + 1 \in 1..6
      OBVIOUS
    <2> QED
      BY <2>1, <1>7 DEF Run
  <1>9. RawHumidity(b) = RawHumidity(f) /\ RawTemperature(b) = RawTemperature(f)
    <2>1. b[2] = f[2] /\ b[3] = f[3] /\ b[4] = f[4] /\ b[5] = f[5] /\ b[6] = f[6]
      BY <1>7
    <2> QED
      BY <2>1 DEF RawHumidity, RawTemperature
  <1>10. RawHumidity(f) = m[1] /\ RawTemperature(f) = m[2]
    BY <1>3, UnpackInvertsPack DEF f, Framed
  <1>11. b \in Frames
    BY <1>7, FramesAreSequences
  <1> QED
    BY <1>4, <1>7, <1>8, <1>9, <1>10, <1>11

(* FrameInv is inductive.                                                  *)
LEMMA FrameInvHolds == Spec => []FrameInv
  <1>1. Init => FrameInv
    <2> SUFFICES ASSUME Init
                 PROVE  FrameInv
      OBVIOUS
    <2>1. measured \in Raw \X Raw /\ measured \in Measurements
      BY FrameAssumption DEF Init
    <2>2. sent = Append(Framed(measured), CheckByte(Framed(measured)))
      BY DEF Init, Framed
    <2>3. sent \in Frames
      BY <2>1, <2>2, SentFrame
    <2>4. PICK q \in 1..7, p \in 0..7, e \in Byte : buf = Disturbed(sent, q, p, e)
      BY FrameAssumption DEF Init
    <2>5. buf \in Frames
      BY <2>3, <2>4, DisturbedFacts
    <2>6. byte = 0 /\ crc = 255 /\ result = "none"
      BY DEF Init
    <2>7. TypeOK
      BY <2>1, <2>3, <2>5, <2>6, FramesAreSequences DEF TypeOK, Byte
    <2>8. \A r : Run(buf, r) => crc = r[byte]
      BY <2>6 DEF Run
    <2> QED
      BY <2>2, <2>4, <2>6, <2>7, <2>8 DEF FrameInv
  <1>2. FrameInv /\ [Next]_vars => FrameInv'
    <2> SUFFICES ASSUME FrameInv, [Next]_vars
                 PROVE  FrameInv'
      OBVIOUS
    <2>1. CASE AddByte
      <3>1. /\ byte \in 0..5 /\ byte' = byte + 1 /\ byte' \in 0..6
            /\ measured' = measured /\ sent' = sent /\ buf' = buf /\ result' = result
            /\ crc' = ShiftedByte(Xor(crc, buf[byte + 1]))
        <4>1. byte \in 0..6 /\ byte < 6 /\ byte' = byte + 1
          BY <2>1 DEF AddByte, FrameInv, TypeOK
        <4>2. byte \in 0..5 /\ byte' \in 0..6
          BY <4>1
        <4> QED
          BY <2>1, <4>1, <4>2 DEF AddByte
      <3>2. crc' \in Byte
        BY <3>1, BitsOfXor, BitsOfShiftedByte
      <3>3. TypeOK'
        BY <3>1, <3>2 DEF FrameInv, TypeOK
      <3>4. ASSUME NEW r, Run(buf', r)
            PROVE  crc' = r[byte']
        <4>1. Run(buf, r)
          BY <3>1, <3>4
        <4>2. crc = r[byte]
          BY <4>1 DEF FrameInv
        <4>3. r[byte + 1] = ShiftedByte(Xor(r[byte], buf[byte + 1]))
          BY <3>1, <4>1 DEF Run
        <4> QED
          BY <3>1, <4>2, <4>3
      <3>5. result' = "none"
        BY <3>1 DEF FrameInv
      <3> QED
        BY <3>1, <3>3, <3>4, <3>5 DEF FrameInv
    <2>2. CASE Compare
      <3>1. /\ byte' = byte /\ byte = 6 /\ crc' = crc
            /\ measured' = measured /\ sent' = sent /\ buf' = buf
            /\ result' = IF crc = buf[7] THEN "ESP_OK" ELSE "CRC"
        BY <2>2 DEF Compare
      <3>2. TypeOK'
        BY <3>1 DEF FrameInv, TypeOK
      <3>3. \A r : Run(buf', r) => crc' = r[byte']
        BY <3>1 DEF FrameInv
      <3> QED
        BY <3>1, <3>2, <3>3 DEF FrameInv
    <2>3. CASE UNCHANGED vars
      <3>1. /\ byte' = byte /\ crc' = crc /\ measured' = measured /\ sent' = sent
            /\ buf' = buf /\ result' = result
        BY <2>3 DEF vars
      <3> QED
        BY <3>1 DEF FrameInv, TypeOK
    <2> QED
      BY <2>1, <2>2, <2>3 DEF Next
  <1> QED
    BY <1>1, <1>2, PTL DEF Spec

(* The accumulator stays a uint8_t and the loop variable within its bounds *)
(* (lines 60-78).                                                          *)
THEOREM TypeCorrect == Spec => []TypeOK
  <1>1. FrameInv => TypeOK
    BY DEF FrameInv
  <1> QED
    BY <1>1, FrameInvHolds, PTL

(* What the invariant says of a driver that has returned.                  *)
LEMMA FrameInvDecides ==
  ASSUME FrameInv, result # "none"
  PROVE  /\ result = "ESP_OK" <=> buf = sent
         /\ RawHumidity(sent) = measured[1] /\ RawTemperature(sent) = measured[2]
         /\ measured = <<measured[1], measured[2]>>
  <1>1. measured \in Raw \X Raw
    BY FrameAssumption DEF FrameInv, TypeOK
  <1>2. /\ sent \in Frames
        /\ \A r : Run(sent, r) => r[6] = sent[7]
        /\ RawHumidity(sent) = measured[1] /\ RawTemperature(sent) = measured[2]
    BY <1>1, SentFrame DEF FrameInv
  <1>3. PICK q \in 1..7, p \in 0..7, e \in Byte : buf = Disturbed(sent, q, p, e)
    BY DEF FrameInv
  <1>4. buf \in Frames
    BY <1>2, <1>3, DisturbedFacts
  <1>5. \A i \in 1..6 : sent[i] \in Byte /\ buf[i] \in Byte
    BY <1>2, <1>4 DEF Frames
  <1>6. PICK r : Run(sent, r)
    BY <1>5, RunExists
  <1>7. PICK s : Run(buf, s)
    BY <1>5, RunExists
  <1>8. byte = 6 /\ crc = s[6] /\ (result = "ESP_OK" <=> crc = buf[7])
    BY <1>7 DEF FrameInv
  <1>9. result = "ESP_OK" => buf = sent
    BY <1>2, <1>3, <1>6, <1>7, <1>8, BurstIsSeen
  <1>10. buf = sent => result = "ESP_OK"
    BY <1>2, <1>7, <1>8
  <1>11. measured = <<measured[1], measured[2]>>
    BY <1>1
  <1> QED
    BY <1>2, <1>9, <1>10, <1>11

(* For all measurements and all bursts of up to eight bits, anywhere in    *)
(* the frame: aht20_read_measures accepts exactly the bytes that were sent *)
(* (line 102).                                                             *)
THEOREM AcceptsWhatWasSentHolds == Spec => []AcceptsWhatWasSent
  <1>1. FrameInv => AcceptsWhatWasSent
    BY FrameInvDecides DEF AcceptsWhatWasSent
  <1> QED
    BY <1>1, FrameInvHolds, PTL

(* For all of them, an accepted reading is what was measured (lines        *)
(* 104-117).                                                               *)
THEOREM UnpacksWhatWasMeasuredHolds == Spec => []UnpacksWhatWasMeasured
  <1>1. FrameInv => UnpacksWhatWasMeasured
    <2> SUFFICES ASSUME FrameInv, result = "ESP_OK"
                 PROVE  <<RawHumidity(buf), RawTemperature(buf)>> = measured
      BY DEF UnpacksWhatWasMeasured
    <2> QED
      BY FrameInvDecides
  <1> QED
    BY <1>1, FrameInvHolds, PTL
=============================================================================
