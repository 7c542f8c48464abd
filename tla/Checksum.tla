------------------------------ MODULE Checksum ------------------------------
(***************************************************************************)
(* crc32 (src/src/checksum.rs) over two texts of one length: the text the  *)
(* adapter builds from its book and the text the exchange built from its   *)
(* own.  A step appends a byte to each and runs the loop body on both      *)
(* registers.  The reference is the definition of IEEE 802.3: the          *)
(* remainder of a division of polynomials over {0, 1}.                     *)
(***************************************************************************)
EXTENDS Integers, Sequences

CONSTANTS
  Byte,      \* bytes a text can contain
  MaxLength  \* bound: length of a text

ASSUME ByteAssumption == Byte \subseteq 0 .. 255 /\ MaxLength \in Nat

VARIABLES
  bytes,   \* bytes[w] is the text of w so far
  crc      \* crc[w] is the register of w after bytes[w]

crcVars == <<bytes, crc>>

Who  == {"ours", "theirs"}
Bit  == {0, 1}
Word == [0 .. 31 -> Bit]   \* u32; bit 0 is the lowest

Xor(a, b) == (a + b) % 2
PowerOfTwo ==   \* from the 0th to the 15th
  <<1, 2, 4, 8, 16, 32, 64, 128, 256, 512, 1024, 2048, 4096, 8192, 16384, 32768>>
BitOf(byte, i) == (byte \div PowerOfTwo[i + 1]) % 2

\* A word from its high and its low half.
WordOf(high, low) ==
  [i \in 0 .. 31 |-> IF i < 16 THEN BitOf(low, i) ELSE BitOf(high, i - 16)]

Ones  == [i \in 0 .. 31 |-> 1]
Not(w) == [i \in 0 .. 31 |-> 1 - w[i]]

Polynomial == WordOf(60856, 33568)   \* 0xEDB8, 0x8320

ShiftRight(w) == [i \in 0 .. 31 |-> IF i = 31 THEN 0 ELSE w[i + 1]]

\* Mutant: the mask is the low bit itself, which the polynomial lacks.
RoundUnmasked(w) == ShiftRight(w)

\* One turn of the inner loop.
Round(w) ==
  LET shifted == ShiftRight(w)
  IN  IF w[0] = 0 THEN shifted
      ELSE [i \in 0 .. 31 |-> Xor(shifted[i], Polynomial[i])]

\* The body of the outer loop.
Mixed(w, byte) == [i \in 0 .. 31 |-> IF i < 8 THEN Xor(w[i], BitOf(byte, i)) ELSE w[i]]
Eat(w, byte) ==
  LET turn[n \in 0 .. 8] == IF n = 0 THEN Mixed(w, byte) ELSE Round(turn[n - 1])
  IN  turn[8]

\* Mutant: the register starts at zero.
StartAtZero == [i \in 0 .. 31 |-> 0]

Start == Ones

\* What crc32 returns.
Crc32(w) == Not(w)

CrcInit == bytes = [w \in Who |-> <<>>] /\ crc = [w \in Who |-> Start]

CrcNext ==
  \E b \in [Who -> Byte] :
    /\ Len(bytes["ours"]) < MaxLength
    /\ bytes' = [w \in Who |-> Append(bytes[w], b[w])]
    /\ crc' = [w \in Who |-> Eat(crc[w], b[w])]

CrcSpec == CrcInit /\ [][CrcNext]_crcVars

----------------------------------------------------------------------------
(* The definition: the bits of the text, lowest first within a byte, the   *)
(* first 32 inverted, followed by 32 zeros, are divided by the generator;  *)
(* the inverted remainder is the checksum, highest power in bit 0.         *)

Generator ==   \* coefficients of x^32 down to x^0
  [i \in 0 .. 32 |-> IF i \in {0, 6, 9, 10, 16, 20, 21, 22, 24, 25, 27, 28, 30, 31, 32}
                       THEN 1 ELSE 0]

\* The kth bit of the text and of the zeros that follow it.
BitAt(s, k) ==
  IF k > 8 * Len(s) THEN 0 ELSE BitOf(s[(k - 1) \div 8 + 1], (k - 1) % 8)

Dividend(s) ==
  [k \in 1 .. 8 * Len(s) + 32 |-> IF k <= 32 THEN 1 - BitAt(s, k) ELSE BitAt(s, k)]

\* One step of the long division, at the kth digit.
Subtracted(d, k) ==
  IF d[k] = 0 THEN d
  ELSE [i \in DOMAIN d |->
          IF i \in k .. k + 32 THEN Xor(d[i], Generator[i - k]) ELSE d[i]]

RemainderOf(s) ==
  LET n == 8 * Len(s)
      left[k \in 0 .. n] == IF k = 0 THEN Dividend(s) ELSE Subtracted(left[k - 1], k)
  IN  [i \in 0 .. 31 |-> left[n][n + 1 + i]]

Reference(s) == Not(RemainderOf(s))

----------------------------------------------------------------------------
(* Properties.                                                             *)

\* The loop computes the remainder of the division, with its inversions.
IsRemainder == \A w \in Who : Crc32(crc[w]) = Reference(bytes[w])

\* The vector of the unit test (src/src/checksum.rs:24) fixes the definition:
\* "123456789" has the checksum 0xCBF43926.
ASSUME CheckVector == Reference([i \in 1 .. 9 |-> 48 + i]) = WordOf(52212, 14630)

\* What verify_checksum relies on: texts that differ within four bytes next to
\* each other have different checksums, whatever precedes and follows.
BurstsAreNoticed ==
  LET ours == bytes["ours"]  theirs == bytes["theirs"]
      differ == {i \in DOMAIN ours : ours[i] # theirs[i]}
  IN  (differ # {} /\ \A i, j \in differ : j - i <= 3) => crc["ours"] # crc["theirs"]
============================================================================
