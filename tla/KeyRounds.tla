------------------------------ MODULE KeyRounds ------------------------------
(***************************************************************************)
(* The security-access key of MEMS 2J and MEMS 3 (internal/ecu/auth.go):   *)
(* GenerateKey on 16-bit words, and, to compare it with, the scramble the  *)
(* ECU's firmware is said to do, bit by bit.                               *)
(***************************************************************************)
EXTENDS Integers

Word == 0 .. 65535

(***************************************************************************)
(* The code                                                                *)
(***************************************************************************)

Bit(n, word) == (word \div 2^n) % 2

\* Four bits of the seed select the number of rounds.
Loops(seed) ==
  1 + 8 * Bit(15, seed) + 4 * Bit(7, seed) + 2 * Bit(4, seed) + Bit(0, seed)

\* Leaves the least significant bit as it was shifted in.
RoundKeepingLow(seed) ==
  LET xors == (Bit(9, seed) + Bit(8, seed) + Bit(2, seed) + Bit(1, seed)) % 2
  IN  seed \div 2 + 32768 * xors

\* One pass of the loop: shift right, set or clear bit 0, set bit 15 (which
\* the shift has left clear) if the XOR of four bits is 1.
Round(seed) ==
  LET half == seed \div 2
      low == IF Bit(13, seed) = 1 /\ Bit(3, seed) = 1 THEN 0 ELSE 1
      xors == (Bit(9, seed) + Bit(8, seed) + Bit(2, seed) + Bit(1, seed)) % 2
  IN  half - (half % 2) + low + 32768 * xors

GenerateKey(seed) ==
  LET key[n \in 0 .. Loops(seed)] == IF n = 0 THEN seed ELSE Round(key[n - 1])
  IN  key[Loops(seed)]

(***************************************************************************)
(* The firmware                                                            *)
(***************************************************************************)

\* One step of the feedback shift register: "forces the LSB based on bits 13
\* and 3, and feeds bits 9/8/2/1 through XOR into the MSB".
Scramble(b) ==
  [i \in 0 .. 15 |-> CASE i = 15 -> (b[9] + b[8] + b[2] + b[1]) % 2
                       [] i = 0  -> 1 - b[13] * b[3]
                       [] OTHER  -> b[i + 1]]

Bits(word) == [i \in 0 .. 15 |-> (word \div 2^i) % 2]

Value(b) ==
  LET sum[n \in 0 .. 16] == IF n = 0 THEN 0 ELSE sum[n - 1] + b[n - 1] * 2^(n - 1)
  IN  sum[16]

\* The key the ECU expects for its seed.
EcuKey(seed) ==
  LET b == Bits(seed)
      reg[n \in 0 .. 16] == IF n = 0 THEN b ELSE Scramble(reg[n - 1])
  IN  Value(reg[1 + 8 * b[15] + 4 * b[7] + 2 * b[4] + b[0]])
=============================================================================
