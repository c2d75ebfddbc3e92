-------------------------- MODULE Decoders_proofs --------------------------
(***************************************************************************)
(* Proofs about the decoders: for every size byte and every number of      *)
(* bytes received, that of the 0x80 frame of MEMS 1.x stays inside its     *)
(* data, and for payloads of any length so do those of MEMS 2J's and 3's   *)
(* replies.  And the key that is computed is the firmware's for every      *)
(* seed: round for round its loop holds the bits of the ECU's shift        *)
(* register (KeyInv).                                                      *)
(***************************************************************************)
EXTENDS MCSerial, WellFoundedInduction, TLAPS

\* Every offset of the 0x80 frame is below the shortest frame or below the
\* size byte that its guard has seen.
LEMMA Reads80AreGuarded ==
  ASSUME NEW n \in Nat, NEW offset \in Reads80(n)
  PROVE  offset \in Nat /\ (offset < Base \/ offset < n)
  <1>1. CASE offset \in Base80
    BY <1>1 DEF Base80, Base
  <1>2. CASE offset \notin Base80
    <2>1. PICK row \in Optional80 : n >= row[1] /\ offset \in row[2]
      BY <1>2 DEF Reads80
    <2> QED BY <2>1 DEF Optional80
  <1> QED BY <1>1, <1>2

\* The values the variables range over, and no panic: inductive, because a
\* frame is parsed only when its size byte and fifteen bytes have been matched.
Inv ==
  /\ kind = "80"
  /\ size \in Nat /\ got \in Nat
  /\ outcome # "panic"
  /\ ReadsWithinFrame

\* An agent that only asks for 0x80 never panics on a data frame, and never
\* reads a field outside it.
THEOREM Frame80IsSafe ==
  ASSUME Kinds = {"80"}
  PROVE  FrameSpec => [](NoFramePanics /\ ReadsWithinFrame)
  <1>1. FrameInit => Inv
    BY FramesAssumption DEF FrameInit, Inv, ReadsWithinFrame
  <1>2. Inv /\ [FrameNext]_frameVars => Inv'
    <2> SUFFICES ASSUME Inv, [FrameNext]_frameVars PROVE Inv'
      OBVIOUS
    <2> USE DEF Inv
    <2>1. ASSUME NEW n \in 1 .. MaxSize + MaxExtra, Receive(n)
          PROVE  Inv'
      <3>1. UNCHANGED <<kind, size, outcome>> /\ got' = got + n /\ outcome = "receiving"
        BY <2>1 DEF Receive
      <3>2. got' \in Nat
        BY <3>1, FramesAssumption
      <3> QED BY <3>1, <3>2 DEF ReadsWithinFrame
    <2>2. CASE Parse
      <3>1. UNCHANGED <<kind, size, got>> /\ got >= size + 1
        BY <2>2 DEF Parse, Complete
      <3>2. Reads(kind, size) = Reads80(size)
        BY DEF Reads
      <3>3. \A offset \in Reads(kind, size) :
              offset \in Nat /\ (offset < Base \/ offset < size)
        BY <3>2, Reads80AreGuarded
      <3>4. CASE got - 1 < Base
        <4>1. outcome' = "short"
          BY <2>2, <3>4 DEF Parse
        <4> QED BY <3>1, <4>1 DEF ReadsWithinFrame
      <3>5. CASE ~(got - 1 < Base)
        <4>1. \A offset \in Reads(kind, size) : offset < got - 1
          BY <3>1, <3>3, <3>5 DEF Base
        <4>2. outcome' = "decoded"
          BY <2>2, <3>5, <4>1, Zenon DEF Parse
        <4>3. ReadsWithinFrame'
          BY <3>1, <3>3, Zenon DEF ReadsWithinFrame, Reads
        <4> QED BY <3>1, <4>2, <4>3
      <3> QED BY <3>4, <3>5
    <2>3. CASE UNCHANGED frameVars
      BY <2>3, Zenon DEF frameVars, ReadsWithinFrame, Reads
    <2> QED BY <2>1, <2>2, <2>3 DEF FrameNext
  <1>3. Inv => NoFramePanics /\ ReadsWithinFrame
    BY DEF Inv, NoFramePanics
  <1> QED BY <1>1, <1>2, <1>3, PTL DEF FrameSpec

\* Every offset read of a reply is one the length it is decoded from has.
LEMMA ReadsAreThere ==
  ASSUME NEW row \in Rows2J \cup Rows3
  PROVE  row.atLeast \in Nat /\ \A offset \in row.reads : offset \in Nat /\ offset < row.atLeast
  <1> DEFINE Fits(n, S) == n \in Nat /\ \A offset \in S : offset \in Nat /\ offset < n
  <1>1. /\ Fits(4, 2 .. 3) /\ Fits(6, 2 .. 5) /\ Fits(6, 4 .. 5) /\ Fits(3, {2})
        /\ Fits(12, {2, 3, 6, 7, 10, 11}) /\ Fits(12, {2, 3, 8, 9, 10, 11})
    OBVIOUS
  <1> HIDE DEF Fits
  <1>2. \E handler, header, n, S : row = Row(handler, header, n, S) /\ Fits(n, S)
    <2>1. CASE row \in Rows2J
      BY <1>1, <2>1, Zenon DEF Rows2J
    <2>2. CASE row \in Rows3
      BY <1>1, <2>2, Zenon DEF Rows3
    <2> QED BY <2>1, <2>2
  <1>3. PICK n, S : row.atLeast = n /\ row.reads = S /\ Fits(n, S)
    BY <1>2 DEF Row
  <1> QED BY <1>3 DEF Fits

\* What is inductive about the replies.
RepliesInv ==
  /\ reply \in Rows2J \cup Rows3 /\ length \in Nat
  /\ NoReplyPanics

\* No reply of MEMS 2J or MEMS 3 to one of the value requests takes the agent
\* down, whatever length from two bytes on its frame announces.  A reply of one
\* byte is outside: 58 alone panics, mems3.go:424.
THEOREM RepliesAreSafe == MCFairSpec => []NoReplyPanics
  <1>1. MCInit => RepliesInv
    <2>1. KwpInit => RepliesInv
      BY DEF KwpInit, RepliesInv, NoReplyPanics
    <2> QED BY <2>1 DEF MCInit
  <1>2. RepliesInv /\ [MCNext]_<<part, vars, frameVars, kwpVars, keyVars>> => RepliesInv'
    <2> SUFFICES ASSUME RepliesInv, [MCNext]_<<part, vars, frameVars, kwpVars, keyVars>>
                 PROVE  RepliesInv'
      OBVIOUS
    <2>1. CASE ParseReply
      <3>1. /\ reply.atLeast \in Nat /\ length \in Nat
            /\ \A offset \in reply.reads : offset \in Nat /\ offset < reply.atLeast
        BY ReadsAreThere DEF RepliesInv
      <3>2. length >= reply.atLeast => \A offset \in reply.reads : offset < length
        BY <3>1
      <3>3. decoded' # "panic" /\ UNCHANGED <<reply, length>>
        BY <2>1, <3>1, <3>2 DEF ParseReply
      <3> QED BY <3>3 DEF RepliesInv, NoReplyPanics
    <2>2. CASE UNCHANGED kwpVars
      BY <2>2 DEF kwpVars, RepliesInv, NoReplyPanics
    <2> QED BY <2>1, <2>2 DEF MCNext
  <1>3. RepliesInv => NoReplyPanics
    BY DEF RepliesInv
  <1> QED BY <1>1, <1>2, <1>3, PTL DEF MCFairSpec

(***************************************************************************)
(* The security key.  First, that the recursive functions it is made of    *)
(* exist.                                                                  *)
(***************************************************************************)

\* A set of numbers that has any has a least one.
LEMMA LeastElement ==
  ASSUME NEW T \in SUBSET Nat, T # {}
  PROVE  \E m \in T : \A n \in T : m <= n
<1>1. \E m \in T : \A n \in T : <<n, m>> \notin OpToRel(<, Nat)
  BY NatLessThanWellFounded, WFMin
<1>2. PICK m \in T : \A n \in T : <<n, m>> \notin OpToRel(<, Nat)
  BY <1>1
<1>3. \A n \in T : <<n, m>> \in Nat \X Nat
  OBVIOUS
<1>4. \A n \in T : ~(n < m)
  BY <1>2, <1>3 DEF OpToRel
<1>5. \A n \in T : m <= n
  BY <1>4
<1> QED
  BY <1>5

\* Induction, on the set of numbers a statement holds of.
LEMMA Induction ==
  ASSUME NEW S, 0 \in S, \A n \in Nat : n \in S => n + 1 \in S
  PROVE  \A n \in Nat : n \in S
<1>1. SUFFICES ASSUME Nat \ S # {} PROVE FALSE
  OBVIOUS
<1>2. PICK m \in Nat \ S : \A n \in Nat \ S : m <= n
  BY <1>1, LeastElement
<1>3. m - 1 \in Nat /\ m - 1 \in S
  BY <1>2
<1> QED
  BY <1>2, <1>3

\* b[n] is the n-th of the values that f leads to from b[0].
Follows(b, start, f, N) ==
  b = [n \in 0 .. N |-> IF n = 0 THEN start ELSE f[n - 1][b[n - 1]]]

\* There is such a function, of any length.
LEMMA RecursionExists ==
  ASSUME NEW S, NEW start \in S, NEW f \in [Nat -> [S -> S]], NEW N \in Nat
  PROVE  \E b \in [0 .. N -> S] : Follows(b, start, f, N)
<1> DEFINE T == {n \in Nat : \E b \in [0 .. n -> S] : Follows(b, start, f, n)}
<1>1. 0 \in T
  <2>1. [n \in 0 .. 0 |-> start] \in [0 .. 0 -> S]
    OBVIOUS
  <2>2. Follows([n \in 0 .. 0 |-> start], start, f, 0)
    BY DEF Follows
  <2> QED BY <2>1, <2>2
<1>2. ASSUME NEW n \in T PROVE n + 1 \in T
  <2>1. PICK b \in [0 .. n -> S] : Follows(b, start, f, n)
    OBVIOUS
  <2> DEFINE c == [k \in 0 .. n + 1 |-> IF k = n + 1 THEN f[n][b[n]] ELSE b[k]]
  <2>2. c \in [0 .. n + 1 -> S]
    OBVIOUS
  <2>3. ASSUME NEW k \in 0 .. n + 1
        PROVE  c[k] = IF k = 0 THEN start ELSE f[k - 1][c[k - 1]]
    <3>1. CASE k = n + 1
      BY <3>1
    <3>2. CASE k \in 0 .. n
      <4>1. b[k] = IF k = 0 THEN start ELSE f[k - 1][b[k - 1]]
        BY <2>1, <3>2 DEF Follows
      <4> QED BY <3>2, <4>1
    <3> QED BY <3>1, <3>2
  <2>4. Follows(c, start, f, n + 1)
    <3> HIDE DEF c
    <3> QED BY <2>2, <2>3 DEF Follows
  <2> QED BY <2>2, <2>4
<1>3. N \in T
  <2>1. \A n \in Nat : n \in T => n + 1 \in T
    BY <1>2, Zenon
  <2> HIDE DEF T
  <2> QED BY <1>1, <2>1, Induction
<1> QED BY <1>3

(***************************************************************************)
(* Bits of a word                                                          *)
(***************************************************************************)

\* A bit is 0 or 1.
LEMMA BitIsBit ==
  ASSUME NEW w \in Int, NEW i \in 0 .. 15
  PROVE  Bit(i, w) \in {0, 1} /\ Bits(w)[i] = Bit(i, w)
<1>1. Bit(i, w) \in {0, 1}
  <2>1. CASE i \in 0 .. 7
    BY <2>1, SMT DEF Bit
  <2>2. CASE i \in 8 .. 15
    BY <2>2, SMT DEF Bit
  <2> QED BY <2>1, <2>2, SMT
<1> QED
  BY <1>1 DEF Bits, Bit

\* r is w shifted right, with its lowest bit set to low and its highest to high.
Shifts(w, low, high, r) == r = 2 * (w \div 4) + low + 32768 * high

\* What its bits are.
HasShifted(w, low, high, r) ==
  /\ r \in Word
  /\ Bit(0, r) = low
  /\ \A i \in 1 .. 14 : Bit(i, r) = Bit(i + 1, w)
  /\ Bit(15, r) = high

LEMMA ShiftedWord ==
  ASSUME NEW w \in Int, 0 <= w, w <= 65535,
         NEW low \in Int, 0 <= low, low <= 1,
         NEW high \in Int, 0 <= high, high <= 1,
         NEW r \in Int, Shifts(w, low, high, r)
  PROVE  HasShifted(w, low, high, r)
<1>1. r \in Word /\ Bit(0, r) = low /\ Bit(15, r) = high
  <2>1. 0 <= r /\ r <= 65535
    BY SMT DEF Shifts
  <2>2. Bit(0, r) = low
    BY SMT DEF Shifts, Bit
  <2>3. Bit(15, r) = high
    BY SMT DEF Shifts, Bit
  <2> QED BY <2>1, <2>2, <2>3 DEF Word
<1>2. Bit(1, r) = Bit(2, w)
  BY SMT DEF Shifts, Bit
<1>3. Bit(2, r) = Bit(3, w)
  BY SMT DEF Shifts, Bit
<1>4. Bit(3, r) = Bit(4, w)
  BY SMT DEF Shifts, Bit
<1>5. Bit(4, r) = Bit(5, w)
  BY SMT DEF Shifts, Bit
<1>6. Bit(5, r) = Bit(6, w)
  BY SMT DEF Shifts, Bit
<1>7. Bit(6, r) = Bit(7, w)
  BY SMT DEF Shifts, Bit
<1>8. Bit(7, r) = Bit(8, w)
  BY SMT DEF Shifts, Bit
<1>9. Bit(8, r) = Bit(9, w)
  BY SMT DEF Shifts, Bit
<1>10. Bit(9, r) = Bit(10, w)
  BY SMT DEF Shifts, Bit
<1>11. Bit(10, r) = Bit(11, w)
  BY SMT DEF Shifts, Bit
<1>12. Bit(11, r) = Bit(12, w)
  BY SMT DEF Shifts, Bit
<1>13. Bit(12, r) = Bit(13, w)
  BY SMT DEF Shifts, Bit
<1>14. Bit(13, r) = Bit(14, w)
  BY SMT DEF Shifts, Bit
<1>15. Bit(14, r) = Bit(15, w)
  BY SMT DEF Shifts, Bit
<1>16. ASSUME NEW i \in 1 .. 14 PROVE Bit(i, r) = Bit(i + 1, w)
  BY <1>2, <1>3, <1>4, <1>5, <1>6, <1>7, <1>8, <1>9, <1>10, <1>11, <1>12, <1>13, <1>14, <1>15, SMT
<1> QED
  BY <1>1, <1>16 DEF HasShifted

\* The four bits that are fed back.
Xors(w) == (Bit(9, w) + Bit(8, w) + Bit(2, w) + Bit(1, w)) % 2

\* The lowest bit of the next word.
Low(w) == IF Bit(13, w) = 1 /\ Bit(3, w) = 1 THEN 0 ELSE 1

\* A round is a step of the firmware's shift register.
LEMMA RoundIsScramble ==
  ASSUME NEW w \in Word
  PROVE  Round(w) \in Word /\ Bits(Round(w)) = Scramble(Bits(w))
<1> DEFINE r == Round(w)
           b == Bits(w)
<1>1. w \in Int /\ 0 <= w /\ w <= 65535
  BY DEF Word
<1>2. \A i \in 0 .. 15 : b[i] = Bit(i, w) /\ Bit(i, w) \in {0, 1}
  BY <1>1, BitIsBit
<1>3. /\ Xors(w) \in Int /\ 0 <= Xors(w) /\ Xors(w) <= 1
      /\ Low(w) \in Int /\ 0 <= Low(w) /\ Low(w) <= 1
  BY <1>2, SMT DEF Xors, Low
<1>4. \A v \in Int : (v \div 2) - ((v \div 2) % 2) = 2 * (v \div 4)
  BY SMT
<1>5. Shifts(w, Low(w), Xors(w), r)
  BY <1>1, <1>4 DEF Round, Low, Xors, Shifts
<1>6. r \in Int
  BY <1>1, <1>3, <1>5, SMT DEF Shifts
<1> HIDE DEF r, b
<1>7. HasShifted(w, Low(w), Xors(w), r)
  BY <1>1, <1>3, <1>5, <1>6, ShiftedWord, SMT
<1>8. Low(w) = 1 - b[13] * b[3]
  <2>1. b[13] = Bit(13, w) /\ b[3] = Bit(3, w) /\ b[13] \in {0, 1} /\ b[3] \in {0, 1}
    BY <1>2
  <2>2. CASE b[13] = 0
    BY <2>1, <2>2 DEF Low
  <2>3. CASE b[13] = 1
    BY <2>1, <2>3 DEF Low
  <2> QED BY <2>1, <2>2, <2>3
<1>9. Xors(w) = (b[9] + b[8] + b[2] + b[1]) % 2
  BY <1>2 DEF Xors
<1>10. ASSUME NEW i \in 0 .. 15
       PROVE  Bits(r)[i] = Scramble(b)[i]
  <2>1. Bits(r)[i] = Bit(i, r)
    BY <1>6, BitIsBit
  <2>2. CASE i = 0
    BY <1>7, <1>8, <2>1, <2>2 DEF Scramble, HasShifted
  <2>3. CASE i = 15
    BY <1>7, <1>9, <2>1, <2>3 DEF Scramble, HasShifted
  <2>4. CASE i \in 1 .. 14
    <3>1. i + 1 \in 0 .. 15 /\ Scramble(b)[i] = b[i + 1]
      BY <2>4 DEF Scramble
    <3> QED BY <1>2, <1>7, <2>1, <2>4, <3>1 DEF HasShifted
  <2> QED BY <2>2, <2>3, <2>4
<1>11. Bits(r) = Scramble(b)
  BY <1>10 DEF Bits, Scramble
<1> QED
  BY <1>7, <1>11 DEF r, b, HasShifted

\* The part of a word that its bits from n on make up.
Part(n, w) == 2^n * (w \div 2^n)

\* It is that of bit n and of the bits after it.
LEMMA BitsAddUp ==
  ASSUME NEW w \in Word, NEW n \in 0 .. 15
  PROVE  Part(n, w) = Bit(n, w) * 2^n + Part(n + 1, w) /\ Part(n + 1, w) \in Int
<1>0. w \in Int /\ 0 <= w /\ w <= 65535
  BY DEF Word
<1>1. CASE n = 0
  BY <1>0, <1>1, SMT DEF Part, Bit
<1>2. CASE n = 1
  BY <1>0, <1>2, SMT DEF Part, Bit
<1>3. CASE n = 2
  BY <1>0, <1>3, SMT DEF Part, Bit
<1>4. CASE n = 3
  BY <1>0, <1>4, SMT DEF Part, Bit
<1>5. CASE n = 4
  BY <1>0, <1>5, SMT DEF Part, Bit
<1>6. CASE n = 5
  BY <1>0, <1>6, SMT DEF Part, Bit
<1>7. CASE n = 6
  BY <1>0, <1>7, SMT DEF Part, Bit
<1>8. CASE n = 7
  BY <1>0, <1>8, SMT DEF Part, Bit
<1>9. CASE n = 8
  BY <1>0, <1>9, SMT DEF Part, Bit
<1>10. CASE n = 9
  BY <1>0, <1>10, SMT DEF Part, Bit
<1>11. CASE n = 10
  BY <1>0, <1>11, SMT DEF Part, Bit
<1>12. CASE n = 11
  BY <1>0, <1>12, SMT DEF Part, Bit
<1>13. CASE n = 12
  BY <1>0, <1>13, SMT DEF Part, Bit
<1>14. CASE n = 13
  BY <1>0, <1>14, SMT DEF Part, Bit
<1>15. CASE n = 14
  BY <1>0, <1>15, SMT DEF Part, Bit
<1>16. CASE n = 15
  BY <1>0, <1>16, SMT DEF Part, Bit
<1> QED
  BY <1>1, <1>2, <1>3, <1>4, <1>5, <1>6, <1>7, <1>8, <1>9,
     <1>10, <1>11, <1>12, <1>13, <1>14, <1>15, <1>16, SMT

\* The value of a word's bits is the word.
LEMMA ValueOfBits ==
  ASSUME NEW w \in Word
  PROVE  Value(Bits(w)) = w
<1> DEFINE b == Bits(w)
           Weight(n) == b[n] * 2^n
           Sum(s) == s = [n \in 0 .. 16 |-> IF n = 0 THEN 0 ELSE s[n - 1] + Weight(n - 1)]
<1>1. w \in Int /\ 0 <= w /\ w <= 65535
  BY DEF Word
<1>2. \A n \in 0 .. 15 : Weight(n) \in Int
  <2> SUFFICES ASSUME NEW n \in 0 .. 15 PROVE b[n] * 2^n \in Int
    OBVIOUS
  <2>1. b[n] \in Int /\ 2^n \in Int
    BY <1>1, BitIsBit
  <2> QED BY <2>1
<1>3. \A n \in 0 .. 15 : b[n] = Bit(n, w)
  BY <1>1, BitIsBit
<1>4. \A n \in 0 .. 15 : Part(n, w) = Weight(n) + Part(n + 1, w) /\ Part(n + 1, w) \in Int
  <2> SUFFICES ASSUME NEW n \in 0 .. 15
               PROVE  Part(n, w) = Weight(n) + Part(n + 1, w) /\ Part(n + 1, w) \in Int
    OBVIOUS
  <2>1. Weight(n) = Bit(n, w) * 2^n
    BY <1>3
  <2>2. Part(n, w) = Bit(n, w) * 2^n + Part(n + 1, w) /\ Part(n + 1, w) \in Int
    BY BitsAddUp, Zenon
  <2> HIDE DEF Weight, b
  <2> QED BY <2>1, <2>2, Zenon
<1>5. Part(0, w) = w /\ Part(16, w) = 0
  BY <1>1, SMT DEF Part
<1> HIDE DEF Weight
<1>6. \E s : Sum(s)
  <2> DEFINE Added(n) == IF n \in 0 .. 15 THEN Weight(n) ELSE 0
  <2>1. \A n \in Nat : Added(n) \in Int
    BY <1>2
  <2> HIDE DEF Added
  <2> DEFINE f == [n \in Nat |-> [x \in Int |-> x + Added(n)]]
  <2>2. f \in [Nat -> [Int -> Int]]
    BY <2>1
  <2> HIDE DEF f
  <2>3. PICK s \in [0 .. 16 -> Int] : Follows(s, 0, f, 16)
    <3>1. 0 \in Int /\ 16 \in Nat
      OBVIOUS
    <3> QED BY <2>2, <3>1, RecursionExists, Zenon
  <2>4. ASSUME NEW n \in 0 .. 16
        PROVE  s[n] = IF n = 0 THEN 0 ELSE s[n - 1] + Weight(n - 1)
    <3>1. s[n] = IF n = 0 THEN 0 ELSE f[n - 1][s[n - 1]]
      BY <2>3 DEF Follows
    <3>2. CASE n = 0
      BY <3>1, <3>2
    <3>3. CASE n # 0
      <4>1. n - 1 \in Nat /\ n - 1 \in 0 .. 15 /\ s[n - 1] \in Int
        BY <3>3
      <4>2. f[n - 1][s[n - 1]] = s[n - 1] + Weight(n - 1)
        BY <4>1 DEF f, Added
      <4> QED BY <3>1, <3>3, <4>2
    <3> QED BY <3>2, <3>3
  <2> QED BY <2>3, <2>4
<1> DEFINE sum == CHOOSE s : Sum(s)
<1>7. Sum(sum)
  BY <1>6, Zenon
<1>8. Value(b) = sum[16]
  BY DEF Value, Weight
<1> HIDE DEF b, sum
<1>9. sum[0] = 0
  BY <1>7
<1>10. \A n \in 0 .. 15 : sum[n + 1] = sum[n] + Weight(n)
  <2> SUFFICES ASSUME NEW n \in 0 .. 15 PROVE sum[n + 1] = sum[n] + Weight(n)
    OBVIOUS
  <2>1. n + 1 \in 0 .. 16 /\ n + 1 # 0 /\ (n + 1) - 1 = n
    OBVIOUS
  <2> QED BY <1>7, <2>1
<1> HIDE DEF Sum
<1> DEFINE T == {n \in Nat : n <= 16 => sum[n] \in Int /\ sum[n] + Part(n, w) = w}
<1>11. 0 \in T
  BY <1>1, <1>5, <1>9
<1>12. \A n \in Nat : n \in T => n + 1 \in T
  <2> SUFFICES ASSUME NEW n \in Nat, n \in T, n + 1 <= 16
               PROVE  sum[n + 1] \in Int /\ sum[n + 1] + Part(n + 1, w) = w
    OBVIOUS
  <2>1. n \in 0 .. 15
    OBVIOUS
  <2>2. /\ Weight(n) \in Int
        /\ sum[n + 1] = sum[n] + Weight(n)
        /\ Part(n, w) = Weight(n) + Part(n + 1, w) /\ Part(n + 1, w) \in Int
    BY <1>2, <1>4, <1>10, <2>1
  <2>3. sum[n] \in Int /\ sum[n] + Part(n, w) = w
    BY <2>1
  <2> QED BY <1>1, <2>2, <2>3
<1>13. 16 \in T
  <2> HIDE DEF T
  <2> QED BY <1>11, <1>12, Induction
<1>14. sum[16] = w
  BY <1>1, <1>5, <1>13
<1> QED
  BY <1>8, <1>14 DEF b

(***************************************************************************)
(* The key                                                                 *)
(***************************************************************************)

\* The values that GenerateKey's loop goes through.
AreKeys(value, key) ==
  key = [n \in 0 .. Loops(value) |-> IF n = 0 THEN value ELSE Round(key[n - 1])]

Keys(value) == CHOOSE key : AreKeys(value, key)

\* Those that the firmware's register goes through.
AreRegisters(value, reg) ==
  reg = [n \in 0 .. 16 |-> IF n = 0 THEN Bits(value) ELSE Scramble(reg[n - 1])]

Registers(value) == CHOOSE reg : AreRegisters(value, reg)

\* There is a number of rounds, which the firmware finds in the bits.
LEMMA LoopsInRange ==
  ASSUME NEW w \in Word
  PROVE  /\ Loops(w) \in 1 .. 16
         /\ Loops(w) = 1 + 8 * Bits(w)[15] + 4 * Bits(w)[7] + 2 * Bits(w)[4] + Bits(w)[0]
<1>1. \A i \in 0 .. 15 : Bit(i, w) \in {0, 1} /\ Bits(w)[i] = Bit(i, w)
  <2>1. w \in Int
    BY DEF Word
  <2> QED BY <2>1, BitIsBit
<1>2. /\ Bit(15, w) \in {0, 1} /\ Bit(7, w) \in {0, 1}
      /\ Bit(4, w) \in {0, 1} /\ Bit(0, w) \in {0, 1}
  BY <1>1
<1>3. Loops(w) \in 1 .. 16
  BY <1>2, SMT DEF Loops
<1> QED
  BY <1>1, <1>3 DEF Loops

\* The loop's values satisfy its equation.
LEMMA KeysExist ==
  ASSUME NEW value \in Word
  PROVE  AreKeys(value, Keys(value))
<1>1. Loops(value) \in Nat
  BY LoopsInRange
<1> DEFINE f == [n \in Nat |-> [w \in Word |-> Round(w)]]
<1>2. f \in [Nat -> [Word -> Word]]
  BY RoundIsScramble
<1> HIDE DEF f
<1>3. PICK key \in [0 .. Loops(value) -> Word] : Follows(key, value, f, Loops(value))
  BY <1>1, <1>2, RecursionExists
<1>4. ASSUME NEW n \in 0 .. Loops(value)
      PROVE  key[n] = IF n = 0 THEN value ELSE Round(key[n - 1])
  <2>1. key[n] = IF n = 0 THEN value ELSE f[n - 1][key[n - 1]]
    BY <1>3 DEF Follows
  <2>2. CASE n # 0
    <3>1. n - 1 \in Nat /\ key[n - 1] \in Word
      BY <1>1, <2>2
    <3> QED BY <2>1, <2>2, <3>1 DEF f
  <2> QED BY <2>1, <2>2
<1>5. AreKeys(value, key)
  BY <1>3, <1>4 DEF AreKeys
<1> QED
  BY <1>5, Zenon DEF Keys

\* So do the register's.
LEMMA RegistersExist ==
  ASSUME NEW value \in Word
  PROVE  AreRegisters(value, Registers(value))
<1> DEFINE S == [0 .. 15 -> Int]
           f == [n \in Nat |-> [b \in S |-> Scramble(b)]]
<1>1. Bits(value) \in S
  <2>1. \A i \in 0 .. 15 : Bits(value)[i] \in Int
    <3>1. value \in Int
      BY DEF Word
    <3> QED BY <3>1, BitIsBit
  <2> QED BY <2>1 DEF Bits
<1>2. \A b \in S : Scramble(b) \in S
  <2> SUFFICES ASSUME NEW b \in S PROVE Scramble(b) \in S
    OBVIOUS
  <2>1. /\ b[9] \in Int /\ b[8] \in Int /\ b[2] \in Int /\ b[1] \in Int
        /\ b[13] \in Int /\ b[3] \in Int
    OBVIOUS
  <2>2. (b[9] + b[8] + b[2] + b[1]) % 2 \in Int /\ 1 - b[13] * b[3] \in Int
    BY <2>1, SMT
  <2>3. \A i \in 1 .. 14 : b[i + 1] \in Int
    OBVIOUS
  <2> QED BY <2>2, <2>3 DEF Scramble
<1>3. f \in [Nat -> [S -> S]]
  BY <1>2
<1> HIDE DEF f, S
<1>4. PICK reg \in [0 .. 16 -> S] : Follows(reg, Bits(value), f, 16)
  <2>1. 16 \in Nat
    OBVIOUS
  <2> QED BY <1>1, <1>3, <2>1, RecursionExists, Zenon
<1>5. ASSUME NEW n \in 0 .. 16
      PROVE  reg[n] = IF n = 0 THEN Bits(value) ELSE Scramble(reg[n - 1])
  <2>1. reg[n] = IF n = 0 THEN Bits(value) ELSE f[n - 1][reg[n - 1]]
    BY <1>4 DEF Follows
  <2>2. CASE n # 0
    <3>1. n - 1 \in Nat /\ reg[n - 1] \in S
      BY <2>2
    <3> QED BY <2>1, <2>2, <3>1 DEF f
  <2> QED BY <2>1, <2>2
<1>6. AreRegisters(value, reg)
  BY <1>4, <1>5 DEF AreRegisters
<1> QED
  BY <1>6, Zenon DEF Registers

\* Round for round, the loop holds what the firmware's register does.
KeyInv ==
  /\ asked \in Word /\ seed \in Word /\ loops \in 0 .. Loops(asked)
  /\ seed = Keys(asked)[Loops(asked) - loops]
  /\ Bits(seed) = Registers(asked)[Loops(asked) - loops]

LEMMA KeyStarts ==
  ASSUME NEW value \in Word, KeyStart(value)
  PROVE  KeyInv
<1>1. asked = value /\ seed = value /\ loops = Loops(value) /\ Loops(value) \in 1 .. 16
  BY LoopsInRange DEF KeyStart
<1>2. Loops(asked) - loops = 0 /\ 0 \in 0 .. Loops(value)
  BY <1>1
<1>3. Keys(value)[0] = value
  BY <1>2, KeysExist DEF AreKeys
<1>4. Registers(value)[0] = Bits(value)
  BY RegistersExist DEF AreRegisters
<1> QED
  BY <1>1, <1>2, <1>3, <1>4 DEF KeyInv

LEMMA MixKeepsKey ==
  ASSUME KeyInv, Mix
  PROVE  KeyInv'
<1>1. /\ asked' = asked /\ seed' = Round(seed) /\ loops' = loops - 1 /\ loops > 0
      /\ asked \in Word /\ seed \in Word /\ loops \in 0 .. Loops(asked)
      /\ Loops(asked) \in 1 .. 16
  BY LoopsInRange DEF KeyInv, Mix
<1> DEFINE n == Loops(asked) - loops
<1>2. /\ n + 1 = Loops(asked) - (loops - 1) /\ (n + 1) - 1 = n /\ n + 1 # 0
      /\ n + 1 \in 0 .. Loops(asked) /\ n + 1 \in 0 .. 16
  BY <1>1
<1>3. seed = Keys(asked)[n] /\ Bits(seed) = Registers(asked)[n]
  BY DEF KeyInv
<1> HIDE DEF n
<1>4. Keys(asked)[n + 1] = Round(seed)
  <2>1. Keys(asked)[n + 1] = Round(Keys(asked)[(n + 1) - 1])
    BY <1>1, <1>2, KeysExist DEF AreKeys
  <2> QED BY <1>2, <1>3, <2>1
<1>5. Registers(asked)[n + 1] = Scramble(Bits(seed))
  BY <1>1, <1>2, <1>3, RegistersExist DEF AreRegisters
<1>6. Round(seed) \in Word /\ Bits(Round(seed)) = Scramble(Bits(seed))
  BY <1>1, RoundIsScramble
<1>7. loops - 1 \in 0 .. Loops(asked)
  BY <1>1
<1> QED
  BY <1>1, <1>2, <1>4, <1>5, <1>6, <1>7 DEF KeyInv

\* The key computed is the one the firmware computes, for every seed of two
\* bytes: the loop that GenerateKey makes of a seed is the ECU's register.
THEOREM KeysAreTheEcus == MCFairSpec => []KeyIsTheEcus
<1>1. MCInit => KeyInv
  <2> SUFFICES ASSUME MCInit PROVE KeyInv
    OBVIOUS
  <2>1. PICK value \in Word : KeyStart(value)
    <3>1. 0 \in Word
      BY DEF Word
    <3> QED BY <3>1, SeedsAssumption DEF MCInit
  <2> QED BY <2>1, KeyStarts
<1>2. KeyInv /\ [MCNext]_<<part, vars, frameVars, kwpVars, keyVars>> => KeyInv'
  <2> SUFFICES ASSUME KeyInv, [MCNext]_<<part, vars, frameVars, kwpVars, keyVars>>
               PROVE  KeyInv'
    OBVIOUS
  <2>1. CASE Mix
    BY <2>1, MixKeepsKey
  <2>2. CASE UNCHANGED keyVars
    BY <2>2 DEF keyVars, KeyInv
  <2> QED BY <2>1, <2>2 DEF MCNext
<1>3. KeyInv => KeyIsTheEcus
  <2> SUFFICES ASSUME KeyInv, loops = 0
               PROVE  seed = EcuKey(asked) /\ seed = GenerateKey(asked)
    BY DEF KeyIsTheEcus
  <2>1. /\ asked \in Word /\ seed \in Word /\ Loops(asked) \in 1 .. 16
        /\ Loops(asked) - loops = Loops(asked)
    BY LoopsInRange DEF KeyInv
  <2>2. seed = Keys(asked)[Loops(asked)] /\ Bits(seed) = Registers(asked)[Loops(asked)]
    BY <2>1 DEF KeyInv
  <2>3. GenerateKey(asked) = Keys(asked)[Loops(asked)]
    BY DEF GenerateKey, Keys, AreKeys
  <2>4. EcuKey(asked) = Value(Registers(asked)[Loops(asked)])
    BY <2>1, LoopsInRange, Zenon DEF EcuKey, Registers, AreRegisters
  <2> QED BY <2>1, <2>2, <2>3, <2>4, ValueOfBits
<1> QED
  BY <1>1, <1>2, <1>3, PTL DEF MCFairSpec
=============================================================================
