-------------------------- MODULE Images_proofs ---------------------------
(***************************************************************************)
(* The two image stores, for any images, chunk lengths and limits: an      *)
(* upload never buffers more than the limits, and a patient phone's        *)
(* listeners only ever see one whole picture under its own id, which       *)
(* is what ImageStore promises.  Both rest on what the byte count of an    *)
(* upload says of the chunks it holds, so the lemmas are about sums.       *)
(***************************************************************************)
EXTENDS MCCompanion, FiniteSetTheorems, WellFoundedInduction, TLAPS

(***************************************************************************)
(* Sums over sets of chunks                                                *)
(***************************************************************************)

\* A set of numbers that has any has a least one.
LEMMA LeastElement ==
  ASSUME NEW T \in SUBSET Nat, T # {}
  PROVE  \E m \in T : \A n \in T : m <= n
<1>1. \E m \in T : \A n \in T : <<n, m>> \notin OpToRel(<, Nat)
  BY NatLessThanWellFounded, WFMin
<1>2. PICK m \in T : \A n \in T : <<n, m>> \notin OpToRel(<, Nat)
  BY <1>1
<1>3. \A n \in T : <<n, m>> \in Nat \X Nat
  OBVIOUS
<1>4. \A n \in T : ~(n < m)
  BY <1>2, <1>3 DEF OpToRel
<1>5. \A n \in T : m <= n
  BY <1>4
<1> QED
  BY <1>5

\* Induction, on the set of numbers a statement holds of.
LEMMA Induction ==
  ASSUME NEW S, 0 \in S, \A n \in Nat : n \in S => n + 1 \in S
  PROVE  \A n \in Nat : n \in S
<1>1. SUFFICES ASSUME Nat \ S # {} PROVE FALSE
  OBVIOUS
<1>2. PICK m \in Nat \ S : \A n \in Nat \ S : m <= n
  BY <1>1, LeastElement
<1>3. m - 1 \in Nat /\ m - 1 \in S
  BY <1>2
<1> QED
  BY <1>2, <1>3

\* Every chunk of every image.
AllChunks == UNION {Chunks(i) : i \in Images}

\* A chunk has a length, and an image a finite number of chunks.
LEMMA SizeIsPositive ==
  ASSUME NEW c \in AllChunks
  PROVE  Size(c) \in Nat /\ Size(c) > 0
<1>1. PICK i \in Images : c \in Chunks(i)
  BY DEF AllChunks
<1>2. PICK n \in 1 .. Count(i) : c = <<i, n>>
  BY <1>1 DEF Chunks
<1>3. Lengths[i] \in Seq(Nat \ {0}) /\ n \in 1 .. Len(Lengths[i])
  BY <1>2, ImagesAssumption DEF Count
<1>4. Lengths[i][n] \in Nat \ {0}
  BY <1>3
<1> QED
  BY <1>2, <1>4 DEF Size

\* The chunk that the sum takes first.
First(s) == CHOOSE x \in s : TRUE

\* g[s] is the sum of s, for every s within S, in the order First takes them.
IsSum(g, S) ==
  \A s \in SUBSET S : g[s] = IF s = {} THEN 0 ELSE Size(First(s)) + g[s \ {First(s)}]

\* It is one of them.
LEMMA FirstIsIn == \A s : s # {} => First(s) \in s
BY DEF First

\* The sets within S of each size.
LEMMA SumsExist ==
  ASSUME NEW S, IsFiniteSet(S), S \subseteq AllChunks
  PROVE  \E g \in [SUBSET S -> Nat] : IsSum(g, S)
<1> DEFINE Upto(k) == {s \in SUBSET S : Cardinality(s) <= k}
           Sums(g, k) == \A s \in Upto(k) :
             g[s] = IF s = {} THEN 0 ELSE Size(First(s)) + g[s \ {First(s)}]
           Done == {k \in Nat : \E g \in [Upto(k) -> Nat] : Sums(g, k)}
<1>1. \A s \in SUBSET S : IsFiniteSet(s) /\ Cardinality(s) \in Nat
  BY FS_Subset, FS_CardinalityType
<1>2. \A s \in SUBSET S : s # {} =>
        /\ s \ {First(s)} \in SUBSET S
        /\ Cardinality(s \ {First(s)}) = Cardinality(s) - 1
        /\ Size(First(s)) \in Nat
  BY <1>1, FirstIsIn, FS_RemoveElement, SizeIsPositive
<1>3. 0 \in Done
  <2> DEFINE g == [s \in Upto(0) |-> 0]
  <2>1. \A s \in Upto(0) : s = {}
    BY <1>1, FS_EmptySet
  <2>2. g \in [Upto(0) -> Nat] /\ \A s \in Upto(0) : g[s] = 0
    OBVIOUS
  <2> QED
    BY <2>1, <2>2
<1>4. ASSUME NEW k \in Nat, k \in Done PROVE k + 1 \in Done
  <2>1. PICK g \in [Upto(k) -> Nat] : Sums(g, k)
    BY <1>4
  <2> DEFINE h == [s \in Upto(k + 1) |->
                     IF s = {} THEN 0 ELSE Size(First(s)) + g[s \ {First(s)}]]
  <2>2. \A s \in Upto(k + 1) : s # {} => s \ {First(s)} \in Upto(k)
    BY <1>1, <1>2
  <2>3. h \in [Upto(k + 1) -> Nat]
    BY <1>2, <2>1, <2>2
  <2>4. \A s \in Upto(k) : s \in Upto(k + 1) /\ h[s] = g[s]
    BY <1>1, <2>1
  <2>5. Sums(h, k + 1)
    BY <2>2, <2>4
  <2> HIDE DEF h, Sums, Upto
  <2>6. k + 1 \in Nat
    OBVIOUS
  <2> QED
    BY <2>3, <2>5, <2>6, Zenon
<1>5. \A k \in Nat : k \in Done
  <2> HIDE DEF Done
  <2> QED
    BY <1>3, <1>4, Induction
<1>6. Cardinality(S) \in Nat /\ \A s \in SUBSET S : Cardinality(s) <= Cardinality(S)
  BY FS_Subset, FS_CardinalityType
<1>7. Upto(Cardinality(S)) = SUBSET S
  BY <1>6
<1>8. Cardinality(S) \in Done
  BY <1>5, <1>6
<1> QED
  BY <1>7, <1>8 DEF IsSum

\* There is one sum only.
LEMMA SumsAgree ==
  ASSUME NEW S, IsFiniteSet(S), NEW g, NEW h, IsSum(g, S), IsSum(h, S)
  PROVE  \A s \in SUBSET S : g[s] = h[s]
<1> DEFINE Agree == {k \in Nat : \A s \in SUBSET S : Cardinality(s) = k => g[s] = h[s]}
<1>1. \A s \in SUBSET S : IsFiniteSet(s) /\ Cardinality(s) \in Nat
  BY FS_Subset, FS_CardinalityType
<1>2. \A s \in SUBSET S : s # {} =>
        /\ s \ {First(s)} \in SUBSET S
        /\ Cardinality(s \ {First(s)}) = Cardinality(s) - 1
  BY <1>1, FirstIsIn, FS_RemoveElement
<1>3. 0 \in Agree
  BY <1>1, FS_EmptySet DEF IsSum
<1>4. ASSUME NEW k \in Nat, k \in Agree PROVE k + 1 \in Agree
  <2> SUFFICES ASSUME NEW s \in SUBSET S, Cardinality(s) = k + 1 PROVE g[s] = h[s]
    OBVIOUS
  <2>1. s # {}
    BY FS_EmptySet
  <2>2. Cardinality(s \ {First(s)}) = k /\ s \ {First(s)} \in SUBSET S
    BY <1>2, <2>1
  <2>3. g[s \ {First(s)}] = h[s \ {First(s)}]
    BY <1>4, <2>2
  <2> QED
    BY <2>1, <2>3 DEF IsSum
<1>5. \A k \in Nat : k \in Agree
  <2> HIDE DEF Agree
  <2> QED
    BY <1>3, <1>4, Induction
<1> QED
  BY <1>1, <1>5

\* What the library's fold computes.
LEMMA SizeOfIs ==
  ASSUME NEW S, IsFiniteSet(S), S \subseteq AllChunks
  PROVE  \A g : IsSum(g, S) => SizeOf(S) = g[S]
<1> DEFINE Iter(f) == f = [s \in SUBSET S |-> IF s = {} THEN 0
                             ELSE Size(CHOOSE x \in s : TRUE)
                                    + f[s \ {CHOOSE x \in s : TRUE}]]
<1>1. SizeOf(S) = (CHOOSE f : Iter(f))[S]
  BY DEF SizeOf, MapThenSumSet, MapThenFoldSet
<1>2. PICK h \in [SUBSET S -> Nat] : IsSum(h, S)
  BY SumsExist
<1>3. Iter(h)
  BY <1>2 DEF IsSum, First
<1> HIDE DEF Iter
<1>4. PICK f : f = CHOOSE e : Iter(e)
  OBVIOUS
<1>5. Iter(f)
  BY <1>3, <1>4
<1>6. IsSum(f, S)
  BY <1>5 DEF IsSum, First, Iter
<1>7. \A g : IsSum(g, S) => f[S] = g[S]
  BY <1>6, SumsAgree
<1> QED
  BY <1>1, <1>4, <1>7

\* A sum within S is a sum within a part of S.
LEMMA SumsRestrict ==
  ASSUME NEW S, NEW T \in SUBSET S, NEW g, IsSum(g, S)
  PROVE  IsSum(g, T)
BY DEF IsSum

\* Nothing has size zero; whatever is taken first, the sum is the same.
LEMMA SizeOfTakesAny ==
  ASSUME NEW S, IsFiniteSet(S), S \subseteq AllChunks
  PROVE  /\ SizeOf(S) \in Nat
         /\ S = {} => SizeOf(S) = 0
         /\ \A x \in S : SizeOf(S) = Size(x) + SizeOf(S \ {x})
<1>1. PICK g \in [SUBSET S -> Nat] : IsSum(g, S)
  BY SumsExist
<1> DEFINE Order == {k \in Nat : \A s \in SUBSET S : Cardinality(s) = k =>
                     \A x \in s : g[s] = Size(x) + g[s \ {x}]}
<1>2. \A s \in SUBSET S : IsFiniteSet(s) /\ Cardinality(s) \in Nat
  BY FS_Subset, FS_CardinalityType
<1>3. \A s \in SUBSET S : \A x \in s :
        s \ {x} \in SUBSET S /\ Cardinality(s \ {x}) = Cardinality(s) - 1
  BY <1>2, FS_RemoveElement
<1>4. \A s \in SUBSET S : g[s] \in Nat /\ \A x \in s : Size(x) \in Nat
  BY <1>1, SizeIsPositive
<1>5. 0 \in Order
  BY <1>2, FS_EmptySet
<1>6. ASSUME NEW k \in Nat, k \in Order PROVE k + 1 \in Order
  <2> SUFFICES ASSUME NEW s \in SUBSET S, Cardinality(s) = k + 1, NEW x \in s
               PROVE  g[s] = Size(x) + g[s \ {x}]
    OBVIOUS
  <2>1. PICK f \in s : f = First(s)
    BY FirstIsIn
  <2>2. g[s] = Size(f) + g[s \ {f}]
    BY <1>1, <2>1 DEF IsSum
  <2>3. CASE x = f
    BY <2>2, <2>3
  <2>4. CASE x # f
    <3>1. /\ s \ {f} \in SUBSET S /\ Cardinality(s \ {f}) = k /\ x \in s \ {f}
          /\ s \ {x} \in SUBSET S /\ Cardinality(s \ {x}) = k /\ f \in s \ {x}
      <4>1. Cardinality(s \ {f}) = k + 1 - 1 /\ Cardinality(s \ {x}) = k + 1 - 1
        BY <1>3
      <4>2. k + 1 - 1 = k
        OBVIOUS
      <4> QED
        BY <2>4, <4>1, <4>2
    <3>2. g[s \ {f}] = Size(x) + g[(s \ {f}) \ {x}]
      BY <1>6, <3>1
    <3>3. g[s \ {x}] = Size(f) + g[(s \ {x}) \ {f}]
      BY <1>6, <3>1
    <3>4. (s \ {f}) \ {x} = (s \ {x}) \ {f}
      OBVIOUS
    <3>5. PICK r \in SUBSET S : r = (s \ {x}) \ {f}
      OBVIOUS
    <3>6. /\ Size(x) \in Nat /\ Size(f) \in Nat /\ g[r] \in Nat
          /\ g[s] = Size(f) + (Size(x) + g[r]) /\ g[s \ {x}] = Size(f) + g[r]
      BY <1>4, <2>2, <3>2, <3>3, <3>4, <3>5
    <3>7. Size(f) + (Size(x) + g[r]) = Size(x) + (Size(f) + g[r])
      BY <3>6
    <3> QED
      BY <3>6, <3>7
  <2> QED
    BY <2>3, <2>4
<1>7. \A k \in Nat : k \in Order
  <2> HIDE DEF Order
  <2> QED
    BY <1>5, <1>6, Induction
<1>8. SizeOf(S) = g[S]
  BY <1>1, SizeOfIs
<1>9. \A x \in S : SizeOf(S \ {x}) = g[S \ {x}]
  <2> TAKE x \in S
  <2>1. PICK T \in SUBSET S : T = S \ {x}
    OBVIOUS
  <2>2. IsFiniteSet(T) /\ T \subseteq AllChunks /\ IsSum(g, T)
    BY <1>1, <1>2, SumsRestrict
  <2>3. SizeOf(T) = g[T]
    BY <2>2, SizeOfIs
  <2> QED
    BY <2>1, <2>3
<1>10. \A x \in S : g[S] = Size(x) + g[S \ {x}]
  BY <1>2, <1>7
<1>11. S = {} => g[S] = 0
  BY <1>1 DEF IsSum
<1> QED
  BY <1>4, <1>8, <1>9, <1>10, <1>11

\* A chunk that is added adds its length.
LEMMA SizeOfAdd ==
  ASSUME NEW S, IsFiniteSet(S), S \subseteq AllChunks, NEW x \in AllChunks, x \notin S
  PROVE  /\ SizeOf(S) \in Nat /\ SizeOf(S \cup {x}) \in Nat
         /\ SizeOf(S \cup {x}) = SizeOf(S) + Size(x)
<1>1. PICK T : T = S \cup {x}
  OBVIOUS
<1>2. IsFiniteSet(T) /\ T \subseteq AllChunks /\ x \in T /\ T \ {x} = S
  BY <1>1, FS_AddElement
<1>3. SizeOf(T) = Size(x) + SizeOf(T \ {x}) /\ SizeOf(T) \in Nat
  BY <1>2, SizeOfTakesAny
<1>4. SizeOf(S) \in Nat /\ Size(x) \in Nat
  BY SizeOfTakesAny, SizeIsPositive
<1>5. SizeOf(T) = Size(x) + SizeOf(S)
  BY <1>2, <1>3
<1>6. SizeOf(T) = SizeOf(S) + Size(x)
  BY <1>4, <1>5
<1> QED
  BY <1>1, <1>3, <1>4, <1>6

\* A part is smaller than the whole by a byte at least for each missing chunk.
LEMMA SizeOfPart ==
  ASSUME NEW S, IsFiniteSet(S), S \subseteq AllChunks, NEW A \in SUBSET S
  PROVE  SizeOf(A) \in Nat /\ SizeOf(S) \in Nat /\ SizeOf(A) <= SizeOf(S)
         /\ (SizeOf(A) = SizeOf(S) => A = S)
<1> DEFINE Smaller == {k \in Nat : \A B \in SUBSET S : Cardinality(S \ B) = k =>
                         SizeOf(B) + k <= SizeOf(S)}
<1>1. \A B \in SUBSET S : /\ IsFiniteSet(B) /\ B \subseteq AllChunks /\ SizeOf(B) \in Nat
                          /\ IsFiniteSet(S \ B) /\ Cardinality(S \ B) \in Nat
  <2> TAKE B \in SUBSET S
  <2>1. IsFiniteSet(B) /\ B \subseteq AllChunks
    BY FS_Subset
  <2>2. SizeOf(B) \in Nat
    BY <2>1, SizeOfTakesAny
  <2>3. S \ B \in SUBSET S
    OBVIOUS
  <2>4. IsFiniteSet(S \ B)
    BY <2>3, FS_Subset
  <2>5. Cardinality(S \ B) \in Nat
    BY <2>4, FS_CardinalityType
  <2> QED
    BY <2>1, <2>2, <2>4, <2>5
<1>2. 0 \in Smaller
  <2> SUFFICES ASSUME NEW B \in SUBSET S, Cardinality(S \ B) = 0
               PROVE  SizeOf(B) + 0 <= SizeOf(S)
    OBVIOUS
  <2>1. S \ B = {}
    BY <1>1, FS_EmptySet
  <2>2. B = S
    BY <2>1
  <2>3. SizeOf(S) \in Nat
    BY <1>1
  <2> QED
    BY <2>2, <2>3
<1>3. ASSUME NEW k \in Nat, k \in Smaller PROVE k + 1 \in Smaller
  <2> SUFFICES ASSUME NEW B \in SUBSET S, Cardinality(S \ B) = k + 1
               PROVE  SizeOf(B) + (k + 1) <= SizeOf(S)
    OBVIOUS
  <2>1. S \ B # {}
    BY FS_EmptySet
  <2>2. PICK x \in S \ B : TRUE
    BY <2>1
  <2>3. PICK C \in SUBSET S : C = B \cup {x}
    BY <2>2
  <2>4. PICK D : D = S \ B
    OBVIOUS
  <2>5. IsFiniteSet(D) /\ Cardinality(D) = k + 1 /\ x \in D /\ S \ C = D \ {x}
    BY <1>1, <2>2, <2>3, <2>4
  <2>6. Cardinality(S \ C) = k
    <3>1. Cardinality(D \ {x}) = Cardinality(D) - 1
      BY <2>5, FS_RemoveElement
    <3>2. k + 1 - 1 = k
      OBVIOUS
    <3> QED
      BY <2>5, <3>1, <3>2
  <2>7. SizeOf(C) + k <= SizeOf(S)
    BY <1>3, <2>6
  <2>8. x \in AllChunks /\ x \notin B /\ IsFiniteSet(B) /\ B \subseteq AllChunks
    BY <1>1, <2>2
  <2>9. SizeOf(C) = SizeOf(B) + Size(x)
    BY <2>3, <2>8, SizeOfAdd
  <2>10. Size(x) \in Nat /\ Size(x) > 0 /\ SizeOf(B) \in Nat /\ SizeOf(S) \in Nat
    BY <1>1, <2>8, SizeIsPositive
  <2> QED
    BY <2>7, <2>9, <2>10
<1>4. \A k \in Nat : k \in Smaller
  <2> HIDE DEF Smaller
  <2> QED
    BY <1>2, <1>3, Induction
<1>5. PICK k \in Nat : k = Cardinality(S \ A)
  BY <1>1
<1>6. SizeOf(A) + k <= SizeOf(S)
  BY <1>4, <1>5
<1>7. SizeOf(A) \in Nat /\ SizeOf(S) \in Nat
  BY <1>1
<1>8. SizeOf(A) <= SizeOf(S) /\ (SizeOf(A) = SizeOf(S) => k = 0)
  BY <1>6, <1>7
<1>9. k = 0 => S \ A = {}
  BY <1>1, <1>5, FS_EmptySet
<1>10. S \ A = {} => A = S
  OBVIOUS
<1> QED
  BY <1>7, <1>8, <1>9, <1>10

(***************************************************************************)
(* What an upload holds                                                    *)
(***************************************************************************)

\* An image's chunks are finitely many.
LEMMA ChunksAreFinite ==
  ASSUME NEW i \in Images
  PROVE  IsFiniteSet(Chunks(i)) /\ Chunks(i) \subseteq AllChunks /\ Count(i) \in Nat
<1> DEFINE f == [n \in 1 .. Count(i) |-> <<i, n>>]
<1>1. Count(i) \in Nat
  BY ImagesAssumption DEF Count
<1>2. IsFiniteSet(1 .. Count(i))
  BY <1>1, FS_Interval
<1>3. f \in Surjection(1 .. Count(i), Chunks(i))
  BY DEF Surjection, Chunks
<1>4. IsFiniteSet(Chunks(i))
  BY <1>2, <1>3, FS_Surjection
<1> QED
  BY <1>1, <1>4 DEF AllChunks

\* The chunks of a buffer, a function from indexes to chunks.
Buffered(ch) == {ch[n] : n \in DOMAIN ch}

\* Every chunk lies under its own index.
IsBuffer(ch) ==
  /\ \A n \in DOMAIN ch : ch[n] \in AllChunks /\ ch[n][2] = n
  /\ IsFiniteSet(Buffered(ch))

\* Stored's change of the buffer, and Received's of the count.
Put(ch, c) == [n \in DOMAIN ch \cup {c[2]} |-> IF n = c[2] THEN c ELSE ch[n]]
Counted(ch, c) ==
  SizeOf(Buffered(ch)) + Size(c) - (IF c[2] \in DOMAIN ch THEN Size(ch[c[2]]) ELSE 0)

\* A chunk takes the place of the one that had its index, if any, and the count
\* stays what the chunks held come to.
LEMMA PutCounts ==
  ASSUME NEW ch, IsBuffer(ch), NEW c \in AllChunks
  PROVE  /\ IsBuffer(Put(ch, c))
         /\ DOMAIN Put(ch, c) = DOMAIN ch \cup {c[2]}
         /\ Buffered(Put(ch, c)) \subseteq Buffered(ch) \cup {c}
         /\ SizeOf(Buffered(Put(ch, c))) = Counted(ch, c)
         /\ SizeOf(Buffered(Put(ch, c))) \in Nat
<1> DEFINE put == Put(ch, c)
           old == Buffered(ch)
           rest == {ch[n] : n \in DOMAIN ch \ {c[2]}}
<1>1. /\ DOMAIN put = DOMAIN ch \cup {c[2]} /\ put[c[2]] = c
      /\ \A n \in DOMAIN ch : n # c[2] => put[n] = ch[n]
  BY DEF Put
<1>2. /\ \A n \in DOMAIN ch : ch[n] \in AllChunks /\ ch[n][2] = n
      /\ IsFiniteSet(old) /\ old \subseteq AllChunks
  BY DEF IsBuffer, Buffered
<1> HIDE DEF put
<1>3. Buffered(put) = rest \cup {c}
  BY <1>1 DEF Buffered
<1>4. c \notin rest
  BY <1>2
<1>5. rest \subseteq old
  BY DEF Buffered
<1>6. IsFiniteSet(rest) /\ rest \subseteq AllChunks
  BY <1>2, <1>5, FS_Subset
<1>7. IsFiniteSet(Buffered(put))
  BY <1>3, <1>6, FS_AddElement
<1>8. IsBuffer(put)
  BY <1>1, <1>2, <1>7 DEF IsBuffer
<1>9. /\ SizeOf(Buffered(put)) = SizeOf(rest) + Size(c)
      /\ SizeOf(Buffered(put)) \in Nat /\ SizeOf(rest) \in Nat
  BY <1>3, <1>4, <1>6, SizeOfAdd
<1>10. Size(c) \in Nat
  BY SizeIsPositive
<1>11. SizeOf(Buffered(put)) = Counted(ch, c)
  <2>1. CASE c[2] \in DOMAIN ch
    <3>1. PICK x \in AllChunks : x = ch[c[2]]
      BY <1>2, <2>1
    <3>2. x \in old /\ rest = old \ {x}
      BY <1>2, <2>1, <3>1 DEF Buffered
    <3>3. SizeOf(old) = Size(x) + SizeOf(rest) /\ Size(x) \in Nat
      BY <1>2, <3>2, SizeOfTakesAny, SizeIsPositive
    <3>4. Counted(ch, c) = SizeOf(old) + Size(c) - Size(x)
      BY <2>1, <3>1 DEF Counted
    <3> QED
      BY <1>9, <1>10, <3>3, <3>4
  <2>2. CASE c[2] \notin DOMAIN ch
    <3>1. rest = old
      BY <2>2 DEF Buffered
    <3>2. Counted(ch, c) = SizeOf(rest) + Size(c) - 0
      BY <2>2, <3>1 DEF Counted
    <3>3. SizeOf(rest) + Size(c) - 0 = SizeOf(rest) + Size(c)
      BY <1>9, <1>10
    <3> QED
      BY <1>9, <3>2, <3>3
  <2> QED
    BY <2>1, <2>2
<1>12. Buffered(put) \subseteq old \cup {c}
  BY <1>3, <1>5
<1> QED
  BY <1>1, <1>8, <1>9, <1>11, <1>12 DEF put

\* An upload begins with nothing.
LEMMA NothingBuffered ==
  IsBuffer(<< >>) /\ DOMAIN << >> = {} /\ Buffered(<< >>) = {} /\ SizeOf(Buffered(<< >>)) = 0
<1>1. DOMAIN << >> = {} /\ Buffered(<< >>) = {}
  BY DEF Buffered
<1>2. IsFiniteSet({}) /\ {} \subseteq AllChunks
  BY FS_EmptySet
<1>3. SizeOf({}) = 0
  BY <1>2, SizeOfTakesAny
<1> QED
  BY <1>1, <1>2, <1>3 DEF IsBuffer

\* Assembled's result, with the number of chunks announced and the buffer.
InOrder(k, ch) ==
  LET present == 1 .. k \cap DOMAIN ch
      Ranked(r) == CHOOSE n \in present : Cardinality({m \in present : m <= n}) = r
  IN  [r \in 1 .. Cardinality(present) |-> ch[Ranked(r)]]

\* A buffer of one image's chunks that has all its bytes is the whole image.
LEMMA AllBytesAreThePicture ==
  ASSUME NEW i \in Images, NEW ch, IsBuffer(ch), Buffered(ch) \subseteq Chunks(i),
         SizeOf(Buffered(ch)) = SizeOf(Chunks(i))
  PROVE  InOrder(Count(i), ch) = Picture[i]
<1> DEFINE k == Count(i)
           present == 1 .. k \cap DOMAIN ch
           Ranked(r) == CHOOSE n \in present : Cardinality({m \in present : m <= n}) = r
<1>1. Buffered(ch) = Chunks(i) /\ k \in Nat
  BY ChunksAreFinite, SizeOfPart
<1>2. \A n \in 1 .. k : n \in DOMAIN ch /\ ch[n] = <<i, n>>
  <2> TAKE n \in 1 .. k
  <2>1. <<i, n>> \in Buffered(ch)
    BY <1>1 DEF Chunks
  <2>2. PICK m \in DOMAIN ch : ch[m] = <<i, n>>
    BY <2>1 DEF Buffered
  <2>3. m = n
    BY <2>2 DEF IsBuffer
  <2> QED
    BY <2>2, <2>3
<1> HIDE DEF k
<1>3. present = 1 .. k
  BY <1>2
<1>4. Cardinality(present) = k
  <2>1. k \in Int /\ 1 \in Int
    BY <1>1
  <2>2. Cardinality(1 .. k) = IF 1 > k THEN 0 ELSE k - 1 + 1
    BY <2>1, FS_Interval
  <2>3. (IF 1 > k THEN 0 ELSE k - 1 + 1) = k
    BY <1>1
  <2> HIDE DEF present
  <2> QED
    BY <1>3, <2>2, <2>3
<1>5. \A n \in 1 .. k : Cardinality({m \in present : m <= n}) = n
  <2> TAKE n \in 1 .. k
  <2>1. {m \in present : m <= n} = 1 .. n
    BY <1>1, <1>3
  <2>2. n \in Int /\ 1 \in Int /\ n >= 1
    BY <1>1
  <2>3. Cardinality(1 .. n) = IF 1 > n THEN 0 ELSE n - 1 + 1
    BY <2>2, FS_Interval
  <2>4. (IF 1 > n THEN 0 ELSE n - 1 + 1) = n
    BY <2>2
  <2> HIDE DEF present
  <2> QED
    BY <2>1, <2>3, <2>4
<1>6. \A r \in 1 .. k : Ranked(r) = r
  <2> TAKE r \in 1 .. k
  <2> DEFINE Right(n) == Cardinality({m \in present : m <= n}) = r
  <2>1. r \in present /\ Right(r) /\ \A n \in present : Right(n) => n = r
    BY <1>3, <1>5
  <2>2. Ranked(r) = CHOOSE n \in present : Right(n)
    OBVIOUS
  <2> HIDE DEF Right, present, Ranked
  <2>3. (CHOOSE n \in present : Right(n)) = r
    BY <2>1
  <2> QED
    BY <2>2, <2>3
<1>7. InOrder(k, ch) = [r \in 1 .. Cardinality(present) |-> ch[Ranked(r)]]
  BY DEF InOrder
<1> HIDE DEF Ranked, present
<1>8. InOrder(k, ch) = [r \in 1 .. k |-> <<i, r>>]
  BY <1>2, <1>4, <1>6, <1>7
<1>9. Picture[i] = [n \in 1 .. Count(i) |-> <<i, n>>]
  BY DEF Picture
<1> QED
  BY <1>8, <1>9 DEF k

(***************************************************************************)
(* NowPlaying                                                              *)
(***************************************************************************)

\* The upload of image i that holds the chunks ch.
Upload(i, ch, e) ==
  [artID |-> i, totalBytes |-> SizeOf(Chunks(i)), chunkCount |-> Count(i),
   chunks |-> ch, received |-> SizeOf(Buffered(ch)), expired |-> e]

\* Only what was announced within the limits is uploaded; a patient phone's
\* chunks in the buffer and on the air are all of that image.
Fits(i, ch) ==
  /\ i \in Images /\ InRange(i)
  /\ IsBuffer(ch) /\ DOMAIN ch \subseteq 1 .. Count(i)
  /\ SizeOf(Buffered(ch)) <= SizeOf(Chunks(i))
  /\ patient => inFlight \cup Buffered(ch) \subseteq Chunks(i)

UploadFits ==
  transfer # NoTransfer =>
    /\ transfer = Upload(transfer.artID, transfer.chunks, transfer.expired)
    /\ Fits(transfer.artID, transfer.chunks)

CoverIsWhole ==
  patient => \/ artID = NoImage /\ art = <<>>
             \/ artID \in Images /\ art = Picture[artID]

ArtInv ==
  /\ inFlight \subseteq AllChunks /\ UploadFits /\ CoverIsWhole
  /\ published = Snapshot(metadata, artID, art)

\* What a patient phone's listeners see of a step: nothing, or a whole image.
ShowsOne ==
  /\ patient' = patient
  /\ patient => \/ UNCHANGED <<artID, art>>
                \/ \E i \in Images : artID' = i /\ art' = Picture[i]

\* Stored puts the chunk into the buffer and counts it.
LEMMA StoredPuts ==
  ASSUME NEW i \in Images, NEW ch, IsBuffer(ch), NEW e, NEW c \in AllChunks
  PROVE  Stored(Upload(i, ch, e), c) = Upload(i, Put(ch, c), e)
<1> DEFINE t == Upload(i, ch, e)
<1>1. /\ t.received = SizeOf(Buffered(ch)) /\ t.chunks = ch
  BY DEF Upload
<1>2. Received(t, c) = Counted(ch, c)
  BY <1>1 DEF Received, Counted
<1>3. Received(t, c) = SizeOf(Buffered(Put(ch, c)))
  BY <1>2, PutCounts
<1>4. [n \in DOMAIN ch \cup {c[2]} |-> IF n = c[2] THEN c ELSE ch[n]] = Put(ch, c)
  BY DEF Put
<1>5. Stored(t, c) = [t EXCEPT !.received = Received(t, c), !.chunks = Put(ch, c)]
  BY <1>1, <1>4 DEF Stored
<1>6. PICK r : r = SizeOf(Buffered(Put(ch, c)))
  OBVIOUS
<1>7. PICK u : u = [t EXCEPT !.received = r]
  OBVIOUS
<1>8. u = [artID |-> i, totalBytes |-> SizeOf(Chunks(i)), chunkCount |-> Count(i),
           chunks |-> ch, received |-> r, expired |-> e]
  BY <1>7 DEF Upload
<1>9. [u EXCEPT !.chunks = Put(ch, c)] = Upload(i, Put(ch, c), e)
  BY <1>6, <1>8 DEF Upload
<1>10. Stored(t, c) = [u EXCEPT !.chunks = Put(ch, c)]
  BY <1>3, <1>5, <1>6, <1>7
<1> QED
  BY <1>9, <1>10

\* An upload that fits is what UploadFits speaks of, now or after a step.
LEMMA UploadIs ==
  /\ \A i, ch, e : transfer = Upload(i, ch, e) /\ Fits(i, ch) => UploadFits
  /\ \A i, ch, e : transfer' = Upload(i, ch, e) /\ Fits(i, ch)' => UploadFits'
<1>1. \A i, ch, e : LET t == Upload(i, ch, e) IN t.artID = i /\ t.chunks = ch /\ t.expired = e
  BY DEF Upload
<1> QED
  BY <1>1 DEF UploadFits

\* At first nothing is shown and nothing is uploaded.
LEMMA ArtInit == Init => ArtInv
BY DEF Init, ArtInv, UploadFits, CoverIsWhole

\* An announcement begins a new upload; a patient phone's chunks on the air
\* are its image's only.
LEMMA ControlKeeps ==
  ASSUME ArtInv, NEW i \in Images, HandleArtControl(i)
  PROVE  ArtInv' /\ ShowsOne
<1>1. /\ patient => inFlight = {} /\ InRange(i)
      /\ inFlight' = inFlight \cup Chunks(i)
      /\ UNCHANGED <<metadata, artID, art, published, patient>>
  BY DEF HandleArtControl
<1>2. inFlight' \subseteq AllChunks
  BY <1>1, ChunksAreFinite DEF ArtInv
<1>3. UploadFits'
  <2>1. CASE InRange(i)
    <3>1. transfer' = Upload(i, << >>, FALSE)
      BY <2>1, NothingBuffered DEF HandleArtControl, Upload
    <3>2. 0 <= SizeOf(Chunks(i))
      BY <2>1 DEF InRange
    <3>3. Fits(i, << >>)'
      BY <1>1, <2>1, <3>2, NothingBuffered DEF Fits
    <3> QED
      BY <3>1, <3>3, UploadIs
  <2>2. CASE ~InRange(i)
    <3>1. transfer' = transfer /\ ~patient /\ ~patient'
      BY <1>1, <2>2 DEF HandleArtControl
    <3> QED
      BY <3>1 DEF ArtInv, UploadFits, Fits
  <2> QED
    BY <2>1, <2>2
<1>4. CoverIsWhole' /\ (published = Snapshot(metadata, artID, art))'
  BY <1>1 DEF ArtInv, CoverIsWhole, Snapshot
<1>5. ShowsOne
  BY <1>1 DEF ShowsOne
<1> QED
  BY <1>2, <1>3, <1>4, <1>5 DEF ArtInv

\* A chunk: it is dropped, or stored, or it ends the upload, and then what is
\* shown to a patient phone's listeners is the whole image.
LEMMA DeliverKeeps ==
  ASSUME ArtInv, Deliver
  PROVE  ArtInv' /\ ShowsOne
<1>1. PICK c \in inFlight : /\ HandleArtChunk(c)
                            /\ inFlight' \in {inFlight, inFlight \ {c}}
                            /\ UNCHANGED <<metadata, patient>>
  BY DEF Deliver
<1>2. inFlight' \subseteq inFlight /\ inFlight \subseteq AllChunks /\ c \in AllChunks
  BY <1>1 DEF ArtInv
<1>3. CASE /\ transfer' = NoTransfer \/ transfer' = transfer
           /\ UNCHANGED <<artID, art, published>>
  <2>1. UploadFits'
    BY <1>1, <1>2, <1>3 DEF ArtInv, UploadFits, Fits
  <2>2. CoverIsWhole' /\ (published = Snapshot(metadata, artID, art))' /\ ShowsOne
    BY <1>1, <1>3 DEF ArtInv, CoverIsWhole, Snapshot, ShowsOne
  <2> QED
    BY <1>2, <2>1, <2>2 DEF ArtInv
<1>4. ASSUME transfer # NoTransfer, Covered(transfer, c),
             \/ /\ Stored(transfer, c).received < Stored(transfer, c).totalBytes
                /\ transfer' = Stored(transfer, c)
                /\ UNCHANGED <<artID, art, published>>
             \/ /\ Stored(transfer, c).received = Stored(transfer, c).totalBytes
                /\ art' = Assembled(Stored(transfer, c))
                /\ artID' = Stored(transfer, c).artID
                /\ transfer' = NoTransfer
                /\ published' = Snapshot(metadata, Stored(transfer, c).artID,
                                         Assembled(Stored(transfer, c)))
      PROVE  ArtInv' /\ ShowsOne
  <2>0. PICK i \in Images : \E ch, e : transfer = Upload(i, ch, e) /\ Fits(i, ch)
    BY <1>4 DEF ArtInv, UploadFits, Fits
  <2>1. PICK ch, e : transfer = Upload(i, ch, e) /\ Fits(i, ch)
    BY <2>0
  <2>2. PICK put : put = Put(ch, c)
    OBVIOUS
  <2>3. IsBuffer(ch) /\ DOMAIN ch \subseteq 1 .. Count(i)
    BY <2>1 DEF Fits
  <2>4. Stored(transfer, c) = Upload(i, put, e)
    BY <1>2, <2>1, <2>2, <2>3, StoredPuts
  <2>5. /\ IsBuffer(put) /\ DOMAIN put = DOMAIN ch \cup {c[2]}
        /\ Buffered(put) \subseteq Buffered(ch) \cup {c}
    BY <1>2, <2>2, <2>3, PutCounts
  <2>6. c[2] \in 1 .. Count(i)
    <3>1. c[2] <= Count(i)
      BY <1>4, <2>1 DEF Covered, Upload
    <3>2. PICK j \in Images : c \in Chunks(j)
      BY <1>2 DEF AllChunks
    <3>3. PICK n \in 1 .. Count(j) : c = <<j, n>>
      BY <3>2 DEF Chunks
    <3>4. Count(i) \in Nat /\ Count(j) \in Nat
      BY ChunksAreFinite
    <3> QED
      BY <3>1, <3>3, <3>4
  <2>7. DOMAIN put \subseteq 1 .. Count(i)
    BY <2>3, <2>5, <2>6
  <2>8. patient => inFlight' \cup Buffered(put) \subseteq Chunks(i)
    BY <1>1, <1>2, <2>1, <2>5 DEF Fits
  <2>9. LET u == Upload(i, put, e)
        IN  /\ u.received = SizeOf(Buffered(put)) /\ u.totalBytes = SizeOf(Chunks(i))
            /\ u.artID = i /\ u.chunks = put /\ u.chunkCount = Count(i)
    BY DEF Upload
  <2>10. CASE /\ Stored(transfer, c).received < Stored(transfer, c).totalBytes
              /\ transfer' = Stored(transfer, c)
              /\ UNCHANGED <<artID, art, published>>
    <3>0. SizeOf(Buffered(put)) \in Nat /\ SizeOf(Chunks(i)) \in Nat
      BY <1>2, <2>2, <2>3, PutCounts, ChunksAreFinite, SizeOfTakesAny
    <3>1. SizeOf(Buffered(put)) <= SizeOf(Chunks(i))
      <4>1. SizeOf(Buffered(put)) < SizeOf(Chunks(i))
        BY <2>4, <2>9, <2>10
      <4> QED
        BY <3>0, <4>1
    <3>2. InRange(i)
      BY <2>1 DEF Fits
    <3>3. Fits(i, put)'
      BY <1>1, <2>5, <2>7, <2>8, <3>1, <3>2 DEF Fits
    <3>4. UploadFits'
      BY <2>4, <2>10, <3>3, UploadIs
    <3>5. CoverIsWhole' /\ (published = Snapshot(metadata, artID, art))' /\ ShowsOne
      BY <1>1, <2>10 DEF ArtInv, CoverIsWhole, Snapshot, ShowsOne
    <3> QED
      BY <1>2, <3>4, <3>5 DEF ArtInv
  <2>11. CASE /\ Stored(transfer, c).received = Stored(transfer, c).totalBytes
              /\ art' = Assembled(Stored(transfer, c))
              /\ artID' = Stored(transfer, c).artID
              /\ transfer' = NoTransfer
              /\ published' = Snapshot(metadata, Stored(transfer, c).artID,
                                       Assembled(Stored(transfer, c)))
    <3>1. SizeOf(Buffered(put)) = SizeOf(Chunks(i))
      BY <2>4, <2>9, <2>11
    <3>2. Assembled(Upload(i, put, e)) = InOrder(Count(i), put)
      BY <2>9 DEF Assembled, InOrder
    <3>3. patient => art' = Picture[i]
      <4> SUFFICES ASSUME patient PROVE art' = Picture[i]
        OBVIOUS
      <4>1. Buffered(put) \subseteq Chunks(i)
        BY <2>8
      <4>2. InOrder(Count(i), put) = Picture[i]
        BY <2>5, <3>1, <4>1, AllBytesAreThePicture
      <4> QED
        BY <2>4, <2>11, <3>2, <4>2
    <3>4. artID' = i
      BY <2>4, <2>9, <2>11
    <3>5. UploadFits'
      BY <2>11 DEF UploadFits, NoTransfer
    <3>6. CoverIsWhole' /\ ShowsOne
      BY <1>1, <3>3, <3>4 DEF CoverIsWhole, ShowsOne
    <3>7. (published = Snapshot(metadata, artID, art))'
      BY <1>1, <2>11 DEF Snapshot
    <3> QED
      BY <1>2, <3>5, <3>6, <3>7 DEF ArtInv
  <2> QED
    BY <1>4, <2>10, <2>11
<1>5. \/ /\ transfer' = NoTransfer \/ transfer' = transfer
         /\ UNCHANGED <<artID, art, published>>
      \/ /\ transfer # NoTransfer /\ Covered(transfer, c)
         /\ \/ /\ Stored(transfer, c).received < Stored(transfer, c).totalBytes
               /\ transfer' = Stored(transfer, c)
               /\ UNCHANGED <<artID, art, published>>
            \/ /\ Stored(transfer, c).received = Stored(transfer, c).totalBytes
               /\ art' = Assembled(Stored(transfer, c))
               /\ artID' = Stored(transfer, c).artID
               /\ transfer' = NoTransfer
               /\ published' = Snapshot(metadata, Stored(transfer, c).artID,
                                        Assembled(Stored(transfer, c)))
  BY <1>1, Zenon DEF HandleArtChunk
<1> QED
  BY <1>3, <1>4, <1>5

\* Every step keeps the invariant and shows nothing new or a whole image.
LEMMA ArtStep == ArtInv /\ [Next]_vars => ArtInv' /\ ShowsOne
<1> SUFFICES ASSUME ArtInv, [Next]_vars PROVE ArtInv' /\ ShowsOne
  OBVIOUS
<1>1. ASSUME NEW m \in Images \cup {NoImage}, HandleMetadata(m)
      PROVE  ArtInv' /\ ShowsOne
  <2>1. /\ metadata' = m /\ published' = Snapshot(m, artID, art)
        /\ UNCHANGED <<artID, art, transfer, inFlight, patient>>
    BY <1>1 DEF HandleMetadata
  <2>2. UploadFits' /\ CoverIsWhole' /\ ShowsOne /\ inFlight' \subseteq AllChunks
    BY <2>1 DEF ArtInv, UploadFits, Fits, CoverIsWhole, ShowsOne
  <2>3. (published = Snapshot(metadata, artID, art))'
    BY <2>1 DEF Snapshot
  <2> QED
    BY <2>2, <2>3 DEF ArtInv
<1>2. ASSUME NEW i \in Images, HandleArtControl(i) PROVE ArtInv' /\ ShowsOne
  BY <1>2, ControlKeeps
<1>3. CASE Deliver
  BY <1>3, DeliverKeeps
<1>4. CASE Expire
  <2>1. /\ transfer # NoTransfer /\ transfer' = [transfer EXCEPT !.expired = TRUE]
        /\ UNCHANGED <<metadata, artID, art, published, inFlight, patient>>
    BY <1>4 DEF Expire
  <2>2. PICK i, ch, e : i \in Images /\ transfer = Upload(i, ch, e) /\ Fits(i, ch)
    BY <2>1 DEF ArtInv, UploadFits, Fits
  <2>3. transfer' = Upload(i, ch, TRUE)
    BY <2>1, <2>2 DEF Upload
  <2>4. Fits(i, ch)'
    BY <2>1, <2>2 DEF Fits
  <2>5. UploadFits'
    BY <2>3, <2>4, UploadIs
  <2>6. CoverIsWhole' /\ (published = Snapshot(metadata, artID, art))' /\ ShowsOne
    BY <2>1 DEF ArtInv, CoverIsWhole, Snapshot, ShowsOne
  <2> QED
    BY <2>1, <2>5, <2>6 DEF ArtInv
<1>5. CASE Lose
  <2>1. /\ inFlight' \subseteq inFlight
        /\ UNCHANGED <<metadata, artID, art, transfer, published, patient>>
    BY <1>5 DEF Lose
  <2> QED
    BY <2>1 DEF ArtInv, UploadFits, Fits, CoverIsWhole, Snapshot, ShowsOne
<1>6. CASE UNCHANGED vars
  BY <1>6 DEF vars, ArtInv, UploadFits, Fits, CoverIsWhole, Snapshot, ShowsOne
<1> QED
  BY <1>1, <1>2, <1>3, <1>4, <1>5, <1>6 DEF Next

\* An upload never holds more bytes or chunks than the limits allow, whatever
\* the phone announces and whichever image's chunks arrive.
THEOREM BuffersAreBounded == Spec => []BufferIsBounded
<1>1. ArtInv => BufferIsBounded
  <2> SUFFICES ASSUME ArtInv, transfer # NoTransfer
               PROVE  /\ SizeOf(Buffered(transfer.chunks)) <= MaxArtBytes
                      /\ Cardinality(DOMAIN transfer.chunks) <= MaxArtChunks
    BY DEF BufferIsBounded, Buffered
  <2>0. PICK i \in Images : \E ch : transfer.chunks = ch /\ Fits(i, ch)
    BY DEF ArtInv, UploadFits, Fits
  <2>1. PICK ch : transfer.chunks = ch /\ Fits(i, ch)
    BY <2>0
  <2>2. /\ SizeOf(Chunks(i)) \in 1 .. MaxArtBytes /\ Count(i) \in 1 .. MaxArtChunks
        /\ SizeOf(Buffered(ch)) <= SizeOf(Chunks(i)) /\ DOMAIN ch \subseteq 1 .. Count(i)
        /\ IsBuffer(ch)
    BY <2>1 DEF Fits, InRange
  <2>3. SizeOf(Buffered(ch)) \in Nat
    <3>1. Buffered(ch) \subseteq AllChunks /\ IsFiniteSet(Buffered(ch))
      BY <2>2 DEF IsBuffer, Buffered
    <3> QED
      BY <3>1, SizeOfTakesAny
  <2>4. SizeOf(Buffered(ch)) <= MaxArtBytes
    BY <2>2, <2>3, LimitsAssumption
  <2>5. Cardinality(DOMAIN ch) <= MaxArtChunks
    <3>1. IsFiniteSet(1 .. Count(i)) /\ Cardinality(1 .. Count(i)) = Count(i)
      <4>1. Count(i) \in Int /\ 1 \in Int /\ Count(i) >= 1
        BY <2>2, LimitsAssumption
      <4>2. /\ IsFiniteSet(1 .. Count(i))
            /\ Cardinality(1 .. Count(i)) = IF 1 > Count(i) THEN 0 ELSE Count(i) - 1 + 1
        BY <4>1, FS_Interval
      <4>3. (IF 1 > Count(i) THEN 0 ELSE Count(i) - 1 + 1) = Count(i)
        BY <4>1
      <4> QED
        BY <4>2, <4>3
    <3>2. /\ IsFiniteSet(DOMAIN ch)
          /\ Cardinality(DOMAIN ch) <= Cardinality(1 .. Count(i))
      BY <2>2, <3>1, FS_Subset
    <3>3. Cardinality(DOMAIN ch) \in Nat
      BY <3>2, FS_CardinalityType
    <3>4. Cardinality(DOMAIN ch) <= Count(i)
      BY <3>1, <3>2
    <3> QED
      BY <2>2, <3>3, <3>4, LimitsAssumption
  <2> QED
    BY <2>1, <2>4, <2>5
<1> QED
  BY <1>1, ArtInit, ArtStep, PTL DEF Spec

\* What a patient phone's listeners are told of implements the abstract store:
\* one whole image after another, each under its own id.
THEOREM CoversAreWhole == Spec => ShowsWholeImages
<1>1. Init => Shown!Init
  BY DEF Init, Shown!Init, Snapshot
<1>2. ArtInv /\ ArtInv' /\ ShowsOne => [Shown!Next]_(Shown!vars)
  <2> SUFFICES ASSUME ArtInv, ArtInv', ShowsOne PROVE [Shown!Next]_(Shown!vars)
    OBVIOUS
  <2>1. published.artID = artID /\ published'.artID = artID' /\ patient' = patient
    BY DEF ArtInv, ShowsOne, Snapshot
  <2>2. CASE ~patient
    BY <2>1, <2>2 DEF Shown!vars
  <2>3. CASE patient /\ UNCHANGED <<artID, art>>
    BY <2>1, <2>3 DEF Shown!vars
  <2>4. CASE patient /\ \E i \in Images : artID' = i /\ art' = Picture[i]
    BY <2>1, <2>4 DEF Shown!Next, Shown!Show
  <2> QED
    BY <2>2, <2>3, <2>4 DEF ShowsOne
<1> QED
  BY <1>1, <1>2, ArtInit, ArtStep, PTL DEF Spec, ShowsWholeImages, Shown!Spec

(***************************************************************************)
(* Navigation                                                              *)
(***************************************************************************)

\* The instance's pictures are these.
LEMMA MapsPictures ==
  /\ \A c : Maps!Size(c) = Size(c)
  /\ \A S : Maps!SizeOf(S) = SizeOf(S)
  /\ \A i : Maps!Chunks(i) = Chunks(i) /\ Maps!Count(i) = Count(i)
  /\ \A t : Maps!Assembled(t) = Assembled(t)
  /\ Maps!Picture = Picture
<1>1. \A c : Maps!Size(c) = Size(c)
  BY DEF Maps!Size, Size
<1>2. \A S : Maps!SizeOf(S) = SizeOf(S)
  BY DEF Maps!SizeOf, SizeOf, MapThenSumSet, MapThenFoldSet, Maps!MapThenSumSet,
         Maps!MapThenFoldSet, Maps!Size, Size
<1>3. \A i : Maps!Chunks(i) = Chunks(i) /\ Maps!Count(i) = Count(i)
  BY DEF Maps!Chunks, Chunks, Maps!Count, Count
<1>4. Maps!Picture = Picture
  BY DEF Maps!Picture, Picture, Maps!Count, Count
<1>5. \A t : Maps!Assembled(t) = Assembled(t)
  BY DEF Maps!Assembled, Assembled, Maps!Cardinality, Cardinality, Maps!IsFiniteSet,
         IsFiniteSet
<1> QED
  BY <1>1, <1>2, <1>3, <1>4, <1>5

\* The upload of icon i that holds the chunks ch.
IconUpload(i, ch) ==
  [iconID |-> i, totalBytes |-> SizeOf(Chunks(i)), chunkCount |-> Count(i),
   chunks |-> ch, received |-> SizeOf(Buffered(ch))]

\* Anything announced is uploaded; a patient phone's chunks in the buffer and
\* on the air are all of that icon.
IconFits(i, ch) ==
  /\ i \in Images /\ IsBuffer(ch)
  /\ mapsPatient => iconsInFlight \cup Buffered(ch) \subseteq Chunks(i)

IconUploadFits ==
  iconTransfer # Maps!NoTransfer =>
    /\ iconTransfer = IconUpload(iconTransfer.iconID, iconTransfer.chunks)
    /\ IconFits(iconTransfer.iconID, iconTransfer.chunks)

IconIsWhole ==
  mapsPatient => \/ iconID = NoImage /\ icon = <<>>
                 \/ iconID \in Images /\ icon = Picture[iconID]

IconInv ==
  /\ iconsInFlight \subseteq AllChunks /\ IconUploadFits /\ IconIsWhole
  /\ navPublished = Maps!Snapshot(nav, iconID, icon)

\* What a patient phone's listeners see of a step: nothing, or a whole icon.
ShowsOneIcon ==
  /\ mapsPatient' = mapsPatient
  /\ mapsPatient => \/ UNCHANGED <<iconID, icon>>
                    \/ \E i \in Images : iconID' = i /\ icon' = Picture[i]

\* Stored puts the chunk into the buffer and counts it.
LEMMA IconStoredPuts ==
  ASSUME NEW i \in Images, NEW ch, IsBuffer(ch), NEW c \in AllChunks
  PROVE  Maps!Stored(IconUpload(i, ch), c) = IconUpload(i, Put(ch, c))
<1> DEFINE t == IconUpload(i, ch)
<1>1. t.received = SizeOf(Buffered(ch)) /\ t.chunks = ch
  BY DEF IconUpload
<1>2. Maps!Received(t, c) = Counted(ch, c)
  BY <1>1, MapsPictures DEF Maps!Received, Counted
<1>3. Maps!Received(t, c) = SizeOf(Buffered(Put(ch, c)))
  BY <1>2, PutCounts
<1>4. [n \in DOMAIN ch \cup {c[2]} |-> IF n = c[2] THEN c ELSE ch[n]] = Put(ch, c)
  BY DEF Put
<1>5. Maps!Stored(t, c) = [t EXCEPT !.received = Maps!Received(t, c), !.chunks = Put(ch, c)]
  BY <1>1, <1>4 DEF Maps!Stored
<1>6. PICK r : r = SizeOf(Buffered(Put(ch, c)))
  OBVIOUS
<1>7. PICK u : u = [t EXCEPT !.received = r]
  OBVIOUS
<1>8. u = [iconID |-> i, totalBytes |-> SizeOf(Chunks(i)), chunkCount |-> Count(i),
           chunks |-> ch, received |-> r]
  BY <1>7 DEF IconUpload
<1>9. [u EXCEPT !.chunks = Put(ch, c)] = IconUpload(i, Put(ch, c))
  BY <1>6, <1>8 DEF IconUpload
<1>10. Maps!Stored(t, c) = [u EXCEPT !.chunks = Put(ch, c)]
  BY <1>3, <1>5, <1>6, <1>7
<1> QED
  BY <1>9, <1>10

\* An upload that fits is what IconUploadFits speaks of, after a step.
LEMMA IconUploadIs ==
  \A i, ch : iconTransfer' = IconUpload(i, ch) /\ IconFits(i, ch)' => IconUploadFits'
<1>1. \A i, ch : LET t == IconUpload(i, ch) IN t.iconID = i /\ t.chunks = ch
  BY DEF IconUpload
<1> QED
  BY <1>1 DEF IconUploadFits

\* At first no icon is shown and nothing is uploaded.
LEMMA IconInit == Maps!Init => IconInv
BY DEF Maps!Init, IconInv, IconUploadFits, IconIsWhole

\* An announcement begins a new upload.
LEMMA IconControlKeeps ==
  ASSUME IconInv, NEW i \in Images, Maps!HandleIconControl(i)
  PROVE  IconInv' /\ ShowsOneIcon
<1>1. /\ mapsPatient => iconsInFlight = {}
      /\ iconsInFlight' = iconsInFlight \cup Chunks(i)
      /\ UNCHANGED <<nav, iconID, icon, navPublished, mapsPatient>>
  BY MapsPictures DEF Maps!HandleIconControl
<1>2. iconsInFlight' \subseteq AllChunks
  BY <1>1, ChunksAreFinite DEF IconInv
<1>3. iconTransfer' = IconUpload(i, << >>)
  BY MapsPictures, NothingBuffered DEF Maps!HandleIconControl, IconUpload
<1>4. IconFits(i, << >>)'
  BY <1>1, NothingBuffered DEF IconFits
<1>5. IconUploadFits'
  BY <1>3, <1>4, IconUploadIs
<1>6. IconIsWhole' /\ (navPublished = Maps!Snapshot(nav, iconID, icon))' /\ ShowsOneIcon
  BY <1>1 DEF IconInv, IconIsWhole, Maps!Snapshot, ShowsOneIcon
<1> QED
  BY <1>2, <1>5, <1>6 DEF IconInv

\* A chunk: it is dropped, or stored, or it ends the upload, and then what is
\* shown to a patient phone's listeners is the whole icon.
LEMMA IconDeliverKeeps ==
  ASSUME IconInv, Maps!Deliver
  PROVE  IconInv' /\ ShowsOneIcon
<1>1. PICK c \in iconsInFlight :
        /\ Maps!HandleIconChunk(c)
        /\ iconsInFlight' \in {iconsInFlight, iconsInFlight \ {c}}
        /\ UNCHANGED <<nav, mapsPatient>>
  BY DEF Maps!Deliver
<1>2. /\ iconsInFlight' \subseteq iconsInFlight /\ iconsInFlight \subseteq AllChunks
      /\ c \in AllChunks
  BY <1>1 DEF IconInv
<1> DEFINE t == Maps!Stored(iconTransfer, c)
<1>3. CASE /\ iconTransfer' = Maps!NoTransfer \/ iconTransfer' = iconTransfer
           /\ UNCHANGED <<iconID, icon, navPublished>>
  <2>1. IconUploadFits'
    BY <1>1, <1>2, <1>3 DEF IconInv, IconUploadFits, IconFits
  <2>2. IconIsWhole' /\ (navPublished = Maps!Snapshot(nav, iconID, icon))' /\ ShowsOneIcon
    BY <1>1, <1>3 DEF IconInv, IconIsWhole, Maps!Snapshot, ShowsOneIcon
  <2> QED
    BY <1>2, <2>1, <2>2 DEF IconInv
<1>4. ASSUME iconTransfer # Maps!NoTransfer,
             \/ iconTransfer' = t /\ UNCHANGED <<iconID, icon, navPublished>>
             \/ /\ t.received = t.totalBytes
                /\ icon' = Maps!Assembled(t) /\ iconID' = t.iconID
                /\ iconTransfer' = Maps!NoTransfer
                /\ navPublished' = Maps!Snapshot(nav, t.iconID, Maps!Assembled(t))
      PROVE  IconInv' /\ ShowsOneIcon
  <2>0. PICK i \in Images : \E ch : iconTransfer = IconUpload(i, ch) /\ IconFits(i, ch)
    BY <1>4 DEF IconInv, IconUploadFits, IconFits
  <2>1. PICK ch : iconTransfer = IconUpload(i, ch) /\ IconFits(i, ch)
    BY <2>0
  <2>2. PICK put : put = Put(ch, c)
    OBVIOUS
  <2>3. IsBuffer(ch)
    BY <2>1 DEF IconFits
  <2>4. t = IconUpload(i, put)
    BY <1>2, <2>1, <2>2, <2>3, IconStoredPuts
  <2>5. IsBuffer(put) /\ Buffered(put) \subseteq Buffered(ch) \cup {c}
    BY <1>2, <2>2, <2>3, PutCounts
  <2>6. mapsPatient => iconsInFlight' \cup Buffered(put) \subseteq Chunks(i)
    BY <1>1, <1>2, <2>1, <2>5 DEF IconFits
  <2>7. /\ t.received = SizeOf(Buffered(put)) /\ t.totalBytes = SizeOf(Chunks(i))
        /\ t.iconID = i /\ t.chunks = put /\ t.chunkCount = Count(i)
    BY <2>4 DEF IconUpload
  <2> HIDE DEF t
  <2>8. CASE iconTransfer' = t /\ UNCHANGED <<iconID, icon, navPublished>>
    <3>1. IconFits(i, put)'
      BY <1>1, <2>5, <2>6 DEF IconFits
    <3>2. IconUploadFits'
      BY <2>4, <2>8, <3>1, IconUploadIs
    <3>3. IconIsWhole' /\ (navPublished = Maps!Snapshot(nav, iconID, icon))' /\ ShowsOneIcon
      BY <1>1, <2>8 DEF IconInv, IconIsWhole, Maps!Snapshot, ShowsOneIcon
    <3> QED
      BY <1>2, <3>2, <3>3 DEF IconInv
  <2>9. CASE /\ t.received = t.totalBytes
             /\ icon' = Maps!Assembled(t) /\ iconID' = t.iconID
             /\ iconTransfer' = Maps!NoTransfer
             /\ navPublished' = Maps!Snapshot(nav, t.iconID, Maps!Assembled(t))
    <3>1. SizeOf(Buffered(put)) = SizeOf(Chunks(i))
      BY <2>7, <2>9
    <3>2. Maps!Assembled(t) = InOrder(Count(i), put)
      <4>1. Maps!Assembled(t) = Assembled(t)
        BY MapsPictures
      <4>2. Assembled(t) = InOrder(Count(i), put)
        BY <2>7 DEF Assembled, InOrder
      <4> QED
        BY <4>1, <4>2
    <3>3. mapsPatient => icon' = Picture[i]
      <4> SUFFICES ASSUME mapsPatient PROVE icon' = Picture[i]
        OBVIOUS
      <4>1. Buffered(put) \subseteq Chunks(i)
        BY <2>6
      <4>2. InOrder(Count(i), put) = Picture[i]
        BY <2>5, <3>1, <4>1, AllBytesAreThePicture
      <4> QED
        BY <2>9, <3>2, <4>2
    <3>4. iconID' = i
      BY <2>7, <2>9
    <3>5. IconUploadFits'
      BY <2>9 DEF IconUploadFits, Maps!NoTransfer
    <3>6. IconIsWhole' /\ ShowsOneIcon
      BY <1>1, <3>3, <3>4 DEF IconIsWhole, ShowsOneIcon
    <3>7. (navPublished = Maps!Snapshot(nav, iconID, icon))'
      BY <1>1, <2>9 DEF Maps!Snapshot
    <3> QED
      BY <1>2, <3>5, <3>6, <3>7 DEF IconInv
  <2> QED
    BY <1>4, <2>8, <2>9
<1>5. \/ /\ iconTransfer' = Maps!NoTransfer \/ iconTransfer' = iconTransfer
         /\ UNCHANGED <<iconID, icon, navPublished>>
      \/ /\ iconTransfer # Maps!NoTransfer
         /\ \/ iconTransfer' = t /\ UNCHANGED <<iconID, icon, navPublished>>
            \/ /\ t.received = t.totalBytes
               /\ icon' = Maps!Assembled(t) /\ iconID' = t.iconID
               /\ iconTransfer' = Maps!NoTransfer
               /\ navPublished' = Maps!Snapshot(nav, t.iconID, Maps!Assembled(t))
  BY <1>1, Zenon DEF Maps!HandleIconChunk
<1> HIDE DEF t
<1> QED
  BY <1>3, <1>4, <1>5

\* Every step keeps the invariant and shows nothing new or a whole icon.
LEMMA IconStep == IconInv /\ [Maps!Next]_(Maps!vars) => IconInv' /\ ShowsOneIcon
<1> SUFFICES ASSUME IconInv, [Maps!Next]_(Maps!vars) PROVE IconInv' /\ ShowsOneIcon
  OBVIOUS
<1>1. ASSUME NEW turn \in Images \cup {NoImage}, Maps!HandleNavigation(turn)
      PROVE  IconInv' /\ ShowsOneIcon
  <2>1. /\ nav' = turn /\ navPublished' = Maps!Snapshot(turn, iconID, icon)
        /\ UNCHANGED <<iconID, icon, iconTransfer, iconsInFlight, mapsPatient>>
    BY <1>1 DEF Maps!HandleNavigation
  <2>2. /\ IconUploadFits' /\ IconIsWhole' /\ ShowsOneIcon
        /\ iconsInFlight' \subseteq AllChunks
    BY <2>1 DEF IconInv, IconUploadFits, IconFits, IconIsWhole, ShowsOneIcon
  <2>3. (navPublished = Maps!Snapshot(nav, iconID, icon))'
    BY <2>1 DEF Maps!Snapshot
  <2> QED
    BY <2>2, <2>3 DEF IconInv
<1>2. ASSUME NEW i \in Images, Maps!HandleIconControl(i) PROVE IconInv' /\ ShowsOneIcon
  BY <1>2, IconControlKeeps
<1>3. CASE Maps!Deliver
  BY <1>3, IconDeliverKeeps
<1>4. CASE Maps!Lose
  <2>1. /\ iconsInFlight' \subseteq iconsInFlight
        /\ UNCHANGED <<nav, iconID, icon, iconTransfer, navPublished, mapsPatient>>
    BY <1>4 DEF Maps!Lose
  <2> QED
    BY <2>1 DEF IconInv, IconUploadFits, IconFits, IconIsWhole, Maps!Snapshot, ShowsOneIcon
<1>5. CASE UNCHANGED Maps!vars
  BY <1>5 DEF Maps!vars, IconInv, IconUploadFits, IconFits, IconIsWhole, Maps!Snapshot,
              ShowsOneIcon
<1> QED
  BY <1>1, <1>2, <1>3, <1>4, <1>5 DEF Maps!Next

\* "A stale icon is never reported against a new turn": an icon reported to a
\* patient phone's passenger is the whole picture the turn refers to.
THEOREM IconsAreTheTurns == Maps!Spec => []ReportedIconIsTheTurns
<1>1. IconInv => ReportedIconIsTheTurns
  <2> SUFFICES ASSUME IconInv, mapsPatient, navPublished.hasIcon
               PROVE  navPublished.nav \in Images /\ icon = Picture[navPublished.nav]
    BY MapsPictures DEF ReportedIconIsTheTurns, Maps!ReportedIconIsTheTurns
  <2>1. navPublished.nav = nav /\ iconID # NoImage /\ iconID = nav
    BY DEF IconInv, Maps!Snapshot
  <2> QED
    BY <2>1 DEF IconInv, IconIsWhole
<1> QED
  BY <1>1, IconInit, IconStep, PTL DEF Maps!Spec

\* The icons a patient phone's listeners are told of implement the abstract
\* store, too.
THEOREM IconsAreWhole == Maps!Spec => ShowsWholeIcons
<1>1. Maps!Init => Maps!Shown!Init
  BY DEF Maps!Init, Maps!Shown!Init, Maps!Snapshot
<1>2. IconInv /\ IconInv' /\ ShowsOneIcon => [Maps!Shown!Next]_(Maps!Shown!vars)
  <2> SUFFICES ASSUME IconInv, IconInv', ShowsOneIcon
               PROVE  [Maps!Shown!Next]_(Maps!Shown!vars)
    OBVIOUS
  <2>1. /\ navPublished.iconID = iconID /\ navPublished'.iconID = iconID'
        /\ mapsPatient' = mapsPatient
    BY DEF IconInv, ShowsOneIcon, Maps!Snapshot
  <2>2. CASE ~mapsPatient
    BY <2>1, <2>2 DEF Maps!Shown!vars
  <2>3. CASE mapsPatient /\ UNCHANGED <<iconID, icon>>
    BY <2>1, <2>3 DEF Maps!Shown!vars
  <2>4. CASE mapsPatient /\ \E i \in Images : iconID' = i /\ icon' = Picture[i]
    BY <2>1, <2>4, MapsPictures DEF Maps!Shown!Next, Maps!Shown!Show
  <2> QED
    BY <2>2, <2>3, <2>4 DEF ShowsOneIcon
<1> QED
  BY <1>1, <1>2, IconInit, IconStep, PTL
     DEF Maps!Spec, ShowsWholeIcons, Maps!ShowsWholeImages, Maps!Shown!Spec
=============================================================================
