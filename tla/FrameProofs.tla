----------------------------- MODULE FrameProofs -----------------------------
(***************************************************************************)
(* Proofs about the frames that pass through the W5500: W5500Driver cuts   *)
(* the chip's stream of received bytes into the frames that were sent,     *)
(* W5500Send stores the bytes of a buffer so that they leave whole and in  *)
(* order.                                                                  *)
(*                                                                         *)
(* Both speak of bytes put together from any number of frames or sends.    *)
(* No installed prover can use an induction theorem that takes a           *)
(* predicate, so induction here is over a set of numbers (Induction, from  *)
(* the well-foundedness of < on Nat), which instantiates nothing.          *)
(***************************************************************************)
EXTENDS W5500Driver, W5500Send, SequenceTheorems, WellFoundedInduction, TLAPS

(* Induction over the natural numbers, as a fact about a set of them.      *)
LEMMA Least ==
    ASSUME NEW S, S \subseteq Nat, S # {}
    PROVE  \E x \in S : \A y \in S : x <= y
<1> DEFINE R == { ss \in Nat \X Nat : ss[1] < ss[2] }
<1>1. IsWellFoundedOn(R, Nat)
  BY NatLessThanWellFounded, Zenon DEF OpToRel
<1> HIDE DEF R
<1>2. PICK x \in S : \A y \in S : ~ (<<y, x>> \in R)
  BY <1>1, WFMin, Zenon
<1>3. \A y \in S : ~ (y < x)
  BY <1>2 DEF R
<1> QED
  BY <1>3

LEMMA Induction ==
    ASSUME NEW S, 0 \in S, \A n \in Nat : n \in S => n + 1 \in S
    PROVE  Nat \subseteq S
<1> SUFFICES ASSUME Nat \ S # {} PROVE FALSE
  OBVIOUS
<1>1. PICK x \in Nat \ S : \A y \in Nat \ S : x <= y
  BY Least
<1>2. x # 0 /\ x - 1 \in Nat
  OBVIOUS
<1>3. x - 1 \in S
  BY <1>1, <1>2
<1> QED
  BY <1>2, <1>3
-----------------------------------------------------------------------------
(* FlattenSeq, by the equations it is meant to satisfy.                    *)
Flattens(f, s) ==
    f = [i \in 1 .. Len(s) |-> IF i = 1 THEN s[i] ELSE f[i - 1] \o s[i]]
Flat(s) == CHOOSE f : Flattens(f, s)

LEMMA FlattenIsFlat ==
    ASSUME NEW s
    PROVE  FlattenSeq(s) = IF Len(s) = 0 THEN s ELSE Flat(s)[Len(s)]
BY Zenon DEF FlattenSeq, Flat, Flattens

LEMMA FlattensUnique ==
    ASSUME NEW s, Len(s) \in Nat, NEW f, NEW g, Flattens(f, s), Flattens(g, s)
    PROVE  f = g
<1> DEFINE F == [i \in 1 .. Len(s) |-> IF i = 1 THEN s[i] ELSE f[i - 1] \o s[i]]
           G == [i \in 1 .. Len(s) |-> IF i = 1 THEN s[i] ELSE g[i - 1] \o s[i]]
           Bad == { i \in 1 .. Len(s) : f[i] # g[i] }
<1>1. f = F /\ g = G
  BY DEF Flattens
<1>2. \A i \in 1 .. Len(s) :
         /\ f[i] = IF i = 1 THEN s[i] ELSE f[i - 1] \o s[i]
         /\ g[i] = IF i = 1 THEN s[i] ELSE g[i - 1] \o s[i]
  <2>1. \A i \in 1 .. Len(s) :
         /\ F[i] = IF i = 1 THEN s[i] ELSE f[i - 1] \o s[i]
         /\ G[i] = IF i = 1 THEN s[i] ELSE g[i - 1] \o s[i]
    OBVIOUS
  <2> HIDE DEF F, G
  <2> QED
    BY <2>1, <1>1
<1>3. Bad = {}
  <2> SUFFICES ASSUME Bad # {} PROVE FALSE
    OBVIOUS
  <2>1. PICK i \in Bad : \A j \in Bad : i <= j
    <3>1. Bad \subseteq Nat
      OBVIOUS
    <3> HIDE DEF Bad
    <3> QED
      BY <3>1, Least
  <2>2. i # 1 => i - 1 \in 1 .. Len(s) /\ i - 1 \notin Bad
    BY <2>1
  <2> HIDE DEF F, G
  <2> QED
    BY <2>1, <2>2, <1>2
<1>4. F = G
  <2>1. \A i \in 1 .. Len(s) :
           i # 1 => i - 1 \in 1 .. Len(s) /\ f[i - 1] = g[i - 1]
    BY <1>3
  <2> QED
    BY <2>1
<1> QED
  BY <1>1, <1>4

LEMMA FlattensExists ==
    ASSUME NEW A, NEW s \in Seq(Seq(A))
    PROVE  Flattens(Flat(s), s) /\ Flat(s) \in [1 .. Len(s) -> Seq(A)]
<1> DEFINE Eq(f, n) == \A i \in 1 .. n :
                           f[i] = IF i = 1 THEN s[i] ELSE f[i - 1] \o s[i]
           P(n) == n <= Len(s) => \E f \in [1 .. n -> Seq(A)] : Eq(f, n)
           S == { n \in Nat : P(n) }
<1>1. P(0)
  <2>1. <<>> \in [1 .. 0 -> Seq(A)] /\ Eq(<<>>, 0)
    OBVIOUS
  <2> QED
    BY <2>1
<1>2. ASSUME NEW n \in Nat, P(n)
      PROVE  P(n + 1)
  <2> SUFFICES ASSUME n + 1 <= Len(s)
               PROVE  \E f \in [1 .. n + 1 -> Seq(A)] : Eq(f, n + 1)
    OBVIOUS
  <2>0. n <= Len(s)
    OBVIOUS
  <2>1. PICK f \in [1 .. n -> Seq(A)] : Eq(f, n)
    <3> HIDE DEF Eq
    <3> QED
      BY <1>2, <2>0
  <2>2. \A i \in 1 .. n + 1 :
           (IF i = 1 THEN s[i] ELSE f[i - 1] \o s[i]) \in Seq(A)
    <3> SUFFICES ASSUME NEW i \in 1 .. n + 1, i # 1
                 PROVE  f[i - 1] \o s[i] \in Seq(A)
      OBVIOUS
    <3>1. f[i - 1] \in Seq(A) /\ s[i] \in Seq(A)
      OBVIOUS
    <3> QED
      BY <3>1, ConcatProperties
  <2> DEFINE g == [i \in 1 .. n + 1 |->
                     IF i = 1 THEN s[i] ELSE f[i - 1] \o s[i]]
  <2>3. g \in [1 .. n + 1 -> Seq(A)]
    BY <2>2
  <2>5. \A i \in 1 .. n + 1 :
           g[i] = IF i = 1 THEN s[i] ELSE f[i - 1] \o s[i]
    OBVIOUS
  <2> HIDE DEF g
  <2>4. ASSUME NEW i \in 1 .. n
        PROVE  g[i] = f[i]
    <3>1. f[i] = IF i = 1 THEN s[i] ELSE f[i - 1] \o s[i]
      BY <2>1
    <3> HIDE DEF Eq
    <3> QED
      BY <3>1, <2>5
  <2>6. \A i \in 1 .. n + 1 : i # 1 => i - 1 \in 1 .. n /\ g[i - 1] = f[i - 1]
    BY <2>4
  <2>7. Eq(g, n + 1)
    BY <2>5, <2>6
  <2> QED
    BY <2>3, <2>7
<1>3. Nat \subseteq S
  <2> HIDE DEF P
  <2>1. 0 \in S /\ \A n \in Nat : n \in S => n + 1 \in S
    BY <1>1, <1>2
  <2> HIDE DEF S
  <2> QED
    BY <2>1, Induction
<1>4. PICK f \in [1 .. Len(s) -> Seq(A)] : Eq(f, Len(s))
  <2> HIDE DEF P
  <2>1. P(Len(s))
    BY <1>3
  <2> QED
    BY <2>1 DEF P
<1> DEFINE h == [i \in 1 .. Len(s) |-> IF i = 1 THEN s[i] ELSE f[i - 1] \o s[i]]
<1>5. f = h
  BY <1>4
<1>6. Flattens(f, s)
  BY <1>5 DEF Flattens
<1>7. Flattens(Flat(s), s)
  BY <1>6 DEF Flat
<1> QED
  <2>1. Flat(s) = f
    BY <1>6, <1>7, FlattensUnique
  <2> QED
    BY <1>7, <2>1

(* What FlattenSeq yields: nothing of nothing, and one sequence more of    *)
(* one sequence more.                                                      *)
LEMMA FlattenType ==
    ASSUME NEW A, NEW s \in Seq(Seq(A))
    PROVE  FlattenSeq(s) \in Seq(A) /\ FlattenSeq(<<>>) = <<>>
<1>1. Len(s) = 0 => FlattenSeq(s) = s /\ s = <<>>
  BY FlattenIsFlat
<1>2. Len(s) # 0 => FlattenSeq(s) = Flat(s)[Len(s)] /\ Len(s) \in 1 .. Len(s)
  BY FlattenIsFlat
<1>3. Flat(s) \in [1 .. Len(s) -> Seq(A)]
  BY FlattensExists
<1>4. Len(<<>>) = 0
  OBVIOUS
<1>5. FlattenSeq(<<>>) = <<>>
  BY <1>4, FlattenIsFlat
<1> QED
  BY <1>1, <1>2, <1>3, <1>5

LEMMA FlattenAppend ==
    ASSUME NEW A, NEW s \in Seq(Seq(A)), NEW t \in Seq(A)
    PROVE  FlattenSeq(Append(s, t)) = FlattenSeq(s) \o t
<1> DEFINE u == Append(s, t)
           n == Len(s)
           F == Flat(u)
           G == [i \in 1 .. n |-> F[i]]
           E == [i \in 1 .. n + 1 |-> IF i = 1 THEN u[i] ELSE F[i - 1] \o u[i]]
           H == [i \in 1 .. n |-> IF i = 1 THEN s[i] ELSE G[i - 1] \o s[i]]
<1>1. u \in Seq(Seq(A)) /\ Len(u) = n + 1 /\ n \in Nat /\ u[n + 1] = t
      /\ \A i \in 1 .. n : u[i] = s[i]
  BY AppendProperties
<1> HIDE DEF u
<1>2. F = E
  BY <1>1, FlattensExists DEF Flattens
<1> HIDE DEF F
<1>3. \A i \in 1 .. n + 1 : F[i] = IF i = 1 THEN u[i] ELSE F[i - 1] \o u[i]
  <2>1. \A i \in 1 .. n + 1 : E[i] = IF i = 1 THEN u[i] ELSE F[i - 1] \o u[i]
    OBVIOUS
  <2> HIDE DEF E
  <2> QED
    BY <2>1, <1>2
<1>4. \A i \in 1 .. n : G[i] = H[i]
  <2> SUFFICES ASSUME NEW i \in 1 .. n PROVE G[i] = H[i]
    OBVIOUS
  <2>1. G[i] = F[i] /\ (i # 1 => G[i - 1] = F[i - 1])
    BY <1>1
  <2>2. H[i] = IF i = 1 THEN s[i] ELSE G[i - 1] \o s[i]
    OBVIOUS
  <2>3. F[i] = IF i = 1 THEN s[i] ELSE F[i - 1] \o s[i]
    BY <1>1, <1>3
  <2> HIDE DEF G, H
  <2> QED
    BY <2>1, <2>2, <2>3
<1>5. G = H
  BY <1>4
<1>6. G = Flat(s)
  <2>1. Flattens(G, s)
    BY <1>5 DEF Flattens
  <2>2. Flattens(Flat(s), s)
    BY FlattensExists
  <2> HIDE DEF G
  <2> QED
    BY <1>1, <2>1, <2>2, FlattensUnique
<1>7. FlattenSeq(u) = F[n + 1]
  BY <1>1, FlattenIsFlat DEF F
<1>8. CASE n = 0
  <2>1. s = <<>> /\ FlattenSeq(s) = <<>>
    <3>1. s = <<>>
      BY <1>8
    <3> QED
      BY <3>1, FlattenType
  <2>2. F[n + 1] = t
    BY <1>8, <1>3, <1>1
  <2>3. <<>> \o t = t
    BY ConcatEmptySeq
  <2> QED
    BY <1>7, <2>1, <2>2, <2>3 DEF u
<1>9. CASE n # 0
  <2>1. FlattenSeq(s) = Flat(s)[n]
    BY <1>9, FlattenIsFlat
  <2>2. G[n] = F[n]
    BY <1>1, <1>9
  <2> HIDE DEF G
  <2>3. FlattenSeq(s) = F[n]
    BY <1>6, <2>1, <2>2
  <2>4. F[n + 1] = F[n] \o t
    <3>1. n + 1 \in 1 .. n + 1 /\ n + 1 # 1 /\ (n + 1) - 1 = n
      BY <1>1, <1>9
    <3> QED
      BY <1>1, <1>3, <3>1
  <2> QED
    BY <1>7, <2>3, <2>4 DEF u
<1> QED
  BY <1>1, <1>8, <1>9

LEMMA Assoc ==
    ASSUME NEW A
    PROVE  \A a, b, c \in Seq(A) : (a \o b) \o c = a \o (b \o c)
BY ConcatAssociative

LEMMA AssocNat == \A a, b, c \in Seq(Nat) : (a \o b) \o c = a \o (b \o c)
BY Assoc

(* The same for two sequences of sequences, by induction on the second.    *)
LEMMA FlattenConcat ==
    ASSUME NEW A, NEW s \in Seq(Seq(A)), NEW t \in Seq(Seq(A))
    PROVE  FlattenSeq(s \o t) = FlattenSeq(s) \o FlattenSeq(t)
<1> DEFINE P(n) == \A u \in Seq(Seq(A)) : Len(u) = n =>
                      FlattenSeq(s \o u) = FlattenSeq(s) \o FlattenSeq(u)
           S == { n \in Nat : P(n) }
<1>1. P(0)
  <2> SUFFICES ASSUME NEW u \in Seq(Seq(A)), Len(u) = 0
               PROVE  FlattenSeq(s \o u) = FlattenSeq(s) \o FlattenSeq(u)
    OBVIOUS
  <2>1. u = <<>> /\ FlattenSeq(u) = <<>> /\ FlattenSeq(s) \in Seq(A)
    BY FlattenType
  <2> QED
    BY <2>1, ConcatEmptySeq
<1>2. ASSUME NEW n \in Nat, P(n)
      PROVE  P(n + 1)
  <2> SUFFICES ASSUME NEW u \in Seq(Seq(A)), Len(u) = n + 1
               PROVE  FlattenSeq(s \o u) = FlattenSeq(s) \o FlattenSeq(u)
    OBVIOUS
  <2>1. PICK v \in Seq(Seq(A)), x \in Seq(A) : u = Append(v, x)
    <3>1. u # <<>>
      OBVIOUS
    <3> QED
      BY <3>1, SequenceEmptyOrAppend
  <2>2. Len(v) = n
    BY <2>1, AppendProperties
  <2>3. s \o v \in Seq(Seq(A)) /\ s \o u = Append(s \o v, x)
    <3>1. s \o v \in Seq(Seq(A)) /\ <<x>> \in Seq(Seq(A))
      BY ConcatProperties
    <3>2. u = v \o <<x>> /\ Append(s \o v, x) = (s \o v) \o <<x>>
      BY <2>1, <3>1, AppendIsConcat
    <3> QED
      BY <3>1, <3>2, ConcatAssociative
  <2>4. FlattenSeq(s \o u) = FlattenSeq(s \o v) \o x
    BY <2>3, FlattenAppend
  <2>5. FlattenSeq(s \o v) = FlattenSeq(s) \o FlattenSeq(v)
    BY <1>2, <2>2
  <2>6. FlattenSeq(u) = FlattenSeq(v) \o x
    BY <2>1, FlattenAppend
  <2>7. FlattenSeq(s) \in Seq(A) /\ FlattenSeq(v) \in Seq(A)
    BY FlattenType
  <2>8. (FlattenSeq(s) \o FlattenSeq(v)) \o x = FlattenSeq(s) \o (FlattenSeq(v) \o x)
    <3> DEFINE y == FlattenSeq(s)
               z == FlattenSeq(v)
    <3>1. y \in Seq(A) /\ z \in Seq(A) /\ x \in Seq(A)
      BY <2>1, <2>7
    <3> HIDE DEF y, z
    <3>2. (y \o z) \o x = y \o (z \o x)
      BY <3>1, Assoc, SMTT(20)
    <3> QED
      BY <3>2 DEF y, z
  <2> QED
    BY <2>4, <2>5, <2>6, <2>8
<1>3. P(Len(t))
  <2> HIDE DEF P
  <2>1. 0 \in S /\ \A n \in Nat : n \in S => n + 1 \in S
    BY <1>1, <1>2
  <2>2. Len(t) \in Nat
    OBVIOUS
  <2> HIDE DEF S
  <2>3. Len(t) \in S
    BY <2>1, <2>2, Induction
  <2> QED
    BY <2>3 DEF S
<1> QED
  BY <1>3
-----------------------------------------------------------------------------
LEMMA SameBytes ==
    ASSUME NEW s \in Seq(Nat), NEW t \in Seq(Nat), Len(s) = Len(t),
           \A i \in 1 .. Len(s) : s[i] = t[i]
    PROVE  s = t
BY SeqEqual

LEMMA JoinedBytes ==
    ASSUME NEW s \in Seq(Nat), NEW t \in Seq(Nat)
    PROVE  /\ s \o t \in Seq(Nat) /\ Len(s \o t) = Len(s) + Len(t)
           /\ \A i \in 1 .. Len(s) + Len(t) :
                 (s \o t)[i] = IF i <= Len(s) THEN s[i] ELSE t[i - Len(s)]
BY ConcatProperties

LEMMA NoBytes ==
    ASSUME NEW s \in Seq(Nat)
    PROVE  /\ s \o <<>> = s /\ <<>> \o s = s
           /\ Len(s) = 0 <=> s = <<>>
OBVIOUS

LEMMA BeginningOf ==
    ASSUME NEW a \in Seq(Nat), NEW r \in Seq(Nat)
    PROVE  IsPrefix(a, a \o r)
<1> DEFINE c == a \o r
           n == Len(a)
<1>1. /\ c \in Seq(Nat) /\ Len(c) = n + Len(r) /\ n \in Nat /\ Len(r) \in Nat
      /\ \A i \in 1 .. n : c[i] = a[i]
  BY JoinedBytes
<1> HIDE DEF c
<1>2. SubSeq(c, 1, n) = a /\ SubSeq(a, 1, n) = a
  <2>1. /\ SubSeq(c, 1, n) \in Seq(Nat) /\ Len(SubSeq(c, 1, n)) = n
        /\ \A i \in 1 .. n : SubSeq(c, 1, n)[i] = c[i]
    BY <1>1
  <2>2. /\ SubSeq(a, 1, n) \in Seq(Nat) /\ Len(SubSeq(a, 1, n)) = n
        /\ \A i \in 1 .. n : SubSeq(a, 1, n)[i] = a[i]
    BY <1>1
  <2> DEFINE p == SubSeq(c, 1, n)
             q == SubSeq(a, 1, n)
  <2> HIDE DEF p, q
  <2>3. p = a
    BY <1>1, <2>1, SameBytes DEF p
  <2>4. q = a
    BY <1>1, <2>2, SameBytes DEF q
  <2> QED
    BY <2>3, <2>4 DEF p, q
<1>3. Len(a) <= Len(c)
  BY <1>1
<1>4. IsPrefix(a, c)
  BY <1>2, <1>3, Zenon DEF IsPrefix, n
<1> QED
  BY <1>4 DEF c

-----------------------------------------------------------------------------
(* What is left of a sequence after its first elements.                    *)
LEMMA Halves ==
    ASSUME NEW A, NEW s \in Seq(A), NEW n \in 0 .. Len(s)
    PROVE  /\ SubSeq(s, 1, n) \in Seq(A) /\ Len(SubSeq(s, 1, n)) = n
           /\ SubSeq(s, n + 1, Len(s)) \in Seq(A)
           /\ Len(SubSeq(s, n + 1, Len(s))) = Len(s) - n
           /\ \A i \in 1 .. Len(s) - n : SubSeq(s, n + 1, Len(s))[i] = s[n + i]
           /\ SubSeq(s, 1, n) \o SubSeq(s, n + 1, Len(s)) = s
<1>1. \A i \in 1 .. n : s[i] \in A
  OBVIOUS
<1>2. \A i \in n + 1 .. Len(s) : s[i] \in A
  OBVIOUS
<1>3. SubSeq(s, 1, n) \in Seq(A) /\ Len(SubSeq(s, 1, n)) = n
  BY <1>1, SubSeqProperties
<1>4. /\ SubSeq(s, n + 1, Len(s)) \in Seq(A)
      /\ Len(SubSeq(s, n + 1, Len(s))) = Len(s) - n
      /\ \A i \in 1 .. Len(s) - n : SubSeq(s, n + 1, Len(s))[i] = s[n + i]
  <2>1. n + 1 \in Int /\ Len(s) \in Int
    OBVIOUS
  <2> QED
    BY <2>1, <1>2, SubSeqProperties
<1>5. SubSeq(s, 1, n) \o SubSeq(s, n + 1, Len(s)) = s
  <2>1. 1 \in 1 .. Len(s) + 1 /\ n \in 1 - 1 .. Len(s) /\ Len(s) \in n .. Len(s)
    OBVIOUS
  <2>2. SubSeq(s, 1, n) \o SubSeq(s, n + 1, Len(s)) = SubSeq(s, 1, Len(s))
    BY <2>1, ConcatAdjacentSubSeq
  <2> QED
    BY <2>2, SubSeqFull
<1> QED
  BY <1>3, <1>4, <1>5

After(s, n) == SubSeq(s, n + 1, Len(s))

LEMMA AfterFacts ==
    ASSUME NEW s \in Seq(Nat), NEW n \in Nat, n <= Len(s)
    PROVE  /\ After(s, n) \in Seq(Nat) /\ Len(After(s, n)) = Len(s) - n
           /\ \A i \in 1 .. Len(s) - n : After(s, n)[i] = s[n + i]
<1>1. n \in 0 .. Len(s)
  OBVIOUS
<1> QED
  BY <1>1, Halves, Zenon DEF After

LEMMA ConcatIsLong ==
    ASSUME NEW u \in Seq(Nat), NEW n \in Nat, n <= Len(u),
           NEW a \in Seq(Nat), NEW b \in Seq(Nat), After(u, n) = a \o b
    PROVE  /\ Len(a) \in Nat /\ Len(b) \in Nat
           /\ n + Len(a) + Len(b) = Len(u)
           /\ \A i \in 1 .. Len(a) : u[n + i] = a[i]
           /\ \A i \in 1 .. Len(b) : u[n + Len(a) + i] = b[i]
<1>1. Len(a) \in Nat /\ Len(b) \in Nat /\ Len(u) \in Nat
  OBVIOUS
<1>2. /\ Len(u) - n = Len(a) + Len(b)
      /\ \A i \in 1 .. Len(a) + Len(b) :
            u[n + i] = IF i <= Len(a) THEN a[i] ELSE b[i - Len(a)]
  <2>1. /\ Len(After(u, n)) = Len(u) - n
        /\ \A i \in 1 .. Len(u) - n : After(u, n)[i] = u[n + i]
    BY AfterFacts
  <2>2. /\ Len(a \o b) = Len(a) + Len(b)
        /\ \A i \in 1 .. Len(a) + Len(b) :
              (a \o b)[i] = IF i <= Len(a) THEN a[i] ELSE b[i - Len(a)]
    BY ConcatProperties
  <2> QED
    BY <2>1, <2>2
<1>3. ASSUME NEW i \in 1 .. Len(b) PROVE u[n + Len(a) + i] = b[i]
  <2>1. /\ Len(a) + i \in 1 .. Len(a) + Len(b) /\ ~ (Len(a) + i <= Len(a))
        /\ (Len(a) + i) - Len(a) = i /\ n + (Len(a) + i) = n + Len(a) + i
    BY <1>1
  <2>2. u[n + (Len(a) + i)] = b[(Len(a) + i) - Len(a)]
    BY <1>2, <2>1
  <2> QED
    BY <2>1, <2>2
<1>4. \A i \in 1 .. Len(a) : u[n + i] = a[i]
  BY <1>1, <1>2
<1>5. n + Len(a) + Len(b) = Len(u)
  BY <1>1, <1>2
<1> QED
  BY <1>1, <1>3, <1>4, <1>5

LEMMA LengthAfter ==
    ASSUME NEW u \in Seq(Nat), NEW n \in Nat, n <= Len(u),
           NEW a \in Seq(Nat), NEW b \in Seq(Nat), After(u, n) = a \o b
    PROVE  n + Len(a) + Len(b) = Len(u)
BY ConcatIsLong

LEMMA AfterConcat ==
    ASSUME NEW u \in Seq(Nat), NEW n \in Nat, n <= Len(u),
           NEW a \in Seq(Nat), NEW b \in Seq(Nat), After(u, n) = a \o b
    PROVE  After(u, n + Len(a)) = b
<1> DEFINE k == n + Len(a)
           c == After(u, k)
<1>0. /\ Len(a) \in Nat /\ Len(b) \in Nat
      /\ n + Len(a) + Len(b) = Len(u)
      /\ \A i \in 1 .. Len(a) : u[n + i] = a[i]
      /\ \A i \in 1 .. Len(b) : u[n + Len(a) + i] = b[i]
  <2> HIDE DEF k, c
  <2> QED
    BY ConcatIsLong, ZenonT(40)
<1>1. /\ Len(a) \in Nat /\ Len(b) \in Nat /\ Len(u) \in Nat
      /\ k + Len(b) = Len(u) /\ k \in Nat /\ k <= Len(u)
      /\ \A i \in 1 .. Len(b) : u[k + i] = b[i]
  BY <1>0
<1> HIDE DEF k
<1>2. /\ c \in Seq(Nat) /\ Len(c) = Len(u) - k
      /\ \A i \in 1 .. Len(u) - k : c[i] = u[k + i]
  <2>1. c \in Seq(Nat) /\ Len(c) = Len(u) - k
    BY <1>1, AfterFacts
  <2>2. \A i \in 1 .. Len(u) - k : c[i] = u[k + i]
    BY <1>1, AfterFacts
  <2> QED
    BY <2>1, <2>2
<1> HIDE DEF c
<1>3. Len(c) = Len(b) /\ \A i \in 1 .. Len(c) : c[i] = b[i]
  <2>1. Len(u) - k = Len(b) /\ Len(c) = Len(b)
    BY <1>1, <1>2
  <2> QED
    BY <1>1, <1>2, <2>1
<1>4. c = b
  BY <1>2, <1>3, SeqEqual
<1> QED
  BY <1>4 DEF c, k
-----------------------------------------------------------------------------
(* What the chip stores for a frame, and for several.                      *)
LEMMA DivMod ==
    ASSUME NEW d \in Nat \ {0}, NEW n \in Nat
    PROVE  /\ n \div d \in Nat /\ n % d \in 0 .. d - 1
           /\ n = d * (n \div d) + (n % d)
OBVIOUS

LEMMA Parity ==
    ASSUME NEW n \in Nat
    PROVE  n % 2 \in {0, 1} /\ (n + 2 + (n % 2)) % 2 = 0
OBVIOUS

LEMMA StoredFacts ==
    ASSUME NEW f \in Seq(0 .. 255)
    PROVE  /\ f \in Seq(Nat) /\ Stored(f) \in Seq(Nat)
           /\ Len(Stored(f)) = Len(f) + 2 + (Len(f) % 2)
           /\ Len(Stored(f)) % 2 = 0
           /\ Stored(f)[1] * 256 + Stored(f)[2] = Len(f) + 2
           /\ \A i \in 1 .. Len(f) : Stored(f)[i + 2] = f[i]
<1> DEFINE n == Len(f) + 2
           q == n \div 256
           r == n % 256
           h == <<q, r>>
           p == IF Len(f) % 2 = 1 THEN <<0>> ELSE <<>>
<1>1. n \in Nat /\ Len(f) \in Nat
  OBVIOUS
<1>2. q \in Nat /\ r \in Nat /\ q * 256 + r = n
  <2>1. 256 \in Nat \ {0}
    OBVIOUS
  <2>2. q \in Nat /\ r \in 0 .. 256 - 1 /\ n = 256 * q + r
    <3> HIDE DEF n
    <3> QED
      BY <1>1, <2>1, DivMod, Zenon
  <2> HIDE DEF n, q, r
  <2> QED
    BY <2>2
<1>3. f \in Seq(Nat)
  <2>1. 0 .. 255 \subseteq Nat
    OBVIOUS
  <2> QED
    BY <2>1, SeqMonotonic
<1>4. p \in Seq(Nat) /\ Len(p) = Len(f) % 2
  <2>1. Len(f) % 2 \in {0, 1}
    BY <1>1, Parity
  <2>2. CASE Len(f) % 2 = 1
    BY <2>2
  <2>3. CASE Len(f) % 2 = 0
    BY <2>3
  <2> QED
    BY <2>1, <2>2, <2>3
<1> DEFINE v == h \o f
           w == v \o p
<1>5. Stored(f) = w
  BY DEF Stored
<1> HIDE DEF n, q, r, p
<1>6. h \in Seq(Nat) /\ Len(h) = 2 /\ h[1] = q /\ h[2] = r
  BY <1>2
<1> HIDE DEF h
<1>7. /\ v \in Seq(Nat) /\ Len(v) = Len(h) + Len(f)
      /\ \A i \in 1 .. Len(h) + Len(f) :
            v[i] = IF i <= Len(h) THEN h[i] ELSE f[i - Len(h)]
  BY <1>3, <1>6, ConcatProperties, Zenon
<1> HIDE DEF v
<1>8. /\ w \in Seq(Nat) /\ Len(w) = Len(v) + Len(p)
      /\ \A i \in 1 .. Len(v) + Len(p) :
            w[i] = IF i <= Len(v) THEN v[i] ELSE p[i - Len(v)]
  <2>1. v \in Seq(Nat) /\ p \in Seq(Nat)
    BY <1>4, <1>7
  <2> QED
    BY <2>1, ConcatProperties
<1> HIDE DEF w
<1>9. Len(p) \in {0, 1} /\ Len(w) % 2 = 0 /\ Len(w) = Len(f) + 2 + (Len(f) % 2)
  <2>1. Len(f) % 2 \in {0, 1} /\ (Len(f) + 2 + (Len(f) % 2)) % 2 = 0
    BY <1>1, Parity
  <2>2. Len(w) = Len(f) + 2 + (Len(f) % 2)
    <3> DEFINE e == Len(f) % 2
    <3>1. e \in {0, 1} /\ Len(p) = e
      BY <1>4, <2>1
    <3> HIDE DEF e
    <3>2. Len(w) = Len(f) + 2 + e
      BY <1>1, <1>6, <1>7, <1>8, <3>1
    <3> QED
      BY <3>2 DEF e
  <2> QED
    BY <1>4, <2>1, <2>2
<1>10. w[1] = q /\ w[2] = r
  <2>1. /\ 1 \in 1 .. Len(h) + Len(f) /\ 2 \in 1 .. Len(h) + Len(f)
        /\ 1 <= Len(h) /\ 2 <= Len(h)
    BY <1>1, <1>6
  <2>2. v[1] = q /\ v[2] = r
    BY <1>6, <1>7, <2>1
  <2>3. /\ 1 \in 1 .. Len(v) + Len(p) /\ 2 \in 1 .. Len(v) + Len(p)
        /\ 1 <= Len(v) /\ 2 <= Len(v)
    BY <1>1, <1>6, <1>7, <1>9
  <2>4. w[1] = v[1] /\ w[2] = v[2]
    BY <1>8, <2>3
  <2> QED
    BY <2>2, <2>4
<1>11. ASSUME NEW i \in 1 .. Len(f) PROVE w[i + 2] = f[i]
  <2>1. i + 2 \in 1 .. 2 + Len(f) /\ ~ (i + 2 <= 2) /\ (i + 2) - 2 = i
    BY <1>1
  <2>2. w[i + 2] = v[i + 2]
    <3>1. Len(v) = 2 + Len(f) /\ Len(p) \in Nat /\ Len(f) \in Nat
      BY <1>1, <1>6, <1>7, <1>9
    <3>2. i + 2 \in 1 .. Len(v) + Len(p) /\ i + 2 <= Len(v)
      BY <2>1, <3>1
    <3> QED
      BY <1>8, <3>2
  <2>3. v[i + 2] = f[(i + 2) - 2]
    BY <1>1, <1>6, <1>7, <2>1
  <2> QED
    BY <2>1, <2>2, <2>3
<1> QED
  BY <1>2, <1>3, <1>5, <1>8, <1>9, <1>10, <1>11 DEF n

LEMMA BytesType ==
    ASSUME NEW s \in Seq(Frames)
    PROVE  /\ [k \in 1 .. Len(s) |-> Stored(s[k])] \in Seq(Seq(Nat))
           /\ Bytes(s) \in Seq(Nat)
<1>1. \A k \in 1 .. Len(s) : Stored(s[k]) \in Seq(Nat)
  <2>1. \A k \in 1 .. Len(s) : s[k] \in Seq(0 .. 255)
    BY FramesAssumption
  <2> QED
    BY <2>1, StoredFacts
<1>2. [k \in 1 .. Len(s) |-> Stored(s[k])] \in Seq(Seq(Nat))
  BY <1>1
<1> QED
  BY <1>2, FlattenType DEF Bytes

LEMMA BytesConcat ==
    ASSUME NEW s \in Seq(Frames), NEW t \in Seq(Frames)
    PROVE  s \o t \in Seq(Frames) /\ Bytes(s \o t) = Bytes(s) \o Bytes(t)
<1> DEFINE m(u) == [k \in 1 .. Len(u) |-> Stored(u[k])]
<1>1. /\ s \o t \in Seq(Frames) /\ Len(s \o t) = Len(s) + Len(t)
      /\ \A i \in 1 .. Len(s) + Len(t) :
            (s \o t)[i] = IF i <= Len(s) THEN s[i] ELSE t[i - Len(s)]
  BY ConcatProperties
<1>2. m(s) \in Seq(Seq(Nat)) /\ m(t) \in Seq(Seq(Nat)) /\ m(s \o t) \in Seq(Seq(Nat))
  BY <1>1, BytesType
<1>3. /\ Len(m(s)) = Len(s) /\ Len(m(t)) = Len(t)
      /\ Len(m(s \o t)) = Len(s) + Len(t)
  BY <1>1
<1>4. /\ m(s) \o m(t) \in Seq(Seq(Nat)) /\ Len(m(s) \o m(t)) = Len(s) + Len(t)
      /\ \A i \in 1 .. Len(s) + Len(t) : (m(s) \o m(t))[i] =
             IF i <= Len(s) THEN m(s)[i] ELSE m(t)[i - Len(s)]
  <2> HIDE DEF m
  <2> QED
    BY <1>2, <1>3, ConcatProperties
<1>5. ASSUME NEW i \in 1 .. Len(s) + Len(t)
      PROVE  m(s \o t)[i] = (m(s) \o m(t))[i]
  <2>1. m(s \o t)[i] = Stored((s \o t)[i])
    BY <1>1
  <2>2. CASE i <= Len(s)
    <3>1. m(s)[i] = Stored(s[i])
      BY <2>2
    <3> QED
      BY <3>1, <2>1, <2>2, <1>1, <1>4
  <2>3. CASE ~ (i <= Len(s))
    <3>1. m(t)[i - Len(s)] = Stored(t[i - Len(s)])
      BY <2>3
    <3> QED
      BY <3>1, <2>1, <2>3, <1>1, <1>4
  <2> QED
    BY <2>2, <2>3
<1>6. m(s \o t) = m(s) \o m(t)
  <2> HIDE DEF m
  <2> QED
    BY <1>2, <1>3, <1>4, <1>5, SeqEqual
<1>7. FlattenSeq(m(s) \o m(t)) = FlattenSeq(m(s)) \o FlattenSeq(m(t))
  <2> HIDE DEF m
  <2> QED
    BY <1>2, FlattenConcat
<1> QED
  BY <1>1, <1>6, <1>7 DEF Bytes

LEMMA BytesNone == Bytes(<<>>) = <<>>
<1>1. [k \in 1 .. Len(<<>>) |-> Stored(<<>>[k])] = <<>>
  OBVIOUS
<1>2. <<>> \in Seq(Seq(Nat))
  OBVIOUS
<1>3. FlattenSeq(<<>>) = <<>>
  BY <1>2, FlattenType
<1> QED
  BY <1>1, <1>3 DEF Bytes

LEMMA BytesOne ==
    ASSUME NEW f \in Frames
    PROVE  Bytes(<<f>>) = Stored(f)
<1>1. Stored(f) \in Seq(Nat)
  BY FramesAssumption, StoredFacts
<1>2. [k \in 1 .. Len(<<f>>) |-> Stored(<<f>>[k])] = <<Stored(f)>>
  OBVIOUS
<1>4. <<>> \in Seq(Seq(Nat)) /\ <<Stored(f)>> = Append(<<>>, Stored(f))
  BY <1>1
<1>5. FlattenSeq(<<>>) = <<>>
  BY <1>4, FlattenType
<1>6. FlattenSeq(<<Stored(f)>>) = <<>> \o Stored(f)
  BY <1>1, <1>4, <1>5, FlattenAppend
<1>7. <<>> \o Stored(f) = Stored(f)
  BY <1>1, ConcatEmptySeq
<1> QED
  BY <1>2, <1>5, <1>6, <1>7 DEF Bytes
-----------------------------------------------------------------------------
(* Reception.  While no read has stopped short, j frames have been cut     *)
(* from the stream, or dropped whole; what has been handed out or queued   *)
(* is some of these, in their order; and the next byte that the driver     *)
(* will take for the beginning of a frame is that of frame j + 1.  While   *)
(* it cuts, the buffer ends with frame m, and the chip holds what has      *)
(* arrived since.                                                          *)
Rest(j, m) == SubSeq(arrived, j + 1, m)
TakenFrom(j) ==
    LET taken == handed \o ring IN
    \E pos \in [1 .. Len(taken) -> 1 .. j] :
        /\ \A i \in 1 .. Len(taken) : taken[i] = arrived[pos[i]]
        /\ \A i, k \in 1 .. Len(taken) : i < k => pos[i] < pos[k]
CuttingPhases == {"cutting", "no_memory"}
InStep(j, m) ==
    CASE phase = "idle" -> chip = Bytes(Rest(j, Len(arrived)))
      [] phase \in CuttingPhases ->
            /\ offset % 2 = 0
            /\ Uncut = Bytes(Rest(j, m))
            /\ chip = Bytes(Rest(m, Len(arrived)))
      [] OTHER -> temp_buffer \o chip = Bytes(Rest(j, Len(arrived)))
Along(j, m) ==
    /\ j <= m /\ m <= Len(arrived)
    /\ InStep(j, m) /\ TakenFrom(j)
    /\ ~spilled => handed \o ring = SubSeq(arrived, 1, j)

ReadingPhases == {"sizing", "reading", "refreshing"}
DriverTypes ==
    /\ phase \in {"idle"} \cup CuttingPhases \cup ReadingPhases
    /\ chip \in Seq(Nat) /\ temp_buffer \in Seq(Nat)
    /\ offset \in 0 .. Len(temp_buffer) /\ Len(temp_buffer) <= TEMP_SIZE
    /\ ring \in Seq(Seq(Nat)) /\ handed \in Seq(Seq(Nat))
    /\ high \in Nat /\ rx_bytes_available \in Nat
    /\ cut \in BOOLEAN /\ spilled \in BOOLEAN
    /\ arrived \in Seq(Frames)
    /\ \A i, k \in 1 .. Len(arrived) : arrived[i] = arrived[k] => i = k
    /\ phase = "sizing" => high * REGISTER <= Len(chip)
    /\ phase = "reading" => rx_bytes_available <= Len(chip)
    /\ phase \in ReadingPhases => offset = 0 /\ ring = <<>>
DriverInv == DriverTypes /\ (~cut => \E j, m \in Nat : Along(j, m))

LEMMA RestFacts ==
    ASSUME arrived \in Seq(Frames),
           NEW j \in Nat, NEW m \in Nat, j <= m, m <= Len(arrived)
    PROVE  /\ Rest(j, m) \in Seq(Frames) /\ Rest(j, j) = <<>>
           /\ \A k \in j .. m : Rest(j, k) \o Rest(k, m) = Rest(j, m)
           /\ j < m => /\ arrived[j + 1] \in Frames
                       /\ Rest(j, m) = <<arrived[j + 1]>> \o Rest(j + 1, m)
<1>1. Len(arrived) \in Nat
  OBVIOUS
<1>2. Rest(j, m) \in Seq(Frames)
  <2>1. j + 1 \in Int /\ m \in Int /\ \A i \in j + 1 .. m : arrived[i] \in Frames
    BY <1>1
  <2> QED
    BY <2>1, SubSeqProperties DEF Rest
<1>3. Rest(j, j) = <<>>
  <2>1. j + 1 \in Int /\ j \in Int /\ j < j + 1
    OBVIOUS
  <2> QED
    BY <2>1, SubSeqEmpty DEF Rest
<1>4. ASSUME NEW k \in j .. m PROVE Rest(j, k) \o Rest(k, m) = Rest(j, m)
  <2>1. /\ j + 1 \in 1 .. Len(arrived) + 1 /\ k \in (j + 1) - 1 .. Len(arrived)
        /\ m \in k .. Len(arrived)
    BY <1>1
  <2> QED
    BY <2>1, ConcatAdjacentSubSeq DEF Rest
<1>5. ASSUME j < m
      PROVE  /\ arrived[j + 1] \in Frames
             /\ Rest(j, m) = <<arrived[j + 1]>> \o Rest(j + 1, m)
  <2>1. j + 1 \in 1 .. Len(arrived) /\ m \in j + 1 .. Len(arrived)
    BY <1>1, <1>5
  <2> QED
    BY <2>1, SubSeqRecursiveFirst DEF Rest
<1> QED
  BY <1>2, <1>3, <1>4, <1>5

LEMMA BytesOfRest ==
    ASSUME arrived \in Seq(Frames),
           NEW j \in Nat, NEW m \in Nat, j <= m, m <= Len(arrived)
    PROVE  Bytes(Rest(j, m)) \in Seq(Nat) /\ Bytes(Rest(j, j)) = <<>>
BY RestFacts, BytesType, BytesNone

LEMMA BytesSplit ==
    ASSUME arrived \in Seq(Frames),
           NEW j \in Nat, NEW m \in Nat, NEW k \in Nat,
           j <= k, k <= m, m <= Len(arrived)
    PROVE  Bytes(Rest(j, k)) \o Bytes(Rest(k, m)) = Bytes(Rest(j, m))
<1>1. Rest(j, k) \in Seq(Frames) /\ Rest(k, m) \in Seq(Frames)
  <2>1. k <= Len(arrived)
    OBVIOUS
  <2> QED
    BY <2>1, RestFacts
<1>2. Rest(j, k) \o Rest(k, m) = Rest(j, m)
  <2>1. k \in j .. m /\ j <= m
    OBVIOUS
  <2> QED
    BY <2>1, RestFacts
<1> QED
  BY <1>1, <1>2, BytesConcat

(* The bytes of the frames from j + 1 begin with those of frame j + 1; no  *)
(* frame takes no bytes.                                                   *)
LEMMA BytesFirst ==
    ASSUME arrived \in Seq(Frames),
           NEW j \in Nat, NEW m \in Nat, j < m, m <= Len(arrived)
    PROVE  /\ arrived[j + 1] \in Frames
           /\ Bytes(Rest(j + 1, m)) \in Seq(Nat)
           /\ Bytes(Rest(j, m)) = Stored(arrived[j + 1]) \o Bytes(Rest(j + 1, m))
           /\ Bytes(Rest(j, m)) # <<>>
<1> DEFINE f == arrived[j + 1]
           r == Rest(j + 1, m)
<1>1. f \in Frames /\ Rest(j, m) = <<f>> \o r
  BY RestFacts
<1>2. r \in Seq(Frames)
  <2>1. j + 1 \in Nat /\ j + 1 <= m
    OBVIOUS
  <2> QED
    BY <2>1, RestFacts
<1>3. Stored(f) \in Seq(Nat) /\ Len(Stored(f)) # 0
  <2>1. f \in Seq(0 .. 255)
    BY <1>1, FramesAssumption
  <2>2. Len(f) \in Nat
    BY <2>1
  <2> HIDE DEF f
  <2>3. Len(f) % 2 \in {0, 1}
    BY <2>2, Parity
  <2>4. Stored(f) \in Seq(Nat) /\ Len(Stored(f)) = Len(f) + 2 + (Len(f) % 2)
    BY <2>1, StoredFacts
  <2> QED
    BY <2>2, <2>3, <2>4
<1> HIDE DEF f, r
<1>4. Bytes(Rest(j, m)) = Stored(f) \o Bytes(r)
  <2>1. <<f>> \in Seq(Frames)
    BY <1>1
  <2> QED
    BY <1>1, <1>2, <2>1, BytesConcat, BytesOne
<1>5. Bytes(r) \in Seq(Nat)
  BY <1>2, BytesType
<1>6. Stored(f) \o Bytes(r) # <<>>
  BY <1>3, <1>5, ConcatEqualIffEmpty
<1> QED
  BY <1>1, <1>4, <1>5, <1>6 DEF f, r
-----------------------------------------------------------------------------
(* In step, the driver finds frame j + 1 where it looks for it, and then   *)
(* looks for frame j + 2 where that begins.                                *)
LEMMA SameParity ==
    ASSUME NEW o \in Nat, o % 2 = 0, NEW n \in Nat
    PROVE  /\ (o + 2 + n) % 2 = n % 2
           /\ (o + (n + 2 + (n % 2))) % 2 = 0
           /\ n % 2 \in {0, 1}
OBVIOUS

LEMMA SmallMod ==
    ASSUME NEW n \in Nat, n < 65536
    PROVE  n % 65536 = n
OBVIOUS

LEMMA CutOne ==
    ASSUME DriverTypes, phase \in CuttingPhases, NEW j \in Nat, NEW m \in Nat,
           m <= Len(arrived), j < m, InStep(j, m)
    PROVE  LET f == arrived[j + 1]
               next == Past(offset + 2 + Len(f)) IN
           /\ f \in Frames /\ Len(f) \in Nat \ {0}
           /\ HasHeader /\ frame_len = Len(f)
           /\ offset + 2 + Len(f) <= Len(temp_buffer)
           /\ SubSeq(temp_buffer, offset + 3, offset + 2 + Len(f)) = f
           /\ next \in 0 .. Len(temp_buffer) /\ next % 2 = 0
           /\ After(temp_buffer, next) = Bytes(Rest(j + 1, m))
<1> DEFINE f == arrived[j + 1]
           a == Stored(f)
           b == Bytes(Rest(j + 1, m))
           k == Len(f)
           e == k % 2
<1>1. arrived \in Seq(Frames) /\ temp_buffer \in Seq(Nat)
      /\ offset \in 0 .. Len(temp_buffer) /\ Len(temp_buffer) < 65536
      /\ Len(temp_buffer) \in Nat
  BY SizesAssumption DEF DriverTypes
<1>2. offset % 2 = 0 /\ After(temp_buffer, offset) = Bytes(Rest(j, m))
  BY DEF InStep, Uncut, After, CuttingPhases
<1>3. f \in Frames /\ Bytes(Rest(j, m)) = a \o b
  BY <1>1, BytesFirst
<1>4. b \in Seq(Nat)
  BY <1>1, BytesFirst
<1>5. f \in Seq(0 .. 255) /\ k \in Nat \ {0}
  BY <1>3, FramesAssumption
<1> HIDE DEF f
<1>6. /\ f \in Seq(Nat) /\ a \in Seq(Nat) /\ Len(a) = k + 2 + e
      /\ a[1] * 256 + a[2] = k + 2
      /\ \A i \in 1 .. k : a[i + 2] = f[i]
  BY <1>5, StoredFacts
<1> DEFINE o == offset + Len(a)
<1>7. /\ o + Len(b) = Len(temp_buffer)
      /\ \A i \in 1 .. Len(a) : temp_buffer[offset + i] = a[i]
      /\ After(temp_buffer, o) = b
  <2>1. After(temp_buffer, offset) = a \o b
    BY <1>2, <1>3
  <2>2. /\ temp_buffer \in Seq(Nat) /\ offset \in Nat /\ offset <= Len(temp_buffer)
        /\ a \in Seq(Nat) /\ b \in Seq(Nat)
    BY <1>1, <1>4, <1>6
  <2>3. o = offset + Len(a)
    OBVIOUS
  <2> HIDE DEF a, b, k, e, o
  <2>4. o + Len(b) = Len(temp_buffer)
    <3>1. offset + Len(a) + Len(b) = Len(temp_buffer)
      BY <2>1, <2>2, LengthAfter
    <3> QED
      BY <3>1, <2>3, Zenon
  <2>5. \A i \in 1 .. Len(a) : temp_buffer[offset + i] = a[i]
    BY <2>1, <2>2, <2>3, ConcatIsLong, Zenon
  <2>6. After(temp_buffer, o) = b
    BY <2>1, <2>2, <2>3, AfterConcat, Zenon
  <2> QED
    BY <2>4, <2>5, <2>6
<1>8. /\ (offset + 2 + k) % 2 = e /\ (offset + (k + 2 + e)) % 2 = 0
      /\ e \in {0, 1}
  <2>1. offset \in Nat /\ offset % 2 = 0 /\ k \in Nat
    BY <1>1, <1>2, <1>5
  <2> HIDE DEF k
  <2> QED
    BY <2>1, SameParity
<1> HIDE DEF a, b, e
<1>9. /\ offset + 2 + k <= Len(temp_buffer) /\ HasHeader /\ k < 65536
      /\ (e = 1 => offset + 2 + k < Len(temp_buffer)) /\ Len(b) \in Nat
      /\ offset \in Nat /\ 1 \in 1 .. Len(a) /\ 2 \in 1 .. Len(a)
  <2>1. Len(b) \in Nat /\ offset \in Nat /\ o = offset + Len(a)
        /\ Len(a) = k + 2 + e /\ e \in {0, 1} /\ k \in Nat
        /\ o + Len(b) = Len(temp_buffer)
    BY <1>1, <1>4, <1>5, <1>6, <1>7, <1>8
  <2>2. Len(temp_buffer) < 65536 /\ Len(temp_buffer) \in Nat
    BY <1>1
  <2> HIDE DEF o, k
  <2> QED
    BY <2>1, <2>2 DEF HasHeader
<1>10. frame_len = k
  <2>1. temp_buffer[offset + 1] = a[1] /\ temp_buffer[offset + 2] = a[2]
    BY <1>7, <1>9
  <2>2. k % 65536 = k
    BY <1>5, <1>9, SmallMod
  <2>4. a[1] \in Nat /\ a[2] \in Nat
    <3>1. \A i \in 1 .. Len(a) : a[i] \in Nat
      BY <1>6
    <3>2. 1 \in 1 .. Len(a) /\ 2 \in 1 .. Len(a)
      BY <1>9
    <3> QED
      BY <3>1, <3>2
  <2>5. temp_buffer[offset + 1] * 256 + temp_buffer[offset + 2] - 2 = k
    <3> DEFINE x == a[1]
               y == a[2]
    <3>1. x \in Nat /\ y \in Nat /\ x * 256 + y = k + 2 /\ k \in Nat
      BY <1>5, <1>6, <2>4
    <3> HIDE DEF x, y, k
    <3>2. x * 256 + y - 2 = k
      BY <3>1
    <3> QED
      BY <2>1, <3>2 DEF x, y
  <2>6. frame_len = k % 65536
    BY <2>5 DEF frame_len
  <2> HIDE DEF k
  <2> QED
    BY <2>2, <2>6
<1> DEFINE next == Past(offset + 2 + k)
<1>11. next = offset + Len(a)
  <2>1. CASE e = 1
    <3>1. (offset + 2 + k) % 2 # 0 /\ offset + 2 + k < Len(temp_buffer)
      BY <2>1, <1>8, <1>9
    <3>2. next = offset + 2 + k + 1
      BY <3>1 DEF Past
    <3> HIDE DEF next
    <3> QED
      BY <3>2, <2>1, <1>5, <1>6, <1>9
  <2>2. CASE e = 0
    <3>1. (offset + 2 + k) % 2 = 0
      BY <2>2, <1>8
    <3>2. next = offset + 2 + k
      BY <3>1 DEF Past
    <3> HIDE DEF next
    <3> QED
      BY <3>2, <2>2, <1>5, <1>6, <1>9
  <2> QED
    BY <2>1, <2>2, <1>8
<1>12. next \in 0 .. Len(temp_buffer) /\ next % 2 = 0
  <2>1. next % 2 = 0
    BY <1>6, <1>8, <1>11
  <2>2. /\ next = o /\ o = offset + Len(a) /\ offset \in Nat
        /\ o + Len(b) = Len(temp_buffer) /\ Len(b) \in Nat
        /\ Len(temp_buffer) \in Nat /\ Len(a) \in Nat
    BY <1>1, <1>6, <1>7, <1>9, <1>11
  <2> HIDE DEF next, o
  <2>3. next \in 0 .. Len(temp_buffer)
    BY <2>2
  <2> QED
    BY <2>1, <2>3
<1>13. SubSeq(temp_buffer, offset + 3, offset + 2 + k) = f
  <2> DEFINE p == offset + 3
             q == offset + 2 + k
             c == SubSeq(temp_buffer, p, q)
  <2>1. /\ p \in Int /\ q \in Int /\ q - p + 1 = k
        /\ (k > 0 => p <= q)
        /\ \A i \in p .. q : temp_buffer[i] \in Nat
        /\ \A i \in 1 .. k : p + i - 1 = offset + (i + 2)
    <3>1. /\ offset \in Nat /\ k \in Nat /\ offset + 2 + k <= Len(temp_buffer)
          /\ Len(temp_buffer) \in Nat
      BY <1>1, <1>5, <1>9
    <3>2. \A i \in 1 .. Len(temp_buffer) : temp_buffer[i] \in Nat
      BY <1>1
    <3> HIDE DEF k
    <3>3. \A i \in p .. q : i \in 1 .. Len(temp_buffer)
      BY <3>1
    <3> QED
      BY <3>1, <3>2, <3>3
  <2> HIDE DEF p, q
  <2>2. /\ c \in Seq(Nat)
        /\ Len(c) = IF p <= q THEN q - p + 1 ELSE 0
        /\ \A i \in 1 .. q - p + 1 : c[i] = temp_buffer[p + i - 1]
    BY <2>1, SubSeqProperties
  <2> HIDE DEF c
  <2>3. Len(c) = k
    BY <2>1, <2>2, <1>5
  <2>4. ASSUME NEW i \in 1 .. k PROVE c[i] = f[i]
    <3>1. i + 2 \in 1 .. Len(a)
      BY <1>5, <1>6, <1>8
    <3>2. c[i] = temp_buffer[offset + (i + 2)]
      BY <2>1, <2>2
    <3>3. temp_buffer[offset + (i + 2)] = a[i + 2]
      BY <1>7, <3>1
    <3> QED
      BY <3>2, <3>3, <1>6
  <2>5. c = f
    BY <2>2, <2>3, <2>4, <1>6, SeqEqual
  <2> QED
    BY <2>5 DEF c, p, q
<1>14. After(temp_buffer, next) = b
  BY <1>7, <1>11
<1> HIDE DEF next
<1>15. /\ f \in Frames /\ k \in Nat \ {0} /\ HasHeader /\ frame_len = k
       /\ offset + 2 + k <= Len(temp_buffer)
  BY <1>3, <1>5, <1>9, <1>10
<1> QED
  BY <1>12, <1>13, <1>14, <1>15 DEF next, f, b
-----------------------------------------------------------------------------
LEMMA InitDriver == DriverInit => DriverInv
<1> SUFFICES ASSUME DriverInit PROVE DriverInv
  OBVIOUS
<1>1. DriverTypes
  <2>1. TEMP_SIZE \in Nat
    BY SizesAssumption
  <2>2. /\ <<>> \in Seq(Nat) /\ <<>> \in Seq(Seq(Nat)) /\ <<>> \in Seq(Frames)
        /\ Len(<<>>) = 0 /\ 0 \in 0 .. 0 /\ 0 <= TEMP_SIZE
        /\ \A i, k \in 1 .. 0 : <<>>[i] = <<>>[k] => i = k
    BY <2>1
  <2> QED
    BY <2>1, <2>2 DEF DriverInit, DriverTypes, ReadingPhases, CuttingPhases
<1>2. arrived \in Seq(Frames) /\ Len(arrived) = 0
  BY DEF DriverInit
<1>3. InStep(0, 0)
  <2>1. chip = <<>> /\ Bytes(Rest(0, Len(arrived))) = <<>>
    BY <1>2, BytesOfRest DEF DriverInit
  <2> QED
    BY <2>1 DEF InStep, DriverInit, CuttingPhases
<1>4. TakenFrom(0) /\ handed \o ring = SubSeq(arrived, 1, 0)
  <2>1. handed \o ring = <<>> /\ Len(<<>>) = 0
    BY DEF DriverInit
  <2>2. SubSeq(arrived, 1, 0) = <<>>
    BY DEF DriverInit
  <2>3. <<>> \in [1 .. 0 -> 1 .. 0]
    OBVIOUS
  <2>4. TakenFrom(0)
    <3> DEFINE t == handed \o ring
    <3>1. Len(t) = 0
      BY <2>1
    <3> HIDE DEF t
    <3>2. \A i \in 1 .. Len(t) : FALSE
      BY <3>1
    <3>3. \E pos \in [1 .. Len(t) -> 1 .. 0] : TRUE
      BY <2>3, <3>1
    <3>4. PICK pos \in [1 .. Len(t) -> 1 .. 0] :
             /\ \A i \in 1 .. Len(t) : t[i] = arrived[pos[i]]
             /\ \A i, k \in 1 .. Len(t) : i < k => pos[i] < pos[k]
      BY <3>2, <3>3
    <3> QED
      BY <3>4, Zenon DEF TakenFrom, t
  <2> QED
    BY <2>1, <2>2, <2>4
<1>5. Along(0, 0)
  BY <1>2, <1>3, <1>4 DEF Along
<1> QED
  BY <1>1, <1>5 DEF DriverInv

(* What is handed out or queued stays the same when a frame passes from    *)
(* the ring to the stack.                                                  *)
LEMMA HandOutKeeps ==
    ASSUME DriverTypes, HandOut(ring)
    PROVE  /\ handed' \o ring' = handed \o ring
           /\ handed' \in Seq(Seq(Nat)) /\ ring' \in Seq(Seq(Nat))
<1>1. handed \in Seq(Seq(Nat)) /\ ring \in Seq(Seq(Nat))
  BY DEF DriverTypes
<1>2. CASE ring = <<>>
  BY <1>1, <1>2 DEF HandOut
<1>3. CASE ring # <<>>
  <2> DEFINE h == Head(ring)
             t == Tail(ring)
  <2>1. handed' = Append(handed, h) /\ ring' = t
    BY <1>3 DEF HandOut
  <2>2. h \in Seq(Nat) /\ t \in Seq(Seq(Nat)) /\ ring = <<h>> \o t
    BY <1>1, <1>3, HeadTailProperties
  <2> HIDE DEF h, t
  <2>3. handed' = handed \o <<h>> /\ <<h>> \in Seq(Seq(Nat))
    BY <1>1, <2>1, <2>2, AppendIsConcat
  <2>4. (handed \o <<h>>) \o t = handed \o (<<h>> \o t)
    BY <1>1, <2>2, <2>3, Assoc
  <2> QED
    BY <1>1, <2>1, <2>2, <2>3, <2>4, AppendProperties
<1> QED
  BY <1>2, <1>3

LEMMA TakenStays ==
    ASSUME handed' \o ring' = handed \o ring, UNCHANGED arrived, NEW j, TakenFrom(j)
    PROVE  TakenFrom(j)'
BY DEF TakenFrom

LEMMA TakenFromMore ==
    ASSUME NEW j \in Nat, NEW m \in Nat, j <= m, TakenFrom(j)
    PROVE  TakenFrom(m)
<1> DEFINE n == Len(handed \o ring)
<1>1. PICK pos \in [1 .. n -> 1 .. j] :
         /\ \A i \in 1 .. n : (handed \o ring)[i] = arrived[pos[i]]
         /\ \A i, k \in 1 .. n : i < k => pos[i] < pos[k]
  BY DEF TakenFrom
<1>2. pos \in [1 .. n -> 1 .. m]
  BY <1>1
<1> QED
  BY <1>1, <1>2 DEF TakenFrom

(* Steps that leave what has arrived and what was taken as they were.      *)
LEMMA StaysAlong ==
    ASSUME UNCHANGED <<arrived, spilled>>, handed' \o ring' = handed \o ring,
           NEW j, NEW m, Along(j, m), InStep(j, m)'
    PROVE  Along(j, m)'
BY TakenStays DEF Along

Part(s, j, m) == SubSeq(s, j + 1, m)

LEMMA PartFacts ==
    ASSUME NEW s \in Seq(Frames), NEW j \in Nat, NEW m \in Nat, j <= m, m <= Len(s)
    PROVE  /\ Part(s, j, m) \in Seq(Frames) /\ Len(Part(s, j, m)) = m - j
           /\ \A i \in 1 .. m - j : Part(s, j, m)[i] = s[j + i]
<1> DEFINE p == j + 1
           c == SubSeq(s, p, m)
<1>1. /\ p \in Int /\ m \in Int /\ m - p + 1 = m - j /\ (p > m => m - j = 0)
      /\ \A i \in p .. m : s[i] \in Frames
      /\ \A i \in 1 .. m - j : p + i - 1 = j + i
  OBVIOUS
<1>2. c = Part(s, j, m)
  BY DEF Part
<1> HIDE DEF p
<1>3. /\ c \in Seq(Frames) /\ Len(c) = IF p <= m THEN m - p + 1 ELSE 0
      /\ \A i \in 1 .. m - p + 1 : c[i] = s[p + i - 1]
  BY <1>1, SubSeqProperties
<1> HIDE DEF c
<1>4. Len(c) = m - j
  BY <1>1, <1>3
<1>5. \A i \in 1 .. m - j : c[i] = s[p + i - 1]
  BY <1>1, <1>3
<1>6. \A i \in 1 .. m - j : c[i] = s[j + i]
  BY <1>1, <1>5
<1> QED
  BY <1>2, <1>3, <1>4, <1>6

LEMMA RestAppend ==
    ASSUME arrived \in Seq(Frames), NEW f \in Frames, arrived' = Append(arrived, f)
    PROVE  /\ arrived' \in Seq(Frames) /\ Len(arrived') = Len(arrived) + 1
           /\ \A i \in 1 .. Len(arrived) : arrived'[i] = arrived[i]
           /\ arrived'[Len(arrived) + 1] = f
           /\ \A j, m \in Nat : j <= m /\ m <= Len(arrived) =>
                /\ Rest(j, m)' = Rest(j, m)
                /\ Rest(j, Len(arrived))' = Rest(j, Len(arrived)) \o <<f>>
<1> DEFINE n == Len(arrived)
<1>1. /\ arrived' \in Seq(Frames) /\ Len(arrived') = n + 1 /\ n \in Nat
      /\ \A i \in 1 .. n : arrived'[i] = arrived[i]
      /\ arrived'[n + 1] = f
  BY AppendProperties
<1>2. ASSUME NEW j \in Nat, NEW m \in Nat, j <= m, m <= n
      PROVE  Rest(j, m)' = Rest(j, m)
  <2> DEFINE a == Part(arrived, j, m)
             b == Part(arrived', j, m)
  <2>1. m <= Len(arrived') /\ m <= Len(arrived)
    BY <1>1, <1>2
  <2>2. /\ a \in Seq(Frames) /\ Len(a) = m - j
        /\ \A i \in 1 .. m - j : a[i] = arrived[j + i]
    BY <2>1, <1>2, PartFacts
  <2>3. /\ b \in Seq(Frames) /\ Len(b) = m - j
        /\ \A i \in 1 .. m - j : b[i] = arrived'[j + i]
    BY <2>1, <1>1, <1>2, PartFacts
  <2>4. Rest(j, m)' = b /\ Rest(j, m) = a
    BY DEF Rest, Part
  <2> HIDE DEF a, b
  <2>5. \A i \in 1 .. Len(a) : a[i] = b[i]
    BY <1>1, <1>2, <2>2, <2>3
  <2>6. a = b
    BY <2>2, <2>3, <2>5, SeqEqual
  <2> QED
    BY <2>4, <2>6
<1>3. ASSUME NEW j \in Nat, j <= n
      PROVE  Rest(j, Len(arrived))' = Rest(j, n) \o <<f>>
  <2>1. /\ j + 1 \in 1 .. Len(arrived') /\ n + 1 \in j + 1 .. Len(arrived')
        /\ (n + 1) - 1 = n
    BY <1>1, <1>3
  <2>2. SubSeq(arrived', j + 1, n + 1)
           = SubSeq(arrived', j + 1, (n + 1) - 1) \o <<arrived'[n + 1]>>
    BY <1>1, <2>1, SubSeqRecursiveSecond
  <2>3. SubSeq(arrived', j + 1, n) = Rest(j, n)
    BY <1>1, <1>2, <1>3 DEF Rest
  <2>4. Rest(j, Len(arrived))' = SubSeq(arrived', j + 1, n + 1)
    BY <1>1 DEF Rest
  <2> HIDE DEF n
  <2> QED
    BY <1>1, <2>1, <2>2, <2>3, <2>4
<1> QED
  BY <1>1, <1>2, <1>3

LEMMA ArriveKeeps ==
    ASSUME DriverInv, NEW f \in Frames, Arrive(f)
    PROVE  DriverInv'
<1>1. /\ DriverTypes /\ chip \in Seq(Nat) /\ arrived \in Seq(Frames)
      /\ chip' = chip \o Stored(f) /\ arrived' = Append(arrived, f)
      /\ UNCHANGED <<phase, high, rx_bytes_available, temp_buffer, offset, ring,
                     handed, cut, spilled>>
      /\ f \notin ToSet(arrived)
  BY DEF DriverInv, DriverTypes, Arrive
<1>2. Stored(f) \in Seq(Nat)
  BY FramesAssumption, StoredFacts
<1>3. /\ chip' \in Seq(Nat) /\ Len(chip') = Len(chip) + Len(Stored(f))
      /\ Len(chip) \in Nat /\ Len(Stored(f)) \in Nat
  BY <1>1, <1>2, ConcatProperties
<1>4. /\ arrived' \in Seq(Frames) /\ Len(arrived') = Len(arrived) + 1
      /\ \A i \in 1 .. Len(arrived) : arrived'[i] = arrived[i]
      /\ arrived'[Len(arrived) + 1] = f
      /\ \A j, m \in Nat : j <= m /\ m <= Len(arrived) =>
           /\ Rest(j, m)' = Rest(j, m)
           /\ Rest(j, Len(arrived))' = Rest(j, Len(arrived)) \o <<f>>
  BY <1>1, RestAppend
<1>5. ASSUME NEW i \in 1 .. Len(arrived'), NEW k \in 1 .. Len(arrived'),
             arrived'[i] = arrived'[k]
      PROVE  i = k
  <2>1. \A a \in 1 .. Len(arrived) : arrived[a] # f
    BY <1>1 DEF ToSet
  <2>2. \A a, b \in 1 .. Len(arrived) : arrived[a] = arrived[b] => a = b
    BY <1>1 DEF DriverTypes
  <2>3. Len(arrived) \in Nat
    BY <1>1
  <2>4. \A a \in 1 .. Len(arrived') : a \in 1 .. Len(arrived) \/ a = Len(arrived) + 1
    BY <1>4, <2>3
  <2>5. i \in 1 .. Len(arrived) <=> k \in 1 .. Len(arrived)
    BY <1>4, <1>5, <2>1, <2>4
  <2> QED
    BY <1>4, <1>5, <2>2, <2>4, <2>5
<1>6. DriverTypes'
  <2>1. phase = "sizing" => high * REGISTER <= Len(chip')
    <3>1. high * REGISTER \in Int
      BY SizesAssumption DEF DriverTypes, DriverInv
    <3> QED
      BY <1>1, <1>3, <3>1 DEF DriverTypes
  <2>2. phase = "reading" => rx_bytes_available <= Len(chip')
    BY <1>1, <1>3 DEF DriverTypes
  <2> QED
    BY <1>1, <1>3, <1>4, <1>5, <2>1, <2>2 DEF DriverTypes
<1>7. ASSUME ~cut', NEW j \in Nat, NEW m \in Nat, Along(j, m)
      PROVE  Along(j, m)'
  <2>1. /\ j <= m /\ m <= Len(arrived) /\ j <= Len(arrived)
        /\ Len(arrived) \in Nat
    BY <1>1, <1>7 DEF Along
  <2>2. m <= Len(arrived')
    BY <1>4, <2>1
  <2>3. ASSUME NEW k \in Nat, k <= Len(arrived)
        PROVE  /\ Bytes(Rest(k, Len(arrived)))' =
                     Bytes(Rest(k, Len(arrived))) \o Stored(f)
               /\ Bytes(Rest(k, Len(arrived))) \in Seq(Nat)
    <3>0. Len(arrived) <= Len(arrived)
      BY <2>1
    <3>1. Rest(k, Len(arrived))' = Rest(k, Len(arrived)) \o <<f>>
      BY <1>4, <2>1, <2>3, <3>0, Zenon
    <3>2. Rest(k, Len(arrived)) \in Seq(Frames) /\ <<f>> \in Seq(Frames)
      <4>1. Rest(k, Len(arrived)) \in Seq(Frames)
        BY <1>1, <2>1, <2>3, <3>0, RestFacts
      <4>2. <<f>> \in Seq(Frames)
        OBVIOUS
      <4> QED
        BY <4>1, <4>2
    <3>3. Bytes(Rest(k, Len(arrived)) \o <<f>>)
             = Bytes(Rest(k, Len(arrived))) \o Stored(f)
      BY <3>2, BytesConcat, BytesOne
    <3> QED
      BY <3>1, <3>2, <3>3, BytesType
  <2>4. Rest(j, m)' = Rest(j, m)
    BY <1>4, <2>1
  <2>5. InStep(j, m)'
    <3>1. CASE phase = "idle"
      BY <3>1, <1>1, <1>7, <2>1, <2>3 DEF Along, InStep, CuttingPhases
    <3>2. CASE phase \in CuttingPhases
      <4>1. Uncut' = Uncut
        BY <1>1 DEF Uncut
      <4>2. /\ offset % 2 = 0 /\ Uncut = Bytes(Rest(j, m))
            /\ chip = Bytes(Rest(m, Len(arrived)))
        BY <3>2, <1>7 DEF Along, InStep, CuttingPhases
      <4>3. Bytes(Rest(j, m))' = Bytes(Rest(j, m))
        BY <2>4
      <4>4. chip' = Bytes(Rest(m, Len(arrived)))'
        BY <1>1, <2>1, <2>3, <4>2
      <4>5. phase' \in CuttingPhases /\ offset' = offset
        BY <1>1, <3>2
      <4> QED
        BY <4>1, <4>2, <4>3, <4>4, <4>5 DEF InStep, CuttingPhases
    <3>3. CASE phase \in ReadingPhases
      <4>1. temp_buffer \o chip = Bytes(Rest(j, Len(arrived)))
        BY <3>3, <1>7 DEF Along, InStep, ReadingPhases, CuttingPhases
      <4>2. temp_buffer \in Seq(Nat)
        BY <1>1 DEF DriverTypes
      <4>3. temp_buffer \o (chip \o Stored(f)) = (temp_buffer \o chip) \o Stored(f)
        BY <1>1, <1>2, <4>2, AssocNat
      <4>4. (temp_buffer \o chip)' = Bytes(Rest(j, Len(arrived)))'
        BY <1>1, <2>1, <2>3, <4>1, <4>3
      <4> QED
        BY <3>3, <4>4, <1>1 DEF InStep, ReadingPhases, CuttingPhases
    <3> QED
      BY <3>1, <3>2, <3>3, <1>1 DEF DriverTypes
  <2>6. TakenFrom(j)'
    <3> DEFINE t == handed \o ring
    <3>1. PICK pos \in [1 .. Len(t) -> 1 .. j] :
            /\ \A i \in 1 .. Len(t) : t[i] = arrived[pos[i]]
            /\ \A i, k \in 1 .. Len(t) : i < k => pos[i] < pos[k]
      BY <1>7 DEF Along, TakenFrom
    <3> HIDE DEF t
    <3>2. \A i \in 1 .. Len(t) : pos[i] \in 1 .. Len(arrived)
      BY <3>1, <2>1
    <3>3. \A i \in 1 .. Len(t) : t[i] = arrived'[pos[i]]
      BY <3>1, <3>2, <1>4
    <3> QED
      BY <3>1, <3>3, <1>1 DEF TakenFrom, t
  <2>7. ~spilled' => (handed \o ring = SubSeq(arrived, 1, j))'
    <3>1. 0 <= j /\ 0 \in Nat /\ 0 + 1 = 1
      OBVIOUS
    <3>2. Rest(0, j)' = Rest(0, j)
      BY <1>4, <2>1, <3>1
    <3>3. SubSeq(arrived', 1, j) = SubSeq(arrived, 1, j)
      BY <3>1, <3>2 DEF Rest
    <3> QED
      BY <1>1, <1>7, <3>3 DEF Along
  <2> QED
    BY <2>1, <2>2, <2>5, <2>6, <2>7 DEF Along
<1> QED
  BY <1>1, <1>6, <1>7 DEF DriverInv

LEMMA TypeFacts ==
    ASSUME DriverTypes
    PROVE  /\ chip \in Seq(Nat) /\ Len(chip) \in Nat
           /\ temp_buffer \in Seq(Nat) /\ Len(temp_buffer) \in Nat
           /\ offset \in Nat /\ offset <= Len(temp_buffer)
           /\ Len(temp_buffer) <= TEMP_SIZE
           /\ arrived \in Seq(Frames) /\ Len(arrived) \in Nat
           /\ rx_bytes_available \in Nat /\ high \in Nat
           /\ TEMP_SIZE \in Nat /\ REGISTER \in Nat \ {0}
BY SizesAssumption DEF DriverTypes

LEMMA RingKeeps ==
    ASSUME DriverInv, RecvFromRing
    PROVE  DriverInv'
<1>1. /\ DriverTypes /\ HandOut(ring) /\ phase = "idle"
      /\ UNCHANGED <<chip, phase, high, rx_bytes_available, temp_buffer, offset,
                     arrived, cut, spilled>>
  BY DEF DriverInv, RecvFromRing
<1>2. /\ handed' \o ring' = handed \o ring
      /\ handed' \in Seq(Seq(Nat)) /\ ring' \in Seq(Seq(Nat))
  BY <1>1, HandOutKeeps
<1>3. DriverTypes'
  BY <1>1, <1>2 DEF DriverTypes, ReadingPhases, CuttingPhases
<1>4. ASSUME NEW j, NEW m, Along(j, m) PROVE Along(j, m)'
  <2>1. InStep(j, m)'
    BY <1>1, <1>4 DEF Along, InStep, Rest, CuttingPhases
  <2> QED
    BY <1>1, <1>2, <1>4, <2>1, StaysAlong
<1> QED
  BY <1>1, <1>3, <1>4 DEF DriverInv

(* The high byte of a size is no more than the size has.                   *)
LEMMA HighByte ==
    ASSUME DriverTypes
    PROVE  /\ Len(chip) \div REGISTER \in Nat
           /\ (Len(chip) \div REGISTER) * REGISTER <= Len(chip)
<1> DEFINE q == Len(chip) \div REGISTER
           r == Len(chip) % REGISTER
<1>1. /\ q \in Nat /\ r \in 0 .. REGISTER - 1 /\ Len(chip) = REGISTER * q + r
      /\ REGISTER \in Nat /\ Len(chip) \in Nat
  BY TypeFacts, DivMod
<1> HIDE DEF q, r
<1>2. q * REGISTER \in Nat /\ q * REGISTER = REGISTER * q /\ r \in Nat
  BY <1>1
<1>3. q * REGISTER <= Len(chip)
  BY <1>1, <1>2
<1> QED
  BY <1>1, <1>3 DEF q

LEMMA AskKeeps ==
    ASSUME DriverInv, RecvFromChip \/ Refresh
    PROVE  DriverInv'
<1>1. DriverTypes /\ phase' = "sizing" /\ high' = Len(chip) \div REGISTER
      /\ UNCHANGED <<chip, rx_bytes_available, ring, arrived, handed, cut, spilled>>
  BY DEF DriverInv, RecvFromChip, Refresh
<1>2. \/ phase = "idle" /\ temp_buffer' = <<>> /\ offset' = 0 /\ ring = <<>>
      \/ phase = "refreshing" /\ temp_buffer' = temp_buffer /\ offset' = offset
  BY DEF RecvFromChip, Refresh
<1>3. DriverTypes'
  <2>1. high' \in Nat /\ high' * REGISTER <= Len(chip)
    BY <1>1, HighByte
  <2>2. /\ temp_buffer' \in Seq(Nat) /\ offset' \in 0 .. Len(temp_buffer')
        /\ Len(temp_buffer') <= TEMP_SIZE /\ offset' = 0 /\ ring = <<>>
    <3>1. TEMP_SIZE \in Nat /\ <<>> \in Seq(Nat) /\ Len(<<>>) = 0
      BY <1>1, TypeFacts
    <3> QED
      BY <1>1, <1>2, <3>1 DEF DriverTypes, ReadingPhases, CuttingPhases
  <2> QED
    BY <1>1, <2>1, <2>2 DEF DriverTypes, ReadingPhases, CuttingPhases
<1>4. ASSUME NEW j, NEW m, Along(j, m) PROVE Along(j, m)'
  <2>1. temp_buffer' \o chip = Bytes(Rest(j, Len(arrived)))
    <3>1. <<>> \o chip = chip
      BY <1>1, TypeFacts, ConcatEmptySeq
    <3> QED
      BY <1>2, <1>4, <3>1 DEF Along, InStep, CuttingPhases
  <2>2. InStep(j, m)'
    BY <1>1, <2>1 DEF InStep, Rest, CuttingPhases
  <2> QED
    BY <1>1, <1>4, <2>2, StaysAlong
<1> QED
  BY <1>1, <1>3, <1>4 DEF DriverInv

(* A size read a byte at a time, from a register that grows meanwhile, is  *)
(* never more than the register's last value.                              *)
LEMMA TornSize ==
    ASSUME DriverTypes, phase = "sizing"
    PROVE  high * REGISTER + (Len(chip) % REGISTER) \in 0 .. Len(chip)
<1> DEFINE n == Len(chip)
           q == n \div REGISTER
           r == n % REGISTER
<1>1. /\ q \in Nat /\ r \in 0 .. REGISTER - 1 /\ n = REGISTER * q + r
      /\ REGISTER \in Nat /\ n \in Nat /\ high \in Nat /\ high * REGISTER <= n
  BY TypeFacts, DivMod DEF DriverTypes
<1> HIDE DEF n, q, r
<1>2. /\ high * REGISTER \in Nat /\ REGISTER * q \in Nat
      /\ REGISTER * (q + 1) = REGISTER * q + REGISTER
  BY <1>1
<1>3. ASSUME high >= q + 1 PROVE FALSE
  <2>1. high * REGISTER >= REGISTER * (q + 1)
    BY <1>1, <1>3
  <2> QED
    BY <1>1, <1>2, <2>1
<1>4. high * REGISTER <= REGISTER * q
  BY <1>1, <1>3
<1>5. high * REGISTER + r \in 0 .. n
  BY <1>1, <1>2, <1>4
<1> QED
  BY <1>5 DEF n, r

LEMMA ReadSizeKeeps ==
    ASSUME DriverInv, ReadSize
    PROVE  DriverInv'
<1>1. /\ DriverTypes /\ phase = "sizing"
      /\ rx_bytes_available' = high * REGISTER + (Len(chip) % REGISTER)
      /\ UNCHANGED <<chip, high, temp_buffer, offset, ring, arrived, handed, spilled>>
      /\ cut' = (cut \/ (phase' = "cutting" /\ chip # <<>>))
  BY DEF DriverInv, ReadSize
<1>2. phase' \in {"reading", "idle", "cutting"}
      /\ (phase' = "idle" => temp_buffer = <<>>)
  BY DEF ReadSize
<1>3. rx_bytes_available' \in 0 .. Len(chip)
  BY <1>1, TornSize
<1>4. offset = 0 /\ ring = <<>>
  BY <1>1 DEF DriverTypes, ReadingPhases, CuttingPhases
<1>5. DriverTypes'
  <2>1. /\ rx_bytes_available' \in Nat /\ rx_bytes_available' <= Len(chip')
        /\ cut' \in BOOLEAN /\ phase' # "sizing"
        /\ phase' \in {"idle"} \cup CuttingPhases \cup ReadingPhases
    BY <1>1, <1>2, <1>3, TypeFacts DEF ReadingPhases, DriverTypes, CuttingPhases
  <2> QED
    BY <1>1, <1>4, <2>1 DEF DriverTypes
<1>6. ASSUME ~cut', NEW j \in Nat, NEW m \in Nat, Along(j, m)
      PROVE  \E k, n \in Nat : Along(k, n)'
  <2>1. /\ j <= Len(arrived) /\ Len(arrived) \in Nat /\ arrived \in Seq(Frames)
        /\ temp_buffer \o chip = Bytes(Rest(j, Len(arrived)))
    <3>1. j <= m /\ m <= Len(arrived) /\ InStep(j, m)
      BY <1>6 DEF Along
    <3>2. Len(arrived) \in Nat /\ arrived \in Seq(Frames)
      BY <1>1, TypeFacts
    <3>3. temp_buffer \o chip = Bytes(Rest(j, Len(arrived)))
      BY <1>1, <3>1 DEF InStep, CuttingPhases
    <3> QED
      BY <3>1, <3>2, <3>3
  <2>2. CASE phase' = "reading"
    <3>1. InStep(j, m)'
      BY <2>1, <2>2, <1>1 DEF InStep, Rest, CuttingPhases
    <3> QED
      BY <1>1, <1>6, <3>1, StaysAlong
  <2>3. CASE phase' = "idle"
    <3>1. <<>> \o chip = chip
      BY <1>1, TypeFacts, ConcatEmptySeq
    <3>2. InStep(j, m)'
      BY <2>1, <2>3, <3>1, <1>1, <1>2 DEF InStep, Rest, CuttingPhases
    <3> QED
      BY <1>1, <1>6, <3>2, StaysAlong
  <2>4. CASE phase' = "cutting"
    <3> DEFINE n == Len(arrived)
    <3>1. chip = <<>> /\ n \in Nat /\ j <= n /\ n <= n
      <4>1. chip = <<>>
        BY <1>1, <1>6, <2>4, Zenon
      <4> QED
        BY <2>1, <4>1
    <3>2. Uncut' = Bytes(Rest(j, n))
      <4>1. Uncut' = SubSeq(temp_buffer, 1, Len(temp_buffer))
        BY <1>1, <1>4, <2>4 DEF Uncut
      <4>2. temp_buffer \o <<>> = temp_buffer
            /\ SubSeq(temp_buffer, 1, Len(temp_buffer)) = temp_buffer
        BY <1>1, TypeFacts, ConcatEmptySeq, SubSeqFull
      <4> QED
        BY <2>1, <3>1, <4>1, <4>2
    <3>3. chip = Bytes(Rest(n, n))
      BY <2>1, <3>1, BytesOfRest
    <3>4. offset % 2 = 0
      BY <1>4
    <3>5. InStep(j, n)'
      BY <3>2, <3>3, <3>4, <2>4, <1>1 DEF InStep, Rest, CuttingPhases
    <3>6. TakenFrom(j)' /\ (~spilled' => (handed \o ring = SubSeq(arrived, 1, j))')
      BY <1>1, <1>6, TakenStays DEF Along
    <3>7. Along(j, n)'
      BY <1>1, <3>1, <3>5, <3>6 DEF Along
    <3> QED
      BY <3>1, <3>7
  <2> QED
    BY <1>2, <2>2, <2>3, <2>4
<1>7. cut \in BOOLEAN
  BY <1>1 DEF DriverTypes
<1> QED
  BY <1>1, <1>5, <1>6, <1>7 DEF DriverInv

LEMMA ReadChunkKeeps ==
    ASSUME DriverInv, ReadChunk
    PROVE  DriverInv'
<1> DEFINE n == to_read
           a == SubSeq(chip, 1, n)
           b == SubSeq(chip, n + 1, Len(chip))
<1>1. /\ DriverTypes /\ phase = "reading" /\ phase' = "refreshing"
      /\ temp_buffer' = temp_buffer \o a /\ chip' = b
      /\ UNCHANGED <<high, rx_bytes_available, offset, ring, arrived, handed,
                     cut, spilled>>
  BY DEF DriverInv, ReadChunk
<1>2. n \in 0 .. Len(chip) /\ Len(temp_buffer) + n <= TEMP_SIZE
  <2>1. rx_bytes_available <= Len(chip)
    BY <1>1 DEF DriverTypes
  <2>2. /\ rx_bytes_available \in Nat /\ Len(chip) \in Nat /\ TEMP_SIZE \in Nat
        /\ Len(temp_buffer) \in Nat /\ Len(temp_buffer) <= TEMP_SIZE
    BY <1>1, TypeFacts
  <2> QED
    BY <2>1, <2>2 DEF to_read, Room
<1>3. chip \in Seq(Nat) /\ temp_buffer \in Seq(Nat) /\ Len(temp_buffer) \in Nat
  BY <1>1, TypeFacts
<1> HIDE DEF n
<1>4. a \in Seq(Nat) /\ Len(a) = n /\ b \in Seq(Nat) /\ a \o b = chip
  BY <1>2, <1>3, Halves
<1> HIDE DEF a, b
<1>5. temp_buffer \o a \in Seq(Nat) /\ Len(temp_buffer \o a) = Len(temp_buffer) + n
  BY <1>3, <1>4, ConcatProperties
<1>6. offset = 0 /\ ring = <<>>
  BY <1>1 DEF DriverTypes, ReadingPhases, CuttingPhases
<1>7. DriverTypes'
  <2>1. /\ temp_buffer' \in Seq(Nat) /\ Len(temp_buffer') <= TEMP_SIZE
        /\ offset' \in 0 .. Len(temp_buffer') /\ chip' \in Seq(Nat)
    BY <1>1, <1>2, <1>3, <1>4, <1>5, <1>6
  <2>2. phase' \in {"idle"} \cup CuttingPhases \cup ReadingPhases
        /\ phase' # "sizing" /\ phase' # "reading"
    BY <1>1 DEF ReadingPhases, CuttingPhases
  <2> QED
    BY <1>1, <1>6, <2>1, <2>2 DEF DriverTypes
<1>8. ASSUME NEW j, NEW m, Along(j, m) PROVE Along(j, m)'
  <2>1. temp_buffer' \o chip' = temp_buffer \o chip
    BY <1>1, <1>3, <1>4, AssocNat
  <2>2. temp_buffer \o chip = Bytes(Rest(j, Len(arrived)))
    BY <1>1, <1>8 DEF Along, InStep, CuttingPhases
  <2>3. InStep(j, m)'
    BY <1>1, <2>1, <2>2 DEF InStep, Rest, CuttingPhases
  <2> QED
    BY <1>1, <1>8, <2>3, StaysAlong
<1> QED
  BY <1>1, <1>7, <1>8 DEF DriverInv

(* The frame that is cut is the next of those that arrived.                *)
LEMMA CutTakes ==
    ASSUME DriverTypes, CutFrame, NEW j \in Nat, NEW m \in Nat, Along(j, m)
    PROVE  LET f == arrived[j + 1] IN
           /\ j < m /\ f \in Frames /\ f \in Seq(Nat)
           /\ SubSeq(temp_buffer, offset + 3, offset + 2 + frame_len) = f
           /\ offset' % 2 = 0 /\ Uncut' = Bytes(Rest(j + 1, m))
           /\ handed \o ring \in Seq(Seq(Nat))
           /\ handed' \o ring' = Append(handed \o ring, f)
<1> DEFINE c == SubSeq(temp_buffer, offset + 3, offset + 2 + frame_len)
           f == arrived[j + 1]
           t == handed \o ring
<1>1. /\ phase = "cutting" /\ FrameAt
      /\ ring' = Append(ring, c) /\ offset' = Past(offset + 2 + frame_len)
      /\ UNCHANGED <<chip, phase, temp_buffer, arrived, handed>>
  BY DEF CutFrame, AnotherFrame
<1>2. /\ ring \in Seq(Seq(Nat)) /\ handed \in Seq(Seq(Nat))
      /\ arrived \in Seq(Frames) /\ Len(arrived) \in Nat
  BY DEF DriverTypes
<1>3. j <= m /\ m <= Len(arrived) /\ InStep(j, m)
  BY DEF Along
<1>4. j < m
  <2> SUFFICES ASSUME j = m PROVE FALSE
    BY <1>2, <1>3
  <2>1. After(temp_buffer, offset) = <<>>
    BY <1>1, <1>2, <1>3, BytesOfRest DEF InStep, Uncut, After, CuttingPhases
  <2>2. Len(temp_buffer) - offset = 0
    BY <1>1, <2>1, TypeFacts, AfterFacts
  <2> QED
    BY <1>1, <2>2, TypeFacts DEF FrameAt, HasHeader
<1>5. /\ f \in Frames /\ frame_len = Len(f) /\ c = f
      /\ offset' % 2 = 0
      /\ After(temp_buffer, offset') = Bytes(Rest(j + 1, m))
  BY <1>1, <1>3, <1>4, CutOne DEF c, CuttingPhases
<1>6. Uncut' = Bytes(Rest(j + 1, m))
  BY <1>1, <1>5 DEF Uncut, After
<1>7. f \in Seq(Nat)
  <2>1. f \in Seq(0 .. 255)
    BY <1>5, FramesAssumption
  <2> HIDE DEF f
  <2> QED
    BY <2>1, StoredFacts
<1>8. t \in Seq(Seq(Nat))
  BY <1>2, ConcatProperties
<1>9. handed' \o ring' = Append(t, f)
  <2> DEFINE one == <<f>>
  <2>1. one \in Seq(Seq(Nat))
    BY <1>7
  <2>2. ring' = ring \o one
    BY <1>1, <1>2, <1>5, <1>7, AppendIsConcat
  <2>3. Append(t, f) = t \o one
    BY <1>7, <1>8, AppendIsConcat
  <2> HIDE DEF one
  <2>4. (handed \o ring) \o one = handed \o (ring \o one)
    BY <1>2, <2>1, Assoc, SMTT(20)
  <2> QED
    BY <1>1, <2>2, <2>3, <2>4
<1> QED
  BY <1>4, <1>5, <1>6, <1>7, <1>8, <1>9 DEF c

LEMMA CutKeeps ==
    ASSUME DriverInv, CutFrame
    PROVE  DriverInv'
<1> DEFINE c == SubSeq(temp_buffer, offset + 3, offset + 2 + frame_len)
<1>0. CutFrame
  OBVIOUS
<1>1. /\ DriverTypes /\ phase = "cutting" /\ FrameAt
      /\ ring' = Append(ring, c) /\ offset' = Past(offset + 2 + frame_len)
      /\ UNCHANGED <<chip, phase, high, rx_bytes_available, temp_buffer,
                     arrived, handed, cut, spilled>>
  BY DEF DriverInv, CutFrame, AnotherFrame
<1>2. /\ ring \in Seq(Seq(Nat)) /\ handed \in Seq(Seq(Nat))
      /\ arrived \in Seq(Frames) /\ Len(arrived) \in Nat
  BY <1>1 DEF DriverTypes
<1>3. c \in Seq(Nat) /\ offset' \in 0 .. Len(temp_buffer)
  <2> DEFINE p == offset + 3
             q == offset + 2 + frame_len
  <2>1. frame_len \in Nat
    <3>1. /\ temp_buffer[offset + 1] \in Nat /\ temp_buffer[offset + 2] \in Nat
      <4>1. /\ temp_buffer \in Seq(Nat) /\ offset \in Nat
            /\ Len(temp_buffer) \in Nat /\ offset + 2 <= Len(temp_buffer)
        BY <1>1, TypeFacts DEF FrameAt, HasHeader
      <4>2. offset + 1 \in 1 .. Len(temp_buffer) /\ offset + 2 \in 1 .. Len(temp_buffer)
        BY <4>1
      <4> QED
        BY <4>1, <4>2
    <3> DEFINE x == temp_buffer[offset + 1] * 256 + temp_buffer[offset + 2] - 2
    <3>2. x \in Int
      BY <3>1
    <3>3. frame_len = x % 65536
      BY DEF frame_len
    <3> HIDE DEF x
    <3> QED
      BY <3>2, <3>3
  <2>2. /\ p \in Int /\ q \in Nat /\ q <= Len(temp_buffer)
        /\ \A i \in p .. q : temp_buffer[i] \in Nat
    <3>1. /\ temp_buffer \in Seq(Nat) /\ offset \in Nat
          /\ Len(temp_buffer) \in Nat
          /\ offset + 2 + frame_len <= Len(temp_buffer)
      BY <1>1, TypeFacts DEF FrameAt
    <3>2. p \in Int /\ p >= 1 /\ q \in Nat /\ q <= Len(temp_buffer)
      BY <2>1, <3>1
    <3> HIDE DEF p, q
    <3> QED
      BY <3>1, <3>2
  <2>3. offset' = q \/ (offset' = q + 1 /\ q < Len(temp_buffer))
    BY <1>1 DEF Past
  <2>4. Len(temp_buffer) \in Nat
    BY <1>1, TypeFacts
  <2> HIDE DEF p, q
  <2>5. offset' \in 0 .. Len(temp_buffer)
    BY <2>2, <2>3, <2>4
  <2>6. SubSeq(temp_buffer, p, q) \in Seq(Nat)
    BY <2>2, SubSeqProperties
  <2> QED
    BY <2>5, <2>6 DEF p, q
<1> HIDE DEF c
<1>4. ring' \in Seq(Seq(Nat))
  BY <1>1, <1>2, <1>3, AppendProperties
<1>5. DriverTypes'
  BY <1>1, <1>3, <1>4 DEF DriverTypes, ReadingPhases, CuttingPhases
<1>6. ASSUME ~cut, NEW j \in Nat, NEW m \in Nat, Along(j, m)
      PROVE  Along(j + 1, m)'
  <2> DEFINE f == arrived[j + 1]
             t == handed \o ring
             u == handed \o ring'
  <2>1. /\ j <= m /\ m <= Len(arrived) /\ InStep(j, m) /\ TakenFrom(j)
        /\ (~spilled => t = SubSeq(arrived, 1, j))
    BY <1>6 DEF Along
  <2>2. /\ j < m /\ f \in Frames /\ f \in Seq(Nat) /\ offset' % 2 = 0
        /\ Uncut' = Bytes(Rest(j + 1, m))
        /\ t \in Seq(Seq(Nat)) /\ handed' \o ring' = Append(t, f)
    BY <1>0, <1>1, <1>6, CutTakes
  <2>4. InStep(j + 1, m)'
    <3>1. chip = Bytes(Rest(m, Len(arrived)))
      BY <1>1, <2>1 DEF InStep, CuttingPhases
    <3> QED
      BY <1>1, <2>2, <3>1 DEF InStep, Rest, CuttingPhases
  <2>5. u = Append(t, f)
    BY <1>1, <2>2
  <2>6. /\ Len(u) = Len(t) + 1 /\ Len(t) \in Nat /\ u[Len(t) + 1] = f
        /\ \A i \in 1 .. Len(t) : u[i] = t[i]
    <3> HIDE DEF t, u, f
    <3> QED
      BY <2>2, <2>5, AppendProperties
  <2>7. TakenFrom(j + 1)'
    <3>1. PICK pos \in [1 .. Len(t) -> 1 .. j] :
             /\ \A i \in 1 .. Len(t) : t[i] = arrived[pos[i]]
             /\ \A i, k \in 1 .. Len(t) : i < k => pos[i] < pos[k]
      BY <2>1 DEF TakenFrom
    <3> DEFINE new == [i \in 1 .. Len(u) |-> IF i = Len(u) THEN j + 1 ELSE pos[i]]
    <3>4. handed' \o ring' = u
      BY <1>1
    <3> HIDE DEF t, u
    <3>2. new \in [1 .. Len(u) -> 1 .. j + 1]
      BY <2>6, <3>1
    <3>3. /\ \A i \in 1 .. Len(u) : u[i] = arrived[new[i]]
          /\ \A i, k \in 1 .. Len(u) : i < k => new[i] < new[k]
      <4>1. ASSUME NEW i \in 1 .. Len(u)
            PROVE  u[i] = arrived[new[i]]
        BY <2>6, <3>1
      <4>2. ASSUME NEW i \in 1 .. Len(u), NEW k \in 1 .. Len(u), i < k
            PROVE  new[i] < new[k]
        <5>1. i \in 1 .. Len(t) /\ new[i] = pos[i] /\ pos[i] \in 1 .. j
          BY <2>6, <3>1, <4>2
        <5>2. CASE k = Len(u)
          BY <5>1, <5>2
        <5>3. CASE k # Len(u)
          <6>1. k \in 1 .. Len(t) /\ new[k] = pos[k]
            BY <5>3, <2>6
          <6> QED
            BY <5>1, <6>1, <3>1, <4>2
        <5> QED
          BY <5>2, <5>3
      <4> QED
        BY <4>1, <4>2
    <3> HIDE DEF new
    <3>5. \E at \in [1 .. Len(u) -> 1 .. j + 1] :
             /\ \A i \in 1 .. Len(u) : u[i] = arrived[at[i]]
             /\ \A i, k \in 1 .. Len(u) : i < k => at[i] < at[k]
      BY <3>2, <3>3, Zenon
    <3>6. arrived' = arrived
      BY <1>1
    <3> QED
      BY <3>4, <3>5, <3>6 DEF TakenFrom
  <2>8. ~spilled' => handed' \o ring' = SubSeq(arrived', 1, j + 1)
    <3> SUFFICES ASSUME ~spilled PROVE u = SubSeq(arrived, 1, j + 1)
      BY <1>1
    <3>1. t = SubSeq(arrived, 1, j)
      BY <2>1
    <3>2. /\ 1 \in 1 .. Len(arrived) /\ j + 1 \in 1 .. Len(arrived)
          /\ (j + 1) - 1 = j
      BY <1>2, <2>1, <2>2
    <3>3. SubSeq(arrived, 1, j + 1) = SubSeq(arrived, 1, (j + 1) - 1) \o <<f>>
      BY <1>2, <3>2, SubSeqRecursiveSecond
    <3>4. u = t \o <<f>>
      BY <2>2, <2>5, AppendIsConcat
    <3> HIDE DEF u, t, f
    <3> QED
      BY <3>1, <3>2, <3>3, <3>4
  <2>9. j + 1 <= m
    BY <2>2
  <2> QED
    BY <1>1, <2>1, <2>4, <2>7, <2>8, <2>9 DEF Along
<1>7. \A j \in Nat : j + 1 \in Nat
  OBVIOUS
<1> QED
  BY <1>1, <1>5, <1>6, <1>7 DEF DriverInv

(* Frame j + 1 is in the buffer as long as bytes are left there.           *)
LEMMA BytesLeft ==
    ASSUME DriverTypes, phase \in CuttingPhases, NEW j \in Nat, NEW m \in Nat,
           Along(j, m)
    PROVE  offset < Len(temp_buffer) <=> j < m
<1>1. /\ j <= m /\ m <= Len(arrived)
      /\ After(temp_buffer, offset) = Bytes(Rest(j, m))
  BY DEF Along, InStep, Uncut, After, CuttingPhases
<1>2. Len(After(temp_buffer, offset)) = Len(temp_buffer) - offset
  BY TypeFacts, AfterFacts
<1>3. After(temp_buffer, offset) \in Seq(Nat)
  BY TypeFacts, AfterFacts
<1>4. ASSUME j < m PROVE offset < Len(temp_buffer)
  <2>1. After(temp_buffer, offset) # <<>>
    BY <1>1, <1>4, TypeFacts, BytesFirst
  <2>2. Len(After(temp_buffer, offset)) # 0
    BY <1>3, <2>1, EmptySeq
  <2> QED
    BY <1>2, <2>2, TypeFacts
<1>5. ASSUME j = m PROVE ~ (offset < Len(temp_buffer))
  <2>1. After(temp_buffer, offset) = <<>>
    BY <1>1, <1>5, TypeFacts, BytesOfRest
  <2>2. Len(temp_buffer) - offset = 0
    BY <1>2, <2>1
  <2> QED
    BY <2>2, TypeFacts
<1> QED
  BY <1>1, <1>4, <1>5

LEMMA FailKeeps ==
    ASSUME DriverInv, PushFails
    PROVE  DriverInv'
<1>1. /\ DriverTypes /\ phase = "cutting" /\ phase' = "no_memory"
      /\ UNCHANGED <<chip, high, rx_bytes_available, temp_buffer, offset, ring,
                     arrived, handed, cut, spilled>>
  BY DEF DriverInv, PushFails, AnotherFrame
<1>2. DriverTypes'
  BY <1>1 DEF DriverTypes, ReadingPhases, CuttingPhases
<1>3. ASSUME NEW j, NEW m, Along(j, m) PROVE Along(j, m)'
  <2>1. Uncut' = Uncut
    BY <1>1 DEF Uncut
  <2>2. InStep(j, m)'
    BY <1>1, <1>3, <2>1 DEF Along, InStep, Rest, CuttingPhases
  <2> QED
    BY <1>1, <1>3, <2>2, StaysAlong
<1> QED
  BY <1>1, <1>2, <1>3 DEF DriverInv

LEMMA StopKeeps ==
    ASSUME DriverInv, StopCutting
    PROVE  DriverInv'
<1>1. /\ DriverTypes /\ HandOut(ring) /\ phase \in CuttingPhases /\ phase' = "idle"
      /\ spilled' = (spilled \/ offset < Len(temp_buffer))
      /\ UNCHANGED <<chip, high, rx_bytes_available, temp_buffer, offset,
                     arrived, cut>>
  BY DEF DriverInv, StopCutting, CuttingPhases
<1>2. /\ handed' \o ring' = handed \o ring
      /\ handed' \in Seq(Seq(Nat)) /\ ring' \in Seq(Seq(Nat))
  BY <1>1, HandOutKeeps
<1>3. DriverTypes'
  BY <1>1, <1>2 DEF DriverTypes, ReadingPhases, CuttingPhases
<1>4. ASSUME ~cut, NEW j \in Nat, NEW m \in Nat, Along(j, m) PROVE Along(m, m)'
  <2>1. /\ j <= m /\ m <= Len(arrived) /\ TakenFrom(j) /\ InStep(j, m)
        /\ (~spilled => handed \o ring = SubSeq(arrived, 1, j))
    BY <1>4 DEF Along
  <2>2. InStep(m, m)'
    <3>1. chip = Bytes(Rest(m, Len(arrived)))
      BY <1>1, <2>1 DEF InStep, CuttingPhases
    <3> QED
      BY <1>1, <3>1 DEF InStep, Rest, CuttingPhases
  <2>3. TakenFrom(m)'
    BY <1>1, <1>2, <2>1, TakenFromMore, TakenStays
  <2>4. ASSUME ~spilled' PROVE handed' \o ring' = SubSeq(arrived', 1, m)
    <3>1. ~spilled /\ ~ (offset < Len(temp_buffer))
      BY <1>1, <2>4, Zenon
    <3>2. j = m
      BY <1>1, <1>4, <2>1, <3>1, BytesLeft
    <3> QED
      BY <1>1, <1>2, <2>1, <3>1, <3>2
  <2>5. m <= m
    OBVIOUS
  <2> QED
    BY <1>1, <2>1, <2>2, <2>3, <2>4, <2>5 DEF Along
<1> QED
  BY <1>1, <1>3, <1>4 DEF DriverInv

LEMMA DriverStep ==
    ASSUME DriverInv, [DriverNext]_driverVars
    PROVE  DriverInv'
<1>1. CASE UNCHANGED driverVars
  <2>1. /\ UNCHANGED <<chip, phase, high, rx_bytes_available, temp_buffer>>
        /\ UNCHANGED <<offset, ring, arrived, handed, cut, spilled>>
    BY <1>1 DEF driverVars, recvVars
  <2>2. DriverTypes'
    BY <2>1 DEF DriverInv, DriverTypes, CuttingPhases, ReadingPhases
  <2>3. ASSUME NEW j \in Nat, NEW m \in Nat, Along(j, m)
        PROVE  Along(j, m)'
    <3>1. InStep(j, m)'
      BY <2>1, <2>3 DEF Along, InStep, Rest, Uncut, CuttingPhases, ReadingPhases
    <3>2. TakenFrom(j)'
      BY <2>1, <2>3 DEF Along, TakenFrom
    <3> QED
      BY <2>1, <2>3, <3>1, <3>2 DEF Along
  <2> QED
    BY <2>1, <2>2, <2>3 DEF DriverInv
<1>2. CASE DriverNext
  BY <1>2, ArriveKeeps, RingKeeps, AskKeeps, ReadSizeKeeps, ReadChunkKeeps,
     CutKeeps, FailKeeps, StopKeeps DEF DriverNext
<1> QED
  BY <1>1, <1>2

(* The inductive invariant of reception.                                   *)
THEOREM DriverInvariant == DriverSpec => []DriverInv
<1>1. DriverInit => DriverInv
  BY InitDriver
<1>2. DriverInv /\ [DriverNext]_driverVars => DriverInv'
  BY DriverStep
<1> QED
  BY <1>1, <1>2, PTL DEF DriverSpec
-----------------------------------------------------------------------------
LEMMA InStepNothingMissing == DriverInv => NothingMissing
<1> SUFFICES ASSUME DriverInv, ~cut, ~spilled
             PROVE  Bytes(arrived) = Bytes(handed \o ring) \o Uncut \o chip
  BY DEF NothingMissing, Held
<1>1. DriverTypes
  BY DEF DriverInv
<1>2. PICK j \in Nat, m \in Nat : Along(j, m)
  BY DEF DriverInv
<1> DEFINE n == Len(arrived)
<1>3. /\ arrived \in Seq(Frames) /\ n \in Nat /\ j <= m /\ m <= n /\ j <= n
      /\ n <= Len(arrived)
      /\ chip \in Seq(Nat) /\ temp_buffer \in Seq(Nat)
  BY <1>1, <1>2, TypeFacts DEF Along
<1> HIDE DEF n
<1>4. /\ handed \o ring = Rest(0, j) /\ arrived = Rest(0, n)
  <2>1. SubSeq(arrived, 1, n) = arrived
    BY <1>3, SubSeqFull DEF n
  <2>2. 0 + 1 = 1
    OBVIOUS
  <2> QED
    BY <1>2, <2>1, <2>2 DEF Along, Rest
<1>5. Bytes(arrived) = Bytes(Rest(0, j)) \o Bytes(Rest(j, n))
  <2>1. 0 \in Nat /\ 0 <= j
    OBVIOUS
  <2>2. Bytes(Rest(0, j)) \o Bytes(Rest(j, n)) = Bytes(Rest(0, n))
    BY <1>3, <2>1, BytesSplit, Zenon
  <2> QED
    BY <1>4, <2>2
<1>6. Uncut \o chip = Bytes(Rest(j, n)) /\ Uncut \in Seq(Nat)
  <2>1. CASE phase = "idle"
    BY <2>1, <1>2, <1>3, ConcatEmptySeq DEF Along, InStep, Uncut, n, CuttingPhases
  <2>2. CASE phase \in CuttingPhases
    <3>1. Uncut = Bytes(Rest(j, m)) /\ chip = Bytes(Rest(m, n))
      BY <2>2, <1>2 DEF Along, InStep, n, CuttingPhases
    <3>2. Bytes(Rest(j, m)) \o Bytes(Rest(m, n)) = Bytes(Rest(j, n))
      BY <1>3, BytesSplit, Zenon
    <3>3. Bytes(Rest(j, m)) \in Seq(Nat)
      BY <1>3, BytesOfRest DEF n
    <3> QED
      BY <3>1, <3>2, <3>3
  <2>3. CASE phase \in ReadingPhases
    <3>1. offset = 0 /\ temp_buffer \o chip = Bytes(Rest(j, n))
      BY <2>3, <1>1, <1>2 DEF Along, InStep, n, ReadingPhases, DriverTypes, CuttingPhases
    <3>2. SubSeq(temp_buffer, 1, Len(temp_buffer)) = temp_buffer /\ 0 + 1 = 1
      BY <1>3, SubSeqFull
    <3>3. Uncut = temp_buffer
      BY <2>3, <3>1, <3>2 DEF Uncut, ReadingPhases, CuttingPhases
    <3> QED
      BY <3>1, <3>3, <1>3
  <2> QED
    BY <1>1, <2>1, <2>2, <2>3 DEF DriverTypes
<1>7. Bytes(Rest(0, j)) \in Seq(Nat)
  <2>1. 0 \in Nat /\ 0 <= j
    OBVIOUS
  <2> QED
    BY <1>3, <2>1, BytesOfRest DEF n
<1>8. (Bytes(Rest(0, j)) \o Uncut) \o chip = Bytes(Rest(0, j)) \o (Uncut \o chip)
  BY <1>3, <1>6, <1>7, AssocNat
<1> QED
  BY <1>4, <1>5, <1>6, <1>8

LEMMA InStepInOrder == DriverInv => InOrder
<1> DEFINE taken == handed \o ring
<1> SUFFICES ASSUME DriverInv, ~cut
             PROVE  /\ ToSet(taken) \subseteq ToSet(arrived)
                    /\ \A i, k \in 1 .. Len(taken) :
                          i < k => Position(taken[i]) < Position(taken[k])
  BY DEF InOrder
<1>1. DriverTypes
  BY DEF DriverInv
<1>2. PICK j \in Nat, m \in Nat : Along(j, m)
  BY DEF DriverInv
<1>3. /\ arrived \in Seq(Frames) /\ Len(arrived) \in Nat /\ j <= Len(arrived)
      /\ \A i, k \in 1 .. Len(arrived) : arrived[i] = arrived[k] => i = k
      /\ taken \in Seq(Seq(Nat))
  <2>1. taken \in Seq(Seq(Nat))
    BY <1>1, ConcatProperties DEF DriverTypes
  <2>2. \A i, k \in 1 .. Len(arrived) : arrived[i] = arrived[k] => i = k
    BY <1>1 DEF DriverTypes
  <2> QED
    BY <1>1, <1>2, <2>1, <2>2, TypeFacts DEF Along
<1>4. PICK pos \in [1 .. Len(taken) -> 1 .. j] :
         /\ \A i \in 1 .. Len(taken) : taken[i] = arrived[pos[i]]
         /\ \A i, k \in 1 .. Len(taken) : i < k => pos[i] < pos[k]
  BY <1>2 DEF Along, TakenFrom
<1> HIDE DEF taken
<1>5. \A i \in 1 .. Len(taken) : pos[i] \in 1 .. Len(arrived)
  BY <1>3, <1>4
<1>6. ToSet(taken) \subseteq ToSet(arrived)
  <2>1. DOMAIN taken = 1 .. Len(taken) /\ DOMAIN arrived = 1 .. Len(arrived)
    BY <1>3
  <2> QED
    BY <1>4, <1>5, <2>1 DEF ToSet
<1>7. \A i \in 1 .. Len(taken) : Position(taken[i]) = pos[i]
  BY <1>3, <1>4, <1>5 DEF Position
<1> QED
  BY <1>4, <1>6, <1>7

(* Every frame accepted is handed out, queued, in the part of the buffer   *)
(* not yet cut, or in the chip, in order and with no byte missing, unless  *)
(* reading stopped short or bytes were dropped                             *)
(* (tsiplib_w5500_driver.c:93-238).                                        *)
THEOREM ReceptionMissesNothing == DriverSpec => []NothingMissing
BY DriverInvariant, InStepNothingMissing, PTL

(* As long as no read stopped short, what is handed out or queued arrived, *)
(* and keeps its order (tsiplib_w5500_driver.c:93-238).                    *)
THEOREM ReceptionInOrder == DriverSpec => []InOrder
BY DriverInvariant, InStepInOrder, PTL

(* What the driver holds is bytes, and so are its parts.                   *)
LEMMA HeldBytes ==
    ASSUME DriverTypes, NEW j \in Nat, NEW m \in Nat, Along(j, m)
    PROVE  /\ handed \o ring \in Seq(Frames)
           /\ Bytes(handed \o ring) \in Seq(Nat) /\ Uncut \in Seq(Nat)
           /\ Held \in Seq(Nat)
<1> DEFINE t == handed \o ring
<1>1. /\ arrived \in Seq(Frames) /\ Len(arrived) \in Nat /\ j <= Len(arrived)
      /\ chip \in Seq(Nat) /\ t \in Seq(Seq(Nat))
  BY TypeFacts, ConcatProperties DEF DriverTypes, Along
<1>2. PICK pos \in [1 .. Len(t) -> 1 .. j] :
         \A i \in 1 .. Len(t) : t[i] = arrived[pos[i]]
  BY DEF Along, TakenFrom
<1> HIDE DEF t
<1>3. ASSUME NEW i \in 1 .. Len(t) PROVE t[i] \in Frames
  <2>1. pos[i] \in 1 .. j /\ t[i] = arrived[pos[i]]
    BY <1>2
  <2> QED
    BY <1>1, <2>1
<1>4. t \in Seq(Frames)
  <2>1. Len(t) \in Nat /\ t = [i \in 1 .. Len(t) |-> t[i]]
    BY <1>1
  <2>2. [i \in 1 .. Len(t) |-> t[i]] \in Seq(Frames)
    BY <1>3, <2>1
  <2> QED
    BY <2>1, <2>2
<1>5. Bytes(t) \in Seq(Nat)
  BY <1>4, BytesType
<1>6. Uncut \in Seq(Nat)
  <2>1. After(temp_buffer, offset) \in Seq(Nat) /\ <<>> \in Seq(Nat)
    BY TypeFacts, AfterFacts
  <2> QED
    BY <2>1 DEF Uncut, After
<1>7. Held \in Seq(Nat)
  <2>1. Bytes(t) \o Uncut \in Seq(Nat)
    BY <1>5, <1>6, JoinedBytes
  <2> QED
    BY <1>1, <2>1, JoinedBytes DEF Held, t
<1> QED
  BY <1>4, <1>5, <1>6, <1>7 DEF t

(* Steps that only move bytes on.                                          *)
LEMMA HeldStays ==
    ASSUME DriverTypes, NEW j \in Nat, NEW m \in Nat, Along(j, m),
           handed' \o ring' = handed \o ring, Uncut' \o chip' = Uncut \o chip,
           Uncut' \in Seq(Nat), chip' \in Seq(Nat)
    PROVE  Held' = Held
<1> DEFINE b == Bytes(handed \o ring)
<1>1. b \in Seq(Nat) /\ Uncut \in Seq(Nat) /\ chip \in Seq(Nat)
  BY HeldBytes, TypeFacts
<1>2. Bytes(handed \o ring)' = b
  OBVIOUS
<1> HIDE DEF b
<1>3. (b \o Uncut) \o chip = b \o (Uncut \o chip)
  BY <1>1, AssocNat
<1>4. (b \o Uncut') \o chip' = b \o (Uncut' \o chip')
  BY <1>1, AssocNat
<1>5. Held = (b \o Uncut) \o chip
  BY DEF Held, b
<1> QED
  BY <1>2, <1>3, <1>4, <1>5 DEF Held

(* Bytes read from the chip go on in the buffer.                           *)
LEMMA ReadingHolds ==
    ASSUME DriverTypes, RecvFromRing \/ RecvFromChip \/ ReadSize \/ ReadChunk \/ Refresh
    PROVE  /\ handed' \o ring' = handed \o ring /\ Uncut' \o chip' = Uncut \o chip
           /\ Uncut' \in Seq(Nat) /\ chip' \in Seq(Nat)
<1>0. /\ chip \in Seq(Nat) /\ temp_buffer \in Seq(Nat) /\ <<>> \in Seq(Nat)
      /\ \A x \in Seq(Nat) : SubSeq(x, 1, Len(x)) = x /\ x \o <<>> = x /\ <<>> \o x = x
      /\ SubSeq(temp_buffer, offset + 1, Len(temp_buffer)) \in Seq(Nat)
      /\ Len(<<>>) = 0 /\ SubSeq(<<>>, 1, 0) = <<>>
  <2>1. After(temp_buffer, offset) \in Seq(Nat)
    BY TypeFacts, AfterFacts
  <2> QED
    BY <2>1, TypeFacts, SubSeqFull, NoBytes DEF After
<1>1. CASE RecvFromRing
  <2>1. handed' \o ring' = handed \o ring
    BY <1>1, HandOutKeeps DEF RecvFromRing
  <2> QED
    BY <1>0, <1>1, <2>1 DEF RecvFromRing, Uncut
<1>2. CASE RecvFromChip
  <2>1. Uncut = <<>> /\ chip' = chip /\ UNCHANGED <<handed, ring>>
    BY <1>2 DEF RecvFromChip, Uncut
  <2>2. Uncut' = <<>>
    BY <1>0, <1>2 DEF RecvFromChip, Uncut
  <2> QED
    BY <1>0, <2>1, <2>2
<1>3. CASE ReadSize \/ Refresh
  <2>1. UNCHANGED <<chip, temp_buffer, offset, handed, ring>> /\ phase # "idle"
    BY <1>3 DEF ReadSize, Refresh
  <2>2. Uncut = SubSeq(temp_buffer, offset + 1, Len(temp_buffer))
    BY <2>1 DEF Uncut
  <2>3. Uncut' = Uncut
    <3>1. CASE phase' = "idle"
      <4>1. temp_buffer = <<>> /\ offset = 0
        BY <1>3, <3>1 DEF ReadSize, Refresh, DriverTypes, ReadingPhases
      <4> QED
        BY <1>0, <2>2, <3>1, <4>1 DEF Uncut
    <3>2. CASE phase' # "idle"
      BY <2>1, <2>2, <3>2 DEF Uncut
    <3> QED
      BY <3>1, <3>2
  <2> QED
    BY <1>0, <2>1, <2>2, <2>3
<1>4. CASE ReadChunk
  <2> DEFINE n == to_read
             a == SubSeq(chip, 1, n)
             b == SubSeq(chip, n + 1, Len(chip))
  <2>1. /\ phase = "reading" /\ phase' = "refreshing" /\ offset = 0 /\ offset' = 0
        /\ UNCHANGED <<handed, ring>>
        /\ temp_buffer' = temp_buffer \o a /\ chip' = b
    BY <1>4 DEF ReadChunk, DriverTypes, ReadingPhases
  <2>2. n \in 0 .. Len(chip)
    <3>1. rx_bytes_available <= Len(chip)
      BY <2>1 DEF DriverTypes
    <3>2. /\ rx_bytes_available \in Nat /\ Len(chip) \in Nat /\ TEMP_SIZE \in Nat
          /\ Len(temp_buffer) \in Nat /\ Len(temp_buffer) <= TEMP_SIZE
      BY TypeFacts
    <3> QED
      BY <3>1, <3>2 DEF to_read, Room
  <2> HIDE DEF n
  <2>3. a \in Seq(Nat) /\ b \in Seq(Nat) /\ a \o b = chip
    BY <1>0, <2>2, Halves
  <2> HIDE DEF a, b
  <2>4. temp_buffer' \in Seq(Nat)
    BY <1>0, <2>1, <2>3, JoinedBytes
  <2>5. Uncut = temp_buffer /\ Uncut' = temp_buffer'
    <3>1. 0 + 1 = 1
      OBVIOUS
    <3>2. SubSeq(temp_buffer', 1, Len(temp_buffer')) = temp_buffer'
      BY <1>0, <2>4
    <3>3. SubSeq(temp_buffer, 1, Len(temp_buffer)) = temp_buffer
      BY <1>0
    <3>4. /\ Uncut = SubSeq(temp_buffer, 0 + 1, Len(temp_buffer))
          /\ Uncut' = SubSeq(temp_buffer', 0 + 1, Len(temp_buffer'))
      <4> HIDE DEF to_read
      <4> QED
        BY <2>1 DEF Uncut
    <3> QED
      BY <3>1, <3>2, <3>3, <3>4
  <2>6. (temp_buffer \o a) \o b = temp_buffer \o (a \o b)
    <3>1. temp_buffer \in Seq(Nat)
      BY <1>0
    <3>2. a \in Seq(Nat) /\ b \in Seq(Nat)
      BY <2>3
    <3> QED
      BY <3>1, <3>2, AssocNat
  <2> QED
    BY <2>1, <2>3, <2>4, <2>5, <2>6
<1> QED
  BY <1>1, <1>2, <1>3, <1>4

(* A frame that is cut stays where it was among the bytes held.            *)
LEMMA CuttingHolds ==
    ASSUME DriverTypes, CutFrame, NEW j \in Nat, NEW m \in Nat, Along(j, m)
    PROVE  Held' = Held
<1> DEFINE f == arrived[j + 1]
           g == Stored(f)
           t == handed \o ring
           b == Bytes(t)
           r == Bytes(Rest(j + 1, m))
<1>1. /\ j < m /\ f \in Frames /\ handed' \o ring' = Append(t, f) /\ Uncut' = r
  BY CutTakes
<1>2. phase = "cutting" /\ chip' = chip
  BY DEF CutFrame, AnotherFrame
<1>3. /\ arrived \in Seq(Frames) /\ m <= Len(arrived) /\ chip \in Seq(Nat)
      /\ t \in Seq(Frames) /\ b \in Seq(Nat)
  BY HeldBytes, TypeFacts DEF Along
<1>4. Uncut = g \o r /\ r \in Seq(Nat)
  <2>1. Uncut = Bytes(Rest(j, m))
    BY <1>2 DEF Along, InStep, CuttingPhases
  <2> QED
    BY <1>1, <1>3, <2>1, BytesFirst
<1>5. g \in Seq(Nat)
  BY <1>1, FramesAssumption, StoredFacts
<1>6. Bytes(Append(t, f)) = b \o g
  <2>1. <<f>> \in Seq(Frames) /\ Append(t, f) = t \o <<f>>
    BY <1>1, <1>3, AppendIsConcat
  <2> QED
    BY <1>1, <1>3, <2>1, BytesConcat, BytesOne
<1>7. Held' = ((b \o g) \o r) \o chip
  BY <1>1, <1>2, <1>6 DEF Held
<1>8. Held = (b \o (g \o r)) \o chip
  BY <1>4 DEF Held
<1> HIDE DEF b, g, r
<1>9. (b \o g) \o r = b \o (g \o r)
  BY <1>3, <1>4, <1>5, AssocNat
<1> QED
  BY <1>7, <1>8, <1>9

(* When cutting stops with nothing left to cut, nothing is lost.           *)
LEMMA StoppingHolds ==
    ASSUME DriverTypes, StopCutting, NEW j \in Nat, NEW m \in Nat, Along(j, m),
           ~ (offset < Len(temp_buffer))
    PROVE  Held' = Held
<1>1. /\ phase # "idle" /\ phase' = "idle" /\ chip' = chip /\ HandOut(ring)
  BY DEF StopCutting
<1>2. handed' \o ring' = handed \o ring
  BY <1>1, HandOutKeeps
<1>3. Uncut = <<>>
  <2>1. After(temp_buffer, offset) \in Seq(Nat) /\ Len(After(temp_buffer, offset)) = 0
    BY TypeFacts, AfterFacts
  <2>2. After(temp_buffer, offset) = <<>>
    BY <2>1, NoBytes
  <2> QED
    BY <1>1, <2>2 DEF Uncut, After
<1>4. Uncut' = <<>>
  BY <1>1 DEF Uncut
<1>5. chip \in Seq(Nat) /\ <<>> \in Seq(Nat)
  BY TypeFacts
<1> QED
  BY <1>1, <1>2, <1>3, <1>4, <1>5, HeldStays

(* As long as no read stopped short, every byte the driver holds stays, in *)
(* its order, through every step, unless cutting stops at a full ring, at  *)
(* a push that found no memory, or at a frame that is too long; whatever   *)
(* was lost before (tsiplib_w5500_driver.c:176-238).                       *)
THEOREM ReceptionDropsForAReason == DriverSpec => DropsForAReason
<1> DEFINE Reason == (~cut' /\ ~IsPrefix(Held, Held')) =>
            \/ phase = "no_memory"
            \/ phase = "cutting" /\ ring_is_full
            \/ phase = "cutting" /\ HasHeader /\ frame_len > ETH_MAX_FRAME_LEN
<1>1. ASSUME DriverInv, DriverNext PROVE Reason
  <2> SUFFICES ASSUME ~cut', phase # "no_memory", ~ (phase = "cutting" /\ ring_is_full),
                      ~ (phase = "cutting" /\ HasHeader /\ frame_len > ETH_MAX_FRAME_LEN)
               PROVE  IsPrefix(Held, Held')
    OBVIOUS
  <2>1. DriverTypes /\ ~cut
    <3>1. DriverTypes /\ cut \in BOOLEAN
      BY <1>1 DEF DriverInv, DriverTypes
    <3>2. cut' = cut \/ (cut' <=> (cut \/ (phase' = "cutting" /\ chip # <<>>)))
      BY <1>1 DEF DriverNext, Arrive, RecvFromRing, RecvFromChip, ReadSize, ReadChunk,
                  Refresh, CutFrame, PushFails, StopCutting
    <3> QED
      BY <3>1, <3>2, Zenon
  <2>2. PICK j \in Nat, m \in Nat : Along(j, m)
    BY <1>1, <2>1 DEF DriverInv
  <2>3. Held \in Seq(Nat) /\ chip \in Seq(Nat)
    BY <2>1, <2>2, HeldBytes, TypeFacts
  <2>4. SUFFICES ASSUME Held' # Held PROVE IsPrefix(Held, Held')
    <3>1. IsPrefix(Held, Held \o <<>>) /\ Held \o <<>> = Held
      <4>1. <<>> \in Seq(Nat)
        OBVIOUS
      <4> QED
        BY <2>3, <4>1, BeginningOf, NoBytes
    <3> QED
      BY <3>1
  <2>5. ASSUME NEW f \in Frames, Arrive(f) PROVE IsPrefix(Held, Held')
    <3> DEFINE b == Bytes(handed \o ring) \o Uncut
    <3>1. Stored(f) \in Seq(Nat)
      BY FramesAssumption, StoredFacts
    <3>2. b \in Seq(Nat)
      BY <2>1, <2>2, HeldBytes, JoinedBytes
    <3>3. Held' = b \o (chip \o Stored(f)) /\ Held = b \o chip
      BY <2>5 DEF Held, Arrive, Uncut
    <3> HIDE DEF b
    <3>4. Held' = Held \o Stored(f)
      BY <2>3, <3>1, <3>2, <3>3, AssocNat
    <3> QED
      BY <2>3, <3>1, <3>4, BeginningOf
  <2>6. ~ (RecvFromRing \/ RecvFromChip \/ ReadSize \/ ReadChunk \/ Refresh)
    BY <2>1, <2>2, <2>4, ReadingHolds, HeldStays
  <2>7. ~CutFrame
    BY <2>1, <2>2, <2>4, CuttingHolds
  <2>8. ~PushFails
    BY <2>4 DEF PushFails, AnotherFrame, Held, Uncut
  <2>9. ASSUME StopCutting PROVE FALSE
    <3>1. phase = "cutting" /\ ~FrameAt
      BY <2>9 DEF StopCutting, AnotherFrame
    <3>2. offset < Len(temp_buffer)
      BY <2>1, <2>2, <2>4, <2>9, StoppingHolds
    <3>3. j < m /\ m <= Len(arrived) /\ InStep(j, m)
      BY <2>1, <2>2, <3>1, <3>2, BytesLeft DEF Along, CuttingPhases
    <3> DEFINE f == arrived[j + 1]
    <3>4. /\ HasHeader /\ frame_len = Len(f) /\ Len(f) \in Nat \ {0}
          /\ offset + 2 + Len(f) <= Len(temp_buffer)
      BY <2>1, <3>1, <3>3, CutOne DEF CuttingPhases
    <3>5. ~ (frame_len <= ETH_MAX_FRAME_LEN)
      BY <3>1, <3>4 DEF FrameAt
    <3> QED
      BY <3>1, <3>4, <3>5, SizesAssumption
  <2> QED
    BY <1>1, <2>5, <2>6, <2>7, <2>8, <2>9 DEF DriverNext
<1>2. [DriverNext]_driverVars /\ DriverInv => [Reason]_driverVars
  BY <1>1
<1> QED
  BY <1>2, DriverInvariant, PTL DEF DriverSpec, DropsForAReason
-----------------------------------------------------------------------------
(* Sending.  The chip's pointers and addresses go round: what the model    *)
(* needs of the remainder, first for a number within a few turns.          *)
LEMMA Remainder ==
    ASSUME NEW d \in Nat \ {0}, NEW y \in Int, NEW q \in Int, NEW r \in 0 .. d - 1,
           y = d * q + r
    PROVE  y % d = r
<1> DEFINE q2 == y \div d
           r2 == y % d
<1>1. q2 \in Int /\ r2 \in 0 .. d - 1 /\ y = d * q2 + r2
  OBVIOUS
<1> HIDE DEF q2, r2
<1>2. d * q \in Int /\ d * q2 \in Int
  BY <1>1
<1>3. ASSUME NEW a \in Int, NEW b \in Int, a > b
      PROVE  d * a >= d * b + d
  <2>1. a - b - 1 \in Nat
    BY <1>3
  <2>2. d * (a - b - 1) \in Nat
    BY <2>1
  <2>3. d * (a - b - 1) = d * a - d * b - d
    OBVIOUS
  <2>4. d * a \in Int /\ d * b \in Int
    OBVIOUS
  <2> QED
    BY <2>2, <2>3, <2>4
<1>4. CASE q = q2
  BY <1>1, <1>2, <1>4 DEF r2
<1>5. CASE q > q2
  <2>1. d * q >= d * q2 + d
    BY <1>1, <1>3, <1>5
  <2> QED
    BY <1>1, <1>2, <2>1
<1>6. CASE q2 > q
  <2>1. d * q2 >= d * q + d
    BY <1>1, <1>3, <1>6
  <2> QED
    BY <1>1, <1>2, <2>1
<1> QED
  BY <1>1, <1>4, <1>5, <1>6

LEMMA NearRemainder ==
    ASSUME NEW d \in Nat \ {0}, NEW y \in Int
    PROVE  /\ y \in 0 .. d - 1 => y % d = y
           /\ y >= d /\ y < d + d => y % d = y - d
           /\ y < 0 /\ y >= -d => y % d = y + d
<1>1. y = d * 0 + y
  OBVIOUS
<1>2. y = d * 1 + (y - d)
  OBVIOUS
<1>3. y = d * (-1) + (y + d)
  OBVIOUS
<1>4. y \in 0 .. d - 1 => y % d = y
  BY <1>1, Remainder
<1>5. y >= d /\ y < d + d => y % d = y - d
  <2> SUFFICES ASSUME y >= d, y < d + d PROVE y % d = y - d
    OBVIOUS
  <2>1. y - d \in 0 .. d - 1
    OBVIOUS
  <2> QED
    BY <1>2, <2>1, Remainder
<1>6. y < 0 /\ y >= -d => y % d = y + d
  <2> SUFFICES ASSUME y < 0, y >= -d PROVE y % d = y + d
    OBVIOUS
  <2>1. y + d \in 0 .. d - 1 /\ -1 \in Int
    OBVIOUS
  <2> QED
    BY <1>3, <2>1, Remainder
<1> QED
  BY <1>4, <1>5, <1>6

LEMMA PointerFacts ==
    /\ TX_SIZE \in Nat \ {0} /\ POINTERS \in Nat \ {0} /\ TX_SIZE < POINTERS
    /\ \E c \in Nat : POINTERS = TX_SIZE * c
<1>1. TX_SIZE \in Nat \ {0} /\ POINTERS \in Nat \ {0} /\ TX_SIZE < POINTERS
  BY SendAssumption
<1>2. POINTERS % TX_SIZE = 0
  BY SendAssumption
<1> DEFINE c == POINTERS \div TX_SIZE
<1>3. c \in Nat /\ POINTERS = TX_SIZE * c + (POINTERS % TX_SIZE)
  BY <1>1, DivMod
<1>4. POINTERS = TX_SIZE * c
  <2> HIDE DEF c
  <2>1. TX_SIZE * c \in Nat
    BY <1>1, <1>3
  <2> QED
    BY <1>2, <1>3, <2>1
<1> QED
  BY <1>1, <1>3, <1>4

Pointers == 0 .. POINTERS - 1
Moved(p, n) == (p + n) % POINTERS

LEMMA MovedFacts ==
    ASSUME NEW p \in Pointers, NEW n \in 0 .. POINTERS - 1
    PROVE  /\ Moved(p, n) \in Pointers
           /\ Moved(p, n) = IF p + n < POINTERS THEN p + n ELSE p + n - POINTERS
<1>1. POINTERS \in Nat \ {0}
  BY PointerFacts
<1>2. p + n \in Int /\ p \in Int /\ n \in Int
  BY <1>1 DEF Pointers
<1>3. CASE p + n < POINTERS
  <2>1. (p + n) % POINTERS = p + n
    <3> DEFINE y == p + n
    <3>1. y \in Int /\ y \in 0 .. POINTERS - 1
      BY <1>1, <1>2, <1>3 DEF Pointers
    <3> HIDE DEF y
    <3>2. y % POINTERS = y
      BY <1>1, <3>1, NearRemainder
    <3> QED
      BY <3>2 DEF y
  <2> QED
    BY <1>1, <1>2, <1>3, <2>1 DEF Pointers, Moved
<1>4. CASE p + n >= POINTERS
  <2>1. (p + n) % POINTERS = (p + n) - POINTERS
    <3> DEFINE y == p + n
    <3>1. y \in Int /\ y >= POINTERS /\ y < POINTERS + POINTERS
      BY <1>1, <1>2, <1>4 DEF Pointers
    <3> HIDE DEF y
    <3>2. y % POINTERS = y - POINTERS
      BY <1>1, <3>1, NearRemainder
    <3> QED
      BY <3>2 DEF y
  <2> QED
    BY <1>1, <1>2, <1>4, <2>1 DEF Pointers, Moved
<1> QED
  BY <1>1, <1>2, <1>3, <1>4

LEMMA BetweenFacts ==
    ASSUME NEW p \in Pointers, NEW q \in Pointers
    PROVE  /\ Between(p, q) \in Pointers
           /\ Between(p, q) = IF p <= q THEN q - p ELSE q - p + POINTERS
<1>1. POINTERS \in Nat \ {0}
  BY PointerFacts
<1>2. q - p \in Int /\ p \in Int /\ q \in Int
  BY <1>1 DEF Pointers
<1>3. CASE p <= q
  <2>1. (q - p) % POINTERS = q - p
    <3> DEFINE y == q - p
    <3>1. y \in Int /\ y \in 0 .. POINTERS - 1
      BY <1>1, <1>2, <1>3 DEF Pointers
    <3> HIDE DEF y
    <3>2. y % POINTERS = y
      BY <1>1, <3>1, NearRemainder
    <3> QED
      BY <3>2 DEF y
  <2> QED
    BY <1>1, <1>2, <1>3, <2>1 DEF Pointers, Between
<1>4. CASE q < p
  <2>1. (q - p) % POINTERS = (q - p) + POINTERS
    <3> DEFINE y == q - p
    <3>1. y \in Int /\ y < 0 /\ y >= -POINTERS
      BY <1>1, <1>2, <1>4 DEF Pointers
    <3> HIDE DEF y
    <3>2. y % POINTERS = y + POINTERS
      BY <1>1, <3>1, NearRemainder
    <3> QED
      BY <3>2 DEF y
  <2> QED
    BY <1>1, <1>2, <1>4, <2>1 DEF Pointers, Between
<1> QED
  BY <1>1, <1>2, <1>3, <1>4

(* How far pointers are apart, as one of them moves.                       *)
LEMMA BetweenMoved ==
    ASSUME NEW p \in Pointers, NEW q \in Pointers
    PROVE  /\ Between(p, q) = 0 <=> p = q
           /\ Moved(p, Between(p, q)) = q
           /\ p # q => /\ Moved(p, 1) \in Pointers
                       /\ Between(Moved(p, 1), q) = Between(p, q) - 1
           /\ \A n \in 0 .. POINTERS - 1 : Between(p, q) + n < POINTERS =>
                 Between(p, Moved(q, n)) = Between(p, q) + n
<1>1. POINTERS \in Nat \ {0} /\ p \in Int /\ q \in Int /\ TX_SIZE < POINTERS
      /\ TX_SIZE \in Nat \ {0}
  BY PointerFacts DEF Pointers
<1>2. /\ Between(p, q) \in Pointers
      /\ Between(p, q) = IF p <= q THEN q - p ELSE q - p + POINTERS
  BY BetweenFacts
<1>3. Between(p, q) = 0 <=> p = q
  BY <1>1, <1>2 DEF Pointers
<1>4. Moved(p, Between(p, q)) = q
  <2>1. Between(p, q) \in 0 .. POINTERS - 1
    BY <1>2 DEF Pointers
  <2>2. Moved(p, Between(p, q)) = IF p + Between(p, q) < POINTERS
          THEN p + Between(p, q) ELSE p + Between(p, q) - POINTERS
    BY <2>1, MovedFacts
  <2> QED
    BY <1>1, <1>2, <2>2 DEF Pointers
<1>5. ASSUME p # q
      PROVE  /\ Moved(p, 1) \in Pointers
             /\ Between(Moved(p, 1), q) = Between(p, q) - 1
  <2>1. /\ Moved(p, 1) \in Pointers
        /\ Moved(p, 1) = IF p + 1 < POINTERS THEN p + 1 ELSE p + 1 - POINTERS
    <3>1. 1 \in 0 .. POINTERS - 1
      BY <1>1
    <3> QED
      BY <3>1, MovedFacts
  <2>2. Between(Moved(p, 1), q) = IF Moved(p, 1) <= q THEN q - Moved(p, 1)
                                  ELSE q - Moved(p, 1) + POINTERS
    BY <2>1, BetweenFacts
  <2> QED
    BY <1>1, <1>2, <1>5, <2>1, <2>2 DEF Pointers
<1>6. ASSUME NEW n \in 0 .. POINTERS - 1, Between(p, q) + n < POINTERS
      PROVE  Between(p, Moved(q, n)) = Between(p, q) + n
  <2>1. /\ Moved(q, n) \in Pointers
        /\ Moved(q, n) = IF q + n < POINTERS THEN q + n ELSE q + n - POINTERS
    BY MovedFacts
  <2>2. Between(p, Moved(q, n)) = IF p <= Moved(q, n) THEN Moved(q, n) - p
                                  ELSE Moved(q, n) - p + POINTERS
    BY <2>1, BetweenFacts
  <2> QED
    BY <1>1, <1>2, <1>6, <2>1, <2>2 DEF Pointers
<1> QED
  BY <1>3, <1>4, <1>5, <1>6

(* The cell of the memory i behind a pointer.                              *)
Cell(p, i) == (p + i) % TX_SIZE

LEMMA CellRange ==
    ASSUME NEW p \in Nat, NEW i \in Nat
    PROVE  Cell(p, i) \in 0 .. TX_SIZE - 1
<1>1. TX_SIZE \in Nat \ {0} /\ p + i \in Nat
  BY PointerFacts
<1> QED
  BY <1>1, DivMod DEF Cell

LEMMA WholeTurns ==
    ASSUME NEW y \in Nat, NEW c \in Nat
    PROVE  (y + TX_SIZE * c) % TX_SIZE = y % TX_SIZE
<1> DEFINE q == y \div TX_SIZE
           r == y % TX_SIZE
<1>1. TX_SIZE \in Nat \ {0}
  BY PointerFacts
<1>2. q \in Nat /\ r \in 0 .. TX_SIZE - 1 /\ y = TX_SIZE * q + r
  BY <1>1, DivMod
<1>3. y + TX_SIZE * c \in Int /\ TX_SIZE * c \in Int
  BY <1>1
<1> HIDE DEF q, r
<1>4. y + TX_SIZE * c = TX_SIZE * (q + c) + r
  <2>1. TX_SIZE * (q + c) = TX_SIZE * q + TX_SIZE * c
    BY <1>1, <1>2
  <2>2. TX_SIZE * q \in Int
    BY <1>1, <1>2
  <2> QED
    BY <1>2, <1>3, <2>1, <2>2
<1>5. (y + TX_SIZE * c) % TX_SIZE = r
  <2>1. q + c \in Int
    BY <1>2
  <2> QED
    BY <1>1, <1>2, <1>3, <1>4, <2>1, Remainder
<1> QED
  BY <1>5 DEF r

LEMMA CellMoved ==
    ASSUME NEW p \in Pointers, NEW n \in 0 .. POINTERS - 1, NEW i \in Nat
    PROVE  Cell(Moved(p, n), i) = Cell(p, n + i)
<1>1. /\ TX_SIZE \in Nat \ {0} /\ POINTERS \in Nat \ {0}
      /\ p \in Nat /\ n \in Nat
  BY PointerFacts DEF Pointers
<1>2. PICK c \in Nat : POINTERS = TX_SIZE * c
  BY PointerFacts
<1>3. CASE p + n < POINTERS
  <2>1. Moved(p, n) = p + n
    BY <1>3, MovedFacts
  <2>2. (p + n) + i = p + (n + i)
    BY <1>1
  <2> QED
    BY <2>1, <2>2 DEF Cell
<1>4. CASE p + n >= POINTERS
  <2>1. Moved(p, n) = (p + n) - POINTERS
    BY <1>1, <1>4, MovedFacts
  <2> DEFINE y == (p + n) - POINTERS + i
             m == TX_SIZE * c
  <2>2. ((p + n) - POINTERS) + i \in Nat
    BY <1>1, <1>4
  <2>3. (((p + n) - POINTERS) + i) + POINTERS = p + (n + i)
    BY <1>1
  <2>4. ((((p + n) - POINTERS) + i) + POINTERS) % TX_SIZE
           = (((p + n) - POINTERS) + i) % TX_SIZE
    BY <1>2, <2>2, WholeTurns
  <2> QED
    BY <2>1, <2>3, <2>4 DEF Cell
<1> QED
  BY <1>1, <1>3, <1>4

(* The distance of a cell from the one where writing begins.               *)
LEMMA CellBack ==
    ASSUME NEW p \in Nat, NEW j \in 0 .. TX_SIZE - 1
    PROVE  (Cell(p, j) - p) % TX_SIZE = j
<1> DEFINE q == (p + j) \div TX_SIZE
           r == (p + j) % TX_SIZE
<1>1. TX_SIZE \in Nat \ {0} /\ p + j \in Nat /\ j \in Int
  BY PointerFacts
<1>2. q \in Nat /\ r \in 0 .. TX_SIZE - 1 /\ p + j = TX_SIZE * q + r
  BY <1>1, DivMod
<1>3. Cell(p, j) = r
  BY DEF Cell
<1> HIDE DEF q, r
<1>4. TX_SIZE * q \in Int /\ TX_SIZE * (-q) = -(TX_SIZE * q) /\ -q \in Int
  BY <1>1, <1>2
<1>5. r - p = TX_SIZE * (-q) + j /\ r - p \in Int
  BY <1>1, <1>2, <1>4
<1> QED
  BY <1>1, <1>3, <1>4, <1>5, Remainder

(* The bytes of n cells of the transmit memory, from the one at p on.      *)
Queue(m, p, n) == [i \in 1 .. n |-> m[Cell(p, i - 1)]]
Memories == [0 .. TX_SIZE - 1 -> Nat]

LEMMA QueueType ==
    ASSUME NEW m \in Memories, NEW p \in Nat, NEW n \in Nat
    PROVE  /\ Queue(m, p, n) \in Seq(Nat) /\ Len(Queue(m, p, n)) = n
           /\ \A i \in 1 .. n : Queue(m, p, n)[i] = m[Cell(p, i - 1)]
<1>1. \A i \in 1 .. n : m[Cell(p, i - 1)] \in Nat
  <2> SUFFICES ASSUME NEW i \in 1 .. n PROVE m[Cell(p, i - 1)] \in Nat
    OBVIOUS
  <2>1. Cell(p, i - 1) \in 0 .. TX_SIZE - 1
    BY CellRange
  <2> QED
    BY <2>1 DEF Memories
<1> QED
  BY <1>1 DEF Queue

LEMMA QueueConcat ==
    ASSUME NEW m \in Memories, NEW p \in Pointers, NEW n \in 0 .. POINTERS - 1,
           NEW f \in Nat
    PROVE  Queue(m, p, n + f) = Queue(m, p, n) \o Queue(m, Moved(p, n), f)
<1> DEFINE a == Queue(m, p, n)
           b == Queue(m, Moved(p, n), f)
           c == Queue(m, p, n + f)
<1>1. p \in Nat /\ n \in Nat /\ Moved(p, n) \in Nat /\ n + f \in Nat
  <2>1. Moved(p, n) \in Pointers
    BY MovedFacts
  <2> QED
    BY <2>1, PointerFacts DEF Pointers
<1>2. /\ a \in Seq(Nat) /\ Len(a) = n
      /\ \A i \in 1 .. n : a[i] = m[Cell(p, i - 1)]
  BY <1>1, QueueType
<1>3. /\ b \in Seq(Nat) /\ Len(b) = f
      /\ \A i \in 1 .. f : b[i] = m[Cell(Moved(p, n), i - 1)]
  BY <1>1, QueueType
<1>4. /\ c \in Seq(Nat) /\ Len(c) = n + f
      /\ \A i \in 1 .. n + f : c[i] = m[Cell(p, i - 1)]
  BY <1>1, QueueType
<1> HIDE DEF a, b, c
<1>5. \A i \in 1 .. f : b[i] = m[Cell(p, n + (i - 1))]
  <2> SUFFICES ASSUME NEW i \in 1 .. f PROVE b[i] = m[Cell(p, n + (i - 1))]
    OBVIOUS
  <2>1. Cell(Moved(p, n), i - 1) = Cell(p, n + (i - 1))
    BY CellMoved
  <2> QED
    BY <1>3, <2>1
<1> DEFINE ab == a \o b
<1>6. /\ ab \in Seq(Nat) /\ Len(ab) = n + f
      /\ \A i \in 1 .. n + f : ab[i] = IF i <= n THEN a[i] ELSE b[i - n]
  BY <1>2, <1>3, JoinedBytes
<1> HIDE DEF ab
<1>7. \A i \in 1 .. n + f : c[i] = ab[i]
  <2> SUFFICES ASSUME NEW i \in 1 .. n + f PROVE c[i] = ab[i]
    OBVIOUS
  <2>1. CASE i <= n
    <3>1. i \in 1 .. n
      BY <1>1, <2>1
    <3>2. a[i] = m[Cell(p, i - 1)] /\ c[i] = m[Cell(p, i - 1)]
      BY <1>2, <1>4, <3>1
    <3> QED
      BY <1>6, <2>1, <3>2
  <2>2. CASE i > n
    <3>1. i - n \in 1 .. f /\ n + ((i - n) - 1) = i - 1
      BY <1>1, <2>2
    <3>2. b[i - n] = m[Cell(p, i - 1)]
      BY <1>5, <3>1
    <3>3. ab[i] = b[i - n]
      BY <1>1, <1>6, <2>2
    <3> QED
      BY <1>4, <3>2, <3>3
  <2> QED
    BY <1>1, <2>1, <2>2
<1>8. c = ab
  BY <1>4, <1>6, <1>7, SameBytes
<1> QED
  BY <1>8 DEF a, b, c, ab

LEMMA QueueNone ==
    ASSUME NEW m \in Memories, NEW p \in Nat
    PROVE  Queue(m, p, 0) = <<>>
BY QueueType

LEMMA QueueFirst ==
    ASSUME NEW m \in Memories, NEW p \in Pointers, NEW n \in Nat, n > 0
    PROVE  /\ Queue(m, p, n) = <<m[p % TX_SIZE]>> \o Queue(m, Moved(p, 1), n - 1)
           /\ m[p % TX_SIZE] \in Nat
<1>1. 1 \in 0 .. POINTERS - 1 /\ n - 1 \in Nat /\ 1 + (n - 1) = n /\ p \in Nat
  BY PointerFacts DEF Pointers
<1>2. Queue(m, p, 1 + (n - 1)) = Queue(m, p, 1) \o Queue(m, Moved(p, 1), n - 1)
  BY <1>1, QueueConcat
<1>3. /\ Queue(m, p, 1) \in Seq(Nat) /\ Len(Queue(m, p, 1)) = 1
      /\ Queue(m, p, 1)[1] = m[Cell(p, 0)]
  <2>1. /\ Queue(m, p, 1) \in Seq(Nat) /\ Len(Queue(m, p, 1)) = 1
        /\ \A i \in 1 .. 1 : Queue(m, p, 1)[i] = m[Cell(p, i - 1)]
    <3>1. 1 \in Nat
      OBVIOUS
    <3> QED
      BY <1>1, <3>1, QueueType, Zenon
  <2>2. Queue(m, p, 1)[1] = m[Cell(p, 1 - 1)]
    <3>1. 1 \in 1 .. 1
      OBVIOUS
    <3> QED
      BY <2>1, <3>1, Zenon
  <2> QED
    BY <2>1, <2>2
<1>4. Cell(p, 0) = p % TX_SIZE
  BY <1>1 DEF Cell
<1>5. m[p % TX_SIZE] \in Nat
  <2>1. Cell(p, 0) \in 0 .. TX_SIZE - 1
    BY <1>1, CellRange
  <2> QED
    BY <1>4, <2>1 DEF Memories
<1>6. Queue(m, p, 1) = <<m[p % TX_SIZE]>>
  <2> DEFINE q == Queue(m, p, 1)
             x == m[p % TX_SIZE]
  <2>1. q \in Seq(Nat) /\ Len(q) = 1 /\ q[1] = x
    BY <1>3, <1>4
  <2> HIDE DEF q, x
  <2>2. q = <<x>>
    BY <2>1
  <2> QED
    BY <2>2 DEF q, x
<1> QED
  BY <1>1, <1>2, <1>5, <1>6

(* Writing behind what is queued leaves that alone, and is read back.      *)
LEMMA WrittenType ==
    ASSUME NEW m \in Memories, NEW w \in Nat, NEW b \in Seq(Nat)
    PROVE  Written(m, w, b) \in Memories
<1>1. TX_SIZE \in Nat \ {0}
  BY PointerFacts
<1>2. \A x \in 0 .. TX_SIZE - 1 : (x - w) % TX_SIZE \in Nat
  BY <1>1
<1> QED
  BY <1>1, <1>2 DEF Written, Memories

LEMMA WrittenCell ==
    ASSUME NEW m \in Memories, NEW w \in Nat, NEW b \in Seq(Nat),
           NEW j \in 0 .. TX_SIZE - 1
    PROVE  Written(m, w, b)[Cell(w, j)] =
              IF j < Len(b) THEN b[j + 1] ELSE m[Cell(w, j)]
<1>1. Cell(w, j) \in 0 .. TX_SIZE - 1
  <2>1. j \in Nat
    BY PointerFacts
  <2> QED
    BY <2>1, CellRange
<1>2. (Cell(w, j) - w) % TX_SIZE = j
  BY CellBack
<1>3. Written(m, w, b)[Cell(w, j)] =
         IF (Cell(w, j) - w) % TX_SIZE < Len(b)
         THEN b[((Cell(w, j) - w) % TX_SIZE) + 1] ELSE m[Cell(w, j)]
  BY <1>1, Zenon DEF Written
<1> QED
  BY <1>2, <1>3

LEMMA QueueWritten ==
    ASSUME NEW m \in Memories, NEW w \in Nat, NEW b \in Seq(Nat), Len(b) <= TX_SIZE
    PROVE  Queue(Written(m, w, b), w, Len(b)) = b
<1> DEFINE q == Queue(Written(m, w, b), w, Len(b))
<1>1. Len(b) \in Nat
  OBVIOUS
<1>2. /\ q \in Seq(Nat) /\ Len(q) = Len(b)
      /\ \A i \in 1 .. Len(b) : q[i] = Written(m, w, b)[Cell(w, i - 1)]
  BY <1>1, WrittenType, QueueType
<1>3. \A i \in 1 .. Len(b) : Written(m, w, b)[Cell(w, i - 1)] = b[i]
  <2> SUFFICES ASSUME NEW i \in 1 .. Len(b)
               PROVE  Written(m, w, b)[Cell(w, i - 1)] = b[i]
    OBVIOUS
  <2>1. i - 1 \in 0 .. TX_SIZE - 1 /\ i - 1 < Len(b) /\ (i - 1) + 1 = i
    BY <1>1, PointerFacts
  <2> QED
    BY <2>1, WrittenCell
<1> HIDE DEF q
<1>4. q = b
  BY <1>2, <1>3, SameBytes
<1> QED
  BY <1>4 DEF q

LEMMA QueueKept ==
    ASSUME NEW m \in Memories, NEW p \in Pointers, NEW k \in Nat,
           NEW b \in Seq(Nat), k + Len(b) <= TX_SIZE
    PROVE  Queue(Written(m, Moved(p, k), b), p, k) = Queue(m, p, k)
<1> DEFINE w == Moved(p, k)
           q == Queue(Written(m, w, b), p, k)
           s == Queue(m, p, k)
<1>1. /\ Len(b) \in Nat /\ k \in 0 .. POINTERS - 1 /\ k <= TX_SIZE
      /\ TX_SIZE \in Nat \ {0} /\ p \in Nat
  BY PointerFacts DEF Pointers
<1>2. w \in Nat
  <2>1. w \in Pointers
    BY <1>1, MovedFacts
  <2> QED
    BY <2>1, PointerFacts DEF Pointers
<1>3. /\ q \in Seq(Nat) /\ Len(q) = k
      /\ \A i \in 1 .. k : q[i] = Written(m, w, b)[Cell(p, i - 1)]
  <2>1. Written(m, w, b) \in Memories
    BY <1>2, WrittenType
  <2> QED
    BY <1>1, <2>1, QueueType
<1>4. /\ s \in Seq(Nat) /\ Len(s) = k
      /\ \A i \in 1 .. k : s[i] = m[Cell(p, i - 1)]
  BY <1>1, QueueType
<1>5. \A i \in 1 .. k : Written(m, w, b)[Cell(p, i - 1)] = m[Cell(p, i - 1)]
  <2> SUFFICES ASSUME NEW i \in 1 .. k
               PROVE  Written(m, w, b)[Cell(p, i - 1)] = m[Cell(p, i - 1)]
    OBVIOUS
  <2> DEFINE j == ((i - 1) + TX_SIZE) - k
  <2>1. j \in 0 .. TX_SIZE - 1 /\ ~(j < Len(b)) /\ k + j = (i - 1) + TX_SIZE
    BY <1>1
  <2>2. Cell(w, j) = Cell(p, k + j)
    BY <1>1, <2>1, CellMoved
  <2>3. Cell(p, (i - 1) + TX_SIZE) = Cell(p, i - 1)
    <3>1. p + (i - 1) \in Nat /\ 1 \in Nat
      BY <1>1
    <3>2. p + ((i - 1) + TX_SIZE) = (p + (i - 1)) + TX_SIZE * 1
      BY <1>1
    <3>3. ((p + (i - 1)) + TX_SIZE * 1) % TX_SIZE = (p + (i - 1)) % TX_SIZE
      BY <3>1, WholeTurns
    <3> QED
      BY <3>2, <3>3 DEF Cell
  <2> HIDE DEF j, w
  <2>4. Cell(w, j) = Cell(p, i - 1)
    BY <2>1, <2>2, <2>3
  <2>5. Written(m, w, b)[Cell(w, j)] = m[Cell(w, j)]
    BY <1>2, <2>1, WrittenCell
  <2> QED
    BY <2>4, <2>5
<1>6. \A i \in 1 .. k : q[i] = s[i]
  BY <1>3, <1>4, <1>5
<1> HIDE DEF q, s
<1>7. q = s
  BY <1>3, <1>4, <1>6, SameBytes
<1> QED
  BY <1>7 DEF q, s, w

-----------------------------------------------------------------------------
(* What is still to leave: the bytes in the memory, and those that send    *)
(* has not written.                                                        *)
Queued == Queue(memory, rd, Between(rd, latched))
Unsent == Queued \o left
Count(s) == IF s = <<>> THEN 0 ELSE 1

SendTypes ==
    /\ established \in BOOLEAN /\ memory \in Memories
    /\ wr \in Pointers /\ rd \in Pointers /\ latched \in Pointers /\ upto \in Pointers
    /\ packet \in Seq(Nat) /\ wire \in Seq(Seq(Nat))
    /\ step \in {"idle", "status", "high", "low", "data", "pointer", "command"}
    /\ left \in Seq(Nat) /\ size \in Nat /\ given \in Seq(Seq(Nat))
    /\ short \in BOOLEAN /\ overlapped \in BOOLEAN
    /\ step = "idle" <=> left = <<>>

(* The pointers follow one another, no further apart than the memory is    *)
(* long; the host's is ahead only between its move and SEND.               *)
PointersInv ==
    /\ Between(rd, latched) <= TX_SIZE
    /\ Between(rd, upto) <= Between(rd, latched)
    /\ wr = IF step = "command" THEN Moved(latched, Fits) ELSE latched

(* A size read a byte at a time is never more than is free when it is      *)
(* used; what was written behind the queue stays there.                    *)
SizeInv ==
    /\ step = "low" => \E h \in Nat : size = h * FREE_BYTE /\ size <= FreeSize
    /\ step \in {"data", "pointer", "command"} =>
          size > 0 /\ size <= FreeSize /\ (~short => Len(left) <= size)
    /\ step \in {"pointer", "command"} => Queue(memory, latched, Fits) = Pass

(* Nothing is lost, doubled or out of order.                               *)
OrderInv == OnTheWire \o Unsent = FlattenSeq(given)

(* The packets sent are the first frames given; the next is at the chip,   *)
(* and one more may still be with the host.                                *)
Current == packet \o Queued
FramesInv ==
    /\ Len(given) = Len(wire) + Count(Current) + Count(left)
    /\ Current # <<>> => given[Len(wire) + 1] = Current
    /\ left # <<>> => given[Len(given)] = left
    /\ rd # upto \/ packet # <<>> => upto = latched

WholeInv ==
    /\ Len(wire) <= Len(given)
    /\ \A k \in 1 .. Len(wire) : wire[k] = given[k]

Alone == ~short /\ ~overlapped
Down == \E r \in Seq(Nat) : OnTheWire \o r = FlattenSeq(given)
SendInv ==
    /\ SendTypes /\ PointersInv /\ SizeInv
    /\ IF established THEN OrderInv ELSE Down
    /\ Alone => WholeInv /\ (established => FramesInv)

LEMMA SendFacts ==
    ASSUME SendTypes
    PROVE  /\ Len(left) \in Nat /\ Len(given) \in Nat /\ Len(wire) \in Nat
           /\ Len(packet) \in Nat
           /\ Between(rd, latched) \in Nat /\ Between(rd, upto) \in Nat
           /\ Between(rd, latched) < POINTERS
           /\ rd \in Nat /\ wr \in Nat /\ latched \in Nat /\ upto \in Nat
           /\ Queued \in Seq(Nat) /\ Len(Queued) = Between(rd, latched)
           /\ FlattenSeq(wire) \in Seq(Nat) /\ FlattenSeq(given) \in Seq(Nat)
           /\ OnTheWire \in Seq(Nat) /\ Unsent \in Seq(Nat)
           /\ Current \in Seq(Nat) /\ Len(Current) = Len(packet) + Len(Queued)
           /\ FreeSize = TX_SIZE - Between(rd, latched)
<1>1. /\ packet \in Seq(Nat) /\ wire \in Seq(Seq(Nat)) /\ left \in Seq(Nat)
      /\ given \in Seq(Seq(Nat)) /\ memory \in Memories
      /\ rd \in Pointers /\ latched \in Pointers /\ upto \in Pointers /\ wr \in Pointers
  BY DEF SendTypes
<1>2. Between(rd, latched) \in Pointers /\ Between(rd, upto) \in Pointers
  BY <1>1, BetweenFacts
<1>3. Pointers \subseteq Nat /\ \A x \in Pointers : x < POINTERS
  BY PointerFacts DEF Pointers
<1>4. Queued \in Seq(Nat) /\ Len(Queued) = Between(rd, latched)
  BY <1>1, <1>2, <1>3, QueueType DEF Queued
<1>5. FlattenSeq(wire) \in Seq(Nat) /\ FlattenSeq(given) \in Seq(Nat)
  BY <1>1, FlattenType
<1>6. OnTheWire \in Seq(Nat)
  BY <1>1, <1>5, JoinedBytes DEF OnTheWire
<1>7. Unsent \in Seq(Nat)
  BY <1>1, <1>4, JoinedBytes DEF Unsent
<1>8. Current \in Seq(Nat) /\ Len(Current) = Len(packet) + Len(Queued)
  BY <1>1, <1>4, JoinedBytes DEF Current
<1>9. FreeSize = TX_SIZE - Between(rd, latched)
  BY DEF FreeSize
<1>10. Len(left) \in Nat /\ Len(given) \in Nat /\ Len(wire) \in Nat /\ Len(packet) \in Nat
  BY <1>1
<1> QED
  BY <1>1, <1>2, <1>3, <1>4, <1>5, <1>6, <1>7, <1>8, <1>9, <1>10

LEMMA PassFacts ==
    ASSUME SendTypes
    PROVE  /\ Fits \in Nat /\ Fits <= Len(left) /\ Fits <= size
           /\ size > 0 /\ left # <<>> => Fits > 0
           /\ Len(left) <= size => Fits = Len(left)
           /\ Pass \in Seq(Nat) /\ Len(Pass) = Fits
           /\ After(left, Fits) \in Seq(Nat)
           /\ Len(After(left, Fits)) = Len(left) - Fits
           /\ Pass \o After(left, Fits) = left
<1>1. left \in Seq(Nat) /\ size \in Nat /\ Len(left) \in Nat
  BY DEF SendTypes
<1>2. Fits \in 0 .. Len(left) /\ Fits <= size /\ (Len(left) <= size => Fits = Len(left))
  BY <1>1 DEF Fits
<1>3. size > 0 /\ left # <<>> => Fits > 0
  BY <1>1 DEF Fits
<1> DEFINE n == Fits
<1>4. n \in 0 .. Len(left)
  BY <1>2
<1> HIDE DEF n
<1>5. /\ SubSeq(left, 1, n) \in Seq(Nat) /\ Len(SubSeq(left, 1, n)) = n
      /\ SubSeq(left, n + 1, Len(left)) \in Seq(Nat)
      /\ Len(SubSeq(left, n + 1, Len(left))) = Len(left) - n
      /\ SubSeq(left, 1, n) \o SubSeq(left, n + 1, Len(left)) = left
  BY <1>1, <1>4, Halves
<1>6. /\ Pass \in Seq(Nat) /\ Len(Pass) = n
      /\ After(left, n) \in Seq(Nat)
      /\ Len(After(left, n)) = Len(left) - n
      /\ Pass \o After(left, n) = left
  BY <1>5, Zenon DEF Pass, After, n
<1> QED
  BY <1>2, <1>3, <1>4, <1>6 DEF n

LEMMA InitSend == SendInit => SendInv
<1> SUFFICES ASSUME SendInit PROVE SendInv
  OBVIOUS
<1>1. /\ established = TRUE /\ packet = <<>> /\ wire = <<>> /\ step = "idle"
      /\ left = <<>> /\ size = 0 /\ given = <<>> /\ short = FALSE /\ overlapped = FALSE
      /\ memory = [a \in 0 .. TX_SIZE - 1 |-> 0]
      /\ wr = rd /\ latched = rd /\ upto = rd /\ rd \in 0 .. POINTERS - 1
  BY DEF SendInit
<1>2. SendTypes
  <2>1. memory \in Memories
    BY <1>1 DEF Memories
  <2>2. /\ <<>> \in Seq(Nat) /\ <<>> \in Seq(Seq(Nat)) /\ 0 \in Nat
        /\ {TRUE, FALSE} \subseteq BOOLEAN
    OBVIOUS
  <2> QED
    BY <1>1, <2>1, <2>2 DEF SendTypes, Pointers
<1>3. Between(rd, latched) = 0 /\ Between(rd, upto) = 0
  BY <1>1, <1>2, BetweenMoved DEF SendTypes
<1>4. Queued = <<>>
  BY <1>2, <1>3, SendFacts
<1>5. OnTheWire = <<>> /\ FlattenSeq(given) = <<>> /\ Unsent = <<>> /\ Current = <<>>
  <2>1. FlattenSeq(<<>>) = <<>>
    <3>1. <<>> \in Seq(Seq(Nat))
      OBVIOUS
    <3> QED
      BY <3>1, FlattenType
  <2>2. <<>> \o <<>> = <<>>
    OBVIOUS
  <2> QED
    BY <1>1, <1>4, <2>1, <2>2 DEF OnTheWire, Unsent, Current
<1>6. PointersInv /\ SizeInv
  BY <1>1, <1>3, PointerFacts DEF PointersInv, SizeInv
<1>7. OrderInv
  BY <1>5 DEF OrderInv
<1>8. FramesInv
  BY <1>1, <1>5 DEF FramesInv, Count
<1>9. WholeInv
  BY <1>1 DEF WholeInv
<1> QED
  BY <1>1, <1>2, <1>6, <1>7, <1>8, <1>9 DEF SendInv

(* Types.                                                                  *)
LEMMA FreeFacts ==
    ASSUME SendTypes, PointersInv
    PROVE  /\ FreeSize \in Nat /\ FreeSize <= TX_SIZE
           /\ FreeSize \div FREE_BYTE \in Nat /\ FreeSize % FREE_BYTE \in Nat
           /\ (FreeSize \div FREE_BYTE) * FREE_BYTE \in 0 .. FreeSize
<1> DEFINE f == FreeSize
           q == f \div FREE_BYTE
           r == f % FREE_BYTE
<1>1. f \in Nat /\ f <= TX_SIZE
  <2>1. f = TX_SIZE - Between(rd, latched) /\ Between(rd, latched) \in Nat
    BY SendFacts
  <2>2. Between(rd, latched) <= TX_SIZE /\ TX_SIZE \in Nat
    BY PointerFacts DEF PointersInv
  <2> QED
    BY <2>1, <2>2
<1>2. FREE_BYTE \in Nat \ {0}
  BY SendAssumption
<1> HIDE DEF f
<1>3. q \in Nat /\ r \in 0 .. FREE_BYTE - 1 /\ f = FREE_BYTE * q + r
  BY <1>1, <1>2, DivMod
<1> HIDE DEF q, r
<1>4. FREE_BYTE * q \in Nat /\ q * FREE_BYTE = FREE_BYTE * q /\ r \in Nat
  BY <1>2, <1>3
<1>5. q * FREE_BYTE \in 0 .. f
  BY <1>1, <1>3, <1>4
<1> QED
  BY <1>1, <1>3, <1>4, <1>5 DEF f, q, r

LEMMA TypesStay ==
    ASSUME SendTypes, UNCHANGED <<memory, wr, rd, latched, upto, packet, wire, given>>,
           established' \in BOOLEAN, short' \in BOOLEAN, overlapped' \in BOOLEAN,
           step' \in {"idle", "status", "high", "low", "data", "pointer", "command"},
           left' \in Seq(Nat), size' \in Nat, step' = "idle" <=> left' = <<>>
    PROVE  SendTypes'
BY DEF SendTypes

LEMMA HostTypesKept ==
    ASSUME SendTypes, PointersInv, CheckStatus \/ FreeHigh \/ FreeLow
    PROVE  SendTypes'
<1>1. /\ established \in BOOLEAN /\ short \in BOOLEAN /\ overlapped \in BOOLEAN
      /\ left \in Seq(Nat) /\ size \in Nat /\ (step = "idle" <=> left = <<>>)
  BY DEF SendTypes
<1>2. <<>> \in Seq(Nat) /\ Len(left) \in Nat
  BY <1>1
<1>3. CASE CheckStatus
  <2>1. /\ UNCHANGED <<memory, wr, rd, latched, upto, packet, wire, given>>
        /\ UNCHANGED <<established, short, overlapped, size>>
        /\ step = "status"
        /\ \/ step' = "high" /\ left' = left
           \/ step' = "idle" /\ left' = <<>>
    BY <1>3 DEF CheckStatus, chipVars
  <2> QED
    BY <1>1, <1>2, <2>1, TypesStay
<1>4. CASE FreeHigh
  <2>1. /\ UNCHANGED <<memory, wr, rd, latched, upto, packet, wire, given>>
        /\ UNCHANGED <<established, short, overlapped, left>>
        /\ step = "high" /\ step' = "low"
        /\ size' = (FreeSize \div FREE_BYTE) * FREE_BYTE
    BY <1>4 DEF FreeHigh, chipVars
  <2>2. size' \in Nat
    BY <2>1, FreeFacts
  <2> QED
    BY <1>1, <2>1, <2>2, TypesStay
<1>5. CASE FreeLow
  <2>1. /\ UNCHANGED <<memory, wr, rd, latched, upto, packet, wire, given>>
        /\ UNCHANGED <<established, overlapped, left>>
        /\ step = "low" /\ step' \in {"status", "data"} /\ short' \in BOOLEAN
        /\ size' = size + (FreeSize % FREE_BYTE)
    BY <1>1, <1>5 DEF FreeLow, chipVars
  <2>2. size' \in Nat
    <3>1. FreeSize % FREE_BYTE \in Nat
      BY FreeFacts
    <3> QED
      BY <1>1, <2>1, <3>1
  <2> QED
    BY <1>1, <2>1, <2>2, TypesStay
<1> QED
  BY <1>3, <1>4, <1>5

LEMMA WriteTypesKept ==
    ASSUME SendTypes, WriteData \/ MovePointer \/ Command
    PROVE  SendTypes'
<1>1. CASE WriteData
  <2>1. memory' \in Memories
    BY <1>1, PassFacts, SendFacts, WrittenType DEF WriteData, SendTypes
  <2> QED
    BY <1>1, <2>1 DEF WriteData, SendTypes
<1>2. CASE MovePointer
  <2>1. wr' \in Pointers
    <3>1. wr + Fits \in Nat /\ POINTERS \in Nat \ {0}
      <4>1. wr \in Nat
        BY SendFacts
      <4>2. Fits \in Nat
        BY PassFacts
      <4> QED
        BY <4>1, <4>2, PointerFacts
    <3>2. (wr + Fits) % POINTERS \in 0 .. POINTERS - 1
      BY <3>1, DivMod
    <3> QED
      BY <1>2, <3>2 DEF MovePointer, Pointers
  <2> QED
    BY <1>2, <2>1 DEF MovePointer, SendTypes
<1>3. CASE Command
  <2>1. left' \in Seq(Nat)
    BY <1>3, PassFacts DEF Command, After
  <2>2. /\ latched' \in Pointers /\ upto' \in Pointers /\ overlapped' \in BOOLEAN
        /\ step' \in {"idle", "status"} /\ (step' = "idle" <=> left' = <<>>)
    BY <1>3 DEF Command, SendTypes
  <2>3. UNCHANGED <<established, memory, wr, rd, packet, wire, size, given, short>>
    BY <1>3 DEF Command
  <2> QED
    BY <2>1, <2>2, <2>3 DEF SendTypes
<1> QED
  BY <1>1, <1>2, <1>3

LEMMA ChipTypesKept ==
    ASSUME SendTypes, ChipBegins \/ ChipSends \/ ChipEnds \/ ChipBreaks
    PROVE  SendTypes'
<1>1. CASE ChipBegins
  BY <1>1 DEF ChipBegins, hostVars, SendTypes
<1>2. CASE ChipSends
  <2>1. memory[rd % TX_SIZE] \in Nat
    <3>1. rd \in Nat /\ TX_SIZE \in Nat \ {0} /\ memory \in Memories
      <4>1. rd \in Nat
        BY SendFacts
      <4> QED
        BY <4>1, PointerFacts DEF SendTypes
    <3>2. rd % TX_SIZE \in 0 .. TX_SIZE - 1
      BY <3>1, DivMod
    <3> QED
      BY <3>1, <3>2 DEF Memories
  <2>2. packet' \in Seq(Nat)
    BY <1>2, <2>1 DEF ChipSends, SendTypes
  <2>3. rd' \in Pointers
    <3>1. rd + 1 \in Nat /\ POINTERS \in Nat \ {0}
      <4>1. rd \in Nat
        BY SendFacts
      <4> QED
        BY <4>1, PointerFacts
    <3>2. (rd + 1) % POINTERS \in 0 .. POINTERS - 1
      BY <3>1, DivMod
    <3> QED
      BY <1>2, <3>2 DEF ChipSends, Pointers
  <2> QED
    BY <1>2, <2>2, <2>3 DEF ChipSends, hostVars, SendTypes
<1>3. CASE ChipEnds
  <2>1. wire' \in Seq(Seq(Nat)) /\ packet' \in Seq(Nat)
    <3>1. <<>> \in Seq(Nat) /\ wire \in Seq(Seq(Nat)) /\ packet \in Seq(Nat)
      BY DEF SendTypes
    <3>2. Append(wire, packet) \in Seq(Seq(Nat))
      BY <3>1
    <3> QED
      BY <1>3, <3>1, <3>2 DEF ChipEnds
  <2> QED
    BY <1>3, <2>1 DEF ChipEnds, hostVars, SendTypes
<1>4. CASE ChipBreaks
  BY <1>4 DEF ChipBreaks, hostVars, SendTypes
<1> QED
  BY <1>1, <1>2, <1>3, <1>4

LEMMA CallTypesKept ==
    ASSUME SendTypes, NEW buf \in Buffers, send(buf)
    PROVE  SendTypes' /\ buf \in Seq(Nat) /\ buf # <<>>
<1>1. buf \in Seq(Nat) /\ buf # <<>>
  <2>1. buf \in Seq(0 .. 255)
    BY SendAssumption
  <2> QED
    BY <2>1, StoredFacts DEF send
<1>2. given' \in Seq(Seq(Nat)) /\ left' \in Seq(Nat) /\ left' # <<>>
  <2>1. given \in Seq(Seq(Nat))
    BY DEF SendTypes
  <2>2. Append(given, buf) \in Seq(Seq(Nat))
    BY <1>1, <2>1
  <2> QED
    BY <1>1, <2>2 DEF send
<1>3. /\ step' = "status"
      /\ UNCHANGED <<established, memory, wr, rd, latched, upto, packet, wire,
                     overlapped, size, short>>
  BY DEF send, chipVars
<1> QED
  BY <1>1, <1>2, <1>3 DEF SendTypes
-----------------------------------------------------------------------------
(* Steps that leave what is queued, given and left, and the chip's         *)
(* pointers, as they are.                                                  *)
StillVars ==
    <<established, rd, latched, upto, packet, wire, left, given, overlapped, Queued>>

LEMMA StillKeeps ==
    ASSUME SendInv, UNCHANGED StillVars, SendTypes', SizeInv', short => short',
           wr' = IF step' = "command" THEN Moved(latched, Fits') ELSE latched
    PROVE  SendInv'
<1>1. UNCHANGED <<established, rd, latched, upto, packet, wire, left, given,
                  overlapped, Queued>>
  BY DEF StillVars
<1>2. UNCHANGED <<Between(rd, latched), Between(rd, upto), Unsent, OnTheWire,
                  Current, FlattenSeq(given)>>
  BY <1>1 DEF Unsent, OnTheWire, Current, Between
<1>3. PointersInv'
  BY <1>1, <1>2 DEF SendInv, PointersInv
<1>4. established' => OrderInv'
  BY <1>1, <1>2 DEF SendInv, OrderInv
<1>5. ~established' => Down'
  BY <1>1, <1>2 DEF SendInv, Down
<1>6. Alone' => Alone
  BY <1>1 DEF Alone
<1>7. Alone' => WholeInv'
  BY <1>1, <1>6 DEF SendInv, WholeInv
<1>8. ASSUME Alone', established' PROVE FramesInv'
  <2>1. FramesInv
    BY <1>1, <1>6, <1>8 DEF SendInv
  <2>2. /\ Len(given) = Len(wire) + Count(Current) + Count(left)
        /\ Current # <<>> => given[Len(wire) + 1] = Current
        /\ left # <<>> => given[Len(given)] = left
        /\ rd # upto \/ packet # <<>> => upto = latched
    BY <2>1 DEF FramesInv
  <2> QED
    BY <1>1, <1>2, <2>2 DEF FramesInv, Count
<1> QED
  BY <1>3, <1>4, <1>5, <1>7, <1>8 DEF SendInv

LEMMA TornReading ==
    ASSUME NEW d \in Nat \ {0}, NEW h \in Nat, NEW n \in Nat, h * d <= n
    PROVE  h * d + (n % d) \in 0 .. n
<1> DEFINE q == n \div d
           r == n % d
<1>1. q \in Nat /\ r \in 0 .. d - 1 /\ n = d * q + r
  BY DivMod
<1> HIDE DEF q, r
<1>2. h * d \in Nat /\ d * q \in Nat /\ d * (q + 1) = d * q + d
  BY <1>1
<1>3. ASSUME h >= q + 1 PROVE FALSE
  <2>1. h * d >= d * (q + 1)
    <3>1. h - (q + 1) \in Nat
      BY <1>1, <1>3
    <3>2. (h - (q + 1)) * d \in Nat
      BY <3>1
    <3>3. (h - (q + 1)) * d = h * d - d * (q + 1)
      BY <1>1
    <3>4. h * d \in Nat /\ d * (q + 1) \in Nat
      BY <1>1
    <3> QED
      BY <3>2, <3>3, <3>4
  <2> QED
    BY <1>1, <1>2, <2>1
<1>4. h * d <= d * q
  <2>1. h <= q
    BY <1>1, <1>3
  <2>2. q - h \in Nat
    BY <1>1, <2>1
  <2>3. (q - h) * d \in Nat
    BY <2>2
  <2>4. (q - h) * d = d * q - h * d
    BY <1>1
  <2> QED
    BY <1>2, <2>3, <2>4
<1>5. h * d + r \in 0 .. n
  BY <1>1, <1>2, <1>4
<1> QED
  BY <1>5 DEF r

LEMMA AskKeepsSend ==
    ASSUME SendInv, FreeHigh \/ FreeLow
    PROVE  SendInv'
<1>1. SendTypes /\ PointersInv /\ SizeInv
  BY DEF SendInv
<1>2. SendTypes'
  BY <1>1, HostTypesKept
<1>3. wr = latched
  BY <1>1 DEF PointersInv, FreeHigh, FreeLow
<1>4. CASE FreeHigh
  <2>1. /\ UNCHANGED StillVars /\ wr' = wr /\ short' = short
        /\ step' = "low"
        /\ size' = (FreeSize \div FREE_BYTE) * FREE_BYTE
    BY <1>4 DEF FreeHigh, chipVars, StillVars, Queued, Queue, Between
  <2>2. FreeSize' = FreeSize
    BY <2>1 DEF StillVars, FreeSize, Between
  <2>3. \E h \in Nat : size' = h * FREE_BYTE /\ size' <= FreeSize
    BY <1>1, <2>1, FreeFacts
  <2>4. SizeInv'
    BY <2>1, <2>2, <2>3 DEF SizeInv
  <2> QED
    BY <1>2, <1>3, <2>1, <2>4, StillKeeps
<1>5. CASE FreeLow
  <2>1. /\ UNCHANGED StillVars /\ wr' = wr
        /\ step = "low"
        /\ size' = size + (FreeSize % FREE_BYTE)
        /\ step' = IF size' = 0 THEN "status" ELSE "data"
        /\ short' = (short \/ size' < Len(left))
    BY <1>5 DEF FreeLow, chipVars, StillVars, Queued, Queue, Between
  <2>2. FreeSize' = FreeSize
    BY <2>1 DEF StillVars, FreeSize, Between
  <2>3. PICK h \in Nat : size = h * FREE_BYTE /\ size <= FreeSize
    BY <1>1, <2>1 DEF SizeInv
  <2>4. size' \in 0 .. FreeSize
    <3>1. FreeSize \in Nat /\ FREE_BYTE \in Nat \ {0}
      BY <1>1, FreeFacts, SendAssumption
    <3> QED
      BY <2>1, <2>3, <3>1, TornReading
  <2>5. (short => short') /\ (~short' => Len(left) <= size')
    <3>1. Len(left) \in Nat /\ size' \in Nat
      BY <1>1, <1>2, SendFacts DEF SendTypes
    <3>2. short => short'
      BY <2>1, Zenon
    <3>3. ~short' => ~(size' < Len(left))
      BY <2>1, Zenon
    <3> QED
      BY <3>1, <3>2, <3>3
  <2>6. SizeInv'
    <3>1. FreeSize \in Nat
      BY <1>1, FreeFacts
    <3>2. left' = left
      BY <2>1 DEF StillVars
    <3> QED
      BY <2>1, <2>2, <2>4, <2>5, <3>1, <3>2 DEF SizeInv
  <2>7. wr' = IF step' = "command" THEN Moved(latched, Fits') ELSE latched
    BY <1>3, <2>1
  <2> QED
    BY <1>2, <2>1, <2>5, <2>6, <2>7, StillKeeps
<1> QED
  BY <1>4, <1>5

LEMMA StatusKeeps ==
    ASSUME SendInv, CheckStatus
    PROVE  SendInv'
<1>1. SendTypes /\ PointersInv /\ SizeInv
  BY DEF SendInv
<1>2. SendTypes'
  BY <1>1, HostTypesKept
<1>3. wr = latched /\ step = "status"
  BY <1>1 DEF PointersInv, CheckStatus
<1>4. CASE established \/ protocol = "MACRAW"
  <2>1. /\ UNCHANGED StillVars /\ wr' = wr /\ short' = short
        /\ step' = "high"
    BY <1>4 DEF CheckStatus, chipVars, StillVars, Queued, Queue, Between
  <2>2. SizeInv'
    BY <2>1 DEF SizeInv
  <2> QED
    BY <1>2, <1>3, <2>1, <2>2, StillKeeps
<1>5. CASE ~(established \/ protocol = "MACRAW")
  <2>1. /\ UNCHANGED <<established, memory, wr, rd, latched, upto, packet, wire, given,
                       overlapped, short>>
        /\ step' = "idle" /\ ~established
    BY <1>5 DEF CheckStatus, chipVars
  <2>2. SizeInv'
    BY <2>1 DEF SizeInv
  <2>3. PointersInv'
    BY <1>1, <1>3, <2>1 DEF PointersInv, Between
  <2>4. Down'
    BY <2>1 DEF SendInv, Down, OnTheWire
  <2>5. Alone' => WholeInv'
    BY <2>1 DEF SendInv, Alone, WholeInv
  <2> QED
    BY <1>2, <2>1, <2>2, <2>3, <2>4, <2>5 DEF SendInv
<1> QED
  BY <1>4, <1>5

LEMMA MoveKeeps ==
    ASSUME SendInv, MovePointer
    PROVE  SendInv'
<1>1. SendTypes /\ PointersInv /\ SizeInv
  BY DEF SendInv
<1>2. SendTypes'
  BY <1>1, WriteTypesKept
<1>3. /\ UNCHANGED StillVars /\ wr' = (wr + Fits) % POINTERS /\ UNCHANGED <<short, size>>
      /\ step = "pointer" /\ step' = "command" /\ UNCHANGED <<memory, latched, left>>
  BY DEF MovePointer, StillVars, Queued, Queue, Between
<1>4. wr = latched
  BY <1>1, <1>3 DEF PointersInv
<1>5. FreeSize' = FreeSize /\ Fits' = Fits /\ Pass' = Pass
      /\ Queue(memory, latched, Fits)' = Queue(memory, latched, Fits)
  BY <1>3 DEF StillVars, FreeSize, Between, Fits, Pass, Queue
<1>6. SizeInv'
  BY <1>1, <1>3, <1>5 DEF SizeInv
<1>7. wr' = Moved(latched, Fits')
  BY <1>3, <1>4, <1>5 DEF Moved
<1> QED
  BY <1>2, <1>3, <1>6, <1>7, StillKeeps

LEMMA WriteKeeps ==
    ASSUME SendInv, WriteData
    PROVE  SendInv'
<1> DEFINE k == Between(rd, latched)
<1>1. SendTypes /\ PointersInv /\ SizeInv
  BY DEF SendInv
<1>2. SendTypes'
  BY <1>1, WriteTypesKept
<1>3. /\ UNCHANGED <<established, wr, rd, latched, upto, packet, wire, overlapped, left,
                     size, given, short>>
      /\ memory' = Written(memory, wr, Pass)
      /\ step = "data" /\ step' = "pointer"
  BY DEF WriteData
<1>4. wr = latched /\ size > 0 /\ size <= FreeSize /\ (~short => Len(left) <= size)
  BY <1>1, <1>3 DEF PointersInv, SizeInv
<1>5. /\ k \in Nat /\ memory \in Memories /\ rd \in Pointers /\ latched \in Pointers
      /\ latched \in Nat /\ FreeSize = TX_SIZE - k /\ size \in Nat /\ TX_SIZE \in Nat
  BY <1>1, SendFacts, PointerFacts DEF SendTypes
<1>6. Pass \in Seq(Nat) /\ Len(Pass) = Fits /\ Fits \in Nat /\ Fits <= size
  BY <1>1, PassFacts
<1>7. latched = Moved(rd, k)
  BY <1>5, BetweenMoved
<1> HIDE DEF k
<1>8. k + Len(Pass) <= TX_SIZE /\ Len(Pass) <= TX_SIZE
  BY <1>4, <1>5, <1>6
<1>9. Queued' = Queued
  <2>1. Queue(Written(memory, Moved(rd, k), Pass), rd, k) = Queue(memory, rd, k)
    BY <1>5, <1>6, <1>8, QueueKept
  <2>2. Queued' = Queue(memory', rd, k)
    BY <1>3 DEF Queued, Between, k
  <2>3. Queued = Queue(memory, rd, k)
    BY DEF Queued, k
  <2> QED
    BY <1>3, <1>4, <1>7, <2>1, <2>2, <2>3
<1>10. Queue(memory, latched, Fits)' = Pass' /\ Fits' = Fits /\ FreeSize' = FreeSize
  <2>1. Queue(Written(memory, latched, Pass), latched, Len(Pass)) = Pass
    BY <1>5, <1>6, <1>8, QueueWritten
  <2>2. Fits' = Fits /\ Pass' = Pass /\ FreeSize' = FreeSize
    BY <1>3 DEF Fits, Pass, FreeSize, Between
  <2>3. Queue(memory, latched, Fits)' = Queue(memory', latched, Fits)
    BY <1>3, <2>2
  <2> QED
    BY <1>3, <1>4, <1>6, <2>1, <2>2, <2>3
<1>11. SizeInv'
  BY <1>3, <1>4, <1>10 DEF SizeInv
<1>12. UNCHANGED StillVars
  BY <1>3, <1>9 DEF StillVars
<1> QED
  BY <1>2, <1>3, <1>4, <1>11, <1>12, StillKeeps

LEMMA ShiftOne ==
    ASSUME NEW a \in Seq(Nat), NEW b \in Seq(Nat), NEW x \in Nat
    PROVE  Append(a, x) \o b = a \o (<<x>> \o b)
<1>1. Append(a, x) = a \o <<x>> /\ <<x>> \in Seq(Nat)
  BY AppendIsConcat
<1> QED
  BY <1>1, AssocNat

(* SEND: the bytes of the pass join the queue.                             *)
LEMMA CommandMoves ==
    ASSUME SendInv, Command
    PROVE  /\ Between(rd, latched)' = Between(rd, latched) + Fits
           /\ Between(rd, latched)' <= TX_SIZE
           /\ Queued' = Queued \o Pass
           /\ Unsent' = Unsent
<1> DEFINE k == Between(rd, latched)
<1>1. SendTypes /\ PointersInv /\ SizeInv
  BY DEF SendInv
<1>2. /\ UNCHANGED <<memory, wr, rd>>
      /\ latched' = wr /\ left' = After(left, Fits) /\ step = "command"
  BY DEF Command, After
<1>3. /\ wr = Moved(latched, Fits) /\ size <= FreeSize
      /\ Queue(memory, latched, Fits) = Pass
  BY <1>1, <1>2 DEF PointersInv, SizeInv
<1>4. /\ k \in Nat /\ memory \in Memories /\ rd \in Pointers /\ latched \in Pointers
      /\ FreeSize = TX_SIZE - k /\ size \in Nat /\ TX_SIZE \in Nat /\ TX_SIZE < POINTERS
      /\ POINTERS \in Nat
  BY <1>1, SendFacts, PointerFacts DEF SendTypes
<1>5. /\ Pass \in Seq(Nat) /\ Len(Pass) = Fits /\ Fits \in Nat /\ Fits <= size
      /\ After(left, Fits) \in Seq(Nat) /\ Pass \o After(left, Fits) = left
  BY <1>1, PassFacts
<1>6. latched = Moved(rd, k)
  BY <1>4, BetweenMoved
<1>7. Between(rd, Moved(latched, Fits)) = k + Fits
  <2>1. Fits \in 0 .. POINTERS - 1 /\ Between(rd, latched) + Fits < POINTERS
    BY <1>3, <1>4, <1>5
  <2> QED
    BY <1>4, <2>1, BetweenMoved
<1>8. Between(rd, latched)' = k + Fits
  BY <1>2, <1>3, <1>7 DEF Between
<1> HIDE DEF k
<1>9. Queued' = Queued \o Pass
  <2>1. k \in 0 .. POINTERS - 1
    BY <1>3, <1>4, <1>5
  <2>2. Queue(memory, rd, k + Fits) = Queue(memory, rd, k) \o Queue(memory, Moved(rd, k), Fits)
    BY <1>4, <1>5, <2>1, QueueConcat
  <2>3. Queued = Queue(memory, rd, k)
    BY DEF Queued, k
  <2>4. Queued' = Queue(memory, rd, k + Fits)
    BY <1>2, <1>8 DEF Queued
  <2> QED
    BY <1>3, <1>6, <2>2, <2>3, <2>4
<1>10. Unsent' = Unsent
  <2>1. Queued \in Seq(Nat)
    BY <1>1, SendFacts
  <2>2. (Queued \o Pass) \o After(left, Fits) = Queued \o (Pass \o After(left, Fits))
    BY <1>5, <2>1, AssocNat
  <2>3. Unsent' = (Queued \o Pass) \o After(left, Fits)
    BY <1>2, <1>9 DEF Unsent
  <2> QED
    BY <1>5, <2>2, <2>3 DEF Unsent
<1>11. k + Fits <= TX_SIZE
  BY <1>3, <1>4, <1>5
<1> QED
  BY <1>8, <1>9, <1>10, <1>11 DEF k

LEMMA CommandKeeps ==
    ASSUME SendInv, Command
    PROVE  SendInv'
<1>1. SendTypes /\ PointersInv /\ SizeInv
  BY DEF SendInv
<1>2. SendTypes'
  BY <1>1, WriteTypesKept
<1>3. /\ UNCHANGED <<established, memory, wr, rd, packet, wire, size, given, short>>
      /\ latched' = wr /\ left' = After(left, Fits) /\ step = "command"
      /\ step' \in {"idle", "status"}
      /\ upto' \in {upto} \cup (IF upto = rd THEN {} ELSE {wr})
      /\ overlapped' = (overlapped \/ rd # latched \/ packet # <<>>)
  BY DEF Command, After
<1>4. /\ Between(rd, latched)' = Between(rd, latched) + Fits
      /\ Between(rd, latched)' <= TX_SIZE
      /\ Queued' = Queued \o Pass
      /\ Unsent' = Unsent
  BY CommandMoves
<1>5. /\ Between(rd, latched) \in Nat /\ Between(rd, upto) \in Nat
      /\ Len(given) \in Nat /\ Len(wire) \in Nat /\ Len(left) \in Nat
      /\ rd \in Pointers /\ latched \in Pointers /\ upto \in Pointers
      /\ left # <<>> /\ packet \in Seq(Nat)
  BY <1>1, <1>3, SendFacts DEF SendTypes
<1>6. /\ Fits \in Nat /\ Pass \in Seq(Nat)
      /\ Len(left) <= size => Fits = Len(left)
      /\ After(left, Fits) \in Seq(Nat)
      /\ Len(After(left, Fits)) = Len(left) - Fits
      /\ Pass \o After(left, Fits) = left
  BY <1>1, PassFacts
<1>7. PointersInv'
  <2>1. Between(rd, upto)' <= Between(rd, latched)'
    <3>1. CASE upto' = upto
      <4>1. Between(rd, upto)' = Between(rd, upto)
        BY <1>3, <3>1 DEF Between
      <4>2. Between(rd, upto) <= Between(rd, latched)
        BY <1>1 DEF PointersInv
      <4> QED
        BY <1>4, <1>5, <1>6, <4>1, <4>2
    <3>2. CASE upto' = wr
      <4>1. Between(rd, upto)' = Between(rd, latched)'
        BY <1>3, <3>2 DEF Between
      <4>2. Between(rd, latched)' \in Nat
        BY <1>4, <1>5, <1>6
      <4> QED
        BY <4>1, <4>2
    <3> QED
      BY <1>3, <3>1, <3>2
  <2> QED
    BY <1>3, <1>4, <2>1 DEF PointersInv
<1>8. SizeInv'
  BY <1>3 DEF SizeInv
<1>9. established' => OrderInv'
  BY <1>3, <1>4 DEF SendInv, OrderInv, OnTheWire
<1>10. ~established' => Down'
  BY <1>3 DEF SendInv, Down, OnTheWire
<1>11. Alone' => Alone /\ rd = latched /\ packet = <<>>
  BY <1>3 DEF Alone
<1>12. Alone' => WholeInv'
  BY <1>3, <1>11 DEF SendInv, WholeInv
<1>13. ASSUME Alone', established' PROVE FramesInv'
  <2>1. FramesInv /\ rd = latched /\ packet = <<>>
    BY <1>3, <1>11, <1>13 DEF SendInv
  <2>2. Between(rd, latched) = 0 /\ Queued = <<>>
    <3>1. Between(rd, latched) = 0
      BY <1>5, <2>1, BetweenMoved
    <3>2. Queued \in Seq(Nat) /\ Len(Queued) = 0
      BY <1>1, <3>1, SendFacts
    <3> QED
      BY <3>1, <3>2, NoBytes
  <2>3. Current = <<>>
    BY <1>5, <2>1, <2>2, NoBytes DEF Current
  <2>4. upto' = rd
    <3>1. Between(rd, upto) = 0
      BY <1>1, <1>5, <2>2 DEF PointersInv
    <3>2. upto = rd
      BY <1>5, <3>1, BetweenMoved
    <3> QED
      BY <1>3, <3>2
  <2>5. Len(left) <= size
    BY <1>1, <1>3, <1>13 DEF Alone, SizeInv
  <2>6. left' = <<>> /\ Pass = left
    <3>1. Len(After(left, Fits)) = 0
      BY <1>5, <1>6, <2>5
    <3>2. After(left, Fits) = <<>>
      BY <1>6, <3>1, NoBytes
    <3> QED
      BY <1>3, <1>6, <3>2, NoBytes
  <2>7. Current' = left
    <3>1. Queued' = left
      BY <1>4, <1>6, <2>2, <2>6, NoBytes
    <3>2. left \in Seq(Nat)
      BY <1>1 DEF SendTypes
    <3> QED
      BY <1>3, <2>1, <3>1, <3>2, NoBytes DEF Current
  <2>8. Len(given) = Len(wire) + 1 /\ given[Len(given)] = left
    BY <1>5, <2>1, <2>3 DEF FramesInv, Count
  <2>9. Count(Current)' = 1 /\ Count(left)' = 0
    BY <1>5, <2>6, <2>7 DEF Count
  <2> QED
    BY <1>3, <1>5, <2>1, <2>4, <2>6, <2>7, <2>8, <2>9 DEF FramesInv
<1> QED
  BY <1>2, <1>7, <1>8, <1>9, <1>10, <1>12, <1>13 DEF SendInv

(* The chip.                                                               *)
LEMMA BeginsKeeps ==
    ASSUME SendInv, ChipBegins
    PROVE  SendInv'
<1>1. SendTypes /\ PointersInv /\ SizeInv
  BY DEF SendInv
<1>2. SendTypes'
  BY <1>1, ChipTypesKept
<1>3. /\ UNCHANGED <<established, memory, wr, rd, latched, packet, wire, overlapped>>
      /\ UNCHANGED <<step, left, size, given, short>>
      /\ upto' = latched /\ established
  BY DEF ChipBegins, hostVars
<1>4. /\ Between(rd, latched)' = Between(rd, latched)
      /\ Between(rd, upto)' = Between(rd, latched)
      /\ Queued' = Queued /\ OnTheWire' = OnTheWire
  BY <1>3 DEF Between, Queued, Queue, OnTheWire
<1>5. Unsent' = Unsent /\ Current' = Current /\ FreeSize' = FreeSize /\ Fits' = Fits
      /\ Pass' = Pass /\ Queue(memory, latched, Fits)' = Queue(memory, latched, Fits)
  BY <1>3, <1>4 DEF Unsent, Current, FreeSize, Fits, Pass, Queue, Between
<1>6. Between(rd, latched) \in Nat
  BY <1>1, SendFacts
<1>7. PointersInv'
  BY <1>1, <1>3, <1>4, <1>5, <1>6 DEF PointersInv
<1>8. SizeInv'
  BY <1>1, <1>3, <1>5 DEF SizeInv
<1>9. OrderInv'
  BY <1>3, <1>4, <1>5 DEF SendInv, OrderInv
<1>10. Alone' => WholeInv' /\ FramesInv'
  BY <1>3, <1>5 DEF SendInv, Alone, WholeInv, FramesInv, Count
<1> QED
  BY <1>2, <1>3, <1>7, <1>8, <1>9, <1>10 DEF SendInv

LEMMA SendsMoves ==
    ASSUME SendInv, ChipSends
    PROVE  /\ Between(rd, latched)' = Between(rd, latched) - 1
           /\ Between(rd, upto)' = Between(rd, upto) - 1
           /\ Current' = Current
           /\ OnTheWire' \o Unsent' = OnTheWire \o Unsent
<1> DEFINE x == memory[rd % TX_SIZE]
           k == Between(rd, latched)
<1>1. SendTypes /\ PointersInv
  BY DEF SendInv
<1>2. /\ UNCHANGED <<memory, latched, upto, wire, left>>
      /\ packet' = Append(packet, x) /\ rd' = Moved(rd, 1) /\ rd # upto
  BY DEF ChipSends, hostVars, Moved
<1>3. /\ k \in Nat /\ Between(rd, upto) \in Nat
      /\ rd \in Pointers /\ latched \in Pointers /\ upto \in Pointers
      /\ memory \in Memories /\ packet \in Seq(Nat) /\ left \in Seq(Nat)
      /\ FlattenSeq(wire) \in Seq(Nat) /\ Queued \in Seq(Nat)
  BY <1>1, SendFacts DEF SendTypes
<1>4. rd # latched /\ k > 0
  <2>1. Between(rd, upto) # 0 /\ Between(rd, upto) <= k
    BY <1>1, <1>2, <1>3, BetweenMoved DEF PointersInv
  <2>2. k = 0 <=> rd = latched
    BY <1>3, BetweenMoved
  <2> HIDE DEF k
  <2> QED
    BY <1>3, <2>1, <2>2
<1>5. /\ Between(Moved(rd, 1), latched) = k - 1
      /\ Between(Moved(rd, 1), upto) = Between(rd, upto) - 1
  BY <1>2, <1>3, <1>4, BetweenMoved
<1>6. Between(rd, latched)' = k - 1 /\ Between(rd, upto)' = Between(rd, upto) - 1
  BY <1>2, <1>5 DEF Between
<1> HIDE DEF k
<1>7. x \in Nat /\ Queued = <<x>> \o Queued'
  <2>1. /\ Queue(memory, rd, k) = <<x>> \o Queue(memory, Moved(rd, 1), k - 1)
        /\ x \in Nat
    BY <1>3, <1>4, QueueFirst
  <2>2. Queued = Queue(memory, rd, k)
    BY DEF Queued, k
  <2>3. Queued' = Queue(memory, Moved(rd, 1), k - 1)
    BY <1>2, <1>6 DEF Queued
  <2> QED
    BY <2>1, <2>2, <2>3
<1> HIDE DEF x
<1> DEFINE q == Queued'
           F == FlattenSeq(wire)
<1>8. q \in Seq(Nat)
  <2>1. SendTypes'
    BY <1>1, ChipTypesKept
  <2>2. k - 1 \in Nat /\ rd' \in Nat /\ memory' \in Memories
    <3>1. rd' \in Pointers /\ memory' \in Memories
      BY <2>1 DEF SendTypes
    <3> QED
      BY <1>3, <1>4, <3>1, PointerFacts DEF Pointers
  <2>3. Queue(memory', rd', k - 1) \in Seq(Nat)
    BY <2>2, QueueType
  <2> QED
    BY <1>6, <2>3 DEF Queued
<1>9. Queued = <<x>> \o q
  BY <1>7
<1>10. Current' = Append(packet, x) \o q /\ Unsent' = q \o left
       /\ OnTheWire' = F \o Append(packet, x)
  BY <1>2 DEF Current, Unsent, OnTheWire
<1> HIDE DEF q, F
<1>11. Current' = Current
  <2>1. Append(packet, x) \o q = packet \o (<<x>> \o q)
    BY <1>3, <1>7, <1>8, ShiftOne
  <2> QED
    BY <1>9, <1>10, <2>1 DEF Current
<1>12. OnTheWire' \o Unsent' = OnTheWire \o Unsent
  <2> DEFINE one == <<x>>
             p == packet
             l == left
             ap == Append(packet, x)
  <2>1. /\ one \in Seq(Nat) /\ p \in Seq(Nat) /\ l \in Seq(Nat) /\ F \in Seq(Nat)
        /\ ap = p \o one
    BY <1>3, <1>7, AppendIsConcat DEF F
  <2> HIDE DEF one, p, l, ap
  <2>2. F \o ap = (F \o p) \o one
    BY <2>1, AssocNat
  <2>3. F \o p \in Seq(Nat) /\ q \o l \in Seq(Nat)
    BY <1>8, <2>1, JoinedBytes
  <2>4. ((F \o p) \o one) \o (q \o l) = (F \o p) \o (one \o (q \o l))
    <3> DEFINE v == F \o p
               w == q \o l
    <3>1. v \in Seq(Nat)
      BY <2>3
    <3>2. w \in Seq(Nat)
      BY <2>3
    <3>3. one \in Seq(Nat)
      BY <2>1
    <3> HIDE DEF v, w
    <3>4. (v \o one) \o w = v \o (one \o w)
      BY <3>1, <3>2, <3>3, AssocNat, Zenon
    <3> QED
      BY <3>4 DEF v, w
  <2>5. one \o (q \o l) = (one \o q) \o l
    <3>1. one \in Seq(Nat)
      BY <2>1
    <3>2. q \in Seq(Nat)
      BY <1>8
    <3>3. l \in Seq(Nat)
      BY <2>1
    <3>4. (one \o q) \o l = one \o (q \o l)
      BY <3>1, <3>2, <3>3, AssocNat, Zenon
    <3> QED
      BY <3>4
  <2>6. (F \o ap) \o (q \o l) = (F \o p) \o ((one \o q) \o l)
    BY <2>2, <2>4, <2>5
  <2> QED
    BY <1>9, <1>10, <2>6 DEF OnTheWire, Unsent, F, p, l, one, ap
<1> QED
  BY <1>6, <1>11, <1>12 DEF k

LEMMA SendsKeeps ==
    ASSUME SendInv, ChipSends
    PROVE  SendInv'
<1>1. SendTypes /\ PointersInv /\ SizeInv
  BY DEF SendInv
<1>2. SendTypes'
  BY <1>1, ChipTypesKept
<1>3. /\ UNCHANGED <<established, memory, wr, latched, upto, wire, overlapped>>
      /\ UNCHANGED <<step, left, size, given, short>>
      /\ rd # upto /\ established
  BY DEF ChipSends, hostVars
<1>4. /\ Between(rd, latched)' = Between(rd, latched) - 1
      /\ Between(rd, upto)' = Between(rd, upto) - 1
      /\ Current' = Current
      /\ OnTheWire' \o Unsent' = OnTheWire \o Unsent
  BY SendsMoves
<1>5. /\ Between(rd, latched) \in Nat /\ Between(rd, upto) \in Nat
      /\ FreeSize = TX_SIZE - Between(rd, latched) /\ size \in Nat
      /\ TX_SIZE \in Nat
  BY <1>1, SendFacts, PointerFacts DEF SendTypes
<1>6. /\ FreeSize' = FreeSize + 1 /\ FreeSize \in Int /\ Fits' = Fits
      /\ Pass' = Pass /\ Queue(memory, latched, Fits)' = Queue(memory, latched, Fits)
  <2>1. FreeSize' = TX_SIZE - Between(rd, latched)'
    BY DEF FreeSize
  <2>2. FreeSize' = FreeSize + 1 /\ FreeSize \in Int
    BY <1>4, <1>5, <2>1
  <2> QED
    BY <1>3, <2>2 DEF Fits, Pass, Queue
<1>7. PointersInv'
  BY <1>1, <1>3, <1>4, <1>5, <1>6 DEF PointersInv
<1>8. SizeInv'
  <2>1. size <= FreeSize => size' <= FreeSize'
    BY <1>3, <1>5, <1>6
  <2> QED
    BY <1>1, <1>3, <1>6, <2>1 DEF SizeInv
<1>9. OrderInv'
  BY <1>3, <1>4 DEF SendInv, OrderInv
<1>10. Alone' => WholeInv' /\ FramesInv'
  BY <1>3, <1>4 DEF SendInv, Alone, WholeInv, FramesInv, Count
<1> QED
  BY <1>2, <1>3, <1>7, <1>8, <1>9, <1>10 DEF SendInv

LEMMA EndsKeeps ==
    ASSUME SendInv, ChipEnds
    PROVE  SendInv'
<1>1. SendTypes /\ PointersInv /\ SizeInv
  BY DEF SendInv
<1>2. SendTypes'
  BY <1>1, ChipTypesKept
<1>3. /\ UNCHANGED <<established, memory, wr, rd, latched, upto, overlapped>>
      /\ UNCHANGED <<step, left, size, given, short>>
      /\ rd = upto /\ packet # <<>> /\ established
      /\ wire' = Append(wire, packet) /\ packet' = <<>>
  BY DEF ChipEnds, hostVars
<1>4. /\ Between(rd, latched)' = Between(rd, latched)
      /\ Between(rd, upto)' = Between(rd, upto)
      /\ Queued' = Queued /\ Unsent' = Unsent /\ FreeSize' = FreeSize /\ Fits' = Fits
      /\ Pass' = Pass /\ Queue(memory, latched, Fits)' = Queue(memory, latched, Fits)
  BY <1>3 DEF Between, Queued, Queue, Unsent, FreeSize, Fits, Pass
<1>5. /\ wire \in Seq(Seq(Nat)) /\ packet \in Seq(Nat) /\ rd \in Pointers
      /\ latched \in Pointers /\ Len(wire) \in Nat /\ Len(given) \in Nat
      /\ FlattenSeq(wire) \in Seq(Nat) /\ Queued \in Seq(Nat)
      /\ Len(Queued) = Between(rd, latched)
  BY <1>1, SendFacts DEF SendTypes
<1>6. PointersInv'
  BY <1>1, <1>3, <1>4 DEF PointersInv
<1>7. SizeInv'
  BY <1>1, <1>3, <1>4 DEF SizeInv
<1>8. OrderInv'
  <2>1. FlattenSeq(Append(wire, packet)) = FlattenSeq(wire) \o packet
    BY <1>5, FlattenAppend
  <2>2. FlattenSeq(wire) \o packet \in Seq(Nat)
    BY <1>5, JoinedBytes
  <2>3. (FlattenSeq(wire) \o packet) \o <<>> = FlattenSeq(wire) \o packet
    BY <2>2, NoBytes
  <2>4. OnTheWire' = OnTheWire
    BY <1>3, <2>1, <2>3 DEF OnTheWire
  <2> QED
    BY <1>3, <1>4, <2>4 DEF SendInv, OrderInv
<1>9. ASSUME Alone' PROVE WholeInv' /\ FramesInv'
  <2>1. WholeInv /\ FramesInv
    BY <1>3, <1>9 DEF SendInv, Alone
  <2>2. upto = latched
    BY <1>3, <2>1 DEF FramesInv
  <2>3. Queued = <<>>
    <3>1. Between(rd, latched) = 0
      BY <1>3, <1>5, <2>2, BetweenMoved
    <3> QED
      BY <1>5, <3>1, NoBytes
  <2>4. Current = packet
    BY <1>5, <2>3, NoBytes DEF Current
  <2>5. /\ Len(given) = Len(wire) + 1 + Count(left)
        /\ given[Len(wire) + 1] = packet
        /\ left # <<>> => given[Len(given)] = left
    BY <1>3, <1>5, <2>1, <2>4 DEF FramesInv, Count
  <2>6. Current' = <<>>
    <3>1. <<>> \o <<>> = <<>>
      OBVIOUS
    <3> QED
      BY <1>3, <1>4, <2>3, <3>1 DEF Current
  <2>7. /\ Len(wire') = Len(wire) + 1 /\ wire'[Len(wire) + 1] = packet
        /\ \A k \in 1 .. Len(wire) : wire'[k] = wire[k]
    BY <1>3, <1>5
  <2>8. Count(left) \in Nat
    BY DEF Count
  <2>9. WholeInv'
    <3>1. Len(wire') <= Len(given)
      BY <1>5, <2>5, <2>7, <2>8
    <3>2. ASSUME NEW k \in 1 .. Len(wire') PROVE wire'[k] = given[k]
      <4>1. CASE k = Len(wire) + 1
        BY <2>5, <2>7, <4>1
      <4>2. CASE k # Len(wire) + 1
        <5>1. k \in 1 .. Len(wire)
          BY <1>5, <2>7, <4>2
        <5> QED
          BY <2>1, <2>7, <5>1 DEF WholeInv
      <4> QED
        BY <4>1, <4>2
    <3> QED
      BY <1>3, <3>1, <3>2 DEF WholeInv
  <2>10. FramesInv'
    <3>1. Count(Current)' = 0 /\ Count(left)' = Count(left)
      BY <1>3, <2>6 DEF Count
    <3> QED
      BY <1>3, <1>5, <2>2, <2>5, <2>6, <2>7, <2>8, <3>1 DEF FramesInv
  <2> QED
    BY <2>9, <2>10
<1> QED
  BY <1>2, <1>3, <1>6, <1>7, <1>8, <1>9 DEF SendInv

LEMMA BreaksKeeps ==
    ASSUME SendInv, ChipBreaks
    PROVE  SendInv'
<1>1. SendTypes /\ PointersInv /\ SizeInv
  BY DEF SendInv
<1>2. SendTypes'
  BY <1>1, ChipTypesKept
<1>3. /\ UNCHANGED <<memory, wr, rd, latched, upto, packet, wire, overlapped>>
      /\ UNCHANGED <<step, left, size, given, short>>
      /\ established /\ ~established'
  BY DEF ChipBreaks, hostVars
<1>4. PointersInv' /\ SizeInv'
  BY <1>1, <1>3 DEF PointersInv, SizeInv, Between, FreeSize, Fits, Pass, Queue
<1>5. Down'
  <2>1. OnTheWire \o Unsent = FlattenSeq(given) /\ Unsent \in Seq(Nat)
    BY <1>1, <1>3, SendFacts DEF SendInv, OrderInv
  <2>2. OnTheWire' = OnTheWire /\ FlattenSeq(given)' = FlattenSeq(given)
    BY <1>3 DEF OnTheWire
  <2> QED
    BY <2>1, <2>2 DEF Down
<1>6. Alone' => WholeInv'
  BY <1>3 DEF SendInv, Alone, WholeInv
<1> QED
  BY <1>2, <1>3, <1>4, <1>5, <1>6 DEF SendInv

(* A call of send.                                                         *)
LEMMA CallKeeps ==
    ASSUME SendInv, NEW buf \in Buffers, send(buf)
    PROVE  SendInv'
<1>1. SendTypes /\ PointersInv /\ SizeInv
  BY DEF SendInv
<1>2. SendTypes' /\ buf \in Seq(Nat) /\ buf # <<>>
  BY <1>1, CallTypesKept
<1>3. /\ UNCHANGED <<established, memory, wr, rd, latched, upto, packet, wire,
                     overlapped, size, short>>
      /\ step = "idle" /\ step' = "status" /\ left' = buf /\ given' = Append(given, buf)
  BY DEF send, chipVars
<1>4. left = <<>>
  BY <1>1, <1>3 DEF SendTypes
<1>5. /\ given \in Seq(Seq(Nat)) /\ Len(given) \in Nat /\ Len(wire) \in Nat
      /\ OnTheWire \in Seq(Nat) /\ Queued \in Seq(Nat)
  BY <1>1, SendFacts DEF SendTypes
<1>6. /\ Between(rd, latched)' = Between(rd, latched)
      /\ Between(rd, upto)' = Between(rd, upto)
      /\ Queued' = Queued /\ OnTheWire' = OnTheWire /\ Current' = Current
  BY <1>3 DEF Between, Queued, Queue, OnTheWire, Current
<1>7. PointersInv'
  BY <1>1, <1>3, <1>6 DEF PointersInv
<1>8. SizeInv'
  BY <1>3 DEF SizeInv
<1>9. FlattenSeq(given') = FlattenSeq(given) \o buf
  BY <1>2, <1>3, <1>5, FlattenAppend
<1>10. ASSUME established' PROVE OrderInv'
  <2>1. Unsent = Queued
    BY <1>4, <1>5, NoBytes DEF Unsent
  <2>2. OnTheWire \o Queued = FlattenSeq(given)
    BY <1>3, <1>10, <2>1 DEF SendInv, OrderInv
  <2>3. (OnTheWire \o Queued) \o buf = OnTheWire \o (Queued \o buf)
    BY <1>2, <1>5, AssocNat
  <2>4. Unsent' = Queued \o buf
    BY <1>3, <1>6 DEF Unsent
  <2> QED
    BY <1>6, <1>9, <2>2, <2>3, <2>4 DEF OrderInv
<1>11. ASSUME ~established' PROVE Down'
  <2>1. PICK r \in Seq(Nat) : OnTheWire \o r = FlattenSeq(given)
    BY <1>3, <1>11 DEF SendInv, Down
  <2>2. r \o buf \in Seq(Nat) /\ OnTheWire \o (r \o buf) = (OnTheWire \o r) \o buf
    <3>1. r \o buf \in Seq(Nat)
      BY <1>2, <2>1, JoinedBytes
    <3>2. OnTheWire \o (r \o buf) = (OnTheWire \o r) \o buf
      BY <1>2, <1>5, <2>1, AssocNat
    <3> QED
      BY <3>1, <3>2
  <2>3. OnTheWire' \o (r \o buf) = FlattenSeq(given')
    BY <1>6, <1>9, <2>1, <2>2
  <2> QED
    BY <2>2, <2>3 DEF Down
<1>12. /\ Len(given') = Len(given) + 1 /\ given'[Len(given) + 1] = buf
       /\ \A k \in 1 .. Len(given) : given'[k] = given[k]
  BY <1>2, <1>3, <1>5
<1>13. Alone' => WholeInv'
  <2> SUFFICES ASSUME Alone' PROVE WholeInv'
    OBVIOUS
  <2>1. WholeInv
    BY <1>3 DEF SendInv, Alone
  <2>2. Len(wire) <= Len(given) /\ \A k \in 1 .. Len(wire) : wire[k] = given[k]
    BY <2>1 DEF WholeInv
  <2>3. \A k \in 1 .. Len(wire) : k \in 1 .. Len(given)
    BY <1>5, <2>2
  <2> QED
    BY <1>3, <1>5, <1>12, <2>2, <2>3 DEF WholeInv
<1>14. ASSUME Alone', established' PROVE FramesInv'
  <2>1. FramesInv
    BY <1>3, <1>14 DEF SendInv, Alone
  <2>2. /\ Len(given) = Len(wire) + Count(Current)
        /\ Current # <<>> => given[Len(wire) + 1] = Current
        /\ rd # upto \/ packet # <<>> => upto = latched
    BY <1>4, <1>5, <2>1 DEF FramesInv, Count
  <2>3. Count(Current)' = Count(Current) /\ Count(left)' = 1 /\ Count(Current) \in {0, 1}
    BY <1>2, <1>3, <1>6 DEF Count
  <2>4. Current # <<>> => Len(wire) + 1 \in 1 .. Len(given)
    BY <1>5, <2>2 DEF Count
  <2>5. Current' # <<>> => given'[Len(wire') + 1] = Current'
    BY <1>3, <1>6, <1>12, <2>2, <2>4
  <2>6. Len(given') = Len(wire') + Count(Current)' + Count(left)'
    BY <1>3, <1>5, <1>12, <2>2, <2>3
  <2>7. given'[Len(given')] = left'
    BY <1>3, <1>12
  <2> QED
    BY <1>3, <2>2, <2>5, <2>6, <2>7 DEF FramesInv
<1> QED
  BY <1>2, <1>7, <1>8, <1>10, <1>11, <1>13, <1>14 DEF SendInv

-----------------------------------------------------------------------------
LEMMA SendStep == SendInv /\ [SendNext]_sendVars => SendInv'
<1> SUFFICES ASSUME SendInv, [SendNext]_sendVars PROVE SendInv'
  OBVIOUS
<1>1. CASE UNCHANGED sendVars
  <2>1. UNCHANGED <<established, memory, wr, rd, latched, upto, packet, wire, step,
                    left, size, given, short, overlapped>>
    BY <1>1 DEF sendVars
  <2>2. SendTypes'
    BY <2>1 DEF SendInv, SendTypes
  <2>3. SizeInv'
    BY <2>1 DEF SendInv, SizeInv, FreeSize, Between, Queue, Fits, Pass
  <2>4. UNCHANGED StillVars
    BY <2>1 DEF StillVars, Queued, Queue, Between
  <2>5. wr' = IF step' = "command" THEN Moved(latched, Fits') ELSE latched
    BY <2>1 DEF SendInv, PointersInv, Fits, Moved
  <2> QED
    BY <2>1, <2>2, <2>3, <2>4, <2>5, StillKeeps
<1>2. CASE \E buf \in Buffers : send(buf)
  BY <1>2, CallKeeps
<1>3. CASE Loop
  BY <1>3, StatusKeeps, AskKeepsSend, WriteKeeps, MoveKeeps, CommandKeeps DEF Loop
<1>4. CASE Chip \/ ChipBreaks
  BY <1>4, BeginsKeeps, SendsKeeps, EndsKeeps, BreaksKeeps DEF Chip
<1> QED
  BY <1>1, <1>2, <1>3, <1>4 DEF SendNext

(* What leaves the chip is what send was given, whatever the size of its   *)
(* memory, and however the chip and the host take turns.                   *)
THEOREM SendingIsFaithful == SendSpec => []SentAsGiven
<1>1. SendInv => SentAsGiven
  <2> SUFFICES ASSUME SendInv PROVE SentAsGiven
    OBVIOUS
  <2>1. SendTypes /\ PointersInv
    BY DEF SendInv
  <2>2. OnTheWire \in Seq(Nat) /\ Unsent \in Seq(Nat)
    BY <2>1, SendFacts
  <2>3. IsPrefix(OnTheWire, FlattenSeq(given))
    <3>1. PICK r \in Seq(Nat) : OnTheWire \o r = FlattenSeq(given)
      BY <2>2 DEF SendInv, OrderInv, Down
    <3>2. IsPrefix(OnTheWire, OnTheWire \o r)
      BY <2>2, <3>1, BeginningOf
    <3> QED
      BY <3>1, <3>2
  <2>4. ASSUME step = "idle", established, rd = wr
        PROVE  OnTheWire = FlattenSeq(given)
    <3>1. left = <<>> /\ rd = latched /\ rd \in Pointers
      BY <2>1, <2>4 DEF SendTypes, PointersInv
    <3>2. Between(rd, latched) = 0
      BY <3>1, BetweenMoved
    <3>3. Queued \in Seq(Nat) /\ Len(Queued) = 0
      BY <2>1, <3>2, SendFacts
    <3>4. Unsent = <<>>
      <4>1. Queued = <<>>
        BY <3>3, NoBytes
      <4> QED
        BY <3>1, <3>3, <4>1, NoBytes DEF Unsent
    <3> QED
      BY <2>2, <2>4, <3>4, NoBytes DEF SendInv, OrderInv
  <2>5. FramesWhole
    BY DEF SendInv, Alone, WholeInv, FramesWhole
  <2> QED
    BY <2>3, <2>4, <2>5 DEF SentAsGiven, StreamIntact
<1> QED
  BY <1>1, InitSend, SendStep, PTL DEF SendSpec
=============================================================================
