--------------------------- MODULE SequenceLemmas ---------------------------
(***************************************************************************)
(* What the proofs about the modules share: induction over the numbers,    *)
(* whose library theorems take an operator, and the concatenation of many  *)
(* sequences, which SequencesExt defines by a recursive function.          *)
(***************************************************************************)
EXTENDS Integers, SequencesExt, WellFoundedInduction, SequenceTheorems, TLAPS

-----------------------------------------------------------------------------
(* Induction over numbers.                                                 *)

\* A set of numbers with 0 and the successor of each is all of them.
LEMMA Induct ==
  ASSUME NEW T \in SUBSET Nat, 0 \in T, \A n \in T : n + 1 \in T
  PROVE  T = Nat
<1> DEFINE R == OpToRel(<, Nat)
           C == Nat \ T
<1>1. SUFFICES ASSUME C # {} PROVE FALSE
  OBVIOUS
<1>2. \E x \in C : \A y \in C : ~(<<y, x>> \in R)
  <2>1. IsWellFoundedOn(R, Nat) /\ C \subseteq Nat
    BY NatLessThanWellFounded
  <2> HIDE DEF R, C
  <2>2. QED
    BY <1>1, <2>1, WFMin
<1>3. PICK x \in C : \A y \in C : ~(<<y, x>> \in R)
  BY <1>2
<1>4. \A y \in C : ~(y < x)
  BY <1>3 DEF OpToRel
<1>5. x \in Nat /\ x # 0
  OBVIOUS
<1>6. x - 1 \in Nat /\ x - 1 < x
  BY <1>5
<1>7. x - 1 \in T
  BY <1>4, <1>6
<1>8. x \in T
  <2>1. (x - 1) + 1 = x
    BY <1>5
  <2>2. QED
    BY <1>7, <2>1
<1>9. QED
  BY <1>8

\* A set of numbers has a least one.
LEMMA NatMin ==
  ASSUME NEW T \in SUBSET Nat, T # {}
  PROVE  \E x \in T : \A y \in T : x <= y
<1> DEFINE R == OpToRel(<, Nat)
<1>1. \E x \in T : \A y \in T : ~(<<y, x>> \in R)
  <2>1. IsWellFoundedOn(R, Nat)
    BY NatLessThanWellFounded
  <2> HIDE DEF R
  <2>2. QED
    BY <2>1, WFMin
<1>2. PICK x \in T : \A y \in T : ~(<<y, x>> \in R)
  BY <1>1
<1>3. \A y \in T : ~(y < x)
  BY <1>2 DEF OpToRel
<1> QED
  BY <1>3

\* Min returns it.
LEMMA MinIs ==
  ASSUME NEW T \in SUBSET Nat, T # {}
  PROVE  Min(T) \in T /\ \A x \in T : Min(T) <= x
BY NatMin DEF Min

-----------------------------------------------------------------------------
(* Concatenation of many sequences.                                        *)

\* The recursion that FlattenSeq is made of.
Partials(S, f) == f = [i \in 1..Len(S) |-> IF i = 1 THEN S[i] ELSE f[i - 1] \o S[i]]

\* The recursion has a solution.
LEMMA PartialsExist ==
  ASSUME NEW n \in Nat, NEW S, Len(S) = n
  PROVE  \E f : Partials(S, f)
<1> DEFINE Solves(m, f) == f = [i \in 1..m |-> IF i = 1 THEN S[i] ELSE f[i - 1] \o S[i]]
           T == {m \in Nat : \E f : Solves(m, f)}
<1>1. 0 \in T
  <2>1. Solves(0, <<>>)
    OBVIOUS
  <2>2. QED
    BY <2>1
<1>2. ASSUME NEW m \in T PROVE m + 1 \in T
  <2>1. PICK f : Solves(m, f)
    BY <1>2
  <2> DEFINE g == [i \in 1..(m + 1) |-> IF i = m + 1
                                         THEN IF i = 1 THEN S[i] ELSE f[i - 1] \o S[i]
                                         ELSE f[i]]
  <2>2. ASSUME NEW i \in 1..(m + 1)
        PROVE  g[i] = IF i = 1 THEN S[i] ELSE g[i - 1] \o S[i]
    <3>1. CASE i = 1
      <4>1. m >= 1 => f[1] = S[1]
        BY <2>1
      <4>2. QED
        BY <3>1, <4>1
    <3>2. CASE i # 1 /\ i # m + 1
      <4>1. i \in 1..m /\ i - 1 \in 1..m /\ i - 1 # m + 1 /\ i - 1 \in 1..(m + 1)
        BY <3>2
      <4>2. f[i] = f[i - 1] \o S[i]
        BY <2>1, <3>2, <4>1
      <4>3. g[i] = f[i] /\ g[i - 1] = f[i - 1]
        BY <3>2, <4>1
      <4>4. QED
        BY <3>2, <4>2, <4>3
    <3>3. CASE i # 1 /\ i = m + 1
      <4>1. i - 1 \in 1..(m + 1) /\ i - 1 # m + 1
        BY <3>3
      <4>2. g[i - 1] = f[i - 1] /\ g[i] = f[i - 1] \o S[i]
        BY <3>3, <4>1
      <4>3. QED
        BY <3>3, <4>2
    <3>4. QED
      BY <3>1, <3>2, <3>3
  <2>3. g = [i \in 1..(m + 1) |-> g[i]]
    OBVIOUS
  <2> HIDE DEF g
  <2>4. Solves(m + 1, g)
    BY <2>2, <2>3, Zenon
  <2>5. m + 1 \in Nat
    OBVIOUS
  <2> HIDE DEF Solves
  <2>6. QED
    BY <2>4, <2>5, Zenon
<1> HIDE DEF T
<1>3. T = Nat
  <2>1. T \in SUBSET Nat
    BY DEF T
  <2>2. QED
    BY <1>1, <1>2, <2>1, Induct, Zenon
<1>4. \E f : Solves(n, f)
  BY <1>3 DEF T
<1>5. QED
  BY <1>4 DEF Partials

\* What FlattenSeq returns is the last of them.
FlatBy(S, f, n) ==
  /\ FlattenSeq(S) = f[n]
  /\ f[1] = S[1]
  /\ \A i \in 2..n : f[i] = f[i - 1] \o S[i]

LEMMA Flattened ==
  ASSUME NEW n \in Nat \ {0}, NEW S, Len(S) = n
  PROVE  \E f : FlatBy(S, f, n)
<1> DEFINE f == CHOOSE f : Partials(S, f)
<1>1. Partials(S, f)
  BY PartialsExist, Zenon
<1>2. FlattenSeq(S) = f[n]
  BY DEF FlattenSeq, Partials
<1> HIDE DEF f
<1>3. f[1] = S[1]
  BY <1>1 DEF Partials
<1>4. ASSUME NEW i \in 2..n
      PROVE  f[i] = f[i - 1] \o S[i]
  <2>1. i \in 1..Len(S) /\ i # 1
    OBVIOUS
  <2>2. QED
    BY <1>1, <2>1, Zenon DEF Partials
<1>5. QED
  BY <1>2, <1>3, <1>4 DEF FlatBy

\* Sequences over a set, one behind the other, are a sequence over it.
LEMMA FlattenType ==
  ASSUME NEW E, NEW n \in Nat, NEW S, S \in Seq(Seq(E)), Len(S) = n
  PROVE  FlattenSeq(S) \in Seq(E)
<1>1. CASE n = 0
  <2>1. S = <<>> /\ Len(S) = 0
    BY <1>1
  <2>2. FlattenSeq(S) = S
    BY <2>1 DEF FlattenSeq
  <2>3. <<>> \in Seq(E)
    OBVIOUS
  <2>4. QED
    BY <2>1, <2>2, <2>3, Zenon
<1>2. CASE n # 0
  <2>1. PICK f : FlatBy(S, f, n)
    <3>1. n \in Nat \ {0}
      BY <1>2
    <3>2. QED
      BY <3>1, Flattened, Zenon
  <2>2. /\ FlattenSeq(S) = f[n]
        /\ f[1] = S[1]
        /\ \A i \in 2..n : f[i] = f[i - 1] \o S[i]
    BY <2>1 DEF FlatBy
  <2> DEFINE T == {m \in Nat : m + 1 <= n => f[m + 1] \in Seq(E)}
  <2>3. 0 \in T
    BY <1>2, <2>2
  <2>4. ASSUME NEW m \in T PROVE m + 1 \in T
    <3>1. CASE m + 2 <= n
      <4>1. f[m + 1] \in Seq(E) /\ S[m + 2] \in Seq(E)
        BY <3>1
      <4>2. f[m + 2] = f[m + 1] \o S[m + 2]
        <5>1. m + 2 \in 2..n /\ (m + 2) - 1 = m + 1
          BY <3>1
        <5>2. QED
          BY <2>2, <5>1
      <4>3. f[m + 2] \in Seq(E)
        BY <4>1, <4>2, ConcatProperties, Zenon
      <4>4. (m + 1) + 1 = m + 2
        OBVIOUS
      <4>5. QED
        BY <4>3, <4>4
    <3>2. CASE ~(m + 2 <= n)
      BY <3>2
    <3>3. QED
      BY <3>1, <3>2
  <2>5. T = Nat
    <3>1. T \in SUBSET Nat
      OBVIOUS
    <3> HIDE DEF T
    <3>2. QED
      BY <2>3, <2>4, <3>1, Induct, Zenon
  <2>6. n - 1 \in Nat /\ (n - 1) + 1 = n
    BY <1>2
  <2>7. n - 1 \in T
    <3> HIDE DEF T
    <3>1. QED
      BY <2>5, <2>6
  <2>8. QED
    BY <2>2, <2>6, <2>7
<1>3. QED
  BY <1>1, <1>2

\* One more sequence is put behind the others.
LEMMA FlattenAppend ==
  ASSUME NEW E, NEW S \in Seq(Seq(E)), NEW s \in Seq(E)
  PROVE  FlattenSeq(Append(S, s)) = FlattenSeq(S) \o s
<1> DEFINE n == Len(S)
           A == Append(S, s)
<1>1. n \in Nat /\ A \in Seq(Seq(E)) /\ Len(A) = n + 1
  BY AppendProperties
<1>2. (\A i \in 1..n : A[i] = S[i]) /\ A[n + 1] = s
  BY AppendProperties
<1> HIDE DEF A
<1>3. PICK g : FlatBy(A, g, n + 1)
  <2>1. n + 1 \in Nat \ {0}
    BY <1>1
  <2>2. QED
    BY <1>1, <2>1, Flattened, Zenon
<1>4. /\ FlattenSeq(A) = g[n + 1]
      /\ g[1] = A[1]
      /\ \A i \in 2..(n + 1) : g[i] = g[i - 1] \o A[i]
  BY <1>3 DEF FlatBy
<1>5. CASE n = 0
  <2>1. S = <<>> /\ Len(S) = 0
    BY <1>5
  <2>2. FlattenSeq(S) = <<>>
    BY <2>1 DEF FlattenSeq
  <2>3. FlattenSeq(A) = s
    BY <1>2, <1>4, <1>5
  <2>4. <<>> \o s = s
    BY ConcatEmptySeq
  <2>5. QED
    BY <2>2, <2>3, <2>4 DEF A
<1>6. CASE n # 0
  <2>1. PICK f : FlatBy(S, f, n)
    <3>1. n \in Nat \ {0}
      BY <1>1, <1>6
    <3>2. QED
      BY <3>1, Flattened, Zenon
  <2>2. /\ FlattenSeq(S) = f[n]
        /\ f[1] = S[1]
        /\ \A i \in 2..n : f[i] = f[i - 1] \o S[i]
    BY <2>1 DEF FlatBy
  <2> DEFINE T == {m \in Nat : m + 1 <= n => g[m + 1] = f[m + 1]}
  <2>3. 0 \in T
    BY <1>1, <1>2, <1>4, <1>6, <2>2
  <2>4. ASSUME NEW m \in T PROVE m + 1 \in T
    <3>1. CASE m + 2 <= n
      <4>1. /\ m + 2 \in 2..n /\ m + 2 \in 2..(n + 1) /\ m + 2 \in 1..n
            /\ (m + 2) - 1 = m + 1
        BY <1>1, <3>1
      <4>2. g[m + 1] = f[m + 1]
        BY <1>1, <3>1
      <4>3. g[m + 2] = f[m + 2]
        BY <1>2, <1>4, <2>2, <4>1, <4>2, ZenonT(30)
      <4>4. (m + 1) + 1 = m + 2
        OBVIOUS
      <4>5. QED
        BY <4>3, <4>4
    <3>2. CASE ~(m + 2 <= n)
      BY <1>1, <3>2
    <3>3. QED
      BY <3>1, <3>2
  <2>5. T = Nat
    <3>1. T \in SUBSET Nat
      OBVIOUS
    <3> HIDE DEF T
    <3>2. QED
      BY <2>3, <2>4, <3>1, Induct, Zenon
  <2>6. n - 1 \in Nat /\ (n - 1) + 1 = n
    BY <1>1, <1>6
  <2>7. n - 1 \in T
    <3> HIDE DEF T
    <3>1. QED
      BY <2>5, <2>6
  <2>8. g[n] = f[n]
    BY <2>6, <2>7
  <2>9. g[n + 1] = g[n] \o s
    <3>1. n + 1 \in 2..(n + 1) /\ (n + 1) - 1 = n
      BY <1>1, <1>6
    <3>2. QED
      BY <1>2, <1>4, <3>1
  <2>10. QED
    BY <1>4, <2>2, <2>8, <2>9 DEF A
<1>7. QED
  BY <1>5, <1>6
-----------------------------------------------------------------------------
(* Longer and longer beginnings of a sequence.                             *)

LEMMA Longer ==
  ASSUME NEW E, NEW s \in Seq(E), NEW i \in Nat, i + 1 <= Len(s)
  PROVE  /\ SubSeq(s, 1, i) \in Seq(E) /\ s[i + 1] \in E
         /\ SubSeq(s, 1, i + 1) = Append(SubSeq(s, 1, i), s[i + 1])
<1>1. i \in 0..Len(s) /\ i + 1 \in 1..Len(s)
  OBVIOUS
<1>2. s[i + 1] \in E
  BY <1>1
<1>3. SubSeq(s, 1, i) \in Seq(E) /\ Len(SubSeq(s, 1, i)) = i
  OBVIOUS
<1>4. SubSeq(s, 1, i + 1) = Append(SubSeq(s, 1, i), s[i + 1])
  OBVIOUS
<1>5. QED
  BY <1>2, <1>3, <1>4

LEMMA SubSeqAll ==
  ASSUME NEW E, NEW s \in Seq(E)
  PROVE  SubSeq(s, 1, 0) = <<>> /\ SubSeq(s, 1, Len(s)) = s
OBVIOUS

LEMMA FlattenLonger ==
  ASSUME NEW E, NEW S \in Seq(Seq(E)), NEW i \in Nat, i + 1 <= Len(S)
  PROVE  /\ FlattenSeq(SubSeq(S, 1, i)) \in Seq(E)
         /\ FlattenSeq(SubSeq(S, 1, i + 1)) = FlattenSeq(SubSeq(S, 1, i)) \o S[i + 1]
<1> DEFINE B == SubSeq(S, 1, i)
           D == Seq(E)
<1>1. B \in Seq(D) /\ S[i + 1] \in D /\ SubSeq(S, 1, i + 1) = Append(B, S[i + 1])
  BY Longer, Zenon
<1>2. Len(B) \in Nat
  BY <1>1
<1> HIDE DEF B
<1>3. FlattenSeq(B) \in Seq(E)
  BY <1>1, <1>2, FlattenType, Zenon
<1>4. FlattenSeq(Append(B, S[i + 1])) = FlattenSeq(B) \o S[i + 1]
  BY <1>1, FlattenAppend, Zenon
<1>5. QED
  BY <1>1, <1>3, <1>4 DEF B

LEMMA FlattenEmpty ==
  FlattenSeq(<<>>) = <<>>
BY DEF FlattenSeq

LEMMA AppendBehind ==
  ASSUME NEW E, NEW s \in Seq(E), NEW t \in Seq(E), NEW e \in E
  PROVE  s \o Append(t, e) = Append(s \o t, e)
OBVIOUS


\* One sequence before the others.
LEMMA FlattenFirst ==
  ASSUME NEW E, NEW s \in Seq(E), NEW S \in Seq(Seq(E))
  PROVE  FlattenSeq(<<s>> \o S) = s \o FlattenSeq(S)
<1> DEFINE D == Seq(E)
           U == <<s>> \o S
           F(i) == FlattenSeq(SubSeq(S, 1, i))
           G(i) == FlattenSeq(SubSeq(U, 1, i))
           P(i) == G(i + 1) = s \o F(i)
           T == {i \in Nat : i <= Len(S) => P(i)}
<1>1. U \in Seq(Seq(E)) /\ Len(U) = Len(S) + 1 /\ U[1] = s
      /\ \A i \in 1..Len(S) : U[i + 1] = S[i]
  OBVIOUS
<1>2. Len(S) \in Nat
  OBVIOUS
<1> HIDE DEF U
<1>3. ASSUME NEW i \in Nat, i + 1 <= Len(U)
      PROVE  G(i) \in Seq(E) /\ G(i + 1) = G(i) \o U[i + 1]
  BY <1>1, <1>3, FlattenLonger, Zenon
<1>4. ASSUME NEW i \in Nat, i + 1 <= Len(S)
      PROVE  F(i) \in Seq(E) /\ F(i + 1) = F(i) \o S[i + 1]
  BY <1>4, FlattenLonger, Zenon
<1>5. 0 \in T
  <2>1. SubSeq(S, 1, 0) = <<>> /\ SubSeq(U, 1, 0) = <<>>
    BY <1>1, SubSeqAll, Zenon
  <2>2. F(0) = <<>> /\ G(0) = <<>>
    BY <2>1, FlattenEmpty
  <2>3. 0 + 1 <= Len(U) /\ 0 + 1 = 1
    BY <1>1, <1>2
  <2>4. G(0 + 1) = G(0) \o U[0 + 1]
    <3> HIDE DEF G
    <3>1. QED
      BY <1>3, <2>3
  <2> HIDE DEF F, G
  <2>5. G(1) = <<>> \o s
    BY <1>1, <2>2, <2>3, <2>4
  <2>6. <<>> \o s = s /\ s \o <<>> = s
    BY ConcatEmptySeq
  <2>7. P(0)
    BY <2>2, <2>3, <2>5, <2>6
  <2> HIDE DEF P
  <2>8. QED
    BY <2>7
<1>6. ASSUME NEW i \in T PROVE i + 1 \in T
  <2>1. i \in Nat /\ i + 1 \in Nat
    OBVIOUS
  <2>2. CASE i + 1 <= Len(S)
    <3>1. i <= Len(S) /\ (i + 1) + 1 <= Len(U) /\ i + 1 \in 1..Len(S)
      BY <1>1, <1>2, <2>1, <2>2, SMTT(30)
    <3>2. P(i)
      <4> HIDE DEF P
      <4>1. QED
        BY <3>1
    <3>3. G((i + 1) + 1) = G(i + 1) \o U[(i + 1) + 1]
      <4> HIDE DEF G
      <4>1. QED
        BY <1>3, <2>1, <3>1
    <3>4. F(i) \in Seq(E) /\ F(i + 1) = F(i) \o S[i + 1]
      <4> HIDE DEF F
      <4>1. QED
        BY <1>4, <2>1, <2>2
    <3>5. U[(i + 1) + 1] = S[i + 1] /\ S[i + 1] \in Seq(E)
      BY <1>1, <3>1
    <3> HIDE DEF F, G
    <3>6. (s \o F(i)) \o S[i + 1] = s \o (F(i) \o S[i + 1])
      <4> DEFINE t == F(i)
                 u == S[i + 1]
      <4>1. s \in Seq(E) /\ t \in Seq(E) /\ u \in Seq(E)
        BY <3>4, <3>5, Zenon
      <4> HIDE DEF T, P, t, u
      <4>2. (s \o t) \o u = s \o (t \o u)
        BY <4>1, ConcatAssociative, SMTT(30)
      <4>3. QED
        BY <4>2, Zenon DEF t, u
    <3>7. P(i + 1)
      BY <3>2, <3>3, <3>4, <3>5, <3>6, Zenon
    <3> HIDE DEF P
    <3>8. QED
      BY <2>1, <3>7
  <2>3. CASE ~(i + 1 <= Len(S))
    <3> HIDE DEF P
    <3>1. QED
      BY <2>1, <2>3
  <2>4. QED
    BY <2>2, <2>3
<1> HIDE DEF P
<1>7. T = Nat
  <2>1. T \in SUBSET Nat
    OBVIOUS
  <2> HIDE DEF T
  <2>2. QED
    BY <1>5, <1>6, <2>1, Induct, Zenon
<1>8. P(Len(S))
  BY <1>2, <1>7
<1>9. SubSeq(S, 1, Len(S)) = S /\ SubSeq(U, 1, Len(S) + 1) = U
  BY <1>1, SubSeqAll
<1>10. QED
  BY <1>8, <1>9 DEF P, U

\* A single sequence.
LEMMA FlattenOne ==
  ASSUME NEW E, NEW s \in Seq(E)
  PROVE  FlattenSeq(<<s>>) = s
<1> DEFINE D == Seq(E)
<1>1. <<>> \in Seq(D) /\ s \in D
  OBVIOUS
<1>2. FlattenSeq(Append(<<>>, s)) = FlattenSeq(<<>>) \o s
  BY <1>1, FlattenAppend, Zenon
<1>3. Append(<<>>, s) = <<s>> /\ <<>> \o s = s
  OBVIOUS
<1> HIDE DEF D
<1>4. QED
  BY <1>2, <1>3, FlattenEmpty

\* The sequences of one sequence before those of another.
LEMMA FlattenBoth ==
  ASSUME NEW E, NEW A \in Seq(Seq(E)), NEW B \in Seq(Seq(E))
  PROVE  FlattenSeq(A \o B) = FlattenSeq(A) \o FlattenSeq(B)
<1> DEFINE D == Seq(E)
           F(i) == FlattenSeq(SubSeq(B, 1, i))
           P(i) == FlattenSeq(A \o SubSeq(B, 1, i)) = FlattenSeq(A) \o F(i)
           T == {i \in Nat : i <= Len(B) => P(i)}
<1>1. Len(A) \in Nat /\ Len(B) \in Nat /\ A \in Seq(D) /\ B \in Seq(D)
  OBVIOUS
<1>2. FlattenSeq(A) \in Seq(E)
  BY <1>1, FlattenType
<1> HIDE DEF D
<1>3. 0 \in T
  <2>1. SubSeq(B, 1, 0) = <<>>
    OBVIOUS
  <2>2. A \o <<>> = A /\ FlattenSeq(A) \o <<>> = FlattenSeq(A)
    BY <1>1, <1>2, ConcatEmptySeq
  <2>3. P(0)
    BY <2>1, <2>2, FlattenEmpty
  <2> HIDE DEF P
  <2>4. QED
    BY <2>3
<1>4. ASSUME NEW i \in T PROVE i + 1 \in T
  <2>1. CASE i + 1 <= Len(B)
    <3> DEFINE b == SubSeq(B, 1, i)
               e == B[i + 1]
    <3>1. b \in Seq(D) /\ e \in D /\ SubSeq(B, 1, i + 1) = Append(b, e)
      BY <1>1, <2>1, Longer
    <3>2. P(i)
      <4> HIDE DEF P
      <4>1. QED
        BY <1>1, <2>1
    <3>3. F(i) \in Seq(E) /\ F(i + 1) = F(i) \o e
      BY <2>1, FlattenLonger, Zenon DEF D
    <3> HIDE DEF b, e
    <3>4. A \o Append(b, e) = Append(A \o b, e) /\ A \o b \in Seq(D)
      BY <1>1, <3>1, AppendBehind, ConcatProperties
    <3>5. FlattenSeq(Append(A \o b, e)) = FlattenSeq(A \o b) \o e
      <4>1. A \o b \in Seq(Seq(E)) /\ e \in Seq(E)
        BY <3>1, <3>4 DEF D
      <4>2. QED
        BY <4>1, FlattenAppend, Zenon
    <3>6. FlattenSeq(A \o b) = FlattenSeq(A) \o F(i)
      BY <3>2 DEF b
    <3> DEFINE f == F(i)
               g == F(i + 1)
    <3>7. f \in Seq(E) /\ g = f \o e /\ e \in Seq(E)
      BY <3>1, <3>3 DEF D
    <3>8. FlattenSeq(A \o SubSeq(B, 1, i + 1)) = (FlattenSeq(A) \o f) \o e
      BY <3>1, <3>4, <3>5, <3>6
    <3> HIDE DEF F, f, g
    <3>9. (FlattenSeq(A) \o f) \o e = FlattenSeq(A) \o (f \o e)
      BY <1>2, <3>7, ConcatAssociative, SMTT(30)
    <3>10. P(i + 1)
      BY <3>7, <3>8, <3>9 DEF f, g, F
    <3> HIDE DEF P
    <3>11. QED
      BY <3>10
  <2>2. CASE ~(i + 1 <= Len(B))
    <3> HIDE DEF P
    <3>1. QED
      BY <1>1, <2>2
  <2>3. QED
    BY <2>1, <2>2
<1> HIDE DEF P
<1>5. T = Nat
  <2>1. T \in SUBSET Nat
    OBVIOUS
  <2> HIDE DEF T
  <2>2. QED
    BY <1>3, <1>4, <2>1, Induct, Zenon
<1>6. P(Len(B))
  BY <1>1, <1>5
<1>7. SubSeq(B, 1, Len(B)) = B
  OBVIOUS
<1>8. QED
  BY <1>6, <1>7 DEF P

\* Empty sequences behind the first m add nothing.
LEMMA FlattenBlanks ==
  ASSUME NEW E, NEW S \in Seq(Seq(E)), NEW m \in Nat, NEW n \in Nat, m <= n, n <= Len(S),
         \A i \in m + 1 .. n : S[i] = <<>>
  PROVE  FlattenSeq(SubSeq(S, 1, n)) = FlattenSeq(SubSeq(S, 1, m))
<1> DEFINE F(i) == FlattenSeq(SubSeq(S, 1, i))
           P(i) == F(m + i) = F(m)
           T == {i \in Nat : m + i <= n => P(i)}
<1>1. 0 \in T
  <2>1. m + 0 = m
    OBVIOUS
  <2>2. P(0)
    BY <2>1
  <2> HIDE DEF P
  <2>3. QED
    BY <2>2
<1>2. ASSUME NEW i \in T PROVE i + 1 \in T
  <2>1. CASE m + (i + 1) <= n
    <3> DEFINE k == m + i
    <3>1. k \in Nat /\ k + 1 <= Len(S) /\ k + 1 \in m + 1 .. n /\ m + (i + 1) = k + 1
      BY <2>1
    <3>2. P(i)
      <4> HIDE DEF P
      <4>1. QED
        BY <2>1
    <3> HIDE DEF k
    <3>3. F(k) \in Seq(E) /\ F(k + 1) = F(k) \o S[k + 1]
      BY <3>1, FlattenLonger, Zenon
    <3>4. S[k + 1] = <<>>
      BY <3>1
    <3> HIDE DEF F
    <3>5. F(k + 1) = F(k)
      BY <3>3, <3>4, ConcatEmptySeq
    <3>6. P(i + 1)
      BY <3>1, <3>2, <3>5 DEF k
    <3> HIDE DEF P
    <3>7. QED
      BY <3>6
  <2>2. CASE ~(m + (i + 1) <= n)
    <3> HIDE DEF P
    <3>1. QED
      BY <2>2
  <2>3. QED
    BY <2>1, <2>2
<1> HIDE DEF P
<1>3. T = Nat
  <2>1. T \in SUBSET Nat
    OBVIOUS
  <2> HIDE DEF T
  <2>2. QED
    BY <1>1, <1>2, <2>1, Induct, Zenon
<1>4. n - m \in Nat /\ m + (n - m) = n
  OBVIOUS
<1>5. P(n - m)
  BY <1>3, <1>4
<1>6. QED
  BY <1>4, <1>5 DEF P
=============================================================================
