----------------------------- MODULE QueueLemmas -----------------------------
(***************************************************************************)
(* Facts about sequences for the proofs about queues and streams: what     *)
(* taking from and adding to a queue does to the set of its elements, and  *)
(* what Only selects from a sequence.  The latter need induction; it is    *)
(* had from the least element of a set of natural numbers.                 *)
(***************************************************************************)
EXTENDS Subsequences, SequencesExt, WellFoundedInduction, FiniteSetTheorems,
        SequenceTheorems, TLAPS

\* What remains of a sequence when one position is taken out of it.
LEMMA RemoveAtType ==
    ASSUME NEW S, NEW s \in Seq(S), NEW i \in DOMAIN s
    PROVE  /\ RemoveAt(s, i) \in Seq(S)
           /\ Len(RemoveAt(s, i)) = Len(s) - 1
           /\ \A j \in 1..(Len(s) - 1) :
                 RemoveAt(s, i)[j] = IF j < i THEN s[j] ELSE s[j + 1]
<1> DEFINE a == SubSeq(s, 1, i - 1)
           b == SubSeq(s, i + 1, Len(s))
<1>1. i \in 1..Len(s) /\ Len(s) \in Nat
  OBVIOUS
<1>2. /\ a \in Seq(S) /\ Len(a) = i - 1
      /\ \A j \in 1..(i - 1) : a[j] = s[j]
  BY <1>1
<1>3. /\ b \in Seq(S) /\ Len(b) = Len(s) - i
      /\ \A j \in 1..(Len(s) - i) : b[j] = s[i + j]
  BY <1>1
<1> HIDE DEF a, b
<1>4. /\ a \o b \in Seq(S) /\ Len(a \o b) = Len(s) - 1
      /\ \A j \in 1..(Len(s) - 1) :
            (a \o b)[j] = IF j < i THEN a[j] ELSE b[j - (i - 1)]
  BY SMTT(60), <1>1, <1>2, <1>3
<1>5. \A j \in 1..(Len(s) - 1) :
         (a \o b)[j] = IF j < i THEN s[j] ELSE s[j + 1]
  BY SMTT(60), <1>1, <1>2, <1>3, <1>4
<1>6. QED
  BY <1>4, <1>5 DEF RemoveAt, a, b

\* Removing one element of a sequence without repetition removes it from the set of
\* its elements, and leaves no repetition.
LEMMA RemoveAtElements ==
    ASSUME NEW S, NEW s \in Seq(S), NEW i \in DOMAIN s,
           \A m, n \in DOMAIN s : s[m] = s[n] => m = n
    PROVE  /\ ToSet(RemoveAt(s, i)) = ToSet(s) \ {s[i]}
           /\ \A m, n \in DOMAIN RemoveAt(s, i) :
                 RemoveAt(s, i)[m] = RemoveAt(s, i)[n] => m = n
<1> DEFINE r == RemoveAt(s, i)
<1>1. /\ r \in Seq(S) /\ DOMAIN r = 1..(Len(s) - 1) /\ DOMAIN s = 1..Len(s)
      /\ \A j \in 1..(Len(s) - 1) : r[j] = IF j < i THEN s[j] ELSE s[j + 1]
      /\ Len(s) \in Nat /\ i \in 1..Len(s)
  BY RemoveAtType
<1> HIDE DEF r
<1>2. ASSUME NEW m \in DOMAIN r, NEW n \in DOMAIN r, r[m] = r[n]
      PROVE  m = n
  <2> DEFINE m1 == IF m < i THEN m ELSE m + 1
             n1 == IF n < i THEN n ELSE n + 1
  <2>1. m1 \in DOMAIN s /\ n1 \in DOMAIN s /\ s[m1] = s[n1]
    BY <1>1, <1>2
  <2>2. m1 = n1
    BY <2>1
  <2>3. QED
    BY <1>1, <2>2
<1>3. \A j \in DOMAIN r : r[j] \in ToSet(s) \ {s[i]}
  BY SMTT(60), <1>1 DEF ToSet
<1>4. \A j \in DOMAIN s : j # i => s[j] \in ToSet(r)
  <2> SUFFICES ASSUME NEW j \in DOMAIN s, j # i PROVE s[j] \in ToSet(r)
    OBVIOUS
  <2>1. CASE j < i
    <3>1. j \in DOMAIN r /\ r[j] = s[j]
      BY <1>1, <2>1
    <3>2. QED BY <3>1 DEF ToSet
  <2>2. CASE j > i
    <3>1. j - 1 \in DOMAIN r /\ r[j - 1] = s[j]
      BY <1>1, <2>2
    <3>2. QED BY <3>1 DEF ToSet
  <2>3. QED BY <1>1, <2>1, <2>2
<1>5. ToSet(r) = ToSet(s) \ {s[i]}
  BY <1>3, <1>4 DEF ToSet
<1>6. QED
  BY <1>2, <1>5 DEF r

\* Taking the first element, likewise.
LEMMA TailElements ==
    ASSUME NEW S, NEW s \in Seq(S), s # <<>>,
           \A m, n \in DOMAIN s : s[m] = s[n] => m = n
    PROVE  /\ Tail(s) \in Seq(S) /\ Head(s) \in ToSet(s)
           /\ ToSet(Tail(s)) = ToSet(s) \ {Head(s)}
           /\ \A m, n \in DOMAIN Tail(s) : Tail(s)[m] = Tail(s)[n] => m = n
<1> DEFINE r == Tail(s)
<1>1. /\ r \in Seq(S) /\ DOMAIN r = 1..(Len(s) - 1) /\ DOMAIN s = 1..Len(s)
      /\ \A j \in 1..(Len(s) - 1) : r[j] = s[j + 1]
      /\ Len(s) \in Nat \ {0} /\ Head(s) = s[1] /\ 1 \in DOMAIN s
  OBVIOUS
<1> HIDE DEF r
<1>2. ASSUME NEW m \in DOMAIN r, NEW n \in DOMAIN r, r[m] = r[n]
      PROVE  m = n
  <2>1. m + 1 \in DOMAIN s /\ n + 1 \in DOMAIN s /\ s[m + 1] = s[n + 1]
    BY <1>1, <1>2
  <2>2. QED
    BY <1>1, <2>1
<1>3. \A j \in DOMAIN r : r[j] \in ToSet(s) \ {Head(s)}
  <2> SUFFICES ASSUME NEW j \in DOMAIN r PROVE r[j] \in ToSet(s) /\ r[j] # Head(s)
    OBVIOUS
  <2>1. j + 1 \in DOMAIN s /\ r[j] = s[j + 1] /\ j + 1 # 1
    BY <1>1
  <2>2. QED
    BY <1>1, <2>1 DEF ToSet
<1>4. \A j \in DOMAIN s : s[j] # Head(s) => s[j] \in ToSet(r)
  <2> SUFFICES ASSUME NEW j \in DOMAIN s, s[j] # Head(s) PROVE s[j] \in ToSet(r)
    OBVIOUS
  <2>1. j - 1 \in DOMAIN r /\ r[j - 1] = s[j]
    BY <1>1
  <2>2. QED
    BY <2>1 DEF ToSet
<1>5. ToSet(r) = ToSet(s) \ {Head(s)}
  BY <1>3, <1>4 DEF ToSet
<1>6. Head(s) \in ToSet(s)
  BY <1>1 DEF ToSet
<1>7. QED
  BY <1>1, <1>2, <1>5, <1>6 DEF r

\* Adding a new element at the end.
LEMMA AppendElements ==
    ASSUME NEW S, NEW s \in Seq(S), NEW e \in S, e \notin ToSet(s),
           \A m, n \in DOMAIN s : s[m] = s[n] => m = n
    PROVE  /\ Append(s, e) \in Seq(S) /\ Append(s, e) # <<>>
           /\ ToSet(Append(s, e)) = ToSet(s) \cup {e}
           /\ \A m, n \in DOMAIN Append(s, e) : Append(s, e)[m] = Append(s, e)[n] => m = n
<1> DEFINE r == Append(s, e)
<1>1. /\ r \in Seq(S) /\ r # <<>> /\ DOMAIN r = 1..(Len(s) + 1) /\ DOMAIN s = 1..Len(s)
      /\ \A j \in 1..Len(s) : r[j] = s[j]
      /\ r[Len(s) + 1] = e /\ Len(s) \in Nat
  OBVIOUS
<1> HIDE DEF r
<1>2. \A j \in DOMAIN s : s[j] # e
  BY DEF ToSet
<1>3. ASSUME NEW m \in DOMAIN r, NEW n \in DOMAIN r, r[m] = r[n]
      PROVE  m = n
  BY <1>1, <1>2, <1>3
<1>4. ToSet(r) = ToSet(s) \cup {e}
  <2>1. \A j \in DOMAIN r : r[j] \in ToSet(s) \cup {e}
    BY <1>1 DEF ToSet
  <2>2. \A j \in DOMAIN s : s[j] \in ToSet(r)
    BY <1>1 DEF ToSet
  <2>3. e \in ToSet(r)
    <3>1. Len(s) + 1 \in DOMAIN r
      BY <1>1
    <3>2. QED
      BY <1>1, <3>1 DEF ToSet
  <2>4. QED
    BY <2>1, <2>2, <2>3 DEF ToSet
<1>5. QED
  BY <1>1, <1>3, <1>4 DEF r

-----------------------------------------------------------------------------
\* The order of the natural numbers as a relation.
Below == OpToRel(<, Nat)

\* That relation, written out.
LEMMA BelowIs == Below = {p \in Nat \X Nat : p[1] < p[2]}
  BY DEF Below, OpToRel

\* A non-empty set of natural numbers has a least element.
LEMMA Least ==
  ASSUME NEW T, T \subseteq Nat, T # {}
  PROVE  \E m \in T : \A n \in T : m <= n
<1>1. IsWellFoundedOn(Below, Nat)
  BY NatLessThanWellFounded DEF Below
<1>2. \E x \in T : \A y \in T : ~ (<<y, x>> \in Below)
  BY <1>1, WFMin
<1>3. PICK x \in T : \A y \in T : ~ (<<y, x>> \in Below)
  BY <1>2
<1>4. \A y \in T : <<y, x>> \in Nat \X Nat /\ <<y, x>>[1] = y /\ <<y, x>>[2] = x
  OBVIOUS
<1>5. \A y \in T : ~ (y < x)
  BY <1>3, <1>4, BelowIs
<1> QED BY <1>5

\* Induction on the natural numbers, for a set: what holds 0 and every successor
\* of what it holds, holds them all.
LEMMA NatInductionSet ==
  ASSUME NEW T, 0 \in T, \A n \in Nat : n \in T => n + 1 \in T
  PROVE  Nat \subseteq T
<1> SUFFICES ASSUME Nat \ T # {} PROVE FALSE
  OBVIOUS
<1>1. PICK m \in Nat \ T : \A n \in Nat \ T : m <= n
  BY Least
<1>2. m # 0 /\ m - 1 \in Nat /\ m - 1 \notin Nat \ T
  BY <1>1
<1> QED  BY <1>2

\* Induction on sequences, for a set of them closed under Append.
LEMMA SequenceInduction ==
  ASSUME NEW X, NEW T, <<>> \in T,
         \A s \in Seq(X), e \in X : s \in T => Append(s, e) \in T
  PROVE  Seq(X) \subseteq T
<1> DEFINE N == {n \in Nat : \A s \in Seq(X) : Len(s) = n => s \in T}
<1>1. 0 \in N
  BY EmptySeq
<1>2. ASSUME NEW n \in Nat, n \in N
      PROVE  n + 1 \in N
  <2> SUFFICES ASSUME NEW s \in Seq(X), Len(s) = n + 1
               PROVE  s \in T
    OBVIOUS
  <2> DEFINE front == SubSeq(s, 1, n)
  <2>1. front \in Seq(X) /\ Len(front) = n /\ s[n + 1] \in X
    OBVIOUS
  <2>2. s = Append(front, s[n + 1])
    OBVIOUS
  <2>3. front \in T
    BY <1>2, <2>1
  <2> HIDE DEF front
  <2> QED  BY <2>1, <2>2, <2>3
<1> HIDE DEF N
<1>3. Nat \subseteq N
  BY <1>1, <1>2, NatInductionSet
<1> QED  BY <1>3 DEF N

\* f is the function that defines Only on the first n elements of s.
Counting(s, S, n, f) ==
    f = [i \in 0 .. n |-> IF i = 0 THEN <<>>
                          ELSE IF s[i] \in S THEN Append(f[i - 1], s[i]) ELSE f[i - 1]]

\* Only in terms of Counting.
LEMMA OnlyIs == ASSUME NEW s, NEW S
   PROVE Only(s, S) = (CHOOSE f : Counting(s, S, Len(s), f))[Len(s)]
 BY DEF Only, Counting

\* Such a function exists for every n, and so the recursive definition of Only is
\* sound.
LEMMA CountingExists ==
  ASSUME NEW s, NEW S, NEW n \in Nat
  PROVE  \E f : Counting(s, S, n, f)
<1> DEFINE N == {m \in Nat : \E f : Counting(s, S, m, f)}
<1>1. 0 \in N
  <2> DEFINE f == [i \in 0 .. 0 |-> <<>>]
  <2>1. Counting(s, S, 0, f)
    BY DEF Counting
  <2> HIDE DEF f
  <2> QED BY <2>1
<1>2. ASSUME NEW m \in Nat, m \in N
      PROVE  m + 1 \in N
  <2>1. PICK f : Counting(s, S, m, f)
    BY <1>2
  <2> DEFINE x == IF s[m + 1] \in S THEN Append(f[m], s[m + 1]) ELSE f[m]
             g == [i \in 0 .. m + 1 |-> IF i = m + 1 THEN x ELSE f[i]]
  <2>2. \A i \in 0 .. m : f[i] = IF i = 0 THEN <<>>
                          ELSE IF s[i] \in S THEN Append(f[i - 1], s[i]) ELSE f[i - 1]
    BY <2>1 DEF Counting
  <2>3. \A i \in 0 .. m : g[i] = f[i]
    OBVIOUS
  <2>4. g[m + 1] = x
    OBVIOUS
  <2>5. \A i \in 0 .. m + 1 : g[i] = IF i = 0 THEN <<>>
                          ELSE IF s[i] \in S THEN Append(g[i - 1], s[i]) ELSE g[i - 1]
    <3> SUFFICES ASSUME NEW i \in 0 .. m + 1 
         PROVE g[i] = IF i = 0 THEN <<>>
                          ELSE IF s[i] \in S THEN Append(g[i - 1], s[i]) ELSE g[i - 1]
      OBVIOUS
    <3> HIDE DEF g
    <3>1. CASE i = m + 1
      <4>1. g[i - 1] = f[m]
        BY <2>3, <3>1
      <4> QED BY <2>4, <3>1, <4>1
    <3>2. CASE i = 0
      BY <2>2, <2>3, <3>2
    <3>3. CASE i \in 1 .. m
      <4>1. i - 1 \in 0 .. m /\ i \in 0 .. m
        BY <3>3
      <4> QED BY <2>2, <2>3, <3>3, <4>1
    <3> QED BY <3>1, <3>2, <3>3
  <2>6. g = [i \in 0 .. m + 1 |-> g[i]]
    OBVIOUS
  <2> HIDE DEF g
  <2>7. Counting(s, S, m + 1, g)
    BY <2>5, <2>6 DEF Counting
  <2> QED BY <2>7
<1> HIDE DEF N
<1>3. Nat \subseteq N
  BY <1>1, <1>2, NatInductionSet
<1> QED BY <1>3 DEF N

\* It depends on the elements it has seen, and on no others.
LEMMA CountingUnique ==
  ASSUME NEW s, NEW t, NEW S, NEW n \in Nat, NEW m \in Nat, n <= m, NEW f, NEW g,
         \A i \in 1 .. n : s[i] = t[i],
         Counting(s, S, n, f), Counting(t, S, m, g)
  PROVE  f[n] = g[n]
<1> DEFINE N == {i \in Nat : i <= n => f[i] = g[i]}
<1>1. /\ \A i \in 0 .. n : f[i] = IF i = 0 THEN <<>>
                          ELSE IF s[i] \in S THEN Append(f[i - 1], s[i]) ELSE f[i - 1]
      /\ \A i \in 0 .. m : g[i] = IF i = 0 THEN <<>>
                          ELSE IF t[i] \in S THEN Append(g[i - 1], t[i]) ELSE g[i - 1]
  BY DEF Counting
<1>2. 0 \in N
  BY <1>1
<1>3. ASSUME NEW i \in Nat, i \in N
      PROVE  i + 1 \in N
  <2> SUFFICES ASSUME i + 1 <= n PROVE f[i + 1] = g[i + 1]
    OBVIOUS
  <2>1. i + 1 \in 0 .. n /\ i + 1 \in 0 .. m /\ i + 1 \in 1 .. n /\ f[i] = g[i] /\ i + 1 # 0 /\ (i + 1) - 1 = i
    BY <1>3
  <2> QED BY <1>1, <2>1
<1> HIDE DEF N
<1>4. Nat \subseteq N
  BY <1>2, <1>3, NatInductionSet
<1> QED BY <1>4 DEF N

\* Nothing is selected from nothing.
LEMMA OnlyEmpty == ASSUME NEW S PROVE Only(<<>>, S) = <<>>
<1>1. PICK f : f = CHOOSE g : Counting(<<>>, S, 0, g)
  OBVIOUS
<1>2. Counting(<<>>, S, 0, f)
  BY <1>1, CountingExists
<1>3. Only(<<>>, S) = f[0]
  BY <1>1, OnlyIs
<1> QED BY <1>2, <1>3 DEF Counting

\* An element at the end is selected last, or is not selected.
LEMMA OnlyAppend ==
  ASSUME NEW X, NEW s \in Seq(X), NEW e \in X, NEW S
  PROVE  Only(Append(s, e), S) = IF e \in S THEN Append(Only(s, S), e) ELSE Only(s, S)
<1>1. PICK n \in Nat : n = Len(s)
  OBVIOUS
<1>2. PICK t : t = Append(s, e)
  OBVIOUS
<1>3. Len(t) = n + 1 /\ t[n + 1] = e /\ \A i \in 1 .. n : s[i] = t[i]
  BY <1>1, <1>2
<1>4. PICK f : f = CHOOSE h : Counting(s, S, n, h)
  OBVIOUS
<1>5. PICK g : g = CHOOSE h : Counting(t, S, n + 1, h)
  OBVIOUS
<1>6. Counting(s, S, n, f) /\ Counting(t, S, n + 1, g)
  <2>1. n + 1 \in Nat
    OBVIOUS
  <2>2. (\E h : Counting(s, S, n, h)) /\ (\E h : Counting(t, S, n + 1, h))
    BY <2>1, CountingExists
  <2> QED  BY <1>4, <1>5, <2>2
<1>7. Only(s, S) = f[n] /\ Only(t, S) = g[n + 1]
  BY <1>1, <1>3, <1>4, <1>5, OnlyIs
<1>8. f[n] = g[n]
  BY <1>3, <1>6, CountingUnique
<1>9. g[n + 1] = IF t[n + 1] \in S THEN Append(g[n], t[n + 1]) ELSE g[n]
  <2>1. g = [i \in 0 .. n + 1 |-> IF i = 0 THEN <<>>
                          ELSE IF t[i] \in S THEN Append(g[i - 1], t[i]) ELSE g[i - 1]]
    BY <1>6 DEF Counting
  <2>2. n + 1 \in 0 .. n + 1 /\ n + 1 # 0 /\ (n + 1) - 1 = n
    OBVIOUS
  <2> QED  BY <2>1, <2>2
<1> QED BY <1>2, <1>3, <1>7, <1>8, <1>9

\* What is selected belongs to the set.
LEMMA OnlyType ==
  ASSUME NEW X, NEW s \in Seq(X), NEW S
  PROVE  Only(s, S) \in Seq(X \cap S)
<1>1. PICK Y : Y = X \cap S
  OBVIOUS
<1> DEFINE T == {t \in Seq(X) : Only(t, S) \in Seq(Y)}
<1>2. <<>> \in T
  <2>1. <<>> \in Seq(X) /\ <<>> \in Seq(Y)
    OBVIOUS
  <2>2. Only(<<>>, S) = <<>>
    BY OnlyEmpty
  <2> QED  BY <2>1, <2>2
<1>3. ASSUME NEW t \in Seq(X), NEW e \in X, t \in T
      PROVE  Append(t, e) \in T
  <2>1. Only(Append(t, e), S) = IF e \in S THEN Append(Only(t, S), e) ELSE Only(t, S)
    BY OnlyAppend
  <2>2. Only(t, S) \in Seq(Y)
    BY <1>3
  <2>3. e \in S => Append(Only(t, S), e) \in Seq(Y)
    BY <1>1, <2>2
  <2>4. Only(Append(t, e), S) \in Seq(Y)
    BY <2>1, <2>2, <2>3
  <2> QED  BY <2>4
<1> HIDE DEF T
<1>4. Seq(X) \subseteq T
  BY <1>2, <1>3, SequenceInduction
<1> QED  BY <1>1, <1>4 DEF T

\* Selecting from a concatenation.
LEMMA OnlyConcat ==
  ASSUME NEW X, NEW s \in Seq(X), NEW u \in Seq(X), NEW S
  PROVE  Only(s \o u, S) = Only(s, S) \o Only(u, S)
<1> DEFINE T == {t \in Seq(X) : Only(s \o t, S) = Only(s, S) \o Only(t, S)}
<1>1. <<>> \in T
  <2>1. s \o <<>> = s /\ Only(s, S) \o <<>> = Only(s, S) /\ <<>> \in Seq(X)
    BY OnlyType
  <2> QED  BY <2>1, OnlyEmpty
<1>2. ASSUME NEW t \in Seq(X), NEW e \in X, t \in T
      PROVE  Append(t, e) \in T
  <2>1. s \o Append(t, e) = Append(s \o t, e) /\ s \o t \in Seq(X) /\ Append(t, e) \in Seq(X)
    OBVIOUS
  <2>2. Only(s \o t, S) = Only(s, S) \o Only(t, S)
    BY <1>2
  <2>3. Only(s, S) \in Seq(X \cap S) /\ Only(t, S) \in Seq(X \cap S)
    BY OnlyType
  <2>4. Only(Append(t, e), S) = IF e \in S THEN Append(Only(t, S), e) ELSE Only(t, S)
    BY OnlyAppend
  <2>5. Only(Append(s \o t, e), S) = IF e \in S THEN Append(Only(s \o t, S), e) ELSE Only(s \o t, S)
    BY <2>1, OnlyAppend
  <2>6. e \in S => Only(s, S) \o Append(Only(t, S), e) = Append(Only(s, S) \o Only(t, S), e)
    BY <2>3
  <2> QED  BY <2>1, <2>2, <2>4, <2>5, <2>6
<1> HIDE DEF T
<1>3. Seq(X) \subseteq T
  BY <1>1, <1>2, SequenceInduction
<1> QED  BY <1>3 DEF T

\* Nothing is selected where no element belongs to the set.
LEMMA OnlyNone ==
  ASSUME NEW X, NEW s \in Seq(X), NEW S, \A i \in DOMAIN s : s[i] \notin S
  PROVE  Only(s, S) = <<>>
<1> DEFINE T == {t \in Seq(X) : (\A i \in DOMAIN t : t[i] \notin S) => Only(t, S) = <<>>}
<1>1. <<>> \in T
  BY OnlyEmpty
<1>2. ASSUME NEW t \in Seq(X), NEW e \in X, t \in T
      PROVE  Append(t, e) \in T
  <2> DEFINE r == Append(t, e)
  <2>1. /\ r \in Seq(X) /\ Len(t) + 1 \in DOMAIN r /\ r[Len(t) + 1] = e
        /\ \A i \in DOMAIN t : i \in DOMAIN r /\ r[i] = t[i]
    OBVIOUS
  <2>2. Only(r, S) = IF e \in S THEN Append(Only(t, S), e) ELSE Only(t, S)
    BY OnlyAppend
  <2> HIDE DEF r
  <2>3. (\A i \in DOMAIN r : r[i] \notin S) => Only(r, S) = <<>>
    BY <1>2, <2>1, <2>2
  <2> QED  BY <2>1, <2>3 DEF r
<1> HIDE DEF T
<1>3. Seq(X) \subseteq T
  BY <1>1, <1>2, SequenceInduction
<1> QED  BY <1>3 DEF T

\* The elements of a sequence with one more.
LEMMA ToSetAppend ==
  ASSUME NEW X, NEW s \in Seq(X), NEW e \in X
  PROVE  ToSet(Append(s, e)) = ToSet(s) \cup {e}
<1>1. PICK r : r = Append(s, e)
  OBVIOUS
<1>2. \A x : (\E i \in DOMAIN r : r[i] = x) <=> (x = e \/ \E i \in DOMAIN s : s[i] = x)
  <2>1. /\ DOMAIN r = 1 .. Len(s) + 1 /\ DOMAIN s = 1 .. Len(s) /\ Len(s) \in Nat
        /\ r[Len(s) + 1] = e /\ \A i \in 1 .. Len(s) : r[i] = s[i]
    BY <1>1
  <2> QED  BY <2>1
<1> QED  BY <1>1, <1>2 DEF ToSet

\* The elements selected are those of the sequence in the set.
LEMMA OnlyElements ==
  ASSUME NEW X, NEW s \in Seq(X), NEW S
  PROVE  ToSet(Only(s, S)) = ToSet(s) \cap S
<1> DEFINE T == {t \in Seq(X) : ToSet(Only(t, S)) = ToSet(t) \cap S}
<1>1. <<>> \in T
  BY OnlyEmpty DEF ToSet
<1>2. ASSUME NEW t \in Seq(X), NEW e \in X, t \in T
      PROVE  Append(t, e) \in T
  <2>1. Only(Append(t, e), S) = IF e \in S THEN Append(Only(t, S), e) ELSE Only(t, S)
    BY OnlyAppend
  <2>2. ToSet(Append(t, e)) = ToSet(t) \cup {e}
    BY ToSetAppend
  <2>3. e \in S => ToSet(Append(Only(t, S), e)) = ToSet(Only(t, S)) \cup {e}
    <3>1. Only(t, S) \in Seq(X \cap S)
      BY OnlyType
    <3> QED  BY <3>1, ToSetAppend
  <2>4. ToSet(Only(t, S)) = ToSet(t) \cap S
    BY <1>2
  <2>5. ToSet(Only(Append(t, e), S)) = ToSet(Append(t, e)) \cap S
    BY <2>1, <2>2, <2>3, <2>4
  <2> QED  BY <2>5
<1> HIDE DEF T
<1>3. Seq(X) \subseteq T
  BY <1>1, <1>2, SequenceInduction
<1> QED  BY <1>3 DEF T

\* A sequence taken apart at one position.
LEMMA TakenApart ==
  ASSUME NEW X, NEW s \in Seq(X), NEW i \in DOMAIN s
  PROVE  /\ SubSeq(s, 1, i - 1) \in Seq(X) /\ SubSeq(s, i + 1, Len(s)) \in Seq(X)
         /\ s = Append(SubSeq(s, 1, i - 1), s[i]) \o SubSeq(s, i + 1, Len(s))
         /\ RemoveAt(s, i) = SubSeq(s, 1, i - 1) \o SubSeq(s, i + 1, Len(s))
<1> DEFINE a == SubSeq(s, 1, i - 1)
           b == SubSeq(s, i + 1, Len(s))
           c == Append(a, s[i])
<1>1. i \in 1 .. Len(s) /\ Len(s) \in Nat /\ s[i] \in X
  OBVIOUS
<1>2. /\ a \in Seq(X) /\ Len(a) = i - 1
      /\ \A j \in 1 .. i - 1 : a[j] = s[j]
  BY <1>1
<1>3. /\ b \in Seq(X) /\ Len(b) = Len(s) - i
      /\ \A j \in 1 .. Len(s) - i : b[j] = s[i + j]
  BY <1>1
<1> HIDE DEF a, b
<1>4. /\ c \in Seq(X) /\ Len(c) = i
      /\ \A j \in 1 .. i : c[j] = s[j]
  BY <1>1, <1>2
<1> HIDE DEF c
<1>5. /\ c \o b \in Seq(X) /\ Len(c \o b) = Len(s)
      /\ \A j \in 1 .. Len(s) : (c \o b)[j] = IF j <= i THEN c[j] ELSE b[j - i]
  BY SMTT(60), <1>1, <1>3, <1>4
<1>6. \A j \in 1 .. Len(s) : (c \o b)[j] = s[j]
  <2> PICK t : t = c \o b
    OBVIOUS
  <2>1. ASSUME NEW j \in 1 .. Len(s), j <= i
        PROVE  t[j] = s[j]
    <3>1. j \in 1 .. i
      BY <1>1, <2>1
    <3> QED  BY <1>4, <1>5, <2>1, <3>1
  <2>2. ASSUME NEW j \in 1 .. Len(s), ~(j <= i)
        PROVE  t[j] = s[j]
    <3>1. j - i \in 1 .. Len(s) - i /\ i + (j - i) = j
      BY <1>1, <2>2
    <3>2. t[j] = b[j - i]
      BY <1>5, <2>2
    <3>3. b[j - i] = s[i + (j - i)]
      BY <1>3, <3>1
    <3> QED  BY <3>1, <3>2, <3>3
  <2> QED  BY <2>1, <2>2
<1>7. s = c \o b
  BY <1>5, <1>6, SeqEqual
<1> QED  BY <1>2, <1>3, <1>7 DEF a, b, c, RemoveAt

\* Taking an element out of a sequence takes it out of the selection, from the front
\* if none was selected before it, or leaves the selection alone.
LEMMA OnlyRemoveAt ==
  ASSUME NEW X, NEW s \in Seq(X), NEW i \in DOMAIN s, NEW S
  PROVE  /\ s[i] \notin S => Only(RemoveAt(s, i), S) = Only(s, S)
         /\ s[i] \in S =>
               \E n \in DOMAIN Only(s, S) :
                  /\ Only(s, S)[n] = s[i]
                  /\ Only(RemoveAt(s, i), S) = RemoveAt(Only(s, S), n)
                  /\ (\A j \in 1 .. i - 1 : s[j] \notin S) => n = 1
<1> DEFINE before == SubSeq(s, 1, i - 1)
           after == SubSeq(s, i + 1, Len(s))
<1>1. s[i] \in X /\ DOMAIN s = 1 .. Len(s) /\ Len(s) \in Nat
  OBVIOUS
<1>2. ASSUME NEW c \in Seq(X), NEW d \in Seq(X)
      PROVE  Only(c \o d, S) = Only(c, S) \o Only(d, S)
  BY OnlyConcat
<1>3. PICK a \in Seq(X), b \in Seq(X) :
         /\ a = before /\ b = after
         /\ s = Append(a, s[i]) \o b /\ RemoveAt(s, i) = a \o b
  <2>1. /\ before \in Seq(X) /\ after \in Seq(X)
        /\ s = Append(before, s[i]) \o after
        /\ RemoveAt(s, i) = before \o after
    BY TakenApart
  <2> HIDE DEF before, after
  <2> QED  BY <2>1, Zenon
<1>4. s = Append(a, s[i]) \o b /\ RemoveAt(s, i) = a \o b
  BY <1>3
<1>5. (\A j \in 1 .. i - 1 : s[j] \notin S) => \A j \in DOMAIN a : a[j] \notin S
  <2>1. Len(before) = i - 1 /\ \A j \in 1 .. i - 1 : before[j] = s[j]
    BY <1>1
  <2> HIDE DEF before, after
  <2> QED  BY <1>3, <2>1
<1> HIDE DEF before, after
<1>6. PICK p \in Seq(X), q \in Seq(X) : p = Only(a, S) /\ q = Only(b, S)
  <2>1. Only(a, S) \in Seq(X \cap S) /\ Only(b, S) \in Seq(X \cap S)
    BY OnlyType
  <2> QED  BY <2>1
<1>7. Only(RemoveAt(s, i), S) = p \o q
  BY <1>2, <1>4, <1>6
<1>8. Only(s, S) = (IF s[i] \in S THEN Append(p, s[i]) ELSE p) \o q
  <2>1. Append(a, s[i]) \in Seq(X)
    BY <1>1
  <2>2. Only(Append(a, s[i]) \o b, S) = Only(Append(a, s[i]), S) \o Only(b, S)
    BY <1>2, <2>1
  <2>3. Only(Append(a, s[i]), S) = IF s[i] \in S THEN Append(Only(a, S), s[i])
                                                 ELSE Only(a, S)
    BY <1>1, OnlyAppend
  <2> QED  BY <1>4, <1>6, <2>2, <2>3
<1>9. ASSUME s[i] \in S
      PROVE  \E n \in DOMAIN Only(s, S) :
                /\ Only(s, S)[n] = s[i]
                /\ Only(RemoveAt(s, i), S) = RemoveAt(Only(s, S), n)
                /\ (\A j \in 1 .. i - 1 : s[j] \notin S) => n = 1
  <2>1. PICK t : t = Only(s, S)
    OBVIOUS
  <2>2. PICK n : n = Len(p) + 1
    OBVIOUS
  <2>3. t = Append(p, s[i]) \o q
    BY <1>8, <1>9, <2>1
  <2>4. /\ t \in Seq(X) /\ Len(t) = n + Len(q) /\ n \in DOMAIN t /\ t[n] = s[i]
        /\ \A j \in 1 .. Len(p) : t[j] = p[j]
        /\ \A j \in 1 .. Len(q) : t[n + j] = q[j]
        /\ n \in Nat /\ Len(p) \in Nat /\ Len(q) \in Nat
    BY SMTT(60), <1>1, <2>2, <2>3
  <2>5. SubSeq(t, 1, n - 1) = p
    <3>1. PICK u : u = SubSeq(t, 1, n - 1)
      OBVIOUS
    <3>2. u \in Seq(X) /\ Len(u) = Len(p) /\ \A j \in 1 .. Len(p) : u[j] = p[j]
      BY <2>2, <2>4, <3>1
    <3> QED  BY <3>1, <3>2, SeqEqual
  <2>6. SubSeq(t, n + 1, Len(t)) = q
    <3>1. PICK v : v = SubSeq(t, n + 1, Len(t))
      OBVIOUS
    <3>2. n \in Nat /\ n \in 1 .. Len(t) /\ t \in Seq(X) /\ Len(t) \in Nat
      BY <2>4
    <3>3. v \in Seq(X) /\ Len(v) = Len(t) - n /\ \A j \in 1 .. Len(t) - n : v[j] = t[n + j]
      BY ONLY <3>2, <3>1, SMTT(30)
    <3>4. Len(v) = Len(q) /\ \A j \in 1 .. Len(q) : v[j] = q[j]
      <4>1. Len(t) - n = Len(q)
        BY ONLY <2>4
      <4>2. \A j \in 1 .. Len(q) : t[n + j] = q[j]
        BY <2>4
      <4> QED  BY <3>3, <4>1, <4>2, Zenon
    <3> QED  BY <3>1, <3>3, <3>4, SeqEqual
  <2>7. RemoveAt(t, n) = p \o q
    BY <2>5, <2>6 DEF RemoveAt
  <2>8. (\A j \in 1 .. i - 1 : s[j] \notin S) => n = 1
    <3> SUFFICES ASSUME \A j \in 1 .. i - 1 : s[j] \notin S PROVE n = 1
      OBVIOUS
    <3>1. p = <<>>
      BY <1>5, <1>6, OnlyNone
    <3> QED  BY <2>2, <3>1
  <2> QED  BY <1>7, <2>1, <2>8, <2>4, <2>7
<1> QED  BY <1>7, <1>8, <1>9

\* A sequence without repetition has as many elements as positions.
LEMMA ToSetCardinality ==
  ASSUME NEW X, NEW s \in Seq(X), \A m, n \in DOMAIN s : s[m] = s[n] => m = n
  PROVE  IsFiniteSet(ToSet(s)) /\ Cardinality(ToSet(s)) = Len(s)
<1> DEFINE Once(t) == \A m, n \in DOMAIN t : t[m] = t[n] => m = n
           T == {t \in Seq(X) : Once(t) => /\ IsFiniteSet(ToSet(t))
                                           /\ Cardinality(ToSet(t)) = Len(t)}
<1>1. <<>> \in T
  <2>1. <<>> \in Seq(X) /\ ToSet(<<>>) = {} /\ Len(<<>>) = 0
    BY DEF ToSet
  <2> QED  BY <2>1, FS_EmptySet
<1>2. ASSUME NEW t \in Seq(X), NEW e \in X, t \in T
      PROVE  Append(t, e) \in T
  <2>1. PICK r : r = Append(t, e)
    OBVIOUS
  <2>2. /\ r \in Seq(X) /\ Len(r) = Len(t) + 1 /\ DOMAIN r = 1 .. Len(t) + 1
        /\ DOMAIN t = 1 .. Len(t) /\ Len(t) \in Nat
        /\ r[Len(t) + 1] = e /\ \A j \in 1 .. Len(t) : r[j] = t[j]
    BY <2>1
  <2>3. ASSUME Once(r)
        PROVE  IsFiniteSet(ToSet(r)) /\ Cardinality(ToSet(r)) = Len(r)
    <3>1. Once(t)
      BY <2>2, <2>3
    <3>2. \A j \in DOMAIN t : t[j] # e
      BY <2>2, <2>3
    <3>3. e \notin ToSet(t)
      BY <3>2 DEF ToSet
    <3>4. ToSet(r) = ToSet(t) \cup {e}
      BY <2>1, ToSetAppend
    <3>5. IsFiniteSet(ToSet(t)) /\ Cardinality(ToSet(t)) = Len(t)
      BY <1>2, <3>1
    <3>6. /\ IsFiniteSet(ToSet(t) \cup {e})
          /\ Cardinality(ToSet(t) \cup {e}) = Cardinality(ToSet(t)) + 1
      BY <3>3, <3>5, FS_AddElement
    <3> QED  BY <2>2, <3>4, <3>5, <3>6
  <2> QED  BY <2>1, <2>2, <2>3
<1> HIDE DEF T
<1>3. Seq(X) \subseteq T
  BY <1>1, <1>2, SequenceInduction
<1> QED  BY <1>3 DEF T

\* Taking out the first position leaves the tail.
LEMMA TakeFirst ==
  ASSUME NEW X, NEW t \in Seq(X), 1 \in DOMAIN t
  PROVE  /\ t # <<>> /\ Head(t) = t[1]
         /\ SubSeq(t, 1, 1 - 1) \o SubSeq(t, 1 + 1, Len(t)) = Tail(t)
<1> DEFINE v == SubSeq(t, 2, Len(t))
<1>1. t # <<>> /\ Head(t) = t[1] /\ Len(t) \in Nat \ {0}
  OBVIOUS
<1>2. SubSeq(t, 1, 0) = <<>>
  BY SMTT(30)
<1>3. v \in Seq(X) /\ Len(v) = Len(t) - 1 /\ \A j \in 1 .. Len(t) - 1 : v[j] = t[j + 1]
  BY <1>1
<1>4. /\ Tail(t) \in Seq(X) /\ Len(Tail(t)) = Len(t) - 1
      /\ \A j \in 1 .. Len(t) - 1 : Tail(t)[j] = t[j + 1]
  BY <1>1
<1> HIDE DEF v
<1>5. v = Tail(t)
  <2>1. PICK w \in Seq(X) : w = Tail(t)
    BY <1>4
  <2>2. PICK u \in Seq(X) : u = v
    BY <1>3
  <2>3. Len(u) = Len(w) /\ \A j \in 1 .. Len(u) : u[j] = w[j]
    BY <1>1, <1>3, <1>4, <2>1, <2>2
  <2> QED  BY <2>1, <2>2, <2>3, SeqEqual
<1>6. <<>> \o v = v
  BY <1>3
<1>7. 1 - 1 = 0 /\ 1 + 1 = 2
  OBVIOUS
<1> QED  BY <1>1, <1>2, <1>5, <1>6, <1>7 DEF v

\* How many elements are selected, and how that changes when one is appended, a
\* sequence is appended, or the first is taken.
LEMMA OnlyCount ==
  ASSUME NEW X, NEW S
  PROVE  /\ Len(Only(<<>>, S)) = 0
         /\ \A e \in X : Len(Only(<<e>>, S)) = IF e \in S THEN 1 ELSE 0
         /\ \A s \in Seq(X) : Len(Only(s, S)) \in Nat
         /\ \A s \in Seq(X), e \in X :
               Len(Only(Append(s, e), S)) = Len(Only(s, S)) + (IF e \in S THEN 1 ELSE 0)
         /\ \A s \in Seq(X), u \in Seq(X) :
               Len(Only(s \o u, S)) = Len(Only(s, S)) + Len(Only(u, S))
         /\ \A s \in Seq(X) : s # <<>> =>
               Len(Only(s, S)) = Len(Only(Tail(s), S)) + (IF Head(s) \in S THEN 1 ELSE 0)
<1>1. \A s \in Seq(X) : Only(s, S) \in Seq(X \cap S)
  BY OnlyType
<1>2. Len(Only(<<>>, S)) = 0
  BY OnlyEmpty
<1>3. ASSUME NEW s \in Seq(X), NEW e \in X
      PROVE  Len(Only(Append(s, e), S)) = Len(Only(s, S)) + (IF e \in S THEN 1 ELSE 0)
  <2>1. Only(Append(s, e), S) = IF e \in S THEN Append(Only(s, S), e) ELSE Only(s, S)
    BY OnlyAppend
  <2>2. e \in S => Len(Append(Only(s, S), e)) = Len(Only(s, S)) + 1
    BY <1>1
  <2>3. Len(Only(s, S)) \in Nat
    BY <1>1
  <2> QED  BY <2>1, <2>2, <2>3
<1>4. ASSUME NEW s \in Seq(X), NEW u \in Seq(X)
      PROVE  Len(Only(s \o u, S)) = Len(Only(s, S)) + Len(Only(u, S))
  <2>1. Only(s \o u, S) = Only(s, S) \o Only(u, S)
    BY OnlyConcat
  <2>2. Len(Only(s, S) \o Only(u, S)) = Len(Only(s, S)) + Len(Only(u, S))
    BY <1>1
  <2> QED  BY <2>1, <2>2
<1>5. ASSUME NEW e \in X
      PROVE  Len(Only(<<e>>, S)) = IF e \in S THEN 1 ELSE 0
  <2>1. <<>> \in Seq(X) /\ Append(<<>>, e) = <<e>>
    OBVIOUS
  <2>2. Len(Only(Append(<<>>, e), S)) = 0 + (IF e \in S THEN 1 ELSE 0)
    BY <1>2, <1>3, <2>1
  <2> QED  BY <2>1, <2>2
<1>6. ASSUME NEW s \in Seq(X), s # <<>>
      PROVE  Len(Only(s, S)) = Len(Only(Tail(s), S)) + (IF Head(s) \in S THEN 1 ELSE 0)
  <2>1. PICK h \in X, r \in Seq(X) : h = Head(s) /\ r = Tail(s)
    <3>1. Head(s) \in X /\ Tail(s) \in Seq(X)
      BY <1>6
    <3> QED  BY <3>1
  <2>2. PICK f \in Seq(X) : f = <<h>>
    <3>1. <<h>> \in Seq(X)
      OBVIOUS
    <3> QED  BY <3>1
  <2>3. s = f \o r
    BY <1>6, <2>1, <2>2
  <2>4. Len(Only(r, S)) \in Nat
    BY <1>1
  <2>5. Len(Only(s, S)) = Len(Only(f, S)) + Len(Only(r, S))
    BY <1>4, <2>3
  <2> QED  BY <1>5, <2>1, <2>2, <2>4, <2>5
<1>7. \A s \in Seq(X) : Len(Only(s, S)) \in Nat
  BY <1>1
<1> QED  BY <1>2, <1>3, <1>4, <1>5, <1>6, <1>7
=============================================================================
