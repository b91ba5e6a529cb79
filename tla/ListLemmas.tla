----------------------------- MODULE ListLemmas -----------------------------
(***************************************************************************)
(* Induction on natural numbers, in a form without operator parameters,    *)
(* and what it gives for the operators on sequences that are defined by    *)
(* recursion.                                                              *)
(***************************************************************************)
EXTENDS Lists, FiniteSetsExt, FiniteSetTheorems, WellFoundedInduction, TLAPS

\* A set of naturals has a least element.
LEMMA LeastNatural ==
    ASSUME NEW T \in SUBSET Nat, T # {}
    PROVE  \E x \in T : \A y \in T : x <= y
<1>1. PICK x \in T : \A y \in T : ~(<<y, x>> \in OpToRel(<, Nat))
    BY NatLessThanWellFounded, WFMin
<1>2. ASSUME NEW y \in T, y < x PROVE <<y, x>> \in OpToRel(<, Nat)
    BY <1>2 DEF OpToRel
<1>3. ASSUME NEW y \in T PROVE x <= y
    <2>1. ~(y < x)
        BY <1>1, <1>2, Zenon
    <2> QED
        BY <2>1
<1> QED
    BY <1>3

\* A set of naturals that holds 0 and the successor of each of its elements
\* holds them all: else there is a first number outside.
LEMMA Induction ==
    ASSUME NEW S, 0 \in S, \A n \in Nat : n \in S => n + 1 \in S
    PROVE  \A n \in Nat : n \in S
<1> SUFFICES ASSUME NEW m \in Nat, m \notin S PROVE FALSE
    OBVIOUS
<1> DEFINE T == {n \in Nat : n \notin S}
<1>1. PICK x \in T : \A y \in T : x <= y
    <2>1. T \in SUBSET Nat /\ T # {}
        OBVIOUS
    <2> HIDE DEF T
    <2> QED
        BY <2>1, LeastNatural
<1>2. x \in Nat /\ x # 0 /\ x - 1 \in Nat /\ x \notin S
    OBVIOUS
<1>3. x - 1 \in T
    BY <1>2
<1> QED
    BY <1>1, <1>2, <1>3

\* The least and the greatest of the integers between two others.
LEMMA LeastOf ==
    ASSUME NEW S \in SUBSET Int, S # {}, NEW lo \in Int, \A x \in S : lo <= x
    PROVE  Min(S) \in S /\ \A y \in S : Min(S) <= y
<1> DEFINE T == {n \in Nat : lo + n \in S}
<1>1. PICK x0 \in S : TRUE
    OBVIOUS
<1>2. x0 - lo \in T
    OBVIOUS
<1>3. PICK n \in T : \A m \in T : n <= m
    <2>1. T \in SUBSET Nat /\ T # {}
        BY <1>2
    <2> HIDE DEF T
    <2> QED
        BY <2>1, LeastNatural
<1>4. ASSUME NEW y \in S PROVE lo + n <= y
    <2>1. y - lo \in T
        OBVIOUS
    <2>2. n <= y - lo
        BY <1>3, <2>1
    <2> QED
        BY <2>2
<1>5. \E x \in S : \A y \in S : x <= y
    BY <1>4
<1> QED
    BY <1>5 DEF Min

LEMMA GreatestOf ==
    ASSUME NEW S \in SUBSET Int, S # {}, NEW hi \in Int, \A x \in S : x <= hi
    PROVE  Max(S) \in S /\ \A y \in S : y <= Max(S)
<1> DEFINE T == {n \in Nat : hi - n \in S}
<1>1. PICK x0 \in S : TRUE
    OBVIOUS
<1>2. hi - x0 \in T
    OBVIOUS
<1>3. PICK n \in T : \A m \in T : n <= m
    <2>1. T \in SUBSET Nat /\ T # {}
        BY <1>2
    <2> HIDE DEF T
    <2> QED
        BY <2>1, LeastNatural
<1>4. ASSUME NEW y \in S PROVE y <= hi - n
    <2>1. hi - y \in T
        OBVIOUS
    <2>2. n <= hi - y
        BY <1>3, <2>1
    <2> QED
        BY <2>2
<1>5. \E x \in S : \A y \in S : x >= y
    BY <1>4
<1>6. Max(S) \in S /\ \A y \in S : Max(S) >= y
    BY <1>5 DEF Max
<1> QED
    BY <1>6
-----------------------------------------------------------------------------
(* Erased *)

\* at lists, in ascending order, the positions of the first n elements of s
\* that are not erased, and r the elements there.
Selects(at, s, gone, n, r) ==
    /\ at \in [1..Len(r) -> 1..n]
    /\ \A i, j \in 1..Len(r) : i < j => at[i] < at[j]
    /\ \A i \in 1..Len(r) : r[i] = s[at[i]] /\ r[i] \notin gone
    /\ \A p \in 1..n : s[p] \notin gone => \E i \in 1..Len(r) : at[i] = p

\* A function that obeys the equation of the loop up to n.
Obeys(g, s, gone, n) ==
    g = [m \in 0..n |-> IF m = 0 THEN <<>>
                        ELSE IF s[m] \in gone THEN g[m - 1]
                        ELSE Append(g[m - 1], s[m])]

\* The loop of Erased: what it has kept of the first n elements.
KeptUpTo(s, gone) == CHOOSE g : Obeys(g, s, gone, Len(s))

\* The recursion of Erased has a solution, for a prefix of every length.
LEMMA KeptExists ==
    ASSUME NEW s, NEW gone
    PROVE  \A n \in Nat : \E g : Obeys(g, s, gone, n)
<1> DEFINE S == {n \in Nat : \E g : Obeys(g, s, gone, n)}
<1>1. 0 \in S
    <2>1. Obeys([m \in 0..0 |-> <<>>], s, gone, 0)
        BY DEF Obeys
    <2> QED
        BY <2>1
<1>2. ASSUME NEW n \in Nat, n \in S PROVE n + 1 \in S
    <2>1. PICK g : Obeys(g, s, gone, n)
        BY <1>2
    <2> DEFINE last == IF s[n + 1] \in gone THEN g[n] ELSE Append(g[n], s[n + 1])
               h == [m \in 0..(n + 1) |-> IF m = n + 1 THEN last ELSE g[m]]
    <2>2. ASSUME NEW m \in 0..(n + 1)
          PROVE  h[m] = IF m = 0 THEN <<>>
                        ELSE IF s[m] \in gone THEN h[m - 1]
                        ELSE Append(h[m - 1], s[m])
        <3>1. CASE m = n + 1
            BY <3>1
        <3>2. CASE m # n + 1
            <4>1. m \in 0..n /\ (m # 0 => m - 1 \in 0..n)
                BY <3>2
            <4>2. g[m] = IF m = 0 THEN <<>>
                         ELSE IF s[m] \in gone THEN g[m - 1]
                         ELSE Append(g[m - 1], s[m])
                BY <2>1, <4>1 DEF Obeys
            <4> QED
                BY <3>2, <4>1, <4>2
        <3> QED
            BY <3>1, <3>2
    <2>3. Obeys(h, s, gone, n + 1)
        BY <2>2 DEF Obeys
    <2> QED
        BY <2>3
<1> HIDE DEF S
<1>3. \A n \in Nat : n \in S
    BY <1>1, <1>2, Induction
<1> QED
    BY <1>3 DEF S

\* The equation of the loop.
LEMMA KeptUpToDef ==
    ASSUME NEW X, NEW s \in Seq(X), NEW gone
    PROVE  /\ Erased(s, gone) = KeptUpTo(s, gone)[Len(s)]
           /\ KeptUpTo(s, gone)[0] = <<>>
           /\ \A n \in 1..Len(s) :
                 KeptUpTo(s, gone)[n] =
                    IF s[n] \in gone THEN KeptUpTo(s, gone)[n - 1]
                    ELSE Append(KeptUpTo(s, gone)[n - 1], s[n])
<1>1. Len(s) \in Nat
    OBVIOUS
<1>2. Obeys(KeptUpTo(s, gone), s, gone, Len(s))
    BY <1>1, KeptExists DEF KeptUpTo
<1>3. Erased(s, gone) = KeptUpTo(s, gone)[Len(s)]
    BY DEF Erased, KeptUpTo, Obeys
<1> DEFINE g == KeptUpTo(s, gone)
<1> HIDE DEF g
<1>4. Obeys(g, s, gone, Len(s))
    BY <1>2 DEF g
<1>5. g[0] = <<>>
    BY <1>1, <1>4 DEF Obeys
<1>6. ASSUME NEW n \in 1..Len(s)
      PROVE  g[n] = IF s[n] \in gone THEN g[n - 1] ELSE Append(g[n - 1], s[n])
    <2>1. n \in 0..Len(s) /\ n # 0
        BY <1>1
    <2> QED
        BY <1>4, <2>1 DEF Obeys
<1> QED
    BY <1>3, <1>5, <1>6 DEF g

\* One more element is looked at, and kept.
LEMMA SelectsAppend ==
    ASSUME NEW X, NEW s \in Seq(X), NEW gone, NEW n \in Nat, n + 1 =< Len(s),
           NEW r \in Seq(X), NEW at, Selects(at, s, gone, n, r), s[n + 1] \notin gone
    PROVE  \E b : Selects(b, s, gone, n + 1, Append(r, s[n + 1]))
<1> DEFINE k == Len(r) + 1
           q == Append(r, s[n + 1])
           b == [i \in 1..k |-> IF i = k THEN n + 1 ELSE at[i]]
<1>1. /\ s[n + 1] \in X /\ k \in Nat /\ Len(q) = k
      /\ \A i \in 1..Len(r) : q[i] = r[i]
      /\ q[k] = s[n + 1]
    OBVIOUS
<1>2. ASSUME NEW i \in 1..k
      PROVE  IF i = k THEN b[i] = n + 1
             ELSE i \in 1..Len(r) /\ b[i] = at[i] /\ at[i] \in 1..n
    BY <1>1 DEF Selects
<1>3. b \in [1..k -> 1..(n + 1)]
    BY <1>2
<1>4. ASSUME NEW i \in 1..k, NEW j \in 1..k, i < j PROVE b[i] < b[j]
    <2>1. i # k /\ i \in 1..Len(r) /\ b[i] = at[i] /\ at[i] \in 1..n
        BY <1>1, <1>2, <1>4
    <2>2. CASE j = k
        BY <2>1, <2>2
    <2>3. CASE j # k
        BY <2>1, <2>3, <1>2, <1>4 DEF Selects
    <2> QED
        BY <2>2, <2>3
<1>5. ASSUME NEW i \in 1..k PROVE q[i] = s[b[i]] /\ q[i] \notin gone
    BY <1>1, <1>2 DEF Selects
<1>6. ASSUME NEW p \in 1..(n + 1), s[p] \notin gone PROVE \E i \in 1..k : b[i] = p
    <2>1. CASE p = n + 1
        BY <2>1, <1>1
    <2>2. CASE p # n + 1
        <3>1. PICK i \in 1..Len(r) : at[i] = p
            BY <2>2, <1>6 DEF Selects
        <3>2. i \in 1..k /\ b[i] = p
            BY <3>1, <1>1
        <3> QED
            BY <3>2
    <2> QED
        BY <2>1, <2>2
<1> HIDE DEF b, q, k
<1>7. Selects(b, s, gone, n + 1, q)
    BY <1>1, <1>3, <1>4, <1>5, <1>6 DEF Selects
<1> QED
    BY <1>7 DEF q

\* What is left of a sequence are its elements that are not erased, each at
\* the place it had among them.
LEMMA ErasedSelects ==
    ASSUME NEW X, NEW s \in Seq(X), NEW gone
    PROVE  /\ Erased(s, gone) \in Seq(X)
           /\ \E at : Selects(at, s, gone, Len(s), Erased(s, gone))
<1> DEFINE g == KeptUpTo(s, gone)
           Kept(n) == g[n] \in Seq(X) /\ \E at : Selects(at, s, gone, n, g[n])
           S == {n \in Nat : n =< Len(s) => Kept(n)}
<1>1. /\ Erased(s, gone) = g[Len(s)] /\ g[0] = <<>>
      /\ \A n \in 1..Len(s) :
            g[n] = IF s[n] \in gone THEN g[n - 1] ELSE Append(g[n - 1], s[n])
    BY KeptUpToDef
<1> HIDE DEF g
<1>2. 0 \in S
    <2>1. Selects([i \in {} |-> 0], s, gone, 0, <<>>)
        BY DEF Selects
    <2>2. g[0] \in Seq(X) /\ \E at : Selects(at, s, gone, 0, g[0])
        BY <2>1, <1>1
    <2> QED
        BY <2>2
<1>3. ASSUME NEW n \in Nat, n \in S PROVE n + 1 \in S
    <2> SUFFICES ASSUME n + 1 =< Len(s) PROVE Kept(n + 1)
        OBVIOUS
    <2>1. /\ g[n] \in Seq(X) /\ n + 1 \in 1..Len(s) /\ s[n + 1] \in X
          /\ g[n + 1] = IF s[n + 1] \in gone THEN g[n] ELSE Append(g[n], s[n + 1])
        BY <1>1, <1>3
    <2>2. PICK at : Selects(at, s, gone, n, g[n])
        BY <1>3
    <2>3. CASE s[n + 1] \in gone
        <3>1. Selects(at, s, gone, n + 1, g[n])
            BY <2>1, <2>2, <2>3 DEF Selects
        <3> QED
            BY <3>1, <2>1, <2>3
    <2>4. CASE s[n + 1] \notin gone
        <3>1. \E b : Selects(b, s, gone, n + 1, Append(g[n], s[n + 1]))
            BY <2>1, <2>2, <2>4, SelectsAppend
        <3> QED
            BY <3>1, <2>1, <2>4
    <2> QED
        BY <2>3, <2>4
<1> HIDE DEF S
<1>4. \A n \in Nat : n \in S
    BY <1>2, <1>3, Induction
<1>5. Kept(Len(s))
    BY <1>4 DEF S
<1> QED
    BY <1>1, <1>5

\* The elements left are those not erased, and none of them twice that was
\* not there twice.
LEMMA ErasedElements ==
    ASSUME NEW X, NEW s \in Seq(X), NEW gone
    PROVE  /\ Erased(s, gone) \in Seq(X)
           /\ Range(Erased(s, gone)) = Range(s) \ gone
           /\ IsInjective(s) => IsInjective(Erased(s, gone))
<1> DEFINE r == Erased(s, gone)
<1>1. r \in Seq(X)
    BY ErasedSelects
<1>2. PICK at : Selects(at, s, gone, Len(s), r)
    BY ErasedSelects
<1> HIDE DEF r
<1>3. Range(r) = Range(s) \ gone
    <2>1. ASSUME NEW i \in 1..Len(r)
          PROVE  at[i] \in 1..Len(s) /\ r[i] = s[at[i]] /\ r[i] \notin gone
        BY <1>2 DEF Selects
    <2>2. ASSUME NEW p \in 1..Len(s), s[p] \notin gone
          PROVE  \E i \in 1..Len(r) : r[i] = s[p]
        BY <1>2, <2>2 DEF Selects
    <2>3. DOMAIN r = 1..Len(r) /\ DOMAIN s = 1..Len(s)
        BY <1>1
    <2>4. ASSUME NEW e \in Range(r) PROVE e \in Range(s) \ gone
        BY <2>1, <2>3 DEF Range
    <2>5. ASSUME NEW e \in Range(s) \ gone PROVE e \in Range(r)
        <3>1. PICK p \in 1..Len(s) : e = s[p]
            BY <2>3 DEF Range
        <3> QED
            BY <2>2, <2>3, <3>1 DEF Range
    <2> QED
        BY <2>4, <2>5
<1>4. ASSUME IsInjective(s), NEW i \in 1..Len(r), NEW j \in 1..Len(r), r[i] = r[j]
      PROVE  i = j
    <2>1. at[i] \in 1..Len(s) /\ at[j] \in 1..Len(s) /\ s[at[i]] = s[at[j]]
        BY <1>2, <1>4 DEF Selects
    <2>2. at[i] = at[j]
        BY <2>1, <1>4 DEF IsInjective
    <2> QED
        BY <2>2, <1>1, <1>2 DEF Selects
<1>5. IsInjective(s) => IsInjective(r)
    BY <1>1, <1>4 DEF IsInjective
<1> QED
    BY <1>1, <1>3, <1>5 DEF r
-----------------------------------------------------------------------------
(* Lists of whatever elements they have *)

IsList(s) == s \in Seq(Range(s))

\* A sequence of elements of any set is a list.
LEMMA SequencesAreLists ==
    ASSUME NEW X, NEW s \in Seq(X)
    PROVE  IsList(s)
<1>1. s \in [1..Len(s) -> X] /\ Len(s) \in Nat
    OBVIOUS
<1>2. s \in [1..Len(s) -> Range(s)]
    BY <1>1 DEF Range
<1> QED
    BY <1>1, <1>2 DEF IsList

\* The elements after emplace_back.
LEMMA AppendElements ==
    ASSUME NEW s, IsList(s), NEW e
    PROVE  /\ IsList(Append(s, e))
           /\ Range(Append(s, e)) = Range(s) \cup {e}
           /\ Len(Append(s, e)) = Len(s) + 1 /\ Len(s) \in Nat
           /\ Append(s, e)[Len(s) + 1] = e
           /\ IsInjective(s) /\ e \notin Range(s) => IsInjective(Append(s, e))
<1> DEFINE X == Range(s) \cup {e}
           r == Append(s, e)
<1>1. s \in Seq(X) /\ e \in X /\ Len(s) \in Nat /\ DOMAIN s = 1..Len(s)
    BY DEF IsList
<1> HIDE DEF X
<1>2. /\ r \in Seq(X) /\ DOMAIN r = 1..(Len(s) + 1) /\ Len(r) = Len(s) + 1
      /\ \A i \in 1..Len(s) : r[i] = s[i]
      /\ r[Len(s) + 1] = e
    BY <1>1
<1> HIDE DEF r
<1>3. IsList(r)
    BY <1>2, SequencesAreLists
<1>4. Range(r) = Range(s) \cup {e}
    <2>1. ASSUME NEW x \in Range(r) PROVE x \in Range(s) \cup {e}
        BY <1>1, <1>2 DEF Range
    <2>2. ASSUME NEW x \in Range(s) \cup {e} PROVE x \in Range(r)
        BY <1>1, <1>2 DEF Range
    <2> QED
        BY <2>1, <2>2
<1>5. ASSUME IsInjective(s), e \notin Range(s), NEW i \in DOMAIN r, NEW j \in DOMAIN r, r[i] = r[j]
      PROVE  i = j
    <2>1. \A p \in 1..Len(s) : s[p] # e
        BY <1>1, <1>5 DEF Range
    <2> QED
        BY <1>1, <1>2, <1>5, <2>1 DEF IsInjective
<1>6. IsInjective(s) /\ e \notin Range(s) => IsInjective(r)
    BY <1>5 DEF IsInjective
<1> QED
    BY <1>1, <1>2, <1>3, <1>4, <1>6 DEF r

\* The elements after push_front.
LEMMA PrependElements ==
    ASSUME NEW s, IsList(s), NEW e
    PROVE  /\ IsList(<<e>> \o s)
           /\ Range(<<e>> \o s) = {e} \cup Range(s)
           /\ Tail(<<e>> \o s) = s
<1> DEFINE X == Range(s) \cup {e}
           r == <<e>> \o s
<1>1. s \in Seq(X) /\ e \in X /\ Len(s) \in Nat /\ DOMAIN s = 1..Len(s) /\ <<e>> \in Seq(X)
    BY DEF IsList
<1> HIDE DEF X
<1>2. /\ r \in Seq(X) /\ DOMAIN r = 1..(Len(s) + 1) /\ Len(r) = Len(s) + 1
      /\ r[1] = e
      /\ \A i \in 1..Len(s) : r[i + 1] = s[i]
      /\ Tail(r) \in Seq(X) /\ Len(Tail(r)) = Len(s)
      /\ \A i \in 1..Len(s) : Tail(r)[i] = r[i + 1]
    BY <1>1
<1> HIDE DEF r
<1>3. IsList(r)
    BY <1>2, SequencesAreLists
<1>4. Range(r) = {e} \cup Range(s)
    <2>1. ASSUME NEW i \in DOMAIN r PROVE r[i] \in {e} \cup Range(s)
        <3>1. i = 1 \/ (i - 1 \in 1..Len(s) /\ r[i] = s[i - 1])
            BY <1>1, <1>2
        <3> QED
            BY <1>1, <1>2, <3>1 DEF Range
    <2>2. ASSUME NEW i \in DOMAIN s PROVE s[i] \in Range(r)
        <3>1. i + 1 \in DOMAIN r /\ r[i + 1] = s[i]
            BY <1>1, <1>2
        <3> QED
            BY <3>1 DEF Range
    <2>3. e \in Range(r)
        BY <1>1, <1>2 DEF Range
    <2> QED
        BY <2>1, <2>2, <2>3 DEF Range
<1>5. Tail(r) = s
    <2>1. DOMAIN Tail(r) = 1..Len(s)
        BY <1>2
    <2> QED
        BY <1>1, <1>2, <2>1
<1> QED
    BY <1>3, <1>4, <1>5 DEF r

\* The lemma on erasing, for a list.
LEMMA EraseElements ==
    ASSUME NEW s, IsList(s), NEW gone
    PROVE  /\ IsList(Erased(s, gone))
           /\ Range(Erased(s, gone)) = Range(s) \ gone
           /\ IsInjective(s) => IsInjective(Erased(s, gone))
BY ErasedElements, SequencesAreLists DEF IsList
=============================================================================
