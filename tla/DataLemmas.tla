------------------------------ MODULE DataLemmas ------------------------------
(***************************************************************************)
(* Facts about numbers, finite sets and sequences that the proofs of       *)
(* several components need.  What would be an induction over data is an    *)
(* argument about a smallest counterexample.                               *)
(***************************************************************************)
EXTENDS Subsequences, SequencesExt, SequenceTheorems, FiniteSetTheorems,
        WellFoundedInduction, TLAPS

-----------------------------------------------------------------------------
(* Smallest and largest numbers *)

LEMMA SmallestExists ==
    ASSUME NEW T \in SUBSET Nat, T # {}
    PROVE  \E x \in T : \A y \in T : x <= y
  <1> DEFINE R == OpToRel(<, Nat)
  <1>1. IsWellFoundedOn(R, Nat)
    BY NatLessThanWellFounded
  <1>2. \A x, y \in Nat : <<y, x>> \in R <=> y < x
    BY DEF OpToRel
  <1> HIDE DEF R
  <1>3. PICK x \in T : \A y \in T : ~(<<y, x>> \in R)
    BY <1>1, WFMin
  <1>4. ASSUME NEW y \in T PROVE x <= y
    <2>1. x \in Nat /\ y \in Nat
      OBVIOUS
    <2>2. ~(<<y, x>> \in R)
      BY <1>3
    <2>3. ~(y < x)
      BY <1>2, <2>1, <2>2
    <2> QED BY <2>1, <2>3
  <1> QED BY <1>4

\* Induction, over a set of numbers.
LEMMA Induct ==
    ASSUME NEW T \in SUBSET Nat, 0 \in T, \A n \in T : n + 1 \in T
    PROVE  T = Nat
  <1> SUFFICES ASSUME Nat \ T # {} PROVE FALSE
    OBVIOUS
  <1>1. PICK x \in Nat \ T : \A y \in Nat \ T : x <= y
    BY SmallestExists
  <1>2. x # 0
    OBVIOUS
  <1>3. x - 1 \in T
    BY <1>1, <1>2
  <1>4. x \in T
    BY <1>3
  <1> QED BY <1>4

\* The values f that a loop of m rounds passes through, from base on.
Passes(f, S, base, m, step) ==
    /\ f \in [0 .. m -> S] /\ f[0] = base
    /\ \A n \in 1 .. m : f[n] = step[n][f[n - 1]]

\* Every loop runs to its end.
LEMMA RunExists ==
    ASSUME NEW S, NEW base \in S, NEW m \in Nat, NEW step \in [1 .. m -> [S -> S]]
    PROVE  \E f : Passes(f, S, base, m, step)
  <1> DEFINE Run(f, k) == /\ f \in [0 .. k -> S] /\ f[0] = base
                          /\ \A n \in 1 .. k : f[n] = step[n][f[n - 1]]
             T == {k \in Nat : k <= m => \E f : Run(f, k)}
  <1>1. 0 \in T
    <2> DEFINE f == [n \in 0 .. 0 |-> base]
    <2>1. f \in [0 .. 0 -> S] /\ f[0] = base
      OBVIOUS
    <2>2. \A n \in 1 .. 0 : f[n] = step[n][f[n - 1]]
      OBVIOUS
    <2> HIDE DEF f
    <2>3. Run(f, 0)
      BY <2>1, <2>2
    <2> QED BY <2>3
  <1>2. ASSUME NEW k \in T PROVE k + 1 \in T
    <2>1. SUFFICES ASSUME k + 1 <= m PROVE \E f : Run(f, k + 1)
      <3>1. k + 1 \in Nat
        OBVIOUS
      <3> HIDE DEF Run
      <3> QED BY <3>1
    <2>2. PICK f : Run(f, k)
      <3>1. k \in Nat /\ k <= m
        BY <2>1
      <3> QED BY <3>1
    <2> DEFINE g == [n \in 0 .. k + 1 |-> IF n = k + 1 THEN step[n][f[k]] ELSE f[n]]
    <2>3. k \in Nat /\ k + 1 \in 1 .. m /\ f[k] \in S
      BY <2>1, <2>2
    <2>4. step[k + 1][f[k]] \in S
      BY <2>3
    <2>5. /\ \A n \in 0 .. k : g[n] = f[n] /\ f[n] \in S
          /\ g[k + 1] = step[k + 1][f[k]]
      BY <2>2, <2>3
    <2>6. g \in [0 .. k + 1 -> S]
      <3>1. \A n \in 0 .. k + 1 : n = k + 1 \/ n \in 0 .. k
        BY <2>3
      <3>2. \A n \in 0 .. k + 1 : g[n] \in S
        BY <2>4, <2>5, <3>1
      <3> QED BY <3>2
    <2> HIDE DEF g
    <2>7. \A n \in 1 .. k + 1 : g[n] = step[n][g[n - 1]]
      <3> SUFFICES ASSUME NEW n \in 1 .. k + 1 PROVE g[n] = step[n][g[n - 1]]
        OBVIOUS
      <3>1. CASE n = k + 1
        <4>1. g[n - 1] = f[k]
          BY <2>3, <2>5, <3>1
        <4> QED BY <2>5, <3>1, <4>1
      <3>2. CASE n # k + 1
        <4>1. n \in 1 .. k /\ n \in 0 .. k /\ n - 1 \in 0 .. k
          BY <2>3, <3>2
        <4>2. g[n] = f[n] /\ g[n - 1] = f[n - 1]
          BY <2>5, <4>1
        <4>3. f[n] = step[n][f[n - 1]]
          BY <2>2, <4>1
        <4> QED BY <4>2, <4>3
      <3> QED BY <3>1, <3>2
    <2>8. g[0] = base
      BY <2>2, <2>3, <2>5
    <2> QED BY <2>6, <2>7, <2>8
  <1>3. m \in T
    <2> HIDE DEF T
    <2>1. T \in SUBSET Nat
      BY DEF T
    <2> QED BY <1>1, <1>2, <2>1, Induct
  <1> QED BY <1>3 DEF Passes

\* A loop that goes on does so from where the shorter one ends.
LEMMA PassesAgree ==
    ASSUME NEW S, NEW base, NEW k \in Nat, NEW m \in Nat, k <= m, NEW step, NEW more,
           NEW f, Passes(f, S, base, k, step), NEW g, Passes(g, S, base, m, more),
           \A n \in 1 .. k : more[n] = step[n]
    PROVE  \A n \in 0 .. k : f[n] = g[n]
  <1> DEFINE T == {n \in Nat : n <= k => f[n] = g[n]}
  <1>1. 0 \in T
    BY DEF Passes
  <1>2. ASSUME NEW n \in T PROVE n + 1 \in T
    <2>1. SUFFICES ASSUME n + 1 <= k PROVE f[n + 1] = g[n + 1]
      BY <1>2
    <2>2. /\ n + 1 \in 1 .. k /\ n + 1 \in 1 .. m /\ (n + 1) - 1 = n
          /\ f[n] = g[n] /\ more[n + 1] = step[n + 1]
      BY <1>2, <2>1
    <2>3. f[n + 1] = step[n + 1][f[n]] /\ g[n + 1] = more[n + 1][g[n]]
      BY <2>2 DEF Passes
    <2> QED BY <2>2, <2>3
  <1>3. T = Nat
    <2> HIDE DEF T
    <2>1. T \in SUBSET Nat
      BY DEF T
    <2> QED BY <1>1, <1>2, <2>1, Induct
  <1> QED BY <1>3

\* Without x, a finite set has a largest number or none at all.
LEMMA LargestExists ==
    ASSUME NEW T \in SUBSET Nat, IsFiniteSet(T), T # {}
    PROVE  \E x \in T : \A y \in T : y <= x
  <1> DEFINE Topped(U) == \E x \in U : \A y \in U : y <= x
             Bad == {n \in Nat : \E U \in SUBSET Nat :
                        IsFiniteSet(U) /\ U # {} /\ Cardinality(U) = n /\ ~Topped(U)}
  <1>1. Bad = {}
    <2> SUFFICES ASSUME Bad # {} PROVE FALSE
      OBVIOUS
    <2>1. PICK n \in Bad : \A m \in Bad : n <= m
      BY SmallestExists
    <2>2. PICK U \in SUBSET Nat :
             IsFiniteSet(U) /\ U # {} /\ Cardinality(U) = n /\ ~Topped(U)
      BY <2>1
    <2>3. PICK x \in U : TRUE
      BY <2>2
    <2> DEFINE V == U \ {x}
    <2>4. IsFiniteSet(V) /\ Cardinality(V) = n - 1 /\ Cardinality(V) \in Nat
      BY <2>2, <2>3, FS_RemoveElement, FS_CardinalityType
    <2>5. CASE V = {}
      <3>1. \A y \in U : y <= x
        BY <2>3, <2>5
      <3> QED BY <2>2, <2>3, <3>1
    <2>6. CASE V # {}
      <3>1. n \in Nat /\ n - 1 \notin Bad
        BY <2>1, <2>4
      <3>2. Topped(V)
        <4>1. V \in SUBSET Nat
          OBVIOUS
        <4> HIDE DEF V, Topped
        <4> QED BY <2>4, <2>6, <3>1, <4>1
      <3>3. PICK m \in V : \A y \in V : y <= m
        BY <3>2
      <3>4. x \in Nat /\ m \in Nat /\ m \in U
        BY <2>3
      <3>5. CASE x <= m
        <4>1. \A y \in U : y <= m
          BY <3>3, <3>5
        <4> QED BY <2>2, <3>4, <4>1
      <3>6. CASE m <= x
        <4>1. \A y \in U : y <= x
          <5> SUFFICES ASSUME NEW y \in U PROVE y <= x
            OBVIOUS
          <5>1. y \in Nat
            OBVIOUS
          <5> QED BY <3>3, <3>4, <3>6, <5>1
        <4> QED BY <2>2, <2>3, <4>1
      <3> QED BY <3>4, <3>5, <3>6
    <2> QED BY <2>5, <2>6
  <1>2. Cardinality(T) \in Nat /\ Cardinality(T) \notin Bad
    BY <1>1, FS_CardinalityType
  <1> QED BY <1>2

-----------------------------------------------------------------------------
(* Positions and what is picked at them *)

\* Ranks number the positions from 1 on, in their order.
LEMMA RanksNumber ==
    ASSUME NEW n \in Nat, NEW in \in SUBSET (1 .. n)
    PROVE  /\ IsFiniteSet(in) /\ Cardinality(in) \in Nat
           /\ \A i \in in : Rank(in, i) \in 1 .. Cardinality(in)
           /\ \A i, j \in in : i < j => Rank(in, i) < Rank(in, j)
           /\ \A k \in 1 .. Cardinality(in) : \E i \in in : Rank(in, i) = k
  <1> DEFINE Upto(i) == {j \in in : j <= i}
             place == [i \in in |-> Rank(in, i)]
  <1>1. IsFiniteSet(in) /\ Cardinality(in) \in Nat
    <2>1. IsFiniteSet(1 .. n)
      BY FS_Interval
    <2> QED BY <2>1, FS_Subset, FS_CardinalityType
  <1>2. ASSUME NEW i \in in
        PROVE  /\ IsFiniteSet(Upto(i)) /\ Cardinality(Upto(i)) \in Nat
               /\ Cardinality(Upto(i)) <= Cardinality(in)
               /\ Cardinality(Upto(i)) # 0
    <2>1. Upto(i) \in SUBSET in /\ i \in Upto(i)
      OBVIOUS
    <2> HIDE DEF Upto
    <2> QED BY <1>1, <2>1, FS_Subset, FS_CardinalityType, FS_EmptySet
  <1>3. \A i \in in : Rank(in, i) \in 1 .. Cardinality(in)
    BY <1>1, <1>2 DEF Rank
  <1>4. ASSUME NEW i \in in, NEW j \in in, i < j
        PROVE  Rank(in, i) < Rank(in, j)
    <2>1. Upto(i) \in SUBSET Upto(j) /\ j \in Upto(j) /\ j \notin Upto(i)
      <3>1. \A k \in in : k \in Nat
        OBVIOUS
      <3>2. \A k \in in : k <= i => k <= j
        BY <1>4, <3>1
      <3>3. j <= j /\ ~(j <= i)
        BY <1>4, <3>1
      <3> QED BY <3>2, <3>3
    <2>2. Upto(i) # Upto(j)
      BY <2>1
    <2>3. /\ Cardinality(Upto(i)) <= Cardinality(Upto(j))
          /\ Cardinality(Upto(i)) # Cardinality(Upto(j))
      <3> HIDE DEF Upto
      <3> QED BY <1>2, <2>1, <2>2, FS_Subset
    <2> QED BY <1>2, <2>3 DEF Rank
  <1>5. place \in Injection(in, 1 .. Cardinality(in))
    <2>1. \A i, j \in in : place[i] = place[j] => i = j
      <3> SUFFICES ASSUME NEW i \in in, NEW j \in in, i # j PROVE Rank(in, i) # Rank(in, j)
        OBVIOUS
      <3>1. i < j \/ j < i
        OBVIOUS
      <3> QED BY <1>1, <1>3, <1>4, <3>1
    <2> QED BY <1>3, <2>1 DEF Injection, IsInjective
  <1>6. place \in Surjection(in, 1 .. Cardinality(in))
    <2>1. IsFiniteSet(1 .. Cardinality(in)) /\ Cardinality(1 .. Cardinality(in)) = Cardinality(in)
      BY <1>1, FS_Interval
    <2> HIDE DEF place
    <2> QED BY <1>5, <2>1, FS_Injection
  <1>7. \A k \in 1 .. Cardinality(in) : \E i \in in : Rank(in, i) = k
    BY <1>6 DEF Surjection
  <1> QED BY <1>1, <1>3, <1>4, <1>7

\* What is picked is a sequence, of the members at the positions, in their order.
LEMMA PickedMembers ==
    ASSUME NEW S, NEW seq \in Seq(S), NEW in \in SUBSET DOMAIN seq
    PROVE  /\ Picked(seq, in) \in Seq(S)
           /\ Len(Picked(seq, in)) = Cardinality(in) /\ Cardinality(in) \in Nat
           /\ \A i \in in : Rank(in, i) \in DOMAIN Picked(seq, in)
                               /\ Picked(seq, in)[Rank(in, i)] = seq[i]
           /\ \A k \in DOMAIN Picked(seq, in) : \E i \in in : Rank(in, i) = k
           /\ \A i, j \in in : i < j => Rank(in, i) < Rank(in, j)
  <1> DEFINE spot(k) == CHOOSE i \in in : Rank(in, i) = k
  <1>1. Len(seq) \in Nat /\ in \in SUBSET (1 .. Len(seq))
    OBVIOUS
  <1>2. /\ Cardinality(in) \in Nat
        /\ \A i \in in : Rank(in, i) \in 1 .. Cardinality(in)
        /\ \A i, j \in in : i < j => Rank(in, i) < Rank(in, j)
        /\ \A k \in 1 .. Cardinality(in) : \E i \in in : Rank(in, i) = k
    BY <1>1, RanksNumber
  <1>3. \A k \in 1 .. Cardinality(in) : spot(k) \in in /\ Rank(in, spot(k)) = k
    BY <1>2
  <1>4. \A i \in in : spot(Rank(in, i)) = i
    <2> SUFFICES ASSUME NEW i \in in PROVE spot(Rank(in, i)) = i
      OBVIOUS
    <2>1. spot(Rank(in, i)) \in in /\ Rank(in, spot(Rank(in, i))) = Rank(in, i)
      BY <1>2, <1>3
    <2>2. \A j \in in : j # i => Rank(in, j) # Rank(in, i)
      <3> SUFFICES ASSUME NEW j \in in, j # i PROVE Rank(in, j) # Rank(in, i)
        OBVIOUS
      <3>1. j < i \/ i < j
        BY <1>1
      <3> QED BY <1>2, <3>1
    <2> HIDE DEF spot
    <2> QED BY <2>1, <2>2
  <1>5. Picked(seq, in) = [k \in 1 .. Cardinality(in) |-> seq[spot(k)]]
    BY DEF Picked
  <1> HIDE DEF spot
  <1>6. Picked(seq, in) \in Seq(S) /\ Len(Picked(seq, in)) = Cardinality(in)
    <2>1. \A k \in 1 .. Cardinality(in) : seq[spot(k)] \in S
      BY <1>1, <1>3
    <2> QED BY <1>2, <1>5, <2>1
  <1> QED BY <1>2, <1>4, <1>5, <1>6

\* As sets: all members a comprehension admits, and no other.
LEMMA PickedSet ==
    ASSUME NEW S, NEW seq \in Seq(S), NEW in \in SUBSET DOMAIN seq
    PROVE  ToSet(Picked(seq, in)) = {seq[i] : i \in in}
  <1> DEFINE out == Picked(seq, in)
  <1>1. /\ \A i \in in : Rank(in, i) \in DOMAIN out /\ out[Rank(in, i)] = seq[i]
        /\ \A k \in DOMAIN out : \E i \in in : Rank(in, i) = k
    BY PickedMembers
  <1> HIDE DEF out
  <1>2. {out[k] : k \in DOMAIN out} = {seq[i] : i \in in}
    BY <1>1
  <1> QED BY <1>2 DEF ToSet, out

-----------------------------------------------------------------------------
(* Sets of members *)

LEMMA ToSetAppend ==
    ASSUME NEW S, NEW s \in Seq(S), NEW e \in S
    PROVE  ToSet(Append(s, e)) = ToSet(s) \cup {e}
  <1>1. /\ Len(s) \in Nat /\ DOMAIN s = 1 .. Len(s)
        /\ DOMAIN Append(s, e) = 1 .. Len(s) + 1
        /\ \A i \in 1 .. Len(s) : Append(s, e)[i] = s[i]
        /\ Append(s, e)[Len(s) + 1] = e
    OBVIOUS
  <1> QED BY <1>1 DEF ToSet

\* Where the members of a concatenation are.
LEMMA ConcatParts ==
    ASSUME NEW S, NEW s \in Seq(S), NEW t \in Seq(S)
    PROVE  /\ Len(s) \in Nat /\ DOMAIN s = 1 .. Len(s)
           /\ Len(t) \in Nat /\ DOMAIN t = 1 .. Len(t)
           /\ DOMAIN (s \o t) = 1 .. Len(s) + Len(t)
           /\ \A i \in 1 .. Len(s) : (s \o t)[i] = s[i]
           /\ \A i \in 1 .. Len(s) + Len(t) : i > Len(s) => (s \o t)[i] = t[i - Len(s)]
  OBVIOUS

LEMMA ToSetConcat ==
    ASSUME NEW S, NEW s \in Seq(S), NEW t \in Seq(S)
    PROVE  ToSet(s \o t) = ToSet(s) \cup ToSet(t)
  <1>1. /\ Len(s) \in Nat /\ DOMAIN s = 1 .. Len(s)
        /\ Len(t) \in Nat /\ DOMAIN t = 1 .. Len(t)
        /\ DOMAIN (s \o t) = 1 .. Len(s) + Len(t)
        /\ \A i \in 1 .. Len(s) : (s \o t)[i] = s[i]
        /\ \A i \in 1 .. Len(t) : (s \o t)[Len(s) + i] = t[i]
        /\ \A i \in 1 .. Len(s) + Len(t) :
              (s \o t)[i] = IF i <= Len(s) THEN s[i] ELSE t[i - Len(s)]
    OBVIOUS
  <1>2. ASSUME NEW i \in DOMAIN (s \o t) PROVE (s \o t)[i] \in ToSet(s) \cup ToSet(t)
    <2>1. CASE i <= Len(s)
      <3>1. i \in DOMAIN s /\ (s \o t)[i] = s[i]
        BY <1>1, <2>1
      <3> QED BY <3>1 DEF ToSet
    <2>2. CASE ~(i <= Len(s))
      <3>1. i - Len(s) \in DOMAIN t /\ (s \o t)[i] = t[i - Len(s)]
        BY <1>1, <2>2
      <3> QED BY <3>1 DEF ToSet
    <2> QED BY <2>1, <2>2
  <1>3. ASSUME NEW i \in DOMAIN s PROVE s[i] \in ToSet(s \o t)
    <2>1. i \in DOMAIN (s \o t) /\ (s \o t)[i] = s[i]
      BY <1>1
    <2> QED BY <2>1 DEF ToSet
  <1>4. ASSUME NEW i \in DOMAIN t PROVE t[i] \in ToSet(s \o t)
    <2>1. Len(s) + i \in DOMAIN (s \o t) /\ (s \o t)[Len(s) + i] = t[i]
      BY <1>1
    <2> QED BY <2>1 DEF ToSet
  <1>5. ToSet(s \o t) \subseteq ToSet(s) \cup ToSet(t)
    BY <1>2 DEF ToSet
  <1>6. ToSet(s) \subseteq ToSet(s \o t)
    BY <1>3 DEF ToSet
  <1>7. ToSet(t) \subseteq ToSet(s \o t)
    BY <1>4 DEF ToSet
  <1> QED BY <1>5, <1>6, <1>7

LEMMA ToSetHeadTail ==
    ASSUME NEW S, NEW s \in Seq(S), s # <<>>
    PROVE  ToSet(s) = {Head(s)} \cup ToSet(Tail(s))
  <1>1. /\ Len(s) \in Nat /\ Len(s) >= 1 /\ DOMAIN s = 1 .. Len(s)
        /\ DOMAIN Tail(s) = 1 .. Len(s) - 1
        /\ \A i \in 1 .. Len(s) - 1 : Tail(s)[i] = s[i + 1]
        /\ Head(s) = s[1]
    OBVIOUS
  <1>2. ASSUME NEW i \in DOMAIN s, i # 1 PROVE s[i] \in ToSet(Tail(s))
    <2>1. i - 1 \in DOMAIN Tail(s) /\ Tail(s)[i - 1] = s[i]
      BY <1>1, <1>2
    <2> QED BY <2>1 DEF ToSet
  <1>3. ASSUME NEW i \in DOMAIN Tail(s) PROVE Tail(s)[i] \in ToSet(s)
    <2>1. i + 1 \in DOMAIN s /\ Tail(s)[i] = s[i + 1]
      BY <1>1
    <2> QED BY <2>1 DEF ToSet
  <1>4. ToSet(Tail(s)) \subseteq ToSet(s)
    BY <1>3 DEF ToSet
  <1>5. ToSet(s) \subseteq {Head(s)} \cup ToSet(Tail(s))
    BY <1>1, <1>2 DEF ToSet
  <1>6. Head(s) \in ToSet(s)
    BY <1>1 DEF ToSet
  <1> QED BY <1>4, <1>5, <1>6

LEMMA ToSetFinite ==
    ASSUME NEW S, NEW s \in Seq(S)
    PROVE  IsFiniteSet(ToSet(s)) /\ ToSet(s) \in SUBSET S
  <1>1. IsFiniteSet(1 .. Len(s)) /\ DOMAIN s = 1 .. Len(s)
    BY FS_Interval
  <1>2. s \in Surjection(1 .. Len(s), ToSet(s))
    BY <1>1 DEF Surjection, ToSet
  <1>3. IsFiniteSet(ToSet(s))
    BY <1>1, <1>2, FS_Surjection
  <1> QED BY <1>1, <1>3 DEF ToSet

\* A finite set is a sequence, in some order, each member once.
LEMMA SetToSeqMembers ==
    ASSUME NEW T, IsFiniteSet(T)
    PROVE  /\ SetToSeq(T) \in Seq(T)
           /\ ToSet(SetToSeq(T)) = T
           /\ \A i, j \in DOMAIN SetToSeq(T) : SetToSeq(T)[i] = SetToSeq(T)[j] => i = j
  <1> DEFINE n == Cardinality(T)
  <1>1. n \in Nat /\ ExistsBijection(1 .. n, T)
    BY FS_CardinalityType
  <1>2. PICK f \in [1 .. n -> T] : IsInjective(f)
    BY <1>1 DEF ExistsBijection, Bijection, Injection
  <1>3. SetToSeq(T) \in [1 .. n -> T] /\ IsInjective(SetToSeq(T))
    BY <1>2 DEF SetToSeq
  <1>4. SetToSeq(T) \in Injection(1 .. n, T)
    BY <1>3 DEF Injection
  <1>5. SetToSeq(T) \in Surjection(1 .. n, T)
    <2>1. IsFiniteSet(1 .. n) /\ Cardinality(1 .. n) = n
      BY <1>1, FS_Interval
    <2> QED BY <1>4, <2>1, FS_Injection
  <1>6. SetToSeq(T) \in Seq(T) /\ DOMAIN SetToSeq(T) = 1 .. n
    BY <1>1, <1>3
  <1> QED BY <1>3, <1>5, <1>6 DEF Surjection, IsInjective, ToSet

-----------------------------------------------------------------------------
(* Sums *)

\* g sums f over every subset of S, whichever member is taken out first.
Sums(g, S, f) ==
    /\ g \in [SUBSET S -> Nat]
    /\ g[{}] = 0
    /\ \A T \in SUBSET S : \A x \in T : g[T] = f[x] + g[T \ {x}]

LEMMA SumsExist ==
    ASSUME NEW S, IsFiniteSet(S), NEW f, \A x \in S : f[x] \in Nat
    PROVE  \E g : Sums(g, S, f)
  <1> DEFINE Bad == {n \in Nat : \E T \in SUBSET S : Cardinality(T) = n /\ ~ \E g : Sums(g, T, f)}
  <1>1. SUFFICES ASSUME Bad # {} PROVE FALSE
    <2>1. S \in SUBSET S /\ Cardinality(S) \in Nat
      BY FS_CardinalityType
    <2> QED BY <2>1
  <1>2. PICK n \in Bad : \A m \in Bad : n <= m
    BY <1>1, SmallestExists
  <1>3. PICK T \in SUBSET S : Cardinality(T) = n /\ ~ \E g : Sums(g, T, f)
    BY <1>2
  <1>4. IsFiniteSet(T)
    BY FS_Subset
  <1>5. T # {}
    <2> SUFFICES ASSUME T = {} PROVE \E g : Sums(g, T, f)
      BY <1>3
    <2> DEFINE g == [U \in SUBSET T |-> 0]
    <2>1. Sums(g, T, f)
      BY DEF Sums
    <2> QED BY <2>1
  <1>6. PICK a \in T : TRUE
    BY <1>5
  <1> DEFINE R == T \ {a}
  <1>7. IsFiniteSet(R) /\ Cardinality(R) = n - 1 /\ Cardinality(R) \in Nat /\ R \in SUBSET S
    BY <1>3, <1>4, <1>6, FS_RemoveElement, FS_CardinalityType
  <1>8. n \in Nat /\ n - 1 \notin Bad
    BY <1>2, <1>7
  <1>9. PICK h : Sums(h, R, f)
    <2> HIDE DEF R
    <2> QED BY <1>7, <1>8
  <1> DEFINE g == [U \in SUBSET T |-> IF a \in U THEN f[a] + h[U \ {a}] ELSE h[U]]
  <1>10. Sums(g, T, f)
    <2>1. /\ \A U \in SUBSET T : U \ {a} \in SUBSET R
          /\ \A U \in SUBSET T : a \notin U => U \in SUBSET R
          /\ \A U \in SUBSET R : h[U] \in Nat
          /\ h[{}] = 0
          /\ \A U \in SUBSET R : \A x \in U : h[U] = f[x] + h[U \ {x}]
      BY <1>9 DEF Sums
    <2>2. f[a] \in Nat /\ \A x \in T : f[x] \in Nat
      BY <1>6
    <2> HIDE DEF R
    <2>3. g \in [SUBSET T -> Nat] /\ g[{}] = 0
      BY <2>1, <2>2
    <2>4. ASSUME NEW U \in SUBSET T, NEW x \in U PROVE g[U] = f[x] + g[U \ {x}]
      <3>1. CASE x = a
        BY <2>1, <3>1
      <3>2. CASE x # a /\ a \in U
        <4> DEFINE V == U \ {a}
        <4>1. V \in SUBSET R /\ x \in V /\ V \ {x} \in SUBSET R
          BY <2>1, <3>2
        <4>2. (U \ {x}) \ {a} = V \ {x}
          OBVIOUS
        <4>3. g[U] = f[a] + h[V] /\ g[U \ {x}] = f[a] + h[V \ {x}]
          BY <3>2, <4>2
        <4>4. h[V] = f[x] + h[V \ {x}]
          BY <2>1, <4>1
        <4>5. h[V \ {x}] \in Nat /\ f[x] \in Nat
          BY <2>1, <2>2, <4>1
        <4> HIDE DEF V, g
        <4> QED BY <2>2, <4>3, <4>4, <4>5
      <3>3. CASE a \notin U
        <4>1. U \in SUBSET R /\ g[U] = h[U] /\ g[U \ {x}] = h[U \ {x}]
          BY <2>1, <3>3
        <4> QED BY <2>1, <4>1
      <3> QED BY <3>1, <3>2, <3>3
    <2> QED BY <2>3, <2>4 DEF Sums
  <1> QED BY <1>3, <1>10

\* SumFunctionOnSet, which takes the members in an order of its own, is that sum.
LEMMA SumIs ==
    ASSUME NEW S, IsFiniteSet(S), NEW f, \A x \in S : f[x] \in Nat,
           NEW g, Sums(g, S, f)
    PROVE  SumFunctionOnSet(f, S) = g[S]
  <1> DEFINE pick(T) == CHOOSE x \in T : TRUE
             Step(i, T) == IF T = {} THEN 0 ELSE f[pick(T)] + i[T \ {pick(T)}]
             iter == CHOOSE i : i = [T \in SUBSET S |-> Step(i, T)]
  <1>1. \A T : T # {} => pick(T) \in T
    OBVIOUS
  <1>2. g = [T \in SUBSET S |-> Step(g, T)]
    <2>1. \A T \in SUBSET S : g[T] = Step(g, T)
      BY <1>1 DEF Sums
    <2> HIDE DEF Step
    <2> QED BY <2>1 DEF Sums
  <1>3. iter = [T \in SUBSET S |-> Step(iter, T)]
    <2> HIDE DEF Step
    <2> QED BY <1>2
  <1>4. SumFunctionOnSet(f, S) = iter[S]
    BY DEF SumFunctionOnSet, FoldFunctionOnSet, MapThenFoldSet
  <1> HIDE DEF iter
  <1>5. \A T \in SUBSET S : iter[T] = Step(iter, T)
    <2> HIDE DEF Step
    <2> QED BY <1>3
  <1> DEFINE Bad == {n \in Nat : \E T \in SUBSET S : Cardinality(T) = n /\ iter[T] # g[T]}
  <1>6. SUFFICES ASSUME Bad # {} PROVE FALSE
    <2>1. S \in SUBSET S /\ Cardinality(S) \in Nat
      BY FS_CardinalityType
    <2> HIDE DEF Step
    <2> QED BY <1>4, <2>1
  <1>7. PICK n \in Bad : \A m \in Bad : n <= m
    BY <1>6, SmallestExists
  <1>8. PICK T \in SUBSET S : Cardinality(T) = n /\ iter[T] # g[T]
    BY <1>7
  <1>9. IsFiniteSet(T)
    BY FS_Subset
  <1>10. T # {}
    BY <1>5, <1>8 DEF Sums
  <1> DEFINE x == pick(T)
             R == T \ {x}
  <1>11. x \in T /\ R \in SUBSET S
    BY <1>1, <1>10
  <1>12. Cardinality(R) = n - 1 /\ Cardinality(R) \in Nat
    <2> HIDE DEF x
    <2> QED BY <1>8, <1>9, <1>11, FS_RemoveElement, FS_CardinalityType, FS_Subset
  <1>13. iter[R] = g[R]
    <2>1. n - 1 \notin Bad
      BY <1>7, <1>12
    <2> HIDE DEF R
    <2> QED BY <1>11, <1>12, <2>1
  <1>14. iter[T] = f[x] + iter[R] /\ g[T] = f[x] + g[R]
    BY <1>5, <1>10, <1>11 DEF Sums
  <1> QED BY <1>8, <1>13, <1>14

\* One more summand is one more number to add.
LEMMA SumAdds ==
    ASSUME NEW T, IsFiniteSet(T), NEW x, x \notin T,
           NEW f, \A y \in T \cup {x} : f[y] \in Nat,
           NEW f0, \A y \in T : f0[y] = f[y]
    PROVE  /\ SumFunctionOnSet(f, T \cup {x}) = f[x] + SumFunctionOnSet(f0, T)
           /\ SumFunctionOnSet(f0, T) \in Nat
  <1> DEFINE S == T \cup {x}
  <1>1. IsFiniteSet(S)
    BY FS_AddElement
  <1>2. PICK g : Sums(g, S, f)
    <2> HIDE DEF S
    <2>1. \A y \in S : f[y] \in Nat
      BY DEF S
    <2> QED BY <1>1, <2>1, SumsExist
  <1>3. SumFunctionOnSet(f, S) = g[S]
    <2>1. \A y \in S : f[y] \in Nat
      OBVIOUS
    <2> HIDE DEF S
    <2> QED BY <1>1, <1>2, <2>1, SumIs
  <1>4. g[S] = f[x] + g[T] /\ g[T] \in Nat
    <2>1. S \ {x} = T /\ x \in S /\ S \in SUBSET S /\ T \in SUBSET S
      OBVIOUS
    <2> HIDE DEF S
    <2> QED BY <1>2, <2>1 DEF Sums
  <1> DEFINE h == [U \in SUBSET T |-> g[U]]
  <1>5. Sums(h, T, f0)
    <2>1. \A U \in SUBSET T : U \in SUBSET S /\ h[U] = g[U] /\ \A y \in U : U \ {y} \in SUBSET T
      OBVIOUS
    <2>2. ASSUME NEW U \in SUBSET T, NEW y \in U PROVE h[U] = f0[y] + h[U \ {y}]
      <3>1. g[U] = f[y] + g[U \ {y}]
        BY <1>2, <2>1 DEF Sums
      <3>2. f0[y] = f[y]
        OBVIOUS
      <3> QED BY <2>1, <3>1, <3>2
    <2>3. h \in [SUBSET T -> Nat] /\ h[{}] = 0
      BY <1>2, <2>1 DEF Sums
    <2> HIDE DEF h
    <2> QED BY <2>2, <2>3 DEF Sums
  <1>6. SumFunctionOnSet(f0, T) = h[T]
    <2>1. \A y \in T : f0[y] \in Nat
      OBVIOUS
    <2> HIDE DEF h
    <2> QED BY <1>5, <2>1, SumIs
  <1> QED BY <1>3, <1>4, <1>6

LEMMA SumOfNone ==
    ASSUME NEW f PROVE SumFunctionOnSet(f, {}) = 0
  <1>1. PICK g : Sums(g, {}, f)
    BY SumsExist, FS_EmptySet
  <1>2. SumFunctionOnSet(f, {}) = g[{}]
    BY <1>1, SumIs, FS_EmptySet
  <1> QED BY <1>1, <1>2 DEF Sums
=============================================================================
