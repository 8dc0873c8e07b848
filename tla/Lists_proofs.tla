---------------------------- MODULE Lists_proofs ----------------------------
(***************************************************************************)
(* Facts about lists that the proofs about the modules share, and what     *)
(* stands for induction in them: a set of numbers has a least member, and  *)
(* a loop over 1..N computes a value.                                      *)
(***************************************************************************)
EXTENDS Orders, FiniteSetTheorems, SequenceTheorems, WellFoundedInduction, TLAPS

\* Any sequence is one ...
LEMMA ListOf ==
  ASSUME NEW S, NEW s \in Seq(S)
  PROVE  IsList(s) /\ Len(s) \in Nat /\ DOMAIN s = 1..Len(s)
<1>1. Len(s) \in Nat /\ s \in [1..Len(s) -> S] /\ DOMAIN s = 1..Len(s)
  BY LenProperties
<1>2. s \in [1..Len(s) -> ToSet(s)]
  BY <1>1 DEF ToSet
<1>3. QED
  BY <1>1, <1>2, SeqDef DEF IsList

\* ... and so is a function over 1..n.
LEMMA ListBy ==
  ASSUME NEW n \in Nat, NEW S, NEW s \in [1..n -> S]
  PROVE  IsList(s) /\ Len(s) = n /\ DOMAIN s = 1..n
<1>1. s \in Seq(S)
  BY SeqDef
<1>2. QED
  BY <1>1, ListOf, LenProperties

\* ... and what is defined for every number of 1..n.
LEMMA ListMap ==
  ASSUME NEW n \in Nat, NEW s, s = [i \in 1..n |-> s[i]]
  PROVE  IsList(s) /\ Len(s) = n /\ DOMAIN s = 1..n
<1>1. s \in [1..n -> {s[i] : i \in 1..n}]
  OBVIOUS
<1>2. QED
  BY <1>1, ListBy

\* A list is a function over 1..Len, empty when it has no length.
LEMMA ListFacts ==
  ASSUME NEW s, IsList(s)
  PROVE  /\ Len(s) \in Nat /\ DOMAIN s = 1..Len(s)
         /\ s # <<>> <=> Len(s) # 0
<1>1. s \in Seq(ToSet(s))
  BY DEF IsList
<1>2. QED
  BY <1>1, LenProperties, EmptySeq

\* The operators on sequences make lists of lists.
LEMMA ListTail ==
  ASSUME NEW s, IsList(s), s # <<>>
  PROVE  /\ IsList(Tail(s)) /\ Len(Tail(s)) = Len(s) - 1 /\ Len(s) \in Nat \ {0}
         /\ \A i \in 1..Len(Tail(s)) : Tail(s)[i] = s[i + 1]
         /\ Head(s) = s[1]
<1>1. s \in Seq(ToSet(s))
  BY DEF IsList
<1>2. Tail(s) \in Seq(ToSet(s))
  BY <1>1, HeadTailProperties
<1>3. IsList(Tail(s))
  BY <1>2, ListOf
<1>4. Head(s) = s[1]
  BY <1>1
<1>5. QED
  BY <1>1, <1>3, <1>4, HeadTailProperties, EmptySeq

\* Two lists, one after the other.
LEMMA ListJoin ==
  ASSUME NEW s, NEW t, IsList(s), IsList(t)
  PROVE  /\ IsList(s \o t) /\ Len(s \o t) = Len(s) + Len(t)
         /\ \A i \in 1..(Len(s) + Len(t)) :
                (s \o t)[i] = IF i <= Len(s) THEN s[i] ELSE t[i - Len(s)]
<1> DEFINE S == ToSet(s) \cup ToSet(t)
<1>1. s \in Seq(S) /\ t \in Seq(S)
  BY SeqMonotonic DEF IsList
<1>2. s \o t \in Seq(S)
  BY <1>1, ConcatProperties
<1>3. IsList(s \o t)
  BY <1>2, ListOf
<1> HIDE DEF S
<1>4. QED
  BY <1>1, <1>3, ConcatProperties

\* A line more.
LEMMA ListAppend ==
  ASSUME NEW s, NEW e, IsList(s)
  PROVE  /\ IsList(Append(s, e)) /\ Len(Append(s, e)) = Len(s) + 1
         /\ Append(s, e)[Len(s) + 1] = e
         /\ \A i \in 1..Len(s) : Append(s, e)[i] = s[i]
<1> DEFINE S == ToSet(s) \cup {e}
<1>1. s \in Seq(S) /\ e \in S
  BY SeqMonotonic DEF IsList
<1>2. Append(s, e) \in Seq(S)
  BY <1>1, AppendProperties
<1>3. IsList(Append(s, e))
  BY <1>2, ListOf
<1> HIDE DEF S
<1>4. QED
  BY <1>1, <1>3, AppendProperties

\* The lists the operators of the model write out, by their length.
LEMMA ListEmpty == IsList(<<>>) /\ Len(<<>>) = 0
<1>1. <<>> \in Seq({}) /\ Len(<<>>) = 0
  BY EmptySeq
<1>2. QED
  BY <1>1, ListOf

\* One element,
LEMMA ListOne ==
  ASSUME NEW a, NEW s, s = <<a>>
  PROVE  IsList(s) /\ Len(s) = 1 /\ s[1] = a
<1>1. s \in Seq({a}) /\ Len(s) = 1 /\ s[1] = a
  OBVIOUS
<1>2. QED
  BY <1>1, ListOf

\* two,
LEMMA ListTwo ==
  ASSUME NEW a, NEW b, NEW s, s = <<a, b>>
  PROVE  IsList(s) /\ Len(s) = 2 /\ s[1] = a /\ s[2] = b
<1>1. s \in Seq({a, b}) /\ Len(s) = 2 /\ s[1] = a /\ s[2] = b
  OBVIOUS
<1>2. QED
  BY <1>1, ListOf

\* and four.
LEMMA ListFour ==
  ASSUME NEW a, NEW b, NEW c, NEW d, NEW s, s = <<a, b, c, d>>
  PROVE  IsList(s) /\ Len(s) = 4 /\ s[1] = a /\ s[2] = b /\ s[3] = c /\ s[4] = d
<1>1. s \in Seq({a, b, c, d}) /\ Len(s) = 4 /\ s[1] = a /\ s[2] = b /\ s[3] = c /\ s[4] = d
  OBVIOUS
<1>2. QED
  BY <1>1, ListOf

\* The image of a finite set is finite.
LEMMA FiniteImage ==
  ASSUME NEW S, IsFiniteSet(S), NEW f, f = [x \in S |-> f[x]], NEW T, T = {f[x] : x \in S}
  PROVE  IsFiniteSet(T)
<1>1. f \in Surjection(S, T)
  BY DEF Surjection
<1>2. QED
  BY <1>1, FS_Surjection

\* What is in a list is finite.
LEMMA ListIsFinite ==
  ASSUME NEW s, IsList(s)
  PROVE  IsFiniteSet(ToSet(s))
<1>1. Len(s) \in Nat /\ s \in [1..Len(s) -> ToSet(s)] /\ DOMAIN s = 1..Len(s)
  BY LenProperties DEF IsList
<1>2. IsFiniteSet(1..Len(s))
  BY <1>1, FS_Interval
<1>3. s = [x \in 1..Len(s) |-> s[x]] /\ ToSet(s) = {s[x] : x \in 1..Len(s)}
  BY <1>1 DEF ToSet
<1>4. QED
  BY <1>2, <1>3, FiniteImage

\* SetToSeq lists the members of a finite set.
LEMMA SetToSeqLists ==
  ASSUME NEW S, IsFiniteSet(S)
  PROVE  /\ IsList(SetToSeq(S)) /\ DOMAIN SetToSeq(S) = 1..Cardinality(S)
         /\ Cardinality(S) \in Nat
         /\ \A i \in 1..Cardinality(S) : SetToSeq(S)[i] \in S
         /\ \A x \in S : \E i \in 1..Cardinality(S) : SetToSeq(S)[i] = x
<1> DEFINE n == Cardinality(S)
<1>1. n \in Nat /\ ExistsBijection(1..n, S)
  BY FS_CardinalityType
<1>2. PICK g \in [1..n -> S] : IsInjective(g)
  BY <1>1 DEF ExistsBijection, Bijection, Injection
<1>3. SetToSeq(S) \in [1..n -> S] /\ IsInjective(SetToSeq(S))
  BY <1>2 DEF SetToSeq
<1>4. SetToSeq(S) \in Injection(1..n, S)
  BY <1>3 DEF Injection
<1>5. IsFiniteSet(1..n) /\ Cardinality(1..n) = n
  BY <1>1, FS_Interval
<1>6. SetToSeq(S) \in Surjection(1..n, S)
  BY <1>4, <1>5, FS_Injection
<1>7. IsList(SetToSeq(S)) /\ DOMAIN SetToSeq(S) = 1..n
  BY <1>1, <1>3, ListBy
<1> HIDE DEF n
<1>8. (\A i \in 1..n : SetToSeq(S)[i] \in S) /\ (\A x \in S : \E i \in 1..n : SetToSeq(S)[i] = x)
  BY <1>3, <1>6 DEF Surjection
<1>9. QED
  BY <1>1, <1>7, <1>8 DEF n

-----------------------------------------------------------------------------
(* Loops *)

\* A set of numbers that has a member has a least one: induction without an
\* operator as a parameter.
LEMMA Least ==
  ASSUME NEW T, T \subseteq Nat, T # {}
  PROVE  \E n \in T : \A m \in T : n <= m
<1>1. PICK n \in T : \A m \in T : ~ (<<m, n>> \in OpToRel(<, Nat))
  BY NatLessThanWellFounded, WFMin
<1>2. \A m \in T : ~ (m < n)
  BY <1>1 DEF OpToRel
<1>3. QED
  BY <1>2

\* A loop over 1..N computes a value for each number.
Computes(f, N, v, step) == f[0] = v /\ \A n \in 1..N : f[n] = step[n][f[n - 1]]

\* ... that exists: what a recursive function over 0..N is chosen from.
LEMMA Iteration ==
  ASSUME NEW N \in Nat, NEW V, NEW v \in V, NEW step \in [1..N -> [V -> V]]
  PROVE  \E f \in [0..N -> V] : Computes(f, N, v, step)
<1> DEFINE Up(f, m) == f[0] = v /\ \A n \in 1..m : f[n] = step[n][f[n - 1]]
           Gets(m) == \E f \in [0..m -> V] : Up(f, m)
           Stuck == {m \in Nat : m <= N /\ ~ Gets(m)}
<1>1. ASSUME Stuck # {} PROVE FALSE
  <2>1. PICK m \in Stuck : \A l \in Stuck : m <= l
    BY <1>1, Least
  <2> HIDE DEF Gets
  <2>2. m # 0
    <3> DEFINE f == [n \in 0..0 |-> v]
    <3>1. f \in [0..0 -> V] /\ f[0] = v /\ 1..0 = {}
      OBVIOUS
    <3>2. Up(f, 0)
      BY <3>1
    <3>3. QED
      BY <2>1, <3>1, <3>2 DEF Gets
  <2>3. m - 1 \in Nat /\ m - 1 <= N /\ m - 1 \notin Stuck
    BY <2>1, <2>2
  <2>4. PICK f \in [0..m - 1 -> V] : Up(f, m - 1)
    BY <2>3 DEF Gets
  <2> DEFINE g == [n \in 0..m |-> IF n = m THEN step[m][f[m - 1]] ELSE f[n]]
  <2>5. g \in [0..m -> V]
    <3>1. m \in 1..N /\ step[m] \in [V -> V] /\ f[m - 1] \in V
      BY <2>1, <2>2, <2>3, <2>4
    <3>2. QED
      BY <3>1
  <2>6. Up(g, m)
    <3>1. g[0] = v
      BY <2>1, <2>2, <2>4
    <3>2. ASSUME NEW n \in 1..m PROVE g[n] = step[n][g[n - 1]]
      <4>1. CASE n = m
        BY <2>1, <2>2, <4>1
      <4>2. CASE n # m
        BY <2>1, <2>2, <2>4, <4>2
      <4>3. QED
        BY <4>1, <4>2
    <3>3. QED
      BY <3>1, <3>2
  <2>7. QED
    BY <2>1, <2>5, <2>6 DEF Gets
<1>2. Gets(N)
  <2> HIDE DEF Gets
  <2>1. QED
    BY <1>1
<1>3. QED
  BY <1>2 DEF Computes

\* The loop of Kept, ...
Keeps(kept, s, S, T) ==
    /\ kept \in [0..Len(s) -> Seq(S \cap T)]
    /\ kept[0] = <<>> /\ kept[Len(s)] = Kept(s, T)
    /\ \A n \in 1..Len(s) :
          kept[n] = IF s[n] \in T THEN Append(kept[n - 1], s[n]) ELSE kept[n - 1]

\* ... and that it is one.
LEMMA KeptLoop ==
  ASSUME NEW S, NEW s \in Seq(S), NEW T
  PROVE  \E kept : Keeps(kept, s, S, T)
<1> DEFINE N == Len(s)
           V == Seq(S \cap T)
           kept[n \in 0..Len(s)] ==
             IF n = 0 THEN <<>>
             ELSE IF s[n] \in T THEN Append(kept[n - 1], s[n]) ELSE kept[n - 1]
           Loop(f) == f = [n \in 0..Len(s) |->
                             IF n = 0 THEN <<>>
                             ELSE IF s[n] \in T THEN Append(f[n - 1], s[n]) ELSE f[n - 1]]
           step == [n \in 1..N |-> [v \in V |-> IF s[n] \in T THEN Append(v, s[n]) ELSE v]]
<1>1. N \in Nat /\ (\A n \in 1..N : s[n] \in S) /\ <<>> \in V
  BY LenProperties, ElementOfSeq, EmptySeq
<1>2. \A n \in 1..N, v \in V : (IF s[n] \in T THEN Append(v, s[n]) ELSE v) \in V
  BY <1>1, AppendProperties
<1>3. step \in [1..N -> [V -> V]]
  BY <1>2
<1>4. PICK f \in [0..N -> V] : Computes(f, N, <<>>, step)
  <2> HIDE DEF N, V, step
  <2>1. QED
    BY <1>1, <1>3, Iteration, Zenon
<1>5. Loop(f)
  <2>1. DOMAIN f = 0..N /\ f = [n \in 0..N |-> f[n]] /\ f[0] = <<>>
    BY <1>1, <1>4 DEF Computes
  <2>2. ASSUME NEW n \in 1..N
        PROVE  f[n] = IF s[n] \in T THEN Append(f[n - 1], s[n]) ELSE f[n - 1]
    <3> HIDE DEF V
    <3>1. n - 1 \in 0..N
      BY <1>1
    <3>2. f[n - 1] \in V
      BY <1>4, <3>1
    <3>3. f[n] = step[n][f[n - 1]]
      BY <1>4 DEF Computes
    <3>4. step[n] = [v \in V |-> IF s[n] \in T THEN Append(v, s[n]) ELSE v]
      BY DEF step
    <3>5. QED
      BY <3>2, <3>3, <3>4
  <2> DEFINE body(n) == IF n = 0 THEN <<>>
                        ELSE IF s[n] \in T THEN Append(f[n - 1], s[n]) ELSE f[n - 1]
  <2>3. ASSUME NEW n \in 0..N PROVE f[n] = body(n)
    <3>1. CASE n = 0
      BY <2>1, <3>1
    <3>2. CASE n # 0
      <4>1. n \in 1..N
        BY <1>1, <3>2
      <4>2. QED
        BY <2>2, <3>2, <4>1
    <3>3. QED
      BY <3>1, <3>2
  <2> HIDE DEF body
  <2>4. f = [n \in 0..N |-> body(n)]
    BY <2>1, <2>3
  <2>5. QED
    BY <2>4 DEF body
<1>6. kept = CHOOSE g : Loop(g)
  OBVIOUS
<1> HIDE DEF kept, step
<1>7. Loop(kept)
  <2> HIDE DEF Loop
  <2>1. QED
    BY <1>5, <1>6, Zenon
<1>8. ASSUME NEW n \in 1..N
      PROVE  kept[n] = IF s[n] \in T THEN Append(kept[n - 1], s[n]) ELSE kept[n - 1]
  <2>1. n \in 0..N /\ n # 0
    BY <1>1, <1>8
  <2>2. QED
    BY <1>7, <2>1
<1>9. kept[0] = <<>> /\ DOMAIN kept = 0..N /\ kept = [n \in 0..N |-> kept[n]]
  BY <1>1, <1>7
<1> DEFINE Wrong == {n \in Nat : n <= N /\ kept[n] \notin V}
<1>10. ASSUME Wrong # {} PROVE FALSE
  <2>1. PICK m \in Wrong : \A l \in Wrong : m <= l
    BY <1>10, Least
  <2>2. m # 0
    BY <1>1, <1>9, <2>1
  <2>3. m \in 1..N /\ m - 1 \in Nat /\ m - 1 <= N /\ m - 1 \notin Wrong
    BY <1>1, <2>1, <2>2
  <2>4. kept[m - 1] \in V
    BY <2>3
  <2>5. QED
    BY <1>2, <1>8, <2>1, <2>3, <2>4
<1>11. kept \in [0..N -> V]
  <2>1. \A n \in 0..N : n \in Nat /\ n <= N
    BY <1>1
  <2>2. \A n \in 0..N : kept[n] \in V
    BY <1>10, <2>1
  <2>3. QED
    BY <1>9, <2>2
<1>12. kept[N] = Kept(s, T)
  BY DEF Kept, kept
<1>13. Keeps(kept, s, S, T)
  BY <1>8, <1>9, <1>11, <1>12 DEF Keeps
<1>14. QED
  BY <1>13

\* What is kept of a list is a list of its elements that are in T, ...
LEMMA KeptList ==
  ASSUME NEW S, NEW s \in Seq(S), NEW T
  PROVE  Kept(s, T) \in Seq(S \cap T)
<1>1. PICK kept : Keeps(kept, s, S, T)
  BY KeptLoop
<1>2. Len(s) \in 0..Len(s)
  BY LenProperties
<1>3. QED
  BY <1>1, <1>2 DEF Keeps

\* ... all of them.
LEMMA KeptAll ==
  ASSUME NEW S, NEW s \in Seq(S), NEW T, NEW x \in ToSet(s) \cap T
  PROVE  x \in ToSet(Kept(s, T))
<1> DEFINE N == Len(s)
<1>1. PICK kept : Keeps(kept, s, S, T)
  BY KeptLoop
<1>2. N \in Nat /\ \E i \in 1..N : s[i] = x
  BY LenProperties DEF ToSet
<1>3. PICK i \in 1..N : s[i] = x
  BY <1>2
<1> HIDE DEF N
<1>4. ASSUME NEW n \in 1..N
      PROVE  /\ n - 1 \in 0..N /\ kept[n] \in Seq(S \cap T) /\ kept[n - 1] \in Seq(S \cap T)
             /\ kept[n] = IF s[n] \in T THEN Append(kept[n - 1], s[n]) ELSE kept[n - 1]
             /\ s[n] \in S
  <2> DEFINE V == Seq(S \cap T)
  <2>1. /\ kept \in [0..N -> V]
        /\ \A l \in 1..N :
              kept[l] = IF s[l] \in T THEN Append(kept[l - 1], s[l]) ELSE kept[l - 1]
    BY <1>1 DEF N, Keeps
  <2> HIDE DEF V
  <2>2. n - 1 \in 0..N /\ n \in 0..N
    BY <1>2
  <2>3. kept[n] \in V /\ kept[n - 1] \in V
    BY <2>1, <2>2
  <2>4. s[n] \in S
    BY ElementOfSeq DEF N
  <2>5. QED
    BY <2>1, <2>2, <2>3, <2>4 DEF V
<1> DEFINE Wrong == {n \in Nat : i <= n /\ n <= N /\ x \notin ToSet(kept[n])}
<1>5. ASSUME Wrong # {} PROVE FALSE
  <2>1. PICK m \in Wrong : \A l \in Wrong : m <= l
    BY <1>5, Least
  <2>2. m \in 1..N /\ m - 1 \in Nat /\ m - 1 \notin Wrong /\ x \notin ToSet(kept[m])
    BY <1>2, <2>1
  <2> DEFINE before == kept[m - 1]
  <2>3. before \in Seq(S \cap T) /\ kept[m] \in {before, Append(before, s[m])}
        /\ (s[m] \in T => kept[m] = Append(before, s[m])) /\ s[m] \in S
    BY <1>4, <2>2
  <2>4. m = i \/ x \in ToSet(before)
    BY <1>2, <2>1, <2>2
  <2> HIDE DEF before
  <2>5. CASE s[m] \in T
    <3>1. /\ Len(before) \in Nat /\ Len(Append(before, s[m])) = Len(before) + 1
          /\ Append(before, s[m])[Len(before) + 1] = s[m]
          /\ \A j \in 1..Len(before) : Append(before, s[m])[j] = before[j]
          /\ DOMAIN before = 1..Len(before)
          /\ DOMAIN Append(before, s[m]) = 1..(Len(before) + 1)
      BY <2>3, <2>5, AppendProperties, LenProperties
    <3>2. x \in ToSet(Append(before, s[m]))
      BY <1>3, <2>4, <3>1 DEF ToSet
    <3>3. QED
      BY <2>2, <2>3, <2>5, <3>2
  <2>6. CASE s[m] \notin T
    <3>1. x \in ToSet(before)
      BY <1>3, <2>4, <2>6
    <3>2. kept[m] = before
      BY <1>4, <2>2, <2>6 DEF before
    <3>3. QED
      BY <2>2, <3>1, <3>2
  <2>7. QED
    BY <2>5, <2>6
<1>6. x \in ToSet(kept[N])
  BY <1>2, <1>3, <1>5
<1>7. QED
  BY <1>1, <1>6 DEF N, Keeps

-----------------------------------------------------------------------------

\* What is kept of a list is a list of its elements.
LEMMA KeptLists ==
  ASSUME NEW s, IsList(s), NEW T
  PROVE  IsList(Kept(s, T)) /\ ToSet(Kept(s, T)) \subseteq ToSet(s) \cap T
<1>1. Kept(s, T) \in Seq(ToSet(s) \cap T)
  BY KeptList DEF IsList
<1>2. \A i \in 1..Len(Kept(s, T)) : Kept(s, T)[i] \in ToSet(s) \cap T
  BY <1>1, ElementOfSeq
<1>3. IsList(Kept(s, T)) /\ DOMAIN Kept(s, T) = 1..Len(Kept(s, T))
  BY <1>1, ListOf
<1>4. QED
  BY <1>2, <1>3 DEF ToSet

\* What is computed place by place from a list.
LEMMA MapLists ==
  ASSUME NEW s, IsList(s), NEW t, t = [i \in DOMAIN s |-> t[i]]
  PROVE  IsList(t) /\ Len(t) = Len(s) /\ DOMAIN t = DOMAIN s
<1>1. Len(s) \in Nat /\ DOMAIN s = 1..Len(s)
  BY ListFacts
<1>2. QED
  BY <1>1, ListMap

\* The places of a list are as many as it is long.
LEMMA IntervalSize ==
  ASSUME NEW n \in Nat
  PROVE  IsFiniteSet(1..n) /\ Cardinality(1..n) = n
<1>1. n = 0 \/ 1 <= n
  OBVIOUS
<1>2. QED
  BY <1>1, FS_Interval, Z3

\* The largest of some places.
LEMMA Greatest ==
  ASSUME NEW n \in Nat, NEW T, T \subseteq 1..n, T # {}
  PROVE  Max(T) \in T /\ \A x \in T : x <= Max(T)
<1> DEFINE D == {n - x : x \in T}
<1>1. D \subseteq Nat /\ D # {}
  <2>1. PICK x \in T : TRUE
    OBVIOUS
  <2>2. n - x \in D
    BY <2>1
  <2>3. D \subseteq Nat
    OBVIOUS
  <2>4. QED
    BY <2>2, <2>3
<1>2. PICK d \in D : \A e \in D : d <= e
  <2> HIDE DEF D
  <2>1. QED
    BY <1>1, Least
<1>3. PICK m \in T : d = n - m
  BY <1>2
<1>4. \A x \in T : n - m <= n - x
  BY <1>2, <1>3
<1>5. \A x \in T : m >= x
  BY <1>4
<1>6. Max(T) \in T /\ \A x \in T : Max(T) >= x
  BY <1>5 DEF Max
<1>7. QED
  BY <1>6

\* ... and so does the reversal.
LEMMA ReverseLists ==
  ASSUME NEW s, IsList(s)
  PROVE  IsList(Reverse(s))
<1> DEFINE t == Reverse(s)
<1>1. t = [i \in 1..Len(s) |-> s[(Len(s) - i) + 1]] /\ Len(s) \in Nat
  BY ListFacts DEF Reverse
<1> HIDE DEF t
<1>2. t = [i \in 1..Len(s) |-> t[i]]
  BY <1>1
<1>3. QED
  BY <1>1, <1>2, ListMap DEF t

-----------------------------------------------------------------------------
\* Lists in the order of keys.

\* Keys of one length are compared in a strict order, which is total.
LEMMA KeyOrder ==
  ASSUME NEW n \in Nat, NEW k \in [1..n -> Int], NEW l \in [1..n -> Int], NEW m \in [1..n -> Int]
  PROVE  /\ ~ KeyBefore(k, k)
         /\ KeyBefore(k, l) /\ KeyBefore(l, m) => KeyBefore(k, m)
         /\ k # l => KeyBefore(k, l) \/ KeyBefore(l, k)
<1>1. DOMAIN k = 1..n /\ DOMAIN l = 1..n
  OBVIOUS
<1>2. ~ KeyBefore(k, k)
  BY <1>1 DEF KeyBefore
<1>3. ASSUME KeyBefore(k, l), KeyBefore(l, m) PROVE KeyBefore(k, m)
  <2>1. PICK i \in 1..n : k[i] < l[i] /\ \A j \in 1..(i - 1) : k[j] = l[j]
    BY <1>1, <1>3 DEF KeyBefore
  <2>2. PICK j \in 1..n : l[j] < m[j] /\ \A h \in 1..(j - 1) : l[h] = m[h]
    BY <1>1, <1>3 DEF KeyBefore
  <2>3. CASE i <= j
    <3>1. k[i] < m[i] /\ \A h \in 1..(i - 1) : k[h] = m[h]
      <4>1. l[i] <= m[i]
        <5>1. i = j \/ i \in 1..(j - 1)
          BY <2>3
        <5>2. l[i] < m[i] \/ l[i] = m[i]
          BY <2>2, <5>1
        <5>3. QED
          BY <5>2
      <4>2. k[i] < m[i]
        BY <2>1, <4>1
      <4>3. QED
        BY <2>1, <2>2, <2>3, <4>2
    <3>2. QED
      BY <1>1, <2>1, <3>1 DEF KeyBefore
  <2>4. CASE j < i
    <3>1. k[j] < m[j] /\ \A h \in 1..(j - 1) : k[h] = m[h]
      BY <2>1, <2>2, <2>4
    <3>2. QED
      BY <1>1, <2>2, <3>1 DEF KeyBefore
  <2>5. QED
    BY <2>1, <2>2, <2>3, <2>4
<1>4. ASSUME k # l PROVE KeyBefore(k, l) \/ KeyBefore(l, k)
  <2> DEFINE Differ == {i \in 1..n : k[i] # l[i]}
  <2>1. Differ # {} /\ Differ \subseteq Nat
    <3>1. ASSUME \A i \in 1..n : k[i] = l[i] PROVE FALSE
      <4>1. k = l
        BY <3>1
      <4>2. QED
        BY <1>4, <4>1
    <3>2. \E i \in 1..n : k[i] # l[i]
      BY <3>1
    <3>3. PICK i \in 1..n : k[i] # l[i]
      BY <3>2
    <3>4. i \in Differ
      BY <3>3
    <3>5. Differ \subseteq Nat
      OBVIOUS
    <3> HIDE DEF Differ
    <3>6. QED
      BY <3>4, <3>5
  <2>2. PICK i \in Differ : \A j \in Differ : i <= j
    <3> HIDE DEF Differ
    <3>1. QED
      BY <2>1, Least
  <2>3. \A j \in 1..(i - 1) : k[j] = l[j]
    BY <2>2
  <2>4. k[i] < l[i] \/ l[i] < k[i]
    BY <2>2
  <2>5. QED
    BY <1>1, <2>2, <2>3, <2>4 DEF KeyBefore
<1>5. QED
  BY <1>2, <1>3, <1>4

\* Whatever the keys are, a finite set gives a list of its size.
LEMMA InOrderLists ==
  ASSUME NEW S, IsFiniteSet(S), NEW key
  PROVE  /\ IsList(InOrder(S, key)) /\ Len(InOrder(S, key)) = Cardinality(S)
         /\ DOMAIN InOrder(S, key) = 1..Cardinality(S) /\ Cardinality(S) \in Nat
<1> DEFINE places == {<<Cardinality({y \in S : KeyBefore(key[y], key[x])}) + 1, x>> : x \in S}
           place(i) == (CHOOSE p \in places : p[1] = i)[2]
<1>1. Cardinality(S) \in Nat
  BY FS_CardinalityType
<1>2. InOrder(S, key) = [i \in 1..Cardinality(S) |-> place(i)]
  BY DEF InOrder
<1> HIDE DEF place
<1>3. InOrder(S, key) = [i \in 1..Cardinality(S) |-> InOrder(S, key)[i]]
  BY <1>2
<1>4. QED
  BY <1>1, <1>3, ListMap

\* What InOrder makes of a set: each member once, in the order of the keys.
IsOrderOf(list, S, key) ==
    /\ list \in [1..Cardinality(S) -> S] /\ Cardinality(S) \in Nat
    /\ IsInjective(list)
    /\ ToSet(list) = S
    /\ \A i, j \in 1..Cardinality(S) : i < j => KeyBefore(key[list[i]], key[list[j]])

\* Keys that tell the members of a set apart.
Distinguishes(key, S) ==
    /\ \E n \in Nat : \A x \in S : key[x] \in [1..n -> Int]
    /\ \A x, y \in S : key[x] = key[y] => x = y

\* InOrder is the list of a finite set in the order of its keys, if they differ.
LEMMA InOrderSorts ==
  ASSUME NEW S, IsFiniteSet(S), NEW key, Distinguishes(key, S)
  PROVE  IsOrderOf(InOrder(S, key), S, key)
<1> DEFINE N == Cardinality(S)
           Below(x) == {y \in S : KeyBefore(key[y], key[x])}
           rank == [x \in S |-> Cardinality(Below(x)) + 1]
           places == {<<Cardinality({y \in S : KeyBefore(key[y], key[x])}) + 1, x>> : x \in S}
           place(i) == (CHOOSE p \in places : p[1] = i)[2]
<1>1. N \in Nat
  BY FS_CardinalityType
<1>2. PICK n \in Nat : \A x \in S : key[x] \in [1..n -> Int]
  BY DEF Distinguishes
<1>3. \A x \in S : ~ KeyBefore(key[x], key[x])
  BY <1>2, KeyOrder
<1>4. \A x, y, z \in S : KeyBefore(key[x], key[y]) /\ KeyBefore(key[y], key[z]) => KeyBefore(key[x], key[z])
  BY <1>2, KeyOrder
<1>5. \A x, y \in S : x # y => KeyBefore(key[x], key[y]) \/ KeyBefore(key[y], key[x])
  BY <1>2, KeyOrder DEF Distinguishes
<1>6. ASSUME NEW x \in S PROVE IsFiniteSet(Below(x)) /\ Cardinality(Below(x)) \in Nat
  <2>1. Below(x) \in SUBSET S
    OBVIOUS
  <2>2. QED
    BY <2>1, FS_Subset, FS_CardinalityType
<1>7. ASSUME NEW x \in S, NEW y \in S, KeyBefore(key[x], key[y]) PROVE rank[x] < rank[y]
  <2>1. Below(x) \in SUBSET Below(y) /\ x \in Below(y) /\ x \notin Below(x)
    BY <1>3, <1>4, <1>7
  <2>2. Cardinality(Below(x)) <= Cardinality(Below(y)) /\ Cardinality(Below(x)) # Cardinality(Below(y))
    <3> HIDE DEF Below
    <3>1. QED
      BY <1>6, <2>1, FS_Subset
  <2> HIDE DEF Below
  <2>3. QED
    BY <1>6, <2>2
<1>8. ASSUME NEW x \in S PROVE rank[x] \in 1..N
  <2>1. Below(x) \in SUBSET S /\ x \in S /\ x \notin Below(x)
    BY <1>3
  <2>2. Cardinality(Below(x)) <= N /\ Cardinality(Below(x)) # N
    <3> HIDE DEF Below
    <3>1. QED
      BY <2>1, FS_Subset
  <2> HIDE DEF Below, N
  <2>3. QED
    BY <1>1, <1>6, <2>2
<1> HIDE DEF N
<1>9. rank \in Injection(S, 1..N)
  <2>1. rank \in [S -> 1..N]
    BY <1>8
  <2>2. ASSUME NEW x \in S, NEW y \in S, rank[x] = rank[y] PROVE x = y
    <3> HIDE DEF rank
    <3>1. rank[x] \in Int /\ rank[y] \in Int
      BY <1>1, <1>8
    <3>2. QED
      BY <1>5, <1>7, <2>2, <3>1
  <2> HIDE DEF rank
  <2>3. QED
    BY <2>1, <2>2 DEF Injection, IsInjective
<1>10. rank \in Surjection(S, 1..N)
  <2>1. IsFiniteSet(1..N) /\ Cardinality(1..N) = N
    BY <1>1, FS_Interval
  <2> HIDE DEF rank
  <2>2. QED
    BY <1>9, <2>1, FS_Injection DEF N
<1>11. InOrder(S, key) = [i \in 1..N |-> place(i)]
  BY DEF InOrder, N
<1>12. ASSUME NEW i \in 1..N PROVE place(i) \in S /\ rank[place(i)] = i
  <2>1. PICK x \in S : rank[x] = i
    <3> HIDE DEF rank
    <3>1. QED
      BY <1>10 DEF Surjection
  <2>2. <<i, x>> \in places
    BY <2>1
  <2>3. \E p \in places : p[1] = i
    <3> HIDE DEF places
    <3>1. <<i, x>>[1] = i
      OBVIOUS
    <3>2. QED
      BY <2>2, <3>1
  <2> DEFINE p == CHOOSE p \in places : p[1] = i
  <2>10. p \in places /\ p[1] = i
    <3> HIDE DEF places
    <3>1. QED
      BY <2>3
  <2>4. PICK y \in S : p = <<rank[y], y>>
    BY <2>10
  <2> HIDE DEF p, rank
  <2>5. p[2] = y /\ rank[y] = i
    BY <2>4, <2>10
  <2>6. place(i) = p[2]
    BY DEF p
  <2>7. QED
    BY <2>5, <2>6
<1> DEFINE list == InOrder(S, key)
<1>13. /\ list \in [1..N -> S] /\ \A i \in 1..N : rank[list[i]] = i
  <2> HIDE DEF place, rank
  <2>1. QED
    BY <1>11, <1>12
<1> HIDE DEF list, rank
<1>14. IsInjective(list)
  BY <1>13 DEF IsInjective
<1>15. ToSet(list) = S
  <2>1. ASSUME NEW x \in S PROVE \E i \in 1..N : list[i] = x
    <3>1. rank[x] \in 1..N
      BY <1>8
    <3>2. list[rank[x]] \in S /\ rank[list[rank[x]]] = rank[x]
      BY <1>13, <3>1
    <3>3. list[rank[x]] = x
      BY <1>9, <3>2 DEF Injection, IsInjective
    <3>4. QED
      BY <3>1, <3>3
  <2>2. QED
    BY <1>13, <2>1 DEF ToSet
<1>16. ASSUME NEW i \in 1..N, NEW j \in 1..N, i < j PROVE KeyBefore(key[list[i]], key[list[j]])
  <2>1. list[i] \in S /\ list[j] \in S /\ rank[list[i]] = i /\ rank[list[j]] = j
    BY <1>13
  <2>2. list[i] # list[j] /\ ~ KeyBefore(key[list[j]], key[list[i]])
    BY <1>7, <1>16, <2>1
  <2>3. QED
    BY <1>5, <2>1, <2>2
<1>17. QED
  BY <1>1, <1>13, <1>14, <1>15, <1>16 DEF IsOrderOf, list, N

-----------------------------------------------------------------------------
\* Lists without repetitions.

\* Induction up to N, for the members of a set.
LEMMA Upward ==
  ASSUME NEW N \in Nat, NEW T, 0 \in T, \A n \in 1..N : n - 1 \in T => n \in T
  PROVE  \A n \in 0..N : n \in T
<1> DEFINE Wrong == {n \in Nat : n <= N /\ n \notin T}
<1>1. ASSUME Wrong # {} PROVE FALSE
  <2>1. PICK n \in Wrong : \A m \in Wrong : n <= m
    BY <1>1, Least
  <2>2. n \in 1..N /\ n - 1 \in Nat /\ n - 1 <= N /\ n - 1 \notin Wrong
    BY <2>1
  <2>3. QED
    BY <2>1, <2>2
<1>2. QED
  BY <1>1

\* The loop of Distinct, ...
Dedupes(firsts, s, S) ==
    /\ firsts \in [0..Len(s) -> Seq(S)]
    /\ firsts[0] = <<>> /\ firsts[Len(s)] = Distinct(s)
    /\ \A n \in 1..Len(s) :
          firsts[n] = IF s[n] \in ToSet(firsts[n - 1]) THEN firsts[n - 1]
                      ELSE Append(firsts[n - 1], s[n])

\* ... and that it is one.
LEMMA DistinctLoop ==
  ASSUME NEW S, NEW s \in Seq(S)
  PROVE  \E firsts : Dedupes(firsts, s, S)
<1> DEFINE N == Len(s)
           V == Seq(S)
           firsts[n \in 0..Len(s)] ==
             IF n = 0 THEN <<>>
             ELSE IF s[n] \in ToSet(firsts[n - 1]) THEN firsts[n - 1]
                  ELSE Append(firsts[n - 1], s[n])
           Loop(f) == f = [n \in 0..Len(s) |->
                             IF n = 0 THEN <<>>
                             ELSE IF s[n] \in ToSet(f[n - 1]) THEN f[n - 1]
                                  ELSE Append(f[n - 1], s[n])]
           step == [n \in 1..N |-> [v \in V |-> IF s[n] \in ToSet(v) THEN v ELSE Append(v, s[n])]]
<1>1. N \in Nat /\ (\A n \in 1..N : s[n] \in S) /\ <<>> \in V
  BY LenProperties, ElementOfSeq, EmptySeq
<1>2. \A n \in 1..N, v \in V : (IF s[n] \in ToSet(v) THEN v ELSE Append(v, s[n])) \in V
  BY <1>1, AppendProperties
<1>3. step \in [1..N -> [V -> V]]
  BY <1>2
<1>4. PICK f \in [0..N -> V] : Computes(f, N, <<>>, step)
  <2> HIDE DEF N, V, step
  <2>1. QED
    BY <1>1, <1>3, Iteration, Zenon
<1>5. Loop(f)
  <2> DEFINE body(n) == IF n = 0 THEN <<>>
                        ELSE IF s[n] \in ToSet(f[n - 1]) THEN f[n - 1]
                             ELSE Append(f[n - 1], s[n])
  <2>1. f[0] = <<>>
    BY <1>4 DEF Computes
  <2>2. ASSUME NEW n \in 1..N PROVE f[n] = body(n)
    <3> HIDE DEF V
    <3>1. n - 1 \in 0..N /\ n # 0
      BY <1>1
    <3>2. f[n - 1] \in V
      BY <1>4, <3>1
    <3>3. f[n] = step[n][f[n - 1]]
      BY <1>4 DEF Computes
    <3>4. step[n] = [v \in V |-> IF s[n] \in ToSet(v) THEN v ELSE Append(v, s[n])]
      BY DEF step
    <3>5. QED
      BY <3>1, <3>2, <3>3, <3>4
  <2>3. \A n \in 0..N : f[n] = body(n)
    <3>1. \A n \in 0..N : n = 0 \/ n \in 1..N
      BY <1>1
    <3>2. f[0] = body(0)
      BY <2>1
    <3> HIDE DEF body
    <3>3. QED
      BY <2>2, <3>1, <3>2
  <2> HIDE DEF body
  <2>4. f = [n \in 0..N |-> body(n)]
    BY <1>4, <2>3
  <2>5. QED
    BY <2>4 DEF body
<1>6. firsts = CHOOSE g : Loop(g)
  OBVIOUS
<1> HIDE DEF firsts, step
<1>7. Loop(firsts)
  <2> HIDE DEF Loop
  <2>1. QED
    BY <1>5, <1>6, Zenon
<1>8. ASSUME NEW n \in 1..N
      PROVE  firsts[n] = IF s[n] \in ToSet(firsts[n - 1]) THEN firsts[n - 1]
                         ELSE Append(firsts[n - 1], s[n])
  <2>1. n \in 0..N /\ n # 0
    BY <1>1
  <2>2. QED
    BY <1>7, <2>1
<1>9. firsts[0] = <<>> /\ DOMAIN firsts = 0..N /\ firsts = [n \in 0..N |-> firsts[n]]
  BY <1>1, <1>7
<1>10. firsts \in [0..N -> V]
  <2> DEFINE T == {n \in Int : firsts[n] \in V}
  <2> HIDE DEF V
  <2>1. 0 \in T
    BY <1>1, <1>9
  <2>2. ASSUME NEW n \in 1..N, n - 1 \in T PROVE n \in T
    <3>1. firsts[n - 1] \in V /\ n \in Int
      BY <2>2
    <3>2. QED
      BY <1>2, <1>8, <3>1
  <2> HIDE DEF T
  <2>3. \A n \in 0..N : n \in T
    BY <1>1, <2>1, <2>2, Upward
  <2>4. QED
    BY <1>9, <2>3 DEF T
<1>11. firsts[N] = Distinct(s)
  BY DEF Distinct, firsts
<1>12. Dedupes(firsts, s, S)
  BY <1>8, <1>9, <1>10, <1>11 DEF Dedupes
<1>13. QED
  BY <1>12

\* Appending adds one element.
LEMMA AppendSet ==
  ASSUME NEW S, NEW s \in Seq(S), NEW x
  PROVE  ToSet(Append(s, x)) = ToSet(s) \cup {x}
<1>1. IsList(s) /\ Len(s) \in Nat /\ DOMAIN s = 1..Len(s)
  BY ListOf
<1>2. /\ IsList(Append(s, x)) /\ Len(Append(s, x)) = Len(s) + 1
      /\ Append(s, x)[Len(s) + 1] = x
      /\ \A i \in 1..Len(s) : Append(s, x)[i] = s[i]
  BY <1>1, ListAppend
<1>3. DOMAIN Append(s, x) = 1..(Len(s) + 1)
  BY <1>2, ListFacts
<1>4. ASSUME NEW i \in 1..(Len(s) + 1) PROVE Append(s, x)[i] \in ToSet(s) \cup {x}
  <2>1. CASE i = Len(s) + 1
    BY <1>2, <2>1
  <2>2. CASE i # Len(s) + 1
    <3>1. i \in 1..Len(s)
      BY <1>1, <2>2
    <3>2. QED
      BY <1>1, <1>2, <3>1 DEF ToSet
  <2>3. QED
    BY <2>1, <2>2
<1>5. ASSUME NEW i \in 1..Len(s) PROVE s[i] \in ToSet(Append(s, x))
  BY <1>1, <1>2, <1>3 DEF ToSet
<1>6. x \in ToSet(Append(s, x))
  BY <1>1, <1>2, <1>3 DEF ToSet
<1>7. QED
  BY <1>1, <1>3, <1>4, <1>5, <1>6 DEF ToSet

\* A list without repetitions stays one when something new is appended.
LEMMA AppendNew ==
  ASSUME NEW S, NEW s \in Seq(S), NEW x, IsInjective(s), x \notin ToSet(s)
  PROVE  IsInjective(Append(s, x))
<1>1. IsList(s) /\ Len(s) \in Nat /\ DOMAIN s = 1..Len(s)
  BY ListOf
<1>2. /\ IsList(Append(s, x)) /\ Len(Append(s, x)) = Len(s) + 1
      /\ Append(s, x)[Len(s) + 1] = x
      /\ \A i \in 1..Len(s) : Append(s, x)[i] = s[i]
  BY <1>1, ListAppend
<1>3. DOMAIN Append(s, x) = 1..(Len(s) + 1)
  BY <1>2, ListFacts
<1>4. \A i \in 1..Len(s) : s[i] # x
  BY <1>1 DEF ToSet
<1>5. \A i, j \in 1..Len(s) : s[i] = s[j] => i = j
  BY <1>1 DEF IsInjective
<1>6. ASSUME NEW i \in 1..(Len(s) + 1), NEW j \in 1..(Len(s) + 1),
             Append(s, x)[i] = Append(s, x)[j]
      PROVE  i = j
  <2>1. \A k \in 1..(Len(s) + 1) : k = Len(s) + 1 \/ k \in 1..Len(s)
    BY <1>1
  <2>2. QED
    BY <1>2, <1>4, <1>5, <1>6, <2>1
<1>7. QED
  BY <1>3, <1>6 DEF IsInjective

\* Distinct keeps every element of a list, once.
LEMMA DistinctList ==
  ASSUME NEW S, NEW s \in Seq(S)
  PROVE  /\ Distinct(s) \in Seq(S) /\ IsInjective(Distinct(s))
         /\ ToSet(Distinct(s)) = ToSet(s)
<1>1. PICK firsts : Dedupes(firsts, s, S)
  BY DistinctLoop
<1> DEFINE N == Len(s)
           Before(n) == {s[i] : i \in 1..n}
           T == {n \in Int : IsInjective(firsts[n]) /\ ToSet(firsts[n]) = Before(n)}
<1>2. N \in Nat /\ DOMAIN s = 1..N
  BY LenProperties
<1>3. 0 \in T
  <2>1. firsts[0] = <<>>
    BY <1>1 DEF Dedupes
  <2>2. DOMAIN firsts[0] = {}
    BY <2>1
  <2>3. 1..0 = {}
    OBVIOUS
  <2>4. QED
    BY <2>2, <2>3 DEF IsInjective, ToSet
<1>4. ASSUME NEW n \in 1..N, n - 1 \in T PROVE n \in T
  <2> DEFINE before == firsts[n - 1]
  <2>1. n - 1 \in 0..N
    BY <1>2
  <2>2. before \in Seq(S)
    BY <1>1, <2>1 DEF Dedupes
  <2>3. firsts[n] = IF s[n] \in ToSet(before) THEN before ELSE Append(before, s[n])
    BY <1>1 DEF Dedupes
  <2>4. IsInjective(before) /\ ToSet(before) = Before(n - 1)
    BY <1>4
  <2>5. Before(n) = Before(n - 1) \cup {s[n]}
    <3>1. 1..n = 1..(n - 1) \cup {n}
      BY <1>2
    <3>2. QED
      BY <3>1
  <2> HIDE DEF before, Before
  <2>6. IsInjective(firsts[n]) /\ ToSet(firsts[n]) = Before(n)
    <3>1. CASE s[n] \in ToSet(before)
      BY <2>3, <2>4, <2>5, <3>1
    <3>2. CASE s[n] \notin ToSet(before)
      <4>1. firsts[n] = Append(before, s[n])
        BY <2>3, <3>2
      <4>2. IsInjective(Append(before, s[n]))
        BY <2>2, <2>4, <3>2, AppendNew
      <4>3. ToSet(Append(before, s[n])) = ToSet(before) \cup {s[n]}
        BY <2>2, AppendSet
      <4>4. QED
        BY <2>4, <2>5, <4>1, <4>2, <4>3
    <3>3. QED
      BY <3>1, <3>2
  <2>7. QED
    BY <2>6
<1>5. N \in T
  <2> HIDE DEF T
  <2>1. \A n \in 0..N : n \in T
    BY <1>2, <1>3, <1>4, Upward
  <2>2. QED
    BY <1>2, <2>1
<1>6. Before(N) = ToSet(s)
  BY <1>2 DEF ToSet
<1>7. firsts[N] = Distinct(s) /\ firsts[N] \in Seq(S)
  BY <1>1, <1>2 DEF Dedupes
<1> HIDE DEF Before
<1>8. QED
  BY <1>5, <1>6, <1>7

\* Distinct gives a list, ...
LEMMA DistinctLists ==
  ASSUME NEW s, IsList(s)
  PROVE  /\ IsList(Distinct(s)) /\ ToSet(Distinct(s)) = ToSet(s)
         /\ IsInjective(Distinct(s))
<1>1. s \in Seq(ToSet(s))
  BY DEF IsList
<1>2. Distinct(s) \in Seq(ToSet(s)) /\ ToSet(Distinct(s)) = ToSet(s) /\ IsInjective(Distinct(s))
  BY <1>1, DistinctList
<1>3. QED
  BY <1>2, ListOf

\* ... so does Sorted, ...
LEMMA SortedLists ==
  ASSUME NEW s, IsList(s), NEW key
  PROVE  IsList(Sorted(s, key)) /\ Len(Sorted(s, key)) = Len(s)
<1> DEFINE order == InOrder(DOMAIN s, [i \in DOMAIN s |-> Append(key[i], i)])
           sorted == Sorted(s, key)
<1>1. Len(s) \in Nat /\ DOMAIN s = 1..Len(s)
  BY ListFacts
<1>2. IsFiniteSet(DOMAIN s) /\ Cardinality(DOMAIN s) = Len(s)
  <2>1. IsFiniteSet(1..Len(s)) /\ Cardinality(1..Len(s)) = Len(s)
    BY <1>1, IntervalSize
  <2>2. QED
    BY <1>1, <2>1
<1>3. DOMAIN order = 1..Len(s)
  BY <1>2, InOrderLists
<1>4. sorted = [i \in 1..Len(s) |-> s[order[i]]]
  <2>1. sorted = [i \in DOMAIN order |-> s[order[i]]]
    BY DEF Sorted
  <2> HIDE DEF order, sorted
  <2>2. QED
    BY <1>3, <2>1
<1> HIDE DEF order, sorted
<1>5. sorted = [i \in 1..Len(s) |-> sorted[i]]
  BY <1>4
<1>6. QED
  BY <1>1, <1>5, ListMap DEF sorted

\* The elements of two lists, one after the other.
LEMMA JoinSets ==
  ASSUME NEW s, NEW t, IsList(s), IsList(t)
  PROVE  IsList(s \o t) /\ ToSet(s \o t) = ToSet(s) \cup ToSet(t)
<1> DEFINE r == s \o t
<1>1. /\ Len(s) \in Nat /\ DOMAIN s = 1..Len(s) /\ Len(t) \in Nat /\ DOMAIN t = 1..Len(t)
  BY ListFacts
<1>2. /\ IsList(r) /\ Len(r) = Len(s) + Len(t)
      /\ \A i \in 1..(Len(s) + Len(t)) : r[i] = IF i <= Len(s) THEN s[i] ELSE t[i - Len(s)]
  BY ListJoin
<1> HIDE DEF r
<1>3. DOMAIN r = 1..(Len(s) + Len(t))
  BY <1>2, ListFacts
<1>4. \A i \in 1..Len(s) : i \in DOMAIN r /\ r[i] = s[i]
  BY <1>1, <1>2, <1>3
<1>5. \A i \in 1..Len(t) : i + Len(s) \in DOMAIN r /\ r[i + Len(s)] = t[i]
  BY <1>1, <1>2, <1>3
<1>6. \A i \in DOMAIN r : (\E j \in DOMAIN s : r[i] = s[j]) \/ (\E j \in DOMAIN t : r[i] = t[j])
  <2> SUFFICES ASSUME NEW i \in DOMAIN r
               PROVE  (\E j \in DOMAIN s : r[i] = s[j]) \/ (\E j \in DOMAIN t : r[i] = t[j])
    OBVIOUS
  <2>1. CASE i <= Len(s)
    BY <1>1, <1>2, <1>3, <2>1
  <2>2. CASE ~(i <= Len(s))
    <3>1. i - Len(s) \in DOMAIN t /\ r[i] = t[i - Len(s)]
      BY <1>1, <1>2, <1>3, <2>2
    <3>2. QED
      BY <3>1
  <2>3. QED
    BY <2>1, <2>2
<1>7. ToSet(r) = ToSet(s) \cup ToSet(t)
  BY <1>1, <1>4, <1>5, <1>6 DEF ToSet
<1>8. QED
  BY <1>2, <1>7 DEF r

\* A sorted list is the list in another order, in which the keys do not get smaller.
IsSortOf(sorted, s, key) ==
    \E order \in [1..Len(s) -> 1..Len(s)] :
        /\ \A i \in 1..Len(s) : sorted[i] = s[order[i]]
        /\ \A j \in 1..Len(s) : \E i \in 1..Len(s) : order[i] = j
        /\ \A i, j \in 1..Len(s) : i < j => key[order[i]][1] <= key[order[j]][1]

\* That is what Sorted gives.
LEMMA SortedSorts ==
  ASSUME NEW s, IsList(s), NEW key, NEW n \in Nat \ {0}, \A i \in 1..Len(s) : key[i] \in [1..n -> Int]
  PROVE  IsSortOf(Sorted(s, key), s, key)
<1> DEFINE N == Len(s)
           longer == [i \in DOMAIN s |-> Append(key[i], i)]
           order == InOrder(DOMAIN s, longer)
           sorted == Sorted(s, key)
<1>1. N \in Nat /\ DOMAIN s = 1..N
  BY ListFacts
<1>2. IsFiniteSet(1..N) /\ Cardinality(1..N) = N
  BY <1>1, IntervalSize
<1>3. ASSUME NEW i \in 1..N
      PROVE  /\ longer[i] \in [1..(n + 1) -> Int] /\ longer[i][n + 1] = i
             /\ longer[i][1] = key[i][1]
  <2>1. key[i] \in Seq(Int) /\ Len(key[i]) = n /\ i \in Int
    <3>1. key[i] \in [1..n -> Int]
      OBVIOUS
    <3>2. key[i] \in Seq(Int)
      BY <3>1
    <3>3. QED
      BY <1>1, <3>1, <3>2, LenProperties
  <2>2. longer[i] = Append(key[i], i)
    BY <1>1
  <2> DEFINE k == key[i]
  <2>3. /\ Append(k, i) \in Seq(Int) /\ Len(Append(k, i)) = n + 1 /\ Append(k, i)[n + 1] = i
        /\ \A j \in 1..n : Append(k, i)[j] = k[j]
    <3> HIDE DEF k, longer
    <3>1. k \in Seq(Int) /\ Len(k) = n
      BY <2>1 DEF k
    <3>2. QED
      BY <2>1, <3>1, AppendProperties
  <2> HIDE DEF longer
  <2>4. 1 \in 1..n
    OBVIOUS
  <2>5. longer[i] \in [1..(n + 1) -> Int]
    BY <2>2, <2>3, LenProperties
  <2>6. QED
    BY <2>2, <2>3, <2>4, <2>5
<1>4. Distinguishes(longer, DOMAIN s)
  <2>1. \A x \in DOMAIN s : longer[x] \in [1..(n + 1) -> Int]
    BY <1>1, <1>3
  <2>2. \A x, y \in DOMAIN s : longer[x] = longer[y] => x = y
    BY <1>1, <1>3
  <2>3. n + 1 \in Nat
    OBVIOUS
  <2> HIDE DEF longer
  <2>4. QED
    BY <2>1, <2>2, <2>3 DEF Distinguishes
<1> HIDE DEF longer
<1>5. IsOrderOf(order, DOMAIN s, longer)
  BY <1>1, <1>2, <1>4, InOrderSorts
<1>6. /\ order \in [1..N -> 1..N] /\ ToSet(order) = 1..N
      /\ \A i, j \in 1..N : i < j => KeyBefore(longer[order[i]], longer[order[j]])
  BY <1>1, <1>2, <1>5 DEF IsOrderOf
<1>7. sorted = [i \in DOMAIN order |-> s[order[i]]]
  BY DEF Sorted, longer
<1> HIDE DEF order, sorted
<1>8. \A i \in 1..N : sorted[i] = s[order[i]]
  BY <1>6, <1>7
<1>9. \A j \in 1..N : \E i \in 1..N : order[i] = j
  BY <1>6 DEF ToSet
<1>10. ASSUME NEW i \in 1..N, NEW j \in 1..N, i < j PROVE key[order[i]][1] <= key[order[j]][1]
  <2> DEFINE a == longer[order[i]]
             b == longer[order[j]]
  <2>1. order[i] \in 1..N /\ order[j] \in 1..N
    BY <1>6
  <2>2. a \in [1..(n + 1) -> Int] /\ b \in [1..(n + 1) -> Int]
        /\ a[1] = key[order[i]][1] /\ b[1] = key[order[j]][1]
    BY <1>3, <2>1
  <2>3. KeyBefore(a, b)
    BY <1>6, <1>10
  <2> HIDE DEF a, b
  <2>4. PICK x \in DOMAIN a : a[x] < b[x] /\ \A y \in 1..(x - 1) : a[y] = b[y]
    BY <2>3 DEF KeyBefore
  <2>5. x \in 1..(n + 1) /\ a[1] \in Int /\ b[1] \in Int
    BY <2>2
  <2>6. x = 1 \/ 1 \in 1..(x - 1)
    BY <2>5
  <2>7. a[1] <= b[1]
    BY <2>4, <2>5, <2>6
  <2>8. QED
    BY <2>2, <2>7
<1>11. IsSortOf(sorted, s, key)
  BY <1>6, <1>8, <1>9, <1>10 DEF IsSortOf
<1>12. QED
  BY <1>11 DEF sorted
=============================================================================
