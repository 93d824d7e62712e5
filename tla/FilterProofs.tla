----------------------------- MODULE FilterProofs -----------------------------
(***************************************************************************)
(* What filtering a sequence returns, for every sequence, by induction on  *)
(* its length: the library's well-founded induction in the form the        *)
(* provers take, that a nonempty set of naturals has a least element.      *)
(***************************************************************************)
EXTENDS Filter, SequenceTheorems, WellFoundedInduction, TLAPS

\* The least-number principle, for sets.
LEMMA LeastNatural ==
  ASSUME NEW T, T \subseteq Nat, T # {}
  PROVE  \E x \in T : \A y \in T : x <= y
  <1> DEFINE R == {ss \in Nat \X Nat : ss[1] < ss[2]}
  <1>1. IsWellFoundedOn(R, Nat)
    BY NatLessThanWellFounded DEF OpToRel
  <1>2. \E x \in T : \A y \in T : ~ (<<y, x>> \in R)
    <2> HIDE DEF R
    <2> QED
      BY <1>1, WFMin
  <1>3. ASSUME NEW x \in T, NEW y \in T, ~ (<<y, x>> \in R)
        PROVE  x <= y
    <2>1. <<y, x>> \in Nat \X Nat
      OBVIOUS
    <2>2. ~ (<<y, x>>[1] < <<y, x>>[2])
      BY <2>1, <1>3
    <2> QED
      BY <2>2
  <1> QED
    BY <1>2, <1>3

\* Induction up to n over the members of a set.
LEMMA InductionTo ==
  ASSUME NEW n \in Nat, NEW G, 0 \in G,
         \A m \in 1..n : m - 1 \in G => m \in G
  PROVE  0..n \subseteq G
  <1> DEFINE Bad == (0..n) \ G
  <1>1. SUFFICES ASSUME Bad # {}
                 PROVE  FALSE
    OBVIOUS
  <1>2. PICK m \in Bad : \A y \in Bad : m <= y
    <2>1. Bad \subseteq Nat
      OBVIOUS
    <2> HIDE DEF Bad
    <2> QED
      BY <1>1, <2>1, LeastNatural
  <1>3. m \in 1..n /\ m - 1 \in 0..n /\ ~ (m <= m - 1)
    BY <1>2
  <1>4. m - 1 \in G
    BY <1>2, <1>3
  <1> QED
    BY <1>2, <1>3, <1>4

-----------------------------------------------------------------------------
(* The recursion of Filtered.                                              *)

\* One step of the recursion, and a function that follows it up to n.
OneMore(s, S, left, n) ==
  IF n = 0 THEN <<>>
  ELSE IF s[n] \in S THEN Append(left[n - 1], s[n])
  ELSE left[n - 1]

Follows(s, S, left, n) == left = [m \in 0..n |-> OneMore(s, S, left, m)]

\* There is such a function, up to the length of the sequence.
LEMMA FollowerExists ==
  ASSUME NEW T, NEW s \in Seq(T), NEW S
  PROVE  \E left : Follows(s, S, left, Len(s))
  <1> DEFINE G == {n \in 0..Len(s) : \E left : Follows(s, S, left, n)}
  <1>0. Len(s) \in Nat
    OBVIOUS
  <1>1. 0 \in G
    <2>1. Follows(s, S, [m \in 0..0 |-> <<>>], 0)
      BY DEF Follows, OneMore
    <2> QED
      BY <1>0, <2>1
  <1>2. ASSUME NEW m \in 1..Len(s), m - 1 \in G
        PROVE  m \in G
    <2>1. PICK g : Follows(s, S, g, m - 1)
      BY <1>2
    <2> DEFINE h == [k \in 0..m |-> IF k = m THEN OneMore(s, S, g, m) ELSE g[k]]
    <2>2. ASSUME NEW k \in 0..m
          PROVE  h[k] = OneMore(s, S, h, k)
      <3>1. CASE k = m
        <4>1. m - 1 \in 0..m /\ m - 1 # m /\ m # 0
          OBVIOUS
        <4>2. h[m - 1] = g[m - 1]
          BY <4>1
        <4> QED
          BY <3>1, <4>1, <4>2 DEF OneMore
      <3>2. CASE k # m
        <4>1. k \in 0..(m - 1) /\ (k = 0 \/ (k - 1 \in 0..m /\ k - 1 # m))
          BY <3>2
        <4>2. h[k] = g[k] /\ (k = 0 \/ h[k - 1] = g[k - 1])
          BY <3>2, <4>1
        <4>3. g[k] = OneMore(s, S, g, k)
          BY <2>1, <4>1 DEF Follows
        <4> QED
          BY <4>2, <4>3 DEF OneMore
      <3> QED
        BY <3>1, <3>2
    <2>3. h = [k \in 0..m |-> OneMore(s, S, h, k)]
      BY <2>2
    <2> HIDE DEF h
    <2>4. Follows(s, S, h, m)
      BY <2>3 DEF Follows
    <2> QED
      BY <2>4
  <1>3. 0..Len(s) \subseteq G
    <2> HIDE DEF G
    <2> QED
      BY <1>0, <1>1, <1>2, InductionTo
  <1> QED
    BY <1>0, <1>3

-----------------------------------------------------------------------------
(* What it returns.                                                        *)

\* t is what is left of the first n of s: `at` says where each element of t is
\* in s, in the same order, and every element that stays is there.
Leaves(s, S, n, t, at) ==
  /\ at \in [1..Len(t) -> 1..n]
  /\ \A i, j \in 1..Len(t) : i < j => at[i] < at[j]
  /\ \A i \in 1..Len(t) : t[i] = s[at[i]] /\ s[at[i]] \in S
  /\ \A k \in 1..n : s[k] \in S => \E i \in 1..Len(t) : at[i] = k

\* One step of the recursion keeps that.
LEMMA LeavesOneMore ==
  ASSUME NEW T, NEW s \in Seq(T), NEW S, NEW m \in 1..Len(s),
         NEW t \in Seq(T), NEW at, Leaves(s, S, m - 1, t, at)
  PROVE  /\ s[m] \notin S => Leaves(s, S, m, t, at)
         /\ s[m] \in S => \E bt : Leaves(s, S, m, Append(t, s[m]), bt)
  <1>0. Len(t) \in Nat /\ Len(s) \in Nat /\ s[m] \in T
    OBVIOUS
  <1>1. CASE s[m] \notin S
    <2>1. \A k \in 1..m : k \in 1..(m - 1) \/ k = m
      OBVIOUS
    <2>2. at \in [1..Len(t) -> 1..m]
      BY DEF Leaves
    <2> QED
      BY <1>1, <2>1, <2>2 DEF Leaves
  <1>2. CASE s[m] \in S
    <2> DEFINE u == Append(t, s[m])
               bt == [i \in 1..Len(u) |-> IF i = Len(u) THEN m ELSE at[i]]
    <2>1. /\ Len(u) = Len(t) + 1 /\ u[Len(u)] = s[m]
          /\ \A i \in 1..Len(t) : u[i] = t[i]
      BY <1>0
    <2> HIDE DEF u
    <2>2. \A i \in 1..Len(u) : i \in 1..Len(t) \/ i = Len(u)
      BY <1>0, <2>1
    <2>3. \A i \in 1..Len(t) : i \in 1..Len(u) /\ i # Len(u) /\ at[i] \in 1..(m - 1)
      BY <1>0, <2>1 DEF Leaves
    <2>4. bt \in [1..Len(u) -> 1..m]
      BY <2>2, <2>3
    <2>5. \A i, j \in 1..Len(u) : i < j => bt[i] < bt[j]
      <3> SUFFICES ASSUME NEW i \in 1..Len(u), NEW j \in 1..Len(u), i < j
                   PROVE  bt[i] < bt[j]
        OBVIOUS
      <3>1. i \in 1..Len(t) /\ i # Len(u)
        BY <1>0, <2>1
      <3> QED
        BY <2>2, <2>3, <3>1 DEF Leaves
    <2>6. \A i \in 1..Len(u) : u[i] = s[bt[i]] /\ s[bt[i]] \in S
      BY <1>2, <2>1, <2>2, <2>3 DEF Leaves
    <2>7. \A k \in 1..m : s[k] \in S => \E i \in 1..Len(u) : bt[i] = k
      <3> SUFFICES ASSUME NEW k \in 1..m, s[k] \in S
                   PROVE  \E i \in 1..Len(u) : bt[i] = k
        OBVIOUS
      <3>1. CASE k = m
        BY <1>0, <2>1, <3>1
      <3>2. CASE k # m
        <4>1. PICK i \in 1..Len(t) : at[i] = k
          BY <3>2 DEF Leaves
        <4> QED
          BY <2>3, <4>1
      <3> QED
        BY <3>1, <3>2
    <2> HIDE DEF bt
    <2>8. Leaves(s, S, m, u, bt)
      BY <2>4, <2>5, <2>6, <2>7 DEF Leaves
    <2> QED
      BY <1>2, <2>8 DEF u
  <1> QED
    BY <1>1, <1>2

\* Filtered keeps exactly the elements of S, in their order.
THEOREM FilteredLeaves ==
  ASSUME NEW T, NEW s \in Seq(T), NEW S
  PROVE  /\ Filtered(s, S) \in Seq(T)
         /\ \E at : Leaves(s, S, Len(s), Filtered(s, S), at)
  <1> DEFINE left == CHOOSE f : Follows(s, S, f, Len(s))
             G == {n \in 0..Len(s) : left[n] \in Seq(T) /\ \E at : Leaves(s, S, n, left[n], at)}
  <1>0. Len(s) \in Nat
    OBVIOUS
  <1>1. Follows(s, S, left, Len(s))
    BY FollowerExists
  <1>2. Filtered(s, S) = left[Len(s)]
    BY DEF Filtered, Follows, OneMore
  <1> HIDE DEF left
  <1>3. \A n \in 0..Len(s) : left[n] = OneMore(s, S, left, n)
    BY <1>1 DEF Follows
  <1>4. 0 \in G
    <2>1. left[0] = <<>>
      BY <1>0, <1>3 DEF OneMore
    <2>2. Leaves(s, S, 0, left[0], <<>>)
      BY <2>1 DEF Leaves
    <2>3. left[0] \in Seq(T) /\ 0 \in 0..Len(s)
      BY <1>0, <2>1
    <2> QED
      BY <2>2, <2>3
  <1>5. ASSUME NEW m \in 1..Len(s), m - 1 \in G
        PROVE  m \in G
    <2>1. m \in 0..Len(s) /\ m # 0 /\ s[m] \in T
      BY <1>0
    <2>2. left[m] = IF s[m] \in S THEN Append(left[m - 1], s[m]) ELSE left[m - 1]
      BY <1>3, <2>1 DEF OneMore
    <2>3. PICK at : Leaves(s, S, m - 1, left[m - 1], at)
      BY <1>5
    <2>4. left[m - 1] \in Seq(T)
      BY <1>5
    <2>5. left[m] \in Seq(T)
      BY <2>1, <2>2, <2>4
    <2>6. \E bt : Leaves(s, S, m, left[m], bt)
      BY <2>2, <2>3, <2>4, LeavesOneMore
    <2> QED
      BY <2>1, <2>5, <2>6
  <1>6. 0..Len(s) \subseteq G
    <2> HIDE DEF G
    <2> QED
      BY <1>0, <1>4, <1>5, InductionTo
  <1> QED
    BY <1>0, <1>2, <1>6
\* So it is no longer than the sequence was,
COROLLARY FilteredShorter ==
  ASSUME NEW T, NEW s \in Seq(T), NEW S
  PROVE  Len(Filtered(s, S)) <= Len(s)
  <1> DEFINE t == Filtered(s, S)
  <1>1. PICK at : Leaves(s, S, Len(s), t, at)
    BY FilteredLeaves
  <1>2. Len(t) \in Nat /\ Len(s) \in Nat
    BY FilteredLeaves
  <1> HIDE DEF t
  <1> DEFINE G == {i \in 0..Len(t) : i = 0 \/ at[i] >= i}
  <1>3. 0 \in G
    BY <1>2
  <1>4. ASSUME NEW i \in 1..Len(t), i - 1 \in G
        PROVE  i \in G
    <2>1. at[i] \in 1..Len(s)
      BY <1>1 DEF Leaves
    <2>2. CASE i = 1
      BY <1>2, <2>1, <2>2
    <2>3. CASE i # 1
      <3>1. i - 1 \in 1..Len(t) /\ i - 1 < i /\ at[i - 1] >= i - 1
        BY <1>2, <1>4, <2>3
      <3>2. at[i - 1] < at[i] /\ at[i - 1] \in 1..Len(s)
        BY <1>1, <3>1 DEF Leaves
      <3> QED
        BY <1>2, <2>1, <3>1, <3>2
    <2> QED
      BY <2>2, <2>3
  <1>5. 0..Len(t) \subseteq G
    <2> HIDE DEF G
    <2> QED
      BY <1>2, <1>3, <1>4, InductionTo
  <1>6. CASE Len(t) = 0
    BY <1>2, <1>6 DEF t
  <1>7. CASE Len(t) # 0
    <2>1. Len(t) \in 1..Len(t) /\ at[Len(t)] >= Len(t)
      BY <1>2, <1>5, <1>7
    <2>2. at[Len(t)] \in 1..Len(s)
      BY <1>1, <2>1 DEF Leaves
    <2> QED
      BY <1>2, <2>1, <2>2 DEF t
  <1> QED
    BY <1>6, <1>7

\* and holds the elements the sequence has in S.
COROLLARY FilteredElements ==
  ASSUME NEW T, NEW s \in Seq(T), NEW S
  PROVE  {Filtered(s, S)[i] : i \in DOMAIN Filtered(s, S)} = {s[i] : i \in DOMAIN s} \cap S
  <1> DEFINE t == Filtered(s, S)
  <1>1. PICK at : Leaves(s, S, Len(s), t, at)
    BY FilteredLeaves
  <1>2. DOMAIN t = 1..Len(t) /\ DOMAIN s = 1..Len(s)
    BY FilteredLeaves
  <1> HIDE DEF t
  <1>3. \A i \in 1..Len(t) : at[i] \in 1..Len(s) /\ t[i] = s[at[i]] /\ t[i] \in S
    BY <1>1 DEF Leaves
  <1>4. \A k \in 1..Len(s) : s[k] \in S => \E i \in 1..Len(t) : t[i] = s[k]
    BY <1>1 DEF Leaves
  <1>5. {t[i] : i \in DOMAIN t} = {s[i] : i \in DOMAIN s} \cap S
    BY <1>2, <1>3, <1>4
  <1> QED
    BY <1>5 DEF t
=============================================================================
