---------------------------- MODULE OrdersProofs ----------------------------
(* What the orders of Orders keep, and the least number of a set. *)
EXTENDS Orders, SequenceTheorems, WellFoundedInduction, TLAPS

(* A set of numbers has a least one. *)
LEMMA LeastOf ==
    ASSUME NEW T, T \subseteq Nat, T # {}
    PROVE  \E x \in T : \A y \in T : ~(y < x)
<1>1. PICK x \in T : \A y \in T : ~(<<y, x>> \in OpToRel(<, Nat))
  BY NatLessThanWellFounded, WFMin
<1>2. ASSUME NEW y \in T, y < x PROVE FALSE
  <2>1. <<y, x>> \in Nat \X Nat /\ <<y, x>>[1] < <<y, x>>[2]
    BY <1>2
  <2>2. <<y, x>> \in OpToRel(<, Nat)
    BY <2>1 DEF OpToRel
  <2> QED BY <1>1, <2>2
<1> QED BY <1>2

Members(s) == {s[i] : i \in 1..Len(s)}

(* Taking a member out of an order leaves the others, in an order. *)
LEMMA WithoutOrder ==
    ASSUME NEW T, NEW s \in Seq(T), \A i, j \in 1..Len(s) : s[i] = s[j] => i = j, NEW e
    PROVE  /\ Without(s, e) \in Seq(T)
           /\ Len(Without(s, e)) <= Len(s)
           /\ (\E i \in 1..Len(s) : s[i] = e) => Len(Without(s, e)) < Len(s)
           /\ \A i, j \in 1..Len(Without(s, e)) : Without(s, e)[i] = Without(s, e)[j] => i = j
           /\ Members(Without(s, e)) = Members(s) \ {e}
<1>1. Len(s) \in Nat /\ DOMAIN s = 1..Len(s) /\ \A i \in 1..Len(s) : s[i] \in T
  BY LenProperties, ElementOfSeq
<1>2. CASE ~ \E i \in 1..Len(s) : s[i] = e
  <2>1. Without(s, e) = s
    BY <1>1, <1>2 DEF Without
  <2>2. Members(s) = Members(s) \ {e}
    BY <1>1, <1>2 DEF Members
  <2> QED BY <1>1, <1>2, <2>1, <2>2
<1>3. CASE \E i \in 1..Len(s) : s[i] = e
  <2> DEFINE k == CHOOSE i \in DOMAIN s : s[i] = e
             n == Len(s) - 1
             w == [i \in 1..n |-> IF i < k THEN s[i] ELSE s[i + 1]]
  <2>1. k \in 1..Len(s) /\ s[k] = e
    BY <1>1, <1>3
  <2>2. Without(s, e) = w
    BY <1>1, <1>3 DEF Without
  <2> HIDE DEF k
  <2>3. n \in Nat /\ \A i \in 1..n : w[i] \in T
    BY <1>1, <2>1
  <2>4. w \in Seq(T) /\ Len(w) = n
    <3>1. w \in [1..n -> T]
      BY <2>3
    <3>2. w \in Seq(T)
      BY <2>3, <3>1, SeqDef
    <3>3. DOMAIN w = 1..n /\ DOMAIN w = 1..Len(w) /\ Len(w) \in Nat
      BY <3>2, LenProperties
    <3> HIDE DEF w, n
    <3> QED BY <2>3, <3>2, <3>3
  <2>5. \A i \in 1..n : w[i] = IF i < k THEN s[i] ELSE s[i + 1]
    OBVIOUS
  <2> HIDE DEF w
  <2>6. ASSUME NEW i \in 1..n, NEW j \in 1..n, w[i] = w[j] PROVE i = j
    <3> DEFINE at(x) == IF x < k THEN x ELSE x + 1
    <3>1. at(i) \in 1..Len(s) /\ at(j) \in 1..Len(s) /\ s[at(i)] = s[at(j)]
      BY <1>1, <2>5, <2>6
    <3>2. at(i) = at(j)
      BY <3>1
    <3> QED BY <2>1, <3>2
  <2>7. ASSUME NEW x PROVE (\E i \in 1..n : w[i] = x) <=> x # e /\ \E i \in 1..Len(s) : s[i] = x
    <3>1. ASSUME NEW i \in 1..n, w[i] = x PROVE x # e /\ \E j \in 1..Len(s) : s[j] = x
      <4>1. CASE i < k
        BY <1>1, <2>1, <2>5, <3>1, <4>1
      <4>2. CASE ~(i < k)
        <5>1. i + 1 \in 1..Len(s) /\ i + 1 # k /\ s[i + 1] = x
          BY <1>1, <2>1, <2>5, <3>1, <4>2
        <5> QED BY <2>1, <5>1
      <4> QED BY <4>1, <4>2
    <3>2. ASSUME x # e, NEW i \in 1..Len(s), s[i] = x PROVE \E j \in 1..n : w[j] = x
      <4>1. i # k
        BY <2>1, <3>2
      <4>2. CASE i < k
        <5>1. i \in 1..n /\ w[i] = x
          BY <1>1, <2>1, <2>5, <3>2, <4>2
        <5> QED BY <5>1
      <4>3. CASE i > k
        <5>1. i - 1 \in 1..n /\ ~(i - 1 < k) /\ (i - 1) + 1 = i
          BY <1>1, <2>1, <4>3
        <5>2. w[i - 1] = x
          BY <2>5, <3>2, <5>1
        <5> QED BY <5>1, <5>2
      <4> QED BY <1>1, <2>1, <4>1, <4>2, <4>3
    <3> QED BY <3>1, <3>2
  <2>8. n < Len(s) /\ n <= Len(s)
    BY <1>1
  <2> HIDE DEF n
  <2>9. Members(w) = Members(s) \ {e}
    <3>1. ASSUME NEW x PROVE x \in Members(w) <=> x \in Members(s) \ {e}
      <4>1. x \in Members(w) <=> \E i \in 1..Len(w) : w[i] = x
        BY DEF Members
      <4>2. x \in Members(s) <=> \E i \in 1..Len(s) : s[i] = x
        BY DEF Members
      <4>3. x \in Members(w) <=> \E i \in 1..n : w[i] = x
        BY <2>4, <4>1
      <4> QED BY <2>7, <4>2, <4>3
    <3> QED BY <3>1
  <2> QED BY <2>2, <2>4, <2>6, <2>8, <2>9
<1> QED BY <1>2, <1>3

-----------------------------------------------------------------------------
(* What is picked of s, up to its n-th member, and where each is in s.       *)
PickedUpTo(w, s, I, n, g) ==
    /\ Len(w) <= n /\ g \in [1..Len(w) -> 1..n]
    /\ \A i \in 1..Len(w) : g[i] \in I /\ w[i] = s[g[i]]
    /\ \A i, j \in 1..Len(w) : i < j => g[i] < g[j]
    /\ \A k \in 1..n : k \in I => \E i \in 1..Len(w) : g[i] = k

LEMMA PickedOneMore ==
    ASSUME NEW T, NEW s \in Seq(T), NEW I, NEW n \in 1..Len(s), NEW w \in Seq(T),
           NEW g, PickedUpTo(w, s, I, n - 1, g)
    PROVE  \E v \in Seq(T) : /\ v = (IF n \in I THEN Append(w, s[n]) ELSE w)
                            /\ \E h : PickedUpTo(v, s, I, n, h)
<1>1. n \in Nat /\ n - 1 \in Nat /\ s[n] \in T /\ Len(w) \in Nat
  BY ElementOfSeq, LenProperties
<1>2. CASE n \in I
  <2> DEFINE v == Append(w, s[n])
             h == [i \in 1..(Len(w) + 1) |-> IF i = Len(w) + 1 THEN n ELSE g[i]]
  <2>1. /\ v \in Seq(T) /\ Len(v) = Len(w) + 1 /\ v[Len(w) + 1] = s[n]
        /\ \A i \in 1..Len(w) : v[i] = w[i]
    BY <1>1, AppendProperties
  <2> HIDE DEF v
  <2>2. \A i \in 1..Len(v) : i = Len(w) + 1 \/ i \in 1..Len(w)
    BY <1>1, <2>1
  <2>3. \A i \in 1..Len(w) : /\ i \in 1..(Len(w) + 1) /\ i # Len(w) + 1 /\ g[i] \in 1..n
                            /\ g[i] < n /\ h[i] = g[i]
    <3> TAKE i \in 1..Len(w)
    <3>1. i \in 1..(Len(w) + 1) /\ i # Len(w) + 1
      BY <1>1
    <3>2. g[i] \in 1..(n - 1)
      BY DEF PickedUpTo
    <3>3. g[i] \in 1..n /\ g[i] < n
      BY <1>1, <3>2
    <3>4. h[i] = g[i]
      BY <3>1
    <3> QED BY <3>1, <3>3, <3>4
  <2>4. h[Len(w) + 1] = n /\ Len(w) + 1 \in 1..(Len(w) + 1) /\ n \in 1..n
    BY <1>1
  <2>5. h \in [1..Len(v) -> 1..n]
    BY <2>1, <2>2, <2>3, <2>4
  <2> HIDE DEF h
  <2>6. \A i \in 1..Len(v) : h[i] \in I /\ v[i] = s[h[i]]
    BY <1>2, <2>1, <2>2, <2>3, <2>4 DEF PickedUpTo
  <2>7. ASSUME NEW i \in 1..Len(v), NEW j \in 1..Len(v), i < j PROVE h[i] < h[j]
    <3>1. i \in 1..Len(w)
      BY <1>1, <2>1, <2>7
    <3> QED BY <2>2, <2>3, <2>4, <2>7, <3>1 DEF PickedUpTo
  <2>8. ASSUME NEW k \in 1..n, k \in I PROVE \E i \in 1..Len(v) : h[i] = k
    <3>1. k = n \/ k \in 1..(n - 1)
      BY <1>1
    <3>2. CASE k = n
      BY <2>1, <2>4, <3>2
    <3>3. CASE k \in 1..(n - 1)
      <4>1. PICK i \in 1..Len(w) : g[i] = k
        BY <2>8, <3>3 DEF PickedUpTo
      <4> QED BY <2>1, <2>3, <4>1
    <3> QED BY <3>1, <3>2, <3>3
  <2>9. Len(v) <= n
    BY <1>1, <2>1 DEF PickedUpTo
  <2>10. PickedUpTo(v, s, I, n, h)
    BY <2>5, <2>6, <2>7, <2>8, <2>9 DEF PickedUpTo
  <2> QED BY <1>2, <2>1, <2>10 DEF v
<1>3. CASE n \notin I
  <2>1. \A k \in 1..n : k \in I => k \in 1..(n - 1)
    BY <1>1, <1>3
  <2>2. \A k \in 1..(n - 1) : k \in 1..n
    BY <1>1
  <2>3. PickedUpTo(w, s, I, n, g)
    BY <1>1, <2>1, <2>2 DEF PickedUpTo
  <2> QED BY <1>3, <2>3
<1> QED BY <1>2, <1>3

(* Picked names the members of s at the places of I, in the order of s.      *)
LEMMA PickedOrder ==
    ASSUME NEW T, NEW s \in Seq(T), NEW I
    PROVE  Picked(s, I) \in Seq(T) /\ \E g : PickedUpTo(Picked(s, I), s, I, Len(s), g)
<1> DEFINE L == Len(s)
           More(w, n) == IF n \in I THEN Append(w, s[n]) ELSE w
           Body(f, n) == IF n = 0 THEN <<>> ELSE More(f[n - 1], n)
           UpTo(f, k) == f = [n \in 0..k |-> Body(f, n)]
           All == CHOOSE f : f = [n \in 0..L |-> Body(f, n)]
<1>0. L \in Nat
  BY LenProperties
<1> HIDE DEF L, More
<1>1. \E f : UpTo(f, L)
  <2> DEFINE U == {k \in 0..L : ~ \E f : UpTo(f, k)}
  <2> SUFFICES ASSUME U # {} PROVE FALSE
    <3>1. L \in 0..L
      BY <1>0
    <3> QED BY <3>1
  <2>0. U \subseteq Nat
    BY <1>0
  <2> HIDE DEF U
  <2>1. PICK x \in U : \A y \in U : ~(y < x)
    BY <2>0, LeastOf
  <2> USE DEF U
  <2>2. x # 0
    <3>1. UpTo([n \in 0..0 |-> <<>>], 0)
      OBVIOUS
    <3> QED BY <2>1, <3>1
  <2>3. x \in 1..L /\ x - 1 \in 0..L /\ x - 1 < x
    BY <1>0, <2>1, <2>2
  <2>4. PICK f : UpTo(f, x - 1)
    BY <2>1, <2>3
  <2> DEFINE h == [n \in 0..x |-> Body(f, n)]
  <2>5. \A n \in 0..(x - 1) : h[n] = f[n]
    BY <2>3, <2>4
  <2>6. \A n \in 0..x : Body(h, n) = Body(f, n)
    <3>1. \A n \in 1..x : n - 1 \in 0..(x - 1)
      BY <2>3
    <3> HIDE DEF h
    <3> QED BY <2>3, <2>5, <3>1
  <2>7. UpTo(h, x)
    BY <2>6
  <2> QED BY <2>1, <2>7
<1>2. UpTo(All, L)
  BY <1>1
<1>3. Picked(s, I) = All[L]
  BY DEF Picked, L, More
<1> HIDE DEF All
<1>4. All[0] = <<>> /\ \A n \in 1..L : All[n] = More(All[n - 1], n)
  BY <1>0, <1>2
<1> DEFINE Good(n) == All[n] \in Seq(T) /\ \E g : PickedUpTo(All[n], s, I, n, g)
<1>5. \A n \in 0..L : Good(n)
  <2> DEFINE U == {k \in 0..L : ~Good(k)}
  <2> SUFFICES ASSUME U # {} PROVE FALSE
    OBVIOUS
  <2>0. U \subseteq Nat
    BY <1>0
  <2> HIDE DEF U
  <2>1. PICK x \in U : \A y \in U : ~(y < x)
    BY <2>0, LeastOf
  <2> USE DEF U
  <2>2. Good(0)
    <3> DEFINE g == [i \in 1..0 |-> 1]
    <3>1. Len(<<>>) = 0 /\ <<>> \in Seq(T) /\ 1..0 = {}
      OBVIOUS
    <3>2. g \in [1..0 -> 1..0]
      BY <3>1
    <3>3. PickedUpTo(<<>>, s, I, 0, g)
      BY <3>1, <3>2 DEF PickedUpTo
    <3> QED BY <1>4, <3>1, <3>3
  <2>3. x \in 1..L /\ x - 1 \in 0..L /\ x - 1 < x
    BY <1>0, <2>1, <2>2
  <2>4. Good(x - 1)
    BY <2>1, <2>3
  <2>5. PICK g : PickedUpTo(All[x - 1], s, I, x - 1, g)
    BY <2>4
  <2>6. Good(x)
    <3>1. x \in 1..Len(s)
      BY <2>3 DEF L
    <3>2. All[x - 1] \in Seq(T)
      BY <2>4
    <3> DEFINE w == All[x - 1]
    <3> HIDE DEF w
    <3>3. w \in Seq(T) /\ PickedUpTo(w, s, I, x - 1, g)
      BY <2>5, <3>2 DEF w
    <3>4. \E v \in Seq(T) : v = More(w, x) /\ \E h : PickedUpTo(v, s, I, x, h)
      BY <3>1, <3>3, PickedOneMore DEF More
    <3> QED BY <1>4, <2>3, <3>4 DEF w
  <2> QED BY <2>1, <2>6
<1>6. L \in 0..L
  BY <1>0
<1> HIDE DEF Good
<1>7. Good(L)
  BY <1>5, <1>6
<1> QED BY <1>3, <1>7 DEF L, Good

=============================================================================
