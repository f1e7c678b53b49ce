--------------------------- MODULE SequenceFacts ---------------------------
(* Lemmas about sequences and sets of numbers that several proofs need. *)
EXTENDS Naturals, Sequences, FiniteSetsExt, SequenceTheorems, WellFoundedInduction, TLAPS

\* A bounded set of numbers that is not empty has a greatest element.
LEMMA MaxIsIn ==
    ASSUME NEW n \in Nat, NEW W, W \subseteq 1..n, W # {}
    PROVE  Max(W) \in W /\ \A y \in W : y <= Max(W)
<1> DEFINE T == {x \in Nat : n - x \in W}
<1>1. T \subseteq Nat /\ T # {}
  <2>1. PICK w \in W : TRUE
    OBVIOUS
  <2>2. w \in 1..n
    BY <2>1
  <2>3. n - w \in Nat /\ n - (n - w) = w
    BY <2>2
  <2> QED
    BY <2>1, <2>3
<1>2. PICK x \in T : \A y \in T : ~(<<y, x>> \in OpToRel(<, Nat))
  BY <1>1, NatLessThanWellFounded, WFMin
<1>3. \A y \in T : ~(y < x)
  BY <1>2 DEF OpToRel
<1>4. \A y \in W : y <= n - x
  <2> SUFFICES ASSUME NEW y \in W PROVE y <= n - x
    OBVIOUS
  <2>1. y \in 1..n
    OBVIOUS
  <2>2. n - y \in Nat /\ n - (n - y) = y
    BY <2>1
  <2>3. n - y \in T
    BY <2>2
  <2>4. ~(n - y < x)
    BY <2>3, <1>3
  <2> QED
    BY <2>1, <2>2, <2>4
<1>5. n - x \in W
  OBVIOUS
<1>6. \E m \in W : \A y \in W : m >= y
  BY <1>4, <1>5
<1> HIDE DEF T
<1>7. Max(W) \in W /\ \A y \in W : Max(W) >= y
  BY <1>6 DEF Max
<1> QED
  BY <1>7

\* Appending to a sequence keeps what is there and puts the element at its end.
LEMMA AppendKeeps ==
    ASSUME NEW s, NEW e, \E S : s \in Seq(S)
    PROVE  /\ \E S : Append(s, e) \in Seq(S)
           /\ Len(s) \in Nat
           /\ DOMAIN s = 1..Len(s)
           /\ Len(Append(s, e)) = Len(s) + 1
           /\ DOMAIN Append(s, e) = 1..(Len(s) + 1)
           /\ \A i \in 1..Len(s) : Append(s, e)[i] = s[i]
           /\ Append(s, e)[Len(s) + 1] = e
           /\ Append(s, e) # <<>>
<1>1. PICK S : s \in Seq(S)
  OBVIOUS
<1> DEFINE T == S \cup {e}
<1>2. s \in Seq(T) /\ e \in T
  BY <1>1
<1> HIDE DEF T
<1>3. /\ Append(s, e) \in Seq(T) /\ Append(s, e) # <<>>
      /\ Len(Append(s, e)) = Len(s) + 1
      /\ \A i \in 1..Len(s) : Append(s, e)[i] = s[i]
      /\ Append(s, e)[Len(s) + 1] = e
  BY <1>2, AppendProperties
<1>4. /\ Len(s) \in Nat /\ DOMAIN s = 1..Len(s)
      /\ DOMAIN Append(s, e) = 1..Len(Append(s, e))
  BY <1>2, <1>3, LenProperties, Zenon
<1> QED
  BY <1>3, <1>4, Zenon

\* Two elements at the end are appended one after the other.
LEMMA ConcatTwo ==
    ASSUME NEW S, NEW s \in Seq(S), NEW a \in S, NEW b \in S
    PROVE  /\ <<a, b>> \in Seq(S) /\ Append(s, a) \in Seq(S)
           /\ s \o <<a, b>> = Append(Append(s, a), b)
<1>1. s \o <<a, b>> \in Seq(S) /\ Append(Append(s, a), b) \in Seq(S)
  OBVIOUS
<1>2. Len(s \o <<a, b>>) = Len(s) + 2 /\ Len(Append(Append(s, a), b)) = Len(s) + 2
  OBVIOUS
<1>3. \A i \in 1..(Len(s) + 2) : (s \o <<a, b>>)[i] = Append(Append(s, a), b)[i]
  OBVIOUS
<1> QED
  BY <1>1, <1>2, <1>3, SeqEqual

\* Induction over the natural numbers, for a set and not for a predicate.
LEMMA NatInduct ==
    ASSUME NEW T, 0 \in T, \A k \in Nat : k \in T => k + 1 \in T
    PROVE  \A n \in Nat : n \in T
<1> SUFFICES ASSUME Nat \ T # {} PROVE FALSE
  OBVIOUS
<1>1. PICK m \in Nat \ T : \A y \in Nat \ T : ~(<<y, m>> \in OpToRel(<, Nat))
  <2>1. Nat \ T \subseteq Nat
    OBVIOUS
  <2> QED
    BY <2>1, WFMin, NatLessThanWellFounded, Zenon
<1>2. m # 0 /\ m - 1 \in Nat
  OBVIOUS
<1>3. \A y \in Nat \ T : ~(y < m)
  BY <1>1 DEF OpToRel
<1>4. m - 1 \notin Nat \ T
  BY <1>2, <1>3
<1>5. (m - 1) + 1 = m
  BY <1>2
<1> QED
  BY <1>2, <1>4, <1>5

\* The same up to a bound.
LEMMA InductTo ==
    ASSUME NEW n \in Nat, NEW T, 0 \in T, \A k \in 1..n : k - 1 \in T => k \in T
    PROVE  \A k \in 0..n : k \in T
<1> DEFINE U == {k \in Nat : k <= n => k \in T}
<1>1. 0 \in U
  OBVIOUS
<1>2. ASSUME NEW k \in Nat, k \in U PROVE k + 1 \in U
  <2> SUFFICES ASSUME k + 1 <= n PROVE k + 1 \in T
    OBVIOUS
  <2>1. k + 1 \in 1..n /\ (k + 1) - 1 = k /\ k <= n
    OBVIOUS
  <2>2. k \in T
    BY <1>2, <2>1
  <2> QED
    BY <2>1, <2>2
<1> HIDE DEF U
<1>3. \A k \in Nat : k \in U
  BY <1>1, <1>2, NatInduct
<1> QED
  BY <1>3 DEF U

\* There is a function on 0..n that starts with s0 and whose values follow by op: what the
\* definition of a recursive function chooses.
Recursion(S, s0, op, n) ==
    \E g \in [0..n -> S] : g[0] = s0 /\ \A k \in 1..n : g[k] = op[<<k, g[k - 1]>>]

LEMMA RecursionTo ==
    ASSUME NEW S, NEW s0 \in S, NEW op \in [Nat \X S -> S], NEW n \in Nat
    PROVE  Recursion(S, s0, op, n)
<1> DEFINE Good(m, g) == g[0] = s0 /\ \A k \in 1..m : g[k] = op[<<k, g[k - 1]>>]
           T == {m \in Nat : \E g \in [0..m -> S] : Good(m, g)}
<1>1. 0 \in T
  <2>1. [k \in 0..0 |-> s0] \in [0..0 -> S] /\ Good(0, [k \in 0..0 |-> s0])
    OBVIOUS
  <2> QED
    BY <2>1
<1>2. ASSUME NEW m \in Nat, m \in T PROVE m + 1 \in T
  <2>1. PICK g \in [0..m -> S] : Good(m, g)
    BY <1>2
  <2> DEFINE h == [k \in 0..(m + 1) |-> IF k = m + 1 THEN op[<<m + 1, g[m]>>] ELSE g[k]]
  <2>2. m + 1 \in Nat /\ g[m] \in S /\ op[<<m + 1, g[m]>>] \in S
    OBVIOUS
  <2>3. h \in [0..(m + 1) -> S]
    BY <2>2
  <2>4. h[0] = s0
    BY <2>1
  <2>5. ASSUME NEW k \in 1..(m + 1) PROVE h[k] = op[<<k, h[k - 1]>>]
    <3>1. k - 1 \in 0..(m + 1) /\ k - 1 # m + 1 /\ h[k - 1] = g[k - 1]
      OBVIOUS
    <3>2. CASE k = m + 1
      <4>1. k - 1 = m
        BY <3>2
      <4> QED
        BY <3>1, <3>2, <4>1
    <3>3. CASE k # m + 1
      <4>1. k \in 1..m /\ h[k] = g[k]
        BY <3>3
      <4> QED
        BY <3>1, <4>1, <2>1
    <3> QED
      BY <3>2, <3>3
  <2> QED
    BY <2>2, <2>3, <2>4, <2>5
<1> HIDE DEF T
<1>3. n \in T
  BY <1>1, <1>2, NatInduct
<1> QED
  BY <1>3 DEF T, Recursion
=============================================================================
