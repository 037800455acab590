------------------------------- MODULE Stacks -------------------------------
(***************************************************************************)
(* Lemmas about sequences that are used as stacks, and about induction and *)
(* recursion on the naturals, for the proofs about the parser and the MIR  *)
(* generator.                                                              *)
(***************************************************************************)
EXTENDS Integers, Sequences, TLAPS, SequenceTheorems, WellFoundedInduction

\* All of a sequence but the last.
Butlast(s) == SubSeq(s, 1, Len(s) - 1)

LEMMA ButlastIs ==
  ASSUME NEW T, NEW s \in Seq(T), s # <<>>
  PROVE  /\ Butlast(s) \in Seq(T)
         /\ Len(s) \in Nat \ {0}
         /\ Len(Butlast(s)) = Len(s) - 1
         /\ \A k \in 1..Len(s) - 1 : Butlast(s)[k] = s[k]
<1>1. Len(s) \in Nat \ {0}
  OBVIOUS
<1> DEFINE n == Len(s) - 1
<1>2. n \in Nat /\ n - 1 + 1 = n /\ (1 <= n \/ n = 0)
  <2>1. n \in Nat
    BY <1>1
  <2> HIDE DEF n
  <2> QED
    BY <2>1
<1>3. \A i \in 1..n : s[i] \in T
  BY <1>1
<1> HIDE DEF n
<1>4. /\ SubSeq(s, 1, n) \in Seq(T)
      /\ Len(SubSeq(s, 1, n)) = IF 1 <= n THEN n - 1 + 1 ELSE 0
      /\ \A i \in 1..n - 1 + 1 : SubSeq(s, 1, n)[i] = s[1 + i - 1]
  <2>1. n \in Int /\ 1 \in Int
    BY <1>2
  <2> QED
    BY <1>3, <2>1, SubSeqProperties
<1>5. Len(SubSeq(s, 1, n)) = n
  BY <1>2, <1>4
<1>6. ASSUME NEW k \in 1..n
      PROVE  SubSeq(s, 1, n)[k] = s[k]
  <2>1. k \in 1..n - 1 + 1 /\ 1 + k - 1 = k
    BY <1>2
  <2> QED
    BY <1>4, <2>1
<1>7. Butlast(s) = SubSeq(s, 1, n)
  BY DEF Butlast, n
<1> QED
  BY <1>1, <1>4, <1>5, <1>6, <1>7 DEF n

LEMMA AppendIs ==
  ASSUME NEW T, NEW s \in Seq(T), NEW x \in T
  PROVE  /\ Append(s, x) \in Seq(T)
         /\ Append(s, x) # <<>>
         /\ Len(s) \in Nat
         /\ Len(Append(s, x)) = Len(s) + 1
         /\ Append(s, x)[Len(s) + 1] = x
         /\ \A k \in 1..Len(s) : Append(s, x)[k] = s[k]
OBVIOUS

\* To replace the last is to drop it and to put another in its place.
LEMMA ReplaceIs ==
  ASSUME NEW T, NEW s \in Seq(T), s # <<>>, NEW x \in T
  PROVE  [s EXCEPT ![Len(s)] = x] = Append(Butlast(s), x)
<1> DEFINE v == [s EXCEPT ![Len(s)] = x]
           w == Append(Butlast(s), x)
<1>1. /\ Butlast(s) \in Seq(T) /\ Len(s) \in Nat \ {0}
      /\ Len(Butlast(s)) = Len(s) - 1
      /\ \A k \in 1..Len(s) - 1 : Butlast(s)[k] = s[k]
  BY ButlastIs
<1>2. v \in Seq(T) /\ Len(v) = Len(s) /\ v[Len(s)] = x
      /\ \A k \in 1..Len(s) - 1 : v[k] = s[k]
  BY <1>1
<1>3. /\ w \in Seq(T) /\ Len(w) = Len(s) /\ w[Len(s)] = x
      /\ \A k \in 1..Len(s) - 1 : w[k] = Butlast(s)[k]
  <2>1. Len(Butlast(s)) + 1 = Len(s) /\ 1..Len(Butlast(s)) = 1..Len(s) - 1
    BY <1>1
  <2> HIDE DEF w
  <2>2. /\ w \in Seq(T)
        /\ Len(w) = Len(Butlast(s)) + 1
        /\ w[Len(Butlast(s)) + 1] = x
        /\ \A k \in 1..Len(Butlast(s)) : w[k] = Butlast(s)[k]
    BY <1>1, AppendIs DEF w
  <2> QED
    BY <2>1, <2>2
<1> HIDE DEF v, w
<1>4. \A k \in 1..Len(s) : v[k] = w[k]
  BY <1>1, <1>2, <1>3
<1>5. v = w
  BY <1>2, <1>3, <1>4, SeqEqual
<1> QED
  BY <1>5 DEF v, w

LEMMA RestoreIs ==
  ASSUME NEW T, NEW s \in Seq(T), s # <<>>
  PROVE  s = Append(Butlast(s), s[Len(s)]) /\ s[Len(s)] \in T
<1>1. Len(s) \in Nat \ {0} /\ s[Len(s)] \in T
  OBVIOUS
<1>2. [s EXCEPT ![Len(s)] = s[Len(s)]] = Append(Butlast(s), s[Len(s)])
  BY <1>1, ReplaceIs
<1>3. [s EXCEPT ![Len(s)] = s[Len(s)]] = s
  BY <1>1
<1> QED
  BY <1>1, <1>2, <1>3

\* The last n are taken off.
LEMMA TakeOffIs ==
  ASSUME NEW T, NEW s \in Seq(T), NEW n \in 0..Len(s)
  PROVE  /\ SubSeq(s, 1, Len(s) - n) \in Seq(T)
         /\ Len(SubSeq(s, 1, Len(s) - n)) = Len(s) - n
         /\ \A k \in 1..Len(s) - n : SubSeq(s, 1, Len(s) - n)[k] = s[k]
         /\ SubSeq(s, Len(s) - n + 1, Len(s)) \in Seq(T)
         /\ Len(SubSeq(s, Len(s) - n + 1, Len(s))) = n
         /\ \A k \in 1..n : SubSeq(s, Len(s) - n + 1, Len(s))[k] = s[Len(s) - n + k]
<1> DEFINE m == Len(s) - n
<1>1. m \in 0..Len(s) /\ Len(s) \in Nat /\ m \in Int /\ n \in Nat /\ n = Len(s) - m
  OBVIOUS
<1> HIDE DEF m
<1>2. /\ SubSeq(s, 1, m) \in Seq(T)
      /\ Len(SubSeq(s, 1, m)) = IF 1 <= m THEN m - 1 + 1 ELSE 0
      /\ \A i \in 1..m - 1 + 1 : SubSeq(s, 1, m)[i] = s[1 + i - 1]
  <2>1. \A i \in 1..m : s[i] \in T
    BY <1>1
  <2> QED
    BY <1>1, <2>1, SubSeqProperties
<1>3. Len(SubSeq(s, 1, m)) = m
  BY <1>1, <1>2
<1>4. ASSUME NEW k \in 1..m
      PROVE  SubSeq(s, 1, m)[k] = s[k]
  <2>1. k \in 1..m - 1 + 1 /\ 1 + k - 1 = k
    BY <1>1
  <2> QED
    BY <1>2, <2>1
<1> DEFINE l == Len(s)
<1>5. l \in Nat /\ l = Len(s)
  BY <1>1
<1> HIDE DEF l
<1>6. /\ SubSeq(s, m + 1, l) \in Seq(T)
      /\ Len(SubSeq(s, m + 1, l)) = IF m + 1 <= l THEN l - (m + 1) + 1 ELSE 0
      /\ \A i \in 1..l - (m + 1) + 1 : SubSeq(s, m + 1, l)[i] = s[m + 1 + i - 1]
  <2>1. \A i \in m + 1..l : s[i] \in T
    BY <1>1, <1>5
  <2>2. m + 1 \in Int /\ l \in Int
    BY <1>1, <1>5
  <2> QED
    BY <2>1, <2>2, SubSeqProperties
<1>7. Len(SubSeq(s, m + 1, l)) = n
  BY <1>1, <1>5, <1>6
<1>8. ASSUME NEW k \in 1..n
      PROVE  SubSeq(s, m + 1, l)[k] = s[m + k]
  <2>1. k \in 1..l - (m + 1) + 1 /\ m + 1 + k - 1 = m + k
    BY <1>1, <1>5
  <2> QED
    BY <1>6, <2>1
<1> QED
  BY <1>1, <1>2, <1>3, <1>4, <1>5, <1>6, <1>7, <1>8 DEF m

\* One sequence after another.
LEMMA ConcatIs ==
  ASSUME NEW T, NEW s \in Seq(T), NEW t \in Seq(T)
  PROVE  /\ s \o t \in Seq(T)
         /\ Len(s) \in Nat /\ Len(t) \in Nat
         /\ Len(s \o t) = Len(s) + Len(t)
         /\ \A k \in 1..Len(s) : (s \o t)[k] = s[k]
         /\ \A k \in 1..Len(t) : (s \o t)[Len(s) + k] = t[k]
OBVIOUS
-----------------------------------------------------------------------------
\* Induction.  (The library's form takes the property as an operator.)
LEMMA Induction ==
  ASSUME NEW S, 0 \in S, \A n \in Nat : n \in S => n + 1 \in S
  PROVE  Nat \subseteq S
<1> SUFFICES ASSUME NEW m \in Nat, m \notin S PROVE FALSE
  OBVIOUS
<1> DEFINE T == Nat \ S
<1>1. PICK x \in T : \A y \in T : ~(<<y, x>> \in OpToRel(<, Nat))
  <2>1. IsWellFoundedOn(OpToRel(<, Nat), Nat) /\ T \subseteq Nat /\ T # {}
    BY NatLessThanWellFounded
  <2> QED
    BY <2>1, WFMin
<1>2. x \in Nat /\ x # 0 /\ x - 1 \in Nat /\ x - 1 + 1 = x
  OBVIOUS
<1>3. x - 1 \in T
  BY <1>2
<1>4. <<x - 1, x>> \in Nat \X Nat /\ <<x - 1, x>>[1] < <<x - 1, x>>[2]
  BY <1>2
<1>5. <<x - 1, x>> \in OpToRel(<, Nat)
  BY <1>4, Zenon DEF OpToRel
<1> QED
  BY <1>1, <1>3, <1>5

\* g is the function defined by recursion, as far as n.
Approximates(g, n, X, x, step) ==
  /\ g \in [0..n -> X]
  /\ g[0] = x
  /\ \A i \in 0..n - 1 : g[i + 1] = step[i][g[i]]

LEMMA ApproximationsAgree ==
  ASSUME NEW X, NEW x \in X, NEW step \in [Nat -> [X -> X]],
         NEW n \in Nat, NEW m \in Nat, NEW g, NEW h, n <= m,
         Approximates(g, n, X, x, step), Approximates(h, m, X, x, step)
  PROVE  g[n] = h[n]
<1> DEFINE S == {i \in Nat : i <= n => g[i] = h[i]}
<1>1. 0 \in S
  BY DEF Approximates
<1>2. ASSUME NEW i \in Nat, i \in S PROVE i + 1 \in S
  <2>1. CASE i + 1 <= n
    <3>1. i \in 0..n - 1 /\ i \in 0..m - 1 /\ g[i] = h[i]
      BY <1>2, <2>1
    <3>2. g[i + 1] = step[i][g[i]] /\ h[i + 1] = step[i][h[i]]
      BY <3>1 DEF Approximates
    <3> QED
      BY <3>1, <3>2
  <2> QED
    BY <2>1
<1> HIDE DEF S
<1>3. n \in S
  BY <1>1, <1>2, Induction
<1> QED
  BY <1>3 DEF S

\* f is the function defined by recursion.
IsRecursive(f, X, x, step) ==
  /\ f \in [Nat -> X]
  /\ f[0] = x
  /\ \A n \in Nat : f[n + 1] = step[n][f[n]]

\* A function can be defined by recursion.
LEMMA Recursion ==
  ASSUME NEW X, NEW x \in X, NEW step \in [Nat -> [X -> X]]
  PROVE  \E f : IsRecursive(f, X, x, step)
<1> DEFINE Q(g, n) == Approximates(g, n, X, x, step)
           S == {n \in Nat : \E g : Q(g, n)}
<1>1. 0 \in S
  <2> DEFINE g == [i \in 0..0 |-> x]
  <2>1. Q(g, 0)
    BY DEF Approximates
  <2> QED
    BY <2>1
<1>2. ASSUME NEW n \in Nat, n \in S PROVE n + 1 \in S
  <2>1. PICK g : Approximates(g, n, X, x, step)
    BY <1>2
  <2> DEFINE h == [i \in 0..n + 1 |-> IF i = n + 1 THEN step[n][g[n]] ELSE g[i]]
  <2>2. g[n] \in X /\ step[n][g[n]] \in X /\ \A i \in 0..n : g[i] \in X
    BY <2>1 DEF Approximates
  <2>3. h \in [0..n + 1 -> X] /\ h[0] = x
    BY <2>1, <2>2 DEF Approximates
  <2>4. ASSUME NEW i \in 0..(n + 1) - 1 PROVE h[i + 1] = step[i][h[i]]
    <3>1. CASE i = n
      BY <3>1
    <3>2. CASE i \in 0..n - 1
      BY <2>1, <3>2 DEF Approximates
    <3> QED
      BY <3>1, <3>2
  <2> HIDE DEF h
  <2>5. Approximates(h, n + 1, X, x, step)
    BY <2>3, <2>4 DEF Approximates
  <2> QED
    BY <2>5
<1>3. \A n \in Nat : \E g : Q(g, n)
  <2> HIDE DEF Q
  <2>1. \A n \in Nat : n \in S => n + 1 \in S
    BY <1>2
  <2> HIDE DEF S
  <2>2. Nat \subseteq S
    BY <1>1, <2>1, Induction
  <2> QED
    BY <2>2 DEF S
<1> DEFINE G(n) == CHOOSE g : Q(g, n)
           f == [n \in Nat |-> G(n)[n]]
<1>4. \A n \in Nat : Approximates(G(n), n, X, x, step)
  BY <1>3
<1> HIDE DEF G
<1>5. \A n \in Nat : G(n)[n] \in X
  BY <1>4 DEF Approximates
<1>6. f[0] = x
  BY <1>4 DEF Approximates
<1>7. ASSUME NEW n \in Nat PROVE f[n + 1] = step[n][f[n]]
  <2>1. G(n)[n] = G(n + 1)[n]
    BY <1>4, ApproximationsAgree
  <2>2. G(n + 1)[n + 1] = step[n][G(n + 1)[n]]
    <3>1. n + 1 \in Nat /\ n \in 0..(n + 1) - 1
      OBVIOUS
    <3> QED
      BY <1>4, <3>1 DEF Approximates
  <2> QED
    BY <2>1, <2>2
<1>8. f \in [Nat -> X]
  BY <1>5
<1> HIDE DEF f
<1> QED
  BY <1>6, <1>7, <1>8 DEF IsRecursive
=============================================================================
