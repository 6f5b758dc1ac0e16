------------------------------ MODULE ListLemmas ------------------------------
(***************************************************************************)
(* Lemmas about the operators on lists and sets of positions that the      *)
(* models are built of, for the modules of proofs.                         *)
(***************************************************************************)
EXTENDS Integers, SequencesExt, SequenceTheorems, WellFoundedInduction, TLAPS

(* Removing one entry of a list closes the gap and keeps everything else:  *)
(* what LinkedList.Remove does for !close, !drop and a failed !switch.     *)
LEMMA RemoveAtLemma ==
  ASSUME NEW S, NEW s \in Seq(S), NEW i \in 1 .. Len(s)
  PROVE  /\ RemoveAt(s, i) \in Seq(S)
         /\ Len(RemoveAt(s, i)) = Len(s) - 1
         /\ \A j \in 1 .. Len(s) - 1 :
              RemoveAt(s, i)[j] = IF j < i THEN s[j] ELSE s[j + 1]
<1> DEFINE a == SubSeq(s, 1, i - 1)
           b == SubSeq(s, i + 1, Len(s))
<1>1. /\ a \in Seq(S) /\ Len(a) = i - 1
      /\ \A j \in 1 .. i - 1 : a[j] = s[j]
  BY SubSeqProperties
<1>2. /\ b \in Seq(S) /\ Len(b) = Len(s) - i
      /\ \A j \in 1 .. Len(s) - i : b[j] = s[i + j]
  BY SubSeqProperties
<1>3. /\ a \o b \in Seq(S)
      /\ Len(a \o b) = Len(s) - 1
      /\ \A j \in 1 .. Len(s) - 1 :
           (a \o b)[j] = IF j < i THEN s[j] ELSE s[j + 1]
  <2> HIDE DEF a, b
  <2>1. /\ a \o b \in Seq(S) /\ Len(a \o b) = Len(a) + Len(b)
        /\ \A j \in 1 .. Len(a) + Len(b) :
             (a \o b)[j] = IF j <= Len(a) THEN a[j] ELSE b[j - Len(a)]
    BY <1>1, <1>2, ConcatProperties
  <2>2. ASSUME NEW j \in 1 .. Len(s) - 1
        PROVE  (a \o b)[j] = IF j < i THEN s[j] ELSE s[j + 1]
    <3>1. CASE j < i
      BY <3>1, <2>1, <1>1, <1>2
    <3>2. CASE ~(j < i)
      <4>1. j - (i - 1) \in 1 .. Len(s) - i
        BY <3>2
      <4>2. b[j - (i - 1)] = s[i + (j - (i - 1))]
        BY <4>1, <1>2
      <4> QED BY <3>2, <4>1, <4>2, <2>1, <1>1, <1>2
    <3> QED BY <3>1, <3>2
  <2> QED BY <2>1, <2>2, <1>1, <1>2
<1> QED BY <1>3 DEF RemoveAt

(* A non-empty set of indexes has a least element: the first match.        *)
LEMMA MinInSet ==
  ASSUME NEW S \in SUBSET Nat, S # {}
  PROVE  Min(S) \in S /\ \A n \in S : Min(S) <= n
<1> DEFINE R == {ss \in Nat \X Nat : ss[1] < ss[2]}
<1>1. IsWellFoundedOn(R, Nat)
  BY NatLessThanWellFounded, Zenon DEF OpToRel
<1>2. PICK m \in S : \A n \in S : ~ (<<n, m>> \in R)
  <2> HIDE DEF R
  <2> QED BY <1>1, WFMin
<1>3. ASSUME NEW n \in S PROVE m <= n
  <2>1. n \in Nat /\ m \in Nat
    OBVIOUS
  <2>2. n < m => <<n, m>> \in R
    BY <2>1
  <2> QED BY <1>2, <2>1, <2>2
<1> QED BY <1>3 DEF Min

(* The greatest element of a set of positions, once it is known: the       *)
(* innermost call of a kind.                                               *)
LEMMA MaxOfSet ==
  ASSUME NEW S \in SUBSET Nat, NEW m \in S, \A n \in S : n <= m
  PROVE  Max(S) = m
<1>1. \A n \in S : m >= n
  OBVIOUS
<1>2. Max(S) \in S /\ \A n \in S : Max(S) >= n
  BY <1>1, Zenon DEF Max
<1>3. Max(S) >= m /\ Max(S) <= m /\ Max(S) \in Nat /\ m \in Nat
  BY <1>2
<1> QED
  BY <1>3

(* A non-empty set of positions up to n has a greatest one: the last match. *)
LEMMA MaxInSet ==
  ASSUME NEW n \in Nat, NEW S \in SUBSET (0 .. n), S # {}
  PROVE  Max(S) \in S /\ \A x \in S : x <= Max(S)
<1> DEFINE T == {n - x : x \in S}
<1>1. T \in SUBSET Nat /\ T # {}
  OBVIOUS
<1>2. Min(T) \in T /\ \A t \in T : Min(T) <= t
  BY <1>1, MinInSet
<1>3. PICK m \in S : Min(T) = n - m
  BY <1>2
<1>4. \A x \in S : x <= m
  <2> TAKE x \in S
  <2>1. n - x \in T
    OBVIOUS
  <2>2. n - m <= n - x
    BY <1>2, <1>3, <2>1
  <2> QED
    BY <2>2
<1>5. Max(S) = m
  <2>1. S \in SUBSET Nat
    OBVIOUS
  <2> HIDE DEF T
  <2> QED
    BY <1>4, <2>1, MaxOfSet
<1> QED
  BY <1>4, <1>5

(* A loop that starts in a set and does not leave it has a value after      *)
(* every turn: the equation of its recursive function has a solution.      *)
LEMMA LoopExists ==
  ASSUME NEW T, NEW b \in T, NEW n \in Nat, NEW step \in [1 .. n -> [T -> T]]
  PROVE  \E f \in [0 .. n -> T] :
           /\ f[0] = b
           /\ \A k \in 1 .. n : f[k] = step[k][f[k - 1]]
<1> DEFINE Upto(m, f) == /\ f \in [0 .. m -> T] /\ f[0] = b
                         /\ \A k \in 1 .. m : f[k] = step[k][f[k - 1]]
           Without == {m \in 0 .. n : ~ \E f : Upto(m, f)}
<1>1. ASSUME Without # {} PROVE FALSE
  <2>1. Without \in SUBSET Nat
    OBVIOUS
  <2>2. PICK m \in Without : \A k \in Without : m <= k
    <3> HIDE DEF Without
    <3> QED BY <1>1, <2>1, MinInSet
  <2>3. m \in 0 .. n /\ ~ \E f : Upto(m, f)
    OBVIOUS
  <2>4. m # 0
    <3> DEFINE h == [k \in 0 .. 0 |-> b]
    <3>1. h \in [0 .. 0 -> T] /\ h[0] = b
      OBVIOUS
    <3>2. \A k \in 1 .. 0 : FALSE
      OBVIOUS
    <3>3. Upto(0, h)
      <4> HIDE DEF h
      <4> QED BY <3>1, <3>2
    <3> QED BY <2>3, <3>3
  <2>5. m - 1 \in 0 .. n /\ m - 1 \notin Without
    <3>1. m - 1 \in 0 .. n /\ ~ (m <= m - 1)
      BY <2>3, <2>4
    <3> HIDE DEF Without
    <3> QED BY <2>2, <3>1
  <2>6. PICK f : Upto(m - 1, f)
    BY <2>5
  <2> DEFINE g == [k \in 0 .. m |-> IF k = m THEN step[m][f[m - 1]] ELSE f[k]]
  <2>7. g \in [0 .. m -> T]
    <3>1. \A k \in 0 .. m - 1 : f[k] \in T
      BY <2>6
    <3>2. m \in 1 .. n /\ m - 1 \in 0 .. m - 1
      BY <2>3, <2>4
    <3>3. f[m - 1] \in T
      BY <3>1, <3>2
    <3>4. step[m][f[m - 1]] \in T
      BY <3>2, <3>3
    <3>5. \A k \in 0 .. m : k = m \/ k \in 0 .. m - 1
      BY <2>3
    <3> QED BY <3>1, <3>4, <3>5
  <2>8. g[0] = b /\ \A k \in 1 .. m : g[k] = step[k][g[k - 1]]
    <3>1. m \in 1 .. n /\ f[0] = b
      BY <2>3, <2>4, <2>6
    <3>2. g[0] = b
      BY <3>1
    <3>3. ASSUME NEW k \in 1 .. m PROVE g[k] = step[k][g[k - 1]]
      <4>1. g[k - 1] = f[k - 1]
        BY <3>1
      <4>2. CASE k = m
        BY <3>1, <4>1, <4>2
      <4>3. CASE k # m
        <5>1. k \in 1 .. m - 1
          BY <3>1, <4>3
        <5>2. f[k] = step[k][f[k - 1]]
          BY <5>1, <2>6
        <5> QED BY <3>1, <4>1, <4>3, <5>2
      <4> QED BY <4>2, <4>3
    <3> QED BY <3>2, <3>3
  <2> QED BY <2>3, <2>7, <2>8
<1>2. n \notin Without
  BY <1>1
<1>3. PICK f : Upto(n, f)
  BY <1>2
<1> QED BY <1>3

(* What holds before a loop and is kept by every turn of it holds after.   *)
LEMMA LoopKeeps ==
  ASSUME NEW T, NEW n \in Nat, NEW f, f[0] \in T,
         \A k \in 1 .. n : f[k - 1] \in T => f[k] \in T
  PROVE  \A k \in 0 .. n : f[k] \in T
<1> DEFINE Out == {k \in 0 .. n : f[k] \notin T}
<1>1. ASSUME Out # {} PROVE FALSE
  <2>1. Out \in SUBSET Nat
    OBVIOUS
  <2>2. PICK m \in Out : \A k \in Out : m <= k
    <3> HIDE DEF Out
    <3> QED BY <1>1, <2>1, MinInSet
  <2>3. m \in 1 .. n /\ m - 1 \in 0 .. n /\ m - 1 \notin Out
    BY <2>2
  <2> QED BY <2>2, <2>3
<1> QED BY <1>1

=============================================================================
