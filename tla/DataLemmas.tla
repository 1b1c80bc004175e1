----------------------------- MODULE DataLemmas -----------------------------
(***************************************************************************)
(* Facts about sequences that the proofs about buffers and scans rest on.  *)
(***************************************************************************)
EXTENDS Integers, SequenceTheorems, WellFoundedInduction, TLAPS

(* Where a loop that looks for something in a sequence stops: a set of     *)
(* places has a first one.                                                 *)
LEMMA LeastNatural ==
  ASSUME NEW S, S \subseteq Nat, S # {}
  PROVE  \E x \in S : \A y \in S : x <= y
<1> DEFINE R == OpToRel(<, Nat)
<1>1. \A a, b \in Nat : <<a, b>> \in R <=> a < b
  BY DEF OpToRel
<1>2. IsWellFoundedOn(R, Nat)
  BY NatLessThanWellFounded
<1> HIDE DEF R
<1>3. \E x \in S : \A y \in S : ~(<<y, x>> \in R)
  BY <1>2, WFMin
<1>4. PICK x \in S : \A y \in S : ~(<<y, x>> \in R)
  BY <1>3
<1>5. \A y \in S : x <= y
  <2> TAKE y \in S
  <2>1. x \in Nat /\ y \in Nat /\ ~(<<y, x>> \in R)
    BY <1>4
  <2>2. ~(y < x)
    BY <1>1, <2>1, Zenon
  <2>3. QED
    BY <2>1, <2>2
<1>6. QED
  BY <1>5

(* The library's facts about a piece of a sequence and about two sequences *)
(* put together, with the places that lie in the sequence.                 *)
LEMMA SubSeqOfSeq ==
  ASSUME NEW S, NEW s \in Seq(S), NEW m \in Nat, NEW n \in Nat, m + n <= Len(s)
  PROVE  /\ SubSeq(s, m + 1, m + n) \in Seq(S) /\ Len(SubSeq(s, m + 1, m + n)) = n
         /\ \A i \in 1 .. n : SubSeq(s, m + 1, m + n)[i] = s[m + i]
<1> DEFINE L == Len(s)
<1> DEFINE p == SubSeq(s, m + 1, m + n)
<1>1. L \in Nat
  BY LenProperties
<1>2. \A k \in m + 1 .. m + n : k \in 1 .. L
  <2>1. m + n <= L
    OBVIOUS
  <2> HIDE DEF L
  <2>2. QED
    BY <1>1, <2>1
<1>3. \A k \in m + 1 .. m + n : s[k] \in S
  BY <1>2, ElementOfSeq
<1>4. m + 1 \in Int /\ m + n \in Int
  OBVIOUS
<1>5. /\ p \in Seq(S)
      /\ Len(p) = IF m + 1 <= m + n THEN m + n - (m + 1) + 1 ELSE 0
      /\ \A i \in 1 .. m + n - (m + 1) + 1 : p[i] = s[m + 1 + i - 1]
  BY <1>3, <1>4, SubSeqProperties
<1> HIDE DEF p, L
<1>6. m + n - (m + 1) + 1 = n
  OBVIOUS
<1>7. \A i \in 1 .. n : m + 1 + i - 1 = m + i
  OBVIOUS
<1>8. Len(p) = n
  BY <1>5
<1>9. \A i \in 1 .. n : p[i] = s[m + i]
  BY <1>5, <1>6, <1>7
<1>10. QED
  BY <1>5, <1>8, <1>9 DEF p

LEMMA ConcatOfSeq ==
  ASSUME NEW S, NEW s \in Seq(S), NEW t \in Seq(S)
  PROVE  /\ s \o t \in Seq(S) /\ Len(s \o t) = Len(s) + Len(t)
         /\ \A i \in 1 .. Len(s) : (s \o t)[i] = s[i]
         /\ \A i \in 1 .. Len(t) : (s \o t)[Len(s) + i] = t[i]
<1> DEFINE m == Len(s)
<1> DEFINE n == Len(t)
<1> DEFINE c == s \o t
<1>1. m \in Nat /\ n \in Nat
  BY LenProperties
<1>2. /\ c \in Seq(S) /\ Len(c) = m + n
      /\ \A i \in 1 .. m + n : c[i] = IF i <= m THEN s[i] ELSE t[i - m]
  BY ConcatProperties
<1> HIDE DEF m, n, c
<1>3. \A i \in 1 .. m : c[i] = s[i]
  BY <1>1, <1>2
<1>4. \A i \in 1 .. n : c[m + i] = t[i]
  <2> SUFFICES ASSUME NEW i \in 1 .. n PROVE c[m + i] = t[i]
    OBVIOUS
  <2> DEFINE k == m + i
  <2>1. k \in 1 .. m + n /\ ~(k <= m) /\ k - m = i
    BY <1>1
  <2> HIDE DEF k
  <2>2. c[k] = t[k - m]
    BY <1>2, <2>1
  <2>3. QED
    BY <2>1, <2>2 DEF k
<1>5. QED
  BY <1>2, <1>3, <1>4 DEF m, n, c

LEMMA FunctionIsSeq ==
  ASSUME NEW S, NEW n \in Nat, NEW f \in [1 .. n -> S]
  PROVE  f \in Seq(S)
BY SeqDef, Zenon

(* What is left of m places from a on, and from a later place.             *)
LEMMA LessLeft ==
  \A m \in Nat : \A a, b \in 1 .. m + 1 : a < b => m + 1 - b \in 0 .. (m + 1 - a) - 1
OBVIOUS
=============================================================================
