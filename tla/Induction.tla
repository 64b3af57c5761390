----------------------------- MODULE Induction -----------------------------
(***************************************************************************)
(* Induction over the natural numbers for sets: what is to be shown of a   *)
(* number is that it is an element.                                        *)
(***************************************************************************)
EXTENDS Integers, WellFoundedInduction, TLAPS

\* A nonempty set of natural numbers has a least element.
LEMMA LeastNat ==
  ASSUME NEW S \in SUBSET Nat, S # {}
  PROVE  \E i \in S : \A j \in S : i <= j
<1> DEFINE Less == {ss \in Nat \X Nat : ss[1] < ss[2]}
<1>1. IsWellFoundedOn(Less, Nat)
  BY NatLessThanWellFounded, Zenon DEF OpToRel
<1>2. \A i, j \in Nat : j < i => <<j, i>> \in Less
  OBVIOUS
<1> HIDE DEF Less
<1>3. PICK i \in S : \A j \in S : ~(<<j, i>> \in Less)
  BY <1>1, WFMin, Zenon
<1>4. \A j \in S : ~(j < i)
  BY <1>2, <1>3, Zenon
<1> QED
  BY <1>4

\* A set that holds 0, and with a number below n the next one, holds 0..n.
LEMMA UpTo ==
  ASSUME NEW n \in Nat, NEW S, 0 \in S, \A i \in 0..(n - 1) : i \in S => i + 1 \in S
  PROVE  \A i \in 0..n : i \in S
<1> DEFINE Missing == {i \in 0..n : i \notin S}
<1> SUFFICES ASSUME Missing # {} PROVE FALSE
  BY Zenon
<1>1. Missing \in SUBSET Nat
  OBVIOUS
<1> HIDE DEF Missing
<1>2. PICK i \in Missing : \A j \in Missing : i <= j
  BY <1>1, LeastNat, Zenon
<1> USE DEF Missing
<1>3. i \in 0..n /\ i \notin S /\ i # 0
  BY <1>2, Zenon
<1>4. i - 1 \in 0..(n - 1) /\ i - 1 \in 0..n /\ ~(i <= i - 1) /\ (i - 1) + 1 = i
  BY <1>3
<1>5. i - 1 \in S
  BY <1>2, <1>4, Zenon
<1>6. (i - 1) + 1 \in S
  BY <1>4, <1>5, Zenon
<1> QED
  BY <1>3, <1>4, <1>6, Zenon

\* A set that holds 0, and with each number the next one, holds every number.
LEMMA Every ==
  ASSUME NEW S, 0 \in S, \A i \in Nat : i \in S => i + 1 \in S
  PROVE  \A n \in Nat : n \in S
<1> SUFFICES ASSUME NEW n \in Nat PROVE n \in S
  OBVIOUS
<1>1. \A i \in 0..(n - 1) : i \in S => i + 1 \in S
  OBVIOUS
<1>2. \A i \in 0..n : i \in S
  BY <1>1, UpTo, Zenon
<1> QED
  BY <1>2
=============================================================================
