------------------------- MODULE FormatMergeProofs -------------------------
(***************************************************************************)
(* The merge of two level orders is never stuck and keeps both orders, for *)
(* every set of levels and all formats.                                    *)
(*                                                                         *)
(* Why it is not stuck: let x be the outermost remaining level of the one  *)
(* order, y of the other.  If x is not in the second order it has no       *)
(* predecessor at all, nor has y if it is not in the first.  Otherwise     *)
(* both are in both, x at y or before it in the first order, y at x or     *)
(* before it in the second; the orders agree, so x and y are the same.     *)
(***************************************************************************)
EXTENDS FormatMerge, WellFoundedInduction, TLAPS

\* A set of levels that all have a place has an outermost one.
LEMMA Outermost ==
    ASSUME NEW S, NEW f \in [S -> Nat], NEW T \in SUBSET S, T # {}
    PROVE  \E x \in T : \A y \in T : f[x] <= f[y]
<1> DEFINE I == {f[x] : x \in T}
           R == OpToRel(<, Nat)
<1>1. I \in SUBSET Nat /\ I # {}
  OBVIOUS
<1>2. IsWellFoundedOn(R, Nat)
  BY NatLessThanWellFounded
<1> HIDE DEF I, R
<1>3. PICK m \in I : \A n \in I : ~(<<n, m>> \in R)
  <2>1. \E m \in I : \A n \in I : ~(<<n, m>> \in R)
    BY <1>1, <1>2, WFMin, Zenon
  <2> QED BY <2>1
<1>4. \A n, k \in Nat : n < k => <<n, k>> \in R
  <2> SUFFICES ASSUME NEW n \in Nat, NEW k \in Nat, n < k
               PROVE  <<n, k>> \in {ss \in Nat \X Nat : ss[1] < ss[2]}
    BY DEF R, OpToRel
  <2> QED OBVIOUS
<1>5. \A n \in I : m <= n
  <2> SUFFICES ASSUME NEW n \in I PROVE m <= n
    OBVIOUS
  <2>1. n \in Nat /\ m \in Nat
    BY <1>1
  <2>2. ~(<<n, m>> \in R)
    BY <1>3
  <2>3. ~(n < m)
    BY <2>1, <2>2, <1>4
  <2> QED BY <2>1, <2>3
<1> QED
  BY <1>5 DEF I

-----------------------------------------------------------------------------
(* The invariant.                                                          *)

\* The operands are formats with the same levels once they are merged, in orders
\* that agree.
Agree == phase \in {"merge", "done"} => Compatible

\* No level that remains must come before one that was placed.
Downwards == \A x \in Placed, y \in remaining : ~Precedes(y, x)

Early == phase \in {"operands", "formats"} => merged = << >>

IInv == TypeOK /\ Agree /\ Early /\ OrdersKept /\ Downwards

\* What progress rests on.
LEMMA SomeFree ==
    ASSUME FormatOK(a), FormatOK(b), Compatible, remaining \in SUBSET Level, remaining # {}
    PROVE  Free # {}
<1> DEFINE A == DOMAIN a.pos
           B == DOMAIN b.pos
<1> SUFFICES \E x \in remaining : \A y \in remaining : ~Precedes(y, x)
  BY DEF Free
<1>1. CASE remaining \cap A = {}
  <2>1. CASE remaining \cap B = {}
    BY <1>1, <2>1 DEF Precedes, Before
  <2>2. CASE remaining \cap B # {}
    <3>1. PICK x \in remaining \cap B : \A y \in remaining \cap B : b.pos[x] <= b.pos[y]
      BY <2>2, Outermost DEF FormatOK
    <3>2. \A y \in remaining : ~Precedes(y, x)
      BY <1>1, <3>1 DEF Precedes, Before, FormatOK
    <3> QED BY <3>2
  <2> QED BY <2>1, <2>2
<1>2. CASE remaining \cap A # {} /\ remaining \cap B = {}
  <2>1. PICK x \in remaining \cap A : \A y \in remaining \cap A : a.pos[x] <= a.pos[y]
    BY <1>2, Outermost DEF FormatOK
  <2>2. \A y \in remaining : ~Precedes(y, x)
    BY <1>2, <2>1 DEF Precedes, Before, FormatOK
  <2> QED BY <2>2
<1>3. CASE remaining \cap A # {} /\ remaining \cap B # {}
  <2>1. PICK x \in remaining \cap A : \A z \in remaining \cap A : a.pos[x] <= a.pos[z]
    BY <1>3, Outermost DEF FormatOK
  <2>2. PICK y \in remaining \cap B : \A z \in remaining \cap B : b.pos[y] <= b.pos[z]
    <3>1. b.pos \in [B -> Nat] /\ remaining \cap B \in SUBSET B /\ remaining \cap B # {}
      BY <1>3 DEF FormatOK
    <3> HIDE DEF B
    <3> QED BY <3>1, Outermost
  <2>3. CASE x \notin B
    <3>1. \A z \in remaining : ~Precedes(z, x)
      BY <2>1, <2>3 DEF Precedes, Before, FormatOK
    <3> QED BY <3>1
  <2>4. CASE y \notin A
    <3>1. \A z \in remaining : ~Precedes(z, y)
      BY <2>2, <2>4 DEF Precedes, Before, FormatOK
    <3> QED BY <3>1
  <2>5. CASE x \in B /\ y \in A
    <3>1. a.pos[x] <= a.pos[y] /\ b.pos[y] <= b.pos[x]
      BY <2>1, <2>2, <2>5
    <3>2. /\ a.pos[x] \in Nat /\ a.pos[y] \in Nat
          /\ b.pos[x] \in Nat /\ b.pos[y] \in Nat
      BY <2>5 DEF FormatOK
    <3>3. ~Discordant(x, y)
      BY DEF Compatible
    <3>4. x = y
      BY <2>5, <3>1, <3>2, <3>3 DEF Discordant, FormatOK
    <3>5. \A z \in remaining : ~Precedes(z, x)
      BY <2>1, <2>2, <3>4 DEF Precedes, Before, FormatOK
    <3> QED BY <3>5
  <2> QED BY <2>3, <2>4, <2>5
<1> QED BY <1>1, <1>2, <1>3

LEMMA InitInv == Init => IInv
<1> SUFFICES ASSUME Init PROVE IInv
  OBVIOUS
<1>1. FormatOK(a) /\ FormatOK(b)
  BY FormatsAssumption DEF Init
<1> QED
  BY <1>1 DEF Init, IInv, TypeOK, Agree, Early, OrdersKept, Downwards, Placed

\* Broadcasting adds to the levels an operand is not ordered by.
LEMMA BroadcastOK ==
    ASSUME IInv, Broadcast
    PROVE  IInv'
<1>1. /\ a'.pos = a.pos /\ a'.bc = a.bc \cup (Levels(b) \ Levels(a))
      /\ b'.pos = b.pos /\ b'.bc = b.bc \cup (Levels(a) \ Levels(b))
  BY SMTT(30) DEF Broadcast, IInv, TypeOK, FormatOK
<1>2. FormatOK(a)' /\ FormatOK(b)'
  BY <1>1 DEF IInv, TypeOK, FormatOK, Levels
<1>3. TypeOK'
  BY <1>2 DEF Broadcast, IInv, TypeOK
<1>4. merged' = << >> /\ phase' = "formats"
  BY DEF Broadcast, IInv, Early
<1> QED
  BY <1>3, <1>4 DEF IInv, Agree, Early, OrdersKept, Downwards, Placed

LEMMA PlaceOK ==
    ASSUME IInv, Place
    PROVE  IInv'
<1>1. PICK x \in Free :
        /\ remaining' = remaining \ {x}
        /\ \/ merged' = merged /\ broadcasts' = broadcasts \cup {x}
           \/ merged' = Append(merged, x) /\ broadcasts' = broadcasts
  BY DEF Place
<1>2. x \in remaining /\ x \in Level /\ \A y \in remaining : ~Precedes(y, x)
  BY <1>1 DEF Free, IInv, TypeOK
<1>3. UNCHANGED <<a, b, phase>> /\ phase = "merge" /\ merged \in Seq(Level)
  BY DEF Place, IInv, TypeOK
<1>4. TypeOK'
  BY <1>1, <1>2, <1>3 DEF IInv, TypeOK, FormatOK, Levels
<1>5. \A y, z : Precedes(y, z)' <=> Precedes(y, z)
  BY <1>3 DEF Precedes, Before
<1>6. Agree' /\ Early'
  BY <1>3 DEF IInv, Agree, Early, Compatible, Levels, Discordant
<1>7. CASE merged' = merged
  BY <1>1, <1>5, <1>4, <1>6, <1>7 DEF IInv, OrdersKept, Downwards, Placed
<1>8. CASE merged' = Append(merged, x)
  <2>1. /\ DOMAIN merged' = 1 .. Len(merged) + 1 /\ DOMAIN merged = 1 .. Len(merged)
        /\ Len(merged) \in Nat
        /\ merged'[Len(merged) + 1] = x
        /\ \A i \in 1 .. Len(merged) : merged'[i] = merged[i]
    BY <1>3, <1>8
  <2>2. OrdersKept'
    <3> SUFFICES ASSUME NEW i \in DOMAIN merged', NEW j \in DOMAIN merged', i < j
                 PROVE  ~Precedes(merged'[j], merged'[i])
      BY <1>5 DEF OrdersKept
    <3>1. CASE j = Len(merged) + 1
      <4>1. merged'[i] \in Placed /\ merged'[j] = x
        BY <2>1, <3>1 DEF Placed
      <4> QED BY <1>2, <4>1 DEF IInv, Downwards
    <3>2. CASE j # Len(merged) + 1
      <4>1. i \in DOMAIN merged /\ j \in DOMAIN merged
        BY <2>1, <3>2
      <4> QED BY <2>1, <4>1 DEF IInv, OrdersKept
    <3> QED BY <3>1, <3>2
  <2>3. Placed' \subseteq Placed \cup {x}
    BY <2>1 DEF Placed
  <2>4. Downwards'
    BY <1>1, <1>2, <1>5, <2>3 DEF IInv, Downwards
  <2> QED BY <1>4, <1>6, <2>2, <2>4 DEF IInv
<1> QED BY <1>1, <1>7, <1>8

LEMMA StepInv == IInv /\ [Next]_vars => IInv'
<1> SUFFICES ASSUME IInv, [Next]_vars PROVE IInv'
  OBVIOUS
<1>1. CASE Broadcast
  BY <1>1, BroadcastOK
<1>2. CASE Refuse
  BY <1>2 DEF Refuse, IInv, TypeOK, FormatOK, Levels, Agree, Early, OrdersKept, Downwards,
              Placed, Precedes, Before
<1>3. CASE BeginMerge
  <2>1. UNCHANGED <<a, b, merged, broadcasts>> /\ merged = << >> /\ phase' = "merge"
        /\ remaining' = Levels(a) /\ Compatible
    BY <1>3 DEF BeginMerge, IInv, Early
  <2>2. TypeOK' /\ Agree'
    BY <2>1 DEF IInv, TypeOK, FormatOK, Levels, Agree, Compatible, Discordant
  <2> QED
    BY <2>1, <2>2 DEF IInv, Early, OrdersKept, Downwards, Placed
<1>4. CASE Place
  BY <1>4, PlaceOK
<1>5. CASE Finish
  BY <1>5 DEF Finish, IInv, TypeOK, FormatOK, Levels, Agree, Compatible, Discordant, Early,
              OrdersKept, Downwards, Placed, Precedes, Before
<1>6. CASE UNCHANGED vars
  BY <1>6 DEF vars, IInv, TypeOK, FormatOK, Levels, Agree, Compatible, Discordant, Early,
              OrdersKept, Downwards, Placed, Precedes, Before
<1> QED
  BY <1>1, <1>2, <1>3, <1>4, <1>5, <1>6 DEF Next

\* The invariant holds throughout.
THEOREM Invariant == Spec => []IInv
<1> QED BY InitInv, StepInv, PTL DEF Spec

\* Formats stay formats while they are broadcast and merged: distinct places, no
\* level both ordered and broadcast (make_format, Bc::make).
THEOREM TypeCorrect == Spec => []TypeOK
<1>1. IInv => TypeOK
  BY DEF IInv
<1> QED BY <1>1, Invariant, PTL

\* The assertion "Cycle while merging formats" of make_format never fails.
THEOREM NeverCycles == Spec => []NeverStuck
<1>1. IInv => NeverStuck
  <2> SUFFICES ASSUME IInv, phase = "merge", remaining # {} PROVE Free # {}
    BY DEF NeverStuck
  <2> QED BY SomeFree DEF IInv, TypeOK, Agree
<1> QED BY <1>1, Invariant, PTL

\* The order make_format returns contradicts neither operand's.
THEOREM KeepsOrders == Spec => []OrdersKept
<1>1. IInv => OrdersKept
  BY DEF IInv
<1> QED BY <1>1, Invariant, PTL

\* So make_format always has a level to take, and never takes one too early.
THEOREM Merges == Spec => []MergesRight
<1>1. NeverStuck /\ OrdersKept => MergesRight
  BY DEF MergesRight
<1> QED BY <1>1, NeverCycles, KeepsOrders, PTL
=============================================================================
