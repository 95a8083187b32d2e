---------------------------- MODULE FormatMerge ----------------------------
(***************************************************************************)
(* The type of a binary operation (Frontend.cpp, Type.cpp): the operand    *)
(* without a level is broadcast along it, and the two orders of levels are *)
(* merged into one, from the outermost level inwards.                      *)
(*                                                                         *)
(* A format is [pos, bc]: pos is its index_order_map, the place of each    *)
(* ordered level; bc are the levels it is broadcast along.                 *)
(***************************************************************************)
EXTENDS Integers, Sequences, FiniteSets

CONSTANTS Level,      \* level names, as numbers in the order of the strings
          Formats     \* the formats of the operands

FormatOK(f) ==
    /\ DOMAIN f.pos \subseteq Level /\ f.bc \subseteq Level
    /\ f.pos \in [DOMAIN f.pos -> Nat]
    /\ DOMAIN f.pos \cap f.bc = {}
    /\ \A x, y \in DOMAIN f.pos : f.pos[x] = f.pos[y] => x = y

ASSUME FormatsAssumption == Level \subseteq Int /\ \A f \in Formats : FormatOK(f)

VARIABLES a, b,         \* the operands' formats
          remaining,    \* levels not placed yet
          merged,       \* ordered levels placed
          broadcasts,   \* levels neither operand has
          phase         \* "operands", "formats", "merge", "done" or "refused"

vars == <<a, b, remaining, merged, broadcasts, phase>>

Levels(f) == DOMAIN f.pos \cup f.bc

Init ==
    /\ a \in Formats /\ b \in Formats
    /\ remaining = {} /\ merged = << >> /\ broadcasts = {} /\ phase = "operands"

\* Mutant: each operand is broadcast along what the other one misses.
BroadcastSwapped ==
    /\ phase = "operands"
    /\ a' = [a EXCEPT !.bc = @ \cup (Levels(a) \ Levels(b))]
    /\ b' = [b EXCEPT !.bc = @ \cup (Levels(b) \ Levels(a))]
    /\ phase' = "formats"
    /\ UNCHANGED <<remaining, merged, broadcasts>>

\* compatible_and_broadcast: Bc::make for every level one operand misses.
Broadcast ==
    /\ phase = "operands"
    /\ a' = [a EXCEPT !.bc = @ \cup (Levels(b) \ Levels(a))]
    /\ b' = [b EXCEPT !.bc = @ \cup (Levels(a) \ Levels(b))]
    /\ phase' = "formats"
    /\ UNCHANGED <<remaining, merged, broadcasts>>

\* x before y in one order and after it in the other.
Discordant(x, y) ==
    /\ x \in DOMAIN a.pos \cap DOMAIN b.pos /\ y \in DOMAIN a.pos \cap DOMAIN b.pos
    /\ \/ a.pos[x] < a.pos[y] /\ b.pos[x] > b.pos[y]
       \/ b.pos[x] < b.pos[y] /\ a.pos[x] > a.pos[y]

Compatible == Levels(a) = Levels(b) /\ \A x, y \in Level : ~Discordant(x, y)

Refuse ==
    /\ phase = "formats" /\ ~Compatible
    /\ phase' = "refused"
    /\ UNCHANGED <<a, b, remaining, merged, broadcasts>>

BeginMerge ==
    /\ phase = "formats" /\ Compatible
    /\ remaining' = Levels(a) /\ phase' = "merge"
    /\ UNCHANGED <<a, b, merged, broadcasts>>

Before(f, x, y) == x \in DOMAIN f.pos /\ y \in DOMAIN f.pos /\ f.pos[x] < f.pos[y]
Precedes(x, y) == Before(a, x, y) \/ Before(b, x, y)

\* Mutant: the second order is forgotten.
FreeInA == {x \in remaining : \A y \in remaining : ~Before(a, y, x)}

\* Levels with no predecessor left; the first by name is taken.
Free == {x \in remaining : \A y \in remaining : ~Precedes(y, x)}

\* Mutant: a level one operand is broadcast along is not ordered.
PlaceEither ==
    /\ phase = "merge"
    /\ \E x \in Free :
         /\ \A y \in Free : x <= y
         /\ remaining' = remaining \ {x}
         /\ IF x \in a.bc \/ x \in b.bc
            THEN broadcasts' = broadcasts \cup {x} /\ UNCHANGED merged
            ELSE merged' = Append(merged, x) /\ UNCHANGED broadcasts
    /\ UNCHANGED <<a, b, phase>>

Place ==
    /\ phase = "merge"
    /\ \E x \in Free :
         /\ \A y \in Free : x <= y
         /\ remaining' = remaining \ {x}
         /\ IF x \in a.bc /\ x \in b.bc
            THEN broadcasts' = broadcasts \cup {x} /\ UNCHANGED merged
            ELSE merged' = Append(merged, x) /\ UNCHANGED broadcasts
    /\ UNCHANGED <<a, b, phase>>

Finish ==
    /\ phase = "merge" /\ remaining = {}
    /\ phase' = "done"
    /\ UNCHANGED <<a, b, remaining, merged, broadcasts>>

Next == Broadcast \/ Refuse \/ BeginMerge \/ Place \/ Finish

Spec == Init /\ [][Next]_vars

FairSpec == Spec /\ WF_vars(Next)

-----------------------------------------------------------------------------
(* Properties.                                                             *)

\* Type invariant: a level is in one place only, and between them the places
\* hold every level of the operands.
Placed == {merged[i] : i \in DOMAIN merged}
TypeOK ==
    /\ FormatOK(a) /\ FormatOK(b)
    /\ remaining \subseteq Level /\ broadcasts \subseteq Level /\ merged \in Seq(Level)
    /\ phase \in {"operands", "formats", "merge", "done", "refused"}
    /\ phase \in {"merge", "done"} => Levels(a) = Levels(b)

\* "Cycle while merging formats" cannot happen: as long as levels remain, one of
\* them has no predecessor, whatever the two orders are.
NeverStuck == phase = "merge" /\ remaining # {} => Free # {}

\* The merged order contradicts neither operand's: no level stands before one
\* that must come before it.
OrdersKept == \A i, j \in DOMAIN merged : i < j => ~Precedes(merged[j], merged[i])

\* Whatever the two orders are, every round has a level to place and none is
\* placed too early.
MergesRight == NeverStuck /\ OrdersKept

\* The merge ends, with every level placed once, as an ordered one exactly if an
\* operand has it as one; or it was refused because the orders contradict.
Covers ==
    /\ Placed \cap broadcasts = {}
    /\ Placed = DOMAIN a.pos \cup DOMAIN b.pos
    /\ Placed \cup broadcasts = Levels(a)
MergeEnds == <>(\/ phase = "done" /\ Covers
                \/ phase = "refused" /\ \E x, y \in Level : Discordant(x, y))
=============================================================================
