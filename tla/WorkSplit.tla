------------------------------ MODULE WorkSplit ------------------------------
(***************************************************************************)
(* How the kernel preamble divides the outermost dimension among the QPUs. *)
(* Every QPU computes its own share from its number q and the size n of    *)
(* that dimension (rows, or 128-element groups of a vector); no two QPUs   *)
(* talk to each other, so the shares fit together only if the arithmetic   *)
(* does.  The code uses 8 QPUs, shifting by 3 where this module divides.   *)
(***************************************************************************)
EXTENDS Integers

CONSTANT NQ                       \* number of QPUs (8 in the code)

ASSUME NQAssumption == NQ \in Nat \ {0}

QPU == 0 .. NQ - 1

Base(n) == n \div NQ              \* r2 = n >> 3
Rem(n)  == n - Base(n) * NQ       \* r3 = n - (r2 << 3)

\* One bug the arithmetic could have: the first Rem(n) QPUs take one more, but
\* the starts of the later ones are not moved along.
StartNoRem(q, n) == q * Base(n)

\* First index of QPU q's block: q * base + (q < rem ? q : rem).
Start(q, n) == q * Base(n) + (IF q < Rem(n) THEN q ELSE Rem(n))

\* The number of indices in it: base + (q < rem ? 1 : 0).
Share(q, n) == Base(n) + (IF q < Rem(n) THEN 1 ELSE 0)

Block(q, n) == { i \in Int : Start(q, n) <= i /\ i < Start(q, n) + Share(q, n) }

\* The blocks follow one another without gap or overlap and end at n.
BlocksAbut(n) ==
    /\ Start(0, n) = 0
    /\ \A q \in QPU : Start(q + 1, n) = Start(q, n) + Share(q, n)
    /\ Start(NQ, n) = n

=============================================================================
