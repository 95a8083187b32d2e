--------------------------- MODULE ElementwiseMap ---------------------------
(***************************************************************************)
(* What a kernel call promises: a set of output words receives its values, *)
(* a few at a time and in any order.  No word receives any other value, no *)
(* word is written again with something else, no other word is touched.    *)
(***************************************************************************)
EXTENDS Integers

VARIABLES
    target,    \* the value every output word is to have, by address
    result     \* the words written so far, by address

vars == <<target, result>>

Init == DOMAIN result = {}

\* Some words that had no value yet get theirs.
Fill ==
    /\ target' = target
    /\ DOMAIN result \subseteq DOMAIN result'
    /\ DOMAIN result' \subseteq DOMAIN target
    /\ DOMAIN result' # DOMAIN result
    /\ result' = [a \in DOMAIN result' |->
                    IF a \in DOMAIN result THEN result[a] ELSE target[a]]

Spec == Init /\ [][Fill]_vars

=============================================================================
