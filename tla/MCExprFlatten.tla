---------------------------- MODULE MCExprFlatten ----------------------------
(***************************************************************************)
(* All expression trees of up to four distinct leaves, each a tensor or a  *)
(* scalar, and all those of five tensors, run on three assignments of      *)
(* numbers to the leaves.                                                  *)
(***************************************************************************)
EXTENDS ExprFlatten

\* The nodes of x and of y under an operator.
Op(o, x, y) ==
    x \o [i \in DOMAIN y |-> IF y[i].kind = "op"
                             THEN [y[i] EXCEPT !.a = @ + Len(x), !.b = @ + Len(x)] ELSE y[i]]
      \o <<[kind |-> "op", op |-> o, a |-> Len(x), b |-> Len(x) + Len(y)]>>

\* Trees over the leaves numbered from first to last, of the given kinds.
RECURSIVE Trees(_, _, _)
Trees(first, last, kinds) ==
    IF first = last
    THEN {<<[kind |-> k, name |-> first]>> : k \in kinds}
    ELSE UNION {{Op(o, x, y) : o \in Ops, x \in Trees(first, cut, kinds),
                               y \in Trees(cut + 1, last, kinds)} : cut \in first .. last - 1}

MCExprs == UNION { Trees(1, n, {"tensor", "scalar"}) : n \in 1 .. 4 }
             \cup Trees(1, 5, {"tensor"})

MCEnvs == { <<2, 3, 5, 7, 11>>, <<-3, 4, 10, 6, -5>>, <<13, -7, 3, 9, 2>> }

=============================================================================
