------------------------------ MODULE KernelCall ------------------------------
(***************************************************************************)
(* What a caller of the generated <name>_kernel function is promised: the  *)
(* function runs the kernel's program once for every q below NQ, each with *)
(* the arguments of this call, and returns when all of them have run.      *)
(***************************************************************************)
EXTENDS Integers

CONSTANTS NQ, Args

VARIABLES
    args,      \* the arguments of the call
    active,    \* is a call under way?
    ran        \* for every q whose program has run, the arguments it saw

vars == <<args, active, ran>>

Nobody == [q \in {} |-> 0]

Init == args \in Args /\ active = FALSE /\ ran = Nobody

Invoke ==
    /\ ~active /\ active' = TRUE
    /\ args' \in Args
    /\ ran' = Nobody

Run ==
    /\ active
    /\ \E q \in 0 .. NQ - 1 :
         /\ q \notin DOMAIN ran
         /\ ran' = [p \in DOMAIN ran \cup {q} |-> IF p = q THEN args ELSE ran[p]]
    /\ UNCHANGED <<args, active>>

Return ==
    /\ active /\ DOMAIN ran = 0 .. NQ - 1
    /\ active' = FALSE
    /\ UNCHANGED <<args, ran>>

Next == Invoke \/ Run \/ Return

Spec == Init /\ [][Next]_vars

=============================================================================
