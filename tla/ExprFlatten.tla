----------------------------- MODULE ExprFlatten -----------------------------
(***************************************************************************)
(* From an expression tree to the steps of a kernel.                       *)
(*                                                                         *)
(* A kernel has one set of accumulators, so the compiler turns the tree    *)
(* into a straight line of steps, each of which sets the accumulator or    *)
(* combines it with a leaf (a tensor or a scalar) or with a product of a   *)
(* tensor and a scalar.  The steps are then run in order (on one element   *)
(* here; QpuKernel runs them on a whole slice).                            *)
(*                                                                         *)
(* An expression is the sequence of its nodes, each after the operands it  *)
(* points to and the root last: [kind |-> "tensor" or "scalar", name |-> n] *)
(* or [kind |-> "op", op |-> o, a |-> left, b |-> right].                  *)
(***************************************************************************)
EXTENDS Integers, Sequences

CONSTANTS
    Exprs,      \* the expressions compiled
    Envs        \* assignments of numbers to the leaves, for running the steps

None == 0        \* no scalar: leaves are numbered from 1
Ops  == {"add", "sub", "mul"}

Node == [kind : {"tensor", "scalar"}, name : Nat \ {None}]
          \cup [kind : {"op"}, op : Ops, a : Nat \ {0}, b : Nat \ {0}]

\* Operands stand before their operator, and every node but the last is one.
IsTree(e) ==
    /\ e \in Seq(Node) /\ e # << >>
    /\ \A i \in DOMAIN e : e[i].kind = "op" => e[i].a < i /\ e[i].b < i
    /\ \A i \in 1 .. Len(e) - 1 : \E j \in i + 1 .. Len(e) :
         e[j].kind = "op" /\ i \in {e[j].a, e[j].b}

ASSUME ExprAssumption ==
    /\ \A e \in Exprs : IsTree(e)
    /\ \A v \in Envs, e \in Exprs : \A i \in DOMAIN e : e[i].kind # "op" => v[e[i].name] \in Int

VARIABLES
    expr,       \* the tree assigned to the output
    phase,      \* "compile", then "rejected", or "run" and "done"
    steps,      \* the steps it became
    ip,         \* the next step to run
    acc         \* the accumulator under each assignment

vars == <<expr, phase, steps, ip, acc>>

-----------------------------------------------------------------------------
(* The compiler.                                                           *)

Leaf(e, i)   == e[i].kind # "op"
Scalar(e, i) == e[i].kind = "scalar"

\* A product of a tensor and a scalar, either way round, is one step.
FusedMul(e, i) ==
    /\ e[i].kind = "op" /\ e[i].op = "mul"
    /\ Leaf(e, e[i].a) /\ Leaf(e, e[i].b)
    /\ Scalar(e, e[i].a) # Scalar(e, e[i].b)

Simple(e, i) == Leaf(e, i) \/ FusedMul(e, i)

\* The step that sets the accumulator to a simple expression, or applies op to it.
MakeStep(e, i, init, op) ==
    IF Leaf(e, i)
    THEN [leaf |-> e[i].name, scalar |-> None, init |-> init, op |-> op]
    ELSE LET scalarLeft == Scalar(e, e[i].a)
             a == e[e[i].a].name
             b == e[e[i].b].name
         IN  [leaf |-> IF scalarLeft THEN b ELSE a, scalar |-> IF scalarLeft THEN a ELSE b,
              init |-> init, op |-> op]

\* The right-hand steps as they are: they start afresh and lose the left-hand side.
Restarted(rhs, op) == rhs

\* The right-hand steps made to continue on the accumulator with op.
Joined(rhs, op) == [rhs EXCEPT ![1].init = FALSE, ![1].op = op]

\* The steps of every node.
Code(e) ==
    LET code[i \in DOMAIN e] ==
          IF Simple(e, i) THEN <<MakeStep(e, i, TRUE, "add")>>
          ELSE LET a == e[i].a
                   b == e[i].b
               IN  IF Simple(e, b) THEN code[a] \o <<MakeStep(e, b, FALSE, e[i].op)>>
                   ELSE IF Simple(e, a) THEN code[b] \o <<MakeStep(e, a, FALSE, e[i].op)>>
                   ELSE code[a] \o Joined(code[b], e[i].op)
    IN  code

Flatten(e) == Code(e)[Len(e)]

\* "non-linear expression trees require multiple accumulators": the compiler
\* stops at a product of two expressions that are not simple ...
NonLinear(e) ==
    \E i \in DOMAIN e : /\ ~Leaf(e, i) /\ e[i].op = "mul"
                        /\ ~Simple(e, e[i].a) /\ ~Simple(e, e[i].b)

\* ... and at an expression without a tensor to take the dimensions from.
HasTensor(e) == \E i \in DOMAIN e : e[i].kind = "tensor"

Rejected(e) == NonLinear(e) \/ ~HasTensor(e)

-----------------------------------------------------------------------------
(* Compiling and running.                                                  *)

Arith(op, x, y) ==
    CASE op = "add" -> x + y
      [] op = "sub" -> x - y
      [] op = "mul" -> x * y

Init ==
    /\ expr \in Exprs
    /\ phase = "compile"
    /\ steps = <<>>
    /\ ip = 1
    /\ acc = [v \in Envs |-> 0]

Reject ==
    /\ phase = "compile" /\ Rejected(expr)
    /\ phase' = "rejected"
    /\ UNCHANGED <<expr, steps, ip, acc>>

Compile ==
    /\ phase = "compile" /\ ~Rejected(expr)
    /\ steps' = Flatten(expr)
    /\ phase' = "run"
    /\ UNCHANGED <<expr, ip, acc>>

\* What a step brings to the accumulator.
OperandIn(v, st) == IF st.scalar = None THEN v[st.leaf] ELSE v[st.leaf] * v[st.scalar]

\* Mutant: the operands of a step are swapped.
RunStepSwapped ==
    /\ phase = "run" /\ ip <= Len(steps)
    /\ acc' = [v \in Envs |->
                 IF steps[ip].init THEN OperandIn(v, steps[ip])
                 ELSE Arith(steps[ip].op, OperandIn(v, steps[ip]), acc[v])]
    /\ ip' = ip + 1
    /\ UNCHANGED <<expr, phase, steps>>

RunStep ==
    /\ phase = "run" /\ ip <= Len(steps)
    /\ acc' = [v \in Envs |->
                 IF steps[ip].init THEN OperandIn(v, steps[ip])
                 ELSE Arith(steps[ip].op, acc[v], OperandIn(v, steps[ip]))]
    /\ ip' = ip + 1
    /\ UNCHANGED <<expr, phase, steps>>

Finish ==
    /\ phase = "run" /\ ip > Len(steps)
    /\ phase' = "done"
    /\ UNCHANGED <<expr, steps, ip, acc>>

Next == Reject \/ Compile \/ RunStep \/ Finish

Spec == Init /\ [][Next]_vars

-----------------------------------------------------------------------------
(* Properties.                                                             *)

\* The value of every node.
Values(e, v) ==
    LET val[i \in DOMAIN e] ==
          IF Leaf(e, i) THEN v[e[i].name] ELSE Arith(e[i].op, val[e[i].a], val[e[i].b])
    IN  val

Right == \A v \in Envs : acc[v] = Values(expr, v)[Len(expr)]

\* A tree whose steps can be appended to a sum: nothing in it multiplies what
\* the accumulator already holds.
Additive(e) ==
    LET additive[i \in DOMAIN e] ==
          \/ Simple(e, i)
          \/ e[i].op \in {"add", "sub"} /\ additive[e[i].a] /\ Simple(e, e[i].b)
          \/ e[i].op = "add" /\ additive[e[i].a] /\ additive[e[i].b]
    IN  additive

\* A tree one accumulator computes in the order the compiler chooses: where the
\* right-hand side goes first the operator commutes, and where both sides have
\* several steps it is a sum to which the right-hand side can be appended.
Linear(e) ==
    LET linear[i \in DOMAIN e] ==
          \/ Simple(e, i)
          \/ Simple(e, e[i].b) /\ linear[e[i].a]
          \/ Simple(e, e[i].a) /\ linear[e[i].b] /\ e[i].op # "sub"
          \/ e[i].op = "add" /\ linear[e[i].a] /\ Additive(e)[e[i].b]
    IN  linear

IsLinear(e) == Linear(e)[Len(e)]

\* Nothing of the expression is left out and nothing else gets in: the steps
\* name the leaves of the tree, and only the first of them sets the accumulator.
StepsCoverLeaves ==
    phase \in {"run", "done"} =>
        /\ {steps[j].leaf : j \in DOMAIN steps}
             \cup ({steps[j].scalar : j \in DOMAIN steps} \ {None})
             = {expr[i].name : i \in {k \in DOMAIN expr : Leaf(expr, k)}}
        /\ \A j \in DOMAIN steps : steps[j].init <=> j = 1

\* The steps of a linear expression compute it.
LinearIsRight == phase = "done" /\ IsLinear(expr) => Right

\* What one accumulator can do is done: every step is there and, where the order
\* the compiler chooses admits it, the value comes out.
StepsRight == StepsCoverLeaves /\ LinearIsRight

\* Only the steps of a linear one do, where every leaf occurs once.
OnlyLinearIsRight == phase = "done" /\ Right => IsLinear(expr)

\* What the language promises of an expression the compiler accepts: the kernel
\* computes it.
AcceptedIsRight == phase = "done" => Right

=============================================================================
