---------------------------- MODULE KernelLayout ----------------------------
(***************************************************************************)
(* Where a generated kernel keeps things: the registers its values are     *)
(* allocated to, and the uniform stream the generated C driver writes and  *)
(* the kernel preamble reads.  The two generators (CodeGen.cpp for the     *)
(* driver, CompileToLLIR.cpp for the kernel) agree on the stream only by   *)
(* writing and reading it in the same order; nothing in it is tagged.      *)
(*                                                                         *)
(* A kernel call is a record                                               *)
(*   n, d, s      number of input tensors, dimensions, scalars             *)
(*   ptr, out     address of each input tensor's data, of the output's     *)
(*   start        first element of each input's slice, per dimension       *)
(*   ostart       the same for the output                                  *)
(*   dim, size    size of each dimension of the tensors, of the slices     *)
(*   scalar       the scalar arguments                                     *)
(*   steps        the flattened expression (see QpuKernel)                 *)
(* Dimension 0 is the innermost.                                           *)
(***************************************************************************)
EXTENDS Integers, Sequences

\* The uniform arguments of a call are words from W.
CallShape(c, W) ==
    /\ c.n \in Nat \ {0} /\ c.d \in Nat \ {0} /\ c.s \in Nat
    /\ c.ptr \in [0 .. c.n - 1 -> W]
    /\ c.out \in W
    /\ c.start \in [0 .. c.n - 1 -> [0 .. c.d - 1 -> W]]
    /\ c.ostart \in [0 .. c.d - 1 -> W]
    /\ c.dim \in [0 .. c.d - 1 -> W]
    /\ c.size \in [0 .. c.d - 1 -> W]
    /\ c.scalar \in [0 .. c.s - 1 -> W]

-----------------------------------------------------------------------------
(* Registers.                                                              *)

RaPtr(N, D, i)      == i
RaOut(N, D)         == N
RaStart(N, D, i, d) == N + 1 + i * D + d
RaOutStart(N, D, d) == N + 1 + N * D + d
RaStride(N, D, d)   == N + 1 + (N + 1) * D + d
RaIters(N, D, d)    == N + 1 + (N + 1) * D + D + d
RaScalar(N, D, s)   == N + 1 + (N + 1) * D + 2 * D + s

\* rb 0..3 hold the constants of the inner loop.
RbCounter(N, D, d)  == 4 + d
RbPtr(N, D, i)      == 4 + D + i
RbTile(N, D, k)     == 8 + D + N + k

\* The assertions of the two emitters.
RaFits(N, D, S) == N + 1 + (N + 1) * D + 2 * D + S - 1 < 32
RbFits(N, D)    == 8 + D + N + 8 <= 32

-----------------------------------------------------------------------------
(* The uniform stream of QPU q.                                            *)

NumUnifs(N, D, S) == N + 1 + (N + 1) * D + 2 * D + S + 1

PtrWords(c)      == [j \in 1 .. c.n |-> c.ptr[j - 1]]
StartWords(c)    == [j \in 1 .. c.n * c.d |-> c.start[(j - 1) \div c.d][(j - 1) % c.d]]
OutStartWords(c) == [j \in 1 .. c.d |-> c.ostart[j - 1]]
DimWords(c)      == [j \in 1 .. c.d |-> c.dim[j - 1]]
SizeWords(c)     == [j \in 1 .. c.d |-> c.size[j - 1]]
ScalarWords(c)   == [j \in 1 .. c.s |-> c.scalar[j - 1]]

\* The driver, in the order it fills unif[q][u++].
HostUniforms(c, q) ==
    PtrWords(c) \o <<c.out>> \o StartWords(c) \o OutStartWords(c)
      \o DimWords(c) \o SizeWords(c) \o ScalarWords(c) \o <<q>>

\* The preamble's reads, in the order it pops them (1 is the first).
UPtr(c, i)      == 1 + i
UOut(c)         == c.n + 1
UStart(c, i, d) == c.n + 2 + i * c.d + d
UOutStart(c, d) == c.n + 2 + c.n * c.d + d
UDim(c, d)      == c.n + 2 + (c.n + 1) * c.d + d
USize(c, d)     == c.n + 2 + (c.n + 2) * c.d + d
UScalar(c, k)   == c.n + 2 + (c.n + 3) * c.d + k
UQpu(c)         == c.n + 2 + (c.n + 3) * c.d + c.s

=============================================================================
