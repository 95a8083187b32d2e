---------------------------- MODULE CircularQueue ----------------------------
(***************************************************************************)
(* The lock-free ring of libpi/libc/circular.h (and circular-T.h): one     *)
(* producer, an interrupt handler, moves head; one consumer moves tail.    *)
(* Each memory access that the code orders with a barrier is a step, and   *)
(* the steps of the two sides interleave freely.                           *)
(*                                                                         *)
(* Three operations are not for both sides to run freely: cq_peek_n and    *)
(* cq_restore move tail back, over slots the producer took for free, and   *)
(* push_w_drop moves tail from the producer's side.  The code enforces     *)
(* nothing.  Those in Unmasked are used like any other; the rest only by a *)
(* program that disables interrupts around them: around cq_peek_n, from    *)
(* cq_ckpt until its checkpoint is no longer needed, and around whatever   *)
(* the consumer does if push_w_drop is the handler's push.                 *)
(***************************************************************************)
EXTENDS Integers, Sequences

CONSTANTS CQ_N,       \* slots of the ring
          WORD,       \* 2^32: head - tail is an unsigned subtraction
          Elem,       \* what may be pushed
          Zero,       \* the element memset writes
          NONE,       \* no element peeked at, no checkpoint held
          MaxN,       \* bound: the longest n of an _n operation
          Unmasked    \* of the three above, those used with interrupts enabled

ASSUME RingAssumption ==
    /\ CQ_N \in Nat /\ CQ_N > 1
    /\ WORD \in Nat /\ WORD >= CQ_N
    /\ WORD % CQ_N = 0
    /\ Zero \in Elem /\ NONE \notin Elem \cup 0 .. CQ_N - 1
    /\ MaxN \in Nat
    /\ Unmasked \subseteq {"peek_n", "restore", "push_w_drop"}

VARIABLES c_buf, head, tail,
          prod,     \* the producer's operation and its locals
          cons,     \* the consumer's
          ints,     \* interrupts: while they are off no handler runs
          ckpt,     \* the checkpoint the consumer holds, or NONE
          out,      \* the element last returned to the consumer
          peeked,   \* what cq_peek last returned, until tail moves
          panic     \* the failed assertion or panic, if any

vars == <<c_buf, head, tail, prod, cons, ints, ckpt, out, peeked, panic>>

Slot == 0 .. CQ_N - 1
\* Mutant: the index is not reduced.
AfterUnwrapped(i) == i + 1

After(i) == (i + 1) % CQ_N

\* Mutant: counts the free slot.
NelemInclusive(h, t) == ((h - t + 1) % WORD) % CQ_N

Nelem(h, t) == ((h - t) % WORD) % CQ_N
NElem == Nelem(head, tail)
\* Mutant: forgets the slot that stays free.
NSpaceAll == CQ_N - NElem

NSpace == (CQ_N - 1) - NElem
\* Mutant: takes the last element for none.
EmptyButOne == NElem <= 1

Empty == head = tail
Full == After(head) = tail

ProdIdle == [pc |-> "idle", op |-> "push", left |-> 0, at |-> 0, x |-> Zero]
ConsIdle == [pc |-> "idle", op |-> "pop", left |-> 0, at |-> 0, e |-> Zero,
             save |-> 0, sz |-> 0]

\* cq_init.
Init ==
    /\ c_buf = [i \in Slot |-> Zero]
    /\ head = 0 /\ tail = 0
    /\ prod = ProdIdle /\ cons = ConsIdle
    /\ ints = "on" /\ ckpt = NONE
    /\ out = Zero /\ peeked = NONE /\ panic = "none"

caller == <<ints, ckpt>>

\* An operation of the consumer that needs interrupts disabled, or may do without.
MayRun(op) == ints = "off" \/ op \in Unmasked

\* The handler discards the oldest element only while the consumer is elsewhere.
DropHolds == prod.op = "push_w_drop" /\ "push_w_drop" \notin Unmasked

-----------------------------------------------------------------------------
(* The producer.  An operation refused for lack of space changes nothing.  *)

\* push_n goes on only when nspace(c) >= n; push_w_drop first looks whether
\* the queue is full.
PushBegin(op, n) ==
    /\ prod.pc = "idle" /\ ints = "on"
    /\ (op = "push_w_drop" /\ op \notin Unmasked) => cons.pc = "idle"
    /\ op = "push_n" => NSpace >= n
    /\ op # "push_n" => n = 1
    /\ prod' = [prod EXCEPT !.op = op, !.left = n,
                            !.pc = IF op = "push_w_drop" /\ Full THEN "drop" ELSE "full"]
    /\ UNCHANGED <<c_buf, head, tail, cons, out, peeked, panic, caller>>

\* push_w_drop pops the oldest element, and panics if there is none.
DropRead ==
    /\ prod.pc = "drop"
    /\ prod' = [prod EXCEPT !.pc = "dropped", !.at = tail]
    /\ panic' = IF Empty THEN "pop on an empty circular queue" ELSE panic
    /\ UNCHANGED <<c_buf, head, tail, cons, out, peeked, caller>>

DropBump ==
    /\ prod.pc = "dropped"
    /\ tail' = After(prod.at)
    /\ prod' = [prod EXCEPT !.pc = "full", !.at = 0]
    /\ peeked' = NONE
    /\ UNCHANGED <<c_buf, head, cons, out, panic, caller>>

\* cq_full: cq_push returns 0, which the other two operations hold impossible.
CheckFull ==
    /\ prod.pc = "full"
    /\ prod' = IF Full THEN ProdIdle ELSE [prod EXCEPT !.pc = "slot"]
    /\ panic' = IF Full /\ prod.op # "push" THEN "impossible" ELSE panic
    /\ UNCHANGED <<c_buf, head, tail, cons, out, peeked, caller>>

SlotOK == NSpace > 0

\* Mutant: head moves before the element is stored.
ReadHeadEarly(x) ==
    /\ prod.pc = "slot"
    /\ prod' = [prod EXCEPT !.pc = "store", !.at = head, !.x = x]
    /\ head' = After(head)
    /\ panic' = IF SlotOK THEN panic ELSE "assert(cq_nspace(c) > 0)"
    /\ UNCHANGED <<c_buf, tail, cons, out, peeked, caller>>

ReadHead(x) ==
    /\ prod.pc = "slot"
    /\ prod' = [prod EXCEPT !.pc = "store", !.at = head, !.x = x]
    /\ panic' = IF SlotOK THEN panic ELSE "assert(cq_nspace(c) > 0)"
    /\ UNCHANGED <<c_buf, head, tail, cons, out, peeked, caller>>

\* "must occur in order": the element first, then the index that shows it.
StoreElem ==
    /\ prod.pc = "store"
    /\ c_buf' = [c_buf EXCEPT ![prod.at] = prod.x]
    /\ prod' = [prod EXCEPT !.pc = "bump"]
    /\ UNCHANGED <<head, tail, cons, out, peeked, panic, caller>>

BumpHead ==
    /\ prod.pc = "bump"
    /\ head' = After(prod.at)
    /\ prod' = IF prod.left = 1 THEN ProdIdle
               ELSE [prod EXCEPT !.pc = "full", !.left = @ - 1, !.at = 0, !.x = Zero]
    /\ UNCHANGED <<c_buf, tail, cons, out, peeked, panic, caller>>

-----------------------------------------------------------------------------
(* The consumer.                                                           *)

Counted == {"pop_n_noblk", "peek_n"}      \* test nelem before the first pop
Blocking == {"pop", "pop_n"} \cup Counted \* built on cq_pop, which waits

PopBegin(op, n) ==
    /\ cons.pc = "idle" /\ ~DropHolds
    /\ op = "peek_n" => MayRun(op)
    /\ op \in Counted => NElem >= n
    /\ op \notin {"pop_n"} \cup Counted => n = 1
    /\ cons' = [cons EXCEPT !.op = op, !.left = n, !.pc = "empty",
                            !.save = IF op = "peek_n" THEN tail ELSE 0,
                            !.sz = IF op = "peek_n" THEN NElem ELSE 0]
    /\ UNCHANGED <<c_buf, head, tail, prod, out, peeked, panic, caller>>

\* cq_empty: pop_nonblock and peek return 0, cq_pop tries again.
FoundEmpty ==
    /\ cons.pc = "empty" /\ Empty /\ cons.op \notin Blocking
    /\ cons' = ConsIdle
    /\ UNCHANGED <<c_buf, head, tail, prod, out, peeked, panic, caller>>

\* cq_pop on an empty queue, if no handler can fill it.
WillDeadlock ==
    /\ cons.pc = "empty" /\ Empty /\ cons.op \in Blocking /\ ints = "off"
    /\ panic' = "will_deadlock"
    /\ UNCHANGED <<c_buf, head, tail, prod, cons, out, peeked, caller>>

\* Mutant: tail moves before the element is read.
FoundElemFreed ==
    /\ cons.pc = "empty" /\ ~Empty
    /\ cons' = [cons EXCEPT !.pc = "load", !.at = tail]
    /\ tail' = After(tail)
    /\ UNCHANGED <<c_buf, head, prod, out, peeked, panic, caller>>

FoundElem ==
    /\ cons.pc = "empty" /\ ~Empty
    /\ cons' = [cons EXCEPT !.pc = "load", !.at = tail]
    /\ UNCHANGED <<c_buf, head, tail, prod, out, peeked, panic, caller>>

\* Mutant: peeks one element too far.
PeekSecond ==
    /\ cons.pc = "load" /\ cons.op = "peek"
    /\ cons' = ConsIdle
    /\ peeked' = c_buf[After(cons.at)]
    /\ UNCHANGED <<c_buf, head, tail, prod, out, panic, caller>>

Peek ==
    /\ cons.pc = "load" /\ cons.op = "peek"
    /\ cons' = ConsIdle
    /\ peeked' = c_buf[cons.at]
    /\ UNCHANGED <<c_buf, head, tail, prod, out, panic, caller>>

Load ==
    /\ cons.pc = "load" /\ cons.op # "peek"
    /\ cons' = [cons EXCEPT !.pc = "bump", !.e = c_buf[cons.at]]
    /\ UNCHANGED <<c_buf, head, tail, prod, out, peeked, panic, caller>>

AfterPop ==
    IF cons.left > 1 THEN [cons EXCEPT !.pc = "empty", !.left = @ - 1, !.at = 0, !.e = Zero]
    ELSE IF cons.op = "peek_n" THEN [cons EXCEPT !.pc = "restore", !.left = 0, !.at = 0, !.e = Zero]
    ELSE ConsIdle

BumpTail ==
    /\ cons.pc = "bump"
    /\ tail' = After(cons.at)
    /\ cons' = AfterPop
    /\ out' = IF cons.op = "peek_n" THEN out ELSE cons.e
    /\ peeked' = IF cons.op = "peek_n" THEN peeked ELSE NONE
    /\ UNCHANGED <<c_buf, head, prod, panic, caller>>

\* The end of cq_peek_n: c->tail = tail; assert(sz == cq_nelem(c)).
Restore ==
    /\ cons.pc = "restore"
    /\ tail' = cons.save
    /\ cons' = [cons EXCEPT !.pc = "assert"]
    /\ UNCHANGED <<c_buf, head, prod, out, peeked, panic, caller>>

AssertSize ==
    /\ cons.pc = "assert"
    /\ panic' = IF cons.sz = NElem THEN panic ELSE "assert(sz == cq_nelem(c))"
    /\ cons' = ConsIdle
    /\ UNCHANGED <<c_buf, head, tail, prod, out, peeked, caller>>

-----------------------------------------------------------------------------
(* The program that consumes, between its operations.                      *)

Disable ==
    /\ cons.pc = "idle" /\ prod.pc = "idle" /\ ints = "on"
    /\ ints' = "off"
    /\ UNCHANGED <<c_buf, head, tail, prod, cons, ckpt, out, peeked, panic>>

Enable ==
    /\ cons.pc = "idle" /\ ints = "off"
    /\ ckpt # NONE => "restore" \in Unmasked
    /\ ints' = "on"
    /\ UNCHANGED <<c_buf, head, tail, prod, cons, ckpt, out, peeked, panic>>

Ckpt ==
    /\ cons.pc = "idle" /\ ~DropHolds /\ ckpt = NONE /\ MayRun("restore")
    /\ ckpt' = tail
    /\ UNCHANGED <<c_buf, head, tail, prod, cons, ints, out, peeked, panic>>

\* Back to the checkpoint: what was popped since is to be read again.
CqRestore ==
    /\ cons.pc = "idle" /\ ~DropHolds /\ ckpt # NONE
    /\ tail' = ckpt
    /\ peeked' = NONE
    /\ UNCHANGED <<c_buf, head, prod, cons, ints, ckpt, out, panic>>

\* The checkpoint is not needed any more.
Forget ==
    /\ cons.pc = "idle" /\ ckpt # NONE
    /\ ckpt' = NONE
    /\ UNCHANGED <<c_buf, head, tail, prod, cons, ints, out, peeked, panic>>

-----------------------------------------------------------------------------
ProdStep == DropRead \/ DropBump \/ CheckFull \/ (\E x \in Elem : ReadHead(x))
            \/ StoreElem \/ BumpHead
ConsStep == FoundEmpty \/ WillDeadlock \/ FoundElem \/ Peek \/ Load \/ BumpTail \/ Restore \/ AssertSize

PushCall == \E op \in {"push", "push_n", "push_w_drop"}, n \in 1 .. MaxN : PushBegin(op, n)
PopCall == \E op \in {"pop_nonblock", "peek", "pop", "pop_n", "pop_n_noblk", "peek_n"},
               n \in 1 .. MaxN : PopBegin(op, n)

CallerStep == Disable \/ Enable \/ Ckpt \/ CqRestore \/ Forget

\* After a panic the machine reboots.
Next == panic = "none" /\ (PushCall \/ PopCall \/ CallerStep \/ ProdStep \/ ConsStep)

\* A handler that has begun runs on, and so does the code it interrupted;
\* nothing says that either is ever called.
Spec == Init /\ [][Next]_vars
FairSpec == Spec /\ WF_vars(panic = "none" /\ ProdStep) /\ WF_vars(panic = "none" /\ ConsStep)

-----------------------------------------------------------------------------
(* Properties.                                                             *)

ProdState == [pc : {"idle", "drop", "dropped", "full", "slot", "store", "bump"},
              op : {"push", "push_n", "push_w_drop"},
              left : 0 .. MaxN, at : Slot, x : Elem]
ConsState == [pc : {"idle", "empty", "load", "bump", "restore", "assert"},
              op : {"pop_nonblock", "peek"} \cup Blocking,
              left : 0 .. MaxN, at : Slot, e : Elem, save : Slot, sz : Slot]

\* Both indices stay in the ring, and every place has the locals it needs.
TypeOK ==
    /\ c_buf \in [Slot -> Elem]
    /\ head \in Slot /\ tail \in Slot
    /\ prod \in ProdState /\ cons \in ConsState
    /\ ints \in {"on", "off"} /\ ckpt \in Slot \cup {NONE}
    /\ out \in Elem /\ peeked \in Elem \cup {NONE}

\* No assertion of the queue fails and no "impossible" push happens: the space
\* push_n and push_w_drop found, and the size peek_n saw, are still there when
\* they rely on them, whatever the other side did in between
\* (circular.h lines 106, 154 and 170).  A pop that could only wait for a handler
\* that cannot run panics, as it should (line 95).
NoPanic == panic \in {"none", "will_deadlock"}

\* The slot being filled is never the slot being read: each side leaves the
\* other's slot alone although neither takes a lock (lines 80 and 108).
SlotsApart ==
    prod.pc = "store" /\ cons.pc \in {"load", "bump"} => prod.at # cons.at

\* pop_n_noblk (and peek_n) use the waiting cq_pop, yet never wait: what they
\* counted stays theirs (lines 133-138).
NoBlockNeverWaits ==
    cons.op \in Counted /\ cons.pc = "empty" => ~Empty

\* What cq_peek showed is what the next pop returns (lines 116-123).
PeekedIsNext ==
    peeked # NONE /\ cons.op # "peek_n" => ~Empty /\ c_buf[tail] = peeked

\* Where the consumer is: while peek_n borrows elements, at the saved tail.
Reader == IF cons.op = "peek_n" /\ cons.pc # "idle" THEN cons.save ELSE tail

\* While a checkpoint is held the queue still starts there.
Front == IF ckpt # NONE THEN ckpt ELSE Reader
Contents == [i \in 1 .. Nelem(head, Front) |-> c_buf[(Front + i - 1) % CQ_N]]

F == INSTANCE Fifo WITH queue <- Contents, Capacity <- CQ_N - 1,
                        marked <- ckpt # NONE, read <- Nelem(Reader, Front)

\* The ring is a FIFO of CQ_N - 1 elements for one producer and one consumer, from
\* which the consumer may read ahead of a checkpoint and go back to it - if peek_n,
\* cq_restore and push_w_drop are used with interrupts disabled, where they are
\* used at all.
ImplementsFifo == F!Spec

\* Only an empty queue can keep the consumer waiting: if it is stuck for ever,
\* the queue stays empty for ever (cq_pop, lines 87-98).
WaitsOnlyWhenEmpty == []<>(cons.pc = "idle") \/ <>[](head = tail)

\* The claim of the assertion that ends cq_peek_n, line 154: peeking leaves the
\* number of elements as it was.
PeekAssertHolds == panic # "assert(sz == cq_nelem(c))"
=============================================================================
