------------------------- MODULE CircularQueueProofs -------------------------
(***************************************************************************)
(* The ring of circular.h is a FIFO for one producer and one consumer, for *)
(* every size that divides 2^32, for every program that uses cq_peek_n,    *)
(* cq_restore and push_w_drop, if it uses them, with interrupts disabled.  *)
(***************************************************************************)
EXTENDS CircularQueue, TLAPS

\* A remainder is determined by the bounds it lies in.
LEMMA ModUnique ==
    ASSUME NEW n \in Int, NEW m \in Nat, m > 0, NEW k \in Int, NEW r \in 0 .. m - 1,
           n = k * m + r
    PROVE  n % m = r
<1> DEFINE d == n \div m
           s == n % m
<1>1. d \in Int /\ s \in 0 .. m - 1 /\ n = m * d + s
  OBVIOUS
<1> HIDE DEF d, s
<1>2. m * (d - k) = r - s
  BY <1>1
<1>3. CASE d - k >= 1
  <2>1. m * (d - k) >= m  BY <1>1, <1>3
  <2> QED  BY <2>1, <1>1, <1>2
<1>4. CASE d - k <= -1
  <2>1. m * (d - k) <= -m  BY <1>1, <1>4
  <2> QED  BY <2>1, <1>1, <1>2
<1>5. CASE d = k
  BY <1>1, <1>2, <1>5 DEF s
<1> QED  BY <1>1, <1>3, <1>4, <1>5

LEMMA ModSmall ==
    ASSUME NEW m \in Nat, m > 0, NEW n \in 0 .. m - 1
    PROVE  n % m = n
<1>1. n = 0 * m + n  OBVIOUS
<1> QED  BY <1>1, ModUnique

\* An index less than twice the size wraps at most once.
LEMMA WrapOnce ==
    ASSUME NEW n \in 0 .. 2 * CQ_N - 1
    PROVE  n % CQ_N = IF n < CQ_N THEN n ELSE n - CQ_N
<1>1. CASE n < CQ_N
  BY <1>1, ModSmall, RingAssumption
<1>2. CASE n >= CQ_N
  <2>1. n = 1 * CQ_N + (n - CQ_N) /\ n - CQ_N \in 0 .. CQ_N - 1  BY <1>2, RingAssumption
  <2> QED  BY <2>1, <1>2, ModUnique, RingAssumption
<1> QED  BY <1>1, <1>2, RingAssumption

LEMMA AfterValue ==
    ASSUME NEW i \in Slot
    PROVE  After(i) = IF i = CQ_N - 1 THEN 0 ELSE i + 1
BY WrapOnce, RingAssumption DEF After, Slot

\* The count is right although head - tail is computed in machine words.
LEMMA NelemValue ==
    ASSUME NEW h \in Slot, NEW t \in Slot
    PROVE  Nelem(h, t) = IF h >= t THEN h - t ELSE h - t + CQ_N
<1> USE DEF Slot
<1>1. CASE h >= t
  <2>1. h - t \in 0 .. CQ_N - 1 /\ h - t \in 0 .. WORD - 1
    BY <1>1, RingAssumption
  <2>2. (h - t) % WORD = h - t
    BY <2>1, ModSmall, RingAssumption
  <2>3. (h - t) % CQ_N = h - t
    BY <2>1, ModSmall, RingAssumption
  <2> QED  BY <1>1, <2>2, <2>3 DEF Nelem
<1>2. CASE h < t
  <2> DEFINE k == WORD \div CQ_N
             u == WORD + (h - t)
             r == CQ_N + (h - t)
  <2>1. k \in Int /\ WORD = CQ_N * k
    BY RingAssumption
  <2>2. h - t = (-1) * WORD + u /\ u \in 0 .. WORD - 1
    BY <1>2, RingAssumption
  <2>3. (h - t) % WORD = u
    BY <2>2, ModUnique, RingAssumption
  <2>4. r \in 0 .. CQ_N - 1
    BY <1>2, RingAssumption
  <2>5. u = (k - 1) * CQ_N + r
    <3> HIDE DEF k
    <3>1. (k - 1) * CQ_N \in Int /\ WORD = (k - 1) * CQ_N + CQ_N
      BY <2>1, RingAssumption
    <3> QED  BY <3>1, RingAssumption
  <2>6. u % CQ_N = r
    <3> HIDE DEF k, u, r
    <3> QED  BY <2>1, <2>2, <2>4, <2>5, ModUnique, RingAssumption
  <2>7. Nelem(h, t) = r
    BY <2>3, <2>6 DEF Nelem
  <2> QED  BY <1>2, <2>7, RingAssumption
<1> QED  BY <1>1, <1>2

-----------------------------------------------------------------------------
(* The inductive invariant: what each side may rely on at each place.      *)

ProdInv ==
    /\ prod.pc = "idle" => prod = ProdIdle
    /\ prod.pc # "idle" => prod.left >= 1
    /\ prod.pc \in {"slot", "store", "bump"} => ~Full
    /\ prod.pc \in {"store", "bump"} => prod.at = head
    /\ prod.pc = "bump" => c_buf[head] = prod.x
    /\ prod.op = "push_n" /\ prod.pc # "idle" => NSpace >= prod.left
    /\ prod.op # "push_n" /\ prod.pc # "idle" => prod.left = 1
    /\ prod.op = "push_w_drop" => cons.pc = "idle"
    /\ prod.pc \in {"drop", "dropped"} => prod.op = "push_w_drop" /\ Full
    /\ prod.pc = "dropped" => prod.at = tail
    /\ prod.pc = "full" /\ prod.op = "push_w_drop" => ~Full

ConsInv ==
    /\ cons.pc = "idle" => cons = ConsIdle
    /\ cons.pc \in {"empty", "load", "bump"} => cons.left >= 1
    /\ cons.pc \in {"load", "bump"} => ~Empty /\ cons.at = tail
    /\ cons.pc = "bump" => cons.e = c_buf[tail] /\ cons.op # "peek"
    /\ cons.pc \in {"empty", "load", "bump"} /\ cons.op \in Counted => NElem >= cons.left
    /\ cons.op \notin {"pop_n"} \cup Counted /\ cons.pc # "idle" => cons.left = 1
    /\ cons.pc \in {"restore", "assert"} => cons.op = "peek_n"
    /\ cons.op = "peek_n" => ints = "off" /\ prod.pc = "idle" /\ cons.sz = Nelem(head, cons.save)
    /\ cons.pc = "assert" => tail = cons.save

PeekInv == peeked # NONE => head # Reader /\ c_buf[Reader] = peeked

\* The handler does not run while interrupts are disabled, nor a checkpoint
\* outlive that; the consumer is between its checkpoint and head.
CallerInv ==
    /\ ints = "off" => prod.pc = "idle"
    /\ ckpt # NONE => ints = "off" /\ Nelem(Reader, ckpt) <= Nelem(head, ckpt)

IInv == TypeOK /\ NoPanic /\ ProdInv /\ ConsInv /\ PeekInv /\ CallerInv
-----------------------------------------------------------------------------
(* Arithmetic of the ring, in the form the steps below use.                *)

LEMMA RingFacts ==
    /\ \A i \in Slot : After(i) \in Slot /\ After(i) = IF i = CQ_N - 1 THEN 0 ELSE i + 1
    /\ \A h, t \in Slot : /\ Nelem(h, t) \in Slot
                          /\ Nelem(h, t) = IF h >= t THEN h - t ELSE h - t + CQ_N
    /\ Slot = 0 .. CQ_N - 1 /\ CQ_N \in Nat /\ CQ_N > 1 /\ MaxN \in Nat
    /\ Zero \in Elem /\ NONE \notin Elem
<1>1. ASSUME NEW i \in Slot
      PROVE  After(i) \in Slot /\ After(i) = IF i = CQ_N - 1 THEN 0 ELSE i + 1
  BY AfterValue, RingAssumption DEF Slot
<1>2. ASSUME NEW h \in Slot, NEW t \in Slot
      PROVE  Nelem(h, t) \in Slot /\ Nelem(h, t) = IF h >= t THEN h - t ELSE h - t + CQ_N
  BY NelemValue, RingAssumption DEF Slot
<1> QED  BY <1>1, <1>2, RingAssumption DEF Slot

LEMMA NoneApart == NONE \notin Slot
BY RingAssumption DEF Slot

\* An empty and a full queue by their indices and by their counts.
LEMMA Extremes ==
    ASSUME NEW h \in Slot, NEW t \in Slot
    PROVE  /\ h = t <=> Nelem(h, t) = 0
           /\ After(h) = t <=> Nelem(h, t) = CQ_N - 1
           /\ After(t) # t
<1>1. After(h) = IF h = CQ_N - 1 THEN 0 ELSE h + 1  BY RingFacts
<1>2. Nelem(h, t) = IF h >= t THEN h - t ELSE h - t + CQ_N  BY RingFacts
<1>3. After(t) = IF t = CQ_N - 1 THEN 0 ELSE t + 1  BY RingFacts
<1> QED  BY <1>1, <1>2, <1>3, RingAssumption DEF Slot

\* A push into a queue that is not full, and a pop from one not empty.
LEMMA Pushed ==
    ASSUME NEW h \in Slot, NEW t \in Slot, After(h) # t
    PROVE  Nelem(After(h), t) = Nelem(h, t) + 1
<1>1. After(h) \in Slot /\ After(h) = IF h = CQ_N - 1 THEN 0 ELSE h + 1  BY RingFacts
<1>2. Nelem(h, t) = IF h >= t THEN h - t ELSE h - t + CQ_N  BY RingFacts
<1> DEFINE a == After(h)
<1>3. Nelem(a, t) = IF a >= t THEN a - t ELSE a - t + CQ_N  BY <1>1, RingFacts
<1> QED  BY <1>1, <1>2, <1>3, RingAssumption DEF Slot

LEMMA Popped ==
    ASSUME NEW h \in Slot, NEW t \in Slot, h # t
    PROVE  /\ Nelem(h, After(t)) = Nelem(h, t) - 1
           /\ After(h) # After(t)
<1>1. After(t) \in Slot /\ After(t) = IF t = CQ_N - 1 THEN 0 ELSE t + 1  BY RingFacts
<1>2. Nelem(h, t) = IF h >= t THEN h - t ELSE h - t + CQ_N  BY RingFacts
<1>3. After(h) = IF h = CQ_N - 1 THEN 0 ELSE h + 1  BY RingFacts
<1> DEFINE a == After(t)
<1>4. Nelem(h, a) = IF h >= a THEN h - a ELSE h - a + CQ_N  BY <1>1, RingFacts
<1> QED  BY <1>1, <1>2, <1>3, <1>4, RingAssumption DEF Slot

\* The consumer reads on from t, ahead of c and behind h.
LEMMA ReadFurther ==
    ASSUME NEW h \in Slot, NEW t \in Slot, NEW c \in Slot, h # t,
           Nelem(t, c) <= Nelem(h, c)
    PROVE  /\ Nelem(t, c) < Nelem(h, c)
           /\ Nelem(After(t), c) = Nelem(t, c) + 1
           /\ Nelem(After(t), c) <= Nelem(h, c)
<1>1. Nelem(h, c) = IF h >= c THEN h - c ELSE h - c + CQ_N  BY RingFacts
<1>2. Nelem(t, c) = IF t >= c THEN t - c ELSE t - c + CQ_N  BY RingFacts
<1>3. Nelem(t, c) # Nelem(h, c)  BY <1>1, <1>2, RingAssumption DEF Slot
<1>4. /\ Nelem(t, c) \in 0 .. CQ_N - 1 /\ Nelem(h, c) \in 0 .. CQ_N - 1 /\ CQ_N \in Nat
      /\ Nelem(t, c) < Nelem(h, c)
  <2>1. Nelem(t, c) \in Slot /\ Nelem(h, c) \in Slot  BY RingFacts
  <2> QED  BY <2>1, <1>3, RingAssumption DEF Slot
<1>5. After(t) # c  BY <1>4, Extremes
<1>6. Nelem(After(t), c) = Nelem(t, c) + 1  BY <1>5, Pushed
<1> QED  BY <1>4, <1>6

\* Membership alone, for the typing steps.
LEMMA SlotFacts ==
    /\ 0 \in Slot /\ 0 \in 0 .. MaxN /\ Zero \in Elem
    /\ \A i \in Slot : After(i) \in Slot
    /\ \A h, t \in Slot : Nelem(h, t) \in Slot
    /\ \A n \in 0 .. MaxN : n >= 1 => n - 1 \in 0 .. MaxN
    /\ \A n \in 1 .. MaxN : n \in 0 .. MaxN
<1>1. 0 \in Slot /\ 0 \in 0 .. MaxN /\ Zero \in Elem
  BY RingFacts
<1>2. \A n \in 0 .. MaxN : n >= 1 => n - 1 \in 0 .. MaxN
  BY RingFacts
<1>3. \A n \in 1 .. MaxN : n \in 0 .. MaxN
  BY RingFacts
<1>4. (\A i \in Slot : After(i) \in Slot) /\ (\A h, t \in Slot : Nelem(h, t) \in Slot)
  BY RingFacts
<1> QED  BY <1>1, <1>2, <1>3, <1>4

LEMMA InitInv == Init => IInv
<1> SUFFICES ASSUME Init PROVE IInv
  OBVIOUS
<1> USE DEF Init, ProdIdle, ConsIdle
<1>1. TypeOK
  BY SlotFacts DEF TypeOK, ProdState, ConsState, Blocking, Counted
<1>2. ProdInv /\ ConsInv /\ PeekInv /\ NoPanic
  BY RingFacts DEF ProdInv, ConsInv, PeekInv, NoPanic, Counted
<1>3. CallerInv  BY DEF CallerInv
<1> QED  BY <1>1, <1>2, <1>3 DEF IInv

LEMMA IdleTyped == ProdIdle \in ProdState /\ ConsIdle \in ConsState
BY SlotFacts DEF ProdIdle, ConsIdle, ProdState, ConsState, Blocking

\* Every step keeps the types; the indices stay in the ring because After does.
LEMMA TypeStep ==
    ASSUME IInv, Next PROVE TypeOK'
<1> USE SlotFacts, IdleTyped DEF IInv, TypeOK, caller
<1>1. ASSUME NEW op \in {"push", "push_n", "push_w_drop"}, NEW n \in 1 .. MaxN, PushBegin(op, n)
      PROVE  TypeOK'
  <2>1. prod' \in ProdState
    BY <1>1 DEF PushBegin, ProdState
  <2> QED  BY <1>1, <2>1 DEF PushBegin
<1>2. ASSUME NEW op \in {"pop_nonblock", "peek", "pop", "pop_n", "pop_n_noblk", "peek_n"},
             NEW n \in 1 .. MaxN, PopBegin(op, n)
      PROVE  TypeOK'
  <2>1. NElem \in Slot
    BY DEF NElem
  <2> DEFINE s == IF op = "peek_n" THEN tail ELSE 0
             z == IF op = "peek_n" THEN NElem ELSE 0
  <2>2. s \in Slot /\ z \in Slot /\ n \in 0 .. MaxN
    BY <2>1
  <2>3. op \in {"pop_nonblock", "peek"} \cup Blocking
    BY DEF Blocking, Counted
  <2>4. cons' = [cons EXCEPT !.op = op, !.left = n, !.pc = "empty", !.save = s, !.sz = z]
    BY <1>2 DEF PopBegin
  <2> HIDE DEF s, z
  <2>5. cons' \in ConsState
    BY <2>2, <2>3, <2>4 DEF ConsState
  <2> QED  BY <1>2, <2>5 DEF PopBegin
<1>3. CASE DropRead
  <2>1. prod' \in ProdState  BY <1>3 DEF DropRead, ProdState
  <2> QED  BY <1>3, <2>1 DEF DropRead
<1>4. CASE DropBump
  <2>1. prod' \in ProdState /\ prod.at \in Slot  BY <1>4 DEF DropBump, ProdState
  <2> QED  BY <1>4, <2>1 DEF DropBump
<1>5. CASE CheckFull
  <2>1. [prod EXCEPT !.pc = "slot"] \in ProdState  BY DEF ProdState
  <2> QED  BY <1>5, <2>1 DEF CheckFull
<1>6. ASSUME NEW x \in Elem, ReadHead(x) PROVE TypeOK'
  <2>1. prod' \in ProdState  BY <1>6 DEF ReadHead, ProdState
  <2> QED  BY <1>6, <2>1 DEF ReadHead
<1>7. CASE StoreElem
  <2>1. prod' \in ProdState /\ prod.x \in Elem  BY <1>7 DEF StoreElem, ProdState
  <2> QED  BY <1>7, <2>1 DEF StoreElem
<1>8. CASE BumpHead
  <2>1. prod.left \in 0 .. MaxN /\ prod.at \in Slot  BY DEF ProdState
  <2>2. prod.left - 1 \in 0 .. MaxN  BY <1>8, <2>1 DEF BumpHead, ProdInv
  <2>3. [prod EXCEPT !.pc = "full", !.left = @ - 1, !.at = 0, !.x = Zero] \in ProdState
    BY <2>2 DEF ProdState
  <2> QED  BY <1>8, <2>1, <2>3 DEF BumpHead
<1>9. CASE FoundEmpty
  BY <1>9 DEF FoundEmpty
<1>10. CASE FoundElem
  <2>1. cons' \in ConsState  BY <1>10 DEF FoundElem, ConsState
  <2> QED  BY <1>10, <2>1 DEF FoundElem
<1>11. CASE Peek
  <2>1. cons.at \in Slot  BY DEF ConsState
  <2> QED  BY <1>11, <2>1 DEF Peek
<1>12. CASE Load
  <2>1. c_buf[cons.at] \in Elem  BY DEF ConsState
  <2>2. cons' \in ConsState  BY <1>12, <2>1 DEF Load, ConsState
  <2> QED  BY <1>12, <2>2 DEF Load
<1>13. CASE BumpTail
  <2>1. cons.left \in 0 .. MaxN /\ cons.at \in Slot /\ cons.e \in Elem  BY DEF ConsState
  <2>2. cons.left - 1 \in 0 .. MaxN  BY <1>13, <2>1 DEF BumpTail, ConsInv
  <2>3. AfterPop \in ConsState  BY <2>2 DEF AfterPop, ConsState
  <2> QED  BY <1>13, <2>1, <2>3 DEF BumpTail
<1>14. CASE Restore
  <2>1. cons' \in ConsState /\ cons.save \in Slot  BY <1>14 DEF Restore, ConsState
  <2> QED  BY <1>14, <2>1 DEF Restore
<1>15. CASE AssertSize
  BY <1>15 DEF AssertSize
<1>16. CASE WillDeadlock
  BY <1>16 DEF WillDeadlock
<1>17. CASE CallerStep
  BY <1>17 DEF CallerStep, Disable, Enable, Ckpt, CqRestore, Forget
<1> QED
  BY <1>1, <1>2, <1>3, <1>4, <1>5, <1>6, <1>7, <1>8, <1>9, <1>10, <1>11, <1>12, <1>13,
     <1>14, <1>15, <1>16, <1>17 DEF Next, PushCall, PopCall, ProdStep, ConsStep

\* No step of the consumer but its pops moves the place it reads from.
LEMMA ReaderStays ==
    ASSUME IInv, FoundEmpty \/ WillDeadlock \/ FoundElem \/ Peek \/ Load \/ Restore \/ AssertSize
    PROVE  Reader' = Reader
<1>1. cons \in ConsState  BY DEF IInv, TypeOK
<1>2. CASE FoundEmpty
  BY <1>2 DEF FoundEmpty, Reader, ConsIdle, Blocking, Counted
<1>3. CASE WillDeadlock
  BY <1>3 DEF WillDeadlock, Reader
<1>4. CASE FoundElem
  BY <1>1, <1>4 DEF FoundElem, Reader, ConsState
<1>5. CASE Peek
  BY <1>5 DEF Peek, Reader, ConsIdle
<1>6. CASE Load
  BY <1>1, <1>6 DEF Load, Reader, ConsState
<1>7. CASE Restore
  BY <1>1, <1>7 DEF Restore, Reader, ConsState, IInv, ConsInv
<1>8. CASE AssertSize
  BY <1>8 DEF AssertSize, Reader, ConsIdle, IInv, ConsInv
<1> QED  BY <1>2, <1>3, <1>4, <1>5, <1>6, <1>7, <1>8

\* Every step keeps the checkpoint behind the consumer and the handler away.
LEMMA CallerStepInv ==
    ASSUME Unmasked = {}, IInv, Next PROVE CallerInv'
<1> USE DEF IInv
<1>1. head \in Slot /\ tail \in Slot /\ (ckpt # NONE => ckpt \in Slot) /\ NONE \notin Slot
  BY NoneApart DEF TypeOK
<1>2. ASSUME prod.pc # "idle" \/ PushCall, UNCHANGED caller PROVE CallerInv'
  BY <1>2 DEF CallerInv, caller, PushCall, PushBegin
<1>3. CASE PushCall \/ ProdStep
  BY <1>2, <1>3 DEF PushCall, PushBegin, ProdStep, DropRead, DropBump, CheckFull, ReadHead,
     StoreElem, BumpHead
<1>4. ASSUME UNCHANGED <<head, prod, ints, ckpt>>, Reader' = Reader PROVE CallerInv'
  BY <1>4 DEF CallerInv
<1>5. CASE PopCall
  <2>1. UNCHANGED <<head, prod, ints, ckpt>>  BY <1>5 DEF PopCall, PopBegin, caller
  <2>2. Reader' = Reader
    BY <1>5 DEF PopCall, PopBegin, Reader, TypeOK, ConsState, ConsInv, ConsIdle
  <2> QED  BY <2>1, <2>2, <1>4
<1>6. CASE FoundEmpty \/ WillDeadlock \/ FoundElem \/ Peek \/ Load \/ Restore \/ AssertSize
  <2>1. UNCHANGED <<head, prod, ints, ckpt>>
    BY <1>6 DEF FoundEmpty, WillDeadlock, FoundElem, Peek, Load, Restore, AssertSize, caller
  <2>2. Reader' = Reader  BY <1>6, ReaderStays
  <2> QED  BY <2>1, <2>2, <1>4
<1>7. CASE BumpTail
  <2>1. UNCHANGED <<head, prod, ints, ckpt>>  BY <1>7 DEF BumpTail, caller
  <2>2. CASE cons.op = "peek_n"
    <3>1. Reader' = Reader
      BY <1>7, <2>2 DEF BumpTail, AfterPop, Reader, TypeOK, ConsState
    <3> QED  BY <2>1, <3>1, <1>4
  <2>3. CASE cons.op # "peek_n"
    <3>1. Reader = tail /\ Reader' = After(tail) /\ head # tail
      BY <1>7, <2>3 DEF BumpTail, AfterPop, Reader, TypeOK, ConsState, ConsInv, ConsIdle, Empty
    <3>2. ckpt # NONE => Nelem(After(tail), ckpt) <= Nelem(head, ckpt)
      BY <1>1, <3>1, ReadFurther DEF CallerInv
    <3> QED  BY <2>1, <3>1, <3>2 DEF CallerInv
  <2> QED  BY <2>2, <2>3
<1>9. CASE Disable \/ Enable
  BY <1>9 DEF Disable, Enable, CallerInv, Reader
<1>10. CASE Ckpt
  <2>1. ckpt' = tail /\ Reader' = tail /\ UNCHANGED <<head, prod, ints>> /\ ints = "off"
    BY <1>10 DEF Ckpt, MayRun, Reader
  <2>2. Nelem(tail, tail) = 0 /\ Nelem(head, tail) \in Nat
    <3>1. Nelem(tail, tail) = 0  BY <1>1, Extremes
    <3>2. Nelem(head, tail) \in Slot  BY <1>1, RingFacts
    <3> QED  BY <3>1, <3>2, RingFacts
  <2> QED  BY <2>1, <2>2 DEF CallerInv
<1>11. CASE CqRestore
  <2>1. /\ ckpt # NONE /\ ckpt' = ckpt /\ Reader' = ckpt /\ UNCHANGED <<head, prod, ints>>
    BY <1>11 DEF CqRestore, Reader
  <2>2. Nelem(ckpt, ckpt) = 0 /\ Nelem(head, ckpt) \in Nat
    <3>1. Nelem(ckpt, ckpt) = 0  BY <1>1, <2>1, Extremes
    <3>2. Nelem(head, ckpt) \in Slot  BY <1>1, <2>1, RingFacts
    <3> QED  BY <3>1, <3>2, RingFacts
  <2> QED  BY <2>1, <2>2 DEF CallerInv
<1>12. CASE Forget
  BY <1>12 DEF Forget, CallerInv
<1> QED
  BY <1>3, <1>5, <1>6, <1>7, <1>9, <1>10, <1>11, <1>12 DEF Next, ConsStep, CallerStep

\* Every step keeps what the two sides rely on.
LEMMA InvStep ==
    ASSUME Unmasked = {}, IInv, Next PROVE IInv'
<1> USE RingFacts DEF IInv, ProdIdle, ConsIdle
<1>0. TypeOK'  BY TypeStep
<1>c. CallerInv'  BY CallerStepInv
<1>i. ints = "off" => prod.pc = "idle"  BY DEF CallerInv
<1>t. /\ prod.left \in Nat /\ cons.left \in Nat /\ CQ_N \in Nat /\ NElem \in 0 .. CQ_N - 1
      /\ prod.op \in {"push", "push_n", "push_w_drop"}
      /\ Full <=> NElem = CQ_N - 1
  <2>1. prod.left \in Nat /\ cons.left \in Nat /\ prod.op \in {"push", "push_n", "push_w_drop"}
    BY DEF TypeOK, ProdState, ConsState
  <2>2. head \in Slot /\ tail \in Slot
    BY DEF TypeOK
  <2>3. NElem \in Slot
    BY <2>2 DEF NElem
  <2> QED  BY <2>1, <2>2, <2>3, Extremes DEF NElem, Full
<1> DEFINE Rest == ProdInv' /\ ConsInv' /\ PeekInv' /\ NoPanic'
<1> USE DEF TypeOK, ProdState, ConsState, NoPanic, Empty, Full, NElem, NSpace, MayRun, DropHolds, caller, Counted, Blocking
<1>1. ASSUME NEW op \in {"push", "push_n", "push_w_drop"}, NEW n \in 1 .. MaxN, PushBegin(op, n)
      PROVE  Rest
  <2>1. ProdInv'  BY <1>1, <1>0 DEF PushBegin, ProdInv, ConsInv, PeekInv
  <2>2. ConsInv'  BY <1>1, <1>0 DEF PushBegin, ProdInv, ConsInv, PeekInv
  <2>3. PeekInv'  BY <1>1, <1>0 DEF Reader, PushBegin, ProdInv, ConsInv, PeekInv
  <2>4. NoPanic'  BY <1>1, <1>0 DEF PushBegin, ProdInv, ConsInv, PeekInv
  <2> QED  BY <2>1, <2>2, <2>3, <2>4
<1>2. ASSUME NEW op \in {"pop_nonblock", "peek", "pop", "pop_n", "pop_n_noblk", "peek_n"},
             NEW n \in 1 .. MaxN, PopBegin(op, n)
      PROVE  Rest
  <2>1. ProdInv'  BY <1>2, <1>0 DEF PopBegin, ProdInv, ConsInv, PeekInv
  <2>2. ConsInv'  BY <1>2, <1>0, <1>i DEF PopBegin, ProdInv, ConsInv, PeekInv
  <2>3. PeekInv'  BY <1>2, <1>0 DEF Reader, PopBegin, ProdInv, ConsInv, PeekInv
  <2>4. NoPanic'  BY <1>2, <1>0 DEF PopBegin, ProdInv, ConsInv, PeekInv
  <2> QED  BY <2>1, <2>2, <2>3, <2>4
<1>3. ASSUME DropRead PROVE Rest
  <2>1. ProdInv'  BY <1>3, <1>0 DEF DropRead, ProdInv, ConsInv, PeekInv
  <2>2. ConsInv'  BY <1>3, <1>0 DEF DropRead, ProdInv, ConsInv, PeekInv
  <2>3. PeekInv'  BY <1>3, <1>0 DEF Reader, DropRead, ProdInv, ConsInv, PeekInv
  <2>a. ~Empty
    <3>1. After(head) = tail /\ tail \in Slot /\ head \in Slot  BY <1>3 DEF DropRead, ProdInv
    <3> QED  BY <3>1, Extremes
  <2>4. NoPanic'  BY <1>3, <2>a DEF DropRead
  <2> QED  BY <2>1, <2>2, <2>3, <2>4
<1>4. ASSUME DropBump PROVE Rest
  <2>1. ProdInv'  BY <1>4, <1>0 DEF DropBump, ProdInv, ConsInv, PeekInv
  <2>2. ConsInv'  BY <1>4, <1>0 DEF DropBump, ProdInv, ConsInv, PeekInv
  <2>3. PeekInv'  BY <1>4, <1>0 DEF Reader, DropBump, ProdInv, ConsInv, PeekInv
  <2>4. NoPanic'  BY <1>4, <1>0 DEF DropBump, ProdInv, ConsInv, PeekInv
  <2> QED  BY <2>1, <2>2, <2>3, <2>4
<1>5. ASSUME CheckFull PROVE Rest
  <2>1. ProdInv'  BY <1>5, <1>0 DEF CheckFull, ProdInv, ConsInv, PeekInv
  <2>2. ConsInv'  BY <1>5, <1>0 DEF CheckFull, ProdInv, ConsInv, PeekInv
  <2>3. PeekInv'  BY <1>5, <1>0 DEF Reader, CheckFull, ProdInv, ConsInv, PeekInv
  <2>z. prod.op # "push" => ~Full
    <3> HIDE DEF NElem, Full
    <3>1. prod.pc = "full"  BY <1>5 DEF CheckFull
    <3>2. CASE prod.op = "push_n"
      <4>1. NSpace >= prod.left /\ prod.left >= 1  BY <3>1, <3>2 DEF ProdInv
      <4> QED  BY <4>1, <1>t
    <3>3. CASE prod.op = "push_w_drop"
      BY <3>1, <3>3 DEF ProdInv
    <3> QED  BY <3>2, <3>3, <1>t
  <2>4. NoPanic'  BY <1>5, <2>z DEF CheckFull
  <2> QED  BY <2>1, <2>2, <2>3, <2>4
<1>6. ASSUME NEW x \in Elem, ReadHead(x) PROVE Rest
  <2>1. ProdInv'  BY <1>6, <1>0 DEF ReadHead, SlotOK, ProdInv, ConsInv, PeekInv
  <2>2. ConsInv'  BY <1>6, <1>0 DEF ReadHead, SlotOK, ProdInv, ConsInv, PeekInv
  <2>3. PeekInv'  BY <1>6, <1>0 DEF Reader, ReadHead, SlotOK, ProdInv, ConsInv, PeekInv
  <2>a. SlotOK
    <3> HIDE DEF NElem, Full
    <3>1. ~Full  BY <1>6 DEF ReadHead, ProdInv
    <3> QED  BY <3>1, <1>t DEF SlotOK
  <2>4. NoPanic'  BY <1>6, <2>a DEF ReadHead
  <2> QED  BY <2>1, <2>2, <2>3, <2>4
<1>7. ASSUME StoreElem PROVE Rest
  <2>1. ProdInv'  BY <1>7, <1>0 DEF StoreElem, ProdInv, ConsInv, PeekInv
  <2>2. ConsInv'  BY <1>7, <1>0 DEF StoreElem, ProdInv, ConsInv, PeekInv
  <2>3. PeekInv'  BY <1>7, <1>0 DEF Reader, StoreElem, ProdInv, ConsInv, PeekInv
  <2>4. NoPanic'  BY <1>7, <1>0 DEF StoreElem, ProdInv, ConsInv, PeekInv
  <2> QED  BY <2>1, <2>2, <2>3, <2>4
<1>8. ASSUME BumpHead PROVE Rest
  <2>a. head' = After(head) /\ head' # tail /\ head' \in Slot  BY <1>8, <1>0 DEF BumpHead, ProdInv
  <2>b. NElem' = NElem + 1  BY <2>a, <1>8, Pushed DEF BumpHead, ProdInv
  <2>c. UNCHANGED <<c_buf, tail, cons>> /\ prod.pc = "bump" /\ cons.op # "peek_n"
    BY <1>8 DEF BumpHead, ConsInv
  <2>1. ProdInv'
    <3>1. CASE prod.left = 1
      BY <1>8, <3>1 DEF BumpHead, ProdInv
    <3>2. CASE prod.left # 1
      <4>1. /\ prod'.pc = "full" /\ prod'.op = prod.op /\ prod'.left = prod.left - 1
            /\ prod.op = "push_n" /\ prod.left - 1 >= 1
        BY <1>8, <3>2 DEF BumpHead, ProdInv
      <4>2. NSpace' >= prod'.left
        <5>1. NSpace >= prod.left /\ prod.left \in Nat /\ NElem \in Nat /\ CQ_N \in Nat
          BY <4>1, <2>c DEF ProdInv
        <5> HIDE DEF NElem
        <5> QED  BY <5>1, <4>1, <2>b
      <4> QED  BY <4>1, <4>2 DEF ProdInv
    <3> QED  BY <3>1, <3>2
  <2>2. ConsInv'
    <3>1. cons.left \in Nat /\ NElem \in Nat /\ ~Empty' /\ cons' = cons
      BY <2>a, <2>c
    <3>2. NElem >= cons.left => NElem' >= cons'.left
      <4> HIDE DEF NElem
      <4> QED  BY <3>1, <2>b
    <3>3. cons.pc \in {"load", "bump"} => ~Empty /\ cons.at = tail
      BY DEF ConsInv
    <3> HIDE DEF NElem, Empty
    <3> QED  BY <3>1, <3>2, <3>3, <2>c DEF ConsInv
  <2>3. PeekInv'  BY <1>8, <1>0 DEF Reader, BumpHead, ProdInv, ConsInv, PeekInv
  <2>4. NoPanic'  BY <1>8, <1>0 DEF BumpHead, ProdInv, ConsInv, PeekInv
  <2> QED  BY <2>1, <2>2, <2>3, <2>4
<1>9. ASSUME FoundEmpty PROVE Rest
  <2>1. ProdInv'  BY <1>9, <1>0 DEF FoundEmpty, ProdInv, ConsInv, PeekInv
  <2>2. ConsInv'  BY <1>9, <1>0 DEF FoundEmpty, ProdInv, ConsInv, PeekInv
  <2>3. PeekInv'  BY <1>9, <1>0 DEF Reader, FoundEmpty, ProdInv, ConsInv, PeekInv
  <2>4. NoPanic'  BY <1>9, <1>0 DEF FoundEmpty, ProdInv, ConsInv, PeekInv
  <2> QED  BY <2>1, <2>2, <2>3, <2>4
<1>10. ASSUME FoundElem PROVE Rest
  <2>1. ProdInv'  BY <1>10, <1>0 DEF FoundElem, ProdInv, ConsInv, PeekInv
  <2>2. ConsInv'  BY <1>10, <1>0 DEF FoundElem, ProdInv, ConsInv, PeekInv
  <2>3. PeekInv'  BY <1>10, <1>0 DEF Reader, FoundElem, ProdInv, ConsInv, PeekInv
  <2>4. NoPanic'  BY <1>10, <1>0 DEF FoundElem, ProdInv, ConsInv, PeekInv
  <2> QED  BY <2>1, <2>2, <2>3, <2>4
<1>11. ASSUME Peek PROVE Rest
  <2>1. ProdInv'  BY <1>11, <1>0 DEF Peek, ProdInv, ConsInv, PeekInv
  <2>2. ConsInv'  BY <1>11, <1>0 DEF Peek, ProdInv, ConsInv, PeekInv
  <2>3. PeekInv'  BY <1>11, <1>0 DEF Reader, Peek, ProdInv, ConsInv, PeekInv
  <2>4. NoPanic'  BY <1>11, <1>0 DEF Peek, ProdInv, ConsInv, PeekInv
  <2> QED  BY <2>1, <2>2, <2>3, <2>4
<1>12. ASSUME Load PROVE Rest
  <2>1. ProdInv'  BY <1>12, <1>0 DEF Load, ProdInv, ConsInv, PeekInv
  <2>2. ConsInv'  BY <1>12, <1>0 DEF Load, ProdInv, ConsInv, PeekInv
  <2>3. PeekInv'  BY <1>12, <1>0 DEF Reader, Load, ProdInv, ConsInv, PeekInv
  <2>4. NoPanic'  BY <1>12, <1>0 DEF Load, ProdInv, ConsInv, PeekInv
  <2> QED  BY <2>1, <2>2, <2>3, <2>4
<1>13. ASSUME BumpTail PROVE Rest
  <2>a. tail' = After(tail) /\ tail' \in Slot /\ head # tail
    BY <1>13, <1>0 DEF BumpTail, ConsInv
  <2>b. NElem' = NElem - 1
    <3>1. NElem' = Nelem(head, After(tail))  BY <2>a, <1>13 DEF BumpTail
    <3> QED  BY <3>1, <2>a, Popped
  <2>c. UNCHANGED <<c_buf, head, prod, ints>> /\ cons.pc = "bump" /\ prod.op # "push_w_drop" /\ cons.op # "peek"
    BY <1>13 DEF BumpTail, ConsInv, ProdInv
  <2>1. ProdInv'
    <3>1. After(head) # tail => After(head) # tail'
      BY <2>a, <2>c, Popped
    <3>3. NSpace >= prod.left => NSpace' >= prod.left
      <4> HIDE DEF NElem
      <4> QED  BY <1>t, <2>b
    <3>4. ~Full => ~Full'
      BY <3>1, <2>c
    <3> HIDE DEF NElem, Full, NSpace
    <3> QED  BY <1>13, <2>c, <3>3, <3>4 DEF ProdInv, BumpTail
  <2>2. ConsInv'
    <3>1. CASE cons.left > 1
      <4>1. cons' = [cons EXCEPT !.pc = "empty", !.left = @ - 1, !.at = 0, !.e = Zero]
        BY <1>13, <3>1 DEF BumpTail, AfterPop
      <4>2. /\ cons'.pc = "empty" /\ cons'.left = cons.left - 1 /\ cons'.op = cons.op
            /\ cons'.sz = cons.sz /\ cons'.save = cons.save /\ cons.left - 1 >= 1
        BY <4>1, <3>1
      <4>4. NElem >= cons.left => NElem' >= cons'.left
        <5> HIDE DEF NElem
        <5> QED  BY <4>2, <1>t, <2>b
      <4>5. UNCHANGED <<head, prod, ints>> /\ prod'.pc = prod.pc
        BY <2>c
      <4>6. cons.op = "peek_n" => ints = "off" /\ prod.pc = "idle" /\ cons.sz = Nelem(head, cons.save)
        BY DEF ConsInv
      <4>7. cons.op \in {"pop_n"} \cup Counted /\ cons'.left >= 1
        BY <2>c, <3>1, <4>2, <1>t DEF ConsInv
      <4>8. cons.op \in Counted => NElem >= cons.left
        BY <2>c DEF ConsInv
      <4> HIDE DEF NElem, Empty, IInv, TypeOK, ProdState, ConsState
      <4> QED  BY <4>2, <4>4, <4>5, <4>6, <4>7, <4>8, <3>1 DEF ConsInv
    <3>2. CASE ~(cons.left > 1) /\ cons.op = "peek_n"
      <4>1. cons' = [cons EXCEPT !.pc = "restore", !.left = 0, !.at = 0, !.e = Zero]
        BY <1>13, <3>2 DEF BumpTail, AfterPop
      <4> QED  BY <4>1, <3>2, <2>c DEF ConsInv
    <3>3. CASE ~(cons.left > 1) /\ cons.op # "peek_n"
      <4>1. cons' = ConsIdle
        BY <1>13, <3>3 DEF BumpTail, AfterPop
      <4> QED  BY <4>1 DEF ConsInv
    <3> QED  BY <3>1, <3>2, <3>3
  <2>3. PeekInv'  BY <1>13, <1>0 DEF Reader, BumpTail, AfterPop, ProdInv, ConsInv, PeekInv
  <2>4. NoPanic'  BY <1>13, <1>0 DEF BumpTail, AfterPop, ProdInv, ConsInv, PeekInv
  <2> QED  BY <2>1, <2>2, <2>3, <2>4
<1>14. ASSUME Restore PROVE Rest
  <2>1. ProdInv'  BY <1>14, <1>0 DEF Restore, ProdInv, ConsInv, PeekInv
  <2>2. ConsInv'  BY <1>14, <1>0 DEF Restore, ProdInv, ConsInv, PeekInv
  <2>3. PeekInv'  BY <1>14, <1>0 DEF Reader, Restore, ProdInv, ConsInv, PeekInv
  <2>4. NoPanic'  BY <1>14, <1>0 DEF Restore, ProdInv, ConsInv, PeekInv
  <2> QED  BY <2>1, <2>2, <2>3, <2>4
<1>15. ASSUME AssertSize PROVE Rest
  <2>1. ProdInv'  BY <1>15, <1>0 DEF AssertSize, ProdInv, ConsInv, PeekInv
  <2>2. ConsInv'  BY <1>15, <1>0 DEF AssertSize, ProdInv, ConsInv, PeekInv
  <2>3. PeekInv'  BY <1>15, <1>0 DEF Reader, AssertSize, ProdInv, ConsInv, PeekInv
  <2>4. NoPanic'  BY <1>15, <1>0 DEF AssertSize, ProdInv, ConsInv, PeekInv
  <2> QED  BY <2>1, <2>2, <2>3, <2>4
<1>16. ASSUME WillDeadlock PROVE Rest
  <2>1. ProdInv'  BY <1>16, <1>0 DEF WillDeadlock, ProdInv, ConsInv, PeekInv
  <2>2. ConsInv'  BY <1>16, <1>0 DEF WillDeadlock, ProdInv, ConsInv, PeekInv
  <2>3. PeekInv'  BY <1>16, <1>0 DEF Reader, WillDeadlock, ProdInv, ConsInv, PeekInv
  <2>4. NoPanic'  BY <1>16, <1>0 DEF WillDeadlock
  <2> QED  BY <2>1, <2>2, <2>3, <2>4
<1>17. ASSUME Disable \/ Enable \/ Ckpt \/ Forget PROVE Rest
  <2>1. /\ UNCHANGED <<c_buf, head, tail, prod, cons, out, peeked, panic>>
        /\ cons = ConsIdle
    BY <1>17 DEF Disable, Enable, Ckpt, Forget, ConsInv
  <2>2. ProdInv'  BY <2>1 DEF ProdInv
  <2>3. ConsInv'  BY <2>1 DEF ConsInv
  <2>4. PeekInv'  BY <2>1 DEF PeekInv, Reader
  <2> QED  BY <2>1, <2>2, <2>3, <2>4
<1>18. ASSUME CqRestore PROVE Rest
  <2>1. prod = ProdIdle /\ cons = ConsIdle /\ UNCHANGED <<prod, cons, panic>> /\ peeked' = NONE
    <3>1. ints = "off"  BY <1>18 DEF CqRestore, CallerInv
    <3> QED  BY <1>18, <1>i, <3>1 DEF CqRestore, ProdInv, ConsInv
  <2>2. ProdInv'  BY <2>1 DEF ProdInv
  <2>3. ConsInv'  BY <2>1 DEF ConsInv
  <2>4. PeekInv' /\ NoPanic'  BY <2>1 DEF PeekInv
  <2> QED  BY <2>2, <2>3, <2>4
<1> QED
  BY <1>0, <1>c, <1>1, <1>2, <1>3, <1>4, <1>5, <1>6, <1>7, <1>8, <1>9, <1>10, <1>11, <1>12, <1>13, <1>14, <1>15,
     <1>16, <1>17, <1>18
     DEF CallerStep, Next, PushCall, PopCall, ProdStep, ConsStep

-----------------------------------------------------------------------------
(* The safety properties.                                                  *)

LEMMA Inductive ==
    ASSUME Unmasked = {} PROVE Spec => []IInv
<1>1. IInv /\ [Next]_vars => IInv'
  <2>1. ASSUME IInv, Next PROVE IInv'
    BY <2>1, InvStep
  <2>2. ASSUME IInv, UNCHANGED vars PROVE IInv'
    BY <2>2 DEF vars, IInv, TypeOK, ProdInv, ConsInv, PeekInv, CallerInv, NoPanic, Empty,
                Full, NElem, NSpace, Reader
  <2> QED  BY <2>1, <2>2
<1> QED  BY <1>1, InitInv, PTL DEF Spec

\* The indices stay in the ring for every size.
THEOREM TypeCorrect == ASSUME Unmasked = {} PROVE Spec => []TypeOK
<1>1. IInv => TypeOK  BY DEF IInv
<1> QED  BY <1>1, Inductive, PTL

\* No assertion of the queue fails and no push after a space test is refused.
THEOREM NeverPanics == ASSUME Unmasked = {} PROVE Spec => []NoPanic
<1>1. IInv => NoPanic  BY DEF IInv
<1> QED  BY <1>1, Inductive, PTL

\* The slot being filled is never the slot being read.
THEOREM SidesApart == ASSUME Unmasked = {} PROVE Spec => []SlotsApart
<1>1. IInv => SlotsApart
  BY DEF IInv, ProdInv, ConsInv, SlotsApart, Empty
<1> QED  BY <1>1, Inductive, PTL

\* An operation that counted its elements never waits for one.
THEOREM CountedNeverWaits == ASSUME Unmasked = {} PROVE Spec => []NoBlockNeverWaits
<1>1. ASSUME IInv PROVE NoBlockNeverWaits
  <2>1. head \in Slot /\ tail \in Slot /\ NElem \in Slot
    BY <1>1, RingFacts DEF IInv, TypeOK, NElem
  <2>2. cons.op \in Counted /\ cons.pc = "empty" => NElem >= cons.left /\ cons.left >= 1
    BY <1>1 DEF IInv, ConsInv
  <2>3. cons.left \in Nat
    BY <1>1 DEF IInv, TypeOK, ConsState
  <2>4. Empty <=> NElem = 0
    BY <2>1, Extremes DEF NElem, Empty
  <2>5. NElem \in Int
    BY <2>1, RingFacts
  <2> HIDE DEF NElem, Empty
  <2> QED  BY <2>2, <2>3, <2>4, <2>5 DEF NoBlockNeverWaits
<1> QED  BY <1>1, Inductive, PTL

\* What was peeked at is what comes next.
THEOREM PeekTrue == ASSUME Unmasked = {} PROVE Spec => []PeekedIsNext
<1>1. IInv => PeekedIsNext
  BY DEF IInv, PeekInv, PeekedIsNext, Reader, Empty
<1> QED  BY <1>1, Inductive, PTL

-----------------------------------------------------------------------------
(* The ring implements the FIFO.                                           *)

View(h, t, b) == [i \in 1 .. Nelem(h, t) |-> b[(t + i - 1) % CQ_N]]

\* Where the i-th waiting element lies.
LEMMA Place ==
    ASSUME NEW t \in Slot, NEW i \in 1 .. CQ_N
    PROVE  (t + i - 1) % CQ_N = IF t + i - 1 < CQ_N THEN t + i - 1 ELSE t + i - 1 - CQ_N
<1> DEFINE n == t + i - 1
<1>1. n \in 0 .. 2 * CQ_N - 1  BY RingAssumption DEF Slot
<1>2. n % CQ_N = IF n < CQ_N THEN n ELSE n - CQ_N
  <2> HIDE DEF n
  <2> QED  BY <1>1, WrapOnce
<1> QED  BY <1>2, RingAssumption DEF Slot

LEMMA PlaceIn ==
    ASSUME NEW h \in Slot, NEW t \in Slot, NEW i \in 1 .. Nelem(h, t)
    PROVE  (t + i - 1) % CQ_N \in Slot /\ (t + i - 1) % CQ_N # h /\ i \in 1 .. CQ_N - 1
<1>1. Nelem(h, t) = IF h >= t THEN h - t ELSE h - t + CQ_N  BY RingFacts
<1>2. i \in 1 .. CQ_N - 1  BY <1>1, RingAssumption DEF Slot
<1>3. i \in 1 .. CQ_N  BY <1>2, RingAssumption
<1> DEFINE p == (t + i - 1) % CQ_N
<1>4. p = IF t + i - 1 < CQ_N THEN t + i - 1 ELSE t + i - 1 - CQ_N  BY <1>3, Place
<1> HIDE DEF p
<1>5. p \in Slot /\ p # h  BY <1>1, <1>2, <1>4, RingAssumption DEF Slot
<1> QED  BY <1>2, <1>5 DEF p

LEMMA PlaceEnd ==
    ASSUME NEW h \in Slot, NEW t \in Slot
    PROVE  (t + (Nelem(h, t) + 1) - 1) % CQ_N = h
<1>1. Nelem(h, t) = IF h >= t THEN h - t ELSE h - t + CQ_N  BY RingFacts
<1> DEFINE j == Nelem(h, t) + 1
<1>2. j \in 1 .. CQ_N  BY <1>1, RingAssumption DEF Slot
<1>3. (t + j - 1) % CQ_N = IF t + j - 1 < CQ_N THEN t + j - 1 ELSE t + j - 1 - CQ_N
  <2> HIDE DEF j
  <2> QED  BY <1>2, Place
<1> QED  BY <1>1, <1>3, RingAssumption DEF Slot

LEMMA PlaceShift ==
    ASSUME NEW t \in Slot, NEW i \in 1 .. CQ_N - 1
    PROVE  (After(t) + i - 1) % CQ_N = (t + (i + 1) - 1) % CQ_N
<1> DEFINE a == After(t)
<1>1. a \in Slot /\ a = IF t = CQ_N - 1 THEN 0 ELSE t + 1  BY RingFacts
<1>2. i \in 1 .. CQ_N /\ i + 1 \in 1 .. CQ_N  BY RingAssumption
<1> HIDE DEF a
<1>3. (a + i - 1) % CQ_N = IF a + i - 1 < CQ_N THEN a + i - 1 ELSE a + i - 1 - CQ_N
  BY <1>1, <1>2, Place
<1> DEFINE j == i + 1
<1>4. (t + j - 1) % CQ_N = IF t + j - 1 < CQ_N THEN t + j - 1 ELSE t + j - 1 - CQ_N
  <2> HIDE DEF j
  <2> QED  BY <1>2, Place DEF j
<1>5. (a + i - 1) % CQ_N = (t + j - 1) % CQ_N
  BY <1>1, <1>3, <1>4, RingAssumption DEF Slot
<1> QED  BY <1>5 DEF a

LEMMA ViewSeq ==
    ASSUME NEW h \in Slot, NEW t \in Slot, NEW b \in [Slot -> Elem]
    PROVE  View(h, t, b) \in Seq(Elem) /\ Len(View(h, t, b)) = Nelem(h, t)
<1> DEFINE n == Nelem(h, t)
<1>1. n \in Nat
  <2>1. n \in Slot  BY RingFacts
  <2> QED  BY <2>1, RingAssumption DEF Slot
<1>2. \A i \in 1 .. n : b[(t + i - 1) % CQ_N] \in Elem  BY PlaceIn
<1> HIDE DEF n
<1>3. [i \in 1 .. n |-> b[(t + i - 1) % CQ_N]] \in Seq(Elem)
  BY <1>1, <1>2
<1>4. Len([i \in 1 .. n |-> b[(t + i - 1) % CQ_N]]) = n
  BY <1>1, <1>3
<1> QED  BY <1>3, <1>4 DEF View, n

LEMMA ViewPush ==
    ASSUME NEW h \in Slot, NEW t \in Slot, NEW b \in [Slot -> Elem], After(h) # t
    PROVE  View(After(h), t, b) = Append(View(h, t, b), b[h])
<1> DEFINE n == Nelem(h, t)
           v == View(h, t, b)
           w == View(After(h), t, b)
<1>1. n \in Slot /\ Nelem(After(h), t) = n + 1 /\ After(h) \in Slot
  BY RingFacts, Pushed
<1>2. v \in Seq(Elem) /\ w \in Seq(Elem) /\ Len(v) = n /\ Len(w) = n + 1
  BY <1>1, ViewSeq
<1>3. \A i \in 1 .. n : v[i] = w[i]
  BY <1>1 DEF View, Slot
<1>4. w[n + 1] = b[h]
  <2>1. w[n + 1] = b[(t + (n + 1) - 1) % CQ_N]
    BY <1>1 DEF View, Slot
  <2> QED  BY <2>1, PlaceEnd
<1>5. n \in Nat /\ b[h] \in Elem
  BY <1>1 DEF Slot
<1> HIDE DEF n, v, w
<1> QED  BY <1>2, <1>3, <1>4, <1>5 DEF v, w

LEMMA ViewPop ==
    ASSUME NEW h \in Slot, NEW t \in Slot, NEW b \in [Slot -> Elem], h # t
    PROVE  /\ View(h, t, b) # << >>
           /\ Head(View(h, t, b)) = b[t]
           /\ View(h, After(t), b) = Tail(View(h, t, b))
<1> DEFINE n == Nelem(h, t)
           v == View(h, t, b)
           w == View(h, After(t), b)
<1>1. n \in Slot /\ n # 0 /\ Nelem(h, After(t)) = n - 1 /\ After(t) \in Slot
  <2>1. n \in Slot /\ After(t) \in Slot  BY RingFacts
  <2>2. n # 0  BY Extremes
  <2>3. Nelem(h, After(t)) = n - 1  BY Popped
  <2> QED  BY <2>1, <2>2, <2>3
<1>2. n \in Nat /\ n \in 1 .. CQ_N - 1
  BY <1>1 DEF Slot
<1>3. v \in Seq(Elem) /\ w \in Seq(Elem) /\ Len(v) = n /\ Len(w) = n - 1
  BY <1>1, ViewSeq
<1>4. v[1] = b[t]
  <2>1. v[1] = b[(t + 1 - 1) % CQ_N]  BY <1>2 DEF View
  <2>2. (t + 1 - 1) % CQ_N = t
    <3>1. 1 \in 1 .. CQ_N  BY RingAssumption
    <3> QED  BY <3>1, Place, RingAssumption DEF Slot
  <2> QED  BY <2>1, <2>2
<1>5. \A i \in 1 .. n - 1 : w[i] = v[i + 1]
  <2> SUFFICES ASSUME NEW i \in 1 .. n - 1 PROVE w[i] = v[i + 1]
    OBVIOUS
  <2>1. w[i] = b[(After(t) + i - 1) % CQ_N]  BY <1>1 DEF View
  <2>2. v[i + 1] = b[(t + (i + 1) - 1) % CQ_N]  BY <1>2 DEF View
  <2>3. i \in 1 .. CQ_N - 1
    <3> HIDE DEF n
    <3> QED  BY <1>2, RingAssumption
  <2> QED  BY <2>1, <2>2, <2>3, PlaceShift
<1> HIDE DEF n, v, w
<1>6. v # << >> /\ Head(v) = b[t]  BY <1>2, <1>3, <1>4
<1>7. Tail(v) \in Seq(Elem) /\ Len(Tail(v)) = n - 1 /\ \A i \in 1 .. n - 1 : Tail(v)[i] = v[i + 1]
  BY <1>2, <1>3, <1>6
<1>8. w = Tail(v)
  BY <1>3, <1>5, <1>7, <1>2
<1> QED  BY <1>6, <1>8 DEF v, w

\* What is left after the elements from c to t have been read, and the next one.
LEMMA ViewSkip ==
    ASSUME NEW h \in Slot, NEW t \in Slot, NEW c \in Slot, NEW b \in [Slot -> Elem],
           Nelem(t, c) <= Nelem(h, c)
    PROVE  View(h, t, b) = SubSeq(View(h, c, b), Nelem(t, c) + 1, Len(View(h, c, b)))
<1> DEFINE n == Nelem(h, c)
           k == Nelem(t, c)
           v == View(h, c, b)
           w == View(h, t, b)
<1>1. n \in 0 .. CQ_N - 1 /\ k \in 0 .. n /\ CQ_N \in Nat
  <2>1. n \in Slot /\ k \in Slot  BY RingFacts
  <2> QED  BY <2>1, RingAssumption DEF Slot
<1>2. n = (IF h >= c THEN h - c ELSE h - c + CQ_N) /\ k = IF t >= c THEN t - c ELSE t - c + CQ_N
  BY RingFacts
<1>3. Nelem(h, t) = n - k
  <2>1. Nelem(h, t) = IF h >= t THEN h - t ELSE h - t + CQ_N  BY RingFacts
  <2> HIDE DEF n, k
  <2> QED  BY <1>1, <1>2, <2>1, RingAssumption DEF Slot
<1>4. v \in Seq(Elem) /\ Len(v) = n /\ w \in Seq(Elem) /\ Len(w) = n - k
  BY <1>3, ViewSeq
<1>5. \A i \in 1 .. n - k : w[i] = v[k + i]
  <2> SUFFICES ASSUME NEW i \in 1 .. n - k PROVE w[i] = v[k + i]
    OBVIOUS
  <2>1. w[i] = b[(t + i - 1) % CQ_N]  BY <1>3 DEF View
  <2> DEFINE j == k + i
  <2>2. i \in 1 .. CQ_N /\ j \in 1 .. CQ_N /\ j \in 1 .. n
    <3> HIDE DEF n, k
    <3> QED  BY <1>1
  <2>3. v[j] = b[(c + j - 1) % CQ_N]  BY <2>2 DEF View
  <2>4. (t + i - 1) % CQ_N = IF t + i - 1 < CQ_N THEN t + i - 1 ELSE t + i - 1 - CQ_N
    BY <2>2, Place
  <2>5. (c + j - 1) % CQ_N = IF c + j - 1 < CQ_N THEN c + j - 1 ELSE c + j - 1 - CQ_N
    <3> HIDE DEF j
    <3> QED  BY <2>2, Place
  <2>6. (t + i - 1) % CQ_N = (c + j - 1) % CQ_N
    <3> HIDE DEF n, k
    <3> QED  BY <1>1, <1>2, <2>2, <2>4, <2>5, RingAssumption DEF Slot
  <2> QED  BY <2>1, <2>3, <2>6
<1> HIDE DEF n, k, v, w
<1>6. w = [i \in 1 .. n - k |-> w[i]]  BY <1>1, <1>4
<1>7. /\ SubSeq(v, k + 1, n) \in Seq(Elem) /\ Len(SubSeq(v, k + 1, n)) = n - k
      /\ \A i \in 1 .. n - k : SubSeq(v, k + 1, n)[i] = v[k + i]
  BY <1>1, <1>4
<1>8. w = SubSeq(v, k + 1, n)  BY <1>1, <1>4, <1>5, <1>7
<1> QED  BY <1>4, <1>8 DEF n, k, v, w

LEMMA ViewAhead ==
    ASSUME NEW h \in Slot, NEW t \in Slot, NEW c \in Slot, NEW b \in [Slot -> Elem],
           Nelem(t, c) < Nelem(h, c)
    PROVE  View(h, c, b)[Nelem(t, c) + 1] = b[t]
<1> DEFINE k == Nelem(t, c)
           n == Nelem(h, c)
<1>1. k \in Nat /\ n \in Nat /\ k < n
  <2>1. k \in Slot /\ n \in Slot  BY RingFacts
  <2> QED  BY <2>1, RingAssumption DEF Slot
<1>2. (c + (k + 1) - 1) % CQ_N = t  BY PlaceEnd
<1> HIDE DEF k, n
<1>3. k + 1 \in 1 .. n  BY <1>1
<1> QED  BY <1>2, <1>3 DEF View, k, n

LEMMA ContentsView == Contents = View(head, Front, c_buf)
BY DEF Contents, View

LEMMA NothingRead == ASSUME NEW t \in Slot PROVE Nelem(t, t) = 0
BY Extremes

\* The consumer's place, the checkpoint and the ring as they were.
Same == UNCHANGED <<head, Reader, ckpt, c_buf, out>>

LEMMA SameQueue == ASSUME Same PROVE UNCHANGED F!vars
<1>1. /\ head' = head /\ Reader' = Reader /\ ckpt' = ckpt /\ c_buf' = c_buf /\ out' = out
  BY DEF Same
<1>2. Front' = Front  BY <1>1 DEF Front
<1>3. Contents' = Contents  BY <1>1, <1>2 DEF Contents
<1> QED  BY <1>1, <1>2, <1>3 DEF F!vars

\* Every step of the ring is a step of the FIFO, or none.
LEMMA StepRefines ==
    ASSUME Unmasked = {}, IInv, Next
    PROVE  F!Next \/ UNCHANGED F!vars
<1>1. /\ head \in Slot /\ tail \in Slot /\ Reader \in Slot /\ Front \in Slot
      /\ c_buf \in [Slot -> Elem] /\ prod.x \in Elem /\ out \in Elem
      /\ (ckpt # NONE => ckpt \in Slot) /\ NONE \notin Slot
  BY NoneApart DEF IInv, TypeOK, ConsState, ProdState, Front, Reader
<1>0. Contents' = View(head', Front', c_buf')
  BY DEF Contents, View
<1>2. Len(Contents) = Nelem(head, Front)
  BY <1>1, ContentsView, ViewSeq
<1>3. prod.pc # "idle" => ckpt = NONE /\ cons.op # "peek_n" /\ Reader = tail /\ Front = tail
  BY DEF IInv, CallerInv, ConsInv, Reader, Front
<1>4. CASE PushCall
  BY <1>4, SameQueue DEF PushCall, PushBegin, Same, Reader, caller
<1>5. CASE PopCall
  <2>1. Reader' = Reader
    BY <1>5 DEF PopCall, PopBegin, Reader, IInv, TypeOK, ConsState, ConsInv, ConsIdle
  <2> QED  BY <1>5, <2>1, SameQueue DEF PopCall, PopBegin, Same, caller
<1>6. CASE DropRead \/ CheckFull \/ \E x \in Elem : ReadHead(x)
  BY <1>6, SameQueue DEF DropRead, CheckFull, ReadHead, Same, Reader, caller
<1>7. ASSUME DropBump PROVE F!Next
  <2>1. /\ Front = tail /\ Reader = tail /\ After(head) = tail /\ cons.pc = "idle"
        /\ ckpt = NONE /\ tail' = After(tail) /\ UNCHANGED <<head, c_buf, out, cons, ckpt>>
    BY <1>3, <1>7 DEF DropBump, IInv, ProdInv, ConsInv, ConsIdle, Full, caller
  <2>2. Front' = After(tail) /\ Reader' = After(tail) /\ After(tail) \in Slot
    BY <2>1, <1>1, RingFacts DEF Front, Reader
  <2>3. head # tail /\ Nelem(head, tail) = CQ_N - 1
    BY <2>1, <1>1, Extremes
  <2>4. Contents # << >> /\ Contents' = Tail(Contents)
    BY <2>1, <2>2, <2>3, <1>0, <1>1, ContentsView, ViewPop
  <2>5. Nelem(Reader, Front)' = Nelem(Reader, Front)
    BY <2>1, <2>2, <1>1, NothingRead
  <2> QED  BY <2>1, <2>3, <2>4, <2>5, <1>2 DEF F!Next, F!Discard
\* Writing the slot at head changes no waiting element.
<1>8. ASSUME StoreElem PROVE UNCHANGED F!vars
  <2>1. /\ head' = head /\ out' = out /\ ckpt' = ckpt /\ Reader' = Reader
        /\ c_buf' = [c_buf EXCEPT ![head] = prod.x]
    BY <1>8 DEF StoreElem, IInv, ProdInv, Reader, caller
  <2>2. Front' = Front  BY <2>1 DEF Front
  <2>3. Contents' = Contents
    <3>1. View(head, Front, c_buf') = View(head, Front, c_buf)
      <4>1. \A i \in 1 .. Nelem(head, Front) :
              (Front + i - 1) % CQ_N \in Slot /\ (Front + i - 1) % CQ_N # head
        BY <1>1, PlaceIn
      <4>2. \A j \in Slot : j # head => c_buf'[j] = c_buf[j]  BY <1>1, <2>1
      <4> QED  BY <4>1, <4>2 DEF View
    <3>2. Contents' = View(head, Front, c_buf')  BY <1>0, <2>1, <2>2
    <3> QED  BY <3>1, <3>2, ContentsView
  <2>4. Nelem(Reader, Front)' = Nelem(Reader, Front)  BY <2>1, <2>2
  <2> QED  BY <2>1, <2>3, <2>4 DEF F!vars
<1>9. ASSUME BumpHead PROVE F!Next
  <2>1. /\ Front = tail /\ ckpt = NONE /\ head' = After(head) /\ After(head) # tail
        /\ c_buf' = c_buf /\ out' = out /\ ckpt' = ckpt /\ Reader' = Reader
        /\ c_buf[head] = prod.x
    BY <1>3, <1>9 DEF BumpHead, IInv, ProdInv, ConsInv, Full, Reader, caller
  <2>2. Front' = Front  BY <2>1 DEF Front
  <2>3. Contents' = Append(Contents, prod.x)
    BY <2>1, <2>2, <1>0, <1>1, ContentsView, ViewPush
  <2>4. Nelem(head, tail) < CQ_N - 1
    <3>1. Nelem(head, tail) \in Slot /\ Nelem(head, tail) # CQ_N - 1
      BY <2>1, <1>1, Extremes, RingFacts
    <3> QED  BY <3>1, RingAssumption DEF Slot
  <2> QED  BY <2>1, <2>2, <2>3, <2>4, <1>1, <1>2 DEF F!Next, F!Put
<1>10. CASE FoundEmpty \/ WillDeadlock \/ FoundElem \/ Peek \/ Load \/ Restore \/ AssertSize
  <2> USE DEF FoundEmpty, WillDeadlock, FoundElem, Peek, Load, Restore, AssertSize
  <2>1. Reader' = Reader  BY <1>10, ReaderStays
  <2> QED  BY <1>10, <2>1, SameQueue DEF Same, caller
<1>11. ASSUME BumpTail PROVE F!Next \/ UNCHANGED F!vars
  <2>1. CASE cons.op = "peek_n"
    <3>1. Reader' = Reader
      BY <1>11, <2>1 DEF BumpTail, AfterPop, Reader, IInv, TypeOK, ConsState
    <3> QED  BY <1>11, <2>1, <3>1, SameQueue DEF BumpTail, Same, caller
  <2>2. ASSUME cons.op # "peek_n"
        PROVE  /\ Reader = tail /\ Reader' = After(tail) /\ After(tail) \in Slot
               /\ head # tail /\ head' = head /\ c_buf' = c_buf /\ ckpt' = ckpt
               /\ out' = c_buf[tail]
    BY <1>1, <1>11, <2>2, RingFacts
       DEF BumpTail, AfterPop, ConsIdle, IInv, TypeOK, ConsState, ConsInv, Empty, Reader, caller
  <2>3. CASE cons.op # "peek_n" /\ ckpt = NONE
    <3>1. Front = tail /\ Front' = After(tail)  BY <2>2, <2>3 DEF Front
    <3>2. Contents # << >> /\ Head(Contents) = c_buf[tail] /\ Contents' = Tail(Contents)
      BY <2>2, <2>3, <3>1, <1>0, <1>1, ContentsView, ViewPop
    <3>3. Nelem(Reader, Front)' = Nelem(Reader, Front)
      BY <2>2, <2>3, <3>1, <1>1, NothingRead
    <3> QED  BY <2>2, <2>3, <3>2, <3>3 DEF F!Next, F!Get
  <2>4. CASE cons.op # "peek_n" /\ ckpt # NONE
    <3>1. Front = ckpt /\ Front' = ckpt /\ Contents' = Contents
      BY <2>2, <2>4 DEF Front, Contents
    <3>2. Nelem(tail, ckpt) <= Nelem(head, ckpt)
      BY <2>2, <2>4 DEF IInv, CallerInv
    <3>3. /\ Nelem(tail, ckpt) < Nelem(head, ckpt)
          /\ Nelem(After(tail), ckpt) = Nelem(tail, ckpt) + 1
      BY <2>2, <2>4, <3>2, <1>1, ReadFurther
    <3>4. Contents[Nelem(tail, ckpt) + 1] = c_buf[tail]
      BY <2>4, <3>1, <3>3, <1>1, ContentsView, ViewAhead
    <3>5. /\ Nelem(Reader, Front) = Nelem(tail, ckpt)
          /\ Nelem(Reader, Front)' = Nelem(tail, ckpt) + 1
      BY <2>2, <2>4, <3>1, <3>3
    <3> QED  BY <2>2, <2>4, <3>1, <3>3, <3>4, <3>5, <1>2 DEF F!Next, F!ReadOn
  <2> QED  BY <2>1, <2>3, <2>4
<1>12. CASE Disable \/ Enable
  BY <1>12, SameQueue DEF Disable, Enable, Same, Reader
<1>13. ASSUME Ckpt PROVE F!Next
  <2>1. /\ ckpt = NONE /\ ckpt' = tail /\ ckpt' # NONE /\ Reader = tail /\ Reader' = tail
        /\ Front = tail /\ Front' = tail /\ UNCHANGED <<head, c_buf, out>>
    BY <1>1, <1>13 DEF Ckpt, Reader, Front
  <2>2. Contents' = Contents  BY <2>1 DEF Contents
  <2>3. Nelem(Reader, Front)' = Nelem(Reader, Front)  BY <2>1
  <2> QED  BY <2>1, <2>2, <2>3 DEF F!Next, F!Mark
<1>14. ASSUME CqRestore PROVE F!Next
  <2>1. /\ ckpt # NONE /\ ckpt' = ckpt /\ Reader' = ckpt /\ Front = ckpt /\ Front' = ckpt
        /\ UNCHANGED <<head, c_buf, out>>
    BY <1>14 DEF CqRestore, Reader, Front
  <2>2. Contents' = Contents  BY <2>1 DEF Contents
  <2>3. Nelem(Reader, Front)' = 0  BY <2>1, <1>1, NothingRead
  <2> QED  BY <2>1, <2>2, <2>3 DEF F!Next, F!GoBack
<1>15. ASSUME Forget PROVE F!Next
  <2>1. /\ ckpt # NONE /\ ckpt' = NONE /\ Reader = tail /\ Reader' = tail /\ Front = ckpt
        /\ Front' = tail /\ UNCHANGED <<head, c_buf, out>>
    BY <1>15 DEF Forget, Reader, Front
  <2>2. Nelem(tail, ckpt) <= Nelem(head, ckpt)
    BY <2>1 DEF IInv, CallerInv
  <2>3. Contents' = SubSeq(Contents, Nelem(Reader, Front) + 1, Len(Contents))
    BY <2>1, <2>2, <1>0, <1>1, ContentsView, ViewSkip
  <2>4. Nelem(Reader, Front)' = 0  BY <2>1, <1>1, NothingRead
  <2> QED  BY <2>1, <2>3, <2>4 DEF F!Next, F!Unmark
<1> QED
  BY <1>4, <1>5, <1>6, <1>7, <1>8, <1>9, <1>10, <1>11, <1>12, <1>13, <1>14, <1>15
     DEF Next, ProdStep, ConsStep, CallerStep

\* For every size dividing 2^32 the ring is a FIFO of CQ_N - 1 elements, in
\* every interleaving of the handler's and the program's steps.  Unmasked = {} says
\* that the program uses cq_peek_n, cq_restore and push_w_drop with interrupts
\* disabled; of a program that uses none of them it says nothing.
THEOREM RingIsFifo == ASSUME Unmasked = {} PROVE Spec => ImplementsFifo
<1>1. Init => F!Init
  <2> SUFFICES ASSUME Init PROVE F!Init
    OBVIOUS
  <2>1. Front = 0 /\ Reader = 0 /\ head = 0 /\ ckpt = NONE /\ 0 \in Slot /\ out \in Elem
    BY RingFacts DEF Init, Front, Reader, ConsIdle
  <2>2. Nelem(0, 0) = 0
    BY <2>1, Extremes
  <2>3. Contents = << >>
    BY <2>1, <2>2 DEF Contents
  <2> QED  BY <2>1, <2>2, <2>3 DEF F!Init
<1>2. IInv /\ [Next]_vars => [F!Next]_(F!vars)
  <2>1. ASSUME IInv, Next PROVE [F!Next]_(F!vars)
    BY <2>1, StepRefines
  <2>2. ASSUME UNCHANGED vars PROVE UNCHANGED F!vars
    BY <2>2, SameQueue DEF vars, Same, Reader
  <2> QED  BY <2>1, <2>2
<1> QED  BY <1>1, <1>2, Inductive, PTL DEF Spec, F!Spec, ImplementsFifo
=============================================================================
