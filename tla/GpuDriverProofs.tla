--------------------------- MODULE GpuDriverProofs ---------------------------
(***************************************************************************)
(* The driver and the V3D keep a kernel call's promise for any number of   *)
(* programs that the 8-bit count can tell, any arguments and any handles.  *)
(*                                                                         *)
(* The host requests the programs in order and the V3D starts them in      *)
(* order, so that the queue is always the last programs requested, and     *)
(* those before them run or have ended.  The count is that of the ended    *)
(* ones: when it is NQ they all have.                                      *)
(***************************************************************************)
EXTENDS GpuDriver, FiniteSetTheorems, TLAPS

\* What the firmware has given, at each place of the host.
Mapped == {"ready", "rows", "reset", "launch"}

FirmwareInv ==
    /\ pc = "off" => owned = {} /\ locked = {} /\ enabled = FALSE
    /\ pc = "alloc" => owned = {} /\ locked = {} /\ enabled = TRUE
    /\ pc = "lock" => owned = {handle} /\ locked = {} /\ enabled = TRUE
    /\ pc = "map" => owned = {handle} /\ locked \subseteq {handle} /\ enabled = TRUE
    /\ pc = "free_unmapped" => owned = {handle} /\ locked \subseteq {handle}
    /\ pc = "unlock_unmapped" => owned = {} /\ locked \subseteq {handle}
    /\ pc = "disable_panic" => owned = {} /\ locked = {}
    /\ pc = "panic" => owned = {} /\ locked = {} /\ enabled = FALSE
    /\ pc \in Mapped => owned = {gpu} /\ locked \subseteq {gpu} /\ enabled = TRUE
    /\ pc = "free" => handle = gpu /\ owned = {gpu} /\ locked = {}
    /\ pc = "disable" => owned = {} /\ locked = {}
    /\ ~LockFails => /\ pc = "map" => locked = {handle}
                     /\ pc \in Mapped => locked = {gpu}

\* The rows and the caches hold this call's arguments once they must.
RowsInv ==
    /\ pc = "rows" => ran = Nobody /\ \A p \in QPU : p < q => unif[p] = args
    /\ pc \in {"reset", "launch"} =>
          \A p \in QPU : unif[p] = args /\ cache[p] \in {None, args}
    /\ pc = "reset" => ran = Nobody

\* Programs run only in the last part of a call, in the order requested.
Started == 0 .. q - Len(queue) - 1
ProgramsInv ==
    /\ pc # "launch" => queue = << >> /\ running = {}
    /\ pc = "launch" =>
          /\ Len(queue) <= q
          /\ \A i \in 1 .. Len(queue) : queue[i] = q - Len(queue) + i - 1
          /\ running \cap DOMAIN ran = {}
          /\ running \cup DOMAIN ran = Started
          /\ count = Cardinality(DOMAIN ran)
          /\ \A p \in running : saw[p] = args
          /\ ran = [p \in DOMAIN ran |-> args]

IInv == TypeOK /\ FirmwareInv /\ RowsInv /\ ProgramsInv

-----------------------------------------------------------------------------

LEMMA FiniteQPU == IsFiniteSet(QPU) /\ Cardinality(QPU) = NQ
<1>1. 0 \in Int /\ NQ - 1 \in Int /\ NQ \in Nat \ {0}
  BY DriverAssumption
<1> QED BY <1>1, FS_Interval DEF QPU

LEMMA InitInv == Init => IInv
<1> SUFFICES ASSUME Init PROVE IInv
  OBVIOUS
<1>1. TypeOK
  BY DriverAssumption DEF Init, TypeOK, QPU
<1> QED
  BY <1>1 DEF Init, IInv, FirmwareInv, RowsInv, ProgramsInv, Mapped

LEMMA SetupInv == IInv /\ (Setup \/ FirmwareError \/ Unlock \/ Release) => IInv'
<1> SUFFICES ASSUME IInv, Setup \/ FirmwareError \/ Unlock \/ Release PROVE IInv'
  OBVIOUS
<1> USE DEF IInv, GoTo, host, v3d, firmware
<1>1. UNCHANGED <<args, q, unif, v3d>>
  BY DEF Setup, FirmwareError, Unlock, Release, Enable, Alloc, Lock, Map, FreeUnmapped,
         UnlockUnmapped, DisableAndPanic, Free, Disable
<1>2. pc \notin {"rows", "reset", "launch"} /\ pc' \notin {"rows", "reset", "launch"}
  BY DEF Setup, FirmwareError, Unlock, Release, Enable, Alloc, Lock, Map, FreeUnmapped,
         UnlockUnmapped, DisableAndPanic, Free, Disable
<1>3. RowsInv' /\ ProgramsInv'
  BY <1>1, <1>2 DEF RowsInv, ProgramsInv
<1>4. TypeOK' /\ FirmwareInv'
  <2>1. CASE Enable
    BY <2>1, <1>1 DEF Enable, TypeOK, FirmwareInv, Mapped
  <2>2. CASE Alloc
    BY <2>2, <1>1 DEF Alloc, TypeOK, FirmwareInv, Mapped
  <2>3. CASE Lock
    BY <2>3, <1>1 DEF Lock, TypeOK, FirmwareInv, Mapped
  <2>4. CASE Map
    BY <2>4, <1>1 DEF Map, TypeOK, FirmwareInv, Mapped
  <2>5. CASE FreeUnmapped
    BY <2>5, <1>1 DEF FreeUnmapped, TypeOK, FirmwareInv, Mapped
  <2>6. CASE UnlockUnmapped
    BY <2>6, <1>1 DEF UnlockUnmapped, TypeOK, FirmwareInv, Mapped
  <2>7. CASE DisableAndPanic
    BY <2>7, <1>1 DEF DisableAndPanic, TypeOK, FirmwareInv, Mapped
  <2>8. CASE FirmwareError
    BY <2>8, <1>1 DEF FirmwareError, TypeOK, FirmwareInv, Mapped
  <2>9. CASE Unlock
    BY <2>9, <1>1 DEF Unlock, TypeOK, FirmwareInv, Mapped
  <2>10. CASE Free
    BY <2>10, <1>1 DEF Free, FreedOf, TypeOK, FirmwareInv, Mapped
  <2>11. CASE Disable
    BY <2>11, <1>1 DEF Disable, TypeOK, FirmwareInv, Mapped
  <2> QED
    BY <2>1, <2>2, <2>3, <2>4, <2>5, <2>6, <2>7, <2>8, <2>9, <2>10, <2>11
       DEF Setup, Release
<1> QED
  BY <1>3, <1>4

LEMMA CallInv == IInv /\ Call => IInv'
<1> SUFFICES ASSUME IInv, Call PROVE IInv'
  OBVIOUS
<1>1. TypeOK' /\ FirmwareInv'
  BY DriverAssumption DEF IInv, Call, GoTo, firmware, TypeOK, FirmwareInv, Mapped
<1>2. RowsInv' /\ ProgramsInv'
  BY DEF IInv, Call, GoTo, firmware, RowsInv, ProgramsInv, QPU
<1> QED
  BY <1>1, <1>2 DEF IInv

\* The host's part of a call before it requests programs, and its end.
LEMMA HostInv == IInv /\ (WriteRow \/ ClearCaches \/ ResetCounts \/ Poll) => IInv'
<1> SUFFICES ASSUME IInv, WriteRow \/ ClearCaches \/ ResetCounts \/ Poll PROVE IInv'
  OBVIOUS
<1> USE DEF IInv, GoTo, firmware
<1>1. CASE WriteRow
  <2>1. TypeOK'
    BY <1>1, DriverAssumption DEF WriteRow, RowsLeft, v3d, TypeOK, QPU
  <2>2. FirmwareInv' /\ ProgramsInv'
    BY <1>1 DEF WriteRow, v3d, FirmwareInv, ProgramsInv, Mapped
  <2>3. RowsInv'
    BY <1>1 DEF WriteRow, RowsLeft, v3d, TypeOK, RowsInv, QPU
  <2> QED BY <2>1, <2>2, <2>3
<1>2. CASE ClearCaches
  <2>1. TypeOK' /\ FirmwareInv' /\ ProgramsInv'
    BY <1>2 DEF ClearCaches, Cleared, host, TypeOK, FirmwareInv, ProgramsInv, Mapped
  <2>2. RowsInv'
    <3>1. /\ pc = "rows" /\ pc' = "reset" /\ ~(q < NQ) /\ cache' = [p \in QPU |-> None]
          /\ UNCHANGED <<args, q, unif, ran>>
      BY <1>2 DEF ClearCaches, Cleared, RowsLeft, host
    <3>2. q \in Nat /\ NQ \in Nat
      BY DriverAssumption DEF TypeOK
    <3>3. \A p \in QPU : p < q
      BY <3>1, <3>2 DEF QPU
    <3> QED BY <3>1, <3>3 DEF RowsInv
  <2> QED BY <2>1, <2>2
<1>3. CASE ResetCounts
  <2>1. TypeOK' /\ FirmwareInv' /\ RowsInv'
    BY <1>3, DriverAssumption DEF ResetCounts, CountReset, TypeOK, FirmwareInv, RowsInv, Mapped
  <2>2. ProgramsInv'
    <3>1. queue' = << >> /\ running' = {} /\ ran' = Nobody /\ q' = 0 /\ count' = 0
      BY <1>3 DEF ResetCounts, CountReset, ProgramsInv, RowsInv
    <3>2. DOMAIN Nobody = {} /\ Nobody = [p \in DOMAIN Nobody |-> args'] /\ Cardinality({}) = 0
      BY FS_EmptySet DEF Nobody
    <3> QED BY <1>3, <3>1, <3>2 DEF ResetCounts, ProgramsInv, Started
  <2> QED BY <2>1, <2>2
<1>4. CASE Poll
  <2>1. count = NQ /\ q = NQ
    BY <1>4 DEF Poll, AllCompleted, RowsLeft, TypeOK
  <2>2. DOMAIN ran = QPU
    <3>1. DOMAIN ran \subseteq QPU
      BY <1>4, <2>1, DriverAssumption DEF Poll, ProgramsInv, Started, QPU, TypeOK
    <3>2. IsFiniteSet(QPU) /\ Cardinality(QPU) = NQ
      BY FiniteQPU
    <3>3. Cardinality(DOMAIN ran) = NQ
      BY <1>4, <2>1 DEF Poll, ProgramsInv
    <3> QED BY <3>1, <3>2, <3>3, FS_Subset
  <2>3. queue = << >> /\ running = {}
    <3>1. Len(queue) \in Nat
      BY DEF TypeOK
    <3>2. QPU \subseteq Started /\ running = {}
      <4>1. running \cap QPU = {} /\ running \cup QPU = Started /\ running \subseteq QPU
        BY <1>4, <2>2 DEF Poll, ProgramsInv, TypeOK
      <4> QED BY <4>1
    <3>3. NQ - 1 \in Started
      BY <3>2, DriverAssumption DEF QPU
    <3>4. Len(queue) = 0
      BY <2>1, <3>1, <3>3, DriverAssumption DEF Started
    <3> QED BY <3>2, <3>4 DEF TypeOK
  <2> QED
    BY <1>4, <2>3 DEF Poll, host, v3d, TypeOK, FirmwareInv, RowsInv, ProgramsInv, Mapped
<1> QED
  BY <1>1, <1>2, <1>3, <1>4

LEMMA LaunchInv == IInv /\ Launch => IInv'
<1> SUFFICES ASSUME IInv, Launch PROVE IInv'
  OBVIOUS
<1> USE DEF IInv, firmware
<1>1. q \in QPU /\ queue \in Seq(QPU) /\ queue' = Append(queue, q) /\ q' = q + 1
  BY DriverAssumption DEF Launch, RowsLeft, TypeOK, QPU
<1>2. TypeOK' /\ FirmwareInv' /\ RowsInv'
  BY <1>1, DriverAssumption DEF Launch, TypeOK, FirmwareInv, RowsInv, Mapped, QPU
<1>3. /\ Len(queue') = Len(queue) + 1 /\ Len(queue) \in Nat
      /\ queue'[Len(queue) + 1] = q
      /\ \A i \in 1 .. Len(queue) : queue'[i] = queue[i]
  BY <1>1
<1>4. \A i \in 1 .. Len(queue') : queue'[i] = q' - Len(queue') + i - 1
  BY <1>1, <1>3, DriverAssumption DEF Launch, ProgramsInv, QPU
<1>5. Started' = Started /\ Len(queue') <= q'
  BY <1>1, <1>3 DEF Launch, ProgramsInv, Started, QPU
<1> QED
  BY <1>2, <1>4, <1>5 DEF Launch, ProgramsInv

LEMMA StartInv == IInv /\ StartProgram => IInv'
<1> SUFFICES ASSUME IInv, StartProgram PROVE IInv'
  OBVIOUS
<1> USE DEF IInv, firmware, host
<1> DEFINE p == Head(queue)
           row == IF cache[p] = None THEN unif[p] ELSE cache[p]
<1>1. PICK kept \in {row, None} :
        /\ running' = running \cup {p}
        /\ saw' = [saw EXCEPT ![p] = row]
        /\ cache' = [cache EXCEPT ![p] = kept]
        /\ queue' = Tail(queue) /\ queue # << >>
        /\ UNCHANGED <<pc, handle, gpu, args, q, unif, enabled, owned, locked, count, ran>>
  BY DEF StartProgram
<1>2. /\ pc = "launch" /\ p \in QPU /\ queue \in Seq(QPU) /\ Len(queue) \in Nat \ {0}
      /\ p = q - Len(queue)
  BY <1>1 DEF ProgramsInv, TypeOK
<1>3. row = args /\ kept \in {None, args}
  BY <1>2, DriverAssumption DEF RowsInv
<1> HIDE DEF p, row
<1>4. args \in Args
  BY DEF TypeOK
<1>5. TypeOK' /\ FirmwareInv' /\ RowsInv'
  <2>1. TypeOK'
    <3>1. running' \subseteq QPU
      BY <1>1, <1>2 DEF TypeOK
    <3>4. queue' \in Seq(QPU)
      <4>1. queue # << >> /\ queue' = Tail(queue) /\ queue \in Seq(QPU)
        BY <1>1, <1>2
      <4> QED BY <4>1
    <3>2. saw' \in [QPU -> Args \cup {None}]
      BY <1>1, <1>3, <1>4 DEF TypeOK
    <3>3. cache' \in [QPU -> Args \cup {None}]
      BY <1>1, <1>3, <1>4 DEF TypeOK
    <3> QED BY <1>1, <3>1, <3>2, <3>3, <3>4 DEF TypeOK
  <2>2. FirmwareInv'
    BY <1>1, <1>2 DEF FirmwareInv, Mapped
  <2>3. RowsInv'
    BY <1>1, <1>2, <1>3 DEF TypeOK, RowsInv
  <2> QED BY <2>1, <2>2, <2>3
<1>6. /\ Len(queue') = Len(queue) - 1
      /\ \A i \in 1 .. Len(queue) - 1 : queue'[i] = queue[i + 1]
  BY <1>1, <1>2
<1>7. /\ \A i \in 1 .. Len(queue') : queue'[i] = q' - Len(queue') + i - 1
      /\ Len(queue') <= q'
  <2>1. q' = q /\ q \in Nat /\ Len(queue) <= q
    BY <1>1, <1>2 DEF ProgramsInv, TypeOK
  <2>2. \A i \in 1 .. Len(queue) - 1 : queue[i + 1] = q - Len(queue) + (i + 1) - 1
    BY <1>2 DEF ProgramsInv
  <2> QED BY <1>2, <1>6, <2>1, <2>2
<1>8. Started' = Started \cup {p} /\ p \notin Started
  BY <1>1, <1>2, <1>6 DEF ProgramsInv, Started, TypeOK, QPU
<1>9. running' \cap DOMAIN ran' = {} /\ running' \cup DOMAIN ran' = Started'
  BY <1>1, <1>2, <1>8 DEF ProgramsInv
<1>10. \A o \in running' : saw'[o] = args'
  BY <1>1, <1>2, <1>3 DEF ProgramsInv, TypeOK
<1> QED
  BY <1>1, <1>2, <1>5, <1>7, <1>9, <1>10 DEF ProgramsInv

LEMMA EndInv == ASSUME IInv, NEW p \in QPU, EndProgram(p) PROVE IInv'
<1> USE DEF IInv, firmware, host
<1>1. /\ pc = "launch" /\ pc' = pc /\ p \in running /\ running' = running \ {p}
      /\ count' = (count + 1) % 256
      /\ UNCHANGED <<handle, gpu, args, q, unif, enabled, owned, locked, queue, cache, saw>>
  BY DEF EndProgram, ProgramsInv
<1>2. ran' = [o \in DOMAIN ran \cup {p} |-> args] /\ DOMAIN ran' = DOMAIN ran \cup {p}
  <2>1. saw[p] = args /\ \A o \in DOMAIN ran : ran[o] = args
    BY <1>1 DEF ProgramsInv
  <2>2. ran' = [o \in DOMAIN ran \cup {p} |-> IF o = p THEN saw[p] ELSE ran[o]]
    BY DEF EndProgram
  <2> QED BY <2>1, <2>2
<1>3. p \notin DOMAIN ran /\ DOMAIN ran \cup {p} \subseteq QPU
  <2>1. running \cup DOMAIN ran = Started /\ running \cap DOMAIN ran = {}
        /\ q \in 0 .. NQ /\ Len(queue) \in Nat
    BY <1>1 DEF ProgramsInv, TypeOK
  <2>2. Started \subseteq QPU
    BY <2>1, DriverAssumption DEF Started, QPU
  <2> QED BY <1>1, <2>1, <2>2
<1>4. IsFiniteSet(QPU) /\ Cardinality(QPU) = NQ
  BY FiniteQPU
<1>5. /\ IsFiniteSet(DOMAIN ran) /\ Cardinality(DOMAIN ran \cup {p}) = Cardinality(DOMAIN ran) + 1
      /\ Cardinality(DOMAIN ran \cup {p}) <= NQ
  BY <1>3, <1>4, FS_Subset, FS_AddElement
<1>6. count' = Cardinality(DOMAIN ran')
  <2>1. count = Cardinality(DOMAIN ran) /\ count \in Nat /\ count + 1 < 256
    <3>1. count = Cardinality(DOMAIN ran)
      BY <1>1 DEF ProgramsInv
    <3>2. count \in 0 .. 255
      BY DEF TypeOK
    <3> QED BY <1>5, <3>1, <3>2, DriverAssumption
  <2> QED BY <1>1, <1>2, <1>5, <2>1
<1>7. TypeOK' /\ FirmwareInv' /\ RowsInv'
  <2>1. count' \in 0 .. 255
    BY <1>1 DEF TypeOK
  <2> QED BY <1>1, <2>1 DEF TypeOK, FirmwareInv, RowsInv, Mapped
<1>8. Started' = Started
  BY <1>1 DEF Started
<1>9. running' \cap DOMAIN ran' = {} /\ running' \cup DOMAIN ran' = Started
  BY <1>1, <1>2, <1>3 DEF ProgramsInv
<1> QED
  BY <1>1, <1>2, <1>6, <1>7, <1>8, <1>9 DEF ProgramsInv

LEMMA StepInv == IInv /\ [Next]_vars => IInv'
<1> SUFFICES ASSUME IInv, [Next]_vars PROVE IInv'
  OBVIOUS
<1>1. CASE UNCHANGED vars
  BY <1>1 DEF vars, host, firmware, v3d, IInv, TypeOK, FirmwareInv, RowsInv, ProgramsInv,
              Started, Mapped
<1> QED
  BY <1>1, SetupInv, CallInv, HostInv, LaunchInv, StartInv, EndInv DEF Next, Kernel, Programs

\* The invariant holds throughout.
THEOREM Invariant == Spec => []IInv
<1> QED BY InitInv, StepInv, PTL DEF Spec

-----------------------------------------------------------------------------

\* The driver's and the V3D's variables keep their types; the completion count
\* stays within its 8 bits without wrapping during a call.
THEOREM TypeCorrect == Spec => []TypeOK
<1>1. IInv => TypeOK
  BY DEF IInv
<1> QED BY <1>1, Invariant, PTL

\* When mem_lock does not fail, programs work on memory that is allocated and
\* locked: the driver releases nothing a program may still use.
THEOREM HoldsMemory == ~LockFails => (Spec => []MemoryHeld)
<1> SUFFICES ASSUME ~LockFails PROVE Spec => []MemoryHeld
  OBVIOUS
<1>1. IInv => MemoryHeld
  BY DEF IInv, FirmwareInv, ProgramsInv, MemoryHeld, Mapped
<1> QED BY <1>1, Invariant, PTL

\* The driver leaves no memory and no power behind when it is off or has panicked,
\* whichever step of init failed.
THEOREM LeavesNothing == Spec => []NothingLeftBehind
<1>1. IInv => NothingLeftBehind
  BY DEF IInv, FirmwareInv, NothingLeftBehind
<1> QED BY <1>1, Invariant, PTL

\* A call of <name>_kernel runs every program once, on this call's arguments, and
\* returns after the last: the driver and the V3D implement KernelCall.
THEOREM KeepsPromise == Spec => ImplementsCall
<1>1. Init => Promise!Init
  BY DEF Init, Promise!Init, Nobody, Promise!Nobody
<1>2. IInv /\ [Next]_vars => [Promise!Next]_(Promise!vars)
  <2> SUFFICES ASSUME IInv, [Next]_vars
               PROVE  Promise!Next \/ UNCHANGED Promise!vars
    OBVIOUS
  <2> USE DEF GoTo, Promise!vars
  <2>1. CASE UNCHANGED vars
    BY <2>1 DEF vars, host, v3d
  <2>2. CASE Setup \/ FirmwareError \/ Unlock \/ Release
    BY <2>2 DEF Setup, FirmwareError, Unlock, Release, Enable, Alloc, Lock, Map, FreeUnmapped,
              UnlockUnmapped, DisableAndPanic, Free, Disable, host, v3d
  <2>3. CASE Call
    BY <2>3 DEF Call, Promise!Next, Promise!Invoke, Nobody, Promise!Nobody
  <2>4. CASE WriteRow \/ ClearCaches \/ ResetCounts \/ Launch
    BY <2>4 DEF WriteRow, ClearCaches, ResetCounts, Launch, host, v3d
  <2>5. CASE Poll
    <3>1. DOMAIN ran = 0 .. NQ - 1
      <4>1. count = NQ /\ q = NQ
        BY <2>5 DEF Poll, AllCompleted, RowsLeft, IInv, TypeOK
      <4>2. DOMAIN ran \subseteq QPU
        BY <2>5, <4>1, DriverAssumption DEF Poll, IInv, ProgramsInv, Started, QPU, TypeOK
      <4>3. IsFiniteSet(QPU) /\ Cardinality(QPU) = NQ
        BY FiniteQPU
      <4>4. Cardinality(DOMAIN ran) = NQ
        BY <2>5, <4>1 DEF Poll, IInv, ProgramsInv
      <4> QED BY <4>2, <4>3, <4>4, FS_Subset DEF QPU
    <3> QED BY <2>5, <3>1 DEF Poll, host, v3d, Promise!Next, Promise!Return
  <2>6. CASE StartProgram
    BY <2>6 DEF StartProgram, host
  <2>7. ASSUME NEW p \in QPU, EndProgram(p) PROVE Promise!Next
    <3>1. /\ pc = "launch" /\ pc' = pc /\ saw[p] = args /\ p \notin DOMAIN ran
          /\ UNCHANGED args
      BY <2>7 DEF EndProgram, host, IInv, ProgramsInv
    <3>2. ran' = [o \in DOMAIN ran \cup {p} |-> IF o = p THEN args ELSE ran[o]]
      BY <2>7, <3>1 DEF EndProgram
    <3> QED BY <3>1, <3>2 DEF Promise!Next, Promise!Run, QPU
  <2> QED
    BY <2>1, <2>2, <2>3, <2>4, <2>5, <2>6, <2>7 DEF Next, Kernel, Programs
<1> QED
  BY <1>1, <1>2, Invariant, PTL DEF Spec, ImplementsCall, Promise!Spec
=============================================================================
