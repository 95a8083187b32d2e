------------------------------ MODULE GpuDriver ------------------------------
(***************************************************************************)
(* The generated C driver (<name>_init, <name>_kernel, <name>_release) and *)
(* the launcher in mailbox.c, on the Pi's one thread, against the firmware *)
(* that owns the GPU memory and the V3D block that runs the programs.      *)
(*                                                                         *)
(* The client calls init, any number of kernels, release, and may start    *)
(* over.  A kernel call writes the uniforms of every q, clears the caches, *)
(* clears the count of completed programs, requests one program for each q *)
(* and polls the count.  The V3D queues the requests, runs each on a QPU   *)
(* that is free, in any interleaving, and counts those that end.           *)
(***************************************************************************)
EXTENDS Integers, Sequences, FiniteSets

CONSTANTS
    NQ,             \* programs launched by a call: 8
    Args,           \* arguments a call may have
    Handles,        \* handles the firmware may give for memory
    LockFails       \* may mem_lock answer 0, its failure?

None == "none"

ASSUME DriverAssumption ==
    /\ NQ \in 1 .. 255 /\ Args # {} /\ None \notin Args \cup Handles
    /\ LockFails \in BOOLEAN

QPU == 0 .. NQ - 1

VARIABLES
    pc,         \* where the host is: "off" and "ready" between calls
    handle,     \* the host's handle (ptr->handle once it is mapped)
    gpu,        \* _gpu: the mapped handle, or None for NULL
    args,       \* arguments of the current (or last) kernel call
    q,          \* loop index
    unif,       \* _gpu->unif[q]: whose arguments the row holds
    enabled,    \* firmware: are the QPUs on?
    owned,      \* firmware: handles allocated
    locked,     \* firmware: handles locked
    queue,      \* V3D: requested programs
    running,    \* V3D: programs on a QPU
    cache,      \* V3D: row q as the caches hold it, or None
    count,      \* V3D: SRQCS, programs completed, 8 bits
    saw,        \* the arguments each running program read
    ran         \* those of the programs that ended since the call began

host == <<handle, gpu, args, q, unif>>
firmware == <<enabled, owned, locked>>
v3d == <<queue, running, cache, count, saw, ran>>
vars == <<pc, host, firmware, v3d>>

Nobody == [p \in {} |-> 0]

Init ==
    /\ pc = "off" /\ handle = None /\ gpu = None
    /\ args \in Args /\ q = 0 /\ unif = [p \in QPU |-> None]
    /\ enabled = FALSE /\ owned = {} /\ locked = {}
    /\ queue = <<>> /\ running = {} /\ count = 0
    /\ cache = [p \in QPU |-> None] /\ saw = [p \in QPU |-> None] /\ ran = Nobody

GoTo(from, to) == pc = from /\ pc' = to

-----------------------------------------------------------------------------
(* <name>_init.  Each step is one call to the firmware through the mailbox. *)

Enable ==
    /\ \/ GoTo("off", "alloc") /\ enabled' = TRUE
       \/ GoTo("off", "panic") /\ enabled' = enabled
    /\ UNCHANGED <<host, owned, locked, v3d>>

Alloc ==
    \/ \E h \in Handles \ owned :
         /\ GoTo("alloc", "lock")
         /\ handle' = h /\ owned' = owned \cup {h}
         /\ UNCHANGED <<gpu, args, q, unif, enabled, locked, v3d>>
    \/ /\ GoTo("alloc", "disable_panic")
       /\ UNCHANGED <<host, firmware, v3d>>

\* mem_lock answers the bus address.  The driver subtracts GPU_BASE and takes
\* the difference for a pointer: it sees a failure only where that is NULL, and
\* takes the address 0 of a failed lock for memory.
Lock ==
    /\ \/ GoTo("lock", "map") /\ locked' = locked \cup {handle}
       \/ GoTo("lock", "free_unmapped") /\ locked' \in {locked, locked \cup {handle}}
       \/ LockFails /\ GoTo("lock", "map") /\ locked' = locked
    /\ UNCHANGED <<host, enabled, owned, v3d>>

Map ==
    /\ GoTo("map", "ready")
    /\ gpu' = handle
    /\ UNCHANGED <<handle, args, q, unif, firmware, v3d>>

\* A handle that could not be mapped is freed and then unlocked, and the QPUs go
\* off.
FreeUnmapped ==
    /\ GoTo("free_unmapped", "unlock_unmapped")
    /\ owned' = owned \ {handle}
    /\ UNCHANGED <<host, enabled, locked, v3d>>

UnlockUnmapped ==
    /\ GoTo("unlock_unmapped", "disable_panic")
    /\ locked' = locked \ {handle}
    /\ UNCHANGED <<host, enabled, owned, v3d>>

DisableAndPanic ==
    /\ GoTo("disable_panic", "panic")
    /\ enabled' = FALSE
    /\ UNCHANGED <<host, owned, locked, v3d>>

\* assert(mbox_property(p)): the firmware did not process a request.
FirmwareError ==
    /\ \E from \in {"off", "alloc", "lock", "free_unmapped", "unlock_unmapped",
                    "disable_panic", "ready", "free", "disable"} : GoTo(from, "asserted")
    /\ UNCHANGED <<host, firmware, v3d>>

-----------------------------------------------------------------------------
(* <name>_kernel and gpu_fft_base_exec_direct.                             *)

Call ==
    /\ GoTo("ready", "rows")
    /\ args' \in Args /\ q' = 0
    /\ ran' = Nobody
    /\ UNCHANGED <<handle, gpu, unif, firmware, queue, running, cache, count, saw>>

\* for (q = 0; q < 8; q++), and the same with one row too many.
OneTooMany == q <= NQ
RowsLeft   == q < NQ

WriteRow ==
    /\ pc = "rows" /\ RowsLeft
    /\ unif' = [unif EXCEPT ![q] = args]
    /\ q' = q + 1
    /\ UNCHANGED <<pc, handle, gpu, args, firmware, v3d>>

\* The rows are written: clear the caches, which still hold those of the last call ...
NotCleared == cache
Cleared    == [p \in QPU |-> None]

ClearCaches ==
    /\ ~RowsLeft /\ GoTo("rows", "reset")
    /\ cache' = Cleared
    /\ UNCHANGED <<host, firmware, queue, running, count, saw, ran>>

\* ... and the counts.
CountKept  == count
CountReset == 0

ResetCounts ==
    /\ GoTo("reset", "launch")
    /\ count' = CountReset /\ q' = 0
    /\ UNCHANGED <<handle, gpu, args, unif, firmware, queue, running, cache, saw, ran>>

Launch ==
    /\ pc = "launch" /\ RowsLeft
    /\ queue' = Append(queue, q)
    /\ q' = q + 1
    /\ UNCHANGED <<pc, handle, gpu, args, unif, firmware, running, cache, count, saw, ran>>

\* The busy wait ends when the count is the number of programs launched.
AnyCompleted == count # 0
AllCompleted == count = NQ

Poll ==
    /\ ~RowsLeft /\ AllCompleted
    /\ GoTo("launch", "ready")
    /\ UNCHANGED <<host, firmware, v3d>>

-----------------------------------------------------------------------------
(* <name>_release.                                                         *)

Unlock ==
    /\ GoTo("ready", "free")
    /\ handle' = gpu /\ locked' = locked \ {gpu}
    /\ UNCHANGED <<gpu, args, q, unif, enabled, owned, v3d>>

FreeForgotten == owned
FreedOf       == owned \ {handle}

Free ==
    /\ GoTo("free", "disable")
    /\ owned' = FreedOf
    /\ UNCHANGED <<host, enabled, locked, v3d>>

Disable ==
    /\ GoTo("disable", "off")
    /\ enabled' = FALSE
    /\ gpu' = None
    /\ UNCHANGED <<handle, args, q, unif, owned, locked, v3d>>

-----------------------------------------------------------------------------
(* The V3D.                                                                *)

\* The scheduler starts the next requested program on a free QPU; it reads its
\* uniforms, through the caches, which may keep them.
StartProgram ==
    /\ queue # <<>>
    /\ LET p == Head(queue)
           row == IF cache[p] = None THEN unif[p] ELSE cache[p]
       IN  /\ p \notin running
           /\ running' = running \cup {p}
           /\ saw' = [saw EXCEPT ![p] = row]
           /\ \E kept \in {row, None} : cache' = [cache EXCEPT ![p] = kept]
    /\ queue' = Tail(queue)
    /\ UNCHANGED <<pc, host, firmware, count, ran>>

\* thrend: the program ends and is counted.
EndProgram(p) ==
    /\ p \in running
    /\ running' = running \ {p}
    /\ count' = (count + 1) % 256
    /\ ran' = [o \in DOMAIN ran \cup {p} |-> IF o = p THEN saw[p] ELSE ran[o]]
    /\ UNCHANGED <<pc, host, firmware, queue, cache, saw>>

-----------------------------------------------------------------------------

Setup == Enable \/ Alloc \/ Lock \/ Map \/ FreeUnmapped \/ UnlockUnmapped \/ DisableAndPanic
Kernel == WriteRow \/ ClearCaches \/ ResetCounts \/ Launch \/ Poll
Release == Free \/ Disable
Programs == StartProgram \/ \E p \in QPU : EndProgram(p)

Next == Setup \/ FirmwareError \/ Call \/ Kernel \/ Unlock \/ Release \/ Programs

\* The host runs its program; the V3D starts what is requested and, since every
\* program ends (Finishes of QpuKernelCorrect), ends what runs.  Nothing obliges
\* the client to call.
Fairness ==
    /\ WF_vars(Kernel)
    /\ WF_vars(StartProgram)
    /\ \A p \in QPU : WF_vars(EndProgram(p))

Spec == Init /\ [][Next]_vars /\ Fairness

-----------------------------------------------------------------------------
(* Properties.                                                             *)

TypeOK ==
    /\ handle \in Handles \cup {None} /\ gpu \in Handles \cup {None}
    /\ args \in Args /\ q \in 0 .. NQ
    /\ unif \in [QPU -> Args \cup {None}]
    /\ enabled \in BOOLEAN /\ owned \subseteq Handles /\ locked \subseteq Handles
    /\ queue \in Seq(QPU) /\ running \subseteq QPU /\ count \in 0 .. 255
    /\ cache \in [QPU -> Args \cup {None}]
    /\ saw \in [QPU -> Args \cup {None}]

\* A program that is requested or running works on memory the firmware has
\* allocated and locked for the driver, with the QPUs on.
MemoryHeld ==
    queue # <<>> \/ running # {} => gpu \in owned \cap locked /\ enabled

\* Whenever the driver is off, before init, after release or in a panic of its
\* own, it holds no memory and the QPUs are off.
NothingLeftBehind ==
    pc \in {"off", "panic"} => owned = {} /\ locked = {} /\ ~enabled

\* "failed to map GPU memory": the driver panics when the lock fails, so what it
\* has mapped is locked.
MappedIsLocked == pc \in {"ready", "rows", "reset", "launch"} => gpu \in locked

\* The driver and the V3D implement a kernel call.
Promise == INSTANCE KernelCall WITH
    active <- pc \in {"rows", "reset", "launch"}

ImplementsCall == Promise!Spec

\* A kernel call returns.
CallReturns == pc = "rows" ~> pc = "ready"

=============================================================================
