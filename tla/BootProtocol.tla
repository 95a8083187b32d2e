---------------------------- MODULE BootProtocol ----------------------------
(***************************************************************************)
(* The bootloader: get_code on the Pi (2-pi-side/get-code.h), simple_boot  *)
(* and pi_echo on the laptop (1-unix-side), and the serial line between.   *)
(*                                                                         *)
(* The line carries bytes.  A word is WL of them, least significant first; *)
(* opcodes, lengths, checksums and code keep their bytes apart, so that a  *)
(* word read out of step is not an opcode.  The checksum is ideal.         *)
(* A read takes a whole word (or the whole code) once it has arrived; a    *)
(* byte that never comes leaves the reader waiting, the Pi for ever, the   *)
(* laptop until its 10 seconds are over.                                   *)
(***************************************************************************)
EXTENDS Integers, Sequences

CONSTANTS WL,          \* bytes of a word (4)
          Prog,        \* programs, as numbers
          CodeLen,     \* [Prog -> Nat], bytes of each program
          Room,        \* bytes between the load address and the bootloader
          Outputs,     \* what a program may print before it ends
          Garbage,     \* what may lie in the tty when it is opened
          MaxLine,     \* bound: unread bytes that stop the Pi from repeating itself
          MaxRuns,     \* bound: starts of the laptop's program
          MaxFaults    \* bound: faults of one behaviour

ASSUME BootAssumption ==
    /\ WL \in Nat \ {0}
    /\ Prog \subseteq Nat
    /\ CodeLen \in [Prog -> Nat \ {0}]
    /\ Room \in Nat
    /\ MaxLine \in Nat /\ MaxRuns \in Nat \ {0} /\ MaxFaults \in Nat

VARIABLES pi,        \* [pc, addr, n, cksum, mem]: get_code's place and locals
          unix,      \* [pc, prog, pos, runs]: simple_boot's, then pi_echo's
          toPi, toUnix,   \* bytes sent and not yet read
          faults,    \* faults still to come
          calm,      \* no fault at all in this behaviour
          verified,  \* the program whose checksum last fitted
          booted,    \* the program branched to last
          tried,     \* history: the programs the laptop has been started with
          printed,   \* what the program running, or ended last, printed
          restarted  \* the Pi has started again since PUT_PROG_INFO

vars == <<pi, unix, toPi, toUnix, faults, calm, verified, booted, tried, printed, restarted>>

-----------------------------------------------------------------------------
(* Words and bytes.                                                        *)

Word(kind, v) == [k \in 1 .. WL |-> <<kind, v, k>>]

GET_PROG_INFO == Word("op", 1)
PUT_PROG_INFO == Word("op", 2)
GET_CODE      == Word("op", 3)
PUT_CODE      == Word("op", 4)
BOOT_SUCCESS  == Word("op", 5)
BOOT_ERROR    == Word("op", 6)
PRINT_STRING  == Word("op", 7)
ARMBASE       == Word("addr", 1)
Number(n)     == Word("num", n)
Crc(p)        == Word("crc", p)

Bad == <<"bad", 0, 0>>                       \* a byte changed on the way
Char(k) == <<"char", k, 1>>
Code(p) == [i \in 1 .. CodeLen[p] |-> <<"code", p, i>>]

\* "DONE!!!\n", two words of characters, all different but the '!'.
ExitString == [k \in 1 .. 2 * WL |-> Char(k)]

\* What a byte on the line can be.
Bytes ==
    {Bad} \cup {Char(k) : k \in 0 .. 2 * WL + 1}
    \cup {<<"op", i, k>> : i \in 1 .. 7, k \in 1 .. WL}
    \cup {<<"addr", 1, k>> : k \in 1 .. WL}
    \cup {<<"num", n, k>> : n \in {1} \cup {CodeLen[p] : p \in Prog}, k \in 1 .. WL}
    \cup {<<"crc", p, k>> : p \in Prog, k \in 1 .. WL}
    \cup UNION {{<<"code", p, i>> : i \in 1 .. CodeLen[p]} : p \in Prog}

Has(line, n) == Len(line) >= n
First(line, n) == SubSeq(line, 1, n)
Drop(line, n) == SubSeq(line, n + 1, Len(line))
Suffixes(line) == {Drop(line, k) : k \in 0 .. Len(line)}

\* What a Pi that waits leaves on the line: requests, the first perhaps cut
\* short or behind characters of a program that has ended.
Requests(k) == [i \in 1 .. k * WL |-> GET_PROG_INFO[((i - 1) % WL) + 1]]
Stray == {Bad} \cup {Char(k) : k \in 0 .. 2 * WL + 1}
         \cup {GET_PROG_INFO[k] : k \in 2 .. WL}
Stale(line) == \E m \in 0 .. Len(line) :
    /\ \A i \in 1 .. m : line[i] \in Stray
    /\ \E k \in 0 .. Len(line) : Drop(line, m) = Requests(k)

ASSUME LineAssumption ==
    /\ \A line \in Garbage : line \in Seq(Bytes) /\ Stale(line)
    /\ \A line \in Outputs : line \in Seq(Bytes)

-----------------------------------------------------------------------------
None == -1            \* nothing has been received, or booted
Astray == -2          \* a branch to an address no program is linked for

\* The addresses that make a difference: the one sent, 0, any other.
Places == {"armbase", "zero", "other"}

Start(p, runs) == [pc |-> "drain", prog |-> p, pos |-> 0, runs |-> runs]
PiStart == [pc |-> "start", addr |-> "zero", n |-> 0, cksum |-> << >>, mem |-> << >>]

Init ==
    /\ pi = PiStart
    /\ \E p \in Prog : unix = Start(p, 1) /\ tried = {p}
    /\ toPi = << >> /\ toUnix \in Garbage
    /\ faults \in {0, MaxFaults} /\ calm = (faults = 0)
    /\ verified = None /\ booted = None /\ printed = << >> /\ restarted = FALSE

PiSide == <<unix, faults, calm, tried>>      \* what the Pi leaves alone
UnixSide == <<pi, faults, calm, verified, booted, tried, printed, restarted>>

-----------------------------------------------------------------------------
(* The Pi.                                                                 *)

\* wait_for_data: ask, then ask again every 300 ms until a byte is there.  A
\* repeat may leave although the answer is under way.
Ask ==
    /\ pi.pc \in {"start", "wait"}
    /\ Len(toUnix) + WL <= MaxLine
    /\ toUnix' = toUnix \o GET_PROG_INFO
    /\ pi' = [pi EXCEPT !.pc = "wait"]
    /\ UNCHANGED <<toPi, verified, booted, printed, restarted, PiSide>>

SeeData ==
    /\ pi.pc = "wait" /\ toPi # << >>
    /\ pi' = [pi EXCEPT !.pc = "info"]
    /\ UNCHANGED <<toPi, toUnix, verified, booted, printed, restarted, PiSide>>

\* boot_put32(BOOT_ERROR); clean_reboot(), which prints DONE!!! and flushes.
Refuse ==
    /\ pi' = [pi EXCEPT !.pc = "reboot"]
    /\ toUnix' = toUnix \o BOOT_ERROR \o ExitString

\* The opcode a message must begin with.
Expect(pc, op, next) ==
    /\ pi.pc = pc /\ Has(toPi, WL)
    /\ toPi' = Drop(toPi, WL)
    /\ IF First(toPi, WL) = op
       THEN pi' = [pi EXCEPT !.pc = next] /\ UNCHANGED toUnix
       ELSE Refuse
    /\ UNCHANGED <<verified, booted, printed, restarted, PiSide>>

GetInfo == Expect("info", PUT_PROG_INFO, "args")

\* The header has no checksum: a damaged length is any length, such as none,
\* all the room (waited for like one so large that addr + nbytes wraps), or
\* more than the room.
Sizes == (0 .. Room + 1) \cup {CodeLen[p] : p \in Prog}
LengthsOf(w) ==
    LET known == {n \in Sizes : Number(n) = w}
    IN IF known # {} THEN known ELSE {0, Room, Room + 1}

\* Nor does it protect the address.
PlacesOf(w) == IF w = ARMBASE THEN {"armbase"} ELSE {"zero", "other"}

\* addr + nbytes > &PUT32.
Collides(addr, n) ==
    IF addr = "armbase" THEN {n > Room}
    ELSE IF addr = "zero" /\ n <= Room THEN {FALSE}
    ELSE BOOLEAN

GetArgs ==
    /\ pi.pc = "args" /\ Has(toPi, 3 * WL)
    /\ toPi' = Drop(toPi, 3 * WL)
    /\ LET cksum == SubSeq(toPi, 2 * WL + 1, 3 * WL)
       IN \E addr \in PlacesOf(First(toPi, WL)) :
          \E n \in LengthsOf(SubSeq(toPi, WL + 1, 2 * WL)) :
          \E collision \in Collides(addr, n) :
            pi' = [pi EXCEPT !.pc = IF collision THEN "refuse" ELSE "reply",
                             !.addr = addr, !.n = n, !.cksum = cksum]
    /\ UNCHANGED <<toUnix, verified, booted, printed, restarted, PiSide>>

\* Either answer to the header: an error, or GET_CODE with the checksum.
Answer ==
    /\ \/ pi.pc = "refuse" /\ Refuse
       \/ /\ pi.pc = "reply"
          /\ toUnix' = toUnix \o GET_CODE \o pi.cksum
          /\ pi' = [pi EXCEPT !.pc = "code"]
    /\ UNCHANGED <<toPi, verified, booted, printed, restarted, PiSide>>

GetCode == Expect("code", PUT_CODE, "load")

Load ==
    /\ pi.pc = "load" /\ Has(toPi, pi.n)
    /\ pi' = [pi EXCEPT !.pc = "loaded", !.mem = First(toPi, pi.n)]
    /\ toPi' = Drop(toPi, pi.n)
    /\ UNCHANGED <<toUnix, verified, booted, printed, restarted, PiSide>>

CrcOK == \E p \in Prog : pi.cksum = Crc(p) /\ pi.mem = Code(p)

\* boot_putk's message and BOOT_SUCCESS, flushed; get_code returns the address.
Succeed ==
    /\ toUnix' = toUnix \o PRINT_STRING \o Number(1) \o <<Char(0)>> \o BOOT_SUCCESS
    /\ pi' = [pi EXCEPT !.pc = "return"]
    /\ verified' = CHOOSE p \in Prog : pi.mem = Code(p)

\* The checksum, of what is read back: at a damaged address there may be no
\* memory.
Finish ==
    /\ pi.pc = "loaded"
    /\ \/ CrcOK /\ Succeed
       \/ (CrcOK => pi.addr = "other") /\ Refuse /\ UNCHANGED verified
    /\ UNCHANGED <<toPi, booted, printed, restarted, PiSide>>

\* main: if(!addr) rpi_reboot(); BRANCHTO(addr).  A program that is not where it
\* is linked for may run all the same, or the Pi is lost.
Branch ==
    /\ pi.pc = "return"
    /\ \/ /\ pi.addr = "zero"
          /\ pi' = [pi EXCEPT !.pc = "reboot"] /\ UNCHANGED booted
       \/ /\ pi.addr = "armbase"
          /\ pi' = [pi EXCEPT !.pc = "run"] /\ booted' = verified
       \/ /\ pi.addr = "other"
          /\ \E pc \in {"run", "lost"} : pi' = [pi EXCEPT !.pc = pc]
          /\ booted' = Astray
    /\ UNCHANGED <<toPi, toUnix, verified, printed, restarted, PiSide>>

\* The program prints and ends in clean_reboot.
RunProgram ==
    /\ pi.pc = "run"
    /\ \E o \in Outputs : printed' = o /\ toUnix' = toUnix \o o \o ExitString
    /\ pi' = [pi EXCEPT !.pc = "reboot"]
    /\ UNCHANGED <<toPi, verified, booted, restarted, PiSide>>

\* rpi_reboot; uart_init then empties the receive FIFO, so that what arrived
\* until then is gone.
Reboot ==
    /\ pi.pc = "reboot"
    /\ pi' = PiStart
    /\ toPi' \in Suffixes(toPi)
    /\ restarted' = TRUE
    /\ UNCHANGED <<toUnix, verified, booted, printed, PiSide>>

-----------------------------------------------------------------------------
(* The laptop.                                                             *)

Booting == {"drain", "get_code", "success"}

\* get_op prints a PRINT_STRING and looks at the next word.
Op(w) == Has(toUnix, WL) /\ First(toUnix, WL) = w
OtherOp(ws) == Has(toUnix, WL) /\ First(toUnix, WL) \notin ws \cup {PRINT_STRING}

Fail == unix' = [unix EXCEPT !.pc = "failed"]

\* Bytes the next read of simple_boot needs.
Wanted ==
    IF ~Has(toUnix, WL) THEN WL
    ELSE IF Op(PRINT_STRING) THEN 2 * WL + 1
    ELSE IF unix.pc = "drain" /\ ~Op(GET_PROG_INFO) THEN WL + 1
    ELSE IF unix.pc = "get_code" /\ Op(GET_CODE) THEN 2 * WL
    ELSE WL

\* The string is one byte long.  A damaged length swallows any of the bytes
\* there, or is none or too many and ends the program.
PrintString ==
    /\ unix.pc \in Booting /\ Op(PRINT_STRING) /\ Has(toUnix, Wanted)
    /\ IF SubSeq(toUnix, WL + 1, 2 * WL) = Number(1)
       THEN toUnix' = Drop(toUnix, Wanted) /\ UNCHANGED unix
       ELSE /\ toUnix' \in Suffixes(Drop(toUnix, 2 * WL))
            /\ (Fail \/ UNCHANGED unix)
    /\ UNCHANGED <<toPi, UnixSide>>

\* Mutant: whole words are dropped, none of the words in step.
DrainGarbageWords ==
    /\ unix.pc = "drain" /\ OtherOp({GET_PROG_INFO}) /\ Has(toUnix, Wanted)
    /\ toUnix' = Drop(toUnix, WL)
    /\ UNCHANGED <<unix, toPi, UnixSide>>

\* Step 0: a byte is dropped after every word, or a stream read out of step
\* would stay so.
DrainGarbage ==
    /\ unix.pc = "drain" /\ OtherOp({GET_PROG_INFO}) /\ Has(toUnix, Wanted)
    /\ toUnix' = Drop(toUnix, Wanted)
    /\ UNCHANGED <<unix, toPi, UnixSide>>

\* Step 1.
PutProgInfo ==
    /\ unix.pc = "drain" /\ Op(GET_PROG_INFO)
    /\ toUnix' = Drop(toUnix, WL)
    /\ toPi' = toPi \o PUT_PROG_INFO \o ARMBASE
                    \o Number(CodeLen[unix.prog]) \o Crc(unix.prog)
    /\ unix' = [unix EXCEPT !.pc = "get_code"] /\ restarted' = FALSE
    /\ UNCHANGED <<pi, faults, calm, verified, booted, tried, printed>>

\* Mutant: every GET_PROG_INFO is answered.
DrainRepeatsAnswered ==
    /\ unix.pc = "get_code" /\ Op(GET_PROG_INFO)
    /\ toUnix' = Drop(toUnix, WL)
    /\ toPi' = toPi \o PUT_PROG_INFO \o ARMBASE
                    \o Number(CodeLen[unix.prog]) \o Crc(unix.prog)
    /\ UNCHANGED <<unix, UnixSide>>

\* Step 2.
DrainRepeats ==
    /\ unix.pc = "get_code" /\ Op(GET_PROG_INFO)
    /\ toUnix' = Drop(toUnix, WL)
    /\ UNCHANGED <<unix, toPi, UnixSide>>

\* Steps 3 and 4.
PutCode ==
    /\ unix.pc = "get_code" /\ Op(GET_CODE) /\ Has(toUnix, Wanted)
    /\ toUnix' = Drop(toUnix, Wanted)
    /\ IF SubSeq(toUnix, WL + 1, 2 * WL) = Crc(unix.prog)
       THEN /\ toPi' = toPi \o PUT_CODE \o Code(unix.prog)
            /\ unix' = [unix EXCEPT !.pc = "success"]
       ELSE Fail /\ UNCHANGED toPi
    /\ UNCHANGED <<UnixSide>>

NotGetCode ==
    /\ unix.pc = "get_code" /\ OtherOp({GET_PROG_INFO, GET_CODE})
    /\ toUnix' = Drop(toUnix, WL) /\ Fail
    /\ UNCHANGED <<toPi, UnixSide>>

\* Mutant: anything but BOOT_ERROR is taken for success.
AwaitSuccessEarly ==
    /\ unix.pc = "success" /\ Has(toUnix, WL) /\ ~Op(PRINT_STRING)
    /\ toUnix' = Drop(toUnix, WL)
    /\ unix' = IF Op(BOOT_ERROR) THEN unix ELSE [unix EXCEPT !.pc = "echo"]
    /\ UNCHANGED <<toPi, UnixSide>>

\* Step 5: any word but BOOT_SUCCESS is passed over, BOOT_ERROR too.
AwaitSuccess ==
    /\ unix.pc = "success" /\ Has(toUnix, WL) /\ ~Op(PRINT_STRING)
    /\ toUnix' = Drop(toUnix, WL)
    /\ unix' = IF Op(BOOT_SUCCESS) THEN [unix EXCEPT !.pc = "echo"] ELSE unix
    /\ UNCHANGED <<toPi, UnixSide>>

\* pi_done on one character: a character that does not fit is not tried again
\* as the first of the exit string.
Matched(pos, c) == IF c = ExitString[pos + 1] THEN pos + 1 ELSE 0

\* Mutant: the end is compared with sizeof exit_string, one more.
EchoSizeof ==
    /\ unix.pc = "echo" /\ Has(toUnix, 1)
    /\ toUnix' = Drop(toUnix, 1)
    /\ LET pos == Matched(unix.pos, toUnix[1])
       IN unix' = IF pos = Len(ExitString) + 1 THEN [unix EXCEPT !.pc = "ended"]
                  ELSE [unix EXCEPT !.pos = pos]
    /\ UNCHANGED <<toPi, UnixSide>>

Echo ==
    /\ unix.pc = "echo" /\ Has(toUnix, 1)
    /\ toUnix' = Drop(toUnix, 1)
    /\ LET pos == Matched(unix.pos, toUnix[1])
       IN unix' = IF pos = Len(ExitString) THEN [unix EXCEPT !.pc = "ended"]
                  ELSE [unix EXCEPT !.pos = pos]
    /\ UNCHANGED <<toPi, UnixSide>>

\* A read() that returns nothing after 10 seconds ends the program.  The Pi is
\* silent that long only when it waits for bytes itself, or runs a program.
PiSilent ==
    \/ pi.pc \in {"info", "code"} /\ ~Has(toPi, WL)
    \/ pi.pc = "args" /\ ~Has(toPi, 3 * WL)
    \/ pi.pc = "load" /\ ~Has(toPi, pi.n)
    \/ pi.pc \in {"run", "lost"}

\* Mutant: a read that returns nothing is tried again.
TimeoutRetried ==
    /\ unix.pc \in Booting /\ ~Has(toUnix, Wanted) /\ PiSilent
    /\ UNCHANGED <<unix, toPi, toUnix, UnixSide>>

Timeout ==
    /\ unix.pc \in Booting /\ ~Has(toUnix, Wanted) /\ PiSilent
    /\ Fail
    /\ UNCHANGED <<toPi, toUnix, UnixSide>>

\* The user starts it again, perhaps with another program; what lies in the tty
\* may still be there.
Again ==
    /\ unix.pc = "failed" /\ unix.runs < MaxRuns
    /\ \E p \in Prog : unix' = Start(p, unix.runs + 1) /\ tried' = tried \cup {p}
    /\ toUnix' \in Suffixes(toUnix)
    /\ UNCHANGED <<toPi, pi, faults, calm, verified, booted, printed, restarted>>

-----------------------------------------------------------------------------
(* Faults.                                                                 *)

Without(line, i) == First(line, i - 1) \o Drop(line, i)

LoseByte ==
    \/ \E i \in 1 .. Len(toPi) : toPi' = Without(toPi, i) /\ UNCHANGED toUnix
    \/ \E i \in 1 .. Len(toUnix) : toUnix' = Without(toUnix, i) /\ UNCHANGED toPi
ChangeByte ==
    \/ \E i \in 1 .. Len(toPi) : toPi' = [toPi EXCEPT ![i] = Bad] /\ UNCHANGED toUnix
    \/ \E i \in 1 .. Len(toUnix) : toUnix' = [toUnix EXCEPT ![i] = Bad] /\ UNCHANGED toPi

LineFault == (LoseByte \/ ChangeByte) /\ UNCHANGED <<pi, unix, restarted>>

\* The Pi is switched off and on, or the laptop's program is killed.
PowerCycle == pi' = PiStart /\ restarted' = TRUE /\ toPi' \in Suffixes(toPi)
              /\ UNCHANGED <<toUnix, unix>>
Kill == unix.pc \in Booting /\ Fail /\ UNCHANGED <<pi, toPi, toUnix, restarted>>

Fault ==
    /\ faults > 0 /\ faults' = faults - 1
    /\ (LineFault \/ PowerCycle \/ Kill)
    /\ UNCHANGED <<calm, verified, booted, tried, printed>>

-----------------------------------------------------------------------------
PiStep == Ask \/ SeeData \/ GetInfo \/ GetArgs \/ Answer \/ GetCode \/ Load \/ Finish
          \/ Branch \/ RunProgram \/ Reboot
UnixStep == PrintString \/ DrainGarbage \/ PutProgInfo \/ DrainRepeats \/ PutCode
            \/ NotGetCode \/ AwaitSuccess \/ Echo \/ Timeout

Next == PiStep \/ UnixStep \/ Again \/ Fault

Spec == Init /\ [][Next]_vars

\* Both programs run on; the Pi's polling loop sees a byte that stays.
FairSpec == Spec /\ WF_vars(PiStep) /\ WF_vars(SeeData) /\ WF_vars(UnixStep)

-----------------------------------------------------------------------------
(* Properties.                                                             *)

PiState ==
    [pc : {"start", "wait", "info", "args", "refuse", "reply", "code", "load", "loaded",
           "return", "run", "lost", "reboot"},
     addr : Places, n : Sizes, cksum : Seq(Bytes), mem : Seq(Bytes)]
UnixState ==
    [pc : Booting \cup {"echo", "ended", "failed"}, prog : Prog, pos : 0 .. 2 * WL - 1,
     runs : 1 .. MaxRuns]

\* The two programs are where their code has a line, the line carries bytes of
\* messages, and the code read is as long as a header can say.
TypeOK ==
    /\ pi \in PiState /\ Len(pi.mem) \in Sizes
    /\ unix \in UnixState
    /\ toPi \in Seq(Bytes) /\ toUnix \in Seq(Bytes)
    /\ verified \in Prog \cup {None} /\ booted \in Prog \cup {None, Astray}
    /\ tried \subseteq Prog /\ faults \in 0 .. MaxFaults
    /\ {calm, restarted} \subseteq BOOLEAN

\* What "bootloader: Done." says: when the laptop goes on to echo, or has seen
\* the exit string, the Pi has received, and checked, the whole of a program that
\* the laptop was started with, whatever was lost, changed or switched off.
\* Without faults it is this run's program, whatever earlier runs left on the
\* line, and the Pi has branched to it at ARMBASE or is about to; nothing it
\* prints has been echoed before.
\* With faults it says no more.  An answer to an earlier run may still be under
\* way, and nothing in it tells the runs apart: then it can be that run's
\* program.  And the program need not run: the header has no checksum, and main
\* reboots when the address has become 0 and branches astray at any other; or
\* the Pi is switched off before it branches.
DoneMeansBooted ==
    unix.pc \in {"echo", "ended"} =>
        /\ verified \in (IF calm THEN {unix.prog} ELSE tried)
        /\ calm /\ booted # unix.prog =>
             pi.pc = "return" /\ pi.addr = "armbase" /\ unix.pc = "echo" /\ unix.pos = 0

\* get-code.h's rule for printing: while the Pi is busy with a message, after
\* its last byte and before the answer, nothing is on its way to the 8-byte
\* receive FIFO, so that nothing can be dropped there.
QuietWhenBusy == calm /\ pi.pc \in {"refuse", "reply", "loaded"} => toPi = << >>

\* Where pi_done is in the exit string after what the program printed.  It has
\* seen the end, and looks no further, once it was at the end of the string.
AfterOutput ==
    LET at[k \in 0 .. Len(printed)] ==
            IF k = 0 THEN 0
            ELSE IF at[k - 1] = Len(ExitString) THEN at[k - 1]
            ELSE Matched(at[k - 1], printed[k])
    IN  at[Len(printed)]

\* The output leaves pi_done inside the exit string: the first character of the
\* real one does not fit there, and the end is hidden.
Hidden == unix.pc = "echo" /\ AfterOutput \in 1 .. Len(ExitString) - 1

\* Without faults a program that fits is booted, runs, and the laptop sees it
\* end, but for outputs that leave pi_done inside the string it looks for; one
\* that does not fit is refused, and the laptop's program says so and stops.
\* Neither stale bytes in the tty nor repeated GET_PROG_INFOs change that.
Fits == CodeLen[unix.prog] <= Room
BootsAndEnds ==
    /\ (calm /\ Fits) ~> (unix.pc = "ended" \/ Hidden)
    /\ (calm /\ ~Fits) ~> (unix.pc = "failed")

\* With a fault too the laptop's program leaves simple_boot, unless the Pi has
\* started again after PUT_PROG_INFO: then its GET_PROG_INFOs are drained, or
\* passed over in the wait for BOOT_SUCCESS, for ever.
LeavesBoot == []<>(unix.pc \in Booting => restarted /\ unix.pc # "drain")
=============================================================================
