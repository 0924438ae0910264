------------------------------ MODULE DiskPort ------------------------------
(***************************************************************************)
(* One AHCI port and its driver: AHCI::Port::configure once, then read and *)
(* write, which post a command in slot 0, set command_issue and poll.  The *)
(* port works beside the driver: its engine follows the two enable bits,   *)
(* and it fetches, carries out, completes or fails the posted command.     *)
(* The port is external; it keeps to AHCI 1.3.1: a command that fails      *)
(* leaves its bit in command_issue set and the port takes no other until   *)
(* HBA_PXCMD_ST has been cleared.                                          *)
(***************************************************************************)
EXTENDS Integers

CONSTANTS
    Sectors, MaxCount, Data,    \* as in Disk
    SpinLimit                   \* tests of the busy bits before a call gives up: 1000000

ASSUME DiskPortAssumption ==
    /\ Sectors \in Nat \ {0} /\ MaxCount \in Nat \ {0}
    /\ SpinLimit \in Nat \ {0}

VARIABLES
    pc, spin,               \* where the driver is, and the spin of the open call
    call, answer, buffer,   \* the call's arguments, its result, the caller's memory
    posted,                 \* what command header 0 and its command table ask for
    stored,                 \* what the disk holds
    command_issue,          \* bit 0 of that register
    tfes,                   \* HBA_PXIS_TFES of interrupt_status
    busy,                   \* ATA_DEV_BUSY or ATA_DEV_DRQ of task_file_data
    st, fre, cr, fr,        \* the bits of command_status
    running, moved,         \* the port carries out a command; sectors moved so far
    halted, dead            \* it failed one and waits for ST to be cleared; it fell silent

driver == <<pc, spin, call, answer, posted>>
registers == <<command_issue, tfes, busy>>
engine == <<st, fre, cr, fr>>
command == <<running, moved, halted>>
vars == <<driver, buffer, stored, registers, engine, command, dead>>

D == INSTANCE Disk
NoCall == D!NoCall

Configuring == {"stop", "fr", "cr", "bases", "start"}
Calling == {"spin", "clear", "build", "issue", "done", "error"}

TypeOK ==
    /\ pc \in Configuring \cup Calling \cup {"idle"} /\ spin \in 0 .. SpinLimit
    /\ call \in D!Calls \cup {NoCall} /\ posted \in D!Calls \cup {NoCall}
    /\ answer \in BOOLEAN /\ buffer \in [0 .. MaxCount - 1 -> Data]
    /\ stored \in [0 .. Sectors - 1 -> Data]
    /\ {command_issue, tfes, busy, st, fre, cr, fr, running, halted, dead} \subseteq BOOLEAN
    /\ moved \in 0 .. MaxCount
    /\ pc \in Calling <=> call # NoCall

\* The firmware may have left the engine on; the drive may still be spinning up.
Init ==
    /\ pc = "stop" /\ spin = 0 /\ call = NoCall /\ answer = FALSE /\ posted = NoCall
    /\ stored \in [0 .. Sectors - 1 -> Data] /\ buffer \in [0 .. MaxCount - 1 -> Data]
    /\ command_issue = FALSE /\ tfes = FALSE /\ busy \in BOOLEAN
    /\ st \in BOOLEAN /\ cr = st /\ fre \in BOOLEAN /\ fr = fre
    /\ running = FALSE /\ moved = 0 /\ halted = FALSE /\ dead = FALSE

Goto(a, b) == pc = a /\ pc' = b

-----------------------------------------------------------------------------
(* configure: stop_cmd, the pages the port reads, start_cmd. *)

StopCommand ==
    /\ Goto("stop", "fr")
    /\ st' = FALSE /\ fre' = FALSE
    /\ command_issue' = FALSE /\ halted' = FALSE    \* what clearing ST does to the port
    /\ UNCHANGED <<spin, call, answer, posted, buffer, stored, tfes, busy, cr, fr, running, moved, dead>>

\* mutant: FIS receive is waited for, the command list is not
StopTestFR_only ==
    /\ pc = "fr" /\ pc' = (IF fr THEN "fr" ELSE "bases")
    /\ UNCHANGED <<spin, call, answer, posted, buffer, stored, registers, engine, command, dead>>

StopTestFR ==
    /\ pc = "fr" /\ pc' = (IF fr THEN "fr" ELSE "cr")
    /\ UNCHANGED <<spin, call, answer, posted, buffer, stored, registers, engine, command, dead>>

StopTestCR ==
    /\ pc = "cr" /\ pc' = (IF cr THEN "fr" ELSE "bases")
    /\ UNCHANGED <<spin, call, answer, posted, buffer, stored, registers, engine, command, dead>>

\* Command list, FIS area and command tables are new pages filled with zeros.
SetBases ==
    /\ Goto("bases", "start")
    /\ posted' = NoCall
    /\ UNCHANGED <<spin, call, answer, buffer, stored, registers, engine, command, dead>>

StartCommand ==
    /\ pc = "start"
    /\ \/ cr /\ UNCHANGED <<pc, st, fre>>
       \/ ~cr /\ pc' = "idle" /\ st' = TRUE /\ fre' = TRUE
    /\ UNCHANGED <<spin, call, answer, posted, buffer, stored, registers, cr, fr, command, dead>>

Configure == StopCommand \/ StopTestFR \/ StopTestCR \/ SetBases \/ StartCommand

-----------------------------------------------------------------------------
(* read and write. *)

\* Somebody calls read or write with whatever the buffer holds.
Call(c) ==
    /\ Goto("idle", "spin")
    /\ call' = c /\ spin' = 0
    /\ buffer' \in [0 .. MaxCount - 1 -> Data]
    /\ UNCHANGED <<answer, posted, stored, registers, engine, command, dead>>

Return(result) == pc' = "idle" /\ call' = NoCall /\ answer' = result

\* One test of the busy bits.  A port that becomes ready at the last of them is
\* given up as well.
Spin ==
    /\ pc = "spin"
    /\ \/ busy /\ spin < SpinLimit /\ spin' = spin + 1 /\ UNCHANGED <<pc, call, answer>>
       \/ /\ ~busy \/ spin = SpinLimit
          /\ UNCHANGED spin
          /\ \/ spin = SpinLimit /\ Return(FALSE)
             \/ spin # SpinLimit /\ pc' = "clear" /\ UNCHANGED <<call, answer>>
    /\ UNCHANGED <<posted, buffer, stored, registers, engine, command, dead>>

ClearStatus ==
    /\ Goto("clear", "build")
    /\ tfes' = FALSE
    /\ UNCHANGED <<spin, call, answer, posted, buffer, stored, command_issue, busy, engine, command, dead>>

\* Header, region descriptor and command FIS.
BuildCommand ==
    /\ Goto("build", "issue")
    /\ posted' = call
    /\ UNCHANGED <<spin, call, answer, buffer, stored, registers, engine, command, dead>>

IssueCommand ==
    /\ Goto("issue", "done")
    /\ command_issue' = TRUE
    /\ UNCHANGED <<spin, call, answer, posted, buffer, stored, tfes, busy, engine, command, dead>>

TestDone ==
    /\ pc = "done"
    /\ \/ command_issue /\ pc' = "error" /\ UNCHANGED <<call, answer>>
       \/ ~command_issue /\ Return(TRUE)
    /\ UNCHANGED <<spin, posted, buffer, stored, registers, engine, command, dead>>

\* mutant: an error ends the wait like a completion
TestErrorBreaks ==
    /\ pc = "error"
    /\ \/ ~tfes /\ pc' = "done" /\ UNCHANGED <<call, answer>>
       \/ tfes /\ Return(TRUE)
    /\ UNCHANGED <<spin, posted, buffer, stored, registers, engine, command, dead>>

\* mutant: the error is not looked for
TestErrorNever ==
    /\ Goto("error", "done")
    /\ UNCHANGED <<spin, call, answer, posted, buffer, stored, registers, engine, command, dead>>

TestError ==
    /\ pc = "error"
    /\ \/ ~tfes /\ pc' = "done" /\ UNCHANGED <<call, answer>>
       \/ tfes /\ Return(FALSE)
    /\ UNCHANGED <<spin, posted, buffer, stored, registers, engine, command, dead>>

read_write == Spin \/ ClearStatus \/ BuildCommand \/ IssueCommand \/ TestDone \/ TestError

-----------------------------------------------------------------------------
(* The port. *)

\* The engine follows its enable bits; a command under way is finished first.
EngineFollows ==
    /\ ~dead
    /\ \/ cr # st /\ ~running /\ cr' = st /\ fr' = fr
       \/ fr # fre /\ fr' = fre /\ cr' = cr
    /\ UNCHANGED <<driver, buffer, stored, registers, st, fre, command, dead>>

SpinUp ==
    /\ ~dead /\ busy /\ ~running
    /\ busy' = FALSE
    /\ UNCHANGED <<driver, buffer, stored, command_issue, tfes, engine, command, dead>>

Fetch ==
    /\ ~dead /\ cr /\ st /\ command_issue /\ ~running /\ ~halted /\ ~busy
    /\ running' = TRUE /\ moved' = 0 /\ busy' = TRUE
    /\ UNCHANGED <<driver, buffer, stored, command_issue, tfes, engine, halted, dead>>

Transfer ==
    /\ ~dead /\ running /\ moved < posted.count
    /\ IF posted.write
       THEN /\ stored' = [stored EXCEPT ![posted.first + moved] = buffer[moved]]
            /\ UNCHANGED buffer
       ELSE /\ buffer' = [buffer EXCEPT ![moved] = stored[posted.first + moved]]
            /\ UNCHANGED stored
    /\ moved' = moved + 1
    /\ UNCHANGED <<driver, registers, engine, running, halted, dead>>

Complete ==
    /\ ~dead /\ running /\ moved = posted.count
    /\ running' = FALSE /\ moved' = 0 /\ busy' = FALSE /\ command_issue' = FALSE
    /\ UNCHANGED <<driver, buffer, stored, tfes, engine, halted, dead>>

Fail ==
    /\ ~dead /\ running
    /\ running' = FALSE /\ moved' = 0 /\ busy' = FALSE /\ tfes' = TRUE /\ halted' = TRUE
    /\ UNCHANGED <<driver, buffer, stored, command_issue, engine, dead>>

Die ==
    /\ ~dead /\ dead' = TRUE
    /\ UNCHANGED <<driver, buffer, stored, registers, engine, command>>

PortStep == EngineFollows \/ SpinUp \/ Fetch \/ Transfer \/ Complete \/ Fail

-----------------------------------------------------------------------------
Next ==
    \/ Configure \/ read_write \/ PortStep \/ Die
    \/ \E c \in D!Calls : Call(c)

\* The driver polls without end; a port that is alive gets on with its work.
Fairness == WF_vars(Configure \/ read_write) /\ WF_vars(PortStep)

Spec == Init /\ [][Next]_vars /\ Fairness

-----------------------------------------------------------------------------
\* read and write keep the promise of a disk: true is answered only when every
\* sector of the call was moved, and once a call has returned, whichever way,
\* the port touches neither the disk nor the buffer, which callers give back.
ImplementsDisk == D!Spec

\* configure gives the port new command and FIS memory only when the engine
\* that reads the one and writes the other has come to a stop, also when the
\* firmware had left it running.
BasesSetWhenStopped == TypeOK /\ (pc \in {"bases", "start"} => ~cr /\ ~fr /\ ~running)

\* configure, and a call on a port that has not failed a command, come to an end
\* unless the port falls silent: by its answer, or by the limit on the spin.
CallEnds == pc # "idle" /\ ~halted ~> pc = "idle" \/ dead
=============================================================================
