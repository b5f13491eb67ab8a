----------------------------- MODULE Interrupts -----------------------------
(***************************************************************************)
(* The interrupt manager (src/hardware_communication/interrupts.cpp,        *)
(* interruptstubs.s) with the task manager it calls and the disk driver's   *)
(* own end-of-interrupt commands (src/drivers/ata.cpp).                     *)
(*                                                                         *)
(* The two interrupt controllers are external: as programmed by the         *)
(* constructor, all lines unmasked, fully nested, a command 0x20 ends the   *)
(* interrupt of the highest priority in service.  Lines are numbered 0..15; *)
(* the second controller's lines 8..15 reach the first through line 2.      *)
(*                                                                         *)
(* Gates are interrupt gates: a handler runs with interrupts disabled.      *)
(***************************************************************************)
EXTENDS Multitask, FiniteSets

CONSTANTS
    Wired,       \* the lines that devices may raise
    MaxRaises    \* how often each of them does, as a bound; the timer's does
                 \* for ever

Line == 0 .. 15
Cascade == 2
TimerLine == 0
Syscall == 160    \* the number of int 0x80: the stub adds IRQ_BASE, as
                  \* SyscallHandler does

(* The lines whose vector has a gate of its own: see the constructor. *)
Gated == {0, 1, 11, 12, 14}

ASSUME WiringAssumption ==
    Wired \subseteq Line \ {Cascade} /\ MaxRaises \in Nat

VARIABLES
    raises,      \* how often each line but the timer's was raised
    pending,     \* controllers: the lines requested
    inService,   \* controllers: the lines in service
    enabled,     \* the processor's interrupt flag
    active,      \* ActiveInterruptManager is set
    pc,          \* where the interrupt code is
    number,      \* interrupt_number, less IRQ_BASE for a line
    diskPc       \* where the end of read_28 is

intVars == <<raises, pending, inService, enabled, active, pc, number, diskPc>>
allVars == <<tasks, current, state, running, place,
             raises, pending, inService, enabled, active, pc, number, diskPc>>

IntInit ==
    /\ Init
    /\ raises = [l \in Wired |-> 0]
    /\ pending = {} /\ inService = {}
    /\ enabled = FALSE /\ active = FALSE
    /\ pc = "run" /\ number = 0 /\ diskPc = "idle"

-----------------------------------------------------------------------------
(* The controllers. *)

SecondLines == {l \in Line : l >= 8}
FirstLine(l) == IF l \in SecondLines THEN Cascade ELSE l

(* A request passes if nothing of its priority or above is in service.      *)
Passes(l) ==
    /\ \A s \in inService \ SecondLines : FirstLine(l) < s
    /\ l \in SecondLines => \A s \in inService \cap SecondLines : l < s

Above(l, m) ==
    \/ FirstLine(l) < FirstLine(m)
    \/ FirstLine(l) = FirstLine(m) /\ l < m

Highest(S, l) == l \in S /\ \A m \in S \ {l} : Above(l, m)

(* The command 0x20 to the first, and to the second controller. *)
EndFirst == {l \in inService : ~Highest(inService \ SecondLines, l)}
EndSecond == {l \in inService : ~Highest(inService \cap SecondLines, l)}

(* A device raises its line.  The timer's next tick does not come before    *)
(* the handler of the last one has returned.                               *)
Raise(l) ==
    /\ IF l = TimerLine
       THEN (pc # "run" => number # TimerLine) /\ UNCHANGED raises
       ELSE raises[l] < MaxRaises /\ raises' = [raises EXCEPT ![l] = @ + 1]
    /\ pending' = pending \cup {l}
    /\ UNCHANGED <<vars, inService, enabled, active, pc, number, diskPc>>

(* The processor takes the interrupt.  A line without a gate of its own     *)
(* goes to ignoreInterruptRequest, which returns at once.                   *)
Take(l) ==
    /\ enabled /\ pc = "run"
    /\ Highest({m \in pending : Passes(m)}, l)
    /\ pending' = pending \ {l}
    /\ inService' = inService \cup {l, FirstLine(l)}
    /\ IF l \in Gated
       THEN enabled' = FALSE /\ pc' = "handler" /\ number' = l
       ELSE UNCHANGED <<enabled, pc, number>>
    /\ UNCHANGED <<vars, raises, active, diskPc>>

-----------------------------------------------------------------------------
(* The manager. *)

(* activate, called once. *)
Activate ==
    /\ ~active
    /\ active' = TRUE /\ pc' = "sti"
    /\ UNCHANGED <<vars, raises, pending, inService, enabled, number, diskPc>>

Sti ==
    /\ pc = "sti"
    /\ enabled' = TRUE /\ pc' = "run"
    /\ UNCHANGED <<vars, raises, pending, inService, active, number, diskPc>>

(* int 0x80 *)
SystemCall ==
    /\ enabled /\ pc = "run"
    /\ enabled' = FALSE /\ pc' = "handler" /\ number' = Syscall
    /\ UNCHANGED <<vars, raises, pending, inService, active, diskPc>>

(* handleInterrupt and handler: the timer steps the task manager.  What the *)
(* other handlers do is in the modules of their drivers.                    *)
Handle ==
    /\ pc = "handler"
    /\ IF active /\ number = TimerLine THEN Tick ELSE UNCHANGED vars
    /\ pc' = IF active THEN "endSecond" ELSE "return"
    /\ UNCHANGED <<raises, pending, inService, enabled, active, number, diskPc>>

(* Mutant: the second controller's own lines get no command. *)
AcknowledgeSecondNever ==
    /\ pc = "endSecond"
    /\ inService' = inService
    /\ pc' = "endFirst"
    /\ UNCHANGED <<vars, raises, pending, enabled, active, number, diskPc>>

(* Mutant: every interrupt ends one of the second controller. *)
AcknowledgeSecondAlways ==
    /\ pc = "endSecond"
    /\ inService' = EndSecond
    /\ pc' = "endFirst"
    /\ UNCHANGED <<vars, raises, pending, enabled, active, number, diskPc>>

AcknowledgeSecond ==
    /\ pc = "endSecond"
    /\ inService' = IF number \in SecondLines THEN EndSecond ELSE inService
    /\ pc' = "endFirst"
    /\ UNCHANGED <<vars, raises, pending, enabled, active, number, diskPc>>

AcknowledgeFirst ==
    /\ pc = "endFirst"
    /\ inService' = IF number \in Line THEN EndFirst ELSE inService
    /\ pc' = "return"
    /\ UNCHANGED <<vars, raises, pending, enabled, active, number, diskPc>>

(* Mutant: interrupts stay disabled. *)
ReturnMasked ==
    /\ pc = "return"
    /\ pc' = "run"
    /\ UNCHANGED <<vars, raises, pending, inService, enabled, active, number, diskPc>>

(* iret: every context runs with interrupts enabled. *)
Return ==
    /\ pc = "return"
    /\ enabled' = TRUE /\ pc' = "run"
    /\ UNCHANGED <<vars, raises, pending, inService, active, number, diskPc>>

-----------------------------------------------------------------------------
(* ATA::read_28 ends with commands to both controllers, from the kernel's   *)
(* own context, whatever is in service then.                                *)
DiskEndsSecond ==
    /\ running = Boot /\ pc = "run" /\ diskPc = "idle"
    /\ inService' = EndSecond /\ diskPc' = "first"
    /\ UNCHANGED <<vars, raises, pending, enabled, active, pc, number>>

DiskEndsFirst ==
    /\ running = Boot /\ pc = "run" /\ diskPc = "first"
    /\ inService' = EndFirst /\ diskPc' = "idle"
    /\ UNCHANGED <<vars, raises, pending, enabled, active, pc, number>>

KernelAddsTask == pc = "run" /\ (\E t \in Task : AddTask(t)) /\ UNCHANGED intVars
ContextWorks == pc = "run" /\ Work /\ UNCHANGED intVars

HandlerStep == Handle \/ AcknowledgeSecond \/ AcknowledgeFirst \/ Return

IntNext ==
    \/ HandlerStep \/ Activate \/ Sti \/ SystemCall
    \/ KernelAddsTask \/ ContextWorks \/ DiskEndsFirst \/ DiskEndsSecond
    \/ \E l \in Wired : Raise(l) \/ Take(l)

IntSpec == IntInit /\ [][IntNext]_allVars

(* The kernel activates its interrupt manager, a handler runs to its end,   *)
(* of the requests that pass now and again each is taken in the end, as the *)
(* processor runs an instruction between two interrupts and looks at its    *)
(* controllers after it, and the timer goes on ticking.                    *)
FairIntSpec ==
    /\ IntSpec
    /\ WF_allVars(HandlerStep) /\ WF_allVars(Activate \/ Sti)
    /\ \A l \in Wired : SF_allVars(Take(l))
    /\ WF_allVars(Raise(TimerLine))

-----------------------------------------------------------------------------
(* No handler leaves its line in service: while none runs, the lines in     *)
(* service are those that ignoreInterruptRequest took, and the cascade.     *)
HandledLinesEnd ==
    pc = "run" => inService \cap Gated = {}

(* The commands are not specific, yet a handler's end its own line: nothing *)
(* above it can be in service.  Those of the disk driver are harmless too:  *)
(* they find no gated line in service.                                      *)
EndsItsOwnLine ==
    [][/\ pc \in {"endSecond", "endFirst"} =>
             inService \ inService' \subseteq {number, Cascade}
       /\ pc = "run" => (inService \ inService') \cap Gated = {}]_allVars

(* A request of a line with a gate is served, unless a line without one is  *)
(* left in service: nothing but a later read_28 ends that one.              *)
ServedUnlessBlocked ==
    \A l \in Wired \cap Gated :
        l \in pending ~> l \notin pending \/ (pc = "run" /\ inService # {})

(* Every task that was added gets the processor again and again, whatever   *)
(* other lines are raised and left in service.                             *)
EveryTaskRuns ==
    \A t \in Task : (\E i \in DOMAIN tasks : tasks[i] = t) ~> running = t
=============================================================================
