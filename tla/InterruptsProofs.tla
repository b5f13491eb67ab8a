--------------------------- MODULE InterruptsProofs ---------------------------
(***************************************************************************)
(* Proofs about the interrupt manager and the task manager it steps, for    *)
(* every wiring of the lines, every number of tasks and every place a       *)
(* context may be at.                                                       *)
(***************************************************************************)
EXTENDS Interrupts, TLAPS

-----------------------------------------------------------------------------
(* The task manager. *)

TasksTyped ==
    /\ tasks \in Seq(Task)
    /\ current \in -1 .. (Len(tasks) - 1)
    /\ state \in [Task -> CPUState]
    /\ running \in Context
    /\ place \in [Context -> 0 .. (Places - 1)]

TasksInv == TasksTyped /\ StatesTrue

(* After the constructors the kernel runs, and each task's state is that of *)
(* a task at its entry point.                                              *)
LEMMA TasksInit == Init => TasksInv
<1> SUFFICES ASSUME Init PROVE TasksInv
  OBVIOUS
<1>1. TasksTyped
  BY TaskAssumption DEF Init, TasksTyped, Context, CPUState
<1>2. StatesTrue
  BY TaskAssumption DEF Init, StatesTrue, Context
<1> QED
  BY <1>1, <1>2 DEF TasksInv

(* The kernel runs until the first tick only, so that add_task does not     *)
(* move the tasks the index may name.                                       *)
LEMMA AddTaskKeeps ==
    ASSUME TasksInv, NEW t \in Task, AddTask(t)
    PROVE  TasksInv'
<1> USE DEF TasksInv
<1>1. current = -1
  BY TaskAssumption DEF AddTask, StatesTrue, TasksTyped
<1>2. tasks' \in Seq(Task) /\ Len(tasks') = Len(tasks) + 1
  BY DEF AddTask, TasksTyped
<1>3. TasksTyped'
  BY <1>1, <1>2 DEF AddTask, TasksTyped
<1>4. StatesTrue'
  <2>1. Len(tasks') <= MaxTasks
    BY <1>2, TaskAssumption DEF AddTask, TasksTyped
  <2> QED
    BY <1>1, <2>1 DEF AddTask, StatesTrue
<1> QED
  BY <1>3, <1>4

(* A context that goes on changes its own place only, which the state of no *)
(* other task speaks of.                                                   *)
LEMMA WorkKeeps ==
    ASSUME TasksInv, Work
    PROVE  TasksInv'
<1> USE DEF TasksInv
<1>1. (place[running] + 1) % Places \in 0 .. (Places - 1)
  BY TaskAssumption DEF TasksTyped
<1>2. TasksTyped'
  BY <1>1 DEF Work, TasksTyped
<1>3. \A t \in Task \ {running} : place'[t] = place[t]
  BY DEF Work, TasksTyped, Context
<1>4. StatesTrue'
  BY <1>3 DEF Work, StatesTrue
<1> QED
  BY <1>2, <1>4

(* The next index is that of a task.                                        *)
LEMMA NextTaskInside ==
    ASSUME TasksTyped, tasks # <<>>
    PROVE  NextTask \in 0 .. (Len(tasks) - 1)
<1>1. Len(tasks) \in Nat \ {0} /\ current \in Int /\ current >= -1 /\ current < Len(tasks)
  BY DEF TasksTyped
<1>2. CASE current + 1 >= Len(tasks)
  BY <1>1, <1>2 DEF NextTask
<1>3. CASE ~(current + 1 >= Len(tasks))
  BY <1>1, <1>3 DEF NextTask
<1> QED
  BY <1>2, <1>3

(* A tick saves the state of the task that runs in its own Task, and goes   *)
(* on with another, which its own state names, at the place that state has. *)
LEMMA TickKeeps ==
    ASSUME TasksInv, Tick
    PROVE  TasksInv'
<1> USE DEF TasksInv
<1> DEFINE s == [context |-> running, place |-> place[running]]
           n == NextTask
           q == tasks[n + 1]
<1>1. CASE tasks = <<>>
  <2>1. UNCHANGED <<tasks, current, state, running, place>>
    BY <1>1 DEF Tick, Scheduler
  <2> QED
    BY <2>1 DEF TasksTyped, StatesTrue
<1>2. CASE tasks # <<>>
  <2>1. n \in 0 .. (Len(tasks) - 1) /\ q \in Task
    BY <1>2, NextTaskInside DEF TasksTyped
  <2>2. s \in CPUState
    BY DEF TasksTyped, CPUState
  <2>3. /\ tasks' = tasks /\ current' = n /\ state' = Saved(s)
        /\ running' = state'[q].context
        /\ place' = [place EXCEPT ![state'[q].context] = state'[q].place]
    BY <1>2 DEF Tick, Scheduler
  <2> HIDE DEF n, s
  <2>4. current >= 0 => running = tasks[current + 1] /\ running \in Task
    BY DEF TasksTyped, StatesTrue
  <2>5. state' \in [Task -> CPUState]
    BY <2>2, <2>3, <2>4 DEF Saved, TasksTyped
  <2>6. \A t \in Task : state'[t] = [context |-> t, place |-> place[t]]
    <3> TAKE t \in Task
    <3>1. CASE current >= 0
      <4>1. state' = [state EXCEPT ![running] = s]
        BY <2>3, <2>4, <3>1 DEF Saved
      <4> QED
        BY <4>1, <2>4, <3>1 DEF StatesTrue, TasksTyped, s
    <3>2. CASE ~(current >= 0)
      <4>1. current = -1 /\ state' = state
        BY <2>3, <3>2 DEF Saved, TasksTyped
      <4> QED
        BY <4>1, TaskAssumption DEF StatesTrue
    <3> QED
      BY <3>1, <3>2
  <2>7. running' = q /\ place' = place
    <3>1. state'[q] = [context |-> q, place |-> place[q]]
      BY <2>1, <2>6
    <3> QED
      BY <2>1, <2>3, <3>1 DEF TasksTyped, Context
  <2>8. TasksTyped'
    BY <2>1, <2>3, <2>5, <2>7 DEF TasksTyped, Context
  <2>9. StatesTrue'
    BY <2>1, <2>3, <2>6, <2>7 DEF StatesTrue
  <2> QED
    BY <2>8, <2>9
<1> QED
  BY <1>1, <1>2

LEMMA TasksNext ==
    ASSUME TasksInv, [Next]_vars
    PROVE  TasksInv'
<1>1. CASE UNCHANGED vars
  BY <1>1 DEF vars, TasksInv, TasksTyped, StatesTrue
<1> QED
  BY <1>1, AddTaskKeeps, WorkKeeps, TickKeeps DEF Next
-----------------------------------------------------------------------------
(* What the interrupt manager's steps are to the task manager. *)

LEMMA IntStepsTasks ==
    ASSUME [IntNext]_allVars
    PROVE  [Next]_vars
<1>1. CASE UNCHANGED allVars
  BY <1>1 DEF allVars, vars
<1>2. CASE HandlerStep
  BY <1>2 DEF HandlerStep, Handle, AcknowledgeSecond, AcknowledgeFirst, Return, Next
<1>3. CASE Activate \/ Sti \/ SystemCall \/ DiskEndsFirst \/ DiskEndsSecond
  BY <1>3 DEF Activate, Sti, SystemCall, DiskEndsFirst, DiskEndsSecond
<1>4. CASE KernelAddsTask \/ ContextWorks
  BY <1>4 DEF KernelAddsTask, ContextWorks, Next
<1>5. ASSUME NEW l \in Wired, Raise(l) \/ Take(l) PROVE [Next]_vars
  BY <1>5 DEF Raise, Take
<1> QED
  BY <1>1, <1>2, <1>3, <1>4, <1>5 DEF IntNext

(* Whatever interrupts arrive, the interrupt manager steps the task manager *)
(* as a round robin, and interrupts no step of it.                          *)
THEOREM TasksImplemented == IntSpec => Spec
<1>1. IntInit => Init
  BY DEF IntInit
<1>2. [IntNext]_allVars => [Next]_vars
  BY IntStepsTasks
<1> QED
  BY <1>1, <1>2, PTL DEF IntSpec, Spec

(* The index names the context on the processor, and every other task's     *)
(* state is its own, taken where it was interrupted (multitask.cpp: the     *)
(* state is stored in the task that the index names).                       *)
THEOREM TaskStates == IntSpec => []StatesTrue
<1>1. Init => TasksInv
  BY TasksInit
<1>2. TasksInv /\ [Next]_vars => TasksInv'
  BY TasksNext
<1>3. TasksInv => StatesTrue
  BY DEF TasksInv
<1> QED
  BY <1>1, <1>2, <1>3, TasksImplemented, PTL DEF Spec

-----------------------------------------------------------------------------
(* The controllers and the handlers. *)

IntTyped ==
    /\ pending \subseteq Line /\ inService \subseteq Line
    /\ enabled \in BOOLEAN /\ active \in BOOLEAN
    /\ pc \in {"run", "sti", "handler", "endSecond", "endFirst", "return"}
    /\ pc \in {"handler", "endSecond", "endFirst"} => number \in Gated \cup {Syscall}

(* Interrupts are enabled, and a handler runs, after activate only: no      *)
(* handler returns without its commands.                                    *)
TakenActive ==
    /\ enabled \/ pc # "run" => active
    /\ enabled => pc = "run"

(* Each controller's lines that are in service have no higher priority than *)
(* the line whose handler has still to end it there.                        *)
OwnLineHighest ==
    /\ pc \in {"handler", "endSecond"} /\ number \in SecondLines =>
           /\ number \in inService
           /\ \A s \in inService \cap SecondLines : number <= s
    /\ pc \in {"handler", "endSecond", "endFirst"} /\ number \in Line =>
           /\ FirstLine(number) \in inService
           /\ \A s \in inService \ SecondLines : FirstLine(number) <= s

(* Of the lines with a gate none is in service but the one whose handler    *)
(* runs, until its last command.                                            *)
OneHandled ==
    /\ pc \in {"handler", "endSecond"} => inService \cap Gated \subseteq {number}
    /\ pc = "endFirst" => inService \cap Gated \subseteq {number} \ SecondLines
    /\ pc \in {"run", "sti", "return"} => inService \cap Gated = {}

IntInv == IntTyped /\ TakenActive /\ OwnLineHighest /\ OneHandled

LEMMA IntInitInv == IntInit => IntInv
BY DEF IntInit, IntInv, IntTyped, TakenActive, OwnLineHighest, OneHandled

(* The command to the first controller ends one line, the highest; so does  *)
(* the one to the second.                                                   *)
LEMMA EndFirstEnds ==
    ASSUME inService \subseteq Line, NEW l \in inService \ SecondLines,
           \A s \in inService \ SecondLines : l <= s
    PROVE  EndFirst = inService \ {l}
<1>1. \A m \in Line \ SecondLines : FirstLine(m) = m
  BY DEF FirstLine
<1>2. Highest(inService \ SecondLines, l)
  BY <1>1 DEF Highest, Above, Line, SecondLines
<1>3. ASSUME NEW m \in inService, m # l
      PROVE  ~Highest(inService \ SecondLines, m)
  BY <1>1, <1>3 DEF Highest, Above, Line, SecondLines
<1> QED
  BY <1>2, <1>3 DEF EndFirst

LEMMA EndSecondEnds ==
    ASSUME inService \subseteq Line, NEW l \in inService \cap SecondLines,
           \A s \in inService \cap SecondLines : l <= s
    PROVE  EndSecond = inService \ {l}
<1>1. \A m \in SecondLines : FirstLine(m) = Cascade
  BY DEF FirstLine
<1>2. Highest(inService \cap SecondLines, l)
  BY <1>1 DEF Highest, Above, Line, SecondLines, Cascade
<1>3. ASSUME NEW m \in inService, m # l
      PROVE  ~Highest(inService \cap SecondLines, m)
  BY <1>1, <1>3 DEF Highest, Above, Line, SecondLines, Cascade
<1> QED
  BY <1>2, <1>3 DEF EndSecond

(* A line that is taken is the highest of its controllers from then on.     *)
LEMMA TakeKeeps ==
    ASSUME IntInv, NEW l \in Wired, Take(l)
    PROVE  IntInv'
<1> USE DEF IntInv
<1>1. l \in Line \ {Cascade} /\ l \in pending /\ Passes(l) /\ pc = "run" /\ enabled
  BY WiringAssumption DEF Take, Highest
<1>2. FirstLine(l) \in Line \ SecondLines /\ (l \notin SecondLines => FirstLine(l) = l)
  BY <1>1 DEF FirstLine, Line, SecondLines, Cascade
<1>3. FirstLine(l) = l \/ FirstLine(l) = Cascade
  BY DEF FirstLine
<1>4. inService' = inService \cup {l, FirstLine(l)}
  BY DEF Take
<1>5. IntTyped'
  BY <1>1, <1>2, <1>4 DEF Take, IntTyped
<1>6. TakenActive'
  BY <1>1 DEF Take, TakenActive
<1>7. inService \cap Gated = {}
  BY <1>1 DEF OneHandled
<1>8. CASE l \in Gated
  <2>1. pc' = "handler" /\ number' = l
    BY <1>8 DEF Take
  <2>2. \A s \in inService' \ SecondLines : FirstLine(l) <= s
    BY <1>1, <1>2, <1>4 DEF Passes, IntTyped, Line, SecondLines
  <2>3. l \in SecondLines => \A s \in inService' \cap SecondLines : l <= s
    BY <1>1, <1>2, <1>4 DEF Passes, IntTyped, Line, SecondLines
  <2>4. OwnLineHighest'
    BY <2>1, <2>2, <2>3, <1>4 DEF OwnLineHighest
  <2>5. OneHandled'
    BY <2>1, <1>3, <1>4, <1>7 DEF OneHandled, Gated, Cascade
  <2> QED
    BY <1>5, <1>6, <2>4, <2>5
<1>9. CASE l \notin Gated
  <2>1. pc' = "run"
    BY <1>1, <1>9 DEF Take
  <2>2. OwnLineHighest'
    BY <2>1 DEF OwnLineHighest
  <2>3. OneHandled'
    BY <2>1, <1>3, <1>4, <1>7, <1>9 DEF OneHandled, Gated, Cascade
  <2> QED
    BY <1>5, <1>6, <2>2, <2>3
<1> QED
  BY <1>8, <1>9

(* A command of a handler ends its own line there and nothing else.         *)
LEMMA AcknowledgeSecondKeeps ==
    ASSUME IntInv, AcknowledgeSecond
    PROVE  /\ IntInv'
           /\ inService \ inService' \subseteq {number}
<1> USE DEF IntInv
<1>1. pc = "endSecond" /\ pc' = "endFirst" /\ number' = number /\ number \in Gated \cup {Syscall}
  BY DEF AcknowledgeSecond, IntTyped
<1>2. CASE number \in SecondLines
  <2>1. inService' = inService \ {number}
    BY <1>1, <1>2, EndSecondEnds DEF AcknowledgeSecond, OwnLineHighest, IntTyped
  <2>2. FirstLine(number) # number
    BY <1>2 DEF FirstLine, Cascade, SecondLines
  <2>3. IntTyped' /\ TakenActive'
    BY <1>1, <2>1 DEF AcknowledgeSecond, IntTyped, TakenActive
  <2>4. OwnLineHighest'
    BY <1>1, <2>1, <2>2 DEF OwnLineHighest
  <2>5. OneHandled'
    BY <1>1, <1>2, <2>1 DEF OneHandled
  <2> QED
    BY <2>1, <2>3, <2>4, <2>5
<1>3. CASE number \notin SecondLines
  <2>1. inService' = inService
    BY <1>3 DEF AcknowledgeSecond
  <2>2. IntTyped' /\ TakenActive'
    BY <1>1, <2>1 DEF AcknowledgeSecond, IntTyped, TakenActive
  <2>3. OwnLineHighest' /\ OneHandled'
    BY <1>1, <1>3, <2>1 DEF OwnLineHighest, OneHandled
  <2> QED
    BY <2>1, <2>2, <2>3
<1> QED
  BY <1>2, <1>3

LEMMA AcknowledgeFirstKeeps ==
    ASSUME IntInv, AcknowledgeFirst
    PROVE  /\ IntInv'
           /\ inService \ inService' \subseteq {number, Cascade}
<1> USE DEF IntInv
<1>1. pc = "endFirst" /\ pc' = "return" /\ number \in Gated \cup {Syscall}
  BY DEF AcknowledgeFirst, IntTyped
<1>2. IntTyped' /\ TakenActive' /\ OwnLineHighest'
  <2>1. inService' \subseteq inService
    BY DEF AcknowledgeFirst, EndFirst
  <2> QED
    BY <1>1, <2>1 DEF AcknowledgeFirst, IntTyped, TakenActive, OwnLineHighest
<1>3. CASE number \in Line
  <2>1. FirstLine(number) \in {number, Cascade} /\ FirstLine(number) \notin SecondLines
        /\ (number \notin SecondLines => FirstLine(number) = number)
    BY <1>3 DEF FirstLine, Cascade, SecondLines
  <2>2. inService' = inService \ {FirstLine(number)}
    BY <1>1, <1>3, <2>1, EndFirstEnds DEF AcknowledgeFirst, OwnLineHighest, IntTyped
  <2>3. OneHandled'
    BY <1>1, <2>1, <2>2 DEF OneHandled
  <2> QED
    BY <1>2, <2>1, <2>2, <2>3
<1>4. CASE number \notin Line
  <2>1. inService' = inService
    BY <1>4 DEF AcknowledgeFirst
  <2>2. number \notin inService
    BY <1>4 DEF IntTyped
  <2>3. OneHandled'
    BY <1>1, <2>1, <2>2 DEF OneHandled
  <2> QED
    BY <1>2, <2>1, <2>3
<1> QED
  BY <1>3, <1>4

(* The disk driver's commands come while no handler runs, and then no line  *)
(* with a gate is in service.                                               *)
LEMMA DiskEndsKeeps ==
    ASSUME IntInv, DiskEndsFirst \/ DiskEndsSecond
    PROVE  IntInv'
<1>1. inService' \subseteq inService /\ UNCHANGED <<pending, enabled, active, pc, number>>
  BY DEF DiskEndsFirst, DiskEndsSecond, EndFirst, EndSecond
<1>2. pc = "run"
  BY DEF DiskEndsFirst, DiskEndsSecond
<1> QED
  BY <1>1, <1>2 DEF IntInv, IntTyped, TakenActive, OwnLineHighest, OneHandled

LEMMA IntNextInv ==
    ASSUME IntInv, [IntNext]_allVars
    PROVE  IntInv'
<1> USE DEF IntInv, IntTyped, TakenActive, OwnLineHighest, OneHandled
<1>1. CASE UNCHANGED allVars
  BY <1>1 DEF allVars
<1>2. CASE Handle
  BY <1>2 DEF Handle
<1>3. CASE Return
  BY <1>3 DEF Return
<1>4. CASE Activate
  BY <1>4 DEF Activate
<1>5. CASE Sti
  BY <1>5 DEF Sti
<1>6. CASE SystemCall
  <2>1. Syscall \notin Line
    BY DEF Syscall, Line
  <2> QED
    BY <1>6, <2>1 DEF SystemCall, SecondLines
<1>7. CASE KernelAddsTask \/ ContextWorks
  BY <1>7 DEF KernelAddsTask, ContextWorks, intVars
<1>8. ASSUME NEW l \in Wired, Raise(l) PROVE IntInv'
  BY <1>8, WiringAssumption DEF Raise
<1> QED
  BY <1>1, <1>2, <1>3, <1>4, <1>5, <1>6, <1>7, <1>8, TakeKeeps, DiskEndsKeeps,
     AcknowledgeSecondKeeps, AcknowledgeFirstKeeps DEF IntNext, HandlerStep

-----------------------------------------------------------------------------
(* A handler leaves its line in service in no state in which none runs,     *)
(* whatever lines without a gate are in service by then (interrupts.cpp:    *)
(* the commands at the end of handler).                                     *)
THEOREM HandledEnd == IntSpec => []HandledLinesEnd
<1>1. IntInit => IntInv
  BY IntInitInv
<1>2. IntInv /\ [IntNext]_allVars => IntInv'
  BY IntNextInv
<1>3. IntInv => HandledLinesEnd
  BY DEF IntInv, OneHandled, HandledLinesEnd
<1> QED
  BY <1>1, <1>2, <1>3, PTL DEF IntSpec

(* A handler's unspecific commands end its own line and the cascade; those  *)
(* of the disk driver (ata.cpp) no line with a gate.                        *)
THEOREM OwnLineEnds == IntSpec => EndsItsOwnLine
<1> DEFINE A == /\ pc \in {"endSecond", "endFirst"} =>
                       inService \ inService' \subseteq {number, Cascade}
                /\ pc = "run" => (inService \ inService') \cap Gated = {}
<1>1. IntInit => IntInv
  BY IntInitInv
<1>2. IntInv /\ [IntNext]_allVars => IntInv'
  BY IntNextInv
<1>3. IntInv /\ [IntNext]_allVars => [A]_allVars
  <2> SUFFICES ASSUME IntInv, IntNext PROVE A
    OBVIOUS
  <2>1. pc = "run" => inService \cap Gated = {}
    BY DEF IntInv, OneHandled
  <2>2. ASSUME pc \in {"endSecond", "endFirst"}
        PROVE  inService \ inService' \subseteq {number, Cascade}
    <3>1. CASE AcknowledgeSecond \/ AcknowledgeFirst
      BY <3>1, AcknowledgeSecondKeeps, AcknowledgeFirstKeeps
    <3>2. CASE Activate
      BY <3>2 DEF Activate
    <3>3. ASSUME NEW l \in Wired, Raise(l) PROVE inService' = inService
      BY <3>3 DEF Raise
    <3> QED
      BY <2>2, <3>1, <3>2, <3>3 DEF IntNext, HandlerStep, Handle, Return, Sti, SystemCall,
         KernelAddsTask, ContextWorks, DiskEndsFirst, DiskEndsSecond, Take
  <2> QED
    BY <2>1, <2>2
<1> QED
  BY <1>1, <1>2, <1>3, PTL DEF IntSpec, EndsItsOwnLine
=============================================================================
