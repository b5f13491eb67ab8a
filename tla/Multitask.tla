------------------------------ MODULE Multitask ------------------------------
(***************************************************************************)
(* The task manager (src/multitask.cpp): a round robin over the tasks that  *)
(* were added, stepped by the timer interrupt.  An execution context is the *)
(* kernel's own, Boot, or a task; a CPUState is what the interrupt stub     *)
(* pushed on the stack of the context it interrupted: whose it is and where *)
(* that context was.                                                       *)
(***************************************************************************)
EXTENDS Integers, Sequences

CONSTANTS
    Task,        \* the Task objects
    Boot,        \* the kernel's own context
    MaxTasks,    \* length of m_tasks, 256
    Places       \* where a context may be, as a bound: 0 .. Places - 1

ASSUME TaskAssumption ==
    Boot \notin Task /\ MaxTasks \in Nat \ {0} /\ Places \in Nat \ {0}

VARIABLES
    tasks,      \* m_tasks, up to m_num_tasks
    current,    \* m_curr_task, -1 before the first
    state,      \* m_cpu_state of each task
    running,    \* the context on the processor
    place       \* where each context is

vars == <<tasks, current, state, running, place>>

Context == Task \cup {Boot}
CPUState == [context : Context, place : 0 .. (Places - 1)]

(* The constructors: a new task starts at its entry point. *)
Init ==
    /\ tasks = <<>> /\ current = -1
    /\ state = [t \in Task |-> [context |-> t, place |-> 0]]
    /\ running = Boot
    /\ place = [c \in Context |-> 0]

(* add_task, called from the kernel's own context. *)
AddTask(t) ==
    /\ running = Boot /\ Len(tasks) < MaxTasks
    /\ tasks' = Append(tasks, t)
    /\ UNCHANGED <<current, state, running, place>>

(* The context on the processor goes on. *)
Work ==
    /\ place' = [place EXCEPT ![running] = (@ + 1) % Places]
    /\ UNCHANGED <<tasks, current, state, running>>

(* Mutants: the state goes to the task that is next; the index stays at the *)
(* last task.                                                              *)
SavedInNext(s) ==
    IF current >= 0
    THEN [state EXCEPT ![tasks[((current + 1) % Len(tasks)) + 1]] = s] ELSE state
NextLast == IF current + 1 >= Len(tasks) THEN Len(tasks) - 1 ELSE current + 1

Saved(s) == IF current >= 0 THEN [state EXCEPT ![tasks[current + 1]] = s] ELSE state
NextTask == IF current + 1 >= Len(tasks) THEN (current + 1) % Len(tasks) ELSE current + 1

(* scheduler(s), and the return from the interrupt to the state it returns. *)
Scheduler(s) ==
    IF tasks = <<>>
    THEN UNCHANGED <<current, state, running, place>>
    ELSE /\ state' = Saved(s)
         /\ current' = NextTask
         /\ LET resumed == state'[tasks[current' + 1]]
            IN /\ running' = resumed.context
               /\ place' = [place EXCEPT ![resumed.context] = resumed.place]

(* The timer interrupts the running context. *)
Tick ==
    /\ Scheduler([context |-> running, place |-> place[running]])
    /\ UNCHANGED tasks

Next == Work \/ Tick \/ \E t \in Task : AddTask(t)

Spec == Init /\ [][Next]_vars

-----------------------------------------------------------------------------
(* The task manager's index names the context on the processor, so that the *)
(* next tick saves its state in its own Task; and each other task's state   *)
(* is its own, taken where it was interrupted.  No task lies beyond the end *)
(* of the array, where m_num_tasks follows it.                              *)
StatesTrue ==
    /\ Len(tasks) <= MaxTasks
    /\ IF current = -1 THEN running = Boot ELSE running = tasks[current + 1]
    /\ \A t \in Task \ {running} : state[t] = [context |-> t, place |-> place[t]]
=============================================================================
