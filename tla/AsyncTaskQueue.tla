--------------------------- MODULE AsyncTaskQueue ---------------------------
(***************************************************************************)
(* src/common/utils/async-task-queue.js: an async.queue with one worker    *)
(* whose handler spaces the executions of its tasks by at least Delay.     *)
(*                                                                         *)
(* Date.now() is the variable now.  It advances only while it is before    *)
(* nextExecution: handleTask compares the two, so every later time is the  *)
(* same to it.  A zero nextExecution is the null of the constructor (the   *)
(* code tests it with &&, so 0 and null are one).                          *)
(*                                                                         *)
(* The executor is any function: it returns a promise that settles later,  *)
(* returns a plain value, or throws.  The worker pool of the async library *)
(* is modelled by how handleTask is called: one task at a time, oldest     *)
(* first, the next one after the callback of the last.                     *)
(***************************************************************************)
EXTENDS Naturals, Sequences

CONSTANTS Tasks,       \* the tasks pushed, each at most once
          NoTask,
          Delay,       \* the constructor's delay
          TimerSlack   \* how much before its time a _.delay timer may fire

ASSUME NoTaskAssumption == NoTask \notin Tasks
ASSUME DelayAssumption == Delay \in Nat
ASSUME SlackAssumption == TimerSlack \in Nat

VARIABLES now,            \* Date.now()
          pending,        \* async.queue: pushed, not handed to the worker
          slot,           \* the worker: idle, in _.delay, or executing
          nextExecution,  \* this.nextExecution
          answer,         \* the promise push(task) returned
          started         \* history: when each execution began

vars == <<now, pending, slot, nextExecution, answer, started>>

Answers == {"resolved", "rejected"}
Idle == [phase |-> "idle", task |-> NoTask, wake |-> 0]

Slots ==
    {Idle} \cup [phase : {"delayed", "executing"}, task : Tasks, wake : Nat]

TypeOK ==
    /\ now \in Nat
    /\ pending \in Seq(Tasks)
    /\ slot \in Slots
    /\ nextExecution \in Nat
    /\ answer \in [Tasks -> {"unasked", "pending"} \cup Answers]
    /\ started \in Seq(Nat)

Init ==
    /\ now = 0
    /\ pending = <<>>
    /\ slot = Idle
    /\ nextExecution = 0
    /\ answer = [t \in Tasks |-> "unasked"]
    /\ started = <<>>

-----------------------------------------------------------------------------
NeverTooEarly == FALSE          \* mutant: line 14 is missing
TooEarly == now < nextExecution

(* Mutant: the task is dropped instead of put on the timer of line 15. *)
DropEarly(t) ==
    /\ TooEarly
    /\ slot' = Idle
    /\ UNCHANGED <<nextExecution, answer, started>>

(* handleTask before nextExecution: the task goes back on a timer. *)
Redelay(t) ==
    /\ TooEarly
    /\ slot' = [phase |-> "delayed", task |-> t, wake |-> nextExecution]
    /\ UNCHANGED <<nextExecution, answer, started>>

(* handleTask in time: run the executor.  A promise keeps the worker busy; *)
(* a plain value or an exception calls back at once.                       *)
Execute(t) ==
    /\ ~TooEarly
    /\ nextExecution' = now + Delay
    /\ started' = Append(started, now)
    /\ \/ /\ slot' = [phase |-> "executing", task |-> t, wake |-> now]
          /\ UNCHANGED answer
       \/ \E r \in Answers :
             /\ answer' = [answer EXCEPT ![t] = r]
             /\ slot' = Idle

HandleTask(t) == Redelay(t) \/ Execute(t)

(* push(task) *)
Push(t) ==
    /\ answer[t] = "unasked"
    /\ answer' = [answer EXCEPT ![t] = "pending"]
    /\ pending' = Append(pending, t)
    /\ UNCHANGED <<now, slot, nextExecution, started>>

(* Mutant: the newest task first. *)
ProcessNewest ==
    /\ slot.phase = "idle"
    /\ pending # <<>>
    /\ pending' = SubSeq(pending, 1, Len(pending) - 1)
    /\ HandleTask(pending[Len(pending)])
    /\ UNCHANGED now

(* async.queue hands the oldest task to its free worker. *)
Process ==
    /\ slot.phase = "idle"
    /\ pending # <<>>
    /\ pending' = Tail(pending)
    /\ HandleTask(Head(pending))
    /\ UNCHANGED now

(* The _.delay of a task that came too early runs out, perhaps a little    *)
(* early by Date.now(): handleTask looks at the time again.                *)
TimerFires ==
    /\ slot.phase = "delayed"
    /\ slot.wake <= now + TimerSlack
    /\ HandleTask(slot.task)
    /\ UNCHANGED <<now, pending>>

(* Mutant: the worker is freed and the task is kept. *)
SettleKeepingTask(r) ==
    /\ slot.phase = "executing"
    /\ answer' = [answer EXCEPT ![slot.task] = r]
    /\ slot' = [slot EXCEPT !.phase = "idle"]
    /\ UNCHANGED <<now, pending, nextExecution, started>>

(* The executor's promise settles: then or catch runs the callback. *)
Settle(r) ==
    /\ slot.phase = "executing"
    /\ answer' = [answer EXCEPT ![slot.task] = r]
    /\ slot' = Idle
    /\ UNCHANGED <<now, pending, nextExecution, started>>

Tick ==
    /\ now < nextExecution
    /\ now' = now + 1
    /\ UNCHANGED <<pending, slot, nextExecution, answer, started>>

Next ==
    \/ \E t \in Tasks : Push(t)
    \/ Process
    \/ TimerFires
    \/ \E r \in Answers : Settle(r)
    \/ Tick

Spec == Init /\ [][Next]_vars

(* The event loop runs what is ready, time passes, and the executor's      *)
(* promises settle; nobody is obliged to push.                             *)
FairSpec ==
    /\ Spec
    /\ WF_vars(Process)
    /\ WF_vars(TimerFires)
    /\ WF_vars(\E r \in Answers : Settle(r))
    /\ WF_vars(Tick)

-----------------------------------------------------------------------------
(* Two executions never begin less than Delay apart, even when tasks end   *)
(* at once, end much later, throw, or are woken early by their timer:      *)
(* handleTask lines 14-20.                                                 *)
Spacing ==
    \A i \in 1 .. Len(started) - 1 : started[i] + Delay <= started[i + 1]

(* Nobody waits while the queue has forgotten about them: a pending push   *)
(* is in the buffer or in the worker, and nowhere twice.                   *)
NothingLost ==
    \A t \in Tasks :
        answer[t] = "pending" <=>
            \/ slot.task = t
            \/ \E i \in 1 .. Len(pending) : pending[i] = t

(* Every push is eventually answered, whatever the tasks before it did:    *)
(* they may have thrown, been rejected or been delayed.                    *)
EveryPushAnswered ==
    \A t \in Tasks : answer[t] = "pending" ~> answer[t] \in Answers

(* The refinement: a task that sits in _.delay has not started yet, so for *)
(* the callers it is still the first of those waiting.                     *)
Abstract == INSTANCE FifoServer WITH
    waiting <- IF slot.phase = "delayed" THEN <<slot.task>> \o pending
                                         ELSE pending,
    current <- IF slot.phase = "executing" THEN slot.task ELSE NoTask

(* Callers see a server that executes one task at a time in push order,    *)
(* which is what the tests of the queue observe ("execute only one task in *)
(* paralel"), and that always gets to the next task.                       *)
ServesInOrder == Abstract!FairSpec
=============================================================================
