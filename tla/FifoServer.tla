----------------------------- MODULE FifoServer -----------------------------
(***************************************************************************)
(* What the queue of src/common/utils/async-task-queue.js promises to the  *)
(* code that pushes tasks, with its timers and its delay left out: tasks   *)
(* are served one at a time, in the order they were pushed, and each push  *)
(* is answered once, with the result of its own task.                      *)
(*                                                                         *)
(* AsyncTaskQueue implements this specification; Web3Service is composed   *)
(* from it.                                                                *)
(***************************************************************************)
EXTENDS Sequences

CONSTANTS Tasks,    \* the tasks callers may push, each at most once
          NoTask    \* none of them: "the worker is free"

VARIABLES waiting,  \* pushed and not started, oldest first
          current,  \* the task the worker is executing
          answer    \* what became of the promise push(task) returned

vars == <<waiting, current, answer>>

Answers == {"resolved", "rejected"}
AnswerStates == {"unasked", "pending"} \cup Answers

TypeOK ==
    /\ waiting \in Seq(Tasks)
    /\ current \in Tasks \cup {NoTask}
    /\ answer \in [Tasks -> AnswerStates]

Init ==
    /\ waiting = <<>>
    /\ current = NoTask
    /\ answer = [t \in Tasks |-> "unasked"]

(* A caller pushes a task and holds a pending promise. *)
Submit(t) ==
    /\ answer[t] = "unasked"
    /\ waiting' = Append(waiting, t)
    /\ answer' = [answer EXCEPT ![t] = "pending"]
    /\ UNCHANGED current

(* The free worker starts the oldest task, whose executor returned a promise. *)
Begin ==
    /\ current = NoTask
    /\ waiting # <<>>
    /\ current' = Head(waiting)
    /\ waiting' = Tail(waiting)
    /\ UNCHANGED answer

(* The executor's promise settled: the caller is answered, the worker is free. *)
Finish(r) ==
    /\ current # NoTask
    /\ answer' = [answer EXCEPT ![current] = r]
    /\ current' = NoTask
    /\ UNCHANGED waiting

(* The executor returned or threw at once: started and answered in one step. *)
Serve(r) ==
    /\ current = NoTask
    /\ waiting # <<>>
    /\ answer' = [answer EXCEPT ![Head(waiting)] = r]
    /\ waiting' = Tail(waiting)
    /\ UNCHANGED current

Work == Begin \/ \E r \in Answers : Finish(r) \/ Serve(r)

Next == Work \/ \E t \in Tasks : Submit(t)

Spec == Init /\ [][Next]_vars

FairSpec == Spec /\ WF_vars(Work)
=============================================================================
