----------------------- MODULE AsyncTaskQueueProofs -----------------------
(***************************************************************************)
(* Proofs about AsyncTaskQueue, for every set of tasks, every delay and    *)
(* every amount by which timers fire early.                                *)
(***************************************************************************)
EXTENDS AsyncTaskQueue, SequenceTheorems, TLAPS

(***************************************************************************)
(* Type correctness.                                                       *)
(***************************************************************************)

(* What handleTask does to the worker keeps it well typed. *)
LEMMA HandleTaskTyped ==
    ASSUME TypeOK, NEW t \in Tasks, HandleTask(t), UNCHANGED now
    PROVE  /\ slot' \in Slots
           /\ nextExecution' \in Nat
           /\ answer' \in [Tasks -> {"unasked", "pending"} \cup Answers]
           /\ started' \in Seq(Nat)
<1> USE DEF TypeOK
<1>1. CASE Redelay(t)
  BY <1>1 DEF Redelay, Slots
<1>2. CASE Execute(t)
  <2>1. nextExecution' \in Nat /\ started' \in Seq(Nat)
    BY <1>2, DelayAssumption DEF Execute
  <2>2. slot' \in Slots /\ answer' \in [Tasks -> {"unasked", "pending"} \cup Answers]
    BY <1>2 DEF Execute, Slots
  <2> QED BY <2>1, <2>2
<1> QED BY <1>1, <1>2 DEF HandleTask

(* Every step of the queue keeps every variable in its type. *)
LEMMA TypeOKInductive ==
    ASSUME TypeOK, [Next]_vars
    PROVE  TypeOK'
<1> USE DEF TypeOK
<1>1. ASSUME NEW t \in Tasks, Push(t) PROVE TypeOK'
  BY <1>1 DEF Push
<1>2. ASSUME Process PROVE TypeOK'
  <2>1. Head(pending) \in Tasks /\ Tail(pending) \in Seq(Tasks)
    BY <1>2 DEF Process
  <2> QED BY <1>2, <2>1, HandleTaskTyped DEF Process
<1>3. ASSUME TimerFires PROVE TypeOK'
  <2>1. slot.task \in Tasks
    BY <1>3 DEF TimerFires, Slots, Idle
  <2> QED BY <1>3, <2>1, HandleTaskTyped DEF TimerFires
<1>4. ASSUME NEW r \in Answers, Settle(r) PROVE TypeOK'
  BY <1>4 DEF Settle, Slots
<1>5. ASSUME Tick PROVE TypeOK'
  BY <1>5 DEF Tick
<1>6. CASE UNCHANGED vars
  BY <1>6 DEF vars
<1> QED BY <1>1, <1>2, <1>3, <1>4, <1>5, <1>6 DEF Next

(* The queue's variables always have their types: the worker is idle with  *)
(* no task, or it delays or executes a task that was pushed.               *)
THEOREM TypeCorrect == Spec => []TypeOK
<1>1. Init => TypeOK
  BY DEF Init, TypeOK, Slots
<1>2. TypeOK /\ [Next]_vars => TypeOK'
  BY TypeOKInductive
<1> QED BY <1>1, <1>2, PTL DEF Spec

(***************************************************************************)
(* The delay between executions.                                           *)
(***************************************************************************)

(* Spacing alone is not inductive: that the next execution will come late  *)
(* enough rests on nextExecution, which lies Delay after the last one.     *)
SpacingInv ==
    /\ TypeOK
    /\ started # <<>> => started[Len(started)] + Delay <= nextExecution
    /\ Spacing

(* An execution begins Delay or more after the last one. *)
LEMMA HandleTaskSpaced ==
    ASSUME SpacingInv, TypeOK', NEW t, HandleTask(t), UNCHANGED now
    PROVE  SpacingInv'
<1> USE DEF SpacingInv, TypeOK
<1>1. CASE Redelay(t)
  BY <1>1 DEF Redelay, Spacing
<1>2. CASE Execute(t)
  <2>1. /\ Len(started') = Len(started) + 1
        /\ started'[Len(started) + 1] = now
        /\ \A i \in 1 .. Len(started) : started'[i] = started[i]
    BY <1>2 DEF Execute
  <2>2. nextExecution' = now + Delay /\ nextExecution <= now
    BY <1>2 DEF Execute, TooEarly
  <2>3. Spacing'
    <3>0. Len(started) \in Nat
      OBVIOUS
    <3> SUFFICES ASSUME NEW i \in 1 .. Len(started)
                 PROVE  started'[i] + Delay <= started'[i + 1]
      BY <2>1 DEF Spacing
    <3>1. CASE i = Len(started)
      BY <3>1, <2>1, <2>2, DelayAssumption
    <3>2. CASE i # Len(started)
      <4>1. i \in 1 .. Len(started) - 1 /\ i + 1 \in 1 .. Len(started)
        BY <3>2, <3>0
      <4>2. started[i] + Delay <= started[i + 1]
        BY <4>1 DEF Spacing
      <4> QED BY <4>1, <4>2, <2>1
    <3> QED BY <3>1, <3>2
  <2> QED BY <2>1, <2>2, <2>3
<1> QED BY <1>1, <1>2 DEF HandleTask

(* Two executions never begin less than Delay apart (handleTask, lines     *)
(* 14-20), whatever the executor does and however early timers fire.       *)
THEOREM ExecutionsSpaced == Spec => []Spacing
<1>1. Init => SpacingInv
  BY DEF Init, SpacingInv, Spacing, TypeOK, Slots
<1>2. SpacingInv /\ [Next]_vars => SpacingInv'
  <2> SUFFICES ASSUME SpacingInv, [Next]_vars PROVE SpacingInv'
    OBVIOUS
  <2>0. TypeOK'
    BY TypeOKInductive DEF SpacingInv
  <2>1. CASE HandleTask(Head(pending)) /\ UNCHANGED now
    BY <2>0, <2>1, HandleTaskSpaced DEF SpacingInv
  <2>2. CASE HandleTask(slot.task) /\ UNCHANGED now
    BY <2>0, <2>2, HandleTaskSpaced DEF SpacingInv
  <2>3. CASE UNCHANGED <<started, nextExecution>>
    BY <2>0, <2>3 DEF SpacingInv, Spacing
  <2> QED
    BY <2>1, <2>2, <2>3
    DEF Next, Push, Process, TimerFires, Settle, Tick, vars
<1>3. SpacingInv => Spacing
  BY DEF SpacingInv
<1> QED BY <1>1, <1>2, <1>3, PTL DEF Spec

(***************************************************************************)
(* No task is lost, and none is held twice.                                *)
(***************************************************************************)

(* What the queue holds: t is in the worker, or in the buffer. *)
Held(t) == slot.task = t \/ \E i \in 1 .. Len(pending) : pending[i] = t

(* NothingLost needs that a task is held at most once: when one place is   *)
(* answered and forgets the task, no other place may still hold it.        *)
HeldOnce ==
    /\ \A i, j \in 1 .. Len(pending) : pending[i] = pending[j] => i = j
    /\ \A i \in 1 .. Len(pending) : pending[i] # slot.task

HeldInv == TypeOK /\ NothingLost /\ HeldOnce

(* A pushed task is held, once, and was not held before. *)
LEMMA PushHeld ==
    ASSUME HeldInv, NEW t \in Tasks, Push(t)
    PROVE  NothingLost' /\ HeldOnce'
<1> USE DEF HeldInv, TypeOK
<1>1. /\ Len(pending') = Len(pending) + 1 /\ Len(pending) \in Nat
      /\ pending'[Len(pending) + 1] = t
      /\ \A i \in 1 .. Len(pending) : pending'[i] = pending[i]
  BY DEF Push
<1>2. slot.task # t /\ \A i \in 1 .. Len(pending) : pending[i] # t
  BY DEF Push, NothingLost
<1>3. slot' = slot /\ answer' = [answer EXCEPT ![t] = "pending"]
  BY DEF Push
<1>4. HeldOnce'
  <2>1. \A i, j \in 1 .. Len(pending') : pending'[i] = pending'[j] => i = j
    <3> TAKE i, j \in 1 .. Len(pending')
    <3>1. CASE i \in 1 .. Len(pending) /\ j \in 1 .. Len(pending)
      BY <3>1, <1>1 DEF HeldOnce
    <3>2. CASE i = Len(pending) + 1 \/ j = Len(pending) + 1
      BY <3>2, <1>1, <1>2
    <3> QED BY <3>1, <3>2, <1>1
  <2>2. \A i \in 1 .. Len(pending') : pending'[i] # slot.task
    <3> TAKE i \in 1 .. Len(pending')
    <3>1. CASE i \in 1 .. Len(pending)
      BY <3>1, <1>1 DEF HeldOnce
    <3>2. CASE i = Len(pending) + 1
      BY <3>2, <1>1, <1>2
    <3> QED BY <3>1, <3>2, <1>1
  <2> QED BY <2>1, <2>2, <1>3 DEF HeldOnce
<1>5. NothingLost'
  <2> SUFFICES ASSUME NEW u \in Tasks
               PROVE  (answer[u] = "pending")' <=> Held(u)'
    BY DEF NothingLost, Held
  <2>1. CASE u = t
    BY <2>1, <1>1, <1>3 DEF Held
  <2>2. CASE u # t
    <3>1. Held(u)' <=> Held(u)
      BY <2>2, <1>1, <1>3 DEF Held
    <3>2. answer'[u] = answer[u]
      BY <2>2, <1>3
    <3> QED BY <3>1, <3>2 DEF NothingLost, Held
  <2> QED BY <2>1, <2>2
<1> QED BY <1>4, <1>5

(* The worker takes the oldest task: it moves, or is answered and leaves.  *)
LEMMA ProcessHeld ==
    ASSUME HeldInv, Process
    PROVE  NothingLost' /\ HeldOnce'
<1> DEFINE t == Head(pending)
<1> USE DEF HeldInv, TypeOK
<1>1. pending # <<>> /\ pending \in Seq(Tasks) /\ pending' = Tail(pending)
  BY DEF Process
<1>2. /\ Len(pending') = Len(pending) - 1 /\ Len(pending) \in Nat \ {0}
      /\ \A i \in 1 .. Len(pending) - 1 : pending'[i] = pending[i + 1]
      /\ t = pending[1] /\ t \in Tasks
  BY <1>1
<1>3. slot.task = NoTask /\ \A i \in 1 .. Len(pending) : pending[i] \in Tasks
  BY <1>1 DEF Process, Slots, Idle
<1>4. \A i \in 1 .. Len(pending') : pending'[i] # t
  BY <1>2 DEF HeldOnce
<1>5. \A u \in Tasks : u # t =>
          ((\E i \in 1 .. Len(pending') : pending'[i] = u)
              <=> \E i \in 1 .. Len(pending) : pending[i] = u)
  <2> SUFFICES ASSUME NEW u \in Tasks, u # t
               PROVE  (\E i \in 1 .. Len(pending') : pending'[i] = u)
                          <=> \E i \in 1 .. Len(pending) : pending[i] = u
    OBVIOUS
  <2>1. ASSUME NEW i \in 1 .. Len(pending'), pending'[i] = u
        PROVE  \E j \in 1 .. Len(pending) : pending[j] = u
    <3>1. i + 1 \in 1 .. Len(pending) /\ pending[i + 1] = u
      BY <2>1, <1>2
    <3> QED BY <3>1
  <2>2. ASSUME NEW j \in 1 .. Len(pending), pending[j] = u
        PROVE  \E i \in 1 .. Len(pending') : pending'[i] = u
    <3>1. j - 1 \in 1 .. Len(pending') /\ pending'[j - 1] = u
      BY <2>2, <1>2
    <3> QED BY <3>1
  <2> QED BY <2>1, <2>2
<1>6. \/ slot'.task = t /\ answer' = answer
      \/ slot'.task = NoTask /\ \E r \in Answers : answer' = [answer EXCEPT ![t] = r]
  BY DEF Process, HandleTask, Redelay, Execute, Idle
<1>7. answer[t] = "pending"
  BY <1>2 DEF NothingLost
<1>8. HeldOnce'
  <2>1. \A i, j \in 1 .. Len(pending') : pending'[i] = pending'[j] => i = j
    BY <1>2 DEF HeldOnce
  <2>2. \A i \in 1 .. Len(pending') : pending'[i] # slot'.task
    <3> TAKE i \in 1 .. Len(pending')
    <3>1. i \in 1 .. Len(pending) - 1 /\ pending'[i] = pending[i + 1]
      BY <1>2
    <3>2. i + 1 \in 1 .. Len(pending)
      BY <3>1, <1>2
    <3>3. pending'[i] # NoTask
      BY <3>1, <3>2, <1>3, NoTaskAssumption
    <3> QED BY <3>3, <1>4, <1>6
  <2> QED BY <2>1, <2>2 DEF HeldOnce
<1>9. NothingLost'
  <2> SUFFICES ASSUME NEW u \in Tasks
               PROVE  (answer[u] = "pending")' <=> Held(u)'
    BY DEF NothingLost, Held
  <2>1. CASE u = t
    BY <2>1, <1>4, <1>6, <1>7, <1>2, NoTaskAssumption DEF Held, Answers
  <2>2. CASE u # t
    <3>1. answer'[u] = answer[u] /\ slot'.task # u
      BY <2>2, <1>6, NoTaskAssumption
    <3> QED BY <3>1, <2>2, <1>3, <1>5, NoTaskAssumption DEF NothingLost, Held
  <2> QED BY <2>1, <2>2
<1> QED BY <1>8, <1>9

(* The worker answers its task and forgets it, or keeps it. *)
LEMMA WorkerHeld ==
    ASSUME HeldInv, TimerFires \/ \E r \in Answers : Settle(r)
    PROVE  NothingLost' /\ HeldOnce'
<1> DEFINE t == slot.task
<1> USE DEF HeldInv, TypeOK
<1>1. t \in Tasks /\ pending' = pending
  BY DEF TimerFires, Settle, Slots, Idle
<1>2. \/ slot'.task = t /\ answer' = answer
      \/ slot'.task = NoTask /\ \E r \in Answers : answer' = [answer EXCEPT ![t] = r]
  BY DEF TimerFires, Settle, HandleTask, Redelay, Execute, Idle
<1>3. \A i \in 1 .. Len(pending) : pending[i] \in Tasks
  OBVIOUS
<1>4. HeldOnce'
  BY <1>1, <1>2, <1>3, NoTaskAssumption DEF HeldOnce
<1>5. NothingLost'
  <2> SUFFICES ASSUME NEW u \in Tasks
               PROVE  (answer[u] = "pending")' <=> Held(u)'
    BY DEF NothingLost, Held
  <2>1. CASE u = t
    BY <2>1, <1>1, <1>2, NoTaskAssumption DEF NothingLost, HeldOnce, Held, Answers
  <2>2. CASE u # t
    BY <2>2, <1>1, <1>2, NoTaskAssumption DEF NothingLost, Held
  <2> QED BY <2>1, <2>2
<1> QED BY <1>4, <1>5

(* A push is pending exactly as long as the queue holds its task: no push  *)
(* is forgotten while it waits, none is kept after its answer.             *)
THEOREM NoTaskLost == Spec => []NothingLost
<1>1. Init => HeldInv
  BY NoTaskAssumption DEF Init, HeldInv, TypeOK, NothingLost, HeldOnce, Slots, Idle
<1>2. HeldInv /\ [Next]_vars => HeldInv'
  <2> SUFFICES ASSUME HeldInv, [Next]_vars PROVE HeldInv'
    OBVIOUS
  <2>0. TypeOK'
    BY TypeOKInductive DEF HeldInv
  <2>1. ASSUME NEW t \in Tasks, Push(t) PROVE HeldInv'
    BY <2>0, <2>1, PushHeld DEF HeldInv
  <2>2. CASE Process
    BY <2>0, <2>2, ProcessHeld DEF HeldInv
  <2>3. CASE TimerFires \/ \E r \in Answers : Settle(r)
    BY <2>0, <2>3, WorkerHeld DEF HeldInv
  <2>4. CASE Tick \/ UNCHANGED vars
    BY <2>0, <2>4 DEF HeldInv, NothingLost, HeldOnce, Tick, vars
  <2> QED BY <2>1, <2>2, <2>3, <2>4 DEF Next
<1>3. HeldInv => NothingLost
  BY DEF HeldInv
<1> QED BY <1>1, <1>2, <1>3, PTL DEF Spec

(***************************************************************************)
(* The queue implements FifoServer.                                        *)
(***************************************************************************)

(* The abstract server's buffer and task, as Abstract maps them. *)
Waiting == IF slot.phase = "delayed" THEN <<slot.task>> \o pending ELSE pending
Current == IF slot.phase = "executing" THEN slot.task ELSE NoTask

(* The empty queue is the abstract server's initial state. *)
LEMMA InitImplements == Init => Abstract!Init
BY DEF Init, Abstract!Init, Idle

(* A task given to handleTask is the abstract server's oldest task: it     *)
(* stays so, starts, or is served at once.                                 *)
LEMMA HandleTaskImplements ==
    ASSUME TypeOK, NEW t \in Tasks, HandleTask(t),
           slot.phase # "executing", pending' \in Seq(Tasks),
           Waiting = <<t>> \o pending'
    PROVE  Abstract!Work \/ UNCHANGED <<Waiting, Current, answer>>
<1>1. Waiting # <<>> /\ Head(Waiting) = t /\ Tail(Waiting) = pending'
  OBVIOUS
<1>2. Current = NoTask
  BY DEF Current
<1>3. CASE Redelay(t)
  BY <1>2, <1>3 DEF Redelay, Waiting, Current
<1>4. CASE Execute(t)
  <2>1. Waiting' = pending'
    BY <1>4 DEF Execute, Waiting, Idle
  <2>2. CASE slot'.phase = "executing"
    <3>1. Current' = t /\ answer' = answer
      BY <1>4, <2>2 DEF Execute, Current, Idle
    <3>2. Abstract!Begin
      BY <1>1, <1>2, <2>1, <3>1 DEF Abstract!Begin, Waiting, Current
    <3> QED BY <3>2 DEF Abstract!Work
  <2>3. CASE slot'.phase # "executing"
    <3>1. PICK r \in Answers : answer' = [answer EXCEPT ![t] = r]
      BY <1>4, <2>3 DEF Execute
    <3>2. Current' = NoTask
      BY <2>3 DEF Current
    <3>3. Abstract!Serve(r)
      BY <1>1, <1>2, <2>1, <3>1, <3>2 DEF Abstract!Serve, Waiting, Current
    <3> QED BY <3>3 DEF Abstract!Work, Answers, Abstract!Answers
  <2> QED BY <2>2, <2>3
<1> QED BY <1>3, <1>4 DEF HandleTask

(* Every step of the queue is a step of the abstract server or none.       *)
LEMMA StepImplements ==
    ASSUME TypeOK, TypeOK', [Next]_vars
    PROVE  [Abstract!Next]_(Abstract!vars)
<1>0. ASSUME Abstract!Work \/ UNCHANGED <<Waiting, Current, answer>>
      PROVE  [Abstract!Next]_(Abstract!vars)
  BY <1>0 DEF Abstract!Next, Abstract!vars, Waiting, Current
<1>1. ASSUME NEW t \in Tasks, Push(t) PROVE Abstract!Next
  <2>0. /\ pending' = Append(pending, t) /\ pending \in Seq(Tasks)
        /\ UNCHANGED slot
    BY <1>1 DEF Push, TypeOK
  <2>1. Append(Waiting, t) = Waiting' /\ UNCHANGED Current
    <3>1. CASE slot.phase = "delayed"
      <4>1. slot.task \in Tasks
        BY <3>1 DEF TypeOK, Slots, Idle
      <4>2. Append(<<slot.task>> \o pending, t) = <<slot.task>> \o Append(pending, t)
        BY <2>0, <4>1
      <4> QED BY <2>0, <3>1, <4>2 DEF Waiting, Current
    <3>2. CASE slot.phase # "delayed"
      BY <2>0, <3>2 DEF Waiting, Current
    <3> QED BY <3>1, <3>2
  <2>2. Abstract!Submit(t)
    BY <1>1, <2>1 DEF Push, Abstract!Submit, Waiting, Current
  <2> QED BY <2>2 DEF Abstract!Next
<1>2. CASE Process
  <2>1. /\ Head(pending) \in Tasks
        /\ pending = <<Head(pending)>> \o pending'
    BY <1>2 DEF Process, TypeOK
  <2>2. Waiting = pending /\ slot.phase # "executing"
    BY <1>2 DEF Process, Waiting
  <2> QED
    BY <1>0, <1>2, <2>1, <2>2, HandleTaskImplements DEF Process, TypeOK
<1>3. CASE TimerFires
  <2>1. slot.task \in Tasks /\ slot.phase = "delayed"
    BY <1>3 DEF TimerFires, TypeOK, Slots, Idle
  <2>2. Waiting = <<slot.task>> \o pending'
    BY <1>3, <2>1 DEF TimerFires, Waiting
  <2> QED
    BY <1>0, <1>3, <2>1, <2>2, HandleTaskImplements DEF TimerFires, TypeOK
<1>4. ASSUME NEW r \in Answers, Settle(r) PROVE Abstract!Work
  <2>1. /\ Current = slot.task /\ Current # NoTask /\ Current' = NoTask
        /\ UNCHANGED Waiting /\ answer' = [answer EXCEPT ![Current] = r]
    BY <1>4, NoTaskAssumption DEF Settle, Current, Waiting, TypeOK, Slots, Idle
  <2>2. Abstract!Finish(r)
    BY <2>1 DEF Abstract!Finish, Waiting, Current
  <2> QED BY <2>2 DEF Abstract!Work, Answers, Abstract!Answers
<1>5. CASE Tick \/ UNCHANGED vars
  BY <1>0, <1>5 DEF Tick, vars, Waiting, Current
<1> QED BY <1>0, <1>1, <1>2, <1>3, <1>4, <1>5 DEF Next

(* What the queue shows its callers is a server that serves tasks one at a *)
(* time in push order and answers each once with its own result: timers    *)
(* and the delay between executions are invisible to them.                 *)
THEOREM ImplementsFifoServer == Spec => Abstract!Spec
<1>1. TypeOK /\ TypeOK' /\ [Next]_vars => [Abstract!Next]_(Abstract!vars)
  BY StepImplements
<1> QED BY <1>1, InitImplements, TypeCorrect, PTL DEF Spec, Abstract!Spec
=============================================================================
