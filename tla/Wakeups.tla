------------------------------- MODULE Wakeups -------------------------------
(***************************************************************************)
(* Who is woken (connection.rs): one connection whose operations are       *)
(* polled by tasks of an executor, over a transport and a timer that       *)
(* remember only the waker of their latest poller.  Polls happen when a    *)
(* task was woken, not whenever the connection would like to be polled.    *)
(*                                                                         *)
(* The protocol is reduced to what decides whether an operation is ready   *)
(* and which sources drive polls; Reliable has the rest.  As there, a poll *)
(* is a sequence of steps, one per call of the transport or timer:         *)
(*                                                                         *)
(*   idle -> output -> input -> timer -> finish -> idle                    *)
(*             ^                  |                                        *)
(*             +- Work::Progress -+                                        *)
(***************************************************************************)
EXTENDS Integers, FiniteSets

CONSTANTS
  Tasks,         \* tasks of the executor; a waker stands for its task
  Ops,           \* the operations the application polls
  PolledBy,      \* the tasks that may poll each of them
  StepBudget,    \* STEP_BUDGET
  FinalInput     \* FINAL_INPUT, in reads

ASSUME WakeupsAssumption ==
  /\ Ops \subseteq {"Read", "Write", "Flush", "Progress"}
  /\ StepBudget \in Nat \ {0, 1}
  /\ FinalInput \in Nat \ {0}

Sources == {"Output", "Input", "Timer"}

None == "None"
Ready == "Ready"

ASSUME TasksAssumption ==
  /\ {None, Ready} \cap Tasks = {}
  /\ PolledBy \in [Ops -> SUBSET Tasks]

VARIABLES
  \* fields of Reliable
  health,        \* "Ok", "Failed", or "Reported"
  tx,            \* enum Tx
  out,           \* "Idle", or the frame being written or flushed
  ack_pending,   \* an acknowledgment is pending
  rx,            \* payload is retained
  final_input,   \* -1 for None, or reads left of the final allowance
  waiters,       \* the stored waker of each operation
  \* the poll in progress
  pc,
  op,            \* its operation; "Wrote" once queue_packet took the packet
  task,          \* the task that polls: cx.waker()
  budget,
  output, input, \* results of poll_output and poll_input in this step
  driven,        \* result of the latest drive
  \* the world
  source,        \* "Ready", or the waker registered there, or None
  pending,       \* the task that awaits each operation, or None
  runnable       \* operations whose task was woken since they were last polled

protoVars == <<health, tx, out, ack_pending, rx, final_input>>
pollVars  == <<pc, op, task, budget, output, input, driven>>
taskVars  == <<waiters, pending, runnable>>
vars == <<protoVars, pollVars, taskVars, source>>

Init ==
  /\ health = "Ok"
  /\ tx = "Idle"
  /\ out = "Idle"
  /\ ack_pending = FALSE
  /\ rx = FALSE
  /\ final_input = -1
  /\ waiters = [o \in Ops |-> None]
  /\ pc = "idle"
  /\ op = None
  /\ task = None
  /\ budget = 0
  /\ output = "Blocked" /\ input = "Blocked" /\ driven = "Blocked"
  /\ source = [s \in Sources |-> None]
  /\ pending = [o \in Ops |-> None]
  /\ runnable = {}

-----------------------------------------------------------------------------
(* Wakers and sources. *)

\* The operations that are polled again once the tasks are woken: a task polls
\* everything it awaits.
OpsOf(tasks) == {o \in Ops : pending[o] \in tasks \ {None}}

Wake(tasks) == runnable' = runnable \cup OpsOf(tasks)

\* A source is polled before it is ready: it forgets its previous poller.
Park(s) == source' = [source EXCEPT ![s] = task]

\* A source answers Ready, and may be ready for the next call as well.
Serve(s) == \E next \in {Ready, None} : source' = [source EXCEPT ![s] = next]

\* A source becomes ready and wakes its latest poller.
Event(s) ==
  /\ source[s] # Ready
  /\ source' = [source EXCEPT ![s] = Ready]
  /\ Wake({source[s]})
  /\ UNCHANGED <<protoVars, pollVars, waiters, pending>>

-----------------------------------------------------------------------------
(* What each operation waits for. *)

write_ready == tx = "Idle" /\ out # "Data"
flush_ready == tx = "Idle" /\ out = "Idle" /\ ~ ack_pending

Holds(o) == CASE o = "Read"     -> rx
              [] o = "Write"    -> write_ready
              [] o = "Flush"    -> flush_ready
              [] o = "Progress" -> FALSE

-----------------------------------------------------------------------------
(* drive *)

\* Mutant: what is left is not checked.
Spend_wraps == budget' = budget - 1

Spend == budget > 0 /\ budget' = budget - 1

\* drive fails the connection and reports Blocked.
FailDrive ==
  /\ health' = "Failed"
  /\ final_input' = -1
  /\ driven' = "Blocked"
  /\ output' = "Blocked" /\ input' = "Blocked"
  /\ pc' = "finish"

\* A task polls an operation: a new one, one it awaits already, or one whose
\* future has moved here from another task.
Begin(o, t) ==
  /\ pc = "idle"
  /\ t \in PolledBy[o]
  /\ op' = o
  /\ task' = t
  /\ pending' = [pending EXCEPT ![o] = t]
  /\ runnable' = runnable \ {o}
  /\ budget' = StepBudget
  /\ driven' = "Blocked"
  /\ pc' = IF health = "Ok" THEN "output" ELSE "finish"
  /\ UNCHANGED <<protoVars, output, input, waiters, source>>

\* The frame poll_output works on: an unfinished one, an acknowledgment, the
\* packet.
Frame == CASE out # "Idle" -> out
           [] out = "Idle" /\ ack_pending -> "Ack"
           [] out = "Idle" /\ ~ ack_pending /\ tx = "Queued" -> "Data"
           [] OTHER -> "Idle"

Select ==
  /\ out' = Frame
  /\ ack_pending' = (ack_pending /\ out # "Idle")
  /\ tx' = IF Frame = "Data" /\ tx = "Queued" THEN "Sending" ELSE tx

\* poll_output has nothing to send.
OutputIdle ==
  /\ pc = "output"
  /\ Frame = "Idle"
  /\ output' = "Blocked"
  /\ pc' = "input"
  /\ UNCHANGED <<protoVars, op, task, budget, input, driven, taskVars, source>>

OutputYield ==
  /\ pc = "output"
  /\ Frame # "Idle"
  /\ budget = 0
  /\ Select
  /\ output' = "Yield"
  /\ pc' = "input"
  /\ UNCHANGED <<health, rx, final_input, op, task, budget, input, driven,
                 taskVars, source>>

OutputPending ==
  /\ pc = "output"
  /\ Frame # "Idle"
  /\ Spend
  /\ source["Output"] # Ready
  /\ Park("Output")
  /\ Select
  /\ output' = "Blocked"
  /\ pc' = "input"
  /\ UNCHANGED <<health, rx, final_input, op, task, input, driven, taskVars>>

OutputError ==
  /\ pc = "output"
  /\ Frame # "Idle"
  /\ Spend
  /\ source["Output"] = Ready
  /\ Serve("Output")
  /\ Select
  /\ FailDrive
  /\ UNCHANGED <<rx, op, task, taskVars>>

\* The transport takes some of the frame, or all of it with the flush to come.
OutputPart ==
  /\ pc = "output"
  /\ Frame # "Idle"
  /\ Spend
  /\ source["Output"] = Ready
  /\ Serve("Output")
  /\ Select
  /\ output' = "Progress"
  /\ pc' = "input"
  /\ UNCHANGED <<health, rx, final_input, op, task, input, driven, taskVars>>

\* The frame is flushed.  A packet that is still wanted waits from now on for
\* its acknowledgment; nothing is registered at the timer for the new deadline.
OutputDone ==
  /\ pc = "output"
  /\ out # "Idle"
  /\ Spend
  /\ source["Output"] = Ready
  /\ \E next \in {Ready, None} :
        IF out = "Data" /\ tx = "Sending"
        THEN /\ tx' = "Waiting"
             /\ final_input' = -1
             /\ source' = [source EXCEPT !["Output"] = next, !["Timer"] = None]
        ELSE /\ source' = [source EXCEPT !["Output"] = next]
             /\ UNCHANGED <<tx, final_input>>
  /\ out' = "Idle"
  /\ output' = "Progress"
  /\ pc' = "input"
  /\ UNCHANGED <<health, ack_pending, rx, op, task, input, driven, taskVars>>

InputYield ==
  /\ pc = "input"
  /\ budget = 0
  /\ input' = "Yield"
  /\ pc' = "timer"
  /\ UNCHANGED <<protoVars, op, task, budget, output, driven, taskVars, source>>

InputPending ==
  /\ pc = "input"
  /\ Spend
  /\ source["Input"] # Ready
  /\ Park("Input")
  /\ input' = "Blocked"
  /\ pc' = "timer"
  /\ UNCHANGED <<protoVars, op, task, output, driven, taskVars>>

InputError ==
  /\ pc = "input"
  /\ Spend
  /\ source["Input"] = Ready
  /\ Serve("Input")
  /\ FailDrive
  /\ UNCHANGED <<tx, out, ack_pending, rx, op, task, taskVars>>

\* Input is read and processed: it may hold the acknowledgment of the packet,
\* the peer's next packet, which needs the slot, or a repeated one.
InputFrames ==
  /\ pc = "input"
  /\ Spend
  /\ source["Input"] = Ready
  /\ Serve("Input")
  /\ \E ack, next, again \in BOOLEAN :
        /\ ack => tx # "Idle"
        /\ next => ~ rx
        /\ tx' = IF ack THEN "Idle" ELSE tx
        /\ final_input' = CASE ack -> -1
                            [] ~ ack /\ final_input > 0 -> final_input - 1
                            [] OTHER -> final_input
        /\ rx' = (rx \/ next)
        /\ ack_pending' = (ack_pending \/ next \/ again)
  /\ input' = "Progress"
  /\ pc' = "timer"
  /\ UNCHANGED <<health, out, op, task, output, driven, taskVars>>

\* Mutant: drive stops at its budget and leaves the task asleep.
EndStep_asleep(timer) ==
  /\ output' = "Blocked" /\ input' = "Blocked"
  /\ UNCHANGED runnable
  /\ IF "Yield" \notin {output, input} /\ "Progress" \in {output, input, timer}
     THEN pc' = "output" /\ UNCHANGED driven
     ELSE /\ pc' = "finish"
          /\ driven' = IF "Yield" \in {output, input} THEN "Yield" ELSE "Blocked"

\* step returns the largest of its three results, which are not used again.
\* drive goes on, or returns, and on Yield wakes the task that polls.
EndStep(timer) ==
  LET work == {output, input, timer}
  IN  /\ output' = "Blocked" /\ input' = "Blocked"
      /\ CASE "Yield" \in work ->
                /\ driven' = "Yield"
                /\ pc' = "finish"
                /\ Wake({task})
           [] "Yield" \notin work /\ "Progress" \in work ->
                /\ pc' = "output"
                /\ UNCHANGED <<driven, runnable>>
           [] OTHER ->
                /\ driven' = "Blocked"
                /\ pc' = "finish"
                /\ UNCHANGED runnable

\* No packet waits, or its final allowance goes on.
TimerBlocked ==
  /\ pc = "timer"
  /\ \/ tx # "Waiting"
     \/ final_input > 0 /\ input # "Blocked"
  /\ EndStep("Blocked")
  /\ UNCHANGED <<protoVars, op, task, budget, waiters, pending,
                 source>>

TimerPending ==
  /\ pc = "timer"
  /\ tx = "Waiting"
  /\ final_input = -1
  /\ source["Timer"] # Ready
  /\ Park("Timer")
  /\ EndStep("Blocked")
  /\ UNCHANGED <<protoVars, op, task, budget, waiters, pending>>

\* The deadline has passed, and stays so.
TimerExpires ==
  /\ pc = "timer"
  /\ tx = "Waiting"
  /\ final_input = -1
  /\ source["Timer"] = Ready
  /\ final_input' = FinalInput
  /\ EndStep("Progress")
  /\ UNCHANGED <<health, tx, out, ack_pending, rx, op, task, budget, waiters, pending, source>>

Verdict ==
  /\ pc = "timer"
  /\ tx = "Waiting"
  /\ \/ final_input = 0
     \/ final_input > 0 /\ input = "Blocked"

Retransmit ==
  /\ Verdict
  /\ final_input' = -1
  /\ tx' = "Queued"
  /\ EndStep("Progress")
  /\ UNCHANGED <<health, out, ack_pending, rx, op, task, budget, waiters, pending, source>>

\* The retries are spent.
GiveUp ==
  /\ Verdict
  /\ FailDrive
  /\ UNCHANGED <<tx, out, ack_pending, rx, op, task, budget, taskVars, source>>

-----------------------------------------------------------------------------
(* What the poll methods do after drive. *)

\* Mutant: a completed operation wakes only those that are ready.
Due_ready(done, completed) ==
  {o \in Ops \ {done} : health' # "Ok" \/ Holds(o)'}

\* Mutant: a pending operation hands on nothing.
Due_completed(done, completed) ==
  {o \in Ops \ {done} : completed \/ health' # "Ok"}

\* Mutant: every poll wakes all the others.
Due_always(done, completed) == Ops \ {done}

\* notify: the other operations whose stored waiter is woken.
Due(done, completed) ==
  {o \in Ops \ {done} : completed \/ health' # "Ok" \/ Holds(o)'}

\* Mutant: the waker held is kept, whichever task it wakes.
Stored_held(o, completed) ==
  [waiters EXCEPT ![o] = IF completed THEN None
                         ELSE IF @ # None THEN @ ELSE task]

\* The waiter of a completed operation is cleared.  That of a pending one is
\* its latest poller's, whether register keeps the waker it holds or clones.
Stored(o, completed) ==
  [waiters EXCEPT ![o] = IF completed THEN None ELSE task]

\* finish: o returns Ready or Pending to its task.
finish(o, completed) ==
  LET stored == Stored(o, completed)
      due    == Due(o, completed)
      left   == IF completed THEN {o} ELSE {}
  IN  /\ waiters' = [d \in Ops |-> IF d \in due THEN None ELSE stored[d]]
      /\ pending' = [d \in Ops |-> IF d \in left THEN None ELSE pending[d]]
      /\ runnable' = (runnable \cup OpsOf({stored[d] : d \in due})) \ left
      /\ pc' = "idle" /\ op' = None /\ task' = None /\ budget' = 0
      /\ driven' = "Blocked"
      /\ UNCHANGED <<output, input, source>>

\* poll_read returns payload, all that is retained or a part of it.
ReadReady ==
  /\ pc = "finish"
  /\ op = "Read"
  /\ rx
  /\ rx' \in BOOLEAN
  /\ UNCHANGED <<health, tx, out, ack_pending, final_input>>
  /\ finish("Read", TRUE)

\* The operation returns the error of the connection.
PollError ==
  /\ pc = "finish"
  /\ op \in Ops
  /\ op = "Read" => ~ rx
  /\ health # "Ok"
  /\ health' = "Reported"
  /\ UNCHANGED <<tx, out, ack_pending, rx, final_input>>
  /\ finish(op, TRUE)

\* The sequence numbers are used up.
WriteExhausted ==
  /\ pc = "finish"
  /\ op = "Write"
  /\ health = "Ok"
  /\ write_ready
  /\ health' = "Reported"
  /\ final_input' = -1
  /\ UNCHANGED <<tx, out, ack_pending, rx>>
  /\ finish("Write", TRUE)

\* queue_packet takes the packet, and drives again unless drive yielded.
AcceptPacket ==
  /\ pc = "finish"
  /\ op = "Write"
  /\ health = "Ok"
  /\ write_ready
  /\ tx' = "Queued"
  /\ UNCHANGED <<health, out, ack_pending, rx, final_input>>
  /\ IF driven = "Yield"
     THEN finish("Write", TRUE)
     ELSE /\ op' = "Wrote"
          /\ pc' = "output"
          /\ UNCHANGED <<task, budget, output, input, driven, taskVars, source>>

WriteReady ==
  /\ pc = "finish"
  /\ op = "Wrote"
  /\ UNCHANGED protoVars
  /\ finish("Write", TRUE)

FlushReady ==
  /\ pc = "finish"
  /\ op = "Flush"
  /\ health = "Ok"
  /\ flush_ready
  /\ UNCHANGED protoVars
  /\ finish("Flush", TRUE)

PollPending ==
  /\ pc = "finish"
  /\ op \in Ops
  /\ health = "Ok"
  /\ ~ Holds(op)
  /\ UNCHANGED protoVars
  /\ finish(op, FALSE)

\* Mutant: the connection only forgets the waiter.
cancel_pending_silent(o) ==
  /\ pc = "idle"
  /\ pending[o] # None
  /\ waiters' = [waiters EXCEPT ![o] = None]
  /\ pending' = [pending EXCEPT ![o] = None]
  /\ runnable' = runnable \ {o}
  /\ UNCHANGED <<protoVars, pollVars, source>>

\* A task drops a future that is pending, and tells the connection.
cancel_pending(o) ==
  /\ pc = "idle"
  /\ pending[o] # None
  /\ waiters' = [d \in Ops |-> None]
  /\ pending' = [pending EXCEPT ![o] = None]
  /\ runnable' = (runnable \cup OpsOf({waiters[d] : d \in Ops \ {o}})) \ {o}
  /\ UNCHANGED <<protoVars, pollVars, source>>

-----------------------------------------------------------------------------
(* The executor polls what was woken; an application may poll whatever else it
   likes, from whichever task it likes. *)

Run(o) == o \in runnable /\ Begin(o, pending[o])

Call(o, t) == pending[o] = None /\ Begin(o, t)

Repoll(o, t) ==
  /\ pending[o] # None
  /\ o \notin runnable \/ t # pending[o]
  /\ Begin(o, t)

PollStep ==
  \/ OutputIdle \/ OutputYield \/ OutputPending
  \/ OutputError \/ OutputPart \/ OutputDone
  \/ InputYield \/ InputPending \/ InputError \/ InputFrames
  \/ TimerBlocked \/ TimerPending \/ TimerExpires \/ Retransmit \/ GiveUp
  \/ ReadReady \/ PollError \/ WriteExhausted \/ AcceptPacket \/ WriteReady
  \/ FlushReady \/ PollPending

Next ==
  \/ PollStep
  \/ \E s \in Sources : Event(s)
  \/ \E o \in Ops : Run(o)
  \/ \E o \in Ops : cancel_pending(o)
  \/ \E o \in Ops, t \in Tasks : Call(o, t) \/ Repoll(o, t)

Spec == Init /\ [][Next]_vars

\* A poll that was started returns, the executor polls each woken operation,
\* and time passes.  Nothing is assumed of the transport.
Fairness ==
  /\ WF_vars(PollStep)
  /\ \A o \in Ops : SF_vars(Run(o))
  /\ WF_vars(Event("Timer"))

FairSpec == Spec /\ Fairness

-----------------------------------------------------------------------------
(* Properties *)

WakeupsTypeOK ==
  /\ health \in {"Ok", "Failed", "Reported"}
  /\ tx \in {"Idle", "Queued", "Sending", "Waiting"}
  /\ out \in {"Idle", "Ack", "Data"}
  /\ ack_pending \in BOOLEAN /\ rx \in BOOLEAN
  /\ final_input \in -1 .. FinalInput
  /\ waiters \in [Ops -> Tasks \cup {None}]
  /\ pc \in {"idle", "output", "input", "timer", "finish"}
  /\ op \in Ops \cup {"Wrote", None}
  /\ task \in Tasks \cup {None}
  /\ budget \in 0 .. StepBudget
  /\ {output, input, driven} \subseteq {"Blocked", "Progress", "Yield"}
  /\ source \in [Sources -> Tasks \cup {Ready, None}]
  /\ pending \in [Ops -> Tasks \cup {None}]
  /\ runnable \in SUBSET Ops

Awaited == {o \in Ops : pending[o] # None}

\* A source will wake a task that polls the connection again.
Armed(s) == \E o \in Awaited : source[s] = pending[o]

\* When operations are pending and none of their tasks was woken, nothing can
\* be done and everything that could change that will wake one of them: no
\* operation is ready, no failure is to be reported, and every source the
\* connection waits on holds the waker of a task that still awaits something,
\* although other tasks polled it, completed, moved or were canceled since.
NoLostWakeup ==
  pc = "idle" /\ Awaited # {} /\ runnable = {} =>
    /\ health = "Ok"
    /\ \A o \in Awaited : ~ Holds(o)
    /\ Armed("Input")
    /\ ~ ack_pending \/ out # "Idle"
    /\ out = "Idle" => tx # "Queued"
    /\ out # "Idle" => Armed("Output")
    /\ tx = "Waiting" => Armed("Timer") /\ final_input = -1

\* The waiters stored are those of the operations that are pending and were not
\* woken since their latest poll: no operation is forgotten by notify, and no
\* task is woken for one that was completed or dropped.
WaitersAreThePending ==
  pc = "idle" => \A o \in Ops :
    /\ o \in Awaited \ runnable => waiters[o] = pending[o]
    /\ waiters[o] # None => o \in Awaited

\* A read or a write that can make progress, or report a failure, returns,
\* though only those are polled that were woken.
ReadyIsServed ==
  \A o \in Ops \ {"Flush", "Progress"} :
    o \in Awaited /\ (health # "Ok" \/ Holds(o)) ~> o \notin Awaited

\* Retransmission needs no poll but those the timer causes: while an operation
\* is pending a packet does not wait for its acknowledgment for ever.
DeadlineIsSeen == tx = "Waiting" ~> tx # "Waiting" \/ Awaited = {} \/ health # "Ok"

Outside ==
  \/ \E s \in Sources : Event(s)
  \/ \E o \in Ops : cancel_pending(o)
  \/ \E o \in Ops, t \in Tasks : Call(o, t) \/ Repoll(o, t)
  \/ OutputPart \/ OutputDone \/ OutputError \/ InputFrames \/ InputError

\* Tasks do not keep each other awake: if polls go on for ever, so do calls,
\* cancellations, or sources that answer Ready.
Quiescence == []<><<PollStep>>_vars => []<><<Outside>>_vars
=============================================================================
