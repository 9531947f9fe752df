---------------------------- MODULE Wakeups_proofs ----------------------------
(***************************************************************************)
(* Theorems about Wakeups: no wakeup is lost and no waiter is forgotten,   *)
(* for any number of tasks and any set of operations.                      *)
(*                                                                         *)
(* The argument follows the operation that is being polled.  Behind each   *)
(* call of a source that had nothing to do, either the source still holds  *)
(* the waker of the task that polls, or that task was woken since and the  *)
(* operation is runnable.  A drive that ends without Yield has passed all  *)
(* the sources the connection waits on, and everything else that could be  *)
(* done was done.                                                          *)
(***************************************************************************)
EXTENDS Wakeups, TLAPS

\* The operation that the poll in progress is for.
Polled == IF op = "Wrote" THEN "Write" ELSE op

\* The source will wake the task that polls, or has done so.
WillWake(s) == source[s] = task \/ Polled \in runnable

\* The poll in progress is by the task that awaits its operation.
Polling ==
  pc # "idle" => /\ Polled \in Ops
                 /\ task \in Tasks
                 /\ pending[Polled] = task

\* poll_output left nothing undone.
OutputWaits ==
  /\ ~ ack_pending \/ out # "Idle"
  /\ out = "Idle" => tx # "Queued"
  /\ out # "Idle" => WillWake("Output")

\* What is known at each point of drive once a source was passed in vain.
Driving ==
  /\ pc = "input" /\ output = "Blocked" => OutputWaits
  /\ pc = "timer" /\ output = "Blocked" /\ input = "Blocked" =>
       OutputWaits /\ WillWake("Input")
  /\ pc = "finish" /\ health = "Ok" =>
       IF driven = "Yield" THEN Polled \in runnable
       ELSE /\ OutputWaits
            /\ WillWake("Input")
            /\ tx = "Waiting" => WillWake("Timer") /\ final_input = -1

\* An operation that is pending has its task's waker stored or was woken, but
\* for the one that is being polled; and only pending operations have waiters.
Waiting ==
  \A o \in Ops :
    /\ o \in Awaited \ runnable /\ (pc = "idle" \/ o # Polled) =>
         waiters[o] = pending[o]
    /\ waiters[o] # None => o \in Awaited

IInv == WakeupsTypeOK /\ Polling /\ Driving /\ Waiting /\ NoLostWakeup

-----------------------------------------------------------------------------
\* Tasks and operations are none of the other values.
LEMMA Names ==
  /\ None \notin Tasks /\ Ready \notin Tasks /\ None # Ready
  /\ None \notin Ops /\ "Wrote" \notin Ops
  /\ \A o \in Ops : PolledBy[o] \subseteq Tasks
  /\ StepBudget \in Nat /\ FinalInput \in Nat /\ FinalInput >= 1
BY WakeupsAssumption, TasksAssumption DEF WakeupsAssumption, TasksAssumption, None, Ready

LEMMA OpsWoken == \A tasks : OpsOf(tasks) \subseteq Ops
BY DEF OpsOf

LEMMA InitIInv == Init => IInv
<1> SUFFICES ASSUME Init PROVE IInv
  OBVIOUS
<1>1. WakeupsTypeOK
  <2>1. -1 \in -1 .. FinalInput /\ 0 \in 0 .. StepBudget
    BY Names
  <2> QED BY <2>1 DEF Init, WakeupsTypeOK, None
<1>2. Polling /\ Driving /\ Waiting /\ NoLostWakeup
  BY DEF Init, Polling, Driving, Waiting, NoLostWakeup, Awaited
<1> QED BY <1>1, <1>2 DEF IInv

-----------------------------------------------------------------------------
(* Types *)

LEMMA OutputTypes ==
  ASSUME WakeupsTypeOK,
         OutputIdle \/ OutputYield \/ OutputPending \/ OutputError
           \/ OutputPart \/ OutputDone
  PROVE  WakeupsTypeOK'
<1> USE Names DEF WakeupsTypeOK, None, Ready, Sources
<1>1. Frame \in {"Idle", "Ack", "Data"}
  BY DEF Frame
<1>2. Select => /\ out' \in {"Idle", "Ack", "Data"} /\ ack_pending' \in BOOLEAN
                /\ tx' \in {"Idle", "Queued", "Sending", "Waiting"}
  BY <1>1 DEF Select
<1>3. Spend => budget' \in 0 .. StepBudget
  BY DEF Spend
<1>4. \A s \in Sources : Park(s) \/ Serve(s) =>
                           source' \in [Sources -> Tasks \cup {Ready, None}]
  BY DEF Park, Serve
<1>5. CASE OutputIdle
  BY <1>5 DEF OutputIdle, protoVars, taskVars
<1>6. CASE OutputYield
  BY <1>2, <1>6 DEF OutputYield, taskVars
<1>7. CASE OutputPending
  BY <1>2, <1>3, <1>4, <1>7 DEF OutputPending, taskVars
<1>8. CASE OutputError
  BY <1>2, <1>3, <1>4, <1>8 DEF OutputError, taskVars, FailDrive
<1>9. CASE OutputPart
  BY <1>2, <1>3, <1>4, <1>9 DEF OutputPart, taskVars
<1>10. CASE OutputDone
  BY <1>3, <1>10 DEF OutputDone, taskVars
<1> QED BY <1>5, <1>6, <1>7, <1>8, <1>9, <1>10

LEMMA InputTypes ==
  ASSUME WakeupsTypeOK, InputYield \/ InputPending \/ InputError \/ InputFrames
  PROVE  WakeupsTypeOK'
<1> USE Names DEF WakeupsTypeOK, None, Ready, Sources
<1>1. Spend => budget' \in 0 .. StepBudget
  BY DEF Spend
<1>2. Park("Input") \/ Serve("Input") =>
        source' \in [Sources -> Tasks \cup {Ready, None}]
  BY DEF Park, Serve
<1>3. CASE InputYield
  BY <1>3 DEF InputYield, protoVars, taskVars
<1>4. CASE InputPending
  BY <1>1, <1>2, <1>4 DEF InputPending, protoVars, taskVars
<1>5. CASE InputError
  BY <1>1, <1>2, <1>5 DEF InputError, taskVars, FailDrive
<1>6. CASE InputFrames
  <2>1. PICK ack \in BOOLEAN, next \in BOOLEAN, again \in BOOLEAN :
           /\ tx' = IF ack THEN "Idle" ELSE tx
           /\ final_input' = CASE ack -> -1
                               [] ~ ack /\ final_input > 0 -> final_input - 1
                               [] OTHER -> final_input
           /\ rx' = (rx \/ next)
           /\ ack_pending' = (ack_pending \/ next \/ again)
    BY <1>6 DEF InputFrames
  <2>2. final_input' \in -1 .. FinalInput
    BY <2>1
  <2>3. tx' \in {"Idle", "Queued", "Sending", "Waiting"}
        /\ rx' \in BOOLEAN /\ ack_pending' \in BOOLEAN
    BY <2>1
  <2> QED BY <1>1, <1>2, <1>6, <2>2, <2>3 DEF InputFrames, taskVars
<1> QED BY <1>3, <1>4, <1>5, <1>6

LEMMA TimerTypes ==
  ASSUME WakeupsTypeOK,
         TimerBlocked \/ TimerPending \/ TimerExpires \/ Retransmit \/ GiveUp
  PROVE  WakeupsTypeOK'
<1> USE Names DEF WakeupsTypeOK, None, Ready, Sources
<1>1. ASSUME NEW timer, EndStep(timer)
      PROVE  /\ pc' \in {"output", "finish"} /\ runnable' \in SUBSET Ops
             /\ {output', input', driven'} \subseteq {"Blocked", "Progress", "Yield"}
  BY <1>1, OpsWoken DEF EndStep, Wake
<1>2. CASE TimerBlocked
  BY <1>1, <1>2 DEF TimerBlocked, protoVars
<1>3. CASE TimerPending
  BY <1>1, <1>3 DEF TimerPending, protoVars, Park
<1>4. CASE TimerExpires
  BY <1>1, <1>4 DEF TimerExpires
<1>5. CASE Retransmit
  BY <1>1, <1>5 DEF Retransmit
<1>6. CASE GiveUp
  BY <1>6 DEF GiveUp, FailDrive, taskVars
<1> QED BY <1>2, <1>3, <1>4, <1>5, <1>6

\* A poll that returns leaves the waiters, and the tasks it wakes, in range.
LEMMA FinishTypes ==
  ASSUME WakeupsTypeOK, NEW o \in Ops, NEW completed \in BOOLEAN,
         finish(o, completed),
         health' \in {"Ok", "Failed", "Reported"},
         tx' \in {"Idle", "Queued", "Sending", "Waiting"},
         out' = out, ack_pending' = ack_pending, rx' \in BOOLEAN,
         final_input' \in -1 .. FinalInput
  PROVE  WakeupsTypeOK'
<1>1. Stored(o, completed) \in [Ops -> Tasks \cup {None}]
  BY DEF Stored, WakeupsTypeOK
<1>2. /\ waiters' \in [Ops -> Tasks \cup {None}]
      /\ pending' \in [Ops -> Tasks \cup {None}]
  BY <1>1 DEF finish, WakeupsTypeOK
<1>3. runnable' \in SUBSET Ops
  BY OpsWoken DEF finish, WakeupsTypeOK
<1>4. /\ pc' = "idle" /\ op' = None /\ task' = None /\ budget' = 0
      /\ driven' = "Blocked" /\ UNCHANGED <<output, input, source>>
  BY DEF finish
<1> QED BY <1>2, <1>3, <1>4, Names DEF WakeupsTypeOK

LEMMA ReturnTypes ==
  ASSUME WakeupsTypeOK,
         ReadReady \/ PollError \/ WriteExhausted \/ AcceptPacket
           \/ WriteReady \/ FlushReady \/ PollPending,
         Polling
  PROVE  WakeupsTypeOK'
<1>1. /\ health \in {"Ok", "Failed", "Reported"} /\ rx \in BOOLEAN
      /\ tx \in {"Idle", "Queued", "Sending", "Waiting"}
      /\ final_input \in -1 .. FinalInput /\ -1 \in -1 .. FinalInput
      /\ Polled \in Ops \/ pc = "idle"
  BY Names DEF WakeupsTypeOK, Polling
<1>2. CASE ReadReady
  BY <1>1, <1>2, FinishTypes DEF ReadReady, Polled
<1>3. CASE PollError
  BY <1>1, <1>3, FinishTypes DEF PollError
<1>4. CASE WriteExhausted
  BY <1>1, <1>4, FinishTypes DEF WriteExhausted, Polled
<1>5. CASE AcceptPacket
  <2>1. CASE driven = "Yield"
    BY <1>1, <1>5, <2>1, FinishTypes DEF AcceptPacket, Polled
  <2>2. CASE driven # "Yield"
    BY <1>5, <2>2 DEF AcceptPacket, taskVars, WakeupsTypeOK
  <2> QED BY <2>1, <2>2
<1>6. CASE WriteReady
  BY <1>1, <1>6, FinishTypes DEF WriteReady, Polled, protoVars
<1>7. CASE FlushReady
  BY <1>1, <1>7, FinishTypes DEF FlushReady, Polled, protoVars
<1>8. CASE PollPending
  BY <1>1, <1>8, FinishTypes DEF PollPending, protoVars
<1> QED BY <1>2, <1>3, <1>4, <1>5, <1>6, <1>7, <1>8

LEMMA OutsideTypes ==
  ASSUME WakeupsTypeOK
  PROVE  /\ \A s \in Sources : Event(s) => WakeupsTypeOK'
         /\ \A o \in Ops : cancel_pending(o) => WakeupsTypeOK'
         /\ \A o \in Ops : \A t : Begin(o, t) => WakeupsTypeOK'
<1>1. ASSUME NEW s \in Sources, Event(s) PROVE WakeupsTypeOK'
  BY <1>1, OpsWoken DEF Event, Wake, WakeupsTypeOK, protoVars, pollVars
<1>2. ASSUME NEW o \in Ops, cancel_pending(o) PROVE WakeupsTypeOK'
  <2>1. waiters' \in [Ops -> Tasks \cup {None}]
        /\ pending' \in [Ops -> Tasks \cup {None}]
    BY <1>2 DEF cancel_pending, WakeupsTypeOK
  <2>2. runnable' \in SUBSET Ops
    BY <1>2, OpsWoken DEF cancel_pending, WakeupsTypeOK
  <2> QED BY <1>2, <2>1, <2>2 DEF cancel_pending, WakeupsTypeOK, protoVars, pollVars
<1>3. ASSUME NEW o \in Ops, NEW t, Begin(o, t) PROVE WakeupsTypeOK'
  <2>1. t \in Tasks
    BY <1>3, Names DEF Begin
  <2>2. pending' \in [Ops -> Tasks \cup {None}] /\ budget' \in 0 .. StepBudget
    BY <1>3, <2>1, Names DEF Begin, WakeupsTypeOK
  <2>3. runnable' \in SUBSET Ops
    BY <1>3 DEF Begin, WakeupsTypeOK
  <2>4. pc' \in {"output", "finish"}
    BY <1>3 DEF Begin
  <2> QED BY <1>3, <2>1, <2>2, <2>3, <2>4 DEF Begin, WakeupsTypeOK, protoVars
<1> QED BY <1>1, <1>2, <1>3

-----------------------------------------------------------------------------
(* Steps *)

\* The calls that drive makes.
DriveStep ==
  \/ OutputIdle \/ OutputYield \/ OutputPending
  \/ OutputError \/ OutputPart \/ OutputDone
  \/ InputYield \/ InputPending \/ InputError \/ InputFrames
  \/ TimerBlocked \/ TimerPending \/ TimerExpires \/ Retransmit \/ GiveUp

\* drive touches neither waiters nor what is awaited, and only adds to what was
\* woken.
LEMMA DriveLeaves ==
  ASSUME DriveStep
  PROVE  /\ pc # "idle" /\ pc' # "idle"
         /\ UNCHANGED <<op, task, waiters, pending>>
         /\ runnable \subseteq runnable'
<1> USE DEF taskVars
<1>1. CASE OutputIdle \/ OutputYield \/ OutputPending
  BY <1>1 DEF OutputIdle, OutputYield, OutputPending
<1>2. CASE OutputError \/ OutputPart \/ OutputDone
  BY <1>2 DEF OutputError, OutputPart, OutputDone, FailDrive
<1>3. CASE InputYield \/ InputPending \/ InputError \/ InputFrames
  BY <1>3 DEF InputYield, InputPending, InputError, InputFrames, FailDrive
<1>4. \A timer : EndStep(timer) =>
         pc' \in {"output", "finish"} /\ runnable \subseteq runnable'
  BY DEF EndStep, Wake
<1>5. CASE TimerBlocked \/ TimerPending \/ TimerExpires \/ Retransmit
  BY <1>4, <1>5 DEF TimerBlocked, TimerPending, TimerExpires, Retransmit, Verdict
<1>6. CASE GiveUp
  BY <1>6 DEF GiveUp, Verdict, FailDrive
<1> QED BY <1>1, <1>2, <1>3, <1>5, <1>6 DEF DriveStep

LEMMA DriveKeepsWaiting ==
  ASSUME IInv, DriveStep
  PROVE  Polling' /\ Waiting' /\ NoLostWakeup' /\ Polled' = Polled
<1>1. /\ pc # "idle" /\ pc' # "idle"
      /\ UNCHANGED <<op, task, waiters, pending>>
      /\ runnable \subseteq runnable'
  BY DriveLeaves
<1>2. Polled' = Polled
  BY <1>1 DEF Polled
<1> QED BY <1>1, <1>2 DEF IInv, Polling, Waiting, NoLostWakeup, Awaited

\* poll_output registers the task, unless it has nothing to send.
LEMMA OutputKeeps ==
  ASSUME IInv,
         OutputIdle \/ OutputYield \/ OutputPending \/ OutputError
           \/ OutputPart \/ OutputDone
  PROVE  Driving'
<1>1. CASE OutputIdle
  BY <1>1 DEF OutputIdle, Driving, OutputWaits, Frame, protoVars, IInv,
              WakeupsTypeOK
<1>2. CASE OutputYield
  BY <1>2 DEF OutputYield, Driving
<1>3. CASE OutputPending
  <2>1. Frame \in {"Ack", "Data"} /\ out' = Frame /\ output' = "Blocked"
        /\ pc' = "input" /\ ack_pending' = (ack_pending /\ out # "Idle")
    BY <1>3 DEF OutputPending, Select, Frame, IInv, WakeupsTypeOK
  <2>2. source'["Output"] = task'
    BY <1>3 DEF OutputPending, Park, Sources, IInv, WakeupsTypeOK
  <2> QED BY <2>1, <2>2 DEF Driving, OutputWaits, WillWake
<1>4. CASE OutputError
  BY <1>4 DEF OutputError, FailDrive, Driving
<1>5. CASE OutputPart
  BY <1>5 DEF OutputPart, Driving
<1>6. CASE OutputDone
  BY <1>6 DEF OutputDone, Driving
<1> QED BY <1>1, <1>2, <1>3, <1>4, <1>5, <1>6

\* poll_input registers the task, or makes progress.
LEMMA InputKeeps ==
  ASSUME IInv, InputYield \/ InputPending \/ InputError \/ InputFrames
  PROVE  Driving'
<1>1. CASE InputYield
  BY <1>1 DEF InputYield, Driving
<1>2. CASE InputPending
  <2>1. /\ pc = "input" /\ pc' = "timer" /\ input' = "Blocked"
        /\ output' = output /\ op' = op /\ task' = task
        /\ UNCHANGED <<ack_pending, out, tx, runnable>>
        /\ source'["Input"] = task /\ source'["Output"] = source["Output"]
    BY <1>2 DEF InputPending, Park, Sources, IInv, WakeupsTypeOK, protoVars,
                taskVars
  <2>2. output = "Blocked" => OutputWaits
    BY <2>1 DEF IInv, Driving
  <2>3. output = "Blocked" => OutputWaits'
    BY <2>1, <2>2 DEF OutputWaits, WillWake, Polled
  <2>4. WillWake("Input")'
    BY <2>1 DEF WillWake
  <2> QED BY <2>1, <2>3, <2>4 DEF Driving
<1>3. CASE InputError
  BY <1>3 DEF InputError, FailDrive, Driving
<1>4. CASE InputFrames
  BY <1>4 DEF InputFrames, Driving
<1> QED BY <1>1, <1>2, <1>3, <1>4

\* At the end of a step the task is woken, or there is another step, or all
\* sources the connection waits on have it registered.
LEMMA EndStepKeeps ==
  ASSUME IInv, pc = "timer", NEW timer \in {"Blocked", "Progress"},
         EndStep(timer), UNCHANGED <<ack_pending, out, op, task, pending>>,
         timer = "Blocked" =>
           /\ tx' = tx
           /\ source'["Output"] = source["Output"]
           /\ source'["Input"] = source["Input"]
           /\ input = "Blocked" /\ tx = "Waiting" =>
                source'["Timer"] = task /\ final_input' = -1
  PROVE  Driving'
<1>1. Polled' = Polled
  BY DEF Polled
<1>2. CASE "Yield" \in {output, input, timer}
  <2>1. driven' = "Yield" /\ pc' = "finish" /\ Wake({task})
    BY <1>2 DEF EndStep
  <2>2. Polled \in OpsOf({task})
    BY Names DEF OpsOf, IInv, Polling
  <2> QED BY <1>1, <2>1, <2>2 DEF Driving, Wake
<1>3. CASE /\ "Yield" \notin {output, input, timer}
           /\ "Progress" \in {output, input, timer}
  BY <1>3 DEF EndStep, Driving
<1>4. CASE {output, input, timer} \cap {"Yield", "Progress"} = {}
  <2>1. output = "Blocked" /\ input = "Blocked" /\ timer = "Blocked"
    BY <1>4 DEF IInv, WakeupsTypeOK
  <2>2. pc' = "finish" /\ driven' = "Blocked" /\ runnable' = runnable
    BY <1>4 DEF EndStep
  <2>3. OutputWaits /\ WillWake("Input")
    BY <2>1 DEF IInv, Driving
  <2>4. OutputWaits' /\ WillWake("Input")'
    BY <1>1, <2>1, <2>2, <2>3 DEF OutputWaits, WillWake
  <2>5. tx' = "Waiting" => WillWake("Timer")' /\ final_input' = -1
    BY <2>1 DEF WillWake
  <2> QED BY <2>2, <2>4, <2>5 DEF Driving
<1> QED BY <1>2, <1>3, <1>4

LEMMA TimerKeeps ==
  ASSUME IInv,
         TimerBlocked \/ TimerPending \/ TimerExpires \/ Retransmit \/ GiveUp
  PROVE  Driving'
<1>1. CASE TimerBlocked
  <2>1. ~ (input = "Blocked" /\ tx = "Waiting")
    BY <1>1 DEF TimerBlocked
  <2> QED BY <1>1, <2>1, EndStepKeeps DEF TimerBlocked, protoVars
<1>2. CASE TimerPending
  <2>1. /\ source'["Timer"] = task
        /\ source'["Input"] = source["Input"] /\ source'["Output"] = source["Output"]
    BY <1>2 DEF TimerPending, Park, Sources, IInv, WakeupsTypeOK
  <2> QED BY <1>2, <2>1, EndStepKeeps DEF TimerPending, protoVars
<1>3. CASE TimerExpires
  BY <1>3, EndStepKeeps DEF TimerExpires
<1>4. CASE Retransmit
  BY <1>4, EndStepKeeps DEF Retransmit, Verdict
<1>5. CASE GiveUp
  BY <1>5 DEF GiveUp, FailDrive, Driving
<1> QED BY <1>1, <1>2, <1>3, <1>4, <1>5

\* finish wakes the tasks of all operations that are due, and keeps the waiter
\* of each operation that still is awaited by a sleeping task.
LEMMA FinishKeeps ==
  ASSUME IInv, pc # "idle", NEW o \in Ops, o = Polled, NEW completed \in BOOLEAN,
         finish(o, completed)
  PROVE  /\ Polling' /\ Driving' /\ Waiting'
         /\ \A d \in Due(o, completed) : d \in Awaited' => d \in runnable'
         /\ completed => o \notin Awaited'
         /\ ~ completed => /\ runnable \subseteq runnable'
                           /\ o \in Awaited' /\ pending'[o] = task
<1> DEFINE stored == Stored(o, completed)
           due == Due(o, completed)
           left == IF completed THEN {o} ELSE {}
<1>1. /\ waiters' = [d \in Ops |-> IF d \in due THEN None ELSE stored[d]]
      /\ pending' = [d \in Ops |-> IF d \in left THEN None ELSE pending[d]]
      /\ runnable' = (runnable \cup OpsOf({stored[d] : d \in due})) \ left
      /\ pc' = "idle"
  BY DEF finish
<1>2. stored[o] = IF completed THEN None ELSE task
  BY DEF Stored, IInv, WakeupsTypeOK
<1>3. \A d \in Ops \ {o} : stored[d] = waiters[d]
  BY DEF Stored, IInv, WakeupsTypeOK
<1>4. o \notin due /\ due \subseteq Ops
  BY DEF Due
<1>5. pending[o] = task /\ task # None
  BY Names DEF IInv, Polling
<1> HIDE DEF stored, due
<1>6. ASSUME NEW d \in due, d \in Awaited'
      PROVE  d \in runnable'
  <2>1. d \in Ops \ {o} /\ pending'[d] # None
    BY <1>4, <1>6 DEF Awaited
  <2>2. d \in Awaited /\ d \notin left
    BY <1>1, <2>1 DEF Awaited
  <2>3. CASE d \in runnable
    BY <1>1, <2>2, <2>3
  <2>4. CASE d \notin runnable
    <3>1. waiters[d] = pending[d]
      BY <2>1, <2>2, <2>4 DEF IInv, Waiting
    <3>2. d \in OpsOf({stored[e] : e \in due})
      BY <1>3, <1>6, <2>1, <2>2, <3>1 DEF OpsOf, Awaited
    <3> QED BY <1>1, <2>2, <3>2
  <2> QED BY <2>3, <2>4
<1>7. completed => o \notin Awaited'
  BY <1>1 DEF Awaited
<1>8. ~ completed => /\ runnable \subseteq runnable'
                     /\ o \in Awaited' /\ pending'[o] = task
  BY <1>1, <1>5 DEF Awaited
<1>9. Waiting'
  <2> SUFFICES ASSUME NEW d \in Ops
      PROVE  /\ d \in Awaited' \ runnable' => waiters'[d] = pending'[d]
             /\ waiters'[d] # None => d \in Awaited'
    BY DEF Waiting
  <2>1. CASE d = o
    BY <1>1, <1>2, <1>4, <1>5, <2>1 DEF Awaited
  <2>2. CASE d # o
    <3>1. pending'[d] = pending[d] /\ (d \in Awaited' <=> d \in Awaited)
      BY <1>1, <2>2 DEF Awaited
    <3>2. CASE d \in due
      BY <1>1, <1>6, <3>2
    <3>3. CASE d \notin due
      <4>1. waiters'[d] = waiters[d]
        BY <1>1, <1>3, <2>2, <3>3
      <4>2. d \notin runnable' => d \notin runnable
        BY <1>1, <2>2
      <4> QED BY <2>2, <3>1, <4>1, <4>2 DEF IInv, Waiting
    <3> QED BY <3>2, <3>3
  <2> QED BY <2>1, <2>2
<1> QED BY <1>1, <1>6, <1>7, <1>8, <1>9 DEF Polling, Driving, due

\* An operation that returns Ready wakes every task that still waits.
LEMMA CompletedKeeps ==
  ASSUME IInv, pc # "idle", NEW o \in Ops, o = Polled, finish(o, TRUE)
  PROVE  Polling' /\ Driving' /\ Waiting' /\ NoLostWakeup'
<1>1. Polling' /\ Driving' /\ Waiting' /\ o \notin Awaited'
  BY FinishKeeps
<1>2. \A d \in Due(o, TRUE) : d \in Awaited' => d \in runnable'
  BY FinishKeeps
<1>3. Due(o, TRUE) = Ops \ {o}
  BY DEF Due
<1>4. Awaited' \subseteq runnable'
  BY <1>1, <1>2, <1>3 DEF Awaited
<1>5. NoLostWakeup'
  BY <1>4 DEF NoLostWakeup
<1> QED BY <1>1, <1>5

\* An operation that returns Pending to a task that sleeps is registered with
\* every source, and no other operation could go on.
LEMMA PendingKeeps ==
  ASSUME IInv, PollPending
  PROVE  Polling' /\ Driving' /\ Waiting' /\ NoLostWakeup'
<1>1. /\ pc = "finish" /\ op \in Ops /\ health = "Ok" /\ ~ Holds(op)
      /\ UNCHANGED <<health, tx, out, ack_pending, rx, final_input>>
      /\ finish(op, FALSE)
  BY DEF PollPending, protoVars
<1>2. op = Polled
  BY <1>1, Names DEF Polled
<1>3. Polling' /\ Driving' /\ Waiting' /\ runnable \subseteq runnable'
      /\ op \in Awaited' /\ pending'[op] = task
  BY <1>1, <1>2, FinishKeeps
<1>4. \A d \in Due(op, FALSE) : d \in Awaited' => d \in runnable'
  BY <1>1, <1>2, FinishKeeps
<1>5. ASSUME runnable' = {} PROVE \A d \in Awaited' : ~ Holds(d)'
  <2> TAKE d \in Awaited'
  <2>1. d \in Ops
    BY DEF Awaited
  <2>2. CASE d = op
    BY <1>1, <2>2 DEF Holds, write_ready, flush_ready
  <2>3. CASE d # op
    <3>1. d \notin Due(op, FALSE)
      BY <1>4, <1>5
    <3> QED BY <2>1, <2>3, <3>1 DEF Due
  <2> QED BY <2>2, <2>3
<1>6. ASSUME runnable' = {}
      PROVE  /\ OutputWaits /\ WillWake("Input")
             /\ tx = "Waiting" => WillWake("Timer") /\ final_input = -1
             /\ Polled \notin runnable
  <2>1. Polled \notin runnable
    BY <1>3, <1>6
  <2> QED BY <1>1, <2>1 DEF IInv, Driving
<1>7. ASSUME NEW s, WillWake(s), Polled \notin runnable PROVE Armed(s)'
  <2>1. source'[s] = task
    BY <1>1, <1>7 DEF WillWake, finish
  <2> QED BY <1>3, <2>1 DEF Armed
<1>8. NoLostWakeup'
  <2> SUFFICES ASSUME runnable' = {}
      PROVE  /\ health' = "Ok"
             /\ \A d \in Awaited' : ~ Holds(d)'
             /\ Armed("Input")'
             /\ ~ ack_pending' \/ out' # "Idle"
             /\ out' = "Idle" => tx' # "Queued"
             /\ out' # "Idle" => Armed("Output")'
             /\ tx' = "Waiting" => Armed("Timer")' /\ final_input' = -1
    BY DEF NoLostWakeup
  <2> QED BY <1>1, <1>5, <1>6, <1>7 DEF OutputWaits
<1> QED BY <1>3, <1>8

LEMMA ReturnKeeps ==
  ASSUME IInv,
         ReadReady \/ PollError \/ WriteExhausted \/ AcceptPacket
           \/ WriteReady \/ FlushReady \/ PollPending
  PROVE  Polling' /\ Driving' /\ Waiting' /\ NoLostWakeup'
<1>1. pc = "finish" /\ pc # "idle" /\ Polled \in Ops
  BY DEF ReadReady, PollError, WriteExhausted, AcceptPacket, WriteReady,
         FlushReady, PollPending, IInv, Polling
<1>2. CASE ReadReady
  BY <1>1, <1>2, CompletedKeeps DEF ReadReady, Polled
<1>3. CASE PollError
  BY <1>1, <1>3, CompletedKeeps, Names DEF PollError, Polled
<1>4. CASE WriteExhausted
  BY <1>1, <1>4, CompletedKeeps DEF WriteExhausted, Polled
<1>5. CASE AcceptPacket
  <2>1. CASE driven = "Yield"
    BY <1>1, <1>5, <2>1, CompletedKeeps DEF AcceptPacket, Polled
  <2>2. CASE driven # "Yield"
    <3>1. /\ pc' = "output" /\ op = "Write" /\ op' = "Wrote"
          /\ UNCHANGED <<task, waiters, pending, runnable>>
      BY <1>5, <2>2 DEF AcceptPacket, taskVars
    <3>2. Polled' = Polled
      BY <3>1 DEF Polled
    <3> QED BY <1>1, <3>1, <3>2
            DEF IInv, Polling, Driving, Waiting, NoLostWakeup, Awaited
  <2> QED BY <2>1, <2>2
<1>6. CASE WriteReady
  BY <1>1, <1>6, CompletedKeeps DEF WriteReady, Polled
<1>7. CASE FlushReady
  BY <1>1, <1>7, CompletedKeeps DEF FlushReady, Polled
<1>8. CASE PollPending
  BY <1>8, PendingKeeps
<1> QED BY <1>2, <1>3, <1>4, <1>5, <1>6, <1>7, <1>8

\* An event wakes the task that the connection counted on.
LEMMA EventKeeps ==
  ASSUME IInv, NEW s \in Sources, Event(s)
  PROVE  Polling' /\ Driving' /\ Waiting' /\ NoLostWakeup'
<1>1. /\ source' = [source EXCEPT ![s] = Ready]
      /\ runnable' = runnable \cup OpsOf({source[s]})
      /\ UNCHANGED <<health, tx, out, ack_pending, rx, final_input, pc, op,
                     task, output, input, driven, waiters, pending>>
  BY DEF Event, Wake, protoVars, pollVars
<1>2. Polled' = Polled /\ Awaited' = Awaited
  BY <1>1 DEF Polled, Awaited
<1>3. Polling' /\ Waiting'
  BY <1>1, <1>2 DEF IInv, Polling, Waiting
<1>4. \A q \in Sources \ {s} : source'[q] = source[q]
  BY <1>1 DEF IInv, WakeupsTypeOK
<1>5. ASSUME pc # "idle", NEW q \in Sources, WillWake(q) PROVE WillWake(q)'
  <2>1. CASE Polled \in runnable
    BY <1>1, <1>2, <2>1 DEF WillWake
  <2>2. CASE q # s
    BY <1>1, <1>2, <1>4, <1>5, <2>2 DEF WillWake
  <2>3. CASE Polled \notin runnable /\ q = s
    <3>1. source[s] = task /\ Polled \in Ops /\ pending[Polled] = task
          /\ task # None
      BY <1>5, <2>3, Names DEF WillWake, IInv, Polling
    <3>2. Polled \in runnable'
      BY <1>1, <3>1 DEF OpsOf
    <3> QED BY <1>2, <3>2 DEF WillWake
  <2> QED BY <2>1, <2>2, <2>3
<1>6. Driving'
  <2>1. pc # "idle" => (OutputWaits => OutputWaits')
    BY <1>1, <1>5 DEF OutputWaits, Sources
  <2>2. pc # "idle" => (WillWake("Input") => WillWake("Input")')
                       /\ (WillWake("Timer") => WillWake("Timer")')
    BY <1>5 DEF Sources
  <2>3. Polled \in runnable => Polled' \in runnable'
    BY <1>1, <1>2
  <2> QED BY <1>1, <2>1, <2>2, <2>3 DEF IInv, Driving
<1>7. NoLostWakeup'
  <2> SUFFICES ASSUME pc = "idle", Awaited # {}, runnable' = {}
      PROVE  NoLostWakeup'
    BY <1>1, <1>2 DEF NoLostWakeup
  <2>1. runnable = {} /\ OpsOf({source[s]}) = {}
    BY <1>1
  <2>2. ~ Armed(s)
    BY <2>1 DEF Armed, OpsOf, Awaited
  <2>3. \A q \in Sources : Armed(q) => Armed(q)'
    BY <1>1, <1>2, <1>4, <2>2 DEF Armed
  <2>4. \A o \in Ops : Holds(o)' = Holds(o)
    BY <1>1 DEF Holds, write_ready, flush_ready
  <2> QED BY <1>1, <1>2, <2>1, <2>3, <2>4
          DEF IInv, NoLostWakeup, Sources, Awaited
<1> QED BY <1>3, <1>6, <1>7

\* Dropping a future wakes all the others that are asleep.
LEMMA CancelKeeps ==
  ASSUME IInv, NEW o \in Ops, cancel_pending(o)
  PROVE  Polling' /\ Driving' /\ Waiting' /\ NoLostWakeup'
<1>1. /\ pc = "idle" /\ pc' = "idle"
      /\ waiters' = [d \in Ops |-> None]
      /\ pending' = [pending EXCEPT ![o] = None]
      /\ runnable' = (runnable \cup OpsOf({waiters[d] : d \in Ops \ {o}})) \ {o}
  BY DEF cancel_pending, pollVars
<1>2. ASSUME NEW d \in Awaited' PROVE d \in runnable'
  <2>1. d \in Ops \ {o} /\ d \in Awaited
    BY <1>1 DEF Awaited, IInv, WakeupsTypeOK
  <2>2. CASE d \in runnable
    BY <1>1, <2>1, <2>2
  <2>3. CASE d \notin runnable
    <3>1. waiters[d] = pending[d] /\ pending[d] # None
      BY <1>1, <2>1, <2>3 DEF IInv, Waiting, Awaited
    <3> QED BY <1>1, <2>1, <3>1 DEF OpsOf
  <2> QED BY <2>2, <2>3
<1> QED BY <1>1, <1>2 DEF Polling, Driving, Waiting, NoLostWakeup

\* A poll that starts is by the task that awaits the operation from now on.
LEMMA BeginKeeps ==
  ASSUME IInv, NEW o \in Ops, NEW t, Begin(o, t)
  PROVE  Polling' /\ Driving' /\ Waiting' /\ NoLostWakeup'
<1>1. /\ pc = "idle" /\ t \in Tasks /\ t # None /\ op' = o /\ task' = t
      /\ pending' = [pending EXCEPT ![o] = t]
      /\ runnable' = runnable \ {o}
      /\ pc' = IF health = "Ok" THEN "output" ELSE "finish"
      /\ health' = health /\ waiters' = waiters
  BY Names DEF Begin, protoVars
<1>2. Polled' = o
  BY <1>1, Names DEF Polled
<1>3. pending'[o] = t /\ \A d \in Ops \ {o} : pending'[d] = pending[d]
  BY <1>1 DEF IInv, WakeupsTypeOK
<1>4. Polling' /\ Driving' /\ NoLostWakeup'
  BY <1>1, <1>2, <1>3 DEF Polling, Driving, NoLostWakeup
<1>5. Waiting'
  <2> SUFFICES ASSUME NEW d \in Ops
      PROVE  /\ d \in Awaited' \ runnable' /\ d # o => waiters'[d] = pending'[d]
             /\ waiters'[d] # None => d \in Awaited'
    BY <1>1, <1>2 DEF Waiting
  <2> QED BY <1>1, <1>3 DEF IInv, Waiting, Awaited
<1> QED BY <1>4, <1>5

-----------------------------------------------------------------------------
(* The theorems *)

LEMMA NextIInv == IInv /\ [Next]_vars => IInv'
<1> SUFFICES ASSUME IInv, [Next]_vars PROVE IInv'
  OBVIOUS
<1> USE DEF IInv
<1>1. CASE OutputIdle \/ OutputYield \/ OutputPending \/ OutputError
             \/ OutputPart \/ OutputDone
  BY <1>1, OutputTypes, OutputKeeps, DriveKeepsWaiting DEF DriveStep
<1>2. CASE InputYield \/ InputPending \/ InputError \/ InputFrames
  BY <1>2, InputTypes, InputKeeps, DriveKeepsWaiting DEF DriveStep
<1>3. CASE TimerBlocked \/ TimerPending \/ TimerExpires \/ Retransmit \/ GiveUp
  BY <1>3, TimerTypes, TimerKeeps, DriveKeepsWaiting DEF DriveStep
<1>4. CASE ReadReady \/ PollError \/ WriteExhausted \/ AcceptPacket
             \/ WriteReady \/ FlushReady \/ PollPending
  BY <1>4, ReturnTypes, ReturnKeeps
<1>5. ASSUME NEW s \in Sources, Event(s) PROVE IInv'
  BY <1>5, OutsideTypes, EventKeeps
<1>6. ASSUME NEW o \in Ops, cancel_pending(o) PROVE IInv'
  BY <1>6, OutsideTypes, CancelKeeps
<1>7. ASSUME NEW o \in Ops, NEW t, Begin(o, t) PROVE IInv'
  BY <1>7, OutsideTypes, BeginKeeps
<1>8. CASE UNCHANGED vars
  <2> USE <1>8 DEF vars, protoVars, pollVars, taskVars, Awaited
  <2>1. WakeupsTypeOK' /\ Polled' = Polled /\ Awaited' = Awaited
    BY DEF WakeupsTypeOK, Polled
  <2>2. Polling' /\ Waiting'
    BY <2>1 DEF Polling, Waiting
  <2>3. Driving'
    BY <2>1 DEF Driving, OutputWaits, WillWake
  <2>4. \A o \in Ops : Holds(o)' = Holds(o)
    BY DEF Holds, write_ready, flush_ready
  <2>5. NoLostWakeup'
    BY <2>1, <2>4 DEF NoLostWakeup, Armed
  <2> QED BY <2>1, <2>2, <2>3, <2>5
<1> QED BY <1>1, <1>2, <1>3, <1>4, <1>5, <1>6, <1>7, <1>8
        DEF Next, PollStep, Run, Call, Repoll

LEMMA Inductive == Spec => []IInv
BY InitIInv, NextIInv, PTL DEF Spec

\* In connection.rs the stored wakers and the poll in progress have the values
\* their types promise, and the step budget never runs below zero.
THEOREM WakeupsTypes == Spec => []WakeupsTypeOK
<1>1. IInv => WakeupsTypeOK
  BY DEF IInv
<1> QED BY <1>1, Inductive, PTL

\* finish, notify and cancel_pending keep the waiter of each operation that
\* sleeps, and none of an operation that completed or was dropped.
THEOREM NoWaiterForgotten == Spec => []WaitersAreThePending
<1>1. IInv => WaitersAreThePending
  BY DEF IInv, Waiting, WaitersAreThePending
<1> QED BY <1>1, Inductive, PTL

\* When all tasks that await an operation sleep, drive left nothing undone, no
\* operation is ready, and each source the connection waits on holds the waker
\* of one of them.
THEOREM NoWakeupLost == Spec => []NoLostWakeup
<1>1. IInv => NoLostWakeup
  BY DEF IInv
<1> QED BY <1>1, Inductive, PTL
=============================================================================
