------------------------- MODULE Reliable_poll_proofs -------------------------
(***************************************************************************)
(* Proofs of what the polls of a connection in Reliable do and leave       *)
(* behind, for every value of the constants: frames stay whole, retries    *)
(* are spent before a timeout, a failed connection is inert, no poll that  *)
(* ends Blocked leaves work behind, and no acknowledgment is dropped.      *)
(*                                                                         *)
(* These properties are about one connection, so the invariant is a        *)
(* conjunction of predicates of a peer p, over variables that only the     *)
(* steps of p change.                                                      *)
(***************************************************************************)
EXTENDS Reliable_proofs

\* What is in the buffer of a frame that is being sent, and that the packet is
\* in its buffer as long as it is wanted or being sent.
BuffersFilled(p) ==
  /\ out[p].at # "Writing" => out[p].offset = 0
  /\ out[p].at # "Idle" => out[p].frame \in {"Ack", "Data"}
  /\ out[p].at # "Idle" /\ out[p].frame = "Ack" =>
       ack_frame[p] = encode_ack(p, ack_frame[p].seq)
  /\ tx[p] # "Idle" \/ data_out_busy(p) => tx_frame[p].kind = "Data"

\* The link holds the units of the frame that Out::Writing counts.
Unaltered(p) ==
  /\ \A i \in 1 .. Len(wire[p]) : wire[p][i] = Buffer(p)
  /\ Len(wire[p]) = out[p].offset

\* A transmission of the packet has begun and is not complete.
Unsent(p) == IF out[p].at = "Writing" /\ out[p].frame = "Data" THEN 1 ELSE 0

\* What tx_retries says about the transmissions, in each state of the packet.
\* A packet may be released in the middle of its last retransmission.
Counted(p) ==
  /\ tx[p] = "Idle" => sends[p] + Unsent(p) <= MaxRetries + 1
  /\ tx[p] \in {"Queued", "Waiting"} => ~ data_out_busy(p)
  /\ tx[p] = "Queued" => sends[p] = tx_retries[p]
  /\ tx[p] = "Sending" =>
       data_out_busy(p) /\ sends[p] + Unsent(p) = tx_retries[p] + 1
  /\ tx[p] = "Waiting" => sends[p] = tx_retries[p] + 1
  /\ health[p] = "Timeout" => sends[p] = MaxRetries + 1

\* drive does not run on a failed connection.
Stopped(p) == health[p] # "Ok" => pc[p] \in {"idle", "finish"}

\* poll_output left nothing to do while the output is idle.
OutputDone(p) == out[p].at = "Idle" => ack_pending[p] = None /\ tx[p] # "Queued"

\* What is known at each point of drive once poll_output and poll_input had
\* nothing to do, and after a drive that ended Blocked.
Driving(p) ==
  /\ final_input[p] # None => tx[p] = "Waiting"
  /\ pc[p] = "send" => out[p].at # "Idle"
  /\ pc[p] = "process" => input[p] = "Progress"
  /\ pc[p] = "input" /\ output[p] = "Blocked" => OutputDone(p)
  /\ pc[p] = "timer" /\ output[p] = "Blocked" /\ input[p] = "Blocked" =>
       OutputDone(p)
  /\ pc[p] \in {"finish", "idle"} /\ health[p] = "Ok" /\ driven[p] = "Blocked" =>
       OutputDone(p) /\ final_input[p] = None

ByPeer(p) == BuffersFilled(p) /\ Unaltered(p) /\ Counted(p) /\ Stopped(p) /\ Driving(p)

\* The frames in flight are whole.
Whole == \A p \in Peers : \A i \in 1 .. Len(chan[p]) : chan[p][i].kind \in {"Data", "Ack"}

PollInv == (\A p \in Peers : ByPeer(p)) /\ Whole

-----------------------------------------------------------------------------
\* The state of one connection.
Connection(p) == <<health[p], tx[p], tx_frame[p], tx_retries[p], final_input[p],
                   out[p], ack_pending[p], ack_frame[p], wire[p], pc[p],
                   output[p], input[p], driven[p], sends[p]>>

\* Further fields that only the polls of their connection change.
Fields(p) == <<tx_next[p], rx_buf[p], rx_next[p], accepted[p], op[p], budget[p]>>

Begin(p) == \E o \in Ops[p] : BeginPoll(p, o)

\* Failing a connection changes nothing of the other one.
LEMMA FailElsewhere ==
  ASSUME TypeOK, NEW p \in Peers, NEW q \in Peers, q # p, NEW error,
         FailDrive(p, error)
  PROVE  UNCHANGED <<health[q], final_input[q], pc[q], output[q], input[q],
                     driven[q]>>
<1>1. /\ health \in [Peers -> {"Ok", "Reported"} \cup Errors]
      /\ final_input \in [Peers -> {None} \cup 0 .. FinalInput]
      /\ pc \in [Peers -> Labels] /\ output \in [Peers -> Works]
      /\ input \in [Peers -> Works] /\ driven \in [Peers -> Works]
  BY DEF TypeOK
<1>2. UNCHANGED <<health[q], final_input[q]>>
  BY <1>1 DEF FailDrive, fail
<1>3. UNCHANGED <<pc[q], output[q], input[q], driven[q]>>
  BY <1>1 DEF FailDrive, Goto
<1> QED
  BY <1>2, <1>3

LEMMA BeginElsewhere ==
  ASSUME TypeOK, NEW p \in Peers, NEW q \in Peers, q # p, Begin(p)
  PROVE  UNCHANGED Connection(q) /\ UNCHANGED Fields(q)
  BY DEF Begin, BeginPoll, TypeOK, Connection, Fields, txVars, outVars, rxVars,
         histVars, Goto

LEMMA OutputElsewhere ==
  ASSUME TypeOK, NEW p \in Peers, NEW q \in Peers, q # p, poll_output(p)
  PROVE  UNCHANGED Connection(q) /\ UNCHANGED Fields(q)
<1> USE DEF TypeOK, Connection, Fields, txVars, outVars, rxVars, histVars, Goto
<1>1. CASE OutputIdle(p) \/ OutputYield(p) \/ OutputPending(p)
  <2>1. CASE OutputIdle(p)
    BY <2>1 DEF OutputIdle
  <2>2. CASE OutputYield(p)
    BY <2>2 DEF OutputYield
  <2>3. CASE OutputPending(p)
    BY <2>3 DEF OutputPending, Spend
  <2> QED
    BY <1>1, <2>1, <2>2, <2>3
<1>2. CASE StartAck(p) \/ StartData(p)
  BY <1>2 DEF StartAck, StartData
<1>3. CASE OutputError(p)
  BY <1>3, FailElsewhere DEF OutputError, Spend
<1>4. CASE WritePart(p)
  <2>1. UNCHANGED <<wire[q], out[q]>>
    BY <1>4 DEF WritePart
  <2>2. UNCHANGED <<pc[q], output[q]>>
    BY <1>4 DEF WritePart
  <2>3. UNCHANGED budget[q]
    BY <1>4 DEF WritePart, Spend
  <2> QED
    BY <1>4, <2>1, <2>2, <2>3 DEF WritePart
<1>5. CASE WriteRest(p)
  <2>1. UNCHANGED <<wire[q], out[q], sends[q]>>
    BY <1>5 DEF WriteRest
  <2>2. UNCHANGED <<pc[q], output[q]>>
    BY <1>5 DEF WriteRest
  <2>3. UNCHANGED budget[q]
    BY <1>5 DEF WriteRest, Spend
  <2> QED
    BY <1>5, <2>1, <2>2, <2>3 DEF WriteRest
<1>6. CASE FlushDone(p)
  <2>1. UNCHANGED <<tx[q], final_input[q], out[q]>>
    <3>1. CASE out[p].frame = "Data" /\ tx[p] = "Sending"
      BY <1>6, <3>1 DEF FlushDone
    <3>2. CASE ~ (out[p].frame = "Data" /\ tx[p] = "Sending")
      BY <1>6, <3>2 DEF FlushDone
    <3> QED
      BY <3>1, <3>2
  <2>2. UNCHANGED pc[q]
    BY <1>6 DEF FlushDone
  <2>3. UNCHANGED output[q]
    BY <1>6 DEF FlushDone
  <2>4. UNCHANGED budget[q]
    BY <1>6 DEF FlushDone, Spend
  <2> QED
    BY <1>6, <2>1, <2>2, <2>3, <2>4 DEF FlushDone
<1> QED
  BY <1>1, <1>2, <1>3, <1>4, <1>5, <1>6 DEF poll_output

LEMMA InputElsewhere ==
  ASSUME TypeOK, NEW p \in Peers, NEW q \in Peers, q # p, poll_input(p)
  PROVE  UNCHANGED Connection(q) /\ UNCHANGED Fields(q)
<1> USE DEF TypeOK, Connection, Fields, txVars, outVars, rxVars, histVars, Goto
<1>1. CASE InputYield(p) \/ InputPending(p)
  <2>1. CASE InputYield(p)
    BY <2>1 DEF InputYield
  <2>2. CASE InputPending(p)
    BY <2>2 DEF InputPending, Spend
  <2> QED
    BY <1>1, <2>1, <2>2
<1>2. CASE InputError(p)
  BY <1>2, FailElsewhere DEF InputError, Spend
<1>3. ASSUME NEW frames, TakeInput(p, frames)
      PROVE  UNCHANGED Connection(q) /\ UNCHANGED Fields(q)
  <2>1. UNCHANGED <<final_input[q], rx_buf[q]>>
    BY <1>3 DEF TakeInput
  <2>2. UNCHANGED <<pc[q], input[q]>>
    BY <1>3 DEF TakeInput
  <2>3. UNCHANGED budget[q]
    BY <1>3 DEF TakeInput, Spend
  <2> QED
    BY <1>3, <2>1, <2>2, <2>3 DEF TakeInput
<1> QED
  BY <1>1, <1>2, <1>3 DEF poll_input, ReadFrames, ReadNoise, ReadForeign

LEMMA ProcessElsewhere ==
  ASSUME TypeOK, NEW p \in Peers, NEW q \in Peers, q # p, process_frame(p)
  PROVE  UNCHANGED Connection(q) /\ UNCHANGED Fields(q)
<1> USE DEF TypeOK, Connection, Fields, outVars, rxVars, histVars, Goto, NextFrame
<1>1. CASE ReleasePacket(p)
  BY <1>1 DEF ReleasePacket
<1>2. CASE RetainPayload(p)
  BY <1>2 DEF RetainPayload
<1>3. CASE AckAgain(p)
  BY <1>3 DEF AckAgain
<1>4. CASE IgnoreFrame(p)
  BY <1>4 DEF IgnoreFrame
<1> QED
  BY <1>1, <1>2, <1>3, <1>4 DEF process_frame

LEMMA TimerElsewhere ==
  ASSUME TypeOK, NEW p \in Peers, NEW q \in Peers, q # p, poll_timer(p)
  PROVE  UNCHANGED Connection(q) /\ UNCHANGED Fields(q)
<1> USE DEF TypeOK, Connection, Fields, outVars, rxVars, histVars, Goto, TimerKeeps
<1>1. ASSUME NEW timer, EndStep(p, timer)
      PROVE  UNCHANGED <<pc[q], output[q], input[q], driven[q]>>
  BY <1>1 DEF EndStep
<1>2. CASE TimerBlocked(p)
  BY <1>1, <1>2 DEF TimerBlocked
<1>3. CASE TimerExpires(p)
  BY <1>1, <1>3 DEF TimerExpires
<1>4. CASE Retransmit(p)
  BY <1>1, <1>4 DEF Retransmit
<1>5. CASE GiveUp(p)
  BY <1>5, FailElsewhere DEF GiveUp
<1> QED
  BY <1>2, <1>3, <1>4, <1>5 DEF poll_timer

LEMMA FinishElsewhere ==
  ASSUME TypeOK, NEW p \in Peers, NEW q \in Peers, q # p, finish(p)
  PROVE  UNCHANGED Connection(q) /\ UNCHANGED Fields(q)
<1> USE DEF TypeOK, Connection, Fields, txVars, outVars, histVars, Goto, Return,
            FinishKeeps
<1>1. CASE ReadReady(p) \/ PollError(p) \/ WriteReady(p)
  BY <1>1 DEF ReadReady, PollError, WriteReady
<1>2. CASE WriteExhausted(p)
  BY <1>2 DEF WriteExhausted
<1>3. CASE AcceptPacket(p)
  <2>1. UNCHANGED <<tx_frame[q], accepted[q], tx_next[q]>>
    <3>1. PICK payload \in Seq(Byte) :
            /\ tx_next' = [tx_next EXCEPT ![p] = @ + 1]
            /\ tx_frame' = [tx_frame EXCEPT ![p] = encode_data(p, tx_next[p], payload)]
            /\ accepted' = [accepted EXCEPT ![p] = @ \o payload]
      BY <1>3, AcceptIs
    <3> QED
      BY <3>1
  <2>2. pc' = [pc EXCEPT ![p] = "idle"] \/ pc' = [pc EXCEPT ![p] = "output"]
    BY <1>3 DEF AcceptPacket
  <2>3. UNCHANGED <<tx[q], tx_retries[q], sends[q]>>
    <3>1. /\ tx' = [tx EXCEPT ![p] = "Queued"]
          /\ tx_retries' = [tx_retries EXCEPT ![p] = 0]
          /\ sends' = [sends EXCEPT ![p] = 0]
      BY <1>3 DEF AcceptPacket
    <3> QED
      BY <3>1
  <2>4. UNCHANGED pc[q]
    BY <2>2
  <2>5. UNCHANGED <<op[q], budget[q]>>
    <3>1. CASE driven[p] = "Yield"
      BY <1>3, <3>1 DEF AcceptPacket
    <3>2. CASE driven[p] # "Yield"
      BY <1>3, <3>2 DEF AcceptPacket
    <3> QED
      BY <3>1, <3>2
  <2> QED
    BY <1>3, <2>1, <2>3, <2>4, <2>5 DEF AcceptPacket
<1>4. CASE FlushReady(p) \/ PollPending(p)
  BY <1>4 DEF FlushReady, PollPending
<1> QED
  BY <1>1, <1>2, <1>3, <1>4 DEF finish

\* The link and the clock change no connection.
LEMMA WorldElsewhere ==
  ASSUME NEW p \in Peers, NEW q \in Peers, Lose(p) \/ Elapse(p)
  PROVE  UNCHANGED Connection(q) /\ UNCHANGED Fields(q)
  BY DEF Lose, Elapse, Connection, Fields, txVars, outVars, rxVars, pollVars,
         histVars

\* A step of a peer, its link or its clock changes nothing of the other one.
LEMMA Elsewhere ==
  ASSUME TypeOK, NEW p \in Peers, NEW q \in Peers, q # p,
         Begin(p) \/ Poll(p) \/ Lose(p) \/ Elapse(p)
  PROVE  UNCHANGED Connection(q) /\ UNCHANGED Fields(q)
  BY BeginElsewhere, OutputElsewhere, InputElsewhere, ProcessElsewhere,
     TimerElsewhere, FinishElsewhere, WorldElsewhere DEF Poll

-----------------------------------------------------------------------------
(* The frames a connection sends, and the transmissions it counts *)

SenderOK(p) == BuffersFilled(p) /\ Unaltered(p) /\ Counted(p)

\* What the three are about.
Sender(p) == <<tx[p], tx_frame[p], tx_retries[p], sends[p], out[p], ack_frame[p],
               wire[p]>>

LEMMA SenderKept ==
  ASSUME NEW p \in Peers, SenderOK(p), UNCHANGED Sender(p),
         health'[p] = "Timeout" => health[p] = "Timeout" \/ sends[p] = MaxRetries + 1
  PROVE  SenderOK(p)'
<1>1. /\ tx'[p] = tx[p] /\ tx_frame'[p] = tx_frame[p]
      /\ tx_retries'[p] = tx_retries[p] /\ sends'[p] = sends[p]
      /\ out'[p] = out[p] /\ ack_frame'[p] = ack_frame[p] /\ wire'[p] = wire[p]
  BY DEF Sender
<1>2. BuffersFilled(p)'
  BY <1>1 DEF SenderOK, BuffersFilled, data_out_busy
<1>3. Unaltered(p)'
  BY <1>1 DEF SenderOK, Unaltered, Buffer
<1>4. Counted(p)'
  BY <1>1 DEF SenderOK, Counted, data_out_busy, Unsent
<1> QED
  BY <1>2, <1>3, <1>4 DEF SenderOK

\* poll_output with nothing accepted, poll_input, most of process_frame and of
\* poll_timer, and the polls that neither fail nor accept a packet.
LEMMA QuietFrames ==
  ASSUME TypeOK, NEW p \in Peers, SenderOK(p),
         \/ Begin(p)
         \/ OutputIdle(p) \/ OutputYield(p) \/ OutputPending(p)
         \/ InputYield(p) \/ InputPending(p)
         \/ ReadFrames(p) \/ ReadNoise(p) \/ ReadForeign(p)
         \/ RetainPayload(p) \/ AckAgain(p) \/ IgnoreFrame(p)
         \/ TimerBlocked(p) \/ TimerExpires(p)
         \/ ReadReady(p) \/ WriteReady(p) \/ FlushReady(p) \/ PollPending(p)
  PROVE  SenderOK(p)'
<1> USE DEF Sender, txVars, outVars, rxVars, histVars
<1>1. UNCHANGED health /\ UNCHANGED Sender(p)
  <2>1. CASE Begin(p) \/ OutputIdle(p) \/ OutputYield(p) \/ OutputPending(p)
    BY <2>1 DEF Begin, BeginPoll, OutputIdle, OutputYield, OutputPending
  <2>2. CASE InputYield(p) \/ InputPending(p) \/ ReadFrames(p) \/ ReadNoise(p)
               \/ ReadForeign(p)
    BY <2>2 DEF InputYield, InputPending, ReadFrames, ReadNoise, ReadForeign,
                TakeInput
  <2>3. CASE RetainPayload(p) \/ AckAgain(p) \/ IgnoreFrame(p)
    BY <2>3 DEF RetainPayload, AckAgain, IgnoreFrame, NextFrame
  <2>4. CASE TimerBlocked(p) \/ TimerExpires(p)
    BY <2>4 DEF TimerBlocked, TimerExpires, TimerKeeps
  <2>5. CASE ReadReady(p) \/ WriteReady(p) \/ FlushReady(p) \/ PollPending(p)
    BY <2>5 DEF ReadReady, WriteReady, FlushReady, PollPending, FinishKeeps
  <2> QED
    BY <2>1, <2>2, <2>3, <2>4, <2>5
<1>2. health'[p] = health[p]
  BY <1>1
<1> QED
  BY <1>1, <1>2, SenderKept

\* A connection fails with Timeout only in poll_timer.
LEMMA FailureFrames ==
  ASSUME TypeOK, NEW p \in Peers, SenderOK(p),
         \/ OutputError(p) \/ InputError(p) \/ PollError(p) \/ WriteExhausted(p)
         \/ GiveUp(p)
  PROVE  SenderOK(p)'
<1> USE DEF Sender, outVars, rxVars, histVars
<1>1. health \in [Peers -> {"Ok", "Reported"} \cup Errors]
  BY DEF TypeOK
<1>2. CASE OutputError(p) \/ InputError(p)
  <2>1. PICK error \in LinkErrors : FailDrive(p, error)
    BY <1>2 DEF OutputError, InputError
  <2>2. health'[p] = IF health[p] = "Ok" THEN error ELSE health[p]
    BY <1>1, <2>1 DEF FailDrive, fail
  <2>3. error # "Timeout"
    BY InputAssumption
  <2>4. UNCHANGED Sender(p)
    BY <1>2 DEF OutputError, InputError
  <2> QED
    BY <2>2, <2>3, <2>4, SenderKept
<1>3. CASE PollError(p) \/ WriteExhausted(p)
  <2>1. health'[p] = "Reported"
    BY <1>1, <1>3 DEF PollError, WriteExhausted
  <2>2. UNCHANGED Sender(p)
    BY <1>3 DEF PollError, WriteExhausted, FinishKeeps, txVars
  <2> QED
    BY <2>1, <2>2, SenderKept
<1>4. CASE GiveUp(p)
  <2>1. tx[p] = "Waiting" /\ ~ (tx_retries[p] < MaxRetries)
    BY <1>4 DEF GiveUp, AllowanceOver, RetriesLeft
  <2>2. tx_retries[p] \in 0 .. MaxRetries /\ MaxRetries \in Nat
    BY ConfigAssumption DEF TypeOK
  <2>3. sends[p] = MaxRetries + 1
    BY <2>1, <2>2 DEF SenderOK, Counted
  <2>4. UNCHANGED Sender(p)
    BY <1>4 DEF GiveUp, TimerKeeps
  <2> QED
    BY <2>3, <2>4, SenderKept
<1> QED
  BY <1>2, <1>3, <1>4

\* An acknowledgment releases the packet in the middle of anything; the frame
\* buffer and its transmission are left alone.
LEMMA ReleaseFrames ==
  ASSUME TypeOK, NEW p \in Peers, SenderOK(p), ReleasePacket(p)
  PROVE  SenderOK(p)'
<1>1. /\ tx[p] # "Idle" /\ tx'[p] = "Idle" /\ tx_retries'[p] = 0
      /\ tx_frame'[p] = tx_frame[p] /\ sends'[p] = sends[p]
      /\ out'[p] = out[p] /\ ack_frame'[p] = ack_frame[p]
      /\ wire'[p] = wire[p] /\ health'[p] = health[p]
  BY DEF ReleasePacket, NextFrame, AckMatches, TypeOK, outVars, histVars
<1>2. /\ tx[p] \in {"Idle", "Queued", "Sending", "Waiting"}
      /\ tx_retries[p] \in 0 .. MaxRetries /\ MaxRetries \in Nat
      /\ sends[p] \in Nat
  BY ConfigAssumption DEF TypeOK
<1>3. BuffersFilled(p)'
  BY <1>1 DEF SenderOK, BuffersFilled, data_out_busy
<1>4. Unaltered(p)'
  BY <1>1 DEF SenderOK, Unaltered, Buffer
<1>5. sends[p] + Unsent(p) <= MaxRetries + 1
  BY <1>1, <1>2 DEF SenderOK, Counted, data_out_busy, Unsent
<1>6. Counted(p)'
  BY <1>1, <1>5 DEF SenderOK, Counted, Unsent
<1> QED
  BY <1>3, <1>4, <1>6 DEF SenderOK

\* The packet is queued again after its flush is complete.
LEMMA RetransmitFrames ==
  ASSUME TypeOK, NEW p \in Peers, SenderOK(p), Retransmit(p)
  PROVE  SenderOK(p)'
<1>1. /\ tx[p] = "Waiting" /\ tx'[p] = "Queued"
      /\ tx_retries'[p] = tx_retries[p] + 1
      /\ tx_frame'[p] = tx_frame[p] /\ sends'[p] = sends[p]
      /\ out'[p] = out[p] /\ ack_frame'[p] = ack_frame[p]
      /\ wire'[p] = wire[p] /\ health'[p] = health[p]
  BY DEF Retransmit, AllowanceOver, TimerKeeps, TypeOK, outVars, histVars
<1>2. BuffersFilled(p)'
  BY <1>1 DEF SenderOK, BuffersFilled, data_out_busy
<1>3. Unaltered(p)'
  BY <1>1 DEF SenderOK, Unaltered, Buffer
<1>4. Counted(p)'
  BY <1>1 DEF SenderOK, Counted, data_out_busy
<1> QED
  BY <1>2, <1>3, <1>4 DEF SenderOK

\* queue_packet refills the frame buffer only when it is not being written.
LEMMA AcceptFrames ==
  ASSUME TypeOK, NEW p \in Peers, SenderOK(p), AcceptPacket(p)
  PROVE  SenderOK(p)'
<1>1. PICK payload \in Seq(Byte) :
        tx_frame' = [tx_frame EXCEPT ![p] = encode_data(p, tx_next[p], payload)]
  BY AcceptIs
<1>2. tx_frame'[p].kind = "Data"
  BY <1>1 DEF TypeOK, encode_data
<1>3. /\ tx[p] = "Idle" /\ ~ data_out_busy(p)
      /\ tx'[p] = "Queued" /\ tx_retries'[p] = 0 /\ sends'[p] = 0
      /\ out'[p] = out[p] /\ ack_frame'[p] = ack_frame[p]
      /\ wire'[p] = wire[p] /\ health'[p] = health[p] /\ health[p] = "Ok"
  BY DEF AcceptPacket, write_ready, FinishKeeps, TypeOK, outVars
<1>4. BuffersFilled(p)'
  BY <1>2, <1>3 DEF SenderOK, BuffersFilled, data_out_busy
<1>5. Unaltered(p)'
  <2>1. CASE out[p].frame = "Ack"
    BY <1>3, <2>1 DEF SenderOK, Unaltered, Buffer
  <2>2. CASE out[p].frame # "Ack"
    <3>1. out[p].at = "Idle"
      BY <1>3, <2>2 DEF SenderOK, BuffersFilled, data_out_busy
    <3>2. Len(wire[p]) = 0
      BY <3>1 DEF SenderOK, BuffersFilled, Unaltered
    <3> QED
      BY <1>3, <3>2 DEF SenderOK, Unaltered
  <2> QED
    BY <2>1, <2>2
<1>6. Counted(p)'
  BY <1>3 DEF SenderOK, Counted, data_out_busy
<1> QED
  BY <1>4, <1>5, <1>6 DEF SenderOK

\* A frame is selected only when the output is idle and the link holds no part
\* of another one.
LEMMA StartFrames ==
  ASSUME TypeOK, NEW p \in Peers, SenderOK(p), StartAck(p) \/ StartData(p)
  PROVE  SenderOK(p)'
<1>1. out[p].at = "Idle" /\ Len(wire[p]) = 0 /\ ~ data_out_busy(p)
  BY DEF StartAck, StartData, SenderOK, BuffersFilled, Unaltered, data_out_busy
<1>2. /\ tx_frame'[p] = tx_frame[p] /\ tx_retries'[p] = tx_retries[p]
      /\ wire'[p] = wire[p] /\ sends'[p] = sends[p] /\ health'[p] = health[p]
      /\ out'[p].at = "Writing" /\ out'[p].offset = 0
  BY DEF StartAck, StartData, TypeOK, txVars, histVars
<1>3. CASE StartAck(p)
  <2>1. /\ out'[p].frame = "Ack" /\ tx'[p] = tx[p]
        /\ ack_frame'[p] = encode_ack(p, ack_frame'[p].seq)
    BY <1>3 DEF StartAck, encode_ack, TypeOK, txVars
  <2>2. BuffersFilled(p)' /\ Unaltered(p)'
    BY <1>1, <1>2, <2>1 DEF SenderOK, BuffersFilled, Unaltered, data_out_busy
  <2>3. tx[p] # "Sending"
    BY <1>1 DEF SenderOK, Counted
  <2>4. sends[p] \in Nat /\ Unsent(p) = 0 /\ Unsent(p)' = 0
    BY <1>1, <2>1 DEF TypeOK, Unsent
  <2>5. Counted(p)'
    BY <1>2, <2>1, <2>3, <2>4 DEF SenderOK, Counted, data_out_busy
  <2> QED
    BY <2>2, <2>5 DEF SenderOK
<1>4. CASE StartData(p)
  <2>1. /\ out'[p].frame = "Data" /\ tx[p] = "Queued" /\ tx'[p] = "Sending"
        /\ ack_frame'[p] = ack_frame[p]
    BY <1>4 DEF StartData, TypeOK
  <2>2. BuffersFilled(p)' /\ Unaltered(p)'
    BY <1>1, <1>2, <2>1 DEF SenderOK, BuffersFilled, Unaltered, data_out_busy
  <2>3. Unsent(p)' = 1
    BY <1>2, <2>1 DEF Unsent
  <2>4. Counted(p)'
    BY <1>2, <2>1, <2>3 DEF SenderOK, Counted, data_out_busy
  <2> QED
    BY <2>2, <2>4 DEF SenderOK
<1> QED
  BY <1>3, <1>4

\* What a partial write adds is of the same buffer.
LEMMA PartFrames ==
  ASSUME TypeOK, NEW p \in Peers, SenderOK(p), WritePart(p)
  PROVE  SenderOK(p)'
<1>1. PICK n \in 1 .. FrameLen(p) - out[p].offset - 1 :
        /\ wire' = [wire EXCEPT ![p] = Units(p, n)]
        /\ out' = [out EXCEPT ![p] = [at |-> "Writing", frame |-> @.frame,
                                     offset |-> @.offset + n]]
  BY DEF WritePart
<1>2. n \in Nat \ {0}
  OBVIOUS
<1>3. /\ wire[p] \in Seq(Frames) /\ out[p].offset \in Nat
      /\ wire'[p] = Units(p, n)
      /\ out'[p].at = "Writing" /\ out'[p].frame = out[p].frame
      /\ out'[p].offset = out[p].offset + n
  BY <1>1 DEF TypeOK
<1>4. /\ out[p].at = "Writing"
      /\ tx'[p] = tx[p] /\ tx_frame'[p] = tx_frame[p]
      /\ tx_retries'[p] = tx_retries[p] /\ sends'[p] = sends[p]
      /\ ack_frame'[p] = ack_frame[p] /\ health'[p] = health[p]
  BY DEF WritePart, txVars, histVars
<1>5. Len(Units(p, n)) = Len(wire[p]) + n
  <2>1. [i \in 1 .. n |-> Buffer(p)] \in Seq({Buffer(p)})
        /\ Len([i \in 1 .. n |-> Buffer(p)]) = n
    BY <1>2
  <2> QED
    BY <1>3, <2>1, ConcatProperties DEF Units
<1>6. Buffer(p)' = Buffer(p)
  BY <1>3, <1>4 DEF Buffer
<1>7. Unaltered(p)'
  <2>1. \A i \in 1 .. Len(Units(p, n)) : Units(p, n)[i] = Buffer(p)
    BY <1>2, UnitsType DEF SenderOK, Unaltered
  <2> QED
    BY <1>3, <1>5, <1>6, <2>1 DEF SenderOK, Unaltered
<1>8. BuffersFilled(p)'
  BY <1>3, <1>4 DEF SenderOK, BuffersFilled, data_out_busy
<1>9. Counted(p)'
  BY <1>3, <1>4 DEF SenderOK, Counted, data_out_busy, Unsent
<1> QED
  BY <1>7, <1>8, <1>9 DEF SenderOK

\* The last part completes a frame that is one of this connection's packets.
LEMMA AssembledIs ==
  ASSUME TypeOK, HasRest, NEW p \in Peers, SenderOK(p), out[p].at = "Writing"
  PROVE  /\ Assemble(Units(p, FrameLen(p) - out[p].offset)) = Buffer(p)
         /\ Buffer(p).kind \in {"Data", "Ack"}
<1> DEFINE n == FrameLen(p) - out[p].offset
           units == Units(p, n)
<1>1. n \in Nat \ {0}
  BY AssembledType
<1>2. Len(units) > 0 /\ \A i \in 1 .. Len(units) : units[i] = Buffer(p)
  BY <1>1, UnitsType DEF SenderOK, Unaltered
<1>3. Len(units) \in Nat
  BY <1>1, UnitsType
<1> HIDE DEF units
<1>4. units[1] = Buffer(p)
  BY <1>2, <1>3
<1>5. Assemble(units) = Buffer(p)
  BY <1>2, <1>3, <1>4 DEF Assemble
<1>6. Buffer(p).kind \in {"Data", "Ack"}
  BY DEF SenderOK, BuffersFilled, Buffer, data_out_busy, encode_ack
<1> QED
  BY <1>5, <1>6 DEF units

\* The transmission that is complete is counted.
LEMMA RestFrames ==
  ASSUME TypeOK, NEW p \in Peers, SenderOK(p), Stopped(p), WriteRest(p)
  PROVE  SenderOK(p)'
<1>1. /\ out[p].at = "Writing" /\ wire'[p] = <<>>
      /\ out'[p].at = "Flushing" /\ out'[p].frame = out[p].frame
      /\ out'[p].offset = 0
      /\ sends'[p] = IF out[p].frame = "Data" THEN sends[p] + 1 ELSE sends[p]
  BY DEF WriteRest, TypeOK
<1>2. /\ tx'[p] = tx[p] /\ tx_frame'[p] = tx_frame[p]
      /\ tx_retries'[p] = tx_retries[p]
      /\ ack_frame'[p] = ack_frame[p] /\ health'[p] = health[p]
  BY DEF WriteRest, txVars
<1>3. health[p] = "Ok"
  BY DEF WriteRest, Sending, Stopped
<1>4. BuffersFilled(p)'
  BY <1>1, <1>2 DEF SenderOK, BuffersFilled, data_out_busy
<1>5. Unaltered(p)'
  BY <1>1 DEF Unaltered
<1>6. sends'[p] + Unsent(p)' = sends[p] + Unsent(p)
  BY <1>1 DEF Unsent, TypeOK
<1>7. data_out_busy(p)' <=> data_out_busy(p)
  BY <1>1 DEF data_out_busy
<1>8. ~ data_out_busy(p) => sends'[p] = sends[p]
  BY <1>1 DEF data_out_busy
<1>9. Counted(p)'
  BY <1>2, <1>3, <1>6, <1>7, <1>8 DEF SenderOK, Counted
<1> QED
  BY <1>4, <1>5, <1>9 DEF SenderOK

\* With its frame flushed the packet has been transmitted as often as it was
\* queued.
LEMMA FlushFrames ==
  ASSUME TypeOK, NEW p \in Peers, SenderOK(p), FlushDone(p)
  PROVE  SenderOK(p)'
<1>1. /\ out[p].at = "Flushing" /\ out'[p] = OutIdle
      /\ tx_frame'[p] = tx_frame[p] /\ tx_retries'[p] = tx_retries[p]
      /\ wire'[p] = wire[p] /\ ack_frame'[p] = ack_frame[p]
      /\ sends'[p] = sends[p] /\ health'[p] = health[p]
      /\ tx'[p] = IF out[p].frame = "Data" /\ tx[p] = "Sending" THEN "Waiting"
                                                              ELSE tx[p]
  BY DEF FlushDone, TypeOK, histVars
<1>2. Len(wire[p]) = 0
  BY <1>1 DEF SenderOK, BuffersFilled, Unaltered
<1>3. BuffersFilled(p)' /\ Unaltered(p)'
  BY <1>1, <1>2 DEF SenderOK, BuffersFilled, Unaltered, data_out_busy, OutIdle
<1>4. tx[p] = "Sending" <=> out[p].frame = "Data" /\ tx[p] = "Sending"
  BY DEF SenderOK, Counted, data_out_busy
<1>5. sends[p] \in Nat /\ Unsent(p) = 0 /\ Unsent(p)' = 0
  BY <1>1 DEF TypeOK, Unsent, OutIdle
<1>6. ~ data_out_busy(p)'
  BY <1>1 DEF data_out_busy, OutIdle
<1>7. Counted(p)'
  BY <1>1, <1>4, <1>5, <1>6 DEF SenderOK, Counted
<1> QED
  BY <1>3, <1>7 DEF SenderOK

\* A poll of p, and its beginning, keep the frames and the count.
LEMMA SenderStep ==
  ASSUME TypeOK, NEW p \in Peers, SenderOK(p), Stopped(p), Begin(p) \/ Poll(p)
  PROVE  SenderOK(p)'
<1>1. CASE Begin(p) \/ poll_output(p)
  BY <1>1, QuietFrames, FailureFrames, StartFrames, PartFrames, RestFrames,
     FlushFrames DEF poll_output
<1>2. CASE poll_input(p) \/ process_frame(p)
  BY <1>2, QuietFrames, FailureFrames, ReleaseFrames DEF poll_input, process_frame
<1>3. CASE poll_timer(p) \/ finish(p)
  BY <1>3, QuietFrames, FailureFrames, RetransmitFrames, AcceptFrames
     DEF poll_timer, finish
<1> QED
  BY <1>1, <1>2, <1>3 DEF Poll

-----------------------------------------------------------------------------
(* Where drive stops *)

Control(p) == Stopped(p) /\ Driving(p)

\* The labels of drive belong to a connection that has not failed.
LEMMA Healthy ==
  ASSUME NEW p \in Peers, Stopped(p),
         poll_output(p) \/ poll_input(p) \/ process_frame(p) \/ poll_timer(p)
  PROVE  health[p] = "Ok"
<1>1. pc[p] \notin {"idle", "finish"}
  BY DEF poll_output, OutputIdle, StartAck, StartData, OutputYield,
     OutputPending, OutputError, WritePart, WriteRest, FlushDone, Sending,
     poll_input, InputYield, InputPending, InputError, ReadFrames, ReadNoise,
     ReadForeign, process_frame, ReleasePacket, RetainPayload, AckAgain,
     IgnoreFrame, NextFrame, poll_timer, TimerBlocked, TimerExpires, Retransmit,
     GiveUp, AllowanceOver
<1> QED
  BY <1>1 DEF Stopped

LEMMA BeginControl ==
  ASSUME TypeOK, NEW p \in Peers, Control(p), Begin(p)
  PROVE  Control(p)'
<1>1. /\ pc'[p] = IF health[p] = "Ok" THEN "output" ELSE "finish"
      /\ health'[p] = health[p] /\ tx'[p] = tx[p]
      /\ final_input'[p] = final_input[p]
  BY DEF Begin, BeginPoll, Goto, TypeOK, txVars
<1> QED
  BY <1>1 DEF Control, Stopped, Driving

\* drive fails the connection: nothing is claimed of what it leaves.
LEMMA FailControl ==
  ASSUME TypeOK, NEW p \in Peers, NEW error \in Errors, FailDrive(p, error)
  PROVE  Control(p)'
<1>1. health \in [Peers -> {"Ok", "Reported"} \cup Errors]
      /\ final_input \in [Peers -> {None} \cup 0 .. FinalInput]
      /\ pc \in [Peers -> Labels]
  BY DEF TypeOK
<1>2. health'[p] # "Ok" /\ final_input'[p] = None
  BY <1>1 DEF FailDrive, fail, Errors
<1>3. pc'[p] = "finish"
  BY <1>1 DEF FailDrive, Goto
<1> QED
  BY <1>2, <1>3 DEF Control, Stopped, Driving

LEMMA OutputControl ==
  ASSUME TypeOK, NEW p \in Peers, Control(p), poll_output(p)
  PROVE  Control(p)'
<1> USE DEF Control
<1>1. health[p] = "Ok"
  BY Healthy
<1>2. CASE OutputIdle(p)
  <2>1. /\ pc'[p] = "input" /\ ack_pending'[p] = None /\ tx'[p] # "Queued"
        /\ health'[p] = health[p] /\ tx'[p] = tx[p]
        /\ final_input'[p] = final_input[p]
    BY <1>2 DEF OutputIdle, Goto, TypeOK, txVars
  <2> QED
    BY <1>1, <2>1 DEF Stopped, Driving, OutputDone
<1>3. CASE StartAck(p) \/ StartData(p)
  <2>1. /\ pc'[p] = "send" /\ out'[p].at = "Writing"
        /\ health'[p] = health[p] /\ final_input'[p] = final_input[p]
        /\ tx[p] = "Waiting" => tx'[p] = "Waiting"
    BY <1>3 DEF StartAck, StartData, Goto, TypeOK, txVars
  <2> QED
    BY <1>1, <2>1 DEF Stopped, Driving
<1>4. CASE OutputYield(p) \/ OutputPending(p)
  <2>1. /\ pc'[p] = "input" /\ out[p].at # "Idle" /\ out'[p] = out[p]
        /\ health'[p] = health[p] /\ final_input'[p] = final_input[p]
        /\ tx'[p] = tx[p]
    BY <1>4 DEF OutputYield, OutputPending, Sending, Driving, Goto, TypeOK,
                txVars, outVars
  <2> QED
    BY <1>1, <2>1 DEF Stopped, Driving, OutputDone
<1>5. CASE OutputError(p)
  <2>1. PICK error \in Errors : FailDrive(p, error)
    BY <1>5, InputAssumption DEF OutputError, Errors
  <2> QED
    BY <2>1, FailControl
<1>6. CASE WritePart(p) \/ WriteRest(p)
  <2>1. /\ pc'[p] = "input" /\ output'[p] = "Progress"
        /\ health'[p] = health[p] /\ final_input'[p] = final_input[p]
        /\ tx'[p] = tx[p]
    BY <1>6 DEF WritePart, WriteRest, Goto, TypeOK, txVars
  <2> QED
    BY <1>1, <2>1 DEF Stopped, Driving
<1>7. CASE FlushDone(p)
  <2>1. pc'[p] = "input" /\ output'[p] = "Progress" /\ health'[p] = health[p]
    BY <1>7 DEF FlushDone, Goto, TypeOK
  <2>2. final_input'[p] # None => tx'[p] = "Waiting"
    BY <1>7 DEF FlushDone, TypeOK, Driving
  <2> QED
    BY <1>1, <2>1, <2>2 DEF Stopped, Driving
<1> QED
  BY <1>2, <1>3, <1>4, <1>5, <1>6, <1>7 DEF poll_output

\* Bytes that were read are Progress, and no allowance begins with them.
LEMMA TakeControl ==
  ASSUME TypeOK, NEW p \in Peers, Control(p), health[p] = "Ok", NEW frames,
         TakeInput(p, frames)
  PROVE  Control(p)'
<1>1. /\ pc'[p] \in {"timer", "process"} /\ input'[p] = "Progress"
      /\ health'[p] = health[p] /\ tx'[p] = tx[p]
  BY DEF TakeInput, Goto, TypeOK
<1>2. final_input[p] = None => final_input'[p] = None
  BY DEF TakeInput, TypeOK
<1> QED
  BY <1>1, <1>2 DEF Control, Stopped, Driving

LEMMA InputControl ==
  ASSUME TypeOK, NEW p \in Peers, Control(p), poll_input(p)
  PROVE  Control(p)'
<1> USE DEF Control
<1>1. health[p] = "Ok"
  BY Healthy
<1>2. CASE InputYield(p)
  <2>1. /\ pc'[p] = "timer" /\ input'[p] = "Yield" /\ health'[p] = health[p]
        /\ final_input'[p] = final_input[p] /\ tx'[p] = tx[p]
    BY <1>2 DEF InputYield, Goto, TypeOK, txVars
  <2> QED
    BY <1>1, <2>1 DEF Stopped, Driving
<1>3. CASE InputPending(p)
  <2>1. /\ pc[p] = "input" /\ pc'[p] = "timer" /\ output'[p] = output[p]
        /\ health'[p] = health[p] /\ final_input'[p] = final_input[p]
        /\ tx'[p] = tx[p] /\ out'[p] = out[p] /\ ack_pending'[p] = ack_pending[p]
    BY <1>3 DEF InputPending, Goto, TypeOK, txVars, outVars
  <2> QED
    BY <1>1, <2>1 DEF Stopped, Driving, OutputDone
<1>4. CASE InputError(p)
  <2>1. PICK error \in Errors : FailDrive(p, error)
    BY <1>4, InputAssumption DEF InputError, Errors
  <2> QED
    BY <2>1, FailControl
<1>5. CASE ReadFrames(p) \/ ReadNoise(p) \/ ReadForeign(p)
  BY <1>1, <1>5, TakeControl DEF ReadFrames, ReadNoise, ReadForeign
<1> QED
  BY <1>2, <1>3, <1>4, <1>5 DEF poll_input

LEMMA ProcessControl ==
  ASSUME TypeOK, NEW p \in Peers, Control(p), process_frame(p)
  PROVE  Control(p)'
<1> USE DEF Control
<1>1. health[p] = "Ok"
  BY Healthy
<1>2. NextFrame(p)
  BY DEF process_frame, ReleasePacket, RetainPayload, AckAgain, IgnoreFrame
<1>3. /\ pc[p] = "process" /\ pc'[p] \in {"timer", "process"}
      /\ input'[p] = input[p] /\ health'[p] = health[p]
  BY <1>2 DEF NextFrame, Goto, TypeOK
<1>4. input'[p] = "Progress"
  BY <1>3 DEF Driving
<1>5. final_input'[p] # None => tx'[p] = "Waiting"
  <2>1. CASE ReleasePacket(p)
    BY <2>1 DEF ReleasePacket, TypeOK
  <2>2. CASE RetainPayload(p) \/ AckAgain(p) \/ IgnoreFrame(p)
    BY <2>2 DEF RetainPayload, AckAgain, IgnoreFrame, Driving
  <2> QED
    BY <2>1, <2>2 DEF process_frame
<1> QED
  BY <1>1, <1>3, <1>4, <1>5 DEF Stopped, Driving

\* A step that ends in Blocked found nothing to do, and no allowance goes on.
LEMMA EndStepControl ==
  ASSUME TypeOK, NEW p \in Peers, Control(p), health[p] = "Ok", health'[p] = "Ok",
         pc[p] = "timer", NEW timer \in {"Blocked", "Progress"}, EndStep(p, timer),
         final_input'[p] # None => tx'[p] = "Waiting",
         timer = "Blocked" =>
           /\ out'[p] = out[p] /\ ack_pending'[p] = ack_pending[p] /\ tx'[p] = tx[p]
           /\ input[p] = "Blocked" => final_input'[p] = None
  PROVE  Control(p)'
<1> USE DEF Control
<1>1. output[p] \in Works /\ input[p] \in Works
  BY DEF TypeOK
<1>2. CASE StepWork(p, timer) = "Progress"
  <2>1. pc'[p] = "output"
    BY <1>2 DEF EndStep, Goto, TypeOK
  <2> QED
    BY <2>1 DEF Stopped, Driving
<1>3. CASE StepWork(p, timer) = "Yield"
  <2>1. pc'[p] = "finish" /\ driven'[p] = "Yield"
    BY <1>3 DEF EndStep, Goto, TypeOK
  <2> QED
    BY <2>1 DEF Stopped, Driving
<1>4. CASE StepWork(p, timer) = "Blocked"
  <2>1. pc'[p] = "finish"
    BY <1>4 DEF EndStep, Goto, TypeOK
  <2>2. timer = "Blocked" /\ output[p] = "Blocked" /\ input[p] = "Blocked"
    BY <1>1, <1>4 DEF StepWork, Works
  <2>3. OutputDone(p)'
    BY <2>2 DEF Driving, OutputDone
  <2> QED
    BY <2>1, <2>2, <2>3 DEF Stopped, Driving
<1> QED
  BY <1>2, <1>3, <1>4 DEF StepWork

LEMMA TimerControl ==
  ASSUME TypeOK, NEW p \in Peers, Control(p), poll_timer(p)
  PROVE  Control(p)'
<1> USE DEF TimerKeeps, outVars
<1>1. health[p] = "Ok"
  BY Healthy DEF Control
<1>2. CASE TimerBlocked(p)
  <2>1. /\ pc[p] = "timer" /\ EndStep(p, "Blocked") /\ health'[p] = "Ok"
        /\ final_input'[p] = final_input[p] /\ tx'[p] = tx[p]
        /\ out'[p] = out[p] /\ ack_pending'[p] = ack_pending[p]
    BY <1>1, <1>2 DEF TimerBlocked
  <2>2. final_input[p] # None => tx[p] = "Waiting"
    BY DEF Control, Driving
  <2>3. input[p] = "Blocked" => final_input[p] = None
    BY <1>2, <2>2 DEF TimerBlocked
  <2> QED
    BY <1>1, <2>1, <2>2, <2>3, EndStepControl
<1>3. CASE TimerExpires(p)
  <2>1. /\ pc[p] = "timer" /\ EndStep(p, "Progress") /\ health'[p] = "Ok"
        /\ tx'[p] = "Waiting"
    BY <1>1, <1>3 DEF TimerExpires
  <2> QED
    BY <1>1, <2>1, EndStepControl
<1>4. CASE Retransmit(p)
  <2>1. /\ pc[p] = "timer" /\ EndStep(p, "Progress") /\ health'[p] = "Ok"
        /\ final_input'[p] = None
    BY <1>1, <1>4 DEF Retransmit, AllowanceOver, TypeOK
  <2> QED
    BY <1>1, <2>1, EndStepControl
<1>5. CASE GiveUp(p)
  <2>1. FailDrive(p, "Timeout") /\ "Timeout" \in Errors
    BY <1>5 DEF GiveUp, Errors
  <2> QED
    BY <2>1, FailControl
<1> QED
  BY <1>2, <1>3, <1>4, <1>5 DEF poll_timer

\* What a poll method does after drive leaves what drive left.
LEMMA FinishControl ==
  ASSUME TypeOK, NEW p \in Peers, Control(p), finish(p)
  PROVE  Control(p)'
<1> USE DEF FinishKeeps, outVars, Control
<1>1. pc[p] = "finish"
  BY DEF finish, ReadReady, PollError, WriteExhausted, AcceptPacket, WriteReady,
         FlushReady, PollPending
<1>2. CASE ReadReady(p) \/ WriteReady(p) \/ FlushReady(p) \/ PollPending(p)
  <2>1. /\ pc'[p] = "idle" /\ health'[p] = health[p] /\ tx'[p] = tx[p]
        /\ final_input'[p] = final_input[p] /\ driven'[p] = driven[p]
        /\ out'[p] = out[p] /\ ack_pending'[p] = ack_pending[p]
    BY <1>2 DEF ReadReady, WriteReady, FlushReady, PollPending, Return, Goto,
                TypeOK, txVars
  <2> QED
    BY <1>1, <2>1 DEF Stopped, Driving, OutputDone
<1>3. CASE PollError(p) \/ WriteExhausted(p)
  <2>1. pc'[p] = "idle" /\ health'[p] = "Reported" /\ tx'[p] = tx[p]
        /\ final_input'[p] \in {None, final_input[p]}
    BY <1>3 DEF PollError, WriteExhausted, Return, Goto, TypeOK, txVars
  <2> QED
    BY <2>1 DEF Stopped, Driving
<1>4. CASE AcceptPacket(p)
  <2>1. /\ health[p] = "Ok" /\ health'[p] = health[p] /\ tx[p] = "Idle"
        /\ final_input'[p] = final_input[p] /\ driven'[p] = driven[p]
    BY <1>4 DEF AcceptPacket, write_ready
  <2>2. final_input'[p] = None
    BY <2>1 DEF Driving
  <2>3. pc'[p] = IF driven[p] = "Yield" THEN "idle" ELSE "output"
    BY <1>4 DEF AcceptPacket, Return, Goto, TypeOK
  <2> QED
    BY <2>1, <2>2, <2>3 DEF Stopped, Driving
<1> QED
  BY <1>2, <1>3, <1>4 DEF finish

LEMMA ControlStep ==
  ASSUME TypeOK, NEW p \in Peers, Control(p), Begin(p) \/ Poll(p)
  PROVE  Control(p)'
  BY BeginControl, OutputControl, InputControl, ProcessControl, TimerControl,
     FinishControl DEF Poll

-----------------------------------------------------------------------------
(* The invariant *)

\* The steps that put frames on the link or take them off it.
LEMMA LinkSteps ==
  ASSUME NEW p \in Peers, Begin(p) \/ Poll(p) \/ Lose(p) \/ Elapse(p)
  PROVE  UNCHANGED chan \/ WriteRest(p) \/ ReadFrames(p) \/ Lose(p)
<1>1. Begin(p) \/ Elapse(p) => UNCHANGED chan
  BY DEF Begin, BeginPoll, Elapse
<1>2. poll_output(p) => WriteRest(p) \/ UNCHANGED chan
  BY DEF poll_output, OutputIdle, StartAck, StartData, OutputYield,
     OutputPending, OutputError, WritePart, FlushDone
<1>3. poll_input(p) => ReadFrames(p) \/ UNCHANGED chan
  BY DEF poll_input, InputYield, InputPending, InputError, ReadNoise, ReadForeign
<1>4. process_frame(p) => UNCHANGED chan
  BY DEF process_frame, ReleasePacket, RetainPayload, AckAgain, IgnoreFrame,
     NextFrame
<1>5. poll_timer(p) => UNCHANGED chan
  BY DEF poll_timer, TimerBlocked, TimerExpires, Retransmit, GiveUp, TimerKeeps
<1>6. finish(p) => UNCHANGED chan
  BY DEF finish, ReadReady, PollError, WriteExhausted, AcceptPacket, WriteReady,
     FlushReady, PollPending, FinishKeeps
<1> QED
  BY <1>1, <1>2, <1>3, <1>4, <1>5, <1>6 DEF Poll

\* Only whole frames get under way, and the link only drops frames.
LEMMA WholeStep ==
  ASSUME TypeOK, HasRest, Whole, NEW p \in Peers, SenderOK(p),
         Begin(p) \/ Poll(p) \/ Lose(p) \/ Elapse(p)
  PROVE  Whole'
<1>1. chan \in [Peers -> Seq(Frames)] /\ Other(p) \in Peers
  BY OtherPeer DEF TypeOK
<1>2. CASE UNCHANGED chan
  BY <1>2 DEF Whole
<1>3. CASE WriteRest(p)
  <2> DEFINE f == Assemble(Units(p, FrameLen(p) - out[p].offset))
  <2>1. chan' = [chan EXCEPT ![Other(p)] = Append(@, f)] /\ out[p].at = "Writing"
    BY <1>3 DEF WriteRest
  <2>2. f.kind \in {"Data", "Ack"}
    BY <2>1, AssembledIs
  <2> HIDE DEF f
  <2>3. ASSUME NEW q \in Peers, NEW i \in 1 .. Len(chan'[q])
        PROVE  chan'[q][i].kind \in {"Data", "Ack"}
    <3>1. CASE q # Other(p)
      BY <1>1, <2>1, <2>3, <3>1 DEF Whole
    <3>2. CASE q = Other(p)
      <4>1. chan'[q] = Append(chan[q], f)
        BY <1>1, <2>1, <3>2
      <4>2. i \in 1 .. Len(chan[q]) + 1
        BY <1>1, <2>3, <4>1
      <4>3. chan'[q][i] = IF i = Len(chan[q]) + 1 THEN f ELSE chan[q][i]
        BY <1>1, <4>1, <4>2
      <4> QED
        BY <1>1, <2>2, <4>2, <4>3 DEF Whole
    <3> QED
      BY <3>1, <3>2
  <2> QED
    BY <2>3 DEF Whole
<1>4. CASE ReadFrames(p)
  <2>1. PICK n \in 1 .. Len(chan[p]) :
          chan' = [chan EXCEPT ![p] = SubSeq(@, n + 1, Len(@))]
    BY <1>4 DEF ReadFrames
  <2>2. ASSUME NEW q \in Peers, NEW i \in 1 .. Len(chan'[q])
        PROVE  chan'[q][i].kind \in {"Data", "Ack"}
    <3>1. CASE q # p
      BY <1>1, <2>1, <2>2, <3>1 DEF Whole
    <3>2. CASE q = p
      <4>1. chan'[q] = SubSeq(chan[q], n + 1, Len(chan[q]))
        BY <1>1, <2>1, <3>2
      <4>2. Len(chan[q]) \in Nat /\ n \in 1 .. Len(chan[q])
        BY <1>1, <3>2
      <4>3. i \in 1 .. Len(chan[q]) - n /\ chan'[q][i] = chan[q][i + n]
        BY <1>1, <2>2, <4>1, <4>2
      <4> QED
        BY <4>2, <4>3 DEF Whole
    <3> QED
      BY <3>1, <3>2
  <2> QED
    BY <2>2 DEF Whole
<1>5. CASE Lose(p)
  <2>1. PICK i \in 1 .. Len(chan[p]) :
          chan' = [chan EXCEPT ![p] =
                    [j \in 1 .. Len(@) - 1 |-> IF j < i THEN @[j] ELSE @[j + 1]]]
    BY <1>5 DEF Lose
  <2>2. ASSUME NEW q \in Peers, NEW k \in 1 .. Len(chan'[q])
        PROVE  chan'[q][k].kind \in {"Data", "Ack"}
    <3>1. CASE q # p
      BY <1>1, <2>1, <2>2, <3>1 DEF Whole
    <3>2. CASE q = p
      <4>1. chan'[q] = [j \in 1 .. Len(chan[q]) - 1 |->
                          IF j < i THEN chan[q][j] ELSE chan[q][j + 1]]
        BY <1>1, <2>1, <3>2
      <4>2. Len(chan[q]) \in Nat /\ Len(chan[q]) - 1 \in Nat
        BY <1>1, <3>2
      <4>3. k \in 1 .. Len(chan[q]) - 1
        BY <2>2, <4>1, <4>2
      <4> QED
        BY <4>1, <4>2, <4>3 DEF Whole
    <3> QED
      BY <3>1, <3>2
  <2> QED
    BY <2>2 DEF Whole
<1> QED
  BY <1>2, <1>3, <1>4, <1>5, LinkSteps

LEMMA PollInvInit == Init => PollInv
<1> SUFFICES ASSUME Init, NEW p \in Peers
    PROVE  ByPeer(p) /\ \A i \in 1 .. Len(chan[p]) : chan[p][i].kind \in {"Data", "Ack"}
  BY DEF PollInv, Whole
<1> USE DEF Init
<1>1. /\ out[p] = OutIdle /\ wire[p] = <<>> /\ tx[p] = "Idle" /\ health[p] = "Ok"
      /\ sends[p] = 0 /\ final_input[p] = None /\ ack_pending[p] = None
      /\ pc[p] = "idle" /\ chan[p] = <<>>
  OBVIOUS
<1>2. BuffersFilled(p) /\ Unaltered(p) /\ Counted(p)
  BY <1>1, ConfigAssumption
     DEF BuffersFilled, Unaltered, Counted, Unsent, data_out_busy, OutIdle
<1>3. Stopped(p) /\ Driving(p)
  BY <1>1 DEF Stopped, Driving, OutputDone
<1> QED
  BY <1>1, <1>2, <1>3 DEF ByPeer

\* What is known of one peer depends on its fields only.
LEMMA ByPeerKept ==
  ASSUME NEW p \in Peers, ByPeer(p), UNCHANGED Connection(p)
  PROVE  ByPeer(p)'
<1>1. UNCHANGED Sender(p) /\ health'[p] = health[p]
  BY DEF Connection, Sender
<1>2. SenderOK(p)'
  BY <1>1, SenderKept DEF ByPeer, SenderOK
<1>3. Stopped(p)' /\ Driving(p)'
  BY DEF Connection, ByPeer, Stopped, Driving, OutputDone
<1> QED
  BY <1>2, <1>3 DEF ByPeer, SenderOK

LEMMA PollInvStep ==
  ASSUME TypeInv, PollInv, [Next]_vars
  PROVE  PollInv'
<1>1. ASSUME NEW p \in Peers, Begin(p) \/ Poll(p) \/ Lose(p) \/ Elapse(p)
      PROVE  PollInv'
  <2>1. TypeOK /\ HasRest /\ Whole /\ SenderOK(p)
    BY DEF TypeInv, PollInv, ByPeer, SenderOK
  <2>2. Whole'
    BY <1>1, <2>1, WholeStep
  <2>3. ASSUME NEW q \in Peers PROVE ByPeer(q)'
    <3>1. CASE q # p
      BY <1>1, <2>1, <3>1, Elsewhere, ByPeerKept DEF PollInv
    <3>2. CASE q = p /\ (Lose(p) \/ Elapse(p))
      BY <3>2, WorldElsewhere, ByPeerKept DEF PollInv
    <3>3. CASE q = p /\ (Begin(p) \/ Poll(p))
      <4>1. SenderOK(p) /\ Stopped(p) /\ Control(p)
        BY DEF PollInv, ByPeer, SenderOK, Control
      <4>2. SenderOK(p)' /\ Control(p)'
        BY <2>1, <3>3, <4>1, SenderStep, ControlStep
      <4> QED
        BY <3>3, <4>2 DEF ByPeer, SenderOK, Control
    <3> QED
      BY <1>1, <3>1, <3>2, <3>3
  <2> QED
    BY <2>2, <2>3 DEF PollInv
<1>2. CASE UNCHANGED vars
  <2>1. ASSUME NEW q \in Peers PROVE UNCHANGED Connection(q)
    BY <1>2 DEF vars, txVars, outVars, pollVars, histVars, Connection
  <2>2. Whole'
    BY <1>2 DEF vars, PollInv, Whole
  <2> QED
    BY <2>1, <2>2, ByPeerKept DEF PollInv
<1> QED
  BY <1>1, <1>2 DEF Next, Begin

LEMMA PollInductive == Spec => [](TypeInv /\ PollInv)
<1>1. Init => TypeInv /\ PollInv
  BY TypeInit, PollInvInit
<1>2. TypeInv /\ PollInv /\ [Next]_vars => (TypeInv /\ PollInv)'
  BY TypeStep, PollInvStep
<1> QED
  BY <1>1, <1>2, PTL DEF Spec

-----------------------------------------------------------------------------
(* The theorems *)

\* A frame that poll_output has begun is completed as it was begun, whatever
\* poll_input and the applications do to the packet and the acknowledgments.
THEOREM FramesStayWhole == Spec => []FramesIntact
<1>1. PollInv => FramesIntact
  BY DEF PollInv, ByPeer, Unaltered, Whole, FramesIntact
<1> QED
  BY <1>1, PollInductive, PTL

\* poll_timer reports the timeout only after max_retries + 1 transmissions of
\* the packet, and no packet is transmitted more often.
THEOREM TimeoutIsEarned == Spec => []RetriesSpent
<1>1. ASSUME TypeInv, PollInv, NEW p \in Peers
      PROVE  /\ sends[p] <= MaxRetries + 1
             /\ health[p] = "Timeout" => sends[p] = MaxRetries + 1
  <2>1. /\ tx \in [Peers -> {"Idle", "Queued", "Sending", "Waiting"}]
        /\ tx_retries \in [Peers -> 0 .. MaxRetries]
        /\ sends \in [Peers -> Nat]
        /\ MaxRetries \in Nat
    <3>1. MaxRetries \in Nat
      BY ConfigAssumption
    <3>2. TypeOK
      BY <1>1 DEF TypeInv
    <3> QED
      BY <3>1, <3>2 DEF TypeOK
  <2>2. /\ tx[p] \in {"Idle", "Queued", "Sending", "Waiting"}
        /\ tx_retries[p] \in Nat /\ tx_retries[p] <= MaxRetries
        /\ sends[p] \in Nat
    BY <2>1
  <2>3. Unsent(p) \in {0, 1}
    BY DEF Unsent
  <2>4. Counted(p)
    BY <1>1 DEF PollInv, ByPeer
  <2> QED
    BY <2>1, <2>2, <2>3, <2>4 DEF Counted
<1>2. TypeInv /\ PollInv => RetriesSpent
  BY <1>1 DEF RetriesSpent
<1> QED
  BY <1>2, PollInductive, PTL

\* A poll whose last drive ended Blocked leaves no acknowledgment or packet
\* behind an idle output, and no packet in its final allowance.
THEOREM BlockedLeavesNothing == Spec => []NothingStranded
<1>1. PollInv => NothingStranded
  BY DEF PollInv, ByPeer, Driving, OutputDone, NothingStranded
<1> QED
  BY <1>1, PollInductive, PTL

\* What FailedIsInert says of one connection.
Inert(p) ==
  health[p] # "Ok" =>
    /\ health'[p] # "Ok"
    /\ health'[p] # health[p] =>
         op[p] # "Wrote" /\ pc'[p] = "idle" /\ health'[p] = "Reported"
    /\ UNCHANGED <<tx[p], tx_frame[p], tx_next[p], tx_retries[p],
                   final_input[p], out[p], ack_pending[p], ack_frame[p],
                   rx_buf[p], rx_next[p], wire[p], accepted[p]>>

\* On a failed connection a poll begins with its own end.
LEMMA InertStep ==
  ASSUME TypeInv, PollInv, NEW p \in Peers, [Next]_vars
  PROVE  Inert(p)
<1>1. ASSUME NEW q \in Peers, UNCHANGED Connection(q), UNCHANGED Fields(q)
      PROVE  Inert(q)
  BY <1>1 DEF Connection, Fields, Inert
<1>2. CASE UNCHANGED vars
  <2>1. UNCHANGED Connection(p) /\ UNCHANGED Fields(p)
    BY <1>2 DEF vars, txVars, outVars, rxVars, pollVars, histVars, Connection,
                Fields
  <2> QED
    BY <1>1, <2>1
<1>3. ASSUME NEW q \in Peers, Begin(q) \/ Poll(q) \/ Lose(q) \/ Elapse(q)
      PROVE  Inert(p)
  <2>1. CASE p # q \/ Lose(q) \/ Elapse(q)
    BY <1>1, <1>3, <2>1, Elsewhere, WorldElsewhere DEF TypeInv
  <2>2. CASE p = q /\ Begin(p)
    BY <2>2 DEF Begin, BeginPoll, Inert, txVars, outVars, rxVars, histVars
  <2>3. CASE p = q /\ health[p] # "Ok" /\ Poll(p)
    <3>1. finish(p)
      BY <2>3, Healthy DEF Poll, PollInv, ByPeer
    <3>2. ReadReady(p) \/ PollError(p) \/ WriteReady(p)
      BY <2>3, <3>1 DEF finish, WriteExhausted, AcceptPacket, FlushReady,
                        PollPending
    <3>3. UNCHANGED <<txVars, outVars, ack_pending, rx_buf, rx_next, accepted>>
      BY <3>2 DEF ReadReady, PollError, WriteReady, FinishKeeps, histVars
    <3>4. health'[p] # "Ok"
      BY <2>3, <3>2 DEF ReadReady, PollError, WriteReady, TypeInv, TypeOK
    <3>5. health'[p] # health[p] =>
            op[p] # "Wrote" /\ pc'[p] = "idle" /\ health'[p] = "Reported"
      BY <3>2 DEF ReadReady, PollError, WriteReady, Return, Goto, TypeInv, TypeOK
    <3> QED
      BY <3>3, <3>4, <3>5 DEF Inert, txVars, outVars
  <2> QED
    BY <1>3, <2>1, <2>2, <2>3 DEF Inert
<1> QED
  BY <1>2, <1>3 DEF Next, Begin

\* After fail() no poll calls the transport or the timer, the error is final,
\* and poll_write accepts nothing.
THEOREM FailureIsFinal == Spec => FailedIsInert
<1>1. TypeInv /\ PollInv /\ [Next]_vars => [\A p \in Peers : Inert(p)]_vars
  BY InertStep
<1> QED
  BY <1>1, PollInductive, PTL DEF Spec, FailedIsInert, Inert

\* What AckNotDropped says of one acknowledgment of one connection.
AckKept(p, seq) ==
  Owes(p, seq) =>
    \/ Owes(p, seq)'
    \/ chan'[Other(p)] = Append(chan[Other(p)], encode_ack(p, seq))
    \/ tx_next[Other(p)] # seq + 1

\* Between its encoding and the end of its frame the acknowledgment is in the
\* frame buffer, and nothing but poll_output touches that.
LEMMA OutputAcks ==
  ASSUME TypeInv, NEW p \in Peers, NEW seq \in Nat, SenderOK(p), poll_output(p)
  PROVE  AckKept(p, seq)
<1>1. /\ out \in [Peers -> [at : {"Idle", "Writing", "Flushing"},
                            frame : {"None", "Ack", "Data"}, offset : Nat]]
      /\ ack_pending \in [Peers -> {None} \cup Nat]
      /\ ack_frame \in [Peers -> Frames]
  BY DEF TypeInv, TypeOK
<1>2. CASE UNCHANGED <<out, ack_frame, ack_pending>>
  BY <1>2 DEF AckKept, Owes
<1>3. CASE OutputIdle(p) \/ OutputYield(p) \/ OutputPending(p) \/ OutputError(p)
  BY <1>2, <1>3 DEF OutputIdle, OutputYield, OutputPending, OutputError, outVars
<1>4. CASE StartAck(p)
  <2>1. Owes(p, seq) => ack_pending[p] = seq
    BY <1>4 DEF StartAck, Owes
  <2>2. /\ out'[p].at = "Writing" /\ out'[p].frame = "Ack"
        /\ ack_frame'[p].seq = ack_pending[p]
    BY <1>1, <1>4 DEF StartAck, encode_ack
  <2> QED
    BY <2>1, <2>2 DEF AckKept, Owes
<1>5. CASE StartData(p)
  <2>1. seq # None
    BY DEF None
  <2> QED
    BY <1>5, <2>1 DEF StartData, AckKept, Owes
<1>6. CASE WritePart(p)
  <2>1. /\ out'[p].at = "Writing" /\ out'[p].frame = out[p].frame
        /\ UNCHANGED <<ack_frame, ack_pending>>
    BY <1>1, <1>6 DEF WritePart
  <2> QED
    BY <2>1 DEF AckKept, Owes
<1>7. CASE WriteRest(p)
  <2>1. UNCHANGED ack_pending /\ out[p].at = "Writing"
    BY <1>7 DEF WriteRest
  <2>2. CASE out[p].frame = "Ack" /\ ack_frame[p].seq = seq
    <3>1. /\ chan \in [Peers -> Seq(Frames)]
          /\ Other(p) \in Peers
      BY OtherPeer DEF TypeInv, TypeOK
    <3>2. chan'[Other(p)] =
            Append(chan[Other(p)], Assemble(Units(p, FrameLen(p) - out[p].offset)))
      BY <1>7, <3>1 DEF WriteRest
    <3>3. Assemble(Units(p, FrameLen(p) - out[p].offset)) = ack_frame[p]
      BY <1>7, <2>1, <2>2, AssembledIs DEF Buffer, TypeInv, SenderOK
    <3>4. ack_frame[p] = encode_ack(p, seq)
      BY <2>1, <2>2 DEF SenderOK, BuffersFilled
    <3> QED
      BY <3>2, <3>3, <3>4 DEF AckKept
  <2>3. CASE ~ (out[p].frame = "Ack" /\ ack_frame[p].seq = seq)
    BY <2>1, <2>3 DEF AckKept, Owes
  <2> QED
    BY <2>2, <2>3
<1>8. CASE FlushDone(p)
  BY <1>8 DEF FlushDone, AckKept, Owes
<1> QED
  BY <1>3, <1>4, <1>5, <1>6, <1>7, <1>8 DEF poll_output

\* New DATA takes the place of the pending acknowledgment only when the peer has
\* sent it, and so has been acknowledged the DATA before.
LEMMA ProcessAcks ==
  ASSUME IInv, NEW p \in Peers, NEW seq \in 0 .. rx_next[p] - 1, process_frame(p)
  PROVE  AckKept(p, seq)
<1>1. TypeOK /\ HasFrame
  BY DEF IInv
<1>2. UNCHANGED <<out, ack_frame>>
  BY DEF process_frame, ReleasePacket, RetainPayload, AckAgain, IgnoreFrame,
         NextFrame, outVars
<1>3. CASE UNCHANGED ack_pending
  BY <1>2, <1>3 DEF AckKept, Owes
<1>4. CASE RetainPayload(p)
  <2> DEFINE f == Head(rx_buf[p])
             s == Other(p)
  <2>1. rx_buf[p] \in Seq(Frames) /\ rx_buf[p] # <<>>
    BY <1>1, <1>4 DEF RetainPayload, NextFrame, HasFrame, TypeOK
  <2>2. f.kind = "Data" /\ f.session = Session[p] /\ f.seq = rx_next[p]
    BY <1>4 DEF RetainPayload, IsNext, DataMatches
  <2>3. s \in Peers /\ Other(s) = p
    BY OtherPeer
  <2>4. f \in UnderWay(s)
    BY <2>1, <2>3 DEF UnderWay, Elements
  <2>5. f.seq < tx_next[s]
    BY <2>2, <2>3, <2>4 DEF IInv, FramesSound, Sound
  <2>6. tx_next[s] \in Nat /\ rx_next[p] \in Nat
    BY <1>1, <2>3, CountersType
  <2>7. tx_next[s] # seq + 1
    BY <2>2, <2>5, <2>6
  <2> QED
    BY <2>7 DEF AckKept
<1>5. CASE AckAgain(p)
  <2>1. ack_pending[p] = None /\ seq # None
    BY <1>1, <1>5, CountersType DEF AckAgain, IsRepeat, None
  <2> QED
    BY <1>2, <2>1 DEF AckKept, Owes
<1> QED
  BY <1>3, <1>4, <1>5 DEF process_frame, ReleasePacket, IgnoreFrame

\* Only poll_output and process_frame touch what an acknowledgment is kept in.
LEMMA AckKeptStep ==
  ASSUME IInv, PollInv, NEW p \in Peers, NEW seq \in 0 .. rx_next[p] - 1,
         [Next]_vars
  PROVE  AckKept(p, seq)
<1>1. CASE UNCHANGED <<out[p], ack_frame[p], ack_pending[p]>>
  BY <1>1 DEF AckKept, Owes
<1>2. TypeInv /\ SenderOK(p) /\ seq \in Nat
  BY CountersType DEF IInv, TypeInv, PollInv, ByPeer, SenderOK
<1>3. ASSUME NEW q \in Peers, Begin(q) \/ Poll(q) \/ Lose(q) \/ Elapse(q)
      PROVE  AckKept(p, seq)
  <2>1. CASE p # q \/ Lose(q) \/ Elapse(q)
    BY <1>1, <1>2, <1>3, <2>1, Elsewhere, WorldElsewhere DEF Connection, TypeInv
  <2>2. CASE p = q /\ (Begin(p) \/ Poll(p))
    <3>1. Begin(p) => UNCHANGED <<out, ack_frame, ack_pending>>
      BY DEF Begin, BeginPoll, outVars
    <3>2. poll_output(p) => AckKept(p, seq)
      BY <1>2, OutputAcks
    <3>3. poll_input(p) => UNCHANGED <<out, ack_frame, ack_pending>>
      BY DEF poll_input, InputYield, InputPending, InputError, ReadFrames,
         ReadNoise, ReadForeign, TakeInput, outVars
    <3>4. process_frame(p) => AckKept(p, seq)
      BY ProcessAcks
    <3>5. poll_timer(p) => UNCHANGED <<out, ack_frame, ack_pending>>
      BY DEF poll_timer, TimerBlocked, TimerExpires, Retransmit, GiveUp,
         TimerKeeps, outVars
    <3>6. finish(p) => UNCHANGED <<out, ack_frame, ack_pending>>
      BY DEF finish, ReadReady, PollError, WriteExhausted, AcceptPacket,
         WriteReady, FlushReady, PollPending, FinishKeeps, outVars
    <3> QED
      BY <1>1, <2>2, <3>1, <3>2, <3>3, <3>4, <3>5, <3>6 DEF Poll
  <2> QED
    BY <1>3, <2>1, <2>2
<1>4. CASE UNCHANGED vars
  BY <1>1, <1>4 DEF vars, outVars
<1> QED
  BY <1>3, <1>4 DEF Next, Begin

\* An acknowledgment that is owed is not lost between process_frame and the last
\* byte of its frame, and gives way to that of the next packet only when the
\* peer has had it from an earlier transmission.
THEOREM AcksAreNotDropped == Spec => AckNotDropped
<1>1. IInv /\ PollInv /\ [Next]_vars =>
        [\A p \in Peers : \A seq \in 0 .. rx_next[p] - 1 : AckKept(p, seq)]_vars
  BY AckKeptStep
<1> QED
  BY <1>1, Inductive, PollInductive, PTL DEF Spec, AckNotDropped, AckKept

-----------------------------------------------------------------------------
(* Every poll ends *)

\* One read completes no more frames than were in flight, and these are no more
\* than ChanCap.
Capped == \A p \in Peers : Len(chan[p]) <= ChanCap

LEMMA CappedInit == Init => Capped
  BY ConfigAssumption DEF Init, Capped

LEMMA CappedStep ==
  ASSUME TypeOK, Capped, [Next]_vars
  PROVE  Capped'
<1>1. chan \in [Peers -> Seq(Frames)] /\ ChanCap \in Nat
  BY ConfigAssumption DEF TypeOK
<1>2. CASE UNCHANGED chan
  BY <1>2 DEF Capped
<1>3. ASSUME NEW p \in Peers, NEW s \in Seq(Frames), Len(s) <= ChanCap,
             chan' = [chan EXCEPT ![p] = s]
      PROVE  Capped'
  BY <1>1, <1>3 DEF Capped
<1>4. ASSUME NEW p \in Peers, WriteRest(p)
      PROVE  Capped'
  <2> DEFINE f == Assemble(Units(p, FrameLen(p) - out[p].offset))
  <2>1. Other(p) \in Peers
    BY OtherPeer
  <2>2. chan' = [chan EXCEPT ![Other(p)] = Append(chan[Other(p)], f)]
        /\ Len(chan[Other(p)]) < ChanCap
    BY <1>4 DEF WriteRest
  <2> HIDE DEF f
  <2>3. \A q \in Peers : q # Other(p) => chan'[q] = chan[q]
    BY <1>1, <2>1, <2>2
  <2>4. Len(chan'[Other(p)]) = Len(chan[Other(p)]) + 1
    BY <1>1, <2>1, <2>2
  <2>5. Len(chan[Other(p)]) \in Nat
    BY <1>1, <2>1
  <2> QED
    BY <1>1, <2>2, <2>3, <2>4, <2>5 DEF Capped
<1>5. ASSUME NEW p \in Peers, ReadFrames(p)
      PROVE  Capped'
  <2>1. PICK n \in 1 .. Len(chan[p]) :
          chan' = [chan EXCEPT ![p] = SubSeq(chan[p], n + 1, Len(chan[p]))]
    BY <1>5 DEF ReadFrames
  <2> DEFINE s == SubSeq(chan[p], n + 1, Len(chan[p]))
  <2>2. Len(chan[p]) \in Nat /\ Len(chan[p]) <= ChanCap
    BY <1>1 DEF Capped
  <2>3. s \in Seq(Frames) /\ Len(s) = Len(chan[p]) - n
    BY <1>1, <2>2
  <2>4. chan' = [chan EXCEPT ![p] = s]
    BY <2>1
  <2> HIDE DEF s
  <2>5. Len(s) <= ChanCap
    BY <1>1, <2>2, <2>3
  <2> QED
    BY <1>3, <2>3, <2>4, <2>5
<1>6. ASSUME NEW p \in Peers, Lose(p)
      PROVE  Capped'
  <2>1. PICK i \in 1 .. Len(chan[p]) :
          chan' = [chan EXCEPT ![p] =
                    [j \in 1 .. Len(chan[p]) - 1 |->
                       IF j < i THEN chan[p][j] ELSE chan[p][j + 1]]]
    BY <1>6 DEF Lose
  <2> DEFINE s == [j \in 1 .. Len(chan[p]) - 1 |->
                     IF j < i THEN chan[p][j] ELSE chan[p][j + 1]]
  <2>2. Len(chan[p]) \in Nat /\ Len(chan[p]) - 1 \in Nat /\ Len(chan[p]) <= ChanCap
    BY <1>1, <2>1 DEF Capped
  <2>3. s \in Seq(Frames) /\ Len(s) = Len(chan[p]) - 1
    BY <1>1, <2>1, <2>2
  <2> HIDE DEF s
  <2>4. chan' = [chan EXCEPT ![p] = s]
    BY <2>1 DEF s
  <2>5. Len(s) <= ChanCap
    BY <1>1, <2>2, <2>3
  <2> QED
    BY <1>3, <2>3, <2>4, <2>5
<1> QED
  BY <1>2, <1>4, <1>5, <1>6, LinkSteps DEF Next, Begin, vars

\* A step brought the poll in progress nearer to its return.
Nearer(p) == StepsLeft(p)' \in 0 .. StepsLeft(p) - 1

LEMMA RankType == ASSUME TypeOK, NEW p \in Peers PROVE Rank(p) \in Nat
  BY DEF TypeOK, Labels, Rank

LEMMA RankNextType == ASSUME TypeOK', NEW p \in Peers PROVE Rank(p)' \in Nat
  BY DEF TypeOK, Labels, Rank

\* The passes of drive the budget still pays for.
LEMMA PaidType ==
  ASSUME TypeOK, NEW p \in Peers
  PROVE  /\ budget[p] \in Nat /\ ChanCap \in Nat
         /\ budget[p] * (ChanCap + 4) \in Nat
<1>1. budget[p] \in Nat /\ ChanCap \in Nat
  BY ConfigAssumption DEF TypeOK
<1>2. \A i, j \in Nat : i * (j + 4) \in Nat
  OBVIOUS
<1> QED
  BY <1>1, <1>2

\* A step within a pass of drive.
LEMMA NearerWithin ==
  ASSUME TypeOK, TypeOK', NEW p \in Peers,
         budget'[p] = budget[p], op'[p] = op[p], Rank(p)' < Rank(p)
  PROVE  Nearer(p)
<1> DEFINE n == budget[p] * (ChanCap + 4)
           m == IF op[p] = "Write" THEN 5 ELSE 0
<1>1. Rank(p) \in Nat /\ Rank(p)' \in Nat
  BY RankType, RankNextType
<1>2. n \in Nat /\ m \in Nat
  BY PaidType
<1>3. StepsLeft(p) = n + Rank(p) + m /\ StepsLeft(p)' = n + Rank(p)' + m
  BY DEF StepsLeft
<1> HIDE DEF n, m
<1> QED
  BY <1>1, <1>2, <1>3 DEF Nearer

\* A step that spends: what it adds to do is less than what it spends.
LEMMA NearerSpent ==
  ASSUME TypeOK, TypeOK', NEW p \in Peers, Spend(p),
         op'[p] = op[p], Rank(p)' <= Rank(p) + ChanCap + 3
  PROVE  Nearer(p)
<1> DEFINE c == ChanCap + 4
           m == IF op[p] = "Write" THEN 5 ELSE 0
<1>1. Rank(p) \in Nat /\ Rank(p)' \in Nat
  BY RankType, RankNextType
<1>2. c \in Nat /\ m \in Nat /\ c = ChanCap + 4 /\ ChanCap \in Nat
  BY ConfigAssumption
<1>3. budget[p] \in Nat /\ budget[p] - 1 \in Nat /\ budget'[p] = budget[p] - 1
  BY DEF Spend, TypeOK
<1>4. /\ StepsLeft(p) = budget[p] * c + Rank(p) + m
      /\ StepsLeft(p)' = (budget[p] - 1) * c + Rank(p)' + m
  BY <1>3 DEF StepsLeft
<1> HIDE DEF c, m
<1>5. /\ (budget[p] - 1) * c \in Nat
      /\ budget[p] * c = (budget[p] - 1) * c + c
  BY <1>2, <1>3
<1> QED
  BY <1>1, <1>2, <1>4, <1>5 DEF Nearer

\* A poll that returns.
LEMMA NearerReturned ==
  ASSUME TypeOK, NEW p \in Peers, pc[p] = "finish", Return(p)
  PROVE  Nearer(p)
<1>1. pc'[p] = "idle" /\ op'[p] = "None" /\ budget'[p] = 0
  BY DEF Return, Goto, TypeOK
<1>2. ChanCap \in Nat /\ budget[p] * (ChanCap + 4) \in Nat
  BY PaidType
<1>3. Rank(p) = 1 /\ Rank(p)' = 0
  BY <1>1 DEF Rank
<1>4. StepsLeft(p)' = 0
  BY <1>1, <1>2, <1>3 DEF StepsLeft
<1>5. StepsLeft(p) \in Nat \ {0}
  BY <1>2, <1>3 DEF StepsLeft
<1> QED
  BY <1>4, <1>5 DEF Nearer

LEMMA OutputNearer ==
  ASSUME TypeOK, TypeOK', NEW p \in Peers, poll_output(p)
  PROVE  Nearer(p)
<1>1. pc[p] \in {"output", "send"} /\ Rank(p) \in {4, 5}
  BY DEF poll_output, OutputIdle, StartAck, StartData, OutputYield,
     OutputPending, OutputError, WritePart, WriteRest, FlushDone, Sending, Rank
<1>2. CASE OutputIdle(p) \/ OutputYield(p)
  <2>1. pc'[p] = "input" /\ op' = op /\ budget' = budget
    BY <1>2 DEF OutputIdle, OutputYield, Goto, TypeOK
  <2>2. Rank(p)' = 3
    BY <2>1 DEF Rank
  <2> QED
    BY <1>1, <2>1, <2>2, NearerWithin
<1>3. CASE StartAck(p) \/ StartData(p)
  <2>1. pc[p] = "output" /\ pc'[p] = "send" /\ op' = op /\ budget' = budget
    BY <1>3 DEF StartAck, StartData, Goto, TypeOK
  <2>2. Rank(p) = 5 /\ Rank(p)' = 4
    BY <2>1 DEF Rank
  <2> QED
    BY <2>1, <2>2, NearerWithin
<1>4. CASE OutputPending(p) \/ OutputError(p) \/ WritePart(p) \/ WriteRest(p)
             \/ FlushDone(p)
  <2>1. Spend(p) /\ op' = op
    BY <1>4 DEF OutputPending, OutputError, WritePart, WriteRest, FlushDone
  <2>2. pc'[p] \in {"input", "finish"}
    BY <1>4 DEF OutputPending, OutputError, WritePart, WriteRest, FlushDone,
                FailDrive, Goto, TypeOK
  <2>3. Rank(p)' <= 3
    BY <2>2 DEF Rank
  <2>4. Rank(p)' <= Rank(p) + ChanCap + 3
    BY <1>1, <2>3, RankNextType, ConfigAssumption
  <2> QED
    BY <2>1, <2>4, NearerSpent
<1> QED
  BY <1>2, <1>3, <1>4 DEF poll_output

\* process_input runs once for each of the frames a read completed.
LEMMA TakeNearer ==
  ASSUME TypeOK, TypeOK', NEW p \in Peers, pc[p] = "input",
         NEW frames, frames \in Seq(Frames), Len(frames) <= ChanCap,
         TakeInput(p, frames)
  PROVE  Nearer(p)
<1>1. Rank(p) = 3 /\ ChanCap \in Nat
  BY ConfigAssumption DEF Rank
<1>2. /\ Spend(p) /\ op' = op /\ rx_buf'[p] = frames
      /\ pc'[p] = IF frames = <<>> THEN "timer" ELSE "process"
  BY DEF TakeInput, Goto, TypeOK
<1>3. Rank(p)' <= 6 + Len(frames)
  <2>1. CASE frames = <<>>
    BY <1>2, <2>1 DEF Rank
  <2>2. CASE frames # <<>>
    BY <1>2, <2>2 DEF Rank
  <2> QED
    BY <2>1, <2>2
<1>4. Rank(p)' <= Rank(p) + ChanCap + 3
  BY <1>1, <1>3, RankNextType
<1> QED
  BY <1>2, <1>4, NearerSpent

LEMMA InputNearer ==
  ASSUME TypeOK, TypeOK', Capped, NEW p \in Peers, poll_input(p)
  PROVE  Nearer(p)
<1>1. pc[p] = "input" /\ Rank(p) = 3 /\ ChanCap \in Nat \ {0}
  BY ConfigAssumption
     DEF poll_input, InputYield, InputPending, InputError, ReadFrames,
         ReadNoise, ReadForeign, Rank
<1>2. CASE InputYield(p)
  <2>1. /\ pc'[p] = "timer" /\ input'[p] = "Yield" /\ op' = op /\ budget' = budget
    BY <1>2 DEF InputYield, Goto, TypeOK
  <2>2. Rank(p)' = 2
    BY <2>1 DEF Rank
  <2> QED
    BY <1>1, <2>1, <2>2, NearerWithin
<1>3. CASE InputPending(p) \/ InputError(p)
  <2>1. Spend(p) /\ op' = op /\ pc'[p] \in {"timer", "finish"}
    BY <1>3 DEF InputPending, InputError, FailDrive, Goto, TypeOK
  <2>2. Rank(p)' <= 6
    BY <2>1 DEF Rank
  <2>3. Rank(p)' <= Rank(p) + ChanCap + 3
    BY <1>1, <2>2, RankNextType
  <2> QED
    BY <2>1, <2>3, NearerSpent
<1>4. CASE ReadFrames(p)
  <2>1. PICK n \in 1 .. Len(chan[p]) : TakeInput(p, SubSeq(chan[p], 1, n))
    BY <1>4 DEF ReadFrames
  <2> DEFINE frames == SubSeq(chan[p], 1, n)
  <2>2. chan[p] \in Seq(Frames) /\ Len(chan[p]) \in Nat /\ Len(chan[p]) <= ChanCap
    BY DEF Capped, TypeOK
  <2>3. frames \in Seq(Frames) /\ Len(frames) = n
    BY <2>2
  <2>4. TakeInput(p, frames)
    BY <2>1
  <2> HIDE DEF frames
  <2>5. Len(frames) <= ChanCap
    BY <1>1, <2>2, <2>3
  <2> QED
    BY <1>1, <2>3, <2>4, <2>5, TakeNearer
<1>5. ASSUME NEW frames, frames \in Seq(Frames), Len(frames) <= 1,
             TakeInput(p, frames)
      PROVE  Nearer(p)
  <2>1. Len(frames) <= ChanCap
    BY <1>1, <1>5
  <2> QED
    BY <1>1, <1>5, <2>1, TakeNearer
<1>6. CASE ReadNoise(p)
  <2> DEFINE frames == << >>
  <2>1. frames \in Seq(Frames) /\ Len(frames) <= 1
    OBVIOUS
  <2>2. TakeInput(p, frames)
    BY <1>6 DEF ReadNoise
  <2> HIDE DEF frames
  <2> QED
    BY <1>5, <2>1, <2>2
<1>7. CASE ReadForeign(p)
  <2>1. PICK f \in Inserted : TakeInput(p, <<f>>)
    BY <1>7 DEF ReadForeign
  <2> DEFINE frames == <<f>>
  <2>2. frames \in Seq(Frames) /\ Len(frames) <= 1
    BY InsertedAssumption
  <2>3. TakeInput(p, frames)
    BY <2>1
  <2> HIDE DEF frames
  <2> QED
    BY <1>5, <2>2, <2>3
<1> QED
  BY <1>2, <1>3, <1>4, <1>6, <1>7 DEF poll_input

LEMMA ProcessNearer ==
  ASSUME TypeOK, TypeOK', HasFrame, NEW p \in Peers, Driving(p), process_frame(p)
  PROVE  Nearer(p)
<1>1. NextFrame(p)
  BY DEF process_frame, ReleasePacket, RetainPayload, AckAgain, IgnoreFrame
<1>2. /\ pc[p] = "process" /\ op' = op /\ budget' = budget /\ input'[p] = "Progress"
      /\ rx_buf[p] \in Seq(Frames) /\ rx_buf[p] # <<>>
  BY <1>1 DEF NextFrame, Driving, HasFrame, TypeOK
<1>3. /\ rx_buf'[p] = Tail(rx_buf[p])
      /\ pc'[p] = IF Tail(rx_buf[p]) = <<>> THEN "timer" ELSE "process"
  BY <1>1 DEF NextFrame, Goto, TypeOK
<1>4. Len(rx_buf[p]) \in Nat \ {0} /\ Len(rx_buf'[p]) = Len(rx_buf[p]) - 1
  BY <1>2, <1>3
<1>5. Rank(p) = 6 + Len(rx_buf[p])
  BY <1>2 DEF Rank
<1>6. Rank(p)' < Rank(p)
  <2>1. CASE Tail(rx_buf[p]) = <<>>
    BY <1>2, <1>3, <1>4, <1>5, <2>1 DEF Rank
  <2>2. CASE Tail(rx_buf[p]) # <<>>
    BY <1>2, <1>3, <1>4, <1>5, <2>2 DEF Rank
  <2> QED
    BY <2>1, <2>2
<1> QED
  BY <1>2, <1>6, NearerWithin

\* drive does not go on after a step whose input yielded.
LEMMA EndStepRank ==
  ASSUME TypeOK, NEW p \in Peers, pc[p] = "timer", NEW timer, EndStep(p, timer)
  PROVE  Rank(p)' < Rank(p)
<1>1. CASE input[p] = "Yield"
  <2>1. StepWork(p, timer) = "Yield"
    BY <1>1 DEF StepWork
  <2>2. pc'[p] = "finish"
    BY <2>1 DEF EndStep, Goto, TypeOK
  <2> QED
    BY <1>1, <2>2 DEF Rank
<1>2. CASE input[p] # "Yield"
  <2>1. pc'[p] \in {"output", "finish"}
    BY DEF EndStep, Goto, TypeOK
  <2> QED
    BY <1>2, <2>1 DEF Rank
<1> QED
  BY <1>1, <1>2

LEMMA TimerNearer ==
  ASSUME TypeOK, TypeOK', NEW p \in Peers, poll_timer(p)
  PROVE  Nearer(p)
<1>1. pc[p] = "timer" /\ op' = op /\ budget' = budget
  BY DEF poll_timer, TimerBlocked, TimerExpires, Retransmit, GiveUp,
         AllowanceOver, TimerKeeps
<1>2. Rank(p)' < Rank(p)
  <2>1. CASE TimerBlocked(p) \/ TimerExpires(p) \/ Retransmit(p)
    BY <1>1, <2>1, EndStepRank DEF TimerBlocked, TimerExpires, Retransmit
  <2>2. CASE GiveUp(p)
    <3>1. pc'[p] = "finish"
      BY <2>2 DEF GiveUp, FailDrive, Goto, TypeOK
    <3> QED
      BY <1>1, <3>1 DEF Rank
  <2> QED
    BY <2>1, <2>2 DEF poll_timer
<1> QED
  BY <1>1, <1>2, NearerWithin

\* A write drives once more, after it has accepted a packet.
LEMMA FinishNearer ==
  ASSUME TypeOK, NEW p \in Peers, finish(p)
  PROVE  Nearer(p)
<1>1. pc[p] = "finish"
  BY DEF finish, ReadReady, PollError, WriteExhausted, AcceptPacket, WriteReady,
         FlushReady, PollPending
<1>2. CASE Return(p)
  BY <1>1, <1>2, NearerReturned
<1>3. CASE AcceptPacket(p) /\ ~ Return(p)
  <2>1. /\ op[p] = "Write" /\ op'[p] = "Wrote" /\ pc'[p] = "output"
        /\ budget' = budget
    BY <1>3 DEF AcceptPacket, Goto, TypeOK
  <2>2. Rank(p) = 1 /\ Rank(p)' = 5
    BY <1>1, <2>1 DEF Rank
  <2> DEFINE n == budget[p] * (ChanCap + 4)
  <2>3. n \in Nat
    BY PaidType
  <2>4. StepsLeft(p) = n + 1 + 5 /\ StepsLeft(p)' = n + 5 + 0
    BY <2>1, <2>2 DEF StepsLeft
  <2> HIDE DEF n
  <2> QED
    BY <2>3, <2>4 DEF Nearer
<1> QED
  BY <1>2, <1>3 DEF finish, ReadReady, PollError, WriteExhausted, WriteReady,
                    FlushReady, PollPending

\* What PollEnds says of one connection.
Ends(p) ==
  /\ pc[p] = "idle" \/ StepsLeft(p)' \in 0 .. StepsLeft(p)
  /\ Poll(p) => StepsLeft(p)' < StepsLeft(p)

LEMMA EndsStep ==
  ASSUME TypeInv, TypeInv', PollInv, Capped, NEW p \in Peers, [Next]_vars
  PROVE  Ends(p)
<1>1. TypeOK /\ TypeOK' /\ HasFrame /\ Driving(p)
  BY DEF TypeInv, PollInv, ByPeer
<1>2. StepsLeft(p) \in Nat
  <2>1. Rank(p) \in Nat /\ budget[p] * (ChanCap + 4) \in Nat
    BY <1>1, RankType, PaidType
  <2> QED
    BY <2>1 DEF StepsLeft
<1>3. Poll(p) => Nearer(p)
  BY <1>1, OutputNearer, InputNearer, ProcessNearer, TimerNearer, FinishNearer
     DEF Poll
<1>4. CASE Poll(p)
  BY <1>2, <1>3, <1>4 DEF Nearer, Ends
<1>5. CASE ~ Poll(p)
  <2>1. pc[p] = "idle" \/ (UNCHANGED Connection(p) /\ UNCHANGED Fields(p))
    <3>1. CASE UNCHANGED vars
      BY <3>1 DEF vars, txVars, outVars, rxVars, pollVars, histVars, Connection,
                  Fields
    <3>2. ASSUME NEW q \in Peers, Begin(q) \/ Poll(q) \/ Lose(q) \/ Elapse(q)
          PROVE  pc[p] = "idle" \/ (UNCHANGED Connection(p) /\ UNCHANGED Fields(p))
      BY <1>1, <1>5, <3>2, Elsewhere, WorldElsewhere DEF Begin, BeginPoll
    <3> QED
      BY <3>1, <3>2 DEF Next, Begin
  <2>2. CASE UNCHANGED Connection(p) /\ UNCHANGED Fields(p)
    <3>1. /\ pc'[p] = pc[p] /\ input'[p] = input[p] /\ rx_buf'[p] = rx_buf[p]
          /\ op'[p] = op[p] /\ budget'[p] = budget[p]
      BY <2>2 DEF Connection, Fields
    <3>2. StepsLeft(p)' = StepsLeft(p)
      BY <3>1 DEF StepsLeft, Rank
    <3> QED
      BY <1>2, <1>5, <3>2 DEF Ends
  <2> QED
    BY <1>5, <2>1, <2>2 DEF Ends
<1> QED
  BY <1>4, <1>5

\* drive, process_input and poll_write return after a bounded number of steps,
\* whatever the transport, the link, the clock and the peer do meanwhile: no
\* budget is spent twice, and no pass through step is free.
THEOREM EveryPollEnds == Spec => PollEnds
<1>1. Init => TypeInv /\ PollInv /\ Capped
  BY TypeInit, PollInvInit, CappedInit
<1>2. TypeInv /\ PollInv /\ Capped /\ [Next]_vars => (TypeInv /\ PollInv /\ Capped)'
  BY TypeStep, PollInvStep, CappedStep DEF TypeInv
<1>3. TypeInv /\ PollInv /\ Capped /\ [Next]_vars => [\A p \in Peers : Ends(p)]_vars
  BY <1>2, EndsStep
<1> QED
  BY <1>1, <1>2, <1>3, PTL DEF Spec, PollEnds, Ends
=============================================================================
