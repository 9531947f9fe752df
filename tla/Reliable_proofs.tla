--------------------------- MODULE Reliable_proofs ---------------------------
(***************************************************************************)
(* Proofs of the safety of Reliable, for every value of its constants: any *)
(* payloads, packet and frame sizes, budgets, retry counts, operations,    *)
(* link errors and foreign frames, and links that hold any number of       *)
(* frames.  The first part shows that every field keeps its type, the      *)
(* second that every frame under way is Sound, the third that the two      *)
(* streams keep their invariants, and the last that they are the abstract  *)
(* streams of ByteStream.                                                  *)
(***************************************************************************)
EXTENDS Reliable, TLAPS, SequenceTheorems

\* The part of the invariant that concerns types only.
TypeInv == TypeOK /\ HasFrame /\ HasRest

\* The peers come in one pair.
LEMMA OtherPeer ==
  \A p \in Peers : Other(p) \in Peers /\ Other(p) # p /\ Other(Other(p)) = p
  BY PeersAssumption DEF Peers, Other

\* A new connection is well typed.
LEMMA TypeInit == Init => TypeInv
  BY ConfigAssumption DEF Init, TypeInv, TypeOK, HasFrame, Frames, Kinds, Blank,
     HasRest, OutIdle, None, Errors, Labels, Works

\* Budget::spend does not take the budget below zero.
LEMMA SpendType ==
  ASSUME TypeOK, NEW p \in Peers, Spend(p)
  PROVE  budget' \in [Peers -> 0 .. StepBudget]
  <1>1. budget \in [Peers -> 0 .. StepBudget] /\ StepBudget \in Nat
    BY ConfigAssumption DEF TypeOK
  <1>2. budget[p] > 0 /\ budget' = [budget EXCEPT ![p] = budget[p] - 1]
    BY DEF Spend
  <1>3. budget[p] - 1 \in 0 .. StepBudget
    BY <1>1, <1>2
  <1> QED BY <1>1, <1>2, <1>3

\* What returning from a poll does to the control variables.
LEMMA ReturnType ==
  ASSUME TypeOK, NEW p \in Peers, Return(p)
  PROVE  /\ pc' \in [Peers -> Labels]
         /\ pc'[p] # "process"
         /\ op' \in [Peers -> {"None", "Read", "Write", "Wrote", "Flush", "Progress"}]
         /\ budget' \in [Peers -> 0 .. StepBudget]
  BY ConfigAssumption DEF TypeOK, Return, Goto, Labels

\* What failing the connection in drive does to the fields it assigns.
LEMMA FailType ==
  ASSUME TypeOK, NEW p \in Peers, NEW error \in Errors, FailDrive(p, error)
  PROVE  /\ health' \in [Peers -> {"Ok", "Reported"} \cup Errors]
         /\ final_input' \in [Peers -> {None} \cup 0 .. FinalInput]
         /\ output' \in [Peers -> Works]
         /\ input' \in [Peers -> Works]
         /\ driven' \in [Peers -> Works]
         /\ pc' = [pc EXCEPT ![p] = "finish"]
  <1> USE DEF FailDrive, fail, TypeOK
  <1>1. health' \in [Peers -> {"Ok", "Reported"} \cup Errors]
    OBVIOUS
  <1>2. final_input' \in [Peers -> {None} \cup 0 .. FinalInput]
    OBVIOUS
  <1>3. QED
    BY <1>1, <1>2 DEF Works, Goto

\* The cast of tx_next to u32 is the identity while a number is left.
LEMMA Truncation ==
  ASSUME NEW n \in Nat, n < SeqLimit
  PROVE  n % SeqLimit = n
  BY ConfigAssumption

\* What poll_write does when it accepts a packet.
LEMMA AcceptIs ==
  ASSUME TypeOK, NEW p \in Peers, AcceptPacket(p)
  PROVE  \E payload \in Seq(Byte) :
           /\ tx_next[p] < SeqLimit
           /\ tx_next' = [tx_next EXCEPT ![p] = @ + 1]
           /\ tx_frame' = [tx_frame EXCEPT ![p] = encode_data(p, tx_next[p], payload)]
           /\ accepted' = [accepted EXCEPT ![p] = @ \o payload]
<1>1. PICK len \in 1 .. MaxPayload :
        LET done == Len(accepted[p])
            payload == SubSeq(Input[p], done + 1, done + len)
        IN  /\ done + len <= Len(Input[p])
            /\ tx_frame' = [tx_frame EXCEPT ![p] =
                             encode_data(p, tx_next[p] % SeqLimit, payload)]
            /\ accepted' = [accepted EXCEPT ![p] = @ \o payload]
  BY DEF AcceptPacket
<1>2. Input[p] \in Seq(Byte) /\ Len(accepted[p]) \in Nat
  BY InputAssumption DEF TypeOK
<1>3. SubSeq(Input[p], Len(accepted[p]) + 1, Len(accepted[p]) + len) \in Seq(Byte)
  BY <1>1, <1>2
<1>4. tx_next[p] < SeqLimit /\ tx_next' = [tx_next EXCEPT ![p] = @ + 1]
  BY DEF AcceptPacket, SeqLeft
<1>5. tx_next[p] \in Nat
  BY ConfigAssumption DEF TypeOK
<1>6. tx_next[p] % SeqLimit = tx_next[p]
  BY <1>4, <1>5, Truncation
<1>7. QED
  BY <1>1, <1>3, <1>4, <1>6

\* queue_packet fills the fields it assigns with values of their types.
LEMMA AcceptType ==
  ASSUME TypeOK, NEW p \in Peers, AcceptPacket(p)
  PROVE  /\ tx_frame' \in [Peers -> Frames]
         /\ accepted' \in [Peers -> Seq(Byte)]
         /\ tx_next' \in [Peers -> 0 .. SeqLimit]
         /\ tx_retries' \in [Peers -> 0 .. MaxRetries]
         /\ sends' \in [Peers -> Nat]
         /\ pc' \in [Peers -> Labels]
         /\ op' \in [Peers -> {"None", "Read", "Write", "Wrote", "Flush", "Progress"}]
         /\ budget' \in [Peers -> 0 .. StepBudget]
<1>1. PICK payload \in Seq(Byte) :
        /\ tx_next[p] < SeqLimit
        /\ tx_next' = [tx_next EXCEPT ![p] = @ + 1]
        /\ tx_frame' = [tx_frame EXCEPT ![p] = encode_data(p, tx_next[p], payload)]
        /\ accepted' = [accepted EXCEPT ![p] = @ \o payload]
  BY AcceptIs
<1>2. tx_next \in [Peers -> 0 .. SeqLimit] /\ SeqLimit \in Nat
  BY ConfigAssumption DEF TypeOK
<1>3. encode_data(p, tx_next[p], payload) \in Frames
  BY <1>2, ConfigAssumption DEF encode_data, Frames, Kinds
<1>4. tx_frame' \in [Peers -> Frames]
  BY <1>1, <1>3 DEF TypeOK
<1>5. accepted' \in [Peers -> Seq(Byte)]
  BY <1>1 DEF TypeOK
<1>6. tx_next' \in [Peers -> 0 .. SeqLimit]
  BY <1>1, <1>2
<1>7. /\ tx_retries' = [tx_retries EXCEPT ![p] = 0]
      /\ sends' = [sends EXCEPT ![p] = 0]
      /\ \/ Return(p)
         \/ op' = [op EXCEPT ![p] = "Wrote"] /\ Goto(p, "output") /\ UNCHANGED budget
  BY DEF AcceptPacket
<1>8. tx_retries' \in [Peers -> 0 .. MaxRetries] /\ sends' \in [Peers -> Nat]
  BY <1>7, ConfigAssumption DEF TypeOK
<1>9. /\ pc' \in [Peers -> Labels]
      /\ op' \in [Peers -> {"None", "Read", "Write", "Wrote", "Flush", "Progress"}]
      /\ budget' \in [Peers -> 0 .. StepBudget]
  <2>1. CASE Return(p)
    BY <2>1, ReturnType
  <2>2. CASE /\ op' = [op EXCEPT ![p] = "Wrote"]
             /\ Goto(p, "output")
             /\ UNCHANGED budget
    BY <2>2 DEF TypeOK, Goto, Labels
  <2>3. QED
    BY <1>7, <2>1, <2>2
<1> QED
  BY <1>4, <1>5, <1>6, <1>8, <1>9

\* The end of a step, whatever poll_timer returned.
LEMMA EndStepType ==
  ASSUME TypeOK, NEW p \in Peers, NEW timer \in Works, EndStep(p, timer)
  PROVE  /\ output' \in [Peers -> Works]
         /\ input' \in [Peers -> Works]
         /\ driven' \in [Peers -> Works]
         /\ pc' \in [Peers -> Labels]
         /\ pc'[p] # "process" /\ \A q \in Peers \ {p} : pc'[q] = pc[q]
<1>1. StepWork(p, timer) \in Works
  BY DEF StepWork, Works
<1>2. driven' \in [Peers -> Works]
  BY <1>1 DEF EndStep, TypeOK
<1>3. output' \in [Peers -> Works] /\ input' \in [Peers -> Works]
  BY DEF EndStep, TypeOK, Works
<1>4. pc' = [pc EXCEPT ![p] = "output"] \/ pc' = [pc EXCEPT ![p] = "finish"]
  BY DEF EndStep, Goto
<1> QED
  BY <1>2, <1>3, <1>4 DEF TypeOK, Labels

\* An encoded acknowledgment is a frame.
LEMMA EncodeAckType ==
  ASSUME NEW p \in Peers, NEW seq \in Nat
  PROVE  encode_ack(p, seq) \in Frames
  BY ConfigAssumption DEF encode_ack, Frames, Kinds

\* What the link holds after accepting n more units of a frame.
LEMMA UnitsType ==
  ASSUME TypeOK, NEW p \in Peers, NEW n \in Nat \ {0}
  PROVE  /\ Units(p, n) \in Seq(Frames)
         /\ Len(Units(p, n)) > 0
         /\ \A i \in 1 .. Len(Units(p, n)) :
              \/ Units(p, n)[i] = Buffer(p)
              \/ \E j \in 1 .. Len(wire[p]) : Units(p, n)[i] = wire[p][j]
  <1> DEFINE rest == [i \in 1 .. n |-> Buffer(p)]
  <1>1. wire[p] \in Seq(Frames) /\ Buffer(p) \in Frames
    BY DEF TypeOK, Buffer
  <1>2. rest \in Seq(Frames) /\ Len(rest) = n /\ \A i \in 1 .. n : rest[i] = Buffer(p)
    BY <1>1
  <1>3. Units(p, n) = wire[p] \o rest
    BY DEF Units
  <1> HIDE DEF rest
  <1>4. QED
    BY <1>1, <1>2, <1>3, ConcatProperties

\* What the receiver makes of a run of units is a frame.
LEMMA AssembledType ==
  ASSUME TypeOK, HasRest, NEW p \in Peers, out[p].at = "Writing"
  PROVE  LET n == FrameLen(p) - out[p].offset
         IN  /\ n \in Nat \ {0}
             /\ Assemble(Units(p, n)) \in {Units(p, n)[1], Torn}
             /\ Assemble(Units(p, n)) \in Frames
  <1> DEFINE n == FrameLen(p) - out[p].offset
  <1>1. n \in Nat \ {0}
    <2>1. FrameLen(p) \in Nat /\ out[p].offset \in Nat
      BY ConfigAssumption DEF TypeOK, FrameLen
    <2>2. QED
      BY <2>1 DEF HasRest
  <1> HIDE DEF n
  <1>2. Units(p, n) \in Seq(Frames) /\ Len(Units(p, n)) > 0
    BY <1>1, UnitsType
  <1>3. Assemble(Units(p, n)) \in {Units(p, n)[1], Torn}
    BY DEF Assemble
  <1>4. Torn \in Frames
    BY DEF Torn, Frames, Kinds
  <1>5. Units(p, n)[1] \in Frames
    BY <1>2
  <1>6. QED
    BY <1>1, <1>3, <1>4, <1>5 DEF n

\* Bytes read leave the allowance and the frame buffer well typed.
LEMMA TakeInputType ==
  ASSUME TypeOK, NEW p \in Peers, NEW frames \in Seq(Frames), TakeInput(p, frames)
  PROVE  /\ budget' \in [Peers -> 0 .. StepBudget]
         /\ final_input' \in [Peers -> {None} \cup 0 .. FinalInput]
         /\ rx_buf' \in [Peers -> Seq(Frames)]
         /\ input' \in [Peers -> Works]
         /\ pc' \in [Peers -> Labels]
  <1>1. budget' \in [Peers -> 0 .. StepBudget]
    BY SpendType DEF TakeInput
  <1>2. final_input' \in [Peers -> {None} \cup 0 .. FinalInput]
    <2>1. final_input \in [Peers -> {None} \cup 0 .. FinalInput]
      BY DEF TypeOK
    <2>2. PICK read \in 1 .. FinalInput :
            final_input' = [final_input EXCEPT ![p] =
                             IF @ = None THEN None
                             ELSE IF @ > read THEN @ - read ELSE 0]
      BY DEF TakeInput
    <2>3. FinalInput \in Nat /\ None \notin Nat
      BY ConfigAssumption DEF None
    <2>4. CASE final_input[p] = None
      BY <2>1, <2>2, <2>4
    <2>5. CASE final_input[p] # None
      <3>1. final_input[p] \in 0 .. FinalInput
        BY <2>1, <2>5
      <3>2. (IF final_input[p] > read THEN final_input[p] - read ELSE 0)
              \in 0 .. FinalInput
        BY <2>3, <3>1
      <3>3. QED
        BY <2>1, <2>2, <2>5, <3>2
    <2>6. QED
      BY <2>4, <2>5
  <1>3. rx_buf' \in [Peers -> Seq(Frames)]
    BY DEF TakeInput, TypeOK
  <1>4. input' \in [Peers -> Works] /\ pc' \in [Peers -> Labels]
    BY DEF TakeInput, TypeOK, Works, Labels, Goto
  <1>5. QED
    BY <1>1, <1>2, <1>3, <1>4

\* poll_output keeps the types.
LEMMA PollOutputType ==
  ASSUME TypeOK, HasRest, NEW p \in Peers, poll_output(p)
  PROVE  TypeOK'
<1> USE DEF TypeOK, txVars, outVars, rxVars, pollVars, histVars, Goto, Labels
<1>1. CASE OutputIdle(p)
  BY <1>1 DEF OutputIdle, Works
<1>2. CASE StartAck(p)
  <2>1. encode_ack(p, ack_pending[p]) \in Frames
    <3>1. ack_pending[p] \in Nat
      BY <1>2 DEF StartAck
    <3> QED
      BY <3>1, EncodeAckType
  <2>2. ack_frame' \in [Peers -> Frames]
    BY <1>2, <2>1 DEF StartAck
  <2>3. ack_pending' \in [Peers -> {None} \cup Nat]
    BY <1>2 DEF StartAck
  <2> QED
    BY <1>2, <2>2, <2>3 DEF StartAck
<1>3. CASE StartData(p)
  BY <1>3 DEF StartData
<1>4. CASE OutputYield(p)
  BY <1>4 DEF OutputYield, Works
<1>5. CASE OutputPending(p)
  <2>1. budget' \in [Peers -> 0 .. StepBudget]
    BY <1>5, SpendType DEF OutputPending
  <2> QED
    BY <1>5, <2>1 DEF OutputPending, Works
<1>6. CASE OutputError(p)
  <2>1. budget' \in [Peers -> 0 .. StepBudget]
    BY <1>6, SpendType DEF OutputError
  <2>2. PICK error \in Errors : FailDrive(p, error)
    BY <1>6, InputAssumption DEF OutputError, Errors
  <2> QED
    BY <1>6, <2>1, <2>2, FailType DEF OutputError
<1>7. CASE WritePart(p)
  <2>1. budget' \in [Peers -> 0 .. StepBudget]
    BY <1>7, SpendType DEF WritePart
  <2>2. PICK n \in 1 .. FrameLen(p) - out[p].offset - 1 :
          /\ wire' = [wire EXCEPT ![p] = Units(p, n)]
          /\ out' = [out EXCEPT ![p] = [at |-> "Writing", frame |-> @.frame,
                                       offset |-> @.offset + n]]
    BY <1>7 DEF WritePart
  <2>3. n \in Nat \ {0}
    OBVIOUS
  <2>4. wire' \in [Peers -> Seq(Frames)]
    BY <2>2, <2>3, UnitsType
  <2>5. out' \in [Peers -> [at : {"Idle", "Writing", "Flushing"},
                            frame : {"None", "Ack", "Data"}, offset : Nat]]
    BY <2>2, <2>3
  <2> QED
    BY <1>7, <2>1, <2>4, <2>5 DEF WritePart, Works
<1>8. CASE WriteRest(p)
  <2>1. budget' \in [Peers -> 0 .. StepBudget]
    BY <1>8, SpendType DEF WriteRest
  <2>2. Assemble(Units(p, FrameLen(p) - out[p].offset)) \in Frames
    BY <1>8, AssembledType DEF WriteRest
  <2>3. chan' \in [Peers -> Seq(Frames)]
    BY <1>8, <2>2, OtherPeer DEF WriteRest
  <2>4. wire' \in [Peers -> Seq(Frames)]
    BY <1>8 DEF WriteRest
  <2>5. sends' \in [Peers -> Nat]
    BY <1>8 DEF WriteRest
  <2>6. out' \in [Peers -> [at : {"Idle", "Writing", "Flushing"},
                            frame : {"None", "Ack", "Data"}, offset : Nat]]
    BY <1>8 DEF WriteRest
  <2> QED
    BY <1>8, <2>1, <2>3, <2>4, <2>5, <2>6 DEF WriteRest, Works
<1>9. CASE FlushDone(p)
  <2>1. budget' \in [Peers -> 0 .. StepBudget]
    BY <1>9, SpendType DEF FlushDone
  <2>2. out' \in [Peers -> [at : {"Idle", "Writing", "Flushing"},
                            frame : {"None", "Ack", "Data"}, offset : Nat]]
    <3> DEFINE Outs == [at : {"Idle", "Writing", "Flushing"},
                        frame : {"None", "Ack", "Data"}, offset : Nat]
    <3>1. out \in [Peers -> Outs] /\ OutIdle \in Outs
      BY DEF TypeOK, OutIdle
    <3>2. out' = [out EXCEPT ![p] = OutIdle]
      BY <1>9 DEF FlushDone
    <3> HIDE DEF Outs
    <3>3. out' \in [Peers -> Outs]
      BY <3>1, <3>2
    <3> QED BY <3>3 DEF Outs
  <2>3. \/ /\ tx' = [tx EXCEPT ![p] = "Waiting"]
           /\ final_input' = [final_input EXCEPT ![p] = None]
           /\ due' = [due EXCEPT ![p] = FALSE]
        \/ tx' = tx /\ final_input' = final_input /\ due' = due
    BY <1>9 DEF FlushDone
  <2>4. tx' \in [Peers -> {"Idle", "Queued", "Sending", "Waiting"}]
    BY <2>3
  <2>5. /\ final_input' \in [Peers -> {None} \cup 0 .. FinalInput]
        /\ due' \in [Peers -> BOOLEAN]
    BY <2>3
  <2> QED
    BY <1>9, <2>1, <2>2, <2>4, <2>5 DEF FlushDone, Works
<1> QED
  BY <1>1, <1>2, <1>3, <1>4, <1>5, <1>6, <1>7, <1>8, <1>9 DEF poll_output

\* poll_input keeps the types.
LEMMA PollInputType ==
  ASSUME TypeOK, NEW p \in Peers, poll_input(p)
  PROVE  TypeOK'
<1> USE DEF TypeOK, txVars, outVars, rxVars, pollVars, histVars, Goto, Labels
<1>1. CASE InputYield(p)
  BY <1>1 DEF InputYield, Works
<1>2. CASE InputPending(p)
  <2>1. budget' \in [Peers -> 0 .. StepBudget]
    BY <1>2, SpendType DEF InputPending
  <2> QED
    BY <1>2, <2>1 DEF InputPending, Works
<1>3. CASE InputError(p)
  <2>1. budget' \in [Peers -> 0 .. StepBudget]
    BY <1>3, SpendType DEF InputError
  <2>2. PICK error \in Errors : FailDrive(p, error)
    BY <1>3, InputAssumption DEF InputError, Errors
  <2> QED
    BY <1>3, <2>1, <2>2, FailType DEF InputError
<1>4. ASSUME NEW frames \in Seq(Frames), TakeInput(p, frames),
             chan' \in [Peers -> Seq(Frames)]
      PROVE  TypeOK'
  <2>1. /\ budget' \in [Peers -> 0 .. StepBudget]
        /\ final_input' \in [Peers -> {None} \cup 0 .. FinalInput]
        /\ rx_buf' \in [Peers -> Seq(Frames)]
        /\ input' \in [Peers -> Works]
        /\ pc' \in [Peers -> Labels]
    BY <1>4, TakeInputType
  <2> QED
    BY <1>4, <2>1 DEF TakeInput
<1>5. CASE ReadFrames(p)
  <2>1. PICK n \in 1 .. Len(chan[p]) :
          /\ TakeInput(p, SubSeq(chan[p], 1, n))
          /\ chan' = [chan EXCEPT ![p] = SubSeq(@, n + 1, Len(@))]
    BY <1>5 DEF ReadFrames
  <2>2. chan[p] \in Seq(Frames)
    OBVIOUS
  <2>3. SubSeq(chan[p], 1, n) \in Seq(Frames)
    BY <2>2
  <2>4. SubSeq(chan[p], n + 1, Len(chan[p])) \in Seq(Frames)
    BY <2>2
  <2>5. chan' \in [Peers -> Seq(Frames)]
    BY <2>1, <2>4
  <2> QED
    BY <1>4, <2>1, <2>3, <2>5
<1>6. CASE ReadNoise(p)
  <2>1. <<>> \in Seq(Frames)
    OBVIOUS
  <2> QED
    BY <1>4, <1>6, <2>1 DEF ReadNoise
<1>7. CASE ReadForeign(p)
  <2>1. PICK f \in Inserted : TakeInput(p, <<f>>)
    BY <1>7 DEF ReadForeign
  <2>2. <<f>> \in Seq(Frames)
    BY InsertedAssumption
  <2> QED
    BY <1>4, <1>7, <2>1, <2>2 DEF ReadForeign
<1> QED
  BY <1>1, <1>2, <1>3, <1>5, <1>6, <1>7 DEF poll_input

\* process_frame keeps the types.
LEMMA ProcessFrameType ==
  ASSUME TypeOK, HasFrame, NEW p \in Peers, process_frame(p)
  PROVE  TypeOK'
<1> DEFINE f == Head(rx_buf[p])
<1>1. NextFrame(p)
  BY DEF process_frame, ReleasePacket, RetainPayload, AckAgain, IgnoreFrame
<1>2. rx_buf[p] \in Seq(Frames) /\ rx_buf[p] # <<>>
  BY <1>1 DEF TypeOK, HasFrame, NextFrame
<1>3. f \in Frames /\ Tail(rx_buf[p]) \in Seq(Frames)
  BY <1>2
<1>4. f.seq \in Nat /\ f.payload \in Seq(Byte)
  BY <1>3 DEF Frames
<1> HIDE DEF f
<1>5. rx_buf' \in [Peers -> Seq(Frames)]
  BY <1>1, <1>3 DEF TypeOK, NextFrame
<1>6. pc' \in [Peers -> Labels]
  BY <1>1 DEF TypeOK, NextFrame, Goto, Labels
<1> USE DEF TypeOK, txVars, outVars, rxVars, pollVars, histVars
<1>7. CASE ReleasePacket(p)
  <2>1. tx_retries' \in [Peers -> 0 .. MaxRetries]
    BY <1>7, ConfigAssumption DEF ReleasePacket
  <2>2. tx' \in [Peers -> {"Idle", "Queued", "Sending", "Waiting"}]
    BY <1>7 DEF ReleasePacket
  <2>3. /\ final_input' \in [Peers -> {None} \cup 0 .. FinalInput]
        /\ due' \in [Peers -> BOOLEAN]
    BY <1>7 DEF ReleasePacket
  <2> QED
    BY <1>7, <2>1, <2>2, <2>3, <1>5, <1>6 DEF ReleasePacket, NextFrame
<1>8. CASE RetainPayload(p)
  <2>1. rx' \in [Peers -> Seq(Byte)] /\ rx_next' \in [Peers -> Nat]
    BY <1>8, <1>4 DEF RetainPayload, f
  <2>2. ack_pending' \in [Peers -> {None} \cup Nat]
    BY <1>8, <1>4 DEF RetainPayload, f
  <2> QED
    BY <1>8, <2>1, <2>2, <1>5, <1>6 DEF RetainPayload, NextFrame
<1>9. CASE AckAgain(p)
  <2>1. ack_pending' \in [Peers -> {None} \cup Nat]
    BY <1>9, <1>4 DEF AckAgain, f
  <2> QED
    BY <1>9, <2>1, <1>5, <1>6 DEF AckAgain, NextFrame
<1>10. CASE IgnoreFrame(p)
  BY <1>10, <1>5, <1>6 DEF IgnoreFrame, NextFrame
<1> QED
  BY <1>7, <1>8, <1>9, <1>10 DEF process_frame

\* poll_timer keeps the types.
LEMMA PollTimerType ==
  ASSUME TypeOK, NEW p \in Peers, poll_timer(p)
  PROVE  TypeOK'
<1> USE DEF TypeOK, txVars, outVars, rxVars, pollVars, histVars
<1>1. CASE TimerBlocked(p)
  <2>1. EndStep(p, "Blocked") /\ "Blocked" \in Works
    BY <1>1 DEF TimerBlocked, Works
  <2> QED
    BY <1>1, <2>1, EndStepType DEF TimerBlocked, TimerKeeps
<1>2. CASE TimerExpires(p)
  <2>1. EndStep(p, "Progress") /\ "Progress" \in Works
    BY <1>2 DEF TimerExpires, Works
  <2>2. final_input' \in [Peers -> {None} \cup 0 .. FinalInput]
    BY <1>2, ConfigAssumption DEF TimerExpires
  <2> QED
    BY <1>2, <2>1, <2>2, EndStepType DEF TimerExpires, TimerKeeps
<1>3. CASE Retransmit(p)
  <2>1. EndStep(p, "Progress") /\ "Progress" \in Works
    BY <1>3 DEF Retransmit, Works
  <2>2. tx_retries' \in [Peers -> 0 .. MaxRetries]
    <3>1. /\ tx_retries[p] < MaxRetries
          /\ tx_retries' = [tx_retries EXCEPT ![p] = @ + 1]
      BY <1>3 DEF Retransmit, RetriesLeft
    <3>2. MaxRetries \in Nat /\ tx_retries[p] \in 0 .. MaxRetries
      BY ConfigAssumption
    <3>3. tx_retries[p] + 1 \in 0 .. MaxRetries
      BY <3>1, <3>2
    <3> QED
      BY <3>1, <3>3
  <2>3. final_input' \in [Peers -> {None} \cup 0 .. FinalInput]
    BY <1>3 DEF Retransmit
  <2> QED
    BY <1>3, <2>1, <2>2, <2>3, EndStepType DEF Retransmit, TimerKeeps
<1>4. CASE GiveUp(p)
  <2>1. FailDrive(p, "Timeout") /\ "Timeout" \in Errors
    BY <1>4 DEF GiveUp, Errors
  <2> QED
    BY <1>4, <2>1, FailType DEF GiveUp, TimerKeeps, Labels
<1> QED
  BY <1>1, <1>2, <1>3, <1>4 DEF poll_timer

\* The ends of the poll methods keep the types.
LEMMA FinishType ==
  ASSUME TypeOK, NEW p \in Peers, finish(p)
  PROVE  TypeOK'
<1> USE DEF TypeOK, txVars, outVars, rxVars, histVars, FinishKeeps
<1>1. CASE ReadReady(p)
  <2>1. PICK len \in 1 .. Len(rx[p]) :
          /\ delivered' = [delivered EXCEPT ![p] = @ \o SubSeq(rx[p], 1, len)]
          /\ rx' = [rx EXCEPT ![p] = SubSeq(@, len + 1, Len(@))]
    BY <1>1 DEF ReadReady
  <2>2. /\ SubSeq(rx[p], 1, len) \in Seq(Byte)
        /\ SubSeq(rx[p], len + 1, Len(rx[p])) \in Seq(Byte)
    OBVIOUS
  <2>3. delivered \in [Peers -> Seq(Byte)] /\ rx \in [Peers -> Seq(Byte)]
    OBVIOUS
  <2>4. delivered[p] \o SubSeq(rx[p], 1, len) \in Seq(Byte)
    BY <2>2, <2>3
  <2>5. delivered' \in [Peers -> Seq(Byte)]
    BY <2>1, <2>3, <2>4
  <2>6. rx' \in [Peers -> Seq(Byte)]
    BY <2>1, <2>2, <2>3
  <2> QED
    BY <1>1, <2>5, <2>6, ReturnType DEF ReadReady
<1>2. CASE PollError(p)
  BY <1>2, ReturnType DEF PollError
<1>3. CASE WriteExhausted(p)
  BY <1>3, ReturnType DEF WriteExhausted
<1>4. CASE AcceptPacket(p)
  BY <1>4, AcceptType DEF AcceptPacket
<1>5. CASE WriteReady(p)
  BY <1>5, ReturnType DEF WriteReady
<1>6. CASE FlushReady(p)
  <2>1. flushed' \in [Peers -> Nat]
    BY <1>6 DEF FlushReady
  <2> QED
    BY <1>6, <2>1, ReturnType DEF FlushReady
<1>7. CASE PollPending(p)
  BY <1>7, ReturnType DEF PollPending
<1> QED
  BY <1>1, <1>2, <1>3, <1>4, <1>5, <1>6, <1>7 DEF finish

\* process_frame is entered only with a frame in the buffer.
LEMMA PollHasFrame ==
  ASSUME TypeOK, HasFrame, NEW p \in Peers, Poll(p)
  PROVE  HasFrame'
<1>1. pc \in [Peers -> Labels] /\ rx_buf \in [Peers -> Seq(Frames)]
  BY DEF TypeOK
<1>2. CASE UNCHANGED rx_buf /\ \E l \in Labels \ {"process"} : Goto(p, l)
  BY <1>1, <1>2 DEF HasFrame, Goto
<1>3. ASSUME NEW frames, TakeInput(p, frames)
      PROVE  HasFrame'
  BY <1>1, <1>3 DEF HasFrame, TakeInput, Goto
<1>4. CASE poll_output(p)
  BY <1>2, <1>4 DEF poll_output, OutputIdle, StartAck, StartData, OutputYield,
     OutputPending, OutputError, FailDrive, WritePart, WriteRest, FlushDone, Labels
<1>5. CASE poll_input(p)
  BY <1>2, <1>3, <1>5 DEF poll_input, InputYield, InputPending, InputError,
     FailDrive, ReadFrames, ReadNoise, ReadForeign, Labels
<1>6. CASE process_frame(p)
  <2>1. NextFrame(p)
    BY <1>6 DEF process_frame, ReleasePacket, RetainPayload, AckAgain, IgnoreFrame
  <2> QED
    BY <1>1, <2>1 DEF HasFrame, NextFrame, Goto
<1>7. CASE poll_timer(p)
  BY <1>2, <1>7 DEF poll_timer, TimerBlocked, TimerExpires, Retransmit, GiveUp,
     TimerKeeps, EndStep, FailDrive, Labels
<1>8. CASE finish(p)
  BY <1>2, <1>8 DEF finish, ReadReady, PollError, WriteExhausted, AcceptPacket,
     WriteReady, FlushReady, PollPending, Return, FinishKeeps, Labels
<1> QED
  BY <1>4, <1>5, <1>6, <1>7, <1>8 DEF Poll

\* poll_output never leaves a frame in Writing with nothing left to write.
LEMMA PollHasRest ==
  ASSUME TypeOK, HasRest, NEW p \in Peers, Poll(p)
  PROVE  HasRest'
<1>1. /\ out \in [Peers -> [at : {"Idle", "Writing", "Flushing"},
                            frame : {"None", "Ack", "Data"}, offset : Nat]]
      /\ DataLen \in Nat \ {0}
      /\ AckLen \in Nat \ {0}
  BY ConfigAssumption DEF TypeOK
<1>2. CASE UNCHANGED out
  BY <1>2 DEF HasRest, FrameLen
<1>3. CASE StartAck(p)
  BY <1>1, <1>3 DEF StartAck, HasRest, FrameLen
<1>4. CASE StartData(p)
  BY <1>1, <1>4 DEF StartData, HasRest, FrameLen
<1>5. CASE WritePart(p)
  <2>1. PICK n \in 1 .. FrameLen(p) - out[p].offset - 1 :
          out' = [out EXCEPT ![p] = [at |-> "Writing", frame |-> @.frame,
                                     offset |-> @.offset + n]]
    BY <1>5 DEF WritePart
  <2>2. FrameLen(p) \in Nat /\ out[p].offset + n < FrameLen(p)
    BY <1>1, <2>1 DEF FrameLen
  <2> QED
    BY <1>1, <2>1, <2>2 DEF HasRest, FrameLen
<1>6. CASE WriteRest(p) \/ FlushDone(p)
  BY <1>1, <1>6 DEF WriteRest, FlushDone, OutIdle, HasRest, FrameLen
<1> QED
  BY <1>2, <1>3, <1>4, <1>5, <1>6 DEF Poll, poll_output, poll_input, process_frame,
     poll_timer, finish, OutputIdle, OutputYield, OutputPending, OutputError,
     InputYield, InputPending, InputError, ReadFrames, ReadNoise, ReadForeign,
     TakeInput, ReleasePacket, RetainPayload, AckAgain, IgnoreFrame, NextFrame,
     TimerBlocked, TimerExpires, Retransmit, GiveUp, TimerKeeps, ReadReady,
     PollError, WriteExhausted, AcceptPacket, WriteReady, FlushReady, PollPending,
     FinishKeeps, outVars

\* Every step of the two peers, the link and the clock keeps the types.
LEMMA TypeStep ==
  ASSUME TypeInv, [Next]_vars
  PROVE  TypeInv'
<1> USE DEF TypeInv
<1>1. ASSUME NEW p \in Peers, NEW o \in Ops[p], BeginPoll(p, o)
      PROVE  TypeInv'
  <2>1. o \in {"None", "Read", "Write", "Wrote", "Flush", "Progress"}
    BY InputAssumption
  <2>2. op' \in [Peers -> {"None", "Read", "Write", "Wrote", "Flush", "Progress"}]
    BY <1>1, <2>1 DEF BeginPoll, TypeOK
  <2>3. budget' \in [Peers -> 0 .. StepBudget]
    BY <1>1, ConfigAssumption DEF BeginPoll, TypeOK
  <2>4. pc' \in [Peers -> Labels] /\ driven' \in [Peers -> Works]
    BY <1>1 DEF BeginPoll, TypeOK, Goto, Labels, Works
  <2>5. TypeOK'
    BY <1>1, <2>2, <2>3, <2>4
       DEF BeginPoll, TypeOK, txVars, outVars, rxVars, histVars
  <2>6. HasFrame' /\ HasRest'
    BY <1>1 DEF BeginPoll, TypeOK, Goto, HasFrame, HasRest, FrameLen, outVars
  <2>7. QED
    BY <2>5, <2>6
<1>2. ASSUME NEW p \in Peers, Poll(p)
      PROVE  TypeInv'
  <2>1. TypeOK'
    BY <1>2, PollOutputType, PollInputType, ProcessFrameType, PollTimerType,
       FinishType DEF Poll
  <2>2. HasFrame'
    BY <1>2, PollHasFrame
  <2>3. HasRest'
    BY <1>2, PollHasRest
  <2>4. QED
    BY <2>1, <2>2, <2>3
<1>3. ASSUME NEW p \in Peers, Lose(p)
      PROVE  TypeInv'
  <2>1. PICK i \in 1 .. Len(chan[p]) :
          chan' = [chan EXCEPT ![p] =
                    [j \in 1 .. Len(@) - 1 |-> IF j < i THEN @[j] ELSE @[j + 1]]]
    BY <1>3 DEF Lose
  <2>2. chan \in [Peers -> Seq(Frames)]
    BY DEF TypeOK
  <2>3. [j \in 1 .. Len(chan[p]) - 1 |->
           IF j < i THEN chan[p][j] ELSE chan[p][j + 1]] \in Seq(Frames)
    BY <2>2
  <2>4. chan' \in [Peers -> Seq(Frames)]
    BY <2>1, <2>2, <2>3
  <2>5. TypeOK'
    BY <1>3, <2>4 DEF Lose, TypeOK, txVars, outVars, rxVars, pollVars, histVars
  <2>6. HasFrame' /\ HasRest'
    BY <1>3 DEF Lose, HasFrame, HasRest, FrameLen, outVars, pollVars
  <2>7. QED
    BY <2>5, <2>6
<1>4. ASSUME NEW p \in Peers, Elapse(p)
      PROVE  TypeInv'
  <2>1. TypeOK'
    BY <1>4 DEF Elapse, TypeOK, outVars, rxVars, pollVars, histVars
  <2>2. HasFrame' /\ HasRest'
    BY <1>4 DEF Elapse, HasFrame, HasRest, FrameLen, outVars, pollVars
  <2>3. QED
    BY <2>1, <2>2
<1>5. CASE UNCHANGED vars
  <2>1. TypeOK'
    BY <1>5 DEF vars, TypeOK, txVars, outVars, rxVars, pollVars, histVars
  <2>2. HasFrame' /\ HasRest'
    BY <1>5 DEF vars, HasFrame, HasRest, FrameLen, outVars, pollVars
  <2>3. QED
    BY <2>1, <2>2
<1> QED
  BY <1>1, <1>2, <1>3, <1>4, <1>5 DEF Next

\* Every behaviour keeps every field within its type.
THEOREM TypeCorrect == Spec => []TypeOK
<1>1. TypeInv /\ [Next]_vars => TypeInv'
  BY TypeStep
<1>2. TypeInv => TypeOK
  BY DEF TypeInv
<1>3. QED
  BY TypeInit, <1>1, <1>2, PTL DEF Spec

-----------------------------------------------------------------------------
(* Exactly-once delivery *)

\* Sound in the next state, of a frame given by its value.
SoundNext(p, f) ==
  f.session = Session[Other(p)] =>
    /\ f.kind = "Data" =>
         /\ f.seq < tx_next'[p]
         /\ f.seq + 1 = tx_next'[p] => f.payload = tx_frame'[p].payload
    /\ f.kind = "Ack" => f.seq < rx_next'[p]

\* What a step does to the counters of p: they grow, and the outgoing buffer
\* changes only together with the outgoing sequence number.
Grows(p) ==
  /\ rx_next'[p] >= rx_next[p]
  /\ \/ tx_next'[p] = tx_next[p] /\ tx_frame'[p] = tx_frame[p]
     \/ tx_next'[p] = tx_next[p] + 1

\* The elements of an appended sequence.
LEMMA AppendElements ==
  ASSUME NEW S, NEW s \in Seq(S), NEW g
  PROVE  \A f \in Elements(Append(s, g)) : f \in Elements(s) \/ f = g
  BY DEF Elements

\* A part of a sequence has no new elements.
LEMMA SubSeqElements ==
  ASSUME NEW S, NEW s \in Seq(S), NEW m \in 1 .. Len(s) + 1, NEW n \in 0 .. Len(s)
  PROVE  Elements(SubSeq(s, m, n)) \subseteq Elements(s)
  BY SubSeqProperties DEF Elements

\* The head and the tail of a sequence have no new elements.
LEMMA TailElements ==
  ASSUME NEW S, NEW s \in Seq(S), s # <<>>
  PROVE  Elements(Tail(s)) \subseteq Elements(s)
  BY HeadTailProperties DEF Elements

\* The two sequence counters are numbers.
LEMMA CountersType ==
  ASSUME TypeOK, NEW p \in Peers
  PROVE  tx_next[p] \in Nat /\ rx_next[p] \in Nat
  BY ConfigAssumption DEF TypeOK

\* Everything under way is a frame.
LEMMA UnderWayType ==
  ASSUME TypeOK, NEW p \in Peers, NEW f \in UnderWay(p)
  PROVE  f \in Frames /\ f.seq \in Nat
<1>1. /\ tx_frame[p] \in Frames
      /\ ack_frame[p] \in Frames
      /\ wire[p] \in Seq(Frames)
      /\ chan[Other(p)] \in Seq(Frames)
      /\ rx_buf[Other(p)] \in Seq(Frames)
  BY OtherPeer DEF TypeOK
<1>2. f \in Frames
  BY <1>1 DEF UnderWay, Elements
<1>3. QED
  BY <1>2 DEF Frames

\* Soundness of what was under way survives every growth of the counters, so a
\* step has to account only for the frames it adds.
LEMMA FramesKept ==
  ASSUME TypeOK, TypeOK', FramesSound,
         \A p \in Peers : Grows(p),
         \A p \in Peers : \A f \in UnderWay(p)' : f \in UnderWay(p) \/ SoundNext(p, f),
         \A p \in Peers : ack_pending'[p] < rx_next'[p]
  PROVE  FramesSound'
<1>1. ASSUME NEW p \in Peers, NEW f \in UnderWay(p)
      PROVE  SoundNext(p, f)
  <2>1. Sound(p, f) /\ Grows(p) /\ f.seq \in Nat
    BY UnderWayType DEF FramesSound
  <2>2. tx_next[p] \in Nat /\ rx_next[p] \in Nat /\ rx_next'[p] \in Nat
    BY ConfigAssumption DEF TypeOK
  <2>3. QED
    BY <2>1, <2>2 DEF Sound, SoundNext, Grows
<1>2. \A p \in Peers : \A f \in UnderWay(p)' : SoundNext(p, f)
  BY <1>1
<1>3. QED
  BY <1>2 DEF FramesSound, Sound, SoundNext

\* The variables FramesSound is about, and those the stream properties are about.
frameVars == <<tx_frame, tx_next, ack_frame, wire, chan, rx_buf, ack_pending, rx_next>>

\* A step that leaves the counters and the outgoing buffers alone.
LEMMA CountersKept ==
  ASSUME TypeOK, UNCHANGED <<tx_frame, tx_next, rx_next>>
  PROVE  \A p \in Peers : Grows(p)
  BY CountersType DEF Grows

\* poll_output puts only sound frames under way: the pending acknowledgment is
\* for retained DATA, and units on the wire come from the frame buffers.
LEMMA FramesPollOutput ==
  ASSUME TypeOK, TypeOK', HasRest, FramesSound, NEW p \in Peers, poll_output(p)
  PROVE  FramesSound'
<1>1. CASE UNCHANGED frameVars
  BY <1>1 DEF frameVars, FramesSound, UnderWay, Sound
<1>2. CASE StartAck(p)
  <2>1. UNCHANGED <<tx_frame, tx_next, rx_next, wire, chan, rx_buf>>
    BY <1>2 DEF StartAck, txVars, rxVars
  <2>2. /\ ack_frame' = [ack_frame EXCEPT ![p] = encode_ack(p, ack_pending[p])]
        /\ ack_pending' = [ack_pending EXCEPT ![p] = None]
    BY <1>2 DEF StartAck
  <2>3. /\ ack_frame \in [Peers -> Frames]
        /\ ack_pending \in [Peers -> {None} \cup Nat]
    BY DEF TypeOK
  <2>4. SoundNext(p, encode_ack(p, ack_pending[p]))
    BY <2>1 DEF FramesSound, SoundNext, encode_ack
  <2>5. \A r \in Peers : \A f \in UnderWay(r)' : f \in UnderWay(r) \/ SoundNext(r, f)
    BY <2>1, <2>2, <2>3, <2>4 DEF UnderWay
  <2>6. \A r \in Peers : ack_pending'[r] < rx_next'[r]
    BY <2>1, <2>2, <2>3, CountersType DEF FramesSound, None
  <2>7. QED
    BY <2>1, <2>5, <2>6, CountersKept, FramesKept
<1>3. CASE WritePart(p)
  <2>1. UNCHANGED <<tx_frame, tx_next, rx_next, ack_frame, chan, rx_buf, ack_pending>>
    BY <1>3 DEF WritePart, txVars, rxVars
  <2>2. PICK n \in Nat \ {0} : wire' = [wire EXCEPT ![p] = Units(p, n)]
    <3>1. PICK n \in 1 .. FrameLen(p) - out[p].offset - 1 :
            wire' = [wire EXCEPT ![p] = Units(p, n)]
      BY <1>3 DEF WritePart
    <3>2. n \in Nat \ {0}
      OBVIOUS
    <3>3. QED
      BY <3>1, <3>2
  <2>3. \A f \in Elements(Units(p, n)) : f \in UnderWay(p)
    BY UnitsType DEF UnderWay, Elements, Buffer
  <2>4. wire \in [Peers -> Seq(Frames)]
    BY DEF TypeOK
  <2>5. \A r \in Peers : \A f \in UnderWay(r)' : f \in UnderWay(r)
    BY <2>1, <2>2, <2>3, <2>4 DEF UnderWay
  <2>6. \A r \in Peers : ack_pending'[r] < rx_next'[r]
    BY <2>1 DEF FramesSound
  <2>7. QED
    BY <2>1, <2>5, <2>6, CountersKept, FramesKept
<1>4. CASE WriteRest(p)
  <2> DEFINE n == FrameLen(p) - out[p].offset
             g == Assemble(Units(p, n))
  <2>1. UNCHANGED <<tx_frame, tx_next, rx_next, ack_frame, rx_buf, ack_pending>>
    BY <1>4 DEF WriteRest, txVars, rxVars
  <2>2. /\ wire' = [wire EXCEPT ![p] = <<>>]
        /\ chan' = [chan EXCEPT ![Other(p)] = Append(@, g)]
        /\ out[p].at = "Writing"
    BY <1>4 DEF WriteRest
  <2>3. n \in Nat \ {0} /\ g \in {Units(p, n)[1], Torn}
    BY <2>2, AssembledType
  <2> HIDE DEF n, g
  <2>4. g \in UnderWay(p) \/ SoundNext(p, g)
    <3>1. CASE g = Torn
      BY <3>1 DEF Torn, SoundNext
    <3>2. CASE g = Units(p, n)[1]
      BY <2>3, <3>2, UnitsType DEF UnderWay, Elements, Buffer
    <3>3. QED
      BY <2>3, <3>1, <3>2
  <2>5. wire \in [Peers -> Seq(Frames)] /\ chan \in [Peers -> Seq(Frames)]
    BY DEF TypeOK
  <2>6. \A f \in Elements(Append(chan[Other(p)], g)) :
          f \in Elements(chan[Other(p)]) \/ f = g
    BY <2>5, OtherPeer, AppendElements
  <2>7. Elements(<<>>) = {}
    BY DEF Elements
  <2>8. \A r \in Peers : \A f \in UnderWay(r)' : f \in UnderWay(r) \/ SoundNext(r, f)
    BY <2>1, <2>2, <2>4, <2>5, <2>6, <2>7, OtherPeer DEF UnderWay
  <2>9. \A r \in Peers : ack_pending'[r] < rx_next'[r]
    BY <2>1 DEF FramesSound
  <2>10. QED
    BY <2>1, <2>8, <2>9, CountersKept, FramesKept
<1> QED
  BY <1>1, <1>2, <1>3, <1>4 DEF poll_output, OutputIdle, StartData, OutputYield,
     OutputPending, OutputError, FlushDone, frameVars, txVars, outVars, rxVars

\* Input moves frames from the link to the buffer, or adds frames of another
\* session.
LEMMA FramesPollInput ==
  ASSUME TypeOK, TypeOK', FramesSound, NEW p \in Peers, poll_input(p)
  PROVE  FramesSound'
<1>1. CASE UNCHANGED frameVars
  BY <1>1 DEF frameVars, FramesSound, UnderWay, Sound
<1>2. rx_buf \in [Peers -> Seq(Frames)] /\ chan \in [Peers -> Seq(Frames)]
  BY DEF TypeOK
<1>3. ASSUME NEW frames, TakeInput(p, frames),
             \A f \in Elements(frames) :
               f \in UnderWay(Other(p)) \/ SoundNext(Other(p), f),
             \A q \in Peers : Elements(chan'[q]) \subseteq Elements(chan[q])
      PROVE  FramesSound'
  <2>1. UNCHANGED <<tx_frame, tx_next, rx_next, ack_frame, wire, ack_pending>>
    BY <1>3 DEF TakeInput, outVars, rxVars
  <2>2. rx_buf' = [rx_buf EXCEPT ![p] = frames]
    BY <1>3 DEF TakeInput
  <2>3. ASSUME NEW r \in Peers, NEW f \in UnderWay(r)'
        PROVE  f \in UnderWay(r) \/ SoundNext(r, f)
    <3>1. CASE f \in Elements(rx_buf'[Other(r)])
      <4>1. CASE Other(r) = p
        BY <1>2, <1>3, <2>2, <3>1, <4>1, OtherPeer
      <4>2. CASE Other(r) # p
        BY <1>2, <2>2, <3>1, <4>2, OtherPeer DEF UnderWay
      <4>3. QED
        BY <4>1, <4>2
    <3>2. CASE f \in Elements(chan'[Other(r)])
      BY <1>3, <3>2, OtherPeer DEF UnderWay
    <3>3. CASE f \in {tx_frame'[r], ack_frame'[r]} \cup Elements(wire'[r])
      BY <2>1, <3>3 DEF UnderWay
    <3>4. QED
      BY <2>3, <3>1, <3>2, <3>3 DEF UnderWay
  <2>4. \A r \in Peers : ack_pending'[r] < rx_next'[r]
    BY <2>1 DEF FramesSound
  <2>5. QED
    BY <2>1, <2>3, <2>4, CountersKept, FramesKept
<1>4. CASE ReadFrames(p)
  <2>1. PICK n \in 1 .. Len(chan[p]) :
          /\ TakeInput(p, SubSeq(chan[p], 1, n))
          /\ chan' = [chan EXCEPT ![p] = SubSeq(@, n + 1, Len(@))]
    BY <1>4 DEF ReadFrames
  <2>2. /\ Elements(SubSeq(chan[p], 1, n)) \subseteq Elements(chan[p])
        /\ Elements(SubSeq(chan[p], n + 1, Len(chan[p]))) \subseteq Elements(chan[p])
    <3>1. chan[p] \in Seq(Frames)
      BY <1>2
    <3>2. /\ 1 \in 1 .. Len(chan[p]) + 1
          /\ n \in 0 .. Len(chan[p])
          /\ n + 1 \in 1 .. Len(chan[p]) + 1
          /\ Len(chan[p]) \in 0 .. Len(chan[p])
      BY <3>1
    <3>3. QED
      BY <3>1, <3>2, SubSeqElements
  <2>3. Elements(chan[p]) \subseteq UnderWay(Other(p))
    BY OtherPeer DEF UnderWay
  <2>4. QED
    BY <1>2, <1>3, <2>1, <2>2, <2>3
<1>5. CASE ReadNoise(p)
  <2>1. Elements(<<>>) = {}
    BY DEF Elements
  <2>2. QED
    BY <1>3, <1>5, <2>1 DEF ReadNoise
<1>6. CASE ReadForeign(p)
  <2>1. PICK f \in Inserted : TakeInput(p, <<f>>)
    BY <1>6 DEF ReadForeign
  <2>2. SoundNext(Other(p), f)
    BY InsertedAssumption, OtherPeer DEF SoundNext
  <2>3. Elements(<<f>>) = {f}
    BY DEF Elements
  <2>4. QED
    BY <1>3, <1>6, <2>1, <2>2, <2>3 DEF ReadForeign
<1> QED
  BY <1>1, <1>4, <1>5, <1>6 DEF poll_input, InputYield, InputPending, InputError,
     frameVars, txVars, outVars, rxVars

\* Processing a frame takes it away; retaining DATA makes its ACK sound.
LEMMA FramesProcess ==
  ASSUME TypeOK, TypeOK', HasFrame, FramesSound, NEW p \in Peers, process_frame(p)
  PROVE  FramesSound'
<1> DEFINE f == Head(rx_buf[p])
<1>1. NextFrame(p)
  BY DEF process_frame, ReleasePacket, RetainPayload, AckAgain, IgnoreFrame
<1>2. rx_buf \in [Peers -> Seq(Frames)] /\ rx_buf[p] # <<>>
  BY <1>1 DEF TypeOK, HasFrame, NextFrame
<1>3. f.seq \in Nat
  <2>1. f \in Frames
    BY <1>2
  <2>2. QED
    BY <2>1 DEF Frames
<1> HIDE DEF f
<1>4. /\ rx_buf' = [rx_buf EXCEPT ![p] = Tail(@)]
      /\ UNCHANGED <<tx_frame, tx_next, ack_frame, wire, chan>>
  BY <1>1 DEF NextFrame, outVars
<1>5. Elements(Tail(rx_buf[p])) \subseteq Elements(rx_buf[p])
  BY <1>2, TailElements
<1>6. \A r \in Peers : \A g \in UnderWay(r)' : g \in UnderWay(r)
  BY <1>2, <1>4, <1>5, OtherPeer DEF UnderWay
<1>7. /\ ack_pending \in [Peers -> {None} \cup Nat]
      /\ rx_next \in [Peers -> Nat]
  BY DEF TypeOK
<1>8. CASE UNCHANGED <<ack_pending, rx_next>>
  <2>1. \A r \in Peers : ack_pending'[r] < rx_next'[r]
    BY <1>8 DEF FramesSound
  <2>2. QED
    BY <1>4, <1>6, <1>8, <2>1, CountersKept, FramesKept
<1>9. CASE RetainPayload(p)
  <2>1. /\ rx_next' = [rx_next EXCEPT ![p] = @ + 1]
        /\ ack_pending' = [ack_pending EXCEPT ![p] = f.seq]
        /\ f.seq = rx_next[p]
    BY <1>9 DEF RetainPayload, IsNext, f
  <2>2. \A r \in Peers : Grows(r)
    BY <1>4, <1>7, <2>1 DEF Grows
  <2>3. \A r \in Peers : ack_pending'[r] < rx_next'[r]
    BY <1>7, <2>1 DEF FramesSound
  <2>4. QED
    BY <1>6, <2>2, <2>3, FramesKept
<1>10. CASE AckAgain(p)
  <2>1. /\ rx_next' = rx_next
        /\ ack_pending' = [ack_pending EXCEPT ![p] = f.seq]
        /\ f.seq = rx_next[p] - 1
    BY <1>10 DEF AckAgain, IsRepeat, f, rxVars
  <2>2. \A r \in Peers : ack_pending'[r] < rx_next'[r]
    BY <1>7, <2>1 DEF FramesSound
  <2>3. QED
    BY <1>4, <1>6, <2>1, <2>2, CountersKept, FramesKept
<1> QED
  BY <1>8, <1>9, <1>10 DEF process_frame, ReleasePacket, IgnoreFrame, rxVars

\* poll_write replaces the outgoing frame by that of a new sequence number.
LEMMA FramesFinish ==
  ASSUME TypeOK, TypeOK', FramesSound, NEW p \in Peers, finish(p)
  PROVE  FramesSound'
<1>1. CASE UNCHANGED frameVars
  BY <1>1 DEF frameVars, FramesSound, UnderWay, Sound
<1>2. CASE AcceptPacket(p)
  <2>1. UNCHANGED <<ack_frame, wire, chan, rx_buf, ack_pending, rx_next>>
    BY <1>2 DEF AcceptPacket, FinishKeeps, outVars
  <2>2. PICK payload \in Seq(Byte) :
          /\ tx_next[p] < SeqLimit
          /\ tx_next' = [tx_next EXCEPT ![p] = @ + 1]
          /\ tx_frame' = [tx_frame EXCEPT ![p] = encode_data(p, tx_next[p], payload)]
    BY <1>2, AcceptIs
  <2>3. tx_next \in [Peers -> 0 .. SeqLimit] /\ tx_frame \in [Peers -> Frames]
    BY DEF TypeOK
  <2>4. tx_next[p] \in Nat /\ rx_next \in [Peers -> Nat]
    BY CountersType DEF TypeOK
  <2>5. SoundNext(p, encode_data(p, tx_next[p], payload))
    BY <2>2, <2>3, <2>4 DEF SoundNext, encode_data
  <2>6. \A r \in Peers : \A f \in UnderWay(r)' : f \in UnderWay(r) \/ SoundNext(r, f)
    BY <2>1, <2>2, <2>3, <2>5 DEF UnderWay
  <2>7. \A r \in Peers : Grows(r)
    BY <2>1, <2>2, <2>3, <2>4 DEF Grows
  <2>8. \A r \in Peers : ack_pending'[r] < rx_next'[r]
    BY <2>1 DEF FramesSound
  <2>9. QED
    BY <2>6, <2>7, <2>8, FramesKept
<1> QED
  BY <1>1, <1>2 DEF finish, ReadReady, PollError, WriteExhausted, WriteReady,
     FlushReady, PollPending, FinishKeeps, frameVars, txVars, outVars

\* Every step keeps the frames under way sound.
LEMMA FramesStep ==
  ASSUME IInv, TypeOK', [Next]_vars
  PROVE  FramesSound'
<1>1. TypeOK /\ HasFrame /\ HasRest /\ FramesSound
  BY DEF IInv
<1>2. ASSUME NEW p \in Peers, Poll(p)
      PROVE  FramesSound'
  <2>1. CASE poll_timer(p)
    BY <1>1, <2>1 DEF poll_timer, TimerBlocked, TimerExpires, Retransmit, GiveUp,
       TimerKeeps, outVars, rxVars, FramesSound, UnderWay, Sound
  <2>2. QED
    BY <1>1, <1>2, <2>1, FramesPollOutput, FramesPollInput, FramesProcess,
       FramesFinish DEF Poll
<1>3. ASSUME NEW p \in Peers, Lose(p)
      PROVE  FramesSound'
  <2>1. PICK i \in 1 .. Len(chan[p]) :
          chan' = [chan EXCEPT ![p] =
                    [j \in 1 .. Len(@) - 1 |-> IF j < i THEN @[j] ELSE @[j + 1]]]
    BY <1>3 DEF Lose
  <2>2. chan \in [Peers -> Seq(Frames)]
    BY <1>1 DEF TypeOK
  <2>3. UNCHANGED <<tx_frame, tx_next, rx_next, ack_frame, wire, rx_buf, ack_pending>>
    BY <1>3 DEF Lose, txVars, outVars, rxVars
  <2> DEFINE left == [j \in 1 .. Len(chan[p]) - 1 |->
                        IF j < i THEN chan[p][j] ELSE chan[p][j + 1]]
  <2>4. Elements(left) \subseteq Elements(chan[p])
    <3>1. Len(chan[p]) \in Nat /\ Len(left) = Len(chan[p]) - 1
      BY <2>2
    <3>2. ASSUME NEW k \in 1 .. Len(left)
          PROVE  left[k] \in Elements(chan[p])
      <4>1. /\ k \in 1 .. Len(chan[p])
            /\ k + 1 \in 1 .. Len(chan[p])
            /\ left[k] = chan[p][k] \/ left[k] = chan[p][k + 1]
        BY <3>1, <3>2
      <4>2. QED
        BY <4>1 DEF Elements
    <3>3. QED
      BY <3>2 DEF Elements
  <2>5. chan' = [chan EXCEPT ![p] = left]
    BY <2>1
  <2> HIDE DEF left
  <2>6. \A r \in Peers : \A f \in UnderWay(r)' : f \in UnderWay(r)
    BY <2>2, <2>3, <2>4, <2>5, OtherPeer DEF UnderWay
  <2>7. \A r \in Peers : ack_pending'[r] < rx_next'[r]
    BY <1>1, <2>3 DEF FramesSound
  <2>8. QED
    BY <1>1, <2>3, <2>6, <2>7, CountersKept, FramesKept
<1>4. CASE UNCHANGED frameVars
  BY <1>1, <1>4 DEF frameVars, FramesSound, UnderWay, Sound
<1> QED
  BY <1>2, <1>3, <1>4 DEF Next, BeginPoll, Elapse, vars, frameVars, txVars, outVars,
     rxVars

\* What the receiving application has or will have, and what is outstanding.
Arrived(p) == delivered[Other(p)] \o rx[Other(p)]

\* The bytes of a stream are sequences, and its counters numbers.
LEMMA StreamTypes ==
  ASSUME TypeOK, NEW p \in Peers
  PROVE  /\ Arrived(p) \in Seq(Byte)
         /\ Len(Arrived(p)) = Len(delivered[Other(p)]) + Len(rx[Other(p)])
         /\ Outstanding(p) \in Seq(Byte)
<1>1. delivered[Other(p)] \in Seq(Byte) /\ rx[Other(p)] \in Seq(Byte)
  BY OtherPeer DEF TypeOK
<1>2. tx_frame[p].payload \in Seq(Byte)
  BY DEF TypeOK, Frames
<1>3. QED
  BY <1>1, <1>2, ConcatProperties DEF Arrived, Outstanding

\* The stream invariants, for one peer.
Stream(p) ==
  /\ rx_next[Other(p)] <= tx_next[p]
  /\ tx_next[p] <= rx_next[Other(p)] + 1
  /\ tx[p] = "Idle" => rx_next[Other(p)] = tx_next[p]
  /\ accepted[p] = Arrived(p) \o Outstanding(p)
  /\ flushed[p] <= Len(delivered[Other(p)]) + Len(rx[Other(p)])

\* The invariants of the streams, stated for one stream at a time.
LEMMA StreamIs ==
  InStep /\ ReleasedIsRetained /\ StreamConserved /\ FlushBarrier
    <=> \A p \in Peers : Stream(p)
  BY DEF InStep, ReleasedIsRetained, StreamConserved, FlushBarrier, Stream, Arrived

\* What the stream from p to its peer depends on.
streamVars(p) == <<tx_next[p], tx_frame[p], accepted[p], flushed[p],
                   rx_next[Other(p)], rx[Other(p)], delivered[Other(p)]>>

\* A step that touches nothing of a stream, and does not release its packet,
\* keeps the stream's invariants.
LEMMA StreamKept ==
  ASSUME NEW p \in Peers, Stream(p), UNCHANGED streamVars(p),
         tx'[p] = "Idle" => tx[p] = "Idle"
  PROVE  Stream(p)'
  BY DEF Stream, streamVars, Arrived, Outstanding

\* An acknowledgment that matches says the peer has retained the packet.
LEMMA StreamRelease ==
  ASSUME IInv, NEW p \in Peers, NEW r \in Peers, ReleasePacket(p), Stream(r)
  PROVE  Stream(r)'
<1> DEFINE f == Head(rx_buf[p])
<1>1. TypeOK /\ HasFrame /\ FramesSound
  BY DEF IInv
<1>2. /\ tx' = [tx EXCEPT ![p] = "Idle"]
      /\ AckMatches(p, f)
      /\ rx_buf[p] # <<>>
      /\ UNCHANGED <<tx_next, tx_frame, accepted, flushed, rx_next, rx, delivered>>
  BY <1>1 DEF ReleasePacket, NextFrame, HasFrame, rxVars, histVars
<1>3. tx \in [Peers -> {"Idle", "Queued", "Sending", "Waiting"}]
      /\ rx_buf[p] \in Seq(Frames)
  BY <1>1 DEF TypeOK
<1>4. CASE r # p
  BY <1>2, <1>3, <1>4, StreamKept DEF streamVars
<1>5. CASE r = p
  <2>1. f \in UnderWay(Other(p))
    BY <1>2, <1>3, OtherPeer DEF UnderWay, Elements
  <2>2. f.seq \in Nat
    BY <1>1, <2>1, UnderWayType, OtherPeer
  <2>3. f.seq < rx_next[Other(p)] /\ f.seq + 1 = tx_next[p]
    BY <1>1, <1>2, <2>1, OtherPeer DEF FramesSound, Sound, AckMatches
  <2>4. tx_next[p] \in Nat /\ rx_next[Other(p)] \in Nat
    BY <1>1, CountersType, OtherPeer
  <2>5. rx_next[Other(p)] = tx_next[p]
    BY <1>5, <2>2, <2>3, <2>4 DEF Stream
  <2>6. QED
    BY <1>2, <1>5, <2>5 DEF Stream, Arrived, Outstanding
<1>6. QED
  BY <1>4, <1>5

\* The next DATA carries the payload of the one outstanding packet.
LEMMA StreamRetain ==
  ASSUME IInv, NEW p \in Peers, NEW r \in Peers, RetainPayload(p), Stream(r)
  PROVE  Stream(r)'
<1> DEFINE f == Head(rx_buf[p])
<1>1. TypeOK /\ HasFrame /\ FramesSound
  BY DEF IInv
<1>2. /\ rx' = [rx EXCEPT ![p] = f.payload]
      /\ rx_next' = [rx_next EXCEPT ![p] = @ + 1]
      /\ IsNext(p, f)
      /\ rx_buf[p] # <<>>
      /\ UNCHANGED <<tx, tx_next, tx_frame, accepted, flushed, delivered>>
  BY <1>1 DEF RetainPayload, NextFrame, HasFrame, histVars
<1>3. /\ rx \in [Peers -> Seq(Byte)]
      /\ rx_next \in [Peers -> Nat]
      /\ rx_buf[p] \in Seq(Frames)
      /\ delivered[p] \in Seq(Byte)
  BY <1>1 DEF TypeOK
<1>4. CASE r # Other(p)
  <2>1. Other(r) # p
    BY <1>4, OtherPeer
  <2>2. QED
    BY <1>2, <1>3, <2>1, StreamKept, OtherPeer DEF streamVars
<1>5. CASE r = Other(p)
  <2>1. f \in UnderWay(r)
    BY <1>2, <1>3, <1>5, OtherPeer DEF UnderWay, Elements
  <2>2. f \in Frames /\ f.seq \in Nat
    BY <1>1, <2>1, UnderWayType
  <2>3. /\ f.seq = rx_next[p]
        /\ f.seq < tx_next[r]
        /\ f.seq + 1 = tx_next[r] => f.payload = tx_frame[r].payload
        /\ rx[p] = <<>>
    BY <1>1, <1>2, <1>5, <2>1, OtherPeer DEF FramesSound, Sound, IsNext, DataMatches
  <2>4. tx_next[r] \in Nat /\ rx_next[p] \in Nat
    BY <1>1, CountersType
  <2>5. tx_next[r] = rx_next[p] + 1 /\ f.payload = tx_frame[r].payload
    BY <1>5, <2>2, <2>3, <2>4, OtherPeer DEF Stream
  <2>6. tx[r] # "Idle"
    BY <1>5, <2>4, <2>5, OtherPeer DEF Stream
  <2>7. f.payload \in Seq(Byte)
    BY <2>2 DEF Frames
  <2>8. accepted[r] = (delivered[p] \o <<>>) \o f.payload
    BY <1>5, <2>3, <2>4, <2>5, OtherPeer DEF Stream, Arrived, Outstanding
  <2>9. accepted[r] = (delivered[p] \o f.payload) \o <<>>
    BY <1>3, <2>7, <2>8, ConcatEmptySeq, ConcatProperties
  <2>10. rx'[p] = f.payload /\ rx_next'[p] = tx_next[r]
    BY <1>2, <1>3, <2>5
  <2>11. flushed[r] <= Len(delivered[p]) + Len(rx'[p])
    <3> DEFINE d == Len(delivered[p])
               old == Len(rx[p])
               new == Len(rx'[p])
    <3>1. flushed[r] <= d + old /\ flushed[r] \in Nat
      BY <1>1, <1>5, OtherPeer DEF Stream, TypeOK
    <3>2. old = 0 /\ d \in Nat /\ new \in Nat
      BY <1>3, <2>3, <2>7, <2>10
    <3> HIDE DEF d, old, new
    <3>3. flushed[r] <= d + new
      BY <3>1, <3>2
    <3>4. QED
      BY <3>3 DEF d, new
  <2>12. Outstanding(r)' = <<>>
    <3>1. rx_next'[Other(r)] = tx_next'[r] /\ tx_next'[r] \in Nat
      BY <1>2, <1>5, <2>4, <2>10, OtherPeer
    <3>2. QED
      BY <3>1 DEF Outstanding
  <2>13. (Arrived(r) \o Outstanding(r))' = accepted'[r]
    BY <1>2, <1>5, <2>9, <2>10, <2>12, OtherPeer DEF Arrived
  <2>14. /\ rx_next'[Other(r)] <= tx_next'[r]
         /\ tx_next'[r] <= rx_next'[Other(r)] + 1
    BY <1>2, <1>5, <2>4, <2>10, OtherPeer
  <2>15. QED
    BY <1>2, <1>5, <2>6, <2>11, <2>13, <2>14, OtherPeer DEF Stream
<1>6. QED
  BY <1>4, <1>5

\* Reading moves bytes from the slot to the application.
LEMMA StreamRead ==
  ASSUME IInv, NEW p \in Peers, NEW r \in Peers, ReadReady(p), Stream(r)
  PROVE  Stream(r)'
<1>1. TypeOK
  BY DEF IInv
<1>2. PICK len \in 1 .. Len(rx[p]) :
        /\ delivered' = [delivered EXCEPT ![p] = @ \o SubSeq(rx[p], 1, len)]
        /\ rx' = [rx EXCEPT ![p] = SubSeq(@, len + 1, Len(@))]
  BY DEF ReadReady
<1>3. UNCHANGED <<tx, tx_next, tx_frame, accepted, flushed, rx_next>>
  BY DEF ReadReady, FinishKeeps, txVars
<1>4. rx \in [Peers -> Seq(Byte)] /\ delivered \in [Peers -> Seq(Byte)]
  BY <1>1 DEF TypeOK
<1>5. CASE r # Other(p)
  <2>1. Other(r) # p
    BY <1>5, OtherPeer
  <2>2. QED
    BY <1>2, <1>3, <1>4, <2>1, StreamKept, OtherPeer DEF streamVars
<1>6. CASE r = Other(p)
  <2> DEFINE d == delivered[p]
             a == SubSeq(rx[p], 1, len)
             b == SubSeq(rx[p], len + 1, Len(rx[p]))
  <2>1. d \in Seq(Byte) /\ rx[p] \in Seq(Byte)
    BY <1>4
  <2>2. /\ a \in Seq(Byte) /\ b \in Seq(Byte)
        /\ Len(a) = len /\ Len(b) = Len(rx[p]) - len
        /\ rx[p] = a \o b
    BY <2>1
  <2> HIDE DEF d, a, b
  <2>3. (d \o a) \o b = d \o rx[p]
    BY <2>1, <2>2, ConcatAssociative
  <2>4. delivered'[p] = d \o a /\ rx'[p] = b
    BY <1>2, <1>4 DEF d, a, b
  <2>5. Arrived(r)' = Arrived(r)
    BY <1>6, <2>3, <2>4, OtherPeer DEF Arrived, d
  <2>6. Len(delivered'[p]) + Len(rx'[p]) = Len(delivered[p]) + Len(rx[p])
    <3> DEFINE m == Len(d)
               n == Len(rx[p])
    <3>1. m \in Nat /\ n \in Nat /\ len \in Nat
      BY <2>1
    <3>2. Len(delivered'[p]) = m + len
      BY <2>1, <2>2, <2>4, ConcatProperties
    <3>3. Len(rx'[p]) = n - len
      BY <2>2, <2>4
    <3> HIDE DEF m, n
    <3>4. Len(delivered'[p]) + Len(rx'[p]) = m + n
      BY <3>1, <3>2, <3>3
    <3>5. QED
      BY <3>4 DEF m, n, d
  <2>7. QED
    BY <1>3, <1>6, <2>5, <2>6, OtherPeer DEF Stream, Outstanding
<1>7. QED
  BY <1>5, <1>6

\* A packet is accepted only when nothing is outstanding, and becomes what is.
LEMMA StreamAccept ==
  ASSUME IInv, NEW p \in Peers, NEW r \in Peers, AcceptPacket(p), Stream(r)
  PROVE  Stream(r)'
<1>1. TypeOK
  BY DEF IInv
<1>2. PICK payload \in Seq(Byte) :
        /\ tx_next' = [tx_next EXCEPT ![p] = @ + 1]
        /\ tx_frame' = [tx_frame EXCEPT ![p] = encode_data(p, tx_next[p], payload)]
        /\ accepted' = [accepted EXCEPT ![p] = @ \o payload]
  BY <1>1, AcceptIs
<1>3. /\ tx[p] = "Idle"
      /\ tx' = [tx EXCEPT ![p] = "Queued"]
      /\ UNCHANGED <<flushed, rx_next, rx, delivered>>
  BY DEF AcceptPacket, write_ready, FinishKeeps
<1>4. /\ tx \in [Peers -> {"Idle", "Queued", "Sending", "Waiting"}]
      /\ tx_next \in [Peers -> 0 .. SeqLimit]
      /\ tx_frame \in [Peers -> Frames]
      /\ accepted \in [Peers -> Seq(Byte)]
  BY <1>1 DEF TypeOK
<1>5. CASE r # p
  BY <1>2, <1>3, <1>4, <1>5, StreamKept DEF streamVars
<1>6. CASE r = p
  <2>1. tx_next[p] \in Nat /\ rx_next[Other(p)] \in Nat
    BY <1>1, CountersType, OtherPeer
  <2>2. rx_next[Other(p)] = tx_next[p]
    BY <1>3, <1>6 DEF Stream
  <2>3. accepted[p] = Arrived(p) \o <<>>
    <3>1. Outstanding(p) = <<>>
      BY <2>1, <2>2 DEF Outstanding
    <3>2. QED
      BY <1>6, <3>1 DEF Stream
  <2>4. Arrived(p) \in Seq(Byte)
    BY <1>1, StreamTypes
  <2>5. accepted'[p] = Arrived(p) \o payload
    BY <1>2, <1>4, <2>3, <2>4, ConcatEmptySeq
  <2>6. tx_next'[p] = tx_next[p] + 1 /\ tx_frame'[p].payload = payload
    BY <1>2, <1>4 DEF encode_data
  <2>7. Outstanding(p)' = payload
    BY <1>3, <2>1, <2>2, <2>6 DEF Outstanding
  <2>8. Arrived(p)' = Arrived(p)
    BY <1>3 DEF Arrived
  <2>9. tx'[p] # "Idle"
    BY <1>3, <1>4
  <2>10. (Arrived(p) \o Outstanding(p))' = accepted'[p]
    BY <2>5, <2>7, <2>8
  <2>11. /\ rx_next'[Other(p)] <= tx_next'[p]
         /\ tx_next'[p] <= rx_next'[Other(p)] + 1
    BY <1>3, <2>1, <2>2, <2>6
  <2>12. QED
    BY <1>3, <1>6, <2>9, <2>10, <2>11 DEF Stream
<1>7. QED
  BY <1>5, <1>6

\* A flush succeeds only when nothing is outstanding.
LEMMA StreamFlush ==
  ASSUME IInv, NEW p \in Peers, NEW r \in Peers, FlushReady(p), Stream(r)
  PROVE  Stream(r)'
<1>1. TypeOK
  BY DEF IInv
<1>2. /\ flushed' = [flushed EXCEPT ![p] = Len(accepted[p])]
      /\ tx[p] = "Idle"
      /\ UNCHANGED <<tx, tx_next, tx_frame, accepted, rx_next, rx, delivered>>
  BY DEF FlushReady, flush_ready, FinishKeeps, txVars
<1>3. flushed \in [Peers -> Nat]
  BY <1>1 DEF TypeOK
<1>4. CASE r # p
  BY <1>2, <1>3, <1>4, StreamKept DEF streamVars
<1>5. CASE r = p
  <2>1. rx_next[Other(p)] = tx_next[p] /\ tx_next[p] \in Nat
    BY <1>1, <1>2, <1>5, CountersType DEF Stream
  <2>2. accepted[p] = Arrived(p) \o <<>>
    <3>1. Outstanding(p) = <<>>
      BY <2>1 DEF Outstanding
    <3>2. QED
      BY <1>5, <3>1 DEF Stream
  <2>3. Len(accepted[p]) = Len(delivered[Other(p)]) + Len(rx[Other(p)])
    BY <1>1, <2>2, StreamTypes, ConcatEmptySeq
  <2>4. flushed'[p] = Len(accepted[p])
    BY <1>2, <1>3
  <2>5. flushed'[p] <= Len(delivered'[Other(p)]) + Len(rx'[Other(p)])
    <3>1. Len(accepted[p]) \in Nat
      BY <1>1 DEF TypeOK
    <3>2. /\ Len(delivered[Other(p)]) \in Nat
          /\ Len(rx[Other(p)]) \in Nat
      <4>1. /\ delivered[Other(p)] \in Seq(Byte)
            /\ rx[Other(p)] \in Seq(Byte)
        BY <1>1, OtherPeer DEF TypeOK
      <4>2. QED
        BY <4>1
    <3>3. flushed'[p] <= Len(delivered[Other(p)]) + Len(rx[Other(p)])
      BY <2>3, <2>4, <3>1, <3>2
    <3>4. QED
      BY <1>2, <3>3
  <2>6. QED
    BY <1>2, <1>5, <2>5 DEF Stream, Arrived, Outstanding
<1>6. QED
  BY <1>4, <1>5

\* Every step keeps the invariants of every stream.
LEMMA StreamStep ==
  ASSUME IInv, [Next]_vars, NEW r \in Peers, Stream(r)
  PROVE  Stream(r)'
<1>1. TypeOK
  BY DEF IInv
<1>2. tx \in [Peers -> {"Idle", "Queued", "Sending", "Waiting"}]
  BY <1>1 DEF TypeOK
<1>3. CASE /\ UNCHANGED <<tx_next, tx_frame, accepted, flushed, rx_next, rx, delivered>>
           /\ tx'[r] = "Idle" => tx[r] = "Idle"
  BY <1>3, StreamKept DEF streamVars
<1>4. ASSUME NEW p \in Peers, poll_output(p)
      PROVE  Stream(r)'
  BY <1>2, <1>3, <1>4 DEF poll_output, OutputIdle, StartAck, StartData, OutputYield,
     OutputPending, OutputError, WritePart, WriteRest, FlushDone, txVars, rxVars,
     histVars
<1>5. ASSUME NEW p \in Peers, poll_input(p)
      PROVE  Stream(r)'
  BY <1>3, <1>5 DEF poll_input, InputYield, InputPending, InputError, ReadFrames,
     ReadNoise, ReadForeign, TakeInput, txVars, rxVars, histVars
<1>6. ASSUME NEW p \in Peers, process_frame(p)
      PROVE  Stream(r)'
  <2>1. CASE AckAgain(p) \/ IgnoreFrame(p)
    BY <1>3, <2>1 DEF AckAgain, IgnoreFrame, NextFrame, rxVars, histVars
  <2>2. QED
    BY <1>6, <2>1, StreamRelease, StreamRetain DEF process_frame
<1>7. ASSUME NEW p \in Peers, poll_timer(p)
      PROVE  Stream(r)'
  BY <1>2, <1>3, <1>7 DEF poll_timer, TimerBlocked, TimerExpires, Retransmit, GiveUp,
     TimerKeeps, rxVars, histVars
<1>8. ASSUME NEW p \in Peers, finish(p)
      PROVE  Stream(r)'
  <2>1. CASE PollError(p) \/ WriteExhausted(p) \/ WriteReady(p) \/ PollPending(p)
    BY <1>3, <2>1 DEF PollError, WriteExhausted, WriteReady, PollPending,
       FinishKeeps, txVars, histVars
  <2>2. QED
    BY <1>8, <2>1, StreamRead, StreamAccept, StreamFlush DEF finish
<1>9. ASSUME NEW p \in Peers, Lose(p) \/ Elapse(p) \/ \E o \in Ops[p] : BeginPoll(p, o)
      PROVE  Stream(r)'
  BY <1>3, <1>9 DEF Lose, Elapse, BeginPoll, txVars, rxVars, histVars
<1>10. CASE UNCHANGED vars
  BY <1>3, <1>10 DEF vars, txVars, rxVars, histVars
<1> QED
  BY <1>4, <1>5, <1>6, <1>7, <1>8, <1>9, <1>10 DEF Next, Poll

\* A pair of new connections satisfies the inductive invariant.
LEMMA InductiveInit == Init => IInv
<1> SUFFICES ASSUME Init PROVE IInv
  OBVIOUS
<1>1. TypeInv
  BY TypeInit
<1>2. FramesSound
  <2>1. \A p \in Peers : UnderWay(p) \subseteq {Blank}
    BY OtherPeer DEF Init, UnderWay, Elements
  <2>2. QED
    BY <2>1 DEF Init, FramesSound, Sound, Blank, None
<1>3. \A p \in Peers : Stream(p)
  <2> SUFFICES ASSUME NEW p \in Peers PROVE Stream(p)
    OBVIOUS
  <2>1. /\ delivered[Other(p)] = <<>>
        /\ rx[Other(p)] = <<>>
        /\ accepted[p] = <<>>
        /\ tx_next[p] = 0
        /\ rx_next[Other(p)] = 0
        /\ flushed[p] = 0
    BY OtherPeer DEF Init
  <2>2. Outstanding(p) = <<>>
    BY <2>1 DEF Outstanding
  <2>3. accepted[p] = Arrived(p) \o Outstanding(p)
    BY <2>1, <2>2 DEF Arrived
  <2>4. QED
    BY <2>1, <2>3 DEF Stream
<1>4. QED
  BY <1>1, <1>2, <1>3, StreamIs DEF IInv, TypeInv

\* Every step keeps the inductive invariant.
LEMMA InductiveStep == IInv /\ [Next]_vars => IInv'
<1> SUFFICES ASSUME IInv, [Next]_vars PROVE IInv'
  OBVIOUS
<1>1. TypeInv'
  BY TypeStep DEF IInv, TypeInv
<1>2. FramesSound'
  BY <1>1, FramesStep DEF TypeInv
<1>3. \A p \in Peers : Stream(p)
  BY StreamIs DEF IInv
<1>4. \A p \in Peers : Stream(p)'
  BY <1>3, StreamStep
<1>5. (InStep /\ ReleasedIsRetained /\ StreamConserved /\ FlushBarrier)'
  BY <1>4 DEF InStep, ReleasedIsRetained, StreamConserved, FlushBarrier, Stream,
     Arrived
<1>6. QED
  BY <1>1, <1>2, <1>5 DEF IInv, TypeInv

\* The inductive invariant holds throughout: every frame under way is sound, the
\* receiver is at most one packet behind, and both streams are conserved.
THEOREM Inductive == Spec => []IInv
  BY InductiveInit, InductiveStep, PTL DEF Spec

\* Whatever the link loses, damages, delays or inserts, and whichever errors
\* end a connection, the bytes poll_write accepted are at every moment exactly
\* the bytes poll_read returned, then the retained payload, then the payload
\* of the one outstanding packet.
THEOREM ExactlyOnceInOrder == Spec => []StreamConserved
<1>1. IInv => StreamConserved
  BY DEF IInv
<1>2. QED
  BY <1>1, Inductive, PTL

\* A packet is released only when the peer has retained it.
THEOREM ReleaseIsSafe == Spec => []ReleasedIsRetained
<1>1. IInv => ReleasedIsRetained
  BY DEF IInv
<1>2. QED
  BY <1>1, Inductive, PTL

\* A successful poll_flush is a barrier for everything accepted before it.
THEOREM FlushIsBarrier == Spec => []FlushBarrier
<1>1. IInv => FlushBarrier
  BY DEF IInv
<1>2. QED
  BY <1>1, Inductive, PTL

\* Before it is finished a poll does not return, and a poll moves the program
\* counter of its own connection only.
LEMMA NotFinished ==
  ASSUME NEW q \in Peers,
         poll_output(q) \/ poll_input(q) \/ process_frame(q) \/ poll_timer(q)
  PROVE  pc[q] # "finish" /\ \E l \in Labels : pc' = [pc EXCEPT ![q] = l]
<1>1. CASE poll_output(q)
  BY <1>1 DEF poll_output, OutputIdle, StartAck, StartData, OutputYield, Sending,
     OutputPending, OutputError, WritePart, WriteRest, FlushDone, FailDrive, Goto,
     Labels
<1>2. CASE poll_input(q)
  BY <1>2 DEF poll_input, InputYield, InputPending, InputError, ReadFrames,
     ReadNoise, ReadForeign, TakeInput, FailDrive, Goto, Labels
<1>3. CASE process_frame(q)
  BY <1>3 DEF process_frame, ReleasePacket, RetainPayload, AckAgain, IgnoreFrame,
     NextFrame, Goto, Labels
<1>4. CASE poll_timer(q)
  <2>1. ASSUME NEW work, EndStep(q, work)
        PROVE  \E l \in Labels : pc' = [pc EXCEPT ![q] = l]
    <3>1. pc' = [pc EXCEPT ![q] = "output"] \/ pc' = [pc EXCEPT ![q] = "finish"]
      BY <2>1 DEF EndStep, Goto
    <3> QED
      BY <3>1 DEF Labels
  <2>2. CASE TimerBlocked(q) \/ TimerExpires(q) \/ Retransmit(q)
    BY <2>1, <2>2 DEF TimerBlocked, TimerExpires, Retransmit, AllowanceOver
  <2>3. CASE GiveUp(q)
    BY <2>3 DEF GiveUp, AllowanceOver, FailDrive, Goto, Labels
  <2> QED
    BY <1>4, <2>2, <2>3 DEF poll_timer
<1> QED
  BY <1>1, <1>2, <1>3, <1>4

\* poll_read returns an error only with its slot empty.
LEMMA ReadFailsEmpty ==
  ASSUME TypeOK, Next, NEW p \in Peers, ReadFails(p)
  PROVE  rx[p] = <<>>
<1>1. PICK q \in Peers : \/ \E o \in Ops[q] : BeginPoll(q, o)
                         \/ Poll(q) \/ Lose(q) \/ Elapse(q)
  BY DEF Next
<1>2. /\ pc \in [Peers -> Labels]
      /\ delivered \in [Peers -> Seq(Byte)] /\ rx \in [Peers -> Seq(Byte)]
  BY DEF TypeOK
<1>3. /\ pc[p] = "finish" /\ op[p] = "Read" /\ health[p] # "Ok"
      /\ pc'[p] = "idle" /\ delivered'[p] = delivered[p]
  BY DEF ReadFails
<1>4. CASE Lose(q) \/ Elapse(q)
  BY <1>3, <1>4 DEF Lose, Elapse, pollVars
<1>5. CASE \E o \in Ops[q] : BeginPoll(q, o)
  BY <1>2, <1>3, <1>5 DEF BeginPoll, Goto
<1>6. CASE poll_output(q) \/ poll_input(q) \/ process_frame(q) \/ poll_timer(q)
  BY <1>2, <1>3, <1>6, NotFinished
<1>7. CASE finish(q)
  <2>1. CASE q # p
    <3>1. pc' = [pc EXCEPT ![q] = "idle"] \/ pc' = [pc EXCEPT ![q] = "output"]
      BY <1>7 DEF finish, ReadReady, PollError, WriteExhausted, AcceptPacket,
         WriteReady, FlushReady, PollPending, Return, Goto
    <3> QED
      BY <1>2, <1>3, <2>1, <3>1
  <2>2. CASE q = p /\ ReadReady(p)
    <3>1. PICK len \in 1 .. Len(rx[p]) :
            delivered' = [delivered EXCEPT ![p] = @ \o SubSeq(rx[p], 1, len)]
      BY <2>2 DEF ReadReady
    <3>2. SubSeq(rx[p], 1, len) \in Seq(Byte) /\ Len(SubSeq(rx[p], 1, len)) = len
      BY <1>2
    <3>3. delivered'[p] = delivered[p] \o SubSeq(rx[p], 1, len)
      BY <1>2, <3>1
    <3>4. Len(delivered'[p]) = Len(delivered[p]) + len
      BY <1>2, <3>2, <3>3
    <3> QED
      BY <1>2, <1>3, <3>4
  <2>3. CASE q = p /\ ~ ReadReady(p)
    BY <1>3, <1>7, <2>3 DEF finish, PollError, WriteExhausted, AcceptPacket,
       WriteReady, FlushReady, PollPending
  <2> QED
    BY <2>1, <2>2, <2>3
<1> QED
  BY <1>1, <1>4, <1>5, <1>6, <1>7 DEF Poll

\* With the slot empty, every byte of a released packet has been delivered.
\* poll_read reports a failure only after every byte that the peer knows to be
\* acknowledged has been read, for any fault at any moment.
THEOREM AcknowledgedIsRead == Spec => AckedIsReadFirst
<1>1. ASSUME IInv, [Next]_vars, NEW p \in Peers, ReadFails(p), tx[Other(p)] = "Idle"
      PROVE  delivered[p] = accepted[Other(p)]
  <2>1. TypeOK /\ Next
    <3>1. UNCHANGED vars => ~ ReadFails(p)
      BY DEF vars, pollVars, ReadFails
    <3> QED
      BY <1>1, <3>1 DEF IInv
  <2>2. rx[p] = <<>>
    BY <1>1, <2>1, ReadFailsEmpty
  <2>3. Other(p) \in Peers /\ Other(Other(p)) = p
    BY OtherPeer
  <2>4. rx_next[p] = tx_next[Other(p)]
    BY <1>1, <2>3 DEF IInv, ReleasedIsRetained
  <2>5. accepted[Other(p)] = (delivered[p] \o rx[p]) \o Outstanding(Other(p))
    BY <1>1, <2>3 DEF IInv, StreamConserved
  <2>6. tx_next[Other(p)] \in Int /\ delivered[p] \in Seq(Byte)
    BY <2>1, <2>3, ConfigAssumption DEF TypeOK, ConfigAssumption
  <2>7. Outstanding(Other(p)) = <<>>
    BY <2>3, <2>4, <2>6 DEF Outstanding
  <2> QED
    BY <2>2, <2>5, <2>6, <2>7
<1>2. IInv /\ [Next]_vars =>
        [\A p \in Peers : ReadFails(p) /\ tx[Other(p)] = "Idle" =>
           delivered[p] = accepted[Other(p)]]_vars
  BY <1>1
<1> QED
  BY <1>2, Inductive, PTL DEF Spec, AckedIsReadFirst

-----------------------------------------------------------------------------
(* A pair of connections implements the two byte streams of ByteStream:        *)
(* accepting, retaining, reading and flushing are its four actions, and every  *)
(* other step of the peers, the link and the clock is a stutter.               *)

\* With no packet in the outgoing slot, all that was accepted has arrived.
LEMMA IdleIsSettled ==
  ASSUME IInv, NEW p \in Peers, tx[p] = "Idle"
  PROVE  accepted[p] = delivered[Other(p)] \o rx[Other(p)]
<1>1. TypeOK /\ Stream(p)
  BY StreamIs DEF IInv
<1>2. rx_next[Other(p)] = tx_next[p] /\ tx_next[p] \in Nat
  BY <1>1, CountersType DEF Stream
<1>3. Outstanding(p) = <<>>
  BY <1>2 DEF Outstanding
<1>4. accepted[p] = Arrived(p) \o <<>>
  BY <1>1, <1>3 DEF Stream
<1>5. Arrived(p) \in Seq(Byte)
  BY <1>1, StreamTypes
<1>6. QED
  BY <1>4, <1>5, ConcatEmptySeq DEF Arrived

\* A part of a sequence.
LEMMA Slice ==
  ASSUME NEW S, NEW s \in Seq(S), NEW m \in Nat, NEW n \in Nat, m + n <= Len(s)
  PROVE  SubSeq(s, m + 1, m + n) \in Seq(S) /\ Len(SubSeq(s, m + 1, m + n)) = n
<1>1. Len(s) \in Nat /\ m + n - (m + 1) + 1 = n
  OBVIOUS
<1>2. \A i \in m + 1 .. m + n : i \in 1 .. Len(s)
  BY <1>1
<1> QED BY <1>1, <1>2

\* queue_packet is a Write.
LEMMA AcceptIsWrite ==
  ASSUME IInv, NEW p \in Peers, AcceptPacket(p)
  PROVE  Bytes!Write(p)
<1>1. TypeOK
  BY DEF IInv
<1>2. tx[p] = "Idle" /\ UNCHANGED <<delivered, rx, flushed>>
  BY DEF AcceptPacket, write_ready
<1>3. PICK len \in 1 .. MaxPayload :
        LET payload == SubSeq(Input[p], Len(accepted[p]) + 1, Len(accepted[p]) + len)
        IN  /\ Len(accepted[p]) + len <= Len(Input[p])
            /\ accepted' = [accepted EXCEPT ![p] = @ \o payload]
  BY DEF AcceptPacket
<1> DEFINE bytes == SubSeq(Input[p], Len(accepted[p]) + 1, Len(accepted[p]) + len)
<1>4. bytes \in [1 .. len -> Byte]
  <2> DEFINE done == Len(accepted[p])
  <2>1. Input[p] \in Seq(Byte) /\ accepted[p] \in Seq(Byte)
    BY <1>1, InputAssumption DEF TypeOK
  <2>2. done \in Nat /\ len \in Nat /\ len > 0 /\ done + len <= Len(Input[p])
    BY <2>1, <1>3, ConfigAssumption
  <2> HIDE DEF done
  <2>3. SubSeq(Input[p], done + 1, done + len) \in Seq(Byte)
        /\ Len(SubSeq(Input[p], done + 1, done + len)) = len
    BY <2>1, <2>2, Slice
  <2>4. SubSeq(Input[p], done + 1, done + len) \in [1 .. len -> Byte]
    <3> DEFINE part == SubSeq(Input[p], done + 1, done + len)
    <3>1. part \in Seq(Byte) /\ Len(part) = len
      BY <2>3
    <3> HIDE DEF part
    <3>2. part \in [1 .. len -> Byte]
      BY <3>1, LenProperties
    <3>3. QED
      BY <3>2 DEF part
  <2>5. QED
    BY <2>4 DEF done
<1>5. Bytes!Settled(p)
  BY <1>2, IdleIsSettled DEF Bytes!Settled, Bytes!Arrived
<1>6. accepted' = [accepted EXCEPT ![p] = @ \o bytes]
  BY <1>3
<1> HIDE DEF bytes
<1>7. QED
  BY <1>2, <1>4, <1>5, <1>6 DEF Bytes!Write

\* A suffix of a concatenation.
LEMMA SuffixOfConcat ==
  ASSUME NEW s \in Seq(Byte), NEW t \in Seq(Byte)
  PROVE  SubSeq(s \o t, Len(s) + 1, Len(s \o t)) = t
  OBVIOUS

\* Retaining the next DATA is a Retain: the frame holds all that is outstanding.
LEMMA RetainIsRetain ==
  ASSUME IInv, NEW p \in Peers, RetainPayload(p)
  PROVE  Bytes!Retain(p)
<1> DEFINE f == Head(rx_buf[p])
           r == Other(p)
<1>1. TypeOK /\ HasFrame /\ FramesSound /\ Stream(r) /\ r \in Peers /\ Other(r) = p
  BY StreamIs, OtherPeer DEF IInv
<1>2. /\ rx' = [rx EXCEPT ![p] = f.payload]
      /\ IsNext(p, f)
      /\ rx_buf[p] # <<>>
      /\ UNCHANGED <<accepted, flushed, delivered>>
  BY <1>1 DEF RetainPayload, NextFrame, HasFrame, histVars
<1>3. rx_buf[p] \in Seq(Frames) /\ delivered[p] \in Seq(Byte)
  BY <1>1 DEF TypeOK
<1>4. f \in UnderWay(r)
  BY <1>1, <1>2, <1>3 DEF UnderWay, Elements
<1>5. f \in Frames /\ f.seq \in Nat
  BY <1>1, <1>4, UnderWayType
<1>6. /\ f.seq = rx_next[p]
      /\ f.seq < tx_next[r]
      /\ f.seq + 1 = tx_next[r] => f.payload = tx_frame[r].payload
      /\ rx[p] = <<>>
      /\ Len(f.payload) \in 1 .. MaxPayload
  BY <1>1, <1>2, <1>4 DEF FramesSound, Sound, IsNext, DataMatches
<1>7. tx_next[r] \in Nat /\ rx_next[p] \in Nat
  BY <1>1, CountersType
<1>8. tx_next[r] = rx_next[p] + 1 /\ f.payload = tx_frame[r].payload
  BY <1>1, <1>5, <1>6, <1>7 DEF Stream
<1>9. f.payload \in Seq(Byte)
  BY <1>5 DEF Frames
<1>10. accepted[r] = (delivered[p] \o <<>>) \o f.payload
  BY <1>1, <1>6, <1>7, <1>8 DEF Stream, Arrived, Outstanding
<1>11. accepted[r] = delivered[p] \o f.payload
  BY <1>3, <1>10, ConcatEmptySeq
<1>12. SubSeq(accepted[r], Len(delivered[p]) + 1, Len(accepted[r])) = f.payload
  BY <1>3, <1>9, <1>11, SuffixOfConcat
<1>13. Len(delivered[p]) < Len(accepted[r])
  <2> DEFINE m == Len(delivered[p])
             n == Len(f.payload)
  <2>1. m \in Nat /\ n \in Nat /\ n > 0
    BY <1>3, <1>6, <1>9, ConfigAssumption
  <2>2. Len(accepted[r]) = m + n
    BY <1>3, <1>9, <1>11, ConcatProperties
  <2> HIDE DEF m, n
  <2>3. m < Len(accepted[r])
    BY <2>1, <2>2
  <2>4. QED
    BY <2>3 DEF m
<1> HIDE DEF f
<1>14. QED
  BY <1>2, <1>6, <1>12, <1>13 DEF Bytes!Retain

\* poll_read is a Read.
LEMMA ReadIsRead ==
  ASSUME NEW p \in Peers, ReadReady(p)
  PROVE  Bytes!Read(p)
  BY DEF ReadReady, Bytes!Read

\* poll_flush is a Flush.
LEMMA FlushIsFlush ==
  ASSUME IInv, NEW p \in Peers, FlushReady(p)
  PROVE  Bytes!Flush(p)
<1>1. /\ flushed' = [flushed EXCEPT ![p] = Len(accepted[p])]
      /\ tx[p] = "Idle"
      /\ UNCHANGED <<accepted, delivered, rx>>
  BY DEF FlushReady, flush_ready
<1>2. Bytes!Settled(p)
  BY <1>1, IdleIsSettled DEF Bytes!Settled, Bytes!Arrived
<1>3. QED
  BY <1>1, <1>2 DEF Bytes!Flush

\* Every step of the pair is a step of the streams, or leaves them unchanged.
LEMMA StepSimulation ==
  IInv /\ [Next]_vars => [Bytes!Next]_(Bytes!streamVars)
<1> SUFFICES ASSUME IInv, [Next]_vars
             PROVE  [Bytes!Next]_(Bytes!streamVars)
  OBVIOUS
<1>1. CASE UNCHANGED <<accepted, delivered, rx, flushed>>
  BY <1>1 DEF Bytes!streamVars
<1>2. ASSUME NEW p \in Peers, poll_output(p)
      PROVE  [Bytes!Next]_(Bytes!streamVars)
  BY <1>1, <1>2 DEF poll_output, OutputIdle, StartAck, StartData, OutputYield,
     OutputPending, OutputError, WritePart, WriteRest, FlushDone, rxVars, histVars
<1>3. ASSUME NEW p \in Peers, poll_input(p)
      PROVE  [Bytes!Next]_(Bytes!streamVars)
  BY <1>1, <1>3 DEF poll_input, InputYield, InputPending, InputError, ReadFrames,
     ReadNoise, ReadForeign, TakeInput, rxVars, histVars
<1>4. ASSUME NEW p \in Peers, process_frame(p)
      PROVE  [Bytes!Next]_(Bytes!streamVars)
  <2>1. CASE ReleasePacket(p) \/ AckAgain(p) \/ IgnoreFrame(p)
    BY <1>1, <2>1 DEF ReleasePacket, AckAgain, IgnoreFrame, NextFrame, rxVars,
       histVars
  <2>2. CASE RetainPayload(p)
    BY <2>2, RetainIsRetain DEF Bytes!Next
  <2>3. QED
    BY <1>4, <2>1, <2>2 DEF process_frame
<1>5. ASSUME NEW p \in Peers, poll_timer(p)
      PROVE  [Bytes!Next]_(Bytes!streamVars)
  BY <1>1, <1>5 DEF poll_timer, TimerBlocked, TimerExpires, Retransmit, GiveUp,
     TimerKeeps, rxVars, histVars
<1>6. ASSUME NEW p \in Peers, finish(p)
      PROVE  [Bytes!Next]_(Bytes!streamVars)
  <2>1. CASE PollError(p) \/ WriteExhausted(p) \/ WriteReady(p) \/ PollPending(p)
    BY <1>1, <2>1 DEF PollError, WriteExhausted, WriteReady, PollPending, histVars
  <2>2. CASE ReadReady(p)
    BY <2>2, ReadIsRead DEF Bytes!Next
  <2>3. CASE AcceptPacket(p)
    BY <2>3, AcceptIsWrite DEF Bytes!Next
  <2>4. CASE FlushReady(p)
    BY <2>4, FlushIsFlush DEF Bytes!Next
  <2>5. QED
    BY <1>6, <2>1, <2>2, <2>3, <2>4 DEF finish
<1>7. ASSUME NEW p \in Peers, Lose(p) \/ Elapse(p) \/ \E o \in Ops[p] : BeginPoll(p, o)
      PROVE  [Bytes!Next]_(Bytes!streamVars)
  BY <1>1, <1>7 DEF Lose, Elapse, BeginPoll, rxVars, histVars
<1>8. CASE UNCHANGED vars
  BY <1>1, <1>8 DEF vars, rxVars, histVars
<1> QED
  BY <1>2, <1>3, <1>4, <1>5, <1>6, <1>7, <1>8 DEF Next, Poll

\* A pair of connections over any lossy link implements the byte streams: what
\* its applications can observe is what reliable, ordered streams allow.
THEOREM Refinement == Spec => ImplementsByteStream
<1>1. Init => Bytes!Init
  BY DEF Init, Bytes!Init
<1>2. QED
  BY <1>1, StepSimulation, Inductive, PTL DEF Spec, ImplementsByteStream, Bytes!Spec
=============================================================================
