------------------------------ MODULE Reliable ------------------------------
(***************************************************************************)
(* Two Reliable connections (connection.rs) joined by an unreliable link.  *)
(*                                                                         *)
(* Every public poll method has exclusive access to its connection and     *)
(* runs the loop drive -> step = poll_output; poll_input; poll_timer until *)
(* the loop blocks, yields or fails, and then does its own work.  The two  *)
(* peers, the link and the clock advance between any two calls the loop    *)
(* makes to its transport or timer, so a poll is a sequence of steps of    *)
(* the peer's program counter pc:                                          *)
(*                                                                         *)
(*   idle -> output -> send -> input -> process -> timer -> finish -> idle *)
(*             ^                                     |                     *)
(*             +--------- Work::Progress ------------+                     *)
(*                                                                         *)
(* Variables are functions over Peers and keep the names of the fields.    *)
(* A frame is its packet: what COBS and the checksum do is abstracted to   *)
(* "a frame that arrives undamaged parses to its packet; any other run of  *)
(* bytes is discarded".  Byte counts are abstracted to a few units.        *)
(***************************************************************************)
EXTENDS Integers, Sequences

CONSTANTS
  A, B,          \* the two peers
  Session,       \* Config::session of each peer
  MaxRetries,    \* Config::max_retries
  MaxPayload,    \* Reliable::MAX_PAYLOAD
  SeqLimit,      \* number of sequence numbers, 2^32 in the code
  StepBudget,    \* STEP_BUDGET
  FinalInput,    \* FINAL_INPUT, in units of input
  DataLen,       \* length of an encoded DATA frame, in units of output
  AckLen,        \* length of an encoded ACK frame, in units of output
  Byte,          \* application bytes
  Input,         \* the bytes each application wants to write
  Ops,           \* the operations each application polls
  LinkErrors,    \* the failures the underlying transports may report
  Inserted,      \* well-formed frames of other sessions the link may insert
  ChanCap        \* bound: frames in flight towards one peer

Peers == {A, B}
Other(p) == IF p = A THEN B ELSE A

None == -1
Kinds == {"Data", "Ack", "Torn", "Blank"}
Frames == [kind : Kinds, session : Int, seq : Nat, payload : Seq(Byte)]

ASSUME PeersAssumption == A # B

ASSUME ConfigAssumption ==
  /\ Session \in [Peers -> Int]
  /\ MaxRetries \in Nat
  /\ MaxPayload \in Nat \ {0}
  /\ SeqLimit \in Nat \ {0}
  /\ StepBudget \in Nat \ {0}
  /\ FinalInput \in Nat \ {0}
  /\ DataLen \in Nat \ {0}
  /\ AckLen \in Nat \ {0}
  /\ ChanCap \in Nat \ {0}

ASSUME InputAssumption ==
  /\ Input \in [Peers -> Seq(Byte)]
  /\ Ops \in [Peers -> SUBSET {"Read", "Write", "Flush", "Progress"}]
  /\ LinkErrors \subseteq {"Transport", "UnexpectedEof", "WriteZero"}

\* Freshness of the session identifier (Config::session): a frame left over
\* from, or belonging to, another session never carries this session's value.
ASSUME InsertedAssumption ==
  /\ Inserted \subseteq Frames
  /\ \A f \in Inserted, p \in Peers : f.session # Session[p]

VARIABLES
  \* fields of Reliable
  health,        \* "Ok", the pending error of Health::Failed, or "Reported"
  tx,            \* enum Tx
  tx_frame,      \* the packet in the outgoing frame buffer
  tx_next,       \* next outgoing sequence number, a u64
  tx_retries,
  final_input,   \* None, or what is left of the final allowance
  out,           \* enum Out: [at, frame, offset]
  ack_pending,   \* None or a sequence number
  ack_frame,     \* the packet in the ACK frame buffer
  rx_buf,        \* complete frames read but not yet processed
  rx,            \* rx_payload[rx_start..rx_end]: payload retained, not yet read
  rx_next,       \* next incoming sequence number, a u64
  \* the poll in progress
  pc,
  op,            \* its operation; "Wrote" once queue_packet took the packet
  budget,
  output, input, \* results of poll_output and poll_input in this step
  driven,        \* result of the latest drive
  \* the world
  due,           \* the deadline armed for the packet has been reached
  wire,          \* units of an unfinished frame the link has accepted
  chan,          \* frames in flight towards each peer
  \* history
  accepted,      \* bytes poll_write accepted
  delivered,     \* bytes poll_read returned
  flushed,       \* Len(accepted) at the latest successful poll_flush
  sends          \* completed transmissions of the current packet

txVars   == <<tx, tx_frame, tx_next, tx_retries, final_input, due>>
outVars  == <<out, ack_frame, wire>>
rxVars   == <<rx, rx_next>>
pollVars == <<pc, op, budget, output, input, driven>>
histVars == <<accepted, delivered, flushed, sends>>
vars == <<health, txVars, outVars, ack_pending, rx_buf, rxVars, pollVars,
          chan, histVars>>

-----------------------------------------------------------------------------
Works == {"Blocked", "Progress", "Yield"}
OutIdle == [at |-> "Idle", frame |-> "None", offset |-> 0]
Blank == [kind |-> "Blank", session |-> 0, seq |-> 0, payload |-> <<>>]
Torn  == [kind |-> "Torn",  session |-> 0, seq |-> 0, payload |-> <<>>]

\* Mutant: the acknowledgment names the packet expected next.
encode_ack_next(p, seq) ==
  [kind |-> "Ack", session |-> Session[p], seq |-> seq + 1, payload |-> <<>>]

\* encode_ack and encode_data: the packet a frame buffer is filled with.
encode_ack(p, seq) ==
  [kind |-> "Ack", session |-> Session[p], seq |-> seq, payload |-> <<>>]
encode_data(p, seq, payload) ==
  [kind |-> "Data", session |-> Session[p], seq |-> seq, payload |-> payload]

\* The buffer and the length poll_output writes from.
Buffer(p) == IF out[p].frame = "Ack" THEN ack_frame[p] ELSE tx_frame[p]
FrameLen(p) == IF out[p].frame = "Ack" THEN AckLen ELSE DataLen

\* What the link holds of the frame once it accepts n more units.
Units(p, n) == wire[p] \o [i \in 1 .. n |-> Buffer(p)]

\* What the units between two delimiters decode to: the packet if they are
\* the units of one frame, otherwise something the checksum rejects.
Assemble(units) ==
  IF \A i \in 1 .. Len(units) : units[i] = units[1] THEN units[1] ELSE Torn

Init ==
  /\ health      = [p \in Peers |-> "Ok"]
  /\ tx          = [p \in Peers |-> "Idle"]
  /\ tx_frame    = [p \in Peers |-> Blank]
  /\ tx_next     = [p \in Peers |-> 0]
  /\ tx_retries  = [p \in Peers |-> 0]
  /\ final_input = [p \in Peers |-> None]
  /\ out         = [p \in Peers |-> OutIdle]
  /\ ack_pending = [p \in Peers |-> None]
  /\ ack_frame   = [p \in Peers |-> Blank]
  /\ rx_buf      = [p \in Peers |-> <<>>]
  /\ rx          = [p \in Peers |-> <<>>]
  /\ rx_next     = [p \in Peers |-> 0]
  /\ pc          = [p \in Peers |-> "idle"]
  /\ op          = [p \in Peers |-> "None"]
  /\ budget      = [p \in Peers |-> 0]
  /\ output      = [p \in Peers |-> "Blocked"]
  /\ input       = [p \in Peers |-> "Blocked"]
  /\ driven      = [p \in Peers |-> "Blocked"]
  /\ due         = [p \in Peers |-> FALSE]
  /\ wire        = [p \in Peers |-> <<>>]
  /\ chan        = [p \in Peers |-> <<>>]
  /\ accepted    = [p \in Peers |-> <<>>]
  /\ delivered   = [p \in Peers |-> <<>>]
  /\ flushed     = [p \in Peers |-> 0]
  /\ sends       = [p \in Peers |-> 0]

-----------------------------------------------------------------------------
(* Control of a poll. *)

Goto(p, l) == pc' = [pc EXCEPT ![p] = l]

\* Mutant: spend forgets to store what is left.
Spend_free(p) == budget[p] > 0 /\ UNCHANGED budget

\* Budget::spend succeeds and the transport is called.
Spend(p) ==
  /\ budget[p] > 0
  /\ budget' = [budget EXCEPT ![p] = @ - 1]

\* fail: the first error sticks.
fail(p, error) ==
  /\ final_input' = [final_input EXCEPT ![p] = None]
  /\ health' = [health EXCEPT ![p] = IF @ = "Ok" THEN error ELSE @]

\* Mutant: drive records the error and carries on with the step.
FailDrive_continues(p, error) ==
  /\ fail(p, error)
  /\ driven' = [driven EXCEPT ![p] = "Blocked"]
  /\ output' = [output EXCEPT ![p] = "Blocked"]
  /\ input' = [input EXCEPT ![p] = "Blocked"]
  /\ Goto(p, "input")

\* step returned an error: drive fails the connection and reports Blocked.
FailDrive(p, error) ==
  /\ fail(p, error)
  /\ driven' = [driven EXCEPT ![p] = "Blocked"]
  /\ output' = [output EXCEPT ![p] = "Blocked"]
  /\ input' = [input EXCEPT ![p] = "Blocked"]
  /\ Goto(p, "finish")

\* The poll method returns to its caller.
Return(p) ==
  /\ Goto(p, "idle")
  /\ op' = [op EXCEPT ![p] = "None"]
  /\ budget' = [budget EXCEPT ![p] = 0]

\* A poll method is called, with a nonempty buffer if it takes one: an empty
\* buffer returns at once and changes nothing.  drive does nothing on a
\* connection that is not healthy.
BeginPoll(p, o) ==
  /\ pc[p] = "idle"
  /\ o \in Ops[p]
  /\ o = "Write" => Len(accepted[p]) < Len(Input[p])
  /\ op' = [op EXCEPT ![p] = o]
  /\ budget' = [budget EXCEPT ![p] = StepBudget]
  /\ driven' = [driven EXCEPT ![p] = "Blocked"]
  /\ Goto(p, IF health[p] = "Ok" THEN "output" ELSE "finish")
  /\ UNCHANGED <<health, txVars, outVars, ack_pending, rx_buf, rxVars,
                 output, input, chan, histVars>>

-----------------------------------------------------------------------------
(* poll_output *)

\* Out::Idle and nothing to send.
OutputIdle(p) ==
  /\ pc[p] = "output"
  /\ out[p].at = "Idle"
  /\ ack_pending[p] = None
  /\ tx[p] # "Queued"
  /\ output' = [output EXCEPT ![p] = "Blocked"]
  /\ Goto(p, "input")
  /\ UNCHANGED <<health, txVars, outVars, ack_pending, rx_buf, rxVars,
                 op, budget, input, driven, chan, histVars>>

\* Mutant: the acknowledgment is taken before the budget is checked, and is
\* dropped when the budget is spent.
StartAck_dropped(p) ==
  /\ pc[p] = "output"
  /\ out[p].at = "Idle"
  /\ ack_pending[p] # None
  /\ ack_pending' = [ack_pending EXCEPT ![p] = None]
  /\ IF budget[p] = 0
     THEN /\ output' = [output EXCEPT ![p] = "Yield"]
          /\ Goto(p, "input")
          /\ UNCHANGED <<ack_frame, out>>
     ELSE /\ ack_frame' = [ack_frame EXCEPT ![p] = encode_ack(p, ack_pending[p])]
          /\ out' = [out EXCEPT ![p] =
                      [at |-> "Writing", frame |-> "Ack", offset |-> 0]]
          /\ Goto(p, "send")
          /\ UNCHANGED output
  /\ UNCHANGED <<health, txVars, wire, rx_buf, rxVars,
                 op, budget, input, driven, chan, histVars>>

\* A pending acknowledgment goes first.
StartAck(p) ==
  /\ pc[p] = "output"
  /\ out[p].at = "Idle"
  /\ ack_pending[p] # None
  /\ ack_frame' = [ack_frame EXCEPT ![p] = encode_ack(p, ack_pending[p])]
  /\ ack_pending' = [ack_pending EXCEPT ![p] = None]
  /\ out' = [out EXCEPT ![p] = [at |-> "Writing", frame |-> "Ack", offset |-> 0]]
  /\ Goto(p, "send")
  /\ UNCHANGED <<health, txVars, wire, rx_buf, rxVars,
                 op, budget, output, input, driven, chan, histVars>>

StartData(p) ==
  /\ pc[p] = "output"
  /\ out[p].at = "Idle"
  /\ ack_pending[p] = None
  /\ tx[p] = "Queued"
  /\ tx' = [tx EXCEPT ![p] = "Sending"]
  /\ out' = [out EXCEPT ![p] = [at |-> "Writing", frame |-> "Data", offset |-> 0]]
  /\ Goto(p, "send")
  /\ UNCHANGED <<health, tx_frame, tx_next, tx_retries, final_input, due,
                 ack_frame, wire, ack_pending, rx_buf, rxVars,
                 op, budget, output, input, driven, chan, histVars>>

\* A frame is selected, or was left unfinished by an earlier step or poll.
Sending(p) == pc[p] = "send" \/ (pc[p] = "output" /\ out[p].at # "Idle")

\* Mutant: the frame is given up when the budget is spent before its first byte.
OutputYield_restarts(p) ==
  /\ Sending(p)
  /\ budget[p] = 0
  /\ out' = IF out[p].at = "Writing" /\ out[p].offset = 0
            THEN [out EXCEPT ![p] = OutIdle] ELSE out
  /\ output' = [output EXCEPT ![p] = "Yield"]
  /\ Goto(p, "input")
  /\ UNCHANGED <<health, txVars, ack_frame, wire, ack_pending, rx_buf, rxVars,
                 op, budget, input, driven, chan, histVars>>

\* The budget is spent; the frame stays where it is.
OutputYield(p) ==
  /\ Sending(p)
  /\ budget[p] = 0
  /\ output' = [output EXCEPT ![p] = "Yield"]
  /\ Goto(p, "input")
  /\ UNCHANGED <<health, txVars, outVars, ack_pending, rx_buf, rxVars,
                 op, budget, input, driven, chan, histVars>>

\* The transport's poll_write or poll_flush returns Pending.
OutputPending(p) ==
  /\ Sending(p)
  /\ Spend(p)
  /\ output' = [output EXCEPT ![p] = "Blocked"]
  /\ Goto(p, "input")
  /\ UNCHANGED <<health, txVars, outVars, ack_pending, rx_buf, rxVars,
                 op, input, driven, chan, histVars>>

\* The transport fails, or accepts zero bytes of a write.
OutputError(p) ==
  /\ Sending(p)
  /\ Spend(p)
  /\ \E error \in LinkErrors \ {"UnexpectedEof"} :
        /\ error = "WriteZero" => out[p].at = "Writing"
        /\ FailDrive(p, error)
  /\ UNCHANGED <<tx, tx_frame, tx_next, tx_retries, due, outVars, ack_pending,
                 rx_buf, rxVars, op, chan, histVars>>

\* The transport accepts some of what is left of the frame.
WritePart(p) ==
  /\ Sending(p)
  /\ out[p].at = "Writing"
  /\ Spend(p)
  /\ \E n \in 1 .. FrameLen(p) - out[p].offset - 1 :
        /\ wire' = [wire EXCEPT ![p] = Units(p, n)]
        /\ out' = [out EXCEPT ![p] = [at |-> "Writing", frame |-> @.frame,
                                     offset |-> @.offset + n]]
  /\ output' = [output EXCEPT ![p] = "Progress"]
  /\ Goto(p, "input")
  /\ UNCHANGED <<health, txVars, ack_frame, ack_pending, rx_buf, rxVars,
                 op, input, driven, chan, histVars>>

\* The transport accepts all that is left, the closing delimiter included: the
\* frame is under way.
WriteRest(p) ==
  /\ Sending(p)
  /\ out[p].at = "Writing"
  /\ Len(chan[Other(p)]) < ChanCap
  /\ Spend(p)
  /\ chan' = [chan EXCEPT ![Other(p)] =
               Append(@, Assemble(Units(p, FrameLen(p) - out[p].offset)))]
  /\ wire' = [wire EXCEPT ![p] = <<>>]
  /\ out' = [out EXCEPT ![p] =
              [at |-> "Flushing", frame |-> @.frame, offset |-> 0]]
  /\ sends' = [sends EXCEPT ![p] = IF out[p].frame = "Data" THEN @ + 1 ELSE @]
  /\ output' = [output EXCEPT ![p] = "Progress"]
  /\ Goto(p, "input")
  /\ UNCHANGED <<health, txVars, ack_frame, ack_pending, rx_buf, rxVars,
                 op, input, driven, accepted, delivered, flushed>>

\* The transport has flushed the frame.  If it is the packet being sent, the
\* wait for its acknowledgment begins.
FlushDone(p) ==
  /\ Sending(p)
  /\ out[p].at = "Flushing"
  /\ Spend(p)
  /\ IF out[p].frame = "Data" /\ tx[p] = "Sending"
     THEN /\ tx' = [tx EXCEPT ![p] = "Waiting"]
          /\ final_input' = [final_input EXCEPT ![p] = None]
          /\ due' = [due EXCEPT ![p] = FALSE]
     ELSE UNCHANGED <<tx, final_input, due>>
  /\ out' = [out EXCEPT ![p] = OutIdle]
  /\ output' = [output EXCEPT ![p] = "Progress"]
  /\ Goto(p, "input")
  /\ UNCHANGED <<health, tx_frame, tx_next, tx_retries, ack_frame, wire,
                 ack_pending, rx_buf, rxVars, op, input, driven, chan, histVars>>

-----------------------------------------------------------------------------
(* poll_input, process_input and process_frame *)

InputYield(p) ==
  /\ pc[p] = "input"
  /\ budget[p] = 0
  /\ input' = [input EXCEPT ![p] = "Yield"]
  /\ Goto(p, "timer")
  /\ UNCHANGED <<health, txVars, outVars, ack_pending, rx_buf, rxVars,
                 op, budget, output, driven, chan, histVars>>

\* Nothing has arrived: frames in flight may still be under way.
InputPending(p) ==
  /\ pc[p] = "input"
  /\ Spend(p)
  /\ input' = [input EXCEPT ![p] = "Blocked"]
  /\ Goto(p, "timer")
  /\ UNCHANGED <<health, txVars, outVars, ack_pending, rx_buf, rxVars,
                 op, output, driven, chan, histVars>>

InputError(p) ==
  /\ pc[p] = "input"
  /\ Spend(p)
  /\ \E error \in LinkErrors \ {"WriteZero"} : FailDrive(p, error)
  /\ UNCHANGED <<tx, tx_frame, tx_next, tx_retries, due, outVars, ack_pending,
                 rx_buf, rxVars, op, chan, histVars>>

\* Bytes were read: they count against the final allowance and are processed.
\* How many bytes a read returns is up to the transport.
TakeInput(p, frames) ==
  /\ Spend(p)
  /\ \E read \in 1 .. FinalInput :
        final_input' = [final_input EXCEPT ![p] =
                         IF @ = None THEN None
                         ELSE IF @ > read THEN @ - read ELSE 0]
  /\ rx_buf' = [rx_buf EXCEPT ![p] = frames]
  /\ input' = [input EXCEPT ![p] = "Progress"]
  /\ Goto(p, IF frames = <<>> THEN "timer" ELSE "process")
  /\ UNCHANGED <<health, tx, tx_frame, tx_next, tx_retries, due, outVars,
                 ack_pending, rxVars, op, output, driven, histVars>>

\* One read may complete several frames.
ReadFrames(p) ==
  /\ pc[p] = "input"
  /\ \E n \in 1 .. Len(chan[p]) :
        /\ TakeInput(p, SubSeq(chan[p], 1, n))
        /\ chan' = [chan EXCEPT ![p] = SubSeq(@, n + 1, Len(@))]

\* The read completes no frame, or one that decode_to_slice or parse rejects:
\* part of a frame, padding, noise, what is left of a damaged frame.
ReadNoise(p) ==
  /\ pc[p] = "input"
  /\ TakeInput(p, <<>>)
  /\ UNCHANGED chan

\* The read completes a frame of another session.
ReadForeign(p) ==
  /\ pc[p] = "input"
  /\ \E f \in Inserted : TakeInput(p, <<f>>)
  /\ UNCHANGED chan

\* Mutant: any acknowledgment of the session releases the packet.
AckMatches_any(p, f) ==
  f.kind = "Ack" /\ f.session = Session[p] /\ tx[p] # "Idle"

\* The acknowledgment of the packet in the outgoing buffer.
AckMatches(p, f) ==
  /\ f.kind = "Ack"
  /\ f.session = Session[p]
  /\ tx[p] # "Idle"
  /\ f.seq + 1 = tx_next[p]

\* Mutant: the session of DATA is not compared.
DataMatches_any_session(p, f) ==
  f.kind = "Data" /\ Len(f.payload) \in 1 .. MaxPayload

\* DATA this connection looks at.
DataMatches(p, f) ==
  /\ f.kind = "Data"
  /\ f.session = Session[p]
  /\ Len(f.payload) \in 1 .. MaxPayload

\* Mutant: a repeat is taken for new DATA.
IsNext_any_seq(p, f) == DataMatches(p, f) /\ rx[p] = <<>>

\* The next DATA, and room to retain it.
IsNext(p, f) ==
  /\ DataMatches(p, f)
  /\ f.seq = rx_next[p]
  /\ rx[p] = <<>>

\* A repeat of the DATA retained last, not about to be acknowledged anyway.
IsRepeat(p, f) ==
  /\ DataMatches(p, f)
  /\ rx_next[p] > 0
  /\ f.seq = rx_next[p] - 1
  /\ ack_pending[p] = None

\* process_input takes the next complete frame out of the buffer.
NextFrame(p) ==
  /\ pc[p] = "process"
  /\ rx_buf' = [rx_buf EXCEPT ![p] = Tail(@)]
  /\ Goto(p, IF Tail(rx_buf[p]) = <<>> THEN "timer" ELSE "process")
  /\ UNCHANGED <<health, tx_frame, tx_next, outVars, op, budget, output, input,
                 driven, chan, histVars>>

ReleasePacket(p) ==
  /\ NextFrame(p)
  /\ AckMatches(p, Head(rx_buf[p]))
  /\ tx' = [tx EXCEPT ![p] = "Idle"]
  /\ tx_retries' = [tx_retries EXCEPT ![p] = 0]
  /\ final_input' = [final_input EXCEPT ![p] = None]
  /\ due' = [due EXCEPT ![p] = FALSE]
  /\ UNCHANGED <<ack_pending, rxVars>>

RetainPayload(p) ==
  /\ NextFrame(p)
  /\ IsNext(p, Head(rx_buf[p]))
  /\ rx' = [rx EXCEPT ![p] = Head(rx_buf[p]).payload]
  /\ rx_next' = [rx_next EXCEPT ![p] = @ + 1]
  /\ ack_pending' = [ack_pending EXCEPT ![p] = Head(rx_buf[p]).seq]
  /\ UNCHANGED <<tx, tx_retries, final_input, due>>

AckAgain(p) ==
  /\ NextFrame(p)
  /\ IsRepeat(p, Head(rx_buf[p]))
  /\ ack_pending' = [ack_pending EXCEPT ![p] = Head(rx_buf[p]).seq]
  /\ UNCHANGED <<tx, tx_retries, final_input, due, rxVars>>

IgnoreFrame(p) ==
  /\ NextFrame(p)
  /\ ~ AckMatches(p, Head(rx_buf[p]))
  /\ ~ IsNext(p, Head(rx_buf[p]))
  /\ ~ IsRepeat(p, Head(rx_buf[p]))
  /\ UNCHANGED <<tx, tx_retries, final_input, due, ack_pending, rxVars>>

-----------------------------------------------------------------------------
(* poll_timer, and the end of step *)

\* Mutant: step leaves the result of poll_timer out of the maximum.
StepWork_no_timer(p, timer) ==
  IF "Yield" \in {output[p], input[p]} THEN "Yield"
  ELSE IF "Progress" \in {output[p], input[p]} THEN "Progress" ELSE "Blocked"

\* The greatest of the three results of a step: Yield outranks Progress, which
\* outranks Blocked.
StepWork(p, timer) ==
  IF "Yield" \in {output[p], input[p], timer} THEN "Yield"
  ELSE IF "Progress" \in {output[p], input[p], timer} THEN "Progress"
  ELSE "Blocked"

\* Mutant: drive stops on Blocked only.
EndStep_on_yield(p, timer) ==
  /\ IF StepWork(p, timer) # "Blocked"
     THEN Goto(p, "output") /\ UNCHANGED driven
     ELSE /\ Goto(p, "finish")
          /\ driven' = [driven EXCEPT ![p] = "Blocked"]
  /\ output' = [output EXCEPT ![p] = "Blocked"]
  /\ input' = [input EXCEPT ![p] = "Blocked"]

\* drive loops on Progress and stops on Blocked or Yield.
EndStep(p, timer) ==
  /\ IF StepWork(p, timer) = "Progress"
     THEN Goto(p, "output") /\ UNCHANGED driven
     ELSE /\ Goto(p, "finish")
          /\ driven' = [driven EXCEPT ![p] = StepWork(p, timer)]
  /\ output' = [output EXCEPT ![p] = "Blocked"]
  /\ input' = [input EXCEPT ![p] = "Blocked"]

TimerKeeps(p) == UNCHANGED <<tx_frame, tx_next, outVars, ack_pending, rx_buf,
                             rxVars, op, budget, chan, histVars>>

\* No packet waits, or its deadline is ahead, or ready input may still hold
\* the acknowledgment.
TimerBlocked(p) ==
  /\ pc[p] = "timer"
  /\ \/ tx[p] # "Waiting"
     \/ final_input[p] = None /\ ~ due[p]
     \/ final_input[p] > 0 /\ input[p] # "Blocked"
  /\ EndStep(p, "Blocked")
  /\ TimerKeeps(p)
  /\ UNCHANGED <<health, tx, tx_retries, final_input, due>>

\* The deadline has been reached: ready input gets a final allowance.
TimerExpires(p) ==
  /\ pc[p] = "timer"
  /\ tx[p] = "Waiting"
  /\ final_input[p] = None
  /\ due[p]
  /\ final_input' = [final_input EXCEPT ![p] = FinalInput]
  /\ EndStep(p, "Progress")
  /\ TimerKeeps(p)
  /\ UNCHANGED <<health, tx, tx_retries, due>>

\* Mutant: the allowance ends only when the input blocks.
AllowanceOver_unbounded(p) ==
  /\ pc[p] = "timer"
  /\ tx[p] = "Waiting"
  /\ final_input[p] # None
  /\ input[p] = "Blocked"

\* Mutant: one retransmission too many.
RetriesLeft_one_more(p) == tx_retries[p] <= MaxRetries

RetriesLeft(p) == tx_retries[p] < MaxRetries

\* The allowance is over: the input blocked or the allowance is used up.
AllowanceOver(p) ==
  /\ pc[p] = "timer"
  /\ tx[p] = "Waiting"
  /\ final_input[p] # None
  /\ input[p] = "Blocked" \/ final_input[p] = 0

Retransmit(p) ==
  /\ AllowanceOver(p)
  /\ RetriesLeft(p)
  /\ tx' = [tx EXCEPT ![p] = "Queued"]
  /\ tx_retries' = [tx_retries EXCEPT ![p] = @ + 1]
  /\ final_input' = [final_input EXCEPT ![p] = None]
  /\ due' = [due EXCEPT ![p] = FALSE]
  /\ EndStep(p, "Progress")
  /\ TimerKeeps(p)
  /\ UNCHANGED health

GiveUp(p) ==
  /\ AllowanceOver(p)
  /\ ~ RetriesLeft(p)
  /\ FailDrive(p, "Timeout")
  /\ TimerKeeps(p)
  /\ UNCHANGED <<tx, tx_retries, due>>

-----------------------------------------------------------------------------
(* What the poll methods do once drive has returned *)

data_out_busy(p) == out[p].at # "Idle" /\ out[p].frame = "Data"

\* Mutant: the outgoing buffer is refilled while it is still being written.
write_ready_while_busy(p) == tx[p] = "Idle"

write_ready(p) == tx[p] = "Idle" /\ ~ data_out_busy(p)

\* Mutant: a flush completes once the frame has left, acknowledged or not.
flush_ready_unacked(p) == out[p].at = "Idle" /\ ack_pending[p] = None

flush_ready(p) == tx[p] = "Idle" /\ out[p].at = "Idle" /\ ack_pending[p] = None

\* Mutant: the last sequence number is taken to be one further on.
SeqLeft_one_more(p) == tx_next[p] <= SeqLimit

\* A sequence number is left: tx_next <= u32::MAX.
SeqLeft(p) == tx_next[p] < SeqLimit

FinishKeeps(p) == UNCHANGED <<outVars, ack_pending, rx_buf, rx_next,
                              output, input, driven, chan>>

\* poll_read copies a prefix of the retained payload, also after a failure.
ReadReady(p) ==
  /\ pc[p] = "finish"
  /\ op[p] = "Read"
  /\ \E len \in 1 .. Len(rx[p]) :
        /\ delivered' = [delivered EXCEPT ![p] = @ \o SubSeq(rx[p], 1, len)]
        /\ rx' = [rx EXCEPT ![p] = SubSeq(@, len + 1, Len(@))]
  /\ Return(p)
  /\ FinishKeeps(p)
  /\ UNCHANGED <<health, txVars, accepted, flushed, sends>>

\* Mutant: a read reports the failure ahead of the retained payload.
PollError_first(p) ==
  /\ pc[p] = "finish"
  /\ health[p] # "Ok"
  /\ op[p] # "Wrote"
  /\ health' = [health EXCEPT ![p] = "Reported"]
  /\ Return(p)
  /\ FinishKeeps(p)
  /\ UNCHANGED <<txVars, rx, histVars>>

\* Mutant: a write that has accepted its packet returns the failure instead.
PollError_wrote(p) ==
  /\ pc[p] = "finish"
  /\ health[p] # "Ok"
  /\ op[p] = "Read" => rx[p] = <<>>
  /\ health' = [health EXCEPT ![p] = "Reported"]
  /\ Return(p)
  /\ FinishKeeps(p)
  /\ UNCHANGED <<txVars, rx, histVars>>

\* failure(): the specific error is returned once, ConnectionError::Failed
\* from then on.
PollError(p) ==
  /\ pc[p] = "finish"
  /\ health[p] # "Ok"
  /\ op[p] # "Wrote"
  /\ op[p] = "Read" => rx[p] = <<>>
  /\ health' = [health EXCEPT ![p] = "Reported"]
  /\ Return(p)
  /\ FinishKeeps(p)
  /\ UNCHANGED <<txVars, rx, histVars>>

\* queue_packet: no sequence number is left.
WriteExhausted(p) ==
  /\ pc[p] = "finish"
  /\ op[p] = "Write"
  /\ health[p] = "Ok"
  /\ write_ready(p)
  /\ ~ SeqLeft(p)
  /\ final_input' = [final_input EXCEPT ![p] = None]
  /\ health' = [health EXCEPT ![p] = "Reported"]
  /\ Return(p)
  /\ FinishKeeps(p)
  /\ UNCHANGED <<tx, tx_frame, tx_next, tx_retries, due, rx, histVars>>

\* queue_packet fills the outgoing buffer and, unless the first drive
\* yielded, drives again on what is left of the budget.
AcceptPacket(p) ==
  /\ pc[p] = "finish"
  /\ op[p] = "Write"
  /\ health[p] = "Ok"
  /\ write_ready(p)
  /\ SeqLeft(p)
  /\ \E len \in 1 .. MaxPayload :
       LET done    == Len(accepted[p])
           payload == SubSeq(Input[p], done + 1, done + len)
       IN  /\ done + len <= Len(Input[p])
           /\ tx_frame' = [tx_frame EXCEPT ![p] =
                            encode_data(p, tx_next[p] % SeqLimit, payload)]
           /\ accepted' = [accepted EXCEPT ![p] = @ \o payload]
  /\ tx_next' = [tx_next EXCEPT ![p] = @ + 1]
  /\ tx_retries' = [tx_retries EXCEPT ![p] = 0]
  /\ tx' = [tx EXCEPT ![p] = "Queued"]
  /\ sends' = [sends EXCEPT ![p] = 0]
  /\ IF driven[p] = "Yield"
     THEN Return(p)
     ELSE /\ op' = [op EXCEPT ![p] = "Wrote"]
          /\ Goto(p, "output")
          /\ UNCHANGED budget
  /\ FinishKeeps(p)
  /\ UNCHANGED <<health, final_input, due, rx, delivered, flushed>>

\* poll_write returns Ready(Ok(len)), whatever its second drive ran into.
WriteReady(p) ==
  /\ pc[p] = "finish"
  /\ op[p] = "Wrote"
  /\ Return(p)
  /\ FinishKeeps(p)
  /\ UNCHANGED <<health, txVars, rx, histVars>>

FlushReady(p) ==
  /\ pc[p] = "finish"
  /\ op[p] = "Flush"
  /\ health[p] = "Ok"
  /\ flush_ready(p)
  /\ flushed' = [flushed EXCEPT ![p] = Len(accepted[p])]
  /\ Return(p)
  /\ FinishKeeps(p)
  /\ UNCHANGED <<health, txVars, rx, accepted, delivered, sends>>

\* The poll returns Pending.
PollPending(p) ==
  /\ pc[p] = "finish"
  /\ health[p] = "Ok"
  /\ \/ op[p] = "Read"  /\ rx[p] = <<>>
     \/ op[p] = "Write" /\ ~ write_ready(p)
     \/ op[p] = "Flush" /\ ~ flush_ready(p)
     \/ op[p] = "Progress"
  /\ Return(p)
  /\ FinishKeeps(p)
  /\ UNCHANGED <<health, txVars, rx, histVars>>

-----------------------------------------------------------------------------
(* The link and the clock *)

\* A frame is lost, or damaged beyond what the checksum accepts.
Lose(p) ==
  /\ \E i \in 1 .. Len(chan[p]) :
        chan' = [chan EXCEPT ![p] =
                  [j \in 1 .. Len(@) - 1 |-> IF j < i THEN @[j] ELSE @[j + 1]]]
  /\ UNCHANGED <<health, txVars, outVars, ack_pending, rx_buf, rxVars,
                 pollVars, histVars>>

\* Time reaches the deadline of the waiting packet.
Elapse(p) ==
  /\ tx[p] = "Waiting"
  /\ ~ due[p]
  /\ due' = [due EXCEPT ![p] = TRUE]
  /\ UNCHANGED <<health, tx, tx_frame, tx_next, tx_retries, final_input,
                 outVars, ack_pending, rx_buf, rxVars, pollVars, chan, histVars>>

-----------------------------------------------------------------------------
poll_output(p) == \/ OutputIdle(p) \/ StartAck(p) \/ StartData(p)
                  \/ OutputYield(p) \/ OutputPending(p) \/ OutputError(p)
                  \/ WritePart(p) \/ WriteRest(p) \/ FlushDone(p)

poll_input(p) == \/ InputYield(p) \/ InputPending(p) \/ InputError(p)
                 \/ ReadFrames(p) \/ ReadNoise(p) \/ ReadForeign(p)

process_frame(p) == \/ ReleasePacket(p) \/ RetainPayload(p)
                    \/ AckAgain(p) \/ IgnoreFrame(p)

poll_timer(p) == \/ TimerBlocked(p) \/ TimerExpires(p)
                 \/ Retransmit(p) \/ GiveUp(p)

finish(p) == \/ ReadReady(p) \/ PollError(p) \/ WriteExhausted(p)
             \/ AcceptPacket(p) \/ WriteReady(p) \/ FlushReady(p)
             \/ PollPending(p)

Poll(p) == \/ poll_output(p) \/ poll_input(p) \/ process_frame(p)
           \/ poll_timer(p) \/ finish(p)

Next == \E p \in Peers :
          \/ \E o \in Ops[p] : BeginPoll(p, o)
          \/ Poll(p)
          \/ Lose(p)
          \/ Elapse(p)

Spec == Init /\ [][Next]_vars

\* Fairness: executors run the polls they started, the applications keep
\* polling, the transports eventually accept output, the clock reaches every
\* deadline.  Nothing is assumed of delivery.
Fairness ==
  \A p \in Peers :
    /\ WF_vars(Poll(p))
    /\ WF_vars(\E o \in Ops[p] : BeginPoll(p, o))
    /\ SF_vars(WritePart(p) \/ WriteRest(p) \/ FlushDone(p))
    /\ WF_vars(Elapse(p))

FairSpec == Spec /\ Fairness

-----------------------------------------------------------------------------
(* Properties *)

Errors == {"Transport", "UnexpectedEof", "WriteZero", "Timeout"}
Labels == {"idle", "output", "send", "input", "process", "timer", "finish"}

\* Every field stays within its type.
TypeOK ==
  /\ health \in [Peers -> {"Ok", "Reported"} \cup Errors]
  /\ tx \in [Peers -> {"Idle", "Queued", "Sending", "Waiting"}]
  /\ tx_frame \in [Peers -> Frames]
  /\ tx_next \in [Peers -> 0 .. SeqLimit]
  /\ tx_retries \in [Peers -> 0 .. MaxRetries]
  /\ final_input \in [Peers -> {None} \cup 0 .. FinalInput]
  /\ out \in [Peers -> [at : {"Idle", "Writing", "Flushing"},
                        frame : {"None", "Ack", "Data"}, offset : Nat]]
  /\ ack_pending \in [Peers -> {None} \cup Nat]
  /\ ack_frame \in [Peers -> Frames]
  /\ rx_buf \in [Peers -> Seq(Frames)]
  /\ rx \in [Peers -> Seq(Byte)]
  /\ rx_next \in [Peers -> Nat]
  /\ pc \in [Peers -> Labels]
  /\ op \in [Peers -> {"None", "Read", "Write", "Wrote", "Flush", "Progress"}]
  /\ budget \in [Peers -> 0 .. StepBudget]
  /\ output \in [Peers -> Works]
  /\ input \in [Peers -> Works]
  /\ driven \in [Peers -> Works]
  /\ due \in [Peers -> BOOLEAN]
  /\ wire \in [Peers -> Seq(Frames)]
  /\ chan \in [Peers -> Seq(Frames)]
  /\ accepted \in [Peers -> Seq(Byte)]
  /\ delivered \in [Peers -> Seq(Byte)]
  /\ flushed \in [Peers -> Nat]
  /\ sends \in [Peers -> Nat]

\* The packet of p its peer has not retained yet.
Outstanding(p) ==
  IF rx_next[Other(p)] < tx_next[p] THEN tx_frame[p].payload ELSE <<>>

\* Exactly-once, in-order delivery: at every moment the bytes poll_write
\* accepted are, in order, the bytes poll_read returned, the bytes retained in
\* the slot and the bytes of the one outstanding packet.  Nothing is lost,
\* repeated or reordered by retransmission, duplicate DATA or failure.
StreamConserved ==
  \A p \in Peers :
    accepted[p] = (delivered[Other(p)] \o rx[Other(p)]) \o Outstanding(p)

\* process_frame releases the outgoing packet only for an acknowledgment the
\* peer sent after retaining that very packet.
ReleasedIsRetained ==
  \A p \in Peers : tx[p] = "Idle" => rx_next[Other(p)] = tx_next[p]

\* poll_flush is a barrier: whatever was accepted before a successful flush
\* has been read by, or is retained for, the peer's application.
FlushBarrier ==
  \A p \in Peers :
    flushed[p] <= Len(delivered[Other(p)]) + Len(rx[Other(p)])

\* A frame that is partly written is never altered or mixed with another one,
\* although the acknowledgment of an earlier transmission may release the
\* packet, and input may queue an ACK, while it is being written.
FramesIntact ==
  \A p \in Peers :
    /\ \A i \in 1 .. Len(wire[p]) : wire[p][i] = Buffer(p)
    /\ Len(wire[p]) = out[p].offset
    /\ \A i \in 1 .. Len(chan[p]) : chan[p][i].kind \in {"Data", "Ack"}

\* ConnectionError::Timeout is raised only after the initial transmission and
\* all of max_retries retransmissions went out whole; no packet gets more.
RetriesSpent ==
  \A p \in Peers : /\ sends[p] <= MaxRetries + 1
                   /\ health[p] = "Timeout" => sends[p] = MaxRetries + 1

\* When a poll returns and its last drive ended Blocked, nothing is left that
\* could run without a wakeup from transport or timer: no acknowledgment or
\* retransmission waits behind an idle output, and no packet sits in the final
\* allowance, where the timer is not polled.
NothingStranded ==
  \A p \in Peers :
    pc[p] = "idle" /\ health[p] = "Ok" /\ driven[p] = "Blocked" =>
      /\ out[p].at = "Idle" => ack_pending[p] = None /\ tx[p] # "Queued"
      /\ final_input[p] = None

\* A failed connection is inert: it sends nothing, reads nothing from its
\* transport and changes no protocol state; only retained payload is read.  Its
\* error is kept for a poll that returns it, which a write that has accepted a
\* packet is not: it reports the packet.
FailedIsInert ==
  [][\A p \in Peers :
       health[p] # "Ok" =>
         /\ health'[p] # "Ok"
         /\ health'[p] # health[p] =>
              op[p] # "Wrote" /\ pc'[p] = "idle" /\ health'[p] = "Reported"
         /\ UNCHANGED <<tx[p], tx_frame[p], tx_next[p], tx_retries[p],
                        final_input[p], out[p], ack_pending[p], ack_frame[p],
                        rx_buf[p], rx_next[p], wire[p], accepted[p]>>]_vars

\* A poll_read returns an error.
ReadFails(p) ==
  /\ pc[p] = "finish" /\ op[p] = "Read" /\ health[p] # "Ok"
  /\ pc'[p] = "idle" /\ delivered'[p] = delivered[p]

\* "Payload already received can still be read first": whatever fails and
\* whatever is polled in the meantime, poll_read returns an error only after it
\* has returned every byte whose packet the peer knows to be acknowledged.
AckedIsReadFirst ==
  [][\A p \in Peers :
       ReadFails(p) /\ tx[Other(p)] = "Idle" =>
         delivered[p] = accepted[Other(p)]]_vars

\* The acknowledgment of seq is still to be sent: it is pending, or in the frame
\* that is being written.
Owes(p, seq) ==
  \/ ack_pending[p] = seq
  \/ /\ out[p].at = "Writing" /\ out[p].frame = "Ack"
     /\ ack_frame[p].seq = seq

\* An acknowledgment that is owed stays owed until its frame has gone out, whole
\* and unaltered: when the budget ends between its encoding and its first byte,
\* when the transport takes only part of it, when repeats and new DATA arrive in
\* the meantime.  Only the acknowledgment of newer DATA may take its place, and
\* then the peer has had it from an earlier transmission and waits no longer.
AckNotDropped ==
  [][\A p \in Peers : \A seq \in 0 .. rx_next[p] - 1 :
       Owes(p, seq) =>
         \/ Owes(p, seq)'
         \/ chan'[Other(p)] = Append(chan[Other(p)], encode_ack(p, seq))
         \/ tx_next[Other(p)] # seq + 1]_vars

\* How many steps the poll in progress may still take.  A pass of drive through
\* step costs it one unit of budget at least, unless it is the last one, and is
\* as long as the frames it has read are many.  A write has a second drive to
\* come, on what the first left of the budget.
Rank(p) ==
  CASE pc[p] = "idle"    -> 0
    [] pc[p] = "finish"  -> 1
    [] pc[p] = "timer"   -> IF input[p] = "Yield" THEN 2 ELSE 6
    [] pc[p] = "input"   -> 3
    [] pc[p] = "send"    -> 4
    [] pc[p] = "output"  -> 5
    [] pc[p] = "process" -> 6 + Len(rx_buf[p])

StepsLeft(p) ==
  budget[p] * (ChanCap + 4) + Rank(p) + (IF op[p] = "Write" THEN 5 ELSE 0)

\* No poll runs for ever, whatever transport, link and peer do: drive loops only
\* while it has budget, process_input only over the frames of one read, and a
\* write drives again only once.  Each step of a poll brings it nearer to its
\* return, and nothing that happens in between puts the return off.
PollEnds ==
  [][\A p \in Peers :
       /\ pc[p] = "idle" \/ StepsLeft(p)' \in 0 .. StepsLeft(p)
       /\ Poll(p) => StepsLeft(p)' < StepsLeft(p)]_vars

\* Every poll returns, even if the transport is always ready.
PollReturns == \A p \in Peers : pc[p] # "idle" ~> pc[p] = "idle"

\* Every accepted packet is acknowledged or the connection fails, however the
\* link loses, damages or floods: retransmission and timeout cannot be
\* postponed forever.
PacketSettles ==
  \A p \in {q \in Peers : Input[q] # <<>>} :
    tx[p] # "Idle" ~> (tx[p] = "Idle" \/ health[p] # "Ok")

-----------------------------------------------------------------------------
(* The inductive invariant behind the safety properties *)

\* process_frame is reached only with a frame to process.
HasFrame == \A p \in Peers : pc[p] = "process" => rx_buf[p] # <<>>

\* poll_output never offers the transport an empty slice.
HasRest ==
  \A p \in Peers : out[p].at = "Writing" => out[p].offset < FrameLen(p)

\* What any frame under way from p tells its peer, if the peer looks at it:
\* DATA is of a packet p accepted, and the payload is that of the packet in the
\* outgoing buffer if the sequence number is; an ACK is for retained DATA.
Sound(p, f) ==
  f.session = Session[Other(p)] =>
    /\ f.kind = "Data" =>
         /\ f.seq < tx_next[p]
         /\ f.seq + 1 = tx_next[p] => f.payload = tx_frame[p].payload
    /\ f.kind = "Ack" => f.seq < rx_next[p]

\* Every frame p is sending, has sent, or its peer is about to process.
Elements(s) == {s[i] : i \in 1 .. Len(s)}
UnderWay(p) == {tx_frame[p], ack_frame[p]} \cup Elements(wire[p])
                 \cup Elements(chan[Other(p)]) \cup Elements(rx_buf[Other(p)])

FramesSound ==
  \A p \in Peers : /\ \A f \in UnderWay(p) : Sound(p, f)
                   /\ ack_pending[p] < rx_next[p]

\* Stop and wait: the receiver is at most one packet behind the sender.
InStep ==
  \A p \in Peers : /\ rx_next[Other(p)] <= tx_next[p]
                   /\ tx_next[p] <= rx_next[Other(p)] + 1

\* Stop-and-wait with retransmission is exactly once, in order, and a barrier
\* on flush, because of what every frame under way says about both ends.
IInv == /\ TypeOK
        /\ HasFrame
        /\ HasRest
        /\ FramesSound
        /\ InStep
        /\ ReleasedIsRetained
        /\ StreamConserved
        /\ FlushBarrier

-----------------------------------------------------------------------------
\* The pair of connections implements the abstract byte streams.
Bytes == INSTANCE ByteStream WITH
           sent <- accepted, got <- delivered, slot <- rx

ImplementsByteStream == Bytes!Spec
=============================================================================
