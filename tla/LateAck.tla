------------------------------- MODULE LateAck -------------------------------
(***************************************************************************)
(* The final allowance of poll_timer, in bytes: the deadline of a packet   *)
(* has passed while its acknowledgment may already be queued in the        *)
(* transport behind the tail of another frame.  The connection goes on     *)
(* reading what is ready, FINAL_INPUT bytes of it, before it retransmits   *)
(* or gives up.  RxFraming does the reading.                               *)
(***************************************************************************)
EXTENDS RxFraming

CONSTANTS
  AckLen,        \* ACK_FRAME_LEN
  Behind         \* lengths of what the transport may hold behind the ACK

ASSUME AckAssumption == AckLen \in 3 .. N /\ Behind \subseteq Nat

VARIABLES
  ready,         \* bytes the transport can deliver at once
  acked,         \* history: ready held the acknowledgment at the deadline
  step,          \* "input": before poll_input; "timer": before poll_timer
  input,         \* poll_input's result
  tx,            \* enum Tx
  final_input,   \* None, or what is left of the allowance
  since,         \* history: bytes read when the deadline was noticed
  dry            \* history: poll_read has answered Pending after that

lateHist == <<since, dry>>
lateVars == <<rxVars, ready, acked, step, input, tx, final_input, lateHist>>

None == -1
Other == 1
AckByte == 2
Fill(n, b) == [i \in 1 .. n |-> b]

\* The acknowledgment awaited, between its delimiters; every other frame is
\* made of other bytes.
AckBody == Fill(AckLen - 2, AckByte)
AckFrame == <<0>> \o AckBody \o <<0>>

\* What is left of a frame of at most N bytes, both delimiters included: all
\* of it, or its last bytes, or nothing.
Tails == {<<>>} \cup {Fill(n, Other) \o <<0>> : n \in 0 .. N - 2}
                \cup {<<0>> \o Fill(n, Other) \o <<0>> : n \in 1 .. N - 2}

\* poll_deadline is about to answer Ready.  rx_buf holds any unfinished run or
\* is discarding one.  The acknowledgment is ready, or was lost.
LateInit ==
  /\ rx_discarding \in BOOLEAN
  /\ rx_buf \in {Fill(n, Other) : n \in IF rx_discarding THEN {0}
                                                         ELSE 0 .. N - 1}
  /\ stream = rx_buf
  /\ frames = <<>>
  /\ acked \in BOOLEAN
  /\ \E tail \in Tails, n \in Behind :
        ready = tail \o (IF acked THEN AckFrame ELSE <<>>) \o Fill(n, Other)
  /\ pc = "poll"
  /\ step = "timer"
  /\ input = "Blocked"
  /\ tx = "Waiting"
  /\ final_input = None
  /\ since = Len(stream)
  /\ dry = FALSE

\* Mutant: the allowance covers the tail of a frame but not the ACK.
FinalInput_tail == N

\* FINAL_INPUT
FinalInput == N + AckLen

\* poll_input reads the next bytes that are ready, and counts them.
LateRead ==
  /\ step = "input"
  /\ \E n \in 1 .. Len(ready) :
        /\ Read(SubSeq(ready, 1, n))
        /\ ready' = SubSeq(ready, n + 1, Len(ready))
        /\ final_input' = CASE final_input = None -> None
                            [] final_input > n    -> final_input - n
                            [] OTHER              -> 0
  /\ input' = "Progress"
  /\ UNCHANGED <<acked, step, tx, lateHist>>

\* process_input; process_frame finds the acknowledgment of the packet.
LateTake ==
  /\ TakeRun
  /\ IF frames' # frames /\ frames'[Len(frames')] = AckBody /\ tx # "Idle"
     THEN tx' = "Idle" /\ final_input' = None
     ELSE UNCHANGED <<tx, final_input>>
  /\ UNCHANGED <<ready, acked, step, input, lateHist>>

\* The buffer is scanned: poll_input returns.
LateWait ==
  /\ Wait
  /\ step' = "timer"
  /\ UNCHANGED <<ready, acked, input, tx, final_input, lateHist>>

\* Nothing is ready: poll_read answers Pending.
Blocked ==
  /\ step = "input"
  /\ pc = "poll"
  /\ ready = <<>>
  /\ input' = "Blocked"
  /\ step' = "timer"
  /\ dry' = TRUE
  /\ UNCHANGED <<rxVars, ready, acked, tx, final_input, since>>

\* The budget of this poll is spent; the next poll takes the next step.
Yield ==
  /\ step = "input"
  /\ pc = "poll"
  /\ input' = "Yield"
  /\ step' = "timer"
  /\ UNCHANGED <<rxVars, ready, acked, tx, final_input, lateHist>>

\* poll_timer: the deadline has passed.
Expire ==
  /\ step = "timer"
  /\ tx = "Waiting"
  /\ final_input = None
  /\ final_input' = FinalInput
  /\ step' = "input"
  /\ since' = Len(stream)
  /\ dry' = FALSE
  /\ UNCHANGED <<rxVars, ready, acked, input, tx>>

\* Mutant: the allowance goes on for as long as input is ready.
Over_blocked == input = "Blocked"

\* Mutant: the allowance is waited for when nothing is ready, too.
Over_spent == final_input = 0

\* The input blocks, or the allowance is spent.
Over == input = "Blocked" \/ final_input = 0

\* poll_timer retransmits the packet or gives it up.
Verdict ==
  /\ step = "timer"
  /\ tx = "Waiting"
  /\ final_input # None
  /\ Over
  /\ tx' = "Queued"
  /\ final_input' = None
  /\ step' = "input"
  /\ UNCHANGED <<rxVars, ready, acked, input, lateHist>>

\* poll_timer has nothing to do (yet).
Pass ==
  /\ step = "timer"
  /\ \/ tx # "Waiting"
     \/ final_input # None /\ ~ Over
  /\ step' = "input"
  /\ UNCHANGED <<rxVars, ready, acked, input, tx, final_input, lateHist>>

LateNext == LateRead \/ LateTake \/ LateWait \/ Blocked \/ Yield
              \/ Expire \/ Verdict \/ Pass

LateSpec == LateInit /\ [][LateNext]_lateVars

-----------------------------------------------------------------------------
(* Properties *)

\* FINAL_INPUT is "the tail of a partially received frame plus one ACK": an
\* acknowledgment that was ready when the deadline passed, behind no more than
\* one frame, is found before the packet is retransmitted or given up, in
\* whatever pieces the transport delivers it.
LateAckCounts == acked => tx # "Queued"

\* The allowance ends, in whatever pieces and polls the input is read: a packet
\* that still waits when poll_timer is done has had fewer than FINAL_INPUT bytes
\* read since the deadline, and no read since then has found the transport empty.
NoEndlessAllowance ==
  step = "input" /\ pc = "poll" /\ tx = "Waiting" =>
    Len(stream) - since < FinalInput /\ ~ dry
=============================================================================
