------------------------------- MODULE Deadline -------------------------------
(***************************************************************************)
(* When a packet is retransmitted and when it is given up, on a clock of   *)
(* u64 ticks (connection.rs, timer.rs): the deadline is set when a         *)
(* transmission has been flushed, by a saturating addition, and not when   *)
(* it is queued or started, and every transmission has its own.            *)
(***************************************************************************)
EXTENDS Integers

CONSTANTS
  Timeout,       \* Config::retransmit_timeout
  MaxRetries,    \* Config::max_retries
  MaxTime        \* u64::MAX

ASSUME TimeAssumption == MaxTime \in Nat /\ Timeout \in 0 .. MaxTime
ASSUME RetriesAssumption == MaxRetries \in Nat

VARIABLES
  now,           \* Timer::now
  tx,            \* enum Tx, or "Failed" after ConnectionError::Timeout
  tx_deadline,
  tx_retries,
  final_input,   \* final_input is Some
  \* history of the current packet
  first,         \* when its first transmission was flushed
  latest         \* when its latest transmission was flushed

vars == <<now, tx, tx_deadline, tx_retries, final_input, first, latest>>

Init ==
  /\ now \in 0 .. MaxTime
  /\ tx = "Idle"
  /\ tx_deadline = 0
  /\ tx_retries = 0
  /\ final_input = FALSE
  /\ first = 0 /\ latest = 0

\* The clock is monotonic, and is looked at now and then.
Tick ==
  /\ now' \in now + 1 .. MaxTime
  /\ UNCHANGED <<tx, tx_deadline, tx_retries, final_input, first, latest>>

\* queue_packet
AcceptPacket ==
  /\ tx = "Idle"
  /\ tx' = "Queued"
  /\ tx_retries' = 0
  /\ UNCHANGED <<now, tx_deadline, final_input, first, latest>>

\* poll_output starts a transmission.
StartData ==
  /\ tx = "Queued"
  /\ tx' = "Sending"
  /\ UNCHANGED <<now, tx_deadline, tx_retries, final_input, first, latest>>

\* Mutant: the addition wraps.
saturating_add_wraps(time, ticks) == (time + ticks) % (MaxTime + 1)

saturating_add(time, ticks) ==
  IF time + ticks <= MaxTime THEN time + ticks ELSE MaxTime

\* Mutant: a retransmission keeps the deadline of the first transmission.
FlushDone_keeps ==
  /\ tx = "Sending"
  /\ tx' = "Waiting"
  /\ tx_deadline' = IF tx_retries = 0 THEN saturating_add(now, Timeout)
                                      ELSE tx_deadline
  /\ final_input' = FALSE
  /\ latest' = now
  /\ first' = IF tx_retries = 0 THEN now ELSE first
  /\ UNCHANGED <<now, tx_retries>>

\* The transmission is flushed.
FlushDone ==
  /\ tx = "Sending"
  /\ tx' = "Waiting"
  /\ tx_deadline' = saturating_add(now, Timeout)
  /\ final_input' = FALSE
  /\ latest' = now
  /\ first' = IF tx_retries = 0 THEN now ELSE first
  /\ UNCHANGED <<now, tx_retries>>

\* process_frame finds the acknowledgment.
ReleasePacket ==
  /\ tx \in {"Queued", "Sending", "Waiting"}
  /\ tx' = "Idle"
  /\ tx_retries' = 0
  /\ final_input' = FALSE
  /\ UNCHANGED <<now, tx_deadline, first, latest>>

\* Timer::poll_deadline is Ready: the final allowance begins.
TimerExpires ==
  /\ tx = "Waiting"
  /\ ~ final_input
  /\ now >= tx_deadline
  /\ final_input' = TRUE
  /\ UNCHANGED <<now, tx, tx_deadline, tx_retries, first, latest>>

\* The allowance is over.
Retransmit ==
  /\ tx = "Waiting"
  /\ final_input
  /\ tx_retries < MaxRetries
  /\ tx_retries' = tx_retries + 1
  /\ tx' = "Queued"
  /\ final_input' = FALSE
  /\ UNCHANGED <<now, tx_deadline, first, latest>>

GiveUp ==
  /\ tx = "Waiting"
  /\ final_input
  /\ tx_retries >= MaxRetries
  /\ tx' = "Failed"
  /\ final_input' = FALSE
  /\ UNCHANGED <<now, tx_deadline, tx_retries, first, latest>>

Next == Tick \/ AcceptPacket \/ StartData \/ FlushDone \/ ReleasePacket
          \/ TimerExpires \/ Retransmit \/ GiveUp

Spec == Init /\ [][Next]_vars

-----------------------------------------------------------------------------
(* Properties *)

\* Some time of the clock lies n timeouts behind another.  The last tick is
\* excepted: deadlines saturate there, and timer.rs reads u64::MAX as "never",
\* while now() >= deadline holds of any deadline once the clock shows it.
Elapsed(since, n) == now >= since + n * Timeout \/ now = MaxTime

\* Before the last tick of the clock, no transmission is given less than the
\* timeout, counted from its flush: the time the link takes to accept a frame is
\* not the peer's, and a deadline near the end of the clock does not wrap around
\* into the past.  At the last tick itself it may be cut short (see Elapsed).
NeverEarly ==
  [][tx = "Waiting" /\ tx' \in {"Queued", "Failed"} => Elapsed(latest, 1)]_vars

\* Before the last tick of the clock, the connection times out only when every
\* transmission had its own timeout.
GivesUpLast == tx = "Failed" => Elapsed(first, MaxRetries + 1)
=============================================================================
