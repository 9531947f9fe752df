--------------------------- MODULE Deadline_proofs ---------------------------
(***************************************************************************)
(* Theorems about Deadline: no transmission is cut short, for any timeout, *)
(* any number of retries and any clock.                                    *)
(***************************************************************************)
EXTENDS Deadline, TLAPS

TypeOK ==
  /\ now \in 0 .. MaxTime
  /\ tx \in {"Idle", "Queued", "Sending", "Waiting", "Failed"}
  /\ tx_deadline \in Nat
  /\ tx_retries \in 0 .. MaxRetries
  /\ final_input \in BOOLEAN
  /\ first \in Nat /\ latest \in Nat

\* The deadline is that of the latest transmission, and has passed once the
\* final allowance has begun.
DeadlineIsLatest ==
  /\ final_input => tx = "Waiting"
  /\ tx = "Waiting" => latest <= now /\ tx_deadline = saturating_add(latest, Timeout)
  /\ final_input => now >= tx_deadline

\* Each transmission that was given up had its own timeout.
RetriesTookTime ==
  /\ tx \in {"Queued", "Sending"} /\ tx_retries > 0 => Elapsed(first, tx_retries)
  /\ tx = "Waiting" =>
       latest >= first + tx_retries * Timeout \/ latest = MaxTime
  /\ tx = "Failed" => Elapsed(first, MaxRetries + 1)

IInv == TypeOK /\ DeadlineIsLatest /\ RetriesTookTime

\* n timeouts and one more.
LEMMA OneMore ==
  /\ 0 * Timeout = 0
  /\ \A n \in Nat : n * Timeout \in Nat /\ (n + 1) * Timeout = n * Timeout + Timeout
BY TimeAssumption DEF TimeAssumption

LEMMA InitIInv == Init => IInv
<1> SUFFICES ASSUME Init PROVE IInv
  OBVIOUS
<1>1. TypeOK
  <2>1. tx_retries \in 0 .. MaxRetries
    BY RetriesAssumption DEF Init, RetriesAssumption
  <2>2. final_input \in BOOLEAN /\ tx_deadline \in Nat /\ first \in Nat /\ latest \in Nat
    BY DEF Init
  <2> QED BY <2>1, <2>2 DEF Init, TypeOK
<1>2. DeadlineIsLatest
  BY DEF Init, DeadlineIsLatest
<1>3. RetriesTookTime
  BY DEF Init, RetriesTookTime
<1> QED BY <1>1, <1>2, <1>3 DEF IInv

LEMMA SaturatingAdd ==
  \A time \in Nat : /\ saturating_add(time, Timeout) \in Nat
                    /\ saturating_add(time, Timeout) <= MaxTime
BY TimeAssumption DEF TimeAssumption, saturating_add

\* When the final allowance is over, the latest transmission had its timeout,
\* and with it all that were made.
LEMMA AllowanceOver ==
  ASSUME IInv, tx = "Waiting", final_input
  PROVE  Elapsed(latest, 1) /\ Elapsed(first, tx_retries + 1)
<1>1. latest \in Nat /\ first \in Nat /\ now \in Nat /\ tx_retries \in Nat
      /\ now <= MaxTime /\ latest <= now
  BY RetriesAssumption, TimeAssumption DEF IInv, TypeOK, DeadlineIsLatest, TimeAssumption, RetriesAssumption
<1>2. now >= latest + Timeout \/ now = MaxTime
  BY <1>1, TimeAssumption
  DEF IInv, DeadlineIsLatest, saturating_add, TimeAssumption
<1>3. Elapsed(latest, 1)
  BY <1>1, <1>2, TimeAssumption DEF Elapsed, TimeAssumption
<1>4. latest >= first + tx_retries * Timeout \/ latest = MaxTime
  BY DEF IInv, RetriesTookTime
<1>5. Elapsed(first, tx_retries + 1)
  <2>1. tx_retries * Timeout \in Nat
        /\ (tx_retries + 1) * Timeout = tx_retries * Timeout + Timeout
    BY <1>1, OneMore
  <2> DEFINE spent == tx_retries * Timeout
  <2>2. now >= first + (spent + Timeout) \/ now = MaxTime
    <3> HIDE DEF spent
    <3> QED BY <1>1, <1>2, <1>4, <2>1, TimeAssumption DEF TimeAssumption, spent
  <2> QED BY <2>1, <2>2 DEF Elapsed
<1> QED BY <1>3, <1>5

LEMMA NextIInv == IInv /\ [Next]_vars => IInv'
<1> SUFFICES ASSUME IInv, [Next]_vars PROVE IInv'
  OBVIOUS
<1> USE TimeAssumption, RetriesAssumption DEF TimeAssumption, RetriesAssumption
<1>1. CASE Tick
  <2>1. TypeOK' /\ DeadlineIsLatest'
    BY <1>1 DEF Tick, IInv, TypeOK, DeadlineIsLatest
  <2>2. now' \in Nat /\ now \in Nat /\ now' > now /\ now' <= MaxTime
    BY <1>1 DEF Tick, IInv, TypeOK
  <2>3. ASSUME NEW n \in Nat, Elapsed(first, n) PROVE Elapsed(first, n)'
    <3>1. first \in Nat /\ n * Timeout \in Nat
      BY OneMore DEF IInv, TypeOK
    <3>2. first' = first
      BY <1>1 DEF Tick
    <3> DEFINE spent == n * Timeout
    <3> HIDE DEF spent
    <3>3. now >= first + spent \/ now = MaxTime
      BY <2>3 DEF Elapsed, spent
    <3>4. now' >= first + spent \/ now' = MaxTime
      BY <2>2, <3>1, <3>3 DEF spent
    <3> QED BY <3>2, <3>4 DEF Elapsed, spent
  <2>4. RetriesTookTime'
    <3>1. tx_retries \in Nat /\ MaxRetries + 1 \in Nat
      BY DEF IInv, TypeOK
    <3> QED BY <1>1, <2>3, <3>1 DEF Tick, IInv, RetriesTookTime
  <2> QED BY <2>1, <2>4 DEF IInv
<1>2. CASE AcceptPacket
  BY <1>2 DEF AcceptPacket, IInv, TypeOK, DeadlineIsLatest, RetriesTookTime
<1>3. CASE StartData
  <2>1. TypeOK' /\ DeadlineIsLatest'
    BY <1>3 DEF StartData, IInv, TypeOK, DeadlineIsLatest
  <2>2. RetriesTookTime'
    BY <1>3 DEF StartData, IInv, RetriesTookTime, Elapsed
  <2> QED BY <2>1, <2>2 DEF IInv
<1>4. CASE FlushDone
  <2>1. TypeOK'
    <3>1. now \in Nat /\ now \in 0 .. MaxTime
      BY DEF IInv, TypeOK
    <3>2. tx_deadline' \in Nat
      BY <1>4, <3>1, SaturatingAdd DEF FlushDone
    <3> QED BY <1>4, <3>1, <3>2 DEF FlushDone, IInv, TypeOK
  <2>2. DeadlineIsLatest'
    BY <1>4 DEF FlushDone, IInv, TypeOK, DeadlineIsLatest, saturating_add
  <2>3. latest' >= first' + tx_retries' * Timeout \/ latest' = MaxTime
    <3>1. CASE tx_retries = 0
      BY <1>4, <3>1, OneMore DEF FlushDone, IInv, TypeOK
    <3>2. CASE tx_retries # 0
      <4>1. Elapsed(first, tx_retries)
        BY <1>4, <3>2 DEF FlushDone, IInv, TypeOK, RetriesTookTime
      <4> QED BY <1>4, <3>2, <4>1 DEF FlushDone, Elapsed
    <3> QED BY <3>1, <3>2
  <2>4. RetriesTookTime'
    BY <1>4, <2>3 DEF FlushDone, RetriesTookTime
  <2> QED BY <2>1, <2>2, <2>4 DEF IInv
<1>5. CASE ReleasePacket
  <2>1. TypeOK'
    <3>1. tx_retries' \in 0 .. MaxRetries
      BY <1>5 DEF ReleasePacket
    <3> QED BY <1>5, <3>1 DEF ReleasePacket, IInv, TypeOK
  <2>2. DeadlineIsLatest'
    BY <1>5 DEF ReleasePacket, DeadlineIsLatest
  <2>3. RetriesTookTime'
    BY <1>5 DEF ReleasePacket, RetriesTookTime
  <2> QED BY <2>1, <2>2, <2>3 DEF IInv
<1>6. CASE TimerExpires
  <2>1. TypeOK' /\ DeadlineIsLatest'
    BY <1>6 DEF TimerExpires, IInv, TypeOK, DeadlineIsLatest
  <2>2. RetriesTookTime'
    BY <1>6 DEF TimerExpires, IInv, RetriesTookTime, Elapsed
  <2> QED BY <2>1, <2>2 DEF IInv
<1>7. CASE Retransmit
  <2>1. TypeOK' /\ DeadlineIsLatest'
    <3>1. tx_retries + 1 \in 0 .. MaxRetries
      BY <1>7 DEF Retransmit, IInv, TypeOK
    <3> QED BY <1>7, <3>1 DEF Retransmit, IInv, TypeOK, DeadlineIsLatest
  <2>2. Elapsed(first, tx_retries + 1)
    BY <1>7, AllowanceOver DEF Retransmit
  <2>3. RetriesTookTime'
    BY <1>7, <2>2 DEF Retransmit, RetriesTookTime, Elapsed
  <2> QED BY <2>1, <2>3 DEF IInv
<1>8. CASE GiveUp
  <2>1. TypeOK' /\ DeadlineIsLatest'
    BY <1>8 DEF GiveUp, IInv, TypeOK, DeadlineIsLatest
  <2>2. Elapsed(first, MaxRetries + 1)
    <3>1. tx_retries = MaxRetries
      BY <1>8 DEF GiveUp, IInv, TypeOK
    <3> QED BY <1>8, <3>1, AllowanceOver DEF GiveUp
  <2>3. RetriesTookTime'
    BY <1>8, <2>2 DEF GiveUp, RetriesTookTime, Elapsed
  <2> QED BY <2>1, <2>3 DEF IInv
<1>9. CASE UNCHANGED vars
  BY <1>9 DEF vars, IInv, TypeOK, DeadlineIsLatest, RetriesTookTime, Elapsed
<1> QED BY <1>1, <1>2, <1>3, <1>4, <1>5, <1>6, <1>7, <1>8, <1>9 DEF Next

\* poll_timer's Timeout comes only after (MaxRetries + 1) timeouts.
THEOREM TimesOutLast == Spec => []GivesUpLast
<1>1. IInv => GivesUpLast
  BY DEF IInv, RetriesTookTime, GivesUpLast
<1> QED BY <1>1, InitIInv, NextIInv, PTL DEF Spec

\* Every transmission that is repeated or given up had its whole timeout.
THEOREM RetriesNeverEarly == Spec => NeverEarly
<1>1. IInv /\ [Next]_vars =>
        [tx = "Waiting" /\ tx' \in {"Queued", "Failed"} => Elapsed(latest, 1)]_vars
  <2> SUFFICES ASSUME IInv, Next, tx = "Waiting", tx' \in {"Queued", "Failed"}
               PROVE  Elapsed(latest, 1)
    OBVIOUS
  <2>1. final_input
    BY DEF Next, Tick, AcceptPacket, StartData, FlushDone, ReleasePacket,
           TimerExpires, Retransmit, GiveUp
  <2> QED BY <2>1, AllowanceOver
<1> QED BY <1>1, InitIInv, NextIInv, PTL DEF Spec, NeverEarly
=============================================================================
