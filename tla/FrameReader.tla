----------------------------- MODULE FrameReader -----------------------------
(***************************************************************************)
(* What receiving is to the protocol: a read completes any number of       *)
(* frames, process_frame sees each frame once, in the order in which they  *)
(* arrived, and receiving returns to its caller only when it has seen them *)
(* all.  Bytes, chunks, the buffer and oversized runs are absent.  In      *)
(* Reliable, rx_buf is what has arrived and is not yet processed.          *)
(***************************************************************************)
EXTENDS Naturals, Sequences

VARIABLES
  reading,     \* the next thing that happens to the input is a read
  arrived,     \* frames completed by the bytes read
  processed    \* frames process_frame has seen

readerVars == <<reading, arrived, processed>>

Init == reading = TRUE /\ arrived = <<>> /\ processed = <<>>

\* A read adds frames to those that had arrived, and changes none of them.
Read ==
  /\ reading
  /\ reading' = FALSE
  /\ Len(arrived) <= Len(arrived')
  /\ \A k \in 1 .. Len(arrived) : arrived'[k] = arrived[k]
  /\ UNCHANGED processed

\* The next frame is processed.
Process ==
  /\ ~ reading
  /\ Len(processed) < Len(arrived)
  /\ processed' = Append(processed, arrived[Len(processed) + 1])
  /\ UNCHANGED <<reading, arrived>>

\* No frame is left.
Return ==
  /\ ~ reading
  /\ processed = arrived
  /\ reading' = TRUE
  /\ UNCHANGED <<arrived, processed>>

Next == Read \/ Process \/ Return

Spec == Init /\ [][Next]_readerVars
=============================================================================
