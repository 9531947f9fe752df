----------------------------- MODULE ByteStream -----------------------------
(***************************************************************************)
(* What a pair of Reliable connections promises its two applications: in   *)
(* each direction a reliable, ordered byte stream with at most one packet  *)
(* that the receiver has not yet retained, and a flush that is a barrier.  *)
(* Packets, frames, acknowledgments, retransmissions and polls are absent. *)
(***************************************************************************)
EXTENDS Integers, Sequences

CONSTANTS Peers, Other(_), Byte, MaxPayload

VARIABLES
  sent,      \* bytes poll_write has accepted from each application
  got,       \* bytes poll_read has handed to each application
  slot,      \* bytes retained (and so acknowledged) but not yet read
  flushed    \* length of sent at each peer's latest successful poll_flush

streamVars == <<sent, got, slot, flushed>>

\* The bytes of its peer's stream that have reached p.
Arrived(p) == got[p] \o slot[p]

\* Everything p wrote has reached its peer.
Settled(p) == sent[p] = Arrived(Other(p))

Init ==
  /\ sent    = [p \in Peers |-> <<>>]
  /\ got     = [p \in Peers |-> <<>>]
  /\ slot    = [p \in Peers |-> <<>>]
  /\ flushed = [p \in Peers |-> 0]

\* poll_write accepts a packet only when the previous one has arrived.
Write(p) ==
  /\ Settled(p)
  /\ \E n \in 1 .. MaxPayload : \E bytes \in [1 .. n -> Byte] :
        sent' = [sent EXCEPT ![p] = @ \o bytes]
  /\ UNCHANGED <<got, slot, flushed>>

\* The receiver retains the whole outstanding packet, once, in its empty slot.
Retain(p) ==
  /\ slot[p] = <<>>
  /\ Len(got[p]) < Len(sent[Other(p)])
  /\ slot' = [slot EXCEPT ![p] =
               SubSeq(sent[Other(p)], Len(got[p]) + 1, Len(sent[Other(p)]))]
  /\ UNCHANGED <<sent, got, flushed>>

Read(p) ==
  /\ \E n \in 1 .. Len(slot[p]) :
        /\ got'  = [got  EXCEPT ![p] = @ \o SubSeq(slot[p], 1, n)]
        /\ slot' = [slot EXCEPT ![p] = SubSeq(@, n + 1, Len(@))]
  /\ UNCHANGED <<sent, flushed>>

\* A flush succeeds only when nothing written is outstanding.
Flush(p) ==
  /\ Settled(p)
  /\ flushed' = [flushed EXCEPT ![p] = Len(sent[p])]
  /\ UNCHANGED <<sent, got, slot>>

Next == \E p \in Peers : Write(p) \/ Retain(p) \/ Read(p) \/ Flush(p)

Spec == Init /\ [][Next]_streamVars
=============================================================================
