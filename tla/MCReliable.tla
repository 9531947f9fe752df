----------------------------- MODULE MCReliable -----------------------------
(***************************************************************************)
(* Instances of Reliable for TLC: what the two applications write and      *)
(* poll, and what the link may insert.                                     *)
(***************************************************************************)
EXTENDS Reliable, TLC

MCSession == [p \in Peers |-> 1]
MCByte == 1 .. 3

\* A writes and flushes, B reads, or only drives, so that its slot stays full.
OneWayInput == [p \in Peers |-> IF p = A THEN <<1, 2>> ELSE <<>>]
OneWayOps == [p \in Peers |-> IF p = A THEN {"Write", "Flush"}
                                        ELSE {"Read", "Progress"}]

\* Each peer writes one packet and reads, so that its DATA and its ACKs
\* compete for its output.  The peers are interchangeable.
TwoWayInput == [p \in Peers |-> <<1>>]
TwoWayOps == [p \in Peers |-> {"Write", "Read"}]
Symmetry == Permutations(Peers)

\* A has one sequence number for two bytes; every operation is polled.
FaultsInput == [p \in Peers |-> IF p = A THEN <<1, 2>> ELSE <<>>]
FaultsOps == [p \in Peers |-> IF p = A THEN {"Write", "Progress"}
                                        ELSE {"Read", "Flush"}]

\* A writes one packet, B reads.
SettleInput == [p \in Peers |-> IF p = A THEN <<1>> ELSE <<>>]
SettleOps == [p \in Peers |-> IF p = A THEN {"Write", "Progress"} ELSE {"Read"}]

\* Frames of an earlier session, as close to this one's as they can be.
Foreign == {[kind |-> "Ack", session |-> 0, seq |-> 0, payload |-> <<>>],
            [kind |-> "Data", session |-> 0, seq |-> 0, payload |-> <<3>>]}
=============================================================================
