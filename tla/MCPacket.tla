------------------------------ MODULE MCPacket ------------------------------
(* Sample packets for TLC. *)
EXTENDS Packet

\* 0x0102030405060708
MCSessions == {{56, 49, 41, 40, 34, 26, 24, 18, 17, 10, 9, 8, 3}}
MCSeqs == {{31, 24, 2}}

\* Payloads of one byte and of two.
MCPayloads == {<<{}>>, <<{0, 7}, {1}>>}

\* Every kind, known or not, with a header that is cut short or complete and
\* with bytes behind it.
MCBodies ==
  {<<kind>> \o [i \in 1 .. n |-> {i % 8}] :
     kind \in {{}, {0}, {1}, {0, 1}, {7}}, n \in 0 .. HEADER_LEN + 2}
    \cup {<<>>}
=============================================================================
