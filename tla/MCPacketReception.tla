-------------------------- MODULE MCPacketReception --------------------------
(* Instances of PacketReception for TLC: packets of 2 to 6 bytes.          *)
EXTENDS PacketReception

MCStart ==
    LET s[p \in 1..(Packets + 1)] ==
          IF p = 1 THEN HelloSize ELSE s[p - 1] + 2 + ((p * p + 1) % 5)
    IN  s
=============================================================================
