---------------------------- MODULE PacketChannel ----------------------------
(***************************************************************************)
(* What the packet layer promises the game's handlers: the packets a       *)
(* client sends are handled one after the other, each of them once, none   *)
(* skipped, until the connection is closed.                                *)
(***************************************************************************)
EXTENDS Naturals, Sequences

CONSTANT Packets    \* how many packets the client sends

VARIABLES sent, handled, open

vars == <<sent, handled, open>>

Init == sent = 0 /\ handled = <<>> /\ open = TRUE

Send ==
    /\ open
    /\ sent < Packets
    /\ sent' = sent + 1
    /\ UNCHANGED <<handled, open>>

(* The next packet is handled; its handler decides whether the connection  *)
(* stays.                                                                  *)
Handle ==
    /\ open
    /\ Len(handled) < sent
    /\ handled' = Append(handled, Len(handled) + 1)
    /\ open' \in BOOLEAN
    /\ UNCHANGED sent

Close == open /\ open' = FALSE /\ UNCHANGED <<sent, handled>>

Next == Send \/ Handle \/ Close

Spec == Init /\ [][Next]_vars
=============================================================================
