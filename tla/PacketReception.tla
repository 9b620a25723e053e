--------------------------- MODULE PacketReception ---------------------------
(***************************************************************************)
(* One connection's way from the bytes of the TCP stream to the handlers:  *)
(* CClientSocket::ReceiveData and CConnServer::OnReceivePacket.            *)
(*                                                                         *)
(* The stream is the 4 bytes of the client's hello (0x1F11F311) and the    *)
(* packets 1..Packets, each starting with its size word.  It is given by   *)
(* where each packet starts; Start[p + 1] is the first byte after p.       *)
(***************************************************************************)
EXTENDS Naturals, Sequences

CONSTANTS
    Packets,    \* packets the client sends in this connection
    Start,      \* offset in the stream of each packet, and of its end
    RecvMax,    \* bytes one recv can return, 65355 in the code
    Paced,      \* the client sends a packet when its previous one was received
    Split       \* recv may return less than what was sent

HelloSize == 4

ASSUME StreamAssumption ==
    /\ Packets \in Nat
    /\ Start \in [1..(Packets + 1) -> Nat]
    /\ Start[1] = HelloSize
    /\ \A p, q \in 1..(Packets + 1) : p < q => Start[p] + 2 <= Start[q]

(* Neither a packet nor the hello with the first packet exceeds a recv.    *)
ASSUME RecvAssumption ==
    /\ RecvMax \in Nat \ {0}
    /\ \A p \in 1..Packets : Start[p + 1] <= (IF p = 1 THEN 0 ELSE Start[p]) + RecvMax
    /\ HelloSize <= RecvMax

ASSUME EnvironmentAssumption == Paced \in BOOLEAN /\ Split \in BOOLEAN

Garbage == 0    \* PacketControl called with something that is no packet

VARIABLES
    sent,       \* packets the client has sent
    taken,      \* bytes of the stream recv has returned
    recvpkts,   \* receives so far
    handled,    \* what PacketControl was called with
    open,       \* isActive
    served      \* the loop's round gets to this socket

vars == <<sent, taken, recvpkts, handled, open, served>>

Available == Start[sent + 1] - taken

Init ==
    /\ sent = 0
    /\ taken = 0
    /\ recvpkts = 0
    /\ handled = <<>>
    /\ open = TRUE
    /\ served \in BOOLEAN

(* The next round of the server loop does or does not get to this socket:  *)
(* it does not when FD_SET has dropped it, FD_SETSIZE others being in the  *)
(* set, nor while the loop is in accept after a failed select, or in send. *)
Round ==
    /\ open
    /\ served' = ~ served
    /\ UNCHANGED <<sent, taken, recvpkts, handled, open>>

(* The client; its first packet may follow the hello at once.              *)
Send ==
    /\ open
    /\ sent < Packets
    /\ Paced /\ sent > 0 => Available = 0
    /\ sent' = sent + 1
    /\ UNCHANGED <<taken, recvpkts, handled, open, served>>

(* lastbyte: where OnReceivePacket reads the packet in a buffer holding n  *)
(* bytes.  The hello is recognised at the start of the buffer.             *)
LastByte_none(n) == 0
LastByte(n) == IF taken = 0 /\ n >= HelloSize THEN HelloSize ELSE 0

(* The packet read at that place: its number when the buffer holds all of  *)
(* it from its first byte.  Otherwise the size word, the cipher text or    *)
(* both are not the packet's, the rest of the buffer being zero.           *)
PacketAt(n) ==
    LET from == taken + LastByte(n)
        whole == {p \in 1..Packets : Start[p] = from /\ Start[p + 1] <= taken + n}
    IN  IF whole = {} THEN Garbage ELSE CHOOSE p \in whole : TRUE

(* The body of the while loop runs once: it ends with a return, so what    *)
(* follows the first packet in the buffer is dropped.  PacketControl's     *)
(* result is the handler's.                                                *)
OnReceivePacket_hello(n) ==
    IF LastByte(n) = HelloSize
    THEN UNCHANGED <<handled, open>>
    ELSE handled' = Append(handled, PacketAt(n)) /\ open' \in BOOLEAN
OnReceivePacket_repeat(n) ==
    IF n = LastByte(n)
    THEN UNCHANGED <<handled, open>>
    ELSE handled' = handled \o <<PacketAt(n), PacketAt(n)>> /\ open' \in BOOLEAN
OnReceivePacket(n) ==
    IF n = LastByte(n)
    THEN UNCHANGED <<handled, open>>
    ELSE /\ handled' = Append(handled, PacketAt(n))
         /\ open' \in BOOLEAN

ReceiveData_buffer(n) ==
    /\ open /\ served
    /\ n <= RecvMax
    /\ Split \/ n = Available \/ n = RecvMax
    /\ taken' = taken + RecvMax
    /\ recvpkts' = recvpkts + 1
    /\ OnReceivePacket(n)
    /\ UNCHANGED <<sent, served>>
ReceiveData(n) ==
    /\ open /\ served
    /\ n <= RecvMax
    /\ Split \/ n = Available \/ n = RecvMax
    /\ taken' = taken + n
    /\ recvpkts' = recvpkts + 1
    /\ OnReceivePacket(n)
    /\ UNCHANGED <<sent, served>>

(* recv returns 0 or fails.                                                *)
ReceiveEnd ==
    /\ open /\ served
    /\ open' = FALSE
    /\ UNCHANGED <<sent, taken, recvpkts, handled, served>>

Receive == \E n \in 1..Available : ReceiveData(n)

Finished == (~ open \/ sent = Packets) /\ UNCHANGED vars

Next == Round \/ Send \/ Receive \/ ReceiveEnd \/ Finished

Spec == Init /\ [][Next]_vars

(* A round that gets to the socket and finds bytes waiting reads them.     *)
(* Nothing is assumed of how often rounds get to it.                       *)
FairSpec == Spec /\ SF_vars(Receive)

-----------------------------------------------------------------------------
(* Every variable has its type, and recv never runs ahead of the client.   *)
TypeOK ==
    /\ sent \in 0..Packets
    /\ taken \in 0..Start[sent + 1]
    /\ recvpkts \in Nat
    /\ handled \in Seq(0..Packets)
    /\ open \in BOOLEAN /\ served \in BOOLEAN

(* However the stream is cut, the packets that reach a handler do so at    *)
(* most once and in the order they were sent.                              *)
HandledInOrder ==
    \A i, j \in DOMAIN handled :
        i < j /\ handled[i] # Garbage /\ handled[j] # Garbage => handled[i] < handled[j]

(* A client that waits for its packet to be received before it sends the   *)
(* next one sees the channel PacketChannel describes, whether or not its   *)
(* first packet comes with the hello.                                      *)
Channel == INSTANCE PacketChannel WITH
    Packets <- Packets, sent <- sent, handled <- handled, open <- open
ChannelSpec == Channel!Spec

(* Under the same conditions, and if the loop keeps getting to the socket, *)
(* every packet sent is handled unless the connection is closed.  A client *)
(* beyond FD_SETSIZE stays connected and is promised nothing.              *)
EverySentHandled ==
    []<>served => \A p \in 1..Packets : sent >= p ~> Len(handled) >= p \/ ~ open

(* "2 or more packets in one receive data": a packet all of which was      *)
(* received has been handled, if no handler has closed the connection.     *)
ReceivedIsHandled ==
    open => \A p \in 1..Packets : taken >= Start[p + 1] =>
                \E i \in DOMAIN handled : handled[i] = p
=============================================================================
