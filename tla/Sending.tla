------------------------------ MODULE Sending --------------------------------
(***************************************************************************)
(* How packets are built and sent.  All handlers share one bufwrite        *)
(* (packet), one encbuf and one encsize, and no lock: the server loop uses *)
(* them to answer and to broadcast, the visibility thread in SpawnChar and *)
(* SpawnNPC.  SendPacket tries to make the socket non-blocking around its  *)
(* send.                                                                   *)
(*                                                                         *)
(* A packet is two parts, its header words and the rest; a part holds the  *)
(* tag of the job that wrote it.  The checksum and time bytes that no      *)
(* handler writes are Encrypt's.                                           *)
(***************************************************************************)
EXTENDS Naturals, FiniteSets

CONSTANTS
    Thread,     \* the threads that send: the server loop and the visibility thread
    Client,     \* the clients sent to
    Fallible,   \* the clients on whose socket ioctlsocket may fail
    None        \* no client, no tag

ASSUME SendingAssumption ==
    /\ None \notin Client /\ None \notin Thread \X {0, 1}
    /\ Fallible \subseteq Client

Tag == Thread \X {0, 1}     \* a thread's jobs alternate between two tags
Part == {"head", "body"}

VARIABLES
    packet,         \* bufwrite: each part's tag, None where it is zero
    encbuf,         \* the encrypted packet
    encsize,        \* its length, as the tag of the packet it is the length of
    nonblocking,    \* FIONBIO mode of each client's socket
    refused,        \* history: sockets whose last ioctlsocket failed
    pc,             \* where each thread is
    job,            \* tag number of each thread's job
    short,          \* whether the job's packet is a header only
    todo,           \* clients the job still has to send to
    to,             \* the client being sent to
    size,           \* argument of SendPacket
    delivered,      \* history: the last packet given to send
    tainted         \* history: threads whose job another one overlapped

locals == <<job, short, todo, to, size>>
socket == <<nonblocking, refused>>
vars == <<packet, encbuf, encsize, socket, pc, locals, delivered, tainted>>

Busy == {t \in Thread : pc[t] # "idle"}
MyTag(t) == <<t, job[t]>>

Init ==
    /\ packet = [p \in Part |-> None]
    /\ encbuf = [p \in Part |-> None]
    /\ encsize = None
    /\ nonblocking = [c \in Client |-> FALSE]
    /\ refused = {}
    /\ pc = [t \in Thread |-> "idle"]
    /\ job = [t \in Thread |-> 0]
    /\ short = [t \in Thread |-> FALSE]
    /\ todo = [t \in Thread |-> {}]
    /\ to = [t \in Thread |-> None]
    /\ size = [t \in Thread |-> None]
    /\ delivered = [by |-> {}, intact |-> TRUE]
    /\ tainted = {}

Goto(t, l1, l2) == pc[t] = l1 /\ pc' = [pc EXCEPT ![t] = l2]

-----------------------------------------------------------------------------
(* Building the packet.                                                    *)

(* A handler starts on a packet for the clients of cs: itself, or those of *)
(* SendToVisible and SendToAll, or a spawn's viewer.                       *)
Begin(t, cs, brief) ==
    /\ Goto(t, "idle", "head")
    /\ job' = [job EXCEPT ![t] = 1 - @]
    /\ todo' = [todo EXCEPT ![t] = cs]
    /\ short' = [short EXCEPT ![t] = brief]
    /\ tainted' = IF Busy = {} THEN tainted ELSE Busy \cup {t}
    /\ UNCHANGED <<encbuf, encsize, socket, to, size, delivered>>

(* packet->Free()                                                          *)
BeginPacket_nobody(t, cs) ==
    /\ Begin(t, cs \cup {None}, FALSE)
    /\ packet' = [p \in Part |-> None]
BeginPacket(t, cs) ==
    /\ Begin(t, cs, FALSE)
    /\ packet' = [p \in Part |-> None]

(* GameToCharList does not call Free: its twelve bytes are a header only.  *)
GameToCharList(t, c) ==
    /\ Begin(t, {c}, TRUE)
    /\ UNCHANGED packet

(* The AddWord calls for size, opcode and id.                              *)
AddHeader(t) ==
    /\ Goto(t, "head", IF short[t] THEN "next" ELSE "body")
    /\ packet' = [packet EXCEPT !["head"] = MyTag(t)]
    /\ UNCHANGED <<encbuf, encsize, socket, locals, delivered, tainted>>

(* The other Add calls.  A part's tag says which job wrote it, not what    *)
(* the bytes are: AddStr and AddData copy from where the pointer is kept.  *)
AddBody_none(t) ==
    /\ Goto(t, "body", "next")
    /\ UNCHANGED <<packet, encbuf, encsize, socket, locals, delivered, tainted>>
AddBody(t) ==
    /\ Goto(t, "body", "next")
    /\ packet' = [packet EXCEPT !["body"] = MyTag(t)]
    /\ UNCHANGED <<encbuf, encsize, socket, locals, delivered, tainted>>

-----------------------------------------------------------------------------
(* Sending it, once per client.                                            *)

NextClient(t) ==
    \/ /\ Goto(t, "next", "encHead")
       /\ \E c \in todo[t] :
             /\ to' = [to EXCEPT ![t] = c]
             /\ todo' = [todo EXCEPT ![t] = @ \ {c}]
       /\ UNCHANGED <<packet, encbuf, encsize, socket, job, short, size, delivered, tainted>>
    \/ /\ Goto(t, "next", "idle")
       /\ todo[t] = {}
       /\ short' = [short EXCEPT ![t] = FALSE]
       /\ tainted' = tainted \ {t}
       /\ UNCHANGED <<packet, encbuf, encsize, socket, job, todo, to, size, delivered>>

(* Encrypt reads packet and writes encbuf.                                 *)
Encrypt(t) ==
    \/ /\ Goto(t, "encHead", IF short[t] THEN "encSize" ELSE "encBody")
       /\ encbuf' = [encbuf EXCEPT !["head"] = packet["head"]]
       /\ UNCHANGED <<packet, encsize, socket, locals, delivered, tainted>>
    \/ /\ Goto(t, "encBody", "encSize")
       /\ encbuf' = [encbuf EXCEPT !["body"] = packet["body"]]
       /\ UNCHANGED <<packet, encsize, socket, locals, delivered, tainted>>

(* encsize = what Encrypt returned                                         *)
SetEncsize(t) ==
    /\ Goto(t, "encSize", "call")
    /\ encsize' = MyTag(t)
    /\ UNCHANGED <<packet, encbuf, socket, locals, delivered, tainted>>

(* SendPacket( encbuf, encsize ): the length is passed by value, the       *)
(* buffer by address.                                                      *)
CallSendPacket(t) ==
    /\ Goto(t, "call", "nonblock")
    /\ size' = [size EXCEPT ![t] = encsize]
    /\ UNCHANGED <<packet, encbuf, encsize, socket, job, short, todo, to, delivered, tainted>>

(* ioctlsocket(sock, FIONBIO, &iMode): an error is logged, the mode stays  *)
(* what it was and SendPacket goes on.                                     *)
SetMode(t, l1, l2, mode) ==
    /\ Goto(t, l1, l2)
    /\ \/ /\ nonblocking' = [nonblocking EXCEPT ![to[t]] = mode]
          /\ refused' = refused \ {to[t]}
       \/ /\ to[t] \in Fallible
          /\ UNCHANGED nonblocking
          /\ refused' = refused \cup {to[t]}
    /\ UNCHANGED <<packet, encbuf, encsize, job, short, todo, delivered, tainted>>

SetNonblocking_none(t) ==
    /\ Goto(t, "nonblock", "send")
    /\ UNCHANGED <<packet, encbuf, encsize, socket, locals, delivered, tainted>>
SetNonblocking(t) == SetMode(t, "nonblock", "send", TRUE) /\ UNCHANGED <<to, size>>

SetBlocking_kept(t) ==
    /\ Goto(t, "block", "next")
    /\ to' = [to EXCEPT ![t] = None]
    /\ size' = [size EXCEPT ![t] = None]
    /\ UNCHANGED <<packet, encbuf, encsize, socket, job, short, todo, delivered, tainted>>
SetBlocking(t) ==
    /\ SetMode(t, "block", "next", FALSE)
    /\ to' = [to EXCEPT ![t] = None]
    /\ size' = [size EXCEPT ![t] = None]

(* send: what it did not take is not sent again, its result is not looked  *)
(* at.                                                                     *)
Intact(t) ==
    /\ encbuf["head"] = MyTag(t)
    /\ size[t] = MyTag(t)
    /\ short[t] \/ encbuf["body"] = MyTag(t)

Send(t) ==
    /\ Goto(t, "send", "block")
    /\ delivered' = [by |-> {t}, intact |-> Intact(t)]
    /\ UNCHANGED <<packet, encbuf, encsize, socket, locals, tainted>>

-----------------------------------------------------------------------------
Step(t) ==
    \/ \E cs \in SUBSET Client : BeginPacket(t, cs)
    \/ \E c \in Client : GameToCharList(t, c)
    \/ AddHeader(t) \/ AddBody(t) \/ NextClient(t)
    \/ Encrypt(t) \/ SetEncsize(t) \/ CallSendPacket(t)
    \/ SetNonblocking(t) \/ Send(t) \/ SetBlocking(t)

Next == \E t \in Thread : Step(t)

Spec == Init /\ [][Next]_vars

-----------------------------------------------------------------------------
Label == {"idle", "head", "body", "next", "encHead", "encBody", "encSize", "call", "nonblock",
          "send", "block"}

(* Every variable has its type.                                            *)
TypeOK ==
    /\ packet \in [Part -> Tag \cup {None}]
    /\ encbuf \in [Part -> Tag \cup {None}]
    /\ encsize \in Tag \cup {None}
    /\ nonblocking \in [Client -> BOOLEAN]
    /\ refused \subseteq Client
    /\ pc \in [Thread -> Label]
    /\ job \in [Thread -> {0, 1}]
    /\ short \in [Thread -> BOOLEAN]
    /\ todo \in [Thread -> SUBSET Client]
    /\ to \in [Thread -> Client \cup {None}]
    /\ size \in [Thread -> Tag \cup {None}]
    /\ delivered \in [by : SUBSET Thread, intact : BOOLEAN]
    /\ tainted \subseteq Thread

InSendPacket(t) == pc[t] \in {"send", "block"}

(* A thread finds the socket blocking in send, where a client that does    *)
(* not read could hold it for ever, only if the other thread's job         *)
(* overlapped or its own ioctlsocket failed.                               *)
BlocksOnlyForCause ==
    \A t \in Thread :
        pc[t] = "send" /\ ~ nonblocking[to[t]] => t \in tainted \/ to[t] \in refused

(* However two SendPackets to a client interleave, the socket is blocking  *)
(* again once both have returned, unless the last ioctlsocket of the two   *)
(* failed.                                                                 *)
ModeRestored ==
    \A c \in Client :
        nonblocking[c] => c \in refused \/ \E t \in Thread : InSendPacket(t) /\ to[t] = c

(* The shared buffers deliver what PacketDelivery promises: a job nobody   *)
(* overlapped delivers its own packet whole, without the remains of an     *)
(* earlier one, although Free is not always called.                        *)
Delivery == INSTANCE PacketDelivery WITH
    Thread <- Thread, busy <- Busy, tainted <- tainted, last <- delivered
DeliverySpec == Delivery!Spec
=============================================================================
