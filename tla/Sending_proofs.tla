--------------------------- MODULE Sending_proofs ----------------------------
(***************************************************************************)
(* For any number of sending threads and clients: the shared buffers       *)
(* implement PacketDelivery, and sockets end up in blocking mode.  The     *)
(* argument: of two busy threads both are tainted (AloneInv), so the       *)
(* buffers hold what an untainted thread put there (OwnInv).               *)
(***************************************************************************)
EXTENDS Sending, TLAPS

(* Two threads in a job overlap, and both know.                            *)
AloneInv ==
    \A t, u \in Thread : t # u /\ pc[t] # "idle" /\ pc[u] # "idle" => t \in tainted

(* The buffers hold what thread t has written so far.                      *)
Owned(t) ==
    /\ pc[t] \notin {"idle", "head"} => packet["head"] = MyTag(t)
    /\ pc[t] \notin {"idle", "head", "body"} /\ ~ short[t] => packet["body"] = MyTag(t)
    /\ pc[t] \in {"encBody", "encSize", "call", "nonblock", "send"} => encbuf["head"] = MyTag(t)
    /\ pc[t] \in {"encSize", "call", "nonblock", "send"} /\ ~ short[t] =>
           encbuf["body"] = MyTag(t)
    /\ pc[t] = "call" => encsize = MyTag(t)
    /\ pc[t] \in {"nonblock", "send"} => size[t] = MyTag(t)
    /\ pc[t] = "send" => nonblocking[to[t]] \/ to[t] \in refused

OwnInv == \A t \in Thread : t \in tainted \/ Owned(t)

(* A thread that is sending sends to a client.                             *)
ToInv ==
    \A t \in Thread :
        pc[t] \in {"encHead", "encBody", "encSize", "call", "nonblock", "send", "block"} =>
            to[t] \in Client

IndInv == TypeOK /\ AloneInv /\ OwnInv /\ ToInv /\ ModeRestored

USE DEF vars, locals, socket, Goto

-----------------------------------------------------------------------------
(* The steps of a job after its beginning.                                 *)
Continue(t) ==
    \/ AddHeader(t) \/ AddBody(t) \/ NextClient(t)
    \/ Encrypt(t) \/ SetEncsize(t) \/ CallSendPacket(t)
    \/ SetNonblocking(t) \/ Send(t) \/ SetBlocking(t)

(* A thread's tag has the type of a tag.                                   *)
LEMMA MyTagType == ASSUME TypeOK, NEW t \in Thread PROVE MyTag(t) \in Tag
  BY DEF TypeOK, MyTag, Tag

(* The first step of a job keeps the types.                                *)
LEMMA TypeBegin ==
    ASSUME TypeOK, NEW t \in Thread, NEW cs \in SUBSET Client, NEW brief \in BOOLEAN,
           Begin(t, cs, brief), packet' \in [Part -> Tag \cup {None}]
    PROVE  TypeOK'
<1>1. tainted' \subseteq Thread
  BY DEF Begin, TypeOK, Busy
<1>2. pc' \in [Thread -> Label] /\ job' \in [Thread -> {0, 1}]
  BY DEF Begin, TypeOK, Label
<1>3. todo' \in [Thread -> SUBSET Client] /\ short' \in [Thread -> BOOLEAN]
  BY DEF Begin, TypeOK
<1> QED BY <1>1, <1>2, <1>3 DEF Begin, TypeOK

(* The other steps keep them too.                                          *)
LEMMA TypeContinue == ASSUME TypeOK, ToInv, NEW t \in Thread, Continue(t) PROVE TypeOK'
<1>0. MyTag(t) \in Tag
  BY MyTagType
<1>1. CASE AddHeader(t)
  BY <1>0, <1>1 DEF AddHeader, TypeOK, Label
<1>2. CASE AddBody(t)
  BY <1>0, <1>2 DEF AddBody, TypeOK, Label
<1>3. CASE NextClient(t)
  <2>1. pc' \in [Thread -> Label] /\ short' \in [Thread -> BOOLEAN] /\ tainted' \subseteq Thread
    BY <1>3 DEF NextClient, TypeOK, Label
  <2>2. \A c \in todo[t] : c \in Client
    BY DEF TypeOK
  <2>3. todo' \in [Thread -> SUBSET Client] /\ to' \in [Thread -> Client \cup {None}]
    BY <1>3, <2>2 DEF NextClient, TypeOK
  <2> QED BY <1>3, <2>1, <2>3 DEF NextClient, TypeOK
<1>4. CASE Encrypt(t)
  BY <1>4 DEF Encrypt, TypeOK, Label, Part
<1>5. CASE SetEncsize(t)
  BY <1>0, <1>5 DEF SetEncsize, TypeOK, Label
<1>6. CASE CallSendPacket(t)
  BY <1>6 DEF CallSendPacket, TypeOK, Label
<1>7. CASE SetNonblocking(t)
  <2>1. to[t] \in Client
    BY <1>7 DEF SetNonblocking, SetMode, ToInv
  <2>2. refused' \subseteq Client
    BY <1>7, <2>1 DEF SetNonblocking, SetMode, TypeOK
  <2> QED BY <1>7, <2>2 DEF SetNonblocking, SetMode, TypeOK, Label
<1>8. CASE Send(t)
  <2>1. Intact(t) \in BOOLEAN
    BY DEF Intact, TypeOK
  <2> QED BY <1>8, <2>1 DEF Send, TypeOK, Label
<1>9. CASE SetBlocking(t)
  <2>1. to[t] \in Client
    BY <1>9 DEF SetBlocking, SetMode, ToInv
  <2>2. refused' \subseteq Client
    BY <1>9, <2>1 DEF SetBlocking, SetMode, TypeOK
  <2> QED BY <1>9, <2>2 DEF SetBlocking, SetMode, TypeOK, Label
<1> QED BY <1>1, <1>2, <1>3, <1>4, <1>5, <1>6, <1>7, <1>8, <1>9 DEF Continue

-----------------------------------------------------------------------------
(* A new job leaves nobody untainted but itself, when it is alone.         *)
LEMMA BeginKeeps ==
    ASSUME IndInv, NEW t \in Thread, NEW cs \in SUBSET Client, NEW brief \in BOOLEAN,
           Begin(t, cs, brief), packet' \in [Part -> Tag \cup {None}]
    PROVE  IndInv'
<1> USE DEF IndInv
<1>1. TypeOK'
  BY TypeBegin
<1>2. /\ pc[t] = "idle" /\ pc'[t] = "head"
      /\ \A u \in Thread : u # t => pc'[u] = pc[u]
  BY DEF Begin, TypeOK
<1>3. \A u \in Thread : pc[u] # "idle" => u \in tainted' /\ t \in tainted'
  BY DEF Begin, Busy
<1>4. AloneInv'
  BY <1>2, <1>3 DEF AloneInv
<1>5. OwnInv'
  <2> SUFFICES ASSUME NEW u \in Thread, u \notin tainted' PROVE Owned(u)'
    BY DEF OwnInv
  <2>1. pc'[u] \in {"idle", "head"}
    BY <1>2, <1>3
  <2> QED BY <2>1 DEF Owned
<1>6. ToInv'
  BY <1>2 DEF ToInv, Begin
<1>7. ModeRestored'
  BY <1>2 DEF ModeRestored, InSendPacket, Begin
<1> QED BY <1>1, <1>4, <1>5, <1>6, <1>7

(* What a step of a job does to the others: it is alone, or they know.     *)
LEMMA ContinueFrame ==
    ASSUME TypeOK, NEW t \in Thread, Continue(t)
    PROVE  /\ pc[t] # "idle" /\ \A u \in Thread : u # t => pc'[u] = pc[u]
           /\ tainted' = tainted \/ (pc'[t] = "idle" /\ tainted' = tainted \ {t})
           /\ job' = job
<1>0. pc \in [Thread -> Label]
  BY DEF TypeOK
<1>1. pc[t] # "idle" /\ \A u \in Thread : u # t => pc'[u] = pc[u]
  BY <1>0 DEF Continue, AddHeader, AddBody, NextClient, Encrypt, SetEncsize, CallSendPacket,
              SetNonblocking, SetMode, Send, SetBlocking
<1>2. job' = job
  BY DEF Continue, AddHeader, AddBody, NextClient, Encrypt, SetEncsize, CallSendPacket,
         SetNonblocking, SetMode, Send, SetBlocking
<1>3. tainted' = tainted \/ (pc'[t] = "idle" /\ tainted' = tainted \ {t})
  <2>1. CASE NextClient(t)
    <3>1. CASE todo' = todo
      BY <1>0, <2>1, <3>1 DEF NextClient
    <3>2. CASE todo' # todo
      BY <2>1, <3>2 DEF NextClient
    <3> QED BY <3>1, <3>2
  <2>2. CASE ~ NextClient(t)
    <3>1. tainted' = tainted
      BY <2>2 DEF Continue, AddHeader, AddBody, Encrypt, SetEncsize, CallSendPacket,
         SetNonblocking, SetMode, Send, SetBlocking
    <3> QED BY <3>1
  <2> QED BY <2>1, <2>2
<1> QED BY <1>1, <1>2, <1>3

(* An untainted thread goes on to own the buffers.                         *)
LEMMA OwnedStep ==
    ASSUME IndInv, NEW t \in Thread, Continue(t), Owned(t), t \notin tainted
    PROVE  Owned(t)'
<1> USE DEF IndInv, TypeOK, Owned
<1>0. MyTag(t)' = MyTag(t)
  BY ContinueFrame DEF MyTag
<1>1. CASE AddHeader(t)
  BY <1>0, <1>1 DEF AddHeader, Part
<1>2. CASE AddBody(t)
  BY <1>0, <1>2 DEF AddBody, Part
<1>3. CASE NextClient(t)
  BY <1>0, <1>3 DEF NextClient
<1>4. CASE Encrypt(t)
  BY <1>0, <1>4 DEF Encrypt, Part
<1>5. CASE SetEncsize(t)
  BY <1>0, <1>5 DEF SetEncsize
<1>6. CASE CallSendPacket(t)
  BY <1>0, <1>6 DEF CallSendPacket
<1>7. CASE SetNonblocking(t)
  BY <1>0, <1>7 DEF SetNonblocking, SetMode, ToInv
<1>8. CASE Send(t)
  BY <1>0, <1>8 DEF Send
<1>9. CASE SetBlocking(t)
  BY <1>0, <1>9 DEF SetBlocking, SetMode
<1> QED BY <1>1, <1>2, <1>3, <1>4, <1>5, <1>6, <1>7, <1>8, <1>9 DEF Continue

(* The clients being sent to.                                              *)
LEMMA ToStep == ASSUME TypeOK, ToInv, NEW t \in Thread, Continue(t) PROVE ToInv'
<1> USE DEF TypeOK, ToInv
<1>1. CASE AddHeader(t) \/ AddBody(t)
  BY <1>1 DEF AddHeader, AddBody
<1>2. CASE NextClient(t)
  BY <1>2 DEF NextClient
<1>3. CASE Encrypt(t) \/ SetEncsize(t) \/ CallSendPacket(t)
  BY <1>3 DEF Encrypt, SetEncsize, CallSendPacket
<1>4. CASE SetNonblocking(t) \/ Send(t) \/ SetBlocking(t)
  BY <1>4 DEF SetNonblocking, SetMode, Send, SetBlocking
<1> QED BY <1>1, <1>2, <1>3, <1>4 DEF Continue

(* The mode of the sockets.                                                *)
LEMMA ModeStep ==
    ASSUME TypeOK, ModeRestored, NEW t \in Thread, Continue(t)
    PROVE  ModeRestored'
<1> SUFFICES ASSUME NEW c \in Client, nonblocking'[c], c \notin refused'
             PROVE  \E u \in Thread : InSendPacket(u)' /\ to'[u] = c
  BY DEF ModeRestored
<1> USE DEF TypeOK, InSendPacket
<1>1. ASSUME nonblocking[c], c \notin refused
      PROVE  \E u \in Thread : pc[u] \in {"send", "block"} /\ to[u] = c
  BY <1>1 DEF ModeRestored
<1>2. CASE SetNonblocking(t)
  <2>1. pc'[t] = "send" /\ to' = to /\ \A u \in Thread : u # t => pc'[u] = pc[u]
    BY <1>2 DEF SetNonblocking, SetMode
  <2>2. CASE to[t] = c
    BY <2>1, <2>2
  <2>3. CASE to[t] # c
    <3>1. nonblocking[c] /\ c \notin refused
      BY <1>2, <2>3 DEF SetNonblocking, SetMode
    <3> QED BY <1>1, <2>1, <2>3, <3>1
  <2> QED BY <2>2, <2>3
<1>3. CASE SetBlocking(t)
  <2>1. to[t] # c /\ nonblocking[c] /\ c \notin refused
    BY <1>3 DEF SetBlocking, SetMode
  <2>2. PICK u \in Thread : pc[u] \in {"send", "block"} /\ to[u] = c
    BY <1>1, <2>1
  <2>3. u # t /\ pc'[u] = pc[u] /\ to'[u] = to[u]
    BY <1>3, <2>1, <2>2 DEF SetBlocking, SetMode
  <2> QED BY <2>2, <2>3
<1>4. ASSUME UNCHANGED socket,
             \A u \in Thread : pc[u] \in {"send", "block"} =>
                 pc'[u] \in {"send", "block"} /\ to'[u] = to[u]
      PROVE  \E u \in Thread : InSendPacket(u)' /\ to'[u] = c
  BY <1>1, <1>4
<1>5. CASE AddHeader(t) \/ AddBody(t)
  BY <1>4, <1>5 DEF AddHeader, AddBody
<1>6. CASE NextClient(t)
  BY <1>4, <1>6 DEF NextClient
<1>7. CASE Encrypt(t) \/ SetEncsize(t) \/ CallSendPacket(t) \/ Send(t)
  BY <1>4, <1>7 DEF Encrypt, SetEncsize, CallSendPacket, Send
<1> QED BY <1>2, <1>3, <1>5, <1>6, <1>7 DEF Continue

(* The steps after the beginning keep the invariant.                       *)
LEMMA ContinueKeeps == ASSUME IndInv, NEW t \in Thread, Continue(t) PROVE IndInv'
<1> USE DEF IndInv
<1>1. TypeOK'
  BY TypeContinue
<1>2. /\ pc[t] # "idle" /\ \A u \in Thread : u # t => pc'[u] = pc[u]
      /\ tainted' = tainted \/ (pc'[t] = "idle" /\ tainted' = tainted \ {t})
  BY ContinueFrame
<1>3. AloneInv'
  BY <1>2 DEF AloneInv
<1>4. OwnInv'
  <2> SUFFICES ASSUME NEW u \in Thread, u \notin tainted' PROVE Owned(u)'
    BY DEF OwnInv
  <2>1. CASE pc'[u] = "idle"
    BY <2>1 DEF Owned
  <2>2. CASE pc'[u] # "idle" /\ u # t
    BY <1>2, <2>2 DEF AloneInv
  <2>3. CASE pc'[u] # "idle" /\ u = t
    <3>1. t \notin tainted /\ Owned(t)
      BY <1>2, <2>3 DEF OwnInv
    <3> QED BY <2>3, <3>1, OwnedStep
  <2> QED BY <2>1, <2>2, <2>3
<1> QED BY <1>1, <1>3, <1>4, ToStep, ModeStep

(* The initial state, with every thread idle.                              *)
LEMMA InitInv == Init => IndInv
<1> SUFFICES ASSUME Init PROVE IndInv
  OBVIOUS
<1>1. TypeOK
  BY DEF Init, TypeOK, Label
<1>2. AloneInv /\ OwnInv /\ ToInv
  BY DEF Init, AloneInv, OwnInv, Owned, ToInv
<1>3. ModeRestored
  BY DEF Init, ModeRestored
<1> QED BY <1>1, <1>2, <1>3 DEF IndInv

(* Every step of Next begins a job or goes on with one.                    *)
LEMMA StepKinds ==
    ASSUME TypeOK, NEW t \in Thread, Step(t)
    PROVE  \/ Continue(t)
           \/ \E cs \in SUBSET Client, brief \in BOOLEAN :
                 Begin(t, cs, brief) /\ packet' \in [Part -> Tag \cup {None}]
<1>1. ASSUME NEW cs \in SUBSET Client, BeginPacket(t, cs)
      PROVE  Begin(t, cs, FALSE) /\ packet' \in [Part -> Tag \cup {None}]
  BY <1>1 DEF BeginPacket
<1>2. ASSUME NEW c \in Client, GameToCharList(t, c)
      PROVE  {c} \in SUBSET Client /\ Begin(t, {c}, TRUE) /\ packet' \in [Part -> Tag \cup {None}]
  BY <1>2 DEF GameToCharList, TypeOK
<1> QED BY <1>1, <1>2 DEF Step, Continue

(* The invariant of the sending threads.                                   *)
THEOREM Invariance == Spec => []IndInv
<1>1. IndInv /\ [Next]_vars => IndInv'
  <2> SUFFICES ASSUME IndInv, [Next]_vars PROVE IndInv'
    OBVIOUS
  <2>1. CASE UNCHANGED vars
    BY <2>1 DEF IndInv, TypeOK, AloneInv, OwnInv, Owned, ToInv, ModeRestored, InSendPacket, MyTag
  <2>2. CASE Next
    <3>1. PICK t \in Thread : Step(t)
      BY <2>2 DEF Next
    <3>2. TypeOK
      BY DEF IndInv
    <3> QED BY <3>1, <3>2, StepKinds, ContinueKeeps, BeginKeeps
  <2> QED BY <2>1, <2>2
<1> QED BY InitInv, <1>1, PTL DEF Spec

-----------------------------------------------------------------------------
(* The handlers and SendPacket keep every variable within its type.        *)
THEOREM TypeCorrect == Spec => []TypeOK
  BY Invariance, PTL DEF IndInv

(* However the SendPackets of several threads interleave and whichever     *)
(* ioctlsocket fails, a socket stays non-blocking after SendPacket only    *)
(* where the last ioctlsocket failed.                                      *)
THEOREM ModeRestoredHolds == Spec => []ModeRestored
  BY Invariance, PTL DEF IndInv

(* SendPacket's send blocks only when another thread made the socket       *)
(* blocking meanwhile, or making it non-blocking failed.                   *)
THEOREM BlocksOnlyHolds == Spec => []BlocksOnlyForCause
<1>1. IndInv => BlocksOnlyForCause
  BY DEF IndInv, OwnInv, Owned, BlocksOnlyForCause
<1> QED BY Invariance, <1>1, PTL

(* A step is a step of PacketDelivery, or changes nothing it speaks of.    *)
LEMMA DeliveryStep ==
    ASSUME IndInv, NEW t \in Thread, Step(t)
    PROVE  Delivery!Next \/ UNCHANGED Delivery!vars
<1> USE DEF IndInv, TypeOK
<1>1. ASSUME NEW cs \in SUBSET Client, NEW brief \in BOOLEAN, Begin(t, cs, brief)
      PROVE  Delivery!Start(t)
  <2>1. t \notin Busy /\ Busy' = Busy \cup {t}
    BY <1>1 DEF Begin, Busy
  <2> QED BY <1>1, <2>1 DEF Begin, Delivery!Start
<1>2. CASE Send(t)
  <2>1. t \in Busy /\ Busy' = Busy
    BY <1>2 DEF Send, Busy
  <2>2. Intact(t) \/ t \in tainted
    BY <1>2 DEF Send, Intact, OwnInv, Owned
  <2>3. Intact(t) \in BOOLEAN
    BY DEF Intact
  <2>4. Delivery!Deliver(t)
    BY <1>2, <2>1, <2>2, <2>3 DEF Send, Delivery!Deliver
  <2> QED BY <2>4 DEF Delivery!Next
<1>3. CASE NextClient(t)
  <2>1. CASE pc'[t] = "idle"
    <3>1. t \in Busy /\ Busy' = Busy \ {t} /\ tainted' = tainted \ {t} /\ delivered' = delivered
      BY <1>3, <2>1 DEF NextClient, Busy
    <3> QED BY <3>1 DEF Delivery!End, Delivery!Next
  <2>2. CASE pc'[t] # "idle"
    <3>1. Busy' = Busy /\ tainted' = tainted /\ delivered' = delivered
      BY <1>3, <2>2 DEF NextClient, Busy
    <3> QED BY <3>1 DEF Delivery!vars
  <2> QED BY <2>1, <2>2
<1>4. ASSUME pc[t] # "idle", pc'[t] # "idle", \A u \in Thread : u # t => pc'[u] = pc[u],
             tainted' = tainted, delivered' = delivered
      PROVE  UNCHANGED Delivery!vars
  <2>1. Busy' = Busy
    BY <1>4 DEF Busy
  <2> QED BY <1>4, <2>1 DEF Delivery!vars
<1>5. CASE AddHeader(t) \/ AddBody(t)
  BY <1>4, <1>5 DEF AddHeader, AddBody
<1>6. CASE Encrypt(t) \/ SetEncsize(t) \/ CallSendPacket(t)
  BY <1>4, <1>6 DEF Encrypt, SetEncsize, CallSendPacket
<1>7. CASE SetNonblocking(t) \/ SetBlocking(t)
  BY <1>4, <1>7 DEF SetNonblocking, SetMode, SetBlocking
<1> QED BY <1>1, <1>2, <1>3, <1>5, <1>6, <1>7, StepKinds DEF Continue, Delivery!Next

(* The shared packet and encbuf implement PacketDelivery: a job that no    *)
(* other overlapped delivers its own packet, for any number of threads.    *)
THEOREM SendingRefinement == Spec => DeliverySpec
<1>1. Init => Delivery!Init
  BY DEF Init, Busy, Delivery!Init
<1>2. IndInv /\ [Next]_vars => [Delivery!Next]_(Delivery!vars)
  <2> SUFFICES ASSUME IndInv, [Next]_vars PROVE Delivery!Next \/ UNCHANGED Delivery!vars
    OBVIOUS
  <2>1. CASE UNCHANGED vars
    BY <2>1 DEF Busy, Delivery!vars
  <2>2. CASE Next
    BY <2>2, DeliveryStep DEF Next
  <2> QED BY <2>1, <2>2
<1> QED BY Invariance, <1>1, <1>2, PTL DEF Spec, DeliverySpec, Delivery!Spec
=============================================================================
