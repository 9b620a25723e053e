----------------------- MODULE PacketReception_proofs ------------------------
(***************************************************************************)
(* For streams of any length and packets of any size: packets are never    *)
(* repeated or reordered, however recv cuts the stream; and a client that  *)
(* waits for its packets to be received has the channel of PacketChannel.  *)
(***************************************************************************)
EXTENDS PacketReception, SequenceTheorems, TLAPS

(* The packets handled lie in the part of the stream that was taken.       *)
HandledTaken ==
    \A i \in DOMAIN handled : handled[i] # Garbage => Start[handled[i] + 1] <= taken

StreamInv == TypeOK /\ HandledTaken /\ HandledInOrder

(* Offsets are numbers that grow with the packet.                          *)
LEMMA Offsets ==
    /\ Packets \in Nat
    /\ Start[1] = HelloSize
    /\ \A p \in 1..(Packets + 1) : Start[p] \in Nat /\ Start[p] >= HelloSize
    /\ \A p \in 1..Packets : Start[p + 1] \in Nat /\ Start[p] + 2 <= Start[p + 1]
    /\ \A p, q \in 1..(Packets + 1) : Start[p] <= Start[q] => p <= q
<1>1. Packets \in Nat /\ Start[1] = HelloSize /\ \A p \in 1..(Packets + 1) : Start[p] \in Nat
  BY StreamAssumption
<1>2. \A p \in 1..(Packets + 1) : Start[p] >= HelloSize
  <2> TAKE p \in 1..(Packets + 1)
  <2>1. CASE p = 1
    BY <1>1, <2>1 DEF HelloSize
  <2>2. CASE p # 1
    <3>1. 1 \in 1..(Packets + 1) /\ 1 < p
      BY <1>1, <2>2
    <3>2. Start[1] + 2 <= Start[p]
      BY <3>1, StreamAssumption
    <3> QED BY <1>1, <3>2 DEF HelloSize
  <2> QED BY <2>1, <2>2
<1>3. \A p \in 1..Packets : p + 1 \in 1..(Packets + 1) /\ p \in 1..(Packets + 1) /\ p < p + 1
  BY <1>1
<1>4. \A p \in 1..Packets : Start[p] + 2 <= Start[p + 1]
  BY <1>1, <1>3, StreamAssumption
<1>5. ASSUME NEW p \in 1..(Packets + 1), NEW q \in 1..(Packets + 1), Start[p] <= Start[q], q < p
      PROVE  FALSE
  <2>1. Start[q] + 2 <= Start[p]
    BY <1>5, StreamAssumption
  <2> QED BY <1>1, <1>5, <2>1
<1> QED BY <1>1, <1>2, <1>3, <1>4, <1>5

(* What OnReceivePacket reads is garbage, or a packet all of which is in   *)
(* the buffer.                                                             *)
LEMMA PacketAtSound ==
    ASSUME TypeOK, NEW n \in Nat
    PROVE  /\ PacketAt(n) \in 0..Packets
           /\ PacketAt(n) # Garbage =>
                /\ PacketAt(n) \in 1..Packets
                /\ Start[PacketAt(n)] >= taken
                /\ Start[PacketAt(n) + 1] <= taken + n
<1> DEFINE from == taken + LastByte(n)
           whole == {p \in 1..Packets : Start[p] = from /\ Start[p + 1] <= taken + n}
<1>1. from \in Nat /\ from >= taken /\ taken \in Nat
  BY StreamAssumption DEF TypeOK, LastByte, HelloSize
<1>2. CASE whole = {}
  BY <1>2, StreamAssumption DEF PacketAt, Garbage
<1>3. CASE whole # {}
  <2>1. PacketAt(n) = CHOOSE p \in whole : TRUE
    BY <1>3 DEF PacketAt
  <2>2. PacketAt(n) \in whole
    BY <1>3, <2>1
  <2>3. PacketAt(n) \in 1..Packets /\ Start[PacketAt(n)] = from /\ Start[PacketAt(n) + 1] <= taken + n
    BY <2>2
  <2> HIDE DEF from
  <2> QED BY <1>1, <2>3, Offsets
<1> QED BY <1>2, <1>3

(* One receive keeps the stream invariant.                                 *)
LEMMA ReceiveStream ==
    ASSUME StreamInv, NEW n \in 1..Available, ReceiveData(n)
    PROVE  StreamInv'
<1>1. /\ n \in Nat /\ taken \in Nat /\ sent \in 0..Packets /\ Start[sent + 1] \in Nat
      /\ taken + n \in 0..Start[sent + 1]
  BY StreamAssumption DEF StreamInv, TypeOK, Available
<1>2. taken' = taken + n /\ sent' = sent /\ recvpkts' = recvpkts + 1 /\ served' = served
  BY DEF ReceiveData
<1>3. CASE n = LastByte(n)
  <2>1. handled' = handled /\ open' = open
    BY <1>3 DEF ReceiveData, OnReceivePacket
  <2>2. \A i \in DOMAIN handled : handled[i] \in 0..Packets
    <3>1. handled \in Seq(0..Packets)
      BY DEF StreamInv, TypeOK
    <3>2. DOMAIN handled = 1..Len(handled)
      BY <3>1
    <3> TAKE i \in DOMAIN handled
    <3> QED BY <3>1, <3>2, ElementOfSeq
  <2>3. TypeOK'
    BY <1>1, <1>2, <2>1 DEF StreamInv, TypeOK
  <2>4. HandledTaken' /\ HandledInOrder'
    BY <1>1, <1>2, <2>1, <2>2, StreamAssumption DEF StreamInv, HandledTaken, HandledInOrder, Garbage
  <2> QED BY <2>3, <2>4 DEF StreamInv
<1>4. CASE n # LastByte(n)
  <2> DEFINE q == PacketAt(n)
  <2>1. handled' = Append(handled, q) /\ open' \in BOOLEAN
    BY <1>4 DEF ReceiveData, OnReceivePacket
  <2>2. /\ q \in 0..Packets
        /\ q # Garbage => /\ q \in 1..Packets
                          /\ Start[q] >= taken
                          /\ Start[q + 1] <= taken + n
    BY <1>1, PacketAtSound DEF StreamInv
  <2>3. handled \in Seq(0..Packets)
    BY DEF StreamInv, TypeOK
  <2> HIDE DEF q
  <2>9. \A i \in 1..Len(handled) : handled[i] \in 0..Packets
    <3> TAKE i \in 1..Len(handled)
    <3> QED BY <2>3, ElementOfSeq
  <2>4. /\ DOMAIN handled' = 1..(Len(handled) + 1)
        /\ \A i \in 1..Len(handled) : handled'[i] = handled[i] /\ handled[i] \in 0..Packets
        /\ handled'[Len(handled) + 1] = q
        /\ DOMAIN handled = 1..Len(handled) /\ Len(handled) \in Nat
        /\ handled' \in Seq(0..Packets)
    BY <2>1, <2>2, <2>3, <2>9, AppendProperties
  <2>5. TypeOK'
    BY <1>1, <1>2, <2>1, <2>4 DEF StreamInv, TypeOK
  <2>0. ASSUME NEW i \in 1..Len(handled), handled[i] # Garbage
        PROVE  /\ handled[i] \in 1..Packets /\ Start[handled[i] + 1] \in Nat
               /\ Start[handled[i] + 1] <= taken
    <3>1. handled[i] \in 1..Packets
      BY <2>0, <2>4 DEF Garbage
    <3> QED BY <2>0, <2>4, <3>1, Offsets DEF StreamInv, HandledTaken
  <2>6. HandledTaken'
    <3> SUFFICES ASSUME NEW i \in DOMAIN handled', handled'[i] # Garbage
                 PROVE  Start[handled'[i] + 1] <= taken'
      BY DEF HandledTaken, Garbage
    <3>1. CASE i \in 1..Len(handled)
      BY <1>1, <1>2, <2>0, <2>4, <3>1
    <3>2. CASE i = Len(handled) + 1
      BY <1>1, <1>2, <2>2, <2>4, <3>2
    <3> QED BY <2>4, <3>1, <3>2
  <2>7. ASSUME NEW i \in 1..Len(handled), handled[i] # Garbage, q # Garbage
        PROVE  handled[i] < q
    <3>1. Start[handled[i] + 1] <= Start[q]
      <4>1. Start[q] \in Nat /\ Start[q] >= taken
        BY <2>2, <2>7, Offsets
      <4>2. Start[handled[i] + 1] \in Nat /\ Start[handled[i] + 1] <= taken
        BY <2>0, <2>7
      <4> QED BY <1>1, <4>1, <4>2
    <3>2. handled[i] \in 1..Packets /\ q \in 1..Packets
      BY <2>2, <2>4, <2>7 DEF Garbage
    <3>3. handled[i] + 1 \in 1..(Packets + 1) /\ q \in 1..(Packets + 1)
      BY <3>2, Offsets
    <3>4. handled[i] + 1 <= q
      BY <3>1, <3>3, Offsets
    <3> QED BY <3>2, <3>4
  <2>8. HandledInOrder'
    <3> SUFFICES ASSUME NEW i \in DOMAIN handled', NEW j \in DOMAIN handled', i < j,
                        handled'[i] # Garbage, handled'[j] # Garbage
                 PROVE  handled'[i] < handled'[j]
      BY DEF HandledInOrder, Garbage
    <3>1. i \in 1..Len(handled)
      BY <2>4
    <3>2. CASE j \in 1..Len(handled)
      BY <2>4, <3>1, <3>2 DEF StreamInv, HandledInOrder
    <3>3. CASE j = Len(handled) + 1
      BY <2>4, <2>7, <3>1, <3>3
    <3> QED BY <2>4, <3>2, <3>3
  <2> QED BY <2>5, <2>6, <2>8 DEF StreamInv
<1> QED BY <1>3, <1>4

(* What is taken and handled stays within the stream in every behaviour.   *)
LEMMA StreamInvariance == Spec => []StreamInv
<1>1. Init => StreamInv
  BY StreamAssumption DEF Init, StreamInv, TypeOK, HandledTaken, HandledInOrder, HelloSize
<1>2. StreamInv /\ [Next]_vars => StreamInv'
  <2> SUFFICES ASSUME StreamInv, [Next]_vars PROVE StreamInv'
    OBVIOUS
  <2>1. ASSUME Send PROVE StreamInv'
    <3>0. sent + 1 \in 1..Packets /\ sent' = sent + 1
      BY <2>1, Offsets DEF Send, StreamInv, TypeOK
    <3>1. /\ Start[sent + 1] \in Nat /\ Start[sent' + 1] \in Nat
          /\ Start[sent + 1] <= Start[sent' + 1] /\ sent' \in 0..Packets
      BY <3>0, Offsets
    <3>2. TypeOK'
      BY <2>1, <3>1 DEF Send, StreamInv, TypeOK
    <3> QED BY <2>1, <3>2 DEF Send, StreamInv, HandledTaken, HandledInOrder
  <2>2. ASSUME Receive PROVE StreamInv'
    BY <2>2, ReceiveStream DEF Receive
  <2>5. ASSUME Round PROVE StreamInv'
    BY <2>5 DEF Round, StreamInv, TypeOK, HandledTaken, HandledInOrder
  <2>3. ASSUME ReceiveEnd PROVE StreamInv'
    BY <2>3 DEF ReceiveEnd, StreamInv, TypeOK, HandledTaken, HandledInOrder
  <2>4. ASSUME UNCHANGED vars PROVE StreamInv'
    BY <2>4 DEF vars, StreamInv, TypeOK, HandledTaken, HandledInOrder
  <2> QED BY <2>1, <2>2, <2>3, <2>4, <2>5 DEF Next, Finished
<1> QED BY <1>1, <1>2, PTL DEF Spec

(* OnReceivePacket keeps every variable's type, for every stream.          *)
THEOREM TypeCorrect == Spec => []TypeOK
  BY StreamInvariance, PTL DEF StreamInv

(* No handler sees a packet twice or out of order, however recv cuts the   *)
(* stream.                                                                 *)
THEOREM HandledInOrderHolds == Spec => []HandledInOrder
  BY StreamInvariance, PTL DEF StreamInv

-----------------------------------------------------------------------------
(* A paced client on a connection that does not split: nothing was taken   *)
(* yet, or the stream is taken up to the end of the last packet handled    *)
(* and at most one packet is on its way.                                   *)
PacedInv ==
    /\ \A i \in DOMAIN handled : handled[i] = i
    /\ \/ taken = 0 /\ Len(handled) = 0 /\ sent <= 1
       \/ /\ Len(handled) <= Packets
          /\ taken = Start[Len(handled) + 1]
          /\ sent = Len(handled) \/ sent = Len(handled) + 1

(* Such a receive is the hello alone, or hands over exactly the next       *)
(* packet.                                                                 *)
LEMMA PacedReceive ==
    ASSUME Paced, ~ Split, TypeOK, PacedInv, NEW n \in 1..Available, ReceiveData(n)
    PROVE  PacedInv' /\ (Channel!Handle \/ UNCHANGED Channel!vars)
<1>0. PICK k \in Nat : k = Len(handled)
  BY DEF TypeOK
<1>1. /\ k \in Nat /\ taken \in Nat /\ n \in Nat /\ sent \in 0..Packets
      /\ Start[sent + 1] \in Nat /\ DOMAIN handled = 1..k
  BY <1>0, Offsets DEF TypeOK, Available
<1>2. /\ taken' = taken + n /\ sent' = sent /\ open
      /\ n <= RecvMax /\ (n = Available \/ n = RecvMax)
  BY DEF ReceiveData
<1>3. CASE taken = 0 /\ k = 0 /\ sent <= 1
  <2>1. n = Start[sent + 1]
    <3>1. CASE sent = 0
      BY <1>0, <1>1, <1>2, <1>3, <3>1, StreamAssumption, RecvAssumption DEF Available, HelloSize
    <3>2. CASE sent = 1
      <4>1. Start[2] <= RecvMax /\ Packets >= 1
        BY <1>0, <1>1, <3>2, RecvAssumption, StreamAssumption
      <4> QED BY <1>0, <1>1, <1>2, <1>3, <3>2, <4>1, RecvAssumption DEF Available
    <3> QED BY <1>0, <1>1, <1>3, <3>1, <3>2
  <2>2. CASE sent = 0
    <3>1. n = HelloSize /\ LastByte(n) = HelloSize
      BY <1>3, <2>1, <2>2, StreamAssumption DEF LastByte, HelloSize
    <3>2. UNCHANGED <<handled, open>>
      BY <3>1 DEF ReceiveData, OnReceivePacket
    <3> QED BY <1>0, <1>1, <1>2, <1>3, <2>2, <3>1, <3>2, StreamAssumption DEF PacedInv, HelloSize, Channel!vars
  <2>3. CASE sent = 1
    <3>1. n >= 6 /\ LastByte(n) = HelloSize /\ n # LastByte(n) /\ Packets >= 1
      BY <1>0, <1>1, <1>3, <2>1, <2>3, StreamAssumption DEF LastByte, HelloSize
    <3>2. PacketAt(n) = 1
      <4>1. {p \in 1..Packets : Start[p] = taken + LastByte(n) /\ Start[p + 1] <= taken + n} = {1}
        BY <1>0, <1>1, <1>3, <2>1, <2>3, <3>1, StreamAssumption DEF HelloSize
      <4> QED BY <4>1 DEF PacketAt
    <3>3. handled' = Append(handled, 1) /\ open' \in BOOLEAN
      BY <3>1, <3>2 DEF ReceiveData, OnReceivePacket
    <3>4. handled \in Seq(0..Packets) /\ handled' \in Seq(0..Packets) /\ Len(handled') = 1 /\ handled'[1] = 1
      BY <1>0, <1>1, <1>3, <3>1, <3>3 DEF TypeOK
    <3>5. PacedInv'
      BY <1>0, <1>1, <1>2, <1>3, <2>1, <2>3, <3>1, <3>4 DEF PacedInv
    <3>6. Channel!Handle
      BY <1>0, <1>1, <1>2, <1>3, <2>3, <3>3 DEF Channel!Handle
    <3> QED BY <3>5, <3>6
  <2> QED BY <1>0, <1>1, <1>3, <2>2, <2>3
<1>4. CASE k <= Packets /\ taken = Start[k + 1] /\ (sent = k \/ sent = k + 1)
  <2>1. sent = k + 1
    BY <1>0, <1>1, <1>4, Offsets DEF Available
  <2>2. /\ Start[k + 2] \in Nat /\ Start[k + 1] \in Nat /\ k + 1 \in 1..Packets
        /\ Start[k + 1] >= HelloSize
    <3>1. k + 1 \in 1..Packets /\ k + 1 \in 1..(Packets + 1) /\ (k + 1) + 1 = k + 2
      BY <1>1, <2>1, Offsets
    <3> QED BY <3>1, Offsets
  <2>3. n = Start[k + 2] - Start[k + 1]
    <3>1. Start[k + 2] <= (IF k = 0 THEN 0 ELSE Start[k + 1]) + RecvMax
      BY <1>0, <1>1, <2>2, RecvAssumption
    <3> QED BY <1>0, <1>1, <1>2, <1>4, <2>1, <2>2, <3>1, RecvAssumption DEF Available
  <2>4. LastByte(n) = 0 /\ n # 0
    BY <1>0, <1>1, <1>4, <2>2, <2>3, Offsets DEF LastByte, HelloSize
  <2>5. PacketAt(n) = k + 1
    <3>1. {p \in 1..Packets : Start[p] = taken + LastByte(n) /\ Start[p + 1] <= taken + n} = {k + 1}
      <4>1. Start[k + 1] = taken + LastByte(n) /\ Start[(k + 1) + 1] <= taken + n
        BY <1>1, <1>4, <2>2, <2>3, <2>4
      <4>2. ASSUME NEW p \in 1..Packets, Start[p] = taken + LastByte(n) PROVE p = k + 1
        <5>1. p \in 1..(Packets + 1) /\ k + 1 \in 1..(Packets + 1)
          BY <2>2, Offsets
        <5>2. Start[p] = Start[k + 1]
          BY <4>1, <4>2
        <5>3. p <= k + 1 /\ k + 1 <= p
          BY <2>2, <5>1, <5>2, Offsets
        <5> QED BY <1>1, <5>3
      <4> QED BY <2>2, <4>1, <4>2
    <3> QED BY <3>1 DEF PacketAt
  <2>6. handled' = Append(handled, k + 1) /\ open' \in BOOLEAN
    BY <2>4, <2>5 DEF ReceiveData, OnReceivePacket
  <2>7. /\ handled' \in Seq(0..Packets) /\ Len(handled') = k + 1
        /\ \A i \in 1..k : handled'[i] = handled[i]
        /\ handled'[k + 1] = k + 1 /\ DOMAIN handled' = 1..(k + 1)
    BY <1>0, <1>1, <2>2, <2>6 DEF TypeOK
  <2>8. taken' = Start[k + 2]
    BY <1>0, <1>1, <1>2, <1>4, <2>2, <2>3
  <2>9. PacedInv'
    BY <1>0, <1>1, <1>2, <2>1, <2>2, <2>7, <2>8 DEF PacedInv
  <2>10. Channel!Handle
    BY <1>0, <1>1, <1>2, <2>1, <2>6 DEF Channel!Handle
  <2> QED BY <2>9, <2>10
<1> QED BY <1>0, <1>3, <1>4 DEF PacedInv

(* For a client that waits for its packets to be received, on a connection *)
(* that does not split them, ReceiveData and OnReceivePacket implement the *)
(* channel.                                                                *)
THEOREM PacedRefinement ==
    ASSUME Paced, ~ Split
    PROVE  Spec => ChannelSpec
<1>1. Init => PacedInv /\ Channel!Init
  BY DEF Init, PacedInv, Channel!Init
<1>2. TypeOK /\ PacedInv /\ [Next]_vars => PacedInv' /\ [Channel!Next]_(Channel!vars)
  <2> SUFFICES ASSUME TypeOK, PacedInv, [Next]_vars
               PROVE  PacedInv' /\ (Channel!Next \/ UNCHANGED Channel!vars)
    OBVIOUS
  <2>1. ASSUME Send PROVE PacedInv' /\ Channel!Send
    <3>1. /\ sent \in 0..Packets /\ taken \in Nat /\ Len(handled) \in Nat /\ sent' = sent + 1
          /\ handled' = handled /\ taken' = taken /\ open' = open /\ sent < Packets /\ open
          /\ sent > 0 => Start[sent + 1] - taken = 0
      BY <2>1, StreamAssumption DEF Send, TypeOK, Available
    <3>2. Channel!Send
      BY <3>1 DEF Channel!Send
    <3>3. ASSUME sent = Len(handled) + 1, taken = Start[Len(handled) + 1] PROVE FALSE
      <4>1. Start[sent + 1] = Start[Len(handled) + 1]
        BY <3>1, <3>3, Offsets
      <4> QED BY <3>1, <3>3, <4>1, Offsets
    <3>4. PacedInv'
      <4>1. CASE taken = 0 /\ Len(handled) = 0 /\ sent <= 1
        <5>1. sent = 0
          BY <3>1, <4>1, StreamAssumption
        <5> QED BY <3>1, <4>1, <5>1 DEF PacedInv
      <4>2. CASE Len(handled) <= Packets /\ taken = Start[Len(handled) + 1] /\ sent = Len(handled)
        BY <3>1, <4>2 DEF PacedInv
      <4> QED BY <3>3, <4>1, <4>2 DEF PacedInv
    <3> QED BY <3>2, <3>4
  <2>2. ASSUME Receive PROVE PacedInv' /\ (Channel!Handle \/ UNCHANGED Channel!vars)
    BY <2>2, PacedReceive DEF Receive
  <2>3. ASSUME ReceiveEnd PROVE PacedInv' /\ Channel!Close
    BY <2>3 DEF ReceiveEnd, PacedInv, Channel!Close
  <2>5. ASSUME Round PROVE PacedInv' /\ UNCHANGED Channel!vars
    BY <2>5 DEF Round, PacedInv, Channel!vars
  <2>4. ASSUME UNCHANGED vars PROVE PacedInv' /\ UNCHANGED Channel!vars
    BY <2>4 DEF vars, PacedInv, Channel!vars
  <2> QED BY <2>1, <2>2, <2>3, <2>4, <2>5 DEF Next, Finished, Channel!Next
<1>3. Spec => []TypeOK
  BY TypeCorrect
<1> QED BY <1>1, <1>2, <1>3, PTL DEF Spec, ChannelSpec, Channel!Spec
=============================================================================
