-------------------------- MODULE Visibility_proofs --------------------------
(***************************************************************************)
(* Proofs about Visibility, for any number of clients, NPCs and positions. *)
(*                                                                         *)
(* What makes VisiblityList safe is that a client is deleted under         *)
(* PlayerMutex only, and only after it has left ClientList; what makes its *)
(* list sound is that the clients still ahead of the inner loop are not    *)
(* among those collected, which an erase (the vector moves down) and a     *)
(* push_back (a fresh address) both keep.                                  *)
(***************************************************************************)
EXTENDS Visibility, VectorLemmas, TLAPS

(* ClientList holds allocated clients, each once; the client the loop is   *)
(* deleting is no longer on it.                                            *)
ListInv ==
    /\ IsInjective(ClientList)
    /\ ToSet(ClientList) \subseteq heap
    /\ pc["loop"] \in {"lockPlayer", "delete"} => client \notin ToSet(ClientList)

MutexInv ==
    /\ pc["vis"] \in {"walk", "inner", "clear", "assign"} <=> PlayerMutex = "vis"
    /\ pc["loop"] = "delete" <=> PlayerMutex = "loop"

ClientInv == pc["loop"] # "idle" => client \in Addr

(* The list VisiblityList is collecting, and the client it is for, are     *)
(* alive until the list is in place: the loop may erase any of them from   *)
(* ClientList meanwhile, but the delete waits for PlayerMutex.             *)
PendingAreLive ==
    pc["vis"] \in {"inner", "clear", "assign"} => {viewer} \cup ToSet(newVisible) \subseteq heap

(* The clients collected so far: each once, not the viewer, and none of    *)
(* those the inner loop has still to look at.                              *)
NewInv ==
    /\ pc["vis"] \in {"inner", "clear", "assign"} =>
          /\ viewer \in Addr
          /\ IsInjective(newVisible) /\ viewer \notin ToSet(newVisible)
    /\ pc["vis"] = "inner" =>
          \A n \in DOMAIN ClientList : n >= k => ClientList[n] \notin ToSet(newVisible)

(* The clients the inner loop has looked at: those that were seen are kept *)
(* or dismissed, unless an erase moved one past the loop.                  *)
WalkInv ==
    pc["vis"] = "inner" /\ ~ shrunk =>
        /\ k <= Len(ClientList) + 1
        /\ \A n \in 1..(k - 1) :
              IsVisible(viewer, ClientList[n]) => ClientList[n] \in ToSet(newVisible) \cup dismissed

IndInv ==
    /\ TypeOK /\ ListInv /\ MutexInv /\ ClientInv
    /\ PendingAreLive /\ NewInv /\ ListsAreSound /\ WalkInv

(* The part of the state the lists are built from.                         *)
watched == <<ClientList, heap, VisibleClients, pc["vis"], viewer, newVisible, k, dismissed, shrunk>>

-----------------------------------------------------------------------------
(* Goto moves one thread and leaves the other where it is.                 *)
LEMMA GotoMoves ==
  ASSUME NEW t \in {"loop", "vis"}, NEW l1, NEW l2, TypeOK, Goto(t, l1, l2)
  PROVE  /\ process = "running" /\ pc[t] = l1 /\ pc'[t] = l2
         /\ \A u \in {"loop", "vis"} : u # t => pc'[u] = pc[u]
         /\ l2 \in Label => pc' \in [{"loop", "vis"} -> Label]
BY DEF Goto, TypeOK

(* The distance between two positions is a number.                         *)
LEMMA DistanceType == ASSUME NEW p \in Int, NEW q \in Int PROVE distance(p, q) \in Int
BY DEF distance

(* A step changes what the lists are built from in one of nine ways.       *)
LEMMA WatchedSteps ==
  ASSUME TypeOK, [Next]_vars
  PROVE  \/ UNCHANGED watched
         \/ \E a \in Addr : AddUser(a) \/ DisconnectClient(a)
         \/ DeleteClientSocket
         \/ VisLock \/ VisWalk \/ VisOther \/ VisOthersEnd \/ VisClear \/ VisAssign \/ VisUnlock
<1>1. CASE UNCHANGED vars \/ Finished
  BY <1>1 DEF Finished, vars, clientVars, loopVars, visVars, watched
<1>2. ASSUME NEW a \in Addr, Receive(a)
      PROVE  AddUser(a) \/ DisconnectClient(a) \/ UNCHANGED watched
  <2> DEFINE quiet == <<ClientList, heap, VisibleClients, viewer, newVisible, k, dismissed, shrunk>>
  <2>1. CASE CheckLogin(a)
    <3>1. Goto("loop", "idle", "idle") /\ UNCHANGED quiet
      BY <2>1 DEF CheckLogin, visVars
    <3> QED BY <3>1, GotoMoves DEF watched
  <2>2. ASSUME NEW p \in Place, SendToWorld(a, p) PROVE UNCHANGED watched
    <3>1. Goto("loop", "idle", "idle") /\ UNCHANGED quiet
      BY <2>2 DEF SendToWorld, visVars
    <3> QED BY <3>1, GotoMoves DEF watched
  <2>3. ASSUME NEW p, BeginSend(a, p) PROVE UNCHANGED watched
    <3>1. Goto("loop", "idle", "size") /\ UNCHANGED quiet
      BY <2>3 DEF BeginSend, clientVars, visVars
    <3> QED BY <3>1, GotoMoves DEF watched
  <2>4. CASE packetCommand(a)
    <3>1. Goto("loop", "idle", "idle") /\ UNCHANGED quiet
      BY <2>4 DEF packetCommand, clientVars, visVars
    <3> QED BY <3>1, GotoMoves DEF watched
  <2> QED BY <1>2, <2>1, <2>2, <2>3, <2>4
          DEF Receive, ObjectMove, SendChat, PlayerAttack, pakGMTele, pakGMSpawn, pakGMItem
<1>3. CASE SendSize
  <2>1. UNCHANGED <<ClientList, heap, VisibleClients, viewer, newVisible, k, dismissed, shrunk>>
    BY <1>3 DEF SendSize, clientVars, visVars
  <2>2. Goto("loop", "size", "at") \/ Goto("loop", "size", "idle")
    BY <1>3 DEF SendSize
  <2> QED BY <2>1, <2>2, GotoMoves DEF watched
<1>4. CASE SendAt
  <2>1. UNCHANGED <<ClientList, heap, VisibleClients, viewer, newVisible, k, dismissed, shrunk>>
    BY <1>4 DEF SendAt, clientVars, visVars
  <2>2. Goto("loop", "at", "deliver") \/ pc' = pc
    BY <1>4 DEF SendAt
  <2> QED BY <2>1, <2>2, GotoMoves DEF watched
<1>5. CASE SendPacket
  <2>1. UNCHANGED <<ClientList, heap, VisibleClients, viewer, newVisible, k, dismissed, shrunk>>
    BY <1>5 DEF SendPacket, clientVars, visVars
  <2>2. Goto("loop", "deliver", "size") \/ pc' = pc
    BY <1>5 DEF SendPacket
  <2> QED BY <2>1, <2>2, GotoMoves DEF watched
<1>6. CASE LoopLockPlayer
  <2>1. UNCHANGED <<ClientList, heap, VisibleClients, viewer, newVisible, k, dismissed, shrunk>>
    BY <1>6 DEF LoopLockPlayer, clientVars, visVars
  <2>2. Goto("loop", "lockPlayer", "delete")
    BY <1>6 DEF LoopLockPlayer
  <2> QED BY <2>1, <2>2, GotoMoves DEF watched
<1>7. CASE VisSkip
  <2>1. UNCHANGED <<ClientList, heap, VisibleClients, viewer, newVisible, k, dismissed, shrunk>>
    BY <1>7 DEF VisSkip, clientVars
  <2>2. Goto("vis", "walk", "walk")
    BY <1>7 DEF VisSkip
  <2> QED BY <2>1, <2>2, GotoMoves DEF watched
<1> QED
  <2>1. CASE ServerLoop BY <2>1, <1>3, <1>4, <1>5, <1>6 DEF ServerLoop
  <2>2. CASE VisibilityProcess BY <2>2, <1>7 DEF VisibilityProcess
  <2> QED BY <1>1, <1>2, <2>1, <2>2 DEF Next

-----------------------------------------------------------------------------
(* The mutex belongs to the thread that is between its lock and unlock.    *)
LEMMA MutexStep == ASSUME TypeOK, MutexInv, [Next]_vars PROVE MutexInv'
<1> USE RangeAssumption DEF MutexInv
<1>1. CASE UNCHANGED vars \/ Finished
  BY <1>1 DEF Finished, vars
<1>2. ASSUME NEW a \in Addr, Receive(a) PROVE MutexInv'
  <2>1. PICK l2 \in {"idle", "size", "lockPlayer"} : Goto("loop", "idle", l2) /\ UNCHANGED PlayerMutex
    BY <1>2 DEF Receive, AddUser, CheckLogin, DisconnectClient, SendToWorld, BeginSend, ObjectMove,
                SendChat, PlayerAttack, pakGMTele, pakGMSpawn, pakGMItem, packetCommand
  <2>2. pc["loop"] = "idle" /\ pc'["loop"] = l2 /\ pc'["vis"] = pc["vis"] BY <2>1, GotoMoves
  <2> QED BY <2>1, <2>2
<1>3. CASE SendSize \/ SendAt \/ SendPacket
  <2>1. PICK l1, l2 \in {"idle", "size", "at", "deliver"} :
           (Goto("loop", l1, l2) \/ pc' = pc) /\ UNCHANGED PlayerMutex
    BY <1>3 DEF SendSize, SendAt, SendPacket
  <2>2. CASE pc' = pc BY <2>1, <2>2
  <2>3. CASE Goto("loop", l1, l2)
    <3>1. pc["loop"] = l1 /\ pc'["loop"] = l2 /\ pc'["vis"] = pc["vis"] BY <2>3, GotoMoves
    <3> QED BY <2>1, <3>1
  <2> QED BY <2>1, <2>2, <2>3
<1>4. CASE LoopLockPlayer
  <2>1. pc["loop"] = "lockPlayer" /\ pc'["loop"] = "delete" /\ pc'["vis"] = pc["vis"]
    BY <1>4, GotoMoves DEF LoopLockPlayer
  <2>2. PlayerMutex = None /\ PlayerMutex' = "loop" BY <1>4 DEF LoopLockPlayer
  <2> QED BY <2>1, <2>2
<1>5. CASE DeleteClientSocket
  <2>1. pc["loop"] = "delete" /\ pc'["loop"] = "idle" /\ pc'["vis"] = pc["vis"]
    BY <1>5, GotoMoves DEF DeleteClientSocket
  <2>2. PlayerMutex' = None BY <1>5 DEF DeleteClientSocket
  <2> QED BY <2>1, <2>2
<1>6. CASE VisLock
  <2>1. pc["vis"] = "lock" /\ pc'["vis"] = "walk" /\ pc'["loop"] = pc["loop"]
    BY <1>6, GotoMoves DEF VisLock
  <2>2. PlayerMutex = None /\ PlayerMutex' = "vis" BY <1>6 DEF VisLock
  <2> QED BY <2>1, <2>2
<1>7. CASE VisUnlock
  <2>1. pc["vis"] = "walk" /\ pc'["vis"] = "lock" /\ pc'["loop"] = pc["loop"]
    BY <1>7, GotoMoves DEF VisUnlock
  <2>2. PlayerMutex' = None BY <1>7 DEF VisUnlock
  <2> QED BY <2>1, <2>2
<1>8. CASE VisWalk \/ VisSkip \/ VisOther \/ VisOthersEnd \/ VisClear \/ VisAssign
  <2>1. PICK l1, l2 \in {"walk", "inner", "clear", "assign"} :
           Goto("vis", l1, l2) /\ UNCHANGED PlayerMutex
    BY <1>8 DEF VisWalk, VisSkip, VisOther, VisOthersEnd, VisClear, VisAssign
  <2>2. pc["vis"] = l1 /\ pc'["vis"] = l2 /\ pc'["loop"] = pc["loop"] BY <2>1, GotoMoves
  <2> QED BY <2>1, <2>2
<1> QED BY <1>1, <1>2, <1>3, <1>4, <1>5, <1>6, <1>7, <1>8 DEF Next, ServerLoop, VisibilityProcess

(* A handler that is under way has its client.                             *)
LEMMA ClientStep == ASSUME TypeOK, ClientInv, [Next]_vars PROVE ClientInv'
<1> USE DEF ClientInv
<1>1. CASE UNCHANGED vars \/ Finished
  BY <1>1 DEF Finished, vars, loopVars
<1>2. ASSUME NEW a \in Addr, Receive(a) PROVE ClientInv'
  <2>1. Goto("loop", "idle", "idle") \/ client' = a
    BY <1>2 DEF Receive, AddUser, CheckLogin, DisconnectClient, SendToWorld, BeginSend, ObjectMove,
                SendChat, PlayerAttack, pakGMTele, pakGMSpawn, pakGMItem, packetCommand
  <2> QED BY <2>1, GotoMoves
<1>3. CASE SendSize \/ SendAt \/ SendPacket \/ LoopLockPlayer
  <2>1. \/ Goto("loop", "size", "idle")
        \/ client' = client /\ pc["loop"] # "idle"
    BY <1>3 DEF SendSize, SendAt, SendPacket, LoopLockPlayer, Goto, loopVars
  <2> QED BY <2>1, GotoMoves
<1>4. CASE DeleteClientSocket
  BY <1>4, GotoMoves DEF DeleteClientSocket
<1>5. CASE VisibilityProcess
  <2>1. client' = client
    BY <1>5 DEF VisibilityProcess, VisLock, VisWalk, VisSkip, VisOther, VisOthersEnd, VisClear, VisAssign,
                VisUnlock, loopVars
  <2>2. pc'["loop"] = pc["loop"]
    BY <1>5, GotoMoves DEF VisibilityProcess, VisLock, VisWalk, VisSkip, VisOther, VisOthersEnd, VisClear,
                VisAssign, VisUnlock
  <2> QED BY <2>1, <2>2
<1> QED BY <1>1, <1>2, <1>3, <1>4, <1>5 DEF Next, ServerLoop

-----------------------------------------------------------------------------
(* An element of a vector of clients is a client.                          *)
LEMMA ElementType ==
  ASSUME NEW s \in Seq(Addr), NEW n \in Nat \ {0}, n <= Len(s)
  PROVE  n \in DOMAIN s /\ s[n] \in Addr /\ s[n] \in ToSet(s)
<1>1. n \in 1..Len(s) /\ Len(s) \in Nat BY LenProperties
<1> QED BY <1>1, ElementOfSeq, LenProperties DEF ToSet

(* push_back adds one element.                                             *)
LEMMA AppendedSet ==
  ASSUME NEW s \in Seq(Addr), NEW x
  PROVE  ToSet(Append(s, x)) = ToSet(s) \cup {x}
<1>1. /\ DOMAIN Append(s, x) = 1..(Len(s) + 1) /\ DOMAIN s = 1..Len(s) /\ Len(s) \in Nat
      /\ Append(s, x)[Len(s) + 1] = x /\ \A n \in 1..Len(s) : Append(s, x)[n] = s[n]
  BY LenProperties
<1> QED BY <1>1 DEF ToSet

(* Giving one client other flags or another position keeps the type.       *)
LEMMA PlayerType ==
  ASSUME TypeOK, NEW a \in Addr, NEW p \in Place, NEW x \in BOOLEAN
  PROVE  /\ [player EXCEPT ![a] = NewPlayer] \in [Addr -> Player]
         /\ [player EXCEPT ![a].isLoggedIn = @ \/ x] \in [Addr -> Player]
         /\ [player EXCEPT ![a].inGame = TRUE, ![a].pos = p, ![a].isLoggedIn = @ \/ x] \in [Addr -> Player]
         /\ [player EXCEPT ![a].pos = p] \in [Addr -> Player]
<1>1. NewPlayer \in Player BY RangeAssumption DEF NewPlayer, Player
<1>2. player \in [Addr -> Player] /\ player[a] \in Player BY DEF TypeOK
<1>3. (player[a].isLoggedIn \/ x) \in BOOLEAN /\ player[a].inGame \in BOOLEAN BY <1>2 DEF Player
<1>4. /\ [player[a] EXCEPT !.isLoggedIn = @ \/ x] \in Player
      /\ [player[a] EXCEPT !.pos = p] \in Player
      /\ [player[a] EXCEPT !.inGame = TRUE, !.pos = p, !.isLoggedIn = @ \/ x] \in Player
  BY <1>2, <1>3 DEF Player
<1> QED BY <1>1, <1>2, <1>4

(* The step preserves the types of the variables of the clients.           *)
LEMMA ClientTypes ==
  ASSUME TypeOK, ClientInv, [Next]_vars
  PROVE  /\ ClientList' \in Seq(Addr)
         /\ heap' \subseteq Addr
         /\ player' \in [Addr -> Player]
<1>0. /\ ClientList \in Seq(Addr) /\ heap \subseteq Addr /\ player \in [Addr -> Player]
      /\ goal \in Place
  BY DEF TypeOK
<1>1. CASE UNCHANGED <<ClientList, heap, player>>
  BY <1>0, <1>1
<1>2. ASSUME NEW a \in Addr, AddUser(a)
      PROVE ClientList' \in Seq(Addr) /\ heap' \subseteq Addr /\ player' \in [Addr -> Player]
  <2>1. /\ ClientList' = Append(ClientList, a) /\ heap' = heap \cup {a}
        /\ player' = [player EXCEPT ![a] = NewPlayer]
    BY <1>2 DEF AddUser
  <2> QED BY <1>0, <2>1, PlayerType, AppendProperties, RangeAssumption
<1>3. ASSUME NEW a \in Addr, CheckLogin(a)
      PROVE ClientList' \in Seq(Addr) /\ heap' \subseteq Addr /\ player' \in [Addr -> Player]
  <2>1. PICK x \in BOOLEAN : player' = [player EXCEPT ![a].isLoggedIn = @ \/ x]
    BY <1>3 DEF CheckLogin
  <2>2. UNCHANGED <<ClientList, heap>> BY <1>3 DEF CheckLogin
  <2> QED BY <1>0, <2>1, <2>2, PlayerType, RangeAssumption
<1>4. ASSUME NEW a \in Addr, NEW p \in Place, SendToWorld(a, p)
      PROVE ClientList' \in Seq(Addr) /\ heap' \subseteq Addr /\ player' \in [Addr -> Player]
  <2>1. PICK x \in BOOLEAN :
           player' = [player EXCEPT ![a].inGame = TRUE, ![a].pos = p, ![a].isLoggedIn = @ \/ x]
    BY <1>4 DEF SendToWorld
  <2>2. UNCHANGED <<ClientList, heap>> BY <1>4 DEF SendToWorld
  <2> QED BY <1>0, <2>1, <2>2, PlayerType
<1>5. ASSUME NEW a \in Addr, DisconnectClient(a)
      PROVE ClientList' \in Seq(Addr) /\ heap' \subseteq Addr /\ player' \in [Addr -> Player]
  <2>1. PICK n \in DOMAIN ClientList : ClientList' = RemoveAt(ClientList, n)
    BY <1>5 DEF DisconnectClient
  <2>2. UNCHANGED <<heap, player>> BY <1>5 DEF DisconnectClient
  <2> QED BY <1>0, <2>1, <2>2, RemoveAtProperties
<1>6. CASE SendSize
  <2>1. \/ player' = player
        \/ pc["loop"] # "idle" /\ player' = [player EXCEPT ![client].pos = goal]
    BY <1>6 DEF SendSize, Goto, clientVars
  <2>2. UNCHANGED <<ClientList, heap>> BY <1>6 DEF SendSize, clientVars
  <2>3. pc["loop"] # "idle" => [player EXCEPT ![client].pos = goal] \in [Addr -> Player]
    <3> SUFFICES ASSUME client \in Addr PROVE [player EXCEPT ![client].pos = goal] \in [Addr -> Player]
      BY DEF ClientInv
    <3> QED BY <1>0, PlayerType
  <2> QED BY <1>0, <2>1, <2>2, <2>3
<1>7. CASE DeleteClientSocket
  <2>1. /\ heap' = heap \ {client} /\ player' = [player EXCEPT ![client] = NewPlayer]
        /\ ClientList' = ClientList /\ client \in Addr
    BY <1>7 DEF DeleteClientSocket, ClientInv, Goto
  <2> QED BY <1>0, <2>1, PlayerType, RangeAssumption
<1> QED
  BY <1>1, <1>2, <1>3, <1>4, <1>5, <1>6, <1>7
     DEF Next, Receive, ServerLoop, VisibilityProcess, Finished, vars, clientVars, BeginSend, ObjectMove,
         SendChat, PlayerAttack, pakGMTele, pakGMSpawn, pakGMItem, packetCommand, SendAt, SendPacket,
         LoopLockPlayer, VisLock, VisWalk, VisSkip, VisOther, VisOthersEnd, VisClear, VisAssign, VisUnlock

(* The step preserves the types of the lists of visible objects and of     *)
(* what the visibility thread collects.                                    *)
LEMMA ListTypes ==
  ASSUME TypeOK, ClientInv, [Next]_vars
  PROVE  /\ VisibleClients' \in [Addr -> Seq(Addr)]
         /\ VisibleNPCs' \in [Addr -> SUBSET Npc]
         /\ viewer' \in Addr \cup {None}
         /\ newVisible' \in Seq(Addr)
         /\ dismissed' \subseteq Addr
<1> DEFINE Goal == /\ VisibleClients' \in [Addr -> Seq(Addr)]
                   /\ VisibleNPCs' \in [Addr -> SUBSET Npc]
                   /\ viewer' \in Addr \cup {None}
                   /\ newVisible' \in Seq(Addr)
                   /\ dismissed' \subseteq Addr
<1>0. /\ VisibleClients \in [Addr -> Seq(Addr)] /\ VisibleNPCs \in [Addr -> SUBSET Npc]
      /\ viewer \in Addr \cup {None} /\ newVisible \in Seq(Addr) /\ dismissed \subseteq Addr
      /\ ClientList \in Seq(Addr) /\ i \in Nat \ {0} /\ k \in Nat \ {0}
  BY DEF TypeOK
<1>e. <<>> \in Seq(Addr) OBVIOUS
<1>1. CASE UNCHANGED <<VisibleClients, VisibleNPCs, viewer, newVisible, dismissed>>
  BY <1>0, <1>1
<1>2. CASE DeleteClientSocket
  BY <1>0, <1>2, <1>e DEF DeleteClientSocket, visVars
<1>3. CASE VisWalk
  <2>1. /\ i <= Len(ClientList) /\ viewer' = ClientList[i] /\ newVisible' = <<>> /\ dismissed' = {}
        /\ UNCHANGED <<VisibleClients, VisibleNPCs>>
    BY <1>3 DEF VisWalk, clientVars
  <2>2. ClientList[i] \in Addr BY <1>0, <2>1, ElementType
  <2> QED BY <1>0, <1>e, <2>1, <2>2
<1>4. CASE VisOther
  <2>1. /\ k <= Len(ClientList)
        /\ newVisible' = newVisible \/ newVisible' = Append(newVisible, ClientList[k])
        /\ dismissed' = dismissed \/ dismissed' = dismissed \cup {ClientList[k]}
        /\ UNCHANGED <<VisibleClients, VisibleNPCs, viewer>>
    BY <1>4 DEF VisOther, clientVars
  <2>2. ClientList[k] \in Addr BY <1>0, <2>1, ElementType
  <2>3. Append(newVisible, ClientList[k]) \in Seq(Addr) BY <1>0, <2>2, AppendProperties
  <2> QED BY <1>0, <2>1, <2>2, <2>3
<1>5. CASE VisClear
  <2>1. PICK S \in SUBSET Npc : VisibleNPCs' = [VisibleNPCs EXCEPT ![viewer] = S]
    <3> DEFINE S == {n \in Npc : InRange(n \in VisibleNPCs[viewer],
                                         distance(player[viewer].pos, NpcPlace[n]))}
    <3>1. S \in SUBSET Npc OBVIOUS
    <3>2. VisibleNPCs' = [VisibleNPCs EXCEPT ![viewer] = S] BY <1>5 DEF VisClear
    <3> QED BY <3>1, <3>2
  <2>2. VisibleClients' = [VisibleClients EXCEPT ![viewer] = <<>>] /\ UNCHANGED visVars
    BY <1>5 DEF VisClear
  <2> QED BY <1>0, <1>e, <2>1, <2>2 DEF visVars
<1>6. CASE VisAssign
  BY <1>0, <1>6, <1>e DEF VisAssign
<1> QED
  BY <1>1, <1>2, <1>3, <1>4, <1>5, <1>6
     DEF Next, Receive, ServerLoop, VisibilityProcess, Finished, vars, clientVars, visVars, AddUser,
         CheckLogin, SendToWorld, BeginSend, ObjectMove, SendChat, PlayerAttack, pakGMTele, pakGMSpawn,
         pakGMItem, packetCommand, DisconnectClient, SendSize, SendAt, SendPacket, LoopLockPlayer, VisLock,
         VisSkip, VisOthersEnd, VisUnlock

(* The step preserves the types of the variables of the server loop.       *)
LEMMA LoopTypes ==
  ASSUME TypeOK, ClientInv, [Next]_vars
  PROVE  /\ client' \in Addr \cup {None} /\ goal' \in Place
         /\ j' \in Nat \ {0} /\ to' \in Addr \cup {None}
<1>0. /\ client \in Addr \cup {None} /\ goal \in Place /\ j \in Nat \ {0} /\ to \in Addr \cup {None}
      /\ 0 \in Place /\ VisibleClients \in [Addr -> Seq(Addr)]
      /\ \A a \in Addr : player[a].pos \in Place
  BY RangeAssumption DEF TypeOK, Player
<1>1. CASE UNCHANGED loopVars BY <1>0, <1>1 DEF loopVars
<1>2. ASSUME NEW a \in Addr, NEW p \in Place, BeginSend(a, p)
      PROVE client' \in Addr \cup {None} /\ goal' \in Place /\ j' \in Nat \ {0} /\ to' \in Addr \cup {None}
  BY <1>0, <1>2 DEF BeginSend
<1>3. ASSUME NEW a \in Addr, DisconnectClient(a)
      PROVE client' \in Addr \cup {None} /\ goal' \in Place /\ j' \in Nat \ {0} /\ to' \in Addr \cup {None}
  BY <1>0, <1>3 DEF DisconnectClient
<1>4. CASE SendSize
  BY <1>0, <1>4 DEF SendSize, loopVars
<1>5. CASE SendAt
  <2>1. CASE to' = to BY <1>0, <1>5, <2>1 DEF SendAt, loopVars
  <2>2. CASE to' # to
    <3>1. /\ pc["loop"] = "at" /\ j <= Len(VisibleClients[client]) /\ to' = VisibleClients[client][j]
          /\ UNCHANGED <<client, goal, j>>
      BY <1>5, <2>2 DEF SendAt, Goto, loopVars
    <3>2. client \in Addr BY <3>1 DEF ClientInv
    <3>3. to' \in Addr BY <1>0, <3>1, <3>2, ElementType
    <3> QED BY <1>0, <3>1, <3>3
  <2> QED BY <2>1, <2>2
<1>6. CASE SendPacket
  BY <1>0, <1>6 DEF SendPacket, loopVars
<1>7. CASE DeleteClientSocket
  BY <1>0, <1>7 DEF DeleteClientSocket
<1> QED
  BY <1>0, <1>1, <1>2, <1>3, <1>4, <1>5, <1>6, <1>7
     DEF Next, Receive, ServerLoop, VisibilityProcess, Finished, vars, AddUser,
         CheckLogin, SendToWorld, ObjectMove, SendChat, PlayerAttack, pakGMTele, pakGMSpawn,
         pakGMItem, packetCommand, LoopLockPlayer, VisLock, VisWalk, VisOther, VisClear, VisAssign,
         VisSkip, VisOthersEnd, VisUnlock

(* The step preserves the types of the rest.                               *)
LEMMA ControlTypes ==
  ASSUME TypeOK, [Next]_vars
  PROVE  /\ PlayerMutex' \in {"loop", "vis", None}
         /\ pc' \in [{"loop", "vis"} -> Label]
         /\ i' \in Nat \ {0} /\ k' \in Nat \ {0}
         /\ shrunk' \in BOOLEAN
         /\ process' \in {"running", "aborted"}
<1> USE DEF Next, Receive, ServerLoop, VisibilityProcess, Finished, vars, AddUser, CheckLogin, SendToWorld,
         BeginSend, ObjectMove, SendChat, PlayerAttack, pakGMTele, pakGMSpawn, pakGMItem, packetCommand,
         DisconnectClient, SendSize, SendAt, SendPacket, LoopLockPlayer, DeleteClientSocket, VisLock,
         VisWalk, VisSkip, VisOther, VisOthersEnd, VisClear, VisAssign, VisUnlock, visVars
<1>1. PlayerMutex' \in {"loop", "vis", None} BY DEF TypeOK
<1>2. process' \in {"running", "aborted"} BY DEF TypeOK
<1>3. i' \in Nat \ {0} /\ k' \in Nat \ {0}
  <2>1. \/ i' = i /\ k' = k
        \/ VisibilityProcess
    BY Zenon DEF loopVars
  <2>2. VisibilityProcess => (i' = i \/ i' = 1 \/ i' = i + 1) /\ (k' = k \/ k' = 1 \/ k' = k + 1)
    OBVIOUS
  <2>3. i \in Nat \ {0} /\ k \in Nat \ {0} BY DEF TypeOK
  <2> HIDE DEF VisibilityProcess, Next, vars
  <2> QED BY <2>1, <2>2, <2>3
<1>4. shrunk' \in BOOLEAN BY DEF TypeOK
<1>5. pc' = pc \/ \E t \in {"loop", "vis"}, l1 \in Label, l2 \in Label : Goto(t, l1, l2)
  BY DEF Label
<1>6. pc' \in [{"loop", "vis"} -> Label]
  BY <1>5, GotoMoves DEF TypeOK
<1> QED BY <1>1, <1>2, <1>3, <1>4, <1>6

(* Every step preserves the types.                                         *)
LEMMA TypeStep == ASSUME TypeOK, ClientInv, [Next]_vars PROVE TypeOK'
BY ClientTypes, ListTypes, LoopTypes, ControlTypes DEF TypeOK

-----------------------------------------------------------------------------
(* ClientList stays a list of allocated clients, each once: AddUser takes  *)
(* a free address, and a client is off the list when it is deleted.        *)
LEMMA ListStep == ASSUME TypeOK, ListInv, ClientInv, [Next]_vars PROVE ListInv'
<1>0. ToSet(ClientList)' = ToSet(ClientList') BY DEF ToSet
<1>t. ClientList \in Seq(Addr) /\ heap \subseteq Addr BY DEF TypeOK
<1>i. IsInjective(ClientList) /\ ToSet(ClientList) \subseteq heap BY DEF ListInv
<1>1. ASSUME NEW a \in Addr, AddUser(a) PROVE ListInv'
  <2>1. /\ a \notin heap /\ heap' = heap \cup {a} /\ ClientList' = Append(ClientList, a)
        /\ pc'["loop"] = "idle"
    BY <1>1, GotoMoves DEF AddUser
  <2>2. IsInjective(ClientList') /\ ToSet(ClientList') = ToSet(ClientList) \cup {a}
    BY <1>t, <1>i, <2>1, AppendToInjective
  <2> QED BY <1>0, <1>i, <2>1, <2>2 DEF ListInv, IsInjective
<1>2. ASSUME NEW a \in Addr, DisconnectClient(a) PROVE ListInv'
  <2>1. PICK n \in DOMAIN ClientList : ClientList[n] = a /\ ClientList' = RemoveAt(ClientList, n)
    BY <1>2 DEF DisconnectClient
  <2>2. heap' = heap /\ client' = a BY <1>2 DEF DisconnectClient
  <2>3. IsInjective(ClientList') /\ ToSet(ClientList') = ToSet(ClientList) \ {a}
    BY <1>t, <1>i, <2>1, EraseFromInjective
  <2> QED BY <1>0, <1>i, <2>2, <2>3 DEF ListInv, IsInjective
<1>3. CASE DeleteClientSocket
  <2>1. /\ pc["loop"] = "delete" /\ pc'["loop"] = "idle"
        /\ heap' = heap \ {client} /\ ClientList' = ClientList
    BY <1>3, GotoMoves DEF DeleteClientSocket
  <2> QED BY <1>0, <1>i, <2>1 DEF ListInv, IsInjective
<1>4. CASE /\ UNCHANGED <<ClientList, heap>>
           /\ pc'["loop"] \in {"lockPlayer", "delete"} =>
                 pc["loop"] \in {"lockPlayer", "delete"} /\ client' = client
  BY <1>0, <1>i, <1>4 DEF ListInv, IsInjective
<1>5. ASSUME NEW a \in Addr, Receive(a), ~ AddUser(a), ~ DisconnectClient(a) PROVE ListInv'
  <2>1. /\ UNCHANGED <<ClientList, heap>>
        /\ Goto("loop", "idle", "idle") \/ Goto("loop", "idle", "size")
    BY <1>5 DEF Receive, CheckLogin, SendToWorld, BeginSend, ObjectMove, SendChat, PlayerAttack,
                pakGMTele, pakGMSpawn, pakGMItem, packetCommand, clientVars
  <2> QED BY <1>4, <2>1, GotoMoves
<1>6. CASE SendSize \/ SendAt \/ SendPacket
  <2>1. UNCHANGED <<ClientList, heap>>
    BY <1>6 DEF SendSize, SendAt, SendPacket, clientVars
  <2>2. \/ \E l1 \in Label, l2 \in {"idle", "size", "at", "deliver"} : Goto("loop", l1, l2)
        \/ pc' = pc /\ pc["loop"] \in {"at", "deliver"}
    BY <1>6 DEF SendSize, SendAt, SendPacket, Label
  <2> QED BY <1>4, <2>1, <2>2, GotoMoves
<1>7. CASE LoopLockPlayer
  <2>1. pc["loop"] = "lockPlayer" /\ client' = client /\ UNCHANGED <<ClientList, heap>>
    BY <1>7 DEF LoopLockPlayer, Goto, clientVars, loopVars
  <2> QED BY <1>4, <2>1
<1>8. CASE VisibilityProcess
  <2>1. client' = client /\ UNCHANGED <<ClientList, heap>>
    BY <1>8 DEF VisibilityProcess, VisLock, VisWalk, VisSkip, VisOther, VisOthersEnd, VisClear, VisAssign,
                VisUnlock, loopVars, clientVars
  <2>2. pc'["loop"] = pc["loop"]
    BY <1>8, GotoMoves DEF VisibilityProcess, VisLock, VisWalk, VisSkip, VisOther, VisOthersEnd, VisClear,
                VisAssign, VisUnlock
  <2> QED BY <1>4, <2>1, <2>2
<1>9. CASE UNCHANGED vars \/ Finished
  BY <1>4, <1>9 DEF Finished, vars, clientVars, loopVars
<1> QED BY <1>1, <1>2, <1>3, <1>5, <1>6, <1>7, <1>8, <1>9 DEF Next, ServerLoop

(* Where the thread of a visibility step comes from and goes to.           *)
LEMMA VisMoves ==
  ASSUME TypeOK
  PROVE  /\ VisLock => pc["vis"] = "lock" /\ pc'["vis"] = "walk"
         /\ VisWalk => pc["vis"] = "walk" /\ pc'["vis"] = "inner"
         /\ VisOther => pc["vis"] = "inner" /\ pc'["vis"] = "inner"
         /\ VisOthersEnd => pc["vis"] = "inner" /\ pc'["vis"] = "clear"
         /\ VisClear => pc["vis"] = "clear" /\ pc'["vis"] = "assign"
         /\ VisAssign => pc["vis"] = "assign" /\ pc'["vis"] = "walk"
         /\ VisUnlock => pc["vis"] = "walk" /\ pc'["vis"] = "lock"
BY GotoMoves DEF VisLock, VisWalk, VisOther, VisOthersEnd, VisClear, VisAssign, VisUnlock

(* DeleteClientSocket runs while the visibility thread is not in its walk. *)
LEMMA DeleteExcluded ==
  ASSUME TypeOK, MutexInv, DeleteClientSocket
  PROVE  /\ pc["vis"] \notin {"inner", "clear", "assign"}
         /\ pc'["vis"] \notin {"inner", "clear", "assign"}
<1>1. pc["loop"] = "delete" /\ pc'["vis"] = pc["vis"] BY GotoMoves DEF DeleteClientSocket
<1>2. PlayerMutex = "loop" BY <1>1 DEF MutexInv
<1>3. PlayerMutex # "vis" BY <1>2
<1> QED BY <1>1, <1>3 DEF MutexInv

(* AddUser and DisconnectClient leave the visibility thread alone.         *)
LEMMA ListStepsFrame ==
  ASSUME TypeOK, NEW a \in Addr, AddUser(a) \/ DisconnectClient(a)
  PROVE  /\ pc'["vis"] = pc["vis"]
         /\ UNCHANGED <<VisibleClients, viewer, newVisible, k, dismissed>>
         /\ heap \subseteq heap'
<1>1. pc'["vis"] = pc["vis"] BY GotoMoves DEF AddUser, DisconnectClient
<1>2. UNCHANGED <<VisibleClients, viewer, newVisible, k, dismissed>>
  BY DEF AddUser, DisconnectClient, visVars
<1>3. heap \subseteq heap' BY DEF AddUser, DisconnectClient
<1> QED BY <1>1, <1>2, <1>3

(* What is being collected stays alive.                                    *)
LEMMA PendingStep ==
  ASSUME TypeOK, ListInv, MutexInv, PendingAreLive, [Next]_vars
  PROVE  PendingAreLive'
<1>0. ToSet(newVisible)' = ToSet(newVisible') BY DEF ToSet
<1>1. CASE UNCHANGED watched BY <1>0, <1>1 DEF PendingAreLive, watched, ToSet
<1>2. ASSUME NEW a \in Addr, AddUser(a) \/ DisconnectClient(a) PROVE PendingAreLive'
  <2>1. /\ pc'["vis"] = pc["vis"] /\ viewer' = viewer /\ newVisible' = newVisible
        /\ heap \subseteq heap'
    BY <1>2, ListStepsFrame
  <2> QED BY <1>0, <2>1 DEF PendingAreLive
<1>3. CASE DeleteClientSocket BY <1>3, DeleteExcluded DEF PendingAreLive
<1>4. CASE VisLock \/ VisAssign \/ VisUnlock BY <1>4, VisMoves DEF PendingAreLive
<1>5. CASE VisWalk
  <2>1. /\ i <= Len(ClientList) /\ viewer' = ClientList[i] /\ newVisible' = <<>> /\ heap' = heap
    BY <1>5 DEF VisWalk, clientVars
  <2>2. ClientList[i] \in ToSet(ClientList) BY <2>1, ElementType DEF TypeOK
  <2>3. ToSet(newVisible') = {} BY <2>1 DEF ToSet
  <2>4. viewer' \in heap' BY <2>1, <2>2 DEF ListInv
  <2> QED BY <1>0, <2>3, <2>4 DEF PendingAreLive
<1>6. CASE VisOther
  <2>1. /\ k <= Len(ClientList)
        /\ newVisible' = newVisible \/ newVisible' = Append(newVisible, ClientList[k])
        /\ viewer' = viewer /\ heap' = heap
    BY <1>6 DEF VisOther, clientVars
  <2>2. ClientList[k] \in ToSet(ClientList) BY <2>1, ElementType DEF TypeOK
  <2>3. pc["vis"] = "inner" BY <1>6, VisMoves
  <2>4. viewer \in heap /\ ToSet(newVisible) \subseteq heap BY <2>3 DEF PendingAreLive
  <2>5. ToSet(newVisible') \subseteq ToSet(newVisible) \cup {ClientList[k]}
    BY <2>1, AppendedSet DEF TypeOK
  <2> QED BY <1>0, <2>1, <2>2, <2>4, <2>5 DEF PendingAreLive, ListInv
<1>7. CASE VisOthersEnd \/ VisClear
  <2>1. viewer' = viewer /\ newVisible' = newVisible /\ heap' = heap
    BY <1>7 DEF VisOthersEnd, VisClear, clientVars, visVars
  <2>2. pc["vis"] \in {"inner", "clear"} BY <1>7, VisMoves
  <2> QED BY <1>0, <2>1, <2>2 DEF PendingAreLive
<1> QED BY <1>1, <1>2, <1>3, <1>4, <1>5, <1>6, <1>7, WatchedSteps

(* What one turn of the inner loop does, without the distances.            *)
LEMMA OtherStep ==
  ASSUME TypeOK, ListInv, NewInv, VisOther
  PROVE  /\ k \in DOMAIN ClientList /\ k' = k + 1 /\ viewer \in Addr
         /\ ClientList[k] \in Addr /\ ClientList[k] \notin ToSet(newVisible)
         /\ \/ newVisible' = newVisible
            \/ ClientList[k] # viewer /\ newVisible' = Append(newVisible, ClientList[k])
         /\ UNCHANGED <<ClientList, heap, player, VisibleClients, viewer, shrunk>>
<1>1. pc["vis"] = "inner" BY VisMoves
<1>2. k <= Len(ClientList) /\ k' = k + 1 BY DEF VisOther
<1>3. k \in DOMAIN ClientList /\ ClientList[k] \in Addr /\ k \in Nat BY <1>2, ElementType DEF TypeOK
<1>4. viewer \in Addr /\ ClientList[k] \notin ToSet(newVisible) BY <1>1, <1>3 DEF NewInv
<1>5. \/ newVisible' = newVisible
      \/ ClientList[k] # viewer /\ newVisible' = Append(newVisible, ClientList[k])
  BY DEF VisOther
<1>6. UNCHANGED <<ClientList, heap, player, VisibleClients, viewer, shrunk>>
  BY DEF VisOther, clientVars
<1> QED BY <1>2, <1>3, <1>4, <1>5, <1>6

(* The clients collected stay apart from the viewer and from those ahead   *)
(* of the loop, through an erase and a push_back during the loop.          *)
LEMMA NewStep ==
  ASSUME TypeOK, ListInv, MutexInv, PendingAreLive, NewInv, [Next]_vars
  PROVE  NewInv'
<1>0. ToSet(newVisible)' = ToSet(newVisible') /\ ToSet(ClientList)' = ToSet(ClientList') BY DEF ToSet
<1>t. /\ ClientList \in Seq(Addr) /\ newVisible \in Seq(Addr) /\ k \in Nat \ {0}
      /\ Len(ClientList) \in Nat /\ DOMAIN ClientList = 1..Len(ClientList)
  BY LenProperties DEF TypeOK
<1>1. CASE UNCHANGED watched BY <1>0, <1>1 DEF NewInv, watched, IsInjective
<1>2. ASSUME NEW a \in Addr, AddUser(a) \/ DisconnectClient(a) PROVE NewInv'
  <2>1. pc'["vis"] = pc["vis"] /\ viewer' = viewer /\ newVisible' = newVisible /\ k' = k
    BY <1>2, ListStepsFrame
  <2>2. ASSUME pc["vis"] = "inner", NEW n \in DOMAIN ClientList', n >= k
        PROVE  ClientList'[n] \notin ToSet(newVisible)
    <3>1. \A m \in DOMAIN ClientList : m >= k => ClientList[m] \notin ToSet(newVisible)
      BY <2>2 DEF NewInv
    <3>2. CASE AddUser(a)
      <4>1. ClientList' = Append(ClientList, a) /\ a \notin heap BY <3>2 DEF AddUser
      <4>2. a \notin ToSet(newVisible) BY <2>2, <4>1 DEF PendingAreLive
      <4>3. n \in 1..(Len(ClientList) + 1) BY <1>t, <4>1, AppendProperties
      <4>4. ClientList'[n] = IF n = Len(ClientList) + 1 THEN a ELSE ClientList[n]
        BY <1>t, <4>1, <4>3, AppendProperties
      <4> QED BY <1>t, <2>2, <3>1, <4>2, <4>3, <4>4
    <3>3. CASE DisconnectClient(a)
      <4>1. PICK e \in DOMAIN ClientList : ClientList' = RemoveAt(ClientList, e)
        BY <3>3 DEF DisconnectClient
      <4>2. /\ ClientList' \in Seq(Addr) /\ Len(ClientList') = Len(ClientList) - 1
            /\ \A m \in 1..(Len(ClientList) - 1) :
                  ClientList'[m] = IF m < e THEN ClientList[m] ELSE ClientList[m + 1]
        BY <1>t, <4>1, RemoveAtProperties
      <4>3. n \in 1..(Len(ClientList) - 1) BY <4>2, LenProperties
      <4>4. PICK m \in {n, n + 1} : ClientList'[n] = ClientList[m] BY <4>2, <4>3
      <4>5. m \in DOMAIN ClientList /\ m >= k BY <1>t, <2>2, <4>3, <4>4
      <4> QED BY <3>1, <4>4, <4>5
    <3> QED BY <1>2, <3>2, <3>3
  <2> QED BY <1>0, <2>1, <2>2 DEF NewInv, IsInjective
<1>3. CASE DeleteClientSocket
  BY <1>3, DeleteExcluded DEF NewInv
<1>4. CASE VisLock \/ VisAssign \/ VisUnlock BY <1>4, VisMoves DEF NewInv
<1>5. CASE VisWalk
  <2>1. i <= Len(ClientList) /\ viewer' = ClientList[i] /\ newVisible' = <<>> BY <1>5 DEF VisWalk
  <2>2. ClientList[i] \in Addr BY <2>1, ElementType DEF TypeOK
  <2>3. ToSet(newVisible') = {} BY <2>1 DEF ToSet
  <2>4. IsInjective(newVisible') BY <2>1 DEF IsInjective
  <2> QED BY <1>0, <2>1, <2>2, <2>3, <2>4 DEF NewInv, IsInjective
<1>6. CASE VisOther
  <2>1. /\ k \in DOMAIN ClientList /\ k' = k + 1 /\ viewer \in Addr
        /\ ClientList[k] \in Addr /\ ClientList[k] \notin ToSet(newVisible)
        /\ \/ newVisible' = newVisible
           \/ ClientList[k] # viewer /\ newVisible' = Append(newVisible, ClientList[k])
        /\ ClientList' = ClientList /\ viewer' = viewer
    BY <1>6, OtherStep
  <2>2. pc["vis"] = "inner" BY <1>6, VisMoves
  <2>3. IsInjective(newVisible) /\ viewer \notin ToSet(newVisible) BY <2>2 DEF NewInv
  <2>4. IsInjective(newVisible')
    <3>1. IsInjective(Append(newVisible, ClientList[k]))
      <4>1. ClientList[k] \in Addr \ ToSet(newVisible) BY <2>1
      <4> QED BY <1>t, <2>3, <4>1, AppendToInjective
    <3> QED BY <2>1, <2>3, <3>1
  <2>5. ToSet(newVisible') \subseteq ToSet(newVisible) \cup {ClientList[k]} BY <1>t, <2>1, AppendedSet
  <2>6. viewer' \notin ToSet(newVisible')
    <3>1. CASE newVisible' = newVisible BY <2>1, <2>3, <3>1
    <3>2. CASE ClientList[k] # viewer BY <2>1, <2>3, <2>5, <3>2
    <3> QED BY <2>1, <3>1, <3>2
  <2>7. ASSUME NEW n \in DOMAIN ClientList, n >= k + 1 PROVE ClientList[n] \notin ToSet(newVisible')
    <3>1. n >= k /\ n # k BY <1>t, <2>7
    <3>2. ClientList[n] \notin ToSet(newVisible) BY <2>2, <3>1 DEF NewInv
    <3>3. ClientList[n] # ClientList[k] BY <2>1, <3>1 DEF ListInv, IsInjective
    <3> QED BY <2>5, <3>2, <3>3
  <2> QED BY <1>0, <2>1, <2>4, <2>6, <2>7 DEF NewInv, IsInjective
<1>7. CASE VisOthersEnd \/ VisClear
  <2>1. viewer' = viewer /\ newVisible' = newVisible
    BY <1>7 DEF VisOthersEnd, VisClear, visVars
  <2>2. pc["vis"] \in {"inner", "clear"} /\ pc'["vis"] # "inner" BY <1>7, VisMoves
  <2> QED BY <1>0, <2>1, <2>2 DEF NewInv, IsInjective
<1> QED BY <1>1, <1>2, <1>3, <1>4, <1>5, <1>6, <1>7, WatchedSteps

(* A list in place is one that was collected, or an empty one.             *)
LEMMA SoundStep ==
  ASSUME TypeOK, NewInv, ListsAreSound, [Next]_vars
  PROVE  ListsAreSound'
<1> DEFINE Sound(a, s) == IsInjective(s) /\ a \notin ToSet(s)
<1>0. \A a \in Addr : Sound(a, VisibleClients[a]) BY DEF ListsAreSound, IsVisible
<1>1. (\A a \in Addr : Sound(a, VisibleClients'[a])) => ListsAreSound'
  BY DEF ListsAreSound, IsVisible, ToSet, IsInjective
<1>2. \A a \in Addr : Sound(a, <<>>) BY DEF IsInjective, ToSet
<1>3. VisibleClients \in [Addr -> Seq(Addr)] BY DEF TypeOK
<1>4. CASE VisibleClients' = VisibleClients BY <1>0, <1>1, <1>4
<1>5. ASSUME NEW c, VisibleClients' = [VisibleClients EXCEPT ![c] = <<>>] PROVE ListsAreSound'
  <2>1. \A a \in Addr : VisibleClients'[a] = VisibleClients[a] \/ VisibleClients'[a] = <<>>
    BY <1>3, <1>5
  <2> HIDE DEF Sound
  <2>2. \A a \in Addr : Sound(a, VisibleClients'[a]) BY <1>0, <1>2, <2>1
  <2> QED BY <1>1, <2>2
<1>6. CASE VisAssign
  <2>1. VisibleClients' = [VisibleClients EXCEPT ![viewer] = newVisible] BY <1>6 DEF VisAssign
  <2>2. pc["vis"] = "assign" BY <1>6, VisMoves
  <2>3. Sound(viewer, newVisible) BY <2>2 DEF NewInv
  <2>4. \A a \in Addr : VisibleClients'[a] = IF a = viewer THEN newVisible ELSE VisibleClients[a]
    BY <1>3, <2>1
  <2> HIDE DEF Sound
  <2>5. \A a \in Addr : Sound(a, VisibleClients'[a]) BY <1>0, <2>3, <2>4
  <2> QED BY <1>1, <2>5
<1> HIDE DEF Sound
<1>7. ASSUME NEW a \in Addr, AddUser(a) \/ DisconnectClient(a) PROVE ListsAreSound'
  BY <1>4, <1>7, ListStepsFrame
<1>8. CASE UNCHANGED watched BY <1>4, <1>8 DEF watched
<1>9. CASE VisLock \/ VisWalk \/ VisOther \/ VisOthersEnd \/ VisUnlock
  BY <1>4, <1>9 DEF VisLock, VisWalk, VisOther, VisOthersEnd, VisUnlock, clientVars
<1>10. CASE DeleteClientSocket BY <1>5, <1>10 DEF DeleteClientSocket
<1>11. CASE VisClear BY <1>5, <1>11 DEF VisClear
<1> QED BY <1>6, <1>7, <1>8, <1>9, <1>10, <1>11, WatchedSteps

(* A client that was seen and that the loop has passed is kept or          *)
(* dismissed.                                                              *)
LEMMA WalkStep ==
  ASSUME TypeOK, ListInv, MutexInv, NewInv, ListsAreSound, WalkInv, [Next]_vars
  PROVE  WalkInv'
<1>t. /\ ClientList \in Seq(Addr) /\ newVisible \in Seq(Addr) /\ k \in Nat \ {0}
      /\ Len(ClientList) \in Nat /\ DOMAIN ClientList = 1..Len(ClientList)
  BY LenProperties DEF TypeOK
<1>1. CASE UNCHANGED watched BY <1>1 DEF WalkInv, watched, IsVisible, ToSet
<1>2. ASSUME NEW a \in Addr, AddUser(a) PROVE WalkInv'
  <2>1. /\ pc'["vis"] = pc["vis"] /\ viewer' = viewer /\ newVisible' = newVisible /\ k' = k
        /\ dismissed' = dismissed /\ VisibleClients' = VisibleClients
    BY <1>2, ListStepsFrame
  <2>2. shrunk' = shrunk /\ ClientList' = Append(ClientList, a) BY <1>2 DEF AddUser
  <2> SUFFICES ASSUME pc["vis"] = "inner", ~ shrunk
               PROVE  (/\ k <= Len(ClientList) + 1
                       /\ \A n \in 1..(k - 1) :
                             IsVisible(viewer, ClientList[n]) =>
                                 ClientList[n] \in ToSet(newVisible) \cup dismissed)'
    BY <2>1, <2>2 DEF WalkInv
  <2>3. /\ k <= Len(ClientList) + 1
        /\ \A n \in 1..(k - 1) : IsVisible(viewer, ClientList[n]) =>
                                    ClientList[n] \in ToSet(newVisible) \cup dismissed
    BY DEF WalkInv
  <2>4. /\ Len(ClientList') = Len(ClientList) + 1
        /\ \A n \in 1..Len(ClientList) : ClientList'[n] = ClientList[n]
    BY <1>t, <2>2, AppendProperties
  <2>5. k <= Len(ClientList') + 1 BY <1>t, <2>3, <2>4
  <2>6. ToSet(newVisible)' = ToSet(newVisible) BY <2>1 DEF ToSet
  <2>7. ASSUME NEW n \in 1..(k - 1), IsVisible(viewer, ClientList[n])'
        PROVE  ClientList'[n] \in ToSet(newVisible) \cup dismissed
    <3>1. ClientList'[n] = ClientList[n] BY <1>t, <2>3, <2>4
    <3>2. IsVisible(viewer, ClientList[n]) BY <2>1, <2>7, <3>1 DEF IsVisible, ToSet
    <3> QED BY <2>3, <3>1, <3>2
  <2> QED BY <2>1, <2>5, <2>6, <2>7
<1>3. ASSUME NEW a \in Addr, DisconnectClient(a) PROVE WalkInv'
  <2>1. pc'["vis"] = pc["vis"] BY <1>3, ListStepsFrame
  <2>2. shrunk' = (shrunk \/ pc["vis"] = "inner") BY <1>3 DEF DisconnectClient
  <2> QED BY <2>1, <2>2 DEF WalkInv
<1>4. CASE DeleteClientSocket BY <1>4, DeleteExcluded DEF WalkInv
<1>5. CASE VisLock \/ VisOthersEnd \/ VisClear \/ VisAssign \/ VisUnlock
  BY <1>5, VisMoves DEF WalkInv
<1>6. CASE VisWalk
  <2>1. k' = 1 /\ ClientList' = ClientList BY <1>6 DEF VisWalk, clientVars
  <2> QED BY <1>t, <2>1 DEF WalkInv
<1>7. CASE VisOther
  <2> DEFINE other == ClientList[k]
             d == distance(player[viewer].pos, player[other].pos)
  <2>1. /\ k \in DOMAIN ClientList /\ k' = k + 1 /\ viewer \in Addr
        /\ other \in Addr /\ other \notin ToSet(newVisible)
        /\ newVisible' = newVisible \/ newVisible' = Append(newVisible, other)
        /\ UNCHANGED <<ClientList, VisibleClients, viewer, shrunk>>
    BY <1>7, OtherStep
  <2>2. pc["vis"] = "inner" BY <1>7, VisMoves
  <2>3. d \in Int
    <3>1. player[viewer].pos \in Int /\ player[other].pos \in Int
      BY <2>1, RangeAssumption DEF TypeOK, Player
    <3> QED BY <3>1, DistanceType
  <2>4. /\ newVisible' = IF other # viewer /\ player[other].inGame /\ InRange(IsVisible(viewer, other), d)
                         THEN Append(newVisible, other) ELSE newVisible
        /\ dismissed' = IF ~ player[other].inGame \/ d >= MAXVISUALRANGE
                        THEN dismissed \cup {other} ELSE dismissed
    BY <1>7 DEF VisOther
  <2> HIDE DEF d, other
  <2>5. ToSet(Append(newVisible, other)) = ToSet(newVisible) \cup {other} BY <1>t, AppendedSet
  <2>6. ToSet(newVisible) \subseteq ToSet(newVisible') /\ dismissed \subseteq dismissed'
    BY <2>4, <2>5
  <2>7. IsVisible(viewer, other) => other \in ToSet(newVisible') \cup dismissed'
    <3> SUFFICES ASSUME IsVisible(viewer, other), player[other].inGame, ~ (d >= MAXVISUALRANGE)
                 PROVE  other \in ToSet(newVisible')
      BY <2>4
    <3>1. d < MAXVISUALRANGE BY <2>3, RangeAssumption
    <3>2. InRange(IsVisible(viewer, other), d) BY <3>1 DEF InRange
    <3>3. other # viewer BY <2>1 DEF ListsAreSound
    <3> QED BY <2>4, <2>5, <3>2, <3>3
  <2> SUFFICES ASSUME ~ shrunk
               PROVE  /\ k + 1 <= Len(ClientList) + 1
                      /\ \A n \in 1..k : IsVisible(viewer, ClientList[n]) =>
                                            ClientList[n] \in ToSet(newVisible') \cup dismissed'
    <3>1. (k + 1) - 1 = k BY <1>t
    <3> QED BY <2>1, <2>2, <3>1 DEF WalkInv, IsVisible, ToSet
  <2>8. \A n \in 1..(k - 1) : IsVisible(viewer, ClientList[n]) =>
                                 ClientList[n] \in ToSet(newVisible) \cup dismissed
    BY <2>2 DEF WalkInv
  <2>9. ASSUME NEW n \in 1..k, IsVisible(viewer, ClientList[n])
        PROVE  ClientList[n] \in ToSet(newVisible') \cup dismissed'
    <3>1. CASE n = k BY <2>7, <2>9, <3>1 DEF other
    <3>2. CASE n # k
      <4>1. n \in 1..(k - 1) BY <1>t, <3>2
      <4> QED BY <2>6, <2>8, <2>9, <4>1
    <3> QED BY <3>1, <3>2
  <2>10. k + 1 <= Len(ClientList) + 1 BY <1>t, <2>1
  <2> QED BY <2>9, <2>10
<1> QED BY <1>1, <1>2, <1>3, <1>4, <1>5, <1>6, <1>7, WatchedSteps

-----------------------------------------------------------------------------
(* The inductive invariant holds at start-up.                              *)
LEMMA InitInv == Init => IndInv
<1> SUFFICES ASSUME Init PROVE IndInv OBVIOUS
<1>e. <<>> \in Seq(Addr) /\ Len(<<>>) = 0 OBVIOUS
<1>p. NewPlayer \in Player BY RangeAssumption DEF NewPlayer, Player
<1>c. /\ pc \in [{"loop", "vis"} -> Label] /\ pc["loop"] = "idle" /\ pc["vis"] = "lock"
  BY DEF Init, Label
<1>1. TypeOK
  <2>1. /\ ClientList \in Seq(Addr) /\ heap \subseteq Addr /\ player \in [Addr -> Player]
        /\ VisibleClients \in [Addr -> Seq(Addr)] /\ VisibleNPCs \in [Addr -> SUBSET Npc]
    BY <1>e, <1>p DEF Init
  <2>2. /\ PlayerMutex \in {"loop", "vis", None} /\ client \in Addr \cup {None} /\ goal \in Place
        /\ to \in Addr \cup {None} /\ viewer \in Addr \cup {None}
    BY RangeAssumption DEF Init
  <2>3. /\ j \in Nat \ {0} /\ i \in Nat \ {0} /\ k \in Nat \ {0}
        /\ newVisible \in Seq(Addr) /\ dismissed \subseteq Addr
    BY <1>e DEF Init
  <2>4. shrunk \in BOOLEAN /\ process \in {"running", "aborted"} BY DEF Init
  <2> QED BY <1>c, <2>1, <2>2, <2>3, <2>4 DEF TypeOK
<1>2. ListInv BY <1>c DEF Init, ListInv, IsInjective, ToSet
<1>3. MutexInv /\ ClientInv BY <1>c, RangeAssumption DEF Init, MutexInv, ClientInv
<1>4. PendingAreLive /\ NewInv /\ WalkInv BY <1>c DEF PendingAreLive, NewInv, WalkInv
<1>5. ListsAreSound BY DEF Init, ListsAreSound, IsVisible, IsInjective, ToSet
<1> QED BY <1>1, <1>2, <1>3, <1>4, <1>5 DEF IndInv

(* The inductive invariant of the two threads.                             *)
THEOREM Invariance == Spec => []IndInv
<1>1. Init => IndInv BY InitInv
<1>2. IndInv /\ [Next]_vars => IndInv'
  BY TypeStep, ListStep, MutexStep, ClientStep, PendingStep, NewStep, SoundStep, WalkStep DEF IndInv
<1> QED BY <1>1, <1>2, PTL DEF Spec

(* The variables of the two threads keep their types.                      *)
THEOREM TypeCorrect == Spec => []TypeOK
<1>1. IndInv => TypeOK BY DEF IndInv
<1> QED BY <1>1, Invariance, PTL

(* VisiblityList collects clients that are alive until they are in place,  *)
(* although the server loop takes clients off ClientList without a lock.   *)
THEOREM PendingAreLiveHolds == Spec => []PendingAreLive
<1>1. IndInv => PendingAreLive BY DEF IndInv
<1> QED BY <1>1, Invariance, PTL

(* No player is on its own list, or twice on another's, although clients   *)
(* come and go during the walk that builds the list.                       *)
THEOREM ListsAreSoundHolds == Spec => []ListsAreSound
<1>1. IndInv => ListsAreSound BY DEF IndInv
<1> QED BY <1>1, Invariance, PTL

(* Without an erase during the walk, a client leaves a list only because   *)
(* it was found out of range or out of game.                               *)
THEOREM VanishesForCauseHolds == Spec => []VanishesForCause
<1>1. IndInv => VanishesForCause
  <2> SUFFICES ASSUME IndInv, pc["vis"] = "inner", k > Len(ClientList), ~ shrunk,
                      NEW b \in ToSet(VisibleClients[viewer]) \cap ToSet(ClientList)
               PROVE  b \in ToSet(newVisible) \cup dismissed
    BY DEF VanishesForCause
  <2>1. /\ k \in Nat \ {0} /\ Len(ClientList) \in Nat /\ DOMAIN ClientList = 1..Len(ClientList)
    BY LenProperties DEF IndInv, TypeOK
  <2>2. PICK n \in DOMAIN ClientList : b = ClientList[n] BY DEF ToSet
  <2>3. n \in 1..(k - 1) BY <2>1, <2>2
  <2> QED BY <2>2, <2>3 DEF IndInv, WalkInv, IsVisible
<1> QED BY <1>1, Invariance, PTL

-----------------------------------------------------------------------------
(* The refinement of ClientLifecycle.                                      *)

(* Only DisconnectClient and DeleteClientSocket change what is closing.    *)
LEMMA ClosingSteps ==
  ASSUME TypeOK, [Next]_vars
  PROVE  \/ Closing' = Closing
         \/ \E a \in Addr : DisconnectClient(a)
         \/ DeleteClientSocket
<1> DEFINE Away(l) == l \notin {"lockPlayer", "delete"}
<1>1. CASE UNCHANGED vars \/ Finished
  BY <1>1 DEF Finished, vars, loopVars, Closing
<1>2. ASSUME Away(pc["loop"]), Away(pc'["loop"]) PROVE Closing' = Closing
  BY <1>2 DEF Closing
<1>3. ASSUME NEW a \in Addr, Receive(a), ~ DisconnectClient(a) PROVE Closing' = Closing
  <2>1. PICK l \in {"idle", "size"} : Goto("loop", "idle", l)
    BY <1>3 DEF Receive, AddUser, CheckLogin, SendToWorld, BeginSend, ObjectMove,
                SendChat, PlayerAttack, pakGMTele, pakGMSpawn, pakGMItem, packetCommand
  <2>2. pc["loop"] = "idle" /\ pc'["loop"] = l BY <2>1, GotoMoves
  <2> QED BY <1>2, <2>2
<1>4. CASE SendSize \/ SendAt \/ SendPacket
  <2>1. PICK l1, l2 \in {"idle", "size", "at", "deliver"} :
           \/ Goto("loop", l1, l2)
           \/ pc' = pc /\ pc["loop"] \in {"at", "deliver"}
    BY <1>4 DEF SendSize, SendAt, SendPacket
  <2>2. CASE pc' = pc /\ pc["loop"] \in {"at", "deliver"} BY <1>2, <2>2
  <2>3. CASE Goto("loop", l1, l2)
    <3>1. pc["loop"] = l1 /\ pc'["loop"] = l2 BY <2>3, GotoMoves
    <3> QED BY <1>2, <3>1
  <2> QED BY <2>1, <2>2, <2>3
<1>5. CASE LoopLockPlayer
  <2>1. pc["loop"] = "lockPlayer" /\ pc'["loop"] = "delete" BY <1>5, GotoMoves DEF LoopLockPlayer
  <2>2. client' = client BY <1>5 DEF LoopLockPlayer, loopVars
  <2> QED BY <2>1, <2>2 DEF Closing
<1>6. CASE VisibilityProcess
  <2>1. client' = client
    BY <1>6 DEF VisibilityProcess, VisLock, VisWalk, VisSkip, VisOther, VisOthersEnd, VisClear, VisAssign,
                VisUnlock, loopVars
  <2>2. pc'["loop"] = pc["loop"]
    BY <1>6, GotoMoves DEF VisibilityProcess, VisLock, VisWalk, VisSkip, VisOther, VisOthersEnd, VisClear,
                VisAssign, VisUnlock
  <2> QED BY <2>1, <2>2 DEF Closing
<1> QED BY <1>1, <1>3, <1>4, <1>5, <1>6 DEF Next, ServerLoop

(* A visibility step leaves the list, the heap and the closing client.     *)
LEMMA VisLeavesLoop ==
  ASSUME TypeOK, VisLock \/ VisWalk \/ VisOther \/ VisOthersEnd \/ VisClear \/ VisAssign \/ VisUnlock
  PROVE  UNCHANGED <<ClientList, heap>> /\ Closing' = Closing
<1>1. UNCHANGED <<ClientList, heap, client>>
  BY DEF VisLock, VisWalk, VisOther, VisOthersEnd, VisClear, VisAssign, VisUnlock, clientVars, loopVars
<1>2. pc'["loop"] = pc["loop"]
  BY GotoMoves DEF VisLock, VisWalk, VisOther, VisOthersEnd, VisClear, VisAssign, VisUnlock
<1> QED BY <1>1, <1>2 DEF Closing

(* Every step is a step of ClientLifecycle or is not seen there.           *)
LEMMA LifecycleStep ==
  ASSUME IndInv, [Next]_vars
  PROVE  Lifecycle!Next \/ UNCHANGED Lifecycle!vars
<1>0. TypeOK /\ ListInv /\ MutexInv /\ ClientInv /\ NewInv BY DEF IndInv
<1>t. /\ ClientList \in Seq(Addr) /\ newVisible \in Seq(Addr) /\ heap \subseteq Addr
      /\ i \in Nat \ {0} /\ IsInjective(ClientList)
  BY <1>0 DEF TypeOK, ListInv
<1>s. ToSet(ClientList)' = ToSet(ClientList') /\ ToSet(newVisible)' = ToSet(newVisible')
  BY DEF ToSet
<1>1. CASE UNCHANGED watched /\ Closing' = Closing
  <2>1. ClientList' = ClientList /\ heap' = heap /\ pc'["vis"] = pc["vis"]
        /\ viewer' = viewer /\ newVisible' = newVisible
    BY <1>1 DEF watched
  <2>2. InUse' = InUse BY <1>s, <2>1 DEF InUse
  <2> QED BY <1>1, <1>s, <2>1, <2>2 DEF Lifecycle!vars
<1>2. ASSUME NEW a \in Addr, AddUser(a) PROVE Lifecycle!Connect(a)
  <2>1. a \notin heap /\ heap' = heap \cup {a} /\ ClientList' = Append(ClientList, a)
    BY <1>2 DEF AddUser
  <2>2. pc["loop"] = "idle" /\ pc'["loop"] = "idle" BY <1>0, <1>2, GotoMoves DEF AddUser
  <2>3. ToSet(ClientList') = ToSet(ClientList) \cup {a} BY <1>t, <2>1, AppendedSet
  <2>4. pc'["vis"] = pc["vis"] /\ viewer' = viewer /\ newVisible' = newVisible
    BY <1>0, <1>2, ListStepsFrame
  <2>5. InUse' = InUse /\ Closing' = Closing BY <1>s, <2>2, <2>4 DEF InUse, Closing
  <2> QED BY <1>s, <2>1, <2>3, <2>5 DEF Lifecycle!Connect
<1>3. ASSUME NEW a \in Addr, DisconnectClient(a) PROVE Lifecycle!Disconnect(a)
  <2>1. /\ a \in ToSet(ClientList) /\ client' = a /\ heap' = heap
        /\ \E n \in DOMAIN ClientList : ClientList[n] = a /\ ClientList' = RemoveAt(ClientList, n)
    BY <1>3 DEF DisconnectClient, Listed
  <2>2. pc["loop"] = "idle" /\ pc'["loop"] = "lockPlayer" BY <1>0, <1>3, GotoMoves DEF DisconnectClient
  <2>3. ToSet(ClientList') = ToSet(ClientList) \ {a} BY <1>t, <2>1, EraseFromInjective
  <2>4. pc'["vis"] = pc["vis"] /\ viewer' = viewer /\ newVisible' = newVisible
    BY <1>0, <1>3, ListStepsFrame
  <2>5. InUse' = InUse BY <1>s, <2>4 DEF InUse
  <2>6. Closing = {} /\ Closing' = {a} BY <2>1, <2>2 DEF Closing
  <2> QED BY <1>s, <2>1, <2>3, <2>5, <2>6 DEF Lifecycle!Disconnect
<1>4. CASE DeleteClientSocket
  <2>1. heap' = heap \ {client} /\ ClientList' = ClientList BY <1>4 DEF DeleteClientSocket
  <2>2. pc["loop"] = "delete" /\ pc'["loop"] = "idle" BY <1>0, <1>4, GotoMoves DEF DeleteClientSocket
  <2>3. client \in Addr BY <1>0, <2>2 DEF ClientInv
  <2>4. InUse = {} /\ InUse' = {} BY <1>0, <1>4, DeleteExcluded DEF InUse
  <2>5. Closing = {client} /\ Closing' = {} BY <2>2 DEF Closing
  <2>6. Lifecycle!Delete(client) BY <1>s, <2>1, <2>4, <2>5 DEF Lifecycle!Delete
  <2> QED BY <2>3, <2>6 DEF Lifecycle!Next
<1>5. CASE VisWalk
  <2>1. i <= Len(ClientList) /\ viewer' = ClientList[i] /\ newVisible' = <<>> BY <1>5 DEF VisWalk
  <2>2. ClientList[i] \in Addr /\ ClientList[i] \in ToSet(ClientList) BY <1>t, <2>1, ElementType
  <2>3. ToSet(newVisible') = {} BY <2>1 DEF ToSet
  <2>4. pc["vis"] = "walk" /\ pc'["vis"] = "inner" BY <1>0, <1>5, VisMoves
  <2>5. InUse' = InUse \cup {ClientList[i]} BY <1>s, <2>1, <2>3, <2>4 DEF InUse
  <2>6. UNCHANGED <<ClientList, heap>> /\ Closing' = Closing BY <1>0, <1>5, VisLeavesLoop
  <2>7. Lifecycle!Load(ClientList[i]) BY <1>s, <2>2, <2>5, <2>6 DEF Lifecycle!Load
  <2> QED BY <2>2, <2>7 DEF Lifecycle!Next
<1>6. CASE VisOther
  <2>1. /\ ClientList[k] \in Addr /\ ClientList[k] \in ToSet(ClientList) /\ viewer' = viewer
        /\ newVisible' = newVisible \/ newVisible' = Append(newVisible, ClientList[k])
    BY <1>0, <1>6, OtherStep DEF ToSet
  <2>2. pc["vis"] = "inner" /\ pc'["vis"] = "inner" BY <1>0, <1>6, VisMoves
  <2>3. UNCHANGED <<ClientList, heap>> /\ Closing' = Closing BY <1>0, <1>6, VisLeavesLoop
  <2>4. CASE newVisible' = newVisible
    <3>1. InUse' = InUse BY <1>s, <2>1, <2>2, <2>4 DEF InUse
    <3> QED BY <1>s, <2>3, <3>1 DEF Lifecycle!vars
  <2>5. CASE newVisible' = Append(newVisible, ClientList[k])
    <3>1. ToSet(newVisible') = ToSet(newVisible) \cup {ClientList[k]} BY <1>t, <2>5, AppendedSet
    <3>2. InUse' = InUse \cup {ClientList[k]} BY <1>s, <2>1, <2>2, <3>1 DEF InUse
    <3>3. Lifecycle!Load(ClientList[k]) BY <1>s, <2>1, <2>3, <3>2 DEF Lifecycle!Load
    <3> QED BY <2>1, <3>3 DEF Lifecycle!Next
  <2> QED BY <2>1, <2>4, <2>5
<1>7. CASE VisLock \/ VisOthersEnd \/ VisClear \/ VisAssign \/ VisUnlock
  <2>1. UNCHANGED <<ClientList, heap>> /\ Closing' = Closing BY <1>0, <1>7, VisLeavesLoop
  <2>2. \/ pc'["vis"] \notin {"inner", "clear", "assign"}
        \/ /\ pc["vis"] \in {"inner", "clear"} /\ pc'["vis"] \in {"clear", "assign"}
           /\ viewer' = viewer /\ newVisible' = newVisible
    <3>1. VisOthersEnd \/ VisClear => viewer' = viewer /\ newVisible' = newVisible
      BY DEF VisOthersEnd, VisClear, visVars
    <3> QED BY <1>0, <1>7, <3>1, VisMoves
  <2>3. InUse' \subseteq InUse BY <1>s, <2>2 DEF InUse
  <2>4. Lifecycle!Release BY <1>s, <2>1, <2>3 DEF Lifecycle!Release
  <2> QED BY <2>4 DEF Lifecycle!Next
<1>8. CASE UNCHANGED watched /\ Closing' # Closing
  <2>1. ASSUME NEW a \in Addr, DisconnectClient(a) PROVE Lifecycle!Next
    BY <1>3, <2>1 DEF Lifecycle!Next
  <2> QED BY <1>0, <1>4, <1>8, <2>1, ClosingSteps
<1>9. ASSUME NEW a \in Addr, AddUser(a) \/ DisconnectClient(a) PROVE Lifecycle!Next
  BY <1>2, <1>3, <1>9 DEF Lifecycle!Next
<1> QED BY <1>0, <1>1, <1>4, <1>5, <1>6, <1>7, <1>8, <1>9, WatchedSteps

(* The loop and VisiblityList implement ClientLifecycle: no client is      *)
(* deleted while it is the viewer or on the list being collected.          *)
THEOREM LifecycleRefinement == Spec => LifecycleSpec
<1>1. Init => Lifecycle!Init
  <2> SUFFICES ASSUME Init PROVE Lifecycle!Init OBVIOUS
  <2>1. pc["loop"] = "idle" /\ pc["vis"] = "lock" BY DEF Init
  <2>2. ToSet(ClientList) = {} /\ heap = {} BY DEF Init, ToSet
  <2> QED BY <2>1, <2>2 DEF Closing, InUse, Lifecycle!Init
<1>2. IndInv /\ [Next]_vars => [Lifecycle!Next]_(Lifecycle!vars)
  BY LifecycleStep
<1> QED BY Invariance, <1>1, <1>2, PTL DEF Spec, LifecycleSpec, Lifecycle!Spec
=============================================================================
