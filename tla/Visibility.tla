----------------------------- MODULE Visibility ------------------------------
(***************************************************************************)
(* Who sees whom.  The visibility thread gives every player, round after   *)
(* round, the list of the clients and NPCs near it; the server loop, which *)
(* connects, moves and deletes clients meanwhile, sends chat, attacks,     *)
(* moves and GM effects to the clients on the sender's list.  The list     *)
(* holds pointers: `delete` does not remove them, and a later `new` may    *)
(* return the same address.                                                *)
(*                                                                         *)
(* Between the test of size() and at() of ClientList nothing happens here: *)
(* ServerThreads models that race.  DropMutex, MonsterMutex and MainMutex  *)
(* are left out: the server loop takes none of them.                       *)
(***************************************************************************)
EXTENDS Integers, SequencesExt

CONSTANTS
    Addr,           \* heap addresses a CConnClient may be allocated at
    None,           \* no pointer, no owner
    Place,          \* positions, on a line
    Npc, NpcPlace,  \* the NPCs of NPCList and where each stands
    MINVISUALRANGE, MAXVISUALRANGE      \* 30 and 50 in the code

ASSUME RangeAssumption ==
    /\ None \notin Addr /\ None \notin {"loop", "vis"}
    /\ Place \subseteq Int /\ 0 \in Place
    /\ NpcPlace \in [Npc -> Place]
    /\ MINVISUALRANGE \in Nat /\ MAXVISUALRANGE \in Nat
    /\ MINVISUALRANGE <= MAXVISUALRANGE

VARIABLES
    ClientList,     \* vector<CClientSocket*>
    heap,           \* addresses currently allocated
    player,         \* what each client object holds: flags and position
    VisibleClients, \* of each client object: vector<CConnClient*>
    VisibleNPCs,    \* of each client object
    PlayerMutex,    \* its owner
    pc,             \* where the two threads are
    client,         \* server loop: the client being handled
    goal,           \* server loop: the position ObjectMove sets after its send
    j,              \* server loop: index into the sender's VisibleClients (1-based)
    to,             \* server loop: the client SendToVisible is sending to
    i, k,           \* visibility thread: indices of the outer and the inner loop
    viewer,         \* visibility thread: thisclient
    newVisible,     \* visibility thread: newVisibleClients
    dismissed,      \* history: clients this VisiblityList found out of game or of range
    shrunk,         \* history: a client was erased during this VisiblityList
    process         \* "running" or "aborted"

clientVars == <<ClientList, heap, player, VisibleClients, VisibleNPCs>>
loopVars   == <<client, goal, j, to>>
visVars    == <<i, k, viewer, newVisible, dismissed>>
vars       == <<clientVars, PlayerMutex, pc, loopVars, visVars, shrunk, process>>

(* CConnClient(): not in game, at (0,0), empty lists.                      *)
NewPlayer == [isLoggedIn |-> FALSE, inGame |-> FALSE, pos |-> 0]

Init ==
    /\ ClientList = <<>>
    /\ heap = {}
    /\ player = [a \in Addr |-> NewPlayer]
    /\ VisibleClients = [a \in Addr |-> <<>>]
    /\ VisibleNPCs = [a \in Addr |-> {}]
    /\ PlayerMutex = None
    /\ pc = [t \in {"loop", "vis"} |-> IF t = "loop" THEN "idle" ELSE "lock"]
    /\ client = None /\ goal = 0 /\ j = 1 /\ to = None
    /\ i = 1 /\ k = 1 /\ viewer = None /\ newVisible = <<>>
    /\ dismissed = {} /\ shrunk = FALSE
    /\ process = "running"

Goto(t, l1, l2) ==
    /\ process = "running"
    /\ pc[t] = l1
    /\ pc' = [pc EXCEPT ![t] = l2]

-----------------------------------------------------------------------------
(* The server loop: connections and logins.                                *)

AddUser(a) ==
    /\ Goto("loop", "idle", "idle")
    /\ a \notin heap
    /\ heap' = heap \cup {a}
    /\ ClientList' = Append(ClientList, a)
    /\ player' = [player EXCEPT ![a] = NewPlayer]
    /\ UNCHANGED <<VisibleClients, VisibleNPCs, PlayerMutex, loopVars, visVars, shrunk, process>>

Listed(a) == a \in ToSet(ClientList)

(* An accepted CheckLogin; the one that creates the account leaves         *)
(* isLoggedIn alone.                                                       *)
CheckLogin(a) ==
    /\ Goto("loop", "idle", "idle")
    /\ Listed(a)
    /\ \E accepted \in BOOLEAN : player' = [player EXCEPT ![a].isLoggedIn = @ \/ accepted]
    /\ UNCHANGED <<ClientList, heap, VisibleClients, VisibleNPCs, PlayerMutex, loopVars, visVars,
                   shrunk, process>>

(* SendToWorld, once or again with another character: the position is the  *)
(* table's; inGame and ready are set, isLoggedIn only if the load is       *)
(* complete.                                                               *)
SendToWorld(a, p) ==
    /\ Goto("loop", "idle", "idle")
    /\ Listed(a)
    /\ \E loaded \in BOOLEAN :
          player' = [player EXCEPT ![a].inGame = TRUE, ![a].pos = p,
                                   ![a].isLoggedIn = @ \/ loaded]
    /\ UNCHANGED <<ClientList, heap, VisibleClients, VisibleNPCs, PlayerMutex, loopVars, visVars,
                   shrunk, process>>

-----------------------------------------------------------------------------
(* The server loop: SendToVisible, called with nothing locked.             *)

(* A handler of client a's packet begins to send to its VisibleClients;    *)
(* afterwards a stands at p.                                               *)
BeginSend(a, p) ==
    /\ Goto("loop", "idle", "size")
    /\ Listed(a)
    /\ client' = a /\ goal' = p
    /\ UNCHANGED <<clientVars, PlayerMutex, j, to, visVars, shrunk, process>>

ObjectMove(a, p) == BeginSend(a, p)
SendChat(a) == BeginSend(a, player[a].pos)
PlayerAttack(a) == BeginSend(a, player[a].pos)

(* The GM commands of packetCommand: refused below access level 90, which  *)
(* is the account's and not kept here.  telexy also has an opcode of its   *)
(* own; the position the server holds does not change.                     *)
pakGMTele(a) == BeginSend(a, player[a].pos)
pakGMSpawn(a) == BeginSend(a, player[a].pos)
pakGMItem(a) == BeginSend(a, player[a].pos)

(* /notice goes to every client in game, and /time, /srv, a command that   *)
(* is refused or badly written to the sender at most: SendToAll walks      *)
(* ClientList, which only this thread changes.                             *)
packetCommand(a) ==
    /\ Goto("loop", "idle", "idle")
    /\ Listed(a)
    /\ UNCHANGED <<clientVars, PlayerMutex, loopVars, visVars, shrunk, process>>

(* j < thisclient->VisibleClients.size(), or the end of the handler.       *)
SendSize_zero ==
    \/ /\ Goto("loop", "size", "at")
       /\ j <= Len(VisibleClients[client])
       /\ UNCHANGED <<clientVars, PlayerMutex, loopVars, visVars, shrunk, process>>
    \/ /\ Goto("loop", "size", "idle")
       /\ j > Len(VisibleClients[client])
       /\ player' = [player EXCEPT ![client].pos = goal]
       /\ client' = None /\ goal' = 0 /\ j' = 0
       /\ UNCHANGED <<ClientList, heap, VisibleClients, VisibleNPCs, PlayerMutex, to, visVars,
                      shrunk, process>>
SendSize ==
    \/ /\ Goto("loop", "size", "at")
       /\ j <= Len(VisibleClients[client])
       /\ UNCHANGED <<clientVars, PlayerMutex, loopVars, visVars, shrunk, process>>
    \/ /\ Goto("loop", "size", "idle")
       /\ j > Len(VisibleClients[client])
       /\ player' = [player EXCEPT ![client].pos = goal]
       /\ client' = None /\ goal' = 0 /\ j' = 1
       /\ UNCHANGED <<ClientList, heap, VisibleClients, VisibleNPCs, PlayerMutex, to, visVars,
                      shrunk, process>>

(* VisibleClients.at(j): the visibility thread may have cleared the vector *)
(* since size(), and at() throws.                                          *)
SendAt ==
    \/ /\ Goto("loop", "at", "deliver")
       /\ j <= Len(VisibleClients[client])
       /\ to' = VisibleClients[client][j]
       /\ UNCHANGED <<clientVars, PlayerMutex, client, goal, j, visVars, shrunk, process>>
    \/ /\ process = "running" /\ pc["loop"] = "at"
       /\ j > Len(VisibleClients[client])
       /\ process' = "aborted"
       /\ UNCHANGED <<clientVars, PlayerMutex, pc, loopVars, visVars, shrunk>>

(* otherclient->SendPacket.  On a freed object: a crash, or a send to      *)
(* whatever socket number the memory holds.                                *)
SendPacket ==
    \/ /\ Goto("loop", "deliver", "size")
       /\ to' = None /\ j' = j + 1
       /\ UNCHANGED <<clientVars, PlayerMutex, client, goal, visVars, shrunk, process>>
    \/ /\ process = "running" /\ pc["loop"] = "deliver"
       /\ to \notin heap
       /\ process' = "aborted"
       /\ UNCHANGED <<clientVars, PlayerMutex, pc, loopVars, visVars, shrunk>>

-----------------------------------------------------------------------------
(* The server loop: DisconnectClient and DeleteClientSocket.               *)

DisconnectClient(a) ==
    /\ Goto("loop", "idle", "lockPlayer")
    /\ Listed(a)
    /\ client' = a
    /\ \E n \in DOMAIN ClientList :
          ClientList[n] = a /\ ClientList' = RemoveAt(ClientList, n)
    /\ shrunk' = (shrunk \/ pc["vis"] = "inner")
    /\ UNCHANGED <<heap, player, VisibleClients, VisibleNPCs, PlayerMutex, goal, j, to, visVars,
                   process>>

LoopLockPlayer_none ==
    /\ Goto("loop", "lockPlayer", "delete")
    /\ UNCHANGED <<clientVars, PlayerMutex, loopVars, visVars, shrunk, process>>
LoopLockPlayer ==
    /\ Goto("loop", "lockPlayer", "delete")
    /\ PlayerMutex = None
    /\ PlayerMutex' = "loop"
    /\ UNCHANGED <<clientVars, loopVars, visVars, shrunk, process>>

(* delete destroys the object's own lists; the lists of the others keep    *)
(* its address.                                                            *)
DeleteClientSocket ==
    /\ Goto("loop", "delete", "idle")
    /\ heap' = heap \ {client}
    /\ player' = [player EXCEPT ![client] = NewPlayer]
    /\ VisibleClients' = [VisibleClients EXCEPT ![client] = <<>>]
    /\ VisibleNPCs' = [VisibleNPCs EXCEPT ![client] = {}]
    /\ PlayerMutex' = None
    /\ client' = None
    /\ UNCHANGED <<ClientList, goal, j, to, visVars, shrunk, process>>

ServerLoop ==
    \/ SendSize \/ SendAt \/ SendPacket
    \/ LoopLockPlayer \/ DeleteClientSocket

(* What connections and packets make the loop begin.                       *)
Receive(a) ==
    \/ AddUser(a) \/ CheckLogin(a) \/ DisconnectClient(a)
    \/ \E p \in Place : SendToWorld(a, p) \/ ObjectMove(a, p)
    \/ SendChat(a) \/ PlayerAttack(a)
    \/ pakGMTele(a) \/ pakGMSpawn(a) \/ pakGMItem(a) \/ packetCommand(a)

-----------------------------------------------------------------------------
(* The visibility thread.                                                  *)

distance(p, q) == IF p < q THEN q - p ELSE p - q

(* An object already seen is kept up to MAXVISUALRANGE, a new one taken in *)
(* from MINVISUALRANGE.  No client is ever in invisible mode.              *)
InRange_noHysteresis(visible, d) == d < MINVISUALRANGE
InRange(visible, d) == d < IF visible THEN MAXVISUALRANGE ELSE MINVISUALRANGE

VisLock ==
    /\ Goto("vis", "lock", "walk")
    /\ PlayerMutex = None
    /\ PlayerMutex' = "vis"
    /\ UNCHANGED <<clientVars, loopVars, visVars, shrunk, process>>

(* The clients in game and logged in get their VisiblityList, the others   *)
(* wait.                                                                   *)
VisWalk_from1 ==
    /\ Goto("vis", "walk", "inner")
    /\ i <= Len(ClientList)
    /\ player[ClientList[i]].inGame /\ player[ClientList[i]].isLoggedIn
    /\ viewer' = ClientList[i]
    /\ k' = 2 /\ newVisible' = <<>> /\ dismissed' = {} /\ shrunk' = FALSE
    /\ UNCHANGED <<clientVars, PlayerMutex, loopVars, i, process>>
VisWalk_alone ==
    \/ /\ Goto("vis", "walk", "inner")
       /\ i <= Len(ClientList) /\ Len(ClientList) > 1
       /\ player[ClientList[i]].inGame /\ player[ClientList[i]].isLoggedIn
       /\ viewer' = ClientList[i]
       /\ k' = 1 /\ newVisible' = <<>> /\ dismissed' = {} /\ shrunk' = FALSE
       /\ UNCHANGED <<clientVars, PlayerMutex, loopVars, i, process>>
    \/ /\ Goto("vis", "walk", "walk")
       /\ i = 1 /\ Len(ClientList) = 1
       /\ i' = 2
       /\ UNCHANGED <<clientVars, PlayerMutex, loopVars, k, viewer, newVisible, dismissed, shrunk,
                      process>>
VisWalk ==
    /\ Goto("vis", "walk", "inner")
    /\ i <= Len(ClientList)
    /\ player[ClientList[i]].inGame /\ player[ClientList[i]].isLoggedIn
    /\ viewer' = ClientList[i]
    /\ k' = 1 /\ newVisible' = <<>> /\ dismissed' = {} /\ shrunk' = FALSE
    /\ UNCHANGED <<clientVars, PlayerMutex, loopVars, i, process>>

VisSkip ==
    /\ Goto("vis", "walk", "walk")
    /\ i <= Len(ClientList)
    /\ ~ (player[ClientList[i]].inGame /\ player[ClientList[i]].isLoggedIn)
    /\ i' = i + 1
    /\ UNCHANGED <<clientVars, PlayerMutex, loopVars, k, viewer, newVisible, dismissed, shrunk,
                   process>>

(* IsVisible                                                               *)
IsVisible(a, b) == b \in ToSet(VisibleClients[a])

(* One otherclient of VisiblityList: kept, taken in with a SpawnChar, or   *)
(* passed over (ClearObject sends nothing).                                *)
VisOther_self ==
    /\ Goto("vis", "inner", "inner")
    /\ k <= Len(ClientList)
    /\ LET other == ClientList[k]
           d == distance(player[viewer].pos, player[other].pos)
       IN  /\ newVisible' = IF player[other].inGame
                                  /\ InRange(IsVisible(viewer, other), d)
                            THEN Append(newVisible, other) ELSE newVisible
           /\ dismissed' = IF ~ player[other].inGame \/ d >= MAXVISUALRANGE
                           THEN dismissed \cup {other} ELSE dismissed
    /\ k' = k + 1
    /\ UNCHANGED <<clientVars, PlayerMutex, loopVars, i, viewer, shrunk, process>>
VisOther ==
    /\ Goto("vis", "inner", "inner")
    /\ k <= Len(ClientList)
    /\ LET other == ClientList[k]
           d == distance(player[viewer].pos, player[other].pos)
       IN  /\ newVisible' = IF other # viewer /\ player[other].inGame
                                  /\ InRange(IsVisible(viewer, other), d)
                            THEN Append(newVisible, other) ELSE newVisible
           /\ dismissed' = IF ~ player[other].inGame \/ d >= MAXVISUALRANGE
                           THEN dismissed \cup {other} ELSE dismissed
    /\ k' = k + 1
    /\ UNCHANGED <<clientVars, PlayerMutex, loopVars, i, viewer, shrunk, process>>

VisOthersEnd ==
    /\ Goto("vis", "inner", "clear")
    /\ k > Len(ClientList)
    /\ k' = 1
    /\ UNCHANGED <<clientVars, PlayerMutex, loopVars, i, viewer, newVisible, dismissed, shrunk,
                   process>>

(* The NPCs, which do not move and are in no other thread's hands, then    *)
(* VisibleClients.clear().                                                 *)
VisClear ==
    /\ Goto("vis", "clear", "assign")
    /\ VisibleNPCs' = [VisibleNPCs EXCEPT ![viewer] =
           {n \in Npc : InRange(n \in @, distance(player[viewer].pos, NpcPlace[n]))}]
    /\ VisibleClients' = [VisibleClients EXCEPT ![viewer] = <<>>]
    /\ UNCHANGED <<ClientList, heap, player, PlayerMutex, loopVars, visVars, shrunk, process>>

(* VisibleClients = newVisibleClients, and on to the next client.          *)
VisAssign ==
    /\ Goto("vis", "assign", "walk")
    /\ VisibleClients' = [VisibleClients EXCEPT ![viewer] = newVisible]
    /\ i' = i + 1 /\ viewer' = None /\ newVisible' = <<>> /\ dismissed' = {} /\ shrunk' = FALSE
    /\ UNCHANGED <<ClientList, heap, player, VisibleNPCs, PlayerMutex, loopVars, k, process>>

VisUnlock ==
    /\ Goto("vis", "walk", "lock")
    /\ i > Len(ClientList)
    /\ i' = 1
    /\ PlayerMutex' = None
    /\ UNCHANGED <<clientVars, loopVars, k, viewer, newVisible, dismissed, shrunk, process>>

VisibilityProcess ==
    \/ VisLock \/ VisWalk \/ VisSkip \/ VisOther \/ VisOthersEnd
    \/ VisClear \/ VisAssign \/ VisUnlock

-----------------------------------------------------------------------------
Finished == process # "running" /\ UNCHANGED vars

Next ==
    \/ \E a \in Addr : Receive(a)
    \/ ServerLoop
    \/ VisibilityProcess
    \/ Finished

Spec == Init /\ [][Next]_vars

(* Both threads run; the visibility thread sleeps between its rounds and   *)
(* the loop keeps PlayerMutex only for a delete, so each gets it.  Nothing *)
(* is assumed about what clients send.  Sends are assumed to return: one   *)
(* that is held up by a client that does not read is blocked in            *)
(* ServerThreads, and nobody comes to see anybody until it returns.        *)
FairSpec ==
    /\ Spec
    /\ WF_vars(VisibilityProcess) /\ SF_vars(VisLock)
    /\ WF_vars(ServerLoop) /\ SF_vars(LoopLockPlayer)

-----------------------------------------------------------------------------
Label == {"idle", "size", "at", "deliver", "lockPlayer", "delete",
          "lock", "walk", "inner", "clear", "assign"}
Player == [isLoggedIn : BOOLEAN, inGame : BOOLEAN, pos : Place]

(* Every variable has its type.                                            *)
TypeOK ==
    /\ ClientList \in Seq(Addr)
    /\ heap \subseteq Addr
    /\ player \in [Addr -> Player]
    /\ VisibleClients \in [Addr -> Seq(Addr)]
    /\ VisibleNPCs \in [Addr -> SUBSET Npc]
    /\ PlayerMutex \in {"loop", "vis", None}
    /\ pc \in [{"loop", "vis"} -> Label]
    /\ client \in Addr \cup {None} /\ goal \in Place
    /\ j \in Nat \ {0} /\ to \in Addr \cup {None}
    /\ i \in Nat \ {0} /\ k \in Nat \ {0} /\ viewer \in Addr \cup {None}
    /\ newVisible \in Seq(Addr) /\ dismissed \subseteq Addr
    /\ shrunk \in BOOLEAN
    /\ process \in {"running", "aborted"}

(* The client the loop has erased and not deleted yet, and the clients     *)
(* VisiblityList is holding.                                               *)
Closing == IF pc["loop"] \in {"lockPlayer", "delete"} THEN {client} ELSE {}
InUse == IF pc["vis"] \in {"inner", "clear", "assign"}
         THEN {viewer} \cup ToSet(newVisible) ELSE {}

(* With the lists of VisiblityList the clients still live as               *)
(* ClientLifecycle says: what the walk has collected is in use, from the   *)
(* look at ClientList to the assignment of the list, and is not deleted    *)
(* before, although connections come and go meanwhile.                     *)
Lifecycle == INSTANCE ClientLifecycle WITH
    Addr      <- Addr,
    listed    <- ToSet(ClientList),
    allocated <- heap,
    closing   <- Closing,
    pinned    <- InUse
LifecycleSpec == Lifecycle!Spec

(* A client on a player's list leaves it for a cause: it was found out of  *)
(* MAXVISUALRANGE, or no longer the player it was.  Only a round in which  *)
(* some client was erased, so that the walk passed one over, may lose      *)
(* others.                                                                 *)
VanishesForCause ==
    pc["vis"] = "inner" /\ k > Len(ClientList) /\ ~ shrunk =>
        \A b \in ToSet(VisibleClients[viewer]) \cap ToSet(ClientList) :
            b \in ToSet(newVisible) \cup dismissed

(* A player in game is on its own list never, and on another's once.       *)
ListsAreSound ==
    \A a \in Addr : IsInjective(VisibleClients[a]) /\ ~ IsVisible(a, a)

Playing(a) == Listed(a) /\ player[a].inGame /\ player[a].isLoggedIn

Near(a, p) == distance(player[a].pos, p) < MINVISUALRANGE

(* a comes to see b if the two stay close to each other.                   *)
ComesToSee(a, b) ==
    LET Close == Playing(a) /\ Playing(b) /\ Near(a, player[b].pos)
    IN  Close ~> (IsVisible(a, b) \/ ~ Close \/ process # "running")

(* A player who stays close to an NPC sees it, although clients that leave *)
(* make the rounds of VisibilityProcess pass the player over.              *)
NpcsSeen ==
    \A a \in Addr, n \in Npc :
        LET Close == Playing(a) /\ Near(a, NpcPlace[n])
        IN  Close ~> (n \in VisibleNPCs[a] \/ ~ Close \/ process # "running")

(* The address of a deleted client does not stay on a player's list.       *)
DanglingCleared ==
    \A a, b \in Addr :
        (Playing(a) /\ IsVisible(a, b) /\ b \notin heap) ~>
            (~ IsVisible(a, b) \/ b \in heap \/ ~ Playing(a) \/ process # "running")
=============================================================================
