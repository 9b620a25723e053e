--------------------------- MODULE ServerThreads ---------------------------
(***************************************************************************)
(* The threads of the game server and the client list they share.          *)
(*                                                                         *)
(*   loop      CServerSocket::ServerLoop, run by main                      *)
(*   map       MapProcess          vis    VisibilityProcess                *)
(*   world     WorldProcess        shutdown   ShutdownServer, on SIGTERM   *)
(*                                                                         *)
(* A client object lives at a heap address; `delete` gives the address     *)
(* back and a later `new` may return it again.  A step reads or writes one *)
(* shared location; consecutive unlocks of a thread are one step.  The     *)
(* test of size() and the call of at() are two steps, because the loop     *)
(* erases and appends without a lock: at() may then throw, see the element *)
(* from before or from after the erase, or, if push_back reallocated the   *)
(* buffer under it, read freed memory (the old element or a crash).        *)
(* A local variable that goes out of scope returns to its initial value.   *)
(***************************************************************************)
EXTENDS Naturals, SequencesExt

CONSTANTS
    Addr,       \* heap addresses a CConnClient may be allocated at
    Listener,   \* the listening socket, as a member of the fd_set
    None,       \* no thread / no pointer
    FdSetSize,  \* FD_SETSIZE: winsock's FD_SET ignores a further socket
    SelectMayFail, \* whether select may return an error
    SendMayBlock,  \* whether send may find the socket blocking
    Created     \* the workers whose pthread_create succeeded

ASSUME ConstantsAssumption ==
    /\ None \notin Addr \cup {"loop", "map", "vis", "world", "shutdown"}
    /\ Listener \notin Addr
    /\ FdSetSize \in Nat \ {0}
    /\ SelectMayFail \in BOOLEAN /\ SendMayBlock \in BOOLEAN
    /\ Created \subseteq {"map", "vis", "world"}

Thread == {"loop", "map", "vis", "world", "shutdown"}
Worker == {"map", "vis", "world"}
Mutex  == {"Drop", "Monster", "Player", "Main"}

(* One cursor per loop over ClientList; "inner" is the loop that           *)
(* VisiblityList runs inside the one of VisibilityProcess.                 *)
Cursor == {"loop", "map", "vis", "inner", "shutdown"}

VARIABLES
    mutex,          \* owner of each mutex
    pc,             \* where each thread is
    idx,            \* the loop variable i of each cursor (1-based here)
    ptr,            \* the client pointer each cursor last loaded
    moved,          \* cursors whose vector buffer was freed under them
    ClientList,     \* vector<CClientSocket*>
    heap,           \* addresses currently allocated
    isActive,       \* CClientSocket::isActive
    inGame,         \* PlayerSession->inGame with ready, set together
    fds,            \* the fd_set of ServerLoop
    caller,         \* who called DisconnectClient: FillFDS or HandleClients
    ServerOnline,   \* what the worker threads loop on
    serverActive,   \* CServerSocket::isActive, what ServerLoop loops on
    selectFailed,   \* history: select has returned an error
    process,        \* "running", "aborted" or "exited"
    blocked         \* threads held up in send by a client that does not read

threadVars == <<mutex, pc, idx, ptr, moved>>
clientVars == <<ClientList, heap, isActive, inGame>>
loopVars   == <<fds, caller>>
stateVars  == <<ServerOnline, serverActive, selectFailed, process>>
flagVars   == <<stateVars, blocked>>
vars       == <<threadVars, clientVars, loopVars, flagVars>>

(* OnServerReady and OnServerStep have run: online, no client yet, the     *)
(* loop about to fill its first fd_set.  OnServerStep ignores the result   *)
(* of pthread_create; a worker that was not created counts as done, since  *)
(* pthread_join then fails and ShutdownServer goes on.                     *)
Init ==
    /\ mutex = [m \in Mutex |-> None]
    /\ pc = [t \in Thread |-> CASE t = "loop"     -> "fill"
                                [] t = "shutdown" -> "idle"
                                [] t \in Created  -> "while"
                                [] OTHER          -> "done"]
    /\ idx = [k \in Cursor |-> 1]
    /\ ptr = [k \in Cursor |-> None]
    /\ moved = {}
    /\ ClientList = <<>>
    /\ heap = {}
    /\ isActive = [a \in Addr |-> FALSE]
    /\ inGame = [a \in Addr |-> FALSE]
    /\ fds = {}
    /\ caller = "fill"
    /\ ServerOnline = TRUE
    /\ serverActive = TRUE
    /\ selectFailed = FALSE
    /\ process = "running"
    /\ blocked = {}

-----------------------------------------------------------------------------
(* Steps every thread is made of.                                          *)

(* Thread t moves from label l1 to label l2 of a process still running.    *)
Goto(t, l1, l2) ==
    /\ process = "running"
    /\ t \notin blocked
    /\ pc[t] = l1
    /\ pc' = [pc EXCEPT ![t] = l2]

LockLabel(m) == CASE m = "Drop"    -> "lockDrop"
                  [] m = "Monster" -> "lockMonster"
                  [] m = "Player"  -> "lockPlayer"
                  [] m = "Main"    -> "lockMain"

Lock(t, m, l2) ==
    /\ Goto(t, LockLabel(m), l2)
    /\ mutex[m] = None
    /\ mutex' = [mutex EXCEPT ![m] = t]
    /\ UNCHANGED <<idx, ptr, moved, clientVars, loopVars, flagVars>>

Released(ms) == [m \in Mutex |-> IF m \in ms THEN None ELSE mutex[m]]

(* Thread t unlocks the mutexes of ms, one after the other.                *)
Unlock(t, ms, l1, l2) ==
    /\ Goto(t, l1, l2)
    /\ mutex' = Released(ms)
    /\ UNCHANGED <<idx, ptr, moved, clientVars, loopVars, flagVars>>

(* Thread t locks m and, with nothing in between, unlocks the mutexes of   *)
(* ms, m among them.                                                       *)
EmptySection(t, m, ms, l2) ==
    /\ Goto(t, LockLabel(m), l2)
    /\ mutex[m] = None
    /\ mutex' = Released(ms)
    /\ UNCHANGED <<idx, ptr, moved, clientVars, loopVars, flagVars>>

(* An exception nobody catches, or a signal: every thread stops.           *)
Abort(t, l1) ==
    /\ process = "running"
    /\ pc[t] = l1
    /\ process' = "aborted"
    /\ UNCHANGED <<threadVars, clientVars, loopVars,
                   ServerOnline, serverActive, selectFailed, blocked>>

(* The send that ends thread t's step: SendPacket makes the socket         *)
(* non-blocking first, but ioctlsocket may fail, and the other thread's    *)
(* SendPacket may make it blocking again (Sending): then send waits for a  *)
(* client that need not read.                                              *)
MayBlock(t) == blocked' \in {blocked} \cup (IF SendMayBlock THEN {blocked \cup {t}} ELSE {})

(* send returns: the client has read, or is gone.                          *)
SendReturns(t) ==
    /\ process = "running"
    /\ t \in blocked
    /\ blocked' = blocked \ {t}
    /\ UNCHANGED <<threadVars, clientVars, loopVars, stateVars>>

(* while(GServer->ServerOnline)                                            *)
WhileOnline(t, l2) ==
    /\ Goto(t, "while", IF ServerOnline THEN l2 ELSE "done")
    /\ UNCHANGED <<mutex, idx, ptr, moved, clientVars, loopVars, flagVars>>

(* for(i = 0; i < ClientList.size(); ...): enter the body or leave.  ptr   *)
(* is the element at() will load if an erase or a push_back races it.      *)
SizeTest(t, k, l1, body, exit) ==
    \/ /\ Goto(t, l1, body)
       /\ idx[k] <= Len(ClientList)
       /\ ptr' = [ptr EXCEPT ![k] = ClientList[idx[k]]]
       /\ UNCHANGED <<mutex, idx, moved, clientVars, loopVars, flagVars>>
    \/ /\ Goto(t, l1, exit)
       /\ idx[k] > Len(ClientList)
       /\ idx' = [idx EXCEPT ![k] = 1]
       /\ UNCHANGED <<mutex, ptr, moved, clientVars, loopVars, flagVars>>

(* ClientList.at(i): out of range it throws std::out_of_range, which no    *)
(* thread catches.                                                         *)
At(t, k, l1, l2) ==
    \/ /\ Goto(t, l1, l2)
       /\ \E a \in {ptr[k]} \cup {ClientList[n] : n \in {idx[k]} \cap DOMAIN ClientList} :
             ptr' = [ptr EXCEPT ![k] = a]
       /\ moved' = moved \ {k}
       /\ UNCHANGED <<mutex, idx, clientVars, loopVars, flagVars>>
    \/ /\ idx[k] > Len(ClientList) \/ k \in moved
       /\ Abort(t, l1)

(* i++ and back to the head of the loop.                                   *)
NextClient(t, k, l1, head) ==
    /\ Goto(t, l1, head)
    /\ idx' = [idx EXCEPT ![k] = @ + 1]
    /\ ptr' = [ptr EXCEPT ![k] = None]
    /\ UNCHANGED <<mutex, moved, clientVars, loopVars, flagVars>>

-----------------------------------------------------------------------------
(* MapProcess                                                              *)

(* if(!thisclient->ready) continue;                                        *)
MapUse ==
    \/ /\ NextClient("map", "map", "use", "size")
       /\ ~ inGame[ptr["map"]]
    \/ /\ Goto("map", "use", "lockMain")
       /\ inGame[ptr["map"]]
       /\ UNCHANGED <<mutex, idx, ptr, moved, clientVars, loopVars, flagVars>>

(* PlayerMovement, unlock MainMutex, i++.                                  *)
MapMove ==
    /\ Goto("map", "move", "size")
    /\ mutex' = Released({"Main"})
    /\ idx' = [idx EXCEPT !["map"] = @ + 1]
    /\ ptr' = [ptr EXCEPT !["map"] = None]
    /\ UNCHANGED <<moved, clientVars, loopVars, flagVars>>

MapUnlockPlayer_keeps == Goto("map", "unlockPlayer", "lockMonster")
    /\ UNCHANGED <<mutex, idx, ptr, moved, clientVars, loopVars, flagVars>>
MapUnlockPlayer == Unlock("map", {"Player"}, "unlockPlayer", "lockMonster")

MapLock ==
    \/ Lock("map", "Player", "size")
    \/ Lock("map", "Main", "move")
    \/ EmptySection("map", "Monster", {"Monster"}, "while")

MapProcess ==
    \/ WhileOnline("map", "lockPlayer")
    \/ MapLock
    \/ SizeTest("map", "map", "size", "at", "unlockPlayer")
    \/ At("map", "map", "at", "use")
    \/ MapUse
    \/ MapMove
    \/ MapUnlockPlayer

-----------------------------------------------------------------------------
(* VisibilityProcess, with the loop over ClientList of VisiblityList.      *)

(* continue, when not in game or (after a failed load) not logged in.      *)
VisUse ==
    \/ NextClient("vis", "vis", "use", "size")
    \/ /\ Goto("vis", "use", "lockMain")
       /\ inGame[ptr["vis"]]
       /\ UNCHANGED <<mutex, idx, ptr, moved, clientVars, loopVars, flagVars>>

(* The tests on otherclient, i++; SpawnChar sends to thisclient.           *)
VisInnerUse ==
    /\ Goto("vis", "innerUse", "innerSize")
    /\ idx' = [idx EXCEPT !["inner"] = @ + 1]
    /\ ptr' = [ptr EXCEPT !["inner"] = None]
    /\ MayBlock("vis")
    /\ UNCHANGED <<mutex, moved, clientVars, loopVars, stateVars>>

(* The loop over NPCList; SpawnNPC sends to thisclient.                    *)
VisNPCs ==
    /\ Goto("vis", "npcs", "unlockMain")
    /\ MayBlock("vis")
    /\ UNCHANGED <<mutex, idx, ptr, moved, clientVars, loopVars, stateVars>>

(* VisiblityList returns: unlock MainMutex, i++.                           *)
VisUnlockMain ==
    /\ Goto("vis", "unlockMain", "size")
    /\ mutex' = Released({"Main"})
    /\ idx' = [idx EXCEPT !["vis"] = @ + 1]
    /\ ptr' = [ptr EXCEPT !["vis"] = None]
    /\ UNCHANGED <<moved, clientVars, loopVars, flagVars>>

VisLock ==
    \/ Lock("vis", "Drop", "lockMonster")
    \/ Lock("vis", "Monster", "lockPlayer")
    \/ Lock("vis", "Player", "size")
    \/ Lock("vis", "Main", "innerSize")

VisibilityProcess ==
    \/ WhileOnline("vis", "lockDrop")
    \/ VisLock
    \/ SizeTest("vis", "vis", "size", "at", "unlock")
    \/ At("vis", "vis", "at", "use")
    \/ VisUse
    \/ SizeTest("vis", "inner", "innerSize", "innerAt", "npcs")
    \/ At("vis", "inner", "innerAt", "innerUse")
    \/ VisInnerUse
    \/ VisNPCs
    \/ VisUnlockMain
    \/ Unlock("vis", {"Player", "Monster", "Drop"}, "unlock", "while")

-----------------------------------------------------------------------------
(* WorldProcess: takes and releases the four mutexes.                      *)

WorldLock ==
    \/ Lock("world", "Drop", "lockMonster")
    \/ Lock("world", "Monster", "lockPlayer")
    \/ Lock("world", "Player", "lockMain")
    \/ EmptySection("world", "Main", Mutex, "while")

WorldProcess ==
    \/ WhileOnline("world", "lockDrop")
    \/ WorldLock

-----------------------------------------------------------------------------
(* ServerLoop, FillFDS, HandleClients, AddUser and DisconnectClient.       *)

FD_SET_unbounded(s, set) == set \cup {s}
FD_SET(s, set) == IF Cardinality(set) < FdSetSize THEN set \cup {s} ELSE set

LoopClient == ClientList[idx["loop"]]

FillActive ==
    /\ Goto("loop", "fill", "fill")
    /\ idx["loop"] <= Len(ClientList)
    /\ isActive[LoopClient]
    /\ fds' = FD_SET(LoopClient, fds)
    /\ idx' = [idx EXCEPT !["loop"] = @ + 1]
    /\ UNCHANGED <<mutex, ptr, moved, clientVars, caller, flagVars>>

(* DisconnectClient, up to the lock: the socket is closed, isActive        *)
(* cleared and the first pointer equal to the client's erased from         *)
(* ClientList, with no mutex held.                                         *)
EraseAt_last(client, n) == ClientList' = RemoveAt(ClientList, Len(ClientList))
EraseAt(client, n) == ClientList' = RemoveAt(ClientList, n)

DisconnectClient(client, who) ==
    /\ ptr' = [ptr EXCEPT !["loop"] = client]
    /\ caller' = who
    /\ isActive' = [isActive EXCEPT ![client] = FALSE]
    /\ \E n \in DOMAIN ClientList :
          /\ ClientList[n] = client
          /\ \A l \in 1..(n - 1) : ClientList[l] # client
          /\ EraseAt(client, n)
    /\ UNCHANGED <<moved, heap, inGame>>

FillInactive_skips ==
    /\ Goto("loop", "fill", "fill")
    /\ idx["loop"] <= Len(ClientList)
    /\ ~ isActive[LoopClient]
    /\ idx' = [idx EXCEPT !["loop"] = @ + 1]
    /\ UNCHANGED <<mutex, ptr, moved, clientVars, loopVars, flagVars>>
FillInactive ==
    /\ Goto("loop", "fill", "lockPlayer")
    /\ idx["loop"] <= Len(ClientList)
    /\ ~ isActive[LoopClient]
    /\ DisconnectClient(LoopClient, "fill")
    /\ UNCHANGED <<mutex, idx, fds, flagVars>>

FillEnd ==
    /\ Goto("loop", "fill", "select")
    /\ idx["loop"] > Len(ClientList)
    /\ fds' = FD_SET(Listener, fds)
    /\ UNCHANGED <<mutex, idx, ptr, moved, clientVars, caller, flagVars>>

(* do { FD_ZERO; FillFDS ... } while(isActive)                             *)
LoopBack(l1) ==
    /\ Goto("loop", l1, IF serverActive THEN "fill" ELSE "return")
    /\ idx' = [idx EXCEPT !["loop"] = 1]
    /\ fds' = {}
    /\ UNCHANGED <<mutex, ptr, moved, clientVars, caller, flagVars>>

(* select: a timeout (2 ms) goes to the while condition; otherwise the     *)
(* readable sockets remain in fds.  On an error fds is left as it was and  *)
(* the body goes on; EINTR does not clear isActive.                        *)
SelectTimeout == LoopBack("select")

SelectReady ==
    /\ Goto("loop", "select", "accept")
    /\ \E ready \in (SUBSET fds) \ {{}} : fds' = ready
    /\ UNCHANGED <<mutex, idx, ptr, moved, clientVars, caller, flagVars>>

SelectError ==
    /\ SelectMayFail
    /\ Goto("loop", "select", "accept")
    /\ \E eintr \in BOOLEAN : serverActive' = (serverActive /\ eintr)
    /\ selectFailed' = TRUE
    /\ UNCHANGED <<mutex, idx, ptr, moved, clientVars, loopVars, ServerOnline, process, blocked>>

(* No connection is pending, or accept returns INVALID_SOCKET.  After a    *)
(* failed select with nothing pending, accept blocks here: the liveness    *)
(* properties promise nothing then.                                        *)
NoUser ==
    /\ Goto("loop", "accept", "handle")
    /\ idx' = [idx EXCEPT !["loop"] = 1]
    /\ UNCHANGED <<mutex, ptr, moved, clientVars, loopVars, flagVars>>

(* The cursors whose thread is about to read the vector.                   *)
Reading ==
    {k \in Cursor : \/ k = "map"      /\ pc["map"] = "at"
                    \/ k = "vis"      /\ pc["vis"] = "at"
                    \/ k = "inner"    /\ pc["vis"] = "innerAt"
                    \/ k = "shutdown" /\ pc["shutdown"] = "at"}

(* AddUser: new, isActive = true, push_back (which may reallocate).        *)
AddUser ==
    /\ Goto("loop", "accept", "handle")
    /\ Listener \in fds
    /\ \E a \in Addr \ heap :
          /\ heap' = heap \cup {a}
          /\ isActive' = [isActive EXCEPT ![a] = TRUE]
          /\ inGame' = [inGame EXCEPT ![a] = FALSE]
          /\ ClientList' = Append(ClientList, a)
    /\ \E reallocates \in BOOLEAN :
          moved' = IF reallocates THEN moved \cup Reading ELSE moved
    /\ idx' = [idx EXCEPT !["loop"] = 1]
    /\ UNCHANGED <<mutex, ptr, loopVars, flagVars>>

HandleSkip ==
    /\ Goto("loop", "handle", "handle")
    /\ idx["loop"] <= Len(ClientList)
    /\ ~ isActive[LoopClient] \/ LoopClient \notin fds
    /\ idx' = [idx EXCEPT !["loop"] = @ + 1]
    /\ UNCHANGED <<mutex, ptr, moved, clientVars, loopVars, flagVars>>

(* The handler's send is held up: SendToWorld sends before it sets inGame. *)
HandleSend ==
    /\ SendMayBlock
    /\ Goto("loop", "handle", "answer")
    /\ idx["loop"] <= Len(ClientList)
    /\ isActive[LoopClient]
    /\ LoopClient \in fds
    /\ blocked' = blocked \cup {"loop"}
    /\ UNCHANGED <<mutex, idx, ptr, moved, clientVars, loopVars, stateVars>>

(* ReceiveData returns true; the packet may have been the one that enters  *)
(* the world (SendToWorld sets inGame and ready, and sends again).         *)
HandleReceive ==
    /\ \/ Goto("loop", "handle", "handle") /\ idx["loop"] <= Len(ClientList)
          /\ isActive[LoopClient] /\ LoopClient \in fds
       \/ Goto("loop", "answer", "handle")
    /\ \E enters \in BOOLEAN :
          inGame' = [inGame EXCEPT ![LoopClient] = @ \/ enters]
    /\ idx' = [idx EXCEPT !["loop"] = @ + 1]
    /\ MayBlock("loop")
    /\ UNCHANGED <<mutex, ptr, moved, ClientList, heap, isActive, loopVars, stateVars>>

(* ReceiveData returns false: end of stream, or a handler's refusal, which *)
(* no handler gives once it has sent.                                      *)
HandleClosed ==
    /\ Goto("loop", "handle", "lockPlayer")
    /\ idx["loop"] <= Len(ClientList)
    /\ isActive[LoopClient]
    /\ LoopClient \in fds
    /\ DisconnectClient(LoopClient, "handle")
    /\ UNCHANGED <<mutex, idx, fds, flagVars>>

HandleEnd ==
    /\ idx["loop"] > Len(ClientList)
    /\ LoopBack("handle")

(* DeleteClientSocket: the object is deleted under PlayerMutex.            *)
LoopLockPlayer_none ==
    /\ Goto("loop", "lockPlayer", "delete")
    /\ UNCHANGED <<mutex, idx, ptr, moved, clientVars, loopVars, flagVars>>
LoopLockPlayer == Lock("loop", "Player", "delete")

(* The caller's i++ follows: the client that moved into the erased slot is *)
(* passed over until the next round.                                       *)
DeleteClientSocket ==
    /\ Goto("loop", "delete", caller)
    /\ heap' = heap \ {ptr["loop"]}
    /\ inGame' = [inGame EXCEPT ![ptr["loop"]] = FALSE]
    /\ mutex' = Released({"Player"})
    /\ idx' = [idx EXCEPT !["loop"] = @ + 1]
    /\ ptr' = [ptr EXCEPT !["loop"] = None]
    /\ caller' = "fill"
    /\ UNCHANGED <<moved, ClientList, isActive, fds, flagVars>>

(* StartServer returns, main deletes the server and leaves the process.    *)
LoopReturn ==
    /\ process = "running"
    /\ pc["loop"] = "return"
    /\ process' = "exited"
    /\ UNCHANGED <<threadVars, clientVars, loopVars,
                   ServerOnline, serverActive, selectFailed, blocked>>

ServerLoop ==
    \/ FillActive \/ FillInactive \/ FillEnd
    \/ SelectTimeout \/ SelectReady \/ SelectError
    \/ NoUser \/ AddUser
    \/ HandleSkip \/ HandleSend \/ HandleReceive \/ HandleClosed \/ HandleEnd
    \/ LoopLockPlayer \/ DeleteClientSocket
    \/ LoopReturn

-----------------------------------------------------------------------------
(* ShutdownServer, started by SIGTERM or SIGBREAK; one signal is modelled. *)

HandleSignal ==
    /\ Goto("shutdown", "idle", "size")
    /\ UNCHANGED <<mutex, idx, ptr, moved, clientVars, loopVars, flagVars>>

(* DisconnectAll: if(otherclient->PlayerSession->inGame), no lock held: a  *)
(* freed client gives a crash or either answer.                            *)
ShutdownTest ==
    \/ /\ ptr["shutdown"] \in heap => inGame[ptr["shutdown"]]
       /\ Goto("shutdown", "test", "mark")
       /\ UNCHANGED <<mutex, idx, ptr, moved, clientVars, loopVars, flagVars>>
    \/ /\ ptr["shutdown"] \in heap => ~ inGame[ptr["shutdown"]]
       /\ NextClient("shutdown", "shutdown", "test", "size")
    \/ /\ ptr["shutdown"] \notin heap
       /\ Abort("shutdown", "test")

(* otherclient->isActive = false                                           *)
ShutdownMark ==
    \/ /\ Goto("shutdown", "mark", "size")
       /\ isActive' = IF ptr["shutdown"] \in heap
                      THEN [isActive EXCEPT ![ptr["shutdown"]] = FALSE]
                      ELSE isActive
       /\ idx' = [idx EXCEPT !["shutdown"] = @ + 1]
       /\ ptr' = [ptr EXCEPT !["shutdown"] = None]
       /\ UNCHANGED <<mutex, moved, ClientList, heap, inGame, loopVars, flagVars>>
    \/ /\ ptr["shutdown"] \notin heap
       /\ Abort("shutdown", "mark")

DisconnectAll ==
    \/ SizeTest("shutdown", "shutdown", "size", "at", "offline")
    \/ At("shutdown", "shutdown", "at", "test")
    \/ ShutdownTest
    \/ ShutdownMark

ShutdownOffline_kept ==
    /\ Goto("shutdown", "offline", "joinWorld")
    /\ UNCHANGED <<mutex, idx, ptr, moved, clientVars, loopVars, flagVars>>
ShutdownOffline ==
    /\ Goto("shutdown", "offline", "joinWorld")
    /\ ServerOnline' = FALSE
    /\ UNCHANGED <<mutex, idx, ptr, moved, clientVars, loopVars,
                   serverActive, selectFailed, process, blocked>>

(* pthread_join                                                            *)
Join_nowait(t, l1, l2) ==
    /\ Goto("shutdown", l1, l2)
    /\ UNCHANGED <<mutex, idx, ptr, moved, clientVars, loopVars, flagVars>>
Join(t, l1, l2) ==
    /\ Goto("shutdown", l1, l2)
    /\ pc[t] = "done"
    /\ UNCHANGED <<mutex, idx, ptr, moved, clientVars, loopVars, flagVars>>

ShutdownDeactivate ==
    /\ Goto("shutdown", "deactivate", "done")
    /\ serverActive' = FALSE
    /\ UNCHANGED <<mutex, idx, ptr, moved, clientVars, loopVars,
                   ServerOnline, selectFailed, process, blocked>>

ShutdownServer ==
    \/ DisconnectAll
    \/ ShutdownOffline
    \/ Join("world", "joinWorld", "joinVis")
    \/ Join("vis", "joinVis", "joinMap")
    \/ Join("map", "joinMap", "deactivate")
    \/ ShutdownDeactivate

-----------------------------------------------------------------------------
Finished == process # "running" /\ UNCHANGED vars

Next ==
    \/ MapProcess
    \/ VisibilityProcess
    \/ WorldProcess
    \/ ServerLoop
    \/ HandleSignal
    \/ ShutdownServer
    \/ \E t \in {"loop", "vis"} : SendReturns(t)
    \/ Finished

Spec == Init /\ [][Next]_vars

(* Threads are scheduled; a thread that keeps asking for a mutex gets it,  *)
(* because every other thread sleeps, or waits in select, between two      *)
(* acquisitions.  No fairness on the signal, on what select reports, on    *)
(* what a client sends or on the return of a send that blocks.             *)
LoopFairness ==
    /\ WF_vars(MapProcess)        /\ SF_vars(MapLock)
    /\ WF_vars(VisibilityProcess) /\ SF_vars(VisLock)
    /\ WF_vars(WorldProcess)      /\ SF_vars(WorldLock)
    /\ WF_vars(ServerLoop)        /\ SF_vars(LoopLockPlayer)

FairSpec == Spec /\ LoopFairness /\ WF_vars(ShutdownServer)

(* The same without the shutdown thread, which may take any time: what     *)
(* the loop does for clients must not depend on the process ending.        *)
LoopFairSpec == Spec /\ LoopFairness
-----------------------------------------------------------------------------
(* Properties                                                              *)

Label == {"while", "lockDrop", "lockMonster", "lockPlayer", "lockMain", "size", "at", "use",
          "move", "unlockPlayer", "innerSize", "innerAt", "innerUse", "npcs", "unlockMain",
          "unlock",
          "fill", "select", "accept", "handle", "answer", "delete", "return",
          "idle", "test", "mark", "offline", "joinWorld", "joinVis", "joinMap", "deactivate",
          "done"}

ThreadTypes ==
    /\ mutex \in [Mutex -> Thread \cup {None}]
    /\ pc \in [Thread -> Label]
    /\ idx \in [Cursor -> Nat \ {0}]
    /\ ptr \in [Cursor -> Addr \cup {None}]
    /\ moved \subseteq Cursor

ClientTypes ==
    /\ ClientList \in Seq(Addr)
    /\ heap \subseteq Addr
    /\ isActive \in [Addr -> BOOLEAN]
    /\ inGame \in [Addr -> BOOLEAN]

LoopTypes ==
    /\ fds \subseteq Addr \cup {Listener}
    /\ IsFiniteSet(fds) /\ Cardinality(fds) <= FdSetSize
    /\ caller \in {"fill", "handle"}

FlagTypes ==
    /\ ServerOnline \in BOOLEAN
    /\ serverActive \in BOOLEAN
    /\ selectFailed \in BOOLEAN
    /\ process \in {"running", "aborted", "exited"}
    /\ blocked \subseteq {"loop", "vis"}

(* Every variable has its type, and the fd_set never holds more sockets    *)
(* than FD_SETSIZE, however FillFDS and the listener are added.            *)
TypeOK == ThreadTypes /\ ClientTypes /\ LoopTypes /\ FlagTypes

(* The threads thread t cannot go on before: the owner of the mutex it     *)
(* asks for, and for ShutdownServer the worker its pthread_join waits for. *)
Awaited(t) ==
    (Thread \cap {mutex[m] : m \in {n \in Mutex : pc[t] = LockLabel(n)}})
    \cup {u \in Worker : /\ t = "shutdown"
                         /\ <<pc[t], u>> \in {<<"joinWorld", "world">>, <<"joinVis", "vis">>,
                                              <<"joinMap", "map">>}
                         /\ pc[u] # "done"}

(* No circle of threads wait for one another, in a mutex or in a join, so  *)
(* the five threads never deadlock, nor do some of them while the others   *)
(* go on: in any group of waiting threads one waits for nobody of the      *)
(* group.                                                                  *)
NoCircularWait ==
    \A group \in (SUBSET {t \in Thread : Awaited(t) # {}}) \ {{}} :
        \E t \in group : Awaited(t) \cap group = {}

(* Where a worker goes on to dereference the pointer of a cursor.          *)
Dereferences(k) ==
    CASE k = "map"   -> pc["map"] \in {"use", "lockMain", "move"}
      [] k = "vis"   -> pc["vis"] \in {"use", "lockMain", "innerSize", "innerAt",
                                       "innerUse", "npcs", "unlockMain"}
      [] k = "inner" -> pc["vis"] = "innerUse"

(* MapProcess and VisibilityProcess never use a client the loop deleted:   *)
(* though DisconnectClient erases without a lock, the delete waits for the *)
(* PlayerMutex they hold from the load of the pointer to its last use.     *)
WorkersUseLiveClients ==
    \A k \in {"map", "vis", "inner"} : Dereferences(k) => ptr[k] \in heap

(* Where a worker has tested size() and is about to call at().             *)
AboutToLoad(k) ==
    CASE k = "map"   -> pc["map"] = "at"
      [] k = "vis"   -> pc["vis"] = "at"
      [] k = "inner" -> pc["vis"] = "innerAt"

(* Between a worker's size() and its at() the loop erases one client at    *)
(* most, since it must then wait for PlayerMutex: at() throws only when    *)
(* the worker had come to the last client, and that client or one before   *)
(* it is being disconnected.                                               *)
OneEraseUnderWalk ==
    \A k \in {"map", "vis", "inner"} : AboutToLoad(k) /\ idx[k] > Len(ClientList) =>
        pc["loop"] = "lockPlayer" /\ idx[k] = Len(ClientList) + 1

(* Every client object is listed exactly once until DisconnectClient       *)
(* erases it, and then owned by the loop alone until it is deleted: no     *)
(* client is leaked, listed twice, deleted twice or listed after delete.   *)
ListOwnsHeap ==
    /\ IsInjective(ClientList)
    /\ heap = ToSet(ClientList) \cup
                 (IF pc["loop"] \in {"lockPlayer", "delete"} THEN {ptr["loop"]} ELSE {})
    /\ pc["loop"] \in {"lockPlayer", "delete"} => ptr["loop"] \notin ToSet(ClientList)

(* The client the loop has erased and not deleted yet.                     *)
Closing == IF pc["loop"] \in {"lockPlayer", "delete"} THEN {ptr["loop"]} ELSE {}

(* The clients the workers hold a pointer to that they will dereference.   *)
InUse == {ptr[k] : k \in {c \in {"map", "vis", "inner"} : Dereferences(c)}}

(* Threads and lists together keep the promise of ClientLifecycle, though  *)
(* ClientList is read and erased without a common lock: an object is       *)
(* closed, then deleted, each once, and not while a worker uses it.        *)
Lifecycle == INSTANCE ClientLifecycle WITH
    Addr      <- Addr,
    listed    <- ToSet(ClientList),
    allocated <- heap,
    closing   <- Closing,
    pinned    <- InUse
LifecycleSpec == Lifecycle!Spec

(* Unless select failed, main returns (and deletes the server object and   *)
(* its mutexes) only after ShutdownServer has joined all three workers.    *)
WorkersJoinedBeforeReturn ==
    pc["loop"] = "return" /\ ~ selectFailed =>
        \A t \in Worker \cup {"shutdown"} : pc[t] = "done"

(* A client that does not read may hold up a send of either thread, but    *)
(* no send is held up for ever: what the code leaves to its clients.       *)
SendsReturn == \A t \in {"loop", "vis"} : []<>(t \notin blocked)

(* If no send blocks for ever, a client marked inactive by DisconnectAll   *)
(* is disconnected by the loop, even though erasing makes FillFDS pass     *)
(* over its successor each time, and however long ShutdownServer then      *)
(* takes to end the process.  After a failed select the loop may sit in a  *)
(* blocking accept, and nothing is promised.                               *)
InactiveClientRemoved ==
    SendsReturn =>
        \A a \in Addr :
            (a \in ToSet(ClientList) /\ ~ isActive[a]) ~>
                (a \notin ToSet(ClientList) \/ process # "running" \/ selectFailed)

(* A SIGTERM ends the process: DisconnectAll, the joins and the loop all   *)
(* come to an end, unless select failed or a send blocks for ever.  Then   *)
(* the visibility thread, held up with its mutexes, is never joined.       *)
ShutdownCompletes ==
    SendsReturn => (pc["shutdown"] # "idle" ~> (process # "running" \/ selectFailed))
=============================================================================
