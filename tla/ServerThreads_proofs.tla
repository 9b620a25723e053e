----------------------- MODULE ServerThreads_proofs ------------------------
(***************************************************************************)
(* For any number of client objects: the lock order, the agreement of      *)
(* ClientList with the heap, and the safety of the workers' client         *)
(* pointers.  The inductive invariant IndInv says which mutexes a thread   *)
(* owns at each of its labels (MutexInv) and that a worker's pointer is    *)
(* live from the load to the last use (PointerInv).                        *)
(***************************************************************************)
EXTENDS ServerThreads, VectorLemmas, FiniteSetTheorems, TLAPS

(* The labels at which thread t owns mutex m.                              *)
Region(t, m) ==
    CASE t = "map" /\ m = "Player" ->
            {"size", "at", "use", "lockMain", "move", "unlockPlayer"}
      [] t = "map" /\ m = "Main" -> {"move"}
      [] t = "vis" /\ m = "Drop" ->
            {"lockMonster", "lockPlayer", "size", "at", "use", "lockMain", "innerSize",
             "innerAt", "innerUse", "npcs", "unlockMain", "unlock"}
      [] t = "vis" /\ m = "Monster" ->
            {"lockPlayer", "size", "at", "use", "lockMain", "innerSize",
             "innerAt", "innerUse", "npcs", "unlockMain", "unlock"}
      [] t = "vis" /\ m = "Player" ->
            {"size", "at", "use", "lockMain", "innerSize",
             "innerAt", "innerUse", "npcs", "unlockMain", "unlock"}
      [] t = "vis" /\ m = "Main" -> {"innerSize", "innerAt", "innerUse", "npcs", "unlockMain"}
      [] t = "world" /\ m = "Drop" -> {"lockMonster", "lockPlayer", "lockMain"}
      [] t = "world" /\ m = "Monster" -> {"lockPlayer", "lockMain"}
      [] t = "world" /\ m = "Player" -> {"lockMain"}
      [] t = "loop" /\ m = "Player" -> {"delete"}
      [] OTHER -> {}

(* A mutex is owned by the thread whose label says so, and by no other.    *)
MutexInv == \A t \in Thread, m \in Mutex : mutex[m] = t <=> pc[t] \in Region(t, m)

(* The place of each mutex in the order the threads lock them in.          *)
Rank(m) == CASE m = "Drop" -> 1 [] m = "Monster" -> 2 [] m = "Player" -> 3 [] m = "Main" -> 4

(* Drop before Monster before Player before Main: a thread waiting in      *)
(* pthread_mutex_lock owns only mutexes of lower rank.                     *)
LockOrder ==
    \A t \in Thread, m, n \in Mutex :
        pc[t] = LockLabel(m) /\ mutex[n] = t => Rank(n) < Rank(m)

(* The pointer of a worker's cursor is live from the size() test on.       *)
PointerInv ==
    /\ pc["map"] \in {"at", "use", "lockMain", "move"} => ptr["map"] \in heap
    /\ pc["vis"] \in {"at", "use", "lockMain", "innerSize", "innerAt", "innerUse",
                      "npcs", "unlockMain"} => ptr["vis"] \in heap
    /\ pc["vis"] \in {"innerAt", "innerUse"} => ptr["inner"] \in heap

IndInv == TypeOK /\ MutexInv /\ ListOwnsHeap /\ PointerInv

-----------------------------------------------------------------------------
(* FD_SET of winsock keeps an fd_set within FD_SETSIZE.                    *)
LEMMA FdSetBound ==
  ASSUME NEW S, NEW s, IsFiniteSet(S), Cardinality(S) <= FdSetSize
  PROVE  IsFiniteSet(FD_SET(s, S)) /\ Cardinality(FD_SET(s, S)) <= FdSetSize
<1>1. FdSetSize \in Nat
  BY ConstantsAssumption
<1>2. Cardinality(S) \in Nat
  BY FS_CardinalityType
<1> QED BY <1>1, <1>2, FS_AddElement DEF FD_SET

-----------------------------------------------------------------------------
(* The tuples of variables that steps leave alone.                         *)
USE DEF threadVars, clientVars, loopVars, flagVars, stateVars, vars

(* Nothing happens, or a send returns: only `blocked` may change.          *)
Quiet == UNCHANGED <<threadVars, clientVars, loopVars, stateVars>>

(* What is left of Next once the threads' own steps are taken out.         *)
LEMMA QuietStep ==
  ASSUME [Next]_vars
  PROVE  \/ MapProcess \/ VisibilityProcess \/ WorldProcess \/ ServerLoop
         \/ HandleSignal \/ ShutdownServer \/ Quiet
  BY DEF Next, Finished, SendReturns, Quiet

(* Thread t moves between labels at which it owns the same mutexes.        *)
LEMMA MutexGoto ==
  ASSUME TypeOK, MutexInv, NEW t \in Thread, NEW l1, NEW l,
         Goto(t, l1, l), UNCHANGED mutex,
         \A m \in Mutex : l1 \in Region(t, m) <=> l \in Region(t, m)
  PROVE  MutexInv'
  BY DEF TypeOK, ThreadTypes, MutexInv, Goto

(* Thread t gets a mutex nobody owns.                                     *)
LEMMA MutexLock ==
  ASSUME TypeOK, MutexInv, NEW t \in Thread, NEW m \in Mutex, NEW l, Lock(t, m, l),
         \A n \in Mutex : l \in Region(t, n) <=> LockLabel(m) \in Region(t, n) \/ n = m
  PROVE  MutexInv'
  BY ConstantsAssumption DEF TypeOK, ThreadTypes, MutexInv, Goto, Lock, Thread

(* Thread t unlocks mutexes it owns (or that nobody owns).                 *)
LEMMA MutexRelease ==
  ASSUME TypeOK, MutexInv, NEW t \in Thread, NEW ms \in SUBSET Mutex, NEW l1, NEW l,
         Goto(t, l1, l),
         mutex' = Released(ms),
         \A m \in ms : l1 \in Region(t, m) \/ mutex[m] = None,
         \A m \in Mutex : l \in Region(t, m) <=> l1 \in Region(t, m) /\ m \notin ms
  PROVE  MutexInv'
  BY ConstantsAssumption DEF TypeOK, ThreadTypes, MutexInv, Goto, Thread, Released

(* MapProcess holds, at each label, the mutexes the table gives it.        *)
LEMMA MutexMap == TypeOK /\ MutexInv /\ MapProcess => MutexInv'
<1> SUFFICES ASSUME TypeOK, MutexInv, MapProcess PROVE MutexInv'
  OBVIOUS
<1> USE DEF Mutex, Thread, Region
<1>1. CASE WhileOnline("map", "lockPlayer")
  BY <1>1, MutexGoto DEF WhileOnline
<1>2. CASE Lock("map", "Player", "size")
  BY <1>2, MutexLock DEF LockLabel
<1>3. CASE Lock("map", "Main", "move")
  BY <1>3, MutexLock DEF LockLabel
<1>4. CASE EmptySection("map", "Monster", {"Monster"}, "while")
  BY <1>4, MutexRelease DEF EmptySection, LockLabel
<1>5. CASE SizeTest("map", "map", "size", "at", "unlockPlayer")
  BY <1>5, MutexGoto DEF SizeTest
<1>6. CASE At("map", "map", "at", "use")
  BY <1>6, MutexGoto DEF At, Abort, MutexInv
<1>7. CASE MapUse
  BY <1>7, MutexGoto DEF MapUse, NextClient
<1>8. CASE MapMove
  BY <1>8, MutexRelease DEF MapMove
<1>9. CASE MapUnlockPlayer
  BY <1>9, MutexRelease DEF MapUnlockPlayer, Unlock
<1> QED BY <1>1, <1>2, <1>3, <1>4, <1>5, <1>6, <1>7, <1>8, <1>9 DEF MapProcess, MapLock

(* VisibilityProcess holds, at each label, the mutexes the table gives it. *)
LEMMA MutexVis == TypeOK /\ MutexInv /\ VisibilityProcess => MutexInv'
<1> SUFFICES ASSUME TypeOK, MutexInv, VisibilityProcess PROVE MutexInv'
  OBVIOUS
<1> USE DEF Mutex, Thread, Region
<1>1. CASE WhileOnline("vis", "lockDrop")
  BY <1>1, MutexGoto DEF WhileOnline
<1>2. CASE Lock("vis", "Drop", "lockMonster")
  BY <1>2, MutexLock DEF LockLabel
<1>3. CASE Lock("vis", "Monster", "lockPlayer")
  BY <1>3, MutexLock DEF LockLabel
<1>4. CASE Lock("vis", "Player", "size")
  BY <1>4, MutexLock DEF LockLabel
<1>5. CASE Lock("vis", "Main", "innerSize")
  BY <1>5, MutexLock DEF LockLabel
<1>6. CASE SizeTest("vis", "vis", "size", "at", "unlock")
  BY <1>6, MutexGoto DEF SizeTest
<1>7. CASE At("vis", "vis", "at", "use")
  BY <1>7, MutexGoto DEF At, Abort, MutexInv
<1>8. CASE VisUse
  BY <1>8, MutexGoto DEF VisUse, NextClient
<1>9. CASE SizeTest("vis", "inner", "innerSize", "innerAt", "npcs")
  BY <1>9, MutexGoto DEF SizeTest
<1>10. CASE At("vis", "inner", "innerAt", "innerUse")
  BY <1>10, MutexGoto DEF At, Abort, MutexInv
<1>11. CASE VisInnerUse \/ VisNPCs
  BY <1>11, MutexGoto DEF VisInnerUse, VisNPCs
<1>12. CASE VisUnlockMain
  BY <1>12, MutexRelease DEF VisUnlockMain
<1>13. CASE Unlock("vis", {"Player", "Monster", "Drop"}, "unlock", "while")
  BY <1>13, MutexRelease DEF Unlock
<1> QED BY <1>1, <1>2, <1>3, <1>4, <1>5, <1>6, <1>7, <1>8, <1>9, <1>10, <1>11, <1>12, <1>13
        DEF VisibilityProcess, VisLock

(* WorldProcess holds, at each label, the mutexes the table gives it.      *)
LEMMA MutexWorld == TypeOK /\ MutexInv /\ WorldProcess => MutexInv'
<1> SUFFICES ASSUME TypeOK, MutexInv, WorldProcess PROVE MutexInv'
  OBVIOUS
<1> USE DEF Mutex, Thread, Region
<1>1. CASE WhileOnline("world", "lockDrop")
  BY <1>1, MutexGoto DEF WhileOnline
<1>2. CASE Lock("world", "Drop", "lockMonster")
  BY <1>2, MutexLock DEF LockLabel
<1>3. CASE Lock("world", "Monster", "lockPlayer")
  BY <1>3, MutexLock DEF LockLabel
<1>4. CASE Lock("world", "Player", "lockMain")
  BY <1>4, MutexLock DEF LockLabel
<1>5. CASE EmptySection("world", "Main", Mutex, "while")
  BY <1>5, MutexRelease DEF EmptySection, LockLabel
<1> QED BY <1>1, <1>2, <1>3, <1>4, <1>5 DEF WorldProcess, WorldLock

(* The server loop holds PlayerMutex only around the delete of a client.   *)
LEMMA MutexLoop == TypeOK /\ MutexInv /\ ServerLoop => MutexInv'
<1> SUFFICES ASSUME TypeOK, MutexInv, ServerLoop PROVE MutexInv'
  OBVIOUS
<1> USE DEF Mutex, Thread, Region
<1>1. CASE FillActive \/ FillInactive \/ FillEnd
  BY <1>1, MutexGoto DEF FillActive, FillInactive, FillEnd
<1>2. CASE SelectTimeout \/ SelectReady \/ SelectError
  BY <1>2, MutexGoto DEF SelectTimeout, LoopBack, SelectReady, SelectError
<1>3. CASE NoUser \/ AddUser
  BY <1>3, MutexGoto DEF NoUser, AddUser
<1>4. CASE HandleSkip \/ HandleSend \/ HandleReceive \/ HandleClosed \/ HandleEnd
  BY <1>4, MutexGoto DEF HandleSkip, HandleSend, HandleReceive, HandleClosed, HandleEnd, LoopBack
<1>5. CASE LoopLockPlayer
  BY <1>5, MutexLock DEF LoopLockPlayer, LockLabel
<1>6. CASE DeleteClientSocket
  <2>1. caller # "delete" BY DEF TypeOK, LoopTypes
  <2> QED BY <1>6, <2>1, MutexRelease DEF DeleteClientSocket
<1>7. CASE LoopReturn
  BY <1>7 DEF LoopReturn, MutexInv
<1> QED BY <1>1, <1>2, <1>3, <1>4, <1>5, <1>6, <1>7 DEF ServerLoop

(* The signal and the shutdown thread take no mutex.                       *)
LEMMA MutexShutdown == TypeOK /\ MutexInv /\ (HandleSignal \/ ShutdownServer) => MutexInv'
<1> SUFFICES ASSUME TypeOK, MutexInv, HandleSignal \/ ShutdownServer PROVE MutexInv'
  OBVIOUS
<1> USE DEF Mutex, Thread, Region
<1>1. CASE HandleSignal
  BY <1>1, MutexGoto DEF HandleSignal
<1>2. CASE SizeTest("shutdown", "shutdown", "size", "at", "offline")
  BY <1>2, MutexGoto DEF SizeTest
<1>3. CASE At("shutdown", "shutdown", "at", "test")
  BY <1>3, MutexGoto DEF At, Abort, MutexInv
<1>4. CASE ShutdownTest \/ ShutdownMark
  BY <1>4, MutexGoto DEF ShutdownTest, ShutdownMark, NextClient, Abort, MutexInv
<1>5. CASE ShutdownOffline \/ ShutdownDeactivate
  BY <1>5, MutexGoto DEF ShutdownOffline, ShutdownDeactivate
<1>6. ASSUME NEW t, NEW l1, NEW l2, Join(t, l1, l2) PROVE MutexInv'
  BY <1>6, MutexGoto DEF Join
<1> QED BY <1>1, <1>2, <1>3, <1>4, <1>5, <1>6 DEF ShutdownServer, DisconnectAll

(* No step of any thread breaks the ownership of the mutexes.              *)
LEMMA MutexStep == TypeOK /\ MutexInv /\ [Next]_vars => MutexInv'
<1>1. TypeOK /\ MutexInv /\ Quiet => MutexInv'
  BY DEF MutexInv, Quiet
<1> QED BY <1>1, MutexMap, MutexVis, MutexWorld, MutexLoop, MutexShutdown, QuietStep

-----------------------------------------------------------------------------
(* The client the loop is looking at is in the list.                       *)
LEMMA LoopClientListed ==
  ASSUME TypeOK, idx["loop"] <= Len(ClientList)
  PROVE  /\ idx["loop"] \in DOMAIN ClientList
         /\ LoopClient \in Addr
         /\ LoopClient \in ToSet(ClientList)
<1>1. idx["loop"] \in 1..Len(ClientList) /\ DOMAIN ClientList = 1..Len(ClientList)
  BY LenProperties DEF TypeOK, ThreadTypes, ClientTypes, Cursor
<1>2. LoopClient \in Addr
  BY <1>1, ElementOfSeq DEF TypeOK, ClientTypes, LoopClient
<1> QED BY <1>1, <1>2 DEF LoopClient, ToSet

(* Steps that leave the clients, the loop and the flags alone.             *)
LEMMA TypeFrame ==
  ASSUME TypeOK, ThreadTypes', UNCHANGED <<clientVars, loopVars, flagVars>>
  PROVE  TypeOK'
  BY DEF TypeOK, ClientTypes, LoopTypes, FlagTypes

(* An uncaught exception or a crash keeps the types.                       *)
LEMMA TypeAbort == ASSUME TypeOK, NEW t, NEW l, Abort(t, l) PROVE TypeOK'
  BY DEF TypeOK, ThreadTypes, ClientTypes, LoopTypes, FlagTypes, Abort

(* What the steps shared by all threads do to the types.                   *)
LEMMA Labels ==
  /\ "while" \in Label /\ "lockDrop" \in Label /\ "lockMonster" \in Label /\ "lockPlayer" \in Label
  /\ "lockMain" \in Label /\ "size" \in Label /\ "at" \in Label /\ "use" \in Label
  /\ "move" \in Label /\ "unlockPlayer" \in Label /\ "innerSize" \in Label /\ "innerAt" \in Label
  /\ "innerUse" \in Label /\ "npcs" \in Label /\ "answer" \in Label
  /\ "unlockMain" \in Label /\ "unlock" \in Label /\ "fill" \in Label
  /\ "select" \in Label /\ "accept" \in Label /\ "handle" \in Label /\ "delete" \in Label
  /\ "return" \in Label /\ "idle" \in Label /\ "test" \in Label /\ "mark" \in Label
  /\ "offline" \in Label /\ "joinWorld" \in Label /\ "joinVis" \in Label /\ "joinMap" \in Label
  /\ "deactivate" \in Label /\ "done" \in Label
  BY DEF Label

(* The comparison of an index with size() keeps the types.                 *)
LEMMA TypeSizeTest ==
  ASSUME TypeOK, NEW t \in Thread, NEW k \in Cursor, NEW l1, NEW l2 \in Label, NEW l3 \in Label,
         SizeTest(t, k, l1, l2, l3)
  PROVE  TypeOK'
<1>1. idx[k] <= Len(ClientList) => ClientList[idx[k]] \in Addr
  BY LenProperties, ElementOfSeq DEF TypeOK, ThreadTypes, ClientTypes
<1>2. ThreadTypes'
  BY <1>1 DEF TypeOK, ThreadTypes, SizeTest, Goto
<1> QED BY <1>2, TypeFrame DEF SizeTest

(* at(i) loads an address, or ends the process.                            *)
LEMMA TypeAt ==
  ASSUME TypeOK, NEW t \in Thread, NEW k \in Cursor, NEW l1, NEW l2 \in Label,
         At(t, k, l1, l2)
  PROVE  TypeOK'
<1>1. \A n \in DOMAIN ClientList : ClientList[n] \in Addr
  BY LenProperties, ElementOfSeq DEF TypeOK, ClientTypes
<1>2. CASE Abort(t, l1)
  BY <1>2, TypeAbort
<1>3. CASE ~ Abort(t, l1)
  <2>1. ThreadTypes'
    BY <1>1, <1>3 DEF TypeOK, ThreadTypes, At, Goto
  <2> QED BY <1>3, <2>1, TypeFrame DEF At
<1> QED BY <1>2, <1>3

(* Going on to the next index keeps the types.                             *)
LEMMA TypeNextClient ==
  ASSUME TypeOK, NEW t \in Thread, NEW k \in Cursor, NEW l1, NEW l2 \in Label,
         NextClient(t, k, l1, l2)
  PROVE  TypeOK'
<1>1. ThreadTypes'
  BY DEF TypeOK, ThreadTypes, NextClient, Goto
<1> QED BY <1>1, TypeFrame DEF NextClient

(* A jump that assigns at most one index and one pointer keeps the types.  *)
LEMMA ThreadTypesGoto ==
  ASSUME TypeOK, NEW t \in Thread, NEW l1, NEW l2 \in Label, Goto(t, l1, l2),
         UNCHANGED <<mutex, moved>>,
         idx' = idx \/ \E k \in Cursor, n \in Nat \ {0} : idx' = [idx EXCEPT ![k] = n],
         ptr' = ptr \/ \E k \in Cursor, a \in Addr \cup {None} : ptr' = [ptr EXCEPT ![k] = a]
  PROVE  ThreadTypes'
  BY DEF TypeOK, ThreadTypes, Goto

(* A jump to a label keeps the types.                                      *)
LEMMA TypeGoto ==
  ASSUME TypeOK, NEW t \in Thread, NEW l1, NEW l2 \in Label, Goto(t, l1, l2),
         UNCHANGED <<mutex, idx, ptr, moved, clientVars, loopVars, flagVars>>
  PROVE  TypeOK'
<1>1. ThreadTypes' BY DEF TypeOK, ThreadTypes, Goto
<1> QED BY <1>1, TypeFrame

(* pthread_mutex_lock keeps the types.                                     *)
LEMMA TypeLock ==
  ASSUME TypeOK, NEW t \in Thread, NEW m \in Mutex, NEW l2 \in Label, Lock(t, m, l2)
  PROVE  TypeOK'
<1>1. ThreadTypes' BY DEF TypeOK, ThreadTypes, Lock, Goto
<1> QED BY <1>1, TypeFrame DEF Lock

(* pthread_mutex_unlock keeps the types.                                   *)
LEMMA TypeRelease ==
  ASSUME TypeOK, NEW t \in Thread, NEW ms, NEW l1, NEW l2 \in Label,
         Goto(t, l1, l2), mutex' = Released(ms),
         UNCHANGED <<idx, ptr, moved, clientVars, loopVars, flagVars>>
  PROVE  TypeOK'
<1>1. ThreadTypes' BY DEF TypeOK, ThreadTypes, Released, Goto
<1> QED BY <1>1, TypeFrame

(* Each step of MapProcess keeps the types.                                *)
LEMMA TypeMap == TypeOK /\ MapProcess => TypeOK'
<1> SUFFICES ASSUME TypeOK, MapProcess PROVE TypeOK'
  OBVIOUS
<1> USE DEF Thread, Mutex, Cursor
<1> USE Labels
<1>1. CASE WhileOnline("map", "lockPlayer")
  BY <1>1, TypeGoto DEF WhileOnline
<1>2. CASE Lock("map", "Player", "size") \/ Lock("map", "Main", "move")
  BY <1>2, TypeLock
<1>3. CASE EmptySection("map", "Monster", {"Monster"}, "while")
  BY <1>3, TypeRelease DEF EmptySection
<1>4. CASE SizeTest("map", "map", "size", "at", "unlockPlayer")
  BY <1>4, TypeSizeTest
<1>5. CASE At("map", "map", "at", "use")
  BY <1>5, TypeAt
<1>6. CASE MapUse
  BY <1>6, TypeNextClient, TypeGoto DEF MapUse
<1>7. CASE MapMove
  <2>1. ThreadTypes' BY <1>7 DEF MapMove, TypeOK, ThreadTypes, Goto, Released
  <2> QED BY <1>7, <2>1, TypeFrame DEF MapMove
<1>8. CASE MapUnlockPlayer
  BY <1>8, TypeRelease DEF MapUnlockPlayer, Unlock
<1> QED BY <1>1, <1>2, <1>3, <1>4, <1>5, <1>6, <1>7, <1>8 DEF MapProcess, MapLock

(* Each step of VisibilityProcess keeps the types.                         *)
LEMMA TypeVis == TypeOK /\ VisibilityProcess => TypeOK'
<1> SUFFICES ASSUME TypeOK, VisibilityProcess PROVE TypeOK'
  OBVIOUS
<1> USE DEF Thread, Mutex, Cursor
<1> USE Labels
<1>1. CASE WhileOnline("vis", "lockDrop")
  BY <1>1, TypeGoto DEF WhileOnline
<1>2. CASE VisLock
  BY <1>2, TypeLock DEF VisLock
<1>3. CASE SizeTest("vis", "vis", "size", "at", "unlock")
  BY <1>3, TypeSizeTest
<1>4. CASE SizeTest("vis", "inner", "innerSize", "innerAt", "npcs")
  BY <1>4, TypeSizeTest
<1>5. CASE At("vis", "vis", "at", "use") \/ At("vis", "inner", "innerAt", "innerUse")
  BY <1>5, TypeAt
<1>6. CASE VisUse
  BY <1>6, TypeNextClient, TypeGoto DEF VisUse
<1>9. CASE VisInnerUse \/ VisNPCs
  <2>1. idx["inner"] + 1 \in Nat \ {0}
    BY DEF TypeOK, ThreadTypes
  <2>2. ThreadTypes'
    BY <1>9, <2>1, ThreadTypesGoto DEF VisInnerUse, VisNPCs
  <2>3. FlagTypes'
    BY <1>9 DEF VisInnerUse, VisNPCs, MayBlock, TypeOK, FlagTypes
  <2> QED BY <1>9, <2>2, <2>3 DEF VisInnerUse, VisNPCs, TypeOK, ClientTypes, LoopTypes
<1>7. CASE VisUnlockMain
  <2>1. ThreadTypes' BY <1>7 DEF VisUnlockMain, TypeOK, ThreadTypes, Goto, Released
  <2> QED BY <1>7, <2>1, TypeFrame DEF VisUnlockMain
<1>8. CASE Unlock("vis", {"Player", "Monster", "Drop"}, "unlock", "while")
  BY <1>8, TypeRelease DEF Unlock
<1> QED BY <1>1, <1>2, <1>3, <1>4, <1>5, <1>6, <1>7, <1>8, <1>9 DEF VisibilityProcess

(* Each step of WorldProcess keeps the types.                              *)
LEMMA TypeWorld == TypeOK /\ WorldProcess => TypeOK'
<1> SUFFICES ASSUME TypeOK, WorldProcess PROVE TypeOK'
  OBVIOUS
<1> USE DEF Thread, Mutex
<1> USE Labels
<1>1. CASE WhileOnline("world", "lockDrop")
  BY <1>1, TypeGoto DEF WhileOnline
<1>2. CASE EmptySection("world", "Main", Mutex, "while")
  BY <1>2, TypeRelease DEF EmptySection
<1> QED BY <1>1, <1>2, TypeLock DEF WorldProcess, WorldLock

(* The signal and each step of ShutdownServer keep the types.              *)
LEMMA TypeShutdown == TypeOK /\ (HandleSignal \/ ShutdownServer) => TypeOK'
<1> SUFFICES ASSUME TypeOK, HandleSignal \/ ShutdownServer PROVE TypeOK'
  OBVIOUS
<1> USE DEF Thread, Cursor
<1> USE Labels
<1>1. CASE HandleSignal
  BY <1>1, TypeGoto DEF HandleSignal
<1>2. CASE SizeTest("shutdown", "shutdown", "size", "at", "offline")
  BY <1>2, TypeSizeTest
<1>3. CASE At("shutdown", "shutdown", "at", "test")
  BY <1>3, TypeAt
<1>4. CASE ShutdownTest
  <2>1. CASE Abort("shutdown", "test") BY <2>1, TypeAbort
  <2>2. CASE NextClient("shutdown", "shutdown", "test", "size") BY <2>2, TypeNextClient
  <2>3. CASE Goto("shutdown", "test", "mark")
             /\ UNCHANGED <<mutex, idx, ptr, moved, clientVars, loopVars, flagVars>>
    BY <2>3, TypeGoto
  <2> QED BY <1>4, <2>1, <2>2, <2>3 DEF ShutdownTest
<1>5. CASE ShutdownMark
  <2>1. CASE Abort("shutdown", "mark") BY <2>1, TypeAbort
  <2>2. CASE ~ Abort("shutdown", "mark")
    <3>1. idx["shutdown"] + 1 \in Nat \ {0}
      BY DEF TypeOK, ThreadTypes
    <3>2. ThreadTypes'
      BY <1>5, <2>2, <3>1, ThreadTypesGoto DEF ShutdownMark
    <3>3. ClientTypes' BY <1>5, <2>2 DEF ShutdownMark, TypeOK, ClientTypes
    <3>4. LoopTypes' /\ FlagTypes'
      BY <1>5, <2>2 DEF ShutdownMark, TypeOK, LoopTypes, FlagTypes
    <3> QED BY <3>2, <3>3, <3>4 DEF TypeOK
  <2> QED BY <2>1, <2>2
<1>6. CASE ShutdownOffline \/ ShutdownDeactivate
  <2>1. ThreadTypes'
    BY <1>6, ThreadTypesGoto DEF ShutdownOffline, ShutdownDeactivate
  <2>2. ClientTypes' /\ LoopTypes'
    BY <1>6 DEF ShutdownOffline, ShutdownDeactivate, TypeOK, ClientTypes, LoopTypes
  <2>3. FlagTypes'
    BY <1>6 DEF ShutdownOffline, ShutdownDeactivate, TypeOK, FlagTypes
  <2> QED BY <2>1, <2>2, <2>3 DEF TypeOK
<1>7. ASSUME NEW t, NEW l1, NEW l2 \in Label, Join(t, l1, l2) PROVE TypeOK'
  BY <1>7, TypeGoto DEF Join
<1> QED BY <1>1, <1>2, <1>3, <1>4, <1>5, <1>6, <1>7 DEF ShutdownServer, DisconnectAll

(* Each step of the server loop keeps the types and the bound of fds.      *)
LEMMA TypeLoop == TypeOK /\ ServerLoop => TypeOK'
<1> SUFFICES ASSUME TypeOK, ServerLoop PROVE TypeOK'
  OBVIOUS
<1> USE DEF Thread, Mutex, Cursor
<1> USE Labels
<1>0. /\ idx["loop"] + 1 \in Nat \ {0}
      /\ 1 \in Nat \ {0}
      /\ IsFiniteSet(fds) /\ Cardinality(fds) <= FdSetSize
  BY DEF TypeOK, ThreadTypes, LoopTypes
<1>1. CASE FillActive
  <2>1. ThreadTypes' BY <1>0, <1>1, ThreadTypesGoto DEF FillActive
  <2>2. LoopTypes'
    BY <1>0, <1>1, LoopClientListed, FdSetBound DEF FillActive, TypeOK, LoopTypes, FD_SET
  <2>3. ClientTypes' /\ FlagTypes'
    BY <1>1 DEF FillActive, TypeOK, ClientTypes, FlagTypes
  <2> QED BY <2>1, <2>2, <2>3 DEF TypeOK
<1>2. ASSUME NEW who \in {"fill", "handle"}, DisconnectClient(LoopClient, who),
             idx["loop"] <= Len(ClientList), UNCHANGED <<fds, flagVars>>
      PROVE  ClientTypes' /\ LoopTypes' /\ FlagTypes'
  <2>1. ClientList' \in Seq(Addr)
    BY <1>2, RemoveAtProperties DEF DisconnectClient, EraseAt, TypeOK, ClientTypes
  <2>2. ClientTypes'
    BY <1>2, <2>1, LoopClientListed DEF DisconnectClient, TypeOK, ClientTypes
  <2>3. LoopTypes' /\ FlagTypes'
    BY <1>2 DEF DisconnectClient, TypeOK, LoopTypes, FlagTypes
  <2> QED BY <2>2, <2>3
<1>3. CASE FillInactive
  <2>1. ThreadTypes'
    BY <1>3, LoopClientListed, ThreadTypesGoto DEF FillInactive, DisconnectClient
  <2> QED BY <1>2, <1>3, <2>1 DEF FillInactive, TypeOK
<1>4. CASE FillEnd
  <2>1. ThreadTypes' BY <1>4, ThreadTypesGoto DEF FillEnd
  <2>2. LoopTypes'
    BY <1>0, <1>4, FdSetBound DEF FillEnd, TypeOK, LoopTypes, FD_SET
  <2>3. ClientTypes' /\ FlagTypes'
    BY <1>4 DEF FillEnd, TypeOK, ClientTypes, FlagTypes
  <2> QED BY <2>1, <2>2, <2>3 DEF TypeOK
<1>5. ASSUME NEW l1, LoopBack(l1) PROVE TypeOK'
  <2>1. ThreadTypes' BY <1>0, <1>5, ThreadTypesGoto DEF LoopBack
  <2>2. LoopTypes'
    BY <1>5, FS_EmptySet, ConstantsAssumption DEF LoopBack, TypeOK, LoopTypes
  <2>3. ClientTypes' /\ FlagTypes'
    BY <1>5 DEF LoopBack, TypeOK, ClientTypes, FlagTypes
  <2> QED BY <2>1, <2>2, <2>3 DEF TypeOK
<1>6. CASE SelectReady
  <2>1. ThreadTypes' BY <1>6, ThreadTypesGoto DEF SelectReady
  <2>2. LoopTypes'
    <3>1. fds' \in SUBSET fds BY <1>6 DEF SelectReady
    <3>2. IsFiniteSet(fds') /\ Cardinality(fds') <= Cardinality(fds) BY <1>0, <3>1, FS_Subset
    <3>3. Cardinality(fds) \in Nat /\ Cardinality(fds') \in Nat
      BY <1>0, <3>2, FS_CardinalityType
    <3> QED BY <1>0, <1>6, <3>1, <3>2, <3>3, ConstantsAssumption
            DEF SelectReady, TypeOK, LoopTypes
  <2>3. ClientTypes' /\ FlagTypes'
    BY <1>6 DEF SelectReady, TypeOK, ClientTypes, FlagTypes
  <2> QED BY <2>1, <2>2, <2>3 DEF TypeOK
<1>7. CASE SelectError
  <2>1. ThreadTypes' BY <1>7, ThreadTypesGoto DEF SelectError
  <2>2. ClientTypes' /\ LoopTypes'
    BY <1>7 DEF SelectError, TypeOK, ClientTypes, LoopTypes
  <2>3. FlagTypes' BY <1>7 DEF SelectError, TypeOK, FlagTypes
  <2> QED BY <2>1, <2>2, <2>3 DEF TypeOK
<1>8. CASE NoUser
  <2>1. ThreadTypes' BY <1>0, <1>8, ThreadTypesGoto DEF NoUser
  <2> QED BY <1>8, <2>1, TypeFrame DEF NoUser
<1>9. CASE AddUser
  <2>1. ThreadTypes'
    BY <1>0, <1>9 DEF AddUser, TypeOK, ThreadTypes, Goto, Reading
  <2>2. ClientTypes'
    BY <1>9, AppendProperties DEF AddUser, TypeOK, ClientTypes
  <2>3. LoopTypes' /\ FlagTypes'
    BY <1>9 DEF AddUser, TypeOK, LoopTypes, FlagTypes
  <2> QED BY <2>1, <2>2, <2>3 DEF TypeOK
<1>10. CASE HandleSkip
  <2>1. ThreadTypes' BY <1>0, <1>10, ThreadTypesGoto DEF HandleSkip
  <2> QED BY <1>10, <2>1, TypeFrame DEF HandleSkip
<1>11. CASE HandleReceive
  <2>1. ThreadTypes' BY <1>0, <1>11, ThreadTypesGoto DEF HandleReceive
  <2>2. ClientTypes'
    BY <1>11 DEF HandleReceive, TypeOK, ClientTypes
  <2>3. LoopTypes' /\ FlagTypes'
    BY <1>11 DEF HandleReceive, MayBlock, TypeOK, LoopTypes, FlagTypes
  <2> QED BY <2>1, <2>2, <2>3 DEF TypeOK
<1>16. CASE HandleSend
  <2>1. ThreadTypes' BY <1>16, ThreadTypesGoto DEF HandleSend
  <2>2. ClientTypes' /\ LoopTypes' /\ FlagTypes'
    BY <1>16 DEF HandleSend, TypeOK, ClientTypes, LoopTypes, FlagTypes
  <2> QED BY <2>1, <2>2 DEF TypeOK
<1>12. CASE HandleClosed
  <2>1. ThreadTypes'
    BY <1>12, LoopClientListed, ThreadTypesGoto DEF HandleClosed, DisconnectClient
  <2> QED BY <1>2, <1>12, <2>1 DEF HandleClosed, TypeOK
<1>13. CASE LoopLockPlayer
  BY <1>13, TypeLock DEF LoopLockPlayer
<1>14. CASE DeleteClientSocket
  <2>1. ThreadTypes'
    <3>1. caller \in Label BY DEF TypeOK, LoopTypes
    <3> QED BY <1>0, <1>14, <3>1 DEF DeleteClientSocket, TypeOK, ThreadTypes, Goto, Released
  <2>2. ClientTypes'
    BY <1>14 DEF DeleteClientSocket, TypeOK, ClientTypes
  <2>3. LoopTypes' /\ FlagTypes'
    BY <1>14 DEF DeleteClientSocket, TypeOK, LoopTypes, FlagTypes
  <2> QED BY <2>1, <2>2, <2>3 DEF TypeOK
<1>15. CASE LoopReturn
  BY <1>15 DEF LoopReturn, TypeOK, ThreadTypes, ClientTypes, LoopTypes, FlagTypes
<1> QED BY <1>1, <1>3, <1>4, <1>5, <1>6, <1>7, <1>8, <1>9, <1>10, <1>11, <1>12, <1>13,
           <1>14, <1>15, <1>16 DEF ServerLoop, SelectTimeout, HandleEnd

(* Every step keeps the types.                                             *)
LEMMA TypeStep == TypeOK /\ [Next]_vars => TypeOK'
<1>1. TypeOK /\ UNCHANGED vars => TypeOK'
  BY DEF TypeOK, ThreadTypes, ClientTypes, LoopTypes, FlagTypes
<1>2. TypeOK /\ (\E t \in {"loop", "vis"} : SendReturns(t)) => TypeOK'
  BY DEF SendReturns, TypeOK, ThreadTypes, ClientTypes, LoopTypes, FlagTypes
<1> QED BY <1>1, <1>2, TypeMap, TypeVis, TypeWorld, TypeLoop, TypeShutdown DEF Next, Finished

-----------------------------------------------------------------------------
(* Every thread but the loop leaves the list, the heap and the loop alone. *)
LEMMA OthersKeepList ==
  ASSUME MapProcess \/ VisibilityProcess \/ WorldProcess \/ HandleSignal \/ ShutdownServer, TypeOK
  PROVE  UNCHANGED <<ClientList, heap, pc["loop"], ptr["loop"]>>
<1> USE DEF Goto, TypeOK, ThreadTypes, Thread, Cursor
<1>1. CASE MapProcess
  BY <1>1 DEF MapProcess, MapLock, WhileOnline, Lock, Unlock, EmptySection, SizeTest, At, Abort,
              MapUse, NextClient, MapMove, MapUnlockPlayer
<1>2. CASE VisibilityProcess
  BY <1>2 DEF VisibilityProcess, VisLock, WhileOnline, Lock, Unlock, SizeTest, At, Abort,
              VisUse, NextClient, VisInnerUse, VisNPCs, VisUnlockMain
<1>3. CASE WorldProcess
  BY <1>3 DEF WorldProcess, WorldLock, WhileOnline, Lock, EmptySection
<1>4. CASE HandleSignal \/ ShutdownServer
  BY <1>4 DEF HandleSignal, ShutdownServer, DisconnectAll, SizeTest, At, Abort, ShutdownTest,
              NextClient, ShutdownMark, ShutdownOffline, Join, ShutdownDeactivate
<1> QED BY <1>1, <1>2, <1>3, <1>4

(* Only AddUser, DisconnectClient and DeleteClientSocket change what the   *)
(* list and the heap hold, and they keep them in agreement.                *)
LEMMA ListStep == TypeOK /\ ListOwnsHeap /\ [Next]_vars => ListOwnsHeap'
<1> SUFFICES ASSUME TypeOK, ListOwnsHeap, [Next]_vars PROVE ListOwnsHeap'
  OBVIOUS
<1> USE DEF Goto, TypeOK, ThreadTypes, ClientTypes, Thread, Cursor
<1>1. CASE UNCHANGED <<ClientList, heap, pc["loop"], ptr["loop"]>>
  BY <1>1 DEF ListOwnsHeap, ToSet, IsInjective
<1>2. ASSUME pc["loop"] \notin {"lockPlayer", "delete"}, pc'["loop"] = "lockPlayer",
             NEW who, DisconnectClient(LoopClient, who), idx["loop"] <= Len(ClientList)
      PROVE  ListOwnsHeap'
  <2>1. PICK n \in DOMAIN ClientList :
            ClientList[n] = LoopClient /\ ClientList' = RemoveAt(ClientList, n)
    BY <1>2 DEF DisconnectClient, EraseAt
  <2>2. IsInjective(ClientList') /\ ToSet(ClientList') = ToSet(ClientList) \ {LoopClient}
    BY <2>1, EraseFromInjective DEF ListOwnsHeap
  <2>3. ptr'["loop"] = LoopClient /\ heap' = heap
    BY <1>2 DEF DisconnectClient
  <2>4. LoopClient \in ToSet(ClientList) /\ heap = ToSet(ClientList)
    BY <1>2, LoopClientListed DEF ListOwnsHeap
  <2>5. ToSet(ClientList)' = ToSet(ClientList') /\ IsInjective(ClientList)' = IsInjective(ClientList')
    BY DEF ToSet, IsInjective
  <2> QED BY <1>2, <2>2, <2>3, <2>4, <2>5 DEF ListOwnsHeap
<1>3. CASE FillInactive \/ HandleClosed
  BY <1>2, <1>3 DEF FillInactive, HandleClosed
<1>4. CASE AddUser
  <2>1. PICK a \in Addr \ heap : heap' = heap \cup {a} /\ ClientList' = Append(ClientList, a)
    BY <1>4 DEF AddUser
  <2>2. heap = ToSet(ClientList)
    BY <1>4 DEF AddUser, ListOwnsHeap
  <2>3. IsInjective(ClientList') /\ ToSet(ClientList') = ToSet(ClientList) \cup {a}
    BY <2>1, <2>2, AppendToInjective DEF ListOwnsHeap
  <2>4. pc'["loop"] = "handle"
    BY <1>4 DEF AddUser
  <2> QED BY <2>1, <2>2, <2>3, <2>4 DEF ListOwnsHeap, ToSet, IsInjective
<1>5. CASE LoopLockPlayer
  BY <1>5 DEF LoopLockPlayer, Lock, LockLabel, ListOwnsHeap, ToSet, IsInjective
<1>6. CASE DeleteClientSocket
  <2>1. pc'["loop"] \in {"fill", "handle"} /\ ClientList' = ClientList
        /\ heap' = heap \ {ptr["loop"]} /\ pc["loop"] = "delete"
    BY <1>6 DEF DeleteClientSocket, LoopTypes
  <2>2. heap = ToSet(ClientList) \cup {ptr["loop"]} /\ ptr["loop"] \notin ToSet(ClientList)
        /\ IsInjective(ClientList)
    BY <2>1 DEF ListOwnsHeap
  <2>3. ToSet(ClientList)' = ToSet(ClientList) /\ IsInjective(ClientList)'
    BY <2>1, <2>2 DEF ToSet, IsInjective
  <2> QED BY <2>1, <2>2, <2>3 DEF ListOwnsHeap
<1>7. ASSUME UNCHANGED <<ClientList, heap, ptr["loop"]>>,
             pc["loop"] \notin {"lockPlayer", "delete"},
             pc'["loop"] \notin {"lockPlayer", "delete"}
      PROVE  ListOwnsHeap'
  BY <1>7 DEF ListOwnsHeap, ToSet, IsInjective
<1>8. ASSUME FillActive \/ FillEnd \/ SelectTimeout \/ SelectReady \/ SelectError \/ NoUser
             \/ HandleSkip \/ HandleSend \/ HandleReceive \/ HandleEnd
      PROVE  ListOwnsHeap'
  BY <1>7, <1>8 DEF FillActive, FillEnd, SelectTimeout, SelectReady, SelectError, NoUser,
       HandleSkip, HandleSend, HandleReceive, HandleEnd, LoopBack
<1>9. CASE LoopReturn
  BY <1>1, <1>9 DEF LoopReturn
<1>10. CASE ServerLoop
  BY <1>3, <1>4, <1>5, <1>6, <1>8, <1>9, <1>10 DEF ServerLoop
<1>11. CASE Quiet
  BY <1>1, <1>11 DEF Quiet
<1> QED BY <1>1, <1>10, <1>11, OthersKeepList, QuietStep

-----------------------------------------------------------------------------
(* A pointer loaded under PlayerMutex stays in the heap until the mutex is *)
(* released.                                                               *)
LEMMA PointerStep == IndInv /\ [Next]_vars => PointerInv'
<1> SUFFICES ASSUME IndInv, [Next]_vars PROVE PointerInv'
  OBVIOUS
<1> USE DEF IndInv, Goto, TypeOK, ThreadTypes, Thread, Cursor
<1>1. ASSUME UNCHANGED <<pc["map"], pc["vis"], ptr["map"], ptr["vis"], ptr["inner"]>>,
             heap \subseteq heap'
      PROVE  PointerInv'
  BY <1>1 DEF PointerInv
<1>2. /\ \A n \in DOMAIN ClientList : ClientList[n] \in heap
      /\ \A k \in Cursor : idx[k] <= Len(ClientList) => idx[k] \in DOMAIN ClientList
  BY LenProperties DEF ListOwnsHeap, ToSet, ClientTypes
<1>3. CASE MapProcess
  <2>1. UNCHANGED <<heap, pc["vis"], ptr["vis"], ptr["inner"]>>
    BY <1>3 DEF MapProcess, MapLock, WhileOnline, Lock, Unlock, EmptySection, SizeTest, At,
                Abort, MapUse, NextClient, MapMove, MapUnlockPlayer
  <2>2. pc'["map"] \in {"at", "use", "lockMain", "move"} => ptr'["map"] \in heap
    <3>1. CASE SizeTest("map", "map", "size", "at", "unlockPlayer")
      BY <1>2, <3>1 DEF SizeTest
    <3>2. CASE At("map", "map", "at", "use")
      BY <1>2, <3>2 DEF At, Abort, PointerInv
    <3>3. CASE MapUse
      BY <3>3 DEF MapUse, NextClient, PointerInv
    <3>4. CASE MapLock
      BY <3>4 DEF MapLock, Lock, EmptySection, LockLabel, PointerInv
    <3>5. CASE WhileOnline("map", "lockPlayer") \/ MapMove \/ MapUnlockPlayer
      BY <3>5 DEF WhileOnline, MapMove, MapUnlockPlayer, Unlock
    <3> QED BY <1>3, <3>1, <3>2, <3>3, <3>4, <3>5 DEF MapProcess
  <2> QED BY <2>1, <2>2 DEF PointerInv
<1>4. CASE VisibilityProcess
  <2>1. UNCHANGED <<heap, pc["map"], ptr["map"]>>
    BY <1>4 DEF VisibilityProcess, VisLock, WhileOnline, Lock, Unlock, SizeTest, At, Abort,
                VisUse, NextClient, VisInnerUse, VisNPCs, VisUnlockMain
  <2>2. /\ pc'["vis"] \in {"at", "use", "lockMain", "innerSize", "innerAt", "innerUse",
                           "npcs", "unlockMain"} => ptr'["vis"] \in heap
        /\ pc'["vis"] \in {"innerAt", "innerUse"} => ptr'["inner"] \in heap
    <3>1. CASE SizeTest("vis", "vis", "size", "at", "unlock")
      BY <1>2, <3>1 DEF SizeTest
    <3>2. CASE At("vis", "vis", "at", "use")
      BY <1>2, <3>2 DEF At, Abort, PointerInv
    <3>3. CASE VisUse \/ VisInnerUse \/ VisNPCs
      BY <3>3 DEF VisUse, VisInnerUse, VisNPCs, NextClient, PointerInv
    <3>4. CASE VisLock
      BY <3>4 DEF VisLock, Lock, LockLabel, PointerInv
    <3>5. CASE SizeTest("vis", "inner", "innerSize", "innerAt", "npcs")
      BY <1>2, <3>5 DEF SizeTest, PointerInv
    <3>6. CASE At("vis", "inner", "innerAt", "innerUse")
      BY <1>2, <3>6 DEF At, Abort, PointerInv
    <3>7. CASE WhileOnline("vis", "lockDrop") \/ VisUnlockMain
               \/ Unlock("vis", {"Player", "Monster", "Drop"}, "unlock", "while")
      BY <3>7 DEF WhileOnline, VisUnlockMain, Unlock
    <3> QED BY <1>4, <3>1, <3>2, <3>3, <3>4, <3>5, <3>6, <3>7 DEF VisibilityProcess
  <2> QED BY <2>1, <2>2 DEF PointerInv
<1>5. CASE WorldProcess
  BY <1>1, <1>5 DEF WorldProcess, WorldLock, WhileOnline, Lock, EmptySection
<1>6. CASE HandleSignal \/ ShutdownServer
  BY <1>1, <1>6 DEF HandleSignal, ShutdownServer, DisconnectAll, SizeTest, At, Abort,
       ShutdownTest, NextClient, ShutdownMark, ShutdownOffline, Join, ShutdownDeactivate
<1>7. CASE DeleteClientSocket
  (* The loop owns PlayerMutex: no worker is where it needs a live pointer. *)
  <2>1. mutex["Player"] = "loop"
    BY <1>7 DEF DeleteClientSocket, MutexInv, Region, Mutex
  <2>2. pc["map"] \notin Region("map", "Player") /\ pc["vis"] \notin Region("vis", "Player")
    BY <2>1 DEF MutexInv, Mutex
  <2>3. pc'["map"] = pc["map"] /\ pc'["vis"] = pc["vis"]
    BY <1>7 DEF DeleteClientSocket
  <2> QED BY <2>2, <2>3 DEF Region, PointerInv
<1>8. CASE ServerLoop /\ ~ DeleteClientSocket
  BY <1>1, <1>8 DEF ServerLoop, FillActive, FillInactive, FillEnd, SelectTimeout, SelectReady,
       SelectError, NoUser, AddUser, HandleSkip, HandleSend, HandleReceive, HandleClosed, HandleEnd,
       LoopBack, DisconnectClient, LoopLockPlayer, Lock, LoopReturn
<1>9. CASE Quiet
  BY <1>1, <1>9 DEF Quiet
<1> QED BY <1>3, <1>4, <1>5, <1>6, <1>7, <1>8, <1>9, QuietStep

(* When OnServerReady has created the threads the invariant holds.         *)
LEMMA InitIndInv == Init => IndInv
<1> SUFFICES ASSUME Init PROVE IndInv
  OBVIOUS
<1>1. \A t \in Thread : pc[t] = CASE t = "loop"     -> "fill"
                                  [] t = "shutdown" -> "idle"
                                  [] t \in Created  -> "while"
                                  [] OTHER          -> "done"
  BY DEF Init
<1>2. pc["loop"] = "fill" /\ pc["shutdown"] = "idle"
      /\ \A t \in {"map", "vis", "world"} : pc[t] \in {"while", "done"}
  BY <1>1, ConstantsAssumption DEF Thread
<1>3. TypeOK
  <2>1. pc \in [Thread -> Label]
    <3>1. \A t \in Thread : pc[t] \in Label BY <1>2, Labels DEF Thread
    <3> QED BY <3>1 DEF Init
  <2>2. /\ mutex = [m \in Mutex |-> None]
        /\ idx = [k \in Cursor |-> 1]
        /\ ptr = [k \in Cursor |-> None]
        /\ moved = {}
    BY DEF Init
  <2>3. ThreadTypes
    BY <2>1, <2>2 DEF ThreadTypes
  <2>4. ClientTypes /\ FlagTypes
    <3>1. /\ ClientList = <<>> /\ heap = {}
          /\ isActive = [a \in Addr |-> FALSE] /\ inGame = [a \in Addr |-> FALSE]
          /\ FlagTypes
      BY DEF Init, FlagTypes
    <3> QED BY <3>1, EmptySeq DEF ClientTypes
  <2>5. LoopTypes
    BY FS_EmptySet, ConstantsAssumption DEF Init, LoopTypes
  <2> QED BY <2>3, <2>4, <2>5 DEF TypeOK
<1>4. MutexInv
  BY <1>2, ConstantsAssumption DEF Init, MutexInv, Region, Thread, Mutex
<1>5. ListOwnsHeap
  BY <1>2 DEF Init, ListOwnsHeap, ToSet, IsInjective
<1>6. PointerInv
  BY <1>2 DEF PointerInv
<1> QED BY <1>3, <1>4, <1>5, <1>6 DEF IndInv

(* IndInv is an invariant, with any number of client objects.              *)
THEOREM Invariance == Spec => []IndInv
<1>1. IndInv /\ [Next]_vars => IndInv'
  BY TypeStep, MutexStep, ListStep, PointerStep DEF IndInv
<1> QED BY InitIndInv, <1>1, PTL DEF Spec

-----------------------------------------------------------------------------
(* Every variable keeps its type, and FillFDS never overfills the fd_set.  *)
THEOREM TypeCorrect == Spec => []TypeOK
  BY Invariance, PTL DEF IndInv

(* The five threads lock in the order Drop, Monster, Player, Main.         *)
THEOREM LockOrderHolds == Spec => []LockOrder
<1>1. IndInv => LockOrder
  BY DEF IndInv, MutexInv, LockOrder, LockLabel, Region, Rank, Thread, Mutex
<1> QED BY Invariance, <1>1, PTL

(* No deadlock: a thread that is waited for is never ShutdownServer, so it *)
(* waits in pthread_mutex_lock itself, for a mutex of higher rank than the *)
(* one it is waited for; there are only four ranks.                        *)
THEOREM DeadlockFree == Spec => []NoCircularWait
<1>1. ASSUME IndInv, NEW group \in (SUBSET Thread) \ {{}},
             \A t \in group : \E u \in group : u \in Awaited(t)
      PROVE  FALSE
  <2>1. \A m \in Mutex : mutex[m] # "shutdown"
    BY <1>1 DEF IndInv, MutexInv, Region, Thread
  <2>2. \A t \in group : \E u \in group \ {"shutdown"} : u \in Awaited(t)
    BY <1>1, <2>1 DEF Awaited, Worker
  <2>3. ASSUME NEW t \in group \ {"shutdown"}
        PROVE  \E m \in Mutex : /\ pc[t] = LockLabel(m)
                                /\ mutex[m] \in group \ {"shutdown"}
    BY <2>2 DEF Awaited
  <2>4. ASSUME NEW t \in Thread, NEW m \in Mutex, NEW n \in Mutex,
               pc[t] = LockLabel(m), mutex[n] = t
        PROVE  Rank(n) < Rank(m)
    BY <1>1, <2>4 DEF IndInv, MutexInv, LockLabel, Region, Rank, Thread, Mutex
  <2>5. \A m \in Mutex : Rank(m) \in 1..4
    BY DEF Rank, Mutex
  <2>6. PICK t0 \in group \ {"shutdown"} : t0 \in group
    <3>1. group # {}
      OBVIOUS
    <3>2. \E t : t \in group
      BY <3>1
    <3> QED BY <2>2, <3>2
  <2>7. PICK m0 \in Mutex : mutex[m0] \in group \ {"shutdown"}
    BY <2>3, <2>6
  <2>8. PICK m1 \in Mutex : Rank(m0) < Rank(m1) /\ mutex[m1] \in group \ {"shutdown"}
    BY <2>3, <2>4, <2>7
  <2>9. PICK m2 \in Mutex : Rank(m1) < Rank(m2) /\ mutex[m2] \in group \ {"shutdown"}
    BY <2>3, <2>4, <2>8
  <2>10. PICK m3 \in Mutex : Rank(m2) < Rank(m3) /\ mutex[m3] \in group \ {"shutdown"}
    BY <2>3, <2>4, <2>9
  <2>11. PICK m4 \in Mutex : Rank(m3) < Rank(m4)
    BY <2>3, <2>4, <2>10
  <2>12. /\ Rank(m0) \in 1..4 /\ Rank(m1) \in 1..4 /\ Rank(m2) \in 1..4
         /\ Rank(m3) \in 1..4 /\ Rank(m4) \in 1..4
    BY <2>5
  <2> QED BY <2>8, <2>9, <2>10, <2>11, <2>12
<1>2. IndInv => NoCircularWait
  <2> SUFFICES ASSUME IndInv, NEW group \in (SUBSET {t \in Thread : Awaited(t) # {}}) \ {{}},
                      ~ \E t \in group : Awaited(t) \cap group = {}
               PROVE  FALSE
    BY DEF NoCircularWait
  <2>1. group \in (SUBSET Thread) \ {{}}
    OBVIOUS
  <2>2. \A t \in group : \E u \in group : u \in Awaited(t)
    OBVIOUS
  <2> QED BY <1>1, <2>1, <2>2
<1> QED BY Invariance, <1>2, PTL

(* Erasing without a lock never leaks, duplicates or double-frees a client.*)
THEOREM ListOwnsHeapHolds == Spec => []ListOwnsHeap
  BY Invariance, PTL DEF IndInv

(* MapProcess and VisibilityProcess dereference live clients only, because *)
(* the delete takes the PlayerMutex the erase does not.                    *)
THEOREM WorkersSafe == Spec => []WorkersUseLiveClients
<1>1. IndInv => WorkersUseLiveClients
  BY DEF IndInv, PointerInv, WorkersUseLiveClients, Dereferences
<1> QED BY Invariance, <1>1, PTL

-----------------------------------------------------------------------------
(* The walks: OneEraseUnderWalk is inductive relative to IndInv.           *)
LEMMA WalkStep == IndInv /\ OneEraseUnderWalk /\ [Next]_vars => OneEraseUnderWalk'
<1> SUFFICES ASSUME IndInv, OneEraseUnderWalk, [Next]_vars,
                    NEW k \in {"map", "vis", "inner"}, AboutToLoad(k)', idx'[k] > Len(ClientList')
             PROVE  pc'["loop"] = "lockPlayer" /\ idx'[k] = Len(ClientList') + 1
  BY DEF OneEraseUnderWalk
<1> USE DEF IndInv, Goto, TypeOK, ThreadTypes, Thread, Cursor
<1>0. Len(ClientList) \in Nat /\ idx[k] \in Nat /\ idx'[k] \in Nat
  <2>1. ThreadTypes'
    BY TypeStep
  <2> QED BY <2>1, LenProperties DEF ClientTypes
<1>1. ASSUME UNCHANGED <<ClientList, pc["loop"]>>,
             (AboutToLoad(k) /\ idx'[k] = idx[k]) \/ idx'[k] <= Len(ClientList)
      PROVE  pc'["loop"] = "lockPlayer" /\ idx'[k] = Len(ClientList') + 1
  <2>1. ClientList' = ClientList /\ AboutToLoad(k) /\ idx'[k] = idx[k]
    BY <1>0, <1>1
  <2> QED BY <1>1, <2>1 DEF OneEraseUnderWalk
<1>2. CASE MapProcess
  <2>1. UNCHANGED <<ClientList, pc["loop"], pc["vis"], idx["vis"], idx["inner"]>>
    BY <1>2 DEF MapProcess, MapLock, WhileOnline, Lock, Unlock, EmptySection, SizeTest, At,
                Abort, MapUse, NextClient, MapMove, MapUnlockPlayer
  <2>2. k = "map" => (AboutToLoad(k) /\ idx'[k] = idx[k]) \/ idx'[k] <= Len(ClientList)
    BY <1>2 DEF MapProcess, MapLock, WhileOnline, Lock, Unlock, EmptySection, SizeTest, At,
                Abort, MapUse, NextClient, MapMove, MapUnlockPlayer, AboutToLoad
  <2>3. k # "map" => AboutToLoad(k) /\ idx'[k] = idx[k]
    BY <2>1 DEF AboutToLoad
  <2> QED BY <1>1, <2>1, <2>2, <2>3
<1>3. CASE VisibilityProcess
  <2>1. UNCHANGED <<ClientList, pc["loop"], pc["map"], idx["map"]>>
    BY <1>3 DEF VisibilityProcess, VisLock, WhileOnline, Lock, Unlock, SizeTest, At, Abort,
                VisUse, NextClient, VisInnerUse, VisNPCs, VisUnlockMain
  <2>2. k # "map" => (AboutToLoad(k) /\ idx'[k] = idx[k]) \/ idx'[k] <= Len(ClientList)
    BY <1>3 DEF VisibilityProcess, VisLock, WhileOnline, Lock, Unlock, SizeTest, At, Abort,
                VisUse, NextClient, VisInnerUse, VisNPCs, VisUnlockMain, AboutToLoad
  <2>3. k = "map" => AboutToLoad(k) /\ idx'[k] = idx[k]
    BY <2>1 DEF AboutToLoad
  <2> QED BY <1>1, <2>1, <2>2, <2>3
<1>4. CASE UNCHANGED <<ClientList, pc["loop"], pc["map"], pc["vis"], idx["map"], idx["vis"],
                       idx["inner"]>>
  BY <1>1, <1>4 DEF AboutToLoad
<1>5. CASE WorldProcess
  BY <1>4, <1>5 DEF WorldProcess, WorldLock, WhileOnline, Lock, EmptySection
<1>6. CASE HandleSignal \/ ShutdownServer
  BY <1>4, <1>6 DEF HandleSignal, ShutdownServer, DisconnectAll, SizeTest, At, Abort,
       ShutdownTest, NextClient, ShutdownMark, ShutdownOffline, Join, ShutdownDeactivate
<1>7. CASE ServerLoop
  <2>1. AboutToLoad(k) /\ idx'[k] = idx[k]
    BY <1>7 DEF AboutToLoad, ServerLoop, FillActive, FillInactive, FillEnd, SelectTimeout,
         SelectReady, SelectError, NoUser, AddUser, HandleSkip, HandleSend, HandleReceive, HandleClosed,
         HandleEnd, LoopBack, DisconnectClient, LoopLockPlayer, Lock, DeleteClientSocket,
         LoopReturn
  <2>2. mutex["Player"] \in {"map", "vis"}
    <3>1. pc["map"] = "at" \/ pc["vis"] \in {"at", "innerAt"}
      BY <2>1 DEF AboutToLoad
    <3> QED BY <3>1 DEF MutexInv, Region, Mutex
  <2>3. ~ LoopLockPlayer /\ ~ DeleteClientSocket /\ pc["loop"] # "delete"
    BY <2>2, ConstantsAssumption
       DEF LoopLockPlayer, Lock, DeleteClientSocket, MutexInv, Region, Mutex
  <2>4. CASE FillInactive \/ HandleClosed
    <3>1. pc["loop"] # "lockPlayer" /\ pc'["loop"] = "lockPlayer"
      BY <2>4 DEF FillInactive, HandleClosed
    <3>2. PICK n \in DOMAIN ClientList : ClientList' = RemoveAt(ClientList, n)
      BY <2>4 DEF FillInactive, HandleClosed, DisconnectClient, EraseAt
    <3>3. Len(ClientList') = Len(ClientList) - 1
      BY <3>2, RemoveAtProperties DEF ClientTypes
    <3>4. idx[k] <= Len(ClientList)
      BY <1>0, <2>1, <3>1 DEF OneEraseUnderWalk
    <3> QED BY <1>0, <2>1, <3>1, <3>3, <3>4
  <2>5. CASE AddUser
    <3>1. pc["loop"] # "lockPlayer" /\ Len(ClientList') = Len(ClientList) + 1
      BY <2>5, AppendProperties DEF AddUser, ClientTypes
    <3> QED BY <1>0, <2>1, <3>1 DEF OneEraseUnderWalk
  <2>6. CASE LoopReturn
    BY <1>1, <2>1, <2>6 DEF LoopReturn
  <2>7. ASSUME pc["loop"] # "lockPlayer", UNCHANGED ClientList PROVE FALSE
    BY <1>0, <2>1, <2>7 DEF OneEraseUnderWalk
  <2>8. CASE FillActive \/ FillEnd \/ SelectTimeout \/ SelectReady \/ SelectError \/ NoUser
             \/ HandleSkip \/ HandleSend \/ HandleReceive \/ HandleEnd
    BY <2>7, <2>8 DEF FillActive, FillEnd, SelectTimeout, SelectReady, SelectError, NoUser,
         HandleSkip, HandleSend, HandleReceive, HandleEnd, LoopBack
  <2> QED BY <1>7, <2>3, <2>4, <2>5, <2>6, <2>8 DEF ServerLoop
<1>8. CASE Quiet
  BY <1>4, <1>8 DEF Quiet
<1> QED BY <1>2, <1>3, <1>5, <1>6, <1>7, <1>8, QuietStep

(* A worker's at() is out of range by one at most, and only while the loop *)
(* waits to delete the client it erased.                                   *)
THEOREM OneEraseHolds == Spec => []OneEraseUnderWalk
<1>1. Init => OneEraseUnderWalk
  <2> SUFFICES ASSUME Init PROVE OneEraseUnderWalk
    OBVIOUS
  <2>1. \A t \in {"map", "vis"} : pc[t] \in {"while", "done"}
    BY ConstantsAssumption DEF Init, Thread
  <2> QED BY <2>1 DEF OneEraseUnderWalk, AboutToLoad
<1> QED BY Invariance, <1>1, WalkStep, PTL DEF Spec

-----------------------------------------------------------------------------
(* The end of the process: ShutdownServer has joined the workers it has    *)
(* passed, and only it or a failed select makes the loop return.           *)
JoinInv ==
    /\ pc["shutdown"] \in {"joinVis", "joinMap", "deactivate", "done"} => pc["world"] = "done"
    /\ pc["shutdown"] \in {"joinMap", "deactivate", "done"} => pc["vis"] = "done"
    /\ pc["shutdown"] \in {"deactivate", "done"} => pc["map"] = "done"
    /\ ~ serverActive => selectFailed \/ pc["shutdown"] = "done"
    /\ pc["loop"] = "return" => ~ serverActive

(* A worker that is done stays done, and the shutdown goes by the joins.   *)
LEMMA JoinStep == TypeOK /\ JoinInv /\ [Next]_vars => JoinInv'
<1> SUFFICES ASSUME TypeOK, JoinInv, [Next]_vars PROVE JoinInv'
  OBVIOUS
<1> USE DEF Goto, TypeOK, ThreadTypes, Thread
<1>1. ASSUME UNCHANGED <<pc["loop"], pc["shutdown"], serverActive, selectFailed>>,
             \A t \in Worker : pc[t] = "done" => pc'[t] = "done"
      PROVE  JoinInv'
  BY <1>1 DEF JoinInv, Worker
<1>2. CASE MapProcess
  <2>1. /\ UNCHANGED <<pc["loop"], pc["shutdown"], pc["vis"], pc["world"], serverActive,
                       selectFailed>>
        /\ pc["map"] = "done" => pc'["map"] = "done"
    BY <1>2 DEF MapProcess, MapLock, WhileOnline, Lock, LockLabel, Unlock, EmptySection,
                SizeTest, At, Abort, MapUse, NextClient, MapMove, MapUnlockPlayer
  <2> QED BY <1>1, <2>1 DEF Worker
<1>3. CASE VisibilityProcess
  <2>1. /\ UNCHANGED <<pc["loop"], pc["shutdown"], pc["map"], pc["world"], serverActive,
                       selectFailed>>
        /\ pc["vis"] = "done" => pc'["vis"] = "done"
    BY <1>3 DEF VisibilityProcess, VisLock, WhileOnline, Lock, LockLabel, Unlock, SizeTest, At,
                Abort, VisUse, NextClient, VisInnerUse, VisNPCs, VisUnlockMain
  <2> QED BY <1>1, <2>1 DEF Worker
<1>4. CASE WorldProcess
  <2>1. /\ UNCHANGED <<pc["loop"], pc["shutdown"], pc["map"], pc["vis"], serverActive,
                       selectFailed>>
        /\ pc["world"] = "done" => pc'["world"] = "done"
    BY <1>4 DEF WorldProcess, WorldLock, WhileOnline, Lock, LockLabel, EmptySection
  <2> QED BY <1>1, <2>1 DEF Worker
<1>5. CASE HandleSignal \/ ShutdownServer
  <2>1. UNCHANGED <<pc["loop"], pc["map"], pc["vis"], pc["world"], selectFailed>>
    BY <1>5 DEF HandleSignal, ShutdownServer, DisconnectAll, SizeTest, At, Abort,
       ShutdownTest, NextClient, ShutdownMark, ShutdownOffline, Join, ShutdownDeactivate
  <2>2. CASE HandleSignal \/ DisconnectAll \/ ShutdownOffline
    BY <2>1, <2>2 DEF HandleSignal, DisconnectAll, SizeTest, At, Abort,
       ShutdownTest, NextClient, ShutdownMark, ShutdownOffline, JoinInv
  <2>3. CASE Join("world", "joinWorld", "joinVis")
    BY <2>1, <2>3 DEF Join, JoinInv
  <2>4. CASE Join("vis", "joinVis", "joinMap")
    BY <2>1, <2>4 DEF Join, JoinInv
  <2>5. CASE Join("map", "joinMap", "deactivate")
    BY <2>1, <2>5 DEF Join, JoinInv
  <2>6. CASE ShutdownDeactivate
    BY <2>1, <2>6 DEF ShutdownDeactivate, JoinInv
  <2> QED BY <1>5, <2>2, <2>3, <2>4, <2>5, <2>6 DEF ShutdownServer
<1>6. CASE ServerLoop
  <2>1. UNCHANGED <<pc["shutdown"], pc["map"], pc["vis"], pc["world"]>>
    BY <1>6 DEF ServerLoop, FillActive, FillInactive, FillEnd, SelectTimeout,
         SelectReady, SelectError, NoUser, AddUser, HandleSkip, HandleSend, HandleReceive, HandleClosed,
         HandleEnd, LoopBack, DisconnectClient, LoopLockPlayer, Lock, DeleteClientSocket,
         LoopReturn
  <2>2. CASE LoopBack("select") \/ LoopBack("handle")
    BY <2>1, <2>2 DEF LoopBack, JoinInv
  <2>3. CASE SelectError
    BY <2>1, <2>3 DEF SelectError, JoinInv, FlagTypes
  <2>4. CASE LoopReturn
    BY <2>1, <2>4 DEF LoopReturn, JoinInv
  <2>5. CASE FillActive \/ FillInactive \/ FillEnd \/ SelectReady \/ NoUser \/ AddUser
             \/ HandleSkip \/ HandleSend \/ HandleReceive \/ HandleClosed \/ LoopLockPlayer
             \/ DeleteClientSocket
    <3>1. pc'["loop"] # "return" /\ UNCHANGED <<serverActive, selectFailed>>
      BY <2>5 DEF FillActive, FillInactive, FillEnd, SelectReady, NoUser, AddUser, HandleSkip,
           HandleSend, HandleReceive, HandleClosed, LoopLockPlayer, Lock, DeleteClientSocket, LoopTypes
    <3> QED BY <2>1, <3>1 DEF JoinInv
  <2> QED BY <1>6, <2>2, <2>3, <2>4, <2>5 DEF ServerLoop, SelectTimeout, HandleEnd
<1>7. CASE Quiet
  BY <1>7 DEF JoinInv, Quiet
<1> QED BY <1>2, <1>3, <1>4, <1>5, <1>6, <1>7, QuietStep

(* Unless select failed, main returns after ShutdownServer has joined the  *)
(* three workers.                                                          *)
THEOREM WorkersJoined == Spec => []WorkersJoinedBeforeReturn
<1>1. Init => JoinInv
  <2> SUFFICES ASSUME Init PROVE JoinInv
    OBVIOUS
  <2>1. \A t \in Thread : pc[t] = CASE t = "loop"     -> "fill"
                                    [] t = "shutdown" -> "idle"
                                    [] t \in Created  -> "while"
                                    [] OTHER          -> "done"
    BY DEF Init
  <2>2. pc["shutdown"] = "idle" /\ pc["loop"] = "fill"
    BY <2>1, ConstantsAssumption DEF Thread
  <2>3. serverActive
    BY DEF Init
  <2> QED BY <2>2, <2>3 DEF JoinInv
<1>2. JoinInv => WorkersJoinedBeforeReturn
  BY DEF JoinInv, WorkersJoinedBeforeReturn, Worker
<1> QED BY TypeCorrect, <1>1, <1>2, JoinStep, PTL DEF Spec

-----------------------------------------------------------------------------
(* The refinement of ClientLifecycle.                                      *)

(* The cursors of the workers.                                             *)
Walker == {"map", "vis", "inner"}

(* A step that loads no pointer into a walker's cursor releases some, or   *)
(* none.                                                                   *)
LEMMA InUseShrinks ==
  ASSUME \A k \in Walker : Dereferences(k)' => Dereferences(k) /\ ptr'[k] = ptr[k]
  PROVE  InUse' \subseteq InUse
<1>1. InUse = {ptr[k] : k \in {c \in Walker : Dereferences(c)}}
  BY DEF InUse, Walker
<1>2. InUse' = {ptr'[k] : k \in {c \in Walker : Dereferences(c)'}}
  BY DEF InUse, Walker
<1> HIDE DEF Walker
<1> QED BY <1>1, <1>2

(* The load of one walker's pointer, with the others as they were.         *)
LEMMA InUseGrows ==
  ASSUME NEW w \in Walker, ~ Dereferences(w), Dereferences(w)',
         \A k \in Walker \ {w} : /\ Dereferences(k)' <=> Dereferences(k)
                                 /\ ptr'[k] = ptr[k]
  PROVE  InUse' = InUse \cup {ptr'[w]}
<1>1. InUse = {ptr[k] : k \in {c \in Walker : Dereferences(c)}}
  BY DEF InUse, Walker
<1>2. InUse' = {ptr'[k] : k \in {c \in Walker : Dereferences(c)'}}
  BY DEF InUse, Walker
<1> HIDE DEF Walker
<1> QED BY <1>1, <1>2

(* at() loads a client that is listed, or the one being closed.            *)
LEMMA LoadsLive ==
  ASSUME IndInv, NEW k \in Walker, NEW a,
         ptr[k] \in heap,
         a \in {ptr[k]} \cup {ClientList[n] : n \in {idx[k]} \cap DOMAIN ClientList}
  PROVE  a \in ToSet(ClientList) \cup Closing /\ a \in Addr
  BY DEF IndInv, TypeOK, ClientTypes, ListOwnsHeap, Closing, ToSet

(* The steps of MapProcess only load and release.                          *)
LEMMA LifecycleMap == IndInv /\ MapProcess => [Lifecycle!Next]_(Lifecycle!vars)
<1> SUFFICES ASSUME IndInv, MapProcess PROVE Lifecycle!Next \/ UNCHANGED Lifecycle!vars
  OBVIOUS
<1> USE DEF Goto, Thread, Cursor
<1>t. pc \in [Thread -> Label] /\ ptr \in [Cursor -> Addr \cup {None}]
  BY DEF IndInv, TypeOK, ThreadTypes
<1>1. UNCHANGED <<ClientList, heap, pc["loop"], pc["vis"], ptr["loop"], ptr["vis"], ptr["inner"]>>
  BY <1>t DEF MapProcess, MapLock, WhileOnline, Lock, Unlock, EmptySection, SizeTest, At,
              Abort, MapUse, NextClient, MapMove, MapUnlockPlayer
<1>2. ToSet(ClientList)' = ToSet(ClientList) /\ heap' = heap /\ Closing' = Closing
  BY <1>1 DEF ToSet, Closing
<1>3. \A k \in {"vis", "inner"} : (Dereferences(k)' <=> Dereferences(k)) /\ ptr'[k] = ptr[k]
  BY <1>1 DEF Dereferences
<1>4. CASE At("map", "map", "at", "use") /\ pc'["map"] = "use"
  <2>1. pc["map"] = "at" /\ ptr["map"] \in heap
    BY <1>4 DEF At, Abort, IndInv, PointerInv
  <2>2. PICK a \in {ptr["map"]} \cup {ClientList[n] : n \in {idx["map"]} \cap DOMAIN ClientList} :
            ptr' = [ptr EXCEPT !["map"] = a]
    BY <1>4, <2>1 DEF At, Abort, threadVars
  <2>3. ptr'["map"] = a
    BY <1>t, <2>2
  <2>4. a \in ToSet(ClientList) \cup Closing /\ a \in Addr
    BY <2>1, <2>2, LoadsLive DEF Walker
  <2>5. ~ Dereferences("map") /\ Dereferences("map")'
    BY <1>4, <2>1 DEF Dereferences
  <2>6. InUse' = InUse \cup {ptr'["map"]}
    BY <1>3, <2>5, InUseGrows DEF Walker
  <2>7. Lifecycle!Load(a)
    BY <1>2, <2>3, <2>4, <2>6 DEF Lifecycle!Load
  <2> QED BY <2>4, <2>7 DEF Lifecycle!Next
<1>5. CASE ~ (At("map", "map", "at", "use") /\ pc'["map"] = "use")
  <2>1. Dereferences("map")' => Dereferences("map") /\ ptr'["map"] = ptr["map"]
    BY <1>t, <1>5 DEF MapProcess, MapLock, WhileOnline, Lock, LockLabel, Unlock, EmptySection,
            SizeTest, At, Abort, MapUse, NextClient, MapMove, MapUnlockPlayer, Dereferences
  <2>2. InUse' \subseteq InUse
    BY <1>3, <2>1, InUseShrinks DEF Walker
  <2>3. Lifecycle!Release
    BY <1>2, <2>2 DEF Lifecycle!Release
  <2> QED BY <2>3 DEF Lifecycle!Next
<1> QED BY <1>4, <1>5

(* The steps of VisibilityProcess only load and release; its two loops     *)
(* load through cursors of their own.                                      *)
LEMMA LifecycleVis == IndInv /\ VisibilityProcess => [Lifecycle!Next]_(Lifecycle!vars)
<1> SUFFICES ASSUME IndInv, VisibilityProcess PROVE Lifecycle!Next \/ UNCHANGED Lifecycle!vars
  OBVIOUS
<1> USE DEF Goto, Thread, Cursor
<1>t. pc \in [Thread -> Label] /\ ptr \in [Cursor -> Addr \cup {None}]
  BY DEF IndInv, TypeOK, ThreadTypes
<1>1. UNCHANGED <<ClientList, heap, pc["loop"], pc["map"], ptr["loop"], ptr["map"]>>
  BY <1>t DEF VisibilityProcess, VisLock, WhileOnline, Lock, Unlock, SizeTest, At, Abort,
              VisUse, NextClient, VisInnerUse, VisNPCs, VisUnlockMain
<1>2. ToSet(ClientList)' = ToSet(ClientList) /\ heap' = heap /\ Closing' = Closing
  BY <1>1 DEF ToSet, Closing
<1>3. (Dereferences("map")' <=> Dereferences("map")) /\ ptr'["map"] = ptr["map"]
  BY <1>1 DEF Dereferences
<1>4. ASSUME NEW w \in {"vis", "inner"}, NEW l1, NEW l2, At("vis", w, l1, l2), pc' # pc,
             ptr[w] \in heap, ~ Dereferences(w), Dereferences(w)',
             \A k \in {"vis", "inner"} \ {w} : Dereferences(k)' <=> Dereferences(k)
      PROVE  Lifecycle!Next
  <2>1. PICK a \in {ptr[w]} \cup {ClientList[n] : n \in {idx[w]} \cap DOMAIN ClientList} :
            ptr' = [ptr EXCEPT ![w] = a]
    BY <1>4 DEF At, Abort, threadVars
  <2>2. ptr'[w] = a /\ \A k \in {"vis", "inner"} \ {w} : ptr'[k] = ptr[k]
    BY <1>t, <2>1
  <2>3. a \in ToSet(ClientList) \cup Closing /\ a \in Addr
    BY <1>4, <2>1, LoadsLive DEF Walker
  <2>4. InUse' = InUse \cup {ptr'[w]}
    BY <1>3, <1>4, <2>2, InUseGrows DEF Walker
  <2>5. Lifecycle!Load(a)
    BY <1>2, <2>2, <2>3, <2>4 DEF Lifecycle!Load
  <2> QED BY <2>3, <2>5 DEF Lifecycle!Next
<1>5. CASE At("vis", "vis", "at", "use") /\ pc' # pc
  <2>1. pc["vis"] = "at" /\ pc'["vis"] = "use" /\ ptr["vis"] \in heap
    BY <1>t, <1>5 DEF At, Abort, threadVars, IndInv, PointerInv
  <2> QED BY <1>4, <1>5, <2>1 DEF Dereferences
<1>6. CASE At("vis", "inner", "innerAt", "innerUse") /\ pc' # pc
  <2>1. pc["vis"] = "innerAt" /\ pc'["vis"] = "innerUse" /\ ptr["inner"] \in heap
    BY <1>t, <1>6 DEF At, Abort, threadVars, IndInv, PointerInv
  <2> QED BY <1>4, <1>6, <2>1 DEF Dereferences
<1>7. CASE /\ ~ (At("vis", "vis", "at", "use") /\ pc' # pc)
           /\ ~ (At("vis", "inner", "innerAt", "innerUse") /\ pc' # pc)
  <2>1. \A k \in {"vis", "inner"} : Dereferences(k)' => Dereferences(k) /\ ptr'[k] = ptr[k]
    BY <1>t, <1>7 DEF VisibilityProcess, VisLock, WhileOnline, Lock, LockLabel, Unlock, SizeTest,
            At, Abort, VisUse, NextClient, VisInnerUse, VisNPCs, VisUnlockMain, Dereferences
  <2>2. InUse' \subseteq InUse
    BY <1>3, <2>1, InUseShrinks DEF Walker
  <2>3. Lifecycle!Release
    BY <1>2, <2>2 DEF Lifecycle!Release
  <2> QED BY <2>3 DEF Lifecycle!Next
<1> QED BY <1>5, <1>6, <1>7

(* AddUser connects, DisconnectClient closes and DeleteClientSocket, which *)
(* owns PlayerMutex, deletes a client no worker uses; the loop's other     *)
(* steps are not seen.                                                     *)
LEMMA LifecycleLoop == IndInv /\ ServerLoop => [Lifecycle!Next]_(Lifecycle!vars)
<1> SUFFICES ASSUME IndInv, ServerLoop PROVE Lifecycle!Next \/ UNCHANGED Lifecycle!vars
  OBVIOUS
<1> USE DEF Goto, Thread, Cursor
<1>t. /\ pc \in [Thread -> Label] /\ ptr \in [Cursor -> Addr \cup {None}]
      /\ ClientList \in Seq(Addr) /\ heap \subseteq Addr /\ caller \in {"fill", "handle"}
  BY DEF IndInv, TypeOK, ThreadTypes, ClientTypes, LoopTypes
<1>1. UNCHANGED <<pc["map"], pc["vis"], ptr["map"], ptr["vis"], ptr["inner"]>>
  BY <1>t DEF ServerLoop, FillActive, FillInactive, FillEnd, SelectTimeout,
         SelectReady, SelectError, NoUser, AddUser, HandleSkip, HandleSend, HandleReceive, HandleClosed,
         HandleEnd, LoopBack, DisconnectClient, LoopLockPlayer, Lock, DeleteClientSocket,
         LoopReturn
<1>2. InUse' = InUse
  <2>1. \A k \in Walker : (Dereferences(k)' <=> Dereferences(k)) /\ ptr'[k] = ptr[k]
    BY <1>1 DEF Dereferences, Walker
  <2>2. /\ InUse = {ptr[k] : k \in {c \in Walker : Dereferences(c)}}
        /\ InUse' = {ptr'[k] : k \in {c \in Walker : Dereferences(c)'}}
    BY DEF InUse, Walker
  <2> HIDE DEF Walker
  <2> QED BY <2>1, <2>2
<1>3. ToSet(ClientList)' = ToSet(ClientList')
  BY DEF ToSet
<1>4. CASE AddUser
  <2>1. PICK a \in Addr \ heap : heap' = heap \cup {a} /\ ClientList' = Append(ClientList, a)
    BY <1>4 DEF AddUser
  <2>2. pc["loop"] = "accept" /\ pc'["loop"] = "handle"
    BY <1>t, <1>4 DEF AddUser
  <2>3. ToSet(ClientList') = ToSet(ClientList) \cup {a}
    <3>1. a \in Addr \ ToSet(ClientList) /\ IsInjective(ClientList)
      BY <2>1 DEF IndInv, ListOwnsHeap
    <3> QED BY <1>t, <2>1, <3>1, AppendToInjective
  <2>4. Closing' = Closing
    BY <2>2 DEF Closing
  <2>5. Lifecycle!Connect(a)
    BY <1>2, <1>3, <2>1, <2>3, <2>4 DEF Lifecycle!Connect
  <2> QED BY <2>5 DEF Lifecycle!Next
<1>5. CASE FillInactive \/ HandleClosed
  <2>1. /\ pc["loop"] \in {"fill", "handle"} /\ pc'["loop"] = "lockPlayer"
        /\ idx["loop"] <= Len(ClientList)
        /\ \E who : DisconnectClient(LoopClient, who)
    BY <1>t, <1>5 DEF FillInactive, HandleClosed
  <2>2. /\ ptr'["loop"] = LoopClient /\ heap' = heap
        /\ \E n \in DOMAIN ClientList :
              ClientList[n] = LoopClient /\ ClientList' = RemoveAt(ClientList, n)
    BY <1>t, <2>1 DEF DisconnectClient, EraseAt
  <2>3. LoopClient \in ToSet(ClientList) /\ LoopClient \in Addr
    BY <2>1, LoopClientListed DEF IndInv
  <2>4. ToSet(ClientList') = ToSet(ClientList) \ {LoopClient}
    BY <1>t, <2>2, EraseFromInjective DEF IndInv, ListOwnsHeap
  <2>5. Closing = {} /\ Closing' = {LoopClient}
    BY <2>1, <2>2 DEF Closing
  <2>6. Lifecycle!Disconnect(LoopClient)
    BY <1>2, <1>3, <2>2, <2>3, <2>4, <2>5 DEF Lifecycle!Disconnect
  <2> QED BY <2>3, <2>6 DEF Lifecycle!Next
<1>6. CASE DeleteClientSocket
  <2>1. /\ pc["loop"] = "delete" /\ pc'["loop"] \in {"fill", "handle"}
        /\ heap' = heap \ {ptr["loop"]} /\ ClientList' = ClientList
    BY <1>t, <1>6 DEF DeleteClientSocket
  <2>2. Closing = {ptr["loop"]} /\ Closing' = {}
    BY <2>1 DEF Closing
  <2>3. ptr["loop"] \in Addr
    BY <1>t, <2>1 DEF IndInv, ListOwnsHeap
  <2>4. InUse = {}
    <3>1. mutex["Player"] = "loop"
      BY <2>1 DEF IndInv, MutexInv, Region, Mutex
    <3>2. pc["map"] \notin Region("map", "Player") /\ pc["vis"] \notin Region("vis", "Player")
      BY <3>1 DEF IndInv, MutexInv, Mutex
    <3> QED BY <3>2 DEF Region, InUse, Dereferences
  <2>5. Lifecycle!Delete(ptr["loop"])
    BY <1>2, <1>3, <2>1, <2>2, <2>4 DEF Lifecycle!Delete
  <2> QED BY <2>3, <2>5 DEF Lifecycle!Next
<1>7. CASE ~ (AddUser \/ FillInactive \/ HandleClosed \/ DeleteClientSocket)
  <2>1. ClientList' = ClientList /\ heap' = heap /\ ptr' = ptr
    BY <1>7 DEF ServerLoop, FillActive, FillEnd, SelectTimeout, SelectReady, SelectError, NoUser,
         HandleSkip, HandleSend, HandleReceive, HandleEnd, LoopBack, LoopLockPlayer, Lock, LoopReturn
  <2>2. pc'["loop"] \in {"lockPlayer", "delete"} <=> pc["loop"] \in {"lockPlayer", "delete"}
    BY <1>t, <1>7 DEF ServerLoop, FillActive, FillEnd, SelectTimeout, SelectReady, SelectError,
         NoUser, HandleSkip, HandleSend, HandleReceive, HandleEnd, LoopBack, LoopLockPlayer, Lock, LockLabel,
         LoopReturn
  <2>3. Closing' = Closing
    BY <2>1, <2>2 DEF Closing
  <2> QED BY <1>2, <1>3, <2>1, <2>3 DEF Lifecycle!vars
<1> QED BY <1>4, <1>5, <1>6, <1>7

(* WorldProcess and the shutdown thread do not change what happens to a    *)
(* client object: DisconnectAll only marks.                                *)
LEMMA LifecycleOthers ==
  ASSUME IndInv, WorldProcess \/ HandleSignal \/ ShutdownServer \/ Quiet
  PROVE  UNCHANGED Lifecycle!vars
<1> USE DEF Goto, Thread, Cursor
<1>t. pc \in [Thread -> Label] /\ ptr \in [Cursor -> Addr \cup {None}]
  BY DEF IndInv, TypeOK, ThreadTypes
<1>1. UNCHANGED <<ClientList, heap, pc["loop"], pc["map"], pc["vis"],
                  ptr["loop"], ptr["map"], ptr["vis"], ptr["inner"]>>
  <2>1. CASE WorldProcess
    BY <1>t, <2>1 DEF WorldProcess, WorldLock, WhileOnline, Lock, EmptySection
  <2>2. CASE HandleSignal \/ ShutdownServer
    BY <1>t, <2>2 DEF HandleSignal, ShutdownServer, DisconnectAll, SizeTest, At, Abort,
       ShutdownTest, NextClient, ShutdownMark, ShutdownOffline, Join, ShutdownDeactivate
  <2>3. CASE Quiet
    BY <2>3 DEF Quiet
  <2> QED BY <2>1, <2>2, <2>3
<1>2. ToSet(ClientList)' = ToSet(ClientList) /\ Closing' = Closing
  BY <1>1 DEF ToSet, Closing
<1>3. InUse' = InUse
  <2>1. \A k \in Walker : (Dereferences(k)' <=> Dereferences(k)) /\ ptr'[k] = ptr[k]
    BY <1>1 DEF Dereferences, Walker
  <2>2. /\ InUse = {ptr[k] : k \in {c \in Walker : Dereferences(c)}}
        /\ InUse' = {ptr'[k] : k \in {c \in Walker : Dereferences(c)'}}
    BY DEF InUse, Walker
  <2> HIDE DEF Walker
  <2> QED BY <2>1, <2>2
<1> QED BY <1>1, <1>2, <1>3 DEF Lifecycle!vars

(* The five threads implement ClientLifecycle: a client object is created, *)
(* taken off the list and deleted once each, never while a worker uses it. *)
THEOREM LifecycleRefinement == Spec => LifecycleSpec
<1>1. Init => Lifecycle!Init
  <2> SUFFICES ASSUME Init PROVE Lifecycle!Init
    OBVIOUS
  <2>1. pc["loop"] = "fill" /\ \A t \in {"map", "vis"} : pc[t] \in {"while", "done"}
    BY ConstantsAssumption DEF Init, Thread
  <2>2. ToSet(ClientList) = {} /\ heap = {}
    BY DEF Init, ToSet
  <2>3. Closing = {} /\ InUse = {}
    BY <2>1 DEF Closing, InUse, Dereferences
  <2> QED BY <2>2, <2>3 DEF Lifecycle!Init
<1>2. IndInv /\ [Next]_vars => [Lifecycle!Next]_(Lifecycle!vars)
  BY LifecycleMap, LifecycleVis, LifecycleLoop, LifecycleOthers, QuietStep
<1> QED BY Invariance, <1>1, <1>2, PTL DEF Spec, LifecycleSpec, Lifecycle!Spec

(* What ClientLifecycle promises rules out the use of a deleted client, a  *)
(* leak and a second delete, whatever implements it.                       *)
THEOREM LifecycleIsSafe == LifecycleSpec => []Lifecycle!Safe
<1>1. Lifecycle!Init => Lifecycle!Safe
  BY DEF Lifecycle!Init, Lifecycle!Safe
<1>2. Lifecycle!Safe /\ [Lifecycle!Next]_(Lifecycle!vars) => Lifecycle!Safe'
  <2> SUFFICES ASSUME Lifecycle!Safe, [Lifecycle!Next]_(Lifecycle!vars) PROVE Lifecycle!Safe'
    OBVIOUS
  <2>1. CASE UNCHANGED Lifecycle!vars
    BY <2>1 DEF Lifecycle!Safe, Lifecycle!vars
  <2>2. CASE Lifecycle!Release
    BY <2>2 DEF Lifecycle!Safe, Lifecycle!Release
  <2>3. ASSUME NEW a \in Addr, Lifecycle!Connect(a) PROVE Lifecycle!Safe'
    BY <2>3 DEF Lifecycle!Safe, Lifecycle!Connect
  <2>4. ASSUME NEW a \in Addr, Lifecycle!Disconnect(a) PROVE Lifecycle!Safe'
    BY <2>4 DEF Lifecycle!Safe, Lifecycle!Disconnect
  <2>5. ASSUME NEW a \in Addr, Lifecycle!Load(a) PROVE Lifecycle!Safe'
    BY <2>5 DEF Lifecycle!Safe, Lifecycle!Load
  <2>6. ASSUME NEW a \in Addr, Lifecycle!Delete(a) PROVE Lifecycle!Safe'
    BY <2>6 DEF Lifecycle!Safe, Lifecycle!Delete
  <2> QED BY <2>1, <2>2, <2>3, <2>4, <2>5, <2>6 DEF Lifecycle!Next
<1> QED BY <1>1, <1>2, PTL DEF LifecycleSpec, Lifecycle!Spec
=============================================================================
