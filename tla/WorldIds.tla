------------------------------ MODULE WorldIds ------------------------------
(***************************************************************************)
(* The ids of the objects in the world.  One table, ClientIDList, serves   *)
(* players (GetNewClientID, called by CheckLogin in the server loop) and   *)
(* NPCs (GetNewMobID, called by SpawnNPC in the visibility thread).  The   *)
(* two threads search it without a common lock: reading an entry and       *)
(* taking it are two steps.  The ids of pakGMSpawn are not of this table:  *)
(* it counts from 1000, keeps no object, and no code reads them back.      *)
(***************************************************************************)
EXTENDS Naturals, FiniteSets

CONSTANTS
    Client,     \* connections
    Npc,        \* the objects of NPCList
    Top,        \* last id, 0xffff in the code
    MobBase     \* first id GetNewMobID looks at, 2000 in the code

ASSUME IdAssumption == Top \in Nat /\ MobBase \in 2..Top

Id == 1..Top
Allocator == {"loop", "vis"}

VARIABLES
    free,       \* ClientIDList[i] != 0 (and older than 10 s): id i may be taken
    at,         \* entry each thread's search is at; 0 when it is not searching
    taking,     \* the thread has seen at[t] free and is about to clear it
    session,    \* "in" from the first login accepted until the connection is closed
    login,      \* the client CheckLogin is searching an id for, as a set
    clientid,   \* PlayerSession->clientid
    npcid,      \* CNPC::clientid, not initialised before the first spawn
    spawned,    \* the NPCs spawned at least once
    spawning,   \* <<client, npc>> of the SpawnNPC call in progress, or <<>>
    told,       \* the id each client was last sent for an NPC, 0 if none
    given,      \* history: the ids each thread's search has ever returned
    raced       \* history: the ids both searches had seen free at once

vars == <<free, at, taking, session, login, clientid, npcid, spawned, spawning, told,
          given, raced>>

(* The constructor sets entries 0..0xfffe to 1 and leaves 0xffff as it is. *)
Init ==
    /\ \E last \in BOOLEAN : free = [i \in Id |-> i < Top \/ last]
    /\ at = [t \in Allocator |-> 0]
    /\ taking = [t \in Allocator |-> FALSE]
    /\ session = [c \in Client |-> "out"]
    /\ login = {}
    /\ clientid = [c \in Client |-> 0]
    /\ npcid \in [Npc -> Id]
    /\ spawned = {}
    /\ spawning = <<>>
    /\ told = [c \in Client |-> [n \in Npc |-> 0]]
    /\ given = [t \in Allocator |-> {}]
    /\ raced = {}

(* The search loop of both functions: one entry looked at.                 *)
SearchEntry(t) ==
    /\ at[t] \in Id
    /\ ~ taking[t]
    /\ IF free[at[t]]
       THEN taking' = [taking EXCEPT ![t] = TRUE] /\ UNCHANGED at
       ELSE at' = [at EXCEPT ![t] = @ + 1] /\ UNCHANGED taking
    /\ raced' = IF free[at[t]] /\ \E u \in Allocator \ {t} : taking[u] /\ at[u] = at[t]
                THEN raced \cup {at[t]} ELSE raced
    /\ UNCHANGED <<free, session, login, clientid, npcid, spawned, spawning, told, given>>

(* ClientIDList[i] = 0; return i;                                          *)
TakeEntry_kept(t) ==
    /\ taking[t]
    /\ taking' = [taking EXCEPT ![t] = FALSE]
    /\ at' = [at EXCEPT ![t] = 0]
    /\ given' = [given EXCEPT ![t] = @ \cup {at[t]}]
    /\ UNCHANGED <<free, raced>>
TakeEntry_mobkept(t) ==
    /\ taking[t]
    /\ free' = IF t = "vis" THEN free ELSE [free EXCEPT ![at[t]] = FALSE]
    /\ taking' = [taking EXCEPT ![t] = FALSE]
    /\ at' = [at EXCEPT ![t] = 0]
    /\ given' = [given EXCEPT ![t] = @ \cup {at[t]}]
    /\ UNCHANGED raced
TakeEntry(t) ==
    /\ taking[t]
    /\ free' = [free EXCEPT ![at[t]] = FALSE]
    /\ taking' = [taking EXCEPT ![t] = FALSE]
    /\ at' = [at EXCEPT ![t] = 0]
    /\ given' = [given EXCEPT ![t] = @ \cup {at[t]}]
    /\ UNCHANGED raced

(* The search ran past the table: return 0.                                *)
NoEntry(t) ==
    /\ at[t] = Top + 1
    /\ at' = [at EXCEPT ![t] = 0]
    /\ UNCHANGED <<free, taking, given, raced>>

-----------------------------------------------------------------------------
(* CheckLogin calls GetNewClientID once the account is accepted; the loop  *)
(* serves one client at a time.  Nothing stops a client that is logged in  *)
(* from logging in again.                                                  *)
GetNewClientID(c) ==
    /\ at["loop"] = 0
    /\ login' = {c}
    /\ at' = [at EXCEPT !["loop"] = 1]
    /\ UNCHANGED <<free, taking, session, clientid, npcid, spawned, spawning, told, given, raced>>

LoginAccepted(c) ==
    /\ c \in login
    /\ TakeEntry("loop")
    /\ login' = {}
    /\ clientid' = [clientid EXCEPT ![c] = at["loop"]]
    /\ session' = [session EXCEPT ![c] = "in"]
    /\ UNCHANGED <<npcid, spawned, spawning, told>>

(* The account is created on the way (autoacc): the character list is sent *)
(* and no id is asked for.                                                 *)
LoginNewAccount(c) ==
    /\ at["loop"] = 0
    /\ session' = [session EXCEPT ![c] = "in"]
    /\ UNCHANGED <<free, at, taking, login, clientid, npcid, spawned, spawning, told, given, raced>>

(* The connection is closed and the client object deleted; ClientIDList is *)
(* left as it is.                                                          *)
Forget(c) ==
    /\ session' = [session EXCEPT ![c] = "out"]
    /\ clientid' = [clientid EXCEPT ![c] = 0]
    /\ told' = [told EXCEPT ![c] = [n \in Npc |-> 0]]
    /\ UNCHANGED <<npcid, spawned, spawning>>

(* clientid <= 0: "denied access. Server is full.", and CheckLogin's false *)
(* makes the loop disconnect the client.                                   *)
LoginRefused(c) ==
    /\ c \in login
    /\ NoEntry("loop")
    /\ login' = {}
    /\ Forget(c)

Disconnect_returns(c) ==
    /\ at["loop"] = 0
    /\ session[c] = "in"
    /\ Forget(c)
    /\ free' = [i \in Id |-> free[i] \/ i = clientid[c]]
    /\ UNCHANGED <<at, taking, login, given, raced>>
Disconnect(c) ==
    /\ at["loop"] = 0
    /\ session[c] = "in"
    /\ Forget(c)
    /\ UNCHANGED <<free, at, taking, login, given, raced>>

-----------------------------------------------------------------------------
(* An NPC comes into a player's sight: SpawnNPC gives it a new id, whoever *)
(* saw it before, and sends that id to this player.                        *)
SpawnNPC_search1(c, n) ==
    /\ at["vis"] = 0
    /\ session[c] = "in"
    /\ spawning' = <<c, n>>
    /\ at' = [at EXCEPT !["vis"] = 1]
    /\ UNCHANGED <<free, taking, session, login, clientid, npcid, spawned, told, given, raced>>
SpawnNPC(c, n) ==
    /\ at["vis"] = 0
    /\ session[c] = "in"
    /\ spawning' = <<c, n>>
    /\ at' = [at EXCEPT !["vis"] = MobBase]
    /\ UNCHANGED <<free, taking, session, login, clientid, npcid, spawned, told, given, raced>>

SendSpawn(c, n, id) ==
    /\ spawning = <<c, n>>
    /\ spawning' = <<>>
    /\ npcid' = [npcid EXCEPT ![n] = id]
    /\ spawned' = spawned \cup {n}
    /\ told' = IF session[c] = "in" THEN [told EXCEPT ![c][n] = id] ELSE told
    /\ UNCHANGED <<session, login, clientid>>

GetNewMobID(c, n) ==
    \/ SendSpawn(c, n, at["vis"]) /\ TakeEntry("vis")
    \/ SendSpawn(c, n, 0) /\ NoEntry("vis")

(* GetNPCByID, as SendNPCSellItems calls it with the id a client clicked:  *)
(* the NPCs it may return; empty is the NULL it dereferences.              *)
GetNPCByID(id) == {n \in Npc : npcid[n] = id}

Next ==
    \/ \E t \in Allocator : SearchEntry(t)
    \/ \E c \in Client :
          \/ GetNewClientID(c) \/ LoginAccepted(c) \/ LoginNewAccount(c)
          \/ LoginRefused(c) \/ Disconnect(c)
          \/ \E n \in Npc : SpawnNPC(c, n) \/ GetNewMobID(c, n)

Spec == Init /\ [][Next]_vars

-----------------------------------------------------------------------------
TableTypes ==
    /\ free \in [Id -> BOOLEAN]
    /\ at \in [Allocator -> 0..(Top + 1)]
    /\ taking \in [Allocator -> BOOLEAN]
    /\ \A t \in Allocator : taking[t] => at[t] \in Id
    /\ at["vis"] = 0 \/ at["vis"] >= MobBase
    /\ given \in [Allocator -> SUBSET Id]
    /\ raced \subseteq Id

ObjectTypes ==
    /\ session \in [Client -> {"out", "in"}]
    /\ login \subseteq Client
    /\ clientid \in [Client -> 0..Top]
    /\ npcid \in [Npc -> 0..Top]
    /\ spawned \subseteq Npc
    /\ spawning \in (Client \X Npc) \cup {<<>>}
    /\ told \in [Client -> [Npc -> 0..Top]]

(* Every variable has its type; a search stays within the table and the    *)
(* mob search never goes below MobBase.                                    *)
TypeOK == TableTypes /\ ObjectTypes

(* Two players in the world never have the same id, however the two        *)
(* searches interleave and whoever left in between.                        *)
ClientIdsUnique ==
    \A c, d \in Client : c # d /\ clientid[c] # 0 => clientid[c] # clientid[d]

(* Two NPCs that were spawned never have the same id, unless the table is  *)
(* used up and both have id 0.                                             *)
NpcIdsUnique ==
    \A n, m \in spawned : n # m /\ npcid[n] # 0 => npcid[n] # npcid[m]

(* An id some player or NPC carries is out of the table for good, so no    *)
(* later login or spawn can be given it.                                   *)
IdsInUseAreTaken ==
    /\ \A c \in Client : clientid[c] # 0 => ~ free[clientid[c]]
    /\ \A n \in spawned : npcid[n] # 0 => ~ free[npcid[n]]

(* No id is given to a second player, or to a second NPC, while the server *)
(* runs, not even after its first owner has left: a packet that is still   *)
(* under way cannot reach another object of the same kind.  (A player and  *)
(* an NPC may race to one id.)                                             *)
NeverReissued ==
    \A t \in Allocator : taking[t] => at[t] \notin given[t]

(* A player and an NPC have the same id only if the two searches raced to  *)
(* it: both had seen its entry free before either cleared it.  Otherwise   *)
(* the one table keeps the two kinds apart, in whatever order players log  *)
(* in, leave and come back and NPCs are spawned.                           *)
SharedOnlyIfRaced ==
    \A c \in Client, n \in spawned :
        clientid[c] # 0 /\ clientid[c] = npcid[n] => clientid[c] \in raced

(* An NPC gets a new id each time somebody sees it, so the id a client     *)
(* was sent may lead GetNPCByID nowhere; it never leads to another NPC     *)
(* that has been spawned.                                                  *)
ClickNeverMisleads ==
    \A c \in Client, n \in Npc :
        told[c][n] # 0 => GetNPCByID(told[c][n]) \cap spawned \subseteq {n}
=============================================================================
