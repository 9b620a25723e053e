-------------------------- MODULE WorldIds_proofs ---------------------------
(***************************************************************************)
(* For any number of clients, NPCs and ids: what the unlocked id table     *)
(* still guarantees.  Uniqueness alone is not inductive: between seeing an *)
(* entry free and clearing it a thread relies on nobody of its own kind    *)
(* having that id (SearchInv), and on ids in use being out of the table.   *)
(***************************************************************************)
EXTENDS WorldIds, TLAPS

(* What a thread about to take an entry may rely on.                       *)
SearchInv ==
    /\ taking["loop"] => \A c \in Client : clientid[c] # at["loop"]
    /\ taking["vis"]  => \A n \in spawned : npcid[n] # at["vis"]

IndInv ==
    /\ TypeOK
    /\ ClientIdsUnique
    /\ NpcIdsUnique
    /\ IdsInUseAreTaken
    /\ SearchInv

(* The table the constructor writes, with no id given out, satisfies the   *)
(* invariant.                                                              *)
LEMMA InitIndInv == Init => IndInv
<1> SUFFICES ASSUME Init PROVE IndInv
  OBVIOUS
<1>1. TableTypes
  <2>1. \A i \in Id : free[i] \in BOOLEAN
    BY DEF Init
  <2>2. free \in [Id -> BOOLEAN]
    BY <2>1 DEF Init
  <2> QED BY <2>2, IdAssumption DEF Init, TableTypes, Allocator
<1>2. ObjectTypes
  <2>1. 0 \in 0..Top /\ Id \subseteq 0..Top
    BY IdAssumption DEF Id
  <2>2. [n \in Npc |-> 0] \in [Npc -> 0..Top]
    BY <2>1
  <2> QED BY <2>1, <2>2 DEF Init, ObjectTypes
<1>3. ClientIdsUnique /\ NpcIdsUnique /\ IdsInUseAreTaken /\ SearchInv
  BY DEF Init, ClientIdsUnique, NpcIdsUnique, IdsInUseAreTaken, SearchInv, Allocator
<1> QED BY <1>1, <1>2, <1>3 DEF IndInv, TypeOK

(* The searches of both threads stay within the table.                     *)
LEMMA TableStep == TypeOK /\ [Next]_vars => TableTypes'
<1> SUFFICES ASSUME TypeOK, [Next]_vars PROVE TableTypes'
  OBVIOUS
<1> USE IdAssumption DEF TypeOK, TableTypes, Id, Allocator
<1>1. ASSUME NEW t \in Allocator, SearchEntry(t) PROVE TableTypes'
  <2>1. CASE free[at[t]]
    BY <1>1, <2>1 DEF SearchEntry
  <2>2. CASE ~ free[at[t]]
    BY <1>1, <2>2 DEF SearchEntry
  <2> QED BY <2>1, <2>2
<1>2. ASSUME NEW t \in Allocator, TakeEntry(t) PROVE TableTypes'
  BY <1>2 DEF TakeEntry
<1>3. ASSUME NEW t \in Allocator, NoEntry(t) PROVE TableTypes'
  BY <1>3 DEF NoEntry
<1>4. ASSUME NEW c \in Client, GetNewClientID(c) \/ LoginNewAccount(c) \/ Disconnect(c)
      PROVE  TableTypes'
  <2>1. CASE GetNewClientID(c)
    BY <2>1 DEF GetNewClientID
  <2>2. CASE LoginNewAccount(c)
    BY <2>2 DEF LoginNewAccount
  <2>3. CASE Disconnect(c)
    BY <2>3 DEF Disconnect
  <2> QED BY <1>4, <2>1, <2>2, <2>3
<1>5. ASSUME NEW c \in Client, NEW n \in Npc, SpawnNPC(c, n) PROVE TableTypes'
  BY <1>5 DEF SpawnNPC
<1>6. CASE UNCHANGED vars
  BY <1>6 DEF vars
<1> HIDE DEF TableTypes
<1> QED BY <1>1, <1>2, <1>3, <1>4, <1>5, <1>6 DEF Next, LoginAccepted, LoginRefused, GetNewMobID

(* Ids given to players and NPCs are ids of the table, or 0.               *)
LEMMA ObjectStep == TypeOK /\ [Next]_vars => ObjectTypes'
<1> SUFFICES ASSUME TypeOK, [Next]_vars PROVE ObjectTypes'
  OBVIOUS
<1> USE IdAssumption DEF TypeOK, ObjectTypes
<1>1. ASSUME NEW t \in Allocator, SearchEntry(t) PROVE ObjectTypes'
  BY <1>1 DEF SearchEntry
<1>2. ASSUME NEW c \in Client,
             GetNewClientID(c) \/ LoginNewAccount(c) \/ LoginRefused(c) \/ Disconnect(c)
      PROVE  ObjectTypes'
  <2>1. CASE GetNewClientID(c) \/ LoginNewAccount(c)
    BY <2>1 DEF GetNewClientID, LoginNewAccount
  <2>2. CASE LoginRefused(c) \/ Disconnect(c)
    <3>1. [n \in Npc |-> 0] \in [Npc -> 0..Top] /\ 0 \in 0..Top
      OBVIOUS
    <3>2. Forget(c) /\ login' \subseteq Client
      BY <2>2 DEF LoginRefused, Disconnect
    <3> QED BY <3>1, <3>2 DEF Forget
  <2> QED BY <1>2, <2>1, <2>2
<1>3. ASSUME NEW c \in Client, LoginAccepted(c) PROVE ObjectTypes'
  <2>1. at["loop"] \in 0..Top
    BY <1>3 DEF LoginAccepted, TakeEntry, TableTypes, Allocator, Id
  <2> QED BY <1>3, <2>1 DEF LoginAccepted
<1>4. ASSUME NEW c \in Client, NEW n \in Npc, SpawnNPC(c, n) PROVE ObjectTypes'
  BY <1>4 DEF SpawnNPC
<1>5. ASSUME NEW c \in Client, NEW n \in Npc, NEW id \in 0..Top, SendSpawn(c, n, id)
      PROVE  ObjectTypes'
  BY <1>5 DEF SendSpawn
<1>6. ASSUME NEW c \in Client, NEW n \in Npc, GetNewMobID(c, n) PROVE ObjectTypes'
  <2>1. taking["vis"] => at["vis"] \in 0..Top
    BY DEF TableTypes, Allocator, Id
  <2> HIDE DEF ObjectTypes
  <2> QED BY <1>5, <1>6, <2>1 DEF GetNewMobID, TakeEntry
<1>7. CASE UNCHANGED vars
  BY <1>7 DEF vars
<1> HIDE DEF ObjectTypes
<1> QED BY <1>1, <1>2, <1>3, <1>4, <1>6, <1>7 DEF Next

(* Every login, disconnect, search step and spawn preserves the invariant. *)
LEMMA IndStep == IndInv /\ [Next]_vars => IndInv'
<1> SUFFICES ASSUME IndInv, [Next]_vars PROVE IndInv'
  OBVIOUS
<1>0. TypeOK' /\ TypeOK
  BY TableStep, ObjectStep DEF IndInv, TypeOK
<1> DEFINE Rest == /\ ClientIdsUnique /\ NpcIdsUnique /\ IdsInUseAreTaken
                   /\ SearchInv
<1>1. ASSUME UNCHANGED <<free, clientid, npcid, spawned>>, SearchInv' PROVE Rest'
  BY <1>1 DEF IndInv, ClientIdsUnique, NpcIdsUnique, IdsInUseAreTaken
<1>2. ASSUME NEW t \in Allocator, SearchEntry(t) PROVE Rest'
  (* The entry was seen free, so nobody in the world has its id. *)
  <2>1. SearchInv'
    <3>1. /\ free[at["loop"]] /\ at["loop"] \in Id => \A c \in Client : clientid[c] # at["loop"]
          /\ free[at["vis"]] /\ at["vis"] \in Id => \A n \in spawned : npcid[n] # at["vis"]
      BY <1>0, IdAssumption DEF IndInv, IdsInUseAreTaken, Id
    <3>2. CASE t = "loop"
      BY <1>0, <1>2, <3>1, <3>2 DEF SearchEntry, IndInv, TypeOK, TableTypes, SearchInv, Allocator
    <3>3. CASE t = "vis"
      BY <1>0, <1>2, <3>1, <3>3 DEF SearchEntry, IndInv, TypeOK, TableTypes, SearchInv, Allocator
    <3> QED BY <1>2, <3>2, <3>3 DEF Allocator
  <2> QED BY <1>1, <1>2, <2>1 DEF SearchEntry
<1>3. ASSUME NEW c \in Client,
             GetNewClientID(c) \/ LoginNewAccount(c) \/ LoginRefused(c) \/ Disconnect(c)
      PROVE  Rest'
  <2>0. /\ ~ taking["loop"]
        /\ UNCHANGED <<taking, npcid, spawned, free, at["vis"]>>
    BY <1>0, <1>3, IdAssumption DEF GetNewClientID, LoginNewAccount, LoginRefused, Disconnect,
       Forget, NoEntry, TypeOK, TableTypes, Allocator, Id
  <2>1. CASE GetNewClientID(c) \/ LoginNewAccount(c)
    <3>1. UNCHANGED clientid
      BY <2>1 DEF GetNewClientID, LoginNewAccount
    <3>2. SearchInv' BY <2>0, <3>1 DEF IndInv, SearchInv
    <3> QED BY <1>1, <2>0, <3>1, <3>2
  <2>2. CASE LoginRefused(c) \/ Disconnect(c)
    <3>1. clientid' = [clientid EXCEPT ![c] = 0]
      BY <2>2 DEF LoginRefused, Disconnect, Forget
    <3> QED BY <1>0, <2>0, <3>1 DEF IndInv, TypeOK, ObjectTypes, ClientIdsUnique, NpcIdsUnique,
              IdsInUseAreTaken, SearchInv
  <2> QED BY <1>3, <2>1, <2>2
<1>4. ASSUME NEW c \in Client, LoginAccepted(c) PROVE Rest'
  <2>1. /\ taking["loop"] /\ at["loop"] \in Id
        /\ clientid' = [clientid EXCEPT ![c] = at["loop"]]
        /\ free' = [free EXCEPT ![at["loop"]] = FALSE]
        /\ taking' = [taking EXCEPT !["loop"] = FALSE]
        /\ at' = [at EXCEPT !["loop"] = 0]
        /\ UNCHANGED <<npcid, spawned>>
    BY <1>0, <1>4 DEF LoginAccepted, TakeEntry, TypeOK, TableTypes, ObjectTypes, Allocator
  <2>2. \A d \in Client : clientid[d] # at["loop"]
    BY <2>1 DEF IndInv, SearchInv
  <2>3. ClientIdsUnique' /\ NpcIdsUnique'
    BY <1>0, <2>1, <2>2 DEF IndInv, TypeOK, TableTypes, ObjectTypes, ClientIdsUnique, NpcIdsUnique
  <2>4. IdsInUseAreTaken'
    BY <1>0, <2>1 DEF IndInv, TypeOK, TableTypes, ObjectTypes, IdsInUseAreTaken
  <2>5. SearchInv'
    BY <1>0, <2>1 DEF IndInv, TypeOK, TableTypes, ObjectTypes, SearchInv, Allocator
  <2> QED BY <2>3, <2>4, <2>5
<1>5. ASSUME NEW c \in Client, NEW n \in Npc, SpawnNPC(c, n) PROVE Rest'
  <2>1. ~ taking["vis"] /\ UNCHANGED <<taking, clientid, npcid, spawned, free, at["loop"]>>
    BY <1>0, <1>5 DEF SpawnNPC, TypeOK, TableTypes, Allocator, Id
  <2>2. SearchInv' BY <2>1 DEF IndInv, SearchInv
  <2> QED BY <1>1, <2>1, <2>2
<1>6. ASSUME NEW c \in Client, NEW n \in Npc, GetNewMobID(c, n) PROVE Rest'
  <2>1. PICK id \in 0..Top : SendSpawn(c, n, id)
    BY <1>0, <1>6, IdAssumption DEF GetNewMobID, TypeOK, TableTypes, ObjectTypes, TakeEntry, Allocator, Id
  <2>2. UNCHANGED clientid /\ npcid' = [npcid EXCEPT ![n] = id] /\ spawned' = spawned \cup {n}
    BY <2>1 DEF SendSpawn
  <2>3. CASE SendSpawn(c, n, at["vis"]) /\ TakeEntry("vis")
    <3>1. /\ id = at["vis"] /\ taking["vis"] /\ id \in Id /\ id >= MobBase
          /\ free' = [free EXCEPT ![id] = FALSE]
          /\ taking' = [taking EXCEPT !["vis"] = FALSE]
          /\ at' = [at EXCEPT !["vis"] = 0]
      <4>1. npcid'[n] = at["vis"]
        BY <1>0, <2>3 DEF SendSpawn, TypeOK, ObjectTypes
      <4>2. id = at["vis"] BY <1>0, <2>2, <4>1 DEF TypeOK, ObjectTypes
      <4> QED BY <1>0, <2>3, <4>2, IdAssumption DEF TakeEntry, TypeOK, TableTypes, ObjectTypes, Allocator, Id
    <3>2. \A m \in spawned : npcid[m] # id
      BY <3>1 DEF IndInv, SearchInv
    <3>3. ClientIdsUnique' /\ NpcIdsUnique'
      BY <1>0, <2>2, <3>1, <3>2 DEF IndInv, TypeOK, TableTypes, ObjectTypes, ClientIdsUnique, NpcIdsUnique
    <3>4. IdsInUseAreTaken'
      BY <1>0, <2>2, <3>1 DEF IndInv, TypeOK, TableTypes, ObjectTypes, IdsInUseAreTaken
    <3>5. SearchInv'
      BY <1>0, <2>2, <3>1 DEF IndInv, TypeOK, TableTypes, ObjectTypes, SearchInv, Allocator
    <3> QED BY <3>3, <3>4, <3>5
  <2>4. CASE SendSpawn(c, n, 0) /\ NoEntry("vis")
    <3>1. /\ npcid' = [npcid EXCEPT ![n] = 0]
          /\ UNCHANGED <<free, taking, at["loop"]>>
          /\ ~ taking["vis"]
      BY <1>0, <2>4, IdAssumption DEF SendSpawn, NoEntry, TypeOK, TableTypes, ObjectTypes, Allocator, Id
    <3>2. ClientIdsUnique' /\ NpcIdsUnique'
      <4>1. ClientIdsUnique'
        BY <2>2 DEF IndInv, ClientIdsUnique
      <4>2. NpcIdsUnique'
        BY <1>0, <2>2, <3>1 DEF IndInv, TypeOK, ObjectTypes, NpcIdsUnique
      <4> QED BY <4>1, <4>2
    <3>3. IdsInUseAreTaken'
      BY <1>0, <2>2, <3>1 DEF IndInv, TypeOK, TableTypes, ObjectTypes, IdsInUseAreTaken
    <3>4. SearchInv'
      BY <1>0, <2>2, <3>1 DEF IndInv, TypeOK, TableTypes, ObjectTypes, SearchInv, Allocator
    <3> QED BY <3>2, <3>3, <3>4
  <2> QED BY <1>6, <2>3, <2>4 DEF GetNewMobID
<1>7. ASSUME UNCHANGED vars PROVE Rest'
  BY <1>7 DEF vars, IndInv, ClientIdsUnique, NpcIdsUnique, IdsInUseAreTaken, SearchInv
<1>8. Rest'
  BY <1>2, <1>3, <1>4, <1>5, <1>6, <1>7 DEF Next
<1> QED BY <1>0, <1>8 DEF IndInv

(* Ids clients were told are taken, and none is the entry the visibility   *)
(* thread is about to take.                                                *)
ToldInv ==
    /\ \A c \in Client, n \in Npc : told[c][n] # 0 => ~ free[told[c][n]]
    /\ taking["vis"] => \A c \in Client, n \in Npc : told[c][n] # at["vis"]

(* Only SpawnNPC tells an id, the one it has just taken, so an id told for *)
(* one NPC is never told, or given, for another.                           *)
LEMMA ToldStep ==
    IndInv /\ ToldInv /\ ClickNeverMisleads /\ [Next]_vars => ToldInv' /\ ClickNeverMisleads'
<1> SUFFICES ASSUME IndInv, ToldInv, ClickNeverMisleads, [Next]_vars
             PROVE  ToldInv' /\ ClickNeverMisleads'
  OBVIOUS
<1> USE DEF GetNPCByID
<1>0. /\ free \in [Id -> BOOLEAN] /\ at \in [Allocator -> 0..(Top + 1)]
      /\ taking \in [Allocator -> BOOLEAN] /\ (taking["vis"] => at["vis"] \in Id)
      /\ told \in [Client -> [Npc -> 0..Top]] /\ npcid \in [Npc -> 0..Top] /\ spawned \subseteq Npc
      /\ "loop" \in Allocator /\ "vis" \in Allocator
  BY DEF IndInv, TypeOK, TableTypes, ObjectTypes, Allocator
<1>1. ASSUME UNCHANGED <<npcid, spawned>>,
             \A c \in Client, n \in Npc : told'[c][n] = told[c][n] \/ told'[c][n] = 0
      PROVE  ClickNeverMisleads'
  BY <1>1 DEF ClickNeverMisleads
<1>2. ASSUME NEW t \in Allocator, SearchEntry(t) PROVE ToldInv' /\ ClickNeverMisleads'
  <2>1. UNCHANGED <<free, told, npcid, spawned>>
    BY <1>2 DEF SearchEntry
  <2>2. taking'["vis"] => (taking["vis"] \/ free[at["vis"]]) /\ at'["vis"] = at["vis"] /\ at["vis"] \in Id
    <3>1. CASE t = "vis" /\ free[at["vis"]]
      BY <1>0, <1>2, <3>1 DEF SearchEntry
    <3>2. CASE t = "vis" /\ ~ free[at["vis"]]
      BY <1>0, <1>2, <3>2 DEF SearchEntry
    <3>3. CASE t = "loop"
      BY <1>0, <1>2, <3>3 DEF SearchEntry
    <3> QED BY <3>1, <3>2, <3>3 DEF Allocator
  <2>3. ToldInv'
    BY <1>0, <2>1, <2>2, IdAssumption DEF ToldInv, Id
  <2> QED BY <1>1, <2>1, <2>3
<1>3. ASSUME NEW c \in Client,
             GetNewClientID(c) \/ LoginNewAccount(c) \/ LoginRefused(c) \/ Disconnect(c)
      PROVE  ToldInv' /\ ClickNeverMisleads'
  <2>1. UNCHANGED <<free, taking, npcid, spawned, at["vis"]>>
    BY <1>0, <1>3 DEF GetNewClientID, LoginNewAccount, LoginRefused, Disconnect, Forget, NoEntry
  <2>2. \A d \in Client, n \in Npc : told'[d][n] = told[d][n] \/ told'[d][n] = 0
    <3>1. CASE GetNewClientID(c) \/ LoginNewAccount(c)
      BY <3>1 DEF GetNewClientID, LoginNewAccount
    <3>2. CASE LoginRefused(c) \/ Disconnect(c)
      <4>1. told' = [told EXCEPT ![c] = [n \in Npc |-> 0]]
        BY <3>2 DEF LoginRefused, Disconnect, Forget
      <4> QED BY <1>0, <4>1
    <3> QED BY <1>3, <3>1, <3>2
  <2>3. taking["vis"] => at["vis"] # 0
    BY <1>0, IdAssumption DEF Id
  <2> QED BY <1>1, <2>1, <2>2, <2>3 DEF ToldInv
<1>4. ASSUME NEW c \in Client, LoginAccepted(c) PROVE ToldInv' /\ ClickNeverMisleads'
  <2>1. /\ free' = [free EXCEPT ![at["loop"]] = FALSE]
        /\ taking'["vis"] = taking["vis"] /\ at'["vis"] = at["vis"]
        /\ UNCHANGED <<told, npcid, spawned>>
    BY <1>0, <1>4 DEF LoginAccepted, TakeEntry
  <2>2. \A i \in Id : free'[i] => free[i]
    BY <1>0, <2>1
  <2>3. \A d \in Client, n \in Npc : told[d][n] # 0 => told[d][n] \in Id
    BY <1>0, IdAssumption DEF Id
  <2> QED BY <1>1, <2>1, <2>2, <2>3 DEF ToldInv
<1>5. ASSUME NEW c \in Client, NEW n \in Npc, SpawnNPC(c, n) PROVE ToldInv' /\ ClickNeverMisleads'
  <2>1. ~ taking["vis"]
    BY <1>0, <1>5 DEF SpawnNPC, Id
  <2> QED BY <1>1, <1>5, <2>1 DEF SpawnNPC, ToldInv
<1>6. ASSUME NEW c \in Client, NEW n \in Npc, GetNewMobID(c, n) PROVE ToldInv' /\ ClickNeverMisleads'
  <2>1. ASSUME NEW id \in 0..Top, SendSpawn(c, n, id)
        PROVE  /\ npcid' = [npcid EXCEPT ![n] = id] /\ spawned' = spawned \cup {n}
               /\ \A d \in Client, m \in Npc : told'[d][m] = told[d][m] \/ (m = n /\ told'[d][m] = id)
    <3>1. told' = told \/ told' = [told EXCEPT ![c][n] = id]
      BY <2>1 DEF SendSpawn
    <3> QED BY <1>0, <2>1, <3>1 DEF SendSpawn
  <2>2. CASE SendSpawn(c, n, at["vis"]) /\ TakeEntry("vis")
    <3>1. PICK id \in Id : id = at["vis"]
      BY <1>0, <2>2 DEF TakeEntry
    <3>2. /\ taking["vis"] /\ id \in 0..Top /\ id # 0 /\ SendSpawn(c, n, id)
          /\ free' = [free EXCEPT ![id] = FALSE] /\ ~ taking'["vis"]
      BY <1>0, <2>2, <3>1, IdAssumption DEF TakeEntry, Id
    <3>3. /\ \A d \in Client, m \in Npc : told[d][m] # id
          /\ \A m \in spawned : npcid[m] # id
      BY <3>1, <3>2 DEF ToldInv, IndInv, SearchInv
    <3>4. \A d \in Client, m \in Npc : told[d][m] # 0 => told[d][m] \in Id
      BY <1>0, IdAssumption DEF Id
    <3>5. ToldInv'
      BY <1>0, <2>1, <3>2, <3>4 DEF ToldInv
    <3>6. \A m \in spawned' : m # n => m \in spawned /\ npcid'[m] = npcid[m]
      BY <1>0, <2>1, <3>2
    <3>7. npcid'[n] = id
      BY <1>0, <2>1, <3>2
    <3>8. ClickNeverMisleads'
      <4> SUFFICES ASSUME NEW d \in Client, NEW m \in Npc, told'[d][m] # 0,
                          NEW k \in spawned', k \in Npc, npcid'[k] = told'[d][m]
                   PROVE  k = m
        BY DEF ClickNeverMisleads
      <4>1. CASE told'[d][m] = told[d][m]
        <5>1. k # n
          BY <3>3, <3>7, <4>1
        <5> QED BY <3>6, <4>1, <5>1 DEF ClickNeverMisleads
      <4>2. CASE m = n /\ told'[d][m] = id
        BY <3>3, <3>6, <4>2
      <4> QED BY <2>1, <3>2, <4>1, <4>2
    <3> QED BY <3>5, <3>8
  <2>3. CASE SendSpawn(c, n, 0) /\ NoEntry("vis")
    <3>1. 0 \in 0..Top /\ UNCHANGED <<free, taking>> /\ ~ taking["vis"]
      BY <1>0, <2>3, IdAssumption DEF NoEntry, Id
    <3>2. ToldInv'
      BY <2>1, <2>3, <3>1 DEF ToldInv
    <3>3. ClickNeverMisleads'
      <4> SUFFICES ASSUME NEW d \in Client, NEW m \in Npc, told'[d][m] # 0,
                          NEW k \in spawned', k \in Npc, npcid'[k] = told'[d][m]
                   PROVE  k = m
        BY DEF ClickNeverMisleads
      <4>1. k # n /\ k \in spawned /\ npcid'[k] = npcid[k] /\ told'[d][m] = told[d][m]
        BY <1>0, <2>1, <2>3, <3>1
      <4> QED BY <4>1 DEF ClickNeverMisleads
    <3> QED BY <3>2, <3>3
  <2> QED BY <1>6, <2>2, <2>3 DEF GetNewMobID
<1>7. CASE UNCHANGED vars
  BY <1>1, <1>7 DEF vars, ToldInv
<1> QED BY <1>2, <1>3, <1>4, <1>5, <1>6, <1>7 DEF Next

(* The ids a search has returned are out of the table.                     *)
GivenInv == \A t \in Allocator : \A i \in given[t] : ~ free[i]

(* A search returns an entry it saw free, which is none of those returned  *)
(* before, and the step that returns it clears the entry.                  *)
LEMMA ReissueStep ==
    TypeOK /\ GivenInv /\ NeverReissued /\ [Next]_vars => GivenInv' /\ NeverReissued'
<1> SUFFICES ASSUME TypeOK, GivenInv, NeverReissued, [Next]_vars
             PROVE  GivenInv' /\ NeverReissued'
  OBVIOUS
<1>0. /\ free \in [Id -> BOOLEAN] /\ at \in [Allocator -> 0..(Top + 1)]
      /\ taking \in [Allocator -> BOOLEAN] /\ given \in [Allocator -> SUBSET Id]
      /\ \A t \in Allocator : taking[t] => at[t] \in Id
  BY DEF TypeOK, TableTypes
<1>1. ASSUME UNCHANGED <<free, given>>,
             \A t \in Allocator : taking'[t] => taking[t] /\ at'[t] = at[t]
      PROVE  GivenInv' /\ NeverReissued'
  BY <1>1 DEF GivenInv, NeverReissued
<1>2. ASSUME NEW t \in Allocator, SearchEntry(t) PROVE GivenInv' /\ NeverReissued'
  <2>1. UNCHANGED <<free, given>>
    BY <1>2 DEF SearchEntry
  <2>2. CASE free[at[t]]
    <3>1. at' = at /\ \A u \in Allocator : taking'[u] => taking[u] \/ u = t
      BY <1>0, <1>2, <2>2 DEF SearchEntry
    <3>2. at[t] \notin given[t]
      BY <2>2 DEF GivenInv
    <3> QED BY <2>1, <3>1, <3>2 DEF GivenInv, NeverReissued
  <2>3. CASE ~ free[at[t]]
    <3>1. /\ taking' = taking /\ ~ taking[t]
          /\ \A u \in Allocator : u # t => at'[u] = at[u]
      BY <1>0, <1>2, <2>3 DEF SearchEntry
    <3>2. \A u \in Allocator : taking'[u] => taking[u] /\ at'[u] = at[u]
      BY <3>1
    <3> QED BY <1>1, <2>1, <3>2
  <2> QED BY <2>2, <2>3
<1>3. ASSUME NEW t \in Allocator, TakeEntry(t) PROVE GivenInv' /\ NeverReissued'
  <2>1. /\ at[t] \in Id
        /\ free' = [free EXCEPT ![at[t]] = FALSE]
        /\ given' = [given EXCEPT ![t] = @ \cup {at[t]}]
        /\ taking' = [taking EXCEPT ![t] = FALSE]
        /\ at' = [at EXCEPT ![t] = 0]
    BY <1>0, <1>3 DEF TakeEntry
  <2>2. \A i \in Id : free'[i] => free[i] /\ i # at[t]
    BY <1>0, <2>1
  <2>3. GivenInv'
    BY <1>0, <2>1, <2>2 DEF GivenInv
  <2>4. \A u \in Allocator : taking'[u] => u # t /\ taking[u] /\ at'[u] = at[u] /\ given'[u] = given[u]
    BY <1>0, <2>1
  <2>5. NeverReissued'
    BY <2>4 DEF NeverReissued
  <2> QED BY <2>3, <2>5
<1>4. ASSUME NEW t \in Allocator, NoEntry(t) PROVE GivenInv' /\ NeverReissued'
  <2>1. UNCHANGED <<free, given, taking>> /\ at' = [at EXCEPT ![t] = 0] /\ at[t] = Top + 1
    BY <1>4 DEF NoEntry
  <2>2. ~ taking[t]
    BY <1>0, <2>1, IdAssumption DEF Id
  <2>3. \A u \in Allocator : taking'[u] => taking[u] /\ at'[u] = at[u]
    BY <1>0, <2>1, <2>2
  <2> QED BY <1>1, <2>1, <2>3
<1>5. ASSUME NEW c \in Client, GetNewClientID(c) \/ LoginNewAccount(c) \/ Disconnect(c)
      PROVE  GivenInv' /\ NeverReissued'
  <2>1. UNCHANGED <<free, given, taking>> /\ at["loop"] = 0 /\ at'["vis"] = at["vis"]
    BY <1>0, <1>5 DEF GetNewClientID, LoginNewAccount, Disconnect, Allocator
  <2>2. ~ taking["loop"]
    BY <1>0, <2>1, IdAssumption DEF Id, Allocator
  <2> QED BY <1>1, <2>1, <2>2 DEF Allocator
<1>6. ASSUME NEW c \in Client, NEW n \in Npc, SpawnNPC(c, n) PROVE GivenInv' /\ NeverReissued'
  <2>1. UNCHANGED <<free, given, taking>> /\ at["vis"] = 0 /\ at'["loop"] = at["loop"]
    BY <1>0, <1>6 DEF SpawnNPC, Allocator
  <2>2. ~ taking["vis"]
    BY <1>0, <2>1, IdAssumption DEF Id, Allocator
  <2> QED BY <1>1, <2>1, <2>2 DEF Allocator
<1>7. CASE UNCHANGED vars
  BY <1>1, <1>7 DEF vars
<1>8. "loop" \in Allocator /\ "vis" \in Allocator
  BY DEF Allocator
<1> QED BY <1>2, <1>3, <1>4, <1>5, <1>6, <1>7, <1>8 DEF Next, LoginAccepted, LoginRefused, GetNewMobID

(* Two searches that hold the same entry, or have returned it, raced to    *)
(* it; who carries an id got it from the search of its kind.               *)
RaceInv ==
    /\ \A t \in Allocator : taking[t] => free[at[t]] \/ at[t] \in raced
    /\ taking["loop"] /\ taking["vis"] /\ at["loop"] = at["vis"] => at["loop"] \in raced
    /\ given["loop"] \cap given["vis"] \subseteq raced
    /\ \A c \in Client : clientid[c] # 0 => clientid[c] \in given["loop"]
    /\ \A n \in spawned : npcid[n] # 0 => npcid[n] \in given["vis"]

(* An entry that the other search has returned is not free: a search that  *)
(* takes it all the same had seen it free before, so the two raced.        *)
LEMMA RaceStep == TypeOK /\ GivenInv /\ RaceInv /\ [Next]_vars => RaceInv'
<1> SUFFICES ASSUME TypeOK, GivenInv, RaceInv, [Next]_vars PROVE RaceInv'
  OBVIOUS
<1>0. /\ free \in [Id -> BOOLEAN] /\ at \in [Allocator -> 0..(Top + 1)]
      /\ taking \in [Allocator -> BOOLEAN] /\ given \in [Allocator -> SUBSET Id]
      /\ \A t \in Allocator : taking[t] => at[t] \in Id
      /\ clientid \in [Client -> 0..Top] /\ npcid \in [Npc -> 0..Top] /\ spawned \subseteq Npc
  BY DEF TypeOK, TableTypes, ObjectTypes
<1>a. "loop" \in Allocator /\ "vis" \in Allocator /\ \A t \in Allocator : t \in {"loop", "vis"}
  BY DEF Allocator
<1>1. ASSUME UNCHANGED <<free, given, raced>>,
             \A t \in Allocator : taking'[t] => taking[t] /\ at'[t] = at[t],
             \A c \in Client : clientid'[c] = clientid[c] \/ clientid'[c] = 0,
             spawned' = spawned, npcid' = npcid
      PROVE  RaceInv'
  BY <1>a, <1>1 DEF RaceInv
<1>2. ASSUME NEW t \in Allocator, SearchEntry(t) PROVE RaceInv'
  <2>1. UNCHANGED <<free, given, clientid, npcid, spawned>> /\ ~ taking[t] /\ raced \subseteq raced'
    BY <1>2 DEF SearchEntry
  <2>2. CASE free[at[t]]
    <3>1. /\ at' = at /\ taking' = [taking EXCEPT ![t] = TRUE]
          /\ \A u \in Allocator \ {t} : taking[u] /\ at[u] = at[t] => at[t] \in raced'
      BY <1>2, <2>2 DEF SearchEntry
    <3>2. \A u \in Allocator : taking'[u] => free'[at'[u]] \/ at'[u] \in raced'
      BY <1>0, <2>1, <2>2, <3>1 DEF RaceInv
    <3>3. taking'["loop"] /\ taking'["vis"] /\ at'["loop"] = at'["vis"] => at'["loop"] \in raced'
      BY <1>0, <1>a, <2>1, <3>1 DEF RaceInv
    <3> QED BY <2>1, <3>2, <3>3 DEF RaceInv
  <2>3. CASE ~ free[at[t]]
    <3>1. taking' = taking /\ at' = [at EXCEPT ![t] = @ + 1] /\ raced' = raced
      BY <1>2, <2>3 DEF SearchEntry
    <3>2. \A u \in Allocator : taking'[u] => taking[u] /\ at'[u] = at[u]
      BY <1>0, <2>1, <3>1
    <3> QED BY <1>1, <2>1, <3>1, <3>2
  <2> QED BY <2>2, <2>3
<1>3. ASSUME NEW t \in Allocator, TakeEntry(t),
             \A c \in Client : clientid'[c] # 0 => clientid'[c] \in given'["loop"],
             \A n \in spawned' : npcid'[n] # 0 => npcid'[n] \in given'["vis"]
      PROVE  RaceInv'
  <2>1. /\ taking[t] /\ at[t] \in Id
        /\ free' = [free EXCEPT ![at[t]] = FALSE]
        /\ given' = [given EXCEPT ![t] = @ \cup {at[t]}]
        /\ taking' = [taking EXCEPT ![t] = FALSE]
        /\ at' = [at EXCEPT ![t] = 0] /\ raced' = raced
    BY <1>0, <1>3 DEF TakeEntry
  <2>2. \A u \in Allocator : taking'[u] => u # t /\ taking[u] /\ at'[u] = at[u]
    BY <1>0, <2>1
  <2>3. ASSUME NEW u \in Allocator, taking'[u] PROVE free'[at'[u]] \/ at'[u] \in raced'
    <3>1. CASE at[u] = at[t]
      BY <1>a, <2>1, <2>2, <2>3, <3>1 DEF RaceInv
    <3>2. CASE at[u] # at[t]
      <4>1. at[u] \in Id /\ (free[at[u]] \/ at[u] \in raced)
        BY <1>0, <2>2, <2>3 DEF RaceInv
      <4> QED BY <1>0, <2>1, <2>2, <2>3, <3>2, <4>1
    <3> QED BY <3>1, <3>2
  <2>4. ASSUME NEW u \in Allocator, u # t, at[t] \in given[u] PROVE at[t] \in raced
    <3>1. ~ free[at[t]]
      BY <2>4 DEF GivenInv
    <3> QED BY <2>1, <3>1 DEF RaceInv
  <2>5. given'["loop"] \cap given'["vis"] \subseteq raced'
    <3>1. CASE t = "loop"
      BY <1>0, <1>a, <2>1, <2>4, <3>1 DEF RaceInv
    <3>2. CASE t = "vis"
      BY <1>0, <1>a, <2>1, <2>4, <3>2 DEF RaceInv
    <3> QED BY <1>a, <3>1, <3>2
  <2>6. ~ (taking'["loop"] /\ taking'["vis"])
    BY <1>a, <2>2
  <2> QED BY <1>3, <2>3, <2>5, <2>6 DEF RaceInv
<1>4. ASSUME NEW c \in Client, LoginAccepted(c) PROVE RaceInv'
  <2>1. /\ TakeEntry("loop") /\ UNCHANGED <<npcid, spawned>>
        /\ clientid' = [clientid EXCEPT ![c] = at["loop"]]
        /\ given' = [given EXCEPT !["loop"] = @ \cup {at["loop"]}]
    BY <1>4 DEF LoginAccepted, TakeEntry
  <2>2. given'["loop"] = given["loop"] \cup {at["loop"]} /\ given'["vis"] = given["vis"]
    BY <1>0, <1>a, <2>1
  <2>3. \A d \in Client : clientid'[d] # 0 => clientid'[d] \in given'["loop"]
    BY <1>0, <2>1, <2>2 DEF RaceInv
  <2>4. \A n \in spawned' : npcid'[n] # 0 => npcid'[n] \in given'["vis"]
    BY <2>1, <2>2 DEF RaceInv
  <2> QED BY <1>3, <1>a, <2>1, <2>3, <2>4
<1>5. ASSUME NEW c \in Client, NEW n \in Npc, GetNewMobID(c, n) PROVE RaceInv'
  <2>1. CASE SendSpawn(c, n, at["vis"]) /\ TakeEntry("vis")
    <3>1. /\ UNCHANGED clientid /\ npcid' = [npcid EXCEPT ![n] = at["vis"]]
          /\ spawned' = spawned \cup {n}
          /\ given' = [given EXCEPT !["vis"] = @ \cup {at["vis"]}]
      BY <2>1 DEF SendSpawn, TakeEntry
    <3>2. given'["vis"] = given["vis"] \cup {at["vis"]} /\ given'["loop"] = given["loop"]
      BY <1>0, <1>a, <3>1
    <3>3. \A d \in Client : clientid'[d] # 0 => clientid'[d] \in given'["loop"]
      BY <3>1, <3>2 DEF RaceInv
    <3>4. \A m \in spawned' : npcid'[m] # 0 => npcid'[m] \in given'["vis"]
      BY <1>0, <3>1, <3>2 DEF RaceInv
    <3> QED BY <1>3, <1>a, <2>1, <3>3, <3>4
  <2>2. CASE SendSpawn(c, n, 0) /\ NoEntry("vis")
    <3>1. /\ UNCHANGED <<clientid, free, given, raced, taking>>
          /\ npcid' = [npcid EXCEPT ![n] = 0] /\ spawned' = spawned \cup {n}
          /\ at' = [at EXCEPT !["vis"] = 0] /\ at["vis"] = Top + 1
      BY <2>2 DEF SendSpawn, NoEntry
    <3>2. ~ taking["vis"]
      BY <1>0, <1>a, <3>1, IdAssumption DEF Id
    <3>3. at'["loop"] = at["loop"]
      BY <1>0, <1>a, <3>1
    <3>4. \A m \in spawned' : npcid'[m] # 0 => npcid'[m] \in given'["vis"]
      BY <1>0, <3>1 DEF RaceInv
    <3> QED BY <1>a, <3>1, <3>2, <3>3, <3>4 DEF RaceInv
  <2> QED BY <1>5, <2>1, <2>2 DEF GetNewMobID
<1>6. ASSUME NEW c \in Client,
             GetNewClientID(c) \/ LoginNewAccount(c) \/ LoginRefused(c) \/ Disconnect(c)
      PROVE  RaceInv'
  <2>1. /\ UNCHANGED <<free, given, raced, taking, npcid, spawned>>
        /\ at["loop"] \in {0, Top + 1} /\ at'["vis"] = at["vis"]
    BY <1>0, <1>a, <1>6 DEF GetNewClientID, LoginNewAccount, LoginRefused, NoEntry, Disconnect, Forget
  <2>2. ~ taking["loop"]
    BY <1>0, <1>a, <2>1, IdAssumption DEF Id
  <2>3. \A d \in Client : clientid'[d] = clientid[d] \/ clientid'[d] = 0
    BY <1>0, <1>6 DEF GetNewClientID, LoginNewAccount, LoginRefused, Disconnect, Forget
  <2> QED BY <1>1, <1>a, <2>1, <2>2, <2>3
<1>7. ASSUME NEW c \in Client, NEW n \in Npc, SpawnNPC(c, n) PROVE RaceInv'
  <2>1. /\ UNCHANGED <<free, given, raced, taking, clientid, npcid, spawned>>
        /\ at["vis"] = 0 /\ at'["loop"] = at["loop"]
    BY <1>0, <1>a, <1>7 DEF SpawnNPC
  <2>2. ~ taking["vis"]
    BY <1>0, <1>a, <2>1, IdAssumption DEF Id
  <2> QED BY <1>1, <1>a, <2>1, <2>2
<1>8. CASE UNCHANGED vars
  BY <1>1, <1>8 DEF vars
<1> QED BY <1>2, <1>4, <1>5, <1>6, <1>7, <1>8 DEF Next

(* The inductive invariant of the id table holds in every behaviour of the *)
(* two threads.                                                            *)
THEOREM Invariance == Spec => []IndInv
  BY InitIndInv, IndStep, PTL DEF Spec

-----------------------------------------------------------------------------
(* The searches stay within the table, for every table size.               *)
THEOREM TypeCorrect == Spec => []TypeOK
  BY Invariance, PTL DEF IndInv

(* GetNewClientID never gives two players in the world the same id.        *)
THEOREM ClientIdsUniqueHolds == Spec => []ClientIdsUnique
  BY Invariance, PTL DEF IndInv

(* GetNewMobID never gives two NPCs the same id.                           *)
THEOREM NpcIdsUniqueHolds == Spec => []NpcIdsUnique
  BY Invariance, PTL DEF IndInv

(* Ids in use never return to the table.                                   *)
THEOREM IdsInUseAreTakenHolds == Spec => []IdsInUseAreTaken
  BY Invariance, PTL DEF IndInv

(* Neither GetNewClientID nor GetNewMobID returns an id it has returned    *)
(* before, for every table size and although the two race on the table.    *)
THEOREM NeverReissuedHolds == Spec => []NeverReissued
<1>1. Init => GivenInv /\ NeverReissued
  BY DEF Init, GivenInv, NeverReissued, Allocator
<1> QED BY TypeCorrect, <1>1, ReissueStep, PTL DEF Spec

(* A player and an NPC share an id only if GetNewClientID and GetNewMobID  *)
(* raced to it, for every table size and any number of players and NPCs.   *)
THEOREM SharedOnlyIfRacedHolds == Spec => []SharedOnlyIfRaced
<1>1. Init => GivenInv /\ RaceInv
  BY IdAssumption DEF Init, GivenInv, RaceInv, Allocator, Id
<1>2. RaceInv => SharedOnlyIfRaced
  BY DEF RaceInv, SharedOnlyIfRaced
<1>3. Spec => []GivenInv
  <2>1. Init => GivenInv /\ NeverReissued
    BY DEF Init, GivenInv, NeverReissued, Allocator
  <2> QED BY TypeCorrect, <2>1, ReissueStep, PTL DEF Spec
<1> QED BY TypeCorrect, <1>1, <1>2, <1>3, RaceStep, PTL DEF Spec

(* However often NPCs come into sight, the id a client was sent for one    *)
(* never makes GetNPCByID return another that has been spawned.            *)
THEOREM ClickNeverMisleadsHolds == Spec => []ClickNeverMisleads
<1>1. Init => ToldInv /\ ClickNeverMisleads
  BY DEF Init, ToldInv, ClickNeverMisleads, Allocator
<1> QED BY Invariance, <1>1, ToldStep, PTL DEF Spec
=============================================================================
