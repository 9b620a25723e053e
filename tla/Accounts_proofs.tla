--------------------------- MODULE Accounts_proofs ---------------------------
(***************************************************************************)
(* For any accounts, characters, items and connections, and whichever      *)
(* statements fail: the tables stay consistent and sessions never have     *)
(* more gold than their characters.  All rests on the ids: those of the    *)
(* tables and of the sessions were issued before, and the next one is      *)
(* either new to all of them or counts as reissued from then on, so no     *)
(* later row can be mistaken for the character a session was loaded from.  *)
(***************************************************************************)
EXTENDS Accounts, TLAPS

DbTypes ==
    /\ accounts \in [User -> {"none", "inactive", "offline", "online"}]
    /\ characters \subseteq Row
    /\ char_items \subseteq [owner : Id, slotnum : Slot]
    /\ lastid \in 0..MaxId
    /\ cold \in BOOLEAN
    /\ inserts \in 0..MaxInserts
    /\ issued \subseteq Id /\ reissued \subseteq issued

(* Rows and items have ids that were issued, and the count is never behind *)
(* a row (it may be behind items, or behind what a session holds).         *)
IdsIssued ==
    /\ \A x \in characters : x.id \in issued /\ (~ cold => x.id <= lastid)
    /\ \A i \in char_items : i.owner \in issued

DbInv == DbTypes /\ NamesUnique /\ IdsIssued /\ OrphansNotInherited

(* A session's copy is sound for these characters and these ids.           *)
Sound(s, rows, ids, twice) ==
    /\ s \in Session
    /\ s.charid \in ids \cup {0}
    /\ s.gold >= 0
    /\ \A x \in rows : x.id = s.charid /\ x.id \notin twice => s.gold <= x.gold

SessionInv ==
    /\ session \in [Conn -> Session]
    /\ \A c \in Conn : Sound(session[c], characters, issued, reissued)

IndInv == DbInv /\ SessionInv

-----------------------------------------------------------------------------
(* New and closed sessions hold no character and no gold.                  *)
LEMMA ClientSound ==
    ASSUME DbTypes, NEW v \in {Empty, Junk}
    PROVE  /\ Sound(NewClient(v), characters, issued, reissued)
           /\ Sound(Closed, characters, issued, reissued)
<1>1. v \in 0..Junk /\ Empty \in 0..Junk /\ 0 \in 0..MaxId
  BY TableAssumption DEF Empty, Junk
<1>2. [s \in Slot |-> v] \in [Slot -> 0..Junk] /\ [s \in Slot |-> Empty] \in [Slot -> 0..Junk]
  BY <1>1
<1>3. NewClient(v) \in Session /\ Closed \in Session
  <2>1. NewClient(v) \in Session
    BY <1>1, <1>2 DEF NewClient, Session
  <2>2. NewClient(Empty) \in Session
    BY <1>1, <1>2 DEF NewClient, Session
  <2> QED BY <2>1, <2>2 DEF Closed, Session
<1>4. /\ NewClient(v).charid = 0 /\ NewClient(v).gold = 0
      /\ Closed.charid = 0 /\ Closed.gold = 0
  BY DEF NewClient, Closed
<1>5. \A x \in characters : x.id # 0
  BY TableAssumption DEF DbTypes, Row, Id
<1> QED BY <1>3, <1>4, <1>5 DEF Sound

(* A connection that was closed holds nothing.                             *)
LEMMA ClosedSound == DbTypes => Sound(Closed, characters, issued, reissued)
  BY ClientSound

(* A step that leaves the tables alone keeps the invariant when the        *)
(* session it assigns is sound.                                            *)
LEMMA AnswerKeeps ==
    ASSUME IndInv, UNCHANGED db, NEW c \in Conn, NEW s, Sound(s, characters, issued, reissued), Answer(c, s)
    PROVE  IndInv'
<1>1. DbInv'
  BY DEF IndInv, DbInv, DbTypes, NamesUnique, IdsIssued, OrphansNotInherited, db, counters
<1>2. s \in Session
  BY DEF Sound
<1>3. session' \in [Conn -> Session]
  BY <1>2 DEF Answer, IndInv, SessionInv
<1>4. ASSUME NEW d \in Conn PROVE Sound(session'[d], characters', issued', reissued')
  <2>1. UNCHANGED <<characters, issued, reissued>>
    BY DEF db, counters
  <2>2. session'[d] = s \/ session'[d] = session[d]
    BY DEF Answer, IndInv, SessionInv
  <2> QED BY <2>1, <2>2 DEF IndInv, SessionInv
<1> QED BY <1>1, <1>3, <1>4 DEF IndInv, SessionInv

(* The tables change and sessions only close: what is left is sound when   *)
(* the rows are old ones or have ids that are new or given again.          *)
NewId(id) == id \notin issued \cup {0} \/ id \in reissued'
SessionsClose == \A c \in Conn : session'[c] = session[c] \/ session'[c] = Closed

(* Closing one connection leaves the others as sound as they were.         *)
LEMMA ClosingKeeps ==
    ASSUME IndInv, DbInv', SessionsClose, session' \in [Conn -> Session],
           issued \subseteq issued', reissued \subseteq reissued',
           \A x \in characters' : x \in characters \/ NewId(x.id)
    PROVE  IndInv'
<1> SUFFICES ASSUME NEW c \in Conn PROVE Sound(session'[c], characters', issued', reissued')
  BY DEF IndInv, SessionInv
<1>1. Sound(session[c], characters, issued, reissued) /\ Sound(Closed, characters, issued, reissued)
  BY ClosedSound DEF IndInv, DbInv, SessionInv
<1>3. ASSUME NEW s, Sound(s, characters, issued, reissued)
      PROVE  Sound(s, characters', issued', reissued')
  BY <1>3 DEF Sound, NewId
<1> QED BY <1>1, <1>3 DEF SessionsClose

(* ReturnFalse, Die and ResendCharList only close sessions.                *)
LEMMA Closing ==
    ASSUME IndInv, NEW c \in Conn, Die \/ ReturnFalse(c) \/ ResendCharList(c) \/ UNCHANGED session
    PROVE  SessionsClose /\ session' \in [Conn -> Session]
<1>1. Closed \in Session
  BY ClosedSound DEF Sound, IndInv, DbInv
<1>2. session \in [Conn -> Session]
  BY DEF IndInv, SessionInv
<1>3. CASE Die
  BY <1>1, <1>3 DEF Die, SessionsClose
<1>4. CASE ReturnFalse(c)
  BY <1>1, <1>2, <1>4 DEF ReturnFalse, SessionsClose
<1>5. CASE UNCHANGED session
  BY <1>2, <1>5 DEF SessionsClose
<1> QED BY <1>3, <1>4, <1>5 DEF ResendCharList

(* A handler that leaves the sessions alone, or closes one, keeps them     *)
(* sound.                                                                  *)
LEMMA ClosingOnly ==
    ASSUME IndInv, UNCHANGED <<characters, char_items, counters>>,
           accounts' \in [User -> {"none", "inactive", "offline", "online"}],
           NEW c \in Conn, Die \/ ReturnFalse(c) \/ ResendCharList(c) \/ UNCHANGED session
    PROVE  IndInv'
<1>1. DbInv'
  BY DEF IndInv, DbInv, DbTypes, NamesUnique, IdsIssued, OrphansNotInherited, counters
<1>2. SessionsClose /\ session' \in [Conn -> Session]
  BY Closing
<1>3. UNCHANGED <<characters, issued, reissued>>
  BY DEF counters
<1> QED BY <1>1, <1>2, <1>3, ClosingKeeps

-----------------------------------------------------------------------------
(* The tables a server starts with, and no connection, satisfy the         *)
(* invariant.                                                              *)
LEMMA InitInv == Init => IndInv
<1> SUFFICES ASSUME Init PROVE IndInv
  OBVIOUS
<1>1. DbTypes
  <2>1. 0 \in 0..MaxId /\ 0 \in 0..MaxInserts /\ \A x \in Characters0 : x.id \in Id
    BY TableAssumption DEF Row
  <2>2. lastid \in 0..MaxId /\ cold \in BOOLEAN /\ inserts \in 0..MaxInserts
    BY <2>1 DEF Init
  <2>3. issued \subseteq Id /\ reissued \subseteq issued
    BY <2>1 DEF Init
  <2>4. char_items \subseteq [owner : Id, slotnum : Slot]
    BY <2>1, TableAssumption DEF Init
  <2> QED BY <2>2, <2>3, <2>4, TableAssumption DEF Init, DbTypes
<1>2. NamesUnique
  BY TableAssumption DEF Init, NamesUnique
<1>3. IdsIssued /\ OrphansNotInherited
  <2>1. IdsIssued
    BY TableAssumption DEF Init, IdsIssued
  <2>2. OrphansNotInherited
    BY TableAssumption DEF Init, OrphansNotInherited
  <2> QED BY <2>1, <2>2
<1>4. SessionInv
  <2>1. Sound(Closed, characters, issued, reissued) /\ Closed \in Session
    BY <1>1, ClosedSound DEF Sound
  <2> QED BY <2>1 DEF Init, SessionInv
<1> QED BY <1>1, <1>2, <1>3, <1>4 DEF IndInv, DbInv

(* CheckLogin changes only the user and the login of a session.            *)
LEMMA LoginStep ==
    ASSUME IndInv, NEW c \in Conn, NEW u \in User, CheckLogin(c, u)
    PROVE  IndInv'
<1> DEFINE s == session[c]
<1>0. Sound(s, characters, issued, reissued)
  BY DEF IndInv, SessionInv
<1>1. Sound([s EXCEPT !.user = u], characters, issued, reissued)
  BY <1>0 DEF Sound, Session
<1>3. ASSUME ReturnFalse(c), UNCHANGED db PROVE IndInv'
  BY <1>3, ClosingOnly DEF db, IndInv, DbInv, DbTypes
<1>2. CASE LoginDenied(c, u) \/ LoginAccepted(c, u)
  BY <1>1, <1>2, <1>3, AnswerKeeps DEF LoginDenied, LoginAccepted, SendCharList
<1>4. CASE LoginAutoAcc(c, u)
  <2>1. accounts' \in [User -> {"none", "inactive", "offline", "online"}]
    BY <1>4 DEF LoginAutoAcc, IndInv, DbInv, DbTypes
  <2>2. UNCHANGED <<characters, char_items, counters>>
    BY <1>4 DEF LoginAutoAcc
  <2>3. CASE ReturnFalse(c)
    BY <2>1, <2>2, <2>3, ClosingOnly
  <2>4. CASE Answer(c, [s EXCEPT !.user = u])
    <3>1. DbInv'
      BY <2>1, <2>2 DEF IndInv, DbInv, DbTypes, NamesUnique, IdsIssued, OrphansNotInherited,
         counters
    <3>2. session' = [session EXCEPT ![c] = [s EXCEPT !.user = u]]
      BY <2>4 DEF Answer
    <3> HIDE DEF s
    <3>3. [s EXCEPT !.user = u] \in Session
      BY <1>1 DEF Sound
    <3>4. SessionInv'
      BY <1>1, <2>2, <3>2, <3>3 DEF IndInv, SessionInv, counters
    <3> QED BY <3>1, <3>4 DEF IndInv
  <2> QED BY <1>4, <2>3, <2>4 DEF LoginAutoAcc, SendCharList
<1> QED BY <1>2, <1>3, <1>4 DEF CheckLogin, LoginDropped

(* A new row has a new name, a new id and no gold.                         *)
LEMMA CreateStep ==
    ASSUME IndInv, NEW c \in Conn, NEW n \in Name, NEW pos \in Position, CharCreate(c, n, pos)
    PROVE  IndInv'
<1>0. accounts' \in [User -> {"none", "inactive", "offline", "online"}]
  BY DEF CharCreate, IndInv, DbInv, DbTypes
<1>1. CASE UNCHANGED <<characters, char_items, counters>> /\ (Die \/ ReturnFalse(c) \/ UNCHANGED session)
  BY <1>0, <1>1, ClosingOnly
<1>2. ASSUME ~ NameTaken(c, n), NEW id \in Id, NEW slots \in SUBSET StartItems,
             InsertCharacter(id, NewRow(c, n, pos, id, slots)),
             char_items' = char_items \cup ItemRows(id, slots),
             ResendCharList(c) \/ Die
      PROVE  IndInv'
  <2>1. PICK x : x = NewRow(c, n, pos, id, slots)
    OBVIOUS
  <2>2. session[c].user \in User \cup {NoName} /\ slots \subseteq Slot
    BY TableAssumption DEF IndInv, SessionInv, Session
  <2>3. x \in Row /\ x.id = id /\ x.name = n /\ x.kit = slots
    BY <2>1, <2>2 DEF NewRow, Row
  <2>4. /\ characters' = characters \cup {x} /\ lastid' = id /\ ~ cold' /\ cold' \in BOOLEAN
        /\ issued' = issued \cup {id} /\ reissued' = reissued \cup (issued \cap {id})
        /\ inserts' \in 0..MaxInserts
    <3>1. inserts + 1 \in 0..MaxInserts
      BY <1>2, TableAssumption DEF InsertCharacter, IndInv, DbInv, DbTypes
    <3> QED BY <1>2, <2>1, <3>1 DEF InsertCharacter
  <2>5. /\ ItemRows(id, slots) \subseteq [owner : Id, slotnum : Slot]
        /\ \A i \in ItemRows(id, slots) : i.owner = id
    BY <2>2 DEF ItemRows
  <2>6. DbTypes'
    <3>1. id \in 0..MaxId
      BY DEF Id
    <3> QED BY <1>0, <1>2, <2>3, <2>4, <2>5, <3>1 DEF IndInv, DbInv, DbTypes
  (* No row has the id, whether counted on or searched for in the table. *)
  <2>7. \A y \in characters : y.id < id /\ y.name # n
    <3>1. IsNextId(id) /\ lastid \in Int /\ id \in Int
      BY <1>2 DEF InsertCharacter, IndInv, DbInv, DbTypes, Id
    <3>2. \A y \in characters : y.id \in Int /\ (~ cold => y.id <= lastid)
      BY DEF IndInv, DbInv, DbTypes, IdsIssued, Row, Id
    <3> QED BY <1>2, <3>1, <3>2 DEF IsNextId, NameTaken
  <2>8. id \in Int /\ \A y \in characters : y.id \in Int
    BY DEF IndInv, DbInv, DbTypes, Row, Id
  <2>9. NamesUnique' /\ IdsIssued'
    <3>1. NamesUnique'
      BY <2>3, <2>4, <2>7, <2>8 DEF IndInv, DbInv, NamesUnique
    <3>2. \A y \in characters' : y.id \in issued' /\ y.id <= lastid'
      BY <2>3, <2>4, <2>7, <2>8 DEF IndInv, DbInv, IdsIssued
    <3>3. \A i \in char_items' : i.owner \in issued'
      BY <1>2, <2>4, <2>5 DEF IndInv, DbInv, IdsIssued
    <3> QED BY <3>1, <3>2, <3>3 DEF IdsIssued
  (* The row's own items if its id is new; the others' are as they were. *)
  <2>10. OrphansNotInherited'
    <3> SUFFICES ASSUME NEW y \in characters', y.id \notin reissued'
                 PROVE  SlotsOf(char_items', y.id) = y.kit
      BY DEF OrphansNotInherited
    <3>1. CASE y = x
      <4>1. id \notin issued /\ y.id = id /\ y.kit = slots
        BY <2>3, <2>4, <3>1
      <4>2. \A k \in Slot : [owner |-> id, slotnum |-> k] \notin char_items
        <5>1. \A k \in Slot : [owner |-> id, slotnum |-> k].owner = id
          OBVIOUS
        <5> QED BY <4>1, <5>1 DEF IndInv, DbInv, IdsIssued
      <4>3. \A k \in Slot : [owner |-> id, slotnum |-> k] \in ItemRows(id, slots) <=> k \in slots
        BY DEF ItemRows
      <4> QED BY <1>2, <2>2, <4>1, <4>2, <4>3 DEF SlotsOf
    <3>2. CASE y \in characters
      <4>1. y.id # id /\ y.id \notin reissued
        BY <2>4, <2>7, <2>8, <3>2
      <4>2. \A k \in Slot : [owner |-> y.id, slotnum |-> k] \notin ItemRows(id, slots)
        BY <4>1 DEF ItemRows
      <4>3. SlotsOf(char_items', y.id) = SlotsOf(char_items, y.id)
        BY <1>2, <4>2 DEF SlotsOf
      <4> QED BY <3>2, <4>1, <4>3 DEF IndInv, DbInv, OrphansNotInherited
    <3> QED BY <2>4, <3>1, <3>2
  <2>11. SessionsClose /\ session' \in [Conn -> Session]
    BY <1>2, Closing
  <2>12. /\ issued \subseteq issued' /\ reissued \subseteq reissued'
         /\ \A y \in characters' : y \in characters \/ NewId(y.id)
    BY <2>3, <2>4, TableAssumption DEF NewId, Id
  <2> QED BY <2>6, <2>9, <2>10, <2>11, <2>12, ClosingKeeps DEF DbInv
<1> QED BY <1>1, <1>2 DEF CharCreate, LoadCreateChar

(* Deleting takes rows away.                                               *)
LEMMA DeleteStep ==
    ASSUME IndInv, NEW c \in Conn, NEW n \in Name, CharDelete(c, n)
    PROVE  IndInv'
<1>0. UNCHANGED <<accounts, char_items, counters>>
  BY DEF CharDelete
<1>1. CASE UNCHANGED characters /\ (Die \/ ReturnFalse(c) \/ ResendCharList(c) \/ UNCHANGED session)
  BY <1>0, <1>1, ClosingOnly DEF IndInv, DbInv, DbTypes
<1>2. CASE characters' = {x \in characters : x.name # n} /\ ResendCharList(c)
  <2>1. characters' \subseteq characters
    BY <1>2
  <2>2. DbInv'
    BY <1>0, <2>1 DEF IndInv, DbInv, DbTypes, NamesUnique, IdsIssued, OrphansNotInherited, counters
  <2>3. SessionsClose /\ session' \in [Conn -> Session]
    BY <1>2, Closing
  <2>4. UNCHANGED <<issued, reissued>>
    BY <1>0 DEF counters
  <2> QED BY <2>1, <2>2, <2>3, <2>4, ClosingKeeps
<1> QED BY <1>1, <1>2 DEF CharDelete, DeleteChar

(* loaddata copies the gold of the one row with the charid it copies.      *)
LEMMA WorldStep ==
    ASSUME IndInv, NEW c \in Conn, NEW pos \in Position, SendToWorld(c, pos)
    PROVE  IndInv'
<1>0. UNCHANGED db /\ Sound(session[c], characters, issued, reissued) /\ accounts' \in [User -> {"none", "inactive", "offline", "online"}]
  BY DEF SendToWorld, db, IndInv, SessionInv, DbInv, DbTypes
<1>1. CASE Die \/ ReturnFalse(c)
  BY <1>0, <1>1, ClosingOnly DEF db
<1>2. ASSUME NEW s \in Chosen(session[c], pos), loaddata(c, s) PROVE IndInv'
  <2>3. Sound(s, characters, issued, reissued)
    <3>1. CASE s = session[c]
      BY <1>0, <3>1
    <3>2. ASSUME NEW x \in characters, s = [session[c] EXCEPT !.name = x.name]
          PROVE  Sound(s, characters, issued, reissued)
      <4>1. x.name \in Name
        BY DEF IndInv, DbInv, DbTypes, Row
      <4> QED BY <1>0, <3>2, <4>1 DEF Sound, Session
    <3> QED BY <1>2, <3>1, <3>2 DEF Chosen
  <2>4. CASE Answer(c, [s EXCEPT !.loaded = FALSE])
    <3>1. Sound([s EXCEPT !.loaded = FALSE], characters, issued, reissued)
      BY <2>3 DEF Sound, Session
    <3> QED BY <1>0, <2>4, <3>1, AnswerKeeps
  <2>5. ASSUME NEW x \in CharRows(s),
               NEW t, t = [s EXCEPT !.charid = x.id, !.gold = x.gold, !.loaded = FALSE],
               \/ Answer(c, t)
               \/ Answer(c, [t EXCEPT !.items = LoadedItems(s, x.id), !.loaded = TRUE])
        PROVE  IndInv'
    <3>1. x \in characters /\ x \in Row /\ x.id \in Id /\ x.gold \in Nat /\ x.id \in issued
      BY DEF CharRows, IndInv, DbInv, DbTypes, IdsIssued, Row
    <3>2. \A y \in characters : y.id = x.id => y = x
      BY <3>1 DEF IndInv, DbInv, NamesUnique
    <3>3. t \in Session /\ t.charid = x.id /\ t.gold = x.gold
      <4>1. x.id \in 0..MaxId /\ x.gold \in Int
        BY <3>1 DEF Id
      <4>2. s \in Session
        BY <2>3 DEF Sound
      <4> QED BY <2>5, <4>1, <4>2 DEF Session
    <3>4. Sound(t, characters, issued, reissued)
      BY <3>1, <3>2, <3>3 DEF Sound
    <3>5. LoadedItems(s, x.id) \in [Slot -> 0..Junk]
      <4>1. s.items \in [Slot -> 0..Junk]
        BY <2>3 DEF Sound, Session
      <4>2. x.id \in 0..Junk /\ Empty \in 0..Junk
        BY <3>1, TableAssumption DEF Id, Junk, Empty
      <4> QED BY <4>1, <4>2 DEF LoadedItems
    <3>6. Sound([t EXCEPT !.items = LoadedItems(s, x.id), !.loaded = TRUE],
                characters, issued, reissued)
      BY <3>3, <3>4, <3>5 DEF Sound, Session
    <3> QED BY <1>0, <2>5, <3>4, <3>6, AnswerKeeps
  <2>6. CASE Die
    BY <1>1, <2>6
  <2> QED BY <1>2, <2>4, <2>5, <2>6 DEF loaddata
<1> QED BY <1>1, <1>2 DEF SendToWorld

(* Buying needs the price.                                                 *)
LEMMA BuyStep ==
    ASSUME IndInv, NEW c \in Conn, ShopItemBuy(c)
    PROVE  IndInv'
<1>0. Sound(session[c], characters, issued, reissued) /\ UNCHANGED db
  BY DEF IndInv, SessionInv, ShopItemBuy
<1>1. PICK s : s = [session[c] EXCEPT !.gold = @ - Price]
  OBVIOUS
<1>2. /\ session[c] \in Session /\ session[c].gold \in Int /\ session[c].gold >= Price
      /\ Price \in Nat
  BY <1>0, TableAssumption DEF Sound, Session, ShopItemBuy
<1>3. s \in Session /\ s.charid = session[c].charid /\ s.gold = session[c].gold - Price
  BY <1>1, <1>2 DEF Session
<1>4. \A x \in characters : x.gold \in Int
  BY DEF IndInv, DbInv, DbTypes, Row
<1>5. Sound(s, characters, issued, reissued)
  BY <1>0, <1>2, <1>3, <1>4 DEF Sound
<1> QED BY <1>0, <1>1, <1>5, AnswerKeeps DEF ShopItemBuy

(* Every handler preserves the invariant, statement failures and process   *)
(* ends included.                                                          *)
LEMMA NextInv == IndInv /\ [Next]_vars => IndInv'
<1> SUFFICES ASSUME IndInv, [Next]_vars PROVE IndInv'
  OBVIOUS
<1>1. ASSUME UNCHANGED vars PROVE IndInv'
  BY <1>1 DEF vars, db, counters, IndInv, DbInv, DbTypes, NamesUnique, IdsIssued,
     OrphansNotInherited, SessionInv
<1>2. ASSUME NEW c \in Conn, Connect(c) PROVE IndInv'
  BY <1>2, ClientSound, AnswerKeeps DEF Connect, IndInv, DbInv
<1>3. ASSUME NEW c \in Conn, Disconnect(c) PROVE IndInv'
  BY <1>3, ClosingOnly DEF Disconnect, db, IndInv, DbInv, DbTypes
<1>4. ASSUME Shutdown \/ DatabaseRestart PROVE IndInv'
  <2>1. UNCHANGED <<accounts, characters, char_items, inserts, issued, reissued>>
    BY <1>4 DEF Shutdown, DatabaseRestart, db, counters
  <2>2. UNCHANGED <<lastid, cold>> \/ (cold' = TRUE /\ lastid' = 0)
    BY <1>4 DEF Shutdown, DatabaseRestart, db, counters
  <2>3. DbTypes' /\ IdsIssued'
    <3>1. 0 \in 0..MaxId
      BY TableAssumption
    <3> QED BY <2>1, <2>2, <3>1 DEF IndInv, DbInv, DbTypes, IdsIssued
  <2>4. DbInv'
    BY <2>1, <2>3 DEF IndInv, DbInv, NamesUnique, OrphansNotInherited
  <2>5. Sound(Closed, characters', issued', reissued')
    BY <2>1, ClosedSound DEF IndInv, DbInv
  <2>6. session' = [c \in Conn |-> Closed]
    BY <1>4 DEF Shutdown, DatabaseRestart, Die
  <2>7. SessionInv'
    BY <2>5, <2>6 DEF SessionInv, Sound
  <2> QED BY <2>4, <2>7 DEF IndInv
<1> QED BY <1>1, <1>2, <1>3, <1>4, LoginStep, CreateStep, DeleteStep, WorldStep, BuyStep
    DEF Next, GameToCharList, ChangeInventory, SaveRequest

-----------------------------------------------------------------------------
(* A session that was loaded completely shows its character's name and     *)
(* items, as these rows have them, unless its id was given twice.          *)
Faithful(s, rows, items, twice) ==
    s.loaded /\ s.charid \notin twice =>
        /\ \A x \in rows : s.charid = x.id => x.name = s.name
        /\ \A k \in 0..(LastSlot - 1) :
              s.items[k] = IF [owner |-> s.charid, slotnum |-> k] \in items THEN s.charid ELSE Empty

FaithfulInv == \A c \in Conn : Faithful(session[c], characters, char_items, reissued)

(* New and closed sessions were not loaded.                                *)
LEMMA UnloadedFaithful ==
    ASSUME NEW rows, NEW items, NEW twice, NEW v
    PROVE  Faithful(Closed, rows, items, twice) /\ Faithful(NewClient(v), rows, items, twice)
<1>1. Closed.loaded = FALSE /\ NewClient(v).loaded = FALSE
  BY DEF Closed, NewClient
<1> QED BY <1>1 DEF Faithful

(* An answer that is faithful to unchanged tables.                         *)
LEMMA AnswerFaithful ==
    ASSUME IndInv, FaithfulInv, UNCHANGED <<characters, char_items, reissued>>, NEW c \in Conn, NEW s,
           Faithful(s, characters, char_items, reissued), Answer(c, s)
    PROVE  FaithfulInv'
<1> SUFFICES ASSUME NEW d \in Conn PROVE Faithful(session'[d], characters', char_items', reissued')
  BY DEF FaithfulInv
<1>1. session'[d] = s \/ session'[d] = session[d]
  BY DEF Answer, IndInv, SessionInv
<1> QED BY <1>1 DEF FaithfulInv

(* Sessions close, and the rows and items that appear have new ids.        *)
LEMMA ClosingFaithful ==
    ASSUME IndInv, FaithfulInv, SessionsClose, reissued \subseteq reissued',
           \A x \in characters' : x \in characters \/ NewId(x.id),
           char_items \subseteq char_items',
           \A i \in char_items' : i \in char_items \/ NewId(i.owner)
    PROVE  FaithfulInv'
<1> SUFFICES ASSUME NEW d \in Conn PROVE Faithful(session'[d], characters', char_items', reissued')
  BY DEF FaithfulInv
<1>1. CASE session'[d] = Closed
  BY <1>1, UnloadedFaithful
<1>2. CASE session'[d] = session[d]
  <2>1. PICK s : s = session[d]
    OBVIOUS
  <2>2. Faithful(s, characters, char_items, reissued) /\ s.charid \in issued \cup {0}
    BY <2>1 DEF FaithfulInv, IndInv, SessionInv, Sound
  <2> SUFFICES ASSUME s.charid \notin reissued'
               PROVE  Faithful(s, characters', char_items', reissued')
    BY <1>2, <2>1 DEF Faithful
  <2>3. ASSUME NEW x \in characters', s.charid = x.id PROVE x \in characters
    BY <2>2, <2>3 DEF NewId
  <2>4. ASSUME NEW k
        PROVE  [owner |-> s.charid, slotnum |-> k] \in char_items' <=>
               [owner |-> s.charid, slotnum |-> k] \in char_items
    <3>1. [owner |-> s.charid, slotnum |-> k].owner = s.charid
      OBVIOUS
    <3> QED BY <2>2, <3>1 DEF NewId
  <2> QED BY <2>2, <2>3, <2>4 DEF Faithful
<1> QED BY <1>1, <1>2 DEF SessionsClose

(* Sessions close and the tables stay.                                     *)
LEMMA ClosingOnlyFaithful ==
    ASSUME IndInv, FaithfulInv, UNCHANGED <<characters, char_items, reissued>>, NEW c \in Conn,
           Die \/ ReturnFalse(c) \/ ResendCharList(c) \/ UNCHANGED session
    PROVE  FaithfulInv'
<1>1. SessionsClose
  BY Closing
<1> QED BY <1>1, ClosingFaithful

(* A login leaves the character alone.                                     *)
LEMMA LoginFaithful ==
    ASSUME IndInv, FaithfulInv, NEW c \in Conn, NEW u \in User, CheckLogin(c, u)
    PROVE  FaithfulInv'
<1>1. PICK s : s = session[c]
  OBVIOUS
<1>2. s \in Session /\ Faithful(s, characters, char_items, reissued)
  BY <1>1 DEF FaithfulInv, IndInv, SessionInv
<1>3. Faithful([s EXCEPT !.user = u], characters, char_items, reissued)
  BY <1>2 DEF Faithful, Session
<1>4. UNCHANGED <<characters, char_items, reissued>>
  BY DEF CheckLogin, LoginDenied, LoginAutoAcc, LoginAccepted, LoginDropped, db, counters
<1>5. CASE ReturnFalse(c)
  BY <1>4, <1>5, ClosingOnlyFaithful
<1>6. CASE Answer(c, [s EXCEPT !.user = u])
  BY <1>3, <1>4, <1>6, AnswerFaithful
<1> QED BY <1>1, <1>5, <1>6
    DEF CheckLogin, LoginDenied, LoginAutoAcc, LoginAccepted, LoginDropped, SendCharList

(* A new character's row and items have an id that no session holds, or    *)
(* that counts as given twice.                                             *)
LEMMA CreateFaithful ==
    ASSUME IndInv, FaithfulInv, NEW c \in Conn, NEW n \in Name, NEW pos \in Position,
           CharCreate(c, n, pos)
    PROVE  FaithfulInv'
<1>1. CASE UNCHANGED <<characters, char_items, reissued>> /\ (Die \/ ReturnFalse(c) \/ UNCHANGED session)
  BY <1>1, ClosingOnlyFaithful
<1>2. ASSUME NEW id \in Id, NEW slots \in SUBSET StartItems,
             InsertCharacter(id, NewRow(c, n, pos, id, slots)),
             char_items' = char_items \cup ItemRows(id, slots),
             ResendCharList(c) \/ Die
      PROVE  FaithfulInv'
  <2>1. /\ NewRow(c, n, pos, id, slots).id = id
        /\ \A i \in ItemRows(id, slots) : i.owner = id
    BY DEF NewRow, ItemRows
  <2>2. NewId(id) /\ reissued \subseteq reissued'
    BY <1>2 DEF InsertCharacter, NewId, Id
  <2>3. characters' = characters \cup {NewRow(c, n, pos, id, slots)}
    BY <1>2 DEF InsertCharacter
  <2>4. SessionsClose
    BY <1>2, Closing
  <2> QED BY <1>2, <2>1, <2>2, <2>3, <2>4, ClosingFaithful
<1>3. CASE UNCHANGED <<characters, char_items, counters>> /\ (Die \/ ReturnFalse(c) \/ UNCHANGED session)
  BY <1>1, <1>3 DEF counters
<1> QED BY <1>2, <1>3 DEF CharCreate, LoadCreateChar

(* Deleting takes rows away and leaves the items.                          *)
LEMMA DeleteFaithful ==
    ASSUME IndInv, FaithfulInv, NEW c \in Conn, NEW n \in Name, CharDelete(c, n)
    PROVE  FaithfulInv'
<1>1. UNCHANGED <<char_items, reissued>> /\ characters' \subseteq characters
  BY DEF CharDelete, DeleteChar, counters
<1>2. Die \/ ReturnFalse(c) \/ ResendCharList(c) \/ UNCHANGED session
  BY DEF CharDelete, DeleteChar
<1> QED BY <1>1, <1>2, Closing, ClosingFaithful

(* A complete loaddata copies the one row of the charid, and every slot it *)
(* clears from the table.                                                  *)
LEMMA WorldFaithful ==
    ASSUME IndInv, FaithfulInv, NEW c \in Conn, NEW pos \in Position, SendToWorld(c, pos)
    PROVE  FaithfulInv'
<1>0. UNCHANGED <<characters, char_items, reissued>>
  BY DEF SendToWorld, db, counters
<1>1. CASE Die \/ ReturnFalse(c)
  BY <1>0, <1>1, ClosingOnlyFaithful
<1>2. ASSUME NEW s \in Chosen(session[c], pos), loaddata(c, s) PROVE FaithfulInv'
  <2>1. s \in Session
    <3>1. session[c] \in Session /\ \A x \in characters : x.name \in Name
      BY DEF IndInv, DbInv, DbTypes, Row, SessionInv
    <3> QED BY <1>2, <3>1 DEF Chosen, Session
  <2>2. ASSUME NEW t, Answer(c, t), t.loaded = FALSE PROVE FaithfulInv'
    <3>1. Faithful(t, characters, char_items, reissued)
      BY <2>2 DEF Faithful
    <3> QED BY <1>0, <2>2, <3>1, AnswerFaithful
  <2>3. CASE Answer(c, [s EXCEPT !.loaded = FALSE])
    <3>1. [s EXCEPT !.loaded = FALSE].loaded = FALSE
      BY <2>1 DEF Session
    <3> QED BY <2>2, <2>3, <3>1
  <2>4. ASSUME NEW x \in CharRows(s),
               NEW t, t = [s EXCEPT !.charid = x.id, !.gold = x.gold, !.loaded = FALSE],
               \/ Answer(c, t)
               \/ Answer(c, [t EXCEPT !.items = LoadedItems(s, x.id), !.loaded = TRUE])
        PROVE  FaithfulInv'
    <3>1. /\ x \in characters /\ x.name = s.name
          /\ \A y \in characters : y.id = x.id => y = x
      BY DEF CharRows, IndInv, DbInv, NamesUnique
    <3>2. t.loaded = FALSE /\ t.charid = x.id /\ t.name = s.name
      BY <2>1, <2>4 DEF Session
    <3>3. CASE Answer(c, t)
      BY <2>2, <3>2, <3>3
    <3>4. PICK u : u = [t EXCEPT !.items = LoadedItems(s, x.id), !.loaded = TRUE]
      OBVIOUS
    <3>5. u.charid = x.id /\ u.name = s.name /\ u.items = LoadedItems(s, x.id)
      BY <2>1, <2>4, <3>4 DEF Session
    <3>6. ASSUME NEW k \in 0..(LastSlot - 1)
          PROVE  LoadedItems(s, x.id)[k] =
                     IF [owner |-> x.id, slotnum |-> k] \in char_items THEN x.id ELSE Empty
      <4>1. k \in Slot /\ k < LastSlot
        BY TableAssumption DEF Slot
      <4> QED BY <4>1 DEF LoadedItems
    <3>7. Faithful(u, characters, char_items, reissued)
      BY <3>1, <3>5, <3>6 DEF Faithful
    <3> QED BY <1>0, <2>4, <3>3, <3>4, <3>7, AnswerFaithful
  <2>5. CASE Die
    BY <1>1, <2>5
  <2> QED BY <1>2, <2>3, <2>4, <2>5 DEF loaddata
<1> QED BY <1>1, <1>2 DEF SendToWorld

(* Every handler keeps loaded sessions faithful.                           *)
LEMMA FaithfulNext == IndInv /\ FaithfulInv /\ [Next]_vars => FaithfulInv'
<1> SUFFICES ASSUME IndInv, FaithfulInv, [Next]_vars PROVE FaithfulInv'
  OBVIOUS
<1>1. ASSUME UNCHANGED vars PROVE FaithfulInv'
  BY <1>1 DEF vars, db, counters, FaithfulInv
<1>2. ASSUME NEW c \in Conn, Connect(c) PROVE FaithfulInv'
  BY <1>2, UnloadedFaithful, AnswerFaithful DEF Connect, db, counters
<1>3. ASSUME NEW c \in Conn, Disconnect(c) PROVE FaithfulInv'
  BY <1>3, ClosingOnlyFaithful DEF Disconnect, db, counters
<1>4. ASSUME NEW c \in Conn, ShopItemBuy(c) PROVE FaithfulInv'
  <2>1. PICK s : s = session[c]
    OBVIOUS
  <2>2. s \in Session /\ Faithful(s, characters, char_items, reissued)
    BY <2>1 DEF FaithfulInv, IndInv, SessionInv
  <2>3. Faithful([s EXCEPT !.gold = s.gold - Price], characters, char_items, reissued)
    BY <2>2 DEF Faithful, Session
  <2> QED BY <1>4, <2>1, <2>3, AnswerFaithful DEF ShopItemBuy, db, counters
<1>5. ASSUME Shutdown \/ DatabaseRestart PROVE FaithfulInv'
  BY <1>5, UnloadedFaithful DEF Shutdown, DatabaseRestart, Die, FaithfulInv
<1> QED BY <1>1, <1>2, <1>3, <1>4, <1>5, LoginFaithful, CreateFaithful, DeleteFaithful,
           WorldFaithful
    DEF Next, GameToCharList, ChangeInventory, SaveRequest

(* The invariant of the tables and the sessions.                           *)
THEOREM Invariance == Spec => []IndInv
  BY InitInv, NextInv, PTL DEF Spec

(* Handlers keep every table and session within its type.                  *)
THEOREM TypeCorrect == Spec => []TypeOK
<1>1. IndInv => TypeOK
  BY DEF IndInv, DbInv, DbTypes, SessionInv, TypeOK
<1> QED BY Invariance, <1>1, PTL

(* CharCreate and CharDelete keep names and ids unique.                    *)
THEOREM NamesUniqueHolds == Spec => []NamesUnique
<1>1. IndInv => NamesUnique
  BY DEF IndInv, DbInv
<1> QED BY Invariance, <1>1, PTL

(* CharDelete leaves items behind; LoadCreateChar gives them to nobody     *)
(* unless mysqld's restart made it give an id again.                       *)
THEOREM OrphansNotInheritedHolds == Spec => []OrphansNotInherited
<1>1. IndInv => OrphansNotInherited
  BY DEF IndInv, DbInv
<1> QED BY Invariance, <1>1, PTL

(* Loading and buying keep a session's gold between zero and the table's.  *)
THEOREM GoldWithinSavedHolds == Spec => []GoldWithinSaved
<1>1. IndInv => GoldWithinSaved
  BY DEF IndInv, SessionInv, Sound, GoldWithinSaved
<1> QED BY Invariance, <1>1, PTL

(* Loaded sessions stay faithful to the tables.                            *)
THEOREM LoadedFaithful == Spec => []FaithfulInv
<1>1. Init => FaithfulInv
  BY UnloadedFaithful DEF Init, FaithfulInv
<1> QED BY Invariance, <1>1, FaithfulNext, PTL DEF Spec

(* A deleted and recreated name, or another login, never gives a loaded    *)
(* session a character under another name.                                 *)
THEOREM CharacterIdentityHolds == Spec => []CharacterIdentity
<1>1. FaithfulInv => CharacterIdentity
  BY DEF FaithfulInv, Faithful, CharacterIdentity
<1> QED BY LoadedFaithful, <1>1, PTL

(* loaddata leaves nothing of an earlier character in the slots it clears. *)
THEOREM ItemsAreTheCharactersHolds == Spec => []ItemsAreTheCharacters
<1>1. FaithfulInv => ItemsAreTheCharacters
  BY DEF FaithfulInv, Faithful, ItemsAreTheCharacters
<1> QED BY LoadedFaithful, <1>1, PTL
=============================================================================
