------------------------------ MODULE Accounts -------------------------------
(***************************************************************************)
(* Accounts, characters and items: the MySQL tables and the copies that    *)
(* the connected clients' sessions hold.  Every handler runs in the server *)
(* loop, one at a time, so a handler is one action.  But it is a series of *)
(* SQL statements outside any transaction: any of them may fail, and the   *)
(* process may die between two of them.  The tables survive that.  So they *)
(* do when mysqld restarts; its count of character ids does not.           *)
(***************************************************************************)
EXTENDS Integers

CONSTANTS
    Conn,           \* connections
    User,           \* account names
    Name,           \* character names
    NoName,         \* the empty char_name or username of a new CConnClient
    Position,       \* places in the character list (posid)
    LastSlot,       \* last item slot, 77 in the code
    StartItems,     \* slots StartChar.xml fills
    Price,          \* 66000, what ShopItemBuy takes
    MaxId,          \* bound on characters.id, for model checking
    MaxInserts,     \* bound on the characters created, for model checking
    AutoAcc,        \* autoacc of serverconfig.xml
    DbMayFail,      \* DoSQL may return false
    Accounts0, Characters0, Items0      \* the tables at the start

Slot == 0..LastSlot
Id == 1..MaxId
Empty == 0              \* itemid 0; any other slot holds the id of the item's owner
Junk == MaxId + 1       \* what memory nobody initialised holds
(* `kit` is history: the slots filled when the character was created.      *)
Row == [id : Id, name : Name, uid : User \cup {NoName}, posid : Position, gold : Nat,
        kit : SUBSET Slot]
SlotsOf(items, id) == {k \in Slot : [owner |-> id, slotnum |-> k] \in items}

ASSUME TableAssumption ==
    /\ NoName \notin Name /\ NoName \notin User
    /\ LastSlot \in Nat /\ StartItems \subseteq Slot
    /\ Price \in Nat /\ MaxId \in Nat /\ MaxInserts \in Nat
    /\ AutoAcc \in BOOLEAN /\ DbMayFail \in BOOLEAN
    /\ Accounts0 \in [User -> {"none", "inactive", "offline", "online"}]
    /\ Characters0 \subseteq Row
    /\ \A x, y \in Characters0 : x # y => x.name # y.name /\ x.id # y.id
    /\ Items0 \subseteq {[owner |-> x.id, slotnum |-> s] : x \in Characters0, s \in Slot}
    /\ \A x \in Characters0 : SlotsOf(Items0, x.id) = x.kit

VARIABLES
    accounts,       \* active and online of each account
    characters,     \* rows of the table
    char_items,     \* rows of the table
    lastid,         \* last characters.id given out (auto_increment), 0 while cold
    cold,           \* mysqld has restarted and given out no characters.id since
    session,        \* what each CConnClient holds
    inserts,        \* history: how many characters were created
    issued,         \* history: the ids characters were given
    reissued        \* history: the ids given to more than one character

counters == <<lastid, cold, inserts, issued, reissued>>
db == <<accounts, characters, char_items, counters>>
vars == <<db, session>>

-----------------------------------------------------------------------------
(* CConnClient(): everything is set but the items.  `loaded` is history:   *)
(* the last loaddata of the session was complete.  (isLoggedIn and inGame, *)
(* which no handler here reads, are Visibility's.)                         *)
NewClient(v) ==
    [open |-> TRUE, user |-> NoName, name |-> NoName, charid |-> 0, gold |-> 0,
     items |-> [s \in Slot |-> v], loaded |-> FALSE]

Closed == [NewClient(Empty) EXCEPT !.open = FALSE]

Init ==
    /\ accounts = Accounts0
    /\ characters = Characters0
    /\ char_items = Items0
    /\ \/ cold = TRUE /\ lastid = 0
       \/ cold = FALSE /\ lastid \in {i \in 0..MaxId : \A x \in Characters0 : x.id <= i}
    /\ session = [c \in Conn |-> Closed]
    /\ inserts = 0
    /\ issued = {x.id : x \in Characters0}
    /\ reissued = {}

(* A handler answers and the connection stays, or returns false and the    *)
(* loop closes it; a NULL row makes the process die.                       *)
Answer(c, s) == session' = [session EXCEPT ![c] = s]
ReturnFalse(c) == session' = [session EXCEPT ![c] = Closed]
Die == session' = [c \in Conn |-> Closed]

Connect(c) ==
    /\ ~ session[c].open
    /\ \E v \in {Empty, Junk} : Answer(c, NewClient(v))
    /\ UNCHANGED db

Disconnect(c) == session[c].open /\ ReturnFalse(c) /\ UNCHANGED db

-----------------------------------------------------------------------------
(* The user name is the session's before anything is checked.              *)
LoginDenied(c, u) ==
    /\ Answer(c, [session[c] EXCEPT !.user = u])
    /\ UNCHANGED db

(* The answer to a login; it only reads the tables.                        *)
SendCharList(c, s) == Answer(c, s) \/ (DbMayFail /\ ReturnFalse(c))

LoginAutoAcc(c, u) ==
    /\ AutoAcc /\ accounts[u] = "none"
    /\ accounts' = [accounts EXCEPT ![u] = "offline"]
    /\ SendCharList(c, [session[c] EXCEPT !.user = u])
    /\ UNCHANGED <<characters, char_items, counters>>

LoginAccepted(c, u) ==
    /\ accounts[u] = "offline"
    /\ SendCharList(c, [session[c] EXCEPT !.user = u])
    /\ UNCHANGED db

(* A query failed, or GetNewClientID had no id left.                       *)
LoginDropped(c) == ReturnFalse(c) /\ UNCHANGED db

(* Denied: old client, wrong password, account unknown, inactive, online.  *)
CheckLogin(c, u) ==
    /\ session[c].open
    /\ LoginDenied(c, u) \/ LoginAutoAcc(c, u) \/ LoginAccepted(c, u) \/ LoginDropped(c)

-----------------------------------------------------------------------------
(* The id an INSERT gives: one more than the last, or than the highest in  *)
(* the table for the first INSERT after a restart of mysqld (InnoDB of     *)
(* MySQL 5.0 keeps the count in memory).                                   *)
IsNextId(id) ==
    IF cold
    THEN /\ \A x \in characters : x.id < id
         /\ id = 1 \/ \E x \in characters : x.id = id - 1
    ELSE id = lastid + 1

InsertCharacter(id, row) ==
    /\ IsNextId(id) /\ inserts < MaxInserts
    /\ characters' = characters \cup {row}
    /\ lastid' = id
    /\ cold' = FALSE
    /\ inserts' = inserts + 1
    /\ issued' = issued \cup {id}
    /\ reissued' = reissued \cup (issued \cap {id})

NewRow(c, n, pos, id, slots) ==
    [id |-> id, name |-> n, uid |-> session[c].user, posid |-> pos, gold |-> 0, kit |-> slots]
ItemRows(id, slots) == {[owner |-> id, slotnum |-> s] : s \in slots}

(* ResendCharList only reads; it returns false when a query fails.         *)
ResendCharList(c) == UNCHANGED session \/ (DbMayFail /\ ReturnFalse(c))

(* The INSERT of the character, the SELECT of its id and the INSERTs of    *)
(* the items.  The result of an INSERT is ignored.  The process may be     *)
(* killed on the way.                                                      *)
LoadCreateChar_sharedid(c, n, pos) ==
    \/ \E id \in Id, slots \in SUBSET StartItems :
          /\ InsertCharacter(id, NewRow(c, n, pos, id, slots))
          /\ char_items' = char_items \cup ItemRows(id + 1, slots)
          /\ \/ (DbMayFail \/ slots = StartItems) /\ ResendCharList(c)
             \/ Die
    \/ DbMayFail /\ Die /\ UNCHANGED <<characters, char_items, counters>>
LoadCreateChar(c, n, pos) ==
    \/ \E id \in Id, slots \in SUBSET StartItems :
          /\ InsertCharacter(id, NewRow(c, n, pos, id, slots))
          /\ char_items' = char_items \cup ItemRows(id, slots)
          /\ \/ (DbMayFail \/ slots = StartItems) /\ ResendCharList(c)
             \/ Die
    \/ DbMayFail /\ Die /\ UNCHANGED <<characters, char_items, counters>>

NameTaken_own(c, n) == \E x \in characters : x.name = n /\ x.uid = session[c].user
NameTaken(c, n) == \E x \in characters : x.name = n

CharCreate(c, n, pos) ==
    /\ session[c].open
    /\ \/ NameTaken(c, n) /\ UNCHANGED <<characters, char_items, counters, session>>
       \/ ~ NameTaken(c, n) /\ LoadCreateChar(c, n, pos)
       \/ DbMayFail /\ ReturnFalse(c) /\ UNCHANGED <<characters, char_items, counters>>
    /\ UNCHANGED accounts

(* With the account's password.  The items are looked for under the        *)
(* address of the row, so none is deleted.                                 *)
DeleteChar(c, n) ==
    \/ /\ NameTaken(c, n)
       /\ characters' = {x \in characters : x.name # n}
       /\ ResendCharList(c)
    \/ /\ NameTaken(c, n) /\ DbMayFail
       /\ UNCHANGED characters
       /\ ResendCharList(c)
    \/ ~ NameTaken(c, n) /\ Die /\ UNCHANGED characters

CharDelete(c, n) ==
    /\ session[c].open
    /\ \/ UNCHANGED <<characters, session>>     \* wrong password
       \/ session[c].user \in User /\ accounts[session[c].user] # "none" /\ DeleteChar(c, n)
       \/ DbMayFail /\ ReturnFalse(c) /\ UNCHANGED characters
    /\ UNCHANGED <<accounts, char_items, counters>>

-----------------------------------------------------------------------------
(* The name chosen: of the rows at this place of the list, the last one    *)
(* fetched, in an order the query leaves open; without one the name stays. *)
Chosen(s, pos) ==
    LET rows == {x \in characters : x.uid = s.user /\ x.posid = pos}
    IN  IF rows = {} THEN {s} ELSE {[s EXCEPT !.name = x.name] : x \in rows}

(* loaddata's first query: the row of this name and this account.          *)
CharRows_user(s) == {x \in characters : x.uid = s.user}
CharRows(s) == {x \in characters : x.name = s.name /\ x.uid = s.user}

(* The slots after loaddata: the clearing loop stops before LastSlot.      *)
LoadedItems_uncleared(s, id) ==
    [k \in Slot |-> IF [owner |-> id, slotnum |-> k] \in char_items THEN id ELSE s.items[k]]
LoadedItems(s, id) ==
    [k \in Slot |-> IF [owner |-> id, slotnum |-> k] \in char_items THEN id
                    ELSE IF k < LastSlot THEN Empty ELSE s.items[k]]

(* SendToWorld does not look at loaddata's result.                         *)
loaddata(c, s) ==
    \/ DbMayFail /\ Answer(c, [s EXCEPT !.loaded = FALSE])
    \/ CharRows(s) = {} /\ Die
    \/ \E x \in CharRows(s) :
          LET t == [s EXCEPT !.charid = x.id, !.gold = x.gold, !.loaded = FALSE]
          IN  \/ DbMayFail /\ Answer(c, t)
              \/ Answer(c, [t EXCEPT !.items = LoadedItems(s, x.id), !.loaded = TRUE])

SendToWorld(c, pos) ==
    /\ session[c].open
    /\ \/ DbMayFail /\ ReturnFalse(c)
       \/ \E s \in Chosen(session[c], pos) : loaddata(c, s)
    /\ UNCHANGED db

(* Too little gold is answered with a message.                             *)
ShopItemBuy_owes(c) ==
    /\ session[c].open
    /\ session[c].gold > 0
    /\ Answer(c, [session[c] EXCEPT !.gold = @ - Price])
    /\ UNCHANGED db
ShopItemBuy(c) ==
    /\ session[c].open
    /\ session[c].gold >= Price
    /\ Answer(c, [session[c] EXCEPT !.gold = @ - Price])
    /\ UNCHANGED db

(* Handlers that answer and leave the session and the tables alone: going  *)
(* back to the character list keeps the session in game, moving an item    *)
(* does not move it here, and a save request saves nothing.                *)
GameToCharList(c) == session[c].open /\ UNCHANGED vars
ChangeInventory(c) == session[c].open /\ UNCHANGED vars
SaveRequest(c) == session[c].open /\ UNCHANGED vars

(* ShutdownServer: every connection ends, with the process.  The tables    *)
(* are not written.                                                        *)
Shutdown == Die /\ UNCHANGED db

(* mysqld restarts.  The server's one connection to it is never opened     *)
(* again, so every statement fails until the server is restarted as well.  *)
DatabaseRestart ==
    /\ Die
    /\ cold' = TRUE /\ lastid' = 0
    /\ UNCHANGED <<accounts, characters, char_items, inserts, issued, reissued>>

Next ==
    \/ \E c \in Conn :
          \/ Connect(c) \/ Disconnect(c) \/ ShopItemBuy(c)
          \/ GameToCharList(c) \/ ChangeInventory(c) \/ SaveRequest(c)
          \/ \E u \in User : CheckLogin(c, u)
          \/ \E n \in Name : CharDelete(c, n) \/ \E pos \in Position : CharCreate(c, n, pos)
          \/ \E pos \in Position : SendToWorld(c, pos)
    \/ Shutdown
    \/ DatabaseRestart

Spec == Init /\ [][Next]_vars

-----------------------------------------------------------------------------
Session ==
    [open : BOOLEAN, user : User \cup {NoName}, name : Name \cup {NoName}, charid : 0..MaxId,
     gold : Int, items : [Slot -> 0..Junk], loaded : BOOLEAN]

(* Every variable has its type.                                            *)
TypeOK ==
    /\ accounts \in [User -> {"none", "inactive", "offline", "online"}]
    /\ characters \subseteq Row
    /\ char_items \subseteq [owner : Id, slotnum : Slot]
    /\ lastid \in 0..MaxId
    /\ cold \in BOOLEAN
    /\ inserts \in 0..MaxInserts
    /\ issued \subseteq Id /\ reissued \subseteq issued
    /\ session \in [Conn -> Session]

(* Character names and ids are unique, although the table has no key on    *)
(* the name: handlers look up, insert and delete by name.                  *)
NamesUnique ==
    \A x, y \in characters : x # y => x.name # y.name /\ x.id # y.id

(* A character has the items it was created with and none of another's,    *)
(* although deleting a character leaves its items in the table, in         *)
(* whatever order characters come and go, statements fail and the server   *)
(* dies.  Only an id given twice is exempt: when mysqld restarts after the *)
(* newest character was deleted, the next one gets its id and its items.   *)
OrphansNotInherited ==
    \A x \in characters : x.id \notin reissued => SlotsOf(char_items, x.id) = x.kit

(* A session's gold is never below zero, and never more than what the      *)
(* table has for the character it was loaded from (a later character with  *)
(* the same id is not that one).                                           *)
GoldWithinSaved ==
    \A c \in Conn :
        /\ session[c].gold >= 0
        /\ \A x \in characters :
              x.id = session[c].charid /\ x.id \notin reissued => session[c].gold <= x.gold

(* After a complete load, the character a session was loaded from still    *)
(* has the name the session plays under, whoever deleted, recreated or     *)
(* logged in since, unless its id was given again.                         *)
CharacterIdentity ==
    \A c \in Conn, x \in characters :
        session[c].loaded /\ session[c].charid = x.id /\ x.id \notin reissued =>
            x.name = session[c].name

(* After a complete load, a session has in every slot that is cleared      *)
(* before the load what the table has for its character: nothing of a      *)
(* character the connection played before.  A later character that got the *)
(* same id may have added its own.                                         *)
ItemsAreTheCharacters ==
    \A c \in Conn : session[c].loaded /\ session[c].charid \notin reissued =>
        \A k \in 0..(LastSlot - 1) :
            session[c].items[k] = IF [owner |-> session[c].charid, slotnum |-> k] \in char_items
                                  THEN session[c].charid ELSE Empty
=============================================================================
