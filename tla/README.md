# A TLA+ model of Destiny Emulator

Destiny Emulator is a game server for one game, written in C++ for Windows: one
process, a socket loop, three worker threads and a MySQL database. This directory
holds TLA+ modules translated from `src/src/`, TLC configurations that check them
on small instances, and TLAPS proofs of the properties for every size.

## 1. The system

| Part | Code | State | Operations |
|---|---|---|---|
| Server loop | `commom/socket_server.cpp` | `ClientList`, the `fd_set`, `isActive` | `ServerLoop`, `FillFDS`, `HandleClients`, `AddUser`, `DisconnectClient` |
| Workers | `game_mainprocess.cpp` | four mutexes, `ServerOnline` | `MapProcess` (10 ms), `VisibilityProcess` (20 ms), `WorldProcess` (700 ms) |
| Shutdown, signals | `game_mainprocess.cpp`, `game_signal.cpp`, `main.cpp` | flags | `HandleSignal`, `ShutdownServer`, `DisconnectAll` |
| Packet reception | `commom/socket_client.cpp`, `game_server.cpp` | the receive buffer | `ReceiveData`, `OnReceivePacket`, `PacketControl` |
| Object ids | `game_extrafunctions.cpp`, `game_packets.cpp` | `ClientIDList` | `GetNewClientID`, `GetNewMobID`, `GetNPCByID`, `SpawnNPC` |
| Accounts, characters, items | `game_packets.cpp`, `game_client.cpp`, `game_loadfiles.cpp` | tables `accounts`, `characters`, `char_items`; `PlayerSession`, `PlayerInfo`, `items` | `CheckLogin`, `CharCreate`, `CharDelete`, `SendToWorld`, `ShopItemBuy`, ... |
| Visibility | `game_clientfunctions.cpp` | `VisibleClients`, `VisibleNPCs` | `VisiblityList`, `SpawnChar` |
| Movement | `game_player.cpp`, `game_packets.cpp` | `PlayerPosition` | `PlayerMovement`, `ObjectMove` |
| Chat, attack, broadcast | `game_packets.cpp`, `game_extrafunctions.cpp` | the shared packet buffer | `SendChat`, `PlayerAttack`, `SendToAll`, `SendToVisible` |
| GM commands | `game_commands.cpp` | `npcid` | `packetCommand` and the `pakGM...` handlers |
| Packet writer, encryption, sending | `commom/packetwriter.cpp`, `encdec.cpp`, `socket_client.cpp` | `packet`, `encbuf`, `encsize`, keys, `Hash1`; the socket's mode | `Free`, `AddByte` ..., `Encrypt` (in a DLL), `SendPacket` |
| Loaders | `game_loadfiles.cpp` | configuration, NPC and item lists | run at start-up |

How they interact. The loop runs in `main`'s thread and calls the handlers, one
packet at a time, through `ReceiveData`, `OnReceivePacket` and `PacketControl`; a
handler that returns false closes the connection. The workers walk the same
`ClientList` under `PlayerMutex`, but the loop appends and erases without it; only
the `delete` of a client takes it. The visibility thread spawns NPCs and takes ids
from the table the loop takes ids from. A SIGTERM starts a fifth thread that marks
clients inactive (without a lock), stops and joins the workers and ends the loop.
Handlers talk to MySQL statement by statement, with no transaction, over one connection
that is opened at start-up and never again.

What is hard: the unlocked list and id table; deletion against use; the end of five
threads; a byte stream treated as a sequence of packets; copies of database rows in
sessions that outlive a login; statements that fail, or a process that dies, halfway
through a handler; lists of raw pointers that outlive their clients; one packet
buffer and one socket mode used by two threads; a position that two threads assign
coordinate by coordinate. `PROJECT.json` lists these hazards line by line.

What makes each part correct. Loop and workers: no deleted client is used, locks are
ordered, a shutdown ends. Ids: no two objects of a kind share one. Reception: packets
are handled in order and once. Accounts: a session is one character of the tables,
with its items and at most its gold. Visibility: a list names other clients, once
each, that were alive when it was put in place, and neighbours come to see each other.
Movement: a player stands where it was put. Sending: a client gets the packet that was
built for it.

## 2. Modules

`ServerThreads` models the loop, the workers and the shutdown. A thread is a program
counter; a step reads or writes one shared location. `ClientList` is a sequence of
heap addresses, `delete` frees an address and `new` may return it again, so stale
pointers are visible. `size()` and `at()` are two steps. `at()` throws when the list
became shorter (`Abort`), and a reallocation under a reader (`moved`) gives the old
element or a crash. Handlers are abstract: `HandleReceive` may set `inGame`.
What handlers send, and to whom, is in `Sending` and `Visibility`. Here a send may hold
up its thread (`blocked`): by `Sending`, `send` may find the socket blocking, and it
then returns when the client reads. The visibility thread is held up while it spawns
players or NPCs (`VisInnerUse`, `VisNPCs`), with its mutexes; the loop in a handler,
before or after the handler's assignments (`HandleSend`, `HandleReceive`). One signal is
modelled.

`WorldIds` models the id table. Testing an entry and clearing it are two steps, of
two threads. A connection may log in again and take another id; an account created
at login gets none. The age test (`time(NULL) - ClientIDList[i] > 10`) is always
true of the value 1 the constructor writes, and is folded into `free`; the entry the
constructor leaves out starts with either value. `given` and `raced` are history: the
ids each search has returned, and those both searches had seen free at once. The ids
that `pakGMSpawn` shows to clients count up from 1000 without the table; no object
carries them, so they are outside the module.

`PacketReception` models one connection's stream by the offsets of its packets.
`recv` returns any prefix of what was sent (`Split`), or all of it. What
`PacketControl` is called with is a packet's number, or `Garbage` when the buffer
does not hold the whole packet from its first byte (the buffer is zeroed before each
receive and the size word itself may be missing). A round of the loop may not get to
the socket (`Round`, `served`): `FD_SET` drops sockets beyond `FD_SETSIZE`, and after a
failed `select` the loop may sit in `accept`. `PacketChannel` is the abstract
channel: packets handled in order, once, none skipped.

`Accounts` models the tables and the sessions. A handler is an action, because the
loop runs one at a time; each of its statements may fail (`DbMayFail`), with the
effect the code gives to that, and the process may die inside `LoadCreateChar`. A
NULL row (a name or a place without a character) is a crash, `Die`: every session
goes, the tables stay. When mysqld restarts (`DatabaseRestart`) every statement fails
until the server is restarted too; the tables stay, but InnoDB of MySQL 5.0 (the
version of `build/sql/destinyemu_db.sql`) keeps the count of character ids in memory
and takes it up at the highest id in the table at the first INSERT (`IsNextId`, `cold`).
`issued`, `reissued` and a row's `kit` are history: ids given, ids given twice, and the
slots a character was created with. Passwords, client versions and the answers themselves are
choices. An item is its owner's id, so a stale item shows. Memory nobody initialised
is `Junk` or empty. StartChar.xml is taken to be readable and complete, and the
fixed-size arrays of the character list are not modelled.

`Visibility` models who sees whom: the visibility thread that builds, client by client,
`VisibleClients` and `VisibleNPCs`, and the server loop that connects, moves and
deletes clients and sends chat, attacks, moves and GM effects to a sender's list. The
lists hold heap addresses, as in `ServerThreads`, of which this is the other half: here
a step of a walk is one client (`size()` and `at()` of `ClientList` together), but
`SendToVisible`'s own `size()` and `at()`, on a vector the other thread clears and
reassigns, are separate steps. Positions are points on a line; `SendToWorld` and
`ObjectMove` may give any. The two ranges keep their hysteresis (`InRange`). Of the
NPCs, which nobody else touches, the round is one step. `dismissed` and `shrunk` are
history: what this walk turned down, and whether an erase moved a client past it.

`Movement` models the position of one player. Each load and store of a coordinate is
a step, in `ObjectMove` and `loaddata` (server loop, no lock) and in `PlayerMovement`
(map thread, `MainMutex`). `Move_Speed` is 0 in the constructor and never assigned, so
the speed is 0, the time to the destination infinite, and the part of the way done in
a round 0 (`Part`); when the distance is 0 the quotient is not a number, its test
fails, and the test of the distance decides. A coordinate is a float and is loaded and
stored as a whole. When `loaddata`'s first SELECT fails the player enters the world where
the object has it (`EnterUnloaded`); `unloaded` is history: it had no position then.

`Sending` models building and sending. `packet`, `encbuf` and `encsize` are globals of
the server that the loop and the visibility thread fill without a lock; a packet is
two parts, each with the tag of the job that wrote it, so a mixture shows. A job
clears the buffer (or, in `GameToCharList`, does not), writes the parts, and for each
client encrypts, stores the length, passes it by value and the buffer by address, and
sends between the two switches of the socket's mode. Each switch may fail, which is
logged and leaves the mode as it was (`SetMode`, `Fallible`; `refused` is history: the
sockets whose last switch failed). What `send` takes of a packet is
not looked at by the code. `PacketDelivery` is the abstract promise: a job that no
other job overlapped delivers its own packet; jobs that overlapped promise nothing.

`ClientLifecycle` is the abstract promise about a client object: connected, taken off
`ClientList`, deleted, in this order and each once, one client at a time between the
last two, and not deleted while another thread uses it. `ServerThreads` and
`Visibility` both implement it: `listed` is the set of `ClientList`'s pointers,
`allocated` the heap, `closing` the client the loop has erased and not deleted
(`Closing`), and `pinned` what the other threads still dereference (`InUse`): the
workers' cursors in the first; in the second the client whose turn it is and those
the walk has collected.

`VectorLemmas` holds what `erase` and `push_back` do to a vector without duplicates,
for the proofs.

`MC...` modules give the constants their values; `..._proofs` modules hold the
theorems. Operators named `X_y` are variants of `X`, each with one plausible mistake,
used to see that a property can fail.

## 3. Runs

| Run | Bounds | Result |
|---|---|---|
| `threads_safety` | 2 addresses, `FD_SETSIZE` 2, all workers | types, no circular wait, workers use live clients, list and heap agree, a list runs at most one erase ahead of a walk, workers joined before `main` returns; implements `ClientLifecycle` |
| `threads_shutdown` | 1 address, sends may block, fair | a SIGTERM ends the process, if no send blocks for ever |
| `threads_removal` | 2 addresses, one worker, `select` may fail, sends may block, fair | an inactive client is removed, if no send blocks for ever |
| `ids_safety` | 2 clients, 2 NPCs, 4 ids | players' ids unique, NPCs' ids unique, ids in use stay taken, no id given twice, a player and an NPC share an id only after a race to it, a stale NPC id leads to no other spawned NPC |
| `packets_stream` | 4 packets, any cut | no packet twice or out of order |
| `packets_paced` | 16 packets, no split, fair | implements `PacketChannel`; every packet handled, if the loop keeps getting to the socket |
| `packets_coalesced` | 3 packets | *violated*: the second packet of a receive is dropped, on a connection that stays open |
| `accounts_safety` | 2 connections, 2 accounts, 2 names, 2 places, ids to 2, one character created, statements may fail, mysqld may restart | names and ids unique, no inherited items, gold within bounds, a session shows one character and its items (each but the first: unless an id was given twice) |
| `visibility_safety` | 2 addresses, 3 places, 1 NPC, ranges 1 and 2, fair | clients vanish for cause, lists sound; implements `ClientLifecycle` (what is collected is alive); NPCs nearby come to be seen, dangling pointers go |
| `visibility_neighbours` | 3 addresses, 1 place, no NPC, fair | two players who stay close come to see each other |
| `movement_safety` | 1 player, coordinates 0 to 2 | positions are given ones (or the constructor's after a failed first load), exact without an overlap |
| `sending_safety` | 2 threads, 2 clients, `ioctlsocket` may fail for one | implements `PacketDelivery`; a send finds the socket blocking only after an overlap or a failed switch; the socket's mode is restored unless the last switch failed |

Why the bounds are enough. In `ServerThreads` the interesting cases need one client
that goes while another moves into its place, an address used again, and an `fd_set`
that is full: two addresses and `FD_SETSIZE` 2 give all three. Sends that block
(`SendMayBlock`) are left out of `threads_safety` for its size: a blocked thread takes
no step, so they add no order of the other steps; the liveness runs have them, and the
proofs cover both. In `WorldIds` one
id below the mob range and three above let both searches meet, and four ids run out.
In `PacketReception` packets are 2 to 6 bytes, so a cut falls before, inside and
after the size word and the hello. In `Accounts` one character with gold and a full
inventory and one created later, two accounts and two connections let a session
change account, lose its character to the other connection and load another. The one
created gets a new id, or, after a delete and a restart of mysqld, that of the first,
with its items.
In `Visibility` three places at distances 0, 1 and 2 fall into, between and outside
the two ranges, and a second address is erased, freed and used again under a walk, so
that the outer loop passes the other client over; in `visibility_neighbours` a third
client leaves, so that a walk passes over one of two who stay. There one pair of the
interchangeable addresses stands for all. In `Movement` two
given coordinates and the constructor's 0 tell an old, a new and an unset value apart.
In `Sending` two threads and two clients give broadcasts that overlap at either client;
tags alternate between two values, so the remains of a job's predecessor are seen; one
socket's switch may fail and the other's may not, so both cases meet in a broadcast.
`MaxId` and `MaxInserts` bound character creation in the guards of `LoadCreateChar` and
`InsertCharacter`. Symmetry is used for addresses, clients, NPCs, connections and the
threads of `Sending`, in runs without liveness properties only.

Fairness. `FairSpec` of `ServerThreads` has weak fairness for each thread, and strong
fairness where a thread locks a mutex: every other thread sleeps, or waits in
`select`, between two rounds, so a waiting thread gets its turn. `LoopFairSpec`, of
`threads_removal`, leaves out the shutdown thread: otherwise every client would be
gone simply because the process ends. Nothing is assumed
of the signal, of what `select` reports or of what clients send. After a failed
`select` the loop may block in `accept`; the liveness properties promise nothing from
there on. Nothing is assumed of a send that blocks either: that a client reads, or
goes, is not the code's to give. `ShutdownCompletes` and `InactiveClientRemoved` say so
in a premise (`SendsReturn`): a send that never returns hangs the shutdown in its join.
`FairSpec` of `PacketReception` says that a socket with bytes waiting is read if the
loop gets to it again and again (strong fairness of `Receive`); that the loop does is
the premise of `EverySentHandled` (`[]<>served`), since `FD_SETSIZE` and a failed
`select` may keep it away. `FairSpec` of `Visibility` has
weak fairness for the two threads and strong fairness for their locking of
`PlayerMutex`: the visibility thread sleeps 20 ms between its rounds and the loop holds
the mutex for one `delete`. There sends are taken to return, as in the premise above;
nothing is assumed of what clients send, and an uncaught exception or a crash ends what
it promises.

## 4. Proofs

All theorems are checked by TLAPS for every value of the constants, under the named
assumptions of the modules (`ConstantsAssumption`, `IdAssumption`,
`StreamAssumption`, `RecvAssumption`, `TableAssumption`, `RangeAssumption`,
`CoordAssumption`, `SendingAssumption`). Every invariant a passing run checks is
proved, and every refinement.

- `ServerThreads_proofs`: `TypeOK`, `NoCircularWait`, `ListOwnsHeap`, `WorkersUseLiveClients`,
  `OneEraseUnderWalk`, `WorkersJoinedBeforeReturn`. None is
  inductive alone. The invariant adds a table of the mutexes held at each program
  counter (`MutexInv`), and that a pointer loaded under `PlayerMutex` is in the heap
  (`PointerInv`). The argument: a pointer comes from the list, or from just before an
  erase; the erased client stays allocated until the loop gets `PlayerMutex`, which the
  worker holds until its last use. For the same reason the loop erases at most once
  between a worker's `size()` and `at()`. `JoinInv` says which workers have ended at
  each step of the shutdown. `DeadlockFree`: the shutdown thread owns no mutex, so a
  group of threads that all wait within the group holds another that waits for a
  mutex; by the order of the locks (`LockOrder`) the ranks rise from owner to owner, and
  there are four.
  `LifecycleRefinement` takes each action to a step of `ClientLifecycle`: a worker's
  `at()` is a `Load` because what it may return is listed or the client being closed,
  and the loop's `delete` is a `Delete` because it holds `PlayerMutex`, so no worker is
  where it dereferences a pointer. `LifecycleIsSafe` proves of the abstract module
  alone that an object in use is allocated.
- `WorldIds_proofs`: the type invariant and the six id properties. The strengthening
  is `SearchInv`: a thread about to take an entry knows that nobody of its own kind
  has that id (and `ToldInv`: that no client was told it). It cannot know this of the
  other kind: an entry it saw free may have been taken by the other thread since, but
  then that one saw it free too, which `raced` records (`RaceInv`, for
  `SharedOnlyIfRaced`). `NeverReissued` needs that whatever a search has returned is out of the
  table (`GivenInv`): the one write that could undo it, another thread's clearing of an
  entry, only takes entries out.
- `PacketReception_proofs`: `HandledInOrder` for any stream and any cut, from
  `HandledTaken` (packets handled lie in the part of the stream taken); and the
  refinement `PacedRefinement` of `PacketChannel`, from `PacedInv` (the stream is
  taken exactly to the end of the last packet handled).
- `Accounts_proofs`: types, `NamesUnique`, `OrphansNotInherited`, `GoldWithinSaved`,
  `CharacterIdentity` and `ItemsAreTheCharacters`, whichever statements fail and
  whenever the server or mysqld is restarted. The invariant is about ids: those of
  rows, items and sessions were issued, and the count is never behind a row, although
  it may be behind items and sessions (`IdsIssued`, `Sound`). The next id is therefore
  new to the rows, and either new to all or reissued from then on (`NewId`), so a later
  row or item cannot be taken for a character's own. The last two need what a complete
  load read (`LoadedFaithful`), as rows are deleted and never changed.
- `Visibility_proofs`: types, `ListsAreSound`, `VanishesForCause` and `PendingAreLive`
  (the list being collected is alive, and the client it is for), for
  any number of clients, NPCs and positions. The invariant says that a client is off
  `ClientList` and `PlayerMutex` held when it is deleted (`ListInv`, `MutexInv`), that
  the clients ahead of the inner loop are not among those collected (`NewInv`: an erase
  moves clients down, a `push_back` brings a fresh address, neither brings a collected
  one back), and that those behind it were kept or dismissed unless an erase moved one
  past (`WalkInv`). The same invariant gives `LifecycleRefinement`, here with the whole
  collection in use until it is assigned.
- `Movement_proofs`: types, `PositionIsGiven`, `ExactUnlessOverlapped`, for any
  coordinates. The invariant follows each value from where it was loaded, and says that
  a player without a position stands at the constructor's 0 until it is given one.
- `Sending_proofs`: types, `ModeRestored`, `BlocksOnlyForCause`, and the refinement
  `SendingRefinement` of `PacketDelivery`, for any number of threads and clients. The
  invariant says what the shared buffers hold at each step of a job that is alone: the
  parts it has written so far, and nothing that a later step will not overwrite.

Only model-checked: liveness (`ShutdownCompletes`, `InactiveClientRemoved`,
`EverySentHandled`, `NeighboursSeen`, `NpcsSeen`, `DanglingCleared`), which is out of the prover's
reach.

## 5. Findings

One run shows a disagreement with what the repository says (`PROJECT.json` quotes the
line): two packets in one receive are said to be solved, but a receive handles its
first packet only (`packets_coalesced`).

The modules also contain, without a property of their own, behaviour a reader of the
code should know:

- `DisconnectAll` leaves clients that are not in game active (`ShutdownTest`);
- a player and an NPC may share an id, when a login and a spawn search the table at the
  same time (`TakeEntry` of `WorldIds`); an NPC's id changes at each spawn, so an older
  one leads `GetNPCByID` nowhere (`SendSpawn`); ids run out because none is given back
  (`Forget`);
- a packet that arrives in pieces is dispatched in pieces (`PacketAt`);
- the `online` column is read at login and never written, so an account may be logged in
  twice (`LoginAccepted`); `loaddata` clears slots 0 to 76 and leaves slot 77 as it was
  (`LoadedItems`);
- a character created after the newest one was deleted and mysqld was restarted gets its
  id and with it the items that were left; a session of the deleted one that is still
  open then shows the same id (`IsNextId`);
- deleting a character leaves its items (`DeleteChar`), a failed INSERT leaves a new
  one without them (`LoadCreateChar`), and a shutdown saves nothing (`Shutdown`);
- a chat, a move or an attack may be sent to a client object that was deleted after the
  sender's list was built, until the visibility thread's next round (`SendPacket` of
  `Visibility`); `SendToVisible`'s `at()` throws when the visibility thread clears the sender's list
  between `size()` and `at()` (`SendAt`);
- two jobs that overlap may send a mixture of two packets, or one packet with the length
  of another (`Send`), and a send may find the socket blocking, after an overlap or a
  failed `ioctlsocket` (`SetMode`): a client that does not read then holds up the server
  loop, or the visibility thread with its mutexes, and a shutdown with it (`MayBlock` of
  `ServerThreads`);
- a client beyond `FD_SETSIZE` stays connected and is not read (`FD_SET`, `Round`);
- a player whose first load failed is in game at (0,0) (`EnterUnloaded`);
- a move that `PlayerMovement` overlaps may lose a coordinate to the value loaded before
  it, and keep it until the next move (`StoreX`, `StoreY`).

## 6. Not modelled

- The encryption itself (an external library), and the key state every login replaces
  (`Hash1`): what a wrong key does to a packet is inside `encdec.dll`.
- The layout of packets, and the fixed-size arrays of the character list.
- The access level of GM commands, and the counter `npcid` (from 1000): clients are sent
  its values as ids of NPCs that no object carries, and no code reads them back.
- `SendNPCSellItems`'s use of a NULL NPC, which ends the process.
- Fatal signals: the handler marks clients inactive and raises the signal again, which
  ends the process; what the runtime does in between is not the repository's.
- The XML loaders, which run before any thread does; logging; code that is not called
  (`config.cpp`, `game_monster.cpp`).
- The third-party headers of `src/include`, which are about eight ninths of the
  repository's source lines; of the program's own lines in `src/src` the modules map
  close to half, and most of the rest is loaders, logging, declarations and unused code.

What is left to do: the character list's arrays against the number of rows, the access
level, and a composition of `Visibility` with `Sending` in which a recipient goes while
its packet is being sent.
