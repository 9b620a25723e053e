------------------------------ MODULE Movement -------------------------------
(***************************************************************************)
(* The position of one player, which two threads assign: the server loop   *)
(* (ObjectMove, and loaddata when a character enters the world) without a  *)
(* lock, and the map thread (PlayerMovement) under MainMutex, which the    *)
(* loop never takes.  A step loads or stores one coordinate.               *)
(***************************************************************************)
EXTENDS Integers

CONSTANT Coord      \* coordinates a client or the table may give

ASSUME CoordAssumption == Coord \subseteq Int

VARIABLES
    current, destiny,   \* PlayerPosition: a pair of coordinates each
    active,             \* ready, inGame and isLoggedIn
    pc,                 \* where the two threads are
    target,             \* server loop: the position being assigned
    dx, dy,             \* map thread: destiny minus current, as it was read
    loaded,             \* map thread: the value loaded and to be stored
    given,              \* history: the coordinates the player was given so far
    unloaded,           \* history: entered the world before it was given any
    overlap             \* history: PlayerMovement ran during the last assignment

position == <<current, destiny>>
mapVars  == <<dx, dy, loaded>>
vars     == <<position, active, pc, target, mapVars, given, unloaded, overlap>>

Value == Coord \cup {0}
Point == [x : Value, y : Value]
Origin == [x |-> 0, y |-> 0]

(* CConnClient(): everything at (0,0), not in game.                        *)
Init ==
    /\ current = Origin /\ destiny = Origin
    /\ active = FALSE
    /\ pc = [t \in {"loop", "map"} |-> "idle"]
    /\ target = Origin
    /\ dx = 0 /\ dy = 0 /\ loaded = 0
    /\ given = [x |-> {}, y |-> {}]
    /\ unloaded = FALSE
    /\ overlap = FALSE

Goto(t, l1, l2) == pc[t] = l1 /\ pc' = [pc EXCEPT ![t] = l2]

-----------------------------------------------------------------------------
(* The server loop.                                                        *)

Give(p) == given' = [x |-> given.x \cup {p.x}, y |-> given.y \cup {p.y}]

(* A handler begins to assign the position p.                              *)
BeginAssign(p, l2) ==
    /\ Goto("loop", "idle", l2)
    /\ target' = p
    /\ Give(p)
    /\ overlap' = (pc["map"] # "idle")
    /\ UNCHANGED <<position, active, mapVars, unloaded>>

(* current.x = ...; one of the assignments of ObjectMove and loaddata.     *)
Store(l1, l2, cur, dest) ==
    /\ Goto("loop", l1, l2)
    /\ current' = cur /\ destiny' = dest
    /\ UNCHANGED <<active, target, mapVars, given, unloaded, overlap>>

(* ObjectMove sets both points to where the client says it goes.           *)
ObjectMove ==
    \/ \E p \in [x : Coord, y : Coord] : BeginAssign(p, "moveX")
    \/ Store("moveX", "moveY", [current EXCEPT !.x = target.x], destiny)
    \/ Store("moveY", "destX", [current EXCEPT !.y = target.y], destiny)
    \/ Store("destX", "destY", current, [destiny EXCEPT !.x = target.x])
    \/ Store("destY", "idle", current, [destiny EXCEPT !.y = target.y])

(* loaddata sets current from the table and leaves destiny; the first      *)
(* time the player is not in game yet, with another character it is.       *)
loaddata ==
    \/ \E p \in [x : Coord, y : Coord] : BeginAssign(p, "loadX")
    \/ Store("loadX", "loadY", [current EXCEPT !.x = target.x], destiny)
    \/ Store("loadY", "enter", [current EXCEPT !.y = target.y], destiny)

(* SendToWorld goes on when loaddata failed, before or after the position; *)
(* isLoggedIn is then what the login made it, and without a position the   *)
(* player stays where the object has it.                                   *)
EnterWorld ==
    /\ Goto("loop", "enter", "idle")
    /\ active' \in {active, TRUE}
    /\ UNCHANGED <<position, target, mapVars, given, unloaded, overlap>>

EnterUnloaded ==
    /\ Goto("loop", "idle", "idle")
    /\ active' \in {active, TRUE}
    /\ unloaded' = (unloaded \/ (active' /\ given.x = {}))
    /\ UNCHANGED <<position, target, mapVars, given, overlap>>

SendToWorld == loaddata \/ EnterWorld \/ EnterUnloaded

-----------------------------------------------------------------------------
(* The map thread: PlayerMovement.                                         *)

(* A step of the map thread that stores nothing in the position.           *)
MapStep(l1, l2) ==
    /\ Goto("map", l1, l2)
    /\ UNCHANGED <<position, active, target, given, unloaded>>

Begin ==
    /\ active
    /\ MapStep("idle", "cmpX")
    /\ overlap' = (overlap \/ pc["loop"] # "idle")
    /\ UNCHANGED mapVars

(* if(current.x==destiny.x && current.y==destiny.y) return                 *)
CompareX ==
    /\ MapStep("cmpX", IF current.x = destiny.x THEN "cmpY" ELSE "dx")
    /\ UNCHANGED <<mapVars, overlap>>

CompareY ==
    /\ MapStep("cmpY", IF current.y = destiny.y THEN "idle" ELSE "dx")
    /\ UNCHANGED <<mapVars, overlap>>

DistanceX ==
    /\ MapStep("dx", "dy")
    /\ dx' = destiny.x - current.x
    /\ UNCHANGED <<dy, loaded, overlap>>

(* ntime<=etime || distance==0.  Move_Speed is 0 in every client, so ntime *)
(* is infinite, or not a number when the distance is 0: only the second    *)
(* test can hold.                                                          *)
DistanceY_far ==
    /\ MapStep("dy", "loadDestX")
    /\ dy' = destiny.y - current.y
    /\ UNCHANGED <<dx, loaded, overlap>>
DistanceY ==
    /\ MapStep("dy", IF dx = 0 /\ destiny.y = current.y THEN "loadDestX" ELSE "loadX")
    /\ dy' = destiny.y - current.y
    /\ UNCHANGED <<dx, loaded, overlap>>

(* dx*( etime / ntime ): with Move_Speed 0 the quotient is 0.              *)
Move_Speed == 0
Part_full(d) == d
Part(d) == d * Move_Speed

(* The rest of a round: load a coordinate, store it, load the other, store *)
(* it.  dx and dy go out of scope with the last store.                     *)
Load(l1, l2, v) ==
    /\ MapStep(l1, l2)
    /\ loaded' = v
    /\ UNCHANGED <<dx, dy, overlap>>

StoreX(l1, l2) ==
    /\ Goto("map", l1, l2)
    /\ current' = [current EXCEPT !.x = loaded]
    /\ loaded' = 0
    /\ UNCHANGED <<destiny, active, target, dx, dy, given, unloaded, overlap>>

StoreY(l1) ==
    /\ Goto("map", l1, "idle")
    /\ current' = [current EXCEPT !.y = loaded]
    /\ dx' = 0 /\ dy' = 0 /\ loaded' = 0
    /\ UNCHANGED <<destiny, active, target, given, unloaded, overlap>>

(* current = destiny                                                       *)
Arrive ==
    \/ Load("loadDestX", "storeDestX", destiny.x) \/ StoreX("storeDestX", "loadDestY")
    \/ Load("loadDestY", "storeDestY", destiny.y) \/ StoreY("storeDestY")

(* current.x = dx*(etime/ntime) + current.x, the same for y                *)
Walk ==
    \/ Load("loadX", "storeX", Part(dx) + current.x) \/ StoreX("storeX", "loadY")
    \/ Load("loadY", "storeY", Part(dy) + current.y) \/ StoreY("storeY")

PlayerMovement ==
    \/ Begin \/ CompareX \/ CompareY \/ DistanceX \/ DistanceY
    \/ Arrive \/ Walk

-----------------------------------------------------------------------------
Next == ObjectMove \/ SendToWorld \/ PlayerMovement

Spec == Init /\ [][Next]_vars

-----------------------------------------------------------------------------
LoopLabel == {"idle", "moveX", "moveY", "destX", "destY", "loadX", "loadY", "enter"}
MapLabel == {"idle", "cmpX", "cmpY", "dx", "dy", "loadDestX", "storeDestX", "loadDestY",
             "storeDestY", "loadX", "storeX", "loadY", "storeY"}

(* Every variable has its type; in particular no coordinate is computed:   *)
(* each is one that was assigned to the player, or the constructor's 0.    *)
TypeOK ==
    /\ current \in Point /\ destiny \in Point /\ target \in Point
    /\ active \in BOOLEAN /\ overlap \in BOOLEAN
    /\ pc \in [{"loop", "map"} -> LoopLabel \cup MapLabel]
    /\ dx \in Int /\ dy \in Int /\ loaded \in Value
    /\ given \in [x : SUBSET Value, y : SUBSET Value]
    /\ unloaded \in BOOLEAN

(* The 0 of the constructor, where a player stands whose first SELECT      *)
(* failed: SendToWorld does not look at loaddata's result.                 *)
Unassigned == IF unloaded THEN {0} ELSE {}

(* Whatever the two threads do to each other, a player in game stands at   *)
(* coordinates it was given by the table or by its client: it never drifts *)
(* to the (0,0) that destiny holds until the first move.  Only a player    *)
(* that entered without any position may stand at a 0 nobody gave it.      *)
PositionIsGiven ==
    active => /\ current.x \in given.x \cup Unassigned
              /\ current.y \in given.y \cup Unassigned

(* PlayerMovement leaves the position alone unless it ran at the same time *)
(* as the assignment: after a move or a load that it did not overlap, the  *)
(* player stands where the handler put it, however many rounds follow.     *)
(* (With an overlap a coordinate may fall back to an older one.)           *)
ExactUnlessOverlapped == pc["loop"] = "idle" /\ ~ overlap => current = target
=============================================================================
