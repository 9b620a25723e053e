--------------------------- MODULE Movement_proofs ---------------------------
(***************************************************************************)
(* For any coordinates: the two threads that assign a player's position    *)
(* never invent one, and without an overlap the handler's position stays.  *)
(* GivenInv says of each label of PlayerMovement what it has read so far   *)
(* and that it was given; ExactInv says the same without an overlap, when  *)
(* what it has read is what is there.                                      *)
(***************************************************************************)
EXTENDS Movement, TLAPS

ArriveLabel == {"loadDestX", "storeDestX", "loadDestY", "storeDestY"}

(* The coordinates the map thread has read, or has in hand, were given, or *)
(* are the constructor's when the player entered without a position.       *)
GivenX == given.x \cup Unassigned
GivenY == given.y \cup Unassigned

GivenInv ==
    /\ pc["map"] # "idle" => active
    /\ pc["loop"] # "idle" => target.x \in given.x /\ target.y \in given.y
    /\ active => current.x \in GivenX /\ current.y \in GivenY
    /\ pc["loop"] \in {"moveY", "destX", "destY", "loadY", "enter"} => current.x \in GivenX
    /\ pc["loop"] \in {"destX", "destY", "enter"} => current.y \in GivenY
    /\ pc["loop"] = "idle" =>
           \/ current.x \in GivenX /\ current.y \in GivenY
           \/ given.x = {} /\ current.x = 0 /\ current.y = 0
    /\ pc["map"] = "dy" /\ dx = 0 => destiny.x \in GivenX
    /\ pc["map"] \in ArriveLabel => destiny.x \in GivenX /\ destiny.y \in GivenY
    /\ pc["map"] \in {"storeX", "storeDestX"} => loaded \in GivenX
    /\ pc["map"] \in {"storeY", "storeDestY"} => loaded \in GivenY

(* Without an overlap the two threads take turns, and what the map thread  *)
(* stores is what the position holds.                                      *)
ExactInv ==
    ~ overlap =>
        /\ pc["loop"] # "idle" => pc["map"] = "idle"
        /\ pc["loop"] \in {"idle", "moveY", "destX", "destY", "loadY", "enter"} =>
               current.x = target.x
        /\ pc["loop"] \in {"idle", "destX", "destY", "enter"} => current.y = target.y
        /\ pc["map"] = "dy" /\ dx = 0 => destiny.x = current.x
        /\ pc["map"] \in ArriveLabel => destiny.x = current.x /\ destiny.y = current.y
        /\ pc["map"] \in {"storeX", "storeDestX"} => loaded = current.x
        /\ pc["map"] \in {"storeY", "storeDestY"} => loaded = current.y

USE DEF vars, position, mapVars, Goto, Value

-----------------------------------------------------------------------------
(* With Move_Speed 0 a round of PlayerMovement adds nothing.               *)
LEMMA PartZero == ASSUME NEW d \in Int, NEW v \in Int PROVE Part(d) + v = v
  BY DEF Part, Move_Speed

(* The labels of both threads are labels.                                  *)
LEMMA Labels ==
    ASSUME TypeOK, NEW t \in {"loop", "map"}, NEW l1, NEW l2 \in LoopLabel \cup MapLabel,
           Goto(t, l1, l2)
    PROVE  /\ pc' \in [{"loop", "map"} -> LoopLabel \cup MapLabel]
           /\ pc[t] = l1 /\ pc'[t] = l2
           /\ \A u \in {"loop", "map"} : u # t => pc'[u] = pc[u]
  BY DEF TypeOK

(* A new point has the coordinates it was made of.                         *)
LEMMA Points ==
    ASSUME NEW p \in Point, NEW v \in Value
    PROVE  /\ [p EXCEPT !.x = v] \in Point /\ [p EXCEPT !.x = v].x = v
           /\ [p EXCEPT !.x = v].y = p.y
           /\ [p EXCEPT !.y = v] \in Point /\ [p EXCEPT !.y = v].y = v
           /\ [p EXCEPT !.y = v].x = p.x
           /\ p.x \in Value /\ p.y \in Value /\ p.x \in Int /\ p.y \in Int
  BY CoordAssumption DEF Point

(* Points are equal when their coordinates are.                            *)
LEMMA SamePoint ==
    ASSUME NEW p \in Point, NEW q \in Point, p.x = q.x, p.y = q.y
    PROVE  p = q
  BY DEF Point

(* What is given stays given.                                              *)
LEMMA GiveKeeps ==
    ASSUME TypeOK, NEW p \in Point, Give(p)
    PROVE  /\ given' \in [x : SUBSET Value, y : SUBSET Value]
           /\ p.x \in given'.x /\ p.y \in given'.y
           /\ given.x \subseteq given'.x /\ given.y \subseteq given'.y
<1>1. given.x \subseteq Value /\ given.y \subseteq Value /\ p.x \in Value /\ p.y \in Value
  BY DEF TypeOK, Point
<1> QED BY <1>1 DEF Give

IndInv == TypeOK /\ GivenInv /\ ExactInv

-----------------------------------------------------------------------------
(* A handler begins: what it assigns is given from now on.                 *)
LEMMA BeginAssignStep ==
    ASSUME IndInv, NEW p \in [x : Coord, y : Coord], NEW l2 \in {"moveX", "loadX"},
           BeginAssign(p, l2)
    PROVE  IndInv'
<1> USE DEF IndInv, BeginAssign
<1>1. p \in Point
  BY DEF Point
<1>2. /\ given' \in [x : SUBSET Value, y : SUBSET Value]
      /\ p.x \in given'.x /\ p.y \in given'.y
      /\ given.x \subseteq given'.x /\ given.y \subseteq given'.y
  BY <1>1, GiveKeeps
<1>3. /\ pc' \in [{"loop", "map"} -> LoopLabel \cup MapLabel]
      /\ pc["loop"] = "idle" /\ pc'["loop"] = l2 /\ pc'["map"] = pc["map"]
  BY Labels DEF LoopLabel
<1>4. TypeOK'
  BY <1>1, <1>2, <1>3 DEF TypeOK
<1>5. GivenInv'
  <2>1. GivenX \subseteq GivenX' /\ GivenY \subseteq GivenY'
    BY <1>2 DEF GivenX, GivenY, Unassigned
  <2> QED BY <1>2, <1>3, <2>1 DEF GivenInv
<1>6. ExactInv'
  BY <1>3 DEF ExactInv, ArriveLabel
<1> QED BY <1>4, <1>5, <1>6

(* A handler stores a coordinate of its target.                            *)
LEMMA StoreStep ==
    ASSUME IndInv,
           \/ Store("moveX", "moveY", [current EXCEPT !.x = target.x], destiny)
           \/ Store("moveY", "destX", [current EXCEPT !.y = target.y], destiny)
           \/ Store("destX", "destY", current, [destiny EXCEPT !.x = target.x])
           \/ Store("destY", "idle", current, [destiny EXCEPT !.y = target.y])
           \/ Store("loadX", "loadY", [current EXCEPT !.x = target.x], destiny)
           \/ Store("loadY", "enter", [current EXCEPT !.y = target.y], destiny)
    PROVE  IndInv'
<1> USE DEF IndInv
<1>0. current \in Point /\ destiny \in Point /\ target \in Point
  BY DEF TypeOK
<1>1. target.x \in Value /\ target.y \in Value
  BY <1>0, Points
<1>2. /\ pc' \in [{"loop", "map"} -> LoopLabel \cup MapLabel]
      /\ pc'["map"] = pc["map"] /\ pc["loop"] # "idle"
  BY Labels DEF Store, LoopLabel
<1>3. /\ UNCHANGED <<active, target, dx, dy, loaded, given, unloaded, overlap>>
      /\ pc["loop"] = "moveX" => pc'["loop"] = "moveY"
      /\ pc["loop"] = "moveY" => pc'["loop"] = "destX"
      /\ pc["loop"] = "destX" => pc'["loop"] = "destY"
      /\ pc["loop"] = "destY" => pc'["loop"] = "idle"
      /\ pc["loop"] = "loadX" => pc'["loop"] = "loadY"
      /\ pc["loop"] = "loadY" => pc'["loop"] = "enter"
      /\ pc["loop"] \in {"moveX", "moveY", "destX", "destY", "loadX", "loadY"}
  BY Labels DEF Store, LoopLabel
<1>4. /\ current' \in Point /\ destiny' \in Point
      /\ current'.x = IF pc["loop"] \in {"moveX", "loadX"} THEN target.x ELSE current.x
      /\ current'.y = IF pc["loop"] \in {"moveY", "loadY"} THEN target.y ELSE current.y
      /\ destiny'.x = IF pc["loop"] = "destX" THEN target.x ELSE destiny.x
      /\ destiny'.y = IF pc["loop"] = "destY" THEN target.y ELSE destiny.y
  <2>1. CASE current' = [current EXCEPT !.x = target.x] /\ destiny' = destiny
             /\ pc["loop"] \in {"moveX", "loadX"}
    <3>0. /\ [current EXCEPT !.x = target.x] \in Point
          /\ [current EXCEPT !.x = target.x].x = target.x
          /\ [current EXCEPT !.x = target.x].y = current.y
      BY <1>0, <1>1, Points
    <3>1. current' \in Point /\ current'.x = target.x /\ current'.y = current.y
      BY <2>1, <3>0
    <3> QED BY <1>0, <2>1, <3>1
  <2>2. CASE current' = [current EXCEPT !.y = target.y] /\ destiny' = destiny
             /\ pc["loop"] \in {"moveY", "loadY"}
    <3>0. /\ [current EXCEPT !.y = target.y] \in Point
          /\ [current EXCEPT !.y = target.y].y = target.y
          /\ [current EXCEPT !.y = target.y].x = current.x
      BY <1>0, <1>1, Points
    <3>1. current' \in Point /\ current'.y = target.y /\ current'.x = current.x
      BY <2>2, <3>0
    <3> QED BY <1>0, <2>2, <3>1
  <2>3. CASE current' = current /\ destiny' = [destiny EXCEPT !.x = target.x]
             /\ pc["loop"] = "destX"
    BY <1>0, <1>1, <2>3, Points
  <2>4. CASE current' = current /\ destiny' = [destiny EXCEPT !.y = target.y]
             /\ pc["loop"] = "destY"
    BY <1>0, <1>1, <2>4, Points
  <2> QED BY <2>1, <2>2, <2>3, <2>4, Zenon DEF Store
<1>5. TypeOK'
  BY <1>2, <1>3, <1>4 DEF TypeOK
<1>6. GivenInv'
  BY <1>2, <1>3, <1>4 DEF GivenInv, GivenX, GivenY, Unassigned
<1>7. ExactInv'
  BY <1>2, <1>3, <1>4 DEF ExactInv, ArriveLabel
<1> QED BY <1>5, <1>6, <1>7

(* The player enters the world.                                            *)
LEMMA EnterStep == ASSUME IndInv, EnterWorld \/ EnterUnloaded PROVE IndInv'
<1> USE DEF IndInv
<1>0. current \in Point /\ active \in BOOLEAN
  BY DEF TypeOK
<1>1. /\ pc' \in [{"loop", "map"} -> LoopLabel \cup MapLabel]
      /\ pc'["map"] = pc["map"] /\ pc'["loop"] = "idle"
  BY Labels DEF EnterWorld, EnterUnloaded, LoopLabel
<1>2. /\ UNCHANGED <<current, destiny, target, dx, dy, loaded, overlap>>
      /\ active' \in BOOLEAN
      /\ active => active'
  BY <1>0 DEF EnterWorld, EnterUnloaded
<1>3. /\ given' = given /\ unloaded' \in BOOLEAN
      /\ GivenX \subseteq GivenX' /\ GivenY \subseteq GivenY'
      /\ \/ current.x \in GivenX' /\ current.y \in GivenY'
         \/ ~ active' /\ given.x = {} /\ current.x = 0 /\ current.y = 0
  <2>1. CASE EnterWorld
    BY <2>1 DEF EnterWorld, GivenInv, TypeOK, GivenX, GivenY, Unassigned
  <2>2. CASE EnterUnloaded
    <3>1. /\ given' = given /\ pc["loop"] = "idle"
          /\ unloaded' = (unloaded \/ (active' /\ given.x = {}))
      BY <2>2 DEF EnterUnloaded
    <3>2. unloaded' \in BOOLEAN
      BY <1>2, <3>1 DEF TypeOK
    <3>3. GivenX \subseteq GivenX' /\ GivenY \subseteq GivenY'
      BY <3>1 DEF GivenX, GivenY, Unassigned
    <3>4. CASE current.x \in GivenX /\ current.y \in GivenY
      BY <3>1, <3>2, <3>3, <3>4
    <3>5. CASE given.x = {} /\ current.x = 0 /\ current.y = 0
      <4>1. active' => 0 \in GivenX' /\ 0 \in GivenY'
        BY <3>1, <3>5 DEF GivenX, GivenY, Unassigned
      <4> QED BY <1>2, <3>1, <3>2, <3>3, <3>5, <4>1
    <3> QED BY <3>1, <3>4, <3>5 DEF GivenInv
  <2> QED BY <2>1, <2>2
<1>4. TypeOK'
  BY <1>1, <1>2, <1>3 DEF TypeOK
<1>5. GivenInv'
  BY <1>1, <1>2, <1>3 DEF GivenInv, ArriveLabel
<1>6. ExactInv'
  <2>1. pc["loop"] \in {"idle", "enter"}
    BY DEF EnterWorld, EnterUnloaded
  <2> QED BY <1>1, <1>2, <2>1 DEF ExactInv, ArriveLabel
<1> QED BY <1>4, <1>5, <1>6

-----------------------------------------------------------------------------
(* The map thread reads.                                                   *)
LEMMA ReadStep ==
    ASSUME IndInv, Begin \/ CompareX \/ CompareY \/ DistanceX \/ DistanceY
    PROVE  IndInv'
<1> USE DEF IndInv, MapStep
<1>0. /\ current \in Point /\ destiny \in Point /\ dx \in Int /\ dy \in Int /\ overlap \in BOOLEAN
      /\ current.x \in Int /\ current.y \in Int /\ destiny.x \in Int /\ destiny.y \in Int
  BY Points DEF TypeOK
<1>1. /\ pc' \in [{"loop", "map"} -> LoopLabel \cup MapLabel]
      /\ pc'["loop"] = pc["loop"]
      /\ UNCHANGED <<current, destiny, active, target, given, unloaded, loaded>>
  BY Labels DEF Begin, CompareX, CompareY, DistanceX, DistanceY, MapLabel
<1>2. dx' \in Int /\ dy' \in Int /\ overlap' \in BOOLEAN
  <2>1. dx' \in Int /\ dy' \in Int
    BY <1>0 DEF Begin, CompareX, CompareY, DistanceX, DistanceY
  <2>2. overlap' = overlap \/ overlap' = (overlap \/ pc["loop"] # "idle")
    BY DEF Begin, CompareX, CompareY, DistanceX, DistanceY
  <2>3. overlap' \in BOOLEAN
    BY <1>0, <2>2, Zenon
  <2> QED BY <2>1, <2>3
<1>3. TypeOK'
  BY <1>1, <1>2 DEF TypeOK
<1>4. CASE Begin \/ CompareX \/ CompareY
  <2>1. /\ pc'["map"] \in {"idle", "cmpX", "cmpY", "dx"} /\ active
        /\ overlap' = overlap \/ (overlap' = (overlap \/ pc["loop"] # "idle"))
    BY <1>4, Labels DEF Begin, CompareX, CompareY, MapLabel, GivenInv
  <2>2. GivenInv'
    BY <1>1, <2>1 DEF GivenInv, ArriveLabel, GivenX, GivenY, Unassigned
  <2>3. ASSUME ~ overlap' PROVE ~ overlap /\ (pc["loop"] # "idle" => pc'["map"] = "idle")
    BY <1>0, <1>4, <2>3, Labels DEF Begin, CompareX, CompareY, MapLabel, ExactInv
  <2>4. ExactInv'
    BY <1>1, <2>1, <2>3 DEF ExactInv, ArriveLabel
  <2> QED BY <1>3, <2>2, <2>4
<1>5. CASE DistanceX
  <2>1. pc["map"] = "dx" /\ pc'["map"] = "dy" /\ dx' = destiny.x - current.x /\ overlap' = overlap
    BY <1>5, Labels DEF DistanceX, MapLabel
  <2>2. dx' = 0 => destiny.x = current.x
    BY <1>0, <2>1
  <2>3. GivenInv'
    BY <1>1, <2>1, <2>2 DEF GivenInv, ArriveLabel, GivenX, GivenY, Unassigned
  <2>4. ExactInv'
    BY <1>1, <2>1, <2>2 DEF ExactInv, ArriveLabel
  <2> QED BY <1>3, <2>3, <2>4
<1>6. CASE DistanceY
  <2>1. /\ pc["map"] = "dy" /\ pc'["map"] \in {"loadDestX", "loadX"} /\ overlap' = overlap
        /\ pc'["map"] = "loadDestX" => dx = 0 /\ destiny.y = current.y
    BY <1>6, Labels DEF DistanceY, MapLabel
  <2>2. GivenInv'
    BY <1>1, <2>1 DEF GivenInv, ArriveLabel, GivenX, GivenY, Unassigned
  <2>3. ExactInv'
    BY <1>1, <2>1 DEF ExactInv, ArriveLabel
  <2> QED BY <1>3, <2>2, <2>3
<1> QED BY <1>4, <1>5, <1>6

(* The map thread loads a coordinate it will store.                        *)
LEMMA LoadStep ==
    ASSUME IndInv,
           \/ Load("loadDestX", "storeDestX", destiny.x)
           \/ Load("loadDestY", "storeDestY", destiny.y)
           \/ Load("loadX", "storeX", Part(dx) + current.x)
           \/ Load("loadY", "storeY", Part(dy) + current.y)
    PROVE  IndInv'
<1> USE DEF IndInv, MapStep, Load
<1>0. /\ current \in Point /\ destiny \in Point /\ dx \in Int /\ dy \in Int
      /\ current.x \in Value /\ current.y \in Value /\ destiny.x \in Value /\ destiny.y \in Value
      /\ current.x \in Int /\ current.y \in Int
  BY Points DEF TypeOK
<1>1. Part(dx) + current.x = current.x /\ Part(dy) + current.y = current.y
  BY <1>0, PartZero
<1>2. /\ pc' \in [{"loop", "map"} -> LoopLabel \cup MapLabel]
      /\ pc'["loop"] = pc["loop"]
      /\ UNCHANGED <<current, destiny, active, target, given, unloaded, dx, dy, overlap>>
  BY Labels DEF MapLabel
<1>3. \/ pc["map"] = "loadDestX" /\ pc'["map"] = "storeDestX" /\ loaded' = destiny.x
      \/ pc["map"] = "loadDestY" /\ pc'["map"] = "storeDestY" /\ loaded' = destiny.y
      \/ pc["map"] = "loadX" /\ pc'["map"] = "storeX" /\ loaded' = current.x
      \/ pc["map"] = "loadY" /\ pc'["map"] = "storeY" /\ loaded' = current.y
  BY <1>1, Labels DEF MapLabel
<1>4. TypeOK'
  BY <1>0, <1>2, <1>3 DEF TypeOK
<1>5. GivenInv'
  BY <1>2, <1>3 DEF GivenInv, ArriveLabel, GivenX, GivenY, Unassigned
<1>6. ExactInv'
  BY <1>2, <1>3 DEF ExactInv, ArriveLabel
<1> QED BY <1>4, <1>5, <1>6

(* The map thread stores it.                                               *)
LEMMA MapStoreStep ==
    ASSUME IndInv,
           \/ StoreX("storeDestX", "loadDestY") \/ StoreY("storeDestY")
           \/ StoreX("storeX", "loadY") \/ StoreY("storeY")
    PROVE  IndInv'
<1> USE DEF IndInv, StoreX, StoreY
<1>0. current \in Point /\ destiny \in Point /\ dx \in Int /\ dy \in Int /\ loaded \in Value
  BY DEF TypeOK
<1>1. /\ pc' \in [{"loop", "map"} -> LoopLabel \cup MapLabel]
      /\ pc'["loop"] = pc["loop"]
      /\ UNCHANGED <<destiny, active, target, given, unloaded, overlap>>
      /\ loaded' = 0 /\ dx' \in Int /\ dy' \in Int
  BY <1>0, Labels DEF MapLabel
<1>2. /\ current' \in Point
      /\ \/ pc["map"] = "storeDestX" /\ pc'["map"] = "loadDestY" /\ current'.x = loaded
            /\ current'.y = current.y
         \/ pc["map"] = "storeX" /\ pc'["map"] = "loadY" /\ current'.x = loaded
            /\ current'.y = current.y
         \/ pc["map"] \in {"storeDestY", "storeY"} /\ pc'["map"] = "idle"
            /\ current'.x = current.x /\ current'.y = loaded
  <2>1. /\ [current EXCEPT !.x = loaded] \in Point /\ [current EXCEPT !.x = loaded].x = loaded
        /\ [current EXCEPT !.x = loaded].y = current.y
        /\ [current EXCEPT !.y = loaded] \in Point /\ [current EXCEPT !.y = loaded].y = loaded
        /\ [current EXCEPT !.y = loaded].x = current.x
    BY <1>0, Points
  <2>2. CASE StoreX("storeDestX", "loadDestY") \/ StoreX("storeX", "loadY")
    <3>1. \/ pc["map"] = "storeDestX" /\ pc'["map"] = "loadDestY"
          \/ pc["map"] = "storeX" /\ pc'["map"] = "loadY"
      BY <2>2, Labels DEF MapLabel
    <3>2. current' = [current EXCEPT !.x = loaded]
      BY <2>2
    <3> QED BY <2>1, <3>1, <3>2
  <2>3. CASE StoreY("storeDestY") \/ StoreY("storeY")
    <3>1. pc["map"] \in {"storeDestY", "storeY"} /\ pc'["map"] = "idle"
      BY <2>3, Labels DEF MapLabel
    <3>2. current' = [current EXCEPT !.y = loaded]
      BY <2>3
    <3> QED BY <2>1, <3>1, <3>2
  <2> QED BY <2>2, <2>3
<1>3. TypeOK'
  BY <1>1, <1>2 DEF TypeOK
<1>4. GivenInv'
  BY <1>1, <1>2 DEF GivenInv, ArriveLabel, GivenX, GivenY, Unassigned
<1>5. ExactInv'
  BY <1>1, <1>2 DEF ExactInv, ArriveLabel
<1> QED BY <1>3, <1>4, <1>5

-----------------------------------------------------------------------------
(* Both threads keep the invariant.                                        *)
LEMMA NextInv == IndInv /\ [Next]_vars => IndInv'
<1> SUFFICES ASSUME IndInv, [Next]_vars PROVE IndInv'
  OBVIOUS
<1>1. CASE UNCHANGED vars
  BY <1>1 DEF IndInv, TypeOK, GivenInv, GivenX, GivenY, Unassigned, ExactInv
<1>2. CASE ObjectMove \/ loaddata
  BY <1>2, BeginAssignStep, StoreStep DEF ObjectMove, loaddata
<1>3. CASE EnterWorld \/ EnterUnloaded
  BY <1>3, EnterStep
<1>4. CASE PlayerMovement
  BY <1>4, ReadStep, LoadStep, MapStoreStep DEF PlayerMovement, Arrive, Walk
<1> QED BY <1>1, <1>2, <1>3, <1>4 DEF Next, SendToWorld

(* A new client stands at the origin and is not in game.                   *)
LEMMA InitInv == Init => IndInv
<1> SUFFICES ASSUME Init PROVE IndInv
  OBVIOUS
<1>1. Origin \in Point /\ Origin.x = 0 /\ Origin.y = 0
  BY DEF Origin, Point
<1>2. TypeOK
  <2>1. current \in Point /\ destiny \in Point /\ target \in Point
    BY <1>1 DEF Init
  <2>2. active \in BOOLEAN /\ overlap \in BOOLEAN
    BY DEF Init
  <2>3. pc \in [{"loop", "map"} -> LoopLabel \cup MapLabel]
    BY DEF Init, LoopLabel
  <2>4. dx \in Int /\ dy \in Int /\ loaded \in Value
    BY DEF Init
  <2>5. given \in [x : SUBSET Value, y : SUBSET Value]
    BY DEF Init
  <2>6. unloaded \in BOOLEAN
    BY DEF Init
  <2> QED BY <2>1, <2>2, <2>3, <2>4, <2>5, <2>6 DEF TypeOK
<1>3. GivenInv /\ ExactInv
  BY <1>1 DEF Init, GivenInv, ExactInv, ArriveLabel
<1> QED BY <1>2, <1>3 DEF IndInv

(* The invariant of the two threads.                                       *)
THEOREM Invariance == Spec => []IndInv
  BY InitInv, NextInv, PTL DEF Spec

(* ObjectMove, loaddata and PlayerMovement keep every variable in its type,*)
(* coordinates among the ones that were given.                             *)
THEOREM TypeCorrect == Spec => []TypeOK
  BY Invariance, PTL DEF IndInv

(* A player in game stands at coordinates it was given, however            *)
(* PlayerMovement and the handlers interleave, or at the constructor's 0   *)
(* if it entered the world without any.                                    *)
THEOREM PositionIsGivenHolds == Spec => []PositionIsGiven
<1>1. IndInv => PositionIsGiven
  BY DEF IndInv, GivenInv, GivenX, GivenY, PositionIsGiven
<1> QED BY Invariance, <1>1, PTL

(* PlayerMovement never moves a player whose assignment it did not         *)
(* overlap.                                                                *)
THEOREM ExactHolds == Spec => []ExactUnlessOverlapped
<1>1. IndInv => ExactUnlessOverlapped
  BY SamePoint DEF IndInv, TypeOK, ExactInv, ExactUnlessOverlapped
<1> QED BY Invariance, <1>1, PTL
=============================================================================
