--------------------------- MODULE ClientLifecycle ---------------------------
(***************************************************************************)
(* What the server promises about a client object, from the new of AddUser *)
(* to the delete of DeleteClientSocket: it is taken off ClientList before  *)
(* it is deleted, one client at a time is being taken off, and an object   *)
(* some thread is using is not deleted before the thread is through.       *)
(***************************************************************************)
CONSTANT Addr       \* heap addresses of client objects

VARIABLES
    listed,     \* the clients of ClientList
    allocated,  \* the clients newed and not deleted
    closing,    \* the client taken off ClientList and not yet deleted
    pinned      \* the clients other threads are using

vars == <<listed, allocated, closing, pinned>>

Init == listed = {} /\ allocated = {} /\ closing = {} /\ pinned = {}

Connect(a) ==
    /\ a \notin allocated
    /\ allocated' = allocated \cup {a}
    /\ listed' = listed \cup {a}
    /\ UNCHANGED <<closing, pinned>>

Disconnect(a) ==
    /\ a \in listed
    /\ closing = {}
    /\ listed' = listed \ {a}
    /\ closing' = {a}
    /\ UNCHANGED <<allocated, pinned>>

(* The client being closed may still be loaded, from a list read before.   *)
Load(a) ==
    /\ a \in listed \cup closing
    /\ pinned' = pinned \cup {a}
    /\ UNCHANGED <<listed, allocated, closing>>

Release ==
    /\ pinned' \in SUBSET pinned
    /\ UNCHANGED <<listed, allocated, closing>>

Delete(a) ==
    /\ closing = {a}
    /\ a \notin pinned
    /\ allocated' = allocated \ {a}
    /\ closing' = {}
    /\ UNCHANGED <<listed, pinned>>

Next ==
    \/ \E a \in Addr : Connect(a) \/ Disconnect(a) \/ Load(a) \/ Delete(a)
    \/ Release

Spec == Init /\ [][Next]_vars

(* What the promise amounts to: an object in use is allocated, and an      *)
(* allocated one is either listed or the one being closed.                 *)
Safe ==
    /\ pinned \subseteq allocated
    /\ allocated = listed \cup closing
    /\ listed \cap closing = {}
=============================================================================
