--------------------------- MODULE PacketDelivery ----------------------------
(***************************************************************************)
(* What the sending side promises: a job builds a packet and delivers it   *)
(* to some clients.  A job that no other job overlapped delivers the       *)
(* packet it built; jobs that overlapped may deliver anything.             *)
(***************************************************************************)
CONSTANT Thread     \* the threads that send

VARIABLES
    busy,       \* threads in a job
    tainted,    \* busy threads whose job another one overlapped
    last        \* the last delivery: by whom, and whether it was intact

vars == <<busy, tainted, last>>

Init == busy = {} /\ tainted = {} /\ last = [by |-> {}, intact |-> TRUE]

Start(t) ==
    /\ t \notin busy
    /\ busy' = busy \cup {t}
    /\ tainted' = IF busy = {} THEN tainted ELSE busy \cup {t}
    /\ UNCHANGED last

Deliver(t) ==
    /\ t \in busy
    /\ \E ok \in BOOLEAN :
          /\ ok \/ t \in tainted
          /\ last' = [by |-> {t}, intact |-> ok]
    /\ UNCHANGED <<busy, tainted>>

End(t) ==
    /\ t \in busy
    /\ busy' = busy \ {t}
    /\ tainted' = tainted \ {t}
    /\ UNCHANGED last

Next == \E t \in Thread : Start(t) \/ Deliver(t) \/ End(t)

Spec == Init /\ [][Next]_vars
=============================================================================
