----------------------------- MODULE MCAccounts -----------------------------
(* Instances of Accounts for TLC: two accounts, the first with a character *)
(* that owns gold for one purchase and an item in every slot.              *)
EXTENDS Accounts, TLC

CONSTANTS u1, u2, n1

MCAccounts0 == (u1 :> "offline") @@ [u \in User |-> "none"]
MCCharacters0 == {[id |-> 1, name |-> n1, uid |-> u1, posid |-> 0, gold |-> Price + 1,
                   kit |-> Slot]}
MCItems0 == {[owner |-> 1, slotnum |-> s] : s \in Slot}

ConnSymmetry == Permutations(Conn)
=============================================================================
