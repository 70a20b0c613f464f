------------------------------ MODULE KeyLocks ------------------------------
(***************************************************************************)
(* What a table of try-locks promises to those who use it, with a batch of *)
(* keys taken and given back in one step: a key has at most one holder,    *)
(* and nobody holds a key without having taken it.                         *)
(***************************************************************************)
CONSTANTS Holders, Keys

VARIABLE held    \* the set of keys each holder has

Init == held = [h \in Holders |-> {}]

Take(h, batch) ==
    /\ \A other \in Holders \ {h} : held[other] \cap batch = {}
    /\ held' = [held EXCEPT ![h] = @ \cup batch]

Give(h, batch) ==
    /\ batch \subseteq held[h]
    /\ held' = [held EXCEPT ![h] = @ \ batch]

Next ==
    \E h \in Holders, batch \in SUBSET Keys :
        \/ Take(h, batch)
        \/ Give(h, batch)

Spec == Init /\ [][Next]_held
=============================================================================
