---------------------------- MODULE DurableStore ----------------------------
(* What the pattern store promises: a map from names to versions that lives   *)
(* in flash.  A request takes effect at one instant, whole or not at all, and *)
(* only while it is pending; a power cut may forget what is pending, never    *)
(* what is stored.                                                            *)
EXTENDS Naturals

CONSTANTS Names, Versions       \* version 0 is "absent"

VARIABLES stored, pending

Request == [name : Names, ver : Versions]

Init == stored = [n \in Names |-> 0] /\ pending = {}

Ask == (\E p \in Request : pending' = pending \cup {p}) /\ UNCHANGED stored

Effect == \E p \in pending :
    /\ pending' \subseteq pending
    /\ stored' = [stored EXCEPT ![p.name] = p.ver]

Forget == pending' \subseteq pending /\ UNCHANGED stored

Next == Ask \/ Effect \/ Forget

Spec == Init /\ [][Next]_<<stored, pending>>
=============================================================================
