-------------------------- MODULE StoreRefinement ---------------------------
(* The pattern store over flash implements DurableStore: what is stored under *)
(* a name is what a reboot at this very moment would find, what is pending    *)
(* are the requests the web tasks are serving.                                *)
EXTENDS PatternStore

OnFlash ==
    LET index == ReloadOf(flash).index
    IN  [ n \in Names |-> IF Stored(index, n) = {} THEN 0
                          ELSE CHOOSE v \in Stored(index, n) : TRUE ]

InFlight ==
    { [name |-> req[c].name, ver |-> req[c].ver] : c \in { d \in Clients : req[d].op = "save" } }
      \cup { [name |-> req[c].rec.name, ver |-> 0] : c \in { d \in Clients : req[d].op = "delete" } }

Durable == INSTANCE DurableStore WITH stored <- OnFlash, pending <- InFlight

\* While the log has room (no compaction), every flash operation and every power
\* cut inside one changes what a reboot would find by at most one pending
\* request, as a whole: a save is published by its commit word alone.
ImplementsDurableStore == Durable!Spec
=============================================================================
