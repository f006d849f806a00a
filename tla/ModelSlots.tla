----------------------------- MODULE ModelSlots -----------------------------
(* What the prediction service promises about the model that answers         *)
(* /predict, seen from outside: one primary and at most one shadow, a        *)
(* durable copy that a restart falls back to, and a registry that a version  *)
(* must have entered before it can appear in any of them.                    *)

CONSTANTS Version, Seed, None, Old

VARIABLES
    primary,   \* the version that answers, None while the service is down
    shadow,    \* the version evaluated beside it, or None
    durable,   \* the version a restart loads
    known      \* the registered versions

slots == <<primary, shadow, durable, known>>

Init ==
    /\ primary = Seed
    /\ shadow = None
    /\ durable = Seed
    /\ known = Old

Register ==
    /\ \E v \in Version : known' = known \cup {v}
    /\ UNCHANGED <<primary, shadow, durable>>

Evaluate ==
    /\ \E v \in known : shadow' = v
    /\ UNCHANGED <<primary, durable, known>>

\* The shadow takes over, and leaves its own slot empty.
Swap ==
    /\ shadow # None
    /\ primary' = shadow
    /\ shadow' = None
    /\ UNCHANGED <<durable, known>>

Drop ==
    /\ shadow' = None
    /\ UNCHANGED <<primary, durable, known>>

Publish ==
    /\ \E v \in known : durable' = v
    /\ UNCHANGED <<primary, shadow, known>>

\* A restart or a reload goes back to the durable version.
Load ==
    /\ primary' = durable
    /\ UNCHANGED <<shadow, durable, known>>

Stop ==
    /\ primary' = None
    /\ shadow' = None
    /\ UNCHANGED <<durable, known>>

Next == Register \/ Evaluate \/ Swap \/ Drop \/ Publish \/ Load \/ Stop

Spec == Init /\ [][Next]_slots
=============================================================================
