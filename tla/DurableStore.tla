---------------------------- MODULE DurableStore ----------------------------
(***************************************************************************)
(* What a user of core::Database may count on, without files, logs or      *)
(* recovery: a set of keys that is served while the store is up, changes   *)
(* by one key at a time, and is lost when it goes down, all but the keys   *)
(* the store is sure of.  A store that recovers itself comes up with every *)
(* one of those, or not at all.                                            *)
(***************************************************************************)
CONSTANT Keys

VARIABLES
    up,         \* calls are answered
    recovers,   \* the store has a log, and came up by recovering from it
    keys,       \* the keys that are served; none while the store is down
    sure        \* keys whose insertion was acknowledged by a store with a log,
                \* and that no later call or crash has put in doubt

vars == <<up, recovers, keys, sure>>

Init == /\ up = FALSE
        /\ recovers = FALSE
        /\ keys = {}
        /\ sure = {}

\* The store comes up.  One that does not recover serves what it likes.
Start(mode, served) ==
    /\ ~ up
    /\ mode => sure \subseteq served
    /\ up' = TRUE
    /\ recovers' = mode
    /\ keys' = served
    /\ UNCHANGED sure

\* An insertion that is acknowledged: the key is there, and a store that
\* recovers is sure of it from now on.
Insert(k) ==
    /\ up /\ k \notin keys
    /\ keys' = keys \cup {k}
    /\ sure' \in {sure \cup {k}} \cup (IF recovers THEN {} ELSE {sure \ {k}})
    /\ UNCHANGED <<up, recovers>>

\* An erasure that is acknowledged.
Erase(k) ==
    /\ up /\ k \in keys
    /\ keys' = keys \ {k}
    /\ sure' = sure \ {k}
    /\ UNCHANGED <<up, recovers>>

\* A call on one key fails: that key may be there or not.
Fail(k) ==
    /\ up
    /\ keys' \in {keys \cup {k}, keys \ {k}}
    /\ sure' = sure \ {k}
    /\ UNCHANGED <<up, recovers>>

\* The store goes down between two calls, or in a call on one key.
Stop(lost) ==
    /\ up' = FALSE
    /\ recovers' = FALSE
    /\ keys' = {}
    /\ sure' = sure \ lost

Next == \/ \E mode \in BOOLEAN, served \in SUBSET Keys : Start(mode, served)
        \/ \E k \in Keys : Insert(k) \/ Erase(k) \/ Fail(k) \/ Stop({k})
        \/ Stop({})

Spec == Init /\ [][Next]_vars
=============================================================================
