------------------------------ MODULE ConfigMap ------------------------------
(***************************************************************************)
(* What config.yaml promises to its callers: a map of rows in which the    *)
(* save of a request takes effect at once and whole, or not at all.  Only  *)
(* the end of the process may lose rows, and then it loses all of them.    *)
(***************************************************************************)
EXTENDS ConfigRows

CONSTANT Requests

VARIABLES
    stored,    \* the rows of the map
    pending    \* the change a request asked for and has no answer to, or None

mapVars == <<stored, pending>>

MapInit == pending = [r \in Requests |-> None]

Ask(r) ==
    /\ pending[r] = None
    /\ pending' = [pending EXCEPT ![r] = pending'[r]]
    /\ UNCHANGED stored

Commit(r) ==
    /\ pending[r] # None
    /\ stored' = Applied(stored, pending[r])
    /\ pending' = [pending EXCEPT ![r] = None]

Abandon(r) ==
    /\ pending' = [pending EXCEPT ![r] = None]
    /\ UNCHANGED stored

Stop ==
    /\ pending' = [r \in Requests |-> None]
    /\ stored' \in {stored, {}}

MapNext == Stop \/ \E r \in Requests : Ask(r) \/ Commit(r) \/ Abandon(r)

MapSpec == MapInit /\ [][MapNext]_mapVars
=============================================================================
