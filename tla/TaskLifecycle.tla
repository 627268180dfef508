--------------------------- MODULE TaskLifecycle ---------------------------
(***************************************************************************)
(* What the analysis promises about a submitted file, whatever queues and  *)
(* tables are behind it: it is analysed once, its verdict is final, and a  *)
(* file waiting for another one of its digest either gets that verdict or  *)
(* takes its place.                                                        *)
(***************************************************************************)
CONSTANTS Files, Digests

VARIABLES
    digest,     \* digest of a file
    phase,      \* "waiting" for a file of its digest, "live" or "done"
    verdict     \* "none" until the file is done

lifecycleVars == <<digest, phase, verdict>>

Waiting(h) == {f \in Files : phase[f] = "waiting" /\ digest[f] = h}
Live(h)    == {f \in Files : phase[f] = "live" /\ digest[f] = h}

\* Every digest is analysed through exactly one of its files.
LifecycleInit ==
    /\ digest \in [Files -> Digests]
    /\ phase \in [Files -> {"waiting", "live"}]
    /\ \A f \in Files : \E g \in Files : Live(digest[f]) = {g}
    /\ verdict = [f \in Files |-> "none"]

\* The analysis of f ends with v; the files of D get the verdict with it.
Conclude(f, D, v) ==
    /\ phase[f] = "live" /\ D \subseteq Waiting(digest[f])
    /\ phase' = [g \in Files |-> IF g = f \/ g \in D THEN "done" ELSE phase[g]]
    /\ verdict' = [g \in Files |-> IF g = f \/ g \in D THEN v ELSE verdict[g]]
    /\ UNCHANGED digest

\* The analysis of f is given up, which allows the file; one of the files
\* that waited for it, at most, is analysed in its place.
GiveUp(f, P) ==
    /\ phase[f] = "live" /\ P \subseteq Waiting(digest[f])
    /\ \A g, k \in P : g = k
    /\ phase' = [g \in Files |-> IF g = f THEN "done" ELSE IF g \in P THEN "live" ELSE phase[g]]
    /\ verdict' = [verdict EXCEPT ![f] = "allow"]
    /\ UNCHANGED digest

LifecycleNext ==
    \E f \in Files :
        \/ \E D \in SUBSET Files, v \in {"allow", "block"} : Conclude(f, D, v)
        \/ \E P \in SUBSET Files : GiveUp(f, P)

LifecycleSpec == LifecycleInit /\ [][LifecycleNext]_lifecycleVars
=============================================================================
