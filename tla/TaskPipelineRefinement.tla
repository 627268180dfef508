----------------------- MODULE TaskPipelineRefinement -----------------------
(***************************************************************************)
(* The pipeline implements TaskLifecycle: a file waits while it is in the  *)
(* duplicate table and is live while it is in the live table.              *)
(***************************************************************************)
EXTENDS TaskPipeline

PhaseOf(t) ==
    IF t \in dup THEN "waiting" ELSE IF live[t] # None THEN "live" ELSE "done"

Lifecycle == INSTANCE TaskLifecycle WITH
    Files   <- Tasks,
    Digests <- Hashes,
    digest  <- [t \in Tasks |-> fod[t].hash],
    phase   <- [t \in Tasks |-> PhaseOf(t)],
    verdict <- [t \in Tasks |-> fod[t].verdict]

\* Whatever the handlers and the channels do, a file is settled at most once,
\* with its duplicates or by handing the digest to one of them.  The tables are
\* moved by the log handler's transactions; every other step is a stutter.
RefinesLifecycle == Lifecycle!LifecycleSpec
=============================================================================
