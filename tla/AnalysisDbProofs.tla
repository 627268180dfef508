-------------------------- MODULE AnalysisDbProofs --------------------------
(***************************************************************************)
(* What the transactions that settle an analysis do to the tables, for     *)
(* every size of them.  The handlers (TaskPipeline) and the requests       *)
(* (Submission) share these facts.                                         *)
(***************************************************************************)
EXTENDS AnalysisDb, TLAPS

LiveTable == [Tasks -> RowOver(LiveStatuses) \cup {None}]

\* Ids an analysis may settle: accepted, and not waiting for another file.
KnownIds == {t \in Tasks : fod[t] # None /\ t \notin dup}

\* What a finishing transaction stores.
LEMMA UpdateFodType ==
    ASSUME DbTypeOK, NEW T, NEW score \in Scores
    PROVE  UpdateFod(fod, T, score) \in [Tasks -> FodRow \cup {None}]
<1>1. Rating(score) \in Ratings /\ Verdict(score) \in Verdicts
  BY DEF Rating, Verdict, Ratings, Verdicts
<1>. QED
  BY <1>1 DEF DbTypeOK, UpdateFod, FodRow

\* A row as it was inserted.
LEMMA PromotedRowType == PromotedRow \in RowOver(LiveStatuses)
BY DEF PromotedRow, NewLiveRow, RowOver, LiveStatuses

\* The tables keep their types.
LEMMA FinishType ==
    ASSUME DbTypeOK, NEW t \in Tasks, NEW D, NEW score \in Scores,
           Finish(t, D, score) \/ Abort(t, D), UNCHANGED files
    PROVE  DbTypeOK'
<1>1. fod' \in [Tasks -> FodRow \cup {None}]
  BY UpdateFodType DEF Finish, Abort, Scores
<1>2. live' \in LiveTable
  BY PromotedRowType DEF Finish, Abort, LiveAfterFinish, LiveTable, DbTypeOK
<1>3. finished' \in [Tasks -> Nat]
  <2>1. ASSUME NEW E PROVE FinishedAfter(t, E) \in [Tasks -> Nat]
    <3>1. \A u \in Tasks : finished[u] \in Nat
      BY DEF DbTypeOK
    <3>. QED
      BY <3>1 DEF FinishedAfter
  <2>. QED
    BY <2>1 DEF Finish, Abort
<1>4. dup' \in SUBSET Tasks
  BY DEF Finish, Abort, DbTypeOK
<1>. QED
  BY <1>1, <1>2, <1>3, <1>4 DEF DbTypeOK, LiveTable

\* updateFOD rates the rows of T, leaves the others, and keeps every digest.
LEMMA UpdateFodEffect ==
    ASSUME DbTypeOK, NEW T, NEW score \in Scores, NEW u \in Tasks
    PROVE  /\ UpdateFod(fod, T, score)[u] = None <=> fod[u] = None
           /\ fod[u] # None => UpdateFod(fod, T, score)[u].hash = fod[u].hash
           /\ u \in T /\ fod[u] # None => /\ UpdateFod(fod, T, score)[u].rating # "none"
                                         /\ UpdateFod(fod, T, score)[u].verdict # "none"
           /\ u \notin T => UpdateFod(fod, T, score)[u] = fod[u]
<1>1. CASE u \in T /\ fod[u] # None
  <2>. DEFINE new == [fod[u] EXCEPT !.rating = Rating(score), !.verdict = Verdict(score)]
  <2>1. UpdateFod(fod, T, score)[u] = new
    BY <1>1 DEF UpdateFod
  <2>2. fod[u] \in FodRow
    BY <1>1 DEF DbTypeOK
  <2>3. Rating(score) \in Ratings \ {"none"} /\ Verdict(score) \in Verdicts \ {"none"}
    BY DEF Rating, Verdict, Ratings, Verdicts
  <2>4. new \in FodRow /\ new.rating # "none" /\ new.verdict # "none" /\ new.hash = fod[u].hash
    BY <2>2, <2>3 DEF FodRow
  <2>. QED
    BY <1>1, <2>1, <2>4, DbAssumption
<1>2. CASE ~(u \in T /\ fod[u] # None)
  BY <1>2 DEF UpdateFod
<1>. QED
  BY <1>1, <1>2

\* Both transactions delete the row of t; the promoted duplicates get one.
LEMMA LiveAfterFinishRows ==
    ASSUME DbTypeOK, NEW t \in Tasks, NEW D, t \notin D, NEW u \in Tasks
    PROVE  LiveAfterFinish(t, D)[u] # None <=> u \in D \/ (u # t /\ live[u] # None)
BY PromotedRowType, DbAssumption DEF LiveAfterFinish

-----------------------------------------------------------------------------
(* The moves between the tables.                                           *)

\* A task of the live table and its duplicates are settled together.
LEMMA FinishOnePlace ==
    ASSUME DbTypeOK, OnePlace, NEW t \in KnownIds, NEW D, D \subseteq dup, NEW score \in Scores,
           Finish(t, D, score)
    PROVE  OnePlace' /\ KnownIds \subseteq KnownIds'
<1>1. t \in Tasks /\ t \notin D /\ fod[t] # None /\ t \notin dup /\ D \subseteq Tasks
  BY DEF KnownIds, DbTypeOK
<1>2. \A u \in Tasks :
        /\ fod'[u] = None <=> fod[u] = None
        /\ u \in {t} \cup D /\ fod[u] # None => fod'[u].rating # "none"
        /\ u \notin {t} \cup D => fod'[u] = fod[u]
  BY UpdateFodEffect DEF Finish
<1>3. \A u \in Tasks : live'[u] # None <=> u # t /\ live[u] # None
  BY <1>1, LiveAfterFinishRows DEF Finish
<1>4. \A u \in Tasks : finished'[u] > 0 => finished[u] > 0 \/ u \in {t} \cup D
  BY DEF Finish, FinishedAfter, DbTypeOK
<1>5. dup' = dup \ D
  BY DEF Finish
<1>6. \A u \in Tasks : fod[u] # None => (Settled(u)' <=> Settled(u) \/ u \in {t} \cup D)
  BY <1>2 DEF Settled
<1>7. \A u \in D : fod[u] # None
  BY <1>1 DEF OnePlace
<1>8. OnePlace'
  <2>. SUFFICES ASSUME NEW u \in Tasks
                PROVE  /\ live'[u] # None => u \notin dup' /\ ~Settled(u)' /\ fod'[u] # None
                       /\ u \in dup' => ~Settled(u)' /\ fod'[u] # None
                       /\ finished'[u] > 0 => Settled(u)'
                       /\ fod'[u] # None => live'[u] # None \/ u \in dup' \/ Settled(u)'
    BY DEF OnePlace
  <2>1. live[u] # None => u \notin dup /\ ~Settled(u) /\ fod[u] # None
    BY DEF OnePlace
  <2>2. u \in dup => ~Settled(u) /\ fod[u] # None
    BY DEF OnePlace
  <2>3. finished[u] > 0 => Settled(u) /\ fod[u] # None
    BY DEF OnePlace, Settled
  <2>4. fod[u] # None => live[u] # None \/ u \in dup \/ Settled(u)
    BY DEF OnePlace
  <2>5. u = t => fod[u] # None
    BY <1>1
  <2>. QED
    BY <1>1, <1>2, <1>3, <1>4, <1>5, <1>6, <1>7, <2>1, <2>2, <2>3, <2>4, <2>5
<1>9. KnownIds \subseteq KnownIds'
  BY <1>2, <1>5 DEF KnownIds
<1>. QED
  BY <1>8, <1>9

\* A task is settled and one of its duplicates takes its place.
LEMMA AbortOnePlace ==
    ASSUME DbTypeOK, OnePlace, NEW t \in KnownIds, NEW D, D \subseteq dup, Abort(t, D)
    PROVE  OnePlace' /\ KnownIds \subseteq KnownIds'
<1>1. t \in Tasks /\ t \notin D /\ fod[t] # None /\ t \notin dup /\ D \subseteq Tasks
  BY DEF KnownIds, DbTypeOK
<1>2. \A u \in Tasks :
        /\ fod'[u] = None <=> fod[u] = None
        /\ u = t /\ fod[u] # None => fod'[u].rating # "none"
        /\ u # t => fod'[u] = fod[u]
  BY UpdateFodEffect DEF Abort, Scores
<1>3. \A u \in Tasks : live'[u] # None <=> u \in D \/ (u # t /\ live[u] # None)
  BY <1>1, LiveAfterFinishRows DEF Abort
<1>4. \A u \in Tasks : finished'[u] > 0 => finished[u] > 0 \/ u = t
  BY DEF Abort, FinishedAfter, DbTypeOK
<1>5. dup' = dup \ D
  BY DEF Abort
<1>6. \A u \in Tasks : fod[u] # None => (Settled(u)' <=> Settled(u) \/ u = t)
  BY <1>2 DEF Settled
<1>7. OnePlace'
  <2>. SUFFICES ASSUME NEW u \in Tasks
                PROVE  /\ live'[u] # None => u \notin dup' /\ ~Settled(u)' /\ fod'[u] # None
                       /\ u \in dup' => ~Settled(u)' /\ fod'[u] # None
                       /\ finished'[u] > 0 => Settled(u)'
                       /\ fod'[u] # None => live'[u] # None \/ u \in dup' \/ Settled(u)'
    BY DEF OnePlace
  <2>1. live[u] # None => u \notin dup /\ ~Settled(u) /\ fod[u] # None
    BY DEF OnePlace
  <2>2. u \in dup => ~Settled(u) /\ fod[u] # None
    BY DEF OnePlace
  <2>3. finished[u] > 0 => Settled(u) /\ fod[u] # None
    BY DEF OnePlace, Settled
  <2>4. fod[u] # None => live[u] # None \/ u \in dup \/ Settled(u)
    BY DEF OnePlace
  <2>5. u = t => fod[u] # None
    BY <1>1
  <2>. QED
    BY <1>1, <1>2, <1>3, <1>4, <1>5, <1>6, <2>1, <2>2, <2>3, <2>4, <2>5
<1>8. KnownIds \subseteq KnownIds'
  BY <1>2, <1>5 DEF KnownIds
<1>. QED
  BY <1>7, <1>8
=============================================================================
