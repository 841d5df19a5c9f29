--------------------------- MODULE JobPromiseProofs ---------------------------
(***************************************************************************)
(* Theorems about what the queue promises to those who use it, for any     *)
(* lots, steps, workers, keys and bounds.                                  *)
(*                                                                         *)
(* What the steps of a lot show: the outcome of their current job and the  *)
(* artefact of the attempt that finished it.  Every action but a           *)
(* publication moves each step in one of four ways, which StoryStep goes   *)
(* through once.                                                           *)
(*                                                                         *)
(* And the contract of the queue (JobContract), which it implements: the   *)
(* mapping forgets the steps, the runs, the leases and the worker cycles;  *)
(* each operation of the queue is one step of the contract, or none.       *)
(*                                                                         *)
(* And the life of a lot (LotLife), which it shares with LotStorage.       *)
(***************************************************************************)
EXTENDS JobQueueProofs

-----------------------------------------------------------------------------
\* A step of status st whose current job has status js.
Story(st, js) ==
  \/ st = "pret" /\ js \in {"queued", "leased", "expired"}
  \/ st = "en_cours" /\ js \in {"leased", "running", "expired"}
  \/ st \in {"termine", "bloque"} /\ js = "succeeded"
  \/ st = "echoue" /\ js = "failed"

Tells(l, s) ==
  \/ etapes[l][s].run = None /\ etapes[l][s].status \in {"non_demarre", "invalide"}
  \/ etapes[l][s].run = UserRun /\ etapes[l][s].status = "action_requise"
  \/ /\ etapes[l][s].run \in RowsOf(jobs, l, s)
     /\ Story(etapes[l][s].status, jobs[etapes[l][s].run].status)

\* The current run of a step is a row of the step, in a closed lot too.
RunsAreRows ==
  \A l \in Lots, s \in Steps :
    etapes[l][s].run \in Jobs => etapes[l][s].run \in RowsOf(jobs, l, s)

\* A finished step had a job that succeeded, in a closed lot too.
FinishedRunsSucceeded ==
  \A l \in Lots, s \in Steps :
    etapes[l][s].status = "termine" =>
      /\ etapes[l][s].run \in Jobs
      /\ jobs[etapes[l][s].run].status = "succeeded"

\* The worker has published and not yet ended its job.
Announces(w) ==
  workers[w].pc = "termine" \/ (workers[w].pc = "handler" /\ workers[w].published)

\* What a worker published stays exposed as long as its lease is current.
AnnouncedIsExposed ==
  \A w \in Workers :
    LET j == workers[w].job IN
    Announces(w) /\ Fenced(w) =>
      artefacts[jobs[j].lot][jobs[j].step] = {<<j, workers[w].version>>}

FInv ==
  /\ StepTellsItsRun
  /\ RunsAreRows
  /\ FinishedRunsSucceeded
  /\ AnnouncedIsExposed
  /\ FinishedStepExposesItsAttempt

-----------------------------------------------------------------------------
\* The four ways of a step.  Its job, if any, stays or is taken out of the
\* queue; its run is replaced; its lot is purged; its job moves with it.
RowStays(j) ==
  /\ jobs'[j].lot = jobs[j].lot
  /\ jobs'[j].step = jobs[j].step
  /\ jobs'[j].version = jobs[j].version
  /\ \/ jobs'[j].status = jobs[j].status /\ (jobs[j].lapsed => jobs'[j].lapsed)
     \/ jobs[j].status \in Committable /\ jobs'[j].status = "expired"
     \/ jobs[j].status = "queued" /\ jobs'[j].status = "canceled" /\ lots'[jobs[j].lot].status \in Blocked

StepSame(l, s) ==
  /\ etapes'[l][s] = etapes[l][s]
  /\ artefacts'[l][s] = artefacts[l][s]
  /\ \A j \in RowsOf(jobs, l, s) : jobs[j].status # "absent" => RowStays(j)

StepMoved(l, s) ==
  \/ etapes'[l][s].run = None /\ etapes'[l][s].status = "invalide"
  \/ etapes'[l][s].run = UserRun /\ etapes'[l][s].status = "action_requise"
  \/ /\ etapes'[l][s].run \in RowsOf(jobs', l, s)
     /\ etapes'[l][s].status = "pret"
     /\ jobs'[etapes'[l][s].run].status = "queued"
     /\ jobs[etapes'[l][s].run].status = "absent"

StepGone(l, s) ==
  lots'[l].status \in Blocked /\ etapes'[l][s].run = None /\ etapes'[l][s].status = "purge"

StepRan(l, s, j) ==
  /\ etapes'[l][s].run = j /\ etapes[l][s].run = j
  /\ jobs[j].status \in Active \cup {"expired"}
  /\ artefacts'[l][s] = artefacts[l][s]
  /\ j \in RowsOf(jobs', l, s)
  /\ lots'[l].status \notin Blocked => Story(etapes'[l][s].status, jobs'[j].status)
  /\ etapes'[l][s].status = "termine" =>
       jobs'[j].status = "succeeded" /\ artefacts[l][s] = {<<j, jobs'[j].version>>}
  /\ jobs'[j].status \in Committable /\ ~jobs'[j].lapsed =>
       \/ /\ jobs[j].status \in Committable /\ ~jobs[j].lapsed
          /\ jobs'[j].version = jobs[j].version
       \/ jobs'[j].version > jobs[j].version

WorkersAnnounceNothing ==
  \A w \in Workers :
    Announces(w)' => /\ Announces(w)
                     /\ workers'[w].job = workers[w].job
                     /\ workers'[w].version = workers[w].version

LotsStayClosed == \A l \in Lots : Open(l)' => Open(l)

\* Such ways of the steps keep the invariant.
LEMMA StoryStep ==
  ASSUME IInv, IInv', FInv, WorkersAnnounceNothing, LotsStayClosed,
         \A l \in Lots, s \in Steps :
           StepSame(l, s) \/ StepMoved(l, s) \/ StepGone(l, s)
           \/ \E j \in Jobs : StepRan(l, s, j)
  PROVE  FInv'
<1> USE NullAssumption
<1>1. ASSUME NEW l \in Lots, NEW s \in Steps, StepSame(l, s), etapes[l][s].run \in Jobs
      PROVE  /\ etapes'[l][s].run \in RowsOf(jobs, l, s) /\ etapes'[l][s].run \in RowsOf(jobs', l, s)
             /\ RowStays(etapes[l][s].run)
  BY <1>1 DEF IInv, RunsHaveRows, FInv, RunsAreRows, StepSame, RowStays, RowsOf
<1>2. RunsAreRows'
  <2>1. SUFFICES ASSUME NEW l \in Lots, NEW s \in Steps, etapes'[l][s].run \in Jobs
                 PROVE  etapes'[l][s].run \in RowsOf(jobs', l, s)
    BY DEF RunsAreRows
  <2>2. CASE StepSame(l, s)
    BY <1>1, <2>1, <2>2 DEF StepSame
  <2>3. CASE ~StepSame(l, s)
    BY <2>1, <2>3 DEF StepMoved, StepGone, StepRan
  <2> QED BY <2>2, <2>3
<1>3. StepTellsItsRun'
  <2>1. SUFFICES ASSUME NEW l \in Lots, NEW s \in Steps, Open(l)'
                 PROVE  Tells(l, s)'
    BY DEF StepTellsItsRun, Tells, Story
  <2>2. Tells(l, s)
    BY <2>1 DEF FInv, StepTellsItsRun, Tells, Story, LotsStayClosed
  <2>3. CASE StepSame(l, s)
    <3>1. CASE etapes[l][s].run \in RowsOf(jobs, l, s)
      <4> DEFINE r == etapes[l][s].run
      <4>1. r \in Jobs /\ r \in RowsOf(jobs', l, s) /\ RowStays(r) /\ jobs[r].lot = l
        BY <1>1, <2>3, <3>1 DEF RowsOf, StepSame
      <4>2. Story(etapes[l][s].status, jobs[r].status) => Story(etapes[l][s].status, jobs'[r].status)
        BY <2>1, <4>1 DEF RowStays, Story, Committable, Open
      <4>3. Story(etapes[l][s].status, jobs[r].status)
        BY <2>2, <3>1 DEF Tells, RowsOf
      <4> QED BY <2>3, <4>1, <4>2, <4>3 DEF Tells, StepSame
    <3>2. CASE etapes[l][s].run \notin RowsOf(jobs, l, s)
      BY <2>2, <2>3, <3>2 DEF Tells, StepSame
    <3> QED BY <3>1, <3>2
  <2>4. CASE StepMoved(l, s)
    BY <2>4 DEF StepMoved, Tells, Story
  <2>5. ASSUME NEW j \in Jobs, StepRan(l, s, j)
        PROVE  Tells(l, s)'
    BY <2>1, <2>5 DEF StepRan, Tells, Open
  <2> QED BY <2>1, <2>3, <2>4, <2>5 DEF StepGone, Open
<1>4. FinishedRunsSucceeded' /\ FinishedStepExposesItsAttempt'
  <2>1. SUFFICES ASSUME NEW l \in Lots, NEW s \in Steps, etapes'[l][s].status = "termine"
                 PROVE  /\ etapes'[l][s].run \in Jobs
                        /\ jobs'[etapes'[l][s].run].status = "succeeded"
                        /\ artefacts'[l][s] = {<<etapes'[l][s].run, jobs'[etapes'[l][s].run].version>>}
    BY DEF FinishedRunsSucceeded, FinishedStepExposesItsAttempt
  <2>2. CASE StepSame(l, s)
    <3> DEFINE r == etapes[l][s].run
    <3>1. etapes[l][s].status = "termine" /\ etapes'[l][s].run = r /\ artefacts'[l][s] = artefacts[l][s]
      BY <2>1, <2>2 DEF StepSame
    <3>2. r \in Jobs /\ jobs[r].status = "succeeded" /\ artefacts[l][s] = {<<r, jobs[r].version>>}
      BY <3>1 DEF FInv, FinishedRunsSucceeded, FinishedStepExposesItsAttempt
    <3>3. RowStays(r)
      BY <1>1, <2>2, <3>1, <3>2 DEF StepSame
    <3>4. jobs'[r].status = "succeeded" /\ jobs'[r].version = jobs[r].version
      BY <3>2, <3>3 DEF RowStays, Committable
    <3> QED BY <3>1, <3>2, <3>4
  <2>3. CASE StepMoved(l, s) \/ StepGone(l, s)
    BY <2>1, <2>3 DEF StepMoved, StepGone
  <2>4. ASSUME NEW j \in Jobs, StepRan(l, s, j)
        PROVE  /\ etapes'[l][s].run \in Jobs
               /\ jobs'[etapes'[l][s].run].status = "succeeded"
               /\ artefacts'[l][s] = {<<etapes'[l][s].run, jobs'[etapes'[l][s].run].version>>}
    BY <2>1, <2>4 DEF StepRan
  <2> QED BY <2>2, <2>3, <2>4
<1>5. AnnouncedIsExposed'
  <2>1. SUFFICES ASSUME NEW w \in Workers, Announces(w)', Fenced(w)'
                 PROVE  artefacts'[jobs'[workers'[w].job].lot][jobs'[workers'[w].job].step]
                          = {<<workers'[w].job, workers'[w].version>>}
    BY DEF AnnouncedIsExposed
  <2> DEFINE j == workers[w].job
             v == workers[w].version
             l == jobs'[j].lot
             s == jobs'[j].step
  <2>2. Announces(w) /\ workers'[w].job = j /\ workers'[w].version = v
    BY <2>1 DEF WorkersAnnounceNothing
  <2>3. workers[w].pc # "idle"
    BY <2>2 DEF Announces
  <2>4. j \in Jobs /\ v \in Nat /\ jobs[j] \in JobRow /\ jobs[j].status # "absent"
    BY <2>3, WorkerFacts
  <2>5. /\ jobs'[j].status \in Committable /\ ~jobs'[j].lapsed /\ jobs'[j].version = v
        /\ l \in Lots /\ s \in Steps /\ etapes'[l][s].run = j
    BY <2>1, <2>2 DEF Fenced, Current
  <2>6. Fenced(w) /\ l = jobs[j].lot /\ s = jobs[j].step =>
          artefacts[l][s] = {<<j, v>>}
    BY <2>2 DEF FInv, AnnouncedIsExposed
  <2> HIDE DEF j, v, l, s
  <2>7. CASE StepSame(l, s)
    <3>1. etapes[l][s].run = j /\ artefacts'[l][s] = artefacts[l][s] /\ j \in RowsOf(jobs, l, s)
      BY <1>1, <2>4, <2>5, <2>7 DEF StepSame
    <3>2. RowStays(j) /\ jobs[j].lot = l /\ jobs[j].step = s
      BY <2>4, <2>7, <3>1 DEF StepSame, RowsOf
    <3>3. jobs[j].status \in Committable /\ ~jobs[j].lapsed /\ jobs[j].version = v
      BY <2>5, <3>2 DEF RowStays, Committable
    <3>4. Fenced(w)
      BY <2>5, <3>1, <3>2, <3>3 DEF Fenced, Current, j, v
    <3> QED BY <2>2, <2>6, <3>1, <3>2, <3>4 DEF l, s
  <2>8. CASE StepMoved(l, s) \/ StepGone(l, s)
    BY <2>4, <2>5, <2>8 DEF StepMoved, StepGone
  <2>9. ASSUME NEW i \in Jobs, StepRan(l, s, i)
        PROVE  artefacts'[l][s] = {<<j, v>>}
    <3>1. i = j /\ etapes[l][s].run = j /\ artefacts'[l][s] = artefacts[l][s]
      BY <2>5, <2>9 DEF StepRan
    <3>2. j \in RowsOf(jobs, l, s)
      BY <2>4, <2>5, <3>1 DEF FInv, RunsAreRows
    <3>3. jobs[j].lot = l /\ jobs[j].step = s /\ jobs[j].status # "purged"
      <4>1. jobs[j].lot = l /\ jobs[j].step = s
        BY <3>2 DEF RowsOf
      <4> QED BY <2>9, <3>1, <4>1 DEF StepRan, Active
    <3>4. v <= jobs[j].version /\ jobs[j].version \in Nat
      BY <2>3, <2>4, <3>3 DEF IInv, LeasesAreNotAhead, JobRow, j, v
    <3>5. jobs[j].status \in Committable /\ ~jobs[j].lapsed /\ jobs[j].version = v
      BY <2>4, <2>5, <2>9, <3>1, <3>4 DEF StepRan
    <3>6. Fenced(w)
      BY <2>5, <3>1, <3>3, <3>5 DEF Fenced, Current, j, v
    <3> QED BY <2>6, <3>1, <3>3, <3>6
  <2> QED BY <2>2, <2>5, <2>7, <2>8, <2>9 DEF l, s
<1> QED BY <1>2, <1>3, <1>4, <1>5 DEF FInv
-----------------------------------------------------------------------------
\* A row that does not change.
LEMMA SameRow ==
  ASSUME NEW j \in Jobs, jobs'[j] = jobs[j]
  PROVE  RowStays(j)
BY DEF RowStays

\* At the start no step has a job.
LEMMA FInit == Init => FInv
<1> SUFFICES ASSUME Init
             PROVE  FInv
  OBVIOUS
<1> USE NullAssumption DEF Init
<1>1. StepTellsItsRun /\ RunsAreRows
  BY DEF StepTellsItsRun, RunsAreRows
<1>2. FinishedRunsSucceeded /\ FinishedStepExposesItsAttempt
  BY DEF FinishedRunsSucceeded, FinishedStepExposesItsAttempt
<1>3. AnnouncedIsExposed
  BY DEF AnnouncedIsExposed, Announces, Idle
<1> QED BY <1>1, <1>2, <1>3 DEF FInv

\* A request writes the steps s and S of one lot, and cancels only their jobs.
WritesSteps(l, S) ==
  /\ \A m \in Lots, t \in Steps :
       ~(m = l /\ t \in S) => etapes'[m][t] = etapes[m][t] /\ artefacts'[m][t] = artefacts[m][t]
  /\ \A i \in Jobs :
       jobs[i].status # "absent" /\ ~(jobs[i].lot = l /\ jobs[i].step \in S) => jobs'[i] = jobs[i]
  /\ \A t \in S : StepMoved(l, t)
  /\ UNCHANGED <<lots, workers>>

\* Such a request keeps the invariant.
LEMMA RequestStep ==
  ASSUME IInv, IInv', FInv, NEW l \in Lots, NEW S \in SUBSET Steps, WritesSteps(l, S)
  PROVE  FInv'
<1>1. WorkersAnnounceNothing /\ LotsStayClosed
  BY DEF WritesSteps, WorkersAnnounceNothing, Announces, LotsStayClosed, Open
<1>2. ASSUME NEW m \in Lots, NEW t \in Steps
      PROVE  StepSame(m, t) \/ StepMoved(m, t)
  <2>1. CASE m = l /\ t \in S
    BY <2>1 DEF WritesSteps
  <2>2. CASE ~(m = l /\ t \in S)
    <3>1. \A j \in RowsOf(jobs, m, t) : jobs[j].status # "absent" => jobs'[j] = jobs[j]
      BY <2>2 DEF WritesSteps, RowsOf
    <3>2. \A j \in RowsOf(jobs, m, t) : jobs[j].status # "absent" => RowStays(j)
      BY <3>1, SameRow DEF RowsOf
    <3> QED BY <2>2, <3>2 DEF WritesSteps, StepSame
  <2> QED BY <2>1, <2>2
<1> QED BY <1>1, <1>2, StoryStep

\* What invalidate_downstream and the cancellation of jobs leave alone.
LEMMA InvalidatedSteps ==
  ASSUME TypeOK, NEW l \in Lots, NEW S \in SUBSET Steps, NEW T \in SUBSET Steps
  PROVE  /\ \A m \in Lots, t \in Steps :
              StepsInvalidated(l, S)[m][t] =
                IF m = l /\ t \in S THEN [status |-> "invalide", run |-> None] ELSE etapes[m][t]
         /\ \A m \in Lots, t \in Steps :
              ~(m = l /\ t \in S) => ArtefactsObsolete(l, S)[m][t] = artefacts[m][t]
         /\ \A i \in Jobs :
              ~(jobs[i].lot = l /\ jobs[i].step \in T) => StepsCanceled(jobs, l, T)[i] = jobs[i]
BY DEF TypeOK, StepsInvalidated, ArtefactsObsolete, StepsCanceled

\* A request that queues j for step s writes the tables ks and es, which
\* differ from the present ones for the jobs of s and S and the steps of S.
QueuesFor(l, s, S, j, k, ks, es) ==
  /\ Fresh(j)
  /\ jobs' = [ks EXCEPT ![j] = QueuedRow(l, s, k)]
  /\ etapes' = [es EXCEPT ![l][s] = [status |-> "pret", run |-> j]]
  /\ \A m \in Lots, t \in Steps :
       m # l \/ t # s =>
         es[m][t] = IF m = l /\ t \in S THEN [status |-> "invalide", run |-> None]
                    ELSE etapes[m][t]
  /\ \A m \in Lots, t \in Steps :
       ~(m = l /\ t \in {s} \cup S) => artefacts'[m][t] = artefacts[m][t]
  /\ \A i \in Jobs : ~(jobs[i].lot = l /\ jobs[i].step \in {s} \cup S) => ks[i] = jobs[i]
  /\ UNCHANGED <<lots, workers>>

\* Such a request writes the steps s and S.
LEMMA QueuedStep ==
  ASSUME TypeOK, NEW l \in Lots, NEW s \in Steps, NEW S \in SUBSET Steps,
         NEW j \in Jobs, NEW k, NEW ks \in [Jobs -> JobRow],
         NEW es \in [Lots -> [Steps -> StepRow]], QueuesFor(l, s, S, j, k, ks, es)
  PROVE  WritesSteps(l, {s} \cup S)
<1> USE DEF QueuesFor
<1>1. jobs[j].status = "absent" /\ jobs'[j] = QueuedRow(l, s, k)
  BY DEF Fresh, Unused
<1>2. \A i \in Jobs : i # j => jobs'[i] = ks[i]
  OBVIOUS
<1>3. etapes'[l][s] = [status |-> "pret", run |-> j]
  OBVIOUS
<1>4. \A m \in Lots, t \in Steps : m # l \/ t # s => etapes'[m][t] = es[m][t]
  OBVIOUS
<1>5. StepMoved(l, s)
  BY <1>1, <1>3 DEF StepMoved, RowsOf, QueuedRow, NoRow
<1>6. ASSUME NEW t \in S, t # s
      PROVE  StepMoved(l, t)
  BY <1>4, <1>6 DEF StepMoved
<1> QED BY <1>1, <1>2, <1>4, <1>5, <1>6 DEF WritesSteps

\* Uploads, decisions, retries and package requests keep the invariant.
LEMMA RequestsKeep ==
  ASSUME IInv, IInv', FInv, NEW l \in Lots, NEW s \in Steps,
         Submit(l, s) \/ Reset(l, s) \/ \E k \in Keys : Retry(l, s, k) \/ Request(l, s, k)
  PROVE  FInv'
<1> DEFINE D == Downstream[s]
<1>1. TypeOK /\ D \in SUBSET Steps /\ {s} \cup D \in SUBSET Steps /\ {} \in SUBSET Steps
  BY DagAssumption DEF IInv
<1>2. jobs \in [Jobs -> JobRow] /\ etapes \in [Lots -> [Steps -> StepRow]]
  BY <1>1 DEF TypeOK
<1>3. \A S \in SUBSET Steps : StepsCanceled(jobs, l, S) \in [Jobs -> JobRow]
  BY <1>2, StepsCanceledRows
<1>4. \A S \in SUBSET Steps : StepsInvalidated(l, S) \in [Lots -> [Steps -> StepRow]]
  BY <1>1, InvalidatedTypes
<1> HIDE DEF D
<1>5. CASE Submit(l, s)
  <2>1. PICK j \in Jobs :
          /\ Fresh(j)
          /\ jobs' = [StepsCanceled(jobs, l, {s} \cup D) EXCEPT ![j] = QueuedRow(l, s, j)]
          /\ etapes' = [StepsInvalidated(l, {s} \cup D) EXCEPT
                          ![l][s] = [status |-> "pret", run |-> j]]
    BY <1>5 DEF Submit, D
  <2>2. artefacts' = ArtefactsObsolete(l, {s} \cup D) /\ UNCHANGED <<lots, workers>>
    BY <1>5 DEF Submit, D
  <2>3. /\ \A m \in Lots, t \in Steps :
             m # l \/ t # s =>
               StepsInvalidated(l, {s} \cup D)[m][t] =
                 IF m = l /\ t \in D THEN [status |-> "invalide", run |-> None] ELSE etapes[m][t]
        /\ \A m \in Lots, t \in Steps :
             ~(m = l /\ t \in {s} \cup D) => artefacts'[m][t] = artefacts[m][t]
        /\ \A i \in Jobs : ~(jobs[i].lot = l /\ jobs[i].step \in {s} \cup D) =>
             StepsCanceled(jobs, l, {s} \cup D)[i] = jobs[i]
    <3>1. /\ \A m \in Lots, t \in Steps :
               StepsInvalidated(l, {s} \cup D)[m][t] =
                 IF m = l /\ t \in {s} \cup D THEN [status |-> "invalide", run |-> None] ELSE etapes[m][t]
          /\ \A m \in Lots, t \in Steps :
               ~(m = l /\ t \in {s} \cup D) => artefacts'[m][t] = artefacts[m][t]
      BY <1>1, <2>2, InvalidatedSteps, SMTT(40)
    <3>2. \A i \in Jobs : ~(jobs[i].lot = l /\ jobs[i].step \in {s} \cup D) =>
            StepsCanceled(jobs, l, {s} \cup D)[i] = jobs[i]
      BY <1>1, InvalidatedSteps
    <3> QED BY <3>1, <3>2
  <2>4. WritesSteps(l, {s} \cup D)
    <3> DEFINE ks == StepsCanceled(jobs, l, {s} \cup D)
               es == StepsInvalidated(l, {s} \cup D)
    <3>1. ks \in [Jobs -> JobRow] /\ es \in [Lots -> [Steps -> StepRow]]
      BY <1>1, <1>3, <1>4
    <3>2. QueuesFor(l, s, D, j, j, ks, es)
      BY <2>1, <2>2, <2>3 DEF QueuesFor
    <3> HIDE DEF ks, es
    <3> QED BY ONLY <1>1, <3>1, <3>2, QueuedStep
  <2> QED BY <1>1, <2>4, RequestStep
<1>6. CASE Reset(l, s)
  <2>1. /\ jobs' = StepsCanceled(jobs, l, {s} \cup D)
        /\ etapes' = StepsInvalidated(l, {s} \cup D)
        /\ artefacts' = ArtefactsObsolete(l, {s} \cup D) /\ UNCHANGED <<lots, workers>>
    BY <1>6 DEF Reset, D
  <2>2. /\ \A m \in Lots, t \in Steps :
             etapes'[m][t] = IF m = l /\ t \in {s} \cup D
                             THEN [status |-> "invalide", run |-> None] ELSE etapes[m][t]
        /\ \A m \in Lots, t \in Steps :
             ~(m = l /\ t \in {s} \cup D) => artefacts'[m][t] = artefacts[m][t]
        /\ \A i \in Jobs : ~(jobs[i].lot = l /\ jobs[i].step \in {s} \cup D) => jobs'[i] = jobs[i]
    BY <1>1, <2>1, InvalidatedSteps
  <2>3. \A t \in {s} \cup D : StepMoved(l, t)
    BY <1>1, <2>2 DEF StepMoved
  <2>4. WritesSteps(l, {s} \cup D)
    BY <2>1, <2>2, <2>3 DEF WritesSteps
  <2> QED BY <1>1, <2>4, RequestStep
<1>7. ASSUME NEW k \in Keys, Retry(l, s, k)
      PROVE  FInv'
  <2>1. PICK j \in Jobs :
          /\ Fresh(j)
          /\ jobs' = [StepsCanceled(jobs, l, {s} \cup D) EXCEPT ![j] = QueuedRow(l, s, k)]
          /\ etapes' = [StepsInvalidated(l, D) EXCEPT ![l][s] = [status |-> "pret", run |-> j]]
    BY <1>7 DEF Retry, D
  <2>2. artefacts' = ArtefactsObsolete(l, D) /\ UNCHANGED <<lots, workers>>
    BY <1>7 DEF Retry, D
  <2>3. /\ \A m \in Lots, t \in Steps :
             StepsInvalidated(l, D)[m][t] =
               IF m = l /\ t \in D THEN [status |-> "invalide", run |-> None] ELSE etapes[m][t]
        /\ \A m \in Lots, t \in Steps :
             ~(m = l /\ t \in {s} \cup D) => artefacts'[m][t] = artefacts[m][t]
        /\ \A i \in Jobs : ~(jobs[i].lot = l /\ jobs[i].step \in {s} \cup D) =>
             StepsCanceled(jobs, l, {s} \cup D)[i] = jobs[i]
    <3>1. /\ \A m \in Lots, t \in Steps :
               StepsInvalidated(l, D)[m][t] =
                 IF m = l /\ t \in D THEN [status |-> "invalide", run |-> None] ELSE etapes[m][t]
          /\ \A m \in Lots, t \in Steps :
               ~(m = l /\ t \in D) => artefacts'[m][t] = artefacts[m][t]
      BY <1>1, <2>2, InvalidatedSteps
    <3>2. \A i \in Jobs : ~(jobs[i].lot = l /\ jobs[i].step \in {s} \cup D) =>
            StepsCanceled(jobs, l, {s} \cup D)[i] = jobs[i]
      BY <1>1, InvalidatedSteps
    <3> QED BY <3>1, <3>2
  <2>4. WritesSteps(l, {s} \cup D)
    <3> DEFINE ks == StepsCanceled(jobs, l, {s} \cup D)
               es == StepsInvalidated(l, D)
    <3>1. ks \in [Jobs -> JobRow] /\ es \in [Lots -> [Steps -> StepRow]]
      BY <1>1, <1>3, <1>4
    <3>2. QueuesFor(l, s, D, j, k, ks, es)
      BY <2>1, <2>2, <2>3 DEF QueuesFor
    <3> HIDE DEF ks, es
    <3> QED BY ONLY <1>1, <3>1, <3>2, QueuedStep
  <2> QED BY <1>1, <2>4, RequestStep
<1>8. ASSUME NEW k \in Keys, Request(l, s, k)
      PROVE  FInv'
  <2>1. PICK j \in Jobs :
          /\ Fresh(j)
          /\ jobs' = [jobs EXCEPT ![j] = QueuedRow(l, s, k)]
          /\ etapes' = [etapes EXCEPT ![l][s] = [status |-> "pret", run |-> j]]
    BY <1>8 DEF Request
  <2>2. UNCHANGED <<lots, artefacts, workers>>
    BY <1>8 DEF Request
  <2>3. QueuesFor(l, s, {}, j, k, jobs, etapes)
    BY <2>1, <2>2 DEF QueuesFor
  <2>4. WritesSteps(l, {s} \cup {})
    BY <1>1, <1>2, <2>3, QueuedStep
  <2> QED BY <1>1, <2>4, RequestStep
<1> QED BY <1>5, <1>6, <1>7, <1>8

-----------------------------------------------------------------------------
\* The expiry of leases lets every row stay; so does the cancellation of the
\* queued jobs of a lot that closes.
OutOfQueue(js, l) ==
  \A i \in Jobs :
    /\ js[i].lot = jobs[i].lot /\ js[i].step = jobs[i].step
    /\ js[i].version = jobs[i].version
    /\ \/ js[i].status = jobs[i].status /\ (jobs[i].lapsed => js[i].lapsed)
       \/ jobs[i].status \in Committable /\ js[i].status = "expired"
       \/ jobs[i].status = "queued" /\ js[i].status = "canceled" /\ jobs[i].lot = l

\* The expiry only takes jobs of lapsed leases out.
LEMMA ExpiredStay ==
  ASSUME jobs \in [Jobs -> JobRow], NEW i \in Jobs
  PROVE  /\ Expired(jobs)[i].lot = jobs[i].lot /\ Expired(jobs)[i].step = jobs[i].step
         /\ Expired(jobs)[i].version = jobs[i].version
         /\ \/ Expired(jobs)[i] = jobs[i]
            \/ jobs[i].status \in Committable /\ Expired(jobs)[i].status = "expired"
BY DEF Expired, JobRow

\* The tables of DELETE and of the purge before the lot goes.
LEMMA OutOfQueueRows ==
  ASSUME jobs \in [Jobs -> JobRow], NEW l \in Lots
  PROVE  /\ OutOfQueue(QueueCanceled(Expired(jobs), l), l)
         /\ OutOfQueue(Expired(QueueCanceled(jobs, l)), l)
<1>1. OutOfQueue(QueueCanceled(Expired(jobs), l), l)
  BY DEF OutOfQueue, QueueCanceled, Expired, JobRow, Committable
<1>2. OutOfQueue(Expired(QueueCanceled(jobs, l)), l)
  BY DEF OutOfQueue, QueueCanceled, Expired, JobRow, Committable
<1> QED BY <1>1, <1>2

\* A step that moves rows only, if at all, out of the queue.
LEMMA RowsOnlyStep ==
  ASSUME IInv, IInv', FInv, WorkersAnnounceNothing, LotsStayClosed,
         UNCHANGED <<etapes, artefacts>>, \A i \in Jobs : RowStays(i)
  PROVE  FInv'
<1>1. \A l \in Lots, s \in Steps : StepSame(l, s)
  BY DEF StepSame, RowsOf
<1> QED BY <1>1, StoryStep

\* The clock and a request to cancel keep the invariant.
LEMMA ClockKeeps ==
  ASSUME IInv, IInv', FInv,
         \/ Sweep
         \/ \E l \in Lots : RequestCancel(l)
         \/ \E j \in Jobs : OrphanLapses(j) \/ HeldLapses(j)
  PROVE  FInv'
<1>1. jobs \in [Jobs -> JobRow] /\ lots \in [Lots -> LotRow]
  BY DEF IInv, TypeOK
<1>2. UNCHANGED <<etapes, artefacts, workers>>
  BY DEF Sweep, RequestCancel, OrphanLapses, HeldLapses, LapsedNow
<1>3. WorkersAnnounceNothing
  BY <1>2 DEF WorkersAnnounceNothing, Announces
<1>4. LotsStayClosed
  BY <1>1 DEF LotsStayClosed, Open, Sweep, RequestCancel, OrphanLapses, HeldLapses, LapsedNow, LotRow
<1>5. CASE Sweep
  <2>1. \A i \in Jobs : RowStays(i)
    BY <1>1, <1>5, ExpiredStay DEF Sweep, RowStays
  <2> QED BY <1>2, <1>3, <1>4, <2>1, RowsOnlyStep
<1>6. CASE \E l \in Lots : RequestCancel(l)
  BY <1>6, <1>2, <1>3, <1>4, SameRow, RowsOnlyStep DEF RequestCancel
<1>7. ASSUME NEW j \in Jobs, OrphanLapses(j) \/ HeldLapses(j)
      PROVE  FInv'
  <2>1. jobs' = [jobs EXCEPT ![j].lapsed = TRUE]
    BY <1>7 DEF OrphanLapses, HeldLapses, LapsedNow
  <2>2. \A i \in Jobs : RowStays(i)
    BY <1>1, <2>1 DEF RowStays, JobRow
  <2> QED BY <1>2, <1>3, <1>4, <2>2, RowsOnlyStep
<1> QED BY <1>5, <1>6, <1>7

\* DELETE and the purge keep the invariant, done or deferred.
LEMMA DeleteKeeps ==
  ASSUME IInv, IInv', FInv, NEW l \in Lots, Delete(l) \/ Purge(l)
  PROVE  FInv'
<1>1. jobs \in [Jobs -> JobRow] /\ lots \in [Lots -> LotRow]
      /\ etapes \in [Lots -> [Steps -> StepRow]]
      /\ artefacts \in [Lots -> [Steps -> SUBSET (Jobs \X Nat)]]
  BY DEF IInv, TypeOK
<1>2. PICK js :
        /\ OutOfQueue(js, l)
        /\ \/ Purged(js, l)
           \/ /\ jobs' = js
              /\ \/ lots' = [lots EXCEPT ![l].status = "supprime"]
                 \/ UNCHANGED lots /\ lots[l].status = "supprime"
              /\ UNCHANGED <<etapes, artefacts>>
  BY <1>1, OutOfQueueRows DEF Delete, Purge
<1>3. UNCHANGED workers
  BY DEF Delete, Purge
<1>4. WorkersAnnounceNothing
  BY <1>3 DEF WorkersAnnounceNothing, Announces
<1>5. /\ lots'[l].status \in Blocked
      /\ \A m \in Lots : m # l => lots'[m] = lots[m]
  BY <1>1, <1>2 DEF Purged, Blocked, LotRow
<1>6. LotsStayClosed
  BY <1>5 DEF LotsStayClosed, Open
<1>7. CASE ~Purged(js, l)
  <2>1. \A i \in Jobs : RowStays(i)
    BY <1>2, <1>5, <1>7 DEF OutOfQueue, RowStays
  <2> QED BY <1>2, <1>4, <1>6, <1>7, <2>1, RowsOnlyStep
<1>8. CASE Purged(js, l)
  <2>1. \A i \in Jobs : jobs[i].lot # l => jobs'[i] = js[i]
    BY <1>2, <1>8 DEF Purged, OutOfQueue
  <2>2. \A i \in Jobs : jobs[i].lot # l => RowStays(i)
    BY <1>2, <2>1 DEF OutOfQueue, RowStays
  <2>3. /\ \A m \in Lots : m # l => etapes'[m] = etapes[m] /\ artefacts'[m] = artefacts[m]
        /\ \A s \in Steps : etapes'[l][s] = [status |-> "purge", run |-> None]
    BY <1>1, <1>8 DEF Purged
  <2>4. ASSUME NEW m \in Lots, NEW s \in Steps
        PROVE  StepSame(m, s) \/ StepGone(m, s)
    <3>1. CASE m = l
      BY <1>5, <2>3, <3>1 DEF StepGone, Open
    <3>2. CASE m # l
      BY <2>2, <2>3, <3>2 DEF StepSame, RowsOf
    <3> QED BY <3>1, <3>2
  <2> QED BY <1>4, <1>6, <2>4, StoryStep
<1> QED BY <1>7, <1>8

-----------------------------------------------------------------------------
\* One job moves with its step, and nothing else but workers and the lot.
OneJobRan(j, l, s) ==
  /\ j \in RowsOf(jobs, l, s)
  /\ \A m \in Lots, t \in Steps : ~(m = l /\ t = s) => etapes'[m][t] = etapes[m][t]
  /\ UNCHANGED artefacts
  /\ \A i \in Jobs : i # j => RowStays(i)
  /\ StepRan(l, s, j)

\* Such a step keeps the invariant.
LEMMA OneJobStep ==
  ASSUME IInv, IInv', FInv, WorkersAnnounceNothing, LotsStayClosed,
         NEW l \in Lots, NEW s \in Steps, NEW j \in Jobs, OneJobRan(j, l, s)
  PROVE  FInv'
<1>1. ASSUME NEW m \in Lots, NEW t \in Steps
      PROVE  StepSame(m, t) \/ StepRan(m, t, j)
  <2>1. CASE m = l /\ t = s
    BY <2>1 DEF OneJobRan
  <2>2. CASE ~(m = l /\ t = s)
    <3>1. \A i \in RowsOf(jobs, m, t) : i # j
      BY <2>2 DEF OneJobRan, RowsOf
    <3>2. \A i \in RowsOf(jobs, m, t) : RowStays(i)
      BY <3>1 DEF OneJobRan, RowsOf
    <3> QED BY <2>2, <3>2 DEF OneJobRan, StepSame
  <2> QED BY <2>1, <2>2
<1> QED BY <1>1, StoryStep

\* In an open lot a step tells the state of its run.
LEMMA OpenTells ==
  ASSUME FInv, NEW l \in Lots, NEW s \in Steps, Open(l)
  PROVE  Tells(l, s)
<1>1. StepTellsItsRun
  BY DEF FInv
<1> QED BY <1>1, Zenon DEF StepTellsItsRun, Tells, Story

\* An acquisition takes a job its step still waits for.
LEMMA AcquireKeeps ==
  ASSUME IInv, IInv', FInv, NEW w \in Workers, Acquire(w)
  PROVE  FInv'
<1> DEFINE js == Expired(jobs)
<1>1. /\ jobs \in [Jobs -> JobRow] /\ workers \in [Workers -> WorkerState]
      /\ js \in [Jobs -> JobRow]
  BY ExpiredRows DEF IInv, TypeOK
<1>2. PICK j \in Eligible(js) :
        /\ jobs' = [js EXCEPT ![j].status = "leased", ![j].lapsed = FALSE,
                              ![j].version = NextVersion(j)]
        /\ workers' = [workers EXCEPT ![w] =
             [pc |-> "leased", job |-> j, version |-> NextVersion(j),
              published |-> FALSE]]
  BY DEF Acquire
<1>3. UNCHANGED <<lots, etapes, artefacts>>
  BY DEF Acquire
<1>4. \A i \in Jobs :
        /\ js[i].lot = jobs[i].lot /\ js[i].step = jobs[i].step
        /\ js[i].version = jobs[i].version
        /\ js[i] = jobs[i] \/ (jobs[i].status \in Committable /\ js[i].status = "expired")
  BY <1>1, ExpiredStay
<1> HIDE DEF js
<1>5. /\ j \in Jobs /\ js[j].status \in {"queued", "expired"} /\ Open(jobs[j].lot)
      /\ etapes[jobs[j].lot][jobs[j].step].run = j
      /\ etapes[jobs[j].lot][jobs[j].step].status \notin {"annule", "termine", "bloque"}
  BY <1>4 DEF Eligible
<1>6. jobs[j].status \in Active \cup {"expired"}
  BY <1>4, <1>5 DEF Active, Committable
<1>7. PICK l \in Lots, s \in Steps : l = jobs[j].lot /\ s = jobs[j].step
  BY <1>5, <1>6 DEF IInv, RowsHaveSteps, Active
<1>8. /\ jobs'[j].lot = l /\ jobs'[j].step = s /\ jobs'[j].status = "leased"
      /\ jobs'[j].version = jobs[j].version + 1 /\ jobs[j].version \in Nat
      /\ \A i \in Jobs : i # j => jobs'[i] = js[i]
  BY <1>1, <1>2, <1>4, <1>5, <1>7 DEF JobRow, NextVersion
<1>9. \A i \in Jobs : i # j => RowStays(i)
  BY <1>4, <1>8 DEF RowStays
<1>10. etapes[l][s].status \in {"pret", "en_cours"}
  <2>1. Open(l) /\ etapes[l][s].run = j
    BY <1>5, <1>7
  <2>2. Tells(l, s)
    BY <2>1, OpenTells
  <2>3. j # None /\ j # UserRun
    BY <1>5, NullAssumption
  <2>4. Story(etapes[l][s].status, jobs[j].status)
    BY <2>1, <2>2, <2>3, Zenon DEF Tells
  <2> QED BY <1>6, <2>4 DEF Story, Active
<1>11. StepRan(l, s, j)
  <2>1. j \in RowsOf(jobs', l, s)
    BY <1>5, <1>8 DEF RowsOf
  <2>2. UNCHANGED <<etapes, artefacts>> /\ etapes[l][s].run = j
    BY <1>3, <1>5, <1>7
  <2>3. Story(etapes[l][s].status, "leased")
    BY <1>10 DEF Story
  <2> QED BY <1>6, <1>8, <1>10, <2>1, <2>2, <2>3 DEF StepRan
<1>12. WorkersAnnounceNothing /\ LotsStayClosed
  BY <1>1, <1>2, <1>3 DEF WorkersAnnounceNothing, Announces, LotsStayClosed, Open
<1>13. OneJobRan(j, l, s)
  BY <1>3, <1>5, <1>7, <1>9, <1>11 DEF OneJobRan, RowsOf
<1> QED BY <1>5, <1>12, <1>13, OneJobStep

-----------------------------------------------------------------------------
\* A worker that moves announces what it published, or nothing.
LEMMA WorkerAnnounces ==
  ASSUME IInv, NEW w \in Workers,
         \/ \E pc \in {"started", "handler", "bloque", "echoue", "annule"} : Goto(w, pc)
         \/ Goto(w, "termine") /\ Announces(w)
         \/ Stop(w)
  PROVE  WorkersAnnounceNothing
<1>1. workers \in [Workers -> WorkerState]
  BY DEF IInv, TypeOK
<1>2. CASE Stop(w)
  BY <1>1, <1>2 DEF Stop, Idle, WorkersAnnounceNothing, Announces
<1>3. CASE Goto(w, "termine") /\ Announces(w)
  BY <1>1, <1>3 DEF Goto, WorkerState, WorkersAnnounceNothing, Announces
<1>4. ASSUME NEW pc \in {"started", "handler", "bloque", "echoue", "annule"}, Goto(w, pc)
      PROVE  WorkersAnnounceNothing
  <2>1. workers'[w].pc = pc /\ workers'[w].published = FALSE
        /\ \A v \in Workers : v # w => workers'[v] = workers[v]
    BY <1>1, <1>4 DEF Goto, WorkerState
  <2> QED BY <2>1 DEF WorkersAnnounceNothing, Announces
<1> QED BY <1>2, <1>3, <1>4

\* A worker that only moves.
LEMMA MoveKeeps ==
  ASSUME IInv, IInv', FInv, WorkersAnnounceNothing, UNCHANGED <<lots, etapes, jobs, artefacts>>
  PROVE  FInv'
BY SameRow, RowsOnlyStep DEF LotsStayClosed, Open

\* The end of a job by its current worker, or its start: row and step of the
\* job get the statuses js and st, which tell the same or are of a closed lot.
EndsWith(w, js, st) ==
  LET j == workers[w].job
      l == jobs[j].lot IN
  /\ workers[w].pc # "idle" /\ Fenced(w)
  /\ jobs' = [jobs EXCEPT ![j].status = js]
  /\ \/ /\ etapes' = [etapes EXCEPT ![l][jobs[j].step].status = st]
        /\ Story(st, js) \/ lots'[l].status \in Blocked
     \/ UNCHANGED etapes /\ lots'[l].status \in Blocked
  /\ UNCHANGED artefacts

\* Such an end keeps the invariant.
LEMMA OutcomeKeeps ==
  ASSUME IInv, IInv', FInv, NEW w \in Workers, WorkersAnnounceNothing, LotsStayClosed,
         NEW js \in {"running", "succeeded", "failed", "canceled"},
         NEW st \in {"en_cours", "bloque", "echoue", "annule"}, EndsWith(w, js, st)
  PROVE  FInv'
<1> DEFINE j == workers[w].job
<1>1. /\ jobs \in [Jobs -> JobRow] /\ etapes \in [Lots -> [Steps -> StepRow]]
      /\ j \in Jobs /\ Fenced(w)
  BY WorkerFacts DEF IInv, TypeOK, EndsWith
<1>2. PICK l \in Lots, s \in Steps :
        l = jobs[j].lot /\ s = jobs[j].step /\ etapes[l][s].run = j
  BY <1>1 DEF Fenced, Current
<1>3. jobs[j].status \in Committable /\ ~jobs[j].lapsed
  BY <1>1 DEF Fenced
<1>4. /\ jobs' = [jobs EXCEPT ![j].status = js]
      /\ \/ /\ etapes' = [etapes EXCEPT ![l][s].status = st]
            /\ Story(st, js) \/ lots'[l].status \in Blocked
         \/ UNCHANGED etapes /\ lots'[l].status \in Blocked
      /\ UNCHANGED artefacts
  BY <1>2, Zenon DEF EndsWith
<1> HIDE DEF j
<1>5. /\ jobs'[j].lot = l /\ jobs'[j].step = s /\ jobs'[j].status = js
      /\ jobs'[j].version = jobs[j].version /\ jobs'[j].lapsed = jobs[j].lapsed
      /\ \A i \in Jobs : i # j => jobs'[i] = jobs[i]
  BY <1>4, <1>1, <1>2 DEF JobRow
<1>6. \A m \in Lots, t \in Steps : ~(m = l /\ t = s) => etapes'[m][t] = etapes[m][t]
  BY <1>4, <1>1, <1>2
<1>7. etapes[l][s].status # "termine"
  BY <1>2, <1>3 DEF FInv, FinishedRunsSucceeded, Committable
<1>8. /\ etapes'[l][s].run = j
      /\ etapes'[l][s].status # "termine"
      /\ Open(l)' => Story(etapes'[l][s].status, js)
  <2>1. etapes[l][s] \in StepRow
    BY <1>1
  <2>2. CASE UNCHANGED etapes /\ lots'[l].status \in Blocked
    BY <1>2, <1>7, <2>2 DEF Open
  <2>3. CASE /\ etapes' = [etapes EXCEPT ![l][s].status = st]
             /\ Story(st, js) \/ lots'[l].status \in Blocked
    BY <1>1, <1>2, <2>1, <2>3 DEF StepRow, Open
  <2> QED BY <1>4, <2>2, <2>3
<1>9. StepRan(l, s, j)
  BY <1>4, <1>1, <1>2, <1>3, <1>5, <1>8 DEF StepRan, Open, RowsOf, Committable, Active
<1>10. OneJobRan(j, l, s)
  BY <1>4, <1>1, <1>2, <1>5, <1>6, <1>9, SameRow, SMTT(40) DEF OneJobRan, RowsOf
<1> QED BY <1>1, <1>10, OneJobStep

\* A publication is that of the only worker whose lease is current, for a step
\* that is not finished.
LEMMA PublishKeeps ==
  ASSUME IInv, IInv', FInv, NEW w \in Workers, Publish(w)
  PROVE  FInv'
<1> DEFINE j == workers[w].job
           v == workers[w].version
<1>1. /\ workers[w].pc = "handler" /\ Fenced(w)
      /\ artefacts' = [artefacts EXCEPT ![jobs[j].lot][jobs[j].step] = {<<j, v>>}]
      /\ workers' = [workers EXCEPT ![w].published = TRUE]
  BY Zenon DEF Publish
<1>2. UNCHANGED <<lots, etapes, jobs>>
  BY Zenon DEF Publish
<1>3. /\ workers \in [Workers -> WorkerState]
      /\ artefacts \in [Lots -> [Steps -> SUBSET (Jobs \X Nat)]]
      /\ j \in Jobs
  BY <1>1, WorkerFacts DEF IInv, TypeOK
<1>4. jobs[j].status \in Committable /\ jobs[j].version = v
  BY <1>1 DEF Fenced
<1>5. PICK l \in Lots, s \in Steps :
        l = jobs[j].lot /\ s = jobs[j].step /\ etapes[l][s].run = j
  BY <1>1 DEF Fenced, Current
<1>6. /\ workers'[w].job = j /\ workers'[w].version = v
      /\ \A u \in Workers : u # w => workers'[u] = workers[u]
  BY <1>1, <1>3 DEF WorkerState
<1> HIDE DEF j, v
<1>7. /\ artefacts'[l][s] = {<<j, v>>}
      /\ \A m \in Lots, t \in Steps : ~(m = l /\ t = s) => artefacts'[m][t] = artefacts[m][t]
  BY <1>1, <1>3, <1>5
<1>8. StepTellsItsRun' /\ RunsAreRows' /\ FinishedRunsSucceeded'
  BY <1>2 DEF FInv, StepTellsItsRun, RunsAreRows, FinishedRunsSucceeded, Open, RowsOf
<1>9. FinishedStepExposesItsAttempt'
  <2>1. etapes[l][s].status # "termine"
    BY <1>4, <1>5 DEF FInv, FinishedRunsSucceeded, Committable
  <2> QED BY <1>2, <1>7, <2>1 DEF FInv, FinishedStepExposesItsAttempt
<1>10. AnnouncedIsExposed'
  <2>1. SUFFICES ASSUME NEW u \in Workers, Announces(u)', Fenced(u)'
                 PROVE  artefacts'[jobs'[workers'[u].job].lot][jobs'[workers'[u].job].step]
                          = {<<workers'[u].job, workers'[u].version>>}
    BY DEF AnnouncedIsExposed
  <2>2. CASE u = w
    BY <1>2, <1>5, <1>6, <1>7, <2>2
  <2>3. CASE u # w
    <3> DEFINE i == workers[u].job
    <3>1. workers'[u] = workers[u]
      BY <1>6, <2>3
    <3>2. Announces(u) /\ Fenced(u)
      BY <1>2, <2>1, <3>1 DEF Announces, Fenced, Current
    <3>3. /\ artefacts[jobs[i].lot][jobs[i].step] = {<<i, workers[u].version>>}
          /\ jobs[i].version = workers[u].version
      BY <3>2 DEF FInv, AnnouncedIsExposed, Fenced
    <3>4. PICK m \in Lots, t \in Steps :
            m = jobs[i].lot /\ t = jobs[i].step /\ etapes[m][t].run = i
      BY <3>2 DEF Fenced, Current
    <3>5. ~(m = l /\ t = s)
      <4>1. SUFFICES ASSUME m = l, t = s
                     PROVE  FALSE
        OBVIOUS
      <4>2. i = j /\ workers[u].version = v
        BY <1>4, <1>5, <3>3, <3>4, <4>1
      <4>3. workers[u].pc # "idle"
        BY <3>2 DEF Announces
      <4> QED BY <1>1, <2>3, <4>2, <4>3 DEF IInv, LeasesAreFenced, j, v
    <3>6. artefacts'[m][t] = {<<i, workers[u].version>>}
      BY <1>7, <3>3, <3>4, <3>5, Zenon
    <3> QED BY <1>2, <3>1, <3>4, <3>6, Zenon
  <2> QED BY <2>2, <2>3
<1> QED BY <1>8, <1>9, <1>10 DEF FInv

\* The successful end of a job queues or hands over the steps after it, and
\* its own step shows what its worker published.
LEMMA FinishKeeps ==
  ASSUME IInv, IInv', FInv, NEW w \in Workers, FinishSuccess(w)
  PROVE  FInv'
<1> USE DagAssumption, NullAssumption
<1> DEFINE j == workers[w].job
           l == jobs[j].lot
           s == jobs[j].step
<1>1. /\ workers[w].pc = "termine" /\ Owned(w) /\ Stop(w)
      /\ UNCHANGED <<lots, artefacts>>
  BY DEF FinishSuccess
<1>2. j \in Jobs /\ jobs[j] \in JobRow /\ TypeOK
  BY <1>1, WorkerFacts DEF IInv
<1>3. /\ l \in Lots /\ s \in Steps /\ etapes[l][s].run = j
      /\ jobs[j].status \in Committable /\ ~jobs[j].lapsed
      /\ artefacts[l][s] = {<<j, jobs[j].version>>}
  BY <1>1, Zenon DEF Owned, Fenced, Current, FInv, AnnouncedIsExposed, Announces
<1>4. PICK ready \in SUBSET Enqueues[s] :
        LET Q == {t \in ready : ActiveOf(jobs, l, t) = {}} IN
        \E id \in Numberings(Q) :
          /\ jobs' = RowsFinished(j, l, Q, id)
          /\ etapes' = StepsFinished(l, s, Q, id)
  BY DEF FinishSuccess
<1> DEFINE Q == {t \in ready : ActiveOf(jobs, l, t) = {}}
<1>5. PICK id \in Numberings(Q) :
        jobs' = RowsFinished(j, l, Q, id) /\ etapes' = StepsFinished(l, s, Q, id)
  BY <1>4
<1> HIDE DEF j, l, s
<1>6. Q \in SUBSET Steps /\ s \notin Q /\ s \notin Validates[s]
  <2>1. /\ Enqueues[s] \in SUBSET Steps /\ s \notin Enqueues[s]
        /\ s \notin Validates[s]
    BY <1>3
  <2>2. Q \subseteq ready /\ ready \subseteq Enqueues[s]
    BY <1>4
  <2> QED BY <2>1, <2>2
<1> HIDE DEF Q
<1>7. \A t \in Q : id[t] \in Jobs /\ jobs[id[t]].status = "absent"
  BY <1>5 DEF Numberings, Unused
<1>8. /\ jobs'[j] = [jobs[j] EXCEPT !.status = "succeeded"]
      /\ \A t \in Q : jobs'[id[t]] = QueuedRow(l, t, j)
      /\ \A i \in Jobs : i # j /\ (\A t \in Q : id[t] # i) => jobs'[i] = jobs[i]
  BY <1>2, <1>3, <1>5, <1>6, RowsFinishedRows
<1>9. /\ etapes'[l][s] = [etapes[l][s] EXCEPT !.status = "termine"]
      /\ \A t \in Q : etapes'[l][t] = [status |-> "pret", run |-> id[t]]
      /\ \A t \in Validates[s] \ Q :
           etapes'[l][t] = [status |-> "action_requise", run |-> UserRun]
      /\ \A m \in Lots, t \in Steps :
           ~(m = l /\ t \in {s} \cup Q \cup Validates[s]) => etapes'[m][t] = etapes[m][t]
  <2>1. etapes \in [Lots -> [Steps -> StepRow]] /\ Validates[s] \subseteq Steps
    BY <1>2, <1>3 DEF TypeOK
  <2> QED BY <1>3, <1>5, <1>6, <2>1 DEF StepsFinished
<1>10. WorkersAnnounceNothing /\ LotsStayClosed
  BY <1>1, WorkerAnnounces DEF LotsStayClosed, Open
<1>11. StepRan(l, s, j)
  <2>1. etapes[l][s] \in StepRow
    BY <1>2, <1>3 DEF TypeOK
  <2>2. etapes'[l][s].status = "termine" /\ etapes'[l][s].run = j
    BY <1>3, <1>9, <2>1 DEF StepRow
  <2>3. /\ jobs'[j].status = "succeeded" /\ jobs'[j].version = jobs[j].version
        /\ jobs'[j].lot = l /\ jobs'[j].step = s
    BY <1>2, <1>8 DEF JobRow, l, s
  <2> QED BY <1>1, <1>2, <1>3, <2>2, <2>3 DEF StepRan, RowsOf, Story, Committable, Active
<1>12. ASSUME NEW t \in Q
       PROVE  StepMoved(l, t)
  <2>1. jobs'[id[t]] = QueuedRow(l, t, j)
    BY <1>8
  <2>2. jobs'[id[t]].lot = l /\ jobs'[id[t]].step = t /\ jobs'[id[t]].status = "queued"
    BY <2>1 DEF QueuedRow, NoRow
  <2>3. etapes'[l][t] = [status |-> "pret", run |-> id[t]]
    BY <1>9
  <2>4. id[t] \in Jobs /\ jobs[id[t]].status = "absent"
    BY <1>7
  <2> QED BY <2>2, <2>3, <2>4 DEF StepMoved, RowsOf
<1>13. ASSUME NEW t \in Validates[s] \ Q
       PROVE  StepMoved(l, t)
  BY <1>9 DEF StepMoved
<1>14. ASSUME NEW m \in Lots, NEW t \in Steps, ~(m = l /\ t \in {s} \cup Q \cup Validates[s])
       PROVE  StepSame(m, t)
  <2>1. \A i \in RowsOf(jobs, m, t) : i # j
    BY <1>14 DEF RowsOf, l, s
  <2>2. \A i \in RowsOf(jobs, m, t) : jobs[i].status # "absent" => jobs'[i] = jobs[i]
    BY <1>7, <1>8, <2>1 DEF RowsOf
  <2>3. \A i \in RowsOf(jobs, m, t) : jobs[i].status # "absent" => RowStays(i)
    BY <2>2, SameRow DEF RowsOf
  <2> QED BY <1>1, <1>9, <1>14, <2>3 DEF StepSame
<1>15. \A m \in Lots, t \in Steps :
         StepSame(m, t) \/ StepMoved(m, t) \/ \E i \in Jobs : StepRan(m, t, i)
  BY <1>2, <1>11, <1>12, <1>13, <1>14
<1>16. \A m \in Lots, t \in Steps :
         StepSame(m, t) \/ StepMoved(m, t) \/ StepGone(m, t) \/ \E i \in Jobs : StepRan(m, t, i)
  BY <1>15
<1> QED BY ONLY IInv, IInv', FInv, <1>10, <1>16, StoryStep

\* Every step of a worker cycle keeps the invariant.
LEMMA CycleKeeps ==
  ASSUME IInv, IInv', FInv, NEW w \in Workers, Cycle(w) \/ Crash(w)
  PROVE  FInv'
<1>1. CASE \/ HandlerBegins(w) \/ HandlerReturns(w, "termine") \/ HandlerReturns(w, "bloque")
           \/ HandlerRaises(w) \/ HandlerCanceled(w) \/ LeaseLost(w) \/ Rejected(w) \/ Crash(w)
  <2>1. /\ UNCHANGED <<lots, etapes, jobs, artefacts>>
        /\ \/ \E pc \in {"started", "handler", "bloque", "echoue", "annule"} : Goto(w, pc)
           \/ Goto(w, "termine") /\ Announces(w)
           \/ Stop(w)
    BY <1>1 DEF HandlerBegins, HandlerReturns, HandlerRaises, HandlerCanceled, LeaseLost,
                Rejected, Crash, Announces
  <2> QED BY <2>1, WorkerAnnounces, MoveKeeps
<1>2. CASE Start(w)
  <2>1. WorkersAnnounceNothing /\ LotsStayClosed
    <3>1. Goto(w, "started") /\ UNCHANGED lots
      BY <1>2, Zenon DEF Start
    <3> QED BY <3>1, WorkerAnnounces DEF LotsStayClosed, Open
  <2>2. Story("en_cours", "running")
    BY DEF Story
  <2>3. EndsWith(w, "running", "en_cours")
    BY <1>2, <2>2, Zenon DEF EndsWith, Start, Owned
  <2> QED BY <2>1, <2>3, OutcomeKeeps
<1>3. CASE FinishBlocked(w)
  <2>1. WorkersAnnounceNothing /\ LotsStayClosed
    <3>1. Stop(w) /\ UNCHANGED lots
      BY <1>3, Zenon DEF FinishBlocked
    <3> QED BY <3>1, WorkerAnnounces DEF LotsStayClosed, Open
  <2>2. Story("bloque", "succeeded")
    BY DEF Story
  <2>3. EndsWith(w, "succeeded", "bloque")
    BY <1>3, <2>2, Zenon DEF EndsWith, FinishBlocked, Owned
  <2> QED BY <2>1, <2>3, OutcomeKeeps
<1>4. CASE FinishFailed(w)
  <2>1. WorkersAnnounceNothing /\ LotsStayClosed
    <3>1. Stop(w) /\ UNCHANGED lots
      BY <1>4, Zenon DEF FinishFailed
    <3> QED BY <3>1, WorkerAnnounces DEF LotsStayClosed, Open
  <2>2. Story("echoue", "failed")
    BY DEF Story
  <2>3. EndsWith(w, "failed", "echoue")
    BY <1>4, <2>2, Zenon DEF EndsWith, FinishFailed, Owned
  <2> QED BY <2>1, <2>3, OutcomeKeeps
<1>5. CASE FinishCanceled(w)
  <2> DEFINE l == jobs[workers[w].job].lot
  <2>1. WorkersAnnounceNothing /\ l \in Lots /\ lots \in [Lots -> LotRow]
    <3>1. Stop(w) /\ Fenced(w)
      BY <1>5, Zenon DEF FinishCanceled
    <3> QED BY <3>1, WorkerAnnounces DEF Fenced, Current, IInv, TypeOK
  <2>2. /\ lots'[l].status \in Blocked
        /\ \A m \in Lots : m # l => lots'[m] = lots[m]
    <3>1. CASE Deleted(l)
      <4>1. UNCHANGED lots
        BY <1>5, <3>1, Zenon DEF FinishCanceled
      <4> QED BY <3>1, <4>1 DEF Deleted, Blocked
    <3>2. CASE ~Deleted(l)
      <4>1. lots' = [lots EXCEPT ![l].status = "annule"]
        BY <1>5, <3>2, Zenon DEF FinishCanceled
      <4> QED BY <2>1, <4>1 DEF Blocked, LotRow
    <3> QED BY <3>1, <3>2
  <2>3. LotsStayClosed
    BY <2>2 DEF LotsStayClosed, Open
  <2>4. EndsWith(w, "canceled", "annule")
    BY <1>5, <2>2, Zenon DEF FinishCanceled, EndsWith
  <2> QED BY <2>1, <2>3, <2>4, OutcomeKeeps
<1>6. CASE Publish(w)
  BY <1>6, PublishKeeps
<1>7. CASE FinishSuccess(w)
  BY <1>7, FinishKeeps
<1> QED BY <1>1, <1>2, <1>3, <1>4, <1>5, <1>6, <1>7 DEF Cycle

-----------------------------------------------------------------------------
\* Every step of the queue keeps the two invariants.
LEMMA FNext == IInv /\ FInv /\ [Next]_vars => FInv'
<1> SUFFICES ASSUME IInv, FInv, [Next]_vars
             PROVE  FInv'
  OBVIOUS
<1> IInv'
  BY NextInv
<1>1. ASSUME NEW l \in Lots, NEW s \in Steps,
             \/ Submit(l, s) \/ Reset(l, s)
             \/ \E k \in Keys : Retry(l, s, k) \/ Request(l, s, k)
      PROVE  FInv'
  BY <1>1, RequestsKeep
<1>2. ASSUME NEW l \in Lots, RequestCancel(l) \/ Delete(l) \/ Purge(l)
      PROVE  FInv'
  BY <1>2, ClockKeeps, DeleteKeeps
<1>3. ASSUME NEW w \in Workers, Acquire(w) \/ Cycle(w) \/ Crash(w)
      PROVE  FInv'
  BY <1>3, AcquireKeeps, CycleKeeps
<1>4. CASE Sweep \/ \E j \in Jobs : OrphanLapses(j) \/ HeldLapses(j)
  BY <1>4, ClockKeeps
<1>5. CASE UNCHANGED vars
  <2>1. UNCHANGED <<lots, etapes, jobs, artefacts, workers>>
    BY <1>5 DEF vars
  <2>2. WorkersAnnounceNothing
    BY <2>1 DEF WorkersAnnounceNothing, Announces
  <2> QED BY <2>1, <2>2, MoveKeeps
<1> QED BY <1>1, <1>2, <1>3, <1>4, <1>5 DEF Next

\* The invariant of the steps holds in every reachable state.
THEOREM StepsInvariance == Spec => []FInv
BY FInit, FNext, Invariance, PTL DEF Spec

\* No interleaving makes a step show an outcome its current job did not have,
\* or wait for a job no worker can take (jobs.py, acquire_next and the finish
\* transactions; invalidation.py, invalidate_downstream).
THEOREM StepsTellTheirRuns == Spec => []StepTellsItsRun
<1>1. FInv => StepTellsItsRun
  BY DEF FInv
<1> QED BY <1>1, StepsInvariance, PTL

\* A finished step exposes the artefact of the attempt that finished it and no
\* other, whatever late workers publish (artifacts.py, jobs.py).
THEOREM FinishedStepsExposeTheirAttempt == Spec => []FinishedStepExposesItsAttempt
<1>1. FInv => FinishedStepExposesItsAttempt
  BY DEF FInv
<1> QED BY <1>1, StepsInvariance, PTL

-----------------------------------------------------------------------------
(***************************************************************************)
(* The contract.                                                           *)
(***************************************************************************)

AbstractLots == [l \in Lots |-> LotState(lots[l].status)]
AbstractJobs == [j \in Jobs |-> JobState(jobs[j].status)]
Owners == [j \in Jobs |-> jobs[j].lot]

\* The jobs whose lease has lapsed: those acquire_next and the sweeps expire.
Lost == {j \in Jobs : jobs[j].status \in Committable /\ jobs[j].lapsed}

\* How the abstract statuses read the concrete ones.
LEMMA JobStates ==
  ASSUME IInv, NEW j \in Jobs
  PROVE  /\ AbstractJobs[j] = "waiting" <=> jobs[j].status \in {"queued", "expired"}
         /\ AbstractJobs[j] = "held" <=> jobs[j].status \in Committable
         /\ AbstractJobs[j] = "absent" <=> jobs[j].status = "absent"
         /\ jobs[j].status \in Active \cup {"expired"} => jobs[j].lot \in Lots
         /\ Owners[j] = jobs[j].lot
  BY DEF AbstractJobs, Owners, JobState, IInv, TypeOK, RowsHaveSteps, JobRow,
         Active, Committable, Final

LEMMA LotStatuses ==
  ASSUME IInv, NEW l \in Lots
  PROVE  /\ AbstractLots[l] = "open" <=> Open(l)
         /\ AbstractLots[l] \in {"deleted", "purged"} <=> Deleted(l)
         /\ AbstractLots[l] = "purged" <=> lots[l].status = "purge"
  BY DEF AbstractLots, LotState, Open, Deleted, Blocked, IInv, TypeOK, LotRow

\* The operations of the contract, as disjuncts of its next-state relation.
LEMMA ContractSteps ==
  /\ \A l \in Lots : \A J \in SUBSET Contract!Pending(l) :
       /\ Contract!Replace(l, J) => Contract!ContractNext
       /\ \A j \in Contract!Absent : Contract!Ask(l, j, J) => Contract!ContractNext
  /\ \A J \in SUBSET Contract!Held :
       /\ Contract!Release(J) => Contract!ContractNext
       /\ \A j \in Jobs : Contract!Take(j, J) => Contract!ContractNext
       /\ \A l \in Lots :
            /\ Contract!Purge(l, J) => Contract!ContractNext
            /\ \A D \in SUBSET Contract!Waiting(l) :
                 Contract!Delete(l, D, J) => Contract!ContractNext
  /\ \A j \in Contract!Held :
       /\ Contract!Confirm(j) => Contract!ContractNext
       /\ Contract!Settle(j, "failed", {}) => Contract!ContractNext
       /\ \A J \in SUBSET Contract!Absent :
            Contract!Settle(j, "succeeded", J) => Contract!ContractNext
  BY Zenon DEF Contract!ContractNext

\* How a table that keeps its lots maps: only the statuses are to compare.
LEMMA OwnersStay ==
  ASSUME \A j \in Jobs : jobs'[j].lot = jobs[j].lot
  PROVE  Owners' = Owners
BY DEF Owners

LEMMA LotsStay ==
  ASSUME \A l \in Lots : lots'[l].status = lots[l].status
  PROVE  AbstractLots' = AbstractLots
BY DEF AbstractLots

LEMMA LotMoves ==
  ASSUME NEW l \in Lots, NEW st,
         \A k \in Lots : lots'[k].status = IF k = l THEN st ELSE lots[k].status
  PROVE  AbstractLots' = [AbstractLots EXCEPT ![l] = LotState(st)]
BY DEF AbstractLots

LEMMA ClosedStates ==
  /\ LotState("annule") = "canceled"
  /\ LotState("supprime") = "deleted"
  /\ LotState("purge") = "purged"
BY DEF LotState

\* A decision, a retry or a request asks for a job, and cancels those it replaces.
LEMMA AskStep ==
  ASSUME IInv, NEW l \in Lots, NEW j \in Jobs,
         NEW J \in SUBSET {i \in Jobs : jobs[i].lot = l /\ jobs[i].status \in Active},
         Open(l), jobs[j].status = "absent", UNCHANGED lots,
         \A i \in Jobs :
           /\ jobs'[i].status = IF i = j THEN "queued"
                                ELSE IF i \in J THEN "canceled" ELSE jobs[i].status
           /\ jobs'[i].lot = IF i = j THEN l ELSE jobs[i].lot
  PROVE  Contract!ContractNext
<1>1. J \in SUBSET Contract!Pending(l)
  BY JobStates DEF Contract!Pending, JobState, Active, Committable
<1>2. AbstractLots[l] = "open"
  BY LotStatuses
<1>3. AbstractJobs' = [i \in Jobs |-> IF i = j THEN "waiting"
                                      ELSE IF i \in J THEN "canceled" ELSE AbstractJobs[i]]
  BY DEF AbstractJobs, JobState, Committable
<1>4. Owners' = [Owners EXCEPT ![j] = l]
  BY DEF Owners
<1>5. AbstractLots' = AbstractLots
  BY LotsStay
<1>6. j \in Contract!Absent
  BY DEF Contract!Absent, JobState, Committable
<1>7. Contract!Ask(l, j, J)
  BY <1>2, <1>3, <1>4, <1>5 DEF Contract!Ask, AbstractLots, AbstractJobs, Owners
<1>8. QED
  BY <1>1, <1>6, <1>7, ContractSteps

\* Submit, Retry and Request ask; Reset replaces.
LEMMA DecisionSteps ==
  ASSUME IInv, NEW l \in Lots, NEW s \in Steps,
         \/ Submit(l, s)
         \/ \E k \in Keys : Retry(l, s, k) \/ Request(l, s, k)
  PROVE  Contract!ContractNext
<1>1. jobs \in [Jobs -> JobRow]
  BY DEF IInv, TypeOK
<1>2. PICK j \in Jobs, S \in SUBSET Steps, k \in Keys \cup Jobs :
        /\ Fresh(j) /\ Open(l) /\ UNCHANGED lots
        /\ \/ jobs' = [StepsCanceled(jobs, l, S) EXCEPT ![j] = QueuedRow(l, s, k)]
           \/ jobs' = [jobs EXCEPT ![j] = QueuedRow(l, s, k)]
  <2>1. {s} \cup Downstream[s] \in SUBSET Steps
    BY DagAssumption
  <2>2. CASE Submit(l, s)
    BY <2>1, <2>2 DEF Submit
  <2>3. CASE \E k \in Keys : Retry(l, s, k)
    BY <2>1, <2>3, ZenonT(60) DEF Retry
  <2>4. CASE \E k \in Keys : Request(l, s, k)
    BY <2>1, <2>4 DEF Request
  <2>5. QED
    BY <2>2, <2>3, <2>4
<1>3. jobs[j].status = "absent"
  BY <1>2 DEF Fresh, Unused
<1>4. CASE jobs' = [StepsCanceled(jobs, l, S) EXCEPT ![j] = QueuedRow(l, s, k)]
  <2> DEFINE J == {i \in Jobs : /\ jobs[i].lot = l /\ jobs[i].step \in S
                                /\ jobs[i].status \in Active}
  <2>1. \A i \in Jobs :
          /\ jobs'[i].status = IF i = j THEN "queued"
                               ELSE IF i \in J THEN "canceled" ELSE jobs[i].status
          /\ jobs'[i].lot = IF i = j THEN l ELSE jobs[i].lot
    <3>1. StepsCanceled(jobs, l, S) \in [Jobs -> JobRow]
      BY <1>1, StepsCanceledRows
    <3>2. \A i \in Jobs :
            /\ StepsCanceled(jobs, l, S)[i].status = IF i \in J THEN "canceled" ELSE jobs[i].status
            /\ StepsCanceled(jobs, l, S)[i].lot = jobs[i].lot
      BY <1>1 DEF StepsCanceled, JobRow
    <3>3. QueuedRow(l, s, k).status = "queued" /\ QueuedRow(l, s, k).lot = l
      BY DEF QueuedRow, NoRow
    <3> HIDE DEF J
    <3>4. QED
      BY <1>4, <3>1, <3>2, <3>3
  <2>2. J \in SUBSET {i \in Jobs : jobs[i].lot = l /\ jobs[i].status \in Active}
    OBVIOUS
  <2> HIDE DEF J
  <2>3. QED
    BY <1>2, <1>3, <2>1, <2>2, AskStep
<1>5. CASE jobs' = [jobs EXCEPT ![j] = QueuedRow(l, s, k)]
  <2>1. \A i \in Jobs :
          /\ jobs'[i].status = IF i = j THEN "queued"
                               ELSE IF i \in {} THEN "canceled" ELSE jobs[i].status
          /\ jobs'[i].lot = IF i = j THEN l ELSE jobs[i].lot
    BY <1>1, <1>5 DEF QueuedRow, NoRow
  <2>2. {} \in SUBSET {i \in Jobs : jobs[i].lot = l /\ jobs[i].status \in Active}
    OBVIOUS
  <2>3. QED
    BY <1>2, <1>3, <2>1, <2>2, AskStep
<1>6. QED
  BY <1>2, <1>4, <1>5

LEMMA ResetStep ==
  ASSUME IInv, NEW l \in Lots, NEW s \in Steps, Reset(l, s)
  PROVE  Contract!ContractNext
<1> DEFINE J == {i \in Jobs : /\ jobs[i].lot = l
                              /\ jobs[i].step \in {s} \cup Downstream[s]
                              /\ jobs[i].status \in Active}
<1>1. jobs \in [Jobs -> JobRow]
  BY DEF IInv, TypeOK
<1>2. \A i \in Jobs :
        /\ jobs'[i].status = IF i \in J THEN "canceled" ELSE jobs[i].status
        /\ jobs'[i].lot = jobs[i].lot
  BY <1>1 DEF Reset, StepsCanceled, JobRow
<1>3. J \in SUBSET Contract!Pending(l)
  BY DEF Contract!Pending, JobState, Active, Committable
<1> HIDE DEF J
<1>4. AbstractJobs' = [i \in Jobs |-> IF i \in J THEN "canceled" ELSE AbstractJobs[i]]
  BY <1>2 DEF AbstractJobs, JobState, Committable
<1>5. AbstractLots' = AbstractLots /\ Owners' = Owners
  BY <1>2, OwnersStay, LotsStay DEF Reset
<1>6. AbstractLots[l] = "open"
  BY LotStatuses DEF Reset
<1>7. Contract!Replace(l, J)
  BY <1>4, <1>5, <1>6 DEF Contract!Replace, AbstractLots, AbstractJobs, Owners
<1>8. QED
  BY <1>3, <1>7, ContractSteps

\* A table whose rows keep their lot and stay, but for those of J that wait again.
LEMMA ExpiredStates ==
  ASSUME IInv
  PROVE  /\ Lost \in SUBSET Contract!Held
         /\ \A j \in Jobs :
              /\ Expired(jobs)[j].lot = jobs[j].lot
              /\ Expired(jobs)[j].status = IF j \in Lost THEN "expired" ELSE jobs[j].status
<1>1. jobs \in [Jobs -> JobRow]
  BY DEF IInv, TypeOK
<1>2. Lost \in SUBSET Contract!Held
  BY DEF Lost, Contract!Held, JobState, Committable
<1>3. QED
  BY <1>1, <1>2 DEF Expired, Lost, JobRow

LEMMA SweepStep ==
  ASSUME IInv, Sweep
  PROVE  Contract!ContractNext
<1>1. \A j \in Jobs :
        /\ jobs'[j].lot = jobs[j].lot
        /\ jobs'[j].status = IF j \in Lost THEN "expired" ELSE jobs[j].status
  BY ExpiredStates DEF Sweep
<1>2. AbstractJobs' = [j \in Jobs |-> IF j \in Lost THEN "waiting" ELSE AbstractJobs[j]]
  BY <1>1 DEF AbstractJobs, JobState, Committable
<1>3. AbstractLots' = AbstractLots /\ Owners' = Owners
  BY <1>1, OwnersStay, LotsStay DEF Sweep
<1>4. Contract!Release(Lost)
  BY <1>2, <1>3 DEF Contract!Release, AbstractLots, AbstractJobs, Owners
<1>5. QED
  BY <1>4, ExpiredStates, ContractSteps

\* The slots are counted on the jobs whose lease has not lapsed.
LEMMA SlotsAgree ==
  ASSUME IInv
  PROVE  Processing(Expired(jobs))
           = {j \in Contract!Held \ Lost : AbstractLots[Owners[j]] = "open"}
<1>1. ASSUME NEW j \in Jobs
      PROVE  j \in Processing(Expired(jobs))
               <=> j \in Contract!Held \ Lost /\ AbstractLots[Owners[j]] = "open"
  <2>1. j \in Processing(Expired(jobs))
          <=> jobs[j].status \in Committable /\ j \notin Lost /\ Open(jobs[j].lot)
    BY ExpiredStates DEF Processing, Committable
  <2>2. j \in Contract!Held <=> jobs[j].status \in Committable
    BY JobStates DEF Contract!Held, AbstractJobs
  <2>3. jobs[j].status \in Committable => (AbstractLots[Owners[j]] = "open" <=> Open(jobs[j].lot))
    BY JobStates, LotStatuses DEF Committable, Active
  <2>4. QED
    BY <2>1, <2>2, <2>3
<1>2. Processing(Expired(jobs)) \subseteq Jobs /\ Contract!Held \subseteq Jobs
  BY DEF Processing, Contract!Held
<1>3. QED
  BY <1>1, <1>2

LEMMA AcquireStep ==
  ASSUME IInv, NEW w \in Workers, Acquire(w)
  PROVE  Contract!ContractNext
<1>1. jobs \in [Jobs -> JobRow] /\ Expired(jobs) \in [Jobs -> JobRow]
  BY ExpiredRows DEF IInv, TypeOK
<1>2. PICK j \in Eligible(Expired(jobs)) :
        jobs' = [Expired(jobs) EXCEPT ![j].status = "leased", ![j].lapsed = FALSE,
                                      ![j].version = NextVersion(j)]
  BY DEF Acquire
<1>3. /\ j \in Jobs /\ Open(Expired(jobs)[j].lot)
      /\ Expired(jobs)[j].status \in {"queued", "expired"}
  BY <1>2 DEF Eligible
<1>4. Open(jobs[j].lot) /\ (j \in Lost \/ jobs[j].status \in {"queued", "expired"})
  BY <1>3, ExpiredStates
<1>5. jobs[j].lot \in Lots
  BY <1>3, <1>4, JobStates DEF Lost, Active, Committable
<1>6. \A i \in Jobs :
        /\ jobs'[i].lot = jobs[i].lot
        /\ jobs'[i].status = IF i = j THEN "leased"
                             ELSE IF i \in Lost THEN "expired" ELSE jobs[i].status
  <2>1. \A i \in Jobs :
          /\ jobs'[i].lot = Expired(jobs)[i].lot
          /\ jobs'[i].status = IF i = j THEN "leased" ELSE Expired(jobs)[i].status
    BY <1>1, <1>2, <1>3 DEF JobRow
  <2>2. QED
    BY <2>1, ExpiredStates
<1>7. AbstractJobs' = [i \in Jobs |-> IF i = j THEN "held"
                                      ELSE IF i \in Lost THEN "waiting" ELSE AbstractJobs[i]]
  BY <1>6 DEF AbstractJobs, JobState, Committable
<1>8. AbstractLots' = AbstractLots /\ Owners' = Owners
  BY <1>6, OwnersStay, LotsStay DEF Acquire
<1>9. AbstractLots[Owners[j]] = "open" /\ Owners[j] \in Lots
  BY <1>3, <1>4, <1>5, JobStates, LotStatuses
<1>10. j \in Lost \/ AbstractJobs[j] = "waiting"
  BY <1>3, <1>4, JobStates
<1>11. Cardinality({i \in Contract!Held \ Lost : AbstractLots[Owners[i]] = "open"}) < MaxActiveJobs
  BY SlotsAgree DEF Acquire, SlotFree
<1>12. Contract!Take(j, Lost)
  <2>1. /\ j \in Lost \/ AbstractJobs[j] = "waiting"
        /\ Owners[j] \in Lots /\ AbstractLots[Owners[j]] = "open"
        /\ Cardinality({i \in Contract!Held \ Lost : AbstractLots[Owners[i]] = "open"})
             < MaxActiveJobs
        /\ AbstractJobs' = [i \in Jobs |-> IF i = j THEN "held"
                                           ELSE IF i \in Lost THEN "waiting" ELSE AbstractJobs[i]]
        /\ AbstractLots' = AbstractLots /\ Owners' = Owners
    BY <1>7, <1>8, <1>9, <1>10, <1>11
  <2>2. QED
    BY <2>1
       DEF Contract!Take, Contract!Cardinality, Cardinality, AbstractLots, AbstractJobs, Owners
<1>13. QED
  BY <1>3, <1>12, ExpiredStates, ContractSteps

\* A worker ends the job of an open lot, and a success queues the jobs J.
LEMMA SettleStep ==
  ASSUME IInv, NEW w \in Workers, workers[w].pc # "idle", Owned(w), UNCHANGED lots,
         NEW outcome \in {"succeeded", "failed"},
         NEW J \in SUBSET Unused, outcome = "succeeded" \/ J = {},
         \A i \in Jobs :
           /\ jobs'[i].status = IF i = workers[w].job THEN outcome
                                ELSE IF i \in J THEN "queued" ELSE jobs[i].status
           /\ jobs'[i].lot = IF i \in J THEN jobs[workers[w].job].lot ELSE jobs[i].lot
  PROVE  Contract!ContractNext
<1> DEFINE j == workers[w].job
<1>1. j \in Jobs /\ jobs[j].lot \in Lots /\ jobs[j].status \in Committable /\ Open(jobs[j].lot)
  BY WorkerFacts DEF Owned, Fenced, Current
<1>2. j \in Contract!Held /\ J \in SUBSET Contract!Absent
  BY <1>1 DEF Contract!Held, Contract!Absent, JobState, Unused, Committable
<1> HIDE DEF j
<1>3. AbstractJobs' = [i \in Jobs |-> IF i = j THEN outcome
                                      ELSE IF i \in J THEN "waiting" ELSE AbstractJobs[i]]
  BY DEF AbstractJobs, JobState, Committable, j
<1>4. Owners' = [i \in Jobs |-> IF i \in J THEN Owners[j] ELSE Owners[i]]
  BY <1>1 DEF Owners, j
<1>5. AbstractLots' = AbstractLots
  BY LotsStay
<1>6. Owners[j] \in Lots /\ AbstractLots[Owners[j]] = "open"
  BY <1>1, LotStatuses DEF Owners
<1>7. Contract!Settle(j, outcome, J)
  BY <1>3, <1>4, <1>5, <1>6 DEF Contract!Settle, AbstractLots, AbstractJobs, Owners
<1>8. QED
  BY <1>2, <1>7, ContractSteps

LEMMA FinishSteps ==
  ASSUME IInv, NEW w \in Workers,
         FinishSuccess(w) \/ FinishBlocked(w) \/ FinishFailed(w)
  PROVE  Contract!ContractNext
<1> DEFINE j == workers[w].job
<1>1. jobs \in [Jobs -> JobRow]
  BY DEF IInv, TypeOK
<1>2. workers[w].pc # "idle" /\ Owned(w) /\ UNCHANGED lots
  BY Zenon DEF FinishSuccess, FinishBlocked, FinishFailed
<1>3. j \in Jobs /\ jobs[j].status \in Committable
  BY <1>2, WorkerFacts DEF Owned, Fenced
<1>4. ASSUME NEW outcome \in {"succeeded", "failed"},
             jobs' = [jobs EXCEPT ![j].status = outcome]
      PROVE  Contract!ContractNext
  <2> DEFINE J == {}
  <2>1. J \in SUBSET Unused /\ (outcome = "succeeded" \/ J = {})
    OBVIOUS
  <2>2. \A i \in Jobs :
          /\ jobs'[i].status = IF i = j THEN outcome
                               ELSE IF i \in J THEN "queued" ELSE jobs[i].status
          /\ jobs'[i].lot = IF i \in J THEN jobs[j].lot ELSE jobs[i].lot
    BY <1>1, <1>3, <1>4 DEF JobRow
  <2> HIDE DEF J
  <2>3. QED
    BY <1>2, <2>1, <2>2, SettleStep, SMTT(40)
<1>5. CASE FinishBlocked(w) \/ FinishFailed(w)
  BY <1>4, <1>5, Zenon DEF FinishBlocked, FinishFailed
<1>6. CASE FinishSuccess(w)
  <2>1. PICK Q, id : id \in Numberings(Q)
                     /\ jobs' = RowsFinished(j, jobs[j].lot, Q, id)
    BY <1>6, Zenon DEF FinishSuccess
  <2> DEFINE J == {id[t] : t \in Q}
  <2>2. J \in SUBSET Unused /\ j \notin J
    BY <1>3, <2>1 DEF Numberings, Unused, Committable
  <2>3. \A i \in Jobs : (\E t \in Q : id[t] = i) <=> i \in J
    OBVIOUS
  <2> HIDE DEF J
  <2>4. \A i \in Jobs :
          /\ jobs'[i].status = IF i = j THEN "succeeded"
                               ELSE IF i \in J THEN "queued" ELSE jobs[i].status
          /\ jobs'[i].lot = IF i \in J THEN jobs[j].lot ELSE jobs[i].lot
    BY <1>1, <1>3, <2>1, <2>2, <2>3, ZenonT(60) DEF RowsFinished, QueuedRow, NoRow, JobRow
  <2>5. QED
    BY <1>2, <2>2, <2>4, SettleStep
<1>7. QED
  BY <1>5, <1>6

LEMMA FinishCanceledStep ==
  ASSUME IInv, NEW w \in Workers, FinishCanceled(w)
  PROVE  Contract!ContractNext
<1> DEFINE j == workers[w].job
           l == jobs[j].lot
<1>1. jobs \in [Jobs -> JobRow] /\ lots \in [Lots -> LotRow]
  BY DEF IInv, TypeOK
<1>2. j \in Jobs /\ l \in Lots /\ jobs[j].status \in Committable
  BY WorkerFacts, Zenon DEF FinishCanceled, Fenced, Current
<1>3. j \in Contract!Held
  BY <1>2 DEF Contract!Held, JobState, Committable
<1>4. \A i \in Jobs :
        /\ jobs'[i].status = IF i = j THEN "canceled" ELSE jobs[i].status
        /\ jobs'[i].lot = jobs[i].lot
  BY <1>1, <1>2, ZenonT(60) DEF FinishCanceled, JobRow
<1>5. \A k \in Lots :
        lots'[k].status = IF k = l /\ ~Deleted(l) THEN "annule" ELSE lots[k].status
  BY <1>1, <1>2, ZenonT(60) DEF FinishCanceled, LotRow
<1> HIDE DEF j, l
<1>6. AbstractJobs' = [AbstractJobs EXCEPT ![j] = "canceled"]
  BY <1>2, <1>4 DEF AbstractJobs, JobState, Committable
<1>7. Owners' = Owners
  BY <1>4, OwnersStay
<1>8. Owners[j] = l
  BY <1>2 DEF Owners, l
<1>9. AbstractLots[l] \in {"deleted", "purged"} <=> Deleted(l)
  BY <1>2, LotStatuses
<1>10. AbstractLots' = IF Deleted(l) THEN AbstractLots
                       ELSE [AbstractLots EXCEPT ![l] = "canceled"]
  <2>1. CASE Deleted(l)
    BY <1>5, <2>1, LotsStay
  <2>2. CASE ~Deleted(l)
    BY <1>2, <1>5, <2>2, LotMoves, ClosedStates
  <2>3. QED
    BY <2>1, <2>2
<1>11. Contract!Confirm(j)
  BY <1>2, <1>6, <1>7, <1>8, <1>9, <1>10
     DEF Contract!Confirm, AbstractLots, AbstractJobs, Owners
<1>12. QED
  BY <1>3, <1>11, ContractSteps

-----------------------------------------------------------------------------
\* The queued jobs of a lot, canceled when it is deleted.
Dropped(l) == {j \in Jobs : jobs[j].lot = l /\ jobs[j].status = "queued"}

\* The lot and status of the rows, whichever of the two updates comes first.
LEMMA DroppedStates ==
  ASSUME IInv, NEW l \in Lots, NEW js,
         \/ js = QueueCanceled(Expired(jobs), l)
         \/ js = Expired(QueueCanceled(jobs, l))
  PROVE  \A j \in Jobs :
           /\ js[j].lot = jobs[j].lot
           /\ js[j].status = IF j \in Dropped(l) THEN "canceled"
                             ELSE IF j \in Lost THEN "expired" ELSE jobs[j].status
<1>1. jobs \in [Jobs -> JobRow]
  BY DEF IInv, TypeOK
<1>2. CASE js = QueueCanceled(Expired(jobs), l)
  <2>1. \A j \in Jobs :
          /\ js[j].lot = Expired(jobs)[j].lot
          /\ js[j].status =
               IF Expired(jobs)[j].lot = l /\ Expired(jobs)[j].status = "queued"
               THEN "canceled" ELSE Expired(jobs)[j].status
    BY <1>1, <1>2, ExpiredRows DEF QueueCanceled, JobRow
  <2>2. QED
    BY <2>1, ExpiredStates DEF Dropped, Lost, Committable
<1>3. CASE js = Expired(QueueCanceled(jobs, l))
  <2> DEFINE ks == QueueCanceled(jobs, l)
  <2>1. \A j \in Jobs :
          /\ ks[j].lot = jobs[j].lot /\ ks[j].lapsed = jobs[j].lapsed
          /\ ks[j].status = IF j \in Dropped(l) THEN "canceled" ELSE jobs[j].status
    BY <1>1 DEF QueueCanceled, Dropped, JobRow
  <2>2. ks \in [Jobs -> JobRow]
    BY <1>1, QueueCanceledRows
  <2> HIDE DEF ks
  <2>3. \A j \in Jobs :
          /\ Expired(ks)[j].lot = ks[j].lot
          /\ Expired(ks)[j].status =
               IF ks[j].status \in Committable /\ ks[j].lapsed
               THEN "expired" ELSE ks[j].status
    BY <2>2 DEF Expired, JobRow
  <2>4. js = Expired(ks)
    BY <1>3 DEF ks
  <2>5. QED
    BY <2>1, <2>3, <2>4 DEF Dropped, Lost, Committable
<1>4. QED
  BY <1>2, <1>3

\* The purge takes the lot and its jobs; no worker holds one of them.
LEMMA PurgedRows ==
  ASSUME IInv, NEW l \in Lots, NEW js, Purged(js, l), ProcessingOf(js, l) = {},
         lots[l].status # "purge",
         \A j \in Jobs :
           /\ js[j].lot = jobs[j].lot
           /\ js[j].status = IF j \in Dropped(l) THEN "canceled"
                             ELSE IF j \in Lost THEN "expired" ELSE jobs[j].status
  PROVE  /\ \A j \in Jobs :
              /\ jobs'[j].status = IF jobs[j].lot = l THEN "purged"
                                   ELSE IF j \in Lost THEN "expired" ELSE jobs[j].status
              /\ jobs'[j].lot = IF jobs[j].lot = l THEN None ELSE jobs[j].lot
         /\ \A k \in Lots : lots'[k].status = IF k = l THEN "purge" ELSE lots[k].status
         /\ \A j \in Contract!Held \ Lost : Owners[j] # l
<1>1. \A j \in Jobs :
        /\ jobs'[j].status = IF jobs[j].lot = l THEN "purged"
                             ELSE IF j \in Lost THEN "expired" ELSE jobs[j].status
        /\ jobs'[j].lot = IF jobs[j].lot = l THEN None ELSE jobs[j].lot
  BY DEF Purged, NoRow, Dropped
<1>2. \A k \in Lots : lots'[k].status = IF k = l THEN "purge" ELSE lots[k].status
  BY DEF Purged, IInv, TypeOK, LotRow
<1>3. \A j \in Contract!Held \ Lost : Owners[j] # l
  <2>1. ASSUME NEW j \in Jobs, jobs[j].status \in Committable, j \notin Lost
        PROVE  jobs[j].lot # l
    BY <2>1 DEF ProcessingOf, Dropped, Committable
  <2>2. \A j \in Contract!Held :
          j \in Jobs /\ jobs[j].status \in Committable /\ Owners[j] = jobs[j].lot
    BY JobStates DEF Contract!Held, AbstractJobs, Owners
  <2>3. QED
    BY <2>1, <2>2
<1>4. QED
  BY <1>1, <1>2, <1>3

LEMMA PurgedStep ==
  ASSUME IInv, NEW l \in Lots, NEW J \in SUBSET Contract!Held, lots[l].status # "purge",
         \A j \in Jobs :
           /\ jobs'[j].status = IF jobs[j].lot = l THEN "purged"
                                ELSE IF j \in J THEN "expired" ELSE jobs[j].status
           /\ jobs'[j].lot = IF jobs[j].lot = l THEN None ELSE jobs[j].lot,
         \A k \in Lots : lots'[k].status = IF k = l THEN "purge" ELSE lots[k].status,
         \A j \in Contract!Held \ J : Owners[j] # l
  PROVE  Contract!ContractNext
<1>1. AbstractJobs' = [j \in Jobs |-> IF Owners[j] = l THEN "purged"
                                      ELSE IF j \in J THEN "waiting" ELSE AbstractJobs[j]]
  BY DEF AbstractJobs, Owners, JobState, Committable
<1>2. Owners' = [j \in Jobs |-> IF Owners[j] = l THEN None ELSE Owners[j]]
  BY DEF Owners
<1>3. AbstractLots' = [AbstractLots EXCEPT ![l] = "purged"]
  BY LotMoves, ClosedStates
<1>4. AbstractLots[l] # "purged"
  BY LotStatuses
<1>5. Contract!Purge(l, J)
  BY <1>1, <1>2, <1>3, <1>4, Zenon
     DEF Contract!Purge, AbstractLots, AbstractJobs, Owners
<1>6. QED
  BY <1>5, ContractSteps

\* DELETE and the purge loop.
LEMMA DeleteSteps ==
  ASSUME IInv, NEW l \in Lots, Delete(l) \/ Purge(l)
  PROVE  Contract!ContractNext
<1>1. lots[l].status # "purge"
  BY DEF Delete, Purge
<1>2. PICK js :
        /\ \/ js = QueueCanceled(Expired(jobs), l)
           \/ js = Expired(QueueCanceled(jobs, l))
        /\ \/ ProcessingOf(js, l) = {} /\ Purged(js, l)
           \/ /\ jobs' = js
              /\ \/ lots' = [lots EXCEPT ![l].status = "supprime"]
                 \/ lots[l].status = "supprime" /\ UNCHANGED lots
  BY DEF Delete, Purge
<1>3. \A j \in Jobs :
        /\ js[j].lot = jobs[j].lot
        /\ js[j].status = IF j \in Dropped(l) THEN "canceled"
                          ELSE IF j \in Lost THEN "expired" ELSE jobs[j].status
  BY <1>2, DroppedStates
<1>4. CASE ProcessingOf(js, l) = {} /\ Purged(js, l)
  BY <1>1, <1>3, <1>4, PurgedRows, PurgedStep, ExpiredStates
<1>5. CASE /\ jobs' = js
           /\ \/ lots' = [lots EXCEPT ![l].status = "supprime"]
              \/ lots[l].status = "supprime" /\ UNCHANGED lots
  <2>1. \A k \in Lots : lots'[k].status = IF k = l THEN "supprime" ELSE lots[k].status
    BY <1>5 DEF IInv, TypeOK, LotRow
  <2>2. AbstractLots' = [AbstractLots EXCEPT ![l] = "deleted"]
    BY <2>1, LotMoves, ClosedStates
  <2>3. AbstractJobs' = [j \in Jobs |-> IF j \in Dropped(l) THEN "canceled"
                                        ELSE IF j \in Lost THEN "waiting" ELSE AbstractJobs[j]]
    BY <1>3, <1>5 DEF AbstractJobs, JobState, Committable
  <2>4. Owners' = Owners
    BY <1>3, <1>5, OwnersStay
  <2>5. Dropped(l) \in SUBSET Contract!Waiting(l)
    BY DEF Dropped, Contract!Waiting, JobState
  <2>6. AbstractLots[l] # "purged"
    BY <1>1, LotStatuses
  <2>7. Contract!Delete(l, Dropped(l), Lost)
    BY <2>2, <2>3, <2>4, <2>6 DEF Contract!Delete, AbstractLots, AbstractJobs, Owners
  <2>8. QED
    BY <2>5, <2>7, ExpiredStates, ContractSteps
<1>6. QED
  BY <1>2, <1>4, <1>5

-----------------------------------------------------------------------------
\* A step that moves neither a lot nor a job between its abstract statuses.
LEMMA StutterStep ==
  ASSUME \A l \in Lots : lots'[l].status = lots[l].status,
         \A j \in Jobs : /\ jobs'[j].lot = jobs[j].lot
                         /\ JobState(jobs'[j].status) = JobState(jobs[j].status)
  PROVE  UNCHANGED Contract!contractVars
<1>1. AbstractLots' = AbstractLots /\ Owners' = Owners
  BY LotsStay, OwnersStay
<1>2. AbstractJobs' = AbstractJobs
  BY DEF AbstractJobs
<1>3. QED
  BY <1>1, <1>2, SMTT(40) DEF Contract!contractVars, AbstractLots, AbstractJobs, Owners

LEMMA QuietSteps ==
  ASSUME IInv,
         \/ UNCHANGED vars
         \/ \E l \in Lots : RequestCancel(l)
         \/ \E w \in Workers : Crash(w) \/ Start(w) \/ HandlerBegins(w) \/ Publish(w)
              \/ HandlerReturns(w, "termine") \/ HandlerReturns(w, "bloque")
              \/ HandlerRaises(w) \/ HandlerCanceled(w) \/ LeaseLost(w) \/ Rejected(w)
         \/ \E j \in Jobs : OrphanLapses(j) \/ HeldLapses(j)
  PROVE  UNCHANGED Contract!contractVars
<1>1. jobs \in [Jobs -> JobRow] /\ lots \in [Lots -> LotRow]
  BY DEF IInv, TypeOK
<1>2. CASE UNCHANGED <<lots, jobs>>
  BY <1>2, StutterStep
<1>3. ASSUME NEW l \in Lots, RequestCancel(l)
      PROVE  UNCHANGED Contract!contractVars
  <2>1. \A k \in Lots : lots'[k].status = lots[k].status
    BY <1>1, <1>3 DEF RequestCancel, LotRow
  <2>2. UNCHANGED jobs
    BY <1>3 DEF RequestCancel
  <2>3. QED
    BY <2>1, <2>2, StutterStep
<1>4. ASSUME NEW w \in Workers, Start(w)
      PROVE  UNCHANGED Contract!contractVars
  <2>1. \A j \in Jobs : /\ jobs'[j].lot = jobs[j].lot
                        /\ JobState(jobs'[j].status) = JobState(jobs[j].status)
    BY <1>1, <1>4, Zenon DEF Start, JobRow, JobState, Committable
  <2>2. QED
    BY <1>4, <2>1, StutterStep, Zenon DEF Start
<1>5. ASSUME NEW j \in Jobs, OrphanLapses(j) \/ HeldLapses(j)
      PROVE  UNCHANGED Contract!contractVars
  <2>1. jobs' = [jobs EXCEPT ![j].lapsed = TRUE] /\ UNCHANGED lots
    BY <1>5 DEF OrphanLapses, HeldLapses, LapsedNow
  <2>2. \A i \in Jobs : jobs'[i].lot = jobs[i].lot /\ jobs'[i].status = jobs[i].status
    BY <1>1, <2>1 DEF JobRow
  <2>3. QED
    BY <2>1, <2>2, StutterStep
<1>6. QED
  BY <1>2, <1>3, <1>4, <1>5
     DEF vars, Crash, HandlerBegins, Publish, HandlerReturns, HandlerRaises,
         HandlerCanceled, LeaseLost, Rejected

LEMMA InitContract == Init => Contract!ContractInit
<1> SUFFICES ASSUME Init
             PROVE  Contract!ContractInit
  OBVIOUS
<1>1. AbstractLots = [l \in Lots |-> "open"]
  BY DEF Init, AbstractLots, LotState
<1>2. AbstractJobs = [j \in Jobs |-> "absent"] /\ Owners = [j \in Jobs |-> None]
  BY DEF Init, AbstractJobs, Owners, NoRow, JobState, Committable
<1>3. QED
  BY <1>1, <1>2 DEF Contract!ContractInit, AbstractLots, AbstractJobs, Owners

\* Each operation of the queue is one step of the contract, or none.
LEMMA NextContract ==
  IInv /\ [Next]_vars => [Contract!ContractNext]_(Contract!contractVars)
<1> SUFFICES ASSUME IInv, [Next]_vars
             PROVE  Contract!ContractNext \/ UNCHANGED Contract!contractVars
  OBVIOUS
<1>1. ASSUME NEW l \in Lots, NEW s \in Steps,
             \/ Submit(l, s) \/ Reset(l, s)
             \/ \E k \in Keys : Retry(l, s, k) \/ Request(l, s, k)
      PROVE  Contract!ContractNext
  BY <1>1, DecisionSteps, ResetStep
<1>2. ASSUME NEW l \in Lots, RequestCancel(l) \/ Delete(l) \/ Purge(l)
      PROVE  Contract!ContractNext \/ UNCHANGED Contract!contractVars
  BY <1>2, DeleteSteps, QuietSteps
<1>3. ASSUME NEW w \in Workers, Acquire(w) \/ Cycle(w) \/ Crash(w)
      PROVE  Contract!ContractNext \/ UNCHANGED Contract!contractVars
  BY <1>3, AcquireStep, FinishSteps, FinishCanceledStep, QuietSteps DEF Cycle
<1>4. CASE UNCHANGED vars \/ \E j \in Jobs : OrphanLapses(j) \/ HeldLapses(j)
  BY <1>4, QuietSteps
<1>5. QED
  BY <1>1, <1>2, <1>3, <1>4, SweepStep DEF Next

\* The queue implements its contract.
THEOREM QueueImplementsContract == Spec => ImplementsContract
<1>1. Init => Contract!ContractInit
  BY InitContract
<1>2. IInv /\ [Next]_vars => [Contract!ContractNext]_(Contract!contractVars)
  BY NextContract
<1>3. QED
  BY <1>1, <1>2, Invariance, PTL DEF Spec, ImplementsContract, Contract!ContractSpec

-----------------------------------------------------------------------------
(***************************************************************************)
(* The queue keeps to the life of a lot (LotLife): the jobs, their steps   *)
(* and their workers are forgotten, what a lot holds and exposes stays.    *)
(***************************************************************************)

\* A worker holds job j by a lease that has not lapsed.
HoldsLease(j) == jobs[j].status \in Committable /\ ~jobs[j].lapsed

\* The ways in which a step may move what the lots show.
StatusesStay == \A l \in Lots : lots'[l].status = lots[l].status
LeasesOnlyEnd ==
  \A j \in Jobs : HoldsLease(j)' => HoldsLease(j) /\ jobs'[j].lot = jobs[j].lot
LeasesStay ==
  \A j \in Jobs : /\ HoldsLease(j)' <=> HoldsLease(j)
                  /\ HoldsLease(j) => jobs'[j].lot = jobs[j].lot
ArtefactsOnlyGo ==
  \A l \in Lots, s \in Steps : artefacts'[l][s] \subseteq artefacts[l][s]

LEMMA StatusesShown ==
  ASSUME StatusesStay
  PROVE  LotStates' = LotStates
BY DEF StatusesStay, LotStates

LEMMA StatusShown ==
  ASSUME NEW l \in Lots, NEW st,
         \A k \in Lots : lots'[k].status = IF k = l THEN st ELSE lots[k].status
  PROVE  LotStates' = [LotStates EXCEPT ![l] = LotState(st)]
BY DEF LotStates

LEMMA LeasesShownLess ==
  ASSUME LeasesOnlyEnd
  PROVE  Life!Fewer(LeasedLots', LeasedLots)
<1>1. ASSUME NEW l \in Lots, LeasedLots'[l]
      PROVE  LeasedLots[l]
  BY <1>1 DEF LeasesOnlyEnd, HoldsLease, LeasedLots, ProcessingOf
<1>2. LeasedLots' \in [Lots -> BOOLEAN]
  BY DEF LeasedLots
<1>3. QED
  BY <1>1, <1>2 DEF Life!Fewer

LEMMA LeasesShown ==
  ASSUME LeasesStay
  PROVE  LeasedLots' = LeasedLots
<1>1. ASSUME NEW l \in Lots
      PROVE  (\E j \in ProcessingOf(jobs, l) : ~jobs[j].lapsed)'
               <=> \E j \in ProcessingOf(jobs, l) : ~jobs[j].lapsed
  BY DEF LeasesStay, HoldsLease, ProcessingOf
<1>2. QED
  BY <1>1, Zenon DEF LeasedLots

LEMMA ArtefactsShownLess ==
  ASSUME ArtefactsOnlyGo
  PROVE  Life!Fewer(ExposedLots', ExposedLots)
<1>1. ASSUME NEW l \in Lots, ExposedLots'[l]
      PROVE  ExposedLots[l]
  BY <1>1 DEF ArtefactsOnlyGo, ExposedLots
<1>2. ExposedLots' \in [Lots -> BOOLEAN]
  BY DEF ExposedLots
<1>3. QED
  BY <1>1, <1>2 DEF Life!Fewer

LEMMA ArtefactsShown ==
  ASSUME UNCHANGED artefacts
  PROVE  ExposedLots' = ExposedLots
BY DEF ExposedLots

\* A lot that is neither deleted nor purged.
LEMMA NotDeleted ==
  ASSUME IInv, NEW l \in Lots
  PROVE  /\ Open(l) <=> LotStates[l] = "open"
         /\ ~Deleted(l) <=> LotStates[l] \in {"open", "canceled"}
         /\ lots[l].status = "purge" <=> LotStates[l] = "purged"
BY LotStatuses DEF LotStates, AbstractLots, LotState, Deleted, IInv, TypeOK, LotRow, Blocked

\* What a step of the queue is in the life of a lot.
LEMMA LotLoses ==
  ASSUME StatusesStay, LeasesOnlyEnd, ArtefactsOnlyGo
  PROVE  Life!LifeNext
BY StatusesShown, LeasesShownLess, ArtefactsShownLess, Zenon DEF Life!Lose, Life!LifeNext

LEMMA LotTakes ==
  ASSUME NEW l \in Lots, LotStates[l] = "open", StatusesStay, UNCHANGED artefacts,
         LeasedLots' = [LeasedLots EXCEPT ![l] = TRUE]
  PROVE  Life!LifeNext
BY StatusesShown, ArtefactsShown, Zenon DEF Life!Take, Life!LifeNext

LEMMA LotExposes ==
  ASSUME NEW l \in Lots, LotStates[l] \in {"open", "canceled"}, StatusesStay, LeasesOnlyEnd,
         ExposedLots' = [ExposedLots EXCEPT ![l] = TRUE]
  PROVE  Life!LifeNext
BY StatusesShown, LeasesShownLess, Zenon DEF Life!Expose, Life!LifeNext

LEMMA LotCancels ==
  ASSUME NEW l \in Lots, LotStates[l] \in {"open", "canceled"}, LeasesOnlyEnd,
         LotStates' = [LotStates EXCEPT ![l] = "canceled"], UNCHANGED artefacts
  PROVE  Life!LifeNext
BY LeasesShownLess, ArtefactsShown, Zenon DEF Life!Cancel, Life!LifeNext

LEMMA LotDeletes ==
  ASSUME NEW l \in Lots, LotStates[l] # "purged", LeasesStay,
         LotStates' = [LotStates EXCEPT ![l] = "deleted"], UNCHANGED artefacts
  PROVE  Life!LifeNext
BY LeasesShown, ArtefactsShown, Zenon DEF Life!Delete, Life!LifeNext

LEMMA LotPurges ==
  ASSUME NEW l \in Lots, LotStates[l] # "purged", ~LeasedLots[l], LeasesStay,
         LotStates' = [LotStates EXCEPT ![l] = "purged"],
         ExposedLots' = [ExposedLots EXCEPT ![l] = FALSE]
  PROVE  Life!LifeNext
BY LeasesShown, Zenon DEF Life!Purge, Life!LifeNext

\* Uploads, decisions, retries and requests: jobs are canceled or queued,
\* artefacts become obsolete.
LEMMA DecisionsLive ==
  ASSUME IInv, NEW l \in Lots, NEW s \in Steps,
         \/ Submit(l, s) \/ Reset(l, s)
         \/ \E k \in Keys : Retry(l, s, k) \/ Request(l, s, k)
  PROVE  Life!LifeNext
<1>1. jobs \in [Jobs -> JobRow] /\ artefacts \in [Lots -> [Steps -> SUBSET (Jobs \X Nat)]]
  BY DEF IInv, TypeOK
<1>2. UNCHANGED lots
  BY Zenon DEF Submit, Reset, Retry, Request
<1>3. PICK S \in SUBSET Steps :
        /\ \/ jobs' = StepsCanceled(jobs, l, S)
           \/ \E j \in Jobs, k \in Keys \cup Jobs :
                \/ jobs' = [StepsCanceled(jobs, l, S) EXCEPT ![j] = QueuedRow(l, s, k)]
                \/ jobs' = [jobs EXCEPT ![j] = QueuedRow(l, s, k)]
  <2>1. {s} \cup Downstream[s] \in SUBSET Steps
    BY DagAssumption
  <2>2. CASE Submit(l, s)
    BY <2>1, <2>2, ZenonT(60) DEF Submit
  <2>3. CASE Reset(l, s)
    BY <2>1, <2>3, ZenonT(60) DEF Reset
  <2>4. CASE \E k \in Keys : Retry(l, s, k)
    BY <2>1, <2>4, ZenonT(60) DEF Retry
  <2>5. CASE \E k \in Keys : Request(l, s, k)
    BY <2>1, <2>5, ZenonT(60) DEF Request
  <2>6. QED
    BY <2>2, <2>3, <2>4, <2>5
<1>4. ASSUME NEW i \in Jobs
      PROVE  \/ jobs'[i].status \notin Committable
             \/ jobs'[i] = jobs[i]
  <2>1. StepsCanceled(jobs, l, S) \in [Jobs -> JobRow]
    BY <1>1, StepsCanceledRows
  <2>2. \/ StepsCanceled(jobs, l, S)[i].status = "canceled"
        \/ StepsCanceled(jobs, l, S)[i] = jobs[i]
    BY <1>1 DEF StepsCanceled, JobRow
  <2>3. \A k : QueuedRow(l, s, k).status = "queued"
    BY DEF QueuedRow, NoRow
  <2>4. QED
    BY <1>1, <1>3, <2>1, <2>2, <2>3 DEF Committable
<1>5. LeasesOnlyEnd
  BY <1>4 DEF LeasesOnlyEnd, HoldsLease
<1>6. ArtefactsOnlyGo
  <2>1. UNCHANGED artefacts \/ \E R : artefacts' = ArtefactsObsolete(l, R)
    BY Zenon DEF Submit, Reset, Retry, Request
  <2>2. QED
    BY <1>1, <2>1 DEF ArtefactsOnlyGo, ArtefactsObsolete
<1>7. QED
  BY <1>2, <1>5, <1>6, LotLoses DEF StatusesStay

\* The sweep takes no lease that has not lapsed.
LEMMA ExpiredLeases ==
  ASSUME IInv, NEW j \in Jobs
  PROVE  /\ Expired(jobs)[j].lot = jobs[j].lot
         /\ Expired(jobs)[j].status \in Committable /\ ~Expired(jobs)[j].lapsed
              <=> HoldsLease(j)
<1>1. jobs[j] \in JobRow
  BY DEF IInv, TypeOK
<1>2. QED
  BY <1>1 DEF Expired, HoldsLease, JobRow, Committable

LEMMA AcquireLives ==
  ASSUME IInv, NEW w \in Workers, Acquire(w)
  PROVE  Life!LifeNext
<1>1. jobs \in [Jobs -> JobRow] /\ Expired(jobs) \in [Jobs -> JobRow]
  BY ExpiredRows DEF IInv, TypeOK
<1>2. PICK j \in Eligible(Expired(jobs)) :
        jobs' = [Expired(jobs) EXCEPT ![j].status = "leased", ![j].lapsed = FALSE,
                                      ![j].version = NextVersion(j)]
  BY ZenonT(60) DEF Acquire
<1>3. /\ j \in Jobs /\ Open(Expired(jobs)[j].lot)
      /\ Expired(jobs)[j].status \in {"queued", "expired"}
  BY <1>2 DEF Eligible
<1>4. PICK l \in Lots : l = jobs[j].lot /\ Open(l)
  BY <1>3, ExpiredStates, JobStates DEF Lost, Active, Committable
<1>5. /\ jobs'[j].lot = l /\ HoldsLease(j)'
      /\ \A i \in Jobs : i # j => jobs'[i] = Expired(jobs)[i]
  BY <1>1, <1>2, <1>3, <1>4, ExpiredLeases DEF HoldsLease, JobRow, Committable
<1>6. ASSUME NEW k \in Lots
      PROVE  LeasedLots'[k] = IF k = l THEN TRUE ELSE LeasedLots[k]
  <2>1. CASE k = l
    BY <1>3, <1>5, <2>1 DEF LeasedLots, ProcessingOf, HoldsLease
  <2>2. CASE k # l
    <3>1. ASSUME NEW i \in Jobs
          PROVE  HoldsLease(i)' /\ jobs'[i].lot = k <=> HoldsLease(i) /\ jobs[i].lot = k
      BY <1>4, <1>5, <2>2, ExpiredLeases DEF HoldsLease
    <3>2. QED
      BY <2>2, <3>1 DEF LeasedLots, ProcessingOf, HoldsLease
  <2>3. QED
    BY <2>1, <2>2
<1>7. LeasedLots' = [LeasedLots EXCEPT ![l] = TRUE]
  BY <1>6 DEF LeasedLots
<1>8. LotStates[l] = "open"
  BY <1>4, NotDeleted
<1>9. UNCHANGED <<lots, artefacts>>
  BY DEF Acquire
<1>10. QED
  BY <1>7, <1>8, <1>9, LotTakes DEF StatusesStay

LEMMA PublishLives ==
  ASSUME IInv, NEW w \in Workers, Publish(w)
  PROVE  Life!LifeNext
<1>1. artefacts \in [Lots -> [Steps -> SUBSET (Jobs \X Nat)]]
  BY DEF IInv, TypeOK
<1>2. PICK l \in Lots, s \in Steps :
        /\ l = jobs[workers[w].job].lot /\ s = jobs[workers[w].job].step
        /\ ~Deleted(l)
  BY Zenon DEF Publish, Fenced, Current
<1>3. /\ UNCHANGED <<lots, jobs>>
      /\ artefacts' = [artefacts EXCEPT ![l][s] = {<<workers[w].job, workers[w].version>>}]
  BY <1>2, ZenonT(60) DEF Publish
<1>4. artefacts'[l][s] # {} /\ \A k \in Lots : k # l => artefacts'[k] = artefacts[k]
  BY <1>1, <1>3
<1>5. ASSUME NEW k \in Lots
      PROVE  ExposedLots'[k] = IF k = l THEN TRUE ELSE ExposedLots[k]
  BY <1>4 DEF ExposedLots
<1>6. ExposedLots' = [ExposedLots EXCEPT ![l] = TRUE]
  BY <1>5 DEF ExposedLots
<1>7. LeasesOnlyEnd
  BY <1>3 DEF LeasesOnlyEnd, HoldsLease
<1>8. LotStates[l] \in {"open", "canceled"}
  BY <1>2, NotDeleted
<1>9. QED
  BY <1>3, <1>6, <1>7, <1>8, LotExposes DEF StatusesStay

\* The steps of a cycle between two transactions, and those that end a job.
LEMMA CyclesLive ==
  ASSUME IInv, NEW w \in Workers,
         Start(w) \/ FinishSuccess(w) \/ FinishBlocked(w) \/ FinishFailed(w)
  PROVE  Life!LifeNext
<1>1. jobs \in [Jobs -> JobRow]
  BY DEF IInv, TypeOK
<1>2. UNCHANGED <<lots, artefacts>>
  BY Zenon DEF Start, FinishSuccess, FinishBlocked, FinishFailed
<1>3. workers[w].pc # "idle" /\ Owned(w)
  BY Zenon DEF Start, FinishSuccess, FinishBlocked, FinishFailed
<1>4. PICK j \in Jobs : j = workers[w].job /\ HoldsLease(j)
  BY <1>3, WorkerFacts DEF Owned, Fenced, HoldsLease
<1>5. ASSUME NEW st, jobs' = [jobs EXCEPT ![j].status = st]
      PROVE  LeasesOnlyEnd
  BY <1>1, <1>4, <1>5 DEF LeasesOnlyEnd, HoldsLease, JobRow
<1>6. ASSUME Start(w) \/ FinishBlocked(w) \/ FinishFailed(w)
      PROVE  LeasesOnlyEnd
  BY <1>4, <1>5, <1>6, Zenon DEF Start, FinishBlocked, FinishFailed
<1>7. ASSUME FinishSuccess(w)
      PROVE  LeasesOnlyEnd
  <2>1. PICK Q, id : jobs' = RowsFinished(j, jobs[j].lot, Q, id)
    BY <1>4, <1>7, Zenon DEF FinishSuccess
  <2>2. ASSUME NEW i \in Jobs
        PROVE  jobs'[i].status \in {"succeeded", "queued"} \/ jobs'[i] = jobs[i]
    BY <1>1, <2>1, ZenonT(60) DEF RowsFinished, QueuedRow, NoRow, JobRow
  <2>3. QED
    BY <2>2 DEF LeasesOnlyEnd, HoldsLease, Committable
<1>8. LeasesOnlyEnd
  BY <1>6, <1>7
<1>9. QED
  BY <1>2, <1>8, LotLoses DEF StatusesStay, ArtefactsOnlyGo

LEMMA CancelsLive ==
  ASSUME IInv, NEW w \in Workers, FinishCanceled(w)
  PROVE  Life!LifeNext
<1>1. jobs \in [Jobs -> JobRow] /\ lots \in [Lots -> LotRow]
  BY DEF IInv, TypeOK
<1>2. PICK j \in Jobs, l \in Lots : j = workers[w].job /\ l = jobs[j].lot
  BY WorkerFacts, Zenon DEF FinishCanceled, Fenced, Current
<1>3. LeasesOnlyEnd
  <2>1. jobs' = [jobs EXCEPT ![j].status = "canceled"]
    BY <1>2, ZenonT(60) DEF FinishCanceled
  <2>2. QED
    BY <1>1, <1>2, <2>1, ZenonT(60) DEF LeasesOnlyEnd, HoldsLease, JobRow, Committable
<1>4. UNCHANGED artefacts
  BY Zenon DEF FinishCanceled
<1>5. CASE Deleted(l)
  <2>1. UNCHANGED lots
    BY <1>2, <1>5, ZenonT(60) DEF FinishCanceled
  <2>2. QED
    BY <1>3, <1>4, <2>1, LotLoses DEF StatusesStay, ArtefactsOnlyGo
<1>6. CASE ~Deleted(l)
  <2>1. lots' = [lots EXCEPT ![l].status = "annule"]
    BY <1>2, <1>6, ZenonT(60) DEF FinishCanceled
  <2>2. \A k \in Lots : lots'[k].status = IF k = l THEN "annule" ELSE lots[k].status
    BY <1>1, <2>1 DEF LotRow
  <2>3. LotStates' = [LotStates EXCEPT ![l] = "canceled"]
    BY <2>2, StatusShown, ClosedStates
  <2>4. LotStates[l] \in {"open", "canceled"}
    BY <1>6, NotDeleted
  <2>5. QED
    BY <1>3, <1>4, <2>3, <2>4, LotCancels
<1>7. QED
  BY <1>5, <1>6

\* The tables of DELETE and of the purge loop before the lot goes: the queued
\* jobs are canceled, the lapsed ones expired, and the leases stay.
LEMMA DroppedLeases ==
  ASSUME IInv, NEW l \in Lots, NEW js,
         \/ js = QueueCanceled(Expired(jobs), l)
         \/ js = Expired(QueueCanceled(jobs, l))
  PROVE  \A j \in Jobs :
           /\ js[j].lot = jobs[j].lot
           /\ js[j].status \in Committable /\ ~js[j].lapsed <=> HoldsLease(j)
<1>1. jobs \in [Jobs -> JobRow] /\ Expired(jobs) \in [Jobs -> JobRow]
  BY ExpiredRows DEF IInv, TypeOK
<1>2. \A j \in Jobs : js[j].lot = jobs[j].lot
  BY DroppedStates
<1>3. CASE js = QueueCanceled(Expired(jobs), l)
  <2>1. ASSUME NEW j \in Jobs
        PROVE  \/ js[j] = Expired(jobs)[j]
               \/ js[j].status = "canceled" /\ Expired(jobs)[j].status = "queued"
    BY <1>1, <1>3 DEF QueueCanceled, JobRow
  <2>2. QED
    BY <1>2, <2>1, ExpiredLeases DEF Committable
<1>4. CASE js = Expired(QueueCanceled(jobs, l))
  <2>1. ASSUME NEW j \in Jobs
        PROVE  \/ js[j] = Expired(jobs)[j]
               \/ js[j].status = "canceled" /\ jobs[j].status = "queued"
    <3> DEFINE ks == QueueCanceled(jobs, l)
    <3>1. \/ ks[j] = jobs[j]
          \/ ks[j].status = "canceled" /\ jobs[j].status = "queued"
      BY <1>1 DEF QueueCanceled, JobRow
    <3> HIDE DEF ks
    <3>2. /\ ks[j].status \notin Committable => js[j] = ks[j]
          /\ ks[j] = jobs[j] => js[j] = Expired(jobs)[j]
      BY <1>4, ZenonT(60) DEF Expired, ks
    <3>3. QED
      BY <3>1, <3>2 DEF Committable
  <2>2. QED
    BY <1>2, <2>1, ExpiredLeases DEF HoldsLease, Committable
<1>5. QED
  BY <1>3, <1>4

LEMMA DeletesLive ==
  ASSUME IInv, NEW l \in Lots, Delete(l) \/ Purge(l)
  PROVE  Life!LifeNext
<1>1. lots[l].status # "purge"
  BY DEF Delete, Purge
<1>2. PICK js :
        /\ \/ js = QueueCanceled(Expired(jobs), l)
           \/ js = Expired(QueueCanceled(jobs, l))
        /\ \/ ProcessingOf(js, l) = {} /\ Purged(js, l)
           \/ /\ jobs' = js /\ UNCHANGED artefacts
              /\ \/ lots' = [lots EXCEPT ![l].status = "supprime"]
                 \/ UNCHANGED lots
  BY DEF Delete, Purge
<1>3. \A j \in Jobs :
        /\ js[j].lot = jobs[j].lot
        /\ js[j].status \in Committable /\ ~js[j].lapsed <=> HoldsLease(j)
  BY <1>2, DroppedLeases
<1>4. LotStates[l] # "purged"
  BY <1>1, NotDeleted
<1>5. CASE ProcessingOf(js, l) = {} /\ Purged(js, l)
  <2>1. \A j \in Jobs : HoldsLease(j) => jobs[j].lot # l
    BY <1>3, <1>5 DEF ProcessingOf
  <2>2. ~LeasedLots[l]
    BY <2>1 DEF LeasedLots, ProcessingOf, HoldsLease
  <2>3. LeasesStay
    <3>1. ASSUME NEW j \in Jobs
          PROVE  jobs'[j] = IF js[j].lot = l THEN [NoRow EXCEPT !.status = "purged"] ELSE js[j]
      BY <1>5 DEF Purged
    <3>2. QED
      BY <1>3, <2>1, <3>1 DEF LeasesStay, HoldsLease, NoRow, Committable
  <2>4. \A k \in Lots : lots'[k].status = IF k = l THEN "purge" ELSE lots[k].status
    BY <1>5 DEF Purged, IInv, TypeOK, LotRow
  <2>5. LotStates' = [LotStates EXCEPT ![l] = "purged"]
    BY <2>4, StatusShown, ClosedStates
  <2>6. \A k \in Lots, s \in Steps : artefacts'[k][s] = IF k = l THEN {} ELSE artefacts[k][s]
    BY <1>5 DEF Purged, IInv, TypeOK
  <2>7. ExposedLots' = [ExposedLots EXCEPT ![l] = FALSE]
    BY <2>6 DEF ExposedLots
  <2>8. QED
    BY <1>4, <2>2, <2>3, <2>5, <2>7, LotPurges
<1>6. CASE jobs' = js /\ UNCHANGED artefacts
  <2>1. LeasesStay /\ LeasesOnlyEnd
    BY <1>3, <1>6 DEF LeasesStay, LeasesOnlyEnd, HoldsLease
  <2>2. CASE lots' = [lots EXCEPT ![l].status = "supprime"]
    <3>1. \A k \in Lots : lots'[k].status = IF k = l THEN "supprime" ELSE lots[k].status
      BY <2>2 DEF IInv, TypeOK, LotRow
    <3>2. LotStates' = [LotStates EXCEPT ![l] = "deleted"]
      BY <3>1, StatusShown, ClosedStates
    <3>3. QED
      BY <1>4, <1>6, <2>1, <3>2, LotDeletes
  <2>3. CASE UNCHANGED lots
    BY <1>6, <2>1, <2>3, LotLoses DEF StatusesStay, ArtefactsOnlyGo
  <2>4. QED
    BY <1>2, <1>5, <2>2, <2>3 DEF Purged
<1>7. QED
  BY <1>2, <1>5, <1>6

\* What shows nothing of a lot, or only that a lease has lapsed.
LEMMA OthersLive ==
  ASSUME IInv,
         \/ UNCHANGED vars
         \/ Sweep
         \/ \E l \in Lots : RequestCancel(l)
         \/ \E w \in Workers : Crash(w) \/ HandlerBegins(w)
              \/ HandlerReturns(w, "termine") \/ HandlerReturns(w, "bloque")
              \/ HandlerRaises(w) \/ HandlerCanceled(w) \/ LeaseLost(w) \/ Rejected(w)
         \/ \E j \in Jobs : OrphanLapses(j) \/ HeldLapses(j)
  PROVE  Life!LifeNext
<1>1. jobs \in [Jobs -> JobRow] /\ lots \in [Lots -> LotRow]
  BY DEF IInv, TypeOK
<1>2. CASE UNCHANGED <<lots, jobs, artefacts>>
  BY <1>2, LotLoses DEF StatusesStay, LeasesOnlyEnd, HoldsLease, ArtefactsOnlyGo
<1>3. CASE Sweep
  <2>1. LeasesOnlyEnd
    BY <1>3, ExpiredLeases DEF Sweep, LeasesOnlyEnd, HoldsLease
  <2>2. QED
    BY <1>3, <2>1, LotLoses DEF Sweep, StatusesStay, ArtefactsOnlyGo
<1>4. ASSUME NEW l \in Lots, RequestCancel(l)
      PROVE  Life!LifeNext
  <2>1. StatusesStay
    BY <1>1, <1>4 DEF RequestCancel, StatusesStay, LotRow
  <2>2. QED
    BY <1>4, <2>1, LotLoses DEF RequestCancel, LeasesOnlyEnd, HoldsLease, ArtefactsOnlyGo
<1>5. ASSUME NEW j \in Jobs, OrphanLapses(j) \/ HeldLapses(j)
      PROVE  Life!LifeNext
  <2>1. jobs' = [jobs EXCEPT ![j].lapsed = TRUE] /\ UNCHANGED <<lots, artefacts>>
    BY <1>5 DEF OrphanLapses, HeldLapses, LapsedNow
  <2>2. LeasesOnlyEnd
    BY <1>1, <2>1 DEF LeasesOnlyEnd, HoldsLease, JobRow
  <2>3. QED
    BY <2>1, <2>2, LotLoses DEF StatusesStay, ArtefactsOnlyGo
<1>6. QED
  BY <1>2, <1>3, <1>4, <1>5, Zenon
     DEF vars, Crash, HandlerBegins, HandlerReturns, HandlerRaises,
         HandlerCanceled, LeaseLost, Rejected

LEMMA InitLife == Init => Life!LifeInit
<1> SUFFICES ASSUME Init
             PROVE  Life!LifeInit
  OBVIOUS
<1>1. LotStates = [l \in Lots |-> "open"]
  BY DEF Init, LotStates, LotState
<1>2. LeasedLots = [l \in Lots |-> FALSE]
  BY DEF Init, LeasedLots, ProcessingOf, NoRow, Committable
<1>3. ExposedLots = [l \in Lots |-> FALSE]
  BY DEF Init, ExposedLots
<1>4. QED
  BY <1>1, <1>2, <1>3 DEF Life!LifeInit

\* Each operation of the queue is a step in the life of one lot, or a loss.
LEMMA NextLife == IInv /\ [Next]_vars => [Life!LifeNext]_(Life!lifeVars)
<1> SUFFICES ASSUME IInv, [Next]_vars
             PROVE  Life!LifeNext
  OBVIOUS
<1>1. ASSUME NEW l \in Lots, NEW s \in Steps,
             \/ Submit(l, s) \/ Reset(l, s)
             \/ \E k \in Keys : Retry(l, s, k) \/ Request(l, s, k)
      PROVE  Life!LifeNext
  BY <1>1, DecisionsLive
<1>2. ASSUME NEW l \in Lots, RequestCancel(l) \/ Delete(l) \/ Purge(l)
      PROVE  Life!LifeNext
  BY <1>2, DeletesLive, OthersLive
<1>3. ASSUME NEW w \in Workers, Acquire(w) \/ Cycle(w) \/ Crash(w)
      PROVE  Life!LifeNext
  BY <1>3, AcquireLives, PublishLives, CyclesLive, CancelsLive, OthersLive DEF Cycle
<1>4. CASE UNCHANGED vars \/ Sweep \/ \E j \in Jobs : OrphanLapses(j) \/ HeldLapses(j)
  BY <1>4, OthersLive
<1>5. QED
  BY <1>1, <1>2, <1>3, <1>4 DEF Next

\* The queue implements the life of a lot: whatever decisions, cycles, lapses
\* and crashes do, no lease begins on a lot that is closed, nothing is committed
\* on a deleted lot, no lot is purged under a lease that has not lapsed, and a
\* late cancellation does not bring a deleted lot back.
THEOREM QueueKeepsTheLifeOfLots == Spec => KeepsTheLifeOfLots
<1>1. Init => Life!LifeInit
  BY InitLife
<1>2. IInv /\ [Next]_vars => [Life!LifeNext]_(Life!lifeVars)
  BY NextLife
<1>3. QED
  BY <1>1, <1>2, Invariance, PTL DEF Spec, KeepsTheLifeOfLots, Life!LifeSpec
=============================================================================
