--------------------------- MODULE JobQueueProofs ---------------------------
(***************************************************************************)
(* Theorems about the job queue, for any lots, steps, workers, keys and    *)
(* bounds.                                                                 *)
(***************************************************************************)
EXTENDS JobQueue, TLAPS

\* ks is the table js with some jobs taken out of the queue: rows keep their
\* lot, step and lease version, and no row appears, vanishes or gets active.
Keeps(js, ks) ==
  \A j \in Jobs :
    /\ ks[j].lot = js[j].lot
    /\ ks[j].step = js[j].step
    /\ ks[j].version = js[j].version
    /\ ks[j].status \in Active => js[j].status \in Active
    /\ ks[j].status = "absent" <=> js[j].status = "absent"
    /\ ks[j].status = "purged" <=> js[j].status = "purged"

\* expire_stale_leases keeps the table well typed and takes jobs out only.
LEMMA ExpiredRows ==
  ASSUME NEW js \in [Jobs -> JobRow]
  PROVE  /\ Expired(js) \in [Jobs -> JobRow]
         /\ Keeps(js, Expired(js))
BY ZenonT(60) DEF Expired, Keeps, JobRow, Active, Committable, Final

\* cancel_active_for_step keeps the table well typed, takes jobs out only, and
\* leaves no active job of the steps.
LEMMA StepsCanceledRows ==
  ASSUME NEW js \in [Jobs -> JobRow], NEW l \in Lots, NEW S \in SUBSET Steps
  PROVE  /\ StepsCanceled(js, l, S) \in [Jobs -> JobRow]
         /\ Keeps(js, StepsCanceled(js, l, S))
         /\ \A j \in Jobs : StepsCanceled(js, l, S)[j].status \in Active =>
              ~(StepsCanceled(js, l, S)[j].lot = l
                /\ StepsCanceled(js, l, S)[j].step \in S)
BY ZenonT(60) DEF StepsCanceled, Keeps, JobRow, Active, Committable, Final

\* cancel_queued_for_lot keeps the table well typed and takes jobs out only.
LEMMA QueueCanceledRows ==
  ASSUME NEW js \in [Jobs -> JobRow], NEW l \in Lots
  PROVE  /\ QueueCanceled(js, l) \in [Jobs -> JobRow]
         /\ Keeps(js, QueueCanceled(js, l))
BY DEF QueueCanceled, Keeps, JobRow, Active, Committable, Final

\* A new row is well typed.
LEMMA QueuedRowType ==
  ASSUME NEW l \in Lots, NEW s \in Steps, NEW k \in Keys \cup Jobs
  PROVE  QueuedRow(l, s, k) \in JobRow
BY DEF QueuedRow, NoRow, JobRow, Active

\* invalidate_downstream keeps the steps and artefacts well typed.
LEMMA InvalidatedTypes ==
  ASSUME TypeOK, NEW l \in Lots, NEW S \in SUBSET Steps
  PROVE  /\ StepsInvalidated(l, S) \in [Lots -> [Steps -> StepRow]]
         /\ ArtefactsObsolete(l, S) \in [Lots -> [Steps -> SUBSET (Jobs \X Nat)]]
BY DEF TypeOK, StepsInvalidated, ArtefactsObsolete, StepRow, RunIds

-----------------------------------------------------------------------------
\* A step that activates no job: every job keeps its row, every step its run,
\* every worker its lease or goes idle, and a purged lot gains nothing.
WorkersKeepTheirLease ==
  \A w \in Workers :
    workers'[w].pc # "idle" =>
      /\ workers[w].pc # "idle"
      /\ workers'[w].job = workers[w].job
      /\ workers'[w].version = workers[w].version

RowsStay ==
  \A j \in Jobs :
    /\ jobs[j].status # "absent" => jobs'[j].status # "absent"
    /\ jobs[j].status = "purged" => jobs'[j].status = "purged"
    /\ (jobs[j].status # "absent" /\ jobs'[j].status # "purged") =>
         jobs[j].version <= jobs'[j].version

RunsStay ==
  \A l \in Lots, s \in Steps : etapes'[l][s].run = etapes[l][s].run

PurgedLotsGainNothing ==
  \A l \in Lots :
    lots'[l].status = "purge" =>
      /\ lots[l].status = "purge"
      /\ \A s \in Steps : artefacts'[l][s] \subseteq artefacts[l][s]

\* No step but an acquisition can break the fencing: versions only grow, and
\* the row of a worker's job stays or is purged.
LEMMA FencingKept ==
  ASSUME IInv, TypeOK', RowsStay, WorkersKeepTheirLease
  PROVE  LeasesAreNotAhead' /\ LeasesAreFenced'
<1>1. LeasesAreNotAhead'
  <2>1. SUFFICES ASSUME NEW w \in Workers, workers'[w].pc # "idle"
                 PROVE  LET j == workers'[w].job IN
                        /\ j \in Jobs
                        /\ jobs'[j].status # "absent"
                        /\ jobs'[j].status # "purged" =>
                             workers'[w].version <= jobs'[j].version
    BY DEF LeasesAreNotAhead
  <2>2. workers[w].pc # "idle" /\ workers'[w].job = workers[w].job
        /\ workers'[w].version = workers[w].version
    BY <2>1 DEF WorkersKeepTheirLease
  <2>3. workers[w].job \in Jobs /\ jobs[workers[w].job].status # "absent"
        /\ (jobs[workers[w].job].status # "purged" =>
              workers[w].version <= jobs[workers[w].job].version)
    BY <2>2 DEF IInv, LeasesAreNotAhead
  <2>4. workers[w].version \in Nat /\ jobs[workers[w].job].version \in Nat
        /\ jobs'[workers[w].job].version \in Nat
    BY <2>3 DEF IInv, TypeOK, WorkerState, JobRow
  <2>5. QED
    BY <2>2, <2>3, <2>4 DEF RowsStay
<1>2. LeasesAreFenced'
  BY DEF IInv, LeasesAreFenced, WorkersKeepTheirLease
<1>3. QED
  BY <1>1, <1>2

\* A table that only takes jobs out of the queue keeps its rows.
LEMMA KeptRowsStay ==
  ASSUME IInv, TypeOK', Keeps(jobs, jobs')
  PROVE  RowsStay
BY DEF Keeps, RowsStay, IInv, TypeOK, JobRow

\* A step that activates no job and moves no run preserves the invariant.
LEMMA QuietStep ==
  ASSUME IInv, TypeOK', Keeps(jobs, jobs'), RunsStay, WorkersKeepTheirLease,
         PurgedLotsGainNothing
  PROVE  IInv'
<1>1. LeasesAreNotAhead' /\ LeasesAreFenced'
  BY KeptRowsStay, FencingKept
<1>2. RunsHaveRows'
  BY DEF IInv, RunsHaveRows, Keeps, RunsStay
<1>3. OneActiveJobPerStep'
  BY DEF IInv, OneActiveJobPerStep, ActiveOf, RowsOf, Keeps
<1>4. ActiveJobsAreCurrentOrHandedOver'
  <2>1. SUFFICES ASSUME NEW j \in Jobs, jobs'[j].status \in Active
                 PROVE  \/ Current(j)'
                        \/ /\ jobs'[j].lot \in Lots
                           /\ jobs'[j].step \in HandedOver
                           /\ etapes'[jobs'[j].lot][jobs'[j].step].run = UserRun
    BY DEF ActiveJobsAreCurrentOrHandedOver
  <2>2. jobs[j].status \in Active /\ jobs'[j].lot = jobs[j].lot
        /\ jobs'[j].step = jobs[j].step
    BY <2>1 DEF Keeps
  <2>3. \/ Current(j)
        \/ /\ jobs[j].lot \in Lots
           /\ jobs[j].step \in HandedOver
           /\ etapes[jobs[j].lot][jobs[j].step].run = UserRun
    BY <2>2 DEF IInv, ActiveJobsAreCurrentOrHandedOver
  <2>4. HandedOver \subseteq Steps
    BY DagAssumption DEF HandedOver
  <2>5. QED
    BY <2>2, <2>3, <2>4 DEF Current, RunsStay
<1>5. PurgedLotIsEmpty'
  BY DEF IInv, PurgedLotIsEmpty, Keeps, PurgedLotsGainNothing
<1>6. RowsHaveSteps'
  BY DEF IInv, RowsHaveSteps, Keeps
<1>7. QED
  BY <1>1, <1>2, <1>3, <1>4, <1>5, <1>6 DEF IInv

-----------------------------------------------------------------------------
\* A worker that is not idle has the row of a job and a lease version.
LEMMA WorkerFacts ==
  ASSUME IInv, NEW w \in Workers, workers[w].pc # "idle"
  PROVE  /\ workers[w].job \in Jobs
         /\ workers[w].version \in Nat
         /\ jobs[workers[w].job] \in JobRow
         /\ jobs[workers[w].job].status # "absent"
BY DEF IInv, LeasesAreNotAhead, TypeOK, WorkerState

\* Moving or stopping a worker keeps it well typed and keeps its lease.
LEMMA WorkerMoves ==
  ASSUME IInv, NEW w \in Workers, workers[w].pc # "idle",
         \/ \E pc \in {"started", "handler", "termine", "bloque", "echoue",
                       "annule"} : Goto(w, pc)
         \/ Stop(w)
  PROVE  workers' \in [Workers -> WorkerState] /\ WorkersKeepTheirLease
<1>1. CASE Stop(w)
  BY <1>1 DEF IInv, TypeOK, Stop, Idle, WorkerState, WorkersKeepTheirLease
<1>2. ASSUME NEW pc \in {"started", "handler", "termine", "bloque", "echoue",
                         "annule"},
             Goto(w, pc)
      PROVE  workers' \in [Workers -> WorkerState] /\ WorkersKeepTheirLease
  BY <1>2, SMTT(40) DEF IInv, TypeOK, Goto, WorkerState, WorkersKeepTheirLease
<1>3. QED
  BY <1>1, <1>2

\* Nothing but a worker moves.
LEMMA WorkerOnlyStep ==
  ASSUME IInv, workers' \in [Workers -> WorkerState], WorkersKeepTheirLease,
         crashes' \in 0..MaxCrashes,
         UNCHANGED <<lots, etapes, jobs, artefacts, lapses>>
  PROVE  IInv'
<1>1. TypeOK'
  BY DEF IInv, TypeOK
<1>2. Keeps(jobs, jobs') /\ RunsStay /\ PurgedLotsGainNothing
  BY DEF Keeps, RunsStay, PurgedLotsGainNothing
<1>3. QED
  BY <1>1, <1>2, QuietStep

\* The row of job j gets the status st, no more active than it was, and the
\* step of j, if it has one, the status q.
LEMMA OutcomeWritten ==
  ASSUME IInv, NEW w \in Workers, workers[w].pc # "idle",
         NEW st \in {"running", "succeeded", "failed", "canceled"},
         NEW q \in {"en_cours", "termine", "bloque", "echoue", "annule"},
         Fenced(w),
         jobs' = [jobs EXCEPT ![workers[w].job].status = st],
         \/ etapes' = [etapes EXCEPT
              ![jobs[workers[w].job].lot][jobs[workers[w].job].step].status = q]
         \/ UNCHANGED etapes
  PROVE  /\ jobs' \in [Jobs -> JobRow]
         /\ etapes' \in [Lots -> [Steps -> StepRow]]
         /\ Keeps(jobs, jobs')
         /\ RunsStay
<1> DEFINE j == workers[w].job
<1>1. j \in Jobs /\ jobs[j] \in JobRow
  BY WorkerFacts, Zenon
<1>2. jobs[j].status \in Committable /\ jobs[j].lot \in Lots
      /\ jobs[j].step \in Steps
  BY Zenon DEF Fenced, Current
<1>3. jobs' \in [Jobs -> JobRow] /\ Keeps(jobs, jobs')
  BY <1>1, <1>2 DEF IInv, TypeOK, JobRow, Keeps, Active, Committable, Final
<1>4. etapes' \in [Lots -> [Steps -> StepRow]] /\ RunsStay
  <2>1. PICK l \in Lots, s \in Steps : l = jobs[j].lot /\ s = jobs[j].step
    BY <1>2, Zenon
  <2>2. etapes \in [Lots -> [Steps -> StepRow]]
    BY DEF IInv, TypeOK
  <2>3. CASE etapes' = [etapes EXCEPT ![l][s].status = q]
    <3>1. etapes[l][s] \in StepRow
      BY <2>1, <2>2, Zenon
    <3>2. [etapes[l][s] EXCEPT !.status = q] \in StepRow
      BY <3>1, Zenon DEF StepRow
    <3>3. QED
      BY <2>1, <2>2, <2>3, <3>1, <3>2, ZenonT(60) DEF RunsStay, StepRow
  <2>4. QED
    BY <2>1, <2>2, <2>3, Zenon DEF RunsStay
<1>5. QED
  BY <1>3, <1>4, Zenon

\* Every step of a worker cycle but the successful end preserves the invariant.
LEMMA CycleQuiet ==
  ASSUME IInv, NEW w \in Workers,
         (Cycle(w) /\ ~FinishSuccess(w)) \/ Crash(w)
  PROVE  IInv'
<1> USE BoundAssumption
<1>0. crashes \in 0..MaxCrashes /\ workers[w].pc # "idle"
  BY Zenon DEF IInv, TypeOK, Cycle, Start, HandlerBegins, Publish, HandlerReturns,
         HandlerRaises, HandlerCanceled, LeaseLost, FinishSuccess,
         FinishBlocked, FinishFailed, FinishCanceled, Rejected, Crash
<1>1. CASE \/ HandlerBegins(w) \/ HandlerReturns(w, "termine")
           \/ HandlerReturns(w, "bloque") \/ HandlerRaises(w)
           \/ HandlerCanceled(w) \/ LeaseLost(w) \/ Rejected(w)
  <2>1. UNCHANGED <<lots, etapes, jobs, artefacts, lapses, crashes>>
        /\ (\/ \E pc \in {"started", "handler", "termine", "bloque", "echoue",
                          "annule"} : Goto(w, pc)
            \/ Stop(w))
    BY <1>1 DEF HandlerBegins, HandlerReturns, HandlerRaises, HandlerCanceled,
                LeaseLost, Rejected
  <2>2. QED
    BY <1>0, <2>1, WorkerMoves, WorkerOnlyStep
<1>2. CASE Crash(w)
  <2>1. crashes' \in 0..MaxCrashes
    BY <1>0, <1>2 DEF Crash
  <2>2. QED
    BY <1>0, <1>2, <2>1, WorkerMoves, WorkerOnlyStep DEF Crash
<1>3. CASE Start(w) \/ FinishBlocked(w) \/ FinishFailed(w)
  <2>1. /\ jobs' \in [Jobs -> JobRow]
        /\ etapes' \in [Lots -> [Steps -> StepRow]]
        /\ Keeps(jobs, jobs')
        /\ RunsStay
    BY <1>0, <1>3, OutcomeWritten, Zenon DEF Start, FinishBlocked, FinishFailed, Owned
  <2>2. workers' \in [Workers -> WorkerState] /\ WorkersKeepTheirLease
    BY <1>0, <1>3, WorkerMoves, Zenon DEF Start, FinishBlocked, FinishFailed
  <2>3. TypeOK' /\ PurgedLotsGainNothing
    BY <1>3, <2>1, <2>2, Zenon DEF IInv, TypeOK, PurgedLotsGainNothing, Start,
                            FinishBlocked, FinishFailed
  <2>4. QED
    BY <2>1, <2>2, <2>3, QuietStep
<1>4. CASE FinishCanceled(w)
  <2> DEFINE l == jobs[workers[w].job].lot
  <2>1. /\ jobs' \in [Jobs -> JobRow]
        /\ etapes' \in [Lots -> [Steps -> StepRow]]
        /\ Keeps(jobs, jobs')
        /\ RunsStay
    BY <1>0, <1>4, OutcomeWritten, Zenon DEF FinishCanceled
  <2>2. workers' \in [Workers -> WorkerState] /\ WorkersKeepTheirLease
    BY <1>0, <1>4, WorkerMoves, Zenon DEF FinishCanceled
  <2>3. \/ UNCHANGED lots
        \/ lots' = [lots EXCEPT ![l].status = "annule"]
    BY <1>4, Zenon DEF FinishCanceled
  <2>4. lots' \in [Lots -> LotRow]
        /\ \A k \in Lots : lots'[k].status = "purge" => lots[k].status = "purge"
    BY <2>3, ZenonT(60) DEF IInv, TypeOK, LotRow, Blocked
  <2>5. TypeOK' /\ PurgedLotsGainNothing
    BY <1>4, <2>1, <2>2, <2>4, Zenon DEF IInv, TypeOK, PurgedLotsGainNothing,
                                  FinishCanceled
  <2>6. QED
    BY <2>1, <2>2, <2>5, QuietStep
<1>5. CASE Publish(w)
  <2> DEFINE j == workers[w].job
             l == jobs[j].lot
             s == jobs[j].step
  <2>1. j \in Jobs /\ workers[w].version \in Nat
    BY <1>0, WorkerFacts
  <2>2. l \in Lots /\ s \in Steps /\ lots[l].status # "purge"
    BY <1>5 DEF Publish, Fenced, Current, Deleted
  <2>3. artefacts' = [artefacts EXCEPT ![l][s] = {<<j, workers[w].version>>}]
        /\ workers' = [workers EXCEPT ![w].published = TRUE]
        /\ UNCHANGED <<lots, etapes, jobs, lapses, crashes>>
    BY <1>5 DEF Publish
  <2>4. artefacts' \in [Lots -> [Steps -> SUBSET (Jobs \X Nat)]]
    BY <2>1, <2>2, <2>3 DEF IInv, TypeOK
  <2>5. workers' \in [Workers -> WorkerState] /\ WorkersKeepTheirLease
    BY <2>3, ZenonT(60) DEF IInv, TypeOK, WorkerState, WorkersKeepTheirLease
  <2>6. TypeOK'
    BY <2>3, <2>4, <2>5 DEF IInv, TypeOK
  <2>7. PurgedLotsGainNothing
    BY <2>2, <2>3 DEF IInv, TypeOK, PurgedLotsGainNothing
  <2>8. Keeps(jobs, jobs') /\ RunsStay
    BY <2>3 DEF Keeps, RunsStay
  <2>9. QED
    BY <2>5, <2>6, <2>7, <2>8, QuietStep
<1>6. QED
  BY <1>1, <1>2, <1>3, <1>4, <1>5 DEF Cycle

-----------------------------------------------------------------------------
\* What a step that queues jobs does to a row and to the run of a step.
RowKept(i) ==
  /\ jobs'[i].lot = jobs[i].lot
  /\ jobs'[i].step = jobs[i].step
  /\ jobs'[i].version = jobs[i].version
  /\ jobs'[i].status \in Active => jobs[i].status \in Active
  /\ jobs'[i].status = "absent" <=> jobs[i].status = "absent"
  /\ jobs'[i].status = "purged" <=> jobs[i].status = "purged"

RowQueued(i) ==
  /\ jobs[i].status = "absent"
  /\ jobs'[i].status = "queued"
  /\ jobs'[i].lot \in Lots /\ jobs'[i].step \in Steps
  /\ lots[jobs'[i].lot].status # "purge"
  /\ etapes'[jobs'[i].lot][jobs'[i].step].run = i

RunMoved(l, s) ==
  \/ etapes'[l][s].run = etapes[l][s].run
  \/ etapes'[l][s].run = UserRun /\ s \in HandedOver
  \/ /\ \/ etapes'[l][s].run = None
        \/ etapes'[l][s].run \in Jobs /\ RowQueued(etapes'[l][s].run)
     /\ \A i \in ActiveOf(jobs', l, s) : RowQueued(i)

\* A step that queues jobs of lots that accept writes, each as the run of a
\* step without another active job, preserves the invariant.
LEMMA QueueStep ==
  ASSUME IInv, TypeOK', WorkersKeepTheirLease, PurgedLotsGainNothing,
         \A i \in Jobs : RowKept(i) \/ RowQueued(i),
         \A l \in Lots, s \in Steps : RunMoved(l, s)
  PROVE  IInv'
<1> USE NullAssumption
<1>1. LeasesAreNotAhead' /\ LeasesAreFenced'
  <2>1. \A i \in Jobs : jobs[i].version \in Nat
    BY DEF IInv, TypeOK, JobRow
  <2>2. RowsStay
    BY <2>1 DEF RowKept, RowQueued, RowsStay
  <2>3. QED
    BY <2>2, FencingKept
<1>2. RunsHaveRows'
  <2>1. SUFFICES ASSUME NEW l \in Lots, NEW s \in Steps,
                        etapes'[l][s].run \in Jobs
                 PROVE  jobs'[etapes'[l][s].run].status # "absent"
    BY DEF RunsHaveRows
  <2>2. CASE etapes'[l][s].run = etapes[l][s].run
    BY <2>1, <2>2 DEF IInv, RunsHaveRows, RowKept, RowQueued
  <2>3. CASE RowQueued(etapes'[l][s].run)
    BY <2>1, <2>3 DEF RowQueued
  <2>4. QED
    BY <2>1, <2>2, <2>3 DEF RunMoved
<1>3. ASSUME NEW l \in Lots, NEW s \in Steps, NEW i \in ActiveOf(jobs', l, s),
             NEW k \in ActiveOf(jobs', l, s), RowQueued(i)
      PROVE  RowQueued(k)
  <2>1. i \in Jobs /\ etapes'[l][s].run = i /\ jobs[i].status = "absent"
    BY <1>3 DEF RowQueued, ActiveOf, RowsOf
  <2>2. etapes'[l][s].run # etapes[l][s].run
    BY <2>1 DEF IInv, RunsHaveRows
  <2>3. QED
    BY <1>3, <2>1, <2>2 DEF RunMoved
<1>4. OneActiveJobPerStep'
  <2>1. SUFFICES ASSUME NEW l \in Lots, NEW s \in Steps,
                        NEW i \in ActiveOf(jobs', l, s),
                        NEW k \in ActiveOf(jobs', l, s)
                 PROVE  i = k
    BY DEF OneActiveJobPerStep
  <2>2. CASE RowQueued(i) \/ RowQueued(k)
    <3>1. RowQueued(i) /\ RowQueued(k)
      BY <1>3, <2>2
    <3>2. QED
      BY <3>1 DEF RowQueued, ActiveOf, RowsOf
  <2>3. CASE RowKept(i) /\ RowKept(k)
    <3>1. i \in ActiveOf(jobs, l, s) /\ k \in ActiveOf(jobs, l, s)
      BY <2>3 DEF RowKept, ActiveOf, RowsOf
    <3>2. QED
      BY <3>1 DEF IInv, OneActiveJobPerStep
  <2>4. QED
    BY <2>2, <2>3 DEF ActiveOf, RowsOf
<1>5. ActiveJobsAreCurrentOrHandedOver'
  <2>1. SUFFICES ASSUME NEW j \in Jobs, jobs'[j].status \in Active
                 PROVE  \/ Current(j)'
                        \/ /\ jobs'[j].lot \in Lots
                           /\ jobs'[j].step \in HandedOver
                           /\ etapes'[jobs'[j].lot][jobs'[j].step].run = UserRun
    BY DEF ActiveJobsAreCurrentOrHandedOver
  <2>2. CASE RowQueued(j)
    BY <2>2 DEF RowQueued, Current
  <2>3. CASE RowKept(j)
    <3>1. jobs[j].status \in Active /\ jobs'[j].lot = jobs[j].lot
          /\ jobs'[j].step = jobs[j].step
      BY <2>1, <2>3 DEF RowKept
    <3>2. \/ Current(j)
          \/ /\ jobs[j].lot \in Lots
             /\ jobs[j].step \in HandedOver
             /\ etapes[jobs[j].lot][jobs[j].step].run = UserRun
      BY <3>1 DEF IInv, ActiveJobsAreCurrentOrHandedOver
    <3>3. jobs[j].lot \in Lots /\ jobs[j].step \in Steps
      BY <3>2, DagAssumption DEF HandedOver, Current
    <3>4. j \in ActiveOf(jobs', jobs[j].lot, jobs[j].step)
      BY <2>1, <3>1 DEF ActiveOf, RowsOf
    <3>5. ~RowQueued(j)
      BY <3>1 DEF RowQueued, Active
    <3>6. \/ etapes'[jobs[j].lot][jobs[j].step].run
               = etapes[jobs[j].lot][jobs[j].step].run
          \/ /\ etapes'[jobs[j].lot][jobs[j].step].run = UserRun
             /\ jobs[j].step \in HandedOver
      BY <3>3, <3>4, <3>5 DEF RunMoved
    <3>7. QED
      BY <3>1, <3>2, <3>3, <3>6 DEF Current
  <2>4. QED
    BY <2>2, <2>3
<1>6. PurgedLotIsEmpty'
  <2>1. SUFFICES ASSUME NEW l \in Lots, lots'[l].status = "purge"
                 PROVE  /\ \A j \in Jobs : jobs'[j].lot # l
                        /\ \A s \in Steps : artefacts'[l][s] = {}
    BY DEF PurgedLotIsEmpty
  <2>2. lots[l].status = "purge"
        /\ \A s \in Steps : artefacts'[l][s] \subseteq artefacts[l][s]
    BY <2>1 DEF PurgedLotsGainNothing
  <2>3. (\A j \in Jobs : jobs[j].lot # l)
        /\ \A s \in Steps : artefacts[l][s] = {}
    BY <2>2 DEF IInv, PurgedLotIsEmpty
  <2>4. QED
    BY <2>2, <2>3 DEF RowKept, RowQueued
<1>7. RowsHaveSteps'
  BY DEF IInv, RowsHaveSteps, RowKept, RowQueued
<1>8. QED
  BY <1>1, <1>2, <1>4, <1>5, <1>6, <1>7 DEF IInv

\* One row is queued for step s of an open lot, after the active jobs of the
\* invalidated steps S, and those of s, were canceled in the table ks.
QueuesOne(l, s, j, k, ks, S) ==
  /\ s \notin S /\ Open(l) /\ Fresh(j)
  /\ Keeps(jobs, ks)
  /\ \A i \in Jobs : ks[i].status \in Active =>
       ~(ks[i].lot = l /\ ks[i].step \in {s} \cup S)
  /\ jobs' = [ks EXCEPT ![j] = QueuedRow(l, s, k)]
  /\ etapes' \in [Lots -> [Steps -> StepRow]]
  /\ \A m \in Lots, t \in Steps :
       etapes'[m][t].run = IF m = l /\ t = s THEN j
                           ELSE IF m = l /\ t \in S THEN None
                           ELSE etapes[m][t].run
  /\ artefacts' \in [Lots -> [Steps -> SUBSET (Jobs \X Nat)]]
  /\ \A m \in Lots, t \in Steps : artefacts'[m][t] \subseteq artefacts[m][t]
  /\ UNCHANGED <<lots, workers, lapses, crashes>>

\* Such a step preserves the invariant.
LEMMA QueuedOne ==
  ASSUME IInv, NEW l \in Lots, NEW s \in Steps, NEW j \in Jobs,
         NEW k \in Keys \cup Jobs, NEW ks \in [Jobs -> JobRow],
         NEW S \in SUBSET Steps, QueuesOne(l, s, j, k, ks, S)
  PROVE  IInv'
<1> USE DEF QueuesOne
<1>1. TypeOK'
  BY QueuedRowType DEF IInv, TypeOK
<1>2. WorkersKeepTheirLease /\ PurgedLotsGainNothing
  BY DEF WorkersKeepTheirLease, PurgedLotsGainNothing
<1>3. RowQueued(j)
  BY DEF RowQueued, QueuedRow, NoRow, Fresh, Unused, Open, Blocked
<1>4. ASSUME NEW i \in Jobs, i # j
      PROVE  jobs'[i] = ks[i] /\ RowKept(i)
  BY <1>4 DEF RowKept, Keeps
<1>5. ASSUME NEW m \in Lots, NEW t \in Steps
      PROVE  RunMoved(m, t)
  <2>1. CASE m = l /\ t \in {s} \cup S
    <3>1. \A i \in ActiveOf(jobs', m, t) : RowQueued(i)
      BY <1>3, <1>4, <2>1 DEF ActiveOf, RowsOf
    <3>2. QED
      BY <1>3, <2>1, <3>1 DEF RunMoved
  <2>2. CASE ~(m = l /\ t \in {s} \cup S)
    BY <2>2 DEF RunMoved
  <2>3. QED
    BY <2>1, <2>2
<1>6. QED
  BY <1>1, <1>2, <1>3, <1>4, <1>5, QueueStep

\* An upload or a decision that queues its step preserves the invariant.
LEMMA SubmitPreserves ==
  ASSUME IInv, NEW l \in Lots, NEW s \in Steps, Submit(l, s)
  PROVE  IInv'
<1> USE DagAssumption, NullAssumption
<1> DEFINE S == Downstream[s]
           reset == {s} \cup S
           ks == StepsCanceled(jobs, l, reset)
           es == StepsInvalidated(l, reset)
<1>1. s \notin S /\ S \in SUBSET Steps /\ reset \in SUBSET Steps /\ Open(l)
  BY DEF Submit
<1>2. PICK j \in Jobs :
        /\ Fresh(j)
        /\ jobs' = [ks EXCEPT ![j] = QueuedRow(l, s, j)]
        /\ etapes' = [es EXCEPT ![l][s] = [status |-> "pret", run |-> j]]
  BY DEF Submit
<1>3. artefacts' = ArtefactsObsolete(l, reset)
      /\ UNCHANGED <<lots, workers, lapses, crashes>>
  BY DEF Submit
<1>4. /\ ks \in [Jobs -> JobRow]
      /\ Keeps(jobs, ks)
      /\ \A i \in Jobs : ks[i].status \in Active =>
           ~(ks[i].lot = l /\ ks[i].step \in reset)
  <2>1. jobs \in [Jobs -> JobRow]
    BY DEF IInv, TypeOK
  <2>2. QED
    BY ONLY <1>1, <2>1, StepsCanceledRows
<1>5. /\ es \in [Lots -> [Steps -> StepRow]]
      /\ artefacts' \in [Lots -> [Steps -> SUBSET (Jobs \X Nat)]]
  BY <1>1, <1>3, InvalidatedTypes DEF IInv
<1>6. \A m \in Lots, t \in Steps : artefacts'[m][t] \subseteq artefacts[m][t]
  BY <1>3 DEF ArtefactsObsolete, IInv, TypeOK
<1>7. \A m \in Lots, t \in Steps :
        es[m][t].run = IF m = l /\ t \in reset THEN None ELSE etapes[m][t].run
  BY DEF StepsInvalidated, IInv, TypeOK
<1>8. [status |-> "pret", run |-> j] \in StepRow
  BY DEF StepRow, RunIds
<1>9. etapes' \in [Lots -> [Steps -> StepRow]]
      /\ \A m \in Lots, t \in Steps :
           etapes'[m][t].run = IF m = l /\ t = s THEN j
                               ELSE IF m = l /\ t \in S THEN None
                               ELSE etapes[m][t].run
  <2> HIDE DEF es
  <2>1. QED
    BY <1>1, <1>2, <1>5, <1>7, <1>8
<1> HIDE DEF ks, es, S
<1>10. QueuesOne(l, s, j, j, ks, S)
  BY <1>1, <1>2, <1>3, <1>4, <1>5, <1>6, <1>9 DEF QueuesOne
<1>11. j \in Keys \cup Jobs
  OBVIOUS
<1>12. QED
  BY <1>1, <1>4, <1>10, <1>11, QueuedOne

\* So does a decision that only invalidates.
LEMMA ResetPreserves ==
  ASSUME IInv, NEW l \in Lots, NEW s \in Steps, Reset(l, s)
  PROVE  IInv'
<1> USE DagAssumption, NullAssumption
<1> DEFINE reset == {s} \cup Downstream[s]
<1>1. reset \in SUBSET Steps
  OBVIOUS
<1>2. /\ jobs' = StepsCanceled(jobs, l, reset)
      /\ etapes' = StepsInvalidated(l, reset)
      /\ artefacts' = ArtefactsObsolete(l, reset)
      /\ UNCHANGED <<lots, workers, lapses, crashes>>
  BY DEF Reset
<1>3. /\ jobs' \in [Jobs -> JobRow]
      /\ Keeps(jobs, jobs')
      /\ \A i \in Jobs : jobs'[i].status \in Active =>
           ~(jobs'[i].lot = l /\ jobs'[i].step \in reset)
  <2>1. jobs \in [Jobs -> JobRow]
    BY DEF IInv, TypeOK
  <2>2. QED
    BY <1>1, <1>2, <2>1, StepsCanceledRows
<1>4. /\ etapes' \in [Lots -> [Steps -> StepRow]]
      /\ artefacts' \in [Lots -> [Steps -> SUBSET (Jobs \X Nat)]]
  BY <1>1, <1>2, InvalidatedTypes DEF IInv
<1>5. TypeOK'
  BY <1>2, <1>3, <1>4 DEF IInv, TypeOK
<1>6. PurgedLotsGainNothing /\ WorkersKeepTheirLease
  BY <1>2 DEF ArtefactsObsolete, IInv, TypeOK, PurgedLotsGainNothing,
              WorkersKeepTheirLease
<1>7. \A i \in Jobs : RowKept(i)
  BY <1>3 DEF Keeps, RowKept
<1>8. ASSUME NEW m \in Lots, NEW t \in Steps
      PROVE  RunMoved(m, t)
  <2>1. etapes'[m][t].run
          = IF m = l /\ t \in reset THEN None ELSE etapes[m][t].run
    BY <1>2 DEF StepsInvalidated, IInv, TypeOK
  <2>2. m = l /\ t \in reset => ActiveOf(jobs', m, t) = {}
    BY <1>3, <1>7 DEF ActiveOf, RowsOf, RowKept
  <2>3. QED
    BY <2>1, <2>2 DEF RunMoved
<1>9. QED
  BY <1>5, <1>6, <1>7, <1>8, QueueStep

\* A retry preserves the invariant.
LEMMA RetryPreserves ==
  ASSUME IInv, NEW l \in Lots, NEW s \in Steps, NEW k \in Keys, Retry(l, s, k)
  PROVE  IInv'
<1> USE DagAssumption, NullAssumption
<1> DEFINE S == Downstream[s]
           ks == StepsCanceled(jobs, l, {s} \cup S)
           es == StepsInvalidated(l, S)
<1>1. s \notin S /\ S \in SUBSET Steps /\ {s} \cup S \in SUBSET Steps /\ Open(l)
  BY DEF Retry
<1>2. PICK j \in Jobs :
        /\ Fresh(j)
        /\ jobs' = [ks EXCEPT ![j] = QueuedRow(l, s, k)]
        /\ etapes' = [es EXCEPT ![l][s] = [status |-> "pret", run |-> j]]
  BY DEF Retry
<1>3. artefacts' = ArtefactsObsolete(l, S)
      /\ UNCHANGED <<lots, workers, lapses, crashes>>
  BY DEF Retry
<1>4. /\ ks \in [Jobs -> JobRow]
      /\ Keeps(jobs, ks)
      /\ \A i \in Jobs : ks[i].status \in Active =>
           ~(ks[i].lot = l /\ ks[i].step \in {s} \cup S)
  <2>1. jobs \in [Jobs -> JobRow]
    BY DEF IInv, TypeOK
  <2>2. QED
    BY ONLY <1>1, <2>1, StepsCanceledRows
<1>5. /\ es \in [Lots -> [Steps -> StepRow]]
      /\ artefacts' \in [Lots -> [Steps -> SUBSET (Jobs \X Nat)]]
  BY <1>1, <1>3, InvalidatedTypes DEF IInv
<1>6. \A m \in Lots, t \in Steps : artefacts'[m][t] \subseteq artefacts[m][t]
  BY <1>3 DEF ArtefactsObsolete, IInv, TypeOK
<1>7. \A m \in Lots, t \in Steps :
        es[m][t].run = IF m = l /\ t \in S THEN None ELSE etapes[m][t].run
  BY DEF StepsInvalidated, IInv, TypeOK
<1>8. [status |-> "pret", run |-> j] \in StepRow
  BY DEF StepRow, RunIds
<1>9. etapes' \in [Lots -> [Steps -> StepRow]]
      /\ \A m \in Lots, t \in Steps :
           etapes'[m][t].run = IF m = l /\ t = s THEN j
                               ELSE IF m = l /\ t \in S THEN None
                               ELSE etapes[m][t].run
  <2> HIDE DEF es
  <2>1. QED
    BY <1>1, <1>2, <1>5, <1>7, <1>8
<1> HIDE DEF ks, es, S
<1>10. QueuesOne(l, s, j, k, ks, S)
  BY <1>1, <1>2, <1>3, <1>4, <1>5, <1>6, <1>9 DEF QueuesOne
<1>11. k \in Keys \cup Jobs
  OBVIOUS
<1>12. QED
  BY <1>1, <1>4, <1>10, <1>11, QueuedOne

\* A package request preserves the invariant.
LEMMA RequestPreserves ==
  ASSUME IInv, NEW l \in Lots, NEW s \in Steps, NEW k \in Keys, Request(l, s, k)
  PROVE  IInv'
<1>1. PICK j \in Jobs :
        /\ Fresh(j)
        /\ jobs' = [jobs EXCEPT ![j] = QueuedRow(l, s, k)]
        /\ etapes' = [etapes EXCEPT ![l][s] = [status |-> "pret", run |-> j]]
  BY DEF Request
<1>2. UNCHANGED <<lots, artefacts, workers, lapses, crashes>> /\ Open(l)
  BY DEF Request
<1>3. jobs \in [Jobs -> JobRow] /\ Keeps(jobs, jobs)
  BY DEF IInv, TypeOK, Keeps
<1>4. \A i \in Jobs : jobs[i].status \in Active =>
        ~(jobs[i].lot = l /\ jobs[i].step \in {s} \cup {})
  BY DEF Request, CanEnqueue, ActiveOf, RowsOf
<1>5. [status |-> "pret", run |-> j] \in StepRow
  BY DEF StepRow, RunIds
<1>6. etapes' \in [Lots -> [Steps -> StepRow]]
      /\ \A m \in Lots, t \in Steps :
           etapes'[m][t].run = IF m = l /\ t = s THEN j
                               ELSE IF m = l /\ t \in {} THEN None
                               ELSE etapes[m][t].run
  BY <1>1, <1>5 DEF IInv, TypeOK
<1>7. artefacts' \in [Lots -> [Steps -> SUBSET (Jobs \X Nat)]]
      /\ \A m \in Lots, t \in Steps : artefacts'[m][t] \subseteq artefacts[m][t]
  BY <1>2 DEF IInv, TypeOK
<1>8. QueuesOne(l, s, j, k, jobs, {})
  BY <1>1, <1>2, <1>3, <1>4, <1>6, <1>7 DEF QueuesOne
<1>9. k \in Keys \cup Jobs /\ {} \in SUBSET Steps
  OBVIOUS
<1>10. QED
  BY <1>3, <1>8, <1>9, QueuedOne

\* The tables after the successful end of step s, for any numbering of the
\* queued steps Q.
LEMMA StepsFinishedRuns ==
  ASSUME TypeOK, NEW l \in Lots, NEW s \in Steps, NEW Q \in SUBSET Steps,
         s \notin Q, s \notin Validates[s], NEW id \in [Q -> Jobs]
  PROVE  /\ StepsFinished(l, s, Q, id) \in [Lots -> [Steps -> StepRow]]
         /\ \A m \in Lots, t \in Steps :
              StepsFinished(l, s, Q, id)[m][t].run =
                IF m = l /\ t \in Q THEN id[t]
                ELSE IF m = l /\ t \in Validates[s] THEN UserRun
                ELSE etapes[m][t].run
<1> DEFINE es == StepsFinished(l, s, Q, id)
           row(t) ==
             IF t = s THEN [etapes[l][t] EXCEPT !.status = "termine"]
             ELSE IF t \in Q THEN [status |-> "pret", run |-> id[t]]
             ELSE IF t \in Validates[s]
             THEN [status |-> "action_requise", run |-> UserRun]
             ELSE etapes[l][t]
<1>1. etapes \in [Lots -> [Steps -> StepRow]]
  BY DEF TypeOK
<1>2. es = [etapes EXCEPT ![l] = [t \in Steps |-> row(t)]]
  BY DEF StepsFinished
<1>3. ASSUME NEW t \in Steps
      PROVE  /\ row(t) \in StepRow
             /\ row(t).run = IF t \in Q THEN id[t]
                             ELSE IF t \in Validates[s] THEN UserRun
                             ELSE etapes[l][t].run
  <2>1. etapes[l][t] \in StepRow
    BY <1>1
  <2>2. CASE t = s
    BY <2>1, <2>2 DEF StepRow
  <2>3. CASE t # s /\ t \in Q
    <3>1. row(t) = [status |-> "pret", run |-> id[t]] /\ id[t] \in Jobs
      BY <2>3
    <3>2. QED
      BY <2>3, <3>1 DEF StepRow, RunIds
  <2>4. CASE t # s /\ t \notin Q /\ t \in Validates[s]
    BY <2>4 DEF StepRow, RunIds
  <2>5. CASE t # s /\ t \notin Q /\ t \notin Validates[s]
    BY <2>1, <2>5
  <2>6. QED
    BY <2>2, <2>3, <2>4, <2>5
<1> HIDE DEF row
<1>4. es \in [Lots -> [Steps -> StepRow]]
  BY <1>1, <1>2, <1>3
<1>5. \A t \in Steps : es[l][t] = row(t)
  BY <1>1, <1>2
<1>6. \A m \in Lots : m # l => es[m] = etapes[m]
  BY <1>1, <1>2
<1>7. QED
  BY <1>3, <1>4, <1>5, <1>6

\* RowsFinished keeps the table well typed: the other rows stay, the job of the
\* worker is finished, and the steps of Q have the new rows id[t].
LEMMA RowsFinishedRows ==
  ASSUME TypeOK, NEW j \in Jobs, NEW l \in Lots, NEW Q \in SUBSET Steps,
         NEW id \in Numberings(Q), jobs[j].status \in Committable
  PROVE  /\ RowsFinished(j, l, Q, id) \in [Jobs -> JobRow]
         /\ RowsFinished(j, l, Q, id)[j] = [jobs[j] EXCEPT !.status = "succeeded"]
         /\ \A t \in Q : RowsFinished(j, l, Q, id)[id[t]] = QueuedRow(l, t, j)
         /\ \A i \in Jobs : i # j /\ (\A t \in Q : id[t] # i) =>
              RowsFinished(j, l, Q, id)[i] = jobs[i]
<1> DEFINE ks == RowsFinished(j, l, Q, id)
<1>1. jobs \in [Jobs -> JobRow]
  BY DEF TypeOK
<1>2. (\A t \in Q : id[t] \in Jobs /\ id[t] # j)
      /\ \A t, u \in Q : id[t] = id[u] => t = u
  BY DEF Numberings, Unused, Committable
<1>3. ks[j] = [jobs[j] EXCEPT !.status = "succeeded"]
  BY DEF RowsFinished
<1>4. ASSUME NEW t \in Q
      PROVE  ks[id[t]] = QueuedRow(l, t, j)
  <2>1. (CHOOSE u \in Q : id[u] = id[t]) = t
    BY <1>2
  <2>2. QED
    BY <1>2, <2>1 DEF RowsFinished
<1>5. ASSUME NEW i \in Jobs, i # j, \A t \in Q : id[t] # i
      PROVE  ks[i] = jobs[i]
  BY <1>5 DEF RowsFinished
<1>6. ks[j] \in JobRow
  <2>1. jobs[j] \in JobRow
    BY <1>1
  <2>2. QED
    BY <1>3, <2>1 DEF JobRow, Final
<1>7. ASSUME NEW i \in Jobs
      PROVE  ks[i] \in JobRow
  <2>1. CASE i = j
    BY <1>6, <2>1
  <2>2. ASSUME NEW t \in Q, i = id[t]
        PROVE  ks[i] \in JobRow
    <3>1. QueuedRow(l, t, j) \in JobRow
      BY QueuedRowType
    <3>2. QED
      BY <1>4, <2>2, <3>1
  <2>3. CASE i # j /\ \A t \in Q : id[t] # i
    BY <1>1, <1>5, <2>3
  <2>4. QED
    BY <2>1, <2>2, <2>3
<1>8. ks = [i \in Jobs |-> ks[i]]
  BY DEF RowsFinished
<1>9. ks \in [Jobs -> JobRow]
  <2> HIDE DEF ks
  <2>1. QED
    BY <1>7, <1>8
<1>10. QED
  BY <1>3, <1>4, <1>5, <1>9

\* The successful end of a step preserves the invariant: it queues only steps
\* without an active job, and hands over only steps of HandedOver.
LEMMA FinishSuccessPreserves ==
  ASSUME IInv, NEW w \in Workers, FinishSuccess(w)
  PROVE  IInv'
<1> USE DagAssumption, NullAssumption
<1> DEFINE j == workers[w].job
           l == jobs[j].lot
           s == jobs[j].step
<1>1. workers[w].pc # "idle" /\ Owned(w) /\ Stop(w)
      /\ UNCHANGED <<lots, artefacts, lapses, crashes>>
  BY DEF FinishSuccess
<1>2. j \in Jobs /\ jobs[j] \in JobRow
  BY <1>1, WorkerFacts
<1>3. l \in Lots /\ s \in Steps /\ jobs[j].status \in Committable /\ Open(l)
  BY <1>1 DEF Owned, Fenced, Current
<1>4. PICK ready \in SUBSET Enqueues[s] :
        LET Q == {t \in ready : ActiveOf(jobs, l, t) = {}} IN
        \E id \in Numberings(Q) :
          /\ jobs' = RowsFinished(j, l, Q, id)
          /\ etapes' = StepsFinished(l, s, Q, id)
  BY DEF FinishSuccess
<1> DEFINE Q == {t \in ready : ActiveOf(jobs, l, t) = {}}
<1>5. PICK id \in Numberings(Q) :
        jobs' = RowsFinished(j, l, Q, id) /\ etapes' = StepsFinished(l, s, Q, id)
  BY <1>4
<1>6. /\ Q \in SUBSET Steps /\ s \notin Q /\ s \notin Validates[s]
      /\ \A t \in Q : ActiveOf(jobs, l, t) = {}
      /\ Validates[s] \subseteq HandedOver
  <2>1. s \in Steps
    BY <1>3
  <2>2. Enqueues[s] \subseteq Steps /\ s \notin Enqueues[s] /\ s \notin Validates[s]
    BY <2>1
  <2>3. Validates[s] \subseteq HandedOver
    BY <2>1 DEF HandedOver
  <2> QED BY <1>4, <2>2, <2>3
<1>7. /\ id \in Numberings(Q) /\ id \in [Q -> Jobs]
      /\ \A t \in Q : id[t] \in Jobs /\ jobs[id[t]].status = "absent"
  <2> HIDE DEF Q, j, l, s
  <2>1. id \in [Q -> Unused]
    BY <1>5 DEF Numberings
  <2>2. \A i \in Unused : i \in Jobs /\ jobs[i].status = "absent"
    BY DEF Unused
  <2>3. QED
    BY <1>5, <2>1, <2>2
<1> HIDE DEF Q, j, l, s
<1>8. /\ jobs' \in [Jobs -> JobRow]
      /\ jobs'[j] = [jobs[j] EXCEPT !.status = "succeeded"]
      /\ \A t \in Q : jobs'[id[t]] = QueuedRow(l, t, j)
      /\ \A i \in Jobs : i # j /\ (\A t \in Q : id[t] # i) => jobs'[i] = jobs[i]
  BY <1>2, <1>3, <1>5, <1>6, <1>7, RowsFinishedRows DEF IInv
<1>9. /\ etapes' \in [Lots -> [Steps -> StepRow]]
      /\ \A m \in Lots, t \in Steps :
           etapes'[m][t].run = IF m = l /\ t \in Q THEN id[t]
                               ELSE IF m = l /\ t \in Validates[s] THEN UserRun
                               ELSE etapes[m][t].run
  BY <1>3, <1>5, <1>6, <1>7, StepsFinishedRuns DEF IInv
<1>10. TypeOK' /\ WorkersKeepTheirLease /\ PurgedLotsGainNothing
  <2>1. workers' \in [Workers -> WorkerState] /\ WorkersKeepTheirLease
    BY <1>1, WorkerMoves
  <2>2. QED
    BY <1>1, <1>8, <1>9, <2>1 DEF IInv, TypeOK, PurgedLotsGainNothing
<1>11. ASSUME NEW t \in Q
       PROVE  RowQueued(id[t])
  <2>1. jobs'[id[t]] = QueuedRow(l, t, j) /\ etapes'[l][t].run = id[t]
    BY <1>3, <1>6, <1>8, <1>9
  <2>2. lots[l].status # "purge"
    BY <1>3 DEF Open, Blocked
  <2>3. QED
    BY <1>3, <1>6, <1>7, <2>1, <2>2 DEF RowQueued, QueuedRow, NoRow
<1>12. RowKept(j)
  BY <1>2, <1>3, <1>8 DEF JobRow, RowKept, Active, Committable, Final
<1>13. \A i \in Jobs : RowKept(i) \/ RowQueued(i)
  <2>1. \A i \in Jobs : jobs'[i] = jobs[i] => RowKept(i)
    BY DEF RowKept
  <2>2. QED
    BY <1>8, <1>11, <1>12, <2>1
<1>14. ASSUME NEW m \in Lots, NEW t \in Steps
       PROVE  RunMoved(m, t)
  <2>1. CASE m = l /\ t \in Q
    <3>1. \A i \in ActiveOf(jobs', l, t) : RowQueued(i)
      <4>1. SUFFICES ASSUME NEW i \in Jobs, i \in ActiveOf(jobs', l, t),
                            RowKept(i)
                     PROVE  FALSE
        BY <1>13 DEF ActiveOf, RowsOf
      <4>2. i \in ActiveOf(jobs, l, t)
        BY <4>1 DEF ActiveOf, RowsOf, RowKept
      <4>3. QED
        BY <1>6, <2>1, <4>2
    <3>2. QED
      BY <1>7, <1>9, <1>11, <2>1, <3>1 DEF RunMoved
  <2>2. CASE ~(m = l /\ t \in Q)
    BY <1>6, <1>9, <2>2 DEF RunMoved
  <2>3. QED
    BY <2>1, <2>2
<1>15. QED
  BY <1>10, <1>13, <1>14, QueueStep

-----------------------------------------------------------------------------
\* Acquiring a job preserves the invariant: the run of the step is the job's,
\* so no other job of the step is active, and the version is a new one.
LEMMA AcquirePreserves ==
  ASSUME IInv, NEW w \in Workers, Acquire(w)
  PROVE  IInv'
<1> USE NullAssumption
<1> DEFINE js == Expired(jobs)
<1>1. js \in [Jobs -> JobRow] /\ Keeps(jobs, js)
  BY ExpiredRows DEF IInv, TypeOK
<1>2. PICK j \in Eligible(js) :
        /\ jobs' = [js EXCEPT ![j].status = "leased", ![j].lapsed = FALSE,
                              ![j].version = NextVersion(j)]
        /\ workers' = [workers EXCEPT ![w] =
             [pc |-> "leased", job |-> j, version |-> NextVersion(j),
              published |-> FALSE]]
  BY DEF Acquire
<1>3. UNCHANGED <<lots, etapes, artefacts, lapses, crashes>>
  BY DEF Acquire
<1> HIDE DEF js
<1>4. /\ j \in Jobs /\ js[j].status \in {"queued", "expired"}
      /\ etapes[js[j].lot][js[j].step].run = j
      /\ js[j].lot = jobs[j].lot /\ js[j].step = jobs[j].step
      /\ js[j].version = jobs[j].version
  BY <1>1 DEF Eligible, Keeps
<1>5. jobs[j].status \notin {"absent", "purged"}
  BY <1>1, <1>4 DEF Keeps
<1>6. jobs[j].lot \in Lots /\ jobs[j].step \in Steps
  BY <1>4, <1>5 DEF IInv, RowsHaveSteps
<1>7. jobs[j].version \in Nat /\ NextVersion(j) = jobs[j].version + 1
  BY <1>4 DEF IInv, TypeOK, JobRow, NextVersion
<1>8. /\ jobs' \in [Jobs -> JobRow]
      /\ jobs'[j].status = "leased" /\ jobs'[j].version = NextVersion(j)
      /\ jobs'[j].lot = jobs[j].lot /\ jobs'[j].step = jobs[j].step
      /\ \A i \in Jobs : i # j => jobs'[i] = js[i]
  BY <1>1, <1>2, <1>4, <1>7 DEF JobRow, Active, Committable
<1>9. /\ workers' \in [Workers -> WorkerState]
      /\ workers'[w].job = j /\ workers'[w].version = NextVersion(j)
      /\ \A v \in Workers : v # w => workers'[v] = workers[v]
  BY <1>2, <1>4, <1>7 DEF IInv, TypeOK, WorkerState
<1>10. TypeOK'
  BY <1>3, <1>8, <1>9 DEF IInv, TypeOK
<1>11. LeasesAreNotAhead'
  <2>1. SUFFICES ASSUME NEW v \in Workers, workers'[v].pc # "idle"
                 PROVE  LET i == workers'[v].job IN
                        /\ i \in Jobs
                        /\ jobs'[i].status # "absent"
                        /\ jobs'[i].status # "purged" =>
                             workers'[v].version <= jobs'[i].version
    BY DEF LeasesAreNotAhead
  <2>2. CASE v = w
    BY <1>4, <1>7, <1>8, <1>9, <2>2
  <2>3. CASE v # w
    <3> DEFINE i == workers[v].job
    <3>1. workers'[v] = workers[v] /\ workers[v].pc # "idle"
      BY <1>9, <2>1, <2>3
    <3>2. /\ i \in Jobs /\ jobs[i].status # "absent"
          /\ jobs[i].status # "purged" => workers[v].version <= jobs[i].version
      BY <3>1 DEF IInv, LeasesAreNotAhead
    <3>3. workers[v].version \in Nat
      BY DEF IInv, TypeOK, WorkerState
    <3>4. CASE i = j
      BY <1>5, <1>7, <1>8, <3>1, <3>2, <3>3, <3>4
    <3>5. CASE i # j
      BY <1>1, <1>8, <3>1, <3>2, <3>5 DEF Keeps
    <3>6. QED
      BY <3>4, <3>5
  <2>4. QED
    BY <2>2, <2>3
<1>12. LeasesAreFenced'
  <2>1. ASSUME NEW v \in Workers, v # w, workers[v].pc # "idle",
               workers[v].job = j
        PROVE  workers[v].version # NextVersion(j)
    <3>1. workers[v].version <= jobs[j].version /\ workers[v].version \in Nat
      BY <1>5, <2>1 DEF IInv, LeasesAreNotAhead, TypeOK, WorkerState
    <3>2. QED
      BY <1>7, <3>1
  <2>2. QED
    BY <1>9, <2>1 DEF IInv, LeasesAreFenced
<1>13. RunsHaveRows' /\ RowsHaveSteps'
  BY <1>1, <1>3, <1>6, <1>8 DEF IInv, RunsHaveRows, RowsHaveSteps, Keeps
<1>14. ASSUME NEW l \in Lots, NEW s \in Steps, NEW i \in ActiveOf(jobs', l, s),
              i # j
       PROVE  i \in ActiveOf(jobs, l, s) /\ ~(l = jobs[j].lot /\ s = jobs[j].step)
  <2>1. i \in ActiveOf(jobs, l, s)
    BY <1>1, <1>8, <1>14 DEF ActiveOf, RowsOf, Keeps
  <2>2. etapes[l][s].run \in {i, UserRun}
    BY <2>1 DEF IInv, ActiveJobsAreCurrentOrHandedOver, ActiveOf, RowsOf, Current
  <2>3. QED
    BY <1>4, <1>14, <2>1, <2>2
<1>15. OneActiveJobPerStep'
  <2>1. SUFFICES ASSUME NEW l \in Lots, NEW s \in Steps,
                        NEW i \in ActiveOf(jobs', l, s),
                        NEW k \in ActiveOf(jobs', l, s)
                 PROVE  i = k
    BY DEF OneActiveJobPerStep
  <2>2. CASE i # j /\ k # j
    BY <1>14, <2>2 DEF IInv, OneActiveJobPerStep
  <2>3. CASE i = j \/ k = j
    <3>1. l = jobs[j].lot /\ s = jobs[j].step
      BY <1>8, <2>3 DEF ActiveOf, RowsOf
    <3>2. QED
      BY <1>14, <2>3, <3>1
  <2>4. QED
    BY <2>2, <2>3
<1>16. ActiveJobsAreCurrentOrHandedOver'
  <2>1. SUFFICES ASSUME NEW i \in Jobs, jobs'[i].status \in Active
                 PROVE  \/ Current(i)'
                        \/ /\ jobs'[i].lot \in Lots
                           /\ jobs'[i].step \in HandedOver
                           /\ etapes'[jobs'[i].lot][jobs'[i].step].run = UserRun
    BY DEF ActiveJobsAreCurrentOrHandedOver
  <2>2. CASE i = j
    BY <1>3, <1>4, <1>6, <1>8, <2>2 DEF Current
  <2>3. CASE i # j
    <3>1. jobs[i].status \in Active /\ jobs'[i].lot = jobs[i].lot
          /\ jobs'[i].step = jobs[i].step
      BY <1>1, <1>8, <2>1, <2>3 DEF Keeps
    <3>2. QED
      BY <1>3, <3>1 DEF IInv, ActiveJobsAreCurrentOrHandedOver, Current
  <2>4. QED
    BY <2>2, <2>3
<1>17. PurgedLotIsEmpty'
  BY <1>1, <1>3, <1>8 DEF IInv, PurgedLotIsEmpty, Keeps
<1>18. QED
  BY <1>10, <1>11, <1>12, <1>13, <1>15, <1>16, <1>17 DEF IInv

\* Purging a lot preserves the invariant, whatever jobs were expired or
\* canceled just before.
LEMMA PurgedPreserves ==
  ASSUME IInv, NEW l \in Lots, NEW js \in [Jobs -> JobRow], Keeps(jobs, js),
         Purged(js, l), UNCHANGED <<workers, lapses, crashes>>
  PROVE  IInv'
<1> USE NullAssumption
<1>1. /\ jobs' \in [Jobs -> JobRow]
      /\ \A i \in Jobs :
           IF jobs[i].lot = l
           THEN jobs'[i].status = "purged" /\ jobs'[i].lot = None
           ELSE jobs'[i] = js[i]
  BY DEF Purged, Keeps, NoRow, JobRow
<1>2. /\ etapes' \in [Lots -> [Steps -> StepRow]]
      /\ \A s \in Steps : etapes'[l][s].run = None
      /\ \A m \in Lots : m # l => etapes'[m] = etapes[m]
  BY DEF Purged, IInv, TypeOK, StepRow, RunIds
<1>3. /\ artefacts' \in [Lots -> [Steps -> SUBSET (Jobs \X Nat)]]
      /\ \A s \in Steps : artefacts'[l][s] = {}
      /\ \A m \in Lots : m # l => artefacts'[m] = artefacts[m]
  BY DEF Purged, IInv, TypeOK
<1>4. /\ lots' \in [Lots -> LotRow]
      /\ \A m \in Lots : m # l => lots'[m] = lots[m]
  BY DEF Purged, IInv, TypeOK, LotRow, Blocked
<1>5. TypeOK'
  BY <1>1, <1>2, <1>3, <1>4 DEF IInv, TypeOK
<1>6. LeasesAreNotAhead' /\ LeasesAreFenced'
  <2>1. WorkersKeepTheirLease
    BY DEF WorkersKeepTheirLease
  <2>2. \A i \in Jobs : jobs[i].version \in Nat
    BY DEF IInv, TypeOK, JobRow
  <2>3. RowsStay
    BY <1>1, <2>2 DEF RowsStay, Keeps
  <2>4. QED
    BY <1>5, <2>1, <2>3, FencingKept
<1>7. \A i \in Jobs : jobs'[i].status \in Active =>
        /\ jobs[i].status \in Active /\ jobs'[i].lot = jobs[i].lot
        /\ jobs'[i].step = jobs[i].step /\ jobs[i].lot # l
  BY <1>1 DEF Keeps, Active
<1>8. RowsHaveSteps'
  BY <1>1 DEF IInv, RowsHaveSteps, Keeps
<1>9. RunsHaveRows'
  BY <1>1, <1>2 DEF IInv, RunsHaveRows, Keeps
<1>10. OneActiveJobPerStep'
  BY <1>7 DEF IInv, OneActiveJobPerStep, ActiveOf, RowsOf
<1>11. ActiveJobsAreCurrentOrHandedOver'
  BY <1>2, <1>7 DEF IInv, ActiveJobsAreCurrentOrHandedOver, Current
<1>12. PurgedLotIsEmpty'
  <2>1. SUFFICES ASSUME NEW m \in Lots, lots'[m].status = "purge"
                 PROVE  /\ \A i \in Jobs : jobs'[i].lot # m
                        /\ \A s \in Steps : artefacts'[m][s] = {}
    BY DEF PurgedLotIsEmpty
  <2>2. CASE m = l
    <3>1. \A i \in Jobs : jobs'[i].lot # l
      BY <1>1 DEF Keeps
    <3>2. QED
      BY <1>3, <2>2, <3>1
  <2>3. CASE m # l
    <3>1. lots[m].status = "purge"
      BY <1>4, <2>1, <2>3
    <3>2. (\A i \in Jobs : jobs[i].lot # m)
          /\ \A s \in Steps : artefacts[m][s] = {}
      BY <3>1 DEF IInv, PurgedLotIsEmpty
    <3>3. \A i \in Jobs : jobs'[i].lot # m
      BY <1>1, <2>3, <3>2 DEF Keeps
    <3>4. QED
      BY <1>3, <2>3, <3>2, <3>3
  <2>4. QED
    BY <2>2, <2>3
<1>13. QED
  BY <1>5, <1>6, <1>8, <1>9, <1>10, <1>11, <1>12 DEF IInv

\* DELETE and the purge preserve the invariant, done or deferred.
LEMMA DeletePreserves ==
  ASSUME IInv, NEW l \in Lots, Delete(l) \/ Purge(l)
  PROVE  IInv'
<1>1. PICK js \in [Jobs -> JobRow] :
        /\ Keeps(jobs, js)
        /\ \/ Purged(js, l)
           \/ /\ jobs' = js
              /\ lots' = [lots EXCEPT ![l].status = "supprime"] \/ UNCHANGED lots
              /\ UNCHANGED <<etapes, artefacts>>
  <2>1. jobs \in [Jobs -> JobRow]
    BY DEF IInv, TypeOK
  <2>2. /\ Expired(jobs) \in [Jobs -> JobRow]
        /\ Keeps(jobs, Expired(jobs))
        /\ QueueCanceled(jobs, l) \in [Jobs -> JobRow]
        /\ Keeps(jobs, QueueCanceled(jobs, l))
    BY <2>1, ExpiredRows, QueueCanceledRows
  <2>3. /\ QueueCanceled(Expired(jobs), l) \in [Jobs -> JobRow]
        /\ Keeps(Expired(jobs), QueueCanceled(Expired(jobs), l))
        /\ Expired(QueueCanceled(jobs, l)) \in [Jobs -> JobRow]
        /\ Keeps(QueueCanceled(jobs, l), Expired(QueueCanceled(jobs, l)))
    BY <2>2, ExpiredRows, QueueCanceledRows
  <2>4. Keeps(jobs, QueueCanceled(Expired(jobs), l))
        /\ Keeps(jobs, Expired(QueueCanceled(jobs, l)))
    BY <2>2, <2>3 DEF Keeps
  <2>5. QED
    BY <2>3, <2>4 DEF Delete, Purge
<1>2. UNCHANGED <<workers, lapses, crashes>>
  BY DEF Delete, Purge
<1>3. CASE Purged(js, l)
  BY <1>1, <1>2, <1>3, PurgedPreserves
<1>4. CASE /\ jobs' = js
           /\ lots' = [lots EXCEPT ![l].status = "supprime"] \/ UNCHANGED lots
           /\ UNCHANGED <<etapes, artefacts>>
  <2>1. lots' \in [Lots -> LotRow]
        /\ \A m \in Lots : lots'[m].status = "purge" => lots[m].status = "purge"
    BY <1>4, ZenonT(60) DEF IInv, TypeOK, LotRow, Blocked
  <2>2. TypeOK'
    BY <1>1, <1>2, <1>4, <2>1 DEF IInv, TypeOK
  <2>3. Keeps(jobs, jobs')
    BY <1>1, <1>4
  <2>4. RunsStay /\ WorkersKeepTheirLease /\ PurgedLotsGainNothing
    BY <1>2, <1>4, <2>1 DEF RunsStay, WorkersKeepTheirLease, PurgedLotsGainNothing
  <2>5. QED
    BY <2>2, <2>3, <2>4, QuietStep
<1>5. QED
  BY <1>1, <1>3, <1>4

\* The expiry of stale leases, a lease that lapses and a cancellation request
\* preserve the invariant.
LEMMA ClockPreserves ==
  ASSUME IInv,
         \/ Sweep
         \/ \E l \in Lots : RequestCancel(l)
         \/ \E j \in Jobs : OrphanLapses(j) \/ HeldLapses(j)
  PROVE  IInv'
<1> USE BoundAssumption
<1>1. UNCHANGED <<etapes, artefacts, workers, crashes>>
  BY DEF Sweep, RequestCancel, OrphanLapses, HeldLapses, LapsedNow
<1>2. lapses' \in 0..MaxLapses
  BY DEF IInv, TypeOK, Sweep, RequestCancel, OrphanLapses, HeldLapses
<1>3. lots' \in [Lots -> LotRow]
      /\ \A m \in Lots : lots'[m].status = lots[m].status
  <2>1. lots \in [Lots -> LotRow]
    BY DEF IInv, TypeOK
  <2>2. ASSUME NEW l \in Lots, RequestCancel(l)
        PROVE  lots' \in [Lots -> LotRow]
               /\ \A m \in Lots : lots'[m].status = lots[m].status
    <3>1. lots' = [lots EXCEPT ![l].cancel = TRUE]
      BY <2>2 DEF RequestCancel
    <3>2. QED
      BY <2>1, <3>1 DEF LotRow
  <2>3. CASE UNCHANGED lots
    BY <2>1, <2>3
  <2>4. QED
    BY <2>2, <2>3 DEF Sweep, OrphanLapses, HeldLapses, LapsedNow
<1>4. jobs' \in [Jobs -> JobRow] /\ Keeps(jobs, jobs')
  <2>1. jobs \in [Jobs -> JobRow]
    BY DEF IInv, TypeOK
  <2>2. CASE Sweep
    BY <2>1, <2>2, ExpiredRows DEF Sweep
  <2>3. CASE \E l \in Lots : RequestCancel(l)
    BY <2>1, <2>3 DEF RequestCancel, Keeps
  <2>4. ASSUME NEW j \in Jobs, OrphanLapses(j) \/ HeldLapses(j)
        PROVE  jobs' \in [Jobs -> JobRow] /\ Keeps(jobs, jobs')
    <3>1. jobs' = [jobs EXCEPT ![j].lapsed = TRUE]
      BY <2>4 DEF OrphanLapses, HeldLapses, LapsedNow
    <3>2. QED
      BY <2>1, <3>1, ZenonT(60) DEF Keeps, JobRow
  <2>5. QED
    BY <2>2, <2>3, <2>4
<1>5. TypeOK' /\ RunsStay /\ WorkersKeepTheirLease /\ PurgedLotsGainNothing
  BY <1>1, <1>2, <1>3, <1>4 DEF IInv, TypeOK, RunsStay, WorkersKeepTheirLease,
                                PurgedLotsGainNothing
<1>6. QED
  BY <1>4, <1>5, QuietStep

-----------------------------------------------------------------------------
\* The empty database satisfies the invariant.
LEMMA InitInv == Init => IInv
<1> SUFFICES ASSUME Init
             PROVE  IInv
  OBVIOUS
<1> USE BoundAssumption, NullAssumption DEF Init
<1>1. TypeOK
  BY DEF TypeOK, LotRow, StepRow, JobRow, WorkerState, NoRow, Idle, RunIds
<1>2. RowsHaveSteps /\ RunsHaveRows /\ PurgedLotIsEmpty
  BY DEF RowsHaveSteps, RunsHaveRows, PurgedLotIsEmpty, NoRow
<1>3. ActiveJobsAreCurrentOrHandedOver /\ OneActiveJobPerStep
  BY DEF ActiveJobsAreCurrentOrHandedOver, OneActiveJobPerStep, ActiveOf,
         RowsOf, NoRow, Active
<1>4. LeasesAreNotAhead /\ LeasesAreFenced
  BY DEF LeasesAreNotAhead, LeasesAreFenced, Idle
<1>5. QED
  BY <1>1, <1>2, <1>3, <1>4 DEF IInv

\* Every step of the queue preserves the invariant.
LEMMA NextInv == IInv /\ [Next]_vars => IInv'
<1> SUFFICES ASSUME IInv, [Next]_vars
             PROVE  IInv'
  OBVIOUS
<1>1. ASSUME NEW l \in Lots, NEW s \in Steps,
             \/ Submit(l, s) \/ Reset(l, s)
             \/ \E k \in Keys : Retry(l, s, k) \/ Request(l, s, k)
      PROVE  IInv'
  BY <1>1, SubmitPreserves, ResetPreserves, RetryPreserves, RequestPreserves
<1>2. ASSUME NEW l \in Lots, RequestCancel(l) \/ Delete(l) \/ Purge(l)
      PROVE  IInv'
  BY <1>2, ClockPreserves, DeletePreserves
<1>3. ASSUME NEW w \in Workers, Acquire(w) \/ Cycle(w) \/ Crash(w)
      PROVE  IInv'
  BY <1>3, AcquirePreserves, CycleQuiet, FinishSuccessPreserves
<1>4. CASE Sweep \/ \E j \in Jobs : OrphanLapses(j) \/ HeldLapses(j)
  BY <1>4, ClockPreserves
<1>5. CASE UNCHANGED vars
  <2>1. UNCHANGED <<lots, etapes, jobs, artefacts, workers, lapses, crashes>>
    BY <1>5 DEF vars
  <2>2. workers' \in [Workers -> WorkerState] /\ WorkersKeepTheirLease
        /\ crashes' \in 0..MaxCrashes
    BY <2>1 DEF IInv, TypeOK, WorkersKeepTheirLease
  <2>3. QED
    BY <2>1, <2>2, WorkerOnlyStep
<1>6. QED
  BY <1>1, <1>2, <1>3, <1>4, <1>5 DEF Next

\* The inductive invariant holds in every reachable state, for any number of
\* lots, steps, workers, jobs, lapses and crashes.
THEOREM Invariance == Spec => []IInv
<1>1. Init => IInv
  BY InitInv
<1>2. IInv /\ [Next]_vars => IInv'
  BY NextInv
<1>3. QED
  BY <1>1, <1>2, PTL DEF Spec

\* The tables and the workers' state keep their types.
THEOREM TypeCorrectness == Spec => []TypeOK
<1>1. IInv => TypeOK
  BY DEF IInv
<1>2. QED
  BY <1>1, Invariance, PTL

\* The unique index on active jobs is never what refuses a request.
THEOREM OneActiveJob == Spec => []OneActiveJobPerStep
<1>1. IInv => OneActiveJobPerStep
  BY DEF IInv
<1>2. QED
  BY <1>1, Invariance, PTL

\* Lease versions fence any number of workers, crashes and lapsed leases.
THEOREM Fencing == Spec => []LeasesAreFenced
<1>1. IInv => LeasesAreFenced
  BY DEF IInv
<1>2. QED
  BY <1>1, Invariance, PTL

\* No late worker writes into a purged lot.
THEOREM PurgeIsFinal == Spec => []PurgedLotIsEmpty
<1>1. IInv => PurgedLotIsEmpty
  BY DEF IInv
<1>2. QED
  BY <1>1, Invariance, PTL

\* A step that no job hands over to the user is never stuck behind an active
\* job that lost its run.
THEOREM NoJobIsOrphaned == Spec => []ActiveJobsAreCurrent
<1>1. IInv => ActiveJobsAreCurrent
  BY DEF IInv, ActiveJobsAreCurrent, ActiveJobsAreCurrentOrHandedOver
<1>2. QED
  BY <1>1, Invariance, PTL

-----------------------------------------------------------------------------
\* The jobs that have an outcome in table js have the same one in table ks.
OutcomesStay(js, ks) ==
  \A j \in Jobs : js[j].status \in Final => ks[j].status = js[j].status

\* No UPDATE of table jobs touches a job that has an outcome.
LEMMA ExpiryKeepsOutcomes ==
  ASSUME NEW js \in [Jobs -> JobRow]
  PROVE  OutcomesStay(js, Expired(js))
BY DEF OutcomesStay, Expired, Committable, Final

\* Canceling the active jobs of some steps touches no outcome either.
LEMMA CancelingKeepsOutcomes ==
  ASSUME NEW js \in [Jobs -> JobRow], NEW l \in Lots
  PROVE  /\ \A S \in SUBSET Steps : OutcomesStay(js, StepsCanceled(js, l, S))
         /\ OutcomesStay(js, QueueCanceled(js, l))
BY DEF OutcomesStay, StepsCanceled, QueueCanceled, Active, Committable, Final

\* A row queued or taken under a number without an outcome keeps the others.
LEMMA OutcomesStayExcept ==
  ASSUME NEW js \in [Jobs -> JobRow], NEW ks \in [Jobs -> JobRow],
         OutcomesStay(js, ks), NEW j \in Jobs, js[j].status \notin Final, NEW r
  PROVE  OutcomesStay(js, [ks EXCEPT ![j] = r])
BY DEF OutcomesStay

\* A worker that writes an outcome has a job without one.
LEMMA CycleKeepsOutcomes ==
  ASSUME IInv, NEW w \in Workers, Cycle(w)
  PROVE  OutcomesStay(jobs, jobs')
<1> DEFINE j == workers[w].job
<1>1. jobs \in [Jobs -> JobRow]
  BY DEF IInv, TypeOK
<1>2. CASE UNCHANGED jobs
  BY <1>2 DEF OutcomesStay
<1>3. CASE Start(w) \/ FinishBlocked(w) \/ FinishFailed(w) \/ FinishCanceled(w)
  <2>1. jobs[j].status \notin Final
    BY <1>3, Zenon DEF Start, FinishBlocked, FinishFailed, FinishCanceled, Owned,
                Fenced, Committable, Final
  <2>2. \A i \in Jobs : i # j => jobs'[i] = jobs[i]
    BY <1>1, <1>3, Zenon DEF Start, FinishBlocked, FinishFailed, FinishCanceled
  <2>3. QED
    BY <2>1, <2>2 DEF OutcomesStay
<1>4. CASE FinishSuccess(w)
  <2>1. workers[w].pc # "idle" /\ jobs[j].status \in Committable
    BY <1>4 DEF FinishSuccess, Owned, Fenced
  <2>2. PICK Q, id : id \in Numberings(Q)
                     /\ jobs' = RowsFinished(j, jobs[j].lot, Q, id)
    BY <1>4 DEF FinishSuccess
  <2>3. \A t \in Q : id[t] \in Unused
    BY <2>2 DEF Numberings
  <2>4. \A i \in Jobs : i # j /\ i \notin Unused => jobs'[i] = jobs[i]
    BY <2>2, <2>3 DEF RowsFinished
  <2>5. QED
    BY <2>1, <2>4 DEF OutcomesStay, Unused, Committable, Final
<1>5. QED
  BY <1>2, <1>3, <1>4
     DEF Cycle, HandlerBegins, Publish, HandlerReturns, HandlerRaises,
         HandlerCanceled, LeaseLost, Rejected

\* One step never rewrites the outcome of a job whose row it keeps.
LEMMA OutcomeStep ==
  ASSUME IInv, Next
  PROVE  \A j \in Jobs : jobs[j].status \in Final =>
           jobs'[j].status \in {jobs[j].status, "purged"}
<1> USE DagAssumption
<1>1. jobs \in [Jobs -> JobRow]
  BY DEF IInv, TypeOK
<1>2. \A j \in Unused : j \in Jobs /\ jobs[j].status \notin Final
  BY DEF Unused, Final
<1>3. SUFFICES \/ OutcomesStay(jobs, jobs')
               \/ \E l \in Lots, js \in [Jobs -> JobRow] :
                    OutcomesStay(jobs, js) /\ Purged(js, l)
  BY DEF OutcomesStay, Purged, NoRow
<1>4. ASSUME NEW l \in Lots, NEW s \in Steps, Submit(l, s) \/ Reset(l, s)
      PROVE  OutcomesStay(jobs, jobs')
  <2> DEFINE ks == StepsCanceled(jobs, l, {s} \cup Downstream[s])
  <2>1. {s} \cup Downstream[s] \in SUBSET Steps
    OBVIOUS
  <2>2. ks \in [Jobs -> JobRow] /\ OutcomesStay(jobs, ks)
    BY <1>1, <2>1, StepsCanceledRows, CancelingKeepsOutcomes
  <2>3. CASE Reset(l, s)
    BY <2>2, <2>3 DEF Reset
  <2>4. CASE Submit(l, s)
    <3>1. PICK j \in Unused : jobs' = [ks EXCEPT ![j] = QueuedRow(l, s, j)]
      BY <2>4 DEF Submit, Fresh
    <3> HIDE DEF ks
    <3>2. QED
      BY <1>1, <1>2, <2>2, <3>1, OutcomesStayExcept
  <2>5. QED
    BY <1>4, <2>3, <2>4
<1>5. ASSUME NEW l \in Lots, NEW s \in Steps, NEW k \in Keys,
             Retry(l, s, k) \/ Request(l, s, k)
      PROVE  OutcomesStay(jobs, jobs')
  <2> DEFINE ks == StepsCanceled(jobs, l, {s} \cup Downstream[s])
  <2>1. {s} \cup Downstream[s] \in SUBSET Steps
    OBVIOUS
  <2>2. ks \in [Jobs -> JobRow] /\ OutcomesStay(jobs, ks)
    BY <1>1, <2>1, StepsCanceledRows, CancelingKeepsOutcomes
  <2>3. OutcomesStay(jobs, jobs)
    BY DEF OutcomesStay
  <2>4. PICK j \in Unused, qs \in {ks, jobs} :
          jobs' = [qs EXCEPT ![j] = QueuedRow(l, s, k)]
    BY <1>5 DEF Retry, Request, Fresh
  <2> HIDE DEF ks
  <2>5. qs \in [Jobs -> JobRow] /\ OutcomesStay(jobs, qs)
    BY <1>1, <2>2, <2>3, <2>4
  <2>6. QED
    BY <1>1, <1>2, <2>4, <2>5, OutcomesStayExcept
<1>6. ASSUME NEW l \in Lots, Delete(l) \/ Purge(l)
      PROVE  \/ OutcomesStay(jobs, jobs')
             \/ \E js \in [Jobs -> JobRow] :
                  OutcomesStay(jobs, js) /\ Purged(js, l)
  <2> DEFINE js == QueueCanceled(Expired(jobs), l)
             ks == Expired(QueueCanceled(jobs, l))
  <2>1. Expired(jobs) \in [Jobs -> JobRow]
        /\ QueueCanceled(jobs, l) \in [Jobs -> JobRow]
    BY <1>1, ExpiredRows, QueueCanceledRows
  <2>2. js \in [Jobs -> JobRow] /\ ks \in [Jobs -> JobRow]
    BY <2>1, ExpiredRows, QueueCanceledRows
  <2>3. OutcomesStay(jobs, Expired(jobs)) /\ OutcomesStay(Expired(jobs), js)
        /\ OutcomesStay(jobs, QueueCanceled(jobs, l))
        /\ OutcomesStay(QueueCanceled(jobs, l), ks)
    BY <1>1, <2>1, ExpiryKeepsOutcomes, CancelingKeepsOutcomes
  <2>4. OutcomesStay(jobs, js) /\ OutcomesStay(jobs, ks)
    BY <2>3 DEF OutcomesStay
  <2>5. \/ jobs' = js \/ Purged(js, l)
        \/ jobs' = ks \/ Purged(ks, l)
    BY <1>6 DEF Delete, Purge
  <2> HIDE DEF js, ks
  <2>6. QED
    BY <2>2, <2>4, <2>5
<1>7. ASSUME NEW w \in Workers, Acquire(w)
      PROVE  OutcomesStay(jobs, jobs')
  <2>1. PICK j \in Eligible(Expired(jobs)) : \A i \in Jobs :
          i # j => jobs'[i] = Expired(jobs)[i]
    BY <1>7 DEF Acquire, Expired
  <2>2. OutcomesStay(jobs, Expired(jobs)) /\ jobs[j].status \notin Final
    BY <1>1, <2>1, ExpiryKeepsOutcomes DEF Eligible, OutcomesStay, Final
  <2>3. QED
    BY <2>1, <2>2 DEF OutcomesStay
<1>8. ASSUME NEW j \in Jobs, OrphanLapses(j) \/ HeldLapses(j)
      PROVE  OutcomesStay(jobs, jobs')
  <2>1. jobs' = [jobs EXCEPT ![j].lapsed = TRUE]
        /\ jobs[j].status \in Committable
    BY <1>8 DEF OrphanLapses, HeldLapses, LapsedNow
  <2>2. QED
    BY <1>1, <2>1 DEF OutcomesStay, Committable, Final
<1>9. CASE Sweep
  BY <1>1, <1>9, ExpiryKeepsOutcomes DEF Sweep
<1>10. CASE \/ \E l \in Lots : RequestCancel(l)
            \/ \E w \in Workers : Cycle(w) \/ Crash(w)
  <2>1. CASE UNCHANGED jobs
    BY <2>1 DEF OutcomesStay
  <2>2. QED
    BY <1>10, <2>1, CycleKeepsOutcomes DEF RequestCancel, Crash
<1>11. QED
  BY <1>4, <1>5, <1>6, <1>7, <1>8, <1>9, <1>10 DEF Next

\* A job keeps its outcome until its row is purged, for any number of workers.
THEOREM OutcomesNeverChange == Spec => OutcomesAreFinal
<1>1. IInv /\ [Next]_vars =>
        [\A j \in Jobs : jobs[j].status \in Final =>
           jobs'[j].status \in {jobs[j].status, "purged"}]_vars
  BY OutcomeStep
<1>2. QED
  BY <1>1, Invariance, PTL DEF Spec, OutcomesAreFinal

\* A lot never reopens, and a deletion is never undone by a late cancellation.
THEOREM LotsCloseOneWay == Spec => ClosingIsOneWay
<1> DEFINE Close ==
      \A l \in Lots :
        /\ lots[l].status = "annule" => lots'[l].status \in Blocked
        /\ lots[l].status = "supprime" =>
             lots'[l].status \in {"supprime", "purge"}
        /\ lots[l].status = "purge" => lots'[l].status = "purge"
<1>1. IInv /\ [Next]_vars => [Close]_vars
  <2> SUFFICES ASSUME IInv, Next
               PROVE  Close
    BY DEF vars
  <2>1. lots \in [Lots -> LotRow]
    BY DEF IInv, TypeOK
  <2>2. CASE UNCHANGED lots
    BY <2>2 DEF Blocked
  <2>3. ASSUME NEW l \in Lots, RequestCancel(l)
        PROVE  Close
    <3>1. \A m \in Lots : lots'[m].status = lots[m].status
      BY <2>1, <2>3 DEF RequestCancel, LotRow
    <3>2. QED
      BY <3>1 DEF Blocked
  <2>4. ASSUME NEW l \in Lots, Delete(l) \/ Purge(l)
        PROVE  Close
    <3>1. \/ lots' = [lots EXCEPT ![l].status = "purge"]
          \/ lots' = [lots EXCEPT ![l].status = "supprime"]
             /\ lots[l].status # "purge"
          \/ UNCHANGED lots
      BY <2>4 DEF Delete, Purge, Purged
    <3>2. QED
      BY <2>1, <2>2, <3>1 DEF Blocked, LotRow
  <2>5. ASSUME NEW w \in Workers, FinishCanceled(w)
        PROVE  Close
    <3>1. PICK l \in Lots : \/ UNCHANGED lots
                            \/ /\ lots' = [lots EXCEPT ![l].status = "annule"]
                               /\ lots[l].status \notin {"supprime", "purge"}
      BY <2>5, Zenon DEF FinishCanceled, Deleted, Fenced, Current
    <3>2. QED
      BY <2>1, <2>2, <3>1 DEF Blocked, LotRow
  <2>6. QED
    BY <2>2, <2>3, <2>4, <2>5, ZenonT(60)
       DEF Next, Submit, Reset, Retry, Request, Acquire, Cycle, Start,
           HandlerBegins, Publish, HandlerReturns, HandlerRaises,
           HandlerCanceled, LeaseLost, FinishSuccess, FinishBlocked,
           FinishFailed, Rejected, Crash, Sweep, OrphanLapses, HeldLapses,
           LapsedNow
<1>2. QED
  BY <1>1, Invariance, PTL DEF Spec, ClosingIsOneWay
=============================================================================
