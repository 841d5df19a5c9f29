------------------------------ MODULE JobQueue ------------------------------
(***************************************************************************)
(* The persistent job queue of Sircom 2026: the tables lots, etapes, jobs  *)
(* and artefacts, the HTTP handlers that write them and the local workers  *)
(* that lease jobs.  Database.transaction() opens BEGIN IMMEDIATE, so one  *)
(* transaction is one action; a worker cycle is several transactions, and  *)
(* everything may happen between two of them.                              *)
(*                                                                         *)
(* Abstractions: a run has the name of its job (enqueue_job draws one      *)
(* run_id per job); the lease of a leased or running job is current or     *)
(* lapsed (lease_until <= now), and an expired one has lapsed; the         *)
(* lot statuses that accept writes are one status "ouvert"; the two        *)
(* "termine" statuses are one; lease_owner is left out, since every        *)
(* process uses the same worker_id: the lease version alone must fence.    *)
(***************************************************************************)
EXTENDS Naturals, FiniteSets

CONSTANTS
  Lots, Steps, Workers, Keys,
  Entry,          \* steps a user decision or an upload resets and queues
  OnDemand,       \* steps a user request queues without resetting anything
  Sources,        \* Sources[s]: steps whose artefacts the handler of s reads
  Downstream,     \* Downstream[s]: steps invalidated with s, s excluded
  Enqueues,       \* Enqueues[s]: steps a successful end of s may queue
  Validates,      \* Validates[s]: steps handed to the user by the end of s
  None,           \* the SQL NULL
  UserRun,        \* the run of a step handed to the user: no job carries it
  MaxJobs, CreatedAt,
  MaxActiveJobs,  \* SIRCOM_MAX_ACTIVE_JOBS
  MaxLapses,      \* bound: leases that lapse under a live worker
  MaxCrashes      \* bound: worker cycles cut short

Jobs == 1..MaxJobs
RunIds == Jobs \cup {None, UserRun}

ASSUME DagAssumption ==
  /\ Entry \subseteq Steps
  /\ OnDemand \subseteq Steps
  /\ Sources \in [Steps -> SUBSET Steps]
  /\ Downstream \in [Steps -> SUBSET Steps]
  /\ Enqueues \in [Steps -> SUBSET Steps]
  /\ Validates \in [Steps -> SUBSET Steps]
  /\ \A s \in Steps :
       /\ s \notin Downstream[s] \cup Enqueues[s] \cup Validates[s]
       /\ Enqueues[s] \cap Validates[s] = {}
       /\ \A r \in Sources[s] : {s} \cup Downstream[s] \subseteq Downstream[r]

ASSUME BoundAssumption ==
  /\ MaxJobs \in Nat
  /\ CreatedAt \in [Jobs -> Nat]
  /\ MaxActiveJobs \in Nat \ {0}
  /\ MaxLapses \in Nat
  /\ MaxCrashes \in Nat

ASSUME NullAssumption ==
  /\ UserRun # None
  /\ None \notin Jobs /\ None \notin Lots /\ None \notin Steps
  /\ UserRun \notin Jobs

VARIABLES
  lots,       \* lots[l]: status and cancel_requested_at
  etapes,     \* etapes[l][s]: status and current_run_id
  jobs,       \* the rows of table jobs, "absent" before creation
  artefacts,  \* artefacts[l][s]: the committed artefacts, as <<run, version>>
  workers,    \* the local state of each worker cycle
  lapses, crashes

vars == <<lots, etapes, jobs, artefacts, workers, lapses, crashes>>

-----------------------------------------------------------------------------
Active == {"queued", "leased", "running"}       \* ACTIVE_JOB_STATUSES
Committable == {"leased", "running"}            \* COMMITTABLE_JOB_STATUSES
Final == {"succeeded", "failed", "canceled"}
Blocked == {"annule", "supprime", "purge"}      \* LOT_WRITE_BLOCKED_STATUSES
Retryable == {"echoue", "bloque", "invalide"}   \* RETRYABLE_STEP_STATUSES

LotRow == [status : {"ouvert"} \cup Blocked, cancel : BOOLEAN]
StepRow ==
  [status : {"non_demarre", "pret", "en_cours", "termine", "bloque", "echoue",
             "annule", "invalide", "action_requise", "purge"},
   run : RunIds]
JobRow ==
  [status : {"absent", "expired", "purged"} \cup Active \cup Final,
   lot : Lots \cup {None}, step : Steps \cup {None},
   key : Keys \cup Jobs \cup {None},
   version : Nat, lapsed : BOOLEAN]
WorkerState ==
  [pc : {"idle", "leased", "started", "handler",
         "termine", "bloque", "echoue", "annule"},
   job : Jobs \cup {None}, version : Nat, published : BOOLEAN]

NoRow == [status |-> "absent", lot |-> None, step |-> None, key |-> None,
          version |-> 0, lapsed |-> FALSE]
Idle == [pc |-> "idle", job |-> None, version |-> 0, published |-> FALSE]

\* Mutant: a purged lot accepts writes again.
OpenAfterPurge(l) == lots[l].status \notin {"annule", "supprime"}
Open(l) == lots[l].status \notin Blocked
\* Mutant: a deleted lot is seen as such only once purged.
DeletedOncePurged(l) == lots[l].status = "purge"
Deleted(l) == lots[l].status \in {"supprime", "purge"}

\* The rows of one step, and of one lot.
RowsOf(js, l, s) == {j \in Jobs : js[j].lot = l /\ js[j].step = s}
ActiveOf(js, l, s) == {j \in RowsOf(js, l, s) : js[j].status \in Active}
\* Mutant: an expired job holds the purge of its lot back.
ProcessingOfWithExpired(js, l) ==
  {j \in Jobs : js[j].lot = l /\ js[j].status \in Committable \cup {"expired"}}
ProcessingOf(js, l) ==
  {j \in Jobs : js[j].lot = l /\ js[j].status \in Committable}

\* count_processing: the leased and running jobs of the lots that accept writes.
Processing(js) ==
  {j \in Jobs : js[j].status \in Committable /\ Open(js[j].lot)}

\* The job's run is the current run of its step.
Current(j) ==
  /\ jobs[j].lot \in Lots
  /\ jobs[j].step \in Steps
  /\ etapes[jobs[j].lot][jobs[j].step].run = j

-----------------------------------------------------------------------------
\* The UPDATE statements on table jobs, as functions of the table.

Expired(js) ==
  [j \in Jobs |->
    IF js[j].status \in Committable /\ js[j].lapsed
    THEN [js[j] EXCEPT !.status = "expired", !.lapsed = FALSE] ELSE js[j]]

\* Mutants: queued jobs survive; the status of a canceled lot is written into
\* the job.
StepsCanceledIfProcessing(js, l, S) ==
  [j \in Jobs |->
    IF js[j].lot = l /\ js[j].step \in S /\ js[j].status \in Committable
    THEN [js[j] EXCEPT !.status = "canceled", !.lapsed = FALSE] ELSE js[j]]
StepsCanceledAsLot(js, l, S) ==
  [j \in Jobs |->
    IF js[j].lot = l /\ js[j].step \in S /\ js[j].status \in Active
    THEN [js[j] EXCEPT !.status = "annule", !.lapsed = FALSE] ELSE js[j]]
StepsCanceled(js, l, S) ==
  [j \in Jobs |->
    IF js[j].lot = l /\ js[j].step \in S /\ js[j].status \in Active
    THEN [js[j] EXCEPT !.status = "canceled", !.lapsed = FALSE] ELSE js[j]]

QueueCanceled(js, l) ==
  [j \in Jobs |->
    IF js[j].lot = l /\ js[j].status = "queued"
    THEN [js[j] EXCEPT !.status = "canceled"] ELSE js[j]]

QueuedRow(l, s, k) ==
  [NoRow EXCEPT !.status = "queued", !.lot = l, !.step = s, !.key = k]

\* Mutant: the current run survives the invalidation.
StepsInvalidatedWithRun(l, S) ==
  [etapes EXCEPT ![l] = [s \in Steps |->
    IF s \in S THEN [@[s] EXCEPT !.status = "invalide"] ELSE @[s]]]
\* invalidate_downstream on the set S: step rows and committed artefacts.
StepsInvalidated(l, S) ==
  [etapes EXCEPT ![l] = [s \in Steps |->
    IF s \in S THEN [status |-> "invalide", run |-> None] ELSE @[s]]]
ArtefactsObsolete(l, S) ==
  [artefacts EXCEPT ![l] = [s \in Steps |-> IF s \in S THEN {} ELSE @[s]]]

\* Job rows are numbered in creation order; a number is never used twice.
Unused == {j \in Jobs : jobs[j].status = "absent"}
Fresh(j) == j \in Unused /\ \A i \in Unused : j <= i

\* The rows created together for the steps of S take the next numbers.
Numberings(S) ==
  {f \in [S -> Unused] :
     /\ \A s, t \in S : f[s] = f[t] => s = t
     /\ \A s \in S, i \in Unused : i < f[s] => \E t \in S : f[t] = i}

-----------------------------------------------------------------------------
Init ==
  /\ lots = [l \in Lots |-> [status |-> "ouvert", cancel |-> FALSE]]
  /\ etapes = [l \in Lots |-> [s \in Steps |->
                 [status |-> "non_demarre", run |-> None]]]
  /\ jobs = [j \in Jobs |-> NoRow]
  /\ artefacts = [l \in Lots |-> [s \in Steps |-> {}]]
  /\ workers = [w \in Workers |-> Idle]
  /\ lapses = 0
  /\ crashes = 0

-----------------------------------------------------------------------------
(***************************************************************************)
(* HTTP handlers.  A request the code refuses changes nothing.             *)
(***************************************************************************)

\* An upload or a validated decision: everything from s on is invalidated,
\* then s is queued under a key made from the new artefact.
Submit(l, s) ==
  LET reset == {s} \cup Downstream[s] IN
  /\ s \in Entry
  /\ Open(l)
  /\ \E j \in Jobs :
       /\ Fresh(j)
       /\ jobs' = [StepsCanceled(jobs, l, reset) EXCEPT
                     ![j] = QueuedRow(l, s, j)]
       /\ etapes' = [StepsInvalidated(l, reset) EXCEPT
                       ![l][s] = [status |-> "pret", run |-> j]]
  /\ artefacts' = ArtefactsObsolete(l, reset)
  /\ UNCHANGED <<lots, workers, lapses, crashes>>

\* A decision that invalidates but whose first worker step is not ready.
Reset(l, s) ==
  LET reset == {s} \cup Downstream[s] IN
  /\ s \in Entry
  /\ Open(l)
  /\ jobs' = StepsCanceled(jobs, l, reset)
  /\ etapes' = StepsInvalidated(l, reset)
  /\ artefacts' = ArtefactsObsolete(l, reset)
  /\ UNCHANGED <<lots, workers, lapses, crashes>>

\* retry_step: a known key is replayed or refused, both without a write.
Retry(l, s, k) ==
  /\ Open(l)
  /\ \A j \in RowsOf(jobs, l, s) : jobs[j].key # k
  /\ etapes[l][s].status \in Retryable
  /\ \E j \in Jobs :
       /\ Fresh(j)
       /\ jobs' = [StepsCanceled(jobs, l, {s} \cup Downstream[s]) EXCEPT
                     ![j] = QueuedRow(l, s, k)]
       /\ etapes' = [StepsInvalidated(l, Downstream[s]) EXCEPT
                       ![l][s] = [status |-> "pret", run |-> j]]
  /\ artefacts' = ArtefactsObsolete(l, Downstream[s])
  /\ UNCHANGED <<lots, workers, lapses, crashes>>

SourcesFinished(l, s) ==
  \A r \in Sources[s] : etapes[l][r].status = "termine"

\* enqueue_job creates a row only if neither the key nor an active row exists.
CanEnqueue(l, s, k) ==
  /\ \A j \in RowsOf(jobs, l, s) : jobs[j].key # k
  /\ ActiveOf(jobs, l, s) = {}

\* request_package_generation: its sources are finished steps.
Request(l, s, k) ==
  /\ s \in OnDemand
  /\ Open(l)
  /\ SourcesFinished(l, s)
  /\ CanEnqueue(l, s, k)
  /\ \E j \in Jobs :
       /\ Fresh(j)
       /\ jobs' = [jobs EXCEPT ![j] = QueuedRow(l, s, k)]
       /\ etapes' = [etapes EXCEPT ![l][s] = [status |-> "pret", run |-> j]]
  /\ UNCHANGED <<lots, artefacts, workers, lapses, crashes>>

\* request_lot_cancellation: flags only, the workers do the rest.
RequestCancel(l) ==
  /\ lots' = [lots EXCEPT ![l].cancel = TRUE]
  /\ UNCHANGED <<etapes, jobs, artefacts, workers, lapses, crashes>>

\* The child rows of a purged lot are deleted; the lot row stays.
Purged(js, l) ==
  /\ jobs' = [j \in Jobs |->
       IF js[j].lot = l THEN [NoRow EXCEPT !.status = "purged"] ELSE js[j]]
  /\ etapes' = [etapes EXCEPT ![l] = [s \in Steps |->
       [status |-> "purge", run |-> None]]]
  /\ artefacts' = [artefacts EXCEPT ![l] = [s \in Steps |-> {}]]
  /\ lots' = [lots EXCEPT ![l].status = "purge"]

\* DELETE: delete_lot_and_purge_if_idle, deferred while a job is processing.
Delete(l) ==
  LET js == QueueCanceled(Expired(jobs), l) IN
  /\ lots[l].status # "purge"
  /\ IF ProcessingOf(js, l) = {}
     THEN Purged(js, l)
     ELSE /\ jobs' = js
          /\ lots' = [lots EXCEPT ![l].status = "supprime"]
          /\ UNCHANGED <<etapes, artefacts>>
  /\ UNCHANGED <<workers, lapses, crashes>>

\* purge_deleted_lots_once, after each worker cycle and on a timer.
Purge(l) ==
  LET js == Expired(QueueCanceled(jobs, l)) IN
  /\ lots[l].status = "supprime"
  /\ IF ProcessingOf(js, l) = {}
     THEN Purged(js, l)
     ELSE jobs' = js /\ UNCHANGED <<lots, etapes, artefacts>>
  /\ UNCHANGED <<workers, lapses, crashes>>

-----------------------------------------------------------------------------
(***************************************************************************)
(* A worker cycle: acquire_next, start_job, the handler between two        *)
(* cancellation checks, and one of the three finish transactions.          *)
(***************************************************************************)

\* run_worker_once and the startup expire stale leases first.
Sweep ==
  /\ jobs' = Expired(jobs)
  /\ UNCHANGED <<lots, etapes, artefacts, workers, lapses, crashes>>

\* Mutants: a job whose run was replaced is taken; an expired job is not.
EligibleOfAnyRun(js) ==
  {j \in Jobs :
     /\ js[j].status \in {"queued", "expired"}
     /\ Open(js[j].lot)
     /\ etapes[js[j].lot][js[j].step].status \notin {"annule", "termine", "bloque"}}
EligibleIfQueued(js) ==
  {j \in Jobs :
     /\ js[j].status = "queued"
     /\ Open(js[j].lot)
     /\ etapes[js[j].lot][js[j].step].status \notin {"annule", "termine", "bloque"}
     /\ etapes[js[j].lot][js[j].step].run = j}
Eligible(js) ==
  {j \in Jobs :
     /\ js[j].status \in {"queued", "expired"}
     /\ Open(js[j].lot)
     /\ etapes[js[j].lot][js[j].step].status \notin {"annule", "termine", "bloque"}
     /\ etapes[js[j].lot][js[j].step].run = j}

SlotFree(js) == Cardinality(Processing(js)) < MaxActiveJobs

\* Mutant: the lease of an expired job is taken over under its old version.
NextVersionSame(j) == jobs[j].version
NextVersion(j) == jobs[j].version + 1

\* Oldest first; rows of one second are ordered by step, then by random id.
Acquire(w) ==
  LET js == Expired(jobs) IN
  /\ workers[w].pc = "idle"
  /\ SlotFree(js)
  /\ \E j \in Eligible(js) :
       /\ \A i \in Eligible(js) : CreatedAt[j] <= CreatedAt[i]
       /\ jobs' = [js EXCEPT ![j].status = "leased", ![j].lapsed = FALSE,
                             ![j].version = NextVersion(j)]
       /\ workers' = [workers EXCEPT ![w] =
            [pc |-> "leased", job |-> j, version |-> NextVersion(j),
             published |-> FALSE]]
  /\ UNCHANGED <<lots, etapes, artefacts, lapses, crashes>>

\* Mutant: any worker of the job may commit.
FencedWithoutVersion(w) ==
  LET j == workers[w].job IN
  /\ jobs[j].status \in Committable
  /\ ~jobs[j].lapsed
  /\ Current(j)
\* get_committable_by_run: the lease of worker w is current, whatever the lot.
Fenced(w) ==
  LET j == workers[w].job IN
  /\ jobs[j].status \in Committable
  /\ ~jobs[j].lapsed
  /\ jobs[j].version = workers[w].version
  /\ Current(j)

\* get_owned_committable and heartbeat: and the lot accepts writes.
Owned(w) == Fenced(w) /\ Open(jobs[workers[w].job].lot)

RowGone(w) == jobs[workers[w].job].status = "purged"

\* _raise_if_cancel_requested on a row that still exists.  A job carries
\* cancel_requested_at when it was canceled, or when its lot does, or when its
\* lot is deleted.
CancelSeen(w) ==
  LET j == workers[w].job IN
  /\ ~RowGone(w)
  /\ \/ jobs[j].status = "canceled"
     \/ lots[jobs[j].lot].cancel
     \/ Deleted(jobs[j].lot)

\* pc is "started" before the first raise_if_cancelled, "handler" up to the
\* second, then the step status the finish transaction is about to write.
Goto(w, pc) ==
  workers' = [workers EXCEPT ![w].pc = pc, ![w].published = FALSE]
Stop(w) == workers' = [workers EXCEPT ![w] = Idle]

Start(w) ==
  LET j == workers[w].job IN
  /\ workers[w].pc = "leased"
  /\ Owned(w) /\ jobs[j].status = "leased"
  /\ jobs' = [jobs EXCEPT ![j].status = "running"]
  /\ etapes' = [etapes EXCEPT ![jobs[j].lot][jobs[j].step].status = "en_cours"]
  /\ Goto(w, "started")
  /\ UNCHANGED <<lots, artefacts, lapses, crashes>>

\* The first raise_if_cancelled finds nothing.
HandlerBegins(w) ==
  /\ workers[w].pc = "started"
  /\ ~RowGone(w) /\ ~CancelSeen(w)
  /\ Goto(w, "handler")
  /\ UNCHANGED <<lots, etapes, jobs, artefacts, lapses, crashes>>

\* The commit transaction of a handler that found its sources: the lease is
\* checked, the step's old artefacts become obsolete, the new one is committed.
\* (The sources are read earlier, but a source that changes resets this step.)
Publish(w) ==
  LET j == workers[w].job IN
  /\ workers[w].pc = "handler"
  /\ ~workers[w].published
  /\ Fenced(w)
  /\ SourcesFinished(jobs[j].lot, jobs[j].step)
  /\ ~Deleted(jobs[j].lot)
  /\ artefacts' = [artefacts EXCEPT ![jobs[j].lot][jobs[j].step] =
                     {<<j, workers[w].version>>}]
  /\ workers' = [workers EXCEPT ![w].published = TRUE]
  /\ UNCHANGED <<lots, etapes, jobs, lapses, crashes>>

\* The handler returns, and the second raise_if_cancelled finds nothing.
HandlerReturns(w, result) ==
  /\ workers[w].pc = "handler"
  /\ result = "termine" => workers[w].published
  /\ ~RowGone(w) /\ ~CancelSeen(w)
  /\ Goto(w, result)
  /\ UNCHANGED <<lots, etapes, jobs, artefacts, lapses, crashes>>

\* Any exception, the KeyError of a row that is gone included.
HandlerRaises(w) ==
  /\ workers[w].pc = "handler" \/ (workers[w].pc = "started" /\ RowGone(w))
  /\ Goto(w, "echoue")
  /\ UNCHANGED <<lots, etapes, jobs, artefacts, lapses, crashes>>

\* raise_if_cancelled, a heartbeat or a progress report sees a cancellation.
HandlerCanceled(w) ==
  /\ workers[w].pc \in {"started", "handler"}
  /\ CancelSeen(w)
  /\ Goto(w, "annule")
  /\ UNCHANGED <<lots, etapes, jobs, artefacts, lapses, crashes>>

\* WorkerLeaseLost: a commit is refused, or a heartbeat without cancellation.
LeaseLost(w) ==
  /\ workers[w].pc = "handler"
  /\ ~Fenced(w) \/ ~(Owned(w) \/ CancelSeen(w))
  /\ Stop(w)
  /\ UNCHANGED <<lots, etapes, jobs, artefacts, lapses, crashes>>

\* finish_success with final_step_status "bloque".
FinishBlocked(w) ==
  LET j == workers[w].job IN
  /\ workers[w].pc = "bloque"
  /\ Owned(w)
  /\ jobs' = [jobs EXCEPT ![j].status = "succeeded"]
  /\ etapes' = [etapes EXCEPT ![jobs[j].lot][jobs[j].step].status = "bloque"]
  /\ Stop(w)
  /\ UNCHANGED <<lots, artefacts, lapses, crashes>>

\* The two tables once step s of lot l ended with job j: the steps of Q are
\* queued under the numbers id, those of Validates[s] get a run of their own.
RowsFinished(j, l, Q, id) ==
  [i \in Jobs |->
    IF i = j THEN [jobs[j] EXCEPT !.status = "succeeded"]
    ELSE IF \E t \in Q : id[t] = i
    THEN QueuedRow(l, CHOOSE t \in Q : id[t] = i, j)
    ELSE jobs[i]]
StepsFinished(l, s, Q, id) ==
  [etapes EXCEPT ![l] = [t \in Steps |->
    IF t = s THEN [@[t] EXCEPT !.status = "termine"]
    ELSE IF t \in Q THEN [status |-> "pret", run |-> id[t]]
    ELSE IF t \in Validates[s] THEN [status |-> "action_requise", run |-> UserRun]
    ELSE @[t]]]

\* finish_success: the steps whose other sources are finished are queued (some
\* also wait for user steps that are not modelled, hence any subset).
FinishSuccess(w) ==
  LET j == workers[w].job
      l == jobs[j].lot
      s == jobs[j].step IN
  /\ workers[w].pc = "termine"
  /\ Owned(w)
  /\ \E ready \in SUBSET {t \in Enqueues[s] :
          \A r \in Sources[t] \ {s} : etapes[l][r].status = "termine"} :
     LET Q == {t \in ready : ActiveOf(jobs, l, t) = {}} IN
     \E id \in Numberings(Q) :
       /\ jobs' = RowsFinished(j, l, Q, id)
       /\ etapes' = StepsFinished(l, s, Q, id)
  /\ Stop(w)
  /\ UNCHANGED <<lots, artefacts, lapses, crashes>>

FinishFailed(w) ==
  LET j == workers[w].job IN
  /\ workers[w].pc = "echoue"
  /\ Owned(w)
  /\ jobs' = [jobs EXCEPT ![j].status = "failed"]
  /\ etapes' = [etapes EXCEPT ![jobs[j].lot][jobs[j].step].status = "echoue"]
  /\ Stop(w)
  /\ UNCHANGED <<lots, artefacts, lapses, crashes>>

\* finish_canceled, allowed on a lot that refuses other writes.
FinishCanceled(w) ==
  LET j == workers[w].job
      l == jobs[j].lot IN
  /\ workers[w].pc = "annule"
  /\ Fenced(w)
  /\ jobs' = [jobs EXCEPT ![j].status = "canceled"]
  /\ IF Deleted(l)
     THEN UNCHANGED <<lots, etapes>>
     ELSE /\ etapes' = [etapes EXCEPT ![l][jobs[j].step].status = "annule"]
          /\ lots' = [lots EXCEPT ![l].status = "annule"]
  /\ Stop(w)
  /\ UNCHANGED <<artefacts, lapses, crashes>>

\* A transaction of the cycle finds the lease or the run no longer current.
Rejected(w) ==
  /\ \/ workers[w].pc = "leased"
        /\ ~(Owned(w) /\ jobs[workers[w].job].status = "leased")
     \/ workers[w].pc \in {"termine", "bloque", "echoue"} /\ ~Owned(w)
     \/ workers[w].pc = "annule" /\ ~Fenced(w)
  /\ Stop(w)
  /\ UNCHANGED <<lots, etapes, jobs, artefacts, lapses, crashes>>

\* The process dies, or a transaction of the cycle raises (database locked,
\* open alert at the end of a step) and the worker loop goes on without it.
Crash(w) ==
  /\ workers[w].pc # "idle"
  /\ crashes < MaxCrashes
  /\ crashes' = crashes + 1
  /\ Stop(w)
  /\ UNCHANGED <<lots, etapes, jobs, artefacts, lapses>>

Holder(j) ==
  {w \in Workers : /\ workers[w].pc # "idle"
                   /\ workers[w].job = j
                   /\ workers[w].version = jobs[j].version}

LapsedNow(j) ==
  /\ jobs[j].status \in Committable
  /\ ~jobs[j].lapsed
  /\ jobs' = [jobs EXCEPT ![j].lapsed = TRUE]
  /\ UNCHANGED <<lots, etapes, artefacts, workers, crashes>>

\* lease_until passes: nobody renews it, or the renewal comes too late.
OrphanLapses(j) == Holder(j) = {} /\ LapsedNow(j) /\ UNCHANGED lapses
HeldLapses(j) ==
  /\ Holder(j) # {}
  /\ lapses < MaxLapses
  /\ lapses' = lapses + 1
  /\ LapsedNow(j)

-----------------------------------------------------------------------------
Cycle(w) ==
  \/ Start(w) \/ HandlerBegins(w) \/ Publish(w)
  \/ HandlerReturns(w, "termine") \/ HandlerReturns(w, "bloque")
  \/ HandlerRaises(w) \/ HandlerCanceled(w) \/ LeaseLost(w)
  \/ FinishSuccess(w) \/ FinishBlocked(w) \/ FinishFailed(w)
  \/ FinishCanceled(w) \/ Rejected(w)

Next ==
  \/ \E l \in Lots, s \in Steps :
       \/ Submit(l, s) \/ Reset(l, s)
       \/ \E k \in Keys : Retry(l, s, k) \/ Request(l, s, k)
  \/ \E l \in Lots : RequestCancel(l) \/ Delete(l) \/ Purge(l)
  \/ \E w \in Workers : Acquire(w) \/ Cycle(w) \/ Crash(w)
  \/ Sweep
  \/ \E j \in Jobs : OrphanLapses(j) \/ HeldLapses(j)

Spec == Init /\ [][Next]_vars

\* The worker and purge loops run for ever and a handler ends; a lease nobody
\* renews ends with the clock.  Users, crashes and late renewals owe nothing.
Fairness ==
  /\ \A w \in Workers : WF_vars(Acquire(w)) /\ WF_vars(Cycle(w))
  /\ \A l \in Lots : WF_vars(Purge(l))
  /\ WF_vars(Sweep)
  /\ \A j \in Jobs : WF_vars(OrphanLapses(j))

FairSpec == Spec /\ Fairness

-----------------------------------------------------------------------------
\* Type correctness of the four tables and of the workers' local state.
TypeOK ==
  /\ lots \in [Lots -> LotRow]
  /\ etapes \in [Lots -> [Steps -> StepRow]]
  /\ jobs \in [Jobs -> JobRow]
  /\ artefacts \in [Lots -> [Steps -> SUBSET (Jobs \X Nat)]]
  /\ workers \in [Workers -> WorkerState]
  /\ lapses \in 0..MaxLapses
  /\ crashes \in 0..MaxCrashes

\* No interleaving of uploads, retries, package requests and automatic
\* enqueues gives a step two active jobs: the partial unique index
\* idx_jobs_active_lot_step never turns a request into a database error.
OneActiveJobPerStep ==
  \A l \in Lots, s \in Steps :
    \A i, j \in ActiveOf(jobs, l, s) : i = j

\* The steps a worker may take away from their job by handing them to the user.
HandedOver == UNION {Validates[s] : s \in Steps}

\* An active job of an open lot carries the current run of its step.  If not,
\* acquire_next never takes it and enqueue_job returns it for ever in place of
\* a new job: the step is stuck.  Holds for the steps no job hands over.
ActiveJobsAreCurrent ==
  \A j \in Jobs :
    (/\ jobs[j].status \in Active
     /\ Open(jobs[j].lot)
     /\ jobs[j].step \notin HandedOver) => Current(j)

\* The inductive form: an active job that lost its step lost it to the user.
ActiveJobsAreCurrentOrHandedOver ==
  \A j \in Jobs :
    jobs[j].status \in Active =>
      \/ Current(j)
      \/ /\ jobs[j].lot \in Lots
         /\ jobs[j].step \in HandedOver
         /\ etapes[jobs[j].lot][jobs[j].step].run = UserRun

\* A step's run is never a number that a later job could still take.
RunsHaveRows ==
  \A l \in Lots, s \in Steps :
    etapes[l][s].run \in Jobs => jobs[etapes[l][s].run].status # "absent"

\* The foreign keys of table jobs: a row belongs to a step of a lot.
RowsHaveSteps ==
  \A j \in Jobs :
    jobs[j].status \notin {"absent", "purged"} =>
      jobs[j].lot \in Lots /\ jobs[j].step \in Steps

\* A worker's lease version is at most the version of its job.
LeasesAreNotAhead ==
  \A w \in Workers :
    workers[w].pc # "idle" =>
      LET j == workers[w].job IN
      /\ j \in Jobs
      /\ jobs[j].status # "absent"
      /\ jobs[j].status # "purged" => workers[w].version <= jobs[j].version

\* The status of a step and the status of its current job tell one story, so
\* a step shown as waiting or running always has a job some worker can still
\* acquire or finish, and no outcome is shown for a run that had another one.
StepTellsItsRun ==
  \A l \in Lots, s \in Steps :
    Open(l) =>
      LET st == etapes[l][s].status
          r == etapes[l][s].run IN
      \/ r = None /\ st \in {"non_demarre", "invalide"}
      \/ r = UserRun /\ st = "action_requise"
      \/ /\ r \in RowsOf(jobs, l, s)
         /\ \/ st = "pret" /\ jobs[r].status \in {"queued", "leased", "expired"}
            \/ st = "en_cours" /\ jobs[r].status \in {"leased", "running", "expired"}
            \/ st \in {"termine", "bloque"} /\ jobs[r].status = "succeeded"
            \/ st = "echoue" /\ jobs[r].status = "failed"

\* A finished step exposes exactly the artefact of the attempt that finished
\* it: nothing of an earlier attempt, of a replaced run or of a worker that
\* lost its lease, even on a lot canceled or deleted since.
FinishedStepExposesItsAttempt ==
  \A l \in Lots, s \in Steps :
    etapes[l][s].status = "termine" =>
      LET r == etapes[l][s].run IN
      r \in Jobs /\ artefacts[l][s] = {<<r, jobs[r].version>>}

\* Two workers on one job never hold the same lease version, so the version
\* alone tells the current one from those that lost the lease.
LeasesAreFenced ==
  \A v, w \in Workers :
    (/\ v # w
     /\ workers[v].pc # "idle" /\ workers[w].pc # "idle"
     /\ workers[v].job = workers[w].job) =>
      workers[v].version # workers[w].version

\* A purged lot keeps no row and no artefact, and no late worker brings one back.
PurgedLotIsEmpty ==
  \A l \in Lots :
    lots[l].status = "purge" =>
      /\ \A j \in Jobs : jobs[j].lot # l
      /\ \A s \in Steps : artefacts[l][s] = {}

\* What the proofs carry from step to step: with one active job per step and
\* the fencing of leases, no acquisition of an expired job can meet another
\* active job of its step, and no new version can meet an old one.
IInv ==
  /\ TypeOK
  /\ RowsHaveSteps
  /\ RunsHaveRows
  /\ ActiveJobsAreCurrentOrHandedOver
  /\ OneActiveJobPerStep
  /\ LeasesAreNotAhead
  /\ LeasesAreFenced
  /\ PurgedLotIsEmpty

\* A job that succeeded, failed or was canceled keeps that outcome until its
\* row is purged: no late worker, retry or sweep revives or rewrites it.
OutcomesAreFinal ==
  [][\A j \in Jobs : jobs[j].status \in Final =>
       jobs'[j].status \in {jobs[j].status, "purged"}]_vars

\* A lot closes in one direction: canceled, then deleted, then purged.  The
\* worker that confirms a cancellation late cannot undo a deletion.
ClosingIsOneWay ==
  [][\A l \in Lots :
       /\ lots[l].status = "annule" => lots'[l].status \in Blocked
       /\ lots[l].status = "supprime" => lots'[l].status \in {"supprime", "purge"}
       /\ lots[l].status = "purge" => lots'[l].status = "purge"]_vars

\* The abstract state: an expired job waits like a queued one.
LotState(status) ==
  CASE status = "ouvert" -> "open" [] status = "annule" -> "canceled"
    [] status = "supprime" -> "deleted" [] status = "purge" -> "purged"
JobState(status) ==
  IF status \in {"queued", "expired"} THEN "waiting"
  ELSE IF status \in Committable THEN "held" ELSE status

Contract == INSTANCE JobContract WITH
  Slots <- MaxActiveJobs,
  lot <- [l \in Lots |-> LotState(lots[l].status)],
  job <- [j \in Jobs |-> JobState(jobs[j].status)],
  owner <- [j \in Jobs |-> jobs[j].lot]

\* The queue keeps the promise of JobContract: whatever the steps, runs, leases
\* and cycles do, a job is taken within the slots, ends once and is never
\* revived, and a lot closes one way (acquire_next, the finish transactions,
\* the cancellations of jobs, delete and purge).
ImplementsContract == Contract!ContractSpec

\* The life of a lot as its rows tell it: leases that have not lapsed, and
\* committed artefacts of any step.
LotStates == [l \in Lots |-> LotState(lots[l].status)]
LeasedLots == [l \in Lots |-> \E j \in ProcessingOf(jobs, l) : ~jobs[j].lapsed]
ExposedLots == [l \in Lots |-> \E s \in Steps : artefacts[l][s] # {}]

Life == INSTANCE LotLife WITH
  status <- LotStates, held <- LeasedLots, exposed <- ExposedLots

\* The queue keeps to the life of a lot: no acquisition on a lot that is not
\* open, no commit on a deleted one, no purge under a lease (acquire_next,
\* the commit of the handlers, delete_lot_and_purge_if_idle).
KeepsTheLifeOfLots == Life!LifeSpec

\* A job whose run is current is eventually finished, or replaced by a newer
\* decision, or its lot is closed: crashes and lost leases only delay it.
JobSettles ==
  \A j \in Jobs :
    (jobs[j].status \in Active \cup {"expired"} /\ Current(j))
      ~> (\/ jobs[j].status \in Final \/ ~Current(j) \/ ~Open(jobs[j].lot))

\* A deleted lot is eventually purged, even if a worker was on one of its jobs
\* or died there.
DeletedLotIsPurged ==
  \A l \in Lots : lots[l].status = "supprime" ~> lots[l].status = "purge"
=============================================================================
