----------------------------- MODULE LotStorage -----------------------------
(***************************************************************************)
(* The files of a lot against its rows: the artefact store, the deletion   *)
(* and two-phase purge of a lot, and the reconciliation at startup.  The   *)
(* file system does not roll back, so a crash, or another actor, between a *)
(* transaction and a file operation leaves the two apart.                  *)
(*                                                                         *)
(* Abstractions: a lot that accepts writes is "ouvert"; a row knows        *)
(* whether its run is still the current run of its step; a lost or altered *)
(* file is a missing file; the pending row of a commit never outlives its  *)
(* transaction, so it is not a state; what is quarantined is gone; the     *)
(* time covered is shorter than the retention of purge traces.             *)
(***************************************************************************)
EXTENDS Naturals, FiniteSets

CONSTANTS
  Lots, Artefacts, Writers, Purgers,
  External,    \* the writers that run in another process than the application
  None,        \* the SQL NULL, and the content of a path without a file
  MaxCrashes,  \* bound: crashes of the application and failed operations
  MaxLapses,   \* bound: leases that lapse under a live worker
  MaxLosses    \* bound: files lost or altered outside the program

ASSUME StorageAssumption ==
  /\ None \notin Lots \cup Artefacts
  /\ External \subseteq Writers
  /\ MaxCrashes \in Nat /\ MaxLapses \in Nat /\ MaxLosses \in Nat

VARIABLES
  lots,     \* lots[l]: the status of the lot
  rows,     \* rows[a]: the row of artefact a
  files,    \* files[a]: the lot under whose directory the file of a is
  trace,    \* trace[l]: the status recorded in the purge trace
  writers,  \* image uploads and package jobs, which prepare a file first
  purgers,  \* purges between their two transactions
  up,       \* the application runs
  lost,     \* the artefacts whose file was lost outside the program
  crashes, lapses

vars == <<lots, rows, files, trace, writers, purgers, up, lost, crashes, lapses>>
database == <<lots, rows, trace>>
bounds == <<lost, crashes, lapses>>

-----------------------------------------------------------------------------
NoRow == [status |-> "none", lot |-> None, current |-> FALSE]
CommittedRow(l) == [status |-> "committed", lot |-> l, current |-> TRUE]
RestWriter == [pc |-> "idle", lot |-> None, art |-> None, lease |-> "none"]
RestPurger == [pc |-> "idle", lot |-> None]

Open(l) == lots[l] = "ouvert"
Deleted(l) == lots[l] \in {"supprime", "purge"}
Committed(l) == {a \in Artefacts : rows[a].status = "committed" /\ rows[a].lot = l}
FilesOf(l) == {a \in Artefacts : files[a] = l}
Missing == {a \in Artefacts : rows[a].status = "committed" /\ files[a] = None}

\* Artefact identifiers are random: a new one names nothing yet.
Free(a) ==
  /\ rows[a] = NoRow /\ files[a] = None /\ a \notin lost
  /\ \A w \in Writers : writers[w].art # a

\* count_processing_for_lot, once stale leases are expired.
Leased(l) == {w \in Writers : writers[w].lot = l /\ writers[w].lease = "held"}

Init ==
  /\ lots = [l \in Lots |-> "ouvert"]
  /\ rows = [a \in Artefacts |-> NoRow]
  /\ files = [a \in Artefacts |-> None]
  /\ trace = [l \in Lots |-> "none"]
  /\ writers = [w \in Writers |-> RestWriter]
  /\ purgers = [p \in Purgers |-> RestPurger]
  /\ up = TRUE
  /\ lost = {}
  /\ crashes = 0
  /\ lapses = 0

-----------------------------------------------------------------------------
(***************************************************************************)
(* Commits of artefacts.                                                   *)
(***************************************************************************)

\* The earlier artefacts of the step and of the steps after it are obsolete.
Replaced(a, l, old) ==
  [b \in Artefacts |->
    IF b = a THEN CommittedRow(l)
    ELSE IF b \in old THEN [rows[b] EXCEPT !.status = "obsolete"] ELSE rows[b]]

\* put_temp_then_commit: file and row in one transaction.
PutThenCommit(l, a) ==
  /\ up
  /\ ~Deleted(l)
  /\ Free(a)
  /\ \E old \in SUBSET Committed(l) : rows' = Replaced(a, l, old)
  /\ files' = [files EXCEPT ![a] = l]
  /\ UNCHANGED <<lots, trace, writers, purgers, up, bounds>>

\* The same transaction rolls back after the file took its final name.
PutThenRollback(l, a) ==
  /\ up
  /\ ~Deleted(l)
  /\ Free(a)
  /\ crashes < MaxCrashes
  /\ crashes' = crashes + 1
  /\ files' = [files EXCEPT ![a] = l]
  /\ UNCHANGED <<database, writers, purgers, up, lost, lapses>>

\* POST images checks the lot, then works outside any transaction; a package
\* job holds a lease meanwhile.
Begin(w, l, lease) ==
  /\ up \/ w \in External
  /\ writers[w].pc = "idle"
  /\ Open(l)
  /\ writers' = [writers EXCEPT ![w] =
       [pc |-> "working", lot |-> l, art |-> None, lease |-> lease]]
  /\ UNCHANGED <<database, files, purgers, up, bounds>>

\* prepare_file_for_commit: the file takes its final name before any row
\* names it, whatever became of the lot.
PrepareFile(w, a) ==
  /\ writers[w].pc = "working"
  /\ Free(a)
  /\ files' = [files EXCEPT ![a] = writers[w].lot]
  /\ writers' = [writers EXCEPT ![w].pc = "prepared", ![w].art = a]
  /\ UNCHANGED <<database, purgers, up, bounds>>

\* Mutant: the upload relies on the check it made before it wrote the file.
MayRegisterChecked(w) ==
  \/ writers[w].lease = "none"
  \/ writers[w].lease = "held" /\ ~Deleted(writers[w].lot)
MayRegister(w) ==
  \/ writers[w].lease = "none" /\ Open(writers[w].lot)
  \/ writers[w].lease = "held" /\ ~Deleted(writers[w].lot)

\* create_committed_from_prepared_file, which does not look at the file.
Register(w) ==
  LET l == writers[w].lot IN
  /\ writers[w].pc = "prepared"
  /\ MayRegister(w)
  /\ \E old \in SUBSET Committed(l) :
       rows' = Replaced(writers[w].art, l, old)
  /\ writers' = [writers EXCEPT ![w] = RestWriter]
  /\ UNCHANGED <<lots, files, trace, purgers, up, bounds>>

FileDropped(a) == [b \in Artefacts |-> IF b = a THEN None ELSE files[b]]

\* Any refusal or error: the prepared file is unlinked, the job ends.
Abandon(w) ==
  /\ writers[w].pc \in {"working", "prepared"}
  /\ files' = FileDropped(writers[w].art)
  /\ writers' = [writers EXCEPT ![w] = RestWriter]
  /\ UNCHANGED <<database, purgers, up, bounds>>

\* The job sees a cancellation request: finish_canceled closes the lot.
CancelLot(w) ==
  /\ writers[w].pc \in {"working", "prepared"}
  /\ writers[w].lease = "held"
  /\ ~Deleted(writers[w].lot)
  /\ lots' = [lots EXCEPT ![writers[w].lot] = "annule"]
  /\ files' = FileDropped(writers[w].art)
  /\ writers' = [writers EXCEPT ![w] = RestWriter]
  /\ UNCHANGED <<rows, trace, purgers, up, bounds>>

\* lease_until passes under a worker that works, or after one that died.
Lapse(w) ==
  /\ writers[w].lease = "held"
  /\ IF writers[w].pc = "dead" THEN UNCHANGED lapses
     ELSE lapses < MaxLapses /\ lapses' = lapses + 1
  /\ writers' = [writers EXCEPT ![w].lease = "lapsed"]
  /\ UNCHANGED <<database, files, purgers, up, lost, crashes>>

-----------------------------------------------------------------------------
(***************************************************************************)
(* Rows whose artefact is kept, replaced, read or lost.                    *)
(***************************************************************************)

\* retry_step: a new run for the step, whose own artefacts stay committed.
Retry(a) ==
  /\ rows[a].status = "committed"
  /\ rows[a].current
  /\ Open(rows[a].lot)
  /\ rows' = [rows EXCEPT ![a].current = FALSE]
  /\ UNCHANGED <<lots, files, trace, writers, purgers, up, bounds>>

\* problems.create refuses a closed lot and a run that is not current.
MayRecordProblem(a) == Open(rows[a].lot) /\ rows[a].current

\* open_for_read by a handler that goes on: what it marked is committed.
ReadMissing(a) ==
  /\ up
  /\ a \in Missing
  /\ MayRecordProblem(a)
  /\ rows' = [rows EXCEPT ![a].status = "obsolete"]
  /\ UNCHANGED <<lots, files, trace, writers, purgers, up, bounds>>

LoseFile(a) ==
  /\ Cardinality(lost) < MaxLosses
  /\ rows[a].status = "committed" /\ files[a] # None
  /\ files' = FileDropped(a)
  /\ lost' = lost \cup {a}
  /\ UNCHANGED <<database, writers, purgers, up, crashes, lapses>>

-----------------------------------------------------------------------------
(***************************************************************************)
(* Deletion and purge.                                                     *)
(***************************************************************************)

Traced(l) == [trace EXCEPT ![l] = "started"]

\* Mutant: a purge that was interrupted is not told from one that was done.
PurgeableOnce(l) == lots[l] = "supprime" /\ trace[l] = "none"
Purgeable(l) == lots[l] = "supprime"

\* The first half of purge_lot, up to its commit: the trace says "started".
Marks(p, l) ==
  /\ trace' = Traced(l)
  /\ purgers' = [purgers EXCEPT ![p] = [pc |-> "marked", lot |-> l]]

\* DELETE marks the lot, and purges it itself unless a job is processing.
Delete(p, l) ==
  /\ up
  /\ purgers[p].pc = "idle"
  /\ lots[l] # "purge"
  /\ lots' = [lots EXCEPT ![l] = "supprime"]
  /\ IF Leased(l) = {} THEN Marks(p, l) ELSE UNCHANGED <<trace, purgers>>
  /\ UNCHANGED <<rows, files, writers, up, bounds>>

\* purge_deleted_lots_once, after a worker cycle or on the timer.
StartPurge(p, l) ==
  /\ up
  /\ purgers[p].pc = "idle"
  /\ Purgeable(l)
  /\ Leased(l) = {}
  /\ Marks(p, l)
  /\ UNCHANGED <<lots, rows, files, writers, up, bounds>>

\* shutil.rmtree, file by file, outside any transaction.
RemoveFile(p, a) ==
  /\ purgers[p].pc = "marked"
  /\ a \in FilesOf(purgers[p].lot)
  /\ files' = FileDropped(a)
  /\ UNCHANGED <<database, writers, purgers, up, bounds>>

Removed(p) ==
  /\ purgers[p].pc = "marked"
  /\ FilesOf(purgers[p].lot) = {}
  /\ purgers' = [purgers EXCEPT ![p].pc = "removed"]
  /\ UNCHANGED <<database, files, writers, up, bounds>>

RowsDeleted(l) ==
  [a \in Artefacts |-> IF rows[a].lot = l THEN NoRow ELSE rows[a]]

\* The second half of purge_lot, which looks at nothing again.
FinishPurge(p) ==
  LET l == purgers[p].lot IN
  /\ purgers[p].pc = "removed"
  /\ rows' = RowsDeleted(l)
  /\ trace' = [trace EXCEPT ![l] = "completed"]
  /\ lots' = [lots EXCEPT ![l] = "purge"]
  /\ purgers' = [purgers EXCEPT ![p] = RestPurger]
  /\ UNCHANGED <<files, writers, up, bounds>>

\* rmtree or the second transaction raises: the loop goes on without it.
PurgeFails(p) ==
  /\ purgers[p].pc # "idle"
  /\ crashes < MaxCrashes
  /\ crashes' = crashes + 1
  /\ purgers' = [purgers EXCEPT ![p] = RestPurger]
  /\ UNCHANGED <<database, files, writers, up, lost, lapses>>

-----------------------------------------------------------------------------
(***************************************************************************)
(* Crash and startup.                                                      *)
(***************************************************************************)

\* The requests, jobs and purges of the application stop where they are.
Crash ==
  /\ up
  /\ crashes < MaxCrashes
  /\ crashes' = crashes + 1
  /\ up' = FALSE
  /\ writers' = [w \in Writers |->
       IF w \in External \/ writers[w].pc = "idle" THEN writers[w]
       ELSE [writers[w] EXCEPT !.pc = "dead"]]
  /\ purgers' = [p \in Purgers |-> RestPurger]
  /\ UNCHANGED <<database, files, lost, lapses>>

\* Mutant: only the paths of obsolete rows are known.
OrphansUnlessObsolete ==
  {a \in Artefacts : files[a] # None /\ rows[a].status # "obsolete"}
Orphans == {a \in Artefacts : files[a] # None /\ rows[a].status = "none"}

\* reconcile_artifacts_at_startup: one transaction, rolled back as a whole when
\* a missing file cannot be recorded as a problem.  (The purge of expired lots
\* that ends it is StartPurge.)
Startup ==
  /\ ~up
  /\ up' = TRUE
  /\ IF \A a \in Missing : MayRecordProblem(a)
     THEN /\ rows' = [a \in Artefacts |->
               IF a \in Missing THEN [rows[a] EXCEPT !.status = "obsolete"]
               ELSE rows[a]]
          /\ files' = [a \in Artefacts |->
               IF a \in Orphans THEN None ELSE files[a]]
     ELSE UNCHANGED <<rows, files>>
  /\ UNCHANGED <<lots, trace, writers, purgers, bounds>>

Next ==
  \/ \E l \in Lots, a \in Artefacts : PutThenCommit(l, a) \/ PutThenRollback(l, a)
  \/ \E w \in Writers, l \in Lots : Begin(w, l, "none") \/ Begin(w, l, "held")
  \/ \E w \in Writers, a \in Artefacts : PrepareFile(w, a)
  \/ \E w \in Writers : Register(w) \/ Abandon(w) \/ CancelLot(w) \/ Lapse(w)
  \/ \E a \in Artefacts : Retry(a) \/ ReadMissing(a) \/ LoseFile(a)
  \/ \E p \in Purgers, l \in Lots : Delete(p, l) \/ StartPurge(p, l)
  \/ \E p \in Purgers :
       \/ \E a \in Artefacts : RemoveFile(p, a)
       \/ Removed(p) \/ FinishPurge(p) \/ PurgeFails(p)
  \/ Crash
  \/ Startup

Spec == Init /\ [][Next]_vars

\* The purge and worker loops run for ever, an application that stopped is
\* started again, requests and jobs end, the clock runs.
Fairness ==
  /\ \A l \in Lots : WF_vars(\E p \in Purgers : StartPurge(p, l))
  /\ \A p \in Purgers :
       /\ WF_vars(\E a \in Artefacts : RemoveFile(p, a))
       /\ WF_vars(Removed(p) \/ FinishPurge(p))
  /\ \A w \in Writers :
       /\ WF_vars(Register(w) \/ Abandon(w) \/ CancelLot(w))
       /\ WF_vars(writers[w].pc = "dead" /\ Lapse(w))
  /\ WF_vars(Startup)

FairSpec == Spec /\ Fairness

-----------------------------------------------------------------------------
\* A committed artefact of a lot that still exposes downloads has its file,
\* whatever crashes, unless the file was lost outside the program.
ExposedArtefactHasItsFile ==
  \A a \in Artefacts :
    (/\ rows[a].status = "committed"
     /\ lots[rows[a].lot] \in {"ouvert", "annule"}) => files[a] = rows[a].lot \/ a \in lost

\* A purged lot has no row, and no file but that of an unfinished request or
\* job, which no row will ever name.
PurgedLotKeepsNothing ==
  \A l \in Lots : lots[l] = "purge" =>
    /\ \A a \in Artefacts : rows[a].lot # l
    /\ \A a \in FilesOf(l) : \E w \in Writers : writers[w].art = a

\* The life of a lot as its rows tell it.
LotState(status) ==
  CASE status = "ouvert" -> "open" [] status = "annule" -> "canceled"
    [] status = "supprime" -> "deleted" [] status = "purge" -> "purged"
LotStates == [l \in Lots |-> LotState(lots[l])]
LeasedLots == [l \in Lots |-> Leased(l) # {}]
ExposedLots == [l \in Lots |-> Committed(l) # {}]

Life == INSTANCE LotLife WITH
  status <- LotStates, held <- LeasedLots, exposed <- ExposedLots

\* The storage keeps to the life of a lot: although a purge looks at nothing
\* again between its two transactions, no lease and no commit slips in between
\* (purge_lot, create_committed_from_prepared_file, put_temp_then_commit).
KeepsTheLifeOfLots == Life!LifeSpec

\* A deleted lot is purged in the end: an interrupted purge is resumed.
PurgeResumes ==
  \A l \in Lots : lots[l] = "supprime" ~> lots[l] = "purge"
=============================================================================
