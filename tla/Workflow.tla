------------------------------- MODULE Workflow -------------------------------
(***************************************************************************)
(* The business workflow of one open lot: which artefact each step made,   *)
(* from which artefacts of its sources, which steps hold an open blocking  *)
(* problem, and the status of the lot.  Uploads and decisions of the user  *)
(* are one transaction each; a worker job is four (start, read, commit,    *)
(* finish) and the user may act between any two of them.                   *)
(*                                                                         *)
(* JobQueue has the leases and the cancellation of lots; here a step has   *)
(* one job at most, a job whose lease lapses is queued again, and a job    *)
(* whose step got another run is refused.  Artefacts carry numbers that    *)
(* are reused once nothing refers to them, so the model is finite.         *)
(***************************************************************************)
EXTENDS Pipeline

CONSTANTS
  MaxIncidents   \* bound: retries, handlers that raise, late builds that fail,
                 \* leases that lapse

ASSUME BoundAssumption == MaxIncidents \in Nat

VARIABLES
  etapes,    \* etapes[s]: the step, its artefact, its job and its problem
  lot,       \* the status of the lot
  tardif,    \* a package build whose job was taken away, and its late problem
  incidents  \* counted by the bound

vars == <<etapes, lot, tardif, incidents>>

-----------------------------------------------------------------------------
\* Numbers of the artefacts of a step, more than the rows can refer to; 0: none.
Versions == 0..(2 * Cardinality(Steps) + 2)
Retryable == {"echoue", "bloque", "invalide"}

\* probleme: an open blocking problem.  job: "lu" has read its sources (lu),
\* "ecrit" has committed, "bloque" will end blocked, "orphelin" is queued for
\* a run its step no longer has.
Row ==
  [status : {"non_demarre", "pret", "en_cours", "action_requise", "termine",
             "bloque", "echoue", "invalide"},
   artefact : Versions, sources : [Steps -> Versions],
   job : {"aucun", "queued", "running", "lu", "ecrit", "bloque", "orphelin"},
   lu : [Steps -> Versions], probleme : BOOLEAN]

NoSources == [r \in Steps |-> 0]
NewRow == [status |-> "non_demarre", artefact |-> 0, sources |-> NoSources,
           job |-> "aucun", lu |-> NoSources, probleme |-> FALSE]
InvalidRow == [NewRow EXCEPT !.status = "invalide"]

\* The steps whose artefacts the handler or the decision of s reads.
ImageSteps == {"upload_images", "inspection_images", "matching_images"}
ExcelSteps == {"upload_excel", "diagnostic_excel", "mapping", "fusion",
               "normalisation", "tri", "verification_csv"}
Read ==
  [s \in Steps |->
    CASE s = "diagnostic_excel" -> {"upload_excel"}
      [] s = "mapping" -> {"diagnostic_excel"}
      [] s = "fusion" -> {"mapping", "upload_excel"}
      [] s = "normalisation" -> {"fusion"}
      [] s \in {"tri", "verification_csv"} -> {"normalisation"}
      [] s = "previsualisation_csv" -> {"tri", "verification_csv"}
      [] s = "inspection_images" -> {"upload_images"}
      [] s = "matching_images" ->
           {"normalisation", "inspection_images", "upload_images"}
      [] s = "rapports" ->
           ExcelSteps \cup ImageSteps \cup {"previsualisation_csv"}
      [] s = "package_final" ->
           {"previsualisation_csv", "mapping", "upload_images",
            "matching_images", "rapports"}
      [] OTHER -> {}]

Usable(E, s) == Finished(E, s) /\ E[s].artefact # 0

\* What s reads in the state E: rapports and package_final leave the images
\* out as long as none were uploaded.
Needed(E, s) ==
  IF s \in {"rapports", "package_final"} /\ ~Usable(E, "upload_images")
  THEN Read[s] \ ImageSteps ELSE Read[s]
CanRead(E, s) == \A r \in Needed(E, s) : Usable(E, r)

\* The preview takes the matching along when there is one, blocked or not.
MatchingSeen(E) ==
  IF E["matching_images"].status \in {"termine", "bloque"}
  THEN E["matching_images"].artefact ELSE 0
Snapshot(E, s) ==
  [r \in Steps |->
    IF r \in Needed(E, s) THEN E[r].artefact
    ELSE IF s = "previsualisation_csv" /\ r = "matching_images" THEN MatchingSeen(E)
    ELSE 0]

Problems(E) == {s \in Steps : E[s].probleme}

\* recompute_lot_status
LotStatus(E) ==
  LET S == {E[s].status : s \in Steps}
  IN IF "echoue" \in S THEN "echoue"
     ELSE IF "bloque" \in S \/ Problems(E) # {} THEN "bloque"
     ELSE IF "action_requise" \in S THEN "action_requise"
     ELSE IF S = {"termine"} THEN "termine"
     ELSE IF S # {"non_demarre"} THEN "en_cours"
     ELSE "brouillon"

-----------------------------------------------------------------------------
\* The updates of the tables, as functions of the table E.

\* A number no row refers to.
Fresh(E, s) ==
  CHOOSE v \in Versions \ {0} :
    E[s].artefact # v /\ \A r \in Steps : v \notin {E[r].sources[s], E[r].lu[s]}

\* invalidate_downstream: the jobs of the steps below s are canceled, their
\* artefacts and problems obsolete.
Invalidated(E, s) ==
  [r \in Steps |-> IF r \in Downstream[s] THEN InvalidRow ELSE E[r]]

\* prepare_run: the artefacts of the former run are no longer found.
Prepared(E, s) ==
  [E EXCEPT ![s].status = "pret", ![s].artefact = 0, ![s].sources = NoSources]

Enqueued(E, s) ==
  IF E[s].job # "aucun" THEN E ELSE [Prepared(E, s) EXCEPT ![s].job = "queued"]

AllEnqueued(E, S) == [s \in Steps |-> IF s \in S THEN Enqueued(E, s)[s] ELSE E[s]]

\* prepare_run and require_human_validation.  A queued job of the step loses
\* its run; a running one is refused from now on and its lease lapses.
HandedOver(E, S) ==
  [s \in Steps |->
    IF s \notin S THEN E[s]
    ELSE [Prepared(E, s)[s] EXCEPT
            !.status = "action_requise", !.lu = NoSources,
            !.job = IF E[s].job \in {"queued", "orphelin"} THEN "orphelin"
                    ELSE "aucun"]]

\* The artefact of a decision or an upload, made from what it reads now.
Decided(E, s) ==
  [E EXCEPT ![s] = [NewRow EXCEPT !.status = "termine", !.artefact = Fresh(E, s),
                                  !.sources = Snapshot(E, s)]]

\* Mutant: a lot never leaves the status bloque by itself.
RecomputeUnlessBlocked(E) ==
  lot' = IF lot = "bloque" THEN lot ELSE LotStatus(E)
Recompute(E) == lot' = LotStatus(E)

\* A package job invalidated while its worker builds the archive; once the bound
\* is used up the build cannot fail any more and is left out.
TardifIn(E) ==
  LET P == "package_final"
  IN IF tardif = "note" /\ E[P].probleme THEN "note"
     ELSE IF /\ incidents < MaxIncidents
             /\ \/ tardif = "assemble"
                \/ etapes[P].job = "lu" /\ E[P].status \in {"invalide", "action_requise"}
     THEN "assemble"
     ELSE "non"

Write(E) ==
  /\ etapes' = E
  /\ Recompute(E)
  /\ tardif' = TardifIn(E)

\* A transaction that leaves the status of the lot as it is.
WriteQuietly(E) ==
  /\ etapes' = E
  /\ tardif' = TardifIn(E)
  /\ UNCHANGED lot

-----------------------------------------------------------------------------
Init ==
  /\ etapes = [s \in Steps |-> NewRow]
  /\ lot = "brouillon"
  /\ tardif = "non"
  /\ incidents = 0

-----------------------------------------------------------------------------
(* The user. *)

Unbounded == UNCHANGED incidents
Incident == incidents < MaxIncidents /\ incidents' = incidents + 1

UploadExcel ==
  /\ Write(Enqueued(Invalidated(Decided(etapes, "upload_excel"), "upload_excel"),
                    "diagnostic_excel"))
  /\ Unbounded

UploadImages ==
  /\ Write(Enqueued(Invalidated(Decided(etapes, "upload_images"), "upload_images"),
                    "inspection_images"))
  /\ Unbounded

\* A draft takes the place of the validated mapping and invalidates nothing.
SaveMappingDraft ==
  /\ CanRead(etapes, "mapping")
  /\ Write([etapes EXCEPT !["mapping"] = [NewRow EXCEPT !.status = "action_requise"]])
  /\ Unbounded

ValidateMapping ==
  /\ CanRead(etapes, "mapping")
  /\ Write(Enqueued(Invalidated(Decided(etapes, "mapping"), "mapping"), "fusion"))
  /\ Unbounded

\* A refused validation is kept as a problem of the step, whose run stays.
RefuseMapping ==
  /\ CanRead(etapes, "mapping")
  /\ Write([etapes EXCEPT !["mapping"].status = "bloque",
                          !["mapping"].probleme = TRUE])
  /\ Unbounded

\* Mutant: the preview is handed to the user whatever the verification says.
ValidateSortAlone ==
  /\ CanRead(etapes, "tri")
  /\ LET E == Invalidated(Decided(etapes, "tri"), "tri")
     IN Write(HandedOver(E, {"previsualisation_csv"}))
  /\ Unbounded
ValidateSort ==
  /\ CanRead(etapes, "tri")
  /\ LET E == Invalidated(Decided(etapes, "tri"), "tri")
     IN Write(IF Finished(E, "verification_csv")
              THEN HandedOver(E, {"previsualisation_csv"}) ELSE E)
  /\ Unbounded

\* _require_export_testable, and the problems that forbid the validation.
PreviewAllowed(E) ==
  /\ \A s \in ExcelSteps \ {"upload_excel"} : Finished(E, s)
  /\ CanRead(E, "previsualisation_csv")
  /\ Problems(E) \subseteq
       Downstream["previsualisation_csv"] \cup {"previsualisation_csv"}

ValidatePreview ==
  /\ PreviewAllowed(etapes)
  /\ LET E == Invalidated(Decided(etapes, "previsualisation_csv"),
                          "previsualisation_csv")
         ready == ReadyAutoSteps(E, "previsualisation_csv")
     IN /\ etapes' = AllEnqueued(E, ready)
        /\ Recompute(AllEnqueued(E, ready))
        /\ tardif' = TardifIn(E)
  /\ Unbounded

\* Mutant: the resolutions of the user leave what follows as it is.
ResolveImagesInPlace ==
  /\ CanRead(etapes, "matching_images")
  /\ Write(Enqueued([etapes EXCEPT !["matching_images"] = NewRow], "matching_images"))
  /\ Unbounded
ResolveImages ==
  /\ CanRead(etapes, "matching_images")
  /\ LET E == [etapes EXCEPT !["matching_images"] = NewRow]
     IN Write(Enqueued(Invalidated(E, "matching_images"), "matching_images"))
  /\ Unbounded

RequestPackage ==
  /\ Problems(etapes) = {}
  /\ CanRead(etapes, "package_final")
  /\ Write(Enqueued(etapes, "package_final"))
  /\ Unbounded

Retry(s) ==
  /\ Incident
  /\ etapes[s].status \in Retryable
  /\ LET E == [etapes EXCEPT ![s].job = "aucun", ![s].lu = NoSources,
                             ![s].probleme = FALSE]
     IN Write(Enqueued(Invalidated(E, s), s))

-----------------------------------------------------------------------------
(* The worker. *)

Start(s) ==
  /\ etapes[s].job = "queued"
  /\ Write([etapes EXCEPT ![s].job = "running", ![s].status = "en_cours"])
  /\ Unbounded

\* The first transaction of the handler.  A missing source, or for the package
\* an open blocking problem, ends the job blocked; the lot is not recomputed.
MayGoOn(s) ==
  /\ CanRead(etapes, s)
  /\ s = "package_final" => Problems(etapes) = {}

ReadSources(s) ==
  /\ etapes[s].job = "running"
  /\ WriteQuietly(
       IF MayGoOn(s)
       THEN [etapes EXCEPT ![s].job = "lu", ![s].lu = Snapshot(etapes, s)]
       ELSE [etapes EXCEPT ![s].job = "bloque", ![s].probleme = TRUE])
  /\ Unbounded

\* The last transaction of the handler: the artefact replaces that of an
\* earlier attempt; a verdict may be that the step is blocked.
Committed(s) ==
  [etapes EXCEPT ![s].artefact = Fresh(etapes, s), ![s].sources = etapes[s].lu,
                 ![s].lu = NoSources, ![s].probleme = FALSE, ![s].job = "ecrit"]

Commit(s) ==
  /\ etapes[s].job = "lu"
  /\ \/ WriteQuietly(Committed(s))
     \/ /\ s \in {"diagnostic_excel", "verification_csv", "inspection_images",
                  "matching_images"}
        /\ WriteQuietly([Committed(s) EXCEPT ![s].job = "bloque", ![s].probleme = TRUE])
     \/ /\ s \in {"fusion", "package_final"}
        /\ WriteQuietly([etapes EXCEPT ![s].lu = NoSources, ![s].job = "bloque",
                                       ![s].probleme = TRUE])
  /\ Unbounded

\* A build that goes wrong after its job was taken away still opens a problem:
\* _record_build_problem is the one write of a handler that does not ask for
\* the lease.  A build that goes well is refused.
EndLateBuild ==
  /\ tardif = "assemble"
  /\ \/ /\ etapes' = [etapes EXCEPT !["package_final"].probleme = TRUE]
        /\ tardif' = "note"
        /\ Incident
     \/ /\ tardif' = "non"
        /\ UNCHANGED etapes
        /\ Unbounded
  /\ UNCHANGED lot

Enqueues(s) ==
  CASE s = "fusion" -> {"normalisation"}
    [] s = "normalisation" -> {"verification_csv"}
    [] OTHER -> {}
Validates(s) ==
  CASE s = "normalisation" -> {"tri"}
    [] s = "rapports" -> {"package_final"}
    [] OTHER -> {}

\* Mutant: the end of the inspection queues nothing.
AutoAfterUnlessInspection(E, s) ==
  IF s = "inspection_images" THEN {} ELSE ReadyAutoSteps(E, s)
AutoAfter(E, s) == ReadyAutoSteps(E, s)

Finish(s) ==
  /\ etapes[s].job = "ecrit"
  /\ LET E == [etapes EXCEPT ![s].job = "aucun", ![s].status = "termine"]
         F == AllEnqueued(E, Enqueues(s) \cup AutoAfter(E, s))
     IN Write(HandedOver(F, Validates(s)))
  /\ Unbounded

FinishBlocked(s) ==
  /\ etapes[s].job = "bloque"
  /\ Write([etapes EXCEPT ![s].job = "aucun", ![s].status = "bloque"])
  /\ Unbounded

Working == {"running", "lu", "ecrit", "bloque"}

Fail(s) ==
  /\ Incident
  /\ etapes[s].job \in Working
  /\ Write([etapes EXCEPT ![s].job = "aucun", ![s].lu = NoSources,
                          ![s].status = "echoue", ![s].probleme = TRUE])

\* The worker dies, its lease lapses and the job is taken again.
Crash(s) ==
  /\ Incident
  /\ etapes[s].job \in Working
  /\ WriteQuietly([etapes EXCEPT ![s].job = "queued", ![s].lu = NoSources])

-----------------------------------------------------------------------------
User ==
  \/ UploadExcel \/ UploadImages
  \/ SaveMappingDraft \/ ValidateMapping \/ RefuseMapping
  \/ ValidateSort \/ ValidatePreview \/ ResolveImages \/ RequestPackage
  \/ \E s \in WorkerSteps : Retry(s)

Job(s) ==
  Start(s) \/ ReadSources(s) \/ Commit(s) \/ Finish(s) \/ FinishBlocked(s)
    \/ Fail(s) \/ Crash(s)

Next == User \/ EndLateBuild \/ \E s \in WorkerSteps : Job(s)

Spec == Init /\ [][Next]_vars
-----------------------------------------------------------------------------
\* A finished step was made from the artefacts its sources have now: every
\* change is followed down the graph in the transaction that makes it
\* (invalidate_downstream), and a job that read before the change is refused.
\* Two gaps of the code are left out: a mapping that is a draft again, and the
\* matching the preview takes along when there is one.
FinishedStepUsedWhatIsCurrent ==
  \A s \in Steps : Finished(etapes, s) =>
    \A r \in Steps :
      \/ etapes[s].sources[r] = Snapshot(etapes, s)[r]
      \/ r = "mapping" /\ ~Finished(etapes, "mapping")
      \/ s = "previsualisation_csv" /\ r = "matching_images"

\* The table without the problem a late build left on the package.
WithoutLateProblem ==
  [etapes EXCEPT !["package_final"].probleme = @ /\ tardif # "note"]

\* As soon as no job is being worked on, the status of the lot is that of its
\* steps and problems: no transaction that moves them forgets to recompute it,
\* the late build apart.
LotTellsItsSteps ==
  (\A s \in Steps : etapes[s].status # "en_cours") =>
    lot \in {LotStatus(etapes), LotStatus(WithoutLateProblem)}

\* No lost wake-up: whichever of the parents of an automatic step finishes
\* last, by a job or by a decision, the step is queued or past its queue.
ReadyStepsAreQueued ==
  LET Woken == {"pret", "en_cours", "termine", "bloque", "echoue"}
  IN /\ Finished(etapes, "normalisation") /\ Finished(etapes, "inspection_images")
       => etapes["matching_images"].status \in Woken
     /\ Finished(etapes, "previsualisation_csv")
          /\ (Finished(etapes, "upload_images") => Finished(etapes, "matching_images"))
       => etapes["rapports"].status \in Woken

\* The steps the lot is about: without images a retried matching counts for
\* nothing, it may run, and block, beside a package.
Involved == IF Finished(etapes, "upload_images") THEN Steps ELSE Steps \ ImageSteps

\* A step offered to the user can be done: its sources are there.
WaitingStepsAreReady ==
  \A s \in Steps : etapes[s].status = "action_requise" =>
    \A r \in Needed(etapes, s) \ {"mapping"} : Usable(etapes, r)

\* A finished package coexists with no blocker of a step it was made from,
\* the refusal of a later mapping apart.
PackageHasNoBlocker ==
  Finished(etapes, "package_final") =>
    Problems(WithoutLateProblem) \cap Involved \subseteq {"mapping"}

-----------------------------------------------------------------------------
(* What the documents say and the code does not do. *)

=============================================================================
