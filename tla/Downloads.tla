----------------------------- MODULE Downloads -----------------------------
(***************************************************************************)
(* The kit that fetches the attachments of the dossiers (re-run-old-       *)
(* script-2026/demarches-simplifiee).  orchestrator.py generates a script; *)
(* run in Chrome, it saves a CSV of the attachments of the wanted dossiers *)
(* (extract_*.js); download_attachments_from_csv.py fetches the rows with  *)
(* a pool of threads, keeps what is already there and writes a report.     *)
(*                                                                         *)
(* A path is [kind, dossier, index, name, occurrence]: the directory and   *)
(* the parts of the file's name.  A row whose name ends in " (2)" as       *)
(* another one's number does is left out.  Order of mtimes is order of     *)
(* saving.  Nobody removes a downloaded file.  A row is known by its       *)
(* position in its CSV, and a report gives a line to each position it      *)
(* tells of: the order of its lines is left out.                           *)
(***************************************************************************)
EXTENDS Integers, FiniteSets, Sequences, SequencesExt, Functions

CONSTANTS
    Refused,      \* the page of a dossier the site does not show
    None,         \* no URL, no file, nothing yet
    Dossiers,     \* numbers of dossiers, a set of naturals
    Sites,        \* what Chrome may find: [Dossiers -> Seq(attachment) or Refused]
    HandMade,     \* CSVs a user may give to the command "download"
    Leftovers,    \* what a directory may hold at first: [paths -> content]
    Bodies,       \* what a response may hold: "whole", "short", "page", ...
    Workers,      \* --workers
    Retries,      \* --retries
    ReportEvery,  \* the report is written every ReportEvery lines (25)
    MaxSaved,     \* bound: CSVs saved by Chrome
    MaxLaunches,  \* bound: runs of the downloader
    MaxCrashes    \* bound: runs killed

ASSUME DownloadsAssumption ==
    /\ Workers >= 1 /\ Retries >= 0 /\ ReportEvery >= 1 /\ 0 \notin Dossiers
    /\ None \notin {0, 1}

VARIABLES
    wanted,   \* per kind, the dossiers in the last generated script
    saved,    \* per kind, the CSVs in ~/Downloads, by age
    prepared, \* per kind, how many there were when the script was generated
    disk,     \* path -> content of the downloaded files
    parts,    \* path -> content of the ".part" files
    run,      \* the run: its kind and plan, or None
    tasks,    \* the tasks of the pool, by position
    results,  \* position -> line, those the main thread has collected
    main,     \* "idle", "collecting", "writing" or "ending"
    report,   \* per kind, position -> line of the report on disk, or None
    exit,     \* the exit code of the last run, or None while it runs or when it was killed
    launches, crashes

chrome == <<wanted, saved, prepared>>
files == <<disk, parts>>
vars == <<chrome, files, run, tasks, results, main, report, exit, launches, crashes>>

ChromeKinds == {"photos", "complete"}
Kinds == ChromeKinds \cup {"csv"}

-----------------------------------------------------------------------------
(* Extraction in Chrome.                                                    *)

ErrorRow(d) == [dossier |-> d, index |-> 0, name |-> "", image |-> FALSE, att |-> None]

\* extractDossier: one row per attachment, or one that says why there is none
RowsOf(kind, d, shown) ==
    LET kept == IF shown = Refused THEN <<>>
                ELSE IF kind = "photos" THEN SelectSeq(shown, LAMBDA a : a.image) ELSE shown
    IN IF kept = <<>> THEN <<ErrorRow(d)>>
       ELSE [i \in DOMAIN kept |->
               [dossier |-> d, index |-> i, name |-> kept[i].name,
                image |-> kept[i].image, att |-> kept[i].att]]

Listing(kind, ids, site) ==
    LET order == SetToSortSeq(ids, <)
    IN FlattenSeq([i \in DOMAIN order |-> RowsOf(kind, order[i], site[order[i]])])

\* the last CSV saved since the script was generated
LatestCsv(kind) ==
    IF Len(saved[kind]) > prepared[kind] THEN Last(saved[kind]) ELSE None

\* bound: a run has read its CSV, so the user prepares and extracts before or
\* after it
Generate(kind, ids) ==
    /\ main = "idle" /\ ids # {}
    /\ wanted' = [wanted EXCEPT ![kind] = ids]
    /\ prepared' = [prepared EXCEPT ![kind] = Len(saved[kind])]
    /\ UNCHANGED <<saved, files, run, tasks, results, main, report, exit, launches, crashes>>

Prepare(kind) == Generate(kind, Dossiers)

\* the dossiers of the anomalies that Chrome saves with the photos
PrepareErrors ==
    /\ LatestCsv("photos") # None
    /\ Generate("complete", {row.dossier : row \in {r \in Range(LatestCsv("photos")) : r.att = None}})

Export(kind, site) ==
    /\ main = "idle" /\ wanted[kind] # {}
    /\ Len(saved["photos"]) + Len(saved["complete"]) < MaxSaved
    /\ saved' = [saved EXCEPT ![kind] = Append(@, Listing(kind, wanted[kind], site))]
    /\ UNCHANGED <<wanted, prepared, files, run, tasks, results, main, report, exit, launches, crashes>>

-----------------------------------------------------------------------------
(* The plan of a run.                                                       *)

\* the image rows, numbered again within their dossier
ImageRows(rows) ==
    LET images == SelectSeq(rows, LAMBDA r : r.att # None /\ r.image)
    IN [i \in DOMAIN images |->
          [images[i] EXCEPT !.index =
             Cardinality({j \in 1..i : images[j].dossier = images[i].dossier})]]

Positions(rows) == 1..Len(rows)

Fetchable(rows) == {i \in Positions(rows) : rows[i].att # None}

\* target_path, and the "name (2)" of numbered_path
Target(kind, row, occurrence) ==
    [kind |-> kind, dossier |-> row.dossier, index |-> row.index,
     name |-> row.name, occurrence |-> occurrence]

\* mutant: rows of one base name share one target
PlanUnnumbered(kind, rows) ==
    [i \in Fetchable(rows) |-> [row |-> rows[i], path |-> Target(kind, rows[i], 1)]]

\* plan_downloads: the rows of one base name are counted
Plan(kind, rows) ==
    LET SameBase(i) == {j \in Fetchable(rows) :
                          j <= i /\ Target(kind, rows[j], 1) = Target(kind, rows[i], 1)}
    IN [i \in Fetchable(rows) |->
          [row |-> rows[i], path |-> Target(kind, rows[i], Cardinality(SameBase(i)))]]

ResultLine(row, path, status) == [row |-> row, path |-> path, status |-> status]

\* rows without a URL are errors before anything is fetched
NoUrlLines(rows) ==
    [i \in Positions(rows) \ Fetchable(rows) |-> ResultLine(rows[i], None, "error")]

\* mutant: only the fetched rows decide the exit code
ExitCodeOfFetches(lines) ==
    IF \E l \in Range(lines) : l.status = "error" /\ l.path # None THEN 1 ELSE 0

ExitCode(lines) == IF \E l \in Range(lines) : l.status = "error" THEN 1 ELSE 0

-----------------------------------------------------------------------------
(* A run.                                                                   *)

\* run_download on a CSV without a URL only writes its report
RunOn(kind, rows) ==
    /\ main = "idle" /\ launches < MaxLaunches
    /\ launches' = launches + 1
    /\ IF Fetchable(rows) = {}
       THEN /\ report' = [report EXCEPT ![kind] = NoUrlLines(rows)]
            /\ exit' = 1
            /\ run' = [kind |-> kind, rows |-> rows, plan |-> <<>>]
            /\ UNCHANGED <<tasks, results, main>>
       ELSE /\ run' = [kind |-> kind, rows |-> rows, plan |-> Plan(kind, rows)]
            /\ tasks' = [i \in Fetchable(rows) |-> [pc |-> "waiting", attempt |-> 1]]
            /\ results' = NoUrlLines(rows)
            /\ main' = "collecting"
            /\ exit' = None
            /\ UNCHANGED report
    /\ UNCHANGED <<chrome, files, crashes>>

DownloadPhotos ==
    /\ LatestCsv("photos") # None /\ ImageRows(LatestCsv("photos")) # <<>>
    /\ RunOn("photos", ImageRows(LatestCsv("photos")))

DownloadComplete == LatestCsv("complete") # None /\ RunOn("complete", LatestCsv("complete"))

DownloadCsv(rows) == RunOn("csv", rows)

-----------------------------------------------------------------------------
(* download_one, in a thread of the pool.                                   *)

Usable(content) == content.body \in {"whole", "short"}

Become(i, pc) == tasks' = [tasks EXCEPT ![i].pc = pc]

InThread == UNCHANGED <<chrome, run, results, main, report, exit, launches, crashes>>

With(f, p, content) == [q \in DOMAIN f \cup {p} |-> IF q = p THEN content ELSE f[q]]

Without(f, p) == Restrict(f, DOMAIN f \ {p})

\* mutant: a file that is there is kept, whatever it holds
AlreadyThereAnyhow(p) == p \in DOMAIN disk

AlreadyThere(p) == p \in DOMAIN disk /\ Usable(disk[p])

\* the pool takes the tasks in order
Start(i) ==
    /\ tasks[i].pc = "waiting" /\ \A j \in DOMAIN tasks : tasks[j].pc = "waiting" => i <= j
    /\ Cardinality({j \in DOMAIN tasks : tasks[j].pc \in {"request", "read", "check", "replace"}}) < Workers
    /\ Become(i, IF AlreadyThere(run.plan[i].path) THEN "skipped_existing" ELSE "request")
    /\ UNCHANGED files /\ InThread

\* mutant: the pause before a retry does not count the attempt
RetriedForever(task) == [pc |-> "request", attempt |-> task.attempt]

AfterFailure(task) ==
    IF task.attempt <= Retries THEN [pc |-> "request", attempt |-> task.attempt + 1]
    ELSE [task EXCEPT !.pc = "error"]

\* any exception: the partial file goes, and the row is asked again or given up
Fail(i) ==
    /\ parts' = Without(parts, run.plan[i].path)
    /\ tasks' = [tasks EXCEPT ![i] = AfterFailure(@)]
    /\ UNCHANGED disk /\ InThread

\* no answer in time, an error status or an error page by its type
RequestFails(i) == tasks[i].pc = "request" /\ Fail(i)

Answered(i) ==
    /\ tasks[i].pc = "request"
    /\ parts' = With(parts, run.plan[i].path, [att |-> None, body |-> "empty"])
    /\ Become(i, "read")
    /\ UNCHANGED disk /\ InThread

Received(i, body) ==
    /\ tasks[i].pc = "read"
    /\ parts' = With(parts, run.plan[i].path, [att |-> run.plan[i].row.att, body |-> body])
    /\ Become(i, "check")
    /\ UNCHANGED disk /\ InThread

ReadFails(i) == tasks[i].pc = "read" /\ Fail(i)

Check(i) ==
    /\ tasks[i].pc = "check" /\ run.plan[i].path \in DOMAIN parts
    /\ Usable(parts[run.plan[i].path])
    /\ Become(i, "replace")
    /\ UNCHANGED files /\ InThread

\* the partial file is missing, empty, a page or of another type
CheckFails(i) ==
    /\ tasks[i].pc = "check"
    /\ ~(run.plan[i].path \in DOMAIN parts /\ Usable(parts[run.plan[i].path]))
    /\ Fail(i)

Replace(i) ==
    LET p == run.plan[i].path IN
    /\ tasks[i].pc = "replace" /\ p \in DOMAIN parts
    /\ disk' = With(disk, p, parts[p])
    /\ parts' = Without(parts, p)
    /\ Become(i, "downloaded")
    /\ InThread

Thread(i) ==
    \/ Start(i) \/ RequestFails(i) \/ Answered(i) \/ ReadFails(i)
    \/ \E body \in Bodies : Received(i, body)
    \/ Check(i) \/ CheckFails(i) \/ Replace(i)

-----------------------------------------------------------------------------
(* The main thread.                                                         *)

Ended == {"skipped_existing", "downloaded", "error"}

InMain == UNCHANGED <<chrome, files, run, launches, crashes>>

Done == {i \in DOMAIN tasks : tasks[i].pc = "collected"}

\* as_completed gives the ended tasks in any order
Collect(i) ==
    /\ main = "collecting" /\ tasks[i].pc \in Ended
    /\ results' = With(results, i, ResultLine(run.plan[i].row, run.plan[i].path, tasks[i].pc))
    /\ Become(i, "collected")
    /\ main' = IF (Cardinality(Done) + 1) % ReportEvery = 0 \/ Done \cup {i} = DOMAIN tasks
               THEN "writing" ELSE "collecting"
    /\ UNCHANGED <<report, exit>> /\ InMain

WriteReport ==
    /\ main = "writing"
    /\ report' = [report EXCEPT ![run.kind] = results]
    /\ main' = IF Done = DOMAIN tasks THEN "ending" ELSE "collecting"
    /\ UNCHANGED <<tasks, results, exit>> /\ InMain

\* the sorted report is the last one; a run that ended is forgotten
Finish ==
    /\ main = "ending"
    /\ report' = [report EXCEPT ![run.kind] = results]
    /\ exit' = ExitCode(results)
    /\ main' = "idle" /\ tasks' = <<>> /\ results' = <<>>
    /\ InMain

\* killed: the files stay as they are, and so does the report unless it was
\* being written
Crash ==
    /\ main # "idle" /\ crashes < MaxCrashes
    /\ crashes' = crashes + 1
    /\ \/ UNCHANGED report
       \/ /\ main \in {"writing", "ending"}
          /\ \E written \in SUBSET DOMAIN results :
                /\ written # DOMAIN results
                /\ report' = [report EXCEPT ![run.kind] = Restrict(results, written)]
    /\ exit' = None
    /\ main' = "idle" /\ tasks' = <<>> /\ results' = <<>>
    /\ UNCHANGED <<chrome, files, run, launches>>

-----------------------------------------------------------------------------
DownloadsInit ==
    /\ wanted = [k \in ChromeKinds |-> {}]
    /\ saved = [k \in ChromeKinds |-> <<>>]
    /\ prepared = [k \in ChromeKinds |-> 0]
    /\ disk \in Leftovers /\ parts = <<>>
    /\ run = None /\ tasks = <<>> /\ results = <<>> /\ main = "idle"
    /\ report = [k \in Kinds |-> None] /\ exit = None
    /\ launches = 0 /\ crashes = 0

Next ==
    \/ \E kind \in ChromeKinds : Prepare(kind) \/ \E site \in Sites : Export(kind, site)
    \/ PrepareErrors
    \/ DownloadPhotos \/ DownloadComplete
    \/ \E rows \in HandMade : DownloadCsv(rows)
    \/ \E i \in DOMAIN tasks : Thread(i) \/ Collect(i)
    \/ WriteReport \/ Finish \/ Crash

\* the threads of a pool and its main thread are scheduled; nothing makes the
\* user act or a run die
Fairness ==
    /\ WF_vars(\E i \in DOMAIN tasks : Thread(i))
    /\ WF_vars((\E i \in DOMAIN tasks : Collect(i)) \/ WriteReport \/ Finish)

DownloadsSpec == DownloadsInit /\ [][Next]_vars /\ Fairness

-----------------------------------------------------------------------------
Reported(kind) == IF report[kind] = None THEN {} ELSE Range(report[kind])

\* Whatever the threads, the retries and the kills before it left behind, and
\* even torn, a report never says "downloaded" of a file that is not the
\* row's own, nor "skipped_existing" of one that cannot be used
\* (download_one, write_report).
ReportedFilesAreThere ==
    \A kind \in Kinds : \A l \in Reported(kind) : l.status # "error" =>
        /\ l.path \in DOMAIN disk /\ Usable(disk[l.path])
        /\ l.status = "downloaded" => disk[l.path].att = l.row.att

\* A run that ended has reported every row of its CSV, with a file of its own
\* for each row it has, and its exit code is 0 only when there are rows and
\* none is an error (run_download).
ExitTellsTheReport ==
    exit \in {0, 1} =>
        LET lines == report[run.kind]
            kept == {i \in DOMAIN lines : lines[i].status # "error"}
        IN /\ DOMAIN lines = Positions(run.rows)
           /\ \A i \in DOMAIN lines : lines[i].row = run.rows[i]
           /\ (exit = 0) <=> (kept = DOMAIN lines /\ kept # {})
           /\ \A i, j \in kept : lines[i].path = lines[j].path => i = j

\* A usable file is never lost or replaced, by a later run, by another row of
\* the same run or after a kill (download_one: "une relance est sûre").
KeptFilesStay ==
    [][\A p \in DOMAIN disk : Usable(disk[p]) => p \in DOMAIN disk' /\ disk'[p] = disk[p]]_vars

\* A run ends, whatever the site answers, unless it is killed: no retry, no
\* thread and no line keeps it (run_download).
RunEnds == main # "idle" ~> main = "idle"
=============================================================================
