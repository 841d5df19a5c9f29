-------------------------- MODULE DownloadsProofs --------------------------
(***************************************************************************)
(* Theorems about the download kit, for any CSVs, files left by earlier    *)
(* runs, numbers of threads and retries, and however many runs follow each *)
(* other or are killed.                                                    *)
(***************************************************************************)
EXTENDS Downloads, FiniteSetTheorems, TLAPS

-----------------------------------------------------------------------------
(***************************************************************************)
(* The inductive invariant.                                                *)
(***************************************************************************)

Busy == {"request", "read", "check", "replace"}

Task == [pc : {"waiting"} \cup Busy \cup Ended \cup {"collected"}, attempt : Nat]

TypeOK ==
    /\ report = [kind \in Kinds |-> report[kind]]
    /\ main \in {"idle", "collecting", "writing", "ending"}
    /\ main # "idle" => /\ run.kind \in Kinds
                        /\ Fetchable(run.rows) # {}
                        /\ run.plan = Plan(run.kind, run.rows)
                        /\ tasks \in [Fetchable(run.rows) -> Task]
                        /\ exit = None
    /\ main = "idle" => DOMAIN tasks = {}

PathOf(i) == run.plan[i].path

\* What the pool knows of the files of one row.  A task that is still at work
\* has seen that its target cannot be used, and nobody else has given it a
\* file since.
TaskOK(i) ==
    /\ tasks[i].pc \in Busy => ~AlreadyThere(PathOf(i))
    /\ tasks[i].pc \in {"check", "replace"} /\ PathOf(i) \in DOMAIN parts =>
           parts[PathOf(i)].att = run.plan[i].row.att
    /\ tasks[i].pc = "replace" =>
           PathOf(i) \in DOMAIN parts /\ Usable(parts[PathOf(i)])
    /\ tasks[i].pc \in {"skipped_existing", "downloaded"} => AlreadyThere(PathOf(i))
    /\ tasks[i].pc = "downloaded" => disk[PathOf(i)].att = run.plan[i].row.att

TasksOK == main # "idle" => \A i \in DOMAIN tasks : TaskOK(i)

\* What a line says of its file is true.
TrueLine(l) ==
    /\ l.status # "error" => AlreadyThere(l.path)
    /\ l.status = "downloaded" => disk[l.path].att = l.row.att

\* The lines of a run are those of the rows without a URL and of the tasks
\* that were collected, each with its row and its planned path.
LineOfRow(lines, i) ==
    /\ lines[i].row = run.rows[i]
    /\ i \in Fetchable(run.rows) => lines[i].path = PathOf(i)
    /\ i \notin Fetchable(run.rows) => lines[i].status = "error"

LinesOK(lines) ==
    /\ \A i \in DOMAIN lines : LineOfRow(lines, i)
    /\ \A i \in DOMAIN lines : TrueLine(lines[i])

ResultsOK ==
    main # "idle" =>
        /\ DOMAIN results = (Positions(run.rows) \ Fetchable(run.rows)) \cup Done
        /\ LinesOK(results)
        /\ main = "ending" => Done = DOMAIN tasks

ReportsOK == \A kind \in Kinds : \A l \in Reported(kind) : TrueLine(l)

IInv == TypeOK /\ TasksOK /\ ResultsOK /\ ReportsOK /\ ExitTellsTheReport

-----------------------------------------------------------------------------
(***************************************************************************)
(* The operators of the kit.                                               *)
(***************************************************************************)

\* Positions are numbers.
LEMMA PositionsAreNumbers ==
    ASSUME NEW rows
    PROVE  /\ Positions(rows) \subseteq Int
           /\ \A i \in Positions(rows) : 1 <= i
           /\ Fetchable(rows) \subseteq Positions(rows)
BY DEF Positions, Fetchable

\* The plan has the rows that have a URL, and no two of them share a path:
\* among rows of one base name, the count of those up to a row grows
\* (plan_downloads).
LEMMA PlanNumbersItsRows ==
    ASSUME NEW kind, NEW rows
    PROVE  /\ DOMAIN Plan(kind, rows) = Fetchable(rows)
           /\ \A i \in Fetchable(rows) : Plan(kind, rows)[i].row = rows[i]
           /\ \A i, j \in Fetchable(rows) :
                 Plan(kind, rows)[i].path = Plan(kind, rows)[j].path => i = j
<1> DEFINE SameBase(i) == {j \in Fetchable(rows) :
                             j <= i /\ Target(kind, rows[j], 1) = Target(kind, rows[i], 1)}
<1>1. Plan(kind, rows) =
        [i \in Fetchable(rows) |->
           [row |-> rows[i], path |-> Target(kind, rows[i], Cardinality(SameBase(i)))]]
  BY DEF Plan
<1>2. \A i \in Fetchable(rows) : i \in Nat
  BY PositionsAreNumbers
<1>3. ASSUME NEW i \in Fetchable(rows), NEW j \in Fetchable(rows), i < j,
             Plan(kind, rows)[i].path = Plan(kind, rows)[j].path
      PROVE  FALSE
  <2>1. Target(kind, rows[i], Cardinality(SameBase(i))) = Target(kind, rows[j], Cardinality(SameBase(j)))
    BY <1>1, <1>3
  <2>2. Cardinality(SameBase(i)) = Cardinality(SameBase(j))
    BY <2>1 DEF Target
  <2>3. Target(kind, rows[i], 1) = Target(kind, rows[j], 1)
    BY <2>1 DEF Target
  <2>4. SameBase(i) \subseteq SameBase(j) /\ j \in SameBase(j) /\ j \notin SameBase(i)
    BY <1>2, <1>3, <2>3
  <2>5. SameBase(j) \in SUBSET Nat /\ \A k \in SameBase(j) : k <= j
    BY <1>2
  <2>6. IsFiniteSet(SameBase(j))
    BY <1>2, <2>5, FS_BoundedSetOfNaturals
  <2>7. SameBase(i) \in SUBSET SameBase(j)
    BY <2>4
  <2>8. SameBase(j) = SameBase(i)
    BY ONLY <2>2, <2>6, <2>7, FS_Subset
  <2> QED BY <2>4, <2>8
<1>4. \A i, j \in Fetchable(rows) :
         Plan(kind, rows)[i].path = Plan(kind, rows)[j].path => i = j
  BY <1>2, <1>3
<1> QED BY <1>1, <1>4

\* While a run lasts, the paths of its rows are its own.
LEMMA PathsOfARun ==
    ASSUME TypeOK, main # "idle"
    PROVE  /\ DOMAIN tasks = Fetchable(run.rows)
           /\ \A i \in DOMAIN tasks : run.plan[i].row = run.rows[i] /\ tasks[i] \in Task
           /\ \A i, j \in DOMAIN tasks : PathOf(i) = PathOf(j) => i = j
BY PlanNumbersItsRows DEF TypeOK, PathOf

-----------------------------------------------------------------------------
(***************************************************************************)
(* The threads.                                                            *)
(***************************************************************************)

\* What KeptFilesStay asks of a step.
KeepsFiles == \A p \in DOMAIN disk : Usable(disk[p]) => p \in DOMAIN disk' /\ disk'[p] = disk[p]

\* A step of a task touches the files of its own path only, keeps what can be
\* used, and leaves the task as TaskOK says.
OwnFiles(i) ==
    \A q : q # PathOf(i) => /\ (q \in DOMAIN disk' <=> q \in DOMAIN disk)
                            /\ (q \in DOMAIN parts' <=> q \in DOMAIN parts)
                            /\ q \in DOMAIN disk => disk'[q] = disk[q]
                            /\ q \in DOMAIN parts => parts'[q] = parts[q]

TaskStep(i) ==
    /\ InThread
    /\ tasks[i].pc \in {"waiting"} \cup Busy
    /\ \E t \in Task : t.pc # "collected" /\ tasks' = [tasks EXCEPT ![i] = t]
    /\ OwnFiles(i)
    /\ KeepsFiles
    /\ TaskOK(i)'

\* A new pc is one a task may have.
LEMMA BecomeIsATask ==
    ASSUME NEW i \in DOMAIN tasks, tasks[i] \in Task, DOMAIN tasks = Fetchable(run.rows),
           NEW pc \in {"waiting"} \cup Busy \cup Ended, Become(i, pc)
    PROVE  /\ \E t \in Task : t.pc # "collected" /\ tasks' = [tasks EXCEPT ![i] = t]
           /\ tasks'[i].pc = pc
<1> DEFINE t == [tasks[i] EXCEPT !.pc = pc]
<1>1. t \in Task /\ t.pc = pc
  BY DEF Task
<1>2. tasks' = [tasks EXCEPT ![i] = t]
  BY DEF Become
<1>3. pc # "collected"
  BY DEF Busy, Ended
<1> QED BY <1>1, <1>2, <1>3

\* The pool gives a task to a thread, which looks at the target (download_one).
LEMMA StartEffect ==
    ASSUME TypeOK, TasksOK, main # "idle", NEW i \in DOMAIN tasks, Start(i)
    PROVE  TaskStep(i)
<1> DEFINE pc == IF AlreadyThere(PathOf(i)) THEN "skipped_existing" ELSE "request"
<1>1. /\ UNCHANGED files /\ InThread
      /\ tasks[i].pc = "waiting"
      /\ Become(i, pc)
  BY DEF Start, PathOf
<1>2. pc \in {"waiting"} \cup Busy \cup Ended
  BY DEF Busy, Ended
<1>3. /\ \E t \in Task : t.pc # "collected" /\ tasks' = [tasks EXCEPT ![i] = t]
      /\ tasks'[i].pc = pc
  BY <1>1, <1>2, PathsOfARun, BecomeIsATask
<1>4. OwnFiles(i) /\ KeepsFiles
  BY <1>1 DEF files, OwnFiles, KeepsFiles
<1>5. PathOf(i)' = PathOf(i) /\ AlreadyThere(PathOf(i))' = AlreadyThere(PathOf(i))
  BY <1>1 DEF files, InThread, PathOf, AlreadyThere, Usable
<1>6. TaskOK(i)'
  BY <1>3, <1>5 DEF TaskOK, Busy
<1> QED BY <1>1, <1>3, <1>4, <1>6 DEF TaskStep

\* A failure takes the partial file away and asks again or gives the row up
\* (download_one, except).
LEMMA FailEffect ==
    ASSUME TypeOK, TasksOK, main # "idle", NEW i \in DOMAIN tasks, Fail(i), tasks[i].pc \in Busy
    PROVE  TaskStep(i)
<1>1. /\ parts' = Without(parts, PathOf(i))
      /\ tasks' = [tasks EXCEPT ![i] = AfterFailure(tasks[i])]
      /\ disk' = disk /\ InThread
  BY DEF Fail, PathOf
<1>2. tasks[i] \in Task
  BY PathsOfARun
<1>3. AfterFailure(tasks[i]) \in Task /\ AfterFailure(tasks[i]).pc \in {"request", "error"}
  BY <1>2 DEF AfterFailure, Task, Busy, Ended
<1>4. \E t \in Task : t.pc # "collected" /\ tasks' = [tasks EXCEPT ![i] = t]
  BY <1>1, <1>3
<1>5. tasks'[i].pc \in {"request", "error"}
  BY <1>1, <1>3
<1>6. OwnFiles(i) /\ KeepsFiles
  BY <1>1 DEF Without, Restrict, OwnFiles, KeepsFiles
<1>7. ~AlreadyThere(PathOf(i))
  BY DEF TasksOK, TaskOK
<1>8. ~AlreadyThere(PathOf(i))'
  BY <1>1, <1>7 DEF InThread, PathOf, AlreadyThere, Usable
<1>9. TaskOK(i)'
  BY <1>5, <1>8 DEF TaskOK, Busy
<1> QED BY <1>1, <1>4, <1>6, <1>9 DEF TaskStep

\* The partial file is opened, and filled with a body of the row's attachment
\* (download_one).
LEMMA WriteEffect ==
    ASSUME TypeOK, TasksOK, main # "idle", NEW i \in DOMAIN tasks, NEW content,
           NEW pc \in {"read", "check"}, tasks[i].pc \in Busy,
           parts' = With(parts, PathOf(i), content), Become(i, pc), disk' = disk, InThread,
           pc = "check" => content.att = run.plan[i].row.att
    PROVE  TaskStep(i)
<1>1. /\ \E t \in Task : t.pc # "collected" /\ tasks' = [tasks EXCEPT ![i] = t]
      /\ tasks'[i].pc = pc
  BY PathsOfARun, BecomeIsATask DEF Busy
<1>2. OwnFiles(i) /\ KeepsFiles
  BY DEF With, OwnFiles, KeepsFiles
<1>3. ~AlreadyThere(PathOf(i))
  BY DEF TasksOK, TaskOK
<1>4. /\ ~AlreadyThere(PathOf(i))'
      /\ PathOf(i)' = PathOf(i) /\ run' = run
  BY <1>3 DEF InThread, PathOf, AlreadyThere, Usable
<1>5. parts'[PathOf(i)] = content
  BY DEF With
<1>6. TaskOK(i)'
  BY <1>1, <1>4, <1>5 DEF TaskOK, Busy
<1> QED BY <1>1, <1>2, <1>6 DEF TaskStep

\* A partial file that can be used is about to become the file (download_one).
LEMMA CheckEffect ==
    ASSUME TypeOK, TasksOK, main # "idle", NEW i \in DOMAIN tasks, Check(i)
    PROVE  TaskStep(i)
<1>1. /\ UNCHANGED files /\ InThread
      /\ tasks[i].pc = "check" /\ PathOf(i) \in DOMAIN parts /\ Usable(parts[PathOf(i)])
      /\ Become(i, "replace")
  BY DEF Check, PathOf
<1>2. /\ \E t \in Task : t.pc # "collected" /\ tasks' = [tasks EXCEPT ![i] = t]
      /\ tasks'[i].pc = "replace"
  BY <1>1, PathsOfARun, BecomeIsATask DEF Busy
<1>3. OwnFiles(i) /\ KeepsFiles
  BY <1>1 DEF files, OwnFiles, KeepsFiles
<1>4. ~AlreadyThere(PathOf(i)) /\ parts[PathOf(i)].att = run.plan[i].row.att
  BY <1>1 DEF TasksOK, TaskOK, Busy
<1>5. /\ ~AlreadyThere(PathOf(i))'
      /\ PathOf(i)' = PathOf(i) /\ run' = run /\ parts' = parts
  BY <1>1, <1>4 DEF files, InThread, PathOf, AlreadyThere, Usable
<1>6. TaskOK(i)'
  BY <1>1, <1>2, <1>4, <1>5 DEF TaskOK, Busy, Usable
<1> QED BY <1>1, <1>2, <1>3, <1>6 DEF TaskStep, Busy

\* The partial file replaces a file that cannot be used, or none
\* (download_one, os.replace).
LEMMA ReplaceEffect ==
    ASSUME TypeOK, TasksOK, main # "idle", NEW i \in DOMAIN tasks, Replace(i)
    PROVE  TaskStep(i)
<1>1. /\ tasks[i].pc = "replace" /\ PathOf(i) \in DOMAIN parts
      /\ disk' = With(disk, PathOf(i), parts[PathOf(i)])
      /\ parts' = Without(parts, PathOf(i))
      /\ Become(i, "downloaded")
      /\ InThread
  BY DEF Replace, PathOf
<1>2. /\ \E t \in Task : t.pc # "collected" /\ tasks' = [tasks EXCEPT ![i] = t]
      /\ tasks'[i].pc = "downloaded"
  BY <1>1, PathsOfARun, BecomeIsATask DEF Ended
<1>3. /\ ~AlreadyThere(PathOf(i)) /\ Usable(parts[PathOf(i)])
      /\ parts[PathOf(i)].att = run.plan[i].row.att
  BY <1>1 DEF TasksOK, TaskOK, Busy
<1>4. KeepsFiles
  BY <1>1, <1>3 DEF With, KeepsFiles, AlreadyThere
<1>5. OwnFiles(i)
  BY <1>1 DEF With, Without, Restrict, OwnFiles
<1>6. /\ PathOf(i)' = PathOf(i) /\ run' = run
      /\ PathOf(i) \in DOMAIN disk' /\ disk'[PathOf(i)] = parts[PathOf(i)]
  BY <1>1 DEF With, InThread, PathOf
<1>7. AlreadyThere(PathOf(i))'
  BY <1>3, <1>6 DEF AlreadyThere, Usable
<1>8. TaskOK(i)'
  BY <1>2, <1>3, <1>6, <1>7 DEF TaskOK, Busy
<1> QED BY <1>1, <1>2, <1>4, <1>5, <1>8 DEF TaskStep, Busy

\* Every step of a thread is one of those.
LEMMA ThreadEffect ==
    ASSUME TypeOK, TasksOK, NEW i \in DOMAIN tasks, Thread(i)
    PROVE  main # "idle" /\ TaskStep(i)
<1>1. main # "idle"
  BY DEF TypeOK
<1>2. CASE Start(i)
  BY <1>1, <1>2, StartEffect
<1>3. CASE RequestFails(i) \/ ReadFails(i) \/ CheckFails(i)
  BY <1>1, <1>3, FailEffect DEF RequestFails, ReadFails, CheckFails, Busy
<1>4. CASE Answered(i)
  <2>1. /\ tasks[i].pc \in Busy /\ disk' = disk /\ InThread /\ Become(i, "read")
        /\ parts' = With(parts, PathOf(i), [att |-> None, body |-> "empty"])
    BY <1>4 DEF Answered, PathOf, Busy
  <2> QED BY ONLY <1>1, <2>1, TypeOK, TasksOK, i \in DOMAIN tasks, WriteEffect
<1>5. ASSUME NEW body \in Bodies, Received(i, body)
      PROVE  TaskStep(i)
  <2>1. /\ tasks[i].pc \in Busy /\ disk' = disk /\ InThread /\ Become(i, "check")
        /\ parts' = With(parts, PathOf(i), [att |-> run.plan[i].row.att, body |-> body])
    BY <1>5 DEF Received, PathOf, Busy
  <2> QED BY ONLY <1>1, <2>1, TypeOK, TasksOK, i \in DOMAIN tasks, WriteEffect
<1>6. CASE Check(i)
  BY <1>1, <1>6, CheckEffect
<1>7. CASE Replace(i)
  BY <1>1, <1>7, ReplaceEffect
<1> QED BY <1>1, <1>2, <1>3, <1>4, <1>5, <1>6, <1>7 DEF Thread

\* What a step of a thread leaves as it was: what the lines say stays true, and
\* nothing is collected.
LEMMA ThreadKeeps ==
    ASSUME IInv, NEW i \in DOMAIN tasks, Thread(i)
    PROVE  IInv'
<1>1. main # "idle" /\ TaskStep(i)
  BY ThreadEffect DEF IInv
<1>2. PICK t \in Task : t.pc # "collected" /\ tasks' = [tasks EXCEPT ![i] = t]
  BY <1>1 DEF TaskStep
<1>3. UNCHANGED <<run, results, main, report, exit>>
  BY <1>1 DEF TaskStep, InThread
<1>4. exit = None /\ DOMAIN tasks' = DOMAIN tasks /\ Done' = Done
  <2>1. tasks[i].pc # "collected"
    BY <1>1 DEF TaskStep, Busy
  <2> QED BY <1>1, <1>2, <2>1 DEF IInv, TypeOK, Done
<1>5. TypeOK'
  BY <1>1, <1>2, <1>3 DEF IInv, TypeOK
<1>6. ASSUME NEW j \in DOMAIN tasks, j # i
      PROVE  TaskOK(j)'
  <2>1. PathOf(j) # PathOf(i) /\ TaskOK(j)
    BY <1>1, <1>6, PathsOfARun DEF IInv, TasksOK
  <2>2. tasks'[j] = tasks[j] /\ PathOf(j)' = PathOf(j)
    BY <1>2, <1>3, <1>6 DEF PathOf
  <2>3. OwnFiles(i)
    BY <1>1 DEF TaskStep
  <2>4. /\ PathOf(j) \in DOMAIN disk' <=> PathOf(j) \in DOMAIN disk
        /\ PathOf(j) \in DOMAIN parts' <=> PathOf(j) \in DOMAIN parts
        /\ PathOf(j) \in DOMAIN disk => disk'[PathOf(j)] = disk[PathOf(j)]
        /\ PathOf(j) \in DOMAIN parts => parts'[PathOf(j)] = parts[PathOf(j)]
    BY <2>1, <2>3 DEF OwnFiles
  <2> QED BY <1>3, <2>1, <2>2, <2>4 DEF TaskOK, AlreadyThere, Usable
<1>7. TasksOK'
  BY <1>1, <1>4, <1>6 DEF TasksOK, TaskStep
<1>8. KeepsFiles
  BY <1>1 DEF TaskStep
<1>9. ResultsOK'
  <2>1. LinesOK(results)
    BY <1>1 DEF IInv, ResultsOK
  <2>2. LinesOK(results)'
    BY <1>3, <1>8, <2>1 DEF LinesOK, LineOfRow, PathOf, TrueLine, AlreadyThere, KeepsFiles, Usable
  <2> QED BY <1>1, <1>3, <1>4, <2>2 DEF IInv, ResultsOK
<1>10. ReportsOK'
  BY <1>3, <1>8 DEF IInv, ReportsOK, Reported, TrueLine, AlreadyThere, KeepsFiles, Usable
<1>11. ExitTellsTheReport'
  BY <1>3, <1>4, DownloadsAssumption DEF ExitTellsTheReport
<1> QED BY <1>5, <1>7, <1>9, <1>10, <1>11 DEF IInv

-----------------------------------------------------------------------------
(***************************************************************************)
(* The main thread and the user.                                           *)
(***************************************************************************)

\* While the files and the tasks stay, so does what the tasks know of them.
LEMMA SameFiles ==
    ASSUME UNCHANGED <<disk, parts, run>>, NEW i, TaskOK(i), tasks'[i] = tasks[i]
    PROVE  TaskOK(i)'
BY DEF TaskOK, AlreadyThere, Usable, PathOf

\* An ended task becomes a line that is true (run_download, as_completed).
LEMMA CollectKeeps ==
    ASSUME IInv, NEW i \in DOMAIN tasks, Collect(i)
    PROVE  IInv'
<1> DEFINE line == ResultLine(run.plan[i].row, PathOf(i), tasks[i].pc)
<1>1. /\ main = "collecting" /\ tasks[i].pc \in Ended
      /\ results' = With(results, i, line)
      /\ Become(i, "collected")
      /\ main' \in {"collecting", "writing"}
      /\ UNCHANGED <<disk, parts, run, report, exit>>
  BY DEF Collect, InMain, files, PathOf
<1>2. /\ DOMAIN tasks = Fetchable(run.rows) /\ tasks[i] \in Task
      /\ run.plan[i].row = run.rows[i]
      /\ exit = None
  BY <1>1, PathsOfARun DEF IInv, TypeOK
<1>3. tasks' = [tasks EXCEPT ![i].pc = "collected"]
  BY <1>1 DEF Become
<1>4. TypeOK'
  <2>1. tasks' \in [Fetchable(run.rows) -> Task]
    BY <1>1, <1>2, <1>3 DEF IInv, TypeOK, Task
  <2> QED BY <1>1, <2>1 DEF IInv, TypeOK
<1>5. TasksOK'
  <2>1. tasks'[i].pc = "collected" /\ DOMAIN tasks' = DOMAIN tasks
    BY <1>2, <1>3 DEF Task
  <2>2. TaskOK(i)'
    BY <2>1 DEF TaskOK, Busy
  <2>3. ASSUME NEW j \in DOMAIN tasks, j # i
        PROVE  TaskOK(j)'
    <3>1. TaskOK(j) /\ tasks'[j] = tasks[j]
      BY <1>1, <1>3, <2>3 DEF IInv, TasksOK
    <3> QED BY <1>1, <3>1, SameFiles
  <2> QED BY <2>1, <2>2, <2>3 DEF TasksOK
<1>6. ResultsOK'
  <2>1. Done' = Done \cup {i}
    BY <1>2, <1>3 DEF Done, Task
  <2>2. DOMAIN results' = (Positions(run.rows) \ Fetchable(run.rows)) \cup Done'
    BY <1>1, <2>1 DEF With, IInv, ResultsOK
  <2>3. results'[i] = line /\ \A j \in DOMAIN results \ {i} : results'[j] = results[j]
    BY <1>1 DEF With
  <2>4. DOMAIN results' = DOMAIN results \cup {i}
    BY <1>1 DEF With
  <2>5. LinesOK(results)
    BY <1>1 DEF IInv, ResultsOK
  <2>6. \A j \in DOMAIN results' : LineOfRow(results, j)'
    BY <1>1, <1>2, <2>3, <2>4, <2>5 DEF LinesOK, LineOfRow, PathOf, ResultLine
  <2>7. TaskOK(i)
    BY <1>1 DEF IInv, TasksOK
  <2>8. TrueLine(line)
    BY <1>1, <1>2, <2>7 DEF TrueLine, TaskOK, Ended, ResultLine
  <2>9. \A j \in DOMAIN results' : TrueLine(results[j])'
    BY <1>1, <2>3, <2>4, <2>5, <2>8 DEF LinesOK, TrueLine, AlreadyThere, Usable
  <2> QED BY <1>1, <2>2, <2>6, <2>9 DEF ResultsOK, LinesOK
<1>7. ReportsOK'
  BY <1>1 DEF IInv, ReportsOK, Reported, TrueLine, AlreadyThere, Usable
<1>8. ExitTellsTheReport'
  BY <1>1, <1>2, DownloadsAssumption DEF ExitTellsTheReport
<1> QED BY <1>4, <1>5, <1>6, <1>7, <1>8 DEF IInv

\* A report made of true lines is true (write_report).
LEMMA TrueReport ==
    ASSUME TypeOK, ReportsOK, UNCHANGED disk, NEW kind \in Kinds, NEW lines,
           \A i \in DOMAIN lines : TrueLine(lines[i]),
           report' = [report EXCEPT ![kind] = lines]
    PROVE  /\ ReportsOK'
           /\ report' = [k \in Kinds |-> report'[k]]
           /\ report'[kind] = lines
<1>1. /\ \A k \in Kinds \ {kind} : report'[k] = report[k]
      /\ report'[kind] = lines
      /\ report' = [k \in Kinds |-> report'[k]]
  BY DEF TypeOK
<1>2. ASSUME NEW k \in Kinds, NEW l \in Reported(k)'
      PROVE  TrueLine(l)'
  <2>1. CASE k = kind
    <3>1. TrueLine(l)
      BY <1>1, <1>2, <2>1 DEF Reported, Range
    <3> QED BY <3>1 DEF TrueLine, AlreadyThere, Usable
  <2>2. CASE k # kind
    <3>1. l \in Reported(k)
      BY <1>1, <1>2, <2>2 DEF Reported
    <3>2. TrueLine(l)
      BY <3>1 DEF ReportsOK
    <3> QED BY <3>2 DEF TrueLine, AlreadyThere, Usable
  <2> QED BY <2>1, <2>2
<1> QED BY <1>1, <1>2 DEF ReportsOK

\* The report is written with the lines there are (run_download).
LEMMA WriteReportKeeps ==
    ASSUME IInv, WriteReport
    PROVE  IInv'
<1>1. /\ main = "writing"
      /\ report' = [report EXCEPT ![run.kind] = results]
      /\ main' = IF Done = DOMAIN tasks THEN "ending" ELSE "collecting"
      /\ UNCHANGED <<disk, parts, run, tasks, results, exit>>
  BY DEF WriteReport, InMain, files
<1>2. run.kind \in Kinds /\ exit = None /\ LinesOK(results)
  BY <1>1 DEF IInv, TypeOK, ResultsOK
<1>3. ReportsOK' /\ report' = [k \in Kinds |-> report'[k]]
  BY <1>1, <1>2, TrueReport DEF IInv, LinesOK
<1>4. TypeOK'
  BY <1>1, <1>3 DEF IInv, TypeOK
<1>5. TasksOK'
  BY <1>1, SameFiles DEF IInv, TasksOK
<1>6. LinesOK(results)'
  BY <1>1, <1>2 DEF LinesOK, LineOfRow, PathOf, TrueLine, AlreadyThere, Usable
<1>7. ResultsOK'
  BY <1>1, <1>6 DEF IInv, ResultsOK, Done
<1>8. ExitTellsTheReport'
  BY <1>1, <1>2, DownloadsAssumption DEF ExitTellsTheReport
<1> QED BY <1>3, <1>4, <1>5, <1>7, <1>8 DEF IInv

\* Nothing is asked of the tasks and the results once a run is forgotten.
LEMMA Forgotten ==
    ASSUME main' = "idle", tasks' = <<>>, report' = [k \in Kinds |-> report'[k]]
    PROVE  TypeOK' /\ TasksOK' /\ ResultsOK'
BY DEF TypeOK, TasksOK, ResultsOK

\* The last report has a line for every row, and its errors are those the exit
\* code tells of (run_download).
LEMMA FinishKeeps ==
    ASSUME IInv, Finish
    PROVE  IInv'
<1>1. /\ main = "ending"
      /\ report' = [report EXCEPT ![run.kind] = results]
      /\ exit' = ExitCode(results)
      /\ main' = "idle" /\ tasks' = <<>>
      /\ UNCHANGED <<disk, run>>
  BY DEF Finish, InMain, files
<1>2. /\ run.kind \in Kinds /\ Fetchable(run.rows) # {}
      /\ LinesOK(results)
      /\ DOMAIN tasks = Fetchable(run.rows) /\ Done = DOMAIN tasks
      /\ DOMAIN results = (Positions(run.rows) \ Fetchable(run.rows)) \cup Done
  BY <1>1, PathsOfARun DEF IInv, TypeOK, ResultsOK
<1>3. /\ ReportsOK' /\ report' = [k \in Kinds |-> report'[k]]
      /\ report'[run.kind] = results
  BY <1>1, <1>2, TrueReport DEF IInv, LinesOK
<1>4. DOMAIN results = Positions(run.rows) /\ DOMAIN results # {}
  BY <1>2, PositionsAreNumbers
<1> DEFINE kept == {i \in DOMAIN results : results[i].status # "error"}
<1>5. \A i \in DOMAIN results : results[i].row = run.rows[i]
  BY <1>2 DEF LinesOK, LineOfRow
<1>6. (exit' = 0) <=> (kept = DOMAIN results /\ kept # {})
  <2>1. (\E l \in Range(results) : l.status = "error") <=> kept # DOMAIN results
    BY DEF Range
  <2> QED BY <1>1, <1>4, <2>1 DEF ExitCode
<1>7. \A i, j \in kept : results[i].path = results[j].path => i = j
  <2>1. \A i \in kept : i \in DOMAIN tasks /\ results[i].path = PathOf(i)
    BY <1>2 DEF LinesOK, LineOfRow
  <2> QED BY <1>1, <2>1, PathsOfARun DEF IInv
<1>8. ExitTellsTheReport'
  BY <1>1, <1>3, <1>4, <1>5, <1>6, <1>7 DEF ExitTellsTheReport
<1> QED BY <1>1, <1>3, <1>8, Forgotten DEF IInv

\* A killed run leaves its files, and of the report being written some lines.
LEMMA CrashKeeps ==
    ASSUME IInv, Crash
    PROVE  IInv'
<1>1. /\ main # "idle" /\ exit' = None
      /\ main' = "idle" /\ tasks' = <<>>
      /\ UNCHANGED <<disk, run>>
  BY DEF Crash, files
<1>2. run.kind \in Kinds /\ LinesOK(results)
  BY <1>1 DEF IInv, TypeOK, ResultsOK
<1>3. ReportsOK' /\ report' = [k \in Kinds |-> report'[k]]
  <2>1. CASE UNCHANGED report
    BY <1>1, <2>1 DEF IInv, TypeOK, ReportsOK, Reported, TrueLine, AlreadyThere, Usable
  <2>2. ASSUME NEW written \in SUBSET DOMAIN results,
               report' = [report EXCEPT ![run.kind] = Restrict(results, written)]
        PROVE  ReportsOK' /\ report' = [k \in Kinds |-> report'[k]]
    <3>1. \A i \in DOMAIN Restrict(results, written) : TrueLine(Restrict(results, written)[i])
      BY <1>2 DEF LinesOK, Restrict
    <3> QED BY <1>1, <1>2, <2>2, <3>1, TrueReport DEF IInv
  <2> QED BY <2>1, <2>2 DEF Crash
<1>4. ExitTellsTheReport'
  BY <1>1, DownloadsAssumption DEF ExitTellsTheReport
<1> QED BY <1>1, <1>3, <1>4, Forgotten DEF IInv

\* A run that starts has its tasks waiting; one without a URL only reports
\* (run_download).
LEMMA RunOnKeeps ==
    ASSUME IInv, NEW kind \in Kinds, NEW rows, RunOn(kind, rows)
    PROVE  IInv'
<1>1. main = "idle" /\ UNCHANGED <<disk, parts>>
  BY DEF RunOn, files
<1>2. /\ DOMAIN NoUrlLines(rows) = Positions(rows) \ Fetchable(rows)
      /\ \A i \in DOMAIN NoUrlLines(rows) : /\ NoUrlLines(rows)[i].row = rows[i]
                                            /\ NoUrlLines(rows)[i].status = "error"
  BY DEF NoUrlLines, ResultLine
<1>3. \A i \in DOMAIN NoUrlLines(rows) : TrueLine(NoUrlLines(rows)[i])
  BY <1>2 DEF TrueLine
<1>4. CASE Fetchable(rows) = {}
  <2>1. /\ report' = [report EXCEPT ![kind] = NoUrlLines(rows)]
        /\ exit' = 1
        /\ run' = [kind |-> kind, rows |-> rows, plan |-> <<>>]
        /\ UNCHANGED <<tasks, results, main>>
    BY <1>4 DEF RunOn
  <2>2. /\ ReportsOK' /\ report' = [k \in Kinds |-> report'[k]]
        /\ report'[kind] = NoUrlLines(rows)
    BY <1>1, <1>3, <2>1, TrueReport DEF IInv
  <2>3. run'.kind = kind /\ run'.rows = rows
    BY <2>1
  <2>4. {i \in DOMAIN NoUrlLines(rows) : NoUrlLines(rows)[i].status # "error"} = {}
    BY <1>2
  <2>5. ExitTellsTheReport'
    BY <1>2, <1>4, <2>1, <2>2, <2>3, <2>4 DEF ExitTellsTheReport
  <2>6. TypeOK' /\ TasksOK' /\ ResultsOK'
    BY <1>1, <2>1, <2>2 DEF IInv, TypeOK, TasksOK, ResultsOK
  <2> QED BY <2>2, <2>5, <2>6 DEF IInv
<1>5. CASE Fetchable(rows) # {}
  <2>1. /\ run' = [kind |-> kind, rows |-> rows, plan |-> Plan(kind, rows)]
        /\ tasks' = [i \in Fetchable(rows) |-> [pc |-> "waiting", attempt |-> 1]]
        /\ results' = NoUrlLines(rows)
        /\ main' = "collecting" /\ exit' = None /\ report' = report
    BY <1>5 DEF RunOn
  <2>2. TypeOK'
    <3>1. [pc |-> "waiting", attempt |-> 1] \in Task
      BY DEF Task
    <3> QED BY <1>5, <2>1, <3>1 DEF IInv, TypeOK
  <2>3. \A i \in DOMAIN tasks' : tasks'[i].pc = "waiting"
    BY <2>1
  <2>4. TasksOK'
    BY <2>3 DEF TasksOK, TaskOK, Busy
  <2>5. Done' = {}
    BY <2>3 DEF Done
  <2>6. LinesOK(results)'
    BY <1>2, <1>3, <2>1 DEF LinesOK, LineOfRow, TrueLine
  <2>7. ResultsOK'
    BY <1>2, <2>1, <2>5, <2>6 DEF ResultsOK
  <2>8. ReportsOK'
    BY <1>1, <2>1 DEF IInv, ReportsOK, Reported, TrueLine, AlreadyThere, Usable
  <2>9. ExitTellsTheReport'
    BY <2>1, DownloadsAssumption DEF ExitTellsTheReport
  <2> QED BY <2>2, <2>4, <2>7, <2>8, <2>9 DEF IInv
<1> QED BY <1>4, <1>5

\* A step that leaves the kit's directories and its run alone.
LEMMA QuietSteps ==
    ASSUME IInv, UNCHANGED <<disk, parts, run, tasks, results, main, report, exit>>
    PROVE  IInv'
<1>1. TypeOK'
  BY DEF IInv, TypeOK
<1>2. TasksOK'
  BY SameFiles DEF IInv, TasksOK
<1>3. ResultsOK'
  BY DEF IInv, ResultsOK, Done, LinesOK, LineOfRow, PathOf, TrueLine, AlreadyThere, Usable
<1>4. ReportsOK'
  BY DEF IInv, ReportsOK, Reported, TrueLine, AlreadyThere, Usable
<1>5. ExitTellsTheReport'
  BY DEF IInv, ExitTellsTheReport
<1> QED BY <1>1, <1>2, <1>3, <1>4, <1>5 DEF IInv

-----------------------------------------------------------------------------
(***************************************************************************)
(* The theorems.                                                           *)
(***************************************************************************)

LEMMA InitIInv == DownloadsInit => IInv
<1> SUFFICES ASSUME DownloadsInit
             PROVE  IInv
  OBVIOUS
<1>1. /\ main = "idle" /\ tasks = <<>> /\ exit = None
      /\ report = [k \in Kinds |-> None]
  BY DEF DownloadsInit
<1>2. TypeOK /\ TasksOK /\ ResultsOK
  BY <1>1 DEF TypeOK, TasksOK, ResultsOK
<1>3. ReportsOK
  BY <1>1 DEF ReportsOK, Reported
<1>4. ExitTellsTheReport
  BY <1>1, DownloadsAssumption DEF ExitTellsTheReport
<1> QED BY <1>2, <1>3, <1>4 DEF IInv

LEMMA NextKeeps ==
    ASSUME IInv, [Next]_vars
    PROVE  IInv'
<1>1. ASSUME NEW kind \in ChromeKinds, Prepare(kind)
      PROVE  IInv'
  BY <1>1, QuietSteps DEF Prepare, Generate, files
<1>2. ASSUME NEW kind \in ChromeKinds, NEW site \in Sites, Export(kind, site)
      PROVE  IInv'
  BY <1>2, QuietSteps DEF Export, files
<1>3. CASE PrepareErrors
  BY <1>3, QuietSteps DEF PrepareErrors, Generate, files
<1>4. CASE DownloadPhotos
  BY <1>4, RunOnKeeps DEF DownloadPhotos, Kinds, ChromeKinds
<1>5. CASE DownloadComplete
  BY <1>5, RunOnKeeps DEF DownloadComplete, Kinds, ChromeKinds
<1>6. ASSUME NEW rows \in HandMade, DownloadCsv(rows)
      PROVE  IInv'
  BY <1>6, RunOnKeeps DEF DownloadCsv, Kinds
<1>7. ASSUME NEW i \in DOMAIN tasks, Thread(i) \/ Collect(i)
      PROVE  IInv'
  BY <1>7, ThreadKeeps, CollectKeeps
<1>8. CASE WriteReport \/ Finish \/ Crash
  BY <1>8, WriteReportKeeps, FinishKeeps, CrashKeeps
<1>9. CASE UNCHANGED vars
  BY <1>9, QuietSteps DEF vars, files
<1> QED BY <1>1, <1>2, <1>3, <1>4, <1>5, <1>6, <1>7, <1>8, <1>9 DEF Next

\* The tasks, the collected lines, the reports and the files agree at every
\* moment of every sequence of runs (run_download, download_one).
THEOREM DownloadsInvariance == DownloadsSpec => []IInv
<1>1. DownloadsInit => IInv
  BY InitIInv
<1>2. IInv /\ [Next]_vars => IInv'
  BY NextKeeps
<1> QED BY <1>1, <1>2, PTL DEF DownloadsSpec

\* Whatever the threads, the retries and the kills left behind, a report says
\* "downloaded" only of the row's own file and "skipped_existing" only of a
\* usable one (write_report).
THEOREM ReportsTellOfTheFiles == DownloadsSpec => []ReportedFilesAreThere
<1>1. IInv => ReportedFilesAreThere
  BY DEF IInv, ReportsOK, ReportedFilesAreThere, TrueLine, AlreadyThere
<1> QED BY <1>1, DownloadsInvariance, PTL

\* A run that ended has reported each row of its CSV, with a path of its own
\* for each one it has, and exit code 0 means that it has them all
\* (run_download).
THEOREM ExitCodeTellsTheReport == DownloadsSpec => []ExitTellsTheReport
<1>1. IInv => ExitTellsTheReport
  BY DEF IInv
<1> QED BY <1>1, DownloadsInvariance, PTL

\* No run loses or replaces a file that can be used (download_one: "une
\* relance est sûre").
THEOREM UsableFilesStay == DownloadsSpec => KeptFilesStay
<1>1. ASSUME IInv, [Next]_vars
      PROVE  [KeepsFiles]_vars
  <2>1. CASE disk' = disk
    BY <2>1 DEF KeepsFiles
  <2>2. ASSUME NEW i \in DOMAIN tasks, Thread(i)
        PROVE  KeepsFiles
    BY <1>1, <2>2, ThreadEffect DEF IInv, TaskStep
  <2>3. CASE \/ \E kind \in ChromeKinds : Prepare(kind) \/ \E site \in Sites : Export(kind, site)
             \/ PrepareErrors
    BY <2>1, <2>3 DEF Prepare, PrepareErrors, Generate, Export, files
  <2>4. CASE \/ DownloadPhotos \/ DownloadComplete \/ \E rows \in HandMade : DownloadCsv(rows)
    BY <2>1, <2>4 DEF DownloadPhotos, DownloadComplete, DownloadCsv, RunOn, files
  <2>5. CASE (\E i \in DOMAIN tasks : Collect(i)) \/ WriteReport \/ Finish
    BY <2>1, <2>5 DEF Collect, WriteReport, Finish, InMain, files
  <2>6. CASE Crash
    BY <2>1, <2>6 DEF Crash, files
  <2>7. CASE UNCHANGED vars
    BY <2>1, <2>7 DEF vars, files
  <2> QED BY <1>1, <2>2, <2>3, <2>4, <2>5, <2>6, <2>7 DEF Next
<1>2. KeepsFiles <=> (\A p \in DOMAIN disk : Usable(disk[p]) => p \in DOMAIN disk' /\ disk'[p] = disk[p])
  BY DEF KeepsFiles
<1> QED BY <1>1, <1>2, DownloadsInvariance, PTL DEF DownloadsSpec, KeptFilesStay
=============================================================================
