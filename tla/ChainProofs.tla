----------------------------- MODULE ChainProofs -----------------------------
(***************************************************************************)
(* Theorems about the chain of 2025, for any tables, images, names and     *)
(* bounds.                                                                 *)
(***************************************************************************)
EXTENDS MasterChain, FiniteSetTheorems, SequenceTheorems, NaturalsInduction, WellFoundedInduction, TLAPS

-----------------------------------------------------------------------------
(***************************************************************************)
(* The run and its files.  The scripts of a run that counted are those     *)
(* before its step; each left its file.                                    *)
(***************************************************************************)
RunFields == {"n", "phase", "step", "path", "executed", "created", "errors", "warned", "report", "code"}

\* a script that counted left its file, or an image
HasLeft(i) == /\ i \in Outputs => OfThisRun(i)
              /\ i = ImageScript => \E f \in folder : f.run = run.n

\* the scripts that counted, while their run goes on and once it has a report
Followed ==
    /\ run.step \in 0 .. 13 /\ run.executed = run.step
    /\ run.created = {i \in Scripts : i < run.step}
    /\ \A i \in run.created : HasLeft(i)

\* it has no report
Silent == run.report = ""

\* what a run holds while it goes on, writes its report, and once it has ended
RunInv ==
    /\ DOMAIN disk = Outputs
    /\ DOMAIN run = RunFields
    /\ run.phase \in {"chain", "report", "ended"}
    /\ run.phase # "ended" \/ ~Silent => Followed
    /\ run.phase = "chain" => run.step # 13 /\ run.errors = 0 /\ Silent
    /\ run.phase = "report" => /\ Silent
                               /\ \/ run.step = 13 /\ run.errors = 0
                                  \/ run.step # 13 /\ run.errors = 1
    /\ run.phase = "ended" /\ ~Silent =>
          /\ run.report = "SUCCES COMPLET" <=> run.step = 13
          /\ run.code = IF run.step = 13 THEN 0 ELSE 1

\* The thirteen scripts.
LEMMA ThirteenScripts == Cardinality(Scripts) = 13
<1>1. \A n \in Nat : Cardinality(0 .. n) = n + 1
  <2> TAKE n \in Nat
  <2>1. Cardinality(0 .. n) = IF 0 > n THEN 0 ELSE n - 0 + 1
    BY FS_Interval
  <2> QED BY <2>1
<1>2. 12 \in Nat /\ 12 + 1 = 13
  OBVIOUS
<1> QED BY <1>1, <1>2, Zenon DEF Scripts

\* No run yet.
LEMMA RunInvInit ==
  ASSUME ChainInit
  PROVE  RunInv
<1>1. DOMAIN disk = Outputs /\ run = NoRun
  BY DEF ChainInit
<1>2. DOMAIN NoRun = RunFields /\ NoRun.phase = "ended" /\ NoRun.report = ""
  BY DEF NoRun, RunFields
<1>3. Silent
  BY <1>1, <1>2 DEF Silent
<1> QED BY <1>1, <1>2, <1>3 DEF RunInv

\* What a script leaves: its code, its own file and, of script 10, images.
IsLeft(i, o) ==
    /\ DOMAIN o.disk = Outputs
    /\ \A j \in Outputs \ {i} : o.disk[j] = disk[j]
    /\ i # ImageScript => o.folder = folder

\* However a script ends, it touches its own file only, or only the folder.
LEMMA LeftByAScript ==
  ASSUME DOMAIN disk = Outputs, NEW i \in Scripts
  PROVE  /\ IsLeft(i, Done(i)) /\ IsLeft(i, Refused(i)) /\ \A o \in CutShort(i) : IsLeft(i, o)
         /\ Refused(i).code # 0 /\ \A o \in CutShort(i) : o.code # 0
<1>1. \A c, d, f : Left(c, d, f).code = c /\ Left(c, d, f).disk = d /\ Left(c, d, f).folder = f
  BY DEF Left
<1>2. \A x : /\ DOMAIN [disk EXCEPT ![i] = x] = Outputs
             /\ \A j \in Outputs \ {i} : [disk EXCEPT ![i] = x][j] = disk[j]
  OBVIOUS
<1>3. IsLeft(i, Done(i))
  <2> DEFINE d == IF i \in Outputs THEN [disk EXCEPT ![i] = Made(i)] ELSE disk
             f == IF i = ImageScript THEN Onto(Processed(disk[Pathed])) ELSE folder
  <2>1. DOMAIN d = Outputs /\ \A j \in Outputs \ {i} : d[j] = disk[j]
    BY <1>2
  <2>2. i # ImageScript => f = folder
    OBVIOUS
  <2>3. Done(i) = Left(0, d, f)
    BY DEF Done
  <2> HIDE DEF d, f
  <2> QED BY <1>1, <2>1, <2>2, <2>3 DEF IsLeft
<1>4. IsLeft(i, Refused(i)) /\ Refused(i).code # 0
  <2>1. \A f : Left(1, disk, f).code # 0 /\ (i = ImageScript => IsLeft(i, Left(1, disk, f)))
    BY <1>1 DEF IsLeft
  <2>2. IsLeft(i, Left(1, disk, folder))
    BY <1>1 DEF IsLeft
  <2> QED BY <2>1, <2>2 DEF Refused
<1>5. ASSUME NEW o \in CutShort(i) PROVE IsLeft(i, o) /\ o.code # 0
  <2>1. CASE o = Left(1, disk, folder)
    BY <1>1, <2>1 DEF IsLeft
  <2>2. ASSUME NEW x, o = Left(1, [disk EXCEPT ![i] = x], folder) PROVE IsLeft(i, o) /\ o.code # 0
    <3> DEFINE d == [disk EXCEPT ![i] = x]
    <3>1. DOMAIN d = Outputs /\ \A j \in Outputs \ {i} : d[j] = disk[j]
      BY <1>2
    <3>2. o = Left(1, d, folder)
      BY <2>2
    <3> HIDE DEF d
    <3> QED BY <1>1, <3>1, <3>2 DEF IsLeft
  <2>3. ASSUME NEW f, i = ImageScript, o = Left(1, disk, f) PROVE IsLeft(i, o) /\ o.code # 0
    BY <1>1, <2>3 DEF IsLeft
  <2>4. \/ o = Left(1, disk, folder)
        \/ \E x : o = Left(1, [disk EXCEPT ![i] = x], folder)
        \/ i = ImageScript /\ \E f : o = Left(1, disk, f)
    <3> DEFINE A == {Left(1, disk, folder)}
               B == IF i \in Outputs /\ Passes(i)
                    THEN {Left(1, [disk EXCEPT ![i] = [Made(i) EXCEPT !.whole = w]], folder) : w \in BOOLEAN}
                    ELSE {}
               C == IF i = ImageScript /\ Readable(i)
                    THEN {Left(1, disk, Onto(images)) : images \in SUBSET Processed(disk[Pathed])}
                    ELSE {}
    <3>1. o \in A \/ o \in B \/ o \in C
      BY DEF CutShort
    <3>2. o \in B => \E x : o = Left(1, [disk EXCEPT ![i] = x], folder)
      OBVIOUS
    <3>3. o \in C => i = ImageScript /\ \E f : o = Left(1, disk, f)
      OBVIOUS
    <3> QED BY <3>1, <3>2, <3>3
  <2> QED BY <2>1, <2>2, <2>3, <2>4
<1> QED BY <1>3, <1>4, <1>5

\* A script that counts has left its file, of this run, or an image.
LEMMA CountedLeaves ==
  ASSUME DOMAIN disk = Outputs, NEW i \in Scripts, Passes(i)
  PROVE  /\ i \in Outputs => Done(i).disk[i].whole /\ Done(i).disk[i].run = run.n
         /\ i = ImageScript => \E f \in Done(i).folder : f.run = run.n
<1>1. \A c, d, f : Left(c, d, f).disk = d /\ Left(c, d, f).folder = f
  BY DEF Left
<1>2. ASSUME i \in Outputs PROVE Done(i).disk[i].whole /\ Done(i).disk[i].run = run.n
  <2>1. Made(i).whole /\ Made(i).run = run.n
    BY DEF Made
  <2>2. Done(i).disk = [disk EXCEPT ![i] = Made(i)]
    BY <1>1, <1>2 DEF Done
  <2>3. Done(i).disk[i] = Made(i)
    BY <1>2, <2>2
  <2> QED BY <2>1, <2>3
<1>3. ASSUME i = ImageScript PROVE \E f \in Done(i).folder : f.run = run.n
  <2>1. Processed(disk[Pathed]) # {}
    <3>1. Accepts(i) /\ i # 0 /\ i # 2 /\ i # 6 /\ i # 7 /\ i # CheckScript
      BY <1>3 DEF Passes, ImageScript, CheckScript
    <3>2. EveryImage(disk[Pathed])
      BY <1>3, <3>1 DEF Accepts
    <3> QED BY <3>2 DEF EveryImage
  <2>2. PICK f \in Processed(disk[Pathed]) : TRUE
    BY <2>1
  <2>3. f.run = run.n
    BY DEF Processed
  <2>4. Done(i).folder = Onto(Processed(disk[Pathed]))
    BY <1>1, <1>3 DEF Done
  <2> QED BY <2>3, <2>4 DEF Onto
<1> QED BY <1>2, <1>3

\* The files of a run stay as they were, or only that of its step changes.
LEMMA StillLeft ==
  ASSUME Followed, run'.n = run.n,
         NEW s, run.step = s, NEW o, IsLeft(s, o), disk' = o.disk, folder' = o.folder
  PROVE  \A i \in run.created : HasLeft(i)'
<1> SUFFICES ASSUME NEW i \in run.created PROVE HasLeft(i)'
  OBVIOUS
<1>1. i \in Scripts /\ i < s /\ s \in Int /\ HasLeft(i)
  BY DEF Followed
<1>2. i # s
  BY <1>1 DEF Scripts
<1>3. i \in Outputs => disk'[i] = disk[i]
  BY <1>2 DEF IsLeft
<1>4. ASSUME i = ImageScript PROVE \E f \in folder' : f.run = run'.n
  <2>1. PICK f \in folder : f.run = run.n
    BY <1>1, <1>4 DEF HasLeft
  <2>2. CASE s # ImageScript
    BY <2>1, <2>2 DEF IsLeft
  <2> QED BY <1>2, <1>4, <2>2
<1>5. i \in Outputs => OfThisRun(i)'
  BY <1>1, <1>3 DEF HasLeft, OfThisRun
<1> QED BY <1>4, <1>5 DEF HasLeft

\* The steps of the master script.
LEMMA ScriptExecuted ==
  ASSUME RunInv, run.phase = "chain", NEW i \in Scripts, run.step = i,
         NEW o, IsLeft(i, o), Executed(i, o),
         o.code = 0 => o = Done(i) /\ Passes(i)
  PROVE  RunInv'
<1>1. /\ DOMAIN disk = Outputs /\ DOMAIN run = RunFields /\ Followed
      /\ run.errors = 0 /\ Silent
  BY DEF RunInv
<1>2. disk' = o.disk /\ folder' = o.folder /\ DOMAIN disk' = Outputs
  BY DEF Executed, IsLeft
<1>3. CASE Counts(i, o)
  <2>1. /\ run' = [run EXCEPT !.executed = @ + 1, !.created = @ \cup {i}, !.step = i + 1,
                              !.phase = IF i = CheckScript THEN "report" ELSE "chain"]
        /\ o.code = 0
    BY <1>3 DEF Executed, Counts
  <2>2. /\ DOMAIN run' = RunFields /\ run'.n = run.n /\ run'.executed = run.executed + 1
        /\ run'.created = run.created \cup {i} /\ run'.step = i + 1
        /\ run'.phase = IF i = CheckScript THEN "report" ELSE "chain"
        /\ run'.errors = run.errors /\ run'.report = run.report
    BY <1>1, <2>1 DEF RunFields
  <2>3. \A j \in run.created : HasLeft(j)'
    BY <1>1, <1>2, <2>2, StillLeft
  <2>4. HasLeft(i)'
    <3>1. /\ o = Done(i)
          /\ i \in Outputs => o.disk[i].whole /\ o.disk[i].run = run.n
          /\ i = ImageScript => \E f \in o.folder : f.run = run.n
      BY <1>1, <2>1, CountedLeaves
    <3>2. i \in Outputs => o.disk[i] # None
      <4>1. i \in Outputs => i # CheckScript /\ i # ImageScript
        BY DEF Outputs
      <4> QED BY <1>3, <4>1 DEF Counts, Validated
    <3> QED BY <1>2, <2>2, <3>1, <3>2 DEF HasLeft, OfThisRun
  <2>5. Followed'
    <3>1. i + 1 \in 0 .. 13 /\ {j \in Scripts : j < i} \cup {i} = {j \in Scripts : j < i + 1}
      BY DEF Scripts
    <3> QED BY <1>1, <2>2, <2>3, <2>4, <3>1 DEF Followed
  <2>6. i = CheckScript <=> i + 1 = 13
    BY DEF CheckScript, Scripts
  <2>7. Silent'
    BY <1>1, <2>2 DEF Silent
  <2>8. run'.phase \in {"chain", "report"} /\ run'.errors = 0
    BY <1>1, <2>2
  <2>9. /\ run'.phase = "chain" => run'.step # 13
        /\ run'.phase = "report" => run'.step = 13
    BY <2>2, <2>6
  <2> QED BY <1>2, <2>2, <2>5, <2>7, <2>8, <2>9 DEF RunInv
<1>4. CASE ~Counts(i, o)
  <2>1. run' = [run EXCEPT !.errors = @ + 1, !.phase = "report"]
    BY <1>4 DEF Executed
  <2>2. /\ DOMAIN run' = RunFields /\ run'.n = run.n /\ run'.executed = run.executed
        /\ run'.created = run.created /\ run'.step = run.step
        /\ run'.phase = "report" /\ run'.errors = run.errors + 1 /\ run'.report = run.report
    BY <1>1, <2>1 DEF RunFields
  <2>3. \A j \in run.created : HasLeft(j)'
    BY <1>1, <1>2, <2>2, StillLeft
  <2>4. Followed'
    BY <1>1, <2>2, <2>3 DEF Followed
  <2>5. run.step # 13
    BY DEF Scripts
  <2>6. Silent'
    BY <1>1, <2>2 DEF Silent
  <2>7. run'.errors = 1
    BY <1>1, <2>2
  <2> QED BY <1>2, <2>2, <2>4, <2>5, <2>6, <2>7 DEF RunInv
<1> QED BY <1>3, <1>4

\* Every step of the runs, of the user and of the sources.
LEMMA RunInvStep ==
  ASSUME RunInv, [Next]_vars
  PROVE  RunInv'
<1>1. /\ DOMAIN disk = Outputs /\ DOMAIN run = RunFields
      /\ run.phase \in {"chain", "report", "ended"}
  BY DEF RunInv
<1>2. CASE UNCHANGED <<disk, folder, run>>
  BY <1>2 DEF RunInv, Followed, HasLeft, OfThisRun, Silent
<1>3. CASE Give
  <2>1. run' = Ended(NextRun, 1) /\ UNCHANGED disk
    BY <1>3 DEF Give
  <2>2. DOMAIN run' = RunFields /\ run'.phase = "ended" /\ Silent'
    BY <2>1 DEF Ended, NextRun, NoRun, RunFields, Silent
  <2> QED BY <1>1, <2>1, <2>2 DEF RunInv
<1>4. ASSUME NEW path, NEW copied, Begin(path, copied) PROVE RunInv'
  <2>1. UNCHANGED disk /\ run' = [NextRun EXCEPT !.phase = "chain", !.path = path,
                 !.warned = (ToBackUp \ copied) \cup (IF folder # {} THEN {ImageScript} ELSE {})]
    BY <1>4 DEF Begin
  <2>2. /\ DOMAIN run' = RunFields /\ run'.phase = "chain"
        /\ run'.step = 0 /\ run'.executed = 0 /\ run'.created = {} /\ run'.errors = 0
    BY <2>1 DEF NextRun, NoRun, RunFields
  <2>3. {i \in Scripts : i < 0} = {}
    BY DEF Scripts
  <2>4. Followed'
    BY <2>2, <2>3 DEF Followed
  <2>5. Silent'
    BY <2>1 DEF NextRun, NoRun, Silent
  <2>6. DOMAIN disk' = Outputs /\ run'.step # 13
    BY <1>1, <2>1, <2>2
  <2> QED BY <2>2, <2>4, <2>5, <2>6 DEF RunInv
<1>5. ASSUME NEW i \in Scripts, RunScript(i) PROVE RunInv'
  <2> DEFINE o == IF Passes(i) THEN Done(i) ELSE Refused(i)
  <2>1. run.phase = "chain" /\ run.step = i /\ Executed(i, o)
    BY <1>5 DEF RunScript
  <2>2. IsLeft(i, o) /\ (o.code = 0 => o = Done(i) /\ Passes(i))
    BY <1>1, LeftByAScript
  <2> HIDE DEF o
  <2> QED BY <2>1, <2>2, ScriptExecuted
<1>6. ASSUME NEW i \in Scripts, ScriptFails(i) PROVE RunInv'
  <2>1. run.phase = "chain" /\ run.step = i /\ \E o \in CutShort(i) : Executed(i, o)
    BY <1>6 DEF ScriptFails
  <2>2. PICK o \in CutShort(i) : Executed(i, o)
    BY <2>1
  <2>3. IsLeft(i, o) /\ o.code # 0
    BY <1>1, LeftByAScript
  <2> QED BY <2>1, <2>2, <2>3, ScriptExecuted
<1>7. ASSUME NEW i \in Scripts, Interrupt(i) PROVE RunInv'
  <2>1. /\ run.phase = "chain" /\ run' = Ended(run, 1)
        /\ \E o \in CutShort(i) \cup {Done(i)} : disk' = o.disk
    BY <1>7 DEF Interrupt
  <2>2. DOMAIN disk' = Outputs
    BY <1>1, <2>1, LeftByAScript DEF IsLeft
  <2>3. DOMAIN run' = RunFields /\ run'.phase = "ended" /\ Silent'
    BY <1>1, <2>1 DEF Ended, RunFields, RunInv, Silent
  <2> QED BY <2>2, <2>3 DEF RunInv
<1>8. CASE WriteReport
  <2>1. /\ run.phase = "report" /\ UNCHANGED <<disk, folder>>
        /\ run' = Ended([run EXCEPT !.report = Status(run)], IF run.errors = 0 THEN 0 ELSE 1)
    BY <1>8 DEF WriteReport
  <2>2. Followed /\ (\/ run.step = 13 /\ run.errors = 0
                     \/ run.step # 13 /\ run.errors = 1)
    BY <2>1 DEF RunInv
  <2>3. /\ DOMAIN run' = RunFields /\ run'.phase = "ended" /\ run'.n = run.n
        /\ run'.step = run.step /\ run'.executed = run.executed /\ run'.created = run.created
        /\ run'.report = Status(run) /\ run'.code = IF run.errors = 0 THEN 0 ELSE 1
    BY <1>1, <2>1 DEF Ended, RunFields
  <2>4. Followed'
    BY <2>1, <2>2, <2>3 DEF Followed, HasLeft, OfThisRun
  <2>5. Status(run) = "SUCCES COMPLET" <=> run.step = 13
    BY <2>2, ThirteenScripts DEF Status, Followed
  <2> QED BY <1>1, <2>1, <2>2, <2>3, <2>4, <2>5 DEF RunInv
<1>9. CASE ReportFails
  <2>1. /\ run.phase = "report" /\ UNCHANGED disk /\ run' = Ended(run, 1)
    BY <1>9 DEF ReportFails
  <2>2. DOMAIN run' = RunFields /\ run'.phase = "ended" /\ Silent'
    BY <1>1, <2>1 DEF Ended, RunFields, RunInv, Silent
  <2> QED BY <1>1, <2>1, <2>2 DEF RunInv
<1>10. ASSUME Withdraw \/ (\E t \in Tables : Deposit(t)) \/ (\E g \in Galleries : ChangeImages(g))
       PROVE  UNCHANGED <<disk, folder, run>>
  BY <1>10 DEF Withdraw, Deposit, ChangeImages
<1>11. UNCHANGED vars => UNCHANGED <<disk, folder, run>>
  BY DEF vars
<1> QED BY <1>2, <1>3, <1>4, <1>5, <1>6, <1>7, <1>8, <1>9, <1>10, <1>11 DEF Next

\* The report of a run lists files that are there, whole and of this run, and
\* its status, its list and the exit code agree (sircom_master_script.py),
\* whatever was cut short, failed or interrupted in the run or left by others.
THEOREM ReportsTellTheirRun == Spec => []ReportTellsTheRun
<1>1. RunInv => ReportTellsTheRun
  <2>1. SUFFICES ASSUME RunInv, run.report # ""
                 PROVE  /\ \A i \in run.created : HasLeft(i)
                        /\ run.report = "SUCCES COMPLET" <=> run.created = Scripts
                        /\ run.report = "SUCCES COMPLET" <=> run.code = 0
    BY DEF ReportTellsTheRun, HasLeft
  <2>0. ~Silent
    BY <2>1 DEF Silent
  <2>2. /\ Followed
        /\ run.report = "SUCCES COMPLET" <=> run.step = 13
        /\ run.code = IF run.step = 13 THEN 0 ELSE 1
    BY <2>0, <2>1 DEF RunInv
  <2>3. run.created = Scripts <=> run.step = 13
    <3>1. run.created = {i \in Scripts : i < run.step} /\ run.step \in 0 .. 13
      BY <2>2 DEF Followed
    <3>2. 12 \in Scripts /\ \A i \in Scripts : i < 13
      BY DEF Scripts
    <3> QED BY <3>1, <3>2
  <2>4. \A i \in run.created : HasLeft(i)
    BY <2>2 DEF Followed
  <2>5. run.report = "SUCCES COMPLET" <=> run.code = 0
    <3>1. CASE run.step = 13
      BY <2>2, <3>1
    <3>2. CASE run.step # 13
      <4>1. run.code = 1
        BY <2>2, <3>2
      <4>2. run.code # 0
        BY <4>1
      <4> QED BY <2>2, <3>2, <4>2, Zenon
    <3> QED BY <3>1, <3>2
  <2> QED BY <2>2, <2>3, <2>4, <2>5
<1>2. ChainInit => RunInv
  BY RunInvInit
<1>3. RunInv /\ [Next]_vars => RunInv'
  BY RunInvStep
<1> QED BY <1>1, <1>2, <1>3, PTL DEF Spec


-----------------------------------------------------------------------------
(***************************************************************************)
(* The files of a run.  Below the step of the run, each file is what its   *)
(* script makes of the files it reads, as they are now.                    *)
(***************************************************************************)
FileOf(s) == [heads |-> s.heads, rows |-> s.rows, run |-> run.n, whole |-> TRUE]

IsLinked(i) == IF i = 0 THEN \E t \in Tables : disk[0] = FileOf(FillEmpty(t))
               ELSE Passes(i) /\ disk[i] = Made(i)

Numbers == /\ run.n \in Nat /\ run.step \in 0 .. 13 /\ table \in Tables \cup {None}
           /\ run.phase = "ended" /\ run.code = 0 => run.step = 13

\* the files of the chain, and what the verification has found in the CSV
Linked == /\ \A i \in Outputs : i < run.step => IsLinked(i)
          /\ run.step = 13 => 0 \notin {IdColumn(disk[Csv]), ImageColumn(disk[Csv])}

\* the images of the run are those its rows ask for, and once script 10 is
\* done all of them
Serves(asked) ==
    /\ \A f \in folder : /\ f.run \in Nat /\ f.run <= run.n
                         /\ f.run = run.n => /\ run.step >= ImageScript
                                             /\ \E m \in asked : m.name = f.name /\ m.photo = f.photo
    /\ run.step > ImageScript =>
          /\ asked # {}
          /\ \A m \in asked : \E f \in folder : f.name = m.name /\ f.photo = m.photo /\ f.run = run.n

Served == Serves(Pictured(disk[Pathed]))

ChainInv == RunInv /\ Numbers /\ Linked /\ Served

\* A script makes the same of the same files.
LEMMA SameMade ==
  ASSUME NEW i \in Outputs \ {0}, \A j \in Outputs : j < i => disk'[j] = disk[j],
         run'.n = run.n, run'.path = run.path
  PROVE  (Passes(i)' <=> Passes(i)) /\ Made(i)' = Made(i)
<1> DEFINE below == {j \in Outputs : j < i}
<1>1. Sources(i) \subseteq below
  BY DEF Sources, Outputs, Scripts, ImageScript, CheckScript, MappingFile, Csv, Pathed
<1>2. \A j \in below : disk'[j] = disk[j]
  OBVIOUS
<1>3. Readable(i)' <=> Readable(i)
  BY <1>1, <1>2 DEF Readable, Sources
<1>4. i \in {1, 2, 3, 4, 5, 6, 7, 8, 9, 11}
  BY DEF Outputs, Scripts, ImageScript, CheckScript
<1>5. Accepts(i)' <=> Accepts(i)
  BY <1>2, <1>4 DEF Accepts, Outputs, Scripts, ImageScript, CheckScript
<1>6. SheetMade(i)' = SheetMade(i)
  <2>1. CASE i \in {1, 2, 3, 4, 5, 6}
    BY <1>2, <2>1 DEF SheetMade, Outputs, Scripts, ImageScript, CheckScript
  <2>2. CASE i \in {7, 8, 9}
    BY <1>2, <2>2 DEF SheetMade, Outputs, Scripts, ImageScript, CheckScript
  <2>3. CASE i = 11
    BY <1>2, <2>3 DEF SheetMade, Outputs, Scripts, ImageScript, CheckScript, Csv
  <2> QED BY <1>4, <2>1, <2>2, <2>3
<1>7. Made(i)' = Made(i)
  BY <1>6 DEF Made
<1> QED BY <1>3, <1>5, <1>7 DEF Passes

\* A script makes a file of the run, from the files it reads.
LEMMA MadeIsLinked ==
  ASSUME NEW i \in Outputs, DOMAIN disk = Outputs, Passes(i), table \in Tables \cup {None},
         disk' = Done(i).disk, run'.n = run.n, run'.path = run.path
  PROVE  IsLinked(i)'
<1>1. disk' = [disk EXCEPT ![i] = Made(i)]
  BY DEF Done, Left
<1>2. disk'[i] = Made(i) /\ \A j \in Outputs : j < i => disk'[j] = disk[j]
  BY <1>1 DEF Outputs, Scripts
<1>3. CASE i = 0
  <2>1. table \in Tables
    <3>1. table # None
      BY <1>3 DEF Passes, Accepts, ImageScript, CheckScript
    <3> QED BY <3>1
  <2>2. Made(0) = FileOf(FillEmpty(table))
    BY DEF Made, SheetMade, FileOf, ImageScript, CheckScript, MappingFile
  <2>3. \E t \in Tables : disk'[0] = [heads |-> FillEmpty(t).heads, rows |-> FillEmpty(t).rows,
                                     run |-> run'.n, whole |-> TRUE]
    BY <1>2, <1>3, <2>1, <2>2 DEF FileOf
  <2> QED BY <1>3, <2>3 DEF IsLinked, FileOf
<1>4. CASE i # 0
  <2>1. Passes(i)' /\ Made(i)' = Made(i)
    BY <1>2, <1>4, SameMade
  <2> QED BY <1>2, <1>4, <2>1 DEF IsLinked
<1> QED BY <1>3, <1>4

\* A file stays linked while the run goes on and the files it was made of stay.
LEMMA StillLinked ==
  ASSUME NEW i \in Outputs, IsLinked(i), \A j \in Outputs : j <= i => disk'[j] = disk[j],
         run'.n = run.n, run'.path = run.path
  PROVE  IsLinked(i)'
<1>1. disk'[i] = disk[i] /\ \A j \in Outputs : j < i => disk'[j] = disk[j]
  BY DEF Outputs, Scripts
<1>2. CASE i = 0
  BY <1>1, <1>2 DEF IsLinked, FileOf
<1>3. CASE i # 0
  <2>1. (Passes(i)' <=> Passes(i)) /\ Made(i)' = Made(i)
    BY <1>1, <1>3, SameMade
  <2> QED BY <1>1, <1>3, <2>1 DEF IsLinked
<1> QED BY <1>2, <1>3

\* However script 10 ends, it puts images its rows ask for in the folder.
ImagesLeft(i, o) ==
    o.folder = folder \/ \E images \in SUBSET Processed(disk[Pathed]) : i = ImageScript /\ o.folder = Onto(images)

\* It does so whether it is done, refused or cut short.
LEMMA LeftInTheFolder ==
  ASSUME NEW i \in Scripts
  PROVE  ImagesLeft(i, Done(i)) /\ ImagesLeft(i, Refused(i)) /\ \A o \in CutShort(i) : ImagesLeft(i, o)
<1>1. \A c, d, f : Left(c, d, f).folder = f
  BY DEF Left
<1>2. ImagesLeft(i, Done(i)) /\ ImagesLeft(i, Refused(i))
  BY <1>1 DEF ImagesLeft, Done, Refused
<1>3. ASSUME NEW o \in CutShort(i) PROVE ImagesLeft(i, o)
  <2> DEFINE A == {Left(1, disk, folder)}
             B == IF i \in Outputs /\ Passes(i)
                  THEN {Left(1, [disk EXCEPT ![i] = [Made(i) EXCEPT !.whole = w]], folder) : w \in BOOLEAN}
                  ELSE {}
             C == IF i = ImageScript /\ Readable(i)
                  THEN {Left(1, disk, Onto(images)) : images \in SUBSET Processed(disk[Pathed])}
                  ELSE {}
  <2>1. o \in A \/ o \in B \/ o \in C
    BY DEF CutShort
  <2>2. o \in A \/ o \in B => o.folder = folder
    <3>1. o \in A \/ o \in B => \E d : o = Left(1, d, folder)
      OBVIOUS
    <3> HIDE DEF A, B
    <3> QED BY <1>1, <3>1
  <2>3. o \in C => \E images \in SUBSET Processed(disk[Pathed]) :
                        i = ImageScript /\ o.folder = Onto(images)
    BY <1>1
  <2> QED BY <2>1, <2>2, <2>3 DEF ImagesLeft
<1> QED BY <1>2, <1>3

\* If there are as many images as rows ask for, each row has its own.
LEMMA EachIsProcessed ==
  ASSUME NEW s, EveryImage(s), IsFiniteSet(Pictured(s))
  PROVE  /\ Pictured(s) # {}
         /\ \A m \in Pictured(s) : \E f \in Processed(s) :
               f.name = m.name /\ f.photo = m.photo /\ f.run = run.n
<1> DEFINE P == Processed(s)
           A == Pictured(s)
           g == [f \in P |-> [name |-> f.name, photo |-> f.photo]]
<1>1. \A m \in A : m = [name |-> m.name, photo |-> m.photo]
  BY DEF Pictured
<1>2. ASSUME NEW f \in P
      PROVE  f = [name |-> f.name, photo |-> f.photo, run |-> run.n] /\ g[f] \in A
             /\ f.run = run.n
  <2>1. PICK m \in A : f = [name |-> m.name, photo |-> m.photo, run |-> run.n]
    BY DEF Processed
  <2>2. f.name = m.name /\ f.photo = m.photo /\ f.run = run.n
    BY <2>1
  <2> QED BY <1>1, <2>1, <2>2
<1>3. g \in Injection(P, A)
  <2>1. g \in [P -> A]
    BY <1>2
  <2>2. ASSUME NEW e \in P, NEW f \in P, g[e] = g[f] PROVE e = f
    <3>1. e.name = g[e].name /\ e.photo = g[e].photo /\ f.name = g[f].name /\ f.photo = g[f].photo
      OBVIOUS
    <3> QED BY <1>2, <2>2, <3>1
  <2> QED BY <2>1, <2>2 DEF Injection, IsInjective
<1>4. P # {} /\ Cardinality(P) = Cardinality(A)
  BY DEF EveryImage
<1>5. g \in Surjection(P, A)
  <2> HIDE DEF g, P, A
  <2>1. IsFiniteSet(A)
    BY DEF A
  <2> QED BY <1>3, <1>4, <2>1, FS_Injection
<1>6. ASSUME NEW m \in A PROVE \E f \in P : f.name = m.name /\ f.photo = m.photo /\ f.run = run.n
  <2>1. PICK f \in P : g[f] = m
    BY <1>5 DEF Surjection
  <2>2. f.name = m.name /\ f.photo = m.photo
    BY <2>1
  <2>3. f.run = run.n
    BY <1>2
  <2> QED BY <2>2, <2>3
<1>7. A # {}
  BY <1>2, <1>4
<1> QED BY <1>6, <1>7

\* What holds of the files and the images goes on to hold after a script.
LEMMA ScriptKeeps ==
  ASSUME ChainInv, NEW i \in Scripts, run.step = i, NEW o, IsLeft(i, o), ImagesLeft(i, o),
         disk' = o.disk, folder' = o.folder, table' = table,
         run'.n = run.n, run'.path = run.path,
         run'.step = i \/ (run'.step = i + 1 /\ o = Done(i) /\ Passes(i)),
         run'.phase = "ended" => run'.code # 0,
         i = ImageScript => IsFiniteSet(Pictured(disk[Pathed]))
  PROVE  Numbers' /\ Linked' /\ Served'
<1> DEFINE asked == Pictured(disk[Pathed])
<1>1. /\ DOMAIN disk = Outputs /\ Numbers /\ Linked /\ Serves(asked)
      /\ \A j \in Outputs \ {i} : disk'[j] = disk[j]
  BY DEF ChainInv, RunInv, IsLeft, Served
<1>2. i \in 0 .. 12 /\ run'.step \in {i, i + 1} /\ run.n \in Nat
  BY <1>1 DEF Scripts, Numbers
<1>3. Numbers'
  BY <1>1, <1>2 DEF Numbers
<1>4. ASSUME NEW j \in Outputs, j < run'.step PROVE IsLinked(j)'
  <2>1. CASE j # i
    <3>1. j < i /\ \A l \in Outputs : l <= j => l # i
      BY <1>2, <1>4, <2>1 DEF Outputs, Scripts
    <3>2. IsLinked(j) /\ \A l \in Outputs : l <= j => disk'[l] = disk[l]
      BY <1>1, <3>1 DEF Linked
    <3> QED BY <3>2, StillLinked
  <2>2. CASE j = i
    <3>1. o = Done(i) /\ Passes(i)
      BY <1>2, <1>4, <2>2
    <3>2. table \in Tables \cup {None}
      BY <1>1 DEF Numbers
    <3> QED BY <1>1, <2>2, <3>1, <3>2, MadeIsLinked
  <2> QED BY <2>1, <2>2
<1>5. ASSUME run'.step = 13 PROVE 0 \notin {IdColumn(disk[Csv]), ImageColumn(disk[Csv])}'
  <2>1. i = CheckScript /\ Passes(i)
    BY <1>2, <1>5 DEF CheckScript
  <2>2. Verified(disk[Csv])
    BY <2>1 DEF Passes, Accepts, CheckScript, ImageScript
  <2>3. disk'[Csv] = disk[Csv]
    BY <1>1, <2>1 DEF Csv, CheckScript, ImageScript, Outputs, Scripts
  <2>4. 0 \notin {IdColumn(disk[Csv]), ImageColumn(disk[Csv])}
    BY <2>2 DEF Verified
  <2> QED BY <2>3, <2>4
<1>6. Linked'
  BY <1>4, <1>5 DEF Linked
<1>7. CASE i < ImageScript
  <2>1. folder' = folder /\ run'.step <= ImageScript /\ ~(run.step >= ImageScript)
    BY <1>2, <1>7 DEF IsLeft, ImageScript
  <2>2. \A f \in folder : f.run \in Nat /\ f.run <= run.n /\ f.run # run.n
    <3> HIDE DEF asked
    <3>1. ASSUME NEW f \in folder PROVE f.run \in Nat /\ f.run <= run.n /\ (f.run = run.n => run.step >= ImageScript)
      BY <1>1 DEF Serves
    <3> QED BY <2>1, <3>1
  <2>3. ~(run'.step > ImageScript)
    BY <1>2, <2>1 DEF ImageScript
  <2>4. \A x : Serves(x)'
    BY <2>1, <2>2, <2>3 DEF Serves
  <2> QED BY <1>3, <1>6, <2>4 DEF Served
<1>8. CASE ~(i < ImageScript)
  <2>1. asked' = asked
    BY <1>1, <1>2, <1>8 DEF Pathed, ImageScript, Outputs, Scripts, CheckScript
  <2>2. \A f \in folder : /\ f.run \in Nat /\ f.run <= run.n
                          /\ f.run = run.n => \E m \in asked : m.name = f.name /\ m.photo = f.photo
    BY <1>1 DEF Serves
  <2>3. run'.step >= ImageScript
    BY <1>2, <1>8 DEF ImageScript
  <2>4. ASSUME NEW f \in Processed(disk[Pathed])
        PROVE  f.run = run.n /\ \E m \in asked : m.name = f.name /\ m.photo = f.photo
    <3>1. PICK m \in asked : f = [name |-> m.name, photo |-> m.photo, run |-> run.n]
      BY DEF Processed
    <3> QED BY <3>1
  <2>5. \A f \in folder' : f \in folder \/ f \in Processed(disk[Pathed])
    BY DEF ImagesLeft, Onto
  <2>6. \A f \in folder' : /\ f.run \in Nat /\ f.run <= run.n
                           /\ f.run = run.n => \E m \in asked : m.name = f.name /\ m.photo = f.photo
    BY <1>2, <2>2, <2>4, <2>5
  <2>7. ASSUME run'.step > ImageScript
        PROVE  asked # {} /\ \A m \in asked : \E f \in folder' : f.name = m.name /\ f.photo = m.photo /\ f.run = run.n
    <3>1. CASE i = ImageScript
      <4>1. o = Done(i) /\ EveryImage(disk[Pathed])
        BY <1>2, <2>7, <3>1 DEF Passes, Accepts, CheckScript, ImageScript
      <4>2. folder' = Onto(Processed(disk[Pathed]))
        BY <3>1, <4>1 DEF Done, Left
      <4>3. Processed(disk[Pathed]) \subseteq folder'
        BY <4>2 DEF Onto
      <4> QED BY <3>1, <4>1, <4>3, EachIsProcessed
    <3>2. CASE i # ImageScript
      <4>1. folder' = folder /\ run.step > ImageScript
        BY <1>2, <1>8, <3>2 DEF IsLeft, ImageScript
      <4> QED BY <1>1, <4>1 DEF Serves
    <3> QED BY <3>1, <3>2
  <2> HIDE DEF asked
  <2>8. Serves(asked)'
    BY <2>1, <2>3, <2>6, <2>7 DEF Serves
  <2> QED BY <1>3, <1>6, <2>8 DEF Served, asked
<1> QED BY <1>7, <1>8

-----------------------------------------------------------------------------
(***************************************************************************)
(* The sheets of a run, from the table script 0 has read.                  *)
(***************************************************************************)

\* A stretch of a sequence.
LEMMA Stretch ==
  ASSUME NEW S, NEW n \in Nat, NEW f, \A c \in 1 .. n : f[c] \in S,
         NEW i \in Int, NEW j \in Int, i \in 1 .. n + 1, j \in 0 .. n, i <= j + 1
  PROVE  /\ SubSeq(f, i, j) \in Seq(S) /\ Len(SubSeq(f, i, j)) = j - i + 1
         /\ \A c \in 1 .. j - i + 1 : SubSeq(f, i, j)[c] = f[i + c - 1]
<1>1. \A c \in i .. j : f[c] \in S
  OBVIOUS
<1>2. SubSeq(f, i, j) \in Seq(S)
  BY <1>1, SubSeqProperties
<1>3. Len(SubSeq(f, i, j)) = j - i + 1
  <2>1. Len(SubSeq(f, i, j)) = IF i <= j THEN j - i + 1 ELSE 0
    BY <1>1, SubSeqProperties
  <2> QED BY <2>1
<1>4. \A c \in 1 .. j - i + 1 : SubSeq(f, i, j)[c] = f[i + c - 1]
  BY <1>1, SubSeqProperties
<1> QED BY <1>2, <1>3, <1>4

\* What is before a place, and from it on.
LEMMA CutInTwo ==
  ASSUME NEW S, NEW n \in Nat, NEW f \in [1 .. n -> S], NEW i \in 1 .. n + 1
  PROVE  /\ SubSeq(f, 1, i - 1) \in Seq(S) /\ Len(SubSeq(f, 1, i - 1)) = i - 1
         /\ \A c \in 1 .. i - 1 : SubSeq(f, 1, i - 1)[c] = f[c]
         /\ SubSeq(f, i, n) \in Seq(S) /\ Len(SubSeq(f, i, n)) = n - i + 1
         /\ \A c \in 1 .. n - i + 1 : SubSeq(f, i, n)[c] = f[i + c - 1]
<1>1. \A c \in 1 .. n : f[c] \in S
  OBVIOUS
<1>2. 1 \in Int /\ 1 \in 1 .. n + 1 /\ i - 1 \in Int /\ i - 1 \in 0 .. n /\ 1 <= i - 1 + 1
      /\ i \in Int /\ n \in Int /\ n \in 0 .. n /\ i <= n + 1 /\ i - 1 - 1 + 1 = i - 1
  OBVIOUS
<1>3. /\ SubSeq(f, 1, i - 1) \in Seq(S) /\ Len(SubSeq(f, 1, i - 1)) = i - 1 - 1 + 1
      /\ \A c \in 1 .. i - 1 - 1 + 1 : SubSeq(f, 1, i - 1)[c] = f[1 + c - 1]
  BY <1>1, <1>2, Stretch
<1>4. /\ SubSeq(f, i, n) \in Seq(S) /\ Len(SubSeq(f, i, n)) = n - i + 1
      /\ \A c \in 1 .. n - i + 1 : SubSeq(f, i, n)[c] = f[i + c - 1]
  BY <1>1, <1>2, Stretch
<1>5. \A c \in 1 .. i - 1 : c \in 1 .. i - 1 - 1 + 1 /\ 1 + c - 1 = c
  OBVIOUS
<1>6. Len(SubSeq(f, 1, i - 1)) = i - 1
  BY <1>2, <1>3, Zenon
<1>7. \A c \in 1 .. i - 1 : SubSeq(f, 1, i - 1)[c] = f[c]
  BY <1>3, <1>5, Zenon
<1> QED BY <1>3, <1>4, <1>6, <1>7, Zenon

\* A sequence with an item more.
With(f, n, i, e) == [c \in 1 .. n + 1 |-> IF c < i THEN f[c] ELSE IF c = i THEN e ELSE f[c - 1]]

\* An item is inserted at its place, and those after it move on.
LEMMA Inserted ==
  ASSUME NEW T, NEW n \in Nat, NEW f \in [1 .. n -> T], NEW i \in 1 .. n + 1, NEW e
  PROVE  InsertAt(f, i, e) = With(f, n, i, e)
<1> DEFINE S == T \cup {e}
           a == SubSeq(f, 1, i - 1)
           b == SubSeq(f, i, n)
<1>0. f \in [1 .. n -> S] /\ e \in S
  OBVIOUS
<1> HIDE DEF S
<1>1. f \in Seq(S) /\ Len(f) = n
  BY <1>0, SeqDef, LenProperties
<1>3. /\ a \in Seq(S) /\ Len(a) = i - 1 /\ \A c \in 1 .. i - 1 : a[c] = f[c]
  BY <1>0, CutInTwo
<1>4. /\ b \in Seq(S) /\ Len(b) = n - i + 1 /\ \A c \in 1 .. n - i + 1 : b[c] = f[i + c - 1]
  BY <1>0, CutInTwo
<1>5. <<e>> \in Seq(S) /\ Len(<<e>>) = 1 /\ <<e>>[1] = e
  BY <1>0
<1>6. InsertAt(f, i, e) = (a \o <<e>>) \o b
  BY <1>1 DEF InsertAt
<1> DEFINE d == a \o <<e>>
           u == <<e>>
<1> HIDE DEF a, b, u
<1>7. d = a \o u
  BY DEF u
<1>8. /\ d \in Seq(S) /\ Len(d) = i
      /\ \A c \in 1 .. i : d[c] = IF c < i THEN f[c] ELSE e
  <2>1. u \in Seq(S) /\ Len(u) = 1 /\ u[1] = e
    BY <1>5 DEF u
  <2>2. /\ a \o u \in Seq(S) /\ Len(a \o u) = Len(a) + Len(u)
        /\ \A c \in 1 .. Len(a) + Len(u) : (a \o u)[c] = IF c <= Len(a) THEN a[c] ELSE u[c - Len(a)]
    BY <1>3, <2>1, ConcatProperties
  <2> HIDE DEF d
  <2>3. d \in Seq(S) /\ Len(d) = i /\ \A c \in 1 .. i : d[c] = IF c <= i - 1 THEN a[c] ELSE u[c - (i - 1)]
    BY <1>3, <1>7, <2>1, <2>2
  <2>4. ASSUME NEW c \in 1 .. i PROVE d[c] = IF c < i THEN f[c] ELSE e
    <3>1. CASE c < i
      <4>1. c \in 1 .. i - 1 /\ c <= i - 1
        BY <3>1
      <4>2. d[c] = a[c] /\ a[c] = f[c]
        BY <1>3, <2>3, <4>1
      <4> QED BY <3>1, <4>2
    <3>2. CASE c = i
      <4>1. ~(c <= i - 1) /\ c - (i - 1) = 1
        BY <3>2
      <4> QED BY <2>1, <2>3, <3>2, <4>1
    <3> QED BY <3>1, <3>2
  <2> QED BY <2>3, <2>4
<1> HIDE DEF d
<1>9. /\ d \o b \in Seq(S) /\ Len(d \o b) = n + 1
      /\ \A c \in 1 .. n + 1 : (d \o b)[c] = IF c <= i THEN d[c] ELSE b[c - i]
  <2>1. /\ d \o b \in Seq(S) /\ Len(d \o b) = Len(d) + Len(b)
        /\ \A c \in 1 .. Len(d) + Len(b) : (d \o b)[c] = IF c <= Len(d) THEN d[c] ELSE b[c - Len(d)]
    BY <1>4, <1>8, ConcatProperties
  <2>2. Len(d) = i /\ Len(d) + Len(b) = n + 1
    BY <1>4, <1>8
  <2> QED BY <2>1, <2>2
<1>10. d \o b = [c \in 1 .. n + 1 |-> (d \o b)[c]]
  <2>1. d \o b \in [1 .. n + 1 -> S]
    BY <1>9, LenProperties
  <2> QED BY <2>1
<1>11. ASSUME NEW c \in 1 .. n + 1
       PROVE  (d \o b)[c] = IF c < i THEN f[c] ELSE IF c = i THEN e ELSE f[c - 1]
  <2>1. CASE c <= i
    <3>1. c \in 1 .. i
      BY <2>1
    <3>2. (d \o b)[c] = d[c] /\ d[c] = IF c < i THEN f[c] ELSE e
      BY <1>8, <1>9, <2>1, <3>1
    <3> QED BY <2>1, <3>1, <3>2
  <2>2. CASE ~(c <= i)
    <3>1. c - i \in 1 .. n - i + 1 /\ i + (c - i) - 1 = c - 1 /\ ~(c < i) /\ c # i
      BY <2>2
    <3>2. b[c - i] = f[i + (c - i) - 1]
      BY <1>4, <3>1
    <3> QED BY <1>9, <2>2, <3>1, <3>2
  <2> QED BY <2>1, <2>2
<1>12. (d \o b) = [c \in 1 .. n + 1 |-> IF c < i THEN f[c] ELSE IF c = i THEN e ELSE f[c - 1]]
  BY <1>10, <1>11, Zenon
<1> QED BY <1>6, <1>12 DEF d, With

\* What a script made.
LEMMA FileMade ==
  ASSUME NEW i \in Outputs \ {0}, IsLinked(i)
  PROVE  Passes(i) /\ disk[i].heads = SheetMade(i).heads /\ disk[i].rows = SheetMade(i).rows
BY DEF IsLinked, Made

Wide(t) == Len(t.heads)

\* the cells as script 0 leaves them
Filled(t, r, c) == IF t.rows[r][c] = Blank THEN NA ELSE t.rows[r][c]

\* A table is a rectangle.
LEMMA ShapeOfTable ==
  ASSUME NEW t \in Tables
  PROVE  /\ Wide(t) \in Nat /\ DOMAIN t.heads = 1 .. Wide(t)
         /\ \A c \in 1 .. Wide(t) : t.heads[c] = [letter |-> 0, name |-> t.heads[c].name]
         /\ t.heads = [c \in 1 .. Wide(t) |-> t.heads[c]]
         /\ Len(t.rows) \in Nat /\ DOMAIN t.rows = 1 .. Len(t.rows)
         /\ \A r \in DOMAIN t.rows : DOMAIN t.rows[r] = 1 .. Wide(t)
<1> DEFINE H == [letter : {0}, name : DOMAIN HeadName]
<1>1. t.heads \in Seq(H) /\ t.rows \in Seq(Range(t.rows))
      /\ \A k \in DOMAIN t.rows : DOMAIN t.rows[k] = DOMAIN t.heads
  BY TableAssumption
<1>2. \A h \in H : h = [letter |-> 0, name |-> h.name]
  OBVIOUS
<1> HIDE DEF H
<1>3. Len(t.heads) \in Nat /\ t.heads \in [1 .. Len(t.heads) -> H]
  BY <1>1, LenProperties
<1>4. Len(t.rows) \in Nat /\ DOMAIN t.rows = 1 .. Len(t.rows)
  BY <1>1, LenProperties
<1> QED BY <1>1, <1>2, <1>3, <1>4 DEF Wide

\* Script 0 fills the cells of some table.
LEMMA Stage0 ==
  ASSUME IsLinked(0)
  PROVE  \E t \in Tables : /\ disk[0].heads = t.heads
                          /\ disk[0].rows = [r \in DOMAIN t.rows |-> [c \in 1 .. Wide(t) |-> Filled(t, r, c)]]
<1>1. PICK t \in Tables : disk[0] = FileOf(FillEmpty(t))
  BY DEF IsLinked
<1>2. disk[0].heads = FillEmpty(t).heads /\ disk[0].rows = FillEmpty(t).rows
  BY <1>1 DEF FileOf
<1>3. DOMAIN t = {"heads", "rows"}
  BY TableAssumption
<1>4. /\ FillEmpty(t).heads = t.heads
      /\ FillEmpty(t).rows = [r \in DOMAIN t.rows |->
            [c \in DOMAIN t.rows[r] |-> IF t.rows[r][c] = Blank THEN NA ELSE t.rows[r][c]]]
  BY <1>3 DEF FillEmpty, WithRows
<1>5. \A r \in DOMAIN t.rows : DOMAIN t.rows[r] = 1 .. Wide(t)
  BY ShapeOfTable
<1>6. FillEmpty(t).rows = [r \in DOMAIN t.rows |-> [c \in 1 .. Wide(t) |-> Filled(t, r, c)]]
  BY <1>4, <1>5 DEF Filled
<1> QED BY <1>2, <1>4, <1>6

\* Script 1 gives its columns their letters.
LEMMA Stage1 ==
  ASSUME NEW t \in Tables, disk[0].heads = t.heads, IsLinked(1)
  PROVE  /\ disk[1].heads = [c \in 1 .. Wide(t) |-> [letter |-> c, name |-> t.heads[c].name]]
         /\ disk[1].rows = disk[0].rows
<1>1. disk[1].heads = LetterHeaders(disk[0]).heads /\ disk[1].rows = LetterHeaders(disk[0]).rows
  BY FileMade DEF SheetMade, Outputs, Scripts, ImageScript, CheckScript
<1>2. /\ LetterHeaders(disk[0]).heads = [c \in DOMAIN disk[0].heads |-> [letter |-> c, name |-> disk[0].heads[c].name]]
      /\ LetterHeaders(disk[0]).rows = disk[0].rows
  BY DEF LetterHeaders
<1> QED BY <1>1, <1>2, ShapeOfTable

\* the image of a row, in the files 2 to 6
Image(t, r) == IF Filled(t, r, IdLetter) = NA THEN Blank ELSE RawImage[Filled(t, r, IdLetter)]

\* the column of the table behind a column of these files
Source2(c) == IF c <= IdLetter THEN c ELSE c - 1
Head2(t, c) == IF c = IdLetter + 1 THEN [letter |-> 0, name |-> "image-id"]
               ELSE [letter |-> Source2(c), name |-> t.heads[Source2(c)].name]
Cell2(t, r, c) == IF c = IdLetter + 1 THEN Image(t, r) ELSE Filled(t, r, Source2(c))

\* Script 2 adds the column of the images after that of the identifiers.
LEMMA Stage2 ==
  ASSUME NEW t \in Tables,
         disk[1].heads = [c \in 1 .. Wide(t) |-> [letter |-> c, name |-> t.heads[c].name]],
         disk[1].rows = [r \in DOMAIN t.rows |-> [c \in 1 .. Wide(t) |-> Filled(t, r, c)]],
         IsLinked(2)
  PROVE  /\ IdLetter \in 1 .. Wide(t) /\ t.heads[IdLetter].name \in {"ID", HeadName["ID"]}
         /\ disk[2].heads = [c \in 1 .. Wide(t) + 1 |-> Head2(t, c)]
         /\ disk[2].rows = [r \in 1 .. Len(t.rows) |-> [c \in 1 .. Wide(t) + 1 |-> Cell2(t, r, c)]]
<1> DEFINE s == disk[1]
           n == Wide(t)
           H == [letter : Nat, name : DOMAIN HeadName]
<1>0. /\ n \in Nat /\ DOMAIN t.rows = 1 .. Len(t.rows)
      /\ \A c \in 1 .. n : t.heads[c].name \in DOMAIN HeadName
  <2>1. t.heads \in Seq([letter : {0}, name : DOMAIN HeadName])
    BY TableAssumption
  <2>2. t.heads \in [1 .. n -> [letter : {0}, name : DOMAIN HeadName]]
    BY <2>1, LenProperties DEF Wide
  <2> QED BY <2>2, ShapeOfTable
<1>1. /\ IdColumn(s) # 0
      /\ disk[2].heads = AddImageIds(s).heads /\ disk[2].rows = AddImageIds(s).rows
  <2>1. 2 \in Outputs \ {0}
    BY DEF Outputs, Scripts, ImageScript, CheckScript
  <2>2. SheetMade(2) = AddImageIds(s)
    BY DEF SheetMade
  <2>3. Passes(2) /\ disk[2].heads = AddImageIds(s).heads /\ disk[2].rows = AddImageIds(s).rows
    BY <2>1, <2>2, FileMade
  <2> QED BY <2>3 DEF Passes, Accepts, ImageScript, CheckScript
<1>2. /\ IdColumn(s) = IdLetter /\ IdLetter \in 1 .. n
      /\ t.heads[IdLetter].name \in {"ID", HeadName["ID"]}
  <2> DEFINE cs == {c \in DOMAIN s.heads : /\ s.heads[c].name \in {"ID", HeadName["ID"]}
                                           /\ s.heads[c].letter \in {IdLetter}}
  <2>1. IdColumn(s) = IF cs = {} THEN 0 ELSE CHOOSE c \in cs : \A d \in cs : c <= d
    BY DEF IdColumn, Column
  <2>2. \A c \in cs : c = IdLetter /\ c \in 1 .. n /\ t.heads[c].name \in {"ID", HeadName["ID"]}
    OBVIOUS
  <2>3. cs # {}
    BY <1>1, <2>1
  <2> HIDE DEF cs
  <2>4. cs = {IdLetter} /\ IdLetter \in Nat
    BY <1>0, <2>2, <2>3
  <2>5. IdColumn(s) = IdLetter
    BY <2>1, <2>4
  <2> QED BY <2>2, <2>4, <2>5
<1>3. InsertAt(s.heads, IdLetter + 1, [letter |-> 0, name |-> "image-id"])
        = [c \in 1 .. n + 1 |-> Head2(t, c)]
  <2> DEFINE e == [letter |-> 0, name |-> "image-id"]
             f == s.heads
  <2>1. f \in [1 .. n -> H]
    BY <1>0
  <2>2. IdLetter + 1 \in 1 .. n + 1
    BY <1>0, <1>2
  <2>3. ASSUME NEW c \in 1 .. n + 1
        PROVE  (IF c < IdLetter + 1 THEN f[c] ELSE IF c = IdLetter + 1 THEN e ELSE f[c - 1]) = Head2(t, c)
    <3>1. CASE c < IdLetter + 1
      BY <1>0, <1>2, <3>1 DEF Head2, Source2
    <3>2. CASE c = IdLetter + 1
      BY <1>0, <1>2, <3>2 DEF Head2
    <3>3. CASE c > IdLetter + 1
      BY <1>0, <1>2, <3>3 DEF Head2, Source2
    <3> QED BY <1>0, <1>2, <3>1, <3>2, <3>3
  <2>4. InsertAt(f, IdLetter + 1, e) = With(f, n, IdLetter + 1, e)
    <3> HIDE DEF e, f, H, n
    <3> QED BY <1>0, <2>1, <2>2, Inserted
  <2> HIDE DEF e, f
  <2> QED BY <2>3, <2>4 DEF e, f, With
<1>4. ASSUME NEW r \in 1 .. Len(t.rows)
      PROVE  InsertAt(s.rows[r], IdLetter + 1,
                      IF s.rows[r][IdLetter] = NA THEN Blank ELSE RawImage[s.rows[r][IdLetter]])
               = [c \in 1 .. n + 1 |-> Cell2(t, r, c)]
  <2> DEFINE f == [c \in 1 .. n |-> Filled(t, r, c)]
             e == Image(t, r)
  <2>1. s.rows[r] = f
    BY <1>0
  <2>2. \E T : f \in [1 .. n -> T]
    <3>1. f \in [1 .. n -> {Filled(t, r, c) : c \in 1 .. n}]
      OBVIOUS
    <3> HIDE DEF f
    <3> QED BY <3>1
  <2>3. IdLetter + 1 \in 1 .. n + 1
    BY <1>0, <1>2
  <2>4. (IF f[IdLetter] = NA THEN Blank ELSE RawImage[f[IdLetter]]) = e
    BY <1>2 DEF Image
  <2>5. ASSUME NEW c \in 1 .. n + 1
        PROVE  (IF c < IdLetter + 1 THEN f[c] ELSE IF c = IdLetter + 1 THEN e ELSE f[c - 1]) = Cell2(t, r, c)
    <3> HIDE DEF e
    <3>1. CASE c < IdLetter + 1
      BY <1>0, <1>2, <3>1 DEF Cell2, Source2
    <3>2. CASE c = IdLetter + 1
      BY <1>0, <1>2, <3>2 DEF Cell2, e
    <3>3. CASE c > IdLetter + 1
      BY <1>0, <1>2, <3>3 DEF Cell2, Source2
    <3> QED BY <1>0, <1>2, <3>1, <3>2, <3>3
  <2> HIDE DEF e, f
  <2>6. InsertAt(f, IdLetter + 1, e) = With(f, n, IdLetter + 1, e)
    <3> HIDE DEF n
    <3>1. PICK T : f \in [1 .. n -> T]
      BY <2>2
    <3> QED BY <1>0, <2>3, <3>1, Inserted
  <2> QED BY <2>1, <2>4, <2>5, <2>6, ZenonT(60) DEF With
<1>5. /\ AddImageIds(s).heads = InsertAt(s.heads, IdLetter + 1, [letter |-> 0, name |-> "image-id"])
      /\ AddImageIds(s).rows = [r \in DOMAIN s.rows |->
            InsertAt(s.rows[r], IdLetter + 1,
                     IF s.rows[r][IdLetter] = NA THEN Blank ELSE RawImage[s.rows[r][IdLetter]])]
  BY <1>2 DEF AddImageIds, WithColumn
<1>6. DOMAIN s.rows = 1 .. Len(t.rows)
  BY <1>0
<1> HIDE DEF s, n
<1>7. AddImageIds(s).rows = [r \in 1 .. Len(t.rows) |-> [c \in 1 .. n + 1 |-> Cell2(t, r, c)]]
  BY <1>4, <1>5, <1>6
<1> QED BY <1>1, <1>2, <1>3, <1>5, <1>7 DEF n

\* Keys of three numbers are in a total order.
LEMMA KeysAreOrdered ==
  ASSUME NEW a1 \in Int, NEW a2 \in Int, NEW a3 \in Int, NEW b1 \in Int, NEW b2 \in Int, NEW b3 \in Int
  PROVE  KeyBefore(<<a1, a2, a3>>, <<b1, b2, b3>>)
           <=> a1 < b1 \/ (a1 = b1 /\ a2 < b2) \/ (a1 = b1 /\ a2 = b2 /\ a3 < b3)
<1> DEFINE a == <<a1, a2, a3>>
           b == <<b1, b2, b3>>
<1>1. /\ DOMAIN a = 1 .. 3 /\ a[1] = a1 /\ a[2] = a2 /\ a[3] = a3
      /\ b[1] = b1 /\ b[2] = b2 /\ b[3] = b3
  OBVIOUS
<1> HIDE DEF a, b
<1>2. KeyBefore(a, b) <=> \E x \in 1 .. 3 : a[x] < b[x] /\ \A y \in 1 .. x - 1 : a[y] = b[y]
  BY <1>1 DEF KeyBefore
<1>3. ASSUME NEW x \in 1 .. 3, a[x] < b[x], \A y \in 1 .. x - 1 : a[y] = b[y]
      PROVE  a1 < b1 \/ (a1 = b1 /\ a2 < b2) \/ (a1 = b1 /\ a2 = b2 /\ a3 < b3)
  <2>1. x = 1 \/ x = 2 \/ x = 3
    OBVIOUS
  <2>2. x # 1 => a[1] = b[1]
    BY <1>3
  <2>3. x = 3 => a[2] = b[2]
    BY <1>3
  <2> QED BY <1>1, <1>3, <2>1, <2>2, <2>3
<1>4. ASSUME a1 < b1 \/ (a1 = b1 /\ a2 < b2) \/ (a1 = b1 /\ a2 = b2 /\ a3 < b3)
      PROVE  \E x \in 1 .. 3 : a[x] < b[x] /\ \A y \in 1 .. x - 1 : a[y] = b[y]
  <2>1. CASE a1 < b1
    <3>1. a[1] < b[1] /\ \A y \in 1 .. 1 - 1 : a[y] = b[y]
      BY <1>1, <2>1
    <3> QED BY <3>1
  <2>2. CASE a1 = b1 /\ a2 < b2
    <3>1. a[2] < b[2] /\ \A y \in 1 .. 2 - 1 : a[y] = b[y]
      BY <1>1, <2>2
    <3> QED BY <3>1
  <2>3. CASE a1 = b1 /\ a2 = b2 /\ a3 < b3
    <3>1. \A y \in 1 .. 3 - 1 : y = 1 \/ y = 2
      OBVIOUS
    <3>2. a[3] < b[3] /\ \A y \in 1 .. 3 - 1 : a[y] = b[y]
      BY <1>1, <2>3, <3>1
    <3> QED BY <3>2
  <2> QED BY <1>4, <2>1, <2>2, <2>3
<1>5. KeyBefore(a, b) <=> a1 < b1 \/ (a1 = b1 /\ a2 < b2) \/ (a1 = b1 /\ a2 = b2 /\ a3 < b3)
  BY <1>2, <1>3, <1>4
<1> QED BY <1>5 DEF a, b

\* In a total order the numbers 1 to m have 0, 1, 2... of them before them.
LEMMA NumberedInOrder ==
  ASSUME NEW m \in Nat, NEW less,
         \A x \in 1 .. m : <<x, x>> \notin less,
         \A x, y, z \in 1 .. m : <<x, y>> \in less /\ <<y, z>> \in less => <<x, z>> \in less,
         \A x, y \in 1 .. m : x # y => <<x, y>> \in less \/ <<y, x>> \in less
  PROVE  LET before(x) == {y \in 1 .. m : <<y, x>> \in less}
         IN /\ \A x \in 1 .. m : Cardinality(before(x)) \in Nat
            /\ \A x, y \in 1 .. m : Cardinality(before(x)) = Cardinality(before(y)) => x = y
            /\ \A i \in 1 .. m : \E x \in 1 .. m : Cardinality(before(x)) = i - 1
            /\ \A x \in 1 .. m : Cardinality(before(x)) + 1 \in 1 .. m
<1> DEFINE before(x) == {y \in 1 .. m : <<y, x>> \in less}
           r == [x \in 1 .. m |-> Cardinality(before(x)) + 1]
<1>1. IsFiniteSet(1 .. m) /\ Cardinality(1 .. m) = m
  BY FS_Interval
<1>2. ASSUME NEW x \in 1 .. m
      PROVE  IsFiniteSet(before(x)) /\ Cardinality(before(x)) \in 0 .. m - 1
  <2>1. before(x) \in SUBSET (1 .. m) /\ x \notin before(x)
    OBVIOUS
  <2>2. IsFiniteSet(before(x)) /\ Cardinality(before(x)) <= m /\ Cardinality(before(x)) # m
    <3> DEFINE S == 1 .. m
    <3>1. /\ IsFiniteSet(S) /\ before(x) \in SUBSET S /\ x \in S /\ x \notin before(x)
          /\ Cardinality(S) = m
      BY <1>1, <2>1
    <3> HIDE DEF S, before
    <3>2. /\ IsFiniteSet(before(x)) /\ Cardinality(before(x)) <= Cardinality(S)
          /\ (Cardinality(before(x)) = Cardinality(S) => before(x) = S)
      BY <3>1, FS_Subset
    <3> QED BY <3>1, <3>2
  <2>3. Cardinality(before(x)) \in Nat
    BY <2>2, FS_CardinalityType
  <2> HIDE DEF before
  <2> QED BY <2>2, <2>3
<1>3. ASSUME NEW x \in 1 .. m, NEW y \in 1 .. m, <<x, y>> \in less
      PROVE  Cardinality(before(x)) # Cardinality(before(y))
  <2>1. before(x) \in SUBSET before(y) /\ x \in before(y) /\ x \notin before(x)
    BY <1>3
  <2> HIDE DEF before
  <2> QED BY <1>2, <2>1, FS_Subset
<1>4. \A x, y \in 1 .. m : r[x] = r[y] => x = y
  <2>1. SUFFICES ASSUME NEW x \in 1 .. m, NEW y \in 1 .. m, r[x] = r[y], x # y PROVE FALSE
    OBVIOUS
  <2>2. Cardinality(before(x)) \in Int /\ Cardinality(before(y)) \in Int
    <3> HIDE DEF before
    <3> QED BY <1>2
  <2>3. r[x] = Cardinality(before(x)) + 1 /\ r[y] = Cardinality(before(y)) + 1
    OBVIOUS
  <2>4. Cardinality(before(x)) = Cardinality(before(y))
    <3> HIDE DEF before, r
    <3>1. \A p, q \in Int : p + 1 = q + 1 => p = q
      OBVIOUS
    <3>2. Cardinality(before(x)) + 1 = Cardinality(before(y)) + 1
      BY <2>1, <2>3
    <3> QED BY <2>2, <3>1, <3>2
  <2> HIDE DEF before, r
  <2> QED BY <1>3, <2>1, <2>4
<1>5. r \in [1 .. m -> 1 .. m]
  <2>1. \A x \in 1 .. m : Cardinality(before(x)) + 1 \in 1 .. m
    <3> HIDE DEF before
    <3> QED BY <1>2
  <2> HIDE DEF before
  <2> QED BY <2>1
<1>6. r \in Surjection(1 .. m, 1 .. m)
  <2> HIDE DEF r
  <2>1. r \in Injection(1 .. m, 1 .. m)
    BY <1>4, <1>5 DEF Injection, IsInjective
  <2> QED BY <1>1, <2>1, FS_Injection
<1>7. ASSUME NEW i \in 1 .. m
      PROVE  \E x \in 1 .. m : Cardinality(before(x)) = i - 1
  <2>1. PICK x \in 1 .. m : r[x] = i
    BY <1>6 DEF Surjection
  <2>2. r[x] = Cardinality(before(x)) + 1
    OBVIOUS
  <2> HIDE DEF r, before
  <2>3. Cardinality(before(x)) = i - 1
    BY <1>2, <2>1, <2>2
  <2> QED BY <2>3
<1>8. \A x \in 1 .. m : Cardinality(before(x)) \in Nat /\ Cardinality(before(x)) + 1 \in 1 .. m
  <2> HIDE DEF before
  <2> QED BY <1>2
<1>9. ASSUME NEW x \in 1 .. m, NEW y \in 1 .. m, Cardinality(before(x)) = Cardinality(before(y))
      PROVE  x = y
  <2> HIDE DEF before
  <2> QED BY <1>3, <1>9
<1> QED BY <1>7, <1>8, <1>9

\* an order of the numbers 1 to m
IsOrder(q, m) == /\ q \in [1 .. m -> 1 .. m]
                 /\ \A j, k \in 1 .. m : q[j] = q[k] => j = k
                 /\ \A r \in 1 .. m : \E k \in 1 .. m : q[k] = r

IsRow(f) == f = [c \in DOMAIN f |-> f[c]]
SortedBy(q, s, m) == IsOrder(q, m) /\ SortRows(s).rows = [p \in 1 .. m |-> Over(s.rows[p], s.rows[q[p]])]

\* Script 3 puts the rows in an order, whatever their regions and departments.
LEMMA RowsSorted ==
  ASSUME NEW s, NEW m \in Nat, s.rows = [p \in 1 .. m |-> s.rows[p]], {"heads", "rows"} \subseteq DOMAIN s,
         \A p \in 1 .. m : IsRow(s.rows[p])
  PROVE  /\ SortRows(s).heads = s.heads
         /\ \E q : SortedBy(q, s, m)
<1> DEFINE g == Column(s, RegionNames, AnyLetter)
           d == Column(s, DepartmentNames, AnyLetter)
           rk(k) == Rank(s.rows[k][g])
           rj(k) == Rank(s.rows[k][d])
           Key(k) == <<rk(k), rj(k), k>>
           less == {x \in (1 .. m) \X (1 .. m) : KeyBefore(Key(x[1]), Key(x[2]))}
           before(x) == {y \in 1 .. m : <<y, x>> \in less}
           At(p) == CHOOSE k \in 1 .. m : Cardinality({j \in 1 .. m : KeyBefore(Key(j), Key(k))}) = p - 1
           q == [p \in 1 .. m |-> At(p)]
<1>0. DOMAIN s.rows = 1 .. m
  OBVIOUS
<1>1. CASE 0 \in {g, d}
  <2> DEFINE id == [p \in 1 .. m |-> p]
  <2>1. SortRows(s) = s
    BY <1>1 DEF SortRows
  <2>2. IsOrder(id, m)
    BY DEF IsOrder
  <2>3. s.rows = [p \in 1 .. m |-> Over(s.rows[p], s.rows[id[p]])]
    <3>1. ASSUME NEW p \in 1 .. m PROVE Over(s.rows[p], s.rows[id[p]]) = s.rows[p]
      <4>1. id[p] = p
        OBVIOUS
      <4> HIDE DEF id
      <4> QED BY <4>1 DEF Over, IsRow
    <3> HIDE DEF id
    <3> QED BY <3>1
  <2> HIDE DEF id
  <2>4. SortedBy(id, s, m)
    BY <2>1, <2>2, <2>3 DEF SortedBy
  <2> QED BY <2>1, <2>4
<1>2. CASE ~(0 \in {g, d})
  <2>1. \A k : rk(k) \in Int /\ rj(k) \in Int
    BY TextAssumption DEF Rank
  <2>2. /\ SortRows(s).heads = s.heads
        /\ SortRows(s).rows = [p \in 1 .. m |-> Over(s.rows[p], s.rows[At(p)])]
    BY <1>0, <1>2 DEF SortRows
  <2> HIDE DEF rk, rj, g, d
  <2>3. \A x, y \in 1 .. m :
           <<x, y>> \in less <=> \/ rk(x) < rk(y) \/ (rk(x) = rk(y) /\ rj(x) < rj(y))
                                \/ (rk(x) = rk(y) /\ rj(x) = rj(y) /\ x < y)
    <3> TAKE x, y \in 1 .. m
    <3>1. <<x, y>> \in less <=> KeyBefore(Key(x), Key(y))
      OBVIOUS
    <3>2. x \in Int /\ y \in Int
      OBVIOUS
    <3> QED BY <2>1, <3>1, <3>2, KeysAreOrdered, SMTT(40)
  <2> HIDE DEF less
  <2>4. /\ \A x \in 1 .. m : <<x, x>> \notin less
        /\ \A x, y, z \in 1 .. m : <<x, y>> \in less /\ <<y, z>> \in less => <<x, z>> \in less
        /\ \A x, y \in 1 .. m : x # y => <<x, y>> \in less \/ <<y, x>> \in less
    <3>1. ASSUME NEW x \in 1 .. m PROVE <<x, x>> \notin less
      BY <2>1, <2>3
    <3>2. ASSUME NEW x \in 1 .. m, NEW y \in 1 .. m, NEW z \in 1 .. m, <<x, y>> \in less, <<y, z>> \in less
          PROVE  <<x, z>> \in less
      <4>1. /\ rk(x) \in Int /\ rk(y) \in Int /\ rk(z) \in Int
            /\ rj(x) \in Int /\ rj(y) \in Int /\ rj(z) \in Int
        BY <2>1
      <4> QED BY <2>3, <3>2, <4>1
    <3>3. ASSUME NEW x \in 1 .. m, NEW y \in 1 .. m, x # y PROVE <<x, y>> \in less \/ <<y, x>> \in less
      <4>1. /\ rk(x) \in Int /\ rk(y) \in Int /\ rj(x) \in Int /\ rj(y) \in Int
        BY <2>1
      <4> QED BY <2>3, <3>3, <4>1
    <3> QED BY <3>1, <3>2, <3>3
  <2>5. /\ \A x \in 1 .. m : Cardinality(before(x)) \in Nat
        /\ \A x, y \in 1 .. m : Cardinality(before(x)) = Cardinality(before(y)) => x = y
        /\ \A i \in 1 .. m : \E x \in 1 .. m : Cardinality(before(x)) = i - 1
        /\ \A x \in 1 .. m : Cardinality(before(x)) + 1 \in 1 .. m
    BY <2>4, NumberedInOrder
  <2>6. \A x \in 1 .. m : {j \in 1 .. m : KeyBefore(Key(j), Key(x))} = before(x)
    BY DEF less
  <2>7. ASSUME NEW p \in 1 .. m PROVE q[p] \in 1 .. m /\ Cardinality(before(q[p])) = p - 1
    <3>1. \E k \in 1 .. m : Cardinality({j \in 1 .. m : KeyBefore(Key(j), Key(k))}) = p - 1
      <4>1. PICK k \in 1 .. m : Cardinality(before(k)) = p - 1
        BY <2>5
      <4> QED BY <2>6, <4>1
    <3>2. At(p) \in 1 .. m /\ Cardinality({j \in 1 .. m : KeyBefore(Key(j), Key(At(p)))}) = p - 1
      BY <3>1
    <3>3. q[p] = At(p)
      OBVIOUS
    <3> HIDE DEF q, At
    <3> QED BY <2>6, <3>2, <3>3
  <2>8. ASSUME NEW x \in 1 .. m PROVE \E p \in 1 .. m : q[p] = x
    <3> DEFINE p == Cardinality(before(x)) + 1
    <3> HIDE DEF before, q
    <3>1. p \in 1 .. m /\ Cardinality(before(x)) = p - 1 /\ Cardinality(before(x)) \in Nat
      BY <2>5
    <3> HIDE DEF p
    <3>2. q[p] \in 1 .. m /\ Cardinality(before(q[p])) = Cardinality(before(x))
      BY <2>7, <3>1
    <3> QED BY <2>5, <3>1, <3>2
  <2>9. ASSUME NEW j \in 1 .. m, NEW k \in 1 .. m, q[j] = q[k] PROVE j = k
    <3>1. j - 1 = k - 1
      <4> HIDE DEF q, before
      <4> QED BY <2>7, <2>9
    <3> HIDE DEF q
    <3> QED BY <3>1
  <2> HIDE DEF At, before
  <2>10. \A p \in 1 .. m : q[p] = At(p)
    OBVIOUS
  <2>11. q = [p \in 1 .. m |-> q[p]]
    OBVIOUS
  <2> HIDE DEF q
  <2>12. IsOrder(q, m)
    BY <2>7, <2>8, <2>9, <2>11 DEF IsOrder
  <2>13. SortRows(s).rows = [p \in 1 .. m |-> Over(s.rows[p], s.rows[q[p]])]
    BY <2>2, <2>10
  <2>14. SortedBy(q, s, m)
    BY <2>12, <2>13 DEF SortedBy
  <2> QED BY <2>2, <2>14
<1> QED BY <1>1, <1>2

\* the files 3 to 5: a row written over another keeps its image if it has none,
\* and script 4 leaves the images alone
Placed(t, q, k) == IF Image(t, q[k]) = Blank THEN Image(t, k) ELSE Image(t, q[k])
Cell3(t, q, k, c) == IF c = IdLetter + 1 THEN Placed(t, q, k) ELSE Filled(t, q[k], Source2(c))
Cell5(t, q, k, c) == IF c = IdLetter + 1 THEN Placed(t, q, k) ELSE Told(t, q[k], Source2(c))
Rows3(t, q) == [k \in 1 .. Len(t.rows) |-> [c \in 1 .. Wide(t) + 1 |-> Cell3(t, q, k, c)]]

\* Script 3 sorts the rows.
LEMMA Stage3 ==
  ASSUME NEW t \in Tables, IsLinked(2), IsLinked(3),
         disk[2].rows = [r \in 1 .. Len(t.rows) |-> [c \in 1 .. Wide(t) + 1 |-> Cell2(t, r, c)]]
  PROVE  /\ disk[3].heads = disk[2].heads
         /\ \E q : IsOrder(q, Len(t.rows)) /\ disk[3].rows = Rows3(t, q)
<1> DEFINE m == Len(t.rows)
           n == Wide(t) + 1
           R == disk[2].rows
<1>1. m \in Nat /\ {2, 3} \subseteq Outputs \ {0}
  BY ShapeOfTable DEF Outputs, Scripts, ImageScript, CheckScript
<1>2. disk[3].heads = SortRows(disk[2]).heads /\ disk[3].rows = SortRows(disk[2]).rows
  BY <1>1, FileMade DEF SheetMade
<1>3. {"heads", "rows"} \subseteq DOMAIN disk[2]
  BY <1>1 DEF IsLinked, Made
<1>4. R = [k \in 1 .. m |-> R[k]]
  OBVIOUS
<1>5. \A k \in 1 .. m : R[k] = [c \in 1 .. n |-> Cell2(t, k, c)]
  OBVIOUS
<1> HIDE DEF R, n
<1>6. \A k \in 1 .. m : IsRow(R[k])
  BY <1>5 DEF IsRow
<1>7. SortRows(disk[2]).heads = disk[2].heads /\ \E q : SortedBy(q, disk[2], m)
  <2> HIDE DEF m
  <2> QED BY <1>1, <1>3, <1>4, <1>6, RowsSorted, ZenonT(60) DEF R
<1>8. PICK q : IsOrder(q, m) /\ SortRows(disk[2]).rows = [p \in 1 .. m |-> Over(R[p], R[q[p]])]
  BY <1>7 DEF SortedBy, R
<1>9. ASSUME NEW k \in 1 .. m PROVE Over(R[k], R[q[k]]) = [c \in 1 .. n |-> Cell3(t, q, k, c)]
  <2>1. q[k] \in 1 .. m
    BY <1>8 DEF IsOrder
  <2>2. /\ DOMAIN R[q[k]] = 1 .. n
        /\ \A c \in 1 .. n : R[q[k]][c] = Cell2(t, q[k], c) /\ R[k][c] = Cell2(t, k, c)
    BY <1>5, <2>1
  <2>3. ASSUME NEW c \in 1 .. n
        PROVE  (IF R[q[k]][c] = Blank THEN R[k][c] ELSE R[q[k]][c]) = Cell3(t, q, k, c)
    <3>1. CASE c = IdLetter + 1
      BY <2>2, <3>1 DEF Cell2, Cell3, Placed
    <3>2. CASE c # IdLetter + 1
      <4>1. R[q[k]][c] = Filled(t, q[k], Source2(c)) /\ Cell3(t, q, k, c) = Filled(t, q[k], Source2(c))
        BY <2>2, <3>2 DEF Cell2, Cell3
      <4>2. Filled(t, q[k], Source2(c)) # Blank
        BY DEF Filled, NA, Blank
      <4> QED BY <4>1, <4>2
    <3> QED BY <3>1, <3>2
  <2> QED BY <2>2, <2>3 DEF Over
<1>10. SortRows(disk[2]).rows = [k \in 1 .. m |-> [c \in 1 .. n |-> Cell3(t, q, k, c)]]
  BY <1>8, <1>9
<1>11. disk[3].rows = Rows3(t, q)
  BY <1>2, <1>10 DEF Rows3, n
<1> QED BY <1>2, <1>7, <1>8, <1>11

\* Script 4 writes the dates.
LEMMA Stage4 ==
  ASSUME NEW t \in Tables, IdLetter \in 1 .. Wide(t), NEW q, IsLinked(4),
         disk[3].heads = [c \in 1 .. Wide(t) + 1 |-> Head2(t, c)],
         disk[3].rows = [k \in 1 .. Len(t.rows) |-> [c \in 1 .. Wide(t) + 1 |-> Cell3(t, q, k, c)]]
  PROVE  /\ disk[4].heads = disk[3].heads
         /\ disk[4].rows = [k \in 1 .. Len(t.rows) |-> [c \in 1 .. Wide(t) + 1 |-> Cell5(t, q, k, c)]]
<1> DEFINE s == disk[3]
           m == Len(t.rows)
           n == Wide(t) + 1
<1>1. 4 \in Outputs \ {0} /\ SheetMade(4) = FormatDates(s)
  BY DEF SheetMade, Outputs, Scripts, ImageScript, CheckScript
<1>2. disk[4].heads = FormatDates(s).heads /\ disk[4].rows = FormatDates(s).rows
  BY <1>1, FileMade
<1>3. /\ FormatDates(s).heads = s.heads
      /\ FormatDates(s).rows = [k \in DOMAIN s.rows |-> [c \in DOMAIN s.rows[k] |->
            IF s.heads[c].name \in DateNames THEN Via(DateText, s.rows[k][c]) ELSE s.rows[k][c]]]
  BY DEF FormatDates, WithRows
<1>4. DOMAIN s.rows = 1 .. m /\ \A k \in 1 .. m : DOMAIN s.rows[k] = 1 .. n
  OBVIOUS
<1>5. \A k \in 1 .. m : \A c \in 1 .. n : s.rows[k][c] = Cell3(t, q, k, c)
  OBVIOUS
<1>6. \A c \in 1 .. n : s.heads[c] = Head2(t, c)
  OBVIOUS
<1>7. ASSUME NEW k, NEW c \in 1 .. n
      PROVE  (IF Head2(t, c).name \in DateNames THEN Via(DateText, Cell3(t, q, k, c)) ELSE Cell3(t, q, k, c)) = Cell5(t, q, k, c)
  <2>1. CASE c = IdLetter + 1
    <3>1. Head2(t, c).name = "image-id"
      BY <2>1 DEF Head2
    <3>2. "image-id" \notin DateNames
      BY HeadAssumption
    <3> QED BY <2>1, <3>1, <3>2 DEF Cell3, Cell5
  <2>2. CASE c # IdLetter + 1
    <3>1. Head2(t, c).name = t.heads[Source2(c)].name
      BY <2>2 DEF Head2
    <3> QED BY <2>2, <3>1 DEF Cell3, Cell5, Told, Filled
  <2> QED BY <2>1, <2>2
<1> HIDE DEF s, m, n
<1>8. ASSUME NEW k \in 1 .. m
      PROVE  [c \in DOMAIN s.rows[k] |-> IF s.heads[c].name \in DateNames THEN Via(DateText, s.rows[k][c]) ELSE s.rows[k][c]]
               = [c \in 1 .. n |-> Cell5(t, q, k, c)]
  <2>1. ASSUME NEW c \in 1 .. n
        PROVE  (IF s.heads[c].name \in DateNames THEN Via(DateText, s.rows[k][c]) ELSE s.rows[k][c]) = Cell5(t, q, k, c)
    <3>1. s.rows[k][c] = Cell3(t, q, k, c) /\ s.heads[c] = Head2(t, c)
      BY <1>5, <1>6
    <3> QED BY <1>7, <3>1
  <2>2. DOMAIN s.rows[k] = 1 .. n
    BY <1>4
  <2> QED BY <2>1, <2>2
<1>9. FormatDates(s).rows = [k \in 1 .. m |-> [c \in 1 .. n |-> Cell5(t, q, k, c)]]
  BY <1>3, <1>4, <1>8
<1> QED BY <1>2, <1>3, <1>9 DEF s, m, n

\* Script 5 copies the file.
LEMMA Stage5 ==
  ASSUME IsLinked(5)
  PROVE  disk[5].heads = disk[4].heads /\ disk[5].rows = disk[4].rows
BY FileMade DEF SheetMade, Outputs, Scripts, ImageScript, CheckScript

Head6(t, c) == [letter |-> Head2(t, c).letter, name |-> HeadName[Head2(t, c).name]]

\* Script 6 cleans the headers.
LEMMA Stage6 ==
  ASSUME NEW t \in Tables, IsLinked(6), disk[5].heads = [c \in 1 .. Wide(t) + 1 |-> Head2(t, c)]
  PROVE  /\ disk[6].heads = [c \in 1 .. Wide(t) + 1 |-> Head6(t, c)]
         /\ disk[6].rows = disk[5].rows
<1> DEFINE s == disk[5]
           n == Wide(t) + 1
<1>1. 6 \in Outputs \ {0} /\ SheetMade(6) = CleanHeaders(s)
  BY DEF SheetMade, Outputs, Scripts, ImageScript, CheckScript
<1>2. disk[6].heads = CleanHeaders(s).heads /\ disk[6].rows = CleanHeaders(s).rows
  BY <1>1, FileMade
<1>3. /\ CleanHeaders(s).rows = s.rows
      /\ CleanHeaders(s).heads = [c \in DOMAIN s.heads |-> [letter |-> s.heads[c].letter, name |-> HeadName[s.heads[c].name]]]
  BY DEF CleanHeaders
<1>4. \A c \in 1 .. n : s.heads[c] = Head2(t, c)
  OBVIOUS
<1>5. DOMAIN s.heads = 1 .. n
  OBVIOUS
<1> HIDE DEF s, n
<1>6. CleanHeaders(s).heads = [c \in 1 .. n |-> Head6(t, c)]
  BY <1>3, <1>4, <1>5 DEF Head6
<1> QED BY <1>2, <1>3, <1>6 DEF s, n

\* The only column of a name and a letter is the one that is found.
LEMMA OnlyColumn ==
  ASSUME NEW s, NEW names, NEW letters, NEW c \in Int,
         {d \in DOMAIN s.heads : s.heads[d].name \in names /\ s.heads[d].letter \in letters} = {c}
  PROVE  Column(s, names, letters) = c
BY DEF Column

\* Scripts 2 and 6 leave one column of images.
LEMMA ImageColumnOf6 ==
  ASSUME NEW t \in Tables, IdLetter \in 1 .. Wide(t),
         disk[6].heads = [c \in 1 .. Wide(t) + 1 |-> Head6(t, c)]
  PROVE  ImageColumn(disk[6]) = IdLetter + 1
<1> DEFINE s == disk[6]
           n == Wide(t) + 1
           a == IdLetter
<1>0. a \in Nat /\ n \in Nat /\ a >= 1 /\ a + 1 \in 1 .. n
  <2>1. Wide(t) \in Nat
    BY ShapeOfTable
  <2> QED BY <2>1
<1>1. \A c \in 1 .. n : Head6(t, c).letter = 0 <=> c = a + 1
  BY <1>0 DEF Head6, Head2, Source2
<1>2. Head6(t, a + 1).name = HeadName["image-id"]
  BY DEF Head6, Head2
<1>3. DOMAIN s.heads = 1 .. n /\ \A c \in 1 .. n : s.heads[c] = Head6(t, c)
  OBVIOUS
<1> HIDE DEF s, n
<1>4. {d \in DOMAIN s.heads : s.heads[d].name \in {HeadName["image-id"]} /\ s.heads[d].letter \in {0}} = {a + 1}
  BY <1>0, <1>1, <1>2, <1>3
<1> HIDE DEF a
<1>5. ImageColumn(s) = a + 1
  BY <1>0, <1>4, OnlyColumn DEF ImageColumn
<1> QED BY <1>5 DEF s, a

\* the same files, when each row has its own image
Cell4(t, r, c) == IF c = IdLetter + 1 THEN Image(t, r) ELSE Told(t, r, Source2(c))

\* A row that takes another's image meets it in the row that the image moved
\* with: script 7 stops, and past it each row has its own image.
LEMMA NoImageIsTaken ==
  ASSUME NEW t \in Tables, IdLetter \in 1 .. Wide(t), NEW q, IsOrder(q, Len(t.rows)), IsLinked(7),
         disk[6].heads = [c \in 1 .. Wide(t) + 1 |-> Head6(t, c)],
         disk[6].rows = [k \in 1 .. Len(t.rows) |-> [c \in 1 .. Wide(t) + 1 |-> Cell5(t, q, k, c)]]
  PROVE  disk[6].rows = [k \in 1 .. Len(t.rows) |-> [c \in 1 .. Wide(t) + 1 |-> Cell4(t, q[k], c)]]
<1> DEFINE s == disk[6]
           m == Len(t.rows)
           n == Wide(t) + 1
           a == IdLetter
<1>1. 7 \in Outputs \ {0}
  BY DEF Outputs, Scripts, ImageScript, CheckScript
<1>2. ~ImagesMeet(s)
  BY <1>1 DEF IsLinked, Passes, Accepts, ImageScript, CheckScript
<1>3. ImageColumn(s) = a + 1
  BY ImageColumnOf6
<1>4. a + 1 \in 1 .. n
  <2>1. Wide(t) \in Nat
    BY ShapeOfTable
  <2> QED BY <2>1
<1>5. s.rows = [k \in 1 .. m |-> s.rows[k]]
  OBVIOUS
<1>6. DOMAIN s.rows = 1 .. m /\ \A k \in 1 .. m : s.rows[k] = [c \in 1 .. n |-> Cell5(t, q, k, c)]
  OBVIOUS
<1> HIDE DEF s, m, n, a
<1>7. \A k \in 1 .. m : s.rows[k][a + 1] = Placed(t, q, k)
  BY <1>4, <1>6 DEF Cell5, a
<1>8. ASSUME NEW k \in 1 .. m, Placed(t, q, k) # Image(t, q[k])
      PROVE  FALSE
  <2>1. Image(t, q[k]) = Blank /\ Placed(t, q, k) = Image(t, k) /\ Image(t, k) # Blank
    BY <1>8 DEF Placed
  <2>2. PICK j \in 1 .. m : q[j] = k
    BY DEF IsOrder, m
  <2>3. j # k
    BY <2>1, <2>2
  <2>4. Placed(t, q, j) = Image(t, k)
    BY <2>1, <2>2 DEF Placed
  <2>5. s.rows[j][a + 1] = Image(t, k) /\ s.rows[k][a + 1] = Image(t, k)
    BY <1>7, <2>1, <2>4
  <2>6. j \in DOMAIN s.rows /\ k \in DOMAIN s.rows
    BY <1>6
  <2> QED BY <1>2, <1>3, <2>1, <2>3, <2>5, <2>6 DEF ImagesMeet
<1>9. \A k \in 1 .. m : \A c \in 1 .. n : Cell5(t, q, k, c) = Cell4(t, q[k], c)
  BY <1>8 DEF Cell4, Cell5
<1>10. \A k \in 1 .. m : s.rows[k] = [c \in 1 .. n |-> Cell4(t, q[k], c)]
  BY <1>6, <1>9
<1>11. s.rows = [k \in 1 .. m |-> [c \in 1 .. n |-> Cell4(t, q[k], c)]]
  BY <1>10, <1>5
<1> QED BY <1>11 DEF s, m, n

\* the files 6 and 7, with the columns of the images and of their paths
ImageName(t, r) == IF Image(t, r) = Blank THEN Blank ELSE Normalised[Image(t, r)]
Source7(c) == IF c <= IdLetter THEN c ELSE c - 2
Head7(t, c) == IF c = IdLetter + 1 THEN [letter |-> 0, name |-> HeadName["image-id"]]
               ELSE IF c = IdLetter + 2 THEN [letter |-> 0, name |-> "@pathimg"]
               ELSE [letter |-> Source7(c), name |-> HeadName[t.heads[Source7(c)].name]]
Cell7(t, r, c) == IF c = IdLetter + 1 THEN ImageName(t, r)
                  ELSE IF c = IdLetter + 2 THEN IF ImageName(t, r) = Blank THEN NA ELSE run.path
                  ELSE Told(t, r, Source7(c))

\* Script 7 names the images, no two alike, and adds the column of their paths.
LEMMA Stage7 ==
  ASSUME NEW t \in Tables, IdLetter \in 1 .. Wide(t), NEW q, IsLinked(7),
         disk[6].heads = [c \in 1 .. Wide(t) + 1 |-> Head6(t, c)],
         disk[6].rows = [k \in 1 .. Len(t.rows) |-> [c \in 1 .. Wide(t) + 1 |-> Cell4(t, q[k], c)]]
  PROVE  /\ disk[7].heads = [c \in 1 .. Wide(t) + 2 |-> Head7(t, c)]
         /\ disk[7].rows = [k \in 1 .. Len(t.rows) |-> [c \in 1 .. Wide(t) + 2 |-> Cell7(t, q[k], c)]]
         /\ \A j, k \in 1 .. Len(t.rows) :
               ImageName(t, q[j]) # Blank /\ ImageName(t, q[j]) = ImageName(t, q[k]) => j = k
<1> DEFINE s == disk[6]
           m == Len(t.rows)
           n == Wide(t) + 1
           a == IdLetter
           path == run.path
           N(row) == IF row[a + 1] = Blank THEN row ELSE [row EXCEPT ![a + 1] = Normalised[row[a + 1]]]
<1>0. a \in Nat /\ n \in Nat /\ a >= 1 /\ a + 1 \in 1 .. n /\ m \in Nat /\ n + 1 = Wide(t) + 2
  <2>1. Wide(t) \in Nat /\ Len(t.rows) \in Nat
    BY ShapeOfTable
  <2> QED BY <2>1
<1>1. 7 \in Outputs \ {0} /\ SheetMade(7) = AddPaths(s, path)
  BY DEF SheetMade, Outputs, Scripts, ImageScript, CheckScript
<1>2. disk[7].heads = AddPaths(s, path).heads /\ disk[7].rows = AddPaths(s, path).rows /\ Passes(7)
  BY <1>1, FileMade
<1>3. ImageColumn(s) = a + 1
  BY ImageColumnOf6
<1>4. /\ DOMAIN s.heads = 1 .. n /\ \A c \in 1 .. n : s.heads[c] = Head6(t, c)
      /\ DOMAIN s.rows = 1 .. m
      /\ \A k \in 1 .. m : s.rows[k] = [c \in 1 .. n |-> Cell4(t, q[k], c)]
  OBVIOUS
<1>5. /\ AddPaths(s, path).heads = InsertAt(s.heads, a + 2, [letter |-> 0, name |-> "@pathimg"])
      /\ AddPaths(s, path).rows = [k \in DOMAIN s.rows |->
            InsertAt(N(s.rows[k]), a + 2, IF N(s.rows[k])[a + 1] = Blank THEN NA ELSE path)]
  <2>1. (a + 1) + 1 = a + 2
    BY <1>0
  <2> HIDE DEF s, a, path
  <2> QED BY <1>3, <2>1 DEF AddPaths, WithRows, WithColumn
<1>6. InsertAt(s.heads, a + 2, [letter |-> 0, name |-> "@pathimg"]) = [c \in 1 .. n + 1 |-> Head7(t, c)]
  <2> DEFINE e == [letter |-> 0, name |-> "@pathimg"]
             f == [c \in 1 .. n |-> Head6(t, c)]
  <2>1. \E T : f \in [1 .. n -> T]
    <3>1. f \in [1 .. n -> {Head6(t, c) : c \in 1 .. n}]
      OBVIOUS
    <3> HIDE DEF f
    <3> QED BY <3>1
  <2>2. a + 2 \in 1 .. n + 1
    BY <1>0
  <2>3. ASSUME NEW c \in 1 .. n + 1
        PROVE  (IF c < a + 2 THEN f[c] ELSE IF c = a + 2 THEN e ELSE f[c - 1]) = Head7(t, c)
    <3> HIDE DEF n
    <3>1. CASE c <= a
      BY <1>0, <3>1 DEF Head7, Head6, Head2, Source2, Source7
    <3>2. CASE c = a + 1
      BY <1>0, <3>2 DEF Head7, Head6, Head2
    <3>3. CASE c = a + 2
      BY <1>0, <3>3 DEF Head7
    <3>4. CASE c > a + 2
      <4>1. c - 1 \in 1 .. n /\ c - 1 # a + 1 /\ ~(c - 1 <= a) /\ (c - 1) - 1 = c - 2
        BY <1>0, <3>4
      <4>2. f[c - 1] = [letter |-> c - 2, name |-> HeadName[t.heads[c - 2].name]]
        BY <4>1 DEF Head6, Head2, Source2
      <4> QED BY <1>0, <3>4, <4>2 DEF Head7, Source7
    <3> QED BY <1>0, <3>1, <3>2, <3>3, <3>4
  <2>4. f = s.heads
    OBVIOUS
  <2> HIDE DEF e, f, n, a
  <2>5. InsertAt(f, a + 2, e) = With(f, n, a + 2, e)
    <3>1. PICK T : f \in [1 .. n -> T]
      BY <2>1
    <3> QED BY <1>0, <2>2, <3>1, Inserted
  <2> QED BY <2>3, <2>4, <2>5 DEF e, With
<1>7. ASSUME NEW k \in 1 .. m
      PROVE  InsertAt(N(s.rows[k]), a + 2, IF N(s.rows[k])[a + 1] = Blank THEN NA ELSE path)
               = [c \in 1 .. n + 1 |-> Cell7(t, q[k], c)]
  <2> DEFINE r == q[k]
             f == [c \in 1 .. n |-> IF c = a + 1 THEN ImageName(t, r) ELSE Cell4(t, r, c)]
             e == IF ImageName(t, r) = Blank THEN NA ELSE path
  <2>1. N(s.rows[k]) = f
    <3> DEFINE row == [c \in 1 .. n |-> Cell4(t, r, c)]
    <3>1. s.rows[k] = row
      BY <1>4
    <3>2. row[a + 1] = Image(t, r)
      BY <1>0 DEF Cell4
    <3>3. CASE Image(t, r) = Blank
      <4>1. ImageName(t, r) = Image(t, r)
        BY <3>3 DEF ImageName
      <4>2. \A c \in 1 .. n : f[c] = row[c]
        BY <3>2, <4>1
      <4> QED BY <3>1, <3>2, <3>3, <4>2
    <3>4. CASE Image(t, r) # Blank
      <4>1. ImageName(t, r) = Normalised[Image(t, r)]
        BY <3>4 DEF ImageName
      <4>2. N(row) = [row EXCEPT ![a + 1] = Normalised[row[a + 1]]]
        BY <3>2, <3>4
      <4> QED BY <3>1, <3>2, <4>1, <4>2, ZenonT(60)
    <3> QED BY <3>3, <3>4
  <2>2. f[a + 1] = ImageName(t, r)
    BY <1>0
  <2>3. \E T : f \in [1 .. n -> T]
    <3>1. f \in [1 .. n -> {f[c] : c \in 1 .. n}]
      OBVIOUS
    <3> HIDE DEF f
    <3> QED BY <3>1
  <2>4. a + 2 \in 1 .. n + 1
    BY <1>0
  <2>5. ASSUME NEW c \in 1 .. n + 1
        PROVE  (IF c < a + 2 THEN f[c] ELSE IF c = a + 2 THEN e ELSE f[c - 1]) = Cell7(t, r, c)
    <3> HIDE DEF n, r
    <3>1. CASE c <= a
      BY <1>0, <3>1 DEF Cell7, Cell4, Source2, Source7
    <3>2. CASE c = a + 1
      BY <1>0, <3>2 DEF Cell7
    <3>3. CASE c = a + 2
      BY <1>0, <3>3 DEF Cell7
    <3>4. CASE c > a + 2
      <4>1. c - 1 \in 1 .. n /\ c - 1 # a + 1 /\ ~(c - 1 <= a) /\ (c - 1) - 1 = c - 2
        BY <1>0, <3>4
      <4>2. f[c - 1] = Told(t, r, c - 2)
        BY <4>1 DEF Cell4, Source2
      <4> QED BY <1>0, <3>4, <4>2 DEF Cell7, Source7
    <3> QED BY <1>0, <3>1, <3>2, <3>3, <3>4
  <2> HIDE DEF e, f, n, a, N
  <2>6. InsertAt(f, a + 2, e) = With(f, n, a + 2, e)
    <3>1. PICK T : f \in [1 .. n -> T]
      BY <2>3
    <3> QED BY <1>0, <2>4, <3>1, Inserted
  <2> QED BY <2>1, <2>2, <2>5, <2>6, ZenonT(60) DEF e, With
<1>9. ASSUME NEW j \in 1 .. m, NEW k \in 1 .. m,
             ImageName(t, q[j]) # Blank, ImageName(t, q[j]) = ImageName(t, q[k])
      PROVE  j = k
  <2>1. /\ Image(t, q[j]) # Blank /\ ImageName(t, q[j]) = Normalised[Image(t, q[j])]
        /\ Image(t, q[k]) # Blank /\ ImageName(t, q[k]) = Normalised[Image(t, q[k])]
    BY <1>9 DEF ImageName
  <2>2. s.rows[j][a + 1] = Image(t, q[j]) /\ s.rows[k][a + 1] = Image(t, q[k])
    BY <1>0, <1>4 DEF Cell4
  <2>3. ~ImagesMeet(s)
    BY <1>2 DEF Passes, Accepts, ImageScript, CheckScript
  <2> HIDE DEF s, m, a
  <2>4. ASSUME j # k PROVE FALSE
    <3>1. j \in DOMAIN s.rows /\ k \in DOMAIN s.rows
      BY <1>4
    <3>2. /\ Blank \notin {s.rows[j][a + 1], s.rows[k][a + 1]}
          /\ Normalised[s.rows[j][a + 1]] = Normalised[s.rows[k][a + 1]]
      BY <1>9, <2>1, <2>2
    <3> QED BY <1>3, <2>3, <2>4, <3>1, <3>2 DEF ImagesMeet
  <2> QED BY <2>4
<1> HIDE DEF s, m, a, N, path
<1>10. AddPaths(s, path).rows = [k \in 1 .. m |-> [c \in 1 .. n + 1 |-> Cell7(t, q[k], c)]]
  BY <1>4, <1>5, <1>7
<1> HIDE DEF n
<1> QED BY <1>0, <1>2, <1>5, <1>6, <1>9, <1>10 DEF m

\* What the files 1, 5 and 7 tell of the table script 0 has read.
FilesTell(t, q) ==
    /\ IdLetter \in 1 .. Wide(t) /\ t.heads[IdLetter].name \in {"ID", HeadName["ID"]}
    /\ IsOrder(q, Len(t.rows))
    /\ disk[1].heads = [c \in 1 .. Wide(t) |-> [letter |-> c, name |-> t.heads[c].name]]
    /\ disk[5].heads = [c \in 1 .. Wide(t) + 1 |-> Head2(t, c)]
    /\ disk[5].rows = [k \in 1 .. Len(t.rows) |-> [c \in 1 .. Wide(t) + 1 |-> Cell4(t, q[k], c)]]
    /\ disk[7].heads = [c \in 1 .. Wide(t) + 2 |-> Head7(t, c)]
    /\ disk[7].rows = [k \in 1 .. Len(t.rows) |-> [c \in 1 .. Wide(t) + 2 |-> Cell7(t, q[k], c)]]
    /\ \A j, k \in 1 .. Len(t.rows) :
          ImageName(t, q[j]) # Blank /\ ImageName(t, q[j]) = ImageName(t, q[k]) => j = k

\* The files 0 to 7 are of one table, its rows in some order.
LEMMA FilesOfOneTable ==
  ASSUME \A i \in 0 .. 7 : IsLinked(i)
  PROVE  \E t \in Tables : \E q : FilesTell(t, q)
<1>1. IsLinked(0) /\ IsLinked(1) /\ IsLinked(2) /\ IsLinked(3) /\ IsLinked(4) /\ IsLinked(5) /\ IsLinked(6) /\ IsLinked(7)
  OBVIOUS
<1>2. PICK t \in Tables :
          /\ disk[0].heads = t.heads
          /\ disk[0].rows = [r \in DOMAIN t.rows |-> [c \in 1 .. Wide(t) |-> Filled(t, r, c)]]
  BY <1>1, Stage0
<1>3. /\ disk[1].heads = [c \in 1 .. Wide(t) |-> [letter |-> c, name |-> t.heads[c].name]]
      /\ disk[1].rows = [r \in DOMAIN t.rows |-> [c \in 1 .. Wide(t) |-> Filled(t, r, c)]]
  BY <1>1, <1>2, Stage1
<1>4. /\ IdLetter \in 1 .. Wide(t) /\ t.heads[IdLetter].name \in {"ID", HeadName["ID"]}
      /\ disk[2].heads = [c \in 1 .. Wide(t) + 1 |-> Head2(t, c)]
      /\ disk[2].rows = [r \in 1 .. Len(t.rows) |-> [c \in 1 .. Wide(t) + 1 |-> Cell2(t, r, c)]]
  BY <1>1, <1>3, Stage2
<1>5. /\ disk[3].heads = disk[2].heads
      /\ \E q : IsOrder(q, Len(t.rows)) /\ disk[3].rows = Rows3(t, q)
  BY <1>1, <1>4, Stage3
<1>6. PICK q : /\ IsOrder(q, Len(t.rows))
               /\ disk[3].rows = [k \in 1 .. Len(t.rows) |-> [c \in 1 .. Wide(t) + 1 |-> Cell3(t, q, k, c)]]
  BY <1>5 DEF Rows3
<1>7. disk[3].heads = [c \in 1 .. Wide(t) + 1 |-> Head2(t, c)]
  BY <1>4, <1>5
<1>8. /\ disk[4].heads = disk[3].heads
      /\ disk[4].rows = [k \in 1 .. Len(t.rows) |-> [c \in 1 .. Wide(t) + 1 |-> Cell5(t, q, k, c)]]
  BY <1>1, <1>4, <1>6, <1>7, Stage4
<1>9. disk[5].heads = [c \in 1 .. Wide(t) + 1 |-> Head2(t, c)] /\ disk[5].rows = disk[4].rows
  BY <1>1, <1>7, <1>8, Stage5
<1>10. disk[6].heads = [c \in 1 .. Wide(t) + 1 |-> Head6(t, c)] /\ disk[6].rows = disk[4].rows
  BY <1>1, <1>9, Stage6
<1>11. disk[6].rows = [k \in 1 .. Len(t.rows) |-> [c \in 1 .. Wide(t) + 1 |-> Cell4(t, q[k], c)]]
  <2>1. disk[6].rows = [k \in 1 .. Len(t.rows) |-> [c \in 1 .. Wide(t) + 1 |-> Cell5(t, q, k, c)]]
    BY <1>8, <1>10
  <2> QED BY <1>1, <1>4, <1>6, <1>10, <2>1, NoImageIsTaken
<1>12. disk[5].rows = [k \in 1 .. Len(t.rows) |-> [c \in 1 .. Wide(t) + 1 |-> Cell4(t, q[k], c)]]
  BY <1>9, <1>10, <1>11
<1>13. /\ disk[7].heads = [c \in 1 .. Wide(t) + 2 |-> Head7(t, c)]
       /\ disk[7].rows = [k \in 1 .. Len(t.rows) |-> [c \in 1 .. Wide(t) + 2 |-> Cell7(t, q[k], c)]]
       /\ \A j, k \in 1 .. Len(t.rows) :
             ImageName(t, q[j]) # Blank /\ ImageName(t, q[j]) = ImageName(t, q[k]) => j = k
  BY <1>1, <1>4, <1>10, <1>11, Stage7
<1>14. FilesTell(t, q)
  BY <1>3, <1>4, <1>6, <1>9, <1>12, <1>13 DEF FilesTell
<1> QED BY <1>14

\* A sheet asks for finitely many images.
LEMMA PicturedIsFinite ==
  ASSUME NEW s, NEW m \in Nat, DOMAIN s.rows = 1 .. m
  PROVE  IsFiniteSet(Pictured(s))
<1> DEFINE i == IdColumn(s)
           f == ImageColumn(s)
           p == PhotoColumn(s)
           K == {k \in 1 .. m : s.rows[k][i] # Blank /\ ValidImage(s.rows[k][f]) /\ ValidImage(s.rows[k][p])}
           g == [k \in K |-> [name |-> Via(Stripped, s.rows[k][f]), photo |-> Via(Stripped, s.rows[k][p])]]
           P == {[name |-> Via(Stripped, row[f]), photo |-> Via(Stripped, row[p])] :
                    row \in {r \in Range(s.rows) : r[i] # Blank /\ ValidImage(r[f]) /\ ValidImage(r[p])}}
<1>1. IsFiniteSet(K)
  <2>1. IsFiniteSet(1 .. m) /\ K \in SUBSET (1 .. m)
    BY FS_Interval
  <2> HIDE DEF K
  <2> QED BY <2>1, FS_Subset
<1>2. IsFiniteSet(P)
  <2>1. g \in Surjection(K, P)
    <3>1. ASSUME NEW k \in K PROVE g[k] \in P
      BY DEF Range
    <3>2. ASSUME NEW x \in P PROVE \E k \in K : g[k] = x
      <4>1. PICK r \in Range(s.rows) : /\ r[i] # Blank /\ ValidImage(r[f]) /\ ValidImage(r[p])
                                      /\ x = [name |-> Via(Stripped, r[f]), photo |-> Via(Stripped, r[p])]
        OBVIOUS
      <4>2. PICK k \in 1 .. m : r = s.rows[k]
        BY DEF Range
      <4>3. k \in K
        BY <4>1, <4>2
      <4> QED BY <4>1, <4>2, <4>3
    <3>3. g = [k \in K |-> g[k]]
      OBVIOUS
    <3> HIDE DEF g, K, P
    <3> QED BY <3>1, <3>2, <3>3 DEF Surjection
  <2> HIDE DEF g, K, P
  <2> QED BY <1>1, <2>1, FS_Surjection
<1>3. Pictured(s) = {} \/ Pictured(s) = P
  BY DEF Pictured
<1> HIDE DEF P
<1> QED BY <1>2, <1>3, FS_EmptySet

\* Once the run is past script 7, its files are of one table.
LEMMA LinkedFiles ==
  ASSUME RunInv, Numbers, Linked, run.step > 7
  PROVE  \E t \in Tables : \E q : FilesTell(t, q)
<1>1. \A i \in 0 .. 7 : i \in Outputs /\ i < run.step
  BY DEF Numbers, Outputs, Scripts, ImageScript, CheckScript
<1> QED BY <1>1, FilesOfOneTable DEF Linked

\* So when script 10 runs, finitely many images are asked for.
LEMMA ImagesAreFinite ==
  ASSUME RunInv, Numbers, Linked, run.step = ImageScript
  PROVE  IsFiniteSet(Pictured(disk[Pathed]))
<1>t. PICK t \in Tables : \E q : FilesTell(t, q)
  BY LinkedFiles DEF ImageScript
<1>1. PICK q : FilesTell(t, q)
  BY <1>t
<1>2. Len(t.rows) \in Nat
  BY ShapeOfTable
<1>3. DOMAIN disk[7].rows = 1 .. Len(t.rows)
  BY <1>1 DEF FilesTell
<1> QED BY <1>2, <1>3, PicturedIsFinite DEF Pathed

\* A new run has no file and no image of its own yet.
LEMMA NewRun ==
  ASSUME Numbers, Served, run'.n = run.n + 1, run'.step = 0, UNCHANGED <<table, folder>>,
         run'.phase = "ended" => run'.code # 0
  PROVE  Numbers' /\ Linked' /\ Served'
<1>1. Numbers'
  BY DEF Numbers
<1>2. Linked'
  <2>1. \A i \in Outputs : ~(i < 0)
    BY DEF Outputs, Scripts
  <2> QED BY <2>1 DEF Linked
<1>3. Served'
  <2>1. ASSUME NEW f \in folder PROVE f.run \in Nat /\ f.run <= run'.n /\ f.run # run'.n
    <3>1. f.run \in Nat /\ f.run <= run.n /\ run.n \in Nat
      BY DEF Served, Serves, Numbers
    <3> QED BY <3>1
  <2>2. ~(run'.step > ImageScript)
    BY DEF ImageScript
  <2>3. \A x : Serves(x)'
    BY <2>1, <2>2 DEF Serves
  <2> QED BY <2>3 DEF Served
<1> QED BY <1>1, <1>2, <1>3

\* What is of the run stays so while its files, its images and its step do.
LEMMA StaysServed ==
  ASSUME Numbers, Linked, Served, UNCHANGED <<disk, folder>>,
         run'.n = run.n, run'.path = run.path, run'.step = run.step, table' \in Tables \cup {None},
         run'.phase = "ended" /\ run'.code = 0 => run.step = 13
  PROVE  Numbers' /\ Linked' /\ Served'
<1>1. Numbers'
  BY DEF Numbers
<1>2. Linked'
  <2>1. ASSUME NEW i \in Outputs, i < run'.step PROVE IsLinked(i)'
    <3>1. IsLinked(i) /\ \A j \in Outputs : j <= i => disk'[j] = disk[j]
      BY <2>1 DEF Linked
    <3> QED BY <3>1, StillLinked
  <2>2. run'.step = 13 => 0 \notin {IdColumn(disk[Csv]), ImageColumn(disk[Csv])}'
    BY DEF Linked
  <2> QED BY <2>1, <2>2 DEF Linked
<1>3. Served'
  <2>1. \A x : Serves(x) => Serves(x)'
    BY DEF Serves
  <2>2. Pictured(disk[Pathed])' = Pictured(disk[Pathed])
    OBVIOUS
  <2> QED BY <2>1, <2>2 DEF Served
<1> QED BY <1>1, <1>2, <1>3

\* No run yet.
LEMMA ChainInvInit ==
  ASSUME ChainInit
  PROVE  ChainInv
<1>1. run = NoRun /\ folder = {} /\ table \in Tables
  BY DEF ChainInit
<1>2. run.n = 0 /\ run.step = 0 /\ run.code = 1
  BY <1>1 DEF NoRun
<1>3. Numbers
  BY <1>1, <1>2 DEF Numbers
<1>4. Linked
  <2>1. \A i \in Outputs : ~(i < 0)
    BY DEF Outputs, Scripts
  <2> QED BY <1>2, <2>1 DEF Linked
<1>5. \A x : Serves(x)
  BY <1>1, <1>2 DEF Serves, ImageScript
<1> QED BY <1>3, <1>4, <1>5, RunInvInit DEF ChainInv, Served

\* What a run holds of its files and images stays true at every step.
LEMMA ChainInvStep ==
  ASSUME ChainInv, [Next]_vars
  PROVE  ChainInv'
<1> SUFFICES Numbers' /\ Linked' /\ Served'
  BY RunInvStep DEF ChainInv
<1>1. /\ RunInv /\ Numbers /\ Linked /\ Served
      /\ DOMAIN disk = Outputs /\ DOMAIN run = RunFields /\ table \in Tables \cup {None}
  BY DEF ChainInv, RunInv, Numbers
<1>2. ASSUME NEW i \in Scripts, run.step = i, i = ImageScript PROVE IsFiniteSet(Pictured(disk[Pathed]))
  BY <1>1, <1>2, ImagesAreFinite
<1>3. CASE Give
  <2>1. run' = Ended(NextRun, 1) /\ UNCHANGED <<table, folder>>
    BY <1>3 DEF Give
  <2>2. run'.n = run.n + 1 /\ run'.step = 0 /\ run'.code = 1
    BY <2>1 DEF Ended, NextRun, NoRun
  <2> QED BY <1>1, <2>1, <2>2, NewRun
<1>4. ASSUME NEW path, NEW copied, Begin(path, copied) PROVE Numbers' /\ Linked' /\ Served'
  <2>1. /\ UNCHANGED <<table, folder>>
        /\ run' = [NextRun EXCEPT !.phase = "chain", !.path = path,
                 !.warned = (ToBackUp \ copied) \cup (IF folder # {} THEN {ImageScript} ELSE {})]
    BY <1>4 DEF Begin
  <2>2. run'.n = run.n + 1 /\ run'.step = 0 /\ run'.phase = "chain"
    BY <2>1 DEF NextRun, NoRun
  <2> QED BY <1>1, <2>1, <2>2, NewRun
<1>5. ASSUME NEW i \in Scripts, run.phase = "chain", run.step = i,
             NEW o, IsLeft(i, o), ImagesLeft(i, o), Executed(i, o), o.code = 0 => o = Done(i) /\ Passes(i)
      PROVE  Numbers' /\ Linked' /\ Served'
  <2>1. disk' = o.disk /\ folder' = o.folder /\ table' = table
    BY <1>5 DEF Executed
  <2>2. /\ run'.n = run.n /\ run'.path = run.path /\ run'.phase # "ended"
        /\ run'.step = i \/ (run'.step = i + 1 /\ o = Done(i) /\ Passes(i))
    <3>1. CASE Counts(i, o)
      <4>1. run' = [run EXCEPT !.executed = @ + 1, !.created = @ \cup {i}, !.step = i + 1,
                               !.phase = IF i = CheckScript THEN "report" ELSE "chain"]
        BY <1>5, <3>1 DEF Executed
      <4>2. run'.n = run.n /\ run'.path = run.path /\ run'.phase # "ended" /\ run'.step = i + 1
        BY <1>1, <4>1 DEF RunFields
      <4> QED BY <1>5, <3>1, <4>2 DEF Counts
    <3>2. CASE ~Counts(i, o)
      <4>1. run' = [run EXCEPT !.errors = @ + 1, !.phase = "report"]
        BY <1>5, <3>2 DEF Executed
      <4>2. run'.n = run.n /\ run'.path = run.path /\ run'.phase # "ended" /\ run'.step = run.step
        BY <1>1, <4>1 DEF RunFields
      <4> QED BY <1>5, <4>2
    <3> QED BY <3>1, <3>2
  <2> QED BY <1>2, <1>5, <2>1, <2>2, ScriptKeeps
<1>6. ASSUME NEW i \in Scripts, RunScript(i) PROVE Numbers' /\ Linked' /\ Served'
  <2> DEFINE o == IF Passes(i) THEN Done(i) ELSE Refused(i)
  <2>1. run.phase = "chain" /\ run.step = i /\ Executed(i, o)
    BY <1>6 DEF RunScript
  <2>2. IsLeft(i, o) /\ ImagesLeft(i, o) /\ (o.code = 0 => o = Done(i) /\ Passes(i))
    BY <1>1, LeftByAScript, LeftInTheFolder
  <2> HIDE DEF o
  <2> QED BY <1>5, <2>1, <2>2
<1>7. ASSUME NEW i \in Scripts, ScriptFails(i) PROVE Numbers' /\ Linked' /\ Served'
  <2>1. run.phase = "chain" /\ run.step = i /\ \E o \in CutShort(i) : Executed(i, o)
    BY <1>7 DEF ScriptFails
  <2>2. PICK o \in CutShort(i) : Executed(i, o)
    BY <2>1
  <2>3. IsLeft(i, o) /\ ImagesLeft(i, o) /\ o.code # 0
    BY <1>1, LeftByAScript, LeftInTheFolder
  <2> QED BY <1>5, <2>1, <2>2, <2>3
<1>8. ASSUME NEW i \in Scripts, Interrupt(i) PROVE Numbers' /\ Linked' /\ Served'
  <2>1. /\ run.step = i /\ run' = Ended(run, 1) /\ table' = table
        /\ \E o \in CutShort(i) \cup {Done(i)} : disk' = o.disk /\ folder' = o.folder
    BY <1>8 DEF Interrupt
  <2>2. PICK o \in CutShort(i) \cup {Done(i)} : disk' = o.disk /\ folder' = o.folder
    BY <2>1
  <2>3. IsLeft(i, o) /\ ImagesLeft(i, o)
    BY <1>1, LeftByAScript, LeftInTheFolder
  <2>4. run'.n = run.n /\ run'.path = run.path /\ run'.step = run.step /\ run'.code = 1
    BY <1>1, <2>1 DEF Ended, RunFields
  <2> QED BY <1>2, <2>1, <2>2, <2>3, <2>4, ScriptKeeps
<1>9. CASE WriteReport
  <2>1. /\ run.phase = "report" /\ UNCHANGED <<table, disk, folder>>
        /\ run' = Ended([run EXCEPT !.report = Status(run)], IF run.errors = 0 THEN 0 ELSE 1)
    BY <1>9 DEF WriteReport
  <2>2. /\ run'.n = run.n /\ run'.path = run.path /\ run'.step = run.step
        /\ run'.code = IF run.errors = 0 THEN 0 ELSE 1
    BY <1>1, <2>1 DEF Ended, RunFields
  <2>3. run'.code = 0 => run.step = 13
    <3>1. run.errors # 0 => run'.code # 0
      BY <2>2
    <3>2. run.errors = 0 => run.step = 13
      BY <1>1, <2>1 DEF RunInv
    <3> QED BY <3>1, <3>2
  <2> QED BY <1>1, <2>1, <2>2, <2>3, StaysServed
<1>10. CASE ReportFails
  <2>1. run' = Ended(run, 1) /\ UNCHANGED <<table, disk, folder>>
    BY <1>10 DEF ReportFails
  <2>2. run'.n = run.n /\ run'.path = run.path /\ run'.step = run.step /\ run'.code = 1
    BY <1>1, <2>1 DEF Ended, RunFields
  <2> QED BY <1>1, <2>1, <2>2, StaysServed
<1>11. ASSUME Withdraw \/ (\E t \in Tables : Deposit(t)) \/ (\E g \in Galleries : ChangeImages(g)) \/ UNCHANGED vars
       PROVE  Numbers' /\ Linked' /\ Served'
  <2>1. UNCHANGED <<disk, folder, run>> /\ table' \in Tables \cup {None}
    BY <1>1, <1>11 DEF Withdraw, Deposit, ChangeImages, vars
  <2>2. run.phase = "ended" /\ run.code = 0 => run.step = 13
    BY <1>1 DEF Numbers
  <2> QED BY <1>1, <2>1, <2>2, StaysServed
<1> QED BY <1>3, <1>4, <1>6, <1>7, <1>8, <1>9, <1>10, <1>11 DEF Next

-----------------------------------------------------------------------------
(***************************************************************************)
(* Columns, and the sheet without what is empty (8-optimize).              *)
(***************************************************************************)

\* A set of numbers has a least one.
LEMMA FirstPlace ==
  ASSUME NEW I \in SUBSET Nat, I # {}
  PROVE  \E i \in I : \A j \in I : i <= j
<1> DEFINE Less == {p \in Nat \X Nat : p[1] < p[2]}
<1>1. IsWellFoundedOn(Less, Nat)
  BY Zenon, NatLessThanWellFounded DEF OpToRel
<1>2. PICK i \in I : \A j \in I : ~(<<j, i>> \in Less)
  BY <1>1, WFMin
<1>3. ASSUME NEW j \in I PROVE i <= j
  <2>1. i \in Nat /\ j \in Nat
    OBVIOUS
  <2>2. j < i => <<j, i>> \in Less
    BY <2>1
  <2> QED BY <1>2, <2>1, <2>2
<1> QED BY <1>3

\* the columns of these names and letters
Fitting(s, names, letters) ==
    {c \in DOMAIN s.heads : s.heads[c].name \in names /\ s.heads[c].letter \in letters}

\* The column that is found is the first that fits, or there is none.
LEMMA FirstColumn ==
  ASSUME NEW s, NEW n \in Nat, DOMAIN s.heads = 1 .. n, NEW names, NEW letters
  PROVE  /\ Column(s, names, letters) = 0 <=> Fitting(s, names, letters) = {}
         /\ Column(s, names, letters) # 0 =>
               /\ Column(s, names, letters) \in Fitting(s, names, letters)
               /\ \A d \in Fitting(s, names, letters) : Column(s, names, letters) <= d
<1> DEFINE cs == Fitting(s, names, letters)
           c == Column(s, names, letters)
<1>1. c = IF cs = {} THEN 0 ELSE CHOOSE x \in cs : \A d \in cs : x <= d
  BY DEF Column, Fitting
<1>2. cs \in SUBSET (1 .. n)
  BY DEF Fitting
<1> HIDE DEF cs
<1>3. cs # {} => \E x \in cs : \A d \in cs : x <= d
  BY <1>2, FirstPlace
<1>4. cs # {} => c \in cs /\ \A d \in cs : c <= d
  BY <1>1, <1>3
<1>5. 0 \notin cs
  BY <1>2
<1> HIDE DEF c
<1> QED BY <1>1, <1>4, <1>5 DEF c, cs

\* the numbers of a set in their order
IsListOf(f, l, P) == /\ f \in [1 .. l -> P]
                     /\ \A j, k \in 1 .. l : j < k => f[j] < f[k]
                     /\ \A i \in P : \E j \in 1 .. l : f[j] = i

Items(s, f, l) == [j \in 1 .. l |-> s[f[j]]]

\* What is picked is what is at the places, each once and in order.
LEMMA PickedItems ==
  ASSUME NEW s, NEW n \in Nat, NEW P \in SUBSET (1 .. n)
  PROVE  /\ Cardinality(P) \in Nat
         /\ \E f : /\ IsListOf(f, Cardinality(P), P)
                  /\ Picked(s, P) = Items(s, f, Cardinality(P))
<1> DEFINE c == Cardinality(P)
           upTo(i) == {p \in P : p <= i}
           r == [i \in P |-> Cardinality(upTo(i))]
           f == [j \in 1 .. c |-> CHOOSE i \in P : Cardinality(upTo(i)) = j]
<1>2. IsFiniteSet(P) /\ c \in Nat /\ P \in SUBSET Nat
  <2>1. IsFiniteSet(1 .. n)
    BY FS_Interval
  <2>2. IsFiniteSet(P)
    BY <2>1, FS_Subset
  <2> QED BY <2>1, <2>2, FS_CardinalityType
<1>3. ASSUME NEW i \in P
      PROVE  /\ IsFiniteSet(upTo(i)) /\ Cardinality(upTo(i)) \in 1 .. c
  <2>1. IsFiniteSet(upTo(i)) /\ Cardinality(upTo(i)) <= c /\ Cardinality(upTo(i)) \in Nat
    BY <1>2, FS_Subset, FS_CardinalityType
  <2>2. Cardinality(upTo(i)) # 0
    <3>1. i \in upTo(i)
      BY <1>2
    <3> QED BY <2>1, <3>1, FS_EmptySet
  <2> QED BY <1>2, <2>1, <2>2
<1>4. ASSUME NEW i \in P, NEW k \in P, i < k
      PROVE  Cardinality(upTo(i)) < Cardinality(upTo(k))
  <2>1. upTo(i) \in SUBSET upTo(k) /\ k \in upTo(k) /\ k \notin upTo(i)
    <3>1. i \in Nat /\ k \in Nat /\ \A p \in P : p \in Nat
      BY <1>2
    <3>2. /\ \A p : p \in upTo(i) <=> p \in P /\ p <= i
          /\ \A p : p \in upTo(k) <=> p \in P /\ p <= k
      OBVIOUS
    <3> HIDE DEF upTo
    <3>3. \A p \in P : p <= i => p <= k
      BY <1>4, <3>1
    <3>4. ~(k <= i) /\ k <= k
      BY <1>4, <3>1
    <3> QED BY <3>2, <3>3, <3>4
  <2>2. Cardinality(upTo(i)) <= Cardinality(upTo(k)) /\ Cardinality(upTo(i)) # Cardinality(upTo(k))
    BY <1>3, <2>1, FS_Subset
  <2>3. Cardinality(upTo(i)) \in 1 .. c /\ Cardinality(upTo(k)) \in 1 .. c
    BY <1>3
  <2> HIDE DEF upTo, c
  <2> QED BY <1>2, <2>2, <2>3
<1>5. r \in Injection(P, 1 .. c)
  <2>1. \A i \in P : r[i] = Cardinality(upTo(i))
    OBVIOUS
  <2>2. r \in [P -> 1 .. c]
    BY <1>3
  <2> HIDE DEF r, upTo
  <2>3. \A i, k \in P : r[i] = r[k] => i = k
    BY <1>2, <1>3, <1>4, <2>1
  <2> QED BY <2>2, <2>3 DEF Injection, IsInjective
<1>6. r \in Surjection(P, 1 .. c)
  <2>1. IsFiniteSet(1 .. c) /\ Cardinality(1 .. c) = c
    BY <1>2, FS_Interval
  <2> HIDE DEF r
  <2> QED BY <1>2, <1>5, <2>1, FS_Injection
<1>7. ASSUME NEW j \in 1 .. c
      PROVE  f[j] \in P /\ Cardinality(upTo(f[j])) = j
  <2>1. \E i \in P : r[i] = j
    BY <1>6 DEF Surjection
  <2>2. \E i \in P : Cardinality(upTo(i)) = j
    BY <2>1
  <2>3. f[j] = CHOOSE i \in P : Cardinality(upTo(i)) = j
    OBVIOUS
  <2> HIDE DEF f, upTo
  <2> QED BY <2>2, <2>3
<1>8. Picked(s, P) = [j \in 1 .. c |-> s[f[j]]]
  BY DEF Picked
<1> HIDE DEF r, upTo, c
<1>9. f \in [1 .. c -> P]
  <2>1. f = [j \in 1 .. c |-> f[j]]
    OBVIOUS
  <2> HIDE DEF f
  <2> QED BY <1>7, <2>1
<1> HIDE DEF f
<1>10. ASSUME NEW j \in 1 .. c, NEW k \in 1 .. c, j < k
       PROVE  f[j] < f[k]
  <2>1. f[j] \in Nat /\ f[k] \in Nat
    BY <1>2, <1>7
  <2>2. f[k] < f[j] => k < j
    BY <1>4, <1>7
  <2>3. f[j] = f[k] => j = k
    BY <1>7
  <2>4. ~(f[k] < f[j]) /\ f[j] # f[k]
    BY <1>10, <2>2, <2>3
  <2> QED BY <2>1, <2>4
<1>11. ASSUME NEW i \in P
       PROVE  \E j \in 1 .. c : f[j] = i
  <2> DEFINE j == Cardinality(upTo(i))
  <2>1. j \in 1 .. c
    BY <1>3
  <2>2. f[j] \in P /\ Cardinality(upTo(f[j])) = j
    BY <1>7, <2>1
  <2> HIDE DEF j
  <2>3. f[j] \in Nat /\ i \in Nat /\ j \in Nat
    <3>1. \A p \in P : p \in Nat
      BY <1>2
    <3>2. f[j] \in Nat /\ i \in Nat
      BY <2>2, <3>1
    <3>3. c \in Nat
      BY <1>2
    <3>4. j \in Nat
      BY <2>1, <3>3
    <3> QED BY <3>2, <3>4
  <2>4. (f[j] < i => j < j) /\ (i < f[j] => j < j)
    BY <1>4, <2>2 DEF j
  <2> QED BY <2>1, <2>3, <2>4
<1>12. IsListOf(f, c, P)
  BY <1>9, <1>10, <1>11 DEF IsListOf
<1> QED BY <1>2, <1>8, <1>12 DEF c, Items

\* Cleaning is done once, and keeps what is empty so.
LEMMA CleanOnce ==
  ASSUME NEW x
  PROVE  /\ Via(CleanText, Via(CleanText, x)) = Via(CleanText, x)
         /\ Empty(Via(CleanText, x)) <=> Empty(x)
         /\ Via(CleanText, x) = Blank => x = Blank
         /\ Empty(Blank) /\ Empty(NA)
<1>1. Via(CleanText, Via(CleanText, x)) = Via(CleanText, x)
  BY TextAssumption DEF Via
<1>2. Empty(Via(CleanText, x)) <=> Empty(x)
  BY <1>1 DEF Empty
<1>3. Via(CleanText, x) = Blank => x = Blank
  BY TextAssumption DEF Via
<1>4. Via(CleanText, Blank) = Blank /\ Via(CleanText, NA) = NA
  BY TextAssumption DEF Via
<1>5. Empty(Blank) /\ Empty(NA)
  BY <1>4 DEF Empty
<1> QED BY <1>1, <1>2, <1>3, <1>5

\* a column with a cell that is not empty
Saying(s, n, m) == {c \in 1 .. n : \E k \in 1 .. m : ~Empty(s.rows[k][c])}

\* a sheet made of these columns and these rows of another
IsPartOf(p, s, n, m, cols, w, at, l) ==
    /\ w \in Nat /\ IsListOf(cols, w, Saying(s, n, m))
    /\ p.heads = [d \in 1 .. w |-> s.heads[cols[d]]]
    /\ l \in Nat /\ at \in [1 .. l -> 1 .. m] /\ \A j, k \in 1 .. l : j < k => at[j] < at[k]
    /\ p.rows = [j \in 1 .. l |-> [d \in 1 .. w |-> Via(CleanText, s.rows[at[j]][cols[d]])]]
    /\ IdColumn(p) # 0 =>
          \A k \in 1 .. m : (\E j \in 1 .. l : at[j] = k) <=> ~Empty(s.rows[k][cols[IdColumn(p)]])

\* Script 8 keeps the columns that say something, and the rows with an identifier.
LEMMA Optimised ==
  ASSUME NEW s, NEW n \in Nat, NEW m \in Nat, DOMAIN s = {"heads", "rows", "run", "whole"},
         DOMAIN s.heads = 1 .. n, DOMAIN s.rows = 1 .. m, \A k \in 1 .. m : DOMAIN s.rows[k] = 1 .. n
  PROVE  \E cols, w, at, l : IsPartOf(Optimise(s), s, n, m, cols, w, at, l)
<1> DEFINE clean == WithRows(s, LAMBDA row : [c \in DOMAIN row |-> Via(CleanText, row[c])])
           Says(c) == \E k \in DOMAIN clean.rows : ~Empty(clean.rows[k][c])
           P == {c \in DOMAIN s.heads : Says(c)}
           id == [c \in DOMAIN s.heads |-> c]
           cols == Picked(id, P)
           narrow == [heads |-> [c \in DOMAIN cols |-> clean.heads[cols[c]]],
                      rows |-> [k \in DOMAIN clean.rows |-> [c \in DOMAIN cols |-> clean.rows[k][cols[c]]]]]
           Kept(row) == IF IdColumn(narrow) # 0 THEN ~Empty(row[IdColumn(narrow)])
                        ELSE \E c \in DOMAIN row : ~Empty(row[c])
           K == {k \in DOMAIN narrow.rows : Kept(narrow.rows[k])}
           w == Cardinality(P)
           l == Cardinality(K)
<1>1. Optimise(s) = [narrow EXCEPT !.rows = Picked(narrow.rows, K)]
  BY DEF Optimise
<1>2. /\ clean.heads = s.heads /\ DOMAIN clean.rows = 1 .. m
      /\ \A k \in 1 .. m : \A c \in 1 .. n : clean.rows[k][c] = Via(CleanText, s.rows[k][c])
  <2>1. clean = [s EXCEPT !.rows = [k \in DOMAIN s.rows |-> [c \in DOMAIN s.rows[k] |-> Via(CleanText, s.rows[k][c])]]]
    BY DEF WithRows
  <2>2. clean.heads = s.heads
    BY <2>1
  <2>3. clean.rows = [k \in 1 .. m |-> [c \in DOMAIN s.rows[k] |-> Via(CleanText, s.rows[k][c])]]
    BY <2>1
  <2> HIDE DEF clean
  <2> QED BY <2>2, <2>3
<1> HIDE DEF clean
<1>3. P = Saying(s, n, m)
  <2> HIDE DEF P, id, cols, narrow, Kept, K, w, l
  <2>1. ASSUME NEW c \in 1 .. n
        PROVE  Says(c) <=> \E k \in 1 .. m : ~Empty(s.rows[k][c])
    <3>1. ASSUME NEW k \in 1 .. m
          PROVE  Empty(clean.rows[k][c]) <=> Empty(s.rows[k][c])
      <4>1. clean.rows[k][c] = Via(CleanText, s.rows[k][c])
        BY <1>2
      <4> QED BY <4>1, CleanOnce, Zenon
    <3>2. Says(c) <=> \E k \in 1 .. m : ~Empty(clean.rows[k][c])
      BY <1>2, Zenon
    <3> HIDE DEF Says
    <3> QED BY <3>1, <3>2, Zenon
  <2> HIDE DEF Says
  <2>2. P = {c \in 1 .. n : Says(c)}
    BY DEF P
  <2> QED BY <2>1, <2>2 DEF Saying
<1>4. P \in SUBSET (1 .. n)
  OBVIOUS
<1> HIDE DEF P
<1>5. /\ w \in Nat
      /\ \E f : /\ IsListOf(f, w, P)
               /\ cols = Items(id, f, w)
  <2> HIDE DEF id
  <2> QED BY <1>4, PickedItems
<1>6. IsListOf(cols, w, P) /\ DOMAIN cols = 1 .. w /\ \A j \in 1 .. w : cols[j] \in 1 .. n
  <2> HIDE DEF cols, w
  <2>1. PICK f : IsListOf(f, w, P) /\ cols = Items(id, f, w)
    BY <1>5
  <2>2. f \in [1 .. w -> P]
    BY <2>1 DEF IsListOf
  <2>3. \A j \in 1 .. w : f[j] \in 1 .. n
    BY <1>4, <2>2
  <2>4. cols = f
    BY <2>1, <2>2, <2>3 DEF Items
  <2> QED BY <2>1, <2>2, <2>3, <2>4
<1> HIDE DEF cols, w
<1>7. /\ narrow.heads = [d \in 1 .. w |-> s.heads[cols[d]]]
      /\ DOMAIN narrow.rows = 1 .. m
      /\ \A k \in 1 .. m : narrow.rows[k] = [d \in 1 .. w |-> Via(CleanText, s.rows[k][cols[d]])]
  BY <1>2, <1>6
<1>8. K \in SUBSET (1 .. m)
  BY <1>7
<1>9. \A x : [narrow EXCEPT !.rows = x].heads = narrow.heads /\ [narrow EXCEPT !.rows = x].rows = x
  OBVIOUS
<1>10. \A k \in 1 .. m : k \in K <=> Kept(narrow.rows[k])
  BY <1>7
<1> HIDE DEF narrow
<1>11. IdColumn(Optimise(s)) = IdColumn(narrow)
  <2>1. Optimise(s).heads = narrow.heads
    BY <1>1, <1>9
  <2> QED BY <2>1 DEF IdColumn, Column
<1>12. ASSUME IdColumn(narrow) # 0
       PROVE  \A k \in 1 .. m : k \in K <=> ~Empty(s.rows[k][cols[IdColumn(narrow)]])
  <2>1. IdColumn(narrow) \in 1 .. w
    <3>1. DOMAIN narrow.heads = 1 .. w
      BY <1>7
    <3>2. IdColumn(narrow) \in Fitting(narrow, {"ID", HeadName["ID"]}, {IdLetter})
      BY <1>5, <1>12, <3>1, FirstColumn DEF IdColumn
    <3> QED BY <3>1, <3>2 DEF Fitting
  <2>2. \A k \in 1 .. m : Kept(narrow.rows[k]) <=> ~Empty(narrow.rows[k][IdColumn(narrow)])
    BY <1>12
  <2>3. \A k \in 1 .. m : narrow.rows[k][IdColumn(narrow)] = Via(CleanText, s.rows[k][cols[IdColumn(narrow)]])
    <3> DEFINE i == IdColumn(narrow)
    <3>1. i \in 1 .. w
      BY <2>1
    <3> HIDE DEF i
    <3>2. ASSUME NEW k \in 1 .. m PROVE narrow.rows[k][i] = Via(CleanText, s.rows[k][cols[i]])
      <4>1. narrow.rows[k] = [d \in 1 .. w |-> Via(CleanText, s.rows[k][cols[d]])]
        BY <1>7
      <4> HIDE DEF Says, Kept, K, l
      <4> QED BY <3>1, <4>1, Zenon
    <3> QED BY <3>2 DEF i
  <2> HIDE DEF K, Kept
  <2> QED BY <1>10, <2>2, <2>3, CleanOnce
<1> HIDE DEF K
<1>13. /\ l \in Nat
       /\ \E f : IsListOf(f, l, K) /\ Picked(narrow.rows, K) = Items(narrow.rows, f, l)
  BY <1>8, PickedItems
<1>14. PICK at : IsListOf(at, l, K) /\ Picked(narrow.rows, K) = [j \in 1 .. l |-> narrow.rows[at[j]]]
  BY <1>13 DEF Items
<1> HIDE DEF l
<1>15. at \in [1 .. l -> 1 .. m] /\ \A k \in 1 .. m : (\E j \in 1 .. l : at[j] = k) <=> k \in K
  <2>1. at \in [1 .. l -> K] /\ \A k \in K : \E j \in 1 .. l : at[j] = k
    BY <1>14 DEF IsListOf
  <2> QED BY <1>8, <2>1, ZenonT(60)
<1>16. Optimise(s).rows = [j \in 1 .. l |-> [d \in 1 .. w |-> Via(CleanText, s.rows[at[j]][cols[d]])]]
  <2>1. Optimise(s).rows = [j \in 1 .. l |-> narrow.rows[at[j]]]
    BY <1>1, <1>9, <1>14
  <2>2. \A j \in 1 .. l : narrow.rows[at[j]] = [d \in 1 .. w |-> Via(CleanText, s.rows[at[j]][cols[d]])]
    BY <1>7, <1>15
  <2> QED BY <2>1, <2>2
<1>17. Optimise(s).heads = [d \in 1 .. w |-> s.heads[cols[d]]]
  BY <1>1, <1>7, <1>9
<1>18. \A j, k \in 1 .. l : j < k => at[j] < at[k]
  BY <1>14 DEF IsListOf
<1>19. IsPartOf(Optimise(s), s, n, m, cols, w, at, l)
  BY <1>3, <1>5, <1>6, <1>11, <1>12, <1>13, <1>15, <1>16, <1>17, <1>18 DEF IsPartOf
<1> QED BY <1>19

\* the headers of p are those of s at these columns
TakenFrom(p, s, cols, w) == DOMAIN p.heads = 1 .. w /\ \A d \in 1 .. w : p.heads[d] = s.heads[cols[d]]

\* the column found in p and that found in s
FoundInBoth(p, s, n, m, w, cols, names, letters) ==
    LET c == Column(s, names, letters)
        e == Column(p, names, letters)
    IN /\ e # 0 => e \in 1 .. w /\ cols[e] \in Fitting(s, names, letters)
       /\ c \in Saying(s, n, m) => e # 0 /\ cols[e] = c

\* A column found in the part is one that fits in the sheet, and the column
\* found in the sheet is found in the part if it is kept.
LEMMA KeptColumn ==
  ASSUME NEW s, NEW p, NEW n \in Nat, NEW m, NEW w \in Nat, DOMAIN s.heads = 1 .. n,
         NEW cols, IsListOf(cols, w, Saying(s, n, m)), TakenFrom(p, s, cols, w), NEW names, NEW letters
  PROVE  FoundInBoth(p, s, n, m, w, cols, names, letters)
<1> DEFINE c == Column(s, names, letters)
           e == Column(p, names, letters)
<1>1. DOMAIN p.heads = 1 .. w /\ \A d \in 1 .. w : p.heads[d] = s.heads[cols[d]]
  BY DEF TakenFrom
<1>2. cols \in [1 .. w -> Saying(s, n, m)] /\ Saying(s, n, m) \subseteq 1 .. n
  BY DEF IsListOf, Saying
<1>3. \A d \in 1 .. w : d \in Fitting(p, names, letters) <=> cols[d] \in Fitting(s, names, letters)
  BY <1>1, <1>2 DEF Fitting
<1>4. Fitting(p, names, letters) \subseteq 1 .. w
  BY <1>1 DEF Fitting
<1>5. e # 0 => e \in Fitting(p, names, letters) /\ \A d \in Fitting(p, names, letters) : e <= d
  BY <1>1, FirstColumn
<1>6. e = 0 => Fitting(p, names, letters) = {}
  BY <1>1, FirstColumn
<1>7. c # 0 => c \in Fitting(s, names, letters) /\ \A d \in Fitting(s, names, letters) : c <= d
  BY FirstColumn
<1> HIDE DEF c, e
<1>8. ASSUME c \in Saying(s, n, m) PROVE e # 0 /\ cols[e] = c
  <2>1. c # 0 /\ c \in Nat
    BY <1>2, <1>8
  <2>2. PICK d \in 1 .. w : cols[d] = c
    BY <1>8 DEF IsListOf
  <2>3. d \in Fitting(p, names, letters)
    BY <1>3, <1>7, <2>1, <2>2
  <2>4. e # 0 /\ e \in 1 .. w /\ e <= d
    BY <1>4, <1>5, <1>6, <2>3
  <2>5. c <= cols[e]
    BY <1>3, <1>5, <1>7, <2>1, <2>4
  <2>6. e < d => cols[e] < cols[d]
    BY <2>4 DEF IsListOf
  <2>7. cols[e] \in Nat
    BY <1>2, <2>4
  <2>8. e = d
    BY <2>1, <2>2, <2>4, <2>5, <2>6, <2>7
  <2> QED BY <2>2, <2>4, <2>8
<1> QED BY <1>3, <1>4, <1>5, <1>8 DEF c, e, FoundInBoth

\* The columns of the file of script 7 are told apart by their letters.
LEMMA ColumnsOf7 ==
  ASSUME NEW t \in Tables, NEW q, FilesTell(t, q)
  PROVE  LET n == Wide(t) + 2
             s == disk[7]
         IN /\ n \in Nat /\ Len(t.rows) \in Nat /\ IdLetter \in Nat \ {0} /\ IdLetter + 2 <= n
            /\ DOMAIN s.heads = 1 .. n /\ DOMAIN s.rows = 1 .. Len(t.rows)
            /\ \A k \in 1 .. Len(t.rows) : s.rows[k] = [c \in 1 .. n |-> Cell7(t, q[k], c)]
            /\ \A c \in 1 .. n : s.heads[c] = Head7(t, c)
            /\ Fitting(s, {HeadName["image-id"]}, {0}) = {IdLetter + 1}
            /\ Fitting(s, {"@pathimg"}, {0}) = {IdLetter + 2}
            /\ Fitting(s, {"ID", HeadName["ID"]}, {IdLetter}) \subseteq {IdLetter}
<1> DEFINE n == Wide(t) + 2
           s == disk[7]
           a == IdLetter
<1>1. n \in Nat /\ Len(t.rows) \in Nat /\ a \in Nat \ {0} /\ a + 2 <= n
  <2>1. Wide(t) \in Nat /\ Len(t.rows) \in Nat /\ a \in 1 .. Wide(t)
    BY ShapeOfTable DEF FilesTell
  <2> QED BY <2>1
<1>2. /\ DOMAIN s.heads = 1 .. n /\ DOMAIN s.rows = 1 .. Len(t.rows)
      /\ \A k \in 1 .. Len(t.rows) : s.rows[k] = [c \in 1 .. n |-> Cell7(t, q[k], c)]
      /\ \A c \in 1 .. n : s.heads[c] = Head7(t, c)
  BY DEF FilesTell
<1> HIDE DEF n, s
<1>3. \A c \in 1 .. n : /\ Head7(t, c).letter = 0 <=> c = a + 1 \/ c = a + 2
                        /\ Head7(t, c).letter = a => c = a
  BY <1>1 DEF Head7, Source7
<1>4. Head7(t, a + 1).name = HeadName["image-id"] /\ Head7(t, a + 2).name = "@pathimg"
  BY <1>1 DEF Head7
<1>5. HeadName["image-id"] # "@pathimg"
  <2>1. HeadName["image-id"] \in Range(HeadName)
    BY HeadAssumption, Zenon DEF Range
  <2>2. "@pathimg" \notin Range(HeadName)
    BY HeadAssumption, Zenon
  <2> QED BY <2>1, <2>2
<1>6. a + 1 \in 1 .. n /\ a + 2 \in 1 .. n
  BY <1>1
<1>7. /\ Fitting(s, {HeadName["image-id"]}, {0}) = {a + 1}
      /\ Fitting(s, {"@pathimg"}, {0}) = {a + 2}
      /\ Fitting(s, {"ID", HeadName["ID"]}, {a}) \subseteq {a}
  <2>1. \A x, c : c \in Fitting(s, {x}, {0}) <=> c \in 1 .. n /\ (c = a + 1 \/ c = a + 2) /\ Head7(t, c).name = x
    <3> TAKE x, c
    <3>1. c \in Fitting(s, {x}, {0}) <=> c \in 1 .. n /\ s.heads[c].name = x /\ s.heads[c].letter = 0
      BY <1>2 DEF Fitting
    <3>2. c \in 1 .. n => s.heads[c] = Head7(t, c) /\ (Head7(t, c).letter = 0 <=> c = a + 1 \/ c = a + 2)
      BY <1>2, <1>3
    <3> QED BY <3>1, <3>2
  <2>2. Fitting(s, {HeadName["image-id"]}, {0}) = {a + 1}
    BY <1>4, <1>5, <1>6, <2>1, ZenonT(60)
  <2>3. Fitting(s, {"@pathimg"}, {0}) = {a + 2}
    BY <1>4, <1>5, <1>6, <2>1, ZenonT(60)
  <2>4. Fitting(s, {"ID", HeadName["ID"]}, {a}) \subseteq {a}
    <3>1. SUFFICES ASSUME NEW c \in Fitting(s, {"ID", HeadName["ID"]}, {a}) PROVE c = a
      OBVIOUS
    <3>2. c \in 1 .. n /\ s.heads[c].letter = a
      BY <1>2 DEF Fitting
    <3>3. s.heads[c] = Head7(t, c)
      BY <1>2, <3>2
    <3>4. Head7(t, c).letter = a
      BY <3>2, <3>3
    <3> QED BY <1>3, <3>2, <3>4
  <2> QED BY <2>2, <2>3, <2>4
<1> QED BY <1>1, <1>2, <1>7 DEF n, s

\* The columns the images of script 10 are read from.
LEMMA ImageColumnOf7 ==
  ASSUME NEW t \in Tables, NEW q, FilesTell(t, q)
  PROVE  ImageColumn(disk[7]) = IdLetter + 1 /\ PathColumn(disk[7]) = IdLetter + 2
<1> DEFINE s == disk[7]
<1>1. IdLetter \in Nat
  BY TextAssumption
<1>2. Fitting(s, {HeadName["image-id"]}, {0}) = {IdLetter + 1} /\ Fitting(s, {"@pathimg"}, {0}) = {IdLetter + 2}
  BY ColumnsOf7
<1>3. ImageColumn(s) = IdLetter + 1
  BY <1>1, <1>2, OnlyColumn DEF ImageColumn, Fitting
<1>4. PathColumn(s) = IdLetter + 2
  BY <1>1, <1>2, OnlyColumn DEF PathColumn, Fitting
<1> QED BY <1>3, <1>4

\* Script 10 takes the name of an image as it is.
LEMMA NameIsAnImage ==
  ASSUME NEW t \in Tables, IdLetter \in 1 .. Wide(t), NEW r \in 1 .. Len(t.rows), ImageName(t, r) # Blank
  PROVE  Via(Stripped, ImageName(t, r)) = ImageName(t, r) /\ ValidImage(ImageName(t, r))
<1> DEFINE x == t.rows[r][IdLetter]
<1>1. DOMAIN t.heads = 1 .. Wide(t) /\ DOMAIN t.rows = 1 .. Len(t.rows)
  BY ShapeOfTable
<1>2. x \in {Blank, NA} \cup DOMAIN RawImage
  BY <1>1, ImageAssumption
<1>3. Filled(t, r, IdLetter) = IF x = Blank THEN NA ELSE x
  BY DEF Filled
<1> HIDE DEF x
<1>4. Image(t, r) # Blank /\ ImageName(t, r) = Normalised[Image(t, r)]
  BY DEF ImageName
<1>5. Filled(t, r, IdLetter) # NA /\ Image(t, r) = RawImage[Filled(t, r, IdLetter)]
  BY <1>4 DEF Image
<1>6. Image(t, r) = RawImage[x] /\ x \in DOMAIN RawImage
  BY <1>2, <1>3, <1>5
<1>7. Image(t, r) \in Range(RawImage)
  BY <1>6 DEF Range
<1>8. Image(t, r) \in DOMAIN Normalised
  BY <1>7, ImageAssumption
<1>9. ImageName(t, r) \in Range(Normalised)
  BY <1>4, <1>8 DEF Range
<1>10. ImageName(t, r) \notin {Blank, NA, "N/A"} \cup Voids \cup DOMAIN Stripped
  BY <1>9, ImageAssumption
<1>11. Via(Stripped, ImageName(t, r)) = ImageName(t, r)
  BY <1>10 DEF Via
<1> QED BY <1>10, <1>11 DEF ValidImage

\* An image is named by one row.
LEMMA NamedByOneRow ==
  ASSUME NEW t \in Tables, NEW q, FilesTell(t, q), NEW k \in 1 .. Len(t.rows)
  PROVE  LET s == disk[7]
         IN /\ s.rows[k][ImageColumn(s)] = ImageName(t, q[k])
            /\ ImageName(t, q[k]) # Blank =>
                  {j \in DOMAIN s.rows : s.rows[j][ImageColumn(s)] = ImageName(t, q[k])} = {k}
<1> DEFINE s == disk[7]
           n == Wide(t) + 2
           c == ImageColumn(s)
<1>1. /\ n \in Nat /\ IdLetter \in Nat \ {0} /\ IdLetter + 2 <= n
      /\ DOMAIN s.rows = 1 .. Len(t.rows)
      /\ \A j \in 1 .. Len(t.rows) : s.rows[j] = [d \in 1 .. n |-> Cell7(t, q[j], d)]
  BY ColumnsOf7
<1>2. c = IdLetter + 1
  BY ImageColumnOf7
<1> HIDE DEF n, c, s
<1>3. c \in 1 .. n
  BY <1>1, <1>2
<1>4. \A j \in DOMAIN s.rows : s.rows[j][c] = Cell7(t, q[j], c)
  BY <1>1, <1>3, ZenonT(60)
<1>5. \A j \in DOMAIN s.rows : s.rows[j][c] = ImageName(t, q[j])
  BY <1>2, <1>4 DEF Cell7
<1>6. ASSUME ImageName(t, q[k]) # Blank
      PROVE  {j \in DOMAIN s.rows : s.rows[j][c] = ImageName(t, q[k])} = {k}
  <2>1. \A j \in DOMAIN s.rows : ImageName(t, q[j]) = ImageName(t, q[k]) => j = k
    BY <1>1, <1>6 DEF FilesTell
  <2> QED BY <1>1, <1>5, <2>1
<1>7. s.rows[k][c] = ImageName(t, q[k])
  BY <1>1, <1>5
<1> QED BY <1>6, <1>7 DEF s, c

\* An image that is asked for is asked for by one row.
LEMMA AskedByOneRow ==
  ASSUME NEW t \in Tables, NEW q, FilesTell(t, q), NEW m \in Pictured(disk[7])
  PROVE  LET s == disk[7]
         IN \E k \in DOMAIN s.rows : /\ {j \in DOMAIN s.rows : s.rows[j][ImageColumn(s)] = m.name} = {k}
                                    /\ Via(Stripped, s.rows[k][PhotoColumn(s)]) = m.photo
<1> DEFINE s == disk[7]
           c == ImageColumn(s)
           p == PhotoColumn(s)
<1>1. PICK row \in Range(s.rows) :
         ValidImage(row[c]) /\ m = [name |-> Via(Stripped, row[c]), photo |-> Via(Stripped, row[p])]
  BY DEF Pictured
<1>2. PICK k \in DOMAIN s.rows : row = s.rows[k]
  BY <1>1 DEF Range
<1>3. DOMAIN s.rows = 1 .. Len(t.rows)
  BY ColumnsOf7
<1>4. /\ s.rows[k][c] = ImageName(t, q[k])
      /\ ImageName(t, q[k]) # Blank => {j \in DOMAIN s.rows : s.rows[j][c] = ImageName(t, q[k])} = {k}
  BY <1>3, NamedByOneRow
<1> HIDE DEF c, p, s
<1>5. ImageName(t, q[k]) # Blank
  <2>1. ValidImage(ImageName(t, q[k]))
    BY <1>1, <1>2, <1>4
  <2>2. Via(Stripped, Blank) = Blank
    BY TextAssumption DEF Via
  <2> QED BY <2>1, <2>2 DEF ValidImage
<1>6. q[k] \in 1 .. Len(t.rows) /\ IdLetter \in 1 .. Wide(t)
  BY <1>3 DEF FilesTell, IsOrder
<1>7. Via(Stripped, ImageName(t, q[k])) = ImageName(t, q[k])
  BY <1>5, <1>6, NameIsAnImage
<1>8. m.name = ImageName(t, q[k]) /\ m.photo = Via(Stripped, s.rows[k][p])
  BY <1>1, <1>2, <1>4, <1>7
<1> QED BY <1>4, <1>5, <1>8 DEF s, c, p

\* Every image of the run is of one row.
LEMMA ImagesHaveTheirRow ==
  ASSUME ChainInv, run.step >= ImageScript, NEW f \in folder, f.run = run.n
  PROVE  LET s == disk[Pathed]
         IN \E k \in DOMAIN s.rows : /\ {j \in DOMAIN s.rows : s.rows[j][ImageColumn(s)] = f.name} = {k}
                                    /\ Via(Stripped, s.rows[k][PhotoColumn(s)]) = f.photo
<1>1. PICK m \in Pictured(disk[7]) : m.name = f.name /\ m.photo = f.photo
  BY DEF ChainInv, Served, Serves, Pathed
<1>t. PICK t \in Tables : \E q : FilesTell(t, q)
  <2>1. run.step > 7
    BY DEF ChainInv, Numbers, ImageScript
  <2> QED BY <2>1, LinkedFiles DEF ChainInv
<1>2. PICK q : FilesTell(t, q)
  BY <1>t
<1> QED BY <1>1, <1>2, AskedByOneRow DEF Pathed

-----------------------------------------------------------------------------
(***************************************************************************)
(* The CSV of a run whose scripts have all counted.                        *)
(***************************************************************************)

\* what script 9 writes of a cell of the file of script 7
Written(text) == IF Via(CleanText, text) = Blank THEN NA ELSE Via(CleanText, text)

\* A cell is written as something, empty when it was.
LEMMA WrittenCell ==
  ASSUME NEW x
  PROVE  /\ Empty(Written(x)) <=> Empty(x)
         /\ ~Empty(x) => Written(x) = Via(CleanText, x)
<1>1. Empty(Via(CleanText, x)) <=> Empty(x)
  BY CleanOnce
<1>2. Empty(Blank) /\ Empty(NA)
  BY CleanOnce
<1>3. CASE Via(CleanText, x) = Blank
  <2>1. Written(x) = NA
    BY <1>3 DEF Written
  <2>2. Empty(x)
    BY <1>1, <1>2, <1>3
  <2> QED BY <1>2, <2>1, <2>2
<1>4. CASE Via(CleanText, x) # Blank
  <2>1. Written(x) = Via(CleanText, x)
    BY <1>4 DEF Written
  <2> QED BY <1>1, <2>1
<1> QED BY <1>3, <1>4

\* the CSV, columns and rows of the file of script 7
CsvTells(csv, s, n, m, cols, w, at, l) ==
    /\ w \in Nat /\ IsListOf(cols, w, Saying(s, n, m))
    /\ csv.heads = [d \in 1 .. w |-> s.heads[cols[d]]]
    /\ l \in Nat /\ at \in [1 .. l -> 1 .. m] /\ \A j, k \in 1 .. l : j < k => at[j] < at[k]
    /\ csv.rows = [j \in 1 .. l |-> [d \in 1 .. w |-> Written(s.rows[at[j]][cols[d]])]]
    /\ IdColumn(csv) # 0 =>
          \A k \in 1 .. m : (\E j \in 1 .. l : at[j] = k) <=> ~Empty(s.rows[k][cols[IdColumn(csv)]])

\* Columns are found by the headers.
LEMMA ColumnOfHeads ==
  ASSUME NEW s, NEW p, s.heads = p.heads, NEW names, NEW letters
  PROVE  Column(s, names, letters) = Column(p, names, letters)
BY DEF Column

\* Scripts 8 and 9.
LEMMA CsvOf7 ==
  ASSUME ChainInv, run.step = 13
  PROVE  \E t \in Tables : \E q, cols, w, at, l :
            FilesTell(t, q) /\ CsvTells(disk[9], disk[7], Wide(t) + 2, Len(t.rows), cols, w, at, l)
<1> DEFINE s == disk[7]
<1>t. PICK t \in Tables : \E q : FilesTell(t, q)
  BY LinkedFiles DEF ChainInv
<1>1. PICK q : FilesTell(t, q)
  BY <1>t
<1> DEFINE n == Wide(t) + 2
           m == Len(t.rows)
<1>2. IsLinked(7) /\ IsLinked(8) /\ IsLinked(9)
  <2>1. 7 \in Outputs /\ 8 \in Outputs /\ 9 \in Outputs
    BY DEF Outputs, Scripts, ImageScript, CheckScript
  <2>2. \A i \in Outputs : i < 13 => IsLinked(i)
    BY DEF ChainInv, Linked
  <2> QED BY <2>1, <2>2
<1>3. DOMAIN s = {"heads", "rows", "run", "whole"}
  BY <1>2 DEF IsLinked, Made
<1>4. /\ n \in Nat /\ m \in Nat /\ DOMAIN s.heads = 1 .. n /\ DOMAIN s.rows = 1 .. m
      /\ \A k \in 1 .. m : s.rows[k] = [c \in 1 .. n |-> Cell7(t, q[k], c)]
  BY <1>1, ColumnsOf7
<1>5. \A k \in 1 .. m : DOMAIN s.rows[k] = 1 .. n
  BY <1>4
<1> HIDE DEF s, n, m
<1>6. PICK cols, w, at, l : IsPartOf(Optimise(s), s, n, m, cols, w, at, l)
  BY <1>3, <1>4, <1>5, Optimised
<1>7. disk[8].heads = Optimise(s).heads /\ disk[8].rows = Optimise(s).rows
  <2>1. disk[8].heads = SheetMade(8).heads /\ disk[8].rows = SheetMade(8).rows
    BY <1>2, FileMade DEF Outputs, Scripts, ImageScript, CheckScript
  <2> QED BY <2>1 DEF SheetMade, s
<1>8. /\ disk[9].heads = disk[8].heads
      /\ disk[9].rows = [j \in DOMAIN disk[8].rows |->
                           [d \in DOMAIN disk[8].rows[j] |->
                              IF disk[8].rows[j][d] = Blank THEN NA ELSE disk[8].rows[j][d]]]
  <2>1. disk[9].heads = SheetMade(9).heads /\ disk[9].rows = SheetMade(9).rows
    BY <1>2, FileMade DEF Outputs, Scripts, ImageScript, CheckScript
  <2>2. SheetMade(9) = Export(disk[8])
    BY DEF SheetMade
  <2>3. "heads" \in DOMAIN disk[8] /\ "rows" \in DOMAIN disk[8]
    BY <1>2 DEF IsLinked, Made
  <2> QED BY <2>1, <2>2, <2>3 DEF Export, WithRows
<1>9. disk[8].rows = [j \in 1 .. l |-> [d \in 1 .. w |-> Via(CleanText, s.rows[at[j]][cols[d]])]]
  <2>1. Optimise(s).rows = [j \in 1 .. l |-> [d \in 1 .. w |-> Via(CleanText, s.rows[at[j]][cols[d]])]]
    BY <1>6, Zenon DEF IsPartOf
  <2> QED BY <1>7, <2>1
<1>10. disk[9].rows = [j \in 1 .. l |-> [d \in 1 .. w |-> Written(s.rows[at[j]][cols[d]])]]
  BY <1>8, <1>9 DEF Written
<1>11. IdColumn(disk[9]) = IdColumn(Optimise(s))
  BY <1>7, <1>8, ColumnOfHeads DEF IdColumn
<1>12. CsvTells(disk[9], s, n, m, cols, w, at, l)
  BY <1>6, <1>7, <1>8, <1>10, <1>11, Zenon DEF IsPartOf, CsvTells
<1> QED BY <1>1, <1>12 DEF s, n, m

\* script 8 leaves the names of the images as they are
NamesAreClean == \A x \in DOMAIN Normalised : Normalised[x] \notin DOMAIN CleanText

\* What a row has for its image.
LEMMA NamesStay ==
  ASSUME NamesAreClean, NEW t \in Tables, IdLetter \in 1 .. Wide(t), NEW r \in 1 .. Len(t.rows)
  PROVE  /\ ImageName(t, r) \notin DOMAIN CleanText
         /\ ImageName(t, r) = Blank <=> Filled(t, r, IdLetter) = NA
         /\ Filled(t, r, IdLetter) # NA => ImageName(t, r) = Normalised[RawImage[t.rows[r][IdLetter]]]
<1> DEFINE x == t.rows[r][IdLetter]
<1>1. DOMAIN t.heads = 1 .. Wide(t) /\ DOMAIN t.rows = 1 .. Len(t.rows)
  BY ShapeOfTable
<1>2. x \in {Blank, NA} \cup DOMAIN RawImage
  BY <1>1, ImageAssumption
<1>3. Filled(t, r, IdLetter) = IF x = Blank THEN NA ELSE x
  BY DEF Filled
<1> HIDE DEF x
<1>4. CASE Filled(t, r, IdLetter) = NA
  <2>1. ImageName(t, r) = Blank
    BY <1>4 DEF ImageName, Image
  <2> QED BY <1>4, <2>1, TextAssumption
<1>5. CASE Filled(t, r, IdLetter) # NA
  <2>1. Filled(t, r, IdLetter) = x /\ x \in DOMAIN RawImage
    BY <1>2, <1>3, <1>5
  <2>2. Image(t, r) = RawImage[x]
    BY <1>5, <2>1 DEF Image
  <2>3. RawImage[x] \in Range(RawImage)
    BY <2>1 DEF Range
  <2>4. RawImage[x] \in DOMAIN Normalised /\ RawImage[x] # Blank
    BY <2>3, ImageAssumption
  <2>5. ImageName(t, r) = Normalised[RawImage[x]]
    BY <2>2, <2>4 DEF ImageName
  <2>6. Normalised[RawImage[x]] \in Range(Normalised)
    BY <2>4 DEF Range
  <2>7. ImageName(t, r) # Blank
    BY <2>5, <2>6, ImageAssumption
  <2> QED BY <1>5, <2>4, <2>5, <2>7 DEF NamesAreClean, x
<1> QED BY <1>4, <1>5

\* A cell of the CSV is that of a row and a column of the file of script 7.
LEMMA WrittenSays ==
  ASSUME NEW s, NEW n, NEW m, NEW w, NEW l, NEW cols, NEW at, NEW csv, CsvTells(csv, s, n, m, cols, w, at, l),
         NEW j \in 1 .. l, NEW d \in 1 .. w
  PROVE  csv.rows[j][d] = Written(s.rows[at[j]][cols[d]])
BY DEF CsvTells

\* The columns of the CSV that tell of an image, if there is one to tell of.
LEMMA ColumnsOfCsv ==
  ASSUME NEW t \in Tables, NEW q, FilesTell(t, q), NEW cols, NEW w, NEW at, NEW l,
         CsvTells(disk[9], disk[7], Wide(t) + 2, Len(t.rows), cols, w, at, l)
  PROVE  LET i == IdColumn(disk[9])  f == ImageColumn(disk[9])  p == PhotoColumn(disk[9])
         IN /\ i # 0 => i \in 1 .. w /\ cols[i] = IdLetter
            /\ f # 0 => f \in 1 .. w /\ cols[f] = IdLetter + 1
            /\ PhotoColumn(disk[7]) \in Saying(disk[7], Wide(t) + 2, Len(t.rows)) =>
                  p \in 1 .. w /\ cols[p] = PhotoColumn(disk[7])
<1> DEFINE s == disk[7]
           csv == disk[9]
           n == Wide(t) + 2
           m == Len(t.rows)
<1>1. n \in Nat /\ DOMAIN s.heads = 1 .. n
  BY ColumnsOf7
<1>2. /\ Fitting(s, {HeadName["image-id"]}, {0}) = {IdLetter + 1}
      /\ Fitting(s, {"ID", HeadName["ID"]}, {IdLetter}) \subseteq {IdLetter}
  BY ColumnsOf7
<1> HIDE DEF n, m, s, csv
<1>3. w \in Nat /\ IsListOf(cols, w, Saying(s, n, m)) /\ TakenFrom(csv, s, cols, w)
  BY DEF CsvTells, TakenFrom, s, csv, n, m
<1>4. \A names, letters :
         /\ Column(csv, names, letters) # 0 =>
               Column(csv, names, letters) \in 1 .. w /\ cols[Column(csv, names, letters)] \in Fitting(s, names, letters)
         /\ Column(s, names, letters) \in Saying(s, n, m) =>
               Column(csv, names, letters) # 0 /\ cols[Column(csv, names, letters)] = Column(s, names, letters)
  <2> TAKE names, letters
  <2>1. FoundInBoth(csv, s, n, m, w, cols, names, letters)
    BY <1>1, <1>3, KeptColumn
  <2> QED BY <2>1 DEF FoundInBoth
<1>5. IdColumn(csv) # 0 => IdColumn(csv) \in 1 .. w /\ cols[IdColumn(csv)] = IdLetter
  BY <1>2, <1>4 DEF IdColumn
<1>6. ImageColumn(csv) # 0 => ImageColumn(csv) \in 1 .. w /\ cols[ImageColumn(csv)] = IdLetter + 1
  BY <1>2, <1>4 DEF ImageColumn
<1>7. PhotoColumn(s) \in Saying(s, n, m) =>
         PhotoColumn(csv) \in 1 .. w /\ cols[PhotoColumn(csv)] = PhotoColumn(s)
  BY <1>4 DEF PhotoColumn
<1> QED BY <1>5, <1>6, <1>7 DEF s, csv, n, m

\* A row of the table that has an identifier.
LEMMA Identified ==
  ASSUME NEW t \in Tables, NEW q, FilesTell(t, q), NEW r \in 1 .. Len(t.rows)
  PROVE  /\ Told(t, r, IdLetter) = Filled(t, r, IdLetter)
         /\ Empty(Filled(t, r, IdLetter)) <=> Empty(t.rows[r][IdLetter])
<1>1. t.heads[IdLetter].name \in {"ID", HeadName["ID"]}
  BY DEF FilesTell
<1>2. {"ID", HeadName["ID"], "image-id"} \cap DateNames = {}
  BY HeadAssumption, Zenon
<1>3. t.heads[IdLetter].name \notin DateNames
  BY <1>1, <1>2
<1>4. Told(t, r, IdLetter) = Filled(t, r, IdLetter)
  BY <1>3 DEF Told, Filled
<1>5. Empty(Filled(t, r, IdLetter)) <=> Empty(t.rows[r][IdLetter])
  BY CleanOnce DEF Filled
<1> QED BY <1>4, <1>5

\* What is told of a cell is never blank.
LEMMA ToldIsNotBlank ==
  ASSUME NEW t, NEW r, NEW c
  PROVE  Told(t, r, c) # Blank
<1> DEFINE x == Told(t, r, c)
           y == IF t.rows[r][c] = Blank THEN NA ELSE t.rows[r][c]
<1>1. y # Blank
  <2>1. NA # Blank
    BY Zenon DEF Blank, NA
  <2> QED BY <2>1
<1>2. x = y \/ x = Via(DateText, y)
  BY DEF Told
<1> HIDE DEF x, y
<1>3. Via(DateText, y) # Blank
  <2>1. CASE y \in DOMAIN DateText
    <3>1. DateText[y] \in Range(DateText)
      BY <2>1 DEF Range
    <3>2. Blank \notin Range(DateText)
      BY TextAssumption
    <3> QED BY <2>1, <3>1, <3>2 DEF Via
  <2>2. CASE y \notin DOMAIN DateText
    BY <1>1, <2>2 DEF Via
  <2> QED BY <2>1, <2>2
<1>4. x # Blank
  BY <1>1, <1>2, <1>3
<1> QED BY <1>4 DEF x

\* The folder has what a row with an image asks for, once script 10 is done.
LEMMA RowHasItsImage ==
  ASSUME ChainInv, run.step > ImageScript, NEW t \in Tables, NEW q, FilesTell(t, q),
         NEW k \in 1 .. Len(t.rows), ImageName(t, q[k]) # Blank,
         ValidImage(disk[7].rows[k][PhotoColumn(disk[7])])
  PROVE  \E f \in folder : /\ f.run = run.n /\ f.name = ImageName(t, q[k])
                           /\ f.photo = Via(Stripped, disk[7].rows[k][PhotoColumn(disk[7])])
<1> DEFINE s == disk[7]
           a == IdLetter
           p == PhotoColumn(s)
           n == Wide(t) + 2
           photo == s.rows[k][p]
<1>1. Pictured(s) # {} /\ \A x \in Pictured(s) : \E f \in folder : f.name = x.name /\ f.photo = x.photo /\ f.run = run.n
  BY DEF ChainInv, Served, Serves, Pathed
<1>2. 0 \notin {IdColumn(s), ImageColumn(s), p}
  BY <1>1 DEF Pictured
<1>3. /\ n \in Nat /\ a \in Nat \ {0} /\ a + 2 <= n
      /\ DOMAIN s.heads = 1 .. n /\ DOMAIN s.rows = 1 .. Len(t.rows)
      /\ s.rows[k] = [c \in 1 .. n |-> Cell7(t, q[k], c)]
  BY ColumnsOf7
<1>4. IdColumn(s) = a
  <2>1. Fitting(s, {"ID", HeadName["ID"]}, {a}) \subseteq {a}
    BY ColumnsOf7
  <2>2. IdColumn(s) \in Fitting(s, {"ID", HeadName["ID"]}, {a})
    BY <1>2, <1>3, FirstColumn DEF IdColumn
  <2> QED BY <2>1, <2>2
<1>5. s.rows[k][a] # Blank
  <2>1. a \in 1 .. n /\ a # a + 1 /\ a # a + 2 /\ Source7(a) = a
    BY <1>3 DEF Source7
  <2>2. s.rows[k][a] = Told(t, q[k], a)
    BY <1>3, <2>1 DEF Cell7
  <2> QED BY <2>2, ToldIsNotBlank
<1>6. q[k] \in 1 .. Len(t.rows) /\ a \in 1 .. Wide(t)
  BY DEF FilesTell, IsOrder
<1>7. /\ s.rows[k][ImageColumn(s)] = ImageName(t, q[k])
      /\ Via(Stripped, ImageName(t, q[k])) = ImageName(t, q[k]) /\ ValidImage(ImageName(t, q[k]))
  BY <1>6, NamedByOneRow, NameIsAnImage
<1>8. s.rows[k] \in Range(s.rows)
  BY <1>3 DEF Range
<1>9. ValidImage(photo)
  OBVIOUS
<1> HIDE DEF s, a, p, n
<1>10. [name |-> ImageName(t, q[k]), photo |-> Via(Stripped, photo)] \in Pictured(s)
  <2>1. [name |-> Via(Stripped, s.rows[k][ImageColumn(s)]), photo |-> Via(Stripped, s.rows[k][p])] \in Pictured(s)
    BY <1>2, <1>4, <1>5, <1>7, <1>8, <1>9 DEF Pictured, p
  <2> QED BY <1>7, <2>1
<1>11. PICK f \in folder : f.name = ImageName(t, q[k]) /\ f.photo = Via(Stripped, photo) /\ f.run = run.n
  BY <1>1, <1>10
<1> QED BY <1>11 DEF s, p

\* A line of the CSV has the name of one row, and the photo this row asks for.
LineHasItsImage(j) ==
    LET s == disk[7]
        name == disk[9].rows[j][ImageColumn(disk[9])]
    IN \E k \in DOMAIN s.rows :
          /\ {i \in DOMAIN s.rows : s.rows[i][ImageColumn(s)] = name} = {k}
          /\ ValidImage(s.rows[k][PhotoColumn(s)]) =>
                \E f \in folder : /\ f.run = run.n /\ f.name = name
                                  /\ f.photo = Via(Stripped, s.rows[k][PhotoColumn(s)])

\* Every line of the CSV of a complete run does.
LEMMA LinesHaveTheirImage ==
  ASSUME NamesAreClean, ChainInv, run.step = 13, NEW j \in DOMAIN disk[9].rows
  PROVE  LineHasItsImage(j)
<1> DEFINE s == disk[7]
           csv == disk[9]
           a == IdLetter
           i9 == IdColumn(csv)
           f9 == ImageColumn(csv)
<1>t. PICK t \in Tables : \E q, cols, w, at, l :
         FilesTell(t, q) /\ CsvTells(csv, s, Wide(t) + 2, Len(t.rows), cols, w, at, l)
  BY CsvOf7
<1>1. PICK q, cols, w, at, l :
         FilesTell(t, q) /\ CsvTells(csv, s, Wide(t) + 2, Len(t.rows), cols, w, at, l)
  BY <1>t
<1> DEFINE n == Wide(t) + 2
           h == Len(t.rows)
<1>2. 0 \notin {i9, f9}
  BY DEF ChainInv, Linked, Csv
<1>3. /\ n \in Nat /\ h \in Nat /\ a \in Nat \ {0} /\ a + 2 <= n
      /\ DOMAIN s.rows = 1 .. h
      /\ \A k \in 1 .. h : s.rows[k] = [c \in 1 .. n |-> Cell7(t, q[k], c)]
  BY <1>1, ColumnsOf7
<1>4. i9 \in 1 .. w /\ cols[i9] = a /\ f9 \in 1 .. w /\ cols[f9] = a + 1
  BY <1>1, <1>2, ColumnsOfCsv
<1>5. /\ l \in Nat /\ at \in [1 .. l -> 1 .. h] /\ DOMAIN csv.rows = 1 .. l
      /\ \A k \in 1 .. h : (\E i \in 1 .. l : at[i] = k) <=> ~Empty(s.rows[k][cols[i9]])
  BY <1>1, <1>2 DEF CsvTells
<1> DEFINE k == at[j]
           r == q[k]
<1>6. j \in 1 .. l /\ k \in 1 .. h /\ r \in 1 .. h
  <2>1. j \in 1 .. l /\ k \in 1 .. h
    BY <1>5
  <2> QED BY <1>1, <2>1 DEF FilesTell, IsOrder
<1>7. csv.rows[j][f9] = Written(s.rows[k][a + 1])
  BY <1>1, <1>4, <1>6, WrittenSays
<1>8. ~Empty(s.rows[k][a])
  BY <1>4, <1>5, <1>6
<1>9. ImageColumn(s) = a + 1
  BY <1>1, ImageColumnOf7
<1> HIDE DEF s, csv, i9, f9, n, h, k
<1>10. s.rows[k][a] = Filled(t, r, a)
  <2>1. a \in 1 .. n /\ a # a + 1 /\ a # a + 2 /\ Source7(a) = a
    BY <1>3 DEF Source7
  <2>2. s.rows[k] = [c \in 1 .. n |-> Cell7(t, r, c)]
    BY <1>3, <1>6
  <2>3. s.rows[k][a] = Told(t, r, a)
    BY <2>1, <2>2 DEF Cell7
  <2> QED BY <1>1, <1>6, <2>3, Identified DEF h
<1> HIDE DEF r
<1>11. Filled(t, r, a) # NA
  BY <1>8, <1>10, CleanOnce
<1>12. ImageName(t, r) # Blank /\ ImageName(t, r) \notin DOMAIN CleanText
  BY <1>1, <1>6, <1>11, NamesStay DEF FilesTell, h
<1>13. /\ s.rows[k][a + 1] = ImageName(t, r)
       /\ {i \in DOMAIN s.rows : s.rows[i][ImageColumn(s)] = ImageName(t, r)} = {k}
  BY <1>1, <1>6, <1>9, <1>12, NamedByOneRow DEF h, s, r
<1>14. csv.rows[j][f9] = ImageName(t, r)
  BY <1>7, <1>12, <1>13 DEF Written, Via
<1>15. ASSUME ValidImage(s.rows[k][PhotoColumn(s)])
       PROVE  \E f \in folder : /\ f.run = run.n /\ f.name = ImageName(t, r)
                                /\ f.photo = Via(Stripped, s.rows[k][PhotoColumn(s)])
  <2>1. run.step > ImageScript
    BY DEF ImageScript
  <2> QED BY <1>1, <1>6, <1>12, <1>15, <2>1, RowHasItsImage DEF h, s, r
<1>16. k \in DOMAIN s.rows
  BY <1>3, <1>6
<1> QED BY <1>13, <1>14, <1>15, <1>16 DEF LineHasItsImage, s, csv, f9

\* What the scripts wrote into the folder serves one dossier, and each line of
\* the CSV of a run without error has there the photo of its dossier
\* (10-process-images.py, between what scripts 7 and 9 make of its rows), if
\* script 8 has nothing to clean in the names of the images.
THEOREM ImagesAreOfOneDossier ==
  ASSUME NamesAreClean
  PROVE  Spec => []ImagesServeOneDossier
<1>1. ChainInit => ChainInv
  BY ChainInvInit
<1>2. ChainInv /\ [Next]_vars => ChainInv'
  BY ChainInvStep
<1>3. ChainInv => ImagesServeOneDossier
  <2>1. SUFFICES ASSUME ChainInv
                 PROVE  ImagesServeOneDossier
    OBVIOUS
  <2>2. ASSUME run.step >= ImageScript, NEW f \in folder, f.run = run.n
        PROVE  \E k \in DOMAIN disk[Pathed].rows :
                  /\ {j \in DOMAIN disk[Pathed].rows :
                        disk[Pathed].rows[j][ImageColumn(disk[Pathed])] = f.name} = {k}
                  /\ f.run = run.n /\ f.name = f.name
                  /\ f.photo = Via(Stripped, disk[Pathed].rows[k][PhotoColumn(disk[Pathed])])
    BY <2>1, <2>2, ImagesHaveTheirRow
  <2>3. ASSUME run.phase = "ended", run.code = 0, NEW j \in DOMAIN disk[Csv].rows
        PROVE  LineHasItsImage(j)
    <3>1. run.step = 13
      BY <2>1, <2>3 DEF ChainInv, Numbers
    <3> QED BY <2>1, <2>3, <3>1, LinesHaveTheirImage DEF Csv
  <2> QED BY <2>2, <2>3, ZenonT(60) DEF ImagesServeOneDossier, LineHasItsImage, Pathed, Csv
<1> QED BY <1>1, <1>2, <1>3, PTL DEF Spec

-----------------------------------------------------------------------------
(***************************************************************************)
(* The Word file, the CSV and the mapping of a complete run.               *)
(***************************************************************************)

\* The length of a list known by its items.
LEMMA LengthOf ==
  ASSUME NEW T, NEW n \in Nat, NEW f \in [1 .. n -> T]
  PROVE  Len(f) = n
<1>1. f \in Seq(T)
  BY IsASeq
<1>2. Len(f) \in Nat /\ DOMAIN f = 1 .. Len(f)
  BY <1>1, LenProperties
<1>3. 1 .. n = 1 .. Len(f)
  BY <1>2
<1> QED BY <1>2, <1>3

\* The Word file has a line for every row of the table.
LEMMA WordTellsTheTable ==
  ASSUME NEW t \in Tables, NEW q, FilesTell(t, q)
  PROVE  LET w == disk[5]
         IN /\ Len(w.rows) = Len(t.rows)
            /\ \A r \in DOMAIN t.rows : \E k \in DOMAIN w.rows : \A c \in DOMAIN w.heads :
                  w.heads[c].letter # 0 => w.rows[k][c] = Told(t, r, w.heads[c].letter)
<1> DEFINE w == disk[5]
           n == Wide(t) + 1
           m == Len(t.rows)
           row(k) == [c \in 1 .. n |-> Cell4(t, q[k], c)]
<1>1. n \in Nat /\ m \in Nat /\ DOMAIN t.rows = 1 .. m
  <2>1. Wide(t) \in Nat /\ m \in Nat /\ DOMAIN t.rows = 1 .. m
    BY ShapeOfTable
  <2> QED BY <2>1
<1>2. IsOrder(q, m) /\ w.heads = [c \in 1 .. n |-> Head2(t, c)] /\ w.rows = [k \in 1 .. m |-> row(k)]
  BY DEF FilesTell
<1>3. Len(w.rows) = m
  <2> HIDE DEF row
  <2>1. [k \in 1 .. m |-> row(k)] \in [1 .. m -> {row(k) : k \in 1 .. m}]
    OBVIOUS
  <2> HIDE DEF m, w
  <2> QED BY <1>1, <1>2, <2>1, LengthOf
<1>4. ASSUME NEW r \in DOMAIN t.rows
      PROVE  \E k \in DOMAIN w.rows : \A c \in DOMAIN w.heads :
                w.heads[c].letter # 0 => w.rows[k][c] = Told(t, r, w.heads[c].letter)
  <2>1. PICK k \in 1 .. m : q[k] = r
    BY <1>1, <1>2 DEF IsOrder
  <2>2. k \in DOMAIN w.rows /\ w.rows[k] = row(k) /\ DOMAIN w.heads = 1 .. n
    BY <1>2
  <2>3. ASSUME NEW c \in 1 .. n, w.heads[c].letter # 0
        PROVE  w.rows[k][c] = Told(t, r, w.heads[c].letter)
    <3>1. w.heads[c] = Head2(t, c)
      BY <1>2
    <3>2. w.rows[k][c] = Cell4(t, r, c)
      BY <2>1, <2>2
    <3>3. c # IdLetter + 1 /\ Head2(t, c).letter = Source2(c)
      BY <2>3, <3>1 DEF Head2
    <3>4. Cell4(t, r, c) = Told(t, r, Source2(c))
      BY <3>3 DEF Cell4
    <3> QED BY <3>1, <3>2, <3>3, <3>4
  <2> QED BY <2>2, <2>3
<1> QED BY <1>3, <1>4

\* What is told of a cell is written as it is cleaned.
LEMMA ToldIsWritten ==
  ASSUME NEW t, NEW r, NEW c
  PROVE  Written(Told(t, r, c)) = Via(CleanText, Told(t, r, c))
<1>1. Told(t, r, c) # Blank
  BY ToldIsNotBlank
<1>2. Via(CleanText, Told(t, r, c)) # Blank
  BY <1>1, CleanOnce
<1> QED BY <1>2 DEF Written

\* what the line j of the CSV has in its columns
CellsTell(t, q, cols, w, at, j) ==
    /\ at[j] \in 1 .. Len(t.rows) /\ q[at[j]] \in 1 .. Len(t.rows)
    /\ DOMAIN disk[9].heads = 1 .. w
    /\ \A d \in 1 .. w : /\ cols[d] \in 1 .. Wide(t) + 2
                        /\ disk[9].heads[d] = Head7(t, cols[d])
                        /\ disk[9].rows[j][d] = Written(Cell7(t, q[at[j]], cols[d]))

\* What the columns of the CSV tell of the table.
LEMMA CsvCells ==
  ASSUME NEW t \in Tables, NEW q, FilesTell(t, q), NEW cols, NEW w, NEW at, NEW l,
         CsvTells(disk[9], disk[7], Wide(t) + 2, Len(t.rows), cols, w, at, l),
         NEW j \in 1 .. l
  PROVE  CellsTell(t, q, cols, w, at, j)
<1> DEFINE s == disk[7]
           n == Wide(t) + 2
           m == Len(t.rows)
<1>1. /\ n \in Nat /\ m \in Nat /\ DOMAIN s.rows = 1 .. m
      /\ \A k \in 1 .. m : s.rows[k] = [c \in 1 .. n |-> Cell7(t, q[k], c)]
      /\ \A c \in 1 .. n : s.heads[c] = Head7(t, c)
  BY ColumnsOf7
<1>2. q \in [1 .. m -> 1 .. m]
  BY DEF FilesTell, IsOrder
<1>3. /\ at \in [1 .. l -> 1 .. m] /\ cols \in [1 .. w -> 1 .. n]
      /\ disk[9].heads = [d \in 1 .. w |-> s.heads[cols[d]]]
  BY DEF CsvTells, IsListOf, Saying
<1>4. \A d \in 1 .. w : disk[9].rows[j][d] = Written(s.rows[at[j]][cols[d]])
  BY WrittenSays
<1> HIDE DEF n, m, s
<1>5. at[j] \in 1 .. m /\ q[at[j]] \in 1 .. m
  BY <1>2, <1>3
<1>6. ASSUME NEW d \in 1 .. w
      PROVE  /\ cols[d] \in 1 .. n
             /\ disk[9].heads[d] = Head7(t, cols[d])
             /\ disk[9].rows[j][d] = Written(Cell7(t, q[at[j]], cols[d]))
  <2>1. cols[d] \in 1 .. n
    BY <1>3
  <2>2. s.heads[cols[d]] = Head7(t, cols[d])
    BY <1>1, <2>1
  <2>3. s.rows[at[j]] = [c \in 1 .. n |-> Cell7(t, q[at[j]], c)]
    BY <1>1, <1>5
  <2>4. s.rows[at[j]][cols[d]] = Cell7(t, q[at[j]], cols[d])
    BY <2>1, <2>3
  <2>5. disk[9].heads[d] = s.heads[cols[d]]
    BY <1>3
  <2> QED BY <1>4, <2>1, <2>2, <2>4, <2>5
<1>7. DOMAIN disk[9].heads = 1 .. w
  BY <1>3
<1> QED BY <1>5, <1>6, <1>7 DEF n, m, CellsTell

\* the rows of the table that have an identifier
WithId(t) == {r \in DOMAIN t.rows : ~Empty(t.rows[r][IdLetter])}

\* there is a line for each of them
RowsTell(t, q, at, l) ==
    /\ Len(disk[9].rows) = Cardinality(WithId(t))
    /\ DOMAIN disk[9].rows = 1 .. l
    /\ \A r \in WithId(t) : \E j \in 1 .. l : q[at[j]] = r

\* The rows of the CSV are those of the table with an identifier.
LEMMA CsvRows ==
  ASSUME NEW t \in Tables, NEW q, FilesTell(t, q), NEW cols, NEW w, NEW at, NEW l,
         CsvTells(disk[9], disk[7], Wide(t) + 2, Len(t.rows), cols, w, at, l),
         IdColumn(disk[9]) # 0
  PROVE  RowsTell(t, q, at, l)
<1> DEFINE s == disk[7]
           n == Wide(t) + 2
           m == Len(t.rows)
           a == IdLetter
           identified == {r \in DOMAIN t.rows : ~Empty(t.rows[r][a])}
           line(j) == [d \in 1 .. w |-> Written(s.rows[at[j]][cols[d]])]
           g == [j \in 1 .. l |-> q[at[j]]]
<1>1. /\ n \in Nat /\ m \in Nat /\ a \in Nat \ {0} /\ a + 2 <= n
      /\ \A k \in 1 .. m : s.rows[k] = [c \in 1 .. n |-> Cell7(t, q[k], c)]
  <2>1. n \in Nat /\ m \in Nat /\ a \in Nat \ {0} /\ a + 2 <= n
    BY ColumnsOf7
  <2>2. \A k \in 1 .. m : s.rows[k] = [c \in 1 .. n |-> Cell7(t, q[k], c)]
    BY ColumnsOf7
  <2> QED BY <2>1, <2>2
<1>2. IsOrder(q, m)
  BY DEF FilesTell
<1>3. DOMAIN t.rows = 1 .. m
  BY ShapeOfTable
<1>4. cols[IdColumn(disk[9])] = a
  BY ColumnsOfCsv
<1>5. /\ l \in Nat /\ at \in [1 .. l -> 1 .. m] /\ \A j, k \in 1 .. l : j < k => at[j] < at[k]
      /\ disk[9].rows = [j \in 1 .. l |-> line(j)]
      /\ \A k \in 1 .. m : (\E j \in 1 .. l : at[j] = k) <=> ~Empty(s.rows[k][a])
  BY <1>4 DEF CsvTells
<1>6. Len(disk[9].rows) = l /\ DOMAIN disk[9].rows = 1 .. l
  <2> HIDE DEF line
  <2>1. [j \in 1 .. l |-> line(j)] \in [1 .. l -> {line(j) : j \in 1 .. l}]
    OBVIOUS
  <2> QED BY <1>5, <2>1, LengthOf
<1>7. ASSUME NEW k \in 1 .. m
      PROVE  q[k] \in 1 .. m /\ (Empty(s.rows[k][a]) <=> Empty(t.rows[q[k]][a]))
  <2>1. q[k] \in 1 .. m
    BY <1>2 DEF IsOrder
  <2>2. s.rows[k] = [c \in 1 .. n |-> Cell7(t, q[k], c)] /\ a \in 1 .. n
    BY <1>1
  <2>3. s.rows[k][a] = Cell7(t, q[k], a)
    BY <2>2
  <2>4. Cell7(t, q[k], a) = Told(t, q[k], a)
    <3>1. a # a + 1 /\ a # a + 2 /\ Source7(a) = a
      BY <1>1 DEF Source7
    <3> QED BY <3>1 DEF Cell7
  <2>5. Empty(Told(t, q[k], a)) <=> Empty(t.rows[q[k]][a])
    BY <2>1, Identified
  <2> QED BY <2>1, <2>3, <2>4, <2>5
<1> HIDE DEF s, n, m
<1>8. ASSUME NEW r \in identified
      PROVE  \E j \in 1 .. l : q[at[j]] = r
  <2>1. PICK k \in 1 .. m : q[k] = r
    BY <1>2, <1>3 DEF IsOrder
  <2>2. ~Empty(s.rows[k][a])
    BY <1>7, <2>1
  <2>3. PICK j \in 1 .. l : at[j] = k
    BY <1>5, <2>2
  <2> QED BY <2>1, <2>3
<1>9. g \in Bijection(1 .. l, identified)
  <2>1. ASSUME NEW j \in 1 .. l
        PROVE  g[j] \in identified
    <3>1. at[j] \in 1 .. m
      BY <1>5
    <3>2. ~Empty(s.rows[at[j]][a])
      BY <1>5, <3>1
    <3>3. q[at[j]] \in 1 .. m /\ ~Empty(t.rows[q[at[j]]][a])
      BY <1>7, <3>1, <3>2
    <3> QED BY <1>3, <3>3
  <2>2. ASSUME NEW j \in 1 .. l, NEW k \in 1 .. l, g[j] = g[k]
        PROVE  j = k
    <3>1. at[j] \in 1 .. m /\ at[k] \in 1 .. m /\ q[at[j]] = q[at[k]]
      BY <1>5, <2>2
    <3>2. at[j] = at[k]
      BY <1>2, <3>1, SMTT(40) DEF IsOrder
    <3>3. j \in Nat /\ k \in Nat /\ at[j] \in Int
      BY <1>5, <3>1
    <3>4. ~(at[j] < at[k]) /\ ~(at[k] < at[j])
      BY <3>2, <3>3
    <3>5. ~(j < k) /\ ~(k < j)
      BY <1>5, <3>4
    <3> QED BY <3>3, <3>5
  <2>3. \A r \in identified : \E j \in 1 .. l : g[j] = r
    BY <1>8
  <2>4. g \in [1 .. l -> identified]
    BY <2>1
  <2> HIDE DEF g, identified
  <2> QED BY <2>2, <2>3, <2>4 DEF Bijection, Injection, Surjection, IsInjective
<1>10. Cardinality(identified) = l
  <2> HIDE DEF g, identified
  <2>1. IsFiniteSet(1 .. l) /\ Cardinality(1 .. l) = l
    BY <1>5, FS_Interval
  <2>2. ExistsBijection(1 .. l, identified)
    BY <1>9 DEF ExistsBijection
  <2> QED BY <2>1, <2>2, FS_Bijection
<1>11. identified = WithId(t)
  BY DEF WithId
<1> HIDE DEF identified
<1> QED BY <1>6, <1>8, <1>10, <1>11 DEF RowsTell

\* script 8 leaves the image path of InDesign as it is
PathsAreClean == Paths \cap ({Blank, NA} \cup Voids \cup DOMAIN CleanText) = {}

\* the line j of the CSV tells the row r of the table, its image and the path
LineTells(j, t, r) ==
    LET csv == disk[9]
    IN /\ \A d \in DOMAIN csv.heads :
             csv.heads[d].letter # 0 => csv.rows[j][d] = Via(CleanText, Told(t, r, csv.heads[d].letter))
       /\ csv.rows[j][ImageColumn(csv)] = Normalised[RawImage[t.rows[r][IdLetter]]]
       /\ csv.rows[j][PathColumn(csv)] = run.path

\* The line of the CSV of a row with an identifier.
LEMMA CsvLine ==
  ASSUME NamesAreClean, PathsAreClean, run.path \in Paths,
         NEW t \in Tables, NEW q, FilesTell(t, q), NEW cols, NEW w, NEW at, NEW l,
         CsvTells(disk[9], disk[7], Wide(t) + 2, Len(t.rows), cols, w, at, l),
         ImageColumn(disk[9]) # 0, NEW j \in 1 .. l, ~Empty(t.rows[q[at[j]]][IdLetter])
  PROVE  LineTells(j, t, q[at[j]])
<1> DEFINE s == disk[7]
           csv == disk[9]
           n == Wide(t) + 2
           m == Len(t.rows)
           a == IdLetter
           r == q[at[j]]
<1>1. /\ at[j] \in 1 .. m /\ r \in 1 .. m /\ DOMAIN csv.heads = 1 .. w
      /\ \A d \in 1 .. w : /\ cols[d] \in 1 .. n /\ csv.heads[d] = Head7(t, cols[d])
                          /\ csv.rows[j][d] = Written(Cell7(t, r, cols[d]))
  <2>1. CellsTell(t, q, cols, w, at, j)
    BY CsvCells
  <2> QED BY <2>1 DEF CellsTell
<1>8. ~Empty(t.rows[r][a])
  OBVIOUS
<1> HIDE DEF r
<1>2. a \in 1 .. Wide(t) /\ a \in Nat
  BY TextAssumption DEF FilesTell
<1>3. Filled(t, r, a) # NA
  <2>1. r \in 1 .. Len(t.rows)
    BY <1>1
  <2>2. Empty(Filled(t, r, a)) <=> Empty(t.rows[r][a])
    BY <2>1, Identified
  <2> QED BY <1>8, <2>2, CleanOnce
<1>4. /\ ImageName(t, r) \notin DOMAIN CleanText /\ ImageName(t, r) # Blank
      /\ ImageName(t, r) = Normalised[RawImage[t.rows[r][a]]]
  <2>1. r \in 1 .. Len(t.rows)
    BY <1>1
  <2>2. /\ ImageName(t, r) \notin DOMAIN CleanText
        /\ ImageName(t, r) = Blank <=> Filled(t, r, a) = NA
        /\ Filled(t, r, a) # NA => ImageName(t, r) = Normalised[RawImage[t.rows[r][a]]]
    BY <1>2, <2>1, NamesStay
  <2> QED BY <1>3, <2>2
<1>5. ASSUME NEW d \in 1 .. w, csv.heads[d].letter # 0
      PROVE  csv.rows[j][d] = Via(CleanText, Told(t, r, csv.heads[d].letter))
  <2>1. csv.heads[d] = Head7(t, cols[d]) /\ csv.rows[j][d] = Written(Cell7(t, r, cols[d]))
    BY <1>1
  <2> HIDE DEF csv, n, m
  <2>2. Head7(t, cols[d]).letter # 0
    BY <1>5, <2>1
  <2>3. cols[d] # a + 1 /\ cols[d] # a + 2 /\ Head7(t, cols[d]).letter = Source7(cols[d])
    BY <2>2 DEF Head7
  <2>4. Cell7(t, r, cols[d]) = Told(t, r, Source7(cols[d]))
    BY <2>3 DEF Cell7
  <2> QED BY <2>1, <2>3, <2>4, ToldIsWritten
<1>6. csv.rows[j][ImageColumn(csv)] = Normalised[RawImage[t.rows[r][a]]]
  <2> DEFINE f == ImageColumn(csv)
  <2>1. f \in 1 .. w /\ cols[f] = a + 1
    BY ColumnsOfCsv
  <2> HIDE DEF f
  <2>2. csv.rows[j][f] = Written(Cell7(t, r, a + 1))
    BY <1>1, <2>1
  <2>3. Cell7(t, r, a + 1) = ImageName(t, r)
    BY DEF Cell7
  <2>4. Written(ImageName(t, r)) = ImageName(t, r)
    BY <1>4 DEF Written, Via
  <2> QED BY <1>4, <2>2, <2>3, <2>4 DEF f
<1>7. csv.rows[j][PathColumn(csv)] = run.path
  <2> DEFINE e == PathColumn(csv)
  <2>1. run.path \notin {Blank, NA} \cup Voids /\ run.path \notin DOMAIN CleanText
    BY DEF PathsAreClean
  <2>2. ~Empty(run.path) /\ Written(run.path) = run.path
    BY <2>1 DEF Empty, Written, Via
  <2>3. Cell7(t, r, a + 2) = run.path
    <3>1. a + 2 # a + 1
      BY <1>2
    <3> QED BY <1>4, <3>1 DEF Cell7
  <2>4. /\ n \in Nat /\ DOMAIN s.heads = 1 .. n /\ a + 2 \in 1 .. n
        /\ \A k \in 1 .. m : s.rows[k] = [c \in 1 .. n |-> Cell7(t, q[k], c)]
    <3>1. /\ n \in Nat /\ a \in Nat \ {0} /\ a + 2 <= n /\ DOMAIN s.heads = 1 .. n
          /\ \A k \in 1 .. m : s.rows[k] = [c \in 1 .. n |-> Cell7(t, q[k], c)]
      BY ColumnsOf7
    <3> QED BY <3>1
  <2>5. s.rows[at[j]][a + 2] = run.path
    <3>1. s.rows[at[j]] = [c \in 1 .. n |-> Cell7(t, r, c)]
      BY <1>1, <2>4 DEF r
    <3> QED BY <2>3, <2>4, <3>1
  <2>6. a + 2 \in Saying(s, n, m)
    BY <1>1, <2>2, <2>4, <2>5 DEF Saying
  <2>7. PathColumn(s) = a + 2
    BY ImageColumnOf7
  <2>8. w \in Nat /\ IsListOf(cols, w, Saying(s, n, m)) /\ TakenFrom(csv, s, cols, w)
    BY DEF CsvTells, TakenFrom
  <2> HIDE DEF n, m, s, csv
  <2>9. FoundInBoth(csv, s, n, m, w, cols, {"@pathimg"}, {0})
    BY <2>4, <2>8, KeptColumn
  <2>10. e \in 1 .. w /\ cols[e] = a + 2
    BY <2>6, <2>7, <2>9 DEF FoundInBoth, PathColumn
  <2> HIDE DEF e
  <2>11. csv.rows[j][e] = Written(Cell7(t, r, a + 2))
    BY <1>1, <2>10
  <2> QED BY <2>2, <2>3, <2>11 DEF e
<1>9. \A d \in DOMAIN csv.heads :
         csv.heads[d].letter # 0 => csv.rows[j][d] = Via(CleanText, Told(t, r, csv.heads[d].letter))
  BY <1>1, <1>5
<1>10. LineTells(j, t, r)
  BY <1>6, <1>7, <1>9 DEF LineTells
<1> QED BY <1>10 DEF r

\* the mapping has the letters of the columns of the CSV
MapsTheCsv ==
    {h.letter : h \in Range(disk[9].heads)} \ {0}
       = {h.letter : h \in {g \in Range(disk[11].heads) : g.name # "Non mappe"}}

\* Script 11 maps the columns that the CSV has kept.
LEMMA MappingTellsTheCsv ==
  ASSUME IsLinked(11), NEW t \in Tables, NEW q, FilesTell(t, q), NEW cols, NEW w, NEW at, NEW l,
         CsvTells(disk[9], disk[7], Wide(t) + 2, Len(t.rows), cols, w, at, l)
  PROVE  MapsTheCsv
<1> DEFINE s == disk[7]
           csv == disk[9]
           mapping == disk[11].heads
           v == Wide(t)
           a == IdLetter
           unmapped == "Non mappe"
           names == {h.name : h \in Range(csv.heads)}
           D(c) == Column(csv, names, {c})
<1>1. v \in Nat /\ a \in 1 .. v /\ DOMAIN s.heads = 1 .. v + 2 /\ \A c \in 1 .. v + 2 : s.heads[c] = Head7(t, c)
  <2>1. v \in Nat
    BY ShapeOfTable
  <2> QED BY <2>1, ColumnsOf7 DEF FilesTell
<1>2. /\ w \in Nat /\ DOMAIN csv.heads = 1 .. w
      /\ \A d \in 1 .. w : cols[d] \in 1 .. v + 2 /\ csv.heads[d] = s.heads[cols[d]]
  BY DEF CsvTells, IsListOf, Saying
<1>3. disk[1].heads = [c \in 1 .. v |-> [letter |-> c, name |-> t.heads[c].name]]
  BY DEF FilesTell
<1>4. mapping = MappingOf(disk[1], csv).heads
  <2>1. disk[11].heads = SheetMade(11).heads
    BY FileMade DEF Outputs, Scripts, ImageScript, CheckScript
  <2> QED BY <2>1 DEF SheetMade, Csv
<1>5. mapping = [c \in DOMAIN disk[1].heads |->
                   [letter |-> disk[1].heads[c].letter,
                    name |-> IF D(disk[1].heads[c].letter) = 0 THEN unmapped
                             ELSE csv.heads[D(disk[1].heads[c].letter)].name]]
  BY <1>4, Zenon DEF MappingOf
<1>6. unmapped \notin Range(HeadName)
  BY HeadAssumption, Zenon
<1>7. \A d \in 1 .. w : csv.heads[d].letter # 0 =>
         csv.heads[d].letter \in 1 .. v /\ csv.heads[d].name \in Range(HeadName)
  <2> HIDE DEF s, csv, v, unmapped
  <2> TAKE d \in 1 .. w
  <2>1. SUFFICES ASSUME csv.heads[d].letter # 0
                 PROVE  csv.heads[d].letter \in 1 .. v /\ csv.heads[d].name \in Range(HeadName)
    OBVIOUS
  <2> DEFINE c == cols[d]
             e == Source7(c)
  <2>2. c \in 1 .. v + 2 /\ csv.heads[d] = Head7(t, c)
    BY <1>1, <1>2
  <2> HIDE DEF c
  <2>3. c # a + 1 /\ c # a + 2 /\ Head7(t, c) = [letter |-> e, name |-> HeadName[t.heads[e].name]]
    BY <2>1, <2>2 DEF Head7
  <2>4. e \in 1 .. v
    BY <1>1, <2>2, <2>3 DEF Source7
  <2> HIDE DEF e
  <2>5. t.heads[e].name \in DOMAIN HeadName
    <3> DEFINE H == [letter : {0}, name : DOMAIN HeadName]
    <3>1. t.heads \in Seq(H)
      BY TableAssumption
    <3>2. t.heads[e] \in H
      <4> HIDE DEF H
      <4> QED BY <2>4, <3>1, ElementOfSeq DEF v, Wide
    <3> QED BY <3>2
  <2>6. HeadName[t.heads[e].name] \in Range(HeadName)
    BY <2>5 DEF Range
  <2> QED BY <2>2, <2>3, <2>4, <2>6
<1> HIDE DEF s, csv, mapping, v, unmapped
<1>8. DOMAIN mapping = 1 .. v
  BY <1>3, <1>5
<1>9. ASSUME NEW c \in 1 .. v
      PROVE  /\ mapping[c].letter = c
             /\ mapping[c].name # unmapped <=> \E d \in 1 .. w : csv.heads[d].letter = c
  <2>1. c \in DOMAIN disk[1].heads /\ disk[1].heads[c].letter = c
    BY <1>3
  <2> HIDE DEF D
  <2>2. mapping[c] = [letter |-> c, name |-> IF D(c) = 0 THEN unmapped ELSE csv.heads[D(c)].name]
    BY <1>5, <2>1
  <2> USE DEF D
  <2>3. /\ D(c) = 0 <=> Fitting(csv, names, {c}) = {}
        /\ D(c) # 0 => D(c) \in Fitting(csv, names, {c})
    <3> HIDE DEF names
    <3> QED BY <1>2, FirstColumn
  <2>4. \A d : d \in Fitting(csv, names, {c}) <=> d \in 1 .. w /\ csv.heads[d].letter = c
    <3>1. \A d \in 1 .. w : csv.heads[d].name \in names
      BY <1>2 DEF Range
    <3> HIDE DEF names
    <3> QED BY <1>2, <3>1 DEF Fitting
  <2> HIDE DEF D, names
  <2>5. CASE D(c) = 0
    <3>1. mapping[c].letter = c /\ mapping[c].name = unmapped
      BY <2>2, <2>5
    <3> QED BY <2>3, <2>4, <2>5, <3>1
  <2>6. CASE D(c) # 0
    <3>1. D(c) \in 1 .. w /\ csv.heads[D(c)].letter = c
      BY <2>3, <2>4, <2>6
    <3>2. c # 0
      BY <1>1
    <3>3. csv.heads[D(c)].name \in Range(HeadName)
      BY <1>7, <3>1, <3>2
    <3>4. mapping[c].letter = c /\ mapping[c].name = csv.heads[D(c)].name
      BY <2>2, <2>6
    <3> QED BY <1>6, <3>1, <3>3, <3>4
  <2> QED BY <2>5, <2>6
<1> DEFINE A == {h.letter : h \in Range(csv.heads)} \ {0}
           B == {h.letter : h \in {g \in Range(mapping) : g.name # unmapped}}
<1>10. \A x : x \in A <=> x \in 1 .. v /\ \E d \in 1 .. w : csv.heads[d].letter = x
  <2> TAKE x
  <2>1. x \in A <=> x # 0 /\ \E d \in 1 .. w : csv.heads[d].letter = x
    BY <1>2, ZenonT(60) DEF Range
  <2>2. x \in 1 .. v => x # 0
    BY <1>1
  <2> HIDE DEF A
  <2> QED BY <1>7, <2>1, <2>2
<1>11. \A x : x \in B <=> x \in 1 .. v /\ \E d \in 1 .. w : csv.heads[d].letter = x
  <2> TAKE x
  <2>1. x \in B <=> \E c \in 1 .. v : mapping[c].letter = x /\ mapping[c].name # unmapped
    BY <1>8 DEF Range
  <2> HIDE DEF B
  <2> QED BY <1>9, <2>1
<1>12. A = B
  <2> HIDE DEF A, B
  <2> QED BY <1>10, <1>11
<1> QED BY <1>12, Zenon DEF MapsTheCsv, csv, mapping, unmapped

\* A run that began has one of the image paths.
PathIsGiven == run.step > 0 \/ run.phase = "chain" => run.path \in Paths

\* Every step of the master script and of the user keeps it.
LEMMA PathIsGivenStep ==
  ASSUME RunInv, PathIsGiven, [Next]_vars
  PROVE  PathIsGiven'
<1>1. DOMAIN run = RunFields
  BY Zenon DEF RunInv
<1>2. CASE UNCHANGED run
  BY <1>2 DEF PathIsGiven
<1>3. CASE Give
  <2>1. run' = Ended(NextRun, 1)
    BY <1>3 DEF Give
  <2>2. run'.step = 0 /\ run'.phase = "ended"
    BY <2>1 DEF Ended, NextRun, NoRun
  <2> QED BY <2>2 DEF PathIsGiven
<1>4. ASSUME NEW path \in Paths, NEW copied, Begin(path, copied)
      PROVE  PathIsGiven'
  <2>1. run' = [NextRun EXCEPT !.phase = "chain", !.path = path,
                 !.warned = (ToBackUp \ copied) \cup (IF folder # {} THEN {ImageScript} ELSE {})]
    BY <1>4 DEF Begin
  <2>2. run'.path = path
    BY <2>1 DEF NextRun, NoRun
  <2> QED BY <2>2 DEF PathIsGiven
<1>5. ASSUME NEW i \in Scripts, NEW o, run.phase = "chain", Executed(i, o)
      PROVE  PathIsGiven'
  <2>1. run.path \in Paths
    BY <1>5 DEF PathIsGiven
  <2>2. run'.path = run.path
    BY <1>1, <1>5 DEF Executed, RunFields
  <2> QED BY <2>1, <2>2 DEF PathIsGiven
<1>6. ASSUME run'.path = run.path, run'.step = run.step, run'.phase = "ended"
      PROVE  PathIsGiven'
  BY <1>6 DEF PathIsGiven
<1>7. ASSUME NEW i \in Scripts, RunScript(i)
      PROVE  PathIsGiven'
  BY <1>5, <1>7 DEF RunScript
<1>8. ASSUME NEW i \in Scripts, ScriptFails(i)
      PROVE  PathIsGiven'
  BY <1>5, <1>8 DEF ScriptFails
<1>9. ASSUME NEW i \in Scripts, Interrupt(i)
      PROVE  PathIsGiven'
  <2>1. run' = Ended(run, 1)
    BY <1>9 DEF Interrupt
  <2> QED BY <1>1, <1>6, <2>1 DEF Ended, RunFields
<1>10. CASE WriteReport
  <2>1. run' = Ended([run EXCEPT !.report = Status(run)], IF run.errors = 0 THEN 0 ELSE 1)
    BY <1>10 DEF WriteReport
  <2> QED BY <1>1, <1>6, <2>1 DEF Ended, RunFields
<1>11. CASE ReportFails
  <2>1. run' = Ended(run, 1)
    BY <1>11 DEF ReportFails
  <2> QED BY <1>1, <1>6, <2>1 DEF Ended, RunFields
<1>12. CASE Withdraw \/ (\E t \in Tables : Deposit(t)) \/ \E g \in Galleries : ChangeImages(g)
  BY <1>2, <1>12 DEF Withdraw, Deposit, ChangeImages
<1>13. CASE UNCHANGED vars
  BY <1>2, <1>13 DEF vars
<1> QED
  BY <1>3, <1>4, <1>7, <1>8, <1>9, <1>10, <1>11, <1>12, <1>13 DEF Next

\* A run whose scripts have all counted.
LEMMA CompleteFiles ==
  ASSUME NamesAreClean, PathsAreClean, ChainInv, PathIsGiven, run.step = 13
  PROVE  CompleteRunIsOfOneTable
<1> DEFINE word == disk[5]
           csv == disk[9]
<1>1. \A i \in Outputs : IsLinked(i)
  <2>1. \A i \in Outputs : i < 13
    BY DEF Outputs, Scripts
  <2> QED BY <2>1 DEF ChainInv, Linked
<1>2. ASSUME NEW o \in Outputs
      PROVE  OfThisRun(o)
  <2>1. \E s : disk[o] = FileOf(s)
    BY <1>1 DEF IsLinked, Made, FileOf
  <2>2. disk[o].whole /\ disk[o].run = run.n /\ "whole" \in DOMAIN disk[o]
    BY <2>1 DEF FileOf
  <2>3. DOMAIN None = {"none"}
    BY DEF None
  <2> QED BY <2>2, <2>3 DEF OfThisRun
<1>3. 0 \notin {IdColumn(csv), ImageColumn(csv)} /\ run.path \in Paths
  BY DEF ChainInv, Linked, PathIsGiven, Csv
<1>t. PICK t \in Tables : \E q, cols, w, at, l :
         FilesTell(t, q) /\ CsvTells(disk[9], disk[7], Wide(t) + 2, Len(t.rows), cols, w, at, l)
  BY CsvOf7
<1>4. PICK q, cols, w, at, l :
         FilesTell(t, q) /\ CsvTells(disk[9], disk[7], Wide(t) + 2, Len(t.rows), cols, w, at, l)
  BY <1>t
<1>5. /\ Len(word.rows) = Len(t.rows)
      /\ \A r \in DOMAIN t.rows : \E k \in DOMAIN word.rows : \A c \in DOMAIN word.heads :
            word.heads[c].letter # 0 => word.rows[k][c] = Told(t, r, word.heads[c].letter)
  BY <1>4, WordTellsTheTable
<1>6. /\ Len(csv.rows) = Cardinality(WithId(t)) /\ DOMAIN csv.rows = 1 .. l
      /\ \A r \in WithId(t) : \E j \in 1 .. l : q[at[j]] = r
  <2>1. IdColumn(disk[9]) # 0
    BY <1>3
  <2>2. RowsTell(t, q, at, l)
    BY <1>4, <2>1, CsvRows
  <2> QED BY <2>2 DEF RowsTell
<1>7. ASSUME NEW r \in WithId(t)
      PROVE  \E k \in DOMAIN csv.rows : LineTells(k, t, r)
  <2>1. PICK j \in 1 .. l : q[at[j]] = r
    BY <1>6
  <2>2. ~Empty(t.rows[q[at[j]]][IdLetter])
    BY <2>1 DEF WithId
  <2>3. LineTells(j, t, q[at[j]])
    BY <1>3, <1>4, <2>2, CsvLine
  <2> QED BY <1>6, <2>1, <2>3
<1>8. MapsTheCsv
  <2>1. IsLinked(11)
    BY <1>1 DEF Outputs, Scripts, ImageScript, CheckScript
  <2> QED BY <1>4, <2>1, MappingTellsTheCsv
<1> HIDE DEF word, csv
<1> QED BY <1>2, <1>5, <1>6, <1>7, <1>8, Zenon
        DEF CompleteRunIsOfOneTable, Tells, LineTells, Word, Csv, MappingFile, MapsTheCsv, WithId, word, csv

\* A run that ends with code zero is of one table (sircom_master_script.py and
\* the scripts of scripts-2025): the Word file, the CSV, its image paths and
\* the mapping tell the table that script 0 read, if script 8 has nothing to
\* clean in the names of the images and in the path.
THEOREM CompleteRunsAreOfOneTable ==
  ASSUME NamesAreClean, PathsAreClean
  PROVE  Spec => []CompleteRunIsOfOneTable
<1> DEFINE Inv == ChainInv /\ PathIsGiven
<1>1. ChainInit => Inv
  <2>1. ChainInit => PathIsGiven
    <3>1. NoRun.step = 0 /\ NoRun.phase = "ended"
      BY Zenon DEF NoRun
    <3> QED BY <3>1 DEF ChainInit, PathIsGiven
  <2> QED BY <2>1, ChainInvInit
<1>2. Inv /\ [Next]_vars => Inv'
  BY ChainInvStep, PathIsGivenStep DEF ChainInv
<1>3. Inv => CompleteRunIsOfOneTable
  <2>1. SUFFICES ASSUME Inv
                 PROVE  CompleteRunIsOfOneTable
    OBVIOUS
  <2>2. CASE run.phase = "ended" /\ run.code = 0
    <3>1. run.step = 13
      BY <2>1, <2>2 DEF ChainInv, Numbers
    <3> QED BY <2>1, <3>1, CompleteFiles
  <2>3. CASE ~(run.phase = "ended" /\ run.code = 0)
    BY <2>3, Zenon DEF CompleteRunIsOfOneTable
  <2> QED BY <2>2, <2>3
<1> HIDE DEF Inv
<1>4. Spec => []Inv
  BY <1>1, <1>2, PTL DEF Spec
<1> QED BY <1>3, <1>4, PTL
====
