-------------------------- MODULE LotStorageProofs --------------------------
(***************************************************************************)
(* Theorems about the files and the rows of a lot, for any lots, artefacts,*)
(* writers, purges and bounds, as long as every writer runs in the process *)
(* of the application, which its crash stops.                              *)
(***************************************************************************)
EXTENDS LotStorage, TLAPS

LotStatus == {"ouvert", "annule", "supprime", "purge"}
RowType ==
  [status : {"none", "committed", "obsolete"}, lot : Lots \cup {None}, current : BOOLEAN]
WriterType ==
  [pc : {"idle", "working", "prepared", "dead"}, lot : Lots \cup {None},
   art : Artefacts \cup {None}, lease : {"none", "held", "lapsed"}]
PurgerType == [pc : {"idle", "marked", "removed"}, lot : Lots \cup {None}]

\* Type correctness of the tables, the files and the actors.
StorageTypes ==
  /\ lots \in [Lots -> LotStatus]
  /\ rows \in [Artefacts -> RowType]
  /\ files \in [Artefacts -> Lots \cup {None}]
  /\ trace \in [Lots -> {"none", "started", "completed"}]
  /\ writers \in [Writers -> WriterType]
  /\ purgers \in [Purgers -> PurgerType]
  /\ up \in BOOLEAN

\* A row has a lot, an identifier without a row has none.
RowsHaveLots == \A a \in Artefacts : rows[a].status = "none" <=> rows[a].lot = None

\* A file in the making has a writer of its own and no row yet; it is in
\* place until its lot is deleted.
WritersOwnTheirFile ==
  /\ \A w \in Writers :
       /\ writers[w].pc # "idle" => writers[w].lot \in Lots
       /\ writers[w].pc \in {"idle", "working"} => writers[w].art = None
       /\ writers[w].pc = "prepared" => writers[w].art \in Artefacts
       /\ writers[w].art # None => rows[writers[w].art].status = "none"
       /\ writers[w].pc = "prepared" /\ ~Deleted(writers[w].lot) =>
            files[writers[w].art] = writers[w].lot
  /\ \A v, w \in Writers :
       v # w /\ writers[v].art # None => writers[v].art # writers[w].art

\* A purge runs on a deleted lot, and what it has not removed when it says it
\* is done belongs to a writer.
PurgesAreOfDeletedLots ==
  \A p \in Purgers :
    /\ purgers[p].pc # "idle" => purgers[p].lot \in Lots /\ Deleted(purgers[p].lot)
    /\ purgers[p].pc = "removed" =>
         \A a \in FilesOf(purgers[p].lot) : \E w \in Writers : writers[w].art = a

\* No request or job is under way while the application is down.
DownIsQuiet == ~up => \A w \in Writers : writers[w].pc \in {"idle", "dead"}

SInv ==
  /\ StorageTypes
  /\ RowsHaveLots
  /\ WritersOwnTheirFile
  /\ PurgesAreOfDeletedLots
  /\ DownIsQuiet
  /\ ExposedArtefactHasItsFile
  /\ PurgedLotKeepsNothing

InProcess == External = {}

USE StorageAssumption

LEMMA SInit == Init => SInv
BY DEF Init, SInv, StorageTypes, RowsHaveLots, WritersOwnTheirFile,
       PurgesAreOfDeletedLots, DownIsQuiet, ExposedArtefactHasItsFile,
       PurgedLotKeepsNothing, NoRow, RestWriter, RestPurger, Deleted, FilesOf,
       LotStatus, RowType, WriterType, PurgerType

\* The row and its file appear together, on a lot that is not deleted.
LEMMA PutThenCommitKeeps ==
  ASSUME SInv, NEW l \in Lots, NEW a \in Artefacts, PutThenCommit(l, a)
  PROVE  SInv'
<1>1. PICK old \in SUBSET Committed(l) : rows' = Replaced(a, l, old)
  BY DEF PutThenCommit
<1> USE DEF SInv, PutThenCommit, Free, Replaced, CommittedRow, Committed, NoRow, Deleted, database, bounds
<1>2. StorageTypes'
  BY <1>1, SMTT(40) DEF StorageTypes, RowType
<1>3. RowsHaveLots'
  BY <1>1 DEF RowsHaveLots, StorageTypes, RowType
<1>4. WritersOwnTheirFile'
  BY <1>1 DEF WritersOwnTheirFile, StorageTypes, RowType, WriterType
<1>5. PurgesAreOfDeletedLots'
  BY <1>1 DEF PurgesAreOfDeletedLots, StorageTypes, PurgerType, WriterType, FilesOf
<1>6. DownIsQuiet'
  BY <1>1 DEF DownIsQuiet, StorageTypes, WriterType
<1>7. ExposedArtefactHasItsFile'
  BY <1>1 DEF ExposedArtefactHasItsFile, StorageTypes, RowType
<1>8. PurgedLotKeepsNothing'
  BY <1>1 DEF PurgedLotKeepsNothing, StorageTypes, RowType, WriterType, FilesOf
<1> QED BY <1>2, <1>3, <1>4, <1>5, <1>6, <1>7, <1>8

\* The file stays without a row, on a lot that is not deleted.
LEMMA PutThenRollbackKeeps ==
  ASSUME SInv, NEW l \in Lots, NEW a \in Artefacts, PutThenRollback(l, a)
  PROVE  SInv'
<1> USE DEF SInv, PutThenRollback, Free, NoRow, Deleted, database, bounds
<1>2. StorageTypes'
  BY DEF StorageTypes, RowType, WriterType, PurgerType, LotStatus
<1>3. RowsHaveLots'
  BY DEF RowsHaveLots, StorageTypes, RowType
<1>4. WritersOwnTheirFile'
  BY DEF WritersOwnTheirFile, StorageTypes, RowType, WriterType
<1>5. PurgesAreOfDeletedLots'
  BY DEF PurgesAreOfDeletedLots, StorageTypes, PurgerType, WriterType, FilesOf
<1>6. DownIsQuiet'
  BY DEF DownIsQuiet, StorageTypes, WriterType
<1>7. ExposedArtefactHasItsFile'
  BY DEF ExposedArtefactHasItsFile, StorageTypes, RowType
<1>8. PurgedLotKeepsNothing'
  BY DEF PurgedLotKeepsNothing, StorageTypes, RowType, WriterType, FilesOf
<1> QED BY <1>2, <1>3, <1>4, <1>5, <1>6, <1>7, <1>8

\* A writer starts on an open lot, while the application runs.
LEMMA BeginKeeps ==
  ASSUME SInv, NEW w \in Writers, NEW l \in Lots, NEW lease \in {"none", "held"}, Begin(w, l, lease), InProcess
  PROVE  SInv'
<1> USE DEF SInv, InProcess, Begin, Open, Deleted, database, bounds
<1>a. \A v \in Writers : writers'[v].art = writers[v].art
  BY DEF StorageTypes, WritersOwnTheirFile, WriterType
<1>2. StorageTypes'
  BY DEF StorageTypes, RowType, WriterType, PurgerType, LotStatus
<1>3. RowsHaveLots'
  BY DEF RowsHaveLots, StorageTypes, RowType
<1>4. WritersOwnTheirFile'
  BY DEF WritersOwnTheirFile, StorageTypes, RowType, WriterType
<1>5. PurgesAreOfDeletedLots'
  BY <1>a DEF PurgesAreOfDeletedLots, FilesOf
<1>6. DownIsQuiet'
  BY DEF DownIsQuiet, StorageTypes, WriterType
<1>7. ExposedArtefactHasItsFile'
  BY DEF ExposedArtefactHasItsFile, StorageTypes, RowType
<1>8. PurgedLotKeepsNothing'
  BY <1>a DEF PurgedLotKeepsNothing, FilesOf
<1> QED BY <1>2, <1>3, <1>4, <1>5, <1>6, <1>7, <1>8

\* The writer's file takes a free name.
LEMMA PrepareFileKeeps ==
  ASSUME SInv, NEW w \in Writers, NEW a \in Artefacts, PrepareFile(w, a)
  PROVE  SInv'
<1> USE DEF SInv, PrepareFile, Free, NoRow, Deleted, database, bounds
<1>2. StorageTypes'
  BY DEF StorageTypes, RowType, WriterType, PurgerType, LotStatus
<1>3. RowsHaveLots'
  BY DEF RowsHaveLots, StorageTypes, RowType
<1>4. WritersOwnTheirFile'
  BY DEF WritersOwnTheirFile, StorageTypes, RowType, WriterType
<1>5. PurgesAreOfDeletedLots'
  BY DEF PurgesAreOfDeletedLots, StorageTypes, PurgerType, WriterType, FilesOf
<1>6. DownIsQuiet'
  BY DEF DownIsQuiet, StorageTypes, WriterType
<1>7. ExposedArtefactHasItsFile'
  BY DEF ExposedArtefactHasItsFile, StorageTypes, RowType
<1>8. PurgedLotKeepsNothing'
  BY DEF PurgedLotKeepsNothing, StorageTypes, RowType, WriterType, FilesOf
<1> QED BY <1>2, <1>3, <1>4, <1>5, <1>6, <1>7, <1>8

\* The row of a file in the making: its lot is not deleted, so the file is
\* still in place.
LEMMA RegisterKeeps ==
  ASSUME SInv, NEW w \in Writers, Register(w)
  PROVE  SInv'
<1>1. PICK old \in SUBSET Committed(writers[w].lot) :
         rows' = Replaced(writers[w].art, writers[w].lot, old)
  BY DEF Register
<1> USE DEF SInv, Register, MayRegister, Open, Replaced, CommittedRow, Committed, RestWriter, Deleted, database, bounds
<1>a. /\ writers[w].lot \in Lots /\ writers[w].art \in Artefacts
      /\ lots[writers[w].lot] \notin {"supprime", "purge"}
      /\ rows[writers[w].art].status = "none"
      /\ files[writers[w].art] = writers[w].lot
  BY DEF StorageTypes, WritersOwnTheirFile, WriterType
<1>b. \A v \in Writers : v # w => writers'[v] = writers[v]
  BY DEF StorageTypes, WriterType
<1>2. StorageTypes'
  BY <1>1, SMTT(40) DEF StorageTypes, RowType, WriterType, PurgerType, LotStatus
<1>3. RowsHaveLots'
  BY <1>1, <1>a DEF RowsHaveLots, StorageTypes, RowType
<1>4. WritersOwnTheirFile'
  BY <1>1 DEF WritersOwnTheirFile, StorageTypes, RowType, WriterType
<1>5. PurgesAreOfDeletedLots'
  BY <1>1, <1>a, <1>b DEF PurgesAreOfDeletedLots, StorageTypes, FilesOf
<1>6. DownIsQuiet'
  BY <1>1 DEF DownIsQuiet, StorageTypes, WriterType
<1>7. ExposedArtefactHasItsFile'
  BY <1>1, <1>a DEF ExposedArtefactHasItsFile, StorageTypes, RowType
<1>8. PurgedLotKeepsNothing'
  BY <1>1, <1>a, <1>b DEF PurgedLotKeepsNothing, StorageTypes, RowType, FilesOf
<1> QED BY <1>2, <1>3, <1>4, <1>5, <1>6, <1>7, <1>8

\* The dropped file had no row.
LEMMA AbandonKeeps ==
  ASSUME SInv, NEW w \in Writers, Abandon(w)
  PROVE  SInv'
<1> USE DEF SInv, Abandon, FileDropped, RestWriter, Deleted, database, bounds
<1>a. \A a \in Artefacts : rows[a].status = "committed" => files'[a] = files[a]
  BY DEF StorageTypes, WritersOwnTheirFile, WriterType
<1>2. StorageTypes'
  BY DEF StorageTypes, RowType, WriterType, PurgerType, LotStatus
<1>3. RowsHaveLots'
  BY DEF RowsHaveLots, StorageTypes, RowType
<1>4. WritersOwnTheirFile'
  BY DEF WritersOwnTheirFile, StorageTypes, RowType, WriterType
<1>5. PurgesAreOfDeletedLots'
  BY DEF PurgesAreOfDeletedLots, StorageTypes, PurgerType, WriterType, FilesOf
<1>6. DownIsQuiet'
  BY DEF DownIsQuiet, StorageTypes, WriterType
<1>7. ExposedArtefactHasItsFile'
  BY <1>a DEF ExposedArtefactHasItsFile, StorageTypes
<1>8. PurgedLotKeepsNothing'
  BY DEF PurgedLotKeepsNothing, StorageTypes, RowType, WriterType, FilesOf
<1> QED BY <1>2, <1>3, <1>4, <1>5, <1>6, <1>7, <1>8

\* A canceled lot is not deleted.
LEMMA CancelLotKeeps ==
  ASSUME SInv, NEW w \in Writers, CancelLot(w)
  PROVE  SInv'
<1> USE DEF SInv, CancelLot, FileDropped, RestWriter, Deleted, database, bounds
<1>a. \A a \in Artefacts : rows[a].status = "committed" => files'[a] = files[a]
  BY DEF StorageTypes, WritersOwnTheirFile, WriterType
<1>b. \A l \in Lots : lots'[l] \in {"ouvert", "annule"} => lots[l] \in {"ouvert", "annule"}
  BY DEF StorageTypes, WritersOwnTheirFile, LotStatus
<1>2. StorageTypes'
  BY DEF StorageTypes, RowType, WriterType, PurgerType, LotStatus
<1>3. RowsHaveLots'
  BY DEF RowsHaveLots, StorageTypes, RowType
<1>4. WritersOwnTheirFile'
  BY DEF WritersOwnTheirFile, StorageTypes, RowType, WriterType
<1>5. PurgesAreOfDeletedLots'
  BY DEF PurgesAreOfDeletedLots, StorageTypes, PurgerType, WriterType, FilesOf
<1>6. DownIsQuiet'
  BY DEF DownIsQuiet, StorageTypes, WriterType
<1>7. ExposedArtefactHasItsFile'
  BY <1>a, <1>b DEF ExposedArtefactHasItsFile, StorageTypes, RowsHaveLots, RowType
<1>8. PurgedLotKeepsNothing'
  BY DEF PurgedLotKeepsNothing, StorageTypes, RowType, WriterType, FilesOf
<1> QED BY <1>2, <1>3, <1>4, <1>5, <1>6, <1>7, <1>8

\* A lease that lapses moves no row and no file.
LEMMA LapseKeeps ==
  ASSUME SInv, NEW w \in Writers, Lapse(w)
  PROVE  SInv'
<1> USE DEF SInv, Lapse, Deleted, database, bounds
<1>2. StorageTypes'
  BY SMTT(40) DEF StorageTypes, RowType, WriterType, PurgerType, LotStatus
<1>3. RowsHaveLots'
  BY DEF RowsHaveLots, StorageTypes, RowType
<1>4. WritersOwnTheirFile'
  BY DEF WritersOwnTheirFile, StorageTypes, RowType, WriterType
<1>5. PurgesAreOfDeletedLots'
  BY DEF PurgesAreOfDeletedLots, StorageTypes, PurgerType, WriterType, FilesOf
<1>6. DownIsQuiet'
  BY DEF DownIsQuiet, StorageTypes, WriterType
<1>7. ExposedArtefactHasItsFile'
  BY DEF ExposedArtefactHasItsFile, StorageTypes, RowType
<1>8. PurgedLotKeepsNothing'
  BY DEF PurgedLotKeepsNothing, StorageTypes, RowType, WriterType, FilesOf
<1> QED BY <1>2, <1>3, <1>4, <1>5, <1>6, <1>7, <1>8

\* A retried row stays committed.
LEMMA RetryKeeps ==
  ASSUME SInv, NEW a \in Artefacts, Retry(a)
  PROVE  SInv'
<1> USE DEF SInv, Retry, Open, Deleted, database, bounds
<1>2. StorageTypes'
  BY ZenonT(60) DEF StorageTypes, RowType
<1>3. RowsHaveLots'
  BY DEF RowsHaveLots, StorageTypes, RowType
<1>4. WritersOwnTheirFile'
  BY DEF WritersOwnTheirFile, StorageTypes, RowType, WriterType
<1>5. PurgesAreOfDeletedLots'
  BY DEF PurgesAreOfDeletedLots, StorageTypes, PurgerType, WriterType, FilesOf
<1>6. DownIsQuiet'
  BY DEF DownIsQuiet, StorageTypes, WriterType
<1>7. ExposedArtefactHasItsFile'
  BY DEF ExposedArtefactHasItsFile, StorageTypes, RowType
<1>8. PurgedLotKeepsNothing'
  BY DEF PurgedLotKeepsNothing, StorageTypes, RowType, WriterType, FilesOf
<1> QED BY <1>2, <1>3, <1>4, <1>5, <1>6, <1>7, <1>8

\* A missing file's row becomes obsolete.
LEMMA ReadMissingKeeps ==
  ASSUME SInv, NEW a \in Artefacts, ReadMissing(a)
  PROVE  SInv'
<1> USE DEF SInv, ReadMissing, Missing, MayRecordProblem, Open, Deleted, database, bounds
<1>2. StorageTypes'
  BY SMTT(40) DEF StorageTypes, RowType, WriterType, PurgerType, LotStatus
<1>3. RowsHaveLots'
  BY DEF RowsHaveLots, StorageTypes, RowType
<1>4. WritersOwnTheirFile'
  BY DEF WritersOwnTheirFile, StorageTypes, RowType, WriterType
<1>5. PurgesAreOfDeletedLots'
  BY DEF PurgesAreOfDeletedLots, StorageTypes, PurgerType, WriterType, FilesOf
<1>6. DownIsQuiet'
  BY DEF DownIsQuiet, StorageTypes, WriterType
<1>7. ExposedArtefactHasItsFile'
  BY DEF ExposedArtefactHasItsFile, StorageTypes, RowType
<1>8. PurgedLotKeepsNothing'
  BY DEF PurgedLotKeepsNothing, StorageTypes, RowType, WriterType, FilesOf
<1> QED BY <1>2, <1>3, <1>4, <1>5, <1>6, <1>7, <1>8

\* A lost file had a row, hence no writer.
LEMMA LoseFileKeeps ==
  ASSUME SInv, NEW a \in Artefacts, LoseFile(a)
  PROVE  SInv'
<1> USE DEF SInv, LoseFile, FileDropped, Deleted, database, bounds
<1>2. StorageTypes'
  BY DEF StorageTypes, RowType, WriterType, PurgerType, LotStatus
<1>3. RowsHaveLots'
  BY DEF RowsHaveLots, StorageTypes, RowType
<1>4. WritersOwnTheirFile'
  BY DEF WritersOwnTheirFile, StorageTypes, RowType, WriterType
<1>5. PurgesAreOfDeletedLots'
  BY DEF PurgesAreOfDeletedLots, StorageTypes, PurgerType, WriterType, FilesOf
<1>6. DownIsQuiet'
  BY DEF DownIsQuiet, StorageTypes, WriterType
<1>7. ExposedArtefactHasItsFile'
  BY DEF ExposedArtefactHasItsFile, StorageTypes, RowType
<1>8. PurgedLotKeepsNothing'
  BY DEF PurgedLotKeepsNothing, StorageTypes, RowType, WriterType, FilesOf
<1> QED BY <1>2, <1>3, <1>4, <1>5, <1>6, <1>7, <1>8

\* A deleted lot exposes nothing.
LEMMA DeleteKeeps ==
  ASSUME SInv, NEW p \in Purgers, NEW l \in Lots, Delete(p, l)
  PROVE  SInv'
<1> USE DEF SInv, Delete, Marks, Traced, Deleted, database, bounds
<1>2. StorageTypes'
  BY DEF StorageTypes, PurgerType, LotStatus
<1>3. RowsHaveLots'
  BY DEF RowsHaveLots, StorageTypes, RowType
<1>4. WritersOwnTheirFile'
  BY DEF WritersOwnTheirFile, StorageTypes, RowType, WriterType
<1>5. PurgesAreOfDeletedLots'
  BY DEF PurgesAreOfDeletedLots, StorageTypes, PurgerType, WriterType, FilesOf
<1>6. DownIsQuiet'
  BY DEF DownIsQuiet, StorageTypes, WriterType
<1>7. ExposedArtefactHasItsFile'
  BY DEF ExposedArtefactHasItsFile, StorageTypes, RowType
<1>8. PurgedLotKeepsNothing'
  BY DEF PurgedLotKeepsNothing, StorageTypes, RowType, WriterType, FilesOf
<1> QED BY <1>2, <1>3, <1>4, <1>5, <1>6, <1>7, <1>8

\* A purge starts on a deleted lot.
LEMMA StartPurgeKeeps ==
  ASSUME SInv, NEW p \in Purgers, NEW l \in Lots, StartPurge(p, l)
  PROVE  SInv'
<1> USE DEF SInv, StartPurge, Purgeable, Marks, Traced, Deleted, database, bounds
<1>2. StorageTypes'
  BY DEF StorageTypes, RowType, WriterType, PurgerType, LotStatus
<1>3. RowsHaveLots'
  BY DEF RowsHaveLots, StorageTypes, RowType
<1>4. WritersOwnTheirFile'
  BY DEF WritersOwnTheirFile, StorageTypes, RowType, WriterType
<1>5. PurgesAreOfDeletedLots'
  BY DEF PurgesAreOfDeletedLots, StorageTypes, PurgerType, WriterType, FilesOf
<1>6. DownIsQuiet'
  BY DEF DownIsQuiet, StorageTypes, WriterType
<1>7. ExposedArtefactHasItsFile'
  BY DEF ExposedArtefactHasItsFile, StorageTypes, RowType
<1>8. PurgedLotKeepsNothing'
  BY DEF PurgedLotKeepsNothing, StorageTypes, RowType, WriterType, FilesOf
<1> QED BY <1>2, <1>3, <1>4, <1>5, <1>6, <1>7, <1>8

\* The removed file belongs to a deleted lot.
LEMMA RemoveFileKeeps ==
  ASSUME SInv, NEW p \in Purgers, NEW a \in Artefacts, RemoveFile(p, a)
  PROVE  SInv'
<1> USE DEF SInv, RemoveFile, FileDropped, FilesOf, Deleted, database, bounds
<1>a. purgers[p].lot \in Lots /\ Deleted(purgers[p].lot) /\ files[a] = purgers[p].lot
  BY DEF PurgesAreOfDeletedLots
<1>2. StorageTypes'
  BY DEF StorageTypes, RowType, WriterType, PurgerType, LotStatus
<1>3. RowsHaveLots'
  BY DEF RowsHaveLots, StorageTypes, RowType
<1>4. WritersOwnTheirFile'
  BY <1>a DEF WritersOwnTheirFile, StorageTypes, WriterType
<1>5. PurgesAreOfDeletedLots'
  BY DEF PurgesAreOfDeletedLots, StorageTypes, PurgerType, WriterType, FilesOf
<1>6. DownIsQuiet'
  BY DEF DownIsQuiet, StorageTypes, WriterType
<1>7. ExposedArtefactHasItsFile'
  BY <1>a DEF ExposedArtefactHasItsFile, StorageTypes
<1>8. PurgedLotKeepsNothing'
  BY DEF PurgedLotKeepsNothing, StorageTypes, RowType, WriterType, FilesOf
<1> QED BY <1>2, <1>3, <1>4, <1>5, <1>6, <1>7, <1>8

\* Nothing is left when the purge has removed everything.
LEMMA RemovedKeeps ==
  ASSUME SInv, NEW p \in Purgers, Removed(p)
  PROVE  SInv'
<1> USE DEF SInv, Removed, FilesOf, Deleted, database, bounds
<1>2. StorageTypes'
  BY DEF StorageTypes, RowType, WriterType, PurgerType, LotStatus
<1>3. RowsHaveLots'
  BY DEF RowsHaveLots, StorageTypes, RowType
<1>4. WritersOwnTheirFile'
  BY DEF WritersOwnTheirFile, StorageTypes, RowType, WriterType
<1>5. PurgesAreOfDeletedLots'
  BY DEF PurgesAreOfDeletedLots, StorageTypes, PurgerType, WriterType, FilesOf
<1>6. DownIsQuiet'
  BY DEF DownIsQuiet, StorageTypes, WriterType
<1>7. ExposedArtefactHasItsFile'
  BY DEF ExposedArtefactHasItsFile, StorageTypes, RowType
<1>8. PurgedLotKeepsNothing'
  BY DEF PurgedLotKeepsNothing, StorageTypes, RowType, WriterType, FilesOf
<1> QED BY <1>2, <1>3, <1>4, <1>5, <1>6, <1>7, <1>8

\* The rows go, the files are gone, but those of writers.
LEMMA FinishPurgeKeeps ==
  ASSUME SInv, NEW p \in Purgers, FinishPurge(p)
  PROVE  SInv'
<1> USE DEF SInv, FinishPurge, RowsDeleted, NoRow, RestPurger, Deleted, database, bounds
<1>a. /\ purgers[p].lot \in Lots
      /\ \A a \in Artefacts : files[a] = purgers[p].lot => \E w \in Writers : writers[w].art = a
  BY DEF PurgesAreOfDeletedLots, FilesOf
<1>b. \A l \in Lots : lots'[l] = "purge" => l = purgers[p].lot \/ lots[l] = "purge"
  BY DEF StorageTypes
<1>c. \A a \in Artefacts : rows'[a].lot # purgers[p].lot /\ rows'[a].lot \in {rows[a].lot, None}
  BY <1>a DEF StorageTypes
<1>2. StorageTypes'
  BY DEF StorageTypes, RowType, WriterType, PurgerType, LotStatus
<1>3. RowsHaveLots'
  BY DEF RowsHaveLots, StorageTypes, RowType
<1>4. WritersOwnTheirFile'
  BY DEF WritersOwnTheirFile, StorageTypes, RowType, WriterType
<1>5. PurgesAreOfDeletedLots'
  BY DEF PurgesAreOfDeletedLots, StorageTypes, PurgerType, WriterType, FilesOf
<1>6. DownIsQuiet'
  BY DEF DownIsQuiet, StorageTypes, WriterType
<1>7. ExposedArtefactHasItsFile'
  BY DEF ExposedArtefactHasItsFile, StorageTypes, RowType
<1>8. PurgedLotKeepsNothing'
  BY <1>a, <1>b, <1>c DEF PurgedLotKeepsNothing, FilesOf
<1> QED BY <1>2, <1>3, <1>4, <1>5, <1>6, <1>7, <1>8

\* An interrupted purge leaves the lot deleted.
LEMMA PurgeFailsKeeps ==
  ASSUME SInv, NEW p \in Purgers, PurgeFails(p)
  PROVE  SInv'
<1> USE DEF SInv, PurgeFails, RestPurger, Deleted, database, bounds
<1>2. StorageTypes'
  BY DEF StorageTypes, RowType, WriterType, PurgerType, LotStatus
<1>3. RowsHaveLots'
  BY DEF RowsHaveLots, StorageTypes, RowType
<1>4. WritersOwnTheirFile'
  BY DEF WritersOwnTheirFile, StorageTypes, RowType, WriterType
<1>5. PurgesAreOfDeletedLots'
  BY DEF PurgesAreOfDeletedLots, StorageTypes, PurgerType, WriterType, FilesOf
<1>6. DownIsQuiet'
  BY DEF DownIsQuiet, StorageTypes, WriterType
<1>7. ExposedArtefactHasItsFile'
  BY DEF ExposedArtefactHasItsFile, StorageTypes, RowType
<1>8. PurgedLotKeepsNothing'
  BY DEF PurgedLotKeepsNothing, StorageTypes, RowType, WriterType, FilesOf
<1> QED BY <1>2, <1>3, <1>4, <1>5, <1>6, <1>7, <1>8

\* Every writer dies with the application.
LEMMA CrashKeeps ==
  ASSUME SInv, Crash, InProcess
  PROVE  SInv'
<1> USE DEF SInv, Crash, RestPurger, InProcess, Deleted, database, bounds
<1>2. StorageTypes'
  BY ZenonT(60) DEF StorageTypes, RowType, WriterType, PurgerType, LotStatus
<1>3. RowsHaveLots'
  BY DEF RowsHaveLots, StorageTypes, RowType
<1>4. WritersOwnTheirFile'
  BY DEF WritersOwnTheirFile, StorageTypes, RowType, WriterType
<1>5. PurgesAreOfDeletedLots'
  BY DEF PurgesAreOfDeletedLots, StorageTypes, PurgerType, WriterType, FilesOf
<1>6. DownIsQuiet'
  BY DEF DownIsQuiet, StorageTypes, WriterType
<1>7. ExposedArtefactHasItsFile'
  BY DEF ExposedArtefactHasItsFile, StorageTypes, RowType
<1>8. PurgedLotKeepsNothing'
  BY DEF PurgedLotKeepsNothing, StorageTypes, RowType, WriterType, FilesOf
<1> QED BY <1>2, <1>3, <1>4, <1>5, <1>6, <1>7, <1>8

\* No file in the making is alive when orphans are taken away.
LEMMA StartupKeeps ==
  ASSUME SInv, Startup
  PROVE  SInv'
<1> USE DEF SInv, Startup, Missing, MayRecordProblem, Orphans, Open, Deleted, database, bounds
<1>a. \A w \in Writers : writers[w].pc \in {"idle", "dead"}
  BY DEF DownIsQuiet
<1>b. \A a \in Artefacts :
        /\ rows'[a].lot = rows[a].lot
        /\ rows'[a].status = "none" <=> rows[a].status = "none"
        /\ files'[a] \in {files[a], None}
  BY DEF StorageTypes, RowType
<1>c. \A l \in Lots : FilesOf(l)' \subseteq FilesOf(l)
  BY <1>b DEF FilesOf
<1>d. lots' = lots /\ writers' = writers
  BY DEF Startup
<1>2. StorageTypes'
  BY DEF StorageTypes, RowType, WriterType, PurgerType, LotStatus
<1>3. RowsHaveLots'
  BY DEF RowsHaveLots, StorageTypes, RowType
<1>4. WritersOwnTheirFile'
  BY <1>a, <1>b DEF WritersOwnTheirFile, StorageTypes, WriterType
<1>5. PurgesAreOfDeletedLots'
  BY DEF PurgesAreOfDeletedLots, StorageTypes, PurgerType, WriterType, FilesOf
<1>6. DownIsQuiet'
  BY DEF DownIsQuiet, StorageTypes, WriterType
<1>7. ExposedArtefactHasItsFile'
  BY DEF ExposedArtefactHasItsFile, StorageTypes, RowType
<1>8. PurgedLotKeepsNothing'
  <2>1. ASSUME NEW l \in Lots, lots'[l] = "purge"
        PROVE  /\ \A a \in Artefacts : rows'[a].lot # l
               /\ \A a \in FilesOf(l)' : \E w \in Writers : writers'[w].art = a
    <3>1. /\ \A a \in Artefacts : rows[a].lot # l
          /\ \A a \in FilesOf(l) : \E w \in Writers : writers[w].art = a
      BY <2>1, <1>d DEF PurgedLotKeepsNothing
    <3>2. \A a \in Artefacts : rows'[a].lot # l
      BY <3>1, <1>b
    <3>3. \A a \in FilesOf(l)' : \E w \in Writers : writers'[w].art = a
      BY ONLY <2>1, <3>1, <1>c, <1>d
    <3> QED BY <3>2, <3>3
  <2> QED BY ONLY <2>1 DEF PurgedLotKeepsNothing, FilesOf
<1> QED BY <1>2, <1>3, <1>4, <1>5, <1>6, <1>7, <1>8

\* Every step keeps the invariant: one case per action.
LEMMA SNext ==
  ASSUME SInv, InProcess, [Next]_vars
  PROVE  SInv'
<1>1. CASE UNCHANGED vars
  <2> USE <1>1 DEF SInv, vars
  <2>1. StorageTypes' /\ RowsHaveLots' /\ DownIsQuiet'
    BY DEF StorageTypes, RowsHaveLots, DownIsQuiet
  <2>2. WritersOwnTheirFile' /\ ExposedArtefactHasItsFile'
    BY DEF WritersOwnTheirFile, ExposedArtefactHasItsFile, Deleted
  <2>3. PurgesAreOfDeletedLots' /\ PurgedLotKeepsNothing'
    BY DEF PurgesAreOfDeletedLots, PurgedLotKeepsNothing, FilesOf, Deleted
  <2> QED BY <2>1, <2>2, <2>3
<1>2. ASSUME NEW l \in Lots, NEW a \in Artefacts, PutThenCommit(l, a) \/ PutThenRollback(l, a)
      PROVE  SInv'
  BY <1>2, PutThenCommitKeeps, PutThenRollbackKeeps
<1>3. ASSUME NEW w \in Writers, NEW l \in Lots, Begin(w, l, "none") \/ Begin(w, l, "held")
      PROVE  SInv'
  BY <1>3, BeginKeeps
<1>4. ASSUME NEW w \in Writers, NEW a \in Artefacts, PrepareFile(w, a)
      PROVE  SInv'
  BY <1>4, PrepareFileKeeps
<1>5. ASSUME NEW w \in Writers, Register(w) \/ Abandon(w) \/ CancelLot(w) \/ Lapse(w)
      PROVE  SInv'
  BY <1>5, RegisterKeeps, AbandonKeeps, CancelLotKeeps, LapseKeeps
<1>6. ASSUME NEW a \in Artefacts, Retry(a) \/ ReadMissing(a) \/ LoseFile(a)
      PROVE  SInv'
  BY <1>6, RetryKeeps, ReadMissingKeeps, LoseFileKeeps
<1>7. ASSUME NEW p \in Purgers, NEW l \in Lots, Delete(p, l) \/ StartPurge(p, l)
      PROVE  SInv'
  BY <1>7, DeleteKeeps, StartPurgeKeeps
<1>8. ASSUME NEW p \in Purgers, NEW a \in Artefacts, RemoveFile(p, a)
      PROVE  SInv'
  BY <1>8, RemoveFileKeeps
<1>9. ASSUME NEW p \in Purgers, Removed(p) \/ FinishPurge(p) \/ PurgeFails(p)
      PROVE  SInv'
  BY <1>9, RemovedKeeps, FinishPurgeKeeps, PurgeFailsKeeps
<1>10. CASE Crash \/ Startup
  BY <1>10, CrashKeeps, StartupKeeps
<1> QED
  BY <1>1, <1>2, <1>3, <1>4, <1>5, <1>6, <1>7, <1>8, <1>9, <1>10 DEF Next

-----------------------------------------------------------------------------
\* The inductive invariant of the storage holds in every reachable state.
THEOREM StorageInvariance ==
  ASSUME InProcess
  PROVE  Spec => []SInv
<1>1. Init => SInv
  BY SInit
<1>2. SInv /\ [Next]_vars => SInv'
  BY SNext
<1> QED BY <1>1, <1>2, PTL DEF Spec

\* A committed artefact of a lot that exposes its downloads has its file, for
\* any number of uploads, jobs, purges, crashes and restarts.
THEOREM ExposedArtefactsHaveFiles ==
  ASSUME InProcess
  PROVE  Spec => []ExposedArtefactHasItsFile
<1>1. SInv => ExposedArtefactHasItsFile
  BY DEF SInv
<1> QED BY <1>1, StorageInvariance, PTL

\* Nothing is left of a purged lot but files in the making, whatever purges
\* and uploads run beside each other.
THEOREM PurgesLeaveNothing ==
  ASSUME InProcess
  PROVE  Spec => []PurgedLotKeepsNothing
<1>1. SInv => PurgedLotKeepsNothing
  BY DEF SInv
<1> QED BY <1>1, StorageInvariance, PTL

-----------------------------------------------------------------------------
(***************************************************************************)
(* The storage keeps to the life of a lot (LotLife).                       *)
(***************************************************************************)

\* A purge under way is one of a lot on which no lease is left, and a writer at
\* rest holds none.
PurgesWaitForLeases ==
  \A p \in Purgers : purgers[p].pc # "idle" => Leased(purgers[p].lot) = {}
IdleIsAtRest == \A w \in Writers : writers[w].pc = "idle" => writers[w].lease = "none"
LeaseInv == SInv /\ PurgesWaitForLeases /\ IdleIsAtRest

\* The ways in which the state of the lots may move.
LeasesShrink == \A l \in Lots : Leased(l)' \subseteq Leased(l)
SameLots == lots' = lots
ArtefactsShrink == \A l \in Lots : Committed(l)' \subseteq Committed(l)
ArtefactsStay == \A l \in Lots : Committed(l)' = Committed(l)

LEMMA LotIsLost ==
  ASSUME SameLots, LeasesShrink, ArtefactsShrink
  PROVE  Life!LifeNext
<1>1. LotStates' = LotStates
  BY DEF SameLots, LotStates
<1>2. Life!Fewer(LeasedLots', LeasedLots)
  BY DEF LeasesShrink, LeasedLots, Life!Fewer
<1>3. Life!Fewer(ExposedLots', ExposedLots)
  BY DEF ArtefactsShrink, ExposedLots, Life!Fewer
<1> QED BY <1>1, <1>2, <1>3, Zenon DEF Life!Lose, Life!LifeNext

LEMMA LotIsTaken ==
  ASSUME NEW l \in Lots, Open(l), SameLots, ArtefactsStay, Leased(l)' # {},
         \A m \in Lots : m # l => Leased(m)' = Leased(m)
  PROVE  Life!LifeNext
<1>1. LotStates' = LotStates /\ LotStates[l] = "open"
  BY DEF SameLots, LotStates, LotState, Open
<1>2. LeasedLots' = [LeasedLots EXCEPT ![l] = TRUE]
  BY DEF LeasedLots
<1>3. ExposedLots' = ExposedLots
  BY DEF ArtefactsStay, ExposedLots
<1>4. Life!Take(l)
  BY <1>1, <1>2, <1>3, Zenon DEF Life!Take
<1> QED BY <1>4, Zenon DEF Life!LifeNext

LEMMA LotIsExposed ==
  ASSUME NEW l \in Lots, lots[l] \in {"ouvert", "annule"}, SameLots, LeasesShrink,
         Committed(l)' # {}, \A m \in Lots : m # l => Committed(m)' = Committed(m)
  PROVE  Life!LifeNext
<1>1. LotStates' = LotStates /\ LotStates[l] \in {"open", "canceled"}
  BY DEF SameLots, LotStates, LotState
<1>2. Life!Fewer(LeasedLots', LeasedLots)
  BY DEF LeasesShrink, LeasedLots, Life!Fewer
<1>3. ExposedLots' = [ExposedLots EXCEPT ![l] = TRUE]
  BY DEF ExposedLots
<1>4. Life!Expose(l)
  BY <1>1, <1>2, <1>3, Zenon DEF Life!Expose
<1> QED BY <1>4, Zenon DEF Life!LifeNext

LEMMA LotIsCanceled ==
  ASSUME StorageTypes, NEW l \in Lots, lots[l] \in {"ouvert", "annule"},
         lots' = [lots EXCEPT ![l] = "annule"], LeasesShrink, ArtefactsStay
  PROVE  Life!LifeNext
<1>1. LotStates' = [LotStates EXCEPT ![l] = "canceled"] /\ LotStates[l] \in {"open", "canceled"}
  BY DEF StorageTypes, LotStatus, LotStates, LotState
<1>2. Life!Fewer(LeasedLots', LeasedLots)
  BY DEF LeasesShrink, LeasedLots, Life!Fewer
<1>3. ExposedLots' = ExposedLots
  BY DEF ArtefactsStay, ExposedLots
<1>4. Life!Cancel(l)
  BY <1>1, <1>2, <1>3, Zenon DEF Life!Cancel
<1> QED BY <1>4, Zenon DEF Life!LifeNext

LEMMA LotIsDeleted ==
  ASSUME StorageTypes, NEW l \in Lots, lots[l] # "purge",
         lots' = [lots EXCEPT ![l] = "supprime"], ArtefactsStay,
         \A m \in Lots : Leased(m)' = Leased(m)
  PROVE  Life!LifeNext
<1>1. LotStates' = [LotStates EXCEPT ![l] = "deleted"] /\ LotStates[l] # "purged"
  BY DEF StorageTypes, LotStatus, LotStates, LotState
<1>2. LeasedLots' = LeasedLots
  BY DEF LeasedLots
<1>3. ExposedLots' = ExposedLots
  BY DEF ArtefactsStay, ExposedLots
<1>4. Life!Delete(l)
  BY <1>1, <1>2, <1>3, Zenon DEF Life!Delete
<1> QED BY <1>4, Zenon DEF Life!LifeNext

LEMMA LotIsPurged ==
  ASSUME StorageTypes, NEW l \in Lots, lots[l] # "purge", Leased(l) = {},
         lots' = [lots EXCEPT ![l] = "purge"], \A m \in Lots : Leased(m)' = Leased(m),
         Committed(l)' = {}, \A m \in Lots : m # l => Committed(m)' = Committed(m)
  PROVE  Life!LifeNext
<1>1. LotStates' = [LotStates EXCEPT ![l] = "purged"] /\ LotStates[l] # "purged"
  BY DEF StorageTypes, LotStatus, LotStates, LotState
<1>2. LeasedLots' = LeasedLots /\ ~LeasedLots[l]
  BY DEF LeasedLots
<1>3. ExposedLots' = [ExposedLots EXCEPT ![l] = FALSE]
  BY DEF ExposedLots
<1>4. Life!Purge(l)
  BY <1>1, <1>2, <1>3, Zenon DEF Life!Purge
<1> QED BY <1>4, Zenon DEF Life!LifeNext

\* What moves neither the lots, nor a lease, nor a row.
LEMMA NothingMoves ==
  ASSUME lots' = lots, rows' = rows,
         \A w \in Writers : writers'[w].lot = writers[w].lot /\ writers'[w].lease = writers[w].lease
  PROVE  Life!LifeNext
<1>1. LeasesShrink
  BY DEF LeasesShrink, Leased
<1>2. ArtefactsShrink
  BY DEF ArtefactsShrink, Committed
<1> QED BY <1>1, <1>2, LotIsLost DEF SameLots

\* A writer that goes back to rest, or dies, leaves the leases of the others.
LEMMA LeasesOfOthersStay ==
  ASSUME \A w \in Writers : writers'[w] = writers[w] \/ writers'[w].lease # "held"
  PROVE  LeasesShrink
BY DEF LeasesShrink, Leased

\* A commit in lot l leaves the artefacts of the others.
LEMMA CommitMoves ==
  ASSUME StorageTypes, NEW l \in Lots, NEW a \in Artefacts, rows[a].status = "none",
         NEW old \in SUBSET Committed(l), rows' = Replaced(a, l, old)
  PROVE  Committed(l)' # {} /\ \A m \in Lots : m # l => Committed(m)' = Committed(m)
<1>1. rows'[a].status = "committed" /\ rows'[a].lot = l
  BY DEF Replaced, CommittedRow
<1>2. ASSUME NEW m \in Lots, m # l, NEW b \in Artefacts
      PROVE  b \in Committed(m)' <=> b \in Committed(m)
  <2>1. CASE b = a
    BY <1>1, <1>2, <2>1 DEF Committed
  <2>2. CASE b # a
    <3>1. b \in old => rows[b].lot = l /\ rows'[b].lot = l
      BY <2>2 DEF Replaced, Committed, StorageTypes, RowType
    <3>2. b \notin old => rows'[b] = rows[b]
      BY <2>2 DEF Replaced
    <3> QED BY <1>2, <3>1, <3>2 DEF Committed
  <2> QED BY <2>1, <2>2
<1> QED BY <1>1, <1>2 DEF Committed

LEMMA PutsLive ==
  ASSUME SInv, NEW l \in Lots, NEW a \in Artefacts, PutThenCommit(l, a) \/ PutThenRollback(l, a)
  PROVE  Life!LifeNext
<1>1. CASE PutThenCommit(l, a)
  <2>1. PICK old \in SUBSET Committed(l) : rows' = Replaced(a, l, old)
    BY <1>1 DEF PutThenCommit
  <2>2. rows[a].status = "none"
    BY <1>1 DEF PutThenCommit, Free, NoRow
  <2>3. lots[l] \in {"ouvert", "annule"} /\ SameLots /\ LeasesShrink
    BY <1>1 DEF PutThenCommit, Deleted, SInv, StorageTypes, LotStatus, SameLots, LeasesShrink, Leased
  <2> QED BY <2>1, <2>2, <2>3, CommitMoves, LotIsExposed DEF SInv
<1>2. CASE PutThenRollback(l, a)
  BY <1>2, NothingMoves DEF PutThenRollback, database
<1> QED BY <1>1, <1>2

LEMMA BeginLives ==
  ASSUME LeaseInv, NEW w \in Writers, NEW l \in Lots, Begin(w, l, "none") \/ Begin(w, l, "held")
  PROVE  Life!LifeNext
<1>1. SameLots /\ Open(l) /\ rows' = rows /\ writers[w].pc = "idle"
  BY DEF Begin, SameLots, database
<1>2. ArtefactsStay /\ ArtefactsShrink
  BY <1>1 DEF ArtefactsStay, ArtefactsShrink, Committed
<1>3. CASE Begin(w, l, "none")
  <2>1. \A v \in Writers : writers'[v] = writers[v] \/ writers'[v].lease # "held"
    BY <1>3 DEF Begin, LeaseInv, SInv, StorageTypes
  <2> QED BY <1>1, <1>2, <2>1, LeasesOfOthersStay, LotIsLost
<1>4. CASE Begin(w, l, "held")
  <2>1. /\ writers'[w].lot = l /\ writers'[w].lease = "held"
        /\ \A v \in Writers : v # w => writers'[v] = writers[v]
    BY <1>4 DEF Begin, LeaseInv, SInv, StorageTypes, WriterType
  <2>2. Leased(l)' # {}
    BY <2>1 DEF Leased
  <2>3. writers[w].lease # "held"
    BY <1>1 DEF LeaseInv, IdleIsAtRest
  <2>4. \A m \in Lots : m # l => Leased(m)' = Leased(m)
    BY <2>1, <2>3 DEF Leased
  <2> QED BY <1>1, <1>2, <2>2, <2>4, LotIsTaken
<1> QED BY <1>3, <1>4

LEMMA WritersLive ==
  ASSUME LeaseInv, NEW w \in Writers, Register(w) \/ Abandon(w) \/ CancelLot(w) \/ Lapse(w)
  PROVE  Life!LifeNext
<1> USE DEF LeaseInv, SInv
<1>1. LeasesShrink
  <2>1. \A v \in Writers : writers'[v] = writers[v] \/ writers'[v].lease # "held"
    BY DEF Register, Abandon, CancelLot, Lapse, RestWriter, StorageTypes, WriterType
  <2> QED BY <2>1, LeasesOfOthersStay
<1>2. CASE Register(w)
  <2>1. PICK l \in Lots, a \in Artefacts :
          l = writers[w].lot /\ a = writers[w].art /\ rows[a].status = "none"
    BY <1>2 DEF Register, WritersOwnTheirFile, StorageTypes
  <2>2. lots[l] \in {"ouvert", "annule"} /\ SameLots
    <3>1. Open(l) \/ ~Deleted(l)
      BY <1>2, <2>1 DEF Register, MayRegister
    <3>2. lots' = lots
      BY <1>2 DEF Register
    <3> QED BY <2>1, <3>1, <3>2 DEF Open, Deleted, StorageTypes, LotStatus, SameLots
  <2>3. PICK old \in SUBSET Committed(l) : rows' = Replaced(a, l, old)
    BY <1>2, <2>1 DEF Register
  <2>t. StorageTypes
    OBVIOUS
  <2> HIDE DEF LeaseInv, SInv
  <2>4. Committed(l)' # {} /\ \A m \in Lots : m # l => Committed(m)' = Committed(m)
    BY <2>t, <2>1, <2>3, CommitMoves
  <2> QED BY <1>1, <2>1, <2>2, <2>4, LotIsExposed
<1>3. CASE Abandon(w) \/ Lapse(w)
  <2>1. SameLots /\ rows' = rows
    BY <1>3 DEF Abandon, Lapse, SameLots, database
  <2>2. ArtefactsShrink
    BY <2>1 DEF ArtefactsShrink, Committed
  <2> QED BY <1>1, <2>1, <2>2, LotIsLost
<1>4. CASE CancelLot(w)
  <2>1. PICK l \in Lots : l = writers[w].lot
    BY <1>4 DEF CancelLot, WritersOwnTheirFile
  <2>2. lots[l] \in {"ouvert", "annule"} /\ lots' = [lots EXCEPT ![l] = "annule"]
    BY <1>4, <2>1 DEF CancelLot, Deleted, StorageTypes, LotStatus
  <2>3. ArtefactsStay
    BY <1>4 DEF CancelLot, ArtefactsStay, Committed
  <2>t. StorageTypes
    OBVIOUS
  <2> HIDE DEF LeaseInv, SInv
  <2> QED BY <2>t, <1>1, <2>1, <2>2, <2>3, LotIsCanceled
<1> QED BY <1>2, <1>3, <1>4

LEMMA RowsLive ==
  ASSUME SInv, NEW a \in Artefacts, Retry(a) \/ ReadMissing(a) \/ LoseFile(a)
  PROVE  Life!LifeNext
<1>1. SameLots /\ writers' = writers
  BY DEF Retry, ReadMissing, LoseFile, SameLots, database
<1>2. \A b \in Artefacts :
        /\ rows'[b].lot = rows[b].lot
        /\ rows'[b].status = "committed" => rows[b].status = "committed"
  BY DEF Retry, ReadMissing, LoseFile, database, SInv, StorageTypes, RowType
<1>3. LeasesShrink /\ ArtefactsShrink
  BY <1>1, <1>2 DEF LeasesShrink, Leased, ArtefactsShrink, Committed
<1> QED BY <1>1, <1>3, LotIsLost

LEMMA PurgesLive ==
  ASSUME LeaseInv, NEW p \in Purgers, NEW l \in Lots,
         \/ Delete(p, l) \/ StartPurge(p, l) \/ Removed(p) \/ FinishPurge(p) \/ PurgeFails(p)
         \/ \E a \in Artefacts : RemoveFile(p, a)
  PROVE  Life!LifeNext
<1> USE DEF LeaseInv, SInv
<1>1. writers' = writers
  BY DEF Delete, StartPurge, Removed, FinishPurge, PurgeFails, RemoveFile
<1>2. LeasesShrink /\ \A m \in Lots : Leased(m)' = Leased(m)
  BY <1>1 DEF LeasesShrink, Leased
<1>3. CASE Delete(p, l)
  <2>1. lots[l] # "purge" /\ lots' = [lots EXCEPT ![l] = "supprime"] /\ rows' = rows
    BY <1>3 DEF Delete
  <2>2. ArtefactsStay
    BY <2>1 DEF ArtefactsStay, Committed
  <2> QED BY <1>2, <2>1, <2>2, LotIsDeleted
<1>4. CASE \/ StartPurge(p, l) \/ Removed(p) \/ PurgeFails(p)
           \/ \E a \in Artefacts : RemoveFile(p, a)
  <2>1. lots' = lots /\ rows' = rows
    BY <1>4 DEF StartPurge, Removed, PurgeFails, RemoveFile, database
  <2> QED BY <1>1, <2>1, NothingMoves
<1>5. CASE FinishPurge(p)
  <2>1. PICK m \in Lots : m = purgers[p].lot /\ Deleted(m) /\ Leased(m) = {}
    BY <1>5 DEF FinishPurge, PurgesAreOfDeletedLots, PurgesWaitForLeases
  <2>2. lots' = [lots EXCEPT ![m] = "purge"] /\ rows' = RowsDeleted(m)
    BY <1>5, <2>1 DEF FinishPurge
  <2>t. StorageTypes
    OBVIOUS
  <2> HIDE DEF LeaseInv, SInv
  <2>3. /\ Committed(m)' = {}
        /\ \A k \in Lots : k # m => Committed(k)' = Committed(k)
    <3>1. \A a \in Artefacts : rows'[a] = IF rows[a].lot = m THEN NoRow ELSE rows[a]
      BY <2>2 DEF RowsDeleted
    <3>2. ASSUME NEW a \in Artefacts
          PROVE  rows'[a].status = "committed" <=> rows[a].status = "committed" /\ rows[a].lot # m
      BY <3>1 DEF NoRow
    <3>3. Committed(m)' = {}
      BY <3>1, <3>2 DEF Committed, NoRow
    <3>4. ASSUME NEW k \in Lots, k # m
          PROVE  Committed(k)' = Committed(k)
      <4>1. ASSUME NEW a \in Artefacts, rows[a].lot = k \/ rows'[a].lot = k
            PROVE  rows'[a] = rows[a]
        <5>1. CASE rows[a].lot = m
          BY <2>1, <3>1, <3>4, <4>1, <5>1 DEF NoRow
        <5>2. CASE rows[a].lot # m
          BY <3>1, <5>2
        <5> QED BY <5>1, <5>2
      <4> QED BY <4>1 DEF Committed
    <3> QED BY <3>3, <3>4
  <2>4. CASE lots[m] = "purge"
    <3>1. SameLots
      BY <2>t, <2>1, <2>2, <2>4 DEF SameLots, StorageTypes
    <3>2. ArtefactsShrink
      <4>1. ASSUME NEW k \in Lots
            PROVE  Committed(k)' \subseteq Committed(k)
        BY <2>3
      <4> QED BY <4>1 DEF ArtefactsShrink
    <3> QED BY <1>2, <3>1, <3>2, LotIsLost
  <2>5. CASE lots[m] # "purge"
    BY <2>t, <1>2, <2>1, <2>2, <2>3, <2>5, LotIsPurged
  <2> QED BY <2>4, <2>5
<1> QED BY <1>3, <1>4, <1>5

LEMMA RestartsLive ==
  ASSUME SInv, Crash \/ Startup
  PROVE  Life!LifeNext
<1>1. CASE Crash
  <2>1. \A w \in Writers : writers'[w].lot = writers[w].lot /\ writers'[w].lease = writers[w].lease
    BY <1>1 DEF Crash, SInv, StorageTypes, WriterType
  <2>2. lots' = lots /\ rows' = rows
    BY <1>1 DEF Crash, database
  <2> QED BY <2>1, <2>2, NothingMoves
<1>2. CASE Startup
  <2>1. SameLots /\ LeasesShrink
    BY <1>2 DEF Startup, SameLots, LeasesShrink, Leased
  <2>2. \A a \in Artefacts :
          /\ rows'[a].lot = rows[a].lot
          /\ rows'[a].status = "committed" => rows[a].status = "committed"
    BY <1>2 DEF Startup, SInv, StorageTypes, RowType
  <2>3. ArtefactsShrink
    BY <2>2 DEF ArtefactsShrink, Committed
  <2> QED BY <2>1, <2>3, LotIsLost
<1> QED BY <1>1, <1>2

\* On a lot that is not open no lease begins.
LEMMA LeasesEnd ==
  ASSUME SInv, [Next]_vars, NEW l \in Lots, ~Open(l)
  PROVE  Leased(l)' \subseteq Leased(l)
<1>1. CASE \E w \in Writers, m \in Lots : Begin(w, m, "none") \/ Begin(w, m, "held")
  <2>1. PICK w \in Writers, m \in Lots : Begin(w, m, "none") \/ Begin(w, m, "held")
    BY <1>1
  <2>2. m # l /\ \A v \in Writers : v # w => writers'[v] = writers[v]
    BY <2>1 DEF Begin, SInv, StorageTypes
  <2>3. writers'[w].lot = m
    BY <2>1 DEF Begin, SInv, StorageTypes
  <2> QED BY <2>2, <2>3 DEF Leased
<1>2. CASE ~\E w \in Writers, m \in Lots : Begin(w, m, "none") \/ Begin(w, m, "held")
  <2>1. \A v \in Writers :
          \/ writers'[v].lease # "held"
          \/ writers'[v].lot = writers[v].lot /\ writers'[v].lease = writers[v].lease
    <3>1. CASE \E w \in Writers : Register(w) \/ Abandon(w) \/ CancelLot(w) \/ Lapse(w)
      BY <3>1 DEF Register, Abandon, CancelLot, Lapse, RestWriter, SInv, StorageTypes, WriterType
    <3>2. CASE \E w \in Writers, a \in Artefacts : PrepareFile(w, a)
      BY <3>2 DEF PrepareFile, SInv, StorageTypes, WriterType
    <3>3. CASE Crash
      BY <3>3 DEF Crash, SInv, StorageTypes, WriterType
    <3>4. CASE writers' = writers
      BY <3>4
    <3> QED
      BY <1>2, <3>1, <3>2, <3>3, <3>4
         DEF Next, vars, PutThenCommit, PutThenRollback, Retry, ReadMissing, LoseFile, Delete,
             StartPurge, RemoveFile, Removed, FinishPurge, PurgeFails, Startup, bounds
  <2> QED BY <2>1 DEF Leased
<1> QED BY <1>1, <1>2

\* A purge that begins finds no lease, and none begins while it runs.
LEMMA PurgesGoOnWaiting ==
  ASSUME LeaseInv, [Next]_vars
  PROVE  PurgesWaitForLeases'
<1>1. SUFFICES ASSUME NEW p \in Purgers, purgers'[p].pc # "idle", NEW l, l = purgers'[p].lot
               PROVE  Leased(l)' = {}
  BY DEF PurgesWaitForLeases, Leased
<1>2. \/ purgers[p].pc # "idle" /\ l = purgers[p].lot
      \/ Leased(l) = {} /\ writers' = writers
  <2>1. CASE \E q \in Purgers, m \in Lots : Delete(q, m) \/ StartPurge(q, m)
    BY <1>1, <2>1 DEF Delete, StartPurge, Marks, LeaseInv, SInv, StorageTypes
  <2>2. CASE \E q \in Purgers : Removed(q) \/ FinishPurge(q) \/ PurgeFails(q)
    BY <1>1, <2>2 DEF Removed, FinishPurge, PurgeFails, RestPurger, LeaseInv, SInv, StorageTypes, PurgerType
  <2>3. CASE Crash
    BY <1>1, <2>3 DEF Crash, RestPurger
  <2>4. CASE purgers' = purgers
    BY <1>1, <2>4
  <2> QED
    BY <2>1, <2>2, <2>3, <2>4
       DEF Next, vars, PutThenCommit, PutThenRollback, Begin, PrepareFile, Register, Abandon,
           CancelLot, Lapse, Retry, ReadMissing, LoseFile, RemoveFile, Startup, bounds
<1>3. CASE purgers[p].pc # "idle" /\ l = purgers[p].lot
  <2>1. l \in Lots /\ Deleted(l) /\ Leased(l) = {}
    BY <1>3 DEF LeaseInv, SInv, PurgesAreOfDeletedLots, PurgesWaitForLeases
  <2>2. ~Open(l)
    BY <2>1 DEF Open, Deleted
  <2>3. Leased(l)' \subseteq Leased(l)
    BY <2>1, <2>2, LeasesEnd DEF LeaseInv
  <2> QED BY <2>1, <2>3
<1>4. CASE Leased(l) = {} /\ writers' = writers
  BY <1>4 DEF Leased
<1> QED BY <1>2, <1>3, <1>4

\* A writer that comes to rest has no lease.
LEMMA RestIsKept ==
  ASSUME LeaseInv, [Next]_vars
  PROVE  IdleIsAtRest'
<1>1. SUFFICES ASSUME NEW v \in Writers
               PROVE  writers'[v].pc = "idle" => writers'[v].lease = "none"
  BY DEF IdleIsAtRest
<1>2. writers[v].pc = "idle" => writers[v].lease = "none"
  BY DEF LeaseInv, IdleIsAtRest
<1> USE DEF LeaseInv, SInv, StorageTypes, WriterType
<1>3. CASE \E w \in Writers, l \in Lots : Begin(w, l, "none") \/ Begin(w, l, "held")
  BY <1>2, <1>3 DEF Begin
<1>4. CASE \E w \in Writers, a \in Artefacts : PrepareFile(w, a)
  BY <1>2, <1>4 DEF PrepareFile
<1>5. CASE \E w \in Writers : Register(w) \/ Abandon(w) \/ CancelLot(w) \/ Lapse(w)
  BY <1>2, <1>5 DEF Register, Abandon, CancelLot, Lapse, RestWriter
<1>6. CASE Crash
  BY <1>2, <1>6 DEF Crash
<1>7. CASE writers' = writers
  BY <1>2, <1>7
<1> HIDE DEF LeaseInv, SInv, StorageTypes, WriterType
<1> QED
  BY <1>3, <1>4, <1>5, <1>6, <1>7
     DEF Next, vars, PutThenCommit, PutThenRollback, Retry, ReadMissing, LoseFile, Delete,
         StartPurge, RemoveFile, Removed, FinishPurge, PurgeFails, Startup, bounds

LEMMA LeaseInvInit == Init => LeaseInv
<1> SUFFICES ASSUME Init PROVE LeaseInv
  OBVIOUS
<1>1. SInv
  BY SInit
<1>2. PurgesWaitForLeases /\ IdleIsAtRest
  BY DEF Init, RestPurger, RestWriter, PurgesWaitForLeases, IdleIsAtRest
<1> QED BY <1>1, <1>2 DEF LeaseInv

LEMMA LeaseInvNext ==
  ASSUME LeaseInv, InProcess, [Next]_vars
  PROVE  LeaseInv'
<1>1. SInv'
  BY SNext DEF LeaseInv
<1> QED BY <1>1, PurgesGoOnWaiting, RestIsKept DEF LeaseInv

\* The first state is that of lots that are open, without lease or artefact.
LEMMA LifeBegins == Init => Life!LifeInit
<1> SUFFICES ASSUME Init PROVE Life!LifeInit
  OBVIOUS
<1>1. LotStates = [l \in Lots |-> "open"]
  BY DEF Init, LotStates, LotState
<1>2. LeasedLots = [l \in Lots |-> FALSE]
  BY DEF Init, LeasedLots, Leased, RestWriter
<1>3. ExposedLots = [l \in Lots |-> FALSE]
  BY DEF Init, ExposedLots, Committed, NoRow
<1> QED BY <1>1, <1>2, <1>3 DEF Life!LifeInit

\* Every step is one of the life of a lot, or shows nothing of it.
LEMMA LifeGoesOn ==
  ASSUME LeaseInv, [Next]_vars
  PROVE  [Life!LifeNext]_(Life!lifeVars)
<1>1. CASE UNCHANGED vars
  <2>1. LotStates' = LotStates /\ LeasedLots' = LeasedLots /\ ExposedLots' = ExposedLots
    BY <1>1 DEF vars, LotStates, LeasedLots, Leased, ExposedLots, Committed
  <2> QED BY <2>1 DEF Life!lifeVars
<1>2. ASSUME NEW w \in Writers, NEW a \in Artefacts, PrepareFile(w, a)
      PROVE  Life!LifeNext
  <2>1. lots' = lots /\ rows' = rows
    BY <1>2 DEF PrepareFile, database
  <2>2. \A v \in Writers : writers'[v].lot = writers[v].lot /\ writers'[v].lease = writers[v].lease
    BY <1>2 DEF PrepareFile, LeaseInv, SInv, StorageTypes, WriterType
  <2> QED BY <2>1, <2>2, NothingMoves
<1>3. CASE Next
  <2>1. ASSUME NEW l \in Lots, NEW a \in Artefacts, PutThenCommit(l, a) \/ PutThenRollback(l, a)
        PROVE  Life!LifeNext
    BY <2>1, PutsLive DEF LeaseInv
  <2>2. ASSUME NEW w \in Writers, NEW l \in Lots, Begin(w, l, "none") \/ Begin(w, l, "held")
        PROVE  Life!LifeNext
    BY <2>2, BeginLives
  <2>3. ASSUME NEW w \in Writers, Register(w) \/ Abandon(w) \/ CancelLot(w) \/ Lapse(w)
        PROVE  Life!LifeNext
    BY <2>3, WritersLive
  <2>4. ASSUME NEW a \in Artefacts, Retry(a) \/ ReadMissing(a) \/ LoseFile(a)
        PROVE  Life!LifeNext
    BY <2>4, RowsLive DEF LeaseInv
  <2>5. ASSUME NEW p \in Purgers, NEW l \in Lots, Delete(p, l) \/ StartPurge(p, l)
        PROVE  Life!LifeNext
    BY <2>5, PurgesLive
  <2>6. ASSUME NEW p \in Purgers,
               \/ \E a \in Artefacts : RemoveFile(p, a)
               \/ Removed(p) \/ FinishPurge(p) \/ PurgeFails(p)
        PROVE  Life!LifeNext
    <3>1. PurgeFails(p) => Life!LifeNext
      BY NothingMoves DEF PurgeFails, database
    <3>2. Removed(p) \/ FinishPurge(p) \/ (\E a \in Artefacts : RemoveFile(p, a)) => \E l \in Lots : TRUE
      BY DEF Removed, FinishPurge, RemoveFile, LeaseInv, SInv, PurgesAreOfDeletedLots
    <3> QED BY <2>6, <3>1, <3>2, PurgesLive
  <2>7. CASE Crash \/ Startup
    BY <2>7, RestartsLive DEF LeaseInv
  <2> QED BY <1>2, <1>3, <2>1, <2>2, <2>3, <2>4, <2>5, <2>6, <2>7, Zenon DEF Next
<1> QED BY <1>1, <1>3

\* The storage implements the life of a lot: whatever uploads, jobs, purges,
\* crashes and restarts come between the two transactions of a purge, no work
\* begins on a lot that is closed, nothing is committed in a lot once it is
\* deleted, and no purge ends under a lease.
THEOREM StorageKeepsTheLifeOfLots ==
  ASSUME InProcess
  PROVE  Spec => KeepsTheLifeOfLots
<1>1. LeaseInv /\ [Next]_vars => LeaseInv'
  BY LeaseInvNext
<1>2. LeaseInv /\ [Next]_vars => [Life!LifeNext]_(Life!lifeVars)
  BY LifeGoesOn
<1> QED BY <1>1, <1>2, LeaseInvInit, LifeBegins, PTL DEF Spec, KeepsTheLifeOfLots, Life!LifeSpec
=============================================================================
