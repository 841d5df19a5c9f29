----------------------------- MODULE WorkflowProofs -----------------------------
(***************************************************************************)
(* The safety invariants of Workflow, for any number of incidents.         *)
(*                                                                         *)
(* Two facts carry the proofs.  A step reads only steps above it, so what  *)
(* a change invalidates holds every step that read what changed.  And a    *)
(* step that waits for the user, works on what it read, or is finished has *)
(* its sources finished, so whatever is not finished, the job in hand or   *)
(* the step about to be queued, has no reader to mislead.                  *)
(***************************************************************************)
EXTENDS Workflow, FiniteSetTheorems, TLAPS

-----------------------------------------------------------------------------
(* The graph.                                                               *)

\* The children of each step.
LEMMA Children ==
  /\ DAG["upload_excel"] = {"diagnostic_excel"}
  /\ DAG["diagnostic_excel"] = {"mapping"}
  /\ DAG["mapping"] = {"fusion"}
  /\ DAG["fusion"] = {"normalisation"}
  /\ DAG["normalisation"] = {"tri", "verification_csv", "matching_images"}
  /\ DAG["tri"] = {"previsualisation_csv"}
  /\ DAG["verification_csv"] = {"previsualisation_csv"}
  /\ DAG["previsualisation_csv"] = {"rapports", "package_final"}
  /\ DAG["upload_images"] = {"inspection_images"}
  /\ DAG["inspection_images"] = {"matching_images"}
  /\ DAG["matching_images"] = {"previsualisation_csv", "rapports", "package_final"}
  /\ DAG["rapports"] = {"package_final"}
  /\ DAG["package_final"] = {"purge_retention"}
  /\ DAG["purge_retention"] = {}
BY DEF DAG, Steps, External

\* Every edge leads to a higher rank.
Rank ==
  [s \in Steps \cup External |->
    CASE s \in {"upload_excel", "upload_images"} -> 0
      [] s \in {"diagnostic_excel", "inspection_images"} -> 1
      [] s = "mapping" -> 2
      [] s = "fusion" -> 3
      [] s = "normalisation" -> 4
      [] s \in {"tri", "verification_csv", "matching_images"} -> 5
      [] s = "previsualisation_csv" -> 6
      [] s = "rapports" -> 7
      [] s = "package_final" -> 8
      [] OTHER -> 9]

LEMMA RankGrows ==
  \A s \in Steps \cup External :
    /\ Rank[s] \in 0..9
    /\ DAG[s] \subseteq Steps \cup External
    /\ \A r \in DAG[s] : Rank[s] < Rank[r]
<1>1. \A s \in Steps \cup External : Rank[s] \in 0..9
  BY DEF Rank, Steps, External
<1>2. ASSUME NEW s \in Steps \cup External
      PROVE  DAG[s] \subseteq Steps \cup External /\ \A r \in DAG[s] : Rank[s] < Rank[r]
  <2>1. CASE s \in {"upload_excel", "diagnostic_excel", "mapping", "fusion", "tri"}
    BY <2>1, Children DEF Rank, Steps, External
  <2>2. CASE s \in {"normalisation", "verification_csv", "previsualisation_csv"}
    BY <2>2, Children DEF Rank, Steps, External
  <2>3. CASE s \in {"upload_images", "inspection_images", "matching_images"}
    BY <2>3, Children DEF Rank, Steps, External
  <2>4. CASE s \in {"rapports", "package_final", "purge_retention"}
    BY <2>4, Children DEF Rank, Steps, External
  <2> QED BY <1>2, <2>1, <2>2, <2>3, <2>4 DEF Steps, External
<1> QED BY <1>1, <1>2

\* The descendants of a step: its children, those of its descendants, and
\* steps of a higher rank only.
LEMMA DownstreamType == \A s \in Steps : Downstream[s] \subseteq Steps
BY DEF Downstream, Visited, Steps, External

LEMMA DownstreamOfChild ==
  ASSUME NEW s \in Steps, NEW r \in DAG[s], r \in Steps
  PROVE  r \in Downstream[s] /\ Downstream[r] \subseteq Downstream[s]
<1>1. r \in Visited[s]
  BY DEF Visited
<1>2. Visited[r] \subseteq Visited[s]
  BY DEF Visited, Closed
<1> QED BY <1>1, <1>2 DEF Downstream, Steps, External

LEMMA DownstreamTransitive ==
  ASSUME NEW s \in Steps, NEW r \in Downstream[s]
  PROVE  r \in Steps /\ Downstream[r] \subseteq Downstream[s]
<1>1. r \in Steps /\ r \in Visited[s]
  BY DownstreamType DEF Downstream
<1>2. Visited[r] \subseteq Visited[s]
  BY <1>1 DEF Visited, Closed
<1> QED BY <1>1, <1>2 DEF Downstream

LEMMA DownstreamRank ==
  ASSUME NEW s \in Steps, NEW r \in Downstream[s]
  PROVE  Rank[s] < Rank[r]
<1> DEFINE S == {t \in Steps \cup External : Rank[s] < Rank[t]}
<1>1. S \in Closed
  <2>1. ASSUME NEW t \in S
        PROVE  DAG[t] \subseteq S
    BY RankGrows
  <2> QED BY <2>1 DEF Closed
<1>2. DAG[s] \subseteq S
  BY RankGrows
<1>3. r \in Visited[s]
  BY DEF Downstream
<1> QED BY <1>1, <1>2, <1>3 DEF Visited

-----------------------------------------------------------------------------
(* What the steps read.                                                     *)

\* A step reads steps above it.
LEMMA Descendants ==
  /\ Downstream["rapports"] = {"package_final"}
  /\ Downstream["package_final"] = {}
  /\ {"rapports", "package_final"} \subseteq Downstream["previsualisation_csv"]
  /\ \A s \in {"tri", "verification_csv", "matching_images"} :
       {"previsualisation_csv", "rapports", "package_final"} \subseteq Downstream[s]
  /\ \A s \in {"normalisation", "fusion", "mapping", "diagnostic_excel", "upload_excel"} :
       {"tri", "verification_csv", "matching_images", "previsualisation_csv",
        "rapports", "package_final"} \subseteq Downstream[s]
  /\ \A s \in {"inspection_images", "upload_images"} :
       {"matching_images", "previsualisation_csv", "rapports", "package_final"}
         \subseteq Downstream[s]
  /\ \A s \in {"fusion", "mapping", "diagnostic_excel", "upload_excel"} :
       "normalisation" \in Downstream[s]
  /\ \A s \in {"mapping", "diagnostic_excel", "upload_excel"} : "fusion" \in Downstream[s]
  /\ \A s \in {"diagnostic_excel", "upload_excel"} : "mapping" \in Downstream[s]
  /\ "diagnostic_excel" \in Downstream["upload_excel"]
  /\ "inspection_images" \in Downstream["upload_images"]
<1> USE DEF Steps
<1>1. /\ "package_final" \in Downstream["rapports"]
      /\ {"rapports", "package_final"} \subseteq Downstream["previsualisation_csv"]
  BY DownstreamOfChild, Children
<1>2. /\ Downstream["rapports"] \subseteq {"package_final"}
      /\ Downstream["package_final"] = {}
  <2>1. \A s \in Steps : \A r \in Downstream[s] : r \in Steps /\ Rank[s] < Rank[r]
    BY DownstreamRank, DownstreamType
  <2>2. /\ Rank["rapports"] = 7 /\ Rank["package_final"] = 8
        /\ \A r \in Steps : Rank[r] <= 8 /\ (Rank[r] = 8 => r = "package_final")
    BY DEF Rank
  <2>3. \A r \in Steps : Rank[r] \in 0..9
    BY RankGrows
  <2> QED BY <2>1, <2>2, <2>3
<1>3. \A s \in {"tri", "verification_csv", "matching_images"} :
        {"previsualisation_csv", "rapports", "package_final"} \subseteq Downstream[s]
  BY <1>1, DownstreamOfChild, Children
<1>4. \A s \in {"normalisation"} :
       {"tri", "verification_csv", "matching_images", "previsualisation_csv",
        "rapports", "package_final"} \subseteq Downstream[s]
  BY <1>3, DownstreamOfChild, Children
<1>5. /\ "normalisation" \in Downstream["fusion"]
      /\ Downstream["normalisation"] \subseteq Downstream["fusion"]
      /\ "fusion" \in Downstream["mapping"]
      /\ Downstream["fusion"] \subseteq Downstream["mapping"]
      /\ "mapping" \in Downstream["diagnostic_excel"]
      /\ Downstream["mapping"] \subseteq Downstream["diagnostic_excel"]
      /\ "diagnostic_excel" \in Downstream["upload_excel"]
      /\ Downstream["diagnostic_excel"] \subseteq Downstream["upload_excel"]
  BY DownstreamOfChild, Children
<1>6. /\ "matching_images" \in Downstream["inspection_images"]
      /\ Downstream["matching_images"] \subseteq Downstream["inspection_images"]
      /\ "inspection_images" \in Downstream["upload_images"]
      /\ Downstream["inspection_images"] \subseteq Downstream["upload_images"]
  BY DownstreamOfChild, Children
<1> HIDE DEF Steps
<1>7. \A s \in {"inspection_images", "upload_images"} :
       {"matching_images", "previsualisation_csv", "rapports", "package_final"}
         \subseteq Downstream[s]
  BY <1>3, <1>6
<1>8. \A s \in {"normalisation", "fusion", "mapping", "diagnostic_excel", "upload_excel"} :
       {"tri", "verification_csv", "matching_images", "previsualisation_csv",
        "rapports", "package_final"} \subseteq Downstream[s]
  BY <1>4, <1>5
<1>9. /\ \A s \in {"fusion", "mapping", "diagnostic_excel", "upload_excel"} :
           "normalisation" \in Downstream[s]
      /\ \A s \in {"mapping", "diagnostic_excel", "upload_excel"} : "fusion" \in Downstream[s]
      /\ \A s \in {"diagnostic_excel", "upload_excel"} : "mapping" \in Downstream[s]
  BY <1>5
<1> QED BY <1>1, <1>2, <1>3, <1>5, <1>6, <1>7, <1>8, <1>9

LEMMA ReadIsAbove ==
  \A s \in Steps : /\ Read[s] \subseteq Steps
                   /\ \A r \in Read[s] : s \in Downstream[r]
<1> SUFFICES ASSUME NEW s \in Steps
             PROVE  Read[s] \subseteq Steps /\ \A r \in Read[s] : s \in Downstream[r]
  OBVIOUS
<1>1. CASE s \in {"diagnostic_excel", "mapping", "fusion", "normalisation", "tri",
                 "verification_csv"}
  <2>1. CASE s \in {"diagnostic_excel", "mapping", "fusion"}
    BY <2>1, Descendants DEF Read, Steps
  <2>2. CASE s \in {"normalisation", "tri", "verification_csv"}
    BY <2>2, Descendants DEF Read, Steps
  <2> QED BY <1>1, <2>1, <2>2
<1>2. CASE s \in {"previsualisation_csv", "inspection_images", "matching_images"}
  BY <1>2, Descendants DEF Read, Steps
<1>3. CASE s \in {"rapports", "package_final"}
  BY <1>3, Descendants DEF Read, Steps, ExcelSteps, ImageSteps
<1>4. CASE s \in {"upload_excel", "upload_images"}
  BY <1>4 DEF Read, Steps
<1> QED BY <1>1, <1>2, <1>3, <1>4 DEF Steps

-----------------------------------------------------------------------------
(* The numbers of the artefacts.                                            *)

LEMMA StepsFinite == IsFiniteSet(Steps) /\ Cardinality(Steps) \in Nat
<1> DEFINE f == <<"upload_excel", "diagnostic_excel", "mapping", "fusion", "normalisation",
                  "tri", "verification_csv", "previsualisation_csv", "upload_images",
                  "inspection_images", "matching_images", "rapports", "package_final">>
<1>1. f \in [1 .. 13 -> Steps]
  BY DEF Steps
<1>2. \A s \in Steps : \E n \in 1 .. 13 : f[n] = s
  <2>1. /\ f[1] = "upload_excel" /\ f[2] = "diagnostic_excel" /\ f[3] = "mapping"
        /\ f[4] = "fusion" /\ f[5] = "normalisation" /\ f[6] = "tri"
        /\ f[7] = "verification_csv" /\ f[8] = "previsualisation_csv"
        /\ f[9] = "upload_images" /\ f[10] = "inspection_images"
        /\ f[11] = "matching_images" /\ f[12] = "rapports" /\ f[13] = "package_final"
    OBVIOUS
  <2> HIDE DEF f
  <2> QED BY <2>1 DEF Steps
<1> HIDE DEF f
<1>3. IsFiniteSet(Steps)
  BY <1>1, <1>2, FS_NatSurjection, ZenonT(60) DEF ExistsSurjection, Surjection
<1> QED BY <1>3, FS_CardinalityType

\* The rows never refer to every number.
LEMMA FreshIsFree ==
  ASSUME NEW E, NEW s \in Steps
  PROVE  /\ Fresh(E, s) \in Versions \ {0}
         /\ E[s].artefact # Fresh(E, s)
         /\ \A r \in Steps : Fresh(E, s) \notin {E[r].sources[s], E[r].lu[s]}
<1> DEFINE N == Cardinality(Steps)
           A == {E[r].sources[s] : r \in Steps}
           B == {E[r].lu[s] : r \in Steps}
           U == (A \cup B) \cup {E[s].artefact}
<1>1. N \in Nat /\ IsFiniteSet(Steps)
  BY StepsFinite
<1>2. IsFiniteSet(A) /\ Cardinality(A) <= N
  <2> DEFINE f == [r \in Steps |-> E[r].sources[s]]
  <2>1. f \in Surjection(Steps, A)
    BY DEF Surjection
  <2> QED BY <2>1, <1>1, FS_Surjection
<1>3. IsFiniteSet(B) /\ Cardinality(B) <= N
  <2> DEFINE f == [r \in Steps |-> E[r].lu[s]]
  <2>1. f \in Surjection(Steps, B)
    BY DEF Surjection
  <2> QED BY <2>1, <1>1, FS_Surjection
<1> HIDE DEF A, B, N
<1>4. IsFiniteSet(A \cup B) /\ Cardinality(A \cup B) <= N + N
  <2>1. /\ IsFiniteSet(A \cup B)
        /\ Cardinality(A \cup B) = Cardinality(A) + Cardinality(B) - Cardinality(A \cap B)
    BY <1>2, <1>3, FS_Union
  <2>2. /\ Cardinality(A) \in Nat /\ Cardinality(B) \in Nat
        /\ Cardinality(A \cap B) \in Nat
    BY <1>2, <1>3, FS_Intersection, FS_CardinalityType
  <2> QED BY <1>1, <1>2, <1>3, <2>1, <2>2
<1>5. IsFiniteSet(U) /\ Cardinality(U) \in Nat /\ Cardinality(U) <= N + N + 1
  <2>1. /\ IsFiniteSet(U)
        /\ Cardinality(U) = IF E[s].artefact \in A \cup B THEN Cardinality(A \cup B)
                            ELSE Cardinality(A \cup B) + 1
    BY <1>4, FS_AddElement
  <2>2. Cardinality(A \cup B) \in Nat
    BY <1>4, FS_CardinalityType
  <2> QED BY <1>1, <1>4, <2>1, <2>2
<1>6. \E v \in 1 .. (2 * N + 2) : v \notin U
  <2>1. /\ IsFiniteSet(1 .. (2 * N + 2))
        /\ Cardinality(1 .. (2 * N + 2)) = 2 * N + 2
    BY <1>1, FS_Interval
  <2>2. SUFFICES ASSUME 1 .. (2 * N + 2) \subseteq U PROVE FALSE
    OBVIOUS
  <2>3. Cardinality(1 .. (2 * N + 2)) <= Cardinality(U)
    BY <1>5, <2>2, FS_Subset
  <2> QED BY <1>1, <1>5, <2>1, <2>3
<1>7. \E v \in Versions \ {0} :
        E[s].artefact # v /\ \A r \in Steps : v \notin {E[r].sources[s], E[r].lu[s]}
  <2>1. PICK v \in 1 .. (2 * N + 2) : v \notin U
    BY <1>6
  <2>2. v \in Versions \ {0}
    BY <1>1, <2>1 DEF Versions, N
  <2>3. E[s].artefact # v /\ \A r \in Steps : v \notin {E[r].sources[s], E[r].lu[s]}
    BY <2>1 DEF A, B
  <2> QED BY <2>2, <2>3
<1> QED BY <1>7 DEF Fresh

-----------------------------------------------------------------------------
(* The inductive invariant.                                                 *)

TypeOK ==
  /\ etapes \in [Steps -> Row]
  /\ lot \in {"brouillon", "en_cours", "action_requise", "bloque", "echoue", "termine"}
  /\ tardif \in {"non", "assemble", "note"}
  /\ incidents \in Nat

\* The status of a step and the state of its job go together.
RowOK(s, row) ==
  /\ row \in Row
  /\ s \notin WorkerSteps => row.job = "aucun"
  /\ row.job \in Working => row.status = "en_cours"
  /\ row.job = "queued" => row.status \in {"pret", "en_cours"}
  /\ row.job = "orphelin" => s = "package_final" /\ row.status = "action_requise"
  /\ row.status = "termine" => row.job = "aucun" /\ row.artefact # 0
  /\ row.job = "ecrit" => row.artefact # 0

\* The steps that count on their sources: they wait for the user, were made
\* from them or are being made from them.
Settled(row) == row.status = "termine" \/ row.job = "ecrit"
Live(row) == Settled(row) \/ row.status = "action_requise" \/ row.job = "lu"

\* What was read of the sources is what they are now, the two gaps apart.
AsNow(E, read, s) ==
  \A r \in Steps :
    \/ read[r] = Snapshot(E, s)[r]
    \/ r = "mapping" /\ r \in Read[s] /\ ~Finished(E, "mapping")
    \/ s = "previsualisation_csv" /\ r = "matching_images"

Ready(E, s) == \A r \in Needed(E, s) \ {"mapping"} : Usable(E, r)

Grounded(E, s) ==
  /\ Live(E[s]) => Ready(E, s)
  /\ Settled(E[s]) => AsNow(E, E[s].sources, s)
  /\ E[s].job = "lu" => AsNow(E, E[s].lu, s)

Sound(E) ==
  /\ E \in [Steps -> Row]
  /\ \A s \in Steps : RowOK(s, E[s]) /\ Grounded(E, s)

\* ReadyStepsAreQueued, of any table.
Woken == {"pret", "en_cours", "termine", "bloque", "echoue"}
AutoWoken(E) ==
  /\ Finished(E, "normalisation") /\ Finished(E, "inspection_images")
       => E["matching_images"].status \in Woken
  /\ Finished(E, "previsualisation_csv")
       /\ (Finished(E, "upload_images") => Finished(E, "matching_images"))
       => E["rapports"].status \in Woken

\* From the moment its job has read its sources, a package has no blocker.
Held(row) == Settled(row) \/ row.job = "lu"
NoBlocker(E, late) ==
  Held(E["package_final"]) =>
    \A s \in Steps \ {"mapping"} :
      E[s].probleme =>
        \/ s = "package_final" /\ late = "note"
        \/ s \in ImageSteps /\ ~Finished(E, "upload_images")

IInv ==
  /\ TypeOK
  /\ Sound(etapes)
  /\ AutoWoken(etapes)
  /\ NoBlocker(etapes, tardif)
  /\ LotTellsItsSteps

-----------------------------------------------------------------------------
(* From a table E to a table F: what a step counts on carries over.         *)

SameArtefact(E, F, r) == F[r].status = E[r].status /\ F[r].artefact = E[r].artefact

Carried(E, F, s) ==
  /\ Needed(F, s) = Needed(E, s)
  /\ \A r \in Needed(E, s) :
       SameArtefact(E, F, r) \/ (r = "mapping" /\ ~Finished(F, "mapping"))

LEMMA NeededIsRead ==
  ASSUME NEW E, NEW s \in Steps
  PROVE  /\ Needed(E, s) \subseteq Read[s]
         /\ Read[s] \ ImageSteps \subseteq Needed(E, s)
         /\ s \notin {"rapports", "package_final"} => Needed(E, s) = Read[s]
         /\ Usable(E, "upload_images") => Needed(E, s) = Read[s]
BY DEF Needed

LEMMA CarryOver ==
  ASSUME NEW E, NEW F, NEW s \in Steps, Carried(E, F, s)
  PROVE  /\ Ready(E, s) => Ready(F, s)
         /\ \A read : AsNow(E, read, s) => AsNow(F, read, s)
<1>1. Ready(E, s) => Ready(F, s)
  BY DEF Ready, Carried, SameArtefact, Usable, Finished
<1>2. ASSUME NEW read, AsNow(E, read, s), NEW r \in Steps,
             ~(s = "previsualisation_csv" /\ r = "matching_images")
      PROVE  \/ read[r] = Snapshot(F, s)[r]
             \/ r = "mapping" /\ r \in Read[s] /\ ~Finished(F, "mapping")
  <2>1. CASE r \in Needed(E, s)
    <3>1. Snapshot(E, s)[r] = E[r].artefact /\ Snapshot(F, s)[r] = F[r].artefact
      BY <2>1 DEF Snapshot, Carried
    <3>2. r \in Read[s]
      BY <2>1, NeededIsRead
    <3> QED BY <1>2, <2>1, <3>1, <3>2 DEF AsNow, Carried, SameArtefact, Finished
  <2>2. CASE r \notin Needed(E, s)
    <3>1. Snapshot(E, s)[r] = 0 /\ Snapshot(F, s)[r] = 0
      BY <1>2, <2>2 DEF Snapshot, Carried
    <3>2. ~(r = "mapping" /\ r \in Read[s])
      BY <2>2, NeededIsRead DEF ImageSteps
    <3> QED BY <1>2, <3>1, <3>2 DEF AsNow
  <2> QED BY <2>1, <2>2
<1> QED BY <1>1, <1>2 DEF AsNow

\* What is not finished misleads no step that has its sources.
LEMMA CarryUnfinished ==
  ASSUME NEW E, NEW F, NEW s \in Steps, Ready(E, s),
         SameArtefact(E, F, "upload_images"),
         \A r \in Steps : \/ SameArtefact(E, F, r)
                          \/ r = "mapping" /\ ~Finished(F, "mapping")
                          \/ r # "mapping" /\ ~Finished(E, r)
                          \/ r = "package_final"
  PROVE  Carried(E, F, s)
<1>1. Needed(F, s) = Needed(E, s)
  BY DEF Needed, Usable, Finished, SameArtefact
<1>2. ASSUME NEW r \in Needed(E, s)
      PROVE  SameArtefact(E, F, r) \/ (r = "mapping" /\ ~Finished(F, "mapping"))
  <2>1. r \in Steps /\ r \in Read[s]
    BY NeededIsRead, ReadIsAbove
  <2>2. r # "package_final"
    BY <2>1, ReadIsAbove, Descendants DEF Steps
  <2>3. r # "mapping" => Finished(E, r)
    BY DEF Ready, Usable
  <2> QED BY <2>1, <2>2, <2>3
<1> QED BY <1>1, <1>2 DEF Carried

\* A change of x and of all below misleads no step beside it.
LEMMA CarryBeside ==
  ASSUME NEW E, NEW F, NEW x \in Steps, NEW s \in Steps \ Downstream[x],
         \A r \in Steps \ ({x} \cup Downstream[x]) : SameArtefact(E, F, r)
  PROVE  Carried(E, F, s)
<1>1. ASSUME NEW r \in Read[s]
      PROVE  r \in Steps /\ SameArtefact(E, F, r)
  BY ReadIsAbove, DownstreamTransitive
<1>2. Needed(F, s) = Needed(E, s)
  <2>1. CASE s \in {"rapports", "package_final"}
    <3>1. "upload_images" \in Read[s]
      BY <2>1 DEF Read, Steps, ImageSteps
    <3> QED BY <1>1, <3>1 DEF Needed, Usable, Finished, SameArtefact
  <2>2. CASE s \notin {"rapports", "package_final"}
    BY <2>2, NeededIsRead
  <2> QED BY <2>1, <2>2
<1> QED BY <1>1, <1>2, NeededIsRead DEF Carried

\* A table is sound when each of its live steps is grounded in E and carried.
LEMMA SoundStep ==
  ASSUME NEW E, NEW F, F \in [Steps -> Row],
         \A s \in Steps : RowOK(s, F[s]),
         \A s \in Steps :
           Live(F[s]) => /\ Carried(E, F, s)
                         /\ Ready(E, s)
                         /\ Settled(F[s]) => AsNow(E, F[s].sources, s)
                         /\ F[s].job = "lu" => AsNow(E, F[s].lu, s)
  PROVE  Sound(F)
<1>1. ASSUME NEW s \in Steps
      PROVE  Grounded(F, s)
  BY CarryOver DEF Grounded, Live, Settled
<1> QED BY <1>1 DEF Sound

-----------------------------------------------------------------------------
(* The rows.                                                                *)

LEMMA VersionsType ==
  /\ 0 \in Versions
  /\ NoSources \in [Steps -> Versions]
  /\ NewRow \in Row /\ InvalidRow \in Row
<1>1. 0 \in Versions
  BY StepsFinite DEF Versions
<1>2. NoSources \in [Steps -> Versions]
  BY <1>1 DEF NoSources
<1>3. NewRow \in Row
  BY <1>1, <1>2 DEF NewRow, Row
<1> QED BY <1>1, <1>2, <1>3 DEF InvalidRow, NewRow, Row

LEMMA SnapshotType ==
  ASSUME NEW E \in [Steps -> Row], NEW s \in Steps
  PROVE  Snapshot(E, s) \in [Steps -> Versions]
<1>1. \A r \in Steps : E[r].artefact \in Versions
  BY DEF Row
<1>2. MatchingSeen(E) \in Versions
  BY <1>1, VersionsType DEF MatchingSeen, Steps
<1> QED BY <1>1, <1>2, VersionsType DEF Snapshot

\* A row without a job that is not finished is always coherent.
LEMMA RestingRow ==
  ASSUME NEW s \in Steps, NEW row \in Row, row.job = "aucun",
         row.status = "termine" => row.artefact # 0
  PROVE  RowOK(s, row)
BY DEF RowOK, Working

-----------------------------------------------------------------------------
(* The updates of the tables.                                               *)

\* A row of x with what follows from x invalidated.
Rewritten(E, x, row) == Invalidated([E EXCEPT ![x] = row], x)

LEMMA RewrittenRows ==
  ASSUME NEW E \in [Steps -> Row], NEW x \in Steps, NEW row \in Row
  PROVE  /\ Rewritten(E, x, row) \in [Steps -> Row]
         /\ Rewritten(E, x, row)[x] = row
         /\ \A r \in Steps : r \in Downstream[x] => Rewritten(E, x, row)[r] = InvalidRow
         /\ \A r \in Steps \ ({x} \cup Downstream[x]) : Rewritten(E, x, row)[r] = E[r]
         /\ x \notin Downstream[x]
<1>1. x \notin Downstream[x]
  BY DownstreamRank, RankGrows
<1> QED BY <1>1, VersionsType DEF Rewritten, Invalidated

LEMMA RewriteKeeps ==
  ASSUME NEW E, Sound(E), NEW x \in Steps, NEW row, RowOK(x, row), row.job # "lu",
         Live(row) => Ready(E, x),
         Settled(row) => AsNow(E, row.sources, x)
  PROVE  Sound(Rewritten(E, x, row))
<1> DEFINE F == Rewritten(E, x, row)
<1>1. E \in [Steps -> Row] /\ row \in Row
  BY DEF Sound, RowOK
<1>2. /\ F \in [Steps -> Row] /\ F[x] = row
      /\ \A r \in Steps : r \in Downstream[x] => F[r] = InvalidRow
      /\ \A r \in Steps \ ({x} \cup Downstream[x]) : F[r] = E[r]
      /\ x \notin Downstream[x]
  BY <1>1, RewrittenRows
<1> HIDE DEF F
<1>3. InvalidRow.job = "aucun" /\ InvalidRow.status = "invalide"
  BY DEF InvalidRow, NewRow
<1>4. ASSUME NEW s \in Steps
      PROVE  RowOK(s, F[s])
  <2>1. CASE s \in Downstream[x]
    BY <1>2, <1>3, <2>1, RestingRow
  <2> QED BY <1>2, <2>1 DEF Sound
<1>5. ASSUME NEW s \in Steps, Live(F[s])
      PROVE  /\ Carried(E, F, s)
             /\ Ready(E, s)
             /\ Settled(F[s]) => AsNow(E, F[s].sources, s)
             /\ F[s].job = "lu" => AsNow(E, F[s].lu, s)
  <2>1. s \notin Downstream[x]
    BY <1>2, <1>3, <1>5 DEF Live, Settled
  <2>2. Carried(E, F, s)
    BY <1>2, <2>1, CarryBeside DEF SameArtefact
  <2>3. CASE s = x
    BY <1>2, <1>5, <2>2, <2>3
  <2>4. CASE s # x
    BY <1>2, <1>5, <2>1, <2>2, <2>4 DEF Sound, Grounded
  <2> QED BY <2>3, <2>4
<1> QED BY <1>2, <1>4, <1>5, SoundStep DEF F

\* A decision or an upload, made from what is there now.
LEMMA DecidedIsRewritten ==
  ASSUME NEW E, Sound(E), NEW x \in Steps, CanRead(E, x)
  PROVE  \E row \in Row :
           /\ Invalidated(Decided(E, x), x) = Rewritten(E, x, row)
           /\ row.status = "termine" /\ row.artefact # 0
           /\ row.job = "aucun" /\ ~row.probleme
           /\ Sound(Rewritten(E, x, row))
<1> DEFINE row == [NewRow EXCEPT !.status = "termine", !.artefact = Fresh(E, x),
                                 !.sources = Snapshot(E, x)]
<1>1. E \in [Steps -> Row]
  BY DEF Sound
<1>2. Fresh(E, x) \in Versions \ {0} /\ Snapshot(E, x) \in [Steps -> Versions]
  BY <1>1, FreshIsFree, SnapshotType
<1>3. /\ row \in Row /\ row.status = "termine" /\ row.artefact = Fresh(E, x)
      /\ row.sources = Snapshot(E, x) /\ row.job = "aucun" /\ ~row.probleme
  BY <1>2, VersionsType DEF NewRow, Row
<1>4. Invalidated(Decided(E, x), x) = Rewritten(E, x, row)
  BY DEF Decided, Rewritten
<1> HIDE DEF row
<1>5. RowOK(x, row)
  BY <1>2, <1>3, RestingRow
<1>6. Ready(E, x) /\ AsNow(E, row.sources, x)
  BY <1>3 DEF CanRead, Ready, AsNow
<1>7. Sound(Rewritten(E, x, row))
  BY <1>3, <1>5, <1>6, RewriteKeeps
<1> QED BY <1>2, <1>3, <1>4, <1>7

LEMMA EnqueuedIsAll ==
  ASSUME NEW E \in [Steps -> Row], NEW t \in Steps
  PROVE  Enqueued(E, t) = AllEnqueued(E, {t})
<1>1. ASSUME NEW s \in Steps
      PROVE  Enqueued(E, t)[s] = AllEnqueued(E, {t})[s]
  BY DEF Enqueued, AllEnqueued, Prepared
<1>2. Enqueued(E, t) = [s \in Steps |-> Enqueued(E, t)[s]]
  BY DEF Enqueued, Prepared
<1>3. AllEnqueued(E, {t}) = [s \in Steps |-> AllEnqueued(E, {t})[s]]
  BY DEF AllEnqueued
<1> QED BY <1>1, <1>2, <1>3

\* A queued step has a job and no artefact, but for one that had a job already.
LEMMA EnqueuedRows ==
  ASSUME NEW E \in [Steps -> Row], NEW S \in SUBSET Steps
  PROVE  /\ AllEnqueued(E, S) \in [Steps -> Row]
         /\ \A s \in Steps : \/ AllEnqueued(E, S)[s] = E[s] /\ (s \notin S \/ E[s].job # "aucun")
                             \/ /\ s \in S /\ E[s].job = "aucun"
                                /\ AllEnqueued(E, S)[s].status = "pret"
                                /\ AllEnqueued(E, S)[s].job = "queued"
                                /\ AllEnqueued(E, S)[s].probleme = E[s].probleme
<1>1. ASSUME NEW s \in Steps, s \in S, E[s].job = "aucun"
      PROVE  /\ Enqueued(E, s)[s] \in Row
             /\ Enqueued(E, s)[s].status = "pret"
             /\ Enqueued(E, s)[s].job = "queued"
             /\ Enqueued(E, s)[s].probleme = E[s].probleme
  <2>1. Enqueued(E, s)[s] = [E[s] EXCEPT !.status = "pret", !.artefact = 0,
                                         !.sources = NoSources, !.job = "queued"]
    BY <1>1 DEF Enqueued, Prepared
  <2>2. E[s] \in Row
    OBVIOUS
  <2> QED BY <2>1, <2>2, VersionsType DEF Row
<1>2. ASSUME NEW s \in Steps, ~(s \in S /\ E[s].job = "aucun")
      PROVE  AllEnqueued(E, S)[s] = E[s]
  BY <1>2 DEF AllEnqueued, Enqueued
<1>3. \A s \in Steps : s \in S => AllEnqueued(E, S)[s] = Enqueued(E, s)[s]
  BY DEF AllEnqueued
<1>4. \A s \in Steps : AllEnqueued(E, S)[s] \in Row
  BY <1>1, <1>2, <1>3
<1>5. AllEnqueued(E, S) \in [Steps -> Row]
  BY <1>4 DEF AllEnqueued
<1> QED BY <1>1, <1>2, <1>3, <1>5

LEMMA EnqueueKeeps ==
  ASSUME NEW E, Sound(E), NEW S \in SUBSET WorkerSteps,
         \A t \in S : ~Finished(E, t) \/ t = "package_final"
  PROVE  Sound(AllEnqueued(E, S))
<1> DEFINE F == AllEnqueued(E, S)
<1>1. E \in [Steps -> Row] /\ S \in SUBSET Steps /\ "mapping" \notin S /\ "upload_images" \notin S
  BY DEF Sound, WorkerSteps, Steps
<1>2. /\ F \in [Steps -> Row]
      /\ \A s \in Steps : \/ F[s] = E[s]
                          \/ s \in S /\ F[s].status = "pret" /\ F[s].job = "queued"
  BY <1>1, EnqueuedRows
<1> HIDE DEF F
<1>3. ASSUME NEW s \in Steps
      PROVE  RowOK(s, F[s])
  BY <1>2 DEF RowOK, Sound, Working
<1>4. ASSUME NEW s \in Steps, Live(F[s])
      PROVE  F[s] = E[s]
  BY <1>2, <1>4 DEF Live, Settled
<1>5. ASSUME NEW s \in Steps, Ready(E, s)
      PROVE  Carried(E, F, s)
  <2>1. \A r \in Steps : \/ SameArtefact(E, F, r)
                         \/ r # "mapping" /\ ~Finished(E, r)
                         \/ r = "package_final"
    BY <1>1, <1>2 DEF SameArtefact
  <2>2. SameArtefact(E, F, "upload_images")
    BY <1>1, <1>2 DEF SameArtefact, Steps
  <2> QED BY <1>5, <2>1, <2>2, CarryUnfinished
<1> QED BY <1>2, <1>3, <1>4, <1>5, SoundStep DEF F, Sound, Grounded

\* A step handed to the user waits for him, without an artefact.
LEMMA HandedRows ==
  ASSUME NEW E \in [Steps -> Row], NEW S \in SUBSET Steps
  PROVE  /\ HandedOver(E, S) \in [Steps -> Row]
         /\ \A s \in Steps \ S : HandedOver(E, S)[s] = E[s]
         /\ \A s \in S : /\ HandedOver(E, S)[s].status = "action_requise"
                         /\ HandedOver(E, S)[s].probleme = E[s].probleme
                         /\ HandedOver(E, S)[s].job =
                              IF E[s].job \in {"queued", "orphelin"} THEN "orphelin"
                              ELSE "aucun"
<1>1. ASSUME NEW s \in S
      PROVE  /\ HandedOver(E, S)[s] \in Row
             /\ HandedOver(E, S)[s].status = "action_requise"
             /\ HandedOver(E, S)[s].probleme = E[s].probleme
             /\ HandedOver(E, S)[s].job = IF E[s].job \in {"queued", "orphelin"}
                                          THEN "orphelin" ELSE "aucun"
  <2> DEFINE j == IF E[s].job \in {"queued", "orphelin"} THEN "orphelin" ELSE "aucun"
  <2>1. HandedOver(E, S)[s] = [E[s] EXCEPT !.status = "action_requise", !.artefact = 0,
                                           !.sources = NoSources, !.lu = NoSources, !.job = j]
    BY DEF HandedOver, Prepared
  <2>2. E[s] \in Row /\ j \in {"orphelin", "aucun"}
    OBVIOUS
  <2> HIDE DEF j
  <2>3. /\ HandedOver(E, S)[s] \in Row
        /\ HandedOver(E, S)[s].status = "action_requise"
        /\ HandedOver(E, S)[s].probleme = E[s].probleme
        /\ HandedOver(E, S)[s].job = j
    BY <2>1, <2>2, VersionsType, ZenonT(60) DEF Row
  <2> QED BY <2>3 DEF j
<1>2. \A s \in Steps \ S : HandedOver(E, S)[s] = E[s]
  BY DEF HandedOver
<1>3. HandedOver(E, S) \in [Steps -> Row]
  BY <1>1, <1>2 DEF HandedOver
<1> QED BY <1>1, <1>2, <1>3

LEMMA HandKeeps ==
  ASSUME NEW E, Sound(E), NEW S \in SUBSET {"tri", "previsualisation_csv", "package_final"},
         \A t \in S : Ready(E, t) /\ (~Finished(E, t) \/ t = "package_final")
  PROVE  Sound(HandedOver(E, S))
<1> DEFINE F == HandedOver(E, S)
<1>1. E \in [Steps -> Row] /\ S \in SUBSET Steps /\ "mapping" \notin S /\ "upload_images" \notin S
  BY DEF Sound, Steps
<1>2. /\ F \in [Steps -> Row]
      /\ \A s \in Steps \ S : F[s] = E[s]
      /\ \A s \in S : /\ F[s].status = "action_requise"
                      /\ F[s].job = IF E[s].job \in {"queued", "orphelin"} THEN "orphelin"
                                    ELSE "aucun"
  BY <1>1, HandedRows
<1> HIDE DEF F
<1>3. ASSUME NEW s \in Steps
      PROVE  RowOK(s, F[s])
  <2>1. CASE s \in S
    BY <1>1, <1>2, <2>1 DEF RowOK, Sound, Working, WorkerSteps
  <2> QED BY <1>2, <2>1 DEF Sound
<1>4. ASSUME NEW s \in Steps, Live(F[s])
      PROVE  /\ Ready(E, s)
             /\ Settled(F[s]) => AsNow(E, F[s].sources, s)
             /\ F[s].job = "lu" => AsNow(E, F[s].lu, s)
  <2>1. CASE s \in S
    BY <1>2, <2>1 DEF Settled
  <2> QED BY <1>2, <1>4, <2>1 DEF Sound, Grounded
<1>5. ASSUME NEW s \in Steps, Ready(E, s)
      PROVE  Carried(E, F, s)
  <2>1. \A r \in Steps : \/ SameArtefact(E, F, r)
                         \/ r # "mapping" /\ ~Finished(E, r)
                         \/ r = "package_final"
    BY <1>1, <1>2 DEF SameArtefact
  <2>2. SameArtefact(E, F, "upload_images")
    BY <1>1, <1>2 DEF SameArtefact, Steps
  <2> QED BY <1>5, <2>1, <2>2, CarryUnfinished
<1> QED BY <1>2, <1>3, <1>4, <1>5, SoundStep DEF F

-----------------------------------------------------------------------------
(* The three other parts of the invariant.                                  *)

LEMMA LotStatusType ==
  \A E : LotStatus(E) \in {"brouillon", "en_cours", "action_requise", "bloque", "echoue",
                           "termine"}
BY DEF LotStatus

LEMMA TardifType ==
  \A E : /\ TardifIn(E) \in {"non", "assemble", "note"}
         /\ tardif = "note" /\ E["package_final"].probleme => TardifIn(E) = "note"
BY DEF TardifIn

\* What a transaction that recomputes the lot has to show.
LEMMA WriteKeeps ==
  ASSUME TypeOK, NEW F, etapes' = F, lot' = LotStatus(F),
         tardif' \in {"non", "assemble", "note"}, incidents' \in Nat,
         Sound(F), AutoWoken(F), NoBlocker(F, tardif')
  PROVE  IInv'
<1>1. LotTellsItsSteps'
  BY DEF LotTellsItsSteps
<1>2. TypeOK'
  BY LotStatusType DEF TypeOK, Sound
<1> QED BY <1>1, <1>2 DEF IInv

\* And one of a job in hand, that leaves the lot as it is.
LEMMA WriteQuietlyKeeps ==
  ASSUME TypeOK, NEW F, WriteQuietly(F), incidents' \in Nat,
         NEW s \in Steps, F[s].status = "en_cours",
         Sound(F), AutoWoken(F), NoBlocker(F, TardifIn(F))
  PROVE  IInv'
<1>1. LotTellsItsSteps'
  BY DEF LotTellsItsSteps, WriteQuietly
<1>2. TypeOK'
  BY TardifType DEF TypeOK, Sound, WriteQuietly
<1> QED BY <1>1, <1>2 DEF IInv, WriteQuietly

\* A package under way rests on every other step, drafts of the mapping and
\* images apart.
LEMMA PackageRestsOnAll ==
  ASSUME NEW E, Sound(E), Held(E["package_final"]),
         NEW s \in Steps \ {"mapping", "package_final"}
  PROVE  Finished(E, s) \/ (s \in ImageSteps /\ ~Finished(E, "upload_images"))
<1>1. Ready(E, "package_final")
  BY DEF Sound, Grounded, Held, Live, Steps
<1>2. "rapports" \in Needed(E, "package_final") /\ Finished(E, "rapports")
  BY <1>1, NeededIsRead DEF Ready, Usable, Read, ImageSteps, Steps
<1>3. Ready(E, "rapports")
  BY <1>2 DEF Sound, Grounded, Live, Settled, Finished, Steps
<1>4. CASE s \in ExcelSteps \cup {"previsualisation_csv"}
  <2>1. s \in Needed(E, "rapports")
    BY <1>4, NeededIsRead DEF Read, ExcelSteps, ImageSteps, Steps
  <2> QED BY <1>3, <2>1 DEF Ready, Usable
<1>5. CASE s \in ImageSteps /\ Finished(E, "upload_images")
  <2>1. Usable(E, "upload_images")
    BY <1>5 DEF Usable, Finished, Sound, RowOK, Steps
  <2>2. s \in Needed(E, "rapports")
    BY <1>5, <2>1, NeededIsRead DEF Read, Steps
  <2> QED BY <1>3, <2>2 DEF Ready, Usable
<1>6. CASE s = "rapports"
  BY <1>2, <1>6
<1> QED BY <1>4, <1>5, <1>6 DEF Steps, ExcelSteps, ImageSteps

\* A problem of a step that is not finished does not reach the package.
LEMMA NoBlockerStep ==
  ASSUME NEW E, Sound(E), NoBlocker(E, tardif), NEW F,
         Held(F["package_final"]) =>
           /\ Held(E["package_final"])
           /\ F["package_final"].probleme => E["package_final"].probleme
           /\ Finished(F, "upload_images") <=> Finished(E, "upload_images")
           /\ \A s \in Steps \ {"mapping", "package_final"} :
                F[s].probleme => E[s].probleme \/ ~Finished(E, s)
  PROVE  NoBlocker(F, TardifIn(F))
<1> SUFFICES ASSUME Held(F["package_final"]), NEW s \in Steps \ {"mapping"}, F[s].probleme
             PROVE  \/ s = "package_final" /\ TardifIn(F) = "note"
                    \/ s \in ImageSteps /\ ~Finished(F, "upload_images")
  BY DEF NoBlocker
<1>1. CASE s = "package_final"
  <2>1. tardif = "note"
    BY <1>1 DEF NoBlocker, ImageSteps
  <2> QED BY <1>1, <2>1, TardifType
<1>2. CASE s # "package_final"
  BY <1>2, PackageRestsOnAll DEF NoBlocker
<1> QED BY <1>1, <1>2

LEMMA WokenStep ==
  ASSUME NEW E, AutoWoken(E), NEW F,
         \A s \in {"normalisation", "inspection_images", "previsualisation_csv",
                   "matching_images"} : Finished(F, s) => Finished(E, s),
         Finished(E, "upload_images") => Finished(F, "upload_images"),
         \A s \in {"matching_images", "rapports"} :
           E[s].status \in Woken => F[s].status \in Woken
  PROVE  AutoWoken(F)
BY DEF AutoWoken

\* Where an automatic step is invalidated, so is one of its parents.
LEMMA WokenBelow ==
  ASSUME NEW E, AutoWoken(E), NEW F, NEW x \in Steps \ {"previsualisation_csv"},
         \A r \in Steps \ ({x} \cup Downstream[x]) : F[r] = E[r],
         \A r \in Steps : r \in Downstream[x] => ~Finished(F, r),
         x \in WorkerSteps => F[x].status = "pret"
  PROVE  AutoWoken(F)
<1>1. /\ Finished(F, "normalisation") /\ Finished(F, "inspection_images")
        => F["matching_images"].status \in Woken
  <2>1. CASE x = "matching_images"
    BY <2>1 DEF Woken, WorkerSteps
  <2>2. CASE x \in {"normalisation", "inspection_images"}
    BY <2>2 DEF WorkerSteps, Finished
  <2>3. CASE x \in {"upload_excel", "diagnostic_excel", "mapping", "fusion", "upload_images"}
    <3>1. "normalisation" \in Downstream[x] \/ "inspection_images" \in Downstream[x]
      BY <2>3, Descendants
    <3> QED BY <3>1 DEF Steps
  <2>4. CASE x \in {"tri", "verification_csv", "rapports", "package_final"}
    <3>1. \A r \in {"normalisation", "inspection_images", "matching_images"} :
            r \in Steps /\ r # x /\ r \notin Downstream[x]
      <4>1. /\ Rank["normalisation"] = 4 /\ Rank["inspection_images"] = 1
            /\ Rank["matching_images"] = 5 /\ Rank[x] >= 5
        BY <2>4 DEF Rank, Steps, External
      <4>2. \A r \in Downstream[x] : Rank[x] < Rank[r] /\ Rank[x] \in 0..9 /\ Rank[r] \in 0..9
        BY DownstreamRank, DownstreamType, RankGrows
      <4> QED BY <2>4, <4>1, <4>2 DEF Steps
    <3> QED BY <3>1 DEF AutoWoken, Finished
  <2> QED BY <2>1, <2>2, <2>3, <2>4 DEF Steps
<1>2. /\ Finished(F, "previsualisation_csv")
        /\ (Finished(F, "upload_images") => Finished(F, "matching_images"))
        => F["rapports"].status \in Woken
  <2>1. CASE x = "rapports"
    BY <2>1 DEF Woken, WorkerSteps
  <2>2. CASE x \in Steps \ {"rapports", "package_final", "previsualisation_csv"}
    <3>1. "previsualisation_csv" \in Downstream[x]
      BY <2>2, Descendants DEF Steps
    <3> QED BY <3>1 DEF Steps
  <2>3. CASE x = "package_final"
    <3>1. \A r \in Steps \ {"package_final"} : F[r] = E[r]
      BY <2>3, Descendants
    <3>2. /\ F["previsualisation_csv"] = E["previsualisation_csv"]
          /\ F["upload_images"] = E["upload_images"]
          /\ F["matching_images"] = E["matching_images"] /\ F["rapports"] = E["rapports"]
      BY <3>1 DEF Steps
    <3> QED BY <3>2 DEF AutoWoken, Finished
  <2> QED BY <2>1, <2>2, <2>3
<1> QED BY <1>1, <1>2 DEF AutoWoken

LEMMA PackageIsLast == \A x \in Steps \ {"package_final"} : "package_final" \in Downstream[x]
BY Descendants DEF Steps

-----------------------------------------------------------------------------
(* The user.                                                                *)

\* A change of x that leaves the package behind, and what it queues or hands
\* over below x.
LEMMA ChangeKeeps ==
  ASSUME TypeOK, AutoWoken(etapes), NEW x \in Steps \ {"previsualisation_csv", "package_final"},
         NEW G, Sound(G), NEW F, Sound(F),
         \A r \in Steps \ ({x} \cup Downstream[x]) : G[r] = etapes[r],
         \A r \in Steps : r \in Downstream[x] => G[r] = InvalidRow,
         \A r \in Steps : F[r] = G[r] \/ (r \in {x} \cup Downstream[x] /\ ~Finished(F, r)),
         x \in WorkerSteps => F[x].status = "pret",
         F["package_final"] = G["package_final"],
         Write(F), incidents' \in Nat
  PROVE  IInv'
<1>1. InvalidRow.status = "invalide" /\ InvalidRow.job = "aucun"
  BY DEF InvalidRow, NewRow
<1>2. AutoWoken(F)
  <2>1. \A r \in Steps \ ({x} \cup Downstream[x]) : F[r] = etapes[r]
    OBVIOUS
  <2>2. \A r \in Steps : r \in Downstream[x] => ~Finished(F, r)
    BY <1>1 DEF Finished
  <2> QED BY <2>1, <2>2, WokenBelow
<1>3. NoBlocker(F, tardif')
  BY <1>1, PackageIsLast DEF NoBlocker, Held, Settled, Steps
<1> QED BY <1>2, <1>3, WriteKeeps, TardifType DEF Write, Recompute

\* An upload or a decision that queues a step below it.
LEMMA DecideAndQueue ==
  ASSUME IInv, NEW x \in {"upload_excel", "upload_images", "mapping"},
         NEW t \in WorkerSteps \ {"package_final"}, t \in Downstream[x], CanRead(etapes, x),
         Write(Enqueued(Invalidated(Decided(etapes, x), x), t)), incidents' \in Nat
  PROVE  IInv'
<1>1. /\ x \in Steps \ {"previsualisation_csv", "package_final"} /\ x \notin WorkerSteps
      /\ t \in Steps /\ {t} \in SUBSET Steps /\ {t} \in SUBSET WorkerSteps
  BY DEF Steps, WorkerSteps
<1>2. PICK row \in Row : /\ Invalidated(Decided(etapes, x), x) = Rewritten(etapes, x, row)
                         /\ Sound(Rewritten(etapes, x, row))
  BY <1>1, DecidedIsRewritten DEF IInv
<1> DEFINE G == Rewritten(etapes, x, row)
           F == AllEnqueued(G, {t})
<1>3. /\ \A r \in Steps \ ({x} \cup Downstream[x]) : G[r] = etapes[r]
      /\ \A r \in Steps : r \in Downstream[x] => G[r] = InvalidRow
  <2>1. etapes \in [Steps -> Row] /\ x \in Steps
    BY <1>1 DEF IInv, TypeOK
  <2>2. \A r \in Steps : r \in Downstream[x] => G[r] = InvalidRow
    BY <2>1, RewrittenRows
  <2>3. \A r \in Steps \ ({x} \cup Downstream[x]) : G[r] = etapes[r]
    BY <2>1, RewrittenRows
  <2> QED BY <2>2, <2>3
<1>4. G \in [Steps -> Row] /\ Sound(G)
  BY <1>2 DEF Sound
<1>5. Write(F)
  BY <1>1, <1>2, <1>4, EnqueuedIsAll
<1> HIDE DEF G
<1>6. InvalidRow.status = "invalide" /\ InvalidRow.job = "aucun"
  BY DEF InvalidRow, NewRow
<1>7. Sound(F)
  BY <1>1, <1>3, <1>4, <1>6, EnqueueKeeps DEF Finished
<1>8. \A r \in Steps : F[r] = G[r] \/ (r = t /\ F[r].status = "pret")
  BY <1>1, <1>4, EnqueuedRows
<1>9. F["package_final"] = G["package_final"]
  BY <1>8 DEF Steps
<1> HIDE DEF F
<1>10. \A r \in Steps : F[r] = G[r] \/ (r \in {x} \cup Downstream[x] /\ ~Finished(F, r))
  BY <1>8 DEF Finished
<1> QED BY <1>1, <1>3, <1>4, <1>5, <1>7, <1>9, <1>10, ChangeKeeps DEF IInv

LEMMA UploadExcelKeeps == ASSUME IInv, UploadExcel PROVE IInv'
<1>1. CanRead(etapes, "upload_excel")
  BY NeededIsRead DEF CanRead, Read, Steps
<1>2. incidents' \in Nat
  BY DEF IInv, TypeOK, UploadExcel, Unbounded
<1> QED BY <1>1, <1>2, DecideAndQueue, Descendants DEF UploadExcel, WorkerSteps

LEMMA UploadImagesKeeps == ASSUME IInv, UploadImages PROVE IInv'
<1>1. CanRead(etapes, "upload_images")
  BY NeededIsRead DEF CanRead, Read, Steps
<1>2. incidents' \in Nat
  BY DEF IInv, TypeOK, UploadImages, Unbounded
<1> QED BY <1>1, <1>2, DecideAndQueue, Descendants DEF UploadImages, WorkerSteps

LEMMA ValidateMappingKeeps == ASSUME IInv, ValidateMapping PROVE IInv'
<1>1. incidents' \in Nat
  BY DEF IInv, TypeOK, ValidateMapping, Unbounded
<1> QED BY <1>1, DecideAndQueue, Descendants DEF ValidateMapping, WorkerSteps

\* A draft or a refusal of the mapping invalidates nothing.
LEMMA MappingAlone ==
  ASSUME IInv, NEW row \in Row, row.job = "aucun", row.status \in {"action_requise", "bloque"},
         CanRead(etapes, "mapping"), Write([etapes EXCEPT !["mapping"] = row]),
         incidents' \in Nat
  PROVE  IInv'
<1> DEFINE F == [etapes EXCEPT !["mapping"] = row]
<1>1. etapes \in [Steps -> Row] /\ "mapping" \in Steps
  BY DEF IInv, TypeOK, Steps
<1>2. /\ F \in [Steps -> Row] /\ F["mapping"] = row
      /\ \A s \in Steps \ {"mapping"} : F[s] = etapes[s]
  BY <1>1
<1>3. Write(F)
  OBVIOUS
<1> HIDE DEF F
<1>4. Sound(F)
  <2>1. ASSUME NEW s \in Steps
        PROVE  RowOK(s, F[s])
    BY <1>2, RestingRow DEF IInv, Sound
  <2>2. ASSUME NEW s \in Steps, Live(F[s])
        PROVE  /\ Ready(etapes, s)
               /\ Settled(F[s]) => AsNow(etapes, F[s].sources, s)
               /\ F[s].job = "lu" => AsNow(etapes, F[s].lu, s)
    <3>1. CASE s = "mapping"
      BY <1>2, <3>1 DEF Settled, Ready, CanRead
    <3> QED BY <1>2, <2>2, <3>1 DEF IInv, Sound, Grounded
  <2>3. ASSUME NEW s \in Steps, Ready(etapes, s)
        PROVE  Carried(etapes, F, s)
    <3>1. \A r \in Steps : \/ SameArtefact(etapes, F, r)
                           \/ r = "mapping" /\ ~Finished(F, "mapping")
      BY <1>2 DEF SameArtefact, Finished
    <3>2. SameArtefact(etapes, F, "upload_images")
      BY <1>2 DEF SameArtefact, Steps
    <3> QED BY <2>3, <3>1, <3>2, CarryUnfinished
  <2> QED BY <1>2, <2>1, <2>2, <2>3, SoundStep
<1>5. AutoWoken(F)
  <2>1. \A s \in {"normalisation", "inspection_images", "previsualisation_csv",
                  "upload_images", "matching_images", "rapports"} : F[s] = etapes[s]
    BY <1>2 DEF Steps
  <2> QED BY <2>1, WokenStep DEF IInv, Finished
<1>6. NoBlocker(F, tardif')
  <2>1. /\ F["package_final"] = etapes["package_final"]
        /\ F["upload_images"] = etapes["upload_images"]
    BY <1>2 DEF Steps
  <2> QED BY <1>2, <1>3, <2>1, NoBlockerStep DEF IInv, Write, Finished
<1> QED BY <1>3, <1>4, <1>5, <1>6, WriteKeeps, TardifType DEF IInv, Write, Recompute

LEMMA SaveMappingDraftKeeps == ASSUME IInv, SaveMappingDraft PROVE IInv'
<1> DEFINE row == [NewRow EXCEPT !.status = "action_requise"]
<1>1. row \in Row /\ row.job = "aucun" /\ row.status = "action_requise"
  BY VersionsType DEF NewRow, Row
<1>2. incidents' \in Nat
  BY DEF IInv, TypeOK, SaveMappingDraft, Unbounded
<1> QED BY <1>1, <1>2, MappingAlone DEF SaveMappingDraft

LEMMA RefuseMappingKeeps == ASSUME IInv, RefuseMapping PROVE IInv'
<1> DEFINE row == [etapes["mapping"] EXCEPT !.status = "bloque", !.probleme = TRUE]
<1>1. etapes \in [Steps -> Row] /\ "mapping" \in Steps \ WorkerSteps
  BY DEF IInv, TypeOK, Steps, WorkerSteps
<1>2. row \in Row /\ row.status = "bloque" /\ row.job = etapes["mapping"].job
  BY <1>1, ZenonT(60) DEF Row
<1>3. row.job = "aucun"
  BY <1>1, <1>2 DEF IInv, Sound, RowOK
<1>4. [etapes EXCEPT !["mapping"].status = "bloque", !["mapping"].probleme = TRUE]
        = [etapes EXCEPT !["mapping"] = row]
  BY <1>1
<1>5. incidents' \in Nat
  BY DEF IInv, TypeOK, RefuseMapping, Unbounded
<1> QED BY <1>2, <1>3, <1>4, <1>5, MappingAlone DEF RefuseMapping

LEMMA ValidateSortKeeps == ASSUME IInv, ValidateSort PROVE IInv'
<1>1. "tri" \in Steps \ {"previsualisation_csv", "package_final"} /\ "tri" \notin WorkerSteps
  BY DEF Steps, WorkerSteps
<1>2. PICK row \in Row : /\ Invalidated(Decided(etapes, "tri"), "tri")
                              = Rewritten(etapes, "tri", row)
                         /\ row.status = "termine" /\ row.artefact # 0
                         /\ Sound(Rewritten(etapes, "tri", row))
  BY <1>1, DecidedIsRewritten DEF IInv, ValidateSort
<1> DEFINE G == Rewritten(etapes, "tri", row)
           F == IF Finished(G, "verification_csv")
                THEN HandedOver(G, {"previsualisation_csv"}) ELSE G
<1>3. /\ G["tri"] = row
      /\ \A r \in Steps \ ({"tri"} \cup Downstream["tri"]) : G[r] = etapes[r]
      /\ \A r \in Steps : r \in Downstream["tri"] => G[r] = InvalidRow
  BY <1>1, RewrittenRows DEF IInv, TypeOK
<1>4. G \in [Steps -> Row] /\ Sound(G)
  BY <1>2 DEF Sound
<1>5. Write(F) /\ incidents' \in Nat
  BY <1>2 DEF IInv, TypeOK, ValidateSort, Unbounded
<1> HIDE DEF G
<1>6. InvalidRow.status = "invalide"
  BY DEF InvalidRow, NewRow
<1>7. Sound(F)
  <2>1. ASSUME Finished(G, "verification_csv")
        PROVE  Sound(HandedOver(G, {"previsualisation_csv"}))
    <3>1. Usable(G, "verification_csv")
      BY <1>4, <2>1 DEF Sound, RowOK, Usable, Finished, Steps
    <3>2. Usable(G, "tri")
      BY <1>2, <1>3 DEF Usable, Finished
    <3>3. Ready(G, "previsualisation_csv")
      BY <3>1, <3>2, NeededIsRead DEF Ready, Read, Steps
    <3>4. ~Finished(G, "previsualisation_csv")
      BY <1>3, <1>6, Descendants DEF Finished, Steps
    <3> QED BY <1>4, <3>3, <3>4, HandKeeps
  <2> QED BY <1>4, <2>1
<1>8. \A r \in Steps : F[r] = G[r] \/ (r = "previsualisation_csv" /\ F[r].status = "action_requise")
  <2>1. {"previsualisation_csv"} \in SUBSET Steps
    BY DEF Steps
  <2> QED BY <1>4, <2>1, HandedRows
<1>9. F["package_final"] = G["package_final"]
  BY <1>8 DEF Steps
<1> HIDE DEF F
<1>10. \A r \in Steps : F[r] = G[r] \/ (r \in {"tri"} \cup Downstream["tri"] /\ ~Finished(F, r))
  BY <1>8, Descendants DEF Finished
<1> QED BY <1>1, <1>3, <1>4, <1>5, <1>7, <1>9, <1>10, ChangeKeeps DEF IInv

LEMMA ResolveImagesKeeps == ASSUME IInv, ResolveImages PROVE IInv'
<1> DEFINE x == "matching_images"
           G == Rewritten(etapes, x, NewRow)
           F == AllEnqueued(G, {x})
<1>1. /\ x \in Steps \ {"previsualisation_csv", "package_final"} /\ x \in WorkerSteps
      /\ {x} \in SUBSET Steps /\ {x} \in SUBSET WorkerSteps
  BY DEF Steps, WorkerSteps
<1>2. NewRow.status = "non_demarre" /\ NewRow.job = "aucun"
  BY DEF NewRow
<1>3. Sound(G)
  BY <1>1, <1>2, VersionsType, RestingRow, RewriteKeeps DEF IInv, Live, Settled
<1>4. /\ G[x] = NewRow
      /\ \A r \in Steps \ ({x} \cup Downstream[x]) : G[r] = etapes[r]
      /\ \A r \in Steps : r \in Downstream[x] => G[r] = InvalidRow
  <2>1. etapes \in [Steps -> Row] /\ x \in Steps /\ NewRow \in Row
    BY <1>1, VersionsType DEF IInv, TypeOK
  <2> QED BY <1>2, <2>1, RewrittenRows
<1>5. G \in [Steps -> Row]
  BY <1>3 DEF Sound
<1>6. Write(F) /\ incidents' \in Nat
  <2>1. Write(Enqueued(G, x)) /\ incidents' \in Nat
    BY DEF ResolveImages, Rewritten, IInv, TypeOK, Unbounded
  <2> QED BY <1>1, <1>5, <2>1, EnqueuedIsAll
<1> HIDE DEF G
<1>7. Sound(F)
  BY <1>1, <1>2, <1>3, <1>4, EnqueueKeeps DEF Finished
<1>8. \A r \in Steps : \/ F[r] = G[r] /\ (r # x \/ G[r].job # "aucun")
                       \/ r = x /\ F[r].status = "pret"
  BY <1>1, <1>5, EnqueuedRows
<1>9. F[x].status = "pret" /\ F["package_final"] = G["package_final"]
  BY <1>1, <1>2, <1>4, <1>8 DEF Steps
<1> HIDE DEF F
<1>10. \A r \in Steps : F[r] = G[r] \/ (r \in {x} \cup Downstream[x] /\ ~Finished(F, r))
  BY <1>8 DEF Finished
<1> QED BY <1>1, <1>3, <1>4, <1>6, <1>7, <1>9, <1>10, ChangeKeeps DEF IInv

LEMMA ValidatePreviewKeeps == ASSUME IInv, ValidatePreview PROVE IInv'
<1> DEFINE x == "previsualisation_csv"
<1>1. x \in Steps /\ {"rapports", "package_final"} \subseteq Downstream[x]
      /\ "matching_images" \notin {x} \cup Downstream[x]
      /\ "normalisation" \notin {x} \cup Downstream[x]
      /\ "inspection_images" \notin {x} \cup Downstream[x]
      /\ "upload_images" \notin {x} \cup Downstream[x]
  <2>1. /\ Rank[x] = 6 /\ Rank["matching_images"] = 5 /\ Rank["normalisation"] = 4
        /\ Rank["inspection_images"] = 1 /\ Rank["upload_images"] = 0
    BY DEF Rank, Steps, External
  <2>2. x \in Steps /\ \A r \in Downstream[x] : Rank[x] < Rank[r]
    BY DownstreamRank DEF Steps
  <2> QED BY <2>1, <2>2, Descendants
<1>2. CanRead(etapes, x)
  BY DEF ValidatePreview, PreviewAllowed
<1>3. PICK row \in Row : /\ Invalidated(Decided(etapes, x), x) = Rewritten(etapes, x, row)
                         /\ row.status = "termine"
                         /\ Sound(Rewritten(etapes, x, row))
  BY <1>1, <1>2, DecidedIsRewritten DEF IInv
<1> DEFINE G == Rewritten(etapes, x, row)
           S == ReadyAutoSteps(G, x)
           F == AllEnqueued(G, S)
<1>4. /\ G[x] = row
      /\ \A r \in Steps \ ({x} \cup Downstream[x]) : G[r] = etapes[r]
      /\ \A r \in Steps : r \in Downstream[x] => G[r] = InvalidRow
  <2>1. etapes \in [Steps -> Row]
    BY DEF IInv, TypeOK
  <2> QED BY <1>1, <1>3, <2>1, RewrittenRows
<1>5. G \in [Steps -> Row] /\ Sound(G)
  BY <1>3 DEF Sound
<1>6. /\ etapes' = F /\ lot' = LotStatus(F) /\ incidents' \in Nat
      /\ tardif' \in {"non", "assemble", "note"}
  BY <1>3, TardifType DEF ValidatePreview, Recompute, IInv, TypeOK, Unbounded
<1>7. InvalidRow.status = "invalide" /\ InvalidRow.job = "aucun"
  BY DEF InvalidRow, NewRow
<1>8. S \subseteq {"rapports"}
  BY Children DEF ReadyAutoSteps, AutoSteps
<1>9. /\ S \in SUBSET Steps /\ S \in SUBSET WorkerSteps
      /\ "rapports" \in Steps /\ "package_final" \in Steps /\ "rapports" # "package_final"
  BY <1>8 DEF Steps, WorkerSteps
<1>10. (Finished(G, "upload_images") => Finished(G, "matching_images")) => "rapports" \in S
  <2>1. Parents["rapports"] = {"previsualisation_csv", "matching_images"}
    BY Children DEF Parents, Steps
  <2>2. "rapports" \in DAG[x] \cap AutoSteps
    BY Children DEF AutoSteps
  <2>3. Finished(G, x)
    BY <1>3, <1>4 DEF Finished
  <2> QED BY <2>1, <2>2, <2>3 DEF ReadyAutoSteps, ReadyParents
<1> HIDE DEF G, S
<1>11. Sound(F)
  BY <1>1, <1>4, <1>5, <1>7, <1>8, <1>9, EnqueueKeeps DEF Finished
<1>12. \A r \in Steps : \/ F[r] = G[r] /\ (r \notin S \/ G[r].job # "aucun")
                        \/ r \in S /\ F[r].status = "pret"
  BY <1>5, <1>9, EnqueuedRows
<1> HIDE DEF F
<1>13. NoBlocker(F, tardif')
  <2>1. F["package_final"] = InvalidRow
    BY <1>1, <1>4, <1>8, <1>9, <1>12
  <2> QED BY <1>7, <2>1 DEF NoBlocker, Held, Settled
<1>14. AutoWoken(F)
  <2>1. \A r \in {"normalisation", "inspection_images", "upload_images", "matching_images"} :
          F[r] = G[r] /\ G[r] = etapes[r]
    BY <1>1, <1>4, <1>8, <1>12 DEF Steps
  <2>2. "rapports" \in S => F["rapports"].status = "pret"
    BY <1>1, <1>4, <1>7, <1>9, <1>12
  <2> QED BY <1>10, <2>1, <2>2 DEF AutoWoken, Finished, Woken, IInv
<1> QED BY <1>6, <1>11, <1>13, <1>14, WriteKeeps DEF IInv

LEMMA RequestPackageKeeps == ASSUME IInv, RequestPackage PROVE IInv'
<1> DEFINE P == "package_final"
           F == AllEnqueued(etapes, {P})
<1>1. /\ P \in Steps /\ {P} \in SUBSET Steps /\ {P} \in SUBSET WorkerSteps
      /\ etapes \in [Steps -> Row] /\ Sound(etapes)
  BY DEF Steps, WorkerSteps, IInv, TypeOK
<1>2. Write(F) /\ incidents' \in Nat
  BY <1>1, EnqueuedIsAll DEF RequestPackage, IInv, TypeOK, Unbounded
<1>3. Sound(F)
  BY <1>1, EnqueueKeeps
<1>4. \A r \in Steps : F[r] = etapes[r] \/ (r = P /\ F[r].status = "pret" /\ F[r].job = "queued")
  BY <1>1, EnqueuedRows
<1> HIDE DEF F
<1>5. AutoWoken(F)
  <2>1. \A s \in {"normalisation", "inspection_images", "previsualisation_csv",
                  "upload_images", "matching_images", "rapports"} : F[s] = etapes[s]
    BY <1>4 DEF Steps
  <2> QED BY <2>1, WokenStep DEF IInv, Finished
<1>6. NoBlocker(F, tardif')
  <2>1. Held(F[P]) => \A r \in Steps : F[r] = etapes[r]
    BY <1>1, <1>4 DEF Held, Settled
  <2>2. "upload_images" \in Steps
    BY DEF Steps
  <2>3. tardif' = TardifIn(F)
    BY <1>2 DEF Write
  <2>4. NoBlocker(F, TardifIn(F))
    BY <1>1, <2>1, <2>2, NoBlockerStep DEF IInv, Finished
  <2> QED BY <2>3, <2>4
<1> QED BY <1>2, <1>3, <1>5, <1>6, WriteKeeps, TardifType DEF IInv, Write, Recompute

LEMMA RetryKeeps == ASSUME IInv, NEW s \in WorkerSteps, Retry(s) PROVE IInv'
<1> DEFINE row == [etapes[s] EXCEPT !.job = "aucun", !.lu = NoSources, !.probleme = FALSE]
           G == Rewritten(etapes, s, row)
           F == AllEnqueued(G, {s})
<1>1. /\ s \in Steps /\ {s} \in SUBSET Steps /\ {s} \in SUBSET WorkerSteps
      /\ s # "previsualisation_csv" /\ etapes \in [Steps -> Row] /\ Sound(etapes)
  BY DEF Steps, WorkerSteps, IInv, TypeOK
<1>2. row \in Row /\ row.job = "aucun" /\ row.status \in Retryable
  BY <1>1, VersionsType DEF Row, Retry
<1>3. [etapes EXCEPT ![s].job = "aucun", ![s].lu = NoSources, ![s].probleme = FALSE]
        = [etapes EXCEPT ![s] = row]
  BY <1>1
<1>4. Write(Enqueued(G, s)) /\ incidents' \in Nat
  BY <1>3 DEF Retry, Incident, Rewritten, IInv, TypeOK
<1> HIDE DEF row
<1>5. Sound(G)
  BY <1>1, <1>2, RestingRow, RewriteKeeps DEF Live, Settled, Retryable
<1>6. /\ G[s] = row
      /\ \A r \in Steps \ ({s} \cup Downstream[s]) : G[r] = etapes[r]
      /\ \A r \in Steps : r \in Downstream[s] => G[r] = InvalidRow
  BY <1>1, <1>2, RewrittenRows
<1>7. G \in [Steps -> Row]
  BY <1>5 DEF Sound
<1>8. Write(F)
  BY <1>1, <1>4, <1>7, EnqueuedIsAll
<1> HIDE DEF G
<1>9. Sound(F)
  BY <1>1, <1>2, <1>5, <1>6, EnqueueKeeps DEF Finished, Retryable
<1>10. \A r \in Steps : \/ F[r] = G[r] /\ (r # s \/ G[r].job # "aucun")
                        \/ r = s /\ F[r].status = "pret" /\ F[r].job = "queued"
  BY <1>1, <1>7, EnqueuedRows
<1>11. F[s].status = "pret" /\ F[s].job = "queued"
  BY <1>1, <1>2, <1>6, <1>10
<1> HIDE DEF F
<1>12. CASE s # "package_final"
  <2>1. F["package_final"] = G["package_final"]
    BY <1>10, <1>12 DEF Steps
  <2>2. \A r \in Steps : F[r] = G[r] \/ (r \in {s} \cup Downstream[s] /\ ~Finished(F, r))
    BY <1>10 DEF Finished
  <2> QED BY <1>1, <1>4, <1>5, <1>6, <1>8, <1>9, <1>11, <1>12, <2>1, <2>2, ChangeKeeps DEF IInv
<1>13. CASE s = "package_final"
  <2>1. ~Held(F["package_final"])
    BY <1>11, <1>13 DEF Held, Settled
  <2>2. NoBlocker(F, tardif')
    BY <2>1 DEF NoBlocker
  <2>3. InvalidRow.status = "invalide"
    BY DEF InvalidRow, NewRow
  <2>4. AutoWoken(F)
    <3>1. \A r \in Steps \ ({s} \cup Downstream[s]) : F[r] = etapes[r]
      BY <1>6, <1>10
    <3>2. \A r \in Steps : r \in Downstream[s] => ~Finished(F, r)
      BY <1>13, Descendants
    <3> QED BY <1>1, <1>11, <3>1, <3>2, WokenBelow DEF IInv
  <2> QED BY <1>4, <1>8, <1>9, <2>2, <2>4, WriteKeeps, TardifType DEF IInv, Write, Recompute
<1> QED BY <1>12, <1>13


-----------------------------------------------------------------------------
(* The worker.                                                              *)

InHand == Working \cup {"queued"}

\* A step whose job is queued or in hand has no reader yet: no other step counts
\* on what its row tells.
LEMMA InHandSound ==
  ASSUME NEW E, Sound(E), NEW s \in WorkerSteps, E[s].job \in InHand,
         NEW row, RowOK(s, row), Live(row) => Ready(E, s),
         Settled(row) => AsNow(E, row.sources, s),
         row.job = "lu" => AsNow(E, row.lu, s)
  PROVE  /\ s \in Steps /\ ~Finished(E, s)
         /\ Sound([E EXCEPT ![s] = row])
         /\ [E EXCEPT ![s] = row][s] = row
         /\ \A r \in Steps \ {s} : [E EXCEPT ![s] = row][r] = E[r]
<1> DEFINE F == [E EXCEPT ![s] = row]
<1>1. /\ E \in [Steps -> Row] /\ s \in Steps /\ row \in Row
      /\ s # "mapping" /\ s # "upload_images"
  BY DEF Sound, RowOK, WorkerSteps, Steps
<1>2. ~Finished(E, s)
  BY <1>1 DEF Sound, RowOK, InHand, Finished, Working
<1>3. /\ F \in [Steps -> Row] /\ F[s] = row
      /\ \A r \in Steps \ {s} : F[r] = E[r]
  BY <1>1
<1> HIDE DEF F
<1>4. ASSUME NEW t \in Steps
      PROVE  RowOK(t, F[t])
  BY <1>3 DEF Sound
<1>5. ASSUME NEW t \in Steps, Live(F[t])
      PROVE  /\ Ready(E, t)
             /\ Settled(F[t]) => AsNow(E, F[t].sources, t)
             /\ F[t].job = "lu" => AsNow(E, F[t].lu, t)
  <2>1. CASE t = s
    BY <1>3, <1>5, <2>1
  <2>2. CASE t # s
    BY <1>3, <1>5, <2>2 DEF Sound, Grounded
  <2> QED BY <2>1, <2>2
<1>6. ASSUME NEW t \in Steps, Ready(E, t)
      PROVE  Carried(E, F, t)
  <2>1. \A r \in Steps : SameArtefact(E, F, r) \/ (r # "mapping" /\ ~Finished(E, r))
    BY <1>1, <1>2, <1>3 DEF SameArtefact
  <2>2. SameArtefact(E, F, "upload_images")
    BY <1>1, <1>3 DEF SameArtefact, Steps
  <2> QED BY <1>6, <2>1, <2>2, CarryUnfinished
<1>7. Sound(F)
  BY <1>3, <1>4, <1>5, <1>6, SoundStep
<1> QED BY <1>1, <1>2, <1>3, <1>7 DEF F

LEMMA JobInHand ==
  ASSUME NEW E, Sound(E), AutoWoken(E), NoBlocker(E, tardif),
         NEW s \in WorkerSteps, E[s].job \in InHand,
         NEW row, RowOK(s, row), row.status \in {"pret", "en_cours", "bloque", "echoue"},
         Live(row) => Ready(E, s),
         row.job = "ecrit" => AsNow(E, row.sources, s),
         row.job = "lu" => AsNow(E, row.lu, s)
  PROVE  /\ Sound([E EXCEPT ![s] = row])
         /\ AutoWoken([E EXCEPT ![s] = row])
         /\ [E EXCEPT ![s] = row][s] = row
         /\ s # "package_final" \/ ~Held(row) \/ (Held(E[s]) /\ (row.probleme => E[s].probleme))
              => NoBlocker([E EXCEPT ![s] = row], TardifIn([E EXCEPT ![s] = row]))
<1> DEFINE F == [E EXCEPT ![s] = row]
<1>1. /\ s \in Steps /\ ~Finished(E, s) /\ s # "upload_images"
      /\ Sound(F) /\ F[s] = row
      /\ \A r \in Steps \ {s} : F[r] = E[r]
  BY InHandSound DEF Settled, WorkerSteps
<1> HIDE DEF F
<1>2. F["upload_images"] = E["upload_images"]
  BY <1>1 DEF Steps
<1>3. AutoWoken(F)
  <2>1. \A r \in Steps : F[r] = E[r] \/ (r = s /\ ~Finished(F, r) /\ F[r].status \in Woken)
    BY <1>1 DEF Finished, Woken
  <2>2. \A r \in {"normalisation", "inspection_images", "previsualisation_csv",
                  "matching_images"} : Finished(F, r) => Finished(E, r)
    BY <2>1 DEF Finished, Steps
  <2>3. \A r \in {"matching_images", "rapports"} : E[r].status \in Woken => F[r].status \in Woken
    BY <2>1 DEF Steps
  <2> QED BY <1>2, <2>2, <2>3, WokenStep DEF Finished
<1>4. ASSUME s # "package_final" \/ ~Held(row) \/ (Held(E[s]) /\ (row.probleme => E[s].probleme))
      PROVE  NoBlocker(F, TardifIn(F))
  <2>1. "package_final" \in Steps
    BY DEF Steps
  <2>2. CASE s = "package_final"
    BY <1>1, <1>2, <1>4, <2>1, <2>2, NoBlockerStep DEF Finished
  <2>3. CASE s # "package_final"
    BY <1>1, <1>2, <2>1, <2>3, NoBlockerStep DEF Finished
  <2> QED BY <2>2, <2>3
<1> QED BY <1>1, <1>3, <1>4 DEF F

LEMMA StartKeeps == ASSUME IInv, NEW s \in WorkerSteps, Start(s) PROVE IInv'
<1> DEFINE row == [etapes[s] EXCEPT !.job = "running", !.status = "en_cours"]
           F == [etapes EXCEPT ![s] = row]
<1>1. /\ s \in Steps /\ etapes \in [Steps -> Row] /\ Sound(etapes)
      /\ etapes[s] \in Row /\ etapes[s].job = "queued" /\ "running" # "lu"
  BY DEF Steps, WorkerSteps, IInv, TypeOK, Start
<1>2. row \in Row /\ row.job = "running" /\ row.status = "en_cours"
  BY <1>1 DEF Row
<1>3. [etapes EXCEPT ![s].job = "running", ![s].status = "en_cours"] = F
  BY <1>1
<1>4. Write(F) /\ incidents' \in Nat
  BY <1>3 DEF Start, IInv, TypeOK, Unbounded
<1> HIDE DEF row
<1>5. ~Live(row) /\ ~Held(row)
  BY <1>2 DEF Live, Settled, Held
<1>6. RowOK(s, row)
  BY <1>2 DEF RowOK
<1>7. Sound(F) /\ AutoWoken(F) /\ NoBlocker(F, TardifIn(F))
  BY <1>1, <1>2, <1>5, <1>6, JobInHand DEF IInv, InHand
<1> QED BY <1>4, <1>7, WriteKeeps, TardifType DEF IInv, Write, Recompute

LEMMA ReadSourcesKeeps == ASSUME IInv, NEW s \in WorkerSteps, ReadSources(s) PROVE IInv'
<1>1. /\ s \in Steps /\ etapes \in [Steps -> Row] /\ Sound(etapes)
      /\ etapes[s] \in Row /\ etapes[s].job = "running" /\ etapes[s].status = "en_cours"
      /\ incidents' \in Nat
  BY DEF Steps, WorkerSteps, IInv, TypeOK, ReadSources, Unbounded, Sound, RowOK, Working
<1>2. CASE MayGoOn(s)
  <2> DEFINE row == [etapes[s] EXCEPT !.job = "lu", !.lu = Snapshot(etapes, s)]
             F == [etapes EXCEPT ![s] = row]
  <2>1. row \in Row /\ row.job = "lu" /\ row.status = "en_cours" /\ row.lu = Snapshot(etapes, s)
        /\ row.probleme = etapes[s].probleme
    BY <1>1, SnapshotType DEF Row
  <2>2. [etapes EXCEPT ![s].job = "lu", ![s].lu = Snapshot(etapes, s)] = F
    BY <1>1
  <2>3. WriteQuietly(F)
    BY <1>2, <2>2 DEF ReadSources
  <2> HIDE DEF row
  <2>4. RowOK(s, row) /\ Ready(etapes, s) /\ AsNow(etapes, row.lu, s)
    BY <1>2, <2>1 DEF RowOK, MayGoOn, CanRead, Ready, AsNow
  <2>5. /\ Sound(F) /\ AutoWoken(F) /\ F[s] = row
        /\ s # "package_final" => NoBlocker(F, TardifIn(F))
    BY <1>1, <2>1, <2>4, JobInHand DEF IInv, InHand, Working
  <2>6. NoBlocker(F, TardifIn(F))
    <3>1. CASE s = "package_final"
      <4>1. \A r \in Steps : ~etapes[r].probleme
        BY <1>2, <3>1 DEF MayGoOn, Problems
      <4>2. \A r \in Steps : ~F[r].probleme
        BY <1>1, <2>1, <4>1
      <4> QED BY <4>2 DEF NoBlocker
    <3> QED BY <2>5, <3>1
  <2> QED BY <1>1, <2>1, <2>3, <2>5, <2>6, WriteQuietlyKeeps DEF IInv
<1>3. CASE ~MayGoOn(s)
  <2> DEFINE row == [etapes[s] EXCEPT !.job = "bloque", !.probleme = TRUE]
             F == [etapes EXCEPT ![s] = row]
  <2>1. row \in Row /\ row.job = "bloque" /\ row.status = "en_cours"
    BY <1>1 DEF Row
  <2>2. [etapes EXCEPT ![s].job = "bloque", ![s].probleme = TRUE] = F
    BY <1>1
  <2>3. WriteQuietly(F)
    BY <1>3, <2>2 DEF ReadSources
  <2> HIDE DEF row
  <2>4. RowOK(s, row) /\ ~Live(row) /\ ~Held(row)
    BY <2>1 DEF RowOK, Live, Settled, Held
  <2>5. Sound(F) /\ AutoWoken(F) /\ F[s] = row /\ NoBlocker(F, TardifIn(F))
    BY <1>1, <2>1, <2>4, JobInHand DEF IInv, InHand, Working
  <2> QED BY <1>1, <2>1, <2>3, <2>5, WriteQuietlyKeeps DEF IInv
<1> QED BY <1>2, <1>3

LEMMA CommitKeeps == ASSUME IInv, NEW s \in WorkerSteps, Commit(s) PROVE IInv'
<1>1. /\ s \in Steps /\ etapes \in [Steps -> Row] /\ Sound(etapes)
      /\ etapes[s] \in Row /\ etapes[s].job = "lu" /\ etapes[s].status = "en_cours"
      /\ incidents' \in Nat
  BY DEF Steps, WorkerSteps, IInv, TypeOK, Commit, Unbounded, Sound, RowOK, Working
<1>2. Ready(etapes, s) /\ AsNow(etapes, etapes[s].lu, s)
  BY <1>1 DEF Sound, Grounded, Live
<1>3. Fresh(etapes, s) \in Versions \ {0}
  BY <1>1, FreshIsFree
<1>4. CASE WriteQuietly(Committed(s))
  <2> DEFINE row == [etapes[s] EXCEPT !.artefact = Fresh(etapes, s), !.sources = etapes[s].lu,
                                      !.lu = NoSources, !.probleme = FALSE, !.job = "ecrit"]
             F == [etapes EXCEPT ![s] = row]
  <2>1. /\ row \in Row /\ row.job = "ecrit" /\ row.status = "en_cours"
        /\ row.artefact # 0 /\ row.sources = etapes[s].lu /\ ~row.probleme
    BY <1>1, <1>3, VersionsType DEF Row
  <2>2. Committed(s) = F
    BY <1>1 DEF Committed
  <2>3. WriteQuietly(F)
    BY <1>4, <2>2
  <2> HIDE DEF row
  <2>4. RowOK(s, row)
    BY <2>1 DEF RowOK
  <2>5. Sound(F) /\ AutoWoken(F) /\ F[s] = row /\ NoBlocker(F, TardifIn(F))
    BY <1>1, <1>2, <2>1, <2>4, JobInHand DEF IInv, InHand, Working, Held
  <2> QED BY <1>1, <2>1, <2>3, <2>5, WriteQuietlyKeeps DEF IInv
<1>5. ASSUME NEW row \in Row, row.job = "bloque", row.status = "en_cours",
             WriteQuietly([etapes EXCEPT ![s] = row])
      PROVE  IInv'
  <2> DEFINE F == [etapes EXCEPT ![s] = row]
  <2>1. RowOK(s, row) /\ ~Live(row) /\ ~Held(row)
    BY <1>5 DEF RowOK, Live, Settled, Held
  <2>2. Sound(F) /\ AutoWoken(F) /\ F[s] = row /\ NoBlocker(F, TardifIn(F))
    BY <1>1, <1>5, <2>1, JobInHand DEF IInv, InHand, Working
  <2> QED BY <1>1, <1>5, <2>2, WriteQuietlyKeeps DEF IInv
<1>6. CASE WriteQuietly([Committed(s) EXCEPT ![s].job = "bloque", ![s].probleme = TRUE])
  <2> DEFINE row == [etapes[s] EXCEPT !.artefact = Fresh(etapes, s), !.sources = etapes[s].lu,
                                      !.lu = NoSources, !.probleme = TRUE, !.job = "bloque"]
  <2>1. row \in Row /\ row.job = "bloque" /\ row.status = "en_cours"
    BY <1>1, <1>3, VersionsType DEF Row
  <2>2. [Committed(s) EXCEPT ![s].job = "bloque", ![s].probleme = TRUE] = [etapes EXCEPT ![s] = row]
    BY <1>1, ZenonT(60) DEF Committed
  <2> HIDE DEF row
  <2> QED BY <1>5, <1>6, <2>1, <2>2
<1>7. CASE WriteQuietly([etapes EXCEPT ![s].lu = NoSources, ![s].job = "bloque",
                                       ![s].probleme = TRUE])
  <2> DEFINE row == [etapes[s] EXCEPT !.lu = NoSources, !.job = "bloque", !.probleme = TRUE]
  <2>1. row \in Row /\ row.job = "bloque" /\ row.status = "en_cours"
    BY <1>1, VersionsType DEF Row
  <2>2. [etapes EXCEPT ![s].lu = NoSources, ![s].job = "bloque", ![s].probleme = TRUE]
          = [etapes EXCEPT ![s] = row]
    BY <1>1
  <2> HIDE DEF row
  <2> QED BY <1>5, <1>7, <2>1, <2>2
<1> QED BY <1>4, <1>6, <1>7 DEF Commit

LEMMA FinishBlockedKeeps == ASSUME IInv, NEW s \in WorkerSteps, FinishBlocked(s) PROVE IInv'
<1> DEFINE row == [etapes[s] EXCEPT !.job = "aucun", !.status = "bloque"]
           F == [etapes EXCEPT ![s] = row]
<1>1. /\ s \in Steps /\ etapes \in [Steps -> Row] /\ Sound(etapes)
      /\ etapes[s] \in Row /\ etapes[s].job = "bloque"
  BY DEF Steps, WorkerSteps, IInv, TypeOK, FinishBlocked
<1>2. row \in Row /\ row.job = "aucun" /\ row.status = "bloque"
  BY <1>1 DEF Row
<1>3. [etapes EXCEPT ![s].job = "aucun", ![s].status = "bloque"] = F
  BY <1>1
<1>4. Write(F) /\ incidents' \in Nat
  BY <1>3 DEF FinishBlocked, IInv, TypeOK, Unbounded
<1> HIDE DEF row
<1>5. RowOK(s, row) /\ ~Live(row) /\ ~Held(row)
  BY <1>2, RestingRow, <1>1 DEF Live, Settled, Held
<1>6. Sound(F) /\ AutoWoken(F) /\ NoBlocker(F, TardifIn(F))
  BY <1>1, <1>2, <1>5, JobInHand DEF IInv, InHand, Working
<1> QED BY <1>4, <1>6, WriteKeeps, TardifType DEF IInv, Write, Recompute

LEMMA FailKeeps == ASSUME IInv, NEW s \in WorkerSteps, Fail(s) PROVE IInv'
<1> DEFINE row == [etapes[s] EXCEPT !.job = "aucun", !.lu = NoSources,
                                    !.status = "echoue", !.probleme = TRUE]
           F == [etapes EXCEPT ![s] = row]
<1>1. /\ s \in Steps /\ etapes \in [Steps -> Row] /\ Sound(etapes)
      /\ etapes[s] \in Row /\ etapes[s].job \in Working
  BY DEF Steps, WorkerSteps, IInv, TypeOK, Fail
<1>2. row \in Row /\ row.job = "aucun" /\ row.status = "echoue"
  BY <1>1, VersionsType DEF Row
<1>3. [etapes EXCEPT ![s].job = "aucun", ![s].lu = NoSources,
                     ![s].status = "echoue", ![s].probleme = TRUE] = F
  BY <1>1
<1>4. Write(F) /\ incidents' \in Nat
  BY <1>3 DEF Fail, IInv, TypeOK, Incident
<1> HIDE DEF row
<1>5. RowOK(s, row) /\ ~Live(row) /\ ~Held(row)
  BY <1>1, <1>2, RestingRow DEF Live, Settled, Held
<1>6. Sound(F) /\ AutoWoken(F) /\ NoBlocker(F, TardifIn(F))
  BY <1>1, <1>2, <1>5, JobInHand DEF IInv, InHand
<1> QED BY <1>4, <1>6, WriteKeeps, TardifType DEF IInv, Write, Recompute

LEMMA CrashKeeps == ASSUME IInv, NEW s \in WorkerSteps, Crash(s) PROVE IInv'
<1> DEFINE row == [etapes[s] EXCEPT !.job = "queued", !.lu = NoSources]
           F == [etapes EXCEPT ![s] = row]
<1>1. /\ s \in Steps /\ etapes \in [Steps -> Row] /\ Sound(etapes)
      /\ etapes[s] \in Row /\ etapes[s].job \in Working /\ etapes[s].status = "en_cours"
  BY DEF Steps, WorkerSteps, IInv, TypeOK, Crash, Sound, RowOK
<1>2. row \in Row /\ row.job = "queued" /\ row.status = "en_cours"
  BY <1>1, VersionsType DEF Row
<1>3. [etapes EXCEPT ![s].job = "queued", ![s].lu = NoSources] = F
  BY <1>1
<1>4. WriteQuietly(F) /\ incidents' \in Nat
  BY <1>3 DEF Crash, IInv, TypeOK, Incident
<1> HIDE DEF row
<1>5. RowOK(s, row) /\ ~Live(row) /\ ~Held(row)
  BY <1>2 DEF RowOK, Live, Settled, Held, Working
<1>6. Sound(F) /\ AutoWoken(F) /\ F[s] = row /\ NoBlocker(F, TardifIn(F))
  BY <1>1, <1>2, <1>5, JobInHand DEF IInv, InHand
<1> QED BY <1>1, <1>2, <1>4, <1>6, WriteQuietlyKeeps DEF IInv

\* The one write that asks for no lease: it notes a problem of the package and
\* nothing else.
LEMMA EndLateBuildKeeps == ASSUME IInv, EndLateBuild PROVE IInv'
<1> DEFINE P == "package_final"
           row == [etapes[P] EXCEPT !.probleme = TRUE]
           F == [etapes EXCEPT ![P] = row]
<1>1. P \in Steps /\ etapes \in [Steps -> Row] /\ Sound(etapes) /\ tardif = "assemble"
  BY DEF Steps, IInv, TypeOK, EndLateBuild
<1>2. CASE etapes' = etapes /\ tardif' = "non" /\ lot' = lot /\ incidents' = incidents
  <2>1. NoBlocker(etapes, "non")
    BY <1>1 DEF IInv, NoBlocker
  <2>2. LotTellsItsSteps'
    BY <1>1, <1>2 DEF IInv, LotTellsItsSteps, WithoutLateProblem
  <2> QED BY <1>1, <1>2, <2>1, <2>2 DEF IInv, TypeOK
<1>3. CASE /\ etapes' = [etapes EXCEPT ![P].probleme = TRUE] /\ tardif' = "note"
           /\ lot' = lot /\ incidents' \in Nat
  <2>1. /\ row \in Row /\ row.status = etapes[P].status /\ row.job = etapes[P].job
        /\ row.artefact = etapes[P].artefact /\ row.sources = etapes[P].sources
        /\ row.lu = etapes[P].lu
    BY <1>1 DEF Row
  <2>2. etapes' = F
    BY <1>1, <1>3
  <2> HIDE DEF row
  <2>3. /\ F \in [Steps -> Row] /\ F[P] = row
        /\ \A r \in Steps \ {P} : F[r] = etapes[r]
    BY <1>1, <2>1
  <2> HIDE DEF F
  <2>4. \A r \in Steps : /\ SameArtefact(etapes, F, r)
                         /\ F[r].job = etapes[r].job
                         /\ F[r].sources = etapes[r].sources /\ F[r].lu = etapes[r].lu
                         /\ r # P => F[r].probleme = etapes[r].probleme
    BY <2>1, <2>3 DEF SameArtefact
  <2>5. Sound(F)
    <3>1. ASSUME NEW s \in Steps
          PROVE  RowOK(s, F[s])
      BY <1>1, <2>3, <2>4 DEF Sound, RowOK, SameArtefact
    <3>2. ASSUME NEW s \in Steps, Live(F[s])
          PROVE  /\ Ready(etapes, s)
                 /\ Settled(F[s]) => AsNow(etapes, F[s].sources, s)
                 /\ F[s].job = "lu" => AsNow(etapes, F[s].lu, s)
      BY <1>1, <2>4, <3>2 DEF Sound, Grounded, Live, Settled, SameArtefact
    <3>3. ASSUME NEW s \in Steps, Ready(etapes, s)
          PROVE  Carried(etapes, F, s)
      BY <2>4, <3>3, CarryUnfinished DEF Steps
    <3> QED BY <2>3, <3>1, <3>2, <3>3, SoundStep
  <2>6. AutoWoken(F)
    BY <2>4 DEF IInv, AutoWoken, Finished, SameArtefact, Steps
  <2>7. NoBlocker(F, "note")
    <3>1. Held(F[P]) => Held(etapes[P])
      BY <1>1, <2>4 DEF Held, Settled, SameArtefact
    <3>2. Finished(F, "upload_images") => Finished(etapes, "upload_images")
      BY <2>4 DEF Finished, SameArtefact, Steps
    <3> QED BY <2>4, <3>1, <3>2 DEF IInv, NoBlocker
  <2>8. LotTellsItsSteps'
    <3>1. \A s \in Steps : etapes'[s].status = etapes[s].status
      BY <2>2, <2>4 DEF SameArtefact
    <3>2. CASE etapes[P].probleme
      <4>1. etapes' = etapes
        <5>1. row = etapes[P]
          BY <1>1, <3>2 DEF row, Row
        <5> QED BY <1>1, <2>2, <5>1 DEF F
      <4> QED BY <1>1, <1>3, <4>1 DEF IInv, LotTellsItsSteps, WithoutLateProblem
    <3>3. CASE ~etapes[P].probleme
      <4>1. WithoutLateProblem' = etapes
        <5>1. WithoutLateProblem' = [etapes EXCEPT ![P] = [row EXCEPT !.probleme = FALSE]]
          BY <1>1, <1>3, <2>2 DEF WithoutLateProblem, F
        <5>2. [row EXCEPT !.probleme = FALSE] = etapes[P]
          BY <1>1, <3>3 DEF row, Row
        <5> QED BY <1>1, <5>1, <5>2
      <4>2. WithoutLateProblem = etapes
        <5>1. [etapes[P] EXCEPT !.probleme = etapes[P].probleme /\ tardif # "note"] = etapes[P]
          BY <1>1, <3>3 DEF Row
        <5> QED BY <1>1, <5>1 DEF WithoutLateProblem
      <4> QED BY <1>3, <3>1, <4>1, <4>2 DEF IInv, LotTellsItsSteps
    <3> QED BY <3>2, <3>3
  <2> QED BY <1>3, <2>2, <2>5, <2>6, <2>7, <2>8 DEF IInv, TypeOK, Sound
<1> QED BY <1>2, <1>3 DEF EndLateBuild, Incident, Unbounded, IInv, TypeOK

\* What the end of a job queues or hands over has read the step that ends.
LEMMA FollowUps ==
  ASSUME NEW E, NEW s \in WorkerSteps
  PROVE  /\ \A t \in Enqueues(s) \cup AutoAfter(E, s) :
              /\ t \in {"normalisation", "verification_csv", "matching_images", "rapports"}
              /\ t # s /\ s \in Read[t]
              /\ t = "rapports" => s = "matching_images"
         /\ s \in {"normalisation", "inspection_images"}
              /\ Finished(E, "normalisation") /\ Finished(E, "inspection_images")
              => "matching_images" \in AutoAfter(E, s)
         /\ s = "matching_images" /\ Finished(E, s) /\ Finished(E, "previsualisation_csv")
              => "rapports" \in AutoAfter(E, s)
         /\ s = "rapports" => Enqueues(s) \cup AutoAfter(E, s) = {}
         /\ Validates(s) = IF s = "normalisation" THEN {"tri"}
                           ELSE IF s = "rapports" THEN {"package_final"} ELSE {}
<1>1. Validates(s) = IF s = "normalisation" THEN {"tri"}
                     ELSE IF s = "rapports" THEN {"package_final"} ELSE {}
  BY DEF Validates
<1>2. /\ s = "fusion" => Enqueues(s) = {"normalisation"}
      /\ s = "normalisation" => Enqueues(s) = {"verification_csv"}
      /\ s \notin {"fusion", "normalisation"} => Enqueues(s) = {}
  BY DEF Enqueues
<1>3. /\ s \in {"normalisation", "inspection_images"} => AutoAfter(E, s) \subseteq {"matching_images"}
      /\ s = "matching_images" => AutoAfter(E, s) \subseteq {"rapports"}
      /\ s \notin {"normalisation", "inspection_images", "matching_images"} => AutoAfter(E, s) = {}
  BY Children DEF AutoAfter, ReadyAutoSteps, AutoSteps, WorkerSteps
<1>4. /\ Read["normalisation"] = {"fusion"} /\ Read["verification_csv"] = {"normalisation"}
      /\ {"normalisation", "inspection_images"} \subseteq Read["matching_images"]
      /\ "matching_images" \in Read["rapports"]
  BY DEF Read, Steps, ImageSteps
<1>5. /\ Parents["matching_images"] = {"normalisation", "inspection_images"}
      /\ Parents["rapports"] = {"previsualisation_csv", "matching_images"}
  BY Children DEF Parents, Steps
<1>6. /\ s \in {"normalisation", "inspection_images"} => "matching_images" \in DAG[s] \cap AutoSteps
      /\ s = "matching_images" => "rapports" \in DAG[s] \cap AutoSteps
  BY Children DEF AutoSteps
<1>7. s \in {"normalisation", "inspection_images"}
        /\ Finished(E, "normalisation") /\ Finished(E, "inspection_images")
        => "matching_images" \in AutoAfter(E, s)
  BY <1>5, <1>6 DEF AutoAfter, ReadyAutoSteps, ReadyParents
<1>8. s = "matching_images" /\ Finished(E, s) /\ Finished(E, "previsualisation_csv")
        => "rapports" \in AutoAfter(E, s)
  BY <1>5, <1>6 DEF AutoAfter, ReadyAutoSteps, ReadyParents
<1>9. ASSUME NEW t \in Enqueues(s) \cup AutoAfter(E, s)
      PROVE  /\ t \in {"normalisation", "verification_csv", "matching_images", "rapports"}
             /\ t # s /\ s \in Read[t]
             /\ t = "rapports" => s = "matching_images"
  <2>1. CASE s = "fusion"
    BY <1>2, <1>3, <1>4, <2>1
  <2>2. CASE s = "normalisation"
    BY <1>2, <1>3, <1>4, <2>2
  <2>3. CASE s \in {"inspection_images", "matching_images"}
    BY <1>2, <1>3, <1>4, <2>3
  <2>4. CASE s \notin {"fusion", "normalisation", "inspection_images", "matching_images"}
    BY <1>2, <1>3, <2>4
  <2> QED BY <2>1, <2>2, <2>3, <2>4
<1> QED BY <1>1, <1>2, <1>3, <1>7, <1>8, <1>9

LEMMA FinishKeeps == ASSUME IInv, NEW s \in WorkerSteps, Finish(s) PROVE IInv'
<1> DEFINE P == "package_final"
           row == [etapes[s] EXCEPT !.job = "aucun", !.status = "termine"]
           E == [etapes EXCEPT ![s] = row]
           S == Enqueues(s) \cup AutoAfter(E, s)
           V == Validates(s)
           F == AllEnqueued(E, S)
           H == HandedOver(F, V)
<1>1. /\ s \in Steps /\ etapes \in [Steps -> Row] /\ Sound(etapes)
      /\ etapes[s] \in Row /\ etapes[s].job = "ecrit" /\ etapes[s].artefact # 0
      /\ s # "mapping" /\ s # "upload_images" /\ s # "previsualisation_csv" /\ s # "tri"
  BY DEF Steps, WorkerSteps, IInv, TypeOK, Finish, Sound, RowOK
<1>2. /\ row \in Row /\ row.job = "aucun" /\ row.status = "termine"
      /\ row.artefact = etapes[s].artefact /\ row.sources = etapes[s].sources
      /\ row.probleme = etapes[s].probleme
  BY <1>1 DEF Row
<1>3. Write(H) /\ incidents' \in Nat
  <2>1. [etapes EXCEPT ![s].job = "aucun", ![s].status = "termine"] = E
    BY <1>1
  <2> QED BY <2>1 DEF Finish, IInv, TypeOK, Unbounded
<1> HIDE DEF row
<1>4. Ready(etapes, s) /\ AsNow(etapes, etapes[s].sources, s)
  BY <1>1 DEF Sound, Grounded, Live, Settled
<1>5. /\ ~Finished(etapes, s) /\ Sound(E) /\ E[s] = row
      /\ \A r \in Steps \ {s} : E[r] = etapes[r]
  <2>1. RowOK(s, row)
    BY <1>1, <1>2, RestingRow
  <2> QED BY <1>1, <1>2, <1>4, <2>1, InHandSound DEF InHand, Working
<1>6. E \in [Steps -> Row]
  BY <1>5 DEF Sound
<1>7. /\ \A t \in S : /\ t \in {"normalisation", "verification_csv", "matching_images", "rapports"}
                      /\ t # s /\ s \in Read[t]
                      /\ t = "rapports" => s = "matching_images"
      /\ s \in {"normalisation", "inspection_images"}
           /\ Finished(E, "normalisation") /\ Finished(E, "inspection_images")
           => "matching_images" \in S
      /\ s = "matching_images" /\ Finished(E, s) /\ Finished(E, "previsualisation_csv")
           => "rapports" \in S
      /\ s = "rapports" => S = {}
      /\ V = IF s = "normalisation" THEN {"tri"} ELSE IF s = "rapports" THEN {P} ELSE {}
  BY FollowUps
<1>8. S \in SUBSET Steps /\ S \in SUBSET WorkerSteps /\ V \in SUBSET Steps
      /\ V \in SUBSET {"tri", "previsualisation_csv", P} /\ S \cap V = {}
  BY <1>7 DEF Steps, WorkerSteps
<1> HIDE DEF E, S, V
\* Nothing that reads s is finished yet.
<1>9. ASSUME NEW t \in Steps, s \in Needed(etapes, t)
      PROVE  ~Finished(etapes, t)
  BY <1>1, <1>5, <1>9 DEF Sound, Grounded, Live, Settled, Ready, Usable, Finished
<1>10. ASSUME NEW t \in S
       PROVE  ~Finished(E, t)
  <2>1. s \in Needed(etapes, t)
    <3>1. CASE t = "rapports"
      <4>1. Usable(etapes, "upload_images")
        <5>1. s = "matching_images" /\ s \in Steps
          BY <1>1, <1>7, <3>1
        <5>2. Needed(etapes, s) = Read[s] /\ "upload_images" \in Read[s] \ {"mapping"}
          BY <5>1, NeededIsRead DEF Read
        <5> QED BY <1>4, <5>2 DEF Ready
      <4> QED BY <1>7, <1>8, <4>1, NeededIsRead
    <3>2. CASE t # "rapports"
      BY <1>7, <1>8, <3>2, NeededIsRead
    <3> QED BY <3>1, <3>2
  <2> QED BY <1>5, <1>7, <1>8, <1>9, <2>1 DEF Finished
<1>11. Sound(F)
  BY <1>5, <1>8, <1>10, EnqueueKeeps
<1>12. /\ F \in [Steps -> Row]
       /\ \A r \in Steps : \/ F[r] = E[r] /\ (r \notin S \/ E[r].job # "aucun")
                           \/ /\ r \in S /\ F[r].status = "pret" /\ F[r].job = "queued"
                              /\ F[r].probleme = E[r].probleme
  BY <1>6, <1>8, EnqueuedRows
<1> HIDE DEF F
<1>13. F[s] = row /\ Usable(F, s)
  BY <1>1, <1>2, <1>5, <1>7, <1>12 DEF Usable, Finished
<1>14. ASSUME NEW t \in V
       PROVE  Ready(F, t) /\ (~Finished(F, t) \/ t = P)
  <2>1. CASE s = "normalisation"
    <3>1. t = "tri" /\ Read[t] = {s} /\ t \in Steps /\ t \notin S /\ t # s
      BY <1>7, <1>14, <2>1 DEF Read, Steps
    <3>2. Ready(F, t)
      BY <1>13, <3>1, NeededIsRead DEF Ready
    <3>3. ~Finished(etapes, t)
      BY <1>9, <3>1, NeededIsRead
    <3> QED BY <1>5, <1>12, <3>1, <3>2, <3>3 DEF Finished
  <2>2. CASE s = "rapports"
    <3>1. t = P /\ P \in Steps /\ \A r \in Steps \ {s} : F[r] = etapes[r]
      BY <1>5, <1>7, <1>12, <1>14, <2>2 DEF Steps
    <3>2. Usable(F, "upload_images") <=> Usable(etapes, "upload_images")
      BY <1>1, <3>1 DEF Usable, Finished, Steps
    <3>3. ASSUME NEW r \in Needed(F, P) \ {"mapping"}
          PROVE  Usable(F, r)
      <4>1. CASE r = s
        BY <1>13, <4>1
      <4>2. CASE r # s
        <5>1. r \in Needed(etapes, s)
          BY <2>2, <3>2, <4>2 DEF Needed, Read, ExcelSteps, ImageSteps, Steps
        <5>2. Usable(etapes, r) /\ r \in Steps
          BY <1>1, <1>4, <5>1, NeededIsRead, ReadIsAbove DEF Ready
        <5> QED BY <3>1, <4>2, <5>2 DEF Usable, Finished
      <4> QED BY <4>1, <4>2
    <3> QED BY <3>1, <3>3 DEF Ready
  <2> QED BY <1>7, <2>1, <2>2
<1>15. Sound(H)
  BY <1>8, <1>11, <1>14, HandKeeps
<1>16. /\ \A r \in Steps \ V : H[r] = F[r]
       /\ \A r \in V : /\ H[r].status = "action_requise" /\ H[r].probleme = F[r].probleme
                       /\ H[r].job \in {"orphelin", "aucun"}
  BY <1>8, <1>12, HandedRows
<1> HIDE DEF H
<1>17. AutoWoken(H)
  <2>1. \A r \in Steps \ ({s} \cup S \cup V) : H[r] = etapes[r]
    BY <1>5, <1>12, <1>16
  <2>2. \A r \in S : H[r].status \in Woken
    <3>1. \A r \in S : E[r].job # "aucun" => E[r].status \in Woken
      BY <1>5, <1>7, <1>8 DEF Sound, RowOK, Woken, Working, Row
    <3> QED BY <1>8, <1>12, <1>16, <3>1 DEF Woken
  <2>3. H[s].status \in Woken
    BY <1>1, <1>2, <1>7, <1>13, <1>16 DEF Woken
  <2>4. \A r \in Steps \ {s} : Finished(H, r) => Finished(etapes, r)
    BY <1>5, <1>12, <1>16 DEF Finished
  <2>5. ASSUME Finished(H, "normalisation"), Finished(H, "inspection_images")
        PROVE  H["matching_images"].status \in Woken
    <3>1. CASE s \in {"normalisation", "inspection_images"}
      <4>1. Finished(E, "normalisation") /\ Finished(E, "inspection_images")
        BY <1>2, <1>5, <2>4, <2>5, <3>1 DEF Finished, Steps
      <4> QED BY <1>7, <2>2, <3>1, <4>1
    <3>2. CASE s \notin {"normalisation", "inspection_images"}
      <4>1. Finished(etapes, "normalisation") /\ Finished(etapes, "inspection_images")
        BY <2>4, <2>5, <3>2 DEF Steps
      <4>2. etapes["matching_images"].status \in Woken
        BY <4>1 DEF IInv, AutoWoken
      <4>3. "matching_images" \in Steps /\ "matching_images" \notin V
        BY <1>7 DEF Steps
      <4> QED BY <2>1, <2>2, <2>3, <4>2, <4>3
    <3> QED BY <3>1, <3>2
  <2>6. ASSUME Finished(H, "previsualisation_csv"),
               Finished(H, "upload_images") => Finished(H, "matching_images")
        PROVE  H["rapports"].status \in Woken
    <3>1. /\ "previsualisation_csv" \in Steps /\ "upload_images" \in Steps
          /\ "matching_images" \in Steps /\ "rapports" \in Steps \ V
          /\ "upload_images" \notin {s} \cup S \cup V
      BY <1>1, <1>7 DEF Steps
    <3>2. Finished(etapes, "previsualisation_csv")
      BY <1>1, <2>4, <2>6, <3>1
    <3>3. CASE s = "matching_images"
      <4>1. Finished(E, s) /\ Finished(E, "previsualisation_csv")
        BY <1>1, <1>2, <1>5, <3>1, <3>2 DEF Finished
      <4> QED BY <1>7, <2>2, <3>3, <4>1
    <3>4. CASE s # "matching_images"
      <4>1. Finished(etapes, "upload_images") => Finished(etapes, "matching_images")
        BY <2>1, <2>4, <2>6, <3>1, <3>4 DEF Finished
      <4>2. etapes["rapports"].status \in Woken
        BY <3>2, <4>1 DEF IInv, AutoWoken
      <4> QED BY <2>1, <2>2, <2>3, <3>1, <4>2
    <3> QED BY <3>3, <3>4
  <2> QED BY <2>5, <2>6 DEF AutoWoken
<1>18. NoBlocker(H, TardifIn(H))
  <2>1. \A r \in Steps : H[r].probleme = etapes[r].probleme
    BY <1>2, <1>5, <1>12, <1>16
  <2>2. Held(H[P]) => Held(etapes[P])
    <3>1. CASE s = P
      BY <1>1, <3>1 DEF Held, Settled
    <3>2. CASE P \in V
      BY <1>16, <3>2 DEF Held, Settled
    <3>3. CASE s # P /\ P \notin V
      BY <1>5, <1>7, <1>12, <1>16, <3>3 DEF Steps
    <3> QED BY <3>1, <3>2, <3>3
  <2>3. H["upload_images"] = etapes["upload_images"] /\ P \in Steps
    BY <1>1, <1>5, <1>7, <1>12, <1>16 DEF Steps
  <2> QED BY <1>1, <2>1, <2>2, <2>3, NoBlockerStep DEF IInv, Finished
<1> QED BY <1>3, <1>15, <1>17, <1>18, WriteKeeps, TardifType DEF IInv, Write, Recompute

-----------------------------------------------------------------------------
(* The theorems.                                                            *)

LEMMA InitKeeps == ASSUME Init PROVE IInv
<1>1. /\ NewRow.status = "non_demarre" /\ NewRow.job = "aucun" /\ ~NewRow.probleme
      /\ NewRow \in Row
  BY VersionsType DEF NewRow
<1>2. etapes \in [Steps -> Row] /\ \A s \in Steps : etapes[s] = NewRow
  BY <1>1 DEF Init
<1>3. TypeOK
  BY <1>2 DEF Init, TypeOK
<1>4. Sound(etapes)
  BY <1>1, <1>2, RestingRow DEF Sound, Grounded, Live, Settled
<1>5. AutoWoken(etapes)
  BY <1>1, <1>2 DEF AutoWoken, Finished, Steps
<1>6. NoBlocker(etapes, tardif)
  BY <1>1, <1>2 DEF NoBlocker
<1>7. LotTellsItsSteps
  <2>1. {etapes[s].status : s \in Steps} = {"non_demarre"}
    BY <1>1, <1>2 DEF Steps
  <2>2. Problems(etapes) = {}
    BY <1>1, <1>2 DEF Problems
  <2>3. LotStatus(etapes) = "brouillon"
    BY <2>1, <2>2 DEF LotStatus
  <2> QED BY <2>3 DEF LotTellsItsSteps, Init
<1> QED BY <1>3, <1>4, <1>5, <1>6, <1>7 DEF IInv

LEMMA NextKeeps == ASSUME IInv, Next PROVE IInv'
<1>1. CASE User
  BY <1>1, UploadExcelKeeps, UploadImagesKeeps, SaveMappingDraftKeeps, ValidateMappingKeeps,
     RefuseMappingKeeps, ValidateSortKeeps, ValidatePreviewKeeps, ResolveImagesKeeps,
     RequestPackageKeeps, RetryKeeps DEF User
<1>2. CASE EndLateBuild
  BY <1>2, EndLateBuildKeeps
<1>3. ASSUME NEW s \in WorkerSteps, Job(s)
      PROVE  IInv'
  BY <1>3, StartKeeps, ReadSourcesKeeps, CommitKeeps, FinishKeeps, FinishBlockedKeeps,
     FailKeeps, CrashKeeps DEF Job
<1> QED BY <1>1, <1>2, <1>3 DEF Next

\* The inductive invariant holds in every state: each live step is grounded in
\* what its sources are now, whatever the user, the worker and the late build
\* did in between.
THEOREM WorkflowInvariance == Spec => []IInv
<1>1. Init => IInv
  BY InitKeeps
<1>2. IInv /\ [Next]_vars => IInv'
  <2>1. ASSUME IInv, UNCHANGED vars
        PROVE  IInv'
    BY <2>1 DEF vars, IInv, TypeOK, LotTellsItsSteps, WithoutLateProblem
  <2> QED BY <2>1, NextKeeps
<1> QED BY <1>1, <1>2, PTL DEF Spec

\* The rows, the lot and the late build are of their types: no decision, job or
\* late build leaves a row of the steps table out of its columns' values.
THEOREM TypeCorrectness == Spec => []TypeOK
<1>1. IInv => TypeOK
  BY DEF IInv
<1> QED BY <1>1, WorkflowInvariance, PTL

\* A finished step was made from the artefacts its sources have now, however
\* many uploads, decisions, retries and lapsed leases came in between: the
\* change of a source and the invalidation below it are one transaction, and a
\* job that read before it is refused.
THEOREM FinishedStepsAreCurrent == Spec => []FinishedStepUsedWhatIsCurrent
<1>1. IInv => FinishedStepUsedWhatIsCurrent
  BY DEF IInv, Sound, Grounded, Settled, AsNow, FinishedStepUsedWhatIsCurrent, Finished
<1> QED BY <1>1, WorkflowInvariance, PTL

\* The status of the lot is that of its steps and problems whenever no job is
\* being worked on, the problem of a late build of the package apart.
THEOREM LotStatusIsThatOfItsSteps == Spec => []LotTellsItsSteps
<1>1. IInv => LotTellsItsSteps
  BY DEF IInv
<1> QED BY <1>1, WorkflowInvariance, PTL

\* No wake-up of an automatic step is lost, in whatever order its parents end:
\* the images inspected before or after the normalisation, the preview decided
\* before or after the matching.
THEOREM NoWakeUpIsLost == Spec => []ReadyStepsAreQueued
<1>1. IInv => ReadyStepsAreQueued
  BY DEF IInv, AutoWoken, ReadyStepsAreQueued, Woken
<1> QED BY <1>1, WorkflowInvariance, PTL

\* What is offered to the user can be done: the sources of a step that waits
\* for a decision are finished and have their artefacts.
THEOREM WaitingStepsHaveTheirSources == Spec => []WaitingStepsAreReady
<1>1. IInv => WaitingStepsAreReady
  BY DEF IInv, Sound, Grounded, Live, Ready, WaitingStepsAreReady
<1> QED BY <1>1, WorkflowInvariance, PTL

\* A finished package stands beside no blocker of a step it was made from: a
\* problem opened after the package job looked at them belongs to a step the
\* package does not rest on, or takes the package away with it.
THEOREM PackagesHaveNoBlocker == Spec => []PackageHasNoBlocker
<1>1. ASSUME IInv, Finished(etapes, "package_final")
      PROVE  Problems(WithoutLateProblem) \cap Involved \subseteq {"mapping"}
  <2> DEFINE P == "package_final"
  <2>1. /\ etapes \in [Steps -> Row] /\ P \in Steps /\ Held(etapes[P])
        /\ NoBlocker(etapes, tardif)
    BY <1>1 DEF IInv, TypeOK, Steps, Held, Settled, Finished
  <2>2. ASSUME NEW s \in Involved \ {"mapping"}, WithoutLateProblem[s].probleme
        PROVE  FALSE
    <3>1. s \in Steps /\ (s \in ImageSteps => Finished(etapes, "upload_images"))
      BY <2>2 DEF Involved
    <3>2. CASE s = P
      <4>1. etapes[P].probleme /\ tardif # "note"
        BY <2>1, <2>2, <3>2 DEF WithoutLateProblem, Row
      <4> QED BY <2>1, <3>1, <3>2, <4>1 DEF NoBlocker
    <3>3. CASE s # P
      <4>1. etapes[s].probleme
        BY <2>1, <2>2, <3>1, <3>3 DEF WithoutLateProblem
      <4> QED BY <2>1, <2>2, <3>1, <3>3, <4>1 DEF NoBlocker
    <3> QED BY <3>2, <3>3
  <2> QED BY <2>2 DEF Problems
<1>2. IInv => PackageHasNoBlocker
  BY <1>1 DEF PackageHasNoBlocker
<1> QED BY <1>2, WorkflowInvariance, PTL

\* The graph of the 13 steps is one the queue can run: what DagAssumption of
\* JobQueue asks of its parameters, with Downstream, the steps a handler reads
\* (V1_INVALIDATION_DAG), and those the end of a job queues or hands over.
THEOREM GraphSuitsTheQueue ==
  \A s \in Steps :
    LET queued == Enqueues(s) \cup (DAG[s] \cap AutoSteps) IN
      /\ queued \cup Validates(s) \cup Downstream[s] \cup Read[s] \subseteq Steps
      /\ s \notin Downstream[s] \cup queued \cup Validates(s)
      /\ queued \cap Validates(s) = {}
      /\ \A r \in Read[s] : {s} \cup Downstream[s] \subseteq Downstream[r]
<1> SUFFICES ASSUME NEW s \in Steps
             PROVE  LET queued == Enqueues(s) \cup (DAG[s] \cap AutoSteps) IN
                      /\ queued \cup Validates(s) \cup Downstream[s] \cup Read[s] \subseteq Steps
                      /\ s \notin Downstream[s] \cup queued \cup Validates(s)
                      /\ queued \cap Validates(s) = {}
                      /\ \A r \in Read[s] : {s} \cup Downstream[s] \subseteq Downstream[r]
  OBVIOUS
<1> DEFINE queued == Enqueues(s) \cup (DAG[s] \cap AutoSteps)
<1>1. /\ queued \in SUBSET Steps /\ Validates(s) \in SUBSET Steps
      /\ s \notin queued \cup Validates(s) /\ queued \cap Validates(s) = {}
  <2>1. CASE s \in {"fusion", "normalisation", "rapports"}
    BY <2>1, Children DEF Enqueues, Validates, AutoSteps, Steps
  <2>2. CASE s \notin {"fusion", "normalisation", "rapports"}
    <3>1. Enqueues(s) = {} /\ Validates(s) = {}
      BY <2>2 DEF Enqueues, Validates
    <3>2. s \notin DAG[s] \cap AutoSteps
      BY Children DEF AutoSteps
    <3> QED BY <3>1, <3>2 DEF AutoSteps, Steps
  <2> QED BY <2>1, <2>2
<1>2. s \notin Downstream[s]
  BY DownstreamRank, RankGrows
<1>3. \A r \in Read[s] : {s} \cup Downstream[s] \subseteq Downstream[r]
  BY ReadIsAbove, DownstreamTransitive
<1> QED BY <1>1, <1>2, <1>3, DownstreamType, ReadIsAbove
=============================================================================
