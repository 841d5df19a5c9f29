------------------------------- MODULE Pipeline -------------------------------
(***************************************************************************)
(* The step graph of a lot, V1_INVALIDATION_DAG, and the pure operators    *)
(* of pipeline.py: what a change invalidates and which steps become ready. *)
(* A table E maps each step to a row with at least a field status; the     *)
(* statuses "termine" and "termine_avec_alertes" are one.  Four keys of    *)
(* the code are shortened: fusion, normalisation, tri, verification_csv.   *)
(***************************************************************************)
EXTENDS Naturals, FiniteSets

Steps ==
  {"upload_excel", "diagnostic_excel", "mapping", "fusion", "normalisation",
   "tri", "verification_csv", "previsualisation_csv", "upload_images",
   "inspection_images", "matching_images", "rapports", "package_final"}
External == {"purge_retention"}

DAG ==
  [s \in Steps \cup External |->
    CASE s = "upload_excel" -> {"diagnostic_excel"}
      [] s = "diagnostic_excel" -> {"mapping"}
      [] s = "mapping" -> {"fusion"}
      [] s = "fusion" -> {"normalisation"}
      [] s = "normalisation" -> {"tri", "verification_csv", "matching_images"}
      [] s = "tri" -> {"previsualisation_csv"}
      [] s = "verification_csv" -> {"previsualisation_csv"}
      [] s = "previsualisation_csv" -> {"rapports", "package_final"}
      [] s = "upload_images" -> {"inspection_images"}
      [] s = "inspection_images" -> {"matching_images"}
      [] s = "matching_images" ->
           {"previsualisation_csv", "rapports", "package_final"}
      [] s = "rapports" -> {"package_final"}
      [] s = "package_final" -> {"purge_retention"}
      [] OTHER -> {}]

WorkerSteps ==
  {"diagnostic_excel", "fusion", "normalisation", "verification_csv",
   "inspection_images", "matching_images", "rapports", "package_final"}
AutoSteps == {"matching_images", "rapports"}

-----------------------------------------------------------------------------
\* What the loop over `pending` visits: the least set with the children of s and
\* those of each of its members.
Closed == {S \in SUBSET (Steps \cup External) : \A r \in S : DAG[r] \subseteq S}
Visited ==
  [s \in Steps |->
    {r \in Steps \cup External : \A S \in Closed : DAG[s] \subseteq S => r \in S}]

\* Mutant: only the direct children of a step are invalidated with it.
DownstreamOneLevel == [s \in Steps |-> DAG[s] \ External]
Downstream == [s \in Steps |-> Visited[s] \ External]

Parents == [s \in Steps |-> {r \in Steps : s \in DAG[r]}]

Finished(E, s) == E[s].status = "termine"

\* rapports does without the matching as long as no images were uploaded.
ReadyParents(E, s) ==
  IF s = "rapports" /\ ~Finished(E, "upload_images")
  THEN Parents[s] \ {"matching_images"}
  ELSE Parents[s]

ReadyAutoSteps(E, source) ==
  {s \in DAG[source] \cap AutoSteps : \A r \in ReadyParents(E, s) : Finished(E, r)}
=============================================================================
