------------------------------ MODULE Delivery ------------------------------
(***************************************************************************)
(* What leaves the application: the validated CSV (csv_preview.py), the    *)
(* reports (reports.py) and the package (package.py), each made from       *)
(* products that others may have replaced, or whose file may be lost,      *)
(* since.  The CSV may be validated before, while or after the images are  *)
(* matched; the root of its paths is that of the lot or, when it has none, *)
(* of the configuration, which a restart may change.                       *)
(*                                                                         *)
(* Images gives the table, the archive and their matching.  A table stands *)
(* for the sorted and verified content, as the preview requires it; when   *)
(* each step runs and what a failure leaves behind is Workflow's.          *)
(***************************************************************************)
EXTENDS Images

CONSTANTS
    Roots,        \* the roots of image paths that are given; "" is none
    MaxRestarts   \* bound: changes of the configured root

ASSUME DeliveryAssumption ==
    /\ MaxRestarts \in Nat /\ "" \notin Roots
    \* the merge keeps no row without an identifier
    /\ \A t \in Tables : t \in Seq(Range(t)) /\ \A i \in DOMAIN t : t[i].id # ""

VARIABLES
    settingsRoot, \* settings.indesign_image_root
    lotRoot,      \* lots.pathimg_root
    source,       \* the archive's row and file: present, lost, obsolete
    csv,          \* the validated preview and its file, or None
    reports,      \* the counts of the reports, or None
    request,      \* the package the user asked for, or None
    package,      \* the package, or None
    restarts

products == <<csv, reports, request, package>>
roots == <<settingsRoot, lotRoot, restarts>>
vars == <<imageVars, roots, source, products>>

-----------------------------------------------------------------------------
(* The CSV.                                                                 *)

EffectiveRoot(root) == IF root # "" THEN root ELSE settingsRoot

PathImg(root, name) == <<root, name>>

\* mutant: the line names the image only when there is one, as the documents
\* say of its path
ImageIdIfMatched(row) ==
    IF matching # None /\ \E b \in Range(matching.bindings) : b.id = row.id /\ b.status = "matched"
    THEN ImageId[row.id] ELSE ""

\* the name the matching gives, or the one it would give
ImageIdOf(row) ==
    LET bound == IF matching = None THEN {}
                 ELSE {b \in Range(matching.bindings) : b.id = row.id}
    IN IF bound # {} THEN (CHOOSE b \in bound : TRUE).final ELSE ImageId[row.id]

Line(row, root) ==
    [id |-> row.id, imageid |-> ImageIdOf(row), path |-> PathImg(root, ImageIdOf(row))]

NoBlocker ==
    /\ inspection # None => inspection.blockers = {}
    /\ matching # None => ~Blocking(matching.bindings)

Preview(root) ==
    [root |-> EffectiveRoot(root), matching |-> matching,
     lines |-> [i \in DOMAIN table |-> Line(table[i], EffectiveRoot(root))]]

\* what a new input of the images, the table or the sort invalidates
Gone == csv' = None /\ reports' = None /\ request' = None /\ package' = None

\* The root of the lot changes with the validation; an archive that is not
\* inspected or matched yet does not hold it back.
ValidatePreview(root) ==
    /\ table # None /\ NoBlocker
    /\ lotRoot' = root
    /\ csv' = Preview(root)
    /\ reports' = None /\ request' = None /\ package' = None
    /\ UNCHANGED <<imageVars, settingsRoot, restarts, source>>

\* mutant: a validated preview is exported whatever changed since
ExportableOnceValidated == csv # None /\ NoBlocker

\* get_csv_export_payload: the fingerprint is that of the current inputs
Exportable ==
    /\ csv # None /\ NoBlocker
    /\ csv.root = EffectiveRoot(lotRoot) /\ csv.matching = matching

-----------------------------------------------------------------------------
(* The reports.  They go by the rows of the artefacts, the package by their *)
(* files.                                                                   *)

ArchiveCommitted == archive # None /\ source # "obsolete"
ArchiveReadable == archive # None /\ source = "present"

OfStatus(status) == Cardinality({i \in DOMAIN matching.bindings : matching.bindings[i].status = status})

\* mutant: every dossier without a processed image counts as missing
IntegrityByRows(withImages) ==
    [ids |-> Cardinality(KnownIds), lines |-> Len(csv.lines),
     present |-> IF withImages THEN Cardinality(matching.images) ELSE 0,
     missing |-> IF withImages THEN Cardinality(DOMAIN matching.bindings) - Cardinality(matching.images) ELSE 0,
     ignored |-> IF withImages THEN Cardinality(matching.unreferenced) ELSE 0,
     withImages |-> withImages]

Integrity(withImages) ==
    [ids |-> Cardinality(KnownIds), lines |-> Len(csv.lines),
     present |-> IF withImages THEN Cardinality(matching.images) ELSE 0,
     missing |-> IF withImages THEN OfStatus("missing") ELSE 0,
     ignored |-> IF withImages THEN Cardinality(matching.unreferenced) ELSE 0,
     withImages |-> withImages]

\* rapports waits for the matching as soon as an archive was deposited
GenerateReports ==
    /\ csv # None /\ reports = None
    /\ archive # None => matching # None /\ ~Blocking(matching.bindings)
    /\ reports' = Integrity(ArchiveCommitted)
    /\ UNCHANGED <<imageVars, roots, source, csv, request, package>>

-----------------------------------------------------------------------------
(* The package.                                                             *)

\* _require_csv_path_root, under the root the CSV was validated with
PathsUnderRoot == \A line \in Range(csv.lines) : line.path[1] = csv.root

SourcesReady ==
    /\ csv # None /\ reports # None /\ PathsUnderRoot
    /\ ArchiveReadable => matching # None /\ ~Blocking(matching.bindings)

\* mutant: only what the matching calls a warning
MatchingWarns == matching # None /\ HasWarnings(matching)

ImageWarnings == ~ArchiveReadable \/ HasWarnings(matching)

\* open_for_read marks the row of a lost file in the transaction that reads
SourceRead == source' = IF source = "lost" THEN "obsolete" ELSE source

RequestPackage(acceptWarnings) ==
    /\ NoBlocker /\ SourcesReady
    /\ ImageWarnings => acceptWarnings
    /\ request' = [accepted |-> acceptWarnings] /\ package' = None
    /\ SourceRead
    /\ UNCHANGED <<imageVars, roots, csv, reports>>

\* The job reads its sources again; it does not ask again about warnings.
BuildPackage ==
    /\ request # None /\ package = None
    /\ NoBlocker /\ SourcesReady
    /\ package' = [alerts |-> ImageWarnings,
                   images |-> IF ArchiveReadable THEN matching.images ELSE {},
                   sources |-> {"csv_final", "mapping", "business_report", "technical_report"}
                               \cup IF ArchiveReadable THEN {"matching", "processed_images"} ELSE {}]
    /\ SourceRead
    /\ UNCHANGED <<imageVars, roots, csv, reports, request>>

-----------------------------------------------------------------------------
(* The images and the table, and what their changes take away.              *)

DeliveryInit ==
    /\ Init
    /\ settingsRoot \in Roots /\ lotRoot = "" /\ restarts = 0
    /\ source = "present"
    /\ csv = None /\ reports = None /\ request = None /\ package = None

NewArchive ==
    /\ \E a \in Archives : Deposit(a)
    /\ Gone /\ source' = "present" /\ UNCHANGED roots

InspectArchive == Inspect /\ UNCHANGED <<roots, source, products>>

NewTable ==
    /\ \E t \in Tables : Normalize(t)
    /\ Gone /\ UNCHANGED <<roots, source>>

NewSort == table # None /\ Gone /\ UNCHANGED <<imageVars, roots, source>>

MatchImages == ArchiveReadable /\ Match /\ UNCHANGED <<roots, source, products>>

ResolveImages ==
    /\ table # None /\ Inspected
    /\ \E s \in Submissions : Resolve(s)
    /\ Gone /\ UNCHANGED <<roots, source>>

\* the data directory loses the archive after it was matched
LoseArchive ==
    /\ matching # None /\ source = "present" /\ source' = "lost"
    /\ UNCHANGED <<imageVars, roots, products>>

\* the application restarts under another configured root
Restart(root) ==
    /\ root # settingsRoot /\ settingsRoot' = root
    /\ restarts < MaxRestarts /\ restarts' = restarts + 1
    /\ UNCHANGED <<imageVars, lotRoot, source, products>>

DeliveryNext ==
    \/ NewArchive \/ InspectArchive \/ NewTable \/ NewSort \/ MatchImages \/ ResolveImages
    \/ \E root \in Roots \cup {""} : ValidatePreview(root)
    \/ GenerateReports
    \/ \E accept \in BOOLEAN : RequestPackage(accept)
    \/ BuildPackage
    \/ LoseArchive
    \/ \E root \in Roots : Restart(root)

DeliverySpec == DeliveryInit /\ [][DeliveryNext]_vars

-----------------------------------------------------------------------------
(* Properties.                                                              *)

\* Every image of the package is named by the line of its dossier, under the
\* root the CSV was validated with, even when the CSV was validated before the
\* images were matched or the configured root changed since.
PackagedImagesAreNamed ==
    package # None =>
        \A f \in package.images : \E i \in DOMAIN csv.lines :
            /\ csv.lines[i].path = PathImg(csv.root, f.name)
            /\ \E b \in Range(matching.bindings) :
                  b.id = csv.lines[i].id /\ b.status = "matched" /\ b.source = f.from

\* The CSV that can be exported is the one a validation would make now, line by
\* line: neither the root, the images nor the table moved under it.
ExportedCsvIsCurrent == Exportable => csv = Preview(lotRoot)

\* The reports in the package count its lines and images: each dossier is
\* present, missing or failed, and a package that drops the images its reports
\* announce says so by its alerts.
ReportsCountThePackage ==
    package # None =>
        /\ reports.lines = Len(csv.lines)
        /\ reports.withImages =>
              reports.present + reports.missing + OfStatus("conversion_failed") = reports.lines
        /\ reports.present = Cardinality(package.images) \/ (package.alerts /\ package.images = {})

\* A package without alert gives every line of its CSV its image.
AlertlessPackageIsComplete ==
    package # None /\ ~package.alerts =>
        {f.name : f \in package.images} = {csv.lines[i].imageid : i \in DOMAIN csv.lines}
=============================================================================
