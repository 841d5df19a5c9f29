------------------------------- MODULE Table -------------------------------
(***************************************************************************)
(* What becomes of the rows and columns of a deposited workbook, from the  *)
(* diagnosis to the CSV that InDesign reads: mapping.py, transform.py,     *)
(* sorting.py, csv_contract.py and csv_preview.py.                         *)
(*                                                                         *)
(* Workflow models when these steps run, are invalidated and interleave;   *)
(* here one lot advances, each step reads the current product of the one   *)
(* before it, and what counts is the content.  The merge takes one row of  *)
(* the workbook per step.  A user's submission edits one column the code   *)
(* lets a user edit: whether it is exported, its role or its name, or one  *)
(* that is left out loses its name.                                        *)
(***************************************************************************)
EXTENDS Mapping

CONSTANTS
    Workbooks,   \* the workbooks a lot may start from
    Redeposits,  \* those that may replace the current one
    Text,        \* _normalize_text_value: runs of horizontal spaces become one
    DateText,    \* the date a cell reads as, "" if it is none
    Fold,        \* the rank of a cell among the texts _fold_for_sort gives
    Number,      \* the one to three digits a cell starts with, or -1
    Forbidden,   \* the cells that read N/C
    Postal,      \* the headers and names that speak of a postal code
    ImageId,     \* image_id_for_dossier
    PathImg,     \* pathimg_path under the lot's root
    EditedRoles  \* the roles a user gives to a column, in the model

VARIABLES
    workbook,    \* the deposited workbook
    diagnosis,   \* its diagnosis, or None
    mapping,     \* the validated mapping, or None
    draft,       \* the mapping saved without validation, or None
    refused,     \* the errors of the last refused validation
    profile,     \* a saved mapping profile, or None
    merge,       \* the running merge of the rows, or None
    fusion,      \* the merged table, or None
    normal,      \* the table after normalisation, or None
    report,      \* what the contract verification found, or None
    sort,        \* the sort decision and its rows, or None
    csv          \* the validated CSV, or None

products == <<fusion, normal, report, sort, csv>>
vars == <<workbook, diagnosis, mapping, draft, refused, profile, merge, products>>

ASSUME TableAssumption ==
    /\ \A f \in {Text, DateText, ImageId} : DOMAIN f = Cells
    /\ {Text[c] : c \in Cells} \cup {DateText[c] : c \in Cells} \subseteq Cells
    /\ Fold \in [Cells -> Int] /\ Number \in [Cells -> Int]
    /\ Redeposits \subseteq Workbooks
    /\ EditedRoles \subseteq Roles
    /\ \A c \in Cells : (Ident[c] = "") <=> (Canon[c] = "")
    \* what is left of an identifier, and the names made of it, say something
    /\ \A c \in Cells : Ident[c] # "" => Text[Ident[c]] # ""
    /\ \A c \in Cells : {ImageId[c], PathImg[ImageId[c]]} \cap ({""} \cup Forbidden) = {}

\* what is read of a deposited file: sheets that have names of their own, each
\* a rectangle of cells
ASSUME WorkbookAssumption ==
    \A w \in Workbooks :
        /\ w \in Seq([name : STRING, shown : BOOLEAN, hiddenColumns : BOOLEAN, merged : BOOLEAN,
                     rows : Seq([hidden : STRING, cells : Seq(Cells)])])
        /\ \A k \in DOMAIN w : \A n \in DOMAIN w[k].rows :
              Len(w[k].rows[n].cells) = Width(w[k])
        /\ \A j, k \in DOMAIN w : w[j].name = w[k].name => j = k

None == [none |-> TRUE]
Placeholder == "#N/A"

SensitiveRoles == {"id_dossier", "siret", "telephone", "code_postal",
                   "departement", "code_administratif"}

(* Bounds.  A mapping submitted after the merge starts the same table anew: *)
(* Workflow models that what it makes obsolete goes away.  A lot whose      *)
(* profile is saved keeps its mapping until another workbook replaces its   *)
(* own, and only then is it replaced; it is saved before the merge, which   *)
(* does not change it.                                                      *)
SubmissionBound == fusion = None /\ (profile # None => mapping = None)
ProfileBound == merge = None /\ fusion = None
DepositBound == profile # None

-----------------------------------------------------------------------------
(* Deposit and diagnosis.  A deposit makes everything computed from the     *)
(* previous workbook obsolete; profiles are kept apart from the lots.       *)

DownstreamGone ==
    /\ merge' = None /\ fusion' = None /\ normal' = None
    /\ report' = None /\ sort' = None /\ csv' = None

Init ==
    /\ workbook \in Workbooks
    /\ diagnosis = None /\ mapping = None /\ draft = None /\ refused = {}
    /\ profile = None /\ merge = None /\ fusion = None /\ normal = None
    /\ report = None /\ sort = None /\ csv = None

Deposit(w) ==
    /\ merge = None /\ DepositBound
    /\ workbook' = w
    /\ diagnosis' = None /\ mapping' = None /\ draft' = None /\ refused' = {}
    /\ DownstreamGone
    /\ UNCHANGED profile

Diagnose ==
    /\ diagnosis = None
    /\ diagnosis' = DiagnoseWorkbook(workbook)
    /\ UNCHANGED <<workbook, mapping, draft, refused, profile, merge, products>>

-----------------------------------------------------------------------------
(* Mapping.  The default mapping is worked out anew at every request.       *)

MappingReady == diagnosis # None /\ diagnosis.importable /\ merge = None

Default == DefaultMapping(diagnosis)

Edits(column) ==
    LET same == [exported |-> column.exported, role |-> column.role, name |-> column.name]
        Typed(bodies) == {<<column.pos, b>> : b \in bodies}
    IN {[same EXCEPT !.exported = ~column.exported]}
       \cup {[same EXCEPT !.role = r] : r \in EditedRoles}
       \cup {[same EXCEPT !.name = n] : n \in Typed(UserBodies \cup {""})}
       \cup {[same EXCEPT !.exported = FALSE, !.name = n] :
                n \in Typed({b \in UserBodies : CleanBody[b] = ""})}

Submissions(default) ==
    LET kept == ChoicesOf(default)
        edited == UNION {{[kept EXCEPT ![c.id] = e] : e \in Edits(c)} :
                         c \in {x \in Range(default.columns) : ~x.system /\ x.role # "id_dossier"}}
    IN {[structure |-> default.structure, choices |-> k] : k \in edited \cup {kept}}

SaveDraft(default, submission, source) ==
    /\ Acceptable(default, submission)
    /\ draft' = [source |-> source, mapping |-> FromSubmission(default, submission)]
    /\ mapping' = None  \* the artifacts of the step become obsolete
    /\ refused' = {}
    /\ UNCHANGED <<workbook, diagnosis, profile, merge, products>>

ValidateMapping(default, submission) ==
    LET submitted == FromSubmission(default, submission)
    IN /\ Acceptable(default, submission)
       /\ ValidationErrors(submitted) = {}
       /\ mapping' = submitted /\ draft' = None /\ refused' = {}
       /\ DownstreamGone
       /\ UNCHANGED <<workbook, diagnosis, profile>>

RefuseMapping(default, submission) ==
    LET errors == ValidationErrors(FromSubmission(default, submission))
    IN /\ Acceptable(default, submission)
       /\ errors # {}
       /\ refused' = errors
       /\ UNCHANGED <<workbook, diagnosis, mapping, draft, profile, merge, products>>

SaveProfile ==
    /\ mapping # None /\ ProfileBound
    /\ profile' = ProfileFrom(mapping)
    /\ UNCHANGED <<workbook, diagnosis, mapping, draft, refused, merge, products>>

ApplyProfile ==
    /\ profile # None /\ MappingReady /\ SubmissionBound
    /\ Compatible(Default, profile)
    /\ SaveDraft(Default, ProfileSubmission(Default, profile), "profile_draft")

-----------------------------------------------------------------------------
(***************************************************************************)
(* The merge (build_flat_merge).  The rows are taken sheet after sheet     *)
(* from below the header.  A row whose hidden attribute is written "1"     *)
(* and a blank row are passed over, a row without identifier is counted,   *)
(* a second row of an identifier in its sheet is an error; any other row   *)
(* takes the next rank and writes the cells of its sheet's exported        *)
(* columns into the row of its identifier.                                 *)
(***************************************************************************)
IdColumn(m, sheet) ==
    LET columns == m.columns
    IN Last(Picked(columns, {i \in DOMAIN columns : columns[i].sheet = sheet
                                                   /\ columns[i].role = "id_dossier"}))

\* mutant: every sheet writes the columns of all
CopiesEverySheet(m, sheet) ==
    LET columns == Exported(m)
    IN Picked(columns, {i \in DOMAIN columns : ~columns[i].system /\ columns[i].role # "id_dossier"})

CopiedColumns(m, sheet) ==
    LET columns == Exported(m)
    IN Picked(columns, {i \in DOMAIN columns : /\ ~columns[i].system /\ columns[i].role # "id_dossier"
                                              /\ columns[i].sheet = sheet})

SheetNamed(name) ==
    workbook[CHOOSE k \in DOMAIN workbook : workbook[k].name = name]

StartMerge ==
    /\ mapping # None /\ merge = None /\ fusion = None
    /\ merge' = [sheet |-> 1, row |-> mapping.sheets[1].header + 1, seen |-> {},
                 rows |-> <<>>, rank |-> 0, sourceRows |-> 0, withoutId |-> 0,
                 duplicates |-> 0]
    /\ UNCHANGED <<workbook, diagnosis, mapping, draft, refused, profile, products>>

EmptyValues == [n \in {c.name : c \in Range(Exported(mapping))} |-> ""]

\* mutant: only the last row is searched, as if the sheets came one inside
\* the other
LastRowOf(rows, id) ==
    IF rows # <<>> /\ Last(rows).id = id THEN Len(rows) ELSE 0

RowOf(rows, id) == SelectInSeq(rows, LAMBDA r : r.id = id)

\* the table after an accepted row: its identifier's row, new or not, with
\* the cells of this sheet's columns written over
WithRow(rows, rank, id, cells, sheet) ==
    LET old == RowOf(rows, id)
        at == IF old = 0 THEN Len(rows) + 1 ELSE old
        base == IF old = 0
                THEN [rank |-> rank, id |-> id,
                      values |-> [EmptyValues EXCEPT ![IdName] = id]]
                ELSE rows[old]
        copied == CopiedColumns(mapping, sheet)
        written == [n \in DOMAIN base.values |->
                      LET from == SelectLastInSeq(copied, LAMBDA c : c.name = n)
                      IN IF from = 0 THEN base.values[n] ELSE cells[copied[from].pos]]
    IN [i \in 1 .. Max({Len(rows), at}) |->
          IF i = at THEN [base EXCEPT !.values = written] ELSE rows[i]]

\* mutant: a row without identifier is taken for a blank one
SkipsUnnamedRows(row) == row.hidden = "1" \/ Ident[row.cells[1]] = ""

\* _hidden_rows_in_sheet_xml knows one spelling of a hidden row
PassedOver(row) == row.hidden = "1" \/ \A c \in Range(row.cells) : Ident[c] = ""

MergeRow ==
    /\ merge # None
    /\ LET sheet == SheetNamed(mapping.sheets[merge.sheet].name)
           row == sheet.rows[merge.row]
           id == Ident[row.cells[IdColumn(mapping, sheet.name).pos]]
           next == [merge EXCEPT !.row = @ + 1]
           counted == [next EXCEPT !.sourceRows = @ + 1]
       IN /\ merge.row \in DOMAIN sheet.rows
          /\ \/ PassedOver(row) /\ merge' = next
             \/ ~PassedOver(row) /\ id = "" /\ merge' = [counted EXCEPT !.withoutId = @ + 1]
             \/ /\ ~PassedOver(row) /\ id # "" /\ id \in merge.seen
                /\ merge' = [counted EXCEPT !.duplicates = @ + 1]
             \/ /\ ~PassedOver(row) /\ id # "" /\ id \notin merge.seen
                /\ merge' = [counted EXCEPT
                      !.seen = @ \cup {id}, !.rank = @ + 1,
                      !.rows = WithRow(@, merge.rank + 1, id, row.cells, sheet.name)]
    /\ UNCHANGED <<workbook, diagnosis, mapping, draft, refused, profile, products>>

SheetIsRead == merge.row > Len(SheetNamed(mapping.sheets[merge.sheet].name).rows)

NextSheet ==
    /\ merge # None /\ SheetIsRead
    /\ merge.sheet < Len(mapping.sheets)
    /\ merge' = [merge EXCEPT !.sheet = @ + 1, !.seen = {},
                              !.row = mapping.sheets[merge.sheet + 1].header + 1]
    /\ UNCHANGED <<workbook, diagnosis, mapping, draft, refused, profile, products>>

\* _remove_empty_columns: the special columns always stay
KeptColumns(columns, rows) ==
    Picked(columns, {j \in DOMAIN columns :
        \/ columns[j].name \in SpecialNames
        \/ \E i \in DOMAIN rows : rows[i].values[columns[j].name] # ""})

\* the table with the columns left, and the number of those taken out so far
TableOf(columns, rows, removed) ==
    LET kept == KeptColumns(columns, rows)
        names == {c.name : c \in Range(kept)}
    IN [columns |-> kept,
        rows |-> [i \in DOMAIN rows |-> [rows[i] EXCEPT !.values = Restrict(@, names)]],
        removed |-> removed + Len(columns) - Len(kept)]

\* duplicates block the step and leave no table
FinishMerge ==
    /\ merge # None /\ SheetIsRead
    /\ merge.sheet = Len(mapping.sheets)
    /\ merge' = None
    /\ fusion' = [blocked |-> merge.duplicates > 0, withoutId |-> merge.withoutId,
                  sourceRows |-> merge.sourceRows,
                  table |-> IF merge.duplicates > 0 THEN None
                            ELSE TableOf(Exported(mapping), merge.rows, 0)]
    /\ UNCHANGED <<workbook, diagnosis, mapping, draft, refused, profile,
                   normal, report, sort, csv>>

-----------------------------------------------------------------------------
(* Normalisation (normalize_flat_merge).                                    *)

NormalValue(cell, role) ==
    IF Ident[cell] = "" THEN ""
    ELSE IF role = "date" THEN DateText[cell]
    ELSE IF role \in SensitiveRoles THEN Text[Ident[cell]]
    ELSE Text[cell]

DateIssue(cell, role) ==
    IF role # "date" THEN "none"
    ELSE IF Ident[cell] = "" THEN "missing"
    ELSE IF DateText[cell] = "" THEN "invalid" ELSE "none"

Normalize ==
    /\ fusion # None /\ ~fusion.blocked /\ normal = None
    /\ LET from == fusion.table
           roleOf == [n \in {c.name : c \in Range(from.columns)} |->
                        (CHOOSE c \in Range(from.columns) : c.name = n).role]
           rows == [i \in DOMAIN from.rows |->
                      LET values == [n \in DOMAIN roleOf |->
                                       NormalValue(from.rows[i].values[n], roleOf[n])]
                      IN [from.rows[i] EXCEPT !.values = values, !.id = values[IdName]]]
           issues(kind) == Cardinality({p \in (DOMAIN rows) \X (DOMAIN roleOf) :
                DateIssue(from.rows[p[1]].values[p[2]], roleOf[p[2]]) = kind})
       IN normal' = [table |-> TableOf(from.columns, rows, from.removed),
                     invalidDates |-> issues("invalid"), missingDates |-> issues("missing")]
    /\ UNCHANGED <<workbook, diagnosis, mapping, draft, refused, profile, merge,
                   fusion, report, sort, csv>>

-----------------------------------------------------------------------------
(* The contract (verify_indesign_csv_bytes): the writer settles encoding,   *)
(* separators and line ends, the content may still break these clauses.     *)

OrPlaceholder(cell) == IF cell = "" THEN Placeholder ELSE cell

Grid(headers, rows) ==
    [i \in DOMAIN rows |-> [j \in DOMAIN headers |-> OrPlaceholder(rows[i].values[headers[j]])]]

Issues(headers, grid) ==
    {e \in {"required_headers", "headers_not_unique", "empty_cell", "forbidden_value"} :
        \/ e = "required_headers" /\ ~IsPrefix(<<IdName, ImageName, PathName>>, headers)
        \/ e = "headers_not_unique" /\ ~IsInjective(headers)
        \/ e = "empty_cell" /\ \E i \in DOMAIN grid : "" \in Range(grid[i])
        \/ e = "forbidden_value" /\ \E i \in DOMAIN grid : Range(grid[i]) \cap Forbidden # {}}

HeadersOf(table) == [j \in DOMAIN table.columns |-> table.columns[j].name]

\* the rows are verified in source order and before the images are named
VerifyContract ==
    /\ normal # None /\ report = None
    /\ report' = [issues |-> Issues(HeadersOf(normal.table),
                                    Grid(HeadersOf(normal.table), normal.table.rows))]
    /\ UNCHANGED <<workbook, diagnosis, mapping, draft, refused, profile, merge,
                   fusion, normal, sort, csv>>

-----------------------------------------------------------------------------
(* The sort (sorting.py).                                                   *)

Decisions == {"tri_region_departement", "ordre_source"}

RegionColumns ==
    LET columns == normal.table.columns
    IN Picked(columns, {j \in DOMAIN columns : columns[j].role = "region"})

DepartmentColumns ==
    LET columns == normal.table.columns
    IN Picked(columns, {j \in DOMAIN columns :
           /\ columns[j].role = "departement"
           /\ {columns[j].header, columns[j].name[2]} \cap Postal = {}})

Detection ==
    IF Len(RegionColumns) = 1 /\ Len(DepartmentColumns) = 1 THEN "detected"
    ELSE IF Len(RegionColumns) > 1 \/ Len(DepartmentColumns) > 1 THEN "ambiguous"
    ELSE "missing"

\* an empty region comes last, an empty department first of those without a
\* number, themselves after those with one
SortKey(row) ==
    LET region == row.values[RegionColumns[1].name]
        department == row.values[DepartmentColumns[1].name]
    IN <<IF region = "" THEN 1 ELSE 0, Fold[region],
         IF Number[department] < 0 THEN 1 ELSE 0,
         IF Number[department] < 0 THEN 0 ELSE Number[department],
         Fold[department], row.rank>>

KeyBefore(a, b) ==
    \E k \in DOMAIN a : a[k] < b[k] /\ \A l \in 1 .. k - 1 : a[l] = b[l]

Before(decision, r, s) ==
    IF decision = "ordre_source" THEN r.rank < s.rank
    ELSE KeyBefore(SortKey(r), SortKey(s))

\* the rows in this order; SetToSortSeq, as a closed form
Ordered(rows, decision) ==
    [i \in 1 .. Cardinality(rows) |->
        CHOOSE r \in rows : Cardinality({s \in rows : Before(decision, s, r)}) = i - 1]

Sort(decision) ==
    /\ normal # None
    /\ decision = "tri_region_departement" => Detection = "detected"
    /\ sort' = [decision |-> decision,
                warning |-> decision = "ordre_source" /\ Detection # "detected",
                rows |-> Ordered(Range(normal.table.rows), decision)]
    /\ csv' = None
    /\ UNCHANGED <<workbook, diagnosis, mapping, draft, refused, profile, merge,
                   fusion, normal, report>>

-----------------------------------------------------------------------------
(* The preview and its validation (csv_preview.py): the images are named    *)
(* after the identifiers when the lot has none of its own, and the content  *)
(* is verified once more.                                                   *)

PreviewRow(row) ==
    [row EXCEPT !.values = [n \in DOMAIN @ |->
        IF n = ImageName /\ row.id # "" THEN ImageId[row.id]
        ELSE IF n = PathName /\ row.id # "" THEN PathImg[ImageId[row.id]]
        ELSE OrPlaceholder(row.values[n])]]

PreviewGrid ==
    LET rows == [i \in DOMAIN sort.rows |-> PreviewRow(sort.rows[i])]
    IN Grid(HeadersOf(normal.table), rows)

\* mutant: the preview opens whatever the verification found
PreviewAnyway == report # None /\ sort # None

PreviewReady == report # None /\ report.issues = {} /\ sort # None

ValidatePreview ==
    /\ PreviewReady /\ csv = None
    /\ Issues(HeadersOf(normal.table), PreviewGrid) = {}
    /\ csv' = [headers |-> HeadersOf(normal.table), grid |-> PreviewGrid]
    /\ UNCHANGED <<workbook, diagnosis, mapping, draft, refused, profile, merge,
                   fusion, normal, report, sort>>

-----------------------------------------------------------------------------
Next ==
    \/ \E w \in Redeposits : Deposit(w)
    \/ Diagnose
    \/ /\ MappingReady /\ SubmissionBound
       /\ \E default \in {Default} : \E s \in Submissions(default) :
             \/ SaveDraft(default, s, "draft")
             \/ ValidateMapping(default, s)
             \/ RefuseMapping(default, s)
    \/ SaveProfile \/ ApplyProfile
    \/ StartMerge \/ MergeRow \/ NextSheet \/ FinishMerge
    \/ Normalize \/ VerifyContract
    \/ \E d \in Decisions : Sort(d)
    \/ ValidatePreview

Spec == Init /\ [][Next]_vars

-----------------------------------------------------------------------------
(* Properties.  They read the workbook itself, not the cursors and counters *)
(* of the actions above.                                                    *)

\* the rows of a sheet the merge should read, and their identifier
SheetRows(k) == VisibleDataRows(SheetNamed(mapping.sheets[k].name), mapping.sheets[k].header)

RowAt(k, n) == SheetNamed(mapping.sheets[k].name).rows[n].cells

IdAt(k, n) == Ident[RowAt(k, n)[IdColumn(mapping, mapping.sheets[k].name).pos]]

SourceRows == UNION {{k} \X SheetRows(k) : k \in DOMAIN mapping.sheets}

Identifiers == {IdAt(r[1], r[2]) : r \in SourceRows} \ {""}

\* what the CSV should say of an identifier in a column
Expected(id, column) ==
    LET sources == {r \in SourceRows : /\ mapping.sheets[r[1]].name = column.sheet
                                       /\ IdAt(r[1], r[2]) = id}
        cell == IF sources = {} THEN ""
                ELSE LET r == CHOOSE x \in sources : TRUE
                     IN RowAt(r[1], r[2])[column.pos]
    IN IF column.name = IdName THEN Text[id]
       ELSE IF column.name = ImageName THEN ImageId[Text[id]]
       ELSE IF column.name = PathName THEN PathImg[ImageId[Text[id]]]
       ELSE NormalValue(cell, column.role)

\* The mapping opens on a diagnosis that says importable, the step is blocked
\* by the problems recorded from it: the two verdicts, worked out from two
\* lists, never disagree (diagnose_sheet against sheet_problems).
DiagnosisTellsItsProblems ==
    diagnosis # None => (diagnosis.importable <=> ~IsBlocked(DiagnosisProblems(diagnosis)))

\* No visible cell of an accepted workbook is out of reach: whatever is not
\* in a header row is below it, in a column the mapping offers.
AcceptedDataIsMapped ==
    diagnosis # None /\ diagnosis.importable =>
        LET offered == ColumnIds(Default)
        IN \A k \in DOMAIN workbook :
              \A n \in DOMAIN workbook[k].rows : ~RowIsHidden(workbook[k].rows[n]) =>
                  \A i \in Present(workbook[k].rows[n]) :
                      /\ n >= diagnosis.sheets[k].header
                      /\ <<workbook[k].name, i>> \in offered

\* While the sheets are merged and after, an identifier has one row, however
\* many sheets it appears in, and the ranks follow the order of the rows.
OneRowPerIdentifier ==
    LET distinct(rows) == \A i, j \in DOMAIN rows : i < j =>
                             rows[i].id # rows[j].id /\ rows[i].rank < rows[j].rank
    IN /\ merge # None => distinct(merge.rows)
       /\ fusion # None /\ ~fusion.blocked => distinct(fusion.table.rows)

\* Every visible row of the workbook is in the merged table under its
\* identifier, or counted as having none; the merge is refused exactly when
\* a sheet gives an identifier twice, and no other row slips in.
EveryRowIsAccountedFor ==
    fusion # None =>
        LET rows == SourceRows
            id == [r \in rows |-> IdAt(r[1], r[2])]
        IN /\ fusion.sourceRows = Cardinality(rows)
           /\ fusion.withoutId = Cardinality({r \in rows : id[r] = ""})
           /\ fusion.blocked <=> \E r, s \in rows :
                 r # s /\ r[1] = s[1] /\ id[r] # "" /\ id[r] = id[s]
           /\ ~fusion.blocked =>
                 {fusion.table.rows[i].id : i \in DOMAIN fusion.table.rows} = Range(id) \ {""}

\* The validated CSV says what the workbook says: a line per identifier, in
\* each column the normalised cell of the identifier's row in the column's
\* sheet.  A column is left out only when it says nothing of any of them (or
\* was given the identifier's role, which empties it), and is then counted.
CsvTellsTheWorkbook ==
    csv # None =>
        LET columns == Exported(mapping)
            ids == Identifiers
            says(c) == \/ c.name \in SpecialNames
                       \/ /\ c.role # "id_dossier"
                          /\ \E id \in ids : Expected(id, c) # ""
            kept == Picked(columns, {j \in DOMAIN columns : says(columns[j])})
            idOf(i) == (CHOOSE r \in Range(fusion.table.rows) : r.rank = sort.rows[i].rank).id
        IN /\ csv.headers = [j \in DOMAIN kept |-> kept[j].name]
           /\ normal.table.removed = Len(columns) - Len(kept)
           /\ Len(csv.grid) = Cardinality(ids)
           /\ {idOf(i) : i \in DOMAIN csv.grid} = ids
           /\ \A i \in DOMAIN csv.grid :
                 csv.grid[i] = [j \in DOMAIN kept |-> OrPlaceholder(Expected(idOf(i), kept[j]))]

\* What the contract accepted before the rows were sorted and the images
\* named is accepted again at the validation of the preview: a verified lot
\* is never refused there.
VerifiedContentIsAccepted ==
    PreviewReady => Issues(HeadersOf(normal.table), PreviewGrid) = {}

\* A profile that the new workbook's structure accepts gives back the mapping
\* it was saved from, and a mapping that can be validated.  Only a column left
\* out of the CSV under no name comes back otherwise: under its default name.
ProfileReplaysItsMapping ==
    profile # None /\ diagnosis # None /\ diagnosis.importable /\ Compatible(Default, profile) =>
        LET default == Default
            submission == ProfileSubmission(default, profile)
            replayed == FromSubmission(default, submission)
            saved == profile.choices
            again == ChoicesOf(replayed)
        IN /\ Acceptable(default, submission)
           /\ DOMAIN again = DOMAIN saved
           /\ \A id \in DOMAIN saved :
                 \/ again[id] = saved[id]
                 \/ /\ ~saved[id].exported /\ saved[id].name[2] = ""
                    /\ again[id] = [saved[id] EXCEPT !.name = ChoicesOf(default)[id].name]
           /\ ValidationErrors(replayed) = {}

\* "Lignes masquées ignorées": no row hidden in the workbook is in the table
\* (excel_diagnostic_pipeline.py:347).
HiddenRowsStayOut ==
    fusion # None /\ ~fusion.blocked =>
        {fusion.table.rows[i].id : i \in DOMAIN fusion.table.rows} \subseteq Identifiers
=============================================================================
