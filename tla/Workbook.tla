------------------------------ MODULE Workbook ------------------------------
(***************************************************************************)
(* The Excel diagnosis of excel_diagnostic.py, and the problems that       *)
(* excel_diagnostic_pipeline.py records from it.                           *)
(*                                                                         *)
(* A workbook is a sequence of sheets, a sheet a rectangle of cells.  What *)
(* a cell says is a member of the small set Cells, and the conversions the *)
(* code applies to it are the constant functions below: two cells that one *)
(* of them tells apart may be the same for another.                        *)
(***************************************************************************)
EXTENDS Integers, FiniteSets, Sequences, SequencesExt

CONSTANTS
    Cells,             \* what a cell may hold; "" is an empty cell
    Canon,             \* normalize_header: runs of spaces become one
    Ident,             \* _identifier_text: only outer spaces go, 7.0 reads 7
    Lettered,          \* the canonical cells that hold a letter
    Formulas,          \* the cells that start with an equal sign
    HeaderRole,        \* the role a header gives its column
    HeaderBody,        \* clean_indesign_header; "" if only punctuation
    HEADER_SCAN_ROWS,  \* the rows searched for a header
    MaxExcelRows, MaxExcelColumns, MaxExcelCells  \* the settings' limits

Conversions == [Cells -> Cells]

ASSUME CellAssumption ==
    /\ "" \in Cells
    /\ Canon \in Conversions /\ Ident \in Conversions
    /\ Lettered \subseteq Cells /\ Formulas \subseteq Cells
    /\ DOMAIN HeaderRole = Cells /\ DOMAIN HeaderBody = Cells
    \* what two spellings of an identifier share, outer spaces apart, is
    \* what the diagnosis sees
    /\ Canon[""] = "" /\ Ident[""] = ""
    /\ \A c \in Cells : Canon[Canon[c]] = Canon[c] /\ Ident[Ident[c]] = Ident[c]

ASSUME LimitAssumption ==
    {HEADER_SCAN_ROWS, MaxExcelRows, MaxExcelColumns, MaxExcelCells} \subseteq Nat

-----------------------------------------------------------------------------
\* the items of s at these places, in their order; SelectSeq, as a closed form
\* that can be reasoned about
Picked(s, places) ==
    [j \in 1 .. Cardinality(places) |->
        s[CHOOSE i \in places : Cardinality({p \in places : p <= i}) = j]]

(* Rows and cells.  A row is [hidden, cells]: hidden is the attribute as    *)
(* the file spells it, "no" when absent.  openpyxl reads both spellings.    *)

RowIsHidden(row) == row.hidden # "no"

Present(row) == {i \in DOMAIN row.cells : Canon[row.cells[i]] # ""}

Width(sheet) == IF sheet.rows = <<>> THEN 0 ELSE Len(sheet.rows[1].cells)

VisibleDataRows(sheet, header) ==
    {n \in header + 1 .. Len(sheet.rows) :
        ~RowIsHidden(sheet.rows[n]) /\ Present(sheet.rows[n]) # {}}

HiddenDataRows(sheet, header) ==
    {n \in header + 1 .. Len(sheet.rows) :
        RowIsHidden(sheet.rows[n]) /\ Present(sheet.rows[n]) # {}}

\* mutant: the row just above the header is not looked at
DataWellBeforeHeader(sheet, header) ==
    \E n \in 1 .. header - 2 :
        ~RowIsHidden(sheet.rows[n]) /\ Present(sheet.rows[n]) # {}

DataBeforeHeader(sheet, header) ==
    \E n \in 1 .. header - 1 :
        ~RowIsHidden(sheet.rows[n]) /\ Present(sheet.rows[n]) # {}

LimitsExceeded(sheet) ==
    \/ Len(sheet.rows) > MaxExcelRows
    \/ Width(sheet) > MaxExcelColumns
    \/ Len(sheet.rows) * Width(sheet) > MaxExcelCells

IsIdHeader(cell) == HeaderRole[Canon[cell]] = "id_dossier"

-----------------------------------------------------------------------------
(* The header row: the share of lettered cells, of distinct cells and of    *)
(* filled cells, and 0.75 for an identifier.  Scores are fractions; below   *)
(* 9/5 no row is a header, and the first of the best rows wins.             *)

HeaderScore(row) ==
    LET shown == Present(row)
        p == Cardinality(shown)
        c == Len(row.cells)
        lettered == Cardinality({i \in shown : Canon[row.cells[i]] \in Lettered})
        distinct == Cardinality({Canon[row.cells[i]] : i \in shown})
        bonus == IF \E i \in shown : IsIdHeader(row.cells[i]) THEN 3 ELSE 0
    IN [num |-> 4 * c * (lettered + distinct) + 4 * p * p + bonus * p * c,
        den |-> 4 * p * c]

Beats(a, b) == a.num * b.den > b.num * a.den

DetectHeaderRow(sheet) ==
    LET scanned == {n \in 1 .. Min({HEADER_SCAN_ROWS, Len(sheet.rows)}) :
                        /\ ~RowIsHidden(sheet.rows[n])
                        /\ Cardinality(Present(sheet.rows[n])) >= 2}
        score(n) == HeaderScore(sheet.rows[n])
        best == {n \in scanned : \A o \in scanned : ~Beats(score(o), score(n))}
    IN IF \E n \in best : 5 * score(n).num >= 9 * score(n).den THEN Min(best) ELSE 0

-----------------------------------------------------------------------------
(* The diagnosis of a sheet: the fields of SheetDiagnostic that the rest of *)
(* the code reads, a list of cells being told only by its being empty.      *)

\* the sheets of a workbook whose dimensions stop the diagnosis before it
\* has read anything (_preflight_workbook_dimensions), or an unread sheet
UnreadDiagnostic(sheet) ==
    [name |-> sheet.name, limits |-> LimitsExceeded(sheet), read |-> FALSE,
     ignored |-> FALSE, shown |-> sheet.shown, hiddenColumns |-> FALSE,
     merged |-> FALSE, formulas |-> FALSE, header |-> 0, early |-> FALSE,
     hiddenRows |-> FALSE, headers |-> <<>>, headless |-> FALSE,
     duplicateHeaders |-> FALSE, ids |-> <<>>, duplicates |-> 0, blanks |-> 0]

ReadDiagnostic(sheet) ==
    LET h == DetectHeaderRow(sheet)
        data == VisibleDataRows(sheet, h)
        at(n, i) == Canon[sheet.rows[n].cells[i]]
        all == [i \in 1 .. Width(sheet) |-> [pos |-> i, text |-> at(h, i)]]
        headers == Picked(all, {i \in DOMAIN all : all[i].text # ""})
        ids == Picked(headers, {i \in DOMAIN headers : IsIdHeader(headers[i].text)})
        filled == {n \in data : at(n, ids[1].pos) # ""}
        seen == [UnreadDiagnostic(sheet) EXCEPT
                    !.read = TRUE,
                    !.hiddenColumns = sheet.hiddenColumns, !.merged = sheet.merged,
                    !.formulas = \E n \in DOMAIN sheet.rows :
                                    Range(sheet.rows[n].cells) \cap Formulas # {}]
    IN IF h = 0 THEN seen
       ELSE [seen EXCEPT
                !.header = h, !.headers = headers, !.ids = ids,
                !.early = h # 1 /\ DataBeforeHeader(sheet, h),
                !.hiddenRows = HiddenDataRows(sheet, h) # {},
                !.headless = \E i \in 1 .. Width(sheet), n \in data :
                                at(h, i) = "" /\ at(n, i) # "",
                !.duplicateHeaders = \E i, j \in DOMAIN headers :
                                i # j /\ headers[i].text = headers[j].text,
                !.duplicates = IF ids = <<>> THEN 0
                    ELSE Cardinality(filled)
                         - Cardinality({at(n, ids[1].pos) : n \in filled}),
                !.blanks = IF ids = <<>> THEN 0 ELSE Cardinality(data \ filled)]

DiagnoseSheet(sheet) ==
    IF LimitsExceeded(sheet) THEN UnreadDiagnostic(sheet)
    ELSE IF \A n \in DOMAIN sheet.rows : Present(sheet.rows[n]) = {}
    THEN [UnreadDiagnostic(sheet) EXCEPT !.ignored = TRUE]
    ELSE ReadDiagnostic(sheet)

\* what diagnose_sheet appends to blockers.  Two columns of one sheet never
\* share a cleaned name, their letters differ: that blocker cannot occur
SheetBlockers(d) ==
    {b \in {"limits", "hidden_sheet", "hidden_columns", "merged", "formulas",
            "no_header", "no_id", "early_rows", "headless", "many_ids", "duplicates"} :
        \/ b = "limits" /\ d.limits
        \/ d.read /\ \/ b = "hidden_sheet" /\ ~d.shown
                     \/ b = "hidden_columns" /\ d.hiddenColumns
                     \/ b = "merged" /\ d.merged
                     \/ b = "formulas" /\ d.formulas
                     \/ b = "no_header" /\ d.header = 0
                     \/ b = "no_id" /\ d.ids = <<>>
                     \/ b = "early_rows" /\ d.early
                     \/ b = "headless" /\ d.headless
                     \/ b = "many_ids" /\ Len(d.ids) > 1
                     \/ b = "duplicates" /\ Len(d.ids) = 1 /\ d.duplicates > 0}

SheetImportable(d) == SheetBlockers(d) = {}

-----------------------------------------------------------------------------
(* The diagnosis of a workbook.                                             *)

\* the names two columns of different sheets would share in the CSV: letter
\* and cleaned header, identifier columns apart
CsvHeaderCollisions(diagnostics) ==
    LET columns == UNION {{[sheet |-> k, pos |-> diagnostics[k].headers[i].pos,
                            body |-> HeaderBody[diagnostics[k].headers[i].text]] :
                           i \in {j \in DOMAIN diagnostics[k].headers :
                                    ~IsIdHeader(diagnostics[k].headers[j].text)}} :
                          k \in DOMAIN diagnostics}
    IN {<<c.pos, c.body>> : c \in {x \in columns :
            \E y \in columns \ {x} : y.pos = x.pos /\ y.body = x.body}}

DiagnoseWorkbook(workbook) ==
    LET stopped == \E k \in DOMAIN workbook : LimitsExceeded(workbook[k])
        sheets == [k \in DOMAIN workbook |->
                      IF stopped THEN UnreadDiagnostic(workbook[k])
                                 ELSE DiagnoseSheet(workbook[k])]
    IN [sheets |-> sheets,
        collisions |-> CsvHeaderCollisions(sheets),
        importable |-> /\ \A k \in DOMAIN sheets : SheetImportable(sheets[k])
                       /\ CsvHeaderCollisions(sheets) = {}]

(***************************************************************************)
(* The problems recorded from a diagnosis (sheet_problems), the step being *)
(* blocked when one of them is.  They are worked out from the fields, not  *)
(* from the blockers, except that an early header is blocking when the     *)
(* sheet says so.                                                          *)
(***************************************************************************)
Blocking(code) == [code |-> code, severity |-> "bloquant"]
\* mutant: a warning is recorded as blocking
WarningAsBlocking(code) == [code |-> code, severity |-> "bloquant"]

Warning(code) == [code |-> code, severity |-> "alerte"]

SheetProblems(d) ==
    IF d.limits THEN {Blocking("dimensions")}
    ELSE IF d.ignored THEN {[code |-> "empty_sheet", severity |-> "information"]}
    ELSE {p \in {Blocking("hidden_sheet"), Blocking("hidden_columns"),
                 Warning("hidden_rows"), Blocking("merged"), Blocking("formulas"),
                 Blocking("header_missing"), Blocking("header_multirow"),
                 Warning("header_multirow"), Blocking("data_without_header"),
                 Blocking("id_missing"), Blocking("id_ambiguous"),
                 Blocking("id_duplicates"), Warning("id_blank_rows"),
                 Warning("duplicate_headers")} :
            \/ p.code = "hidden_sheet" /\ ~d.shown
            \/ p.code = "hidden_columns" /\ d.hiddenColumns
            \/ p.code = "hidden_rows" /\ d.hiddenRows
            \/ p.code = "merged" /\ d.merged
            \/ p.code = "formulas" /\ d.formulas
            \/ p.code = "header_missing" /\ d.header = 0
            \/ /\ p.code = "header_multirow" /\ d.header > 1
               /\ (p.severity = "bloquant") <=> ("early_rows" \in SheetBlockers(d))
            \/ p.code = "data_without_header" /\ d.headless
            \/ p.code = "id_missing" /\ (d.header = 0 \/ d.ids = <<>>)
            \/ p.code = "id_ambiguous" /\ Len(d.ids) > 1
            \/ p.code = "id_duplicates" /\ Len(d.ids) = 1 /\ d.duplicates > 0
            \/ p.code = "id_blank_rows" /\ Len(d.ids) = 1 /\ d.blanks > 0
            \/ p.code = "duplicate_headers" /\ d.duplicateHeaders}

DiagnosisProblems(diagnosis) ==
    (UNION {SheetProblems(diagnosis.sheets[k]) : k \in DOMAIN diagnosis.sheets})
    \cup {Blocking("csv_header_collision") : n \in diagnosis.collisions}

IsBlocked(problems) == \E p \in problems : p.severity = "bloquant"

\* useful_sheets (mapping_rules.py): what the mapping is built from
UsefulSheets(diagnosis) ==
    LET sheets == diagnosis.sheets
    IN Picked(sheets, {k \in DOMAIN sheets : /\ ~sheets[k].ignored /\ SheetImportable(sheets[k])
                                            /\ sheets[k].header # 0})
=============================================================================
