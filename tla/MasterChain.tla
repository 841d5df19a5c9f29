----------------------------- MODULE MasterChain -----------------------------
(***************************************************************************)
(* The earlier program: sircom_master_script.py runs the thirteen scripts  *)
(* of scripts-2025/ one after the other in one directory, from Sircom.xlsx *)
(* (which scripts-2025/0-extract_departement_to_sircom.py or the user      *)
(* writes) to the Word file, the CSV, the images and the mapping.          *)
(*                                                                         *)
(* Every script overwrites its output and nothing removes the outputs of   *)
(* earlier runs.  A script may fail for a reason of its own, for a file    *)
(* open in Excel or a full disk, before, while or after it writes, and the *)
(* user may press Ctrl-C or change Sircom.xlsx and the images at any time. *)
(* One master script runs at a time, nothing else writes its outputs.      *)
(*                                                                         *)
(* Texts are known by what the scripts make of them, headers by the        *)
(* columns they pass for.  A workbook has one sheet and no empty header.   *)
(***************************************************************************)
EXTENDS Integers, FiniteSets, SequencesExt

CONSTANTS
    Tables,       \* what Sircom.xlsx may hold: headers and rows of cells
    Galleries,    \* what the directory of source images may hold
    Paths,        \* the image paths for InDesign
    IdLetter,     \* the column that must be headed "ID" (F in the code)
    RegionNames, DepartmentNames, DateNames,  \* headers, to scripts 3 and 4
    PhotoNames,   \* headers that keep "photo" once cleaned (script 10)
    KnownNames,   \* headers of Sircom.xlsx that script 12 takes for the identifier
    HeadName,     \* clean_col_name of a header, its letter apart
    Order,        \* the rank of a region and of a department, where it is not 0
    DateText,     \* format_date_value, where it changes the text
    CleanText,    \* clean_cell_content, where it changes the text
    Voids,        \* the texts script 8 takes for nothing: "none", "undefined"
    Stripped,     \* str.strip of scripts 10 and 12, where it changes the text
    RawImage,     \* "dossier-<id>.jpg"
    Normalised,   \* the name script 7 makes of it
    Expected,     \* the name script 12 expects for an identifier of the CSV
    Spaced,       \* normalize_filename of an image (script 10)
    Base,         \* the same without its extension
    Keyword,      \* the pairs of a long name and a file that has its first word
    Unreadable,   \* the source images that cannot be converted
    MaxRuns,      \* bound: the runs of the master script
    MaxChanges,   \* bound: the changes of Sircom.xlsx and of the images
    MaxIncidents  \* bound: scripts that fail by themselves, Ctrl-C

VARIABLES
    table,     \* Sircom.xlsx, or None
    gallery,   \* the files of the directory of source images
    disk,      \* the output of each script that makes a file, or None
    folder,    \* export_images_id_dossier_rename_resize
    backups,   \* the *.backup-<time> files
    run,       \* the last run of the master script
    changes,
    incidents

vars == <<table, gallery, disk, folder, backups, run, changes, incidents>>

None == [none |-> TRUE]
Blank == ""
NA == "#N/A"

\* SCRIPTS_CHAIN, by the number in the scripts' names
Scripts == 0 .. 12
ImageScript == 10
CheckScript == 12
Outputs == Scripts \ {ImageScript, CheckScript}

Word == 5
Pathed == 7
Csv == 9
MappingFile == 11

ASSUME ChainAssumption == {MaxRuns, MaxChanges, MaxIncidents} \subseteq Nat

\* a sheet is a rectangle, its headers without letter yet
ASSUME TableAssumption ==
    \A t \in Tables : /\ DOMAIN t = {"heads", "rows"}
                      /\ t.heads \in Seq([letter : {0}, name : DOMAIN HeadName])
                      /\ t.rows \in Seq(Range(t.rows))
                      /\ \A k \in DOMAIN t.rows : DOMAIN t.rows[k] = DOMAIN t.heads

\* clean_cell_content leaves nothing blank, and nothing more to clean; the
\* words script 8 takes for nothing have nothing to clean
ASSUME TextAssumption ==
    /\ ({Blank, NA} \cup Voids) \cap DOMAIN CleanText = {}
    /\ {Blank, NA} \cap DOMAIN Stripped = {}
    /\ \A x \in DOMAIN CleanText : /\ CleanText[x] # Blank
                                   /\ CleanText[x] \in DOMAIN CleanText => CleanText[CleanText[x]] = CleanText[x]
    /\ Blank \notin Range(DateText)
    /\ \A x \in DOMAIN Order : Order[x] \in Int
    /\ IdLetter \in Nat \ {0}

\* clean_col_name keeps letters, digits and underscores; the headers of the
\* identifiers and of the images have no "date"
ASSUME HeadAssumption ==
    /\ "image-id" \in DOMAIN HeadName
    /\ {"@pathimg", "Non mappe"} \cap Range(HeadName) = {}
    /\ {"ID", HeadName["ID"], "image-id"} \cap DateNames = {}

\* every identifier has the name of an image, which script 7 makes a file name
ASSUME ImageAssumption ==
    /\ \A t \in Tables : \A k \in DOMAIN t.rows :
          IdLetter \in DOMAIN t.heads => t.rows[k][IdLetter] \in {Blank, NA} \cup DOMAIN RawImage
    /\ Range(RawImage) \subseteq DOMAIN Normalised
    /\ Blank \notin Range(RawImage)
    /\ Range(Normalised) \cap ({Blank, NA, "N/A"} \cup Voids \cup DOMAIN Stripped) = {}

-----------------------------------------------------------------------------
(* The scripts, as functions of the sheet they read.  A sheet has heads,     *)
(* the letter being 0 until script 1 gives one, and rows of cells.           *)

Via(f, text) == IF text \in DOMAIN f THEN f[text] ELSE text

\* is_empty_cell of script 8, which "none" and "undefined" pass too
Empty(cell) == Via(CleanText, cell) \in {Blank, NA} \cup Voids

\* is_valid_image_value of script 10, which takes them for images
ValidImage(cell) == Via(Stripped, cell) \notin {Blank, NA, "N/A"}

\* the items of s at these places, in their order; SelectSeq, as a closed form
\* that can be reasoned about
Picked(s, places) ==
    [j \in 1 .. Cardinality(places) |->
        s[CHOOSE i \in places : Cardinality({p \in places : p <= i}) = j]]

\* the first column of a name and letter, 0 when there is none
Column(s, names, letters) ==
    LET cs == {c \in DOMAIN s.heads : s.heads[c].name \in names /\ s.heads[c].letter \in letters}
    IN IF cs = {} THEN 0 ELSE CHOOSE c \in cs : \A d \in cs : c <= d

AnyLetter == 0 .. 26
IdColumn(s) == Column(s, {"ID", HeadName["ID"]}, {IdLetter})
ImageColumn(s) == Column(s, {HeadName["image-id"]}, {0})
PathColumn(s) == Column(s, {"@pathimg"}, {0})
PhotoColumn(s) == Column(s, {HeadName[n] : n \in PhotoNames}, AnyLetter)

WithRows(s, f(_)) == [s EXCEPT !.rows = [k \in DOMAIN @ |-> f(@[k])]]
WithColumn(s, c, name, f(_)) ==
    [heads |-> InsertAt(s.heads, c, [letter |-> 0, name |-> name]),
     rows |-> [k \in DOMAIN s.rows |-> InsertAt(s.rows[k], c, f(s.rows[k]))]]

\* 0-si-cellule-vide-na.py
FillEmpty(s) ==
    WithRows(s, LAMBDA row : [c \in DOMAIN row |-> IF row[c] = Blank THEN NA ELSE row[c]])

\* 1-header_lettres_colonne.py
LetterHeaders(s) == [s EXCEPT !.heads = [c \in DOMAIN @ |-> [letter |-> c, name |-> @[c].name]]]

\* 2-image_id_adder.py, when there is the column it looks for
AddImageIds(s) ==
    LET c == IdColumn(s)
    IN WithColumn(s, c + 1, "image-id", LAMBDA row : IF row[c] = NA THEN Blank ELSE RawImage[row[c]])

\* 3-fusion_tri_region_departement.py, a stable sort: a row has the place that
\* its number of rows before it gives it.  It is written over the row that was
\* there, and sheet.cell(value=None) writes nothing: a row without identifier
\* that moves has the image of the dossier whose place it takes
Over(old, new) == [c \in DOMAIN new |-> IF new[c] = Blank THEN old[c] ELSE new[c]]
Rank(text) == IF text \in DOMAIN Order THEN Order[text] ELSE 0
KeyBefore(a, b) == \E x \in DOMAIN a : a[x] < b[x] /\ \A y \in 1 .. x - 1 : a[y] = b[y]
SortRows(s) ==
    LET g == Column(s, RegionNames, AnyLetter)
        d == Column(s, DepartmentNames, AnyLetter)
        Key(k) == <<Rank(s.rows[k][g]), Rank(s.rows[k][d]), k>>
        At(p) == CHOOSE k \in DOMAIN s.rows :
                    Cardinality({j \in DOMAIN s.rows : KeyBefore(Key(j), Key(k))}) = p - 1
    IN IF 0 \in {g, d} THEN s ELSE [s EXCEPT !.rows = [p \in DOMAIN @ |-> Over(@[p], @[At(p)])]]

\* 4-changer-date-format.py
FormatDates(s) ==
    WithRows(s, LAMBDA row :
        [c \in DOMAIN row |-> IF s.heads[c].name \in DateNames THEN Via(DateText, row[c]) ELSE row[c]])

\* 6-clean_headers_excel.py: the letters keep any two headers apart
CleanHeaders(s) ==
    [s EXCEPT !.heads = [c \in DOMAIN @ |-> [letter |-> @[c].letter, name |-> HeadName[@[c].name]]]]
HeadersMeet(s) == \E c, d \in DOMAIN s.heads : c # d /\ CleanHeaders(s).heads[c] = CleanHeaders(s).heads[d]

\* 7-add_pathimg_excel.py: the root of the path, the image's name follows it
AddPaths(s, path) ==
    LET c == ImageColumn(s)
        Named(row) == IF row[c] = Blank THEN row ELSE [row EXCEPT ![c] = Normalised[row[c]]]
    IN WithColumn(WithRows(s, Named), c + 1, "@pathimg", LAMBDA row : IF row[c] = Blank THEN NA ELSE path)
RawImagesMeet(s) ==
    \E j, k \in DOMAIN s.rows : LET c == ImageColumn(s)
        IN j # k /\ s.rows[j][c] # Blank /\ s.rows[j][c] = s.rows[k][c]
ImagesMeet(s) ==
    \E j, k \in DOMAIN s.rows : LET c == ImageColumn(s)
        IN /\ j # k /\ Blank \notin {s.rows[j][c], s.rows[k][c]}
           /\ Normalised[s.rows[j][c]] = Normalised[s.rows[k][c]]

\* 8-optimize_content_excel.py: no empty column, no empty row, no row without
\* identifier, unless the column of the identifiers was itself empty
Optimise(s) ==
    LET clean == WithRows(s, LAMBDA row : [c \in DOMAIN row |-> Via(CleanText, row[c])])
        Says(c) == \E k \in DOMAIN clean.rows : ~Empty(clean.rows[k][c])
        cols == Picked([c \in DOMAIN s.heads |-> c], {c \in DOMAIN s.heads : Says(c)})
        narrow == [heads |-> [c \in DOMAIN cols |-> clean.heads[cols[c]]],
                   rows |-> [k \in DOMAIN clean.rows |-> [c \in DOMAIN cols |-> clean.rows[k][cols[c]]]]]
        Kept(row) == IF IdColumn(narrow) # 0 THEN ~Empty(row[IdColumn(narrow)])
                     ELSE \E c \in DOMAIN row : ~Empty(row[c])
    IN [narrow EXCEPT !.rows = Picked(narrow.rows, {k \in DOMAIN narrow.rows : Kept(narrow.rows[k])})]

\* 9-export_csv_utf16_final.py
Export(s) == WithRows(s, LAMBDA row : [c \in DOMAIN row |-> IF row[c] = Blank THEN NA ELSE row[c]])

\* 11-create_mapping_excel.py: a column of the lettered file with that of the CSV
MappingOf(lettered, csv) ==
    [heads |-> [c \in DOMAIN lettered.heads |->
                  LET d == Column(csv, {h.name : h \in Range(csv.heads)}, {lettered.heads[c].letter})
                  IN [letter |-> lettered.heads[c].letter,
                      name |-> IF d = 0 THEN "Non mappe" ELSE csv.heads[d].name]],
     rows |-> <<>>]

-----------------------------------------------------------------------------
(* Script 10, the images, and script 12, the verification.                   *)

\* read_excel_mapping: the final name and the photo of each dossier
Pictured(s) ==
    LET i == IdColumn(s)  f == ImageColumn(s)  p == PhotoColumn(s)
    IN IF 0 \in {i, f, p} THEN {}
       ELSE {[name |-> Via(Stripped, row[f]), photo |-> Via(Stripped, row[p])] :
               row \in {r \in Range(s.rows) : r[i] # Blank /\ ValidImage(r[f]) /\ ValidImage(r[p])}}

\* find_best_match: exact, spaced alike, same base, then a long name's first word
Probes(photo) == <<{f \in gallery : f = photo},
                   {f \in gallery : Spaced[f] = Spaced[photo]},
                   {f \in gallery : Base[f] = Base[photo]},
                   {f \in gallery : <<photo, f>> \in Keyword}>>

\* the files of the first probe that finds one: two are ambiguous
Matches(photo) ==
    LET p == Probes(photo)
        found == {k \in DOMAIN p : p[k] # {}}
    IN IF found = {} THEN {} ELSE p[CHOOSE k \in found : \A j \in found : k <= j]

\* the images of the dossiers that match one file, which can be converted
Processed(s) == {[name |-> m.name, photo |-> m.photo, run |-> run.n] :
                  m \in {x \in Pictured(s) : \E f \in gallery \ Unreadable : Matches(x.photo) = {f}}}

\* no photo without its image, and there is one
EveryImage(s) == Processed(s) # {} /\ Cardinality(Processed(s)) = Cardinality(Pictured(s))

\* verify_data_integrity: identifiers and image names, against Sircom.xlsx as
\* it is now; an identifier the CSV lacks is printed and is no error
Verified(csv) ==
    LET e == Column(table, KnownNames, AnyLetter)
        Known(k) == Via(Stripped, table.rows[k][e])
        i == IdColumn(csv)  m == ImageColumn(csv)
        lines == csv.rows
        Written(j) == Via(Stripped, lines[j][i])
    IN /\ table # None /\ 0 \notin {e, i, m}
       /\ \A j, k \in DOMAIN table.rows : Known(j) = Known(k) /\ Known(j) \notin {Blank, NA} => j = k
       /\ \A j, k \in DOMAIN lines : Written(j) = Written(k) => j = k
       /\ \A j \in DOMAIN lines :
            /\ \E k \in DOMAIN table.rows : Known(k) \notin {Blank, NA} /\ Known(k) = Written(j)
            /\ lines[j][m] = Expected[Written(j)]

-----------------------------------------------------------------------------
(* One script on the files there are.                                        *)

\* the outputs a script reads beside Sircom.xlsx and the images
Sources(i) ==
    CASE i = 0 -> {}
      [] i = ImageScript -> {Pathed}
      [] i = MappingFile -> {1, Csv}
      [] i = CheckScript -> {Csv}
      [] OTHER -> {i - 1}

\* what a script refuses
Accepts(i) ==
    CASE i = 0 -> table # None
      [] i = 2 -> IdColumn(disk[1]) # 0
      [] i = 6 -> ~HeadersMeet(disk[5])
      [] i = 7 -> ImageColumn(disk[6]) # 0 /\ ~ImagesMeet(disk[6])
      [] i = ImageScript -> EveryImage(disk[Pathed])
      [] i = CheckScript -> Verified(disk[Csv])
      [] OTHER -> TRUE

Readable(i) == \A s \in Sources(i) : disk[s] # None /\ disk[s].whole
Passes(i) == Readable(i) /\ Accepts(i)

SheetMade(i) ==
    CASE i = 0 -> FillEmpty(table)
      [] i = 1 -> LetterHeaders(disk[0])
      [] i = 2 -> AddImageIds(disk[1])
      [] i = 3 -> SortRows(disk[2])
      [] i = 4 -> FormatDates(disk[3])
      [] i = 5 -> disk[4]
      [] i = 6 -> CleanHeaders(disk[5])
      [] i = 7 -> AddPaths(disk[6], run.path)
      [] i = 8 -> Optimise(disk[7])
      [] i = 9 -> Export(disk[8])
      [] i = 11 -> MappingOf(disk[1], disk[Csv])

-----------------------------------------------------------------------------
(* What the scripts leave: an exit code, the files and the folder.           *)

Made(i) == LET s == SheetMade(i)
           IN [heads |-> s.heads, rows |-> s.rows, run |-> run.n, whole |-> TRUE]

Onto(images) == {f \in folder : \A g \in images : f.name # g.name} \cup images

Left(code, d, f) == [code |-> code, disk |-> d, folder |-> f]

Done(i) == Left(0, IF i \in Outputs THEN [disk EXCEPT ![i] = Made(i)] ELSE disk,
                   IF i = ImageScript THEN Onto(Processed(disk[Pathed])) ELSE folder)

\* the script stops by itself, or is stopped: the file it was writing is cut
CutShort(i) ==
    {Left(1, disk, folder)}
    \cup (IF i \in Outputs /\ Passes(i)
          THEN {Left(1, [disk EXCEPT ![i] = [Made(i) EXCEPT !.whole = w]], folder) : w \in BOOLEAN}
          ELSE {})
    \cup (IF i = ImageScript /\ Readable(i)
          THEN {Left(1, disk, Onto(images)) : images \in SUBSET Processed(disk[Pathed])}
          ELSE {})

\* a script that refuses its table; script 10 has converted what it could
Refused(i) == IF i = ImageScript /\ Readable(i)
              THEN Left(1, disk, Onto(Processed(disk[Pathed])))
              ELSE Left(1, disk, folder)

-----------------------------------------------------------------------------
(* The master script.                                                        *)

NoRun == [n |-> 0, phase |-> "ended", step |-> 0, path |-> "", executed |-> 0, created |-> {},
          errors |-> 0, warned |-> {}, report |-> "", code |-> 1]

\* validate_file: a CSV only has to have a line
Validated(i, o) ==
    CASE i = CheckScript -> TRUE
      [] i = ImageScript -> o.folder # {}
      [] i = Csv -> o.disk[i] # None
      [] OTHER -> o.disk[i] # None /\ o.disk[i].whole

CountsIfThere(i, o) == Validated(i, o)
Counts(i, o) == o.code = 0 /\ Validated(i, o)

\* the status of generate_final_report
StatusOfFiles(r) == IF r.executed > Cardinality(Outputs) THEN "SUCCES COMPLET" ELSE "SUCCES PARTIEL"
Status(r) ==
    IF r.executed = Cardinality(Scripts) /\ r.errors = 0 THEN "SUCCES COMPLET"
    ELSE IF r.executed > 0 THEN "SUCCES PARTIEL"
    ELSE "ECHEC"

\* backup_existing_files: the outputs there are; a directory cannot be copied
ToBackUp == {o \in Outputs : disk[o] # None}

Ended(r, code) == [r EXCEPT !.phase = "ended", !.code = code]
NextRun == [NoRun EXCEPT !.n = run.n + 1]

ChainInit ==
    /\ table \in Tables
    /\ gallery \in Galleries
    /\ disk = [o \in Outputs |-> None]
    /\ folder = {}
    /\ backups = {}
    /\ run = NoRun
    /\ changes = 0
    /\ incidents = 0

\* no Sircom.xlsx, a script missing, no environment: no backup and no report
Give == /\ run.phase = "ended" /\ run.n < MaxRuns
        /\ table = None \/ incidents < MaxIncidents
        /\ run' = Ended(NextRun, 1)
        /\ incidents' = IF table = None THEN incidents ELSE incidents + 1
        /\ UNCHANGED <<table, gallery, disk, folder, backups, changes>>

\* a path by option or typed, the default one for nothing or Ctrl-C; a backup
\* that fails is only a warning
Begin(path, copied) ==
    /\ run.phase = "ended" /\ run.n < MaxRuns
    /\ table # None
    /\ copied = ToBackUp \/ incidents < MaxIncidents
    /\ backups' = backups \cup {[output |-> o, content |-> disk[o]] : o \in copied}
    /\ run' = [NextRun EXCEPT !.phase = "chain", !.path = path,
                 !.warned = (ToBackUp \ copied) \cup (IF folder # {} THEN {ImageScript} ELSE {})]
    /\ incidents' = IF copied = ToBackUp THEN incidents ELSE incidents + 1
    /\ UNCHANGED <<table, gallery, disk, folder, changes>>

\* execute_script on what the script left
Executed(i, o) ==
    /\ disk' = o.disk
    /\ folder' = o.folder
    /\ run' = IF Counts(i, o)
              THEN [run EXCEPT !.executed = @ + 1, !.created = @ \cup {i}, !.step = i + 1,
                               !.phase = IF i = CheckScript THEN "report" ELSE "chain"]
              ELSE [run EXCEPT !.errors = @ + 1, !.phase = "report"]
    /\ UNCHANGED <<table, gallery, backups, changes>>

RunScript(i) ==
    /\ run.phase = "chain" /\ run.step = i
    /\ Executed(i, IF Passes(i) THEN Done(i) ELSE Refused(i))
    /\ UNCHANGED incidents

ScriptFails(i) ==
    /\ run.phase = "chain" /\ run.step = i
    /\ incidents < MaxIncidents
    /\ \E o \in CutShort(i) : Executed(i, o)
    /\ incidents' = incidents + 1

\* Ctrl-C stops the script and the master script, which writes no report
Interrupt(i) ==
    /\ run.phase = "chain" /\ run.step = i
    /\ incidents < MaxIncidents
    /\ \E o \in CutShort(i) \cup (IF Passes(i) THEN {Done(i)} ELSE {}) :
         disk' = o.disk /\ folder' = o.folder
    /\ run' = Ended(run, 1)
    /\ incidents' = incidents + 1
    /\ UNCHANGED <<table, gallery, backups, changes>>

WriteReport ==
    /\ run.phase = "report"
    /\ run' = Ended([run EXCEPT !.report = Status(run)], IF run.errors = 0 THEN 0 ELSE 1)
    /\ UNCHANGED <<table, gallery, disk, folder, backups, changes, incidents>>

ReportFails ==
    /\ run.phase = "report"
    /\ incidents < MaxIncidents
    /\ run' = Ended(run, 1)
    /\ incidents' = incidents + 1
    /\ UNCHANGED <<table, gallery, disk, folder, backups, changes>>

Changed == changes < MaxChanges /\ changes' = changes + 1

\* extract_departements_to_sircom renames the file there was, then saves its own
Withdraw == /\ Changed /\ table # None
            /\ table' = None
            /\ UNCHANGED <<gallery, disk, folder, backups, run, incidents>>

Deposit(t) == /\ Changed /\ table # t
              /\ table' = t
              /\ UNCHANGED <<gallery, disk, folder, backups, run, incidents>>

ChangeImages(g) == /\ Changed /\ gallery # g
                   /\ gallery' = g
                   /\ UNCHANGED <<table, disk, folder, backups, run, incidents>>

Next ==
    \/ Give
    \/ \E path \in Paths, copied \in {ToBackUp, {}} : Begin(path, copied)
    \/ \E i \in Scripts : RunScript(i)
    \/ \E i \in Scripts : ScriptFails(i)
    \/ \E i \in Scripts : Interrupt(i)
    \/ WriteReport
    \/ ReportFails
    \/ Withdraw
    \/ \E t \in Tables : Deposit(t)
    \/ \E g \in Galleries : ChangeImages(g)

Spec == ChainInit /\ [][Next]_vars

-----------------------------------------------------------------------------
(* Properties.                                                               *)

OfThisRun(o) == disk[o] # None /\ disk[o].whole /\ disk[o].run = run.n

\* what the chain makes of the cell under a header of Sircom.xlsx
Told(t, r, c) ==
    LET cell == t.rows[r][c]
        filled == IF cell = Blank THEN NA ELSE cell
    IN IF t.heads[c].name \in DateNames THEN Via(DateText, filled) ELSE filled

\* a line of a file made from the sheet, whose columns kept their letters
Tells(file, k, t, r, Text(_)) ==
    \A c \in DOMAIN file.heads :
        file.heads[c].letter # 0 => file.rows[k][c] = Text(Told(t, r, file.heads[c].letter))

\* An exit code of zero means one table: whatever earlier runs left, whatever
\* was cut, failed or changed meanwhile, the Word file has every row of the
\* table script 0 read, the CSV every row with an identifier, each cell under
\* the letter of its column, the image path of the run, and the mapping has
\* the columns of that CSV.  Script 8 decides what an identifier is: a row whose
\* identifier is the word "none" or "undefined" is not in the CSV, and no exit
\* code tells it.
CompleteRunIsOfOneTable ==
    run.phase = "ended" /\ run.code = 0 =>
        /\ \A o \in Outputs : OfThisRun(o)
        /\ \E t \in Tables :
            LET w == disk[Word]  csv == disk[Csv]
                Same(text) == text
                Cleaned(text) == Via(CleanText, text)
                identified == {r \in DOMAIN t.rows : ~Empty(t.rows[r][IdLetter])}
            IN /\ Len(w.rows) = Len(t.rows)
               /\ \A r \in DOMAIN t.rows : \E k \in DOMAIN w.rows : Tells(w, k, t, r, Same)
               /\ Len(csv.rows) = Cardinality(identified)
               /\ \A r \in identified : \E k \in DOMAIN csv.rows :
                    /\ Tells(csv, k, t, r, Cleaned)
                    /\ csv.rows[k][ImageColumn(csv)] = Normalised[RawImage[t.rows[r][IdLetter]]]
                    /\ csv.rows[k][PathColumn(csv)] = run.path
               /\ {h.letter : h \in Range(csv.heads)} \ {0} =
                    {h.letter : h \in {g \in Range(disk[MappingFile].heads) : g.name # "Non mappe"}}

\* The report of a run, complete or not, tells what is on the disk: each file
\* it lists is whole and of this run, and its status, its list and the exit
\* code agree.
ReportTellsTheRun ==
    run.report # "" =>
        /\ \A i \in run.created : /\ i \in Outputs => OfThisRun(i)
                                  /\ i = ImageScript => \E f \in folder : f.run = run.n
        /\ run.report = "SUCCES COMPLET" <=> run.created = Scripts
        /\ run.report = "SUCCES COMPLET" <=> run.code = 0

\* An image serves one dossier: what a run wrote into the folder, even if it
\* was stopped, goes by its name to the one row of its files that asked for
\* that photo, though identifiers may only differ by what a file name loses and
\* a row without identifier may take an image's name from another row's place;
\* and once the exit code is zero each line of the CSV has in the folder, by the
\* name the line gives, the photo its dossier asked for.
ImagesServeOneDossier ==
    LET s == disk[Pathed]
        csv == disk[Csv]
        Named(name) == {k \in DOMAIN s.rows : s.rows[k][ImageColumn(s)] = name}
        Photo(k) == s.rows[k][PhotoColumn(s)]
        Has(f, name, k) == f.run = run.n /\ f.name = name /\ f.photo = Via(Stripped, Photo(k))
    IN /\ run.step >= ImageScript =>
            \A f \in folder : f.run = run.n =>
                \E k \in DOMAIN s.rows : Named(f.name) = {k} /\ Has(f, f.name, k)
       /\ run.phase = "ended" /\ run.code = 0 =>
            \A j \in DOMAIN csv.rows : LET name == csv.rows[j][ImageColumn(csv)]
                IN \E k \in DOMAIN s.rows :
                      /\ Named(name) = {k}
                      /\ ValidImage(Photo(k)) => \E f \in folder : Has(f, name, k)

=============================================================================
