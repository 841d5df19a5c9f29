------------------------------ MODULE Mapping ------------------------------
(***************************************************************************)
(* The rules of the column mapping (mapping_rules.py and the pure part of  *)
(* mapping.py): the default mapping of a diagnosis, what a user's          *)
(* submission may change of it, its validation, and the profiles that      *)
(* carry a validated mapping to another workbook of the same structure.    *)
(*                                                                         *)
(* A mapping is [structure, columns].  The structural fingerprint is the   *)
(* structure itself.  A CSV name is a pair: the column's letter, as its    *)
(* position, and the text after it; the three special names have no letter *)
(* and position 0.                                                         *)
(***************************************************************************)
EXTENDS Workbook

NoSuggestion == "colonne"

CONSTANTS
    Roles,        \* MAPPING_LOGICAL_ROLES
    UserBodies,   \* what users type as a column name, letter prefix apart
    CleanBody     \* clean_submitted_csv_name on it; "" if nothing is left

ASSUME MappingAssumption ==
    /\ {"id_dossier", "nom_image_source", "texte"} \subseteq Roles
    /\ \A c \in Cells : HeaderRole[c] \in Roles
    /\ DOMAIN CleanBody = UserBodies
    \* cleaning leaves a cleaned name as it is, and the names the default
    \* mapping makes of the headers
    /\ \A b \in {CleanBody[u] : u \in UserBodies} \cup {HeaderBody[c] : c \in Cells} \cup {NoSuggestion} :
          b \in UserBodies => CleanBody[b] = b

IdName == <<0, "id_dossier">>
ImageName == <<0, "imageid">>
PathName == <<0, "@pathimg">>
SpecialNames == {IdName, ImageName, PathName}

DefaultName(header) ==
    LET body == HeaderBody[header.text]
    IN <<header.pos, IF body = "" THEN NoSuggestion ELSE body>>

\* structural_payload: the names and headers of the sheets and their
\* identifier columns; neither the data nor the header's row
Structure(sheets) ==
    [k \in DOMAIN sheets |->
        [name |-> sheets[k].name, headers |-> sheets[k].headers,
         ids |-> {sheets[k].ids[i].pos : i \in DOMAIN sheets[k].ids}]]

SystemColumns ==
    << [id |-> <<"imageid", 0>>, system |-> TRUE, sheet |-> "", pos |-> 0,
        header |-> "", role |-> "nom_image_source", exported |-> TRUE, name |-> ImageName],
       [id |-> <<"@pathimg", 0>>, system |-> TRUE, sheet |-> "", pos |-> 0,
        header |-> "", role |-> "nom_image_source", exported |-> TRUE, name |-> PathName] >>

\* the column of a header.  The identifier of the first sheet is exported and
\* brings the system columns, those of the others serve the merge only
SourceColumn(sheet, first, h) ==
    LET role == HeaderRole[h.text]
    IN [id |-> <<sheet.name, h.pos>>, system |-> FALSE, sheet |-> sheet.name,
        pos |-> h.pos, header |-> h.text, role |-> role,
        exported |-> role = "id_dossier" => first,
        name |-> IF role = "id_dossier" THEN IdName ELSE DefaultName(h)]

ColumnsOfHeader(sheet, first, h) ==
    LET c == SourceColumn(sheet, first, h)
    IN IF c.role = "id_dossier" /\ first THEN <<c>> \o SystemColumns ELSE <<c>>

SheetColumns(sheet, first) ==
    FlattenSeq([i \in DOMAIN sheet.headers |-> ColumnsOfHeader(sheet, first, sheet.headers[i])])

DefaultMapping(diagnosis) ==
    LET sheets == UsefulSheets(diagnosis)
    IN [structure |-> Structure(sheets),
        sheets |-> [k \in DOMAIN sheets |->
                        [name |-> sheets[k].name, header |-> sheets[k].header]],
        columns |-> FlattenSeq([k \in DOMAIN sheets |-> SheetColumns(sheets[k], k = 1)])]

-----------------------------------------------------------------------------
(***************************************************************************)
(* A submission is [structure, choices]: choices gives, for each column    *)
(* identifier it names, [exported, role, name], the name as it was typed.  *)
(* mapping_from_submission takes from it only what a user may change:      *)
(* nothing of the system columns nor of the identifiers.                   *)
(***************************************************************************)
ColumnIds(mapping) == {c.id : c \in Range(mapping.columns)}

Acceptable(default, submission) ==
    /\ submission.structure = default.structure
    /\ DOMAIN submission.choices = ColumnIds(default)

\* a name is cleaned and has the column's own letter; an empty one stands for
\* the default name, one of which nothing is left is empty
SubmittedName(column, name) ==
    LET body == IF name[2] = "" THEN column.name[2] ELSE name[2]
    IN <<column.pos, IF body \in UserBodies THEN CleanBody[body] ELSE body>>

FromSubmission(default, submission) ==
    [default EXCEPT !.columns =
        [i \in DOMAIN default.columns |->
            LET c == default.columns[i]
                choice == submission.choices[c.id]
            IN IF c.system \/ c.role = "id_dossier" THEN c
               ELSE [c EXCEPT !.exported = choice.exported, !.role = choice.role,
                              !.name = SubmittedName(c, choice.name)]]]

\* the choices that leave a mapping as it is
ChoicesOf(mapping) ==
    [id \in ColumnIds(mapping) |->
        LET c == CHOOSE x \in Range(mapping.columns) : x.id = id
        IN [exported |-> c.exported, role |-> c.role, name |-> c.name]]

Exported(mapping) ==
    Picked(mapping.columns, {i \in DOMAIN mapping.columns : mapping.columns[i].exported})

\* mapping_validation_errors
ValidationErrors(mapping) ==
    LET exported == Exported(mapping)
        named == {i \in DOMAIN exported : exported[i].name[2] # ""}
    IN {e \in {"no_business_column", "name_missing", "collision", "id_invalid"} :
          \/ /\ e = "no_business_column"
             /\ \A i \in DOMAIN exported :
                   exported[i].system \/ exported[i].role = "id_dossier"
          \/ e = "name_missing" /\ named # DOMAIN exported
          \/ /\ e = "collision"
             /\ \E i, j \in named : i # j /\ exported[i].name = exported[j].name
          \/ /\ e = "id_invalid"
             /\ Cardinality({i \in DOMAIN exported : exported[i].name = IdName}) # 1}

-----------------------------------------------------------------------------
(* Profiles.  Their versions are those of the code that reads them.         *)

ProfileFrom(mapping) ==
    [structure |-> mapping.structure, choices |-> ChoicesOf(mapping)]

\* mutant: two workbooks with the same sheets are taken for alike
SameSheetNames(default, profile) ==
    /\ DOMAIN default.structure = DOMAIN profile.structure
    /\ \A k \in DOMAIN default.structure :
          default.structure[k].name = profile.structure[k].name

Compatible(default, profile) == profile.structure = default.structure

\* apply_profile_to_default_mapping: a column the profile does not know keeps
\* its default
ProfileSubmission(default, profile) ==
    [structure |-> default.structure,
     choices |-> [id \in ColumnIds(default) |->
                     IF id \in DOMAIN profile.choices THEN profile.choices[id]
                     ELSE ChoicesOf(default)[id]]]
=============================================================================
