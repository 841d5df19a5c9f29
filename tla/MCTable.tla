------------------------------ MODULE MCTable ------------------------------
(***************************************************************************)
(* The workbooks TLC starts from: one sheet of three rows of every shape   *)
(* the diagnosis tells apart, and two sheets that share identifiers.       *)
(***************************************************************************)
EXTENDS Table

CONSTANT HiddenSpellings  \* how a hidden row is written in the file

Words == {"Id", "Nom", "Region", "Dept", "Postal", "u", "v", "N/C", "jour", "?", "=1"}
Spelled == {"", " ", "a 1", "a  1", "7", "7.0", "01"}

MCCells == Words \cup Spelled

MCCanon == [c \in MCCells |-> CASE c = " " -> "" [] c = "a  1" -> "a 1" [] OTHER -> c]
MCIdent == [c \in MCCells |-> CASE c = " " -> "" [] c = "7.0" -> "7" [] OTHER -> c]
MCText == MCCanon
MCDateText == [c \in MCCells |-> IF c = "jour" THEN "01" ELSE ""]
MCFold == [c \in MCCells |-> CASE c = "" -> 0 [] c = "01" -> 1 [] c = "7" -> 2
                               [] c = "7.0" -> 3 [] c = "a 1" -> 4 [] c = "a  1" -> 4
                               [] c = "u" -> 5 [] c = "v" -> 6 [] OTHER -> 7]
MCNumber == [c \in MCCells |-> CASE c = "01" -> 1 [] c = "7" -> 7 [] c = "7.0" -> 7
                                 [] OTHER -> 0 - 1]
MCHeaderRole == [c \in MCCells |-> CASE c = "Id" -> "id_dossier" [] c = "Region" -> "region"
                                     [] c \in {"Dept", "Postal"} -> "departement"
                                     [] OTHER -> "texte"]
MCHeaderBody == [c \in MCCells |-> IF c \in {"", " ", "?", "=1"} THEN "" ELSE c]
MCLettered == (Words \ {"?", "=1"}) \cup {"a 1"}
MCImageId == [c \in MCCells |-> IF c = "" THEN "sans-id.jpg" ELSE "image de " \o c]
MCPathImg == [i \in {MCImageId[c] : c \in MCCells} |-> "racine:" \o i]
MCCleanBody == [b \in {"Dept", "?"} |-> IF b = "?" THEN "" ELSE b]

-----------------------------------------------------------------------------
Sheet(name, rows) == [name |-> name, shown |-> TRUE, hiddenColumns |-> FALSE,
                      merged |-> FALSE, rows |-> rows]
Row(cells) == [hidden |-> "no", cells |-> cells]

\* three rows of two cells, one of which may be hidden
ShapeRows == {<<"Id", "Nom">>, <<"Nom", "Id">>, <<"Id", "Id">>, <<"Id", "">>,
              <<"", "">>, <<"a 1", "u">>, <<"a  1", "N/C">>, <<" ", "u">>}

Shapes ==
    {<<Sheet("S1", [n \in 1 .. 3 |-> [hidden |-> IF n = k THEN h ELSE "no",
                                      cells |-> cells[n]]])>> :
        cells \in [1 .. 3 -> ShapeRows], k \in 0 .. 3, h \in HiddenSpellings}

\* the flaws of a sheet that do not depend on its cells
Plain == Sheet("S1", <<Row(<<"Id", "Nom">>), Row(<<"7", "u">>)>>)
Flawed == {<<[Plain EXCEPT !.shown = FALSE]>>, <<[Plain EXCEPT !.merged = TRUE]>>,
           <<[Plain EXCEPT !.hiddenColumns = TRUE]>>,
           <<[Plain EXCEPT !.rows[2].cells[2] = "=1"]>>,
           <<Plain, [Plain EXCEPT !.name = "S2"]>>, <<Sheet("S0", <<>>), Plain>>,
           <<Plain, Sheet("S2", [n \in 1 .. 5 |-> Row(<<"Id", "u">>)])>>}

\* two sheets with the same identifiers, spelt alike or not
DataRows(ids, values) == {Row(<<i, v>>) : i \in ids, v \in values}

Firsts == {<<r>> : r \in DataRows({"", "a 1", "7.0"}, {"u"})}
          \cup {<<r, s>> : r \in DataRows({"", "a 1", "7"}, {"u", ""}),
                          s \in DataRows({"a  1", "7.0"}, {"u"})}

Seconds == {<<r, s>> : r \in DataRows({"a  1"}, {"01", "jour"}) \cup DataRows({""}, {"01"}),
                       s \in {Row(<<"7", "01">>), Row(<<"a 1", "">>)}}
           \cup {<<Row(<<"7.0", "u">>)>>}

Pairs ==
    {<<Sheet("S1", <<Row(<<"Id", "Region">>)>> \o first),
       Sheet("S2", <<Row(<<"Id", "Dept">>)>> \o second)>> : first \in Firsts, second \in Seconds}
    \cup
    {<<Sheet("S1", <<Row(<<"Id", "Region">>)>> \o first),
       Sheet("S2", <<Row(<<"Id", "Postal">>), Row(<<"7", "01">>)>>)>> : first \in Firsts}

\* what replaces a workbook: the same structure below an empty row, another
Later ==
    {<<Sheet("S1", <<Row(<<"", "">>), Row(<<"Id", "Region">>), Row(<<"7", "v">>)>>),
       Sheet("S2", <<Row(<<"Id", "Dept">>), Row(<<"7", "u">>)>>)>>,
     <<Sheet("S1", <<Row(<<"Id", "Nom">>), Row(<<"7", "v">>)>>)>>}

MCWorkbooks == Shapes \cup Flawed \cup Pairs \cup Later
MCRedeposits == Later
=============================================================================
