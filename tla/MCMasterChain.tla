---------------------------- MODULE MCMasterChain ----------------------------
(***************************************************************************)
(* Tables that each script refuses for its own reason, tables it accepts,  *)
(* and images that are missing, alike, cut or found by one word.           *)
(***************************************************************************)
EXTENDS MasterChain, TLC

Names == <<"Region", "ID", "Departements", "Photo du produit", "Date", "ID dossier">>
MCHeadName == ("Region" :> "region") @@ ("ID" :> "id") @@ ("Departements" :> "departem")
              @@ ("Photo du produit" :> "photodup") @@ ("Date" :> "date")
              @@ ("ID dossier" :> "iddossie") @@ ("image-id" :> "imageid") @@ ("Numero" :> "numero")
MCOrder == ("#N/A" :> 0) @@ ("Alsace" :> 1) @@ ("Bretagne" :> 2) @@ ("29" :> 29) @@ ("35" :> 35) @@ ("67" :> 67)
MCDateText == "2025-09-01" :> "01/09/2025"
MCCleanText == (" 2" :> "2") @@ (" " :> "#N/A") @@ ("pain.jpg " :> "pain.jpg")
MCStripped == (" 2" :> "2") @@ (" " :> "") @@ ("pain.jpg " :> "pain.jpg")
MCRawImage == ("A.1" :> "dossier-A.1.jpg") @@ ("a1" :> "dossier-a1.jpg") @@ (" 2" :> "dossier- 2.jpg")
              @@ (" " :> "dossier- .jpg") @@ ("none" :> "dossier-none.jpg")
MCNormalised == ("dossier-A.1.jpg" :> "dossier-a1.jpg") @@ ("dossier-a1.jpg" :> "dossier-a1.jpg")
                @@ ("dossier- 2.jpg" :> "dossier-2.jpg") @@ ("dossier- .jpg" :> "dossier-.jpg")
                @@ ("dossier-none.jpg" :> "dossier-none.jpg")
MCExpected == ("A.1" :> "dossier-a1.jpg") @@ ("a1" :> "dossier-a1.jpg") @@ ("2" :> "dossier-2.jpg")

Files == {"pain.jpg", "pain.png", "Photophore_2025.jpg", "huile.jpg"}
Photos == Files \cup {"Photophore_bleu.tif", "perdue.jpg"}
MCSpaced == [p \in Photos |-> p]
MCBase == ("pain.jpg" :> "pain") @@ ("pain.png" :> "pain") @@ ("huile.jpg" :> "huile")
          @@ ("Photophore_2025.jpg" :> "Photophore_2025") @@ ("perdue.jpg" :> "perdue")
          @@ ("Photophore_bleu.tif" :> "Photophore_bleu")
MCKeyword == {<<"Photophore_bleu.tif", "Photophore_2025.jpg">>}
MCGalleries == {Files, {"pain.png", "huile.jpg"}}

-----------------------------------------------------------------------------
Row(region, id, department, photo) == <<region, id, department, photo, "2025-09-01", id>>
Undated(row) == [row EXCEPT ![5] = ""]
Sheet(names, rows) == [heads |-> [c \in DOMAIN names |-> [letter |-> 0, name |-> names[c]]], rows |-> rows]
Renamed(c, name) == [Names EXCEPT ![c] = name]

Plain == <<Row("Bretagne", "A.1", "35", "pain.jpg "), Row("Bretagne", " 2", "29", "N/A")>>

MCTables == {
    Sheet(Names, Plain),
    \* unsorted, no date; an identifier that is nothing to script 8, rows without
    \* identifier, of which the sort moves none that script 2 gave no image
    Sheet(Names, <<Undated(Row("", "", "", "pain.jpg")), Undated(Row("Bretagne", " 2", "29", "Photophore_bleu.tif")),
                   Undated(Row("Alsace", "A.1", "67", "huile.jpg")), Undated(Row("", "none", "", "pain.jpg")),
                   Undated(Row("", " ", "", ""))>>),
    \* a row without identifier that the sort moves
    Sheet(Names, <<Row("Bretagne", "A.1", "35", "pain.jpg"), Row("Alsace", "", "67", "huile.jpg")>>),
    \* two identifiers of one image name
    Sheet(Names, <<Row("Alsace", "A.1", "67", "pain.jpg"), Row("Alsace", "a1", "67", "huile.jpg")>>),
    \* a photo that is not there beside one that is
    Sheet(Names, <<Row("Alsace", " 2", "67", "perdue.jpg"), Row("Alsace", "a1", "67", "pain.jpg")>>),
    \* no "ID" column; nothing script 12 takes for it
    Sheet(Renamed(2, "Numero"), Plain),
    Sheet(Renamed(6, "Numero"), Plain)}
=============================================================================
