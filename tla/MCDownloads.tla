----------------------------- MODULE MCDownloads -----------------------------
(***************************************************************************)
(* Two dossiers: one with an image and another attachment, one the site    *)
(* refuses; two CSVs made by hand whose rows have no index, so that a name *)
(* is numbered, and the second gives the first number to another image;    *)
(* and a page saved earlier under the second number.                       *)
(***************************************************************************)
EXTENDS Downloads, TLC

Row(dossier, index, name, image, att) ==
    [dossier |-> dossier, index |-> index, name |-> name, image |-> image, att |-> att]

MCHandMade ==
    {<<Row(1, 0, "photo", TRUE, "face"), Row(1, 0, "photo", TRUE, "dos")>>,
     <<Row(1, 0, "photo", TRUE, "dos"), Row(1, 0, "", FALSE, None)>>}

MCLeftovers ==
    {[dossier |-> 1, index |-> 0, name |-> "photo", kind |-> "csv", occurrence |-> 2]
        :> [att |-> "dos", body |-> "page"]}

Attachment(name, image, att) == [name |-> name, image |-> image, att |-> att]

MCSites ==
    {(1 :> <<Attachment("statuts", FALSE, "acte"), Attachment("photo", TRUE, "face")>>)
       @@ (2 :> Refused)}
=============================================================================
