------------------------------ MODULE MCImages ------------------------------
(***************************************************************************)
(* Archives and tables whose names meet under one key and differ under     *)
(* another.                                                                *)
(***************************************************************************)
EXTENDS Images

Ids == {"d1", "D-1", "D 1", "1234", "12345"}
ImageNames == {"d1.jpg", "photo a.jpg", "Photo A.jpg", "photo_a.png", "12345.jpg"}
OneCase == ImageNames \ {"Photo A.jpg"}
OriginalTexts == {"photo a.jpg", "Photo-A.gif", "photo a.tif"}
Finals == {"d1.jpg", "d-1.jpg", "1234.jpg", "12345.jpg"}
Texts == Ids \cup ImageNames \cup OriginalTexts \cup Finals

MCFullName == [t \in Texts |-> t]
MCStem == [t \in Texts |->
    CASE t = "d1.jpg" -> "d1" [] t = "d-1.jpg" -> "d-1"
      [] t = "1234.jpg" -> "1234" [] t = "12345.jpg" -> "12345"
      [] t \in {"photo a.jpg", "photo a.tif"} -> "photo a" [] t = "photo_a.png" -> "photo_a"
      [] t = "Photo A.jpg" -> "Photo A" [] t = "Photo-A.gif" -> "Photo-A" [] OTHER -> t]
MCTolerant == [t \in Texts |->
    CASE t \in {"d1", "D-1", "D 1", "d1.jpg", "d-1.jpg"} -> "d1"
      [] t \in {"1234", "1234.jpg"} -> "1234" [] t \in {"12345", "12345.jpg"} -> "12345"
      [] OTHER -> "photoa"]
MCFolded == [t \in ImageNames |-> IF t = "Photo A.jpg" THEN "photo a.jpg" ELSE t]
MCLongKeys == {"1234", "12345", "photoa"}
MCWithin == {<<k, k>> : k \in MCLongKeys} \cup {<<"1234", "12345">>}
MCImageId == ("d1" :> "d1.jpg") @@ ("D-1" :> "d-1.jpg") @@ ("D 1" :> "d1.jpg")
             @@ ("1234" :> "1234.jpg") @@ ("12345" :> "12345.jpg")

-----------------------------------------------------------------------------
File(name) == [name |-> name, path |-> "", place |-> "file", encrypted |-> FALSE,
               folder |-> FALSE, kind |-> "image", size |-> 1, decoded |-> "image"]
Archive(entries) == [readable |-> TRUE, entries |-> entries]
Photo == File("photo a.jpg")

Sound == {Archive(<<File("12345.jpg")>>)} \cup {Archive([i \in 1 .. Cardinality(s) |-> File(SetToSeq(s)[i])]) :
            s \in {x \in SUBSET OneCase : Cardinality(x) = 2}}
         \cup {Archive(<<File("12345.jpg"), [Photo EXCEPT !.decoded = "unreadable"]>>),
               Archive(<<[Photo EXCEPT !.place = "system"], File("d1.jpg")>>),
               Archive(<<>>)}

Flaws == {[Photo EXCEPT !.path = "unsafe_path"], [Photo EXCEPT !.path = "empty_name"],
          [Photo EXCEPT !.path = "control_characters"], [Photo EXCEPT !.encrypted = TRUE],
          [Photo EXCEPT !.kind = "refused"], [Photo EXCEPT !.folder = TRUE],
          [Photo EXCEPT !.folder = TRUE, !.kind = "other"], [Photo EXCEPT !.size = 3],
          [Photo EXCEPT !.decoded = "oversized"],
          [Photo EXCEPT !.kind = "other", !.size = 5],
          [Photo EXCEPT !.place = "directory", !.size = 5]}

Flawed == {Archive(<<f>>) : f \in Flaws} \cup {[readable |-> FALSE, entries |-> <<>>],
             Archive(<<Photo, File("d1.jpg"), File("12345.jpg")>>),
             Archive(<<Photo, File("Photo A.jpg")>>)}

MCArchives == Sound \cup Flawed

-----------------------------------------------------------------------------
RowOf(id, names) == [id |-> id, names |-> names]
Named == {<<>>, <<"photo a.jpg">>, <<"Photo-A.gif">>, <<"photo a.tif", "photo a.jpg">>,
          <<"Photo-A.gif", "12345.jpg">>}

MCTables == {<<RowOf("d1", n), RowOf("D-1", m)>> : n \in Named, m \in {<<>>, <<"photo a.jpg">>}}
            \cup {<<RowOf("1234", n), RowOf("12345", <<>>)>> : n \in Named}
            \cup {<<RowOf("d1", <<>>), RowOf("D 1", <<"photo a.jpg">>)>>,
                  <<RowOf("D-1", <<"photo a.jpg">>), RowOf("D 1", <<"photo a.tif">>)>>}
=============================================================================
