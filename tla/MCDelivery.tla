------------------------------ MODULE MCDelivery ------------------------------
(***************************************************************************)
(* Two archives that differ by the image they give "d2" and by what they   *)
(* leave over, one that is refused, and tables of two or three dossiers.   *)
(***************************************************************************)
EXTENDS Delivery

ImageNames == {"d1.jpg", "d2.png", "plage.jpg"}
Ids == {"d1", "d2", "d3"}
Texts == Ids \cup ImageNames \cup {"d2.jpg", "d3.jpg"}

MCFullName == [t \in Texts |-> t]
MCStem == [t \in Texts |->
    CASE t = "d1.jpg" -> "d1" [] t \in {"d2.jpg", "d2.png"} -> "d2"
      [] t = "d3.jpg" -> "d3" [] t = "plage.jpg" -> "plage" [] OTHER -> t]
MCFolded == MCFullName
MCImageId == ("d1" :> "d1.jpg") @@ ("d2" :> "d2.jpg") @@ ("d3" :> "d3.jpg")

-----------------------------------------------------------------------------
File(name) == [name |-> name, path |-> "", place |-> "file", encrypted |-> FALSE,
               folder |-> FALSE, kind |-> "image", size |-> 1, decoded |-> "image"]
Archive(entries) == [readable |-> TRUE, entries |-> entries]

MCArchives ==
    {Archive(<<File("d1.jpg"), File("d2.png")>>),
     Archive(<<File("d1.jpg"), [File("d2.png") EXCEPT !.decoded = "unreadable"], File("plage.jpg")>>),
     Archive(<<[File("d1.jpg") EXCEPT !.encrypted = TRUE]>>)}

-----------------------------------------------------------------------------
RowOf(id, names) == [id |-> id, names |-> names]

MCTables ==
    {<<RowOf("d1", <<>>), RowOf("d2", <<"d2.png">>)>>,
     <<RowOf("d1", <<"plage.jpg">>), RowOf("d2", <<"d2.png">>), RowOf("d3", <<>>)>>,
     <<RowOf("d2", <<"d1.jpg">>), RowOf("d1", <<>>)>>}
=============================================================================
