--------------------------- MODULE DeliveryProofs ---------------------------
(***************************************************************************)
(* Theorems about the images of a lot and what leaves the application, for *)
(* any archives, tables, keys, limits and roots, and however they and the  *)
(* choices of the user are replaced, and the validation, the matching, the *)
(* reports, the package, restarts and the loss of the archive follow each  *)
(* other.                                                                  *)
(*                                                                         *)
(* The first part is about Images: the search of one row, the bindings of  *)
(* a table, what the matching leaves, and the other steps, which drop the  *)
(* matching or keep it with what it was made from.  The second part is     *)
(* about Delivery.                                                         *)
(***************************************************************************)
EXTENDS Delivery, FiniteSetTheorems, WellFoundedInduction, SequenceTheorems, TLAPS

-----------------------------------------------------------------------------
(***************************************************************************)
(* The search of the image of one row.                                     *)
(***************************************************************************)

\* A set of indices has a first one.
LEMMA FirstIndex ==
  ASSUME NEW I \in SUBSET Nat, I # {}
  PROVE  \E i \in I : \A j \in I : i <= j
<1> DEFINE Less == {p \in Nat \X Nat : p[1] < p[2]}
<1>1. IsWellFoundedOn(Less, Nat)
  BY Zenon, NatLessThanWellFounded DEF OpToRel
<1>2. PICK i \in I : \A j \in I : ~(<<j, i>> \in Less)
  BY <1>1, WFMin
<1>3. ASSUME NEW j \in I PROVE i <= j
  <2>1. i \in Nat /\ j \in Nat
    OBVIOUS
  <2>2. j < i => <<j, i>> \in Less
    BY <2>1
  <2> QED BY <1>2, <2>1, <2>2
<1> QED BY <1>3

\* The search stops at a probe, or at none.
LEMMA SettledProbe ==
  ASSUME NEW S, NEW probes \in Seq(S)
  PROVE  SelectInSeq(probes, Settles) \in 0 .. Len(probes)
<1> DEFINE I == {i \in 1 .. Len(probes) : Settles(probes[i])}
<1>1. Len(probes) \in Nat /\ I \in SUBSET Nat
  BY LenProperties
<1>2. CASE I = {}
  BY <1>1, <1>2 DEF SelectInSeq
<1>3. CASE I # {}
  <2>1. PICK i \in I : \A j \in I : i <= j
    BY <1>1, <1>3, FirstIndex
  <2>2. SelectInSeq(probes, Settles) = Min(I)
    BY <1>3 DEF SelectInSeq
  <2>3. Min(I) \in I
    BY <2>1 DEF Min
  <2> QED BY <1>1, <2>2, <2>3
<1> QED BY <1>2, <1>3

Levels == {"original_exact", "original_exact_stem", "original_tolerant",
           "id_fallback_exact", "id_fallback_exact_final_name",
           "id_fallback_tolerant", "id_fallback_tolerant_final_name"}

\* What is found by a probe is in the archive.
Finds == [level : Levels, fallback : BOOLEAN, found : SUBSET KnownNames]

\* A probe finds images of the archive.
LEMMA ProbeFinds ==
  ASSUME NEW level \in Levels, NEW key, NEW text
  PROVE  Probe(level, key, text, FALSE) \in Finds /\ Probe(level, key, text, TRUE) \in Finds
BY DEF Probe, Finds

\* The probes made for the names of a row.
LEMMA NameProbes ==
  ASSUME NEW T, NEW names \in Seq(T), NEW level \in Levels, NEW key
  PROVE  [i \in DOMAIN names |-> Probe(level, key, names[i], FALSE)] \in Seq(Finds)
<1>1. PICK n \in Nat : DOMAIN names = 1 .. n
  BY LenProperties
<1>2. \A i \in 1 .. n : Probe(level, key, names[i], FALSE) \in Finds
  BY ProbeFinds
<1>3. [i \in DOMAIN names |-> Probe(level, key, names[i], FALSE)] \in [1 .. n -> Finds]
  BY <1>1, <1>2, Zenon
<1> QED BY <1>3, SeqDef, ZenonT(60)

\* A row is searched by a finite list of probes.
LEMMA RowProbes ==
  ASSUME NEW row, NEW T, row.names \in Seq(T)
  PROVE  Probes(row) \in Seq(Finds)
<1> DEFINE p1 == [i \in DOMAIN row.names |-> Probe("original_exact", FullName, row.names[i], FALSE)]
           p2 == [i \in DOMAIN row.names |-> Probe("original_exact_stem", Stem, row.names[i], FALSE)]
           p3 == [i \in DOMAIN row.names |-> Probe("original_tolerant", Tolerant, row.names[i], FALSE)]
           q1 == Probe("id_fallback_exact", Stem, row.id, TRUE)
           q2 == Probe("id_fallback_exact_final_name", Stem, ImageId[row.id], TRUE)
           q3 == Probe("id_fallback_tolerant", Tolerant, row.id, TRUE)
           q4 == Probe("id_fallback_tolerant_final_name", Tolerant, ImageId[row.id], TRUE)
<1>1. p1 \in Seq(Finds)
  BY NameProbes, Zenon DEF Levels
<1>2. p2 \in Seq(Finds)
  BY NameProbes, Zenon DEF Levels
<1>3. p3 \in Seq(Finds)
  BY NameProbes, Zenon DEF Levels
<1>4. q1 \in Finds
  BY ProbeFinds, Zenon DEF Levels
<1>5. q2 \in Finds
  BY ProbeFinds, Zenon DEF Levels
<1>6. q3 \in Finds
  BY ProbeFinds, Zenon DEF Levels
<1>7. q4 \in Finds
  BY ProbeFinds, Zenon DEF Levels
<1>8. Probes(row) = p1 \o p2 \o p3 \o <<q1, q2, q3, q4>>
  BY Zenon DEF Probes, OriginalNames
<1> HIDE DEF p1, p2, p3, q1, q2, q3, q4, Finds
<1>9. <<q1, q2, q3, q4>> \in Seq(Finds)
  BY <1>4, <1>5, <1>6, <1>7
<1> QED BY <1>1, <1>2, <1>3, <1>8, <1>9
-----------------------------------------------------------------------------
\* A binding of a row: what it keeps of the row, and its image when it has one.
IsBindingOf(b, row) ==
  /\ DOMAIN b = {"id", "final", "status", "level", "source", "fallback"}
  /\ b.id = row.id /\ b.final = ImageId[row.id]
  /\ b.status \in {"matched", "ambiguous", "missing"}
  /\ b.status = "matched" => b.source \in KnownNames

\* The fields of a binding.
LEMMA BindingFields ==
  ASSUME NEW row, NEW status, NEW level, NEW from, NEW fallback
  PROVE  /\ Binding(row, status, level, from, fallback).id = row.id
         /\ Binding(row, status, level, from, fallback).final = ImageId[row.id]
         /\ Binding(row, status, level, from, fallback).status = status
         /\ Binding(row, status, level, from, fallback).level = level
         /\ Binding(row, status, level, from, fallback).source = from
BY DEF Binding

\* Each binding the rules make.
LEMMA MadeBinding ==
  ASSUME NEW row, NEW status \in {"matched", "ambiguous", "missing"}, NEW level, NEW from,
         NEW fallback, status = "matched" => from \in KnownNames
  PROVE  IsBindingOf(Binding(row, status, level, from, fallback), row)
BY DEF IsBindingOf, Binding

\* The rules only give a row an image of the archive.
LEMMA AutomaticBinding ==
  ASSUME NEW row, NEW T, row.names \in Seq(T)
  PROVE  IsBindingOf(AutomaticMatch(row), row)
<1> DEFINE probes == Probes(row)
           at == SelectInSeq(probes, Settles)
           found == IF at = 0 THEN {} ELSE probes[at].found
<1>1. found \subseteq KnownNames
  <2>1. probes \in Seq(Finds)
    BY RowProbes
  <2> HIDE DEF probes
  <2>2. at \in 0 .. Len(probes)
    BY <2>1, SettledProbe
  <2> HIDE DEF at
  <2>3. CASE at = 0
    BY <2>3
  <2>4. CASE at # 0
    <3>1. probes[at] \in Finds
      BY <2>1, <2>2, <2>4, ElementOfSeq
    <3> QED BY <2>4, <3>1 DEF Finds
  <2> QED BY <2>3, <2>4
<1>2. AutomaticMatch(row) =
        CASE Cardinality(found) = 1 ->
               Binding(row, "matched", probes[at].level, CHOOSE n \in found : TRUE,
                       probes[at].fallback)
          [] Cardinality(found) > 1 ->
               Binding(row, "ambiguous", probes[at].level, "", probes[at].fallback)
          [] found = {} /\ PartialSuggestions(row) # {} ->
               Binding(row, "ambiguous", "partial_suggestion", "", FALSE)
          [] OTHER -> Binding(row, "missing", "none", "", FALSE)
  BY Zenon DEF AutomaticMatch
<1> HIDE DEF probes, at, found
<1>3. Cardinality(found) = 1 => (CHOOSE n \in found : TRUE) \in KnownNames
  <2>1. found = {} => Cardinality(found) = 0
    BY FS_EmptySet, Zenon
  <2>2. found # {} => (CHOOSE n \in found : TRUE) \in found
    BY Zenon
  <2> QED BY <1>1, <2>1, <2>2
<1>4. CASE Cardinality(found) = 1
  <2>1. AutomaticMatch(row) = Binding(row, "matched", probes[at].level,
                                      CHOOSE n \in found : TRUE, probes[at].fallback)
    <3>1. ~(Cardinality(found) > 1) /\ found # {}
      BY <1>4, FS_EmptySet
    <3> QED BY <1>2, <1>4, <3>1
  <2> QED BY <1>3, <1>4, <2>1, MadeBinding
<1>5. CASE Cardinality(found) # 1
  <2>1. \/ AutomaticMatch(row) = Binding(row, "ambiguous", probes[at].level, "", probes[at].fallback)
        \/ AutomaticMatch(row) = Binding(row, "ambiguous", "partial_suggestion", "", FALSE)
        \/ AutomaticMatch(row) = Binding(row, "missing", "none", "", FALSE)
    BY <1>2, <1>5
  <2> QED BY <2>1, MadeBinding
<1> QED BY <1>4, <1>5

\* The image the user chose is given as it is named, or not at all.
LEMMA ManualBinding ==
  ASSUME NEW row, NEW chosen
  PROVE  IsBindingOf(ManualMatch(row, chosen), row)
<1> DEFINE images == {n \in KnownNames : FullName[n] = FullName[chosen[row.id]]}
<1>1. ManualMatch(row, chosen) =
        IF chosen[row.id] \in ManualCollisions(chosen) \/ images = {}
        THEN Binding(row, "ambiguous", "manual_invalid", "", FALSE)
        ELSE Binding(row, "matched", "manual", CHOOSE n \in images : TRUE, FALSE)
  BY DEF ManualMatch
<1>2. images # {} => (CHOOSE n \in images : TRUE) \in KnownNames
  OBVIOUS
<1> HIDE DEF images
<1> QED BY <1>1, <1>2, MadeBinding

\* A row gets a binding; an image only when no other row ends in its name.
LEMMA RowBinding ==
  ASSUME NEW row, NEW T, row.names \in Seq(T), NEW chosen
  PROVE  /\ IsBindingOf(MatchRow(row, chosen), row)
         /\ ImageId[row.id] \in FinalCollisions =>
               /\ MatchRow(row, chosen).status = "ambiguous"
               /\ MatchRow(row, chosen).level = "final_name_collision"
<1>1. CASE ImageId[row.id] \in FinalCollisions
  <2> DEFINE b == Binding(row, "ambiguous", "final_name_collision", "", FALSE)
  <2>1. MatchRow(row, chosen) = b
    BY <1>1 DEF MatchRow
  <2>2. b.status = "ambiguous" /\ b.level = "final_name_collision"
    BY DEF Binding
  <2>3. IsBindingOf(b, row)
    BY MadeBinding
  <2> QED BY <2>1, <2>2, <2>3
<1>2. CASE ImageId[row.id] \notin FinalCollisions
  <2>1. MatchRow(row, chosen) = ManualMatch(row, chosen) \/ MatchRow(row, chosen) = AutomaticMatch(row)
    BY <1>2 DEF MatchRow
  <2> QED BY <1>2, <2>1, ManualBinding, AutomaticBinding
<1> QED BY <1>1, <1>2

\* A binding whose status or level changes keeps the rest.
LEMMA Changed ==
  ASSUME NEW row, NEW b, IsBindingOf(b, row), NEW status
  PROVE  /\ \A level : LET c == [b EXCEPT !.status = status, !.level = level]
                       IN /\ DOMAIN c = DOMAIN b
                          /\ c.id = b.id /\ c.final = b.final /\ c.source = b.source
                          /\ c.status = status
         /\ LET c == [b EXCEPT !.status = status]
            IN /\ DOMAIN c = DOMAIN b
               /\ c.id = b.id /\ c.final = b.final /\ c.source = b.source
               /\ c.status = status /\ c.level = b.level
BY DEF IsBindingOf

-----------------------------------------------------------------------------
(***************************************************************************)
(* The bindings of a table.                                                *)
(***************************************************************************)

\* Every row of the table keeps its place, and an image goes to one row.
LEMMA TableBindings ==
  ASSUME NEW T, \A i \in DOMAIN Rows : Rows[i].names \in Seq(T), NEW chosen
  PROVE  /\ DOMAIN Bindings(chosen) = DOMAIN Rows
         /\ \A i \in DOMAIN Rows :
               /\ IsBindingOf(Bindings(chosen)[i], Rows[i])
               /\ Bindings(chosen)[i].source = MatchRow(Rows[i], chosen).source
               /\ ImageId[Rows[i].id] \in FinalCollisions =>
                     /\ Bindings(chosen)[i].status = "ambiguous"
                     /\ Bindings(chosen)[i].level = "final_name_collision"
         /\ \A i, j \in DOMAIN Rows :
               /\ i # j
               /\ Bindings(chosen)[i].status = "matched" /\ Bindings(chosen)[j].status = "matched"
               => Bindings(chosen)[i].source # Bindings(chosen)[j].source
         /\ \A i \in DOMAIN Rows :
               MatchRow(Rows[i], chosen).status = "matched" =>
                  Bindings(chosen)[i].status = "matched" \/ SourceIsDisputed(Bindings(chosen), i)
<1> DEFINE M == [i \in DOMAIN Rows |-> MatchRow(Rows[i], chosen)]
           shared(b) == /\ b.status = "matched"
                        /\ \E i, j \in DOMAIN M :
                              /\ i # j /\ M[i].source = b.source /\ M[j].source = b.source
                              /\ {M[i].status, M[j].status} = {"matched"}
           B == [i \in DOMAIN M |->
                   IF shared(M[i])
                   THEN [M[i] EXCEPT !.status = "ambiguous", !.level = "source_duplicate"]
                   ELSE M[i]]
<1>1. Bindings(chosen) = B
  BY Zenon DEF Bindings, MarkDuplicateSources
<1>2. \A i \in DOMAIN Rows :
         /\ M[i] = MatchRow(Rows[i], chosen)
         /\ IsBindingOf(M[i], Rows[i])
         /\ ImageId[Rows[i].id] \in FinalCollisions =>
               M[i].status = "ambiguous" /\ M[i].level = "final_name_collision"
  BY RowBinding
<1>3. DOMAIN B = DOMAIN Rows /\ DOMAIN M = DOMAIN Rows
  BY Zenon
<1>4. ASSUME NEW i \in DOMAIN Rows, ~shared(M[i])
      PROVE  B[i] = M[i]
  BY <1>4, Zenon
<1>5. ASSUME NEW i \in DOMAIN Rows, shared(M[i])
      PROVE  /\ IsBindingOf(B[i], Rows[i])
             /\ B[i].source = M[i].source /\ B[i].status = "ambiguous"
             /\ B[i].level = "source_duplicate"
             /\ ImageId[Rows[i].id] \notin FinalCollisions
  <2>1. B[i] = [M[i] EXCEPT !.status = "ambiguous", !.level = "source_duplicate"]
    BY <1>5, Zenon
  <2>2. M[i].status = "matched"
    BY <1>5, Zenon
  <2> HIDE DEF B, M
  <2>3. IsBindingOf(M[i], Rows[i])
    BY <1>2
  <2>4. /\ DOMAIN B[i] = DOMAIN M[i]
        /\ B[i].id = M[i].id /\ B[i].final = M[i].final /\ B[i].source = M[i].source
        /\ B[i].status = "ambiguous"
    BY <2>1, <2>3, Changed
  <2>6. B[i].level = "source_duplicate"
    BY <2>1, <2>3 DEF IsBindingOf
  <2>5. IsBindingOf(B[i], Rows[i])
    BY <2>3, <2>4 DEF IsBindingOf
  <2>7. ImageId[Rows[i].id] \notin FinalCollisions
    BY <1>2, <2>2
  <2> QED BY <2>4, <2>5, <2>6, <2>7
<1>6. ASSUME NEW i \in DOMAIN Rows, NEW j \in DOMAIN Rows, i # j,
             M[i].status = "matched", M[j].status = "matched", M[i].source = M[j].source
      PROVE  shared(M[i])
  <2>1. i \in DOMAIN M /\ j \in DOMAIN M
    BY <1>3
  <2>2. {M[i].status, M[j].status} = {"matched"}
    BY <1>6
  <2> HIDE DEF M
  <2> QED BY <1>6, <2>1, <2>2
<1>9. ASSUME NEW i \in DOMAIN Rows, shared(M[i])
      PROVE  \E j \in DOMAIN Rows : j # i /\ M[j].status = "matched" /\ M[j].source = M[i].source
  <2> HIDE DEF M
  <2>1. PICK k, l \in DOMAIN M : /\ k # l /\ M[k].source = M[i].source /\ M[l].source = M[i].source
                                 /\ {M[k].status, M[l].status} = {"matched"}
    BY <1>9
  <2>2. M[k].status = "matched" /\ M[l].status = "matched"
    BY <2>1
  <2>3. k \in DOMAIN Rows /\ l \in DOMAIN Rows
    BY <1>3
  <2> QED BY <2>1, <2>2, <2>3
<1>10. ASSUME NEW i \in DOMAIN Rows, shared(M[i]), NEW j \in DOMAIN Rows,
              M[j].status = "matched", M[j].source = M[i].source
       PROVE  shared(M[j])
  <2> HIDE DEF M
  <2> QED BY <1>10
<1> HIDE DEF M, B, shared
<1>7. ASSUME NEW i \in DOMAIN Rows
      PROVE  /\ IsBindingOf(B[i], Rows[i]) /\ B[i].source = M[i].source
             /\ ImageId[Rows[i].id] \in FinalCollisions =>
                   B[i].status = "ambiguous" /\ B[i].level = "final_name_collision"
             /\ B[i].status = "matched" => ~shared(M[i]) /\ M[i].status = "matched"
  <2>1. CASE shared(M[i])
    BY <1>5, <2>1
  <2>2. CASE ~shared(M[i])
    BY <1>2, <1>4, <2>2
  <2> QED BY <2>1, <2>2
<1>8. ASSUME NEW i \in DOMAIN Rows, NEW j \in DOMAIN Rows, i # j,
             B[i].status = "matched", B[j].status = "matched"
      PROVE  B[i].source # B[j].source
  BY <1>6, <1>7, <1>8
<1>11. ASSUME NEW i \in DOMAIN Rows, M[i].status = "matched"
       PROVE  B[i].status = "matched" \/ SourceIsDisputed(B, i)
  <2>1. CASE shared(M[i])
    <3>1. PICK j \in DOMAIN Rows : j # i /\ M[j].status = "matched" /\ M[j].source = M[i].source
      BY <1>9, <2>1
    <3>2. shared(M[j])
      BY <1>10, <2>1, <3>1
    <3>3. \A k \in {i, j} : /\ B[k].status = "ambiguous" /\ B[k].level = "source_duplicate"
                            /\ B[k].source = B[i].source
      BY <1>5, <2>1, <3>1, <3>2
    <3> QED BY <1>3, <3>1, <3>3 DEF SourceIsDisputed
  <2>2. CASE ~shared(M[i])
    BY <1>4, <1>11, <2>2
  <2> QED BY <2>1, <2>2
<1> QED BY <1>1, <1>2, <1>3, <1>7, <1>8, <1>11

-----------------------------------------------------------------------------
(***************************************************************************)
(* What the state keeps: the products come from what was deposited, and    *)
(* the user never chose an image twice.                                    *)
(***************************************************************************)

Grounded ==
  /\ archive # None => archive \in Archives
  /\ inspection # None => \E a \in Archives : inspection = InspectImageZip(a)
  /\ table # None => table \in Tables
  /\ IsInjective(resolutions)
  /\ matching # None => inspection # None /\ table # None

\* Nothing is deposited at first.
LEMMA GroundedInit == Init => Grounded
BY DEF Init, Grounded, NoResolution, IsInjective

\* Every step keeps the products grounded.
LEMMA GroundedStep == Grounded /\ [Next]_imageVars => Grounded'
<1> SUFFICES ASSUME Grounded, [Next]_imageVars
             PROVE  Grounded'
  OBVIOUS
<1>1. ASSUME NEW a \in Archives, Deposit(a)
      PROVE  Grounded'
  BY <1>1 DEF Grounded, Deposit, IsInjective
<1>2. CASE Inspect
  <2>1. /\ inspection = None /\ archive \in Archives
        /\ UNCHANGED <<archive, table, resolutions, matching>>
    BY <1>2 DEF Inspect, Grounded
  <2>2. inspection' = InspectImageZip(archive)
    BY <1>2 DEF Inspect
  <2>3. matching' = None
    BY <2>1 DEF Grounded
  <2>4. /\ archive' # None => archive' \in Archives
        /\ inspection' # None => \E a \in Archives : inspection' = InspectImageZip(a)
        /\ table' # None => table' \in Tables
        /\ IsInjective(resolutions')
    BY <2>1, <2>2 DEF Grounded, IsInjective
  <2> QED BY <2>3, <2>4 DEF Grounded
<1>3. ASSUME NEW t \in Tables, Normalize(t)
      PROVE  Grounded'
  BY <1>3 DEF Grounded, Normalize, IsInjective
<1>4. CASE Match
  BY <1>4 DEF Grounded, Match, Inspected, IsInjective
<1>5. ASSUME NEW s \in Submissions, Resolve(s)
      PROVE  Grounded'
  BY <1>5 DEF Grounded, Resolve, Accepted
<1>6. CASE UNCHANGED imageVars
  BY <1>6 DEF Grounded, imageVars, IsInjective
<1> QED BY <1>1, <1>2, <1>3, <1>4, <1>5, <1>6 DEF Next

\* The archive is named as it is looked up: one image under a full name.
LEMMA NamesAreDistinct ==
  ASSUME Grounded, Inspected, NEW n \in KnownNames, NEW m \in KnownNames,
         FullName[n] = FullName[m]
  PROVE  n = m
<1>1. PICK a \in Archives : inspection = InspectImageZip(a)
  BY DEF Grounded, Inspected
<1> DEFINE found == Blockers(a.entries)
           oversized == \E e \in RootImages(a.entries) : e.decoded = "oversized"
<1>2. inspection = IF ~a.readable THEN [images |-> {}, blockers |-> {"unreadable"}]
                   ELSE [images |-> RootImages(a.entries),
                         blockers |-> IF found = {} /\ oversized THEN {"dimensions_exceeded"}
                                      ELSE found]
  BY <1>1, Zenon DEF InspectImageZip
<1> HIDE DEF found, oversized
<1>3. inspection.images = RootImages(a.entries) /\ found = {}
  BY <1>2 DEF Inspected
<1>4. ~DuplicateNames(a.entries)
  BY <1>3 DEF found, Blockers, BlockerCodes
<1>5. PICK i, j \in DOMAIN a.entries :
         /\ n = a.entries[i].name /\ IsRootImage(a.entries[i])
         /\ m = a.entries[j].name /\ IsRootImage(a.entries[j])
  BY <1>3 DEF KnownNames, RootImages, Range
<1>6. Folded[n] = Folded[m]
  BY <1>5, ImagesAssumption
<1> QED BY <1>4, <1>5, <1>6 DEF DuplicateNames

\* The names of an accepted archive are those of its images.
LEMMA NamesAreFull ==
  ASSUME Grounded, Inspected, NEW n \in KnownNames
  PROVE  FullName[n] # ""
<1>1. PICK a \in Archives : inspection = InspectImageZip(a)
  BY DEF Grounded, Inspected
<1>2. PICK e \in inspection.images : n = e.name
  BY DEF KnownNames
<1>3. e \in RootImages(a.entries)
  BY <1>1, <1>2 DEF InspectImageZip
<1>4. n \in DOMAIN Folded
  BY <1>2, <1>3, ImagesAssumption DEF RootImages, Range
<1> QED BY <1>4, ImagesAssumption

\* Under its full name a text finds the images whose full name is the same.
LEMMA ExactProbe ==
  ASSUME NEW t
  PROVE  /\ Probe("original_exact", FullName, t, FALSE).level = "original_exact"
         /\ \A m : m \in Probe("original_exact", FullName, t, FALSE).found
                     <=> m \in KnownNames /\ FullName[t] # "" /\ FullName[m] = FullName[t]
BY DEF Probe

\* The search of a row that names an image of the archive in full stops at one
\* so named: only full names are looked for before it, and each finds one image
\* or none.
LEMMA NamedSearch ==
  ASSUME Grounded, Inspected, NEW row, NEW T, row.names \in Seq(T),
         NEW n \in KnownNames, NEW k \in DOMAIN row.names, FullName[n] = FullName[row.names[k]]
  PROVE  \E m \in KnownNames : /\ FullName[m] \in {FullName[t] : t \in Range(row.names)}
                               /\ AutomaticMatch(row).source = m
<1> DEFINE p1 == [i \in DOMAIN row.names |-> Probe("original_exact", FullName, row.names[i], FALSE)]
           p2 == [i \in DOMAIN row.names |-> Probe("original_exact_stem", Stem, row.names[i], FALSE)]
           p3 == [i \in DOMAIN row.names |-> Probe("original_tolerant", Tolerant, row.names[i], FALSE)]
           q1 == Probe("id_fallback_exact", Stem, row.id, TRUE)
           q2 == Probe("id_fallback_exact_final_name", Stem, ImageId[row.id], TRUE)
           q3 == Probe("id_fallback_tolerant", Tolerant, row.id, TRUE)
           q4 == Probe("id_fallback_tolerant_final_name", Tolerant, ImageId[row.id], TRUE)
           q == <<q1, q2, q3, q4>>
           probes == Probes(row)
           I == {i \in 1 .. Len(probes) : Settles(probes[i])}
           at == SelectInSeq(probes, Settles)
<1>1. probes = p1 \o p2 \o p3 \o q
  BY Zenon DEF Probes, OriginalNames
<1>2. /\ p1 \in Seq(Finds) /\ p2 \in Seq(Finds) /\ p3 \in Seq(Finds)
      /\ q \in Seq(Finds) /\ probes \in Seq(Finds)
  <2>1. p1 \in Seq(Finds)
    BY NameProbes, Zenon DEF Levels
  <2>2. p2 \in Seq(Finds)
    BY NameProbes, Zenon DEF Levels
  <2>3. p3 \in Seq(Finds)
    BY NameProbes, Zenon DEF Levels
  <2>4. q1 \in Finds /\ q2 \in Finds /\ q3 \in Finds /\ q4 \in Finds
    BY ProbeFinds, Zenon DEF Levels
  <2>5. q \in Seq(Finds)
    <3> HIDE DEF q1, q2, q3, q4, Finds
    <3> QED BY <2>4
  <2>6. probes \in Seq(Finds)
    BY RowProbes
  <2> QED BY <2>1, <2>2, <2>3, <2>5, <2>6
<1>3. PICK N \in Nat : DOMAIN row.names = 1 .. N /\ Len(p1) = N
  <2>1. PICK N \in Nat : DOMAIN row.names = 1 .. N
    BY LenProperties
  <2>2. DOMAIN p1 = 1 .. N
    BY <2>1, Zenon
  <2>3. Len(p1) = N
    BY <1>2, <2>1, <2>2, LenProperties
  <2> QED BY <2>1, <2>3
<1>4. ASSUME NEW i \in 1 .. N
      PROVE  i \in 1 .. Len(probes) /\ probes[i] = Probe("original_exact", FullName, row.names[i], FALSE)
  <2>1. p1[i] = Probe("original_exact", FullName, row.names[i], FALSE)
    BY <1>3, Zenon
  <2> HIDE DEF p1, p2, p3, q, probes
  <2>2. i \in 1 .. Len(p1 \o p2 \o p3 \o q) /\ (p1 \o p2 \o p3 \o q)[i] = p1[i]
    BY <1>2, <1>3
  <2> QED BY <1>1, <2>1, <2>2
<1> HIDE DEF p1, p2, p3, q, probes
<1>5. ASSUME NEW i \in 1 .. N
      PROVE  /\ probes[i].level = "original_exact"
             /\ \A m : m \in probes[i].found <=> /\ m \in KnownNames /\ FullName[row.names[i]] # ""
                                                /\ FullName[m] = FullName[row.names[i]]
  <2>1. probes[i] = Probe("original_exact", FullName, row.names[i], FALSE)
    BY <1>4
  <2>2. /\ Probe("original_exact", FullName, row.names[i], FALSE).level = "original_exact"
        /\ \A m : m \in Probe("original_exact", FullName, row.names[i], FALSE).found
                    <=> /\ m \in KnownNames /\ FullName[row.names[i]] # ""
                        /\ FullName[m] = FullName[row.names[i]]
    BY ExactProbe, Zenon
  <2> QED BY <2>1, <2>2, Zenon
<1>6. k \in I
  <2>1. k \in 1 .. N
    BY <1>3
  <2>2. FullName[n] # ""
    BY NamesAreFull
  <2>3. probes[k].found = {n}
    <3>1. \A m : m \in probes[k].found <=> m \in KnownNames /\ FullName[m] = FullName[n]
      BY <1>5, <2>1, <2>2
    <3>2. \A m \in KnownNames : FullName[m] = FullName[n] => m = n
      BY NamesAreDistinct
    <3> QED BY <3>1, <3>2
  <2>4. Cardinality({n}) = 1
    BY FS_Singleton
  <2> QED BY <1>4, <2>1, <2>3, <2>4 DEF Settles
<1>7. Len(probes) \in Nat /\ I \in SUBSET Nat
  BY <1>2, LenProperties
<1>8. at \in I /\ at <= k
  <2>1. PICK i \in I : \A j \in I : i <= j
    BY <1>6, <1>7, FirstIndex
  <2>2. at = Min(I)
    BY <1>6 DEF SelectInSeq
  <2>3. Min(I) \in I /\ \A j \in I : Min(I) <= j
    BY <2>1 DEF Min
  <2> QED BY <1>6, <2>2, <2>3
<1>9. at \in 1 .. N
  BY <1>3, <1>7, <1>8
<1> HIDE DEF at, I
<1>10. Settles(probes[at])
  BY <1>8 DEF I
<1>11. Cardinality(probes[at].found) = 1
  BY <1>5, <1>9, <1>10 DEF Settles
<1>12. probes[at].found # {}
  <2>1. probes[at].found = {} => Cardinality(probes[at].found) = 0
    BY FS_EmptySet, Zenon
  <2> QED BY <1>11, <2>1
<1>13. AutomaticMatch(row) = Binding(row, "matched", probes[at].level,
                                     CHOOSE m \in probes[at].found : TRUE, probes[at].fallback)
  <2> DEFINE found == IF at = 0 THEN {} ELSE probes[at].found
  <2>1. found = probes[at].found
    BY <1>9
  <2>2. AutomaticMatch(row) =
          CASE Cardinality(found) = 1 ->
                 Binding(row, "matched", probes[at].level, CHOOSE m \in found : TRUE,
                         probes[at].fallback)
            [] Cardinality(found) > 1 ->
                 Binding(row, "ambiguous", probes[at].level, "", probes[at].fallback)
            [] found = {} /\ PartialSuggestions(row) # {} ->
                 Binding(row, "ambiguous", "partial_suggestion", "", FALSE)
            [] OTHER -> Binding(row, "missing", "none", "", FALSE)
    BY Zenon DEF AutomaticMatch, at, probes
  <2> HIDE DEF found
  <2>3. ~(Cardinality(found) > 1) /\ found # {} /\ Cardinality(found) = 1
    BY <1>11, <1>12, <2>1
  <2> QED BY <2>1, <2>2, <2>3
<1> DEFINE m == CHOOSE x \in probes[at].found : TRUE
<1>14. m \in probes[at].found
  BY <1>12
<1>15. AutomaticMatch(row).source = m
  BY <1>13, BindingFields
<1> HIDE DEF m
<1>16. m \in KnownNames /\ FullName[m] = FullName[row.names[at]]
  BY <1>5, <1>9, <1>14
<1>17. row.names[at] \in Range(row.names)
  BY <1>3, <1>9 DEF Range
<1> QED BY <1>15, <1>16, <1>17

\* What a step does to the names and rows when it keeps the archive and table.
LEMMA SameInputs ==
  ASSUME UNCHANGED <<inspection, table>>
  PROVE  KnownNames' = KnownNames /\ Rows' = Rows
BY DEF KnownNames, Rows

\* The association the matching leaves, row by row.
LEMMA MatchBindings ==
  ASSUME Grounded, Match
  PROVE  /\ Inspected /\ table \in Tables
         /\ UNCHANGED <<archive, inspection, table, resolutions>>
         /\ \A i \in DOMAIN Rows : Rows[i].names \in Seq(DOMAIN FullName)
         /\ matching'.unreferenced = Unreferenced(Bindings(resolutions))
         /\ matching'.images = ProcessedImages(matching'.bindings)
         /\ DOMAIN matching'.bindings = DOMAIN Rows
         /\ DOMAIN Bindings(resolutions) = DOMAIN Rows
         /\ \A i \in DOMAIN Rows :
               LET b == Bindings(resolutions)[i]
                   c == matching'.bindings[i]
               IN /\ c.id = Rows[i].id /\ c.final = ImageId[Rows[i].id]
                  /\ c.source = b.source /\ c.level = b.level
                  /\ c.status \in {"matched", "conversion_failed"} <=> b.status = "matched"
                  /\ c.status = "matched" => b.status = "matched"
                  /\ c.status \in {"matched", "ambiguous", "missing", "conversion_failed"}
                  /\ b.status = "ambiguous" => c.status = "ambiguous"
<1> DEFINE B == Bindings(resolutions)
           C == [i \in DOMAIN B |-> Converted(B[i])]
<1>1. Inspected /\ table \in Tables
  BY DEF Match, Grounded
<1>2. \A i \in DOMAIN Rows : Rows[i].names \in Seq(DOMAIN FullName)
  BY <1>1, ImagesAssumption DEF Rows
<1>3. matching' = [bindings |-> C, unreferenced |-> Unreferenced(B), images |-> ProcessedImages(C)]
  BY DEF Match
<1>4. DOMAIN B = DOMAIN Rows
  BY <1>2, TableBindings
<1>5. ASSUME NEW i \in DOMAIN Rows
      PROVE  IsBindingOf(B[i], Rows[i])
  BY <1>2, TableBindings
<1> HIDE DEF B
<1>6. ASSUME NEW i \in DOMAIN Rows
      PROVE  /\ C[i].id = Rows[i].id /\ C[i].final = ImageId[Rows[i].id]
             /\ C[i].source = B[i].source /\ C[i].level = B[i].level
             /\ C[i].status \in {"matched", "conversion_failed"} <=> B[i].status = "matched"
             /\ C[i].status = "matched" => B[i].status = "matched"
             /\ C[i].status \in {"matched", "ambiguous", "missing", "conversion_failed"}
             /\ B[i].status = "ambiguous" => C[i].status = "ambiguous"
  <2>1. C[i] = Converted(B[i])
    BY <1>4
  <2> HIDE DEF C
  <2>2. CASE Converted(B[i]) = B[i]
    BY <1>5, <2>1, <2>2 DEF IsBindingOf
  <2>3. CASE Converted(B[i]) # B[i]
    <3>1. B[i].status = "matched" /\ C[i] = [B[i] EXCEPT !.status = "conversion_failed"]
      BY <2>1, <2>3 DEF Converted
    <3> QED BY <1>5, <3>1, Changed DEF IsBindingOf
  <2> QED BY <2>2, <2>3
<1>7. UNCHANGED <<archive, inspection, table, resolutions>>
  BY DEF Match
<1>8. DOMAIN C = DOMAIN Rows
  BY <1>4
<1> HIDE DEF C
<1>9. /\ matching'.bindings = C /\ matching'.unreferenced = Unreferenced(B)
      /\ matching'.images = ProcessedImages(matching'.bindings)
  BY <1>3
<1> QED BY <1>1, <1>2, <1>4, <1>6, <1>7, <1>8, <1>9 DEF B

\* A step that does not match either drops the association or keeps it with
\* what it was made from.
LEMMA OtherSteps ==
  ASSUME Grounded, [Next]_imageVars, ~Match
  PROVE  matching' = None \/ UNCHANGED <<inspection, table, resolutions, matching>>
<1>1. ASSUME NEW a \in Archives, Deposit(a)
      PROVE  matching' = None
  BY <1>1 DEF Deposit
<1>2. CASE Inspect
  BY <1>2 DEF Inspect, Grounded
<1>3. ASSUME NEW t \in Tables, Normalize(t)
      PROVE  matching' = None
  BY <1>3 DEF Normalize
<1>4. ASSUME NEW s \in Submissions, Resolve(s)
      PROVE  matching' = None
  BY <1>4 DEF Resolve
<1> QED BY <1>1, <1>2, <1>3, <1>4 DEF Next, imageVars

-----------------------------------------------------------------------------
(***************************************************************************)
(* The matching keeps each property.                                       *)
(***************************************************************************)

\* After the matching every image is given or listed as given to none.
LEMMA MatchAccounts == Grounded /\ Match => EveryImageIsAccountedFor'
<1> SUFFICES ASSUME Grounded, Match
             PROVE  EveryImageIsAccountedFor'
  OBVIOUS
<1> DEFINE B == Bindings(resolutions)
           C == matching'.bindings
           given == {b.source : b \in {x \in Range(C) : x.status \in {"matched", "conversion_failed"}}}
           matched == {b.source : b \in {x \in Range(B) : x.status = "matched"}}
<1>1. KnownNames' = KnownNames /\ Rows' = Rows
  BY MatchBindings, SameInputs
<1>2. /\ DOMAIN C = DOMAIN Rows /\ DOMAIN B = DOMAIN Rows
      /\ \A i \in DOMAIN Rows :
            /\ C[i].id = Rows[i].id /\ C[i].source = B[i].source
            /\ C[i].status \in {"matched", "conversion_failed"} <=> B[i].status = "matched"
  BY MatchBindings
<1>3. matching'.unreferenced = KnownNames \ matched
  BY MatchBindings DEF Unreferenced
<1>4. \A i \in DOMAIN Rows : B[i].status = "matched" => B[i].source \in KnownNames
  BY MatchBindings, TableBindings DEF IsBindingOf
<1> HIDE DEF B, C
<1>5. given = matched
  BY <1>2 DEF Range
<1>6. matched \subseteq KnownNames
  BY <1>2, <1>4 DEF Range
<1>7. /\ given \cap matching'.unreferenced = {}
      /\ given \cup matching'.unreferenced = KnownNames
  BY <1>3, <1>5, <1>6
<1> QED BY <1>1, <1>2, <1>7 DEF EveryImageIsAccountedFor, C

\* After the matching an image and a final name serve one dossier.
LEMMA MatchServesOneDossier == Grounded /\ Match => ImagesServeOneDossier'
<1> SUFFICES ASSUME Grounded, Match
             PROVE  ImagesServeOneDossier'
  OBVIOUS
<1> DEFINE B == Bindings(resolutions)
           C == matching'.bindings
           given == {i \in DOMAIN C : C[i].status \in {"matched", "conversion_failed"}}
<1>1. /\ table \in Tables
      /\ DOMAIN C = DOMAIN Rows
      /\ \A i \in DOMAIN Rows :
            /\ C[i].final = ImageId[Rows[i].id] /\ C[i].source = B[i].source
            /\ C[i].status \in {"matched", "conversion_failed"} <=> B[i].status = "matched"
  BY MatchBindings
<1>2. \A i \in DOMAIN Rows : ImageId[Rows[i].id] \in FinalCollisions => B[i].status = "ambiguous"
  BY MatchBindings, TableBindings
<1>3. \A i, j \in DOMAIN Rows :
         i # j /\ B[i].status = "matched" /\ B[j].status = "matched" => B[i].source # B[j].source
  BY MatchBindings, TableBindings
<1>4. \A i, j \in DOMAIN Rows : i # j => Rows[i].id # Rows[j].id
  BY <1>1, ImagesAssumption DEF Rows
<1>5. matching'.images = ProcessedImages(C)
  BY MatchBindings
<1> HIDE DEF B, C
<1>6. ASSUME NEW i \in given, NEW j \in given, i # j
      PROVE  C[i].source # C[j].source /\ C[i].final # C[j].final
  <2>1. C[i].source # C[j].source
    BY <1>1, <1>3, <1>6
  <2>2. C[i].final # C[j].final
    <3>1. ImageId[Rows[i].id] \notin FinalCollisions
      BY <1>1, <1>2
    <3>2. Rows[i] \in Range(Rows) /\ Rows[j] \in Range(Rows)
      BY <1>1 DEF Range
    <3>3. Rows[i].id # Rows[j].id
      BY <1>1, <1>4, <1>6
    <3>4. ImageId[Rows[j].id] # ImageId[Rows[i].id]
      BY <3>1, <3>2, <3>3 DEF FinalCollisions
    <3> QED BY <1>1, <3>4
  <2> QED BY <2>1, <2>2
<1>7. ASSUME NEW f \in ProcessedImages(C), NEW g \in ProcessedImages(C), f.name = g.name
      PROVE  f = g
  <2>1. PICK i \in DOMAIN C : C[i].status = "matched" /\ f = [name |-> C[i].final, from |-> C[i].source]
    BY DEF ProcessedImages, Range
  <2>2. PICK j \in DOMAIN C : C[j].status = "matched" /\ g = [name |-> C[j].final, from |-> C[j].source]
    BY DEF ProcessedImages, Range
  <2>3. C[i].final = C[j].final
    BY <1>7, <2>1, <2>2
  <2> QED BY <1>6, <2>1, <2>2, <2>3
<1> QED BY <1>5, <1>6, <1>7 DEF ImagesServeOneDossier, C

\* The rules give a row the image the user chose for it, unless another row
\* ends in its file name.
LEMMA ChosenMatch ==
  ASSUME Grounded, Inspected, NEW row, row.id \in DOMAIN resolutions,
         resolutions[row.id] \in KnownNames, ImageId[row.id] \notin FinalCollisions
  PROVE  /\ MatchRow(row, resolutions).status = "matched"
         /\ MatchRow(row, resolutions).source = resolutions[row.id]
<1> DEFINE d == row.id
           s == resolutions[d]
           images == {n \in KnownNames : FullName[n] = FullName[s]}
<1>1. images = {s}
  BY NamesAreDistinct
<1>2. {x \in DOMAIN resolutions : resolutions[x] = s} = {d}
  BY DEF Grounded, IsInjective
<1>3. s \notin ManualCollisions(resolutions)
  <2>1. Cardinality({d}) = 1
    BY FS_Singleton
  <2> QED BY <1>2, <2>1 DEF ManualCollisions
<1>4. MatchRow(row, resolutions) = ManualMatch(row, resolutions)
  BY DEF MatchRow
<1>5. ManualMatch(row, resolutions) =
        IF s \in ManualCollisions(resolutions) \/ images = {}
        THEN Binding(row, "ambiguous", "manual_invalid", "", FALSE)
        ELSE Binding(row, "matched", "manual", CHOOSE n \in images : TRUE, FALSE)
  BY DEF ManualMatch
<1> HIDE DEF images, s, d
<1>6. (CHOOSE n \in images : TRUE) = s
  BY <1>1
<1>7. MatchRow(row, resolutions) = Binding(row, "matched", "manual", s, FALSE)
  BY <1>1, <1>3, <1>4, <1>5, <1>6
<1>8. /\ Binding(row, "matched", "manual", s, FALSE).status = "matched"
      /\ Binding(row, "matched", "manual", s, FALSE).source = s
  BY DEF Binding
<1> QED BY <1>7, <1>8 DEF s, d

\* After the matching a dossier has the image the user chose for it, or says
\* which dossier keeps it from it.
LEMMA MatchUsesChosen == Grounded /\ Match => ChosenImageIsUsed'
<1> SUFFICES ASSUME Grounded, Match
             PROVE  ChosenImageIsUsed'
  OBVIOUS
<1> DEFINE B == Bindings(resolutions)
           C == matching'.bindings
<1>1. KnownNames' = KnownNames /\ resolutions' = resolutions
  BY MatchBindings, SameInputs
<1>2. /\ Inspected
      /\ DOMAIN C = DOMAIN Rows /\ DOMAIN B = DOMAIN Rows
      /\ \A i \in DOMAIN Rows :
            /\ C[i].id = Rows[i].id /\ C[i].final = ImageId[Rows[i].id]
            /\ C[i].source = B[i].source /\ C[i].level = B[i].level
            /\ C[i].status \in {"matched", "conversion_failed"} <=> B[i].status = "matched"
            /\ B[i].status = "ambiguous" => C[i].status = "ambiguous"
  BY MatchBindings
<1>3. \A i \in DOMAIN Rows :
         /\ B[i].source = MatchRow(Rows[i], resolutions).source
         /\ ImageId[Rows[i].id] \in FinalCollisions =>
               B[i].status = "ambiguous" /\ B[i].level = "final_name_collision"
         /\ MatchRow(Rows[i], resolutions).status = "matched" =>
               B[i].status = "matched" \/ SourceIsDisputed(B, i)
  BY MatchBindings, TableBindings
<1> HIDE DEF B, C
<1>4. ASSUME NEW i \in DOMAIN Rows, ImageId[Rows[i].id] \in FinalCollisions
      PROVE  NameIsTaken(C, i)
  <2>1. PICK y \in Range(Rows) : y.id # Rows[i].id /\ ImageId[y.id] = ImageId[Rows[i].id]
    BY <1>4 DEF FinalCollisions
  <2>2. PICK j \in DOMAIN Rows : y = Rows[j]
    BY DEF Range
  <2>3. j \in DOMAIN C \ {i} /\ C[j].final = C[i].final
    BY <1>2, <2>1, <2>2
  <2>4. C[i].status = "ambiguous" /\ C[i].level = "final_name_collision"
    BY <1>2, <1>3, <1>4
  <2> QED BY <2>3, <2>4 DEF NameIsTaken
<1>5. ASSUME NEW i \in DOMAIN Rows, SourceIsDisputed(B, i)
      PROVE  SourceIsDisputed(C, i)
  <2>1. PICK j \in DOMAIN B \ {i} : \A k \in {i, j} :
           /\ B[k].status = "ambiguous" /\ B[k].level = "source_duplicate"
           /\ B[k].source = B[i].source
    BY <1>5 DEF SourceIsDisputed
  <2>2. \A k \in {i, j} : /\ C[k].status = "ambiguous" /\ C[k].level = "source_duplicate"
                          /\ C[k].source = C[i].source
    BY <1>2, <2>1
  <2> QED BY <1>2, <2>2 DEF SourceIsDisputed
<1>6. ASSUME NEW i \in DOMAIN C, C[i].id \in DOMAIN resolutions, resolutions[C[i].id] \in KnownNames
      PROVE  \/ NameIsTaken(C, i)
             \/ /\ C[i].source = resolutions[C[i].id]
                /\ C[i].status \in {"matched", "conversion_failed"} \/ SourceIsDisputed(C, i)
  <2>1. CASE ImageId[Rows[i].id] \in FinalCollisions
    BY <1>2, <1>4, <2>1
  <2>2. CASE ImageId[Rows[i].id] \notin FinalCollisions
    <3>1. /\ MatchRow(Rows[i], resolutions).status = "matched"
          /\ MatchRow(Rows[i], resolutions).source = resolutions[Rows[i].id]
      BY <1>2, <1>6, <2>2, ChosenMatch
    <3> QED BY <1>2, <1>3, <1>5, <3>1
  <2> QED BY <2>1, <2>2
<1> QED BY <1>1, <1>6 DEF ChosenImageIsUsed, C

\* After the matching a row that names an image in full has it, or another one
\* it names in full.
LEMMA MatchUsesNamed == Grounded /\ Match => NamedImageIsUsed'
<1> SUFFICES ASSUME Grounded, Match
             PROVE  NamedImageIsUsed'
  OBVIOUS
<1> DEFINE B == Bindings(resolutions)
           C == matching'.bindings
<1>1. KnownNames' = KnownNames /\ Rows' = Rows /\ resolutions' = resolutions
  BY MatchBindings, SameInputs
<1>2. /\ Inspected
      /\ \A i \in DOMAIN Rows : Rows[i].names \in Seq(DOMAIN FullName)
      /\ \A i \in DOMAIN Rows : C[i].source = B[i].source /\ C[i].level = B[i].level
  BY MatchBindings
<1>3. \A i \in DOMAIN Rows :
         /\ B[i].source = MatchRow(Rows[i], resolutions).source
         /\ ImageId[Rows[i].id] \in FinalCollisions => B[i].level = "final_name_collision"
  BY MatchBindings, TableBindings
<1> HIDE DEF B, C
<1>4. ASSUME NEW i \in DOMAIN Rows, Rows[i].id \notin DOMAIN resolutions,
             NEW n \in KnownNames, FullName[n] \in {FullName[t] : t \in Range(Rows[i].names)}
      PROVE  \/ C[i].source \in {m \in KnownNames :
                                    FullName[m] \in {FullName[t] : t \in Range(Rows[i].names)}}
             \/ C[i].level = "final_name_collision"
  <2>1. CASE ImageId[Rows[i].id] \in FinalCollisions
    BY <1>2, <1>3, <2>1
  <2>2. CASE ImageId[Rows[i].id] \notin FinalCollisions
    <3>1. MatchRow(Rows[i], resolutions) = AutomaticMatch(Rows[i])
      BY <1>4, <2>2 DEF MatchRow
    <3>2. PICK k \in DOMAIN Rows[i].names : FullName[n] = FullName[Rows[i].names[k]]
      BY <1>4 DEF Range
    <3>3. Rows[i].names \in Seq(DOMAIN FullName)
      BY <1>2
    <3> DEFINE row == Rows[i]
    <3> HIDE DEF row
    <3>4. /\ row.names \in Seq(DOMAIN FullName) /\ k \in DOMAIN row.names
          /\ FullName[n] = FullName[row.names[k]]
      BY <3>2, <3>3 DEF row
    <3>5. \E m \in KnownNames : /\ FullName[m] \in {FullName[t] : t \in Range(row.names)}
                                /\ AutomaticMatch(row).source = m
      BY <1>2, <3>4, NamedSearch
    <3>6. AutomaticMatch(row).source = C[i].source
      BY <1>2, <1>3, <3>1 DEF row
    <3> QED BY <3>5, <3>6 DEF row
  <2> QED BY <2>1, <2>2
<1> QED BY <1>1, <1>4 DEF NamedImageIsUsed, C

-----------------------------------------------------------------------------
(***************************************************************************)
(* The theorems.                                                           *)
(***************************************************************************)

\* The products of the images always come from an accepted archive and a
\* table of the lot, and the user's choices never give an image twice
\* (image_matching.py, save_image_resolutions).
THEOREM ImagesInvariance == Spec => []Grounded
BY GroundedInit, GroundedStep, PTL DEF Spec

\* Every image of the archive is given to a dossier or listed as given to
\* none (image_matching.py, build_image_matching_payload), for any archive,
\* table and keys.
THEOREM ImagesAccounted == Spec => []EveryImageIsAccountedFor
<1>1. Init => EveryImageIsAccountedFor
  BY DEF Init, EveryImageIsAccountedFor
<1>2. EveryImageIsAccountedFor /\ Grounded /\ [Next]_imageVars => EveryImageIsAccountedFor'
  <2> SUFFICES ASSUME EveryImageIsAccountedFor, Grounded, [Next]_imageVars, ~Match
               PROVE  EveryImageIsAccountedFor'
    BY MatchAccounts
  <2>1. CASE matching' = None
    BY <2>1 DEF EveryImageIsAccountedFor
  <2>2. CASE UNCHANGED <<inspection, table, resolutions, matching>>
    BY <2>2, SameInputs DEF EveryImageIsAccountedFor
  <2> QED BY <2>1, <2>2, OtherSteps
<1> QED BY <1>1, <1>2, ImagesInvariance, PTL DEF Spec

\* No image goes to two dossiers and no two images under one name
\* (image_matching_rules.py, mark_duplicate_automatic_sources;
\* image_matching.py, duplicate_final_names).
THEOREM OneDossierPerImage == Spec => []ImagesServeOneDossier
<1>1. Init => ImagesServeOneDossier
  BY DEF Init, ImagesServeOneDossier
<1>2. ImagesServeOneDossier /\ Grounded /\ [Next]_imageVars => ImagesServeOneDossier'
  <2> SUFFICES ASSUME ImagesServeOneDossier, Grounded, [Next]_imageVars, ~Match
               PROVE  ImagesServeOneDossier'
    BY MatchServesOneDossier
  <2>1. CASE matching' = None
    BY <2>1 DEF ImagesServeOneDossier
  <2>2. CASE UNCHANGED <<inspection, table, resolutions, matching>>
    BY <2>2 DEF ImagesServeOneDossier
  <2> QED BY <2>1, <2>2, OtherSteps
<1> QED BY <1>1, <1>2, ImagesInvariance, PTL DEF Spec

\* A dossier gets the image the user chose for it as long as the archive has
\* it, and when another dossier ends in its file name or finds its image the
\* line says so, ambiguous (image_matching_rules.py, match_row_image,
\* mark_duplicate_automatic_sources).
THEOREM ChoicesAreKept == Spec => []ChosenImageIsUsed
<1>1. Init => ChosenImageIsUsed
  BY DEF Init, ChosenImageIsUsed
<1>2. ChosenImageIsUsed /\ Grounded /\ [Next]_imageVars => ChosenImageIsUsed'
  <2> SUFFICES ASSUME ChosenImageIsUsed, Grounded, [Next]_imageVars, ~Match
               PROVE  ChosenImageIsUsed'
    BY MatchUsesChosen
  <2>1. CASE matching' = None
    BY <2>1 DEF ChosenImageIsUsed
  <2>2. CASE UNCHANGED <<inspection, table, resolutions, matching>>
    BY <2>2, SameInputs DEF ChosenImageIsUsed, NameIsTaken, SourceIsDisputed
  <2> QED BY <2>1, <2>2, OtherSteps
<1> QED BY <1>1, <1>2, ImagesInvariance, PTL DEF Spec

\* An image that a row names in full is never left for one that looks like
\* another of its names (image_matching_rules.py, match_row_image).
THEOREM NamesAreKept == Spec => []NamedImageIsUsed
<1>1. Init => NamedImageIsUsed
  BY DEF Init, NamedImageIsUsed
<1>2. NamedImageIsUsed /\ Grounded /\ [Next]_imageVars => NamedImageIsUsed'
  <2> SUFFICES ASSUME NamedImageIsUsed, Grounded, [Next]_imageVars, ~Match
               PROVE  NamedImageIsUsed'
    BY MatchUsesNamed
  <2>1. CASE matching' = None
    BY <2>1 DEF NamedImageIsUsed
  <2>2. CASE UNCHANGED <<inspection, table, resolutions, matching>>
    BY <2>2, SameInputs DEF NamedImageIsUsed
  <2> QED BY <2>1, <2>2, OtherSteps
<1> QED BY <1>1, <1>2, ImagesInvariance, PTL DEF Spec

-----------------------------------------------------------------------------
(***************************************************************************)
(* The inductive invariant.                                                *)
(***************************************************************************)

\* The name a matching gives a row, or the one it would have.
NameUnder(m, row) ==
  LET bound == IF m = None THEN {} ELSE {b \in Range(m.bindings) : b.id = row.id}
  IN IF bound # {} THEN (CHOOSE b \in bound : TRUE).final ELSE ImageId[row.id]

LinesUnder(root, m) ==
  [i \in DOMAIN table |->
     [id |-> table[i].id, imageid |-> NameUnder(m, table[i]), path |-> PathImg(root, NameUnder(m, table[i]))]]

\* The validated CSV has the lines of the current table, under the root and
\* the matching it was validated with.
CsvIsOfTheTable ==
  csv # None =>
    csv = [root |-> csv.root, matching |-> csv.matching, lines |-> LinesUnder(csv.root, csv.matching)]

\* Every matching names the images of a dossier alike.
NamesDossiers(m) == m # None => \A b \in Range(m.bindings) : b.final = ImageId[b.id]

\* The matching has the rows of the table, and its images are its rows'.
MatchingIsOfTheTable ==
  /\ NamesDossiers(matching)
  /\ csv # None => NamesDossiers(csv.matching)
  /\ matching # None =>
       /\ DOMAIN matching.bindings \subseteq DOMAIN table
       /\ \A i \in DOMAIN matching.bindings : matching.bindings[i].id = table[i].id
       /\ matching.images = ProcessedImages(matching.bindings)

\* A package has images only while the matching they come from is there.
PackageHasItsMatching ==
  package # None => csv # None /\ (package.images # {} => matching # None)

DInv ==
  /\ Grounded
  /\ CsvIsOfTheTable
  /\ MatchingIsOfTheTable
  /\ PackageHasItsMatching
  /\ PackagedImagesAreNamed

-----------------------------------------------------------------------------
(***************************************************************************)
(* The steps.                                                              *)
(***************************************************************************)

\* Nothing is validated, matched or packaged at the start.
LEMMA DInit == DeliveryInit => DInv
<1> SUFFICES ASSUME DeliveryInit
             PROVE  DInv
  OBVIOUS
<1>1. Grounded
  BY GroundedInit DEF DeliveryInit
<1>2. matching = None /\ csv = None /\ package = None
  BY DEF DeliveryInit, Init
<1> QED BY <1>1, <1>2 DEF DInv, CsvIsOfTheTable, MatchingIsOfTheTable, NamesDossiers,
                          PackageHasItsMatching, PackagedImagesAreNamed

\* Each step of the delivery is one of the images, or leaves them alone.
LEMMA ImageSteps == [DeliveryNext]_vars => [Next]_imageVars
BY DEF DeliveryNext, Next, vars, imageVars, NewArchive, InspectArchive, NewTable, NewSort,
       MatchImages, ResolveImages, ValidatePreview, GenerateReports, RequestPackage,
       BuildPackage, LoseArchive, Restart, roots, products

\* A step that takes the matching away takes the CSV and the package with it.
LEMMA GoneSteps ==
  ASSUME DInv, Gone, matching' = None, Grounded'
  PROVE  DInv'
BY DEF DInv, Gone, CsvIsOfTheTable, MatchingIsOfTheTable, NamesDossiers,
       PackageHasItsMatching, PackagedImagesAreNamed

\* A step that leaves table, matching, CSV and package alone.
LEMMA QuietSteps ==
  ASSUME DInv, UNCHANGED <<table, matching, csv, package>>, Grounded'
  PROVE  DInv'
BY DEF DInv, CsvIsOfTheTable, LinesUnder, MatchingIsOfTheTable, NamesDossiers,
       PackageHasItsMatching, PackagedImagesAreNamed

\* A validation gives the lines of the table under the current matching.
LEMMA PreviewIsOfTheTable ==
  ASSUME NEW root
  PROVE  Preview(root) = [root |-> EffectiveRoot(root), matching |-> matching,
                          lines |-> LinesUnder(EffectiveRoot(root), matching)]
BY DEF Preview, LinesUnder, Line, ImageIdOf, NameUnder

\* A validation takes the lines from the table and drops the package
\* (csv_preview.py, validate_csv_preview).
LEMMA ValidateKeeps ==
  ASSUME DInv, NEW root, ValidatePreview(root), Grounded'
  PROVE  DInv'
<1>1. /\ csv' = Preview(root) /\ package' = None
      /\ table' = table /\ matching' = matching
  BY DEF ValidatePreview, imageVars
<1>2. csv' = [root |-> EffectiveRoot(root), matching |-> matching,
              lines |-> LinesUnder(EffectiveRoot(root), matching)]
  BY <1>1, PreviewIsOfTheTable
<1>3. CsvIsOfTheTable'
  BY <1>1, <1>2 DEF CsvIsOfTheTable, LinesUnder
<1>4. MatchingIsOfTheTable'
  BY <1>1, <1>2 DEF DInv, MatchingIsOfTheTable, NamesDossiers
<1>5. PackageHasItsMatching' /\ PackagedImagesAreNamed'
  BY <1>1 DEF PackageHasItsMatching, PackagedImagesAreNamed
<1> QED BY <1>3, <1>4, <1>5 DEF DInv

\* The matching gives each row of the table its name
\* (image_matching.py, run_image_matching_job).
LEMMA MatchKeeps ==
  ASSUME DInv, MatchImages, Grounded'
  PROVE  DInv'
<1>1. matching = None /\ UNCHANGED <<table, csv, package>> /\ Match
  BY DEF MatchImages, Match, products
<1>2. /\ matching'.images = ProcessedImages(matching'.bindings)
      /\ DOMAIN matching'.bindings = DOMAIN Rows
      /\ \A i \in DOMAIN Rows : /\ matching'.bindings[i].id = Rows[i].id
                                /\ matching'.bindings[i].final = ImageId[Rows[i].id]
  BY <1>1, MatchBindings DEF DInv
<1>3. CsvIsOfTheTable'
  BY <1>1 DEF DInv, CsvIsOfTheTable, LinesUnder
<1>4. MatchingIsOfTheTable'
  <2>1. NamesDossiers(matching')
    BY <1>2 DEF NamesDossiers, Range
  <2>2. csv' # None => NamesDossiers(csv'.matching)
    BY <1>1 DEF DInv, MatchingIsOfTheTable, NamesDossiers
  <2>3. /\ DOMAIN matching'.bindings \subseteq DOMAIN table'
        /\ \A i \in DOMAIN matching'.bindings : matching'.bindings[i].id = table'[i].id
    BY <1>1, <1>2 DEF Rows
  <2>4. matching'.images = ProcessedImages(matching'.bindings)
    BY <1>2
  <2> QED BY <2>1, <2>2, <2>3, <2>4 DEF MatchingIsOfTheTable, NamesDossiers, ProcessedImages
<1>5. PackageHasItsMatching' /\ PackagedImagesAreNamed'
  BY <1>1 DEF DInv, PackageHasItsMatching, PackagedImagesAreNamed
<1> QED BY <1>3, <1>4, <1>5 DEF DInv

\* Under any matching that names dossiers alike, the line of a row of the
\* table names the image of its dossier.
LEMMA NameOfRow ==
  ASSUME NEW m, NamesDossiers(m), NEW row
  PROVE  NameUnder(m, row) = ImageId[row.id]
<1> DEFINE bound == {b \in Range(m.bindings) : b.id = row.id}
<1>1. CASE m = None
  BY <1>1 DEF NameUnder
<1>2. CASE m # None /\ bound = {}
  BY <1>2 DEF NameUnder
<1>3. CASE m # None /\ bound # {}
  <2>1. (CHOOSE b \in bound : TRUE) \in bound
    BY <1>3
  <2>2. (CHOOSE b \in bound : TRUE).final = ImageId[row.id]
    BY <1>3, <2>1 DEF NamesDossiers
  <2> QED BY <1>3, <2>2, Zenon DEF NameUnder
<1> QED BY <1>1, <1>2, <1>3

\* The line of a row of the table.
LEMMA LineOfRow ==
  ASSUME DInv, csv # None, NEW i \in DOMAIN table
  PROVE  /\ i \in DOMAIN csv.lines
         /\ csv.lines[i].id = table[i].id
         /\ csv.lines[i].imageid = ImageId[table[i].id]
         /\ csv.lines[i].path = PathImg(csv.root, ImageId[table[i].id])
<1>1. csv.lines = LinesUnder(csv.root, csv.matching)
  BY DEF DInv, CsvIsOfTheTable
<1>2. NameUnder(csv.matching, table[i]) = ImageId[table[i].id]
  BY NameOfRow DEF DInv, MatchingIsOfTheTable
<1>3. LinesUnder(csv.root, csv.matching)[i] =
        [id |-> table[i].id, imageid |-> ImageId[table[i].id],
         path |-> PathImg(csv.root, ImageId[table[i].id])]
  BY <1>2, Zenon DEF LinesUnder
<1>4. i \in DOMAIN LinesUnder(csv.root, csv.matching)
  BY DEF LinesUnder
<1> QED BY <1>1, <1>3, <1>4

\* A processed image is that of a row of the table, under the name the CSV
\* gives the row (package.py, run_package_job).
LEMMA ProcessedImageIsNamed ==
  ASSUME DInv, csv # None, matching # None, NEW f \in ProcessedImages(matching.bindings)
  PROVE  \E i \in DOMAIN csv.lines :
            /\ csv.lines[i].path = PathImg(csv.root, f.name)
            /\ \E b \in Range(matching.bindings) :
                  b.id = csv.lines[i].id /\ b.status = "matched" /\ b.source = f.from
<1>1. PICK b \in Range(matching.bindings) :
        b.status = "matched" /\ f = [name |-> b.final, from |-> b.source]
  BY DEF ProcessedImages
<1>2. f.name = b.final /\ f.from = b.source
  BY <1>1
<1>3. PICK i \in DOMAIN matching.bindings : b = matching.bindings[i]
  BY <1>1 DEF Range
<1>4. i \in DOMAIN table /\ b.id = table[i].id /\ b.final = ImageId[b.id]
  BY <1>1, <1>3 DEF DInv, MatchingIsOfTheTable, NamesDossiers
<1>5. /\ i \in DOMAIN csv.lines /\ csv.lines[i].id = b.id
      /\ csv.lines[i].path = PathImg(csv.root, f.name)
  BY <1>2, <1>4, LineOfRow
<1> QED BY <1>1, <1>2, <1>5

\* The package takes the images of the matching (package.py,
\* run_package_job).
LEMMA BuildKeeps ==
  ASSUME DInv, BuildPackage, Grounded'
  PROVE  DInv'
<1>1. /\ UNCHANGED <<table, matching, csv>> /\ csv # None
      /\ package'.images = IF ArchiveReadable THEN matching.images ELSE {}
      /\ ArchiveReadable => matching # None
  BY DEF BuildPackage, SourcesReady, imageVars
<1>2. CsvIsOfTheTable'
  BY <1>1 DEF DInv, CsvIsOfTheTable, LinesUnder
<1>3. MatchingIsOfTheTable'
  BY <1>1 DEF DInv, MatchingIsOfTheTable, NamesDossiers
<1>4. package'.images # {} => matching # None /\ package'.images = ProcessedImages(matching.bindings)
  BY <1>1 DEF DInv, MatchingIsOfTheTable
<1>5. PackageHasItsMatching'
  BY <1>1, <1>4 DEF PackageHasItsMatching
<1>6. ASSUME NEW f \in package'.images
      PROVE  \E i \in DOMAIN csv.lines :
                /\ csv.lines[i].path = PathImg(csv.root, f.name)
                /\ \E b \in Range(matching.bindings) :
                      b.id = csv.lines[i].id /\ b.status = "matched" /\ b.source = f.from
  BY <1>1, <1>4, ProcessedImageIsNamed
<1>7. PackagedImagesAreNamed'
  BY <1>1, <1>6 DEF PackagedImagesAreNamed
<1> QED BY <1>2, <1>3, <1>5, <1>7 DEF DInv

\* A step that leaves no package, and the rest as it was or without a CSV: a
\* request, or a new sort.
LEMMA UnpackedSteps ==
  ASSUME DInv, UNCHANGED <<table, matching>>, csv' = csv \/ csv' = None, package' = None, Grounded'
  PROVE  DInv'
<1>1. CsvIsOfTheTable'
  BY DEF DInv, CsvIsOfTheTable, LinesUnder
<1>2. MatchingIsOfTheTable'
  BY DEF DInv, MatchingIsOfTheTable, NamesDossiers
<1> QED BY <1>1, <1>2 DEF DInv, PackageHasItsMatching, PackagedImagesAreNamed

\* Every step keeps the invariant.
LEMMA DNext == DInv /\ [DeliveryNext]_vars => DInv'
<1> SUFFICES ASSUME DInv, [DeliveryNext]_vars
             PROVE  DInv'
  OBVIOUS
<1> Grounded'
  BY ImageSteps, GroundedStep DEF DInv
<1>1. CASE NewArchive
  BY <1>1, GoneSteps DEF NewArchive, Deposit
<1>2. CASE InspectArchive
  BY <1>2, QuietSteps DEF InspectArchive, Inspect, products
<1>3. CASE NewTable
  BY <1>3, GoneSteps DEF NewTable, Normalize
<1>4. CASE NewSort
  BY <1>4, UnpackedSteps DEF NewSort, Gone, imageVars
<1>5. CASE MatchImages
  BY <1>5, MatchKeeps
<1>6. CASE ResolveImages
  BY <1>6, GoneSteps DEF ResolveImages, Resolve
<1>7. ASSUME NEW root \in Roots \cup {""}, ValidatePreview(root)
      PROVE  DInv'
  BY <1>7, ValidateKeeps
<1>8. CASE GenerateReports
  BY <1>8, QuietSteps DEF GenerateReports, imageVars
<1>9. ASSUME NEW accept \in BOOLEAN, RequestPackage(accept)
      PROVE  DInv'
  BY <1>9, UnpackedSteps DEF RequestPackage, imageVars
<1>10. CASE BuildPackage
  BY <1>10, BuildKeeps
<1>11. CASE LoseArchive
  BY <1>11, QuietSteps DEF LoseArchive, imageVars, products
<1>12. ASSUME NEW root \in Roots, Restart(root)
       PROVE  DInv'
  BY <1>12, QuietSteps DEF Restart, imageVars, products
<1>13. CASE UNCHANGED vars
  BY <1>13, QuietSteps DEF vars, imageVars, products
<1> QED
  BY <1>1, <1>2, <1>3, <1>4, <1>5, <1>6, <1>7, <1>8, <1>9, <1>10, <1>11, <1>12, <1>13
  DEF DeliveryNext

-----------------------------------------------------------------------------
(***************************************************************************)
(* The counts.  While there are reports nothing they count is replaced,    *)
(* and a package is made of what they counted, or without images.          *)
(***************************************************************************)

\* The matching has one binding for each row, and no two rows one file name.
MatchingIsWhole ==
  /\ ImagesServeOneDossier
  /\ matching # None =>
       /\ DOMAIN matching.bindings = DOMAIN table
       /\ \A i \in DOMAIN table :
             matching.bindings[i].status \in {"matched", "ambiguous", "missing", "conversion_failed"}

\* The reports count the current CSV and, with an archive, its matching; the
\* archive of reports without images was lost for good.
ReportsCount ==
  reports # None =>
    /\ csv # None
    /\ archive # None => matching # None /\ ~Blocking(matching.bindings)
    /\ reports.withImages => archive # None
    /\ ArchiveCommitted => reports.withImages
    /\ reports = Integrity(reports.withImages)

\* A package has the images its reports counted, or none and an alert.
PackageIsCounted ==
  package # None =>
    /\ csv # None /\ reports # None
    /\ \/ package.alerts /\ package.images = {}
       \/ /\ reports.withImages /\ matching # None
          /\ package.images = matching.images
          /\ ~package.alerts => ~HasWarnings(matching)

CInv == MatchingIsWhole /\ ReportsCount /\ PackageIsCounted

\* Nothing is counted at the start.
LEMMA CInit == DeliveryInit => CInv
BY DEF DeliveryInit, Init, CInv, MatchingIsWhole, ImagesServeOneDossier, ReportsCount, PackageIsCounted

\* Every step but the matching keeps the matching whole or drops it.
LEMMA WholeStep ==
  ASSUME DInv, CInv, [DeliveryNext]_vars
  PROVE  MatchingIsWhole'
<1>1. Grounded /\ [Next]_imageVars
  BY ImageSteps DEF DInv
<1>2. CASE Match
  <2>1. ImagesServeOneDossier'
    BY <1>1, <1>2, MatchServesOneDossier
  <2>2. table \in Tables /\ table' = table
    BY <1>1, <1>2, MatchBindings
  <2>3. DOMAIN Rows = DOMAIN table
    BY <2>2, DeliveryAssumption DEF Rows
  <2>4. /\ DOMAIN matching'.bindings = DOMAIN Rows
        /\ \A i \in DOMAIN Rows :
              matching'.bindings[i].status \in {"matched", "ambiguous", "missing", "conversion_failed"}
    BY <1>1, <1>2, MatchBindings
  <2> QED BY <2>1, <2>2, <2>3, <2>4 DEF MatchingIsWhole
<1>3. CASE ~Match
  <2>1. CASE matching' = None
    BY <2>1 DEF MatchingIsWhole, ImagesServeOneDossier
  <2>2. CASE UNCHANGED <<inspection, table, resolutions, matching>>
    BY <2>2 DEF CInv, MatchingIsWhole, ImagesServeOneDossier
  <2> QED BY <1>1, <1>3, <2>1, <2>2, OtherSteps
<1> QED BY <1>2, <1>3

\* A step that leaves the counts and what they count alone, the archive being
\* at most lost.
LEMMA SameCounts ==
  ASSUME CInv, UNCHANGED <<archive, table, matching, csv, reports, package>>,
         ArchiveCommitted' => ArchiveCommitted, MatchingIsWhole'
  PROVE  CInv'
<1>1. ReportsCount'
  <2>1. KnownIds' = KnownIds
    BY DEF KnownIds, Rows
  <2>2. \A withImages \in {reports.withImages} : Integrity(withImages)' = Integrity(withImages)
    BY <2>1 DEF Integrity, OfStatus
  <2> QED BY <2>2 DEF CInv, ReportsCount, Blocking
<1>2. PackageIsCounted'
  BY DEF CInv, PackageIsCounted, HasWarnings
<1> QED BY <1>1, <1>2 DEF CInv

\* A step that leaves no reports leaves no package.
LEMMA NoCounts ==
  ASSUME reports' = None, package' = None, MatchingIsWhole'
  PROVE  CInv'
BY DEF CInv, ReportsCount, PackageIsCounted

\* The reports are made of what is there (reports.py, _integrity_payload).
LEMMA ReportsKeep ==
  ASSUME CInv, GenerateReports, MatchingIsWhole'
  PROVE  CInv'
<1>1. /\ csv # None /\ reports = None
      /\ archive # None => matching # None /\ ~Blocking(matching.bindings)
      /\ reports' = Integrity(ArchiveCommitted)
      /\ UNCHANGED <<archive, table, matching, source, csv, package>>
  BY DEF GenerateReports, imageVars
<1>2. package = None
  BY <1>1 DEF CInv, PackageIsCounted
<1>3. \A withImages \in {ArchiveCommitted} : Integrity(withImages)' = Integrity(withImages)
  BY <1>1 DEF Integrity, OfStatus, KnownIds, Rows
<1>4. reports'.withImages = ArchiveCommitted
  BY <1>1 DEF Integrity
<1>5. ReportsCount'
  BY <1>1, <1>3, <1>4 DEF ReportsCount, Blocking, ArchiveCommitted
<1> QED BY <1>1, <1>2, <1>5 DEF CInv, PackageIsCounted

\* The package reads the matching its reports counted, or has an alert
\* (package.py, _build_package_sources).
LEMMA PackageKeeps ==
  ASSUME CInv, BuildPackage, MatchingIsWhole'
  PROVE  CInv'
<1>1. /\ csv # None /\ reports # None
      /\ ArchiveReadable => matching # None /\ ~Blocking(matching.bindings)
      /\ package'.alerts = ImageWarnings
      /\ package'.images = IF ArchiveReadable THEN matching.images ELSE {}
      /\ UNCHANGED <<archive, table, matching, csv, reports>>
  BY DEF BuildPackage, SourcesReady, imageVars
<1>2. ArchiveCommitted' => ArchiveCommitted
  BY DEF BuildPackage, SourceRead, ArchiveCommitted, imageVars
<1>3. ReportsCount'
  <2>1. KnownIds' = KnownIds
    BY <1>1 DEF KnownIds, Rows
  <2>2. \A withImages \in {reports.withImages} : Integrity(withImages)' = Integrity(withImages)
    BY <1>1, <2>1 DEF Integrity, OfStatus
  <2> QED BY <1>1, <1>2, <2>2 DEF CInv, ReportsCount, Blocking
<1>4. CASE ArchiveReadable
  <2>1. reports.withImages
    BY <1>1, <1>4 DEF CInv, ReportsCount, ArchiveCommitted, ArchiveReadable
  <2>2. ~package'.alerts => ~HasWarnings(matching)
    BY <1>1 DEF ImageWarnings
  <2>3. PackageIsCounted'
    BY <1>1, <1>4, <2>1, <2>2 DEF PackageIsCounted, HasWarnings
  <2> QED BY <1>3, <2>3 DEF CInv
<1>5. CASE ~ArchiveReadable
  <2>1. package'.alerts /\ package'.images = {}
    BY <1>1, <1>5 DEF ImageWarnings
  <2>2. PackageIsCounted'
    BY <1>1, <2>1 DEF PackageIsCounted
  <2> QED BY <1>3, <2>2 DEF CInv
<1> QED BY <1>4, <1>5

\* Every step keeps the counts.
LEMMA CNext == DInv /\ CInv /\ [DeliveryNext]_vars => CInv'
<1> SUFFICES ASSUME DInv, CInv, [DeliveryNext]_vars
             PROVE  CInv'
  OBVIOUS
<1> MatchingIsWhole'
  BY WholeStep
<1>1. CASE NewArchive
  BY <1>1, NoCounts DEF NewArchive, Gone
<1>2. CASE InspectArchive
  BY <1>2, SameCounts DEF InspectArchive, Inspect, products, ArchiveCommitted
<1>3. CASE NewTable
  BY <1>3, NoCounts DEF NewTable, Gone
<1>4. CASE NewSort
  BY <1>4, NoCounts DEF NewSort, Gone
<1>5. CASE MatchImages
  <2>1. /\ archive # None /\ matching = None
        /\ reports' = reports /\ package' = package
    BY <1>5 DEF MatchImages, ArchiveReadable, Match, products
  <2>2. reports = None
    BY <2>1 DEF CInv, ReportsCount
  <2>3. package = None
    BY <2>2 DEF CInv, PackageIsCounted
  <2> QED BY <2>1, <2>2, <2>3, NoCounts
<1>6. CASE ResolveImages
  BY <1>6, NoCounts DEF ResolveImages, Gone
<1>7. ASSUME NEW root \in Roots \cup {""}, ValidatePreview(root)
      PROVE  CInv'
  BY <1>7, NoCounts DEF ValidatePreview
<1>8. CASE GenerateReports
  BY <1>8, ReportsKeep
<1>9. ASSUME NEW accept \in BOOLEAN, RequestPackage(accept)
      PROVE  CInv'
  <2>1. /\ UNCHANGED <<archive, table, matching, csv, reports>> /\ package' = None
        /\ ArchiveCommitted' => ArchiveCommitted
    BY <1>9 DEF RequestPackage, SourceRead, ArchiveCommitted, imageVars
  <2>2. ReportsCount'
    <3>1. KnownIds' = KnownIds
      BY <2>1 DEF KnownIds, Rows
    <3>2. \A withImages \in {reports.withImages} : Integrity(withImages)' = Integrity(withImages)
      BY <2>1, <3>1 DEF Integrity, OfStatus
    <3> QED BY <2>1, <3>2 DEF CInv, ReportsCount, Blocking
  <2> QED BY <2>1, <2>2 DEF CInv, PackageIsCounted
<1>10. CASE BuildPackage
  BY <1>10, PackageKeeps
<1>11. CASE LoseArchive
  BY <1>11, SameCounts DEF LoseArchive, imageVars, products, ArchiveCommitted
<1>12. ASSUME NEW root \in Roots, Restart(root)
       PROVE  CInv'
  BY <1>12, SameCounts DEF Restart, imageVars, products, ArchiveCommitted
<1>13. CASE UNCHANGED vars
  BY <1>13, SameCounts DEF vars, imageVars, products, ArchiveCommitted
<1> QED
  BY <1>1, <1>2, <1>3, <1>4, <1>5, <1>6, <1>7, <1>8, <1>9, <1>10, <1>11, <1>12, <1>13
  DEF DeliveryNext

-----------------------------------------------------------------------------
(***************************************************************************)
(* What is counted adds up.                                                *)
(***************************************************************************)

\* The CSV has a line for each row of the table.
LEMMA LinesOfTheTable ==
  ASSUME DInv, csv # None, table \in Tables
  PROVE  /\ Len(csv.lines) \in Nat
         /\ DOMAIN csv.lines = 1 .. Len(csv.lines)
         /\ DOMAIN table = 1 .. Len(csv.lines)
<1> DEFINE T == {csv.lines[i] : i \in DOMAIN csv.lines}
<1>1. PICK n \in Nat : DOMAIN table = 1 .. n
  BY DeliveryAssumption, LenProperties
<1>2. csv.lines = LinesUnder(csv.root, csv.matching)
  BY DEF DInv, CsvIsOfTheTable
<1>3. DOMAIN csv.lines = 1 .. n /\ csv.lines = [i \in 1 .. n |-> csv.lines[i]]
  BY <1>1, <1>2 DEF LinesUnder
<1>4. csv.lines \in [1 .. n -> T]
  BY <1>3, Zenon
<1>5. csv.lines \in Seq(T)
  BY <1>4, SeqDef
<1>6. Len(csv.lines) \in Nat /\ DOMAIN csv.lines = 1 .. Len(csv.lines)
  BY <1>5, LenProperties
<1>7. DOMAIN table = DOMAIN csv.lines
  BY <1>1, <1>3
<1> QED BY <1>6, <1>7

\* There are as many processed images as matched rows.
LEMMA ImagesAreCounted ==
  ASSUME DInv, CInv, matching # None, IsFiniteSet(DOMAIN table)
  PROVE  /\ Cardinality(matching.images) = OfStatus("matched")
         /\ OfStatus("matched") \in Nat
<1> DEFINE M == {i \in DOMAIN matching.bindings : matching.bindings[i].status = "matched"}
           image(b) == [name |-> b.final, from |-> b.source]
           f == [i \in M |-> image(matching.bindings[i])]
<1>1. IsFiniteSet(M) /\ Cardinality(M) \in Nat
  BY FS_Subset, FS_CardinalityType DEF CInv, MatchingIsWhole
<1>2. matching.images = {image(matching.bindings[i]) : i \in M}
  BY DEF DInv, MatchingIsOfTheTable, ProcessedImages, Range
<1>3. \A i, j \in M : i # j => image(matching.bindings[i]) # image(matching.bindings[j])
  BY DEF CInv, MatchingIsWhole, ImagesServeOneDossier
<1>4. f \in Surjection(M, matching.images)
  BY <1>2 DEF Surjection
<1>5. f \in Injection(M, matching.images)
  BY <1>2, <1>3 DEF Injection, IsInjective
<1>6. Cardinality(matching.images) = Cardinality(M)
  BY <1>1, <1>4, <1>5, FS_Surjection
<1> QED BY <1>1, <1>6 DEF OfStatus

\* Without a blocker every row is matched, missing or not converted.
LEMMA RowsAddUp ==
  ASSUME CInv, matching # None, ~Blocking(matching.bindings), NEW n \in Nat, DOMAIN table = 1 .. n
  PROVE  OfStatus("matched") + OfStatus("missing") + OfStatus("conversion_failed") = n
<1> DEFINE S(status) == {i \in DOMAIN matching.bindings : matching.bindings[i].status = status}
           a == S("matched")
           b == S("missing")
           c == S("conversion_failed")
<1>1. /\ DOMAIN matching.bindings = 1 .. n
      /\ \A i \in 1 .. n : matching.bindings[i].status \in {"matched", "missing", "conversion_failed"}
  BY DEF CInv, MatchingIsWhole, Blocking, Range
<1>2. a \cup b \cup c = 1 .. n
  BY <1>1
<1>3. a \cap b = {} /\ (a \cup b) \cap c = {}
  OBVIOUS
<1>4. IsFiniteSet(1 .. n) /\ Cardinality(1 .. n) = n
  BY FS_Interval
<1>5. a \in SUBSET (1 .. n) /\ b \in SUBSET (1 .. n) /\ c \in SUBSET (1 .. n)
  BY <1>1
<1> HIDE DEF a, b, c
<1>6. IsFiniteSet(a) /\ IsFiniteSet(b) /\ IsFiniteSet(c)
  BY <1>4, <1>5, FS_Subset
<1>7. /\ IsFiniteSet(a \cup b)
      /\ Cardinality(a \cup b) = Cardinality(a) + Cardinality(b) - Cardinality(a \cap b)
  BY <1>6, FS_Union
<1>8. Cardinality((a \cup b) \cup c) = Cardinality(a \cup b) + Cardinality(c) - Cardinality((a \cup b) \cap c)
  BY <1>6, <1>7, FS_Union
<1>9. Cardinality(a) \in Nat /\ Cardinality(b) \in Nat /\ Cardinality(c) \in Nat
  BY <1>6, FS_CardinalityType
<1>10. Cardinality(a) + Cardinality(b) + Cardinality(c) = n
  <2>1. Cardinality(a \cap b) = 0 /\ Cardinality((a \cup b) \cap c) = 0
    BY <1>3, FS_EmptySet, Zenon
  <2>2. Cardinality((a \cup b) \cup c) = n
    BY <1>2, <1>4, Zenon
  <2> QED BY <1>7, <1>8, <1>9, <2>1, <2>2
<1>11. /\ OfStatus("matched") = Cardinality(a) /\ OfStatus("missing") = Cardinality(b)
       /\ OfStatus("conversion_failed") = Cardinality(c)
  BY Zenon DEF OfStatus, a, b, c
<1> QED BY <1>10, <1>11

\* The reports of a package count its lines and its images.
LEMMA CountsAgree == DInv /\ CInv => ReportsCountThePackage
<1> SUFFICES ASSUME DInv, CInv, package # None
             PROVE  /\ reports.lines = Len(csv.lines)
                    /\ reports.withImages =>
                          reports.present + reports.missing + OfStatus("conversion_failed") = reports.lines
                    /\ \/ reports.present = Cardinality(package.images)
                       \/ package.alerts /\ package.images = {}
  BY DEF ReportsCountThePackage
<1>1. /\ csv # None /\ reports # None
      /\ archive # None => matching # None /\ ~Blocking(matching.bindings)
      /\ reports.withImages => archive # None
      /\ reports = Integrity(reports.withImages)
  BY DEF CInv, PackageIsCounted, ReportsCount
<1>2. reports.lines = Len(csv.lines)
  BY <1>1 DEF Integrity
<1>3. ASSUME reports.withImages
      PROVE  reports.present = Cardinality(matching.images) /\ reports.missing = OfStatus("missing")
  BY <1>1, <1>3 DEF Integrity
<1>4. ASSUME reports.withImages
      PROVE  reports.present + reports.missing + OfStatus("conversion_failed") = reports.lines
  <2>1. matching # None /\ ~Blocking(matching.bindings) /\ table \in Tables
    BY <1>1, <1>4 DEF DInv, Grounded
  <2>2. Len(csv.lines) \in Nat /\ DOMAIN table = 1 .. Len(csv.lines)
    BY <1>1, <2>1, LinesOfTheTable
  <2>3. IsFiniteSet(DOMAIN table)
    BY <2>2, FS_Interval
  <2>4. Cardinality(matching.images) = OfStatus("matched")
    BY <2>1, <2>3, ImagesAreCounted
  <2>5. OfStatus("matched") + OfStatus("missing") + OfStatus("conversion_failed") = Len(csv.lines)
    BY <2>1, <2>2, RowsAddUp
  <2> QED BY <1>2, <1>3, <1>4, <2>4, <2>5
<1>5. \/ reports.present = Cardinality(package.images)
      \/ package.alerts /\ package.images = {}
  BY <1>3 DEF CInv, PackageIsCounted
<1> QED BY <1>2, <1>4, <1>5

\* Without an alert every row is matched, and the CSV names its image.
LEMMA NothingIsLeftOut == DInv /\ CInv => AlertlessPackageIsComplete
<1> SUFFICES ASSUME DInv, CInv, package # None, ~package.alerts
             PROVE  {f.name : f \in package.images} = {csv.lines[i].imageid : i \in DOMAIN csv.lines}
  BY DEF AlertlessPackageIsComplete
<1>1. /\ csv # None /\ reports # None /\ reports.withImages /\ matching # None
      /\ package.images = matching.images /\ ~HasWarnings(matching)
  BY DEF CInv, PackageIsCounted
<1>2. ~Blocking(matching.bindings) /\ table \in Tables
  BY <1>1 DEF CInv, ReportsCount, DInv, Grounded
<1>3. /\ DOMAIN matching.bindings = DOMAIN table
      /\ \A i \in DOMAIN table :
            /\ matching.bindings[i].status = "matched"
            /\ matching.bindings[i].final = ImageId[table[i].id]
  <2>1. /\ DOMAIN matching.bindings = DOMAIN table
        /\ \A i \in DOMAIN table : matching.bindings[i].status = "matched"
    BY <1>1, <1>2 DEF CInv, MatchingIsWhole, Blocking, HasWarnings, Range
  <2>2. \A i \in DOMAIN table : matching.bindings[i].final = ImageId[table[i].id]
    BY <1>1, <2>1 DEF DInv, MatchingIsOfTheTable, NamesDossiers, Range
  <2> QED BY <2>1, <2>2
<1>4. DOMAIN csv.lines = DOMAIN table
  BY <1>1, <1>2, LinesOfTheTable
<1>5. \A i \in DOMAIN table : csv.lines[i].imageid = ImageId[table[i].id]
  BY <1>1, LineOfRow
<1>6. {f.name : f \in package.images} = {ImageId[table[i].id] : i \in DOMAIN table}
  <2>1. package.images = {[name |-> matching.bindings[i].final, from |-> matching.bindings[i].source] :
                          i \in DOMAIN table}
    BY <1>1, <1>3 DEF DInv, MatchingIsOfTheTable, ProcessedImages, Range
  <2>2. ASSUME NEW f \in package.images
        PROVE  f.name \in {ImageId[table[i].id] : i \in DOMAIN table}
    BY <1>3, <2>1, <2>2
  <2>3. ASSUME NEW i \in DOMAIN table
        PROVE  \E f \in package.images : f.name = ImageId[table[i].id]
    <3> DEFINE f == [name |-> matching.bindings[i].final, from |-> matching.bindings[i].source]
    <3>1. f \in package.images
      BY <2>1, <2>3
    <3>2. f.name = ImageId[table[i].id]
      BY <1>3, <2>3
    <3> QED BY <3>1, <3>2
  <2> QED BY <2>2, <2>3
<1> QED BY <1>4, <1>5, <1>6

-----------------------------------------------------------------------------
(***************************************************************************)
(* The theorems.                                                           *)
(***************************************************************************)

\* The inductive invariant holds in every reachable state.
THEOREM DeliveryInvariance == DeliverySpec => []DInv
BY DInit, DNext, PTL DEF DeliverySpec

\* Every image of a package is named by the line of its dossier, whenever the
\* CSV was validated and whatever root is configured since (package.py,
\* _require_csv_path_root; csv_preview.py, _headers_and_rows_from_sort).
THEOREM PackagedImagesHaveTheirLine == DeliverySpec => []PackagedImagesAreNamed
<1>1. DInv => PackagedImagesAreNamed
  BY DEF DInv
<1> QED BY <1>1, DeliveryInvariance, PTL

\* A CSV that can be exported is the one a validation would make now
\* (csv_preview.py, get_csv_export_payload).
THEOREM ExportsAreCurrent == DeliverySpec => []ExportedCsvIsCurrent
<1>1. DInv => ExportedCsvIsCurrent
  BY PreviewIsOfTheTable DEF DInv, CsvIsOfTheTable, ExportedCsvIsCurrent, Exportable
<1> QED BY <1>1, DeliveryInvariance, PTL

\* The reports of a package count its lines and images, and one that drops the
\* images they announce has an alert (reports.py, _integrity_payload;
\* package.py, _build_package_sources).
THEOREM ReportsTellThePackage == DeliverySpec => []ReportsCountThePackage
<1>1. DeliverySpec => []CInv
  BY CInit, CNext, DeliveryInvariance, PTL DEF DeliverySpec
<1> QED BY <1>1, CountsAgree, DeliveryInvariance, PTL

\* A package without alert gives every line of its CSV its image, whatever was
\* lost, matched again or validated again before it was built.
THEOREM AlertlessPackagesAreComplete == DeliverySpec => []AlertlessPackageIsComplete
<1>1. DeliverySpec => []CInv
  BY CInit, CNext, DeliveryInvariance, PTL DEF DeliverySpec
<1> QED BY <1>1, NothingIsLeftOut, DeliveryInvariance, PTL
=============================================================================
