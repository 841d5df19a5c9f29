------------------------------- MODULE Images -------------------------------
(***************************************************************************)
(* The image archive of a lot: its inspection (images.py), the association *)
(* of each dossier of the normalised table with one image                  *)
(* (image_matching.py, image_matching_rules.py, image_naming.py), the      *)
(* user's decisions, which outlive the archive and the table they were     *)
(* taken on, and the converted images (processed_images.py).  Delivery     *)
(* says what the CSV, the reports and the package make of them.            *)
(*                                                                         *)
(* Workflow models when these steps run and what interrupts them; here     *)
(* each step runs on the current product of the ones before it.            *)
(* Characters are left out: a name is known by the keys it is looked up    *)
(* under.                                                                  *)
(***************************************************************************)
EXTENDS Integers, FiniteSets, SequencesExt

CONSTANTS
    Archives,     \* the archives the upload accepts
    Tables,       \* the normalised tables
    FullName,     \* _full_name_key of a name
    Stem,         \* _exact_stem of a name
    Tolerant,     \* _tolerant_stem_key of a name, "" when nothing is left
    Folded,       \* _normalized_zip_name of a name
    LongKeys,     \* the tolerant keys of at least PARTIAL_SUGGESTION_MIN_LENGTH
    Within,       \* the pairs of keys, the first being part of the second
    ImageId,      \* image_id_for_dossier
    MaxImageSize, MaxImageCount, MaxUnzippedSize,
    MaxResolutions \* bound: the images chosen for a lot

VARIABLES
    archive,      \* the deposited archive, or None
    inspection,   \* what its inspection found, or None
    table,        \* the normalised rows, or None
    resolutions,  \* the images the user chose, kept in the step's summary
    matching      \* the current association, or None

imageVars == <<archive, inspection, table, resolutions, matching>>

None == [none |-> TRUE]

-----------------------------------------------------------------------------
(* Inspection.  An entry has a name, the flaw of its path ("" if none), a   *)
(* place (file, directory, system), and says whether it is encrypted and in *)
(* a folder, what its extension makes of it (image, refused, other), its    *)
(* size and what decoding it gives (image, oversized, unreadable).          *)

HasSize(e) == e.path = "" /\ e.place # "directory"

IsFile(e) == HasSize(e) /\ e.place # "system"

Readable(e) == IsFile(e) /\ ~e.encrypted

IsRootImage(e) == Readable(e) /\ e.kind = "image" /\ ~e.folder

ASSUME ImagesAssumption ==
    /\ {MaxImageSize, MaxImageCount, MaxUnzippedSize, MaxResolutions} \subseteq Nat
    /\ \A t \in Tables : \A i \in DOMAIN t :
          t[i].id \in DOMAIN ImageId /\ t[i].names \in Seq(DOMAIN FullName)
    /\ Range(ImageId) \subseteq DOMAIN Stem
    \* the merge gives an identifier one row
    /\ \A t \in Tables : \A i, j \in DOMAIN t : i # j /\ t[i].id = t[j].id => t[i].id = ""
    \* a full name is folded from the same composed text as a name of the archive
    /\ \A n, m \in DOMAIN Folded : FullName[n] = FullName[m] => Folded[n] = Folded[m]
    /\ \A a \in Archives : \A i \in DOMAIN a.entries :
          IsRootImage(a.entries[i]) => a.entries[i].name \in DOMAIN Folded
    \* the name of an image has its extension
    /\ \A n \in DOMAIN Folded : FullName[n] # ""

\* what one entry refuses the archive for; the first flaw hides the others
EntryBlocker(e, code) ==
    \/ e.path # "" /\ code = e.path
    \/ IsFile(e) /\ e.encrypted /\ code = "encrypted_entry"
    \/ Readable(e) /\ e.kind = "refused" /\ code = "format_refused"
    \/ Readable(e) /\ e.kind = "image" /\ e.folder /\ code = "image_in_subfolder"
    \/ Readable(e) /\ e.kind = "other" /\ e.folder /\ code = "entry_in_subfolder"
    \/ IsRootImage(e) /\ e.size > MaxImageSize /\ code = "image_too_large"

BlockerCodes ==
    {"empty_name", "control_characters", "unsafe_path", "encrypted_entry",
     "format_refused", "image_in_subfolder", "entry_in_subfolder", "image_too_large",
     "duplicate_names", "too_many_files", "too_many_images", "uncompressed_too_large"}

DuplicateNames(entries) ==
    \E i, j \in DOMAIN entries :
        i # j /\ IsRootImage(entries[i]) /\ IsRootImage(entries[j])
              /\ Folded[entries[i].name] = Folded[entries[j].name]

\* what the archive is refused for, its entries being read one by one
Blockers(entries) ==
    LET size == SumFunction([i \in DOMAIN entries |->
                               IF HasSize(entries[i]) THEN entries[i].size ELSE 0])
    IN {c \in BlockerCodes :
          \/ \E e \in Range(entries) : EntryBlocker(e, c)
          \/ c = "duplicate_names" /\ DuplicateNames(entries)
          \/ c = "too_many_files"
             /\ Cardinality({i \in DOMAIN entries : IsFile(entries[i])}) > MaxImageCount
          \/ c = "too_many_images"
             /\ Cardinality({i \in DOMAIN entries : IsRootImage(entries[i])}) > MaxImageCount
          \/ c = "uncompressed_too_large" /\ size > MaxUnzippedSize}

RootImages(entries) == {e \in Range(entries) : IsRootImage(e)}

\* the dimensions are only looked at in an archive that is otherwise sound
InspectImageZip(a) ==
    LET found == Blockers(a.entries)
        oversized == \E e \in RootImages(a.entries) : e.decoded = "oversized"
    IN IF ~a.readable THEN [images |-> {}, blockers |-> {"unreadable"}]
       ELSE [images |-> RootImages(a.entries),
             blockers |-> IF found = {} /\ oversized THEN {"dimensions_exceeded"} ELSE found]

Inspected == inspection # None /\ inspection.blockers = {}

-----------------------------------------------------------------------------
(* Matching.                                                                *)

\* the rows that are given a binding: those with an identifier, each at its place
Rows == [i \in {k \in DOMAIN table : table[k].id # ""} |-> table[i]]

KnownIds == {r.id : r \in Range(Rows)}

KnownNames == {e.name : e \in inspection.images}

\* source_image_values: the names in the row's image columns; the code keeps
\* each once, a second look under the same name finding nothing new
OriginalNames(row) == row.names

FinalCollisions ==
    {ImageId[r.id] : r \in {x \in Range(Rows) :
        \E y \in Range(Rows) : y.id # x.id /\ ImageId[y.id] = ImageId[x.id]}}

ManualCollisions(chosen) ==
    {s \in Range(chosen) : Cardinality({d \in DOMAIN chosen : chosen[d] = s}) > 1}

\* the images of the archive found under a key of a text
Probe(level, key, text, fallback) ==
    [level |-> level, fallback |-> fallback,
     found |-> {n \in KnownNames : key[text] # "" /\ key[n] = key[text]}]

\* mutant: a name is looked for under every key before the next name is
NameByName(row) ==
    LET final == ImageId[row.id]
        names == OriginalNames(row)
    IN FlattenSeq([i \in DOMAIN names |->
          <<Probe("original_exact", FullName, names[i], FALSE),
            Probe("original_exact_stem", Stem, names[i], FALSE),
            Probe("original_tolerant", Tolerant, names[i], FALSE)>>])
       \o <<Probe("id_fallback_exact", Stem, row.id, TRUE),
            Probe("id_fallback_exact_final_name", Stem, final, TRUE),
            Probe("id_fallback_tolerant", Tolerant, row.id, TRUE),
            Probe("id_fallback_tolerant_final_name", Tolerant, final, TRUE)>>

\* where the image of a row is looked for, in order
Probes(row) ==
    LET final == ImageId[row.id]
        names(level, key) == [i \in DOMAIN OriginalNames(row) |->
                                Probe(level, key, OriginalNames(row)[i], FALSE)]
    IN names("original_exact", FullName)
       \o names("original_exact_stem", Stem)
       \o names("original_tolerant", Tolerant)
       \o <<Probe("id_fallback_exact", Stem, row.id, TRUE),
            Probe("id_fallback_exact_final_name", Stem, final, TRUE),
            Probe("id_fallback_tolerant", Tolerant, row.id, TRUE),
            Probe("id_fallback_tolerant_final_name", Tolerant, final, TRUE)>>

\* several images under a full name do not settle the search, as several
\* under any other key do
Settles(probe) ==
    \/ Cardinality(probe.found) = 1
    \/ Cardinality(probe.found) > 1 /\ probe.level # "original_exact"

PartialSuggestions(row) ==
    LET keys == {Tolerant[t] : t \in Range(OriginalNames(row)) \cup {row.id, ImageId[row.id]}}
    IN {n \in KnownNames : Tolerant[n] \in LongKeys
            /\ \E k \in keys \cap LongKeys : {<<k, Tolerant[n]>>, <<Tolerant[n], k>>} \cap Within # {}}

Binding(row, status, level, source, fallback) ==
    [id |-> row.id, final |-> ImageId[row.id], status |-> status, level |-> level,
     source |-> source, fallback |-> fallback]

\* the image the user chose, if the archive still has it
ManualMatch(row, chosen) ==
    LET images == {n \in KnownNames : FullName[n] = FullName[chosen[row.id]]}
    IN IF chosen[row.id] \in ManualCollisions(chosen) \/ images = {}
       THEN Binding(row, "ambiguous", "manual_invalid", "", FALSE)
       ELSE Binding(row, "matched", "manual", CHOOSE n \in images : TRUE, FALSE)

AutomaticMatch(row) ==
    LET probes == Probes(row)
        at == SelectInSeq(probes, Settles)
        found == IF at = 0 THEN {} ELSE probes[at].found
    IN CASE Cardinality(found) = 1 ->
              Binding(row, "matched", probes[at].level, CHOOSE n \in found : TRUE,
                      probes[at].fallback)
         [] Cardinality(found) > 1 ->
              Binding(row, "ambiguous", probes[at].level, "", probes[at].fallback)
         [] found = {} /\ PartialSuggestions(row) # {} ->
              Binding(row, "ambiguous", "partial_suggestion", "", FALSE)
         [] OTHER -> Binding(row, "missing", "none", "", FALSE)

\* mutant: what the user chose only helps when nothing is found
AutomaticFirst(row, chosen) ==
    LET automatic == AutomaticMatch(row)
    IN CASE ImageId[row.id] \in FinalCollisions ->
              Binding(row, "ambiguous", "final_name_collision", "", FALSE)
         [] automatic.status # "matched" /\ row.id \in DOMAIN chosen -> ManualMatch(row, chosen)
         [] OTHER -> automatic

MatchRow(row, chosen) ==
    CASE ImageId[row.id] \in FinalCollisions ->
           Binding(row, "ambiguous", "final_name_collision", "", FALSE)
      [] ImageId[row.id] \notin FinalCollisions /\ row.id \in DOMAIN chosen ->
           ManualMatch(row, chosen)
      [] OTHER -> AutomaticMatch(row)

\* mutant: an image the user chose is not compared with the others
OnlyAutomaticDuplicates(bindings) ==
    LET shared(b) == /\ b.status = "matched" /\ b.level # "manual"
                     /\ \E i, j \in DOMAIN bindings :
                           /\ i # j /\ bindings[i].source = b.source /\ bindings[j].source = b.source
                           /\ {bindings[i].status, bindings[j].status} = {"matched"}
                           /\ "manual" \notin {bindings[i].level, bindings[j].level}
    IN [i \in DOMAIN bindings |->
          IF shared(bindings[i])
          THEN [bindings[i] EXCEPT !.status = "ambiguous", !.level = "source_duplicate"]
          ELSE bindings[i]]

\* an image that two rows match is given to neither
MarkDuplicateSources(bindings) ==
    LET shared(b) == /\ b.status = "matched"
                     /\ \E i, j \in DOMAIN bindings :
                           /\ i # j /\ bindings[i].source = b.source /\ bindings[j].source = b.source
                           /\ {bindings[i].status, bindings[j].status} = {"matched"}
    IN [i \in DOMAIN bindings |->
          IF shared(bindings[i])
          THEN [bindings[i] EXCEPT !.status = "ambiguous", !.level = "source_duplicate"]
          ELSE bindings[i]]

Bindings(chosen) ==
    MarkDuplicateSources([i \in DOMAIN Rows |-> MatchRow(Rows[i], chosen)])

Blocking(bindings) == \E b \in Range(bindings) : b.status = "ambiguous"

\* mutant: what is given to nobody is worked out before the images that two
\* rows match are taken from both
UnreferencedTooSoon(bindings) ==
    KnownNames \ {b.source : b \in Range(bindings)}

Unreferenced(bindings) ==
    KnownNames \ {b.source : b \in {x \in Range(bindings) : x.status = "matched"}}

-----------------------------------------------------------------------------
(* Conversion.  The path the matching writes beside each image is left out: *)
(* the CSV writes its own, under the root of the lot.                       *)

Decoded(name) == (CHOOSE e \in inspection.images : e.name = name).decoded

Converted(b) ==
    IF b.status = "matched" /\ Decoded(b.source) # "image"
    THEN [b EXCEPT !.status = "conversion_failed"] ELSE b

\* the files of images-traitees.zip
ProcessedImages(bindings) ==
    {[name |-> b.final, from |-> b.source] : b \in {x \in Range(bindings) : x.status = "matched"}}

HasWarnings(m) ==
    \/ m.unreferenced # {}
    \/ \E b \in Range(m.bindings) :
          \/ b.status \in {"missing", "conversion_failed"} \/ b.fallback
          \/ b.status = "matched"
             /\ b.level \in {"original_tolerant", "id_fallback_tolerant",
                             "id_fallback_tolerant_final_name"}

-----------------------------------------------------------------------------
NoResolution == [d \in {} |-> ""]

Init ==
    /\ archive = None /\ inspection = None /\ table = None
    /\ resolutions = NoResolution /\ matching = None

\* a new archive makes the inspection and the matching obsolete; what the
\* user chose stays in the summary of the step
Deposit(a) ==
    /\ archive' = a
    /\ inspection' = None /\ matching' = None
    /\ UNCHANGED <<table, resolutions>>

Inspect ==
    /\ archive # None /\ inspection = None
    /\ inspection' = InspectImageZip(archive)
    /\ UNCHANGED <<archive, table, resolutions, matching>>

\* the workbook or its mapping changed
Normalize(t) ==
    /\ table' = t
    /\ matching' = None
    /\ UNCHANGED <<archive, inspection, resolutions>>

\* run_image_matching_job; without a table or an accepted archive it blocks
\* the step and leaves no matching
Match ==
    /\ table # None /\ Inspected /\ matching = None
    /\ LET bindings == Bindings(resolutions)
           converted == [i \in DOMAIN bindings |-> Converted(bindings[i])]
       IN matching' = [bindings |-> converted,
                       unreferenced |-> Unreferenced(bindings),
                       images |-> ProcessedImages(converted)]
    /\ UNCHANGED <<archive, inspection, table, resolutions>>

\* an identifier, an image of the archive, and no image twice, not even with
\* those chosen earlier
Accepted(submitted) ==
    /\ submitted # NoResolution
    /\ DOMAIN submitted \subseteq KnownIds /\ Range(submitted) \subseteq KnownNames
    /\ IsInjective(submitted @@ resolutions)

Resolve(submitted) ==
    /\ table # None /\ Inspected
    /\ Accepted(submitted)
    /\ Cardinality(DOMAIN (submitted @@ resolutions)) <= MaxResolutions
    /\ resolutions' = submitted @@ resolutions
    /\ matching' = None
    /\ UNCHANGED <<archive, inspection, table>>

Submissions ==
    UNION {[ids -> KnownNames] : ids \in {s \in SUBSET KnownIds : Cardinality(s) \in 1 .. 2}}

Next ==
    \/ \E a \in Archives : Deposit(a)
    \/ Inspect
    \/ \E t \in Tables : Normalize(t)
    \/ Match
    \/ table # None /\ Inspected /\ \E s \in Submissions : Resolve(s)

Spec == Init /\ [][Next]_imageVars

-----------------------------------------------------------------------------
(* Properties.                                                              *)

\* No image of the archive is given to two dossiers and no two images go
\* under one name, whoever chose them: the user or the rules.
ImagesServeOneDossier ==
    matching # None =>
        LET bindings == matching.bindings
            given == {i \in DOMAIN bindings : bindings[i].status \in {"matched", "conversion_failed"}}
        IN /\ \A i, j \in given : i # j => /\ bindings[i].source # bindings[j].source
                                          /\ bindings[i].final # bindings[j].final
           /\ \A f, g \in matching.images : f.name = g.name => f = g

\* another dossier ends in the same file name
NameIsTaken(bindings, i) ==
    /\ bindings[i].status = "ambiguous" /\ bindings[i].level = "final_name_collision"
    /\ \E j \in DOMAIN bindings \ {i} : bindings[j].final = bindings[i].final

\* another dossier found the same image, and neither has it
SourceIsDisputed(bindings, i) ==
    \E j \in DOMAIN bindings \ {i} : \A k \in {i, j} :
        /\ bindings[k].status = "ambiguous" /\ bindings[k].level = "source_duplicate"
        /\ bindings[k].source = bindings[i].source

\* An image the user chose goes to the dossier it was chosen for, whatever the
\* names in the table and whatever was chosen before or after, as long as the
\* archive has it.  Only another dossier stands in its way, and the line is
\* then ambiguous, which keeps the lot from going on: one that ends in the same
\* file name, or one whose own names find the chosen image.
ChosenImageIsUsed ==
    matching # None =>
        \A i \in DOMAIN matching.bindings :
            LET b == matching.bindings[i]
            IN b.id \in DOMAIN resolutions /\ resolutions[b.id] \in KnownNames =>
                  \/ NameIsTaken(matching.bindings, i)
                  \/ /\ b.source = resolutions[b.id]
                     /\ \/ b.status \in {"matched", "conversion_failed"}
                        \/ SourceIsDisputed(matching.bindings, i)

\* An image named in full by a row is never left for one that looks like
\* another of the row's names.
NamedImageIsUsed ==
    matching # None =>
        \A i \in DOMAIN Rows :
            LET named == {n \in KnownNames : FullName[n] \in {FullName[t] : t \in Range(Rows[i].names)}}
                b == matching.bindings[i]
            IN Rows[i].id \notin DOMAIN resolutions /\ named # {} =>
                  b.source \in named \/ b.level = "final_name_collision"

\* Every image of the archive is either given to a dossier or listed as
\* given to none, and every dossier has its line.
EveryImageIsAccountedFor ==
    matching # None =>
        LET given == {b.source : b \in {x \in Range(matching.bindings) :
                                           x.status \in {"matched", "conversion_failed"}}}
        IN /\ given \cap matching.unreferenced = {}
           /\ given \cup matching.unreferenced = KnownNames
           /\ \A i \in DOMAIN Rows : matching.bindings[i].id = Rows[i].id

\* "ambiguité résoluble" (design-architecture-web-sircom-2026.md:995): when no
\* two rows claim an image or a final name, some choice unblocks the matching.
AmbiguityCanBeResolved ==
    matching # None
      /\ (\A b \in Range(matching.bindings) :
             b.level \notin {"source_duplicate", "final_name_collision"})
      /\ Blocking(matching.bindings)
    => \E s \in UNION {[ids -> KnownNames] : ids \in SUBSET KnownIds} :
          Accepted(s) /\ ~Blocking(Bindings(s @@ resolutions))
=============================================================================
