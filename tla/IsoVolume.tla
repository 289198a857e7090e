------------------------------ MODULE IsoVolume ------------------------------
(***************************************************************************)
(* The parser behind the .iso viewer (FileXRay/extensions/iso.c,           *)
(* fx_iso_parse): the volume descriptors, the directories of the ISO 9660  *)
(* tree, the UDF recognition sequence with its anchors, and the El Torito  *)
(* boot catalogue.  Every number it follows comes from the file.           *)
(*                                                                         *)
(* A sector is a record of what its bytes say to each of these readers; an *)
(* image is the sectors that say something.  The bytes of a record stand   *)
(* for their length, whether the identifier is "." or "..", and the        *)
(* features that the name and the system use area show (traits).           *)
(* A variant before the definition it varies is a fault no specification   *)
(* uses; README.md says which property rejects it.                         *)
(***************************************************************************)
EXTENDS Integers, Sequences

CONSTANTS
  IsoMaxDword,
  SectorSize,      \* FX_ISO_SECTOR_SIZE
  FirstDescriptor, \* 16, where the descriptors start
  MaxDescriptors,  \* FX_ISO_MAX_VD_SECTORS
  AnchorSector,    \* 256
  MaxDirs,         \* FX_ISO_MAX_SCAN_DIRS
  MaxDepth,        \* 32
  MinRecord,       \* 34, the least length of a directory record
  MaxSequence,     \* FX_ISO_MAX_UDF_VDS_SECTORS
  CatalogEntries,  \* entries of 32 bytes in a sector
  MaxImages,       \* FX_ISO_MAX_BOOT_IMAGES
  Images           \* the image files that may be opened

None == "none"
Dwords == 0 .. IsoMaxDword

\* length is record[0]; fits says that the identifier ends inside the record.
NoRecord == [length |-> 0, fits |-> TRUE, special |-> FALSE, directory |-> FALSE,
             extent |-> 0, size |-> 0, name |-> 0, traits |-> {}]
NoEntry == [indicator |-> 0, platform |-> 0, count |-> 0, empty |-> TRUE]

\* id is bytes 0 to 5 as the readers of descriptors tell them apart, tag the
\* UDF tag, location and length those of an anchor, revision that of a
\* primary volume descriptor (None when its entity is not OSTA's), records maps
\* the positions of directory records, entries is a boot catalogue.
Blank == [id |-> None, root |-> NoRecord, catalog |-> 0, records |-> <<>>,
          entries |-> <<>>, tag |-> 0, location |-> 0, length |-> 0,
          revision |-> None, hybrid |-> FALSE]

IsExtent(e) == e.extent \in Dwords /\ e.size \in Dwords
IsRecord(r) == IsExtent(r) /\ r.length \in Nat /\ r.name \in Nat
IsSector(s) == /\ IsRecord(s.root) /\ \A p \in DOMAIN s.records : IsRecord(s.records[p])
               /\ s.location \in Dwords /\ s.length \in Dwords
               /\ \A n \in DOMAIN s.entries : /\ s.entries[n].count \in Nat
                                              /\ s.entries[n].platform \in Nat

ASSUME IsoAssumption ==
  /\ SectorSize \in Nat \ {0} /\ IsoMaxDword \in Nat
  /\ (IsoMaxDword + 1) % SectorSize = 0
  /\ FirstDescriptor \in Nat /\ MaxDescriptors \in Nat /\ AnchorSector \in Nat
  /\ MaxDirs \in Nat \ {0} /\ MaxDepth \in Nat /\ MinRecord \in Nat \ {0}
  /\ MaxSequence \in Nat /\ CatalogEntries \in Nat \ {0, 1} /\ MaxImages \in Nat
  /\ \A f \in Images :
       f.sectors \in Nat /\ \A lba \in DOMAIN f.at : IsSector(f.at[lba])

VARIABLES
  isoFile,
  isoPhase,
  index,       \* of the loop in work
  info,        \* FX_ISO_INFO
  items,       \* the directories found
  item_index,  \* how many of them were taken
  offset,      \* into the directory in work
  pos,         \* into its sector
  inside       \* of a section of the catalogue: entries left; of UDF: nsr_version

isoVars == <<isoFile, isoPhase, index, info, items, item_index, offset, pos, inside>>

NoInfo == [iso9660 |-> FALSE, joliet |-> FALSE, extended |-> FALSE,
           enhanced |-> FALSE, udf |-> FALSE, version |-> None,
           el_torito |-> FALSE, catalog |-> 0, hybrid |-> FALSE,
           root |-> [extent |-> 0, size |-> 0], name |-> 0, traits |-> {},
           platform |-> 0, platforms |-> {}, images |-> <<>>]

IsoInit == /\ isoFile \in Images /\ isoPhase = "open" /\ index = 0 /\ info = NoInfo
        /\ items = <<>> /\ item_index = 0 /\ offset = 0 /\ pos = 0 /\ inside = 0

-----------------------------------------------------------------------------
\* fx_iso_read_sector: only whole sectors of the file, and none the disk
\* refuses.
Readable(lba) == lba < isoFile.sectors /\ lba \notin isoFile.bad
At(lba) == IF lba \in DOMAIN isoFile.at THEN isoFile.at[lba] ELSE Blank

\* fx_iso_parse gives up: the first failure is its result.
IsoFails == isoPhase' = "failed" /\ UNCHANGED <<isoFile, index, info, items, item_index,
                                         offset, pos, inside>>

\* The reader cannot be opened, or the file is empty.
OpenImage == /\ isoPhase = "open"
             /\ \/ IsoFails
                \/ /\ isoPhase' = "descriptors"
                   /\ UNCHANGED <<isoFile, index, info, items, item_index, offset,
                                  pos, inside>>

\* fx_iso_scan_record: a record too short for a name, or whose name leaves
\* it, says nothing.
Scanned(i, r) == IF r.length < MinRecord \/ ~r.fits THEN i
                 ELSE [i EXCEPT !.traits = @ \cup r.traits,
                                !.name = IF r.special \/ r.name < @ THEN @ ELSE r.name]

\* What a CD001 descriptor adds.
Described(i, s) ==
  CASE s.id = "boot" -> [i EXCEPT !.el_torito = TRUE, !.catalog = s.catalog]
    [] s.id = "primary" /\ s.root.length < MinRecord -> [i EXCEPT !.iso9660 = TRUE]
    [] s.id = "primary" /\ s.root.length >= MinRecord ->
         Scanned([i EXCEPT !.iso9660 = TRUE,
                           !.root = [extent |-> s.root.extent, size |-> s.root.size]],
                 s.root)
    [] s.id = "joliet" -> [i EXCEPT !.joliet = TRUE, !.extended = FALSE]
    [] s.id = "extended" -> [i EXCEPT !.joliet = TRUE, !.extended = TRUE]
    [] s.id = "enhanced" -> [i EXCEPT !.iso9660 = TRUE, !.enhanced = TRUE]
    [] OTHER -> i

\* Only the first sector decides that there are no descriptors at all.
IsDescriptor(s) == s.id \notin {None, "nsr2", "nsr3", "tea"}
DescriptorsEnd(s) == \/ index >= MaxDescriptors
                     \/ ~Readable(FirstDescriptor + index)
                     \/ index = 0 /\ ~IsDescriptor(s)
                     \/ s.id = "end"

\* The root is the first directory of the queue.
StartDirectories ==
  /\ IF info.iso9660
     THEN /\ isoPhase' = "items"
          /\ items' = IF info.root.extent = 0 \/ info.root.size = 0 THEN <<>>
                      ELSE <<[extent |-> info.root.extent, size |-> info.root.size,
                              depth |-> 0]>>
     ELSE isoPhase' = "vrs" /\ items' = items
  /\ index' = 0
  /\ UNCHANGED <<isoFile, info, item_index, offset, pos, inside>>

ReadDescriptor ==
  /\ isoPhase = "descriptors"
  /\ LET s == At(FirstDescriptor + index)
     IN  \/ DescriptorsEnd(s) /\ StartDirectories
         \/ /\ ~DescriptorsEnd(s)
            /\ info' = Described(info, s) /\ index' = index + 1
            /\ UNCHANGED <<isoFile, isoPhase, items, item_index, offset, pos, inside>>

-----------------------------------------------------------------------------
(* fx_iso_scan_directories *)

TakeItem ==
  /\ isoPhase = "items"
  /\ IF item_index < Len(items)
     THEN item_index' = item_index + 1 /\ offset' = 0 /\ isoPhase' = "directory"
     ELSE isoPhase' = "vrs" /\ UNCHANGED <<item_index, offset>>
  /\ UNCHANGED <<isoFile, index, info, items, pos, inside>>

Item == items[item_index]

ReadDirectorySector ==
  /\ isoPhase = "directory"
  /\ LET lba == (Item.extent + offset \div SectorSize) % (IsoMaxDword + 1)
     IN  \/ /\ offset >= Item.size /\ isoPhase' = "items"
            /\ UNCHANGED <<isoFile, index, info, items, item_index, offset, pos, inside>>
         \/ offset < Item.size /\ ~Readable(lba) /\ IsoFails
         \/ /\ offset < Item.size /\ Readable(lba)
            /\ isoPhase' = "records" /\ pos' = 0
            /\ UNCHANGED <<isoFile, index, info, items, item_index, offset, inside>>

Record == LET s == At((Item.extent + offset \div SectorSize) % (IsoMaxDword + 1))
          IN  IF pos \in DOMAIN s.records THEN s.records[pos] ELSE NoRecord
SectorBytes == IF Item.size - offset < SectorSize THEN Item.size - offset ELSE SectorSize

Seen(r) == \E i \in DOMAIN items : items[i].extent = r.extent /\ items[i].size = r.size

\* A subdirectory joins the queue once.
IsSubdirectory(r) == /\ r.length >= MinRecord /\ r.directory /\ ~r.special
                     /\ r.extent # 0 /\ r.size # 0
QueuesAgain(r) == IsSubdirectory(r) /\ Item.depth < MaxDepth /\ Len(items) < MaxDirs
QueuesPastCapacity(r) == IsSubdirectory(r) /\ Item.depth < MaxDepth /\ ~Seen(r)
QueuesShallower(r) ==
  IsSubdirectory(r) /\ Item.depth + 1 < MaxDepth /\ Len(items) < MaxDirs /\ ~Seen(r)
Queues(r) ==
  IsSubdirectory(r) /\ Item.depth < MaxDepth /\ Len(items) < MaxDirs /\ ~Seen(r)

\* The next sector: in a DWORD the offset may come round to 0.
SectorEnds == /\ offset' = (offset + SectorSize) % (IsoMaxDword + 1)
              /\ isoPhase' = "directory"
              /\ UNCHANGED <<isoFile, index, info, items, item_index, pos, inside>>

RecordsEndBySize(r) == pos >= SectorBytes \/ r.length > SectorBytes - pos
RecordsEnd(r) == pos >= SectorBytes \/ r.length = 0 \/ r.length > SectorBytes - pos

ScanRecord ==
  /\ isoPhase = "records"
  /\ LET r == Record
     IN  \/ RecordsEnd(r) /\ SectorEnds
         \/ /\ ~RecordsEnd(r)
            /\ info' = Scanned(info, r) /\ pos' = pos + r.length
            /\ items' = IF Queues(r)
                        THEN Append(items, [extent |-> r.extent, size |-> r.size,
                                            depth |-> Item.depth + 1])
                        ELSE items
            /\ UNCHANGED <<isoFile, isoPhase, index, item_index, offset, inside>>

-----------------------------------------------------------------------------
(* fx_iso_parse_udf_vrs and what it calls; inside is nsr_version *)

Nsr(s) == CASE s.id = "nsr2" -> 2 [] s.id = "nsr3" -> 3 [] OTHER -> 0

VrsEnds(s) == \/ index >= MaxDescriptors
              \/ ~Readable(FirstDescriptor + index)
              \/ s.id = "tea"

ReadVrs ==
  /\ isoPhase = "vrs"
  /\ LET s == At(FirstDescriptor + index)
     IN  \/ /\ VrsEnds(s)
            /\ isoPhase' = IF info.udf THEN "anchors" ELSE "catalog"
            /\ index' = 0 /\ UNCHANGED <<info, inside>>
         \/ /\ ~VrsEnds(s) /\ index' = index + 1 /\ isoPhase' = isoPhase
            /\ IF Nsr(s) # 0 THEN info' = [info EXCEPT !.udf = TRUE] /\ inside' = Nsr(s)
               ELSE UNCHANGED <<info, inside>>
  /\ UNCHANGED <<isoFile, items, item_index, offset, pos>>

\* The places of an anchor in an image of so many sectors.
AnchorsAt(n) == <<AnchorSector>>
                \o (IF n > AnchorSector THEN <<n - (AnchorSector + 1)>> ELSE <<>>)
                \o (IF n > 0 THEN <<n - 1>> ELSE <<>>)
IsAnchor(lba) == /\ Readable(lba) /\ At(lba).tag = 2
                 /\ At(lba).location # 0 /\ At(lba).length # 0

\* The length in sectors is computed in a DWORD as well.
SequenceLengthDown(bytes) ==
  LET n == bytes \div SectorSize IN IF n > MaxSequence THEN MaxSequence ELSE n
SequenceLength(bytes) ==
  LET n == ((bytes + SectorSize - 1) % (IsoMaxDword + 1)) \div SectorSize
  IN  IF n > MaxSequence THEN MaxSequence ELSE n

\* offset is the sector of the sequence, pos its number.
UdfEnds(version) ==
  /\ isoPhase' = "catalog" /\ info' = [info EXCEPT !.version = version]
  /\ UNCHANGED <<isoFile, index, items, item_index, offset, pos, inside>>

TryAnchor ==
  /\ isoPhase = "anchors"
  /\ LET anchors == AnchorsAt(isoFile.sectors)
     IN  \/ index = Len(anchors) /\ UdfEnds(IF inside = 2 THEN "1.x" ELSE "2.x")
         \/ /\ index < Len(anchors)
            /\ IF IsAnchor(anchors[index + 1]) THEN isoPhase' = "sequence" /\ pos' = 0
               ELSE UNCHANGED <<isoPhase, pos>>
            /\ index' = index + 1
            /\ UNCHANGED <<isoFile, info, items, item_index, offset, inside>>

ReadSequence ==
  /\ isoPhase = "sequence"
  /\ LET anchor == At(AnchorsAt(isoFile.sectors)[index])
         lba == (anchor.location + pos) % (IsoMaxDword + 1)
     IN  \/ /\ \/ pos >= SequenceLength(anchor.length)
               \/ ~Readable(lba) \/ At(lba).tag = 8
            /\ isoPhase' = "anchors"
            /\ UNCHANGED <<isoFile, index, info, items, item_index, offset, pos, inside>>
         \/ /\ pos < SequenceLength(anchor.length) /\ Readable(lba) /\ At(lba).tag # 8
            /\ IF At(lba).tag = 6 /\ At(lba).revision # None
               THEN UdfEnds(At(lba).revision)
               ELSE /\ pos' = pos + 1
                    /\ UNCHANGED <<isoFile, isoPhase, index, info, items, item_index,
                                   offset, inside>>

-----------------------------------------------------------------------------
(* fx_iso_parse_el_torito; index is the entry, inside those left of a section *)

Catalog == At(info.catalog).entries
EntryOf(c, n) == IF n \in DOMAIN c THEN c[n] ELSE NoEntry
Entry(n) == EntryOf(Catalog, n)

\* fx_iso_add_boot_image: an entry that loads nothing and does not boot is
\* no image, and the array is bounded.
IsImage(e) == ~e.empty \/ e.indicator = 88
WithImage(i, platform, n) ==
  IF Len(i.images) >= MaxImages \/ ~IsImage(Entry(n)) THEN i
  ELSE [i EXCEPT !.platforms = @ \cup {platform},
                 !.images = Append(@, [entry |-> n, platform |-> platform])]

CatalogEnds(i) == /\ isoPhase' = "hybrid" /\ info' = i /\ UNCHANGED <<index, inside>>

\* A catalogue that cannot be read is no failure.
ReadCatalog ==
  /\ isoPhase = "catalog"
  /\ IF ~info.el_torito \/ info.catalog = 0 \/ ~Readable(info.catalog)
     THEN CatalogEnds(info)
     ELSE LET p == Entry(1).platform
          IN  /\ isoPhase' = "entries" /\ index' = 3 /\ inside' = 0
              /\ info' = WithImage([info EXCEPT !.platform = p,
                                                !.platforms = @ \cup {p}], p, 2)
  /\ UNCHANGED <<isoFile, items, item_index, offset, pos>>

\* A header names the platform of the entries it counts; 91 is the last one.
IsHeader(e) == e.indicator \in {90, 91}

ReadEntry ==
  /\ isoPhase = "entries"
  /\ LET e == Entry(index)
     IN  \/ (index > CatalogEntries \/ e.indicator = 0) /\ CatalogEnds(info)
         \/ /\ index <= CatalogEntries /\ IsHeader(e)
            /\ isoPhase' = IF e.indicator = 91 THEN "lastSection" ELSE "section"
            /\ index' = index + 1 /\ inside' = e.count
            /\ info' = [info EXCEPT !.platform = e.platform,
                                    !.platforms = @ \cup {e.platform}]
         \/ /\ index <= CatalogEntries /\ e.indicator # 0 /\ ~IsHeader(e)
            /\ index' = index + 1 /\ UNCHANGED <<isoPhase, inside>>
            /\ info' = IF e.indicator = 88 THEN WithImage(info, info.platform, index)
                       ELSE info
  /\ UNCHANGED <<isoFile, items, item_index, offset, pos>>

\* The header is remembered: the loop over its entries reuses indicator.
SectionEndsByEntry ==
  IF Entry(index - 1).indicator = 91 THEN CatalogEnds(info)
  ELSE isoPhase' = "entries" /\ UNCHANGED <<index, info, inside>>
SectionEnds ==
  IF isoPhase = "lastSection" THEN CatalogEnds(info)
  ELSE isoPhase' = "entries" /\ UNCHANGED <<index, info, inside>>

ReadSection ==
  /\ isoPhase \in {"section", "lastSection"}
  /\ \/ (inside = 0 \/ index > CatalogEntries) /\ SectionEnds
     \/ /\ inside > 0 /\ index <= CatalogEntries
        /\ info' = IF Entry(index).indicator \in {88, 0}
                   THEN WithImage(info, info.platform, index) ELSE info
        /\ index' = index + 1 /\ inside' = inside - 1 /\ isoPhase' = isoPhase
  /\ UNCHANGED <<isoFile, items, item_index, offset, pos>>

-----------------------------------------------------------------------------
\* The last step of fx_iso_parse: a file that shows none of these is no image.
FinishIso ==
  /\ isoPhase = "hybrid"
  /\ info' = [info EXCEPT !.hybrid = Readable(0) /\ At(0).hybrid]
  /\ isoPhase' = IF info.iso9660 \/ info.joliet \/ info.udf \/ info.el_torito
              THEN "done" ELSE "failed"
  /\ UNCHANGED <<isoFile, index, items, item_index, offset, pos, inside>>

Ended == isoPhase \in {"done", "failed"}
IsoNext == \/ OpenImage \/ ReadDescriptor \/ TakeItem \/ ReadDirectorySector \/ ScanRecord
        \/ ReadVrs \/ TryAnchor \/ ReadSequence \/ ReadCatalog \/ ReadEntry
        \/ ReadSection \/ FinishIso

IsoSpec == IsoInit /\ [][IsoNext]_isoVars

-----------------------------------------------------------------------------
\* The queue of directories starts with the root, stays within its array and
\* the depth allowed, names no directory twice, and goes level by level:
\* what is queued was found in a directory taken before, one level up.
QueueSound ==
  /\ Len(items) <= MaxDirs /\ item_index <= Len(items)
  /\ \A i \in DOMAIN items :
       /\ items[i].depth <= MaxDepth /\ items[i].extent # 0 /\ items[i].size # 0
       /\ \A j \in 1 .. i - 1 :
            /\ items[j].depth <= items[i].depth
            /\ <<items[j].extent, items[j].size>> # <<items[i].extent, items[i].size>>
       /\ i > 1 => \E j \in 1 .. item_index : items[j].depth + 1 = items[i].depth

\* What a sector of a directory shows: a chain of records from its start, cut
\* by the first that is empty or does not fit; here those before position n.
Whole(records, bytes, p) == /\ p \in DOMAIN records /\ records[p].length > 0
                            /\ records[p].length <= bytes - p
StartOf(records, bytes, start, p) ==
  p = 0 \/ \E q \in 0 .. p - 1 : /\ start[q] /\ Whole(records, bytes, q)
                                /\ q + records[q].length = p
Starts(records, bytes) ==
  LET start[p \in 0 .. SectorSize] == StartOf(records, bytes, start, p) IN start
Chain(records, bytes, n) ==
  LET start == Starts(records, bytes)
  IN  {records[p] : p \in {q \in 0 .. n - 1 : start[q] /\ Whole(records, bytes, q)}}

\* What a directory shows.
Sector(d, k) == At((d.extent + k) % (IsoMaxDword + 1)).records
Bytes(d, k) == IF d.size - k * SectorSize < SectorSize THEN d.size - k * SectorSize
               ELSE SectorSize
ShownIn(d, k, n) == Chain(Sector(d, k), Bytes(d, k), n)
Shown(d) == UNION {ShownIn(d, k, SectorSize) : k \in 0 .. (d.size - 1) \div SectorSize}

\* When the directories are behind it, the parser missed none: a subdirectory
\* that a queued directory shows is queued unless it lies too deep or the
\* queue is full, and the features shown are those of all records, no more.
PrimaryOf(n) == {At(FirstDescriptor + i).root : i \in {j \in 0 .. n - 1 :
                   At(FirstDescriptor + j).id = "primary"}}
Primary == {At(FirstDescriptor + i).root : i \in {j \in 0 .. MaxDescriptors - 1 :
              /\ \A k \in 0 .. j : /\ Readable(FirstDescriptor + k)
                                   /\ At(FirstDescriptor + k).id # "end"
              /\ At(FirstDescriptor + j).id = "primary"}}
Telling(r) == r.length >= MinRecord /\ r.fits
Told(i, r) == Telling(r) => r.traits \subseteq i.traits /\ (r.special \/ r.name <= i.name)
Kept(d, r) ==
  IsSubdirectory(r) => Seen(r) \/ d.depth = MaxDepth \/ Len(items) = MaxDirs
DirectoriesComplete ==
  isoPhase \in {"vrs", "anchors", "catalog", "hybrid", "done"} /\ items # <<>> =>
    LET records == Primary \cup UNION {Shown(items[i]) : i \in DOMAIN items}
    IN  /\ item_index = Len(items)
        /\ \A i \in DOMAIN items : \A r \in Shown(items[i]) : Kept(items[i], r)
        /\ \A r \in records : Told(info, r)
        /\ info.traits \subseteq UNION {r.traits : r \in {s \in records : Telling(s)}}

\* The role of each entry of a catalogue, from the roles of those before it.
RoleOf(c, role, n) ==
  LET Headers == {h \in 3 .. n - 1 : role[h] = "header"}
  IN  CASE n = 1 -> "validation"
        [] n = 2 -> "initial"
        [] n > 2 /\ \E m \in 3 .. n - 1 : role[m] = "end" -> "end"
        [] OTHER ->
             IF \E h \in Headers : n - h <= EntryOf(c, h).count THEN "inside"
             ELSE IF EntryOf(c, n).indicator = 0
                     \/ \E h \in Headers : EntryOf(c, h).indicator = 91 THEN "end"
             ELSE IF IsHeader(EntryOf(c, n)) THEN "header" ELSE "alone"
Roles(c) == LET role[n \in 1 .. CatalogEntries] == RoleOf(c, role, n) IN role

\* Of the entries before entry n: those that name a platform, the last of
\* them, and those that are images.
Named(roles, n) == {m \in 1 .. n - 1 : roles[m] \in {"validation", "header"}}
Owner(roles, n) == CHOOSE m \in Named(roles, n) : \A k \in Named(roles, n) : k <= m
BootImages(c, roles, n) ==
  {m \in 2 .. n - 1 : /\ \/ roles[m] = "initial"
                         \/ roles[m] = "inside" /\ EntryOf(c, m).indicator \in {88, 0}
                         \/ roles[m] = "alone" /\ EntryOf(c, m).indicator = 88
                      /\ IsImage(EntryOf(c, m))}

\* The platforms and images that i shows are those of the entries before n.
BootUpTo(c, roles, i, n) ==
  LET shown == BootImages(c, roles, n)
  IN  /\ i.platforms = {EntryOf(c, m).platform : m \in Named(roles, n)}
      /\ \A j \in DOMAIN i.images :
           LET m == i.images[j].entry
           IN  /\ m \in shown
               /\ i.images[j].platform = EntryOf(c, Owner(roles, m)).platform
               /\ {k \in shown : k < m} = {i.images[k].entry : k \in 1 .. j - 1}
      /\ \/ Len(i.images) = MaxImages
         \/ shown = {i.images[j].entry : j \in DOMAIN i.images}

\* The boot images shown are the first of the catalogue's, in its order, each
\* under the platform of the header before it, and a platform is shown when
\* the catalogue or a header names it.
HasCatalog == info.el_torito /\ info.catalog # 0 /\ Readable(info.catalog)
BootExact == isoPhase = "done" /\ HasCatalog =>
               BootUpTo(Catalog, Roles(Catalog), info, CatalogEntries + 1)

\* UDF is shown when the recognition sequence names it, with the revision the
\* first usable anchor leads to, or else the one of the last name: never with
\* none, and never with that of a descriptor behind the end of a sequence.
\* Of a sequence whose length wraps when it is rounded up to whole sectors
\* (iso.c:899) nothing is said: NoneWraps.
Recognised == {i \in 0 .. MaxDescriptors - 1 :
  /\ Nsr(At(FirstDescriptor + i)) # 0
  /\ \A j \in 0 .. i : /\ Readable(FirstDescriptor + j)
                       /\ At(FirstDescriptor + j).id # "tea"}
Revisions(anchor) ==
  LET a == At(anchor)
      Lba(k) == (a.location + k) % (IsoMaxDword + 1)
  IN  IF ~IsAnchor(anchor) THEN {}
      ELSE {At(Lba(k)).revision : k \in {n \in 0 .. MaxSequence - 1 :
              /\ n * SectorSize < a.length
              /\ \A j \in 0 .. n : Readable(Lba(j)) /\ At(Lba(j)).tag # 8
              /\ \A j \in 0 .. n - 1 : At(Lba(j)).tag # 6 \/ At(Lba(j)).revision = None
              /\ At(Lba(n)).tag = 6 /\ At(Lba(n)).revision # None}}
NoWrap(anchor) == At(anchor).length <= IsoMaxDword - (SectorSize - 1)
RightVersion(version) ==
  LET anchors == AnchorsAt(isoFile.sectors)
      usable == {i \in DOMAIN anchors : Revisions(anchors[i]) # {}}
  IN  IF usable = {}
      THEN LET last == CHOOSE i \in Recognised : \A j \in Recognised : j <= i
           IN  version = IF At(FirstDescriptor + last).id = "nsr2"
                         THEN "1.x" ELSE "2.x"
      ELSE \E i \in usable : /\ \A j \in usable : i <= j
                             /\ version \in Revisions(anchors[i])
NoneWraps == LET anchors == AnchorsAt(isoFile.sectors)
             IN  \A i \in DOMAIN anchors : NoWrap(anchors[i])
UdfExact ==
  isoPhase = "done" => /\ info.udf = (Recognised # {})
                       /\ info.udf /\ NoneWraps => RightVersion(info.version)

\* A directory that never ends: it claims a size in the last sector below
\* 4 GiB and the image really has the sectors; then the offset comes round to
\* 0 (iso.c:507).
Endless(d) == /\ d.size > IsoMaxDword + 1 - SectorSize
              /\ \A k \in 0 .. IsoMaxDword \div SectorSize :
                   Readable((d.extent + k) % (IsoMaxDword + 1))

-----------------------------------------------------------------------------
(* Why UdfExact holds: what each phase has seen so far.                    *)

\* The sectors that were read, and those of them that name UDF.
ReadThrough(k) == \A j \in 0 .. k - 1 : /\ Readable(FirstDescriptor + j)
                                       /\ At(FirstDescriptor + j).id # "tea"
Naming(k) == {i \in 0 .. k - 1 : Nsr(At(FirstDescriptor + i)) # 0}
OfLast(S) == \E i \in S : /\ inside = Nsr(At(FirstDescriptor + i))
                         /\ \A j \in S : j <= i

\* The sectors of a sequence that say nothing and do not end it.
Anchors == AnchorsAt(isoFile.sectors)
Silent(anchor, k) ==
  LET lba == (At(anchor).location + k) % (IsoMaxDword + 1)
  IN  /\ Readable(lba) /\ At(lba).tag # 8
      /\ At(lba).tag # 6 \/ At(lba).revision = None
Fruitless(i) == NoWrap(Anchors[i]) => Revisions(Anchors[i]) = {}

AfterUdf == {"catalog", "entries", "section", "lastSection", "hybrid", "done"}
UdfInv ==
  /\ isoFile \in Images /\ DOMAIN NoInfo \subseteq DOMAIN info
  /\ isoPhase \in {"open", "descriptors", "items", "directory", "records"} =>
       info.udf = FALSE
  /\ isoPhase \in {"items", "directory", "records"} => index = 0
  /\ isoPhase = "vrs" => /\ index \in 0 .. MaxDescriptors /\ ReadThrough(index)
                         /\ info.udf = (Naming(index) # {})
                         /\ info.udf => OfLast(Naming(index))
  /\ isoPhase \in {"anchors", "sequence"} => /\ info.udf = TRUE /\ Recognised # {}
                                            /\ OfLast(Recognised)
  /\ isoPhase = "anchors" => /\ index \in 0 .. Len(Anchors)
                             /\ \A i \in 1 .. index : Fruitless(i)
  /\ isoPhase = "sequence" => /\ index \in 1 .. Len(Anchors) /\ pos \in Nat
                              /\ \A i \in 1 .. index - 1 : Fruitless(i)
                              /\ IsAnchor(Anchors[index])
                              /\ \A k \in 0 .. pos - 1 : Silent(Anchors[index], k)
  /\ isoPhase \in AfterUdf => /\ info.udf = (Recognised # {})
                              /\ info.udf /\ NoneWraps => RightVersion(info.version)

-----------------------------------------------------------------------------
(* Why BootExact holds: what is shown is always that of the entries read,  *)
(* and which sections are still open is known from the headers read.       *)

HeadersBefore(roles, n) == {h \in 3 .. n - 1 : roles[h] = "header"}

\* An earlier section has no entry from n on, and was not the last.
Closed(c, n, h) == EntryOf(c, h).indicator # 91 /\ EntryOf(c, h).count < n - h

\* The entries before n are read; n may be one behind the last.
EntriesRead(c, i, n) ==
  LET roles == Roles(c)
  IN  /\ n \in 3 .. CatalogEntries + 1 /\ \A m \in 3 .. n - 1 : roles[m] # "end"
      /\ BootUpTo(c, roles, i, n)
      /\ i.platform = EntryOf(c, Owner(roles, n)).platform
AllClosed(c, n) ==
  n > CatalogEntries \/ \A h \in HeadersBefore(Roles(c), n) : Closed(c, n, h)
OneOpen(c, n, left, last) ==
  \E h \in HeadersBefore(Roles(c), n) :
    /\ left = EntryOf(c, h).count - (n - 1 - h)
    /\ (EntryOf(c, h).indicator = 91) = last
    /\ \A g \in HeadersBefore(Roles(c), n) \ {h} : Closed(c, n, g)

InfoSound(i) == /\ DOMAIN NoInfo \subseteq DOMAIN i /\ Len(i.images) <= MaxImages
                /\ i.images \in Seq([entry : Nat, platform : Nat])

BeforeCatalog == {"open", "descriptors", "items", "directory", "records", "vrs",
                  "anchors", "sequence", "catalog"}
InSection == {"section", "lastSection"}
BootInv ==
  /\ isoFile \in Images /\ InfoSound(info)
  /\ isoPhase \in BeforeCatalog => info.images = <<>> /\ info.platforms = {}
  /\ isoPhase \in {"entries"} \cup InSection =>
       HasCatalog /\ inside \in Nat /\ EntriesRead(Catalog, info, index)
  /\ isoPhase = "entries" => AllClosed(Catalog, index)
  /\ isoPhase \in InSection => OneOpen(Catalog, index, inside, isoPhase = "lastSection")
  /\ isoPhase \in {"hybrid", "done"} /\ HasCatalog =>
       BootUpTo(Catalog, Roles(Catalog), info, CatalogEntries + 1)

-----------------------------------------------------------------------------
(* Why DirectoriesComplete holds: of what was passed nothing was missed.   *)

\* The scan stands at the start of a record and has passed those before it.
AtStart(records, bytes, p) ==
  LET start == Starts(records, bytes)
  IN  /\ p \in 0 .. SectorSize /\ start[p]
      /\ \A q \in 0 .. p - 1 : start[q] => /\ Whole(records, bytes, q)
                                          /\ q + records[q].length <= p

\* What was passed of the directory in work: the sectors before the one that
\* is read and the records before pos; and of the i-th one.
Current ==
  (UNION {ShownIn(Item, k, SectorSize) : k \in 0 .. (offset \div SectorSize) - 1})
  \cup (IF isoPhase = "records" THEN ShownIn(Item, offset \div SectorSize, pos) ELSE {})
PassedOf(i) == IF i = item_index /\ isoPhase \in {"directory", "records"}
               THEN Current ELSE Shown(items[i])

\* Everything passed is in the information and in the queue, and nothing else
\* is in the information.
DescriptorsNoted ==
  /\ index \in 0 .. MaxDescriptors /\ (info.iso9660 => index > 0)
  /\ \A j \in 0 .. index - 1 : /\ Readable(FirstDescriptor + j)
                               /\ At(FirstDescriptor + j).id # "end"
  /\ \A r \in PrimaryOf(index) : Told(info, r)
  /\ \A t \in info.traits : \E r \in PrimaryOf(index) : Telling(r) /\ t \in r.traits
DirectoriesNoted ==
  /\ \A r \in Primary : Told(info, r)
  /\ \A i \in 1 .. item_index : \A r \in PassedOf(i) : Told(info, r) /\ Kept(items[i], r)
  /\ \A t \in info.traits :
       \E r \in Primary \cup UNION {Shown(items[i]) : i \in 1 .. item_index} :
         Telling(r) /\ t \in r.traits

Scanning == {"items", "directory", "records"}
AfterScan == {"vrs", "anchors", "sequence", "catalog", "entries", "section",
              "lastSection", "hybrid", "done"}
DirInv ==
  /\ isoFile \in Images /\ DOMAIN NoInfo \subseteq DOMAIN info /\ info.name \in Nat
  /\ isoPhase = "open" => index = 0 /\ info = NoInfo
  /\ isoPhase = "descriptors" => DescriptorsNoted
  /\ isoPhase \in Scanning \cup AfterScan /\ items # <<>> => DirectoriesNoted
  /\ isoPhase \in AfterScan /\ items # <<>> => item_index = Len(items)
  /\ isoPhase \in {"directory", "records"} =>
       offset \in Dwords /\ offset % SectorSize = 0
  /\ isoPhase = "records" =>
       /\ offset < Item.size
       /\ LET k == offset \div SectorSize IN AtStart(Sector(Item, k), Bytes(Item, k), pos)
=============================================================================
