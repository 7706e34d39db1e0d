------------------------------- MODULE Eeprom -------------------------------
(***************************************************************************)
(* The constructor of Eeprom: scans a fullflash step by step for EEPROM    *)
(* partitions of the X65 or the X85 layout and collects from their entry   *)
(* tables where the bytes of each block are.  An image is abstracted to    *)
(* the partition headers and entries at their offsets.  Of the contents of *)
(* a block only the version byte that starts an EEFULL block matters; it   *)
(* is a field of the entry here.  Inline data may look like an entry: any  *)
(* slot of a table may hold any entry.                                     *)
(***************************************************************************)
EXTENDS Integers

CONSTANTS
    Step,           \* PARTITION_STEP; an X65 partition has two steps, an X85 four
    Chunk,          \* X85_DATA_CHUNK_SIZE, also the size of an X65 entry and header
    InlineFull,     \* X85_EEFULL_MAX_LINEAR_SIZE
    LongMetadata,   \* metadata bytes of an EEFULL block with a long version byte
    IdOffset,       \* EEFULL_ID_OFFSET
    MaxId,          \* the largest block id
    Images          \* fullflashes to parse

X65Size == 2 * Step
X85Size == 4 * Step
InlineLite == Chunk

\* X85 entries and headers take two chunks.
X85EntrySize == 2 * Chunk

Type == {"EELITE", "EEFULL"}
Header == Type \cup {"none", "invalid"}
State == {"FREE", "WRITING", "VALID", "OBSOLETE", "invalid"}
Entry == [state : State, id : Nat, size : Nat, rel : Nat, version : {"short", "long"}]

ASSUME EepromAssumption ==
    /\ {Step, Chunk, InlineFull, LongMetadata, IdOffset, MaxId} \subseteq Nat \ {0}
    /\ Step % (2 * Chunk) = 0
    /\ Step >= 2 * Chunk
    /\ IdOffset < MaxId
    /\ \A flash \in Images :
          /\ flash.size \in Nat
          /\ \A place \in 0 .. flash.size - 1 :
                /\ place % Step = 0 => flash.x65[place] \in Header /\ flash.x85[place] \in Header
                /\ place % Chunk = 0 => flash.entry[place] \in Entry

VARIABLES
    image,      \* the fullflash; never changes
    pc,         \* parsePartitions, an entry table, or the end
    offset,     \* the offset parsePartitions has reached
    layout,     \* m_layout
    table,      \* the entry table being read: its layout, type and base
    index,      \* the entry to be read next
    blocks      \* m_blocks, a function on the ids found so far

vars == <<image, pc, offset, layout, table, index, blocks>>

NoTable == [layout |-> "UNKNOWN", type |-> "none", base |-> 0]

\* A block's bytes start at "start"; a strided block skips every other chunk.
Block == [start : Nat, size : Nat, strided : BOOLEAN]

TypeOK ==
    /\ image \in Images
    /\ pc \in {"scan", "entries", "parsed", "thrown"}
    /\ offset \in Nat
    /\ layout \in {"UNKNOWN", "X65", "X85"}
    /\ table \in [layout : {"UNKNOWN", "X65", "X85"}, type : Header, base : Nat]
    /\ index \in Nat
    /\ \A id \in DOMAIN blocks : id \in 0 .. MaxId /\ blocks[id] \in Block

Init ==
    /\ image \in Images
    /\ pc = "scan"
    /\ offset = 0
    /\ layout = "UNKNOWN"
    /\ table = NoTable
    /\ index = 1
    /\ blocks = [id \in {} |-> NoTable]

-----------------------------------------------------------------------------
\* alignDataOffset: the next offset in a chunk of even number.
Aligned(place) ==
    IF (place \div Chunk) % 2 = 0 THEN place ELSE place + 2 * Chunk - (place % (2 * Chunk))

\* Slip: the chunk offset of the first byte is left out.
OffsetFromChunkStart(block, i) ==
    IF block.strided THEN block.start + i + (i \div Chunk) * Chunk ELSE block.start + i

\* getBlockByteOffset
ByteOffset(block, i) ==
    IF block.strided
    THEN block.start + i + (((block.start % Chunk) + i) \div Chunk) * Chunk
    ELSE block.start + i

\* What readPartitionType finds at a step of the image.
Type65(place) == IF place + Chunk > image.size THEN "none" ELSE image.x65[place]
Type85(place) == IF place + Step > image.size THEN "none" ELSE image.x85[place]

Looks65 == layout \in {"UNKNOWN", "X65"}
Finds65 == Looks65 /\ Type65(offset) # "none"
Looks85 == layout \in {"UNKNOWN", "X85"} /\ ~Finds65

Throw == pc' = "thrown" /\ UNCHANGED <<image, offset, layout, table, index, blocks>>

OpenTable(lay, type, base) ==
    /\ table' = [layout |-> lay, type |-> type, base |-> base]
    /\ index' = 1
    /\ pc' = "entries"
    /\ UNCHANGED <<image, offset, layout, blocks>>

Open65 ==
    /\ pc = "scan"
    /\ offset < image.size
    /\ Finds65
    /\ Type65(offset) \in Type
    /\ offset + X65Size <= image.size
    /\ OpenTable("X65", Type65(offset), offset)

\* The X85 header is at the end of a partition.
Open85 ==
    /\ pc = "scan"
    /\ offset < image.size
    /\ Looks85
    /\ Type85(offset) \in Type
    /\ offset >= X85Size - Step
    /\ OpenTable("X85", Type85(offset), offset - (X85Size - Step))

BadPartition ==
    /\ pc = "scan"
    /\ offset < image.size
    /\ \/ Finds65 /\ (Type65(offset) = "invalid" \/ offset + X65Size > image.size)
       \/ Looks85 /\ Type85(offset) = "invalid"
       \/ Looks85 /\ Type85(offset) \in Type /\ offset < X85Size - Step
    /\ Throw

NoPartition ==
    /\ pc = "scan"
    /\ offset < image.size
    /\ ~Finds65
    /\ Looks85 => Type85(offset) = "none"
    /\ offset' = offset + Step
    /\ UNCHANGED <<image, pc, layout, table, index, blocks>>

ScanEnds ==
    /\ pc = "scan"
    /\ offset >= image.size
    /\ pc' = "parsed"
    /\ UNCHANGED <<image, offset, layout, table, index, blocks>>

-----------------------------------------------------------------------------
\* parsePartitionX65 and parsePartitionX85, one entry at a time.
Is65 == table.layout = "X65"

EntryCount == IF Is65 THEN X65Size \div Chunk - 1 ELSE X85Size \div X85EntrySize - 1

EntryOffset ==
    IF Is65 THEN table.base + X65Size - Chunk * index
            ELSE table.base + X85Size - X85EntrySize * (index + 1)

InTable == pc = "entries" /\ index <= EntryCount
CurrentEntry == image.entry[EntryOffset]

\* The layout is fixed once a partition of it has been read.
CloseTable ==
    /\ layout' = table.layout
    /\ table' = NoTable
    /\ offset' = offset + Step
    /\ pc' = "scan"
    /\ UNCHANGED <<image, index, blocks>>

FreeEnds65 == InTable /\ Is65 /\ CurrentEntry.state = "FREE" /\ CloseTable
TableEnds85 == pc = "entries" /\ ~Is65 /\ index > EntryCount /\ CloseTable
TableEnds65 == pc = "entries" /\ Is65 /\ index > EntryCount /\ Throw
BadState65 == InTable /\ Is65 /\ CurrentEntry.state = "invalid" /\ Throw

IsPassedOver(entry) ==
    IF Is65 THEN entry.state \in {"WRITING", "OBSOLETE"} ELSE entry.state # "VALID"

PassOver ==
    /\ InTable
    /\ IsPassedOver(CurrentEntry)
    /\ index' = index + 1
    /\ UNCHANGED <<image, pc, offset, layout, table, blocks>>

-----------------------------------------------------------------------------
PartitionSize == IF Is65 THEN X65Size ELSE X85Size

IsInline(entry) ==
    ~Is65 /\ entry.size <= (IF table.type = "EEFULL" THEN InlineFull ELSE InlineLite)

Reserved(entry) == Chunk + entry.size + (entry.size - (entry.size % Chunk))

\* The stored bytes of a block, metadata included.
Stored(entry) ==
    IF IsInline(entry)
    THEN [start |-> Aligned(EntryOffset - Reserved(entry)), size |-> entry.size, strided |-> TRUE]
    ELSE [start |-> table.base + entry.rel, size |-> entry.size, strided |-> FALSE]

Metadata(entry) == IF entry.version = "long" THEN LongMetadata ELSE 1

\* Slip: the last byte of the partition is forgotten.
FitsButLast(entry) ==
    IF IsInline(entry)
    THEN EntryOffset >= table.base + Reserved(entry)
    ELSE entry.rel < PartitionSize /\ entry.size <= PartitionSize - entry.rel + 1

FitsInPartition(entry) ==
    IF IsInline(entry)
    THEN EntryOffset >= table.base + Reserved(entry)
    ELSE entry.rel < PartitionSize /\ entry.size <= PartitionSize - entry.rel

MaxEntryId == IF table.type = "EELITE" THEN IdOffset - 1 ELSE MaxId - IdOffset

\* Slip: the metadata may be longer than the block.
GoodWithoutMetadata(entry) == entry.size > 0 /\ FitsInPartition(entry) /\ entry.id <= MaxEntryId

IsGood(entry) ==
    /\ entry.size > 0
    /\ FitsInPartition(entry)
    /\ entry.id <= MaxEntryId
    /\ table.type = "EEFULL" => entry.size >= Metadata(entry)

\* An EEFULL block loses its metadata, but starts one byte later only; an X65
\* EELITE block loses its last byte.
Payload(entry) ==
    CASE table.type = "EEFULL" ->
            [Stored(entry) EXCEPT !.start = ByteOffset(Stored(entry), 1), !.size = @ - Metadata(entry)]
      [] table.type = "EELITE" /\ Is65 -> [Stored(entry) EXCEPT !.size = @ - 1]
      [] OTHER -> Stored(entry)

BlockId(entry) == IF table.type = "EEFULL" THEN entry.id + IdOffset ELSE entry.id

\* try_emplace keeps the first entry of an id, insert_or_assign the last.
Replaces(id) == Is65 => id \notin DOMAIN blocks

AddBlock ==
    /\ InTable
    /\ CurrentEntry.state = "VALID"
    /\ IsGood(CurrentEntry)
    /\ LET id == BlockId(CurrentEntry)
           found == Payload(CurrentEntry)
       IN  blocks' = [i \in DOMAIN blocks \cup {id} |->
                         IF i = id /\ Replaces(id) THEN found ELSE blocks[i]]
    /\ index' = index + 1
    /\ UNCHANGED <<image, pc, offset, layout, table>>

BadEntry ==
    /\ InTable
    /\ CurrentEntry.state = "VALID"
    /\ ~IsGood(CurrentEntry)
    /\ Throw

Constructed == pc \in {"parsed", "thrown"} /\ UNCHANGED vars

Next ==
    \/ Open65 \/ Open85 \/ BadPartition \/ NoPartition \/ ScanEnds
    \/ FreeEnds65 \/ TableEnds85 \/ TableEnds65 \/ BadState65
    \/ PassOver \/ AddBlock \/ BadEntry
    \/ Constructed

Spec == Init /\ [][Next]_vars

-----------------------------------------------------------------------------
\* readBlock and writeBlock index the image without a check of their own:
\* every byte of every block is inside the image, and no two bytes of a block
\* share a place (eeprom.cpp:224-262).
BlocksAreReadable ==
    \A id \in DOMAIN blocks : \A i \in 0 .. blocks[id].size - 1 :
        /\ ByteOffset(blocks[id], i) \in 0 .. image.size - 1
        /\ \A j \in 0 .. i - 1 : ByteOffset(blocks[id], j) < ByteOffset(blocks[id], i)

\* The three formulas for inline data fit together: the stored bytes of an entry
\* fill the chunks of even number right below it, up to the last byte of the
\* nearest one, so that they never reach the entry, its partition's start or a
\* chunk of odd number (eeprom.cpp:28-34, 181-186, 224-230).
InlineEndsBelowEntry ==
    (InTable /\ IsInline(CurrentEntry) /\ IsGood(CurrentEntry)) =>
        LET stored == Stored(CurrentEntry)
        IN  /\ stored.start >= table.base
            /\ ByteOffset(stored, stored.size - 1) = EntryOffset - Chunk - 1
            /\ \A i \in 0 .. stored.size - 1 : (ByteOffset(stored, i) \div Chunk) % 2 = 0

=============================================================================
