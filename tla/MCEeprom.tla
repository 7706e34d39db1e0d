------------------------------ MODULE MCEeprom ------------------------------
(***************************************************************************)
(* Small fullflashes for Eeprom: chunks of 2 bytes and steps of 8, so that *)
(* both layouts have tables of seven entries.  All entries of an image are *)
(* free except one, or two with small contents.                            *)
(***************************************************************************)
EXTENDS Eeprom

EntryIn(states, ids, sizes, rels) ==
    [state : states, id : ids, size : sizes, rel : rels, version : {"short", "long"}]

Free == [state |-> "FREE", id |-> 0, size |-> 0, rel |-> 0, version |-> "short"]

\* Sizes around every chunk boundary, and data at both ends of a partition.
Varied == EntryIn({"VALID"}, {1}, 0 .. 10, {0, 7, 15, 16, 22, 24, 31, 32})
          \cup EntryIn({"VALID"}, {0, 2, 3}, {5}, {0})
Plain == EntryIn({"WRITING", "OBSOLETE", "invalid"}, {1}, {4}, {0})
         \cup EntryIn({"VALID"}, {1}, {4, 9}, {4})

At(steps, place, type) == [step \in {8 * n : n \in 0 .. steps - 1} |-> IF step = place THEN type ELSE "none"]

Image(steps, place65, type65, place85, type85, entries) ==
    [size  |-> 8 * steps,
     x65   |-> At(steps, place65, type65),
     x85   |-> At(steps, place85, type85),
     entry |-> [o \in {2 * n : n \in 0 .. 4 * steps - 1} |->
                   IF o \in DOMAIN entries THEN entries[o] ELSE Free]]

Types == {"EELITE", "EEFULL"}

\* A partition behind an empty step, up to the end of the image; one entry.
Images85 ==
    {Image(5, 0, "none", 32, type, [o \in {slot} |-> entry]) :
        type \in Types, slot \in {12, 16, 20, 32}, entry \in Varied}
    \cup {Image(4, 0, "none", 24, type, [o \in {20, 24} |-> IF o = 20 THEN a ELSE b]) :
        type \in Types, a \in Plain, b \in Plain}

Images65 ==
    {Image(3, 8, type, 0, "none", [o \in {22} |-> entry]) : type \in Types, entry \in Varied}
    \cup {Image(3, 0, type, 0, "none", [o \in {12, 14} |-> IF o = 14 THEN a ELSE b]) :
        type \in Types, a \in Plain, b \in Plain}

\* No partition, a broken header, a partition that the image cuts off, and a
\* table without a free entry.
BadImages ==
    {Image(3, 0, "none", 0, "none", <<>>), Image(3, 8, "invalid", 0, "none", <<>>),
     Image(3, 0, "none", 16, "invalid", <<>>), Image(3, 16, "EELITE", 0, "none", <<>>),
     Image(3, 0, "none", 16, "EEFULL", <<>>)}
    \cup {Image(2, 0, "EELITE", 0, "none", [o \in {2 * n : n \in 1 .. 7} |-> entry]) : entry \in Plain}

SmallImages == Images85 \cup Images65 \cup BadImages

=============================================================================
