-------------------------------- MODULE Layout --------------------------------
(***************************************************************************)
(* How an object is laid out in words: the storage types, the shapes of    *)
(* fixed space, the size a commit reserves for an object, the words its    *)
(* writer stores, and what its reader makes of them (storage/).            *)
(*                                                                         *)
(* An object is a storage type, links to other objects (as their logical   *)
(* addresses here) and data: the value of an integer, the UTF-16 units of  *)
(* a string, or the storage format of a shape.                             *)
(***************************************************************************)
EXTENDS Integers, Sequences

CONSTANTS
    CHUNK_SIZE,
    FixedMin,   \* OBL_FIXED_ADDR_MIN
    UnitBase    \* one more than the largest UTF-16 unit: two units make a word

ASSUME LayoutAssumption ==
    CHUNK_SIZE \in Nat \ {0} /\ FixedMin \in Nat \ {0} /\ UnitBase \in Nat \ {0}

\* A shape's storage format is a place in this list, from 0.
StorageTypes ==
    <<"SHAPE", "SLOTTED", "FIXED", "CHUNK", "ADDRTREEPAGE", "INTEGER", "FLOAT",
      "DOUBLE", "CHAR", "STRING", "BOOLEAN", "NIL", "STUB">>

Format(type) == CHOOSE i \in 0 .. Len(StorageTypes) - 1 : StorageTypes[i + 1] = type

\* Fixed space: nil, true and false, then the shapes of these types in this
\* order.  The only slotted one is the allocator's, with two slots.
NilAddr == FixedMin
PrimitiveTypes ==
    <<"INTEGER", "FLOAT", "DOUBLE", "CHAR", "STRING", "FIXED", "CHUNK",
      "ADDRTREEPAGE", "SLOTTED", "NIL", "BOOLEAN", "STUB">>

IsFixed(address) == address >= FixedMin
PrimitiveShape(type) ==
    FixedMin + 2 + CHOOSE i \in DOMAIN PrimitiveTypes : PrimitiveTypes[i] = type
PrimitiveType(address) == PrimitiveTypes[address - FixedMin - 2]
AllocatorSlots == 2

-------------------------------------------------------------------------------
\* Mutant: a string is sized by its words rather than by its units.
WordSizePacked(type, count) ==
    CASE type = "SHAPE" -> 5
      [] type \in {"SLOTTED", "FIXED"} -> 1 + count
      [] type \in {"CHUNK", "ADDRTREEPAGE"} -> 2 + CHUNK_SIZE
      [] type \in {"INTEGER", "CHAR", "BOOLEAN", "NIL"} -> 2
      [] type = "FLOAT" -> 9
      [] type = "DOUBLE" -> 17
      [] type = "STRING" -> 1 + (count + 1) \div 2
      [] OTHER -> 0

\* The words reserved for an object of so many links or units.
WordSize(type, count) ==
    CASE type = "SHAPE" -> 5
      [] type \in {"SLOTTED", "FIXED"} -> 1 + count
      [] type \in {"CHUNK", "ADDRTREEPAGE"} -> 2 + CHUNK_SIZE
      [] type \in {"INTEGER", "CHAR", "BOOLEAN", "NIL"} -> 2
      [] type = "FLOAT" -> 9
      [] type = "DOUBLE" -> 17
      [] type = "STRING" -> 1 + 2 * count
      [] OTHER -> 0

\* Two units a word; the other half of an odd last word stays as it was, which
\* is zero in a file that grew.
Packed(units) ==
    [k \in 1 .. (Len(units) + 1) \div 2 |->
        units[2 * k - 1] + (IF 2 * k <= Len(units) THEN UnitBase * units[2 * k] ELSE 0)]

\* What the writers store after the shape word: a shape's three links and its
\* storage format, a collection's links, one of FIXED storage with its length.
ShapeWords(links, data) == links \o data
SlottedWords(links) == links
FixedWords(links) == <<Len(links)>> \o links
IntegerWords(data) == data
StringWords(data) == <<Len(data)>> \o Packed(data)

\* Types without a writer of their own are reported and get the shape word only.
Words(type, links, data) ==
    CASE type = "SHAPE" -> ShapeWords(links, data)
      [] type = "SLOTTED" -> SlottedWords(links)
      [] type = "FIXED" -> FixedWords(links)
      [] type = "INTEGER" -> IntegerWords(data)
      [] type = "STRING" -> StringWords(data)
      [] OTHER -> <<>>

\* Mutant: strings have no reader.
ReadableFew == {"SHAPE", "SLOTTED", "INTEGER"}

\* The types that read_functions can read, of those whose objects a program
\* gives addresses to.  A FIXED collection has no reader there.
Readable == {"SHAPE", "SLOTTED", "INTEGER", "STRING"}

\* Mutant: the units of a word in the other order.
UnitSwapped(word, i) == IF i % 2 = 0 THEN word % UnitBase ELSE word \div UnitBase

\* The unit of a string that its word holds, counting both from 1.
Unit(word, i) == IF i % 2 = 1 THEN word % UnitBase ELSE word \div UnitBase

\* What the readers take from the words at base, links as addresses.
ShapeLinksAt(content, base) == [i \in 1 .. 3 |-> content[base + i]]
ShapeFormatAt(content, base) == <<content[base + 4]>>
SlottedLinksAt(content, base, slots) == [i \in 1 .. slots |-> content[base + i]]
IntegerAt(content, base) == <<content[base + 1]>>
StringAt(content, base) ==
    [i \in 1 .. content[base + 1] |-> Unit(content[base + 2 + (i - 1) \div 2], i)]

LinksAt(content, type, base, slots) ==
    CASE type = "SHAPE" -> ShapeLinksAt(content, base)
      [] type = "SLOTTED" -> SlottedLinksAt(content, base, slots)
      [] OTHER -> <<>>

DataAt(content, type, base) ==
    CASE type = "SHAPE" -> ShapeFormatAt(content, base)
      [] type = "INTEGER" -> IntegerAt(content, base)
      [] type = "STRING" -> StringAt(content, base)
      [] OTHER -> <<>>
===============================================================================
