----------------------------- MODULE CommitsProofs -----------------------------
(***************************************************************************)
(* A commit persists a closed graph and none of its words is lost, for any *)
(* graph of well formed objects, whatever another session reads before and *)
(* after.  It gives words away as Space says: nothing shares a word, and   *)
(* objects lie in the content when it grows by enough.                     *)
(***************************************************************************)
EXTENDS Commits, TLAPS, SequenceTheorems, WellFoundedInduction
-------------------------------------------------------------------------------
(* Words given away *)

(***************************************************************************)
(* Pages created one after the other lie between the end of the object     *)
(* they were created for and the counter's next value, apart from each     *)
(* other (_create_treepage).                                               *)
(***************************************************************************)
LEMMA Multiple == ASSUME NEW i \in Nat, NEW j \in Nat, i <= j
                  PROVE  i * PageSize <= j * PageSize /\ i * PageSize \in Nat
  <1>1. PICK k \in Nat : j = i + k
    BY SMT
  <1>2. k * PageSize \in Nat /\ i * PageSize \in Nat /\ j * PageSize = i * PageSize + k * PageSize
    BY <1>1, SpaceAssumption, SMT
  <1> QED
    BY <1>2, SMT

LEMMA PagesApart ==
  ASSUME NEW first \in Nat, NEW count \in Nat
  PROVE  /\ NewPages(first, count) \subseteq Nat \X Nat
         /\ \A x \in NewPages(first, count) :
               first <= x[1] /\ x[2] <= first + count * PageSize
         /\ \A x, y \in NewPages(first, count) : x = y \/ Apart(x, y)
  <1>1. ASSUME NEW x \in NewPages(first, count)
        PROVE  /\ x \in Nat \X Nat
               /\ first <= x[1] /\ x[2] <= first + count * PageSize
    <2>1. PICK i \in 0 .. count - 1 :
            x = <<first + i * PageSize, first + (i + 1) * PageSize>>
      BY <1>1 DEF NewPages
    <2>2. i \in Nat /\ i + 1 \in Nat /\ i + 1 <= count
      BY <2>1, SMT
    <2>3. (i + 1) * PageSize <= count * PageSize /\ (i + 1) * PageSize \in Nat
      BY <2>2, Multiple
    <2>4. i * PageSize \in Nat /\ count * PageSize \in Nat
      BY <2>2, Multiple
    <2> QED
      BY <2>1, <2>3, <2>4, SMT
  <1>2. ASSUME NEW x \in NewPages(first, count), NEW y \in NewPages(first, count)
        PROVE  x = y \/ Apart(x, y)
    <2>1. PICK i \in 0 .. count - 1 :
            x = <<first + i * PageSize, first + (i + 1) * PageSize>>
      BY <1>2 DEF NewPages
    <2>2. PICK j \in 0 .. count - 1 :
            y = <<first + j * PageSize, first + (j + 1) * PageSize>>
      BY <1>2 DEF NewPages
    <2>3. i \in Nat /\ j \in Nat /\ (i = j \/ i + 1 <= j \/ j + 1 <= i)
      BY <2>1, <2>2, SMT
    <2>4. CASE i = j
      BY <2>1, <2>2, <2>4
    <2>5. CASE i + 1 <= j
      <3>1. (i + 1) * PageSize <= j * PageSize
        BY <2>3, <2>5, Multiple
      <3>2. (i + 1) * PageSize \in Nat /\ j * PageSize \in Nat
        BY <2>3, Multiple
      <3> QED
        BY <2>1, <2>2, <3>1, <3>2, SMT DEF Apart
    <2>6. CASE j + 1 <= i
      <3>1. (j + 1) * PageSize <= i * PageSize
        BY <2>3, <2>6, Multiple
      <3>2. (j + 1) * PageSize \in Nat /\ i * PageSize \in Nat
        BY <2>3, Multiple
      <3> QED
        BY <2>1, <2>2, <3>1, <3>2, SMT DEF Apart
    <2> QED
      BY <2>3, <2>4, <2>5, <2>6
  <1> QED
    BY <1>1, <1>2

(***************************************************************************)
(* What was given stays apart from an object and pages that are placed at  *)
(* the counter.                                                            *)
(***************************************************************************)
LEMMA PlaceKeepsDisjoint ==
  ASSUME SpaceTypeOK, Disjoint, NEW size \in 1 .. MaxObject, NEW count \in 0 .. MaxPages,
         Place(size, count)
  PROVE  SpaceTypeOK' /\ Disjoint'
  <1> DEFINE end == next_physical + size
             object == <<next_physical, end>>
             new == NewPages(end, count)
  <1>1. /\ end \in Nat /\ count \in Nat /\ next_physical \in Nat /\ next_physical <= end
        /\ count * PageSize \in Nat
    BY SpaceAssumption, Multiple, SMT DEF SpaceTypeOK
  <1>2. /\ new \subseteq Nat \X Nat
        /\ \A x \in new : end <= x[1] /\ x[2] <= end + count * PageSize
        /\ \A x, y \in new : x = y \/ Apart(x, y)
    BY <1>1, PagesApart
  <1> DEFINE old == extents \cup pages
  <1>3. /\ extents' = extents \cup {object} /\ pages' = pages \cup new
        /\ (extents \cup pages)' = old \cup {object} \cup new
        /\ next_physical' = end + count * PageSize
        /\ content_size' = Grown(end)
    BY DEF Place
  <1>4. SpaceTypeOK'
    <2>1. content_size' \in Nat
      BY <1>3, SpaceAssumption DEF Grown, SpaceTypeOK
    <2>2. next_physical' \in Nat
      BY <1>1, <1>3, SMT
    <2>3. extents' \subseteq Nat \X Nat /\ pages' \subseteq Nat \X Nat
      BY <1>1, <1>2, <1>3 DEF SpaceTypeOK
    <2> QED
      BY <2>1, <2>2, <2>3 DEF SpaceTypeOK
  <1>5. /\ old \subseteq Nat \X Nat
        /\ \A x, y \in old : x = y \/ Apart(x, y)
        /\ \A x \in old : x[2] <= next_physical
    BY DEF SpaceTypeOK, Disjoint
  <1> HIDE DEF end, object, new, old
  <1>6. \A x \in old \cup {object} \cup new : x[2] <= next_physical'
    <2>1. ASSUME NEW x \in old PROVE x[2] <= next_physical'
      <3>1. x[2] \in Nat /\ x[2] <= next_physical
        BY <1>5, <2>1
      <3> QED
        BY <3>1, <1>1, <1>3, SMT
    <2>2. object[2] <= next_physical'
      BY <1>1, <1>3, SMT DEF object
    <2>3. \A x \in new : x[2] <= next_physical'
      BY <1>2, <1>3
    <2> QED
      BY <2>1, <2>2, <2>3
  <1>7. ASSUME NEW x \in old, NEW y \in {object} \cup new
        PROVE  Apart(x, y) /\ Apart(y, x)
    <2>1. x[2] \in Nat /\ x[2] <= next_physical /\ y[1] \in Nat /\ next_physical <= y[1]
      <3>1. CASE y = object
        BY <1>1, <1>5, <1>7, <3>1 DEF object
      <3>2. CASE y \in new
        <4>1. y[1] \in Nat /\ end <= y[1] /\ x[2] \in Nat /\ x[2] <= next_physical
          BY <1>2, <1>5, <1>7, <3>2
        <4> QED
          BY <4>1, <1>1, SMT
      <3> QED
        BY <1>7, <3>1, <3>2
    <2>2. x[2] <= y[1]
      BY <2>1, <1>1, SMT
    <2> QED
      BY <2>2 DEF Apart
  <1>8. ASSUME NEW y \in new PROVE Apart(object, y) /\ Apart(y, object)
    BY <1>2, <1>8 DEF Apart, object
  <1>9. \A x, y \in old \cup {object} \cup new : x = y \/ Apart(x, y)
    BY <1>2, <1>5, <1>7, <1>8
  <1> QED
    BY <1>3, <1>4, <1>6, <1>9 DEF Disjoint, Apart

(***************************************************************************)
(* A content that grows by the pages of one assignment and the largest     *)
(* object takes in an object that starts past its end by those pages.      *)
(***************************************************************************)
LEMMA PlaceKeepsInside ==
  ASSUME SpaceTypeOK, NearlyInside, ObjectsInside,
         NEW size \in 1 .. MaxObject, NEW count \in 0 .. MaxPages, Place(size, count)
  PROVE  NearlyInside' /\ ObjectsInside'
  <1> DEFINE end == next_physical + size
             slack == MaxPages * PageSize
             put == count * PageSize
  <1>1. /\ end \in Nat /\ slack \in Nat /\ put \in Nat /\ put <= slack
        /\ next_physical \in Nat /\ content_size \in Nat /\ Growth \in Nat
        /\ size \in Nat /\ size <= MaxObject /\ MaxObject \in Nat
    BY SpaceAssumption, Multiple, SMT DEF SpaceTypeOK
  <1>2. /\ extents' = extents \cup {<<next_physical, end>>}
        /\ next_physical' = end + put
        /\ content_size' = IF end >= content_size THEN content_size + Growth ELSE content_size
    BY DEF Place, Grown
  <1>3. SUFFICES ASSUME EnoughGrowth
                 PROVE  /\ next_physical' <= content_size' + slack
                        /\ \A x \in extents' : x[2] <= content_size'
    BY DEF NearlyInside, ObjectsInside, EnoughGrowth
  <1>4. Growth >= slack + MaxObject /\ next_physical <= content_size + slack
    BY <1>3 DEF EnoughGrowth, NearlyInside
  <1>5. \A x \in extents : x[2] \in Nat /\ x[2] <= content_size
    BY <1>3 DEF ObjectsInside, SpaceTypeOK
  <1> HIDE DEF slack, put
  <1>6. end <= content_size' /\ content_size <= content_size' /\ content_size' \in Nat
    BY <1>1, <1>2, <1>4, SMT
  <1>7. next_physical' <= content_size' + slack
    BY <1>1, <1>2, <1>6, SMT
  <1>8. ASSUME NEW x \in extents' PROVE x[2] <= content_size'
    <2>1. CASE x \in extents
      BY <1>1, <1>5, <1>6, <2>1, SMT
    <2>2. CASE x = <<next_physical, end>>
      BY <1>6, <2>2
    <2> QED
      BY <1>2, <1>8, <2>1, <2>2
  <1> QED
    BY <1>7, <1>8

\* Before anything is given away.
LEMMA SpaceInvInit == SpaceInit => SpaceInv
<1> SUFFICES ASSUME SpaceInit PROVE SpaceInv
  OBVIOUS
<1>1. MaxPages * PageSize \in Nat
  BY SpaceAssumption, Multiple
<1>2. SpaceTypeOK /\ Disjoint /\ ObjectsInside
  BY SpaceAssumption DEF SpaceInit, SpaceTypeOK, Disjoint, ObjectsInside
<1>3. next_physical <= content_size + MaxPages * PageSize
  BY <1>1, SpaceAssumption, SMT DEF SpaceInit
<1> QED
  BY <1>2, <1>3 DEF SpaceInv, NearlyInside

\* An object placed, of any size and with any pages.
LEMMA SpaceInvStep == SpaceInv /\ [SpaceNext]_space => SpaceInv'
<1> SUFFICES ASSUME SpaceInv, [SpaceNext]_space PROVE SpaceInv'
  OBVIOUS
<1>1. CASE SpaceNext
  <2>1. PICK size \in 1 .. MaxObject, count \in 0 .. MaxPages : Place(size, count)
    BY <1>1 DEF SpaceNext
  <2>2. SpaceTypeOK' /\ Disjoint'
    BY <2>1, PlaceKeepsDisjoint DEF SpaceInv
  <2>3. NearlyInside' /\ ObjectsInside'
    BY <2>1, PlaceKeepsInside DEF SpaceInv
  <2> QED
    BY <2>2, <2>3 DEF SpaceInv
<1>2. CASE UNCHANGED space
  BY <1>2 DEF SpaceInv, SpaceTypeOK, Disjoint, Apart, NearlyInside, ObjectsInside,
              EnoughGrowth, space
<1> QED
  BY <1>1, <1>2

(***************************************************************************)
(* What commits give away, of any sizes and in any order, is an inductive  *)
(* invariant of the allocator's counter and the content's size.            *)
(***************************************************************************)
THEOREM SpaceInvariant == SpaceSpec => []SpaceInv
  BY SpaceInvInit, SpaceInvStep, PTL DEF SpaceSpec

(***************************************************************************)
(* No two objects or pages share a word, for any sizes and pages.          *)
(***************************************************************************)
THEOREM NeverShared == SpaceSpec => []Disjoint
  BY SpaceInvariant, PTL DEF SpaceInv

(***************************************************************************)
(* Every object lies in the content if that grows by more than the pages   *)
(* of one assignment and the largest object.                               *)
(***************************************************************************)
THEOREM AlwaysInside == SpaceSpec => []ObjectsInside
  BY SpaceInvariant, PTL DEF SpaceInv
-------------------------------------------------------------------------------
(* The commit *)

Size(o) == WordSize(TypeOf(heap, o), Count(heap[o], TypeOf(heap, o)))
ExtentOf(o) == <<heap[o].physical, heap[o].physical + Size(o)>>
Own(l) == l \in FixedSpace \/ l \in Programs

(***************************************************************************)
(* The objects of the committing program are well formed, and refer to     *)
(* each other and to fixed space.                                          *)
(***************************************************************************)
FormsInv ==
    /\ nil = [logical |-> Nil, session |-> NoSession]
    /\ Programs \subseteq 1 .. FixedMin - 1
    /\ \A r \in Programs :
          /\ heap[r] \in Objs /\ Formed(heap, heap[r])
          /\ \A l \in LinksOf(heap[r]) : Own(l)
          /\ heap[r].session = NoSession =>
                heap[r].logical = Unassigned /\ heap[r].physical = Unassigned

(***************************************************************************)
(* What is persisted has an address of its own that the map knows, the map *)
(* knows no other, and words of its own before the next that are given.    *)
(***************************************************************************)
PlacedInv ==
    /\ map \in [1 .. MaxLogical -> 0 .. MaxWord]
    /\ next_logical \in Nat /\ RootAddress < next_logical /\ next_logical <= MaxLogical + 1
    /\ Root \in Built /\ heap[Root].logical = RootAddress
    /\ heap[Root].shape = PrimitiveShape("SLOTTED")
    /\ \A o \in Built :
          /\ heap[o].logical \in 1 .. MaxLogical /\ heap[o].logical < next_logical
          /\ map[heap[o].logical] = heap[o].physical /\ heap[o].physical > 0
          /\ heap[o].physical + Size(o) <= next_physical
          /\ heap[o].physical + Size(o) <= MaxWord + 1
          /\ o # Root => ExtentOf(o) \in extents
    /\ \A o, p \in Built :
          o = p \/ (Apart(ExtentOf(o), ExtentOf(p)) /\ heap[o].logical # heap[p].logical)
    /\ \A a \in 1 .. MaxLogical : map[a] = Unassigned \/ \E o \in Built : heap[o].logical = a

(***************************************************************************)
(* What a persisted object refers to is persisted or still on the stack.   *)
(***************************************************************************)
VisitInv ==
    /\ phase \in {"open", "scan", "write", "read", "closed"}
    /\ phase = "open" => Built = {Root} /\ write_set = {}
    /\ phase # "scan" => stack = <<>>
    /\ phase = "scan" =>
          /\ write_set = Built
          /\ stack \in Seq(Nat) /\ \A x \in Range(stack) : Own(x)
          /\ \A o \in Built : \A l \in LinksOf(heap[o]) :
                IsFixed(l) \/ l \in Built \/ l \in Range(stack)
    /\ phase \in {"write", "read", "closed"} =>
          /\ write_set \subseteq Built
          /\ \A o \in Built : \A l \in LinksOf(heap[o]) : IsFixed(l) \/ l \in Built
    /\ phase \in {"read", "closed"} => write_set = {}

(***************************************************************************)
(* What was written is there, and before the commit what the root was      *)
(* stored as.                                                              *)
(***************************************************************************)
RootWords(base) ==
    /\ content[base] = PrimitiveShape("SLOTTED")
    /\ content[base + 1] = Nil /\ content[base + 2] = Nil

WordsInv ==
    /\ content \in [0 .. MaxWord -> Nat]
    /\ phase = "open" => RootWords(heap[Root].physical)
    /\ phase \in {"write", "read", "closed"} => \A o \in Built \ write_set : HasWords(o)

CommitInv == SpaceInv /\ FormsInv /\ PlacedInv /\ VisitInv /\ WordsInv
-------------------------------------------------------------------------------
\* Constants the solvers need as numbers.
LEMMA Constant ==
    /\ FixedMin \in Nat /\ FixedMin > 0 /\ MaxLogical \in Nat /\ MaxWord \in Nat
    /\ MaxLogical < FixedMin /\ MaxObject \in Nat /\ FirstFree \in Nat
    /\ Root = 1 /\ RootAddress = 4 /\ Writer = 1 /\ Reader = 2 /\ NoSession = 0
BY LayoutAssumption, CommitsAssumption, SpaceAssumption
   DEF Root, RootAddress, Writer, Reader, NoSession

-------------------------------------------------------------------------------
\* The shape of fixed space that is the i-th of its list.
LEMMA ShapeAt ==
    ASSUME NEW type, NEW i \in Nat \ {0}, i \in DOMAIN PrimitiveTypes, PrimitiveTypes[i] = type,
           \A j \in DOMAIN PrimitiveTypes : PrimitiveTypes[j] = type => j = i
    PROVE  /\ PrimitiveShape(type) = FixedMin + 2 + i /\ IsFixed(PrimitiveShape(type))
           /\ PrimitiveShape(type) # Nil /\ PrimitiveType(PrimitiveShape(type)) = type
<1> DEFINE j == CHOOSE k \in DOMAIN PrimitiveTypes : PrimitiveTypes[k] = type
<1>1. j = i
  <2>1. \E k \in DOMAIN PrimitiveTypes : PrimitiveTypes[k] = type OBVIOUS
  <2>2. j \in DOMAIN PrimitiveTypes /\ PrimitiveTypes[j] = type BY <2>1
  <2> QED BY <2>2
<1>2. PrimitiveShape(type) = FixedMin + 2 + i BY <1>1 DEF PrimitiveShape
<1>3. (FixedMin + 2 + i) - FixedMin - 2 = i BY Constant
<1>4. PrimitiveType(FixedMin + 2 + i) = PrimitiveTypes[i] BY <1>3, Zenon DEF PrimitiveType
<1>5. FixedMin + 2 + i >= FixedMin /\ FixedMin + 2 + i # FixedMin BY Constant
<1> QED BY <1>2, <1>4, <1>5 DEF IsFixed, Nil, NilAddr

\* The shapes of the types that a program's objects have, and of stubs.
LEMMA TypeShapes ==
    /\ \A type \in {"SLOTTED", "INTEGER", "STRING", "STUB"} :
          /\ PrimitiveShape(type) \in FixedSpace /\ PrimitiveShape(type) # Nil
          /\ IsFixed(PrimitiveShape(type)) /\ PrimitiveType(PrimitiveShape(type)) = type
    /\ PrimitiveShape("STUB") = FixedMin + 14 /\ PrimitiveShape("SLOTTED") = FixedMin + 11
<1>1. /\ DOMAIN PrimitiveTypes = 1 .. 12
      /\ PrimitiveTypes[1] = "INTEGER" /\ PrimitiveTypes[5] = "STRING"
      /\ PrimitiveTypes[9] = "SLOTTED" /\ PrimitiveTypes[12] = "STUB"
      /\ \A j \in 1 .. 12 : PrimitiveTypes[j] = "INTEGER" => j = 1
      /\ \A j \in 1 .. 12 : PrimitiveTypes[j] = "STRING" => j = 5
      /\ \A j \in 1 .. 12 : PrimitiveTypes[j] = "SLOTTED" => j = 9
      /\ \A j \in 1 .. 12 : PrimitiveTypes[j] = "STUB" => j = 12
  BY DEF PrimitiveTypes
<1> DEFINE OK(type, n) ==
              /\ PrimitiveShape(type) = FixedMin + 2 + n /\ IsFixed(PrimitiveShape(type))
              /\ PrimitiveShape(type) # Nil /\ PrimitiveType(PrimitiveShape(type)) = type
<1>2. OK("INTEGER", 1) /\ OK("STRING", 5) /\ OK("SLOTTED", 9) /\ OK("STUB", 12)
  BY <1>1, ShapeAt
<1>3. \A n \in 1 .. 12 : FixedMin + 2 + n \in FixedSpace
  BY Constant DEF FixedSpace
<1>4. FixedMin + 2 + 12 = FixedMin + 14 /\ FixedMin + 2 + 9 = FixedMin + 11 BY Constant
<1> QED BY <1>2, <1>3, <1>4

\* What is in fixed space, and what is not.
LEMMA FixedIs ==
    /\ \A l \in FixedSpace : IsFixed(l) /\ l \in Nat
    /\ \A l \in 1 .. FixedMin - 1 : ~IsFixed(l) /\ l # Nil /\ l \notin FixedSpace
    /\ IsFixed(Nil) /\ Nil \in FixedSpace /\ Nil \in Nat
BY Constant DEF FixedSpace, IsFixed, Nil, NilAddr

\* The storage of a shape in fixed space is the same on any heap.
LEMMA FixedStorage ==
    /\ \A h : StorageOf(h, Nil) = "SHAPE"
    /\ \A h : \A type \in {"SLOTTED", "INTEGER", "STRING", "STUB"} :
          StorageOf(h, PrimitiveShape(type)) = type
BY TypeShapes, Zenon DEF StorageOf

\* What the objects of a program are.
LEMMA Kinds ==
    ASSUME NEW h, NEW o, Formed(h, o)
    PROVE  LET type == StorageOf(h, o.shape)
           IN  /\ \/ /\ type = "SHAPE" /\ o.shape = Nil
                     /\ Len(o.links) = 3 /\ o.links[2] = Nil /\ Len(o.data) = 1
                     /\ o.data[1] < Len(StorageTypes)
                  \/ /\ type = "SLOTTED" /\ o.data = <<>>
                     /\ \/ o.shape = PrimitiveShape("SLOTTED") /\ Len(o.links) = AllocatorSlots
                        \/ ~IsFixed(o.shape) /\ h[o.shape].shape = Nil /\ o.links = <<>>
                  \/ /\ type = "INTEGER" /\ o.shape = PrimitiveShape("INTEGER")
                     /\ o.links = <<>> /\ Len(o.data) = 1
                  \/ /\ type = "STRING" /\ o.shape = PrimitiveShape("STRING")
                     /\ o.links = <<>> /\ o.data # <<>>
                     /\ \A i \in DOMAIN o.data : o.data[i] < UnitBase
               /\ WordSize(type, Count(o, type)) <= MaxObject
<1>1. CASE FormedShape(o)
  BY <1>1, FixedStorage, Zenon DEF Formed, FormedShape
<1>2. CASE FormedSlotted(h, o)
  BY <1>2, FixedStorage, Zenon DEF Formed, FormedSlotted
<1>3. CASE FormedInteger(o)
  BY <1>3, FixedStorage, Zenon DEF Formed, FormedInteger
<1>4. CASE FormedString(o)
  BY <1>4, FixedStorage, Zenon DEF Formed, FormedString
<1> QED BY <1>1, <1>2, <1>3, <1>4 DEF Formed

-------------------------------------------------------------------------------
LEMMA BuiltOwn == Built \subseteq Programs /\ Programs \subseteq DOMAIN heap
BY DEF Built, Programs

\* The objects of a program keep what they are made of.
Kept ==
    /\ Programs' = Programs
    /\ \A r \in Programs : /\ heap'[r].shape = heap[r].shape /\ heap'[r].links = heap[r].links
                           /\ heap'[r].data = heap[r].data

LEMMA KeptForms ==
    ASSUME FormsInv, Kept
    PROVE  \A r \in Programs :
              /\ LinksOf(heap'[r]) = LinksOf(heap[r])
              /\ StorageOf(heap', heap'[r].shape) = StorageOf(heap, heap[r].shape)
              /\ TypeOf(heap', r) = TypeOf(heap, r)
              /\ TypeOf(heap, r) = StorageOf(heap, heap[r].shape)
              /\ Size(r)' = Size(r)
              /\ Formed(heap, heap[r]) /\ Formed(heap', heap'[r])
<1> TAKE r \in Programs
<1>1. LinksOf(heap'[r]) = LinksOf(heap[r])
  BY DEF Kept, LinksOf
<1>2. heap[r].shape \in LinksOf(heap[r]) /\ Own(heap[r].shape)
  BY DEF FormsInv, LinksOf
<1>3. StorageOf(heap', heap'[r].shape) = StorageOf(heap, heap[r].shape)
  <2>1. CASE IsFixed(heap[r].shape)
    BY <2>1, LayoutAssumption DEF Kept, StorageOf, IsFixed
  <2>2. CASE ~IsFixed(heap[r].shape)
    <3>1. heap[r].shape \in Programs BY <1>2, <2>2, FixedIs DEF Own
    <3>2. heap[r].shape # Nil BY <2>2, Constant DEF IsFixed, Nil, NilAddr
    <3> QED BY <2>2, <3>1, <3>2 DEF Kept, StorageOf
  <2> QED BY <2>1, <2>2
<1>4. r \in 1 .. FixedMin - 1 BY DEF FormsInv
<1>5. r # Nil /\ ~IsFixed(r) BY <1>4, Constant DEF Nil, NilAddr, IsFixed
<1>6. /\ TypeOf(heap', r) = StorageOf(heap', heap'[r].shape)
      /\ TypeOf(heap, r) = StorageOf(heap, heap[r].shape)
  BY <1>5 DEF TypeOf
<1>7. TypeOf(heap', r) = TypeOf(heap, r) BY <1>3, <1>6
<1>8. \A type : Count(heap'[r], type) = Count(heap[r], type) BY DEF Kept, Count
<1>9. Size(r)' = Size(r) BY <1>7, <1>8 DEF Size
<1>10. Formed(heap, heap[r]) BY DEF FormsInv
<1>11. Formed(heap', heap'[r])
  <2>1. /\ heap'[r].shape = heap[r].shape /\ heap'[r].links = heap[r].links
        /\ heap'[r].data = heap[r].data
    BY DEF Kept
  <2>2. FormedShape(heap[r]) => FormedShape(heap'[r]) BY <2>1, Zenon DEF FormedShape
  <2>3. FormedInteger(heap[r]) => FormedInteger(heap'[r]) BY <2>1, Zenon DEF FormedInteger
  <2>4. FormedString(heap[r]) => FormedString(heap'[r]) BY <2>1, Zenon DEF FormedString
  <2>5. FormedSlotted(heap, heap[r]) => FormedSlotted(heap', heap'[r])
    <3>1. ~IsFixed(heap[r].shape) => heap'[heap[r].shape].shape = heap[heap[r].shape].shape
      BY <1>2, FixedIs DEF Own, Kept
    <3> QED BY <1>3, <2>1, <3>1, Zenon DEF FormedSlotted
  <2> QED BY <1>3, <1>8, <1>10, <2>1, <2>2, <2>3, <2>4, <2>5, Zenon DEF Formed
<1> QED BY <1>1, <1>3, <1>6, <1>7, <1>9, <1>10, <1>11

LEMMA OthersKept == ASSUME OthersChange PROVE Kept
BY DEF OthersChange, Kept

LEMMA SameKept == ASSUME UNCHANGED heap PROVE OthersChange
BY DEF OthersChange, Programs

-------------------------------------------------------------------------------
\* Of two stacks, one put before the other.
LEMMA Before ==
    ASSUME NEW s \in Seq(Nat), NEW t \in Seq(Nat)
    PROVE  s \o t \in Seq(Nat) /\ Range(s \o t) = Range(s) \cup Range(t)
<1>1. s \o t \in Seq(Nat) OBVIOUS
<1>2. Range(s \o t) = Range(s) \cup Range(t) BY RangeConcatenation
<1> QED BY <1>1, <1>2

\* The objects of a stack are its head and those of its tail.
LEMMA HeadFirst ==
    ASSUME NEW s \in Seq(Nat), s # <<>>
    PROVE  Tail(s) \in Seq(Nat) /\ Range(s) = {Head(s)} \cup Range(Tail(s))
<1> DEFINE n == Len(s)
           t == Tail(s)
<1>1. /\ n \in Nat \ {0} /\ DOMAIN s = 1 .. n /\ Head(s) = s[1]
      /\ t \in Seq(Nat) /\ Len(t) = n - 1 /\ DOMAIN t = 1 .. n - 1
      /\ \A i \in 1 .. n - 1 : t[i] = s[i + 1]
  BY HeadTailProperties, EmptySeq
<1> HIDE DEF n, t
<1>2. ASSUME NEW x \in Range(s) PROVE x = Head(s) \/ x \in Range(t)
  <2>1. PICK i \in 1 .. n : x = s[i] BY <1>1, <1>2 DEF Range
  <2>2. CASE i = 1 BY <1>1, <2>1, <2>2
  <2>3. CASE i # 1
    <3>1. i - 1 \in 1 .. n - 1 /\ i - 1 + 1 = i BY <1>1, <2>1, <2>3
    <3>2. t[i - 1] = x BY <1>1, <2>1, <3>1
    <3> QED BY <1>1, <3>1, <3>2 DEF Range
  <2> QED BY <2>2, <2>3
<1>3. ASSUME NEW x \in Range(t) PROVE x \in Range(s)
  <2>1. PICK i \in 1 .. n - 1 : x = t[i] BY <1>1, <1>3 DEF Range
  <2>2. i + 1 \in 1 .. n /\ x = s[i + 1] BY <1>1, <2>1
  <2> QED BY <1>1, <2>2 DEF Range
<1>4. Head(s) \in Range(s)
  <2>1. 1 \in DOMAIN s BY <1>1
  <2> QED BY <1>1, <2>1 DEF Range
<1> QED BY <1>1, <1>2, <1>3, <1>4 DEF t

\* What is known of the sizes of an object of a program.
LEMMA Sizes ==
    ASSUME FormsInv, NEW r \in Programs
    PROVE  /\ Size(r) \in 1 .. MaxObject
           /\ heap[r].links \in Seq(Nat) /\ heap[r].data \in Seq(Nat)
           /\ heap[r].shape \in Nat /\ heap[r].physical \in Nat
           /\ TypeOf(heap, r) = StorageOf(heap, heap[r].shape)
           /\ r \in Nat /\ ~IsFixed(r)
<1>1. /\ heap[r].links \in Seq(Nat) /\ heap[r].data \in Seq(Nat)
      /\ heap[r].shape \in Nat /\ heap[r].physical \in Nat
  BY DEF FormsInv, Objs
<1>2. r \in 1 .. FixedMin - 1 BY DEF FormsInv
<1>3. r # Nil /\ ~IsFixed(r) BY <1>2, Constant DEF Nil, NilAddr, IsFixed
<1> DEFINE type == StorageOf(heap, heap[r].shape)
<1>4. TypeOf(heap, r) = type BY <1>3 DEF TypeOf
<1>5. Formed(heap, heap[r]) BY DEF FormsInv
<1>6. Size(r) = WordSize(type, Count(heap[r], type)) BY <1>4 DEF Size
<1>7. /\ \/ type = "SHAPE" \/ type = "SLOTTED" \/ type = "INTEGER"
         \/ type = "STRING" /\ heap[r].data # <<>>
      /\ WordSize(type, Count(heap[r], type)) <= MaxObject
  BY <1>5, Kinds, Zenon
<1> HIDE DEF type
<1>8. Len(heap[r].links) \in Nat /\ Len(heap[r].data) \in Nat BY <1>1
<1>9. WordSize(type, Count(heap[r], type)) \in Nat \ {0}
  <2>1. CASE type = "SHAPE" BY <2>1 DEF WordSize
  <2>2. CASE type = "SLOTTED" BY <2>2, <1>8 DEF WordSize, Count
  <2>3. CASE type = "INTEGER" BY <2>3 DEF WordSize
  <2>4. CASE type = "STRING" BY <2>4, <1>8 DEF WordSize, Count
  <2> QED BY <1>7, <2>1, <2>2, <2>3, <2>4
<1>10. Size(r) \in Nat \ {0} /\ Size(r) <= MaxObject BY <1>6, <1>7, <1>9
<1>11. Size(r) \in 1 .. MaxObject BY <1>10, Constant
<1>12. r \in Nat BY <1>2
<1> QED BY <1>1, <1>3, <1>4, <1>11, <1>12 DEF type

\* Two units make a word.
LEMMA PackedWords ==
    ASSUME NEW units \in Seq(Nat), units # <<>>
    PROVE  /\ Packed(units) \in Seq(Nat) /\ Len(Packed(units)) = (Len(units) + 1) \div 2
           /\ (Len(units) + 1) \div 2 \in Nat /\ (Len(units) + 1) \div 2 + 1 <= 2 * Len(units)
<1> DEFINE n == Len(units)
           half == (n + 1) \div 2
<1>1. n \in Nat \ {0} /\ \A i \in 1 .. n : units[i] \in Nat BY EmptySeq
<1> HIDE DEF n
<1>2. half \in Nat /\ half + 1 <= 2 * n /\ 2 * half <= n + 1 BY <1>1, SMT
<1> HIDE DEF half
<1>3. \A k \in 1 .. half : 2 * k - 1 \in 1 .. n /\ (2 * k <= n => 2 * k \in 1 .. n)
  BY <1>1, <1>2
<1>4. \A m \in Nat : UnitBase * m \in Nat BY LayoutAssumption, SMT
<1>5. \A k \in 1 .. half :
         units[2 * k - 1] + (IF 2 * k <= n THEN UnitBase * units[2 * k] ELSE 0) \in Nat
  <2> TAKE k \in 1 .. half
  <2>1. units[2 * k - 1] \in Nat /\ (2 * k <= n => units[2 * k] \in Nat) BY <1>1, <1>3
  <2>2. (IF 2 * k <= n THEN UnitBase * units[2 * k] ELSE 0) \in Nat BY <1>4, <2>1
  <2> QED BY <2>1, <2>2
<1>6. Packed(units) =
        [k \in 1 .. half |->
            units[2 * k - 1] + (IF 2 * k <= n THEN UnitBase * units[2 * k] ELSE 0)]
  BY DEF Packed, half, n
<1>7. Packed(units) \in [1 .. half -> Nat] BY <1>5, <1>6
<1>8. Packed(units) \in Seq(Nat) /\ Len(Packed(units)) = half BY <1>2, <1>7, SeqDef
<1> QED BY <1>2, <1>8 DEF half, n

\* An object of a program as it is written: its words are no more than are
\* reserved, the first is its shape's address.
LEMMA WordsReserved ==
    ASSUME FormsInv, NEW r \in Programs
    PROVE  LET o == heap[r]
               type == StorageOf(heap, o.shape)
               links == [i \in DOMAIN o.links |-> Address(heap, o.links[i])]
               words == Words(type, links, o.data)
           IN  /\ links \in Seq(Nat) /\ Len(links) = Len(o.links)
               /\ words \in Seq(Nat) /\ Address(heap, o.shape) \in Nat
               /\ ObjectWords(o) = <<Address(heap, o.shape)>> \o words
               /\ ObjectWords(o) \in Seq(Nat) /\ Len(ObjectWords(o)) = 1 + Len(words)
               /\ Len(ObjectWords(o)) <= Size(r)
<1> DEFINE o == heap[r]
           type == StorageOf(heap, o.shape)
           links == [i \in DOMAIN o.links |-> Address(heap, o.links[i])]
           words == Words(type, links, o.data)
           first == Address(heap, o.shape)
<1>1. /\ o.links \in Seq(Nat) /\ o.data \in Seq(Nat) /\ Size(r) = WordSize(type, Count(o, type))
      /\ Formed(heap, o)
  BY Sizes, Zenon DEF Size, FormsInv
<1>2. /\ \/ type = "SHAPE" /\ Len(o.links) = 3 /\ Len(o.data) = 1
         \/ type = "SLOTTED"
         \/ type = "INTEGER" /\ Len(o.data) = 1
         \/ type = "STRING" /\ o.data # <<>>
  BY <1>1, Kinds, Zenon
<1>3. ObjectWords(o) = <<first>> \o words
  BY DEF ObjectWords
<1>4. DOMAIN o.links = 1 .. Len(o.links) /\ Len(o.links) \in Nat /\ Len(o.data) \in Nat
  BY <1>1
<1>5. \A l \in LinksOf(o) : Address(heap, l) \in Nat
  <2> TAKE l \in LinksOf(o)
  <2>1. Own(l) BY DEF FormsInv
  <2>2. CASE l \in FixedSpace
    BY <2>2, FixedIs DEF Address, FormsInv
  <2>3. CASE l \in Programs
    <3>1. l \in 1 .. FixedMin - 1 /\ heap[l].logical \in Nat BY <2>3 DEF FormsInv, Objs
    <3> QED BY <3>1, FixedIs DEF Address
  <2> QED BY <2>1, <2>2, <2>3 DEF Own
<1>6. first \in Nat /\ \A i \in 1 .. Len(o.links) : Address(heap, o.links[i]) \in Nat
  BY <1>4, <1>5 DEF LinksOf, Range
<1>7. links \in Seq(Nat) /\ Len(links) = Len(o.links)
  <2>1. links \in [1 .. Len(o.links) -> Nat] BY <1>4, <1>6
  <2> HIDE DEF links, o
  <2> QED BY <1>4, <2>1, SeqDef
<1> HIDE DEF links, type, words, first
<1>8. words \in Seq(Nat) /\ 1 + Len(words) <= WordSize(type, Count(o, type))
  <2>1. CASE type = "SHAPE"
    <3>1. words = links \o o.data BY <2>1 DEF words, Words, ShapeWords
    <3>2. words \in Seq(Nat) /\ Len(words) = Len(links) + Len(o.data)
      BY <3>1, <1>1, <1>7, ConcatProperties
    <3>3. Len(links) = 3 /\ Len(o.data) = 1 BY <1>2, <1>7, <2>1
    <3>4. WordSize(type, Count(o, type)) = 5 BY <2>1 DEF WordSize
    <3> HIDE DEF o
    <3> QED BY <3>2, <3>3, <3>4, SMT
  <2>2. CASE type = "SLOTTED"
    <3>1. words = links BY <2>2 DEF words, Words, SlottedWords
    <3> QED BY <3>1, <1>4, <1>7, <2>2 DEF WordSize, Count
  <2>3. CASE type = "INTEGER"
    <3>1. words = o.data BY <2>3 DEF words, Words, IntegerWords
    <3>2. Len(words) = 1 /\ words \in Seq(Nat) BY <3>1, <1>1, <1>2, <2>3
    <3>3. WordSize(type, Count(o, type)) = 2 BY <2>3 DEF WordSize
    <3> HIDE DEF o
    <3> QED BY <3>2, <3>3, SMT
  <2>4. CASE type = "STRING"
    <3> DEFINE units == o.data
               packed == Packed(units)
               half == (Len(units) + 1) \div 2
    <3>1. words = <<Len(units)>> \o packed BY <2>4 DEF words, Words, StringWords
    <3>2. /\ packed \in Seq(Nat) /\ Len(packed) = half /\ half \in Nat
          /\ half + 1 <= 2 * Len(units)
      BY <1>1, <1>2, <2>4, PackedWords
    <3> HIDE DEF packed, half
    <3>3. <<Len(units)>> \in Seq(Nat) /\ Len(<<Len(units)>>) = 1 BY <1>4
    <3>4. words \in Seq(Nat) /\ Len(words) = 1 + half
      BY <3>1, <3>2, <3>3, ConcatProperties
    <3>5. WordSize(type, Count(o, type)) = 1 + 2 * Len(units)
      BY <2>4 DEF WordSize, Count
    <3> QED BY <1>4, <3>2, <3>4, <3>5
  <2> QED BY <1>2, <2>1, <2>2, <2>3, <2>4
<1>9. <<first>> \in Seq(Nat) /\ Len(<<first>>) = 1
  BY <1>6
<1>10. ObjectWords(o) \in Seq(Nat) /\ Len(ObjectWords(o)) = 1 + Len(words)
  BY <1>3, <1>8, <1>9, ConcatProperties
<1>11. Len(ObjectWords(o)) <= Size(r) BY <1>1, <1>8, <1>10
<1> QED BY <1>3, <1>6, <1>7, <1>8, <1>10, <1>11 DEF links, words, first, o, type

\* What an object refers to is among its children.
LEMMA ChildrenAll ==
    ASSUME FormsInv, NEW r \in Programs
    PROVE  /\ Children(r) \in Seq(Nat) /\ Range(Children(r)) \subseteq LinksOf(heap[r])
           /\ \A l \in LinksOf(heap[r]) : IsFixed(l) \/ l \in Range(Children(r))
<1> DEFINE o == heap[r]
           type == TypeOf(heap, r)
           all == <<o.shape>> \o o.links
           child == Reverse(all)
<1>1. /\ o.links \in Seq(Nat) /\ o.shape \in Nat /\ type = StorageOf(heap, o.shape)
      /\ Formed(heap, o)
  BY Sizes, Zenon DEF FormsInv
<1>2. \/ type \in {"SHAPE", "SLOTTED"}
      \/ type \in {"INTEGER", "STRING"} /\ IsFixed(o.shape) /\ o.links = <<>>
  BY <1>1, Kinds, TypeShapes, Zenon
<1>3. CASE type \in {"SHAPE", "SLOTTED"}
  <2>1. Children(r) = child
    BY <1>3 DEF Children, ShapeChildren, SlottedChildren
  <2>2. <<o.shape>> \in Seq(Nat) /\ Len(<<o.shape>>) = 1 /\ Range(<<o.shape>>) = {o.shape}
    BY <1>1 DEF Range
  <2> HIDE DEF o, type
  <2>3. all \in Seq(Nat) /\ Range(all) = LinksOf(o)
    <3>1. all \in Seq(Nat) /\ Range(all) = Range(<<o.shape>>) \cup Range(o.links)
      BY <1>1, <2>2, Before
    <3> QED BY <3>1, <2>2 DEF LinksOf
  <2> HIDE DEF all
  <2>4. child \in Seq(Nat) /\ Range(child) = Range(all)
    <3> DEFINE n == Len(all)
    <3>1. n \in Nat /\ DOMAIN all = 1 .. n /\ \A i \in 1 .. n : all[i] \in Nat BY <2>3
    <3> HIDE DEF n
    <3>2. child = [i \in 1 .. n |-> all[n - i + 1]] BY DEF Reverse, n
    <3>3. \A i \in 1 .. n : n - i + 1 \in 1 .. n /\ n - (n - i + 1) + 1 = i BY <3>1
    <3>4. child \in [1 .. n -> Nat] BY <3>1, <3>2, <3>3
    <3>5. child \in Seq(Nat) BY <3>1, <3>4, SeqDef
    <3>6. DOMAIN child = 1 .. n /\ \A i \in 1 .. n : child[i] = all[n - i + 1] BY <3>2
    <3> HIDE DEF child
    <3>7. \A i \in 1 .. n : all[i] = child[n - i + 1] BY <3>3, <3>6
    <3>8. ASSUME NEW x \in Range(child) PROVE x \in Range(all)
      <4>1. PICK i \in 1 .. n : x = child[i] BY <3>6, <3>8 DEF Range
      <4>2. x = all[n - i + 1] BY <3>6, <4>1
      <4> QED BY <3>1, <3>3, <4>2 DEF Range
    <3>9. ASSUME NEW x \in Range(all) PROVE x \in Range(child)
      <4>1. PICK i \in 1 .. n : x = all[i] BY <3>1, <3>9 DEF Range
      <4>2. x = child[n - i + 1] BY <3>7, <4>1
      <4> QED BY <3>3, <3>6, <4>2 DEF Range
    <3> QED BY <3>5, <3>8, <3>9
  <2> QED BY <2>1, <2>3, <2>4 DEF o
<1>4. CASE type \in {"INTEGER", "STRING"} /\ IsFixed(o.shape) /\ o.links = <<>>
  <2>1. Children(r) = <<>> BY <1>4 DEF Children
  <2>3. <<>> \in Seq(Nat) /\ Range(<<>>) = {} BY DEF Range
  <2>4. o.links = <<>> BY <1>4
  <2>5. Range(o.links) = {} BY <2>3, <2>4, Zenon
  <2> HIDE DEF o
  <2>2. LinksOf(o) = {o.shape} BY <2>5 DEF LinksOf
  <2> USE DEF o
  <2> QED BY <1>4, <2>1, <2>2, <2>3
<1> QED BY <1>2, <1>3, <1>4

-------------------------------------------------------------------------------
\* The numbers an assignment of addresses begins with, and its pages.
LEMMA FewPages == ASSUME NEW n PROVE PagesFor(n) \in 0 .. MaxPages
<1>1. PagesFor(n) \in {0, 1, 2} BY DEF PagesFor
<1>2. MaxPages \in Nat /\ MaxPages >= 2 BY SpaceAssumption, CommitsAssumption
<1> QED BY <1>1, <1>2

\* What a visit does to the object at the head of the stack.
LEMMA VisitFacts ==
    ASSUME FormsInv, VisitInv, PlacedInv, SpaceTypeOK, Visit, NEW o, o = Head(stack)
    PROVE  /\ o \in Programs /\ o \notin Built
           /\ stack \in Seq(Nat) /\ stack # <<>> /\ phase = "scan" /\ phase' = "scan"
           /\ Programs' = Programs /\ Built' = Built \cup {o} /\ Kept
           /\ \A r \in Programs \ {o} : heap'[r] = heap[r]
           /\ heap'[o].logical = next_logical /\ heap'[o].physical = next_physical
           /\ heap'[o] \in Objs /\ heap'[o].session # NoSession
           /\ Place(Size(o), PagesFor(next_logical)) /\ next_physical + Size(o) <= MaxWord + 1
           /\ Size(o) \in 1 .. MaxObject /\ PagesFor(next_logical) \in 0 .. MaxPages
<1>1. /\ phase = "scan" /\ stack # <<>> /\ ~IsFixed(o) /\ heap[o].session = NoSession
      /\ heap' = [heap EXCEPT ![o].session = Writer, ![o].logical = next_logical,
                              ![o].physical = next_physical]
      /\ Place(WordSize(TypeOf(heap, o), Count(heap[o], TypeOf(heap, o))),
               PagesFor(next_logical))
      /\ next_physical + WordSize(TypeOf(heap, o), Count(heap[o], TypeOf(heap, o))) <= MaxWord + 1
      /\ phase' = phase
  BY DEF Visit, Unvisited
<1>2. stack \in Seq(Nat) /\ \A x \in Range(stack) : Own(x)
  BY <1>1 DEF VisitInv
<1>3. o \in Programs
  <2>1. o = stack[1] /\ 1 \in DOMAIN stack
    BY <1>1, <1>2
  <2>2. o \in Range(stack) BY <2>1 DEF Range
  <2> QED BY <1>1, <1>2, <2>2, FixedIs DEF Own
<1>4. heap[o] \in Objs /\ o \in DOMAIN heap BY <1>3 DEF FormsInv, Programs
<1>5. next_logical \in Nat /\ next_physical \in Nat BY DEF PlacedInv, SpaceTypeOK
<1>6. /\ DOMAIN heap' = DOMAIN heap
      /\ \A r \in DOMAIN heap \ {o} : heap'[r] = heap[r]
      /\ heap'[o] = [heap[o] EXCEPT !.session = Writer, !.logical = next_logical,
                                    !.physical = next_physical]
  BY <1>1, <1>4
<1>7. /\ heap'[o] \in Objs /\ heap'[o].session = Writer
      /\ heap'[o].logical = next_logical /\ heap'[o].physical = next_physical
      /\ heap'[o].shape = heap[o].shape /\ heap'[o].links = heap[o].links
      /\ heap'[o].data = heap[o].data
  BY <1>4, <1>5, <1>6 DEF Objs, Writer, Reader, NoSession
<1>8. o \notin Built BY <1>1, Constant DEF Built
<1>9. Built' = Built \cup {o}
  <2>1. \A r \in DOMAIN heap : r \in Built' <=> r \in Built \/ r = o
    <3>1. heap'[o].session = Writer /\ o \in DOMAIN heap /\ DOMAIN heap' = DOMAIN heap
      BY <1>4, <1>6, <1>7
    <3>2. ASSUME NEW r \in DOMAIN heap, r # o PROVE heap'[r].session = heap[r].session
      BY <1>6, <3>2
    <3> QED BY <3>1, <3>2 DEF Built
  <2>2. Built' \subseteq DOMAIN heap /\ Built \subseteq DOMAIN heap BY <1>6 DEF Built
  <2> QED BY <1>4, <2>1, <2>2
<1>10. Programs' = Programs
  <2>1. \A r \in DOMAIN heap : r \in Programs' <=> r \in Programs
    <3> TAKE r \in DOMAIN heap
    <3>1. CASE r = o
      BY <1>3, <1>4, <1>6, <1>7, <3>1 DEF Programs
    <3>2. CASE r # o
      <4>1. heap'[r] = heap[r] BY <1>6, <3>2
      <4> QED BY <1>6, <4>1 DEF Programs
    <3> QED BY <3>1, <3>2
  <2>2. Programs' \subseteq DOMAIN heap /\ Programs \subseteq DOMAIN heap BY <1>6 DEF Programs
  <2> QED BY <2>1, <2>2
<1>11. \A r \in Programs \ {o} : heap'[r] = heap[r] BY <1>6 DEF Programs
<1>12. Kept BY <1>7, <1>10, <1>11 DEF Kept
<1>13. Place(Size(o), PagesFor(next_logical)) /\ next_physical + Size(o) <= MaxWord + 1
  BY <1>1 DEF Size
<1>14. Size(o) \in 1 .. MaxObject BY <1>3, Sizes
<1>15. PagesFor(next_logical) \in 0 .. MaxPages BY FewPages
<1>16. heap'[o].session # NoSession BY <1>7, Constant
<1> QED BY <1>1, <1>2, <1>3, <1>7, <1>8, <1>9, <1>10, <1>11, <1>12, <1>13, <1>14, <1>15, <1>16

(***************************************************************************)
(* A commit gives words away as Space says: one object at a time, of a     *)
(* size that is not zero, with the pages its address needs.                *)
(***************************************************************************)
LEMMA StepPlaces ==
    ASSUME FormsInv, VisitInv, PlacedInv, SpaceTypeOK, [CommitNext]_commit_vars
    PROVE  [SpaceNext]_space
<1>1. CASE Visit
  <2>1. PICK o : o = Head(stack) OBVIOUS
  <2>2. /\ Place(Size(o), PagesFor(next_logical))
        /\ Size(o) \in 1 .. MaxObject /\ PagesFor(next_logical) \in 0 .. MaxPages
    BY <1>1, <2>1, VisitFacts
  <2> QED BY <2>2 DEF SpaceNext
<1>2. CASE ~Visit
  BY <1>2 DEF CommitNext, commit_vars, store, BeginCommit, Skip, Scanned, Write, Finish, Elsewhere
<1> QED BY <1>1, <1>2

\* In every other step the objects of the program stay as they are.
LEMMA OtherSteps ==
    ASSUME [CommitNext]_commit_vars, ~Visit
    PROVE  OthersChange /\ UNCHANGED <<map, next_logical, space, nil>>
<1>1. CASE Finish \/ Elsewhere
  BY <1>1 DEF Finish, Elsewhere, store
<1>2. CASE ~(Finish \/ Elsewhere)
  <2>1. UNCHANGED <<heap, map, next_logical, space, nil>>
    BY <1>2 DEF CommitNext, commit_vars, store, BeginCommit, Skip, Scanned, Write
  <2> QED BY <2>1, SameKept
<1> QED BY <1>1, <1>2

\* In every step the objects of the program stay what they are made of.
LEMMA AllKept ==
    ASSUME FormsInv, VisitInv, PlacedInv, SpaceTypeOK, [CommitNext]_commit_vars
    PROVE  Kept
<1>1. CASE Visit
  <2>1. PICK o : o = Head(stack) OBVIOUS
  <2> QED BY <1>1, <2>1, VisitFacts
<1> QED BY <1>1, OtherSteps, OthersKept

LEMMA FormsStep ==
    ASSUME FormsInv, VisitInv, PlacedInv, SpaceTypeOK, [CommitNext]_commit_vars
    PROVE  FormsInv'
<1>1. Kept BY AllKept
<1>2. Programs' = Programs BY <1>1 DEF Kept
<1>3. \A r \in Programs : LinksOf(heap'[r]) = LinksOf(heap[r]) /\ Formed(heap', heap'[r])
  BY <1>1, KeptForms
<1>4. \A r \in Programs :
         /\ heap'[r] \in Objs
         /\ heap'[r].session = NoSession =>
               heap'[r].logical = Unassigned /\ heap'[r].physical = Unassigned
  <2>1. CASE Visit
    <3>1. PICK o : o = Head(stack) OBVIOUS
    <3>2. /\ heap'[o] \in Objs /\ heap'[o].session # NoSession /\ \A r \in Programs \ {o} : heap'[r] = heap[r]
      BY <2>1, <3>1, VisitFacts
    <3> QED BY <3>2 DEF FormsInv
  <2>2. CASE ~Visit
    BY <2>2, OtherSteps DEF OthersChange, FormsInv
  <2> QED BY <2>1, <2>2
<1>5. \A l : Own(l)' <=> Own(l) BY <1>2 DEF Own
<1>6. nil' = nil
  BY DEF CommitNext, commit_vars, BeginCommit, Visit, Skip, Scanned, Write, Finish, Elsewhere
<1> QED BY <1>2, <1>3, <1>4, <1>5, <1>6, Zenon DEF FormsInv

-------------------------------------------------------------------------------
LEMMA BuiltSame == ASSUME OthersChange PROVE Built' = Built
<1>1. Built \subseteq Programs /\ Built' \subseteq Programs' BY DEF Built, Programs
<1>2. \A r \in Programs : r \in Built' <=> r \in Built
  <2> TAKE r \in Programs
  <2>1. r \in DOMAIN heap /\ r \in DOMAIN heap' /\ heap'[r] = heap[r]
    BY DEF OthersChange, Programs
  <2> QED BY <2>1 DEF Built
<1> QED BY <1>1, <1>2 DEF OthersChange

LEMMA PlacedStep ==
    ASSUME FormsInv, VisitInv, PlacedInv, SpaceTypeOK, [CommitNext]_commit_vars
    PROVE  PlacedInv'
<1>1. /\ map \in [1 .. MaxLogical -> 0 .. MaxWord] /\ next_logical \in Nat
      /\ RootAddress < next_logical
      /\ Root \in Built /\ heap[Root].logical = RootAddress
      /\ heap[Root].shape = PrimitiveShape("SLOTTED") /\ next_physical \in Nat
      /\ \A a \in 1 .. MaxLogical :
            map[a] = Unassigned \/ \E o \in Built : heap[o].logical = a
  BY DEF PlacedInv, SpaceTypeOK
<1>2. Kept BY AllKept
<1>3. \A r \in Programs : Size(r)' = Size(r) /\ Size(r) \in 1 .. MaxObject
                          /\ heap[r].physical \in Nat
  BY <1>2, KeptForms, Sizes
<1>4. CASE Visit
  <2>1. PICK o : o = Head(stack) OBVIOUS
  <2>2. /\ o \in Programs /\ o \notin Built /\ Built' = Built \cup {o} /\ Programs' = Programs
        /\ \A r \in Programs \ {o} : heap'[r] = heap[r]
        /\ heap'[o].logical = next_logical /\ heap'[o].physical = next_physical
        /\ Place(Size(o), PagesFor(next_logical)) /\ PagesFor(next_logical) \in 0 .. MaxPages
        /\ next_physical + Size(o) <= MaxWord + 1
    BY <1>4, <2>1, VisitFacts
  <2>3. /\ next_logical <= MaxLogical /\ map' = [map EXCEPT ![next_logical] = next_physical]
        /\ next_logical' = next_logical + 1
    BY <1>4 DEF Visit
  <2> DEFINE size == Size(o)
             put == PagesFor(next_logical) * PageSize
  <2>4. /\ extents' = extents \cup {<<next_physical, next_physical + size>>}
        /\ next_physical' = next_physical + size + put
    BY <2>2 DEF Place
  <2>5. size \in Nat /\ put \in Nat
    <3>1. PageSize \in Nat /\ MaxPages \in Nat BY SpaceAssumption
    <3>2. size \in Nat BY <1>3, <2>2, Constant
    <3>3. \A m \in 0 .. MaxPages, n \in Nat : m * n \in Nat BY <3>1, SMT
    <3> QED BY <2>2, <3>1, <3>2, <3>3
  <2>6. /\ ExtentOf(o)' = <<next_physical, next_physical + size>>
        /\ heap'[o].physical + Size(o)' <= next_physical'
    <3>1. Size(o)' = size BY <1>3, <2>2
    <3>2. ExtentOf(o)' = <<next_physical, next_physical + size>>
      BY <2>2, <3>1 DEF ExtentOf
    <3> HIDE DEF size, put
    <3> QED BY <1>1, <2>2, <2>4, <2>5, <3>1, <3>2
  <2> HIDE DEF size, put
  <2>7. ASSUME NEW p \in Built
        PROVE  /\ heap'[p] = heap[p] /\ ExtentOf(p)' = ExtentOf(p) /\ p # o
               /\ heap[p].physical \in Nat /\ Size(p) \in Nat /\ Size(p)' = Size(p)
               /\ heap[p].logical \in 1 .. MaxLogical /\ heap[p].logical < next_logical
               /\ map[heap[p].logical] = heap[p].physical
               /\ heap[p].physical > 0
               /\ heap[p].physical + Size(p) <= next_physical
               /\ heap[p].physical + Size(p) <= MaxWord + 1
               /\ p # Root => ExtentOf(p) \in extents
    <3>1. p \in Programs /\ p # o BY <2>2, BuiltOwn
    <3>2. heap'[p] = heap[p] /\ Size(p)' = Size(p) /\ Size(p) \in Nat /\ heap[p].physical \in Nat
      BY <1>3, <2>2, <3>1, Constant
    <3>3. ExtentOf(p)' = ExtentOf(p) BY <3>2 DEF ExtentOf
    <3> QED BY <3>1, <3>2, <3>3 DEF PlacedInv
  <2>8. ASSUME NEW p \in Built'
        PROVE  /\ heap'[p].logical \in 1 .. MaxLogical /\ heap'[p].logical < next_logical'
               /\ map'[heap'[p].logical] = heap'[p].physical /\ heap'[p].physical > 0
               /\ heap'[p].physical + Size(p)' <= next_physical'
               /\ heap'[p].physical + Size(p)' <= MaxWord + 1
               /\ p # Root => ExtentOf(p)' \in extents'
    <3>1. CASE p = o
      <4>1. next_logical \in 1 .. MaxLogical BY <1>1, <2>3, Constant
      <4>2. map'[next_logical] = next_physical BY <1>1, <2>3, <4>1
      <4>3. next_physical > 0 BY <1>1, <2>7
      <4>4. Size(o)' = size BY <1>3, <2>2 DEF size
      <4>5. next_physical + size <= MaxWord + 1 BY <2>2 DEF size
      <4> QED BY <1>1, <2>2, <2>3, <2>4, <2>6, <3>1, <4>1, <4>2, <4>3, <4>4, <4>5
    <3>2. CASE p \in Built
      <4>1. heap[p].logical # next_logical BY <1>1, <2>7, <3>2
      <4>2. map'[heap[p].logical] = heap[p].physical BY <1>1, <2>3, <2>7, <3>2, <4>1
      <4>3. heap[p].physical + Size(p) <= next_physical' BY <1>1, <2>4, <2>5, <2>7, <3>2
      <4>4. /\ heap'[p] = heap[p] /\ Size(p)' = Size(p)
            /\ heap[p].logical \in 1 .. MaxLogical /\ heap[p].physical > 0
            /\ heap[p].physical + Size(p) <= MaxWord + 1
        BY <2>7, <3>2
      <4>5. heap[p].logical < next_logical' BY <1>1, <2>3, <2>7, <3>2
      <4>6. p # Root => ExtentOf(p)' \in extents' BY <2>4, <2>7, <3>2
      <4> QED BY <4>2, <4>3, <4>4, <4>5, <4>6
    <3> QED BY <2>2, <3>1, <3>2
  <2>9. ASSUME NEW p \in Built', NEW q \in Built', p # q
        PROVE  Apart(ExtentOf(p)', ExtentOf(q)') /\ heap'[p].logical # heap'[q].logical
    <3>1. ASSUME NEW x \in Built
          PROVE  /\ Apart(ExtentOf(x)', ExtentOf(o)') /\ Apart(ExtentOf(o)', ExtentOf(x)')
                 /\ heap'[x].logical # heap'[o].logical
      <4>1. ExtentOf(x)'[2] <= ExtentOf(o)'[1]
        BY <1>1, <2>6, <2>7, <3>1 DEF ExtentOf
      <4>2. heap'[x].logical # heap'[o].logical BY <1>1, <2>2, <2>7, <3>1
      <4> QED BY <4>1, <4>2 DEF Apart
    <3>2. CASE p \in Built /\ q \in Built
      <4>1. Apart(ExtentOf(p), ExtentOf(q)) /\ heap[p].logical # heap[q].logical
        BY <2>9, <3>2 DEF PlacedInv
      <4> QED BY <2>7, <3>2, <4>1
    <3>3. CASE p = o
      <4>1. q \in Built BY <2>2, <2>9, <3>3
      <4> QED BY <3>1, <3>3, <4>1
    <3>4. CASE q = o
      <4>1. p \in Built BY <2>2, <2>9, <3>4
      <4> QED BY <3>1, <3>4, <4>1
    <3>5. p \in Built \cup {o} /\ q \in Built \cup {o} BY <2>2, <2>9
    <3> QED BY <3>2, <3>3, <3>4, <3>5
  <2>10. /\ next_logical' \in Nat /\ RootAddress < next_logical'
         /\ next_logical' <= MaxLogical + 1
         /\ Root \in Built' /\ heap'[Root].logical = RootAddress
         /\ heap'[Root].shape = PrimitiveShape("SLOTTED")
    BY <1>1, <2>2, <2>3, <2>7, Constant
  <2>13. map' \in [1 .. MaxLogical -> 0 .. MaxWord]
    <3>1. size \in 1 .. MaxObject BY <1>3, <2>2 DEF size
    <3>2. next_physical + size <= MaxWord + 1 BY <2>2 DEF size
    <3>3. next_physical \in 0 .. MaxWord BY <1>1, <3>1, <3>2, Constant
    <3> QED BY <1>1, <2>3, <3>3
  <2>11. \A p, q \in Built' :
            p = q \/ (Apart(ExtentOf(p)', ExtentOf(q)') /\ heap'[p].logical # heap'[q].logical)
    BY <2>9
  <2>12. ASSUME NEW a \in 1 .. MaxLogical
         PROVE  map'[a] = Unassigned \/ \E p \in Built' : heap'[p].logical = a
    <3>1. CASE a = next_logical BY <2>2, <3>1
    <3>2. CASE a # next_logical
      <4>1. map'[a] = map[a] BY <1>1, <2>3, <3>2
      <4> QED BY <1>1, <2>2, <2>7, <4>1
    <3> QED BY <3>1, <3>2
  <2> QED BY <2>8, <2>10, <2>11, <2>12, <2>13, Zenon DEF PlacedInv
<1>5. CASE ~Visit
  <2>1. OthersChange /\ UNCHANGED <<map, next_logical, space, nil>> BY <1>5, OtherSteps
  <2>2. Built' = Built BY <2>1, BuiltSame
  <2>3. next_physical' = next_physical /\ extents' = extents /\ map' = map
        /\ next_logical' = next_logical
    BY <2>1 DEF space
  <2>4. \A p \in Built : heap'[p] = heap[p] /\ Size(p)' = Size(p) /\ ExtentOf(p)' = ExtentOf(p)
    <3> TAKE p \in Built
    <3>1. p \in Programs BY BuiltOwn
    <3>2. heap'[p] = heap[p] /\ Size(p)' = Size(p) BY <1>3, <2>1, <3>1 DEF OthersChange
    <3> QED BY <3>2 DEF ExtentOf
  <2> QED BY <2>2, <2>3, <2>4 DEF PlacedInv
<1> QED BY <1>4, <1>5

LEMMA VisitStep ==
    ASSUME FormsInv, VisitInv, PlacedInv, SpaceTypeOK, [CommitNext]_commit_vars
    PROVE  VisitInv'
<1>1. Kept BY AllKept
<1>2. Programs' = Programs /\ \A l : Own(l)' <=> Own(l) BY <1>1 DEF Kept, Own
<1>3. \A r \in Programs : LinksOf(heap'[r]) = LinksOf(heap[r]) BY <1>1, KeptForms
<1>4. CASE Visit
  <2>1. PICK o : o = Head(stack) OBVIOUS
  <2>2. /\ o \in Programs /\ Built' = Built \cup {o}
        /\ stack \in Seq(Nat) /\ stack # <<>> /\ phase = "scan" /\ phase' = "scan"
    BY <1>4, <2>1, VisitFacts
  <2>3. stack' = Children(o) \o Tail(stack) /\ write_set' = write_set \cup {o}
    BY <1>4, <2>1 DEF Visit
  <2>4. /\ Children(o) \in Seq(Nat) /\ Range(Children(o)) \subseteq LinksOf(heap[o])
        /\ \A l \in LinksOf(heap[o]) : IsFixed(l) \/ l \in Range(Children(o))
    BY <2>2, ChildrenAll
  <2>5. Tail(stack) \in Seq(Nat) /\ Range(stack) = {o} \cup Range(Tail(stack))
    BY <2>1, <2>2, HeadFirst
  <2>6. stack' \in Seq(Nat) /\ Range(stack') = Range(Children(o)) \cup Range(Tail(stack))
    BY <2>3, <2>4, <2>5, Before
  <2>7. \A x \in Range(stack') : Own(x)
    BY <2>2, <2>4, <2>5, <2>6 DEF VisitInv, FormsInv
  <2>8. ASSUME NEW p \in Built', NEW l \in LinksOf(heap'[p])
        PROVE  IsFixed(l) \/ l \in Built' \/ l \in Range(stack')
    <3>1. p \in Programs BY <2>2, BuiltOwn
    <3>2. l \in LinksOf(heap[p]) BY <1>3, <2>8, <3>1
    <3>3. CASE p = o BY <2>4, <2>6, <3>2, <3>3
    <3>4. CASE p \in Built
      <4>1. IsFixed(l) \/ l \in Built \/ l \in Range(stack)
        BY <2>2, <3>2, <3>4 DEF VisitInv
      <4> QED BY <2>2, <2>5, <2>6, <4>1
    <3> QED BY <2>2, <3>3, <3>4
  <2>9. write_set' = Built' BY <2>2, <2>3 DEF VisitInv
  <2> QED BY <1>2, <2>2, <2>6, <2>7, <2>8, <2>9 DEF VisitInv
<1>5. CASE ~Visit
  <2>1. OthersChange BY <1>5, OtherSteps
  <2>2. Built' = Built BY <2>1, BuiltSame
  <2>3. \A p \in Built : LinksOf(heap'[p]) = LinksOf(heap[p]) BY <1>3, BuiltOwn
  <2>4. CASE BeginCommit
    <3>1. phase = "open" /\ phase' = "scan" /\ write_set' = {Root} /\ stack' = Children(Root)
      BY <2>4 DEF BeginCommit
    <3>2. Built = {Root} /\ Root \in Programs BY <3>1, BuiltOwn DEF VisitInv
    <3>3. /\ Children(Root) \in Seq(Nat) /\ Range(Children(Root)) \subseteq LinksOf(heap[Root])
          /\ \A l \in LinksOf(heap[Root]) : IsFixed(l) \/ l \in Range(Children(Root))
      BY <3>2, ChildrenAll
    <3>4. \A x \in Range(stack') : Own(x) BY <3>1, <3>2, <3>3 DEF FormsInv
    <3> QED BY <1>2, <2>2, <2>3, <3>1, <3>2, <3>3, <3>4 DEF VisitInv
  <2>5. CASE Skip
    <3>1. /\ phase = "scan" /\ phase' = phase /\ stack # <<>> /\ ~Unvisited(Head(stack))
          /\ stack' = Tail(stack) /\ write_set' = write_set
      BY <2>5 DEF Skip
    <3>2. PICK o : o = Head(stack) OBVIOUS
    <3>3. stack \in Seq(Nat) BY <3>1 DEF VisitInv
    <3>4. Tail(stack) \in Seq(Nat) /\ Range(stack) = {o} \cup Range(Tail(stack))
      BY <3>1, <3>2, <3>3, HeadFirst
    <3>5. IsFixed(o) \/ o \in Built
      <4>1. Own(o) BY <3>1, <3>4 DEF VisitInv
      <4> QED BY <3>1, <3>2, <4>1, FixedIs DEF Unvisited, Own, Programs, Built
    <3>6. \A p \in Built : \A l \in LinksOf(heap'[p]) :
             IsFixed(l) \/ l \in Built \/ l \in Range(Tail(stack))
      BY <2>3, <3>1, <3>4, <3>5 DEF VisitInv
    <3>7. \A x \in Range(Tail(stack)) : Own(x)' BY <1>2, <3>1, <3>4 DEF VisitInv
    <3> QED BY <2>2, <3>1, <3>4, <3>6, <3>7 DEF VisitInv
  <2>6. CASE Scanned
    <3>1. /\ phase = "scan" /\ phase' = "write" /\ stack = <<>> /\ write_set' = write_set
          /\ stack' = stack
      BY <2>6 DEF Scanned
    <3>2. Range(stack) = {} BY <3>1 DEF Range
    <3>3. write_set = Built /\ \A o \in Built : \A l \in LinksOf(heap[o]) :
             IsFixed(l) \/ l \in Built
      BY <3>1, <3>2 DEF VisitInv
    <3> QED BY <2>2, <2>3, <3>1, <3>3 DEF VisitInv
  <2>7. CASE Write
    <3>1. /\ phase = "write" /\ phase' = phase /\ write_set' \subseteq write_set
          /\ stack' = stack
      BY <2>7 DEF Write
    <3> QED BY <2>2, <2>3, <3>1 DEF VisitInv
  <2>8. CASE Finish
    <3>1. /\ phase = "write" /\ phase' = "read" /\ write_set' = write_set /\ write_set = {}
          /\ stack' = stack
      BY <2>8 DEF Finish
    <3> QED BY <2>2, <2>3, <3>1 DEF VisitInv
  <2>9. CASE Elsewhere
    <3>1. /\ \/ phase = "open" /\ phase' = "open"
             \/ phase = "read" /\ phase' \in {"read", "closed"}
          /\ write_set' = write_set /\ stack' = stack
      BY <2>9 DEF Elsewhere
    <3> QED BY <2>2, <2>3, <3>1 DEF VisitInv
  <2>10. CASE UNCHANGED commit_vars
    BY <1>2, <2>2, <2>3, <2>10, Zenon DEF commit_vars, VisitInv
  <2> QED BY <1>5, <2>4, <2>5, <2>6, <2>7, <2>8, <2>9, <2>10 DEF CommitNext
<1> QED BY <1>4, <1>5

-------------------------------------------------------------------------------
\* What is written of an object depends on objects of the program only.
LEMMA WordsSame ==
    ASSUME FormsInv, OthersChange, nil' = nil, NEW r \in Programs
    PROVE  ObjectWords(heap[r])' = ObjectWords(heap[r])
<1>1. Kept BY OthersKept
<1>2. heap'[r] = heap[r] BY DEF OthersChange
<1>3. StorageOf(heap', heap'[r].shape) = StorageOf(heap, heap[r].shape) BY <1>1, KeptForms
<1>4. ASSUME NEW l \in LinksOf(heap[r]) PROVE Address(heap, l)' = Address(heap, l)
  <2>1. Own(l) BY DEF FormsInv
  <2>2. CASE l = Nil BY <2>2 DEF Address
  <2>3. CASE l # Nil /\ IsFixed(l) BY <2>3 DEF Address
  <2>4. CASE l # Nil /\ ~IsFixed(l)
    <3>1. heap'[l] = heap[l] BY <2>1, <2>4, FixedIs DEF Own, OthersChange
    <3> QED BY <2>4, <3>1 DEF Address
  <2> QED BY <2>2, <2>3, <2>4
<1>5. heap[r].shape \in LinksOf(heap[r])
      /\ \A i \in DOMAIN heap[r].links : heap[r].links[i] \in LinksOf(heap[r])
  BY DEF LinksOf, Range
<1>6. /\ Address(heap, heap[r].shape)' = Address(heap, heap[r].shape)
      /\ [i \in DOMAIN heap[r].links |-> Address(heap, heap[r].links[i])]' =
            [i \in DOMAIN heap[r].links |-> Address(heap, heap[r].links[i])]
  BY <1>2, <1>4, <1>5
<1> QED BY <1>2, <1>3, <1>6, Zenon DEF ObjectWords

\* The words of two objects are apart, so that writing one keeps the other's.
LEMMA WritesApart ==
    ASSUME FormsInv, PlacedInv, NEW o \in Built, NEW p \in Built, content \in [0 .. MaxWord -> Nat],
           content' = Stored(content, heap[o].physical, ObjectWords(heap[o])),
           UNCHANGED <<heap, nil>>, p = o \/ HasWords(p)
    PROVE  HasWords(p)'
<1> DEFINE words(x) == ObjectWords(heap[x])
           base(x) == heap[x].physical
<1>1. o \in Programs /\ p \in Programs BY BuiltOwn
<1>2. \A x \in {o, p} : /\ base(x) \in Nat /\ Size(x) \in Nat
                        /\ \E n \in Nat : DOMAIN words(x) = 1 .. n /\ n <= Size(x)
  <2> TAKE x \in {o, p}
  <2>1. base(x) \in Nat /\ Size(x) \in 1 .. MaxObject BY <1>1, Sizes
  <2>2. words(x) \in Seq(Nat) /\ Len(words(x)) <= Size(x) BY <1>1, WordsReserved
  <2> HIDE DEF words
  <2>3. Len(words(x)) \in Nat /\ DOMAIN words(x) = 1 .. Len(words(x)) BY <2>2
  <2>4. \E n \in Nat : DOMAIN words(x) = 1 .. n /\ n <= Size(x) BY <2>2, <2>3
  <2>5. Size(x) \in Nat BY <2>1, Constant
  <2> QED BY <2>1, <2>4, <2>5
<1>3. PICK n \in Nat : DOMAIN words(o) = 1 .. n /\ n <= Size(o) BY <1>2
<1>4. PICK m \in Nat : DOMAIN words(p) = 1 .. m /\ m <= Size(p) BY <1>2
<1>5. ObjectWords(heap[p])' = words(p) /\ base(p)' = base(p)
  BY <1>1, SameKept, WordsSame
<1>6. content' = [q \in 0 .. MaxWord |->
                    IF q - base(o) + 1 \in 1 .. n THEN words(o)[q - base(o) + 1] ELSE content[q]]
  BY <1>3 DEF Stored
<1> HIDE DEF words, base
<1>7. \A q \in 0 .. MaxWord :
          /\ q - base(o) + 1 \in 1 .. n => content'[q] = words(o)[q - base(o) + 1]
          /\ q - base(o) + 1 \notin 1 .. n => content'[q] = content[q]
  BY <1>6
<1>8. ASSUME NEW i \in 1 .. m, NEW q \in 0 .. MaxWord, q = base(p) + i - 1
      PROVE  content'[q] = words(p)[i]
  <2>1. base(p) \in Nat /\ base(o) \in Nat /\ Size(o) \in Nat /\ Size(p) \in Nat BY <1>2
  <2>2. CASE p = o
    <3>1. i \in 1 .. n /\ q - base(o) + 1 = i
      <4>1. i \in DOMAIN words(o) BY <1>4, <2>2
      <4> QED BY <1>3, <1>8, <2>1, <2>2, <4>1
    <3>2. content'[q] = words(o)[i] BY <1>7, <3>1, Zenon
    <3> QED BY <2>2, <3>2
  <2>3. CASE p # o
    <3>1. Apart(ExtentOf(o), ExtentOf(p)) BY <2>3 DEF PlacedInv
    <3>2. base(o) + Size(o) <= base(p) \/ base(p) + Size(p) <= base(o)
      BY <3>1 DEF Apart, ExtentOf, base
    <3>3. q - base(o) + 1 \notin 1 .. n
      <4>1. /\ q \in Nat /\ q >= base(p) /\ q < base(p) + Size(p) /\ n <= Size(o) /\ n \in Nat
        BY <1>3, <1>4, <1>8, <2>1
      <4>2. q < base(o) \/ q >= base(o) + Size(o) BY <2>1, <3>2, <4>1
      <4> QED BY <2>1, <4>1, <4>2
    <3>4. content'[q] = content[q] BY <1>7, <3>3, Zenon
    <3>5. content[q] = words(p)[i]
      BY <1>4, <1>8, <2>3 DEF HasWords, words, base
    <3> QED BY <3>4, <3>5
  <2> QED BY <2>2, <2>3
<1>9. \A i \in 1 .. m : base(p) + i - 1 \in 0 .. MaxWord
  <2>1. base(p) \in Nat /\ Size(p) \in Nat BY <1>2
  <2>2. base(p) + Size(p) <= MaxWord + 1 BY DEF PlacedInv, base
  <2> QED BY <1>4, <2>1, <2>2, Constant
<1>10. \A i \in DOMAIN words(p) : content'[base(p) + i - 1] = words(p)[i]
  BY <1>4, <1>8, <1>9
<1> QED BY <1>5, <1>10, Zenon DEF HasWords, base

\* What is written of an object is words.
LEMMA StoredWords ==
    ASSUME NEW c \in [0 .. MaxWord -> Nat], NEW base \in Nat, NEW words \in Seq(Nat)
    PROVE  Stored(c, base, words) \in [0 .. MaxWord -> Nat]
<1>1. \A p \in 0 .. MaxWord :
         (IF p - base + 1 \in DOMAIN words THEN words[p - base + 1] ELSE c[p]) \in Nat
  OBVIOUS
<1> QED BY <1>1 DEF Stored

\* Where all is persisted in the order of addresses, the least is written.
LEMMA LeastWritten ==
    ASSUME PlacedInv, VisitInv, Write
    PROVE  \E o \in write_set :
              /\ write_set' = write_set \ {o} /\ write_set \subseteq Built
              /\ content' = Stored(content, heap[o].physical, ObjectWords(heap[o]))
<1> DEFINE R == {ss \in Nat \X Nat : ss[1] < ss[2]}
           L == {heap[x].logical : x \in write_set}
           least(x) == \A y \in write_set : heap[x].logical <= heap[y].logical
<1>1. IsWellFoundedOn(R, Nat) BY NatLessThanWellFounded DEF OpToRel
<1>2. ASSUME NEW x \in Nat, NEW y \in Nat, <<y, x>> \notin R PROVE x <= y
  BY <1>2
<1>3. write_set # {} /\ write_set \subseteq Built BY DEF Write, VisitInv
<1>4. L \subseteq Nat /\ L # {}
  <2>1. \A x \in write_set : heap[x].logical \in Nat BY <1>3 DEF PlacedInv
  <2> QED BY <1>3, <2>1
<1> HIDE DEF R
<1>5. \E a \in L : \A b \in L : ~(<<b, a>> \in R)
  <2> HIDE DEF L
  <2> QED BY <1>1, <1>4, WFMin, Zenon
<1>6. PICK x \in write_set : \A y \in write_set : ~(<<heap[y].logical, heap[x].logical>> \in R)
  BY <1>5
<1>7. least(x) BY <1>2, <1>4, <1>6
<1> DEFINE o == CHOOSE z \in write_set : least(z)
<1>8. o \in write_set BY <1>7
<1>9. /\ write_set' = write_set \ {o}
      /\ content' = Stored(content, heap[o].physical, ObjectWords(heap[o]))
  BY DEF Write
<1> QED BY <1>3, <1>8, <1>9

LEMMA WordsStep ==
    ASSUME FormsInv, VisitInv, PlacedInv, SpaceTypeOK, WordsInv, [CommitNext]_commit_vars
    PROVE  WordsInv'
<1>1. content \in [0 .. MaxWord -> Nat] BY DEF WordsInv
<1>2. CASE Visit
  <2>1. phase' = "scan" /\ content' = content BY <1>2 DEF Visit
  <2> QED BY <1>1, <2>1 DEF WordsInv
<1>3. CASE Write
  <2>1. PICK o \in write_set :
             /\ write_set' = write_set \ {o} /\ write_set \subseteq Built
             /\ content' = Stored(content, heap[o].physical, ObjectWords(heap[o]))
    BY <1>3, LeastWritten
  <2>2. UNCHANGED <<heap, nil>> /\ phase = "write" /\ phase' = phase BY <1>3 DEF Write
  <2>3. Built' = Built BY <2>2 DEF Built
  <2>4. content' \in [0 .. MaxWord -> Nat]
    <3>1. o \in Programs BY <2>1, BuiltOwn
    <3>2. ObjectWords(heap[o]) \in Seq(Nat) /\ heap[o].physical \in Nat
      BY <3>1, Sizes, WordsReserved
    <3> HIDE DEF ObjectWords
    <3> QED BY <1>1, <2>1, <3>2, StoredWords
  <2>5. ASSUME NEW p \in Built \ (write_set \ {o}) PROVE HasWords(p)'
    <3>1. p = o \/ HasWords(p) BY <2>2, <2>5 DEF WordsInv
    <3> QED BY <1>1, <2>1, <2>2, <2>5, <3>1, WritesApart
  <2> QED BY <2>1, <2>2, <2>3, <2>4, <2>5 DEF WordsInv
<1>4. CASE ~Visit /\ ~Write
  <2>1. OthersChange /\ nil' = nil BY <1>4, OtherSteps
  <2>2. Built' = Built BY <2>1, BuiltSame
  <2>3. content' = content
    BY <1>4 DEF CommitNext, commit_vars, store, BeginCommit, Skip, Scanned, Finish, Elsewhere
  <2>4. ASSUME phase' \in {"write", "read", "closed"}, NEW p \in Built \ write_set'
        PROVE  HasWords(p)
    <3>1. CASE phase \in {"write", "read", "closed"}
      <4>1. write_set' = write_set
        BY <1>4, <3>1 DEF CommitNext, commit_vars, BeginCommit, Skip, Scanned, Finish, Elsewhere
      <4> QED BY <2>4, <3>1, <4>1 DEF WordsInv
    <3>2. CASE phase \in {"open", "scan"}
      <4>1. Scanned
        BY <1>4, <2>4, <3>2
           DEF CommitNext, commit_vars, BeginCommit, Skip, Scanned, Finish, Elsewhere
      <4>2. write_set' = write_set /\ phase = "scan" BY <4>1 DEF Scanned
      <4> QED BY <2>4, <4>2 DEF VisitInv
    <3> QED BY <3>1, <3>2 DEF VisitInv
  <2>5. ASSUME NEW p \in Built, HasWords(p) PROVE HasWords(p)'
    <3>1. p \in Programs BY BuiltOwn
    <3>2. ObjectWords(heap[p])' = ObjectWords(heap[p]) /\ heap'[p] = heap[p]
      BY <2>1, <3>1, WordsSame DEF OthersChange
    <3> QED BY <2>3, <2>5, <3>2, Zenon DEF HasWords
  <2>6. phase' = "open" => RootWords(heap[Root].physical)'
    <3>1. phase' = "open" => phase = "open"
      BY <1>4 DEF CommitNext, commit_vars, BeginCommit, Skip, Scanned, Finish, Elsewhere
    <3>2. heap'[Root] = heap[Root]
      <4>1. Root \in Programs BY BuiltOwn DEF PlacedInv
      <4> QED BY <2>1, <4>1 DEF OthersChange
    <3> QED BY <2>3, <3>1, <3>2 DEF WordsInv, RootWords
  <2> QED BY <1>1, <2>2, <2>3, <2>4, <2>5, <2>6 DEF WordsInv
<1> QED BY <1>2, <1>3, <1>4

-------------------------------------------------------------------------------
\* The i-th unit is found in the word it was packed into.
LEMMA UnitPacked ==
    ASSUME NEW units \in Seq(Nat), units # <<>>, \A i \in DOMAIN units : units[i] < UnitBase,
           NEW i \in 1 .. Len(units)
    PROVE  /\ 1 + (i - 1) \div 2 \in 1 .. Len(Packed(units))
           /\ Unit(Packed(units)[1 + (i - 1) \div 2], i) = units[i]
<1> DEFINE n == Len(units)
           k == 1 + (i - 1) \div 2
<1>1. n \in Nat /\ \A j \in 1 .. n : units[j] \in Nat /\ units[j] < UnitBase OBVIOUS
<1>2. Len(Packed(units)) = (n + 1) \div 2 BY PackedWords
<1>3. k \in 1 .. (n + 1) \div 2 /\ (i = 2 * k - 1 \/ i = 2 * k) /\ k \in Nat
      /\ (i % 2 = 1 <=> i = 2 * k - 1)
  <2>1. i \in Nat /\ n \in Nat /\ 1 <= i /\ i <= n BY <1>1
  <2>2. PICK q \in Nat : q = (i - 1) \div 2 /\ (i - 1 = 2 * q \/ i - 1 = 2 * q + 1)
    <3>1. PICK j \in Nat : j = i - 1 BY <2>1, SMT
    <3>2. j \div 2 \in Nat /\ (j = 2 * (j \div 2) \/ j = 2 * (j \div 2) + 1) BY SMT
    <3> QED BY <3>1, <3>2
  <2>3. PICK m \in Nat : m = (n + 1) \div 2 /\ (n + 1 = 2 * m \/ n + 1 = 2 * m + 1)
    <3>1. PICK j \in Nat : j = n + 1 BY <2>1, SMT
    <3>2. j \div 2 \in Nat /\ (j = 2 * (j \div 2) \/ j = 2 * (j \div 2) + 1) BY SMT
    <3> QED BY <3>1, <3>2
  <2>4. i % 2 = 1 <=> i = 2 * q + 1 BY <2>1, <2>2, SMT
  <2>5. k = 1 + q BY <2>2
  <2> HIDE DEF k, n
  <2>6. k \in 1 .. m BY <2>1, <2>2, <2>3, <2>5, SMT
  <2> QED BY <2>1, <2>2, <2>3, <2>4, <2>5, <2>6, SMT
<1>4. Packed(units)[k] =
        units[2 * k - 1] + (IF 2 * k <= n THEN UnitBase * units[2 * k] ELSE 0)
  BY <1>3 DEF Packed
<1> HIDE DEF k
<1>5. \A x, y \in Nat : x < UnitBase =>
         (x + UnitBase * y) % UnitBase = x /\ (x + UnitBase * y) \div UnitBase = y
  BY LayoutAssumption, SMT
<1>6. \A x \in Nat : x < UnitBase => (x + 0) % UnitBase = x BY LayoutAssumption, SMT
<1> HIDE DEF n
<1>7. CASE i = 2 * k - 1
  <2>1. units[i] \in Nat /\ units[i] < UnitBase BY <1>1 DEF n
  <2>2. Packed(units)[k] % UnitBase = units[i]
    <3>1. CASE 2 * k <= n
      <4>1. 2 * k \in 1 .. n BY <1>3, <3>1
      <4>2. units[2 * k] \in Nat BY <1>1, <4>1
      <4>3. Packed(units)[k] = units[i] + UnitBase * units[2 * k] BY <1>4, <1>7, <3>1
      <4> QED BY <1>5, <2>1, <4>2, <4>3
    <3>2. CASE ~(2 * k <= n) BY <1>4, <1>6, <1>7, <2>1, <3>2
    <3> QED BY <3>1, <3>2
  <2> QED BY <1>2, <1>3, <1>7, <2>2 DEF Unit, k, n
<1>8. CASE i = 2 * k
  <2>1. 2 * k <= n /\ 2 * k - 1 \in 1 .. n BY <1>3, <1>8 DEF n
  <2>2. /\ units[2 * k - 1] \in Nat /\ units[2 * k - 1] < UnitBase /\ units[i] \in Nat
    BY <1>1, <2>1 DEF n
  <2>3. Packed(units)[k] \div UnitBase = units[i] BY <1>4, <1>5, <1>8, <2>1, <2>2
  <2>4. i % 2 # 1 BY <1>3, <1>8
  <2> QED BY <1>2, <1>3, <2>3, <2>4 DEF Unit, k, n
<1> QED BY <1>3, <1>7, <1>8

(***************************************************************************)
(* What the readers take from the words of an object is what it was        *)
(* written from: the address of its shape, those of its links, its data.   *)
(***************************************************************************)
LEMMA WordsRead ==
    ASSUME FormsInv, NEW r \in Programs, HasWords(r), NEW slots,
           StorageOf(heap, heap[r].shape) = "SLOTTED" => slots = Len(heap[r].links)
    PROVE  LET o == heap[r]
               type == StorageOf(heap, o.shape)
           IN  /\ type \in Readable
               /\ content[o.physical] = Address(heap, o.shape)
               /\ LinksAt(content, type, o.physical, slots) =
                     [i \in DOMAIN o.links |-> Address(heap, o.links[i])]
               /\ DataAt(content, type, o.physical) = o.data
<1> DEFINE o == heap[r]
           type == StorageOf(heap, o.shape)
           links == [i \in DOMAIN o.links |-> Address(heap, o.links[i])]
           words == Words(type, links, o.data)
           first == Address(heap, o.shape)
           base == o.physical
           n == Len(words)
<1>1. /\ o.links \in Seq(Nat) /\ o.data \in Seq(Nat) /\ base \in Nat
      /\ links \in Seq(Nat) /\ Len(links) = Len(o.links) /\ words \in Seq(Nat)
      /\ ObjectWords(o) = <<first>> \o words
      /\ Formed(heap, o)
  BY Sizes, WordsReserved, Zenon DEF FormsInv
<1>2. n \in Nat /\ DOMAIN words = 1 .. n
  <2> HIDE DEF words
  <2> QED BY <1>1
<1>3. DOMAIN o.links = 1 .. Len(o.links) /\ Len(o.links) \in Nat /\ Len(o.data) \in Nat
      /\ DOMAIN o.data = 1 .. Len(o.data)
  BY <1>1
<1> HIDE DEF links, type, words, first
<1>4. /\ DOMAIN ObjectWords(o) = 1 .. n + 1 /\ ObjectWords(o)[1] = first
      /\ \A i \in 1 .. n : ObjectWords(o)[i + 1] = words[i]
  BY <1>1, <1>2
<1>5. content[base] = first /\ \A i \in 1 .. n : content[base + i] = words[i]
  <2>1. \A i \in 1 .. n + 1 : content[base + i - 1] = ObjectWords(o)[i]
    BY <1>4 DEF HasWords
  <2>2. 1 \in 1 .. n + 1 /\ base + 1 - 1 = base BY <1>1, <1>2
  <2>3. \A i \in 1 .. n : i + 1 \in 1 .. n + 1 /\ base + (i + 1) - 1 = base + i BY <1>1, <1>2
  <2> HIDE DEF base, n, o
  <2> QED BY <1>4, <2>1, <2>2, <2>3, Zenon
<1> HIDE DEF base, n
<1>6. /\ type \in Readable
      /\ LinksAt(content, type, base, slots) = links
      /\ DataAt(content, type, base) = o.data
  <2>1. CASE type = "SHAPE" /\ Len(o.links) = 3 /\ Len(o.data) = 1
    <3>1. words = links \o o.data BY <2>1 DEF words, Words, ShapeWords
    <3>2. /\ Len(links) = 3 /\ n = 4
          /\ words[4] = o.data[1] /\ \A i \in 1 .. 3 : words[i] = links[i]
      <4>1. /\ Len(links) = 3 /\ Len(words) = Len(links) + Len(o.data)
            /\ \A i \in 1 .. 4 :
                  words[i] = IF i <= Len(links) THEN links[i] ELSE o.data[i - Len(links)]
        <5>1. Len(links) = 3 /\ Len(o.data) = 1 BY <1>1, <2>1
        <5>2. 1 .. Len(links) + Len(o.data) = 1 .. 4 BY <5>1
        <5> DEFINE data == o.data
        <5>3. links \in Seq(Nat) /\ data \in Seq(Nat) /\ words = links \o data BY <1>1, <3>1
        <5> HIDE DEF o, data
        <5>4. /\ Len(words) = Len(links) + Len(data)
              /\ \A i \in 1 .. Len(links) + Len(data) :
                    words[i] = IF i <= Len(links) THEN links[i] ELSE data[i - Len(links)]
          BY <5>3, ConcatProperties
        <5> QED BY <5>1, <5>2, <5>4 DEF data
      <4>2. \A i \in 1 .. 3 : words[i] = links[i]
        <5> TAKE i \in 1 .. 3
        <5>1. i \in 1 .. 4 /\ i <= Len(links) BY <2>1, <4>1
        <5> QED BY <4>1, <5>1
      <4>3. words[4] = o.data[1]
        <5>1. 4 \in 1 .. 4 /\ ~(4 <= Len(links)) /\ 4 - Len(links) = 1 BY <2>1, <4>1
        <5> QED BY <4>1, <5>1
      <4>4. Len(words) = 4 /\ Len(links) = 3 BY <2>1, <4>1
      <4> QED BY <4>2, <4>3, <4>4 DEF n
    <3>3. words[4] = o.data[1] /\ \A i \in 1 .. 3 : words[i] = links[i]
      BY <3>2
    <3>4. content[base + 4] = o.data[1] /\ \A i \in 1 .. 3 : content[base + i] = links[i]
      BY <1>5, <3>2, <3>3
    <3>5. [i \in 1 .. 3 |-> content[base + i]] = links
      BY <1>1, <3>2, <3>4
    <3>6. <<content[base + 4]>> = o.data
      BY <1>1, <2>1, <3>4
    <3> HIDE DEF o
    <3> QED BY <2>1, <3>5, <3>6 DEF LinksAt, ShapeLinksAt, DataAt, ShapeFormatAt, Readable
  <2>2. CASE type = "SLOTTED" /\ o.data = <<>>
    <3>1. words = links BY <2>2 DEF words, Words, SlottedWords
    <3>2. n = Len(o.links) /\ slots = n BY <1>1, <2>2, <3>1 DEF n, type
    <3>3. [i \in 1 .. slots |-> content[base + i]] = links
      BY <1>1, <1>2, <1>5, <3>1, <3>2
    <3> HIDE DEF o
    <3> QED BY <2>2, <3>3 DEF LinksAt, SlottedLinksAt, DataAt, Readable
  <2>3. CASE type = "INTEGER" /\ o.links = <<>> /\ Len(o.data) = 1
    <3>1. words = o.data BY <2>3 DEF words, Words, IntegerWords
    <3>2. n = 1 /\ content[base + 1] = o.data[1] BY <1>5, <2>3, <3>1 DEF n
    <3>3. <<content[base + 1]>> = o.data BY <1>1, <2>3, <3>2
    <3>4. links = <<>> BY <1>1, <2>3, EmptySeq
    <3> HIDE DEF o
    <3> QED BY <2>3, <3>3, <3>4 DEF LinksAt, DataAt, IntegerAt, Readable
  <2>4. CASE /\ type = "STRING" /\ o.links = <<>> /\ o.data # <<>>
             /\ \A i \in DOMAIN o.data : o.data[i] < UnitBase
    <3> DEFINE units == o.data
               packed == Packed(units)
               half == (Len(units) + 1) \div 2
    <3>1. words = <<Len(units)>> \o packed BY <2>4 DEF words, Words, StringWords
    <3>2. packed \in Seq(Nat) /\ Len(packed) = half /\ half \in Nat
      BY <1>1, <2>4, PackedWords
    <3>3. ASSUME NEW i \in 1 .. Len(units)
          PROVE  1 + (i - 1) \div 2 \in 1 .. half /\ Unit(packed[1 + (i - 1) \div 2], i) = units[i]
      BY <1>1, <2>4, <3>2, UnitPacked
    <3> HIDE DEF packed, half
    <3>4. n = 1 + half /\ words[1] = Len(units) /\ \A k \in 1 .. half : words[1 + k] = packed[k]
      BY <1>3, <3>1, <3>2 DEF n
    <3>5. content[base + 1] = Len(units) /\ \A k \in 1 .. half : content[base + 1 + k] = packed[k]
      <4>1. 1 \in 1 .. n BY <3>2, <3>4
      <4>2. \A k \in 1 .. half : 1 + k \in 1 .. n /\ base + (1 + k) = base + 1 + k
        BY <1>1, <3>2, <3>4
      <4> QED BY <1>5, <3>4, <4>1, <4>2
    <3>6. ASSUME NEW i \in 1 .. Len(units)
          PROVE  Unit(content[base + 2 + (i - 1) \div 2], i) = units[i]
      <4> DEFINE d == (i - 1) \div 2
      <4>1. 1 + d \in 1 .. half /\ Unit(packed[1 + d], i) = units[i] BY <3>3
      <4>2. d \in Nat BY SMT
      <4> HIDE DEF d
      <4>3. base + 1 + (1 + d) = base + 2 + d BY <1>1, <4>2
      <4>4. content[base + 2 + d] = packed[1 + d] BY <3>5, <4>1, <4>3
      <4> QED BY <4>1, <4>4 DEF d
    <3>7. [i \in 1 .. Len(units) |-> Unit(content[base + 2 + (i - 1) \div 2], i)] = units
      <4> DEFINE unit(i) == Unit(content[base + 2 + (i - 1) \div 2], i)
      <4>1. \A i \in 1 .. Len(units) : unit(i) = units[i] BY <3>6
      <4> HIDE DEF unit
      <4>2. [i \in 1 .. Len(units) |-> unit(i)] = [i \in 1 .. Len(units) |-> units[i]]
        BY <4>1, Zenon
      <4>3. [i \in 1 .. Len(units) |-> units[i]] = units BY <1>1
      <4> QED BY <4>2, <4>3 DEF unit
    <3>8. StringAt(content, base) = units BY <3>5, <3>7, Zenon DEF StringAt
    <3>9. links = <<>> BY <1>1, <2>4, EmptySeq
    <3> HIDE DEF o, units
    <3>10. o.data = units BY DEF units
    <3> QED BY <2>4, <3>8, <3>9, <3>10 DEF LinksAt, DataAt, Readable
  <2> HIDE DEF o
  <2> QED BY <1>1, <2>1, <2>2, <2>3, <2>4, Kinds, Zenon DEF type
<1> QED BY <1>5, <1>6 DEF type, links, first, base

-------------------------------------------------------------------------------
LEMMA CommitInvInit == CommitInit => CommitInv
<1> SUFFICES ASSUME CommitInit PROVE CommitInv OBVIOUS
<1>1. /\ heap \in Seq(Objs) /\ Len(heap) < FixedMin /\ RootAddress <= MaxLogical
      /\ Root \in DOMAIN heap /\ heap[Root].session = Writer
      /\ heap[Root].logical = RootAddress /\ heap[Root].shape = PrimitiveShape("SLOTTED")
      /\ heap[Root].physical + 1 + Len(heap[Root].links) <= FirstFree
      /\ heap[Root].physical # Unassigned
      /\ \A r \in DOMAIN heap :
            /\ heap[r].live /\ Formed(heap, heap[r])
            /\ r # Root => /\ heap[r].session = NoSession
                            /\ heap[r].logical = Unassigned /\ heap[r].physical = Unassigned
            /\ \A l \in LinksOf(heap[r]) : l \in FixedSpace \/ l \in DOMAIN heap
  <2>1. heap \in Graphs BY DEF CommitInit
  <2> QED BY <2>1, GraphsAssumption
<1>2. /\ DOMAIN heap = 1 .. Len(heap) /\ Len(heap) \in Nat
      /\ \A r \in DOMAIN heap : heap[r] \in Objs
  BY <1>1
<1>3. Programs = DOMAIN heap BY <1>1 DEF Programs
<1>4. Built = {Root}
  <2>1. \A r \in DOMAIN heap : heap[r].session = Writer <=> r = Root BY <1>1, Constant
  <2> QED BY <1>1, <2>1 DEF Built
<1>5. FormsInv
  <2>1. DOMAIN heap \subseteq 1 .. FixedMin - 1 BY <1>1, <1>2, Constant
  <2>2. nil = [logical |-> Nil, session |-> NoSession] BY DEF CommitInit
  <2>3. heap[Root].session # NoSession BY <1>1, Constant
  <2> QED BY <1>1, <1>2, <1>3, <2>1, <2>2, <2>3 DEF FormsInv, Own
<1>6. SpaceInv BY SpaceInvInit DEF CommitInit
<1>7. /\ next_physical = FirstFree /\ next_logical = RootAddress + 1
      /\ map = [a \in 1 .. MaxLogical |->
                  IF a = RootAddress THEN heap[Root].physical ELSE Unassigned]
      /\ phase = "open"
  BY DEF CommitInit, SpaceInit
<1>8. /\ Size(Root) = 3 /\ heap[Root].physical \in Nat \ {0}
      /\ heap[Root].physical + 3 <= next_physical /\ heap[Root].physical + 3 <= MaxWord + 1
  <2>1. /\ heap[Root].links \in Seq(Nat) /\ heap[Root].physical \in Nat
        /\ TypeOf(heap, Root) = StorageOf(heap, heap[Root].shape)
    BY <1>1, <1>3, <1>5, Sizes
  <2>2. TypeOf(heap, Root) = "SLOTTED" BY <1>1, <2>1, FixedStorage, Zenon
  <2>3. Count(heap[Root], "SLOTTED") = Len(heap[Root].links)
    BY DEF Count
  <2>4. Len(heap[Root].links) = 2
    <3>1. Formed(heap, heap[Root]) BY <1>1
    <3>2. StorageOf(heap, heap[Root].shape) = "SLOTTED" BY <2>1, <2>2
    <3>3. IsFixed(heap[Root].shape) BY <1>1, TypeShapes
    <3>4. Len(heap[Root].links) = AllocatorSlots BY <3>1, <3>2, <3>3, Kinds, Zenon
    <3> QED BY <3>4 DEF AllocatorSlots
  <2>5. Size(Root) = 3 BY <2>2, <2>3, <2>4 DEF Size, WordSize
  <2>6. /\ heap[Root].physical + 1 + Len(heap[Root].links) <= FirstFree
        /\ next_physical = FirstFree /\ heap[Root].physical # 0
    BY <1>1, <1>7, <2>1, Zenon DEF Unassigned
  <2>7. FirstFree <= MaxWord + 1 BY CommitsAssumption
  <2> HIDE DEF Size
  <2> QED BY <2>1, <2>4, <2>5, <2>6, <2>7, Constant
<1>9. PlacedInv
  <2>1. RootAddress \in 1 .. MaxLogical BY <1>1, Constant
  <2>2. map[RootAddress] = heap[Root].physical BY <1>7, <2>1
  <2>3. \A o, p \in Built : o = p BY <1>4
  <2>4. /\ next_logical \in Nat /\ RootAddress < next_logical
        /\ next_logical <= MaxLogical + 1
        /\ Root \in Built /\ heap[Root].logical = RootAddress
        /\ heap[Root].shape = PrimitiveShape("SLOTTED")
    BY <1>1, <1>4, <1>7, Constant
  <2>7. map \in [1 .. MaxLogical -> 0 .. MaxWord]
    <3> HIDE DEF Size
    <3>1. heap[Root].physical \in 0 .. MaxWord /\ Unassigned \in 0 .. MaxWord
      BY <1>8, Constant DEF Unassigned
    <3> QED BY <1>7, <3>1
  <2>5. \A a \in 1 .. MaxLogical : map[a] = Unassigned \/ \E o \in Built : heap[o].logical = a
    BY <1>1, <1>4, <1>7
  <2>6. /\ heap[Root].physical > 0 /\ heap[Root].physical + Size(Root) <= next_physical
        /\ heap[Root].physical + Size(Root) <= MaxWord + 1
    <3> HIDE DEF Size
    <3> QED BY <1>8
  <2> QED BY <1>1, <1>4, <2>1, <2>2, <2>3, <2>4, <2>5, <2>6, <2>7 DEF PlacedInv
<1>10. VisitInv BY <1>4, <1>7 DEF VisitInv, CommitInit
<1>11. WordsInv
  <2> DEFINE p == heap[Root].physical
             words == <<PrimitiveShape("SLOTTED"), Nil, Nil>>
             zero == [q \in 0 .. MaxWord |-> 0]
  <2>1. content = Stored(zero, p, words) BY DEF CommitInit
  <2>2. words \in Seq(Nat) /\ DOMAIN words = 1 .. 3
    <3>1. PrimitiveShape("SLOTTED") \in Nat /\ Nil \in Nat BY TypeShapes, FixedIs
    <3> QED BY <3>1
  <2>3. p \in Nat /\ p + 3 <= MaxWord + 1 BY <1>8
  <2> HIDE DEF p, words
  <2>4. content \in [0 .. MaxWord -> Nat]
    BY <2>1, <2>2, <2>3, StoredWords
  <2>5. \A i \in 0 .. 2 : content[p + i] = words[i + 1]
    <3> TAKE i \in 0 .. 2
    <3>1. p + i \in 0 .. MaxWord /\ (p + i) - p + 1 = i + 1 /\ i + 1 \in 1 .. 3
      BY <2>3, Constant
    <3> QED BY <2>1, <2>2, <3>1 DEF Stored
  <2>6. content[p] = words[1] /\ content[p + 1] = words[2] /\ content[p + 2] = words[3]
    <3>1. p + 0 = p BY <2>3
    <3> QED BY <2>5, <3>1
  <2> QED BY <1>7, <2>4, <2>6 DEF WordsInv, RootWords, p, words
<1> QED BY <1>5, <1>6, <1>9, <1>10, <1>11 DEF CommitInv

LEMMA CommitInvStep ==
    CommitInv /\ [CommitNext]_commit_vars => CommitInv' /\ [SpaceNext]_space
<1> SUFFICES ASSUME CommitInv, [CommitNext]_commit_vars PROVE CommitInv' /\ [SpaceNext]_space
  OBVIOUS
<1>1. SpaceInv /\ SpaceTypeOK /\ FormsInv /\ PlacedInv /\ VisitInv /\ WordsInv
  BY DEF CommitInv, SpaceInv
<1>2. [SpaceNext]_space BY <1>1, StepPlaces
<1>3. SpaceInv' BY <1>1, <1>2, SpaceInvStep
<1>4. FormsInv' /\ PlacedInv' /\ VisitInv' /\ WordsInv'
  BY <1>1, FormsStep, PlacedStep, VisitStep, WordsStep
<1> QED BY <1>2, <1>3, <1>4 DEF CommitInv

(***************************************************************************)
(* The inductive invariant of a commit, for any graph of well formed       *)
(* objects, whatever the other session does.                               *)
(***************************************************************************)
THEOREM CommitInvariant == CommitSpec => []CommitInv
<1>1. CommitInv /\ [CommitNext]_commit_vars => CommitInv' BY CommitInvStep
<1> QED BY CommitInvInit, <1>1, PTL DEF CommitSpec

(***************************************************************************)
(* A commit gives words away as Space has it, so that what is proved of    *)
(* Space holds of commits: nothing shares a word, and objects lie in the   *)
(* content if that grows by enough.                                        *)
(***************************************************************************)
THEOREM CommitGivesSpace == CommitSpec => SpaceSpec
<1>1. CommitInit => SpaceInit BY DEF CommitInit
<1>2. CommitInv /\ [CommitNext]_commit_vars => [SpaceNext]_space BY CommitInvStep
<1> QED BY CommitInvariant, <1>1, <1>2, PTL DEF CommitSpec, SpaceSpec

(***************************************************************************)
(* A commit persists a closed graph: every link of a persisted object is   *)
(* fixed or has an address the map knows, cyclic and shared graphs too.    *)
(***************************************************************************)
THEOREM ClosedCommit == CommitSpec => []BuiltIsClosed
<1>1. CommitInv => BuiltIsClosed
  <2> SUFFICES ASSUME CommitInv, phase = "read", NEW o \in Built, NEW l \in LinksOf(heap[o])
               PROVE  IsFixed(l) \/ (l \in Built /\ map[heap[l].logical] = heap[l].physical)
    BY DEF BuiltIsClosed
  <2>1. IsFixed(l) \/ l \in Built BY DEF CommitInv, VisitInv
  <2>2. l \in Built => map[heap[l].logical] = heap[l].physical BY DEF CommitInv, PlacedInv
  <2> QED BY <2>1, <2>2
<1> QED BY CommitInvariant, <1>1, PTL

(***************************************************************************)
(* After a commit the content has the words of every object it wrote:      *)
(* each fits what was reserved for it, and none is lost to another's.      *)
(***************************************************************************)
THEOREM CommittedWords == CommitSpec => []WordsStored
<1>1. CommitInv => WordsStored
  <2> SUFFICES ASSUME CommitInv PROVE WordsStored OBVIOUS
  <2>1. FormsInv /\ PlacedInv /\ VisitInv /\ WordsInv BY DEF CommitInv
  <2>2. ASSUME NEW o \in Built \ {Root}
        PROVE  \E x \in extents :
                  x[1] = heap[o].physical /\ x[1] + Len(ObjectWords(heap[o])) <= x[2]
    <3>1. o \in Programs BY BuiltOwn
    <3>2. ExtentOf(o) \in extents BY <2>1 DEF PlacedInv
    <3>3. /\ heap[o].physical \in Nat /\ Size(o) \in 1 .. MaxObject BY <2>1, <3>1, Sizes
    <3>4. ObjectWords(heap[o]) \in Seq(Nat) /\ Len(ObjectWords(heap[o])) <= Size(o)
      BY <2>1, <3>1, WordsReserved
    <3>5. Len(ObjectWords(heap[o])) \in Nat BY <3>4
    <3>6. heap[o].physical + Len(ObjectWords(heap[o])) <= heap[o].physical + Size(o)
      BY <3>3, <3>4, <3>5, Constant
    <3>7. ExtentOf(o)[1] = heap[o].physical /\ ExtentOf(o)[2] = heap[o].physical + Size(o)
      BY DEF ExtentOf
    <3> QED BY <3>2, <3>6, <3>7
  <2>3. ASSUME phase = "read", NEW o \in Built PROVE HasWords(o)
    BY <2>1, <2>3 DEF VisitInv, WordsInv
  <2> QED BY <2>2, <2>3 DEF WordsStored
<1> QED BY CommitInvariant, <1>1, PTL
===============================================================================
