----------------------------- MODULE ObjectsProofs -----------------------------
(***************************************************************************)
(* What a session reads back is what was built, one object for an address, *)
(* for any graph, any order of reads and any depth, and reading leaves the *)
(* commit alone.                                                           *)
(***************************************************************************)
EXTENDS Objects, CommitsProofs

Written == phase \in {"read", "closed"}
Readers == {r \in DOMAIN heap : heap[r].session = Reader}

\* An object as it is stored: addresses in place of references.
Form(r) ==
    [shape |-> Address(heap, heap[r].shape),
     links |-> [i \in DOMAIN heap[r].links |-> Address(heap, heap[r].links[i])],
     data  |-> heap[r].data]

\* What is stored of the root before it is first committed.
RootForm == [shape |-> PrimitiveShape("SLOTTED"), links |-> <<Nil, Nil>>, data |-> <<>>]

Original(a) == CHOOSE o \in Built : heap[o].logical = a
StoredForm(a) == IF Written THEN Form(Original(a)) ELSE RootForm

\* The addresses there are to read.
Readables == IF Written THEN {a \in 1 .. MaxLogical : map[a] # Unassigned} ELSE {RootAddress}

IsStubShape(r) == heap[r].shape = PrimitiveShape("STUB")

\* The root of the session that reads, while it is refreshed.
Stale(r) == \E i \in DOMAIN frames : frames[i].target = r

\* What an object of the session may refer to, and what may be its shape.
GoodRef(l) == l \in FixedSpace \/ l \in Readers
GoodShape(l) == l \in FixedSpace \/ (l \in Readers /\ ~IsStubShape(l))

(***************************************************************************)
(* Of each object of the session: what it refers to is of the session, its *)
(* shape is no stub, and it is a stub or what is stored at its address.    *)
(***************************************************************************)
ReaderOK(r) ==
    /\ heap[r].logical \in Readables /\ GoodShape(heap[r].shape)
    /\ \A l \in Range(heap[r].links) : GoodRef(l)
    /\ IF IsStubShape(r)
       THEN heap[r].links = <<>> /\ heap[r].data = <<heap[r].logical>> /\ heap[r].physical = Unassigned
       ELSE /\ heap[r].physical = map[heap[r].logical]
            /\ Form(r) = IF Stale(r) THEN RootForm ELSE StoredForm(heap[r].logical)

\* What a refresh read and freed.
FreedOK(r) ==
    /\ heap[r].session = NoSession /\ heap[r].logical = Unassigned
    /\ heap[r].physical \in 0 .. MaxWord
    /\ GoodRef(heap[r].shape) /\ \A l \in Range(heap[r].links) : GoodRef(l)

HeapInv ==
    /\ heap \in Seq(Objs) /\ Len(heap) < FixedMin
    /\ \A r \in Readers : ReaderOK(r)
    /\ \A r \in DOMAIN heap \ (Programs \cup Readers) : FreedOK(r)

(***************************************************************************)
(* One object for an address, and before the commit none but the root's.   *)
(***************************************************************************)
OneInv ==
    /\ stub_depth \in StubDepths
    /\ read_set \in [1 .. MaxLogical -> 0 .. Len(heap)]
    /\ OneObjectEach
    /\ ~Written => \A r \in Readers : heap[r].live /\ ~IsStubShape(r)

(***************************************************************************)
(* What a read has so far is part of what is stored, and it waits for what *)
(* the next frame reads.                                                   *)
(***************************************************************************)
Waiting(f, a) ==
    LET form == StoredForm(f.address)
    IN  \/ f.shape = None /\ a = form.shape
        \/ /\ f.shape # None /\ Len(f.links) < Len(form.links)
           /\ a = form.links[Len(f.links) + 1]

FrameSet ==
    [address : Nat, target : Nat, base : Nat, depth : Nat, shape : Nat, links : Seq(Nat)]

FrameOK(f) ==
    LET form == StoredForm(f.address)
    IN  /\ f.address \in Readables /\ f.base = map[f.address] /\ f.depth > 0
        /\ f.target # None =>
              /\ Written /\ f.address = RootAddress
              /\ f.target = read_set[RootAddress] /\ ~IsStubShape(f.target)
        /\ f.shape = None => f.links = <<>>
        /\ f.shape # None => GoodShape(f.shape) /\ Address(heap, f.shape) = form.shape
        /\ Len(f.links) <= Len(form.links)
        /\ \A j \in DOMAIN f.links :
              GoodRef(f.links[j]) /\ Address(heap, f.links[j]) = form.links[j]

FramesInv ==
    /\ frames \in Seq(FrameSet)
    /\ frames # <<>> => phase \in {"open", "read"}
    /\ frames # <<>> /\ ~Written => Len(frames) = 1 /\ read_set[RootAddress] = None
    /\ \A i \in DOMAIN frames : FrameOK(frames[i]) /\ (i > 1 => frames[i].target = None)
    /\ \A i \in DOMAIN frames : i > 1 =>
          /\ Waiting(frames[i - 1], frames[i].address)
          /\ frames[1].target # None => frames[i].address # RootAddress

(***************************************************************************)
(* In a graph without cycles, frames go down it: what they read is not     *)
(* known yet, and only stubs are replaced.                                 *)
(***************************************************************************)
Ranked(rank) ==
    \A o \in Built : \A l \in Range(heap[o].links) \cup {heap[o].shape} :
        IsFixed(l) \/ (l \in Built /\ rank[l] < rank[o])
Stays(l) == IsFixed(l) \/ Mine(l)
KeptRef(l) == Stays(l) \/ IsStubShape(l)

Resolved(a) == read_set[a] # None /\ ~IsStubShape(read_set[a])

ObjectsDown ==
    \A r \in Readers : Mine(r) =>
        Stays(heap[r].shape) /\ \A l \in Range(heap[r].links) : KeptRef(l)

FrameDown(f) ==
    /\ f.shape # None => Stays(f.shape)
    /\ \A l \in Range(f.links) : KeptRef(l)
    /\ f.target = None => ~Resolved(f.address)

RanksDown ==
    \A rank \in [Built -> 1 .. Cardinality(Built)] : Ranked(rank) =>
        \A i, j \in DOMAIN frames : i < j =>
            rank[Original(frames[j].address)] < rank[Original(frames[i].address)]

DownInv ==
    phase = "read" /\ Acyclic =>
        ObjectsDown /\ (\A i \in DOMAIN frames : FrameDown(frames[i])) /\ RanksDown

ReadInv == HeapInv /\ OneInv /\ FramesInv /\ DownInv
Inv == CommitInv /\ ReadInv
-------------------------------------------------------------------------------
\* The last of a sequence, and what is before it.
LEMMA FrontLast ==
    ASSUME NEW S, NEW s \in Seq(S), s # <<>>
    PROVE  /\ Len(s) \in Nat \ {0} /\ DOMAIN s = 1 .. Len(s)
           /\ Last(s) = s[Len(s)] /\ Last(s) \in S
           /\ Front(s) \in Seq(S) /\ Len(Front(s)) = Len(s) - 1
           /\ \A i \in 1 .. Len(s) - 1 : Front(s)[i] = s[i]
<1>1. Len(s) \in Nat \ {0} /\ DOMAIN s = 1 .. Len(s) BY EmptySeq
<1>2. Last(s) = s[Len(s)] BY DEF Last
<1>3. Front(s) = SubSeq(s, 1, Len(s) - 1) BY DEF Front
<1>4. s[Len(s)] \in S BY <1>1
<1> QED BY <1>1, <1>2, <1>3, <1>4

\* What a frame becomes that takes the object it asked for.
WithRef(f, ref) ==
    IF f.shape = None THEN [f EXCEPT !.shape = ref] ELSE [f EXCEPT !.links = Append(@, ref)]

LEMMA TakenIs ==
    ASSUME NEW calls \in Seq(FrameSet), NEW ref \in Nat
    PROVE  /\ Taken(calls, ref) \in Seq(FrameSet) /\ Len(Taken(calls, ref)) = Len(calls)
           /\ DOMAIN Taken(calls, ref) = 1 .. Len(calls)
           /\ calls = <<>> => Taken(calls, ref) = <<>>
           /\ \A i \in 1 .. Len(calls) :
                 Taken(calls, ref)[i] =
                    IF i = Len(calls) THEN WithRef(calls[i], ref) ELSE calls[i]
<1> DEFINE n == Len(calls)
<1>1. CASE calls = <<>>
  BY <1>1 DEF Taken
<1>2. CASE calls # <<>>
  <2>1. n \in Nat \ {0} /\ DOMAIN calls = 1 .. n /\ Last(calls) = calls[n]
    BY <1>2, FrontLast
  <2>6. n \in 1 .. n BY <2>1
  <2>2. calls[n] \in FrameSet BY <2>1, <2>6
  <2>3. Append(calls[n].links, ref) \in Seq(Nat) BY <2>2 DEF FrameSet
  <2>4. WithRef(calls[n], ref) \in FrameSet
    BY <2>2, <2>3 DEF WithRef, FrameSet
  <2>5. Taken(calls, ref) = [calls EXCEPT ![n] = WithRef(calls[n], ref)]
    BY <1>2, <2>1 DEF Taken, WithRef
  <2> HIDE DEF WithRef
  <2>7. \A i \in 1 .. n : calls[i] \in FrameSet BY <2>1
  <2>8. /\ Taken(calls, ref) = [i \in 1 .. n |-> IF i = n THEN WithRef(calls[n], ref) ELSE calls[i]]
    BY <2>1, <2>5, <2>6
  <2> HIDE DEF n
  <2>9. Taken(calls, ref) \in [1 .. n -> FrameSet]
    BY <2>4, <2>7, <2>8
  <2>10. Taken(calls, ref) \in Seq(FrameSet) /\ Len(Taken(calls, ref)) = n
    BY <2>1, <2>9, SeqDef
  <2> QED BY <1>2, <2>8, <2>9, <2>10 DEF n
<1> QED BY <1>1, <1>2

\* A sequence of words has one way to be long.
LEMMA SameLength ==
    ASSUME NEW s \in Seq(Nat), NEW t \in Seq(Nat), DOMAIN s = DOMAIN t
    PROVE  Len(s) = Len(t)
<1> DEFINE n == Len(s)
           m == Len(t)
<1>1. n \in Nat /\ m \in Nat /\ 1 .. n = 1 .. m
  OBVIOUS
<1> HIDE DEF n, m
<1>2. ASSUME n < m PROVE FALSE
  <2>1. m \in 1 .. m /\ m \notin 1 .. n BY <1>1, <1>2
  <2> QED BY <1>1, <2>1
<1>3. ASSUME m < n PROVE FALSE
  <2>1. n \in 1 .. n /\ n \notin 1 .. m BY <1>1, <1>3
  <2> QED BY <1>1, <2>1
<1>4. n = m BY <1>1, <1>2, <1>3
<1> QED BY <1>4 DEF n, m

-------------------------------------------------------------------------------
(* Addresses and what is stored at them *)

\* References are before fixed space, and are one session's or the other's.
LEMMA HeapFacts ==
    ASSUME HeapInv
    PROVE  /\ Len(heap) \in Nat /\ DOMAIN heap = 1 .. Len(heap)
           /\ \A r \in DOMAIN heap :
                 /\ heap[r] \in Objs /\ r \in 1 .. FixedMin - 1 /\ r \in Nat
                 /\ ~IsFixed(r) /\ r # Nil /\ r # None /\ r \notin FixedSpace
           /\ \A r \in Readers : r \in DOMAIN heap /\ r \notin Programs /\ r \notin Built
<1>1. Len(heap) \in Nat /\ DOMAIN heap = 1 .. Len(heap) /\ Len(heap) < FixedMin
  BY DEF HeapInv
<1>2. \A r \in DOMAIN heap : heap[r] \in Objs BY <1>1 DEF HeapInv
<1>3. \A r \in DOMAIN heap : r \in 1 .. FixedMin - 1 /\ r # 0 /\ r \in Nat BY <1>1, Constant
<1>4. \A r \in Readers : r \in DOMAIN heap /\ r \notin Programs /\ r \notin Built
  BY Constant DEF Readers, Programs, Built
<1>5. \A r \in DOMAIN heap : ~IsFixed(r) /\ r # Nil /\ r \notin FixedSpace
  BY <1>3, FixedIs
<1> QED BY <1>1, <1>2, <1>3, <1>4, <1>5 DEF None

LEMMA AddressIs ==
    ASSUME FormsInv, HeapInv
    PROVE  /\ \A l \in FixedSpace : Address(heap, l) = l
           /\ \A l \in DOMAIN heap : Address(heap, l) = heap[l].logical
<1>1. \A l \in FixedSpace : Address(heap, l) = l BY FixedIs DEF Address, FormsInv
<1>2. \A l \in DOMAIN heap : Address(heap, l) = heap[l].logical
  <2> TAKE l \in DOMAIN heap
  <2>1. ~IsFixed(l) /\ l # Nil BY HeapFacts
  <2> QED BY <2>1 DEF Address
<1> QED BY <1>1, <1>2

\* An address that can be read is one object's of those that are built.
LEMMA ReadableIs ==
    ASSUME CommitInv, NEW a \in Readables
    PROVE  /\ a \in 1 .. MaxLogical /\ a \in Nat /\ a \notin FixedSpace /\ ~IsFixed(a)
           /\ Original(a) \in Built /\ heap[Original(a)].logical = a
           /\ \A o \in Built : heap[o].logical = a => o = Original(a)
           /\ map[a] = heap[Original(a)].physical /\ map[a] # Unassigned /\ map[a] \in 0 .. MaxWord
           /\ Written => HasWords(Original(a))
           /\ phase = "open" => a = RootAddress /\ Original(a) = Root
<1>1. /\ Root \in Built /\ heap[Root].logical = RootAddress
      /\ map \in [1 .. MaxLogical -> 0 .. MaxWord]
      /\ \A o \in Built : /\ heap[o].logical \in 1 .. MaxLogical
                          /\ map[heap[o].logical] = heap[o].physical /\ heap[o].physical > 0
      /\ \A o, p \in Built : o = p \/ heap[o].logical # heap[p].logical
      /\ \A b \in 1 .. MaxLogical : map[b] = Unassigned \/ \E o \in Built : heap[o].logical = b
  <2>1. PlacedInv BY DEF CommitInv
  <2> QED BY <2>1, Zenon DEF PlacedInv
<1>2. \E o \in Built : heap[o].logical = a
  <2>1. CASE Written BY <1>1, <2>1 DEF Readables
  <2>2. CASE ~Written BY <1>1, <2>2 DEF Readables
  <2> QED BY <2>1, <2>2
<1>3. Original(a) \in Built /\ heap[Original(a)].logical = a BY <1>2 DEF Original
<1>4. \A o \in Built : heap[o].logical = a => o = Original(a) BY <1>1, <1>3
<1>5. a \in 1 .. MaxLogical /\ map[a] = heap[Original(a)].physical /\ map[a] > 0
  BY <1>1, <1>3
<1>6. a \in 1 .. FixedMin - 1 /\ map[a] \in 0 .. MaxWord BY <1>1, <1>5, Constant
<1>7. a \notin FixedSpace /\ ~IsFixed(a) /\ map[a] # 0 /\ a \in Nat BY <1>5, <1>6, FixedIs, Constant
<1>8. Written => HasWords(Original(a))
  BY <1>3 DEF Written, CommitInv, VisitInv, WordsInv
<1>9. phase = "open" => a = RootAddress /\ Original(a) = Root
  BY <1>1, <1>4 DEF Written, Readables
<1> QED BY <1>3, <1>4, <1>5, <1>6, <1>7, <1>8, <1>9 DEF Unassigned

\* What a persisted object refers to is in fixed space or persisted.
LEMMA BuiltRefs ==
    ASSUME CommitInv, HeapInv, Written, NEW o \in Built, NEW l \in LinksOf(heap[o])
    PROVE  /\ l \in FixedSpace \/ l \in Built
           /\ Address(heap, l) \in FixedSpace \cup Readables
           /\ l \in Built => Address(heap, l) \in Readables /\ Original(Address(heap, l)) = l
<1>1. o \in Programs /\ FormsInv BY BuiltOwn DEF CommitInv
<1>2. Own(l) /\ (IsFixed(l) \/ l \in Built)
  BY <1>1 DEF CommitInv, VisitInv, FormsInv, Written
<1>3. l \in FixedSpace \/ l \in Built
  BY <1>1, <1>2, FixedIs DEF Own, FormsInv
<1>4. ASSUME l \in Built PROVE Address(heap, l) \in Readables /\ Original(Address(heap, l)) = l
  <2>1. l \in DOMAIN heap BY <1>4 DEF Built
  <2>2. Address(heap, l) = heap[l].logical BY <1>1, <2>1, AddressIs
  <2>3. /\ heap[l].logical \in 1 .. MaxLogical
        /\ map[heap[l].logical] = heap[l].physical /\ heap[l].physical > 0
    BY <1>4 DEF CommitInv, PlacedInv
  <2>4. heap[l].logical \in Readables BY <2>3 DEF Readables, Unassigned
  <2>5. Original(heap[l].logical) = l BY <1>4, <2>4, ReadableIs
  <2> QED BY <2>2, <2>4, <2>5
<1>5. l \in FixedSpace => Address(heap, l) \in FixedSpace BY <1>1, AddressIs
<1> QED BY <1>3, <1>4, <1>5

\* What is stored at an address refers to addresses that can be read, and its
\* shape is not that of a stub.
LEMMA FormIs ==
    ASSUME CommitInv, HeapInv, NEW a \in Readables
    PROVE  LET form == StoredForm(a)
           IN  /\ form.shape \in FixedSpace \cup Readables /\ form.shape # PrimitiveShape("STUB")
               /\ form.links \in Seq(Nat) /\ form.data \in Seq(Nat)
               /\ \A i \in DOMAIN form.links : form.links[i] \in FixedSpace \cup Readables
<1>1. CASE ~Written
  <2>1. StoredForm(a) = RootForm BY <1>1 DEF StoredForm
  <2>2. /\ PrimitiveShape("SLOTTED") \in FixedSpace /\ Nil \in FixedSpace /\ Nil \in Nat
        /\ PrimitiveShape("SLOTTED") # PrimitiveShape("STUB")
    <3>1. FixedMin + 11 # FixedMin + 14 BY Constant
    <3> QED BY <3>1, TypeShapes, FixedIs
  <2>3. <<Nil, Nil>> \in Seq(Nat) /\ \A i \in DOMAIN <<Nil, Nil>> : <<Nil, Nil>>[i] = Nil
    BY <2>2
  <2>4. /\ RootForm.shape = PrimitiveShape("SLOTTED") /\ RootForm.links = <<Nil, Nil>>
        /\ RootForm.data = <<>>
    BY DEF RootForm
  <2>5. <<>> \in Seq(Nat) OBVIOUS
  <2> QED BY <2>1, <2>2, <2>3, <2>4, <2>5
<1>2. CASE Written
  <2> DEFINE x == Original(a)
  <2>1. x \in Built /\ x \in Programs /\ heap[x].logical = a /\ FormsInv
    BY ReadableIs, BuiltOwn DEF CommitInv
  <2>2. StoredForm(a) = Form(x) BY <1>2 DEF StoredForm
  <2> HIDE DEF x
  <2>3. heap[x].links \in Seq(Nat) /\ heap[x].data \in Seq(Nat) /\ Formed(heap, heap[x])
    BY <2>1, Sizes DEF FormsInv
  <2> DEFINE links == [i \in DOMAIN heap[x].links |-> Address(heap, heap[x].links[i])]
  <2>4. /\ Form(x).shape = Address(heap, heap[x].shape) /\ Form(x).data = heap[x].data
        /\ Form(x).links = links
    BY DEF Form
  <2>5. links \in Seq(Nat) BY <2>1, WordsReserved
  <2>6. heap[x].shape \in LinksOf(heap[x])
        /\ \A i \in DOMAIN heap[x].links : heap[x].links[i] \in LinksOf(heap[x])
    BY DEF LinksOf, Range
  <2>7. Form(x).shape \in FixedSpace \cup Readables
    BY <1>2, <2>1, <2>4, <2>6, BuiltRefs
  <2>8. \A i \in DOMAIN links : links[i] \in FixedSpace \cup Readables
    BY <1>2, <2>1, <2>6, BuiltRefs
  <2>9. Form(x).shape # PrimitiveShape("STUB")
    <3>1. CASE heap[x].shape \in FixedSpace
      <4>1. Form(x).shape = heap[x].shape BY <2>1, <2>4, <3>1, AddressIs
      <4>2. IsFixed(heap[x].shape) BY <3>1, FixedIs
      <4>3. heap[x].shape = Nil \/ \E type \in {"SLOTTED", "INTEGER", "STRING"} :
                                     heap[x].shape = PrimitiveShape(type)
        BY <2>3, <4>2, Kinds, Zenon
      <4>4. \A type \in {"SLOTTED", "INTEGER", "STRING"} :
               PrimitiveShape(type) # PrimitiveShape("STUB")
        BY TypeShapes
      <4> QED BY <4>1, <4>3, <4>4, TypeShapes
    <3>2. CASE heap[x].shape \in Built
      <4>1. Form(x).shape \in Readables BY <1>2, <2>1, <2>4, <2>6, <3>2, BuiltRefs
      <4> QED BY <4>1, ReadableIs, TypeShapes
    <3> QED BY <1>2, <2>1, <2>6, <3>1, <3>2, BuiltRefs
  <2> HIDE DEF links
  <2> QED BY <2>2, <2>3, <2>4, <2>5, <2>7, <2>8, <2>9
<1> QED BY <1>1, <1>2

\* Only the root is refreshed.
LEMMA StaleIs ==
    ASSUME HeapInv, OneInv, FramesInv, NEW r \in Readers, Stale(r)
    PROVE  Written /\ r = read_set[RootAddress] /\ heap[r].logical = RootAddress
<1>1. r # None /\ r \in DOMAIN heap BY HeapFacts
<1>2. PICK i \in DOMAIN frames : frames[i].target = r BY DEF Stale
<1>3. FrameOK(frames[i]) BY <1>2 DEF FramesInv
<1>4. Written /\ r = read_set[RootAddress] /\ frames[i].address = RootAddress
      /\ frames[i].address \in Readables
  BY <1>1, <1>2, <1>3 DEF FrameOK
<1>5. RootAddress \in DOMAIN read_set
  <2>1. RootAddress \in 1 .. MaxLogical BY <1>4 DEF Readables
  <2> QED BY <2>1 DEF OneInv
<1>6. heap[r].logical = RootAddress
  BY <1>1, <1>4, <1>5 DEF OneInv, OneObjectEach
<1> QED BY <1>4, <1>6

\* A fixed address is referred to as it is, another one through an object.
LEMMA RefIs ==
    ASSUME CommitInv, HeapInv, NEW l, GoodRef(l)
    PROVE  /\ l \in Nat
           /\ Address(heap, l) \in FixedSpace => l = Address(heap, l)
           /\ Address(heap, l) \notin FixedSpace => l \in Readers /\ heap[l].logical = Address(heap, l)
<1>1. FormsInv BY DEF CommitInv
<1>2. CASE l \in FixedSpace BY <1>1, <1>2, AddressIs, FixedIs
<1>3. CASE l \in Readers
  <2>1. l \in DOMAIN heap /\ l \in Nat BY <1>3, HeapFacts
  <2>2. Address(heap, l) = heap[l].logical BY <1>1, <2>1, AddressIs
  <2>3. heap[l].logical \in Readables BY <1>3 DEF HeapInv, ReaderOK
  <2>4. heap[l].logical \notin FixedSpace BY <2>3, ReadableIs
  <2> QED BY <1>3, <2>1, <2>2, <2>4
<1> QED BY <1>2, <1>3 DEF GoodRef

\* What an object that was formed is made of, told by the storage of its shape.
KindOf(h, o, type) ==
    \/ type = "SHAPE" /\ o.shape = Nil
    \/ /\ type = "SLOTTED"
       /\ \/ o.shape = PrimitiveShape("SLOTTED") /\ Len(o.links) = AllocatorSlots
          \/ ~IsFixed(o.shape) /\ h[o.shape].shape = Nil /\ o.links = <<>>
    \/ type \in {"INTEGER", "STRING"} /\ o.shape = PrimitiveShape(type)

LEMMA KindNamed ==
    ASSUME NEW h, NEW o, Formed(h, o)
    PROVE  KindOf(h, o, StorageOf(h, o.shape))
<1> DEFINE type == StorageOf(h, o.shape)
<1>1. \/ type = "SHAPE" /\ o.shape = Nil
      \/ /\ type = "SLOTTED"
         /\ \/ o.shape = PrimitiveShape("SLOTTED") /\ Len(o.links) = AllocatorSlots
            \/ ~IsFixed(o.shape) /\ h[o.shape].shape = Nil /\ o.links = <<>>
      \/ type = "INTEGER" /\ o.shape = PrimitiveShape("INTEGER")
      \/ type = "STRING" /\ o.shape = PrimitiveShape("STRING")
  BY Kinds, Zenon
<1> HIDE DEF type
<1>2. KindOf(h, o, type) BY <1>1 DEF KindOf
<1> QED BY <1>2 DEF type

\* The storage of what is read as a shape.
LEMMA ShapeRead ==
    ASSUME CommitInv, HeapInv, OneInv, FramesInv, NEW a \in Readables,
           NEW l, GoodShape(l), Address(heap, l) = StoredForm(a).shape
    PROVE  LET type == StorageOf(heap, l)
           IN  /\ type \in Readable /\ TypeOf(heap, l) \in {"NIL", "SHAPE"}
               /\ type = "SLOTTED" => SlotCount(heap, l) = Len(StoredForm(a).links)
               /\ Written => type = StorageOf(heap, heap[Original(a)].shape)
               /\ ~Written => l = PrimitiveShape("SLOTTED")
<1>1. GoodRef(l) /\ FormsInv BY DEF GoodRef, GoodShape, CommitInv
<1>2. CASE ~Written
  <2>1. StoredForm(a).shape = PrimitiveShape("SLOTTED") /\ StoredForm(a).links = <<Nil, Nil>>
    BY <1>2 DEF StoredForm, RootForm
  <2>2. l = PrimitiveShape("SLOTTED") BY <1>1, <2>1, RefIs, TypeShapes
  <2>3. StorageOf(heap, l) = "SLOTTED" /\ IsFixed(l) /\ l # Nil
    BY <2>2, FixedStorage, TypeShapes
  <2>4. SlotCount(heap, l) = 2 BY <2>3 DEF SlotCount, AllocatorSlots
  <2>5. Len(<<Nil, Nil>>) = 2 OBVIOUS
  <2> QED BY <1>2, <2>1, <2>2, <2>3, <2>4, <2>5 DEF TypeOf, Readable
<1>3. CASE Written
  <2> DEFINE x == Original(a)
             s == heap[x].shape
             type == StorageOf(heap, s)
  <2>1. x \in Built /\ x \in Programs /\ heap[x].logical = a
    BY ReadableIs, BuiltOwn
  <2>2. StoredForm(a) = Form(x) BY <1>3 DEF StoredForm
  <2>3. Formed(heap, heap[x]) /\ heap[x].links \in Seq(Nat) BY <1>1, <2>1, Sizes DEF FormsInv
  <2>4. Form(x).shape = Address(heap, s) /\ DOMAIN Form(x).links = DOMAIN heap[x].links
    BY DEF Form
  <2>5. s \in LinksOf(heap[x]) BY DEF LinksOf
  <2>6. Len(Form(x).links) = Len(heap[x].links)
    <3>1. Form(x).links \in Seq(Nat) BY <2>2, FormIs
    <3> QED BY <2>3, <2>4, <3>1, SameLength
  <2>7. \/ type = "SHAPE" /\ s = Nil
        \/ /\ type = "SLOTTED"
           /\ \/ s = PrimitiveShape("SLOTTED") /\ Len(heap[x].links) = AllocatorSlots
              \/ ~IsFixed(s) /\ heap[s].shape = Nil /\ heap[x].links = <<>>
        \/ type \in {"INTEGER", "STRING"} /\ s = PrimitiveShape(type)
    <3>1. KindOf(heap, heap[x], type) BY <2>3, KindNamed
    <3> HIDE DEF type, x
    <3> QED BY <3>1 DEF KindOf
  <2>8. type \in Readable BY <2>7 DEF Readable
  <2>9. CASE s \in FixedSpace
    <3>1. Address(heap, l) = s BY <1>1, <2>2, <2>4, <2>9, AddressIs
    <3>2. l = s BY <1>1, <2>9, <3>1, RefIs
    <3>3. IsFixed(s) BY <2>9, FixedIs
    <3>4. TypeOf(heap, l) \in {"NIL", "SHAPE"} BY <3>2, <3>3 DEF TypeOf
    <3>5. type = "SLOTTED" => SlotCount(heap, l) = Len(heap[x].links)
      BY <2>7, <3>2, <3>3 DEF SlotCount
    <3> QED BY <1>3, <2>2, <2>6, <2>8, <3>2, <3>4, <3>5
  <2>10. CASE s \in Built
    <3>1. /\ Address(heap, s) \in Readables /\ Original(Address(heap, s)) = s
      BY <1>3, <2>1, <2>5, <2>10, BuiltRefs
    <3>2. Address(heap, l) = Address(heap, s) /\ Address(heap, s) \notin FixedSpace
      BY <2>2, <2>4, <3>1, ReadableIs
    <3>3. l \in Readers /\ heap[l].logical = Address(heap, s) /\ ~IsStubShape(l)
      <4>1. l \in Readers /\ heap[l].logical = Address(heap, s) BY <1>1, <3>2, RefIs
      <4>2. l \notin FixedSpace BY <4>1, HeapFacts
      <4> QED BY <4>1, <4>2 DEF GoodShape
    <3>4. s \in DOMAIN heap /\ ~IsFixed(s) BY <2>10, HeapFacts DEF Built
    <3>5. /\ type = "SLOTTED" /\ heap[s].shape = Nil /\ heap[x].links = <<>>
      BY <2>7, <3>4, FixedIs, TypeShapes
    <3>6. ~Stale(l)
      <4>1. SUFFICES ASSUME Stale(l) PROVE FALSE OBVIOUS
      <4>2. Address(heap, s) = RootAddress BY <3>3, <4>1, StaleIs
      <4>3. Root \in Built /\ heap[Root].logical = RootAddress
            /\ heap[Root].shape = PrimitiveShape("SLOTTED")
        BY DEF CommitInv, PlacedInv
      <4>4. Root = s BY <3>1, <4>2, <4>3, ReadableIs
      <4> QED BY <3>5, <4>3, <4>4, TypeShapes
    <3>7. Form(l) = Form(s)
      <4>1. Form(l) = StoredForm(heap[l].logical) BY <3>3, <3>6 DEF HeapInv, ReaderOK
      <4> QED BY <1>3, <3>1, <3>3, <4>1 DEF StoredForm
    <3>8. /\ heap[l].data = heap[s].data
          /\ Address(heap, heap[l].shape) = Address(heap, heap[s].shape)
          /\ \A i \in DOMAIN heap[s].links : /\ i \in DOMAIN heap[l].links
               /\ Address(heap, heap[l].links[i]) = Address(heap, heap[s].links[i])
      <4>1. /\ Form(l).data = heap[l].data /\ Form(s).data = heap[s].data
            /\ Form(l).shape = Address(heap, heap[l].shape)
            /\ Form(s).shape = Address(heap, heap[s].shape)
        BY DEF Form
      <4>2. /\ DOMAIN Form(l).links = DOMAIN heap[l].links
            /\ DOMAIN Form(s).links = DOMAIN heap[s].links
            /\ \A i \in DOMAIN heap[l].links : Form(l).links[i] = Address(heap, heap[l].links[i])
            /\ \A i \in DOMAIN heap[s].links : Form(s).links[i] = Address(heap, heap[s].links[i])
        BY DEF Form
      <4> QED BY <3>7, <4>1, <4>2
    <3>9. heap[l].shape = Nil
      <4>1. Address(heap, Nil) = Nil BY <1>1, AddressIs, FixedIs
      <4>2. GoodRef(heap[l].shape) BY <3>3 DEF HeapInv, ReaderOK, GoodShape, GoodRef
      <4> QED BY <3>5, <3>8, <4>1, <4>2, RefIs, FixedIs
    <3>10. ~IsFixed(l) /\ l # Nil /\ s # Nil BY <3>3, <3>4, HeapFacts
    <3>11. StorageOf(heap, l) = type
      BY <3>4, <3>8, <3>10, Zenon DEF StorageOf
    <3>12. TypeOf(heap, l) = "SHAPE" BY <3>9, <3>10, FixedStorage DEF TypeOf
    <3>13. SlotCount(heap, l) = 0
      <4>1. s \in Programs BY <2>10, BuiltOwn
      <4>2. Formed(heap, heap[s]) /\ heap[s].links \in Seq(Nat)
        BY <1>1, <4>1, Sizes DEF FormsInv
      <4>3. StorageOf(heap, heap[s].shape) = "SHAPE" BY <3>5, FixedStorage
      <4>4. Len(heap[s].links) = 3 /\ heap[s].links[2] = Nil BY <4>2, <4>3, Kinds, Zenon
      <4>5. 2 \in DOMAIN heap[s].links BY <4>2, <4>4
      <4>6. 2 \in DOMAIN heap[l].links /\ Address(heap, heap[l].links[2]) = Nil
        BY <1>1, <3>8, <4>4, <4>5, AddressIs, FixedIs
      <4>7. GoodRef(heap[l].links[2]) BY <3>3, <4>6 DEF HeapInv, ReaderOK, Range
      <4>8. heap[l].links[2] = Nil BY <4>6, <4>7, RefIs, FixedIs
      <4> QED BY <3>10, <4>8 DEF SlotCount, TypeOf
    <3>14. Len(heap[x].links) = 0 BY <3>5
    <3> QED BY <1>3, <2>2, <2>6, <2>8, <3>11, <3>12, <3>13, <3>14
  <2> HIDE DEF x
  <2>11. s \in FixedSpace \/ s \in Built BY <1>3, <2>1, <2>5, BuiltRefs
  <2> QED BY <2>9, <2>10, <2>11
<1> QED BY <1>2, <1>3

\* An object of the session is read as a stub if its shape is that of stubs.
LEMMA StubIs ==
    ASSUME CommitInv, HeapInv, OneInv, FramesInv, NEW r \in Readers
    PROVE  IsStub(heap, r) <=> IsStubShape(r)
<1>1. ~IsFixed(r) /\ ReaderOK(r) BY HeapFacts DEF HeapInv
<1>2. CASE IsStubShape(r)
  <2>1. StorageOf(heap, heap[r].shape) = "STUB" BY <1>2, FixedStorage DEF IsStubShape
  <2> QED BY <1>1, <1>2, <2>1 DEF IsStub
<1>3. CASE ~IsStubShape(r)
  <2> DEFINE l == heap[r].shape
             a == heap[r].logical
  <2>1. a \in Readables /\ GoodShape(l) /\ GoodRef(l)
    BY <1>1 DEF ReaderOK, GoodShape, GoodRef
  <2>2. Form(r).shape = Address(heap, l) BY DEF Form
  <2> HIDE DEF l, a
  <2>3. CASE Stale(r)
    <3>1. Form(r) = RootForm BY <1>1, <1>3, <2>3 DEF ReaderOK
    <3>2. Address(heap, l) = PrimitiveShape("SLOTTED") BY <2>2, <3>1 DEF RootForm
    <3>3. l = PrimitiveShape("SLOTTED") BY <2>1, <3>2, RefIs, TypeShapes
    <3>4. StorageOf(heap, l) = "SLOTTED" BY <3>3, FixedStorage
    <3> QED BY <1>3, <3>4 DEF IsStub, l
  <2>4. CASE ~Stale(r)
    <3>1. Form(r) = StoredForm(a) BY <1>1, <1>3, <2>4 DEF ReaderOK, a
    <3>2. Address(heap, l) = StoredForm(a).shape BY <2>2, <3>1
    <3>3. StorageOf(heap, l) \in Readable BY <2>1, <3>2, ShapeRead
    <3> QED BY <1>3, <3>3 DEF IsStub, Readable, l
  <2> QED BY <2>3, <2>4
<1> QED BY <1>2, <1>3

\* The words at an address are the shape's, and then those of what is stored.
LEMMA ShapeStored ==
    ASSUME CommitInv, HeapInv, phase \in {"open", "read", "closed"}, NEW a \in Readables
    PROVE  content[map[a]] = StoredForm(a).shape
<1>1. CASE Written
  <2> DEFINE x == Original(a)
  <2>1. /\ x \in Programs /\ HasWords(x) /\ map[a] = heap[x].physical /\ FormsInv
        /\ StoredForm(a) = Form(x)
    BY <1>1, ReadableIs, BuiltOwn DEF CommitInv, StoredForm
  <2> HIDE DEF x
  <2>2. content[heap[x].physical] = Address(heap, heap[x].shape)
    BY <2>1, WordsRead
  <2> QED BY <2>1, <2>2 DEF Form
<1>2. CASE ~Written
  <2>1. phase = "open" BY <1>2 DEF Written
  <2>2. map[a] = heap[Root].physical BY <2>1, ReadableIs
  <2>3. RootWords(heap[Root].physical) BY <2>1 DEF CommitInv, WordsInv
  <2> QED BY <1>2, <2>2, <2>3 DEF RootWords, StoredForm, RootForm
<1> QED BY <1>1, <1>2

LEMMA FrameRead ==
    ASSUME CommitInv, HeapInv, OneInv, FramesInv, phase \in {"open", "read", "closed"},
           NEW f, f.address \in Readables, f.base = map[f.address],
           GoodShape(f.shape), Address(heap, f.shape) = StoredForm(f.address).shape
    PROVE  LET form == StoredForm(f.address)
           IN  /\ TypeRead(f) \in Readable /\ LinksRead(f) = form.links
               /\ DataAt(content, TypeRead(f), f.base) = form.data
<1> DEFINE a == f.address
           l == f.shape
           form == StoredForm(a)
           type == StorageOf(heap, l)
           slots == IF type = "SLOTTED" THEN SlotCount(heap, l) ELSE 0
<1>1. /\ type \in Readable /\ TypeOf(heap, l) \in {"NIL", "SHAPE"}
      /\ type = "SLOTTED" => SlotCount(heap, l) = Len(form.links)
      /\ Written => type = StorageOf(heap, heap[Original(a)].shape)
      /\ ~Written => l = PrimitiveShape("SLOTTED")
  BY ShapeRead
<1>2. TypeRead(f) = type BY <1>1 DEF TypeRead
<1>3. LinksRead(f) = LinksAt(content, type, f.base, slots) BY <1>2 DEF LinksRead
<1>4. CASE Written
  <2> DEFINE x == Original(a)
  <2>1. /\ x \in Programs /\ HasWords(x) /\ map[a] = heap[x].physical /\ FormsInv
        /\ form = Form(x)
    BY <1>4, ReadableIs, BuiltOwn DEF CommitInv, StoredForm
  <2>2. type = StorageOf(heap, heap[x].shape) BY <1>1, <1>4
  <2> HIDE DEF x
  <2>3. Len(heap[x].links) = Len(form.links)
    <3>1. heap[x].links \in Seq(Nat) BY <2>1, Sizes
    <3>2. form.links \in Seq(Nat) BY FormIs
    <3>3. DOMAIN form.links = DOMAIN heap[x].links BY <2>1 DEF Form
    <3> QED BY <3>1, <3>2, <3>3, SameLength
  <2>4. type = "SLOTTED" => slots = Len(heap[x].links) BY <1>1, <2>3
  <2> HIDE DEF slots, type, form, a
  <2>5. /\ LinksAt(content, type, heap[x].physical, slots) =
              [i \in DOMAIN heap[x].links |-> Address(heap, heap[x].links[i])]
        /\ DataAt(content, type, heap[x].physical) = heap[x].data
    BY <2>1, <2>2, <2>4, WordsRead
  <2>6. f.base = heap[x].physical BY <2>1 DEF a
  <2>7. LinksRead(f) = form.links /\ DataAt(content, TypeRead(f), f.base) = form.data
    BY <1>2, <1>3, <2>1, <2>5, <2>6 DEF Form
  <2> QED BY <1>1, <1>2, <2>7 DEF form, a
<1>5. CASE ~Written
  <2>1. phase = "open" BY <1>5 DEF Written
  <2>2. f.base = heap[Root].physical BY <2>1, ReadableIs
  <2>3. RootWords(f.base) BY <2>1, <2>2 DEF CommitInv, WordsInv
  <2>4. form = RootForm BY <1>5 DEF StoredForm
  <2>5. type = "SLOTTED" BY <1>1, <1>5, FixedStorage
  <2>6. slots = 2 BY <1>1, <2>4, <2>5 DEF RootForm
  <2>7. LinksRead(f) = [i \in 1 .. 2 |-> content[f.base + i]]
    BY <1>3, <2>5, <2>6 DEF LinksAt, SlottedLinksAt
  <2>8. content[f.base + 1] = Nil /\ content[f.base + 2] = Nil BY <2>3 DEF RootWords
  <2>9. [i \in 1 .. 2 |-> content[f.base + i]] = <<Nil, Nil>> BY <2>8
  <2>10. DataAt(content, type, f.base) = <<>> BY <2>5 DEF DataAt
  <2> QED BY <1>1, <1>2, <2>4, <2>7, <2>9, <2>10 DEF RootForm
<1> QED BY <1>4, <1>5

-------------------------------------------------------------------------------
(* What a step of the session that reads leaves alone *)

\* Objects are added, and of those there are only the session's own change,
\* never whose they are and where.
Grows ==
    /\ heap' \in Seq(Objs) /\ Len(heap) <= Len(heap') /\ Len(heap') < FixedMin
    /\ \A r \in DOMAIN heap :
          /\ heap'[r].session = heap[r].session /\ heap'[r].logical = heap[r].logical
          /\ heap'[r].physical = heap[r].physical
          /\ r \notin Readers => heap'[r] = heap[r]
    /\ \A r \in DOMAIN heap' \ DOMAIN heap :
          heap'[r].session = Reader \/ (heap'[r].session = NoSession /\ ~heap'[r].live)

\* What is stored stays, and so does what is known of it.
Steady ==
    /\ OthersChange /\ Built' = Built
    /\ DOMAIN heap \subseteq DOMAIN heap'
    /\ Readers \subseteq Readers' /\ \A r \in DOMAIN heap : r \in Readers' => r \in Readers
    /\ \A l : GoodRef(l) => GoodRef(l)'
    /\ \A l \in FixedSpace \cup DOMAIN heap : Address(heap, l)' = Address(heap, l)
    /\ Readables' = Readables
    /\ \A a \in Readables : StoredForm(a)' = StoredForm(a) /\ Original(a)' = Original(a)

LEMMA FormSame ==
    ASSUME NEW x, \A l \in LinksOf(heap[x]) : Address(heap, l)' = Address(heap, l),
           heap'[x].shape = heap[x].shape, heap'[x].links = heap[x].links,
           heap'[x].data = heap[x].data
    PROVE  Form(x)' = Form(x)
<1>1. /\ heap[x].shape \in LinksOf(heap[x])
      /\ \A i \in DOMAIN heap[x].links : heap[x].links[i] \in LinksOf(heap[x])
  BY DEF LinksOf, Range
<1>3. Address(heap, heap[x].shape)' = Address(heap, heap[x].shape)
  BY <1>1 DEF Address
<1>4. [i \in DOMAIN heap[x].links |-> Address(heap, heap[x].links[i])]' =
        [i \in DOMAIN heap[x].links |-> Address(heap, heap[x].links[i])]
  BY <1>1 DEF Address
<1> QED BY <1>3, <1>4 DEF Form

LEMMA GrowsSteady ==
    ASSUME CommitInv, HeapInv, Grows, UNCHANGED <<map, nil>>, Written' = Written
    PROVE  Steady
<1>1. /\ Len(heap) \in Nat /\ DOMAIN heap = 1 .. Len(heap)
      /\ Len(heap') \in Nat /\ DOMAIN heap' = 1 .. Len(heap')
      /\ \A r \in DOMAIN heap : r \in 1 .. FixedMin - 1
      /\ \A r \in DOMAIN heap' : r \in 1 .. FixedMin - 1
      /\ DOMAIN heap \subseteq DOMAIN heap'
  BY HeapFacts, Constant DEF Grows
<1>2. /\ \A r \in DOMAIN heap :
            /\ heap'[r].session = heap[r].session /\ heap'[r].logical = heap[r].logical
            /\ r \notin Readers => heap'[r] = heap[r]
      /\ \A r \in DOMAIN heap' \ DOMAIN heap :
            heap'[r].session = Reader \/ (heap'[r].session = NoSession /\ ~heap'[r].live)
  BY DEF Grows
<1>3. Programs' = Programs
  <2>1. ASSUME NEW r \in DOMAIN heap' PROVE r \in Programs' <=> r \in Programs
    <3>1. CASE r \in Readers
      BY <1>2, <3>1, Constant DEF Programs, Readers
    <3>2. CASE r \in DOMAIN heap /\ r \notin Readers
      <4>1. heap'[r] = heap[r] BY <1>2, <3>2
      <4> QED BY <2>1, <3>2, <4>1 DEF Programs
    <3>3. CASE r \notin DOMAIN heap
      BY <1>2, <2>1, <3>3, Constant DEF Programs
    <3> QED BY <3>1, <3>2, <3>3
  <2>2. Programs \subseteq DOMAIN heap' /\ Programs' \subseteq DOMAIN heap'
    BY <1>1 DEF Programs
  <2> QED BY <2>1, <2>2
<1>4. \A r \in Programs : r \in DOMAIN heap /\ r \notin Readers /\ heap'[r] = heap[r]
  BY <1>2, HeapFacts DEF Programs
<1>5. OthersChange BY <1>3, <1>4 DEF OthersChange
<1>6. Built' = Built BY <1>5, BuiltSame
<1>7. Readers \subseteq Readers' /\ \A r \in DOMAIN heap : r \in Readers' => r \in Readers
  BY <1>1, <1>2 DEF Readers
<1>8. \A l : GoodRef(l) => GoodRef(l)' BY <1>7 DEF GoodRef
<1>9. \A l \in FixedSpace \cup DOMAIN heap : Address(heap, l)' = Address(heap, l)
  <2>1. \A l \in FixedSpace : Address(heap, l)' = Address(heap, l)
    BY FixedIs DEF Address
  <2>2. \A l \in DOMAIN heap : Address(heap, l)' = Address(heap, l)
    <3> TAKE l \in DOMAIN heap
    <3>1. ~IsFixed(l) /\ l # Nil BY <1>1, FixedIs
    <3> QED BY <1>2, <3>1 DEF Address
  <2> QED BY <2>1, <2>2
<1>10. Readables' = Readables BY DEF Readables
<1>11. ASSUME NEW a \in Readables
       PROVE  StoredForm(a)' = StoredForm(a) /\ Original(a)' = Original(a)
  <2>1. /\ Original(a) \in Built /\ heap[Original(a)].logical = a
        /\ \A o \in Built : heap[o].logical = a => o = Original(a)
    BY <1>11, ReadableIs
  <2>2. \A o \in Built : heap'[o] = heap[o] BY <1>4, BuiltOwn
  <2>3. Original(a)' = Original(a)
    <3>1. \A o \in Built : heap'[o].logical = a <=> heap[o].logical = a BY <2>2
    <3>2. (CHOOSE o \in Built' : heap'[o].logical = a) = (CHOOSE o \in Built : heap[o].logical = a)
      BY <1>6, <3>1
    <3> QED BY <3>2 DEF Original
  <2>4. CASE Written
    <3>0. PICK x \in Built : x = Original(a) BY <2>1
    <3>1. heap'[x] = heap[x] BY <2>2
    <3>2. \A l \in LinksOf(heap[x]) : Address(heap, l)' = Address(heap, l)
      <4>1. \A l \in LinksOf(heap[x]) : l \in FixedSpace \/ l \in Built
        BY <2>4, <3>1, BuiltRefs
      <4> QED BY <1>9, <4>1 DEF Built
    <3>3. /\ heap'[x].shape = heap[x].shape /\ heap'[x].links = heap[x].links
          /\ heap'[x].data = heap[x].data
      BY <3>1
    <3>4. Form(x)' = Form(x)
      BY <3>2, <3>3, FormSame, Zenon
    <3>5. StoredForm(a)' = Form(x)' /\ StoredForm(a) = Form(x)
      BY <2>3, <2>4, <3>0 DEF StoredForm, Form
    <3> QED BY <2>3, <3>4, <3>5
  <2>5. CASE ~Written
    BY <2>3, <2>5 DEF StoredForm, RootForm
  <2> QED BY <2>4, <2>5
<1> QED BY <1>1, <1>5, <1>6, <1>7, <1>8, <1>9, <1>10, <1>11 DEF Steady

\* What is not a stub becomes none.
Shaped == \A r \in Readers : ~IsStubShape(r) => ~IsStubShape(r)'

LEMMA ShapeStays ==
    ASSUME Steady, Shaped, NEW l, GoodShape(l)
    PROVE  GoodShape(l)'
BY DEF Steady, Shaped, GoodShape

LEMMA ReaderSame ==
    ASSUME CommitInv, HeapInv, Steady, Shaped, UNCHANGED map, NEW r \in Readers,
           heap'[r].logical = heap[r].logical, heap'[r].physical = heap[r].physical,
           heap'[r].shape = heap[r].shape, heap'[r].links = heap[r].links,
           heap'[r].data = heap[r].data,
           ~IsStubShape(r) => (Stale(r)' <=> Stale(r))
    PROVE  ReaderOK(r)'
<1>1. ReaderOK(r) BY DEF HeapInv
<1>2. /\ heap[r].logical \in Readables /\ GoodShape(heap[r].shape)
      /\ \A l \in Range(heap[r].links) : GoodRef(l)
  BY <1>1 DEF ReaderOK
<1>3. heap'[r].logical \in Readables' BY <1>2 DEF Steady
<1>4. GoodShape(heap[r].shape)' BY <1>2, ShapeStays DEF GoodShape
<1>5. \A l \in Range(heap[r].links) : GoodRef(l)' BY <1>2 DEF Steady
<1>6. \A l \in LinksOf(heap[r]) : Address(heap, l)' = Address(heap, l)
  <2>1. \A l \in LinksOf(heap[r]) : GoodRef(l) BY <1>2 DEF LinksOf, GoodShape, GoodRef
  <2>2. \A l : GoodRef(l) => l \in FixedSpace \cup DOMAIN heap BY HeapFacts DEF GoodRef
  <2> QED BY <2>1, <2>2 DEF Steady
<1>7. Form(r)' = Form(r) BY <1>6, FormSame
<1>8. StoredForm(heap[r].logical)' = StoredForm(heap[r].logical)
  <2>1. \A a \in Readables : StoredForm(a)' = StoredForm(a) BY DEF Steady
  <2>2. PICK a \in Readables : a = heap[r].logical BY <1>2
  <2>3. StoredForm(a)' = StoredForm(a) BY <2>1
  <2>4. Original(heap[r].logical)' = Original(a)' BY <2>2 DEF Original
  <2>5. StoredForm(heap[r].logical)' = StoredForm(a)'
    BY <2>4 DEF StoredForm, Form, RootForm
  <2> QED BY <2>2, <2>3, <2>5
<1>9. RootForm' = RootForm BY DEF RootForm
<1>10. IsStubShape(r)' = IsStubShape(r) BY DEF IsStubShape
<1> QED BY <1>1, <1>3, <1>4, <1>5, <1>7, <1>8, <1>9, <1>10 DEF ReaderOK

\* Whose a link is does not change.
LEMMA LinkStays ==
    ASSUME Steady
    PROVE  Readers \subseteq Readers' /\ \A l : GoodRef(l) => GoodRef(l)'
BY DEF Steady

\* The objects of the session that reads, when those it has and those it makes
\* are as they should be.
LEMMA HeapSteps ==
    ASSUME CommitInv, HeapInv, Grows, Steady,
           \A r \in Readers' : ReaderOK(r)',
           \A r \in DOMAIN heap' \ DOMAIN heap : r \notin Readers' => FreedOK(r)'
    PROVE  HeapInv'
<1>1. heap' \in Seq(Objs) /\ Len(heap') < FixedMin BY DEF Grows
<1>2. ASSUME NEW r \in DOMAIN heap' \ (Programs' \cup Readers') PROVE FreedOK(r)'
  <2>1. CASE r \in DOMAIN heap
    <3>1. r \notin Programs /\ r \notin Readers
      BY <1>2, LinkStays DEF Steady, OthersChange
    <3>2. heap'[r] = heap[r] /\ FreedOK(r) BY <2>1, <3>1 DEF Grows, HeapInv
    <3>3. \A l : GoodRef(l) => l \in FixedSpace \/ l \in Readers'
      BY LinkStays DEF GoodRef
    <3>4. /\ heap'[r].session = NoSession /\ heap'[r].logical = Unassigned
          /\ heap'[r].physical \in 0 .. MaxWord
          /\ GoodRef(heap[r].shape) /\ \A l \in Range(heap[r].links) : GoodRef(l)
      BY <3>2 DEF FreedOK
    <3>5. /\ heap'[r].shape \in FixedSpace \cup Readers'
          /\ \A l \in Range(heap'[r].links) : l \in FixedSpace \cup Readers'
      BY <3>2, <3>3, <3>4
    <3> QED BY <3>4, <3>5 DEF FreedOK, GoodRef
  <2> QED BY <1>2, <2>1
<1> QED BY <1>1, <1>2 DEF HeapInv

\* What a frame has is as good after a step as before.
LEMMA FrameSame ==
    ASSUME CommitInv, HeapInv, OneInv, Steady, Shaped, UNCHANGED <<map, phase>>,
           NEW f, FrameOK(f),
           f.target # None => read_set'[RootAddress] = read_set[RootAddress]
    PROVE  /\ FrameOK(f)' /\ \A a : Waiting(f, a)' <=> Waiting(f, a)
           /\ Len(StoredForm(f.address).links)' \in Nat
<1> DEFINE form == StoredForm(f.address)
<1>1. /\ f.address \in Readables /\ f.base = map[f.address] /\ f.depth > 0
      /\ f.target # None =>
            /\ Written /\ f.address = RootAddress
            /\ f.target = read_set[RootAddress] /\ ~IsStubShape(f.target)
      /\ f.shape = None => f.links = <<>>
      /\ f.shape # None => GoodShape(f.shape) /\ Address(heap, f.shape) = form.shape
      /\ Len(f.links) <= Len(form.links)
      /\ \A j \in DOMAIN f.links :
            GoodRef(f.links[j]) /\ Address(heap, f.links[j]) = form.links[j]
  BY DEF FrameOK
<1>2. form' = form BY <1>1 DEF Steady
<1>3. f.address \in Readables' /\ Written' = Written BY <1>1 DEF Steady, Written
<1>4. \A l : GoodRef(l) => GoodRef(l)' /\ Address(heap, l)' = Address(heap, l)
  <2>1. \A l : GoodRef(l) => l \in FixedSpace \cup DOMAIN heap BY HeapFacts DEF GoodRef
  <2> QED BY <2>1 DEF Steady
<1>5. \A l : GoodShape(l) => GoodShape(l)' /\ Address(heap, l)' = Address(heap, l)
  BY <1>4, ShapeStays DEF GoodShape, GoodRef
<1>6. f.target # None =>
        f.target = read_set'[RootAddress] /\ ~IsStubShape(f.target)'
  <2>1. SUFFICES ASSUME f.target # None PROVE ~IsStubShape(f.target)' BY <1>1
  <2>2. RootAddress \in 1 .. MaxLogical BY <1>1, <2>1, ReadableIs
  <2>3. f.target \in DOMAIN heap /\ Mine(f.target)
    <3>1. f.target \in 0 .. Len(heap) /\ Mine(f.target)
      BY <1>1, <2>1, <2>2 DEF OneInv, OneObjectEach
    <3> QED BY <2>1, <3>1, HeapFacts DEF None
  <2>4. f.target \in Readers BY <2>3 DEF Mine, Readers
  <2> QED BY <1>1, <2>1, <2>4 DEF Shaped
<1>7. FrameOK(f)'
  BY <1>1, <1>2, <1>3, <1>4, <1>5, <1>6, Zenon DEF FrameOK
<1>8. \A a : Waiting(f, a)' <=> Waiting(f, a) BY <1>2 DEF Waiting
<1>9. Len(form.links)' \in Nat
  <2>1. form.links \in Seq(Nat) BY <1>1, FormIs
  <2>2. form.links' = form.links BY <1>2
  <2> QED BY <2>1, <2>2
<1> QED BY <1>7, <1>8, <1>9

\* A frame that takes the object it waits for.
LEMMA FrameTakes ==
    ASSUME NEW f \in FrameSet, FrameOK(f)', NEW a, Waiting(f, a)',
           NEW ref \in Nat, GoodRef(ref)', Address(heap, ref)' = a,
           f.shape = None => GoodShape(ref)', ref # None,
           Len(StoredForm(f.address).links)' \in Nat
    PROVE  FrameOK(WithRef(f, ref))'
<1> DEFINE g == WithRef(f, ref)
           form == StoredForm(f.address)
<1>0. SUFFICES FrameOK(g)' OBVIOUS
<1>1. /\ g.address = f.address /\ g.base = f.base /\ g.depth = f.depth
      /\ g.target = f.target
  BY DEF WithRef, FrameSet
<1>2. CASE f.shape = None
  <2>1. g.shape = ref /\ g.links = <<>> BY <1>2 DEF WithRef, FrameSet, FrameOK
  <2>2. a = form'.shape BY <1>2 DEF Waiting
  <2>3. Len(<<>>) <= Len(form'.links) BY <1>2 DEF FrameOK
  <2> HIDE DEF g
  <2> QED BY <1>1, <1>2, <2>1, <2>2, <2>3 DEF FrameOK
<1>3. CASE f.shape # None
  <2>1. g.shape = f.shape /\ g.links = Append(f.links, ref) /\ f.links \in Seq(Nat)
    BY <1>3 DEF WithRef, FrameSet
  <2>2. Len(f.links) < Len(form'.links) /\ a = form'.links[Len(f.links) + 1]
    BY <1>3 DEF Waiting
  <2>3. Len(f.links) <= Len(form'.links) /\ GoodShape(f.shape)'
        /\ Address(heap, f.shape)' = form'.shape
        /\ \A j \in DOMAIN f.links :
             GoodRef(f.links[j])' /\ Address(heap, f.links[j])' = form'.links[j]
    BY <1>3 DEF FrameOK
  <2> DEFINE n == Len(f.links)
  <2>4. /\ n \in Nat /\ Len(g.links) = n + 1 /\ DOMAIN g.links = 1 .. n + 1
        /\ DOMAIN f.links = 1 .. n
        /\ g.links[n + 1] = ref /\ \A j \in 1 .. n : g.links[j] = f.links[j]
    BY <2>1
  <2> HIDE DEF g, form
  <2>5. \A j \in DOMAIN g.links :
           GoodRef(g.links[j])' /\ Address(heap, g.links[j])' = form'.links[j]
    <3> TAKE j \in DOMAIN g.links
    <3>1. CASE j = n + 1 BY <2>2, <2>4, <3>1
    <3>2. CASE j \in 1 .. n BY <2>3, <2>4, <3>2
    <3> QED BY <2>4, <3>1, <3>2
  <2>6. Len(g.links) <= Len(form'.links)
    <3>1. Len(form'.links) \in Nat BY DEF form
    <3> QED BY <2>2, <2>4, <3>1
  <2> QED BY <1>1, <1>3, <2>1, <2>3, <2>5, <2>6 DEF FrameOK, form
<1> QED BY <1>2, <1>3

\* The frames after one of them takes an object, when the others are left as
\* they were: all of them, or all but the innermost, which has no target.
Innermost(calls) ==
    /\ calls \in Seq(FrameSet)
    /\ \/ calls = frames
       \/ frames # <<>> /\ calls = Front(frames) /\ Last(frames).target = None

LEMMA CallsAre ==
    ASSUME FramesInv, NEW calls, Innermost(calls)
    PROVE  /\ Len(calls) \in Nat /\ DOMAIN calls = 1 .. Len(calls)
           /\ DOMAIN calls \subseteq DOMAIN frames
           /\ \A i \in DOMAIN calls :
                 calls[i] = frames[i] /\ calls[i] \in FrameSet /\ FrameOK(calls[i])
           /\ \A i \in DOMAIN frames : frames[i].target # None => i \in DOMAIN calls
           /\ calls # <<>> => frames # <<>> /\ 1 \in DOMAIN calls /\ Last(calls) = calls[Len(calls)]
<1>1. frames \in Seq(FrameSet) /\ calls \in Seq(FrameSet) BY DEF FramesInv, Innermost
<1>2. /\ Len(calls) \in Nat /\ DOMAIN calls = 1 .. Len(calls)
      /\ Len(frames) \in Nat /\ DOMAIN frames = 1 .. Len(frames)
      /\ \A i \in DOMAIN calls : calls[i] \in FrameSet
      /\ \A i \in DOMAIN frames : FrameOK(frames[i])
  BY <1>1 DEF FramesInv
<1>3. calls # <<>> => 1 \in DOMAIN calls /\ Last(calls) = calls[Len(calls)]
  BY <1>1, <1>2 DEF Last
<1>4. CASE calls = frames BY <1>2, <1>3, <1>4
<1>5. CASE frames # <<>> /\ calls = Front(frames) /\ Last(frames).target = None
  <2>1. /\ Len(frames) \in Nat \ {0} /\ Last(frames) = frames[Len(frames)]
        /\ Len(calls) = Len(frames) - 1
        /\ \A i \in 1 .. Len(frames) - 1 : calls[i] = frames[i]
    BY <1>1, <1>5, FrontLast
  <2>2. \A i \in DOMAIN calls : i \in DOMAIN frames /\ calls[i] = frames[i] BY <1>2, <2>1
  <2>3. \A i \in DOMAIN frames : i = Len(frames) \/ i \in DOMAIN calls BY <1>2, <2>1
  <2> QED BY <1>2, <1>3, <1>5, <2>1, <2>2, <2>3
<1> QED BY <1>4, <1>5 DEF Innermost

LEMMA TargetsStay ==
    ASSUME FramesInv, NEW calls, Innermost(calls), NEW ref \in Nat,
           frames' = Taken(calls, ref)
    PROVE  \A r : r # None => (Stale(r)' <=> Stale(r))
<1>1. /\ DOMAIN frames' = DOMAIN calls
      /\ \A i \in DOMAIN calls :
            frames'[i] = IF i = Len(calls) THEN WithRef(calls[i], ref) ELSE calls[i]
  BY CallsAre, TakenIs DEF Innermost
<1>2. \A i \in DOMAIN calls : frames'[i].target = frames[i].target
  <2> TAKE i \in DOMAIN calls
  <2>1. calls[i] = frames[i] /\ calls[i] \in FrameSet BY CallsAre
  <2>2. WithRef(calls[i], ref).target = calls[i].target BY <2>1 DEF WithRef, FrameSet
  <2> QED BY <1>1, <2>1, <2>2
<1>3. \A i \in DOMAIN calls : i \in DOMAIN frames BY CallsAre
<1>4. \A i \in DOMAIN frames : frames[i].target # None => i \in DOMAIN calls BY CallsAre
<1> QED BY <1>1, <1>2, <1>3, <1>4 DEF Stale

LEMMA FramesTaken ==
    ASSUME CommitInv, HeapInv, OneInv, FramesInv, Steady, Shaped, UNCHANGED <<map, phase>>,
           NEW calls, Innermost(calls),
           NEW a, calls # <<>> => Waiting(Last(calls), a),
           NEW ref \in Nat \ {0}, GoodRef(ref)', Address(heap, ref)' = a,
           calls # <<>> /\ Last(calls).shape = None => GoodShape(ref)',
           calls # <<>> /\ (frames[1].target # None \/ ~Written) =>
              read_set'[RootAddress] = read_set[RootAddress],
           frames' = Taken(calls, ref)
    PROVE  FramesInv'
<1> DEFINE n == Len(calls)
<1>1. /\ n \in Nat /\ DOMAIN calls = 1 .. n /\ DOMAIN calls \subseteq DOMAIN frames
      /\ \A i \in DOMAIN calls :
            calls[i] = frames[i] /\ calls[i] \in FrameSet /\ FrameOK(calls[i])
      /\ calls # <<>> => frames # <<>> /\ 1 \in DOMAIN calls /\ Last(calls) = calls[n]
  BY CallsAre
<1>2. /\ frames' \in Seq(FrameSet) /\ Len(frames') = n /\ DOMAIN frames' = 1 .. n
      /\ calls = <<>> => frames' = <<>>
      /\ \A i \in 1 .. n :
            frames'[i] = IF i = n THEN WithRef(calls[i], ref) ELSE calls[i]
  BY TakenIs DEF Innermost
<1>3. /\ frames # <<>> => phase \in {"open", "read"}
      /\ frames # <<>> /\ ~Written => Len(frames) = 1 /\ read_set[RootAddress] = None
      /\ \A i \in DOMAIN frames : i > 1 => frames[i].target = None
      /\ \A i \in DOMAIN frames : i > 1 =>
            /\ Waiting(frames[i - 1], frames[i].address)
            /\ frames[1].target # None => frames[i].address # RootAddress
  BY DEF FramesInv
<1>4. Written' = Written BY DEF Written
<1>5. ASSUME frames' # <<>> PROVE calls # <<>> /\ frames # <<>> BY <1>1, <1>2, <1>5
<1>6. ASSUME frames' # <<>>, ~Written' PROVE Len(frames') = 1 /\ read_set'[RootAddress] = None
  <2>1. Len(frames) = 1 /\ read_set'[RootAddress] = None BY <1>3, <1>4, <1>5, <1>6
  <2>2. n = 1
    <3>1. DOMAIN frames = 1 .. 1 BY <2>1 DEF FramesInv
    <3>2. n \in 1 .. n BY <1>1, <1>5, <1>6
    <3> QED BY <1>1, <3>1, <3>2
  <2> QED BY <1>2, <2>1, <2>2
<1>7. ASSUME NEW i \in DOMAIN calls
      PROVE  /\ FrameOK(calls[i])' /\ \A b : Waiting(calls[i], b)' <=> Waiting(calls[i], b)
             /\ Len(StoredForm(calls[i].address).links)' \in Nat
  <2>1. PICK f : f = calls[i] OBVIOUS
  <2>2. FrameOK(f) /\ f \in FrameSet BY <1>1, <2>1
  <2>3. f.target # None => read_set'[RootAddress] = read_set[RootAddress]
    <3>1. SUFFICES ASSUME f.target # None PROVE frames[1].target # None /\ calls # <<>>
      OBVIOUS
    <3>2. i = 1
      BY <1>1, <1>3, <2>1, <3>1
    <3> QED BY <1>1, <2>1, <3>1, <3>2
  <2>4. /\ FrameOK(f)' /\ \A b : Waiting(f, b)' <=> Waiting(f, b)
        /\ Len(StoredForm(f.address).links)' \in Nat
    BY <2>2, <2>3, FrameSame
  <2> QED BY <2>1, <2>4
<1>8. ASSUME NEW i \in 1 .. n PROVE FrameOK(frames[i])'
  <2>1. CASE i # n
    <3>1. FrameOK(calls[i])' /\ frames'[i] = calls[i] BY <1>1, <1>2, <1>7, <2>1
    <3> QED BY <3>1, Zenon DEF FrameOK
  <2>2. CASE i = n
    <3>1. PICK f : f = calls[i] OBVIOUS
    <3>2. calls # <<>> /\ f = Last(calls) BY <1>1, <1>8, <2>2, <3>1
    <3>3. f \in FrameSet /\ FrameOK(f)' /\ Waiting(f, a)'
          /\ Len(StoredForm(f.address).links)' \in Nat
      BY <1>1, <1>7, <3>1, <3>2
    <3>4. FrameOK(WithRef(f, ref))' BY <3>2, <3>3, FrameTakes DEF None
    <3>5. frames'[i] = WithRef(f, ref) BY <1>2, <2>2, <3>1
    <3> QED BY <3>4, <3>5, Zenon DEF FrameOK
  <2> QED BY <2>1, <2>2
<1>9. \A i \in 1 .. n : frames'[i].address = frames[i].address /\ frames'[i].target = frames[i].target
  <2> TAKE i \in 1 .. n
  <2>1. calls[i] \in FrameSet /\ calls[i] = frames[i] BY <1>1
  <2>2. WithRef(calls[i], ref).target = calls[i].target
        /\ WithRef(calls[i], ref).address = calls[i].address
    BY <2>1 DEF WithRef, FrameSet
  <2> QED BY <1>2, <2>1, <2>2
<1>10. ASSUME NEW i \in 1 .. n, i > 1
       PROVE  /\ frames'[i].target = None
              /\ Waiting(frames[i - 1], frames[i].address)'
              /\ frames'[1].target # None => frames'[i].address # RootAddress
  <2>1. i \in DOMAIN frames /\ i - 1 \in 1 .. n /\ i - 1 # n /\ 1 \in 1 .. n
    BY <1>1, <1>10
  <2>2. /\ frames[i].target = None /\ Waiting(frames[i - 1], frames[i].address)
        /\ frames[1].target # None => frames[i].address # RootAddress
    BY <1>3, <1>10, <2>1
  <2>3. PICK f, b : f = calls[i - 1] /\ b = frames[i].address OBVIOUS
  <2>4. Waiting(f, b) BY <1>1, <2>1, <2>2, <2>3
  <2>5. Waiting(f, b)' BY <1>1, <1>7, <2>1, <2>3, <2>4
  <2>6. frames'[i - 1] = f /\ frames'[i].address = b BY <1>2, <1>9, <2>1, <2>3
  <2>7. Waiting(frames[i - 1], frames[i].address)' BY <2>5, <2>6, Zenon DEF Waiting
  <2> QED BY <1>9, <2>1, <2>2, <2>7
<1> HIDE DEF n
<1>11. frames' # <<>> => phase' \in {"open", "read"} BY <1>3, <1>5
<1> QED BY <1>2, <1>6, <1>8, <1>10, <1>11 DEF FramesInv

\* Of the objects of the session only stubs are deallocated.
OnlyStubsGo ==
    \A r \in Readers : /\ Mine(r) => Mine(r)' \/ IsStubShape(r)
                       /\ IsStubShape(r) => IsStubShape(r)'

LEMMA KeptStays ==
    ASSUME OnlyStubsGo
    PROVE  /\ \A l : GoodRef(l) /\ KeptRef(l) => KeptRef(l)'
           /\ \A l : GoodShape(l) /\ Stays(l) => Stays(l)'
<1>1. \A l \in FixedSpace : IsFixed(l) BY FixedIs
<1>2. ASSUME NEW l, GoodRef(l), KeptRef(l) PROVE KeptRef(l)'
  <2>1. CASE l \in FixedSpace BY <1>1, <2>1 DEF KeptRef, Stays
  <2>2. CASE l \in Readers
    <3>1. CASE IsFixed(l) BY <3>1 DEF KeptRef, Stays
    <3>2. CASE ~IsFixed(l)
      <4>1. Mine(l) \/ IsStubShape(l) BY <1>2, <3>2 DEF KeptRef, Stays
      <4>2. Mine(l)' \/ IsStubShape(l)' BY <2>2, <4>1 DEF OnlyStubsGo
      <4> QED BY <4>2 DEF KeptRef, Stays
    <3> QED BY <3>1, <3>2
  <2> QED BY <1>2, <2>1, <2>2 DEF GoodRef
<1>3. ASSUME NEW l, GoodShape(l), Stays(l) PROVE Stays(l)'
  <2>1. CASE l \in FixedSpace BY <1>1, <2>1 DEF Stays
  <2>2. CASE l \in Readers /\ ~IsStubShape(l)
    <3>1. IsFixed(l) \/ Mine(l) BY <1>3 DEF Stays
    <3>2. IsFixed(l) \/ Mine(l)' BY <2>2, <3>1 DEF OnlyStubsGo
    <3> QED BY <3>2 DEF Stays
  <2> QED BY <1>3, <2>1, <2>2 DEF GoodShape
<1> QED BY <1>2, <1>3

\* The graph is what it was.
LEMMA RankedSame ==
    ASSUME OthersChange
    PROVE  /\ Built' = Built /\ (Acyclic' <=> Acyclic)
           /\ \A rank : Ranked(rank)' <=> Ranked(rank)
<1>1. Built' = Built BY BuiltSame
<1>2. \A o \in Built : heap'[o] = heap[o] BY BuiltOwn DEF OthersChange
<1>3. \A rank : Ranked(rank)' <=> Ranked(rank) BY <1>1, <1>2 DEF Ranked
<1>4. Acyclic' <=> Acyclic BY <1>1, <1>2 DEF Acyclic
<1> QED BY <1>1, <1>3, <1>4

\* Objects that keep what they refer to, and those that change.
LEMMA ObjectsStay ==
    ASSUME HeapInv, OnlyStubsGo, ObjectsDown,
           \A r \in Readers' : Mine(r)' =>
              \/ /\ r \in Readers /\ Mine(r)
                 /\ heap'[r].shape = heap[r].shape /\ heap'[r].links = heap[r].links
              \/ Stays(heap[r].shape)' /\ \A l \in Range(heap[r].links)' : KeptRef(l)'
    PROVE  ObjectsDown'
<1>1. SUFFICES ASSUME NEW r \in Readers', Mine(r)'
               PROVE  Stays(heap[r].shape)' /\ \A l \in Range(heap[r].links)' : KeptRef(l)'
  BY DEF ObjectsDown
<1>2. CASE /\ r \in Readers /\ Mine(r)
           /\ heap'[r].shape = heap[r].shape /\ heap'[r].links = heap[r].links
  <2>1. /\ Stays(heap[r].shape) /\ GoodShape(heap[r].shape)
        /\ \A l \in Range(heap[r].links) : KeptRef(l) /\ GoodRef(l)
    BY <1>2 DEF ObjectsDown, HeapInv, ReaderOK
  <2>2. PICK s : s = heap[r].shape OBVIOUS
  <2>3. Stays(s)' BY <2>1, <2>2, KeptStays
  <2>4. Stays(heap[r].shape)' BY <1>2, <2>2, <2>3, Zenon DEF Stays, Mine
  <2>5. \A l \in Range(heap[r].links) : KeptRef(l)' BY <2>1, KeptStays
  <2>6. Range(heap[r].links)' = Range(heap[r].links) BY <1>2 DEF Range
  <2> QED BY <2>4, <2>5, <2>6
<1> QED BY <1>1, <1>2

LEMMA DownTaken ==
    ASSUME CommitInv, HeapInv, OneInv, FramesInv, DownInv, Steady, UNCHANGED phase,
           NEW calls, Innermost(calls), NEW ref \in Nat \ {0}, frames' = Taken(calls, ref),
           phase = "read" /\ Acyclic =>
              /\ OnlyStubsGo /\ ObjectsDown'
              /\ calls # <<>> => KeptRef(ref)' /\ (Last(calls).shape = None => Stays(ref)')
              /\ \A i \in DOMAIN calls :
                    calls[i].target = None /\ ~Resolved(calls[i].address)
                       => ~Resolved(calls[i].address)'
    PROVE  DownInv'
<1> DEFINE n == Len(calls)
<1>1. /\ n \in Nat /\ DOMAIN calls = 1 .. n /\ DOMAIN calls \subseteq DOMAIN frames
      /\ \A i \in DOMAIN calls :
            calls[i] = frames[i] /\ calls[i] \in FrameSet /\ FrameOK(calls[i])
      /\ calls # <<>> => Last(calls) = calls[n]
  BY CallsAre
<1>2. /\ DOMAIN frames' = 1 .. n
      /\ \A i \in 1 .. n :
            frames'[i] = IF i = n THEN WithRef(calls[i], ref) ELSE calls[i]
  BY TakenIs DEF Innermost
<1>3. /\ Built' = Built /\ (Acyclic' <=> Acyclic)
      /\ \A rank : Ranked(rank)' <=> Ranked(rank)
  BY RankedSame DEF Steady
<1>4. SUFFICES ASSUME phase = "read", Acyclic
               PROVE  ObjectsDown' /\ (\A i \in DOMAIN frames' : FrameDown(frames[i])') /\ RanksDown'
  BY <1>3 DEF DownInv
<1>5. /\ (\A i \in DOMAIN frames : FrameDown(frames[i])) /\ RanksDown
      /\ OnlyStubsGo /\ ObjectsDown'
      /\ calls # <<>> => KeptRef(ref)' /\ (Last(calls).shape = None => Stays(ref)')
      /\ \A i \in DOMAIN calls :
            calls[i].target = None /\ ~Resolved(calls[i].address)
               => ~Resolved(calls[i].address)'
  BY <1>4 DEF DownInv
<1>6. ASSUME NEW i \in 1 .. n PROVE FrameDown(calls[i])'
  <2>1. PICK f : f = calls[i] OBVIOUS
  <2>2. f \in FrameSet /\ FrameOK(f) /\ FrameDown(f) BY <1>1, <1>5, <2>1
  <2>3. /\ f.shape # None => Stays(f.shape) /\ GoodShape(f.shape)
        /\ \A l \in Range(f.links) : KeptRef(l) /\ GoodRef(l)
        /\ f.target = None => ~Resolved(f.address)
    BY <2>2 DEF FrameDown, FrameOK, Range
  <2>4. f.target = None => ~Resolved(f.address)' BY <1>1, <1>5, <2>1, <2>3
  <2>5. FrameDown(f)' BY <1>5, <2>3, <2>4, KeptStays DEF FrameDown
  <2> QED BY <2>1, <2>5
<1>7. ASSUME NEW i \in 1 .. n PROVE FrameDown(frames[i])'
  <2>1. CASE i # n
    <3>1. FrameDown(calls[i])' /\ frames'[i] = calls[i] BY <1>1, <1>2, <1>6, <2>1
    <3> QED BY <3>1, Zenon DEF FrameDown
  <2>2. CASE i = n
    <3>1. PICK f : f = calls[i] OBVIOUS
    <3>2. calls # <<>> /\ f = Last(calls) BY <1>1, <1>7, <2>2, <3>1
    <3>3. f \in FrameSet /\ FrameDown(f)' BY <1>1, <1>6, <3>1
    <3>4. KeptRef(ref)' /\ (f.shape = None => Stays(ref)') BY <1>5, <3>2
    <3> DEFINE g == WithRef(f, ref)
    <3>5. g.target = f.target /\ g.address = f.address BY <3>3 DEF WithRef, FrameSet
    <3>6. /\ g.shape # None => Stays(g.shape)'
          /\ \A l \in Range(g.links) : KeptRef(l)'
      <4>1. CASE f.shape = None
        <5>1. g.shape = ref /\ g.links = f.links BY <3>3, <4>1 DEF WithRef, FrameSet
        <5> HIDE DEF g
        <5> QED BY <3>3, <3>4, <4>1, <5>1 DEF FrameDown
      <4>2. CASE f.shape # None
        <5>1. g.shape = f.shape /\ g.links = Append(f.links, ref) /\ f.links \in Seq(Nat)
          BY <3>3, <4>2 DEF WithRef, FrameSet
        <5> HIDE DEF g
        <5>2. \A l \in Range(g.links) : l = ref \/ l \in Range(f.links)
          BY <5>1 DEF Range
        <5> QED BY <3>3, <3>4, <4>2, <5>1, <5>2 DEF FrameDown
      <4> QED BY <4>1, <4>2
    <3>7. g.target = None => ~Resolved(g.address)' BY <3>3, <3>5 DEF FrameDown
    <3> HIDE DEF g
    <3>8. FrameDown(g)' BY <3>6, <3>7 DEF FrameDown
    <3>9. frames'[i] = g BY <1>2, <2>2, <3>1 DEF g
    <3> QED BY <3>8, <3>9, Zenon DEF FrameDown
  <2> QED BY <2>1, <2>2
<1>8. \A i \in 1 .. n : /\ i \in DOMAIN frames /\ frames'[i].address = frames[i].address
                        /\ frames[i].address \in Readables
  <2> TAKE i \in 1 .. n
  <2>1. calls[i] \in FrameSet /\ calls[i] = frames[i] /\ FrameOK(calls[i]) BY <1>1
  <2>2. WithRef(calls[i], ref).address = calls[i].address BY <2>1 DEF WithRef, FrameSet
  <2>3. frames[i].address \in Readables BY <2>1 DEF FrameOK
  <2> QED BY <1>1, <1>2, <2>1, <2>2, <2>3
<1>9. RanksDown'
  <2>1. \A i \in 1 .. n : Original(frames[i].address)' = Original(frames[i].address)
    <3> TAKE i \in 1 .. n
    <3>1. PICK b \in Readables : b = frames[i].address BY <1>8
    <3>2. Original(b)' = Original(b) /\ frames'[i].address = b BY <1>8, <3>1 DEF Steady
    <3> QED BY <3>1, <3>2 DEF Original
  <2>2. [Built -> 1 .. Cardinality(Built)]' = [Built -> 1 .. Cardinality(Built)]
    BY <1>3
  <2>3. SUFFICES ASSUME NEW rank \in [Built -> 1 .. Cardinality(Built)], Ranked(rank),
                        NEW i \in 1 .. n, NEW j \in 1 .. n, i < j
                 PROVE  rank[Original(frames[j].address)'] < rank[Original(frames[i].address)']
    BY <1>2, <1>3, <2>2 DEF RanksDown
  <2>4. rank[Original(frames[j].address)] < rank[Original(frames[i].address)]
    BY <1>5, <1>8, <2>3 DEF RanksDown
  <2> QED BY <2>1, <2>4
<1> QED BY <1>2, <1>5, <1>7, <1>9

-------------------------------------------------------------------------------
(* Steps of the session that reads *)

\* What no call of it changes.
Still == UNCHANGED <<stub_depth, store, nil, write_set, phase, stack>>

LEMMA StillIs ==
    ASSUME Still
    PROVE  UNCHANGED <<stub_depth, content, map, nil, phase>> /\ Written' = Written
BY DEF Still, store, Written

LEMMA Quiet ==
    ASSUME CommitInv, HeapInv, Still, UNCHANGED heap
    PROVE  Grows /\ Steady /\ Shaped /\ OnlyStubsGo /\ Readers' = Readers
<1>1. Readers' = Readers /\ Shaped /\ OnlyStubsGo
  BY DEF Readers, Shaped, OnlyStubsGo, IsStubShape, Mine
<1>2. Grows BY DEF Grows, HeapInv
<1>3. Steady BY <1>2, StillIs, GrowsSteady
<1> QED BY <1>1, <1>2, <1>3

\* An object is there already, or in fixed space.
LEMMA AnswerStep ==
    ASSUME CommitInv, ReadInv, Still, NEW ref \in Nat \ {0}, Answer(ref), GoodRef(ref),
           frames # <<>> => Waiting(Last(frames), Address(heap, ref)),
           frames # <<>> /\ Last(frames).shape = None => GoodShape(ref),
           phase = "read" /\ Acyclic => Stays(ref)
    PROVE  ReadInv' /\ OthersChange
<1>1. /\ HeapInv /\ OneInv /\ FramesInv /\ DownInv
      /\ frames' = Taken(frames, ref) /\ UNCHANGED <<heap, nil, read_set>>
  BY DEF ReadInv, Answer
<1>2. Grows /\ Steady /\ Shaped /\ OnlyStubsGo /\ Readers' = Readers BY <1>1, Quiet
<1>3. PICK calls : calls = frames OBVIOUS
<1>4. Innermost(calls) /\ frames' = Taken(calls, ref)
  BY <1>1, <1>3 DEF Innermost, FramesInv
<1>5. \A r : r # None => (Stale(r)' <=> Stale(r)) BY <1>1, <1>4, TargetsStay
<1>6. UNCHANGED <<map, phase>> /\ Written' = Written /\ UNCHANGED stub_depth BY StillIs
<1>7. HeapInv'
  <2>1. \A r \in Readers : ReaderOK(r)'
    BY <1>1, <1>2, <1>5, <1>6, HeapFacts, ReaderSame
  <2> QED BY <1>1, <1>2, <2>1, HeapSteps
<1>8. OneInv'
  BY <1>1, <1>2, <1>6 DEF OneInv, OneObjectEach, Mine, IsStubShape
<1>9. PICK a : a = Address(heap, ref) OBVIOUS
<1>10. FramesInv'
  <2>1. GoodRef(ref)' /\ Address(heap, ref)' = a
    <3>1. ref \in FixedSpace \cup DOMAIN heap BY <1>1, HeapFacts DEF GoodRef
    <3> QED BY <1>2, <1>9, <3>1 DEF Steady
  <2>2. calls # <<>> => Waiting(Last(calls), a) BY <1>3, <1>9
  <2>3. calls # <<>> /\ Last(calls).shape = None => GoodShape(ref)'
    BY <1>2, <1>3, ShapeStays
  <2> QED BY <1>1, <1>2, <1>4, <1>6, <2>1, <2>2, <2>3, FramesTaken
<1>11. DownInv'
  <2>1. ASSUME phase = "read", Acyclic
        PROVE  /\ OnlyStubsGo /\ ObjectsDown'
               /\ calls # <<>> => KeptRef(ref)' /\ (Last(calls).shape = None => Stays(ref)')
               /\ \A i \in DOMAIN calls :
                     calls[i].target = None /\ ~Resolved(calls[i].address)
                        => ~Resolved(calls[i].address)'
    <3>1. Stays(ref)' /\ KeptRef(ref)' BY <1>1, <2>1 DEF Stays, KeptRef, Mine
    <3>2. ObjectsDown BY <1>1, <2>1 DEF DownInv
    <3>3. ObjectsDown' BY <1>1, <1>2, <3>2 DEF ObjectsDown, Stays, KeptRef, Mine, IsStubShape
    <3>4. \A b : Resolved(b)' <=> Resolved(b) BY <1>1 DEF Resolved, IsStubShape
    <3> QED BY <1>2, <3>1, <3>3, <3>4
  <2> QED BY <1>1, <1>2, <1>4, <1>6, <2>1, DownTaken
<1> QED BY <1>2, <1>7, <1>8, <1>10, <1>11 DEF ReadInv, Steady

\* An object that the session has at an address and refers to.
LEMMA OldIs ==
    ASSUME CommitInv, HeapInv, OneInv, NEW a \in Readables
    PROVE  /\ a \in DOMAIN read_set /\ read_set[a] \in 0 .. Len(heap) /\ read_set[a] # Nil
           /\ read_set[a] # None =>
                /\ read_set[a] \in Readers /\ read_set[a] \in DOMAIN heap
                /\ Mine(read_set[a]) /\ heap[read_set[a]].logical = a
<1>1. a \in DOMAIN read_set /\ read_set[a] \in 0 .. Len(heap)
  BY ReadableIs DEF OneInv
<1>2. read_set[a] # None => read_set[a] \in DOMAIN heap
  BY <1>1, HeapFacts DEF None
<1>3. read_set[a] # None => Mine(read_set[a]) /\ heap[read_set[a]].logical = a
  BY <1>1 DEF OneInv, OneObjectEach
<1>4. read_set[a] # Nil
  BY <1>2, HeapFacts, Constant DEF None, Nil, NilAddr
<1> QED BY <1>1, <1>2, <1>3, <1>4 DEF Mine, Readers

\* A new object takes the place of what had the address.
Inserts(a, new) ==
    /\ heap' = Append(Released(read_set[a]), new)
    /\ read_set' = [read_set EXCEPT ![a] = Len(heap) + 1]

LEMMA InsertedIs ==
    ASSUME CommitInv, HeapInv, OneInv, NEW a \in Readables, NEW new \in Objs,
           new.session = Reader, RoomOnHeap, Inserts(a, new), Still
    PROVE  LET n == Len(heap) + 1
           IN  /\ n \in Nat \ {0} /\ n < FixedMin /\ n \notin DOMAIN heap
               /\ DOMAIN heap' = DOMAIN heap \cup {n} /\ Readers' = Readers \cup {n}
               /\ heap'[n] = new
               /\ \A r \in DOMAIN heap :
                     /\ heap'[r].session = heap[r].session /\ heap'[r].logical = heap[r].logical
                     /\ heap'[r].physical = heap[r].physical /\ heap'[r].shape = heap[r].shape
                     /\ heap'[r].links = heap[r].links /\ heap'[r].data = heap[r].data
                     /\ heap'[r].live = (heap[r].live /\ r # read_set[a])
                     /\ IsStubShape(r)' <=> IsStubShape(r)
               /\ Grows /\ Steady /\ Shaped
<1> DEFINE n == Len(heap) + 1
           old == read_set[a]
<1>1. /\ Len(heap) \in Nat /\ DOMAIN heap = 1 .. Len(heap) /\ heap \in Seq(Objs)
      /\ old \in 0 .. Len(heap) /\ old # Nil
      /\ old # None => old \in Readers /\ old \in DOMAIN heap
      /\ a \in DOMAIN read_set
  BY HeapFacts, OldIs DEF HeapInv
<1>2. n \in Nat \ {0} /\ n < FixedMin /\ n \notin DOMAIN heap BY <1>1, Constant DEF RoomOnHeap
<1> HIDE DEF old
<1>3. /\ Released(old) \in Seq(Objs) /\ Len(Released(old)) = Len(heap)
      /\ \A r \in DOMAIN heap :
            Released(old)[r] = IF r = old THEN [heap[r] EXCEPT !.live = FALSE] ELSE heap[r]
  <2>1. CASE old = None BY <1>1, <2>1 DEF Released, None
  <2>2. CASE old # None
    <3>1. Released(old) = [heap EXCEPT ![old].live = FALSE] BY <1>1, <2>2 DEF Released
    <3>2. heap[old] \in Objs BY <1>1, <2>2
    <3>3. [heap[old] EXCEPT !.live = FALSE] \in Objs BY <3>2 DEF Objs
    <3>4. Released(old) = [r \in 1 .. Len(heap) |->
             IF r = old THEN [heap[old] EXCEPT !.live = FALSE] ELSE heap[r]]
      BY <1>1, <3>1
    <3> DEFINE k == Len(heap)
    <3>5. \A r \in 1 .. k : heap[r] \in Objs BY <1>1
    <3> HIDE DEF k
    <3>6. Released(old) \in [1 .. k -> Objs] BY <3>3, <3>4, <3>5 DEF k
    <3>7. Released(old) \in Seq(Objs) /\ Len(Released(old)) = k
      BY <1>1, <3>6, SeqDef DEF k
    <3>8. \A r \in 1 .. k :
             Released(old)[r] = IF r = old THEN [heap[r] EXCEPT !.live = FALSE] ELSE heap[r]
      BY <3>4 DEF k
    <3> QED BY <1>1, <3>7, <3>8 DEF k
  <2> QED BY <2>1, <2>2
<1>4. heap' = Append(Released(old), new) BY DEF Inserts, old
<1>5. /\ heap' \in Seq(Objs) /\ Len(heap') = n /\ DOMAIN heap' = 1 .. n
      /\ heap'[n] = new
      /\ \A r \in DOMAIN heap :
            heap'[r] = IF r = old THEN [heap[r] EXCEPT !.live = FALSE] ELSE heap[r]
  BY <1>1, <1>3, <1>4
<1>6. DOMAIN heap' = DOMAIN heap \cup {n} BY <1>1, <1>5
<1>7. \A r \in DOMAIN heap :
         /\ heap'[r].session = heap[r].session /\ heap'[r].logical = heap[r].logical
         /\ heap'[r].physical = heap[r].physical /\ heap'[r].shape = heap[r].shape
         /\ heap'[r].links = heap[r].links /\ heap'[r].data = heap[r].data
         /\ heap'[r].live = (heap[r].live /\ r # old)
         /\ r # old => heap'[r] = heap[r]
  <2> TAKE r \in DOMAIN heap
  <2>1. heap[r] \in Objs BY <1>1
  <2> QED BY <1>5, <2>1 DEF Objs
<1>8. Readers' = Readers \cup {n}
  BY <1>5, <1>6, <1>7 DEF Readers
<1>9. \A r \in DOMAIN heap : IsStubShape(r)' <=> IsStubShape(r) BY <1>7 DEF IsStubShape
<1>10. Shaped BY <1>9, HeapFacts DEF Shaped
<1>11. Grows
  <2>1. \A r \in DOMAIN heap : r \notin Readers => heap'[r] = heap[r]
    <3> TAKE r \in DOMAIN heap
    <3>1. r = old => r \in Readers BY <1>1, HeapFacts
    <3> QED BY <1>7, <3>1
  <2>2. Len(heap) <= Len(heap') BY <1>1, <1>5
  <2>3. \A r \in DOMAIN heap' \ DOMAIN heap : heap'[r].session = Reader BY <1>5, <1>6
  <2>4. /\ heap' \in Seq(Objs) /\ Len(heap') < FixedMin BY <1>2, <1>5
  <2> QED BY <1>7, <2>1, <2>2, <2>3, <2>4 DEF Grows
<1>12. Steady BY <1>11, StillIs, GrowsSteady
<1> QED BY <1>2, <1>5, <1>6, <1>7, <1>8, <1>9, <1>10, <1>11, <1>12 DEF old

\* What is stored, of an object that is about to be made.
FormOf(o) ==
    [shape |-> Address(heap, o.shape),
     links |-> [i \in DOMAIN o.links |-> Address(heap, o.links[i])],
     data  |-> o.data]

\* A stub, or an object that was read, is inserted, and a frame may take it.
LEMMA InsertStep ==
    ASSUME CommitInv, ReadInv, Still, RoomOnHeap, NEW a \in Readables, NEW new \in Objs,
           new.live, new.session = Reader, new.logical = a, Inserts(a, new),
           NEW calls, Innermost(calls), frames' = Taken(calls, Len(heap) + 1),
           calls # <<>> => Waiting(Last(calls), a),
           calls # <<>> /\ frames[1].target # None => a # RootAddress,
           GoodShape(new.shape), \A l \in Range(new.links) : GoodRef(l),
           \/ /\ new.shape = PrimitiveShape("STUB") /\ new.links = <<>> /\ new.data = <<a>>
              /\ new.physical = Unassigned /\ Written
              /\ calls # <<>> => Last(calls).shape # None
           \/ /\ new.shape # PrimitiveShape("STUB") /\ new.physical = map[a]
              /\ FormOf(new) = StoredForm(a)
              /\ \A i \in DOMAIN calls : phase = "read" /\ Acyclic =>
                    (calls[i].target = None => calls[i].address # a),
           ~Written => calls = <<>> /\ read_set[a] = None,
           phase = "read" /\ Acyclic =>
              ~Resolved(a) /\ Stays(new.shape) /\ \A l \in Range(new.links) : KeptRef(l)
    PROVE  ReadInv' /\ OthersChange
<1>0. PICK n, old : n = Len(heap) + 1 /\ old = read_set[a] OBVIOUS
<1>1. HeapInv /\ OneInv /\ FramesInv /\ DownInv BY DEF ReadInv
<1>2. /\ n \in Nat \ {0} /\ n < FixedMin /\ n \notin DOMAIN heap
      /\ DOMAIN heap' = DOMAIN heap \cup {n} /\ Readers' = Readers \cup {n}
      /\ heap'[n] = new
      /\ \A r \in DOMAIN heap :
            /\ heap'[r].session = heap[r].session /\ heap'[r].logical = heap[r].logical
            /\ heap'[r].physical = heap[r].physical /\ heap'[r].shape = heap[r].shape
            /\ heap'[r].links = heap[r].links /\ heap'[r].data = heap[r].data
            /\ heap'[r].live = (heap[r].live /\ r # old)
            /\ IsStubShape(r)' <=> IsStubShape(r)
      /\ Grows /\ Steady /\ Shaped
  <2>1. LET m == Len(heap) + 1
        IN  /\ m \in Nat \ {0} /\ m < FixedMin /\ m \notin DOMAIN heap
            /\ DOMAIN heap' = DOMAIN heap \cup {m} /\ Readers' = Readers \cup {m}
            /\ heap'[m] = new
            /\ \A r \in DOMAIN heap :
                  /\ heap'[r].session = heap[r].session /\ heap'[r].logical = heap[r].logical
                  /\ heap'[r].physical = heap[r].physical /\ heap'[r].shape = heap[r].shape
                  /\ heap'[r].links = heap[r].links /\ heap'[r].data = heap[r].data
                  /\ heap'[r].live = (heap[r].live /\ r # read_set[a])
                  /\ IsStubShape(r)' <=> IsStubShape(r)
            /\ Grows /\ Steady /\ Shaped
    BY <1>1, InsertedIs
  <2> QED BY <1>0, <2>1
<1>3. /\ a \in DOMAIN read_set /\ old \in 0 .. Len(heap)
      /\ old # None => old \in Readers /\ old \in DOMAIN heap /\ Mine(old) /\ heap[old].logical = a
      /\ Len(heap) \in Nat /\ DOMAIN heap = 1 .. Len(heap)
      /\ \A r \in Readers : r \in DOMAIN heap /\ r # None
  BY <1>0, <1>1, OldIs, HeapFacts
<1>4. /\ read_set' = [read_set EXCEPT ![a] = n]
      /\ UNCHANGED <<stub_depth, map, nil, phase>> /\ Written' = Written
  BY <1>0, StillIs DEF Inserts
<1>5. read_set'[a] = n /\ \A b \in DOMAIN read_set : b # a => read_set'[b] = read_set[b]
  BY <1>3, <1>4
<1>6. n \in Nat \ {0} /\ frames' = Taken(calls, n) BY <1>0, <1>2
<1>7. \A r : r # None => (Stale(r)' <=> Stale(r))
  BY <1>1, <1>6, TargetsStay
<1>8. ~Stale(n)' /\ n # None
  <2>1. n # None BY <1>2 DEF None
  <2>2. ASSUME Stale(n) PROVE FALSE
    <3>1. PICK i \in DOMAIN frames : frames[i].target = n BY <2>2 DEF Stale
    <3>2. FrameOK(frames[i]) BY <1>1 DEF FramesInv
    <3>3. n = read_set[RootAddress] /\ RootAddress \in Readables
      BY <2>1, <3>1, <3>2 DEF FrameOK
    <3>4. n \in 0 .. Len(heap) BY <1>1, <3>3, OldIs
    <3> QED BY <1>2, <1>3, <2>1, <3>4 DEF None
  <2> QED BY <1>7, <2>1, <2>2
<1>9. \A l : GoodRef(l) => GoodRef(l)' /\ Address(heap, l)' = Address(heap, l)
  <2>1. \A l : GoodRef(l) => l \in FixedSpace \cup DOMAIN heap BY <1>1, HeapFacts DEF GoodRef
  <2> QED BY <1>2, <2>1 DEF Steady
<1>10. ReaderOK(n)'
  <2>1. a \in Readables' BY <1>2 DEF Steady
  <2>2. GoodShape(new.shape)' /\ \A l \in Range(new.links) : GoodRef(l)'
    BY <1>2, <1>9, ShapeStays
  <2>3. IsStubShape(n)' <=> new.shape = PrimitiveShape("STUB") BY <1>2 DEF IsStubShape
  <2>4. GoodRef(new.shape) BY DEF GoodShape, GoodRef
  <2>5. Form(n)' = FormOf(new)
    <3>1. Address(heap, new.shape)' = Address(heap, new.shape) BY <1>9, <2>4
    <3>2. \A i \in DOMAIN new.links :
             Address(heap, new.links[i])' = Address(heap, new.links[i])
      BY <1>9 DEF Range
    <3>3. [i \in DOMAIN new.links |-> Address(heap, new.links[i])]' =
             [i \in DOMAIN new.links |-> Address(heap, new.links[i])]
      BY <3>2
    <3> QED BY <1>2, <3>1, <3>3 DEF Form, FormOf
  <2>6. StoredForm(a)' = StoredForm(a) BY <1>2 DEF Steady
  <2>7. /\ GoodShape(heap[n].shape)' /\ heap'[n].logical = a
        /\ \A l \in Range(heap[n].links)' : GoodRef(l)'
    <3>1. heap'[n] = new BY <1>2
    <3>2. GoodShape(heap[n].shape)' BY <2>2, <3>1 DEF GoodShape, IsStubShape
    <3>3. \A l \in Range(heap[n].links)' : GoodRef(l)' BY <2>2, <3>1 DEF Range
    <3> QED BY <3>1, <3>2, <3>3
  <2>8. CASE IsStubShape(n)'
    <3>1. /\ heap'[n].links = <<>> /\ heap'[n].data = <<a>> /\ heap'[n].physical = Unassigned
      BY <1>2, <2>3, <2>8
    <3> QED BY <2>1, <2>7, <2>8, <3>1 DEF ReaderOK
  <2>9. CASE ~IsStubShape(n)'
    <3>1. heap'[n].physical = map'[a] /\ Form(n)' = StoredForm(a)'
      BY <1>2, <1>4, <2>3, <2>5, <2>6, <2>9
    <3>2. StoredForm(heap[n].logical)' = StoredForm(a)'
      BY <2>7 DEF StoredForm, Form, Original
    <3> QED BY <1>8, <2>1, <2>7, <2>9, <3>1, <3>2 DEF ReaderOK
  <2> QED BY <2>8, <2>9
<1>11. HeapInv'
  <2>1. ASSUME NEW r \in Readers PROVE ReaderOK(r)'
    <3>1. r \in DOMAIN heap /\ r # None BY <1>3
    <3>2. Stale(r)' <=> Stale(r) BY <1>7, <3>1
    <3> QED BY <1>1, <1>2, <1>4, <3>1, <3>2, ReaderSame
  <2>2. \A r \in Readers' : ReaderOK(r)' BY <1>2, <1>10, <2>1
  <2>3. \A r \in DOMAIN heap' \ DOMAIN heap : r \in Readers' BY <1>2
  <2> QED BY <1>1, <1>2, <2>2, <2>3, HeapSteps
<1>12. Mine(n)' /\ \A r \in DOMAIN heap : Mine(r)' <=> (Mine(r) /\ r # old)
  BY <1>2 DEF Mine
<1>13. OneInv'
  <2>1. stub_depth' \in StubDepths BY <1>1, <1>4 DEF OneInv
  <2>2. read_set' \in [1 .. MaxLogical -> 0 .. Len(heap')]
    <3>1. Len(heap') = n
      <4>1. heap' \in Seq(Objs) /\ n \in Nat /\ DOMAIN heap' = 1 .. n
        BY <1>2 DEF Grows
      <4> QED BY <4>1
    <3>2. read_set \in [1 .. MaxLogical -> 0 .. Len(heap)] BY <1>1 DEF OneInv
    <3>3. n \in 0 .. n /\ 0 .. Len(heap) \subseteq 0 .. n BY <1>0, <1>3
    <3> QED BY <1>4, <3>1, <3>2, <3>3
  <2>3. ASSUME NEW r \in DOMAIN heap', Mine(r)' PROVE read_set'[heap'[r].logical] = r
    <3>1. CASE r = n BY <1>2, <1>5, <3>1
    <3>2. CASE r \in DOMAIN heap
      <4>1. Mine(r) /\ r # old /\ heap'[r].logical = heap[r].logical BY <1>2, <1>12, <2>3, <3>2
      <4>2. read_set[heap[r].logical] = r BY <1>1, <3>2, <4>1 DEF OneInv, OneObjectEach
      <4>3. heap[r].logical # a BY <1>0, <4>1, <4>2
      <4>4. r \in Readers BY <3>2, <4>1 DEF Mine, Readers
      <4>5. heap[r].logical \in DOMAIN read_set
        BY <1>1, <4>4, OldIs DEF HeapInv, ReaderOK
      <4> QED BY <1>5, <4>1, <4>2, <4>3, <4>5
    <3> QED BY <1>2, <3>1, <3>2
  <2>4. ASSUME NEW b \in DOMAIN read_set', read_set'[b] # None
        PROVE  Mine(read_set[b])' /\ heap'[read_set'[b]].logical = b
    <3>1. CASE b = a
      <4>1. read_set'[b] = n BY <1>5, <3>1
      <4> QED BY <1>2, <1>12, <3>1, <4>1, Zenon DEF Mine
    <3>2. CASE b # a
      <4>1. b \in DOMAIN read_set /\ read_set'[b] = read_set[b] BY <1>4, <1>5, <3>2
      <4>2. PICK x : x = read_set[b] OBVIOUS
      <4>3. Mine(x) /\ heap[x].logical = b /\ x \in 0 .. Len(heap)
        BY <1>1, <2>4, <4>1, <4>2 DEF OneInv, OneObjectEach
      <4>4. x \in DOMAIN heap BY <1>3, <2>4, <4>1, <4>2, <4>3 DEF None
      <4>5. x # old BY <1>3, <2>4, <3>2, <4>1, <4>2, <4>3
      <4>6. Mine(x)' /\ heap'[x].logical = b BY <1>2, <1>12, <4>3, <4>4, <4>5
      <4> QED BY <4>1, <4>2, <4>6, Zenon DEF Mine
    <3> QED BY <3>1, <3>2
  <2>5. ASSUME ~Written' PROVE \A r \in Readers' : heap'[r].live /\ ~IsStubShape(r)'
    <3>1. ~Written /\ old = None /\ new.shape # PrimitiveShape("STUB")
      BY <1>0, <1>4, <2>5
    <3>2. \A r \in Readers : heap[r].live /\ ~IsStubShape(r) BY <1>1, <3>1 DEF OneInv
    <3>3. \A r \in Readers : heap'[r].live /\ ~IsStubShape(r)' BY <1>2, <1>3, <3>1, <3>2
    <3>4. heap'[n].live /\ ~IsStubShape(n)' BY <1>2, <3>1 DEF IsStubShape
    <3> QED BY <1>2, <3>3, <3>4
  <2>6. OneObjectEach' BY <2>3, <2>4 DEF OneObjectEach
  <2> QED BY <2>1, <2>2, <2>5, <2>6 DEF OneInv
<1>14. GoodRef(n)' /\ Address(heap, n)' = a
  <2>1. n \in Readers' BY <1>2
  <2>2. n \in 1 .. FixedMin - 1 BY <1>2, Constant
  <2>3. ~IsFixed(n) /\ n # Nil BY <2>2, FixedIs
  <2> QED BY <1>2, <2>1, <2>3 DEF GoodRef, Address
<1>15. FramesInv'
  <2>1. calls # <<>> /\ Last(calls).shape = None => GoodShape(n)'
    BY <1>2 DEF GoodShape, IsStubShape
  <2>2. calls # <<>> /\ (frames[1].target # None \/ ~Written) =>
           read_set'[RootAddress] = read_set[RootAddress]
    <3>1. SUFFICES ASSUME calls # <<>>, frames[1].target # None
                   PROVE  read_set'[RootAddress] = read_set[RootAddress]
      OBVIOUS
    <3>2. 1 \in DOMAIN frames BY <1>1, <3>1, CallsAre
    <3>3. FrameOK(frames[1]) BY <1>1, <3>2 DEF FramesInv
    <3>4. RootAddress \in Readables BY <3>1, <3>3 DEF FrameOK
    <3>5. RootAddress \in DOMAIN read_set BY <1>1, <3>4, OldIs
    <3> QED BY <1>5, <3>1, <3>5
  <2> QED BY <1>1, <1>2, <1>4, <1>6, <1>14, <2>1, <2>2, FramesTaken
<1>16. DownInv'
  <2>1. ASSUME phase = "read", Acyclic
        PROVE  /\ OnlyStubsGo /\ ObjectsDown'
               /\ calls # <<>> => KeptRef(n)' /\ (Last(calls).shape = None => Stays(n)')
               /\ \A i \in DOMAIN calls :
                     calls[i].target = None /\ ~Resolved(calls[i].address)
                        => ~Resolved(calls[i].address)'
    <3>1. /\ ~Resolved(a) /\ Stays(new.shape) /\ \A l \in Range(new.links) : KeptRef(l)
          /\ ObjectsDown
      BY <1>1, <2>1 DEF DownInv
    <3>2. old = None \/ IsStubShape(old) BY <1>0, <3>1 DEF Resolved
    <3>3. OnlyStubsGo
      <4> SUFFICES ASSUME NEW r \in Readers
                   PROVE  /\ Mine(r) => Mine(r)' \/ IsStubShape(r)
                          /\ IsStubShape(r) => IsStubShape(r)'
        BY DEF OnlyStubsGo
      <4>1. r \in DOMAIN heap /\ r # None BY <1>3
      <4>2. Mine(r) => Mine(r)' \/ r = old BY <1>12, <4>1
      <4>3. IsStubShape(r)' <=> IsStubShape(r) BY <1>2, <4>1
      <4> QED BY <3>2, <4>1, <4>2, <4>3
    <3>4. Stays(new.shape)' /\ \A l \in Range(new.links) : KeptRef(l)'
      BY <3>1, <3>3, KeptStays
    <3>5. Stays(heap[n].shape)' /\ \A l \in Range(heap[n].links)' : KeptRef(l)'
      <4>1. Stays(heap[n].shape)' BY <1>2, <3>4 DEF Stays, Mine
      <4>2. Range(heap[n].links)' = Range(new.links) BY <1>2 DEF Range
      <4> QED BY <3>4, <4>1, <4>2
    <3>6. \A r \in Readers' : Mine(r)' =>
              \/ /\ r \in Readers /\ Mine(r)
                 /\ heap'[r].shape = heap[r].shape /\ heap'[r].links = heap[r].links
              \/ Stays(heap[r].shape)' /\ \A l \in Range(heap[r].links)' : KeptRef(l)'
      <4> SUFFICES ASSUME NEW r \in Readers', Mine(r)'
                   PROVE  \/ /\ r \in Readers /\ Mine(r)
                             /\ heap'[r].shape = heap[r].shape /\ heap'[r].links = heap[r].links
                          \/ Stays(heap[r].shape)' /\ \A l \in Range(heap[r].links)' : KeptRef(l)'
        OBVIOUS
      <4>1. CASE r = n BY <3>5, <4>1
      <4>2. CASE r \in Readers BY <1>2, <1>3, <1>12, <4>2
      <4> QED BY <1>2, <4>1, <4>2
    <3>7. ObjectsDown' BY <1>1, <3>1, <3>3, <3>6, ObjectsStay
    <3>8. Stays(n)' /\ KeptRef(n)' BY <1>12 DEF Stays, KeptRef
    <3>9. ASSUME NEW i \in DOMAIN calls, calls[i].target = None, ~Resolved(calls[i].address)
          PROVE  ~Resolved(calls[i].address)'
      <4>1. PICK b : b = calls[i].address OBVIOUS
      <4>2. b \in Readables BY <1>1, <4>1, CallsAre DEF FrameOK
      <4>3. ~Resolved(b) /\ b \in DOMAIN read_set BY <1>1, <3>9, <4>1, <4>2, OldIs
      <4>4. ASSUME b = a PROVE ~Resolved(b)'
        <5>1. new.shape = PrimitiveShape("STUB") BY <2>1, <3>9, <4>1, <4>4
        <5>2. IsStubShape(n)' BY <1>2, <5>1 DEF IsStubShape
        <5> QED BY <1>5, <4>4, <5>2 DEF Resolved, IsStubShape
      <4>5. ASSUME b # a PROVE ~Resolved(b)'
        <5>1. PICK x : x = read_set[b] OBVIOUS
        <5>2. x = None \/ (x \in Readers /\ IsStubShape(x))
          BY <1>1, <4>2, <4>3, <5>1, OldIs DEF Resolved
        <5>3. x = None \/ IsStubShape(x)' BY <1>2, <1>3, <5>2
        <5>4. read_set'[b] = x BY <1>5, <4>3, <4>5, <5>1
        <5> QED BY <5>3, <5>4 DEF Resolved, IsStubShape
      <4> QED BY <4>1, <4>4, <4>5
    <3> QED BY <3>3, <3>7, <3>8, <3>9
  <2> QED BY <1>1, <1>2, <1>4, <1>6, <2>1, DownTaken
<1> QED BY <1>2, <1>11, <1>13, <1>15, <1>16 DEF ReadInv, Steady

\* What a frame waits for is in fixed space, or of a lower rank.
LEMMA WaitsFor ==
    ASSUME CommitInv, HeapInv, NEW f \in FrameSet, f.address \in Readables,
           NEW a, Waiting(f, a)
    PROVE  /\ a \in FixedSpace \cup Readables
           /\ ~Written => a \in FixedSpace
           /\ a \notin FixedSpace =>
                LET x == Original(f.address)
                IN  /\ x \in Built /\ Original(a) \in Range(heap[x].links) \cup {heap[x].shape}
                    /\ ~IsFixed(Original(a)) /\ Original(a) \in Built
<1> DEFINE form == StoredForm(f.address)
           x == Original(f.address)
<1>1. /\ form.shape \in FixedSpace \cup Readables /\ form.links \in Seq(Nat)
      /\ \A i \in DOMAIN form.links : form.links[i] \in FixedSpace \cup Readables
  BY FormIs
<1>2. f.links \in Seq(Nat) BY DEF FrameSet
<1>3. a = form.shape \/ \E i \in DOMAIN form.links : a = form.links[i]
  <2>1. CASE f.shape = None BY <2>1 DEF Waiting
  <2>2. CASE f.shape # None
    <3>1. Len(f.links) < Len(form.links) /\ a = form.links[Len(f.links) + 1]
      BY <2>2 DEF Waiting
    <3> HIDE DEF form
    <3>2. Len(f.links) + 1 \in DOMAIN form.links BY <1>1, <1>2, <3>1
    <3> QED BY <3>1, <3>2
  <2> QED BY <2>1, <2>2
<1>4. a \in FixedSpace \cup Readables
  <2> HIDE DEF form
  <2> QED BY <1>1, <1>3
<1>5. CASE ~Written
  <2>1. form = RootForm BY <1>5 DEF StoredForm
  <2>2. form.shape = PrimitiveShape("SLOTTED") /\ form.links = <<Nil, Nil>> BY <2>1 DEF RootForm
  <2>3. a = PrimitiveShape("SLOTTED") \/ a = Nil
    <3> HIDE DEF form
    <3> QED BY <1>3, <2>2
  <2>4. a \in FixedSpace BY <2>3, TypeShapes, FixedIs
  <2> QED BY <2>4
<1>6. CASE Written /\ a \notin FixedSpace
  <2>1. x \in Built /\ x \in Programs BY ReadableIs, BuiltOwn
  <2>2. form = Form(x) BY <1>6 DEF StoredForm
  <2> HIDE DEF x
  <2>3. /\ form.shape = Address(heap, heap[x].shape)
        /\ DOMAIN form.links = DOMAIN heap[x].links
        /\ \A i \in DOMAIN heap[x].links : form.links[i] = Address(heap, heap[x].links[i])
    BY <2>2 DEF Form
  <2>4. PICK l : l \in Range(heap[x].links) \cup {heap[x].shape} /\ a = Address(heap, l)
    <3> HIDE DEF form
    <3>1. CASE a = form.shape BY <2>3, <3>1
    <3>2. CASE \E i \in DOMAIN form.links : a = form.links[i] BY <2>3, <3>2 DEF Range
    <3> QED BY <1>3, <3>1, <3>2
  <2>5. l \in LinksOf(heap[x]) BY <2>4 DEF LinksOf
  <2>6. FormsInv BY DEF CommitInv
  <2>7. l \notin FixedSpace BY <1>6, <2>4, <2>6, AddressIs
  <2>8. l \in Built /\ Original(a) = l BY <1>6, <2>1, <2>4, <2>5, <2>7, BuiltRefs
  <2>9. ~IsFixed(l) BY <2>8, HeapFacts DEF Built
  <2> QED BY <1>4, <1>6, <2>1, <2>4, <2>8, <2>9 DEF x
<1> QED BY <1>4, <1>5, <1>6

\* What the code asks of the read set is whether there is an object and no stub.
LEMMA KnownIs ==
    ASSUME CommitInv, HeapInv, OneInv, FramesInv, NEW a \in Readables
    PROVE  Known(a) <=> Resolved(a)
<1>1. read_set[a] # None => read_set[a] \in Readers BY OldIs
<1>2. read_set[a] # None => (IsStub(heap, read_set[a]) <=> IsStubShape(read_set[a]))
  BY <1>1, StubIs
<1> QED BY <1>2 DEF Known, Resolved

\* An object below the depth at which there are stubs starts to be read.
LEMMA PushStep ==
    ASSUME CommitInv, ReadInv, Still, phase \in {"open", "read"}, NEW a \in Readables, ~Known(a),
           NEW depth \in Nat, depth > 0, frames # <<>> => Waiting(Last(frames), a),
           frames' = Append(frames, Frame(a, None, map[a], depth)),
           UNCHANGED <<heap, nil, read_set>>
    PROVE  ReadInv' /\ OthersChange
<1>1. HeapInv /\ OneInv /\ FramesInv /\ DownInv BY DEF ReadInv
<1>2. Grows /\ Steady /\ Shaped /\ OnlyStubsGo /\ Readers' = Readers BY <1>1, Quiet
<1>3. UNCHANGED <<map, phase>> /\ Written' = Written /\ UNCHANGED stub_depth BY StillIs
<1>4. PICK n, top : n = Len(frames) /\ top = Frame(a, None, map[a], depth) OBVIOUS
<1>5. /\ a \in Nat /\ a \notin FixedSpace /\ map[a] \in Nat /\ Original(a) \in Built
  BY ReadableIs, Constant
<1>6. /\ top.address = a /\ top.target = None /\ top.base = map[a] /\ top.depth = depth
      /\ top.shape = None /\ top.links = <<>> /\ top \in FrameSet
  BY <1>4, <1>5 DEF Frame, FrameSet, None
<1>7. /\ frames \in Seq(FrameSet) /\ n \in Nat /\ DOMAIN frames = 1 .. n
      /\ frames' \in Seq(FrameSet) /\ Len(frames') = n + 1 /\ DOMAIN frames' = 1 .. n + 1
      /\ frames'[n + 1] = top /\ \A i \in 1 .. n : frames'[i] = frames[i]
  BY <1>1, <1>4, <1>6 DEF FramesInv
<1>8. \A r : r # None => (Stale(r)' <=> Stale(r))
  <2>1. \A i \in 1 .. n : i \in 1 .. n + 1 BY <1>7
  <2>2. \A i \in 1 .. n + 1 : i = n + 1 \/ i \in 1 .. n BY <1>7
  <2> QED BY <1>6, <1>7, <2>1, <2>2 DEF Stale
<1>9. HeapInv'
  <2>1. \A r \in Readers : ReaderOK(r)'
    BY <1>1, <1>2, <1>3, <1>8, HeapFacts, ReaderSame
  <2> QED BY <1>1, <1>2, <2>1, HeapSteps
<1>10. OneInv'
  BY <1>2, <1>1, <1>3 DEF OneInv, OneObjectEach, Mine, IsStubShape
<1>11. ~Resolved(a) BY <1>1, KnownIs
<1>12. frames # <<>> =>
         /\ n \in 1 .. n /\ Last(frames) = frames[n] /\ frames[n] \in FrameSet
         /\ FrameOK(frames[n]) /\ Waiting(frames[n], a) /\ Written
  <2> SUFFICES ASSUME frames # <<>>
               PROVE  /\ n \in 1 .. n /\ Last(frames) = frames[n] /\ frames[n] \in FrameSet
                      /\ FrameOK(frames[n]) /\ Waiting(frames[n], a) /\ Written
    OBVIOUS
  <2>1. n \in 1 .. n /\ Last(frames) = frames[n] /\ frames[n] \in FrameSet
    <3>1. Len(frames) \in Nat \ {0} /\ Last(frames) = frames[Len(frames)]
          /\ Last(frames) \in FrameSet
      BY <1>7, FrontLast
    <3> QED BY <1>4, <3>1
  <2>2. FrameOK(frames[n]) /\ Waiting(frames[n], a) BY <1>1, <1>7, <2>1 DEF FramesInv
  <2>3. frames[n].address \in Readables BY <2>2 DEF FrameOK
  <2>4. Written BY <1>1, <1>5, <2>1, <2>2, <2>3, WaitsFor
  <2> QED BY <2>1, <2>2, <2>4
<1>13. ASSUME NEW i \in 1 .. n
       PROVE  FrameOK(frames[i])' /\ \A b : Waiting(frames[i], b) => Waiting(frames[i], b)'
  <2>1. PICK f : f = frames[i] OBVIOUS
  <2>2. FrameOK(f) BY <1>1, <1>7, <2>1 DEF FramesInv
  <2>3. FrameOK(f)' /\ \A b : Waiting(f, b)' <=> Waiting(f, b)
    BY <1>1, <1>2, <1>3, <2>2, FrameSame
  <2>4. frames'[i] = f BY <1>7, <2>1
  <2>5. FrameOK(frames[i])' BY <2>3, <2>4, Zenon DEF FrameOK
  <2>6. \A b : Waiting(frames[i], b)' <=> Waiting(f, b)'
    BY <2>4, Zenon DEF Waiting
  <2> QED BY <2>1, <2>3, <2>5, <2>6
<1>14. FrameOK(top)'
  <2>1. a \in Readables' /\ StoredForm(a)' = StoredForm(a) BY <1>2 DEF Steady
  <2>2. Len(<<>>) <= Len(StoredForm(a).links)
    <3>1. StoredForm(a).links \in Seq(Nat) BY <1>1, FormIs
    <3> QED BY <3>1
  <2>3. Len(<<>>) <= Len(StoredForm(a)'.links) BY <2>1, <2>2
  <2> QED BY <1>3, <1>6, <2>1, <2>3 DEF FrameOK
<1>15. FramesInv'
  <2>1. \A i \in DOMAIN frames' : FrameOK(frames[i])'
    <3>1. FrameOK(frames[n + 1])' BY <1>7, <1>14, Zenon DEF FrameOK
    <3>2. \A i \in 1 .. n + 1 : i = n + 1 \/ i \in 1 .. n BY <1>7
    <3> QED BY <1>7, <1>13, <3>1, <3>2
  <2>2. frames' # <<>> /\ ~Written' => Len(frames') = 1 /\ read_set'[RootAddress] = None
    <3> SUFFICES ASSUME ~Written PROVE Len(frames') = 1 /\ read_set'[RootAddress] = None
      BY <1>3
    <3>1. frames = <<>> BY <1>12
    <3>2. Len(frames') = 1 BY <1>4, <1>7, <3>1
    <3>3. a = RootAddress BY DEF Readables
    <3>4. read_set[a] # None => ~IsStubShape(read_set[a])
      BY <1>1, OldIs DEF OneInv
    <3> QED BY <1>11, <3>2, <3>3, <3>4 DEF Resolved
  <2>3. ASSUME NEW i \in DOMAIN frames', i > 1
        PROVE  /\ frames'[i].target = None
               /\ Waiting(frames[i - 1], frames[i].address)'
               /\ frames'[1].target # None => frames'[i].address # RootAddress
    <3>1. CASE i = n + 1
      <4>1. n > 0 /\ frames # <<>> /\ 1 \in 1 .. n BY <1>4, <1>7, <2>3, <3>1
      <4>2. Waiting(frames[n], a)' BY <1>12, <1>13, <4>1
      <4>3. i - 1 = n /\ frames'[i].address = a /\ frames'[i].target = None
        BY <1>6, <1>7, <3>1
      <4>4. Waiting(frames[i - 1], frames[i].address)' BY <4>2, <4>3, Zenon DEF Waiting
      <4>5. ASSUME frames[1].target # None PROVE a # RootAddress
        <5>1. FrameOK(frames[1]) BY <1>1, <1>7, <4>1 DEF FramesInv
        <5>2. frames[1].target = read_set[RootAddress] /\ ~IsStubShape(frames[1].target)
          BY <4>5, <5>1 DEF FrameOK
        <5> QED BY <1>11, <4>5, <5>2 DEF Resolved
      <4> QED BY <1>7, <4>1, <4>3, <4>4, <4>5
    <3>2. CASE i \in 1 .. n
      <4>1. /\ frames[i].target = None /\ Waiting(frames[i - 1], frames[i].address)
            /\ frames[1].target # None => frames[i].address # RootAddress
        BY <1>1, <1>7, <2>3, <3>2 DEF FramesInv
      <4>2. i - 1 \in 1 .. n /\ 1 \in 1 .. n BY <1>7, <2>3, <3>2
      <4>3. PICK b : b = frames[i].address OBVIOUS
      <4>4. Waiting(frames[i - 1], b)' BY <1>13, <4>1, <4>2, <4>3
      <4>5. frames'[i].address = b BY <1>7, <3>2, <4>3
      <4>6. Waiting(frames[i - 1], frames[i].address)' BY <4>4, <4>5, Zenon DEF Waiting
      <4> QED BY <1>7, <3>2, <4>1, <4>2, <4>6
    <3> QED BY <1>7, <2>3, <3>1, <3>2
  <2>4. phase' \in {"open", "read"} BY <1>3
  <2> QED BY <1>7, <2>1, <2>2, <2>3, <2>4 DEF FramesInv
<1>16. DownInv'
  <2>1. /\ Built' = Built /\ (Acyclic' <=> Acyclic)
        /\ \A rank : Ranked(rank)' <=> Ranked(rank)
    BY <1>2, RankedSame DEF Steady
  <2>2. SUFFICES ASSUME phase = "read", Acyclic
                 PROVE  /\ ObjectsDown' /\ RanksDown'
                        /\ \A i \in DOMAIN frames' : FrameDown(frames[i])'
    BY <1>3, <2>1 DEF DownInv
  <2>3. ObjectsDown /\ (\A i \in DOMAIN frames : FrameDown(frames[i])) /\ RanksDown
    BY <1>1, <2>2 DEF DownInv
  <2>4. ObjectsDown' BY <1>2, <2>3 DEF ObjectsDown, Stays, KeptRef, Mine, IsStubShape
  <2>5. ASSUME NEW i \in DOMAIN frames' PROVE FrameDown(frames[i])'
    <3>1. CASE i = n + 1
      <4>1. frames'[i] = top BY <1>7, <3>1
      <4>2. ~Resolved(a)' BY <1>11 DEF Resolved, IsStubShape
      <4>3. \A l : l \notin Range(<<>>) BY DEF Range
      <4>4. FrameDown(top)' BY <1>6, <4>2, <4>3 DEF FrameDown
      <4> QED BY <4>1, <4>4, Zenon DEF FrameDown
    <3>2. CASE i \in 1 .. n
      <4>1. FrameDown(frames[i]) /\ frames'[i] = frames[i] BY <1>7, <2>3, <3>2
      <4> QED BY <4>1 DEF FrameDown, Stays, KeptRef, Mine, IsStubShape, Resolved
    <3> QED BY <1>7, <2>5, <3>1, <3>2
  <2>6. RanksDown'
    <3>1. ASSUME NEW i \in 1 .. n
          PROVE  /\ Original(frames[i].address)' = Original(frames[i].address)
                 /\ Original(frames[i].address) \in Built
      <4>1. FrameOK(frames[i]) BY <1>1, <1>7 DEF FramesInv
      <4>2. PICK b \in Readables : b = frames[i].address BY <4>1 DEF FrameOK
      <4>3. Original(b)' = Original(b) /\ frames'[i].address = b BY <1>7, <1>2, <4>2 DEF Steady
      <4>4. Original(b) \in Built BY ReadableIs
      <4> QED BY <4>2, <4>3, <4>4 DEF Original
    <3>2. Original(frames[n + 1].address)' = Original(a)
      <4>1. Original(a)' = Original(a) /\ frames'[n + 1].address = a
        BY <1>2, <1>6, <1>7 DEF Steady
      <4> QED BY <4>1 DEF Original
    <3>3. [Built -> 1 .. Cardinality(Built)]' = [Built -> 1 .. Cardinality(Built)] BY <2>1
    <3>4. SUFFICES ASSUME NEW rank \in [Built -> 1 .. Cardinality(Built)], Ranked(rank),
                          NEW i \in 1 .. n + 1, NEW j \in 1 .. n + 1, i < j
                   PROVE  rank[Original(frames[j].address)'] < rank[Original(frames[i].address)']
      BY <1>7, <2>1, <3>3 DEF RanksDown
    <3>5. i \in 1 .. n BY <1>7, <3>4
    <3>6. ASSUME NEW k \in 1 .. n, i < k
          PROVE  rank[Original(frames[k].address)] < rank[Original(frames[i].address)]
      BY <1>7, <2>3, <3>4, <3>5, <3>6 DEF RanksDown
    <3>7. CASE j = n + 1
      <4>1. frames # <<>> BY <1>4, <1>7, <3>5
      <4>2. rank[Original(a)] < rank[Original(frames[n].address)]
        <5>1. frames[n].address \in Readables BY <1>12, <4>1 DEF FrameOK
        <5>2. PICK x, y : x = Original(frames[n].address) /\ y = Original(a) OBVIOUS
        <5>3. /\ x \in Built /\ y \in Range(heap[x].links) \cup {heap[x].shape} /\ ~IsFixed(y)
          BY <1>1, <1>5, <1>12, <4>1, <5>1, <5>2, WaitsFor
        <5> QED BY <3>4, <5>2, <5>3 DEF Ranked
      <4>3. CASE i = n BY <3>1, <3>2, <3>5, <3>7, <4>2, <4>3
      <4>4. CASE i # n
        <5>1. n \in 1 .. n /\ i < n BY <1>7, <3>5, <4>4
        <5>2. rank[Original(frames[n].address)] < rank[Original(frames[i].address)]
          BY <3>6, <5>1
        <5>3. PICK p, q, s : /\ p = rank[Original(a)] /\ q = rank[Original(frames[n].address)]
                             /\ s = rank[Original(frames[i].address)]
          OBVIOUS
        <5>4. p \in Int /\ q \in Int /\ s \in Int BY <1>5, <3>1, <3>4, <3>5, <5>1, <5>3
        <5>5. p < s BY <4>2, <5>2, <5>3, <5>4
        <5> QED BY <3>1, <3>2, <3>5, <3>7, <5>3, <5>5
      <4> QED BY <4>3, <4>4
    <3>8. CASE j \in 1 .. n BY <3>1, <3>4, <3>5, <3>6, <3>8
    <3> QED BY <1>7, <3>4, <3>7, <3>8
  <2> QED BY <2>4, <2>5, <2>6
<1> QED BY <1>2, <1>9, <1>10, <1>15, <1>16 DEF ReadInv, Steady

\* An address is answered, a stub takes it, or it starts to be read.
LEMMA AtStep ==
    ASSUME CommitInv, ReadInv, phase \in {"open", "read"},
           UNCHANGED <<stub_depth, store, write_set, phase, stack>>,
           NEW a, a \in FixedSpace \cup Readables, NEW depth \in Nat, At(a, depth),
           frames # <<>> => Waiting(Last(frames), a),
           depth = 0 => frames # <<>> /\ Last(frames).shape # None
    PROVE  ReadInv' /\ OthersChange
<1>1. HeapInv /\ OneInv /\ FramesInv /\ DownInv BY DEF ReadInv
<1>2. FormsInv BY DEF CommitInv
<1>3. PICK calls : calls = frames OBVIOUS
<1>4. Innermost(calls) BY <1>1, <1>3 DEF Innermost, FramesInv
<1>5. Still BY DEF At, Answer, Still
<1>6. CASE IsFixed(a) /\ Answer(a)
  <2>1. a \in FixedSpace BY <1>6, ReadableIs
  <2>2. /\ GoodRef(a) /\ GoodShape(a) /\ Stays(a) /\ Address(heap, a) = a
        /\ a \in Nat \ {0}
    BY <1>1, <1>2, <1>6, <2>1, AddressIs, FixedIs, Constant DEF GoodRef, GoodShape, Stays, FixedSpace
  <2> QED BY <1>5, <1>6, <2>2, AnswerStep
<1>7. ASSUME ~IsFixed(a) PROVE a \in Readables
  BY <1>7, FixedIs
<1>8. CASE ~IsFixed(a) /\ Known(a) /\ Answer(read_set[a])
  <2>1. PICK ref : ref = read_set[a] OBVIOUS
  <2>2. a \in Readables /\ Resolved(a) BY <1>1, <1>7, <1>8, KnownIs
  <2>3. /\ ref # None /\ ref \in Readers /\ ref \in DOMAIN heap /\ Mine(ref)
        /\ heap[ref].logical = a /\ ~IsStubShape(ref)
    BY <1>1, <2>1, <2>2, OldIs DEF Resolved
  <2>4. GoodRef(ref) /\ GoodShape(ref) /\ Stays(ref) /\ Address(heap, ref) = a
    BY <1>1, <1>2, <2>3, AddressIs DEF GoodRef, GoodShape, Stays
  <2>5. ref \in Nat \ {0} BY <1>1, <2>3, HeapFacts DEF None
  <2> QED BY <1>5, <1>8, <2>1, <2>4, <2>5, AnswerStep
<1>9. CASE /\ ~IsFixed(a) /\ ~Known(a) /\ ~Deep(depth) /\ RoomOnHeap
           /\ heap' = Append(Released(read_set[a]), CreatedStub(a))
           /\ read_set' = [read_set EXCEPT ![a] = Len(heap) + 1]
           /\ frames' = Taken(frames, Len(heap) + 1)
           /\ UNCHANGED nil
  <2>1. a \in Readables /\ ~Resolved(a) /\ a \in Nat /\ a \notin FixedSpace
    BY <1>1, <1>7, <1>9, KnownIs, ReadableIs
  <2>2. frames # <<>> /\ Last(frames).shape # None BY <1>9 DEF Deep
  <2>3. Last(frames) \in FrameSet /\ FrameOK(Last(frames))
    <3>1. /\ frames \in Seq(FrameSet)
          /\ \A i \in DOMAIN frames : FrameOK(frames[i])
      BY <1>1 DEF FramesInv
    <3>2. /\ Len(frames) \in DOMAIN frames /\ Last(frames) = frames[Len(frames)]
          /\ Last(frames) \in FrameSet
      BY <2>2, <3>1, FrontLast
    <3> QED BY <3>1, <3>2
  <2>4. Written BY <1>1, <2>1, <2>2, <2>3, WaitsFor DEF FrameOK
  <2>5. PICK new : new = CreatedStub(a) OBVIOUS
  <2>6. /\ new.live /\ new.session = Reader /\ new.logical = a /\ new.physical = Unassigned
        /\ new.shape = PrimitiveShape("STUB") /\ new.links = <<>> /\ new.data = <<a>>
    BY <2>5 DEF CreatedStub, Obj
  <2>7. PrimitiveShape("STUB") \in FixedSpace /\ IsFixed(PrimitiveShape("STUB"))
        /\ PrimitiveShape("STUB") \in Nat
    BY TypeShapes, FixedIs
  <2>8. new \in Objs
    <3>1. <<a>> \in Seq(Nat) /\ <<>> \in Seq(Nat) BY <2>1
    <3>2. Unassigned \in Nat BY DEF Unassigned
    <3> QED BY <2>1, <2>5, <2>7, <3>1, <3>2 DEF CreatedStub, Obj, Objs
  <2>9. Inserts(a, new) /\ frames' = Taken(calls, Len(heap) + 1) BY <1>3, <1>9, <2>5 DEF Inserts
  <2>10. ASSUME frames[1].target # None PROVE a # RootAddress
    <3>1. 1 \in DOMAIN frames BY <1>1, <1>3, <1>4, <2>2, CallsAre
    <3>2. FrameOK(frames[1]) BY <1>1, <3>1 DEF FramesInv
    <3>3. frames[1].target = read_set[RootAddress] /\ ~IsStubShape(frames[1].target)
      BY <2>10, <3>2 DEF FrameOK
    <3> QED BY <2>1, <2>10, <3>3 DEF Resolved
  <2>11. /\ GoodShape(new.shape) /\ Stays(new.shape)
         /\ \A l \in Range(new.links) : GoodRef(l) /\ KeptRef(l)
    BY <2>6, <2>7 DEF GoodShape, Stays, Range
  <2> QED BY <1>3, <1>4, <1>5, <1>9, <2>1, <2>2, <2>4, <2>6, <2>8, <2>9, <2>10, <2>11, InsertStep
<1>10. CASE /\ ~IsFixed(a) /\ ~Known(a) /\ Deep(depth)
            /\ frames' = IF map[a] = Unassigned THEN Taken(frames, Nil)
                         ELSE Append(frames, Frame(a, None, map[a], depth))
            /\ UNCHANGED <<heap, nil, read_set>>
  <2>1. a \in Readables /\ map[a] # Unassigned BY <1>7, <1>10, ReadableIs
  <2> QED BY <1>5, <1>10, <2>1, PushStep DEF Deep
<1> QED BY <1>6, <1>8, <1>9, <1>10 DEF At

\* What the innermost frame is.
LEMMA TopIs ==
    ASSUME CommitInv, ReadInv, Reads
    PROVE  LET f == Last(frames)
           IN  /\ f \in FrameSet /\ FrameOK(f) /\ f.address \in Readables
               /\ Len(frames) \in DOMAIN frames /\ f = frames[Len(frames)]
               /\ phase \in {"open", "read"}
               /\ f.shape # None => LinksRead(f) = StoredForm(f.address).links
                                    /\ TypeRead(f) \in Readable
                                    /\ DataAt(content, TypeRead(f), f.base) = StoredForm(f.address).data
<1>1. HeapInv /\ OneInv /\ FramesInv /\ DownInv BY DEF ReadInv
<1>2. frames # <<>> BY DEF Reads
<1>3. PICK f : f = Last(frames) OBVIOUS
<1>4. Len(frames) \in DOMAIN frames /\ f = frames[Len(frames)] /\ f \in FrameSet
  BY <1>1, <1>2, <1>3, FrontLast DEF FramesInv
<1>5. FrameOK(f) /\ phase \in {"open", "read"} BY <1>1, <1>2, <1>4 DEF FramesInv
<1>6. /\ f.address \in Readables /\ f.base = map[f.address]
      /\ f.shape # None => GoodShape(f.shape) /\ Address(heap, f.shape) = StoredForm(f.address).shape
  BY <1>5 DEF FrameOK
<1>7. f.shape # None => LinksRead(f) = StoredForm(f.address).links
                        /\ TypeRead(f) \in Readable
                        /\ DataAt(content, TypeRead(f), f.base) = StoredForm(f.address).data
  BY <1>1, <1>5, <1>6, FrameRead
<1> QED BY <1>2, <1>3, <1>4, <1>5, <1>6, <1>7

\* The frame asks for its shape.
LEMMA ReadShapeStep ==
    ASSUME CommitInv, ReadInv, ReadShape
    PROVE  ReadInv' /\ OthersChange
<1>1. HeapInv /\ OneInv /\ FramesInv /\ DownInv BY DEF ReadInv
<1>2. PICK f : f = Last(frames) OBVIOUS
<1>3. Reads /\ f.shape = None /\ At(content[f.base], 3) BY <1>2 DEF ReadShape
<1>4. /\ f \in FrameSet /\ FrameOK(f) /\ f.address \in Readables
      /\ phase \in {"open", "read"} /\ frames # <<>>
      /\ UNCHANGED <<stub_depth, store, write_set, phase, stack>>
  BY <1>2, <1>3, TopIs DEF Reads
<1>5. PICK a : a = content[f.base] OBVIOUS
<1>6. a = StoredForm(f.address).shape BY <1>1, <1>4, <1>5, ShapeStored DEF FrameOK
<1>7. Waiting(f, a) BY <1>3, <1>6 DEF Waiting
<1>8. a \in FixedSpace \cup Readables BY <1>1, <1>4, <1>7, WaitsFor
<1> QED BY <1>2, <1>3, <1>4, <1>5, <1>7, <1>8, AtStep

\* The frame asks for its next link.
LEMMA ReadLinkStep ==
    ASSUME CommitInv, ReadInv, ReadLink
    PROVE  ReadInv' /\ OthersChange
<1>1. HeapInv /\ OneInv /\ FramesInv /\ DownInv BY DEF ReadInv
<1>2. PICK f : f = Last(frames) OBVIOUS
<1>3. /\ Reads /\ f.shape # None /\ Len(f.links) < Len(LinksRead(f))
      /\ At(LinksRead(f)[Len(f.links) + 1], f.depth - 1)
  BY <1>2 DEF ReadLink
<1>4. /\ f \in FrameSet /\ FrameOK(f) /\ f.address \in Readables
      /\ phase \in {"open", "read"} /\ frames # <<>>
      /\ UNCHANGED <<stub_depth, store, write_set, phase, stack>>
      /\ LinksRead(f) = StoredForm(f.address).links
  BY <1>2, <1>3, TopIs DEF Reads
<1>5. PICK a, depth : a = LinksRead(f)[Len(f.links) + 1] /\ depth = f.depth - 1 OBVIOUS
<1>6. Waiting(f, a) BY <1>3, <1>4, <1>5 DEF Waiting
<1>7. a \in FixedSpace \cup Readables BY <1>1, <1>4, <1>6, WaitsFor
<1>8. depth \in Nat
  <2>1. f.depth \in Nat /\ f.depth > 0 BY <1>4 DEF FrameSet, FrameOK
  <2> QED BY <1>5, <2>1
<1> QED BY <1>2, <1>3, <1>4, <1>5, <1>6, <1>7, <1>8, AtStep

\* What a frame has read is what is stored, when it has all of it.
LEMMA ReadIs ==
    ASSUME CommitInv, ReadInv, Complete
    PROVE  LET f == Last(frames)
               new == ObjectRead(f)
           IN  /\ FormOf(new) = StoredForm(f.address) /\ new \in Objs
               /\ new.shape = f.shape /\ new.links = f.links /\ new.physical = map[f.address]
               /\ new.session = NoSession /\ new.logical = Unassigned /\ new.live
               /\ GoodShape(f.shape) /\ f.shape # PrimitiveShape("STUB")
               /\ \A l \in Range(f.links) : GoodRef(l)
<1>1. HeapInv /\ OneInv /\ FramesInv /\ DownInv /\ FormsInv BY DEF ReadInv, CommitInv
<1>2. PICK f : f = Last(frames) OBVIOUS
<1>3. PICK new : new = ObjectRead(f) OBVIOUS
<1>4. Reads /\ f.shape # None /\ Len(f.links) = Len(LinksRead(f))
  BY <1>2 DEF Complete
<1>5. /\ f \in FrameSet /\ FrameOK(f) /\ f.address \in Readables
      /\ LinksRead(f) = StoredForm(f.address).links
      /\ DataAt(content, TypeRead(f), f.base) = StoredForm(f.address).data
  BY <1>2, <1>4, TopIs
<1>6. PICK form : form = StoredForm(f.address) OBVIOUS
<1>7. /\ form.links \in Seq(Nat) /\ form.data \in Seq(Nat)
      /\ form.shape # PrimitiveShape("STUB")
  BY <1>1, <1>5, <1>6, FormIs
<1>8. form = [shape |-> form.shape, links |-> form.links, data |-> form.data]
  BY <1>6 DEF StoredForm, Form, RootForm
<1>9. /\ GoodShape(f.shape) /\ Address(heap, f.shape) = form.shape
      /\ f.base = map[f.address]
      /\ \A j \in DOMAIN f.links :
            GoodRef(f.links[j]) /\ Address(heap, f.links[j]) = form.links[j]
  BY <1>4, <1>5, <1>6 DEF FrameOK
<1>10. f.links \in Seq(Nat) /\ DOMAIN f.links = DOMAIN form.links
  BY <1>4, <1>5, <1>6, <1>7 DEF FrameSet
<1>11. [i \in DOMAIN f.links |-> Address(heap, f.links[i])] = form.links
  BY <1>7, <1>9, <1>10
<1>12. /\ new.shape = f.shape /\ new.links = f.links /\ new.physical = f.base
       /\ new.data = form.data /\ new.session = NoSession /\ new.logical = Unassigned /\ new.live
  BY <1>3, <1>5, <1>6 DEF ObjectRead, Obj
<1>13. FormOf(new) = form BY <1>8, <1>9, <1>11, <1>12 DEF FormOf
<1>14. f.shape # PrimitiveShape("STUB")
  <2>1. Address(heap, PrimitiveShape("STUB")) = PrimitiveShape("STUB")
    BY <1>1, AddressIs, TypeShapes
  <2> QED BY <1>7, <1>9, <2>1
<1>15. new \in Objs
  <2>1. f.shape \in Nat /\ f.base \in Nat BY <1>5 DEF FrameSet
  <2>2. Unassigned \in Nat BY DEF Unassigned
  <2>3. new = [live |-> TRUE, session |-> NoSession, logical |-> Unassigned,
               physical |-> f.base, shape |-> f.shape, links |-> f.links, data |-> form.data]
    BY <1>3, <1>5, <1>6 DEF ObjectRead, Obj
  <2> QED BY <1>7, <1>10, <2>1, <2>2, <2>3 DEF Objs
<1>16. \A l \in Range(f.links) : GoodRef(l) BY <1>9 DEF Range
<1> QED BY <1>2, <1>3, <1>6, <1>9, <1>12, <1>13, <1>14, <1>15, <1>16

\* An object that was read takes its address, and the frame before it the object.
LEMMA EndReadStep ==
    ASSUME CommitInv, ReadInv, EndRead
    PROVE  ReadInv' /\ OthersChange /\ nil' = nil
<1>1. HeapInv /\ OneInv /\ FramesInv /\ DownInv BY DEF ReadInv
<1>2. PICK f : f = Last(frames) OBVIOUS
<1>3. Complete /\ f.target = None /\ Reads /\ frames # <<>> /\ RoomOnHeap
      /\ f.shape # None
  BY <1>2 DEF EndRead, Complete, Reads
<1>4. /\ f \in FrameSet /\ FrameOK(f) /\ f.address \in Readables
      /\ Len(frames) \in DOMAIN frames /\ f = frames[Len(frames)]
      /\ TypeRead(f) \in Readable
  BY <1>2, <1>3, TopIs
<1>5. PICK a, read : a = f.address /\ read = ObjectRead(f) OBVIOUS
<1>6. /\ FormOf(read) = StoredForm(a) /\ read \in Objs
      /\ read.shape = f.shape /\ read.links = f.links /\ read.physical = map[a] /\ read.live
      /\ GoodShape(f.shape) /\ f.shape # PrimitiveShape("STUB")
      /\ \A l \in Range(f.links) : GoodRef(l)
  BY <1>2, <1>3, <1>5, ReadIs
<1>7. PICK new : new = [read EXCEPT !.session = Reader, !.logical = a] OBVIOUS
<1>8. /\ new \in Objs /\ new.session = Reader /\ new.logical = a /\ new.live
      /\ new.shape = f.shape /\ new.links = f.links /\ new.physical = map[a]
      /\ new.data = read.data
  <2>1. a \in Nat BY <1>4, <1>5, ReadableIs
  <2> QED BY <1>6, <1>7, <2>1 DEF Objs
<1>9. FormOf(new) = StoredForm(a) BY <1>6, <1>8 DEF FormOf
<1>10. PICK calls : calls = Front(frames) OBVIOUS
<1>11. Inserts(a, new) /\ frames' = Taken(calls, Len(heap) + 1) /\ nil' = nil
  BY <1>2, <1>4, <1>5, <1>7, <1>10 DEF EndRead, Inserts
<1>12. Still BY <1>3, <1>11 DEF Reads, Still
<1>13. /\ frames \in Seq(FrameSet) /\ Len(frames) \in Nat \ {0} /\ calls \in Seq(FrameSet)
       /\ Len(calls) = Len(frames) - 1
       /\ \A i \in 1 .. Len(frames) - 1 : calls[i] = frames[i]
       /\ DOMAIN frames = 1 .. Len(frames) /\ DOMAIN calls = 1 .. Len(calls)
  <2>1. frames \in Seq(FrameSet) BY <1>1 DEF FramesInv
  <2>2. /\ Len(frames) \in Nat \ {0} /\ Front(frames) \in Seq(FrameSet)
        /\ Len(Front(frames)) = Len(frames) - 1
        /\ \A i \in 1 .. Len(frames) - 1 : Front(frames)[i] = frames[i]
        /\ DOMAIN frames = 1 .. Len(frames)
    BY <1>3, <2>1, FrontLast
  <2>3. DOMAIN calls = 1 .. Len(calls) BY <1>10, <2>2
  <2> QED BY <1>10, <2>1, <2>2, <2>3
<1>14. Innermost(calls) BY <1>2, <1>3, <1>10, <1>13 DEF Innermost
<1>15. ASSUME calls # <<>>
       PROVE  Waiting(Last(calls), a) /\ (frames[1].target # None => a # RootAddress)
  <2>1. PICK n : n = Len(frames) OBVIOUS
  <2>2. Last(calls) = calls[n - 1] /\ n - 1 \in 1 .. n - 1 /\ n \in DOMAIN frames /\ n > 1
    <3>1. Len(calls) \in Nat \ {0} /\ Last(calls) = calls[Len(calls)]
      BY <1>13, <1>15, FrontLast
    <3> QED BY <1>13, <2>1, <3>1
  <2>3. Waiting(frames[n - 1], frames[n].address)
        /\ (frames[1].target # None => frames[n].address # RootAddress)
    BY <1>1, <2>2 DEF FramesInv
  <2> QED BY <1>4, <1>5, <1>13, <2>1, <2>2, <2>3
<1>16. ASSUME ~Written PROVE calls = <<>> /\ read_set[a] = None
  <2>1. Len(frames) = 1 /\ read_set[RootAddress] = None BY <1>1, <1>3, <1>16 DEF FramesInv
  <2>2. a = RootAddress BY <1>4, <1>5, <1>16 DEF Readables
  <2> QED BY <1>13, <2>1, <2>2
<1>17. ASSUME phase = "read", Acyclic
       PROVE  /\ ~Resolved(a) /\ Stays(new.shape) /\ \A l \in Range(new.links) : KeptRef(l)
              /\ \A i \in DOMAIN calls : calls[i].address # a
  <2>1. (\A i \in DOMAIN frames : FrameDown(frames[i])) /\ RanksDown BY <1>1, <1>17 DEF DownInv
  <2>2. FrameDown(f) BY <1>4, <2>1
  <2>3. ASSUME NEW i \in DOMAIN calls PROVE calls[i].address # a
    <3>1. PICK rank \in [Built -> 1 .. Cardinality(Built)] : Ranked(rank)
      BY <1>17 DEF Acyclic, Ranked
    <3>2. PICK n : n = Len(frames) OBVIOUS
    <3>3. i \in DOMAIN frames /\ n \in DOMAIN frames /\ i < n /\ calls[i] = frames[i]
      BY <1>13, <2>3, <3>2
    <3>4. rank[Original(frames[n].address)] < rank[Original(frames[i].address)]
      BY <2>1, <3>1, <3>3 DEF RanksDown
    <3>5. SUFFICES ASSUME calls[i].address = a PROVE FALSE OBVIOUS
    <3>6. PICK k : k = rank[Original(a)] OBVIOUS
    <3>7. k < k BY <1>4, <1>5, <3>2, <3>3, <3>4, <3>5, <3>6
    <3>8. k \in Int
      <4>1. Original(a) \in Built BY <1>4, <1>5, ReadableIs
      <4> QED BY <3>1, <3>6, <4>1
    <3> QED BY <3>7, <3>8
  <2> QED BY <1>3, <1>5, <1>8, <2>2, <2>3 DEF FrameDown
<1>18. a \in Readables /\ new.shape # PrimitiveShape("STUB") /\ GoodShape(new.shape)
       /\ \A l \in Range(new.links) : GoodRef(l)
  BY <1>4, <1>5, <1>6, <1>8
<1> QED BY <1>3, <1>8, <1>9, <1>11, <1>12, <1>14, <1>15, <1>16, <1>17, <1>18, InsertStep

\* The root of the session takes what was read, and what was read is freed.
LEMMA EndRefreshStep ==
    ASSUME CommitInv, ReadInv, EndRefresh
    PROVE  ReadInv' /\ OthersChange
<1>1. HeapInv /\ OneInv /\ FramesInv /\ DownInv BY DEF ReadInv
<1>2. PICK f : f = Last(frames) OBVIOUS
<1>3. Complete /\ f.target # None /\ Reads /\ frames # <<>> /\ RoomOnHeap /\ f.shape # None
  BY <1>2 DEF EndRefresh, Complete, Reads
<1>4. /\ f \in FrameSet /\ FrameOK(f) /\ f.address \in Readables
      /\ Len(frames) \in DOMAIN frames /\ f = frames[Len(frames)]
  BY <1>2, <1>3, TopIs
<1>5. PICK t, new, n : t = f.target /\ new = ObjectRead(f) /\ n = Len(heap) + 1 OBVIOUS
<1>6. /\ Written /\ f.address = RootAddress /\ t = read_set[RootAddress] /\ ~IsStubShape(t)
      /\ RootAddress \in Readables
  BY <1>3, <1>4, <1>5 DEF FrameOK
<1>7. /\ t \in Readers /\ t \in DOMAIN heap /\ Mine(t) /\ heap[t].logical = RootAddress
  BY <1>1, <1>3, <1>5, <1>6, OldIs
<1>8. /\ FormOf(new) = StoredForm(RootAddress) /\ new \in Objs
      /\ new.shape = f.shape /\ new.links = f.links /\ new.physical = map[RootAddress]
      /\ new.session = NoSession /\ new.logical = Unassigned
      /\ GoodShape(f.shape) /\ f.shape # PrimitiveShape("STUB")
      /\ \A l \in Range(f.links) : GoodRef(l)
  BY <1>2, <1>3, <1>5, <1>6, ReadIs
<1>9. /\ Len(frames) = 1 /\ DOMAIN frames = {1} /\ frames[1] = f /\ frames' = <<>>
  <2>1. frames \in Seq(FrameSet) /\ \A i \in DOMAIN frames : i > 1 => frames[i].target = None
    BY <1>1 DEF FramesInv
  <2>2. /\ Len(frames) \in Nat \ {0} /\ DOMAIN frames = 1 .. Len(frames)
        /\ Front(frames) \in Seq(FrameSet) /\ Len(Front(frames)) = Len(frames) - 1
    BY <1>3, <2>1, FrontLast
  <2>3. Len(frames) = 1 BY <1>3, <1>4, <2>1, <2>2
  <2>4. Front(frames) = <<>> BY <2>2, <2>3
  <2>5. DOMAIN frames = {1} BY <2>2, <2>3
  <2>6. frames' = Front(frames) BY <1>2, <1>3 DEF EndRefresh
  <2> QED BY <1>4, <2>3, <2>4, <2>5, <2>6
<1>10. UNCHANGED <<nil, read_set, stub_depth, map, phase>> /\ Written' = Written /\ Still
  <2>1. UNCHANGED <<nil, read_set>> BY DEF EndRefresh
  <2>2. Still BY <1>3, <2>1 DEF Reads, Still
  <2> QED BY <2>1, <2>2, StillIs
<1>11. /\ Len(heap) \in Nat /\ DOMAIN heap = 1 .. Len(heap) /\ heap \in Seq(Objs)
       /\ \A r \in DOMAIN heap : heap[r] \in Objs /\ r # None
       /\ Readers \subseteq DOMAIN heap
       /\ n \in Nat \ {0} /\ n < FixedMin /\ n \notin DOMAIN heap
  BY <1>1, <1>3, <1>5, HeapFacts, Constant DEF HeapInv, RoomOnHeap
<1>12. PICK changed : changed = [heap EXCEPT ![t].shape = new.shape, ![t].links = new.links,
                                             ![t].data = new.data]
  OBVIOUS
<1>13. PICK freed : freed = [new EXCEPT !.live = FALSE] OBVIOUS
<1>14. heap' = Append(changed, freed)
  BY <1>2, <1>5, <1>12, <1>13 DEF EndRefresh
<1>15. freed \in Objs /\ ~freed.live /\ freed.session = NoSession /\ freed.logical = Unassigned
       /\ freed.shape = f.shape /\ freed.links = f.links /\ freed.physical = map[RootAddress]
  BY <1>8, <1>13 DEF Objs
<1>16. PICK it : it = [heap[t] EXCEPT !.shape = new.shape, !.links = new.links, !.data = new.data]
  OBVIOUS
<1>17. /\ it \in Objs /\ it.shape = f.shape /\ it.links = f.links /\ it.data = new.data
       /\ it.live = heap[t].live /\ it.session = heap[t].session
       /\ it.logical = heap[t].logical /\ it.physical = heap[t].physical
  <2>1. heap[t] \in Objs BY <1>7, <1>11
  <2> QED BY <1>8, <1>16, <2>1 DEF Objs
<1>18. /\ changed \in Seq(Objs) /\ Len(changed) = Len(heap)
       /\ \A r \in DOMAIN heap : changed[r] = IF r = t THEN it ELSE heap[r]
  <2>1. PICK k : k = Len(heap) OBVIOUS
  <2>2. changed = [r \in 1 .. k |-> IF r = t THEN it ELSE heap[r]]
    BY <1>7, <1>11, <1>12, <1>16, <2>1
  <2>3. \A r \in 1 .. k : heap[r] \in Objs BY <1>11, <2>1
  <2>4. changed \in [1 .. k -> Objs] BY <1>17, <2>2, <2>3
  <2>5. k \in Nat BY <1>11, <2>1
  <2>6. changed \in Seq(Objs) /\ Len(changed) = k BY <2>4, <2>5, SeqDef
  <2> QED BY <1>11, <2>1, <2>2, <2>6
<1>19. /\ heap' \in Seq(Objs) /\ Len(heap') = n /\ DOMAIN heap' = 1 .. n /\ heap'[n] = freed
       /\ \A r \in DOMAIN heap : heap'[r] = IF r = t THEN it ELSE heap[r]
  BY <1>5, <1>11, <1>14, <1>15, <1>18
<1>20. DOMAIN heap' = DOMAIN heap \cup {n} BY <1>5, <1>11, <1>19
<1>21. \A r \in DOMAIN heap :
          /\ heap'[r].session = heap[r].session /\ heap'[r].logical = heap[r].logical
          /\ heap'[r].physical = heap[r].physical /\ heap'[r].live = heap[r].live
          /\ r # t => heap'[r] = heap[r]
          /\ IsStubShape(r)' <=> IsStubShape(r)
  <2> TAKE r \in DOMAIN heap
  <2>1. CASE r = t
    BY <1>6, <1>8, <1>17, <1>19, <2>1 DEF IsStubShape
  <2>2. CASE r # t BY <1>19, <2>2 DEF IsStubShape
  <2> QED BY <2>1, <2>2
<1>22. Readers' = Readers
  <2>1. heap'[n].session # Reader BY <1>15, <1>19, Constant
  <2>2. \A r \in DOMAIN heap : heap'[r].session = heap[r].session BY <1>21
  <2> QED BY <1>20, <2>1, <2>2 DEF Readers
<1>23. Grows
  <2>1. \A r \in DOMAIN heap : r \notin Readers => heap'[r] = heap[r] BY <1>7, <1>21
  <2>2. Len(heap) <= Len(heap') BY <1>5, <1>11, <1>19
  <2>3. \A r \in DOMAIN heap' \ DOMAIN heap : heap'[r].session = NoSession /\ ~heap'[r].live
    BY <1>15, <1>19, <1>20
  <2> QED BY <1>11, <1>19, <1>21, <2>1, <2>2, <2>3 DEF Grows
<1>24. Steady BY <1>1, <1>10, <1>23, GrowsSteady
<1>25. Shaped BY <1>11, <1>21 DEF Shaped
<1>26. \A r : ~Stale(r)'
  <2>1. DOMAIN frames' = {} BY <1>9
  <2> QED BY <2>1 DEF Stale
<1>27. \A r : r # t => ~Stale(r) BY <1>5, <1>9 DEF Stale
<1>28. \A l : GoodRef(l) => GoodRef(l)' /\ Address(heap, l)' = Address(heap, l)
  <2>1. \A l : GoodRef(l) => l \in FixedSpace \cup DOMAIN heap BY <1>1, HeapFacts DEF GoodRef
  <2> QED BY <1>24, <2>1 DEF Steady
<1>29. GoodRef(f.shape) BY <1>8 DEF GoodShape, GoodRef
<1>30. ReaderOK(t)'
  <2>1. /\ heap'[t] = it /\ heap'[t].logical = RootAddress /\ ~IsStubShape(t)'
    BY <1>6, <1>7, <1>19, <1>21
  <2>2. RootAddress \in Readables' BY <1>6, <1>24 DEF Steady
  <2>3. GoodShape(f.shape)' BY <1>8, <1>24, <1>25, ShapeStays
  <2>4. GoodShape(heap[t].shape)' BY <1>17, <2>1, <2>3, Zenon DEF GoodShape, IsStubShape
  <2>5. Range(heap[t].links)' = Range(f.links) BY <1>17, <2>1 DEF Range
  <2>6. \A l \in Range(heap[t].links)' : GoodRef(l)' BY <1>8, <1>28, <2>5
  <2>7. Form(t)' = FormOf(new)
    <3>1. Address(heap, f.shape)' = Address(heap, f.shape) BY <1>28, <1>29
    <3>2. \A i \in DOMAIN f.links : Address(heap, f.links[i])' = Address(heap, f.links[i])
      BY <1>8, <1>28 DEF Range
    <3>3. [i \in DOMAIN f.links |-> Address(heap, f.links[i])]' =
             [i \in DOMAIN f.links |-> Address(heap, f.links[i])]
      BY <3>2
    <3> QED BY <1>8, <1>17, <2>1, <3>1, <3>3 DEF Form, FormOf
  <2>8. StoredForm(RootAddress)' = StoredForm(RootAddress) BY <1>6, <1>24 DEF Steady
  <2>9. StoredForm(heap[t].logical)' = StoredForm(RootAddress)'
    BY <2>1 DEF StoredForm, Form, Original
  <2>10. heap'[t].physical = map'[RootAddress]
    <3>1. heap[t].physical = map[RootAddress] BY <1>1, <1>6, <1>7 DEF HeapInv, ReaderOK
    <3> QED BY <1>7, <1>10, <1>21, <3>1
  <2> QED BY <1>8, <1>26, <2>1, <2>2, <2>4, <2>6, <2>7, <2>8, <2>9, <2>10 DEF ReaderOK
<1>31. HeapInv'
  <2>1. ASSUME NEW r \in Readers PROVE ReaderOK(r)'
    <3>1. CASE r = t BY <1>30, <3>1
    <3>2. CASE r # t
      <4>1. heap'[r] = heap[r] BY <1>11, <1>21, <2>1, <3>2
      <4> QED BY <1>1, <1>10, <1>24, <1>25, <1>26, <1>27, <2>1, <3>2, <4>1, ReaderSame
    <3> QED BY <3>1, <3>2
  <2>2. FreedOK(n)'
    <3>1. GoodRef(f.shape)' /\ \A l \in Range(f.links) : GoodRef(l)' BY <1>8, <1>28, <1>29
    <3>2. heap'[n].physical \in 0 .. MaxWord BY <1>6, <1>15, <1>19, ReadableIs
    <3>3. GoodRef(heap[n].shape)' BY <1>15, <1>19, <3>1, Zenon DEF GoodRef
    <3>4. Range(heap[n].links)' = Range(f.links) BY <1>15, <1>19 DEF Range
    <3>5. \A l \in Range(heap[n].links)' : GoodRef(l)' BY <3>1, <3>4
    <3> QED BY <1>15, <1>19, <3>2, <3>3, <3>5 DEF FreedOK
  <2> QED BY <1>1, <1>20, <1>22, <1>23, <1>24, <2>1, <2>2, HeapSteps
<1>32. /\ \A r \in DOMAIN heap : Mine(r)' <=> Mine(r)
       /\ ~Mine(n)'
  BY <1>15, <1>19, <1>21 DEF Mine
<1>33. OneInv'
  <2>1. read_set \in [1 .. MaxLogical -> 0 .. Len(heap)] /\ stub_depth \in StubDepths
    BY <1>1 DEF OneInv
  <2>2. read_set' \in [1 .. MaxLogical -> 0 .. Len(heap')]
    <3>1. 0 .. Len(heap) \subseteq 0 .. n BY <1>5, <1>11
    <3> QED BY <1>10, <1>19, <2>1, <3>1
  <2>3. ASSUME NEW r \in DOMAIN heap', Mine(r)' PROVE read_set'[heap'[r].logical] = r
    <3>1. r \in DOMAIN heap /\ Mine(r) BY <1>20, <1>32, <2>3
    <3> QED BY <1>1, <1>10, <1>21, <3>1 DEF OneInv, OneObjectEach
  <2>4. ASSUME NEW b \in DOMAIN read_set', read_set'[b] # None
        PROVE  Mine(read_set[b])' /\ heap'[read_set'[b]].logical = b
    <3>1. PICK x : x = read_set[b] OBVIOUS
    <3>2. b \in 1 .. MaxLogical /\ read_set'[b] = x /\ x # None BY <1>10, <2>1, <2>4, <3>1
    <3>3. Mine(x) /\ heap[x].logical = b /\ x \in 0 .. Len(heap)
      BY <1>1, <2>1, <3>1, <3>2 DEF OneInv, OneObjectEach
    <3>4. x \in DOMAIN heap BY <1>11, <3>2, <3>3 DEF None
    <3>5. Mine(x)' /\ heap'[x].logical = b BY <1>21, <1>32, <3>3, <3>4
    <3> QED BY <3>2, <3>5, Zenon DEF Mine
  <2>5. OneObjectEach' BY <2>3, <2>4 DEF OneObjectEach
  <2> QED BY <1>6, <1>10, <2>1, <2>2, <2>5 DEF OneInv
<1>34. FramesInv'
  <2>1. <<>> \in Seq(FrameSet) /\ DOMAIN <<>> = {} OBVIOUS
  <2> QED BY <1>9, <2>1 DEF FramesInv
<1>35. DownInv'
  <2>1. Acyclic' <=> Acyclic BY <1>24, RankedSame DEF Steady
  <2>2. DOMAIN frames' = {} BY <1>9
  <2>3. RanksDown' BY <2>2 DEF RanksDown
  <2>4. ASSUME phase = "read", Acyclic PROVE ObjectsDown'
    <3>1. ObjectsDown /\ FrameDown(f) BY <1>1, <1>4, <2>4 DEF DownInv
    <3>2. OnlyStubsGo BY <1>11, <1>21, <1>32 DEF OnlyStubsGo
    <3>3. Stays(f.shape)' /\ \A l \in Range(f.links) : KeptRef(l)'
      BY <1>3, <1>8, <3>1, <3>2, KeptStays DEF FrameDown
    <3>4. Stays(heap[t].shape)' /\ \A l \in Range(heap[t].links)' : KeptRef(l)'
      <4>1. heap'[t].shape = f.shape /\ heap'[t].links = f.links BY <1>7, <1>17, <1>19
      <4>2. Stays(heap[t].shape)' BY <3>3, <4>1 DEF Stays, Mine
      <4>3. Range(heap[t].links)' = Range(f.links) BY <4>1 DEF Range
      <4> QED BY <3>3, <4>2, <4>3
    <3>5. \A r \in Readers' : Mine(r)' =>
              \/ /\ r \in Readers /\ Mine(r)
                 /\ heap'[r].shape = heap[r].shape /\ heap'[r].links = heap[r].links
              \/ Stays(heap[r].shape)' /\ \A l \in Range(heap[r].links)' : KeptRef(l)'
      <4> SUFFICES ASSUME NEW r \in Readers, Mine(r)', r # t
                   PROVE  /\ Mine(r) /\ heap'[r].shape = heap[r].shape
                          /\ heap'[r].links = heap[r].links
        BY <1>22, <3>4
      <4> QED BY <1>11, <1>21, <1>32
    <3> QED BY <1>1, <3>1, <3>2, <3>5, ObjectsStay
  <2> QED BY <1>10, <2>1, <2>2, <2>3, <2>4 DEF DownInv
<1> QED BY <1>24, <1>31, <1>33, <1>34, <1>35 DEF ReadInv, Steady

\* Between calls, objects of the session are deallocated.
LEMMA Deallocates ==
    ASSUME CommitInv, HeapInv, UNCHANGED <<map, nil>>, Written' = Written,
           frames = <<>>, frames' = <<>>, DOMAIN heap' = DOMAIN heap,
           heap' \in Seq(Objs),
           \A r \in DOMAIN heap :
              heap'[r] = IF r \in Readers THEN [heap[r] EXCEPT !.live = heap'[r].live]
                         ELSE heap[r]
    PROVE  /\ HeapInv' /\ Steady /\ Shaped /\ Readers' = Readers /\ Len(heap') = Len(heap)
           /\ \A r \in DOMAIN heap :
                 /\ heap'[r].session = heap[r].session /\ heap'[r].logical = heap[r].logical
                 /\ heap'[r].shape = heap[r].shape /\ heap'[r].links = heap[r].links
                 /\ IsStubShape(r)' <=> IsStubShape(r)
<1>1. /\ Len(heap) \in Nat /\ DOMAIN heap = 1 .. Len(heap) /\ Len(heap) < FixedMin
      /\ \A r \in DOMAIN heap : heap[r] \in Objs /\ r # None
      /\ Readers \subseteq DOMAIN heap
  BY HeapFacts DEF HeapInv
<1>2. Len(heap') = Len(heap)
  BY <1>1
<1>3. \A r \in DOMAIN heap :
         /\ heap'[r].session = heap[r].session /\ heap'[r].logical = heap[r].logical
         /\ heap'[r].physical = heap[r].physical
         /\ heap'[r].shape = heap[r].shape /\ heap'[r].links = heap[r].links
         /\ heap'[r].data = heap[r].data
         /\ r \notin Readers => heap'[r] = heap[r]
  <2> TAKE r \in DOMAIN heap
  <2>1. heap[r] \in Objs BY <1>1
  <2>2. CASE r \in Readers
    <3>1. PICK x : x = heap'[r].live OBVIOUS
    <3>2. heap'[r] = [heap[r] EXCEPT !.live = x] BY <2>2, <3>1
    <3> QED BY <2>1, <2>2, <3>2 DEF Objs
  <2> QED BY <2>1, <2>2
<1>4. Readers' = Readers BY <1>3 DEF Readers
<1>5. \A r \in DOMAIN heap : IsStubShape(r)' <=> IsStubShape(r) BY <1>3 DEF IsStubShape
<1>6. Grows BY <1>1, <1>2, <1>3 DEF Grows
<1>7. Steady BY <1>6, GrowsSteady
<1>8. Shaped BY <1>1, <1>5 DEF Shaped
<1>9. \A r : Stale(r)' <=> Stale(r) BY DEF Stale
<1>10. HeapInv'
  <2>1. \A r \in Readers : ReaderOK(r)'
    BY <1>1, <1>3, <1>7, <1>8, <1>9, ReaderSame
  <2> QED BY <1>4, <1>6, <1>7, <2>1, HeapSteps
<1> QED BY <1>2, <1>3, <1>4, <1>5, <1>7, <1>8, <1>10

\* No read is under way.
LEMMA NoFrames ==
    ASSUME frames = <<>>
    PROVE  FramesInv /\ DOMAIN frames = {} /\ \A r : ~Stale(r)
<1>1. <<>> \in Seq(FrameSet) /\ DOMAIN <<>> = {} OBVIOUS
<1> QED BY <1>1 DEF FramesInv, Stale

LEMMA DestroyStep ==
    ASSUME CommitInv, ReadInv, NEW ref \in DOMAIN heap, Destroy(ref)
    PROVE  ReadInv' /\ OthersChange
<1>1. HeapInv /\ OneInv /\ FramesInv /\ DownInv BY DEF ReadInv
<1>2. /\ phase = "read" /\ frames = <<>> /\ frames' = <<>> /\ Mine(ref) /\ ~IsStub(heap, ref)
      /\ \A other \in DOMAIN heap \ {ref} : Mine(other) => ref \notin LinksOf(heap[other])
      /\ heap' = [heap EXCEPT ![ref].live = FALSE]
      /\ read_set' = [read_set EXCEPT ![heap[ref].logical] = None]
  BY DEF Destroy, Calling
<1>3. UNCHANGED <<stub_depth, map, nil, phase>> /\ Written' = Written /\ Written
  BY <1>2 DEF Destroy, Calling, store, Written
<1>4. PICK a : a = heap[ref].logical OBVIOUS
<1>5. /\ Len(heap) \in Nat /\ DOMAIN heap = 1 .. Len(heap) /\ heap \in Seq(Objs)
      /\ \A r \in DOMAIN heap : heap[r] \in Objs /\ r # None
      /\ ref \in Readers /\ a \in Readables
  <2>1. ref \in Readers BY <1>2 DEF Mine, Readers
  <2> QED BY <1>1, <1>4, <2>1, HeapFacts DEF HeapInv, ReaderOK
<1>6. /\ DOMAIN heap' = DOMAIN heap /\ heap' \in Seq(Objs)
      /\ \A r \in DOMAIN heap :
            heap'[r] = IF r = ref THEN [heap[r] EXCEPT !.live = FALSE] ELSE heap[r]
  <2>1. PICK k : k = Len(heap) OBVIOUS
  <2>2. PICK it : it = [heap[ref] EXCEPT !.live = FALSE] OBVIOUS
  <2>3. it \in Objs
    <3>1. heap[ref] \in Objs BY <1>5
    <3> QED BY <2>2, <3>1 DEF Objs
  <2>4. heap' = [r \in 1 .. k |-> IF r = ref THEN it ELSE heap[r]]
    BY <1>2, <1>5, <2>1, <2>2
  <2>5. \A r \in 1 .. k : heap[r] \in Objs BY <1>5, <2>1
  <2>6. heap' \in [1 .. k -> Objs] BY <2>3, <2>4, <2>5
  <2>7. k \in Nat BY <1>5, <2>1
  <2>8. heap' \in Seq(Objs) BY <2>6, <2>7, SeqDef
  <2>9. DOMAIN heap' = DOMAIN heap BY <1>5, <2>1, <2>4
  <2> QED BY <1>5, <2>1, <2>2, <2>4, <2>8, <2>9
<1>7. \A r \in DOMAIN heap :
         heap'[r] = IF r \in Readers THEN [heap[r] EXCEPT !.live = heap'[r].live] ELSE heap[r]
  <2> TAKE r \in DOMAIN heap
  <2>1. heap[r] \in Objs BY <1>5
  <2>2. CASE r = ref
    <3>1. heap'[r] = [heap[r] EXCEPT !.live = FALSE] BY <1>6, <2>2
    <3>2. heap'[r].live = FALSE BY <2>1, <3>1 DEF Objs
    <3> QED BY <1>5, <2>2, <3>1, <3>2
  <2>3. CASE r # ref
    <3>1. heap'[r] = heap[r] BY <1>6, <2>3
    <3>2. [heap[r] EXCEPT !.live = heap[r].live] = heap[r] BY <2>1 DEF Objs
    <3> QED BY <3>1, <3>2
  <2> QED BY <2>2, <2>3
<1>8. /\ HeapInv' /\ Steady /\ Shaped /\ Readers' = Readers /\ Len(heap') = Len(heap)
      /\ \A r \in DOMAIN heap :
            /\ heap'[r].session = heap[r].session /\ heap'[r].logical = heap[r].logical
            /\ heap'[r].shape = heap[r].shape /\ heap'[r].links = heap[r].links
            /\ IsStubShape(r)' <=> IsStubShape(r)
  BY <1>1, <1>2, <1>3, <1>6, <1>7, Deallocates
<1>9. ~Mine(ref)' /\ \A r \in DOMAIN heap : r # ref => (Mine(r)' <=> Mine(r))
  <2>1. heap[ref] \in Objs BY <1>5
  <2>2. ~heap'[ref].live BY <1>6, <2>1 DEF Objs
  <2> QED BY <1>6, <2>2 DEF Mine
<1>10. read_set[a] = ref /\ a \in DOMAIN read_set
  BY <1>1, <1>2, <1>4, <1>5, OldIs DEF OneInv, OneObjectEach
<1>11. read_set'[a] = None /\ \A b \in DOMAIN read_set : b # a => read_set'[b] = read_set[b]
  BY <1>2, <1>4, <1>10
<1>12. OneInv'
  <2>1. read_set \in [1 .. MaxLogical -> 0 .. Len(heap)] /\ stub_depth \in StubDepths
    BY <1>1 DEF OneInv
  <2>2. read_set' \in [1 .. MaxLogical -> 0 .. Len(heap')]
    <3>1. read_set' = [read_set EXCEPT ![a] = None] BY <1>2, <1>4
    <3>2. None \in 0 .. Len(heap) /\ Len(heap') = Len(heap) BY <1>5, <1>8 DEF None
    <3> QED BY <2>1, <3>1, <3>2
  <2>3. ASSUME NEW r \in DOMAIN heap', Mine(r)' PROVE read_set'[heap'[r].logical] = r
    <3>1. r \in DOMAIN heap /\ r # ref /\ Mine(r) BY <1>6, <1>9, <2>3
    <3>2. read_set[heap[r].logical] = r BY <1>1, <3>1 DEF OneInv, OneObjectEach
    <3>3. r \in Readers BY <3>1 DEF Mine, Readers
    <3>4. heap[r].logical \in DOMAIN read_set BY <1>1, <3>3, OldIs DEF HeapInv, ReaderOK
    <3>5. heap[r].logical # a BY <1>10, <3>1, <3>2
    <3> QED BY <1>8, <1>11, <3>1, <3>2, <3>4, <3>5
  <2>4. ASSUME NEW b \in DOMAIN read_set', read_set'[b] # None
        PROVE  Mine(read_set[b])' /\ heap'[read_set'[b]].logical = b
    <3>1. PICK x : x = read_set[b] OBVIOUS
    <3>2. b # a /\ b \in DOMAIN read_set /\ read_set'[b] = x
      BY <1>2, <1>11, <2>4, <3>1
    <3>3. Mine(x) /\ heap[x].logical = b /\ x \in 0 .. Len(heap)
      BY <1>1, <2>1, <2>4, <3>1, <3>2 DEF OneInv, OneObjectEach
    <3>4. x \in DOMAIN heap BY <1>5, <2>4, <3>2, <3>3 DEF None
    <3>5. x # ref BY <1>4, <3>2, <3>3
    <3>6. Mine(x)' /\ heap'[x].logical = b BY <1>8, <1>9, <3>3, <3>4, <3>5
    <3> QED BY <3>2, <3>6, Zenon DEF Mine
  <2>5. OneObjectEach' BY <2>3, <2>4 DEF OneObjectEach
  <2> QED BY <1>3, <2>1, <2>2, <2>5 DEF OneInv
<1>13. FramesInv' /\ DOMAIN frames' = {}
  <2>1. <<>> \in Seq(FrameSet) /\ DOMAIN <<>> = {} OBVIOUS
  <2> QED BY <1>2, <2>1 DEF FramesInv
<1>14. DownInv'
  <2>1. Acyclic' <=> Acyclic BY <1>8, RankedSame DEF Steady
  <2>2. RanksDown' BY <1>13 DEF RanksDown
  <2>3. ASSUME Acyclic, NEW r \in Readers', Mine(r)'
        PROVE  Stays(heap[r].shape)' /\ \A l \in Range(heap[r].links)' : KeptRef(l)'
    <3>1. r \in Readers /\ r \in DOMAIN heap /\ r # ref /\ Mine(r) /\ ref \notin LinksOf(heap[r])
      BY <1>1, <1>2, <1>8, <1>9, <2>3, HeapFacts
    <3>2. /\ Stays(heap[r].shape) /\ GoodShape(heap[r].shape)
          /\ \A l \in Range(heap[r].links) : KeptRef(l) /\ GoodRef(l)
      BY <1>1, <1>2, <2>3, <3>1 DEF DownInv, ObjectsDown, HeapInv, ReaderOK
    <3>3. PICK s : s = heap[r].shape OBVIOUS
    <3>4. s # ref /\ \A l \in Range(heap[r].links) : l # ref BY <3>1, <3>3 DEF LinksOf
    <3>5. \A l \in FixedSpace : IsFixed(l) BY FixedIs
    <3>6. \A l \in Readers : l \in DOMAIN heap BY DEF Readers
    <3>7. Stays(s)' BY <1>9, <3>2, <3>3, <3>4, <3>5, <3>6 DEF Stays, GoodShape
    <3>8. \A l \in Range(heap[r].links) : KeptRef(l)'
      <4> TAKE l \in Range(heap[r].links)
      <4>1. CASE l \in FixedSpace BY <3>5, <4>1 DEF KeptRef, Stays
      <4>2. CASE l \in Readers
        <5>1. l \in DOMAIN heap /\ l # ref /\ KeptRef(l) BY <3>2, <3>4, <3>6, <4>2
        <5>2. (Mine(l)' <=> Mine(l)) /\ (IsStubShape(l)' <=> IsStubShape(l))
          BY <1>8, <1>9, <5>1
        <5> QED BY <5>1, <5>2 DEF KeptRef, Stays
      <4> QED BY <3>2, <4>1, <4>2 DEF GoodRef
    <3>9. heap'[r].shape = s /\ heap'[r].links = heap[r].links BY <1>8, <3>1, <3>3
    <3>10. Stays(heap[r].shape)' BY <3>7, <3>9 DEF Stays, Mine
    <3>11. Range(heap[r].links)' = Range(heap[r].links) BY <3>9 DEF Range
    <3> QED BY <3>8, <3>10, <3>11
  <2>4. Acyclic => ObjectsDown' BY <2>3 DEF ObjectsDown
  <2> QED BY <1>13, <2>1, <2>2, <2>4 DEF DownInv
<1> QED BY <1>8, <1>12, <1>13, <1>14 DEF ReadInv, Steady

\* The session is destroyed with all that its read set has.
LEMMA DestroySessionStep ==
    ASSUME CommitInv, ReadInv, DestroySession
    PROVE  ReadInv' /\ OthersChange
<1>1. HeapInv /\ OneInv /\ FramesInv /\ DownInv BY DEF ReadInv
<1>2. /\ phase = "read" /\ phase' = "closed" /\ frames = <<>> /\ frames' = <<>>
      /\ heap' = [r \in DOMAIN heap |->
            IF r \in Range(read_set) THEN [heap[r] EXCEPT !.live = FALSE] ELSE heap[r]]
      /\ read_set' = [a \in DOMAIN read_set |-> None]
  BY DEF DestroySession, Calling
<1>3. UNCHANGED <<stub_depth, map, nil>> /\ Written' = Written /\ Written'
  BY <1>2 DEF DestroySession, Calling, store, Written
<1>4. /\ Len(heap) \in Nat /\ DOMAIN heap = 1 .. Len(heap) /\ heap \in Seq(Objs)
      /\ \A r \in DOMAIN heap : heap[r] \in Objs /\ r # None
  BY <1>1, HeapFacts DEF HeapInv
<1>5. \A r \in DOMAIN heap : r \in Range(read_set) => r \in Readers
  BY <1>1, <1>4 DEF OneInv, OneObjectEach, Range, Mine, Readers
<1>6. \A r \in DOMAIN heap : [heap[r] EXCEPT !.live = FALSE] \in Objs BY <1>4 DEF Objs
<1>7. DOMAIN heap' = DOMAIN heap /\ heap' \in Seq(Objs)
  <2>1. PICK k : k = Len(heap) OBVIOUS
  <2>2. heap' \in [1 .. k -> Objs] BY <1>2, <1>4, <1>6, <2>1
  <2>3. k \in Nat BY <1>4, <2>1
  <2>4. heap' \in Seq(Objs) BY <2>2, <2>3, SeqDef
  <2> QED BY <1>2, <2>4
<1>8. \A r \in DOMAIN heap :
         /\ heap'[r] = IF r \in Readers THEN [heap[r] EXCEPT !.live = heap'[r].live] ELSE heap[r]
         /\ heap'[r].live => heap[r].live /\ r \notin Range(read_set)
  <2> TAKE r \in DOMAIN heap
  <2>1. heap[r] \in Objs BY <1>4
  <2>2. CASE r \in Range(read_set)
    <3>1. heap'[r] = [heap[r] EXCEPT !.live = FALSE] BY <1>2, <2>2
    <3>2. heap'[r].live = FALSE BY <2>1, <3>1 DEF Objs
    <3> QED BY <1>5, <2>2, <3>1, <3>2
  <2>3. CASE r \notin Range(read_set)
    <3>1. heap'[r] = heap[r] BY <1>2, <2>3
    <3>2. [heap[r] EXCEPT !.live = heap[r].live] = heap[r] BY <2>1 DEF Objs
    <3> QED BY <2>3, <3>1, <3>2
  <2> QED BY <2>2, <2>3
<1>9. /\ HeapInv' /\ Steady /\ Shaped /\ Readers' = Readers /\ Len(heap') = Len(heap)
      /\ \A r \in DOMAIN heap : heap'[r].session = heap[r].session
  BY <1>1, <1>2, <1>3, <1>7, <1>8, Deallocates
<1>10. \A r \in DOMAIN heap' : ~Mine(r)'
  <2> SUFFICES ASSUME NEW r \in DOMAIN heap, Mine(r)' PROVE FALSE BY <1>7
  <2>1. Mine(r) /\ r \notin Range(read_set) BY <1>8, <1>9 DEF Mine
  <2>2. read_set[heap[r].logical] = r BY <1>1, <2>1 DEF OneInv, OneObjectEach
  <2>3. r \in Readers BY <2>1 DEF Mine, Readers
  <2>4. heap[r].logical \in DOMAIN read_set BY <1>1, <2>3, OldIs DEF HeapInv, ReaderOK
  <2> QED BY <2>1, <2>2, <2>4 DEF Range
<1>11. OneInv'
  <2>1. read_set \in [1 .. MaxLogical -> 0 .. Len(heap)] /\ stub_depth \in StubDepths
    BY <1>1 DEF OneInv
  <2>2. read_set' \in [1 .. MaxLogical -> 0 .. Len(heap')]
    <3>1. None \in 0 .. Len(heap) /\ Len(heap') = Len(heap) BY <1>4, <1>9 DEF None
    <3> QED BY <1>2, <2>1, <3>1
  <2>3. OneObjectEach' BY <1>2, <1>10 DEF OneObjectEach
  <2> QED BY <1>3, <2>1, <2>2, <2>3 DEF OneInv
<1>12. FramesInv'
  <2>1. <<>> \in Seq(FrameSet) /\ DOMAIN <<>> = {} OBVIOUS
  <2> QED BY <1>2, <2>1 DEF FramesInv
<1>13. DownInv' BY <1>2 DEF DownInv
<1> QED BY <1>9, <1>11, <1>12, <1>13 DEF ReadInv, Steady

\* Before the commit the session has the root as it was, or nothing.
LEMMA OnlyRoot ==
    ASSUME CommitInv, ReadInv, ~Written, frames = <<>>, NEW r \in Readers
    PROVE  /\ r = read_set[RootAddress] /\ r \in DOMAIN heap /\ r # None /\ Mine(r)
           /\ heap[r].logical = RootAddress /\ heap[r].physical = map[RootAddress]
           /\ ~IsStubShape(r) /\ Form(r) = RootForm
           /\ heap[r].shape = PrimitiveShape("SLOTTED") /\ heap[r].shape \in FixedSpace
           /\ \A l \in Range(heap[r].links) : l \in FixedSpace
<1>1. HeapInv /\ OneInv /\ ~Stale(r) BY NoFrames DEF ReadInv
<1>2. r \in DOMAIN heap /\ r # None /\ heap[r].session = Reader BY <1>1, HeapFacts DEF Readers
<1>3. Mine(r) /\ ~IsStubShape(r) BY <1>1, <1>2 DEF OneInv, Mine
<1>4. ReaderOK(r) BY <1>1 DEF HeapInv
<1>5. heap[r].logical = RootAddress BY <1>4 DEF ReaderOK, Readables
<1>6. r = read_set[RootAddress] BY <1>1, <1>2, <1>3, <1>5 DEF OneInv, OneObjectEach
<1>7. heap[r].physical = map[RootAddress] /\ Form(r) = RootForm
  BY <1>1, <1>3, <1>4, <1>5 DEF ReaderOK, StoredForm
<1>8. GoodRef(heap[r].shape) /\ \A l \in Range(heap[r].links) : GoodRef(l)
  BY <1>4 DEF ReaderOK, GoodShape, GoodRef
<1>9. /\ Address(heap, heap[r].shape) = PrimitiveShape("SLOTTED")
      /\ [i \in DOMAIN heap[r].links |-> Address(heap, heap[r].links[i])] = <<Nil, Nil>>
  BY <1>7 DEF Form, RootForm
<1>10. heap[r].shape = PrimitiveShape("SLOTTED") /\ heap[r].shape \in FixedSpace
  BY <1>1, <1>8, <1>9, RefIs, TypeShapes
<1>11. \A l \in Range(heap[r].links) : l \in FixedSpace
  <2> TAKE l \in Range(heap[r].links)
  <2>1. PICK i \in DOMAIN heap[r].links : l = heap[r].links[i] BY DEF Range
  <2>2. PICK s : s = [j \in DOMAIN heap[r].links |-> Address(heap, heap[r].links[j])] OBVIOUS
  <2>3. i \in DOMAIN s /\ s[i] = Address(heap, l) BY <2>1, <2>2
  <2>4. s = <<Nil, Nil>> BY <1>9, <2>2
  <2>5. Address(heap, l) = Nil BY <2>3, <2>4
  <2> QED BY <1>1, <1>8, <2>5, RefIs, FixedIs
<1> QED BY <1>2, <1>3, <1>5, <1>6, <1>7, <1>10, <1>11

\* The commit ends, and if the session has the root it is to be refreshed.
LEMMA EndCommitStep ==
    ASSUME CommitInv, ReadInv, EndCommit
    PROVE  ReadInv' /\ Finish
<1>1. HeapInv /\ OneInv /\ FramesInv /\ DownInv /\ FormsInv BY DEF ReadInv, CommitInv
<1>2. PICK mine : mine = read_set[RootAddress] OBVIOUS
<1>3. /\ phase = "write" /\ write_set = {} /\ phase' = "read"
      /\ frames' = IF mine = None THEN <<>>
                   ELSE <<Frame(RootAddress, mine, heap[mine].physical, stub_depth)>>
      /\ UNCHANGED <<stub_depth, store, heap, nil, write_set, stack, read_set>>
  BY <1>2 DEF EndCommit
<1>4. frames = <<>> /\ ~Written /\ Written' /\ map' = map BY <1>1, <1>3 DEF FramesInv, Written, store
<1>5. \A r \in Readers :
         /\ r = mine /\ r \in DOMAIN heap /\ r # None /\ Mine(r)
         /\ heap[r].logical = RootAddress /\ heap[r].physical = map[RootAddress]
         /\ ~IsStubShape(r) /\ Form(r) = RootForm
         /\ heap[r].shape = PrimitiveShape("SLOTTED") /\ heap[r].shape \in FixedSpace
         /\ \A l \in Range(heap[r].links) : l \in FixedSpace
  BY <1>2, <1>4, OnlyRoot
<1>6. /\ Readers' = Readers /\ Programs' = Programs
      /\ \A r : (IsStubShape(r)' <=> IsStubShape(r)) /\ (Mine(r)' <=> Mine(r))
      /\ \A r : Form(r)' = Form(r)
      /\ \A l \in FixedSpace : GoodRef(l)' /\ GoodShape(l)'
      /\ \A l : GoodRef(l)' <=> GoodRef(l)
  BY <1>3 DEF Readers, Programs, IsStubShape, Mine, Form, Address, GoodRef, GoodShape
<1>7. /\ RootAddress \in 1 .. MaxLogical /\ RootAddress \in Readables'
      /\ map[RootAddress] \in 0 .. MaxWord /\ Root \in Programs
      /\ \A o \in Built : heap[o].logical = RootAddress => o = Root
      /\ Root \in Built /\ heap[Root].logical = RootAddress
  <2>1. RootAddress \in Readables BY <1>4 DEF Readables
  <2>2. RootAddress \in 1 .. MaxLogical /\ map[RootAddress] # Unassigned
        /\ map[RootAddress] \in 0 .. MaxWord
    BY <2>1, ReadableIs
  <2>3. RootAddress \in Readables' BY <1>3, <1>4, <2>2 DEF Readables
  <2>4. Root \in Built /\ heap[Root].logical = RootAddress BY DEF CommitInv, PlacedInv
  <2>5. \A o \in Built : heap[o].logical = RootAddress => o = Root BY <2>1, <2>4, ReadableIs
  <2> QED BY <2>2, <2>3, <2>4, <2>5, BuiltOwn
<1>8. HeapInv'
  <2>1. ASSUME NEW r \in Readers PROVE ReaderOK(r)'
    <3>1. Stale(r)'
      <4>1. DOMAIN frames' = {1} /\ frames'[1].target = r BY <1>3, <1>5 DEF Frame
      <4> QED BY <4>1 DEF Stale
    <3>2. heap' = heap /\ heap[r].logical = RootAddress BY <1>3, <1>5
    <3>3. GoodShape(heap[r].shape)'
      <4>1. PICK s \in FixedSpace : s = heap[r].shape BY <1>5
      <4> QED BY <3>2, <4>1 DEF GoodShape
    <3>4. \A l \in Range(heap[r].links)' : GoodRef(l)' BY <1>5, <1>6, <3>2
    <3>5. ~IsStubShape(r)' /\ Form(r)' = RootForm BY <1>5, <1>6
    <3>6. heap'[r].physical = map'[heap'[r].logical] BY <1>4, <1>5, <3>2
    <3>7. heap'[r].logical \in Readables' BY <1>7, <3>2
    <3>8. RootForm' = RootForm BY DEF RootForm
    <3> QED BY <3>1, <3>3, <3>4, <3>5, <3>6, <3>7, <3>8 DEF ReaderOK
  <2>2. ASSUME NEW r \in DOMAIN heap \ (Programs \cup Readers) PROVE FreedOK(r)'
    <3>1. FreedOK(r) BY <1>1 DEF HeapInv
    <3> QED BY <1>3, <3>1 DEF FreedOK, GoodRef, Readers
  <2> QED BY <1>1, <1>3, <1>6, <2>1, <2>2 DEF HeapInv
<1>9. OneInv'
  BY <1>1, <1>3, <1>4 DEF OneInv, OneObjectEach, Mine
<1>10. ASSUME mine # None
       PROVE  /\ mine \in Readers /\ mine \in Nat
              /\ frames' = <<Frame(RootAddress, mine, map[RootAddress], stub_depth)>>
  <2>1. RootAddress \in Readables BY <1>4 DEF Readables
  <2>2. mine \in Readers BY <1>1, <1>2, <1>10, <2>1, OldIs
  <2>3. heap[mine].physical = map[RootAddress] BY <1>5, <2>2
  <2>4. mine \in Nat BY <1>1, <2>2, HeapFacts
  <2> QED BY <1>3, <1>10, <2>2, <2>3, <2>4
<1>11. PICK top : top = Frame(RootAddress, mine, map[RootAddress], stub_depth) OBVIOUS
<1>12. /\ top.address = RootAddress /\ top.target = mine /\ top.base = map[RootAddress]
       /\ top.depth = stub_depth /\ top.shape = None /\ top.links = <<>>
       /\ stub_depth \in Nat /\ stub_depth > 0
       /\ mine # None => top \in FrameSet
  <2>1. stub_depth \in Nat /\ stub_depth > 0 BY <1>1, ObjectsAssumption DEF OneInv
  <2>2. RootAddress \in Nat /\ map[RootAddress] \in Nat BY <1>7, Constant
  <2> QED BY <1>10, <1>11, <2>1, <2>2 DEF Frame, FrameSet, None
<1>13. DOMAIN frames' = (IF mine = None THEN {} ELSE {1}) /\ (mine # None => frames'[1] = top)
  BY <1>3, <1>10, <1>11
<1>14. ASSUME mine # None PROVE FrameOK(top)'
  <2>1. Len(<<>>) <= Len(StoredForm(RootAddress).links)'
    <3>1. Original(RootAddress)' = Root
      <4>1. Built' = Built BY <1>3 DEF Built
      <4> QED BY <1>3, <1>7, <4>1 DEF Original
    <3>2. StoredForm(RootAddress)' = Form(Root)'
      BY <1>4, <3>1 DEF StoredForm, Form
    <3>3. Form(Root)' = Form(Root) BY <1>6
    <3>4. Form(Root).links \in Seq(Nat) BY <1>1, <1>7, WordsReserved DEF Form
    <3>5. Len(Form(Root).links) \in Nat BY <3>4
    <3> QED BY <3>2, <3>3, <3>5
  <2>2. mine = read_set'[RootAddress] /\ ~IsStubShape(mine)'
    BY <1>2, <1>3, <1>5, <1>6, <1>10, <1>14
  <2> QED BY <1>4, <1>7, <1>12, <2>1, <2>2 DEF FrameOK
<1>15. FramesInv'
  <2>1. frames' \in Seq(FrameSet) BY <1>3, <1>10, <1>11, <1>12
  <2>2. \A i \in DOMAIN frames' : i = 1 /\ mine # None BY <1>13
  <2>3. \A i \in DOMAIN frames' : FrameOK(frames[i])'
    BY <1>13, <1>14, <2>2, Zenon DEF FrameOK
  <2> QED BY <1>3, <1>4, <2>1, <2>2, <2>3 DEF FramesInv
<1>16. DownInv'
  <2>1. ObjectsDown'
    <3> SUFFICES ASSUME NEW r \in Readers
                 PROVE  Stays(heap[r].shape)' /\ \A l \in Range(heap[r].links) : KeptRef(l)'
      BY <1>3, <1>6 DEF ObjectsDown
    <3>1. \A l \in FixedSpace : Stays(l)' /\ KeptRef(l)' BY FixedIs DEF Stays, KeptRef
    <3>2. PICK s \in FixedSpace : s = heap[r].shape BY <1>5
    <3>3. Stays(heap[r].shape)' BY <1>3, <3>1, <3>2 DEF Stays, Mine
    <3> QED BY <1>5, <3>1, <3>3
  <2>2. \A i \in DOMAIN frames' : FrameDown(frames[i])'
    <3>1. ASSUME mine # None PROVE FrameDown(top)'
      <4>1. Range(<<>>) = {} BY DEF Range
      <4> QED BY <1>12, <3>1, <4>1 DEF FrameDown
    <3> QED BY <1>13, <3>1, Zenon DEF FrameDown
  <2>3. RanksDown' BY <1>13 DEF RanksDown
  <2> QED BY <2>1, <2>2, <2>3 DEF DownInv
<1>17. Finish
  <2>1. OthersChange BY <1>3, SameKept
  <2> QED BY <1>3, <2>1 DEF Finish
<1> QED BY <1>8, <1>9, <1>15, <1>16, <1>17 DEF ReadInv

-------------------------------------------------------------------------------
(* Calls of the program that reads *)

\* What the program reads by its address is stored.
LEMMA AtAddressStep ==
    ASSUME CommitInv, ReadInv, NEW a \in 1 .. MaxLogical, NEW depth \in StubDepths,
           map[a] # Unassigned, AtAddress(a, depth)
    PROVE  ReadInv' /\ OthersChange
<1>1. /\ phase \in {"open", "read"} /\ frames = <<>> /\ phase' = phase
      /\ UNCHANGED <<stub_depth, store, write_set, stack>> /\ At(a, depth)
  BY DEF AtAddress, Calling
<1>2. a \in Readables
  <2>1. CASE phase = "read" BY <2>1 DEF Readables, Written
  <2>2. CASE phase = "open"
    <3>1. PICK o \in Built : heap[o].logical = a BY DEF CommitInv, PlacedInv
    <3>2. o = Root BY <2>2, <3>1 DEF CommitInv, VisitInv
    <3>3. a = RootAddress BY <3>1, <3>2 DEF CommitInv, PlacedInv
    <3> QED BY <2>2, <3>3 DEF Readables, Written
  <2> QED BY <1>1, <2>1, <2>2
<1>3. depth \in Nat /\ depth # 0 BY ObjectsAssumption
<1>4. UNCHANGED <<stub_depth, store, write_set, phase, stack>> BY <1>1
<1> QED BY <1>1, <1>2, <1>3, <1>4, AtStep

\* A slot of an object of the session that has a stub: the stub has the address.
LEMMA SlotAtStep ==
    ASSUME CommitInv, ReadInv, NEW ref \in DOMAIN heap, NEW i \in DOMAIN heap[ref].links,
           SlotAt(ref, i)
    PROVE  ReadInv' /\ OthersChange
<1>1. PICK target : target = heap[ref].links[i] OBVIOUS
<1>2. /\ phase \in {"open", "read"} /\ frames = <<>> /\ phase' = phase
      /\ UNCHANGED <<stub_depth, store, write_set, stack>>
      /\ Mine(ref) /\ ~IsFixed(target) /\ IsStub(heap, target)
      /\ At(heap[target].data[1], stub_depth)
  BY <1>1 DEF SlotAt, Calling
<1>3. HeapInv /\ OneInv /\ FramesInv BY DEF ReadInv
<1>4. target \in Readers
  <2>1. ref \in Readers BY <1>2 DEF Mine, Readers
  <2>2. target \in Range(heap[ref].links) BY <1>1 DEF Range
  <2>3. GoodRef(target) BY <1>3, <2>1, <2>2 DEF HeapInv, ReaderOK
  <2> QED BY <1>2, <2>3, FixedIs DEF GoodRef
<1>5. IsStubShape(target) BY <1>2, <1>3, <1>4, StubIs
<1>6. heap[target].data = <<heap[target].logical>> /\ heap[target].logical \in Readables
  BY <1>3, <1>4, <1>5 DEF HeapInv, ReaderOK
<1>7. heap[target].data[1] \in Readables BY <1>6
<1>8. stub_depth \in Nat /\ stub_depth # 0 BY <1>3, ObjectsAssumption DEF OneInv
<1>9. UNCHANGED <<stub_depth, store, write_set, phase, stack>> BY <1>2
<1> QED BY <1>2, <1>7, <1>8, <1>9, AtStep

\* While the commit is under way there is at most the root, as it was before.
LEMMA CommitsStep ==
    ASSUME CommitInv, ReadInv, Commits
    PROVE  ReadInv'
<1>1. HeapInv /\ OneInv /\ FramesInv /\ FormsInv /\ PlacedInv /\ VisitInv /\ SpaceTypeOK
  BY DEF ReadInv, CommitInv, SpaceInv
<1>2. frames = <<>> /\ frames' = <<>> /\ UNCHANGED <<stub_depth, read_set>> BY DEF Commits
<1>3. ~Written /\ ~Written' /\ nil' = nil
  BY DEF Commits, Written, BeginCommit, Visit, Skip, Scanned, Write
<1>4. /\ Len(heap) \in Nat /\ DOMAIN heap = 1 .. Len(heap) /\ heap \in Seq(Objs)
      /\ Len(heap) < FixedMin
  BY <1>1, HeapFacts DEF HeapInv
<1>5. /\ Programs' = Programs /\ DOMAIN heap' = DOMAIN heap
      /\ heap' \in Seq(Objs) /\ Len(heap') = Len(heap)
      /\ \A r \in DOMAIN heap \ Programs : heap'[r] = heap[r]
      /\ \A r \in Programs : heap'[r].session # Reader
      /\ map'[RootAddress] = map[RootAddress]
  <2>1. \A r \in Programs : heap[r].session # Reader BY Constant DEF Programs
  <2>2. CASE Visit
    <3>1. PICK o : o = Head(stack) OBVIOUS
    <3>2. /\ o \in Programs /\ Programs' = Programs /\ heap'[o] \in Objs
          /\ \A r \in Programs \ {o} : heap'[r] = heap[r]
      BY <1>1, <2>2, <3>1, VisitFacts
    <3>3. /\ heap' = [heap EXCEPT ![o].session = Writer, ![o].logical = next_logical,
                                  ![o].physical = next_physical]
          /\ map' = [map EXCEPT ![next_logical] = next_physical]
      BY <2>2, <3>1 DEF Visit
    <3>4. o \in DOMAIN heap BY <3>2, BuiltOwn
    <3>5. /\ DOMAIN heap' = DOMAIN heap /\ heap'[o].session = Writer
          /\ \A r \in DOMAIN heap \ {o} : heap'[r] = heap[r]
      <4>1. heap[o] \in Objs BY <1>4, <3>4
      <4> QED BY <3>3, <3>4, <4>1 DEF Objs
    <3>6. heap' \in Seq(Objs) /\ Len(heap') = Len(heap)
      <4>1. PICK k \in Nat : k = Len(heap) BY <1>4
      <4>2. heap' = [r \in 1 .. k |-> heap'[r]] BY <1>4, <3>3, <4>1
      <4>3. \A r \in 1 .. k : heap'[r] \in Objs BY <1>4, <3>2, <3>5, <4>1
      <4>4. heap' \in [1 .. k -> Objs] BY <4>2, <4>3
      <4>5. heap' \in Seq(Objs) BY <4>4, SeqDef
      <4>6. DOMAIN heap' = 1 .. Len(heap') /\ Len(heap') \in Nat BY <4>5
      <4>7. Len(heap') = k BY <1>4, <3>5, <4>1, <4>6
      <4> QED BY <4>1, <4>5, <4>7
    <3>7. map'[RootAddress] = map[RootAddress]
      <4>1. RootAddress # next_logical /\ map \in [1 .. MaxLogical -> 0 .. MaxWord]
        BY <1>1, Constant DEF PlacedInv
      <4> QED BY <3>3, <4>1
    <3>8. Writer # Reader BY Constant
    <3> QED BY <2>1, <3>2, <3>5, <3>6, <3>7, <3>8
  <2>3. CASE ~Visit
    <3>1. UNCHANGED <<heap, map>>
      BY <2>3 DEF Commits, BeginCommit, Skip, Scanned, Write, store
    <3>2. Programs' = Programs BY <3>1 DEF Programs
    <3> QED BY <1>4, <2>1, <3>1, <3>2
  <2> QED BY <2>2, <2>3
<1>6. Readers' = Readers /\ \A r \in Readers : heap'[r] = heap[r] /\ r \in DOMAIN heap
  <2>1. \A r \in DOMAIN heap : r \in Readers' <=> r \in Readers
    <3> TAKE r \in DOMAIN heap
    <3>1. CASE r \in Programs BY <1>1, <1>5, <3>1, HeapFacts DEF Readers
    <3>2. CASE r \notin Programs BY <1>5, <3>2 DEF Readers
    <3> QED BY <3>1, <3>2
  <2>2. Readers \subseteq DOMAIN heap /\ Readers' \subseteq DOMAIN heap BY <1>5 DEF Readers
  <2>3. \A r \in Readers : r \notin Programs BY <1>1, HeapFacts
  <2> QED BY <1>5, <2>1, <2>2, <2>3
<1>7. \A l : GoodRef(l)' <=> GoodRef(l) BY <1>6 DEF GoodRef
<1>8. ASSUME NEW r \in Readers PROVE ReaderOK(r)'
  <2>1. /\ heap[r].logical = RootAddress /\ heap[r].physical = map[RootAddress]
        /\ ~IsStubShape(r) /\ Form(r) = RootForm /\ heap[r].shape \in FixedSpace
        /\ \A l \in Range(heap[r].links) : l \in FixedSpace
    BY <1>2, <1>3, <1>8, OnlyRoot
  <2>2. heap'[r] = heap[r] BY <1>6, <1>8
  <2>3. heap'[r].logical \in Readables' BY <1>3, <2>1, <2>2 DEF Readables
  <2>4. GoodShape(heap[r].shape)'
    <3>1. PICK s \in FixedSpace : s = heap[r].shape BY <2>1
    <3> QED BY <2>2, <3>1 DEF GoodShape
  <2>5. \A l \in Range(heap[r].links)' : GoodRef(l)' BY <2>1, <2>2 DEF GoodRef
  <2>6. ~IsStubShape(r)' BY <2>1, <2>2 DEF IsStubShape
  <2>7. \A l \in FixedSpace : Address(heap, l)' = Address(heap, l)
    BY <1>3, FixedIs DEF Address
  <2>8. Form(r)' = Form(r)
    <3>1. \A l \in LinksOf(heap[r]) : l \in FixedSpace BY <2>1 DEF LinksOf
    <3> QED BY <2>2, <2>7, <3>1, FormSame
  <2>9. RootForm' = RootForm BY DEF RootForm
  <2>10. StoredForm(heap[r].logical)' = RootForm' /\ ~Stale(r)'
    BY <1>2, <1>3 DEF StoredForm, Stale
  <2>11. heap'[r].physical = map'[heap'[r].logical] BY <1>5, <2>1, <2>2
  <2> QED BY <2>1, <2>3, <2>4, <2>5, <2>6, <2>8, <2>9, <2>10, <2>11 DEF ReaderOK
<1>9. HeapInv'
  <2>1. ASSUME NEW r \in DOMAIN heap \ (Programs \cup Readers) PROVE FreedOK(r)'
    <3>1. FreedOK(r) /\ heap'[r] = heap[r] BY <1>1, <1>5, <2>1 DEF HeapInv
    <3>2. PICK s, ls : s = heap[r].shape /\ ls = heap[r].links OBVIOUS
    <3>3. heap'[r].shape = s /\ heap'[r].links = ls BY <3>1, <3>2
    <3>4. GoodRef(s) /\ \A l \in Range(ls) : GoodRef(l) BY <3>1, <3>2, Zenon DEF FreedOK
    <3>5. GoodRef(s)' /\ \A l \in Range(ls) : GoodRef(l)' BY <1>7, <3>4
    <3>6. GoodRef(heap[r].shape)' BY <3>3, <3>5, Zenon DEF GoodRef
    <3>7. Range(heap[r].links)' = Range(ls) BY <3>3 DEF Range
    <3> QED BY <3>1, <3>5, <3>6, <3>7 DEF FreedOK
  <2> QED BY <1>4, <1>5, <1>6, <1>8, <2>1 DEF HeapInv
<1>10. OneInv'
  <2>1. \A r \in DOMAIN heap : Mine(r) => r \in Readers BY DEF Mine, Readers
  <2>2. \A r \in DOMAIN heap : Mine(r)' <=> Mine(r)
    <3> TAKE r \in DOMAIN heap
    <3>1. CASE r \in Readers BY <1>6, <3>1 DEF Mine
    <3>2. CASE r \notin Readers BY <1>5, <1>6, <3>2 DEF Mine, Readers
    <3> QED BY <3>1, <3>2
  <2>3. /\ \A r \in DOMAIN heap : Mine(r) => read_set[heap[r].logical] = r
        /\ \A a \in DOMAIN read_set :
              read_set[a] # None => Mine(read_set[a]) /\ heap[read_set[a]].logical = a
        /\ read_set \in [1 .. MaxLogical -> 0 .. Len(heap)] /\ stub_depth \in StubDepths
        /\ \A r \in Readers : heap[r].live /\ ~IsStubShape(r)
    BY <1>1, <1>3 DEF OneInv, OneObjectEach
  <2>4. ASSUME NEW r \in DOMAIN heap', Mine(r)' PROVE read_set'[heap'[r].logical] = r
    <3>1. r \in DOMAIN heap /\ Mine(r) BY <1>5, <2>2, <2>4
    <3> QED BY <1>2, <1>6, <2>1, <2>3, <3>1
  <2>5. ASSUME NEW a \in DOMAIN read_set', read_set'[a] # None
        PROVE  Mine(read_set[a])' /\ heap'[read_set'[a]].logical = a
    <3>1. PICK x : x = read_set[a] OBVIOUS
    <3>2. read_set'[a] = x /\ a \in DOMAIN read_set /\ x # None BY <1>2, <2>5, <3>1
    <3>3. Mine(x) /\ heap[x].logical = a /\ x \in 0 .. Len(heap) BY <2>3, <3>1, <3>2
    <3>4. x \in DOMAIN heap BY <1>4, <3>2, <3>3 DEF None
    <3>5. Mine(x)' /\ heap'[x].logical = a BY <1>6, <2>1, <2>2, <3>3, <3>4
    <3> QED BY <3>2, <3>5, Zenon DEF Mine
  <2>6. OneObjectEach' BY <2>4, <2>5 DEF OneObjectEach
  <2>7. \A r \in Readers' : heap'[r].live /\ ~IsStubShape(r)' BY <1>6, <2>3 DEF IsStubShape
  <2> QED BY <1>2, <1>5, <2>3, <2>6, <2>7 DEF OneInv
<1>11. FramesInv'
  <2>1. <<>> \in Seq(FrameSet) /\ DOMAIN <<>> = {} OBVIOUS
  <2> QED BY <1>2, <2>1 DEF FramesInv
<1>12. DownInv' BY <1>3 DEF DownInv, Written
<1> QED BY <1>9, <1>10, <1>11, <1>12 DEF ReadInv

-------------------------------------------------------------------------------
(* The inductive invariant *)

LEMMA InvInit == Init => Inv
<1> SUFFICES ASSUME Init PROVE Inv OBVIOUS
<1>1. CommitInv BY CommitInvInit DEF Init
<1>2. /\ heap \in Seq(Objs) /\ Len(heap) < FixedMin
      /\ \A r \in DOMAIN heap : heap[r].live /\ heap[r].session \in {Writer, NoSession}
      /\ phase = "open" /\ stub_depth \in StubDepths /\ frames = <<>>
      /\ read_set = [a \in 1 .. MaxLogical |-> None]
  <2>1. heap \in Graphs /\ phase = "open" BY DEF Init, CommitInit
  <2>2. \A r \in DOMAIN heap : heap[r].live /\ heap[r].session \in {Writer, NoSession}
    BY <2>1, GraphsAssumption
  <2> QED BY <2>1, <2>2, GraphsAssumption DEF Init
<1>3. Readers = {} /\ \A r \in DOMAIN heap : ~Mine(r)
  BY <1>2, Constant DEF Readers, Mine
<1>4. Programs = DOMAIN heap BY <1>2 DEF Programs
<1>5. HeapInv BY <1>2, <1>3, <1>4 DEF HeapInv
<1>6. OneInv
  <2>1. None \in 0 .. Len(heap) BY <1>2 DEF None
  <2>2. read_set \in [1 .. MaxLogical -> 0 .. Len(heap)] BY <1>2, <2>1
  <2>3. OneObjectEach BY <1>2, <1>3 DEF OneObjectEach
  <2> QED BY <1>2, <1>3, <2>2, <2>3 DEF OneInv
<1>7. FramesInv
  <2>1. <<>> \in Seq(FrameSet) /\ DOMAIN <<>> = {} OBVIOUS
  <2> QED BY <1>2, <2>1 DEF FramesInv
<1>8. DownInv BY <1>2 DEF DownInv
<1> QED BY <1>1, <1>5, <1>6, <1>7, <1>8 DEF Inv, ReadInv

\* What a call of the other session leaves alone.
LEMMA CallStep ==
    ASSUME phase \in {"open", "read"}, OthersChange,
           phase' = phase \/ (phase = "read" /\ phase' = "closed"),
           UNCHANGED <<store, nil, write_set, stack>>
    PROVE  CommitNext
BY DEF CommitNext, Elsewhere

\* Nothing that is said of the heap and of frames changes when they do not.
LEMMA NothingStep ==
    ASSUME ReadInv, UNCHANGED vars
    PROVE  ReadInv'
<1>1. UNCHANGED <<stub_depth, read_set, frames, content, map, heap, nil, phase>>
  BY DEF vars, commit_vars, store
<1>2. /\ Readers' = Readers /\ Programs' = Programs /\ Built' = Built
      /\ (Written' <=> Written) /\ RootForm' = RootForm
  BY <1>1 DEF Readers, Programs, Built, Written, RootForm
<1>3. Readables' = Readables BY <1>1, <1>2 DEF Readables
<1>4. \A l : GoodRef(l)' <=> GoodRef(l) BY <1>2 DEF GoodRef
<1>5. \A l : IsStubShape(l)' <=> IsStubShape(l) BY <1>1 DEF IsStubShape
<1>6. \A l : Address(heap, l)' = Address(heap, l) BY <1>1, Zenon DEF Address
<1>7. \A l : Mine(l)' <=> Mine(l) BY <1>1 DEF Mine
<1>8. \A l : Stale(l)' <=> Stale(l) BY <1>1 DEF Stale
<1>9. \A l : GoodShape(l)' <=> GoodShape(l) BY <1>2, <1>5 DEF GoodShape
<1>10. \A l : (Stays(l)' <=> Stays(l)) /\ (KeptRef(l)' <=> KeptRef(l))
  BY <1>5, <1>7 DEF Stays, KeptRef
<1>11. \A l : Form(l)' = Form(l) BY <1>1, Zenon DEF Form, Address
<1>12. \A a : Original(a)' = Original(a) BY <1>1, <1>2, Zenon DEF Original
<1>13. \A a : StoredForm(a)' = StoredForm(a)
  <2> TAKE a
  <2>1. PICK o : o = Original(a) OBVIOUS
  <2>2. Original(a)' = o /\ Form(o)' = Form(o) BY <1>11, <1>12, <2>1
  <2>3. Form(Original(a))' = Form(o)' BY <2>2 DEF Form
  <2>4. Form(Original(a)) = Form(o) BY <2>1
  <2> QED BY <1>2, <2>2, <2>3, <2>4 DEF StoredForm
<1>14. \A a : Resolved(a)' <=> Resolved(a) BY <1>1, Zenon DEF Resolved, IsStubShape
<1>15. \A r : ReaderOK(r)' <=> ReaderOK(r)
  <2> TAKE r
  <2>1. PICK a, s : a = heap[r].logical /\ s = heap[r].shape OBVIOUS
  <2>2. heap'[r].logical = a /\ heap'[r].shape = s BY <1>1, <2>1
  <2>3. StoredForm(heap[r].logical)' = StoredForm(heap[r].logical)
    <3>1. StoredForm(heap[r].logical)' = StoredForm(a)' BY <2>2 DEF StoredForm, Form, Original
    <3> QED BY <1>13, <2>1, <3>1
  <2>4. GoodShape(heap[r].shape)' <=> GoodShape(heap[r].shape)
    BY <1>1, Zenon DEF GoodShape, Readers, IsStubShape
  <2> QED BY <1>1, <1>3, <1>4, <1>5, <1>8, <1>11, <1>2, <2>3, <2>4 DEF ReaderOK
<1>16. \A r : FreedOK(r)' <=> FreedOK(r)
  <2> TAKE r
  <2>1. GoodRef(heap[r].shape)' <=> GoodRef(heap[r].shape) BY <1>1, Zenon DEF GoodRef, Readers
  <2> QED BY <1>1, <1>4, <2>1 DEF FreedOK
<1>17. HeapInv' BY <1>1, <1>2, <1>15, <1>16 DEF ReadInv, HeapInv
<1>18. OneInv' BY <1>1, <1>2, <1>5, <1>7 DEF ReadInv, OneInv, OneObjectEach, Mine
<1>19. \A f, a : Waiting(f, a)' <=> Waiting(f, a)
  BY <1>13, Zenon DEF Waiting, StoredForm
<1>20. FramesInv'
  <2>1. \A f : FrameOK(f)' <=> FrameOK(f)
    <3> TAKE f
    <3>1. StoredForm(f.address)' = StoredForm(f.address) BY <1>13
    <3>2. GoodShape(f.shape)' <=> GoodShape(f.shape) BY <1>9
    <3>3. Address(heap, f.shape)' = Address(heap, f.shape) BY <1>6
    <3>4. IsStubShape(f.target)' <=> IsStubShape(f.target) BY <1>5
    <3>5. \A j : /\ GoodRef(f.links[j])' <=> GoodRef(f.links[j])
                /\ Address(heap, f.links[j])' = Address(heap, f.links[j])
      BY <1>4, <1>6
    <3> QED BY <1>1, <1>2, <1>3, <3>1, <3>2, <3>3, <3>4, <3>5 DEF FrameOK
  <2>2. ASSUME NEW i \in DOMAIN frames PROVE FrameOK(frames[i])'
    <3>1. PICK f : f = frames[i] OBVIOUS
    <3>2. frames'[i] = f /\ FrameOK(f)' BY <1>1, <2>1, <2>2, <3>1, Zenon DEF ReadInv, FramesInv
    <3> QED BY <3>2, Zenon DEF FrameOK
  <2>3. ASSUME NEW i \in DOMAIN frames, i > 1
        PROVE  Waiting(frames[i - 1], frames[i].address)'
    <3>1. PICK f, a : f = frames[i - 1] /\ a = frames[i].address OBVIOUS
    <3>2. frames'[i - 1] = f /\ frames'[i].address = a BY <1>1, <3>1
    <3>3. Waiting(f, a) BY <2>3, <3>1 DEF ReadInv, FramesInv
    <3>4. Waiting(f, a)' BY <1>19, <3>3
    <3> QED BY <3>2, <3>4, Zenon DEF Waiting
  <2> QED BY <1>1, <1>2, <2>2, <2>3 DEF ReadInv, FramesInv
<1>21. DownInv'
  <2>1. Acyclic' <=> Acyclic BY <1>1, <1>2 DEF Acyclic
  <2>2. \A rank : Ranked(rank)' <=> Ranked(rank) BY <1>1, <1>2 DEF Ranked
  <2>3. ObjectsDown' <=> ObjectsDown
    <3>1. ASSUME NEW r PROVE Stays(heap[r].shape)' <=> Stays(heap[r].shape)
      BY <1>1 DEF Stays, Mine
    <3> QED BY <1>1, <1>2, <1>7, <1>10, <3>1 DEF ObjectsDown
  <2>4. RanksDown' <=> RanksDown
    <3>1. ASSUME NEW i PROVE Original(frames[i].address)' = Original(frames[i].address)
      BY <1>1, <1>2 DEF Original
    <3> QED BY <1>1, <1>2, <2>2, <3>1 DEF RanksDown
  <2>5. \A f : FrameDown(f)' <=> FrameDown(f) BY <1>10, <1>14 DEF FrameDown
  <2>6. ASSUME NEW i PROVE FrameDown(frames[i])' <=> FrameDown(frames[i])
    <3>1. PICK f : f = frames[i] OBVIOUS
    <3>2. frames'[i] = f BY <1>1, <3>1
    <3>3. FrameDown(frames[i])' <=> FrameDown(f)' BY <3>2 DEF FrameDown, Resolved, IsStubShape
    <3> QED BY <2>5, <3>1, <3>3
  <2> QED BY <1>1, <2>1, <2>3, <2>4, <2>6 DEF ReadInv, DownInv
<1> QED BY <1>17, <1>18, <1>20, <1>21 DEF ReadInv

LEMMA InvStep == Inv /\ [Next]_vars => Inv' /\ [CommitNext]_commit_vars
<1> SUFFICES ASSUME Inv, [Next]_vars PROVE Inv' /\ [CommitNext]_commit_vars OBVIOUS
<1>1. CommitInv /\ ReadInv BY DEF Inv
<1>2. SUFFICES ReadInv' /\ [CommitNext]_commit_vars BY <1>1, CommitInvStep DEF Inv
<1>3. CASE Commits
  <2>1. CommitNext BY <1>3 DEF Commits, CommitNext
  <2> QED BY <1>1, <1>3, <2>1, CommitsStep
<1>4. CASE EndCommit
  BY <1>1, <1>4, EndCommitStep DEF CommitNext
<1>5. ASSUME ReadShape \/ ReadLink \/ EndRead \/ EndRefresh
      PROVE  ReadInv' /\ CommitNext
  <2>1. ReadInv' /\ OthersChange
    BY <1>1, <1>5, ReadShapeStep, ReadLinkStep, EndReadStep, EndRefreshStep
  <2>2. Reads BY <1>5 DEF ReadShape, ReadLink, EndRead, EndRefresh, Complete
  <2>3. phase \in {"open", "read"} BY <1>1, <2>2, TopIs
  <2>4. nil' = nil
    <3>1. CASE EndRead BY <1>1, <3>1, EndReadStep
    <3>2. CASE ReadShape \/ ReadLink \/ EndRefresh
      BY <3>2 DEF ReadShape, ReadLink, EndRefresh, At, Answer
    <3> QED BY <1>5, <3>1, <3>2
  <2>5. phase' = phase /\ UNCHANGED <<store, write_set, stack>> BY <2>2 DEF Reads
  <2> QED BY <2>1, <2>3, <2>4, <2>5, CallStep
<1>6. ASSUME NEW a \in 1 .. MaxLogical, NEW depth \in StubDepths,
             map[a] # Unassigned, AtAddress(a, depth)
      PROVE  ReadInv' /\ CommitNext
  <2>1. ReadInv' /\ OthersChange BY <1>1, <1>6, AtAddressStep
  <2>2. /\ phase \in {"open", "read"} /\ phase' = phase
        /\ UNCHANGED <<store, nil, write_set, stack>>
    BY <1>6 DEF AtAddress, Calling, At, Answer
  <2> QED BY <2>1, <2>2, CallStep
<1>7. ASSUME NEW ref \in DOMAIN heap, NEW i \in DOMAIN heap[ref].links, SlotAt(ref, i)
      PROVE  ReadInv' /\ CommitNext
  <2>1. ReadInv' /\ OthersChange BY <1>1, <1>7, SlotAtStep
  <2>2. /\ phase \in {"open", "read"} /\ phase' = phase
        /\ UNCHANGED <<store, nil, write_set, stack>>
    BY <1>7 DEF SlotAt, Calling, At, Answer
  <2> QED BY <2>1, <2>2, CallStep
<1>8. ASSUME NEW ref \in DOMAIN heap, Destroy(ref) PROVE ReadInv' /\ CommitNext
  <2>1. ReadInv' /\ OthersChange BY <1>1, <1>8, DestroyStep
  <2>2. /\ phase \in {"open", "read"} /\ phase' = phase
        /\ UNCHANGED <<store, nil, write_set, stack>>
    BY <1>8 DEF Destroy, Calling
  <2> QED BY <2>1, <2>2, CallStep
<1>9. ASSUME DestroySession PROVE ReadInv' /\ CommitNext
  <2>1. ReadInv' /\ OthersChange BY <1>1, <1>9, DestroySessionStep
  <2>2. /\ phase = "read" /\ phase' = "closed"
        /\ UNCHANGED <<store, nil, write_set, stack>>
    BY <1>9 DEF DestroySession, Calling
  <2> QED BY <2>1, <2>2, CallStep
<1>10. CASE UNCHANGED vars
  <2>1. UNCHANGED commit_vars BY <1>10 DEF vars
  <2> QED BY <1>1, <1>10, <2>1, NothingStep
<1> QED BY <1>3, <1>4, <1>5, <1>6, <1>7, <1>8, <1>9, <1>10 DEF Next

(***************************************************************************)
(* The inductive invariant of a commit and of the reads of another         *)
(* session: for any graph of well formed objects, any order of reads and   *)
(* any depth, what is read so far is part of what is stored.               *)
(***************************************************************************)
THEOREM ObjectInvariant == Spec => []Inv
<1>1. Inv /\ [Next]_vars => Inv' BY InvStep
<1> QED BY InvInit, <1>1, PTL DEF Spec

(***************************************************************************)
(* Every step of the calls of the session that reads is one that the       *)
(* commit allows another session: Objects implements what Commits promises *)
(* (_obl_read_object and _obl_set_insert change nothing that is committed).*)
(***************************************************************************)
THEOREM ReadsLeaveCommits == Spec => CommitSpec
<1>1. Init => CommitInit BY DEF Init
<1>2. Inv /\ [Next]_vars => [CommitNext]_commit_vars BY InvStep
<1> QED BY ObjectInvariant, <1>1, <1>2, PTL DEF Spec, CommitSpec

-------------------------------------------------------------------------------
(* What holds of what is read *)

(***************************************************************************)
(* Every reference is of the heap or of fixed space, every address is one  *)
(* that was given, and the frames are of objects that are stored.          *)
(***************************************************************************)
THEOREM ObjectTypes == Spec => []TypeOK
<1>1. Inv => TypeOK
  <2> SUFFICES ASSUME Inv PROVE TypeOK OBVIOUS
  <2>1. /\ CommitInv /\ HeapInv /\ OneInv /\ FramesInv
        /\ SpaceTypeOK /\ FormsInv /\ PlacedInv /\ VisitInv /\ WordsInv
    BY DEF Inv, ReadInv, CommitInv, SpaceInv
  <2>2. /\ Len(heap) \in Nat /\ DOMAIN heap = 1 .. Len(heap)
        /\ \A r \in DOMAIN heap : heap[r] \in Objs
        /\ Built \subseteq DOMAIN heap /\ Programs \subseteq DOMAIN heap
        /\ Readers \subseteq DOMAIN heap
    BY <2>1, HeapFacts, BuiltOwn
  <2>3. /\ \A l : GoodRef(l) \/ GoodShape(l) \/ Own(l) => l \in Refs
        /\ DOMAIN heap \subseteq Refs
    BY <2>2 DEF GoodRef, GoodShape, Own, Refs, FixedSpace
  <2>4. Unassigned \in 0 .. MaxLogical /\ Unassigned \in 0 .. MaxWord
    BY Constant DEF Unassigned
  <2>5. \A a \in Readables : a \in 1 .. MaxLogical /\ map[a] \in 0 .. MaxWord
    BY <2>1, ReadableIs
  <2>6. ASSUME NEW r \in DOMAIN heap
        PROVE  /\ heap[r].live \in BOOLEAN /\ heap[r].session \in {NoSession, Writer, Reader}
               /\ heap[r].logical \in 0 .. MaxLogical /\ heap[r].physical \in 0 .. MaxWord
               /\ heap[r].shape \in Refs /\ Range(heap[r].links) \subseteq Refs
    <3>1. heap[r].live \in BOOLEAN /\ heap[r].session \in {NoSession, Writer, Reader}
      BY <2>2, <2>6 DEF Objs
    <3>2. CASE r \in Readers
      <4>1. /\ heap[r].logical \in Readables /\ GoodShape(heap[r].shape)
            /\ \A l \in Range(heap[r].links) : GoodRef(l)
            /\ heap[r].physical = Unassigned \/ heap[r].physical = map[heap[r].logical]
        BY <2>1, <3>2 DEF HeapInv, ReaderOK
      <4>2. \A a \in 1 .. MaxLogical : a \in 0 .. MaxLogical BY Constant
      <4> QED BY <2>3, <2>4, <2>5, <3>1, <4>1, <4>2
    <3>3. CASE r \in Programs
      <4>1. heap[r].session = NoSession \/ r \in Built BY <2>6, <3>3 DEF Programs, Built
      <4>2. /\ \A l \in LinksOf(heap[r]) : Own(l)
            /\ heap[r].session = NoSession =>
                  heap[r].logical = Unassigned /\ heap[r].physical = Unassigned
        BY <2>1, <3>3 DEF FormsInv
      <4>3. r \in Built => heap[r].logical \in 1 .. MaxLogical
                           /\ map[heap[r].logical] = heap[r].physical
        BY <2>1 DEF PlacedInv
      <4>4. map \in [1 .. MaxLogical -> 0 .. MaxWord] BY <2>1 DEF PlacedInv
      <4>5. r \in Built => heap[r].logical \in 0 .. MaxLogical /\ heap[r].physical \in 0 .. MaxWord
        BY <4>3, <4>4, Constant
      <4>6. heap[r].shape \in Refs /\ Range(heap[r].links) \subseteq Refs
        BY <2>3, <4>2 DEF LinksOf
      <4> QED BY <2>4, <3>1, <4>1, <4>2, <4>5, <4>6
    <3>4. CASE r \notin Programs \cup Readers
      <4>1. FreedOK(r) BY <2>1, <2>6, <3>4 DEF HeapInv
      <4> QED BY <2>3, <2>4, <3>1, <4>1 DEF FreedOK
    <3> QED BY <3>2, <3>3, <3>4
  <2>7. nil \in [logical : Addresses, session : {NoSession, Writer, Reader}]
    <3>1. Nil \in Addresses BY Constant DEF Nil, NilAddr, Addresses
    <3> QED BY <2>1, <3>1 DEF FormsInv
  <2>8. read_set \in [1 .. MaxLogical -> Refs \cup {None}] /\ stub_depth \in StubDepths
    <3>1. 0 .. Len(heap) \subseteq Refs \cup {None} BY <2>2 DEF Refs, None
    <3> QED BY <2>1, <3>1 DEF OneInv
  <2>9. ASSUME NEW f \in Range(frames)
        PROVE  /\ f.address \in 1 .. MaxLogical /\ f.base \in 0 .. MaxWord /\ f.depth \in Nat \ {0}
               /\ {f.target, f.shape} \subseteq Refs \cup {None} /\ Range(f.links) \subseteq Refs
    <3>1. PICK i \in DOMAIN frames : f = frames[i] BY <2>9 DEF Range
    <3>2. FrameOK(f) /\ f \in FrameSet BY <2>1, <3>1 DEF FramesInv
    <3>3. f.address \in 1 .. MaxLogical /\ f.base \in 0 .. MaxWord /\ f.depth \in Nat \ {0}
      <4>1. f.address \in Readables /\ f.base = map[f.address] /\ f.depth > 0
        BY <3>2 DEF FrameOK
      <4> QED BY <2>5, <3>2, <4>1 DEF FrameSet
    <3>4. f.target \in Refs \cup {None}
      <4>1. RootAddress \in 1 .. MaxLogical
        BY <2>1, Constant DEF PlacedInv
      <4> QED BY <2>8, <3>2, <4>1 DEF FrameOK
    <3>5. f.shape \in Refs \cup {None} BY <2>3, <3>2 DEF FrameOK
    <3>6. Range(f.links) \subseteq Refs BY <2>3, <3>2 DEF FrameOK, Range
    <3> QED BY <3>3, <3>4, <3>5, <3>6
  <2>10. write_set \subseteq DOMAIN heap /\ Range(stack) \subseteq Refs
         /\ phase \in {"open", "scan", "write", "read", "closed"}
    <3>1. Range(<<>>) = {} BY DEF Range
    <3>2. write_set \subseteq Built BY <2>1 DEF VisitInv
    <3>3. \A x \in Range(stack) : Own(x)
      <4>1. CASE phase = "scan" BY <2>1, <4>1 DEF VisitInv
      <4>2. CASE phase # "scan" BY <2>1, <3>1, <4>2 DEF VisitInv
      <4> QED BY <4>1, <4>2
    <3> QED BY <2>1, <2>2, <2>3, <3>2, <3>3 DEF VisitInv
  <2>11. /\ content \in [0 .. MaxWord -> Nat] /\ map \in [1 .. MaxLogical -> 0 .. MaxWord]
         /\ next_logical \in 1 .. MaxLogical + 1
         /\ next_physical \in Nat /\ content_size \in Nat
    BY <2>1, Constant DEF WordsInv, PlacedInv, SpaceTypeOK
  <2> QED BY <2>6, <2>7, <2>8, <2>9, <2>10, <2>11 DEF TypeOK
<1> QED BY ObjectInvariant, <1>1, PTL

(***************************************************************************)
(* A session has one object for an address, the one in its read set        *)
(* (obl_at_address_depth looks there first, obl_set_insert deallocates     *)
(* what it replaces), and none when it is destroyed.                       *)
(***************************************************************************)
THEOREM OneEach == Spec => []OneObjectEach
<1>1. Inv => OneObjectEach BY DEF Inv, ReadInv, OneInv
<1> QED BY ObjectInvariant, <1>1, PTL

(***************************************************************************)
(* An object of the other session is what the first one built, link by     *)
(* link and datum by datum: what the writers store is what the readers     *)
(* find, for any graph, shared and cyclic ones too, to any depth.          *)
(***************************************************************************)
THEOREM BuiltReadBack == Spec => []ReadBack
<1>1. Inv => ReadBack
  <2> SUFFICES ASSUME Inv, phase = "read", frames = <<>>, NEW r \in DOMAIN heap, Mine(r),
                      ~IsStub(heap, r)
               PROVE  \E o \in Built : heap[o].logical = heap[r].logical /\ Agree(r, o)
    BY DEF ReadBack
  <2>1. CommitInv /\ HeapInv /\ OneInv /\ FramesInv BY DEF Inv, ReadInv
  <2>2. r \in Readers BY DEF Mine, Readers
  <2>3. PICK a, o : a = heap[r].logical /\ o = Original(a) OBVIOUS
  <2>4. ~IsStubShape(r) BY <2>1, <2>2, StubIs
  <2>5. a \in Readables BY <2>1, <2>2, <2>3 DEF HeapInv, ReaderOK
  <2>6. o \in Built /\ heap[o].logical = a BY <2>1, <2>3, <2>5, ReadableIs
  <2>7. Form(r) = Form(o)
    <3>1. Form(r) = StoredForm(heap[r].logical)
      BY <2>1, <2>2, <2>4, NoFrames DEF HeapInv, ReaderOK
    <3> QED BY <2>3, <3>1 DEF StoredForm, Written
  <2>8. /\ Address(heap, heap[r].shape) = Address(heap, heap[o].shape)
        /\ [i \in DOMAIN heap[r].links |-> Address(heap, heap[r].links[i])] =
              [i \in DOMAIN heap[o].links |-> Address(heap, heap[o].links[i])]
        /\ heap[r].data = heap[o].data
    BY <2>7 DEF Form
  <2>9. /\ DOMAIN heap[r].links = DOMAIN heap[o].links
        /\ \A i \in DOMAIN heap[r].links :
              Address(heap, heap[r].links[i]) = Address(heap, heap[o].links[i])
    BY <2>8
  <2>10. Len(heap[r].links) = Len(heap[o].links)
    <3>1. heap[r] \in Objs /\ heap[o] \in Objs
      BY <2>1, <2>6, HeapFacts, BuiltOwn
    <3> QED BY <2>9, <3>1, SameLength DEF Objs
  <2>11. Agree(r, o) BY <2>8, <2>9, <2>10 DEF Agree, SameLink
  <2> QED BY <2>3, <2>6, <2>11
<1> QED BY ObjectInvariant, <1>1, PTL

(***************************************************************************)
(* In a graph without cycles, nothing that a slot or a shape refers to is  *)
(* deallocated but stubs, and no shape is a stub: a read is only begun     *)
(* where no object but a stub is known (obl_set_insert).                   *)
(***************************************************************************)
THEOREM StubsOnly == Spec => []OnlyStubsDangle
<1>1. Inv => OnlyStubsDangle
  <2> SUFFICES ASSUME Inv, phase = "read", Acyclic, NEW r \in DOMAIN heap, Mine(r)
               PROVE  /\ \A l \in Range(heap[r].links) : IsFixed(l) \/ Mine(l) \/ IsStub(heap, l)
                      /\ \/ IsFixed(heap[r].shape)
                         \/ Mine(heap[r].shape) /\ ~IsStub(heap, heap[r].shape)
    BY DEF OnlyStubsDangle
  <2>1. CommitInv /\ HeapInv /\ OneInv /\ FramesInv /\ DownInv BY DEF Inv, ReadInv
  <2>2. r \in Readers BY DEF Mine, Readers
  <2>3. Stays(heap[r].shape) /\ \A l \in Range(heap[r].links) : KeptRef(l)
    BY <2>1, <2>2 DEF DownInv, ObjectsDown
  <2>4. GoodShape(heap[r].shape) /\ \A l \in Range(heap[r].links) : GoodRef(l)
    BY <2>1, <2>2 DEF HeapInv, ReaderOK
  <2>5. \A l \in Readers : IsStub(heap, l) <=> IsStubShape(l) BY <2>1, StubIs
  <2>6. \A l \in Range(heap[r].links) : IsFixed(l) \/ Mine(l) \/ IsStub(heap, l)
    BY <2>3, <2>4, <2>5, FixedIs DEF KeptRef, Stays, GoodRef
  <2>7. IsFixed(heap[r].shape) \/ (Mine(heap[r].shape) /\ ~IsStub(heap, heap[r].shape))
    BY <2>3, <2>4, <2>5, FixedIs DEF Stays, GoodShape
  <2> QED BY <2>6, <2>7
<1> QED BY ObjectInvariant, <1>1, PTL

(***************************************************************************)
(* What a commit promises holds whatever is read before and after it: the  *)
(* graph is closed, its words are stored, nothing shares a word, and what  *)
(* is placed lies in the content.                                          *)
(***************************************************************************)
THEOREM PromisesKept == Spec => [](BuiltIsClosed /\ WordsStored /\ Disjoint /\ ObjectsInside)
BY ReadsLeaveCommits, ClosedCommit, CommittedWords, CommitGivesSpace, NeverShared,
   AlwaysInside, PTL
===============================================================================
