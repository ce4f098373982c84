------------------------------- MODULE Objects --------------------------------
(***************************************************************************)
(* Objects by identity (storage/, session.c): what a commit wrote another  *)
(* session reads back, to a depth, leaving stubs beyond.  A slot refers to *)
(* an object wherever it is, so that it may refer to one that was          *)
(* deallocated.  One thread makes the calls and waits return.              *)
(*                                                                         *)
(* Reading recurs: a frame is a call of obl_read_object that is under way, *)
(* and a step reads one link of the innermost, or ends it.                 *)
(***************************************************************************)
EXTENDS Commits

CONSTANTS
    StubDepths,   \* configuration.default_stub_depth, any of these
    MaxHeap       \* bound: objects allocated before calls are no longer made

ASSUME ObjectsAssumption == StubDepths \subseteq Nat \ {0}

VARIABLES
    stub_depth,   \* the default depth of the session that reads
    read_set,     \* and its objects, by address
    frames        \* the reads under way, the innermost last

vars == <<stub_depth, commit_vars, read_set, frames>>

None == 0       \* no object
CreatedStub(a) == Obj(Reader, a, Unassigned, PrimitiveShape("STUB"), <<>>, <<a>>)

\* What is read at base for an address, or to refresh the object target: so far
\* its shape and these links.
Frame(address, target, base, depth) ==
    [address |-> address, target |-> target, base |-> base, depth |-> depth,
     shape |-> None, links |-> <<>>]
-------------------------------------------------------------------------------
(* Reading: _obl_at_address_depth and obl_read_object                      *)

IsStub(h, ref) == ~IsFixed(ref) /\ StorageOf(h, h[ref].shape) = "STUB"

\* Mutant: the read set is not consulted.
KnownNever(a) == read_set[a] # read_set[a]

\* The read set has the object and not a stub for it.
Known(a) == read_set[a] # None /\ ~IsStub(heap, read_set[a])

\* The frame that asked for it takes the object, as its shape first.
Taken(calls, ref) ==
    IF calls = <<>> THEN calls
    ELSE IF Last(calls).shape = None THEN [calls EXCEPT ![Len(calls)].shape = ref]
    ELSE [calls EXCEPT ![Len(calls)].links = Append(@, ref)]

\* Mutant: what had the address is kept.
ReleasedNone(old) == heap

\* obl_set_insert where the address has an object: it is deallocated.
Released(old) ==
    IF old \in {None, Nil} THEN heap ELSE [heap EXCEPT ![old].live = FALSE]

\* Bound: a reference is not an address of fixed space.
RoomOnHeap == Len(heap) + 1 < FixedMin

Answer(ref) == frames' = Taken(frames, ref) /\ UNCHANGED <<heap, nil, read_set>>

\* Mutant: one link further.
DeepOneMore(depth) == depth >= 0

\* Objects are read; below, there are stubs.
Deep(depth) == depth > 0

At(a, depth) ==
    \/ IsFixed(a) /\ Answer(a)
    \/ ~IsFixed(a) /\ Known(a) /\ Answer(read_set[a])
    \/ /\ ~IsFixed(a) /\ ~Known(a) /\ ~Deep(depth) /\ RoomOnHeap
       /\ heap' = Append(Released(read_set[a]), CreatedStub(a))
       /\ read_set' = [read_set EXCEPT ![a] = Len(heap) + 1]
       /\ frames' = Taken(frames, Len(heap) + 1)
       /\ UNCHANGED nil
    \/ /\ ~IsFixed(a) /\ ~Known(a) /\ Deep(depth)
       /\ frames' = IF map[a] = Unassigned THEN Taken(frames, Nil)
                    ELSE Append(frames, Frame(a, None, map[a], depth))
       /\ UNCHANGED <<heap, nil, read_set>>

\* obl_shape_slotcount: the names are a FIXED collection, or none.
SlotCount(h, shape) ==
    IF IsFixed(shape) THEN AllocatorSlots
    ELSE LET names == h[shape].links[2]
         IN  IF TypeOf(h, names) = "FIXED" THEN Len(h[names].links) ELSE 0

\* The storage type of what a frame reads: its shape may not be a shape.
TypeRead(f) ==
    IF TypeOf(heap, f.shape) \in {"NIL", "SHAPE"} THEN StorageOf(heap, f.shape) ELSE "NIL"

LinksRead(f) ==
    LET slots == IF TypeRead(f) = "SLOTTED" THEN SlotCount(heap, f.shape) ELSE 0
    IN  LinksAt(content, TypeRead(f), f.base, slots)

Reads == frames # <<>> /\ UNCHANGED <<stub_depth, store, write_set, phase, stack>>

\* A shape is read to depth 3.
ReadShape ==
    LET f == Last(frames)
    IN  Reads /\ f.shape = None /\ At(content[f.base], 3)

ReadLink ==
    LET f == Last(frames)
    IN  /\ Reads /\ f.shape # None
        /\ Len(f.links) < Len(LinksRead(f))
        /\ At(LinksRead(f)[Len(f.links) + 1], f.depth - 1)

\* The object a frame has read, without an address of its own yet.
ObjectRead(f) ==
    Obj(NoSession, Unassigned, f.base, f.shape, f.links, DataAt(content, TypeRead(f), f.base))

Complete ==
    LET f == Last(frames)
    IN  /\ Reads /\ f.shape # None /\ Len(f.links) = Len(LinksRead(f))
        /\ RoomOnHeap

\* What was read is adopted and inserted.  Where there is no reader that is the
\* shared nil, which invalid_read answers.
EndRead ==
    LET f == Last(frames)
        readable == TypeRead(f) \in Readable
        ref == IF readable THEN Len(heap) + 1 ELSE Nil
        adopted == [ObjectRead(f) EXCEPT !.session = Reader, !.logical = f.address]
    IN  /\ Complete /\ f.target = None
        /\ heap' = IF readable THEN Append(Released(read_set[f.address]), adopted)
                   ELSE Released(read_set[f.address])
        /\ nil' = IF readable THEN nil ELSE [logical |-> f.address, session |-> Reader]
        /\ read_set' = [read_set EXCEPT ![f.address] = ref]
        /\ frames' = Taken(Front(frames), ref)

\* obl_refresh_object: the object takes what was read, and the new one is freed.
EndRefresh ==
    LET f == Last(frames)
        new == ObjectRead(f)
    IN  /\ Complete /\ f.target # None
        /\ heap' = Append([heap EXCEPT ![f.target].shape = new.shape,
                                       ![f.target].links = new.links,
                                       ![f.target].data = new.data],
                          [new EXCEPT !.live = FALSE])
        /\ frames' = Front(frames)
        /\ UNCHANGED <<nil, read_set>>

\* The commit is over and the other session is told.  Of what was written it
\* can only have read the root before.
EndCommit ==
    LET mine == read_set[RootAddress]
    IN  /\ phase = "write" /\ write_set = {}
        /\ phase' = "read"
        /\ frames' = IF mine = None THEN <<>>
                     ELSE <<Frame(RootAddress, mine, heap[mine].physical, stub_depth)>>
        /\ UNCHANGED <<stub_depth, store, heap, nil, write_set, stack, read_set>>

\* Between the calls of the program.
Calling ==
    /\ phase \in {"open", "read"} /\ frames = <<>>
    /\ UNCHANGED <<stub_depth, store, write_set, stack>>

\* obl_at_address reads to the default depth, obl_at_address_depth to any.
AtAddress(a, depth) ==
    Calling /\ UNCHANGED phase /\ Len(heap) < MaxHeap /\ At(a, depth)

Mine(ref) == heap[ref].live /\ heap[ref].session = Reader

\* obl_slotted_at, and the getters of a shape: a stub is resolved, and the slot
\* stays as it was.  What a slot that refers to a deallocated object gives is
\* undefined, and no call of a program here.
SlotAt(ref, i) ==
    LET target == heap[ref].links[i]
    IN  /\ Calling /\ UNCHANGED phase /\ Len(heap) < MaxHeap
        /\ Mine(ref) /\ ~IsStub(heap, ref)
        /\ ~IsFixed(target) /\ heap[target].live /\ IsStub(heap, target)
        /\ At(heap[target].data[1], stub_depth)

\* obl_destroy_object, of an object that no other of the session refers to.
Destroy(ref) ==
    /\ Calling /\ phase = "read" /\ UNCHANGED phase
    /\ Mine(ref) /\ ~IsStub(heap, ref)
    /\ \A other \in DOMAIN heap \ {ref} :
          Mine(other) => ref \notin LinksOf(heap[other])
    /\ heap' = [heap EXCEPT ![ref].live = FALSE]
    /\ read_set' = [read_set EXCEPT ![heap[ref].logical] = None]
    /\ UNCHANGED <<nil, frames>>

\* obl_destroy_session: what the read set has is deallocated.
DestroySession ==
    /\ Calling /\ phase = "read"
    /\ phase' = "closed"
    /\ heap' = [r \in DOMAIN heap |->
          IF r \in Range(read_set) THEN [heap[r] EXCEPT !.live = FALSE] ELSE heap[r]]
    /\ read_set' = [a \in DOMAIN read_set |-> None]
    /\ UNCHANGED <<nil, frames>>
-------------------------------------------------------------------------------
Init ==
    /\ CommitInit
    /\ stub_depth \in StubDepths
    /\ read_set = [a \in 1 .. MaxLogical |-> None]
    /\ frames = <<>>

Commits ==
    /\ BeginCommit \/ Visit \/ Skip \/ Scanned \/ Write
    /\ frames = <<>>
    /\ UNCHANGED <<stub_depth, read_set, frames>>

Next ==
    \/ Commits \/ EndCommit
    \/ ReadShape \/ ReadLink \/ EndRead \/ EndRefresh
    \/ \E a \in 1 .. MaxLogical, depth \in StubDepths :
          map[a] # Unassigned /\ AtAddress(a, depth)
    \/ \E ref \in DOMAIN heap : \E i \in DOMAIN heap[ref].links : SlotAt(ref, i)
    \/ (\E ref \in DOMAIN heap : Destroy(ref)) \/ DestroySession

Spec == Init /\ [][Next]_vars
-------------------------------------------------------------------------------
(***************************************************************************)
(* Types of the variables.                                                 *)
(***************************************************************************)
Refs == 1 .. Len(heap) \cup FixedMin .. FixedMin + 14
Addresses == 0 .. MaxLogical \cup FixedMin .. FixedMin + 14

TypeOK ==
    /\ stub_depth \in StubDepths
    /\ content \in [0 .. MaxWord -> Nat]
    /\ map \in [1 .. MaxLogical -> 0 .. MaxWord]
    /\ next_logical \in 1 .. MaxLogical + 1
    /\ next_physical \in Nat /\ content_size \in Nat
    /\ \A r \in DOMAIN heap :
          /\ heap[r].live \in BOOLEAN /\ heap[r].session \in {NoSession, Writer, Reader}
          /\ heap[r].logical \in 0 .. MaxLogical /\ heap[r].physical \in 0 .. MaxWord
          /\ heap[r].shape \in Refs /\ Range(heap[r].links) \subseteq Refs
    /\ nil \in [logical : Addresses, session : {NoSession, Writer, Reader}]
    /\ read_set \in [1 .. MaxLogical -> Refs \cup {None}]
    /\ \A f \in Range(frames) :
          /\ f.address \in 1 .. MaxLogical /\ f.base \in 0 .. MaxWord /\ f.depth \in Nat \ {0}
          /\ {f.target, f.shape} \subseteq Refs \cup {None} /\ Range(f.links) \subseteq Refs
    /\ write_set \subseteq DOMAIN heap
    /\ phase \in {"open", "scan", "write", "read", "closed"}
    /\ Range(stack) \subseteq Refs

(***************************************************************************)
(* What the committing session built is what the other session reads, by   *)
(* a visit, words and readers that agree on order, sizes and units,        *)
(* whatever part of the graph was read first and to which depth.           *)
(***************************************************************************)
SameLink(l, k) ==
    (IsFixed(l) \/ heap[l].live) => Address(heap, l) = Address(heap, k)

Agree(r, o) ==
    /\ SameLink(heap[r].shape, heap[o].shape)
    /\ heap[r].data = heap[o].data
    /\ Len(heap[r].links) = Len(heap[o].links)
    /\ \A i \in DOMAIN heap[r].links : SameLink(heap[r].links[i], heap[o].links[i])

ReadBack ==
    phase = "read" /\ frames = <<>> =>
        \A r \in DOMAIN heap : Mine(r) /\ ~IsStub(heap, r) =>
            \E o \in Built : heap[o].logical = heap[r].logical /\ Agree(r, o)

(***************************************************************************)
(* A session has one object for an address: the one in its read set, which *)
(* is allocated, and no other that a slot or the program could still have: *)
(* when a session is destroyed nothing of it is left.                      *)
(***************************************************************************)
OneObjectEach ==
    /\ \A r \in DOMAIN heap : Mine(r) => read_set[heap[r].logical] = r
    /\ \A a \in DOMAIN read_set :
          read_set[a] # None => Mine(read_set[a]) /\ heap[read_set[a]].logical = a

(***************************************************************************)
(* In a graph without cycles, reading deallocates stubs only: no slot and  *)
(* no shape is left with an object that was there and is gone, and no      *)
(* object has a stub for its shape.                                        *)
(***************************************************************************)
Acyclic ==
    \E rank \in [Built -> 1 .. Cardinality(Built)] :
        \A o \in Built : \A l \in Range(heap[o].links) \cup {heap[o].shape} :
            IsFixed(l) \/ (l \in Built /\ rank[l] < rank[o])

OnlyStubsDangle ==
    phase = "read" /\ frames = <<>> /\ Acyclic =>
        \A r \in DOMAIN heap : Mine(r) =>
            /\ \A l \in Range(heap[r].links) : IsFixed(l) \/ Mine(l) \/ IsStub(heap, l)
            /\ IsFixed(heap[r].shape) \/ (Mine(heap[r].shape) /\ ~IsStub(heap, heap[r].shape))

(***************************************************************************)
(* A slot of an object that a program has refers to an object that is      *)
(* allocated.                                                              *)
(***************************************************************************)
SlotsLive ==
    \A r \in DOMAIN heap : Mine(r) =>
        \A l \in Range(heap[r].links) : IsFixed(l) \/ heap[l].live
===============================================================================
