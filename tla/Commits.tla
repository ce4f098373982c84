-------------------------------- MODULE Commits --------------------------------
(***************************************************************************)
(* The commit of a graph of objects (transaction.c, storage/): the session *)
(* that commits visits what its root refers to, gives each new object      *)
(* addresses and words, and writes them.  Objects live on a heap until     *)
(* they are deallocated; the objects the program builds are the first of   *)
(* the heap.  A reference is an index of the heap, or an address of fixed  *)
(* space.                                                                  *)
(*                                                                         *)
(* What another session does between and after is here only what it leaves *)
(* alone (Elsewhere); Objects has the steps of its calls.                  *)
(***************************************************************************)
EXTENDS Layout, Space, FiniteSets, SequencesExt

CONSTANTS
    Graphs,       \* the graphs a program builds: sequences of objects, whose
                  \* first one is persisted already, with both slots nil
    MaxLogical,   \* bound: the addresses a commit gives
    MaxWord       \* bound: the words of the content

VARIABLES
    content, map,   \* the words and the address map
    next_logical,   \* the allocator's other counter
    heap,           \* the objects, by reference
    nil,            \* what the shared nil says of itself
    write_set,      \* of the first session's transaction
    phase, stack    \* where the commit is, and the objects it is to visit

store == <<content, map, next_logical, space>>
commit_vars == <<store, heap, nil, write_set, phase, stack>>

Writer == 1     \* the session that commits
Reader == 2     \* the session that reads
NoSession == 0
Unassigned == 0
Nil == NilAddr

Root == 1           \* the object that is persisted already
RootAddress == 4    \* after the allocator and its counters

Obj(session, logical, physical, shape, links, data) ==
    [live |-> TRUE, session |-> session, logical |-> logical, physical |-> physical,
     shape |-> shape, links |-> links, data |-> data]

\* What a program creates, with no session and no addresses.
Created(shape, links, data) == Obj(NoSession, Unassigned, Unassigned, shape, links, data)
CreatedShape(name, slot_names, type) == Created(Nil, <<name, slot_names, Nil>>, <<Format(type)>>)
CreatedSlotted(shape, links) == Created(shape, links, <<>>)
CreatedInteger(i) == Created(PrimitiveShape("INTEGER"), <<>>, <<i>>)
CreatedString(units) == Created(PrimitiveShape("STRING"), <<>>, units)

\* obl_storage_of: the object of a shape that is nil is a shape.
StorageOf(h, shape) ==
    CASE shape = Nil -> "SHAPE"
      [] shape # Nil /\ IsFixed(shape) -> PrimitiveType(shape)
      [] OTHER -> StorageTypes[h[shape].data[1] + 1]

TypeOf(h, ref) ==
    IF ref = Nil THEN "NIL" ELSE IF IsFixed(ref) THEN "SHAPE" ELSE StorageOf(h, h[ref].shape)

\* What a link to an object is written as.
Address(h, ref) ==
    CASE ref = Nil -> nil.logical
      [] ref # Nil /\ IsFixed(ref) -> ref
      [] OTHER -> h[ref].logical

Count(o, type) == IF type = "STRING" THEN Len(o.data) ELSE Len(o.links)

LinksOf(o) == Range(o.links) \cup {o.shape}

Objs == [live : BOOLEAN, session : {NoSession, Writer, Reader}, logical : Nat, physical : Nat,
         shape : Nat, links : Seq(Nat), data : Seq(Nat)]

\* What obl_create_shape, obl_create_slotted, obl_create_integer and
\* _allocate_string make.  Left out are empty strings and objects of FIXED
\* storage, whose writers store past what they reserve, and so shapes with slot
\* names, which are FIXED.
FormedShape(o) ==
    /\ o.shape = Nil /\ Len(o.links) = 3 /\ o.links[2] = Nil
    /\ Len(o.data) = 1 /\ o.data[1] < Len(StorageTypes)
FormedSlotted(h, o) ==
    /\ o.data = <<>>
    /\ \/ o.shape = PrimitiveShape("SLOTTED") /\ Len(o.links) = AllocatorSlots
       \/ /\ ~IsFixed(o.shape) /\ h[o.shape].shape = Nil /\ o.links = <<>>
          /\ StorageOf(h, o.shape) = "SLOTTED"
FormedInteger(o) == o.shape = PrimitiveShape("INTEGER") /\ o.links = <<>> /\ Len(o.data) = 1
FormedString(o) ==
    /\ o.shape = PrimitiveShape("STRING") /\ o.links = <<>> /\ o.data # <<>>
    /\ \A i \in DOMAIN o.data : o.data[i] < UnitBase

Formed(h, o) ==
    /\ FormedShape(o) \/ FormedSlotted(h, o) \/ FormedInteger(o) \/ FormedString(o)
    /\ WordSize(StorageOf(h, o.shape), Count(o, StorageOf(h, o.shape))) <= MaxObject

FixedSpace == FixedMin .. FixedMin + 14

ASSUME CommitsAssumption ==
    /\ PageSize = 2 + CHUNK_SIZE /\ MaxPages >= 2
    /\ MaxLogical \in Nat /\ MaxLogical < FixedMin
    /\ MaxWord \in Nat /\ FirstFree <= MaxWord + 1

\* The objects of a graph are the program's, and only the root has addresses,
\* in the words before the first that is free.
ASSUME GraphsAssumption ==
    \A g \in Graphs :
        /\ g \in Seq(Objs) /\ Len(g) < FixedMin /\ RootAddress <= MaxLogical
        /\ Root \in DOMAIN g /\ g[Root].session = Writer /\ g[Root].logical = RootAddress
        /\ g[Root].shape = PrimitiveShape("SLOTTED")
        /\ g[Root].physical # Unassigned
        /\ g[Root].physical + 1 + Len(g[Root].links) <= FirstFree
        /\ \A r \in DOMAIN g :
              /\ g[r].live /\ Formed(g, g[r])
              /\ r # Root => /\ g[r].session = NoSession
                              /\ g[r].logical = Unassigned /\ g[r].physical = Unassigned
              /\ \A l \in LinksOf(g[r]) : l \in FixedSpace \cup DOMAIN g
-------------------------------------------------------------------------------
(* The commit: _visit_transitive_closure and _obl_write *)

\* The child lists, which each child is put in front of.
ShapeChildren(o) == Reverse(<<o.shape>> \o o.links)
SlottedChildren(o) == Reverse(<<o.shape>> \o o.links)
FixedChildren(o) == Reverse(<<o.shape>> \o o.links)

\* Mutant: the shape of an object is not visited.
ChildrenWithoutShape(ref) ==
    IF TypeOf(heap, ref) \in {"SHAPE", "SLOTTED", "FIXED"} THEN Reverse(heap[ref].links) ELSE <<>>

Children(ref) ==
    CASE TypeOf(heap, ref) = "SHAPE" -> ShapeChildren(heap[ref])
      [] TypeOf(heap, ref) = "SLOTTED" -> SlottedChildren(heap[ref])
      [] TypeOf(heap, ref) = "FIXED" -> FixedChildren(heap[ref])
      [] OTHER -> <<>>

Unvisited(ref) == ~IsFixed(ref) /\ heap[ref].session = NoSession

BeginCommit ==
    /\ phase = "open"
    /\ phase' = "scan"
    /\ write_set' = {Root}
    /\ stack' = Children(Root)
    /\ UNCHANGED <<store, heap, nil>>

\* A new leaf for every CHUNK_SIZE addresses, and a root above the first two.
PagesFor(logical) ==
    CASE logical = CHUNK_SIZE -> 2
      [] logical # CHUNK_SIZE /\ logical % CHUNK_SIZE = 0 -> 1
      [] OTHER -> 0

\* The next unvisited object takes addresses, is adopted, and its children
\* come before what is left.
Visit ==
    LET o == Head(stack)
        type == TypeOf(heap, o)
    IN  /\ phase = "scan" /\ stack # <<>>
        /\ Unvisited(o) /\ next_logical <= MaxLogical
        /\ next_physical + WordSize(type, Count(heap[o], type)) <= MaxWord + 1
        /\ heap' = [heap EXCEPT ![o].session = Writer, ![o].logical = next_logical,
                                ![o].physical = next_physical]
        /\ Place(WordSize(type, Count(heap[o], type)), PagesFor(next_logical))
        /\ map' = [map EXCEPT ![next_logical] = next_physical]
        /\ next_logical' = next_logical + 1
        /\ write_set' = write_set \cup {o}
        /\ stack' = Children(o) \o Tail(stack)
        /\ UNCHANGED <<content, nil, phase>>

Skip ==
    /\ phase = "scan" /\ stack # <<>>
    /\ ~Unvisited(Head(stack))
    /\ stack' = Tail(stack)
    /\ UNCHANGED <<store, heap, nil, write_set, phase>>

Scanned ==
    /\ phase = "scan" /\ stack = <<>>
    /\ phase' = "write"
    /\ UNCHANGED <<store, heap, nil, write_set, stack>>

\* obl_write_object of the least object of the write set.
ObjectWords(o) ==
    <<Address(heap, o.shape)>> \o
    Words(StorageOf(heap, o.shape), [i \in DOMAIN o.links |-> Address(heap, o.links[i])], o.data)

Stored(c, base, words) ==
    [p \in DOMAIN c |-> IF p - base + 1 \in DOMAIN words THEN words[p - base + 1] ELSE c[p]]

Write ==
    LET o == CHOOSE x \in write_set :
                 \A y \in write_set : heap[x].logical <= heap[y].logical
    IN  /\ phase = "write" /\ write_set # {}
        /\ content' = Stored(content, heap[o].physical, ObjectWords(heap[o]))
        /\ write_set' = write_set \ {o}
        /\ UNCHANGED <<map, next_logical, space, heap, nil, phase, stack>>

\* The objects of the committing program: those it has and those it made.
Programs ==
    {r \in DOMAIN heap :
        heap[r].session = Writer \/ (heap[r].session = NoSession /\ heap[r].live)}

OthersChange == Programs' = Programs /\ \A r \in Programs : heap'[r] = heap[r]

\* The commit is over, and the other session is told.
Finish ==
    /\ phase = "write" /\ write_set = {}
    /\ phase' = "read"
    /\ OthersChange
    /\ UNCHANGED <<store, nil, write_set, stack>>

\* Calls of the other session, the last of which destroys it.
Elsewhere ==
    /\ phase \in {"open", "read"}
    /\ phase' = phase \/ (phase = "read" /\ phase' = "closed")
    /\ OthersChange
    /\ UNCHANGED <<store, nil, write_set, stack>>
-------------------------------------------------------------------------------
CommitInit ==
    /\ SpaceInit
    /\ heap \in Graphs
    /\ map = [a \in 1 .. MaxLogical |-> IF a = RootAddress THEN heap[Root].physical ELSE Unassigned]
    /\ content = Stored([p \in 0 .. MaxWord |-> 0], heap[Root].physical,
                        <<PrimitiveShape("SLOTTED"), Nil, Nil>>)
    /\ next_logical = RootAddress + 1
    /\ nil = [logical |-> Nil, session |-> NoSession]
    /\ write_set = {} /\ phase = "open" /\ stack = <<>>

CommitNext ==
    BeginCommit \/ Visit \/ Skip \/ Scanned \/ Write \/ Finish \/ Elsewhere

(***************************************************************************)
(* What a commit and the calls of another session promise each other: the  *)
(* commit takes its steps and no others, reading changes neither the       *)
(* content and the map, nor the shared nil, nor an object of the program   *)
(* that commits.                                                           *)
(***************************************************************************)
CommitSpec == CommitInit /\ [][CommitNext]_commit_vars
-------------------------------------------------------------------------------
Built == {r \in DOMAIN heap : heap[r].session = Writer}

(***************************************************************************)
(* A commit persists what its objects refer to and nothing that another    *)
(* session would look for in vain: every link of a persisted object is     *)
(* fixed or has an address that the map knows.                             *)
(***************************************************************************)
BuiltIsClosed ==
    phase = "read" =>
        \A o \in Built : \A l \in LinksOf(heap[o]) :
            IsFixed(l) \/ (l \in Built /\ map[heap[l].logical] = heap[l].physical)

HasWords(o) ==
    \A i \in DOMAIN ObjectWords(heap[o]) :
        content[heap[o].physical + i - 1] = ObjectWords(heap[o])[i]

(***************************************************************************)
(* The words written of an object are among those it was given: what the   *)
(* writers store is no longer than what obl_object_wordsize reserves.  So  *)
(* after a commit the content has the words of every object it wrote, and  *)
(* none is lost to the writing of another.                                 *)
(***************************************************************************)
WordsStored ==
    /\ \A o \in Built \ {Root} :
          \E x \in extents :
              x[1] = heap[o].physical /\ x[1] + Len(ObjectWords(heap[o])) <= x[2]
    /\ phase = "read" => \A o \in Built : HasWords(o)
===============================================================================
