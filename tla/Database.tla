------------------------------- MODULE Database -------------------------------
(***************************************************************************)
(* The life of a database file: database.c opens it, bootstraps it and     *)
(* reads its root, a program commits new objects one after another, and    *)
(* the program closes the database or stops anywhere.  The content is the  *)
(* shared mapping of the file, so that what a stopped program had written  *)
(* is what the next one finds; the root in memory is not.                  *)
(*                                                                         *)
(* A cell is an object or an address map page, whatever its extent.  The   *)
(* map is one leaf, or leaves under one branch page; what lookups and an   *)
(* assignment do to each other page by page is in AddressMap.              *)
(***************************************************************************)
EXTENDS Integers, Sequences

CONSTANTS
    ChunkSize,     \* CHUNK_SIZE, the entries of a page
    MaxLogical,    \* bound: the logical addresses that will be assigned
    MaxPhysical    \* bound: the cells that will be allocated

ASSUME ConstantsAssumption ==
    /\ ChunkSize \in Nat /\ ChunkSize > 3
    /\ MaxLogical \in Nat /\ MaxLogical >= 3 /\ MaxLogical < ChunkSize * ChunkSize
    /\ MaxPhysical \in Nat /\ MaxPhysical > 4

Unassigned == 0
Logical == 1 .. MaxLogical
Physical == 1 .. MaxPhysical
Digits == 0 .. ChunkSize - 1

\* Bootstrapping gives these objects their logical addresses, in this order, and
\* the cells of the same numbers; the first leaf of the map comes after them.
Allocator == 1
NextPhysical == 2
NextLogical == 3
FirstLeaf == 4
System == {Allocator, NextPhysical, NextLogical}

VARIABLES
    \* the file
    sized,       \* it has been grown to hold something
    magic,       \* its first word is the magic word
    disk_root,   \* its address_map_addr
    cell,        \* what is stored at a physical address
    \* the program
    pc,          \* where its call is
    root,        \* d->root.address_map_addr
    step,        \* how many writes of bootstrapping or a commit are done
    job,         \* a commit: the addresses it assigns, its copy of a counter, the
                 \* cell of the object that refers to the new one
    \* history
    committed,   \* where the objects of finished commits, by any program, are
    mine         \* those of this program

file == <<sized, magic, disk_root, cell>>
memory == <<root, step, job>>
history == <<committed, mine>>
vars == <<sized, magic, disk_root, cell, pc, root, step, job, committed, mine>>

Blank == [kind |-> "blank"]
Object(l, value) == [kind |-> "object", logical |-> l, value |-> value]
Page(height, entry) == [kind |-> "page", height |-> height, entry |-> entry]
NoEntries == [d \in Digits |-> Unassigned]
NoJob == [logical |-> Unassigned, physical |-> Unassigned, next |-> Unassigned,
          parent |-> Unassigned]

IsPage(p) == p \in Physical /\ cell[p].kind = "page"

\* obl_address_lookup, from the page at r.
Entry(p, digit) == IF IsPage(p) THEN cell[p].entry[digit] ELSE Unassigned
Lookup(r, l) ==
    IF IsPage(r) /\ cell[r].height = 0
    THEN IF l < ChunkSize THEN Entry(r, l) ELSE Unassigned
    ELSE Entry(Entry(r, l \div ChunkSize), l % ChunkSize)

-------------------------------------------------------------------------------
(* obl_open_database *)

Open ==
    /\ pc = "closed"
    /\ pc' = IF sized THEN "check" ELSE "grow"
    /\ UNCHANGED <<file, memory, history>>

\* _grow_database of an empty file.
Grow ==
    /\ pc = "grow"
    /\ sized' = TRUE
    /\ pc' = "check"
    /\ UNCHANGED <<magic, disk_root, cell, memory, history>>

\* _read_root.
ReadRoot ==
    /\ pc = "check" /\ magic
    /\ root' = disk_root
    /\ pc' = "idle"
    /\ UNCHANGED <<file, step, job, history>>

\* _bootstrap_database sets the root in memory, and writes from then on.
Bootstrap ==
    /\ pc = "check" /\ ~magic
    /\ root' = FirstLeaf
    /\ step' = 0
    /\ pc' = "bootstrap"
    /\ UNCHANGED <<file, job, history>>

\* Mutant: the magic word comes before the address map.
BootstrapOrderMagicEarly ==
    <<"root", "allocator", "next_physical", "next_logical", "magic", "treepage",
      "assign allocator", "assign next_physical", "assign next_logical">>

BootstrapOrder ==
    <<"root", "allocator", "next_physical", "next_logical", "treepage",
      "assign allocator", "assign next_physical", "assign next_logical", "magic">>

\* The cells after one of those writes.
Bootstrapped(what) ==
    LET Assigned(l) == [cell EXCEPT ![FirstLeaf] = [@ EXCEPT !.entry[l] = l]]
    IN  CASE what = "allocator" -> [cell EXCEPT ![Allocator] = Object(Allocator, Unassigned)]
          [] what = "next_physical" ->
                [cell EXCEPT ![NextPhysical] = Object(NextPhysical, FirstLeaf + 1)]
          [] what = "next_logical" ->
                [cell EXCEPT ![NextLogical] = Object(NextLogical, NextLogical + 1)]
          [] what = "treepage" -> [cell EXCEPT ![FirstLeaf] = Page(0, NoEntries)]
          [] what = "assign allocator" -> Assigned(Allocator)
          [] what = "assign next_physical" -> Assigned(NextPhysical)
          [] what = "assign next_logical" -> Assigned(NextLogical)
          [] OTHER -> cell

BootstrapWrite ==
    /\ pc = "bootstrap" /\ step < Len(BootstrapOrder)
    /\ LET what == BootstrapOrder[step + 1]
       IN  /\ cell' = Bootstrapped(what)
           /\ disk_root' = IF what = "root" THEN root ELSE disk_root
           /\ magic' = (what = "magic" \/ magic)
    /\ step' = step + 1
    /\ UNCHANGED <<sized, pc, root, job, history>>

EndBootstrap ==
    /\ pc = "bootstrap" /\ step = Len(BootstrapOrder)
    /\ pc' = "check"
    /\ UNCHANGED <<file, memory, history>>

-------------------------------------------------------------------------------
(* A commit that persists a new object *)

\* The objects a program can read and change to refer to a new one are those
\* the map leads to, besides the system's.  Where there is none, the first
\* object is persisted as the others are, with nothing to refer to it.
Readable ==
    {p \in Physical \ System :
        cell[p].kind = "object" /\ Lookup(root, cell[p].logical) = p}
Parents == IF Readable = {} THEN {Unassigned} ELSE Readable

\* The allocator gives the new object both addresses.
Allocate ==
    /\ pc = "idle"
    /\ cell[NextLogical].value \in Logical
    /\ cell[NextPhysical].value + 2 \in Physical   \* bound: room for its pages, too
    /\ \E parent \in Parents :
          job' = [logical |-> cell[NextLogical].value, physical |-> cell[NextPhysical].value,
                  next |-> cell[NextPhysical].value + 1, parent |-> parent]
    /\ step' = 0
    /\ pc' = "assign"
    /\ UNCHANGED <<file, root, history>>

\* Mutant: the former root is not linked below the new page.
GrowMapForgetsBelow ==
    /\ pc = "assign" /\ IsPage(root)
    /\ cell[root].height = 0 /\ job.logical >= ChunkSize
    /\ cell' = [cell EXCEPT ![job.next] = Page(1, NoEntries)]
    /\ job' = [job EXCEPT !.next = @ + 1]
    /\ root' = job.next
    /\ UNCHANGED <<sized, magic, disk_root, pc, step, history>>

\* obl_address_assign puts a page on top of the map: in memory, the root moves.
GrowMap ==
    /\ pc = "assign" /\ IsPage(root)
    /\ cell[root].height = 0 /\ job.logical >= ChunkSize
    /\ cell' = [cell EXCEPT ![job.next] = Page(1, [NoEntries EXCEPT ![0] = root])]
    /\ job' = [job EXCEPT !.next = @ + 1]
    /\ root' = job.next
    /\ UNCHANGED <<sized, magic, disk_root, pc, step, history>>

\* Mutant: the page created is one level up, not down.
CreateLeafAbove ==
    LET digit == job.logical \div ChunkSize
    IN  /\ pc = "assign" /\ IsPage(root)
        /\ cell[root].height = 1 /\ Entry(root, digit) = Unassigned
        /\ cell' = [cell EXCEPT
              ![job.next] = Page(cell[root].height + 1, NoEntries),
              ![root] = [@ EXCEPT !.entry[digit] = job.next]]
        /\ job' = [job EXCEPT !.next = @ + 1]
        /\ UNCHANGED <<sized, magic, disk_root, pc, root, step, history>>

\* _assign_in, without a leaf for the address yet.
CreateLeaf ==
    LET digit == job.logical \div ChunkSize
    IN  /\ pc = "assign" /\ IsPage(root)
        /\ cell[root].height = 1 /\ Entry(root, digit) = Unassigned
        /\ cell' = [cell EXCEPT
              ![job.next] = Page(0, NoEntries),
              ![root] = [@ EXCEPT !.entry[digit] = job.next]]
        /\ job' = [job EXCEPT !.next = @ + 1]
        /\ UNCHANGED <<sized, magic, disk_root, pc, root, step, history>>

\* _assign_in, with the leaf.  A root that is not a page is left alone.
AssignEntry ==
    LET leaf == IF cell[root].height = 0 THEN root
                ELSE Entry(root, job.logical \div ChunkSize)
    IN  /\ pc = "assign" /\ IsPage(root)
        /\ cell[root].height = 0 => job.logical < ChunkSize
        /\ IsPage(leaf)
        /\ cell' = [cell EXCEPT ![leaf] =
              [@ EXCEPT !.entry[job.logical % ChunkSize] = job.physical]]
        /\ pc' = "write"
        /\ UNCHANGED <<sized, magic, disk_root, memory, history>>

\* Mutant: the physical counter is not in the write set.
WriteSetLogicalOnly == <<NextLogical, job.physical>>

\* Mutant: what was changed first is written first.
WriteSetAsChanged ==
    IF job.parent = Unassigned THEN <<NextPhysical, NextLogical, job.physical>>
    ELSE <<job.parent, NextPhysical, NextLogical, job.physical>>

\* The cells of the write set, in the order of their objects' logical addresses:
\* the object changed is older than the new one, and younger than the counters.
WriteSet ==
    IF job.parent = Unassigned THEN <<NextPhysical, NextLogical, job.physical>>
    ELSE <<NextPhysical, NextLogical, job.parent, job.physical>>

\* _obl_write of the next object.
Write ==
    /\ pc = "write" /\ step < Len(WriteSet)
    /\ LET p == WriteSet[step + 1]
       IN  cell' = CASE p = NextPhysical -> [cell EXCEPT ![p] = Object(p, job.next)]
                     [] p = NextLogical -> [cell EXCEPT ![p] = Object(p, job.logical + 1)]
                     [] p = job.parent -> [cell EXCEPT ![p] = Object(@.logical, job.logical)]
                     [] OTHER -> [cell EXCEPT ![p] = Object(job.logical, Unassigned)]
    /\ step' = step + 1
    /\ UNCHANGED <<sized, magic, disk_root, pc, root, job, history>>

EndCommit ==
    /\ pc = "write" /\ step = Len(WriteSet)
    /\ committed' = [committed EXCEPT ![job.logical] = job.physical]
    /\ mine' = mine \cup {job.logical}
    /\ job' = NoJob
    /\ pc' = "idle"
    /\ UNCHANGED <<file, root, step>>

-------------------------------------------------------------------------------
(* The end of the program *)

Stopped ==
    /\ pc' = "closed"
    /\ root' = Unassigned
    /\ step' = 0
    /\ job' = NoJob
    /\ mine' = {}
    /\ UNCHANGED <<file, committed>>

\* obl_close_database: nothing is written.
Close == pc = "idle" /\ Stopped

\* The program stops in the middle of a call.
Crash == pc \notin {"closed", "idle"} /\ Stopped

-------------------------------------------------------------------------------
Init ==
    /\ sized = FALSE
    /\ magic = FALSE
    /\ disk_root = Unassigned
    /\ cell = [p \in Physical |-> Blank]
    /\ pc = "closed"
    /\ root = Unassigned
    /\ step = 0
    /\ job = NoJob
    /\ committed = [l \in Logical |-> Unassigned]
    /\ mine = {}

Next ==
    \/ Open \/ Grow \/ ReadRoot \/ Bootstrap \/ BootstrapWrite \/ EndBootstrap
    \/ Allocate \/ GrowMap \/ CreateLeaf \/ AssignEntry \/ Write \/ EndCommit
    \/ Close \/ Crash

Spec == Init /\ [][Next]_vars
-------------------------------------------------------------------------------
(***************************************************************************)
(* Types of the variables.                                                 *)
(***************************************************************************)
Cells ==
    {Blank} \cup [kind : {"object"}, logical : Logical, value : Nat]
            \cup [kind : {"page"}, height : {0, 1}, entry : [Digits -> Nat]]

Jobs ==
    [logical : Logical \cup {Unassigned}, physical : Nat, next : Nat,
     parent : Physical \cup {Unassigned}]

TypeOK ==
    /\ sized \in BOOLEAN /\ magic \in BOOLEAN
    /\ disk_root \in {Unassigned, FirstLeaf}
    /\ cell \in [Physical -> Cells]
    /\ pc \in {"closed", "grow", "check", "bootstrap", "idle", "assign", "write"}
    /\ root \in Physical \cup {Unassigned}
    /\ step \in 0 .. Len(BootstrapOrder)
    /\ job \in Jobs
    /\ committed \in [Logical -> Physical \cup {Unassigned}]
    /\ mine \in SUBSET Logical

-------------------------------------------------------------------------------
Committed == {l \in Logical : committed[l] # Unassigned}
Found(r, l) == /\ Lookup(r, l) = committed[l]
               /\ cell[committed[l]].kind = "object" /\ cell[committed[l]].logical = l

(***************************************************************************)
(* A file with the magic word is bootstrapped, at whichever write a        *)
(* program stopped: its root leads to the allocator and to its counters.   *)
(***************************************************************************)
MagicMeansBootstrapped ==
    magic => \A l \in System :
        Lookup(disk_root, l) = l /\ cell[l].kind = "object" /\ cell[l].logical = l

(***************************************************************************)
(* What a finished commit stored below the first leaf's end stays where it *)
(* is, in the file, through any later commits, stops and openings.         *)
(***************************************************************************)
LowStays == \A l \in Committed : l < ChunkSize => Found(disk_root, l)

(***************************************************************************)
(* A program finds everything it has committed itself.                     *)
(***************************************************************************)
MineFound == pc = "idle" => \A l \in mine : Found(root, l)

(***************************************************************************)
(* Between calls, the counters in the file are past every address that     *)
(* objects and reachable pages have: no later commit is given one of them. *)
(***************************************************************************)
CountersPast ==
    pc = "idle" =>
        /\ \A l \in Committed : /\ l < cell[NextLogical].value
                                /\ committed[l] < cell[NextPhysical].value
        /\ root < cell[NextPhysical].value
        /\ \A d \in Digits : cell[root].height = 1 => Entry(root, d) < cell[NextPhysical].value

(***************************************************************************)
(* What the file says already of an address is never said of another       *)
(* object: when a commit is given an address, no object that is stored     *)
(* refers to it, at whichever write an earlier commit stopped.             *)
(***************************************************************************)
AddressesUnsaid ==
    pc = "assign" => \A p \in Physical \ System :
        cell[p].kind = "object" => cell[p].value # job.logical

(***************************************************************************)
(* What has been committed is found by every program that opens the file.  *)
(***************************************************************************)
CommittedFound == pc = "idle" => \A l \in Committed : Found(root, l)
===============================================================================
