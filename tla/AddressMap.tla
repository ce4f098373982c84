------------------------------ MODULE AddressMap ------------------------------
(***************************************************************************)
(* The logical-to-physical address map of addressmap.c: a radix tree of    *)
(* pages kept in the database content, grown by one committing thread      *)
(* (obl_address_assign, called with the content mutex held) while other    *)
(* threads look addresses up without any lock (obl_address_lookup, called  *)
(* from _obl_at_address_depth).  Every action reads or writes one page, so *)
(* that lookups and an assignment interleave page by page.                 *)
(*                                                                         *)
(* A logical address is the sequence of its PAGE_SHIFT-bit digits,         *)
(* l[0] the lowest: _treepage_index(l, h) is l[h], and the shifts and the  *)
(* mask of the code ask whether the digits above a height are zero.        *)
(***************************************************************************)
EXTENDS Integers

CONSTANTS
    MaxHeight,     \* the height of the highest page an address can require
    WordHeight,    \* the height at which 1 << (PAGE_SHIFT * (height + 1))
                   \* shifts by the width of an obl_uint: 3 in the code
    ChunkSize,     \* CHUNK_SIZE, the entries of a page
    Logical,       \* the logical addresses in use, functions from heights to digits
    Physical,      \* the physical addresses objects are mapped to
    MaxPage,       \* bound: pages are allocated at the addresses 1 .. MaxPage
    Readers        \* the threads that look addresses up

Heights == 0 .. MaxHeight
Digits == 0 .. ChunkSize - 1
PageAddress == 1 .. MaxPage
Unassigned == 0
ZeroDigits == [k \in Heights |-> 0]   \* OBL_LOGICAL_UNASSIGNED

ASSUME ConstantsAssumption ==
    /\ MaxHeight \in Nat /\ WordHeight \in Nat /\ WordHeight >= MaxHeight
    /\ ChunkSize \in Nat \ {0} /\ MaxPage \in Nat \ {0}
    /\ Logical \subseteq [Heights -> Digits]
    /\ Physical \subseteq Nat \ {Unassigned}

VARIABLES
    height,         \* the height word of the page at an address, -1 if there is none
    entry,          \* the entries of the page at an address
    root,           \* d->root.address_map_addr
    next_physical,  \* the allocator's counter, in pages
    writer,         \* the locals of the running obl_address_assign
    reader,         \* per reader, the locals of its obl_address_lookup
    table,          \* history: what has been assigned so far
    linked,         \* history: the pages that are part of the tree
    prefix          \* history: the digits above its height a page stands for

content == <<height, entry>>
history == <<table, linked, prefix>>
vars == <<height, entry, root, next_physical, writer, reader, table, linked, prefix>>

\* _verify_addrtreepage: the word at base is the shape of an address map page.
IsPage(base) == base \in PageAddress /\ height[base] # -1

\* Mutant: the mask keeps the digit of the page itself.
InRangeKeepsDigit(h, l) == \A k \in Heights : k >= h => l[k] = 0

\* No digit of l above height h is set: the address fits a tree of that height.
InRange(h, l) == \A k \in Heights : k > h => l[k] = 0

\* What the test of mask & logical may answer.  From WordHeight on the shift is
\* as wide as the word, which C leaves undefined.
RangeAnswers(h, l) == IF h < WordHeight THEN {InRange(h, l)} ELSE BOOLEAN

-------------------------------------------------------------------------------
(* obl_address_assign, one thread at a time *)

Locals(pc, l, p, base, page) ==
    [pc |-> pc, logical |-> l, physical |-> p, base |-> base, page |-> page]

Idle == Locals("idle", ZeroDigits, Unassigned, Unassigned, Unassigned)

\* The running call goes on at pc, with the cursor at base and a new page.
GoTo(pc, base, page) ==
    writer' = Locals(pc, writer.logical, writer.physical, base, page)

BeginAssign(l, p) ==
    /\ writer.pc = "idle"
    /\ writer' = Locals("root", l, p, Unassigned, Unassigned)
    /\ UNCHANGED <<content, root, next_physical, reader, history>>

\* The tree is high enough, or pages have to be put on top of it.  A root that
\* is not a page ends the call.
AssignReadRoot ==
    /\ writer.pc = "root"
    /\ IF ~IsPage(root) THEN writer' = Idle
       ELSE IF InRange(height[root], writer.logical)
       THEN GoTo("descend", root, Unassigned)
       ELSE GoTo("grow", root, Unassigned)
    /\ UNCHANGED <<content, root, next_physical, reader, history>>

\* _create_treepage: take a fresh address, then fill the page in.
CreatePage(h) ==
    /\ next_physical \in PageAddress
    /\ height' = [height EXCEPT ![next_physical] = h]
    /\ entry' = [entry EXCEPT ![next_physical] = [i \in Digits |-> Unassigned]]
    /\ next_physical' = next_physical + 1

GrowCreate ==
    /\ writer.pc = "grow"
    /\ CreatePage(height[writer.base] + 1)
    /\ GoTo("growlink", writer.base, next_physical)
    /\ UNCHANGED <<root, reader, history>>

\* Mutant: the former root is not linked under the page that replaces it.
GrowLinkForgetsBelow ==
    /\ writer.pc = "growlink"
    /\ linked' = linked \cup {writer.page}
    /\ prefix' = [prefix EXCEPT ![writer.page] = ZeroDigits]
    /\ IF InRange(height[writer.page], writer.logical)
       THEN GoTo("publish", writer.page, Unassigned)
       ELSE GoTo("grow", writer.page, Unassigned)
    /\ UNCHANGED <<content, root, next_physical, reader, table>>

\* Mutant: the new page is linked under itself.
GrowLinkToItself ==
    /\ writer.pc = "growlink"
    /\ entry' = [entry EXCEPT ![writer.page][0] = writer.page]
    /\ linked' = linked \cup {writer.page}
    /\ prefix' = [prefix EXCEPT ![writer.page] = ZeroDigits]
    /\ IF InRange(height[writer.page], writer.logical)
       THEN GoTo("publish", writer.page, Unassigned)
       ELSE GoTo("grow", writer.page, Unassigned)
    /\ UNCHANGED <<height, root, next_physical, reader, table>>

\* Index 0 of the new page is the page below; go on while the loop must.
GrowLink ==
    /\ writer.pc = "growlink"
    /\ entry' = [entry EXCEPT ![writer.page][0] = writer.base]
    /\ linked' = linked \cup {writer.page}
    /\ prefix' = [prefix EXCEPT ![writer.page] = ZeroDigits]
    /\ IF InRange(height[writer.page], writer.logical)
       THEN GoTo("publish", writer.page, Unassigned)
       ELSE GoTo("grow", writer.page, Unassigned)
    /\ UNCHANGED <<height, root, next_physical, reader, table>>

Publish ==
    /\ writer.pc = "publish"
    /\ root' = writer.base
    /\ GoTo("descend", writer.base, Unassigned)
    /\ UNCHANGED <<content, next_physical, reader, history>>

\* _assign_in: the index of the key in the page under the cursor.
Index == writer.logical[height[writer.base]]
Below == entry[writer.base][Index]

WriteLeaf ==
    /\ writer.pc = "descend"
    /\ height[writer.base] = 0
    /\ entry' = [entry EXCEPT ![writer.base][Index] = writer.physical]
    /\ table' = [table EXCEPT ![writer.logical] = writer.physical]
    /\ writer' = Idle
    /\ UNCHANGED <<height, root, next_physical, reader, linked, prefix>>

\* Mutant: the recursive call is made on the same page.
DescendStaysPut ==
    /\ writer.pc = "descend"
    /\ height[writer.base] > 0
    /\ Below # Unassigned
    /\ GoTo("descend", writer.base, writer.base)
    /\ UNCHANGED <<content, root, next_physical, reader, history>>

\* The recursive call on the page below verifies it first.
Descend ==
    /\ writer.pc = "descend"
    /\ height[writer.base] > 0
    /\ Below # Unassigned
    /\ IF IsPage(Below) THEN GoTo("descend", Below, Unassigned) ELSE writer' = Idle
    /\ UNCHANGED <<content, root, next_physical, reader, history>>

\* Mutant: the page below gets the height of the page above it.
CreateBelowSameHeight ==
    /\ writer.pc = "descend"
    /\ height[writer.base] > 0
    /\ Below = Unassigned
    /\ CreatePage(height[writer.base])
    /\ GoTo("link", writer.base, next_physical)
    /\ UNCHANGED <<root, reader, history>>

CreateBelow ==
    /\ writer.pc = "descend"
    /\ height[writer.base] > 0
    /\ Below = Unassigned
    /\ CreatePage(height[writer.base] - 1)
    /\ GoTo("link", writer.base, next_physical)
    /\ UNCHANGED <<root, reader, history>>

\* Mutant: the new page is linked at the index of its own height.
LinkBelowWrongIndex ==
    /\ writer.pc = "link"
    /\ entry' = [entry EXCEPT ![writer.base]
                    [writer.logical[height[writer.page]]] = writer.page]
    /\ linked' = linked \cup {writer.page}
    /\ prefix' = [prefix EXCEPT ![writer.page] = writer.logical]
    /\ GoTo("descend", writer.page, Unassigned)
    /\ UNCHANGED <<height, root, next_physical, reader, table>>

LinkBelow ==
    /\ writer.pc = "link"
    /\ entry' = [entry EXCEPT ![writer.base][Index] = writer.page]
    /\ linked' = linked \cup {writer.page}
    /\ prefix' = [prefix EXCEPT ![writer.page] = writer.logical]
    /\ GoTo("descend", writer.page, Unassigned)
    /\ UNCHANGED <<height, root, next_physical, reader, table>>

AssignStep ==
    \/ AssignReadRoot \/ GrowCreate \/ GrowLink \/ Publish
    \/ WriteLeaf \/ Descend \/ CreateBelow \/ LinkBelow
-------------------------------------------------------------------------------
(* obl_address_lookup, any number of threads, no lock *)

Call(pc, l, base, value) ==
    [pc |-> pc, logical |-> l, base |-> base, value |-> value]

Ready == Call("ready", ZeroDigits, Unassigned, Unassigned)
Done(l, p) == Call("done", l, Unassigned, p)   \* the call's answer is p

BeginLookup(r, l) ==
    /\ reader[r].pc = "ready"
    /\ reader' = [reader EXCEPT ![r] = Call("root", l, Unassigned, Unassigned)]
    /\ UNCHANGED <<content, root, next_physical, writer, history>>

LookupReadRoot(r) ==
    /\ reader[r].pc = "root"
    /\ reader' = [reader EXCEPT ![r] = Call("range", reader[r].logical, root, Unassigned)]
    /\ UNCHANGED <<content, root, next_physical, writer, history>>

CheckRange(r) ==
    LET l == reader[r].logical
        base == reader[r].base
    IN  /\ reader[r].pc = "range"
        /\ \E inrange \in (IF IsPage(base) THEN RangeAnswers(height[base], l)
                                           ELSE {FALSE}) :
              reader' = [reader EXCEPT ![r] =
                  IF inrange THEN Call("walk", l, base, Unassigned) ELSE Done(l, Unassigned)]
        /\ UNCHANGED <<content, root, next_physical, writer, history>>

\* One level of _lookup_in.
Walk(r) ==
    LET l == reader[r].logical
        base == reader[r].base
        value == IF IsPage(base) THEN entry[base][l[height[base]]] ELSE Unassigned
    IN  /\ reader[r].pc = "walk"
        /\ reader' = [reader EXCEPT ![r] =
              IF value = Unassigned \/ height[base] = 0
              THEN Done(l, value) ELSE Call("walk", l, value, Unassigned)]
        /\ UNCHANGED <<content, root, next_physical, writer, history>>

EndLookup(r) ==
    /\ reader[r].pc = "done"
    /\ reader' = [reader EXCEPT ![r] = Ready]
    /\ UNCHANGED <<content, root, next_physical, writer, history>>

LookupStep(r) == LookupReadRoot(r) \/ CheckRange(r) \/ Walk(r) \/ EndLookup(r)
-------------------------------------------------------------------------------
\* After bootstrap: one leaf, still empty (its first entries are assigned by
\* the same function).
Init ==
    /\ height = [a \in PageAddress |-> IF a = 1 THEN 0 ELSE -1]
    /\ entry = [a \in PageAddress |-> [i \in Digits |-> Unassigned]]
    /\ root = 1
    /\ next_physical = 2
    /\ writer = Idle
    /\ reader = [r \in Readers |-> Ready]
    /\ table = [l \in Logical |-> Unassigned]
    /\ linked = {1}
    /\ prefix = [a \in PageAddress |-> ZeroDigits]

Next ==
    \/ \E l \in Logical, p \in Physical : BeginAssign(l, p)
    \/ AssignStep
    \/ \E r \in Readers, l \in Logical : BeginLookup(r, l)
    \/ \E r \in Readers : LookupStep(r)

Spec == Init /\ [][Next]_vars

\* A thread that has entered a call keeps running: neither function blocks.
Fairness == WF_vars(AssignStep) /\ \A r \in Readers : WF_vars(LookupStep(r))

FairSpec == Spec /\ Fairness
-------------------------------------------------------------------------------
(***************************************************************************)
(* Types of the variables.                                                 *)
(***************************************************************************)
PageOrNone == PageAddress \cup {Unassigned}

WriterType ==
    [pc : {"idle", "root", "grow", "growlink", "publish", "descend", "link"},
     logical : Logical \cup {ZeroDigits}, physical : Physical \cup {Unassigned},
     base : PageOrNone, page : PageOrNone]

ReaderType ==
    [pc : {"ready", "root", "range", "walk", "done"},
     logical : Logical \cup {ZeroDigits}, base : Nat, value : Nat]

TypeOK ==
    /\ height \in [PageAddress -> Heights \cup {-1}]
    /\ entry \in [PageAddress -> [Digits -> Nat]]
    /\ root \in PageAddress
    /\ next_physical \in 1 .. MaxPage + 1
    /\ writer \in WriterType
    /\ reader \in [Readers -> ReaderType]
    /\ table \in [Logical -> Physical \cup {Unassigned}]
    /\ linked \in SUBSET PageAddress
    /\ prefix \in [PageAddress -> [Heights -> Digits]]

-------------------------------------------------------------------------------
(***************************************************************************)
(* Beside a running assignment, lookups answer as if each read the table   *)
(* at one instant of its call: pages are filled in before they are linked, *)
(* linked before the root is moved, and a lookup that started from the     *)
(* former root sees no less than the table of that moment.  The instant is *)
(* the read of the root when the address is out of its range, else the     *)
(* read of the entry that ends the walk.                                   *)
(***************************************************************************)
LookupView(r) ==
    LET at == reader[r]
    IN  CASE at.pc = "ready" -> [phase |-> "ready"]
          [] at.pc = "done" ->
                [phase |-> "answered", logical |-> at.logical, physical |-> at.value]
          [] at.pc = "range" /\ ~InRange(height[at.base], at.logical) ->
                [phase |-> "answered", logical |-> at.logical, physical |-> Unassigned]
          [] OTHER -> [phase |-> "called", logical |-> at.logical]

Table == INSTANCE AddressTable WITH lookup <- [r \in Readers |-> LookupView(r)]

Linearizable == Table!Spec

(***************************************************************************)
(* The tree reachable from the root holds exactly what was assigned, at    *)
(* every step of an assignment: growing the tree, moving the root and      *)
(* linking a page change no address but the one being assigned.            *)
(***************************************************************************)
Path(l) ==   \* the pages that l leads to, by height
    LET page[h \in 0 .. height[root]] ==
            IF h = height[root] THEN root
            ELSE IF page[h + 1] = Unassigned THEN Unassigned
            ELSE entry[page[h + 1]][l[h + 1]]
    IN  page

Resolve(l) ==
    IF ~InRange(height[root], l) \/ Path(l)[0] = Unassigned THEN Unassigned
    ELSE entry[Path(l)[0]][l[0]]

TreeHoldsTable == \A l \in Logical : Resolve(l) = table[l]

(***************************************************************************)
(* Every lookup and every assignment returns: the chain of pages they      *)
(* follow or build has no cycle, whatever the other thread does meanwhile. *)
(***************************************************************************)
LookupReturns == \A r \in Readers : reader[r].pc # "ready" ~> reader[r].pc = "ready"
AssignReturns == writer.pc # "idle" ~> writer.pc = "idle"

-------------------------------------------------------------------------------
(***************************************************************************)
(* The inductive invariant: the pages of the tree hang together by height  *)
(* and by the digits they share, each leaf holds the table's entries, and  *)
(* whoever is inside a page is there for an address that belongs to it.    *)
(* It is what makes the lookups of addressmap.c safe without a lock.       *)
(***************************************************************************)

\* Page a is where the addresses that share its prefix are looked up.
SamePrefix(h, l, m) == \A k \in Heights : k > h => l[k] = m[k]
Covers(a, l) == SamePrefix(height[a], prefix[a], l)

Growing == writer.pc \in {"grow", "growlink", "publish"}

\* The highest page of the tree, published or not yet.
Top == IF Growing THEN writer.base ELSE root

\* Pages in use are below the allocator's counter, pages of the tree are pages.
Allocated ==
    /\ \A a \in PageAddress : height[a] # -1 <=> a < next_physical
    /\ \A a \in linked : height[a] # -1 /\ height[a] <= height[Top]
    /\ root \in linked /\ Top \in linked
    /\ \A k \in Heights : k > height[root] => prefix[root][k] = 0
    /\ \A a \in linked, k \in Heights : k > height[Top] => prefix[a][k] = 0

\* A leaf holds what was assigned to the addresses it covers.
LeafHolds ==
    \A a \in linked, l \in Logical :
        height[a] = 0 /\ Covers(a, l) => entry[a][l[0]] = table[l]

\* An entry of a branch leads one level down to the page of that digit.
BranchLeads ==
    \A a \in linked, i \in Digits :
        height[a] > 0 /\ entry[a][i] # Unassigned =>
            LET b == entry[a][i]
            IN  /\ b \in linked
                /\ height[b] = height[a] - 1
                /\ prefix[b][height[a]] = i
                /\ SamePrefix(height[a], prefix[a], prefix[b])

\* An empty entry of a branch means that nothing below it was ever assigned.
EmptyMeansUnassigned ==
    \A a \in linked, l \in Logical :
        /\ height[a] > 0 /\ Covers(a, l) /\ entry[a][l[height[a]]] = Unassigned
        => table[l] = Unassigned

\* Nothing is assigned beyond the range of the root.
BeyondUnassigned ==
    \A l \in Logical : ~InRange(height[root], l) => table[l] = Unassigned

\* One page per height and prefix.
OnePage ==
    \A a, b \in linked :
        height[a] = height[b] /\ SamePrefix(height[a], prefix[a], prefix[b]) => a = b

\* A page of the tree hangs under every page above it.
UnderItsAncestors ==
    \A a, b \in linked :
        height[a] > height[b] /\ SamePrefix(height[a], prefix[a], prefix[b])
            => entry[a][prefix[b][height[a]]] # Unassigned

\* Where the assignment is.
WriterPlace ==
    /\ writer.pc # "idle" => writer.logical \in Logical /\ writer.physical \in Physical
    /\ writer.pc \in {"grow", "growlink", "publish"} =>
           /\ writer.base \in linked
           /\ \A k \in Heights : k > height[root] => prefix[writer.base][k] = 0
           /\ height[root] <= height[writer.base]
           /\ ~InRange(height[root], writer.logical)
    /\ writer.pc \in {"grow", "growlink"} => ~InRange(height[writer.base], writer.logical)
    /\ writer.pc = "publish" => InRange(height[writer.base], writer.logical)
    /\ writer.pc \in {"descend", "link"} =>
           writer.base \in linked /\ Covers(writer.base, writer.logical)
    /\ writer.pc \in {"growlink", "link"} =>
           /\ writer.page \in PageAddress \ linked
           /\ entry[writer.page] = [i \in Digits |-> Unassigned]
    /\ writer.pc = "growlink" => height[writer.page] = height[writer.base] + 1
    /\ writer.pc = "link" =>
           /\ height[writer.base] > 0
           /\ Below = Unassigned
           /\ height[writer.page] = height[writer.base] - 1

\* Where a lookup is.
ReaderPlace ==
    \A r \in Readers :
        /\ reader[r].pc # "ready" => reader[r].logical \in Logical
        /\ reader[r].pc \in {"range", "walk"} => reader[r].base \in linked
        /\ reader[r].pc = "range" =>
               \A k \in Heights : k > height[reader[r].base] => prefix[reader[r].base][k] = 0
        /\ reader[r].pc = "walk" => Covers(reader[r].base, reader[r].logical)

IInv ==
    /\ Allocated
    /\ LeafHolds
    /\ BranchLeads
    /\ EmptyMeansUnassigned
    /\ BeyondUnassigned
    /\ OnePage
    /\ UnderItsAncestors
    /\ WriterPlace
    /\ ReaderPlace
===============================================================================
