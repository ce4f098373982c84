-------------------------------- MODULE RBSet ---------------------------------
(***************************************************************************)
(* set.c: sets of objects as red-black trees, with insertion and removal   *)
(* bottom-up and an inorder iterator that keeps a stack of nodes.          *)
(*                                                                         *)
(* The sets are the read sets of sessions and the write sets of            *)
(* transactions.  A commit iterates over its write set while the allocator *)
(* inserts its two counters there, the objects with the least keys; an     *)
(* abort, the end of a commit and the end of a session destroy a set, which*)
(* hands out its objects as it frees its nodes.                            *)
(*                                                                         *)
(* A node is a value, so an assignment through a pointer is a new tree; a  *)
(* frame of the iterator finds its node again by the node's key, which a   *)
(* node keeps as long as nothing is removed.                               *)
(***************************************************************************)
EXTENDS Integers, Sequences, FiniteSets

CONSTANTS
    UserKeys,   \* the logical addresses of the program's objects
    Objects,    \* the objects an address may be inserted with
    Counter,    \* the object a counter is inserted with
    NoObject,   \* NULL, for an object
    MaxSize     \* bound: a set of more elements has none removed

NextPhysical == 1   \* the keys of the allocator's counters
NextLogical == 2
Counters == {NextLogical, NextPhysical}
Keys == Counters \cup UserKeys

ASSUME KeysAssumption ==
    /\ UserKeys \subseteq Nat \ 0 .. 2
    /\ Counter \in Objects /\ NoObject \notin Objects
    /\ MaxSize \in Nat

VARIABLES
    root,       \* the tree
    scan,       \* what iterates over the set, or "none"
    stack,      \* the frames of its iterator, the current one last
    visited,    \* history: the keys it has visited
    due         \* history: the keys there were when it began

vars == <<root, scan, stack, visited, due>>

Direction == {"left", "right"}
Opposite(dir) == IF dir = "left" THEN "right" ELSE "left"
Toward(key, n) == IF key < n.key THEN "left" ELSE "right"

\* A missing child counts as black.
Null == [color |-> "black"]
IsRed(n) == n.color = "red"

Created(key, o) ==
    [color |-> "red", key |-> key, o |-> o, children |-> [d \in Direction |-> Null]]

-------------------------------------------------------------------------------
(* Rotations *)

RotateSingle(fulcrum, dir) ==
    LET saved == fulcrum.children[Opposite(dir)]
    IN  [saved EXCEPT
            !.color = "black",
            !.children[dir] = [fulcrum EXCEPT
                !.color = "red",
                !.children[Opposite(dir)] = saved.children[dir]]]

RotateDouble(fulcrum, dir) ==
    RotateSingle([fulcrum EXCEPT
        !.children[Opposite(dir)] = RotateSingle(@, Opposite(dir))], dir)

\* n with a color, above two black children.
Colored(n, color) ==
    [n EXCEPT !.color = color,
              !.children = [d \in Direction |-> [@[d] EXCEPT !.color = "black"]]]

-------------------------------------------------------------------------------
(* insert_r *)

\* Mutant: a red grandchild on the inner side is not looked for.
InsertBalanceOuterOnly(n, dir) ==
    LET child == n.children[dir]
        sibling == n.children[Opposite(dir)]
    IN  IF ~IsRed(child) THEN n
        ELSE IF IsRed(sibling) THEN Colored(n, "red")
        ELSE IF IsRed(child.children[dir]) THEN RotateSingle(n, Opposite(dir))
        ELSE n

\* The node n, after an insertion below it in direction dir.
InsertBalance(n, dir) ==
    LET child == n.children[dir]
        sibling == n.children[Opposite(dir)]
    IN  IF ~IsRed(child) THEN n
        ELSE IF IsRed(sibling) THEN Colored(n, "red")
        ELSE IF IsRed(child.children[dir]) THEN RotateSingle(n, Opposite(dir))
        ELSE IF IsRed(child.children[Opposite(dir)]) THEN RotateDouble(n, Opposite(dir))
        ELSE n

RECURSIVE InsertBelow(_, _)
InsertBelow(n, created) ==
    IF n = Null THEN created
    ELSE IF created.key = n.key THEN [n EXCEPT !.o = created.o]
    ELSE LET dir == Toward(created.key, n)
         IN  InsertBalance([n EXCEPT !.children[dir] = InsertBelow(@, created)], dir)

\* obl_set_insert.
Inserted(n, key, o) == [InsertBelow(n, Created(key, o)) EXCEPT !.color = "black"]

-------------------------------------------------------------------------------
(* remove_r *)

\* The node n, after a removal below it in direction dir has left that side one
\* black node short.  A red sibling is first rotated above n; when n is then
\* rotated again, what takes its place is not linked below that sibling.
RemoveBalance(n, dir) ==
    LET sibling == n.children[Opposite(dir)]
        reduced == IsRed(sibling)
        above == RotateSingle(n, dir)
        p == IF reduced THEN above.children[dir] ELSE n
        s == p.children[Opposite(dir)]
        Linked(q) == IF reduced THEN [above EXCEPT !.children[dir] = q] ELSE q
        rotated == IF IsRed(s.children[Opposite(dir)]) THEN RotateSingle(p, dir)
                   ELSE RotateDouble(p, dir)
    IN  IF s = Null THEN [node |-> Linked(p), done |-> FALSE]
        ELSE IF \A d \in Direction : ~IsRed(s.children[d])
        THEN [node |-> Linked([p EXCEPT !.color = "black",
                                        !.children[Opposite(dir)].color = "red"]),
              done |-> IsRed(p)]
        ELSE [node |-> IF reduced THEN Linked(Colored(rotated, "black").children[dir])
                       ELSE Colored(rotated, n.color),
              done |-> TRUE]

RECURSIVE Last(_)
Last(n) == IF n.children["right"] = Null THEN n ELSE Last(n.children["right"])

\* Mutant: the key of the predecessor comes without its object.
ReplacedKey(n) == [n EXCEPT !.key = Last(n.children["left"]).key]

\* The inorder predecessor's data, in the node n.
Replaced(n) == LET heir == Last(n.children["left"])
               IN  [n EXCEPT !.key = heir.key, !.o = heir.o]

\* Below a node that took its heir's data, the heir is found on the left.
RECURSIVE RemoveBelow(_, _)
RemoveBelow(n, key) ==
    IF n = Null THEN [node |-> Null, done |-> TRUE]
    ELSE IF n.key = key /\ \E d \in Direction : n.children[d] = Null
    THEN LET saved == n.children[IF n.children["left"] = Null THEN "right" ELSE "left"]
         IN  [node |-> IF IsRed(n) THEN saved ELSE [saved EXCEPT !.color = "black"],
              done |-> IsRed(n) \/ IsRed(saved)]
    ELSE LET m == IF n.key = key THEN Replaced(n) ELSE n
             sought == IF n.key = key THEN m.key ELSE key
             dir == IF m.key < sought THEN "right" ELSE "left"
             below == RemoveBelow(m.children[dir], sought)
             relinked == [m EXCEPT !.children[dir] = below.node]
         IN  IF below.done THEN [node |-> relinked, done |-> TRUE]
             ELSE RemoveBalance(relinked, dir)

-------------------------------------------------------------------------------
(* lookup_r, verify_r and the order of the tree *)

RECURSIVE Find(_, _)
Find(n, key) ==
    IF n = Null \/ n.key = key THEN n ELSE Find(n.children[Toward(key, n)], key)

Lookup(n, key) == IF Find(n, key) = Null THEN NoObject ELSE Find(n, key).o

\* The black height of a valid tree, and 0 of another.
RECURSIVE Verify(_)
Verify(n) ==
    IF n = Null THEN 1
    ELSE LET left == n.children["left"]
             right == n.children["right"]
             height == Verify(left)
         IN  IF \/ IsRed(n) /\ (IsRed(left) \/ IsRed(right))
                \/ left # Null /\ left.key >= n.key
                \/ right # Null /\ right.key <= n.key
                \/ height # Verify(right)
             THEN 0
             ELSE IF height # 0 /\ ~IsRed(n) THEN height + 1 ELSE height

RECURSIVE Inorder(_)
Inorder(n) ==
    IF n = Null THEN <<>>
    ELSE Inorder(n.children["left"]) \o <<n.key>> \o Inorder(n.children["right"])

KeysOf(n) == LET keys == Inorder(n) IN {keys[i] : i \in DOMAIN keys}

-------------------------------------------------------------------------------
(* The inorder iterator *)

\* The frames pushed for the node n and what is leftmost below it.
RECURSIVE Leftmost(_)
Leftmost(n) ==
    IF n = Null THEN <<>>
    ELSE <<[key |-> n.key, visited |-> FALSE]>> \o Leftmost(n.children["left"])

RECURSIVE Popped(_)
Popped(frames) ==
    IF frames # <<>> /\ frames[Len(frames)].visited
    THEN Popped(SubSeq(frames, 1, Len(frames) - 1))
    ELSE frames

\* Mutant: of the right subtree only its root is pushed.
AdvancedOneDeep(frames, n) ==
    LET top == Len(frames)
        pushed == Leftmost(Find(n, frames[top].key).children["right"])
    IN  Popped([frames EXCEPT ![top].visited = TRUE] \o
            (IF pushed = <<>> THEN <<>> ELSE <<pushed[1]>>))

\* inorder_iternext: the current node is visited, and its right subtree pushed.
Advanced(frames, n) ==
    LET top == Len(frames)
        node == Find(n, frames[top].key)
    IN  Popped([frames EXCEPT ![top].visited = TRUE] \o Leftmost(node.children["right"]))

-------------------------------------------------------------------------------
(* The destroying iterator *)

Frame(n) == IF n = Null THEN <<>> ELSE <<[key |-> n.key, visited |-> FALSE]>>

\* Mutant: the frame of the left child takes the place of the right one's.
ReplacedByOne(frames, n) ==
    LET rest == SubSeq(frames, 1, Len(frames) - 1)
        node == Find(n, frames[Len(frames)].key)
        left == Frame(node.children["left"])
    IN  rest \o (IF left = <<>> THEN Frame(node.children["right"]) ELSE left)

\* destroying_iternext: frames of the children, the left one current, take the
\* place of the current frame.  The node was freed just before, and is read as
\* it was: nothing else of the call takes its memory.
ReplacedByChildren(frames, n) ==
    LET rest == SubSeq(frames, 1, Len(frames) - 1)
        node == Find(n, frames[Len(frames)].key)
    IN  rest \o Frame(node.children["right"]) \o Frame(node.children["left"])

-------------------------------------------------------------------------------
Init ==
    /\ root = Null
    /\ scan = "none"
    /\ stack = <<>>
    /\ visited = {}
    /\ due = {}

\* obl_set_insert, of a user's object or of one of the counters.
Insert(k, o) ==
    /\ scan = "none"
    /\ root' = Inserted(root, k, o)
    /\ UNCHANGED <<scan, stack, visited, due>>

\* obl_set_remove, of any object with the key k.
Remove(k) ==
    /\ scan = "none"
    /\ Cardinality(KeysOf(root)) <= MaxSize
    /\ root' = RemoveBelow(root, k).node
    /\ UNCHANGED <<scan, stack, visited, due>>

\* A commit begins to iterate over its write set.
BeginScan ==
    /\ scan = "none"
    /\ scan' = "visiting"
    /\ stack' = Leftmost(root)
    /\ visited' = {}
    /\ due' = KeysOf(root)
    /\ UNCHANGED root

\* It takes the next object of the set.
Visit ==
    /\ scan = "visiting" /\ stack # <<>>
    /\ visited' = visited \cup {stack[Len(stack)].key}
    /\ stack' = Advanced(stack, root)
    /\ UNCHANGED <<root, scan, due>>

\* The object refers to a new one: both of the allocator's counters change.
AllocateLogical ==
    /\ scan = "visiting" /\ visited # {}
    /\ scan' = "allocating"
    /\ root' = Inserted(root, NextLogical, Counter)
    /\ UNCHANGED <<stack, visited, due>>

AllocatePhysical ==
    /\ scan = "allocating"
    /\ scan' = "visiting"
    /\ root' = Inserted(root, NextPhysical, Counter)
    /\ UNCHANGED <<stack, visited, due>>

\* obl_destroy_set or an abort, at the end of a commit's scan or without one.
BeginDestroy ==
    /\ scan = "none" \/ (scan = "visiting" /\ stack = <<>>)
    /\ scan' = "destroying"
    /\ stack' = Frame(root)
    /\ visited' = {}
    /\ due' = KeysOf(root)
    /\ UNCHANGED root

\* The callback of a destruction gets the next object.
DestroyNext ==
    /\ scan = "destroying" /\ stack # <<>>
    /\ visited' = visited \cup {stack[Len(stack)].key}
    /\ stack' = ReplacedByChildren(stack, root)
    /\ UNCHANGED <<root, scan, due>>

EndDestroy ==
    /\ scan = "destroying" /\ stack = <<>>
    /\ root' = Null
    /\ scan' = "none"
    /\ visited' = {}
    /\ due' = {}
    /\ UNCHANGED stack

Next ==
    \/ \E k \in UserKeys, o \in Objects : Insert(k, o)
    \/ \E k \in UserKeys : Remove(k)
    \/ BeginScan \/ Visit \/ AllocateLogical \/ AllocatePhysical
    \/ BeginDestroy \/ DestroyNext \/ EndDestroy

Spec == Init /\ [][Next]_vars

-------------------------------------------------------------------------------
(***************************************************************************)
(* The set is what set.h promises: an object for each key, changed only by *)
(* an insertion or a removal of that key, whatever is rebalanced.          *)
(***************************************************************************)
Contents == INSTANCE KeyedSet WITH contents <- [k \in Keys |-> Lookup(root, k)]

IsKeyedSet == Contents!Spec

(***************************************************************************)
(* The tree passes its own test, obl_set_verify, and is ordered throughout,*)
(* which the test only compares between a node and its children.           *)
(***************************************************************************)
Valid ==
    /\ Verify(root) # 0
    /\ \A i, j \in DOMAIN Inorder(root) : i < j => Inorder(root)[i] < Inorder(root)[j]

(***************************************************************************)
(* A commit's scan misses none of the objects that were in the write set   *)
(* when it began, although the allocator rebalances the tree under it: it  *)
(* would leave what a missed object refers to without an address.          *)
(***************************************************************************)
ScanMissesNone == scan = "visiting" /\ stack = <<>> => due \subseteq visited

(***************************************************************************)
(* A set that is destroyed hands each of its objects out once: one missed  *)
(* is never freed, or never read again by an abort, and one that came      *)
(* twice would be freed twice.  What is still to come is below the frames. *)
(***************************************************************************)
Pending(i) == KeysOf(Find(root, stack[i].key))

DestroysEach ==
    scan = "destroying" =>
        /\ due = visited \cup UNION {Pending(i) : i \in DOMAIN stack}
        /\ \A i \in DOMAIN stack :
              /\ Pending(i) \cap visited = {}
              /\ \A j \in DOMAIN stack \ {i} : Pending(i) \cap Pending(j) = {}

(***************************************************************************)
(* A removal takes out what has its key, and nothing else.                 *)
(***************************************************************************)
RemovesOne ==
    [][scan = "none" => \A k \in Keys :
          Lookup(root, k) # NoObject /\ Lookup(root', k) = NoObject =>
              \A j \in Keys \ {k} : Lookup(root, j) = Lookup(root', j)]_vars
===============================================================================
