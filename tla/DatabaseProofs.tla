---------------------------- MODULE DatabaseProofs -----------------------------
(***************************************************************************)
(* Proofs about Database: what a file promises at each write and after any *)
(* number of programs that stop anywhere, for pages of any size and files  *)
(* of any length.                                                          *)
(***************************************************************************)
EXTENDS Database, TLAPS

Live == pc \in {"idle", "assign", "write"}
IsLeaf(p) == IsPage(p) /\ cell[p].height = 0

(***************************************************************************)
(* The writes of bootstrapping that were done: what they stored is there,  *)
(* and the first leaf has no other entry yet.                              *)
(***************************************************************************)
BootInv ==
    /\ ~magic => Committed = {} /\ ~Live
    /\ pc = "bootstrap" =>
        /\ root = FirstLeaf
        /\ step >= 1 => disk_root = FirstLeaf
        /\ step >= 2 => cell[Allocator] = Object(Allocator, Unassigned)
        /\ step >= 3 => cell[NextPhysical] = Object(NextPhysical, FirstLeaf + 1)
        /\ step >= 4 => cell[NextLogical] = Object(NextLogical, NextLogical + 1)
        /\ step >= 5 => IsLeaf(FirstLeaf)
        /\ \A l \in System : step >= 5 + l => cell[FirstLeaf].entry[l] = l
        /\ step >= 9 <=> magic

(***************************************************************************)
(* The file: once it has the magic word, the system objects are there and  *)
(* the counters are past whatever was committed.                           *)
(***************************************************************************)
StoredInv ==
    magic =>
        /\ disk_root = FirstLeaf /\ IsLeaf(FirstLeaf)
        /\ \A l \in System :
              /\ cell[l].kind = "object" /\ cell[l].logical = l
              /\ cell[FirstLeaf].entry[l] = l
        /\ cell[NextLogical].value > NextLogical
        /\ cell[NextPhysical].value > FirstLeaf
        /\ \A l \in Committed :
              /\ l > NextLogical /\ l < cell[NextLogical].value
              /\ committed[l] > FirstLeaf /\ committed[l] < cell[NextPhysical].value
              /\ cell[committed[l]].kind = "object" /\ cell[committed[l]].logical = l
              /\ l < ChunkSize => cell[FirstLeaf].entry[l] = committed[l]

(***************************************************************************)
(* Whatever else is stored, by commits that were finished or not, is below *)
(* the counters, and refers to what is.                                    *)
(***************************************************************************)
ObjectsInv ==
    \A p \in Physical \ System : cell[p].kind = "object" =>
        /\ magic
        /\ p < cell[NextPhysical].value
        /\ cell[p].value < cell[NextLogical].value

(***************************************************************************)
(* The object that is changed to refer to a new one is older.              *)
(***************************************************************************)
ParentInv ==
    job.parent # Unassigned =>
        /\ job.parent \in Physical \ System /\ job.parent < job.physical
        /\ cell[job.parent].kind = "object"

(***************************************************************************)
(* A commit that runs has its addresses from counters that are past what   *)
(* was committed, and has written its objects up to step.                  *)
(***************************************************************************)
JobInv ==
    /\ pc = "assign" =>
        /\ job.logical = cell[NextLogical].value /\ job.physical = cell[NextPhysical].value
        /\ step = 0
        /\ \/ job.next = job.physical + 1
           \/ job.next = job.physical + 2 /\ cell[root].height = 1
           \/ /\ job.next = job.physical + 3 /\ cell[root].height = 1
              /\ Entry(root, job.logical \div ChunkSize) # Unassigned
    /\ pc = "write" =>
        /\ step <= Len(WriteSet)
        /\ cell[NextPhysical].value = IF step >= 1 THEN job.next ELSE job.physical
        /\ cell[NextLogical].value = IF step >= 2 THEN job.logical + 1 ELSE job.logical
        /\ step >= Len(WriteSet) => cell[job.physical] = Object(job.logical, Unassigned)
        /\ Lookup(root, job.logical) = job.physical
    /\ pc \in {"assign", "write"} =>
        /\ job.logical \in Logical /\ job.logical > NextLogical
        /\ job.physical > FirstLeaf /\ job.physical + 2 \in Physical
        /\ job.next > job.physical /\ job.next <= job.physical + 3
        /\ \A l \in Committed : l < job.logical /\ committed[l] < job.physical
        /\ ParentInv

\* The next page or object is put here or after.
Top == IF pc = "idle" THEN cell[NextPhysical].value ELSE job.next
Given(p) == p < Top /\ (pc # "idle" => p # job.physical)

(***************************************************************************)
(* The map of a program: the first leaf, or a branch over it and over      *)
(* other leaves, each below one entry, on cells that nothing else takes.   *)
(***************************************************************************)
MapInv ==
    Live =>
        /\ IsPage(root) /\ Given(root)
        /\ \/ root = FirstLeaf
           \/ /\ root > FirstLeaf /\ cell[root].height = 1
              /\ cell[root].entry[0] = FirstLeaf
              /\ \A d \in Digits \ {0} :
                    LET leaf == cell[root].entry[d]
                    IN  leaf # Unassigned =>
                          /\ leaf > FirstLeaf /\ IsLeaf(leaf) /\ Given(leaf)
                          /\ \A e \in Digits \ {d} : cell[root].entry[e] # leaf

(***************************************************************************)
(* A program finds what it has committed.                                  *)
(***************************************************************************)
MineInv ==
    /\ ~Live => mine = {}
    /\ mine \subseteq Committed
    /\ Live => \A l \in mine : Lookup(root, l) = committed[l]

DInv == TypeOK /\ BootInv /\ StoredInv /\ ObjectsInv /\ JobInv /\ MapInv /\ MineInv

-------------------------------------------------------------------------------
\* The system objects and the first leaf are apart, in cells and below the first leaf's end.
LEMMA Places ==
    /\ FirstLeaf = 4 /\ FirstLeaf \in Physical /\ Unassigned = 0 /\ Unassigned \notin Physical
    /\ System \subseteq Physical /\ System \subseteq Digits /\ 0 \in Digits
    /\ Allocator = 1 /\ NextPhysical = 2 /\ NextLogical = 3
    /\ \A l \in System : l \in Nat /\ l < FirstLeaf
    /\ \A l \in System : l \in {1, 2, 3}
    /\ \A p \in Physical : p \in Nat
    /\ \A l \in Logical : l \in Nat /\ l # Unassigned
  BY ConstantsAssumption, SMT
     DEF FirstLeaf, Physical, Unassigned, System, Allocator, NextPhysical, NextLogical, Digits,
         Logical

\* An address is a digit for each of the two levels, and they tell it.
LEMMA TwoDigits ==
  ASSUME NEW l \in Logical
  PROVE  /\ l \div ChunkSize \in Digits /\ l % ChunkSize \in Digits
         /\ l < ChunkSize => l \div ChunkSize = 0 /\ l % ChunkSize = l /\ l \in Digits
         /\ l >= ChunkSize => l \div ChunkSize # 0
  <1>1. l \in Nat
    BY Places
  <1>2. l \div ChunkSize \in Digits /\ l % ChunkSize \in Digits
    BY ConstantsAssumption, SMT DEF Logical, Digits
  <1>3. l < ChunkSize => l \div ChunkSize = 0 /\ l % ChunkSize = l
    BY <1>1, ConstantsAssumption, SMT
  <1>4. l >= ChunkSize => l \div ChunkSize # 0
    BY <1>1, ConstantsAssumption, SMT
  <1> QED
    BY <1>2, <1>3, <1>4

\* Two addresses with the same digits are the same.
LEMMA DigitsTell ==
  ASSUME NEW l \in Logical, NEW k \in Logical,
         l \div ChunkSize = k \div ChunkSize, l % ChunkSize = k % ChunkSize
  PROVE  l = k
  <1>1. l \in Nat /\ k \in Nat
    BY Places
  <1> QED
    BY <1>1, ConstantsAssumption, SMT

\* The writes of bootstrapping and of a commit, in their order.
LEMMA Steps == 0 .. Len(BootstrapOrder) = 0 .. 9
  BY SMT DEF BootstrapOrder

LEMMA Order ==
    /\ Len(BootstrapOrder) = 9
    /\ BootstrapOrder[1] = "root" /\ BootstrapOrder[2] = "allocator"
    /\ BootstrapOrder[3] = "next_physical" /\ BootstrapOrder[4] = "next_logical"
    /\ BootstrapOrder[5] = "treepage" /\ BootstrapOrder[6] = "assign allocator"
    /\ BootstrapOrder[7] = "assign next_physical" /\ BootstrapOrder[8] = "assign next_logical"
    /\ BootstrapOrder[9] = "magic"
  BY SMT DEF BootstrapOrder

LEMMA Writes ==
    /\ Len(WriteSet) = IF job.parent = Unassigned THEN 3 ELSE 4
    /\ WriteSet[1] = NextPhysical /\ WriteSet[2] = NextLogical
    /\ WriteSet[3] = IF job.parent = Unassigned THEN job.physical ELSE job.parent
    /\ job.parent # Unassigned => WriteSet[4] = job.physical
  <1>1. CASE job.parent = Unassigned
    <2>1. WriteSet = <<NextPhysical, NextLogical, job.physical>>
      BY <1>1 DEF WriteSet
    <2> QED
      BY <1>1, <2>1, SMT
  <1>2. CASE job.parent # Unassigned
    <2>1. WriteSet = <<NextPhysical, NextLogical, job.parent, job.physical>>
      BY <1>2 DEF WriteSet
    <2> QED
      BY <1>2, <2>1, SMT
  <1> QED
    BY <1>1, <1>2

\* What a cell holds is told by its kind.
LEMMA Kinds ==
  ASSUME TypeOK, NEW p \in Physical
  PROVE  /\ cell[p] \in Cells
         /\ cell[p].kind = "page" =>
               cell[p] \in [kind : {"page"}, height : {0, 1}, entry : [Digits -> Nat]]
         /\ cell[p].kind = "object" =>
               cell[p] \in [kind : {"object"}, logical : Logical, value : Nat]
  BY SMT DEF TypeOK, Cells, Blank

\* The parts of a state that a program that stops, or starts, leaves alone.
LEMMA Kept ==
  ASSUME UNCHANGED <<magic, disk_root, cell, committed>>
  PROVE  /\ StoredInv' = StoredInv /\ ObjectsInv' = ObjectsInv /\ Committed' = Committed
         /\ \A p : IsPage(p)' = IsPage(p) /\ IsLeaf(p)' = IsLeaf(p)
  BY DEF StoredInv, ObjectsInv, Committed, IsPage, IsLeaf

\* A step that stores no object but the system's, and leaves the counters alone.
LEMMA ObjectsKept ==
  ASSUME ObjectsInv, magic => magic' /\ cell'[NextPhysical].value = cell[NextPhysical].value
                                    /\ cell'[NextLogical].value = cell[NextLogical].value,
         \A p \in Physical \ System : cell'[p].kind = "object" => cell'[p] = cell[p]
  PROVE  ObjectsInv'
  BY DEF ObjectsInv

-------------------------------------------------------------------------------
(* Opening, and the end of the program *)

\* An empty file.
LEMMA InitDInv == Init => DInv
  <1> SUFFICES ASSUME Init PROVE DInv
    OBVIOUS
  <1>1. TypeOK
    <2>1. cell \in [Physical -> Cells] /\ committed \in [Logical -> Physical \cup {Unassigned}]
      BY SMT DEF Init, Cells
    <2>2. job \in Jobs
      BY SMT DEF Init, NoJob, Jobs, Unassigned
    <2>3. /\ sized \in BOOLEAN /\ magic \in BOOLEAN
          /\ disk_root \in {Unassigned, FirstLeaf} /\ root \in Physical \cup {Unassigned}
          /\ pc \in {"closed", "grow", "check", "bootstrap", "idle", "assign", "write"}
          /\ mine \in SUBSET Logical
      BY DEF Init
    <2>4. step \in 0 .. Len(BootstrapOrder)
      BY Steps, SMT DEF Init
    <2> QED
      BY <2>1, <2>2, <2>3, <2>4 DEF TypeOK
  <1>2. Committed = {}
    BY SMT DEF Init, Committed
  <1>3. ObjectsInv
    BY SMT DEF Init, ObjectsInv, Blank
  <1> QED
    BY <1>1, <1>2, <1>3, SMT DEF Init, DInv, BootInv, StoredInv, JobInv, MapInv, MineInv, Live

\* The file stays, and a program that is not there has committed nothing.
LEMMA StoppedStep == ASSUME DInv, Stopped PROVE DInv'
  <1>1. UNCHANGED <<magic, disk_root, cell, committed>> /\ pc' = "closed" /\ mine' = {}
    BY DEF Stopped, file
  <1>2. StoredInv' /\ ObjectsInv' /\ Committed' = Committed /\ ~Live'
    BY <1>1, Kept DEF DInv, Live
  <1>3. TypeOK'
    BY <1>1, Places, Steps, SMT DEF DInv, TypeOK, Jobs, Stopped, file, NoJob
  <1> QED
    BY <1>1, <1>2, <1>3, SMT DEF DInv, BootInv, JobInv, MapInv, MineInv, Live

\* Nothing of the file is changed before it is known whether it is bootstrapped.
LEMMA OpenStep == ASSUME DInv, Open \/ Grow \/ EndBootstrap PROVE DInv'
  <1>1. /\ UNCHANGED <<magic, disk_root, cell, committed, mine, root, step, job>>
        /\ pc' \in {"grow", "check"} /\ ~Live
    BY DEF Open, Grow, EndBootstrap, file, memory, history, Live
  <1>2. StoredInv' /\ ObjectsInv' /\ Committed' = Committed /\ ~Live'
    BY <1>1, Kept DEF DInv, Live
  <1>3. TypeOK'
    <2>1. sized' \in BOOLEAN
      BY DEF DInv, TypeOK, Open, Grow, EndBootstrap, file
    <2> QED
      BY <1>1, <2>1, SMT DEF DInv, TypeOK
  <1> QED
    BY <1>1, <1>2, <1>3, SMT DEF DInv, BootInv, JobInv, MapInv, MineInv, Live

\* The root on disk is the first leaf, below both counters.
LEMMA ReadRootStep == ASSUME DInv, ReadRoot PROVE DInv'
  <1>1. /\ UNCHANGED <<magic, disk_root, cell, committed, mine, step, job>>
        /\ pc = "check" /\ pc' = "idle" /\ magic /\ root' = disk_root /\ ~Live
    BY DEF ReadRoot, file, history, Live
  <1>2. StoredInv' /\ ObjectsInv' /\ Committed' = Committed
    BY <1>1, Kept DEF DInv
  <1>3. /\ StoredInv /\ disk_root = FirstLeaf /\ IsLeaf(FirstLeaf)
        /\ cell[NextPhysical].value > FirstLeaf
    BY <1>1 DEF DInv, StoredInv
  <1>4. TypeOK'
    BY <1>1, <1>3, Places, SMT DEF DInv, TypeOK, ReadRoot, file
  <1>5. mine = {}
    BY <1>1 DEF DInv, MineInv
  <1>6. MapInv'
    BY <1>1, <1>3, Places, SMT DEF MapInv, IsPage, IsLeaf, Given, Top, Live
  <1> QED
    BY <1>1, <1>2, <1>4, <1>5, <1>6, SMT DEF DInv, BootInv, JobInv, MineInv, Live

\* None of the writes is done yet.
LEMMA BootstrapStep == ASSUME DInv, Bootstrap PROVE DInv'
  <1>1. /\ UNCHANGED <<magic, disk_root, cell, committed, mine, job>>
        /\ pc = "check" /\ pc' = "bootstrap" /\ ~magic /\ root' = FirstLeaf /\ step' = 0 /\ ~Live
    BY DEF Bootstrap, file, history, Live
  <1>2. StoredInv' /\ ObjectsInv' /\ Committed' = Committed /\ ~Live'
    BY <1>1, Kept DEF DInv, Live
  <1>3. TypeOK'
    BY <1>1, Places, Steps, SMT DEF DInv, TypeOK, Bootstrap, file
  <1>4. BootInv'
    <2>1. ~(step' >= 1) /\ (step' >= 9 <=> magic')
      BY <1>1, SMT
    <2>2. \A l \in System : ~(step' >= 5 + l)
      BY <1>1, Places, SMT
    <2> QED
      BY <1>1, <1>2, <2>1, <2>2, SMT DEF DInv, BootInv
  <1> QED
    BY <1>1, <1>2, <1>3, <1>4, SMT DEF DInv, JobInv, MapInv, MineInv, Live

-------------------------------------------------------------------------------
(* Bootstrapping *)

\* An entry of a page is set.
LEMMA SetEntry ==
  ASSUME TypeOK, NEW p \in Physical, cell[p].kind = "page", NEW d \in Digits, NEW x \in Nat,
         cell' = [cell EXCEPT ![p] = [@ EXCEPT !.entry[d] = x]]
  PROVE  /\ cell' \in [Physical -> Cells]
         /\ cell'[p].kind = "page" /\ cell'[p].height = cell[p].height
         /\ \A e \in Digits : cell'[p].entry[e] = IF e = d THEN x ELSE cell[p].entry[e]
         /\ \A q \in Physical \ {p} : cell'[q] = cell[q]
  <1>1. cell[p] \in [kind : {"page"}, height : {0, 1}, entry : [Digits -> Nat]]
    BY Kinds
  <1>2. cell \in [Physical -> Cells]
    BY DEF TypeOK
  <1> DEFINE new == [cell[p] EXCEPT !.entry[d] = x]
  <1>3. /\ new \in [kind : {"page"}, height : {0, 1}, entry : [Digits -> Nat]]
        /\ new.kind = "page" /\ new.height = cell[p].height
        /\ \A e \in Digits : new.entry[e] = IF e = d THEN x ELSE cell[p].entry[e]
    BY <1>1, SMT
  <1>4. new \in Cells
    BY <1>3 DEF Cells
  <1>5. cell'[p] = new /\ \A q \in Physical \ {p} : cell'[q] = cell[q]
    BY <1>2, SMT
  <1>6. cell' \in [Physical -> Cells]
    BY <1>2, <1>4, SMT
  <1> HIDE DEF new
  <1> QED
    BY <1>3, <1>5, <1>6

\* A cell gets another object or page.
LEMMA SetCell ==
  ASSUME TypeOK, NEW p \in Physical, NEW x \in Cells, cell' = [cell EXCEPT ![p] = x]
  PROVE  /\ cell' \in [Physical -> Cells] /\ cell'[p] = x
         /\ \A q \in Physical \ {p} : cell'[q] = cell[q]
  BY SMT DEF TypeOK

\* What is stored is what is read back.
LEMMA Stores ==
    /\ \A l \in Logical, v \in Nat :
          /\ Object(l, v) \in Cells
          /\ Object(l, v).kind = "object" /\ Object(l, v).logical = l /\ Object(l, v).value = v
    /\ \A h \in {0, 1}, entry \in [Digits -> Nat] :
          /\ Page(h, entry) \in Cells
          /\ Page(h, entry).kind = "page" /\ Page(h, entry).height = h
          /\ Page(h, entry).entry = entry
    /\ NoEntries \in [Digits -> Nat] /\ \A d \in Digits : NoEntries[d] = Unassigned
  BY Places, SMT DEF Object, Page, Cells, NoEntries

\* Bootstrapping stores the system objects and the first leaf only.
LEMMA NoObjects ==
  ASSUME ObjectsInv, ~magic, NEW q \in System \cup {FirstLeaf},
         q = FirstLeaf => cell'[q].kind = "page",
         \A p \in Physical \ {q} : cell'[p] = cell[p]
  PROVE  ObjectsInv'
  BY DEF ObjectsInv

\* One case for each of the nine writes: what it stores, and that the others are as they were.
LEMMA BootstrapWriteStep == ASSUME DInv, BootstrapWrite PROVE DInv'
  <1>1. /\ pc = "bootstrap" /\ pc' = "bootstrap" /\ step' = step + 1
        /\ UNCHANGED <<sized, root, job, committed, mine>> /\ ~Live /\ ~Live'
    BY DEF BootstrapWrite, history, Live
  <1>a. step \in 0 .. 8
    <2>1. step \in 0 .. 9
      BY Steps DEF DInv, TypeOK
    <2>2. step < 9
      BY Order DEF BootstrapWrite
    <2> QED
      BY <2>1, <2>2, SMT
  <1>2. /\ root = FirstLeaf /\ mine = {} /\ TypeOK /\ BootInv /\ ObjectsInv
        /\ (step >= 9 <=> magic)
    BY <1>1 DEF DInv, BootInv, MineInv
  <1>3. ~magic
    BY <1>a, <1>2, SMT
  <1>4. Committed = {} /\ Committed' = {}
    BY <1>1, <1>2, <1>3 DEF BootInv, Committed
  <1> DEFINE what == BootstrapOrder[step + 1]
  <1>5. /\ cell' = Bootstrapped(what)
        /\ disk_root' = IF what = "root" THEN root ELSE disk_root
        /\ magic' = (what = "magic" \/ magic)
    BY DEF BootstrapWrite
  <1>6. System \subseteq Logical
    BY ConstantsAssumption, SMT DEF System, Logical, Allocator, NextPhysical, NextLogical
  <1> HIDE DEF what
  <1> DEFINE Goal == /\ cell' \in [Physical -> Cells] /\ disk_root' \in {Unassigned, FirstLeaf}
                     /\ magic' \in BOOLEAN /\ BootInv' /\ StoredInv' /\ ObjectsInv'
  <1> SUFFICES Goal
    <2>1. step' \in 0 .. Len(BootstrapOrder)
      BY <1>1, <1>a, Steps, SMT
    <2>2. TypeOK'
      BY <1>1, <1>2, <2>1 DEF TypeOK
    <2> QED
      BY <1>1, <1>2, <2>2, SMT DEF DInv, JobInv, MapInv, MineInv, Live
  <1>7. CASE step = 0
    <2>1. what = "root"
      <3>1. step + 1 = 1
        BY <1>7, SMT
      <3> QED
        BY <3>1, Order DEF what
    <2>2. cell' = cell /\ disk_root' = FirstLeaf /\ magic' = FALSE
      BY <1>2, <1>3, <1>5, <2>1, Zenon DEF Bootstrapped
    <2>3. BootInv'
      BY <1>1, <1>2, <1>4, <1>7, <2>2, Places, SMT DEF BootInv
    <2>10. ObjectsInv'
      BY <1>2, <1>3, <2>2, NoObjects, Places DEF System
    <2> QED
      BY <1>2, <2>10, <2>2, <2>3 DEF TypeOK, StoredInv
  <1>8. CASE step = 1
    <2>1. what = "allocator"
      <3>1. step + 1 = 2
        BY <1>8, SMT
      <3> QED
        BY <3>1, Order DEF what
    <2>2. /\ cell' = [cell EXCEPT ![Allocator] = Object(Allocator, Unassigned)]
          /\ disk_root' = disk_root /\ magic' = FALSE
      BY <1>3, <1>5, <2>1, Zenon DEF Bootstrapped
    <2>3. Object(Allocator, Unassigned) \in Cells /\ Allocator \in Physical
      BY <1>6, Stores, Places, SMT DEF System
    <2>4. /\ cell' \in [Physical -> Cells] /\ cell'[Allocator] = Object(Allocator, Unassigned)
          /\ \A q \in Physical \ {Allocator} : cell'[q] = cell[q]
      BY <1>2, <2>2, <2>3, SetCell
    <2>5. BootInv'
      BY <1>1, <1>2, <1>4, <1>8, <2>2, <2>4, Places, SMT DEF BootInv, System
    <2>10. ObjectsInv'
      BY <1>2, <1>3, <2>4, NoObjects, Places DEF System
    <2> QED
      BY <1>2, <2>10, <2>2, <2>4, <2>5 DEF TypeOK, StoredInv
  <1>9. CASE step = 2
    <2>1. what = "next_physical"
      <3>1. step + 1 = 3
        BY <1>9, SMT
      <3> QED
        BY <3>1, Order DEF what
    <2>2. /\ cell' = [cell EXCEPT ![NextPhysical] = Object(NextPhysical, FirstLeaf + 1)]
          /\ disk_root' = disk_root /\ magic' = FALSE
      BY <1>3, <1>5, <2>1, Zenon DEF Bootstrapped
    <2>3. Object(NextPhysical, FirstLeaf + 1) \in Cells /\ NextPhysical \in Physical
      BY <1>6, Stores, Places, SMT DEF System
    <2>4. /\ cell' \in [Physical -> Cells]
          /\ cell'[NextPhysical] = Object(NextPhysical, FirstLeaf + 1)
          /\ \A q \in Physical \ {NextPhysical} : cell'[q] = cell[q]
      BY <1>2, <2>2, <2>3, SetCell
    <2>5. BootInv'
      BY <1>1, <1>2, <1>4, <1>9, <2>2, <2>4, Places, SMT DEF BootInv, System
    <2>10. ObjectsInv'
      BY <1>2, <1>3, <2>4, NoObjects, Places DEF System
    <2> QED
      BY <1>2, <2>10, <2>2, <2>4, <2>5 DEF TypeOK, StoredInv
  <1>10. CASE step = 3
    <2>1. what = "next_logical"
      <3>1. step + 1 = 4
        BY <1>10, SMT
      <3> QED
        BY <3>1, Order DEF what
    <2>2. /\ cell' = [cell EXCEPT ![NextLogical] = Object(NextLogical, NextLogical + 1)]
          /\ disk_root' = disk_root /\ magic' = FALSE
      BY <1>3, <1>5, <2>1, Zenon DEF Bootstrapped
    <2>3. Object(NextLogical, NextLogical + 1) \in Cells /\ NextLogical \in Physical
      BY <1>6, Stores, Places, SMT DEF System
    <2>4. /\ cell' \in [Physical -> Cells]
          /\ cell'[NextLogical] = Object(NextLogical, NextLogical + 1)
          /\ \A q \in Physical \ {NextLogical} : cell'[q] = cell[q]
      BY <1>2, <2>2, <2>3, SetCell
    <2>5. BootInv'
      BY <1>1, <1>2, <1>4, <1>10, <2>2, <2>4, Places, SMT DEF BootInv, System
    <2>10. ObjectsInv'
      BY <1>2, <1>3, <2>4, NoObjects, Places DEF System
    <2> QED
      BY <1>2, <2>10, <2>2, <2>4, <2>5 DEF TypeOK, StoredInv
  <1>11. CASE step = 4
    <2>1. what = "treepage"
      <3>1. step + 1 = 5
        BY <1>11, SMT
      <3> QED
        BY <3>1, Order DEF what
    <2>2. /\ cell' = [cell EXCEPT ![FirstLeaf] = Page(0, NoEntries)]
          /\ disk_root' = disk_root /\ magic' = FALSE
      BY <1>3, <1>5, <2>1, Zenon DEF Bootstrapped
    <2>3. /\ cell' \in [Physical -> Cells] /\ cell'[FirstLeaf] = Page(0, NoEntries)
          /\ \A q \in Physical \ {FirstLeaf} : cell'[q] = cell[q]
      <3>1. TypeOK /\ FirstLeaf \in Physical /\ Page(0, NoEntries) \in Cells
        BY <1>2, Stores, Places
      <3> QED
        BY <2>2, <3>1, SetCell
    <2>4. IsLeaf(FirstLeaf)'
      <3>1. cell'[FirstLeaf].kind = "page" /\ cell'[FirstLeaf].height = 0
        BY <2>3, Stores, SMT
      <3> QED
        BY <3>1, Places, SMT DEF IsLeaf, IsPage
    <2>5. BootInv'
      BY <1>1, <1>2, <1>4, <1>11, <2>2, <2>3, <2>4, Places, SMT DEF BootInv, System
    <2>10. ObjectsInv'
      <3>1. cell'[FirstLeaf].kind = "page"
        BY <2>3, Stores, SMT
      <3> QED
        BY <1>2, <1>3, <2>3, <3>1, NoObjects
    <2> QED
      BY <1>2, <2>10, <2>2, <2>3, <2>5 DEF TypeOK, StoredInv
  <1>12. CASE step = 5
    <2>1. what = "assign allocator"
      <3>1. step + 1 = 6
        BY <1>12, SMT
      <3> QED
        BY <3>1, Order DEF what
    <2>2. /\ cell' = [cell EXCEPT ![FirstLeaf] = [@ EXCEPT !.entry[Allocator] = Allocator]]
          /\ disk_root' = disk_root /\ magic' = FALSE
      BY <1>3, <1>5, <2>1, Zenon DEF Bootstrapped
    <2>3. cell[FirstLeaf].kind = "page" /\ cell[FirstLeaf].height = 0
      <3>1. step >= 5
        BY <1>12, SMT
      <3> QED
        BY <1>1, <1>2, <3>1 DEF BootInv, IsLeaf, IsPage
    <2>4. Allocator \in Digits /\ Allocator \in Nat /\ FirstLeaf \in Physical
      BY Places, SMT DEF System
    <2>5. /\ cell' \in [Physical -> Cells]
          /\ cell'[FirstLeaf].kind = "page" /\ cell'[FirstLeaf].height = 0
          /\ \A e \in Digits : cell'[FirstLeaf].entry[e] =
                IF e = Allocator THEN Allocator ELSE cell[FirstLeaf].entry[e]
          /\ \A q \in Physical \ {FirstLeaf} : cell'[q] = cell[q]
      <3>1. cell' = [cell EXCEPT ![FirstLeaf] = [@ EXCEPT !.entry[Allocator] = Allocator]]
        BY <2>2
      <3>2. TypeOK
        BY <1>2
      <3> QED
        BY <2>3, <2>4, <3>1, <3>2, SetEntry, ZenonT(60)
    <2>6. IsLeaf(FirstLeaf)'
      BY <2>5, Places DEF IsLeaf, IsPage
    <2>7. \A e \in System : step' >= 5 + e => cell'[FirstLeaf].entry[e] = e
      BY <1>1, <1>2, <1>12, <2>5, Places, SMT DEF BootInv, System
    <2>8. BootInv'
      BY <1>1, <1>2, <1>4, <1>12, <2>2, <2>5, <2>6, <2>7, Places, SMT DEF BootInv
    <2>10. ObjectsInv'
      BY <1>2, <1>3, <2>5, NoObjects
    <2> QED
      BY <1>2, <2>10, <2>2, <2>5, <2>8 DEF TypeOK, StoredInv
  <1>13. CASE step = 6
    <2>1. what = "assign next_physical"
      <3>1. step + 1 = 7
        BY <1>13, SMT
      <3> QED
        BY <3>1, Order DEF what
    <2>2. /\ cell' = [cell EXCEPT ![FirstLeaf] = [@ EXCEPT !.entry[NextPhysical] = NextPhysical]]
          /\ disk_root' = disk_root /\ magic' = FALSE
      BY <1>3, <1>5, <2>1, Zenon DEF Bootstrapped
    <2>3. cell[FirstLeaf].kind = "page" /\ cell[FirstLeaf].height = 0
      <3>1. step >= 5
        BY <1>13, SMT
      <3> QED
        BY <1>1, <1>2, <3>1 DEF BootInv, IsLeaf, IsPage
    <2>4. NextPhysical \in Digits /\ NextPhysical \in Nat /\ FirstLeaf \in Physical
      BY Places, SMT DEF System
    <2>5. /\ cell' \in [Physical -> Cells]
          /\ cell'[FirstLeaf].kind = "page" /\ cell'[FirstLeaf].height = 0
          /\ \A e \in Digits : cell'[FirstLeaf].entry[e] =
                IF e = NextPhysical THEN NextPhysical ELSE cell[FirstLeaf].entry[e]
          /\ \A q \in Physical \ {FirstLeaf} : cell'[q] = cell[q]
      <3>1. cell' = [cell EXCEPT ![FirstLeaf] = [@ EXCEPT !.entry[NextPhysical] = NextPhysical]]
        BY <2>2
      <3>2. TypeOK
        BY <1>2
      <3> QED
        BY <2>3, <2>4, <3>1, <3>2, SetEntry, ZenonT(60)
    <2>6. IsLeaf(FirstLeaf)'
      BY <2>5, Places DEF IsLeaf, IsPage
    <2>7. \A e \in System : step' >= 5 + e => cell'[FirstLeaf].entry[e] = e
      BY <1>1, <1>2, <1>13, <2>5, Places, SMT DEF BootInv, System
    <2>8. BootInv'
      BY <1>1, <1>2, <1>4, <1>13, <2>2, <2>5, <2>6, <2>7, Places, SMT DEF BootInv
    <2>10. ObjectsInv'
      BY <1>2, <1>3, <2>5, NoObjects
    <2> QED
      BY <1>2, <2>10, <2>2, <2>5, <2>8 DEF TypeOK, StoredInv
  <1>14. CASE step = 7
    <2>1. what = "assign next_logical"
      <3>1. step + 1 = 8
        BY <1>14, SMT
      <3> QED
        BY <3>1, Order DEF what
    <2>2. /\ cell' = [cell EXCEPT ![FirstLeaf] = [@ EXCEPT !.entry[NextLogical] = NextLogical]]
          /\ disk_root' = disk_root /\ magic' = FALSE
      BY <1>3, <1>5, <2>1, Zenon DEF Bootstrapped
    <2>3. cell[FirstLeaf].kind = "page" /\ cell[FirstLeaf].height = 0
      <3>1. step >= 5
        BY <1>14, SMT
      <3> QED
        BY <1>1, <1>2, <3>1 DEF BootInv, IsLeaf, IsPage
    <2>4. NextLogical \in Digits /\ NextLogical \in Nat /\ FirstLeaf \in Physical
      BY Places, SMT DEF System
    <2>5. /\ cell' \in [Physical -> Cells]
          /\ cell'[FirstLeaf].kind = "page" /\ cell'[FirstLeaf].height = 0
          /\ \A e \in Digits : cell'[FirstLeaf].entry[e] =
                IF e = NextLogical THEN NextLogical ELSE cell[FirstLeaf].entry[e]
          /\ \A q \in Physical \ {FirstLeaf} : cell'[q] = cell[q]
      <3>1. cell' = [cell EXCEPT ![FirstLeaf] = [@ EXCEPT !.entry[NextLogical] = NextLogical]]
        BY <2>2
      <3>2. TypeOK
        BY <1>2
      <3> QED
        BY <2>3, <2>4, <3>1, <3>2, SetEntry, ZenonT(60)
    <2>6. IsLeaf(FirstLeaf)'
      BY <2>5, Places DEF IsLeaf, IsPage
    <2>7. \A e \in System : step' >= 5 + e => cell'[FirstLeaf].entry[e] = e
      BY <1>1, <1>2, <1>14, <2>5, Places, SMT DEF BootInv, System
    <2>8. BootInv'
      BY <1>1, <1>2, <1>4, <1>14, <2>2, <2>5, <2>6, <2>7, Places, SMT DEF BootInv
    <2>10. ObjectsInv'
      BY <1>2, <1>3, <2>5, NoObjects
    <2> QED
      BY <1>2, <2>10, <2>2, <2>5, <2>8 DEF TypeOK, StoredInv
  <1>15. CASE step = 8
    <2>1. what = "magic"
      <3>1. step + 1 = 9
        BY <1>15, SMT
      <3> QED
        BY <3>1, Order DEF what
    <2>2. cell' = cell /\ disk_root' = disk_root /\ magic' = TRUE
      BY <1>3, <1>5, <2>1, Zenon DEF Bootstrapped
    <2>3. BootInv'
      BY <1>1, <1>2, <1>4, <1>15, <2>2, Places, SMT DEF BootInv, System, IsLeaf, IsPage
    <2>4. /\ disk_root = FirstLeaf /\ IsLeaf(FirstLeaf) /\ IsLeaf(FirstLeaf)'
          /\ cell[Allocator] = Object(Allocator, Unassigned)
          /\ cell[NextPhysical] = Object(NextPhysical, FirstLeaf + 1)
          /\ cell[NextLogical] = Object(NextLogical, NextLogical + 1)
          /\ \A l \in System : cell[FirstLeaf].entry[l] = l
      BY <1>1, <1>2, <1>15, <2>2, Places, SMT DEF BootInv, IsLeaf, IsPage
    <2>5. \A l \in System : cell[l].kind = "object" /\ cell[l].logical = l
      BY <1>6, <2>4, Stores, Places, SMT DEF System
    <2>6. cell[NextLogical].value > NextLogical /\ cell[NextPhysical].value > FirstLeaf
      BY <1>6, <2>4, Stores, Places, SMT DEF System
    <2>7. StoredInv'
      BY <1>4, <2>2, <2>4, <2>5, <2>6 DEF StoredInv
    <2>10. ObjectsInv'
      BY <1>2, <1>3, <2>2, NoObjects, Places DEF System
    <2> QED
      BY <1>2, <2>10, <2>2, <2>3, <2>7 DEF TypeOK
  <1> QED
    BY <1>a, <1>7, <1>8, <1>9, <1>10, <1>11, <1>12, <1>13, <1>14, <1>15, SMT

-------------------------------------------------------------------------------
(* A commit *)

\* The leaf that the map of a program has for an address.
LeafOf(l) ==
    IF root = FirstLeaf THEN IF l < ChunkSize THEN FirstLeaf ELSE Unassigned
    ELSE cell[root].entry[l \div ChunkSize]

\* What a program that has the file open relies on.
LEMMA Opened ==
  ASSUME DInv, Live
  PROVE  /\ TypeOK /\ magic /\ StoredInv /\ ObjectsInv /\ JobInv
         /\ IsLeaf(FirstLeaf) /\ disk_root = FirstLeaf
         /\ root \in Physical /\ IsPage(root) /\ Given(root)
         /\ cell[root] \in [kind : {"page"}, height : {0, 1}, entry : [Digits -> Nat]]
         /\ root = FirstLeaf \/ (root > FirstLeaf /\ cell[root].height = 1)
         /\ cell[root].height = 0 <=> root = FirstLeaf
         /\ \A l \in Committed : committed[l] \in Physical
         /\ \A p \in Physical : IsPage(p) => \A l \in Committed : p # committed[l]
         /\ \A p \in Physical : IsPage(p) => p \notin System
  <1>1. /\ TypeOK /\ magic /\ StoredInv /\ ObjectsInv /\ JobInv
        /\ IsPage(root) /\ Given(root)
    BY DEF DInv, BootInv, MapInv
  <1>2. IsLeaf(FirstLeaf) /\ disk_root = FirstLeaf
    BY <1>1 DEF StoredInv
  <1>3. root \in Physical /\ cell[root].kind = "page"
    BY <1>1 DEF IsPage
  <1>4. cell[root] \in [kind : {"page"}, height : {0, 1}, entry : [Digits -> Nat]]
    BY <1>1, <1>3, Kinds
  <1>5. root = FirstLeaf \/ (root > FirstLeaf /\ cell[root].height = 1)
    <2>1. MapInv
      BY DEF DInv
    <2> QED
      BY <2>1, Zenon DEF MapInv
  <1>6. cell[root].height = 0 <=> root = FirstLeaf
    BY <1>2, <1>5, <1>3, Places, SMT DEF IsLeaf
  <1>7. \A l \in Committed : committed[l] \in Physical
    BY <1>1, SMT DEF TypeOK, Committed
  <1>8. \A p \in Physical : IsPage(p) => \A l \in Committed : p # committed[l]
    BY <1>1, SMT DEF StoredInv, IsPage
  <1>9. \A p \in Physical : IsPage(p) => p \notin System
    BY <1>1, SMT DEF StoredInv, IsPage
  <1> QED
    BY <1>1, <1>2, <1>3, <1>4, <1>5, <1>6, <1>7, <1>8, <1>9

\* What the addresses have from the map: no two of them have the same entry.
LEMMA Leaves ==
  ASSUME DInv, Live, NEW l \in Logical
  PROVE  /\ LeafOf(l) # Unassigned => /\ LeafOf(l) \in Physical /\ IsLeaf(LeafOf(l))
                                      /\ Given(LeafOf(l)) /\ LeafOf(l) >= FirstLeaf
         /\ Lookup(root, l) = IF LeafOf(l) = Unassigned THEN Unassigned
                              ELSE cell[LeafOf(l)].entry[l % ChunkSize]
         /\ LeafOf(l) = FirstLeaf <=> l < ChunkSize
         /\ root # FirstLeaf => LeafOf(l) # root
  <1>1. l \div ChunkSize \in Digits /\ l % ChunkSize \in Digits /\ l \in Nat
    BY TwoDigits, Places
  <1>2. CASE root = FirstLeaf
    <2>1. IsPage(root) /\ cell[root].height = 0 /\ Given(root)
      BY <1>2, Opened
    <2>2. Lookup(root, l) = IF l < ChunkSize THEN cell[root].entry[l] ELSE Unassigned
      BY <2>1 DEF Lookup, Entry
    <2>3. l < ChunkSize => l % ChunkSize = l
      BY TwoDigits
    <2> QED
      BY <1>2, <2>1, <2>2, <2>3, Places, SMT DEF LeafOf, IsLeaf
  <1>3. CASE root # FirstLeaf
    <2> DEFINE d == l \div ChunkSize
               leaf == cell[root].entry[d]
    <2>1. /\ IsPage(root) /\ cell[root].height = 1 /\ cell[root].entry[0] = FirstLeaf
          /\ \A e \in Digits \ {0} :
                cell[root].entry[e] # Unassigned =>
                   /\ cell[root].entry[e] > FirstLeaf /\ IsLeaf(cell[root].entry[e])
                   /\ Given(cell[root].entry[e])
      BY <1>3 DEF DInv, MapInv
    <2>2. IsLeaf(FirstLeaf) /\ Given(FirstLeaf)
      <3>1. CASE pc = "idle"
        BY <3>1, Opened DEF StoredInv, Given, Top
      <3>2. CASE pc \in {"assign", "write"}
        <4>1. job.physical > FirstLeaf /\ job.next > job.physical
          BY <3>2, Opened DEF JobInv
        <4>2. job.physical \in Nat /\ job.next \in Nat
          <5>1. job \in Jobs
            BY Opened DEF TypeOK
          <5> QED
            BY <5>1, SMT DEF Jobs
        <4>3. FirstLeaf < job.next /\ FirstLeaf # job.physical
          BY <4>1, <4>2, Places, SMT
        <4>4. Top = job.next
          BY <3>2 DEF Top
        <4> QED
          BY <4>3, <4>4, Opened DEF Given
      <3> QED
        BY <3>1, <3>2, Opened DEF Live
    <2>3. d = 0 <=> l < ChunkSize
      BY <1>1, TwoDigits, ConstantsAssumption, SMT
    <2>4. LeafOf(l) = leaf
      BY <1>3 DEF LeafOf
    <2>a. d \in Digits
      BY <1>1
    <2> HIDE DEF d
    <2>5. leaf # Unassigned => IsLeaf(leaf) /\ Given(leaf) /\ leaf \in Physical /\ leaf >= FirstLeaf
      <3>1. CASE d = 0
        BY <3>1, <2>1, <2>2, Places, SMT
      <3>2. CASE d # 0
        <4>1. leaf # Unassigned => leaf > FirstLeaf /\ IsLeaf(leaf) /\ Given(leaf)
          BY <3>2, <2>a, <2>1
        <4>2. IsLeaf(leaf) => leaf \in Physical
          BY DEF IsLeaf, IsPage
        <4> HIDE DEF leaf
        <4>3. leaf # Unassigned => leaf \in Nat
          BY <4>1, <4>2, Places
        <4>4. leaf # Unassigned => leaf >= FirstLeaf
          BY <4>1, <4>3, Places, SMT
        <4> QED
          BY <4>1, <4>2, <4>4
      <3> QED
        BY <3>1, <3>2
    <2>6. leaf = FirstLeaf <=> d = 0
      BY <2>a, <2>1, Places, SMT
    <2>7. Lookup(root, l) = IF leaf = Unassigned THEN Unassigned
                            ELSE cell[leaf].entry[l % ChunkSize]
      <3>1. Lookup(root, l) = Entry(leaf, l % ChunkSize)
        <4>1. cell[root].height # 0
          BY <2>1, SMT
        <4> QED
          BY <2>1, <4>1, Zenon DEF Lookup, Entry, d
      <3>2. leaf # Unassigned => IsPage(leaf)
        BY <2>5 DEF IsLeaf
      <3>3. ~IsPage(Unassigned)
        BY Places DEF IsPage
      <3> QED
        BY <3>1, <3>2, <3>3 DEF Entry
    <2>8. leaf # root
      BY <2>1, <2>5, Opened, Places, SMT DEF IsLeaf
    <2> HIDE DEF leaf
    <2> QED
      BY <2>3, <2>4, <2>5, <2>6, <2>7, <2>8
  <1> QED
    BY <1>2, <1>3

\* Two addresses with one leaf and one entry of it are the same.
LEMMA EntriesApart ==
  ASSUME DInv, Live, NEW l \in Logical, NEW k \in Logical,
         LeafOf(l) = LeafOf(k), LeafOf(l) # Unassigned, l % ChunkSize = k % ChunkSize
  PROVE  l = k
  <1>1. l \div ChunkSize \in Digits /\ k \div ChunkSize \in Digits
    BY TwoDigits
  <1>2. l \div ChunkSize = k \div ChunkSize
    <2>1. CASE LeafOf(l) = FirstLeaf
      BY <2>1, Leaves, TwoDigits
    <2>2. CASE LeafOf(l) # FirstLeaf
      <3>1. root # FirstLeaf
        BY <2>2 DEF LeafOf
      <3>2. /\ cell[root].entry[0] = FirstLeaf
            /\ \A d \in Digits \ {0} : cell[root].entry[d] # Unassigned =>
                  \A e \in Digits \ {d} : cell[root].entry[e] # cell[root].entry[d]
        BY <3>1 DEF DInv, MapInv
      <3>3. /\ LeafOf(l) = cell[root].entry[l \div ChunkSize]
            /\ LeafOf(k) = cell[root].entry[k \div ChunkSize]
        BY <3>1 DEF LeafOf
      <3> QED
        BY <1>1, <2>2, <3>2, <3>3
    <2> QED
      BY <2>1, <2>2
  <1> QED
    BY <1>2, DigitsTell

\* What is left of the map, when the pages that a program can get to stay.
LEMMA MapStays ==
  ASSUME DInv, Live, root' = root,
         \A p \in Physical : IsPage(p) /\ Given(p) =>
            /\ Given(p)' /\ IsPage(p)' /\ cell'[p].height = cell[p].height
            /\ cell[p].height = 1 => cell'[p].entry = cell[p].entry
  PROVE  /\ MapInv'
         /\ \A l \in Logical : LeafOf(l) # Unassigned =>
               Lookup(root, l)' = cell'[LeafOf(l)].entry[l % ChunkSize]
  <1>1. /\ IsPage(root)' /\ Given(root)' /\ cell'[root].height = cell[root].height
        /\ cell[root].height = 1 => cell'[root].entry = cell[root].entry
    BY Opened
  <1>2. \A p \in Physical : IsLeaf(p) /\ Given(p) => IsLeaf(p)' /\ Given(p)'
    BY SMT DEF IsLeaf
  <1>3. MapInv'
    <2>1. CASE root = FirstLeaf
      BY <1>1, <2>1 DEF MapInv
    <2>2. CASE root # FirstLeaf
      <3>1. /\ root > FirstLeaf /\ cell[root].height = 1
            /\ cell[root].entry[0] = FirstLeaf
            /\ \A d \in Digits \ {0} : cell[root].entry[d] # Unassigned =>
                  /\ cell[root].entry[d] > FirstLeaf
                  /\ IsLeaf(cell[root].entry[d]) /\ Given(cell[root].entry[d])
                  /\ \A e \in Digits \ {d} : cell[root].entry[e] # cell[root].entry[d]
        BY <2>2 DEF DInv, MapInv
      <3>2. cell'[root].height = 1 /\ cell'[root].entry = cell[root].entry
        BY <1>1, <3>1
      <3>3. ASSUME NEW d \in Digits \ {0}, cell[root].entry[d] # Unassigned
            PROVE  IsLeaf(cell[root].entry[d])' /\ Given(cell[root].entry[d])'
        <4>1. PICK leaf : leaf = cell[root].entry[d] /\ leaf = cell'[root].entry[d]
          BY <3>2
        <4>2. leaf \in Physical /\ IsLeaf(leaf) /\ Given(leaf)
          BY <3>1, <3>3, <4>1 DEF IsLeaf, IsPage
        <4>3. IsLeaf(leaf)' /\ Given(leaf)'
          BY <1>2, <4>2
        <4> QED
          BY <4>1, <4>3 DEF IsLeaf, IsPage, Given
      <3> QED
        BY <1>1, <3>1, <3>2, <3>3 DEF MapInv
    <2> QED
      BY <2>1, <2>2
  <1>4. ASSUME NEW l \in Logical, LeafOf(l) # Unassigned
        PROVE  Lookup(root, l)' = cell'[LeafOf(l)].entry[l % ChunkSize]
    <2>1. PICK leaf \in Physical : leaf = LeafOf(l)
      BY <1>4, Leaves
    <2>a. IsLeaf(leaf)' /\ (leaf = FirstLeaf <=> l < ChunkSize)
      BY <1>2, <1>4, <2>1, Leaves
    <2>2. l \div ChunkSize \in Digits /\ (l < ChunkSize => l % ChunkSize = l)
      BY TwoDigits
    <2>3. CASE root = FirstLeaf
      <3>1. leaf = root /\ l < ChunkSize /\ cell'[root].height = 0
        BY <1>1, <1>4, <2>1, <2>3, Opened DEF LeafOf
      <3> QED
        BY <1>1, <2>1, <2>2, <3>1, SMT DEF Lookup, Entry
    <2>4. CASE root # FirstLeaf
      <3>1. cell'[root].height = 1 /\ leaf = cell'[root].entry[l \div ChunkSize]
        BY <1>1, <2>1, <2>4, Opened DEF LeafOf
      <3> QED
        BY <1>1, <2>1, <2>a, <3>1, SMT DEF Lookup, Entry, IsLeaf
    <2> QED
      BY <2>3, <2>4
  <1> QED
    BY <1>3, <1>4

\* The counters in the file are numbers, past the system objects and the first leaf.
LEMMA Counters ==
  ASSUME DInv, magic
  PROVE  /\ cell[NextLogical].value \in Nat /\ cell[NextLogical].value > NextLogical
         /\ cell[NextPhysical].value \in Nat /\ cell[NextPhysical].value > FirstLeaf
  <1>1. /\ cell[NextLogical].kind = "object" /\ cell[NextPhysical].kind = "object"
        /\ cell[NextLogical].value > NextLogical /\ cell[NextPhysical].value > FirstLeaf
    BY SMT DEF DInv, StoredInv, System
  <1>2. NextLogical \in Physical /\ NextPhysical \in Physical
    BY Places, SMT DEF System
  <1>3. /\ cell[NextLogical] \in [kind : {"object"}, logical : Logical, value : Nat]
        /\ cell[NextPhysical] \in [kind : {"object"}, logical : Logical, value : Nat]
    BY <1>1, <1>2, Kinds DEF DInv
  <1> QED
    BY <1>1, <1>3, SMT

\* The addresses given are the counters' values, which nothing that was committed has.
LEMMA AllocateStep == ASSUME DInv, Allocate PROVE DInv'
  <1> DEFINE nl == cell[NextLogical].value
             np == cell[NextPhysical].value
  <1>1. /\ pc = "idle" /\ pc' = "assign" /\ step' = 0 /\ Live /\ Live'
        /\ UNCHANGED <<sized, magic, disk_root, cell, root, committed, mine>>
        /\ nl \in Logical /\ np + 2 \in Physical
    BY DEF Allocate, file, history, Live
  <1>2. TypeOK /\ magic /\ StoredInv /\ ObjectsInv
    BY <1>1, Opened
  <1>3. nl \in Nat /\ nl > NextLogical /\ np \in Nat /\ np > FirstLeaf
    BY <1>2, Counters
  <1>4. \A l \in Committed : l < nl /\ committed[l] < np
    BY <1>2 DEF StoredInv
  \* An object that can be read is below the counters, or there is none.
  <1>a. PICK parent \in Physical \cup {Unassigned} :
          /\ job' = [logical |-> nl, physical |-> np, next |-> np + 1, parent |-> parent]
          /\ parent # Unassigned =>
                parent \in Physical \ System /\ cell[parent].kind = "object" /\ parent < np
    <2>1. PICK parent \in Parents :
             job' = [logical |-> nl, physical |-> np, next |-> np + 1, parent |-> parent]
      BY DEF Allocate
    <2>2. /\ parent \in Physical \cup {Unassigned}
          /\ parent # Unassigned => parent \in Readable
      BY DEF Parents, Readable
    <2>3. parent \in Readable =>
             parent \in Physical \ System /\ cell[parent].kind = "object"
      BY DEF Readable
    <2>4. parent \in Readable => parent < np
      BY <1>2, <2>3 DEF ObjectsInv
    <2> QED
      BY <2>1, <2>2, <2>3, <2>4
  <1> HIDE DEF nl, np
  <1>5. /\ job'.logical = nl /\ job'.physical = np /\ job'.next = np + 1 /\ job'.parent = parent
        /\ job' \in Jobs
    BY <1>1, <1>a, <1>3, SMT DEF Jobs
  <1>6. StoredInv' /\ ObjectsInv' /\ Committed' = Committed
    BY <1>1, <1>2, Kept
  <1>7. TypeOK'
    BY <1>1, <1>2, <1>5, Steps, SMT DEF TypeOK
  <1>8. JobInv'
    <2>1. cell'[NextLogical].value = nl /\ cell'[NextPhysical].value = np
      BY <1>1 DEF nl, np
    <2>2. ParentInv'
      BY <1>1, <1>a, <1>5 DEF ParentInv
    <2> QED
      BY <1>1, <1>3, <1>4, <1>5, <1>6, <2>1, <2>2, SMT DEF JobInv
  <1>9. MapInv'
    <2>1. ASSUME NEW p \in Physical, Given(p) PROVE Given(p)'
      <3>1. p \in Nat /\ p < np
        BY <1>1, <2>1, Places DEF Given, Top, np
      <3> QED
        BY <1>1, <1>3, <1>5, <3>1, SMT DEF Given, Top
    <2> QED
      BY <1>1, <2>1, MapStays DEF IsPage
  <1>10. MineInv'
    BY <1>1, <1>6 DEF DInv, MineInv, Lookup, Entry, IsPage
  <1> QED
    BY <1>1, <1>2, <1>6, <1>7, <1>8, <1>9, <1>10, SMT DEF DInv, BootInv

\* What a commit has, that runs.
LEMMA Job ==
  ASSUME DInv, pc \in {"assign", "write"}
  PROVE  /\ job.logical \in Logical /\ job.logical \in Nat /\ job.logical > NextLogical
         /\ job.physical \in Physical /\ job.physical \in Nat /\ job.physical > FirstLeaf
         /\ job.next \in Nat /\ job.next > job.physical
         /\ job.next <= job.physical + 3 /\ job.physical + 2 \in Physical
         /\ \A l \in Committed : l < job.logical /\ committed[l] < job.physical
         /\ \A p : Given(p) <=> p < job.next /\ p # job.physical
         /\ ParentInv
  <1>1. JobInv /\ TypeOK
    BY DEF DInv
  <1>2. job.next \in Nat /\ job.physical \in Nat
    BY <1>1, SMT DEF TypeOK, Jobs
  <1>3. /\ job.logical \in Logical /\ job.logical > NextLogical /\ job.physical > FirstLeaf
        /\ job.next > job.physical /\ job.next <= job.physical + 3 /\ job.physical + 2 \in Physical
        /\ \A l \in Committed : l < job.logical /\ committed[l] < job.physical
        /\ ParentInv
    BY <1>1 DEF JobInv
  <1>4. job.physical \in Physical
    BY <1>2, <1>3, ConstantsAssumption, SMT DEF Physical, FirstLeaf
  <1>5. \A p : Given(p) <=> p < job.next /\ p # job.physical
    BY SMT DEF Given, Top
  <1> QED
    BY <1>2, <1>3, <1>4, <1>5, Places

\* The commit's writes are done: its object is stored, mapped and below the counters.
LEMMA EndCommitStep == ASSUME DInv, EndCommit PROVE DInv'
  <1>1. /\ pc = "write" /\ pc' = "idle" /\ Live /\ Live'
        /\ UNCHANGED <<sized, magic, disk_root, cell, root, step>>
        /\ committed' = [committed EXCEPT ![job.logical] = job.physical]
        /\ mine' = mine \cup {job.logical} /\ job' = NoJob
    BY DEF EndCommit, file, Live
  <1>2. step = Len(WriteSet) /\ step >= 1 /\ step >= 2 /\ step >= Len(WriteSet)
    <2>1. step = 3 \/ step = 4
      BY Writes DEF EndCommit
    <2> QED
      BY <2>1, SMT DEF EndCommit
  <1>3. TypeOK /\ magic /\ StoredInv /\ JobInv /\ cell[FirstLeaf].kind = "page"
    BY <1>1, Opened DEF IsLeaf, IsPage
  <1>4. /\ cell[NextPhysical].value = job.next /\ cell[NextLogical].value = job.logical + 1
        /\ cell[job.physical] = Object(job.logical, Unassigned)
        /\ Lookup(root, job.logical) = job.physical
    BY <1>1, <1>2, <1>3 DEF JobInv
  <1>5. /\ job.logical \in Logical /\ job.logical \in Nat /\ job.logical > NextLogical
        /\ job.physical \in Physical /\ job.physical \in Nat /\ job.physical > FirstLeaf
        /\ job.next \in Nat /\ job.next > job.physical
        /\ \A l \in Committed : l < job.logical /\ committed[l] < job.physical
    BY <1>1, Job
  <1>6. /\ committed' \in [Logical -> Physical \cup {Unassigned}]
        /\ Committed' = Committed \cup {job.logical}
        /\ committed'[job.logical] = job.physical
        /\ \A l \in Committed : committed'[l] = committed[l] /\ l # job.logical
    BY <1>1, <1>3, <1>5, Places, SMT DEF TypeOK, Committed
  <1>7. TypeOK'
    <2>1. job' \in Jobs
      BY <1>1, Places, SMT DEF NoJob, Jobs
    <2> QED
      BY <1>1, <1>3, <1>5, <1>6, <2>1, SMT DEF TypeOK
  <1>8. job.logical < ChunkSize => cell[FirstLeaf].entry[job.logical] = job.physical
    <2>1. ASSUME job.logical < ChunkSize
          PROVE  LeafOf(job.logical) = FirstLeaf /\ job.logical % ChunkSize = job.logical
      BY <1>1, <1>5, <2>1, Leaves, TwoDigits
    <2>2. ASSUME job.logical < ChunkSize
          PROVE  Lookup(root, job.logical) = cell[FirstLeaf].entry[job.logical]
      BY <1>1, <1>5, <2>1, <2>2, Leaves, Places
    <2> QED
      BY <1>4, <2>2
  <1>9. StoredInv'
    <2>1. /\ disk_root' = FirstLeaf /\ IsLeaf(FirstLeaf)'
          /\ \A l \in System : /\ cell'[l].kind = "object" /\ cell'[l].logical = l
                               /\ cell'[FirstLeaf].entry[l] = l
          /\ cell'[NextLogical].value > NextLogical /\ cell'[NextPhysical].value > FirstLeaf
      BY <1>1, <1>3 DEF StoredInv, IsLeaf, IsPage
    <2>2. cell[job.physical].kind = "object" /\ cell[job.physical].logical = job.logical
      BY <1>4, <1>5, Stores, Places
    <2>3. ASSUME NEW l \in Committed'
          PROVE  /\ l > NextLogical /\ l < cell'[NextLogical].value
                 /\ committed'[l] > FirstLeaf /\ committed'[l] < cell'[NextPhysical].value
                 /\ cell'[committed'[l]].kind = "object" /\ cell'[committed'[l]].logical = l
                 /\ l < ChunkSize => cell'[FirstLeaf].entry[l] = committed'[l]
      <3>1. CASE l = job.logical
        BY <1>1, <1>4, <1>5, <1>6, <1>8, <2>2, <3>1, SMT
      <3>2. CASE l \in Committed
        <4>1. /\ l > NextLogical /\ l < cell[NextLogical].value
              /\ committed[l] > FirstLeaf /\ committed[l] < cell[NextPhysical].value
              /\ cell[committed[l]].kind = "object" /\ cell[committed[l]].logical = l
              /\ l < ChunkSize => cell[FirstLeaf].entry[l] = committed[l]
          BY <1>3, <3>2 DEF StoredInv
        <4> QED
          BY <1>1, <1>6, <3>2, <4>1
      <3> QED
        BY <1>6, <2>3, <3>1, <3>2
    <2> QED
      BY <2>1, <2>3 DEF StoredInv
  <1>10. MapInv'
    <2>1. ASSUME NEW p \in Physical, Given(p) PROVE Given(p)'
      BY <1>1, <1>4, <2>1, Job, SMT DEF Given, Top
    <2> QED
      BY <1>1, <2>1, MapStays DEF IsPage
  <1>11. MineInv'
    <2>1. mine \subseteq Committed /\ \A l \in mine : Lookup(root, l) = committed[l]
      BY <1>1 DEF DInv, MineInv
    <2>2. \A l \in mine' : Lookup(root, l) = committed'[l]
      BY <1>1, <1>4, <1>6, <2>1
    <2>3. \A l \in mine' : Lookup(root, l)' = committed'[l]
      BY <1>1, <2>2 DEF Lookup, Entry, IsPage
    <2> QED
      BY <1>1, <1>6, <2>1, <2>3 DEF MineInv
  <1>12. ObjectsInv'
    BY <1>1, <1>3, Kept DEF DInv, ObjectsInv
  <1> QED
    BY <1>1, <1>3, <1>7, <1>9, <1>10, <1>11, <1>12, SMT DEF DInv, BootInv, JobInv

\* A write goes to a counter, to the cell the allocator gave, or to the object that was changed,
\* which is still the same object.
LEMMA WriteStep == ASSUME DInv, Write PROVE DInv'
  <1>1. /\ pc = "write" /\ pc' = "write" /\ step' = step + 1 /\ Live /\ Live'
        /\ UNCHANGED <<sized, magic, disk_root, root, job, committed, mine>>
    BY DEF Write, history, Live
  <1>2. /\ TypeOK /\ magic /\ StoredInv /\ ObjectsInv /\ JobInv /\ IsLeaf(FirstLeaf)
        /\ ParentInv
    BY <1>1, Opened, Job
  <1> DEFINE first == job.parent = Unassigned
             last == IF first THEN step = 2 ELSE step = 3
  <1>3. /\ step \in 0 .. 3 /\ (first => step # 3) /\ Len(WriteSet) = IF first THEN 3 ELSE 4
        /\ WriteSet[1] = NextPhysical /\ WriteSet[2] = NextLogical
        /\ WriteSet[3] = IF first THEN job.physical ELSE job.parent
        /\ ~first => WriteSet[4] = job.physical
    <2>1. step \in 0 .. 9 /\ step < Len(WriteSet)
      BY <1>2, Steps DEF TypeOK, Write
    <2>2. step \in 0 .. 3 /\ (first => step # 3)
      BY <2>1, Writes, SMT
    <2> QED
      BY <2>2, Writes
  <1>4. /\ job.logical \in Logical /\ job.logical \in Nat /\ job.logical > NextLogical
        /\ job.physical \in Physical /\ job.physical \in Nat /\ job.physical > FirstLeaf
        /\ job.next \in Nat /\ job.next > job.physical
        /\ \A l \in Committed : l < job.logical /\ committed[l] < job.physical
        /\ \A p : Given(p) <=> p < job.next /\ p # job.physical
    BY <1>1, Job
  <1>5. /\ NextPhysical \in Logical /\ NextLogical \in Logical
        /\ NextPhysical \in Physical /\ NextLogical \in Physical
        /\ NextPhysical \in System /\ NextLogical \in System /\ NextPhysical # NextLogical
    BY ConstantsAssumption, SMT DEF Logical, Physical, System, NextPhysical, NextLogical
  <1>a. job.parent # NextPhysical /\ job.parent # NextLogical
    BY <1>2, <1>5, Places DEF ParentInv
  <1>6. /\ Object(NextPhysical, job.next) \in Cells
        /\ Object(NextLogical, job.logical + 1) \in Cells
        /\ Object(job.logical, Unassigned) \in Cells
    BY <1>4, <1>5, Stores, Places, SMT
  <1>7. Committed' = Committed
    BY <1>1 DEF Committed
  \* What each of the writes stores, and where.
  <1>8. PICK q \in Physical, x \in Cells :
          /\ cell' = [cell EXCEPT ![q] = x]
          /\ \/ step = 0 /\ q = NextPhysical /\ x = Object(NextPhysical, job.next)
             \/ step = 1 /\ q = NextLogical /\ x = Object(NextLogical, job.logical + 1)
             \/ /\ step = 2 /\ ~last /\ q = job.parent /\ q \notin System /\ q < job.physical
                /\ cell[q].kind = "object" /\ x = Object(cell[q].logical, job.logical)
             \/ last /\ q = job.physical /\ x = Object(job.logical, Unassigned)
    <2>1. CASE step = 0
      <3>1. step + 1 = 1
        BY <2>1, SMT
      <3>2. cell' = [cell EXCEPT ![NextPhysical] = Object(NextPhysical, job.next)]
        <4>1. WriteSet[step + 1] = NextPhysical
          BY <1>3, <3>1
        <4> QED
          BY <1>5, <1>a, <4>1 DEF Write
      <3> QED
        BY <1>5, <1>6, <2>1, <3>2
    <2>2. CASE step = 1
      <3>1. step + 1 = 2
        BY <2>2, SMT
      <3>2. cell' = [cell EXCEPT ![NextLogical] = Object(NextLogical, job.logical + 1)]
        BY <1>3, <1>5, <1>a, <3>1 DEF Write
      <3> QED
        BY <1>5, <1>6, <2>2, <3>2
    <2>3. CASE step = 2 /\ ~first
      <3>1. WriteSet[step + 1] = job.parent
        <4>1. step + 1 = 3
          BY <2>3, SMT
        <4> QED
          BY <1>3, <2>3, <4>1
      <3>2. /\ job.parent \in Physical \ System /\ job.parent < job.physical
            /\ cell[job.parent].kind = "object"
        BY <1>2, <2>3 DEF ParentInv
      <3>4. cell' = [cell EXCEPT ![job.parent] = Object(cell[job.parent].logical, job.logical)]
        BY <1>a, <3>1 DEF Write
      <3>5. Object(cell[job.parent].logical, job.logical) \in Cells
        <4>1. cell[job.parent].logical \in Logical
          BY <1>2, <3>2, Kinds, SMT
        <4> QED
          BY <1>4, <4>1, Stores
      <3>6. step = 2 /\ ~last
        BY <2>3, SMT
      <3> QED
        BY <3>2, <3>4, <3>5, <3>6
    <2>4. CASE last
      <3>1. WriteSet[step + 1] = job.physical
        <4>1. CASE first
          <5>1. step + 1 = 3
            BY <2>4, <4>1, SMT
          <5> QED
            BY <1>3, <4>1, <5>1
        <4>2. CASE ~first
          <5>1. step + 1 = 4
            BY <2>4, <4>2, SMT
          <5> QED
            BY <1>3, <4>2, <5>1
        <4> QED
          BY <4>1, <4>2
      <3>2. /\ job.physical # NextPhysical /\ job.physical # NextLogical
            /\ job.physical # job.parent
        <4>1. job.physical # Unassigned
          BY <1>4, Places
        <4>2. first \/ job.parent # job.physical
          <5>1. ASSUME ~first PROVE job.parent # job.physical
            <6>1. job.parent \in Physical /\ job.parent < job.physical
              BY <1>2, <5>1 DEF ParentInv
            <6> QED
              BY <1>4, <6>1, Places, SMT
          <5> QED
            BY <5>1
        <4> QED
          BY <1>4, <4>1, <4>2, Places, SMT
      <3>3. cell' = [cell EXCEPT ![job.physical] = Object(job.logical, Unassigned)]
        BY <3>1, <3>2 DEF Write
      <3> QED
        BY <1>4, <1>6, <2>4, <3>3
    <2> QED
      BY <1>3, <2>1, <2>2, <2>3, <2>4, SMT
  <1> HIDE DEF first, last
  <1>9. /\ cell' \in [Physical -> Cells] /\ cell'[q] = x
        /\ \A p \in Physical \ {q} : cell'[p] = cell[p]
    BY <1>2, <1>8, SMT DEF TypeOK
  <1>10. TypeOK'
    BY <1>1, <1>2, <1>3, <1>9, Steps, SMT DEF TypeOK
  \* It is no page of the map, and a committed object stays the one it is.
  <1>11. \A p \in Physical : IsPage(p) /\ Given(p) => p # q
    <2>1. IsPage(q) => cell[q].kind # "object"
      BY SMT DEF IsPage
    <2> QED
      BY <1>1, <1>4, <1>5, <1>8, <2>1, Opened
  <1>12. \A l \in Committed :
            cell'[committed[l]].kind = "object" /\ cell'[committed[l]].logical = l
    <2>1. ASSUME NEW l \in Committed
          PROVE  cell'[committed[l]].kind = "object" /\ cell'[committed[l]].logical = l
      <3>1. /\ committed[l] \in Physical /\ committed[l] \in Nat /\ committed[l] > FirstLeaf
            /\ committed[l] < job.physical
            /\ cell[committed[l]].kind = "object" /\ cell[committed[l]].logical = l
            /\ l \in Logical
        BY <1>1, <1>2, <1>4, Opened, Places DEF StoredInv, Committed
      <3>2. CASE committed[l] # q
        BY <1>9, <3>1, <3>2
      <3>3. CASE committed[l] = q
        <4>1. x = Object(l, job.logical)
          BY <1>4, <1>8, <3>1, <3>3, Places, SMT
        <4> QED
          BY <1>4, <1>9, <3>1, <3>3, <4>1, Stores
      <3> QED
        BY <3>2, <3>3
    <2> QED
      BY <2>1
  <1>13. IsLeaf(FirstLeaf) /\ cell'[FirstLeaf] = cell[FirstLeaf] /\ FirstLeaf \in Physical
    <2>1. FirstLeaf # q
      <3>1. cell[FirstLeaf].kind # "object"
        BY <1>2, SMT DEF IsLeaf, IsPage
      <3> QED
        BY <1>4, <1>5, <1>8, <3>1, Places, SMT
    <2> QED
      BY <1>2, <1>9, <2>1, Places
  <1>14. /\ cell'[NextPhysical].value = job.next
         /\ cell'[NextLogical].value = IF step >= 1 THEN job.logical + 1 ELSE job.logical
         /\ last => cell'[job.physical] = Object(job.logical, Unassigned)
    <2>1. /\ cell[NextPhysical].value = IF step >= 1 THEN job.next ELSE job.physical
          /\ cell[NextLogical].value = IF step >= 2 THEN job.logical + 1 ELSE job.logical
      BY <1>1, <1>2 DEF JobInv
    <2>2. last => step # 0 /\ step # 1
      BY SMT DEF last
    <2>3. CASE step = 0
      <3>1. q = NextPhysical /\ x = Object(NextPhysical, job.next)
        BY <1>8, <2>2, <2>3, SMT
      <3>2. x.value = job.next
        BY <1>4, <1>5, <3>1, Stores
      <3> QED
        BY <1>5, <1>9, <2>1, <2>2, <2>3, <3>1, <3>2, SMT
    <2>4. CASE step = 1
      <3>1. q = NextLogical /\ x = Object(NextLogical, job.logical + 1)
        BY <1>8, <2>2, <2>4, SMT
      <3>2. x.value = job.logical + 1
        BY <1>4, <1>5, <3>1, Stores, SMT
      <3> QED
        BY <1>5, <1>9, <2>1, <2>2, <2>4, <3>1, <3>2, SMT
    <2>5. CASE step \in {2, 3}
      <3>1. /\ q # NextPhysical /\ q # NextLogical
            /\ last => q = job.physical /\ x = Object(job.logical, Unassigned)
        BY <1>4, <1>5, <1>8, <2>5, Places, SMT
      <3>2. /\ cell'[NextPhysical] = cell[NextPhysical] /\ cell'[NextLogical] = cell[NextLogical]
            /\ last => cell'[job.physical] = Object(job.logical, Unassigned)
        BY <1>5, <1>9, <3>1
      <3> QED
        BY <2>1, <2>5, <3>2, SMT
    <2> QED
      BY <1>3, <2>3, <2>4, <2>5, SMT
  <1>15. StoredInv'
    <2>1. \A l \in System : cell'[l].kind = "object" /\ cell'[l].logical = l
      <3>1. \A l \in System : l \in Physical /\ cell[l].kind = "object" /\ cell[l].logical = l
        BY <1>2, Places DEF StoredInv
      <3>2. q \in System => x.kind = "object" /\ x.logical = q
        <4>1. q \in System => \/ x = Object(NextPhysical, job.next) /\ q = NextPhysical
                              \/ x = Object(NextLogical, job.logical + 1) /\ q = NextLogical
          BY <1>4, <1>8, Places, SMT
        <4> QED
          BY <1>4, <1>5, <4>1, Stores, SMT
      <3> QED
        BY <1>9, <3>1, <3>2
    <2>2. ASSUME NEW l \in Committed
          PROVE  /\ l > NextLogical /\ l < cell'[NextLogical].value
                 /\ committed[l] > FirstLeaf /\ committed[l] < cell'[NextPhysical].value
                 /\ cell'[committed[l]].kind = "object" /\ cell'[committed[l]].logical = l
                 /\ l < ChunkSize => cell[FirstLeaf].entry[l] = committed[l]
      <3>1. /\ l > NextLogical /\ committed[l] > FirstLeaf
            /\ l < ChunkSize => cell[FirstLeaf].entry[l] = committed[l]
        BY <1>2 DEF StoredInv
      <3>2. cell'[committed[l]].kind = "object" /\ cell'[committed[l]].logical = l
        BY <1>12
      <3>3. l \in Nat /\ committed[l] \in Nat
        BY <1>1, Opened, Places DEF Committed
      <3>4. l < cell'[NextLogical].value /\ committed[l] < cell'[NextPhysical].value
        BY <1>4, <1>14, <3>3, SMT
      <3> QED
        BY <3>1, <3>2, <3>4
    <2>3. /\ disk_root' = FirstLeaf /\ IsLeaf(FirstLeaf)'
          /\ \A l \in System : cell'[FirstLeaf].entry[l] = l
      BY <1>1, <1>2, <1>13 DEF StoredInv, IsLeaf, IsPage
    <2>4. cell'[NextLogical].value > NextLogical /\ cell'[NextPhysical].value > FirstLeaf
      BY <1>4, <1>14, Places, SMT
    <2>5. \A l \in Committed' :
             /\ l > NextLogical /\ l < cell'[NextLogical].value
             /\ committed'[l] > FirstLeaf /\ committed'[l] < cell'[NextPhysical].value
             /\ cell'[committed'[l]].kind = "object" /\ cell'[committed'[l]].logical = l
             /\ l < ChunkSize => cell'[FirstLeaf].entry[l] = committed'[l]
      BY <1>1, <1>7, <1>13, <2>2
    <2> QED
      BY <2>1, <2>3, <2>4, <2>5, Zenon DEF StoredInv
  <1>16. \A p \in Physical : IsPage(p) /\ Given(p) => Given(p)' /\ IsPage(p)' /\ cell'[p] = cell[p]
    BY <1>1, <1>9, <1>11, SMT DEF IsPage, Given, Top
  <1>17. /\ MapInv'
         /\ \A l \in Logical : LeafOf(l) # Unassigned =>
               Lookup(root, l)' = cell'[LeafOf(l)].entry[l % ChunkSize]
    BY <1>1, <1>16, MapStays
  <1>18. \A l \in Logical : Lookup(root, l) # Unassigned => Lookup(root, l)' = Lookup(root, l)
    <2>1. ASSUME NEW l \in Logical, Lookup(root, l) # Unassigned
          PROVE  Lookup(root, l)' = Lookup(root, l)
      <3>1. /\ LeafOf(l) # Unassigned
            /\ Lookup(root, l) = cell[LeafOf(l)].entry[l % ChunkSize]
        BY <1>1, <2>1, Leaves
      <3>2. cell'[LeafOf(l)] = cell[LeafOf(l)]
        BY <1>1, <1>16, <3>1, Leaves DEF IsLeaf
      <3> QED
        BY <1>17, <3>1, <3>2
    <2> QED
      BY <2>1
  <1>19. JobInv'
    <2>1. Lookup(root, job.logical) = job.physical /\ job.physical # Unassigned
      BY <1>1, <1>2, <1>4, Places, SMT DEF JobInv
    <2>2. Lookup(root, job.logical)' = job.physical
      BY <1>1, <1>4, <1>18, <2>1
    <2>3. /\ WriteSet' = WriteSet /\ step' >= 1 /\ (step' >= 2 <=> step >= 1)
          /\ step' <= Len(WriteSet) /\ (step' >= Len(WriteSet) <=> last)
      <3>1. WriteSet' = WriteSet
        BY <1>1 DEF WriteSet
      <3> QED
        BY <1>1, <1>3, <3>1, SMT DEF last
    <2>5. ParentInv'
      <3>1. ASSUME job.parent # Unassigned PROVE cell'[job.parent].kind = "object"
        <4>1. /\ job.parent \in Physical \ System /\ job.parent < job.physical
              /\ cell[job.parent].kind = "object" /\ cell[job.parent].logical \in Logical
          BY <1>2, <3>1, Kinds, SMT DEF ParentInv
        <4>2. q = job.parent => x = Object(cell[q].logical, job.logical)
          BY <1>4, <1>5, <1>8, <4>1, Places, SMT
        <4> QED
          BY <1>4, <1>9, <4>1, <4>2, Stores
      <3> QED
        BY <1>1, <1>2, <3>1 DEF ParentInv
    <2>4. /\ job.physical + 2 \in Physical /\ job.next <= job.physical + 3
      BY <1>1, Job
    <2> QED
      BY <1>1, <1>4, <1>7, <1>14, <2>2, <2>3, <2>4, <2>5 DEF JobInv
  <1>20. MineInv'
    <2>1. /\ mine \subseteq Committed
          /\ \A l \in mine : Lookup(root, l) = committed[l] /\ l \in Logical
                              /\ committed[l] # Unassigned
      BY <1>1 DEF DInv, MineInv, Committed
    <2> QED
      BY <1>1, <1>7, <1>18, <2>1 DEF MineInv
  <1>21. ObjectsInv'
    <2> SUFFICES ASSUME NEW p \in Physical \ System, cell'[p].kind = "object"
                 PROVE  p < cell'[NextPhysical].value /\ cell'[p].value < cell'[NextLogical].value
      BY <1>1, <1>2 DEF ObjectsInv
    <2>1. CASE p = q /\ last
      <3>1. p = job.physical /\ cell'[p].value = Unassigned
        BY <1>4, <1>5, <1>8, <1>9, <1>14, <2>1, Stores, Places
      <3> QED
        BY <1>4, <1>14, <3>1, Places, SMT
    <2>2. CASE p = q /\ ~last
      <3>1. /\ p < job.physical /\ step = 2 /\ cell[p].kind = "object"
            /\ x = Object(cell[p].logical, job.logical)
        BY <1>5, <1>8, <2>2
      <3>2. cell'[p].value = job.logical
        <4>1. cell[p].logical \in Logical
          BY <1>2, <3>1, Kinds, SMT
        <4> QED
          BY <1>4, <1>9, <2>2, <3>1, <4>1, Stores
      <3>3. cell'[NextLogical].value = job.logical + 1
        BY <1>14, <3>1, SMT
      <3>4. p \in Nat
        BY Places
      <3> QED
        BY <1>4, <1>14, <3>1, <3>2, <3>3, <3>4, SMT
    <2>3. CASE p # q
      <3>1. cell'[p] = cell[p]
        BY <1>9, <2>3
      <3>2. p < cell[NextPhysical].value /\ cell[p].value < cell[NextLogical].value
        BY <1>2, <3>1 DEF ObjectsInv
      <3>3. p \in Nat /\ cell[p].value \in Nat
        BY <1>2, <3>1, Kinds, Places, SMT
      <3>4. /\ cell[NextPhysical].value = IF step >= 1 THEN job.next ELSE job.physical
            /\ cell[NextLogical].value = IF step >= 2 THEN job.logical + 1 ELSE job.logical
        BY <1>1, <1>2 DEF JobInv
      <3> QED
        BY <1>3, <1>4, <1>14, <3>1, <3>2, <3>3, <3>4, SMT
    <2> QED
      BY <2>1, <2>2, <2>3
  <1> QED
    BY <1>1, <1>2, <1>10, <1>15, <1>17, <1>19, <1>20, <1>21, SMT DEF DInv, BootInv

\* The entry set is no other address's: what the map has for the others stays.
LEMMA AssignEntryStep == ASSUME DInv, AssignEntry PROVE DInv'
  <1> DEFINE l == job.logical
             digit == l % ChunkSize
  <1>1. /\ pc = "assign" /\ pc' = "write" /\ Live /\ Live' /\ step = 0 /\ step' = step
        /\ UNCHANGED <<sized, magic, disk_root, root, job, committed, mine>>
    BY DEF AssignEntry, memory, history, Live, DInv, JobInv
  <1>2. TypeOK /\ magic /\ StoredInv /\ JobInv /\ IsLeaf(FirstLeaf)
    BY <1>1, Opened
  <1>3. /\ l \in Logical /\ l \in Nat /\ l > NextLogical
        /\ job.physical \in Physical /\ job.physical \in Nat /\ job.physical > FirstLeaf
        /\ job.next \in Nat /\ job.next > job.physical
        /\ \A k \in Committed : k < l /\ committed[k] < job.physical
    BY <1>1, Job
  <1>4. digit \in Digits /\ (l < ChunkSize => digit = l)
    BY <1>3, TwoDigits
  <1>5. PICK leaf \in Physical :
          /\ leaf = LeafOf(l) /\ leaf # Unassigned
          /\ IsLeaf(leaf) /\ Given(leaf)
          /\ cell' = [cell EXCEPT ![leaf] = [@ EXCEPT !.entry[digit] = job.physical]]
    <2> DEFINE leaf == IF cell[root].height = 0 THEN root ELSE Entry(root, l \div ChunkSize)
    <2>1. /\ cell[root].height = 0 => l < ChunkSize
          /\ IsPage(leaf) /\ IsPage(root)
          /\ cell' = [cell EXCEPT ![leaf] = [@ EXCEPT !.entry[digit] = job.physical]]
      BY Zenon DEF AssignEntry
    <2>2. leaf = LeafOf(l)
      BY <1>1, <2>1, Opened DEF LeafOf, Entry
    <2>3. leaf \in Physical /\ leaf # Unassigned
      BY <2>1, Places DEF IsPage
    <2>4. IsLeaf(leaf) /\ Given(leaf)
      BY <1>1, <1>3, <2>2, <2>3, Leaves
    <2> QED
      BY <2>1, <2>2, <2>3, <2>4, Zenon
  <1> HIDE DEF l, digit
  <1>6. /\ cell' \in [Physical -> Cells]
        /\ cell'[leaf].kind = "page" /\ cell'[leaf].height = cell[leaf].height
        /\ \A e \in Digits : cell'[leaf].entry[e] =
              IF e = digit THEN job.physical ELSE cell[leaf].entry[e]
        /\ \A p \in Physical \ {leaf} : cell'[p] = cell[p]
    <2>1. cell[leaf].kind = "page"
      BY <1>5 DEF IsLeaf, IsPage
    <2>2. TypeOK /\ digit \in Digits /\ job.physical \in Nat
      BY <1>2, <1>3, <1>4
    <2>3. cell' = [cell EXCEPT ![leaf] = [@ EXCEPT !.entry[digit] = job.physical]]
      BY <1>5
    <2> QED
      BY <2>1, <2>2, <2>3, SetEntry, ZenonT(60)
  <1>7. TypeOK'
    BY <1>1, <1>2, <1>6, SMT DEF TypeOK
  <1>8. Committed' = Committed
    BY <1>1 DEF Committed
  <1>9. /\ MapInv'
         /\ \A k \in Logical : LeafOf(k) # Unassigned =>
               Lookup(root, k)' = cell'[LeafOf(k)].entry[k % ChunkSize]
    <2>1. ASSUME NEW p \in Physical, IsPage(p), Given(p)
          PROVE  /\ Given(p)' /\ IsPage(p)' /\ cell'[p].height = cell[p].height
                 /\ cell[p].height = 1 => cell'[p].entry = cell[p].entry
      <3>1. Given(p)'
        BY <1>1, <2>1 DEF Given, Top
      <3>2. /\ IsPage(p)' /\ cell'[p].height = cell[p].height
            /\ cell[p].height = 1 => cell'[p] = cell[p]
        BY <1>5, <1>6, <2>1, SMT DEF IsPage, IsLeaf
      <3> QED
        BY <3>1, <3>2
    <2> QED
      BY <1>1, <2>1, MapStays
  <1>10. \A k \in Logical \ {l} :
            Lookup(root, k) # Unassigned => Lookup(root, k)' = Lookup(root, k)
    <2>1. ASSUME NEW k \in Logical, k # l, Lookup(root, k) # Unassigned
          PROVE  Lookup(root, k)' = Lookup(root, k)
      <3>1. /\ LeafOf(k) # Unassigned /\ LeafOf(k) \in Physical
            /\ Lookup(root, k) = cell[LeafOf(k)].entry[k % ChunkSize]
        BY <1>1, <2>1, Leaves
      <3>2. k % ChunkSize \in Digits
        BY TwoDigits
      <3>3. LeafOf(k) = leaf => k % ChunkSize # digit
        BY <1>1, <1>3, <1>5, <2>1, EntriesApart DEF digit
      <3>4. cell'[LeafOf(k)].entry[k % ChunkSize] = cell[LeafOf(k)].entry[k % ChunkSize]
        BY <1>6, <3>1, <3>2, <3>3
      <3> QED
        BY <1>9, <3>1, <3>4
    <2> QED
      BY <2>1
  <1>11. JobInv'
    <2>1. \A k \in Logical : k = l => Lookup(root, k)' = job.physical
      BY <1>4, <1>5, <1>6, <1>9 DEF digit
    <2>2. cell'[NextPhysical] = cell[NextPhysical] /\ cell'[NextLogical] = cell[NextLogical]
      <3>1. /\ NextPhysical \in Physical /\ NextLogical \in Physical
            /\ NextPhysical \in System /\ NextLogical \in System
        BY Places, SMT DEF System
      <3>2. leaf \notin System
        BY <1>1, <1>5, Opened DEF IsLeaf
      <3> QED
        BY <1>6, <3>1, <3>2
    <2>3. cell[NextPhysical].value = job.physical /\ cell[NextLogical].value = l
      BY <1>1, <1>2 DEF JobInv, l
    <2>4. job.physical + 2 \in Physical /\ job.next <= job.physical + 3
      BY <1>1, Job
    <2>5. /\ ~(step' >= 1) /\ ~(step' >= 2)
          /\ ~(step' >= Len(WriteSet)') /\ step' <= Len(WriteSet)'
      <3>1. WriteSet' = WriteSet /\ (Len(WriteSet) = 3 \/ Len(WriteSet) = 4)
        BY <1>1, Writes DEF WriteSet
      <3> QED
        BY <1>1, <3>1, SMT
    <2>7. ParentInv'
      <3>1. ParentInv
        BY <1>1, Job
      <3>2. job.parent = leaf => cell'[job.parent] = cell[job.parent] \/ job.parent = Unassigned
        BY <1>5, <3>1, SMT DEF ParentInv, IsLeaf, IsPage
      <3> QED
        BY <1>1, <1>6, <3>1, <3>2 DEF ParentInv
    <2>6. Lookup(root, job.logical)' = job.physical
      BY <1>1, <1>3, <2>1 DEF l, Lookup
    <2> QED
      BY <1>1, <1>3, <1>8, <2>2, <2>3, <2>4, <2>5, <2>6, <2>7 DEF JobInv, l
  <1>12. StoredInv'
    <2>1. \A p \in Physical : p \in System \/ (\E k \in Committed : p = committed[k]) =>
             cell'[p] = cell[p]
      BY <1>1, <1>5, <1>6, Opened DEF IsLeaf
    <2>2. /\ IsLeaf(FirstLeaf)'
          /\ \A e \in Digits : e # l => cell'[FirstLeaf].entry[e] = cell[FirstLeaf].entry[e]
      <3>1. FirstLeaf = leaf => l < ChunkSize
        BY <1>1, <1>3, <1>5, Leaves
      <3>2. \A e \in Digits : e # l => cell'[FirstLeaf].entry[e] = cell[FirstLeaf].entry[e]
        BY <1>4, <1>6, <3>1, Places
      <3>3. IsLeaf(FirstLeaf)'
        BY <1>2, <1>6, Places, SMT DEF IsLeaf, IsPage
      <3> QED
        BY <3>2, <3>3
    <2>3. \A e \in System : /\ cell'[e].kind = "object" /\ cell'[e].logical = e
                            /\ cell'[FirstLeaf].entry[e] = e
      <3>1. \A e \in System : e # l /\ e \in Digits /\ e \in Physical
        BY <1>3, Places, SMT
      <3> QED
        BY <1>2, <2>1, <2>2, <3>1 DEF StoredInv
    <2>4. cell'[NextLogical].value > NextLogical /\ cell'[NextPhysical].value > FirstLeaf
      <3>1. NextLogical \in System /\ NextPhysical \in System
        BY DEF System
      <3> QED
        BY <1>2, <2>1, <3>1, Places DEF StoredInv
    <2>5. ASSUME NEW k \in Committed
          PROVE  /\ k > NextLogical /\ k < cell'[NextLogical].value
                 /\ committed[k] > FirstLeaf /\ committed[k] < cell'[NextPhysical].value
                 /\ cell'[committed[k]].kind = "object" /\ cell'[committed[k]].logical = k
                 /\ k < ChunkSize => cell'[FirstLeaf].entry[k] = committed[k]
      <3>1. /\ k > NextLogical /\ k < cell[NextLogical].value
            /\ committed[k] > FirstLeaf /\ committed[k] < cell[NextPhysical].value
            /\ cell[committed[k]].kind = "object" /\ cell[committed[k]].logical = k
            /\ k < ChunkSize => cell[FirstLeaf].entry[k] = committed[k]
        BY <1>2 DEF StoredInv
      <3>2. cell'[committed[k]] = cell[committed[k]]
        BY <1>1, <2>1, Opened
      <3>3. cell'[NextLogical] = cell[NextLogical] /\ cell'[NextPhysical] = cell[NextPhysical]
        BY <2>1, Places DEF System
      <3>4. k # l /\ k \in Logical
        BY <1>3, Places, SMT DEF Committed
      <3>5. k < ChunkSize => k \in Digits
        BY <3>4, TwoDigits
      <3> QED
        BY <2>2, <3>1, <3>2, <3>3, <3>4, <3>5
    <2>6. \A k \in Committed' :
             /\ k > NextLogical /\ k < cell'[NextLogical].value
             /\ committed'[k] > FirstLeaf /\ committed'[k] < cell'[NextPhysical].value
             /\ cell'[committed'[k]].kind = "object" /\ cell'[committed'[k]].logical = k
             /\ k < ChunkSize => cell'[FirstLeaf].entry[k] = committed'[k]
      BY <1>1, <1>8, <2>5
    <2>7. disk_root' = FirstLeaf
      BY <1>1, Opened
    <2> QED
      BY <2>2, <2>3, <2>4, <2>6, <2>7, Zenon DEF StoredInv
  <1>13. MineInv'
    <2>1. /\ mine \subseteq Committed
          /\ \A k \in mine : /\ Lookup(root, k) = committed[k] /\ k \in Logical
                             /\ committed[k] # Unassigned
      BY <1>1 DEF DInv, MineInv, Committed
    <2>2. l \notin mine
      BY <1>3, <2>1, SMT
    <2> QED
      BY <1>1, <1>8, <1>10, <2>1, <2>2 DEF MineInv
  <1>14. ObjectsInv'
    <2>1. ObjectsInv
      BY <1>1, Opened
    <2>2. leaf \notin System
      BY <1>1, <1>5, Opened DEF IsLeaf
    <2>3. cell'[leaf].kind # "object"
      BY <1>6, SMT
    <2>4. cell'[NextPhysical] = cell[NextPhysical] /\ cell'[NextLogical] = cell[NextLogical]
      BY <1>6, <2>2, Places DEF System
    <2> QED
      BY <1>1, <1>6, <2>1, <2>3, <2>4, ObjectsKept
  <1> QED
    BY <1>1, <1>2, <1>7, <1>9, <1>11, <1>12, <1>13, <1>14, SMT DEF DInv, BootInv

\* A page that a commit adds goes to a cell that nothing has: what was stored stays.
LEMMA AddPage ==
  ASSUME DInv, pc = "assign", pc' = "assign", step' = step,
         UNCHANGED <<sized, magic, disk_root, committed, mine>>,
         job.next \in Physical, job' = [job EXCEPT !.next = @ + 1],
         cell' \in [Physical -> Cells], cell'[job.next].kind = "page", cell'[root].kind = "page",
         \A p \in Physical \ {job.next, root} : cell'[p] = cell[p],
         root = FirstLeaf => cell'[root] = cell[root],
         cell[root].height = 0 \/ (cell[root].height = 1 /\ cell[root].height = cell'[root].height)
  PROVE  /\ StoredInv' /\ ObjectsInv' /\ ParentInv' /\ Committed' = Committed
         /\ cell'[NextPhysical].value = job'.physical /\ cell'[NextLogical].value = job'.logical
         /\ job'.logical = job.logical /\ job'.physical = job.physical /\ job'.next = job.next + 1
         /\ job' \in Jobs
  <1>1. /\ TypeOK /\ magic /\ StoredInv /\ JobInv
        /\ IsLeaf(FirstLeaf) /\ IsPage(root) /\ disk_root = FirstLeaf
    BY Opened DEF Live
  <1>2. /\ job.next \in Nat /\ job.next > job.physical /\ job.physical \in Nat
        /\ job.physical > FirstLeaf
        /\ \A k \in Committed : committed[k] < job.physical
    BY Job
  <1>3. Committed' = Committed
    BY DEF Committed
  <1>4. \A p \in System : p \in Physical /\ p # job.next /\ p # root
    BY <1>1, <1>2, Opened, Places, SMT DEF Live
  <1>5. \A k \in Committed : /\ committed[k] \in Physical
                              /\ committed[k] # job.next /\ committed[k] # root
    <2>1. \A k \in Committed : committed[k] \in Physical /\ committed[k] # root
      BY <1>1, Opened DEF Live, IsPage
    <2>2. \A k \in Committed : committed[k] # job.next
      BY <1>2, <2>1, Places, SMT
    <2> QED
      BY <2>1, <2>2
  <1>6. cell'[FirstLeaf] = cell[FirstLeaf]
    BY <1>2, Places, SMT
  <1>7. \A p \in System : cell'[p] = cell[p]
    BY <1>4
  <1>8. \A k \in Committed : cell'[committed[k]] = cell[committed[k]]
    BY <1>5
  <1>9. NextPhysical \in System /\ NextLogical \in System
    BY DEF System
  <1>10. StoredInv'
    <2>1. IsLeaf(FirstLeaf)'
      BY <1>1, <1>6 DEF IsLeaf, IsPage
    <2>2. \A l \in System : /\ cell'[l].kind = "object" /\ cell'[l].logical = l
                            /\ cell'[FirstLeaf].entry[l] = l
      BY <1>1, <1>6, <1>7 DEF StoredInv
    <2>3. cell'[NextLogical].value > NextLogical /\ cell'[NextPhysical].value > FirstLeaf
      BY <1>1, <1>7, <1>9 DEF StoredInv
    <2>4. \A l \in Committed' :
             /\ l > NextLogical /\ l < cell'[NextLogical].value
             /\ committed'[l] > FirstLeaf /\ committed'[l] < cell'[NextPhysical].value
             /\ cell'[committed'[l]].kind = "object" /\ cell'[committed'[l]].logical = l
             /\ l < ChunkSize => cell'[FirstLeaf].entry[l] = committed'[l]
      BY <1>1, <1>3, <1>6, <1>7, <1>8, <1>9 DEF StoredInv
    <2> QED
      BY <1>1, <2>1, <2>2, <2>3, <2>4, Zenon DEF StoredInv
  <1>11. /\ job'.logical = job.logical /\ job'.physical = job.physical /\ job'.next = job.next + 1
         /\ job'.parent = job.parent /\ job' \in Jobs
    BY <1>1, <1>2, SMT DEF TypeOK, Jobs
  <1>12. cell[NextPhysical].value = job.physical /\ cell[NextLogical].value = job.logical
    BY <1>1 DEF JobInv
  <1>13. ObjectsInv'
    <2>1. cell'[job.next].kind # "object" /\ cell'[root].kind # "object"
      BY SMT
    <2> QED
      BY <1>1, <1>7, <1>9, <2>1, Opened, ObjectsKept DEF Live
  <1>14. ParentInv'
    <2>1. ASSUME job.parent # Unassigned
          PROVE  /\ job.parent \in Physical \ System /\ job.parent < job.physical
                 /\ cell'[job.parent].kind = "object"
      <3>1. /\ job.parent \in Physical \ System /\ job.parent < job.physical
            /\ cell[job.parent].kind = "object"
        BY <2>1, Job DEF ParentInv
      <3>2. job.parent # job.next
        BY <1>2, <3>1, Places, SMT
      <3>3. job.parent # root
        BY <1>1, <3>1, SMT DEF IsPage
      <3> QED
        BY <3>1, <3>2, <3>3
    <2> QED
      BY <1>11, <2>1 DEF ParentInv
  <1> QED
    BY <1>3, <1>7, <1>9, <1>10, <1>11, <1>12, <1>13, <1>14

\* The new leaf is below an entry that had none, so no committed object was found there.
LEMMA CreateLeafStep == ASSUME DInv, CreateLeaf PROVE DInv'
  <1> DEFINE digit == job.logical \div ChunkSize
             next == job.next
  <1>1. /\ pc = "assign" /\ pc' = "assign" /\ Live /\ Live' /\ step = 0 /\ step' = step
        /\ UNCHANGED <<sized, magic, disk_root, root, committed, mine>>
        /\ cell[root].height = 1 /\ Entry(root, digit) = Unassigned /\ IsPage(root)
        /\ cell' = [cell EXCEPT
              ![next] = Page(0, NoEntries), ![root] = [@ EXCEPT !.entry[digit] = next]]
        /\ job' = [job EXCEPT !.next = @ + 1]
    BY DEF CreateLeaf, history, Live, DInv, JobInv
  <1>2. /\ TypeOK /\ magic /\ JobInv /\ root \in Physical /\ root \in Nat /\ Given(root)
        /\ IsLeaf(FirstLeaf) /\ root # FirstLeaf /\ root > FirstLeaf
        /\ cell[root] \in [kind : {"page"}, height : {0, 1}, entry : [Digits -> Nat]]
    <2>1. root # FirstLeaf
      BY <1>1, Opened, SMT
    <2> QED
      BY <1>1, <2>1, Opened, Places
  <1>3. /\ job.logical \in Logical /\ job.logical \in Nat /\ job.logical > NextLogical
        /\ job.physical \in Nat /\ job.physical > FirstLeaf /\ job.physical + 2 \in Physical
        /\ next \in Nat /\ next > job.physical /\ next <= job.physical + 3
        /\ \A k \in Committed : k < job.logical /\ committed[k] < job.physical
        /\ \A p : Given(p) <=> p < next /\ p # job.physical
    BY <1>1, Job
  <1>4. digit \in Digits /\ cell[root].entry[digit] = Unassigned
    BY <1>1, <1>3, TwoDigits DEF Entry
  <1>5. next = job.physical + 1 \/ next = job.physical + 2
    BY <1>1, <1>2, Zenon DEF JobInv
  <1>6. next \in Physical /\ next # root
    <2>1. next \in Physical
      BY <1>3, <1>5, ConstantsAssumption, SMT DEF Physical
    <2> QED
      BY <1>2, <1>3, <2>1, SMT
  <1>7. /\ cell[root].entry[0] = FirstLeaf
        /\ \A d \in Digits \ {0} : cell[root].entry[d] # Unassigned =>
              /\ cell[root].entry[d] > FirstLeaf /\ IsLeaf(cell[root].entry[d])
              /\ Given(cell[root].entry[d])
              /\ \A e \in Digits \ {d} : cell[root].entry[e] # cell[root].entry[d]
    BY <1>1, <1>2 DEF DInv, MapInv
  <1>8. digit # 0
    BY <1>4, <1>7, Places
  <1> HIDE DEF digit, next
  <1>9. /\ cell' \in [Physical -> Cells] /\ cell'[next] = Page(0, NoEntries)
        /\ cell'[root].kind = "page" /\ cell'[root].height = 1
        /\ \A e \in Digits : cell'[root].entry[e] =
              IF e = digit THEN next ELSE cell[root].entry[e]
        /\ \A p \in Physical \ {next, root} : cell'[p] = cell[p]
    <2> DEFINE new == [cell[root] EXCEPT !.entry[digit] = next]
    <2>1. /\ new \in [kind : {"page"}, height : {0, 1}, entry : [Digits -> Nat]]
          /\ new.kind = "page" /\ new.height = 1
          /\ \A e \in Digits : new.entry[e] = IF e = digit THEN next ELSE cell[root].entry[e]
      BY <1>1, <1>2, <1>3, <1>4, SMT
    <2>2. new \in Cells
      BY <2>1 DEF Cells
    <2>3. Page(0, NoEntries) \in Cells
      BY Stores
    <2>4. cell \in [Physical -> Cells]
      BY <1>2 DEF TypeOK
    <2> DEFINE mid == [cell EXCEPT ![next] = Page(0, NoEntries)]
    <2>5. /\ mid \in [Physical -> Cells] /\ mid[root] = cell[root] /\ mid[next] = Page(0, NoEntries)
          /\ \A p \in Physical \ {next} : mid[p] = cell[p]
      BY <1>2, <1>6, <2>3, <2>4, SMT
    <2>6. cell' = [mid EXCEPT ![root] = new]
      BY <1>1, <2>5, Zenon
    <2> HIDE DEF new, mid
    <2>7. /\ cell' \in [Physical -> Cells] /\ cell'[root] = new
          /\ \A p \in Physical \ {root} : cell'[p] = mid[p]
      BY <1>2, <2>2, <2>5, <2>6, SMT
    <2> QED
      BY <1>6, <2>1, <2>5, <2>7, SMT
  <1>10. /\ StoredInv' /\ ObjectsInv' /\ ParentInv' /\ Committed' = Committed
         /\ cell'[NextPhysical].value = job'.physical /\ cell'[NextLogical].value = job'.logical
         /\ job'.logical = job.logical /\ job'.physical = job.physical /\ job'.next = next + 1
         /\ job' \in Jobs
    <2>1. /\ job.next \in Physical /\ \A p \in Physical \ {job.next, root} : cell'[p] = cell[p]
          /\ cell'[job.next].kind = "page"
      BY <1>6, <1>9, Stores DEF next
    <2> QED
      BY <1>1, <1>2, <1>9, <2>1, AddPage DEF next
  <1>11. TypeOK'
    BY <1>1, <1>2, <1>9, <1>10, SMT DEF TypeOK
  \* The leaves that were there are not touched, and the new one is not among them.
  <1>12. ASSUME NEW leaf \in Physical, IsLeaf(leaf), Given(leaf)
         PROVE  leaf # next /\ leaf # root /\ cell'[leaf] = cell[leaf]
    <2>1. leaf # next
      BY <1>3, <1>12, Places, SMT
    <2>2. leaf # root
      BY <1>1, <1>12, SMT DEF IsLeaf
    <2> QED
      BY <1>9, <2>1, <2>2
  <1>13. \A d \in Digits : cell[root].entry[d] # next
    <2>1. ASSUME NEW d \in Digits PROVE cell[root].entry[d] # next
      <3>1. CASE d = 0
        BY <1>3, <1>7, <3>1, Places, SMT
      <3>2. CASE d # 0 /\ cell[root].entry[d] # Unassigned
        BY <1>7, <1>12, <3>2 DEF IsLeaf, IsPage
      <3>3. CASE cell[root].entry[d] = Unassigned
        BY <1>6, <3>3, Places
      <3> QED
        BY <3>1, <3>2, <3>3
    <2> QED
      BY <2>1
  <1>14. /\ next < job'.next /\ next # job'.physical
         /\ \A p \in Physical : Given(p) => p < job'.next /\ p # job'.physical
    <2>1. next < job'.next /\ next # job'.physical
      BY <1>3, <1>10, SMT
    <2>2. ASSUME NEW p \in Physical, Given(p) PROVE p < job'.next /\ p # job'.physical
      <3>1. p \in Nat /\ p < next /\ p # job.physical
        BY <1>3, <2>2, Places
      <3> QED
        BY <1>3, <1>10, <3>1, SMT
    <2> QED
      BY <2>1, <2>2
  <1>15. MapInv'
    <2>1. /\ IsPage(root)' /\ Given(root)'
      BY <1>1, <1>2, <1>9, <1>14 DEF IsPage, Given, Top
    <2>2. cell'[next].kind = "page" /\ cell'[next].height = 0
      BY <1>9, Stores, SMT
    <2>3. ASSUME NEW d \in Digits \ {0}, NEW leaf, leaf = cell'[root].entry[d], leaf # Unassigned
          PROVE  /\ leaf > FirstLeaf /\ leaf \in Physical
                 /\ cell'[leaf].kind = "page" /\ cell'[leaf].height = 0
                 /\ leaf < job'.next /\ leaf # job'.physical
                 /\ \A e \in Digits \ {d} : cell'[root].entry[e] # leaf
      <3>1. CASE d = digit
        <4>1. leaf = next
          BY <1>9, <2>3, <3>1
        <4> QED
          BY <1>3, <1>6, <1>9, <1>13, <1>14, <2>2, <3>1, <4>1, Places, SMT
      <3>2. CASE d # digit
        <4>1. leaf = cell[root].entry[d]
          BY <1>9, <2>3, <3>2
        <4>2. /\ leaf > FirstLeaf /\ IsLeaf(leaf) /\ Given(leaf)
              /\ \A e \in Digits \ {d} : cell[root].entry[e] # leaf
          BY <1>7, <2>3, <4>1
        <4>3. leaf \in Physical /\ cell[leaf].kind = "page" /\ cell[leaf].height = 0
          BY <4>2 DEF IsLeaf, IsPage
        <4>4. leaf # next /\ cell'[leaf] = cell[leaf]
          BY <1>12, <4>2, <4>3
        <4> QED
          BY <1>9, <1>14, <4>2, <4>3, <4>4
      <3> QED
        BY <3>1, <3>2
    <2>4. cell'[root].entry[0] = FirstLeaf /\ 0 \in Digits
      BY <1>7, <1>8, <1>9, Places
    <2>5. cell'[root].height = 1 /\ root' > FirstLeaf /\ root' = root /\ pc' # "idle"
      BY <1>1, <1>2, <1>9
    <2> QED
      BY <2>1, <2>3, <2>4, <2>5, SMT DEF MapInv, IsLeaf, IsPage, Given, Top
  <1>16. JobInv'
    <2>1. cell'[root].entry[job'.logical \div ChunkSize] = next
      BY <1>4, <1>9, <1>10 DEF digit
    <2>2. Entry(root, job.logical \div ChunkSize)' # Unassigned
      BY <1>1, <1>2, <1>6, <1>9, <2>1, Places DEF Entry, IsPage
    <2>3. \/ job'.next = job'.physical + 2
          \/ job'.next = job'.physical + 3
      BY <1>3, <1>5, <1>10, SMT
    <2>4. job'.next > job'.physical /\ job'.next <= job'.physical + 3
      BY <1>3, <1>5, <1>10, SMT
    <2> QED
      BY <1>1, <1>3, <1>9, <1>10, <2>2, <2>3, <2>4 DEF JobInv
  <1>17. MineInv'
    <2>1. /\ mine \subseteq Committed
          /\ \A k \in mine : /\ Lookup(root, k) = committed[k] /\ k \in Logical
                             /\ committed[k] # Unassigned
      BY <1>1 DEF DInv, MineInv, Committed
    <2>2. ASSUME NEW k \in mine PROVE Lookup(root, k)' = committed[k]
      <3>1. k \in Logical /\ Lookup(root, k) = committed[k] /\ committed[k] # Unassigned
        BY <2>1
      <3>2. k \div ChunkSize \in Digits /\ k % ChunkSize \in Digits
        BY <3>1, TwoDigits
      <3>3. PICK leaf \in Physical :
              /\ leaf = LeafOf(k) /\ IsLeaf(leaf) /\ Given(leaf)
              /\ cell[leaf].entry[k % ChunkSize] = committed[k]
        BY <1>1, <3>1, Leaves
      <3>4. leaf = cell[root].entry[k \div ChunkSize]
        BY <1>2, <3>3 DEF LeafOf
      <3>5. cell'[leaf] = cell[leaf]
        BY <1>12, <3>3
      <3>6. cell'[root].entry[k \div ChunkSize] = leaf
        <4>1. leaf # Unassigned /\ k \div ChunkSize # digit
          BY <1>4, <3>2, <3>3, <3>4, Places
        <4> QED
          BY <1>9, <3>2, <3>4, <4>1
      <3>7. Entry(root, k \div ChunkSize)' = leaf
        BY <1>1, <1>2, <1>9, <3>6 DEF Entry, IsPage
      <3>8. cell'[leaf].kind = "page" /\ cell'[leaf].entry[k % ChunkSize] = committed[k]
        BY <3>3, <3>5 DEF IsLeaf, IsPage
      <3>9. cell'[root].height # 0
        BY <1>9, SMT
      <3> QED
        BY <1>1, <3>6, <3>8, <3>9, <1>2, <1>9, Zenon DEF Lookup, Entry, IsPage
    <2> QED
      BY <1>1, <1>10, <2>1, <2>2 DEF MineInv
  <1> QED
    BY <1>1, <1>2, <1>10, <1>11, <1>15, <1>16, <1>17, SMT DEF DInv, BootInv

\* The former root is below entry 0 of the new one, where its addresses have their first digit.
LEMMA GrowMapStep == ASSUME DInv, GrowMap PROVE DInv'
  <1> DEFINE next == job.next
             entry == [NoEntries EXCEPT ![0] = root]
  <1>1. /\ pc = "assign" /\ pc' = "assign" /\ Live /\ Live' /\ step = 0 /\ step' = step
        /\ UNCHANGED <<sized, magic, disk_root, committed, mine>>
        /\ cell[root].height = 0 /\ IsPage(root) /\ root' = next /\ job.logical >= ChunkSize
        /\ cell' = [cell EXCEPT ![next] = Page(1, entry)]
        /\ job' = [job EXCEPT !.next = @ + 1]
    BY DEF GrowMap, history, Live, DInv, JobInv
  <1>2. /\ TypeOK /\ magic /\ JobInv /\ root \in Physical /\ root \in Nat /\ Given(root)
        /\ IsLeaf(FirstLeaf) /\ root = FirstLeaf
    BY <1>1, Opened, Places
  <1>3. /\ job.logical \in Logical /\ job.logical \in Nat /\ job.logical > NextLogical
        /\ job.physical \in Nat /\ job.physical > FirstLeaf /\ job.physical + 2 \in Physical
        /\ next \in Nat /\ next > job.physical /\ next <= job.physical + 3
        /\ \A k \in Committed : k < job.logical /\ committed[k] < job.physical
        /\ \A p : Given(p) <=> p < next /\ p # job.physical
    BY <1>1, Job
  <1>4. next = job.physical + 1
    BY <1>1, <1>2, SMT DEF JobInv
  <1>5. next \in Physical /\ next # root /\ next > FirstLeaf
    <2>1. next \in Physical
      BY <1>3, <1>4, ConstantsAssumption, SMT DEF Physical
    <2> QED
      BY <1>2, <1>3, <2>1, Places, SMT
  <1>6. /\ entry \in [Digits -> Nat] /\ entry[0] = FirstLeaf
        /\ \A d \in Digits \ {0} : entry[d] = Unassigned
    BY <1>2, Stores, Places, SMT
  <1> HIDE DEF next, entry
  <1>7. Page(1, entry) \in Cells
    BY <1>6, Stores
  <1>8. /\ cell' \in [Physical -> Cells] /\ cell'[next] = Page(1, entry)
        /\ \A p \in Physical \ {next} : cell'[p] = cell[p]
    BY <1>1, <1>2, <1>5, <1>7, SetCell
  <1>9. cell'[next].kind = "page" /\ cell'[next].height = 1 /\ cell'[next].entry = entry
    BY <1>6, <1>8, Stores, SMT
  <1>10. /\ StoredInv' /\ ObjectsInv' /\ ParentInv' /\ Committed' = Committed
         /\ cell'[NextPhysical].value = job'.physical /\ cell'[NextLogical].value = job'.logical
         /\ job'.logical = job.logical /\ job'.physical = job.physical /\ job'.next = next + 1
         /\ job' \in Jobs
    <2>1. /\ job.next \in Physical /\ \A p \in Physical \ {job.next, root} : cell'[p] = cell[p]
          /\ cell'[root] = cell[root] /\ cell'[root].kind = "page"
          /\ cell'[job.next].kind = "page"
      BY <1>1, <1>2, <1>5, <1>8, <1>9 DEF next, IsPage
    <2> QED
      BY <1>1, <1>8, <2>1, AddPage DEF next
  <1>11. TypeOK'
    BY <1>1, <1>2, <1>5, <1>8, <1>10, SMT DEF TypeOK
  <1>12. MapInv'
    <2>1. IsPage(root)' /\ Given(root)'
      BY <1>1, <1>3, <1>5, <1>9, <1>10, SMT DEF IsPage, Given, Top
    <2>2. /\ root' = next /\ next > FirstLeaf /\ cell'[next].height = 1
          /\ cell'[next].entry[0] = FirstLeaf
          /\ \A d \in Digits \ {0} : cell'[next].entry[d] = Unassigned
      BY <1>1, <1>5, <1>6, <1>9
    <2> QED
      BY <2>1, <2>2 DEF MapInv
  <1>13. JobInv'
    <2>1. job'.next = job'.physical + 2 /\ cell'[root'].height = 1
      BY <1>1, <1>3, <1>4, <1>9, <1>10, SMT
    <2>2. job'.next > job'.physical /\ job'.next <= job'.physical + 3
      BY <1>3, <1>10, <2>1, SMT
    <2> QED
      BY <1>1, <1>3, <1>10, <2>1, <2>2 DEF JobInv
  <1>14. MineInv'
    <2>1. /\ mine \subseteq Committed
          /\ \A k \in mine : /\ Lookup(root, k) = committed[k] /\ k \in Logical
                             /\ committed[k] # Unassigned
      BY <1>1 DEF DInv, MineInv, Committed
    <2>2. ASSUME NEW k \in mine PROVE Lookup(root, k)' = committed[k]
      <3>1. k \in Logical /\ Lookup(root, k) = committed[k] /\ committed[k] # Unassigned
        BY <2>1
      <3>2. LeafOf(k) # Unassigned /\ cell[LeafOf(k)].entry[k % ChunkSize] = committed[k]
        BY <1>1, <3>1, Leaves
      <3>3. k < ChunkSize /\ LeafOf(k) = root
        BY <1>2, <3>2 DEF LeafOf
      <3>4. k \div ChunkSize = 0 /\ 0 \in Digits
        BY <3>1, <3>3, TwoDigits, Places
      <3>5. cell'[next].entry[k \div ChunkSize] = root
        BY <1>2, <1>6, <1>9, <3>4
      <3>6. cell'[root] = cell[root] /\ cell[root].kind = "page"
        BY <1>1, <1>2, <1>5, <1>8 DEF IsPage
      <3>7. cell'[next].height # 0
        BY <1>9, SMT
      <3> QED
        BY <1>1, <1>2, <1>5, <1>9, <3>2, <3>3, <3>5, <3>6, <3>7, Zenon DEF Lookup, Entry, IsPage
    <2> QED
      BY <1>1, <1>10, <2>1, <2>2 DEF MineInv
  <1> QED
    BY <1>1, <1>2, <1>10, <1>11, <1>12, <1>13, <1>14, SMT DEF DInv, BootInv

-------------------------------------------------------------------------------
(* The theorems *)

\* Nothing that the program does, at whichever write it stops, breaks the invariant.
THEOREM DatabaseInvariant == Spec => []DInv
  <1>1. Init => DInv
    BY InitDInv
  <1>2. DInv /\ [Next]_vars => DInv'
    <2> SUFFICES ASSUME DInv, [Next]_vars PROVE DInv'
      OBVIOUS
    <2>1. CASE Open \/ Grow \/ EndBootstrap
      BY <2>1, OpenStep
    <2>2. CASE ReadRoot
      BY <2>2, ReadRootStep
    <2>3. CASE Bootstrap
      BY <2>3, BootstrapStep
    <2>4. CASE BootstrapWrite
      BY <2>4, BootstrapWriteStep
    <2>5. CASE Allocate
      BY <2>5, AllocateStep
    <2>6. CASE GrowMap
      BY <2>6, GrowMapStep
    <2>7. CASE CreateLeaf
      BY <2>7, CreateLeafStep
    <2>8. CASE AssignEntry
      BY <2>8, AssignEntryStep
    <2>9. CASE Write
      BY <2>9, WriteStep
    <2>10. CASE EndCommit
      BY <2>10, EndCommitStep
    <2>11. CASE Close \/ Crash
      BY <2>11, StoppedStep DEF Close, Crash
    <2>12. CASE UNCHANGED vars
      <3>1. UNCHANGED <<sized, magic, disk_root, cell, pc, root, step, job, committed, mine>>
        BY <2>12 DEF vars
      <3>2. StoredInv' /\ ObjectsInv' /\ Committed' = Committed
        BY <3>1, Kept DEF DInv
      <3>3. TypeOK' /\ BootInv'
        BY <3>1, <3>2 DEF DInv, TypeOK, BootInv, Live, IsLeaf, IsPage
      <3>4. JobInv'
        BY <3>1, <3>2 DEF DInv, JobInv, ParentInv, WriteSet, Lookup, Entry, IsPage
      <3>5. MapInv'
        BY <3>1 DEF DInv, MapInv, Live, Given, Top, IsLeaf, IsPage
      <3>6. MineInv'
        BY <3>1, <3>2 DEF DInv, MineInv, Live, Lookup, Entry, IsPage
      <3> QED
        BY <3>2, <3>3, <3>4, <3>5, <3>6 DEF DInv
    <2> QED
      BY <2>1, <2>2, <2>3, <2>4, <2>5, <2>6, <2>7, <2>8, <2>9, <2>10, <2>11, <2>12 DEF Next
  <1> QED
    BY <1>1, <1>2, PTL DEF Spec

\* Every cell is an object or a page, and every counter and address is in its bounds.
THEOREM Types == Spec => []TypeOK
  <1>1. DInv => TypeOK
    BY DEF DInv
  <1> QED
    BY <1>1, DatabaseInvariant, PTL

\* A file with the magic word has the system objects and a map that finds them, at
\* whichever of the nine writes of bootstrapping programs have stopped.
THEOREM MagicComesLast == Spec => []MagicMeansBootstrapped
  <1>1. DInv => MagicMeansBootstrapped
    <2> SUFFICES ASSUME DInv, magic, NEW l \in System
                 PROVE  Lookup(disk_root, l) = l /\ cell[l].kind = "object" /\ cell[l].logical = l
      BY DEF MagicMeansBootstrapped
    <2>1. /\ disk_root = FirstLeaf /\ IsLeaf(FirstLeaf)
          /\ cell[l].kind = "object" /\ cell[l].logical = l /\ cell[FirstLeaf].entry[l] = l
      BY DEF DInv, StoredInv
    <2>2. l < ChunkSize
      BY Places, ConstantsAssumption, SMT
    <2> QED
      BY <2>1, <2>2 DEF Lookup, Entry, IsLeaf
  <1> QED
    BY <1>1, DatabaseInvariant, PTL

\* A stored object below the first leaf's end is found from the root in the file, through
\* any number of later commits, stops and openings.
THEOREM LowObjectsStay == Spec => []LowStays
  <1>1. DInv => LowStays
    <2> SUFFICES ASSUME DInv, NEW l \in Committed, l < ChunkSize PROVE Found(disk_root, l)
      BY DEF LowStays
    <2>1. magic /\ StoredInv
      BY DEF DInv, BootInv
    <2>2. /\ disk_root = FirstLeaf /\ IsLeaf(FirstLeaf)
          /\ cell[committed[l]].kind = "object" /\ cell[committed[l]].logical = l
          /\ cell[FirstLeaf].entry[l] = committed[l]
      BY <2>1 DEF StoredInv
    <2> QED
      BY <2>2 DEF Found, Lookup, Entry, IsLeaf
  <1> QED
    BY <1>1, DatabaseInvariant, PTL

\* While a program runs, the map in its memory leads to every object it has committed, also
\* above the first leaf and after the map has grown a level.
THEOREM OwnObjectsFound == Spec => []MineFound
  <1>1. DInv => MineFound
    <2> SUFFICES ASSUME DInv, pc = "idle", NEW l \in mine PROVE Found(root, l)
      BY DEF MineFound
    <2>1. Live /\ magic /\ StoredInv
      BY Opened DEF Live
    <2>2. l \in Committed /\ Lookup(root, l) = committed[l]
      BY <2>1 DEF DInv, MineInv
    <2> QED
      BY <2>1, <2>2 DEF Found, StoredInv
  <1> QED
    BY <1>1, DatabaseInvariant, PTL

\* Between calls the counters in the file are past every address of an object and of a page,
\* so that no commit of any later program is given a place that is taken.
THEOREM CountersAhead == Spec => []CountersPast
  <1>1. DInv => CountersPast
    <2> SUFFICES ASSUME DInv, pc = "idle" PROVE CountersPast
      BY DEF CountersPast
    <2>1. Live /\ magic /\ StoredInv /\ Given(root) /\ IsPage(root)
      BY Opened DEF Live
    <2>2. cell[NextPhysical].value \in Nat /\ cell[NextPhysical].value > FirstLeaf
      BY <2>1, Counters
    <2>3. Top = cell[NextPhysical].value /\ \A p : Given(p) => p < cell[NextPhysical].value
      BY DEF Top, Given
    <2>4. ASSUME NEW d \in Digits, cell[root].height = 1
          PROVE  cell[root].entry[d] < cell[NextPhysical].value
      <3>1. /\ cell[root].entry[0] = FirstLeaf
            /\ \A e \in Digits \ {0} : cell[root].entry[e] # Unassigned =>
                  Given(cell[root].entry[e])
        <4>1. root # FirstLeaf
          BY <2>1, <2>4, Opened, SMT
        <4> QED
          BY <2>1, <4>1 DEF DInv, MapInv
      <3>2. CASE cell[root].entry[d] = Unassigned
        BY <2>2, <3>2, Places, SMT
      <3>3. CASE d = 0
        BY <2>2, <3>1, <3>3, Places, SMT
      <3>4. CASE d # 0 /\ cell[root].entry[d] # Unassigned
        BY <2>3, <3>1, <3>4
      <3> QED
        BY <3>2, <3>3, <3>4
    <2> QED
      BY <2>1, <2>3, <2>4 DEF CountersPast, StoredInv, Entry
  <1> QED
    BY <1>1, DatabaseInvariant, PTL

\* A commit is given an address that nothing in the file refers to, at whichever write earlier
\* commits have stopped, though the object that is changed is written before the new one.
THEOREM AddressesAreUnsaid == Spec => []AddressesUnsaid
  <1>1. DInv => AddressesUnsaid
    <2> SUFFICES ASSUME DInv, pc = "assign", NEW p \in Physical \ System,
                        cell[p].kind = "object"
                 PROVE  cell[p].value # job.logical
      BY DEF AddressesUnsaid
    <2>1. ObjectsInv /\ TypeOK /\ job.logical = cell[NextLogical].value
      BY DEF DInv, JobInv
    <2>2. cell[p].value < cell[NextLogical].value /\ cell[p].value \in Nat
      BY <2>1, Kinds, SMT DEF ObjectsInv
    <2>3. cell[NextLogical].value \in Nat
      BY Opened, Counters DEF Live
    <2> QED
      BY <2>1, <2>2, <2>3, SMT
  <1> QED
    BY <1>1, DatabaseInvariant, PTL
===============================================================================
