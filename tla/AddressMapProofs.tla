--------------------------- MODULE AddressMapProofs ---------------------------
(***************************************************************************)
(* Proofs about the address map, for any height, page size, set of         *)
(* addresses and number of readers.                                        *)
(***************************************************************************)
EXTENDS AddressMap, TLAPS

LOCAL INSTANCE WellFoundedInduction

USE DEF content, history, Locals, Idle, GoTo, Call, Ready, Done

LEMMA Constants ==
    /\ MaxHeight \in Nat /\ WordHeight \in Nat /\ WordHeight >= MaxHeight
    /\ ChunkSize \in Nat \ {0} /\ MaxPage \in Nat \ {0}
    /\ Unassigned = 0 /\ Unassigned \in Nat /\ 0 \in Digits /\ 0 \in Heights /\ 1 \in PageAddress
    /\ Heights \subseteq Nat /\ PageAddress \subseteq Nat \ {Unassigned}
    /\ Logical \subseteq [Heights -> Digits]
    /\ Physical \subseteq Nat \ {Unassigned}
    /\ ZeroDigits \in [Heights -> Digits]
BY ConstantsAssumption DEF Heights, Digits, PageAddress, Unassigned, ZeroDigits

(***************************************************************************)
(* The arithmetic of heights and page addresses.                           *)
(***************************************************************************)
LEMMA HeightFacts ==
    /\ \A h \in Heights : h \in Nat /\ (h # 0 <=> h > 0) /\ h <= h
    /\ \A h \in Heights : h > 0 => h - 1 \in Heights /\ h > h - 1
    /\ \A h, k \in Heights : k > h - 1 <=> k = h \/ k > h
    /\ \A h \in Heights : h >= MaxHeight => h = MaxHeight
    /\ \A h \in Heights : ~(h < WordHeight) => \A k \in Heights : ~(k > h)
    /\ \A a \in PageAddress : a + 1 \in 1 .. MaxPage + 1 /\ a # Unassigned
BY ConstantsAssumption DEF Heights, PageAddress, Unassigned

LEMMA HeightOrder ==
    /\ \A g, h, k \in Heights : g <= h /\ k > h => k > g
    /\ \A g, h \in Heights : g <= h => h + 1 > h /\ h + 1 > g /\ g <= h + 1 /\ h <= h + 1
    /\ \A h, k \in Heights : h > k => h # k /\ ~(k > h) /\ ~(h <= k)
    /\ \A h \in Heights : h # -1 /\ h <= h
BY ConstantsAssumption DEF Heights

(***************************************************************************)
(* The variables keep their types; in particular no entry, no height and   *)
(* no allocated address ever leaves its range.                             *)
(***************************************************************************)
LEMMA TypeInit == Init => TypeOK
BY Constants DEF Init, TypeOK, Idle, Ready, WriterType, ReaderType, PageOrNone, PageAddress,
                 Unassigned

(***************************************************************************)
(* What the invariant says of the page under the writer's cursor.          *)
(***************************************************************************)
LEMMA WriterFacts ==
    ASSUME TypeOK, IInv
    PROVE  /\ writer.pc # "idle" =>
                  /\ writer.logical \in Logical /\ writer.logical \in [Heights -> Digits]
                  /\ writer.physical \in Physical /\ writer.physical \in Nat \ {Unassigned}
           /\ writer.pc \in {"grow", "growlink", "publish", "descend", "link"} =>
                  /\ writer.base \in linked /\ writer.base \in PageAddress
                  /\ height[writer.base] \in Heights
           /\ writer.pc \in {"growlink", "link"} =>
                  /\ writer.page \in PageAddress
                  /\ height[writer.page] \in Heights
           /\ writer.pc \in {"grow", "growlink"} => height[writer.base] + 1 \in Heights
           /\ writer.pc \in {"descend", "link"} => Index \in Digits
<1> USE Constants DEF Index
<1>1. ASSUME writer.pc # "idle"
      PROVE  /\ writer.logical \in Logical /\ writer.logical \in [Heights -> Digits]
             /\ writer.physical \in Physical /\ writer.physical \in Nat \ {Unassigned}
  BY <1>1 DEF IInv, WriterPlace
<1>2. ASSUME writer.pc \in {"grow", "growlink", "publish", "descend", "link"}
      PROVE  /\ writer.base \in linked /\ writer.base \in PageAddress
             /\ height[writer.base] \in Heights
  BY <1>2 DEF IInv, WriterPlace, Allocated, TypeOK
<1>3. ASSUME writer.pc \in {"grow", "growlink"}
      PROVE  height[writer.base] + 1 \in Heights
  BY <1>1, <1>2, <1>3 DEF IInv, WriterPlace, InRange, Heights
<1>4. ASSUME writer.pc \in {"growlink", "link"}
      PROVE  /\ writer.page \in PageAddress
             /\ height[writer.page] \in Heights
  BY <1>2, <1>3, <1>4 DEF IInv, WriterPlace, Heights
<1>5. ASSUME writer.pc \in {"descend", "link"}
      PROVE  Index \in Digits
  BY <1>1, <1>2, <1>5
<1> QED
  BY <1>1, <1>2, <1>3, <1>4, <1>5

LEMMA TypeStep ==
    ASSUME TypeOK, IInv, [Next]_vars
    PROVE  TypeOK'
<1> USE Constants DEF TypeOK, WriterType, ReaderType, PageOrNone
<1>1. ASSUME NEW l \in Logical, NEW p \in Physical, BeginAssign(l, p)
      PROVE  TypeOK'
  BY <1>1 DEF BeginAssign
<1>2. CASE AssignReadRoot
  BY <1>2 DEF AssignReadRoot, Idle, IsPage
<1>3. CASE GrowCreate
  <2>1. /\ height[writer.base] + 1 \in Heights /\ writer.base \in PageAddress
        /\ writer.logical \in Logical /\ writer.physical \in Physical
    BY <1>3, WriterFacts DEF GrowCreate
  <2>2. height' \in [PageAddress -> Heights \cup {-1}] /\ entry' \in [PageAddress -> [Digits -> Nat]]
    BY <1>3, <2>1 DEF GrowCreate, CreatePage
  <2>3. next_physical' \in 1 .. MaxPage + 1
    BY <1>3, HeightFacts DEF GrowCreate, CreatePage
  <2>4. writer' \in WriterType
    BY <1>3, <2>1 DEF GrowCreate, CreatePage
  <2> QED
    BY <1>3, <2>2, <2>3, <2>4 DEF GrowCreate
<1>4. CASE GrowLink
  <2>1. /\ writer.page \in PageAddress /\ writer.base \in PageAddress
        /\ writer.logical \in Logical /\ writer.physical \in Physical
    BY <1>4, WriterFacts DEF GrowLink
  <2>2. entry' \in [PageAddress -> [Digits -> Nat]]
    BY <1>4, <2>1 DEF GrowLink
  <2>3. writer' \in WriterType
    BY <1>4, <2>1 DEF GrowLink
  <2>4. linked' \in SUBSET PageAddress /\ prefix' \in [PageAddress -> [Heights -> Digits]]
    BY <1>4, <2>1 DEF GrowLink
  <2> QED
    BY <1>4, <2>2, <2>3, <2>4 DEF GrowLink
<1>5. CASE Publish
  BY <1>5, WriterFacts DEF Publish
<1>6. CASE WriteLeaf
  BY <1>6, WriterFacts DEF WriteLeaf, Idle
<1>7. CASE Descend
  BY <1>7, WriterFacts DEF Descend, Idle, IsPage
<1>8. CASE CreateBelow
  <2>1. height[writer.base] - 1 \in Heights
    BY <1>8, WriterFacts, HeightFacts DEF CreateBelow
  <2>2. /\ writer.base \in PageAddress
        /\ writer.logical \in Logical /\ writer.physical \in Physical
    BY <1>8, WriterFacts DEF CreateBelow
  <2>3. height' \in [PageAddress -> Heights \cup {-1}] /\ entry' \in [PageAddress -> [Digits -> Nat]]
    BY <1>8, <2>1 DEF CreateBelow, CreatePage
  <2>4. next_physical' \in 1 .. MaxPage + 1
    BY <1>8, HeightFacts DEF CreateBelow, CreatePage
  <2>5. writer' \in WriterType
    BY <1>8, <2>2 DEF CreateBelow, CreatePage
  <2> QED
    BY <1>8, <2>3, <2>4, <2>5 DEF CreateBelow
<1>9. CASE LinkBelow
  BY <1>9, WriterFacts DEF LinkBelow
<1>10. ASSUME NEW r \in Readers, NEW l \in Logical, BeginLookup(r, l)
       PROVE  TypeOK'
  BY <1>10 DEF BeginLookup
<1>11. ASSUME NEW r \in Readers, LookupReadRoot(r)
       PROVE  TypeOK'
  BY <1>11 DEF LookupReadRoot
<1>12. ASSUME NEW r \in Readers, CheckRange(r)
       PROVE  TypeOK'
  BY <1>12 DEF CheckRange, Done, Unassigned
<1>13. ASSUME NEW r \in Readers, Walk(r)
       PROVE  TypeOK'
  <2> DEFINE l == reader[r].logical
             base == reader[r].base
             value == IF IsPage(base) THEN entry[base][l[height[base]]] ELSE Unassigned
  <2>1. l \in Logical /\ l \in [Heights -> Digits]
    BY <1>13 DEF Walk, IInv, ReaderPlace
  <2>2. value \in Nat
    <3>1. IsPage(base) => base \in PageAddress /\ height[base] \in Heights
      BY DEF IsPage
    <3>2. ASSUME IsPage(base)
          PROVE  entry[base][l[height[base]]] \in Nat
      <4>1. base \in PageAddress /\ l[height[base]] \in Digits
        BY <2>1, <3>1, <3>2
      <4> QED
        BY <4>1
    <3> QED
      BY <3>2
  <2>3. reader' \in [Readers -> ReaderType]
    <3> HIDE DEF value
    <3>1. reader' = [reader EXCEPT ![r] =
                        IF value = Unassigned \/ height[base] = 0
                        THEN Done(l, value) ELSE Call("walk", l, value, Unassigned)]
      BY <1>13 DEF Walk, value
    <3> QED
      BY <2>1, <2>2, <3>1 DEF Unassigned
  <2> QED
    BY <1>13, <2>3 DEF Walk
<1>14. ASSUME NEW r \in Readers, EndLookup(r)
       PROVE  TypeOK'
  BY <1>14 DEF EndLookup, Ready, Unassigned
<1>15. CASE UNCHANGED vars
  BY <1>15 DEF vars
<1> QED
  BY <1>1, <1>2, <1>3, <1>4, <1>5, <1>6, <1>7, <1>8, <1>9, <1>10, <1>11, <1>12,
     <1>13, <1>14, <1>15 DEF Next, AssignStep, LookupStep
-------------------------------------------------------------------------------
(***************************************************************************)
(* Steps of readers, and the first step of an assignment, leave the tree   *)
(* alone: only the place of that thread is in question.                    *)
(***************************************************************************)
LEMMA ReaderSteps ==
    ASSUME TypeOK, IInv, NEW r \in Readers,
           \/ \E l \in Logical : BeginLookup(r, l)
           \/ LookupStep(r)
    PROVE  IInv'
<1> USE Constants DEF IInv
<1>1. /\ UNCHANGED <<height, entry, root, next_physical, writer, table, linked, prefix>>
      /\ \A q \in Readers \ {r} : reader'[q] = reader[q]
  <2> HIDE DEF IInv
  <2>1. reader \in [Readers -> ReaderType]
    BY DEF TypeOK
  <2>2. CASE \E l \in Logical : BeginLookup(r, l)
    BY <2>1, <2>2 DEF BeginLookup
  <2>3. CASE LookupStep(r)
    BY <2>1, <2>3 DEF LookupStep, LookupReadRoot, CheckRange, Walk, EndLookup
  <2> QED
    BY <2>2, <2>3
<1>2. /\ Allocated' /\ LeafHolds' /\ BranchLeads' /\ EmptyMeansUnassigned'
      /\ BeyondUnassigned' /\ OnePage' /\ UnderItsAncestors' /\ WriterPlace'
  <2>1. Allocated'
    BY <1>1 DEF Allocated, Top, Growing
  <2>2. LeafHolds' /\ EmptyMeansUnassigned'
    BY <1>1 DEF LeafHolds, EmptyMeansUnassigned, Covers, SamePrefix
  <2>3. BranchLeads'
    BY <1>1 DEF BranchLeads, SamePrefix
  <2>4. BeyondUnassigned' /\ OnePage' /\ UnderItsAncestors'
    BY <1>1 DEF BeyondUnassigned, OnePage, UnderItsAncestors, SamePrefix, InRange
  <2>5. WriterPlace'
    BY <1>1 DEF WriterPlace, Covers, SamePrefix, Below, Index, InRange
  <2> QED
    BY <2>1, <2>2, <2>3, <2>4, <2>5
<1>3. ReaderPlace'
  <2> SUFFICES
        /\ reader'[r].pc # "ready" => reader'[r].logical \in Logical
        /\ reader'[r].pc \in {"range", "walk"} => reader'[r].base \in linked
        /\ reader'[r].pc = "range" =>
             \A k \in Heights : k > height[reader'[r].base] => prefix[reader'[r].base][k] = 0
        /\ reader'[r].pc = "walk" => Covers(reader'[r].base, reader'[r].logical)
    BY <1>1 DEF ReaderPlace, Covers, SamePrefix
  <2>1. ASSUME NEW l \in Logical, BeginLookup(r, l)
        PROVE  reader'[r].pc = "root" /\ reader'[r].logical \in Logical
    BY <2>1 DEF BeginLookup, TypeOK
  <2>2. ASSUME LookupReadRoot(r)
        PROVE  /\ reader'[r].pc = "range" /\ reader'[r].logical \in Logical
               /\ reader'[r].base \in linked
               /\ \A k \in Heights : k > height[reader'[r].base] =>
                     prefix[reader'[r].base][k] = 0
    <3>1. reader'[r] = Call("range", reader[r].logical, root, Unassigned)
      BY <2>2 DEF LookupReadRoot, TypeOK
    <3> QED
      BY <2>2, <3>1 DEF LookupReadRoot, ReaderPlace, Allocated
  <2>3. ASSUME CheckRange(r)
        PROVE  /\ reader'[r].pc \in {"walk", "done"} /\ reader'[r].logical \in Logical
               /\ reader'[r].pc = "walk" =>
                     /\ reader'[r].base \in linked
                     /\ Covers(reader'[r].base, reader'[r].logical)
    <3> DEFINE l == reader[r].logical
               base == reader[r].base
    <3>1. /\ l \in Logical /\ l \in [Heights -> Digits] /\ base \in linked
          /\ base \in PageAddress /\ height[base] \in Heights
          /\ \A k \in Heights : k > height[base] => prefix[base][k] = 0
      BY <2>3 DEF CheckRange, ReaderPlace, Allocated, TypeOK
    <3>2. \/ reader'[r] = Done(l, Unassigned)
          \/ /\ reader'[r] = Call("walk", l, base, Unassigned)
             /\ InRange(height[base], l)
      <4>1. IsPage(base)
        BY <3>1 DEF IsPage
      <4>2. PICK inrange \in RangeAnswers(height[base], l) :
               reader' = [reader EXCEPT ![r] =
                  IF inrange THEN Call("walk", l, base, Unassigned) ELSE Done(l, Unassigned)]
        BY <2>3, <4>1 DEF CheckRange
      <4>3. ASSUME inrange PROVE InRange(height[base], l)
        BY <3>1, <4>3, HeightFacts DEF RangeAnswers, InRange
      <4> QED
        BY <4>2, <4>3 DEF TypeOK
    <3>3. ASSUME InRange(height[base], l) PROVE Covers(base, l)
      BY <3>1, <3>3 DEF Covers, SamePrefix, InRange
    <3> QED
      BY <3>1, <3>2, <3>3
  <2>4. ASSUME Walk(r)
        PROVE  /\ reader'[r].pc \in {"walk", "done"} /\ reader'[r].logical \in Logical
               /\ reader'[r].pc = "walk" =>
                     /\ reader'[r].base \in linked
                     /\ Covers(reader'[r].base, reader'[r].logical)
    <3> DEFINE l == reader[r].logical
               base == reader[r].base
               value == entry[base][l[height[base]]]
    <3>1. /\ l \in Logical /\ l \in [Heights -> Digits] /\ base \in linked
          /\ base \in PageAddress /\ height[base] \in Heights /\ IsPage(base)
          /\ Covers(base, l)
      BY <2>4 DEF Walk, ReaderPlace, Allocated, TypeOK, IsPage
    <3>2. \/ reader'[r] = Done(l, value)
          \/ /\ reader'[r] = Call("walk", l, value, Unassigned)
             /\ value # Unassigned /\ height[base] # 0
      BY <2>4, <3>1 DEF Walk, TypeOK
    <3>3. ASSUME value # Unassigned, height[base] # 0
          PROVE  value \in linked /\ Covers(value, l)
      <4>1. /\ value \in linked /\ height[value] = height[base] - 1
            /\ prefix[value][height[base]] = l[height[base]]
            /\ SamePrefix(height[base], prefix[base], prefix[value])
        <5>1. height[base] > 0 /\ l[height[base]] \in Digits
          BY <3>1, <3>3, HeightFacts
        <5>2. BranchLeads
          OBVIOUS
        <5> HIDE DEF IInv
        <5> QED
          BY <3>1, <3>3, <5>1, <5>2 DEF BranchLeads
      <4>2. ASSUME NEW k \in Heights, k > height[base] - 1
            PROVE  prefix[value][k] = l[k]
        <5>1. k = height[base] \/ k > height[base]
          BY <3>1, <4>2, HeightFacts
        <5>2. CASE k = height[base]
          BY <4>1, <5>2
        <5>3. CASE k > height[base]
          BY <3>1, <4>1, <5>3 DEF SamePrefix, Covers
        <5> QED
          BY <5>1, <5>2, <5>3
      <4> QED
        BY <4>1, <4>2 DEF Covers, SamePrefix
    <3> HIDE DEF IInv, value
    <3>4. CASE reader'[r] = Done(l, value)
      <4>1. reader'[r].pc = "done" /\ reader'[r].logical = l
        BY <3>4
      <4> QED
        BY <3>1, <4>1
    <3>5. CASE /\ reader'[r] = Call("walk", l, value, Unassigned)
               /\ value # Unassigned /\ height[base] # 0
      <4>1. /\ reader'[r].pc = "walk" /\ reader'[r].logical = l
            /\ reader'[r].base = value
        BY <3>5
      <4>2. value \in linked /\ Covers(value, l)
        BY <3>3, <3>5
      <4> QED
        BY <3>1, <4>1, <4>2
    <3> QED
      BY <3>2, <3>4, <3>5
  <2>5. ASSUME EndLookup(r)
        PROVE  reader'[r].pc = "ready"
    BY <2>5 DEF EndLookup, TypeOK
  <2> QED
    BY <2>1, <2>2, <2>3, <2>4, <2>5 DEF LookupStep
<1> QED
  BY <1>2, <1>3

-------------------------------------------------------------------------------
(* The steps of an assignment *)

(***************************************************************************)
(* The steps that only move the writer's cursor.                           *)
(***************************************************************************)
LEMMA CursorSteps ==
    ASSUME TypeOK, IInv,
           \/ \E l \in Logical, p \in Physical : BeginAssign(l, p)
           \/ AssignReadRoot
           \/ Descend
    PROVE  IInv'
<1> USE Constants DEF IInv
<1>1. UNCHANGED <<height, entry, root, next_physical, reader, table, linked, prefix>>
  BY DEF BeginAssign, AssignReadRoot, Descend
<1>2. LeafHolds' /\ EmptyMeansUnassigned'
  BY <1>1 DEF LeafHolds, EmptyMeansUnassigned, Covers, SamePrefix
<1>3. BranchLeads'
  BY <1>1 DEF BranchLeads, SamePrefix
<1>4. BeyondUnassigned' /\ OnePage' /\ UnderItsAncestors'
  BY <1>1 DEF BeyondUnassigned, OnePage, UnderItsAncestors, SamePrefix, InRange
<1>5. ReaderPlace'
  BY <1>1 DEF ReaderPlace, Covers, SamePrefix
<1>6. Top = root /\ Top' = root
  BY <1>1 DEF BeginAssign, AssignReadRoot, Descend, Top, Growing
<1>7. Allocated'
  BY <1>1, <1>6 DEF Allocated
<1>8. WriterPlace'
  <2>1. ASSUME NEW l \in Logical, NEW p \in Physical, BeginAssign(l, p)
        PROVE  WriterPlace'
    BY <2>1 DEF BeginAssign, WriterPlace
  <2>2. CASE AssignReadRoot
    <3>1. /\ root \in linked /\ IsPage(root)
          /\ \A k \in Heights : k > height[root] => prefix[root][k] = 0
      BY DEF Allocated, IsPage, TypeOK
    <3>2. writer.logical \in Logical /\ writer.physical \in Physical
      BY <2>2 DEF AssignReadRoot, WriterPlace
    <3>3. CASE InRange(height[root], writer.logical)
      <4>1. writer' = Locals("descend", writer.logical, writer.physical, root, Unassigned)
        BY <2>2, <3>1, <3>3 DEF AssignReadRoot
      <4>2. Covers(root, writer.logical)
        BY <3>1, <3>3 DEF Covers, SamePrefix, InRange
      <4> QED
        BY <1>1, <3>1, <3>2, <4>1, <4>2 DEF WriterPlace, Covers, SamePrefix
    <3>4. CASE ~InRange(height[root], writer.logical)
      <4>1. writer' = Locals("grow", writer.logical, writer.physical, root, Unassigned)
        BY <2>2, <3>1, <3>4 DEF AssignReadRoot
      <4>2. height[root] <= height[root]
        BY <3>1, HeightFacts DEF TypeOK, IsPage
      <4> QED
        BY <1>1, <3>1, <3>2, <3>4, <4>1, <4>2 DEF WriterPlace, InRange
    <3> QED
      BY <3>3, <3>4
  <2>3. CASE Descend
    <3> DEFINE base == writer.base
    <3>1. /\ writer.logical \in Logical /\ writer.physical \in Physical
          /\ base \in linked /\ Covers(base, writer.logical)
          /\ writer.logical[height[base]] \in Digits /\ height[base] > 0
          /\ height[base] \in Heights /\ Below # Unassigned
      BY <2>3, WriterFacts DEF Descend, WriterPlace, Index
    <3>2. /\ Below \in linked /\ height[Below] = height[base] - 1
          /\ prefix[Below][height[base]] = writer.logical[height[base]]
          /\ SamePrefix(height[base], prefix[base], prefix[Below])
      BY <3>1 DEF BranchLeads, Below, Index
    <3>3. ASSUME NEW k \in Heights, k > height[Below]
          PROVE  prefix[Below][k] = writer.logical[k]
      <4>1. k = height[base] \/ k > height[base]
        <5>1. height[base] \in Heights /\ k > height[base] - 1
          BY <3>1, <3>2, <3>3
        <5> HIDE DEF IInv, base
        <5> QED
          BY <5>1, HeightFacts
      <4>2. CASE k = height[base]
        BY <3>2, <4>2
      <4>3. CASE k > height[base]
        BY <3>1, <3>2, <4>3 DEF SamePrefix, Covers
      <4> QED
        BY <4>1, <4>2, <4>3
    <3>4. Covers(Below, writer.logical)
      BY <3>3 DEF Covers, SamePrefix
    <3>5. writer' = Locals("descend", writer.logical, writer.physical, Below, Unassigned)
      BY <2>3, <3>2 DEF Descend, IsPage, Allocated, TypeOK
    <3> QED
      BY <1>1, <3>1, <3>2, <3>4, <3>5 DEF WriterPlace, Covers, SamePrefix
  <2> QED
    BY <2>1, <2>2, <2>3
<1> QED
  BY <1>2, <1>3, <1>4, <1>5, <1>7, <1>8


(***************************************************************************)
(* A reader stays in place when the pages of the tree keep their height    *)
(* and their prefix.                                                       *)
(***************************************************************************)
LEMMA ReadersStay ==
    ASSUME ReaderPlace, reader' = reader, linked \subseteq linked',
           \A a \in linked : height'[a] = height[a] /\ prefix'[a] = prefix[a]
    PROVE  ReaderPlace'
<1> SUFFICES ASSUME NEW r \in Readers
             PROVE  /\ reader[r].pc # "ready" => reader[r].logical \in Logical
                    /\ reader[r].pc \in {"range", "walk"} => reader[r].base \in linked'
                    /\ reader[r].pc = "range" =>
                          \A k \in Heights : k > height'[reader[r].base] =>
                              prefix'[reader[r].base][k] = 0
                    /\ reader[r].pc = "walk" => Covers(reader[r].base, reader[r].logical)'
  BY DEF ReaderPlace, Covers, SamePrefix
<1>1. CASE reader[r].pc \in {"range", "walk"}
  <2>1. reader[r].base \in linked
    BY <1>1 DEF ReaderPlace
  <2> QED
    BY <1>1, <2>1 DEF ReaderPlace, Covers, SamePrefix
<1>2. CASE reader[r].pc \notin {"range", "walk"}
  BY <1>2 DEF ReaderPlace
<1> QED
  BY <1>1, <1>2

(***************************************************************************)
(* The steps that fill in a page which is not part of the tree yet.        *)
(***************************************************************************)
LEMMA CreateSteps ==
    ASSUME TypeOK, IInv, GrowCreate \/ CreateBelow
    PROVE  IInv'
<1> USE Constants DEF IInv
<1> DEFINE n == next_physical
           h == IF writer.pc = "grow" THEN height[writer.base] + 1
                                      ELSE height[writer.base] - 1
<1>1. /\ UNCHANGED <<root, reader, table, linked, prefix>>
      /\ n \in PageAddress /\ next_physical' = n + 1
      /\ height' = [height EXCEPT ![n] = h]
      /\ entry' = [entry EXCEPT ![n] = [i \in Digits |-> Unassigned]]
  BY DEF GrowCreate, CreateBelow, CreatePage
<1>2. h \in Heights
  BY WriterFacts, HeightFacts DEF GrowCreate, CreateBelow
<1>3. /\ n \notin linked
      /\ \A a \in linked : a \in PageAddress
  BY <1>1, HeightFacts DEF Allocated, TypeOK
<1>4. /\ height'[n] = h /\ entry'[n] = [i \in Digits |-> Unassigned]
      /\ \A a \in linked : height'[a] = height[a] /\ entry'[a] = entry[a]
      /\ \A a \in PageAddress : a # n => height'[a] = height[a]
  <2> HIDE DEF h
  <2> QED
    BY <1>1, <1>3 DEF TypeOK
<1>5. Top' = Top /\ Top \in linked /\ root \in linked
  BY <1>1 DEF Top, Growing, GrowCreate, CreateBelow, Allocated
<1> HIDE DEF h
<1>6. Allocated'
  <2>1. ASSUME NEW a \in PageAddress
        PROVE  height'[a] # -1 <=> a < next_physical'
    <3>1. height[a] # -1 <=> a < n
      BY DEF Allocated
    <3>2. CASE a = n
      BY <1>1, <1>2, <1>4, <3>2, HeightFacts
    <3>3. CASE a # n
      BY <1>1, <1>4, <3>1, <3>3, HeightFacts
    <3> QED
      BY <3>2, <3>3
  <2> QED
    BY <1>1, <1>4, <1>5, <2>1 DEF Allocated
<1>7. LeafHolds'
  BY <1>1, <1>4 DEF LeafHolds, Covers, SamePrefix
<1>8. BranchLeads'
  BY <1>1, <1>4 DEF BranchLeads, SamePrefix
<1>9. EmptyMeansUnassigned'
  BY <1>1, <1>4 DEF EmptyMeansUnassigned, Covers, SamePrefix
<1>10. BeyondUnassigned'
  BY <1>1, <1>4, <1>5 DEF BeyondUnassigned, InRange
<1>11. OnePage' /\ UnderItsAncestors'
  BY <1>1, <1>4 DEF OnePage, UnderItsAncestors, SamePrefix
<1>12. ReaderPlace'
  BY <1>1, <1>4, ReadersStay
<1>13. WriterPlace'
  <2>1. CASE GrowCreate
    <3>1. /\ writer.pc = "grow"
          /\ writer' = Locals("growlink", writer.logical, writer.physical, writer.base, n)
      BY <2>1 DEF GrowCreate
    <3>2. /\ h = height[writer.base] + 1 /\ writer.base \in linked
          /\ writer.logical \in Logical /\ writer.physical \in Physical
          /\ height[root] <= height[writer.base]
          /\ \A k \in Heights : k > height[root] => prefix[writer.base][k] = 0
          /\ ~InRange(height[root], writer.logical)
          /\ ~InRange(height[writer.base], writer.logical)
      BY <3>1 DEF h, WriterPlace
    <3>3. height'[writer.base] = height[writer.base] /\ height'[root] = height[root]
      BY <1>4, <1>5, <3>2
    <3>4. /\ writer'.pc = "growlink" /\ writer'.logical = writer.logical
          /\ writer'.physical = writer.physical /\ writer'.base = writer.base
          /\ writer'.page = n
      BY <3>1
    <3> QED
      BY <1>1, <1>3, <1>4, <3>2, <3>3, <3>4 DEF WriterPlace, InRange
  <2>2. CASE CreateBelow
    <3>1. /\ writer.pc = "descend" /\ height[writer.base] > 0 /\ Below = Unassigned
          /\ writer' = Locals("link", writer.logical, writer.physical, writer.base, n)
      BY <2>2 DEF CreateBelow
    <3>2. /\ h = height[writer.base] - 1 /\ writer.base \in linked
          /\ writer.logical \in Logical /\ writer.physical \in Physical
          /\ Covers(writer.base, writer.logical)
      BY <3>1 DEF h, WriterPlace
    <3>3. height'[writer.base] = height[writer.base] /\ entry'[writer.base] = entry[writer.base]
      BY <1>4, <1>5, <3>2
    <3>4. /\ writer'.pc = "link" /\ writer'.logical = writer.logical
          /\ writer'.physical = writer.physical /\ writer'.base = writer.base
          /\ writer'.page = n
      BY <3>1
    <3>5. Covers(writer.base, writer.logical)'
      BY <1>1, <3>2, <3>3, <3>4 DEF Covers, SamePrefix
    <3>6. Below' = Unassigned
      BY <3>1, <3>3, <3>4 DEF Below, Index
    <3> QED
      BY <1>1, <1>3, <1>4, <3>1, <3>2, <3>3, <3>4, <3>5, <3>6 DEF WriterPlace
  <2> QED
    BY <2>1, <2>2
<1> QED
  BY <1>6, <1>7, <1>8, <1>9, <1>10, <1>11, <1>12, <1>13


(***************************************************************************)
(* Moving the root to the top of the pages grown above it.                 *)
(***************************************************************************)
LEMMA PublishStep ==
    ASSUME TypeOK, IInv, Publish
    PROVE  IInv'
<1> USE Constants DEF IInv
<1> DEFINE b == writer.base
<1>1. /\ UNCHANGED <<height, entry, next_physical, reader, table, linked, prefix>>
      /\ writer.pc = "publish" /\ root' = b
      /\ writer' = Locals("descend", writer.logical, writer.physical, b, Unassigned)
  BY DEF Publish
<1>2. /\ b \in linked /\ height[root] <= height[b]
      /\ height[b] \in Heights /\ height[root] \in Heights
      /\ \A k \in Heights : k > height[root] => prefix[b][k] = 0
      /\ InRange(height[b], writer.logical)
      /\ writer.logical \in Logical /\ writer.physical \in Physical
  BY <1>1, WriterFacts DEF WriterPlace, Allocated, TypeOK
<1>3. \A k \in Heights : k > height[b] => k > height[root] /\ prefix[b][k] = 0
  BY <1>2, HeightOrder
<1>4. Top = b /\ Top' = b
  BY <1>1 DEF Top, Growing
<1>5. Allocated'
  BY <1>1, <1>2, <1>3, <1>4 DEF Allocated
<1>6. LeafHolds' /\ EmptyMeansUnassigned'
  BY <1>1 DEF LeafHolds, EmptyMeansUnassigned, Covers, SamePrefix
<1>7. BranchLeads' /\ OnePage' /\ UnderItsAncestors'
  BY <1>1 DEF BranchLeads, OnePage, UnderItsAncestors, SamePrefix
<1>8. BeyondUnassigned'
  BY <1>1, <1>3 DEF BeyondUnassigned, InRange
<1>9. ReaderPlace'
  BY <1>1, ReadersStay
<1>10. WriterPlace'
  <2>1. Covers(b, writer.logical)'
    BY <1>1, <1>2, <1>3 DEF Covers, SamePrefix, InRange
  <2> QED
    BY <1>1, <1>2, <2>1 DEF WriterPlace
<1> QED
  BY <1>5, <1>6, <1>7, <1>8, <1>9, <1>10

(***************************************************************************)
(* A new top page: index 0 leads to the former top, and nothing that the   *)
(* other entries stand for is in the range of the root.                    *)
(***************************************************************************)
LEMMA GrowLinkStep ==
    ASSUME TypeOK, IInv, GrowLink
    PROVE  IInv'
<1> USE Constants DEF IInv
<1> DEFINE b == writer.base
           p == writer.page
<1>1. /\ UNCHANGED <<height, root, next_physical, reader, table>>
      /\ writer.pc = "growlink"
      /\ entry' = [entry EXCEPT ![p][0] = b]
      /\ linked' = linked \cup {p}
      /\ prefix' = [prefix EXCEPT ![p] = ZeroDigits]
      /\ writer'.logical = writer.logical /\ writer'.physical = writer.physical
      /\ writer'.base = p
      /\ \/ writer'.pc = "publish" /\ InRange(height[p], writer.logical)
         \/ writer'.pc = "grow" /\ ~InRange(height[p], writer.logical)
  BY DEF GrowLink
<1>2. /\ b \in linked /\ p \in PageAddress \ linked /\ linked \subseteq PageAddress
      /\ entry[p] = [i \in Digits |-> Unassigned]
      /\ height[p] = height[b] + 1 /\ height[root] <= height[b]
      /\ height[b] \in Heights /\ height[root] \in Heights /\ height[p] \in Heights
      /\ ~InRange(height[root], writer.logical)
      /\ writer.logical \in Logical /\ writer.physical \in Physical
  BY <1>1, WriterFacts DEF WriterPlace, Allocated, TypeOK
<1>3. Top = b /\ Top' = p
  BY <1>1 DEF Top, Growing
<1>4. /\ \A a \in linked : height[a] \in Heights /\ height[a] <= height[b]
      /\ \A a \in linked : height[p] # height[a] /\ height[p] > height[a] /\ ~(height[a] > height[p])
                           /\ height[a] <= height[p]
      /\ \A k \in Heights : k > height[p] => k > height[b]
      /\ height[p] > height[b] /\ height[p] > height[root] /\ height[root] <= height[p]
      /\ height[p] > 0
  <2>1. \A a \in linked : height[a] \in Heights /\ height[a] <= height[b]
    BY <1>2, <1>3 DEF Allocated, TypeOK
  <2>2. height[p] > height[b] /\ height[b] <= height[p]
    BY <1>2 DEF Heights
  <2>3. \A k \in Heights : k > height[p] => k > height[b]
    BY <1>2, <2>2, HeightOrder
  <2>4. height[p] > 0
    BY <1>2 DEF Heights
  <2> QED
    <3>1. \A a \in linked : height[p] > height[a] /\ height[a] <= height[p]
      <4> SUFFICES ASSUME NEW a \in linked
                   PROVE  height[p] > height[a] /\ height[a] <= height[p]
        OBVIOUS
      <4>1. /\ height[a] \in Heights /\ height[b] \in Heights
            /\ height[a] <= height[b] /\ height[p] = height[b] + 1
        BY <1>2, <2>1
      <4>2. height[b] + 1 > height[a] /\ height[a] <= height[b] + 1
        BY <4>1, HeightOrder
      <4> QED
        BY <4>1, <4>2
    <3>2. height[p] > height[root] /\ height[root] <= height[p]
      BY <1>2 DEF Heights
    <3>3. \A a \in linked : height[p] # height[a] /\ ~(height[a] > height[p])
      BY <1>2, <2>1, <3>1, HeightOrder
    <3> QED
      BY <2>1, <2>2, <2>3, <2>4, <3>1, <3>2, <3>3
<1>5. /\ entry'[p][0] = b /\ \A i \in Digits : i # 0 => entry'[p][i] = Unassigned
      /\ prefix'[p] = ZeroDigits /\ b # Unassigned
      /\ \A a \in linked : entry'[a] = entry[a] /\ prefix'[a] = prefix[a]
  BY <1>1, <1>2 DEF TypeOK
<1>6. \A a \in linked, k \in Heights : k > height[b] => prefix[a][k] = 0
  BY <1>3 DEF Allocated
<1>7. \A k \in Heights : ZeroDigits[k] = 0
  BY DEF ZeroDigits
<1>8. Allocated'
  <2>1. (\A a \in PageAddress : height[a] # -1 <=> a < next_physical)'
    BY <1>1 DEF Allocated
  <2>2. (\A a \in linked : height[a] # -1 /\ height[a] <= height[Top])'
    <3>1. height[p] # -1 /\ height[p] <= height[p]
      BY <1>2, HeightOrder
    <3>2. \A a \in linked : height[a] # -1 /\ height[a] <= height[p]
      BY <1>4 DEF Allocated
    <3> QED
      BY <1>1, <1>3, <3>1, <3>2
  <2>3. (root \in linked /\ Top \in linked)'
    BY <1>1, <1>3 DEF Allocated
  <2>4. (\A k \in Heights : k > height[root] => prefix[root][k] = 0)'
    BY <1>1, <1>5 DEF Allocated
  <2>5. (\A a \in linked, k \in Heights : k > height[Top] => prefix[a][k] = 0)'
    BY <1>1, <1>3, <1>4, <1>5, <1>6, <1>7
  <2> QED
    BY <2>1, <2>2, <2>3, <2>4, <2>5 DEF Allocated
<1>9. LeafHolds'
  BY <1>1, <1>4, <1>5 DEF LeafHolds, Covers, SamePrefix
<1>10. BranchLeads'
  <2>1. ASSUME NEW a \in linked', NEW i \in Digits, height[a] > 0, entry'[a][i] # Unassigned
        PROVE  /\ entry'[a][i] \in linked'
               /\ height[entry'[a][i]] = height[a] - 1
               /\ prefix'[entry'[a][i]][height[a]] = i
               /\ SamePrefix(height[a], prefix'[a], prefix'[entry'[a][i]])
    <3>1. CASE a = p
      <4>1. i = 0 /\ entry'[a][i] = b
        BY <1>5, <2>1, <3>1
      <4>2. height[b] = height[p] - 1
        BY <1>2 DEF Heights
      <4>3. \A k \in Heights : k > height[b] => prefix'[b][k] = 0
        <5>1. prefix'[b] = prefix[b]
          BY <1>2, <1>5
        <5> QED
          BY <1>2, <1>6, <5>1
      <4> QED
        BY <1>1, <1>2, <1>4, <1>5, <1>7, <3>1, <4>1, <4>2, <4>3 DEF SamePrefix
    <3>2. CASE a \in linked
      <4>1. entry'[a][i] = entry[a][i]
        BY <1>5, <3>2
      <4>2. /\ entry[a][i] \in linked
            /\ height[entry[a][i]] = height[a] - 1
            /\ prefix[entry[a][i]][height[a]] = i
            /\ SamePrefix(height[a], prefix[a], prefix[entry[a][i]])
        BY <2>1, <3>2, <4>1 DEF BranchLeads
      <4> QED
        BY <1>1, <1>5, <3>2, <4>1, <4>2
    <3> QED
      BY <1>1, <3>1, <3>2
  <2>2. height' = height
    BY <1>1
  <2> HIDE DEF IInv
  <2> QED
    BY <2>1, <2>2 DEF BranchLeads, SamePrefix
<1>11. EmptyMeansUnassigned'
  <2>1. ASSUME NEW l \in Logical, entry'[p][l[height[p]]] = Unassigned
        PROVE  table[l] = Unassigned
    <3>1. l[height[p]] \in Digits /\ l[height[p]] # 0
      <4>1. l \in [Heights -> Digits] /\ height[p] \in Heights
        BY <1>2
      <4>2. entry'[p][0] # Unassigned
        BY <1>5
      <4> QED
        BY <2>1, <4>1, <4>2
    <3>2. ~InRange(height[root], l)
      BY <1>2, <1>4, <3>1 DEF InRange
    <3> QED
      BY <3>2 DEF BeyondUnassigned
  <2> QED
    BY <1>1, <1>5, <2>1 DEF EmptyMeansUnassigned, Covers, SamePrefix
<1>12. BeyondUnassigned'
  BY <1>1 DEF BeyondUnassigned, InRange
<1>13. OnePage'
  BY <1>1, <1>4, <1>5 DEF OnePage, SamePrefix
<1>14. UnderItsAncestors'
  <2>1. ASSUME NEW a \in linked', NEW c \in linked', height[a] > height[c],
               SamePrefix(height[a], prefix'[a], prefix'[c])
        PROVE  entry'[a][prefix'[c][height[a]]] # Unassigned
    <3>1. CASE a = p /\ c \in linked
      <4>1. prefix'[c][height[a]] = 0
        <5>1. prefix'[c] = prefix[c] /\ height[p] > height[b] /\ height[p] \in Heights
          BY <1>2, <1>4, <1>5, <3>1
        <5> QED
          BY <1>6, <3>1, <5>1
      <4> QED
        BY <1>5, <3>1, <4>1
    <3>2. CASE a \in linked /\ c \in linked
      <4>1. entry'[a] = entry[a] /\ prefix'[a] = prefix[a] /\ prefix'[c] = prefix[c]
        BY <1>5, <3>2
      <4> QED
        BY <2>1, <3>2, <4>1 DEF UnderItsAncestors
    <3>3. CASE c = p
      BY <1>1, <1>2, <1>4, <2>1, <3>3, HeightFacts
    <3> QED
      BY <1>1, <3>1, <3>2, <3>3
  <2> QED
    BY <1>1, <2>1 DEF UnderItsAncestors, SamePrefix
<1>15. ReaderPlace'
  BY <1>1, <1>5, ReadersStay
<1>16. WriterPlace'
  BY <1>1, <1>2, <1>4, <1>5, <1>7 DEF WriterPlace, InRange
<1> QED
  BY <1>8, <1>9, <1>10, <1>11, <1>12, <1>13, <1>14, <1>15, <1>16


(***************************************************************************)
(* Storing the mapping: the entry belongs to this address alone, and every *)
(* page above the leaf leads to it.                                        *)
(***************************************************************************)
LEMMA WriteLeafStep ==
    ASSUME TypeOK, IInv, WriteLeaf
    PROVE  IInv'
<1> USE Constants DEF IInv
<1> DEFINE b == writer.base
           l == writer.logical
<1>1. /\ UNCHANGED <<height, root, next_physical, reader, linked, prefix>>
      /\ writer.pc = "descend" /\ height[b] = 0
      /\ entry' = [entry EXCEPT ![b][l[0]] = writer.physical]
      /\ table' = [table EXCEPT ![l] = writer.physical]
      /\ writer' = Idle
  BY DEF WriteLeaf, Index
<1>2. /\ b \in linked /\ b \in PageAddress /\ linked \subseteq PageAddress
      /\ l \in Logical /\ l \in [Heights -> Digits] /\ Logical \subseteq [Heights -> Digits]
      /\ \A k \in Heights : k > 0 => prefix[b][k] = l[k]
      /\ writer.physical # Unassigned
  BY <1>1, WriterFacts DEF WriterPlace, Covers, SamePrefix, TypeOK
<1>3. /\ \A a \in linked : a # b => entry'[a] = entry[a]
      /\ entry'[b][l[0]] = writer.physical
      /\ \A i \in Digits : i # l[0] => entry'[b][i] = entry[b][i]
      /\ table'[l] = writer.physical
      /\ \A m \in Logical : m # l => table'[m] = table[m]
  BY <1>1, <1>2 DEF TypeOK
<1>4. Top = root /\ Top' = root
  BY <1>1 DEF Top, Growing
<1>5. Allocated'
  BY <1>1, <1>4 DEF Allocated
<1>6. LeafHolds'
  <2>1. ASSUME NEW a \in linked, NEW m \in Logical, height[a] = 0, Covers(a, m)
        PROVE  entry'[a][m[0]] = table'[m]
    <3>1. \A k \in Heights : k > 0 => prefix[a][k] = m[k]
      BY <2>1 DEF Covers, SamePrefix
    <3>2. entry[a][m[0]] = table[m]
      BY <2>1 DEF LeafHolds
    <3>3. CASE m = l
      <4>1. a = b
        BY <1>1, <1>2, <2>1, <3>1, <3>3 DEF OnePage, SamePrefix
      <4> QED
        BY <1>3, <3>3, <4>1
    <3>4. CASE m # l /\ a # b
      BY <1>3, <3>2, <3>4
    <3>5. CASE m # l /\ a = b
      <4>1. m[0] # l[0]
        <5>1. SUFFICES ASSUME m[0] = l[0] PROVE m = l
          BY <3>5
        <5>2. \A k \in Heights : k = 0 \/ k > 0
          BY HeightFacts
        <5>3. \A k \in Heights : m[k] = l[k]
          BY <1>2, <3>1, <3>5, <5>1, <5>2
        <5>4. m \in [Heights -> Digits]
          BY <1>2, <2>1
        <5> QED
          BY <1>2, <5>3, <5>4
      <4>2. m[0] \in Digits
        BY <1>2, <2>1
      <4> QED
        BY <1>3, <3>2, <3>5, <4>1, <4>2
    <3> QED
      BY <3>3, <3>4, <3>5
  <2> QED
    BY <1>1, <2>1 DEF LeafHolds, Covers, SamePrefix
<1>7. \A a \in linked : height[a] > 0 => a # b
  BY <1>1, HeightFacts
<1>8. BranchLeads'
  BY <1>1, <1>3, <1>7 DEF BranchLeads, SamePrefix
<1>9. EmptyMeansUnassigned'
  <2>1. ASSUME NEW a \in linked, NEW m \in Logical, height[a] > 0, Covers(a, m),
               entry'[a][m[height[a]]] = Unassigned
        PROVE  table'[m] = Unassigned
    <3>1. entry[a][m[height[a]]] = Unassigned
      BY <1>3, <1>7, <2>1
    <3>2. m # l
      <4> SUFFICES ASSUME m = l PROVE FALSE
        OBVIOUS
      <4>1. height[a] \in Heights
        BY <2>1 DEF Allocated, TypeOK
      <4>2. \A k \in Heights : k > height[a] => k > 0
        BY <2>1, <4>1 DEF Heights
      <4>3. SamePrefix(height[a], prefix[a], prefix[b])
        BY <1>2, <2>1, <4>2 DEF Covers, SamePrefix
      <4>4. entry[a][prefix[b][height[a]]] # Unassigned
        BY <1>1, <1>2, <2>1, <4>3 DEF UnderItsAncestors
      <4>5. prefix[b][height[a]] = m[height[a]]
        BY <1>2, <2>1, <4>1
      <4> QED
        BY <3>1, <4>4, <4>5
    <3> QED
      BY <1>3, <2>1, <3>1, <3>2 DEF EmptyMeansUnassigned
  <2> QED
    BY <1>1, <2>1 DEF EmptyMeansUnassigned, Covers, SamePrefix
<1>10. BeyondUnassigned'
  <2>1. InRange(height[root], l)
    <3>1. height[root] \in Heights
      BY DEF Allocated, TypeOK
    <3>2. \A k \in Heights : k > height[root] => k > 0
      BY <3>1 DEF Heights
    <3> QED
      BY <1>2, <1>4, <3>2 DEF Allocated, InRange
  <2> QED
    BY <1>1, <1>3, <2>1 DEF BeyondUnassigned, InRange
<1>11. OnePage'
  BY <1>1 DEF OnePage, SamePrefix
<1>12. UnderItsAncestors'
  <2>1. ASSUME NEW a \in linked, NEW c \in linked, height[a] > height[c]
        PROVE  entry'[a] = entry[a]
    <3>1. height[a] > 0
      <4>1. height[a] \in Heights /\ height[c] \in Heights
        BY DEF Allocated, TypeOK
      <4> QED
        BY <2>1, <4>1 DEF Heights
    <3> QED
      BY <1>3, <1>7, <3>1
  <2> QED
    BY <1>1, <2>1 DEF UnderItsAncestors, SamePrefix
<1>13. ReaderPlace'
  BY <1>1, ReadersStay
<1>14. WriterPlace'
  BY <1>1 DEF WriterPlace
<1> QED
  BY <1>5, <1>6, <1>8, <1>9, <1>10, <1>11, <1>12, <1>13, <1>14

(***************************************************************************)
(* Linking a page below a branch: it takes the place of an empty entry, so *)
(* nothing it covers was assigned and no other page stands for it.         *)
(***************************************************************************)
LEMMA LinkBelowStep ==
    ASSUME TypeOK, IInv, LinkBelow
    PROVE  IInv'
<1> USE Constants DEF IInv
<1> DEFINE b == writer.base
           p == writer.page
           l == writer.logical
           i == l[height[b]]
<1>1. /\ UNCHANGED <<height, root, next_physical, reader, table>>
      /\ writer.pc = "link"
      /\ entry' = [entry EXCEPT ![b][i] = p]
      /\ linked' = linked \cup {p}
      /\ prefix' = [prefix EXCEPT ![p] = l]
      /\ writer' = Locals("descend", l, writer.physical, p, Unassigned)
  BY DEF LinkBelow, Index
<1>2. /\ b \in linked /\ p \in PageAddress \ linked /\ linked \subseteq PageAddress
      /\ entry[p] = [j \in Digits |-> Unassigned]
      /\ height[b] > 0 /\ height[p] = height[b] - 1 /\ entry[b][i] = Unassigned
      /\ height[b] \in Heights /\ height[root] \in Heights /\ height[p] \in Heights
      /\ i \in Digits /\ l \in Logical /\ l \in [Heights -> Digits]
      /\ writer.physical \in Physical /\ p # Unassigned
  BY <1>1, WriterFacts DEF WriterPlace, Allocated, TypeOK, Below, Index
<1>3. \A k \in Heights : k > height[b] => prefix[b][k] = l[k]
  BY <1>1 DEF WriterPlace, Covers, SamePrefix
<1>4. /\ \A a \in linked : a # b => entry'[a] = entry[a]
      /\ entry'[b][i] = p
      /\ \A j \in Digits : j # i => entry'[b][j] = entry[b][j]
      /\ entry'[p] = entry[p] /\ \A j \in Digits : entry'[p][j] = Unassigned
      /\ prefix'[p] = l
      /\ \A a \in linked : prefix'[a] = prefix[a]
  <2>1. /\ entry \in [PageAddress -> [Digits -> Nat]]
        /\ prefix \in [PageAddress -> [Heights -> Digits]]
    BY DEF TypeOK
  <2> HIDE DEF IInv, i
  <2>2. /\ \A a \in linked : a # b => entry'[a] = entry[a]
        /\ entry'[b] = [entry[b] EXCEPT ![i] = p]
        /\ entry'[p] = entry[p]
    BY <1>1, <1>2, <2>1
  <2>3. prefix'[p] = l /\ \A a \in linked : prefix'[a] = prefix[a]
    BY <1>1, <1>2, <2>1
  <2>4. entry[b] \in [Digits -> Nat] /\ i \in Digits
    BY <1>2, <2>1
  <2>5. entry'[b][i] = p /\ \A j \in Digits : j # i => entry'[b][j] = entry[b][j]
    BY <2>2, <2>4
  <2> QED
    BY <1>2, <2>2, <2>3, <2>5
<1>5. /\ \A k \in Heights : k > height[p] <=> k = height[b] \/ k > height[b]
      /\ height[b] > height[p] /\ ~(height[p] > height[p])
      /\ \A a \in linked : height[a] \in Heights
  <2>1. \A k \in Heights : k > height[p] <=> k = height[b] \/ k > height[b]
    <3>1. \A k \in Heights : k > height[b] - 1 <=> k = height[b] \/ k > height[b]
      BY <1>2, HeightFacts
    <3> QED
      BY <1>2, <3>1
  <2>2. height[b] > height[p] /\ ~(height[p] > height[p])
    BY <1>2 DEF Heights
  <2>3. \A a \in linked : height[a] \in Heights
    BY <1>2 DEF Allocated, TypeOK
  <2> QED
    BY <2>1, <2>2, <2>3
<1>6. Top = root /\ Top' = root
  BY <1>1 DEF Top, Growing
<1>7. Allocated'
  <2>1. height[p] <= height[root]
    <3>1. height[b] <= height[root]
      BY <1>2, <1>6 DEF Allocated
    <3> QED
      BY <1>2, <3>1 DEF Heights
  <2>2. ASSUME NEW k \in Heights, k > height[root]
        PROVE  prefix'[p][k] = 0
    <3>1. height[b] <= height[root] /\ prefix[b][k] = 0
      BY <1>2, <1>6, <2>2 DEF Allocated
    <3>2. k > height[b]
      BY <1>2, <2>2, <3>1, HeightOrder
    <3> QED
      BY <1>3, <1>4, <3>1, <3>2
  <2>3. (\A a \in PageAddress : height[a] # -1 <=> a < next_physical)'
    BY <1>1 DEF Allocated
  <2>4. (\A a \in linked : height[a] # -1 /\ height[a] <= height[Top])'
    <3>1. height[p] # -1
      BY <1>2, HeightOrder
    <3> QED
      BY <1>1, <1>6, <2>1, <3>1 DEF Allocated
  <2>5. (root \in linked /\ Top \in linked)'
    BY <1>1, <1>6 DEF Allocated
  <2>6. (\A k \in Heights : k > height[root] => prefix[root][k] = 0)'
    BY <1>1, <1>4 DEF Allocated
  <2>7. (\A a \in linked, k \in Heights : k > height[Top] => prefix[a][k] = 0)'
    BY <1>1, <1>4, <1>6, <2>2 DEF Allocated
  <2> QED
    BY <2>3, <2>4, <2>5, <2>6, <2>7 DEF Allocated
<1>8. ASSUME NEW m \in Logical, SamePrefix(height[p], l, m)
      PROVE  table[m] = Unassigned
  <2>1. m[height[b]] = i /\ \A k \in Heights : k > height[b] => l[k] = m[k]
    BY <1>2, <1>5, <1>8 DEF SamePrefix
  <2>2. Covers(b, m)
    BY <1>3, <2>1 DEF Covers, SamePrefix
  <2> QED
    BY <1>2, <2>1, <2>2 DEF EmptyMeansUnassigned
<1>9. LeafHolds'
  <2>1. ASSUME NEW m \in Logical, height[p] = 0, SamePrefix(height[p], l, m)
        PROVE  entry'[p][m[0]] = table[m]
    BY <1>4, <1>8, <2>1
  <2>2. ASSUME NEW a \in linked, NEW m \in Logical, height[a] = 0,
               SamePrefix(height[a], prefix[a], m)
        PROVE  entry'[a][m[0]] = table[m]
    <3>1. a # b
      BY <1>2, <2>2, HeightFacts
    <3> QED
      BY <1>4, <2>2, <3>1 DEF LeafHolds, Covers
  <2>3. /\ linked' = linked \cup {p} /\ height' = height /\ table' = table
        /\ prefix'[p] = l /\ \A a \in linked : prefix'[a] = prefix[a]
    BY <1>1, <1>4
  <2> HIDE DEF IInv, b, p, l
  <2>4. ASSUME NEW a \in linked', NEW m \in Logical, height'[a] = 0,
               SamePrefix(height'[a], prefix'[a], m)
        PROVE  entry'[a][m[0]] = table'[m]
    BY <2>1, <2>2, <2>3, <2>4
  <2> QED
    BY <2>4 DEF LeafHolds, Covers, SamePrefix
<1>10. BranchLeads'
  <2>1. ASSUME NEW a \in linked', NEW j \in Digits, height[a] > 0, entry'[a][j] # Unassigned
        PROVE  /\ entry'[a][j] \in linked'
               /\ height[entry'[a][j]] = height[a] - 1
               /\ prefix'[entry'[a][j]][height[a]] = j
               /\ SamePrefix(height[a], prefix'[a], prefix'[entry'[a][j]])
    <3>1. a \in linked
      BY <1>1, <1>4, <2>1
    <3>2. CASE a = b /\ j = i
      <4>1. entry'[a][j] = p /\ p \in linked' /\ prefix'[a] = prefix[b]
        BY <1>1, <1>2, <1>4, <3>2
      <4>2. SamePrefix(height[b], prefix[b], l)
        BY <1>3 DEF SamePrefix
      <4>3. /\ height[p] = height[b] - 1 /\ prefix'[p] = l /\ l[height[b]] = j
            /\ a = b
        BY <1>2, <1>4, <3>2
      <4>4. /\ height[entry'[a][j]] = height[a] - 1
            /\ prefix'[entry'[a][j]][height[a]] = j
        <5> HIDE DEF IInv, b, p, l
        <5> QED BY <4>1, <4>3
      <4>5. SamePrefix(height[a], prefix'[a], prefix'[entry'[a][j]])
        <5> HIDE DEF IInv, b, p, l
        <5> QED BY <4>1, <4>2, <4>3
      <4> QED
        BY <4>1, <4>4, <4>5
    <3>3. CASE ~(a = b /\ j = i)
      <4>1. entry'[a][j] = entry[a][j]
        BY <1>4, <3>1, <3>3
      <4>2. /\ entry[a][j] \in linked
            /\ height[entry[a][j]] = height[a] - 1
            /\ prefix[entry[a][j]][height[a]] = j
            /\ SamePrefix(height[a], prefix[a], prefix[entry[a][j]])
        BY <2>1, <3>1, <4>1 DEF BranchLeads
      <4>3. /\ linked \subseteq linked' /\ prefix'[a] = prefix[a]
            /\ prefix'[entry[a][j]] = prefix[entry[a][j]]
        BY <1>1, <1>4, <3>1, <4>2
      <4> HIDE DEF IInv, b, p, l
      <4> QED
        BY <4>1, <4>2, <4>3
    <3> QED
      BY <3>2, <3>3
  <2>2. height' = height
    BY <1>1
  <2> HIDE DEF IInv
  <2> QED
    BY <2>1, <2>2 DEF BranchLeads, SamePrefix
<1>11. EmptyMeansUnassigned'
  <2>1. ASSUME NEW m \in Logical, SamePrefix(height[p], l, m)
        PROVE  table[m] = Unassigned
    BY <1>8, <2>1
  <2>2. ASSUME NEW a \in linked, NEW m \in Logical, height[a] > 0,
               SamePrefix(height[a], prefix[a], m), entry'[a][m[height[a]]] = Unassigned
        PROVE  table[m] = Unassigned
    <3>1. m[height[a]] \in Digits
      BY <1>5, <2>2
    <3>2. entry[a][m[height[a]]] = Unassigned
      BY <1>2, <1>4, <2>2, <3>1
    <3> QED
      BY <2>2, <3>2 DEF EmptyMeansUnassigned, Covers
  <2>3. /\ linked' = linked \cup {p} /\ height' = height /\ table' = table
        /\ prefix'[p] = l /\ \A a \in linked : prefix'[a] = prefix[a]
    BY <1>1, <1>4
  <2> HIDE DEF IInv, b, p, l
  <2>4. ASSUME NEW a \in linked', NEW m \in Logical, height'[a] > 0,
               SamePrefix(height'[a], prefix'[a], m), entry'[a][m[height'[a]]] = Unassigned
        PROVE  table'[m] = Unassigned
    BY <2>1, <2>2, <2>3, <2>4
  <2> QED
    BY <2>4 DEF EmptyMeansUnassigned, Covers, SamePrefix
<1>12. BeyondUnassigned'
  BY <1>1 DEF BeyondUnassigned, InRange
<1>13. ASSUME NEW c \in linked, height[b] > height[c], SamePrefix(height[p], l, prefix[c])
       PROVE  FALSE
  <2>1. prefix[c][height[b]] = i /\ \A k \in Heights : k > height[b] => l[k] = prefix[c][k]
    BY <1>2, <1>5, <1>13 DEF SamePrefix
  <2>2. SamePrefix(height[b], prefix[b], prefix[c])
    BY <1>3, <2>1 DEF SamePrefix
  <2> QED
    <3>1. entry[b][prefix[c][height[b]]] # Unassigned
      BY <1>2, <1>13, <2>2 DEF UnderItsAncestors
    <3> QED
      BY <1>2, <2>1, <3>1
<1>14. OnePage'
  <2>1. ASSUME NEW c \in linked, height[c] = height[p],
               \/ SamePrefix(height[p], l, prefix[c])
               \/ SamePrefix(height[p], prefix[c], l)
        PROVE  FALSE
    BY <1>5, <1>13, <2>1 DEF SamePrefix
  <2>2. ASSUME NEW a \in linked', NEW c \in linked', height[a] = height[c],
               SamePrefix(height[a], prefix'[a], prefix'[c])
        PROVE  a = c
    BY <1>1, <1>4, <2>1, <2>2 DEF OnePage
  <2> QED
    BY <1>1, <2>2 DEF OnePage, SamePrefix
<1>15. UnderItsAncestors'
  <2>1. ASSUME NEW a \in linked', NEW c \in linked', height[a] > height[c],
               SamePrefix(height[a], prefix'[a], prefix'[c])
        PROVE  entry'[a][prefix'[c][height[a]]] # Unassigned
    <3>1. CASE a = p /\ c \in linked
      <4>1. height[b] > height[c]
        BY <1>2, <1>5, <2>1, <3>1 DEF Heights
      <4> QED
        BY <1>4, <1>13, <2>1, <3>1, <4>1
    <3>2. CASE a \in linked /\ c = p
      <4>1. height[a] = height[b] \/ height[a] > height[b]
        BY <1>5, <2>1, <3>2
      <4>2. SamePrefix(height[a], prefix[a], prefix[b])
        <5>1. \A k \in Heights : k > height[a] => prefix[a][k] = l[k]
          BY <1>4, <2>1, <3>2 DEF SamePrefix
        <5>2. \A k \in Heights : k > height[a] => k > height[b]
          BY <1>2, <1>5, <3>2, <4>1 DEF Heights
        <5> QED
          BY <1>3, <5>1, <5>2 DEF SamePrefix
      <4>3. CASE height[a] = height[b]
        <5>1. a = b
          BY <1>2, <3>2, <4>2, <4>3 DEF OnePage
        <5> QED
          BY <1>2, <1>4, <3>2, <5>1
      <4>4. CASE height[a] > height[b]
        <5>1. a # b
          BY <1>2, <4>4, HeightOrder
        <5>2. prefix'[c][height[a]] = prefix[b][height[a]]
          BY <1>3, <1>4, <1>5, <3>2, <4>4
        <5>3. entry[a][prefix[b][height[a]]] # Unassigned
          BY <1>2, <3>2, <4>2, <4>4 DEF UnderItsAncestors
        <5> QED
          BY <1>4, <3>2, <5>1, <5>2, <5>3
      <4> QED
        BY <4>1, <4>3, <4>4
    <3>3. CASE a \in linked /\ c \in linked
      <4>1. entry[a][prefix[c][height[a]]] # Unassigned
        BY <1>4, <2>1, <3>3 DEF UnderItsAncestors
      <4>2. prefix'[c][height[a]] \in Digits
        <5>1. prefix'[c] = prefix[c] /\ c \in PageAddress /\ height[a] \in Heights
          BY <1>2, <1>4, <1>5, <3>3
        <5>2. prefix[c] \in [Heights -> Digits]
          BY <5>1 DEF TypeOK
        <5> QED
          BY <5>1, <5>2
      <4> QED
        BY <1>2, <1>4, <3>3, <4>1, <4>2
    <3>4. ~(a = p /\ c = p)
      BY <1>5, <2>1
    <3> QED
      BY <1>1, <3>1, <3>2, <3>3, <3>4
  <2> QED
    BY <1>1, <2>1 DEF UnderItsAncestors, SamePrefix
<1>16. ReaderPlace'
  BY <1>1, <1>4, ReadersStay
<1>17. WriterPlace'
  <2>1. /\ writer'.pc = "descend" /\ writer'.base = p /\ writer'.logical = l
        /\ writer'.physical = writer.physical
    BY <1>1
  <2>2. p \in linked' /\ \A k \in Heights : k > height'[p] => prefix'[p][k] = l[k]
    BY <1>1, <1>4
  <2> QED
    BY <1>2, <2>1, <2>2 DEF WriterPlace, Covers, SamePrefix
<1> QED
  BY <1>7, <1>9, <1>10, <1>11, <1>12, <1>14, <1>15, <1>16, <1>17

-------------------------------------------------------------------------------
(* The theorems *)

LEMMA InvInit == Init => IInv
<1> USE Constants DEF Init
<1> SUFFICES ASSUME Init PROVE IInv
  OBVIOUS
<1>1. /\ linked = {1} /\ root = 1 /\ Top = 1 /\ height[1] = 0 /\ prefix[1] = ZeroDigits
      /\ entry[1] = [i \in Digits |-> Unassigned]
      /\ writer.pc = "idle" /\ \A r \in Readers : reader[r].pc = "ready"
  BY DEF Top, Growing
<1>2. Allocated
  <2>1. \A a \in PageAddress : height[a] # -1 <=> a < 2
    BY DEF PageAddress
  <2>2. \A k \in Heights : ZeroDigits[k] = 0
    BY DEF ZeroDigits
  <2> QED
    BY <1>1, <2>1, <2>2 DEF Allocated
<1>3. LeafHolds /\ BranchLeads /\ EmptyMeansUnassigned /\ BeyondUnassigned
  BY <1>1 DEF LeafHolds, BranchLeads, EmptyMeansUnassigned, BeyondUnassigned
<1>4. OnePage /\ UnderItsAncestors
  BY <1>1 DEF OnePage, UnderItsAncestors
<1>5. WriterPlace /\ ReaderPlace
  BY <1>1 DEF WriterPlace, ReaderPlace
<1> QED
  BY <1>2, <1>3, <1>4, <1>5 DEF IInv

LEMMA InvStep ==
    ASSUME TypeOK, IInv, [Next]_vars
    PROVE  IInv'
<1>1. CASE AssignStep
  BY <1>1, CursorSteps, CreateSteps, GrowLinkStep, PublishStep, WriteLeafStep,
     LinkBelowStep DEF AssignStep
<1>2. CASE \E l \in Logical, p \in Physical : BeginAssign(l, p)
  BY <1>2, CursorSteps
<1>3. CASE \E r \in Readers : LookupStep(r) \/ \E l \in Logical : BeginLookup(r, l)
  BY <1>3, ReaderSteps
<1>4. CASE UNCHANGED vars
  BY <1>4 DEF vars, IInv, Allocated, LeafHolds, BranchLeads, EmptyMeansUnassigned,
              BeyondUnassigned, OnePage, UnderItsAncestors, WriterPlace, ReaderPlace,
              Top, Growing, Covers, SamePrefix, InRange, Below, Index
<1> QED
  BY <1>1, <1>2, <1>3, <1>4 DEF Next

(***************************************************************************)
(* Whatever the interleaving of one assignment with any number of lookups, *)
(* the variables keep their types: no page outside the allocated ones is   *)
(* named by the root, by an entry or by a cursor.                          *)
(***************************************************************************)
THEOREM TypeCorrect == Spec => []TypeOK
<1>1. Init => TypeOK /\ IInv
  BY TypeInit, InvInit
<1>2. TypeOK /\ IInv /\ [Next]_vars => TypeOK' /\ IInv'
  BY TypeStep, InvStep
<1> QED
  BY <1>1, <1>2, PTL DEF Spec

(***************************************************************************)
(* The pages always form one radix tree that holds exactly the table: one  *)
(* page per prefix, reachable from every page above it, a leaf entry equal *)
(* to what was assigned, an empty entry only above unassigned addresses.   *)
(***************************************************************************)
THEOREM TreeInvariant == Spec => []IInv
<1>1. Init => TypeOK /\ IInv
  BY TypeInit, InvInit
<1>2. TypeOK /\ IInv /\ [Next]_vars => TypeOK' /\ IInv'
  BY TypeStep, InvStep
<1> QED
  BY <1>1, <1>2, PTL DEF Spec


-------------------------------------------------------------------------------
(* The abstract table *)

View == [r \in Readers |-> LookupView(r)]

LEMMA ViewInit == Init => Table!Init
BY DEF Init, Table!Init, LookupView, Table!Ready, Unassigned

(***************************************************************************)
(* A step of the writer changes no answer a lookup has already got.        *)
(***************************************************************************)
LEMMA WriterKeepsViews ==
    ASSUME TypeOK, IInv, AssignStep \/ \E l \in Logical, p \in Physical : BeginAssign(l, p)
    PROVE  View' = View
<1> USE Constants
<1>1. reader' = reader
  BY DEF AssignStep, BeginAssign, AssignReadRoot, GrowCreate, GrowLink, Publish, WriteLeaf,
         Descend, CreateBelow, LinkBelow
<1>2. \A a \in linked : height'[a] = height[a]
  <2>1. CASE GrowCreate \/ CreateBelow
    <3>1. next_physical \notin linked /\ linked \subseteq PageAddress
      BY DEF IInv, Allocated, TypeOK
    <3>2. \E h : height' = [height EXCEPT ![next_physical] = h]
      BY <2>1 DEF GrowCreate, CreateBelow, CreatePage
    <3> QED
      BY <3>1, <3>2 DEF TypeOK
  <2>2. CASE ~(GrowCreate \/ CreateBelow)
    <3>1. height' = height
      BY <2>2 DEF AssignStep, BeginAssign, AssignReadRoot, GrowLink, Publish, WriteLeaf,
                  Descend, LinkBelow
    <3> QED
      BY <3>1
  <2> QED
    BY <2>1, <2>2
<1>3. ASSUME NEW r \in Readers
      PROVE  LookupView(r)' = LookupView(r)
  <2>1. CASE reader[r].pc = "range"
    <3>1. reader[r].base \in linked
      BY <2>1 DEF IInv, ReaderPlace
    <3> QED
      BY <1>1, <1>2, <2>1, <3>1 DEF LookupView, InRange
  <2>2. CASE reader[r].pc # "range"
    BY <1>1, <2>2 DEF LookupView
  <2> QED
    BY <2>1, <2>2
<1> QED
  BY <1>3 DEF View


(***************************************************************************)
(* What a step of reader r does to its view; the others keep theirs.       *)
(***************************************************************************)
LEMMA OtherViews ==
    ASSUME TypeOK, NEW r \in Readers, NEW q,
           reader' = [reader EXCEPT ![r] = q], height' = height
    PROVE  View' = [View EXCEPT ![r] = LookupView(r)']
<1>1. ASSUME NEW s \in Readers, s # r
      PROVE  LookupView(s)' = LookupView(s)
  <2>1. reader'[s] = reader[s]
    BY <1>1 DEF TypeOK
  <2> QED
    BY <2>1 DEF LookupView, InRange
<1> QED
  BY <1>1 DEF View

LEMMA ReaderSimulates ==
    ASSUME TypeOK, IInv, WordHeight \notin Heights, NEW r \in Readers,
           \/ \E l \in Logical : BeginLookup(r, l)
           \/ LookupStep(r)
    PROVE  /\ table' = table
           /\ \/ View' = View
              \/ \E l \in Logical :
                    /\ View[r] = Table!Ready
                    /\ View' = [View EXCEPT ![r] = Table!Called(l)]
              \/ \E l \in Logical :
                    /\ View[r] = Table!Called(l)
                    /\ View' = [View EXCEPT ![r] = Table!Answered(l, table[l])]
              \/ /\ View[r].phase = "answered"
                 /\ View' = [View EXCEPT ![r] = Table!Ready]
<1> USE Constants
<1> DEFINE l == reader[r].logical
           base == reader[r].base
<1>1. /\ table' = table /\ height' = height /\ entry' = entry
      /\ View[r] = LookupView(r) /\ View = [View EXCEPT ![r] = LookupView(r)]
  BY DEF BeginLookup, LookupStep, LookupReadRoot, CheckRange, Walk, EndLookup, View
<1>2. ASSUME NEW m \in Logical, BeginLookup(r, m)
      PROVE  /\ View[r] = Table!Ready
             /\ View' = [View EXCEPT ![r] = Table!Called(m)]
  <2>1. reader[r].pc = "ready" /\ reader'[r] = Call("root", m, Unassigned, Unassigned)
    BY <1>2 DEF BeginLookup, TypeOK
  <2>2. View' = [View EXCEPT ![r] = LookupView(r)']
    BY <1>1, <1>2, OtherViews DEF BeginLookup
  <2>3. LookupView(r) = Table!Ready
    BY <2>1 DEF LookupView, Table!Ready
  <2>4. LookupView(r)' = Table!Called(m)
    BY <2>1 DEF LookupView, Table!Called
  <2> QED
    BY <1>1, <2>2, <2>3, <2>4
<1>3. ASSUME LookupReadRoot(r)
      PROVE  \/ View' = View
             \/ /\ l \in Logical /\ View[r] = Table!Called(l)
                /\ View' = [View EXCEPT ![r] = Table!Answered(l, table[l])]
  <2>1. /\ reader[r].pc = "root" /\ l \in Logical
        /\ reader'[r] = Call("range", l, root, Unassigned)
    BY <1>3 DEF LookupReadRoot, TypeOK, IInv, ReaderPlace
  <2>2. View' = [View EXCEPT ![r] = LookupView(r)']
    BY <1>1, <1>3, OtherViews DEF LookupReadRoot
  <2>3. LookupView(r) = Table!Called(l)
    BY <2>1 DEF LookupView, Table!Called
  <2>4. CASE InRange(height[root], l)
    <3>1. LookupView(r)' = Table!Called(l)
      BY <1>1, <2>1, <2>4 DEF LookupView, Table!Called, InRange
    <3> QED
      BY <1>1, <2>2, <2>3, <3>1
  <2>5. CASE ~InRange(height[root], l)
    <3>1. table[l] = Unassigned
      BY <2>1, <2>5 DEF IInv, BeyondUnassigned
    <3>2. LookupView(r)' = Table!Answered(l, table[l])
      BY <1>1, <2>1, <2>5, <3>1 DEF LookupView, Table!Answered, InRange
    <3> QED
      BY <1>1, <2>1, <2>2, <2>3, <3>2
  <2> QED
    BY <2>4, <2>5
<1>4. ASSUME CheckRange(r)
      PROVE  View' = View
  <2>1. /\ reader[r].pc = "range" /\ l \in Logical /\ base \in linked
        /\ height[base] \in Heights /\ IsPage(base)
    BY <1>4 DEF CheckRange, IInv, ReaderPlace, Allocated, TypeOK, IsPage
  <2>2. height[base] < WordHeight
    BY <2>1 DEF Heights
  <2>3. reader' = [reader EXCEPT ![r] =
           IF InRange(height[base], l) THEN Call("walk", l, base, Unassigned)
                                       ELSE Done(l, Unassigned)]
    BY <1>4, <2>1, <2>2 DEF CheckRange, RangeAnswers
  <2>4. View' = [View EXCEPT ![r] = LookupView(r)']
    <3>1. PICK q : reader' = [reader EXCEPT ![r] = q]
      BY <2>3
    <3> QED
      BY <1>1, <3>1, OtherViews
  <2>5. CASE InRange(height[base], l)
    <3>1. reader'[r] = Call("walk", l, base, Unassigned)
      BY <2>3, <2>5 DEF TypeOK
    <3>2. LookupView(r)' = LookupView(r)
      BY <2>1, <2>5, <3>1 DEF LookupView
    <3> QED
      BY <1>1, <2>4, <3>2
  <2>6. CASE ~InRange(height[base], l)
    <3>1. reader'[r] = Done(l, Unassigned)
      BY <2>3, <2>6 DEF TypeOK
    <3>2. LookupView(r)' = LookupView(r)
      BY <2>1, <2>6, <3>1 DEF LookupView
    <3> QED
      BY <1>1, <2>4, <3>2
  <2> QED
    BY <2>5, <2>6
<1>5. ASSUME Walk(r)
      PROVE  \/ View' = View
             \/ /\ l \in Logical /\ View[r] = Table!Called(l)
                /\ View' = [View EXCEPT ![r] = Table!Answered(l, table[l])]
  <2> DEFINE value == entry[base][l[height[base]]]
  <2>1. /\ reader[r].pc = "walk" /\ l \in Logical /\ base \in linked /\ Covers(base, l)
        /\ height[base] \in Heights /\ IsPage(base)
    BY <1>5 DEF Walk, IInv, ReaderPlace, Allocated, TypeOK, IsPage
  <2>2. reader' = [reader EXCEPT ![r] =
           IF value = Unassigned \/ height[base] = 0
           THEN Done(l, value) ELSE Call("walk", l, value, Unassigned)]
    BY <1>5, <2>1 DEF Walk
  <2>3. View' = [View EXCEPT ![r] = LookupView(r)']
    <3>1. PICK q : reader' = [reader EXCEPT ![r] = q]
      BY <2>2
    <3> QED
      BY <1>1, <3>1, OtherViews
  <2>4. LookupView(r) = Table!Called(l)
    BY <2>1 DEF LookupView, Table!Called
  <2>5. CASE value = Unassigned \/ height[base] = 0
    <3>1. value = table[l]
      <4>1. CASE height[base] = 0
        BY <2>1, <4>1 DEF IInv, LeafHolds
      <4>2. CASE height[base] > 0 /\ value = Unassigned
        BY <2>1, <4>2 DEF IInv, EmptyMeansUnassigned
      <4> QED
        BY <2>1, <2>5, <4>1, <4>2, HeightFacts
    <3>2. reader'[r] = Done(l, value)
      BY <2>2, <2>5 DEF TypeOK
    <3>3. LookupView(r)' = Table!Answered(l, table[l])
      BY <3>1, <3>2 DEF LookupView, Table!Answered
    <3> QED
      BY <1>1, <2>1, <2>3, <2>4, <3>3
  <2>6. CASE ~(value = Unassigned \/ height[base] = 0)
    <3>1. reader'[r] = Call("walk", l, value, Unassigned)
      BY <2>2, <2>6 DEF TypeOK
    <3>2. LookupView(r)' = LookupView(r)
      BY <2>1, <3>1 DEF LookupView
    <3> QED
      BY <1>1, <2>3, <3>2
  <2> QED
    BY <2>5, <2>6
<1>6. ASSUME EndLookup(r)
      PROVE  /\ View[r].phase = "answered"
             /\ View' = [View EXCEPT ![r] = Table!Ready]
  <2>1. reader[r].pc = "done" /\ reader'[r] = Ready
    BY <1>6 DEF EndLookup, TypeOK
  <2>2. View' = [View EXCEPT ![r] = LookupView(r)']
    BY <1>1, <1>6, OtherViews DEF EndLookup
  <2>3. LookupView(r).phase = "answered"
    BY <2>1 DEF LookupView
  <2>4. LookupView(r)' = Table!Ready
    BY <2>1 DEF LookupView, Table!Ready
  <2> QED
    BY <1>1, <2>2, <2>3, <2>4
<1> QED
  BY <1>1, <1>2, <1>3, <1>4, <1>5, <1>6 DEF LookupStep

LEMMA TableStep ==
    ASSUME TypeOK, IInv, WordHeight \notin Heights, [Next]_vars
    PROVE  [Table!Next]_(Table!vars)
<1> USE Constants
<1>1. CASE AssignStep \/ \E l \in Logical, p \in Physical : BeginAssign(l, p)
  <2>1. View' = View
    BY <1>1, WriterKeepsViews
  <2>2. CASE WriteLeaf
    <3>1. Table!Assign(writer.logical, writer.physical)
      BY <2>1, <2>2 DEF WriteLeaf, Table!Assign, View
    <3> QED
      BY <2>2, <3>1, WriterFacts DEF WriteLeaf, Table!Next
  <2>3. CASE ~WriteLeaf
    <3>1. table' = table
      BY <1>1, <2>3 DEF AssignStep, BeginAssign, AssignReadRoot, GrowCreate, GrowLink,
                        Publish, Descend, CreateBelow, LinkBelow
    <3> QED
      BY <2>1, <3>1 DEF Table!vars, View
  <2> QED
    BY <2>2, <2>3
<1>2. ASSUME NEW r \in Readers, LookupStep(r) \/ \E l \in Logical : BeginLookup(r, l)
      PROVE  [Table!Next]_(Table!vars)
  BY <1>2, ReaderSimulates DEF Table!Next, Table!vars, Table!Call, Table!Answer, Table!Return, View
<1>3. CASE UNCHANGED vars
  BY <1>3 DEF vars, Table!vars, LookupView, InRange
<1> QED
  BY <1>1, <1>2, <1>3 DEF Next

(***************************************************************************)
(* Lookups that take no lock are linearizable against the assignments of   *)
(* the committing thread, as long as the tree stays below the height at    *)
(* which the range test shifts by the width of a word.                     *)
(***************************************************************************)
THEOREM LookupsLinearizable ==
    ASSUME WordHeight \notin Heights
    PROVE  Spec => Linearizable
<1>1. Init => TypeOK /\ IInv /\ Table!Init
  BY TypeInit, InvInit, ViewInit
<1>2. TypeOK /\ IInv /\ [Next]_vars => TypeOK' /\ IInv' /\ [Table!Next]_(Table!vars)
  BY TypeStep, InvStep, TableStep
<1> QED
  BY <1>1, <1>2, PTL DEF Spec, Linearizable, Table!Spec

-------------------------------------------------------------------------------
(***************************************************************************)
(* The tree against the table.  A path goes down from the root: what holds *)
(* at the root, and of a height if it does of the next higher, holds of    *)
(* all.                                                                    *)
(***************************************************************************)
LEMMA Downwards ==
    ASSUME NEW H \in Nat, NEW S, H \in S, \A h \in 0 .. H - 1 : h + 1 \in S => h \in S
    PROVE  0 .. H \subseteq S
<1> DEFINE R == {ss \in Nat \X Nat : ss[1] < ss[2]}
           T == {n \in Nat : n <= H /\ H - n \notin S}
<1>1. IsWellFoundedOn(R, Nat)
  BY NatLessThanWellFounded DEF OpToRel
<1>2. ASSUME NEW n \in T
      PROVE  n - 1 \in T /\ <<n - 1, n>> \in R
  <2>1. n # 0 /\ n \in Nat /\ n <= H /\ H - n \notin S
    OBVIOUS
  <2>2. n - 1 \in Nat /\ n - 1 <= H /\ H - n \in 0 .. H - 1 /\ H - n + 1 = H - (n - 1)
    BY <2>1
  <2>3. H - (n - 1) \notin S
    BY <2>1, <2>2
  <2> QED
    BY <2>1, <2>2, <2>3
<1>3. \A h \in 0 .. H : h \notin S => H - h \in T
  OBVIOUS
<1>4. T \subseteq Nat
  OBVIOUS
<1> HIDE DEF R, T
<1>5. T = {}
  <2> SUFFICES ASSUME T # {} PROVE FALSE
    OBVIOUS
  <2>1. \E n \in T : \A m \in T : ~(<<m, n>> \in R)
    BY <1>1, <1>4, WFMin, Zenon
  <2> QED
    BY <1>2, <2>1, Zenon
<1> QED
  BY <1>3, <1>5

\* The page of height h on the path f for l, from the one above it.
PageAt(f, l, h) ==
    IF h = height[root] THEN root
    ELSE IF f[h + 1] = Unassigned THEN Unassigned
    ELSE entry[f[h + 1]][l[h + 1]]

IsPath(f, l) == f = [h \in 0 .. height[root] |-> PageAt(f, l, h)]

LEMMA RootHeight ==
    ASSUME TypeOK, IInv
    PROVE  root \in linked /\ height[root] \in Heights /\ height[root] \in Nat
BY Constants DEF TypeOK, IInv, Allocated

\* There is a path, so that the recursive function is one.
LEMMA PathIsPath ==
    ASSUME TypeOK, IInv, NEW l
    PROVE  IsPath(Path(l), l)
<1> DEFINE H == height[root]
           S == {g \in 0 .. H : \E f : \A h \in g .. H : f[h] = PageAt(f, l, h)}
<1>0. H \in Nat
  BY RootHeight
<1>1. H \in S
  <2>1. [h \in {H} |-> root][H] = PageAt([h \in {H} |-> root], l, H)
    BY DEF PageAt
  <2>2. \A h \in H .. H : h = H
    BY <1>0
  <2> QED
    BY <1>0, <2>1, <2>2
<1>2. ASSUME NEW g \in 0 .. H - 1, g + 1 \in S PROVE g \in S
  <2>1. PICK f : \A h \in g + 1 .. H : f[h] = PageAt(f, l, h)
    BY <1>2
  <2> DEFINE e == [h \in g .. H |-> IF h = g THEN PageAt(f, l, g) ELSE f[h]]
  <2>2. ASSUME NEW h \in g .. H PROVE e[h] = PageAt(e, l, h)
    <3>1. h # H => e[h + 1] = f[h + 1]
      BY <1>0
    <3>2. PageAt(e, l, h) = PageAt(f, l, h)
      BY <3>1 DEF PageAt
    <3>3. h # g => h \in g + 1 .. H
      BY <1>0
    <3> QED
      BY <2>1, <3>2, <3>3
  <2>3. g \in 0 .. H
    BY <1>0
  <2> QED
    BY <2>2, <2>3
<1>3. 0 \in S
  <2> HIDE DEF S
  <2>1. 0 .. H \subseteq S
    BY <1>0, <1>1, <1>2, Downwards
  <2> QED
    BY <1>0, <2>1
<1>4. PICK f : \A h \in 0 .. H : f[h] = PageAt(f, l, h)
  BY <1>3
<1> DEFINE e == [h \in 0 .. H |-> f[h]]
<1>5. ASSUME NEW h \in 0 .. H PROVE e[h] = PageAt(e, l, h)
  <2>1. h # H => e[h + 1] = f[h + 1]
    BY <1>0
  <2> QED
    BY <1>4, <2>1 DEF PageAt
<1>6. IsPath(e, l)
  BY <1>5 DEF IsPath
<1>7. Path(l) = CHOOSE p : IsPath(p, l)
  BY DEF Path, IsPath, PageAt
<1> HIDE DEF e
<1> QED
  BY <1>6, <1>7, Zenon

\* The page of a path at a height is that of its address, or there is none and
\* nothing is assigned.
LEMMA PathLeads ==
    ASSUME TypeOK, IInv, NEW l \in Logical, InRange(height[root], l), NEW f, IsPath(f, l),
           NEW h \in 0 .. height[root]
    PROVE  \/ f[h] = Unassigned /\ table[l] = Unassigned
           \/ /\ f[h] # Unassigned /\ f[h] \in linked
              /\ height[f[h]] = h /\ Covers(f[h], l)
<1> DEFINE H == height[root]
           Leads(g) == \/ f[g] = Unassigned /\ table[l] = Unassigned
                       \/ /\ f[g] # Unassigned /\ f[g] \in linked
                          /\ height[f[g]] = g /\ Covers(f[g], l)
           S == {g \in 0 .. H : Leads(g)}
<1>0. /\ H \in Nat /\ H \in Heights /\ root \in linked /\ linked \subseteq PageAddress
      /\ l \in [Heights -> Digits]
      /\ \A g \in 0 .. H : g \in Heights /\ f[g] = PageAt(f, l, g)
  <2>1. /\ H \in Nat /\ H \in Heights /\ root \in linked /\ linked \subseteq PageAddress
        /\ l \in [Heights -> Digits]
    BY RootHeight, Constants DEF TypeOK
  <2>2. ASSUME NEW g \in 0 .. H PROVE g \in Heights
    BY <2>1, Constants DEF Heights
  <2>3. ASSUME NEW g \in 0 .. H PROVE f[g] = PageAt(f, l, g)
    <3>1. f = [k \in 0 .. H |-> PageAt(f, l, k)]
      BY DEF IsPath
    <3> HIDE DEF H
    <3> QED
      BY <3>1, Zenon
  <2> QED
    BY <2>1, <2>2, <2>3
<1>1. H \in S
  <2>1. f[H] = root
    BY <1>0 DEF PageAt
  <2>2. Covers(root, l)
    BY DEF IInv, Allocated, Covers, SamePrefix, InRange
  <2> QED
    BY <1>0, <2>1, <2>2, HeightFacts
<1>2. ASSUME NEW g \in 0 .. H - 1, g + 1 \in S PROVE g \in S
  <2> DEFINE a == f[g + 1]
  <2>1. /\ g \in 0 .. H /\ g # H /\ g \in Heights /\ g + 1 \in Heights
        /\ g + 1 > 0 /\ (g + 1) - 1 = g /\ Leads(g + 1)
    BY <1>0, <1>2
  <2>2. f[g] = IF a = Unassigned THEN Unassigned ELSE entry[a][l[g + 1]]
    BY <1>0, <2>1 DEF PageAt
  <2>3. CASE a = Unassigned
    <3>1. table[l] = Unassigned
      BY <2>1, <2>3, Constants
    <3> QED
      BY <2>1, <2>2, <2>3, <3>1
  <2>4. CASE a # Unassigned
    <3>1. a \in linked /\ height[a] = g + 1 /\ height[a] > 0 /\ Covers(a, l)
      BY <2>1, <2>4
    <3>2. l[g + 1] \in Digits /\ f[g] = entry[a][l[height[a]]]
      BY <1>0, <2>1, <2>2, <2>4, <3>1
    <3> HIDE DEF a
    <3>3. CASE f[g] = Unassigned
      <4>1. table[l] = Unassigned
        BY <3>1, <3>2, <3>3 DEF IInv, EmptyMeansUnassigned
      <4> QED
        BY <2>1, <3>3, <4>1
    <3>4. CASE f[g] # Unassigned
      <4>1. /\ f[g] \in linked /\ height[f[g]] = height[a] - 1
            /\ prefix[f[g]][height[a]] = l[height[a]]
            /\ SamePrefix(height[a], prefix[a], prefix[f[g]])
        BY <3>1, <3>2, <3>4 DEF IInv, BranchLeads
      <4>2. height[f[g]] = g
        BY <2>1, <3>1, <4>1
      <4>3. ASSUME NEW k \in Heights, k > g PROVE prefix[f[g]][k] = l[k]
        <5>1. k = height[a] \/ k > height[a]
          BY <2>1, <3>1, <4>3, Constants
        <5>2. k > height[a] => prefix[f[g]][k] = l[k]
          BY <3>1, <4>1 DEF Covers, SamePrefix
        <5> QED
          BY <4>1, <5>1, <5>2
      <4>4. Covers(f[g], l)
        BY <4>2, <4>3 DEF Covers, SamePrefix
      <4> QED
        BY <2>1, <3>4, <4>1, <4>2, <4>4
    <3> QED
      BY <3>3, <3>4
  <2> QED
    BY <2>3, <2>4
<1>3. h \in S
  <2> HIDE DEF S
  <2> QED
    BY <1>0, <1>1, <1>2, Downwards
<1> QED
  BY <1>3

(***************************************************************************)
(* What a lookup of one thread alone finds from the root is what was       *)
(* assigned, at every step of an obl_address_assign that grows the tree,   *)
(* links pages and moves the root.                                         *)
(***************************************************************************)
THEOREM TreeHolds == Spec => []TreeHoldsTable
<1>1. TypeOK /\ IInv => TreeHoldsTable
  <2> SUFFICES ASSUME TypeOK, IInv, NEW l \in Logical PROVE Resolve(l) = table[l]
    BY DEF TreeHoldsTable
  <2>1. CASE ~InRange(height[root], l)
    BY <2>1 DEF IInv, BeyondUnassigned, Resolve
  <2>2. CASE InRange(height[root], l)
    <3> DEFINE a == Path(l)[0]
    <3>1. 0 \in 0 .. height[root]
      BY RootHeight
    <3>2. \/ a = Unassigned /\ table[l] = Unassigned
          \/ a # Unassigned /\ a \in linked /\ height[a] = 0 /\ Covers(a, l)
      BY <2>2, <3>1, PathIsPath, PathLeads
    <3>3. Resolve(l) = IF a = Unassigned THEN Unassigned ELSE entry[a][l[0]]
      BY <2>2 DEF Resolve
    <3> HIDE DEF a
    <3> QED
      BY <3>2, <3>3 DEF IInv, LeafHolds
  <2> QED
    BY <2>1, <2>2
<1> QED
  BY <1>1, TypeCorrect, TreeInvariant, PTL
===============================================================================
