------------------------ MODULE TransactionsDataProofs ------------------------
(***************************************************************************)
(* Proofs about what the sessions have and what is stored.                 *)
(***************************************************************************)
EXTENDS TransactionsProofs

LOCAL INSTANCE WellFoundedInduction

USE DEF store, current, GoTo

(***************************************************************************)
(* Types of the data, and what a commit may take for granted about it.     *)
(***************************************************************************)
\* The counters and the first objects have addresses from the start.
FirstMapped == \A a \in 1 .. ObjectCount + 2 : map[a] # Unassigned

\* Changed objects are in the read set of the session, and persisted.
ChangedHeld ==
    \A s \in Sessions : \A a \in write_set[s] : map[a] # Unassigned /\ IsObject(view[s][a])

\* What a call works on is persisted, what a commit has yet to write is in the
\* write set, and a refresh has something to read.
LocalsHeld ==
    \A t \in Threads :
        /\ \A a \in frame[t].todo \cup frame[t].changed : map[a] # Unassigned
        /\ frame[t].value \in Values \cup {Nil, Fresh}
        /\ pc[t] \in {"ensure", "mark", "store"} =>
              /\ frame[t].object \in Objects
              /\ IsObject(view[frame[t].session][frame[t].object])
        /\ pc[t] = "write" => frame[t].todo \subseteq write_set[frame[t].session]
        /\ pc[t] = "reread" => Due(t) # {}

\* Only the first objects refer to new ones, and nothing is read that is not
\* persisted.
ViewsHeld ==
    \A s \in Sessions, a \in Address :
        /\ view[s][a] = Fresh => a \in Objects
        /\ map[a] = Unassigned => view[s][a] = Absent

DataInv == TypeOK /\ FirstMapped /\ ChangedHeld /\ LocalsHeld /\ ViewsHeld

(***************************************************************************)
(* Who uses a session, and what its transaction has.                       *)
(***************************************************************************)
UsesInv ==
    /\ \A t \in Threads : pc[t] # "idle" => frame[t].session \in Uses[t]
    /\ \A s \in Sessions :
          /\ owner[s] # None => s \in Uses[owner[s]]
          /\ owner[s] = None => write_set[s] = {}

Counters == {NextLogical, NextPhysical}

-------------------------------------------------------------------------------
\* The first address of an inorder iteration.
LEMMA LeastIn ==
    ASSUME NEW S, S \subseteq Nat, S # {}
    PROVE  Least(S) \in S /\ \A x \in S : Least(S) <= x
<1> DEFINE R == {ss \in Nat \X Nat : ss[1] < ss[2]}
<1>1. IsWellFoundedOn(R, Nat) BY NatLessThanWellFounded DEF OpToRel
<1>2. ASSUME NEW x \in Nat, NEW y \in Nat, <<y, x>> \notin R PROVE x <= y
  BY <1>2
<1> HIDE DEF R
<1>3. \E x \in S : \A y \in S : ~ (<<y, x>> \in R) BY <1>1, WFMin, Zenon
<1>4. PICK x \in S : \A y \in S : ~ (<<y, x>> \in R) BY <1>3
<1>5. ASSUME NEW y \in S PROVE x <= y
  <2>1. x \in Nat /\ y \in Nat OBVIOUS
  <2> QED BY <1>2, <1>4, <2>1, Zenon
<1> QED BY <1>5 DEF Least

\* Addresses, places and words.
LEMMA Numbers ==
    /\ ObjectCount \in Nat /\ MaxAddress \in Nat /\ ObjectCount + 2 <= MaxAddress
    /\ Address \subseteq Nat /\ Cell \subseteq Nat /\ Address \cap Cell = {}
    /\ \A a \in Address : a >= 1 /\ a <= MaxAddress
    /\ \A p \in Cell : p >= MaxAddress + 1 /\ p <= 2 * MaxAddress
    /\ \A a \in 1 .. ObjectCount + 2 : a \in Address /\ a + MaxAddress \in Cell
    /\ \A a \in Address : a <= ObjectCount + 2 => a \in Objects \/ a = NextLogical \/ a = NextPhysical
    /\ NextLogical \in 1 .. ObjectCount + 2 /\ NextPhysical \in 1 .. ObjectCount + 2
    /\ Objects \subseteq 1 .. ObjectCount + 2
    /\ NextLogical \notin Objects /\ NextPhysical \notin Objects /\ NextLogical # NextPhysical
    /\ Unassigned \notin Address /\ Unassigned \notin Cell /\ Unassigned \in Nat
    /\ \A v \in Values : v \in Nat /\ v \notin Address /\ v \notin Cell /\ v # Nil
    /\ StubDepth \in Nat
BY ConstantsAssumption
   DEF Address, Cell, Objects, NextLogical, NextPhysical, Unassigned, Nil

LEMMA MarksApart ==
    /\ Absent \notin Nat /\ Stub \notin Nat /\ Garbled \notin Nat /\ Fresh \notin Nat
    /\ Absent # Fresh /\ Stub # Fresh /\ Garbled # Fresh /\ Absent # Stub /\ Absent # Garbled
BY DEF Absent, Stub, Garbled, Fresh

\* What an object may be to a session, and the word written for it.
LEMMA ObjectWords ==
    /\ \A v : IsObject(v) <=> v \in Nat \/ v = Fresh
    /\ \A v : IsObject(v) => v # Absent /\ v # Stub /\ v # Garbled
    /\ \A v \in Nat : Word(v) = v
    /\ Word(Fresh) = Nil
BY MarksApart DEF IsObject, Word, Nil, Unassigned

(***************************************************************************)
(* What a step does to the read sets: an object is read from the content   *)
(* or stubbed, refreshed, set by the program, or changed by an adoption.   *)
(***************************************************************************)
LEMMA ReadIntoAt ==
    ASSUME NEW s, NEW a, NEW depth, NEW b \in Address
    PROVE  \/ b = a /\ ReadInto(s, a, depth)[b] = content[map[b]]
           \/ b # a /\ ReadInto(s, a, depth)[b] = view[s][b]
           \/ b # a /\ /\ map[b] # Unassigned /\ view[s][b] \in {Absent, Stub}
                       /\ ReadInto(s, a, depth)[b] \in {content[map[b]], Stub}
BY DEF ReadInto, Persisted

Reads(s, b) ==
    /\ map[b] # Unassigned /\ view[s][b] \in {Absent, Stub}
    /\ view'[s][b] \in {content[map[b]], Stub}

Refreshes(t, s, b) ==
    /\ Reread(t) /\ s = frame[t].target /\ b = Least(Due(t))
    /\ view'[s][b] = IF view[s][b] \in {Stub, Garbled} THEN Garbled ELSE content[map[b]]

Stores(t, s, b) ==
    /\ Store(t) /\ s = frame[t].session /\ b = frame[t].object
    /\ view'[s][b] = frame[t].value

AdoptsAt(t, s, b) ==
    LET a == Least(Unadopted(s))
    IN  /\ Adopt(t) /\ s = frame[t].session
        /\ view'[s][b] = IF b = a THEN Counter(s, NextLogical)
                         ELSE IF b = Counter(s, NextLogical) THEN Nil
                         ELSE IF b = NextPhysical THEN Counter(s, NextPhysical) + 1
                         ELSE IF b = NextLogical THEN Counter(s, NextLogical) + 1
                         ELSE view[s][b]

ViewsTyped == view \in [Sessions -> [Address -> Nat \cup {Absent, Stub, Garbled, Fresh}]]

LEMMA AdoptView ==
    ASSUME ViewsTyped, NEW t \in Threads, Adopt(t), NEW s \in Sessions, NEW b \in Address
    PROVE  IF s = frame[t].session THEN AdoptsAt(t, s, b) ELSE view'[s][b] = view[s][b]
<1> DEFINE x == frame[t].session
           a == Least(Unadopted(x))
           logical == Counter(x, NextLogical)
           physical == Counter(x, NextPhysical)
<1>1. view' = [view EXCEPT ![x] = [@ EXCEPT
            ![NextLogical] = logical + 1, ![NextPhysical] = physical + 1,
            ![logical] = Nil, ![a] = logical]]
  BY DEF Adopt
<1> HIDE DEF a, logical, physical
<1>2. s = x => view'[s][b] = IF b = a THEN logical
                       ELSE IF b = logical THEN Nil
                       ELSE IF b = NextPhysical THEN physical + 1
                       ELSE IF b = NextLogical THEN logical + 1
                       ELSE view[s][b]
  BY <1>1 DEF ViewsTyped
<1>3. s # x => view'[s][b] = view[s][b]
  BY <1>1 DEF ViewsTyped
<1> USE DEF a, logical, physical
<1>4. s = x => AdoptsAt(t, s, b) BY <1>2 DEF AdoptsAt
<1> QED BY <1>3, <1>4

LEMMA ViewStep ==
    ASSUME ViewsTyped, NEW t \in Threads, Begins(t) \/ Continues(t),
           NEW s \in Sessions, NEW b \in Address
    PROVE  \/ view'[s][b] = view[s][b]
           \/ Reads(s, b)
           \/ Refreshes(t, s, b)
           \/ Stores(t, s, b)
           \/ AdoptsAt(t, s, b)
<1>1. CASE Begins(t)
  <2>1. CASE UNCHANGED view
    BY <2>1
  <2>2. ASSUME NEW x \in Sessions, NEW a \in Persisted, NEW depth \in 0 .. StubDepth,
               AtAddress(t, x, a, depth)
        PROVE  view'[s][b] = view[s][b] \/ Reads(s, b)
    <3>1. map[a] # Unassigned /\ a \in Address /\ view[x][a] \in {Absent, Stub}
      BY <2>2 DEF Persisted, AtAddress
    <3>2. CASE depth > 0
      <4>1. view' = [view EXCEPT ![x] = ReadInto(x, a, depth)] BY <2>2, <3>2 DEF AtAddress
      <4>2. CASE s = x
        <5>1. view'[s][b] = ReadInto(x, a, depth)[b] BY <4>1, <4>2 DEF ViewsTyped
        <5> QED BY <3>1, <4>2, <5>1, ReadIntoAt DEF Reads
      <4>3. CASE s # x
        BY <4>1, <4>3 DEF ViewsTyped
      <4> QED BY <4>2, <4>3
    <3>3. CASE ~ depth > 0
      <4>1. view' = [view EXCEPT ![x] = [@ EXCEPT ![a] = Stub]] BY <2>2, <3>3 DEF AtAddress
      <4> QED BY <3>1, <4>1 DEF Reads, ViewsTyped
    <3> QED BY <3>2, <3>3
  <2> QED BY <1>1, <2>1, <2>2 DEF Begins, Begin, Commit, Abort, Set, Persisted
<1>2. CASE Store(t)
  BY <1>2 DEF Store, Stores, ViewsTyped
<1>3. CASE Adopt(t)
  BY <1>3, AdoptView
<1>4. CASE Reread(t)
  <2> DEFINE x == frame[t].target
             a == Least(Due(t))
  <2>1. CASE s = x
    <3>1. CASE view[x][a] \in {Stub, Garbled}
      <4>1. view' = [view EXCEPT ![x] = [@ EXCEPT ![a] = Garbled]] BY <1>4, <3>1 DEF Reread
      <4> QED BY <1>4, <2>1, <3>1, <4>1 DEF Refreshes, ViewsTyped
    <3>2. CASE view[x][a] \notin {Stub, Garbled}
      <4>1. view' = [view EXCEPT ![x] = ReadInto(x, a, StubDepth)] BY <1>4, <3>2 DEF Reread
      <4>2. view'[s][b] = ReadInto(x, a, StubDepth)[b] BY <2>1, <4>1 DEF ViewsTyped
      <4>3. CASE b = a
        <5>1. view'[s][b] = content[map[b]] BY <4>2, <4>3, ReadIntoAt
        <5> QED BY <1>4, <2>1, <3>2, <4>3, <5>1 DEF Refreshes
      <4>4. CASE b # a
        BY <2>1, <4>2, <4>4, ReadIntoAt DEF Reads
      <4> QED BY <4>3, <4>4
    <3> QED BY <3>1, <3>2
  <2>2. CASE s # x
    <3>1. \E r : view' = [view EXCEPT ![x] = r] BY <1>4 DEF Reread
    <3> QED BY <2>2, <3>1 DEF ViewsTyped
  <2> QED BY <2>1, <2>2
<1>5. CASE UNCHANGED view
  BY <1>5
<1> QED BY <1>1, <1>2, <1>3, <1>4, <1>5
        DEF Continues, Ensure, MarkDirty, LockContent, LockSession, Scanned, Write, Finish,
            LockList, Notify, EndCommit, LockForRefresh, EndNotify, LockAbort, EndAbort

LEMMA Calls ==
    ASSUME ControlInv, NEW t \in Threads, pc[t] # "idle"
    PROVE  frame[t].session \in Sessions /\ frame[t].target \in Sessions
BY DEF ControlInv, Places

\* The read sets stay functions of the sessions and the addresses.
LEMMA Reshaped ==
    ASSUME ViewsTyped, NEW x \in Sessions, NEW r, DOMAIN r = Address, r = [a \in Address |-> r[a]],
           view' = [view EXCEPT ![x] = r]
    PROVE  view' = [y \in Sessions |-> [a \in Address |-> view'[y][a]]]
<1>1. view' = [y \in Sessions |-> view'[y]] BY DEF ViewsTyped
<1>2. ASSUME NEW y \in Sessions PROVE view'[y] = [a \in Address |-> view'[y][a]]
  <2>1. CASE y = x
    <3>1. view'[y] = r BY <2>1 DEF ViewsTyped
    <3> QED BY <3>1, Zenon
  <2>2. CASE y # x
    <3>1. view'[y] = view[y] BY <2>2 DEF ViewsTyped
    <3> QED BY <3>1 DEF ViewsTyped
  <2> QED BY <2>1, <2>2
<1> QED BY <1>1, <1>2

LEMMA ViewShape ==
    ASSUME ControlInv, ViewsTyped, NEW t \in Threads, Begins(t) \/ Continues(t)
    PROVE  view' = [x \in Sessions |-> [a \in Address |-> view'[x][a]]]
<1>1. CASE UNCHANGED view
  BY <1>1 DEF ViewsTyped
<1>2. ASSUME NEW x \in Sessions, NEW a, NEW v, view' = [view EXCEPT ![x] = [@ EXCEPT ![a] = v]]
      PROVE  view' = [y \in Sessions |-> [b \in Address |-> view'[y][b]]]
  BY <1>2 DEF ViewsTyped
<1>3. ASSUME NEW x \in Sessions, NEW a, NEW depth, view' = [view EXCEPT ![x] = ReadInto(x, a, depth)]
      PROVE  view' = [y \in Sessions |-> [b \in Address |-> view'[y][b]]]
  <2> DEFINE r == ReadInto(x, a, depth)
  <2>1. DOMAIN r = Address /\ r = [b \in Address |-> r[b]] BY DEF ReadInto
  <2> QED BY <1>3, <2>1, Reshaped
<1>4. CASE Begins(t)
  <2>1. ASSUME NEW x \in Sessions, NEW a, NEW depth, AtAddress(t, x, a, depth)
        PROVE  view' = [y \in Sessions |-> [b \in Address |-> view'[y][b]]]
    BY <1>2, <1>3, <2>1 DEF AtAddress
  <2> QED BY <1>1, <1>4, <2>1 DEF Begins, Begin, Commit, Abort, Set
<1>5. CASE Store(t)
  <2>1. frame[t].session \in Sessions BY <1>5, Calls DEF Store
  <2> QED BY <1>5, <2>1 DEF Store, ViewsTyped
<1>6. CASE Adopt(t)
  <2>1. frame[t].session \in Sessions BY <1>6, Calls DEF Adopt
  <2>2. PICK l, p, a : view' = [view EXCEPT ![frame[t].session] = [@ EXCEPT
              ![NextLogical] = l + 1, ![NextPhysical] = p + 1, ![l] = Nil, ![a] = l]]
    BY <1>6 DEF Adopt
  <2> QED BY <2>1, <2>2 DEF ViewsTyped
<1>7. CASE Reread(t)
  <2>1. frame[t].target \in Sessions BY <1>7, Calls DEF Reread
  <2>2. PICK a : view' = [view EXCEPT ![frame[t].target] =
              IF view[frame[t].target][a] \in {Stub, Garbled} THEN [@ EXCEPT ![a] = Garbled]
              ELSE ReadInto(frame[t].target, a, StubDepth)]
    BY <1>7 DEF Reread
  <2>3. CASE view[frame[t].target][a] \in {Stub, Garbled}
    BY <1>2, <2>1, <2>2, <2>3
  <2>4. CASE view[frame[t].target][a] \notin {Stub, Garbled}
    <3>1. view' = [view EXCEPT ![frame[t].target] = ReadInto(frame[t].target, a, StubDepth)]
      BY <2>2, <2>4
    <3> QED BY <1>3, <2>1, <3>1
  <2> QED BY <2>3, <2>4
<1> QED
  BY <1>1, <1>4, <1>5, <1>6, <1>7
  DEF Continues, Ensure, MarkDirty, LockContent, LockSession, Scanned, Write, Finish,
      LockList, Notify, EndCommit, LockForRefresh, EndNotify, LockAbort, EndAbort

(***************************************************************************)
(* What a step does to the content and to the map.                         *)
(***************************************************************************)
LEMMA StoreStep ==
    ASSUME NEW t \in Threads, Begins(t) \/ Continues(t)
    PROVE  /\ content' = content \/ Write(t)
           /\ map' = map \/ Adopt(t)
<1>1. CASE Begins(t)
  BY <1>1 DEF Begins, AtAddress, Begin, Set, Commit, Abort
<1>2. CASE Continues(t)
  <2>1. CASE UNCHANGED store BY <2>1
  <2>2. CASE Adopt(t) \/ Write(t) BY <2>2 DEF Adopt, Write
  <2> QED
    BY <1>2, <2>1, <2>2
    DEF Continues, Ensure, MarkDirty, Store, LockContent, LockSession, Scanned, Finish,
        LockList, Notify, EndCommit, LockForRefresh, Reread, EndNotify, LockAbort, EndAbort
<1> QED BY <1>1, <1>2

(***************************************************************************)
(* What a step does to the transaction of a session.                       *)
(***************************************************************************)
Opens(t, s) ==   \* a transaction is made
    /\ owner[s] = None /\ owner'[s] = t /\ write_set'[s] = {}
    /\ s \in Uses[t] \/ (Ensure(t) /\ s = frame[t].session)

Marks(t, s) ==
    /\ MarkDirty(t) /\ s = frame[t].session /\ owner[s] # None
    /\ owner'[s] = owner[s] /\ write_set'[s] = write_set[s] \cup {frame[t].object}

Grows(t, s) ==
    /\ Adopt(t) /\ s = frame[t].session /\ owner'[s] = owner[s]
    /\ write_set'[s] =
          write_set[s] \cup {NextLogical, NextPhysical, Counter(s, NextLogical)}

Closes(t, s) ==
    /\ Finish(t) \/ EndAbort(t)
    /\ s = frame[t].session
    /\ owner'[s] = None /\ write_set'[s] = {}

LEMMA TransactionStep ==
    ASSUME ControlTypeOK, NEW t \in Threads, Begins(t) \/ Continues(t), NEW s \in Sessions
    PROVE  \/ owner'[s] = owner[s] /\ write_set'[s] = write_set[s]
           \/ Opens(t, s) \/ Marks(t, s) \/ Grows(t, s) \/ Closes(t, s)
<1>0. owner \in [Sessions -> Threads \cup {None}] /\ write_set \in [Sessions -> SUBSET Address]
  BY DEF ControlTypeOK
<1>1. CASE Begins(t)
  <2>1. ASSUME NEW x \in Sessions, Begin(t, x)
        PROVE  (owner'[s] = owner[s] /\ write_set'[s] = write_set[s]) \/ Opens(t, s)
    <3>1. CASE s = x
      <4>1. owner[s] = None /\ owner'[s] = t /\ write_set'[s] = {} /\ s \in Uses[t]
        BY <1>0, <2>1, <3>1 DEF Begin
      <4> QED BY <4>1, Zenon DEF Opens
    <3>2. CASE s # x
      BY <1>0, <2>1, <3>2 DEF Begin
    <3> QED BY <3>1, <3>2
  <2>2. CASE UNCHANGED current BY <2>2
  <2> QED BY <1>1, <2>1, <2>2 DEF Begins, AtAddress, Commit, Abort, Set
<1>2. CASE Ensure(t)
  BY <1>0, <1>2 DEF Ensure, Opens
<1>3. CASE MarkDirty(t)
  BY <1>0, <1>3 DEF MarkDirty, Marks
<1>4. CASE Adopt(t)
  BY <1>0, <1>4 DEF Adopt, Grows
<1>5. CASE Finish(t) \/ EndAbort(t)
  <2>1. owner' = [owner EXCEPT ![frame[t].session] = None]
        /\ write_set' = [write_set EXCEPT ![frame[t].session] = {}]
    BY <1>5 DEF Finish, EndAbort
  <2> QED BY <1>0, <1>5, <2>1 DEF Closes
<1>6. CASE UNCHANGED current
  BY <1>6
<1> QED
  BY <1>1, <1>2, <1>3, <1>4, <1>5, <1>6
  DEF Continues, Store, LockContent, LockSession, Scanned, Write, LockList, Notify,
      EndCommit, LockForRefresh, Reread, EndNotify, LockAbort

(***************************************************************************)
(* What a step does to the addresses its call works on.                    *)
(***************************************************************************)
LEMMA OwnData ==
    ASSUME ControlTypeOK, NEW t \in Threads
    PROVE  /\ Ensure(t) =>
                  /\ frame'[t].object = frame[t].object /\ frame'[t].value = frame[t].value
                  /\ frame'[t].todo = frame[t].todo /\ frame'[t].changed = frame[t].changed
           /\ Scanned(t) \/ LockAbort(t) => frame'[t].todo = write_set[frame[t].session]
           /\ Write(t) => frame'[t].todo = frame[t].todo \ {Least(frame[t].todo)}
           /\ Reread(t) => frame'[t].todo = {b \in frame[t].todo : b > Least(Due(t))}
           /\ Scanned(t) \/ LockAbort(t) \/ Write(t) \/ Reread(t) =>
                  /\ frame'[t].value = frame[t].value /\ frame'[t].changed = frame[t].changed
           /\ Finish(t) =>
                  /\ frame'[t].value = frame[t].value /\ frame'[t].todo = frame[t].todo
                  /\ frame'[t].changed = write_set[frame[t].session]
           /\ \A s \in Sessions : Notify(t, s) =>
                  /\ frame'[t].value = frame[t].value /\ frame'[t].todo = frame[t].changed
                  /\ frame'[t].changed = frame[t].changed
<1>0. frame[t] \in Frames /\ frame \in [Threads -> Frames] BY DEF ControlTypeOK
<1>1. ASSUME Ensure(t)
      PROVE  /\ frame'[t].object = frame[t].object /\ frame'[t].value = frame[t].value
             /\ frame'[t].todo = frame[t].todo /\ frame'[t].changed = frame[t].changed
  <2>1. frame'[t] = [frame[t] EXCEPT !.created = (owner[frame[t].session] = None)]
    BY <1>0, <1>1 DEF Ensure
  <2> QED BY <1>0, <2>1 DEF Frames
<1>2. ASSUME NEW S, frame'[t] = [frame[t] EXCEPT !.todo = S]
      PROVE  /\ frame'[t].todo = S
             /\ frame'[t].value = frame[t].value /\ frame'[t].changed = frame[t].changed
  BY <1>0, <1>2 DEF Frames
<1>3. Scanned(t) \/ LockAbort(t) =>
          frame'[t] = [frame[t] EXCEPT !.todo = write_set[frame[t].session]]
  BY <1>0 DEF Scanned, LockAbort
<1>4. Write(t) =>
          frame'[t] = [frame[t] EXCEPT !.todo = frame[t].todo \ {Least(frame[t].todo)}]
  BY <1>0 DEF Write
<1>5. Reread(t) =>
          frame'[t] = [frame[t] EXCEPT !.todo = {b \in frame[t].todo : b > Least(Due(t))}]
  BY <1>0 DEF Reread
<1>6. ASSUME Finish(t)
      PROVE  /\ frame'[t].value = frame[t].value /\ frame'[t].todo = frame[t].todo
             /\ frame'[t].changed = write_set[frame[t].session]
  <2>1. frame'[t] = [frame[t] EXCEPT !.changed = write_set[frame[t].session],
                                     !.others = Sessions \ {frame[t].session}]
    BY <1>0, <1>6 DEF Finish
  <2> QED BY <1>0, <2>1 DEF Frames
<1>7. ASSUME NEW s \in Sessions, Notify(t, s)
      PROVE  /\ frame'[t].value = frame[t].value /\ frame'[t].todo = frame[t].changed
             /\ frame'[t].changed = frame[t].changed
  <2>1. frame'[t] = [frame[t] EXCEPT !.others = frame[t].others \ {s}, !.target = s,
                                     !.todo = frame[t].changed]
    BY <1>0, <1>7 DEF Notify
  <2> QED BY <1>0, <2>1 DEF Frames
<1> QED BY <1>1, <1>2, <1>3, <1>4, <1>5, <1>6, <1>7

LEMMA BeginFrame ==
    ASSUME ControlTypeOK, NEW t \in Threads, Begins(t)
    PROVE  \/ UNCHANGED <<pc, frame>>
           \/ \E s \in Sessions : /\ Commit(t, s) \/ Abort(t, s)
                                  /\ frame'[t] = Entered(s)
                                  /\ pc'[t] \in {"content", "abort"}
           \/ \E s \in Sessions, a \in Objects, v \in Values \cup {Fresh} :
                 /\ Set(t, s, a, v)
                 /\ frame'[t] = [Entered(s) EXCEPT !.object = a, !.value = v]
                 /\ pc'[t] = "ensure"
<1>0. pc \in [Threads -> Labels] /\ frame \in [Threads -> Frames] BY DEF ControlTypeOK
<1>1. ASSUME NEW s \in Sessions, Commit(t, s) \/ Abort(t, s)
      PROVE  frame'[t] = Entered(s) /\ pc'[t] \in {"content", "abort"}
  BY <1>0, <1>1 DEF Commit, Abort
<1>2. ASSUME NEW s \in Sessions, NEW a \in Objects, NEW v \in Values \cup {Fresh}, Set(t, s, a, v)
      PROVE  frame'[t] = [Entered(s) EXCEPT !.object = a, !.value = v] /\ pc'[t] = "ensure"
  BY <1>0, <1>2 DEF Set
<1>3. CASE \E s \in Sessions : Commit(t, s) \/ Abort(t, s)
  BY <1>1, <1>3
<1>4. CASE \E s \in Sessions, a \in Objects, v \in Values \cup {Fresh} : Set(t, s, a, v)
  <2>1. PICK s \in Sessions, a \in Objects, v \in Values \cup {Fresh} : Set(t, s, a, v)
    BY <1>4
  <2>2. frame'[t] = [Entered(s) EXCEPT !.object = a, !.value = v] /\ pc'[t] = "ensure"
    BY <1>2, <2>1
  <2> QED BY <2>1, <2>2
<1>5. CASE UNCHANGED <<pc, frame>>
  BY <1>5
<1>6. \/ \E s \in Sessions : Commit(t, s) \/ Abort(t, s)
      \/ \E s \in Sessions, a \in Objects, v \in Values \cup {Fresh} : Set(t, s, a, v)
      \/ UNCHANGED <<pc, frame>>
  BY DEF Begins, AtAddress, Begin
<1> QED BY <1>3, <1>4, <1>5, <1>6, Zenon

-------------------------------------------------------------------------------
LEMMA CountersTyped ==
    ASSUME DataInv, NEW s \in Sessions
    PROVE  /\ Counter(s, NextLogical) \in Nat /\ Counter(s, NextPhysical) \in Nat
           /\ view[s][NextLogical] # Fresh /\ view[s][NextPhysical] # Fresh
           /\ content[map[NextLogical]] \in Nat /\ content[map[NextPhysical]] \in Nat
           /\ map[NextLogical] # Unassigned /\ map[NextPhysical] # Unassigned
<1>1. map[NextLogical] \in Cell /\ map[NextPhysical] \in Cell
      /\ map[NextLogical] # Unassigned /\ map[NextPhysical] # Unassigned
  BY Numbers DEF DataInv, TypeOK, FirstMapped
<1>2. content[map[NextLogical]] \in Nat /\ content[map[NextPhysical]] \in Nat
  BY <1>1 DEF DataInv, TypeOK
<1>3. view[s][NextLogical] # Fresh /\ view[s][NextPhysical] # Fresh
  BY Numbers DEF DataInv, ViewsHeld
<1> QED BY <1>1, <1>2, <1>3, ObjectWords DEF Counter

LEMMA AdoptFacts ==
    ASSUME ControlInv, DataInv, NEW t \in Threads, Adopt(t)
    PROVE  LET s == frame[t].session
               a == Least(Unadopted(s))
           IN  /\ s \in Sessions /\ pc[t] = "scan" /\ Available(s)
               /\ a \in write_set[s] /\ view[s][a] = Fresh /\ a \in Objects
               /\ Counter(s, NextLogical) \in Address /\ Counter(s, NextPhysical) \in Cell
               /\ map' = [map EXCEPT ![Counter(s, NextLogical)] = Counter(s, NextPhysical)]
               /\ map'[Counter(s, NextLogical)] = Counter(s, NextPhysical)
               /\ content' = content /\ owner' = owner /\ frame' = frame /\ pc' = pc
<1> DEFINE s == frame[t].session
           a == Least(Unadopted(s))
<1>1. /\ pc[t] = "scan" /\ Available(s) /\ Unadopted(s) # {}
      /\ Counter(s, NextLogical) \in Address /\ Counter(s, NextPhysical) \in Cell
      /\ map' = [map EXCEPT ![Counter(s, NextLogical)] = Counter(s, NextPhysical)]
      /\ content' = content /\ owner' = owner /\ frame' = frame /\ pc' = pc
  BY DEF Adopt
<1>2. s \in Sessions BY <1>1, Calls
<1>3. Unadopted(s) \subseteq Nat
  BY <1>2, Numbers DEF Unadopted, ControlInv, ControlTypeOK
<1>4. a \in Unadopted(s) BY <1>1, <1>3, LeastIn
<1>5. a \in write_set[s] /\ view[s][a] = Fresh BY <1>4 DEF Unadopted
<1>6. a \in Address BY <1>2, <1>5 DEF ControlInv, ControlTypeOK
<1>7. a \in Objects BY <1>2, <1>5, <1>6 DEF DataInv, ViewsHeld
<1>8. map'[Counter(s, NextLogical)] = Counter(s, NextPhysical)
  BY <1>1 DEF DataInv, TypeOK
<1> QED BY <1>1, <1>2, <1>5, <1>7, <1>8

LEMMA WriteFacts ==
    ASSUME ControlInv, DataInv, NEW t \in Threads, Write(t)
    PROVE  LET s == frame[t].session
               a == Least(frame[t].todo)
           IN  /\ s \in Sessions /\ pc[t] = "write" /\ a \in frame[t].todo
               /\ a \in write_set[s] /\ a \in Address /\ map[a] \in Cell /\ IsObject(view[s][a])
               /\ content' = [content EXCEPT ![map[a]] = Word(view[s][a])]
               /\ Word(view[s][a]) \in Nat
               /\ map' = map /\ view' = view /\ owner' = owner /\ write_set' = write_set
               /\ pc' = pc
<1> DEFINE s == frame[t].session
           a == Least(frame[t].todo)
<1>1. /\ pc[t] = "write" /\ frame[t].todo # {}
      /\ content' = [content EXCEPT ![map[a]] = Word(view[s][a])]
      /\ map' = map /\ view' = view /\ owner' = owner /\ write_set' = write_set /\ pc' = pc
  BY DEF Write
<1>2. s \in Sessions BY <1>1, Calls
<1>3. frame[t].todo \subseteq Address BY DEF ControlInv, ControlTypeOK, Frames
<1>4. a \in frame[t].todo BY <1>1, <1>3, LeastIn, Numbers
<1>5. a \in write_set[s] BY <1>1, <1>4 DEF DataInv, LocalsHeld
<1>6. map[a] # Unassigned /\ IsObject(view[s][a]) BY <1>2, <1>5 DEF DataInv, ChangedHeld
<1>7. map[a] \in Cell BY <1>3, <1>4, <1>6 DEF DataInv, TypeOK
<1>8. Word(view[s][a]) \in Nat BY <1>6, ObjectWords, Constants
<1> QED BY <1>1, <1>2, <1>3, <1>4, <1>5, <1>6, <1>7, <1>8

LEMMA RereadFacts ==
    ASSUME ControlInv, DataInv, NEW t \in Threads, Reread(t)
    PROVE  LET s == frame[t].target
               a == Least(Due(t))
           IN  /\ s \in Sessions /\ pc[t] = "reread" /\ Available(s)
               /\ a \in frame[t].todo /\ a \in Address /\ view[s][a] # Absent
               /\ \A b \in Due(t) : a <= b
               /\ map[a] \in Cell /\ content[map[a]] \in Nat
<1> DEFINE s == frame[t].target
           a == Least(Due(t))
<1>1. pc[t] = "reread" /\ Available(s) BY DEF Reread
<1>2. s \in Sessions BY <1>1, Calls
<1>3. frame[t].todo \subseteq Address BY DEF ControlInv, ControlTypeOK, Frames
<1>4. Due(t) # {} BY <1>1 DEF DataInv, LocalsHeld
<1>5. a \in Due(t) /\ \A b \in Due(t) : a <= b BY <1>3, <1>4, LeastIn, Numbers DEF Due
<1>6. a \in frame[t].todo /\ view[s][a] # Absent BY <1>5 DEF Due
<1>7. map[a] # Unassigned BY <1>6 DEF DataInv, LocalsHeld
<1>8. map[a] \in Cell /\ content[map[a]] \in Nat BY <1>3, <1>6, <1>7 DEF DataInv, TypeOK
<1> QED BY <1>1, <1>2, <1>3, <1>5, <1>6, <1>8

\* What has an address keeps it.
LEMMA MappedStays ==
    ASSUME ControlInv, DataInv, NEW t \in Threads, Begins(t) \/ Continues(t),
           NEW a \in Address, map[a] # Unassigned
    PROVE  map'[a] # Unassigned
<1>1. CASE Adopt(t)
  <2>1. PICK l \in Address, p \in Cell : map' = [map EXCEPT ![l] = p]
    BY <1>1, AdoptFacts
  <2>2. a \in DOMAIN map BY DEF DataInv, TypeOK
  <2>3. map'[a] = p \/ map'[a] = map[a] BY <2>1, <2>2
  <2> QED BY <2>1, <2>3, Numbers
<1> QED BY <1>1, StoreStep

\* What a session has read remains an object to it.
LEMMA ObjectsStay ==
    ASSUME ControlInv, DataInv, NEW t \in Threads, Begins(t) \/ Continues(t),
           NEW s \in Sessions, NEW b \in Address, IsObject(view[s][b])
    PROVE  IsObject(view'[s][b])
<1>1. map[b] \in Cell /\ content[map[b]] \in Nat
  BY ObjectWords DEF DataInv, ViewsHeld, TypeOK
<1>2. CASE Refreshes(t, s, b)
  BY <1>1, <1>2, ObjectWords DEF Refreshes
<1>3. CASE Stores(t, s, b)
  <2>1. frame[t].value \in Values \cup {Nil, Fresh} BY DEF DataInv, LocalsHeld
  <2> QED BY <1>3, <2>1, ObjectWords, Numbers, Constants DEF Stores
<1>4. CASE AdoptsAt(t, s, b)
  <2>1. Counter(s, NextLogical) \in Nat /\ Counter(s, NextPhysical) \in Nat BY CountersTyped
  <2>2. view'[s][b] \in Nat \/ view'[s][b] = view[s][b]
    BY <1>4, <2>1 DEF AdoptsAt, Nil
  <2> QED BY <2>2, ObjectWords
<1> QED BY <1>2, <1>3, <1>4, ViewStep, ObjectWords DEF Reads, ViewsTyped, DataInv, TypeOK

LEMMA TypesStep ==
    ASSUME ControlInv, DataInv, NEW t \in Threads, Begins(t) \/ Continues(t), ControlTypeOK'
    PROVE  TypeOK'
<1>0. TypeOK BY DEF DataInv
<1>1. content' \in [Cell -> Nat]
  <2>1. CASE Write(t)
    BY <1>0, <2>1, WriteFacts DEF TypeOK
  <2> QED BY <1>0, <2>1, StoreStep DEF TypeOK
<1>2. map' \in [Address -> Cell \cup {Unassigned}]
  <2>1. CASE Adopt(t)
    <3>1. \E l \in Address, p \in Cell : map' = [map EXCEPT ![l] = p]
      BY <2>1, AdoptFacts
    <3> QED BY <1>0, <3>1 DEF TypeOK
  <2> QED BY <1>0, <2>1, StoreStep DEF TypeOK
<1>3. view' \in [Sessions -> [Address -> Nat \cup {Absent, Stub, Garbled, Fresh}]]
  <2>1. view' = [x \in Sessions |-> [a \in Address |-> view'[x][a]]]
    BY <1>0, ViewShape DEF TypeOK, ViewsTyped
  <2>2. ASSUME NEW x \in Sessions, NEW a \in Address
        PROVE  view'[x][a] \in Nat \cup {Absent, Stub, Garbled, Fresh}
    <3>1. map[a] # Unassigned => content[map[a]] \in Nat BY <1>0 DEF TypeOK
    <3>2. CASE IsObject(view[x][a])
      BY <3>2, ObjectsStay, ObjectWords
    <3>3. CASE ~IsObject(view[x][a])
      <4>1. CASE Refreshes(t, x, a)
        <5>1. view[x][a] \in {Absent, Stub, Garbled} BY <1>0, <3>3, ObjectWords DEF TypeOK
        <5>2. view[x][a] # Absent
          BY <4>1, RereadFacts DEF Refreshes
        <5> QED BY <4>1, <5>1, <5>2 DEF Refreshes
      <4>2. CASE Stores(t, x, a)
        <5>1. frame[t].value \in Values \cup {Nil, Fresh} BY DEF DataInv, LocalsHeld
        <5> QED BY <4>2, <5>1, Numbers, Constants DEF Stores
      <4>3. CASE AdoptsAt(t, x, a)
        <5>1. Counter(x, NextLogical) \in Nat /\ Counter(x, NextPhysical) \in Nat
          BY CountersTyped
        <5>2. view'[x][a] \in Nat \/ view'[x][a] = view[x][a]
          BY <4>3, <5>1 DEF AdoptsAt, Nil
        <5> QED BY <1>0, <5>2 DEF TypeOK
      <4> QED BY <1>0, <3>1, <4>1, <4>2, <4>3, ViewStep DEF Reads, ViewsTyped, TypeOK
    <3> QED BY <3>2, <3>3
  <2> QED BY <2>1, <2>2
<1> QED BY <1>1, <1>2, <1>3 DEF TypeOK

-------------------------------------------------------------------------------
\* What is in a read set stays in it.
LEMMA ReadStays ==
    ASSUME ControlInv, DataInv, NEW t \in Threads, Begins(t) \/ Continues(t),
           NEW s \in Sessions, NEW b \in Address, view[s][b] # Absent
    PROVE  view'[s][b] # Absent
<1>0. TypeOK /\ map[b] # Unassigned BY DEF DataInv, ViewsHeld
<1>1. content[map[b]] \in Nat BY <1>0 DEF TypeOK
<1>2. CASE IsObject(view[s][b])
  BY <1>2, ObjectsStay, ObjectWords
<1>3. CASE Stores(t, s, b)
  <2>1. frame[t].value \in Values \cup {Nil, Fresh} BY DEF DataInv, LocalsHeld
  <2> QED BY <1>3, <2>1, Numbers, MarksApart, Constants DEF Stores
<1>4. CASE AdoptsAt(t, s, b)
  <2>1. Counter(s, NextLogical) \in Nat /\ Counter(s, NextPhysical) \in Nat BY CountersTyped
  <2>2. view'[s][b] \in Nat \/ view'[s][b] = view[s][b]
    BY <1>4, <2>1 DEF AdoptsAt, Nil
  <2> QED BY <2>2, MarksApart
<1> QED BY <1>0, <1>1, <1>2, <1>3, <1>4, ViewStep, MarksApart
        DEF Reads, Refreshes, ViewsTyped, TypeOK

LEMMA FirstMappedStep ==
    ASSUME ControlInv, DataInv, NEW t \in Threads, Begins(t) \/ Continues(t)
    PROVE  FirstMapped'
BY MappedStays, Numbers DEF DataInv, FirstMapped

LEMMA ViewsHeldStep ==
    ASSUME ControlInv, DataInv, NEW t \in Threads, Begins(t) \/ Continues(t)
    PROVE  ViewsHeld'
<1> SUFFICES ASSUME NEW s \in Sessions, NEW b \in Address
             PROVE  /\ view'[s][b] = Fresh => b \in Objects
                    /\ map'[b] = Unassigned => view'[s][b] = Absent
  BY DEF ViewsHeld
<1>0. /\ TypeOK
      /\ view[s][b] = Fresh => b \in Objects
      /\ map[b] = Unassigned => view[s][b] = Absent
      /\ map'[b] = Unassigned => map[b] = Unassigned
      /\ map[b] # Unassigned => content[map[b]] \in Nat
  BY MappedStays DEF DataInv, ViewsHeld, TypeOK
<1>1. CASE Refreshes(t, s, b)
  BY <1>0, <1>1, RereadFacts, MarksApart DEF Refreshes
<1>2. CASE Stores(t, s, b)
  <2>1. frame[t].object \in Objects BY <1>2 DEF Stores, Store, DataInv, LocalsHeld
  <2>2. map[b] # Unassigned BY <1>2, <2>1, Numbers DEF Stores, DataInv, FirstMapped
  <2> QED BY <1>0, <1>2, <2>1, <2>2 DEF Stores
<1>3. CASE AdoptsAt(t, s, b)
  <2> DEFINE a == Least(Unadopted(s))
  <2>0. Adopt(t) /\ s = frame[t].session BY <1>3 DEF AdoptsAt
  <2>1. /\ a \in Objects /\ view[s][a] = Fresh
        /\ Counter(s, NextLogical) \in Address /\ Counter(s, NextPhysical) \in Cell
        /\ map'[Counter(s, NextLogical)] = Counter(s, NextPhysical)
    BY <2>0, AdoptFacts
  <2>2. map[NextLogical] # Unassigned /\ map[NextPhysical] # Unassigned
    BY CountersTyped
  <2>3. Counter(s, NextLogical) + 1 \in Nat /\ Counter(s, NextPhysical) + 1 \in Nat
    BY CountersTyped
  <2> HIDE DEF a
  <2>4. view'[s][b] = IF b = a THEN Counter(s, NextLogical)
                      ELSE IF b = Counter(s, NextLogical) THEN Nil
                      ELSE IF b = NextPhysical THEN Counter(s, NextPhysical) + 1
                      ELSE IF b = NextLogical THEN Counter(s, NextLogical) + 1
                      ELSE view[s][b]
    BY <1>3 DEF AdoptsAt, a
  <2>5. view'[s][b] = Fresh => b \in Objects
    BY <1>0, <2>1, <2>3, <2>4, MarksApart, Constants, Numbers
  <2>6. map'[b] = Unassigned => view'[s][b] = Absent
    BY <1>0, <2>1, <2>2, <2>4, MarksApart, Numbers
  <2> QED BY <2>5, <2>6
<1> QED BY <1>0, <1>1, <1>2, <1>3, ViewStep, MarksApart DEF Reads, ViewsTyped, TypeOK

LEMMA ChangedHeldStep ==
    ASSUME ControlInv, DataInv, NEW t \in Threads, Begins(t) \/ Continues(t)
    PROVE  ChangedHeld'
<1> SUFFICES ASSUME NEW s \in Sessions, NEW a \in write_set'[s]
             PROVE  map'[a] # Unassigned /\ IsObject(view'[s][a])
  BY DEF ChangedHeld, IsObject
<1>0. ControlTypeOK /\ ViewsTyped BY DEF ControlInv, DataInv, TypeOK, ViewsTyped
<1>1. CASE a \in write_set[s]
  <2>1. a \in Address BY <1>0, <1>1 DEF ControlTypeOK
  <2>2. map[a] # Unassigned /\ IsObject(view[s][a]) BY <1>1 DEF DataInv, ChangedHeld
  <2> QED BY <2>1, <2>2, MappedStays, ObjectsStay
<1>2. CASE Marks(t, s) /\ a = frame[t].object
  <2>1. a \in Objects /\ IsObject(view[s][a])
    BY <1>2 DEF Marks, MarkDirty, DataInv, LocalsHeld
  <2>2. a \in Address /\ map[a] # Unassigned
    BY <2>1, Numbers DEF DataInv, FirstMapped
  <2> QED BY <2>1, <2>2, MappedStays, ObjectsStay
<1>3. CASE Grows(t, s) /\ a \in {NextLogical, NextPhysical, Counter(s, NextLogical)}
  <2>0. Adopt(t) /\ s = frame[t].session BY <1>3 DEF Grows
  <2>1. Counter(s, NextLogical) \in Address /\ Counter(s, NextPhysical) \in Cell
        /\ map'[Counter(s, NextLogical)] = Counter(s, NextPhysical)
    BY <2>0, AdoptFacts
  <2>2. a \in Address BY <1>3, <2>1, Constants
  <2>3. map'[a] # Unassigned
    BY <1>3, <2>1, CountersTyped, MappedStays, Constants, Numbers
  <2>4. AdoptsAt(t, s, a) BY <1>0, <2>0, <2>2, AdoptView
  <2>5. view'[s][a] \in Nat
    BY <1>3, <2>4, CountersTyped, Constants DEF AdoptsAt
  <2> QED BY <2>3, <2>5, ObjectWords
<1> QED BY <1>0, <1>1, <1>2, <1>3, TransactionStep DEF Opens, Marks, Grows, Closes

\* The transaction a commit works on keeps what it has until the commit ends it.
LEMMA WriteSetKept ==
    ASSUME ControlInv, DataInv, NEW t \in Threads, Begins(t) \/ Continues(t),
           NEW u \in Threads, u # t, InTransaction(u), frame[u].session \in Sessions
    PROVE  write_set[frame[u].session] \subseteq write_set'[frame[u].session]
<1> DEFINE s == frame[u].session
<1>1. owner[s] = u BY DEF ControlInv, TransactionOwned
<1>2. ControlTypeOK BY DEF ControlInv
<1>3. ~Opens(t, s) BY <1>1, Constants DEF Opens
<1>4. ASSUME Closes(t, s) PROVE FALSE
  <2>1. InTransaction(t)
    BY <1>4 DEF Closes, Finish, EndAbort, InTransaction, CommitLabels, Undoing
  <2>2. owner[s] = t BY <1>4, <2>1 DEF Closes, ControlInv, TransactionOwned
  <2> QED BY <1>1, <2>2
<1> QED BY <1>2, <1>3, <1>4, TransactionStep DEF Marks, Grows

LEMMA LocalsHeldStep ==
    ASSUME ControlInv, DataInv, NEW t \in Threads, Begins(t) \/ Continues(t), ControlTypeOK'
    PROVE  LocalsHeld'
<1> DEFINE Held1(u) ==
             /\ \A a \in frame'[u].todo \cup frame'[u].changed : map'[a] # Unassigned
             /\ frame'[u].value \in Values \cup {Nil, Fresh}
           Held2(u) ==
             pc'[u] \in {"ensure", "mark", "store"} =>
                /\ frame'[u].object \in Objects
                /\ IsObject(view'[frame'[u].session][frame'[u].object])
           Held3(u) == pc'[u] = "write" => frame'[u].todo \subseteq write_set'[frame'[u].session]
           Held4(u) == pc'[u] = "reread" =>
                \E a \in frame'[u].todo : view'[frame'[u].target][a] # Absent
<1> SUFFICES ASSUME NEW u \in Threads PROVE Held1(u) /\ Held2(u) /\ Held3(u) /\ Held4(u)
  BY DEF LocalsHeld, Due, IsObject
<1>0. /\ ControlTypeOK /\ Places
      /\ pc \in [Threads -> Labels] /\ frame \in [Threads -> Frames]
  BY DEF ControlInv, ControlTypeOK
<1>1. ASSUME NEW v \in Threads
      PROVE  /\ \A a \in frame[v].todo \cup frame[v].changed :
                    a \in Address /\ map[a] # Unassigned /\ map'[a] # Unassigned
             /\ frame[v].value \in Values \cup {Nil, Fresh}
             /\ pc[v] # "idle" => frame[v].session \in Sessions /\ frame[v].target \in Sessions
             /\ pc[v] \in {"ensure", "mark", "store"} =>
                   /\ frame[v].object \in Objects
                   /\ IsObject(view'[frame[v].session][frame[v].object])
             /\ pc[v] = "write" => frame[v].todo \subseteq write_set[frame[v].session]
             /\ pc[v] = "reread" => Due(v) # {}
  <2>1. \A a \in frame[v].todo \cup frame[v].changed : a \in Address /\ map[a] # Unassigned
    BY <1>0 DEF DataInv, LocalsHeld, Frames
  <2>2. pc[v] # "idle" => frame[v].session \in Sessions /\ frame[v].target \in Sessions
    BY <1>0 DEF Places
  <2>3. ASSUME pc[v] \in {"ensure", "mark", "store"}
        PROVE  /\ frame[v].object \in Objects
               /\ IsObject(view'[frame[v].session][frame[v].object])
    <3>1. frame[v].object \in Objects /\ IsObject(view[frame[v].session][frame[v].object])
      BY <2>3 DEF DataInv, LocalsHeld
    <3> QED BY <2>2, <2>3, <3>1, ObjectsStay, Constants
  <2> QED BY <2>1, <2>2, <2>3, MappedStays DEF DataInv, LocalsHeld
<1>2. ASSUME NEW s \in Sessions PROVE \A a \in write_set[s] : map'[a] # Unassigned
  BY <1>0, MappedStays DEF DataInv, ChangedHeld, ControlTypeOK
<1>3. ASSUME NEW v \in Threads, pc[v] \in {"refresh", "reread"}, Due(v) # {}
      PROVE  \E a \in frame[v].todo : view'[frame[v].target][a] # Absent
  <2>1. PICK a \in frame[v].todo : view[frame[v].target][a] # Absent BY <1>3 DEF Due
  <2> QED BY <1>1, <1>3, <2>1, ReadStays
<1>4. CASE u # t
  <2>1. pc'[u] = pc[u] /\ frame'[u] = frame[u] BY <1>0, <1>4, OtherThreads
  <2>2. Held3(u)
    BY <1>1, <1>4, <2>1, WriteSetKept DEF InTransaction, CommitLabels
  <2>3. Held4(u) BY <1>1, <1>3, <2>1
  <2> QED BY <1>1, <2>1, <2>2, <2>3
<1>5. CASE u = t /\ Begins(t)
  <2>1. CASE UNCHANGED <<pc, frame>>
    <3>1. pc[t] = "idle" BY <1>5, <2>1 DEF Begins, AtAddress, Begin, Commit, Abort, Set
    <3> QED BY <1>1, <1>5, <2>1, <3>1
  <2>2. ASSUME NEW s \in Sessions, frame'[t] = Entered(s), pc'[t] \in {"content", "abort"}
        PROVE  Held1(t) /\ Held2(t) /\ Held3(t) /\ Held4(t)
    BY <2>2 DEF Entered
  <2>3. ASSUME NEW s \in Sessions, NEW a \in Objects, NEW v \in Values \cup {Fresh}, Set(t, s, a, v),
               frame'[t] = [Entered(s) EXCEPT !.object = a, !.value = v], pc'[t] = "ensure"
        PROVE  Held1(t) /\ Held2(t) /\ Held3(t) /\ Held4(t)
    <3>1. /\ frame'[t].session = s /\ frame'[t].object = a /\ frame'[t].value = v
          /\ frame'[t].todo = {} /\ frame'[t].changed = {}
      BY <2>3 DEF Entered
    <3>2. IsObject(view[s][a]) BY <2>3 DEF Set
    <3>3. IsObject(view'[s][a]) BY <3>2, ObjectsStay, Constants
    <3> QED BY <2>3, <3>1, <3>3
  <2> QED BY <1>0, <1>5, <2>1, <2>2, <2>3, BeginFrame
<1>6. CASE u = t /\ Continues(t)
  <2>1. CASE Ensure(t)
    <3>1. pc[t] = "ensure" /\ pc'[t] = "mark" BY <1>0, <2>1 DEF Ensure
    <3> QED BY <1>0, <1>1, <1>6, <2>1, <3>1, OwnData, OwnLocals
  <2>2. CASE MarkDirty(t)
    <3>1. pc[t] = "mark" /\ pc'[t] = "store" /\ frame' = frame BY <1>0, <2>2 DEF MarkDirty
    <3> QED BY <1>1, <1>6, <3>1
  <2>3. CASE Store(t) \/ EndCommit(t) \/ EndAbort(t)
    <3>1. \/ frame'[t] = Entered(None) /\ pc'[t] = "idle"
          \/ frame'[t] = frame[t] /\ pc'[t] = "content"
      BY <1>0, <2>3 DEF Store, EndCommit, EndAbort, Return
    <3> QED BY <1>1, <1>6, <3>1 DEF Entered
  <2>4. CASE LockContent(t) \/ LockSession(t) \/ Adopt(t) \/ LockList(t) \/ EndNotify(t)
    <3>1. pc'[t] \in {"session", "scan", "notify"} /\ frame' = frame
      BY <1>0, <2>4 DEF LockContent, LockSession, Adopt, LockList, EndNotify
    <3> QED BY <1>1, <1>6, <3>1
  <2>5. CASE Scanned(t)
    <3>1. pc[t] = "scan" /\ pc'[t] = "write" /\ write_set' = write_set BY <1>0, <2>5 DEF Scanned
    <3> QED BY <1>0, <1>1, <1>2, <1>6, <2>5, <3>1, OwnData, OwnLocals
  <2>6. CASE Write(t)
    <3>1. pc[t] = "write" /\ pc'[t] = "write" /\ write_set' = write_set BY <1>0, <2>6 DEF Write
    <3> QED BY <1>0, <1>1, <1>6, <2>6, <3>1, OwnData, OwnLocals
  <2>7. CASE Finish(t)
    <3>1. pc[t] = "write" /\ pc'[t] = "list" BY <1>0, <2>7 DEF Finish
    <3> QED BY <1>0, <1>1, <1>2, <1>6, <2>7, <3>1, OwnData
  <2>8. CASE \E s \in Sessions : Notify(t, s)
    <3>1. PICK s \in Sessions : Notify(t, s) BY <2>8
    <3>2. pc'[t] = "refresh" BY <1>0, <3>1 DEF Notify
    <3> QED BY <1>0, <1>1, <1>6, <3>1, <3>2, OwnData
  <2>9. CASE LockForRefresh(t)
    <3>1. pc[t] = "refresh" /\ pc'[t] = "reread" /\ frame' = frame /\ Due(t) # {}
      BY <1>0, <2>9 DEF LockForRefresh
    <3> QED BY <1>1, <1>3, <1>6, <3>1
  <2>10. CASE Reread(t)
    <3>1. pc[t] = "reread" /\ pc'[t] = "refresh" BY <1>0, <2>10 DEF Reread
    <3> QED BY <1>0, <1>1, <1>6, <2>10, <3>1, OwnData
  <2>11. CASE LockAbort(t)
    <3>1. pc[t] = "abort" /\ pc'[t] = "refresh" BY <1>0, <2>11 DEF LockAbort
    <3> QED BY <1>0, <1>1, <1>2, <1>6, <2>11, <3>1, OwnData
  <2> QED BY <1>6, <2>1, <2>2, <2>3, <2>4, <2>5, <2>6, <2>7, <2>8, <2>9, <2>10, <2>11
          DEF Continues
<1> QED BY <1>4, <1>5, <1>6

\* A call stays on its session until it returns.
LEMMA SameSession ==
    ASSUME ControlTypeOK, NEW t \in Threads, Continues(t)
    PROVE  pc[t] # "idle" /\ (pc'[t] = "idle" \/ frame'[t].session = frame[t].session)
<1>0. pc \in [Threads -> Labels] /\ frame \in [Threads -> Frames] BY DEF ControlTypeOK
<1>1. CASE Ensure(t)
  BY <1>1, OwnLocals DEF Ensure
<1>2. CASE Store(t)
  BY <1>0, <1>2 DEF Store, Return
<1>3. CASE MarkDirty(t) \/ LockContent(t) \/ LockSession(t) \/ Adopt(t) \/ LockList(t)
           \/ LockForRefresh(t) \/ EndNotify(t)
  BY <1>3 DEF MarkDirty, LockContent, LockSession, Adopt, LockList, LockForRefresh, EndNotify
<1>4. CASE Scanned(t) \/ Write(t) \/ Reread(t) \/ LockAbort(t)
  BY <1>4, OwnLocals DEF Scanned, Write, Reread, LockAbort
<1>5. CASE Finish(t)
  BY <1>5, OwnLocals DEF Finish
<1>6. CASE \E s \in Sessions : Notify(t, s)
  BY <1>6, OwnLocals DEF Notify
<1>7. CASE EndCommit(t) \/ EndAbort(t)
  BY <1>0, <1>7 DEF EndCommit, EndAbort, Return
<1> QED BY <1>1, <1>2, <1>3, <1>4, <1>5, <1>6, <1>7 DEF Continues

LEMMA UsesStep ==
    ASSUME ControlInv, DataInv, UsesInv, NEW t \in Threads, Begins(t) \/ Continues(t)
    PROVE  UsesInv'
<1>0. /\ ControlTypeOK /\ Places
      /\ pc \in [Threads -> Labels] /\ frame \in [Threads -> Frames]
  BY DEF ControlInv, ControlTypeOK
<1>1. ASSUME NEW u \in Threads, pc'[u] # "idle" PROVE frame'[u].session \in Uses[u]
  <2>1. CASE u # t
    BY <1>0, <1>1, <2>1, OtherThreads DEF UsesInv
  <2>2. CASE u = t /\ Begins(t)
    <3>1. CASE UNCHANGED <<pc, frame>>
      BY <1>1, <2>2, <3>1 DEF UsesInv
    <3>2. ASSUME NEW s \in Sessions, Commit(t, s) \/ Abort(t, s), frame'[t] = Entered(s)
          PROVE  frame'[t].session \in Uses[t]
      <4>1. owner[s] = t BY <3>2 DEF Commit, Abort
      <4>2. s \in Uses[t] BY <4>1, Constants DEF UsesInv
      <4> QED BY <3>2, <4>2 DEF Entered
    <3>3. ASSUME NEW s \in Sessions, NEW a \in Objects, NEW v \in Values \cup {Fresh},
                 Set(t, s, a, v), frame'[t] = [Entered(s) EXCEPT !.object = a, !.value = v]
          PROVE  frame'[t].session \in Uses[t]
      <4>1. s \in Uses[t] BY <3>3 DEF Set
      <4>2. frame'[t].session = s BY <3>3 DEF Entered
      <4> QED BY <4>1, <4>2
    <3>4. CASE \E s \in Sessions : /\ Commit(t, s) \/ Abort(t, s)
                                   /\ frame'[t] = Entered(s)
                                   /\ pc'[t] \in {"content", "abort"}
      BY <2>2, <3>2, <3>4
    <3>5. CASE \E s \in Sessions, a \in Objects, v \in Values \cup {Fresh} :
                  /\ Set(t, s, a, v)
                  /\ frame'[t] = [Entered(s) EXCEPT !.object = a, !.value = v]
                  /\ pc'[t] = "ensure"
      <4>1. PICK s \in Sessions, a \in Objects, v \in Values \cup {Fresh} :
                  /\ Set(t, s, a, v)
                  /\ frame'[t] = [Entered(s) EXCEPT !.object = a, !.value = v]
        BY <3>5
      <4> QED BY <2>2, <3>3, <4>1
    <3>6. \/ UNCHANGED <<pc, frame>>
          \/ \E s \in Sessions : /\ Commit(t, s) \/ Abort(t, s)
                                 /\ frame'[t] = Entered(s)
                                 /\ pc'[t] \in {"content", "abort"}
          \/ \E s \in Sessions, a \in Objects, v \in Values \cup {Fresh} :
                  /\ Set(t, s, a, v)
                  /\ frame'[t] = [Entered(s) EXCEPT !.object = a, !.value = v]
                  /\ pc'[t] = "ensure"
      BY <1>0, <2>2, BeginFrame
    <3> QED BY <3>1, <3>4, <3>5, <3>6
  <2>3. CASE u = t /\ Continues(t)
    BY <1>0, <1>1, <2>3, SameSession DEF UsesInv
  <2> QED BY <2>1, <2>2, <2>3
<1>2. ASSUME NEW s \in Sessions
      PROVE  /\ owner'[s] # None => s \in Uses[owner'[s]]
             /\ owner'[s] = None => write_set'[s] = {}
  <2>1. CASE owner'[s] = owner[s] /\ write_set'[s] = write_set[s]
    BY <2>1 DEF UsesInv
  <2>2. CASE Opens(t, s)
    <3>1. Ensure(t) => frame[t].session \in Uses[t] BY DEF Ensure, UsesInv
    <3> QED BY <2>2, <3>1, Constants DEF Opens
  <2>3. CASE Marks(t, s) \/ Grows(t, s)
    <3>1. owner'[s] = owner[s] /\ owner[s] # None
      <4>1. CASE Marks(t, s) BY <4>1 DEF Marks
      <4>2. CASE Grows(t, s)
        <5>1. InTransaction(t) /\ s = frame[t].session /\ owner'[s] = owner[s]
          BY <4>2 DEF Grows, Adopt, InTransaction, CommitLabels
        <5> QED BY <5>1, Constants DEF ControlInv, TransactionOwned
      <4> QED BY <2>3, <4>1, <4>2
    <3> QED BY <3>1 DEF UsesInv
  <2>4. CASE Closes(t, s)
    BY <2>4 DEF Closes
  <2> QED BY <1>0, <2>1, <2>2, <2>3, <2>4, TransactionStep
<1> QED BY <1>1, <1>2 DEF UsesInv

-------------------------------------------------------------------------------
LEMMA StartsQuiet ==
    ASSUME Init
    PROVE  /\ \A t \in Threads : pc[t] = "idle" /\ frame[t] = Entered(None)
           /\ \A s \in Sessions : owner[s] = None /\ write_set[s] = {}
BY DEF Init

LEMMA StartsMapped ==
    ASSUME Init
    PROVE  /\ \A a \in Address : map[a] = IF a <= ObjectCount + 2 THEN MaxAddress + a ELSE Unassigned
           /\ content \in [Cell -> Nat]
           /\ content[map[NextLogical]] = ObjectCount + 3
           /\ content[map[NextPhysical]] = MaxAddress + ObjectCount + 3
           /\ \A a \in Objects : content[map[a]] = Nil
<1>1. \A a \in Address : map[a] = IF a <= ObjectCount + 2 THEN MaxAddress + a ELSE Unassigned
  BY DEF Init
<1>2. \A a \in Objects \cup Counters :
          a \in Address /\ map[a] = MaxAddress + a /\ MaxAddress + a \in Cell
  BY <1>1, Numbers DEF Counters
<1>3. content = [p \in Cell |->
          CASE p = MaxAddress + NextLogical -> ObjectCount + 3
            [] p = MaxAddress + NextPhysical -> MaxAddress + ObjectCount + 3
            [] OTHER -> Nil]
  BY DEF Init
<1>4. \A p \in Cell : content[p] = ObjectCount + 3 \/ content[p] = MaxAddress + ObjectCount + 3
                                   \/ content[p] = Nil
  BY <1>3
<1>5. content \in [Cell -> Nat] BY <1>3, <1>4, Numbers DEF Nil
<1>6. MaxAddress + NextLogical # MaxAddress + NextPhysical
  BY Numbers DEF NextLogical, NextPhysical
<1>7. content[MaxAddress + NextLogical] = ObjectCount + 3
      /\ content[MaxAddress + NextPhysical] = MaxAddress + ObjectCount + 3
  BY <1>2, <1>3, <1>6 DEF Counters
<1>8. ASSUME NEW a \in Objects PROVE content[MaxAddress + a] = Nil
  <2>1. MaxAddress + a # MaxAddress + NextLogical /\ MaxAddress + a # MaxAddress + NextPhysical
    BY Numbers DEF NextLogical, NextPhysical, Objects
  <2> QED BY <1>2, <1>3, <2>1
<1> QED BY <1>1, <1>2, <1>5, <1>7, <1>8 DEF Counters

\* A session that persisted the first objects has the counters, and nothing else.
LEMMA StartsRead ==
    ASSUME Init, NEW s \in Sessions, NEW a \in Address
    PROVE  view[s][a] = Absent \/ (a \in Counters /\ view[s][a] = content[map[a]])
<1>1. a <= NextLogical => a \in Counters
  BY Numbers DEF NextLogical, NextPhysical, Counters
<1> QED BY <1>1 DEF Init

LEMMA DataInit == Init => DataInv /\ UsesInv
<1> SUFFICES ASSUME Init PROVE DataInv /\ UsesInv
  OBVIOUS
<1>1. ControlTypeOK BY ControlInit DEF ControlInv
<1>2. map \in [Address -> Cell \cup {Unassigned}]
  <2>1. \A a \in Address : a <= ObjectCount + 2 => MaxAddress + a \in Cell BY Numbers
  <2> QED BY <2>1 DEF Init
<1>3. \A a \in Counters : a \in Address /\ content[map[a]] \in Nat
  BY StartsMapped, Numbers, Constants DEF Counters
<1>4. view \in [Sessions -> [Address -> Nat \cup {Absent, Stub, Garbled, Fresh}]]
  <2>1. view = [s \in Sessions |-> [a \in Address |-> view[s][a]]] BY DEF Init
  <2>2. \A s \in Sessions, a \in Address : view[s][a] \in Nat \cup {Absent, Stub, Garbled, Fresh}
    BY <1>3, StartsRead
  <2> QED BY <2>1, <2>2
<1>5. TypeOK BY <1>1, <1>2, <1>4, StartsMapped DEF TypeOK
<1>6. FirstMapped BY StartsMapped, Numbers DEF FirstMapped
<1>7. ChangedHeld BY StartsQuiet DEF ChangedHeld
<1>8. LocalsHeld BY StartsQuiet DEF LocalsHeld, Entered
<1>9. ViewsHeld
  <2> SUFFICES ASSUME NEW s \in Sessions, NEW a \in Address
               PROVE  /\ view[s][a] # Fresh
                      /\ map[a] = Unassigned => view[s][a] = Absent
    BY DEF ViewsHeld
  <2>1. a \in Counters => map[a] # Unassigned BY <1>6, Numbers DEF FirstMapped, Counters
  <2>2. a \in Counters => content[map[a]] # Fresh BY <1>3, MarksApart
  <2> QED BY <2>1, <2>2, StartsRead, MarksApart
<1>10. UsesInv BY StartsQuiet, Constants DEF UsesInv
<1> QED BY <1>5, <1>6, <1>7, <1>8, <1>9, <1>10 DEF DataInv

LEMMA DataStep ==
    ASSUME ControlInv, DataInv, UsesInv, NEW t \in Threads, Begins(t) \/ Continues(t)
    PROVE  ControlInv' /\ DataInv' /\ UsesInv'
<1>1. ControlInv' BY ControlStep DEF Next
<1>2. ControlTypeOK' BY <1>1 DEF ControlInv
<1>3. DataInv'
  BY <1>2, TypesStep, FirstMappedStep, ChangedHeldStep, LocalsHeldStep, ViewsHeldStep
  DEF DataInv
<1> QED BY <1>1, <1>3, UsesStep

LEMMA DataStutter ==
    ASSUME ControlInv, DataInv, UsesInv, UNCHANGED vars
    PROVE  ControlInv' /\ DataInv' /\ UsesInv'
<1>1. ControlInv' BY ControlStep
<1>2. TypeOK' BY <1>1 DEF ControlInv, DataInv, TypeOK, vars
<1>3. FirstMapped' /\ ChangedHeld' /\ ViewsHeld'
  BY DEF DataInv, FirstMapped, ChangedHeld, ViewsHeld, IsObject, vars
<1>4. LocalsHeld' BY DEF DataInv, LocalsHeld, IsObject, Due, vars
<1>5. UsesInv' BY DEF UsesInv, vars
<1> QED BY <1>1, <1>2, <1>3, <1>4, <1>5 DEF DataInv

(***************************************************************************)
(* The data of the sessions and of the store keep their types: a commit    *)
(* writes words, an adoption assigns addresses, whoever calls.             *)
(***************************************************************************)
THEOREM TypeCorrectness == Spec => []TypeOK
<1>1. Init => ControlInv /\ DataInv /\ UsesInv BY ControlInit, DataInit
<1>2. ControlInv /\ DataInv /\ UsesInv /\ [Next]_vars => (ControlInv /\ DataInv /\ UsesInv)'
  BY DataStep, DataStutter DEF Next
<1>3. DataInv => TypeOK BY DEF DataInv
<1> QED BY <1>1, <1>2, <1>3, PTL DEF Spec

===============================================================================
