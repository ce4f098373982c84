------------------------ MODULE TransactionsStoreProofs ------------------------
(***************************************************************************)
(* Proofs about what commits leave in the store: that what one writes is   *)
(* not written over, that the addresses they assign are distinct, that     *)
(* what they store refers to stored objects, and that every session is     *)
(* told.  The parts of the invariant need each other, so that it is one.   *)
(***************************************************************************)
EXTENDS TransactionsDataProofs

USE DEF store, current, GoTo

\* No two addresses share a place.
Injective == \A a, b \in Persisted : map[a] = map[b] => a = b

\* The counters are changed by a commit that assigns addresses, and only by it.
CountersQuiet ==
    \A s \in Sessions : write_set[s] \cap Counters # {} =>
        ~Blocking /\ \E t \in Threads : pc[t] \in {"scan", "write"} /\ frame[t].session = s

(***************************************************************************)
(* What every session has of an object, and what is stored of it, are      *)
(* integers and addresses of persisted objects, and no other object refers *)
(* to those.                                                               *)
(***************************************************************************)
Words(a) == {content[map[a]]} \cup {view[s][a] : s \in Sessions}

WordsInv ==
    /\ \A a \in Objects : Words(a) \cap Nat \subseteq {Nil} \cup Values \cup Persisted
    /\ \A a, b \in Objects : Words(a) \cap Words(b) \cap Address # {} => a = b

(***************************************************************************)
(* The counters are past every address and every place.                    *)
(***************************************************************************)
Past(logical, physical) == \A a \in Persisted : a < logical /\ map[a] < physical

StoredPast == Past(content[map[NextLogical]], content[map[NextPhysical]])

AheadInv ==
    /\ (\A t \in Threads : pc[t] \notin {"scan", "write"}) \/ Blocking => StoredPast
    /\ \A t \in Threads : pc[t] \in {"scan", "write"} /\ ~Blocking =>
          Past(Counter(frame[t].session, NextLogical), Counter(frame[t].session, NextPhysical))

(***************************************************************************)
(* No two threads use the same session.                                    *)
(***************************************************************************)
Unshared == \A t, u \in Threads : t = u \/ Uses[t] \cap Uses[u] = {}

\* The address a is still to be refreshed in session s by the call of t.
Pending(t, s, a) ==
    \/ pc[t] = "write" /\ s # frame[t].session /\ a \in write_set[frame[t].session]
    \/ /\ pc[t] \in {"list", "notify", "refresh", "reread"} /\ ~Undoing(t)
       /\ s \in frame[t].others /\ a \in frame[t].changed
    \/ pc[t] \in {"refresh", "reread"} /\ s = frame[t].target /\ a \in frame[t].todo

\* What a session has changed, and an abort has not undone yet.
Changed(s) ==
    {a \in write_set[s] :
        \A t \in Threads : Undoing(t) /\ frame[t].session = s => a \in frame[t].todo}

Synced ==
    \A s \in Sessions, a \in Address :
        IsObject(view[s][a]) /\ a \notin Changed(s) =>
            view[s][a] = content[map[a]] \/ \E t \in Threads : Pending(t, s, a)

\* A set marks its object in the transaction it is part of, and a commit that
\* has scanned its objects has adopted every new one.
CallsMarked ==
    \A t \in Threads :
        /\ pc[t] \in {"mark", "store"} => owner[frame[t].session] = t
        /\ pc[t] = "store" => frame[t].object \in write_set[frame[t].session]
        /\ pc[t] = "write" => Unadopted(frame[t].session) = {}

SyncInv == Unshared => Synced /\ CallsMarked

StoreInv ==
    /\ DataInv /\ UsesInv /\ Injective /\ CountersQuiet /\ WordsInv /\ AheadInv
    /\ WrittenStays /\ SyncInv


-------------------------------------------------------------------------------
(***************************************************************************)
(* Where sem_wait blocks, a call that waits for the session it has waited  *)
(* for already stays there: nothing is adopted and nothing is refreshed.   *)
(* Where it does not block there is one thread.                            *)
(***************************************************************************)
LEMMA WaitsForItself ==
    ASSUME ControlInv, NEW t \in Threads, Adopt(t) \/ Reread(t)
    PROVE  ~Blocking /\ \A u \in Threads : u = t
<1>1. ASSUME NEW x \in Sessions, Holds(t, x), Available(x) PROVE ~Blocking
  <2>1. Blocking => available[x] = 0
    BY <1>1, Constants DEF ControlInv, Excluded
  <2>2. Blocking => available[x] > 0 BY <1>1 DEF Available
  <2> QED BY <2>1, <2>2
<1>2. CASE Adopt(t)
  <2>1. pc[t] = "scan" /\ Available(frame[t].session) BY <1>2 DEF Adopt
  <2>2. frame[t].session \in Sessions BY <2>1, Calls
  <2>3. Holds(t, frame[t].session) BY <2>1, <2>2 DEF Holds
  <2> QED BY <1>1, <2>1, <2>2, <2>3, ConstantsAssumption
<1>3. CASE Reread(t)
  <2>1. pc[t] = "reread" /\ Available(frame[t].target) BY <1>3 DEF Reread
  <2>2. frame[t].target \in Sessions BY <2>1, Calls
  <2>3. Holds(t, frame[t].target) BY <2>1, <2>2 DEF Holds
  <2> QED BY <1>1, <2>1, <2>2, <2>3, ConstantsAssumption
<1> QED BY <1>2, <1>3

\* The steps between which a thread has the content to write.
LEMMA AtWrite ==
    ASSUME ControlTypeOK, NEW t \in Threads, Begins(t) \/ Continues(t)
    PROVE  /\ pc[t] \in {"scan", "write"} => Adopt(t) \/ Scanned(t) \/ Write(t) \/ Finish(t)
           /\ pc'[t] \in {"scan", "write"} => LockSession(t) \/ Adopt(t) \/ Scanned(t) \/ Write(t)
           /\ pc'[t] = "write" => Scanned(t) \/ Write(t)
<1>0. pc \in [Threads -> Labels] BY DEF ControlTypeOK
<1>1. CASE Begins(t)
  <2>1. pc[t] = "idle" /\ pc'[t] \in {"idle", "ensure", "content", "abort"}
    BY <1>0, <1>1 DEF Begins, AtAddress, Begin, Commit, Abort, Set
  <2> QED BY <2>1
<1>2. CASE Continues(t)
  <2>1. CASE LockSession(t) \/ Adopt(t) \/ Scanned(t) \/ Write(t) \/ Finish(t)
    BY <1>0, <2>1 DEF LockSession, Adopt, Scanned, Finish
  <2>2. CASE Ensure(t) \/ MarkDirty(t) \/ Store(t) \/ LockContent(t) \/ LockList(t)
             \/ (\E s \in Sessions : Notify(t, s))
    BY <1>0, <2>2 DEF Ensure, MarkDirty, Store, Return, LockContent, LockList, Notify
  <2>3. CASE EndCommit(t) \/ LockForRefresh(t) \/ Reread(t) \/ EndNotify(t) \/ LockAbort(t)
             \/ EndAbort(t)
    BY <1>0, <2>3 DEF EndCommit, Return, LockForRefresh, Reread, EndNotify, LockAbort, EndAbort
  <2> QED BY <1>2, <2>1, <2>2, <2>3 DEF Continues
<1> QED BY <1>1, <1>2

\* A write changes what is stored of one address.
LEMMA WritesOne ==
    ASSUME ControlInv, DataInv, Injective, NEW t \in Threads, Write(t),
           NEW a \in Address, map[a] # Unassigned
    PROVE  content'[map[a]] = IF a = Least(frame[t].todo)
                              THEN Word(view[frame[t].session][a]) ELSE content[map[a]]
<1> DEFINE x == Least(frame[t].todo)
<1>1. /\ x \in Address /\ map[x] \in Cell
      /\ content' = [content EXCEPT ![map[x]] = Word(view[frame[t].session][x])]
  BY WriteFacts
<1>2. content \in [Cell -> Nat] /\ map[a] \in Cell BY DEF DataInv, TypeOK
<1> HIDE DEF x
<1>3. a # x => map[a] # map[x] BY <1>1, Numbers DEF Injective, Persisted
<1>4. content'[map[a]] = IF a = x THEN Word(view[frame[t].session][a]) ELSE content[map[a]]
  BY <1>1, <1>2, <1>3
<1> QED BY <1>4 DEF x

\* What an adoption maps had no address, and its place was free.
LEMMA AdoptsNew ==
    ASSUME ControlInv, DataInv, AheadInv, NEW t \in Threads, Adopt(t)
    PROVE  LET s == frame[t].session
           IN  /\ Past(Counter(s, NextLogical), Counter(s, NextPhysical))
               /\ map[Counter(s, NextLogical)] = Unassigned
<1> DEFINE s == frame[t].session
<1>1. pc[t] = "scan" /\ s \in Sessions /\ Counter(s, NextLogical) \in Address
  BY AdoptFacts
<1>2. ~Blocking BY WaitsForItself
<1>3. Past(Counter(s, NextLogical), Counter(s, NextPhysical)) BY <1>1, <1>2 DEF AheadInv
<1>4. \A l \in Address : \A p : Past(l, p) => l \notin Persisted
  BY Numbers DEF Past, Persisted
<1>5. Counter(s, NextLogical) \notin Persisted BY <1>1, <1>3, <1>4
<1> QED BY <1>1, <1>3, <1>5 DEF Persisted

LEMMA InjectiveStep ==
    ASSUME ControlInv, DataInv, AheadInv, Injective, NEW t \in Threads, Begins(t) \/ Continues(t)
    PROVE  Injective'
<1>1. CASE Adopt(t)
  <2> DEFINE l == Counter(frame[t].session, NextLogical)
             p == Counter(frame[t].session, NextPhysical)
  <2>1. l \in Address /\ p \in Cell /\ map' = [map EXCEPT ![l] = p] BY <1>1, AdoptFacts
  <2>2. Past(l, p) /\ map[l] = Unassigned BY <1>1, AdoptsNew
  <2>3. map \in [Address -> Cell \cup {Unassigned}] BY DEF DataInv, TypeOK
  <2> HIDE DEF l, p
  <2>4. ASSUME NEW a \in Address, map'[a] # Unassigned, a # l
        PROVE  a \in Persisted /\ map'[a] = map[a] /\ map[a] # p
    BY <2>1, <2>2, <2>3, <2>4, Numbers DEF Past, Persisted
  <2>5. map'[l] = p BY <2>1, <2>3
  <2> SUFFICES ASSUME NEW a \in Address, NEW b \in Address, map'[a] # Unassigned,
                      map'[b] # Unassigned, map'[a] = map'[b]
               PROVE  a = b
    BY DEF Injective, Persisted
  <2> QED BY <2>4, <2>5 DEF Injective
<1>2. CASE map' = map
  BY <1>2 DEF Injective, Persisted
<1> QED BY <1>1, <1>2, StoreStep

LEMMA CountersQuietStep ==
    ASSUME ControlInv, DataInv, CountersQuiet, NEW t \in Threads, Begins(t) \/ Continues(t)
    PROVE  CountersQuiet'
<1> SUFFICES ASSUME NEW s \in Sessions, NEW c \in Counters, c \in write_set'[s]
             PROVE  /\ ~Blocking
                    /\ \E u \in Threads : pc'[u] \in {"scan", "write"} /\ frame'[u].session = s
  BY DEF CountersQuiet
<1>0. ControlTypeOK /\ pc \in [Threads -> Labels] BY DEF ControlInv, ControlTypeOK
<1>1. CASE c \in write_set[s] /\ write_set'[s] = write_set[s]
  <2>1. PICK u \in Threads : pc[u] \in {"scan", "write"} /\ frame[u].session = s
    BY <1>1 DEF CountersQuiet
  <2>2. ~Blocking BY <1>1 DEF CountersQuiet
  <2>3. u = t BY <2>2, ConstantsAssumption
  <2>4. CASE Finish(t)
    <3>1. s = frame[t].session /\ write_set' = [write_set EXCEPT ![s] = {}]
      BY <2>1, <2>3, <2>4 DEF Finish
    <3> QED BY <1>0, <1>1, <3>1 DEF ControlTypeOK
  <2>5. CASE Adopt(t) \/ Scanned(t) \/ Write(t)
    <3>1. pc'[t] \in {"scan", "write"} BY <1>0, <2>1, <2>3, <2>5 DEF Adopt, Scanned, Write
    <3>2. frame'[t].session = frame[t].session
      BY <1>0, <2>5, OwnLocals DEF Adopt
    <3> QED BY <2>1, <2>2, <2>3, <3>1, <3>2
  <2> QED BY <1>0, <2>1, <2>3, <2>4, <2>5, AtWrite
<1>2. CASE Marks(t, s)
  <2>1. frame[t].object \in Objects BY <1>2 DEF Marks, MarkDirty, DataInv, LocalsHeld
  <2>2. c # frame[t].object BY <2>1, Numbers DEF Counters
  <2>3. c \in write_set[s] BY <1>2, <2>2 DEF Marks
  <2>4. PICK u \in Threads : pc[u] \in {"scan", "write"} /\ frame[u].session = s
    BY <2>3 DEF CountersQuiet
  <2>5. ~Blocking BY <2>3 DEF CountersQuiet
  <2>6. u = t /\ pc[t] = "mark" BY <1>2, <2>5, ConstantsAssumption DEF Marks, MarkDirty
  <2> QED BY <2>4, <2>6
<1>3. CASE Grows(t, s)
  <2>1. Adopt(t) /\ s = frame[t].session BY <1>3 DEF Grows
  <2>2. pc'[t] = "scan" /\ frame'[t].session = s BY <2>1, AdoptFacts
  <2>3. ~Blocking BY <2>1, WaitsForItself
  <2> QED BY <2>2, <2>3
<1> QED BY <1>0, <1>1, <1>2, <1>3, TransactionStep DEF Opens, Closes

\* A word of an object is one it had, no address, or the address of a new object.
LEMMA WordsKept ==
    ASSUME ControlInv, DataInv, Injective, AheadInv,
           NEW t \in Threads, Begins(t) \/ Continues(t),
           NEW a \in Objects, NEW w, w \in Words(a)'
    PROVE  \/ w \in Words(a) \/ w \notin Nat \/ w \in {Nil} \cup Values
           \/ /\ Adopt(t) /\ w = Counter(frame[t].session, NextLogical)
              /\ a = Least(Unadopted(frame[t].session))
<1>0. /\ a \in Address /\ map[a] # Unassigned /\ map[a] \in Cell
      /\ content[map[a]] \in Words(a)
      /\ \A s \in Sessions : view[s][a] \in Words(a)
      /\ ViewsTyped
  BY Numbers DEF DataInv, FirstMapped, TypeOK, Words, ViewsTyped
<1>1. map'[a] = map[a]
  <2>1. CASE Adopt(t)
    <3>1. \E l \in Address : map[l] = Unassigned /\ \E p \in Cell : map' = [map EXCEPT ![l] = p]
      BY <2>1, AdoptFacts, AdoptsNew
    <3> QED BY <1>0, <3>1 DEF DataInv, TypeOK
  <2> QED BY <2>1, StoreStep
<1>2. CASE w = content'[map'[a]]
  <2>1. CASE Write(t)
    <3>1. frame[t].session \in Sessions BY <2>1, WriteFacts
    <3>2. a = Least(frame[t].todo) => IsObject(view[frame[t].session][a])
      BY <2>1, WriteFacts
    <3>3. w = IF a = Least(frame[t].todo) THEN Word(view[frame[t].session][a])
              ELSE content[map[a]]
      BY <1>0, <1>1, <1>2, <2>1, WritesOne
    <3> QED BY <1>0, <3>1, <3>2, <3>3, ObjectWords
  <2>2. CASE content' = content
    BY <1>0, <1>1, <1>2, <2>2
  <2> QED BY <2>1, <2>2, StoreStep
<1>3. ASSUME NEW s \in Sessions, w = view'[s][a]
      PROVE  \/ w \in Words(a) \/ w \notin Nat \/ w \in {Nil} \cup Values
             \/ /\ Adopt(t) /\ w = Counter(frame[t].session, NextLogical)
                /\ a = Least(Unadopted(frame[t].session))
  <2>1. CASE Reads(s, a) \/ Refreshes(t, s, a)
    BY <1>0, <1>3, <2>1, MarksApart DEF Reads, Refreshes
  <2>2. CASE Stores(t, s, a)
    BY <1>3, <2>2, MarksApart DEF Stores, DataInv, LocalsHeld
  <2>3. CASE AdoptsAt(t, s, a)
    <3> DEFINE l == Counter(s, NextLogical)
               x == Least(Unadopted(s))
    <3>1. Adopt(t) /\ s = frame[t].session BY <2>3 DEF AdoptsAt
    <3>2. map[l] = Unassigned BY <3>1, AdoptsNew
    <3>3. a # l BY <1>0, <3>2
    <3>4. a # NextLogical /\ a # NextPhysical BY Numbers
    <3>5. view'[s][a] = IF a = x THEN l ELSE view[s][a]
      BY <2>3, <3>3, <3>4 DEF AdoptsAt
    <3> QED BY <1>0, <1>3, <3>1, <3>5
  <2> QED BY <1>0, <1>3, <2>1, <2>2, <2>3, ViewStep
<1>4. w = content'[map'[a]] \/ \E s \in Sessions : w = view'[s][a]
  BY DEF Words
<1> QED BY <1>2, <1>3, <1>4

LEMMA WordsStep ==
    ASSUME ControlInv, DataInv, Injective, AheadInv, WordsInv,
           NEW t \in Threads, Begins(t) \/ Continues(t)
    PROVE  WordsInv'
<1> DEFINE l == Counter(frame[t].session, NextLogical)
           x == Least(Unadopted(frame[t].session))
           New(a, w) == Adopt(t) /\ w = l /\ a = x
<1>1. ASSUME Adopt(t) PROVE l \in Address /\ l \notin Persisted /\ l \in Persisted'
  <2>1. l \in Address /\ Counter(frame[t].session, NextPhysical) \in Cell
        /\ map'[l] = Counter(frame[t].session, NextPhysical)
    BY <1>1, AdoptFacts
  <2>2. map[l] = Unassigned BY <1>1, AdoptsNew
  <2> HIDE DEF l
  <2>3. map'[l] # Unassigned BY <2>1, Numbers
  <2> QED BY <2>1, <2>2, <2>3 DEF Persisted
<1>2. Persisted \subseteq Persisted' BY MappedStays DEF Persisted
<1>3. ASSUME NEW a \in Objects, NEW w, w \in Words(a)', w \in Nat
      PROVE  \/ w \in {Nil} \cup Values
             \/ w \in Words(a) /\ w \in Persisted
             \/ New(a, w)
  BY <1>3, WordsKept DEF WordsInv
<1> HIDE DEF l, x
<1>4. ASSUME NEW a \in Objects, NEW w, w \in Words(a)', w \in Nat
      PROVE  w \in {Nil} \cup Values \cup Persisted'
  BY <1>1, <1>2, <1>3, <1>4
<1>5. ASSUME NEW a \in Objects, NEW b \in Objects, NEW w, w \in Words(a)', w \in Words(b)',
             w \in Address
      PROVE  a = b
  <2>1. w \in Nat /\ w \notin {Nil} \cup Values BY <1>5, Numbers DEF Nil
  <2>2. \/ w \in Words(a) /\ w \in Persisted
        \/ New(a, w)
    BY <1>3, <1>5, <2>1
  <2>3. \/ w \in Words(b) /\ w \in Persisted
        \/ New(b, w)
    BY <1>3, <1>5, <2>1
  <2> QED BY <1>1, <1>5, <2>2, <2>3 DEF WordsInv
<1> QED BY <1>4, <1>5 DEF WordsInv

-------------------------------------------------------------------------------
\* The session of another thread, when no two threads share one.
LEMMA NotTheirs ==
    ASSUME ControlInv, UsesInv, NEW t \in Threads, Begins(t) \/ Continues(t),
           NEW s \in Sessions, s \notin Uses[t]
    PROVE  /\ owner'[s] = owner[s] /\ write_set'[s] = write_set[s]
           /\ pc[t] # "idle" => s # frame[t].session
<1>1. pc[t] # "idle" => frame[t].session \in Uses[t] BY DEF UsesInv
<1>2. ControlTypeOK BY DEF ControlInv
<1>3. ~Opens(t, s) BY <1>1 DEF Opens, Ensure
<1>4. ~Marks(t, s) BY <1>1 DEF Marks, MarkDirty
<1>5. ~Grows(t, s) BY <1>1 DEF Grows, Adopt
<1>6. ~Closes(t, s) BY <1>1 DEF Closes, Finish, EndAbort
<1> QED BY <1>1, <1>2, <1>3, <1>4, <1>5, <1>6, TransactionStep

\* A counter that the session of a commit has not changed is the stored one.
LEMMA CounterStored ==
    ASSUME ControlInv, DataInv, SyncInv, NEW t \in Threads, \A u \in Threads : u = t,
           pc[t] \in {"session", "scan", "write"}, NEW c \in Counters,
           c \notin write_set[frame[t].session]
    PROVE  Counter(frame[t].session, c) = content[map[c]]
<1> DEFINE s == frame[t].session
<1>1. s \in Sessions /\ c \in Address BY Calls, Constants DEF Counters
<1>2. Unshared BY DEF Unshared
<1>3. Synced BY <1>2 DEF SyncInv
<1>4. c \notin Changed(s) BY DEF Changed
<1>5. \A u \in Threads : ~Pending(u, s, c) BY DEF Pending
<1> QED BY <1>1, <1>3, <1>4, <1>5 DEF Synced, Counter

\* A counter that it has changed and written is.
LEMMA CounterWritten ==
    ASSUME ControlInv, DataInv, WrittenStays, SyncInv, NEW t \in Threads,
           \A u \in Threads : u = t, Finish(t), NEW c \in Counters
    PROVE  Counter(frame[t].session, c) = content[map[c]]
<1> DEFINE s == frame[t].session
<1>1. pc[t] = "write" /\ frame[t].todo = {} BY DEF Finish
<1>2. s \in Sessions /\ c \in Address BY <1>1, Calls, Constants DEF Counters
<1>3. CASE c \in write_set[s]
  <2>1. Private(t, s) BY DEF Private
  <2>2. content[map[c]] = Word(view[s][c]) BY <1>1, <1>3, <2>1 DEF WrittenStays
  <2>3. IsObject(view[s][c]) BY <1>2, <1>3 DEF DataInv, ChangedHeld
  <2>4. view[s][c] # Fresh BY <1>2, CountersTyped DEF Counters
  <2> QED BY <2>2, <2>3, <2>4 DEF Counter, Word
<1>4. CASE c \notin write_set[s]
  BY <1>1, <1>4, CounterStored
<1> QED BY <1>3, <1>4

LEMMA AheadStep ==
    ASSUME ControlInv, DataInv, Injective, CountersQuiet, AheadInv, WrittenStays, SyncInv,
           NEW t \in Threads, Begins(t) \/ Continues(t)
    PROVE  AheadInv'
<1> DEFINE C(s, a) == IF IsObject(view'[s][a]) THEN view'[s][a] ELSE content'[map'[a]]
           Past1(logical, physical) ==
             \A a \in Address : map'[a] # Unassigned => a < logical /\ map'[a] < physical
           Stored1 == Past1(content'[map'[NextLogical]], content'[map'[NextPhysical]])
           Read1(s) == Past1(C(s, NextLogical), C(s, NextPhysical))
<1>1. ASSUME (\A u \in Threads : pc'[u] \notin {"scan", "write"}) \/ Blocking => Stored1,
             \A u \in Threads : pc'[u] \in {"scan", "write"} /\ ~Blocking => Read1(frame'[u].session)
      PROVE  AheadInv'
  BY <1>1 DEF AheadInv, StoredPast, Past, Persisted, Counter, IsObject
<1>2. /\ ControlTypeOK /\ NextLogical \in Address /\ NextPhysical \in Address
      /\ map[NextLogical] # Unassigned /\ map[NextPhysical] # Unassigned
  BY Constants, Numbers DEF ControlInv, DataInv, FirstMapped
<1>3. CASE Blocking
  <2>1. map' = map BY <1>3, StoreStep, WaitsForItself
  <2>2. content'[map[NextLogical]] = content[map[NextLogical]]
        /\ content'[map[NextPhysical]] = content[map[NextPhysical]]
    <3>1. CASE Write(t)
      <4>1. /\ frame[t].session \in Sessions
            /\ Least(frame[t].todo) \in write_set[frame[t].session]
        BY <3>1, WriteFacts
      <4>2. Least(frame[t].todo) \notin Counters BY <1>3, <4>1 DEF CountersQuiet
      <4> QED BY <1>2, <3>1, <4>2, WritesOne DEF Counters
    <3> QED BY <3>1, StoreStep
  <2>3. StoredPast BY <1>3 DEF AheadInv
  <2>4. Stored1 BY <2>1, <2>2, <2>3 DEF StoredPast, Past, Persisted
  <2> QED BY <1>1, <1>3, <2>4
<1>4. CASE ~Blocking
  <2>0. \A u \in Threads : u = t BY <1>4, ConstantsAssumption
  <2> SUFFICES /\ pc'[t] \notin {"scan", "write"} => Stored1
               /\ pc'[t] \in {"scan", "write"} => Read1(frame'[t].session)
    BY <1>1, <1>4, <2>0
  <2>1. CASE pc[t] \notin {"scan", "write"} /\ pc'[t] \notin {"scan", "write"}
    <3>1. content' = content /\ map' = map BY <2>1, StoreStep DEF Adopt, Write
    <3>2. StoredPast BY <2>0, <2>1 DEF AheadInv
    <3> QED BY <2>1, <3>1, <3>2 DEF StoredPast, Past, Persisted
  <2>2. CASE pc[t] \notin {"scan", "write"} /\ pc'[t] \in {"scan", "write"}
    <3>1. LockSession(t) BY <1>2, <2>2, AtWrite DEF Adopt, Scanned, Write
    <3>2. /\ pc[t] = "session" /\ content' = content /\ map' = map /\ view' = view /\ frame' = frame
      BY <3>1 DEF LockSession
    <3>3. frame[t].session \in Sessions BY <3>2, Calls
    <3>4. \A c \in Counters : c \notin write_set[frame[t].session]
      BY <2>0, <2>2, <3>3 DEF CountersQuiet
    <3>5. \A c \in Counters : Counter(frame[t].session, c) = content[map[c]]
      BY <2>0, <3>2, <3>4, CounterStored
    <3>6. StoredPast BY <2>0, <2>2 DEF AheadInv
    <3>7. \A c \in Counters : C(frame'[t].session, c) = content[map[c]]
      BY <3>2, <3>5 DEF Counter
    <3>8. Read1(frame'[t].session)
      BY <3>2, <3>6, <3>7 DEF StoredPast, Past, Persisted, Counters
    <3> QED BY <2>2, <3>8
  <2>3. CASE pc[t] \in {"scan", "write"} /\ pc'[t] \in {"scan", "write"}
    <3> DEFINE s == frame[t].session
    <3>1. Past(Counter(s, NextLogical), Counter(s, NextPhysical))
      BY <1>4, <2>3 DEF AheadInv
    <3>2. s \in Sessions BY <2>3, Calls
    <3>3. CASE Adopt(t)
      <4> DEFINE l == Counter(s, NextLogical)
                 p == Counter(s, NextPhysical)
                 x == Least(Unadopted(s))
      <4>1. /\ l \in Address /\ p \in Cell /\ map' = [map EXCEPT ![l] = p] /\ frame' = frame
            /\ map[l] = Unassigned /\ x \in Objects
        BY <3>3, AdoptFacts, AdoptsNew
      <4>2. AdoptsAt(t, s, NextLogical) /\ AdoptsAt(t, s, NextPhysical)
        BY <1>2, <3>2, <3>3, AdoptView DEF DataInv, TypeOK, ViewsTyped
      <4>3. NextLogical # l /\ NextPhysical # l /\ NextLogical # x /\ NextPhysical # x
        BY <1>2, <4>1, Numbers
      <4>4. view'[s][NextLogical] = l + 1 /\ view'[s][NextPhysical] = p + 1
        BY <4>2, <4>3, Numbers DEF AdoptsAt
      <4> HIDE DEF l, p, x
      <4>5. l \in Nat /\ p \in Nat BY <4>1, Numbers
      <4>6. C(s, NextLogical) = l + 1 /\ C(s, NextPhysical) = p + 1
        BY <4>4, <4>5, ObjectWords
      <4>7. \A a \in Address : map[a] # Unassigned => a < l /\ map[a] < p
        BY <3>1 DEF Past, Persisted, l, p
      <4>8. map \in [Address -> Cell \cup {Unassigned}] BY DEF DataInv, TypeOK
      <4>9. ASSUME NEW a \in Address, map'[a] # Unassigned
            PROVE  a < l + 1 /\ map'[a] < p + 1
        <5>1. a \in Nat /\ (map[a] # Unassigned => map[a] \in Nat) BY <4>8, Numbers
        <5>2. CASE a = l
          <6>1. map'[a] = p BY <4>1, <4>8, <5>2
          <6> QED BY <4>5, <5>2, <6>1
        <5>3. CASE a # l
          <6>1. map'[a] = map[a] BY <4>1, <4>8, <5>3
          <6> QED BY <4>5, <4>7, <4>9, <5>1, <6>1
        <5> QED BY <5>2, <5>3
      <4> QED BY <2>3, <4>1, <4>6, <4>9
    <3>4. CASE Scanned(t) \/ Write(t)
      <4>1. view' = view /\ map' = map /\ frame'[t].session = s
        BY <1>2, <3>4, OwnLocals DEF Scanned, Write
      <4>2. ASSUME NEW c \in Counters PROVE C(s, c) = Counter(s, c)
        <5>1. CASE IsObject(view[s][c])
          BY <4>1, <5>1 DEF Counter
        <5>2. CASE ~IsObject(view[s][c])
          <6>1. c \notin write_set[s] BY <3>2, <5>2 DEF DataInv, ChangedHeld
          <6>2. content'[map[c]] = content[map[c]]
            <7>1. CASE Write(t)
              <8>1. Least(frame[t].todo) \in write_set[s] BY <7>1, WriteFacts
              <8> QED BY <1>2, <6>1, <7>1, <8>1, WritesOne DEF Counters
            <7>2. CASE Scanned(t) BY <7>2 DEF Scanned
            <7> QED BY <3>4, <7>1, <7>2
          <6> QED BY <4>1, <5>2, <6>2 DEF Counter
        <5> QED BY <5>1, <5>2
      <4>3. C(s, NextLogical) = Counter(s, NextLogical)
            /\ C(s, NextPhysical) = Counter(s, NextPhysical)
        BY <4>2 DEF Counters
      <4> HIDE DEF C
      <4>4. Past1(Counter(s, NextLogical), Counter(s, NextPhysical))
        BY <3>1, <4>1, Zenon DEF Past, Persisted
      <4>5. Read1(s) BY <4>3, <4>4
      <4> QED BY <2>3, <4>1, <4>5
    <3>5. ~Finish(t) BY <1>2, <2>3 DEF Finish, ControlTypeOK
    <3> QED BY <1>2, <2>3, <3>3, <3>4, <3>5, AtWrite
  <2>4. CASE pc[t] \in {"scan", "write"} /\ pc'[t] \notin {"scan", "write"}
    <3>1. Finish(t)
      <4>1. pc \in [Threads -> Labels] BY <1>2 DEF ControlTypeOK
      <4> QED BY <1>2, <2>4, <4>1, AtWrite DEF Adopt, Scanned, Write
    <3>2. content' = content /\ map' = map BY <3>1 DEF Finish
    <3>3. \A c \in Counters : Counter(frame[t].session, c) = content[map[c]]
      BY <2>0, <3>1, CounterWritten
    <3>4. Past(Counter(frame[t].session, NextLogical), Counter(frame[t].session, NextPhysical))
      BY <1>4, <2>4 DEF AheadInv
    <3>5. Past(content[map[NextLogical]], content[map[NextPhysical]])
      BY <3>3, <3>4 DEF Counters
    <3> QED BY <2>4, <3>2, <3>5 DEF Past, Persisted
  <2> QED BY <2>1, <2>2, <2>3, <2>4
<1> QED BY <1>3, <1>4, ConstantsAssumption

-------------------------------------------------------------------------------
LEMMA WrittenStep ==
    ASSUME ControlInv, DataInv, UsesInv, Injective, AheadInv, WrittenStays,
           NEW t \in Threads, Begins(t) \/ Continues(t)
    PROVE  WrittenStays'
<1> SUFFICES ASSUME NEW u \in Threads, pc'[u] = "write", Private(u, frame'[u].session),
                    NEW a \in write_set'[frame'[u].session], a \notin frame'[u].todo
             PROVE  content'[map'[a]] = Word(view'[frame'[u].session][a])
  BY DEF WrittenStays, Private
<1> DEFINE s == frame[u].session
<1>0. ControlTypeOK /\ ViewsTyped
  BY DEF ControlInv, DataInv, TypeOK, ViewsTyped
<1>1. CASE u # t
  <2>1. pc[u] = "write" /\ frame'[u] = frame[u] BY <1>0, <1>1, OtherThreads
  <2>2. s \in Sessions /\ s \in Uses[u] /\ s \notin Uses[t]
    BY <1>1, <2>1, Calls DEF UsesInv, Private
  <2>3. write_set'[s] = write_set[s] /\ (pc[t] # "idle" => s # frame[t].session)
    BY <2>2, NotTheirs
  <2>4. Blocking BY <1>1, ConstantsAssumption
  <2>5. a \in write_set[s] /\ a \in Address /\ IsObject(view[s][a]) /\ map[a] # Unassigned
    BY <1>0, <2>1, <2>2, <2>3 DEF DataInv, ChangedHeld, ControlTypeOK
  <2>6. ~Write(t)
    <3>1. ASSUME Write(t) PROVE FALSE
      <4>1. Holds(t, "content") /\ Holds(u, "content") BY <2>1, <3>1 DEF Write, Holds
      <4> QED BY <1>1, <2>4, <4>1, Constants DEF ControlInv, Excluded
    <3> QED BY <3>1
  <2>7. content' = content /\ map' = map BY <2>4, <2>6, StoreStep, WaitsForItself
  <2>8. view'[s][a] = view[s][a]
    <3>1. ~Reads(s, a) BY <2>5, ObjectWords DEF Reads
    <3>2. ~Refreshes(t, s, a) /\ ~AdoptsAt(t, s, a)
      BY <2>4, WaitsForItself DEF Refreshes, AdoptsAt
    <3>3. ~Stores(t, s, a) BY <2>3 DEF Stores, Store
    <3> QED BY <1>0, <2>2, <2>5, <3>1, <3>2, <3>3, ViewStep
  <2>9. content[map[a]] = Word(view[s][a])
    BY <2>1, <2>5 DEF WrittenStays
  <2> QED BY <2>1, <2>7, <2>8, <2>9
<1>2. CASE u = t /\ Scanned(t)
  <2>1. /\ frame'[t].todo = write_set[frame[t].session]
        /\ frame'[t].session = frame[t].session /\ write_set' = write_set
    BY <1>0, <1>2, OwnData, OwnLocals DEF Scanned
  <2> QED BY <1>2, <2>1
<1>3. CASE u = t /\ Write(t)
  <2> DEFINE x == Least(frame[t].todo)
  <2>1. /\ frame'[t].todo = frame[t].todo \ {x} /\ frame'[t].session = s
        /\ write_set' = write_set /\ view' = view /\ map' = map /\ pc[t] = "write"
        /\ s \in Sessions
    BY <1>0, <1>3, OwnData, OwnLocals, WriteFacts
  <2>2. a \in write_set[s] /\ a \in Address /\ map[a] # Unassigned
    BY <1>0, <1>3, <2>1 DEF DataInv, ChangedHeld, ControlTypeOK
  <2>3. content'[map[a]] = IF a = x THEN Word(view[s][a]) ELSE content[map[a]]
    BY <1>3, <2>2, WritesOne
  <2>4. a # x => content[map[a]] = Word(view[s][a])
    BY <1>3, <2>1, <2>2 DEF WrittenStays
  <2> QED BY <1>3, <2>1, <2>3, <2>4
<1> QED BY <1>0, <1>1, <1>2, <1>3, AtWrite

-------------------------------------------------------------------------------
(***************************************************************************)
(* A call on a session nobody else uses.                                   *)
(***************************************************************************)
LEMMA OthersUse ==
    ASSUME Unshared, UsesInv, NEW t \in Threads, NEW u \in Threads, u # t, pc[u] # "idle"
    PROVE  frame[u].session \notin Uses[t]
BY DEF Unshared, UsesInv

\* A step of another thread makes no object of the session a new one.
LEMMA NoNewFresh ==
    ASSUME ControlInv, DataInv, UsesInv, NEW t \in Threads, Begins(t) \/ Continues(t),
           NEW s \in Sessions, s \notin Uses[t], NEW a \in Address, view'[s][a] = Fresh
    PROVE  view[s][a] = Fresh
<1>0. TypeOK BY DEF DataInv
<1>1. map[a] # Unassigned => content[map[a]] \in Nat BY <1>0 DEF TypeOK
<1>2. ~Stores(t, s, a) /\ ~AdoptsAt(t, s, a)
  BY NotTheirs DEF Stores, Store, AdoptsAt, Adopt
<1>3. ~Reads(s, a) BY <1>1, MarksApart DEF Reads
<1>4. ~Refreshes(t, s, a)
  BY <1>1, RereadFacts, MarksApart DEF Refreshes
<1> QED BY <1>0, <1>2, <1>3, <1>4, ViewStep DEF ViewsTyped, TypeOK

LEMMA MarkedStep ==
    ASSUME ControlInv, DataInv, UsesInv, Unshared, CallsMarked,
           NEW t \in Threads, Begins(t) \/ Continues(t)
    PROVE  CallsMarked'
<1> DEFINE Marked1(u) == pc'[u] \in {"mark", "store"} => owner'[frame'[u].session] = u
           Marked2(u) == pc'[u] = "store" => frame'[u].object \in write_set'[frame'[u].session]
           Marked3(u) == pc'[u] = "write" =>
              \A a \in write_set'[frame'[u].session] : view'[frame'[u].session][a] # Fresh
<1> SUFFICES ASSUME NEW u \in Threads PROVE Marked1(u) /\ Marked2(u) /\ Marked3(u)
  BY DEF CallsMarked, Unadopted
<1>0. /\ ControlTypeOK /\ pc \in [Threads -> Labels] /\ frame \in [Threads -> Frames]
  BY DEF ControlInv, ControlTypeOK
<1>1. CASE u # t /\ pc[u] # "idle"
  <2> DEFINE s == frame[u].session
  <2>1. pc'[u] = pc[u] /\ frame'[u] = frame[u] BY <1>0, <1>1, OtherThreads
  <2>2. s \in Sessions /\ s \notin Uses[t] BY <1>1, Calls, OthersUse
  <2>3. owner'[s] = owner[s] /\ write_set'[s] = write_set[s] BY <2>2, NotTheirs
  <2>4. ASSUME pc[u] = "write", NEW a \in write_set[s] PROVE view'[s][a] # Fresh
    <3>1. a \in Address BY <1>0, <2>2, <2>4 DEF ControlTypeOK
    <3>2. view[s][a] # Fresh BY <2>4 DEF CallsMarked, Unadopted
    <3> QED BY <2>2, <3>1, <3>2, NoNewFresh
  <2> QED BY <2>1, <2>3, <2>4 DEF CallsMarked
<1>2. CASE u # t /\ pc[u] = "idle"
  <2>1. pc'[u] = "idle" BY <1>0, <1>2, OtherThreads
  <2> QED BY <2>1
<1>3. CASE u = t /\ Begins(t)
  <2>1. pc'[t] \in {"idle", "ensure", "content", "abort"}
    BY <1>0, <1>3 DEF Begins, AtAddress, Begin, Commit, Abort, Set
  <2> QED BY <1>3, <2>1
<1>4. CASE u = t /\ Ensure(t)
  <2> DEFINE s == frame[t].session
  <2>1. pc[t] = "ensure" /\ pc'[t] = "mark" /\ frame'[t].session = s
        /\ owner'[s] = IF owner[s] = None THEN t ELSE owner[s]
    <3>1. s \in Sessions BY <1>4, Calls DEF Ensure
    <3> QED BY <1>0, <1>4, <3>1, OwnLocals DEF Ensure, ControlTypeOK
  <2>2. s \in Sessions /\ s \in Uses[t] BY <2>1, Calls DEF UsesInv
  <2>3. owner[s] # None => owner[s] = t
    BY <1>0, <2>2 DEF UsesInv, Unshared, ControlTypeOK
  <2> QED BY <1>4, <2>1, <2>3
<1>5. CASE u = t /\ MarkDirty(t)
  <2> DEFINE s == frame[t].session
  <2>1. pc[t] = "mark" /\ pc'[t] = "store" /\ frame' = frame /\ owner' = owner
    BY <1>0, <1>5 DEF MarkDirty
  <2>2. s \in Sessions /\ owner[s] = t BY <2>1, Calls DEF CallsMarked
  <2>3. frame[t].object \in write_set'[s]
    BY <1>0, <1>5, <2>2, Constants DEF MarkDirty, ControlTypeOK
  <2> QED BY <1>5, <2>1, <2>2, <2>3
<1>6. CASE u = t /\ (Scanned(t) \/ Write(t))
  <2> DEFINE s == frame[t].session
  <2>1. pc'[t] = "write" /\ frame'[t].session = s /\ write_set' = write_set /\ view' = view
    BY <1>0, <1>6, OwnLocals DEF Scanned, Write
  <2>2. Unadopted(s) = {} BY <1>6 DEF Scanned, Write, CallsMarked
  <2> QED BY <1>6, <2>1, <2>2 DEF Unadopted
<1>7. CASE u = t /\ Continues(t) /\ ~Ensure(t) /\ ~MarkDirty(t) /\ ~Scanned(t) /\ ~Write(t)
  <2>1. pc'[t] # "write" BY <1>0, <1>7, AtWrite
  <2>2. pc'[t] \notin {"mark", "store"}
    <3>1. CASE Store(t) \/ LockContent(t) \/ LockSession(t) \/ Adopt(t) \/ Finish(t)
      BY <1>0, <3>1 DEF Store, Return, LockContent, LockSession, Adopt, Finish
    <3>2. CASE LockList(t) \/ (\E s \in Sessions : Notify(t, s)) \/ EndCommit(t)
      BY <1>0, <3>2 DEF LockList, Notify, EndCommit, Return
    <3>3. CASE LockForRefresh(t) \/ Reread(t) \/ EndNotify(t) \/ LockAbort(t) \/ EndAbort(t)
      BY <1>0, <3>3 DEF LockForRefresh, Reread, EndNotify, LockAbort, EndAbort, Return
    <3> QED BY <1>7, <3>1, <3>2, <3>3 DEF Continues
  <2> QED BY <1>7, <2>1, <2>2
<1> QED BY <1>1, <1>2, <1>3, <1>4, <1>5, <1>6, <1>7

-------------------------------------------------------------------------------
\* What a transaction of a call has marked is changed until an abort undoes it.
LEMMA OwnChanged ==
    ASSUME ControlInv, NEW t \in Threads, NEW s \in Sessions, owner[s] = t, ~Undoing(t),
           NEW a \in write_set[s]
    PROVE  a \in Changed(s)
<1>1. ASSUME NEW u \in Threads, Undoing(u), frame[u].session = s PROVE FALSE
  <2>1. owner[s] = u BY <1>1 DEF ControlInv, TransactionOwned, InTransaction
  <2> QED BY <1>1, <2>1
<1> QED BY <1>1 DEF Changed

\* A refresh reads the stored object, or garbles a stub.
LEMMA RereadReads ==
    ASSUME ControlInv, DataInv, NEW t \in Threads, Reread(t)
    PROVE  LET s == frame[t].target
               a == Least(Due(t))
           IN  view'[s][a] = content[map[a]] \/ ~IsObject(view'[s][a])
<1> DEFINE s == frame[t].target
           a == Least(Due(t))
<1>1. s \in Sessions /\ a \in Address BY RereadFacts
<1>2. view \in [Sessions -> [Address -> Nat \cup {Absent, Stub, Garbled, Fresh}]]
  BY DEF DataInv, TypeOK
<1>3. view' = [view EXCEPT ![s] =
            IF view[s][a] \in {Stub, Garbled} THEN [@ EXCEPT ![a] = Garbled]
            ELSE ReadInto(s, a, StubDepth)]
  BY DEF Reread
<1> HIDE DEF s, a
<1>4. CASE view[s][a] \in {Stub, Garbled}
  <2>1. view'[s][a] = Garbled BY <1>1, <1>2, <1>3, <1>4
  <2> QED BY <2>1, ObjectWords DEF s, a
<1>5. CASE view[s][a] \notin {Stub, Garbled}
  <2>1. view'[s] = ReadInto(s, a, StubDepth) BY <1>1, <1>2, <1>3, <1>5
  <2>2. view'[s][a] = content[map[a]] BY <1>1, <2>1, ReadIntoAt
  <2> QED BY <2>2 DEF s, a
<1> QED BY <1>4, <1>5

LEMMA SyncedStep ==
    ASSUME ControlInv, DataInv, UsesInv, Injective, AheadInv, WrittenStays,
           Unshared, CallsMarked, Synced, NEW t \in Threads, Begins(t) \/ Continues(t)
    PROVE  Synced'
<1> SUFFICES ASSUME NEW s \in Sessions, NEW a \in Address,
                    IsObject(view'[s][a]), a \notin Changed(s)',
                    view'[s][a] # content'[map'[a]],
                    \A u \in Threads : ~Pending(u, s, a)'
             PROVE  FALSE
  BY DEF Synced, IsObject
<1>0. /\ ControlTypeOK /\ pc \in [Threads -> Labels] /\ frame \in [Threads -> Frames]
      /\ ViewsTyped
  BY DEF ControlInv, ControlTypeOK, DataInv, TypeOK, ViewsTyped
<1>1. ASSUME NEW u \in Threads, u # t PROVE ~Pending(u, s, a)
  <2>1. pc'[u] = pc[u] /\ frame'[u] = frame[u] BY <1>0, <1>1, OtherThreads
  <2>2. pc[u] = "write" => write_set[frame[u].session] \subseteq write_set'[frame[u].session]
    BY <1>1, Calls, WriteSetKept DEF InTransaction, CommitLabels
  <2> QED BY <2>1, <2>2 DEF Pending, Undoing
<1>2. ASSUME IsObject(view[s][a]), a \notin Changed(s), view[s][a] # content[map[a]]
      PROVE  Pending(t, s, a)
  BY <1>1, <1>2 DEF Synced
<1>3. ASSUME write_set[s] \subseteq write_set'[s],
             ~Undoing(t)' \/ frame'[t].session # s \/ a \in frame'[t].todo
                \/ (Undoing(t) /\ frame[t].session = s /\ a \notin frame[t].todo)
      PROVE  a \notin Changed(s)
  <2>1. ASSUME a \in Changed(s) PROVE a \in Changed(s)'
    <3>1. ASSUME NEW u \in Threads, Undoing(u)', frame'[u].session = s PROVE a \in frame'[u].todo
      <4>1. CASE u # t
        <5>1. pc'[u] = pc[u] /\ frame'[u] = frame[u] BY <1>0, <4>1, OtherThreads
        <5> QED BY <2>1, <3>1, <5>1 DEF Changed, Undoing
      <4>2. CASE u = t
        BY <1>3, <2>1, <3>1, <4>2 DEF Changed
      <4> QED BY <4>1, <4>2
    <3> QED BY <1>3, <2>1, <3>1 DEF Changed
  <2> QED BY <2>1
<1>4. write_set[s] \subseteq Address BY <1>0 DEF ControlTypeOK
<1>5. CASE Begins(t)
  <2>1. pc[t] = "idle" /\ pc'[t] \in {"idle", "ensure", "content", "abort"}
        /\ content' = content /\ map' = map
    BY <1>0, <1>5 DEF Begins, AtAddress, Begin, Commit, Abort, Set
  <2>2. ~Undoing(t)' /\ ~Pending(t, s, a) BY <2>1 DEF Undoing, Pending
  <2>3. write_set[s] \subseteq write_set'[s]
    <3>1. CASE Opens(t, s) BY <3>1 DEF Opens, UsesInv
    <3>2. ~Marks(t, s) /\ ~Grows(t, s) /\ ~Closes(t, s)
      BY <2>1 DEF Marks, MarkDirty, Grows, Adopt, Closes, Finish, EndAbort
    <3> QED BY <1>0, <3>1, <3>2, TransactionStep
  <2>4. view'[s][a] = view[s][a]
    <3>1. ~Reads(s, a) BY <2>1, ObjectWords DEF Reads
    <3>2. ~Refreshes(t, s, a) /\ ~Stores(t, s, a) /\ ~AdoptsAt(t, s, a)
      BY <2>1 DEF Refreshes, Reread, Stores, Store, AdoptsAt, Adopt
    <3> QED BY <1>0, <3>1, <3>2, ViewStep
  <2>5. a \notin Changed(s) BY <1>3, <2>2, <2>3
  <2> QED BY <1>2, <2>1, <2>2, <2>4, <2>5
<1>6. CASE Ensure(t) \/ MarkDirty(t) \/ LockContent(t) \/ LockSession(t) \/ Scanned(t)
  <2>1. pc[t] \in {"ensure", "mark", "content", "session", "scan"}
        /\ pc'[t] \in {"mark", "store", "session", "scan", "write"}
        /\ content' = content /\ map' = map /\ view' = view
    BY <1>0, <1>6 DEF Ensure, MarkDirty, LockContent, LockSession, Scanned
  <2>2. ~Undoing(t)' /\ ~Pending(t, s, a) BY <2>1 DEF Undoing, Pending
  <2>3. write_set[s] \subseteq write_set'[s]
    <3>1. CASE Opens(t, s) BY <3>1 DEF Opens, UsesInv
    <3>2. CASE Marks(t, s) BY <3>2 DEF Marks
    <3>3. ~Grows(t, s)
      <4>1. CASE Scanned(t) BY <4>1 DEF Scanned, Grows, Adopt
      <4>2. CASE ~Scanned(t) BY <1>6, <4>2 DEF Ensure, MarkDirty, LockContent, LockSession, Grows, Adopt
      <4> QED BY <4>1, <4>2
    <3>4. ~Closes(t, s) BY <2>1 DEF Closes, Finish, EndAbort
    <3> QED BY <1>0, <3>1, <3>2, <3>3, <3>4, TransactionStep
  <2>4. a \notin Changed(s) BY <1>3, <2>2, <2>3
  <2> QED BY <1>2, <2>1, <2>2, <2>4
<1>7. CASE Store(t)
  <2> DEFINE x == frame[t].session
  <2>1. pc[t] = "store" /\ pc'[t] \in {"idle", "content"}
        /\ content' = content /\ map' = map /\ write_set' = write_set /\ owner' = owner
        /\ view' = [view EXCEPT ![x][frame[t].object] = frame[t].value]
    BY <1>0, <1>7 DEF Store, Return
  <2>2. ~Undoing(t)' /\ ~Undoing(t) /\ ~Pending(t, s, a) BY <2>1 DEF Undoing, Pending
  <2>3. a \notin Changed(s) BY <1>3, <2>1, <2>2
  <2>4. x \in Sessions /\ owner[x] = t /\ frame[t].object \in write_set[x]
    BY <2>1, Calls DEF CallsMarked
  <2>5. frame[t].object \in Changed(x) BY <2>2, <2>4, OwnChanged
  <2>6. ~(s = x /\ a = frame[t].object) BY <2>3, <2>5
  <2>7. view'[s][a] = view[s][a] BY <1>0, <2>1, <2>6 DEF ViewsTyped
  <2> QED BY <1>2, <2>1, <2>2, <2>3, <2>7
<1>8. CASE Adopt(t)
  <2> DEFINE x == frame[t].session
             l == Counter(x, NextLogical)
  <2>1. /\ x \in Sessions /\ pc'[t] = "scan" /\ pc[t] = "scan" /\ l \in Address
        /\ Least(Unadopted(x)) \in write_set[x]
        /\ map' = [map EXCEPT ![l] = Counter(x, NextPhysical)]
        /\ content' = content /\ map[l] = Unassigned
    BY <1>8, AdoptFacts, AdoptsNew
  <2>2. \A u \in Threads : u = t BY <1>8, WaitsForItself
  <2>3. ~Undoing(t)' /\ ~Pending(t, s, a) BY <2>1 DEF Undoing, Pending
  <2>4. s = x => write_set'[s] = write_set[s] \cup {NextLogical, NextPhysical, l}
    BY <1>0, <1>8, <2>1 DEF Adopt, ControlTypeOK
  <2>5. s # x => write_set'[s] = write_set[s]
    BY <1>0, <1>8, <2>1 DEF Adopt, ControlTypeOK
  <2>6. a \notin Changed(s) BY <1>3, <2>3, <2>4, <2>5
  <2>7. a \notin write_set'[s]
    BY <2>2, <2>3 DEF Changed
  <2>8. view'[s][a] = view[s][a]
    <3>1. CASE s = x
      <4>1. AdoptsAt(t, s, a) BY <1>0, <1>8, <3>1, AdoptView
      <4>2. a # Least(Unadopted(x)) /\ a # l /\ a # NextLogical /\ a # NextPhysical
        BY <2>1, <2>4, <2>7, <3>1
      <4> QED BY <3>1, <4>1, <4>2 DEF AdoptsAt
    <3>2. CASE s # x
      BY <1>0, <1>8, <3>2, AdoptView
    <3> QED BY <3>1, <3>2
  <2>9. a # l
    <3>1. view[s][a] # Absent BY <2>8, ObjectWords
    <3>2. map[a] # Unassigned BY <3>1 DEF DataInv, ViewsHeld
    <3> QED BY <2>1, <3>2
  <2>10. map'[a] = map[a]
    <3> HIDE DEF l
    <3> QED BY <2>1, <2>9 DEF DataInv, TypeOK
  <2> QED BY <1>2, <2>1, <2>3, <2>6, <2>8, <2>10
<1>9. CASE Write(t)
  <2> DEFINE x == frame[t].session
             b == Least(frame[t].todo)
  <2>1. /\ x \in Sessions /\ pc[t] = "write" /\ pc'[t] = "write" /\ b \in write_set[x]
        /\ map' = map /\ view' = view /\ write_set' = write_set
    BY <1>9, WriteFacts
  <2>2. frame'[t].session = x BY <1>0, <1>9, OwnLocals
  <2>3. ~Undoing(t)' /\ ~Undoing(t) BY <2>1 DEF Undoing
  <2>4. a \notin Changed(s) BY <1>3, <2>1, <2>3
  <2>5. map[a] # Unassigned BY <2>1, ObjectWords DEF DataInv, ViewsHeld
  <2>6. content'[map[a]] = IF a = b THEN Word(view[x][a]) ELSE content[map[a]]
    BY <1>9, <2>5, WritesOne
  <2> HIDE DEF b
  <2>7. CASE a = b
    <3>1. s # x => Pending(t, s, a)' BY <2>1, <2>2, <2>7 DEF Pending
    <3>2. owner[x] = t BY <2>1 DEF ControlInv, TransactionOwned, InTransaction, CommitLabels
    <3>3. b \in Changed(x) BY <2>1, <2>3, <3>2, OwnChanged
    <3> QED BY <2>4, <2>7, <3>1, <3>3
  <2>8. CASE a # b
    <3>1. Pending(t, s, a) BY <1>2, <2>1, <2>4, <2>6, <2>8
    <3>2. Pending(t, s, a)' BY <2>1, <2>2, <3>1 DEF Pending
    <3> QED BY <3>2
  <2> QED BY <2>7, <2>8
<1>10. CASE Finish(t)
  <2> DEFINE x == frame[t].session
  <2>1. /\ pc[t] = "write" /\ pc'[t] = "list" /\ frame[t].todo = {}
        /\ content' = content /\ map' = map /\ view' = view
        /\ write_set' = [write_set EXCEPT ![x] = {}]
    BY <1>0, <1>10 DEF Finish
  <2>2. frame'[t].others = Sessions \ {x} /\ frame'[t].changed = write_set[x]
    BY <1>0, <1>10, OwnLocals, OwnData
  <2>3. x \in Sessions BY <2>1, Calls
  <2>4. ~Undoing(t)' BY <2>1 DEF Undoing
  <2>5. CASE s = x /\ a \in write_set[s]
    <3>1. \A u \in Threads \ {t} : x \notin Uses[u]
      BY <2>1 DEF Unshared, UsesInv
    <3>2. Private(t, x) BY <3>1 DEF Private
    <3>3. content[map[a]] = Word(view[s][a]) BY <2>1, <2>5, <3>2 DEF WrittenStays
    <3>4. view[s][a] # Fresh BY <2>1, <2>5 DEF CallsMarked, Unadopted
    <3> QED BY <2>1, <3>3, <3>4 DEF Word
  <2>6. CASE s = x /\ a \notin write_set[s]
    <3>1. a \notin Changed(s) BY <2>6 DEF Changed
    <3>2. Pending(t, s, a) BY <1>2, <2>1, <3>1
    <3> QED BY <2>1, <2>6, <3>2 DEF Pending
  <2>7. CASE s # x
    <3>1. write_set'[s] = write_set[s] BY <1>0, <2>1, <2>7 DEF ControlTypeOK
    <3>2. a \notin Changed(s) BY <1>3, <2>4, <3>1
    <3>3. Pending(t, s, a) BY <1>2, <2>1, <3>2
    <3>4. a \in write_set[x] BY <2>1, <3>3 DEF Pending
    <3> QED BY <2>1, <2>2, <2>4, <2>7, <3>4 DEF Pending
  <2> QED BY <2>5, <2>6, <2>7
<1>11. CASE LockList(t) \/ EndNotify(t) \/ EndCommit(t)
  <2>1. /\ content' = content /\ map' = map /\ view' = view /\ write_set' = write_set
        /\ pc'[t] \in {"notify", "idle"} /\ pc[t] \in {"list", "refresh", "notify"}
    BY <1>0, <1>11 DEF LockList, EndNotify, EndCommit, Return
  <2>2. ~Undoing(t)' BY <2>1 DEF Undoing
  <2>3. a \notin Changed(s) BY <1>3, <2>1, <2>2
  <2>4. Pending(t, s, a) BY <1>2, <2>1, <2>3
  <2>5. CASE LockList(t)
    <3>1. pc[t] = "list" /\ pc'[t] = "notify" /\ frame' = frame BY <1>0, <2>5 DEF LockList
    <3> QED BY <2>2, <2>4, <3>1 DEF Pending
  <2>6. CASE EndNotify(t)
    <3>1. /\ pc[t] = "refresh" /\ pc'[t] = "notify" /\ frame' = frame /\ Due(t) = {}
          /\ frame[t].target # frame[t].session
      BY <1>0, <2>6 DEF EndNotify
    <3>2. view[s][a] # Absent BY <2>1, ObjectWords
    <3>3. ~(s = frame[t].target /\ a \in frame[t].todo) BY <3>1, <3>2 DEF Due
    <3> QED BY <2>2, <2>4, <3>1, <3>3 DEF Pending
  <2>7. CASE EndCommit(t)
    <3>1. pc[t] = "notify" /\ frame[t].others = {} BY <2>7 DEF EndCommit
    <3> QED BY <2>4, <3>1 DEF Pending
  <2> QED BY <1>11, <2>5, <2>6, <2>7
<1>12. CASE \E x \in Sessions : Notify(t, x)
  <2>1. PICK x \in Sessions : Notify(t, x) BY <1>12
  <2>2. /\ content' = content /\ map' = map /\ view' = view /\ write_set' = write_set
        /\ pc[t] = "notify" /\ pc'[t] = "refresh" /\ x \in frame[t].others
    BY <1>0, <2>1 DEF Notify
  <2>3. /\ frame'[t].session = frame[t].session /\ frame'[t].target = x
        /\ frame'[t].others = frame[t].others \ {x}
        /\ frame'[t].todo = frame[t].changed /\ frame'[t].changed = frame[t].changed
    BY <1>0, <2>1, OwnLocals, OwnData
  <2>4. x # frame[t].session BY <2>2 DEF ControlInv, Places
  <2>5. ~Undoing(t)' BY <2>3, <2>4 DEF Undoing
  <2>6. a \notin Changed(s) BY <1>3, <2>2, <2>5
  <2>7. Pending(t, s, a) BY <1>2, <2>2, <2>6
  <2>8. s \in frame[t].others /\ a \in frame[t].changed BY <2>2, <2>7 DEF Pending
  <2> QED BY <2>2, <2>3, <2>5, <2>8 DEF Pending
<1>13. CASE LockForRefresh(t)
  <2>1. /\ content' = content /\ map' = map /\ view' = view /\ write_set' = write_set
        /\ pc[t] = "refresh" /\ pc'[t] = "reread" /\ frame' = frame
    BY <1>0, <1>13 DEF LockForRefresh
  <2>2. Undoing(t)' <=> Undoing(t) BY <2>1 DEF Undoing
  <2>3. a \notin Changed(s) BY <1>3, <2>1, <2>2
  <2>4. Pending(t, s, a) BY <1>2, <2>1, <2>3
  <2> QED BY <2>1, <2>2, <2>4 DEF Pending
<1>14. CASE Reread(t)
  <2> DEFINE b == Least(Due(t))
  <2>1. /\ content' = content /\ map' = map /\ write_set' = write_set
        /\ pc[t] = "reread" /\ pc'[t] = "refresh"
    BY <1>0, <1>14 DEF Reread
  <2>2. /\ frame'[t].session = frame[t].session /\ frame'[t].target = frame[t].target
        /\ frame'[t].others = frame[t].others /\ frame'[t].changed = frame[t].changed
        /\ frame'[t].todo = {c \in frame[t].todo : c > b}
    BY <1>0, <1>14, OwnLocals, OwnData
  <2>3. ~(s = frame[t].target /\ a = b)
    BY <1>14, <2>1, RereadReads
  <2>4. view'[s][a] = view[s][a]
    <3>1. ~Reads(s, a) BY <2>1, ObjectWords DEF Reads
    <3>2. ~Refreshes(t, s, a) BY <2>3 DEF Refreshes
    <3>3. ~Stores(t, s, a) /\ ~AdoptsAt(t, s, a) BY <2>1 DEF Stores, Store, AdoptsAt, Adopt
    <3> QED BY <1>0, <3>1, <3>2, <3>3, ViewStep
  <2>5. s = frame[t].target /\ a \in frame[t].todo => a \in frame'[t].todo
    <3> SUFFICES ASSUME s = frame[t].target, a \in frame[t].todo PROVE a > b
      BY <2>2
    <3>1. view[s][a] # Absent BY <2>4, ObjectWords
    <3>2. a \in Due(t) BY <3>1 DEF Due
    <3>3. b <= a /\ b \in Address BY <1>14, <3>2, RereadFacts
    <3> HIDE DEF b
    <3> QED BY <2>3, <3>3, Numbers
  <2>6. Undoing(t)' <=> Undoing(t) BY <2>1, <2>2 DEF Undoing
  <2>7. a \notin Changed(s)
    <3>1. CASE Undoing(t) /\ frame[t].session = s
      <4>1. s = frame[t].target BY <3>1 DEF Undoing
      <4> QED BY <1>3, <2>1, <2>5, <3>1, <4>1
    <3>2. CASE ~(Undoing(t) /\ frame[t].session = s)
      BY <1>3, <2>1, <2>2, <2>6, <3>2
    <3> QED BY <3>1, <3>2
  <2>8. Pending(t, s, a) BY <1>2, <2>1, <2>4, <2>7
  <2> QED BY <2>1, <2>2, <2>5, <2>6, <2>8 DEF Pending
<1>15. CASE LockAbort(t)
  <2>1. /\ content' = content /\ map' = map /\ view' = view /\ write_set' = write_set
        /\ pc[t] = "abort" /\ pc'[t] = "refresh"
    BY <1>0, <1>15 DEF LockAbort
  <2>2. frame'[t].session = frame[t].session /\ frame'[t].todo = write_set[frame[t].session]
    BY <1>0, <1>15, OwnLocals, OwnData
  <2>3. ~Pending(t, s, a) BY <2>1 DEF Pending
  <2>4. a \notin Changed(s)
    <3>1. CASE frame[t].session = s /\ a \notin write_set[s] BY <3>1 DEF Changed
    <3>2. CASE ~(frame[t].session = s /\ a \notin write_set[s])
      BY <1>3, <2>1, <2>2, <3>2
    <3> QED BY <3>1, <3>2
  <2> QED BY <1>2, <2>1, <2>3, <2>4
<1>16. CASE EndAbort(t)
  <2> DEFINE x == frame[t].session
  <2>1. /\ content' = content /\ map' = map /\ view' = view
        /\ write_set' = [write_set EXCEPT ![x] = {}]
        /\ pc[t] = "refresh" /\ pc'[t] = "idle" /\ frame[t].target = x /\ Due(t) = {}
    BY <1>0, <1>16 DEF EndAbort, Return
  <2>2. ~Undoing(t)' /\ Undoing(t) BY <2>1 DEF Undoing
  <2>3. view[s][a] # Absent BY <2>1, ObjectWords
  <2>4. ~(s = x /\ a \in frame[t].todo) BY <2>1, <2>3 DEF Due
  <2>5. ~Pending(t, s, a) BY <2>1, <2>2, <2>4 DEF Pending
  <2>6. a \notin Changed(s)
    <3>1. CASE s = x BY <2>2, <2>4, <3>1 DEF Changed
    <3>2. CASE s # x
      <4>1. write_set'[s] = write_set[s] BY <1>0, <2>1, <3>2 DEF ControlTypeOK
      <4> QED BY <1>3, <2>2, <4>1
    <3> QED BY <3>1, <3>2
  <2> QED BY <1>2, <2>1, <2>5, <2>6
<1> QED BY <1>5, <1>6, <1>7, <1>8, <1>9, <1>10, <1>11, <1>12, <1>13, <1>14, <1>15, <1>16
        DEF Continues

-------------------------------------------------------------------------------
LEMMA StoreInit == Init => StoreInv
<1> SUFFICES ASSUME Init PROVE StoreInv
  OBVIOUS
<1>1. DataInv /\ UsesInv BY DataInit
<1>2. ASSUME NEW a \in Address, map[a] # Unassigned
      PROVE  a <= ObjectCount + 2 /\ map[a] = MaxAddress + a
  BY <1>2, StartsMapped
<1>3. Injective BY <1>2, Numbers DEF Injective, Persisted
<1>4. CountersQuiet BY StartsQuiet DEF CountersQuiet
<1>5. \A a \in Objects : Words(a) \cap Nat \subseteq {Nil}
  <2> SUFFICES ASSUME NEW a \in Objects, NEW w \in Words(a), w \in Nat PROVE w = Nil
    OBVIOUS
  <2>1. a \in Address /\ a \notin Counters BY Numbers, Constants DEF Counters
  <2>2. \A s \in Sessions : view[s][a] = Absent BY <2>1, StartsRead
  <2> QED BY <2>2, StartsMapped, MarksApart DEF Words
<1>6. WordsInv
  <2>1. Nil \notin Address /\ Address \subseteq Nat BY Numbers DEF Nil, Unassigned
  <2> QED BY <1>5, <2>1 DEF WordsInv
<1>7. StoredPast
  <2>1. content[map[NextLogical]] = ObjectCount + 3
        /\ content[map[NextPhysical]] = MaxAddress + ObjectCount + 3
    BY StartsMapped
  <2> QED BY <1>2, <2>1, Numbers DEF StoredPast, Past, Persisted
<1>8. AheadInv BY <1>7, StartsQuiet DEF AheadInv
<1>9. WrittenStays BY StartsQuiet DEF WrittenStays
<1>10. CallsMarked BY StartsQuiet DEF CallsMarked
<1>11. Synced BY StartsRead, ObjectWords DEF Synced
<1> QED BY <1>1, <1>3, <1>4, <1>6, <1>8, <1>9, <1>10, <1>11 DEF StoreInv, SyncInv

LEMMA StoreInvStep == ControlInv /\ StoreInv /\ [Next]_vars => ControlInv' /\ StoreInv'
<1> SUFFICES ASSUME ControlInv, StoreInv, [Next]_vars PROVE ControlInv' /\ StoreInv'
  OBVIOUS
<1>0. /\ DataInv /\ UsesInv /\ Injective /\ CountersQuiet /\ WordsInv /\ AheadInv
      /\ WrittenStays /\ SyncInv
  BY DEF StoreInv
<1>1. ASSUME NEW t \in Threads, Begins(t) \/ Continues(t) PROVE ControlInv' /\ StoreInv'
  <2>1. ControlInv' /\ DataInv' /\ UsesInv' BY <1>0, <1>1, DataStep
  <2>2. Injective' /\ CountersQuiet' /\ WordsInv'
    BY <1>0, <1>1, InjectiveStep, CountersQuietStep, WordsStep
  <2>3. AheadInv' BY <1>0, <1>1, AheadStep
  <2>4. WrittenStays' BY <1>0, <1>1, WrittenStep
  <2>5. SyncInv'
    <3>1. Unshared => CallsMarked' BY <1>0, <1>1, MarkedStep DEF SyncInv
    <3>2. Unshared => Synced' BY <1>0, <1>1, SyncedStep DEF SyncInv
    <3> QED BY <3>1, <3>2 DEF SyncInv, Unshared
  <2> QED BY <2>1, <2>2, <2>3, <2>4, <2>5 DEF StoreInv
<1>2. CASE UNCHANGED vars
  <2>1. ControlInv' /\ DataInv' /\ UsesInv' BY <1>0, <1>2, DataStutter
  <2>2. Injective' /\ CountersQuiet' /\ WordsInv'
    BY <1>0, <1>2 DEF Injective, Persisted, CountersQuiet, WordsInv, Words, vars
  <2>3. AheadInv'
    BY <1>0, <1>2 DEF AheadInv, StoredPast, Past, Persisted, Counter, IsObject, vars
  <2>4. WrittenStays' BY <1>0, <1>2 DEF WrittenStays, Private, vars
  <2>5. SyncInv'
    BY <1>0, <1>2
    DEF SyncInv, Unshared, Synced, Changed, Pending, Undoing, CallsMarked, Unadopted, IsObject, vars
  <2> QED BY <2>1, <2>2, <2>3, <2>4, <2>5 DEF StoreInv
<1> QED BY <1>1, <1>2 DEF Next

-------------------------------------------------------------------------------
(***************************************************************************)
(* What the data of the calls keep to, however many threads call sessions  *)
(* of their own or shared ones: all that the theorems below rest on.       *)
(***************************************************************************)
THEOREM StoreInvariant == Spec => [](ControlInv /\ StoreInv)
<1>1. Init => ControlInv /\ StoreInv BY ControlInit, StoreInit
<1>2. ControlInv /\ StoreInv /\ [Next]_vars => (ControlInv /\ StoreInv)' BY StoreInvStep
<1> QED BY <1>1, <1>2, PTL DEF Spec

(***************************************************************************)
(* What obl_commit_transaction has written with _obl_write stays what the  *)
(* session has until the commit is done, for a session that no other       *)
(* thread calls.                                                           *)
(***************************************************************************)
THEOREM WrittenStaysWritten == Spec => []WrittenStays
<1>1. StoreInv => WrittenStays BY DEF StoreInv
<1> QED BY <1>1, StoreInvariant, PTL

(***************************************************************************)
(* obl_allocate_logical and obl_allocate_physical, as commits call them,   *)
(* give no address and no place twice, whichever sessions commit in turn,  *)
(* and no two objects refer to the same new one.                           *)
(***************************************************************************)
THEOREM DistinctAddresses == Spec => []AddressesDistinct
<1>1. ControlInv /\ StoreInv => AddressesDistinct
  <2> SUFFICES ASSUME ControlInv, StoreInv, Quiet PROVE AddressesDistinct
    BY DEF AddressesDistinct
  <2>1. StoredPast BY DEF StoreInv, AheadInv, Quiet
  <2>2. Injective BY DEF StoreInv
  <2>3. \A a \in Objects : content[map[a]] \in Words(a) BY DEF Words
  <2>4. \A a, b \in Objects : Words(a) \cap Words(b) \cap Address # {} => a = b
    BY DEF StoreInv, WordsInv
  <2>5. \A a, b \in Objects :
          content[map[a]] = content[map[b]] /\ content[map[a]] \in Address => a = b
    BY <2>3, <2>4, Zenon
  <2> QED BY <2>1, <2>2, <2>5 DEF AddressesDistinct, StoredPast, Past, Injective
<1> QED BY <1>1, StoreInvariant, PTL

(***************************************************************************)
(* A commit persists what the objects it writes refer to                   *)
(* (_visit_transitive_closure): no stored object refers to one that is not.*)
(***************************************************************************)
THEOREM ClosedStore == Spec => []StoredIsClosed
<1>1. ControlInv /\ StoreInv => StoredIsClosed
  <2> SUFFICES ASSUME ControlInv, StoreInv, NEW a \in Objects
               PROVE  content[map[a]] \in {Nil} \cup Values \cup Persisted
    BY DEF StoredIsClosed
  <2>1. content[map[a]] \in Words(a) BY DEF Words
  <2>2. content[map[a]] \in Nat
    <3>1. a \in Address /\ a \in 1 .. ObjectCount + 2 BY Numbers
    <3>2. map[a] \in Cell BY <3>1 DEF StoreInv, DataInv, TypeOK, FirstMapped
    <3> QED BY <3>2 DEF StoreInv, DataInv, TypeOK
  <2> QED BY <2>1, <2>2 DEF StoreInv, WordsInv
<1> QED BY <1>1, StoreInvariant, PTL

(***************************************************************************)
(* Where each thread calls sessions of its own, every session is told of   *)
(* every commit and forgets what it aborts: between calls, what it has not *)
(* changed in its transaction is what is stored.  When threads share a     *)
(* session this is false, since obl_integer_set and obl_slotted_at_put     *)
(* store their word with no semaphore, after the object was marked.        *)
(***************************************************************************)
THEOREM UnchangedStored ==
    ASSUME Unshared
    PROVE  Spec => []UnchangedIsStored
<1>1. ControlInv /\ StoreInv => UnchangedIsStored
  <2> SUFFICES ASSUME ControlInv, StoreInv, Quiet, NEW s \in Sessions, NEW a \in Address,
                      IsObject(view[s][a]), a \notin write_set[s]
               PROVE  view[s][a] = content[map[a]]
    BY DEF UnchangedIsStored
  <2>1. \A t \in Threads : ~ Pending(t, s, a) BY DEF Pending, Quiet
  <2>2. a \notin Changed(s) BY DEF Changed
  <2> QED BY <2>1, <2>2, Unshared DEF StoreInv, SyncInv, Synced
<1> QED BY <1>1, StoreInvariant, PTL

===============================================================================
