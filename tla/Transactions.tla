----------------------------- MODULE Transactions -----------------------------
(***************************************************************************)
(* Sessions and transactions: session.c, transaction.c, the allocator and  *)
(* the address assignment a commit makes (allocator.c, database.c).        *)
(*                                                                         *)
(* A session caches objects in its read set and records the changed ones   *)
(* in the write set of its current transaction.  A commit persists what    *)
(* its objects now refer to, writes them to the content, and refreshes     *)
(* them in every other session.  Three kinds of semaphores guard the       *)
(* content, the list of sessions and each session; every action runs from  *)
(* one wait or post to the next, or is a critical section that makes no    *)
(* other wait.                                                             *)
(*                                                                         *)
(* An object is a word: an integer, or the address its only slot refers    *)
(* to.  The allocator's two counters are such objects.                     *)
(***************************************************************************)
EXTENDS Integers, FiniteSets

CONSTANTS
    Threads,      \* the threads of the program
    Sessions,     \* its open sessions
    Uses,         \* [Threads -> SUBSET Sessions], the sessions a thread calls with
    Allocated,    \* the sessions that persisted the first objects
    ObjectCount,  \* how many user objects are persisted already
    MaxAddress,   \* bound: the logical addresses that will be assigned
    Values,       \* the integers a program stores in its objects
    StubDepth,    \* configuration.default_stub_depth
    Blocking,     \* whether sem_wait blocks: it does on POSIX; the semaphores
                  \* of platform.c are never created, and their waits return
    None          \* no thread

NextPhysical == 1   \* the address of the allocator's next_physical
NextLogical == 2    \* and of its next_logical
Objects == 3 .. ObjectCount + 2
Address == 1 .. MaxAddress
Cell == MaxAddress + 1 .. 2 * MaxAddress    \* physical addresses, one an object
Unassigned == 0
Nil == 0

\* What a session may have for an address, besides an object's word.
Absent == -1    \* it is not in the read set
Stub == -2      \* a stub, with no physical address
Garbled == -3   \* an object read from the words of the root
Fresh == -4     \* an object whose slot refers to one without a session yet

ASSUME ConstantsAssumption ==
    /\ ObjectCount \in Nat /\ MaxAddress \in Nat /\ ObjectCount + 2 <= MaxAddress
    /\ Uses \in [Threads -> SUBSET Sessions]
    /\ Allocated \subseteq Sessions
    /\ Values \subseteq Nat \ 0 .. 2 * MaxAddress
    /\ StubDepth \in Nat \ {0}
    /\ Blocking \in BOOLEAN
    /\ Blocking \/ \A t, u \in Threads : t = u   \* no races without semaphores
    /\ None \notin Threads \cup Sessions
    /\ {"content", "list"} \cap Sessions = {}

VARIABLES
    content,     \* the object stored at a physical address
    map,         \* the address map
    view,        \* per session, the objects of its read set
    owner,       \* the thread that began a session's current transaction, or None
    write_set,   \* the write set of that transaction
    available,   \* the semaphores
    pc, frame    \* per thread, where its call is and its locals

store == <<content, map>>
current == <<owner, write_set>>
vars == <<content, map, view, owner, write_set, available, pc, frame>>

Semaphores == {"content", "list"} \cup Sessions

\* Mutant: a wait returns although it has not been granted.
AvailableAnyway(x) == x \in Semaphores

\* sem_wait returns.
Available(x) == Blocking => available[x] > 0
Waited(sems) ==   \* the semaphores after a wait for each of sems
    IF Blocking THEN [x \in Semaphores |-> available[x] - (IF x \in sems THEN 1 ELSE 0)]
                ELSE available
Posted(sems) ==
    IF Blocking THEN [x \in Semaphores |-> available[x] + (IF x \in sems THEN 1 ELSE 0)]
                ELSE available

\* The word written for an object: one that refers to an object without an
\* address is written as a reference to OBL_LOGICAL_UNASSIGNED.
Word(v) == IF v = Fresh THEN Unassigned ELSE v

IsObject(v) == v \in Nat \cup {Fresh}
Least(S) == CHOOSE x \in S : \A y \in S : x <= y   \* inorder iteration
Persisted == {a \in Address : map[a] # Unassigned}

GoTo(t, label) == pc' = [pc EXCEPT ![t] = label]

\* The locals of a call on session s before it has set any.
Entered(s) ==
    [session |-> s, object |-> NextLogical, value |-> Nil, created |-> FALSE,
     todo |-> {}, changed |-> {}, others |-> {}, target |-> s]

Return(t) ==
    /\ GoTo(t, "idle")
    /\ frame' = [frame EXCEPT ![t] = Entered(None)]

-------------------------------------------------------------------------------
(* Reading *)

\* The address the object stored for a refers to.
Child(a) == IF a \in {NextLogical, NextPhysical} THEN Nil ELSE content[map[a]]

\* Session s's read set after obl_read_object of the object at address a, to a
\* depth: the object it refers to is read too, or stubbed at the end of it.
ReadInto(s, a, depth) ==
    [b \in Address |->
        IF b = a THEN content[map[a]]
        ELSE IF b = Child(a) /\ b \in Persisted /\ view[s][b] \in {Absent, Stub}
        THEN IF depth > 1 THEN content[map[b]] ELSE Stub
        ELSE view[s][b]]

\* obl_at_address_depth: the read set answers if it can.  The call reads the
\* content with no more than the session's semaphore.
AtAddress(t, s, a, depth) ==
    /\ pc[t] = "idle" /\ s \in Uses[t]
    /\ Available(s)
    /\ view[s][a] \in {Absent, Stub}
    /\ view' = [view EXCEPT ![s] =
          IF depth > 0 THEN ReadInto(s, a, depth) ELSE [@ EXCEPT ![a] = Stub]]
    /\ UNCHANGED <<store, current, available, pc, frame>>

-------------------------------------------------------------------------------
(* Changing an object: obl_integer_set, obl_slotted_at_put *)

\* obl_begin_transaction.
Begin(t, s) ==
    /\ pc[t] = "idle" /\ s \in Uses[t]
    /\ Available(s)
    /\ owner[s] = None
    /\ owner' = [owner EXCEPT ![s] = t]
    /\ write_set' = [write_set EXCEPT ![s] = {}]
    /\ UNCHANGED <<store, view, available, pc, frame>>

Set(t, s, a, v) ==
    /\ pc[t] = "idle" /\ s \in Uses[t]
    /\ IsObject(view[s][a])
    /\ GoTo(t, "ensure")
    /\ frame' = [frame EXCEPT ![t] = [Entered(s) EXCEPT !.object = a, !.value = v]]
    /\ UNCHANGED <<store, view, current, available>>

\* Mutant: an existing transaction is reported as created.
EnsureAlwaysCreated(t) ==
    LET s == frame[t].session
        created == owner[s] = None
    IN  /\ pc[t] = "ensure"
        /\ Available(s)
        /\ owner' = [owner EXCEPT ![s] = IF created THEN t ELSE @]
        /\ write_set' = [write_set EXCEPT ![s] = IF created THEN {} ELSE @]
        /\ frame' = [frame EXCEPT ![t].created = TRUE]
        /\ GoTo(t, "mark")
        /\ UNCHANGED <<store, view, available>>

\* obl_ensure_transaction.
Ensure(t) ==
    LET s == frame[t].session
        created == owner[s] = None
    IN  /\ pc[t] = "ensure"
        /\ Available(s)
        /\ owner' = [owner EXCEPT ![s] = IF created THEN t ELSE @]
        /\ write_set' = [write_set EXCEPT ![s] = IF created THEN {} ELSE @]
        /\ frame' = [frame EXCEPT ![t].created = created]
        /\ GoTo(t, "mark")
        /\ UNCHANGED <<store, view, available>>

\* obl_mark_dirty.
MarkDirty(t) ==
    LET s == frame[t].session
    IN  /\ pc[t] = "mark"
        /\ Available(s)
        /\ write_set' = [write_set EXCEPT ![s] =
              IF owner[s] = None THEN @ ELSE @ \cup {frame[t].object}]
        /\ GoTo(t, "store")
        /\ UNCHANGED <<store, view, owner, available, frame>>

\* The new word goes into memory; a transaction made for it is committed.
Store(t) ==
    /\ pc[t] = "store"
    /\ view' = [view EXCEPT ![frame[t].session][frame[t].object] = frame[t].value]
    /\ IF frame[t].created THEN GoTo(t, "content") /\ UNCHANGED frame ELSE Return(t)
    /\ UNCHANGED <<store, current, available>>

-------------------------------------------------------------------------------
(* obl_commit_transaction *)

Commit(t, s) ==
    /\ pc[t] = "idle" /\ owner[s] = t
    /\ GoTo(t, "content")
    /\ frame' = [frame EXCEPT ![t] = Entered(s)]
    /\ UNCHANGED <<store, view, current, available>>

LockContent(t) ==
    /\ pc[t] = "content"
    /\ Available("content")
    /\ available' = Waited({"content"})
    /\ GoTo(t, "session")
    /\ UNCHANGED <<store, view, current, frame>>

LockSession(t) ==
    /\ pc[t] = "session"
    /\ Available(frame[t].session)
    /\ available' = Waited({frame[t].session})
    /\ GoTo(t, "scan")
    /\ UNCHANGED <<store, view, current, frame>>

\* Changed objects whose slot refers to an object without a session.
Unadopted(s) == {a \in write_set[s] : view[s][a] = Fresh}

\* A counter of the allocator, as session s reads it.
Counter(s, a) == IF IsObject(view[s][a]) THEN view[s][a] ELSE content[map[a]]

\* Mutant: the physical address is taken from the slot of the logical ones.
AdoptFromOneSlot(t) ==
    LET s == frame[t].session
        a == Least(Unadopted(s))
        logical == Counter(s, NextLogical)
        physical == Counter(s, NextLogical)
    IN  /\ pc[t] = "scan" /\ Unadopted(s) # {}
        /\ Available(s)
        /\ map' = [map EXCEPT ![logical] = physical]
        /\ view' = [view EXCEPT ![s] = [@ EXCEPT
              ![NextLogical] = logical + 1, ![NextPhysical] = physical + 1,
              ![logical] = Nil, ![a] = logical]]
        /\ write_set' = [write_set EXCEPT ![s] =
              @ \cup {NextLogical, NextPhysical, logical}]
        /\ UNCHANGED <<content, owner, available, pc, frame>>

\* Mutant: the new object is not entered in the address map.
AdoptUnmapped(t) ==
    LET s == frame[t].session
        a == Least(Unadopted(s))
        logical == Counter(s, NextLogical)
        physical == Counter(s, NextPhysical)
    IN  /\ pc[t] = "scan" /\ Unadopted(s) # {}
        /\ Available(s)
        /\ view' = [view EXCEPT ![s] = [@ EXCEPT
              ![NextLogical] = logical + 1, ![NextPhysical] = physical + 1,
              ![logical] = Nil, ![a] = logical]]
        /\ write_set' = [write_set EXCEPT ![s] = @ \cup {NextLogical, NextPhysical}]
        /\ UNCHANGED <<store, owner, available, pc, frame>>

\* _visit_transitive_closure reaches a new object: it is allocated a logical and
\* a physical address, mapped, and joins the write set and the read set.  The
\* allocator reads and changes its counters as any caller would, so it waits for
\* the session's semaphore, and leaves the counters in the write set.
Adopt(t) ==
    LET s == frame[t].session
        a == Least(Unadopted(s))
        logical == Counter(s, NextLogical)
        physical == Counter(s, NextPhysical)
    IN  /\ pc[t] = "scan" /\ Unadopted(s) # {}
        /\ Available(s)
        /\ logical \in Address /\ physical \in Cell   \* bound: Room sees to it
        /\ map' = [map EXCEPT ![logical] = physical]
        /\ view' = [view EXCEPT ![s] = [@ EXCEPT
              ![NextLogical] = logical + 1, ![NextPhysical] = physical + 1,
              ![logical] = Nil, ![a] = logical]]
        /\ write_set' = [write_set EXCEPT ![s] =
              @ \cup {NextLogical, NextPhysical, logical}]
        /\ UNCHANGED <<content, owner, available, pc, frame>>

Scanned(t) ==
    /\ pc[t] = "scan" /\ Unadopted(frame[t].session) = {}
    /\ GoTo(t, "write")
    /\ frame' = [frame EXCEPT ![t].todo = write_set[frame[t].session]]
    /\ UNCHANGED <<store, view, current, available>>

\* _obl_write of the next object of the write set.
Write(t) ==
    LET a == Least(frame[t].todo)
    IN  /\ pc[t] = "write" /\ frame[t].todo # {}
        /\ content' = [content EXCEPT ![map[a]] = Word(view[frame[t].session][a])]
        /\ frame' = [frame EXCEPT ![t].todo = @ \ {a}]
        /\ UNCHANGED <<map, view, current, available, pc>>

\* Mutant: the other sessions are not told of what changed.
FinishTellsNobody(t) ==
    LET s == frame[t].session
    IN  /\ pc[t] = "write" /\ frame[t].todo = {}
        /\ owner' = [owner EXCEPT ![s] = None]
        /\ write_set' = [write_set EXCEPT ![s] = {}]
        /\ available' = Posted({s, "content"})
        /\ frame' = [frame EXCEPT ![t].changed = {}, ![t].others = {}]
        /\ GoTo(t, "list")
        /\ UNCHANGED <<store, view>>

\* Mutant: the content is not posted.
FinishKeepsContent(t) ==
    LET s == frame[t].session
    IN  /\ pc[t] = "write" /\ frame[t].todo = {}
        /\ owner' = [owner EXCEPT ![s] = None]
        /\ write_set' = [write_set EXCEPT ![s] = {}]
        /\ available' = Posted({s})
        /\ frame' = [frame EXCEPT ![t].changed = write_set[s], ![t].others = Sessions \ {s}]
        /\ GoTo(t, "list")
        /\ UNCHANGED <<store, view>>

\* The transaction is gone before the other sessions are told.
Finish(t) ==
    LET s == frame[t].session
    IN  /\ pc[t] = "write" /\ frame[t].todo = {}
        /\ owner' = [owner EXCEPT ![s] = None]
        /\ write_set' = [write_set EXCEPT ![s] = {}]
        /\ available' = Posted({s, "content"})
        /\ frame' = [frame EXCEPT ![t].changed = write_set[s], ![t].others = Sessions \ {s}]
        /\ GoTo(t, "list")
        /\ UNCHANGED <<store, view>>

LockList(t) ==
    /\ pc[t] = "list"
    /\ Available("list")
    /\ available' = Waited({"list"})
    /\ GoTo(t, "notify")
    /\ UNCHANGED <<store, view, current, frame>>

\* _obl_update_objects of another session of the list, whatever its order.
Notify(t, s) ==
    /\ pc[t] = "notify" /\ s \in frame[t].others
    /\ Available(s)
    /\ available' = Waited({s})
    /\ frame' = [frame EXCEPT
          ![t].others = @ \ {s}, ![t].target = s, ![t].todo = frame[t].changed]
    /\ GoTo(t, "refresh")
    /\ UNCHANGED <<store, view, current>>

EndCommit(t) ==
    /\ pc[t] = "notify" /\ frame[t].others = {}
    /\ available' = Posted({"list"})
    /\ Return(t)
    /\ UNCHANGED <<store, view, current>>

-------------------------------------------------------------------------------
(* obl_refresh_object of the objects of a change set a session has *)

Due(t) == {a \in frame[t].todo : view[frame[t].target][a] # Absent}

LockForRefresh(t) ==
    /\ pc[t] = "refresh" /\ Due(t) # {}
    /\ Available("content")
    /\ available' = Waited({"content"})
    /\ GoTo(t, "reread")
    /\ UNCHANGED <<store, view, current, frame>>

\* Mutant: the iteration over the change set does not advance.
RereadSame(t) ==
    LET s == frame[t].target
        a == Least(Due(t))
    IN  /\ pc[t] = "reread"
        /\ Available(s)
        /\ view' = [view EXCEPT ![s] =
              IF view[s][a] \in {Stub, Garbled} THEN [@ EXCEPT ![a] = Garbled]
              ELSE ReadInto(s, a, StubDepth)]
        /\ available' = Posted({"content"})
        /\ GoTo(t, "refresh")
        /\ UNCHANGED <<store, current, frame>>

\* The semaphore of the session is waited for again.  A stub's physical address
\* is unassigned: it is read from the words of the root.
Reread(t) ==
    LET s == frame[t].target
        a == Least(Due(t))
    IN  /\ pc[t] = "reread"
        /\ Available(s)
        /\ view' = [view EXCEPT ![s] =
              IF view[s][a] \in {Stub, Garbled} THEN [@ EXCEPT ![a] = Garbled]
              ELSE ReadInto(s, a, StubDepth)]
        /\ frame' = [frame EXCEPT ![t].todo = {b \in @ : b > a}]
        /\ available' = Posted({"content"})
        /\ GoTo(t, "refresh")
        /\ UNCHANGED <<store, current>>

EndNotify(t) ==
    LET s == frame[t].target
    IN  /\ pc[t] = "refresh" /\ Due(t) = {}
        /\ s # frame[t].session
        /\ available' = Posted({s})
        /\ GoTo(t, "notify")
        /\ UNCHANGED <<store, view, current, frame>>

-------------------------------------------------------------------------------
(* obl_abort_transaction *)

Abort(t, s) ==
    /\ pc[t] = "idle" /\ owner[s] = t
    /\ GoTo(t, "abort")
    /\ frame' = [frame EXCEPT ![t] = Entered(s)]
    /\ UNCHANGED <<store, view, current, available>>

\* Mutant: an abort only drops the write set.
LockAbortForgets(t) ==
    LET s == frame[t].session
    IN  /\ pc[t] = "abort"
        /\ Available(s)
        /\ available' = Waited({s})
        /\ GoTo(t, "refresh")
        /\ UNCHANGED <<store, view, current, frame>>

LockAbort(t) ==
    LET s == frame[t].session
    IN  /\ pc[t] = "abort"
        /\ Available(s)
        /\ available' = Waited({s})
        /\ frame' = [frame EXCEPT ![t].todo = write_set[s]]
        /\ GoTo(t, "refresh")
        /\ UNCHANGED <<store, view, current>>

EndAbort(t) ==
    LET s == frame[t].target
    IN  /\ pc[t] = "refresh" /\ Due(t) = {}
        /\ s = frame[t].session
        /\ owner' = [owner EXCEPT ![s] = None]
        /\ write_set' = [write_set EXCEPT ![s] = {}]
        /\ available' = Posted({s})
        /\ Return(t)
        /\ UNCHANGED <<store, view>>

-------------------------------------------------------------------------------
\* Two counters and the user objects are persisted, each at its own place.  A
\* session that persisted some has the counters, another has read nothing.
Init ==
    /\ map = [a \in Address |-> IF a <= ObjectCount + 2 THEN MaxAddress + a ELSE Unassigned]
    /\ content = [p \in Cell |->
          CASE p = MaxAddress + NextLogical -> ObjectCount + 3
            [] p = MaxAddress + NextPhysical -> MaxAddress + ObjectCount + 3
            [] OTHER -> Nil]
    /\ view = [s \in Sessions |-> [a \in Address |->
          IF s \in Allocated /\ a <= NextLogical THEN content[map[a]] ELSE Absent]]
    /\ owner = [s \in Sessions |-> None]
    /\ write_set = [s \in Sessions |-> {}]
    /\ available = [x \in Semaphores |-> 1]
    /\ pc = [t \in Threads |-> "idle"]
    /\ frame = [t \in Threads |-> Entered(None)]

\* Bound: the addresses left are enough for the new objects there are.
Room ==
    Cardinality({x \in Sessions \X Address : view[x[1]][x[2]] = Fresh})
        < MaxAddress - Cardinality(Persisted)

\* What a program calls: it reads every object of its own, and changes or puts
\* a new object into the first ones.
Begins(t) ==
    \/ \E s \in Sessions, a \in Persisted \ {NextLogical, NextPhysical},
          depth \in 0 .. StubDepth : AtAddress(t, s, a, depth)
    \/ \E s \in Sessions : Begin(t, s) \/ Commit(t, s) \/ Abort(t, s)
    \/ \E s \in Sessions, a \in Objects :
          \E v \in Values \cup (IF Room THEN {Fresh} ELSE {}) : Set(t, s, a, v)

Continues(t) ==
    \/ Ensure(t) \/ MarkDirty(t) \/ Store(t)
    \/ LockContent(t) \/ LockSession(t) \/ Adopt(t) \/ Scanned(t) \/ Write(t) \/ Finish(t)
    \/ LockList(t) \/ (\E s \in Sessions : Notify(t, s)) \/ EndCommit(t)
    \/ LockForRefresh(t) \/ Reread(t) \/ EndNotify(t)
    \/ LockAbort(t) \/ EndAbort(t)

Next == \E t \in Threads : Begins(t) \/ Continues(t)

Spec == Init /\ [][Next]_vars

\* A thread that has entered a call is scheduled until it returns.
Fairness == \A t \in Threads : WF_vars(Continues(t))

FairSpec == Spec /\ Fairness
-------------------------------------------------------------------------------
(***************************************************************************)
(* Types of the variables.                                                 *)
(***************************************************************************)
Labels == {"idle", "ensure", "mark", "store", "content", "session", "scan",
           "write", "list", "notify", "refresh", "reread", "abort"}

Frames ==
    [session : Sessions \cup {None}, object : Address, value : Nat \cup {Fresh},
     created : BOOLEAN, todo : SUBSET Address, changed : SUBSET Address,
     others : SUBSET Sessions, target : Sessions \cup {None}]

ControlTypeOK ==
    /\ owner \in [Sessions -> Threads \cup {None}]
    /\ write_set \in [Sessions -> SUBSET Address]
    /\ available \in [Semaphores -> Int]
    /\ pc \in [Threads -> Labels]
    /\ frame \in [Threads -> Frames]

TypeOK ==
    /\ content \in [Cell -> Nat]
    /\ map \in [Address -> Cell \cup {Unassigned}]
    /\ view \in [Sessions -> [Address -> Nat \cup {Absent, Stub, Garbled, Fresh}]]
    /\ ControlTypeOK

-------------------------------------------------------------------------------
(* What every call relies on, however the threads interleave *)

CommitLabels == {"content", "session", "scan", "write"}
Undoing(t) == pc[t] \in {"refresh", "reread"} /\ frame[t].target = frame[t].session

Holds(t, x) ==
    \/ x = "content" /\ pc[t] \in {"session", "scan", "write", "reread"}
    \/ x = "list" /\ pc[t] \in {"notify", "refresh", "reread"} /\ ~Undoing(t)
    \/ x \in Sessions /\ x = frame[t].session /\ pc[t] \in {"scan", "write"}
    \/ x \in Sessions /\ x = frame[t].target /\ pc[t] \in {"refresh", "reread"}

(***************************************************************************)
(* The semaphores exclude: no two threads are between a wait and a post of *)
(* the same semaphore, on any path through a commit, its notification or   *)
(* an abort, and a semaphore nobody holds can be taken.                    *)
(***************************************************************************)
Excluded ==
    Blocking => \A x \in Semaphores :
        /\ \A t, u \in Threads : Holds(t, x) /\ Holds(u, x) => t = u
        /\ available[x] = IF \E t \in Threads : Holds(t, x) THEN 0 ELSE 1

(***************************************************************************)
(* The transaction a thread commits or aborts is its session's current one *)
(* until the thread itself frees it: neither the implicit transaction of a *)
(* set nor an explicit one is freed by somebody else meanwhile.            *)
(***************************************************************************)
InTransaction(t) ==
    \/ pc[t] \in CommitLabels \cup {"abort"}
    \/ Undoing(t)
    \/ pc[t] \in {"mark", "store"} /\ frame[t].created

TransactionOwned ==
    \A t \in Threads : InTransaction(t) => owner[frame[t].session] = t

(***************************************************************************)
(* The inductive invariant behind these two: a call is on a session of the *)
(* program, a commit never has its own session among those to notify, and  *)
(* an abort refreshes its own.                                             *)
(***************************************************************************)
Places ==
    \A t \in Threads :
        /\ pc[t] # "idle" => frame[t].session \in Sessions /\ frame[t].target \in Sessions
        /\ pc[t] # "idle" => frame[t].session \notin frame[t].others
        /\ pc[t] = "abort" => frame[t].target = frame[t].session

ControlInv == ControlTypeOK /\ Places /\ Excluded /\ TransactionOwned

(***************************************************************************)
(* While the commit of a session that only its own thread uses writes,     *)
(* what it has written is what the session has: no other commit writes     *)
(* over it, and no notification changes the session, before it is done.    *)
(***************************************************************************)
Private(t, s) == \A u \in Threads \ {t} : s \notin Uses[u]

WrittenStays ==
    \A t \in Threads : pc[t] = "write" /\ Private(t, frame[t].session) =>
        \A a \in write_set[frame[t].session] \ frame[t].todo :
            content[map[a]] = Word(view[frame[t].session][a])

-------------------------------------------------------------------------------
(* What a program sees between its calls *)

Quiet == \A t \in Threads : pc[t] = "idle"

(***************************************************************************)
(* Between calls, a session that has not changed an object has the stored  *)
(* one: other sessions' commits reached it, and its own aborts undid what  *)
(* it had changed.                                                         *)
(***************************************************************************)
UnchangedIsStored ==
    Quiet => \A s \in Sessions, a \in Address :
        IsObject(view[s][a]) /\ a \notin write_set[s] => view[s][a] = content[map[a]]

(***************************************************************************)
(* Between calls, the allocator is ahead of every address in use, stored   *)
(* and in every session that has read it: two sessions that persist new    *)
(* objects in turn never give them the same address or the same place.     *)
(***************************************************************************)
AddressesDistinct ==
    Quiet =>
        /\ \A a \in Persisted : a < content[map[NextLogical]] /\ map[a] < content[map[NextPhysical]]
        /\ \A a, b \in Persisted : map[a] = map[b] => a = b
        /\ \A a, b \in Objects :
              content[map[a]] = content[map[b]] /\ content[map[a]] \in Address => a = b

(***************************************************************************)
(* Between calls, a stored object refers to stored objects: what a commit  *)
(* made reachable it persisted.                                            *)
(***************************************************************************)
StoredIsClosed ==
    Quiet => \A a \in Objects : content[map[a]] \in {Nil} \cup Values \cup Persisted

(***************************************************************************)
(* Every call returns.                                                     *)
(***************************************************************************)
CallsReturn == \A t \in Threads : pc[t] # "idle" ~> pc[t] = "idle"

(***************************************************************************)
(* A commit returns.                                                       *)
(***************************************************************************)
CommitReturns == \A t \in Threads : pc[t] \in CommitLabels \cup {"list"} ~> pc[t] = "idle"

(***************************************************************************)
(* No object of a session is read from the words of the database root.     *)
(***************************************************************************)
NothingGarbled == \A s \in Sessions, a \in Address : view[s][a] # Garbled
===============================================================================
