-------------------------- MODULE TransactionsProofs --------------------------
(***************************************************************************)
(* Proofs about the semaphores and the transactions of the sessions, for   *)
(* any threads, sessions, sharing of sessions and objects.                 *)
(***************************************************************************)
EXTENDS Transactions, TLAPS

USE DEF store, current, GoTo

LEMMA Constants ==
    /\ Uses \in [Threads -> SUBSET Sessions]
    /\ None \notin Threads /\ None \notin Sessions
    /\ "content" \in Semaphores /\ "list" \in Semaphores /\ "content" # "list"
    /\ \A s \in Sessions : s \in Semaphores /\ s # "content" /\ s # "list"
    /\ NextLogical \in Address /\ NextPhysical \in Address
    /\ Objects \subseteq Address
    /\ Values \subseteq Nat /\ Nil \in Nat
BY ConstantsAssumption DEF Semaphores, Address, Objects, NextLogical, NextPhysical, Nil

LEMMA EnteredFrame == \A s \in Sessions \cup {None} : Entered(s) \in Frames
BY Constants DEF Entered, Frames

\* Setting the locals of a call.
LEMMA FrameFields ==
    ASSUME NEW f \in Frames
    PROVE  /\ \A c \in BOOLEAN : [f EXCEPT !.created = c] \in Frames
           /\ \A S \in SUBSET Address : [f EXCEPT !.todo = S] \in Frames
           /\ \A S \in SUBSET Address, o \in SUBSET Sessions :
                 [f EXCEPT !.changed = S, !.others = o] \in Frames
           /\ \A S \in SUBSET Address, o \in SUBSET Sessions, s \in Sessions :
                 [f EXCEPT !.others = o, !.target = s, !.todo = S] \in Frames
BY DEF Frames

LEMMA SemaphoresTyped ==
    ASSUME ControlTypeOK, NEW sems \in SUBSET Semaphores
    PROVE  Waited(sems) \in [Semaphores -> Int] /\ Posted(sems) \in [Semaphores -> Int]
BY DEF ControlTypeOK, Waited, Posted

(***************************************************************************)
(* Every call keeps the types of the control state.                        *)
(***************************************************************************)
LEMMA BeginsTyped ==
    ASSUME ControlTypeOK, NEW t \in Threads, Begins(t)
    PROVE  ControlTypeOK'
<1> USE Constants, EnteredFrame
<1>1. ASSUME NEW s \in Sessions, NEW a \in Address, NEW depth \in 0 .. StubDepth,
             AtAddress(t, s, a, depth)
      PROVE  ControlTypeOK'
  BY <1>1 DEF AtAddress, ControlTypeOK
<1>2. ASSUME NEW s \in Sessions, Begin(t, s) PROVE ControlTypeOK'
  BY <1>2 DEF Begin, ControlTypeOK
<1>3. ASSUME NEW s \in Sessions, Commit(t, s) \/ Abort(t, s) PROVE ControlTypeOK'
  BY <1>3 DEF Commit, Abort, ControlTypeOK, Labels
<1>4. ASSUME NEW s \in Sessions, NEW a \in Objects, NEW v \in Values \cup {Fresh}, Set(t, s, a, v)
      PROVE  ControlTypeOK'
  <2>1. [Entered(s) EXCEPT !.object = a, !.value = v] \in Frames
    BY DEF Entered, Frames
  <2> QED BY <1>4, <2>1 DEF Set, ControlTypeOK, Labels
<1> QED BY <1>1, <1>2, <1>3, <1>4 DEF Begins, Persisted

LEMMA ContinuesTyped ==
    ASSUME ControlTypeOK, Places, NEW t \in Threads, Continues(t)
    PROVE  ControlTypeOK'
<1> USE Constants, EnteredFrame
<1>0. /\ frame[t] \in Frames
      /\ pc[t] # "idle" => /\ frame[t].session \in Sessions /\ frame[t].session \in Semaphores
                           /\ frame[t].target \in Sessions /\ frame[t].target \in Semaphores
                           /\ write_set[frame[t].session] \in SUBSET Address
      /\ frame[t].todo \in SUBSET Address /\ frame[t].others \in SUBSET Sessions
      /\ frame[t].changed \in SUBSET Address
  BY DEF ControlTypeOK, Places, Frames
<1>1. CASE Ensure(t)
  <2>1. owner' \in [Sessions -> Threads \cup {None}] BY <1>1 DEF Ensure, ControlTypeOK
  <2>2. write_set' \in [Sessions -> SUBSET Address] BY <1>1 DEF Ensure, ControlTypeOK
  <2>3. frame' \in [Threads -> Frames]
    <3>1. frame[t] \in Frames BY DEF ControlTypeOK
    <3>2. [frame[t] EXCEPT !.created = (owner[frame[t].session] = None)] \in Frames
      BY <3>1, FrameFields
    <3> QED BY <1>1, <3>2 DEF Ensure, ControlTypeOK
  <2> QED BY <1>1, <2>1, <2>2, <2>3 DEF Ensure, ControlTypeOK, Labels
<1>2. CASE MarkDirty(t)
  <2>1. frame[t].object \in Address BY DEF ControlTypeOK, Frames
  <2> QED BY <1>2, <2>1 DEF MarkDirty, ControlTypeOK, Labels
<1>3. CASE Store(t)
  BY <1>3 DEF Store, Return, ControlTypeOK, Labels
<1>4. CASE LockContent(t) \/ LockList(t) \/ LockForRefresh(t)
  <2>1. available' \in [Semaphores -> Int]
    BY <1>4, SemaphoresTyped DEF LockContent, LockList, LockForRefresh
  <2> QED BY <1>4, <2>1 DEF LockContent, LockList, LockForRefresh, ControlTypeOK, Labels
<1>5. CASE LockSession(t)
  <2>1. available' \in [Semaphores -> Int]
    BY <1>5 DEF LockSession, Waited, ControlTypeOK
  <2> QED BY <1>5, <2>1 DEF LockSession, ControlTypeOK, Labels
<1>6. CASE Adopt(t)
  <2>1. write_set' \in [Sessions -> SUBSET Address] BY <1>6 DEF Adopt, ControlTypeOK
  <2> QED BY <1>6, <2>1 DEF Adopt, ControlTypeOK
<1>7. CASE Scanned(t)
  <2>1. [frame[t] EXCEPT !.todo = write_set[frame[t].session]] \in Frames
    BY <1>0, <1>7, FrameFields DEF Scanned
  <2>2. frame' \in [Threads -> Frames] BY <1>7, <2>1 DEF Scanned, ControlTypeOK
  <2> QED BY <1>7, <2>2 DEF Scanned, ControlTypeOK, Labels
<1>8. CASE Write(t)
  <2>1. frame' \in [Threads -> Frames]
    <3>1. frame[t] \in Frames BY DEF ControlTypeOK
    <3>2. frame[t].todo \ {Least(frame[t].todo)} \in SUBSET Address BY <3>1 DEF Frames
    <3>3. [frame[t] EXCEPT !.todo = frame[t].todo \ {Least(frame[t].todo)}] \in Frames
      BY <3>1, <3>2, FrameFields
    <3> QED BY <1>8, <3>3 DEF Write, ControlTypeOK
  <2> QED BY <1>8, <2>1 DEF Write, ControlTypeOK
<1>9. CASE Finish(t)
  <2>1. available' \in [Semaphores -> Int]
    BY <1>0, <1>9, SemaphoresTyped DEF Finish
  <2>2. [frame[t] EXCEPT !.changed = write_set[frame[t].session],
                         !.others = Sessions \ {frame[t].session}] \in Frames
    BY <1>0, <1>9, FrameFields DEF Finish
  <2>3. frame' \in [Threads -> Frames] BY <1>9, <2>2 DEF Finish, ControlTypeOK
  <2>4. owner' \in [Sessions -> Threads \cup {None}] BY <1>9 DEF Finish, ControlTypeOK
  <2>5. write_set' \in [Sessions -> SUBSET Address] BY <1>9 DEF Finish, ControlTypeOK
  <2> QED BY <1>9, <2>1, <2>3, <2>4, <2>5 DEF Finish, ControlTypeOK, Labels
<1>10. CASE \E s \in Sessions : Notify(t, s)
  <2>1. PICK s \in Sessions : Notify(t, s) BY <1>10
  <2>2. available' \in [Semaphores -> Int]
    BY <2>1, SemaphoresTyped DEF Notify
  <2>3. [frame[t] EXCEPT !.others = frame[t].others \ {s}, !.target = s,
                         !.todo = frame[t].changed] \in Frames
    BY <1>0, FrameFields
  <2>4. frame' \in [Threads -> Frames] BY <2>1, <2>3 DEF Notify, ControlTypeOK
  <2> QED BY <2>1, <2>2, <2>4 DEF Notify, ControlTypeOK, Labels
<1>11. CASE EndCommit(t)
  BY <1>11, SemaphoresTyped DEF EndCommit, Return, ControlTypeOK, Labels
<1>12. CASE Reread(t)
  <2>1. available' \in [Semaphores -> Int] BY <1>12, SemaphoresTyped DEF Reread
  <2>2. \A a : [frame[t] EXCEPT !.todo = {b \in frame[t].todo : b > a}] \in Frames
    BY <1>0, FrameFields
  <2>3. frame' \in [Threads -> Frames] BY <1>12, <2>2 DEF Reread, ControlTypeOK
  <2> QED BY <1>12, <2>1, <2>3 DEF Reread, ControlTypeOK, Labels
<1>13. CASE EndNotify(t)
  BY <1>0, <1>13, SemaphoresTyped DEF EndNotify, ControlTypeOK, Labels
<1>14. CASE LockAbort(t)
  <2>1. available' \in [Semaphores -> Int] BY <1>0, <1>14, SemaphoresTyped DEF LockAbort
  <2>2. [frame[t] EXCEPT !.todo = write_set[frame[t].session]] \in Frames
    BY <1>0, <1>14, FrameFields DEF LockAbort
  <2>3. frame' \in [Threads -> Frames] BY <1>14, <2>2 DEF LockAbort, ControlTypeOK
  <2> QED BY <1>14, <2>1, <2>3 DEF LockAbort, ControlTypeOK, Labels
<1>15. CASE EndAbort(t)
  <2>1. available' \in [Semaphores -> Int] BY <1>0, <1>15, SemaphoresTyped DEF EndAbort
  <2>2. owner' \in [Sessions -> Threads \cup {None}] BY <1>15 DEF EndAbort, ControlTypeOK
  <2>3. write_set' \in [Sessions -> SUBSET Address] BY <1>15 DEF EndAbort, ControlTypeOK
  <2>4. frame' \in [Threads -> Frames] BY <1>15 DEF EndAbort, Return, ControlTypeOK
  <2> QED BY <1>15, <2>1, <2>2, <2>3, <2>4 DEF EndAbort, Return, ControlTypeOK, Labels
<1> QED BY <1>1, <1>2, <1>3, <1>4, <1>5, <1>6, <1>7, <1>8, <1>9, <1>10, <1>11, <1>12,
           <1>13, <1>14, <1>15 DEF Continues

(***************************************************************************)
(* What a step does to the locals of its thread, and of the others.        *)
(***************************************************************************)
LEMMA OtherThreads ==
    ASSUME ControlTypeOK, NEW t \in Threads, Begins(t) \/ Continues(t),
           NEW u \in Threads, u # t
    PROVE  pc'[u] = pc[u] /\ frame'[u] = frame[u]
<1>1. CASE Begins(t)
  BY <1>1 DEF Begins, AtAddress, Begin, Commit, Abort, Set, ControlTypeOK
<1>2. CASE Ensure(t) \/ MarkDirty(t) \/ Store(t)
  BY <1>2 DEF Ensure, MarkDirty, Store, Return, ControlTypeOK
<1>3. CASE LockContent(t) \/ LockSession(t) \/ Adopt(t) \/ Scanned(t) \/ Write(t) \/ Finish(t)
  BY <1>3 DEF LockContent, LockSession, Adopt, Scanned, Write, Finish, ControlTypeOK
<1>4. CASE LockList(t) \/ (\E s \in Sessions : Notify(t, s)) \/ EndCommit(t)
  BY <1>4 DEF LockList, Notify, EndCommit, Return, ControlTypeOK
<1>5. CASE LockForRefresh(t) \/ Reread(t) \/ EndNotify(t) \/ LockAbort(t) \/ EndAbort(t)
  BY <1>5 DEF LockForRefresh, Reread, EndNotify, LockAbort, EndAbort, Return, ControlTypeOK
<1> QED BY <1>1, <1>2, <1>3, <1>4, <1>5 DEF Continues

LEMMA OwnLocals ==
    ASSUME ControlTypeOK, NEW t \in Threads
    PROVE  /\ Ensure(t) =>
                  /\ frame'[t].session = frame[t].session /\ frame'[t].target = frame[t].target
                  /\ frame'[t].others = frame[t].others
                  /\ frame'[t].created = (owner[frame[t].session] = None)
           /\ Scanned(t) \/ Write(t) \/ Reread(t) \/ LockAbort(t) =>
                  /\ frame'[t].session = frame[t].session /\ frame'[t].target = frame[t].target
                  /\ frame'[t].others = frame[t].others /\ frame'[t].created = frame[t].created
           /\ Finish(t) =>
                  /\ frame'[t].session = frame[t].session /\ frame'[t].target = frame[t].target
                  /\ frame'[t].others = Sessions \ {frame[t].session}
           /\ \A s \in Sessions : Notify(t, s) =>
                  /\ frame'[t].session = frame[t].session /\ frame'[t].target = s
                  /\ frame'[t].others = frame[t].others \ {s}
<1>0. frame[t] \in Frames /\ frame \in [Threads -> Frames] BY DEF ControlTypeOK
<1>1. ASSUME Ensure(t)
      PROVE  /\ frame'[t].session = frame[t].session /\ frame'[t].target = frame[t].target
             /\ frame'[t].others = frame[t].others
             /\ frame'[t].created = (owner[frame[t].session] = None)
  <2>1. frame'[t] = [frame[t] EXCEPT !.created = (owner[frame[t].session] = None)]
    BY <1>0, <1>1 DEF Ensure
  <2> QED BY <1>0, <2>1 DEF Frames
<1>2. ASSUME Scanned(t) \/ Write(t) \/ Reread(t) \/ LockAbort(t)
      PROVE  /\ frame'[t].session = frame[t].session /\ frame'[t].target = frame[t].target
             /\ frame'[t].others = frame[t].others /\ frame'[t].created = frame[t].created
  <2>1. \E S : frame'[t] = [frame[t] EXCEPT !.todo = S]
    BY <1>0, <1>2 DEF Scanned, Write, Reread, LockAbort
  <2> QED BY <1>0, <2>1 DEF Frames
<1>3. ASSUME Finish(t)
      PROVE  /\ frame'[t].session = frame[t].session /\ frame'[t].target = frame[t].target
             /\ frame'[t].others = Sessions \ {frame[t].session}
  <2>1. frame'[t] = [frame[t] EXCEPT !.changed = write_set[frame[t].session],
                                     !.others = Sessions \ {frame[t].session}]
    BY <1>0, <1>3 DEF Finish
  <2> QED BY <1>0, <2>1 DEF Frames
<1>4. ASSUME NEW s \in Sessions, Notify(t, s)
      PROVE  /\ frame'[t].session = frame[t].session /\ frame'[t].target = s
             /\ frame'[t].others = frame[t].others \ {s}
  <2>1. frame'[t] = [frame[t] EXCEPT !.others = frame[t].others \ {s}, !.target = s,
                                     !.todo = frame[t].changed]
    BY <1>0, <1>4 DEF Notify
  <2> QED BY <1>0, <2>1 DEF Frames
<1> QED BY <1>1, <1>2, <1>3, <1>4

(***************************************************************************)
(* A call is on a session of the program, and does not notify it.          *)
(***************************************************************************)
LEMMA PlacesStep ==
    ASSUME ControlTypeOK, Places, NEW t \in Threads, Begins(t) \/ Continues(t)
    PROVE  Places'
<1> SUFFICES /\ pc'[t] # "idle" => frame'[t].session \in Sessions /\ frame'[t].target \in Sessions
             /\ pc'[t] # "idle" => frame'[t].session \notin frame'[t].others
             /\ pc'[t] = "abort" => frame'[t].target = frame'[t].session
    BY OtherThreads DEF Places
<1>0. /\ pc[t] # "idle" => frame[t].session \in Sessions /\ frame[t].target \in Sessions
      /\ pc[t] # "idle" => frame[t].session \notin frame[t].others
      /\ pc[t] = "abort" => frame[t].target = frame[t].session
      /\ pc \in [Threads -> Labels]
  BY DEF Places, ControlTypeOK
<1>1. CASE Begins(t)
  <2>1. ASSUME NEW s \in Sessions, Commit(t, s) \/ Abort(t, s)
        PROVE  frame'[t] = Entered(s)
    BY <2>1 DEF Commit, Abort, ControlTypeOK
  <2>2. ASSUME NEW s \in Sessions, NEW a \in Objects, NEW v \in Values \cup {Fresh},
               Set(t, s, a, v)
        PROVE  frame'[t] = [Entered(s) EXCEPT !.object = a, !.value = v]
    BY <2>2 DEF Set, ControlTypeOK
  <2>3. ASSUME ~ \E s \in Sessions : Commit(t, s) \/ Abort(t, s) \/
                     \E a \in Objects, v \in Values \cup {Fresh} : Set(t, s, a, v)
        PROVE  UNCHANGED <<pc, frame>>
    BY <1>1, <2>3 DEF Begins, AtAddress, Begin
  <2>4. CASE \E s \in Sessions : Commit(t, s) \/ Abort(t, s)
    <3>1. PICK s \in Sessions : Commit(t, s) \/ Abort(t, s) BY <2>4
    <3>2. frame'[t] = Entered(s) BY <2>1, <3>1
    <3> QED BY <3>2 DEF Entered
  <2>5. CASE \E s \in Sessions, a \in Objects, v \in Values \cup {Fresh} : Set(t, s, a, v)
    <3>1. PICK s \in Sessions, a \in Objects, v \in Values \cup {Fresh} : Set(t, s, a, v)
      BY <2>5
    <3>2. frame'[t] = [Entered(s) EXCEPT !.object = a, !.value = v] BY <2>2, <3>1
    <3> QED BY <3>2 DEF Entered
  <2> QED BY <1>0, <2>3, <2>4, <2>5
<1>2. CASE Ensure(t)
  BY <1>0, <1>2, OwnLocals DEF Ensure
<1>3. CASE MarkDirty(t) \/ Store(t)
  BY <1>0, <1>3 DEF MarkDirty, Store, Return, ControlTypeOK
<1>4. CASE LockContent(t) \/ LockSession(t) \/ Adopt(t) \/ LockList(t) \/ LockForRefresh(t)
           \/ EndNotify(t)
  BY <1>0, <1>4 DEF LockContent, LockSession, Adopt, LockList, LockForRefresh, EndNotify
<1>5. CASE Scanned(t) \/ Write(t) \/ Reread(t) \/ LockAbort(t)
  BY <1>0, <1>5, OwnLocals DEF Scanned, Write, Reread, LockAbort
<1>6. CASE Finish(t)
  <2>1. pc[t] = "write" /\ pc'[t] = "list" BY <1>0, <1>6 DEF Finish
  <2>2. /\ frame'[t].session = frame[t].session /\ frame'[t].target = frame[t].target
        /\ frame'[t].others = Sessions \ {frame[t].session}
    BY <1>6, OwnLocals
  <2> QED BY <1>0, <2>1, <2>2
<1>7. CASE \E s \in Sessions : Notify(t, s)
  <2>1. PICK s \in Sessions : Notify(t, s) BY <1>7
  <2>2. pc[t] = "notify" /\ pc'[t] = "refresh" BY <1>0, <2>1 DEF Notify
  <2>3. /\ frame'[t].session = frame[t].session /\ frame'[t].target = s
        /\ frame'[t].others = frame[t].others \ {s}
    BY <2>1, OwnLocals
  <2> QED BY <1>0, <2>2, <2>3
<1>8. CASE EndCommit(t) \/ EndAbort(t)
  BY <1>8 DEF EndCommit, EndAbort, Return, ControlTypeOK
<1> QED BY <1>1, <1>2, <1>3, <1>4, <1>5, <1>6, <1>7, <1>8 DEF Continues

(***************************************************************************)
(* The transaction of a commit or an abort is its thread's until the end.  *)
(***************************************************************************)
LEMMA OwnedStep ==
    ASSUME ControlTypeOK, Places, TransactionOwned, NEW t \in Threads, Begins(t) \/ Continues(t)
    PROVE  TransactionOwned'
<1>1. \A u \in Threads : /\ InTransaction(u) => owner[frame[u].session] = u
                         /\ InTransaction(u) => frame[u].session \in Sessions
                         /\ InTransaction(u) => pc[u] # "idle"
  BY DEF TransactionOwned, Places, InTransaction, Undoing, CommitLabels
<1>2. \* An owner is replaced only by the end of its own transaction.
      \A s \in Sessions : owner'[s] # owner[s] =>
          \/ owner[s] = None
          \/ owner[s] = t /\ ~InTransaction(t)'
  <2>1. CASE Begins(t)
    BY <2>1 DEF Begins, AtAddress, Begin, Commit, Abort, Set, ControlTypeOK
  <2>2. CASE Ensure(t)
    BY <2>2 DEF Ensure, ControlTypeOK
  <2>3. CASE Finish(t) \/ EndAbort(t)
    <3>1. pc'[t] \in {"idle", "list"}
      BY <2>3 DEF Finish, EndAbort, Return, ControlTypeOK
    <3>2. InTransaction(t)
      BY <2>3 DEF Finish, EndAbort, InTransaction, Undoing, CommitLabels
    <3>3. \A s \in Sessions : owner'[s] # owner[s] => s = frame[t].session
      BY <2>3 DEF Finish, EndAbort, ControlTypeOK
    <3> QED BY <1>1, <3>1, <3>2, <3>3 DEF InTransaction, Undoing, CommitLabels
  <2>4. CASE UNCHANGED owner
    BY <2>4
  <2> QED BY <2>1, <2>2, <2>3, <2>4
        DEF Continues, MarkDirty, Store, LockContent, LockSession, Adopt, Scanned, Write,
            LockList, Notify, EndCommit, LockForRefresh, Reread, EndNotify, LockAbort
<1>3. ASSUME NEW u \in Threads, u # t, InTransaction(u)'
      PROVE  owner'[frame'[u].session] = u
  <2>1. pc'[u] = pc[u] /\ frame'[u] = frame[u] BY <1>3, OtherThreads
  <2>2. InTransaction(u) BY <1>3, <2>1 DEF InTransaction, Undoing
  <2> QED BY <1>1, <1>2, <1>3, <2>1, <2>2, Constants
<1>4. ASSUME InTransaction(t)' PROVE owner'[frame'[t].session] = t
  <2>0. pc[t] # "idle" => frame[t].session \in Sessions /\ frame[t].session \notin frame[t].others
    BY DEF Places
  <2>1. CASE Begins(t)
    <3>1. CASE \E s \in Sessions : Commit(t, s) \/ Abort(t, s)
      <4>1. PICK s \in Sessions : Commit(t, s) \/ Abort(t, s) BY <3>1
      <4>2. frame'[t].session = s /\ owner' = owner /\ owner[s] = t
        BY <4>1 DEF Commit, Abort, Entered, ControlTypeOK
      <4> QED BY <4>2
    <3>2. CASE ~ \E s \in Sessions : Commit(t, s) \/ Abort(t, s)
      <4>1. pc'[t] \in {"idle", "ensure"}
        BY <2>1, <3>2 DEF Begins, AtAddress, Begin, Set, ControlTypeOK
      <4> QED BY <1>4, <4>1 DEF InTransaction, Undoing, CommitLabels
    <3> QED BY <3>1, <3>2
  <2>2. CASE Ensure(t)
    <3>1. /\ pc'[t] = "mark" /\ frame'[t].session = frame[t].session
          /\ frame'[t].created = (owner[frame[t].session] = None)
      BY <2>2, OwnLocals DEF Ensure, ControlTypeOK
    <3>2. owner[frame[t].session] = None
      BY <1>4, <3>1 DEF InTransaction, Undoing, CommitLabels
    <3> QED BY <2>0, <2>2, <3>1, <3>2 DEF Ensure, ControlTypeOK
  <2>3. CASE MarkDirty(t) \/ Store(t)
    <3>1. InTransaction(t) /\ owner' = owner /\ frame'[t].session = frame[t].session
      BY <1>4, <2>3 DEF MarkDirty, Store, Return, InTransaction, Undoing, CommitLabels, ControlTypeOK
    <3> QED BY <1>1, <3>1
  <2>4. CASE LockContent(t) \/ LockSession(t) \/ Adopt(t) \/ LockList(t) \/ LockForRefresh(t)
             \/ EndNotify(t)
    <3>1. InTransaction(t) /\ owner' = owner /\ frame' = frame
      BY <1>4, <2>4 DEF LockContent, LockSession, Adopt, LockList, LockForRefresh, EndNotify,
                        InTransaction, Undoing, CommitLabels, ControlTypeOK
    <3> QED BY <1>1, <3>1
  <2>5. CASE Scanned(t) \/ Write(t) \/ Reread(t) \/ LockAbort(t)
    <3>1. /\ frame'[t].session = frame[t].session /\ frame'[t].target = frame[t].target
          /\ owner' = owner
      BY <2>5, OwnLocals DEF Scanned, Write, Reread, LockAbort
    <3>2. InTransaction(t)
      BY <1>4, <2>5, <3>1 DEF Scanned, Write, Reread, LockAbort, InTransaction, Undoing,
                              CommitLabels, ControlTypeOK
    <3> QED BY <1>1, <3>1, <3>2
  <2>6. CASE Finish(t) \/ EndCommit(t) \/ EndAbort(t)
    <3>1. pc'[t] \in {"idle", "list"}
      BY <2>6 DEF Finish, EndCommit, EndAbort, Return, ControlTypeOK
    <3> QED BY <1>4, <3>1 DEF InTransaction, Undoing, CommitLabels
  <2>7. CASE \E s \in Sessions : Notify(t, s)
    <3>1. PICK s \in Sessions : Notify(t, s) BY <2>7
    <3>2. pc'[t] = "refresh" /\ frame'[t].target = s /\ frame'[t].session = frame[t].session
          /\ s # frame[t].session
      BY <2>0, <3>1, OwnLocals DEF Notify, ControlTypeOK
    <3> QED BY <1>4, <3>2 DEF InTransaction, Undoing, CommitLabels
  <2> QED BY <2>1, <2>2, <2>3, <2>4, <2>5, <2>6, <2>7 DEF Continues
<1> QED BY <1>3, <1>4 DEF TransactionOwned

(***************************************************************************)
(* The semaphores.  Held is who has what; a step of a thread changes what  *)
(* it holds by what it waits for and what it posts.                        *)
(***************************************************************************)
HeldAt(p, f) ==
    {x \in Semaphores :
        \/ x = "content" /\ p \in {"session", "scan", "write", "reread"}
        \/ x = "list" /\ (p = "notify" \/ (p \in {"refresh", "reread"} /\ f.target # f.session))
        \/ x \in Sessions /\ x = f.session /\ p \in {"scan", "write"}
        \/ x \in Sessions /\ x = f.target /\ p \in {"refresh", "reread"}}

Held == [t \in Threads |-> HeldAt(pc[t], frame[t])]

\* Excluded, for the semaphores a and the holders H.
Exclude(a, H) ==
    \A x \in Semaphores :
        /\ \A t, u \in Threads : x \in H[t] /\ x \in H[u] => t = u
        /\ a[x] = IF \E t \in Threads : x \in H[t] THEN 0 ELSE 1

LEMMA HoldsAt ==
    \A p, f : \A x \in Semaphores :
        x \in HeldAt(p, f) <=>
            \/ x = "content" /\ p \in {"session", "scan", "write", "reread"}
            \/ x = "list" /\ p \in {"notify", "refresh", "reread"}
                          /\ ~(p \in {"refresh", "reread"} /\ f.target = f.session)
            \/ x \in Sessions /\ x = f.session /\ p \in {"scan", "write"}
            \/ x \in Sessions /\ x = f.target /\ p \in {"refresh", "reread"}
<1> TAKE p, f
<1> TAKE x \in Semaphores
<1>1. p \in {"notify", "refresh", "reread"} /\ ~(p \in {"refresh", "reread"} /\ f.target = f.session)
      <=> p = "notify" \/ (p \in {"refresh", "reread"} /\ f.target # f.session)
  OBVIOUS
<1> QED BY <1>1 DEF HeldAt

LEMMA ExcludedHeld == Excluded <=> (Blocking => Exclude(available, Held))
<1>1. ASSUME NEW t \in Threads, NEW x \in Semaphores PROVE Holds(t, x) <=> x \in Held[t]
  <2>1. Held[t] = HeldAt(pc[t], frame[t]) BY DEF Held
  <2>2. Holds(t, x) <=> x \in HeldAt(pc[t], frame[t]) BY HoldsAt DEF Holds, Undoing
  <2> QED BY <2>1, <2>2
<1> QED BY <1>1 DEF Excluded, Exclude

\* What a call has at each of its places.
LEMMA HeldPlaces ==
    ASSUME NEW f, f.session \in Sessions, f.target \in Sessions
    PROVE  /\ \A p \in {"ensure", "mark", "store", "content", "list", "abort"} : HeldAt(p, f) = {}
           /\ HeldAt("session", f) = {"content"}
           /\ \A p \in {"scan", "write"} : HeldAt(p, f) = {"content", f.session}
           /\ HeldAt("notify", f) = {"list"}
           /\ f.target # f.session => /\ HeldAt("refresh", f) = {"list", f.target}
                                     /\ HeldAt("reread", f) = {"content", "list", f.target}
           /\ f.target = f.session => /\ HeldAt("refresh", f) = {f.target}
                                     /\ HeldAt("reread", f) = {"content", f.target}
<1> USE Constants
<1>1. \A p \in {"ensure", "mark", "store", "content", "list", "abort"} : HeldAt(p, f) = {}
  BY DEF HeldAt
<1>2. HeldAt("session", f) = {"content"} BY DEF HeldAt
<1>3. \A p \in {"scan", "write"} : HeldAt(p, f) = {"content", f.session} BY DEF HeldAt
<1>4. HeldAt("notify", f) = {"list"}
  BY DEF HeldAt
<1>5. f.target # f.session => /\ HeldAt("refresh", f) = {"list", f.target}
                             /\ HeldAt("reread", f) = {"content", "list", f.target}
  BY DEF HeldAt
<1>6. f.target = f.session => /\ HeldAt("refresh", f) = {f.target}
                             /\ HeldAt("reread", f) = {"content", f.target}
  BY DEF HeldAt
<1> QED BY <1>1, <1>2, <1>3, <1>4, <1>5, <1>6

LEMMA HeldIdle == \A f : HeldAt("idle", f) = {}
BY DEF HeldAt

LEMMA WaitExcludes ==
    ASSUME NEW a \in [Semaphores -> Int], NEW b, NEW H \in [Threads -> SUBSET Semaphores],
           NEW t \in Threads, NEW x \in Semaphores,
           Exclude(a, H), a[x] > 0,
           b = [y \in Semaphores |-> a[y] - (IF y \in {x} THEN 1 ELSE 0)]
    PROVE  Exclude(b, [H EXCEPT ![t] = H[t] \cup {x}])
<1> DEFINE K == [H EXCEPT ![t] = H[t] \cup {x}]
<1>1. \A u \in Threads : x \notin H[u] /\ a[x] = 1
  BY DEF Exclude
<1> SUFFICES ASSUME NEW y \in Semaphores
             PROVE  /\ \A v, u \in Threads : y \in K[v] /\ y \in K[u] => v = u
                    /\ b[y] = IF \E u \in Threads : y \in K[u] THEN 0 ELSE 1
  BY DEF Exclude
<1>2. CASE y = x
  <2>1. \A u \in Threads : y \in K[u] <=> u = t BY <1>1, <1>2
  <2> QED BY <1>1, <1>2, <2>1
<1>3. CASE y # x
  <2>1. \A u \in Threads : y \in K[u] <=> y \in H[u] BY <1>3
  <2>2. b[y] = a[y] BY <1>3
  <2> QED BY <2>1, <2>2 DEF Exclude
<1> QED BY <1>2, <1>3

LEMMA PostExcludes ==
    ASSUME NEW a \in [Semaphores -> Int], NEW b, NEW H \in [Threads -> SUBSET Semaphores],
           NEW t \in Threads, NEW X \in SUBSET Semaphores,
           Exclude(a, H), X \subseteq H[t],
           b = [y \in Semaphores |-> a[y] + (IF y \in X THEN 1 ELSE 0)]
    PROVE  Exclude(b, [H EXCEPT ![t] = H[t] \ X])
<1> DEFINE K == [H EXCEPT ![t] = H[t] \ X]
<1> SUFFICES ASSUME NEW y \in Semaphores
             PROVE  /\ \A v, u \in Threads : y \in K[v] /\ y \in K[u] => v = u
                    /\ b[y] = IF \E u \in Threads : y \in K[u] THEN 0 ELSE 1
  BY DEF Exclude
<1>1. CASE y \in X
  <2>1. a[y] = 0 /\ \A u \in Threads : y \notin K[u] BY <1>1 DEF Exclude
  <2> QED BY <1>1, <2>1
<1>2. CASE y \notin X
  <2>1. \A u \in Threads : y \in K[u] <=> y \in H[u] BY <1>2
  <2>2. b[y] = a[y] BY <1>2
  <2> QED BY <2>1, <2>2 DEF Exclude
<1> QED BY <1>1, <1>2

(***************************************************************************)
(* A step that waits for x, or posts X, keeps the exclusion.               *)
(***************************************************************************)
Waits(t, x) ==
    /\ Available(x) /\ x \in Semaphores
    /\ available' = Waited({x})
    /\ Held' = [Held EXCEPT ![t] = Held[t] \cup {x}]

Posts(t, X) ==
    /\ X \subseteq Held[t]
    /\ available' = Posted(X)
    /\ Held' = [Held EXCEPT ![t] = Held[t] \ X]

LEMMA ExclusionKept ==
    ASSUME ControlTypeOK, Excluded, NEW t \in Threads,
           \/ \E x \in Semaphores : Waits(t, x)
           \/ \E X \in SUBSET Semaphores : Posts(t, X)
           \/ available' = available /\ Held' = Held
    PROVE  Excluded'
<1>1. Excluded' <=> (Blocking => Exclude(available', Held'))
  <2>1. ASSUME NEW u \in Threads, NEW x \in Semaphores PROVE Holds(u, x)' <=> x \in Held'[u]
    <3>1. Held'[u] = HeldAt(pc'[u], frame'[u]) BY DEF Held
    <3>2. Holds(u, x)' <=> x \in HeldAt(pc'[u], frame'[u]) BY HoldsAt DEF Holds, Undoing
    <3> QED BY <3>1, <3>2
  <2> QED BY <2>1 DEF Excluded, Exclude
<1> SUFFICES ASSUME Blocking PROVE Exclude(available', Held')
  BY <1>1
<1>2. Exclude(available, Held) BY ExcludedHeld
<1>3. available \in [Semaphores -> Int] /\ Held \in [Threads -> SUBSET Semaphores]
  BY DEF ControlTypeOK, Held, HeldAt
<1>4. CASE \E x \in Semaphores : Waits(t, x)
  <2>1. PICK x \in Semaphores : Waits(t, x) BY <1>4
  <2>2. available[x] > 0 BY <2>1 DEF Waits, Available
  <2>3. available' = [y \in Semaphores |-> available[y] - (IF y \in {x} THEN 1 ELSE 0)]
    BY <2>1 DEF Waits, Waited
  <2>4. Exclude(available', [Held EXCEPT ![t] = Held[t] \cup {x}])
    BY <1>2, <1>3, <2>2, <2>3, WaitExcludes
  <2> QED BY <2>1, <2>4 DEF Waits
<1>5. CASE \E X \in SUBSET Semaphores : Posts(t, X)
  <2>1. PICK X \in SUBSET Semaphores : Posts(t, X) BY <1>5
  <2>2. available' = [y \in Semaphores |-> available[y] + (IF y \in X THEN 1 ELSE 0)]
    BY <2>1 DEF Posts, Posted
  <2>3. X \subseteq Held[t] BY <2>1 DEF Posts
  <2>4. Exclude(available', [Held EXCEPT ![t] = Held[t] \ X])
    BY <1>2, <1>3, <2>2, <2>3, PostExcludes
  <2> QED BY <2>1, <2>4 DEF Posts
<1>6. CASE available' = available /\ Held' = Held
  BY <1>2, <1>6
<1> QED BY <1>4, <1>5, <1>6

(***************************************************************************)
(* The semaphores exclude: every step of a call waits for one, posts those *)
(* it has, or leaves them.                                                 *)
(***************************************************************************)
LEMMA ExcludedStep ==
    ASSUME ControlTypeOK, Places, Excluded, NEW t \in Threads, Begins(t) \/ Continues(t)
    PROVE  Excluded'
<1> USE Constants
<1>0. /\ pc \in [Threads -> Labels] /\ frame \in [Threads -> Frames]
      /\ pc[t] # "idle" => /\ frame[t].session \in Sessions /\ frame[t].target \in Sessions
                           /\ frame[t].session \notin frame[t].others
  BY DEF ControlTypeOK, Places
<1>1. Held' = [Held EXCEPT ![t] = HeldAt(pc'[t], frame'[t])]
  BY OtherThreads DEF Held
<1>2. Held[t] = HeldAt(pc[t], frame[t]) /\ Held = [Held EXCEPT ![t] = Held[t]]
  BY DEF Held
<1> SUFFICES \/ \E x \in Semaphores : Waits(t, x)
             \/ \E X \in SUBSET Semaphores : Posts(t, X)
             \/ available' = available /\ Held' = Held
  BY ExclusionKept
<1>3. CASE Begins(t)
  <2>1. available' = available
    BY <1>3 DEF Begins, AtAddress, Begin, Commit, Abort, Set
  <2>2. pc'[t] \in {"idle", "ensure", "content", "abort"} /\ pc[t] = "idle"
    BY <1>0, <1>3 DEF Begins, AtAddress, Begin, Commit, Abort, Set
  <2>3. HeldAt(pc'[t], frame'[t]) = {} /\ Held[t] = {}
    BY <1>2, <2>2 DEF HeldAt
  <2> QED BY <1>1, <1>2, <2>1, <2>3
<1>4. CASE Ensure(t) \/ MarkDirty(t) \/ Store(t)
  <2>1. available' = available
    BY <1>4 DEF Ensure, MarkDirty, Store
  <2>2. pc[t] \in {"ensure", "mark", "store"} /\ pc'[t] \in {"idle", "mark", "store", "content"}
    BY <1>0, <1>4 DEF Ensure, MarkDirty, Store, Return
  <2>3. HeldAt(pc'[t], frame'[t]) = {} /\ Held[t] = {}
    BY <1>2, <2>2 DEF HeldAt
  <2> QED BY <1>1, <1>2, <2>1, <2>3
<1>5. CASE LockContent(t)
  <2>1. pc[t] = "content" /\ pc'[t] = "session" /\ frame'[t] = frame[t]
    BY <1>0, <1>5 DEF LockContent
  <2>2. HeldAt(pc'[t], frame'[t]) = Held[t] \cup {"content"}
    BY <1>0, <1>2, <2>1, HeldPlaces
  <2> QED BY <1>1, <1>5, <2>2 DEF LockContent, Waits
<1>6. CASE LockSession(t)
  <2>1. pc[t] = "session" /\ pc'[t] = "scan" /\ frame'[t] = frame[t]
    BY <1>0, <1>6 DEF LockSession
  <2>2. HeldAt(pc'[t], frame'[t]) = Held[t] \cup {frame[t].session}
    BY <1>0, <1>2, <2>1, HeldPlaces
  <2> QED BY <1>0, <1>1, <1>6, <2>1, <2>2 DEF LockSession, Waits
<1>7. CASE Adopt(t)
  BY <1>7, <1>1, <1>2 DEF Adopt
<1>8. CASE Scanned(t) \/ Write(t)
  <2>1. pc[t] \in {"scan", "write"} /\ pc'[t] = "write" /\ frame'[t].session = frame[t].session
        /\ available' = available
    BY <1>0, <1>8, OwnLocals DEF Scanned, Write
  <2>2. HeldAt(pc'[t], frame'[t]) = Held[t]
    BY <1>2, <2>1 DEF HeldAt
  <2> QED BY <1>1, <1>2, <2>1, <2>2
<1>9. CASE Finish(t)
  <2>1. pc[t] = "write" /\ pc'[t] = "list"
        /\ available' = Posted({"content", frame[t].session})
    BY <1>0, <1>9 DEF Finish, Posted
  <2>2. HeldAt(pc'[t], frame'[t]) = {} BY <2>1 DEF HeldAt
  <2>3. Held[t] = {"content", frame[t].session}
    BY <1>0, <1>2, <2>1, HeldPlaces
  <2>4. Posts(t, Held[t]) BY <1>1, <2>1, <2>2, <2>3 DEF Posts
  <2>5. Held[t] \in SUBSET Semaphores BY <1>2 DEF HeldAt
  <2> QED BY <2>4, <2>5
<1>10. CASE LockList(t)
  <2>1. pc[t] = "list" /\ pc'[t] = "notify" /\ frame'[t] = frame[t]
    BY <1>0, <1>10 DEF LockList
  <2>2. HeldAt(pc'[t], frame'[t]) = Held[t] \cup {"list"}
    BY <1>0, <1>2, <2>1, HeldPlaces
  <2> QED BY <1>1, <1>10, <2>2 DEF LockList, Waits
<1>11. CASE \E s \in Sessions : Notify(t, s)
  <2>1. PICK s \in Sessions : Notify(t, s) BY <1>11
  <2>2. pc[t] = "notify" /\ pc'[t] = "refresh" /\ frame'[t].target = s
        /\ frame'[t].session = frame[t].session /\ s # frame[t].session
    BY <1>0, <2>1, OwnLocals DEF Notify
  <2>3. HeldAt(pc'[t], frame'[t]) = Held[t] \cup {s}
    BY <1>0, <1>2, <2>2, HeldPlaces
  <2> QED BY <1>1, <2>1, <2>3 DEF Notify, Waits
<1>12. CASE EndCommit(t)
  <2>1. pc[t] = "notify" /\ pc'[t] = "idle" BY <1>0, <1>12 DEF EndCommit, Return
  <2>2. HeldAt(pc'[t], frame'[t]) = {} /\ Held[t] = {"list"}
    BY <1>0, <1>2, <2>1, HeldPlaces, HeldIdle
  <2>3. Posts(t, {"list"}) BY <1>1, <1>12, <2>2 DEF Posts, EndCommit
  <2> QED BY <2>3
<1>13. CASE LockForRefresh(t)
  <2>1. pc[t] = "refresh" /\ pc'[t] = "reread" /\ frame'[t] = frame[t]
    BY <1>0, <1>13 DEF LockForRefresh
  <2>2. HeldAt(pc'[t], frame'[t]) = Held[t] \cup {"content"}
    BY <1>0, <1>2, <2>1, HeldPlaces
  <2> QED BY <1>1, <1>13, <2>2 DEF LockForRefresh, Waits
<1>14. CASE Reread(t)
  <2>1. pc[t] = "reread" /\ pc'[t] = "refresh"
        /\ frame'[t].session = frame[t].session /\ frame'[t].target = frame[t].target
    BY <1>0, <1>14, OwnLocals DEF Reread
  <2>2. HeldAt(pc'[t], frame'[t]) = Held[t] \ {"content"} /\ "content" \in Held[t]
    BY <1>0, <1>2, <2>1, HeldPlaces
  <2>3. Posts(t, {"content"}) BY <1>1, <1>14, <2>2 DEF Posts, Reread
  <2> QED BY <2>3
<1>15. CASE EndNotify(t)
  <2>1. pc[t] = "refresh" /\ pc'[t] = "notify" /\ frame'[t] = frame[t]
        /\ frame[t].target # frame[t].session
    BY <1>0, <1>15 DEF EndNotify
  <2>2. HeldAt(pc'[t], frame'[t]) = Held[t] \ {frame[t].target} /\ frame[t].target \in Held[t]
    BY <1>0, <1>2, <2>1, HeldPlaces
  <2>3. Posts(t, {frame[t].target}) BY <1>1, <1>15, <2>2 DEF Posts, EndNotify
  <2> QED BY <1>0, <2>1, <2>3
<1>16. CASE LockAbort(t)
  <2>1. pc[t] = "abort" /\ pc'[t] = "refresh"
        /\ frame'[t].session = frame[t].session /\ frame'[t].target = frame[t].target
        /\ frame[t].target = frame[t].session
    BY <1>0, <1>16, OwnLocals DEF LockAbort, Places
  <2>2. HeldAt(pc'[t], frame'[t]) = Held[t] \cup {frame[t].session}
    BY <1>0, <1>2, <2>1, HeldPlaces
  <2> QED BY <1>0, <1>1, <1>16, <2>1, <2>2 DEF LockAbort, Waits
<1>17. CASE EndAbort(t)
  <2>1. pc[t] = "refresh" /\ pc'[t] = "idle" /\ frame[t].target = frame[t].session
    BY <1>0, <1>17 DEF EndAbort, Return
  <2>2. HeldAt(pc'[t], frame'[t]) = {} /\ Held[t] = {frame[t].target}
    BY <1>0, <1>2, <2>1, HeldPlaces, HeldIdle
  <2>3. Posts(t, {frame[t].target}) BY <1>1, <1>17, <2>2 DEF Posts, EndAbort
  <2> QED BY <1>0, <2>1, <2>3
<1> QED BY <1>3, <1>4, <1>5, <1>6, <1>7, <1>8, <1>9, <1>10, <1>11, <1>12, <1>13, <1>14,
           <1>15, <1>16, <1>17 DEF Continues

-------------------------------------------------------------------------------
LEMMA ControlInit == Init => ControlInv
<1> SUFFICES ASSUME Init PROVE ControlInv
  OBVIOUS
<1> USE Constants, EnteredFrame
<1>1. ControlTypeOK BY DEF Init, ControlTypeOK, Labels
<1>2. \A t \in Threads : pc[t] = "idle" BY DEF Init
<1>3. Places BY <1>2 DEF Places
<1>4. \A t \in Threads, x \in Semaphores : ~Holds(t, x) BY <1>2 DEF Holds
<1>5. Excluded BY <1>4 DEF Excluded, Init
<1>6. TransactionOwned BY <1>2 DEF TransactionOwned, InTransaction, Undoing, CommitLabels
<1> QED BY <1>1, <1>3, <1>5, <1>6 DEF ControlInv

LEMMA ControlStep == ControlInv /\ [Next]_vars => ControlInv'
<1> SUFFICES ASSUME ControlInv, [Next]_vars PROVE ControlInv'
  OBVIOUS
<1>0. ControlTypeOK /\ Places /\ Excluded /\ TransactionOwned BY DEF ControlInv
<1>1. ASSUME NEW t \in Threads, Begins(t) \/ Continues(t) PROVE ControlInv'
  <2>1. ControlTypeOK' BY <1>0, <1>1, BeginsTyped, ContinuesTyped
  <2>2. Places' BY <1>0, <1>1, PlacesStep
  <2>3. Excluded' BY <1>0, <1>1, ExcludedStep
  <2>4. TransactionOwned' BY <1>0, <1>1, OwnedStep
  <2> QED BY <2>1, <2>2, <2>3, <2>4 DEF ControlInv
<1>2. CASE UNCHANGED vars
  <2>1. ControlTypeOK' BY <1>0, <1>2 DEF ControlTypeOK, vars
  <2>2. Places' BY <1>0, <1>2 DEF Places, vars
  <2>3. Excluded' BY <1>0, <1>2 DEF Excluded, Holds, Undoing, vars
  <2>4. TransactionOwned'
    BY <1>0, <1>2 DEF TransactionOwned, InTransaction, Undoing, vars
  <2> QED BY <2>1, <2>2, <2>3, <2>4 DEF ControlInv
<1> QED BY <1>1, <1>2 DEF Next

(***************************************************************************)
(* The control state of the calls keeps its types and its invariant,       *)
(* however many threads call however many sessions.                        *)
(***************************************************************************)
THEOREM ControlInvariant == Spec => []ControlInv
BY ControlInit, ControlStep, PTL DEF Spec

(***************************************************************************)
(* The semaphores of session.c and transaction.c exclude: on every path of *)
(* a commit, its notifications and an abort, what was waited for is posted *)
(* once, by the call that waited for it.                                   *)
(***************************************************************************)
THEOREM Exclusion == Spec => []Excluded
<1>1. ControlInv => Excluded BY DEF ControlInv
<1> QED BY <1>1, ControlInvariant, PTL

(***************************************************************************)
(* The transaction that obl_commit_transaction and obl_abort_transaction   *)
(* work on is not freed by another thread meanwhile, even when threads     *)
(* share sessions.                                                         *)
(***************************************************************************)
THEOREM OwnedTransactions == Spec => []TransactionOwned
<1>1. ControlInv => TransactionOwned BY DEF ControlInv
<1> QED BY <1>1, ControlInvariant, PTL
===============================================================================
