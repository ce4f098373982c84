------------------------------ MODULE Lifetimes -------------------------------
(***************************************************************************)
(* How long things live (session.c, transaction.c, obl_close_database): a  *)
(* program creates and destroys sessions while it commits in others, and   *)
(* closes the database with sessions that are still open.                  *)
(*                                                                         *)
(* An object of a session is a copy of what the content stores.  The       *)
(* session list is used under its semaphore only: to append or remove is   *)
(* one step.  Where waits block, a refresh waits for a semaphore that its  *)
(* own thread holds (session.c:75), and does not return; where they do     *)
(* not, the program has one thread.  A refresh within a close reads        *)
(* through the pointer to the content, which is NULL by then               *)
(* (database.c:560, object.c:247): it does not return either.              *)
(***************************************************************************)
EXTENDS Sequences, Functions

CONSTANTS
    Threads, Sessions, Objects,
    Programs,   \* what programs there are: whether waits block, the threads
                \* that call, and whether they are careful (see below)
    None

ASSUME LifetimesAssumption ==
    /\ None \notin Threads \cup Sessions
    /\ Programs \subseteq [blocking : BOOLEAN, threads : SUBSET Threads, careful : BOOLEAN]
    /\ \A p \in Programs : ~p.blocking => \A t, u \in p.threads : t = u

VARIABLES
    program,
    database,            \* "open", "closing" once the content is unmapped, "closed"
    session_list,
    list_mutex,          \* the thread that holds it
    state,               \* of a session: "none", "open", "leaving", "freed"
    copies,              \* of a session: what its copy of each object is
    current_transaction, \* of a session: whether it has one
    write_set,           \* of that transaction
    used,                \* what was used after its release
    pc                   \* where each thread is

vars == <<program, database, session_list, list_mutex, state, copies,
          current_transaction, write_set, used, pc>>

At(label, s, set, rest) == [at |-> label, session |-> s, set |-> set, rest |-> rest]
Idle == At("idle", None, {}, <<>>)
Is(t, label) == pc[t].at = label

\* Mutant: nothing waits for the list.
AvailableAnyway == list_mutex \in Threads \cup {None}

Available == ~program.blocking \/ list_mutex = None

\* A session is one thread's view: no two use it at once.
Owns(s) == \A u \in Threads : pc[u].session # s
Calls(t, s) ==
    /\ t \in program.threads /\ Is(t, "idle")
    /\ database = "open" /\ state[s] = "open" /\ Owns(s)

\* A careful program destroys no session while it commits in another, and
\* closes no database with a transaction.
Notifying == \E u \in Threads : pc[u].at \in {"lock", "notify", "stuck"}
Destroying == \E u \in Threads : pc[u].at \in {"abort", "release", "leave", "stuck"}
-------------------------------------------------------------------------------
(* obl_create_session *)

Create(t, s) ==
    /\ t \in program.threads /\ Is(t, "idle")
    /\ database = "open" /\ state[s] = "none"
    /\ state' = [state EXCEPT ![s] = "open"]
    /\ pc' = [pc EXCEPT ![t] = At("append", s, {}, <<>>)]
    /\ UNCHANGED <<program, database, session_list, list_mutex, copies,
                   current_transaction, write_set, used>>

AppendSession(t) ==
    /\ Is(t, "append") /\ Available
    /\ session_list' = <<pc[t].session>> \o session_list
    /\ pc' = [pc EXCEPT ![t] = Idle]
    /\ UNCHANGED <<program, database, list_mutex, state, copies,
                   current_transaction, write_set, used>>

(* What a program does with a session in between *)

Read(t, s, o) ==
    /\ Calls(t, s) /\ copies[s][o] = "none"
    /\ copies' = [copies EXCEPT ![s][o] = "same"]
    /\ UNCHANGED <<program, database, session_list, list_mutex, state,
                   current_transaction, write_set, used, pc>>

Begin(t, s) ==
    /\ Calls(t, s) /\ ~current_transaction[s]
    /\ current_transaction' = [current_transaction EXCEPT ![s] = TRUE]
    /\ write_set' = [write_set EXCEPT ![s] = {}]
    /\ UNCHANGED <<program, database, session_list, list_mutex, state, copies, used, pc>>

Change(t, s, o) ==
    /\ Calls(t, s) /\ current_transaction[s] /\ copies[s][o] # "none"
    /\ copies' = [copies EXCEPT ![s][o] = "changed"]
    /\ write_set' = [write_set EXCEPT ![s] = @ \cup {o}]
    /\ UNCHANGED <<program, database, session_list, list_mutex, state,
                   current_transaction, used, pc>>
-------------------------------------------------------------------------------
(* obl_commit_transaction, and the notification of the sessions listed *)

Committed(s, x, o) ==
    CASE o \in write_set[s] /\ x = s -> "same"
      [] o \in write_set[s] /\ x # s /\ copies[x][o] = "same" -> "old"
      [] OTHER -> copies[x][o]

Commit(t, s) ==
    /\ Calls(t, s) /\ current_transaction[s]
    /\ program.careful => ~Destroying
    /\ copies' = [x \in Sessions |-> [o \in Objects |-> Committed(s, x, o)]]
    /\ current_transaction' = [current_transaction EXCEPT ![s] = FALSE]
    /\ write_set' = [write_set EXCEPT ![s] = {}]
    /\ pc' = [pc EXCEPT ![t] = At("lock", s, write_set[s], <<>>)]
    /\ UNCHANGED <<program, database, session_list, list_mutex, state, used>>

LockList(t) ==
    /\ Is(t, "lock") /\ Available
    /\ list_mutex' = t
    /\ pc' = [pc EXCEPT ![t].at = "notify", ![t].rest = session_list]
    /\ UNCHANGED <<program, database, session_list, state, copies,
                   current_transaction, write_set, used>>

Released(s) ==
    CASE state[s] = "leaving" -> {"session"} [] state[s] = "freed" -> {"freed session"}
      [] OTHER -> {}

Refreshes(s, set) == \E o \in set : copies[s][o] # "none"

\* Mutant: the session next to the one that commits is passed over too.
NotifySkips(t) ==
    LET other == Head(pc[t].rest)
    IN  /\ Is(t, "notify") /\ pc[t].rest # <<>>
        /\ used' = used \cup Released(other)
        /\ copies' = IF other = pc[t].session THEN copies
                     ELSE [copies EXCEPT ![other] =
                              [o \in Objects |-> IF o \in pc[t].set /\ @[o] # "none"
                                                 THEN "same" ELSE @[o]]]
        /\ pc' = [pc EXCEPT ![t].rest =
                     IF other = pc[t].session /\ Len(@) > 1 THEN Tail(Tail(@)) ELSE Tail(@)]
        /\ UNCHANGED <<program, database, session_list, list_mutex, state,
                       current_transaction, write_set>>

\* _obl_update_objects of the next session, if it is another one.
Notify(t) ==
    LET other == Head(pc[t].rest)
        told == other # pc[t].session
        refreshes == told /\ Refreshes(other, pc[t].set)
    IN  /\ Is(t, "notify") /\ pc[t].rest # <<>>
        /\ used' = used \cup (IF told THEN Released(other) ELSE {})
        /\ IF refreshes /\ program.blocking
           THEN /\ pc' = [pc EXCEPT ![t].at = "stuck"]
                /\ UNCHANGED copies
           ELSE /\ pc' = [pc EXCEPT ![t].rest = Tail(@)]
                /\ copies' = IF ~refreshes THEN copies
                             ELSE [copies EXCEPT ![other] =
                                      [o \in Objects |-> IF o \in pc[t].set /\ @[o] # "none"
                                                         THEN "same" ELSE @[o]]]
        /\ UNCHANGED <<program, database, session_list, list_mutex, state,
                       current_transaction, write_set>>

EndNotify(t) ==
    /\ Is(t, "notify") /\ pc[t].rest = <<>>
    /\ list_mutex' = None
    /\ pc' = [pc EXCEPT ![t] = Idle]
    /\ UNCHANGED <<program, database, session_list, state, copies,
                   current_transaction, write_set, used>>
-------------------------------------------------------------------------------
(* obl_destroy_session *)

\* What comes first when a session is destroyed, by the program or by a close.
Destroyed(s, rest) == At(IF current_transaction[s] THEN "abort" ELSE "release", s, {}, rest)

Destroy(t, s) ==
    /\ Calls(t, s)
    /\ program.careful => ~Notifying
    /\ pc' = [pc EXCEPT ![t] = Destroyed(s, <<>>)]
    /\ UNCHANGED <<program, database, session_list, list_mutex, state, copies,
                   current_transaction, write_set, used>>

\* obl_abort_transaction refreshes what was changed, from the content: not
\* once it is unmapped, where the program ends.
Reread(t) ==
    LET s == pc[t].session
    IN  /\ Is(t, "abort") /\ write_set[s] # {}
        /\ used' = used \cup (IF database = "closing" THEN {"content"} ELSE {})
        /\ IF program.blocking \/ database = "closing"
           THEN /\ pc' = [pc EXCEPT ![t].at = "stuck"]
                /\ UNCHANGED <<copies, write_set>>
           ELSE \E o \in write_set[s] :
                   /\ copies' = [copies EXCEPT ![s][o] = "same"]
                   /\ write_set' = [write_set EXCEPT ![s] = @ \ {o}]
                   /\ UNCHANGED pc
        /\ UNCHANGED <<program, database, session_list, list_mutex, state, current_transaction>>

\* Mutant: the transaction goes before what it changed is read again.
EndAbortAtOnce(t) ==
    LET s == pc[t].session
    IN  /\ Is(t, "abort")
        /\ current_transaction' = [current_transaction EXCEPT ![s] = FALSE]
        /\ pc' = [pc EXCEPT ![t].at = "release"]
        /\ UNCHANGED <<program, database, session_list, list_mutex, state, copies,
                       write_set, used>>

EndAbort(t) ==
    LET s == pc[t].session
    IN  /\ Is(t, "abort") /\ write_set[s] = {}
        /\ current_transaction' = [current_transaction EXCEPT ![s] = FALSE]
        /\ pc' = [pc EXCEPT ![t].at = "release"]
        /\ UNCHANGED <<program, database, session_list, list_mutex, state, copies,
                       write_set, used>>

\* The read set and what is in it, and the semaphore.
Release(t) ==
    LET s == pc[t].session
    IN  /\ Is(t, "release")
        /\ state' = [state EXCEPT ![s] = "leaving"]
        /\ copies' = [copies EXCEPT ![s] = [o \in Objects |-> "none"]]
        /\ pc' = [pc EXCEPT ![t].at = "leave"]
        /\ UNCHANGED <<program, database, session_list, list_mutex,
                       current_transaction, write_set, used>>

PlaceOf(s) == CHOOSE i \in DOMAIN session_list : session_list[i] = s

\* Mutant: the first of the list is not unlinked.
WithoutUnlessFirst(s) ==
    IF s \notin Range(session_list) \/ PlaceOf(s) = 1 THEN session_list
    ELSE [j \in 1 .. Len(session_list) - 1 |->
             session_list[IF j < PlaceOf(s) THEN j ELSE j + 1]]

\* obl_session_list_remove of a session that has one node (ListIsActive), or
\* none when the list was taken from the database.
Without(s) ==
    IF s \notin Range(session_list) THEN session_list
    ELSE [j \in 1 .. Len(session_list) - 1 |->
             session_list[IF j < PlaceOf(s) THEN j ELSE j + 1]]

\* Then the session itself.
Leave(t) ==
    LET s == pc[t].session
    IN  /\ Is(t, "leave") /\ Available
        /\ session_list' = Without(s)
        /\ state' = [state EXCEPT ![s] = "freed"]
        /\ pc' = [pc EXCEPT ![t] =
                     IF database = "closing" THEN At("close", None, {}, pc[t].rest) ELSE Idle]
        /\ UNCHANGED <<program, database, list_mutex, copies, current_transaction,
                       write_set, used>>
-------------------------------------------------------------------------------
(* obl_close_database, when no other call runs *)

Close(t) ==
    /\ t \in program.threads /\ database = "open"
    /\ \A u \in Threads : Is(u, "idle")
    /\ program.careful => \A s \in Sessions : ~current_transaction[s]
    /\ database' = "closing"
    /\ pc' = [pc EXCEPT ![t] = At("close", None, {}, session_list)]
    /\ session_list' = <<>>
    /\ UNCHANGED <<program, list_mutex, state, copies, current_transaction, write_set, used>>

\* Mutant: it ends after the first session.
CloseFirst(t) ==
    /\ Is(t, "close") /\ pc[t].rest # <<>>
    /\ pc' = [pc EXCEPT ![t] = Destroyed(Head(@.rest), <<>>)]
    /\ UNCHANGED <<program, database, session_list, list_mutex, state, copies,
                   current_transaction, write_set, used>>

\* Mutant: it stays at the session it has destroyed.
CloseNextStays(t) ==
    /\ Is(t, "close") /\ pc[t].rest # <<>>
    /\ pc' = [pc EXCEPT ![t] = Destroyed(Head(@.rest), @.rest)]
    /\ UNCHANGED <<program, database, session_list, list_mutex, state, copies,
                   current_transaction, write_set, used>>

CloseNext(t) ==
    /\ Is(t, "close") /\ pc[t].rest # <<>>
    /\ pc' = [pc EXCEPT ![t] = Destroyed(Head(pc[t].rest), Tail(pc[t].rest))]
    /\ UNCHANGED <<program, database, session_list, list_mutex, state, copies,
                   current_transaction, write_set, used>>

EndClose(t) ==
    /\ Is(t, "close") /\ pc[t].rest = <<>>
    /\ database' = "closed"
    /\ pc' = [pc EXCEPT ![t] = Idle]
    /\ UNCHANGED <<program, session_list, list_mutex, state, copies,
                   current_transaction, write_set, used>>
-------------------------------------------------------------------------------
Init ==
    /\ program \in Programs
    /\ database = "open" /\ session_list = <<>> /\ list_mutex = None
    /\ state = [s \in Sessions |-> "none"]
    /\ copies = [s \in Sessions |-> [o \in Objects |-> "none"]]
    /\ current_transaction = [s \in Sessions |-> FALSE]
    /\ write_set = [s \in Sessions |-> {}]
    /\ used = {} /\ pc = [t \in Threads |-> Idle]

\* The steps of the calls, and what calls there are.
Continue(t) ==
    \/ AppendSession(t)
    \/ LockList(t) \/ Notify(t) \/ EndNotify(t)
    \/ Reread(t) \/ EndAbort(t) \/ Release(t) \/ Leave(t)
    \/ CloseNext(t) \/ EndClose(t)

Call(t) ==
    \/ \E s \in Sessions :
          \/ Create(t, s) \/ Begin(t, s) \/ Commit(t, s) \/ Destroy(t, s)
          \/ \E o \in Objects : Read(t, s, o) \/ Change(t, s, o)
    \/ Close(t)

Next == \E t \in Threads : Continue(t) \/ Call(t)

Spec == Init /\ [][Next]_vars

\* A thread within a call goes on; no thread need make one.
FairSpec == Spec /\ \A t \in Threads : WF_vars(Continue(t))
-------------------------------------------------------------------------------
(***************************************************************************)
(* Types of the variables.                                                 *)
(***************************************************************************)
Labels == {"idle", "append", "lock", "notify", "abort", "release", "leave", "close", "stuck"}
Places ==
    [at : Labels, session : Sessions \cup {None}, set : SUBSET Objects, rest : Seq(Sessions)]

TypeOK ==
    /\ program \in Programs /\ database \in {"open", "closing", "closed"}
    /\ session_list \in Seq(Sessions) /\ list_mutex \in Threads \cup {None}
    /\ state \in [Sessions -> {"none", "open", "leaving", "freed"}]
    /\ copies \in [Sessions -> [Objects -> {"none", "same", "old", "changed"}]]
    /\ current_transaction \in [Sessions -> BOOLEAN]
    /\ write_set \in [Sessions -> SUBSET Objects]
    /\ used \subseteq {"content", "session", "freed session"}
    /\ pc \in [Threads -> Places]
    /\ \A s \in Sessions : write_set[s] # {} => current_transaction[s]

(***************************************************************************)
(* The session list is that of the active sessions (database.h:206): until *)
(* the database closes, each session is in it once from the end of its     *)
(* creation to the end of its destruction, however calls overlap.          *)
(***************************************************************************)
Created(s) == ~ \E t \in Threads : Is(t, "append") /\ pc[t].session = s

Active == {s \in Sessions : state[s] \in {"open", "leaving"} /\ Created(s)}
Once(list) == \A i, j \in DOMAIN list : list[i] = list[j] => i = j

ListIsActive ==
    /\ Once(session_list)
    /\ database = "open" => Range(session_list) = Active

(***************************************************************************)
(* A session created, read from and destroyed while another commits misses *)
(* no change: when no call runs, no session has an older copy of an object *)
(* than what is stored.                                                    *)
(***************************************************************************)
FreshWhenQuiet ==
    (\A t \in Threads : Is(t, "idle")) =>
        \A s \in Sessions, o \in Objects : copies[s][o] # "old"

(***************************************************************************)
(* No commit comes upon a session that is freed; and a program that ends   *)
(* its transactions before it closes, and destroys no session while it     *)
(* commits in another, uses nothing that was released: neither the content *)
(* after it is unmapped nor a read set or semaphore of a session.          *)
(***************************************************************************)
NothingReleasedUsed ==
    /\ "freed session" \notin used
    /\ program.careful => used = {}

(***************************************************************************)
(* A database that is closed leaves no session and no transaction behind   *)
(* (database.h:263).                                                       *)
(***************************************************************************)
AllReleased ==
    database = "closed" =>
        \A s \in Sessions : state[s] \in {"none", "freed"} /\ ~current_transaction[s]

(***************************************************************************)
(* Where waits do not block, a thread returns from each call: from the     *)
(* notification of every session listed, the abort of what was changed and *)
(* the close of every session left.  What ends the program instead is to   *)
(* read the content after it is unmapped, in a close that comes upon a     *)
(* transaction with changes; a careful program makes none such.            *)
(***************************************************************************)
CallsReturnOrFault ==
    \A t \in Threads :
        (~program.blocking /\ ~Is(t, "idle")) ~> (Is(t, "idle") \/ "content" \in used)

(***************************************************************************)
(* The inductive invariant behind the list and what is released: a thread  *)
(* in a call has its session to itself, notifies with the list held, and   *)
(* is the only one once the database closes.                               *)
(***************************************************************************)
ThreadInv ==
    /\ \A t \in Threads : pc[t].session = None <=> pc[t].at \in {"idle", "close"}
    /\ \A t, u \in Threads :
          t # u => pc[t].session = None \/ pc[t].session # pc[u].session
    /\ \A t \in Threads : t \notin program.threads => Is(t, "idle")

SessionInv ==
    /\ \A t \in Threads :
          LET s == pc[t].session
          IN  /\ s # None => state[s] = IF Is(t, "leave") THEN "leaving" ELSE "open"
              /\ pc[t].at \in {"release", "leave"} => ~current_transaction[s]
    /\ \A s \in Sessions :
          /\ state[s] = "leaving" => \E t \in Threads : Is(t, "leave") /\ pc[t].session = s
          /\ state[s] \in {"none", "freed"} => ~current_transaction[s]

NotifyInv ==
    \A t \in Threads : Is(t, "notify") =>
        /\ database = "open" /\ list_mutex = t
        /\ Range(pc[t].rest) \subseteq Range(session_list)

\* What is left to destroy when a database closes.
Left(t) ==
    /\ Once(pc[t].rest) /\ pc[t].session \notin Range(pc[t].rest)
    /\ \A s \in Range(pc[t].rest) : state[s] = "open"
    /\ \A s \in Sessions : state[s] \in {"open", "leaving"} =>
          s = pc[t].session \/ s \in Range(pc[t].rest)

CloseInv ==
    /\ \A t \in Threads : Is(t, "close") => database = "closing"
    /\ database # "open" =>
          \A t, u \in Threads : Is(t, "idle") \/ Is(u, "idle") \/ t = u
    /\ database = "closing" =>
          \E t \in Threads :
              pc[t].at \in {"abort", "release", "leave", "close", "stuck"} /\ Left(t)
    /\ database = "closed" =>
          /\ \A t \in Threads : Is(t, "idle")
          /\ \A s \in Sessions : state[s] \in {"none", "freed"}

CarefulInv ==
    program.careful =>
        /\ \A t, u \in Threads :
              ~(pc[t].at \in {"lock", "notify"} /\ pc[u].at \in {"abort", "release", "leave"})
        /\ database # "open" => \A s \in Sessions : ~current_transaction[s]

LifeInv ==
    /\ TypeOK /\ ThreadInv /\ SessionInv /\ ListIsActive /\ NotifyInv /\ CloseInv
    /\ CarefulInv /\ NothingReleasedUsed

(***************************************************************************)
(* And the one behind what copies are: only an open session that is listed *)
(* has any, and one older than what is stored is in the change set of a    *)
(* commit that has its session still to tell, or that waits for itself.    *)
(***************************************************************************)
ToTell(t, s) ==
    \/ pc[t].at \in {"lock", "stuck"}
    \/ Is(t, "notify") /\ s \in Range(pc[t].rest)

CopiesInv ==
    \A s \in Sessions, o \in Objects :
        /\ copies[s][o] # "none" => state[s] = "open" /\ Created(s)
        /\ copies[s][o] = "old" =>
              \E t \in Threads : o \in pc[t].set /\ s # pc[t].session /\ ToTell(t, s)

LInv == LifeInv /\ CopiesInv
===============================================================================
