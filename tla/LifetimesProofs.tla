--------------------------- MODULE LifetimesProofs ----------------------------
(***************************************************************************)
(* The session list is that of the active sessions, no commit comes upon   *)
(* one that is freed, no session keeps a copy that a commit made old, and  *)
(* a closed database leaves none behind, for any threads and sessions.     *)
(***************************************************************************)
EXTENDS Lifetimes, TLAPS

(***************************************************************************)
(* A session that is removed from the list leaves every other in it, once  *)
(* (obl_session_list_remove).                                              *)
(***************************************************************************)
LEMMA WithoutOne ==
  ASSUME session_list \in Seq(Sessions), Once(session_list), NEW s
  PROVE  /\ Without(s) \in Seq(Sessions)
         /\ Once(Without(s))
         /\ Range(Without(s)) = Range(session_list) \ {s}
  <1>1. CASE s \notin Range(session_list)
    BY <1>1 DEF Without
  <1>2. CASE s \in Range(session_list)
    <2> DEFINE n == Len(session_list)
               i == PlaceOf(s)
               w == [j \in 1 .. n - 1 |-> session_list[IF j < i THEN j ELSE j + 1]]
    <2>1. /\ n \in Nat /\ DOMAIN session_list = 1 .. n
          /\ \A j \in 1 .. n : session_list[j] \in Sessions
      OBVIOUS
    <2>2. i \in 1 .. n /\ session_list[i] = s
      <3>1. \E j \in DOMAIN session_list : session_list[j] = s
        BY <1>2 DEF Range
      <3> QED
        BY <2>1, <3>1 DEF PlaceOf
    <2>3. Without(s) = w
      BY <1>2 DEF Without
    <2> HIDE DEF i, n
    <2>4. n - 1 \in Nat /\ \A j \in 1 .. n - 1 : w[j] \in Sessions
      BY <2>1, <2>2, SMT
    <2>5. w \in Seq(Sessions) /\ DOMAIN w = 1 .. n - 1
      <3>1. w \in [1 .. n - 1 -> Sessions]
        BY <2>4
      <3> QED
        BY <2>4, <3>1, SMT
    <2>6. Once(w)
      <3>1. ASSUME NEW j \in 1 .. n - 1, NEW k \in 1 .. n - 1, w[j] = w[k]
            PROVE  j = k
        <4> DEFINE p == IF j < i THEN j ELSE j + 1
                   q == IF k < i THEN k ELSE k + 1
        <4>1. p \in 1 .. n /\ q \in 1 .. n /\ w[j] = session_list[p] /\ w[k] = session_list[q]
          BY <2>1, <2>2, SMT
        <4>2. p = q
          BY <4>1, <3>1, <2>1 DEF Once
        <4> QED
          BY <4>2, <2>1, <2>2, SMT
      <3> QED
        BY <3>1, <2>5 DEF Once
    <2>7. ASSUME NEW x \in Range(w) PROVE x \in Range(session_list) \ {s}
      <3>1. PICK j \in 1 .. n - 1 : x = w[j]
        BY <2>5, <2>7 DEF Range
      <3>2. PICK k \in 1 .. n : x = session_list[k] /\ k # i
        BY <3>1, <2>1, <2>2, SMT
      <3> QED
        BY <3>2, <2>1, <2>2 DEF Range, Once
    <2>8. ASSUME NEW x \in Range(session_list) \ {s} PROVE x \in Range(w)
      <3>1. PICK k \in 1 .. n : x = session_list[k] /\ k # i
        BY <2>1, <2>2, <2>8 DEF Range
      <3>2. CASE k < i
        <4>1. k \in 1 .. n - 1 /\ w[k] = x
          BY <3>1, <3>2, <2>1, <2>2, SMT
        <4> QED
          BY <4>1, <2>5 DEF Range
      <3>3. CASE ~(k < i)
        <4>1. k - 1 \in 1 .. n - 1 /\ w[k - 1] = x
          BY <3>1, <3>3, <2>1, <2>2, SMT
        <4> QED
          BY <4>1, <2>5 DEF Range
      <3> QED
        BY <3>2, <3>3
    <2> QED
      BY <2>3, <2>5, <2>6, <2>7, <2>8
  <1> QED
    BY <1>1, <1>2

(***************************************************************************)
(* The tail of a list and a list with one more in front.                   *)
(***************************************************************************)
LEMMA TailOf ==
  ASSUME NEW list \in Seq(Sessions), list # <<>>
  PROVE  /\ Head(list) \in Range(list) /\ Tail(list) \in Seq(Sessions)
         /\ Range(list) = {Head(list)} \cup Range(Tail(list))
         /\ Once(list) => Once(Tail(list)) /\ Head(list) \notin Range(Tail(list))
  <1>1. /\ Len(list) \in Nat /\ Len(list) >= 1 /\ DOMAIN list = 1 .. Len(list)
        /\ Head(list) = list[1]
        /\ Tail(list) \in Seq(Sessions)
        /\ DOMAIN Tail(list) = 1 .. Len(list) - 1
        /\ \A j \in 1 .. Len(list) - 1 : Tail(list)[j] = list[j + 1]
    BY SMT
  <1>2. \A j \in 1 .. Len(list) : j = 1 \/ (j - 1 \in 1 .. Len(list) - 1 /\ list[j] = Tail(list)[j - 1])
    BY <1>1, SMT
  <1>3. Head(list) \in Range(list)
    BY <1>1, SMT DEF Range
  <1>4. \A j \in 1 .. Len(list) - 1 : j + 1 \in 1 .. Len(list)
    BY <1>1, SMT
  <1>5. Range(list) = {Head(list)} \cup Range(Tail(list))
    <2>1. ASSUME NEW x \in Range(list) PROVE x \in {Head(list)} \cup Range(Tail(list))
      <3>1. PICK j \in 1 .. Len(list) : x = list[j]
        BY <1>1, <2>1 DEF Range
      <3> QED
        BY <3>1, <1>1, <1>2 DEF Range
    <2>2. ASSUME NEW x \in Range(Tail(list)) PROVE x \in Range(list)
      <3>1. PICK j \in 1 .. Len(list) - 1 : x = Tail(list)[j]
        BY <1>1, <2>2 DEF Range
      <3> QED
        BY <3>1, <1>1, <1>4 DEF Range
    <2> QED
      BY <2>1, <2>2, <1>3
  <1>6. ASSUME Once(list) PROVE Once(Tail(list)) /\ Head(list) \notin Range(Tail(list))
    BY <1>1, <1>6, SMT DEF Once, Range
  <1> QED
    BY <1>1, <1>3, <1>5, <1>6

LEMMA InFront ==
  ASSUME NEW list \in Seq(Sessions), NEW s \in Sessions
  PROVE  /\ <<s>> \o list \in Seq(Sessions)
         /\ Range(<<s>> \o list) = {s} \cup Range(list)
         /\ Once(list) /\ s \notin Range(list) => Once(<<s>> \o list)
  <1> DEFINE l == <<s>> \o list
  <1>1. /\ Len(list) \in Nat /\ DOMAIN list = 1 .. Len(list)
        /\ l \in Seq(Sessions) /\ DOMAIN l = 1 .. Len(list) + 1
        /\ l[1] = s /\ \A j \in 1 .. Len(list) : l[j + 1] = list[j]
    BY SMT
  <1> HIDE DEF l
  <1>2. \A j \in 1 .. Len(list) + 1 : j = 1 \/ (j - 1 \in 1 .. Len(list) /\ l[j] = list[j - 1])
    BY <1>1, SMT
  <1>3. 1 \in 1 .. Len(list) + 1 /\ \A j \in 1 .. Len(list) : j + 1 \in 1 .. Len(list) + 1
    BY <1>1, SMT
  <1>4. Range(l) = {s} \cup Range(list)
    <2>1. ASSUME NEW x \in Range(l) PROVE x \in {s} \cup Range(list)
      <3>1. PICK j \in 1 .. Len(list) + 1 : x = l[j]
        BY <1>1, <2>1 DEF Range
      <3> QED
        BY <3>1, <1>1, <1>2 DEF Range
    <2>2. ASSUME NEW x \in Range(list) PROVE x \in Range(l)
      <3>1. PICK j \in 1 .. Len(list) : x = list[j]
        BY <1>1, <2>2 DEF Range
      <3> QED
        BY <3>1, <1>1, <1>3 DEF Range
    <2>3. s \in Range(l)
      BY <1>1, <1>3 DEF Range
    <2> QED
      BY <2>1, <2>2, <2>3
  <1>5. ASSUME Once(list), s \notin Range(list) PROVE Once(l)
    <2>1. \A j \in 1 .. Len(list) : list[j] \in Range(list)
      BY <1>1 DEF Range
    <2>2. ASSUME NEW j \in 1 .. Len(list) + 1, NEW k \in 1 .. Len(list) + 1, l[j] = l[k]
          PROVE  j = k
      <3>1. CASE j = 1 \/ k = 1
        BY <3>1, <2>1, <2>2, <1>1, <1>2, <1>5
      <3>2. CASE j # 1 /\ k # 1
        <4>1. list[j - 1] = list[k - 1]
          BY <3>2, <2>2, <1>2
        <4>2. j - 1 = k - 1
          BY <4>1, <3>2, <1>1, <1>2, <1>5 DEF Once
        <4> QED
          BY <4>2, <1>1, SMT
      <3> QED
        BY <3>1, <3>2
    <2> QED
      BY <2>2, <1>1 DEF Once
  <1> QED
    BY <1>1, <1>4, <1>5 DEF l
-------------------------------------------------------------------------------
(***************************************************************************)
(* A thread that creates, commits or notifies does so while the database   *)
(* is open, and no other notifies while one may use the list.              *)
(***************************************************************************)
LEMMA OpenForCalls ==
  ASSUME TypeOK, CloseInv, NEW t \in Threads, pc[t].at \in {"append", "lock", "notify"}
  PROVE  database = "open"
  <1>1. database \in {"open", "closing", "closed"}
    BY DEF TypeOK
  <1>2. ~Is(t, "idle")
    BY DEF Is
  <1>3. database # "closing"
    BY <1>2 DEF CloseInv, Is
  <1> QED
    BY <1>1, <1>2, <1>3 DEF CloseInv

LEMMA ListIsHeld ==
  ASSUME TypeOK, ThreadInv, NotifyInv, Available,
         NEW t \in Threads, ~Is(t, "idle"), NEW u \in Threads, Is(u, "notify")
  PROVE  u = t
  <1>1. CASE program.blocking
    BY <1>1, LifetimesAssumption DEF Available, NotifyInv
  <1>2. CASE ~program.blocking
    <2>1. t \in program.threads /\ u \in program.threads
      BY DEF ThreadInv, Is
    <2> QED
      BY <1>2, <2>1, LifetimesAssumption DEF TypeOK
  <1> QED
    BY <1>1, <1>2
-------------------------------------------------------------------------------
(***************************************************************************)
(* A thread that goes from one place to another leaves the others where    *)
(* they are.                                                               *)
(***************************************************************************)
LEMMA IdlePlace ==
  Idle \in Places /\ Idle.at = "idle" /\ Idle.session = None /\ Idle.rest = <<>>
  <1>1. /\ <<>> \in Seq(Sessions) /\ "idle" \in Labels
        /\ None \in Sessions \cup {None} /\ {} \in SUBSET Objects
    BY DEF Labels
  <1> QED
    BY <1>1, Zenon DEF Idle, At, Places

LEMMA Moved ==
  ASSUME TypeOK, NEW t \in Threads, NEW p \in Places, pc' = [pc EXCEPT ![t] = p]
  PROVE  /\ pc' \in [Threads -> Places] /\ pc'[t] = p
         /\ \A u \in Threads : u # t => pc'[u] = pc[u]
  BY DEF TypeOK

(***************************************************************************)
(* What such a step leaves of the invariant: a session that a thread comes *)
(* to is its own, and it is in the state the place says.                   *)
(***************************************************************************)
LEMMA ThreadKept ==
  ASSUME TypeOK, ThreadInv, NEW t \in Threads, NEW p \in Places,
         pc' = [pc EXCEPT ![t] = p], program' = program,
         p.session = None <=> p.at \in {"idle", "close"},
         p.at # "idle" => t \in program.threads,
         p.session = pc[t].session \/ p.session = None
            \/ \A u \in Threads : pc[u].session # p.session
  PROVE  ThreadInv'
  <1>1. pc'[t] = p /\ \A u \in Threads : u # t => pc'[u] = pc[u]
    BY Moved
  <1> QED
    BY <1>1 DEF ThreadInv, Is

LEMMA SessionKept ==
  ASSUME TypeOK, SessionInv, NEW t \in Threads, NEW p \in Places,
         pc' = [pc EXCEPT ![t] = p], state' = state, ~Is(t, "leave"), p.at # "leave",
         \A r \in Sessions : current_transaction'[r] => current_transaction[r],
         p.session # None => state[p.session] = "open",
         p.at = "release" => ~current_transaction'[p.session],
         \A u \in Threads : pc[u].at \in {"release", "leave"} => pc[u].session \in Sessions
  PROVE  SessionInv'
  <1>1. pc'[t] = p /\ \A u \in Threads : u # t => pc'[u] = pc[u]
    BY Moved
  <1>2. ASSUME NEW u \in Threads
        PROVE  (LET s == pc[u].session
                IN  /\ s # None => state[s] = IF Is(u, "leave") THEN "leaving" ELSE "open"
                    /\ pc[u].at \in {"release", "leave"} => ~current_transaction[s])'
    <2>1. CASE u = t
      BY <2>1, <1>1 DEF Is
    <2>2. CASE u # t
      BY <2>2, <1>1 DEF SessionInv, Is
    <2> QED
      BY <2>1, <2>2
  <1>3. ASSUME NEW r \in Sessions
        PROVE  (/\ state[r] = "leaving" => \E v \in Threads : Is(v, "leave") /\ pc[v].session = r
                /\ state[r] \in {"none", "freed"} => ~current_transaction[r])'
    BY <1>1 DEF SessionInv, Is
  <1> QED
    BY <1>2, <1>3 DEF SessionInv

LEMMA OwnSession ==
  ASSUME TypeOK, ThreadInv, NEW t \in Threads, pc[t].at \notin {"idle", "close"}
  PROVE  pc[t].session \in Sessions /\ pc[t].session # None
  BY DEF TypeOK, ThreadInv, Places

LEMMA ListKept ==
  ASSUME TypeOK, ListIsActive, NEW t \in Threads, NEW p \in Places,
         pc' = [pc EXCEPT ![t] = p], state' = state, session_list' = session_list,
         database' = "open" => database = "open",
         ~Is(t, "append"), p.at # "append"
  PROVE  ListIsActive'
  <1>1. pc'[t] = p /\ \A u \in Threads : u # t => pc'[u] = pc[u]
    BY Moved
  <1>2. Active' = Active
    BY <1>1 DEF Active, Created, Is
  <1> QED
    BY <1>2 DEF ListIsActive

LEMMA NotifyKept ==
  ASSUME TypeOK, NotifyInv, NEW t \in Threads, NEW p \in Places,
         pc' = [pc EXCEPT ![t] = p], database' = database,
         session_list' = session_list, list_mutex' = list_mutex,
         p.at = "notify" => Is(t, "notify") /\ Range(p.rest) \subseteq Range(pc[t].rest)
  PROVE  NotifyInv'
  <1>1. pc'[t] = p /\ \A u \in Threads : u # t => pc'[u] = pc[u]
    BY Moved
  <1> QED
    BY <1>1 DEF NotifyInv, Is

LEMMA RestSessions ==
  ASSUME TypeOK, NEW t \in Threads
  PROVE  Range(pc[t].rest) \subseteq Sessions /\ None \notin Range(pc[t].rest)
  <1>1. pc[t].rest \in Seq(Sessions)
    BY DEF TypeOK, Places
  <1>2. \A i \in DOMAIN pc[t].rest : pc[t].rest[i] \in Sessions
    BY <1>1
  <1>3. Range(pc[t].rest) \subseteq Sessions
    BY <1>2 DEF Range
  <1> QED
    BY <1>3, LifetimesAssumption

LEMMA Closer ==
  ASSUME TypeOK, CloseInv, NEW t \in Threads, ~Is(t, "idle"), database # "open"
  PROVE  /\ database = "closing" /\ Left(t)
         /\ \A u \in Threads : u # t => Is(u, "idle")
  <1>1. database = "closing"
    BY DEF CloseInv, TypeOK
  <1>2. PICK v \in Threads :
          pc[v].at \in {"abort", "release", "leave", "close", "stuck"} /\ Left(v)
    BY <1>1 DEF CloseInv
  <1>3. \A u \in Threads : u # t => Is(u, "idle")
    BY DEF CloseInv
  <1>4. v = t
    BY <1>2, <1>3 DEF Is
  <1> QED
    BY <1>1, <1>2, <1>3, <1>4

LEMMA CloseKept ==
  ASSUME TypeOK, CloseInv, NEW t \in Threads, NEW p \in Places,
         pc' = [pc EXCEPT ![t] = p], database' = database, state' = state,
         ~Is(t, "idle"), p.at # "close",
         database = "open"
            \/ (/\ p.rest = pc[t].rest /\ p.session = pc[t].session
                /\ p.at \in {"abort", "release", "leave", "stuck"})
  PROVE  CloseInv'
  <1>1. pc'[t] = p /\ \A u \in Threads : u # t => pc'[u] = pc[u]
    BY Moved
  <1>2. CASE database = "open"
    BY <1>1, <1>2 DEF CloseInv, Is
  <1>3. CASE database # "open"
    <2>1. /\ database = "closing" /\ Left(t)
          /\ \A u \in Threads : u # t => Is(u, "idle")
      BY <1>3, Closer
    <2>2. Left(t)'
      BY <2>1, <1>1, <1>3 DEF Left
    <2> QED
      BY <2>1, <2>2, <1>1, <1>3 DEF CloseInv, Is
  <1> QED
    BY <1>2, <1>3

LEMMA CarefulKept ==
  ASSUME TypeOK, CarefulInv, NEW t \in Threads, NEW p \in Places,
         pc' = [pc EXCEPT ![t] = p], program' = program, database' = database,
         p.at \in {"lock", "notify"} => pc[t].at \in {"lock", "notify"},
         p.at \in {"abort", "release", "leave"} => pc[t].at \in {"abort", "release", "leave"},
         \A r \in Sessions : current_transaction'[r] => current_transaction[r]
  PROVE  CarefulInv'
  <1>1. pc'[t] = p /\ \A u \in Threads : u # t => pc'[u] = pc[u]
    BY Moved
  <1>2. \A u \in Threads :
          /\ pc'[u].at \in {"lock", "notify"} => pc[u].at \in {"lock", "notify"}
          /\ pc'[u].at \in {"abort", "release", "leave"} => pc[u].at \in {"abort", "release", "leave"}
    BY <1>1
  <1> QED
    BY <1>2 DEF CarefulInv
-------------------------------------------------------------------------------
(***************************************************************************)
(* obl_create_session, before the session is listed.                       *)
(***************************************************************************)
LEMMA CreateKeeps ==
  ASSUME LifeInv, NEW t \in Threads, NEW s \in Sessions, Create(t, s)
  PROVE  LifeInv'
  <1> USE DEF LifeInv
  <1> DEFINE p == At("append", s, {}, <<>>)
  <1>1. /\ Is(t, "idle") /\ t \in program.threads
        /\ database = "open" /\ state[s] = "none"
        /\ pc' = [pc EXCEPT ![t] = p]
        /\ state' = [state EXCEPT ![s] = "open"]
        /\ UNCHANGED <<program, database, session_list, list_mutex, copies,
                       current_transaction, write_set, used>>
    BY DEF Create
  <1>2. p \in Places /\ p.at = "append" /\ p.session = s
    <2>1. /\ <<>> \in Seq(Sessions) /\ "append" \in Labels
          /\ s \in Sessions \cup {None} /\ {} \in SUBSET Objects
      BY DEF Labels
    <2> QED
      BY <2>1 DEF At, Places
  <1> HIDE DEF p
  <1>3. /\ pc' \in [Threads -> Places]
        /\ pc'[t].at = "append" /\ pc'[t].session = s
        /\ \A u \in Threads : u # t => pc'[u] = pc[u]
    BY <1>1, <1>2, Moved
  <1>4. /\ state' \in [Sessions -> {"none", "open", "leaving", "freed"}]
        /\ state'[s] = "open" /\ \A r \in Sessions : r # s => state'[r] = state[r]
        /\ s # None
    <2>1. s # None
      BY LifetimesAssumption
    <2>2. state \in [Sessions -> {"none", "open", "leaving", "freed"}]
      BY DEF TypeOK
    <2> QED
      BY <1>1, <2>1, <2>2
  <1>5. TypeOK'
    BY <1>1, <1>3, <1>4 DEF TypeOK
  <1>6. \A u \in Threads : pc[u].session # s
    BY <1>1, <1>4 DEF SessionInv
  <1>7. pc[t].session = None
    BY <1>1 DEF ThreadInv, Is
  <1>8. ThreadInv'
    BY <1>1, <1>3, <1>4, <1>6 DEF ThreadInv, Is
  <1>9. SessionInv'
    <2>1. ASSUME NEW u \in Threads
          PROVE  (LET r == pc[u].session
                  IN  /\ r # None => state[r] = IF Is(u, "leave") THEN "leaving" ELSE "open"
                      /\ pc[u].at \in {"release", "leave"} => ~current_transaction[r])'
      <3>1. CASE u = t
        BY <3>1, <1>3, <1>4 DEF Is
      <3>2. CASE u # t
        <4>1. pc[u].session \in Sessions \cup {None}
          BY DEF TypeOK, Places
        <4> QED
          BY <3>2, <4>1, <1>1, <1>3, <1>4, <1>6 DEF SessionInv, Is
      <3> QED
        BY <3>1, <3>2
    <2>2. ASSUME NEW r \in Sessions
          PROVE  (/\ state[r] = "leaving" => \E v \in Threads : Is(v, "leave") /\ pc[v].session = r
                  /\ state[r] \in {"none", "freed"} => ~current_transaction[r])'
      BY <1>1, <1>3, <1>4 DEF SessionInv, Is
    <2> QED
      BY <2>1, <2>2 DEF SessionInv
  <1>10. ListIsActive'
    <2>1. Active' = Active
      BY <1>1, <1>3, <1>4, <1>6, <1>7 DEF Active, Created, Is
    <2> QED
      BY <1>1, <2>1 DEF ListIsActive
  <1>11. NotifyInv'
    BY <1>1, <1>3 DEF NotifyInv, Is
  <1>12. CloseInv' /\ CarefulInv' /\ NothingReleasedUsed'
    BY <1>1, <1>3 DEF CloseInv, CarefulInv, NothingReleasedUsed, Is
  <1> QED
    BY <1>5, <1>8, <1>9, <1>10, <1>11, <1>12

(***************************************************************************)
(* obl_session_list_append: nobody notifies then.                          *)
(***************************************************************************)
LEMMA AppendKeeps ==
  ASSUME LifeInv, NEW t \in Threads, AppendSession(t)
  PROVE  LifeInv'
  <1> USE DEF LifeInv
  <1> DEFINE s == pc[t].session
  <1>1. /\ Is(t, "append") /\ Available
        /\ session_list' = <<s>> \o session_list
        /\ pc' = [pc EXCEPT ![t] = Idle]
        /\ UNCHANGED <<program, database, list_mutex, state, copies,
                       current_transaction, write_set, used>>
    BY DEF AppendSession
  <1>2. /\ s \in Sessions /\ database = "open" /\ state[s] = "open"
        /\ Is(t, "append") /\ ~Is(t, "leave") /\ ~Is(t, "idle")
    BY <1>1, OwnSession, OpenForCalls DEF Is, SessionInv
  <1>3. /\ pc' \in [Threads -> Places] /\ pc'[t] = Idle
        /\ \A u \in Threads : u # t => pc'[u] = pc[u]
    BY <1>1, IdlePlace, Moved
  <1>4. s \notin Range(session_list)
    BY <1>1, <1>2 DEF ListIsActive, Active, Created
  <1>5. /\ session_list' \in Seq(Sessions)
        /\ Range(session_list') = {s} \cup Range(session_list) /\ Once(session_list')
    BY <1>1, <1>2, <1>4, InFront DEF TypeOK, ListIsActive
  <1> HIDE DEF s
  <1>6. TypeOK'
    BY <1>1, <1>3, <1>5 DEF TypeOK
  <1>7. ThreadInv' /\ SessionInv'
    <2>1. ThreadInv'
      BY <1>1, IdlePlace, ThreadKept
    <2>2. \A u \in Threads : pc[u].at \in {"release", "leave"} => pc[u].session \in Sessions
      BY OwnSession
    <2> QED
      BY <2>1, <2>2, <1>1, <1>2, IdlePlace, SessionKept
  <1>8. ListIsActive'
    <2>1. ASSUME NEW r \in Sessions
          PROVE  Created(r)' <=> Created(r) \/ r = s
      <3>1. \A u \in Threads : Is(u, "append")' <=> Is(u, "append") /\ u # t
        BY <1>2, <1>3, IdlePlace DEF Is
      <3>2. \A u \in Threads : Is(u, "append") /\ u # t => pc[u].session # s
        BY <1>2, LifetimesAssumption DEF ThreadInv, s
      <3> QED
        BY <3>1, <3>2, <1>2, <1>3 DEF Created, s
    <2>2. Active' = {s} \cup Active
      BY <2>1, <1>1, <1>2 DEF Active
    <2> QED
      BY <2>2, <1>1, <1>2, <1>5 DEF ListIsActive
  <1>9. NotifyInv'
    <2>1. \A u \in Threads : ~Is(u, "notify")
      BY <1>1, <1>2, ListIsHeld DEF Is
    <2> QED
      BY <2>1, <1>3, IdlePlace DEF NotifyInv, Is
  <1>10. CloseInv' /\ CarefulInv' /\ NothingReleasedUsed'
    BY <1>1, <1>2, IdlePlace, CloseKept, CarefulKept DEF NothingReleasedUsed
  <1> QED
    BY <1>6, <1>7, <1>8, <1>9, <1>10

(***************************************************************************)
(* What a program does with its session in between.                        *)
(***************************************************************************)
LEMMA UseKeeps ==
  ASSUME LifeInv, NEW t \in Threads, NEW s \in Sessions,
         Begin(t, s) \/ \E o \in Objects : Read(t, s, o) \/ Change(t, s, o)
  PROVE  LifeInv'
  <1> USE DEF LifeInv
  <1>1. /\ Calls(t, s)
        /\ UNCHANGED <<program, database, session_list, list_mutex, state, used, pc>>
    BY DEF Read, Begin, Change
  <1>2. /\ database = "open" /\ state[s] = "open"
        /\ \A u \in Threads : pc[u].session # s
    BY <1>1 DEF Calls, Owns
  <1>3. /\ TypeOK'
        /\ \A r \in Sessions : current_transaction'[r] => current_transaction[r] \/ r = s
    <2>1. ASSUME NEW o \in Objects, Read(t, s, o)
          PROVE  /\ TypeOK'
                 /\ \A r \in Sessions :
                       current_transaction'[r] => current_transaction[r] \/ r = s
      BY <2>1 DEF Read, TypeOK
    <2>2. CASE Begin(t, s)
      BY <2>2 DEF Begin, TypeOK
    <2>3. ASSUME NEW o \in Objects, Change(t, s, o)
          PROVE  /\ TypeOK'
                 /\ \A r \in Sessions :
                       current_transaction'[r] => current_transaction[r] \/ r = s
      <3>1. /\ write_set' = [write_set EXCEPT ![s] = @ \cup {o}]
            /\ copies' = [copies EXCEPT ![s][o] = "changed"]
            /\ current_transaction[s]
            /\ UNCHANGED <<program, database, session_list, list_mutex, state,
                           current_transaction, used, pc>>
        BY <2>3 DEF Change
      <3>2. /\ write_set' \in [Sessions -> SUBSET Objects]
            /\ \A r \in Sessions : write_set'[r] # {} => current_transaction[r]
        BY <3>1 DEF TypeOK
      <3>3. copies' \in [Sessions -> [Objects -> {"none", "same", "old", "changed"}]]
        BY <3>1 DEF TypeOK
      <3> QED
        BY <3>1, <3>2, <3>3 DEF TypeOK
    <2> QED
      BY <2>1, <2>2, <2>3
  <1>4. ThreadInv' /\ ListIsActive' /\ NotifyInv' /\ CloseInv' /\ NothingReleasedUsed'
    <2>1. ThreadInv' /\ NotifyInv' /\ NothingReleasedUsed'
      BY <1>1 DEF ThreadInv, NotifyInv, NothingReleasedUsed, Is
    <2>2. Active' = Active
      BY <1>1 DEF Active, Created, Is
    <2>3. ListIsActive' /\ CloseInv'
      <3>1. ListIsActive'
        BY <2>2, <1>1 DEF ListIsActive
      <3>2. CloseInv'
        BY <1>1, <1>2 DEF CloseInv, Is
      <3> QED
        BY <3>1, <3>2
    <2> QED
      BY <2>1, <2>3
  <1>5. SessionInv'
    <2>1. \A u \in Threads : pc[u].at \in {"release", "leave"} => pc[u].session \in Sessions
      BY OwnSession
    <2> QED
      BY <2>1, <1>1, <1>2, <1>3 DEF SessionInv, Is
  <1>6. CarefulInv'
    BY <1>1, <1>2 DEF CarefulInv
  <1> QED
    BY <1>3, <1>4, <1>5, <1>6
-------------------------------------------------------------------------------
(***************************************************************************)
(* A commit, and then the list.                                            *)
(***************************************************************************)
LEMMA CommitKeeps ==
  ASSUME LifeInv, NEW t \in Threads, NEW s \in Sessions, Commit(t, s)
  PROVE  LifeInv'
  <1> USE DEF LifeInv
  <1> DEFINE p == At("lock", s, write_set[s], <<>>)
  <1>1. /\ Calls(t, s)
        /\ program.careful => ~Destroying
        /\ current_transaction' = [current_transaction EXCEPT ![s] = FALSE]
        /\ write_set' = [write_set EXCEPT ![s] = {}]
        /\ copies' = [x \in Sessions |-> [o \in Objects |-> Committed(s, x, o)]]
        /\ pc' = [pc EXCEPT ![t] = p]
        /\ UNCHANGED <<program, database, session_list, list_mutex, state, used>>
    BY DEF Commit
  <1>2. /\ t \in program.threads /\ Is(t, "idle")
        /\ database = "open" /\ state[s] = "open" /\ s # None
        /\ \A u \in Threads : pc[u].session # s
    <2>1. s # None
      BY LifetimesAssumption
    <2> QED
      BY <1>1, <2>1 DEF Calls, Owns
  <1>3. p \in Places /\ p.at = "lock" /\ p.session = s
    <2>1. <<>> \in Seq(Sessions) /\ "lock" \in Labels /\ s \in Sessions \cup {None}
      BY DEF Labels
    <2>2. write_set[s] \in SUBSET Objects
      BY DEF TypeOK
    <2> QED
      BY <2>1, <2>2 DEF At, Places
  <1> HIDE DEF p
  <1>4. /\ pc' \in [Threads -> Places] /\ pc'[t] = p
        /\ \A u \in Threads : u # t => pc'[u] = pc[u]
    BY <1>1, <1>3, Moved
  <1>5. \A r \in Sessions : current_transaction'[r] => current_transaction[r]
    BY <1>1 DEF TypeOK
  <1>6. TypeOK'
    <2>1. copies' \in [Sessions -> [Objects -> {"none", "same", "old", "changed"}]]
      BY <1>1 DEF TypeOK, Committed
    <2> QED
      BY <2>1, <1>1, <1>4 DEF TypeOK
  <1>7. ThreadInv'
    BY <1>1, <1>2, <1>3, ThreadKept
  <1>8. SessionInv'
    <2>1. \A u \in Threads : pc[u].at \in {"release", "leave"} => pc[u].session \in Sessions
      BY OwnSession
    <2> QED
      BY <2>1, <1>1, <1>2, <1>3, <1>5, SessionKept DEF Is
  <1>9. ListIsActive' /\ NotifyInv'
    BY <1>1, <1>2, <1>3, ListKept, NotifyKept DEF Is
  <1>10. CloseInv' /\ NothingReleasedUsed'
    BY <1>1, <1>2, <1>3, <1>4 DEF CloseInv, NothingReleasedUsed, Is
  <1>11. CarefulInv'
    <2>1. program.careful => \A u \in Threads : pc'[u].at \notin {"abort", "release", "leave"}
      <3>1. ASSUME program.careful, NEW u \in Threads
            PROVE  pc'[u].at \notin {"abort", "release", "leave"}
        <4>1. CASE u = t
          BY <4>1, <1>3, <1>4
        <4>2. CASE u # t
          BY <4>2, <3>1, <1>1, <1>4 DEF Destroying
        <4> QED
          BY <4>1, <4>2
      <3> QED
        BY <3>1
    <2> QED
      BY <2>1, <1>1, <1>2 DEF CarefulInv
  <1> QED
    BY <1>6, <1>7, <1>8, <1>9, <1>10, <1>11

LEMMA LockListKeeps ==
  ASSUME LifeInv, NEW t \in Threads, LockList(t)
  PROVE  LifeInv'
  <1> USE DEF LifeInv
  <1> DEFINE p == [pc[t] EXCEPT !.at = "notify", !.rest = session_list]
  <1>1. /\ Is(t, "lock") /\ Available
        /\ list_mutex' = t
        /\ pc' = [pc EXCEPT ![t] = p]
        /\ UNCHANGED <<program, database, session_list, state, copies,
                       current_transaction, write_set, used>>
    BY DEF LockList, TypeOK
  <1>2. /\ p \in Places /\ p.at = "notify" /\ p.session = pc[t].session
        /\ p.rest = session_list
    <2>1. pc[t] \in Places /\ session_list \in Seq(Sessions) /\ "notify" \in Labels
      BY DEF TypeOK, Labels
    <2> QED
      BY <2>1 DEF Places
  <1> HIDE DEF p
  <1>3. /\ pc' \in [Threads -> Places] /\ pc'[t] = p
        /\ \A u \in Threads : u # t => pc'[u] = pc[u]
    BY <1>1, <1>2, Moved
  <1>4. /\ pc[t].session \in Sessions /\ pc[t].session # None /\ t \in program.threads
        /\ database = "open" /\ state[pc[t].session] = "open"
        /\ ~Is(t, "idle") /\ ~Is(t, "leave") /\ ~Is(t, "append")
    BY <1>1, OwnSession, OpenForCalls DEF Is, SessionInv, ThreadInv
  <1>5. TypeOK'
    BY <1>1, <1>3 DEF TypeOK
  <1>6. ThreadInv'
    BY <1>1, <1>2, <1>4, ThreadKept
  <1>7. SessionInv'
    <2>1. \A u \in Threads : pc[u].at \in {"release", "leave"} => pc[u].session \in Sessions
      BY OwnSession
    <2> QED
      BY <2>1, <1>1, <1>2, <1>4, SessionKept
  <1>8. ListIsActive'
    BY <1>1, <1>2, <1>4, ListKept
  <1>9. NotifyInv'
    <2>1. \A u \in Threads : u # t => ~Is(u, "notify")
      BY <1>1, <1>4, ListIsHeld
    <2> QED
      BY <2>1, <1>1, <1>2, <1>3, <1>4 DEF NotifyInv, Is
  <1>10. CloseInv' /\ CarefulInv' /\ NothingReleasedUsed'
    BY <1>1, <1>2, <1>4, CloseKept, CarefulKept DEF NothingReleasedUsed, Is
  <1> QED
    BY <1>5, <1>6, <1>7, <1>8, <1>9, <1>10

(***************************************************************************)
(* The notification of one session: it is in the list, and so not freed.   *)
(***************************************************************************)
LEMMA NotifyKeeps ==
  ASSUME LifeInv, NEW t \in Threads, Notify(t)
  PROVE  LifeInv'
  <1> USE DEF LifeInv
  <1> DEFINE other == Head(pc[t].rest)
             told == other # pc[t].session
             refreshes == told /\ Refreshes(other, pc[t].set)
             stuck == [pc[t] EXCEPT !.at = "stuck"]
             next == [pc[t] EXCEPT !.rest = Tail(@)]
  <1>1. /\ Is(t, "notify") /\ pc[t].rest # <<>>
        /\ used' = used \cup (IF told THEN Released(other) ELSE {})
        /\ \/ pc' = [pc EXCEPT ![t] = stuck] /\ UNCHANGED copies
           \/ /\ pc' = [pc EXCEPT ![t] = next]
              /\ copies' = IF ~refreshes THEN copies
                           ELSE [copies EXCEPT ![other] =
                                    [o \in Objects |-> IF o \in pc[t].set /\ @[o] # "none"
                                                       THEN "same" ELSE @[o]]]
        /\ UNCHANGED <<program, database, session_list, list_mutex, state,
                       current_transaction, write_set>>
    BY DEF Notify, TypeOK
  <1>2. /\ pc[t] \in Places /\ pc[t].rest \in Seq(Sessions)
        /\ other \in Range(pc[t].rest)
        /\ Tail(pc[t].rest) \in Seq(Sessions) /\ Range(Tail(pc[t].rest)) \subseteq Range(pc[t].rest)
    <2>1. pc[t] \in Places /\ pc[t].rest \in Seq(Sessions)
      BY DEF TypeOK, Places
    <2> QED
      BY <2>1, <1>1, TailOf
  <1>3. PICK p \in Places :
          /\ pc' = [pc EXCEPT ![t] = p]
          /\ p.at \in {"stuck", "notify"} /\ p.session = pc[t].session
          /\ p.at = "notify" => Range(p.rest) \subseteq Range(pc[t].rest)
    <2>1. stuck \in Places /\ stuck.at = "stuck" /\ stuck.session = pc[t].session
      BY <1>2 DEF Places, Labels
    <2>2. /\ next \in Places /\ next.at = "notify" /\ next.session = pc[t].session
          /\ next.rest = Tail(pc[t].rest)
      BY <1>1, <1>2 DEF Places, Is
    <2> HIDE DEF stuck, next
    <2> QED
      BY <2>1, <2>2, <1>1, <1>2
  <1>4. /\ pc' \in [Threads -> Places] /\ pc'[t] = p
        /\ \A u \in Threads : u # t => pc'[u] = pc[u]
    BY <1>3, Moved
  <1>5. /\ pc[t].session \in Sessions /\ pc[t].session # None /\ t \in program.threads
        /\ database = "open" /\ state[pc[t].session] = "open"
        /\ ~Is(t, "idle") /\ ~Is(t, "leave") /\ ~Is(t, "append")
    BY <1>1, OwnSession, OpenForCalls DEF Is, SessionInv, ThreadInv
  <1>6. /\ other \in Sessions /\ state[other] \in {"open", "leaving"}
        /\ program.careful => state[other] # "leaving"
    <2>1. other \in Active
      BY <1>1, <1>2, <1>5 DEF NotifyInv, ListIsActive
    <2>2. program.careful => \A v \in Threads : ~Is(v, "leave")
      BY <1>1 DEF CarefulInv, Is
    <2> QED
      BY <2>1, <2>2 DEF Active, SessionInv
  <1> HIDE DEF other
  <1>7. used' \subseteq used \cup {"session"} /\ (program.careful => used' = used)
    BY <1>1, <1>6 DEF Released
  <1>8. TypeOK'
    <2> DEFINE K == {"none", "same", "old", "changed"}
               new == [o \in Objects |-> IF o \in pc[t].set /\ copies[other][o] # "none"
                                         THEN "same" ELSE copies[other][o]]
    <2>1. copies' \in [Sessions -> [Objects -> K]]
      <3>1. copies \in [Sessions -> [Objects -> K]]
        BY DEF TypeOK
      <3>2. new \in [Objects -> K]
        BY <3>1, <1>6
      <3>3. copies' = copies \/ copies' = [copies EXCEPT ![other] = new]
        BY <1>1
      <3> HIDE DEF new, K
      <3> QED
        BY <3>1, <3>2, <3>3
    <2> QED
      BY <2>1, <1>1, <1>4, <1>7 DEF TypeOK
  <1>9. ThreadInv'
    BY <1>1, <1>3, <1>5, ThreadKept
  <1>10. SessionInv'
    <2>1. \A u \in Threads : pc[u].at \in {"release", "leave"} => pc[u].session \in Sessions
      BY OwnSession
    <2> QED
      BY <2>1, <1>1, <1>3, <1>5, SessionKept
  <1>11. ListIsActive' /\ NotifyInv'
    BY <1>1, <1>3, <1>5, ListKept, NotifyKept
  <1>12. CloseInv' /\ CarefulInv'
    BY <1>1, <1>3, <1>5, CloseKept, CarefulKept DEF Is
  <1>13. NothingReleasedUsed'
    BY <1>1, <1>7 DEF NothingReleasedUsed
  <1> QED
    BY <1>8, <1>9, <1>10, <1>11, <1>12, <1>13

LEMMA EndNotifyKeeps ==
  ASSUME LifeInv, NEW t \in Threads, EndNotify(t)
  PROVE  LifeInv'
  <1> USE DEF LifeInv
  <1>1. /\ Is(t, "notify") /\ list_mutex' = None
        /\ pc' = [pc EXCEPT ![t] = Idle]
        /\ UNCHANGED <<program, database, session_list, state, copies,
                       current_transaction, write_set, used>>
    BY DEF EndNotify
  <1>2. /\ pc' \in [Threads -> Places] /\ pc'[t] = Idle
        /\ \A u \in Threads : u # t => pc'[u] = pc[u]
    BY <1>1, IdlePlace, Moved
  <1>3. database = "open" /\ ~Is(t, "idle") /\ ~Is(t, "leave") /\ ~Is(t, "append")
    BY <1>1, OpenForCalls DEF Is
  <1>4. TypeOK'
    BY <1>1, <1>2 DEF TypeOK
  <1>5. ThreadInv'
    BY <1>1, IdlePlace, ThreadKept
  <1>6. SessionInv'
    <2>1. \A u \in Threads : pc[u].at \in {"release", "leave"} => pc[u].session \in Sessions
      BY OwnSession
    <2> QED
      BY <2>1, <1>1, <1>3, IdlePlace, SessionKept
  <1>7. ListIsActive'
    BY <1>1, <1>3, IdlePlace, ListKept
  <1>8. NotifyInv'
    <2>1. \A u \in Threads : u # t => ~Is(u, "notify")
      BY <1>1 DEF NotifyInv
    <2> QED
      BY <2>1, <1>2, IdlePlace DEF NotifyInv, Is
  <1>9. CloseInv' /\ CarefulInv' /\ NothingReleasedUsed'
    BY <1>1, <1>3, IdlePlace, CloseKept, CarefulKept DEF NothingReleasedUsed
  <1> QED
    BY <1>4, <1>5, <1>6, <1>7, <1>8, <1>9
-------------------------------------------------------------------------------
(***************************************************************************)
(* obl_destroy_session, called by the program.                             *)
(***************************************************************************)
LEMMA DestroyedPlace ==
  ASSUME TypeOK, NEW s \in Sessions, NEW rest \in Seq(Sessions)
  PROVE  /\ Destroyed(s, rest) \in Places
         /\ Destroyed(s, rest).at \in {"abort", "release"}
         /\ Destroyed(s, rest).at = "release" => ~current_transaction[s]
         /\ Destroyed(s, rest).session = s /\ Destroyed(s, rest).rest = rest
  <1>1. s \in Sessions \cup {None} /\ "abort" \in Labels /\ "release" \in Labels
    BY DEF Labels
  <1> QED
    BY <1>1 DEF Destroyed, At, Places

LEMMA DestroyKeeps ==
  ASSUME LifeInv, NEW t \in Threads, NEW s \in Sessions, Destroy(t, s)
  PROVE  LifeInv'
  <1> USE DEF LifeInv
  <1> DEFINE p == Destroyed(s, <<>>)
  <1>1. /\ Calls(t, s)
        /\ program.careful => ~Notifying
        /\ pc' = [pc EXCEPT ![t] = p]
        /\ UNCHANGED <<program, database, session_list, list_mutex, state, copies,
                       current_transaction, write_set, used>>
    BY DEF Destroy
  <1>2. /\ t \in program.threads /\ Is(t, "idle")
        /\ database = "open" /\ state[s] = "open" /\ s # None
        /\ \A u \in Threads : pc[u].session # s
    <2>1. s # None
      BY LifetimesAssumption
    <2> QED
      BY <1>1, <2>1 DEF Calls, Owns
  <1>3. /\ p \in Places /\ p.at \in {"abort", "release"} /\ p.session = s
        /\ p.at = "release" => ~current_transaction[s]
    <2>1. <<>> \in Seq(Sessions)
      OBVIOUS
    <2> QED
      BY <2>1, DestroyedPlace
  <1> HIDE DEF p
  <1>4. /\ pc' \in [Threads -> Places] /\ pc'[t] = p
        /\ \A u \in Threads : u # t => pc'[u] = pc[u]
    BY <1>1, <1>3, Moved
  <1>5. TypeOK'
    BY <1>1, <1>4 DEF TypeOK
  <1>6. ThreadInv'
    BY <1>1, <1>2, <1>3, ThreadKept
  <1>7. SessionInv'
    <2>1. \A u \in Threads : pc[u].at \in {"release", "leave"} => pc[u].session \in Sessions
      BY OwnSession
    <2> QED
      BY <2>1, <1>1, <1>2, <1>3, SessionKept DEF Is
  <1>8. ListIsActive' /\ NotifyInv'
    BY <1>1, <1>2, <1>3, ListKept, NotifyKept DEF Is
  <1>9. CloseInv' /\ NothingReleasedUsed'
    BY <1>1, <1>2, <1>3, <1>4 DEF CloseInv, NothingReleasedUsed, Is
  <1>10. CarefulInv'
    <2>1. ASSUME program.careful, NEW u \in Threads
          PROVE  pc'[u].at \notin {"lock", "notify"}
      <3>1. CASE u = t
        BY <3>1, <1>3, <1>4
      <3>2. CASE u # t
        BY <3>2, <2>1, <1>1, <1>4 DEF Notifying
      <3> QED
        BY <3>1, <3>2
    <2> QED
      BY <2>1, <1>1, <1>2 DEF CarefulInv
  <1> QED
    BY <1>5, <1>6, <1>7, <1>8, <1>9, <1>10
-------------------------------------------------------------------------------
(***************************************************************************)
(* The steps of a session's destruction, by the program or by a close.     *)
(***************************************************************************)
LEMMA RereadKeeps ==
  ASSUME LifeInv, NEW t \in Threads, Reread(t)
  PROVE  LifeInv'
  <1> USE DEF LifeInv
  <1> DEFINE s == pc[t].session
             stuck == [pc[t] EXCEPT !.at = "stuck"]
  <1>1. /\ Is(t, "abort") /\ write_set[s] # {}
        /\ used' = used \cup (IF database = "closing" THEN {"content"} ELSE {})
        /\ \/ pc' = [pc EXCEPT ![t] = stuck] /\ UNCHANGED <<copies, write_set>>
           \/ \E o \in write_set[s] :
                 /\ copies' = [copies EXCEPT ![s][o] = "same"]
                 /\ write_set' = [write_set EXCEPT ![s] = @ \ {o}]
                 /\ pc' = pc
        /\ UNCHANGED <<program, database, session_list, list_mutex, state, current_transaction>>
    BY DEF Reread, TypeOK
  <1>2. PICK p \in Places :
          /\ pc' = [pc EXCEPT ![t] = p]
          /\ p.at \in {"stuck", "abort"} /\ p.session = s /\ p.rest = pc[t].rest
    <2>1. pc[t] \in Places /\ pc = [pc EXCEPT ![t] = pc[t]]
      BY DEF TypeOK
    <2>2. /\ stuck \in Places /\ stuck.at = "stuck" /\ stuck.session = s
          /\ stuck.rest = pc[t].rest
      BY <2>1 DEF Places, Labels
    <2> HIDE DEF stuck
    <2> QED
      BY <2>1, <2>2, <1>1 DEF Is
  <1>3. pc' \in [Threads -> Places]
    BY <1>2, Moved
  <1>4. /\ s \in Sessions /\ s # None /\ t \in program.threads /\ state[s] = "open"
        /\ ~Is(t, "idle") /\ ~Is(t, "leave") /\ ~Is(t, "append")
    BY <1>1, OwnSession DEF Is, SessionInv, ThreadInv
  <1>5. current_transaction[s]
    BY <1>1, <1>4 DEF TypeOK
  <1> HIDE DEF s
  <1>6. TypeOK'
    <2>1. /\ copies' \in [Sessions -> [Objects -> {"none", "same", "old", "changed"}]]
          /\ write_set' \in [Sessions -> SUBSET Objects]
          /\ \A r \in Sessions : write_set'[r] # {} => write_set[r] # {}
      <3>1. /\ copies \in [Sessions -> [Objects -> {"none", "same", "old", "changed"}]]
            /\ write_set \in [Sessions -> SUBSET Objects]
        BY DEF TypeOK
      <3>2. CASE UNCHANGED <<copies, write_set>>
        BY <3>1, <3>2
      <3>3. ASSUME NEW o \in write_set[s],
                   copies' = [copies EXCEPT ![s][o] = "same"],
                   write_set' = [write_set EXCEPT ![s] = @ \ {o}]
            PROVE  <2>1!:
        BY <3>1, <3>3, <1>4
      <3> QED
        BY <3>2, <3>3, <1>1
    <2> QED
      BY <2>1, <1>1, <1>3 DEF TypeOK
  <1>7. ThreadInv'
    BY <1>1, <1>2, <1>4, ThreadKept DEF s
  <1>8. SessionInv'
    <2>1. \A u \in Threads : pc[u].at \in {"release", "leave"} => pc[u].session \in Sessions
      BY OwnSession
    <2> QED
      BY <2>1, <1>1, <1>2, <1>4, SessionKept
  <1>9. ListIsActive' /\ NotifyInv'
    BY <1>1, <1>2, <1>4, ListKept, NotifyKept
  <1>10. CloseInv' /\ CarefulInv'
    BY <1>1, <1>2, <1>4, CloseKept, CarefulKept DEF Is, s
  <1>11. NothingReleasedUsed'
    <2>1. program.careful => database = "open"
      BY <1>4, <1>5 DEF CarefulInv
    <2> QED
      BY <2>1, <1>1 DEF NothingReleasedUsed
  <1> QED
    BY <1>6, <1>7, <1>8, <1>9, <1>10, <1>11

LEMMA EndAbortKeeps ==
  ASSUME LifeInv, NEW t \in Threads, EndAbort(t)
  PROVE  LifeInv'
  <1> USE DEF LifeInv
  <1> DEFINE s == pc[t].session
             p == [pc[t] EXCEPT !.at = "release"]
  <1>1. /\ Is(t, "abort") /\ write_set[s] = {}
        /\ current_transaction' = [current_transaction EXCEPT ![s] = FALSE]
        /\ pc' = [pc EXCEPT ![t] = p]
        /\ UNCHANGED <<program, database, session_list, list_mutex, state, copies,
                       write_set, used>>
    BY DEF EndAbort, TypeOK
  <1>2. p \in Places /\ p.at = "release" /\ p.session = s /\ p.rest = pc[t].rest
    <2>1. pc[t] \in Places
      BY DEF TypeOK
    <2> QED
      BY <2>1 DEF Places, Labels
  <1> HIDE DEF p
  <1>3. pc' \in [Threads -> Places]
    BY <1>1, <1>2, Moved
  <1>4. /\ s \in Sessions /\ s # None /\ t \in program.threads /\ state[s] = "open"
        /\ ~Is(t, "idle") /\ ~Is(t, "leave") /\ ~Is(t, "append")
    BY <1>1, OwnSession DEF Is, SessionInv, ThreadInv
  <1>5. /\ current_transaction' \in [Sessions -> BOOLEAN] /\ ~current_transaction'[s]
        /\ \A r \in Sessions : r # s => current_transaction'[r] = current_transaction[r]
    BY <1>1, <1>4 DEF TypeOK
  <1> HIDE DEF s
  <1>6. \A r \in Sessions : current_transaction'[r] => current_transaction[r]
    BY <1>5
  <1>7. TypeOK'
    BY <1>1, <1>3, <1>5 DEF TypeOK
  <1>8. ThreadInv'
    BY <1>1, <1>2, <1>4, ThreadKept DEF s
  <1>9. SessionInv'
    <2>1. \A u \in Threads : pc[u].at \in {"release", "leave"} => pc[u].session \in Sessions
      BY OwnSession
    <2> QED
      BY <2>1, <1>1, <1>2, <1>4, <1>5, <1>6, SessionKept
  <1>10. ListIsActive' /\ NotifyInv'
    BY <1>1, <1>2, <1>4, ListKept, NotifyKept
  <1>11. CloseInv' /\ CarefulInv' /\ NothingReleasedUsed'
    BY <1>1, <1>2, <1>4, <1>6, CloseKept, CarefulKept DEF Is, s, NothingReleasedUsed
  <1> QED
    BY <1>7, <1>8, <1>9, <1>10, <1>11

LEMMA ReleaseKeeps ==
  ASSUME LifeInv, NEW t \in Threads, Release(t)
  PROVE  LifeInv'
  <1> USE DEF LifeInv
  <1> DEFINE s == pc[t].session
             p == [pc[t] EXCEPT !.at = "leave"]
  <1>1. /\ Is(t, "release")
        /\ state' = [state EXCEPT ![s] = "leaving"]
        /\ copies' = [copies EXCEPT ![s] = [o \in Objects |-> "none"]]
        /\ pc' = [pc EXCEPT ![t] = p]
        /\ UNCHANGED <<program, database, session_list, list_mutex,
                       current_transaction, write_set, used>>
    BY DEF Release, TypeOK
  <1>2. p \in Places /\ p.at = "leave" /\ p.session = s /\ p.rest = pc[t].rest
    <2>1. pc[t] \in Places
      BY DEF TypeOK
    <2> QED
      BY <2>1 DEF Places, Labels
  <1> HIDE DEF p
  <1>3. /\ pc' \in [Threads -> Places] /\ pc'[t] = p
        /\ \A u \in Threads : u # t => pc'[u] = pc[u]
    BY <1>1, <1>2, Moved
  <1>4. /\ s \in Sessions /\ s # None /\ t \in program.threads /\ state[s] = "open"
        /\ ~current_transaction[s]
        /\ ~Is(t, "idle") /\ ~Is(t, "leave") /\ ~Is(t, "append")
    BY <1>1, OwnSession DEF Is, SessionInv, ThreadInv
  <1>5. \A u \in Threads : u # t => pc[u].session # s
    BY <1>4 DEF ThreadInv
  <1>6. /\ state' \in [Sessions -> {"none", "open", "leaving", "freed"}]
        /\ state'[s] = "leaving" /\ \A r \in Sessions : r # s => state'[r] = state[r]
    BY <1>1, <1>4 DEF TypeOK
  <1>7. TypeOK'
    <2>1. copies' \in [Sessions -> [Objects -> {"none", "same", "old", "changed"}]]
      <3>1. copies \in [Sessions -> [Objects -> {"none", "same", "old", "changed"}]]
        BY DEF TypeOK
      <3> QED
        BY <3>1, <1>1, <1>4
    <2> QED
      BY <2>1, <1>1, <1>3, <1>6 DEF TypeOK
  <1>8. ThreadInv'
    BY <1>1, <1>2, <1>4, ThreadKept
  <1> HIDE DEF s
  <1>9. SessionInv'
    <2>1. ASSUME NEW u \in Threads
          PROVE  (LET r == pc[u].session
                  IN  /\ r # None => state[r] = IF Is(u, "leave") THEN "leaving" ELSE "open"
                      /\ pc[u].at \in {"release", "leave"} => ~current_transaction[r])'
      <3>1. CASE u = t
        BY <3>1, <1>1, <1>2, <1>3, <1>4, <1>6 DEF Is
      <3>2. CASE u # t
        <4>1. pc[u].session \in Sessions \cup {None}
          BY DEF TypeOK, Places
        <4> QED
          BY <3>2, <4>1, <1>1, <1>3, <1>5, <1>6 DEF SessionInv, Is
      <3> QED
        BY <3>1, <3>2
    <2>2. ASSUME NEW r \in Sessions
          PROVE  (/\ state[r] = "leaving" => \E v \in Threads : Is(v, "leave") /\ pc[v].session = r
                  /\ state[r] \in {"none", "freed"} => ~current_transaction[r])'
      <3>1. CASE r = s
        BY <3>1, <1>2, <1>3, <1>6 DEF Is
      <3>2. CASE r # s
        BY <3>2, <1>1, <1>2, <1>3, <1>4, <1>6 DEF SessionInv, Is
      <3> QED
        BY <3>1, <3>2
    <2> QED
      BY <2>1, <2>2 DEF SessionInv
  <1>10. ListIsActive'
    <2>1. Active' = Active
      BY <1>2, <1>3, <1>4, <1>6 DEF Active, Created, Is
    <2> QED
      BY <2>1, <1>1 DEF ListIsActive
  <1>11. NotifyInv'
    BY <1>1, <1>2, NotifyKept
  <1>12. CloseInv'
    <2>1. CASE database = "open"
      BY <2>1, <1>1, <1>2, <1>3 DEF CloseInv, Is
    <2>2. CASE database # "open"
      <3>1. /\ database = "closing" /\ Left(t)
            /\ \A u \in Threads : u # t => Is(u, "idle")
        BY <2>2, <1>4, Closer
      <3>2. Left(t)'
        <4> DEFINE rest == pc[t].rest
        <4>1. rest' = rest /\ pc'[t].session = s /\ pc[t].session = s
          BY <1>2, <1>3 DEF s
        <4>2. Range(rest) \subseteq Sessions
          BY RestSessions
        <4>3. /\ Once(rest) /\ s \notin Range(rest)
              /\ \A r \in Range(rest) : state[r] = "open"
              /\ \A r \in Sessions : state[r] \in {"open", "leaving"} => r = s \/ r \in Range(rest)
          BY <3>1, <4>1 DEF Left
        <4>4. /\ \A r \in Range(rest) : state'[r] = "open"
              /\ \A r \in Sessions : state'[r] \in {"open", "leaving"} => r = s \/ r \in Range(rest)
          BY <4>2, <4>3, <1>6
        <4> HIDE DEF rest
        <4>5. Once(rest)' /\ Range(rest)' = Range(rest)
          BY <4>1, <4>3 DEF Once, Range
        <4> QED
          BY <4>1, <4>3, <4>4, <4>5 DEF Left, rest
      <3> QED
        BY <3>1, <3>2, <1>1, <1>2, <1>3 DEF CloseInv, Is
    <2> QED
      BY <2>1, <2>2
  <1>13. CarefulInv' /\ NothingReleasedUsed'
    BY <1>1, <1>2, CarefulKept DEF Is, NothingReleasedUsed
  <1> QED
    BY <1>7, <1>8, <1>9, <1>10, <1>11, <1>12, <1>13

LEMMA LeaveKeeps ==
  ASSUME LifeInv, NEW t \in Threads, Leave(t)
  PROVE  LifeInv'
  <1> USE DEF LifeInv
  <1> DEFINE s == pc[t].session
             p == IF database = "closing" THEN At("close", None, {}, pc[t].rest) ELSE Idle
  <1>1. /\ Is(t, "leave") /\ Available
        /\ session_list' = Without(s)
        /\ state' = [state EXCEPT ![s] = "freed"]
        /\ pc' = [pc EXCEPT ![t] = p]
        /\ UNCHANGED <<program, database, list_mutex, copies, current_transaction,
                       write_set, used>>
    BY DEF Leave
  <1>2. /\ p \in Places /\ p.session = None
        /\ p.at = IF database = "closing" THEN "close" ELSE "idle"
        /\ database = "closing" => p.rest = pc[t].rest
    <2>1. /\ pc[t].rest \in Seq(Sessions) /\ None \in Sessions \cup {None}
          /\ "close" \in Labels /\ {} \in SUBSET Objects
      BY DEF TypeOK, Places, Labels
    <2>2. CASE database = "closing"
      BY <2>1, <2>2 DEF At, Places
    <2>3. CASE database # "closing"
      BY <2>3, IdlePlace
    <2> QED
      BY <2>2, <2>3
  <1> HIDE DEF p
  <1>3. /\ pc' \in [Threads -> Places] /\ pc'[t] = p
        /\ \A u \in Threads : u # t => pc'[u] = pc[u]
    BY <1>1, <1>2, Moved
  <1>4. /\ s \in Sessions /\ s # None /\ t \in program.threads /\ state[s] = "leaving"
        /\ ~current_transaction[s] /\ ~Is(t, "idle") /\ ~Is(t, "append")
    BY <1>1, OwnSession DEF Is, SessionInv, ThreadInv
  <1>5. \A u \in Threads : u # t => pc[u].session # s
    BY <1>4 DEF ThreadInv
  <1>6. /\ state' \in [Sessions -> {"none", "open", "leaving", "freed"}]
        /\ state'[s] = "freed" /\ \A r \in Sessions : r # s => state'[r] = state[r]
    BY <1>1, <1>4 DEF TypeOK
  <1>7. /\ session_list' \in Seq(Sessions) /\ Once(session_list')
        /\ Range(session_list') = Range(session_list) \ {s}
    BY <1>1, WithoutOne DEF TypeOK, ListIsActive
  <1>8. TypeOK'
    BY <1>1, <1>3, <1>6, <1>7 DEF TypeOK
  <1>9. ThreadInv'
    BY <1>1, <1>2, <1>4, ThreadKept
  <1> HIDE DEF s
  <1>10. SessionInv'
    <2>1. ASSUME NEW u \in Threads
          PROVE  (LET r == pc[u].session
                  IN  /\ r # None => state[r] = IF Is(u, "leave") THEN "leaving" ELSE "open"
                      /\ pc[u].at \in {"release", "leave"} => ~current_transaction[r])'
      <3>1. CASE u = t
        BY <3>1, <1>2, <1>3
      <3>2. CASE u # t
        <4>1. pc[u].session \in Sessions \cup {None}
          BY DEF TypeOK, Places
        <4> QED
          BY <3>2, <4>1, <1>1, <1>3, <1>5, <1>6 DEF SessionInv, Is
      <3> QED
        BY <3>1, <3>2
    <2>2. ASSUME NEW r \in Sessions
          PROVE  (/\ state[r] = "leaving" => \E v \in Threads : Is(v, "leave") /\ pc[v].session = r
                  /\ state[r] \in {"none", "freed"} => ~current_transaction[r])'
      <3>1. CASE r = s
        BY <3>1, <1>1, <1>4, <1>6
      <3>2. CASE r # s
        BY <3>2, <1>1, <1>3, <1>6 DEF SessionInv, Is, s
      <3> QED
        BY <3>1, <3>2
    <2> QED
      BY <2>1, <2>2 DEF SessionInv
  <1>11. ListIsActive'
    <2>1. Active' = Active \ {s}
      BY <1>2, <1>3, <1>4, <1>6 DEF Active, Created, Is
    <2> QED
      BY <2>1, <1>1, <1>7 DEF ListIsActive
  <1>12. NotifyInv'
    <2>1. \A u \in Threads : ~Is(u, "notify")
      BY <1>1, <1>4, ListIsHeld DEF Is
    <2> QED
      BY <2>1, <1>2, <1>3 DEF NotifyInv, Is
  <1>13. CloseInv'
    <2>1. CASE database = "open"
      BY <2>1, <1>1, <1>2, <1>3 DEF CloseInv, Is
    <2>2. CASE database # "open"
      <3>1. /\ database = "closing" /\ Left(t)
            /\ \A u \in Threads : u # t => Is(u, "idle")
        BY <2>2, <1>4, Closer
      <3>2. None \notin Range(pc[t].rest)
        BY RestSessions
      <3>3. Left(t)'
        <4> DEFINE rest == pc[t].rest
        <4>1. rest' = rest /\ pc'[t].session = None /\ pc[t].session = s
          BY <1>2, <1>3, <3>1 DEF s
        <4>2. Range(rest) \subseteq Sessions
          BY RestSessions
        <4>3. /\ Once(rest) /\ s \notin Range(rest)
              /\ \A r \in Range(rest) : state[r] = "open"
              /\ \A r \in Sessions : state[r] \in {"open", "leaving"} => r = s \/ r \in Range(rest)
          BY <3>1, <4>1 DEF Left
        <4>4. /\ \A r \in Range(rest) : state'[r] = "open"
              /\ \A r \in Sessions : state'[r] \in {"open", "leaving"} => r \in Range(rest)
          BY <4>2, <4>3, <1>6
        <4> HIDE DEF rest
        <4>5. Once(rest)' /\ Range(rest)' = Range(rest) /\ None \notin Range(rest)
          BY <4>1, <4>3, <3>2 DEF Once, Range, rest
        <4> QED
          BY <4>1, <4>3, <4>4, <4>5 DEF Left, rest
      <3> QED
        BY <3>1, <3>3, <1>1, <1>2, <1>3 DEF CloseInv, Is
    <2> QED
      BY <2>1, <2>2
  <1>14. CarefulInv' /\ NothingReleasedUsed'
    BY <1>1, <1>2, CarefulKept DEF NothingReleasedUsed
  <1> QED
    BY <1>8, <1>9, <1>10, <1>11, <1>12, <1>13, <1>14
-------------------------------------------------------------------------------
(***************************************************************************)
(* obl_close_database: each session that was listed, one after the other.  *)
(***************************************************************************)
LEMMA CloseKeeps ==
  ASSUME LifeInv, NEW t \in Threads, Close(t)
  PROVE  LifeInv'
  <1> USE DEF LifeInv
  <1> DEFINE p == At("close", None, {}, session_list)
  <1>1. /\ t \in program.threads /\ database = "open"
        /\ \A u \in Threads : Is(u, "idle")
        /\ program.careful => \A s \in Sessions : ~current_transaction[s]
        /\ database' = "closing"
        /\ pc' = [pc EXCEPT ![t] = p]
        /\ session_list' = <<>>
        /\ UNCHANGED <<program, list_mutex, state, copies, current_transaction, write_set, used>>
    BY DEF Close
  <1>2. /\ p \in Places /\ p.session = None /\ p.at = "close" /\ p.rest = session_list
    <2>1. /\ session_list \in Seq(Sessions) /\ None \in Sessions \cup {None}
          /\ "close" \in Labels /\ {} \in SUBSET Objects
      BY DEF TypeOK, Labels
    <2> QED
      BY <2>1 DEF At, Places
  <1> HIDE DEF p
  <1>3. /\ pc' \in [Threads -> Places] /\ pc'[t] = p
        /\ \A u \in Threads : u # t => pc'[u] = pc[u]
    BY <1>1, <1>2, Moved
  <1>4. TypeOK'
    <2>1. <<>> \in Seq(Sessions)
      OBVIOUS
    <2> QED
      BY <2>1, <1>1, <1>3 DEF TypeOK
  <1>5. ThreadInv'
    BY <1>1, <1>2, ThreadKept
  <1>6. SessionInv'
    <2>1. \A u \in Threads : pc[u].at \in {"release", "leave"} => pc[u].session \in Sessions
      BY OwnSession
    <2> QED
      BY <2>1, <1>1, <1>2, SessionKept DEF Is
  <1>7. ListIsActive' /\ NotifyInv'
    <2>1. Once(<<>>)
      BY DEF Once
    <2>2. \A u \in Threads : pc'[u].at \in {"idle", "close"}
      BY <1>1, <1>2, <1>3 DEF Is
    <2> QED
      BY <2>1, <2>2, <1>1 DEF ListIsActive, NotifyInv, Is
  <1>8. CloseInv'
    <2> DEFINE list == session_list
    <2>1. \A u \in Threads : ~Is(u, "append") /\ ~Is(u, "leave")
      BY <1>1 DEF Is
    <2>2. /\ Once(list) /\ Range(list) = Active /\ None \notin Range(list)
          /\ \A s \in Sessions : state[s] # "leaving" /\ Created(s)
      <3>1. \A s \in Sessions : state[s] # "leaving" /\ Created(s)
        BY <2>1 DEF SessionInv, Created
      <3> QED
        BY <3>1, <1>1, LifetimesAssumption DEF ListIsActive, Active
    <2>3. /\ \A s \in Range(list) : state[s] = "open"
          /\ \A s \in Sessions : state[s] \in {"open", "leaving"} => s \in Range(list)
      BY <2>2 DEF Active
    <2> HIDE DEF list
    <2>4. (pc[t].rest)' = list /\ pc'[t].session = None /\ pc'[t].at = "close"
      BY <1>2, <1>3 DEF list
    <2>5. Left(t)'
      BY <2>2, <2>3, <2>4, <1>1 DEF Left, Once, Range
    <2> QED
      BY <2>4, <2>5, <1>1, <1>3 DEF CloseInv, Is
  <1>9. CarefulInv' /\ NothingReleasedUsed'
    <2>1. \A u \in Threads : pc'[u].at \in {"idle", "close"}
      BY <1>1, <1>2, <1>3 DEF Is
    <2> QED
      BY <2>1, <1>1 DEF CarefulInv, NothingReleasedUsed
  <1> QED
    BY <1>4, <1>5, <1>6, <1>7, <1>8, <1>9

LEMMA CloseNextKeeps ==
  ASSUME LifeInv, NEW t \in Threads, CloseNext(t)
  PROVE  LifeInv'
  <1> USE DEF LifeInv
  <1>1. PICK rest, s, tail, p :
          /\ rest = pc[t].rest /\ s = Head(rest) /\ tail = Tail(rest)
          /\ p = Destroyed(s, tail)
    OBVIOUS
  <1>2. /\ Is(t, "close") /\ rest # <<>>
        /\ pc' = [pc EXCEPT ![t] = p]
        /\ UNCHANGED <<program, database, session_list, list_mutex, state, copies,
                       current_transaction, write_set, used>>
    BY <1>1 DEF CloseNext
  <1>3. rest \in Seq(Sessions) /\ Range(rest) \subseteq Sessions /\ None \notin Range(rest)
    BY <1>1, RestSessions DEF TypeOK, Places
  <1>4. /\ s \in Range(rest) /\ tail \in Seq(Sessions)
        /\ Range(rest) = {s} \cup Range(tail)
        /\ Once(rest) => Once(tail) /\ s \notin Range(tail)
    BY <1>1, <1>2, <1>3, TailOf
  <1>5. /\ p \in Places /\ p.at \in {"abort", "release"} /\ p.session = s
        /\ p.at = "release" => ~current_transaction[s]
        /\ p.rest = tail
    <2>1. s \in Sessions
      BY <1>3, <1>4
    <2> QED
      BY <2>1, <1>1, <1>4, DestroyedPlace
  <1>6. /\ database = "closing" /\ Left(t) /\ t \in program.threads
        /\ \A u \in Threads : u # t => Is(u, "idle")
        /\ pc[t].session = None /\ ~Is(t, "idle")
    <2>1. ~Is(t, "idle") /\ database # "open" /\ pc[t].session = None /\ t \in program.threads
      BY <1>2 DEF Is, CloseInv, ThreadInv
    <2> QED
      BY <2>1, Closer
  <1>7. /\ pc' \in [Threads -> Places] /\ pc'[t] = p
        /\ \A u \in Threads : u # t => pc'[u] = pc[u]
    BY <1>2, <1>5, Moved
  <1>8. /\ Once(tail) /\ s \notin Range(tail) /\ s \in Sessions /\ s # None
        /\ state[s] = "open" /\ \A r \in Range(tail) : state[r] = "open"
        /\ \A r \in Sessions : state[r] \in {"open", "leaving"} => r = s \/ r \in Range(tail)
    <2>1. /\ Once(rest) /\ \A r \in Range(rest) : state[r] = "open"
          /\ \A r \in Sessions : state[r] \in {"open", "leaving"} => r \in Range(rest)
      <3>1. \A r \in Sessions : r # None
        BY LifetimesAssumption
      <3> QED
        BY <3>1, <1>1, <1>6 DEF Left
    <2> QED
      BY <2>1, <1>3, <1>4
  <1>9. TypeOK'
    BY <1>2, <1>7 DEF TypeOK
  <1>10. ThreadInv'
    <2>1. \A u \in Threads : pc[u].session # s
      BY <1>6, <1>8 DEF ThreadInv, Is
    <2> QED
      BY <2>1, <1>2, <1>5, <1>6, <1>8, ThreadKept
  <1>11. SessionInv'
    <2>1. \A u \in Threads : pc[u].at \in {"release", "leave"} => pc[u].session \in Sessions
      BY OwnSession
    <2> QED
      BY <2>1, <1>2, <1>5, <1>8, SessionKept DEF Is
  <1>12. ListIsActive' /\ NotifyInv'
    BY <1>2, <1>5, ListKept, NotifyKept DEF Is
  <1>13. CloseInv'
    <2>1. (pc[t].rest)' = tail /\ pc'[t].session = s
      BY <1>5, <1>7
    <2>2. Left(t)'
      BY <2>1, <1>2, <1>8 DEF Left, Once, Range
    <2> QED
      BY <2>2, <1>2, <1>5, <1>6, <1>7 DEF CloseInv, Is
  <1>14. CarefulInv' /\ NothingReleasedUsed'
    <2>1. \A u \in Threads : pc'[u].at \notin {"lock", "notify"}
      BY <1>5, <1>6, <1>7 DEF Is
    <2> QED
      BY <2>1, <1>2 DEF CarefulInv, NothingReleasedUsed
  <1> QED
    BY <1>9, <1>10, <1>11, <1>12, <1>13, <1>14

LEMMA EndCloseKeeps ==
  ASSUME LifeInv, NEW t \in Threads, EndClose(t)
  PROVE  LifeInv'
  <1> USE DEF LifeInv
  <1>1. /\ Is(t, "close") /\ pc[t].rest = <<>>
        /\ database' = "closed"
        /\ pc' = [pc EXCEPT ![t] = Idle]
        /\ UNCHANGED <<program, session_list, list_mutex, state, copies,
                       current_transaction, write_set, used>>
    BY DEF EndClose
  <1>2. /\ database = "closing" /\ Left(t) /\ pc[t].session = None
        /\ \A u \in Threads : u # t => Is(u, "idle")
    <2>1. ~Is(t, "idle") /\ database # "open" /\ pc[t].session = None
      BY <1>1 DEF Is, CloseInv, ThreadInv
    <2> QED
      BY <2>1, Closer
  <1>3. /\ pc' \in [Threads -> Places] /\ pc'[t] = Idle
        /\ \A u \in Threads : u # t => pc'[u] = pc[u]
    BY <1>1, IdlePlace, Moved
  <1>4. \A u \in Threads : pc'[u].at = "idle"
    BY <1>2, <1>3, IdlePlace DEF Is
  <1>5. \A s \in Sessions : state[s] \in {"none", "freed"}
    <2>1. \A s \in Sessions : s # None /\ s \notin Range(<<>>)
      BY LifetimesAssumption DEF Range
    <2>2. \A s \in Sessions : state[s] \notin {"open", "leaving"}
      BY <2>1, <1>1, <1>2 DEF Left
    <2> QED
      BY <2>2 DEF TypeOK
  <1>6. TypeOK'
    BY <1>1, <1>3 DEF TypeOK
  <1>7. ThreadInv'
    BY <1>1, IdlePlace, ThreadKept
  <1>8. SessionInv'
    <2>1. \A u \in Threads : pc[u].at \in {"release", "leave"} => pc[u].session \in Sessions
      BY OwnSession
    <2> QED
      BY <2>1, <1>1, IdlePlace, SessionKept DEF Is
  <1>9. ListIsActive'
    BY <1>1, IdlePlace, ListKept DEF Is
  <1>10. NotifyInv' /\ CloseInv' /\ CarefulInv' /\ NothingReleasedUsed'
    BY <1>1, <1>2, <1>4, <1>5 DEF NotifyInv, CloseInv, CarefulInv, NothingReleasedUsed, Is
  <1> QED
    BY <1>6, <1>7, <1>8, <1>9, <1>10
-------------------------------------------------------------------------------
(***************************************************************************)
(* The invariant of the life of sessions, for any threads, sessions,       *)
(* objects and programs.                                                   *)
(***************************************************************************)
LEMMA InitHolds == Init => LifeInv
  <1> SUFFICES ASSUME Init PROVE LifeInv
    OBVIOUS
  <1>1. /\ program \in Programs /\ database = "open" /\ session_list = <<>>
        /\ list_mutex = None /\ used = {}
        /\ \A s \in Sessions : state[s] = "none" /\ ~current_transaction[s] /\ write_set[s] = {}
        /\ \A t \in Threads : pc[t] = Idle
    BY DEF Init
  <1>2. TypeOK
    <2>1. session_list \in Seq(Sessions) /\ pc \in [Threads -> Places]
      BY IdlePlace DEF Init
    <2> QED
      BY <2>1, <1>1 DEF Init, TypeOK
  <1>3. \A t \in Threads : pc[t].at = "idle" /\ pc[t].session = None
    BY <1>1, IdlePlace
  <1>4. Once(session_list) /\ Range(session_list) = {} /\ Active = {}
    BY <1>1 DEF Once, Range, Active
  <1>5. ThreadInv /\ SessionInv /\ ListIsActive
    BY <1>1, <1>3, <1>4 DEF ThreadInv, SessionInv, ListIsActive, Is
  <1>6. NotifyInv /\ CloseInv /\ CarefulInv /\ NothingReleasedUsed
    BY <1>1, <1>3 DEF NotifyInv, CloseInv, CarefulInv, NothingReleasedUsed, Is
  <1> QED
    BY <1>2, <1>5, <1>6 DEF LifeInv

LEMMA NextKeeps == LifeInv /\ [Next]_vars => LifeInv'
  <1> SUFFICES ASSUME LifeInv, [Next]_vars PROVE LifeInv'
    OBVIOUS
  <1>1. ASSUME NEW t \in Threads, Continue(t) PROVE LifeInv'
    BY <1>1, AppendKeeps, LockListKeeps, NotifyKeeps, EndNotifyKeeps, RereadKeeps,
       EndAbortKeeps, ReleaseKeeps, LeaveKeeps, CloseNextKeeps, EndCloseKeeps DEF Continue
  <1>2. ASSUME NEW t \in Threads, Call(t) PROVE LifeInv'
    <2>1. CASE Close(t)
      BY <2>1, CloseKeeps
    <2>2. ASSUME NEW s \in Sessions,
                 Create(t, s) \/ Begin(t, s) \/ Commit(t, s) \/ Destroy(t, s)
          PROVE  LifeInv'
      BY <2>2, CreateKeeps, UseKeeps, CommitKeeps, DestroyKeeps
    <2>3. ASSUME NEW s \in Sessions, NEW o \in Objects, Read(t, s, o) \/ Change(t, s, o)
          PROVE  LifeInv'
      BY <2>3, UseKeeps
    <2> QED
      BY <1>2, <2>1, <2>2, <2>3 DEF Call
  <1>3. CASE UNCHANGED vars
    <2>0. TypeOK'
      BY <1>3 DEF LifeInv, vars, TypeOK
    <2>1. ThreadInv' /\ SessionInv' /\ NothingReleasedUsed'
      <3>1. ThreadInv'
        BY <1>3 DEF LifeInv, vars, ThreadInv, Is
      <3>2. SessionInv'
        BY <1>3 DEF LifeInv, vars, SessionInv, Is
      <3>3. NothingReleasedUsed'
        BY <1>3 DEF LifeInv, vars, NothingReleasedUsed
      <3> QED
        BY <3>1, <3>2, <3>3
    <2>2. ListIsActive' /\ NotifyInv' /\ CarefulInv'
      BY <1>3 DEF LifeInv, vars, ListIsActive, Active, Created, Once, NotifyInv, CarefulInv, Is
    <2>3. CloseInv'
      BY <1>3 DEF LifeInv, vars, CloseInv, Left, Once, Is
    <2> QED
      BY <2>0, <2>1, <2>2, <2>3 DEF LifeInv
  <1> QED
    BY <1>1, <1>2, <1>3 DEF Next

-------------------------------------------------------------------------------
(***************************************************************************)
(* What sessions have of the objects.  A thread that is not telling others *)
(* of a commit makes no copy old, and copies none for a session that is    *)
(* not listed.                                                             *)
(***************************************************************************)
LEMMA CopiesKept ==
  ASSUME CopiesInv, NEW t \in Threads, pc[t].at \notin {"lock", "notify", "stuck"},
         \A u \in Threads : u # t => pc'[u] = pc[u],
         pc'[t].at = "append" => state[pc'[t].session] = "none",
         \A s \in Sessions, o \in Objects :
            /\ copies'[s][o] # "none" =>
                  /\ state'[s] = "open"
                  /\ copies[s][o] # "none" \/ (state[s] = "open" /\ Created(s))
            /\ copies'[s][o] = "old" => copies[s][o] = "old"
  PROVE  CopiesInv'
  <1> SUFFICES ASSUME NEW s \in Sessions, NEW o \in Objects, copies'[s][o] # "none"
               PROVE  /\ state'[s] = "open" /\ Created(s)'
                      /\ copies'[s][o] = "old" =>
                            \E u \in Threads :
                               o \in pc'[u].set /\ s # pc'[u].session /\ ToTell(u, s)'
    BY DEF CopiesInv
  <1>1. state'[s] = "open" /\ state[s] = "open" /\ Created(s)
    BY DEF CopiesInv
  <1>2. Created(s)'
    BY <1>1 DEF Created, Is
  <1>3. ASSUME copies'[s][o] = "old"
        PROVE  \E u \in Threads : o \in pc'[u].set /\ s # pc'[u].session /\ ToTell(u, s)'
    <2>1. PICK u \in Threads : o \in pc[u].set /\ s # pc[u].session /\ ToTell(u, s)
      BY <1>3 DEF CopiesInv
    <2>2. u # t
      BY <2>1 DEF ToTell, Is
    <2> QED
      BY <2>1, <2>2 DEF ToTell, Is
  <1> QED
    BY <1>1, <1>2, <1>3

\* The calls of a program on one of its sessions, but for a commit.
LEMMA UseCopies ==
  ASSUME LInv, NEW t \in Threads, NEW s \in Sessions,
         \/ Create(t, s) \/ Begin(t, s) \/ Destroy(t, s)
         \/ \E o \in Objects : Read(t, s, o) \/ Change(t, s, o)
  PROVE  CopiesInv'
  <1> USE DEF LInv, LifeInv
  <1>0. /\ pc \in [Threads -> Places]
        /\ state \in [Sessions -> {"none", "open", "leaving", "freed"}]
        /\ copies \in [Sessions -> [Objects -> {"none", "same", "old", "changed"}]]
    BY DEF TypeOK
  <1>1. ASSUME Calls(t, s), pc' = pc, state' = state,
               \A r \in Sessions, o \in Objects :
                  /\ r # s => copies'[r][o] = copies[r][o]
                  /\ copies'[r][o] = "old" => copies[r][o] = "old"
        PROVE  CopiesInv'
    <2>1. /\ pc[t].at = "idle" /\ state[s] = "open" /\ Created(s)
      BY <1>1 DEF Calls, Owns, Created, Is
    <2>2. \A r \in Sessions, o \in Objects : copies[r][o] # "none" => state[r] = "open"
      BY DEF CopiesInv
    <2> QED
      BY <2>1, <2>2, <1>1, CopiesKept
  <1>2. ASSUME NEW o \in Objects, Read(t, s, o) \/ Change(t, s, o) PROVE CopiesInv'
    <2>1. PICK c \in {"same", "changed"} : copies' = [copies EXCEPT ![s][o] = c]
      BY <1>2 DEF Read, Change
    <2>2. \A r \in Sessions, q \in Objects :
             /\ r # s => copies'[r][q] = copies[r][q]
             /\ copies'[r][q] = "old" => copies[r][q] = "old"
      BY <1>0, <2>1
    <2> QED
      BY <1>1, <1>2, <2>2 DEF Read, Change
  <1>3. CASE Begin(t, s)
    BY <1>1, <1>3 DEF Begin
  <1>4. CASE Create(t, s)
    <2>1. /\ pc[t].at = "idle" /\ state[s] = "none" /\ copies' = copies
          /\ pc' = [pc EXCEPT ![t] = At("append", s, {}, <<>>)]
          /\ state' = [state EXCEPT ![s] = "open"]
      BY <1>4 DEF Create, Is
    <2>2. /\ pc'[t].session = s
          /\ \A u \in Threads : u # t => pc'[u] = pc[u]
      BY <1>0, <2>1 DEF At
    <2>3. \A r \in Sessions, o \in Objects : copies[r][o] # "none" => state'[r] = "open"
      BY <1>0, <2>1 DEF CopiesInv
    <2> QED
      BY <2>1, <2>2, <2>3, CopiesKept
  <1>5. CASE Destroy(t, s)
    <2>1. /\ pc[t].at = "idle" /\ copies' = copies /\ state' = state
          /\ pc' = [pc EXCEPT ![t] = Destroyed(s, <<>>)]
      BY <1>5 DEF Destroy, Calls, Is
    <2>2. /\ pc'[t].at # "append"
          /\ \A u \in Threads : u # t => pc'[u] = pc[u]
      BY <1>0, <2>1 DEF Destroyed, At
    <2> QED
      BY <2>1, <2>2, CopiesKept DEF CopiesInv
  <1> QED
    BY <1>2, <1>3, <1>4, <1>5

\* The other steps of a thread that tells nobody.
LEMMA QuietCopies ==
  ASSUME LInv, NEW t \in Threads,
         \/ AppendSession(t) \/ EndAbort(t) \/ Leave(t)
         \/ Close(t) \/ CloseNext(t) \/ EndClose(t)
  PROVE  CopiesInv'
  <1> USE DEF LInv, LifeInv
  <1>0. pc \in [Threads -> Places] /\ state \in [Sessions -> {"none", "open", "leaving", "freed"}]
    BY DEF TypeOK
  <1>1. /\ pc[t].at \notin {"lock", "notify", "stuck"} /\ copies' = copies
        /\ \A u \in Threads : u # t => pc'[u] = pc[u]
        /\ pc'[t].at # "append"
    <2>1. CASE AppendSession(t) \/ EndClose(t)
      BY <2>1, <1>0, IdlePlace DEF AppendSession, EndClose, Is
    <2>2. CASE EndAbort(t)
      <3>1. pc[t] \in Places /\ Is(t, "abort") /\ copies' = copies
            /\ pc' = [pc EXCEPT ![t].at = "release"]
        BY <2>2, <1>0 DEF EndAbort
      <3> QED
        BY <3>1, <1>0 DEF Places, Is
    <2>3. CASE Close(t)
      BY <2>3, <1>0 DEF Close, At, Is
    <2>4. CASE Leave(t) \/ CloseNext(t)
      BY <2>4, <1>0, IdlePlace DEF Leave, CloseNext, Destroyed, At, Is
    <2> QED
      BY <2>1, <2>2, <2>3, <2>4
  <1>2. \A r \in Sessions, o \in Objects : copies[r][o] # "none" => state'[r] = "open"
    <2>1. CASE ~Leave(t)
      <3>1. state' = state
        BY <2>1 DEF AppendSession, EndAbort, Close, CloseNext, EndClose
      <3> QED
        BY <3>1 DEF CopiesInv
    <2>2. CASE Leave(t)
      <3>1. state' = [state EXCEPT ![pc[t].session] = "freed"] /\ Is(t, "leave")
        BY <2>2 DEF Leave
      <3>2. state[pc[t].session] = "leaving"
        BY <3>1, OwnSession DEF Is, SessionInv
      <3> QED
        BY <1>0, <3>1, <3>2 DEF CopiesInv
    <2> QED
      BY <2>1, <2>2
  <1> QED
    BY <1>1, <1>2, CopiesKept

\* An abort reads again what its session has, and a destruction frees it.
LEMMA OwnCopies ==
  ASSUME LInv, NEW t \in Threads, Reread(t) \/ Release(t)
  PROVE  CopiesInv'
  <1> USE DEF LInv, LifeInv
  <1> DEFINE s == pc[t].session
  <1>0. /\ pc \in [Threads -> Places]
        /\ state \in [Sessions -> {"none", "open", "leaving", "freed"}]
        /\ copies \in [Sessions -> [Objects -> {"none", "same", "old", "changed"}]]
    BY DEF TypeOK
  <1>1. /\ pc[t].at \in {"abort", "release"} /\ s \in Sessions
        /\ state[s] = "open"
    BY OwnSession DEF Reread, Release, Is, SessionInv
  <1>2. Created(s)
    BY <1>1 DEF Created, ThreadInv, Is
  <1>3. /\ \A u \in Threads : u # t => pc'[u] = pc[u]
        /\ pc'[t].at # "append"
    <2>1. pc[t] \in Places
      BY <1>0
    <2>2. CASE pc' = pc
      BY <2>2, <1>1
    <2>3. ASSUME NEW label \in {"stuck", "leave"}, pc' = [pc EXCEPT ![t].at = label]
          PROVE  (\A u \in Threads : u # t => pc'[u] = pc[u]) /\ pc'[t].at # "append"
      BY <2>1, <2>3, <1>0 DEF Places
    <2> QED
      BY <2>2, <2>3 DEF Reread, Release
  <1>4. ASSUME NEW r \in Sessions, NEW o \in Objects
        PROVE  /\ copies'[r][o] # "none" =>
                     /\ state'[r] = "open"
                     /\ copies[r][o] # "none" \/ (state[r] = "open" /\ Created(r))
               /\ copies'[r][o] = "old" => copies[r][o] = "old"
    <2>1. CASE Release(t)
      <3>1. /\ copies' = [copies EXCEPT ![s] = [q \in Objects |-> "none"]]
            /\ state' = [state EXCEPT ![s] = "leaving"]
        BY <2>1 DEF Release
      <3>2. r = s => copies'[r][o] = "none"
        BY <1>0, <3>1
      <3>3. r # s => copies'[r][o] = copies[r][o] /\ state'[r] = state[r]
        BY <1>0, <3>1
      <3> QED
        BY <3>2, <3>3 DEF CopiesInv
    <2>2. CASE Reread(t)
      <3>1. state' = state
        BY <2>2 DEF Reread
      <3>2. CASE copies' = copies
        BY <3>1, <3>2 DEF CopiesInv
      <3>3. ASSUME NEW q \in write_set[s], copies' = [copies EXCEPT ![s][q] = "same"]
            PROVE  /\ copies'[r][o] # "none" =>
                         copies[r][o] # "none" \/ (state[r] = "open" /\ Created(r))
                   /\ copies'[r][o] = "old" => copies[r][o] = "old"
        <4>1. copies'[r][o] = IF r = s /\ o = q THEN "same" ELSE copies[r][o]
          BY <1>0, <1>1, <3>3
        <4> QED
          BY <4>1, <1>1, <1>2, <3>1 DEF CopiesInv
      <3> QED
        BY <2>2, <3>1, <3>2, <3>3 DEF Reread, CopiesInv
    <2> QED
      BY <2>1, <2>2
  <1> QED
    BY <1>1, <1>3, <1>4, CopiesKept
(***************************************************************************)
(* A commit makes copies of what it changed old, in the other sessions,    *)
(* and takes its change set along: it tells every session listed from when *)
(* it has the list to when it has come to its end.                         *)
(***************************************************************************)
LEMMA CommitCopies ==
  ASSUME LInv, NEW t \in Threads, NEW s \in Sessions, Commit(t, s)
  PROVE  CopiesInv'
  <1> USE DEF LInv, LifeInv
  <1>0. pc \in [Threads -> Places]
    BY DEF TypeOK
  <1>1. /\ Is(t, "idle") /\ state' = state
        /\ copies' = [x \in Sessions |-> [o \in Objects |-> Committed(s, x, o)]]
        /\ pc' = [pc EXCEPT ![t] = At("lock", s, write_set[s], <<>>)]
    BY DEF Commit, Calls
  <1>2. /\ pc'[t].at = "lock" /\ pc'[t].session = s /\ pc'[t].set = write_set[s]
        /\ \A u \in Threads : u # t => pc'[u] = pc[u]
    BY <1>0, <1>1 DEF At
  <1>3. state[s] = "open" /\ Created(s)
    BY DEF Commit, Calls, Owns, Created, Is
  <1>4. ASSUME NEW x \in Sessions, NEW o \in Objects, copies'[x][o] # "none"
        PROVE  /\ state'[x] = "open" /\ Created(x)'
               /\ copies'[x][o] = "old" =>
                     \E u \in Threads :
                        o \in pc'[u].set /\ x # pc'[u].session /\ ToTell(u, x)'
    <2>1. copies'[x][o] = Committed(s, x, o)
      BY <1>1
    <2>2. copies[x][o] # "none" \/ x = s
      BY <1>4, <2>1 DEF Committed
    <2>3. state[x] = "open" /\ Created(x)
      BY <1>3, <2>2 DEF CopiesInv
    <2>4. Created(x)'
      BY <1>2, <2>3 DEF Created, Is
    <2>5. CASE copies'[x][o] = "old" /\ o \in write_set[s]
      <3>1. x # s
        BY <2>1, <2>5 DEF Committed
      <3> QED
        BY <1>1, <1>2, <2>3, <2>4, <2>5, <3>1 DEF ToTell
    <2>6. CASE copies'[x][o] = "old" /\ o \notin write_set[s]
      <3>1. copies[x][o] = "old"
        BY <2>1, <2>6 DEF Committed
      <3>2. PICK u \in Threads : o \in pc[u].set /\ x # pc[u].session /\ ToTell(u, x)
        BY <3>1 DEF CopiesInv
      <3>3. u # t
        BY <1>1, <3>2 DEF ToTell, Is
      <3>4. ToTell(u, x)' /\ pc'[u] = pc[u]
        BY <1>2, <3>2, <3>3 DEF ToTell, Is
      <3> QED
        BY <1>1, <2>3, <2>4, <3>2, <3>4
    <2> QED
      BY <1>1, <2>3, <2>4, <2>5, <2>6
  <1> QED
    BY <1>4 DEF CopiesInv

\* A thread that tells, or is about to, and makes no copy old.
LEMMA TellingCopies ==
  ASSUME CopiesInv, NEW t \in Threads, ~Is(t, "append"), UNCHANGED state,
         \A u \in Threads : u # t => pc'[u] = pc[u],
         pc'[t].at # "append",
         \A s \in Sessions, o \in Objects :
            /\ copies'[s][o] # "none" => copies[s][o] # "none"
            /\ copies'[s][o] = "old" => copies[s][o] = "old"
            /\ copies'[s][o] = "old" /\ o \in pc[t].set /\ s # pc[t].session /\ ToTell(t, s) =>
                  o \in pc'[t].set /\ s # pc'[t].session /\ ToTell(t, s)'
  PROVE  CopiesInv'
  <1> SUFFICES ASSUME NEW s \in Sessions, NEW o \in Objects, copies'[s][o] # "none"
               PROVE  /\ state'[s] = "open" /\ Created(s)'
                      /\ copies'[s][o] = "old" =>
                            \E u \in Threads :
                               o \in pc'[u].set /\ s # pc'[u].session /\ ToTell(u, s)'
    BY DEF CopiesInv
  <1>1. state[s] = "open" /\ Created(s)
    BY DEF CopiesInv
  <1>2. Created(s)'
    BY <1>1 DEF Created, Is
  <1>3. ASSUME copies'[s][o] = "old"
        PROVE  \E u \in Threads : o \in pc'[u].set /\ s # pc'[u].session /\ ToTell(u, s)'
    <2>1. PICK u \in Threads : o \in pc[u].set /\ s # pc[u].session /\ ToTell(u, s)
      BY <1>3 DEF CopiesInv
    <2>2. CASE u = t
      BY <1>3, <2>1, <2>2
    <2>3. CASE u # t
      BY <2>1, <2>3 DEF ToTell, Is
    <2> QED
      BY <2>2, <2>3
  <1> QED
    BY <1>1, <1>2, <1>3

LEMMA LockListCopies ==
  ASSUME LInv, NEW t \in Threads, LockList(t)
  PROVE  CopiesInv'
  <1> USE DEF LInv, LifeInv
  <1>1. /\ pc[t] \in Places /\ pc \in [Threads -> Places] /\ Is(t, "lock")
        /\ pc' = [pc EXCEPT ![t].at = "notify", ![t].rest = session_list]
        /\ UNCHANGED <<state, copies>>
    BY DEF LockList, TypeOK
  <1>2. /\ pc'[t].at = "notify" /\ pc'[t].session = pc[t].session
        /\ pc'[t].set = pc[t].set /\ pc'[t].rest = session_list
        /\ \A u \in Threads : u # t => pc'[u] = pc[u]
    BY <1>1 DEF Places
  <1>3. Range(session_list) = Active
    BY <1>1, OpenForCalls DEF Is, ListIsActive
  <1>4. \A s \in Sessions, o \in Objects : copies[s][o] = "old" => s \in Range(pc'[t].rest)
    BY <1>2, <1>3 DEF CopiesInv, Active
  <1>5. \A s \in Sessions, o \in Objects : copies[s][o] = "old" => ToTell(t, s)'
    BY <1>2, <1>4 DEF ToTell, Is
  <1> QED
    BY <1>1, <1>2, <1>5, TellingCopies DEF Is

LEMMA EndNotifyCopies ==
  ASSUME LInv, NEW t \in Threads, EndNotify(t)
  PROVE  CopiesInv'
  <1> USE DEF LInv, LifeInv
  <1>1. /\ pc \in [Threads -> Places] /\ Is(t, "notify") /\ pc[t].rest = <<>>
        /\ pc' = [pc EXCEPT ![t] = Idle]
        /\ UNCHANGED <<state, copies>>
    BY DEF EndNotify, TypeOK
  <1>2. pc'[t].at = "idle" /\ \A u \in Threads : u # t => pc'[u] = pc[u]
    BY <1>1, IdlePlace
  <1>3. Range(pc[t].rest) = {}
    BY <1>1 DEF Range
  <1>4. \A s \in Sessions : ~ToTell(t, s)
    BY <1>1, <1>3 DEF ToTell, Is
  <1> QED
    BY <1>1, <1>2, <1>4, TellingCopies DEF Is

\* What a session is told of, it has as it is stored.
LEMMA NotifyCopies ==
  ASSUME LInv, NEW t \in Threads, Notify(t)
  PROVE  CopiesInv'
  <1> USE DEF LInv, LifeInv
  <1> DEFINE other == Head(pc[t].rest)
             told == other # pc[t].session
             refreshes == told /\ Refreshes(other, pc[t].set)
             new == [o \in Objects |-> IF o \in pc[t].set /\ copies[other][o] # "none"
                                       THEN "same" ELSE copies[other][o]]
  <1>0. /\ pc \in [Threads -> Places] /\ pc[t] \in Places /\ pc[t].rest \in Seq(Sessions)
        /\ copies \in [Sessions -> [Objects -> {"none", "same", "old", "changed"}]]
    BY DEF TypeOK, Places
  <1>1. Is(t, "notify") /\ pc[t].rest # <<>> /\ state' = state
    BY DEF Notify
  <1>2. Range(pc[t].rest) = {other} \cup Range(Tail(pc[t].rest))
    BY <1>0, <1>1, TailOf
  <1>3. CASE pc' = [pc EXCEPT ![t].at = "stuck"] /\ copies' = copies
    <2>1. /\ pc'[t].at = "stuck" /\ pc'[t].session = pc[t].session /\ pc'[t].set = pc[t].set
          /\ \A u \in Threads : u # t => pc'[u] = pc[u]
      BY <1>0, <1>3 DEF Places
    <2>2. \A s \in Sessions : ToTell(t, s)'
      BY <2>1 DEF ToTell
    <2> QED
      BY <1>1, <1>3, <2>1, <2>2, TellingCopies DEF Is
  <1>4. CASE /\ pc' = [pc EXCEPT ![t].rest = Tail(@)]
             /\ copies' = IF ~refreshes THEN copies ELSE [copies EXCEPT ![other] = new]
    <2>1. /\ pc'[t].at = "notify" /\ pc'[t].session = pc[t].session /\ pc'[t].set = pc[t].set
          /\ pc'[t].rest = Tail(pc[t].rest)
          /\ \A u \in Threads : u # t => pc'[u] = pc[u]
      BY <1>0, <1>1, <1>4 DEF Places, Is
    <2>2. ASSUME NEW s \in Sessions, NEW o \in Objects
          PROVE  /\ copies'[s][o] # "none" => copies[s][o] # "none"
                 /\ copies'[s][o] = "old" => copies[s][o] = "old"
                 /\ copies'[s][o] = "old" /\ o \in pc[t].set /\ s # pc[t].session => s # other
      <3>1. CASE s = other /\ refreshes
        <4>1. copies'[s] = new
          BY <1>0, <1>4, <3>1
        <4>2. copies'[s][o] = IF o \in pc[t].set /\ copies[s][o] # "none"
                              THEN "same" ELSE copies[s][o]
          BY <3>1, <4>1
        <4> QED
          BY <4>2
      <3>2. CASE ~(s = other /\ refreshes)
        <4>1. copies'[s] = copies[s]
          BY <1>0, <1>4, <3>2
        <4>2. s = other /\ s # pc[t].session /\ o \in pc[t].set => copies[s][o] = "none"
          BY <3>2 DEF Refreshes
        <4> QED
          BY <4>1, <4>2
      <3> QED
        BY <3>1, <3>2
    <2>3. \A s \in Sessions : s # other /\ ToTell(t, s) => ToTell(t, s)'
      BY <1>1, <1>2, <2>1 DEF ToTell, Is
    <2> QED
      BY <1>1, <2>1, <2>2, <2>3, TellingCopies DEF Is
  <1> QED
    BY <1>3, <1>4 DEF Notify

LEMMA CopiesInit == Init => CopiesInv
  <1> SUFFICES ASSUME Init, NEW s \in Sessions, NEW o \in Objects
               PROVE  copies[s][o] = "none"
    BY DEF CopiesInv
  <1> QED
    BY DEF Init

LEMMA CopiesStep == LInv /\ [Next]_vars => CopiesInv'
  <1> SUFFICES ASSUME LInv, [Next]_vars PROVE CopiesInv'
    OBVIOUS
  <1>1. ASSUME NEW t \in Threads, Continue(t) PROVE CopiesInv'
    BY <1>1, QuietCopies, OwnCopies, LockListCopies, NotifyCopies, EndNotifyCopies DEF Continue
  <1>2. ASSUME NEW t \in Threads, Call(t) PROVE CopiesInv'
    BY <1>2, QuietCopies, UseCopies, CommitCopies DEF Call
  <1>3. CASE UNCHANGED vars
    BY <1>3 DEF LInv, CopiesInv, Created, ToTell, Is, vars
  <1> QED
    BY <1>1, <1>2, <1>3 DEF Next

(***************************************************************************)
(* The invariant of the life of sessions and of what they have copies of,  *)
(* whatever programs run: all that the theorems below rest on.             *)
(***************************************************************************)
THEOREM LifetimesInvariant == Spec => []LInv
  <1>1. Init => LInv
    BY InitHolds, CopiesInit DEF LInv
  <1>2. LInv /\ [Next]_vars => LInv'
    BY NextKeeps, CopiesStep DEF LInv
  <1> QED
    BY <1>1, <1>2, PTL DEF Spec

(***************************************************************************)
(* The session list is that of the active sessions, each once, however     *)
(* creations, commits and destructions overlap.                            *)
(***************************************************************************)
THEOREM ListOfActive == Spec => []ListIsActive
  BY LifetimesInvariant, PTL DEF LInv, LifeInv

(***************************************************************************)
(* No commit comes upon a freed session, and a careful program uses        *)
(* nothing that was released.                                              *)
(***************************************************************************)
THEOREM ReleasedUnused == Spec => []NothingReleasedUsed
  BY LifetimesInvariant, PTL DEF LInv, LifeInv

(***************************************************************************)
(* A database that is closed leaves no session and no transaction behind.  *)
(***************************************************************************)
THEOREM ClosedLeavesNothing == Spec => []AllReleased
  <1>1. LInv => AllReleased
    BY DEF LInv, LifeInv, AllReleased, CloseInv, SessionInv
  <1> QED
    BY <1>1, LifetimesInvariant, PTL

(***************************************************************************)
(* The sessions, their transactions and the places of the threads keep     *)
(* their types, and only a transaction has changed objects.                *)
(***************************************************************************)
THEOREM LifetimesTypes == Spec => []TypeOK
  <1>1. LInv => TypeOK
    BY DEF LInv, LifeInv
  <1> QED
    BY <1>1, LifetimesInvariant, PTL

(***************************************************************************)
(* _obl_update_objects reaches every session that has a copy of what a     *)
(* commit changed, although sessions are created and destroyed meanwhile:  *)
(* when no call runs, no copy is older than what is stored.                *)
(***************************************************************************)
THEOREM FreshCopies == Spec => []FreshWhenQuiet
  <1>1. LInv => FreshWhenQuiet
    BY DEF LInv, CopiesInv, FreshWhenQuiet, ToTell, Is
  <1> QED
    BY <1>1, LifetimesInvariant, PTL
===============================================================================
