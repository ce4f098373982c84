# ObjectLite, specified

ObjectLite (`src/obl`) is a C library that keeps graphs of objects in a file. This directory holds
TLA+ models of it, the TLC configurations that check them on small instances, and TLAPS proofs of
what holds for every size. `PROJECT.json` maps each definition to the lines it stands for.

## The system

A **database** is an array of words, mapped from a file (shared, so every store reaches the file) or
taken from the heap. Word 0 is a magic word, words 1 to 4 are the root, and objects and address map
pages follow. An object has a *logical* address, by which others refer to it, and a *physical* one,
its offset in the array. The **address map** is a radix tree of pages from one to the other. The
**allocator** is itself a persisted object, whose two slots are the integers that count both kinds of
addresses.

A program works in **sessions**. A session has a *read set*, the objects it has read, and may have one
current **transaction**, whose *write set* holds the objects it has changed. Both sets are **red-black
trees** keyed by logical address. Reading follows references to a depth and leaves **stubs** at the
end. A commit gives addresses to new objects that changed ones refer to, writes the write set to the
content and refreshes the objects in every other session. An abort refreshes them in its own.

| component | state | operations | interacts by |
|---|---|---|---|
| address map `addressmap.c` | pages in the content, `root.address_map_addr` | lookup, assign | reads and writes the content word by word; assign calls the allocator for pages |
| allocator `allocator.c` | two integer objects, a copy per session | allocate logical, allocate physical | reads and changes its objects as any program would, in the committing session's transaction |
| sessions `session.c` | read set, semaphore, current transaction | create, destroy, read at address, refresh, update objects, release | calls the map, the storage readers, the set; called back by commits of other sessions |
| transactions `transaction.c` | write set | begin, ensure, mark dirty, commit, abort | takes `content_mutex`, `session_mutex` and `session_list_mutex`; calls all of the above |
| object set `set.c` | a tree and the stacks of its iterators | insert, lookup, remove, iterate, destroy, verify | the two sets above; the allocator inserts while a commit iterates |
| database `database.c` | root in memory, content, its size, list of sessions | open, bootstrap, read and write root, grow, close, assign addresses, write | calls sessions and the map, during bootstrap too |
| object storage and stubs `storage/` | the objects, each with a shape that says how it is stored | create, read, write, children, word size and deallocation per storage type | reading recurses into sessions; setters go through transactions; a stub is resolved by a read |
| fixed space `database.c` | nil, true, false and the primitive shapes, shared by all sessions | look up by address | shapes of the objects above; nil is also what a failed read answers |
| platform `platform.c` | semaphores, the mapping | wait, post, map | every call above |
| logging `log.c`, tests | – | – | output; – |

What is hard in it:

* *Threads.* Lookups and reads take no content semaphore while a commit writes. A setter is three
  steps under no common lock. Commit, notification and abort take the same semaphores in different
  orders, and some take one twice.
* *Copies.* The counters of the allocator and every other object exist once in the content and once per
  session that has read them.
* *Changing what is iterated.* A commit iterates over its write set while the allocator inserts there.
* *Stops.* Nothing is a journal: a stopped program leaves the file as far as it had written it.
* *Identity.* An object is in memory once per session; reads replace stubs and free them, slots are not told.
* *Lifetimes.* Sessions come and go while others notify them, and the database closes under those that are open.
* *Extents.* Sizes are computed apart from what is written, and pages take words for which nothing grows.
* *Boundaries.* The map grows when an address needs another digit; a removal needs two rotations only in
  trees of six and more; a shift reaches the width of the word.

What makes each component correct:

* address map: lookups answer as an atomic table, and both calls return;
* transactions and sessions: mutual exclusion, a transaction ended only by the thread that makes it,
  sessions that agree with the store between calls, distinct addresses, closed stored graphs, calls that return;
* sessions: a list of the active ones, none told after it was freed, none that keeps an old copy;
* objects: what was built is read back, one object for an address, slots that refer to objects there are;
* extents: words given to one object only, inside the content;
* set: a valid tree that behaves as a keyed set, whose iterators miss nothing;
* database: a file that any later program can open, where what was committed stays and is found.

## The modules

| module | models | state and actions |
|---|---|---|
| `AddressTable` | what `addressmap.h` promises | a table, and lookups that take their answer at one instant |
| `AddressMap` | `addressmap.c` | pages by address with height and entries; `writer` and `reader[r]` are the locals of the running calls; one page read or written per action |
| `AddressMapProofs` | – | the proofs about `AddressMap` |
| `Transactions` | `transaction.c`, `session.c`, `allocator.c`, `_obl_assign_addresses`, `_obl_write`, setters, stubs | per session `view` (its read set, with the word of each object), `owner` and `write_set` (its transaction); `content` and `map`; `available` (the semaphores); `pc` and `frame` (each thread's call) |
| `TransactionsProofs` | – | the proofs about the control of `Transactions` |
| `TransactionsDataProofs` | – | about the types of its data, and what sessions and transactions have |
| `TransactionsStoreProofs` | – | about what its commits leave in the store |
| `KeyedSet` | what `set.h` promises | an object or none for each key |
| `RBSet` | `set.c`, and the scan of a commit | the tree as a value, the iterator's stack; insert, remove, scan, the allocator's two inserts, destruction |
| `Layout` | the storage types: sizes, words, readers (`storage/*.c`), the order of fixed space | operators only |
| `Space` | `allocator.c`, `_obl_assign_addresses`, `_grow_database`, `_create_treepage` | the counter, the size of the content, the words given to objects and to pages; one action places an object |
| `Commits` | `object.c`, `shape.c`, `slotted.c`, `string.c` and the visit of a commit, with `Layout` and `Space` | the heap of objects by reference, `content` and `map` by word and address; the commit as `phase` and `stack`; of another session only what it leaves alone |
| `CommitsProofs` | – | the proofs about `Space` and `Commits` |
| `Objects` | reading: `stub.c`, `session.c` and the readers of `storage/`, over `Commits` | `read_set`; `frames`, the calls of `obl_read_object` that are under way; one link read per action; slots, refreshes, destructions |
| `ObjectsProofs` | – | the proofs about `Objects` |
| `Lifetimes` | creating and destroying sessions, `obl_close_database`, with commits | `session_list` and its semaphore, per session `state`, `copies`, transaction and write set; `pc` of each thread with what it holds |
| `LifetimesProofs` | – | the proofs about `Lifetimes` |
| `Database` | `database.c` with `addressmap.c` and the writes of a commit | the file (`sized`, `magic`, `disk_root`, `cell`), the program (`root`, `job`, `step`), and what was committed |
| `DatabaseProofs` | – | the proofs about `Database` |
| `MCAddressMap`, `MCTransactions`, `MCObjects`, `MCLifetimes` | – | values for the constants |

The detailed modules meet at what they abstract from each other. `Transactions` takes the map as
a function (`AddressMap` shows that lookups see one), and its sets as sets (`RBSet` shows that they are,
up to the removals below). `Database` has one program and no sessions, and looks at each write of a commit.
`Commits` composes `Space` (it places an object by `Space!Place`, with the pages `AddressMap` would create)
and `Layout`, and has what `Transactions` has as one word: objects of several words, in memory by reference. `Objects`
extends it with the session that reads: `Commits` says what reading may not touch (`Elsewhere`), and
`Objects` implements it (`CommitSpec`, checked by the run and proved as `ReadsLeaveCommits`), so that what is proved of
`CommitSpec` holds with the reads too.
`Lifetimes` has what `Transactions` has fixed: which sessions there are.

Abstractions that matter. In `Transactions` an object is one word: an integer or the address in its only
slot; `Fresh` is a slot that refers to an object without a session yet, `Stub` an object not read yet, and
`Garbled` what is read at physical address 0. The allocator object is not separate from its two counters. An
action runs from one wait or post to the next, so that unlocked work between two of them is one action,
except the store of a setter, which is its own. `Adopt` is the visit of one new object with both
allocations, since the committing thread holds the content and the session meanwhile. In `AddressMap` an
address is a function from heights to digits, which is what shifting and masking select. In `Database` a
cell is an object or a page whatever its extent, so that addresses count cells. A commit there persists one new object:
some object the program can read was changed to refer to it in its only slot, and is rewritten in place, before the new
one, since a write set is in the order of logical addresses. Only the first object has none that refers to it.
In `RBSet` a node is a value, an
assignment through a pointer a new tree, and an iterator's frame finds its node by key; nothing is removed
during an iteration, as in the code.

In `Commits` and `Objects` one thread calls, and waits return. A reference is an index of the heap or an address of fixed space, and
a deallocated object stays on the heap with `live` false, so that what still refers to it can be seen. The two objects
of the allocator are not in its content: `next_logical` and `next_physical` stand for them. Reading recurs in the code:
`obl_read_object` reads the links of an object through `_obl_at_address_depth`, which reads those objects first. In `Objects`
such a call is a frame, with the shape and the links it has so far; `At` is what `_obl_at_address_depth` does for one link: it
answers a fixed or known object, leaves a stub, or begins a frame, and what ends (`EndRead`) is given to the frame below
(`Taken`). No call of the program begins while a frame is left. Left out of the graphs (`GraphsAssumption`), because the code is known to go wrong on them and would
hide the rest (see the hazards): objects of FIXED storage, so shapes with slot names too (written past their extent, not
readable), empty strings (written past their extent), and shapes that lead back to their own instances (the reader does
not return).

In `Lifetimes` a session's copy of an object is the same as the content, older, or changed. Appending to the session list
and removing from it are one step, since they are made under its semaphore. Where waits block, a refresh waits for a
semaphore its own thread holds (session.c:75), and the thread is `stuck`. So it is when a close comes upon a transaction
with changes, whether waits block or not: the abort refreshes through `d->content`, which is NULL by then (database.c:560),
and the program ends there. `CallsReturnOrFault` has that case as its only exception. `careful` programs end their transactions before
they close and destroy no session while they commit in another; the others do as they like.

`Blocking` says what `sem_wait` does. It blocks on POSIX systems. On Windows `platform.c:99` asks for a
semaphore with a negative maximum, none is created, and no caller looks at the result of a wait: waits return.
The same holds wherever `sem_init` fails, for its result is not looked at either. Commits of new objects only
return there (`tx_commit_returns`), so `tx_sequential` has `Blocking = FALSE` and one thread, and so do,
implicitly, `Database` and `Objects`. `Lifetimes` has both kinds, as `program.blocking`.

A read is one action although it takes no content semaphore: of the objects it reads some could come from before a
concurrent commit's writes and some from after them, until the notification refreshes them. The properties about what
sessions have are stated between calls, or of sessions only one thread uses.

## The runs

| run | module, configuration | bounds | shows |
|---|---|---|---|
| `address_map` | `MCAddressMap` | pages of 2 entries, heights 0 to 2, 4 addresses, 2 physical ones, 7 pages, 1 reader | types, the inductive invariant, the tree is the table, the refinement of `AddressTable`, both calls return |
| `tx_sequential` | `TxSequential` | 1 thread, 2 sessions, 2 objects and 2 new ones, waits return | types, distinct addresses, closed stored graphs; between calls sessions see the store unless they changed it; calls return |
| `tx_threads` | `TxThreads` | 2 threads, one of 2 sessions shared, 2 objects, waits block | exclusion, ownership, what is written stays written |
| `rb_set` | `RBSet` | 6 keys and the 2 counters, 2 objects a key, removals up to 5 elements | a valid tree, the refinement of `KeyedSet`, no object missed by a scan, each handed out once by a destruction |
| `database` | `Database` | pages of 5 entries, 11 logical addresses, 18 cells | types, bootstrapping, durability, counters, no address given that something stored refers to |
| `objects` | `Objects` | 135 graphs of 3 objects, depths 1 and 3, pages of 5 entries, 6 addresses, 61 words, 9 objects on the heap | types, what was built is read back, closed graphs, words fit, are disjoint and inside, and are all there after a commit, one object for an address, only stubs dangle; reading leaves the commit's objects, the store and the shared nil alone (`CommitSpec`) |
| `lifetimes` | `Lifetimes` | 3 sessions, 1 object, 2 threads where waits block and 1 where not, careful or not | types, the inductive invariant, the list is that of the active sessions, no old copies, nothing released is used by careful programs, a close leaves nothing; where waits do not block, calls return unless a close reads the content it has unmapped |
| `tx_commit_returns` | `TxCommitReturns` | 1 thread, 1 session, waits block | **violated**: the commit of a new object waits for itself |
| `objects_slots_live` | `ObjSlotsLive` | a chain of two objects, depth 1 | **violated**: a slot is left with a stub that was freed |
| `tx_nothing_garbled` | `TxNothingGarbled` | 1 thread, 2 sessions | **violated**: a stub is refreshed from the root's words |
| `rb_removes` | `RBRemoves` | removals up to 6 elements | **violated**: a removal loses other objects |
| `db_committed_found` | `DbCommittedFound` | as `database` | **violated**: after the map has grown, the next program does not find what was committed |

Why the bounds are enough. Three levels let an assignment put no page, one or two on top, and share or
create branches below; addresses 1, 2, 3 and 6 in binary have these cases. Two sessions are the least that copy and
notify; two threads the least that race, and sharing only one of the sessions gives both a private and a
shared one. Six user keys with the counters make trees of height four, with all the cases of insertion; five is the
largest set from which every removal is right, which `rb_removes` shows by allowing one more. Pages of five entries
let a commit grow the map at its second new object, create a second leaf at the seventh, and 18 cells leave room for
programs that stop and start over. Graphs of three objects have what a visit and a read must tell apart: an object shared by two
slots, a cycle through the root and one past it, an object that is its own child, a shape of the program's with its name
or its instance, and one object unreachable. With pages of five entries the first address a commit gives (5) needs two new
pages, so that growth is decided just before pages are put past the end; `Growth` is the least that `EnoughGrowth`
allows there. Depth 1 leaves a stub behind every link, depth 3 reads every graph of three objects to its end. Three sessions are the least where one is destroyed, one commits and one is told between them. `Room` in
`Transactions`, the guards of `Allocate` in `Database` and of `Visit` in `Commits` (`MaxLogical`, `MaxWord`), `MaxPage`, `MaxSize`, `MaxHeap` and
`RoomOnHeap` in `Objects` (references stay below the addresses of fixed space) are the only bounds in guards.

Deadlock is not checked in `tx_threads`, `tx_commit_returns` and `lifetimes`: where waits block, the code does stop
(`tx_commit_returns` is the finding about it), and a program that has closed its database is done. Nor in `objects`,
where a program that destroyed its session, or has no heap left within the bound, makes no call. Everywhere else it is.

Fairness. A thread inside a call of the map keeps running, because neither function waits: weak fairness of its next
step. The same for `Continues(t)` in `Transactions`: a thread that has entered a call is scheduled, which an
operating system gives to a runnable thread, and for `Continue(t)` in `Lifetimes`. No fairness is assumed of beginning a call, of who gets a semaphore, or
of the other threads' calls.

Five of the properties do not hold of the code; each quotes what the repository says in `PROJECT.json`. Two more disagreements
show as the difference that `careful` makes to `NothingReleasedUsed`: a close with changes in an open transaction reads the
content after it was unmapped, through a NULL pointer, and does not return, though `database.h:262-264` has it close
transactions, and a commit that notifies a session another
thread is destroying uses a freed read set. Two details
met on the way are harmless: the scan of a commit may visit an object twice, when a rotation moves a visited node below
an unvisited frame, and a stopped commit leaves cells that nothing refers to, which the next program takes again.

A stopped commit may also leave a changed object that refers to a new one not written yet. No document promises
that it does not, so this is no finding; `database` shows what holds all the same: the object that was rewritten stays found
(`LowStays`), and the address it refers to is not given to another object later (`AddressesUnsaid`), because the counters are
written first.

What `tx_threads` shows of notifications is little: within its bound a notification that refreshes an object
waits for a semaphore its own thread holds, and no new object gets as far as being adopted. That what is
written stays written where notifications go on rests on the theorem `WrittenStaysWritten`.

## The proofs

`AddressMapProofs`, from `ConstantsAssumption` (page sizes and heights are natural numbers, addresses are functions
from heights to digits, the height at which the shift is undefined is not below the highest used):

* `TypeCorrect`: `Spec => []TypeOK`.
* `TreeInvariant`: `Spec => []IInv`. That the tree holds the table is not inductive by itself: while the map
  grows, new pages lead to the former root before the root is moved, and readers are still below it. `IInv` says which
  pages are linked, that each stands for the addresses that share its digits above its height (`prefix`, a
  history variable), that a branch leads one level down to the page of its digit, that leaves hold the
  table, that one page stands for each prefix, that an empty entry means nothing was assigned there, and where
  writer and readers are. The proof has a lemma per action of the writer, and one for the readers.
* `TreeHolds`: `Spec => []TreeHoldsTable`, that going down from the root leads to what the table has. The path is a
  recursive function over heights, so its existence is proved first (`PathIsPath`); what it leads to (`PathLeads`) goes by
  induction from the root down. `Downwards` gets that from the library's theorem that a set of numbers has a least element.
* `LookupsLinearizable`: `Spec => Table!Spec`, the refinement. Initial states map to initial states
  (`ViewInit`), a writer's step is an assignment or a stutter and changes no reader's view (`WriterKeepsViews`), and a
  reader's step is a call, an answer, a return or a stutter (`ReaderSimulates`); `IInv` is what makes the answer
  the table's.

`TransactionsProofs`, from `ConstantsAssumption` (each thread has its sessions, and where waits do not block there is
one thread):

* `ControlInvariant`: `Spec => []ControlInv`, which is inductive and no run's property, since it is proved: types of the control variables,
  where a call's session and target are (`Places`), exclusion and ownership. `Exclusion` and
  `OwnedTransactions` follow. Exclusion needs `Places`, because the semaphore a thread holds is read from
  its place and its locals: a commit must not have its own session among those it notifies, or posting it would
  free what it never took. The proof reduces exclusion to what a wait adds to and a post takes from the places a
  thread holds (`WaitExcludes`, `PostExcludes`), then goes action by action.

`TransactionsDataProofs` and `TransactionsStoreProofs`, from the same assumption:

* `TypeCorrectness`: `Spec => []TypeOK`, with what calls take for granted (`DataInv`): changed objects are persisted and in
  the read set, what a commit has left to write is in the write set, nothing is read that was not persisted.
* `StoreInvariant`: `Spec => [](ControlInv /\ StoreInv)`, and from it `WrittenStaysWritten`, `DistinctAddresses`,
  `ClosedStore` and `UnchangedStored`. Each part of `StoreInv` is there for another. Addresses are distinct (`Injective`)
  because counters are past all that were given: those in the file while no commit assigns any, those of the committing
  session while one does (`AheadInv`); and no session keeps counters it has changed after its commit (`CountersQuiet`). What is
  stored refers to persisted objects because what sessions have and commits write does (`WordsInv`). A session that has
  not changed an object has what is stored, or a commit that wrote it is still to tell that session, or the session is
  about to refresh it (`SyncInv`).
* `UnchangedStored` assumes that no two threads share a session. It is false otherwise: a setter stores its value after
  it has marked the object and without a semaphore, so another thread's commit can come between, and the session is then
  left with a change that no transaction knows of.
* Where waits block, no commit of a new object gets as far as adopting it (`WaitsForItself`; the finding
  `tx_commit_returns`): there, what these theorems say of new addresses is about none, and it matters where waits return.

`CommitsProofs`, about `Space`, from `SpaceAssumption` (sizes are natural numbers, the free words begin inside the content):

* `SpaceInvariant`: `SpaceSpec => []SpaceInv`, and from it `NeverShared` (no two objects or pages share a word) and
  `AlwaysInside` (every object is inside the content, if `EnoughGrowth`). That objects are inside is not inductive: the next
  one starts where the counter is, which is past the end after pages. `NearlyInside` bounds by how much: the pages of one
  assignment, since the object before them fitted or grew the file. `Disjoint` needs that all was given before the
  counter. A file that grows by less than a map's pages and the largest object has no such bound.

`CommitsProofs`, about `Commits`, from `CommitsAssumption` and `GraphsAssumption` (objects are as the constructors make them, except for those
whose writers store past what is reserved; the root lies before the first free word; the run evaluates it for its graphs):

* `CommitInvariant`: `CommitSpec => []CommitInv`, for any graph, size and page, and any other session that changes none of
  the program's objects. From it `ClosedCommit`: what a persisted object refers to is persisted, or on the stack while
  the commit visits (`VisitInv`), since an object's children are all that it refers to outside fixed space
  (`ChildrenAll`). And `CommittedWords`: the words of each object fit its extent (`WordsReserved`, by storage type), extents
  are apart (`PlacedInv`), so a write changes no word of another object (`WritesApart`), and when the write set is empty
  every object is in the content (`WordsInv`).
* `CommitGivesSpace`: `CommitSpec => SpaceSpec`, so what is shown of `Space` holds of every commit.

`ObjectsProofs`, from the same and `ObjectsAssumption` (default depths are positive):

* `ObjectInvariant`: `Spec => []Inv`, where `Inv` is `CommitInv` and `ReadInv`, for any graph, any depths and any order of reads,
  refreshes and destructions. The properties are stated between calls; the invariant says what holds in the middle of a
  read. `Form` is an object with addresses in place of references, and `StoredForm(a)` what is stored at `a`: what was built, or
  before the commit the root as it was. `HeapInv`: each object of the session that is no stub has the form stored at its
  address, except the root while a refresh reads it again (`Stale`); what it refers to is of the session or fixed; a stub has
  its address; what a refresh freed is of no session. `OneInv`: `OneObjectEach`, and before the commit there is the root at
  most. `FramesInv`: what a frame has so far is the beginning of the form it reads, and it waits (`Waiting`) for the
  address that the next frame reads. `DownInv`: in a graph without cycles frames go down it, so what they read is not known yet
  when they end, and what is replaced in the read set is a stub.
* From it `ObjectTypes`, `OneEach`, `BuiltReadBack` and `StubsOnly`. That the readers undo the writers is `WordsRead` (by storage
  type, over `Packed` and `Unit` for strings), that they know the type to read is `ShapeRead`: the shape is read first, to depth
  3, so it is never a stub. A stub that is deallocated keeps its address, so that a slot that still refers to it is written
  and compared as before.
* `ReadsLeaveCommits`: `Spec => CommitSpec`, the refinement: each step of a call is `Elsewhere`, the end of the commit is
  `Finish`. What needs the invariant is that a read ends with an object of a type that has a reader, and so never changes the
  shared nil (`EndReadStep`), and that what is deallocated or refreshed is of the session that reads. `PromisesKept` has what follows: with the
  reads, the graph is closed, its words are stored, none is shared and all are inside.
* The proof has a lemma for each action. Reading is mostly three of them: a link that is answered (`AnswerStep`), a stub or an
  object that is inserted (`InsertStep`), a frame that is begun (`PushStep`); `AtStep` puts them together. They rest on lemmas
  on what a step leaves of what others refer to (`Steady`, `Shaped`, `OnlyStubsGo`).

`LifetimesProofs`, from `LifetimesAssumption` (`None` is no thread and no session; where waits do not block a program has
one thread):

* `LifetimesInvariant`: `Spec => []LInv`, and from it `ListOfActive`, `ReleasedUnused`, `ClosedLeavesNothing`,
  `LifetimesTypes` and `FreshCopies`. The list is
  that of the active sessions only because a session in a call is in that thread's hands (`ThreadInv`), in the state
  the call's place says (`SessionInv`), because a notification holds the list while it goes over a copy of it (`NotifyInv`),
  and because a close runs alone and has all that is left on its own list (`CloseInv`). `CarefulInv` is what keeping to
  the rules gives a careful program. The proof has a lemma for each action, over lemmas on what a step of one thread leaves
  of the parts that speak of the others (`Moved`, `ListKept`, `CloseKept`, `CarefulKept`). That no old copy is left when no
  call runs needs to know, while calls run, who will still refresh one: `CopiesInv` says that a session with an old
  copy is one that a committing thread has yet to tell (`ToTell`).

`DatabaseProofs`, from `ConstantsAssumption` (a page has more than three entries, so that the system objects are in the
first leaf; there are addresses for them, and cells for them and that leaf; addresses stay below the square of a page's
entries, so the map has at most two levels, where `AddressMapProofs` has any number):

* `DatabaseInvariant`: `Spec => []DInv`, and from it `Types`, `MagicComesLast`, `LowObjectsStay`, `OwnObjectsFound`,
  `CountersAhead` and `AddressesAreUnsaid`. That what was committed stays found is not inductive: a write may go to any cell that the allocator
  gives. `StoredInv` says that the counters of a bootstrapped file are past every committed object, and what the first
  leaf has for it; `JobInv` what a running commit got from them and which of its writes are done; `MapInv` that the pages a
  program can get to are below what it will be given next, and not the object being stored, that a branch has the first leaf
  at entry 0 and no leaf twice; `ObjectsInv` that what
is stored anywhere, by stopped commits too, lies below the next cell and refers to addresses below the next one; `ParentInv`
that the object to be rewritten is one of those, and not where the new one goes; `BootInv` which writes of bootstrapping are done. The proof has a lemma for each action: a
  write hits no page and no committed object, a new page goes to a cell that nothing has (`AddPage`), an entry that is set is
  no other address's (`EntriesApart`, over the digits of an address). Nothing is said of pages that a stopped program left
  and of those above the first leaf on disk: the next program cannot find them, which is `db_committed_found`.

Only checked by TLC: liveness (`LookupReturns`, `AssignReturns`, `CallsReturn`, `CallsReturnOrFault`) and fairness, which this prover does not
reach; all of `RBSet`, whose operators are recursive over trees; and the violations. Induction over numbers is
within reach where a set of them has a least element, as for the paths of the map and the order of a commit's writes;
induction over trees is not. Reading a graph needs none: frames are state, and the invariant says what each has read.

## Not modelled

* Building and destroying fixed space, and starting and shutting down the library twice: it is a constant of `Layout`.
* Access to slots by name, conversion and comparison of strings, and setters of FIXED collections: sequential code over
  one object each, that changes nothing but what `Transactions` has.
* Objects of FIXED storage in a stored graph, for the reason above; floats, doubles, characters and chunks, which have
  neither reader nor writer.
* Failures of allocation (`malloc`, a corrupted allocator) and every error report.
* Logging, printing, and the emulation of mapping. Lengths in bytes where words are meant (database.c:539, 576) are
  listed as a hazard; the models count words.
* `Objects` has one thread: reads that race with the writes of another thread's commit are not modelled word by word.

## The plan

*Done*: the address map with its abstract table; sessions and transactions; the set with both iterators; the life of the
file; extents and growth; objects by identity, with stubs and layouts; the life of sessions. Proofs of the map's
invariant, its tree and its refinement; of the control of transactions, their data and what they store; of extents; of
commits of graphs, with what they leave in the content; of reading them back; of the life of sessions and their copies; and of the life of the file.

What would come next, most important first:

1. An abstract store, one word per address with atomic commits, that `Transactions` implements for one thread.
2. The set as nodes that refer to each other in place of a value, as reading has frames in place of recursion: then a proof that
   an insertion keeps the order of keys is within reach.
3. Torn reads: `Objects` with a second thread whose reads interleave with the writes of a commit.
