# A TLA+ development of the web server

The repository holds a C++ web server on Boost.Asio and Boost.Beast: it reads an nginx-like
configuration, accepts HTTP/1.1 connections, gives each a thread and a one second request timer,
dispatches the request to a handler by the longest configured prefix, and answers. Two handlers
have a life beyond one request: the CRUD handler stores JSON instances in files, and a websocket
connection joins a chat channel. This directory models these two, the server that runs them, the
way from the configuration file to the handler of a request and the handlers themselves, checks
the models with TLC on small instances, and proves almost all of their safety for every
instance with TLAPS. Paths below are relative to the root of the repository (`src/…`, `include/…`).

## 1. Inventory

| Component | State | Operations | Interacts with | What makes it correct |
|---|---|---|---|---|
| **Server** `src/server.cc` | acceptor, `cur_session_` | `StartAccept`, `HandleAccept`, `StartSession` | constructs sessions, one detached thread each | every connection is served, whatever others do |
| **Session** `src/session.cc` | socket, timer, request, response, `timeout_check`, strand | `Start`, `HandleRead`, `PrepareResponse`, `HandleWrite`, `Timeout` | io_service pool, dispatcher, websocket handler | one response per request; a timed-out request is not executed; the bare `this` of the timer is valid; every connection ends |
| **Request dispatcher** `src/request_dispatcher.cc` | none | `ExtractUriBasePath`, `RouteRequest` | factories of `ServingConfig` | the longest configured prefix wins; no access out of bounds |
| **CRUD handler** `src/crud_handler.cc`, `src/crud_filesystem_manager.cc` | `entity_to_id_` (memory), directories and files (disk), `filesystem_mutex` | POST, PUT, DELETE, GET, list | shared by all sessions | requests for an instance appear atomic, a list names what is there while it runs; index and disk agree; no torn read, no lost file; the lock is always released |
| **Websocket channels** `src/global_websocket_state.cc`, `src/websocket_handler.cc` | `map_` (bare pointers), `queue_` per handler | `Add`, `Remove`, `Broadcast`, `OnConnect`, `OnRecieve`, `OnBroadcast`, `OnWrite` | handlers call each other through the map | pointers valid; messages complete and in order; one write at a time; members that leave are released |
| **Serving configuration** `src/serving_config.cc`, `src/I_file_handler_factory.cc` | paths to factories, port | `SetPortNumber`, `SetPaths`, `ValidatePaths`, `GetRoot` | parser, main | exactly the acceptable configurations start; what is served is what the locations say |
| **Configuration parser** `src/config_parser.cc` | the tree, stack of blocks, last token, bracket balance | `ParseToken`, `Parse`, `ToString` | main | the tree is the text; true for the valid files only; no access to an empty stack |
| **Static handler** `src/static_handler.cc` | its path | `SetHeaders`, `HandleRequest` | file system, which others change | the body is the file, whole and in order; privileged directories and large files are refused |
| **Echo, health, not found, sleep, websocket info** | none | `HandleRequest` | – | a fixed response |
| **Logger** `src/logger.cc` | sinks | `InitLogging` | – | – |
| **Start and end** `src/server_main.cc` | – | `main` | all | what a restart keeps |

The hard behaviours are the concurrency of the pool (one thread more per connection, callbacks
on any of them), state that the strand or the lock does not cover, what the CRUD service does
half way through a failing file operation or a crash, the timer that races with the read, and
the lifetime of objects known by bare pointers. `PROJECT.json` lists each hazard at its line.

## 2. Modules

| Module | Models |
|---|---|
| `CrudStore` | one CRUD service: all of `HandleRequest`, `InitRoot`, the five handlers and the file system manager, for any number of worker threads; file faults, crash and restart |
| `EntityStore` | the abstract service: each request for an instance takes effect at one moment or not at all; a list has a start and an end |
| `CrudStoreRefinement` | the mapping under which `CrudStore` implements `EntityStore` |
| `CrudStoreClaims` | what comments and the README say of the service and it does not do |
| `CrudStoreProofs` | theorems about `CrudStore`: types, lock, index |
| `CrudFileProofs` | theorems about its files; extends `CrudStoreProofs` |
| `CrudRefinementProofs` | the theorem that it implements `EntityStore`; extends both and `CrudStoreRefinement` |
| `SessionLifecycleProofs`, `WebsocketProofs` | theorems about `SessionLifecycle` and `WebsocketChannels` |
| `StartupProofs` | theorems about the parser and the start of the process |
| `RoutingProofs` | theorems about `RouteRequest`; extends `StartupProofs` |
| `HandlerProofs` | theorems about the handlers, and the types of the whole process; extends `RoutingProofs` |
| `SessionLifecycle` | server, sessions, timers, the pool of threads |
| `WebsocketChannels` | handshake, channels, broadcast, write queue, destruction of handlers |
| `ConfigParser` | the tokens of a configuration file, `Parse`, `ToString` |
| `ServingConfig` | extends `ConfigParser` with the start of the process: port, table of handler factories, validation |
| `RequestDispatcher` | extends `ServingConfig` with `RouteRequest` over the table it built |
| `RequestHandlers` | extends `RequestDispatcher` with the handlers it calls: the complete path of a file, the static handler, the CRUD handler as far as `InitRoot`, the handlers with a fixed response |
| `MCCrudStore`, `MCSessionLifecycle`, `MCWebsocketChannels`, `MCRequestHandlers` | small instances for TLC |

The four routing modules are layers of one specification: each adds variables and actions, and
`RequestHandlers` has the `Init`, `Next` and `Spec` of the whole process, from the configuration
file to the response. Where `RequestHandlers` reaches the CRUD methods it stops, and `CrudStore`
goes on with an absolute path; `SessionLifecycle` sees all of it as one `RouteRequest` that may
take long.

### How `CrudStore` corresponds to the code

A worker is a thread inside `CrudHandler::HandleRequest`. `pc[w]` stops at each point where the
next step reads or writes what other threads can see; `post_lock`, `post_dir`, `post_open`,
`post_write`, `post_insert` are the lines of `HandlePost` (70-105) in their order, and likewise
for the other methods; a verb that is none of these is a 400. `keys` and `ids` together are
`entity_to_id_` (a key may have an empty set, and the list depends on that). `dirs` and `files`
are the disk and survive `Crash`. `owner` and `readers` are `filesystem_mutex`. The lookups of
`HandleGet` and the whole of the list (205, 226-243) hold no lock in the code and none in the
model. `ListOpen` opens the directory iterator, each `ListNext` is one turn of the loop of
`ListFiles`: the iterator gives an entry, and `is_regular_file` looks whether it is still there;
between two of them anybody may create or remove a file. `named` are the names collected so far;
`owed` are the files that were there when the iterator was opened, have stayed, and have not been
named. The iterator may or may not meet a file that is created meanwhile, and ends (`ListEnd`)
when nothing is owed. A directory that is removed and made again under an iterator counts as the
same one. An unlocked lookup that meets a locked change of the same container is a data race:
`IndexRace` may then happen, the process counts as `"undefined"` and nothing more is said of the
behaviour. An exception nobody catches makes it `"down"`.

Entities are path strings; `DirOf` maps a string to the directory it names, so that `/crud//a`
and `/crud/a` are two keys over one directory, and `Numbered` says which directory has the name
of an instance of another. `CreateFile` and `UpdateFile` open (the file is `Partial`) and write
in two steps, and both may fail when `Faults` says so.

`GetNextID` is given by what its loop returns, the lowest positive number not in the set
(`NextIDIsLowestFree` proves that the chosen value is it).

### How `SessionLifecycle` corresponds to the code

`thread[s]` follows `Session::Start` (49-63): `spawned`, `starting` (timer armed), `joining`
(read started), `pool` (in `io_service_.run()`, which never returns because the acceptor always
has work). A callback needs a free thread of the pool (`FreeThread`). `read[s]` is the
outstanding `async_read`, or what the due `HandleRead` was given. `routing` are the sessions
inside `RouteRequest`, which may take as long as the handler likes. `HandleReadLate` is the
early return at 67. `Timeout` is two actions, up to the write (33-45) and the close (46),
because the `HandleWrite` of that write may run in between; where two threads are in one
session, `Race` may happen. An `async_write` of a short response reaches the client before it
returns, the way Asio tries the write first; a long reply is `sending` until the client has read
it. `timer.cancel()` does not call back an expiry that is due: such a `Timeout` runs beside
`RouteRequest`, for it is not on the strand, and tells a client whose request is being handled
that it timed out. The close of `Timeout` ends a long reply in the middle (`Cut`).

### How `WebsocketChannels` corresponds to the code

`at[h]` is where the chain accept, join, read, broadcast, read … of a handler is. `OnRecieve`
takes the copy `v` of the members (`todo`), `Deliver` goes through it
(`global_websocket_state.cc:57-61`), `posted` are the tasks in the strand, `queue` is `queue_`,
`writes` counts writes in progress. `Expire` is the moment the last shared pointer goes, `Remove`
the destructor's call; in between other threads still find the bare pointer but `lock()` gives
them nothing. `remote_endpoint()`, which `OnConnect` and `Broadcast` call for the log, asks the
kernel for the peer: for a connection that has ended it may throw, or may still know, and both
are modelled. A write may succeed although the connection has ended, so "delivered" means written
to the connection. Completion handlers are not bound to the strand, so `OnWrite` may overlap
`OnBroadcast`: action `Race`.

`GetChannels` only reads the map and is an operator.

### How `ConfigParser` corresponds to the code

A file is a sequence of lexemes: words, quoted words, braces, semicolons, comments, a quote that
does not end, and the blanks, of which a space is told apart because `ParseToken` does. What
`ParseToken` does with characters is `Token`, the first lexeme that is no blank, or the end of
the file. The end also swallows a word that it follows at once, because `ParseToken` leaves its
loop without returning the word. A quoted word is kept as it is written, and `ProcessEsc` takes
its escapes away. Each action of `Parse` is one turn of the loop in `Parse`,
`Legal` the conditions on the token before, in the order of the code. The tree is kept as the
sequence of its statements in the order of their creation, each with the statement whose block
it is in, and `config_stack` holds such statements where the code holds pointers to their
blocks. `top()` and `pop()` of an empty `std::stack` are undefined: the result is then
`"undefined"` and nothing more is said of the process.

### How `ServingConfig` and `RequestDispatcher` correspond to the code

A path is a sequence of symbols; `/` and `?` are told apart because the code searches for them,
and a name is one symbol; `NumberOf` says which words consist of digits. Both functions go
through the blocks of the `server` statements in order, which is the order of the tree, and skip
everything else (`InServer`). `SetPortNumber` is one action; `SetPath` is one turn of the loop
of `SetPaths`, with the early return on a duplicate; `ValidatePaths` is the end of `SetPaths`,
the registration of `/` included, and the `Server` that `main` starts or does not start.
`handler_factories_` remembers for each path the handler and the statement it came from.
`RouteRequest` is everything up to the loop, `MatchLevel`, `StripLevel` and `NoMatch` are what a
turn of the loop can do, `Substr` throws where `std::string::substr` would.
`path_to_handler_name_` only serves the log and is left out.

### How `RequestHandlers` corresponds to the code

`GetRoot` reads the block of the matched location out of the tree. `CreateStaticHandler` makes
the path and lets the file be there or not; `CheckFile`, `CheckSize`, `OpenStream` and
`ReadChunk` are the places where the handler looks at the file, and between any two of them
`ChangeFile` may remove it or rewrite it in place. `is_regular_file` and `file_size` may throw at
any time, an open may fail although the file is there, and a read may fail. A byte of the body is
the version of the file and the position it was read from. Which directories are privileged is
left open, so `CheckFile` may always answer 403. `CreateCrudHandler` is `ParseTarget` in
`InitRoot`, `Climb` a turn of its loop, `RootFound` the rest. `Filename` and `ParentPath` are
those of `boost::filesystem::path` for paths that do not end in a slash, which all paths here
are: to Boost exactly two slashes and a name are a host, whose parent is empty, while three
slashes are as one. One request is modelled at a time: routing and these handlers write nothing
that another request reads.

## 3. Runs

Times are for two TLC workers on an ordinary machine.

| Run | Checks | Instance |
|---|---|---|
| `crud_index` | `TypeOK`, `MutexInv`, `IndexOnDisk`, `AliasesDisjoint`, `DiskMatchesIndex` | 2 workers, 4 requests, all faults, aliases, a directory named like an id, malformed and too large ids; 1.4 M states, 75 s |
| `crud_store` | `NoTornRead`, `OnlyOwnRequestChangesFile`, `ServesStore` | 2 workers, 4 requests, 2 bodies, 1 restart, two spellings, faults of mkdir, open, remove; 816 k states, 120 s |
| `crud_answered` | `Answered` | 3 workers, 3 requests, one entity, faults of mkdir and open; 128 k states, 50 s |
| `ws_order` | `TypeOK`, `WriteInProgress`, `SenderOrder` | 2 clients, one sends up to 3 messages and the other 1, both may fail in the handshake and one may leave; 1.0 M states, 25 s |
| `ws_live` | `MembersAlive`, `EntryOutlivesUse`, `Delivered`, `Released` | 2 clients, 1 message each, both may leave and one may fail in the handshake; 55 k states, 21 s |
| `session_pool` | `TypeOK`, `TimerSafe`, `SpareThread`, `NoWorkAfterTimeout`, `OneResponse`, `HandedOver`, `Accepting`, `Ended` | 2 sessions, one may block for ever, one timer may tie with a callback, both clients may leave, accepts may fail; 110 k states, 16 s |
| `routing` | `TypeOK`, `StackIsPath`, `RoundTrip`, `TrueIffValid`, `StartsIfAcceptable`, `LocationsServed`, `LongestMatch`, `Recomposed`, `WholeFile`, `RootAboveEntity`, `Ends` | all files of up to 4 lexemes of 9 kinds and of up to 6 of words, braces and semicolons; configurations with all pairs of 12 locations, all pairs of 4 ports, and file servers with 3 kinds of roots or none; all targets of up to 5 symbols, and some with three slashes or with `..`; 203 k states, 90 s |
| `crud_empty_list`, `crud_list_race`, `crud_restart_post`, `ws_leave`, `duplicate_location` | one claim each | end in a counterexample, see section 5 |

**Bounds.** Four CRUD requests are enough to create, delete and create again while a fourth
interferes, or for a list with a POST before it and a POST and a DELETE between two of its
entries; ids run up to 3, so that gaps in the ids, their reuse and the end of `int` all occur.
Of two spellings of a directory one is used for instances and the other for POST and lists: which
is which makes no difference, and requests for instances of both, once both have some, would be
more than four. Two workers give every pair of handlers that can meet, and a third waiting for
the lock adds nothing but waiting, which `crud_answered` covers. Two websocket clients give a
sender, a receiver and the sender as its own receiver; three messages of one sender are the least
in which one can be missing between two others; a queue of up to four occurs. Two sessions give
one that blocks and one that must not suffer. `MaxRequests`, `MaxRestarts`, `MaxSends`, `MaxId`,
`MaxVersion` and the set `Sessions` are the only bounds, and each is a guard of one action. In
`routing`, two locations are the least with a duplicate, an overwritten path or one prefix of
another; five symbols hold a double slash, two names and a trailing slash or a query. Six lexemes
are two nested blocks with a statement, or a brace too many after a block; the configurations, of
about 30 lexemes, hold three levels. A buffer of 2 and a limit of 5 give files of no, half a,
one, one and a half and two buffers, and one that is too large. `MaxInt` is 100000 there, so that
TLC can count beyond it; a port of 70000 is one that an `int` holds and a `short` does not.
Deadlock is not checked: when all requests, messages or sessions are used up, the model stops.

**ServesStore** is the refinement, `Store!Spec`: a POST takes effect when its id is inserted, a
PUT when it truncates, a DELETE when the file goes, a GET at its lookup or read. A list is not
atomic, in the code and in the abstract store: it starts at `ListOpen`, names an instance at each
`ListNext` and ends at `ListEnd`. So what is there from its start to its end is named, and what is
named was there at some moment in between, or is what a POST is just creating; but the names
together need not be the content at any one moment. Faults of
writes are left out of this run, because a failed write is reported as success (section 5).

**Fairness.** `CrudStore` assumes that a thread inside `HandleRequest` goes on (`WF` per worker).
`std::shared_mutex` hands itself to a waiter in the end; with a bounded number of requests weak
fairness expresses that. `SessionLifecycle` assumes that a due callback is taken by a free thread
and that timers expire; that a handler returns and a client reads is assumed only outside
`MayStall`. `SessionLifecycle` also assumes that the acceptor's callback runs.
`WebsocketChannels` assumes that ready tasks run and that a write ends. The last is an assumption
on the clients: that they read, or fall silent, so that the idle timeout of 15 minutes ends the
connection. Beast resets that timeout with everything it reads, so a client that goes on sending
and never reads can hold up a write for as long as it likes. `RequestHandlers` assumes that
`main`, `RouteRequest` and the handler run on. Nobody is assumed to send a request or a message.

**Assumption on time.** `OneResponse` holds for the sessions outside `MayTie`: their timer does
not expire while a callback of theirs waits for a thread. Inside `MayTie` a client can get two
responses or a truncated one. `TimerSafe` holds there too, and so does `NoWorkAfterTimeout`: once
the client was told, no request is taken up, that is, routed or handed over; a request that was
past its test already goes on in its handler, which the property grants to `MayTie` only. What
two threads that really overlap in one session do to `res` and `socket_` may also be anything
(`Race`), and then nothing more is said.

Every property has a mutant in `PROJECT.json`: a plausible bug in one definition under which the
run fails. The mutated operators stand in a section of their own in each module and are used by
nothing.

## 4. Proofs

`CrudStoreProofs` proves, for every finite or infinite set of workers, entities and directories,
every `MaxId` and any number of requests and restarts:

* `NextIDIsLowestFree`: `GetNextID` of a finite set is positive, not in the set, and everything
  below is.
* `TypeCorrect`: `Spec => []TypeOK`.
* `MutexCorrect`: `Spec => []MutexInv`. With the types it is inductive as it stands: one step
  per action.
* `IndexCorrect` and `AliasesCorrect`: `Spec => []IndexOnDisk` and `Spec => []AliasesDisjoint`.
  Neither is inductive. Between the open and the insert of a POST its new id must be known to
  name a file and to be in no set of any spelling of the directory: that is `Unregistered`, and
  `IndexInv` is the conjunction. The argument is that the POST that opened the file refused an
  existing one, so no spelling can have had the id (`IndexOnDisk`), and that it has kept the
  lock since (`MutexInv`), so none can have got it. PUT keeps files, DELETE is alone in its
  section (lemma `Alone`), and everything else leaves index and files alone (lemma
  `OutsideSections`).

`CrudFileProofs` goes on to what the files hold, in the same generality. Its invariant `FileInv`
needs the three before it and has three parts:

* `OwnFile`: what a worker knows of its own file. It is `Partial` while it is being written, and
  gone between the removal and the erase of a DELETE.
* `NoOrphans`: until the first restart every file is registered or is the one a POST is about
  to register.
* `MethodFits`: only PUT and DELETE requests are in the sections of PUT and DELETE.

`DiskCorrect` (`DiskMatchesIndex`) follows with `IndexInv`: when nobody has the lock, `NoOrphans`
has no exception left. `OwnRequestCorrect` (`OnlyOwnRequestChangesFile`) is an action property:
five actions change a file, all under the lock, and the two of POST find none or half of one.
`ReadsCorrect` (`NoTornRead`) assumes that writes do not fail (`"write" \notin Faults`), like the
run; mkdir, open and remove may, and so may the process. Its invariant `WholeInv` says of every
file that is registered, looked up or about to be registered that it is whole or being written;
the point is that a crash may leave half a file, but a restart forgets its id, and a POST refuses
the name.

`CrudRefinementProofs` proves `StoreRefined`: if writes do not fail, `Spec => ServesStore`, for
any number of workers, spellings, requests and restarts. `StoreHolds` says what the mapping makes
of a state (nothing under an id that is not registered, the body of a PUT that has emptied the
file, or else the file). There is one simulation lemma per action (two where two are alike):
`SimPostInsert`, `SimPutOpen`, `SimDeleteFile`, `SimGetRead` and so on are steps of the store,
the others stutter or reject. A list is several: `SimListLookup` (of an entity without a key,
which is empty at that moment), `SimListOpen`, `SimListNext` and `SimListEnd`. They need `RefInv`
beyond the invariants above:

* `Lowest` and `Written`: the id of a POST stays the lowest free one until it is registered,
  and its file holds the body by then.
* `Holds`: PUT and DELETE keep the id they found.
* `Known`: the file a GET is about to read is in the index. It looked its id up without the
  lock; a DELETE may have come between, and even a POST that took the id again, but no file that
  only an earlier life of the process knew (`TameKept`).
* `KeysInv`: an entity without a key has no ids; `Serves`: POST and GET are served by their
  handlers.

What `ListNext` names is registered, or is the file of the one POST that holds the lock, whose
request the store then knows as pending; after a restart it may be an instance the process has
lost (`StoredOnDisk`). What a DELETE takes away is no longer owed, by whatever spelling the list
asked for it (`SimDeleteFile`). After `IndexRace` the process does not move any more, so neither
theorem says what a data race can do.

`SessionLifecycleProofs` proves, for every finite set of sessions and every choice of `MayLeave`,
`MayTie` and `MayStall`, all that `session_pool` checks except liveness: `TypeCorrect`
(`TypeOK`), `TimerCorrect` (`TimerSafe`), `SpareCorrect` (`SpareThread`), `TimeoutIsFinal`
(`NoWorkAfterTimeout`), `AnsweredOnce` (`OneResponse`) and `HandedOverForGood` (`HandedOver`);
`NoWorkAfterTimeout` and `HandedOver` are action properties. None of the invariants is inductive,
and `TypeOK` is not either: that at most two `HandleWrite`s are due needs to know who may still
write. All follow from one invariant, `Inv`: `TypeOK` and, for each session by itself,
`SessionInv(s)`:

* `Lifecycle`: where the session's thread is determines what its timer and its reads can be
  doing.
* `Owed`: a session writes once for its request and once for its timer. As long as its request
  is unanswered and its timer not done, nothing is written; while one of the two is open, at
  most one `HandleWrite` is due. A request is in one place at a time, and in none once the
  socket is moved.
* `TimedOut`: the session of a client that was told so has `timeout_check` set, so that a
  `HandleRead` still to come returns early.
* `Single`, for sessions outside `MayTie`: who answers, and that it happens before the close.

A step of one session leaves the others alone (lemma `Frame`), so the proof of `NextInv` has one
step per action, and under it the four parts for the session that moves; what a write, and the
end of one, does to `got` and `written` are the lemmas `Writes` and `Cuts`. `SpareThread` then
needs only that the routed sessions are among those whose threads have joined the pool.

`WebsocketProofs` proves, for every set of handlers and channels and any number of messages,
all the safety that `ws_order` and `ws_live` check: `TypeCorrect`
(`TypeOK`), `MembersCorrect` (`MembersAlive`), `EntriesCorrect` (`EntryOutlivesUse`),
`WritesCorrect` (`WriteInProgress`) and `OrderCorrect` (`SenderOrder`). The first four follow
from one invariant, `Inv`: `Types` and, for each handler by itself,

* `Sending`: a handler with members left to serve has a message for them;
* `Membership`: a handler is in no channel but its own, which has an entry, and only between
  `Join` and its destructor;
* `Writing`: one write is in progress exactly when `queue_` is not empty, as long as the
  connection lasts; an error means that it has ended.

`TypeOK` needs `Writing` (at most one write) and `Sending` (what is posted is a message);
`Writing` needs the order of OnWrite, which pops before it looks whether anything is left. There
is one lemma per action; the seven that only move a handler along its chain share `GotoInv`.

`SenderOrder` needs a second invariant, `OrderInv`, over the `Stream` of a handler: what its
client has got, then what is queued, then what is posted. A write that succeeds moves the border
between the first two, a task of the strand that between the last two (`WriteEndsStream`,
`OnBroadcastStream`), so only `Deliver` extends it. The stream is `Ordered`; it holds no message
that a sender has not sent yet (`Past`), and unless the handler is on its way out it lacks none
since the first one of a sender (`Gapless`). That needs `Known`: who has got anything from a
sender is still a member of its channel, or leaving for good, so that the next copy of the
members has it again; and `Busy`: a sender goes through one copy at a time.

The three modules about the way from the configuration to the response go in layers, like the
modules they are about, and hold for every set of files, words, numbers, targets, sizes and
rewrites. Their theorems are all of the `Spec` of `RequestHandlers`.

`StartupProofs`: `StackCorrect` (`StackIsPath`), `ParseCorrect` (`TrueIffValid`), `StartCorrect`
(`StartsIfAcceptable`) and `TableCorrect` (`LocationsServed`). All but the second follow from the
invariant `StartupInv`:

* `ParserTypes`, `TreeInv` and `StackInv`: a statement has a token and stands in one that began
  before it, and the blocks that are open are statements. `StackIsPath` is inductive with these.
* `PhaseInv` and `PortInv`: the process gets where it is by a parse that returned true and a
  port that fits an `int`.
* `TableInv`: at statement `next` of `SetPaths`, the table has exactly the paths registered so
  far, each with the last statement that registered it, and that is a `TestHandler` if another
  has done so too (`Registered`); no location has found its path taken (`NoDuplicate`). The
  point is that the early return on a duplicate looks up one path and the registration of a
  `TestHandler` writes another, so that `NoDuplicate` is not that the paths differ.
* `FactoryTypes`: what is in the table is a handler, and `/` is the `NotFoundHandler` at the end.

`ParseCorrect` is about every file of any length: `Parse` looks at one token and the type of the
one before it, and `Valid` at the whole file. `ReadInv` relates the two at each point: what has
been read of the file holds only tokens that `Valid` and `SpacesBetweenWords` allow where they
are, `bracket_balance` is the depth there, and `last_token_type` says whether the last token is a
word (`AfterWord`). `ReadToToken` and `ReadToComment` keep that, because blanks and comments
change neither (`AfterWordFrame`, `DepthNext`). At the end of the file, `BlanksToEnd` turns it into
validity; a token that `Parse` refuses is one that `Valid` refuses (`Misplaced`), and an empty
stack is a depth of -1 (`TooManyClosed`, with `StackIsPath`). That only a space after the last
comment counts is in `Misplaced`: the lexeme before `position` is never a blank.

`RoutingProofs`: `LongestMatchCorrect` (`LongestMatch`) and `RecomposedCorrect` (`Recomposed`),
from `RouteInv`. In the loop, `LoopAt` says where `cur_path` is: a level of the base path of
which all levels above have been looked up in vain (`Tried`), or, for a base path without a
slash, all of it. `MatchingLevel` says that any registered path which the base path continues is
one of the levels, and the exact match is tried before the loop (`ExactLongest`); so the first
level found is the longest (`LevelLongest`), and a loop that ends has tried them all
(`NoneLongest`). `Recomposed` needs what the helpers on paths return:
`TrimRightProperties`, `BasePathProperties`, `SplitAtSlash` and the others, stated for every
sequence.

`HandlerProofs`: `TypeCorrect` (`TypeOK` of the whole process), `WholeFileCorrect` (`WholeFile`)
and `RootCorrect` (`RootAboveEntity`).

* `BodyInv`: bytes are numbered as in the file, and no version in the body is older than the one
  before it or younger than the file; of a file that nobody has rewritten no more is read than
  there is, and it is below the limit, because `CheckSize` looked at this version. The chunk
  that ends the read is the one that is not full (`ChunkSize`), also when the size is a multiple
  of the buffer.
* `Climbing`: `root` is always a directory of the path, that is, it ends in a name and at a
  slash, or a path with a host if the file is one. `ParentDirectory` keeps the first, and
  `FirstDirectory` says what it means to stop where the parent is `/`: that directory is the
  topmost of the path. `ParentOfHost` keeps the second: the parent of a path with a host has the
  host too, or is empty, so it is never `/`, and the climb never stops. `RootContainsEntity` is
  the other half of the theorem: a root of the location with a name in it holds this directory
  and the entity both, as the paths are written; the theorem therefore has the premise that no
  name of the path is `..`.

`URI` is the set of the paths in these proofs. It adds the two symbols that the code itself
writes to `STRING`, because the provers do not know that a literal is a string.

The assumptions are the named ASSUMEs of the modules (`CrudAssumption`, `SessionAssumption`,
`ChannelAssumption`; `FilesAssumption`: a file is a sequence of lexemes; `PortAssumption`:
numerals are natural, and an `int` is wider than a `short`; `TargetAssumption`: a target is a
sequence of symbols; `FileAssumption`: sizes are natural and the buffer is not empty). TLC
evaluates them in every run.

Checked by TLC only: liveness (`Answered`, `Delivered`, `Released`, `Accepting`, `Ended`,
`Ends`), which is out of the prover's reach, and one property of the parser: `RoundTrip` compares
the tree with the text through `Serialized`, a recursion over the tree, and would need an
induction over it.

## 5. Where code and documents disagree

* `crud_empty_list`: POST, DELETE, then list. The directory is gone, the key stays, and the list
  is a 500, not the empty list of `src/crud_handler.cc:197`.
* `crud_list_race`: a DELETE removes the directory between `is_directory` and the iterator
  (`src/crud_filesystem_manager.cc:96-101`); the exception ends the process instead of becoming
  the 500 of `src/crud_handler.cc:198`.
* `crud_restart_post`: after a restart the ids of files on disk look free, and POST fails with
  500; `README.md:120` says it finds an available id.
* `ws_leave`: while one client sends, and stays connected itself, `remote_endpoint()` in
  `WebsocketHandler::Broadcast` (79) may throw for a member whose connection has ended, in the
  thread of the sender, and ends the process; `README.md:185` says the handler deals with "any
  errors that occur when communicating over the websocket".
* `duplicate_location`: the duplicate check looks up the path of the location
  (`src/serving_config.cc:95-98`), a `TestHandler` registers that path with `/sleep` behind it
  (115). A second `TestHandler` of one path, or one whose path is taken by an earlier location
  `/a/sleep`, replaces the earlier factory without an error, which the comment at 95 wants to
  prevent.

The models contain further behaviour that the maintainers may want to look at and that no run
singles out.

* Websockets and sessions: a handshake that fails before anyone has joined the channel ends the
  process, because the destructor (`src/websocket_handler.cc:22`) calls `Remove`, whose `map_.at`
  (`src/global_websocket_state.cc:31`) throws for a channel without an entry; `OnWrite` is not on
  the strand (`src/websocket_handler.cc:104`); `Timeout` is not on the strand
  (`src/session.cc:55`); sessions and their threads are never released, although the comment at
  `src/session.cc:69` speaks of deletion.
* CRUD: a GET that loses against a DELETE is a 500 and not a 404; a list after a restart is
  empty; a PUT or POST whose write fails answers 200, although `src/crud_handler.cc:111` says
  500. With a root that does not begin with `/`, `InitRoot` never finds `/` and loops for ever
  (`src/crud_handler.cc:290`), although `README.md:105` says that paths such as roots are
  relative. It does so too without a root, unless the rest of the target begins with one slash,
  and with the root `/` when the rest begins with a slash, because `//a` is a host to Boost.
  These are the exception `Hangs` in `Ends`, which also says that none of them ever ends. Without
  a root, or with `/`, the path may be `/7`, and `InitRoot` then makes a directory of what should
  be an instance (a premise of `RootAboveEntity`). The handler does not look for `..` in a path
  (`src/crud_handler.cc:53-64, 280-299`); where such an entity lies is not said here (the other
  premise).
* Parser, against "true iff the input config file is valid" (`include/config_parser.h:33-35`): a
  last word that the end of the file follows at once is dropped and the file accepted; two words
  with a tab or a line between them, or a space before a comment, are refused, although the
  comment at `src/config_parser.cc:200` speaks of any whitespace (`SpacesBetweenWords` in
  `TrueIffValid`); a closing brace too many empties the stack, and the next word or brace is
  undefined behaviour (`Undefined`). `ToString` does not write escapes back, so its text of a
  quoted word with one does not parse to the same word.
* Configuration: a location that ends in a slash is reached only through a double slash, although
  `README.md:106` says that trailing slashes are ignored; the keyword `port` of `README.md:107`
  is not read; a location without a block, or with an unknown handler, is passed over silently
  (`src/serving_config.cc:103-120`; these and the replaced ones are the exceptions in
  `LocationsServed`); a port above 65535 listens on another one.
* Dispatcher: the target `//x` enters the loop with `cur_path == "/"`, which the comment at
  `src/request_dispatcher.cc:98` excludes, harmlessly (`Recomposed`).
* Static files: a file removed between `is_regular_file` and `file_size` ends the process
  (`src/static_handler.cc:85`), and so does an error of `is_regular_file` other than that there
  is no file (77); one removed before the open, or that cannot be opened, is an empty 200; a read
  error returns 500 to the dispatcher, which ignores it, and the client gets a 200 with part of
  the file (line 155).

## 6. Not modelled, and the plan

Not modelled: the wording and headers of responses, logging, MIME types, JSON (bodies are opaque
and compared only for equality), how the static
handler compares a path with the privileged directories (it depends on the working directory and
on the version of Boost), where a name `..` or a link leads, and a configuration file that cannot
be opened (`src/config_parser.cc:281-284`; `main` then ends as for one that does not parse).
The limit on threads of the process is not modelled. A failing `bind` is not modelled either:
the process then ends before it serves. Three sessions are out of TLC's reach; what
`session_pool` checks of two is proved for any number, except liveness.

Next, in this order:

1. A bound on threads in `SessionLifecycle`, with the theorems that need it.
2. Proofs about `RoundTrip` as far as they need no induction: that `Parse` keeps every token of the
   file in the tree, in its order.
