------------------------------ MODULE CrudStore ------------------------------
(***************************************************************************)
(* The CRUD service: CrudHandler, CrudFileSystemManager, the index         *)
(* entity_to_id_ that all handlers of one CrudHandlerFactory share, and    *)
(* the global filesystem_mutex.                                            *)
(*                                                                         *)
(* A worker is a thread of the io_service pool while it runs one           *)
(* CrudHandler::HandleRequest.  Its program counter pc[w] stops wherever   *)
(* the step to come reads or writes something another thread can see; the  *)
(* code between two such points is one action.  Files outlive the process, *)
(* everything else is lost when it dies.                                   *)
(***************************************************************************)
EXTENDS Integers, FiniteSets, FiniteSetsExt

CONSTANTS
  Workers,      \* threads that may be inside HandleRequest at the same time
  Entities,     \* keys of entity_to_id_: the path strings ParseTarget returns
  Dirs,         \* directories on disk: the CRUD root and the entities' own
  Root,         \* the directory InitRoot creates
  DirOf,        \* DirOf[e]: the directory the string e names ("/crud//a" and
                \*   "/crud/a" are two strings and one directory)
  Above,        \* Above[d]: the directories d lies in
  Numbered,     \* <<c, d, i>>: directory c is the one named i in directory d
  Contents,     \* request bodies
  Targets,      \* the targets clients name: entity and id, see Target
  NoEntity,     \* ParseTarget found the empty string where the entity should be
  Partial,      \* what a file holds before its body has been written in full
  NoFile,       \* no such file; also: no body
  Nobody,       \* no worker
  Faults,       \* file operations that may fail: "mkdir", "open", "write", "remove"
  MaxId,        \* largest int: ids are C++ ints
  MaxRequests,  \* bound: requests received in a behaviour
  MaxRestarts   \* bound: restarts of the process in a behaviour

NoId   == -1
Ids    == 1..MaxId
Target == [entity : Entities \cup {NoEntity}, id : Nat \cup {NoId}]

ASSUME CrudAssumption ==
  /\ MaxId \in Nat \ {0}
  /\ MaxRequests \in Nat
  /\ MaxRestarts \in Nat
  /\ Root \in Dirs
  /\ NoEntity \notin Entities
  /\ DirOf \in [Entities -> Dirs]
  /\ Above \in [Dirs -> SUBSET Dirs]
  /\ Numbered \subseteq Dirs \X Dirs \X Ids
  /\ Targets # {} /\ Targets \subseteq Target
  /\ NoFile \notin Contents \cup {Partial}
  /\ Partial \notin Contents
  /\ Nobody \notin Workers

VARIABLES
  status,   \* the process: "up", "down" (terminated), "undefined" (data race)
  keys,     \* entity_to_id_: the entities it has a set for
  ids,      \* entity_to_id_: the set of an entity ({} where it has none)
  dirs,     \* disk: the directories that exist
  files,    \* disk: files[d][i], the content of the file named i in d
  owner,    \* filesystem_mutex: the worker holding it exclusively
  readers,  \* filesystem_mutex: the workers holding it shared
  pc,       \* where each worker is in HandleRequest
  req,      \* the request each worker serves
  newId,    \* the local variable id of HandlePost
  ans,      \* the last response of each worker
  served,   \* requests received so far
  owed,     \* a list: the files there since its iterator was opened, still to come
  named,    \* a list: file_names, the names it has so far
  restarts  \* restarts so far

memory == <<keys, ids>>
disk   == <<dirs, files>>
mutex  == <<owner, readers>>
call   == <<req, served, owed, named>>
vars   == <<status, memory, disk, mutex, pc, call, newId, ans, restarts>>

(***************************************************************************)
(* Requests and responses.  A response carries the ids it names ("{id: 1}" *)
(* or the list) and the content it returns.                                *)
(***************************************************************************)
Request == [method : {"POST", "PUT"}, target : Targets, body : Contents]
             \cup [method : {"GET", "DELETE", "HEAD"}, target : Targets, body : {NoFile}]
Answer  == [code : {0, 200, 400, 404, 500}, ids : SUBSET Ids,
            body : Contents \cup {Partial, NoFile}]

Reply(code, names, body) == [code |-> code, ids |-> names, body |-> body]
NoAnswer == Reply(0, {}, NoFile)

PostSection   == {"post_dir", "post_open", "post_write", "post_insert"}
PutSection    == {"put_open", "put_write"}
DeleteSection == {"delete_file", "delete_dir", "delete_erase"}
Exclusive     == PostSection \cup PutSection \cup DeleteSection
Listing       == {"list_lookup", "list_check", "list_open", "list_next"}
Reading       == {"get_lookup", "get_lock", "get_read"} \cup Listing
Waiting       == {"post_lock", "put_lock", "delete_lock"}
WithoutId     == PostSection \cup Listing \cup {"post_lock"}
Found         == {"put_write", "delete_dir", "delete_erase", "get_lock", "get_read"}
Places        == {"idle", "init_root", "answered"} \cup Waiting \cup Exclusive \cup Reading

Entity(w)  == req[w].target.entity
Id(w)      == req[w].target.id
Dir(w)     == DirOf[Entity(w)]
Indexed(w) == Id(w) \in ids[Entity(w)]
FilesIn(d) == {i \in Ids : files[d][i] # NoFile}

Init ==
  /\ status = "up"
  /\ keys = {} /\ ids = [e \in Entities |-> {}]
  /\ dirs = {} /\ files = [d \in Dirs |-> [i \in Ids |-> NoFile]]
  /\ owner = Nobody /\ readers = {}
  /\ pc = [w \in Workers |-> "idle"]
  /\ req = [w \in Workers |-> CHOOSE r \in Request : r.method = "GET"]
  /\ newId = [w \in Workers |-> 1]
  /\ ans = [w \in Workers |-> NoAnswer]
  /\ owed = [w \in Workers |-> {}] /\ named = [w \in Workers |-> {}]
  /\ served = 0 /\ restarts = 0

At(w, place)    == status = "up" /\ pc[w] = place
Goto(w, place)  == pc' = [pc EXCEPT ![w] = place]
Finish(w, a)    == Goto(w, "answered") /\ ans' = [ans EXCEPT ![w] = a]
Fail(w, code)   == Finish(w, Reply(code, {}, NoFile))
Succeed(w, i)   == Finish(w, Reply(200, {i}, NoFile))
Unlock          == owner' = Nobody /\ UNCHANGED readers
Die             == status' = "down"   \* an exception no frame of the thread catches

(***************************************************************************)
(* CrudFileSystemManager::CreateDir.  create_directories makes what is     *)
(* missing above d as well; it fails when a name on the way is a file.     *)
(***************************************************************************)
Obstructed(d) ==
  \E n \in Numbered : n[1] \in {d} \cup Above[d] /\ files[n[2]][n[3]] # NoFile

CreateDir(d) ==
  \/ d \in dirs /\ UNCHANGED dirs
  \/ d \notin dirs /\ ~Obstructed(d) /\ dirs' = dirs \cup {d} \cup Above[d]

CreateDirFails(d) ==
  /\ d \notin dirs
  /\ \/ Obstructed(d) /\ UNCHANGED dirs
     \/ /\ "mkdir" \in Faults
        /\ \E made \in SUBSET Above[d] :
             /\ \A c \in made : Above[c] \subseteq dirs \cup made
             /\ dirs' = dirs \cup made

(***************************************************************************)
(* boost::filesystem::exists on the path of instance i in directory d: a   *)
(* file or a directory of that name.                                       *)
(***************************************************************************)
Exists(d, i) == files[d][i] # NoFile \/ \E c \in dirs : <<c, d, i>> \in Numbered

SetFile(d, i, content) == files' = [files EXCEPT ![d][i] = content]

-----------------------------------------------------------------------------
(***************************************************************************)
(* Mutants: plausible bugs that the properties below must catch.  Nothing  *)
(* uses them.                                                              *)
(***************************************************************************)
(* The id is taken from the number of instances, gaps or not. *)
CountedID(S) == Cardinality(S) + 1

(* HandlePut does not refuse a target without an id. *)
PutUnchecked(w) ==
  CASE req[w].method = "PUT"    -> Goto(w, "put_lock") /\ UNCHANGED ans
    [] req[w].method # "PUT" /\ Id(w) # NoId -> Fail(w, 400)
    [] req[w].method # "PUT" /\ Id(w) = NoId -> Goto(w, "post_lock") /\ UNCHANGED ans

(* Writers look for writers only. *)
LockDespiteReaders(w) ==
  /\ status = "up" /\ pc[w] \in Waiting /\ owner = Nobody
  /\ owner' = w
  /\ Goto(w, CASE pc[w] = "post_lock"   -> "post_dir"
               [] pc[w] = "put_lock"    -> "put_open"
               [] pc[w] = "delete_lock" -> "delete_file")
  /\ UNCHANGED <<status, memory, disk, readers, call, newId, ans, restarts>>

(* CreateFile opens the file whether or not it exists. *)
OpenExisting(w) ==
  /\ At(w, "post_open")
  /\ SetFile(Dir(w), newId[w], Partial)
  /\ Goto(w, "post_write")
  /\ UNCHANGED <<status, memory, dirs, mutex, call, newId, ans, restarts>>

(* The error return of HandlePost keeps the lock. *)
FailLocked(w) ==
  /\ At(w, "post_open")
  /\ \/ /\ ~Exists(Dir(w), newId[w])
        /\ SetFile(Dir(w), newId[w], Partial)
        /\ Goto(w, "post_write") /\ UNCHANGED ans
     \/ /\ Exists(Dir(w), newId[w]) \/ "open" \in Faults
        /\ Fail(w, 500) /\ UNCHANGED files
  /\ UNCHANGED <<status, memory, dirs, mutex, call, newId, restarts>>

(* A failed write is reported, and the file left behind. *)
OrphanOnError(w) ==
  /\ At(w, "post_write")
  /\ \/ SetFile(Dir(w), newId[w], req[w].body) /\ Goto(w, "post_insert") /\ UNCHANGED <<mutex, ans>>
     \/ "write" \in Faults /\ UNCHANGED files /\ Fail(w, 500) /\ Unlock
  /\ UNCHANGED <<status, memory, dirs, call, newId, restarts>>

(* HandleDelete forgets the erase. *)
KeepId(w) ==
  /\ At(w, "delete_erase")
  /\ Succeed(w, Id(w)) /\ Unlock
  /\ UNCHANGED <<status, memory, disk, call, newId, restarts>>

(* ListFiles returns from inside its loop, after one name. *)
ListFirst(w) ==
  /\ At(w, "list_next") /\ (owed[w] = {} \/ named[w] # {})
  /\ Finish(w, Reply(200, named[w], NoFile))
  /\ named' = [named EXCEPT ![w] = {}] /\ owed' = [owed EXCEPT ![w] = {}]
  /\ UNCHANGED <<status, memory, disk, mutex, req, served, newId, restarts>>

(* HandleGet reads without waiting for the writer. *)
ReadUnlocked(w) ==
  /\ At(w, "get_lock")
  /\ readers' = readers \cup {w}
  /\ Goto(w, "get_read")
  /\ UNCHANGED <<status, memory, disk, owner, call, newId, ans, restarts>>

-----------------------------------------------------------------------------
(***************************************************************************)
(* CrudHandler::GetNextID: the lowest number that is not in the set.       *)
(***************************************************************************)
GetNextID(S) ==
  LET gaps == 1..Cardinality(S) \ S
  IN  IF gaps = {} THEN Cardinality(S) + 1 ELSE Min(gaps)

(***************************************************************************)
(* A worker receives a request (from the dispatcher) and runs InitRoot     *)
(* without the lock.  ParseTarget throws on a number that is no int, and   *)
(* nothing below the session's thread catches it.                          *)
(***************************************************************************)
Receive(w) ==
  /\ status = "up" /\ pc[w] \in {"idle", "answered"} /\ served < MaxRequests
  /\ \E r \in Request : req' = [req EXCEPT ![w] = r]
  /\ served' = served + 1
  /\ Goto(w, "init_root")
  /\ UNCHANGED <<status, memory, disk, mutex, owed, named, newId, ans, restarts>>

HandleMethod(w) ==
  LET withId == Id(w) # NoId
  IN  CASE req[w].method = "POST"   -> IF withId THEN Fail(w, 400) ELSE Goto(w, "post_lock") /\ UNCHANGED ans
        [] req[w].method = "PUT"    -> IF withId THEN Goto(w, "put_lock") /\ UNCHANGED ans ELSE Fail(w, 400)
        [] req[w].method = "DELETE" -> IF withId THEN Goto(w, "delete_lock") /\ UNCHANGED ans ELSE Fail(w, 400)
        [] req[w].method = "GET"    -> Goto(w, IF withId THEN "get_lookup" ELSE "list_lookup") /\ UNCHANGED ans
        [] OTHER                    -> Fail(w, 400)

InitRoot(w) ==
  /\ At(w, "init_root")
  /\ \/ Id(w) > MaxId /\ Die /\ UNCHANGED <<dirs, pc, ans>>
     \/ /\ Id(w) <= MaxId /\ UNCHANGED status
        /\ \/ Entity(w) = NoEntity /\ Fail(w, 400) /\ UNCHANGED dirs
           \/ Entity(w) # NoEntity /\ CreateDirFails(Root) /\ Fail(w, 500)
           \/ Entity(w) # NoEntity /\ CreateDir(Root) /\ HandleMethod(w)
  /\ UNCHANGED <<memory, files, mutex, call, newId, restarts>>

(***************************************************************************)
(* std::unique_lock on filesystem_mutex: HandlePost, HandlePut and         *)
(* HandleDelete wait for it, then run their critical section.              *)
(***************************************************************************)
LockExclusive(w) ==
  /\ status = "up" /\ pc[w] \in Waiting
  /\ owner = Nobody /\ readers = {}
  /\ owner' = w
  /\ Goto(w, CASE pc[w] = "post_lock"   -> "post_dir"
               [] pc[w] = "put_lock"    -> "put_open"
               [] pc[w] = "delete_lock" -> "delete_file")
  /\ UNCHANGED <<status, memory, disk, readers, call, newId, ans, restarts>>

(***************************************************************************)
(* HandlePost.  CreateFile opens the file (which creates it) and writes    *)
(* the body without looking whether the write succeeds.                    *)
(***************************************************************************)
PostDir(w) ==
  /\ At(w, "post_dir") /\ GetNextID(ids[Entity(w)]) \in Ids
  /\ newId' = [newId EXCEPT ![w] = GetNextID(ids[Entity(w)])]
  /\ \/ CreateDir(Dir(w)) /\ Goto(w, "post_open") /\ UNCHANGED <<mutex, ans>>
     \/ CreateDirFails(Dir(w)) /\ Fail(w, 500) /\ Unlock
  /\ UNCHANGED <<status, memory, files, call, restarts>>

PostOpen(w) ==
  /\ At(w, "post_open")
  /\ \/ /\ ~Exists(Dir(w), newId[w])
        /\ SetFile(Dir(w), newId[w], Partial)
        /\ Goto(w, "post_write") /\ UNCHANGED <<mutex, ans>>
     \/ /\ Exists(Dir(w), newId[w]) \/ "open" \in Faults
        /\ Fail(w, 500) /\ Unlock /\ UNCHANGED files
  /\ UNCHANGED <<status, memory, dirs, call, newId, restarts>>

PostWrite(w) ==
  /\ At(w, "post_write")
  /\ \/ SetFile(Dir(w), newId[w], req[w].body)
     \/ "write" \in Faults /\ UNCHANGED files
  /\ Goto(w, "post_insert")
  /\ UNCHANGED <<status, memory, dirs, mutex, call, newId, ans, restarts>>

PostInsert(w) ==
  /\ At(w, "post_insert")
  /\ keys' = keys \cup {Entity(w)}
  /\ ids' = [ids EXCEPT ![Entity(w)] = @ \cup {newId[w]}]
  /\ Succeed(w, newId[w]) /\ Unlock
  /\ UNCHANGED <<status, disk, call, newId, restarts>>

(***************************************************************************)
(* HandlePut.  WriteFile truncates the file when it opens it.              *)
(***************************************************************************)
PutOpen(w) ==
  /\ At(w, "put_open")
  /\ \/ /\ Indexed(w) /\ Exists(Dir(w), Id(w))
        /\ SetFile(Dir(w), Id(w), Partial)
        /\ Goto(w, "put_write") /\ UNCHANGED <<mutex, ans>>
     \/ /\ Indexed(w) /\ (~Exists(Dir(w), Id(w)) \/ "open" \in Faults)
        /\ Fail(w, 500) /\ Unlock /\ UNCHANGED files
     \/ ~Indexed(w) /\ Fail(w, 404) /\ Unlock /\ UNCHANGED files
  /\ UNCHANGED <<status, memory, dirs, call, newId, restarts>>

PutWrite(w) ==
  /\ At(w, "put_write")
  /\ \/ SetFile(Dir(w), Id(w), req[w].body)
     \/ "write" \in Faults /\ UNCHANGED files
  /\ Succeed(w, Id(w)) /\ Unlock
  /\ UNCHANGED <<status, memory, dirs, call, newId, restarts>>

(***************************************************************************)
(* HandleDelete.  DeleteFile removes the file, then the directory if it    *)
(* holds no file any more; the second removal may fail (a directory with   *)
(* subdirectories stays) without a trace.  The key of the entity stays.    *)
(* A list of the same directory need no longer come across the file.       *)
(***************************************************************************)
Unlist(d, i) ==
  owed' = [v \in Workers |->
             IF pc[v] = "list_next" /\ Dir(v) = d THEN owed[v] \ {i} ELSE owed[v]]

DeleteFile(w) ==
  /\ At(w, "delete_file")
  /\ \/ /\ Indexed(w) /\ Exists(Dir(w), Id(w))
        /\ SetFile(Dir(w), Id(w), NoFile) /\ Unlist(Dir(w), Id(w))
        /\ Goto(w, "delete_dir") /\ UNCHANGED <<mutex, ans>>
     \/ /\ Indexed(w) /\ (~Exists(Dir(w), Id(w)) \/ "remove" \in Faults)
        /\ Fail(w, 500) /\ Unlock /\ UNCHANGED <<files, owed>>
     \/ ~Indexed(w) /\ Fail(w, 404) /\ Unlock /\ UNCHANGED <<files, owed>>
  /\ UNCHANGED <<status, memory, dirs, req, served, named, newId, restarts>>

DeleteDir(w) ==
  LET d == Dir(w)
      removable == FilesIn(d) = {} /\ \A c \in dirs : d \notin Above[c]
  IN  /\ At(w, "delete_dir")
      /\ \/ removable /\ dirs' = dirs \ {d}
         \/ (~removable \/ "remove" \in Faults) /\ UNCHANGED dirs
      /\ Goto(w, "delete_erase")
      /\ UNCHANGED <<status, memory, files, mutex, call, newId, ans, restarts>>

DeleteErase(w) ==
  /\ At(w, "delete_erase")
  /\ ids' = [ids EXCEPT ![Entity(w)] = @ \ {Id(w)}]
  /\ Succeed(w, Id(w)) /\ Unlock
  /\ UNCHANGED <<status, keys, disk, call, newId, restarts>>

(***************************************************************************)
(* HandleGet.  It looks the entity up without the lock, and takes the      *)
(* lock shared to read one instance.                                       *)
(***************************************************************************)
GetLookup(w) ==
  /\ At(w, "get_lookup")
  /\ IF Indexed(w) THEN Goto(w, "get_lock") /\ UNCHANGED ans ELSE Fail(w, 404)
  /\ UNCHANGED <<status, memory, disk, mutex, call, newId, restarts>>

GetLock(w) ==
  /\ At(w, "get_lock") /\ owner = Nobody
  /\ readers' = readers \cup {w}
  /\ Goto(w, "get_read")
  /\ UNCHANGED <<status, memory, disk, owner, call, newId, ans, restarts>>

GetRead(w) ==
  LET content == files[Dir(w)][Id(w)]
  IN  /\ At(w, "get_read")
      /\ \/ content # NoFile /\ Finish(w, Reply(200, {Id(w)}, content))
         \/ (content = NoFile \/ "open" \in Faults) /\ Fail(w, 500)
      /\ readers' = readers \ {w}
      /\ UNCHANGED <<status, memory, disk, owner, call, newId, restarts>>

ListLookup(w) ==
  /\ At(w, "list_lookup")
  /\ IF Entity(w) \in keys THEN Goto(w, "list_check") /\ UNCHANGED ans
                           ELSE Finish(w, Reply(200, {}, NoFile))
  /\ UNCHANGED <<status, memory, disk, mutex, call, newId, restarts>>

ListCheck(w) ==
  /\ At(w, "list_check")
  /\ IF Dir(w) \in dirs THEN Goto(w, "list_open") /\ UNCHANGED ans ELSE Fail(w, 500)
  /\ UNCHANGED <<status, memory, disk, mutex, call, newId, restarts>>

(***************************************************************************)
(* ListFiles walks the directory without any lock.  The directory may go   *)
(* between the is_directory test and the iterator, whose constructor       *)
(* throws.  The iterator comes across every file that stays from then on;  *)
(* of the files made meanwhile it may see any, and a name it has read of a *)
(* file removed meanwhile fails the is_regular_file test.  (A directory    *)
(* removed and made again under the iterator counts as the same one.)      *)
(***************************************************************************)
ListOpen(w) ==
  /\ At(w, "list_open")
  /\ \/ /\ Dir(w) \in dirs /\ UNCHANGED status
        /\ owed' = [owed EXCEPT ![w] = FilesIn(Dir(w))]
        /\ Goto(w, "list_next")
     \/ Dir(w) \notin dirs /\ Die /\ UNCHANGED <<pc, owed>>
  /\ UNCHANGED <<memory, disk, mutex, req, served, named, newId, ans, restarts>>

ListNext(w) ==
  /\ At(w, "list_next")
  /\ \E i \in FilesIn(Dir(w)) \ named[w] :
       /\ named' = [named EXCEPT ![w] = @ \cup {i}]
       /\ owed' = [owed EXCEPT ![w] = @ \ {i}]
  /\ UNCHANGED <<status, memory, disk, mutex, pc, req, served, newId, ans, restarts>>

ListEnd(w) ==
  /\ At(w, "list_next") /\ owed[w] = {}
  /\ Finish(w, Reply(200, named[w], NoFile))
  /\ named' = [named EXCEPT ![w] = {}]
  /\ UNCHANGED <<status, memory, disk, mutex, req, served, owed, newId, restarts>>

(***************************************************************************)
(* A lookup without the lock while another worker changes the same         *)
(* unordered_map or unordered_set is a data race: an insert that adds a    *)
(* key changes the map, an insert or erase of an id the set of its entity. *)
(* What the lookup may then do is anything; the other outcomes are the     *)
(* interleavings above.                                                    *)
(***************************************************************************)
Races(w, v) ==
  \/ /\ pc[w] \in {"get_lookup", "list_lookup"}
     /\ pc[v] = "post_insert" /\ Entity(v) \notin keys
  \/ /\ pc[w] = "get_lookup"
     /\ pc[v] \in {"post_insert", "delete_erase"} /\ Entity(v) = Entity(w)

IndexRace(w) ==
  /\ status = "up" /\ \E v \in Workers : Races(w, v)
  /\ status' = "undefined"
  /\ UNCHANGED <<memory, disk, mutex, pc, call, newId, ans, restarts>>

(***************************************************************************)
(* The process is killed, or started again after it terminated.  Only the  *)
(* disk survives: the factory starts with an empty entity_to_id_.          *)
(***************************************************************************)
Crash ==
  /\ status = "up" /\ restarts < MaxRestarts
  /\ status' = "down"
  /\ UNCHANGED <<memory, disk, mutex, pc, call, newId, ans, restarts>>

Restart ==
  /\ status = "down" /\ restarts < MaxRestarts
  /\ restarts' = restarts + 1
  /\ status' = "up"
  /\ keys' = {} /\ ids' = [e \in Entities |-> {}]
  /\ owner' = Nobody /\ readers' = {}
  /\ pc' = [w \in Workers |-> "idle"]
  /\ ans' = [w \in Workers |-> NoAnswer]
  /\ owed' = [w \in Workers |-> {}] /\ named' = [w \in Workers |-> {}]
  /\ UNCHANGED <<disk, req, served, newId>>

Post(w)   == PostDir(w) \/ PostOpen(w) \/ PostWrite(w) \/ PostInsert(w)
Put(w)    == PutOpen(w) \/ PutWrite(w)
Delete(w) == DeleteFile(w) \/ DeleteDir(w) \/ DeleteErase(w)
Get(w)    == \/ GetLookup(w) \/ GetLock(w) \/ GetRead(w)
             \/ ListLookup(w) \/ ListCheck(w) \/ ListOpen(w) \/ ListNext(w) \/ ListEnd(w)

HandleRequest(w) ==
  InitRoot(w) \/ LockExclusive(w) \/ Post(w) \/ Put(w) \/ Delete(w) \/ Get(w)

Next ==
  \/ \E w \in Workers : Receive(w) \/ HandleRequest(w) \/ IndexRace(w)
  \/ Crash
  \/ Restart

Spec == Init /\ [][Next]_vars

(***************************************************************************)
(* A thread that can run does run, and takes the lock when it is free.     *)
(***************************************************************************)
FairSpec == Spec /\ \A w \in Workers : WF_vars(HandleRequest(w))

-----------------------------------------------------------------------------
(***************************************************************************)
(* Properties                                                              *)
(***************************************************************************)

(* The early returns of crud_handler.cc:74, 115, 157, 284: a worker past   *)
(* them serves a request that names an entity, and an id just when its     *)
(* handler needs one.                                                      *)
RequestFits(w) ==
  pc[w] \notin {"idle", "init_root", "answered"} =>
    /\ Entity(w) \in Entities
    /\ pc[w] \in WithoutId => Id(w) = NoId
    /\ pc[w] \notin WithoutId => Id(w) \in 0..MaxId
    /\ pc[w] \in PostSection \cup PutSection \cup {"post_lock", "put_lock"} => req[w].body \in Contents
    /\ pc[w] \in Found => Id(w) \in Ids

(* Every variable keeps its type, and every request fits its place.        *)
TypeOK ==
  /\ status \in {"up", "down", "undefined"}
  /\ keys \in SUBSET Entities /\ ids \in [Entities -> SUBSET Ids]
  /\ dirs \in SUBSET Dirs
  /\ files \in [Dirs -> [Ids -> Contents \cup {Partial, NoFile}]]
  /\ owner \in Workers \cup {Nobody} /\ readers \in SUBSET Workers
  /\ pc \in [Workers -> Places] /\ req \in [Workers -> Request]
  /\ newId \in [Workers -> Ids] /\ ans \in [Workers -> Answer]
  /\ owed \in [Workers -> SUBSET Ids] /\ named \in [Workers -> SUBSET Ids]
  /\ served \in 0..MaxRequests /\ restarts \in 0..MaxRestarts
  /\ \A w \in Workers : RequestFits(w)

(* filesystem_mutex admits one writer or any number of readers, and every  *)
(* way out of a handler, errors included, releases it: a worker holds it   *)
(* exactly while it is inside the section that needs it                    *)
(* (crud_handler.cc:80, 123, 165, 215).                                    *)
MutexInv ==
  /\ \A w \in Workers : pc[w] \in Exclusive <=> owner = w
  /\ \A w \in Workers : pc[w] = "get_read" <=> w \in readers
  /\ owner # Nobody => readers = {}

(* Every id a client can still name has its file: a file goes before its   *)
(* id only inside the DELETE of that id (crud_handler.cc:176-188), and a   *)
(* POST registers no id before the file exists (lines 92-103).             *)
IndexOnDisk ==
  \A e \in Entities : \A i \in ids[e] :
    \/ files[DirOf[e]][i] # NoFile
    \/ owner # Nobody /\ pc[owner] \in {"delete_dir", "delete_erase"}
         /\ Entity(owner) = e /\ Id(owner) = i

(* Two spellings of one directory ("/crud//a", "/crud/a") have two id sets *)
(* but share the files; they never hand out the same id, because           *)
(* CreateFile refuses a file that exists (crud_filesystem_manager.cc:22).  *)
AliasesDisjoint ==
  \A e, f \in Entities : e # f /\ DirOf[e] = DirOf[f] => ids[e] \cap ids[f] = {}

(* While nobody is inside a writing section, and since the process has not *)
(* been restarted, disk and index agree: no orphan file, no lost id, even  *)
(* after mkdir, open, write or remove failed half way.                     *)
DiskMatchesIndex ==
  restarts = 0 /\ owner = Nobody =>
    \A d \in Dirs : FilesIn(d) = UNION {ids[e] : e \in {f \in Entities : DirOf[f] = d}}

(* No client ever reads a file that is half written, whatever crashes and  *)
(* restarts happen, as long as writes themselves do not fail: HandleGet    *)
(* reads under the shared lock, and a file a crash left half written is    *)
(* not reachable through the index afterwards.                             *)
NoTornRead == \A w \in Workers : ans[w].body # Partial

(* A file that was written completely changes only under the PUT or DELETE *)
(* of its own id: no POST, no restart, no alias overwrites it.             *)
OnlyOwnRequestChangesFile ==
  [][\A d \in Dirs : \A i \in FilesIn(d) :
       files'[d][i] # files[d][i] /\ files[d][i] # Partial =>
         /\ owner # Nobody /\ req[owner].method \in {"PUT", "DELETE"}
         /\ Dir(owner) = d /\ Id(owner) = i]_vars

(* Every request is answered unless the process stops: no early return     *)
(* keeps the lock, nobody waits for a lock that is never released.         *)
Answered ==
  \A w \in Workers :
    pc[w] \notin {"idle", "answered"} ~> (pc[w] \in {"idle", "answered"} \/ status # "up")
=============================================================================
