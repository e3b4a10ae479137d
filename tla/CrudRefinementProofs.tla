------------------------ MODULE CrudRefinementProofs --------------------------
(***************************************************************************)
(* CrudStore implements EntityStore, for every set of workers, entities,   *)
(* directories and bodies, any number of requests and restarts, and any    *)
(* failure of a file operation but a write.                                *)
(***************************************************************************)
EXTENDS CrudStoreRefinement, CrudFileProofs

(***************************************************************************)
(* What the refinement needs beyond the invariants proved before           *)
(***************************************************************************)
(* POST and GET are served by their handlers (for the others: MethodFits). *)
Serves(w) ==
  /\ pc[w] \in PostSection \cup {"post_lock"} => req[w].method = "POST"
  /\ pc[w] \in Reading => req[w].method = "GET"

(* The id of a POST stays the lowest free one until it is registered, and  *)
(* by then its file holds the body.                                        *)
Lowest(w) ==
  pc[w] \in {"post_open", "post_write", "post_insert"} => 1..(newId[w] - 1) \subseteq ids[Entity(w)]
Written(w) == pc[w] = "post_insert" => files[Dir(w)][newId[w]] = req[w].body

(* PUT and DELETE have seen their id in the index, and it is still there. *)
Holds(w) == pc[w] \in {"put_write", "delete_dir", "delete_erase"} => Indexed(w)

(* What a GET is about to read is no file of an earlier life of the        *)
(* process, which the index does not know.                                 *)
Tame(d, i) == files[d][i] # NoFile => Registered(d, i) \/ BeingPosted(d, i)
Known(w)   == pc[w] \in {"get_lock", "get_read"} => Tame(Dir(w), Id(w))

KeysInv == \A e \in Entities : e \notin keys => ids[e] = {}

RefInv == KeysInv /\ \A w \in Workers : Serves(w) /\ Lowest(w) /\ Written(w) /\ Holds(w) /\ Known(w)

(* The invariants proved before. *)
Before == TypeOK /\ MutexInv /\ IndexInv /\ FileInv

-----------------------------------------------------------------------------
(* The index changes at the end of a POST or of a DELETE. *)
LEMMA IndexStep ==
  ASSUME [Next]_vars, ~UNCHANGED memory, ~Restart
  PROVE  \E w \in Workers : PostInsert(w) \/ DeleteErase(w)
<1> USE DEF memory, disk, mutex, call
<1>1. ~UNCHANGED vars /\ ~Crash
  BY DEF vars, Crash
<1>2. PICK w \in Workers : Receive(w) \/ HandleRequest(w) \/ IndexRace(w)
  BY <1>1 DEF Next
<1>3. ~Receive(w) /\ ~InitRoot(w) /\ ~LockExclusive(w) /\ ~IndexRace(w)
  BY DEF Receive, InitRoot, LockExclusive, IndexRace
<1>4. ~PostDir(w) /\ ~PostOpen(w) /\ ~PostWrite(w) /\ ~Put(w)
  BY DEF PostDir, PostOpen, PostWrite, Put, PutOpen, PutWrite
<1>5. ~DeleteFile(w) /\ ~DeleteDir(w) /\ ~Get(w)
  BY DEF DeleteFile, DeleteDir, Get, GetLookup, GetLock, GetRead, ListLookup, ListCheck, ListOpen,
     ListNext, ListEnd
<1> QED
  BY <1>2, <1>3, <1>4, <1>5 DEF HandleRequest, Post, Delete

(* Nobody disturbs the files and the index of a worker in its section. *)
LEMMA Undisturbed ==
  ASSUME TypeOK, MutexInv, [Next]_vars, ~Restart,
         NEW v \in Workers, pc[v] \in Exclusive, pc'[v] = pc[v]
  PROVE  UNCHANGED <<files, memory>>
<1> USE DEF At, Goto, Finish, Fail, Succeed, TypeOK
<1>1. \A w \in Workers : ~PostOpen(w) /\ ~PostWrite(w) /\ ~PutOpen(w) /\ ~PutWrite(w) /\ ~DeleteFile(w)
  <2> SUFFICES ASSUME NEW w \in Workers,
                      PostOpen(w) \/ PostWrite(w) \/ PutOpen(w) \/ PutWrite(w) \/ DeleteFile(w)
               PROVE  FALSE
    OBVIOUS
  <2>1. pc[w] \in Exclusive
    BY DEF PostOpen, PostWrite, PutOpen, PutWrite, DeleteFile,
       Exclusive, PostSection, PutSection, DeleteSection
  <2>2. pc'[w] # pc[w]
    BY DEF PostOpen, PostWrite, PutOpen, PutWrite, DeleteFile
  <2> QED
    BY <2>1, <2>2, Alone
<1>2. \A w \in Workers : ~PostInsert(w) /\ ~DeleteErase(w)
  <2> SUFFICES ASSUME NEW w \in Workers, PostInsert(w) \/ DeleteErase(w)
               PROVE  FALSE
    OBVIOUS
  <2>1. pc[w] \in Exclusive
    BY DEF PostInsert, DeleteErase, Exclusive, PostSection, DeleteSection
  <2>2. pc'[w] # pc[w]
    BY DEF PostInsert, DeleteErase
  <2> QED
    BY <2>1, <2>2, Alone
<1>3. UNCHANGED files
  BY <1>1, FileStep
<1>4. UNCHANGED memory
  BY <1>2, IndexStep
<1> QED
  BY <1>3, <1>4

(* No step but a restart leaves a file behind that the index does not know. *)
LEMMA TameKept ==
  ASSUME Before, [Next]_vars, ~Restart, NEW d \in Dirs, NEW i \in Ids, Tame(d, i)
  PROVE  Tame(d, i)'
<1> USE DEF memory, disk, mutex, call, At
<1>a. TypeOK /\ MutexInv /\ IndexInv /\ FileInv
  BY DEF Before
<1> SUFFICES ASSUME files'[d][i] # NoFile PROVE Registered(d, i)' \/ BeingPosted(d, i)'
  BY DEF Tame
<1>1. CASE files[d][i] = NoFile
  <2>1. PICK w \in Workers :
          /\ owner = w /\ pc[w] \in {"post_open", "post_write", "put_open", "put_write", "delete_file"}
          /\ \E content : SetFile(Dir(w), IF pc[w] \in PostSection THEN newId[w] ELSE Id(w), content)
          /\ pc[w] \in {"put_open", "delete_file"} => Indexed(w)
    BY <1>a, <1>1, FileSteps
  <2>2. d = Dir(w) /\ i = IF pc[w] \in PostSection THEN newId[w] ELSE Id(w)
    BY <1>a, <1>1, <2>1 DEF SetFile, TypeOK
  <2>3. pc[w] \notin {"post_write", "put_write"}
    BY <1>a, <1>1, <2>1, <2>2, CrudAssumption DEF FileInv, OwnFile, PostSection
  <2>4. pc[w] \notin {"put_open", "delete_file"}
    <3> SUFFICES ASSUME pc[w] \in {"put_open", "delete_file"} PROVE FALSE
      OBVIOUS
    <3>1. Indexed(w) /\ i = Id(w) /\ Entity(w) \in Entities
      BY <1>a, <2>1, <2>2, PlaceFacts DEF PostSection
    <3>2. pc[w] \in Exclusive \ {"delete_dir", "delete_erase"}
      BY DEF Exclusive, PutSection, DeleteSection
    <3> QED
      BY <1>a, <1>1, <2>2, <3>1, <3>2, WriterSeesFiles DEF Indexed, Dir
  <2>5. pc[w] = "post_open" /\ i = newId[w]
    BY <2>1, <2>2, <2>3, <2>4 DEF PostSection
  <2>6. pc'[w] = "post_write" /\ UNCHANGED <<req, newId>>
    <3>1. PICK v \in Workers : PostOpen(v) \/ PostWrite(v) \/ PutOpen(v) \/ PutWrite(v) \/ DeleteFile(v)
      BY <1>1, FileStep
    <3>2. v = w
      BY <1>a, <2>5, <3>1, Alone DEF PostOpen, PostWrite, PutOpen, PutWrite, DeleteFile,
         Exclusive, PostSection, PutSection, DeleteSection
    <3>3. PostOpen(w)
      BY <2>5, <3>1, <3>2 DEF PostWrite, PutOpen, PutWrite, DeleteFile
    <3> QED
      BY <1>a, <1>1, <3>3 DEF PostOpen, Goto, TypeOK
  <2> QED
    BY <2>2, <2>5, <2>6 DEF BeingPosted, Dir, Entity
<1>2. CASE files[d][i] # NoFile /\ Registered(d, i)
  <2>1. PICK e \in Entities : DirOf[e] = d /\ i \in ids[e]
    BY <1>2 DEF Registered
  <2>2. i \in ids'[e]
    <3>1. CASE UNCHANGED memory
      BY <2>1, <3>1
    <3>2. ASSUME NEW w \in Workers, PostInsert(w) PROVE i \in ids'[e]
      BY <1>a, <2>1, <3>2 DEF PostInsert, TypeOK
    <3>3. ASSUME NEW w \in Workers, DeleteErase(w) PROVE i \in ids'[e]
      <4>1. files[Dir(w)][Id(w)] = NoFile
        BY <1>a, <3>3 DEF DeleteErase, FileInv, OwnFile
      <4>2. ~(e = Entity(w) /\ i = Id(w))
        BY <1>2, <2>1, <4>1 DEF Dir
      <4> QED
        BY <1>a, <2>1, <3>3, <4>2 DEF DeleteErase, TypeOK
    <3> QED
      BY <3>1, <3>2, <3>3, IndexStep
  <2> QED
    BY <2>1, <2>2 DEF Registered
<1>3. CASE files[d][i] # NoFile /\ BeingPosted(d, i)
  <2>1. PICK w \in Workers : pc[w] \in {"post_write", "post_insert"} /\ Dir(w) = d /\ newId[w] = i
    BY <1>3 DEF BeingPosted
  <2>2. CASE Stays(w)
    BY <2>1, <2>2 DEF Stays, BeingPosted, Dir, Entity
  <2>3. CASE PostWrite(w)
    BY <1>a, <2>1, <2>3 DEF PostWrite, Goto, BeingPosted, Dir, Entity, TypeOK
  <2>4. CASE PostInsert(w)
    <3>1. i \in ids'[Entity(w)] /\ Entity(w) \in Entities
      BY <1>a, <2>1, <2>4, PlaceFacts DEF PostInsert, TypeOK
    <3> QED
      BY <2>1, <3>1 DEF Registered, Dir
  <2>5. CASE HandleRequest(w)
    <3>1. PostWrite(w) \/ PostInsert(w)
      BY <2>1, <2>5 DEF HandleRequest, InitRoot, LockExclusive, Waiting, Post, PostDir, PostOpen,
         Put, PutOpen, PutWrite, Delete, DeleteFile, DeleteDir, DeleteErase,
         Get, GetLookup, GetLock, GetRead, ListLookup, ListCheck, ListOpen, ListNext, ListEnd
    <3> QED
      BY <2>3, <2>4, <3>1
  <2>6. ~Receive(w)
    BY <2>1 DEF Receive
  <2> QED
    BY <1>a, <2>2, <2>5, <2>6, OwnStep
<1> QED
  BY <1>1, <1>2, <1>3 DEF Tame

(* The part of the invariant that is about one worker. *)
Part(w) == Serves(w) /\ Lowest(w) /\ Written(w) /\ Holds(w)

(* What happens to the worker itself preserves it. *)
LEMMA OwnPart ==
  ASSUME Before, RefInv, [Next]_vars, ~Restart, "write" \notin Faults, NEW w \in Workers,
         Receive(w) \/ HandleRequest(w)
  PROVE  Part(w)'
<1> USE DEF memory, disk, mutex, call, At, Goto, Finish, Fail, Succeed
<1>a. /\ TypeOK /\ MutexInv /\ Part(w) /\ pc \in [Workers -> Places] /\ newId \in [Workers -> Ids]
  BY DEF Before, RefInv, Part, TypeOK
<1>b. ASSUME pc'[w] \in {"idle", "init_root", "answered", "put_lock", "delete_lock"} PROVE Part(w)'
  BY <1>b DEF Part, Serves, Lowest, Written, Holds, PostSection, Reading, Listing
<1>1. CASE Receive(w)
  BY <1>1, <1>a, <1>b DEF Receive
<1>2. CASE InitRoot(w)
  <2>1. req[w].method \in {"POST", "PUT", "GET", "DELETE", "HEAD"}
    BY <1>a, RequestFields DEF TypeOK
  <2>2. HandleMethod(w) =>
          \E p \in {"answered", "post_lock", "put_lock", "delete_lock", "get_lookup", "list_lookup"} :
            /\ pc' = [pc EXCEPT ![w] = p]
            /\ p = "post_lock" => req[w].method = "POST"
            /\ p \in {"get_lookup", "list_lookup"} => req[w].method = "GET"
    BY <2>1 DEF HandleMethod
  <2>3. CASE pc'[w] \in {"init_root", "answered", "put_lock", "delete_lock"}
    BY <1>b, <2>3
  <2>4. CASE /\ pc'[w] \in {"post_lock", "get_lookup", "list_lookup"}
             /\ pc'[w] = "post_lock" => req[w].method = "POST"
             /\ pc'[w] \in {"get_lookup", "list_lookup"} => req[w].method = "GET"
             /\ UNCHANGED req
    BY <2>4 DEF Part, Serves, Lowest, Written, Holds, PostSection, Reading, Listing
  <2>5. \/ pc' = pc
        \/ \E p \in {"answered", "post_lock", "put_lock", "delete_lock", "get_lookup", "list_lookup"} :
             /\ pc' = [pc EXCEPT ![w] = p]
             /\ p = "post_lock" => req[w].method = "POST"
             /\ p \in {"get_lookup", "list_lookup"} => req[w].method = "GET"
    BY <1>2, <2>2 DEF InitRoot
  <2>6. pc[w] = "init_root" /\ UNCHANGED req
    BY <1>2 DEF InitRoot
  <2>7. \/ pc'[w] = "init_root"
        \/ \E p \in {"answered", "post_lock", "put_lock", "delete_lock", "get_lookup", "list_lookup"} :
             /\ pc'[w] = p
             /\ p = "post_lock" => req[w].method = "POST"
             /\ p \in {"get_lookup", "list_lookup"} => req[w].method = "GET"
    BY <1>a, <2>5, <2>6
  <2> QED
    BY <2>3, <2>4, <2>6, <2>7
<1>3. CASE LockExclusive(w)
  <2>1. /\ UNCHANGED req
        /\ \/ pc[w] = "post_lock" /\ pc'[w] = "post_dir"
           \/ pc'[w] \in {"put_open", "delete_file"}
    BY <1>3, <1>a DEF LockExclusive, Waiting
  <2> QED
    BY <1>a, <2>1 DEF Part, Serves, Lowest, Written, Holds, PostSection, Reading, Listing
<1>4. CASE PostDir(w)
  <2>1. CASE pc'[w] = "answered"
    BY <1>b, <2>1
  <2>2. CASE pc'[w] = "post_open"
    <3>1. /\ newId'[w] = GetNextID(ids[Entity(w)]) /\ UNCHANGED <<ids, req>> /\ pc[w] = "post_dir"
      BY <1>4, <1>a DEF PostDir
    <3>2. ids[Entity(w)] \in SUBSET Ids
      BY <1>a, <3>1, PlaceFacts
    <3>3. ids[Entity(w)] \in SUBSET (Nat \ {0}) /\ IsFiniteSet(ids[Entity(w)])
      <4>1. IsFiniteSet(Ids) /\ Ids \subseteq Nat \ {0}
        BY CrudAssumption, FS_Interval DEF Ids
      <4> QED
        BY <3>2, <4>1, FS_Subset
    <3>4. 1..(newId'[w] - 1) \subseteq ids'[Entity(w)]
      BY <3>1, <3>3, NextIDIsLowestFree
    <3>5. Entity(w)' = Entity(w)
      BY <3>1 DEF Entity
    <3>6. Lowest(w)'
      BY <3>4, <3>5 DEF Lowest
    <3>7. Serves(w)'
      BY <1>a, <2>2, <3>1 DEF Part, Serves, PostSection, Reading, Listing
    <3> QED
      BY <2>2, <3>6, <3>7 DEF Part, Written, Holds
  <2> QED
    BY <1>4, <1>a, <2>1, <2>2 DEF PostDir
<1>5. CASE PostOpen(w)
  <2>1. CASE pc'[w] = "answered"
    BY <1>b, <2>1
  <2>2. CASE pc'[w] = "post_write"
    <3>1. UNCHANGED <<ids, req, newId>> /\ pc[w] = "post_open"
      BY <1>5 DEF PostOpen
    <3> QED
      BY <1>a, <2>2, <3>1 DEF Part, Serves, Lowest, Written, Holds, PostSection, Reading, Listing, Entity
  <2> QED
    BY <1>5, <1>a, <2>1, <2>2 DEF PostOpen
<1>6. CASE PostWrite(w)
  <2>1. /\ UNCHANGED <<ids, req, newId>> /\ pc[w] = "post_write" /\ pc'[w] = "post_insert"
        /\ SetFile(Dir(w), newId[w], req[w].body)
    BY <1>6, <1>a DEF PostWrite
  <2>2. Dir(w) \in Dirs /\ newId[w] \in Ids
    BY <1>a, <2>1, PlaceFacts
  <2>3. files'[Dir(w)][newId[w]] = req[w].body
    BY <1>a, <2>1, <2>2, SetFileFilesIn
  <2>4. Written(w)'
    BY <2>1, <2>3 DEF Written, Dir, Entity
  <2> QED
    BY <1>a, <2>1, <2>4 DEF Part, Serves, Lowest, Holds, PostSection, Reading, Listing, Entity
<1>7. CASE PostInsert(w) \/ PutWrite(w) \/ DeleteErase(w)
  BY <1>7, <1>a, <1>b DEF PostInsert, PutWrite, DeleteErase
<1>8. CASE PutOpen(w)
  <2>1. /\ UNCHANGED <<ids, req>>
        /\ pc'[w] = "answered" \/ (pc'[w] = "put_write" /\ Indexed(w))
    BY <1>8, <1>a DEF PutOpen
  <2> QED
    BY <1>b, <2>1 DEF Part, Serves, Lowest, Written, Holds, PostSection, Reading, Listing,
       Indexed, Entity, Id
<1>9. CASE DeleteFile(w)
  <2>1. /\ UNCHANGED <<ids, req>>
        /\ pc'[w] = "answered" \/ (pc'[w] = "delete_dir" /\ Indexed(w))
    BY <1>9, <1>a DEF DeleteFile
  <2> QED
    BY <1>b, <2>1 DEF Part, Serves, Lowest, Written, Holds, PostSection, Reading, Listing,
       Indexed, Entity, Id
<1>10. CASE DeleteDir(w)
  <2>1. UNCHANGED <<ids, req>> /\ pc[w] = "delete_dir" /\ pc'[w] = "delete_erase"
    BY <1>10, <1>a DEF DeleteDir
  <2> QED
    BY <1>a, <2>1 DEF Part, Serves, Lowest, Written, Holds, PostSection, Reading, Listing,
       Indexed, Entity, Id
<1>11. CASE Get(w)
  <2>1. UNCHANGED req /\ pc[w] \in Reading /\ pc'[w] \in Reading \cup {"answered"}
    <3>1. CASE GetLookup(w) \/ GetLock(w)
      BY <1>a, <3>1 DEF GetLookup, GetLock, Reading, Listing
    <3>2. CASE GetRead(w)
      BY <1>a, <3>2 DEF GetRead, Reading, Listing
    <3>3. CASE ListLookup(w) \/ ListCheck(w)
      BY <1>a, <3>3 DEF ListLookup, ListCheck, Reading, Listing
    <3>4. CASE ListOpen(w)
      BY <1>a, <3>4 DEF ListOpen, Reading, Listing
    <3>5. CASE ListNext(w) \/ ListEnd(w)
      BY <1>a, <3>5 DEF ListNext, ListEnd, Reading, Listing
    <3> QED
      BY <1>11, <3>1, <3>2, <3>3, <3>4, <3>5 DEF Get
  <2> QED
    BY <1>a, <2>1 DEF Part, Serves, Lowest, Written, Holds, PostSection, Reading, Listing
<1> QED
  BY <1>1, <1>2, <1>3, <1>4, <1>5, <1>6, <1>7, <1>8, <1>9, <1>10, <1>11
     DEF HandleRequest, Post, Put, Delete

(* Every step preserves the invariant, as long as writes succeed. *)
LEMMA NextRefInv ==
  ASSUME Before, RefInv, [Next]_vars, "write" \notin Faults
  PROVE  RefInv'
<1>a. TypeOK /\ MutexInv
  BY DEF Before
<1>1. CASE Restart
  BY <1>1 DEF Restart, RefInv, KeysInv, Serves, Lowest, Written, Holds, Known, PostSection,
     Reading, Listing
<1>2. CASE ~Restart
  <2>1. KeysInv'
    <3>1. CASE UNCHANGED memory
      BY <3>1 DEF RefInv, KeysInv, memory
    <3>2. ASSUME NEW w \in Workers, PostInsert(w) PROVE KeysInv'
      BY <1>a, <3>2 DEF PostInsert, RefInv, KeysInv, TypeOK
    <3>3. ASSUME NEW w \in Workers, DeleteErase(w) PROVE KeysInv'
      BY <1>a, <3>3 DEF DeleteErase, RefInv, KeysInv, TypeOK
    <3> QED
      BY <1>2, <3>1, <3>2, <3>3, IndexStep
  <2>2. ASSUME NEW w \in Workers PROVE Part(w)'
    <3>1. CASE Stays(w)
      <4>1. pc'[w] = pc[w] /\ req'[w] = req[w] /\ newId'[w] = newId[w] /\ Part(w)
        BY <3>1 DEF Stays, RefInv, Part
      <4>2. pc[w] \in Exclusive => files' = files /\ ids' = ids
        BY <1>a, <1>2, <4>1, Undisturbed DEF memory
      <4>3. Serves(w)'
        BY <4>1 DEF Part, Serves
      <4>4. Lowest(w)' /\ Written(w)' /\ Holds(w)'
        BY <4>1, <4>2 DEF Part, Lowest, Written, Holds, Indexed, Dir, Entity, Id,
           Exclusive, PostSection, PutSection, DeleteSection
      <4> QED
        BY <4>3, <4>4 DEF Part
    <3> QED
      BY <1>a, <1>2, <3>1, OwnStep, OwnPart
  <2>3. ASSUME NEW w \in Workers, pc'[w] \in {"get_lock", "get_read"} PROVE Tame(Dir(w), Id(w))'
    <3>1. /\ req'[w] = req[w]
          /\ pc[w] \in {"get_lock", "get_read"} \/ (pc[w] = "get_lookup" /\ Indexed(w))
      BY <1>a, <1>2, <2>3, WorkerStep
    <3>2. Entity(w) \in Entities /\ Dir(w) \in Dirs /\ Id(w) \in Ids
      BY <1>a, <3>1, PlaceFacts DEF Found
    <3>3. Tame(Dir(w), Id(w))
      BY <3>1, <3>2 DEF RefInv, Known, Tame, Registered, Indexed, Dir
    <3>4. \A d \in Dirs, i \in Ids : Tame(d, i) => Tame(d, i)'
      BY <1>2, TameKept
    <3>5. \A d, i : d = Dir(w) /\ i = Id(w) => d = Dir(w)' /\ i = Id(w)'
      BY <3>1 DEF Dir, Entity, Id
    <3> QED
      BY <3>2, <3>3, <3>4, <3>5 DEF Tame, Registered, BeingPosted
  <2> QED
    BY <2>1, <2>2, <2>3 DEF RefInv, Part, Known
<1> QED
  BY <1>1, <1>2

-----------------------------------------------------------------------------
(***************************************************************************)
(* The mapping                                                             *)
(***************************************************************************)
PutBy(w, e, i) == pc[w] = "put_write" /\ Entity(w) = e /\ Id(w) = i

(* What the store holds: nothing under an id that is not registered, the   *)
(* body of a PUT that has emptied the file, or else the file.              *)
StoreHolds ==
  \A e \in Entities : \A i \in Ids :
    /\ i \notin ids[e] => storeBar[e][i] = NoFile
    /\ \A w \in Workers : i \in ids[e] /\ PutBy(w, e, i) => storeBar[e][i] = req[w].body
    /\ i \in ids[e] /\ (\A w \in Workers : ~PutBy(w, e, i)) => storeBar[e][i] = files[DirOf[e]][i]

(* The mapping computes just that. *)
LEMMA StoreContent == MutexInv => StoreHolds
<1> SUFFICES ASSUME MutexInv, NEW e \in Entities, NEW i \in Ids
             PROVE  /\ i \notin ids[e] => storeBar[e][i] = NoFile
                    /\ \A w \in Workers : i \in ids[e] /\ PutBy(w, e, i) => storeBar[e][i] = req[w].body
                    /\ i \in ids[e] /\ (\A w \in Workers : ~PutBy(w, e, i)) =>
                         storeBar[e][i] = files[DirOf[e]][i]
  BY DEF StoreHolds
<1>1. storeBar[e][i] = IF i \notin ids[e] THEN NoFile
                       ELSE IF Updating(e, i) # {} THEN req[CHOOSE w \in Updating(e, i) : TRUE].body
                       ELSE files[DirOf[e]][i]
  BY DEF storeBar
<1>2. Updating(e, i) = {w \in Workers : PutBy(w, e, i)}
  BY DEF Updating, PutBy
<1>3. ASSUME NEW w \in Workers, PutBy(w, e, i) PROVE Updating(e, i) = {w}
  BY <1>2, <1>3, Alone DEF PutBy, Exclusive, PutSection
<1>4. ASSUME NEW w \in Workers, PutBy(w, e, i) PROVE (CHOOSE v \in Updating(e, i) : TRUE) = w
  BY <1>3, <1>4
<1> QED
  BY <1>1, <1>2, <1>3, <1>4

(* The same of the next state. *)
LEMMA StoreContentNext == MutexInv' => StoreHolds'
BY StoreContent, PTL

(* The store is a function of entities and ids. *)
LEMMA StoreIsFunction == storeBar = [e \in Entities |-> [i \in Ids |-> storeBar[e][i]]]
BY DEF storeBar

(* And it is one afterwards. *)
LEMMA StoreIsFunctionNext == storeBar' = [e \in Entities |-> [i \in Ids |-> storeBar'[e][i]]]
BY DEF storeBar

(* A step that changes no id, no file under an id and no PUT in progress.  *)
LEMMA StoreStays ==
  ASSUME MutexInv, MutexInv', UNCHANGED ids,
         \A e \in Entities : \A i \in ids[e] \cap Ids : files'[DirOf[e]][i] = files[DirOf[e]][i],
         \A w \in Workers : pc[w] = "put_write" \/ pc'[w] = "put_write" =>
                             pc'[w] = pc[w] /\ req'[w] = req[w]
  PROVE  storeBar' = storeBar
<1>1. StoreHolds /\ StoreHolds'
  BY StoreContent, StoreContentNext
<1>2. ASSUME NEW e \in Entities, NEW i \in Ids PROVE storeBar'[e][i] = storeBar[e][i]
  <2>1. CASE i \notin ids[e]
    BY <1>1, <2>1 DEF StoreHolds
  <2>2. ASSUME i \in ids[e], NEW w \in Workers, PutBy(w, e, i) PROVE storeBar'[e][i] = storeBar[e][i]
    <3>1. PutBy(w, e, i)' /\ req'[w] = req[w]
      BY <2>2 DEF PutBy, Entity, Id
    <3> QED
      BY <1>1, <2>2, <3>1 DEF StoreHolds
  <2>3. CASE i \in ids[e] /\ \A w \in Workers : ~PutBy(w, e, i)
    <3>1. \A w \in Workers : ~PutBy(w, e, i)'
      BY <2>3 DEF PutBy, Entity, Id
    <3> QED
      BY <1>1, <2>3, <3>1 DEF StoreHolds
  <2> QED
    BY <2>1, <2>2, <2>3
<1> QED
  BY <1>2, StoreIsFunction, StoreIsFunctionNext

Pending == Places \ {"idle", "answered", "list_next", "put_write", "delete_dir", "delete_erase"}

(* A worker moves on before its request takes effect, *)
LEMMA MovesOn ==
  ASSUME TypeOK, NEW w \in Workers, NEW p \in Pending, pc[w] \in Pending, Goto(w, p), UNCHANGED <<req, ans>>
  PROVE  UNCHANGED <<stateBar, answerBar>>
BY DEF TypeOK, Goto, stateBar, answerBar, TakenEffect, Pending, Id

(* or answers without or with effect, *)
LEMMA AnswersNow ==
  ASSUME TypeOK, NEW w \in Workers, NEW a, pc[w] \in Pending, Finish(w, a), UNCHANGED req
  PROVE  /\ stateBar[w] = "pending"
         /\ stateBar' = [stateBar EXCEPT ![w] = "done"]
         /\ answerBar' = [answerBar EXCEPT ![w] = a]
BY DEF TypeOK, Finish, Goto, stateBar, answerBar, TakenEffect, Pending, Id

(* or takes effect first, *)
LEMMA TakesEffect ==
  ASSUME TypeOK, NEW w \in Workers, pc[w] \in Pending, UNCHANGED <<req, ans>>,
         Goto(w, "put_write") \/ Goto(w, "delete_dir")
  PROVE  /\ stateBar[w] = "pending"
         /\ stateBar' = [stateBar EXCEPT ![w] = "done"]
         /\ answerBar' = [answerBar EXCEPT ![w] = Reply(200, {Id(w)}, NoFile)]
<1>1. PICK p \in {"put_write", "delete_dir"} : pc' = [pc EXCEPT ![w] = p]
  BY DEF Goto
<1>2. pc'[w] = p /\ \A v \in Workers \ {w} : pc'[v] = pc[v]
  BY <1>1 DEF TypeOK
<1>3. TakenEffect(w)' /\ ~TakenEffect(w) /\ \A v \in Workers \ {w} : TakenEffect(v)' = TakenEffect(v)
  BY <1>2 DEF TakenEffect, Pending
<1>4. stateBar[w] = "pending" /\ stateBar' = [stateBar EXCEPT ![w] = "done"]
  BY <1>2, <1>3 DEF stateBar, Pending
<1>5. answerBar' = [answerBar EXCEPT ![w] = Reply(200, {Id(w)}, NoFile)]
  BY <1>2, <1>3 DEF answerBar, Id
<1> QED
  BY <1>4, <1>5

(* and answers afterwards. *)
LEMMA AnswersLater ==
  ASSUME TypeOK, NEW w \in Workers, TakenEffect(w), UNCHANGED req,
         Succeed(w, Id(w)) \/ (Goto(w, "delete_erase") /\ UNCHANGED ans)
  PROVE  UNCHANGED <<stateBar, answerBar>>
<1>1. CASE Succeed(w, Id(w))
  <2>1. /\ pc'[w] = "answered" /\ ans'[w] = Reply(200, {Id(w)}, NoFile)
        /\ \A v \in Workers \ {w} : pc'[v] = pc[v] /\ ans'[v] = ans[v]
    BY <1>1 DEF TypeOK, Succeed, Finish, Goto
  <2> QED
    BY <2>1 DEF stateBar, answerBar, TakenEffect, Id
<1>2. CASE Goto(w, "delete_erase") /\ UNCHANGED ans
  <2>1. pc'[w] = "delete_erase" /\ \A v \in Workers \ {w} : pc'[v] = pc[v]
    BY <1>2 DEF TypeOK, Goto
  <2> QED
    BY <1>2, <2>1 DEF stateBar, answerBar, TakenEffect, Id
<1> QED
  BY <1>1, <1>2

(* An error answer changes nothing. *)
LEMMA Rejects ==
  ASSUME TypeOK, NEW w \in Workers, NEW code \in {400, 500}, pc[w] \in Pending, Fail(w, code),
         UNCHANGED <<req, owed, named, restarts, storeBar, owed, named>>
  PROVE  Store!Reject(w)
<1>1. Finish(w, Reply(code, {}, NoFile))
  BY DEF Fail
<1> QED
  BY <1>1, AnswersNow DEF Store!Reject, Store!Done, Store!lists

-----------------------------------------------------------------------------
(***************************************************************************)
(* Step simulation                                                         *)
(***************************************************************************)
Simulated == [Store!Next]_(Store!vars)

(* What every simulation lemma may use. *)
Here == Before /\ RefInv /\ Before' /\ [Next]_vars /\ "write" \notin Faults

(* The step is no step of the store. *)
LEMMA Stutters ==
  ASSUME UNCHANGED <<storeBar, stateBar, req, answerBar, owed, named, restarts>>
  PROVE  Simulated
BY DEF Simulated, Store!vars, Store!lists

(* One place of the store gets a new content. *)
LEMMA StoreChanges ==
  ASSUME NEW e \in Entities, NEW i \in Ids, NEW content, storeBar'[e][i] = content,
         \A f \in Entities : \A j \in Ids : ~(f = e /\ j = i) => storeBar'[f][j] = storeBar[f][j]
  PROVE  storeBar' = [storeBar EXCEPT ![e][i] = content]
<1> DEFINE changed == [storeBar EXCEPT ![e][i] = content]
<1>1. /\ storeBar = [f \in Entities |-> [j \in Ids |-> storeBar[f][j]]]
      /\ storeBar' = [f \in Entities |-> [j \in Ids |-> storeBar'[f][j]]]
  BY StoreIsFunction, StoreIsFunctionNext
<1>2. changed = [f \in Entities |-> [j \in Ids |-> IF f = e /\ j = i THEN content ELSE storeBar[f][j]]]
  BY <1>1, SMTT(60)
<1> QED
  BY <1>1, <1>2

(* A worker in a section that is no PUT knows that nobody else changes     *)
(* anything: the store holds what the files hold.                          *)
LEMMA StoreIsFiles ==
  ASSUME MutexInv, NEW w \in Workers, pc[w] \in Exclusive, pc[w] # "put_write"
  PROVE  \A e \in Entities : \A i \in Ids :
           storeBar[e][i] = IF i \in ids[e] THEN files[DirOf[e]][i] ELSE NoFile
<1>1. \A v \in Workers : \A e, i : ~PutBy(v, e, i)
  BY Alone DEF PutBy, Exclusive, PutSection
<1> QED
  BY <1>1, StoreContent DEF StoreHolds

(* Nothing of the store is visible under an id outside the index. *)
LEMMA NotStored ==
  ASSUME MutexInv, NEW w \in Workers, Entity(w) \in Entities, ~Indexed(w)
  PROVE  Store!I(w) \notin Store!Stored(Store!E(w))
BY StoreContent DEF StoreHolds, Indexed, Entity, Id, Store!I, Store!E, Store!Stored

(* A request that arrives is invoked. *)
LEMMA SimReceive ==
  ASSUME Here, NEW w \in Workers, Receive(w)
  PROVE  Simulated
<1>a. TypeOK /\ MutexInv /\ MutexInv'
  BY DEF Here, Before
<1>1. PICK r \in Request : req' = [req EXCEPT ![w] = r]
  BY DEF Receive
<1>2. /\ pc[w] \in {"idle", "answered"} /\ pc'[w] = "init_root"
      /\ \A v \in Workers \ {w} : pc'[v] = pc[v] /\ req'[v] = req[v]
      /\ UNCHANGED <<ids, files, ans, owed, named, restarts>>
  BY <1>a, <1>1 DEF Receive, Goto, TypeOK, memory, disk
<1>3. storeBar' = storeBar
  BY <1>a, <1>2, StoreStays
<1>4. stateBar[w] \in {"idle", "done"} /\ stateBar' = [stateBar EXCEPT ![w] = "pending"]
  BY <1>2 DEF stateBar, TakenEffect
<1>5. answerBar' = [answerBar EXCEPT ![w] = NoAnswer]
  BY <1>2 DEF answerBar, TakenEffect, Id
<1>6. Store!Invoke(w)
  BY <1>1, <1>2, <1>3, <1>4, <1>5 DEF Store!Invoke, Store!lists
<1> QED
  BY <1>6 DEF Simulated, Store!Next

(* Steps that leave the disk and the index alone, up to the directories. *)
LEMMA SimQuiet ==
  ASSUME Here, NEW w \in Workers, pc[w] \in Pending, UNCHANGED <<ids, files, req, owed, named, restarts>>,
         \/ \E p \in Pending : Goto(w, p) /\ UNCHANGED ans
         \/ \E code \in {400, 500} : Fail(w, code)
         \/ UNCHANGED <<pc, ans>>
  PROVE  Simulated
<1>a. TypeOK /\ MutexInv /\ MutexInv'
  BY DEF Here, Before
<1>1. storeBar' = storeBar
  <2>1. pc'[w] # "put_write" /\ \A v \in Workers \ {w} : pc'[v] = pc[v]
    BY <1>a DEF TypeOK, Goto, Fail, Finish, Pending
  <2>2. pc[w] # "put_write"
    BY DEF Pending
  <2> QED
    BY <1>a, <2>1, <2>2, StoreStays
<1>2. CASE \E p \in Pending : Goto(w, p) /\ UNCHANGED ans
  BY <1>a, <1>1, <1>2, MovesOn, Stutters
<1>3. ASSUME NEW code \in {400, 500}, Fail(w, code) PROVE Simulated
  <2>1. Store!Reject(w)
    BY <1>a, <1>1, <1>3, Rejects
  <2> QED
    BY <2>1 DEF Simulated, Store!Next
<1>4. CASE UNCHANGED <<pc, ans>>
  <2>1. UNCHANGED <<stateBar, answerBar>>
    BY <1>4 DEF stateBar, answerBar, TakenEffect, Id
  <2> QED
    BY <1>1, <2>1, Stutters
<1> QED
  BY <1>2, <1>3, <1>4

(* InitRoot makes a directory, or answers 400 or 500, and changes no file. *)
LEMMA SimInitRoot ==
  ASSUME Here, NEW w \in Workers, InitRoot(w)
  PROVE  Simulated
<1>1. pc[w] = "init_root" /\ UNCHANGED <<ids, files, req, owed, named, restarts>>
  BY DEF InitRoot, At, memory, call
<1>2. req[w].method \in {"POST", "PUT", "GET", "DELETE", "HEAD"}
  BY RequestFields DEF Here, Before, TypeOK
<1>3. HandleMethod(w) => \/ \E p \in Pending : Goto(w, p) /\ UNCHANGED ans
                         \/ Fail(w, 400)
  <2>1. {"post_lock", "put_lock", "delete_lock", "get_lookup", "list_lookup"} \subseteq Pending
    BY DEF Pending, Places, Waiting, Reading, Listing
  <2>2. HandleMethod(w) =>
          \/ \E p \in {"post_lock", "put_lock", "delete_lock", "get_lookup", "list_lookup"} :
               Goto(w, p) /\ UNCHANGED ans
          \/ Fail(w, 400)
    BY <1>2 DEF HandleMethod
  <2> QED
    BY <2>1, <2>2
<1>4. \/ \E p \in Pending : Goto(w, p) /\ UNCHANGED ans
      \/ \E code \in {400, 500} : Fail(w, code)
      \/ UNCHANGED <<pc, ans>>
  BY <1>3 DEF InitRoot
<1>5. pc[w] \in Pending
  BY <1>1 DEF Pending, Places
<1> QED
  BY <1>1, <1>4, <1>5, SimQuiet

(* Taking the lock changes nothing that the store knows of. *)
LEMMA SimLockExclusive ==
  ASSUME Here, NEW w \in Workers, LockExclusive(w)
  PROVE  Simulated
<1>1. /\ pc[w] \in Pending /\ UNCHANGED <<ids, files, req, owed, named, restarts>>
      /\ \E p \in {"post_dir", "put_open", "delete_file"} : Goto(w, p) /\ UNCHANGED ans
  BY DEF LockExclusive, Waiting, memory, disk, call, Pending, Places
<1>2. {"post_dir", "put_open", "delete_file"} \subseteq Pending
  BY DEF Pending, Places, Exclusive, PostSection, PutSection, DeleteSection
<1> QED
  BY <1>1, <1>2, SimQuiet

(* Nor does choosing an id and making a directory for it. *)
LEMMA SimPostDir ==
  ASSUME Here, NEW w \in Workers, PostDir(w)
  PROVE  Simulated
<1>1. /\ pc[w] = "post_dir" /\ UNCHANGED <<ids, files, req, owed, named, restarts>>
      /\ (Goto(w, "post_open") /\ UNCHANGED ans) \/ Fail(w, 500)
  BY DEF PostDir, At, memory, call
<1>2. "post_dir" \in Pending /\ "post_open" \in Pending
  BY DEF Pending, Places, Exclusive, PostSection
<1> QED
  BY <1>1, <1>2, SimQuiet

(* The new file is not in the store before its id is registered. *)
LEMMA SimPostOpen ==
  ASSUME Here, NEW w \in Workers, PostOpen(w) \/ PostWrite(w)
  PROVE  Simulated
<1>a. TypeOK /\ MutexInv /\ MutexInv' /\ IndexInv
  BY DEF Here, Before
<1>1. /\ pc[w] \in {"post_open", "post_write"} /\ UNCHANGED <<ids, req, owed, named, restarts>>
      /\ \E p \in {"post_write", "post_insert", "answered"} : Goto(w, p)
      /\ (\E p \in {"post_write", "post_insert"} : Goto(w, p) /\ UNCHANGED ans) \/ Fail(w, 500)
      /\ UNCHANGED files \/ \E content : SetFile(Dir(w), newId[w], content)
      /\ pc[w] = "post_open" /\ ~UNCHANGED files => files[Dir(w)][newId[w]] = NoFile
  BY DEF PostOpen, PostWrite, At, memory, call, Exists, Fail, Finish
<1>2. pc[w] \in Pending /\ {"post_write", "post_insert"} \subseteq Pending
  BY <1>1 DEF Pending, Places, Exclusive, PostSection
<1>3. pc[w] \in Exclusive \ {"delete_dir", "delete_erase"} /\ pc[w] # "put_write"
  BY <1>1 DEF Exclusive, PostSection
<1>4. ASSUME NEW e \in Entities, NEW i \in ids[e] \cap Ids PROVE files'[DirOf[e]][i] = files[DirOf[e]][i]
  <2>1. CASE UNCHANGED files
    BY <2>1
  <2>2. CASE ~UNCHANGED files
    <3>1. ~(DirOf[e] = Dir(w) /\ i = newId[w])
      <4>1. CASE pc[w] = "post_open"
        BY <1>a, <1>1, <1>3, <2>2, <4>1, WriterSeesFiles
      <4>2. CASE pc[w] = "post_write"
        BY <1>a, <4>2 DEF IndexInv, Unregistered
      <4> QED
        BY <1>1, <4>1, <4>2
    <3>2. DirOf[e] \in Dirs /\ Dir(w) \in Dirs /\ newId[w] \in Ids
      BY <1>a, <1>1, PlaceFacts, CrudAssumption
    <3> QED
      BY <1>a, <1>1, <2>2, <3>1, <3>2, SetFileFilesIn
  <2> QED
    BY <2>1, <2>2
<1>5. storeBar' = storeBar
  <2>1. pc'[w] # "put_write" /\ \A v \in Workers \ {w} : pc'[v] = pc[v]
    BY <1>a, <1>1 DEF TypeOK, Goto
  <2> QED
    BY <1>a, <1>1, <1>3, <1>4, <2>1, StoreStays
<1>6. CASE \E p \in {"post_write", "post_insert"} : Goto(w, p) /\ UNCHANGED ans
  BY <1>a, <1>1, <1>2, <1>5, <1>6, MovesOn, Stutters
<1>7. CASE Fail(w, 500)
  <2>1. Store!Reject(w)
    BY <1>a, <1>1, <1>2, <1>5, <1>7, Rejects
  <2> QED
    BY <2>1 DEF Simulated, Store!Next
<1> QED
  BY <1>1, <1>6, <1>7

(* A POST takes effect when its id is registered. *)
LEMMA SimPostInsert ==
  ASSUME Here, NEW w \in Workers, PostInsert(w)
  PROVE  Simulated
<1> DEFINE e == Entity(w)
           n == newId[w]
<1>a. TypeOK /\ MutexInv /\ MutexInv' /\ IndexInv /\ RefInv
  BY DEF Here, Before
<1>1. /\ pc[w] = "post_insert" /\ UNCHANGED <<files, req, owed, named, restarts>>
      /\ ids' = [ids EXCEPT ![e] = @ \cup {n}] /\ Finish(w, Reply(200, {n}, NoFile))
  BY DEF PostInsert, At, disk, call, Succeed
<1>2. /\ pc[w] \in Exclusive \ {"delete_dir", "delete_erase"} /\ pc[w] # "put_write" /\ pc[w] \in Pending
  BY <1>1 DEF Exclusive, PostSection, Pending, Places
<1>3. e \in Entities /\ n \in Ids /\ DirOf[e] = Dir(w)
  BY <1>a, <1>1, PlaceFacts DEF Dir
<1>4. /\ n \notin ids[e] /\ 1..(n - 1) \subseteq ids[e]
      /\ files[DirOf[e]][n] = req[w].body /\ req[w].method = "POST"
  BY <1>a, <1>1, <1>3 DEF IndexInv, Unregistered, RefInv, Lowest, Written, Serves, PostSection
<1>5. \A f \in Entities : \A i \in Ids :
        storeBar[f][i] = IF i \in ids[f] THEN files[DirOf[f]][i] ELSE NoFile
  BY <1>a, <1>2, StoreIsFiles
<1>6. \A f \in Entities : \A i \in Ids :
        storeBar'[f][i] = IF i \in ids'[f] THEN files[DirOf[f]][i] ELSE NoFile
  <2>1. pc'[w] = "answered" /\ \A v \in Workers \ {w} : pc'[v] = pc[v]
    BY <1>a, <1>1 DEF Finish, Goto, TypeOK
  <2>2. \A v \in Workers : pc'[v] # "put_write"
    BY <1>a, <1>2, <2>1, Alone DEF Exclusive, PutSection
  <2>3. \A v \in Workers : \A f, i : ~PutBy(v, f, i)'
    BY <2>2 DEF PutBy
  <2> QED
    BY <1>a, <1>1, <2>3, StoreContentNext DEF StoreHolds
<1>7. storeBar' = [storeBar EXCEPT ![e][n] = req[w].body]
  <2>1. storeBar'[e][n] = req[w].body
    BY <1>a, <1>1, <1>3, <1>4, <1>6 DEF TypeOK
  <2>2. \A f \in Entities : \A j \in Ids : ~(f = e /\ j = n) => storeBar'[f][j] = storeBar[f][j]
    BY <1>a, <1>1, <1>3, <1>5, <1>6 DEF TypeOK
  <2> HIDE DEF e, n
  <2> QED
    BY <1>3, <2>1, <2>2, StoreChanges
<1>8. n \notin Store!Stored(e) /\ 1..(n - 1) \subseteq Store!Stored(e)
  <2>1. \A i \in ids[e] : files[DirOf[e]][i] # NoFile
    BY <1>a, <1>2, <1>3, WriterSeesFiles
  <2>2. ids[e] \subseteq Ids
    BY <1>a, <1>3 DEF TypeOK
  <2> QED
    BY <1>3, <1>4, <1>5, <2>1, <2>2 DEF Store!Stored
<1>9. /\ stateBar[w] = "pending" /\ stateBar' = [stateBar EXCEPT ![w] = "done"]
      /\ answerBar' = [answerBar EXCEPT ![w] = Reply(200, {n}, NoFile)]
  BY <1>a, <1>1, <1>2, AnswersNow
<1>10. Store!Create(w)
  BY <1>1, <1>3, <1>4, <1>7, <1>8, <1>9 DEF Store!Create, Store!Asks, Store!Done, Store!E, Entity,
     Store!lists
<1> QED
  BY <1>10 DEF Simulated, Store!Next

(* Of two spellings only one can have the id, so what happens to its file  *)
(* concerns no other.                                                      *)
LEMMA OnlySpelling ==
  ASSUME TypeOK, IndexInv, NEW w \in Workers, Entity(w) \in Entities, Indexed(w)
  PROVE  \A e \in Entities : \A i \in ids[e] :
           ~(e = Entity(w) /\ i = Id(w)) => ~(DirOf[e] = Dir(w) /\ i = Id(w))
BY DEF IndexInv, AliasesDisjoint, Indexed, Dir

(* GET, PUT and DELETE of an id that the index does not have answer 404. *)
LEMMA SimMissing ==
  ASSUME Here, NEW w \in Workers, pc[w] \in Pending, pc[w] \notin {"idle", "init_root", "answered"},
         req[w].method \in {"GET", "PUT", "DELETE"}, ~Indexed(w), Fail(w, 404),
         UNCHANGED <<ids, files, req, owed, named, restarts>>
  PROVE  Simulated
<1>a. TypeOK /\ MutexInv /\ MutexInv'
  BY DEF Here, Before
<1>1. storeBar' = storeBar
  <2>1. pc'[w] # "put_write" /\ pc[w] # "put_write" /\ \A v \in Workers \ {w} : pc'[v] = pc[v]
    BY <1>a DEF TypeOK, Fail, Finish, Goto, Pending
  <2> QED
    BY <1>a, <2>1, StoreStays
<1>2. /\ stateBar[w] = "pending" /\ stateBar' = [stateBar EXCEPT ![w] = "done"]
      /\ answerBar' = [answerBar EXCEPT ![w] = Reply(404, {}, NoFile)]
  <2>1. Finish(w, Reply(404, {}, NoFile))
    BY DEF Fail
  <2> QED
    BY <1>a, <2>1, AnswersNow
<1>3. Store!I(w) \notin Store!Stored(Store!E(w))
  BY <1>a, PlaceFacts, NotStored
<1>4. Store!Missing(w)
  BY <1>1, <1>2, <1>3 DEF Store!Missing, Store!Asks, Store!Done, Store!lists
<1> QED
  BY <1>4 DEF Simulated, Store!Next

(* From then on the store holds the body of the PUT. *)
LEMMA PutShows ==
  ASSUME MutexInv', NEW e \in Entities, NEW i \in Ids, i \in ids'[e],
         NEW w \in Workers, pc'[w] = "put_write", Entity(w)' = e, Id(w)' = i
  PROVE  storeBar'[e][i] = req'[w].body
<1>1. PutBy(w, e, i)'
  BY DEF PutBy
<1> QED
  BY <1>1, StoreContentNext DEF StoreHolds

(* A PUT takes effect when it empties the file. *)
LEMMA SimPutOpen ==
  ASSUME Here, NEW w \in Workers, PutOpen(w)
  PROVE  Simulated
<1> DEFINE e == Entity(w)
           n == Id(w)
<1>a. TypeOK /\ MutexInv /\ MutexInv' /\ IndexInv /\ FileInv /\ RefInv
  BY DEF Here, Before
<1>1. /\ pc[w] = "put_open" /\ UNCHANGED <<ids, req, owed, named, restarts>>
      /\ \/ Indexed(w) /\ SetFile(Dir(w), n, Partial) /\ Goto(w, "put_write") /\ UNCHANGED ans
         \/ Fail(w, 500) /\ UNCHANGED files
         \/ ~Indexed(w) /\ Fail(w, 404) /\ UNCHANGED files
  BY DEF PutOpen, At, memory, call
<1>2. /\ pc[w] \in Exclusive \ {"delete_dir", "delete_erase"} /\ pc[w] # "put_write" /\ pc[w] \in Pending
  BY <1>1 DEF Exclusive, PutSection, Pending, Places
<1>3. e \in Entities /\ DirOf[e] = Dir(w) /\ Dir(w) \in Dirs /\ (Indexed(w) => n \in Ids)
  BY <1>a, <1>1, PlaceFacts DEF Dir
<1>4. req[w].method = "PUT"
  BY <1>a, <1>1 DEF FileInv, MethodFits, PutSection
<1>5. CASE Fail(w, 500) /\ UNCHANGED files
  BY <1>1, <1>2, <1>5, SimQuiet
<1>6. CASE ~Indexed(w) /\ Fail(w, 404) /\ UNCHANGED files
  BY <1>1, <1>2, <1>4, <1>6, SimMissing
<1>7. CASE Indexed(w) /\ SetFile(Dir(w), n, Partial) /\ Goto(w, "put_write") /\ UNCHANGED ans
  <2>1. \A f \in Entities : \A i \in Ids :
          storeBar[f][i] = IF i \in ids[f] THEN files[DirOf[f]][i] ELSE NoFile
    BY <1>a, <1>2, StoreIsFiles
  <2>2. pc'[w] = "put_write" /\ \A v \in Workers \ {w} : pc'[v] = pc[v]
    BY <1>a, <1>7 DEF Goto, TypeOK
  <2>3. PutBy(w, e, n)'
    BY <1>1, <2>2 DEF PutBy, Entity, Id
  <2>4. \A v \in Workers : \A f, i : PutBy(v, f, i)' => f = e /\ i = n
    <3>1. \A v \in Workers \ {w} : pc'[v] # "put_write"
      BY <1>a, <1>2, <2>2, Alone DEF Exclusive, PutSection
    <3> QED
      BY <1>1, <3>1 DEF PutBy, Entity, Id
  <2>5. storeBar'[e][n] = req[w].body
    <3>1. n \in ids'[e] /\ n \in Ids /\ pc'[w] = "put_write" /\ Entity(w)' = e /\ Id(w)' = n
      BY <1>1, <1>3, <1>7, <2>2 DEF Indexed, Entity, Id
    <3> HIDE DEF e, n
    <3>2. storeBar'[e][n] = req'[w].body
      BY <1>a, <1>3, <3>1, PutShows
    <3> QED
      BY <1>1, <3>2
  <2>6. ASSUME NEW f \in Entities, NEW j \in Ids, ~(f = e /\ j = n) PROVE storeBar'[f][j] = storeBar[f][j]
    <3>1. storeBar'[f][j] = IF j \in ids[f] THEN files'[DirOf[f]][j] ELSE NoFile
      BY <1>a, <1>1, <2>4, <2>6, StoreContentNext DEF StoreHolds
    <3>2. j \in ids[f] => ~(DirOf[f] = Dir(w) /\ j = n)
      BY <1>a, <1>3, <1>7, <2>6, OnlySpelling
    <3>3. j \in ids[f] => files'[DirOf[f]][j] = files[DirOf[f]][j]
      BY <1>a, <1>3, <1>7, <3>2, SetFileFilesIn, CrudAssumption
    <3> QED
      BY <2>1, <3>1, <3>3
  <2>7. storeBar' = [storeBar EXCEPT ![e][n] = req[w].body]
    <3> HIDE DEF e, n
    <3> QED
      BY <1>3, <1>7, <2>5, <2>6, StoreChanges
  <2>8. n \in Store!Stored(e)
    <3>1. n \in ids[e] /\ files[DirOf[e]][n] # NoFile
      BY <1>a, <1>2, <1>3, <1>7, WriterSeesFiles DEF Indexed
    <3> QED
      BY <1>3, <1>7, <2>1, <3>1 DEF Store!Stored
  <2>9. /\ stateBar[w] = "pending" /\ stateBar' = [stateBar EXCEPT ![w] = "done"]
        /\ answerBar' = [answerBar EXCEPT ![w] = Reply(200, {n}, NoFile)]
    BY <1>a, <1>1, <1>2, <1>7, TakesEffect
  <2>10. Store!Update(w)
    BY <1>1, <1>4, <2>7, <2>8, <2>9 DEF Store!Update, Store!Asks, Store!Done, Store!E, Store!I,
       Entity, Id, Store!lists
  <2> QED
    BY <2>10 DEF Simulated, Store!Next
<1> QED
  BY <1>1, <1>5, <1>6, <1>7

(* The store has held the body since. *)
LEMMA SimPutWrite ==
  ASSUME Here, NEW w \in Workers, PutWrite(w)
  PROVE  Simulated
<1> DEFINE e == Entity(w)
           n == Id(w)
<1>a. TypeOK /\ MutexInv /\ MutexInv' /\ IndexInv /\ RefInv /\ "write" \notin Faults
  BY DEF Here, Before
<1>1. /\ pc[w] = "put_write" /\ UNCHANGED <<ids, req, owed, named, restarts>>
      /\ SetFile(Dir(w), n, req[w].body) /\ Succeed(w, n)
  BY <1>a DEF PutWrite, At, memory, call
<1>2. pc[w] \in Exclusive /\ Indexed(w) /\ TakenEffect(w)
  BY <1>a, <1>1 DEF Exclusive, PutSection, RefInv, Holds, TakenEffect
<1>3. e \in Entities /\ DirOf[e] = Dir(w) /\ Dir(w) \in Dirs /\ n \in Ids
  BY <1>a, <1>1, <1>2, PlaceFacts DEF Dir
<1>4. pc'[w] = "answered" /\ \A v \in Workers \ {w} : pc'[v] = pc[v]
  BY <1>a, <1>1 DEF Succeed, Finish, Goto, TypeOK
<1>5. \A v \in Workers : \A f, i : ~PutBy(v, f, i)' /\ (PutBy(v, f, i) => f = e /\ i = n)
  BY <1>a, <1>2, <1>4, Alone DEF PutBy, Exclusive, PutSection
<1>6. ASSUME NEW f \in Entities, NEW j \in Ids PROVE storeBar'[f][j] = storeBar[f][j]
  <2>1. storeBar'[f][j] = IF j \in ids[f] THEN files'[DirOf[f]][j] ELSE NoFile
    BY <1>a, <1>1, <1>5, StoreContentNext DEF StoreHolds
  <2>2. CASE f = e /\ j = n
    <3>1. PutBy(w, f, j)
      BY <1>1, <2>2 DEF PutBy
    <3>2. storeBar[f][j] = req[w].body
      BY <1>a, <1>2, <2>2, <3>1, StoreContent DEF StoreHolds, Indexed
    <3>3. files'[DirOf[f]][j] = req[w].body
      BY <1>a, <1>1, <1>3, <2>2, SetFileFilesIn
    <3> QED
      BY <1>2, <2>1, <2>2, <3>2, <3>3 DEF Indexed
  <2>3. CASE ~(f = e /\ j = n)
    <3>1. storeBar[f][j] = IF j \in ids[f] THEN files[DirOf[f]][j] ELSE NoFile
      BY <1>a, <1>5, <2>3, StoreContent DEF StoreHolds
    <3>2. j \in ids[f] => ~(DirOf[f] = Dir(w) /\ j = n)
      BY <1>a, <1>2, <1>3, <2>3, OnlySpelling
    <3>3. j \in ids[f] => files'[DirOf[f]][j] = files[DirOf[f]][j]
      BY <1>a, <1>1, <1>3, <3>2, SetFileFilesIn, CrudAssumption
    <3> QED
      BY <2>1, <3>1, <3>3
  <2> QED
    BY <2>2, <2>3
<1>7. storeBar' = storeBar
  BY <1>6, StoreIsFunction, StoreIsFunctionNext
<1> QED
  BY <1>a, <1>1, <1>2, <1>7, AnswersLater, Stutters

(* A DELETE takes effect when the file goes. *)
LEMMA SimDeleteFile ==
  ASSUME Here, NEW w \in Workers, DeleteFile(w)
  PROVE  Simulated
<1> DEFINE e == Entity(w)
           n == Id(w)
<1>a. TypeOK /\ MutexInv /\ MutexInv' /\ IndexInv /\ FileInv /\ RefInv
  BY DEF Here, Before
<1>1. /\ pc[w] = "delete_file" /\ UNCHANGED <<ids, req, named, restarts>>
      /\ \/ /\ Indexed(w) /\ SetFile(Dir(w), n, NoFile) /\ Unlist(Dir(w), n)
            /\ Goto(w, "delete_dir") /\ UNCHANGED ans
         \/ Fail(w, 500) /\ UNCHANGED <<files, owed>>
         \/ ~Indexed(w) /\ Fail(w, 404) /\ UNCHANGED <<files, owed>>
  BY DEF DeleteFile, At, memory, call
<1>2. /\ pc[w] \in Exclusive \ {"delete_dir", "delete_erase"} /\ pc[w] # "put_write" /\ pc[w] \in Pending
  BY <1>1 DEF Exclusive, DeleteSection, Pending, Places
<1>3. e \in Entities /\ DirOf[e] = Dir(w) /\ Dir(w) \in Dirs /\ (Indexed(w) => n \in Ids)
  BY <1>a, <1>1, PlaceFacts DEF Dir
<1>4. req[w].method = "DELETE"
  BY <1>a, <1>1 DEF FileInv, MethodFits, DeleteSection
<1>5. CASE Fail(w, 500) /\ UNCHANGED <<files, owed>>
  BY <1>1, <1>2, <1>5, SimQuiet
<1>6. CASE ~Indexed(w) /\ Fail(w, 404) /\ UNCHANGED <<files, owed>>
  BY <1>1, <1>2, <1>4, <1>6, SimMissing
<1>7. CASE /\ Indexed(w) /\ SetFile(Dir(w), n, NoFile) /\ Unlist(Dir(w), n)
           /\ Goto(w, "delete_dir") /\ UNCHANGED ans
  <2>1. \A f \in Entities : \A i \in Ids :
          storeBar[f][i] = IF i \in ids[f] THEN files[DirOf[f]][i] ELSE NoFile
    BY <1>a, <1>2, StoreIsFiles
  <2>2. pc'[w] = "delete_dir" /\ \A v \in Workers \ {w} : pc'[v] = pc[v]
    BY <1>a, <1>7 DEF Goto, TypeOK
  <2>3. \A v \in Workers : \A f, i : ~PutBy(v, f, i)'
    BY <1>a, <1>2, <2>2, Alone DEF PutBy, Exclusive, PutSection
  <2>4. \A f \in Entities : \A j \in Ids :
          storeBar'[f][j] = IF j \in ids[f] THEN files'[DirOf[f]][j] ELSE NoFile
    BY <1>a, <1>1, <2>3, StoreContentNext DEF StoreHolds
  <2>5. storeBar'[e][n] = NoFile
    BY <1>a, <1>3, <1>7, <2>4, SetFileFilesIn
  <2>6. ASSUME NEW f \in Entities, NEW j \in Ids, ~(f = e /\ j = n) PROVE storeBar'[f][j] = storeBar[f][j]
    <3>1. j \in ids[f] => ~(DirOf[f] = Dir(w) /\ j = n)
      BY <1>a, <1>3, <1>7, <2>6, OnlySpelling
    <3>2. j \in ids[f] => files'[DirOf[f]][j] = files[DirOf[f]][j]
      BY <1>a, <1>3, <1>7, <3>1, SetFileFilesIn, CrudAssumption
    <3> QED
      BY <2>1, <2>4, <3>2
  <2>7. storeBar' = [storeBar EXCEPT ![e][n] = NoFile]
    <3> HIDE DEF e, n
    <3> QED
      BY <1>3, <1>7, <2>5, <2>6, StoreChanges
  <2>8. n \in Store!Stored(e)
    <3>1. n \in ids[e] /\ files[DirOf[e]][n] # NoFile
      BY <1>a, <1>2, <1>3, <1>7, WriterSeesFiles DEF Indexed
    <3> QED
      BY <1>3, <1>7, <2>1, <3>1 DEF Store!Stored
  <2>9. /\ stateBar[w] = "pending" /\ stateBar' = [stateBar EXCEPT ![w] = "done"]
        /\ answerBar' = [answerBar EXCEPT ![w] = Reply(200, {n}, NoFile)]
    BY <1>a, <1>1, <1>2, <1>7, TakesEffect
  <2>10. owed' = [v \in Workers |->
                    IF stateBar[v] = "listing" /\ Store!E(v) \in Store!Spellings(Store!E(w))
                    THEN owed[v] \ {n} ELSE owed[v]]
    <3>1. ASSUME NEW v \in Workers
          PROVE  (pc[v] = "list_next" /\ Dir(v) = Dir(w)) <=>
                   (stateBar[v] = "listing" /\ Store!E(v) \in Store!Spellings(Store!E(w)))
      <4>1. pc[v] = "list_next" <=> stateBar[v] = "listing"
        BY DEF stateBar, TakenEffect
      <4>2. pc[v] = "list_next" => Entity(v) \in Entities
        BY <1>a, PlaceFacts
      <4> QED
        BY <4>1, <4>2 DEF Store!Spellings, Store!E, Dir, Entity
    <3> HIDE DEF n
    <3> QED
      BY <1>7, <3>1, Zenon DEF Unlist
  <2>11. Store!Remove(w)
    BY <1>1, <1>4, <2>7, <2>8, <2>9, <2>10 DEF Store!Remove, Store!Asks, Store!Done, Store!E,
       Store!I, Entity, Id
  <2> QED
    BY <2>11 DEF Simulated, Store!Next
<1> QED
  BY <1>1, <1>5, <1>6, <1>7

(* The directory may go, and the id goes last: the store has forgotten the *)
(* instance already.                                                       *)
LEMMA SimDeleteDir ==
  ASSUME Here, NEW w \in Workers, DeleteDir(w)
  PROVE  Simulated
<1>a. TypeOK /\ MutexInv /\ MutexInv'
  BY DEF Here, Before
<1>1. /\ pc[w] = "delete_dir" /\ UNCHANGED <<ids, files, req, owed, named, restarts, ans>> /\ Goto(w, "delete_erase")
  BY DEF DeleteDir, At, memory, call
<1>2. pc'[w] = "delete_erase" /\ \A v \in Workers \ {w} : pc'[v] = pc[v]
  BY <1>a, <1>1 DEF Goto, TypeOK
<1>3. storeBar' = storeBar
  BY <1>a, <1>1, <1>2, StoreStays
<1>4. TakenEffect(w)
  BY <1>1 DEF TakenEffect
<1> QED
  BY <1>a, <1>1, <1>3, <1>4, AnswersLater, Stutters

(* Erasing the id hides a file that is gone already. *)
LEMMA SimDeleteErase ==
  ASSUME Here, NEW w \in Workers, DeleteErase(w)
  PROVE  Simulated
<1> DEFINE e == Entity(w)
           n == Id(w)
<1>a. TypeOK /\ MutexInv /\ MutexInv' /\ FileInv
  BY DEF Here, Before
<1>1. /\ pc[w] = "delete_erase" /\ UNCHANGED <<files, req, owed, named, restarts>>
      /\ ids' = [ids EXCEPT ![e] = @ \ {n}] /\ Succeed(w, n)
  BY DEF DeleteErase, At, disk, call
<1>2. pc[w] \in Exclusive /\ pc[w] # "put_write" /\ TakenEffect(w)
  BY <1>1 DEF Exclusive, DeleteSection, TakenEffect
<1>3. e \in Entities /\ DirOf[e] = Dir(w) /\ files[Dir(w)][n] = NoFile
  BY <1>a, <1>1, PlaceFacts DEF Dir, FileInv, OwnFile
<1>4. pc'[w] = "answered" /\ \A v \in Workers \ {w} : pc'[v] = pc[v]
  BY <1>a, <1>1 DEF Succeed, Finish, Goto, TypeOK
<1>5. \A v \in Workers : \A f, i : ~PutBy(v, f, i)'
  BY <1>a, <1>2, <1>4, Alone DEF PutBy, Exclusive, PutSection
<1>6. ASSUME NEW f \in Entities, NEW j \in Ids PROVE storeBar'[f][j] = storeBar[f][j]
  <2>1. storeBar'[f][j] = IF j \in ids'[f] THEN files[DirOf[f]][j] ELSE NoFile
    BY <1>a, <1>1, <1>5, StoreContentNext DEF StoreHolds
  <2>2. storeBar[f][j] = IF j \in ids[f] THEN files[DirOf[f]][j] ELSE NoFile
    BY <1>a, <1>2, StoreIsFiles
  <2>3. ids'[f] = IF f = e THEN ids[f] \ {n} ELSE ids[f]
    BY <1>a, <1>1 DEF TypeOK
  <2>4. f = e /\ j = n => files[DirOf[f]][j] = NoFile
    BY <1>3
  <2> HIDE DEF e, n
  <2> QED
    BY <2>1, <2>2, <2>3, <2>4
<1>7. storeBar' = storeBar
  BY <1>6, StoreIsFunction, StoreIsFunctionNext
<1> QED
  BY <1>a, <1>1, <1>2, <1>7, AnswersLater, Stutters

(* A GET that finds the id goes on, one that does not answers 404. *)
LEMMA SimGetLookup ==
  ASSUME Here, NEW w \in Workers, GetLookup(w) \/ GetLock(w)
  PROVE  Simulated
<1>1. /\ pc[w] \in {"get_lookup", "get_lock"} /\ UNCHANGED <<ids, files, req, owed, named, restarts>>
      /\ \/ \E p \in {"get_lock", "get_read"} : Goto(w, p) /\ UNCHANGED ans
         \/ ~Indexed(w) /\ Fail(w, 404)
  BY DEF GetLookup, GetLock, At, memory, disk, call
<1>2. pc[w] \in Pending /\ {"get_lock", "get_read"} \subseteq Pending
  BY <1>1 DEF Pending, Places, Reading, Listing
<1>3. req[w].method = "GET"
  BY <1>1 DEF Here, RefInv, Serves, Reading, Listing
<1>4. CASE \E p \in {"get_lock", "get_read"} : Goto(w, p) /\ UNCHANGED ans
  BY <1>1, <1>2, <1>4, SimQuiet
<1>5. CASE ~Indexed(w) /\ Fail(w, 404)
  BY <1>1, <1>2, <1>3, <1>5, SimMissing
<1> QED
  BY <1>1, <1>4, <1>5

(* The store has what is registered and has a file. *)
LEMMA StoredOnDisk ==
  ASSUME TypeOK, MutexInv, FileInv, NEW e \in Entities, NEW i \in Ids
  PROVE  i \in Store!Stored(e) <=> i \in ids[e] /\ files[DirOf[e]][i] # NoFile
<1>1. StoreHolds
  BY StoreContent
<1>2. CASE i \notin ids[e] \/ \A w \in Workers : ~PutBy(w, e, i)
  BY <1>1, <1>2 DEF StoreHolds, Store!Stored
<1>3. ASSUME i \in ids[e], NEW w \in Workers, PutBy(w, e, i)
      PROVE  i \in Store!Stored(e) /\ files[DirOf[e]][i] # NoFile
  <2>1. files[DirOf[e]][i] = Partial
    BY <1>3 DEF PutBy, FileInv, OwnFile, Dir
  <2>2. storeBar[e][i] = req[w].body
    BY <1>1, <1>3 DEF StoreHolds
  <2>3. req[w].body \in Contents
    BY <1>3 DEF PutBy, TypeOK, RequestFits, PutSection
  <2> QED
    BY <2>1, <2>2, <2>3, CrudAssumption DEF Store!Stored
<1> QED
  BY <1>2, <1>3

(* Under the shared lock a file is what the store holds; the id may have   *)
(* been looked up long ago, but its file is of this life of the process.   *)
LEMMA SimGetRead ==
  ASSUME Here, NEW w \in Workers, GetRead(w)
  PROVE  Simulated
<1> DEFINE n == Id(w)
           content == files[Dir(w)][n]
<1>a. TypeOK /\ MutexInv /\ MutexInv' /\ FileInv /\ RefInv
  BY DEF Here, Before
<1>1. /\ pc[w] = "get_read" /\ UNCHANGED <<ids, files, req, owed, named, restarts>>
      /\ (content # NoFile /\ Finish(w, Reply(200, {n}, content))) \/ Fail(w, 500)
  BY DEF GetRead, At, memory, disk, call
<1>2. pc[w] \in Pending
  BY <1>1 DEF Pending, Places, Reading, Listing
<1>3. CASE Fail(w, 500)
  BY <1>1, <1>2, <1>3, SimQuiet
<1>4. CASE content # NoFile /\ Finish(w, Reply(200, {n}, content))
  <2>1. Entity(w) \in Entities /\ Dir(w) \in Dirs /\ n \in Ids
    BY <1>a, <1>1, PlaceFacts DEF Found
  <2>2. \A v \in Workers : pc[v] \notin Exclusive
    BY <1>a, <1>1, CrudAssumption DEF MutexInv
  <2>3. Registered(Dir(w), n)
    BY <1>a, <1>1, <1>4, <2>2 DEF RefInv, Known, Tame, BeingPosted, Exclusive, PostSection
  <2>4. PICK e \in Entities : DirOf[e] = Dir(w) /\ n \in ids[e]
    BY <2>3 DEF Registered
  <2>5. n \in Store!Stored(e)
    BY <1>a, <1>4, <2>1, <2>4, StoredOnDisk
  <2>6. storeBar[e][n] = content
    <3>1. \A v \in Workers : \A f, i : ~PutBy(v, f, i)
      BY <2>2 DEF PutBy, Exclusive, PutSection
    <3> QED
      BY <1>a, <2>1, <2>4, <3>1, StoreContent DEF StoreHolds
  <2>7. storeBar' = storeBar
    <3>1. pc'[w] # "put_write" /\ pc[w] # "put_write" /\ \A v \in Workers \ {w} : pc'[v] = pc[v]
      BY <1>a, <1>1, <1>4 DEF TypeOK, Finish, Goto
    <3> QED
      BY <1>a, <1>1, <3>1, StoreStays
  <2>8. /\ stateBar[w] = "pending" /\ stateBar' = [stateBar EXCEPT ![w] = "done"]
        /\ answerBar' = [answerBar EXCEPT ![w] = Reply(200, {n}, content)]
    BY <1>a, <1>1, <1>2, <1>4, AnswersNow
  <2>9. req[w].method = "GET"
    BY <1>a, <1>1 DEF RefInv, Serves, Reading, Listing
  <2>10. e \in Store!Spellings(Store!E(w)) /\ Store!I(w) = n
    BY <2>4 DEF Store!Spellings, Store!E, Store!I, Dir, Entity, Id
  <2>11. Store!Read(w)
    BY <1>1, <2>5, <2>6, <2>7, <2>8, <2>9, <2>10 DEF Store!Read, Store!Asks, Store!Done, Store!lists
  <2> QED
    BY <2>11 DEF Simulated, Store!Next
<1> QED
  BY <1>1, <1>3, <1>4

(* A worker that lists changes nothing in the store. *)
LEMMA ListerKeepsStore ==
  ASSUME Here, NEW w \in Workers, pc[w] \in Reading, NEW p \in Reading \cup {"answered"},
         Goto(w, p), UNCHANGED <<ids, files, req>>
  PROVE  storeBar' = storeBar
<1>a. TypeOK /\ MutexInv /\ MutexInv'
  BY DEF Here, Before
<1>1. pc'[w] = p /\ \A v \in Workers \ {w} : pc'[v] = pc[v]
  BY <1>a DEF TypeOK, Goto
<1>2. p # "put_write" /\ pc[w] # "put_write"
  BY DEF Reading, Listing
<1> QED
  BY <1>a, <1>1, <1>2, StoreStays

(* An entity without a key has no instance. *)
LEMMA SimListLookup ==
  ASSUME Here, NEW w \in Workers, ListLookup(w)
  PROVE  Simulated
<1>a. TypeOK /\ MutexInv /\ FileInv /\ RefInv
  BY DEF Here, Before
<1>1. /\ pc[w] = "list_lookup" /\ UNCHANGED <<ids, files, req, owed, named, restarts>>
      /\ \/ Goto(w, "list_check") /\ UNCHANGED ans
         \/ Entity(w) \notin keys /\ Finish(w, Reply(200, {}, NoFile))
  BY DEF ListLookup, At, memory, disk, call
<1>2. pc[w] \in Pending /\ "list_check" \in Pending /\ pc[w] \in Reading
  BY <1>1 DEF Pending, Places, Reading, Listing
<1>3. CASE Goto(w, "list_check") /\ UNCHANGED ans
  BY <1>1, <1>2, <1>3, SimQuiet
<1>4. CASE Entity(w) \notin keys /\ Finish(w, Reply(200, {}, NoFile))
  <2>1. Entity(w) \in Entities /\ ids[Entity(w)] = {}
    BY <1>a, <1>1, <1>4, PlaceFacts DEF RefInv, KeysInv
  <2>2. Store!Stored(Store!E(w)) = {}
    <3>1. \A i \in Ids : i \notin Store!Stored(Entity(w))
      BY <1>a, <2>1, StoredOnDisk
    <3> QED
      BY <3>1 DEF Store!Stored, Store!E, Entity
  <2>3. storeBar' = storeBar
    BY <1>1, <1>2, <1>4, ListerKeepsStore DEF Finish
  <2>4. /\ stateBar[w] = "pending" /\ stateBar' = [stateBar EXCEPT ![w] = "done"]
        /\ answerBar' = [answerBar EXCEPT ![w] = Reply(200, {}, NoFile)]
    BY <1>a, <1>1, <1>2, <1>4, AnswersNow
  <2>5. req[w].method = "GET"
    BY <1>a, <1>2 DEF RefInv, Serves
  <2>6. Store!EmptyList(w)
    BY <1>1, <2>2, <2>3, <2>4, <2>5 DEF Store!EmptyList, Store!Asks, Store!Done, Store!lists
  <2> QED
    BY <2>6 DEF Simulated, Store!Next
<1> QED
  BY <1>1, <1>3, <1>4

(* The test for a directory changes nothing. *)
LEMMA SimListCheck ==
  ASSUME Here, NEW w \in Workers, ListCheck(w)
  PROVE  Simulated
<1>1. /\ pc[w] = "list_check" /\ UNCHANGED <<ids, files, req, owed, named, restarts>>
      /\ (Goto(w, "list_open") /\ UNCHANGED ans) \/ Fail(w, 500)
  BY DEF ListCheck, At, memory, disk, call
<1>2. pc[w] \in Pending /\ "list_open" \in Pending
  BY <1>1 DEF Pending, Places, Reading, Listing
<1> QED
  BY <1>1, <1>2, SimQuiet

(* From the opening of its iterator a list owes the files of its           *)
(* directory, and with them what the store holds of the entity.            *)
LEMMA SimListOpen ==
  ASSUME Here, NEW w \in Workers, ListOpen(w)
  PROVE  Simulated
<1> DEFINE all == FilesIn(Dir(w))
<1>a. TypeOK /\ MutexInv /\ FileInv /\ RefInv
  BY DEF Here, Before
<1>1. /\ pc[w] = "list_open" /\ UNCHANGED <<ids, files, req, named, restarts, ans>>
      /\ \/ Goto(w, "list_next") /\ owed' = [owed EXCEPT ![w] = all]
         \/ UNCHANGED <<pc, owed>>
  BY DEF ListOpen, At, memory, disk
<1>2. pc[w] \in Pending /\ {pc[w], "list_next"} \subseteq Reading
  BY <1>1 DEF Pending, Places, Reading, Listing
<1>3. CASE UNCHANGED <<pc, owed>>
  BY <1>1, <1>2, <1>3, SimQuiet
<1>4. CASE Goto(w, "list_next") /\ owed' = [owed EXCEPT ![w] = all]
  <2>1. Entity(w) \in Entities /\ Dir(w) \in Dirs
    BY <1>a, <1>1, PlaceFacts
  <2>2. Store!Stored(Store!E(w)) \subseteq all /\ all \in SUBSET Ids
    <3>1. Store!Stored(Entity(w)) \subseteq Ids
      BY DEF Store!Stored
    <3>2. \A i \in Store!Stored(Entity(w)) : files[Dir(w)][i] # NoFile
      BY <1>a, <2>1, <3>1, StoredOnDisk DEF Dir
    <3> QED
      BY <3>1, <3>2 DEF FilesIn, Store!E, Entity
  <2>3. storeBar' = storeBar
    BY <1>1, <1>2, <1>4, ListerKeepsStore
  <2>4. pc'[w] = "list_next" /\ \A v \in Workers \ {w} : pc'[v] = pc[v]
    BY <1>a, <1>4 DEF TypeOK, Goto
  <2>5. stateBar[w] = "pending" /\ stateBar' = [stateBar EXCEPT ![w] = "listing"]
    BY <1>1, <2>4 DEF stateBar, TakenEffect
  <2>6. answerBar' = answerBar
    BY <1>1, <2>4 DEF answerBar, TakenEffect, Id
  <2>7. req[w].method = "GET"
    BY <1>a, <1>2 DEF RefInv, Serves
  <2> HIDE DEF all
  <2>8. Store!StartList(w)
    BY <1>1, <1>4, <2>2, <2>3, <2>5, <2>6, <2>7 DEF Store!StartList, Store!Asks
  <2> QED
    BY <2>8 DEF Simulated, Store!Next
<1> QED
  BY <1>1, <1>3, <1>4

(* A file of the directory belongs to a spelling of the entity, or a POST  *)
(* is creating it, or it is left from before a restart.                    *)
LEMMA SimListNext ==
  ASSUME Here, NEW w \in Workers, ListNext(w)
  PROVE  Simulated
<1>a. TypeOK /\ MutexInv /\ FileInv /\ RefInv
  BY DEF Here, Before
<1>1. /\ pc[w] = "list_next" /\ UNCHANGED <<ids, files, pc, req, ans, restarts>>
  BY DEF ListNext, At, memory, disk
<1>2. PICK i \in FilesIn(Dir(w)) \ named[w] :
        /\ named' = [named EXCEPT ![w] = @ \cup {i}]
        /\ owed' = [owed EXCEPT ![w] = @ \ {i}]
  BY DEF ListNext
<1>3. Entity(w) \in Entities /\ Dir(w) \in Dirs /\ i \in Ids \ named[w]
  BY <1>a, <1>1, <1>2, PlaceFacts DEF FilesIn
<1>4. \/ i \in Store!Shared(Store!E(w)) \/ restarts # 0
      \/ \E v \in Workers : Store!Asks(v, "POST") /\ Store!E(v) \in Store!Spellings(Store!E(w))
  <2>1. CASE Registered(Dir(w), i)
    <3>1. PICK e \in Entities : DirOf[e] = Dir(w) /\ i \in ids[e]
      BY <2>1 DEF Registered
    <3>2. i \in Store!Stored(e)
      BY <1>a, <1>2, <3>1, StoredOnDisk DEF FilesIn
    <3>3. e \in Store!Spellings(Store!E(w))
      BY <3>1 DEF Store!Spellings, Store!E, Dir, Entity
    <3> QED
      BY <3>2, <3>3 DEF Store!Shared
  <2>2. CASE BeingPosted(Dir(w), i)
    <3>1. PICK v \in Workers : pc[v] \in {"post_write", "post_insert"} /\ Dir(v) = Dir(w)
      BY <2>2 DEF BeingPosted
    <3>2. stateBar[v] = "pending" /\ req[v].method = "POST"
      BY <1>a, <3>1 DEF stateBar, TakenEffect, RefInv, Serves, PostSection
    <3>3. Entity(v) \in Entities
      BY <1>a, <3>1, PlaceFacts
    <3>4. Store!E(v) \in Store!Spellings(Store!E(w))
      BY <3>1, <3>3 DEF Store!Spellings, Store!E, Dir, Entity
    <3> QED
      BY <3>2, <3>4 DEF Store!Asks
  <2> QED
    BY <1>a, <1>2, <1>3, <2>1, <2>2 DEF FileInv, NoOrphans
<1>5. UNCHANGED <<storeBar, stateBar, answerBar>>
  <2>1. storeBar' = storeBar
    BY <1>1, StoreStays DEF Here, Before
  <2> QED
    BY <1>1, <2>1 DEF stateBar, answerBar, TakenEffect, Id
<1>6. stateBar[w] = "listing"
  BY <1>1 DEF stateBar, TakenEffect
<1>7. Store!Name(w)
  BY <1>1, <1>2, <1>3, <1>4, <1>5, <1>6 DEF Store!Name
<1> QED
  BY <1>7 DEF Simulated, Store!Next

(* The end of the iteration is the end of the list. *)
LEMMA SimListEnd ==
  ASSUME Here, NEW w \in Workers, ListEnd(w)
  PROVE  Simulated
<1>a. TypeOK
  BY DEF Here, Before
<1>1. /\ pc[w] = "list_next" /\ owed[w] = {} /\ named' = [named EXCEPT ![w] = {}]
      /\ UNCHANGED <<ids, files, req, owed, restarts>> /\ Finish(w, Reply(200, named[w], NoFile))
  BY DEF ListEnd, At, memory, disk
<1>2. storeBar' = storeBar
  BY <1>1, ListerKeepsStore DEF Finish, Reading, Listing
<1>3. /\ pc'[w] = "answered" /\ ans'[w] = Reply(200, named[w], NoFile)
      /\ \A v \in Workers \ {w} : pc'[v] = pc[v] /\ ans'[v] = ans[v]
  BY <1>a, <1>1 DEF Finish, Goto, TypeOK
<1>4. stateBar[w] = "listing" /\ stateBar' = [stateBar EXCEPT ![w] = "done"]
  <2>1. pc[w] = "list_next" /\ ~TakenEffect(w) /\ \A v \in Workers \ {w} : TakenEffect(v)' = TakenEffect(v)
    BY <1>1, <1>3 DEF TakenEffect
  <2>2. stateBar[w] = "listing" /\ stateBar'[w] = "done"
    BY <1>3, <2>1 DEF stateBar
  <2>3. \A v \in Workers \ {w} : stateBar'[v] = stateBar[v]
    BY <1>3, <2>1 DEF stateBar
  <2>4. stateBar = [v \in Workers |-> stateBar[v]] /\ stateBar' = [v \in Workers |-> stateBar'[v]]
    BY DEF stateBar
  <2> QED
    BY <2>2, <2>3, <2>4
<1>5. answerBar' = [answerBar EXCEPT ![w] = Reply(200, named[w], NoFile)]
  <2>1. \A v \in Workers \ {w} : TakenEffect(v)' = TakenEffect(v) /\ Id(v)' = Id(v)
    BY <1>1, <1>3 DEF TakenEffect, Id
  <2> QED
    BY <1>3, <2>1, ZenonT(60) DEF answerBar
<1>6. Store!EndList(w)
  BY <1>1, <1>2, <1>4, <1>5 DEF Store!EndList, Store!Done
<1> QED
  BY <1>6 DEF Simulated, Store!Next

(* A step that leaves everything the mapping looks at alone. *)
LEMMA SimNothing ==
  ASSUME Here, UNCHANGED <<ids, files, pc, req, ans, owed, named, restarts>>
  PROVE  Simulated
<1>1. UNCHANGED <<storeBar, stateBar, answerBar>>
  <2>1. storeBar' = storeBar
    BY StoreStays DEF Here, Before
  <2>2. UNCHANGED <<stateBar, answerBar>>
    BY DEF stateBar, answerBar, TakenEffect, Id
  <2> QED
    BY <2>1, <2>2
<1> QED
  BY <1>1, Stutters

(* The store loses what the index loses. *)
LEMMA SimRestart ==
  ASSUME Here, Restart
  PROVE  Simulated
<1>1. /\ ids' = [e \in Entities |-> {}] /\ pc' = [w \in Workers |-> "idle"]
      /\ UNCHANGED req /\ restarts' = restarts + 1
      /\ owed' = [w \in Workers |-> {}] /\ named' = [w \in Workers |-> {}]
  BY DEF Restart
<1>2. storeBar' = [e \in Entities |-> [i \in Ids |-> NoFile]]
  BY <1>1 DEF storeBar
<1>3. stateBar' = [w \in Workers |-> "idle"] /\ answerBar' = [w \in Workers |-> NoAnswer]
  BY <1>1 DEF stateBar, answerBar, TakenEffect
<1>4. (restarts = 0)' = FALSE
  BY <1>1, CrudAssumption DEF Here, Before, TypeOK
<1>5. Store!Lose
  BY <1>1, <1>2, <1>3, <1>4 DEF Store!Lose
<1> QED
  BY <1>5 DEF Simulated, Store!Next

(* Every step is a step of the store or none. *)
LEMMA NextRefines == Here => Simulated
<1> SUFFICES ASSUME Here PROVE Simulated
  OBVIOUS
<1>1. CASE UNCHANGED vars \/ Crash \/ \E w \in Workers : IndexRace(w)
  BY <1>1, SimNothing DEF vars, memory, disk, call, Crash, IndexRace
<1>2. CASE Restart
  BY <1>2, SimRestart
<1>3. ASSUME NEW w \in Workers, Receive(w) PROVE Simulated
  BY <1>3, SimReceive
<1>4. ASSUME NEW w \in Workers, HandleRequest(w) PROVE Simulated
  <2>1. CASE InitRoot(w) \/ LockExclusive(w)
    BY <2>1, SimInitRoot, SimLockExclusive
  <2>2. CASE Post(w)
    BY <2>2, SimPostDir, SimPostOpen, SimPostInsert DEF Post
  <2>3. CASE Put(w)
    BY <2>3, SimPutOpen, SimPutWrite DEF Put
  <2>4. CASE Delete(w)
    BY <2>4, SimDeleteFile, SimDeleteDir, SimDeleteErase DEF Delete
  <2>5. CASE Get(w)
    BY <2>5, SimGetLookup, SimGetRead, SimListLookup, SimListCheck, SimListOpen,
       SimListNext, SimListEnd DEF Get
  <2> QED
    BY <1>4, <2>1, <2>2, <2>3, <2>4, <2>5 DEF HandleRequest
<1> QED
  BY <1>1, <1>2, <1>3, <1>4 DEF Here, Next

(* The store is empty at first. *)
LEMMA InitRefines == Init => Store!Init
<1> SUFFICES ASSUME Init PROVE Store!Init
  OBVIOUS
<1>1. storeBar = [e \in Entities |-> [i \in Ids |-> NoFile]]
  BY DEF Init, storeBar
<1>2. req \in [Workers -> Request]
  BY InitTypeOK DEF TypeOK
<1>3. stateBar = [w \in Workers |-> "idle"] /\ answerBar = [w \in Workers |-> NoAnswer]
  BY DEF Init, stateBar, answerBar, TakenEffect
<1>4. (restarts = 0) = TRUE /\ owed = [w \in Workers |-> {}] /\ named = [w \in Workers |-> {}]
  BY DEF Init
<1> QED
  BY <1>1, <1>2, <1>3, <1>4 DEF Store!Init

-----------------------------------------------------------------------------
(* As long as writes do not fail, the CRUD service is the store: every     *)
(* request for an instance takes effect at one point between its arrival   *)
(* and its answer, with the answer the store gives there; a list names all *)
(* that is there from the opening of its iterator to its end, and only     *)
(* what is there at some point in between; a restart loses everything at   *)
(* once (crud_handler.cc:70-254, crud_filesystem_manager.cc:94-108).       *)
(* MCCrudStore checks the same on small instances.                         *)
THEOREM StoreRefined ==
  ASSUME "write" \notin Faults
  PROVE  Spec => ServesStore
<1>1. Init => RefInv
  BY DEF Init, RefInv, KeysInv, Serves, Lowest, Written, Holds, Known, PostSection, Reading, Listing
<1>2. Before /\ RefInv /\ [Next]_vars => RefInv'
  BY NextRefInv
<1>3. Before /\ RefInv /\ Before' /\ [Next]_vars => [Store!Next]_(Store!vars)
  BY NextRefines DEF Here, Simulated
<1>4. Spec => []Before
  <2>1. Spec => []TypeOK
    BY TypeCorrect
  <2>2. Spec => []MutexInv
    BY MutexCorrect
  <2>3. Spec => []IndexInv
    BY IndexInvariant
  <2>4. Spec => []FileInv
    BY FileInvariant
  <2> QED
    BY <2>1, <2>2, <2>3, <2>4, PTL DEF Before
<1> QED
  BY <1>1, <1>2, <1>3, <1>4, InitRefines, PTL DEF Spec, ServesStore, Store!Spec
=============================================================================
