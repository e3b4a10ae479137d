--------------------------- MODULE CrudStoreProofs ---------------------------
(***************************************************************************)
(* Proofs about CrudStore, for every set of workers, entities, directories *)
(* and bodies and for any number of requests, restarts and file faults.    *)
(***************************************************************************)
EXTENDS CrudStore, FiniteSetTheorems, WellFoundedInduction, TLAPS

-----------------------------------------------------------------------------
(***************************************************************************)
(* GetNextID                                                               *)
(***************************************************************************)

(* A set of naturals has a least element, and Min returns it. *)
LEMMA MinIsLeast ==
  ASSUME NEW S \in SUBSET Nat, S # {}
  PROVE  Min(S) \in S /\ \A y \in S : Min(S) <= y
<1>1. \E x \in S : \A y \in S : ~(<<y, x>> \in OpToRel(<, Nat))
  BY NatLessThanWellFounded, WFMin
<1>2. \A x, y \in Nat : y < x => <<y, x>> \in OpToRel(<, Nat)
  BY DEF OpToRel
<1>3. PICK x \in S : \A y \in S : ~(y < x)
  BY <1>1, <1>2
<1>4. \A y \in S : x <= y
  BY <1>3
<1> QED
  BY <1>4 DEF Min

(* GetNextID returns a number that is not in the set, and every smaller    *)
(* one is: the "lowest available id" of crud_handler.cc:42.                *)
THEOREM NextIDIsLowestFree ==
  ASSUME NEW S \in SUBSET (Nat \ {0}), IsFiniteSet(S)
  PROVE  /\ GetNextID(S) \in Nat \ {0}
         /\ GetNextID(S) \notin S
         /\ 1..(GetNextID(S) - 1) \subseteq S
<1> DEFINE n == Cardinality(S)
           gaps == 1..n \ S
<1>1. n \in Nat
  BY FS_CardinalityType
<1>2. CASE gaps = {}
  <2>1. GetNextID(S) = n + 1 /\ 1..n \subseteq S
    BY <1>2 DEF GetNextID
  <2>2. SUFFICES ASSUME n + 1 \in S PROVE FALSE
    BY <1>1, <2>1
  <2>3. 1..(n + 1) \subseteq S
    BY <1>1, <2>1, <2>2
  <2>4. Cardinality(1..(n + 1)) = n + 1
    BY <1>1, FS_Interval
  <2>5. Cardinality(1..(n + 1)) <= n
    BY <2>3, FS_Subset
  <2> QED
    BY <1>1, <2>4, <2>5
<1>3. CASE gaps # {}
  <2>1. GetNextID(S) = Min(gaps)
    BY <1>3 DEF GetNextID
  <2>2. gaps \in SUBSET Nat
    BY <1>1
  <2>3. Min(gaps) \in gaps /\ \A y \in gaps : Min(gaps) <= y
    BY <1>3, <2>2, MinIsLeast
  <2> HIDE DEF n
  <2> QED
    BY <1>1, <2>1, <2>3
<1> QED
  BY <1>2, <1>3

-----------------------------------------------------------------------------
(***************************************************************************)
(* Type correctness                                                        *)
(***************************************************************************)

(* What a request may be. *)
LEMMA RequestFields ==
  ASSUME NEW r \in Request
  PROVE  /\ r.method \in {"POST", "PUT", "GET", "DELETE", "HEAD"}
         /\ r.target.entity \in Entities \cup {NoEntity}
         /\ r.target.id \in Nat \cup {NoId}
         /\ r.body \in Contents \cup {NoFile}
         /\ r.method \in {"POST", "PUT"} => r.body \in Contents
BY CrudAssumption DEF Request, Target

(* There is a request to start with. *)
LEMMA RequestExists == \E r \in Request : r.method = "GET"
<1>1. PICK t \in Targets : TRUE
  BY CrudAssumption
<1>2. [method |-> "GET", target |-> t, body |-> NoFile] \in Request
  BY DEF Request
<1> QED
  BY <1>2

(* What the handlers respond is an answer.                                 *)
LEMMA ReplyIsAnswer ==
  ASSUME NEW code \in {0, 200, 400, 404, 500}, NEW names \in SUBSET Ids,
         NEW body \in Contents \cup {Partial, NoFile}
  PROVE  Reply(code, names, body) \in Answer
BY DEF Reply, Answer

(* The types hold at the start.                                            *)
LEMMA InitTypeOK == Init => TypeOK
<1> SUFFICES ASSUME Init PROVE TypeOK
  OBVIOUS
<1>1. req \in [Workers -> Request]
  BY RequestExists DEF Init
<1>2. NoAnswer \in Answer
  BY ReplyIsAnswer DEF NoAnswer
<1>3. newId \in [Workers -> Ids] /\ served \in 0..MaxRequests /\ restarts \in 0..MaxRestarts
  BY CrudAssumption DEF Init, Ids
<1>4. files \in [Dirs -> [Ids -> Contents \cup {Partial, NoFile}]] /\ pc \in [Workers -> Places]
  BY DEF Init, Places
<1>5. \A w \in Workers : RequestFits(w)
  BY DEF Init, RequestFits
<1> QED
  BY <1>1, <1>2, <1>3, <1>4, <1>5 DEF Init, TypeOK

(* A worker that moves on within its handler still serves a request that   *)
(* fits its place.                                                         *)
LEMMA MoveFits ==
  ASSUME TypeOK, NEW w \in Workers, NEW p \in Places, req' = req,
         pc' = [pc EXCEPT ![w] = p],
         \/ p = "answered"
         \/ /\ pc[w] \notin {"idle", "init_root", "answered"}
            /\ p \in WithoutId <=> pc[w] \in WithoutId
            /\ p \in PostSection \cup PutSection \cup {"post_lock", "put_lock"} =>
                 pc[w] \in PostSection \cup PutSection \cup {"post_lock", "put_lock"}
            /\ p \in Found => Id(w) \in Ids
  PROVE  pc' \in [Workers -> Places] /\ \A v \in Workers : RequestFits(v)'
<1>1. pc' \in [Workers -> Places] /\ pc'[w] = p
  BY DEF TypeOK
<1>2. RequestFits(w)'
  <2>1. CASE p = "answered"
    BY <1>1, <2>1 DEF RequestFits
  <2>2. CASE p # "answered"
    <3>1. RequestFits(w) /\ pc[w] \notin {"idle", "init_root", "answered"}
      BY <2>2 DEF TypeOK
    <3>2. Entity(w)' = Entity(w) /\ Id(w)' = Id(w) /\ (req[w].body)' = req[w].body
      BY DEF Entity, Id
    <3>3. Entity(w) \in Entities /\ (p \in WithoutId => Id(w) = NoId) /\ (p \notin WithoutId => Id(w) \in 0..MaxId)
      BY <2>2, <3>1 DEF RequestFits
    <3>4. p \in PostSection \cup PutSection \cup {"post_lock", "put_lock"} => req[w].body \in Contents
      BY <2>2, <3>1 DEF RequestFits
    <3>5. p \in Found => Id(w) \in Ids
      BY <2>2
    <3> QED
      BY <1>1, <3>2, <3>3, <3>4, <3>5, Zenon DEF RequestFits
  <2> QED
    BY <2>1, <2>2
<1>3. ASSUME NEW v \in Workers, v # w PROVE RequestFits(v)'
  BY <1>3 DEF TypeOK, RequestFits, Entity, Id
<1> QED
  BY <1>1, <1>2, <1>3

(* The two ways a step moves a worker on: within its handler, or to the    *)
(* end of its request.                                                     *)
LEMMA Moves ==
  ASSUME TypeOK, NEW w \in Workers, NEW p \in Places, req' = req, Goto(w, p),
         pc[w] \notin {"idle", "init_root", "answered"},
         p \in WithoutId <=> pc[w] \in WithoutId,
         p \in PostSection \cup PutSection \cup {"post_lock", "put_lock"} =>
           pc[w] \in PostSection \cup PutSection \cup {"post_lock", "put_lock"},
         p \in Found => Id(w) \in Ids
  PROVE  pc' \in [Workers -> Places] /\ \A v \in Workers : RequestFits(v)'
BY MoveFits DEF Goto

(* A worker that responds keeps the types of its place and its answer.     *)
LEMMA Ends ==
  ASSUME TypeOK, NEW w \in Workers, NEW a \in Answer, req' = req, Finish(w, a)
  PROVE  /\ pc' \in [Workers -> Places] /\ \A v \in Workers : RequestFits(v)'
         /\ ans' \in [Workers -> Answer]
<1>1. pc' = [pc EXCEPT ![w] = "answered"] /\ ans' \in [Workers -> Answer]
  BY DEF TypeOK, Finish, Goto
<1> QED
  BY <1>1, MoveFits DEF Places

(* So does one that responds with an error,                                *)
LEMMA Fails ==
  ASSUME TypeOK, NEW w \in Workers, NEW code \in {400, 404, 500}, req' = req, Fail(w, code)
  PROVE  /\ pc' \in [Workers -> Places] /\ \A v \in Workers : RequestFits(v)'
         /\ ans' \in [Workers -> Answer]
BY ReplyIsAnswer, Ends DEF Fail

(* and one that responds with the id it has dealt with.                    *)
LEMMA Succeeds ==
  ASSUME TypeOK, NEW w \in Workers, NEW i \in Ids, req' = req, Succeed(w, i)
  PROVE  /\ pc' \in [Workers -> Places] /\ \A v \in Workers : RequestFits(v)'
         /\ ans' \in [Workers -> Answer]
BY ReplyIsAnswer, Ends DEF Succeed

(* The parts of a step that change a file or the directories. *)
LEMMA SetFileType ==
  ASSUME TypeOK, NEW d \in Dirs, NEW i \in Ids,
         NEW content \in Contents \cup {Partial, NoFile}, SetFile(d, i, content)
  PROVE  files' \in [Dirs -> [Ids -> Contents \cup {Partial, NoFile}]]
BY DEF TypeOK, SetFile

(* What CreateDir makes, or fails to make, are directories.                *)
LEMMA CreateDirType ==
  ASSUME TypeOK, NEW d \in Dirs, CreateDir(d) \/ CreateDirFails(d)
  PROVE  dirs' \in SUBSET Dirs
BY CrudAssumption DEF TypeOK, CreateDir, CreateDirFails

(* What the place of a worker says of the directory and the id it uses. *)
LEMMA PlaceFacts ==
  ASSUME TypeOK, NEW w \in Workers, pc[w] \notin {"idle", "init_root", "answered"}
  PROVE  /\ Entity(w) \in Entities /\ Dir(w) \in Dirs
         /\ newId[w] \in Ids /\ ids[Entity(w)] \in SUBSET Ids
         /\ pc[w] \notin WithoutId => Id(w) \in 0..MaxId
         /\ pc[w] \in PostSection \cup PutSection => req[w].body \in Contents
         /\ Indexed(w) \/ pc[w] \in Found => Id(w) \in Ids
BY CrudAssumption DEF TypeOK, RequestFits, Entity, Id, Dir, Indexed

(* Every step keeps the types.                                             *)
LEMMA NextTypeOK == TypeOK /\ [Next]_vars => TypeOK'
<1> SUFFICES ASSUME TypeOK, [Next]_vars PROVE TypeOK'
  OBVIOUS
<1> USE DEF memory, disk, mutex, call, At, Unlock, Places, Waiting, Exclusive,
      PostSection, PutSection, DeleteSection, Reading, WithoutId, Listing, Found
<1>1. ASSUME NEW w \in Workers, Receive(w) PROVE TypeOK'
  <2>1. PICK r \in Request : req' = [req EXCEPT ![w] = r]
    BY <1>1 DEF Receive
  <2>2. req' \in [Workers -> Request] /\ served' \in 0..MaxRequests /\ pc' \in [Workers -> Places]
    BY <1>1, <2>1, CrudAssumption DEF TypeOK, Receive, Goto
  <2>3. \A v \in Workers : RequestFits(v)'
    BY <1>1, <2>1 DEF TypeOK, Receive, Goto, RequestFits, Entity, Id
  <2> QED
    BY <1>1, <2>2, <2>3 DEF TypeOK, Receive
<1>2. ASSUME NEW w \in Workers, InitRoot(w) PROVE TypeOK'
  <2>1. CASE Die /\ UNCHANGED <<dirs, pc, ans>>
    BY <1>2, <2>1 DEF TypeOK, InitRoot, Die, RequestFits, Entity, Id
  <2>2. ASSUME NEW code \in {400, 404, 500}, Fail(w, code), dirs' \in SUBSET Dirs, UNCHANGED status
        PROVE  TypeOK'
    BY <1>2, <2>2, Fails DEF TypeOK, InitRoot
  <2>3. CASE Entity(w) # NoEntity /\ Id(w) <= MaxId /\ CreateDir(Root) /\ HandleMethod(w) /\ UNCHANGED status
    <3>1. dirs' \in SUBSET Dirs
      BY <2>3, CreateDirType, CrudAssumption
    <3>2. CASE Fail(w, 400)
      BY <2>2, <2>3, <3>1, <3>2
    <3>3. ASSUME NEW p \in {"post_lock", "put_lock", "delete_lock", "get_lookup", "list_lookup"},
                 Goto(w, p), UNCHANGED ans,
                 p \in WithoutId => Id(w) = NoId, p \notin WithoutId => Id(w) \in 0..MaxId,
                 p \in {"post_lock", "put_lock"} => req[w].method \in {"POST", "PUT"}
          PROVE  TypeOK'
      <4>1. pc' \in [Workers -> Places] /\ pc'[w] = p /\ \A v \in Workers \ {w} : pc'[v] = pc[v]
        BY <3>3 DEF TypeOK, Goto
      <4>2. RequestFits(w)'
        <5>1. Entity(w) \in Entities /\ (req[w].method \in {"POST", "PUT"} => req[w].body \in Contents)
          BY <2>3, RequestFields DEF TypeOK, Entity
        <5> QED
          BY <1>2, <3>3, <4>1, <5>1 DEF InitRoot, RequestFits, Entity, Id
      <4>3. ASSUME NEW v \in Workers, v # w PROVE RequestFits(v)'
        BY <1>2, <4>1, <4>3 DEF TypeOK, InitRoot, RequestFits, Entity, Id
      <4> QED
        BY <1>2, <2>3, <3>1, <3>3, <4>1, <4>2, <4>3 DEF TypeOK, InitRoot
    <3>4. Id(w) # NoId => Id(w) \in 0..MaxId
      BY <2>3, RequestFields, CrudAssumption DEF TypeOK, Id
    <3>5. req[w].method \in {"POST", "PUT", "GET", "DELETE", "HEAD"}
      BY RequestFields DEF TypeOK
    <3> QED
      BY <2>3, <3>2, <3>3, <3>4, <3>5 DEF HandleMethod
  <2>4. ASSUME CreateDirFails(Root) PROVE dirs' \in SUBSET Dirs
    BY <2>4, CreateDirType, CrudAssumption
  <2> QED
    BY <1>2, <2>1, <2>2, <2>3, <2>4 DEF InitRoot, TypeOK
<1>3. ASSUME NEW w \in Workers, LockExclusive(w) PROVE TypeOK'
  <2>1. PICK p \in {"post_dir", "put_open", "delete_file"} :
          /\ Goto(w, p) /\ pc[w] \in Waiting
          /\ (p = "post_dir" <=> pc[w] = "post_lock") /\ (p = "put_open" <=> pc[w] = "put_lock")
    BY <1>3 DEF LockExclusive
  <2>2. pc' \in [Workers -> Places] /\ \A v \in Workers : RequestFits(v)'
    BY <1>3, <2>1, Moves DEF LockExclusive
  <2> QED
    BY <1>3, <2>2 DEF TypeOK, LockExclusive
<1>4. ASSUME NEW w \in Workers, PostDir(w) PROVE TypeOK'
  <2>1. pc[w] = "post_dir" /\ req' = req
    BY <1>4 DEF PostDir
  <2>2. /\ Dir(w) \in Dirs /\ Entity(w) \in Entities /\ newId[w] \in Ids
        /\ Indexed(w) \/ pc[w] \in Found => Id(w) \in Ids
        /\ pc[w] \in PostSection \cup PutSection => req[w].body \in Contents
    BY <2>1, PlaceFacts
  <2>3. dirs' \in SUBSET Dirs
    BY <1>4, <2>1, <2>2, CreateDirType DEF TypeOK, PostDir
  <2>4. newId' \in [Workers -> Ids]
    BY <1>4, <2>1, <2>2, <2>3 DEF TypeOK, PostDir
  <2>5. /\ pc' \in [Workers -> Places] /\ \A v \in Workers : RequestFits(v)'
        /\ ans' \in [Workers -> Answer]
    BY <1>4, <2>1, <2>2, <2>3, <2>4, Moves, Fails DEF TypeOK, PostDir
  <2> QED
    BY <1>4, <2>1, <2>2, <2>3, <2>4, <2>5 DEF TypeOK, PostDir
<1>5. ASSUME NEW w \in Workers, PostOpen(w) PROVE TypeOK'
  <2>1. pc[w] = "post_open" /\ req' = req
    BY <1>5 DEF PostOpen
  <2>2. /\ Dir(w) \in Dirs /\ Entity(w) \in Entities /\ newId[w] \in Ids
        /\ Indexed(w) \/ pc[w] \in Found => Id(w) \in Ids
        /\ pc[w] \in PostSection \cup PutSection => req[w].body \in Contents
    BY <2>1, PlaceFacts
  <2>3. files' \in [Dirs -> [Ids -> Contents \cup {Partial, NoFile}]]
    BY <1>5, <2>1, <2>2, SetFileType DEF TypeOK, PostOpen
  <2>4. /\ pc' \in [Workers -> Places] /\ \A v \in Workers : RequestFits(v)'
        /\ ans' \in [Workers -> Answer]
    <3>1. CASE Goto(w, "post_write") /\ UNCHANGED ans
      BY <2>1, <3>1, Moves DEF TypeOK
    <3>2. CASE Fail(w, 500)
      BY <2>1, <3>2, Fails
    <3> QED
      BY <1>5, <3>1, <3>2 DEF PostOpen
  <2> QED
    BY <1>5, <2>1, <2>2, <2>3, <2>4 DEF TypeOK, PostOpen
<1>6. ASSUME NEW w \in Workers, PostWrite(w) PROVE TypeOK'
  <2>1. pc[w] = "post_write" /\ req' = req
    BY <1>6 DEF PostWrite
  <2>2. /\ Dir(w) \in Dirs /\ Entity(w) \in Entities /\ newId[w] \in Ids
        /\ Indexed(w) \/ pc[w] \in Found => Id(w) \in Ids
        /\ pc[w] \in PostSection \cup PutSection => req[w].body \in Contents
    BY <2>1, PlaceFacts
  <2>3. files' \in [Dirs -> [Ids -> Contents \cup {Partial, NoFile}]]
    BY <1>6, <2>1, <2>2, SetFileType DEF TypeOK, PostWrite
  <2>4. /\ pc' \in [Workers -> Places] /\ \A v \in Workers : RequestFits(v)'
        /\ ans' \in [Workers -> Answer]
    BY <1>6, <2>1, <2>2, <2>3, Moves DEF TypeOK, PostWrite
  <2> QED
    BY <1>6, <2>1, <2>2, <2>3, <2>4 DEF TypeOK, PostWrite
<1>7. ASSUME NEW w \in Workers, PostInsert(w) PROVE TypeOK'
  <2>1. pc[w] = "post_insert" /\ req' = req
    BY <1>7 DEF PostInsert
  <2>2. /\ Dir(w) \in Dirs /\ Entity(w) \in Entities /\ newId[w] \in Ids
        /\ Indexed(w) \/ pc[w] \in Found => Id(w) \in Ids
        /\ pc[w] \in PostSection \cup PutSection => req[w].body \in Contents
    BY <2>1, PlaceFacts
  <2>3. /\ pc' \in [Workers -> Places] /\ \A v \in Workers : RequestFits(v)'
        /\ ans' \in [Workers -> Answer]
    BY <1>7, <2>1, <2>2, Succeeds DEF TypeOK, PostInsert
  <2> QED
    BY <1>7, <2>1, <2>2, <2>3 DEF TypeOK, PostInsert
<1>8. ASSUME NEW w \in Workers, PutOpen(w) PROVE TypeOK'
  <2>1. pc[w] = "put_open" /\ req' = req
    BY <1>8 DEF PutOpen
  <2>2. /\ Dir(w) \in Dirs /\ Entity(w) \in Entities /\ newId[w] \in Ids
        /\ Indexed(w) \/ pc[w] \in Found => Id(w) \in Ids
        /\ pc[w] \in PostSection \cup PutSection => req[w].body \in Contents
    BY <2>1, PlaceFacts
  <2>3. files' \in [Dirs -> [Ids -> Contents \cup {Partial, NoFile}]]
    BY <1>8, <2>1, <2>2, SetFileType DEF TypeOK, PutOpen
  <2>4. /\ pc' \in [Workers -> Places] /\ \A v \in Workers : RequestFits(v)'
        /\ ans' \in [Workers -> Answer]
    <3>1. CASE Indexed(w) /\ Goto(w, "put_write") /\ UNCHANGED ans
      BY <2>1, <2>2, <3>1, Moves DEF TypeOK
    <3>2. CASE \E code \in {404, 500} : Fail(w, code)
      BY <2>1, <3>2, Fails
    <3> QED
      BY <1>8, <3>1, <3>2 DEF PutOpen
  <2> QED
    BY <1>8, <2>1, <2>2, <2>3, <2>4 DEF TypeOK, PutOpen
<1>9. ASSUME NEW w \in Workers, PutWrite(w) PROVE TypeOK'
  <2>1. pc[w] = "put_write" /\ req' = req
    BY <1>9 DEF PutWrite
  <2>2. /\ Dir(w) \in Dirs /\ Entity(w) \in Entities /\ newId[w] \in Ids
        /\ Indexed(w) \/ pc[w] \in Found => Id(w) \in Ids
        /\ pc[w] \in PostSection \cup PutSection => req[w].body \in Contents
    BY <2>1, PlaceFacts
  <2>3. files' \in [Dirs -> [Ids -> Contents \cup {Partial, NoFile}]]
    BY <1>9, <2>1, <2>2, SetFileType DEF TypeOK, PutWrite
  <2>4. /\ pc' \in [Workers -> Places] /\ \A v \in Workers : RequestFits(v)'
        /\ ans' \in [Workers -> Answer]
    BY <1>9, <2>1, <2>2, <2>3, Succeeds DEF TypeOK, PutWrite
  <2> QED
    BY <1>9, <2>1, <2>2, <2>3, <2>4 DEF TypeOK, PutWrite
<1>10. ASSUME NEW w \in Workers, DeleteFile(w) PROVE TypeOK'
  <2>1. pc[w] = "delete_file" /\ req' = req
    BY <1>10 DEF DeleteFile
  <2>2. /\ Dir(w) \in Dirs /\ Entity(w) \in Entities /\ newId[w] \in Ids
        /\ Indexed(w) \/ pc[w] \in Found => Id(w) \in Ids
        /\ pc[w] \in PostSection \cup PutSection => req[w].body \in Contents
    BY <2>1, PlaceFacts
  <2>3. files' \in [Dirs -> [Ids -> Contents \cup {Partial, NoFile}]]
    BY <1>10, <2>1, <2>2, SetFileType DEF TypeOK, DeleteFile
  <2>4. /\ pc' \in [Workers -> Places] /\ \A v \in Workers : RequestFits(v)'
        /\ ans' \in [Workers -> Answer]
    BY <1>10, <2>1, <2>2, <2>3, Moves, Fails DEF TypeOK, DeleteFile
  <2>5. owed' \in [Workers -> SUBSET Ids]
    BY <1>10 DEF TypeOK, DeleteFile, Unlist
  <2> QED
    BY <1>10, <2>1, <2>2, <2>3, <2>4, <2>5 DEF TypeOK, DeleteFile
<1>11. ASSUME NEW w \in Workers, DeleteDir(w) PROVE TypeOK'
  <2>1. pc[w] = "delete_dir" /\ req' = req
    BY <1>11 DEF DeleteDir
  <2>2. /\ Dir(w) \in Dirs /\ Entity(w) \in Entities /\ newId[w] \in Ids
        /\ Indexed(w) \/ pc[w] \in Found => Id(w) \in Ids
        /\ pc[w] \in PostSection \cup PutSection => req[w].body \in Contents
    BY <2>1, PlaceFacts
  <2>3. /\ pc' \in [Workers -> Places] /\ \A v \in Workers : RequestFits(v)'
        /\ ans' \in [Workers -> Answer]
    BY <1>11, <2>1, <2>2, Moves DEF TypeOK, DeleteDir
  <2> QED
    BY <1>11, <2>1, <2>2, <2>3 DEF TypeOK, DeleteDir
<1>12. ASSUME NEW w \in Workers, DeleteErase(w) PROVE TypeOK'
  <2>1. pc[w] = "delete_erase" /\ req' = req
    BY <1>12 DEF DeleteErase
  <2>2. /\ Dir(w) \in Dirs /\ Entity(w) \in Entities /\ newId[w] \in Ids
        /\ Indexed(w) \/ pc[w] \in Found => Id(w) \in Ids
        /\ pc[w] \in PostSection \cup PutSection => req[w].body \in Contents
    BY <2>1, PlaceFacts
  <2>3. /\ pc' \in [Workers -> Places] /\ \A v \in Workers : RequestFits(v)'
        /\ ans' \in [Workers -> Answer]
    BY <1>12, <2>1, <2>2, Succeeds DEF TypeOK, DeleteErase
  <2> QED
    BY <1>12, <2>1, <2>2, <2>3 DEF TypeOK, DeleteErase
<1>13. ASSUME NEW w \in Workers, GetLookup(w) PROVE TypeOK'
  <2>1. pc[w] = "get_lookup" /\ req' = req
    BY <1>13 DEF GetLookup
  <2>2. /\ Dir(w) \in Dirs /\ Entity(w) \in Entities /\ newId[w] \in Ids
        /\ Indexed(w) \/ pc[w] \in Found => Id(w) \in Ids
        /\ pc[w] \in PostSection \cup PutSection => req[w].body \in Contents
    BY <2>1, PlaceFacts
  <2>3. /\ pc' \in [Workers -> Places] /\ \A v \in Workers : RequestFits(v)'
        /\ ans' \in [Workers -> Answer]
    BY <1>13, <2>1, <2>2, Moves, Fails DEF TypeOK, GetLookup
  <2> QED
    BY <1>13, <2>1, <2>2, <2>3 DEF TypeOK, GetLookup
<1>14. ASSUME NEW w \in Workers, GetLock(w) PROVE TypeOK'
  <2>1. pc[w] = "get_lock" /\ req' = req
    BY <1>14 DEF GetLock
  <2>2. /\ Dir(w) \in Dirs /\ Entity(w) \in Entities /\ newId[w] \in Ids
        /\ Indexed(w) \/ pc[w] \in Found => Id(w) \in Ids
        /\ pc[w] \in PostSection \cup PutSection => req[w].body \in Contents
    BY <2>1, PlaceFacts
  <2>3. /\ pc' \in [Workers -> Places] /\ \A v \in Workers : RequestFits(v)'
        /\ ans' \in [Workers -> Answer]
    BY <1>14, <2>1, <2>2, Moves DEF TypeOK, GetLock
  <2> QED
    BY <1>14, <2>1, <2>2, <2>3 DEF TypeOK, GetLock
<1>15. ASSUME NEW w \in Workers, GetRead(w) PROVE TypeOK'
  <2>1. pc[w] = "get_read" /\ req' = req
    BY <1>15 DEF GetRead
  <2>2. /\ Dir(w) \in Dirs /\ Entity(w) \in Entities /\ newId[w] \in Ids
        /\ Indexed(w) \/ pc[w] \in Found => Id(w) \in Ids
        /\ pc[w] \in PostSection \cup PutSection => req[w].body \in Contents
    BY <2>1, PlaceFacts
  <2>3. /\ pc' \in [Workers -> Places] /\ \A v \in Workers : RequestFits(v)'
        /\ ans' \in [Workers -> Answer]
    BY <1>15, <2>1, <2>2, Ends, Fails, ReplyIsAnswer DEF TypeOK, GetRead
  <2> QED
    BY <1>15, <2>1, <2>2, <2>3 DEF TypeOK, GetRead
<1>16. ASSUME NEW w \in Workers, ListLookup(w) PROVE TypeOK'
  <2>1. pc[w] = "list_lookup" /\ req' = req
    BY <1>16 DEF ListLookup
  <2>2. /\ Dir(w) \in Dirs /\ Entity(w) \in Entities /\ newId[w] \in Ids
        /\ Indexed(w) \/ pc[w] \in Found => Id(w) \in Ids
        /\ pc[w] \in PostSection \cup PutSection => req[w].body \in Contents
    BY <2>1, PlaceFacts
  <2>3. /\ pc' \in [Workers -> Places] /\ \A v \in Workers : RequestFits(v)'
        /\ ans' \in [Workers -> Answer]
    BY <1>16, <2>1, <2>2, Moves, Ends, ReplyIsAnswer DEF TypeOK, ListLookup
  <2> QED
    BY <1>16, <2>1, <2>2, <2>3 DEF TypeOK, ListLookup
<1>17. ASSUME NEW w \in Workers, ListCheck(w) PROVE TypeOK'
  <2>1. pc[w] = "list_check" /\ req' = req
    BY <1>17 DEF ListCheck
  <2>2. /\ Dir(w) \in Dirs /\ Entity(w) \in Entities /\ newId[w] \in Ids
        /\ Indexed(w) \/ pc[w] \in Found => Id(w) \in Ids
        /\ pc[w] \in PostSection \cup PutSection => req[w].body \in Contents
    BY <2>1, PlaceFacts
  <2>3. /\ pc' \in [Workers -> Places] /\ \A v \in Workers : RequestFits(v)'
        /\ ans' \in [Workers -> Answer]
    BY <1>17, <2>1, <2>2, Moves, Fails DEF TypeOK, ListCheck
  <2> QED
    BY <1>17, <2>1, <2>2, <2>3 DEF TypeOK, ListCheck
<1>18. ASSUME NEW w \in Workers, ListOpen(w) PROVE TypeOK'
  <2>1. pc[w] = "list_open" /\ req' = req
    BY <1>18 DEF ListOpen
  <2>2. /\ Dir(w) \in Dirs /\ Entity(w) \in Entities /\ newId[w] \in Ids
        /\ Indexed(w) \/ pc[w] \in Found => Id(w) \in Ids
        /\ pc[w] \in PostSection \cup PutSection => req[w].body \in Contents
    BY <2>1, PlaceFacts
  <2>3. FilesIn(Dir(w)) \in SUBSET Ids
    BY <1>18, <2>1, <2>2 DEF TypeOK, ListOpen, FilesIn
  <2>4. /\ pc' \in [Workers -> Places] /\ \A v \in Workers : RequestFits(v)'
        /\ ans' \in [Workers -> Answer]
    BY <1>18, <2>1, <2>2, <2>3, Moves DEF TypeOK, ListOpen, Die, RequestFits, Entity, Id
  <2> QED
    BY <1>18, <2>1, <2>2, <2>3, <2>4 DEF TypeOK, ListOpen, Die
<1>18a. ASSUME NEW w \in Workers, ListNext(w) PROVE TypeOK'
  <2>1. PICK i \in Ids : /\ named' = [named EXCEPT ![w] = @ \cup {i}]
                         /\ owed' = [owed EXCEPT ![w] = @ \ {i}]
    BY <1>18a DEF ListNext, FilesIn
  <2>2. named' \in [Workers -> SUBSET Ids] /\ owed' \in [Workers -> SUBSET Ids]
    BY <2>1 DEF TypeOK
  <2> QED
    BY <1>18a, <2>2 DEF TypeOK, ListNext, RequestFits, Entity, Id
<1>18b. ASSUME NEW w \in Workers, ListEnd(w) PROVE TypeOK'
  <2>1. named' \in [Workers -> SUBSET Ids] /\ req' = req
    BY <1>18b DEF TypeOK, ListEnd
  <2>2. Reply(200, named[w], NoFile) \in Answer
    BY ReplyIsAnswer DEF TypeOK
  <2>3. /\ pc' \in [Workers -> Places] /\ \A v \in Workers : RequestFits(v)'
        /\ ans' \in [Workers -> Answer]
    BY <1>18b, <2>1, <2>2, Ends DEF ListEnd
  <2> QED
    BY <1>18b, <2>1, <2>3 DEF TypeOK, ListEnd
<1>19. ASSUME NEW w \in Workers, IndexRace(w) PROVE TypeOK'
  BY <1>19 DEF TypeOK, IndexRace, RequestFits, Entity, Id
<1>20. CASE Crash
  BY <1>20 DEF TypeOK, Crash, RequestFits, Entity, Id
<1>21. CASE Restart
  <2>1. NoAnswer \in Answer
    BY ReplyIsAnswer DEF NoAnswer
  <2> QED
    BY <1>21, <2>1, CrudAssumption DEF TypeOK, Restart, RequestFits, Entity, Id
<1>22. CASE UNCHANGED vars
  BY <1>22 DEF TypeOK, vars, RequestFits, Entity, Id
<1> QED
  BY <1>1, <1>2, <1>3, <1>4, <1>5, <1>6, <1>7, <1>8, <1>9, <1>10, <1>11, <1>12, <1>13, <1>14,
     <1>15, <1>16, <1>17, <1>18, <1>18a, <1>18b, <1>19, <1>20, <1>21, <1>22 DEF Next,
     HandleRequest, Post, Put, Delete, Get

(* Every variable keeps its type, and every worker past the early returns  *)
(* of its handler serves a request that fits it (crud_handler.cc:74, 115,  *)
(* 157, 284).                                                              *)
THEOREM TypeCorrect == Spec => []TypeOK
<1> QED
  BY InitTypeOK, NextTypeOK, PTL DEF Spec

-----------------------------------------------------------------------------
(***************************************************************************)
(* filesystem_mutex                                                        *)
(***************************************************************************)
LEMMA NextMutexInv == TypeOK /\ MutexInv /\ [Next]_vars => MutexInv'
<1> SUFFICES ASSUME TypeOK, MutexInv, [Next]_vars PROVE MutexInv'
  OBVIOUS
<1> USE CrudAssumption DEF mutex, At, Goto, Finish, Fail, Succeed, Unlock, Waiting, Exclusive,
      PostSection, PutSection, DeleteSection
<1>1. ASSUME NEW w \in Workers, Receive(w) PROVE MutexInv'
  BY <1>1 DEF TypeOK, MutexInv, Receive
<1>2. ASSUME NEW w \in Workers, InitRoot(w) PROVE MutexInv'
  <2>1. UNCHANGED mutex /\ pc[w] = "init_root"
    BY <1>2 DEF InitRoot
  <2>2. \/ pc' = pc
        \/ \E p \in {"answered", "post_lock", "put_lock", "delete_lock", "get_lookup", "list_lookup"} :
             pc' = [pc EXCEPT ![w] = p]
    <3>1. req[w].method \in {"POST", "PUT", "GET", "DELETE", "HEAD"}
      BY RequestFields DEF TypeOK
    <3>2. HandleMethod(w) =>
            \E p \in {"answered", "post_lock", "put_lock", "delete_lock", "get_lookup", "list_lookup"} :
              pc' = [pc EXCEPT ![w] = p]
      BY <3>1 DEF HandleMethod
    <3> QED
      BY <1>2, <3>2 DEF InitRoot
  <2> QED
    BY <2>1, <2>2 DEF TypeOK, MutexInv
<1>3. ASSUME NEW w \in Workers, LockExclusive(w) PROVE MutexInv'
  BY <1>3 DEF TypeOK, MutexInv, LockExclusive
<1>4. ASSUME NEW w \in Workers, PostDir(w) PROVE MutexInv'
  BY <1>4 DEF TypeOK, MutexInv, PostDir
<1>5. ASSUME NEW w \in Workers, PostOpen(w) PROVE MutexInv'
  BY <1>5 DEF TypeOK, MutexInv, PostOpen
<1>6. ASSUME NEW w \in Workers, PostWrite(w) PROVE MutexInv'
  BY <1>6 DEF TypeOK, MutexInv, PostWrite
<1>7. ASSUME NEW w \in Workers, PostInsert(w) PROVE MutexInv'
  BY <1>7 DEF TypeOK, MutexInv, PostInsert
<1>8. ASSUME NEW w \in Workers, PutOpen(w) PROVE MutexInv'
  BY <1>8 DEF TypeOK, MutexInv, PutOpen
<1>9. ASSUME NEW w \in Workers, PutWrite(w) PROVE MutexInv'
  BY <1>9 DEF TypeOK, MutexInv, PutWrite
<1>10. ASSUME NEW w \in Workers, DeleteFile(w) PROVE MutexInv'
  BY <1>10 DEF TypeOK, MutexInv, DeleteFile
<1>11. ASSUME NEW w \in Workers, DeleteDir(w) PROVE MutexInv'
  BY <1>11 DEF TypeOK, MutexInv, DeleteDir
<1>12. ASSUME NEW w \in Workers, DeleteErase(w) PROVE MutexInv'
  BY <1>12 DEF TypeOK, MutexInv, DeleteErase
<1>13. ASSUME NEW w \in Workers, GetLookup(w) PROVE MutexInv'
  BY <1>13, SMTT(60) DEF TypeOK, MutexInv, GetLookup
<1>14. ASSUME NEW w \in Workers, GetLock(w) PROVE MutexInv'
  BY <1>14 DEF TypeOK, MutexInv, GetLock
<1>15. ASSUME NEW w \in Workers, GetRead(w) PROVE MutexInv'
  BY <1>15 DEF TypeOK, MutexInv, GetRead
<1>16. ASSUME NEW w \in Workers, ListLookup(w) PROVE MutexInv'
  <2>1. \E p \in {"list_check", "list_open", "answered"} : pc' = [pc EXCEPT ![w] = p]
    BY <1>16 DEF ListLookup
  <2>2. UNCHANGED mutex /\ pc[w] \in {"list_lookup", "list_check"}
    BY <1>16 DEF ListLookup
  <2> QED
    BY <2>1, <2>2 DEF TypeOK, MutexInv
<1>17. ASSUME NEW w \in Workers, ListCheck(w) PROVE MutexInv'
  <2>1. \E p \in {"list_check", "list_open", "answered"} : pc' = [pc EXCEPT ![w] = p]
    BY <1>17 DEF ListCheck
  <2>2. UNCHANGED mutex /\ pc[w] \in {"list_lookup", "list_check"}
    BY <1>17 DEF ListCheck
  <2> QED
    BY <2>1, <2>2 DEF TypeOK, MutexInv
<1>18. ASSUME NEW w \in Workers, ListOpen(w) PROVE MutexInv'
  BY <1>18 DEF TypeOK, MutexInv, ListOpen
<1>18a. ASSUME NEW w \in Workers, ListNext(w) PROVE MutexInv'
  BY <1>18a DEF MutexInv, ListNext
<1>18b. ASSUME NEW w \in Workers, ListEnd(w) PROVE MutexInv'
  BY <1>18b DEF TypeOK, MutexInv, ListEnd
<1>19. ASSUME NEW w \in Workers, IndexRace(w) PROVE MutexInv'
  BY <1>19 DEF TypeOK, MutexInv, IndexRace
<1>20. CASE Crash
  BY <1>20 DEF MutexInv, Crash
<1>21. CASE Restart
  BY <1>21 DEF MutexInv, Restart
<1>22. CASE UNCHANGED vars
  BY <1>22 DEF MutexInv, vars
<1> QED
  BY <1>1, <1>2, <1>3, <1>4, <1>5, <1>6, <1>7, <1>8, <1>9, <1>10, <1>11, <1>12, <1>13, <1>14,
     <1>15, <1>16, <1>17, <1>18, <1>18a, <1>18b, <1>19, <1>20, <1>21, <1>22 DEF Next,
     HandleRequest, Post, Put, Delete, Get

(* filesystem_mutex admits one writer or any number of readers, and every  *)
(* way out of a handler releases it (crud_handler.cc:80, 123, 165, 215).   *)
THEOREM MutexCorrect == Spec => []MutexInv
<1>1. Init => MutexInv
  BY CrudAssumption DEF Init, MutexInv, Exclusive, PostSection, PutSection, DeleteSection
<1> QED
  BY <1>1, NextMutexInv, TypeCorrect, PTL DEF Spec

-----------------------------------------------------------------------------
(***************************************************************************)
(* Index and disk                                                          *)
(***************************************************************************)

(* Between the open and the insert of a POST, its file exists and no       *)
(* spelling of its directory has the id: what makes the two invariants     *)
(* below inductive.                                                        *)
Unregistered(w) ==
  pc[w] \in {"post_write", "post_insert"} =>
    /\ files[Dir(w)][newId[w]] # NoFile
    /\ \A e \in Entities : DirOf[e] = Dir(w) => newId[w] \notin ids[e]

IndexInv == IndexOnDisk /\ AliasesDisjoint /\ \A w \in Workers : Unregistered(w)

(* A worker inside a writing section is the only one there. *)
LEMMA Alone ==
  ASSUME MutexInv, NEW w \in Workers, NEW v \in Workers, pc[w] \in Exclusive, pc[v] \in Exclusive
  PROVE  v = w
BY DEF MutexInv

(* A step that leaves index, files and the writer's place alone keeps the  *)
(* invariant.                                                              *)
LEMMA OutsideSections ==
  ASSUME TypeOK, MutexInv, IndexInv, NEW w \in Workers,
         UNCHANGED <<ids, files, newId, owner>>,
         \A v \in Workers \ {w} : pc'[v] = pc[v] /\ req'[v] = req[v],
         pc[w] \notin Exclusive, pc'[w] \notin Exclusive
  PROVE  IndexInv'
<1> USE DEF Exclusive, PostSection, PutSection, DeleteSection
<1>1. owner # w
  BY DEF MutexInv
<1>2. owner # Nobody => pc'[owner] = pc[owner] /\ req'[owner] = req[owner]
  BY <1>1 DEF TypeOK
<1>3. IndexOnDisk'
  BY <1>2 DEF IndexInv, IndexOnDisk, Entity, Id
<1>4. AliasesDisjoint'
  BY DEF IndexInv, AliasesDisjoint
<1>5. \A v \in Workers : Unregistered(v)'
  BY DEF IndexInv, Unregistered, Dir, Entity
<1> QED
  BY <1>3, <1>4, <1>5 DEF IndexInv

(* The writer sees an index whose ids all have their files, unless it has  *)
(* just removed one; writing a file cannot change that.                    *)
LEMMA WriterSeesFiles ==
  ASSUME TypeOK, MutexInv, IndexInv, NEW w \in Workers,
         pc[w] \in Exclusive \ {"delete_dir", "delete_erase"}
  PROVE  \A e \in Entities : \A i \in ids[e] : files[DirOf[e]][i] # NoFile
BY DEF MutexInv, IndexInv, IndexOnDisk

(* Opening or writing a file takes no registered file away.                *)
LEMMA WriteKeepsFiles ==
  ASSUME TypeOK, MutexInv, IndexInv, NEW w \in Workers,
         pc[w] \in Exclusive \ {"delete_dir", "delete_erase"},
         NEW d \in Dirs, NEW i \in Ids, NEW content, content # NoFile,
         SetFile(d, i, content) \/ UNCHANGED files, ids' = ids
  PROVE  IndexOnDisk'
<1>1. \A e \in Entities : \A j \in ids[e] : files[DirOf[e]][j] # NoFile
  BY WriterSeesFiles
<1>2. \A e \in Entities : DirOf[e] \in Dirs /\ ids[e] \subseteq Ids
  BY CrudAssumption DEF TypeOK
<1>3. \A c \in Dirs : \A j \in Ids :
        files'[c][j] = files[c][j] \/ (c = d /\ j = i /\ files'[c][j] = content)
  BY DEF TypeOK, SetFile
<1>4. \A e \in Entities : \A j \in ids[e] : files'[DirOf[e]][j] # NoFile
  BY <1>1, <1>2, <1>3
<1> QED
  BY <1>4 DEF IndexOnDisk

(* While w writes, no other worker is between the open and the insert of   *)
(* a POST.                                                                 *)
LEMMA OthersUnregistered ==
  ASSUME MutexInv, NEW w \in Workers, pc[w] \in Exclusive,
         \A v \in Workers \ {w} : pc'[v] = pc[v], Unregistered(w)'
  PROVE  \A v \in Workers : Unregistered(v)'
<1>1. ASSUME NEW v \in Workers, v # w PROVE Unregistered(v)'
  BY <1>1, Alone DEF Unregistered, Exclusive, PostSection
<1> QED
  BY <1>1

(* Every step keeps the index and the files together.                      *)
LEMMA NextIndexInv == TypeOK /\ MutexInv /\ IndexInv /\ [Next]_vars => IndexInv'
<1> SUFFICES ASSUME TypeOK, MutexInv, IndexInv, [Next]_vars PROVE IndexInv'
  OBVIOUS
<1> USE DEF memory, disk, mutex, call, At, Goto, Finish, Fail, Succeed, Unlock
<1> DEFINE outside == {"idle", "init_root", "answered", "post_lock", "put_lock", "delete_lock",
                       "get_lookup", "get_lock", "get_read", "list_lookup", "list_check", "list_open",
                       "list_next"}
<1>a. outside \cap Exclusive = {}
  BY DEF Exclusive, PostSection, PutSection, DeleteSection
<1>1. ASSUME NEW w \in Workers, Receive(w) PROVE IndexInv'
  <2>1. pc[w] \in outside /\ pc'[w] \in outside /\ UNCHANGED <<ids, files, newId, owner>>
          /\ \A v \in Workers \ {w} : pc'[v] = pc[v] /\ req'[v] = req[v]
    BY <1>1 DEF TypeOK, Receive
  <2> QED
    BY <2>1, <1>a, OutsideSections
<1>2. ASSUME NEW w \in Workers, InitRoot(w) PROVE IndexInv'
  <2>1. pc[w] = "init_root" /\ UNCHANGED <<ids, files, newId, owner, req>>
    BY <1>2 DEF InitRoot
  <2>2. req[w].method \in {"POST", "PUT", "GET", "DELETE", "HEAD"}
    BY RequestFields DEF TypeOK
  <2>3. HandleMethod(w) => \E p \in outside : pc' = [pc EXCEPT ![w] = p]
    BY <2>2 DEF HandleMethod
  <2>4. pc' = pc \/ \E p \in outside : pc' = [pc EXCEPT ![w] = p]
    BY <1>2, <2>3 DEF InitRoot
  <2>5. pc[w] \notin Exclusive /\ pc'[w] \notin Exclusive /\ \A v \in Workers \ {w} : pc'[v] = pc[v]
    BY <2>1, <2>4, <1>a DEF TypeOK
  <2> QED
    BY <2>1, <2>5, OutsideSections
<1>3. ASSUME NEW w \in Workers, GetLookup(w) PROVE IndexInv'
  <2>1. pc[w] \in outside /\ pc'[w] \in outside /\ UNCHANGED <<ids, files, newId, owner>>
          /\ \A v \in Workers \ {w} : pc'[v] = pc[v] /\ req'[v] = req[v]
    BY <1>3 DEF TypeOK, GetLookup
  <2> QED
    BY <2>1, <1>a, OutsideSections
<1>4. ASSUME NEW w \in Workers, GetLock(w) PROVE IndexInv'
  <2>1. pc[w] \in outside /\ pc'[w] \in outside /\ UNCHANGED <<ids, files, newId, owner>>
          /\ \A v \in Workers \ {w} : pc'[v] = pc[v] /\ req'[v] = req[v]
    BY <1>4 DEF TypeOK, GetLock
  <2> QED
    BY <2>1, <1>a, OutsideSections
<1>5. ASSUME NEW w \in Workers, GetRead(w) PROVE IndexInv'
  <2>1. pc[w] \in outside /\ pc'[w] \in outside /\ UNCHANGED <<ids, files, newId, owner>>
          /\ \A v \in Workers \ {w} : pc'[v] = pc[v] /\ req'[v] = req[v]
    BY <1>5 DEF TypeOK, GetRead
  <2> QED
    BY <2>1, <1>a, OutsideSections
<1>6. ASSUME NEW w \in Workers, ListLookup(w) PROVE IndexInv'
  <2>1. pc[w] \in outside /\ pc'[w] \in outside /\ UNCHANGED <<ids, files, newId, owner>>
          /\ \A v \in Workers \ {w} : pc'[v] = pc[v] /\ req'[v] = req[v]
    BY <1>6 DEF TypeOK, ListLookup
  <2> QED
    BY <2>1, <1>a, OutsideSections
<1>7. ASSUME NEW w \in Workers, ListCheck(w) PROVE IndexInv'
  <2>1. pc[w] \in outside /\ pc'[w] \in outside /\ UNCHANGED <<ids, files, newId, owner>>
          /\ \A v \in Workers \ {w} : pc'[v] = pc[v] /\ req'[v] = req[v]
    BY <1>7 DEF TypeOK, ListCheck
  <2> QED
    BY <2>1, <1>a, OutsideSections
<1>8. ASSUME NEW w \in Workers, ListOpen(w) PROVE IndexInv'
  <2>1. pc[w] \in outside /\ pc'[w] \in outside /\ UNCHANGED <<ids, files, newId, owner>>
          /\ \A v \in Workers \ {w} : pc'[v] = pc[v] /\ req'[v] = req[v]
    BY <1>8 DEF TypeOK, ListOpen, Die
  <2> QED
    BY <2>1, <1>a, OutsideSections
<1>8a. ASSUME NEW w \in Workers, ListNext(w) PROVE IndexInv'
  <2>1. pc[w] \in outside /\ pc'[w] \in outside /\ UNCHANGED <<ids, files, newId, owner>>
          /\ \A v \in Workers \ {w} : pc'[v] = pc[v] /\ req'[v] = req[v]
    BY <1>8a DEF TypeOK, ListNext
  <2> QED
    BY <2>1, <1>a, OutsideSections
<1>8b. ASSUME NEW w \in Workers, ListEnd(w) PROVE IndexInv'
  <2>1. pc[w] \in outside /\ pc'[w] \in outside /\ UNCHANGED <<ids, files, newId, owner>>
          /\ \A v \in Workers \ {w} : pc'[v] = pc[v] /\ req'[v] = req[v]
    BY <1>8b DEF TypeOK, ListEnd
  <2> QED
    BY <2>1, <1>a, OutsideSections
<1>9. ASSUME NEW w \in Workers, LockExclusive(w) PROVE IndexInv'
  <2>1. IndexOnDisk'
    BY <1>9, PlaceFacts, CrudAssumption DEF LockExclusive, Waiting, TypeOK, MutexInv, IndexInv,
       IndexOnDisk, AliasesDisjoint, Unregistered, Entity, Id, Dir, Exclusive, PostSection,
       PutSection, DeleteSection, WithoutId, Listing, Found
  <2>2. AliasesDisjoint'
    BY <1>9, PlaceFacts, CrudAssumption DEF LockExclusive, TypeOK, IndexInv, AliasesDisjoint,
       Unregistered, Dir
  <2>3. \A v \in Workers : Unregistered(v)'
    <3>1. /\ pc'[w] \notin {"post_write", "post_insert"}
          /\ \A v \in Workers \ {w} : pc'[v] = pc[v]
          /\ UNCHANGED <<ids, files, newId, req>>
      BY <1>9 DEF LockExclusive, Waiting, TypeOK
    <3> QED
      BY <3>1 DEF IndexInv, Unregistered, Dir, Entity
  <2> QED
    BY <2>1, <2>2, <2>3 DEF IndexInv
<1>10. ASSUME NEW w \in Workers, PostDir(w) PROVE IndexInv'
  <2>1. IndexOnDisk'
    BY <1>10, PlaceFacts, CrudAssumption DEF PostDir, CreateDir, CreateDirFails, TypeOK,
       MutexInv, IndexInv, IndexOnDisk, AliasesDisjoint, Unregistered, Entity, Id, Dir,
       Exclusive, PostSection, PutSection, DeleteSection, WithoutId, Listing, Found
  <2>2. AliasesDisjoint'
    BY <1>10, PlaceFacts, CrudAssumption DEF PostDir, TypeOK, IndexInv, AliasesDisjoint,
       Unregistered, Dir
  <2>3. \A v \in Workers : Unregistered(v)'
    <3>1. /\ pc[w] = "post_dir" /\ pc'[w] \notin {"post_write", "post_insert"}
          /\ \A v \in Workers \ {w} : pc'[v] = pc[v]
      BY <1>10 DEF PostDir, TypeOK
    <3> QED
      BY <3>1, OthersUnregistered DEF Unregistered, Exclusive, PostSection, PutSection, DeleteSection
  <2> QED
    BY <2>1, <2>2, <2>3 DEF IndexInv
<1>11. ASSUME NEW w \in Workers, PostOpen(w) PROVE IndexInv'
  <2>a. /\ pc[w] = "post_open" /\ pc[w] \in Exclusive \ {"delete_dir", "delete_erase"}
        /\ Dir(w) \in Dirs /\ newId[w] \in Ids /\ (Indexed(w) \/ pc[w] \in Found => Id(w) \in Ids)
        /\ pc[w] \in PostSection \cup PutSection => req[w].body \in Contents
        /\ Partial # NoFile /\ NoFile \notin Contents
    BY <1>11, PlaceFacts, CrudAssumption DEF PostOpen, Exclusive, PostSection, PutSection, DeleteSection
  <2>1. IndexOnDisk'
    BY <1>11, <2>a, WriteKeepsFiles DEF PostOpen
  <2>2. AliasesDisjoint'
    BY <1>11, PlaceFacts, CrudAssumption DEF PostOpen, TypeOK, IndexInv, AliasesDisjoint,
       Unregistered, Dir
  <2>3. \A v \in Workers : Unregistered(v)'
    <3>1. Unregistered(w)'
      <4>1. CASE pc'[w] = "post_write"
        <5>1. files[Dir(w)][newId[w]] = NoFile /\ SetFile(Dir(w), newId[w], Partial) /\ UNCHANGED <<ids, newId, req>>
          BY <1>11, <4>1 DEF PostOpen, TypeOK, Exists
        <5>2. \A e \in Entities : DirOf[e] = Dir(w) => newId[w] \notin ids[e]
          BY <2>a, <5>1, WriterSeesFiles
        <5>3. files'[Dir(w)][newId[w]] = Partial
          BY <2>a, <5>1 DEF SetFile, TypeOK
        <5> QED
          BY <2>a, <5>1, <5>2, <5>3 DEF Unregistered, Dir, Entity
      <4>2. CASE pc'[w] = "answered"
        BY <4>2 DEF Unregistered
      <4> QED
        BY <1>11, <4>1, <4>2 DEF PostOpen, TypeOK
    <3> QED
      BY <1>11, <2>a, <3>1, OthersUnregistered DEF PostOpen, TypeOK
  <2> QED
    BY <2>1, <2>2, <2>3 DEF IndexInv
<1>12. ASSUME NEW w \in Workers, PostWrite(w) PROVE IndexInv'
  <2>a. /\ pc[w] = "post_write" /\ pc[w] \in Exclusive \ {"delete_dir", "delete_erase"}
        /\ Dir(w) \in Dirs /\ newId[w] \in Ids /\ (Indexed(w) \/ pc[w] \in Found => Id(w) \in Ids)
        /\ pc[w] \in PostSection \cup PutSection => req[w].body \in Contents
        /\ Partial # NoFile /\ NoFile \notin Contents
    BY <1>12, PlaceFacts, CrudAssumption DEF PostWrite, Exclusive, PostSection, PutSection, DeleteSection
  <2>1. IndexOnDisk'
    BY <1>12, <2>a, WriteKeepsFiles DEF PostWrite, PostSection
  <2>2. AliasesDisjoint'
    BY <1>12, PlaceFacts, CrudAssumption DEF PostWrite, TypeOK, IndexInv, AliasesDisjoint,
       Unregistered, Dir
  <2>3. \A v \in Workers : Unregistered(v)'
    <3>1. files'[Dir(w)][newId[w]] # NoFile /\ UNCHANGED <<ids, newId, req>>
      BY <1>12, <2>a DEF PostWrite, SetFile, TypeOK, IndexInv, Unregistered, PostSection
    <3>2. Unregistered(w)'
      BY <2>a, <3>1 DEF IndexInv, Unregistered, Dir, Entity
    <3> QED
      BY <1>12, <2>a, <3>2, OthersUnregistered DEF PostWrite, TypeOK
  <2> QED
    BY <2>1, <2>2, <2>3 DEF IndexInv
<1>13. ASSUME NEW w \in Workers, PostInsert(w) PROVE IndexInv'
  <2>1. IndexOnDisk'
    <3>1. /\ pc[w] = "post_insert" /\ pc[w] \in Exclusive \ {"delete_dir", "delete_erase"}
          /\ Entity(w) \in Entities
      BY <1>13, PlaceFacts DEF PostInsert, Exclusive, PostSection
    <3>2. \A e \in Entities : \A i \in ids[e] : files[DirOf[e]][i] # NoFile
      BY <3>1, WriterSeesFiles
    <3>3. files[DirOf[Entity(w)]][newId[w]] # NoFile
      BY <3>1 DEF IndexInv, Unregistered, Dir
    <3>4. files' = files /\ \A e \in Entities : ids'[e] \subseteq ids[e] \cup {i \in {newId[w]} : e = Entity(w)}
      BY <1>13 DEF PostInsert, TypeOK
    <3> QED
      BY <3>2, <3>3, <3>4 DEF IndexOnDisk
  <2>2. AliasesDisjoint'
    BY <1>13, PlaceFacts, CrudAssumption DEF PostInsert, TypeOK, IndexInv, AliasesDisjoint,
       Unregistered, Dir
  <2>3. \A v \in Workers : Unregistered(v)'
    <3>1. /\ pc[w] = "post_insert" /\ pc'[w] \notin {"post_write", "post_insert"}
          /\ \A v \in Workers \ {w} : pc'[v] = pc[v]
      BY <1>13 DEF PostInsert, TypeOK
    <3> QED
      BY <3>1, OthersUnregistered DEF Unregistered, Exclusive, PostSection, PutSection, DeleteSection
  <2> QED
    BY <2>1, <2>2, <2>3 DEF IndexInv
<1>14. ASSUME NEW w \in Workers, PutOpen(w) PROVE IndexInv'
  <2>a. /\ pc[w] = "put_open" /\ pc[w] \in Exclusive \ {"delete_dir", "delete_erase"}
        /\ Dir(w) \in Dirs /\ newId[w] \in Ids /\ (Indexed(w) \/ pc[w] \in Found => Id(w) \in Ids)
        /\ pc[w] \in PostSection \cup PutSection => req[w].body \in Contents
        /\ Partial # NoFile /\ NoFile \notin Contents
    BY <1>14, PlaceFacts, CrudAssumption DEF PutOpen, Exclusive, PostSection, PutSection, DeleteSection
  <2>b. ASSUME Indexed(w) PROVE IndexOnDisk'
    BY <1>14, <2>a, <2>b, WriteKeepsFiles DEF PutOpen
  <2>c. ASSUME ~Indexed(w) PROVE IndexOnDisk'
    BY <1>14, <2>a, <2>c, WriterSeesFiles DEF PutOpen, IndexOnDisk
  <2>1. IndexOnDisk'
    BY <2>b, <2>c
  <2>2. AliasesDisjoint'
    BY <1>14, PlaceFacts, CrudAssumption DEF PutOpen, TypeOK, IndexInv, AliasesDisjoint,
       Unregistered, Dir
  <2>3. \A v \in Workers : Unregistered(v)'
    <3>1. /\ pc[w] = "put_open" /\ pc'[w] \notin {"post_write", "post_insert"}
          /\ \A v \in Workers \ {w} : pc'[v] = pc[v]
      BY <1>14 DEF PutOpen, TypeOK
    <3> QED
      BY <3>1, OthersUnregistered DEF Unregistered, Exclusive, PostSection, PutSection, DeleteSection
  <2> QED
    BY <2>1, <2>2, <2>3 DEF IndexInv
<1>15. ASSUME NEW w \in Workers, PutWrite(w) PROVE IndexInv'
  <2>a. /\ pc[w] = "put_write" /\ pc[w] \in Exclusive \ {"delete_dir", "delete_erase"}
        /\ Dir(w) \in Dirs /\ newId[w] \in Ids /\ (Indexed(w) \/ pc[w] \in Found => Id(w) \in Ids)
        /\ pc[w] \in PostSection \cup PutSection => req[w].body \in Contents
        /\ Partial # NoFile /\ NoFile \notin Contents
    BY <1>15, PlaceFacts, CrudAssumption DEF PutWrite, Exclusive, PostSection, PutSection, DeleteSection
  <2>1. IndexOnDisk'
    BY <1>15, <2>a, WriteKeepsFiles DEF PutWrite, PutSection, Found
  <2>2. AliasesDisjoint'
    BY <1>15, PlaceFacts, CrudAssumption DEF PutWrite, TypeOK, IndexInv, AliasesDisjoint,
       Unregistered, Dir
  <2>3. \A v \in Workers : Unregistered(v)'
    <3>1. /\ pc[w] = "put_write" /\ pc'[w] \notin {"post_write", "post_insert"}
          /\ \A v \in Workers \ {w} : pc'[v] = pc[v]
      BY <1>15 DEF PutWrite, TypeOK
    <3> QED
      BY <3>1, OthersUnregistered DEF Unregistered, Exclusive, PostSection, PutSection, DeleteSection
  <2> QED
    BY <2>1, <2>2, <2>3 DEF IndexInv
<1>16. ASSUME NEW w \in Workers, DeleteFile(w) PROVE IndexInv'
  <2>a. /\ pc[w] = "delete_file" /\ pc[w] \in Exclusive \ {"delete_dir", "delete_erase"}
        /\ Dir(w) \in Dirs /\ newId[w] \in Ids /\ (Indexed(w) \/ pc[w] \in Found => Id(w) \in Ids)
        /\ pc[w] \in PostSection \cup PutSection => req[w].body \in Contents
        /\ Partial # NoFile /\ NoFile \notin Contents
    BY <1>16, PlaceFacts, CrudAssumption DEF DeleteFile, Exclusive, PostSection, PutSection,
       DeleteSection
  <2>b. \A e \in Entities : \A i \in ids[e] : files[DirOf[e]][i] # NoFile
    BY <2>a, WriterSeesFiles
  <2>c. ASSUME UNCHANGED files PROVE IndexOnDisk'
    BY <1>16, <2>b, <2>c DEF DeleteFile, IndexOnDisk
  <2>d. ASSUME Indexed(w), SetFile(Dir(w), Id(w), NoFile), pc' = [pc EXCEPT ![w] = "delete_dir"], UNCHANGED owner
        PROVE  IndexOnDisk'
    <3>1. owner' = w /\ owner' # Nobody /\ pc'[w] = "delete_dir" /\ UNCHANGED <<ids, req>>
      BY <1>16, <2>a, <2>d, CrudAssumption DEF MutexInv, TypeOK, DeleteFile
    <3>2. ASSUME NEW e \in Entities, NEW i \in ids[e], ~(e = Entity(w) /\ i = Id(w))
          PROVE  files'[DirOf[e]][i] # NoFile
      <4>1. DirOf[e] # Dir(w) \/ i # Id(w)
        BY <2>d, <3>2, PlaceFacts, <2>a DEF IndexInv, AliasesDisjoint, Indexed, Dir,
           Exclusive, DeleteSection
      <4>2. DirOf[e] \in Dirs /\ i \in Ids
        BY CrudAssumption DEF TypeOK
      <4> QED
        BY <2>a, <2>b, <2>d, <4>1, <4>2 DEF SetFile, TypeOK
    <3> QED
      BY <3>1, <3>2 DEF IndexOnDisk, Entity, Id
  <2>1. IndexOnDisk'
    BY <1>16, <2>c, <2>d DEF DeleteFile
  <2>2. AliasesDisjoint'
    BY <1>16, PlaceFacts, CrudAssumption DEF DeleteFile, TypeOK, IndexInv, AliasesDisjoint,
       Unregistered, Dir
  <2>3. \A v \in Workers : Unregistered(v)'
    <3>1. /\ pc[w] = "delete_file" /\ pc'[w] \notin {"post_write", "post_insert"}
          /\ \A v \in Workers \ {w} : pc'[v] = pc[v]
      BY <1>16 DEF DeleteFile, TypeOK
    <3> QED
      BY <3>1, OthersUnregistered DEF Unregistered, Exclusive, PostSection, PutSection, DeleteSection
  <2> QED
    BY <2>1, <2>2, <2>3 DEF IndexInv
<1>17. ASSUME NEW w \in Workers, DeleteDir(w) PROVE IndexInv'
  <2>1. IndexOnDisk'
    <3>1. pc[w] = "delete_dir" /\ owner = w /\ owner # Nobody
      BY <1>17, CrudAssumption DEF DeleteDir, MutexInv, Exclusive, DeleteSection
    <3>2. pc'[w] = "delete_erase" /\ UNCHANGED <<ids, files, owner, req>>
      BY <1>17 DEF DeleteDir, TypeOK
    <3> QED
      BY <3>1, <3>2 DEF IndexInv, IndexOnDisk, Entity, Id
  <2>2. AliasesDisjoint'
    BY <1>17, PlaceFacts, CrudAssumption DEF DeleteDir, TypeOK, IndexInv, AliasesDisjoint,
       Unregistered, Dir
  <2>3. \A v \in Workers : Unregistered(v)'
    <3>1. /\ pc[w] = "delete_dir" /\ pc'[w] \notin {"post_write", "post_insert"}
          /\ \A v \in Workers \ {w} : pc'[v] = pc[v]
      BY <1>17 DEF DeleteDir, TypeOK
    <3> QED
      BY <3>1, OthersUnregistered DEF Unregistered, Exclusive, PostSection, PutSection, DeleteSection
  <2> QED
    BY <2>1, <2>2, <2>3 DEF IndexInv
<1>18. ASSUME NEW w \in Workers, DeleteErase(w) PROVE IndexInv'
  <2>1. IndexOnDisk'
    BY <1>18, PlaceFacts, CrudAssumption DEF DeleteErase, TypeOK, MutexInv, IndexInv,
       IndexOnDisk, AliasesDisjoint, Unregistered, Entity, Id, Dir, Exclusive, PostSection,
       PutSection, DeleteSection, WithoutId, Listing, Found
  <2>2. AliasesDisjoint'
    BY <1>18, PlaceFacts, CrudAssumption DEF DeleteErase, TypeOK, IndexInv, AliasesDisjoint,
       Unregistered, Dir
  <2>3. \A v \in Workers : Unregistered(v)'
    <3>1. /\ pc[w] = "delete_erase" /\ pc'[w] \notin {"post_write", "post_insert"}
          /\ \A v \in Workers \ {w} : pc'[v] = pc[v]
      BY <1>18 DEF DeleteErase, TypeOK
    <3> QED
      BY <3>1, OthersUnregistered DEF Unregistered, Exclusive, PostSection, PutSection, DeleteSection
  <2> QED
    BY <2>1, <2>2, <2>3 DEF IndexInv
<1>19. ASSUME NEW w \in Workers, IndexRace(w) PROVE IndexInv'
  BY <1>19 DEF IndexRace, IndexInv, IndexOnDisk, AliasesDisjoint, Unregistered, Entity, Id, Dir
<1>20. CASE Crash
  BY <1>20 DEF Crash, IndexInv, IndexOnDisk, AliasesDisjoint, Unregistered, Entity, Id, Dir
<1>21. CASE Restart
  BY <1>21 DEF Restart, IndexInv, IndexOnDisk, AliasesDisjoint, Unregistered, Entity, Id, Dir
<1>22. CASE UNCHANGED vars
  BY <1>22 DEF vars, IndexInv, IndexOnDisk, AliasesDisjoint, Unregistered, Entity, Id, Dir
<1> QED
  BY <1>1, <1>2, <1>3, <1>4, <1>5, <1>6, <1>7, <1>8, <1>8a, <1>8b, <1>9, <1>10, <1>11, <1>12,
     <1>13, <1>14, <1>15, <1>16, <1>17, <1>18, <1>19, <1>20, <1>21, <1>22 DEF Next, HandleRequest,
     Post, Put, Delete, Get

(* The strengthening of the two properties below holds always. *)
LEMMA IndexInvariant == Spec => []IndexInv
<1>1. Init => IndexInv
  BY DEF Init, IndexInv, IndexOnDisk, AliasesDisjoint, Unregistered
<1> QED
  BY <1>1, NextIndexInv, TypeCorrect, MutexCorrect, PTL DEF Spec

(* Every id a client can name has its file (crud_handler.cc:82-103,        *)
(* 176-188).                                                               *)
THEOREM IndexCorrect == Spec => []IndexOnDisk
<1>1. IndexInv => IndexOnDisk
  BY DEF IndexInv
<1> QED
  BY <1>1, IndexInvariant, PTL

(* Two spellings of one directory never hand out the same id               *)
(* (crud_handler.cc:84-103, crud_filesystem_manager.cc:22).                *)
THEOREM AliasesCorrect == Spec => []AliasesDisjoint
<1>1. IndexInv => AliasesDisjoint
  BY DEF IndexInv
<1> QED
  BY <1>1, IndexInvariant, PTL
=============================================================================
