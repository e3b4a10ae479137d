---------------------------- MODULE CrudFileProofs ----------------------------
(***************************************************************************)
(* What the files of CrudStore hold: that disk and index agree, that no    *)
(* client reads half a file, and that a complete file changes only under   *)
(* its own PUT or DELETE.  For every set of workers, entities, directories *)
(* and bodies, any number of requests and restarts.                        *)
(***************************************************************************)
EXTENDS CrudStoreProofs

(***************************************************************************)
(* The parts of the inductive invariant                                    *)
(***************************************************************************)
(* HandleMethod sends a request to the handler of its method. *)
MethodFits(w) ==
  /\ pc[w] \in PutSection \cup {"put_lock"} => req[w].method = "PUT"
  /\ pc[w] \in DeleteSection \cup {"delete_lock"} => req[w].method = "DELETE"

(* A POST writes the body into the empty file it made, a PUT into the one  *)
(* it has emptied; a DELETE that has removed its file still finds none     *)
(* when it erases the id.                                                  *)
OwnFile(w) ==
  /\ pc[w] = "post_write" => files[Dir(w)][newId[w]] = Partial
  /\ pc[w] = "put_write" => files[Dir(w)][Id(w)] = Partial
  /\ pc[w] \in {"delete_dir", "delete_erase"} => files[Dir(w)][Id(w)] = NoFile

Registered(d, i)  == \E e \in Entities : DirOf[e] = d /\ i \in ids[e]
BeingPosted(d, i) ==
  \E w \in Workers : pc[w] \in {"post_write", "post_insert"} /\ Dir(w) = d /\ newId[w] = i

(* Until the first restart, a file has its id, or is about to get it. *)
NoOrphans ==
  restarts = 0 => \A d \in Dirs : \A i \in FilesIn(d) : Registered(d, i) \/ BeingPosted(d, i)

FileInv == NoOrphans /\ \A w \in Workers : MethodFits(w) /\ OwnFile(w)

-----------------------------------------------------------------------------
(***************************************************************************)
(* Files and index agree                                                   *)
(***************************************************************************)
(* A step that changes no file and no id, and neither begins nor ends the  *)
(* part of a section in which these lag behind each other.                 *)
LEMMA SameFiles ==
  ASSUME TypeOK, FileInv, NEW w \in Workers,
         UNCHANGED <<files, ids, newId, restarts>>,
         \A v \in Workers \ {w} : pc'[v] = pc[v] /\ req'[v] = req[v],
         pc[w] \notin {"post_write", "post_insert"},
         pc'[w] \notin {"post_write", "post_insert"},
         OwnFile(w)', MethodFits(w)'
  PROVE  FileInv'
<1>1. \A v \in Workers : MethodFits(v)' /\ OwnFile(v)'
  BY DEF FileInv, MethodFits, OwnFile, Dir, Entity, Id
<1>2. \A d, i : Registered(d, i)' <=> Registered(d, i)
  BY DEF Registered
<1>3. \A d, i : BeingPosted(d, i) => BeingPosted(d, i)'
  BY DEF BeingPosted, Dir, Entity
<1>4. NoOrphans'
  BY <1>2, <1>3 DEF FileInv, NoOrphans, FilesIn
<1> QED
  BY <1>1, <1>4 DEF FileInv

(* A step that takes a worker from outside the sections to outside. *)
LEMMA OutsideFiles ==
  ASSUME TypeOK, FileInv, NEW w \in Workers,
         UNCHANGED <<files, ids, newId, restarts>>,
         \A v \in Workers \ {w} : pc'[v] = pc[v] /\ req'[v] = req[v],
         pc[w] \notin Exclusive, pc'[w] \notin Exclusive, MethodFits(w)'
  PROVE  FileInv'
<1>1. OwnFile(w)'
  BY DEF OwnFile, Exclusive, PostSection, PutSection, DeleteSection
<1> QED
  BY <1>1, SameFiles DEF Exclusive, PostSection

(* While w is in its section, the others are at no place that speaks of    *)
(* the files.                                                              *)
LEMMA SectionFiles ==
  ASSUME MutexInv, FileInv, NEW w \in Workers, pc[w] \in Exclusive,
         UNCHANGED req, \A v \in Workers \ {w} : pc'[v] = pc[v],
         MethodFits(w)', OwnFile(w)'
  PROVE  \A v \in Workers : MethodFits(v)' /\ OwnFile(v)'
<1>1. ASSUME NEW v \in Workers, v # w PROVE MethodFits(v)' /\ OwnFile(v)'
  <2>1. pc[v] \notin Exclusive /\ pc'[v] = pc[v]
    BY <1>1, Alone
  <2> QED
    BY <2>1 DEF FileInv, MethodFits, OwnFile, Exclusive, PostSection, PutSection, DeleteSection
<1> QED
  BY <1>1

(* Where no id and no file goes, and the section of w ends no POST, a file *)
(* keeps what makes it no orphan.                                          *)
LEMMA KeepsNoOrphans ==
  ASSUME TypeOK, MutexInv, FileInv, NEW w \in Workers, pc[w] \in Exclusive,
         pc[w] \notin {"post_write", "post_insert"},
         \A d \in Dirs : FilesIn(d)' \subseteq FilesIn(d),
         \A e \in Entities : ids[e] \subseteq ids'[e], restarts' = restarts
  PROVE  NoOrphans'
<1>1. \A d, i : ~BeingPosted(d, i)
  BY Alone DEF BeingPosted, Exclusive, PostSection
<1>2. \A d, i : Registered(d, i) => Registered(d, i)'
  BY DEF Registered
<1> QED
  BY <1>1, <1>2 DEF FileInv, NoOrphans

(* SetFile, seen from the set of files. *)
LEMMA SetFileFilesIn ==
  ASSUME TypeOK, NEW d \in Dirs, NEW i \in Ids, NEW content, SetFile(d, i, content)
  PROVE  /\ files'[d][i] = content
         /\ \A c \in Dirs : \A j \in Ids : ~(c = d /\ j = i) => files'[c][j] = files[c][j]
         /\ \A c \in Dirs : FilesIn(c)' \subseteq FilesIn(c) \cup {j \in {i} : c = d}
         /\ content = NoFile \/ files[d][i] # NoFile => \A c \in Dirs : FilesIn(c)' \subseteq FilesIn(c)
BY DEF TypeOK, SetFile, FilesIn

(* Every step preserves the invariant. *)
LEMMA NextFileInv == TypeOK /\ MutexInv /\ IndexInv /\ FileInv /\ [Next]_vars => FileInv'
<1> SUFFICES ASSUME TypeOK, MutexInv, IndexInv, FileInv, [Next]_vars PROVE FileInv'
  OBVIOUS
<1> USE DEF memory, disk, mutex, call, At, Goto, Finish, Fail, Succeed, Unlock
<1> DEFINE outside == {"idle", "init_root", "answered", "post_lock", "put_lock", "delete_lock",
                       "get_lookup", "get_lock", "get_read", "list_lookup", "list_check", "list_open",
                       "list_next"}
           quiet   == outside \ {"put_lock", "delete_lock"}
<1>a. outside \cap Exclusive = {} /\ quiet \cap Exclusive = {}
  BY DEF Exclusive, PostSection, PutSection, DeleteSection
<1>b. ASSUME NEW w \in Workers, pc'[w] \in quiet PROVE MethodFits(w)'
  BY <1>b DEF MethodFits, PutSection, DeleteSection
<1>1. ASSUME NEW w \in Workers, Receive(w) PROVE FileInv'
  <2>1. /\ pc[w] \in outside /\ pc'[w] \in quiet /\ UNCHANGED <<ids, files, newId, restarts>>
        /\ \A v \in Workers \ {w} : pc'[v] = pc[v] /\ req'[v] = req[v]
    BY <1>1 DEF TypeOK, Receive
  <2> QED
    BY <2>1, <1>a, <1>b, OutsideFiles
<1>2. ASSUME NEW w \in Workers, InitRoot(w) PROVE FileInv'
  <2>1. pc[w] = "init_root" /\ UNCHANGED <<ids, files, newId, restarts, req>>
    BY <1>2 DEF InitRoot
  <2>2. req[w].method \in {"POST", "PUT", "GET", "DELETE", "HEAD"}
    BY RequestFields DEF TypeOK
  <2>3. HandleMethod(w) =>
          \E p \in outside : /\ pc' = [pc EXCEPT ![w] = p]
                             /\ p = "put_lock" => req[w].method = "PUT"
                             /\ p = "delete_lock" => req[w].method = "DELETE"
    BY <2>2 DEF HandleMethod
  <2>4. \/ pc' = pc
        \/ \E p \in outside : /\ pc' = [pc EXCEPT ![w] = p]
                              /\ p = "put_lock" => req[w].method = "PUT"
                              /\ p = "delete_lock" => req[w].method = "DELETE"
    BY <1>2, <2>3 DEF InitRoot
  <2>5. /\ pc'[w] \in outside /\ \A v \in Workers \ {w} : pc'[v] = pc[v]
        /\ pc'[w] = "put_lock" => req[w].method = "PUT"
        /\ pc'[w] = "delete_lock" => req[w].method = "DELETE"
    <3>1. CASE pc' = pc
      BY <2>1, <3>1
    <3>2. CASE pc' # pc
      <4>1. PICK p \in outside : /\ pc' = [pc EXCEPT ![w] = p]
                                 /\ p = "put_lock" => req[w].method = "PUT"
                                 /\ p = "delete_lock" => req[w].method = "DELETE"
        BY <2>4, <3>2
      <4>2. pc'[w] = p /\ \A v \in Workers \ {w} : pc'[v] = pc[v]
        BY <4>1 DEF TypeOK
      <4> QED
        BY <4>1, <4>2
    <3> QED
      BY <3>1, <3>2
  <2>6. MethodFits(w)'
    BY <2>1, <2>5 DEF MethodFits, PutSection, DeleteSection
  <2>7. pc[w] \notin Exclusive /\ pc'[w] \notin Exclusive
    BY <2>1, <2>5, <1>a
  <2> QED
    BY <2>1, <2>5, <2>6, <2>7, OutsideFiles
<1>3. ASSUME NEW w \in Workers, GetLookup(w) PROVE FileInv'
  <2>1. /\ pc[w] \in outside /\ pc'[w] \in quiet /\ UNCHANGED <<ids, files, newId, restarts>>
        /\ \A v \in Workers \ {w} : pc'[v] = pc[v] /\ req'[v] = req[v]
    BY <1>3 DEF TypeOK, GetLookup
  <2> QED
    BY <2>1, <1>a, <1>b, OutsideFiles
<1>4. ASSUME NEW w \in Workers, GetLock(w) PROVE FileInv'
  <2>1. /\ pc[w] \in outside /\ pc'[w] \in quiet /\ UNCHANGED <<ids, files, newId, restarts>>
        /\ \A v \in Workers \ {w} : pc'[v] = pc[v] /\ req'[v] = req[v]
    BY <1>4 DEF TypeOK, GetLock
  <2> QED
    BY <2>1, <1>a, <1>b, OutsideFiles
<1>5. ASSUME NEW w \in Workers, GetRead(w) PROVE FileInv'
  <2>1. /\ pc[w] \in outside /\ pc'[w] \in quiet /\ UNCHANGED <<ids, files, newId, restarts>>
        /\ \A v \in Workers \ {w} : pc'[v] = pc[v] /\ req'[v] = req[v]
    BY <1>5 DEF TypeOK, GetRead
  <2> QED
    BY <2>1, <1>a, <1>b, OutsideFiles
<1>6. ASSUME NEW w \in Workers, ListLookup(w) PROVE FileInv'
  <2>1. /\ pc[w] \in outside /\ pc'[w] \in quiet /\ UNCHANGED <<ids, files, newId, restarts>>
        /\ \A v \in Workers \ {w} : pc'[v] = pc[v] /\ req'[v] = req[v]
    BY <1>6 DEF TypeOK, ListLookup
  <2> QED
    BY <2>1, <1>a, <1>b, OutsideFiles
<1>7. ASSUME NEW w \in Workers, ListCheck(w) PROVE FileInv'
  <2>1. /\ pc[w] \in outside /\ pc'[w] \in quiet /\ UNCHANGED <<ids, files, newId, restarts>>
        /\ \A v \in Workers \ {w} : pc'[v] = pc[v] /\ req'[v] = req[v]
    BY <1>7 DEF TypeOK, ListCheck
  <2> QED
    BY <2>1, <1>a, <1>b, OutsideFiles
<1>8. ASSUME NEW w \in Workers, ListOpen(w) PROVE FileInv'
  <2>1. /\ pc[w] \in outside /\ pc'[w] \in quiet /\ UNCHANGED <<ids, files, newId, restarts>>
        /\ \A v \in Workers \ {w} : pc'[v] = pc[v] /\ req'[v] = req[v]
    BY <1>8 DEF TypeOK, ListOpen, Die
  <2> QED
    BY <2>1, <1>a, <1>b, OutsideFiles
<1>8a. ASSUME NEW w \in Workers, ListNext(w) PROVE FileInv'
  <2>1. /\ pc[w] \in outside /\ pc'[w] \in quiet /\ UNCHANGED <<ids, files, newId, restarts>>
        /\ \A v \in Workers \ {w} : pc'[v] = pc[v] /\ req'[v] = req[v]
    BY <1>8a DEF TypeOK, ListNext
  <2> QED
    BY <2>1, <1>a, <1>b, OutsideFiles
<1>8b. ASSUME NEW w \in Workers, ListEnd(w) PROVE FileInv'
  <2>1. /\ pc[w] \in outside /\ pc'[w] \in quiet /\ UNCHANGED <<ids, files, newId, restarts>>
        /\ \A v \in Workers \ {w} : pc'[v] = pc[v] /\ req'[v] = req[v]
    BY <1>8b DEF TypeOK, ListEnd
  <2> QED
    BY <2>1, <1>a, <1>b, OutsideFiles
<1>9. ASSUME NEW w \in Workers, LockExclusive(w) PROVE FileInv'
  <2>1. /\ UNCHANGED <<files, ids, newId, restarts, req>> /\ \A v \in Workers \ {w} : pc'[v] = pc[v]
        /\ \/ pc[w] = "post_lock" /\ pc'[w] = "post_dir"
           \/ pc[w] = "put_lock" /\ pc'[w] = "put_open"
           \/ pc[w] = "delete_lock" /\ pc'[w] = "delete_file"
    BY <1>9 DEF LockExclusive, Waiting, TypeOK
  <2>2. OwnFile(w)' /\ MethodFits(w)'
    BY <2>1 DEF FileInv, OwnFile, MethodFits, PutSection, DeleteSection
  <2> QED
    BY <2>1, <2>2, SameFiles
<1>10. ASSUME NEW w \in Workers, PostDir(w) PROVE FileInv'
  <2>a. /\ pc[w] = "post_dir" /\ pc[w] \in Exclusive /\ UNCHANGED <<req, restarts>>
        /\ \A v \in Workers \ {w} : pc'[v] = pc[v]
        /\ Dir(w) \in Dirs /\ Entity(w) \in Entities /\ newId[w] \in Ids
        /\ Indexed(w) \/ pc[w] \in Found => Id(w) \in Ids
        /\ Partial # NoFile /\ NoFile \notin Contents
        /\ pc[w] \in PostSection \cup PutSection => req[w].body \in Contents
    <3>1. /\ pc[w] = "post_dir" /\ UNCHANGED <<req, restarts>>
          /\ \A v \in Workers \ {w} : pc'[v] = pc[v]
      BY <1>10 DEF PostDir, TypeOK
    <3>2. pc[w] \in Exclusive
      BY <3>1 DEF Exclusive, PostSection, PutSection, DeleteSection
    <3> QED
      BY <3>1, <3>2, PlaceFacts, CrudAssumption
  <2>b. MethodFits(w)'
    BY <1>10, <2>a DEF PostDir, TypeOK, FileInv, MethodFits, PutSection, DeleteSection
  <2>c. OwnFile(w)'
    BY <1>10, <2>a DEF PostDir, TypeOK, OwnFile
  <2>d. NoOrphans'
    BY <1>10, <2>a, KeepsNoOrphans DEF PostDir, FilesIn
  <2> QED
    BY <2>a, <2>b, <2>c, <2>d, SectionFiles DEF FileInv
<1>11. ASSUME NEW w \in Workers, PostOpen(w) PROVE FileInv'
  <2>a. /\ pc[w] = "post_open" /\ pc[w] \in Exclusive /\ UNCHANGED <<req, restarts>>
        /\ \A v \in Workers \ {w} : pc'[v] = pc[v]
        /\ Dir(w) \in Dirs /\ Entity(w) \in Entities /\ newId[w] \in Ids
        /\ Indexed(w) \/ pc[w] \in Found => Id(w) \in Ids
        /\ Partial # NoFile /\ NoFile \notin Contents
        /\ pc[w] \in PostSection \cup PutSection => req[w].body \in Contents
    <3>1. /\ pc[w] = "post_open" /\ UNCHANGED <<req, restarts>>
          /\ \A v \in Workers \ {w} : pc'[v] = pc[v]
      BY <1>11 DEF PostOpen, TypeOK
    <3>2. pc[w] \in Exclusive
      BY <3>1 DEF Exclusive, PostSection, PutSection, DeleteSection
    <3> QED
      BY <3>1, <3>2, PlaceFacts, CrudAssumption
  <2>b. MethodFits(w)'
    BY <1>11, <2>a DEF PostOpen, TypeOK, FileInv, MethodFits, PutSection, DeleteSection
  <2>c. OwnFile(w)'
    BY <1>11, <2>a, SetFileFilesIn DEF PostOpen, TypeOK, OwnFile, Dir, Entity
  <2>d. NoOrphans'
    <3>1. CASE UNCHANGED files
      BY <1>11, <2>a, <3>1, KeepsNoOrphans DEF PostOpen, FilesIn
    <3>2. CASE SetFile(Dir(w), newId[w], Partial) /\ pc' = [pc EXCEPT ![w] = "post_write"]
      <4>1. \A d, i : ~BeingPosted(d, i)
        BY <2>a, Alone DEF BeingPosted, Exclusive, PostSection
      <4>2. \A d, i : Registered(d, i) => Registered(d, i)'
        BY <1>11 DEF PostOpen, Registered
      <4>3. \A d, i : d = Dir(w) /\ i = newId[w] => BeingPosted(d, i)'
        BY <1>11, <3>2 DEF PostOpen, BeingPosted, Dir, Entity, TypeOK
      <4>4. \A c \in Dirs : FilesIn(c)' \subseteq FilesIn(c) \cup {j \in {newId[w]} : c = Dir(w)}
        BY <2>a, <3>2, SetFileFilesIn
      <4>5. ASSUME restarts' = 0, NEW d \in Dirs, NEW i \in FilesIn(d)'
            PROVE  Registered(d, i)' \/ BeingPosted(d, i)'
        <5>1. CASE i \in FilesIn(d)
          BY <2>a, <4>1, <4>2, <4>5, <5>1 DEF FileInv, NoOrphans
        <5>2. CASE d = Dir(w) /\ i = newId[w]
          BY <4>3, <5>2
        <5> QED
          BY <4>4, <4>5, <5>1, <5>2
      <4> QED
        BY <4>5 DEF NoOrphans
    <3> QED
      BY <1>11, <3>1, <3>2 DEF PostOpen
  <2> QED
    BY <2>a, <2>b, <2>c, <2>d, SectionFiles DEF FileInv
<1>12. ASSUME NEW w \in Workers, PostWrite(w) PROVE FileInv'
  <2>a. /\ pc[w] = "post_write" /\ pc[w] \in Exclusive /\ UNCHANGED <<req, restarts>>
        /\ \A v \in Workers \ {w} : pc'[v] = pc[v]
        /\ Dir(w) \in Dirs /\ Entity(w) \in Entities /\ newId[w] \in Ids
        /\ Indexed(w) \/ pc[w] \in Found => Id(w) \in Ids
        /\ Partial # NoFile /\ NoFile \notin Contents
        /\ pc[w] \in PostSection \cup PutSection => req[w].body \in Contents
    <3>1. /\ pc[w] = "post_write" /\ UNCHANGED <<req, restarts>>
          /\ \A v \in Workers \ {w} : pc'[v] = pc[v]
      BY <1>12 DEF PostWrite, TypeOK
    <3>2. pc[w] \in Exclusive
      BY <3>1 DEF Exclusive, PostSection, PutSection, DeleteSection
    <3> QED
      BY <3>1, <3>2, PlaceFacts, CrudAssumption
  <2>b. MethodFits(w)'
    BY <1>12, <2>a DEF PostWrite, TypeOK, FileInv, MethodFits, PutSection, DeleteSection
  <2>c. OwnFile(w)'
    BY <1>12, <2>a DEF PostWrite, TypeOK, OwnFile
  <2>d. NoOrphans'
    <3>1. \A c \in Dirs : FilesIn(c)' \subseteq FilesIn(c)
      <4>1. CASE UNCHANGED files
        BY <4>1 DEF FilesIn
      <4>2. CASE SetFile(Dir(w), newId[w], req[w].body)
        <5>1. files[Dir(w)][newId[w]] # NoFile
          BY <2>a DEF IndexInv, Unregistered
        <5> QED
          BY <2>a, <4>2, <5>1, SetFileFilesIn
      <4> QED
        BY <1>12, <4>1, <4>2 DEF PostWrite
    <3>2. \A d, i : Registered(d, i) => Registered(d, i)'
      BY <1>12 DEF PostWrite, Registered
    <3>3. \A d, i : BeingPosted(d, i) => BeingPosted(d, i)'
      BY <1>12 DEF PostWrite, BeingPosted, Dir, Entity, TypeOK
    <3> QED
      BY <2>a, <3>1, <3>2, <3>3 DEF FileInv, NoOrphans
  <2> QED
    BY <2>a, <2>b, <2>c, <2>d, SectionFiles DEF FileInv
<1>13. ASSUME NEW w \in Workers, PostInsert(w) PROVE FileInv'
  <2>a. /\ pc[w] = "post_insert" /\ pc[w] \in Exclusive /\ UNCHANGED <<req, restarts>>
        /\ \A v \in Workers \ {w} : pc'[v] = pc[v]
        /\ Dir(w) \in Dirs /\ Entity(w) \in Entities /\ newId[w] \in Ids
        /\ Indexed(w) \/ pc[w] \in Found => Id(w) \in Ids
        /\ Partial # NoFile /\ NoFile \notin Contents
        /\ pc[w] \in PostSection \cup PutSection => req[w].body \in Contents
    <3>1. /\ pc[w] = "post_insert" /\ UNCHANGED <<req, restarts>>
          /\ \A v \in Workers \ {w} : pc'[v] = pc[v]
      BY <1>13 DEF PostInsert, TypeOK
    <3>2. pc[w] \in Exclusive
      BY <3>1 DEF Exclusive, PostSection, PutSection, DeleteSection
    <3> QED
      BY <3>1, <3>2, PlaceFacts, CrudAssumption
  <2>b. MethodFits(w)'
    BY <1>13, <2>a DEF PostInsert, TypeOK, FileInv, MethodFits, PutSection, DeleteSection
  <2>c. OwnFile(w)'
    BY <1>13, <2>a DEF PostInsert, TypeOK, OwnFile
  <2>d. NoOrphans'
    <3>1. \A e \in Entities : ids[e] \subseteq ids'[e]
      BY <1>13 DEF PostInsert, TypeOK
    <3>2. newId[w] \in ids'[Entity(w)]
      BY <1>13, <2>a DEF PostInsert, TypeOK
    <3>3. \A d, i : BeingPosted(d, i) => d = Dir(w) /\ i = newId[w]
      BY <2>a, Alone DEF BeingPosted, Exclusive, PostSection
    <3>4. \A d, i : Registered(d, i) \/ BeingPosted(d, i) => Registered(d, i)'
      BY <2>a, <3>1, <3>2, <3>3 DEF Registered, Dir
    <3> QED
      BY <1>13, <2>a, <3>4 DEF PostInsert, FileInv, NoOrphans, FilesIn
  <2> QED
    BY <2>a, <2>b, <2>c, <2>d, SectionFiles DEF FileInv
<1>14. ASSUME NEW w \in Workers, PutOpen(w) PROVE FileInv'
  <2>a. /\ pc[w] = "put_open" /\ pc[w] \in Exclusive /\ UNCHANGED <<req, restarts>>
        /\ \A v \in Workers \ {w} : pc'[v] = pc[v]
        /\ Dir(w) \in Dirs /\ Entity(w) \in Entities /\ newId[w] \in Ids
        /\ Indexed(w) \/ pc[w] \in Found => Id(w) \in Ids
        /\ Partial # NoFile /\ NoFile \notin Contents
        /\ pc[w] \in PostSection \cup PutSection => req[w].body \in Contents
    <3>1. /\ pc[w] = "put_open" /\ UNCHANGED <<req, restarts>>
          /\ \A v \in Workers \ {w} : pc'[v] = pc[v]
      BY <1>14 DEF PutOpen, TypeOK
    <3>2. pc[w] \in Exclusive
      BY <3>1 DEF Exclusive, PostSection, PutSection, DeleteSection
    <3> QED
      BY <3>1, <3>2, PlaceFacts, CrudAssumption
  <2>b. MethodFits(w)'
    BY <1>14, <2>a DEF PutOpen, TypeOK, FileInv, MethodFits, PutSection, DeleteSection
  <2>c. OwnFile(w)'
    BY <1>14, <2>a, SetFileFilesIn DEF PutOpen, TypeOK, OwnFile, Dir, Entity, Id
  <2>d. NoOrphans'
    <3>1. \A c \in Dirs : FilesIn(c)' \subseteq FilesIn(c)
      <4>1. CASE UNCHANGED files
        BY <4>1 DEF FilesIn
      <4>2. CASE Indexed(w) /\ SetFile(Dir(w), Id(w), Partial)
        <5>1. pc[w] \in Exclusive \ {"delete_dir", "delete_erase"}
          BY <2>a
        <5>2. files[Dir(w)][Id(w)] # NoFile
          BY <2>a, <4>2, <5>1, WriterSeesFiles DEF Indexed, Dir
        <5> QED
          BY <2>a, <4>2, <5>2, SetFileFilesIn
      <4> QED
        BY <1>14, <4>1, <4>2 DEF PutOpen
    <3> QED
      BY <1>14, <2>a, <3>1, KeepsNoOrphans DEF PutOpen
  <2> QED
    BY <2>a, <2>b, <2>c, <2>d, SectionFiles DEF FileInv
<1>15. ASSUME NEW w \in Workers, PutWrite(w) PROVE FileInv'
  <2>a. /\ pc[w] = "put_write" /\ pc[w] \in Exclusive /\ UNCHANGED <<req, restarts>>
        /\ \A v \in Workers \ {w} : pc'[v] = pc[v]
        /\ Dir(w) \in Dirs /\ Entity(w) \in Entities /\ newId[w] \in Ids
        /\ Indexed(w) \/ pc[w] \in Found => Id(w) \in Ids
        /\ Partial # NoFile /\ NoFile \notin Contents
        /\ pc[w] \in PostSection \cup PutSection => req[w].body \in Contents
    <3>1. /\ pc[w] = "put_write" /\ UNCHANGED <<req, restarts>>
          /\ \A v \in Workers \ {w} : pc'[v] = pc[v]
      BY <1>15 DEF PutWrite, TypeOK
    <3>2. pc[w] \in Exclusive
      BY <3>1 DEF Exclusive, PostSection, PutSection, DeleteSection
    <3> QED
      BY <3>1, <3>2, PlaceFacts, CrudAssumption
  <2>b. MethodFits(w)'
    BY <1>15, <2>a DEF PutWrite, TypeOK, FileInv, MethodFits, PutSection, DeleteSection
  <2>c. OwnFile(w)'
    BY <1>15, <2>a DEF PutWrite, TypeOK, OwnFile
  <2>d. NoOrphans'
    <3>1. \A c \in Dirs : FilesIn(c)' \subseteq FilesIn(c)
      <4>1. CASE UNCHANGED files
        BY <4>1 DEF FilesIn
      <4>2. CASE SetFile(Dir(w), Id(w), req[w].body)
        <5>1. files[Dir(w)][Id(w)] = Partial /\ Id(w) \in Ids
          BY <2>a DEF FileInv, OwnFile, Found
        <5> QED
          BY <2>a, <4>2, <5>1, SetFileFilesIn
      <4> QED
        BY <1>15, <4>1, <4>2 DEF PutWrite
    <3> QED
      BY <1>15, <2>a, <3>1, KeepsNoOrphans DEF PutWrite
  <2> QED
    BY <2>a, <2>b, <2>c, <2>d, SectionFiles DEF FileInv
<1>16. ASSUME NEW w \in Workers, DeleteFile(w) PROVE FileInv'
  <2>a. /\ pc[w] = "delete_file" /\ pc[w] \in Exclusive /\ UNCHANGED <<req, restarts>>
        /\ \A v \in Workers \ {w} : pc'[v] = pc[v]
        /\ Dir(w) \in Dirs /\ Entity(w) \in Entities /\ newId[w] \in Ids
        /\ Indexed(w) \/ pc[w] \in Found => Id(w) \in Ids
        /\ Partial # NoFile /\ NoFile \notin Contents
        /\ pc[w] \in PostSection \cup PutSection => req[w].body \in Contents
    <3>1. /\ pc[w] = "delete_file" /\ UNCHANGED <<req, restarts>>
          /\ \A v \in Workers \ {w} : pc'[v] = pc[v]
      BY <1>16 DEF DeleteFile, TypeOK
    <3>2. pc[w] \in Exclusive
      BY <3>1 DEF Exclusive, PostSection, PutSection, DeleteSection
    <3> QED
      BY <3>1, <3>2, PlaceFacts, CrudAssumption
  <2>b. MethodFits(w)'
    BY <1>16, <2>a DEF DeleteFile, TypeOK, FileInv, MethodFits, PutSection, DeleteSection
  <2>c. OwnFile(w)'
    BY <1>16, <2>a, SetFileFilesIn DEF DeleteFile, TypeOK, OwnFile, Dir, Entity, Id
  <2>d. NoOrphans'
    <3>1. \A c \in Dirs : FilesIn(c)' \subseteq FilesIn(c)
      <4>1. CASE UNCHANGED files
        BY <4>1 DEF FilesIn
      <4>2. CASE Indexed(w) /\ SetFile(Dir(w), Id(w), NoFile)
        BY <2>a, <4>2, SetFileFilesIn
      <4> QED
        BY <1>16, <4>1, <4>2 DEF DeleteFile
    <3> QED
      BY <1>16, <2>a, <3>1, KeepsNoOrphans DEF DeleteFile
  <2> QED
    BY <2>a, <2>b, <2>c, <2>d, SectionFiles DEF FileInv
<1>17. ASSUME NEW w \in Workers, DeleteDir(w) PROVE FileInv'
  <2>a. /\ pc[w] = "delete_dir" /\ pc[w] \in Exclusive /\ UNCHANGED <<req, restarts>>
        /\ \A v \in Workers \ {w} : pc'[v] = pc[v]
        /\ Dir(w) \in Dirs /\ Entity(w) \in Entities /\ newId[w] \in Ids
        /\ Indexed(w) \/ pc[w] \in Found => Id(w) \in Ids
        /\ Partial # NoFile /\ NoFile \notin Contents
        /\ pc[w] \in PostSection \cup PutSection => req[w].body \in Contents
    <3>1. /\ pc[w] = "delete_dir" /\ UNCHANGED <<req, restarts>>
          /\ \A v \in Workers \ {w} : pc'[v] = pc[v]
      BY <1>17 DEF DeleteDir, TypeOK
    <3>2. pc[w] \in Exclusive
      BY <3>1 DEF Exclusive, PostSection, PutSection, DeleteSection
    <3> QED
      BY <3>1, <3>2, PlaceFacts, CrudAssumption
  <2>b. MethodFits(w)'
    BY <1>17, <2>a DEF DeleteDir, TypeOK, FileInv, MethodFits, PutSection, DeleteSection
  <2>c. OwnFile(w)'
    BY <1>17, <2>a DEF DeleteDir, TypeOK, FileInv, OwnFile, Dir, Entity, Id
  <2>d. NoOrphans'
    BY <1>17, <2>a, KeepsNoOrphans DEF DeleteDir, FilesIn
  <2> QED
    BY <2>a, <2>b, <2>c, <2>d, SectionFiles DEF FileInv
<1>18. ASSUME NEW w \in Workers, DeleteErase(w) PROVE FileInv'
  <2>a. /\ pc[w] = "delete_erase" /\ pc[w] \in Exclusive /\ UNCHANGED <<req, restarts>>
        /\ \A v \in Workers \ {w} : pc'[v] = pc[v]
        /\ Dir(w) \in Dirs /\ Entity(w) \in Entities /\ newId[w] \in Ids
        /\ Indexed(w) \/ pc[w] \in Found => Id(w) \in Ids
        /\ Partial # NoFile /\ NoFile \notin Contents
        /\ pc[w] \in PostSection \cup PutSection => req[w].body \in Contents
    <3>1. /\ pc[w] = "delete_erase" /\ UNCHANGED <<req, restarts>>
          /\ \A v \in Workers \ {w} : pc'[v] = pc[v]
      BY <1>18 DEF DeleteErase, TypeOK
    <3>2. pc[w] \in Exclusive
      BY <3>1 DEF Exclusive, PostSection, PutSection, DeleteSection
    <3> QED
      BY <3>1, <3>2, PlaceFacts, CrudAssumption
  <2>b. MethodFits(w)'
    BY <1>18, <2>a DEF DeleteErase, TypeOK, FileInv, MethodFits, PutSection, DeleteSection
  <2>c. OwnFile(w)'
    BY <1>18, <2>a DEF DeleteErase, TypeOK, OwnFile
  <2>d. NoOrphans'
    <3>1. files[Dir(w)][Id(w)] = NoFile
      BY <2>a DEF FileInv, OwnFile
    <3>2. \A e \in Entities : \A i \in ids[e] : i \in ids'[e] \/ (e = Entity(w) /\ i = Id(w))
      BY <1>18 DEF DeleteErase, TypeOK
    <3>3. \A d, i : ~BeingPosted(d, i)
      BY <2>a, Alone DEF BeingPosted, Exclusive, PostSection
    <3>4. ASSUME NEW d \in Dirs, NEW i \in FilesIn(d), Registered(d, i) PROVE Registered(d, i)'
      BY <3>1, <3>2, <3>4 DEF Registered, FilesIn, Dir
    <3> QED
      BY <1>18, <2>a, <3>3, <3>4 DEF DeleteErase, FileInv, NoOrphans, FilesIn
  <2> QED
    BY <2>a, <2>b, <2>c, <2>d, SectionFiles DEF FileInv
<1>19. ASSUME NEW w \in Workers, IndexRace(w) PROVE FileInv'
  BY <1>19, SMTT(60) DEF IndexRace, FileInv, NoOrphans, MethodFits, OwnFile, Registered,
     BeingPosted, FilesIn,
     Dir, Entity, Id
<1>20. CASE Crash
  BY <1>20, SMTT(60) DEF Crash, FileInv, NoOrphans, MethodFits, OwnFile, Registered, BeingPosted,
     FilesIn,
     Dir, Entity, Id
<1>21. CASE Restart
  <2>1. restarts' # 0
    BY <1>21 DEF Restart, TypeOK
  <2>2. \A w \in Workers : pc'[w] = "idle"
    BY <1>21 DEF Restart
  <2> QED
    BY <2>1, <2>2 DEF FileInv, NoOrphans, MethodFits, OwnFile, PutSection, DeleteSection
<1>22. CASE UNCHANGED vars
  BY <1>22 DEF vars, FileInv, NoOrphans, MethodFits, OwnFile, Registered, BeingPosted, FilesIn,
     Dir, Entity, Id
<1> QED
  BY <1>1, <1>2, <1>3, <1>4, <1>5, <1>6, <1>7, <1>8, <1>8a, <1>8b, <1>9, <1>10, <1>11,
     <1>12, <1>13, <1>14, <1>15, <1>16, <1>17, <1>18, <1>19, <1>20, <1>21, <1>22
     DEF Next, HandleRequest, Post, Put, Delete, Get

(* FileInv holds always. *)
LEMMA FileInvariant == Spec => []FileInv
<1>1. Init => FileInv
  BY DEF Init, FileInv, NoOrphans, FilesIn, MethodFits, OwnFile, PutSection, DeleteSection
<1> QED
  BY <1>1, NextFileInv, TypeCorrect, MutexCorrect, IndexInvariant, PTL DEF Spec

(* Disk and index agree whenever nobody is writing, until the first        *)
(* restart, whatever file operations failed (crud_handler.cc:68-197,       *)
(* crud_filesystem_manager.cc:13-87).                                      *)
THEOREM DiskCorrect == Spec => []DiskMatchesIndex
<1>1. TypeOK /\ MutexInv /\ IndexInv /\ FileInv => DiskMatchesIndex
  <2> SUFFICES ASSUME TypeOK, MutexInv, IndexInv, FileInv, restarts = 0, owner = Nobody, NEW d \in Dirs
               PROVE  FilesIn(d) = UNION {ids[e] : e \in {f \in Entities : DirOf[f] = d}}
    BY DEF DiskMatchesIndex
  <2>1. \A i : ~BeingPosted(d, i)
    BY CrudAssumption DEF MutexInv, BeingPosted, Exclusive, PostSection
  <2>2. \A i \in FilesIn(d) : Registered(d, i)
    BY <2>1 DEF FileInv, NoOrphans
  <2>3. \A e \in Entities : ids[e] \subseteq Ids /\ \A i \in ids[e] : files[DirOf[e]][i] # NoFile
    BY DEF TypeOK, IndexInv, IndexOnDisk
  <2> QED
    BY <2>2, <2>3 DEF Registered, FilesIn
<1> QED
  BY <1>1, TypeCorrect, MutexCorrect, IndexInvariant, FileInvariant, PTL

-----------------------------------------------------------------------------
(***************************************************************************)
(* Who changes a file                                                      *)
(***************************************************************************)
(* Five steps touch a file, and who takes one owns the lock. *)
LEMMA FileStep ==
  ASSUME [Next]_vars, files' # files
  PROVE  \E w \in Workers : PostOpen(w) \/ PostWrite(w) \/ PutOpen(w) \/ PutWrite(w) \/ DeleteFile(w)
<1> USE DEF memory, disk, mutex, call
<1>1. ~UNCHANGED vars /\ ~Crash /\ ~Restart
  BY DEF vars, Crash, Restart
<1>2. PICK w \in Workers : Receive(w) \/ HandleRequest(w) \/ IndexRace(w)
  BY <1>1 DEF Next
<1>3. ~Receive(w) /\ ~InitRoot(w) /\ ~LockExclusive(w) /\ ~IndexRace(w)
  BY DEF Receive, InitRoot, LockExclusive, IndexRace
<1>4. ~PostDir(w) /\ ~PostInsert(w) /\ ~DeleteDir(w) /\ ~DeleteErase(w)
  BY DEF PostDir, PostInsert, DeleteDir, DeleteErase
<1>5. ~Get(w)
  BY DEF Get, GetLookup, GetLock, GetRead, ListLookup, ListCheck, ListOpen, ListNext, ListEnd
<1> QED
  BY <1>2, <1>3, <1>4, <1>5 DEF HandleRequest, Post, Put, Delete

(* Which file it is, and what is known of it. *)
LEMMA FileSteps ==
  ASSUME TypeOK, MutexInv, [Next]_vars, files' # files
  PROVE  \E w \in Workers :
           /\ owner = w /\ pc[w] \in {"post_open", "post_write", "put_open", "put_write", "delete_file"}
           /\ \E content : SetFile(Dir(w), IF pc[w] \in PostSection THEN newId[w] ELSE Id(w), content)
           /\ pc[w] = "post_open" => files[Dir(w)][newId[w]] = NoFile
           /\ pc[w] \in {"put_open", "delete_file"} => Indexed(w)
<1> USE DEF memory, disk, mutex, call, At
<1>1. PICK w \in Workers : PostOpen(w) \/ PostWrite(w) \/ PutOpen(w) \/ PutWrite(w) \/ DeleteFile(w)
  BY FileStep
<1>2. /\ pc[w] \in {"post_open", "post_write", "put_open", "put_write", "delete_file"}
      /\ \E content : SetFile(Dir(w), IF pc[w] \in PostSection THEN newId[w] ELSE Id(w), content)
      /\ pc[w] = "post_open" => files[Dir(w)][newId[w]] = NoFile
      /\ pc[w] \in {"put_open", "delete_file"} => Indexed(w)
  BY <1>1 DEF PostOpen, PostWrite, PutOpen, PutWrite, DeleteFile, PostSection, Exists
<1>3. owner = w
  BY <1>2 DEF MutexInv, Exclusive, PostSection, PutSection, DeleteSection
<1> QED
  BY <1>2, <1>3

(* A complete file is changed only by the PUT or DELETE that names it      *)
(* (crud_filesystem_manager.cc:22, crud_handler.cc:123-141, 165-188).      *)
THEOREM OwnRequestCorrect == Spec => OnlyOwnRequestChangesFile
<1>1. TypeOK /\ MutexInv /\ FileInv /\ [Next]_vars =>
        [\A d \in Dirs : \A i \in FilesIn(d) :
           files'[d][i] # files[d][i] /\ files[d][i] # Partial =>
             /\ owner # Nobody /\ req[owner].method \in {"PUT", "DELETE"}
             /\ Dir(owner) = d /\ Id(owner) = i]_vars
  <2> SUFFICES ASSUME TypeOK, MutexInv, FileInv, [Next]_vars, NEW d \in Dirs, NEW i \in FilesIn(d),
                      files'[d][i] # files[d][i], files[d][i] # Partial
               PROVE  /\ owner # Nobody /\ req[owner].method \in {"PUT", "DELETE"}
                      /\ Dir(owner) = d /\ Id(owner) = i
    OBVIOUS
  <2>1. PICK w \in Workers :
           /\ owner = w /\ pc[w] \in {"post_open", "post_write", "put_open", "put_write", "delete_file"}
           /\ \E content : SetFile(Dir(w), IF pc[w] \in PostSection THEN newId[w] ELSE Id(w), content)
           /\ pc[w] = "post_open" => files[Dir(w)][newId[w]] = NoFile
    BY FileSteps
  <2>2. d = Dir(w) /\ i = IF pc[w] \in PostSection THEN newId[w] ELSE Id(w)
    BY <2>1 DEF SetFile, FilesIn, TypeOK
  <2>3. pc[w] \notin {"post_open", "post_write"}
    BY <2>1, <2>2 DEF FileInv, OwnFile, FilesIn, PostSection
  <2>4. pc[w] \notin PostSection /\ req[w].method \in {"PUT", "DELETE"}
    BY <2>1, <2>3 DEF FileInv, MethodFits, PostSection, PutSection, DeleteSection
  <2> QED
    BY <2>1, <2>2, <2>4, CrudAssumption
<1> QED
  BY <1>1, TypeCorrect, MutexCorrect, FileInvariant, PTL DEF Spec, OnlyOwnRequestChangesFile

-----------------------------------------------------------------------------
(***************************************************************************)
(* What a client reads                                                     *)
(***************************************************************************)
(* A worker stays as it is, unless the step is its own or a restart. *)
Stays(v) == pc'[v] = pc[v] /\ req'[v] = req[v] /\ newId'[v] = newId[v] /\ ans'[v] = ans[v]

(* Nobody takes a step for somebody else. *)
LEMMA OwnStep ==
  ASSUME TypeOK, [Next]_vars, NEW v \in Workers
  PROVE  Stays(v) \/ Receive(v) \/ HandleRequest(v) \/ Restart
<1> USE DEF memory, disk, mutex, call, Goto, Finish, Fail, Succeed, TypeOK, Stays
<1>1. CASE UNCHANGED vars
  BY <1>1 DEF vars
<1>2. CASE Crash
  BY <1>2 DEF Crash
<1>3. ASSUME NEW w \in Workers, w # v, Receive(w) PROVE Stays(v)
  BY <1>3 DEF Receive
<1>4. ASSUME NEW w \in Workers, IndexRace(w) PROVE Stays(v)
  BY <1>4 DEF IndexRace
<1>5. ASSUME NEW w \in Workers, w # v, HandleRequest(w) PROVE Stays(v)
  <2>1. ASSUME InitRoot(w) PROVE Stays(v)
    <3>1. req[w].method \in {"POST", "PUT", "GET", "DELETE", "HEAD"}
      BY RequestFields
    <3>2. HandleMethod(w) => /\ \E p : pc' = [pc EXCEPT ![w] = p]
                             /\ ans' = ans \/ \E a : ans' = [ans EXCEPT ![w] = a]
      BY <3>1 DEF HandleMethod
    <3>3. HandleMethod(w) => pc'[v] = pc[v] /\ ans'[v] = ans[v]
      BY <1>5, <3>2
    <3> QED
      BY <1>5, <2>1, <3>3 DEF InitRoot
  <2>2. ASSUME LockExclusive(w) PROVE Stays(v)
    BY <1>5, <2>2 DEF LockExclusive
  <2>3. ASSUME Post(w) PROVE Stays(v)
    <3>1. ASSUME PostDir(w) PROVE Stays(v)
      BY <1>5, <3>1 DEF PostDir
    <3>2. ASSUME PostOpen(w) \/ PostWrite(w) \/ PostInsert(w) PROVE Stays(v)
      BY <1>5, <3>2 DEF PostOpen, PostWrite, PostInsert
    <3> QED
      BY <2>3, <3>1, <3>2 DEF Post
  <2>4. ASSUME Put(w) PROVE Stays(v)
    BY <1>5, <2>4 DEF Put, PutOpen, PutWrite
  <2>5. ASSUME Delete(w) PROVE Stays(v)
    BY <1>5, <2>5 DEF Delete, DeleteFile, DeleteDir, DeleteErase
  <2>6. ASSUME Get(w) PROVE Stays(v)
    BY <1>5, <2>6 DEF Get, GetLookup, GetLock, GetRead, ListLookup, ListCheck, ListOpen,
       ListNext, ListEnd
  <2> QED
    BY <1>5, <2>1, <2>2, <2>3, <2>4, <2>5, <2>6 DEF HandleRequest
<1> QED
  BY <1>1, <1>2, <1>3, <1>4, <1>5 DEF Next

(* A half-written file in the hands of its writer. *)
Writes(w, d, i) ==
  /\ pc[w] \in {"post_write", "put_write"} /\ Dir(w) = d
  /\ i = IF pc[w] = "post_write" THEN newId[w] ELSE Id(w)

Whole(d, i) == files[d][i] = Partial => \E w \in Workers : Writes(w, d, i)

(* What a client can still name is whole, or being written; so is what a   *)
(* reader has looked up, and what a POST is about to register.             *)
WholeInv ==
  /\ \A e \in Entities : \A i \in ids[e] : Whole(DirOf[e], i)
  /\ \A w \in Workers : pc[w] \in {"get_lock", "get_read"} => Whole(Dir(w), Id(w))
  /\ \A w \in Workers : pc[w] = "post_insert" => Whole(Dir(w), newId[w])
  /\ NoTornRead

(* A writer stays a writer until it has written. *)
LEMMA WriterStays ==
  ASSUME TypeOK, [Next]_vars, ~Restart, NEW w \in Workers, NEW d, NEW i, Writes(w, d, i)
  PROVE  (\E v \in Workers : Writes(v, d, i)') \/ PostWrite(w) \/ PutWrite(w)
<1>1. CASE Stays(w)
  BY <1>1 DEF Stays, Writes, Dir, Entity, Id
<1>2. ASSUME Receive(w) \/ HandleRequest(w) PROVE PostWrite(w) \/ PutWrite(w)
  <2>1. pc[w] \in {"post_write", "put_write"}
    BY DEF Writes
  <2> QED
    BY <1>2, <2>1 DEF At, Receive, HandleRequest, InitRoot, LockExclusive, Waiting, Post, Put,
       Delete, Get,
       PostDir, PostOpen, PostInsert, PutOpen, DeleteFile, DeleteDir, DeleteErase,
       GetLookup, GetLock, GetRead, ListLookup, ListCheck, ListOpen, ListNext, ListEnd
<1> QED
  BY <1>1, <1>2, OwnStep

(* No step but a restart makes a whole file less than whole, unless a      *)
(* write fails.                                                            *)
LEMMA WholeKept ==
  ASSUME TypeOK, MutexInv, [Next]_vars, ~Restart, "write" \notin Faults,
         NEW d \in Dirs, NEW i \in Ids, Whole(d, i)
  PROVE  Whole(d, i)'
<1> SUFFICES ASSUME files'[d][i] = Partial, \A w \in Workers : ~Writes(w, d, i)'
             PROVE  FALSE
  BY DEF Whole
<1> USE DEF memory, disk, mutex, call, At
<1>1. ASSUME NEW w \in Workers, PostWrite(w) PROVE FALSE
  <2>1. SetFile(Dir(w), newId[w], req[w].body) /\ pc[w] = "post_write"
    BY <1>1 DEF PostWrite
  <2>2. \A v \in Workers : Writes(v, d, i) => d = Dir(w) /\ i = newId[w]
    BY <2>1, Alone DEF Writes, Exclusive, PostSection, PutSection
  <2>3. req[w].body \in Contents /\ Dir(w) \in Dirs /\ newId[w] \in Ids
    BY <2>1, PlaceFacts DEF PostSection
  <2> QED
    BY <2>1, <2>2, <2>3, SetFileFilesIn, CrudAssumption DEF Whole
<1>2. ASSUME NEW w \in Workers, PutWrite(w) PROVE FALSE
  <2>1. SetFile(Dir(w), Id(w), req[w].body) /\ pc[w] = "put_write"
    BY <1>2 DEF PutWrite
  <2>2. \A v \in Workers : Writes(v, d, i) => d = Dir(w) /\ i = Id(w)
    BY <2>1, Alone DEF Writes, Exclusive, PostSection, PutSection
  <2>3. req[w].body \in Contents /\ Dir(w) \in Dirs /\ Id(w) \in Ids
    BY <2>1, PlaceFacts DEF PutSection, Found
  <2> QED
    BY <2>1, <2>2, <2>3, SetFileFilesIn, CrudAssumption DEF Whole
<1>3. \A w \in Workers : ~Writes(w, d, i)
  BY <1>1, <1>2, WriterStays
<1>4. files[d][i] # Partial
  BY <1>3 DEF Whole
<1>5. PICK w \in Workers :
        /\ pc[w] \in {"post_open", "put_open", "delete_file"}
        /\ PostOpen(w) \/ PutOpen(w) \/ DeleteFile(w)
  BY <1>1, <1>2, <1>4, FileStep DEF PostOpen, PutOpen, DeleteFile
<1>6. /\ Dir(w) \in Dirs /\ newId[w] \in Ids /\ (Indexed(w) => Id(w) \in Ids)
      /\ Partial # NoFile
  BY <1>5, PlaceFacts, CrudAssumption
<1>7. CASE PostOpen(w)
  <2>1. SetFile(Dir(w), newId[w], Partial) /\ pc'[w] = "post_write" /\ UNCHANGED <<req, newId>>
    BY <1>4, <1>7 DEF PostOpen, Goto, TypeOK
  <2>2. d = Dir(w) /\ i = newId[w]
    BY <1>4, <1>6, <2>1, SetFileFilesIn
  <2> QED
    BY <2>1, <2>2 DEF Writes, Dir, Entity
<1>8. CASE PutOpen(w)
  <2>1. Indexed(w) /\ SetFile(Dir(w), Id(w), Partial) /\ pc'[w] = "put_write" /\ UNCHANGED req
    BY <1>4, <1>8 DEF PutOpen, Goto, TypeOK
  <2>2. d = Dir(w) /\ i = Id(w)
    BY <1>4, <1>6, <2>1, SetFileFilesIn
  <2> QED
    BY <2>1, <2>2 DEF Writes, Dir, Entity, Id
<1>9. CASE DeleteFile(w)
  <2>1. Indexed(w) /\ SetFile(Dir(w), Id(w), NoFile)
    BY <1>4, <1>9 DEF DeleteFile
  <2> QED
    BY <1>4, <1>6, <2>1, SetFileFilesIn
<1> QED
  BY <1>5, <1>7, <1>8, <1>9

(* Ids enter the index from the section of a POST. *)
LEMMA NewIds ==
  ASSUME TypeOK, [Next]_vars, NEW e \in Entities, NEW i \in ids'[e], i \notin ids[e]
  PROVE  \E w \in Workers : /\ pc[w] = "post_insert" /\ e = Entity(w) /\ i = newId[w]
                            /\ UNCHANGED files /\ ~Restart
<1> USE DEF memory, disk, mutex, call, At, TypeOK
<1>1. ~UNCHANGED vars /\ ~Crash /\ ~Restart
  BY DEF vars, Crash, Restart
<1>2. PICK w \in Workers : Receive(w) \/ HandleRequest(w) \/ IndexRace(w)
  BY <1>1 DEF Next
<1>3. ~Receive(w) /\ ~InitRoot(w) /\ ~LockExclusive(w) /\ ~IndexRace(w)
  BY DEF Receive, InitRoot, LockExclusive, IndexRace
<1>4. ~PostDir(w) /\ ~PostOpen(w) /\ ~PostWrite(w) /\ ~Put(w)
  BY DEF PostDir, PostOpen, PostWrite, Put, PutOpen, PutWrite
<1>5. ~Delete(w) /\ ~Get(w)
  BY DEF Delete, DeleteFile, DeleteDir, DeleteErase,
     Get, GetLookup, GetLock, GetRead, ListLookup, ListCheck, ListOpen, ListNext, ListEnd
<1>6. PostInsert(w)
  BY <1>2, <1>3, <1>4, <1>5 DEF HandleRequest, Post
<1> QED
  BY <1>1, <1>6 DEF PostInsert

(* How a worker comes to the places that WholeInv speaks of, and what an   *)
(* answer is taken from.                                                   *)
LEMMA WorkerStep ==
  ASSUME TypeOK, [Next]_vars, ~Restart, "write" \notin Faults, NEW w \in Workers
  PROVE  /\ pc'[w] \in {"get_lock", "get_read"} =>
              /\ req'[w] = req[w]
              /\ pc[w] \in {"get_lock", "get_read"} \/ (pc[w] = "get_lookup" /\ Indexed(w))
         /\ pc'[w] = "post_insert" =>
              /\ req'[w] = req[w] /\ newId'[w] = newId[w]
              /\ \/ pc[w] = "post_insert"
                 \/ pc[w] = "post_write" /\ SetFile(Dir(w), newId[w], req[w].body)
         /\ \/ ans'[w] = ans[w]
            \/ ans'[w].body = NoFile
            \/ pc[w] = "get_read" /\ ans'[w].body = files[Dir(w)][Id(w)]
<1>1. CASE Stays(w)
  BY <1>1 DEF Stays
<1> USE DEF memory, disk, mutex, call, At, Goto, Finish, Fail, Succeed, Reply, TypeOK
<1>2. CASE Receive(w)
  BY <1>2 DEF Receive
<1>3. CASE InitRoot(w)
  <2>1. req[w].method \in {"POST", "PUT", "GET", "DELETE", "HEAD"}
    BY RequestFields
  <2>2. HandleMethod(w) =>
          /\ \E p \in {"answered", "post_lock", "put_lock", "delete_lock", "get_lookup", "list_lookup"} :
               pc' = [pc EXCEPT ![w] = p]
          /\ ans' = ans \/ ans' = [ans EXCEPT ![w] = [code |-> 400, ids |-> {}, body |-> NoFile]]
    BY <2>1 DEF HandleMethod
  <2>3. /\ pc'[w] \notin {"get_lock", "get_read", "post_insert"}
        /\ ans'[w] = ans[w] \/ ans'[w].body = NoFile
    BY <1>3, <2>2 DEF InitRoot
  <2> QED
    BY <2>3
<1>4. CASE LockExclusive(w)
  BY <1>4 DEF LockExclusive, Waiting
<1>5. CASE Post(w)
  BY <1>5 DEF Post, PostDir, PostOpen, PostWrite, PostInsert
<1>6. CASE Put(w) \/ Delete(w)
  BY <1>6 DEF Put, PutOpen, PutWrite, Delete, DeleteFile, DeleteDir, DeleteErase
<1>7. CASE Get(w)
  <2>1. CASE GetLookup(w)
    BY <2>1 DEF GetLookup
  <2>2. CASE GetLock(w)
    BY <2>2 DEF GetLock
  <2>3. CASE GetRead(w)
    BY <2>3 DEF GetRead
  <2>4. CASE ListLookup(w) \/ ListCheck(w)
    BY <2>4 DEF ListLookup, ListCheck
  <2>5. CASE ListOpen(w) \/ ListNext(w)
    BY <2>5 DEF ListOpen, ListNext
  <2>6. CASE ListEnd(w)
    BY <2>6 DEF ListEnd
  <2> QED
    BY <1>7, <2>1, <2>2, <2>3, <2>4, <2>5, <2>6 DEF Get
<1> QED
  BY <1>1, <1>2, <1>3, <1>4, <1>5, <1>6, <1>7, OwnStep DEF HandleRequest

(* Every step preserves the invariant, as long as writes succeed. *)
LEMMA NextWholeInv ==
  ASSUME TypeOK, MutexInv, WholeInv, [Next]_vars, "write" \notin Faults
  PROVE  WholeInv'
<1>1. CASE Restart
  BY <1>1, CrudAssumption DEF Restart, WholeInv, NoTornRead, NoAnswer, Reply
<1>2. CASE ~Restart
  <2>1. ASSUME NEW e \in Entities, NEW i \in ids'[e] PROVE Whole(DirOf[e], i)'
    <3>1. CASE i \in ids[e]
      BY <1>2, <3>1, WholeKept, CrudAssumption DEF WholeInv, TypeOK
    <3>2. CASE i \notin ids[e]
      <4>1. PICK w \in Workers : pc[w] = "post_insert" /\ e = Entity(w) /\ i = newId[w]
        BY <2>1, <3>2, NewIds
      <4>2. Whole(DirOf[e], i) /\ DirOf[e] \in Dirs /\ i \in Ids
        BY <4>1, CrudAssumption DEF WholeInv, Dir, TypeOK
      <4> QED
        BY <1>2, <4>2, WholeKept
    <3> QED
      BY <3>1, <3>2
  <2>2. ASSUME NEW w \in Workers, pc'[w] \in {"get_lock", "get_read"} PROVE Whole(Dir(w), Id(w))'
    <3>1. /\ req'[w] = req[w]
          /\ pc[w] \in {"get_lock", "get_read"} \/ (pc[w] = "get_lookup" /\ Indexed(w))
      BY <1>2, <2>2, WorkerStep
    <3>2. Entity(w) \in Entities /\ Dir(w) \in Dirs /\ Id(w) \in Ids
      BY <3>1, PlaceFacts DEF Found
    <3>3. Whole(Dir(w), Id(w))
      BY <3>1, <3>2 DEF WholeInv, Indexed, Dir
    <3>4. \A d \in Dirs, i \in Ids : Whole(d, i) => Whole(d, i)'
      BY <1>2, WholeKept
    <3>5. \A d, i : d = Dir(w) /\ i = Id(w) => d = Dir(w)' /\ i = Id(w)'
      BY <3>1 DEF Dir, Entity, Id
    <3> QED
      BY <3>2, <3>3, <3>4, <3>5 DEF Whole
  <2>3. ASSUME NEW w \in Workers, pc'[w] = "post_insert" PROVE Whole(Dir(w), newId[w])'
    <3>1. /\ req'[w] = req[w] /\ newId'[w] = newId[w]
          /\ \/ pc[w] = "post_insert"
             \/ pc[w] = "post_write" /\ SetFile(Dir(w), newId[w], req[w].body)
      BY <1>2, <2>3, WorkerStep
    <3>2. /\ Dir(w) \in Dirs /\ newId[w] \in Ids /\ req[w].body \in Contents
          /\ Dir(w)' = Dir(w) /\ Partial \notin Contents
      BY <3>1, PlaceFacts, CrudAssumption DEF PostSection, Dir, Entity
    <3>3. CASE pc[w] = "post_write" /\ SetFile(Dir(w), newId[w], req[w].body)
      BY <3>1, <3>2, <3>3, SetFileFilesIn DEF Whole
    <3>4. CASE pc[w] = "post_insert"
      <4>1. Whole(Dir(w), newId[w])
        BY <3>4 DEF WholeInv
      <4>2. \A d \in Dirs, i \in Ids : Whole(d, i) => Whole(d, i)'
        BY <1>2, WholeKept
      <4> QED
        BY <3>1, <3>2, <4>1, <4>2 DEF Whole
    <3> QED
      BY <3>1, <3>3, <3>4
  <2>4. ASSUME NEW w \in Workers PROVE ans'[w].body # Partial
    <3>1. CASE pc[w] = "get_read" /\ ans'[w].body = files[Dir(w)][Id(w)]
      <4>1. w \in readers /\ owner = Nobody
        BY <3>1 DEF MutexInv
      <4>2. \A v \in Workers : pc[v] \notin Exclusive
        BY <4>1, CrudAssumption DEF MutexInv
      <4>3. Whole(Dir(w), Id(w))
        BY <3>1 DEF WholeInv
      <4> QED
        BY <3>1, <4>2, <4>3 DEF Whole, Writes, Exclusive, PostSection, PutSection
    <3>2. CASE ans'[w] = ans[w] \/ ans'[w].body = NoFile
      BY <3>2, CrudAssumption DEF WholeInv, NoTornRead
    <3> QED
      BY <1>2, <3>1, <3>2, WorkerStep
  <2> QED
    BY <2>1, <2>2, <2>3, <2>4 DEF WholeInv, NoTornRead
<1> QED
  BY <1>1, <1>2

(* No client reads half a file, whatever crashes, as long as the writes    *)
(* themselves do not fail (crud_handler.cc:214-222,                        *)
(* crud_filesystem_manager.cc:26, 65).                                     *)
THEOREM ReadsCorrect ==
  ASSUME "write" \notin Faults
  PROVE  Spec => []NoTornRead
<1>1. Init => WholeInv
  BY CrudAssumption DEF Init, WholeInv, NoTornRead, NoAnswer, Reply
<1>2. TypeOK /\ MutexInv /\ WholeInv /\ [Next]_vars => WholeInv'
  BY NextWholeInv
<1>3. WholeInv => NoTornRead
  BY DEF WholeInv
<1> QED
  BY <1>1, <1>2, <1>3, TypeCorrect, MutexCorrect, PTL DEF Spec
=============================================================================
