------------------------- MODULE CrudStoreRefinement -------------------------
(***************************************************************************)
(* CrudStore implements EntityStore.  A POST takes effect when its id is   *)
(* registered, a PUT when it truncates the file (from then on nobody reads *)
(* the old content), a DELETE when the file goes; a GET when it looks up   *)
(* in vain or reads.  A list starts when it opens its iterator.            *)
(***************************************************************************)
EXTENDS CrudStore

Updating(e, i) ==
  {w \in Workers : pc[w] = "put_write" /\ Entity(w) = e /\ Id(w) = i}

storeBar ==
  [e \in Entities |-> [i \in Ids |->
     IF i \notin ids[e] THEN NoFile
     ELSE IF Updating(e, i) # {} THEN req[CHOOSE w \in Updating(e, i) : TRUE].body
     ELSE files[DirOf[e]][i]]]

TakenEffect(w) == pc[w] \in {"put_write", "delete_dir", "delete_erase"}

stateBar ==
  [w \in Workers |-> IF pc[w] = "idle" THEN "idle"
                     ELSE IF pc[w] = "answered" \/ TakenEffect(w) THEN "done"
                     ELSE IF pc[w] = "list_next" THEN "listing"
                     ELSE "pending"]

answerBar ==
  [w \in Workers |-> IF pc[w] = "answered" THEN ans[w]
                     ELSE IF TakenEffect(w) THEN Reply(200, {Id(w)}, NoFile)
                     ELSE NoAnswer]

Store == INSTANCE EntityStore WITH
  Clients <- Workers, Place <- DirOf, Requests <- Request, None <- NoFile,
  Answer <- Reply, store <- storeBar, state <- stateBar, request <- req,
  answer <- answerBar, fresh <- restarts = 0

(* The CRUD service behaves like the store: concurrent requests for        *)
(* instances, half done file operations, failures and restarts never show  *)
(* a client a state no order of whole requests could have produced; and a  *)
(* list, which walks the directory without the lock, misses no instance    *)
(* that stays and names none that was never there while it ran             *)
(* (crud_handler.cc:70-254, crud_filesystem_manager.cc).                   *)
ServesStore == Store!Spec
=============================================================================
