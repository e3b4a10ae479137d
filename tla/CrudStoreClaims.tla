--------------------------- MODULE CrudStoreClaims ---------------------------
(***************************************************************************)
(* What comments and the README say of the CRUD service and the code does  *)
(* not do.  Each run of one of these ends in a counterexample.             *)
(***************************************************************************)
EXTENDS CrudStore

Answers(w, place, code) ==
  pc[w] = place /\ pc'[w] = "answered" /\ ans'[w].code = code

(* crud_handler.cc:197 "Returns empty list if entity does not exist": an   *)
(* entity all of whose instances were deleted has no instance left, but    *)
(* its key stays in entity_to_id_ and its directory is gone.               *)
EmptyListIfNoEntity ==
  [][\A w \in Workers : Answers(w, "list_check", 500) => ids[Entity(w)] # {}]_vars

(* crud_handler.cc:197-198 "Returns INTERNAL_SERVER_ERROR if file reading  *)
(* or file listing operations fail": listing a directory that a DELETE     *)
(* removes in between throws instead.                                      *)
ListingFailureIsAnswered == status # "down"

(* README.md:120 "Find next available ID (1) and writes POST body": after  *)
(* a restart with old files on disk a POST finds an id that is not         *)
(* available, every time.                                                  *)
PostFindsAvailableId ==
  [][\A w \in Workers : ~Answers(w, "post_open", 500)]_vars
=============================================================================
