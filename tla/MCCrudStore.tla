----------------------------- MODULE MCCrudStore -----------------------------
(***************************************************************************)
(* Small instances of CrudStore.  The entities are the path strings        *)
(*   "/crud/a", its alias "/crud//a", and "/crud/a/1/b", whose directory   *)
(* lies in a directory that has the name of instance 1 of a.               *)
(***************************************************************************)
EXTENDS CrudStoreRefinement, CrudStoreClaims, TLC

MCDirs == {"crud", "crud/a", "crud/a/1", "crud/a/1/b"}

MCDirOf ==
  [e \in Entities |-> IF e = "crud/a/1/b" THEN "crud/a/1/b" ELSE "crud/a"]

MCAbove ==
  "crud" :> {} @@ "crud/a" :> {"crud"} @@ "crud/a/1" :> {"crud", "crud/a"}
    @@ "crud/a/1/b" :> {"crud", "crud/a", "crud/a/1"}

MCNumbered == {<<"crud/a/1", "crud/a", 1>>}

On(e, i) == [entity |-> e, id |-> i]

OneEntity      == {On("crud/a", NoId), On("crud/a", 1)}
OtherSpelling  == {On("crud/a", NoId), On("crud/a", 1), On("crud//a", NoId)}
NestedTargets  == {On("crud/a", NoId), On("crud/a", 1), On("crud/a/1/b", NoId), On("crud/a/1/b", 1)}
OddTargets     == {On("crud/a", NoId), On("crud/a", MaxId + 1), On(NoEntity, 1)}
PathTargets    == NestedTargets \cup OddTargets
AllTargets     == OtherSpelling \cup PathTargets

Symmetry == Permutations(Workers) \cup Permutations(Contents)
=============================================================================
