---------------------------- MODULE MCMediaTree ----------------------------
(* A media set under edit, on small pools of objects. *)
EXTENDS MediaTree, TLC

EditedScopes == Load \X {"data"}

(* The directories take the same parts. *)
Symmetric ==
  Permutations(Directory)
=============================================================================
