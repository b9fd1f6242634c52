-------------------------- MODULE MCContainerWatch --------------------------
(* ContainerWatch on a small instance. *)
EXTENDS ContainerWatch

Database == [image |-> "postgres", named |-> TRUE, rest |-> TRUE]
Migration == [image |-> "gotrue", named |-> TRUE, rest |-> TRUE]

(* The two containers of the script, a database whose contract is broken,  *)
(* and a container on the migration's image that runs something else.      *)
ScriptAndOffenders ==
    {Database, Migration, [Database EXCEPT !.rest = FALSE], [Migration EXCEPT !.named = FALSE]}

=============================================================================
