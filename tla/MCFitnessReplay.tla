--------------------------- MODULE MCFitnessReplay ---------------------------
(* The values the runs give to the constants of FitnessReplay. *)
EXTENDS FitnessReplay

(* The text of a boolean the adapter compares with, and PostgreSQL's cast *)
AdapterText == [b \in BOOLEAN |-> IF b THEN "t" ELSE "f"]
CastText == [b \in BOOLEAN |-> IF b THEN "true" ELSE "false"]

OnlyGood == {"none"}

=============================================================================
