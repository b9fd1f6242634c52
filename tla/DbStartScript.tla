---------------------------- MODULE DbStartScript ----------------------------
(***************************************************************************)
(* What the Docker API boundary promises about `supabase db start`, seen   *)
(* from the Docker daemon: the six writes of the frozen script, in order   *)
(* and once each, for as long as no exchange has gone wrong; nothing but   *)
(* writes of that script after that; and a PASS only for the whole script  *)
(* with nothing gone wrong.  Two observer processes, the client's          *)
(* connections, the ledger and the HTTP exchanges are all left out.        *)
(***************************************************************************)
EXTENDS Naturals, Sequences

CONSTANTS
    Ids       \* container ids the daemon hands out

VARIABLES
    effects,  \* what the daemon did, in order
    faulted,  \* an exchange went wrong
    verdict   \* "none", "pass" or "fail"

vars == <<effects, faulted, verdict>>

Script(db, gotrue) ==
    << <<"volume_create", "volume">>,
       <<"create", "db", db>>, <<"start", db>>,
       <<"create", "gotrue", gotrue>>, <<"start", gotrue>>, <<"remove", gotrue>> >>

ScriptWrites ==
    {<<"volume_create", "volume">>, <<"network_create", "network">>}
        \cup ({"create"} \X {"db", "gotrue"} \X Ids)
        \cup ({"start", "remove"} \X Ids)

(* The daemon has done exactly the whole script. *)
WholeScript ==
    \E db, gotrue \in Ids : db # gotrue /\ effects = Script(db, gotrue)

Init == effects = <<>> /\ faulted = FALSE /\ verdict = "none"

(* The next write of the script. *)
Advance ==
    /\ ~faulted /\ verdict = "none"
    /\ \E db, gotrue \in Ids : 
         /\ db # gotrue
         /\ Len(effects) < 6
         /\ effects' = SubSeq(Script(db, gotrue), 1, Len(effects) + 1)
         /\ effects = SubSeq(Script(db, gotrue), 1, Len(effects))
    /\ UNCHANGED <<faulted, verdict>>

Fault ==
    /\ faulted' = TRUE /\ UNCHANGED <<effects, verdict>>

(* Once something has gone wrong a request may be executed late, or again. *)
(* Creating the network is itself a fault.                                 *)
Stray ==
    /\ verdict # "pass"
    /\ \E e \in ScriptWrites :
         /\ effects' = Append(effects, e)
         /\ faulted \/ e = <<"network_create", "network">>
    /\ faulted' = TRUE
    /\ UNCHANGED verdict

Finish ==
    /\ verdict = "none"
    /\ \/ ~faulted /\ WholeScript /\ verdict' = "pass" /\ UNCHANGED faulted
       \/ verdict' = "fail" /\ faulted' \in {faulted, TRUE}
    /\ UNCHANGED effects

Next == Advance \/ Fault \/ Stray \/ Finish

Spec == Init /\ [][Next]_vars

=============================================================================
