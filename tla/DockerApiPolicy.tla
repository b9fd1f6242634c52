--------------------------- MODULE DockerApiPolicy ---------------------------
(***************************************************************************)
(* scripts/docker_api_boundary.py in its DB_START_V1 mode: the observer    *)
(* that stands between `supabase db start' and the Docker daemon, admits   *)
(* one fixed sequence of exchanges, and leaves a receipt whose exit code   *)
(* the harness gates on.                                                   *)
(*                                                                         *)
(* Each client connection is a task with its own upstream connection; they *)
(* share the policy's ledger and one lock, and interleave at every await:  *)
(* a request is read, checked, authorized and written to the daemon        *)
(* without a pause, then the handler waits for the head of the answer, for *)
(* its body, and for the reply to drain to the client.  The daemon and the *)
(* client are external.  A request is the pair of an operation and its     *)
(* object; whatever else the policy compares (headers, JSON body, labels,  *)
(* ports, media types) decides whether a request is the admitted one and   *)
(* whether an answer matches.                                              *)
(***************************************************************************)
EXTENDS Naturals, Sequences, FiniteSets

CONSTANTS
    Conns,        \* client connections open at once
    Ids,          \* container ids the daemon may hand out
    HealthLimit,  \* health probes admitted (121 in the code)
    MaxFaults     \* bound on connection errors, a named bound of the model

(* An id is 64 hexadecimal digits: none of these words, and not the only   *)
(* one.                                                                    *)
ASSUME IdsAssumption ==
    /\ Ids \cap {"none", "match", "drift", "healthy", "starting"} = {}
    /\ \E db, gotrue \in Ids : db # gotrue
ASSUME HealthLimitAssumption == HealthLimit \in Nat \ {0}
ASSUME MaxFaultsAssumption == MaxFaults \in Nat

VARIABLES
    ledger,      \* DBStartPolicy
    receipt,     \* Receipt; its counts are kept as "not zero"
    conn,        \* per connection: where its handler is
    server,      \* the observer process
    effects,     \* daemon: the writes it has carried out, in order
    orphans,     \* daemon: requests it was sent by handlers that are gone
    healthSeen,  \* daemon: it has reported the database healthy
    faults

daemonVars == <<effects, orphans, healthSeen>>
vars == <<ledger, receipt, conn, server, effects, orphans, healthSeen, faults>>

-----------------------------------------------------------------------------
(* Requests and the ledger *)

NoId == "none"

Writes == {"volume_create", "network_create", "create", "start", "remove", "other_write"}

IsWrite(req) == req[1] \in Writes

Requests ==
    {<<"ping_head", "api">>, <<"ping_get", "api">>, <<"volume_inspect", "volume">>,
     <<"volume_create", "volume">>, <<"network_create", "network">>,
     <<"other_read", "none">>, <<"other_write", "none">>}
        \cup ({"image"} \X {"postgres", "gotrue"})
        \cup ({"create"} \X {"db", "gotrue"})
        \cup ({"inspect", "logs"} \X ({"db"} \cup Ids))
        \cup ({"start", "remove"} \X Ids)

(* The ledger's states and the only request each one admits.  The database *)
(* is addressed by name, except to start it; GoTrue has no name.           *)
Admitted(state) ==
    CASE state = "NEGOTIATE_HEAD" -> <<"ping_head", "api">>
      [] state = "NEGOTIATE_GET" -> <<"ping_get", "api">>
      [] state \in {"DB_INSPECT", "DB_HEALTH"} -> <<"inspect", "db">>
      [] state = "VOLUME_INSPECT" -> <<"volume_inspect", "volume">>
      [] state = "PG_IMAGE_INSPECT" -> <<"image", "postgres">>
      [] state = "GOTRUE_IMAGE_INSPECT" -> <<"image", "gotrue">>
      [] state \in {"NETWORK_DB", "NETWORK_GOTRUE"} -> <<"network_create", "network">>
      [] state = "VOLUME_CREATE" -> <<"volume_create", "volume">>
      [] state = "DB_CREATE" -> <<"create", "db">>
      [] state = "GOTRUE_CREATE" -> <<"create", "gotrue">>
      [] state = "DB_START" -> <<"start", ledger.db>>
      [] state = "GOTRUE_START" -> <<"start", ledger.gotrue>>
      [] state = "DB_LOGS" -> <<"logs", "db">>
      [] state = "GOTRUE_LOGS" -> <<"logs", ledger.gotrue>>
      [] state = "GOTRUE_INSPECT" -> <<"inspect", ledger.gotrue>>
      [] state = "GOTRUE_REMOVE" -> <<"remove", ledger.gotrue>>
      [] OTHER -> <<"nothing", "none">>

(* The ledger state after an accepted answer, where it depends on nothing  *)
(* but the state before.                                                   *)
Follow ==
    [NEGOTIATE_GET |-> "DB_INSPECT", DB_INSPECT |-> "VOLUME_INSPECT",
     VOLUME_INSPECT |-> "PG_IMAGE_INSPECT", PG_IMAGE_INSPECT |-> "NETWORK_DB",
     NETWORK_DB |-> "VOLUME_CREATE", VOLUME_CREATE |-> "DB_CREATE",
     DB_CREATE |-> "DB_START", DB_START |-> "DB_HEALTH", DB_LOGS |-> "FAILED",
     GOTRUE_IMAGE_INSPECT |-> "NETWORK_GOTRUE", NETWORK_GOTRUE |-> "GOTRUE_CREATE",
     GOTRUE_CREATE |-> "GOTRUE_START", GOTRUE_START |-> "GOTRUE_LOGS",
     GOTRUE_LOGS |-> "GOTRUE_INSPECT", GOTRUE_INSPECT |-> "GOTRUE_REMOVE",
     GOTRUE_REMOVE |-> "COMPLETE"]

Steps == DOMAIN Follow \cup {"NEGOTIATE_HEAD", "DB_HEALTH"}

Streams == {"DB_LOGS", "GOTRUE_LOGS"}

(* Mutant of ExpectedCodes: that no volume could be made is overlooked. *)
ExpectedCodesVolume(step) ==
    CASE step = "NEGOTIATE_HEAD" -> {200, 405}
      [] step \in {"DB_INSPECT", "VOLUME_INSPECT"} -> {404}
      [] step \in {"NETWORK_DB", "NETWORK_GOTRUE"} -> {409}
      [] step = "VOLUME_CREATE" -> {201, 500}
      [] step \in {"DB_CREATE", "GOTRUE_CREATE"} -> {201}
      [] step \in {"DB_START", "GOTRUE_START", "GOTRUE_REMOVE"} -> {204}
      [] OTHER -> {200}

ExpectedCodes(step) ==
    CASE step = "NEGOTIATE_HEAD" -> {200, 405}
      [] step \in {"DB_INSPECT", "VOLUME_INSPECT"} -> {404}
      [] step \in {"NETWORK_DB", "NETWORK_GOTRUE"} -> {409}
      [] step \in {"VOLUME_CREATE", "DB_CREATE", "GOTRUE_CREATE"} -> {201}
      [] step \in {"DB_START", "GOTRUE_START", "GOTRUE_REMOVE"} -> {204}
      [] OTHER -> {200}

(* accept refuses an answer whose content is not the frozen one. *)
BodyAccepted(step, answer) ==
    CASE step = "NEGOTIATE_HEAD" -> answer.code = 405 \/ answer.body = "match"
      [] step \in {"NEGOTIATE_GET", "PG_IMAGE_INSPECT", "GOTRUE_IMAGE_INSPECT",
                   "GOTRUE_INSPECT"} -> answer.body = "match"
      [] step \in {"DB_CREATE", "GOTRUE_CREATE"} ->
            answer.body \in Ids \ {ledger.db, ledger.gotrue}
      [] step = "DB_HEALTH" -> answer.body \in {"healthy", "starting"}
      [] OTHER -> TRUE

(* Mutant of NextState: the last probe lets the migration start anyway. *)
NextStateResigned(step, answer) ==
    CASE step = "NEGOTIATE_HEAD" ->
            IF answer.code = 405 THEN "NEGOTIATE_GET" ELSE "DB_INSPECT"
      [] step = "DB_HEALTH" ->
            IF answer.body = "healthy" \/ ledger.probes + 1 >= HealthLimit
            THEN "GOTRUE_IMAGE_INSPECT" ELSE "DB_HEALTH"
      [] OTHER -> Follow[step]

NextState(step, answer) ==
    CASE step = "NEGOTIATE_HEAD" ->
            IF answer.code = 405 THEN "NEGOTIATE_GET" ELSE "DB_INSPECT"
      [] step = "DB_HEALTH" ->
            IF answer.body = "healthy" THEN "GOTRUE_IMAGE_INSPECT"
            ELSE IF ledger.probes + 1 < HealthLimit THEN "DB_HEALTH" ELSE "DB_LOGS"
      [] OTHER -> Follow[step]

AcceptedLedger(step, answer) ==
    [state |-> NextState(step, answer),
     probes |-> IF step = "DB_HEALTH" THEN ledger.probes + 1 ELSE ledger.probes,
     db |-> IF step = "DB_CREATE" THEN answer.body ELSE ledger.db,
     gotrue |-> IF step = "GOTRUE_CREATE" THEN answer.body ELSE ledger.gotrue,
     complete |-> ledger.complete \/ step = "GOTRUE_REMOVE"]

InitLedger ==
    [state |-> "NEGOTIATE_HEAD", probes |-> 0, db |-> NoId, gotrue |-> NoId,
     complete |-> FALSE]

-----------------------------------------------------------------------------
(* Handlers *)

NoRequest == <<"nothing", "none">>
NoAnswer == [code |-> 0, body |-> "none"]
Closed == [pc |-> "closed", req |-> NoRequest, step |-> "none", answer |-> NoAnswer]

(* An exchange holds exchange_lock from its request to its drained reply. *)
InExchange == {"forwarded", "answered", "body", "relay"}
Locked == \E c \in Conns : conn[c].pc \in InExchange

Init ==
    /\ ledger = InitLedger
    /\ receipt = [violated |-> FALSE, writeAttempt |-> FALSE, forwarding |-> FALSE,
                  complete |-> FALSE]
    /\ conn = [c \in Conns |-> Closed]
    /\ server = "listening"
    /\ effects = <<>> /\ orphans = {} /\ healthSeen = FALSE
    /\ faults = 0

(* except PolicyViolation: the policy is shut for good, and a violation    *)
(* during a write request counts as a write attempt.                       *)
Violate(c, write) ==
    /\ ledger' = [ledger EXCEPT !.state = "FAILED"]
    /\ receipt' = [receipt EXCEPT !.violated = TRUE,
                                  !.writeAttempt = @ \/ write,
                                  !.complete = ledger.complete]
    /\ conn' = [conn EXCEPT ![c] = Closed]

(* A client connects and the upstream connection is made. *)
Connect(c) ==
    /\ server = "listening" /\ conn[c].pc = "closed"
    /\ conn' = [conn EXCEPT ![c].pc = "idle"]
    /\ UNCHANGED <<ledger, receipt, server, daemonVars, faults>>

Disconnect(c) ==
    /\ conn[c].pc = "idle"
    /\ conn' = [conn EXCEPT ![c] = Closed]
    /\ UNCHANGED <<ledger, receipt, server, daemonVars, faults>>

(* The admitted request, with no exchange in progress, goes upstream. *)
Forward(c) ==
    /\ conn[c].pc = "idle" /\ ~Locked
    /\ ledger.state \in Steps
    /\ conn' = [conn EXCEPT ![c] = [pc |-> "forwarded", req |-> Admitted(ledger.state),
                                    step |-> ledger.state, answer |-> NoAnswer]]
    /\ UNCHANGED <<ledger, receipt, server, daemonVars, faults>>

(* Mutant of RefuseConcurrent: the violation is counted, the policy stays  *)
(* open.                                                                   *)
RefuseConcurrentOpen(c) ==
    /\ conn[c].pc = "idle" /\ Locked
    /\ receipt' = [receipt EXCEPT !.violated = TRUE]
    /\ conn' = [conn EXCEPT ![c] = Closed]
    /\ UNCHANGED <<ledger, server, daemonVars, faults>>

(* A request during another exchange. *)
RefuseConcurrent(c) ==
    /\ conn[c].pc = "idle" /\ Locked
    /\ \E write \in BOOLEAN : Violate(c, write)
    /\ UNCHANGED <<server, daemonVars, faults>>

(* A request that is not the admitted one; only its class leaves a trace. *)
Refuse(c) ==
    /\ conn[c].pc = "idle" /\ ~Locked
    /\ \E write \in {IsWrite(req) : req \in Requests \ {Admitted(ledger.state)}} :
          Violate(c, write)
    /\ UNCHANGED <<server, daemonVars, faults>>

(* Framing the parser refuses; current_method is still the last request's. *)
RefuseFraming(c) ==
    /\ conn[c].pc = "idle"
    /\ Violate(c, IsWrite(conn[c].req))
    /\ UNCHANGED <<server, daemonVars, faults>>

(* What an abandoned exchange leaves with the daemon. *)
Abandoned(cs) == {conn[c].req : c \in {k \in cs : conn[k].pc = "forwarded"}}

(* The head of the answer: its status, and a stream's media type, before   *)
(* anything reaches the client.  A head that is not HTTP, or an upstream   *)
(* that closes instead, is a violation too.                                *)
ReadHead(c) ==
    \/ /\ conn[c].pc = "answered"
       /\ conn[c].answer.code \in ExpectedCodes(conn[c].step)
       /\ conn[c].step \in Streams => conn[c].answer.body = "match"
       /\ conn' = [conn EXCEPT ![c].pc = "body"]
       /\ UNCHANGED <<ledger, receipt, server, daemonVars, faults>>
    \/ /\ conn[c].pc \in {"forwarded", "answered"}
       /\ Violate(c, IsWrite(conn[c].req))
       /\ orphans' = orphans \cup Abandoned({c})
       /\ UNCHANGED <<server, effects, healthSeen, faults>>

(* Mutant of ReadBody: the answer is matched with the ledger as it now is. *)
ReadBodyWaiting(c) ==
    /\ conn[c].pc = "body" /\ conn[c].step = ledger.state
    /\ IF BodyAccepted(conn[c].step, conn[c].answer)
       THEN /\ ledger' = AcceptedLedger(conn[c].step, conn[c].answer)
            /\ conn' = [conn EXCEPT ![c].pc = "relay"]
            /\ UNCHANGED receipt
       ELSE Violate(c, IsWrite(conn[c].req))
    /\ UNCHANGED <<server, daemonVars, faults>>

(* The body, and accept: the ledger must still be where it was when the    *)
(* request was authorized.  A body that is cut short is a violation.       *)
ReadBody(c) ==
    /\ conn[c].pc = "body"
    /\ \/ /\ conn[c].step = ledger.state
          /\ BodyAccepted(conn[c].step, conn[c].answer)
          /\ ledger' = AcceptedLedger(conn[c].step, conn[c].answer)
          /\ conn' = [conn EXCEPT ![c].pc = "relay"]
          /\ UNCHANGED receipt
       \/ Violate(c, IsWrite(conn[c].req))
    /\ UNCHANGED <<server, daemonVars, faults>>

(* The reply has drained; only now is the receipt told about the ledger. *)
Relay(c) ==
    /\ conn[c].pc = "relay"
    /\ conn' = [conn EXCEPT ![c] = [@ EXCEPT !.pc = "idle", !.step = "none",
                                             !.answer = NoAnswer]]
    /\ receipt' = [receipt EXCEPT !.complete = ledger.complete]
    /\ UNCHANGED <<ledger, server, daemonVars, faults>>

(* Mutant of ConnectionFails: the error is swallowed. *)
ConnectionFailsUnrecorded(c) ==
    /\ server \in {"listening", "draining"}
    /\ conn[c].pc # "closed"
    /\ faults < MaxFaults /\ faults' = faults + 1
    /\ orphans' = orphans \cup Abandoned({c})
    /\ conn' = [conn EXCEPT ![c] = Closed]
    /\ UNCHANGED <<ledger, receipt, server, effects, healthSeen>>

(* except OSError: either peer is gone, at the connection to the daemon or *)
(* at any later await.  The ledger stays where it is.                      *)
ConnectionFails(c) ==
    /\ \/ server = "listening"
       \/ server = "draining" /\ conn[c].pc # "closed"
    /\ faults < MaxFaults /\ faults' = faults + 1
    /\ receipt' = [receipt EXCEPT !.forwarding = TRUE]
    /\ orphans' = orphans \cup Abandoned({c})
    /\ conn' = [conn EXCEPT ![c] = Closed]
    /\ UNCHANGED <<ledger, server, effects, healthSeen>>

-----------------------------------------------------------------------------
(* The observer process *)

(* SIGTERM from stop_docker_api_observer: no new connections. *)
Stop ==
    /\ server = "listening" /\ server' = "draining"
    /\ UNCHANGED <<ledger, receipt, conn, daemonVars, faults>>

AllClosed == \A c \in Conns : conn[c].pc = "closed"

(* Every handler has ended; the state file is written. *)
Exit ==
    /\ server = "draining" /\ AllClosed
    /\ server' = "exited"
    /\ UNCHANGED <<ledger, receipt, conn, daemonVars, faults>>

(* Five seconds later the remaining handlers are cancelled, and counted. *)
DrainTimeout ==
    /\ server = "draining" /\ ~AllClosed
    /\ receipt' = [receipt EXCEPT !.forwarding = TRUE]
    /\ orphans' = orphans \cup Abandoned(Conns)
    /\ conn' = [c \in Conns |-> Closed]
    /\ server' = "exited"
    /\ UNCHANGED <<ledger, effects, healthSeen, faults>>

(* stop_docker_api_observer waits five seconds as well, then kills it: no  *)
(* state file, and the exit status 124.                                    *)
KillObserver ==
    /\ server = "draining" /\ server' = "killed"
    /\ orphans' = orphans \cup Abandoned(Conns)
    /\ conn' = [c \in Conns |-> Closed]
    /\ UNCHANGED <<ledger, receipt, effects, healthSeen, faults>>

ExitCode ==
    IF server = "killed" THEN 124
    ELSE IF receipt.writeAttempt \/ receipt.violated THEN 2
    ELSE IF ~receipt.complete THEN 3
    ELSE IF receipt.forwarding THEN 1 ELSE 0

(* The harness goes on only after a complete policy and exit code 0. *)
GatePasses == server = "exited" /\ ExitCode = 0

-----------------------------------------------------------------------------
(* The daemon, external *)

Created == {i \in Ids : \E k \in 1..Len(effects) :
                effects[k] \in {<<"create", "db", i>>, <<"create", "gotrue", i>>}}

Did(e) == \E k \in 1..Len(effects) : effects[k] = e

DatabaseExists == \E i \in Ids : Did(<<"create", "db", i>>)

(* What the daemon may do with a request: an answer, and the effects so    *)
(* far.  It may always refuse with 500 and no effect.                      *)
Outcomes(req) ==
    LET op == req[1]
        obj == req[2]
        Answer(codes, bodies, log) ==
            {<<[code |-> c, body |-> b], log>> : c \in codes, b \in bodies}
        Reads(codes) == Answer(codes, {"match", "drift"}, effects)
    IN  Answer({500}, {"drift"}, effects) \cup
       (CASE op = "ping_head" -> Reads({200, 405})
          [] op = "volume_inspect" -> Reads({IF Did(<<"volume_create", "volume">>)
                                             THEN 200 ELSE 404})
          [] op = "inspect" /\ obj = "db" ->
                Answer({IF DatabaseExists THEN 200 ELSE 404},
                       {"healthy", "starting", "drift"}, effects)
          [] op = "network_create" ->
                Reads({409}) \cup Answer({201}, {"match"}, Append(effects, req))
          [] op = "volume_create" ->
                Answer({201}, {"match"}, IF Did(req) THEN effects ELSE Append(effects, req))
          [] op = "create" ->
                IF obj = "db" /\ DatabaseExists THEN Reads({409})
                ELSE UNION {Answer({201}, {i}, Append(effects, <<"create", obj, i>>)) :
                               i \in Ids \ Created}
          [] op = "start" ->
                IF Did(req) THEN Reads({304})
                ELSE Answer({204}, {"match"}, Append(effects, req))
          [] op = "remove" ->
                IF Did(req) THEN Reads({404})
                ELSE Answer({204}, {"match"}, Append(effects, req))
          [] OTHER -> Reads({200}))

Reports(answer) ==
    healthSeen' = (healthSeen \/ (answer.code = 200 /\ answer.body = "healthy"))

Serve(c) ==
    /\ conn[c].pc = "forwarded"
    /\ \E out \in Outcomes(conn[c].req) :
         /\ conn' = [conn EXCEPT ![c].pc = "answered", ![c].answer = out[1]]
         /\ effects' = out[2]
         /\ Reports(out[1])
    /\ UNCHANGED <<ledger, receipt, server, orphans, faults>>

(* A request whose handler is gone may still be carried out, or dropped. *)
ServeLate ==
    /\ \E req \in orphans :
         /\ orphans' = orphans \ {req}
         /\ \/ UNCHANGED effects
            \/ \E out \in Outcomes(req) : effects' = out[2]
    /\ UNCHANGED <<ledger, receipt, conn, server, healthSeen, faults>>

-----------------------------------------------------------------------------
(* The specification *)

Handle(c) == ReadHead(c) \/ ReadBody(c) \/ Relay(c)

Next ==
    \/ \E c \in Conns :
          \/ Connect(c) \/ Disconnect(c) \/ Forward(c)
          \/ RefuseConcurrent(c) \/ Refuse(c) \/ RefuseFraming(c)
          \/ ReadHead(c) \/ ReadBody(c) \/ Relay(c)
          \/ ConnectionFails(c) \/ Serve(c)
    \/ ServeLate
    \/ Stop \/ Exit \/ DrainTimeout \/ KillObserver

Spec == Init /\ [][Next]_vars

(* The daemon answers or drops a request, and a handler whose answer has   *)
(* arrived runs.  Nothing is assumed of clients or of the daemon's data.   *)
LiveSpec == Spec /\ \A c \in Conns : WF_vars(Serve(c)) /\ WF_vars(Handle(c))

-----------------------------------------------------------------------------
(* Properties *)

Codes == {0, 200, 201, 204, 304, 404, 405, 409, 500}
Bodies == {"none", "match", "drift", "healthy", "starting"} \cup Ids
LedgerStates == Steps \cup {"COMPLETE", "FAILED"}
EffectSet ==
    {<<"volume_create", "volume">>, <<"network_create", "network">>}
        \cup ({"create"} \X {"db", "gotrue"} \X Ids) \cup ({"start", "remove"} \X Ids)

(* Types; the ledger's ids are distinct once they are known, and it has    *)
(* counted no more probes than HealthLimit.                                *)
TypeOK ==
    /\ ledger \in [state : LedgerStates, probes : 0..HealthLimit, db : Ids \cup {NoId},
                   gotrue : Ids \cup {NoId}, complete : BOOLEAN]
    /\ ledger.db = ledger.gotrue => ledger.db = NoId
    /\ receipt \in [violated : BOOLEAN, writeAttempt : BOOLEAN, forwarding : BOOLEAN,
                    complete : BOOLEAN]
    /\ conn \in [Conns -> [pc : InExchange \cup {"closed", "idle"},
                           req : Requests \cup {NoRequest}, step : Steps \cup {"none"},
                           answer : [code : Codes, body : Bodies]]]
    /\ server \in {"listening", "draining", "exited", "killed"}
    /\ effects \in Seq(EffectSet)
    /\ orphans \subseteq Requests
    /\ healthSeen \in BOOLEAN
    /\ faults \in 0..MaxFaults

(* Something went wrong that the receipt, or its absence, must show. *)
Faulted ==
    \/ receipt.violated \/ receipt.forwarding \/ server = "killed"
    \/ Did(<<"network_create", "network">>)

Script == INSTANCE DbStartScript
             WITH faulted <- Faulted,
                  verdict <- IF GatePasses THEN "pass"
                             ELSE IF server \in {"exited", "killed"} THEN "fail"
                             ELSE "none"

(* The observer as a whole keeps the promise of the frozen script: however *)
(* connections, lost answers, late executions and shutdown interleave, the *)
(* daemon carries out a prefix of it until something goes wrong, and only  *)
(* a daemon that did exactly the script, once, passes the gate.            *)
ImplementsScript == Script!Spec

(* The gate passes only when the daemon did the script with the very       *)
(* containers the ledger holds, and no request is still outstanding.       *)
GateIsExact ==
    GatePasses => /\ effects = Script!Script(ledger.db, ledger.gotrue)
                  /\ orphans = {}

(* No migration container is made, by an early, a late or a repeated       *)
(* request, unless the daemon has reported the database healthy.           *)
MigrationNeedsHealth ==
    (\E i \in Ids : Did(<<"create", "gotrue", i>>)) => healthSeen

(* After a violation on any connection no request reaches the daemon, on   *)
(* that connection or another.                                             *)
ShutAfterViolation ==
    [][\A c \in Conns : receipt.violated /\ conn'[c].pc = "forwarded"
                           => conn[c].pc = "forwarded"]_vars

(* The lock is released: an exchange of a connection ends although another *)
(* may shut the policy while its answer is on the way.                     *)
ExchangeEnds(c) == conn[c].pc \in InExchange ~> conn[c].pc \notin InExchange

=============================================================================
