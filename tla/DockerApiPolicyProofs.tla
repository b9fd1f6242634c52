------------------------ MODULE DockerApiPolicyProofs ------------------------
(***************************************************************************)
(* The policy proxy keeps its promise: proofs for any connections, any ids *)
(* and any number of health probes and connection errors.                  *)
(***************************************************************************)
EXTENDS DockerApiPolicy, SequenceTheorems, TLAPS

(* The ledger before the database was started, from the first id on, and   *)
(* after the database was seen healthy.                                    *)
BeforeCreate ==
    {"NEGOTIATE_HEAD", "NEGOTIATE_GET", "DB_INSPECT", "VOLUME_INSPECT", "PG_IMAGE_INSPECT",
     "NETWORK_DB", "VOLUME_CREATE", "DB_CREATE"}
BeforeHealth == BeforeCreate \cup {"DB_START"}
WithGotrue == {"GOTRUE_START", "GOTRUE_LOGS", "GOTRUE_INSPECT", "GOTRUE_REMOVE", "COMPLETE"}
AfterHealth == {"GOTRUE_IMAGE_INSPECT", "NETWORK_GOTRUE", "GOTRUE_CREATE"} \cup WithGotrue

Networks == {"NETWORK_DB", "NETWORK_GOTRUE"}
WriteSteps == {"VOLUME_CREATE", "DB_CREATE", "DB_START", "GOTRUE_CREATE", "GOTRUE_START",
               "GOTRUE_REMOVE"} \cup Networks

(* How much of the script the daemon has carried out when the ledger is in *)
(* a state and no exchange has been answered.  "FAILED" is only met here   *)
(* after the database's logs.                                              *)
Written(state) ==
    CASE state \in BeforeCreate \ {"DB_CREATE"} -> 0
      [] state = "DB_CREATE" -> 1
      [] state = "DB_START" -> 2
      [] state = "GOTRUE_START" -> 4
      [] state \in {"GOTRUE_LOGS", "GOTRUE_INSPECT", "GOTRUE_REMOVE"} -> 5
      [] state = "COMPLETE" -> 6
      [] OTHER -> 3

(* A log is the first n writes of the script. *)
Prefix(log, n, db, gotrue) ==
    Len(log) = n /\ \A k \in 1..n : log[k] = Script!Script(db, gotrue)[k]

Waiting == {"forwarded", "answered", "body"}

(* What the observer has recorded so far is good. *)
Clean == ~receipt.violated /\ ~receipt.forwarding /\ server # "killed"

(* The daemon has carried out a write the ledger does not know of yet. *)
Carries(c) ==
    /\ conn[c].pc \in {"answered", "body"} /\ conn[c].step \in WriteSteps
    /\ conn[c].answer.code \in {201, 204}

(* The ids of the ledger once the answer is accepted *)
DbAfter(c) == IF conn[c].step = "DB_CREATE" THEN conn[c].answer.body ELSE ledger.db
GotrueAfter(c) == IF conn[c].step = "GOTRUE_CREATE" THEN conn[c].answer.body ELSE ledger.gotrue

-----------------------------------------------------------------------------
(* The inductive invariant *)

(* A ledger state says which ids are known, how many probes were made, and *)
(* whether the script may be over; a violation has shut it.                *)
LedgerKnows ==
    /\ ledger.state \in BeforeHealth => ledger.probes = 0
    /\ ledger.state = "DB_HEALTH" => ledger.probes < HealthLimit
    /\ ledger.state \in {"DB_START", "DB_HEALTH", "DB_LOGS"} \cup AfterHealth => ledger.db \in Ids
    /\ ledger.state \in WithGotrue => ledger.gotrue \in Ids
    /\ ledger.complete => ledger.state \in {"COMPLETE", "FAILED"}
    /\ ledger.complete /\ ~receipt.violated => ledger.state = "COMPLETE"
    /\ receipt.complete => ledger.complete
    /\ receipt.violated => ledger.state = "FAILED"

(* The lock; and an exchange is for the request of the step at which the   *)
(* ledger still stands, unless a violation has shut it since.              *)
ExchangesAgree ==
    /\ \A c, d \in Conns : conn[c].pc \in InExchange /\ conn[d].pc \in InExchange => c = d
    /\ \A c \in Conns : conn[c].pc \in Waiting =>
          /\ conn[c].step \in Steps
          /\ conn[c].req = Admitted(conn[c].step) /\ conn[c].req \in Requests
          /\ receipt.violated \/ ledger.state = conn[c].step
    /\ \A c \in Conns : conn[c].pc = "body" =>
          /\ conn[c].answer.code \in ExpectedCodes(conn[c].step)
    /\ server \in {"exited", "killed"} => AllClosed

(* A request is abandoned only with a trace in the receipt. *)
NothingAbandoned == Clean => orphans = {}

(* Nobody holds a request for the migration before the daemon has reported *)
(* the database healthy, nor does the ledger admit one.                    *)
HealthKnown ==
    /\ ledger.state \in AfterHealth => healthSeen
    /\ \A c \in Conns : conn[c].req = <<"create", "gotrue">> => healthSeen
    /\ <<"create", "gotrue">> \in orphans => healthSeen
    /\ \A c \in Conns :
          /\ conn[c].pc \in {"answered", "body"}
          /\ conn[c].answer.code = 200 /\ conn[c].answer.body = "healthy"
          => healthSeen
    /\ MigrationNeedsHealth

(* As long as nothing went wrong the daemon has carried out what the       *)
(* ledger says, and the one write whose answer is on the way.              *)
EffectsKnown ==
    Clean =>
      /\ \A c \in Conns : Carries(c) /\ conn[c].step \notin Networks =>
            Prefix(effects, Written(conn[c].step) + 1, DbAfter(c), GotrueAfter(c))
      /\ (\A c \in Conns : ~Carries(c)) =>
            Prefix(effects, Written(ledger.state), ledger.db, ledger.gotrue)

Inv ==
    /\ TypeOK /\ LedgerKnows /\ ExchangesAgree
    /\ NothingAbandoned /\ HealthKnown /\ EffectsKnown

-----------------------------------------------------------------------------
(* Lemmas about the operators of the model *)

Answers == [code : Codes, body : Bodies]
Handlers == [pc : InExchange \cup {"closed", "idle"}, req : Requests \cup {NoRequest},
             step : Steps \cup {"none"}, answer : Answers]
Receipts == [violated : BOOLEAN, writeAttempt : BOOLEAN, forwarding : BOOLEAN, complete : BOOLEAN]
Ledgers == [state : LedgerStates, probes : 0..HealthLimit, db : Ids \cup {NoId},
            gotrue : Ids \cup {NoId}, complete : BOOLEAN]

(* The daemon appends at most the write it was asked for. *)
LEMMA OutcomeShape ==
    ASSUME NEW req \in Requests, NEW out \in Outcomes(req)
    PROVE  /\ out[1] \in Answers
           /\ \/ out[2] = effects
              \/ /\ req[1] \in {"network_create", "volume_create", "start", "remove"}
                 /\ out[2] = Append(effects, req)
              \/ /\ req[1] = "create"
                 /\ \E i \in Ids \ Created : out[2] = Append(effects, <<"create", req[2], i>>)
  BY DEF Outcomes, Answers, Codes, Bodies

(* An answer of success to a write stands for that write. *)
LEMMA OutcomeOfSuccess ==
    ASSUME NEW req \in Requests, NEW out \in Outcomes(req), out[1].code \in {201, 204}
    PROVE  /\ req[1] \in {"start", "remove"} => out[2] = Append(effects, req)
           /\ req[1] = "volume_create" /\ ~Did(req) => out[2] = Append(effects, req)
           /\ req[1] = "create" =>
                 /\ out[1].body \in Ids \ Created
                 /\ out[2] = Append(effects, <<"create", req[2], out[1].body>>)
  BY DEF Outcomes

(* Any other has no effect; a network is made with a success only. *)
LEMMA OutcomeOfFailure ==
    ASSUME NEW req \in Requests, NEW out \in Outcomes(req), out[1].code \notin {201, 204}
    PROVE  out[2] = effects
  BY DEF Outcomes

(* Nor has a request that is no write. *)
LEMMA OutcomeOfRead ==
    ASSUME NEW req \in Requests, NEW out \in Outcomes(req), ~IsWrite(req)
    PROVE  out[2] = effects
  BY DEF Outcomes, IsWrite, Writes

LEMMA StepsAre ==
    /\ Steps = BeforeHealth \cup {"DB_HEALTH", "DB_LOGS"} \cup (AfterHealth \ {"COMPLETE"})
    /\ "FAILED" \notin Steps /\ "COMPLETE" \notin Steps /\ "none" \notin Steps
  BY DEF Steps, Follow, BeforeHealth, BeforeCreate, AfterHealth, WithGotrue

(* What a state admits is a request. *)
LEMMA AdmittedShape ==
    ASSUME LedgerKnows, ledger.state \in Steps
    PROVE  Admitted(ledger.state) \in Requests
  BY StepsAre DEF LedgerKnows, Admitted, Requests, BeforeHealth, BeforeCreate, AfterHealth,
     WithGotrue

(* Where an accepted answer leads *)
LEMMA NextStateIs ==
    ASSUME NEW step \in Steps, NEW answer \in Answers, NEW next, next = NextState(step, answer)
    PROVE  /\ next \in LedgerStates
           /\ next \in BeforeHealth => step \in BeforeHealth
           /\ next = "DB_HEALTH" =>
                 \/ step = "DB_START"
                 \/ step = "DB_HEALTH" /\ ledger.probes + 1 < HealthLimit
           /\ next \in AfterHealth =>
                 \/ step \in AfterHealth
                 \/ step = "DB_HEALTH" /\ answer.body = "healthy"
           /\ next \in WithGotrue => step \in WithGotrue \cup {"GOTRUE_CREATE"}
           /\ next = "COMPLETE" <=> step = "GOTRUE_REMOVE"
           /\ next \in {"DB_START", "DB_HEALTH", "DB_LOGS"} \cup AfterHealth =>
                 step \in {"DB_CREATE", "DB_START", "DB_HEALTH", "DB_LOGS"} \cup AfterHealth
<1>1. CASE step = "NEGOTIATE_HEAD"
  <2>1. next \in {"NEGOTIATE_GET", "DB_INSPECT"}
    BY <1>1 DEF NextState
  <2> QED
    BY <1>1, <2>1, StepsAre DEF LedgerStates, BeforeHealth, BeforeCreate, AfterHealth, WithGotrue
<1>2. CASE step = "DB_HEALTH"
  <2>1. \/ next = "GOTRUE_IMAGE_INSPECT" /\ answer.body = "healthy"
        \/ next = "DB_HEALTH" /\ ledger.probes + 1 < HealthLimit
        \/ next = "DB_LOGS"
    BY <1>2 DEF NextState
  <2> QED
    BY <1>2, <2>1, StepsAre DEF LedgerStates, BeforeHealth, BeforeCreate, AfterHealth, WithGotrue
<1>3. CASE step \notin {"NEGOTIATE_HEAD", "DB_HEALTH"}
  <2>1. next = Follow[step]
    BY <1>3 DEF NextState
  <2>2. step \in DOMAIN Follow
    BY <1>3 DEF Steps
  <2>3. <<step, next>> \in
           {<<"NEGOTIATE_GET", "DB_INSPECT">>, <<"DB_INSPECT", "VOLUME_INSPECT">>,
            <<"VOLUME_INSPECT", "PG_IMAGE_INSPECT">>, <<"PG_IMAGE_INSPECT", "NETWORK_DB">>,
            <<"NETWORK_DB", "VOLUME_CREATE">>, <<"VOLUME_CREATE", "DB_CREATE">>,
            <<"DB_CREATE", "DB_START">>, <<"DB_START", "DB_HEALTH">>, <<"DB_LOGS", "FAILED">>,
            <<"GOTRUE_IMAGE_INSPECT", "NETWORK_GOTRUE">>, <<"NETWORK_GOTRUE", "GOTRUE_CREATE">>,
            <<"GOTRUE_CREATE", "GOTRUE_START">>, <<"GOTRUE_START", "GOTRUE_LOGS">>,
            <<"GOTRUE_LOGS", "GOTRUE_INSPECT">>, <<"GOTRUE_INSPECT", "GOTRUE_REMOVE">>,
            <<"GOTRUE_REMOVE", "COMPLETE">>}
    BY <2>1, <2>2 DEF Follow
  <2> QED
    BY <1>3, <2>3, StepsAre DEF LedgerStates, BeforeHealth, BeforeCreate, AfterHealth, WithGotrue
<1> QED
  BY <1>1, <1>2, <1>3

(* An accepted answer leaves the ledger well-formed. *)
LEMMA AcceptedShape ==
    ASSUME TypeOK, LedgerKnows, NEW answer \in Answers,
           ledger.state \in Steps, BodyAccepted(ledger.state, answer)
    PROVE  /\ AcceptedLedger(ledger.state, answer) \in Ledgers
           /\ LET new == AcceptedLedger(ledger.state, answer)
              IN  new.db = new.gotrue => new.db = NoId
<1> DEFINE step == ledger.state
<1>1. NextState(step, answer) \in LedgerStates
  BY NextStateIs
<1>2. (IF step = "DB_HEALTH" THEN ledger.probes + 1 ELSE ledger.probes) \in 0..HealthLimit
  BY HealthLimitAssumption DEF TypeOK, LedgerKnows
<1>3. step \in {"DB_CREATE", "GOTRUE_CREATE"} => answer.body \in Ids \ {ledger.db, ledger.gotrue}
  BY DEF BodyAccepted
<1>4. (ledger.complete \/ step = "GOTRUE_REMOVE") \in BOOLEAN
  BY DEF TypeOK
<1>5. ledger.db \in Ids \cup {NoId} /\ ledger.gotrue \in Ids \cup {NoId}
      /\ (ledger.db = ledger.gotrue => ledger.db = NoId)
  BY DEF TypeOK
<1> QED
  BY <1>1, <1>2, <1>3, <1>4, <1>5 DEF AcceptedLedger, Ledgers

-----------------------------------------------------------------------------
(* Steps *)

(* A step in which handlers only end, or come and go between exchanges:    *)
(* either the receipt tells of it, or nobody was waiting for an answer.    *)
Ends(k) ==
    \/ conn'[k] = conn[k]
    \/ conn'[k].pc \in {"closed", "idle"} /\ conn'[k].req \in {conn[k].req, NoRequest}

LEMMA EndingStep ==
    ASSUME Inv, TypeOK', \A k \in Conns : Ends(k),
           \/ ledger' = ledger /\ receipt'.violated = receipt.violated
           \/ ledger' = [ledger EXCEPT !.state = "FAILED"] /\ receipt'.violated,
           receipt'.complete => ledger.complete,
           UNCHANGED <<effects, healthSeen>>,
           \/ ~Clean' /\ orphans' \subseteq orphans \cup {conn[k].req : k \in Conns}
           \/ /\ orphans' = orphans /\ ledger' = ledger /\ (Clean' => Clean)
              /\ \A k \in Conns : conn[k].pc \in {"answered", "body"} => conn'[k] = conn[k],
           server' \in {"exited", "killed"} => AllClosed'
    PROVE  Inv'
<1>1. /\ ledger'.probes = ledger.probes /\ ledger'.db = ledger.db
      /\ ledger'.gotrue = ledger.gotrue /\ ledger'.complete = ledger.complete
      /\ ledger'.state \in {ledger.state, "FAILED"}
  BY DEF Inv, TypeOK
<1>2. \A s : Admitted(s)' = Admitted(s)
  BY <1>1 DEF Admitted
<1>3. "FAILED" \notin BeforeHealth \cup {"DB_HEALTH", "DB_START", "DB_LOGS"} \cup AfterHealth
  BY DEF AfterHealth, BeforeHealth, BeforeCreate, WithGotrue
<1>4. LedgerKnows'
  <2>1. ledger'.complete => ledger'.state \in {"COMPLETE", "FAILED"}
    BY <1>1 DEF Inv, LedgerKnows
  <2>2. receipt'.violated => ledger'.state = "FAILED"
    BY <1>1 DEF Inv, LedgerKnows, TypeOK
  <2>3. ledger'.complete /\ ~receipt'.violated => ledger'.state = "COMPLETE"
    BY <1>1 DEF Inv, LedgerKnows
  <2>4. WithGotrue \subseteq AfterHealth
    BY DEF AfterHealth
  <2> QED
    BY <1>1, <1>3, <2>1, <2>2, <2>3, <2>4 DEF Inv, LedgerKnows
<1>5. ExchangesAgree'
  <2>1. \A k \in Conns : conn'[k].pc \in InExchange => conn'[k] = conn[k]
    BY DEF Ends, InExchange
  <2>2. Waiting \subseteq InExchange /\ "body" \in Waiting
    BY DEF Waiting, InExchange
  <2> QED
    BY <1>2, <2>1, <2>2 DEF Inv, ExchangesAgree
<1>6. NothingAbandoned'
  BY DEF Inv, NothingAbandoned
<1>7. HealthKnown'
  <2>1. ledger'.state \in AfterHealth => healthSeen
    BY <1>1, <1>3 DEF Inv, HealthKnown
  <2>2. \A k \in Conns : conn'[k].req = <<"create", "gotrue">> => healthSeen
    BY DEF Inv, HealthKnown, Ends, NoRequest
  <2>3. <<"create", "gotrue">> \in orphans' => healthSeen
    BY DEF Inv, HealthKnown
  <2>4. \A k \in Conns :
           /\ conn'[k].pc \in {"answered", "body"}
           /\ conn'[k].answer.code = 200 /\ conn'[k].answer.body = "healthy"
           => healthSeen
    BY DEF Inv, HealthKnown, Ends
  <2>5. MigrationNeedsHealth'
    BY DEF Inv, HealthKnown, MigrationNeedsHealth, Did
  <2> QED
    BY <2>1, <2>2, <2>3, <2>4, <2>5 DEF HealthKnown
<1>8. EffectsKnown'
  <2> SUFFICES ASSUME Clean'
               PROVE  EffectsKnown'
    BY DEF EffectsKnown
  <2>1. /\ Clean /\ ledger' = ledger
        /\ \A k \in Conns : conn[k].pc \in {"answered", "body"} => conn'[k] = conn[k]
    OBVIOUS
  <2>2. \A k \in Conns : Carries(k)' <=> Carries(k)
    BY <2>1 DEF Carries, Ends
  <2>3. \A k \in Conns : Carries(k) => conn'[k] = conn[k]
    BY <2>1 DEF Carries
  <2> QED
    BY <2>1, <2>2, <2>3 DEF Inv, EffectsKnown, DbAfter, GotrueAfter
<1> QED
  BY <1>4, <1>5, <1>6, <1>7, <1>8 DEF Inv

(* What handlers leave behind are requests they were given. *)
LEMMA AbandonedAre ==
    ASSUME Inv, NEW cs \in SUBSET Conns
    PROVE  /\ Abandoned(cs) \subseteq {conn[k].req : k \in Conns}
           /\ Abandoned(cs) \subseteq Requests
  BY DEF Inv, ExchangesAgree, Abandoned, Waiting

LEMMA ClosedShape ==
    /\ Closed \in Handlers /\ Closed.pc = "closed" /\ Closed.req = NoRequest
    /\ Closed.step = "none" /\ Closed.answer \in Answers
  BY DEF Closed, NoRequest, NoAnswer, Handlers, Answers, Codes, Bodies, InExchange

(* A violation keeps the invariant wherever it happens: the policy is shut *)
(* and says so.                                                            *)
LEMMA ViolateStep ==
    ASSUME Inv, NEW c \in Conns, conn[c].pc # "closed", NEW write \in BOOLEAN, Violate(c, write),
           orphans' \in {orphans, orphans \cup Abandoned({c})},
           UNCHANGED <<server, effects, healthSeen, faults>>
    PROVE  Inv'
<1>1. ledger' = [ledger EXCEPT !.state = "FAILED"] /\ ledger' \in Ledgers
  BY DEF Inv, TypeOK, Violate, Ledgers, LedgerStates
<1>2. /\ receipt' \in Receipts /\ receipt'.violated /\ receipt'.complete = ledger.complete
      /\ receipt'.forwarding = receipt.forwarding
  BY DEF Inv, TypeOK, Violate, Receipts
<1>3. /\ conn' \in [Conns -> Handlers] /\ conn'[c] = Closed
      /\ \A k \in Conns \ {c} : conn'[k] = conn[k]
  BY ClosedShape DEF Inv, TypeOK, Violate, Handlers, Answers
<1>4. orphans' \subseteq orphans \cup {conn[k].req : k \in Conns} /\ orphans' \subseteq Requests
  BY AbandonedAre DEF Inv, TypeOK
<1>5. TypeOK'
  BY <1>1, <1>2, <1>3, <1>4 DEF Inv, TypeOK, Ledgers, Receipts, Handlers, Answers
<1>6. \A k \in Conns : Ends(k)
  BY <1>3, ClosedShape DEF Ends
<1>7. server' \in {"exited", "killed"} => AllClosed'
  BY DEF Inv, ExchangesAgree, AllClosed
<1>8. ~Clean'
  BY <1>2 DEF Clean
<1> QED
  BY <1>1, <1>2, <1>4, <1>5, <1>6, <1>7, <1>8, EndingStep

(* An error of either peer, the drain's timeout and the kill all leave     *)
(* something to be seen.                                                   *)
LEMMA CloseStep ==
    ASSUME Inv, NEW cs \in SUBSET Conns,
           conn' = [k \in Conns |-> IF k \in cs THEN Closed ELSE conn[k]],
           orphans' = orphans \cup Abandoned(cs),
           UNCHANGED <<ledger, effects, healthSeen>>,
           \/ receipt' = [receipt EXCEPT !.forwarding = TRUE]
           \/ receipt' = receipt /\ server' = "killed",
           faults' \in 0..MaxFaults,
           server' \in {"listening", "draining", "exited", "killed"},
           server' \in {"exited", "killed"} => AllClosed'
    PROVE  Inv'
<1>1. /\ receipt' \in Receipts /\ receipt'.violated = receipt.violated
      /\ receipt'.complete = receipt.complete
      /\ receipt'.forwarding \/ server' = "killed"
  BY DEF Inv, TypeOK, Receipts
<1>2. conn' \in [Conns -> Handlers]
  BY ClosedShape DEF Inv, TypeOK, Handlers, Answers
<1>3. orphans' \subseteq orphans \cup {conn[k].req : k \in Conns} /\ orphans' \subseteq Requests
  BY AbandonedAre DEF Inv, TypeOK
<1>4. TypeOK'
  BY <1>1, <1>2, <1>3 DEF Inv, TypeOK, Receipts, Handlers, Answers
<1>5. \A k \in Conns : Ends(k)
  BY ClosedShape DEF Ends
<1>6. ~Clean'
  BY <1>1 DEF Clean
<1>7. receipt'.complete => ledger.complete
  BY <1>1 DEF Inv, LedgerKnows
<1> QED
  BY <1>1, <1>3, <1>4, <1>5, <1>6, <1>7, EndingStep

(* What is known of a state in which an exchange is in progress *)
LEMMA OneExchange ==
    ASSUME Inv, NEW c \in Conns, conn[c].pc \in InExchange
    PROVE  /\ \A k \in Conns \ {c} : conn[k].pc \notin InExchange /\ ~Carries(k)
           /\ server \notin {"exited", "killed"}
  BY DEF Inv, ExchangesAgree, AllClosed, InExchange, Carries

LEMMA ConnectStep ==
    ASSUME Inv, NEW c \in Conns, Connect(c) \/ Disconnect(c) \/ Relay(c)
    PROVE  Inv'
<1>1. /\ conn[c].pc \in {"closed", "idle", "relay"} /\ conn[c] \in Handlers
      /\ \A k \in Conns \ {c} : conn'[k] = conn[k]
  BY DEF Inv, TypeOK, Connect, Disconnect, Relay, Handlers, Answers
<1>2. /\ conn'[c] \in Handlers /\ conn'[c].pc \in {"closed", "idle"}
      /\ conn'[c].req \in {conn[c].req, NoRequest}
  <2>1. CASE Connect(c)
    BY <2>1, <1>1 DEF Connect, Inv, TypeOK, Handlers
  <2>2. CASE Disconnect(c)
    BY <2>2, <1>1, ClosedShape DEF Disconnect, Inv, TypeOK
  <2>3. CASE Relay(c)
    BY <2>3, <1>1, ClosedShape DEF Relay, Inv, TypeOK, Handlers, Closed
  <2> QED
    BY <2>1, <2>2, <2>3
<1>3. conn' \in [Conns -> Handlers]
  <2>1. DOMAIN conn' = Conns /\ conn' = [k \in Conns |-> conn'[k]]
    BY DEF Inv, TypeOK, Connect, Disconnect, Relay
  <2>2. conn \in [Conns -> Handlers]
    BY DEF Inv, TypeOK, Handlers, Answers
  <2>3. \A k \in Conns : conn'[k] \in Handlers
    BY <1>1, <1>2, <2>2
  <2> QED
    BY <2>1, <2>3
<1>4. /\ receipt' \in Receipts /\ receipt'.violated = receipt.violated
      /\ receipt'.forwarding = receipt.forwarding
      /\ receipt'.complete => ledger.complete
  BY DEF Inv, TypeOK, LedgerKnows, Connect, Disconnect, Relay, Receipts
<1>5. UNCHANGED <<ledger, server, effects, orphans, healthSeen, faults>>
  BY DEF Connect, Disconnect, Relay, daemonVars
<1>6. TypeOK'
  BY <1>3, <1>4, <1>5 DEF Inv, TypeOK, Handlers, Answers, Receipts
<1>7. server' \in {"exited", "killed"} => AllClosed'
  <2>1. conn[c].pc = "closed" => server = "listening"
    BY DEF Connect, Disconnect, Relay
  <2> QED
    BY <2>1, <1>5 DEF Inv, ExchangesAgree, AllClosed
<1>8. \A k \in Conns : Ends(k) /\ (conn[k].pc \in {"answered", "body"} => conn'[k] = conn[k])
  BY <1>1, <1>2 DEF Ends
<1>9. Clean' => Clean
  BY <1>4, <1>5 DEF Clean
<1> QED
  BY <1>4, <1>5, <1>6, <1>7, <1>8, <1>9, EndingStep

LEMMA StopStep ==
    ASSUME Inv, Stop \/ Exit
    PROVE  Inv'
<1>1. /\ UNCHANGED <<ledger, receipt, conn, effects, orphans, healthSeen, faults>>
      /\ server' \in {"draining", "exited"} /\ server # "killed"
      /\ server' = "exited" => AllClosed'
  BY DEF Stop, Exit, daemonVars, AllClosed
<1>2. TypeOK'
  BY <1>1 DEF Inv, TypeOK
<1>3. \A k \in Conns : Ends(k)
  BY <1>1 DEF Ends
<1>4. Clean' => Clean
  BY <1>1 DEF Clean
<1>5. receipt'.complete => ledger.complete
  BY <1>1 DEF Inv, LedgerKnows
<1> QED
  BY <1>1, <1>2, <1>3, <1>4, <1>5, EndingStep

LEMMA ForwardStep ==
    ASSUME Inv, NEW c \in Conns, Forward(c)
    PROVE  Inv'
<1> USE DEF Forward
<1>1. UNCHANGED <<ledger, receipt, server, effects, orphans, healthSeen, faults>>
  BY DEF daemonVars
<1>2. /\ conn'[c] = [pc |-> "forwarded", req |-> Admitted(ledger.state),
                     step |-> ledger.state, answer |-> NoAnswer]
      /\ \A k \in Conns \ {c} : conn'[k] = conn[k]
  BY DEF Inv, TypeOK
<1>3. Admitted(ledger.state) \in Requests
  BY AdmittedShape DEF Inv
<1>4. conn'[c] \in Handlers
  BY <1>2, <1>3, ClosedShape DEF Closed, Handlers, InExchange
<1>5. conn' \in [Conns -> Handlers]
  BY <1>4, <1>2 DEF Inv, TypeOK, Handlers, Answers
<1>6. TypeOK'
  BY <1>1, <1>5 DEF Inv, TypeOK, Handlers, Answers
<1>7. LedgerKnows' /\ NothingAbandoned'
  BY <1>1 DEF Inv, LedgerKnows, NothingAbandoned, Clean
<1>8. ExchangesAgree'
  <2>1. \A k \in Conns : conn[k].pc \notin InExchange
    BY DEF Locked
  <2>2. Waiting \subseteq InExchange
    BY DEF Waiting, InExchange
  <2>3. \A k \in Conns : conn'[k].pc \in InExchange => k = c
    BY <1>2, <2>1
  <2>4. \A s : Admitted(s)' = Admitted(s)
    BY <1>1 DEF Admitted
  <2>5. server' \notin {"exited", "killed"}
    BY <1>1 DEF Inv, ExchangesAgree, AllClosed
  <2>6. /\ conn'[c].step \in Steps /\ conn'[c].req \in Requests /\ conn'[c].pc # "body"
        /\ conn'[c].req = Admitted(conn[c].step)' /\ ledger'.state = conn'[c].step
    BY <1>1, <1>2, <1>3, <2>4
  <2> QED
    BY <2>2, <2>3, <2>5, <2>6 DEF ExchangesAgree, Waiting
<1>9. HealthKnown'
  <2>1. Admitted(ledger.state) = <<"create", "gotrue">> => healthSeen
    <3>1. Admitted(ledger.state) = <<"create", "gotrue">> => ledger.state = "GOTRUE_CREATE"
      BY StepsAre DEF Admitted, BeforeHealth, BeforeCreate, AfterHealth, WithGotrue
    <3> QED
      BY <3>1 DEF Inv, HealthKnown, AfterHealth
  <2>2. MigrationNeedsHealth'
    BY <1>1 DEF Inv, HealthKnown, MigrationNeedsHealth, Did
  <2> QED
    BY <1>1, <1>2, <2>1, <2>2 DEF Inv, HealthKnown
<1>10. EffectsKnown'
  <2>1. \A k \in Conns : ~Carries(k) /\ ~Carries(k)'
    BY <1>2 DEF Locked, InExchange, Carries
  <2> QED
    BY <1>1, <2>1 DEF Inv, EffectsKnown, Clean
<1> QED
  BY <1>6, <1>7, <1>8, <1>9, <1>10 DEF Inv

(* The head of an expected answer *)
LEMMA ReadHeadStep ==
    ASSUME Inv, NEW c \in Conns, ReadHead(c)
    PROVE  Inv'
<1>1. CASE Violate(c, IsWrite(conn[c].req)) /\ conn[c].pc \in {"forwarded", "answered"}
           /\ orphans' = orphans \cup Abandoned({c})
           /\ UNCHANGED <<server, effects, healthSeen, faults>>
  <2>1. IsWrite(conn[c].req) \in BOOLEAN
    BY DEF IsWrite
  <2>2. /\ conn[c].pc # "closed" /\ UNCHANGED <<server, effects, healthSeen, faults>>
        /\ orphans' \in {orphans, orphans \cup Abandoned({c})}
        /\ Violate(c, IsWrite(conn[c].req))
    BY <1>1
  <2> QED
    BY <2>1, <2>2, ViolateStep
<1>2. CASE /\ conn[c].pc = "answered"
           /\ conn[c].answer.code \in ExpectedCodes(conn[c].step)
           /\ conn' = [conn EXCEPT ![c].pc = "body"]
           /\ UNCHANGED <<ledger, receipt, server, daemonVars, faults>>
  <2>1. UNCHANGED <<ledger, receipt, server, effects, orphans, healthSeen, faults>>
    BY <1>2 DEF daemonVars
  <2>2. /\ conn'[c] \in Handlers /\ conn'[c].pc = "body" /\ conn'[c].req = conn[c].req
        /\ conn'[c].step = conn[c].step /\ conn'[c].answer = conn[c].answer
        /\ \A k \in Conns \ {c} : conn'[k] = conn[k]
    BY <1>2 DEF Inv, TypeOK, Handlers, Answers, InExchange
  <2>3. conn' \in [Conns -> Handlers]
    BY <1>2, <2>2 DEF Inv, TypeOK, Handlers, Answers
  <2>4. TypeOK'
    BY <2>1, <2>3 DEF Inv, TypeOK, Handlers, Answers
  <2>5. LedgerKnows' /\ NothingAbandoned'
    BY <2>1 DEF Inv, LedgerKnows, NothingAbandoned, Clean
  <2>6. ExchangesAgree'
    <3>1. \A s : Admitted(s)' = Admitted(s)
      BY <2>1 DEF Admitted
    <3>2. /\ conn[c].pc \in InExchange \cap Waiting /\ conn'[c].pc \in InExchange \cap Waiting
          /\ conn[c].pc # "closed"
      BY <1>2, <2>2 DEF InExchange, Waiting
    <3>3. server' \notin {"exited", "killed"}
      BY <2>1, <3>2 DEF Inv, ExchangesAgree, AllClosed
    <3> QED
      BY <1>2, <2>1, <2>2, <3>1, <3>2, <3>3 DEF Inv, ExchangesAgree
  <2>7. HealthKnown'
    <3>1. MigrationNeedsHealth'
      BY <2>1 DEF Inv, HealthKnown, MigrationNeedsHealth, Did
    <3> QED
      BY <1>2, <2>1, <2>2, <3>1 DEF Inv, HealthKnown
  <2>8. EffectsKnown'
    <3>1. \A k \in Conns : /\ Carries(k)' <=> Carries(k)
                           /\ conn'[k].step = conn[k].step /\ conn'[k].answer = conn[k].answer
      BY <1>2, <2>2 DEF Carries
    <3> QED
      BY <2>1, <3>1 DEF Inv, EffectsKnown, DbAfter, GotrueAfter, Clean
  <2> QED
    BY <2>4, <2>5, <2>6, <2>7, <2>8 DEF Inv
<1> QED
  BY <1>1, <1>2 DEF ReadHead

(* The ledger counts a write when its answer is accepted. *)
LEMMA WrittenNext ==
    ASSUME NEW step \in Steps, NEW answer \in Answers, NEW next, next = NextState(step, answer)
    PROVE  Written(next) = IF step \in WriteSteps \ Networks THEN Written(step) + 1
                           ELSE Written(step)
<1> USE DEF Written, WriteSteps, Networks, BeforeCreate
<1>1. CASE step = "NEGOTIATE_HEAD"
  BY <1>1 DEF NextState
<1>2. CASE step = "DB_HEALTH"
  BY <1>2 DEF NextState
<1>3. CASE step \notin {"NEGOTIATE_HEAD", "DB_HEALTH"}
  <2>1. next = Follow[step] /\ step \in DOMAIN Follow
    BY <1>3 DEF NextState, Steps
  <2> QED
    BY <2>1 DEF Follow
<1> QED
  BY <1>1, <1>2, <1>3

(* An accepted answer *)
LEMMA AcceptStep ==
    ASSUME Inv, NEW c \in Conns, conn[c].pc = "body", conn[c].step = ledger.state,
           BodyAccepted(conn[c].step, conn[c].answer),
           ledger' = AcceptedLedger(conn[c].step, conn[c].answer),
           conn' = [conn EXCEPT ![c].pc = "relay"],
           UNCHANGED <<receipt, server, effects, orphans, healthSeen, faults>>
    PROVE  Inv'
<1> DEFINE step == conn[c].step
           answer == conn[c].answer
<1>1. /\ step \in Steps /\ answer \in Answers /\ answer.code \in ExpectedCodes(step)
      /\ conn[c].pc \in InExchange
  BY DEF Inv, TypeOK, ExchangesAgree, Waiting, InExchange, Answers
<1>2. PICK next : next = NextState(step, answer)
  OBVIOUS
<1>3. /\ ledger'.state = next /\ ledger'.complete = (ledger.complete \/ step = "GOTRUE_REMOVE")
      /\ ledger'.probes = IF step = "DB_HEALTH" THEN ledger.probes + 1 ELSE ledger.probes
      /\ ledger'.db = DbAfter(c) /\ ledger'.gotrue = GotrueAfter(c)
  BY <1>2 DEF AcceptedLedger, DbAfter, GotrueAfter
<1>4. TypeOK'
  <2>1. /\ ledger' \in Ledgers
        /\ ledger'.db = ledger'.gotrue => ledger'.db = NoId
    BY <1>1, AcceptedShape DEF Inv
  <2>2. conn' \in [Conns -> Handlers]
    <3>1. conn \in [Conns -> Handlers]
      BY DEF Inv, TypeOK, Handlers, Answers
    <3>2. conn[c] \in Handlers
      BY <3>1
    <3>3. [conn[c] EXCEPT !.pc = "relay"] \in Handlers
      BY <3>2 DEF Handlers, InExchange
    <3>4. conn' = [conn EXCEPT ![c] = [conn[c] EXCEPT !.pc = "relay"]]
      BY <3>1
    <3> QED
      BY <3>1, <3>3, <3>4
  <2> QED
    BY <2>1, <2>2 DEF Inv, TypeOK, Ledgers, Handlers, Answers
<1>5. /\ conn'[c].pc = "relay" /\ conn'[c].req = conn[c].req
      /\ \A k \in Conns \ {c} : conn'[k] = conn[k] /\ conn[k].pc \notin InExchange
  BY <1>1, OneExchange DEF Inv, TypeOK
<1>6. LedgerKnows'
  <2>1. /\ step # "COMPLETE" /\ step # "FAILED"
        /\ ~ledger.complete /\ ~receipt.violated /\ ~receipt.complete
    BY <1>1, StepsAre DEF Inv, LedgerKnows
  <2>2. next \in BeforeHealth => ledger'.probes = 0
    <3>1. "DB_HEALTH" \notin BeforeHealth
      BY DEF BeforeHealth, BeforeCreate
    <3> QED
      BY <1>1, <1>2, <1>3, <3>1, NextStateIs DEF Inv, LedgerKnows
  <2>3. next = "DB_HEALTH" => ledger'.probes < HealthLimit
    <3>1. CASE step = "DB_START"
      <4>1. ledger.probes = 0
        BY <3>1 DEF Inv, LedgerKnows, BeforeHealth
      <4> QED
        BY <3>1, <4>1, <1>3, HealthLimitAssumption
    <3>2. CASE step # "DB_START"
      <4>1. next = "DB_HEALTH" => step = "DB_HEALTH" /\ ledger.probes + 1 < HealthLimit
        BY <1>1, <1>2, <3>2, NextStateIs
      <4> QED
        BY <1>3, <4>1
    <3> QED
      BY <3>1, <3>2
  <2>4. next \in {"DB_START", "DB_HEALTH", "DB_LOGS"} \cup AfterHealth => ledger'.db \in Ids
    <3>1. step = "DB_CREATE" => answer.body \in Ids
      BY DEF BodyAccepted
    <3> QED
      BY <1>1, <1>2, <1>3, <3>1, NextStateIs DEF Inv, LedgerKnows, DbAfter
  <2>5. next \in WithGotrue => ledger'.gotrue \in Ids
    <3>1. step = "GOTRUE_CREATE" => answer.body \in Ids
      BY DEF BodyAccepted
    <3> QED
      BY <1>1, <1>2, <1>3, <3>1, NextStateIs DEF Inv, LedgerKnows, GotrueAfter
  <2>6. ledger'.complete => next = "COMPLETE"
    BY <1>1, <1>2, <1>3, <2>1, NextStateIs
  <2> QED
    BY <1>3, <2>1, <2>2, <2>3, <2>4, <2>5, <2>6 DEF LedgerKnows
<1>7. ExchangesAgree'
  <2>1. Waiting \subseteq InExchange \ {"relay"} /\ "body" \in Waiting
    BY DEF Waiting, InExchange
  <2>2. server' \notin {"exited", "killed"}
    BY <1>1, OneExchange
  <2> QED
    BY <1>5, <2>1, <2>2 DEF ExchangesAgree
<1>8. NothingAbandoned'
  BY DEF Inv, NothingAbandoned, Clean
<1>9. HealthKnown'
  <2>1. next \in AfterHealth => healthSeen
    <3>1. step = "DB_HEALTH" => answer.code = 200
      BY <1>1 DEF ExpectedCodes
    <3> QED
      BY <1>1, <1>2, <3>1, NextStateIs DEF Inv, HealthKnown
  <2>2. MigrationNeedsHealth'
    BY DEF Inv, HealthKnown, MigrationNeedsHealth, Did
  <2>3. \A k \in Conns : /\ conn'[k].req = conn[k].req
                         /\ conn'[k].pc \notin {"answered", "body"}
    BY <1>5 DEF InExchange
  <2> QED
    BY <1>3, <2>1, <2>2, <2>3 DEF Inv, HealthKnown
<1>10. EffectsKnown'
  <2> SUFFICES ASSUME Clean
               PROVE  Prefix(effects, Written(next), DbAfter(c), GotrueAfter(c))
    BY <1>3, <1>5 DEF EffectsKnown, Clean, Carries, InExchange
  <2>1. CASE step \in WriteSteps \ Networks
    <3>1. answer.code \in {201, 204}
      BY <1>1, <2>1 DEF ExpectedCodes, WriteSteps, Networks
    <3> QED
      BY <1>1, <1>2, <2>1, <3>1, WrittenNext DEF Inv, EffectsKnown, Carries
  <2>2. CASE step \notin WriteSteps \ Networks
    <3>1. answer.code \notin {201, 204}
      BY <1>1, <2>2 DEF ExpectedCodes, WriteSteps, Networks
    <3>2. \A k \in Conns : ~Carries(k)
      BY <1>1, <3>1, OneExchange DEF Carries
    <3>3. DbAfter(c) = ledger.db /\ GotrueAfter(c) = ledger.gotrue
      BY <2>2 DEF DbAfter, GotrueAfter, WriteSteps, Networks
    <3> QED
      BY <1>1, <1>2, <2>2, <3>2, <3>3, WrittenNext DEF Inv, EffectsKnown
  <2> QED
    BY <2>1, <2>2
<1> QED
  BY <1>4, <1>6, <1>7, <1>8, <1>9, <1>10 DEF Inv

LEMMA ReadBodyStep ==
    ASSUME Inv, NEW c \in Conns, ReadBody(c)
    PROVE  Inv'
<1>1. UNCHANGED <<server, effects, orphans, healthSeen, faults>> /\ conn[c].pc = "body"
  BY DEF ReadBody, daemonVars
<1>2. CASE Violate(c, IsWrite(conn[c].req))
  <2>1. IsWrite(conn[c].req) \in BOOLEAN
    BY DEF IsWrite
  <2>2. conn[c].pc # "closed" /\ orphans' \in {orphans, orphans \cup Abandoned({c})}
    BY <1>1
  <2> QED
    BY <1>1, <1>2, <2>1, <2>2, ViolateStep
<1>3. CASE ~Violate(c, IsWrite(conn[c].req))
  <2>1. /\ conn[c].step = ledger.state
        /\ BodyAccepted(conn[c].step, conn[c].answer)
        /\ ledger' = AcceptedLedger(conn[c].step, conn[c].answer)
        /\ conn' = [conn EXCEPT ![c].pc = "relay"]
        /\ UNCHANGED receipt
    BY <1>3 DEF ReadBody
  <2> QED
    BY <1>1, <2>1, AcceptStep
<1> QED
  BY <1>2, <1>3

(* Requests the policy refuses *)
LEMMA RefuseStep ==
    ASSUME Inv, NEW c \in Conns, RefuseConcurrent(c) \/ Refuse(c) \/ RefuseFraming(c)
    PROVE  Inv'
<1>1. /\ conn[c].pc # "closed" /\ UNCHANGED <<server, effects, healthSeen, faults>>
      /\ orphans' \in {orphans, orphans \cup Abandoned({c})}
  BY DEF RefuseConcurrent, Refuse, RefuseFraming, daemonVars
<1>2. PICK write \in BOOLEAN : Violate(c, write)
  <2>1. CASE RefuseConcurrent(c)
    BY <2>1 DEF RefuseConcurrent
  <2>2. CASE Refuse(c)
    <3>1. \A req : IsWrite(req) \in BOOLEAN
      BY DEF IsWrite
    <3> QED
      BY <2>2, <3>1 DEF Refuse
  <2>3. CASE RefuseFraming(c)
    <3>1. IsWrite(conn[c].req) \in BOOLEAN
      BY DEF IsWrite
    <3> QED
      BY <2>3, <3>1 DEF RefuseFraming
  <2> QED
    BY <2>1, <2>2, <2>3
<1> QED
  BY <1>1, <1>2, ViolateStep

-----------------------------------------------------------------------------
(* The daemon *)

(* What it carries out is a write, and a migration container only on the   *)
(* request for one.                                                        *)
LEMMA OutcomeKeepsTypes ==
    ASSUME TypeOK, NEW req \in Requests, NEW out \in Outcomes(req), effects' = out[2]
    PROVE  /\ effects' \in Seq(EffectSet)
           /\ (\E i \in Ids : Did(<<"create", "gotrue", i>>)') =>
                 \/ req = <<"create", "gotrue">>
                 \/ \E i \in Ids : Did(<<"create", "gotrue", i>>)
<1>1. effects \in Seq(EffectSet)
  BY DEF TypeOK
<1>2. CASE effects' = effects
  BY <1>1, <1>2 DEF Did
<1>3. ASSUME NEW e \in EffectSet, effects' = Append(effects, e),
             req # <<"create", "gotrue">> => \A i \in Ids : e # <<"create", "gotrue", i>>
      PROVE  /\ effects' \in Seq(EffectSet)
             /\ (\E i \in Ids : Did(<<"create", "gotrue", i>>)') =>
                   \/ req = <<"create", "gotrue">>
                   \/ \E i \in Ids : Did(<<"create", "gotrue", i>>)
  <2>1. effects' \in Seq(EffectSet)
    BY <1>1, <1>3
  <2>2. ASSUME NEW i \in Ids, Did(<<"create", "gotrue", i>>)', req # <<"create", "gotrue">>
        PROVE  Did(<<"create", "gotrue", i>>)
    <3>1. PICK k \in 1..Len(effects') : effects'[k] = <<"create", "gotrue", i>>
      BY <2>2 DEF Did
    <3>2. /\ Len(effects') = Len(effects) + 1 /\ effects'[Len(effects) + 1] = e
          /\ \A j \in 1..Len(effects) : effects'[j] = effects[j]
      BY <1>1, <1>3
    <3>3. k \in 1..Len(effects)
      BY <1>1, <1>3, <2>2, <3>1, <3>2
    <3> QED
      BY <3>1, <3>2, <3>3 DEF Did
  <2> QED
    BY <2>1, <2>2
<1>4. CASE /\ req[1] \in {"network_create", "volume_create", "start", "remove"}
           /\ effects' = Append(effects, req)
  <2>1. req \in EffectSet /\ \A i \in Ids : req # <<"create", "gotrue", i>>
    BY <1>4 DEF Requests, EffectSet
  <2> QED
    BY <1>3, <1>4, <2>1
<1>5. CASE req[1] = "create" /\ \E i \in Ids : effects' = Append(effects, <<"create", req[2], i>>)
  <2>1. req \in {<<"create", "db">>, <<"create", "gotrue">>}
    BY <1>5 DEF Requests
  <2>2. PICK i \in Ids : effects' = Append(effects, <<"create", req[2], i>>)
    BY <1>5
  <2>3. <<"create", req[2], i>> \in EffectSet
    BY <2>1 DEF EffectSet
  <2>4. req # <<"create", "gotrue">> =>
           \A j \in Ids : <<"create", req[2], i>> # <<"create", "gotrue", j>>
    BY <2>1
  <2> QED
    BY <1>3, <2>2, <2>3, <2>4
<1> QED
  BY <1>2, <1>4, <1>5, OutcomeShape

LEMMA ServeLateStep ==
    ASSUME Inv, ServeLate
    PROVE  Inv'
<1>1. PICK req \in orphans : /\ orphans' = orphans \ {req}
                             /\ \/ UNCHANGED effects
                                \/ \E out \in Outcomes(req) : effects' = out[2]
  BY DEF ServeLate
<1>2. UNCHANGED <<ledger, receipt, conn, server, healthSeen, faults>> /\ req \in Requests
  BY DEF ServeLate, Inv, TypeOK
<1>3. /\ effects' \in Seq(EffectSet)
      /\ (\E i \in Ids : Did(<<"create", "gotrue", i>>)') =>
            \/ req = <<"create", "gotrue">>
            \/ \E i \in Ids : Did(<<"create", "gotrue", i>>)
  BY <1>1, <1>2, OutcomeKeepsTypes DEF Inv, TypeOK, Did
<1>4. TypeOK'
  BY <1>1, <1>2, <1>3 DEF Inv, TypeOK
<1>5. ~Clean'
  BY <1>1, <1>2 DEF Inv, NothingAbandoned, Clean
<1>6. LedgerKnows' /\ NothingAbandoned' /\ EffectsKnown'
  BY <1>2, <1>5 DEF Inv, LedgerKnows, NothingAbandoned, EffectsKnown
<1>7. ExchangesAgree'
  <2>1. \A s : Admitted(s)' = Admitted(s)
    BY <1>2 DEF Admitted
  <2> QED
    BY <1>2, <2>1 DEF Inv, ExchangesAgree, AllClosed
<1>8. HealthKnown'
  <2>1. MigrationNeedsHealth'
    BY <1>2, <1>3 DEF Inv, HealthKnown, MigrationNeedsHealth
  <2> QED
    BY <1>1, <1>2, <2>1 DEF Inv, HealthKnown
<1> QED
  BY <1>4, <1>6, <1>7, <1>8 DEF Inv

LEMMA ScriptIs ==
    ASSUME NEW db, NEW gotrue
    PROVE  /\ Len(Script!Script(db, gotrue)) = 6
           /\ Script!Script(db, gotrue)[1] = <<"volume_create", "volume">>
           /\ Script!Script(db, gotrue)[2] = <<"create", "db", db>>
           /\ Script!Script(db, gotrue)[3] = <<"start", db>>
           /\ Script!Script(db, gotrue)[4] = <<"create", "gotrue", gotrue>>
           /\ Script!Script(db, gotrue)[5] = <<"start", gotrue>>
           /\ Script!Script(db, gotrue)[6] = <<"remove", gotrue>>
  BY DEF Script!Script

(* The ids a prefix has not reached are free. *)
LEMMA PrefixFree ==
    ASSUME NEW log, NEW n \in 0..6, NEW db, NEW gotrue, NEW db2, NEW gotrue2,
           Prefix(log, n, db, gotrue), n >= 2 => db2 = db, n >= 4 => gotrue2 = gotrue
    PROVE  Prefix(log, n, db2, gotrue2)
<1>1. \A k \in 1..n : Script!Script(db, gotrue)[k] = Script!Script(db2, gotrue2)[k]
  <2> TAKE k \in 1..n
  <2>1. /\ k \in {1, 2, 3, 4, 5, 6} /\ (k \in {2, 3} => db2 = db)
        /\ k \in {4, 5, 6} => gotrue2 = gotrue
    OBVIOUS
  <2>2. CASE k = 1
    BY <2>2, ScriptIs
  <2>3. CASE k = 2
    BY <2>1, <2>3, ScriptIs
  <2>4. CASE k = 3
    BY <2>1, <2>4, ScriptIs
  <2>5. CASE k = 4
    BY <2>1, <2>5, ScriptIs
  <2>6. CASE k = 5
    BY <2>1, <2>6, ScriptIs
  <2>7. CASE k = 6
    BY <2>1, <2>7, ScriptIs
  <2> QED
    BY <2>1, <2>2, <2>3, <2>4, <2>5, <2>6, <2>7
<1> QED
  BY <1>1 DEF Prefix

(* A prefix grows by the next write of the script. *)
LEMMA PrefixGrows ==
    ASSUME NEW log \in Seq(EffectSet), NEW n \in 0..5, NEW db, NEW gotrue, NEW db2, NEW gotrue2,
           Prefix(log, n, db, gotrue), n >= 2 => db2 = db, n >= 4 => gotrue2 = gotrue
    PROVE  Prefix(Append(log, Script!Script(db2, gotrue2)[n + 1]), n + 1, db2, gotrue2)
<1> DEFINE e == Script!Script(db2, gotrue2)[n + 1]
<1>1. Len(Append(log, e)) = n + 1 /\ Append(log, e)[n + 1] = e
  BY DEF Prefix
<1>2. \A k \in 1..n : Append(log, e)[k] = log[k]
  BY DEF Prefix
<1>3. Prefix(log, n, db2, gotrue2)
  <2>1. n \in 0..6
    OBVIOUS
  <2> QED
    BY <2>1, PrefixFree, Zenon
<1>4. \A k \in 1..(n + 1) : Append(log, e)[k] = Script!Script(db2, gotrue2)[k]
  <2> TAKE k \in 1..(n + 1)
  <2>1. k \in 1..n \/ k = n + 1
    OBVIOUS
  <2> QED
    BY <1>1, <1>2, <1>3, <2>1 DEF Prefix
<1> QED
  BY <1>1, <1>4 DEF Prefix

(* The write an answer of success stands for is the next of the script. *)
LEMMA ServedWrite ==
    ASSUME Inv, NEW step \in WriteSteps \ Networks, ledger.state = step,
           NEW out \in Outcomes(Admitted(step)), out[1].code \in {201, 204},
           Prefix(effects, Written(step), ledger.db, ledger.gotrue),
           NEW db, NEW gotrue,
           db = IF step = "DB_CREATE" THEN out[1].body ELSE ledger.db,
           gotrue = IF step = "GOTRUE_CREATE" THEN out[1].body ELSE ledger.gotrue
    PROVE  Prefix(out[2], Written(step) + 1, db, gotrue)
<1>1. step \in Steps /\ Admitted(step) \in Requests
  <2>1. step \in Steps
    BY StepsAre DEF WriteSteps, Networks, BeforeHealth, BeforeCreate, AfterHealth, WithGotrue
  <2> QED
    BY <2>1, AdmittedShape DEF Inv
<1>2. effects \in Seq(EffectSet)
  BY DEF Inv, TypeOK
<1>3. /\ Written(step) \in 0..5
      /\ Written(step) >= 2 => db = ledger.db
      /\ Written(step) >= 4 => gotrue = ledger.gotrue
  BY DEF Written, WriteSteps, Networks, BeforeCreate
<1>4. out[2] = Append(effects, Script!Script(db, gotrue)[Written(step) + 1])
  <2>1. CASE step = "VOLUME_CREATE"
    <3>1. Admitted(step) = <<"volume_create", "volume">> /\ Written(step) + 1 = 1
      BY <2>1 DEF Admitted, Written, BeforeCreate
    <3>2. ~Did(Admitted(step))
      BY <1>2, <3>1 DEF Did, Prefix
    <3>3. out[2] = Append(effects, Admitted(step))
      BY <1>1, <3>1, <3>2, OutcomeOfSuccess
    <3>4. Script!Script(db, gotrue)[Written(step) + 1] = Admitted(step)
      BY <3>1, ScriptIs
    <3> QED
      BY <3>3, <3>4, Zenon
  <2>2. CASE step = "DB_CREATE"
    <3>1. Admitted(step) = <<"create", "db">> /\ Written(step) + 1 = 2 /\ db = out[1].body
      BY <2>2 DEF Admitted, Written, BeforeCreate
    <3>2. out[2] = Append(effects, <<"create", "db", db>>)
      BY <1>1, <3>1, OutcomeOfSuccess
    <3>3. Script!Script(db, gotrue)[Written(step) + 1] = <<"create", "db", db>>
      BY <3>1, ScriptIs
    <3> QED
      BY <3>2, <3>3, Zenon
  <2>3. CASE step = "DB_START"
    <3>1. Admitted(step) = <<"start", db>> /\ Written(step) + 1 = 3
      BY <2>3 DEF Admitted, Written, BeforeCreate
    <3>2. out[2] = Append(effects, Admitted(step))
      BY <1>1, <3>1, OutcomeOfSuccess
    <3>3. Script!Script(db, gotrue)[Written(step) + 1] = Admitted(step)
      BY <3>1, ScriptIs
    <3> QED
      BY <3>2, <3>3, Zenon
  <2>4. CASE step = "GOTRUE_CREATE"
    <3>1. Admitted(step) = <<"create", "gotrue">> /\ Written(step) + 1 = 4 /\ gotrue = out[1].body
      BY <2>4 DEF Admitted, Written, BeforeCreate
    <3>2. out[2] = Append(effects, <<"create", "gotrue", gotrue>>)
      BY <1>1, <3>1, OutcomeOfSuccess
    <3>3. Script!Script(db, gotrue)[Written(step) + 1] = <<"create", "gotrue", gotrue>>
      BY <3>1, ScriptIs
    <3> QED
      BY <3>2, <3>3, Zenon
  <2>5. CASE step = "GOTRUE_START"
    <3>1. Admitted(step) = <<"start", gotrue>> /\ Written(step) + 1 = 5
      BY <2>5 DEF Admitted, Written, BeforeCreate
    <3>2. out[2] = Append(effects, Admitted(step))
      BY <1>1, <3>1, OutcomeOfSuccess
    <3>3. Script!Script(db, gotrue)[Written(step) + 1] = Admitted(step)
      BY <3>1, ScriptIs
    <3> QED
      BY <3>2, <3>3, Zenon
  <2>6. CASE step = "GOTRUE_REMOVE"
    <3>1. Admitted(step) = <<"remove", gotrue>> /\ Written(step) + 1 = 6
      BY <2>6 DEF Admitted, Written, BeforeCreate
    <3>2. out[2] = Append(effects, Admitted(step))
      BY <1>1, <3>1, OutcomeOfSuccess
    <3>3. Script!Script(db, gotrue)[Written(step) + 1] = Admitted(step)
      BY <3>1, ScriptIs
    <3> QED
      BY <3>2, <3>3, Zenon
  <2> QED
    BY <2>1, <2>2, <2>3, <2>4, <2>5, <2>6 DEF WriteSteps, Networks
<1> QED
  BY <1>2, <1>3, <1>4, PrefixGrows

(* A step that is no write asks for none. *)
LEMMA ReadsAre ==
    ASSUME NEW step \in Steps \ WriteSteps
    PROVE  ~IsWrite(Admitted(step))
  BY StepsAre DEF IsWrite, Writes, Admitted, WriteSteps, Networks, BeforeHealth, BeforeCreate,
                  AfterHealth, WithGotrue

LEMMA ServeStep ==
    ASSUME Inv, NEW c \in Conns, Serve(c)
    PROVE  Inv'
<1>1. PICK out \in Outcomes(conn[c].req) :
         /\ conn' = [conn EXCEPT ![c].pc = "answered", ![c].answer = out[1]]
         /\ effects' = out[2]
         /\ Reports(out[1])
  BY DEF Serve
<1>2. UNCHANGED <<ledger, receipt, server, orphans, faults>> /\ conn[c].pc = "forwarded"
  BY DEF Serve
<1>3. /\ conn[c].pc \in InExchange \cap Waiting /\ conn[c].step \in Steps
      /\ conn[c].req = Admitted(conn[c].step) /\ conn[c].req \in Requests
      /\ receipt.violated \/ ledger.state = conn[c].step
      /\ server \notin {"exited", "killed"}
  BY <1>2, OneExchange DEF Inv, ExchangesAgree, InExchange, Waiting
<1>4. /\ \A k \in Conns \ {c} : conn'[k] = conn[k] /\ conn[k].pc \notin InExchange
      /\ conn'[c].pc = "answered" /\ conn'[c].req = conn[c].req
      /\ conn'[c].step = conn[c].step /\ conn'[c].answer = out[1]
  BY <1>1, <1>3, OneExchange DEF Inv, TypeOK
<1>5. /\ out[1] \in Answers /\ effects' \in Seq(EffectSet)
      /\ (\E i \in Ids : Did(<<"create", "gotrue", i>>)') =>
            \/ conn[c].req = <<"create", "gotrue">>
            \/ \E i \in Ids : Did(<<"create", "gotrue", i>>)
  BY <1>1, <1>3, OutcomeShape, OutcomeKeepsTypes DEF Inv
<1>6. healthSeen' = (healthSeen \/ (out[1].code = 200 /\ out[1].body = "healthy"))
  BY <1>1 DEF Reports
<1>7. TypeOK'
  <2>1. conn' \in [Conns -> Handlers]
    <3>1. conn \in [Conns -> Handlers]
      BY DEF Inv, TypeOK, Handlers, Answers
    <3>2. conn' = [conn EXCEPT ![c] = [conn[c] EXCEPT !.pc = "answered", !.answer = out[1]]]
      BY <1>1, <3>1
    <3>3. [conn[c] EXCEPT !.pc = "answered", !.answer = out[1]] \in Handlers
      BY <1>5, <3>1 DEF Handlers, InExchange
    <3> QED
      BY <3>1, <3>2, <3>3
  <2>2. healthSeen' \in BOOLEAN
    BY <1>6 DEF Inv, TypeOK
  <2> QED
    BY <1>2, <1>5, <2>1, <2>2 DEF Inv, TypeOK, Handlers, Answers
<1>8. LedgerKnows' /\ NothingAbandoned'
  BY <1>2 DEF Inv, LedgerKnows, NothingAbandoned, Clean
<1>9. ExchangesAgree'
  <2>1. \A s : Admitted(s)' = Admitted(s)
    BY <1>2 DEF Admitted
  <2>2. Waiting \subseteq InExchange /\ "body" \in InExchange
    BY DEF Waiting, InExchange
  <2> QED
    BY <1>2, <1>3, <1>4, <2>1, <2>2 DEF ExchangesAgree
<1>10. HealthKnown'
  <2>1. healthSeen => healthSeen'
    BY <1>6
  <2>2. MigrationNeedsHealth'
    BY <1>5, <2>1 DEF Inv, HealthKnown, MigrationNeedsHealth
  <2>3. "answered" \in InExchange /\ "body" \in InExchange
    BY DEF InExchange
  <2>4. ledger'.state \in AfterHealth => healthSeen'
    BY <1>2, <2>1 DEF Inv, HealthKnown
  <2>5. \A k \in Conns : conn'[k].req = <<"create", "gotrue">> => healthSeen'
    BY <1>4, <2>1 DEF Inv, HealthKnown
  <2>6. <<"create", "gotrue">> \in orphans' => healthSeen'
    BY <1>2, <2>1 DEF Inv, HealthKnown
  <2>7. \A k \in Conns :
           /\ conn'[k].pc \in {"answered", "body"}
           /\ conn'[k].answer.code = 200 /\ conn'[k].answer.body = "healthy"
           => healthSeen'
    <3>1. out[1].code = 200 /\ out[1].body = "healthy" => healthSeen'
      BY <1>6
    <3> QED
      BY <1>4, <2>3, <3>1
  <2> QED
    BY <2>2, <2>4, <2>5, <2>6, <2>7 DEF HealthKnown
<1>11. EffectsKnown'
  <2> SUFFICES ASSUME Clean
               PROVE  EffectsKnown'
    BY <1>2 DEF EffectsKnown, Clean
  <2> DEFINE step == conn[c].step
  <2>1. ledger.state = step
    BY <1>3 DEF Clean
  <2>2. \A k \in Conns : ~Carries(k)
    BY <1>2, <1>4 DEF Carries, InExchange
  <2>3. Prefix(effects, Written(step), ledger.db, ledger.gotrue)
    BY <2>1, <2>2 DEF Inv, EffectsKnown
  <2>4. \A k \in Conns \ {c} : ~Carries(k)'
    BY <1>4 DEF Carries, InExchange
  <2>5. CASE step \in WriteSteps /\ out[1].code \in {201, 204}
    <3>1. Carries(c)'
      BY <1>4, <2>5 DEF Carries
    <3>2. step \notin Networks =>
             Prefix(effects', Written(step) + 1, DbAfter(c)', GotrueAfter(c)')
      BY <1>1, <1>2, <1>3, <1>4, <2>1, <2>3, <2>5, ServedWrite DEF DbAfter, GotrueAfter
    <3> QED
      BY <1>4, <2>4, <3>1, <3>2 DEF EffectsKnown
  <2>6. CASE step \notin WriteSteps \/ out[1].code \notin {201, 204}
    <3>1. effects' = effects
      BY <1>1, <1>3, <2>6, ReadsAre, OutcomeOfRead, OutcomeOfFailure
    <3>2. ~Carries(c)'
      BY <1>4, <2>6 DEF Carries
    <3> QED
      BY <1>2, <2>1, <2>3, <2>4, <3>1, <3>2 DEF EffectsKnown
  <2> QED
    BY <2>5, <2>6
<1> QED
  BY <1>7, <1>8, <1>9, <1>10, <1>11 DEF Inv

-----------------------------------------------------------------------------
(* The theorems *)

LEMMA InitInv == Init => Inv
<1> SUFFICES ASSUME Init PROVE Inv
  OBVIOUS
<1> USE DEF Init, InitLedger, Closed, NoRequest, NoAnswer
<1>1. "NEGOTIATE_HEAD" \in LedgerStates /\ "NEGOTIATE_HEAD" \notin AfterHealth \cup WithGotrue
  BY DEF LedgerStates, Steps, AfterHealth, WithGotrue
<1>2. TypeOK
  <2>1. ledger \in Ledgers /\ (ledger.db = ledger.gotrue => ledger.db = NoId)
    BY <1>1, HealthLimitAssumption DEF Ledgers
  <2>2. conn \in [Conns -> Handlers]
    BY ClosedShape
  <2>3. receipt \in Receipts
    BY DEF Receipts
  <2>4. effects \in Seq(EffectSet) /\ faults \in 0..MaxFaults
    BY MaxFaultsAssumption
  <2> QED
    BY <2>1, <2>2, <2>3, <2>4 DEF TypeOK, Ledgers, Receipts, Handlers, Answers
<1>3. LedgerKnows
  BY <1>1 DEF LedgerKnows
<1>4. \A e : ~Did(e)
  BY DEF Did
<1>5. ExchangesAgree /\ NothingAbandoned
  BY DEF ExchangesAgree, NothingAbandoned, InExchange, Waiting
<1>6. HealthKnown
  BY <1>1, <1>4 DEF HealthKnown, MigrationNeedsHealth
<1>7. EffectsKnown
  BY DEF EffectsKnown, Carries, Prefix, Written, BeforeCreate
<1> QED
  BY <1>2, <1>3, <1>5, <1>6, <1>7 DEF Inv

(* The invariant is inductive. *)
LEMMA InvStep == Inv /\ [Next]_vars => Inv'
<1> SUFFICES ASSUME Inv, [Next]_vars PROVE Inv'
  OBVIOUS
<1>1. ASSUME NEW c \in Conns, Connect(c) \/ Disconnect(c) \/ Relay(c) PROVE Inv'
  BY <1>1, ConnectStep
<1>2. ASSUME NEW c \in Conns, Forward(c) PROVE Inv'
  BY <1>2, ForwardStep
<1>3. ASSUME NEW c \in Conns, RefuseConcurrent(c) \/ Refuse(c) \/ RefuseFraming(c) PROVE Inv'
  BY <1>3, RefuseStep
<1>4. ASSUME NEW c \in Conns, ReadHead(c) PROVE Inv'
  BY <1>4, ReadHeadStep
<1>5. ASSUME NEW c \in Conns, ReadBody(c) PROVE Inv'
  BY <1>5, ReadBodyStep
<1>6. ASSUME NEW c \in Conns, ConnectionFails(c) PROVE Inv'
  <2>1. conn' = [k \in Conns |-> IF k \in {c} THEN Closed ELSE conn[k]]
    BY <1>6 DEF ConnectionFails, Inv, TypeOK
  <2>2. /\ UNCHANGED <<ledger, effects, healthSeen>> /\ orphans' = orphans \cup Abandoned({c})
        /\ receipt' = [receipt EXCEPT !.forwarding = TRUE]
        /\ server' = server /\ server \in {"listening", "draining"}
    BY <1>6 DEF ConnectionFails
  <2>3. faults' \in 0..MaxFaults
    BY <1>6, MaxFaultsAssumption DEF ConnectionFails, Inv, TypeOK
  <2> QED
    BY <2>1, <2>2, <2>3, CloseStep
<1>7. ASSUME NEW c \in Conns, Serve(c) PROVE Inv'
  BY <1>7, ServeStep
<1>8. CASE ServeLate
  BY <1>8, ServeLateStep
<1>9. CASE Stop \/ Exit
  BY <1>9, StopStep
<1>10. CASE DrainTimeout \/ KillObserver
  <2>1. conn' = [k \in Conns |-> IF k \in Conns THEN Closed ELSE conn[k]]
    BY <1>10 DEF DrainTimeout, KillObserver
  <2>2. AllClosed'
    BY <2>1, ClosedShape DEF AllClosed
  <2>3. /\ UNCHANGED <<ledger, effects, healthSeen>> /\ orphans' = orphans \cup Abandoned(Conns)
        /\ \/ receipt' = [receipt EXCEPT !.forwarding = TRUE]
           \/ receipt' = receipt /\ server' = "killed"
        /\ server' \in {"exited", "killed"} /\ faults' = faults
    BY <1>10 DEF DrainTimeout, KillObserver
  <2>4. faults' \in 0..MaxFaults
    BY <2>3 DEF Inv, TypeOK
  <2> QED
    BY <2>1, <2>2, <2>3, <2>4, CloseStep
<1>11. CASE UNCHANGED vars
  <2>1. TypeOK' /\ LedgerKnows' /\ NothingAbandoned'
    BY <1>11 DEF Inv, vars, daemonVars, TypeOK, LedgerKnows, NothingAbandoned, Clean
  <2>2. \A s : Admitted(s)' = Admitted(s)
    BY <1>11 DEF vars, Admitted
  <2>3. ExchangesAgree'
    BY <1>11, <2>2 DEF Inv, vars, ExchangesAgree, AllClosed
  <2>4. HealthKnown'
    BY <1>11 DEF Inv, vars, daemonVars, HealthKnown, MigrationNeedsHealth, Did
  <2>5. EffectsKnown'
    BY <1>11 DEF Inv, vars, daemonVars, EffectsKnown, Carries, DbAfter, GotrueAfter, Clean
  <2> QED
    BY <2>1, <2>3, <2>4, <2>5 DEF Inv
<1> QED
  BY <1>1, <1>2, <1>3, <1>4, <1>5, <1>6, <1>7, <1>8, <1>9, <1>10, <1>11 DEF Next

(* Whatever the client, the daemon and the network do, the proxy stays in  *)
(* states that its ledger, its receipt and the daemon's log agree on.      *)
THEOREM Invariance == Spec => []Inv
  BY InitInv, InvStep, PTL DEF Spec

(* The handlers, the ledger and the receipt keep their types; the ids of   *)
(* the two containers are distinct.                                        *)
THEOREM TypeCorrect == Spec => []TypeOK
  BY Invariance, PTL DEF Inv

(* No request makes a migration container before the daemon has reported   *)
(* the database healthy.                                                   *)
THEOREM MigrationIsSafe == Spec => []MigrationNeedsHealth
  BY Invariance, PTL DEF Inv, HealthKnown

(* The gate passes only when the daemon did exactly the script with the    *)
(* ledger's containers and no request is still outstanding.                *)
THEOREM GateExact == Spec => []GateIsExact
<1>1. Inv => GateIsExact
  <2> SUFFICES ASSUME Inv, GatePasses
               PROVE  /\ effects = Script!Script(ledger.db, ledger.gotrue)
                      /\ orphans = {}
    BY DEF GateIsExact
  <2>1. /\ server = "exited" /\ ~receipt.violated /\ receipt.complete /\ ~receipt.forwarding
    BY DEF GatePasses, ExitCode
  <2>2. Clean /\ ledger.state = "COMPLETE"
    BY <2>1 DEF Clean, Inv, LedgerKnows
  <2>3. \A k \in Conns : ~Carries(k)
    BY <2>1 DEF Inv, ExchangesAgree, AllClosed, Carries
  <2>4. Prefix(effects, 6, ledger.db, ledger.gotrue)
    BY <2>2, <2>3 DEF Inv, EffectsKnown, Written, BeforeCreate
  <2>5. effects = Script!Script(ledger.db, ledger.gotrue)
    <3>1. effects \in Seq(EffectSet) /\ Len(effects) = 6
      BY <2>4 DEF Inv, TypeOK, Prefix
    <3>2. ledger.db \in Ids /\ ledger.gotrue \in Ids
      BY <2>2 DEF Inv, LedgerKnows, AfterHealth, WithGotrue
    <3>3. Script!Script(ledger.db, ledger.gotrue) \in Seq(EffectSet)
      BY <3>2 DEF Script!Script, EffectSet
    <3>4. /\ Len(Script!Script(ledger.db, ledger.gotrue)) = 6
          /\ \A k \in 1..6 : effects[k] = Script!Script(ledger.db, ledger.gotrue)[k]
      BY <2>4, ScriptIs DEF Prefix
    <3> QED
      BY <3>1, <3>3, <3>4
  <2> QED
    BY <2>2, <2>5 DEF Inv, NothingAbandoned
<1> QED
  BY <1>1, Invariance, PTL

(* After a violation on one connection no request of any connection        *)
(* reaches the daemon.                                                     *)
THEOREM StaysShut == Spec => ShutAfterViolation
<1>1. ASSUME Inv, [Next]_vars
      PROVE  [\A c \in Conns : receipt.violated /\ conn'[c].pc = "forwarded"
                                  => conn[c].pc = "forwarded"]_vars
  <2> SUFFICES ASSUME Next, NEW k \in Conns, receipt.violated, conn'[k].pc = "forwarded"
               PROVE  conn[k].pc = "forwarded"
    BY <1>1
  <2>1. ledger.state \notin Steps /\ conn \in [Conns -> Handlers] /\ Closed.pc = "closed"
    BY <1>1, StepsAre, ClosedShape DEF Inv, TypeOK, LedgerKnows, Handlers, Answers
  <2>2. ASSUME NEW c \in Conns,
               Connect(c) \/ Disconnect(c) \/ Forward(c) \/ Relay(c) \/ ConnectionFails(c)
                 \/ Serve(c)
        PROVE  conn[k].pc = "forwarded"
    <3>1. conn[c] \in Handlers
      BY <2>1
    <3>2. /\ Connect(c) => conn' = [conn EXCEPT ![c] = [conn[c] EXCEPT !.pc = "idle"]]
          /\ ~Forward(c)
      BY <2>1, <2>2 DEF Connect, Forward
    <3>3. CASE Connect(c)
      BY <2>1, <3>1, <3>2, <3>3 DEF Handlers
    <3>4. CASE Disconnect(c)
      BY <2>1, <3>1, <3>4 DEF Disconnect
    <3>5. CASE Relay(c)
      BY <2>1, <3>1, <3>5 DEF Relay, Handlers
    <3>6. CASE ConnectionFails(c)
      BY <2>1, <3>1, <3>6 DEF ConnectionFails
    <3>7. CASE Serve(c)
      BY <2>1, <3>1, <3>7 DEF Serve, Handlers
    <3> QED
      BY <2>2, <3>2, <3>3, <3>4, <3>5, <3>6, <3>7
  <2>3. ASSUME NEW c \in Conns, NEW write, Violate(c, write)
        PROVE  conn[k].pc = "forwarded"
    BY <2>1, <2>3 DEF Violate
  <2>4. ASSUME NEW c \in Conns, RefuseConcurrent(c) \/ Refuse(c) \/ RefuseFraming(c)
        PROVE  conn[k].pc = "forwarded"
    BY <2>3, <2>4 DEF RefuseConcurrent, Refuse, RefuseFraming
  <2>5. ASSUME NEW c \in Conns, conn' = [conn EXCEPT ![c].pc = "body"]
                                 \/ conn' = [conn EXCEPT ![c].pc = "relay"]
        PROVE  conn[k].pc = "forwarded"
    BY <2>1, <2>5 DEF Handlers
  <2>6. ASSUME NEW c \in Conns, ReadHead(c) \/ ReadBody(c)
        PROVE  conn[k].pc = "forwarded"
    BY <2>3, <2>5, <2>6 DEF ReadHead, ReadBody
  <2>7. CASE ServeLate \/ Stop \/ Exit \/ DrainTimeout \/ KillObserver
    BY <2>1, <2>7 DEF ServeLate, Stop, Exit, DrainTimeout, KillObserver
  <2> QED
    BY <2>2, <2>4, <2>6, <2>7 DEF Next
<1> QED
  BY <1>1, Invariance, PTL DEF Spec, ShutAfterViolation

-----------------------------------------------------------------------------
(* The observer implements the script it promises *)

Verdict == IF GatePasses THEN "pass"
           ELSE IF server \in {"exited", "killed"} THEN "fail" ELSE "none"

LEMMA VerdictIs ==
    /\ server \notin {"exited", "killed"} => Verdict = "none"
    /\ server \in {"exited", "killed"} /\ ~GatePasses => Verdict = "fail"
    /\ GatePasses => Verdict = "pass" /\ server = "exited"
    /\ GatePasses => ~receipt.violated /\ ~receipt.forwarding /\ receipt.complete
  BY DEF Verdict, GatePasses, ExitCode

Network == <<"network_create", "network">>

(* A prefix of the script has no network in it. *)
LEMMA PrefixHasNoNetwork ==
    ASSUME NEW log, NEW n \in 0..6, NEW db, NEW gotrue, Prefix(log, n, db, gotrue)
    PROVE  \A k \in 1..Len(log) : log[k] # Network
<1> SUFFICES ASSUME NEW k \in 1..n PROVE Script!Script(db, gotrue)[k] # Network
  BY DEF Prefix
<1>1. k \in {1, 2, 3, 4, 5, 6}
  OBVIOUS
<1>2. /\ Script!Script(db, gotrue)[1] # Network /\ Script!Script(db, gotrue)[2] # Network
      /\ Script!Script(db, gotrue)[3] # Network /\ Script!Script(db, gotrue)[4] # Network
      /\ Script!Script(db, gotrue)[5] # Network /\ Script!Script(db, gotrue)[6] # Network
  BY ScriptIs DEF Network
<1> QED
  BY <1>1, <1>2

(* A prefix, as the script's specification says it. *)
LEMMA PrefixIsSubSeq ==
    ASSUME NEW log \in Seq(EffectSet), NEW n \in 0..6, NEW db \in Ids, NEW gotrue \in Ids,
           Prefix(log, n, db, gotrue)
    PROVE  log = SubSeq(Script!Script(db, gotrue), 1, n)
<1>1. Script!Script(db, gotrue) \in Seq(EffectSet) /\ Len(Script!Script(db, gotrue)) = 6
  BY ScriptIs DEF Script!Script, EffectSet
<1>2. PICK script \in Seq(EffectSet) : script = Script!Script(db, gotrue) /\ Len(script) = 6
  BY <1>1
<1>3. /\ SubSeq(script, 1, n) \in Seq(EffectSet) /\ Len(SubSeq(script, 1, n)) = n
      /\ \A k \in 1..n : SubSeq(script, 1, n)[k] = script[k]
  <2>1. \A i \in 1..n : script[i] \in EffectSet
    <3>1. script \in Seq(EffectSet) /\ \A i \in 1..n : i \in 1..Len(script)
      BY <1>2
    <3> QED
      BY <3>1, ElementOfSeq
  <2>2. 1 \in Int /\ n \in Int /\ n - 1 + 1 = n /\ \A i \in 1..n : 1 + i - 1 = i
    OBVIOUS
  <2>3. /\ SubSeq(script, 1, n) \in Seq(EffectSet)
        /\ Len(SubSeq(script, 1, n)) = IF 1 <= n THEN n - 1 + 1 ELSE 0
        /\ \A i \in 1..(n - 1 + 1) : SubSeq(script, 1, n)[i] = script[1 + i - 1]
    BY <2>1, <2>2, SubSeqProperties
  <2> QED
    BY <2>2, <2>3
<1> QED
  BY <1>2, <1>3 DEF Prefix

(* Once something went wrong it stays so, and once the observer is gone    *)
(* only the daemon moves.                                                  *)
LEMMA FaultsStay ==
    ASSUME Inv, Next
    PROVE  /\ receipt.violated => receipt'.violated
           /\ receipt.forwarding => receipt'.forwarding
           /\ server = "killed" => server' = "killed"
           /\ server \in {"exited", "killed"} => ServeLate
<1>1. ASSUME NEW c \in Conns,
             Connect(c) \/ Disconnect(c) \/ Forward(c) \/ Relay(c) \/ Serve(c)
      PROVE  /\ receipt.violated => receipt'.violated
             /\ receipt.forwarding => receipt'.forwarding
             /\ server' = server /\ server \notin {"exited", "killed"}
  BY <1>1 DEF Connect, Disconnect, Forward, Relay, Serve, ExchangesAgree, AllClosed, Inv, TypeOK
<1>2. ASSUME NEW c \in Conns, NEW write, Violate(c, write), server' = server,
             conn[c].pc # "closed"
      PROVE  /\ receipt'.violated /\ (receipt.forwarding => receipt'.forwarding)
             /\ server' = server /\ server \notin {"exited", "killed"}
  BY <1>2 DEF Violate, ExchangesAgree, AllClosed, Inv, TypeOK
<1>3. ASSUME NEW c \in Conns, RefuseConcurrent(c) \/ Refuse(c) \/ RefuseFraming(c)
      PROVE  /\ receipt'.violated /\ (receipt.forwarding => receipt'.forwarding)
             /\ server' = server /\ server \notin {"exited", "killed"}
  BY <1>2, <1>3 DEF RefuseConcurrent, Refuse, RefuseFraming
<1>4. ASSUME NEW c \in Conns, ReadHead(c) \/ ReadBody(c)
      PROVE  /\ receipt.violated => receipt'.violated
             /\ receipt.forwarding => receipt'.forwarding
             /\ server' = server /\ server \notin {"exited", "killed"}
  <2>1. conn[c].pc # "closed" /\ server' = server
    BY <1>4 DEF ReadHead, ReadBody
  <2>2. receipt' = receipt \/ Violate(c, IsWrite(conn[c].req))
    BY <1>4 DEF ReadHead, ReadBody
  <2>3. server \notin {"exited", "killed"}
    BY <2>1 DEF ExchangesAgree, AllClosed, Inv
  <2> QED
    BY <1>2, <2>1, <2>2, <2>3
<1>5. ASSUME NEW c \in Conns, ConnectionFails(c)
      PROVE  /\ receipt.violated => receipt'.violated
             /\ receipt'.forwarding
             /\ server' = server /\ server \notin {"exited", "killed"}
  BY <1>5 DEF ConnectionFails, Inv, TypeOK
<1>6. CASE Stop \/ Exit \/ DrainTimeout \/ KillObserver
  BY <1>6 DEF Stop, Exit, DrainTimeout, KillObserver, Inv, TypeOK
<1>7. CASE ServeLate
  BY <1>7 DEF ServeLate
<1> QED
  BY <1>1, <1>3, <1>4, <1>5, <1>6, <1>7 DEF Next

(* Until something goes wrong the log holds no network. *)
LEMMA CleanHasNoNetwork ==
    ASSUME Inv, Clean, \A k \in Conns : Carries(k) => conn[k].step \notin Networks
    PROVE  ~Did(Network) /\ ~Faulted
<1>1. ~Did(Network)
  <2>1. CASE \E k \in Conns : Carries(k)
    <3>1. PICK k \in Conns : Carries(k)
      BY <2>1
    <3>2. Prefix(effects, Written(conn[k].step) + 1, DbAfter(k), GotrueAfter(k))
          /\ conn[k].step \in WriteSteps \ Networks
      BY <3>1 DEF Inv, EffectsKnown, Carries
    <3>3. Written(conn[k].step) + 1 \in 0..6
      BY <3>2 DEF Written, WriteSteps, Networks, BeforeCreate
    <3> QED
      BY <3>2, <3>3, PrefixHasNoNetwork DEF Did
  <2>2. CASE ~\E k \in Conns : Carries(k)
    <3>1. Prefix(effects, Written(ledger.state), ledger.db, ledger.gotrue)
      BY <2>2 DEF Inv, EffectsKnown
    <3>2. Written(ledger.state) \in 0..6
      BY DEF Written
    <3> QED
      BY <3>1, <3>2, PrefixHasNoNetwork DEF Did
  <2> QED
    BY <2>1, <2>2
<1> QED
  BY <1>1 DEF Clean, Faulted, Network

(* The two ways a step can matter to the script's specification when the   *)
(* observer's verdict stays                                                *)
LEMMA QuietMapped ==
    ASSUME Inv, UNCHANGED <<effects, Verdict>>, Faulted => Faulted'
    PROVE  [Script!Next]_Script!vars
<1>1. CASE Faulted <=> Faulted'
  <2>1. Faulted' = Faulted
    BY <1>1 DEF Faulted
  <2> QED
    BY <2>1 DEF Script!vars, Verdict
<1>2. CASE ~(Faulted <=> Faulted')
  <2>1. Faulted' = TRUE
    BY <1>2 DEF Faulted
  <2> QED
    BY <2>1 DEF Script!Next, Script!Fault, Verdict
<1> QED
  BY <1>1, <1>2

LEMMA StrayMapped ==
    ASSUME NEW e \in EffectSet, effects' = Append(effects, e), UNCHANGED Verdict,
           Verdict # "pass", Faulted \/ e = Network, Faulted'
    PROVE  Script!Next
<1>1. e \in Script!ScriptWrites
  BY DEF EffectSet, Script!ScriptWrites
<1>2. Faulted' = TRUE
  BY DEF Faulted
<1> QED
  BY <1>1, <1>2 DEF Script!Next, Script!Stray, Verdict, Network

(* What the daemon appends is a write of the script or another network. *)
LEMMA OutcomeIsEffect ==
    ASSUME NEW req \in Requests, NEW out \in Outcomes(req), out[2] # effects
    PROVE  \E e \in EffectSet : out[2] = Append(effects, e)
<1>1. CASE /\ req[1] \in {"network_create", "volume_create", "start", "remove"}
           /\ out[2] = Append(effects, req)
  BY <1>1 DEF Requests, EffectSet
<1>2. CASE /\ req[1] = "create"
           /\ \E i \in Ids \ Created : out[2] = Append(effects, <<"create", req[2], i>>)
  <2>1. req \in {<<"create", "db">>, <<"create", "gotrue">>}
    BY <1>2 DEF Requests
  <2>2. PICK i \in Ids : out[2] = Append(effects, <<"create", req[2], i>>)
    BY <1>2
  <2>3. <<"create", req[2], i>> \in EffectSet
    BY <2>1 DEF EffectSet
  <2> QED
    BY <2>2, <2>3
<1> QED
  BY <1>1, <1>2, OutcomeShape

(* A prefix and the longer one it grew to are prefixes of one script,      *)
(* whatever the ids that are not known yet.                                *)
LEMMA CommonIds ==
    ASSUME NEW log, NEW longer, NEW n \in 0..5, NEW db0, NEW gt0, NEW db, NEW gt,
           Prefix(log, n, db0, gt0), Prefix(longer, n + 1, db, gt),
           n >= 1 => db \in Ids, n >= 3 => gt \in Ids /\ gt # db,
           n >= 2 => db = db0, n >= 4 => gt = gt0
    PROVE  \E d, g \in Ids : d # g /\ Prefix(log, n, d, g) /\ Prefix(longer, n + 1, d, g)
<1>1. PICK d, g \in Ids : d # g /\ (n >= 1 => d = db) /\ (n >= 3 => g = gt)
  <2>1. CASE n = 0
    BY <2>1, IdsAssumption
  <2>2. CASE n \in {1, 2}
    BY <2>2, IdsAssumption
  <2>3. CASE n \in {3, 4, 5}
    BY <2>3
  <2> QED
    BY <2>1, <2>2, <2>3
<1>2. Prefix(log, n, d, g)
  <2>1. n \in 0..6 /\ (n >= 2 => d = db0) /\ (n >= 4 => g = gt0)
    BY <1>1
  <2> QED
    BY <2>1, PrefixFree
<1>3. Prefix(longer, n + 1, d, g)
  <2>1. n + 1 \in 0..6 /\ (n + 1 >= 2 => d = db) /\ (n + 1 >= 4 => g = gt)
    BY <1>1
  <2> QED
    BY <2>1, PrefixFree
<1> QED
  BY <1>1, <1>2, <1>3

(* The daemon's answer to a request that waits *)
LEMMA ServeMapped ==
    ASSUME Inv, Inv', NEW c \in Conns, Serve(c)
    PROVE  [Script!Next]_Script!vars
<1>1. PICK out \in Outcomes(conn[c].req) :
         /\ conn' = [conn EXCEPT ![c].pc = "answered", ![c].answer = out[1]]
         /\ effects' = out[2]
  BY DEF Serve
<1>2. UNCHANGED <<ledger, receipt, server, orphans, faults>> /\ conn[c].pc = "forwarded"
  BY DEF Serve
<1>3. /\ conn[c].pc \in InExchange \cap Waiting /\ conn[c].step \in Steps
      /\ conn[c].req = Admitted(conn[c].step) /\ conn[c].req \in Requests
      /\ receipt.violated \/ ledger.state = conn[c].step
      /\ server \notin {"exited", "killed"}
  BY <1>2, OneExchange DEF Inv, ExchangesAgree, InExchange, Waiting
<1>4. /\ \A k \in Conns \ {c} : conn'[k] = conn[k] /\ conn[k].pc \notin InExchange
      /\ conn'[c].pc = "answered"
      /\ conn'[c].step = conn[c].step /\ conn'[c].answer = out[1]
  BY <1>1, <1>3, OneExchange DEF Inv, TypeOK
<1>5. /\ Verdict = "none" /\ UNCHANGED Verdict /\ (Clean' <=> Clean)
      /\ Faulted /\ ~Did(Network) => Faulted'
  BY <1>2, <1>3, VerdictIs DEF Verdict, GatePasses, ExitCode, Clean, Faulted, Network
<1>6. effects \in Seq(EffectSet)
  BY DEF Inv, TypeOK
<1>7. CASE effects' = effects
  <2>1. Faulted => Faulted'
    BY <1>2, <1>7 DEF Faulted, Did
  <2> QED
    BY <1>5, <1>7, <2>1, QuietMapped
<1>8. CASE effects' # effects
  <2>1. PICK e \in EffectSet : effects' = Append(effects, e)
    BY <1>1, <1>3, <1>8, OutcomeIsEffect
  <2>2. Did(Network) => Did(Network)'
    BY <1>6, <2>1 DEF Did
  <2>3. CASE Faulted
    <3>1. Faulted'
      BY <1>5, <2>2, <2>3 DEF Faulted, Network
    <3> QED
      BY <1>5, <2>1, <2>3, <3>1, StrayMapped
  <2>4. CASE ~Faulted
    <3> DEFINE step == conn[c].step
    <3>1. Clean /\ ledger.state = step
      BY <1>2, <1>3, <2>4 DEF Faulted, Clean
    <3>2. step \in WriteSteps /\ out[1].code \in {201, 204}
      BY <1>1, <1>3, <1>8, ReadsAre, OutcomeOfRead, OutcomeOfFailure
    <3>3. Carries(c)' /\ \A k \in Conns \ {c} : ~Carries(k)' /\ ~Carries(k)
      BY <1>4, <3>2 DEF Carries, InExchange
    <3>4. ~Carries(c)
      BY <1>2 DEF Carries
    <3>5. CASE step \in Networks
      <4>1. Admitted(step) = Network
        BY <3>5 DEF Admitted, Networks, Network
      <4>2. effects' = Append(effects, Network) /\ Network \in EffectSet
        <5>1. out[2] = effects \/ out[2] = Append(effects, conn[c].req)
          BY <1>3, <4>1, OutcomeShape DEF Network
        <5> QED
          BY <1>1, <1>3, <1>8, <4>1, <5>1 DEF EffectSet, Network
      <4>3. Faulted'
        <5>1. Len(effects') = Len(effects) + 1 /\ effects'[Len(effects) + 1] = Network
              /\ Len(effects) \in Nat
          BY <1>6, <4>2
        <5>2. Did(Network)'
          BY <5>1 DEF Did
        <5> QED
          BY <5>2 DEF Faulted, Network
      <4> QED
        BY <1>5, <4>2, <4>3, StrayMapped
    <3>6. CASE step \notin Networks
      <4>1. Prefix(effects, Written(step), ledger.db, ledger.gotrue)
        BY <3>1, <3>3, <3>4 DEF Inv, EffectsKnown
      <4>2. Prefix(effects', Written(step) + 1, DbAfter(c)', GotrueAfter(c)')
        BY <1>4, <1>5, <3>1, <3>3, <3>6 DEF Inv, EffectsKnown
      <4>3. Written(step) \in 0..5 /\ Written(step) + 1 \in 0..6
        BY <3>2, <3>6 DEF Written, WriteSteps, Networks, BeforeCreate
      <4>4. ~Faulted'
        <5>1. ~Did(Network)'
          BY <4>2, <4>3, PrefixHasNoNetwork DEF Did
        <5>2. Clean'
          BY <1>5, <3>1
        <5> QED
          BY <5>1, <5>2 DEF Clean, Faulted, Network
      <4>5. PICK db, gotrue \in Ids :
               /\ db # gotrue
               /\ Prefix(effects, Written(step), db, gotrue)
               /\ Prefix(effects', Written(step) + 1, db, gotrue)
        <5>1. PICK n, db2, gt2 :
                 n = Written(step) /\ db2 = DbAfter(c)' /\ gt2 = GotrueAfter(c)'
          OBVIOUS
        <5>2. /\ n >= 1 => db2 \in Ids
              /\ n >= 3 => gt2 \in Ids /\ gt2 # db2
              /\ n >= 2 => db2 = ledger.db
              /\ n >= 4 => gt2 = ledger.gotrue
          <6>1. /\ db2 = IF step = "DB_CREATE" THEN out[1].body ELSE ledger.db
                /\ gt2 = IF step = "GOTRUE_CREATE" THEN out[1].body ELSE ledger.gotrue
            BY <1>2, <1>4, <5>1 DEF DbAfter, GotrueAfter
          <6>2. step \in {"DB_CREATE", "GOTRUE_CREATE"} => out[1].body \in Ids \ Created
            <7>1. step \in {"DB_CREATE", "GOTRUE_CREATE"} => conn[c].req[1] = "create"
              <8>1. /\ Admitted("DB_CREATE")[1] = "create"
                    /\ Admitted("GOTRUE_CREATE")[1] = "create"
                BY DEF Admitted
              <8> QED
                BY <1>3, <8>1
            <7>2. conn[c].req \in Requests /\ out \in Outcomes(conn[c].req)
              BY <1>3
            <7>3. conn[c].req[1] = "create" => out[1].body \in Ids \ Created
              BY <3>2, <7>2, OutcomeOfSuccess
            <7> QED
              BY <7>1, <7>3
          <6>3. step # "VOLUME_CREATE" /\ step # "DB_CREATE" => ledger.db \in Ids
            BY <3>1, <3>2, <3>6 DEF Inv, LedgerKnows, WriteSteps, Networks, AfterHealth, WithGotrue
          <6>4. step \in {"GOTRUE_START", "GOTRUE_REMOVE"} =>
                   ledger.gotrue \in Ids /\ ledger.gotrue # ledger.db
            <7>1. NoId \notin Ids
              BY IdsAssumption DEF NoId
            <7> QED
              BY <3>1, <6>3, <7>1 DEF Inv, LedgerKnows, WithGotrue, TypeOK
          <6>5. step = "GOTRUE_CREATE" => ledger.db \in Created
            <7> SUFFICES ASSUME step = "GOTRUE_CREATE" PROVE ledger.db \in Created
              OBVIOUS
            <7>1. Written(step) = 3
              BY DEF Written, BeforeCreate
            <7>2. 2 \in 1..3 /\ Len(effects) = 3 /\ effects[2] = <<"create", "db", ledger.db>>
              BY <4>1, <7>1, ScriptIs DEF Prefix
            <7> QED
              BY <6>3, <7>2 DEF Created
          <6>6. \/ step = "VOLUME_CREATE" /\ n = 0
                \/ step = "DB_CREATE" /\ n = 1
                \/ step = "DB_START" /\ n = 2
                \/ step = "GOTRUE_CREATE" /\ n = 3
                \/ step \in {"GOTRUE_START", "GOTRUE_REMOVE"} /\ n \in {4, 5}
            BY <3>2, <3>6, <5>1 DEF WriteSteps, Networks, Written, BeforeCreate
          <6> HIDE DEF step
          <6> QED
            BY <6>1, <6>2, <6>3, <6>4, <6>5, <6>6
        <5>3. n \in 0..5 /\ Prefix(effects, n, ledger.db, ledger.gotrue)
              /\ Prefix(effects', n + 1, db2, gt2)
          BY <4>1, <4>2, <4>3, <5>1
        <5>4. \E d, g \in Ids : d # g /\ Prefix(effects, n, d, g) /\ Prefix(effects', n + 1, d, g)
          BY <5>2, <5>3, CommonIds
        <5> QED
          BY <5>1, <5>4
      <4>6. /\ Len(effects) = Written(step)
            /\ effects = SubSeq(Script!Script(db, gotrue), 1, Len(effects))
            /\ effects' = SubSeq(Script!Script(db, gotrue), 1, Len(effects) + 1)
        <5>1. Len(effects) = Written(step) /\ effects' \in Seq(EffectSet)
          BY <1>6, <2>1, <4>1 DEF Prefix
        <5>2. Len(effects) \in 0..6 /\ Len(effects) + 1 \in 0..6
          BY <4>3, <5>1
        <5>3. effects = SubSeq(Script!Script(db, gotrue), 1, Len(effects))
          BY <1>6, <4>5, <5>1, <5>2, PrefixIsSubSeq
        <5>4. effects' = SubSeq(Script!Script(db, gotrue), 1, Len(effects) + 1)
          BY <4>5, <5>1, <5>2, PrefixIsSubSeq
        <5> QED
          BY <5>1, <5>3, <5>4
      <4>7. Script!Advance
        <5>1. Faulted' = Faulted
          BY <2>4, <4>4 DEF Faulted
        <5>2. Len(effects) < 6
          BY <4>3, <4>6
        <5>3. \E d, g \in Ids :
                 /\ d # g /\ Len(effects) < 6
                 /\ effects' = SubSeq(Script!Script(d, g), 1, Len(effects) + 1)
                 /\ effects = SubSeq(Script!Script(d, g), 1, Len(effects))
          BY <4>5, <4>6, <5>2
        <5> QED
          BY <1>5, <2>4, <5>1, <5>3 DEF Script!Advance, Verdict
      <4> QED
        BY <4>7 DEF Script!Next
    <3> QED
      BY <3>5, <3>6
  <2> QED
    BY <2>3, <2>4
<1> QED
  BY <1>7, <1>8

(* The verdict of an observer that has ended *)
LEMMA ExitMapped ==
    ASSUME Inv, Inv', Next, server \in {"listening", "draining"},
           server' \in {"exited", "killed"}
    PROVE  Script!Next
<1>1. /\ Exit \/ DrainTimeout \/ KillObserver
      /\ effects' = effects /\ Verdict = "none" /\ Verdict' \in {"pass", "fail"}
  <2>1. Exit \/ DrainTimeout \/ KillObserver
    BY DEF Next, Connect, Disconnect, Forward, RefuseConcurrent, Refuse, RefuseFraming,
           ReadHead, ReadBody, Relay, ConnectionFails, Serve, ServeLate, Stop
  <2> QED
    BY <2>1 DEF Exit, DrainTimeout, KillObserver, daemonVars, Verdict, GatePasses
<1>2. CASE GatePasses'
  <2>1. Exit
    <3>1. server' = "exited" /\ ~receipt'.forwarding
      BY <1>2 DEF GatePasses, ExitCode
    <3> QED
      BY <1>1, <3>1 DEF DrainTimeout, KillObserver, Inv, TypeOK
  <2>2. UNCHANGED <<ledger, receipt, conn, effects, orphans>> /\ AllClosed /\ server = "draining"
    BY <2>1 DEF Exit, daemonVars
  <2>3. ~receipt.violated /\ ~receipt.forwarding /\ receipt.complete
    BY <1>2, <2>2 DEF GatePasses, ExitCode
  <2>4. Clean /\ ledger.state = "COMPLETE" /\ \A k \in Conns : ~Carries(k)
    BY <2>2, <2>3 DEF Clean, AllClosed, Carries, Inv, LedgerKnows
  <2>5. /\ ledger.db \in Ids /\ ledger.gotrue \in Ids /\ ledger.db # ledger.gotrue
    <3>1. NoId \notin Ids
      BY IdsAssumption DEF NoId
    <3> QED
      BY <2>4, <3>1 DEF Inv, LedgerKnows, TypeOK, AfterHealth, WithGotrue
  <2>6. effects = Script!Script(ledger.db, ledger.gotrue)
    <3>1. Prefix(effects, 6, ledger.db, ledger.gotrue)
      BY <2>4 DEF Inv, EffectsKnown, Written, BeforeCreate
    <3>2. 6 \in 0..6 /\ effects \in Seq(EffectSet)
      BY DEF Inv, TypeOK
    <3>3. effects = SubSeq(Script!Script(ledger.db, ledger.gotrue), 1, 6)
      BY <2>5, <3>1, <3>2, PrefixIsSubSeq
    <3>4. Script!Script(ledger.db, ledger.gotrue)
             = SubSeq(Script!Script(ledger.db, ledger.gotrue), 1, 6)
      <4>1. /\ Script!Script(ledger.db, ledger.gotrue) \in Seq(EffectSet)
            /\ Prefix(Script!Script(ledger.db, ledger.gotrue), 6, ledger.db, ledger.gotrue)
        BY <2>5, ScriptIs DEF Script!Script, EffectSet, Prefix
      <4> QED
        BY <2>5, <3>2, <4>1, PrefixIsSubSeq
    <3> QED
      BY <3>3, <3>4
  <2>7. ~Faulted /\ Faulted' = Faulted
    <3>1. ~Faulted
      BY <2>4, CleanHasNoNetwork
    <3>2. server # "killed" /\ server' # "killed"
      BY <1>2, <2>2 DEF GatePasses
    <3> QED
      BY <2>2, <3>1, <3>2 DEF Faulted, Did
  <2>8. Script!WholeScript
    BY <2>5, <2>6 DEF Script!WholeScript
  <2> QED
    BY <1>1, <1>2, <2>7, <2>8 DEF Script!Next, Script!Finish, Verdict
<1>3. CASE ~GatePasses'
  <2>1. Verdict' = "fail"
    BY <1>3 DEF Verdict
  <2>2. Faulted' \in {Faulted, TRUE}
    <3>1. Faulted => Faulted'
      BY <1>1, FaultsStay DEF Faulted, Did
    <3>2. Faulted' \in BOOLEAN /\ Faulted \in BOOLEAN
      BY DEF Faulted
    <3> QED
      BY <3>1, <3>2
  <2> QED
    BY <1>1, <2>1, <2>2 DEF Script!Next, Script!Finish, Verdict
<1> QED
  BY <1>2, <1>3

(* A request whose handler is gone *)
LEMMA LateMapped ==
    ASSUME Inv, ServeLate
    PROVE  [Script!Next]_Script!vars
<1>1. PICK req \in orphans : \/ UNCHANGED effects
                             \/ \E out \in Outcomes(req) : effects' = out[2]
  BY DEF ServeLate
<1>2. UNCHANGED <<ledger, receipt, conn, server>> /\ req \in Requests
  BY DEF ServeLate, Inv, TypeOK
<1>3. /\ ~Clean /\ Faulted /\ Faulted'
      /\ UNCHANGED Verdict /\ Verdict # "pass"
  <2>1. ~Clean
    BY <1>1 DEF Inv, NothingAbandoned
  <2>2. Faulted /\ Faulted'
    BY <1>2, <2>1 DEF Clean, Faulted
  <2>3. ~GatePasses
    BY <2>1, VerdictIs DEF Clean
  <2> QED
    BY <1>2, <2>1, <2>2, <2>3 DEF Verdict, GatePasses, ExitCode
<1>4. CASE effects' = effects
  BY <1>3, <1>4, QuietMapped
<1>5. CASE effects' # effects
  <2>1. PICK e \in EffectSet : effects' = Append(effects, e)
    BY <1>1, <1>2, <1>5, OutcomeIsEffect
  <2> QED
    BY <1>3, <2>1, StrayMapped
<1> QED
  BY <1>4, <1>5

(* The observer implements the script it promises: until something goes    *)
(* wrong the daemon carries out its writes, in order and once each, and    *)
(* only a daemon that did them all passes the gate.                        *)
THEOREM ScriptRefined == Spec => ImplementsScript
<1>1. Init => Script!Init
  <2> SUFFICES ASSUME Init PROVE Script!Init
    OBVIOUS
  <2>1. effects = <<>> /\ Verdict = "none"
    BY VerdictIs DEF Init
  <2>2. Faulted = FALSE
    BY DEF Init, Faulted, Did
  <2> QED
    BY <2>1, <2>2 DEF Script!Init, Verdict
<1>2. ASSUME Inv, Inv', [Next]_vars
      PROVE  [Script!Next]_Script!vars
  <2>1. CASE UNCHANGED vars
    BY <1>2, <2>1, QuietMapped
       DEF vars, daemonVars, Verdict, GatePasses, ExitCode, Faulted, Did
  <2>2. CASE Next /\ server \in {"exited", "killed"}
    BY <1>2, <2>2, FaultsStay, LateMapped
  <2>3. CASE Next /\ server \notin {"exited", "killed"} /\ server' \in {"exited", "killed"}
    BY <1>2, <2>3, ExitMapped DEF Inv, TypeOK
  <2>4. CASE Next /\ server \notin {"exited", "killed"} /\ server' \notin {"exited", "killed"}
    <3>1. ASSUME NEW c \in Conns, Serve(c) PROVE [Script!Next]_Script!vars
      BY <1>2, <3>1, ServeMapped
    <3>2. CASE effects' = effects
      <4>1. UNCHANGED Verdict
        BY <2>4 DEF Verdict, GatePasses
      <4>2. Faulted => Faulted'
        BY <1>2, <2>4, <3>2, FaultsStay DEF Faulted, Did
      <4> QED
        BY <1>2, <3>2, <4>1, <4>2, QuietMapped
    <3>3. ServeLate \/ effects' = effects \/ \E c \in Conns : Serve(c)
      BY <2>4 DEF Next, Connect, Disconnect, Forward, RefuseConcurrent, Refuse, RefuseFraming,
                  ReadHead, ReadBody, Relay, ConnectionFails, Stop, Exit, DrainTimeout,
                  KillObserver, daemonVars
    <3> QED
      BY <1>2, <3>1, <3>2, <3>3, LateMapped
  <2> QED
    BY <1>2, <2>1, <2>2, <2>3, <2>4
<1> QED
  BY <1>1, <1>2, Invariance, PTL DEF Spec, ImplementsScript, Script!Spec

=============================================================================
