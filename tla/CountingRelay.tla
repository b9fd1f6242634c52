---------------------------- MODULE CountingRelay ----------------------------
(***************************************************************************)
(* The counting relay of scripts/docker_api_boundary.py (no policy) as     *)
(* run_loadconfig_services_split of scripts/run-containment-smoke.sh uses  *)
(* it: the Supabase CLI gets the relay's socket for Docker's, and its      *)
(* configuration is only judged if no request came through.  The function  *)
(* stands in the script, but no mode calls it any more.                    *)
(*                                                                         *)
(* The relay works on chunks as they arrive, which end anywhere: in the    *)
(* middle of a request line, or after the head of the next request.  It    *)
(* goes on forwarding what it cannot parse.  The CLI, or what it leaves    *)
(* behind when it is killed, may go on sending while the relay is stopped. *)
(***************************************************************************)
EXTENDS Naturals, Sequences

CONSTANTS
    Connections,
    MaxPieces       \* bound on the pieces a client sends over one connection

(* What a client sends: a request line (whole, or its beginning and later  *)
(* its "rest"), a header that announces a body of one piece, the blank     *)
(* line, and lines that are none of these.                                 *)

Pieces == {"read", "write", "half read", "half write", "rest", "length", "blank", "bad"}

VARIABLES
    stage,      \* of the shell and the relay
    conn,       \* the connections
    counts,     \* the relay's counters
    stateFile,  \* what the relay wrote at its end, in a set that may be empty
    gate        \* the shell's verdict

relayVars == <<stage, conn, counts, stateFile, gate>>

Fresh == [at |-> "new", left |-> MaxPieces, halved |-> "none", inbox |-> <<>>,
          parser |-> [mode |-> "line", sized |-> FALSE, part |-> "none", unread |-> <<>>],
          daemon |-> [mode |-> "line", sized |-> FALSE, part |-> "none", kind |-> "none"],
          served |-> {}, owed |-> 0]

Zero == [request |-> 0, response |-> 0, error |-> 0, write |-> 0, forwarding |-> 0, parser |-> 0]

(* Bound on every counter: what counts is whether it is zero, or more than *)
(* another.                                                                *)
Inc(r, counter) == [r EXCEPT ![counter] = IF @ < 3 THEN @ + 1 ELSE @]

-----------------------------------------------------------------------------
(* RequestParser *)

(* Mutant of Counted: only a request that is refused is counted. *)
CountedRefused(r, kind) == IF kind = "write" THEN Inc(Inc(r, "request"), "write") ELSE r

(* Receipt.request and Receipt.write_attempt *)
Counted(r, kind) == IF kind = "write" THEN Inc(Inc(r, "request"), "write") ELSE Inc(r, "request")

(* The line a piece completes, given the part that was there before it *)
Line(part, piece) == IF piece = "rest" THEN part ELSE piece

(* A piece goes into the parser p: p.raised tells how feed() ended. *)
Fed(p, piece) ==
    LET line == Line(p.part, piece)
        whole == [p EXCEPT !.part = "none"]
    IN CASE p.raised # "no" -> [p EXCEPT !.unread = Append(@, piece)]
         [] p.raised = "no" /\ p.mode = "body" -> [p EXCEPT !.mode = "line"]
         [] p.raised = "no" /\ p.mode # "body" /\ piece = "half read" -> [p EXCEPT !.part = "read"]
         [] p.raised = "no" /\ p.mode # "body" /\ piece = "half write" -> [p EXCEPT !.part = "write"]
         [] OTHER ->
              CASE p.mode = "line" /\ line \in {"read", "write"} ->
                     [whole EXCEPT !.mode = "headers", !.counters = Counted(@, line),
                                   !.raised = IF line = "write" THEN "write attempt" ELSE "no"]
                [] p.mode = "headers" /\ line = "blank" ->
                     [whole EXCEPT !.mode = IF p.sized THEN "body" ELSE "line", !.sized = FALSE]
                [] p.mode = "headers" /\ line = "length" -> [whole EXCEPT !.sized = TRUE]
                [] OTHER -> [whole EXCEPT !.raised = "value error"]

(* feed(): what an exception left unparsed comes before the new chunk. *)
Feed(parser, chunk) ==
    LET pieces == parser.unread \o chunk
        start == [mode |-> parser.mode, sized |-> parser.sized, part |-> parser.part,
                  unread |-> <<>>, raised |-> "no", counters |-> counts]
        after[n \in 0..Len(pieces)] == IF n = 0 THEN start ELSE Fed(after[n - 1], pieces[n])
    IN  after[Len(pieces)]

ParserOf(p) == [mode |-> p.mode, sized |-> p.sized, part |-> p.part, unread |-> p.unread]

-----------------------------------------------------------------------------
(* The daemon: it serves a request when its head is complete, and closes   *)
(* the connection at the first line it cannot make sense of.               *)

Heard(d, piece) ==
    LET line == Line(d.part, piece)
        whole == [d EXCEPT !.part = "none"]
    IN CASE d.mode = "closed" -> d
         [] d.mode = "body" -> [d EXCEPT !.mode = "line"]
         [] d.mode \in {"line", "headers"} /\ piece = "half read" -> [d EXCEPT !.part = "read"]
         [] d.mode \in {"line", "headers"} /\ piece = "half write" -> [d EXCEPT !.part = "write"]
         [] OTHER ->
              CASE d.mode = "line" /\ line \in {"read", "write"} ->
                     [whole EXCEPT !.mode = "headers", !.kind = line]
                [] d.mode = "headers" /\ line = "blank" ->
                     [whole EXCEPT !.mode = IF d.sized THEN "body" ELSE "line", !.sized = FALSE,
                                   !.kind = "none", !.serves = Append(@, d.kind)]
                [] d.mode = "headers" /\ line = "length" -> [whole EXCEPT !.sized = TRUE]
                [] OTHER -> [whole EXCEPT !.mode = "closed"]

(* What the daemon makes of a chunk *)
Hear(daemon, chunk) ==
    LET start == [mode |-> daemon.mode, sized |-> daemon.sized, part |-> daemon.part,
                  kind |-> daemon.kind, serves |-> <<>>]
        after[n \in 0..Len(chunk)] == IF n = 0 THEN start ELSE Heard(after[n - 1], chunk[n])
    IN  after[Len(chunk)]

(* The connection after the daemon has got it *)
Forwarded(k, chunk) ==
    LET d == Hear(k.daemon, chunk)
    IN [k EXCEPT !.daemon = [mode |-> d.mode, sized |-> d.sized, part |-> d.part, kind |-> d.kind],
                 !.served = @ \cup {d.serves[i]: i \in DOMAIN d.serves},
                 !.owed = @ + Len(d.serves)]

-----------------------------------------------------------------------------
(* BoundaryServer *)

(* Any failure before the relay listens, or a relay that never does *)
StartRelay ==
    /\ stage = "start"
    /\ stage' \in {"cli", "judged"}
    /\ gate' = IF stage' = "cli" THEN gate ELSE "DOCKER_API_OBSERVER_NOT_READY"
    /\ UNCHANGED <<conn, counts, stateFile>>

(* The relay accepts a connection; the daemon's socket may refuse it. *)
Accept(c) ==
    /\ stage = "cli" /\ conn[c].at = "new"
    /\ \/ conn' = [conn EXCEPT ![c].at = "open"] /\ UNCHANGED counts
       \/ conn' = [conn EXCEPT ![c].at = "closed"] /\ counts' = Inc(counts, "forwarding")
    /\ UNCHANGED <<stage, stateFile, gate>>

(* A client sends one or two pieces at once.  A halved line goes on with   *)
(* its rest.                                                               *)
Continues(halved, piece) == (halved # "none") = (piece = "rest")
HalvedBy(piece) == CASE piece = "half read" -> "read" [] piece = "half write" -> "write" [] OTHER -> "none"

ClientSends(c) ==
    /\ stage \in {"cli", "stopping"} /\ conn[c].at = "open" /\ conn[c].inbox = <<>>
    /\ \E first \in Pieces, more \in {<<>>} \cup {<<p>>: p \in Pieces}:
          /\ Len(more) < conn[c].left
          /\ Continues(conn[c].halved, first)
          /\ more # <<>> => Continues(HalvedBy(first), more[1])
          /\ conn' = [conn EXCEPT ![c].inbox = <<first>> \o more,
                                  ![c].left = @ - 1 - Len(more),
                                  ![c].halved = HalvedBy(IF more = <<>> THEN first ELSE more[1])]
    /\ UNCHANGED <<stage, counts, stateFile, gate>>

(* Mutant of Relay: the chunk is forwarded before it is looked at. *)
RelayForwardsFirst(c) ==
    /\ conn[c].at = "open" /\ conn[c].inbox # <<>>
    /\ LET p == Feed(conn[c].parser, conn[c].inbox)
       IN /\ conn' = [conn EXCEPT ![c] =
                [Forwarded(conn[c], conn[c].inbox) EXCEPT
                    !.inbox = <<>>, !.parser = ParserOf(p),
                    !.at = IF p.raised = "write attempt" THEN "closed" ELSE "open"]]
          /\ counts' = IF p.raised = "value error" THEN Inc(p.counters, "parser") ELSE p.counters
    /\ UNCHANGED <<stage, stateFile, gate>>

(* relay(), client to daemon: a chunk that completes the line of a write   *)
(* is dropped as a whole and the connection closed; one that cannot be     *)
(* parsed is counted and forwarded.                                        *)
Relay(c) ==
    /\ conn[c].at = "open" /\ conn[c].inbox # <<>>
    /\ LET p == Feed(conn[c].parser, conn[c].inbox)
           dropped == p.raised = "write attempt"
           after == IF dropped THEN conn[c] ELSE Forwarded(conn[c], conn[c].inbox)
       IN /\ conn' = [conn EXCEPT ![c] = [after EXCEPT !.inbox = <<>>, !.parser = ParserOf(p),
                                                       !.at = IF dropped THEN "closed" ELSE "open"]]
          /\ counts' = IF p.raised = "value error" THEN Inc(p.counters, "parser") ELSE p.counters
    /\ UNCHANGED <<stage, stateFile, gate>>

(* relay(), daemon to client, with ResponseParser *)
RelayResponse(c) ==
    /\ conn[c].at = "open" /\ conn[c].owed > 0
    /\ conn' = [conn EXCEPT ![c].owed = @ - 1]
    /\ counts' \in {Inc(counts, "response"), Inc(Inc(counts, "response"), "error"),
                      Inc(counts, "parser")}
    /\ UNCHANGED <<stage, stateFile, gate>>

(* The client goes away, or the connection breaks in the relay's hands. *)
Disconnect(c) ==
    /\ conn[c].at = "open"
    /\ conn' = [conn EXCEPT ![c].at = "closed"]
    /\ \/ conn[c].inbox = <<>> /\ UNCHANGED counts
       \/ counts' = Inc(counts, "forwarding")
    /\ UNCHANGED <<stage, stateFile, gate>>

-----------------------------------------------------------------------------
(* The end *)

(* The CLI has ended or was stopped, and the shell stops the relay. *)
StopRelay ==
    /\ stage = "cli"
    /\ stage' = "stopping"
    /\ UNCHANGED <<conn, counts, stateFile, gate>>

OpenOnes == {c \in Connections: conn[c].at = "open"}

(* run() after the stop, and write_state: handlers that do not end in time *)
(* are cancelled.                                                          *)
RelayExits ==
    /\ stage = "stopping"
    /\ LET final == IF OpenOnes = {} THEN counts ELSE Inc(counts, "forwarding")
       IN counts' = final /\ stateFile' = {final}
    /\ conn' = [c \in Connections |-> [conn[c] EXCEPT !.at = "closed"]]
    /\ stage' = "written"
    /\ UNCHANGED gate

(* The shell kills a relay that takes longer than it waits. *)
RelayKilled ==
    /\ stage = "stopping"
    /\ conn' = [c \in Connections |-> [conn[c] EXCEPT !.at = "closed"]]
    /\ stage' = "written"
    /\ UNCHANGED <<counts, stateFile, gate>>

(* Receipt.classification, without a policy *)
Classification(r) ==
    CASE r.write > 0 -> "DOCKER_API_WRITE_ATTEMPT_OBSERVED"
      [] r.write = 0 /\ r.forwarding + r.parser > 0 -> "OBSERVER_FORWARDING_FAILED"
      [] OTHER -> IF r.request = 0 THEN "NO_DOCKER_API_REQUEST_OBSERVED"
                  ELSE IF r.response < r.request THEN "DOCKER_API_RESPONSE_INCOMPLETE"
                  ELSE IF r.error > 0 THEN "DOCKER_API_ERROR_RESPONSE_OBSERVED"
                  ELSE "DOCKER_API_REQUESTS_OBSERVED"

ExitStatus(r) == IF r.write > 0 THEN 2 ELSE IF r.forwarding + r.parser > 0 THEN 1 ELSE 0

(* The gate of run_loadconfig_services_split; what it lets through is the  *)
(* classification of the configuration, "silent" here.                     *)
JudgeRelay ==
    /\ stage = "written"
    /\ stage' = "judged"
    /\ gate' = IF stateFile = {} THEN "DOCKER_API_OBSERVER_STATE_MISSING"
               ELSE LET r == CHOOSE x \in stateFile: TRUE
                    IN IF ExitStatus(r) \notin {0, 2} THEN "DOCKER_API_OBSERVER_FAILED"
                       ELSE IF /\ Classification(r) = "NO_DOCKER_API_REQUEST_OBSERVED"
                               /\ \A counter \in {"request", "response", "write", "forwarding", "parser"}:
                                     r[counter] = 0
                            THEN "silent" ELSE "UNEXPECTED_DOCKER_OR_PROVIDER_BOUNDARY"
    /\ UNCHANGED <<conn, counts, stateFile>>

RelayInit ==
    /\ stage = "start" /\ conn = [c \in Connections |-> Fresh] /\ counts = Zero
    /\ stateFile = {} /\ gate = "none"

RelayNext ==
    \/ StartRelay \/ StopRelay \/ RelayExits \/ RelayKilled \/ JudgeRelay
    \/ \E c \in Connections:
          Accept(c) \/ ClientSends(c) \/ Relay(c) \/ RelayResponse(c) \/ Disconnect(c)

-----------------------------------------------------------------------------
(* Properties *)

RelayTypeOK ==
    /\ stage \in {"start", "cli", "stopping", "written", "judged"}
    /\ counts \in [DOMAIN Zero -> 0..3] /\ stateFile \subseteq {counts}
    /\ \A c \in Connections: /\ conn[c].at \in {"new", "open", "closed"}
                             /\ conn[c].left \in 0..MaxPieces
                             /\ conn[c].served \subseteq {"read", "write"}

(* No request that changes anything is ever served by the daemon, however  *)
(* the client cuts its chunks and whatever the relay could not parse       *)
(* before it.                                                              *)
WritesAreHeld == \A c \in Connections: "write" \notin conn[c].served

(* The shell says that the CLI left Docker alone only if no request of it  *)
(* was served, those included that came while the relay was being stopped. *)
SilenceIsReal == gate = "silent" => \A c \in Connections: conn[c].served = {}

=============================================================================
