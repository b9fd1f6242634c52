------------------------ MODULE DiagnosticModesProofs ------------------------
(***************************************************************************)
(* Proofs about DiagnosticModes, the specification the run checks: for any *)
(* number of mishaps, any health timeout and stable wait of the direct     *)
(* probe, any number of connections to the relay and any number of pieces  *)
(* sent over them.                                                         *)
(*                                                                         *)
(* The direct probe: DirectPassIsSound and DirectFailureIsNamed, from      *)
(* DirectInv.  Its core is WaitIsSound (the stable wait that the probe     *)
(* measures began no earlier than the sound readings did) and              *)
(* DiagnosisFits (an envelope that is to be printed is one the validator   *)
(* admits).                                                                *)
(*                                                                         *)
(* The counting relay: WritesAreHeld and SilenceIsReal, from RelayInv.     *)
(* Its core is InStep: as long as the daemon has not closed a connection,  *)
(* its reading of the bytes and the relay's parser are at the same place   *)
(* of the same request, which is no write and is counted.  Chunks are cut  *)
(* anywhere, so that a step of the relay is a run over the pieces of a     *)
(* chunk; Climb carries what holds of a piece (StayTogether) over to it.   *)
(*                                                                         *)
(* The private probe: the modes implement PrivateNetnsProbe's Spec, so     *)
(* that its theorems hold of them.                                         *)
(***************************************************************************)
EXTENDS DiagnosticModes, PrivateNetnsProbeProofs, NaturalsInduction, WellFoundedInduction

-----------------------------------------------------------------------------
(* The direct probe: what its variables range over *)

DirectSteps == {"create", "correlate", "loop", "availability", "group", "compose", "judge",
                "diagnose", "validate", "loopback", "outside", "done"}
GroupNames == {"IDENTITY_CONFIG", "HOSTCONFIG_SECURITY_TMPFS", "PUBLICATION",
               "NETWORK_RUNTIME_MOUNTS", "STATE_HEALTH"}
Healths == {"starting", "healthy", "unhealthy"}

Answers == [identity: BOOLEAN, asked: BOOLEAN, bound: {"loopback", "all", "none"},
            state: {"none", "running", "exited", "unknown"}, health: Healths \cup {"unknown"},
            oom: BOOLEAN, restarts: {0, 1}]
DirectContainers == [state: {"none", "running", "exited"}, health: Healths, oom: BOOLEAN,
                     restarts: {0, 1}, asked: BOOLEAN, bound: {"loopback", "all"}, open: BOOLEAN]
Terminals ==
    {"none", "DIRECT_INSPECT_INVALID_UTF8", "DIRECT_INSPECT_JSON_REJECTED",
     "DIRECT_INSPECT_DUPLICATE_KEY_REJECTED", "DIRECT_INSPECT_TOPLEVEL_REJECTED",
     "DIRECT_INSPECT_COMPOSITION_FAILED", "DIRECT_INSPECT_OBJECT_UNAVAILABLE",
     "DIRECT_INSPECT_TEMPLATE_IDENTITY_FAILED", "DIRECT_INSPECT_TEMPLATE_HOSTCONFIG_FAILED",
     "DIRECT_INSPECT_TEMPLATE_PUBLICATION_FAILED", "DIRECT_INSPECT_TEMPLATE_NETWORK_FAILED",
     "DIRECT_INSPECT_TEMPLATE_STATE_HEALTH_FAILED"}
Envelopes == [terminal: Terminals, exit: {"ZERO", "NONZERO", "SIGNAL"},
              parse: DirectPort!ParseClasses, group: GroupNames \cup {"NONE"}, count: 0..5]

TimesTyped == /\ clock \in 0..Horizon /\ wake \in 0..(Horizon + 1) /\ mishaps \in 0..MaxMishaps
              /\ since \in SUBSET (0..Horizon) /\ soundSince \in SUBSET (0..Horizon)
AnswerTyped == answer \in Answers /\ envelope \in Envelopes /\ step \in DirectSteps
WorldTyped == container \in DirectContainers /\ addresses \in BOOLEAN

(* What the answers have said so far is true of the container: neither     *)
(* what was asked for nor the binding changes once it is created.          *)
AnswerIsTrue ==
    /\ step \in {"create", "correlate"} => answer = DirectPort!Nothing
    /\ answer.asked => container.asked
    /\ answer.bound = "loopback" => container.bound = "loopback"

(* What the envelope holds when it is used *)
DiagnosisFits ==
    /\ step = "availability" => envelope.exit # "ZERO" /\ envelope.count = 0
    /\ step = "group" => envelope.exit # "ZERO" /\ envelope.count < 5
    /\ step = "compose" => envelope.exit # "ZERO" /\ envelope.count = 5
    /\ step = "diagnose" => DirectPort!Admitted(envelope)

(* The wait for a stable database began no earlier than the sound readings *)
(* did, except while an answer that ends or restarts it is judged.         *)
Outlasts == \A t \in since: \E s \in soundSince: s <= t
AnswerSound == /\ answer.state = "running" /\ answer.health = "healthy"
               /\ ~answer.oom /\ answer.restarts = 0
SoundLongEnough == \E t \in soundSince: clock - t >= StableSeconds

WaitIsSound ==
    /\ \A s \in soundSince: s <= clock
    /\ step \in {"create", "correlate", "loop", "availability", "group"} => Outlasts
    /\ step \in {"compose", "judge"} /\ AnswerSound => soundSince # {} /\ Outlasts
    /\ step \in {"validate", "loopback", "outside"} => SoundLongEnough

(* What has been decided, and on which ground *)
OutcomeFits ==
    /\ outcome # "none" => step = "done"
    /\ step \in {"loopback", "outside"} => container.asked /\ container.bound = "loopback"
    /\ DirectPort!PassIsSound /\ DirectPort!FailureIsNamed

DirectInv == /\ TimesTyped /\ AnswerTyped /\ WorldTyped
             /\ AnswerIsTrue /\ DiagnosisFits /\ WaitIsSound /\ OutcomeFits

-----------------------------------------------------------------------------
(* The helpers of the direct probe *)

(* Nothing and the report are answers. *)
LEMMA AnswersAre ==
  ASSUME WorldTyped
  PROVE  /\ DirectPort!Nothing \in Answers /\ DirectPort!Reported \in Answers
         /\ DirectPort!NoEnvelope \in Envelopes
BY DEF WorldTyped, DirectContainers, Answers, Envelopes, Healths, Terminals, DirectPort!Nothing,
   DirectPort!Reported, DirectPort!NoEnvelope, DirectPort!ParseClasses

(* A group's answer replaces its fields and no others. *)
LEMMA GroupAnswers ==
  ASSUME NEW old \in Answers, NEW new \in Answers, NEW fields
  PROVE  LET mixed == [f \in DOMAIN old |-> IF f \in fields THEN new[f] ELSE old[f]] IN
           /\ mixed \in Answers
           /\ mixed.asked \in {old.asked, new.asked} /\ mixed.bound \in {old.bound, new.bound}
           /\ {"state", "health", "oom", "restarts"} \subseteq fields =>
                 /\ mixed.state = new.state /\ mixed.health = new.health
                 /\ mixed.oom = new.oom /\ mixed.restarts = new.restarts
<1> DEFINE mixed == [f \in DOMAIN old |-> IF f \in fields THEN new[f] ELSE old[f]]
<1>1. DOMAIN old = {"identity", "asked", "bound", "state", "health", "oom", "restarts"}
  BY DEF Answers
<1>2. /\ mixed.identity \in BOOLEAN /\ mixed.asked \in {old.asked, new.asked}
      /\ mixed.bound \in {old.bound, new.bound} /\ mixed.state \in {old.state, new.state}
      /\ mixed.health \in {old.health, new.health} /\ mixed.oom \in {old.oom, new.oom}
      /\ mixed.restarts \in {old.restarts, new.restarts}
  BY <1>1 DEF Answers
<1>3. mixed = [identity |-> mixed.identity, asked |-> mixed.asked, bound |-> mixed.bound,
               state |-> mixed.state, health |-> mixed.health, oom |-> mixed.oom,
               restarts |-> mixed.restarts]
  BY <1>1
<1>4. mixed \in Answers
  BY <1>2, <1>3 DEF Answers
<1>5. {"state", "health", "oom", "restarts"} \subseteq fields =>
         /\ mixed.state = new.state /\ mixed.health = new.health
         /\ mixed.oom = new.oom /\ mixed.restarts = new.restarts
  BY <1>1
<1> QED
  BY <1>2, <1>4, <1>5

(* A mishap is charged within its bound. *)
LEMMA Suffered ==
  ASSUME TimesTyped, NEW ok \in BOOLEAN, DirectPort!Suffer(ok)
  PROVE  mishaps' \in 0..MaxMishaps
BY ModesAssumption DEF TimesTyped, DirectPort!Suffer

(* A reading adds no other time than now. *)
LEMMA ReadingTyped ==
  ASSUME TimesTyped, DirectPort!Reads
  PROVE  soundSince' \in SUBSET (0..Horizon)
BY DEF TimesTyped, DirectPort!Reads

(* The template's five groups and the terminals they fail with *)
LEMMA GroupsAre ==
  ASSUME NEW i \in 1..5
  PROVE  /\ DirectPort!Groups[i] \in GroupNames /\ DirectPort!GroupTerminals[i] \in Terminals
         /\ DirectPort!Groups[i] = "STATE_HEALTH" <=> i = 5
BY DEF DirectPort!Groups, DirectPort!GroupTerminals, GroupNames, Terminals

-----------------------------------------------------------------------------
(* The direct probe: its steps keep the types *)

(* The invariant holds at the start. *)
LEMMA DirectInitially ==
  ASSUME DirectPort!DirectInit
  PROVE  DirectInv
<1>1. TimesTyped
  BY ModesAssumption DEF DirectPort!DirectInit, TimesTyped
<1>2. AnswerTyped /\ WorldTyped
  BY DEF DirectPort!DirectInit, AnswerTyped, WorldTyped, DirectSteps, DirectContainers, Healths,
     Answers, Envelopes, Terminals, DirectPort!Nothing, DirectPort!NoEnvelope, DirectPort!ParseClasses
<1>3. AnswerIsTrue /\ DiagnosisFits /\ WaitIsSound /\ OutcomeFits
  BY DEF DirectPort!DirectInit, AnswerIsTrue, DiagnosisFits, WaitIsSound, OutcomeFits, Outlasts,
     DirectPort!PassIsSound, DirectPort!FailureIsNamed, DirectPort!Nothing
<1> QED
  BY <1>1, <1>2, <1>3 DEF DirectInv

(* The shell's two steps, and the probe's between inspection and verdict,  *)
(* that change neither an answer nor a time *)
LEMMA TypedShellSteps ==
  ASSUME TimesTyped, AnswerTyped, WorldTyped,
         \/ DirectPort!CreateContainer \/ DirectPort!CorrelateContainer
         \/ DirectPort!PrintDiagnostic \/ DirectPort!GiveUp \/ DirectPort!ValidateInspection
         \/ DirectPort!ConnectLoopback \/ DirectPort!ConnectOutside
  PROVE  TimesTyped' /\ AnswerTyped' /\ WorldTyped'
<1> USE DEF DirectPort!Blocks, DirectPort!Proceeds, DirectPort!world
<1>1. UNCHANGED <<clock, wake, since, answer, envelope, addresses, soundSince>>
  BY DEF DirectPort!CreateContainer, DirectPort!CorrelateContainer, DirectPort!PrintDiagnostic,
     DirectPort!GiveUp, DirectPort!ValidateInspection, DirectPort!ConnectLoopback,
     DirectPort!ConnectOutside
<1>2. mishaps' \in 0..MaxMishaps
  <2>1. UNCHANGED mishaps \/ \E ok \in BOOLEAN: DirectPort!Suffer(ok)
    BY DEF DirectPort!CreateContainer, DirectPort!CorrelateContainer, DirectPort!PrintDiagnostic,
       DirectPort!GiveUp, DirectPort!ValidateInspection, DirectPort!ConnectLoopback,
       DirectPort!ConnectOutside
  <2> QED
    BY <2>1, Suffered DEF TimesTyped
<1>3. step' \in DirectSteps
  BY DEF DirectPort!CreateContainer, DirectPort!CorrelateContainer, DirectPort!PrintDiagnostic,
     DirectPort!GiveUp, DirectPort!ValidateInspection, DirectPort!ConnectLoopback,
     DirectPort!ConnectOutside, DirectSteps
<1>4. container' \in DirectContainers
  BY DEF DirectPort!CreateContainer, DirectPort!CorrelateContainer, DirectPort!PrintDiagnostic,
     DirectPort!GiveUp, DirectPort!ValidateInspection, DirectPort!ConnectLoopback,
     DirectPort!ConnectOutside, WorldTyped, DirectContainers, Healths
<1> QED
  BY <1>1, <1>2, <1>3, <1>4 DEF TimesTyped, AnswerTyped, WorldTyped

(* The container's own steps, and time's *)
LEMMA WorldMoves ==
  ASSUME TimesTyped, AnswerTyped, WorldTyped,
         \/ DirectPort!HealthChanges \/ DirectPort!ContainerExits \/ DirectPort!ContainerRestarts
         \/ DirectPort!Tick
  PROVE  /\ TimesTyped' /\ AnswerTyped' /\ WorldTyped'
         /\ UNCHANGED <<step, wake, since, answer, envelope, addresses, soundSince, outcome>>
         /\ step # "done" /\ clock' \in {clock, clock + 1}
         /\ container'.asked = container.asked /\ container'.bound = container.bound
<1> USE DEF DirectPort!probe, DirectPort!world
<1>1. /\ UNCHANGED <<step, wake, since, answer, envelope, addresses, soundSince, outcome, mishaps>>
      /\ step # "done" /\ (clock' = clock \/ (clock' = clock + 1 /\ clock < Horizon))
  BY DEF DirectPort!HealthChanges, DirectPort!ContainerExits, DirectPort!ContainerRestarts,
     DirectPort!Tick
<1>2. \/ UNCHANGED container
      \/ \E h \in {"healthy", "unhealthy"}: container' = [container EXCEPT !.health = h]
      \/ \E oom \in BOOLEAN: container' = [container EXCEPT !.state = "exited", !.oom = oom]
      \/ container' = [container EXCEPT !.state = "running", !.health = "starting", !.oom = FALSE,
                                        !.restarts = 1]
  BY DEF DirectPort!HealthChanges, DirectPort!ContainerExits, DirectPort!ContainerRestarts,
     DirectPort!Tick
<1>3. /\ container' \in DirectContainers
      /\ container'.asked = container.asked /\ container'.bound = container.bound
  BY <1>2 DEF WorldTyped, DirectContainers, Healths
<1> QED
  BY <1>1, <1>3, ModesAssumption DEF TimesTyped, AnswerTyped, WorldTyped

(* What a whole inspection comes to *)
LEMMA InspectAllDoes ==
  ASSUME TimesTyped, AnswerTyped, WorldTyped, DirectPort!InspectAll
  PROVE  /\ TimesTyped' /\ AnswerTyped' /\ WorldTyped'
         /\ step = "loop" /\ UNCHANGED <<clock, since, container, addresses, outcome>>
         /\ \/ step' = "judge" /\ answer' = DirectPort!Reported /\ DirectPort!Reads
            \/ step' = "diagnose" /\ DirectPort!Admitted(envelope)' /\ UNCHANGED <<answer, soundSince>>
            \/ /\ step' = "availability" /\ envelope'.exit # "ZERO" /\ envelope'.count = 0
               /\ UNCHANGED <<answer, soundSince>>
<1> USE DEF DirectPort!world
<1>1. /\ step = "loop" /\ wake' = 0
      /\ UNCHANGED <<clock, since, container, addresses, outcome>>
  BY DEF DirectPort!InspectAll
<1>2. mishaps' \in 0..MaxMishaps
  BY Suffered DEF DirectPort!InspectAll
<1>3. CASE step' = "judge" /\ answer' = DirectPort!Reported /\ envelope' = DirectPort!NoEnvelope
           /\ DirectPort!Reads
  <2>1. soundSince' \in SUBSET (0..Horizon)
    BY <1>3, ReadingTyped
  <2> QED
    BY <1>1, <1>2, <1>3, <2>1, AnswersAre, ModesAssumption DEF TimesTyped, AnswerTyped, WorldTyped, DirectSteps
<1>4. ASSUME NEW class \in DOMAIN DirectPort!ParseTerminal,
             envelope' = [DirectPort!NoEnvelope EXCEPT !.terminal = DirectPort!ParseTerminal[class],
                                                       !.parse = class],
             step' = "diagnose", UNCHANGED <<answer, soundSince>>
      PROVE  /\ TimesTyped' /\ AnswerTyped' /\ WorldTyped' /\ DirectPort!Admitted(envelope)'
  <2>1. /\ DirectPort!ParseTerminal[class] \in Terminals /\ class \in DirectPort!ParseClasses
    BY DEF DirectPort!ParseTerminal, DirectPort!ParseClasses, Terminals
  <2>2. /\ envelope' \in Envelopes
        /\ envelope'.terminal = DirectPort!ParseTerminal[class] /\ envelope'.parse = class
        /\ envelope'.exit = "ZERO" /\ envelope'.group = "NONE" /\ envelope'.count = 0
    BY <1>4, <2>1, AnswersAre DEF Envelopes, DirectPort!NoEnvelope
  <2>3. DirectPort!Admitted(envelope)'
    BY <2>2 DEF DirectPort!Admitted, DirectPort!ParseTerminal
  <2> QED
    BY <1>1, <1>2, <1>4, <2>2, <2>3, ModesAssumption DEF TimesTyped, AnswerTyped, WorldTyped, DirectSteps
<1>5. ASSUME NEW class \in DirectPort!ParseClasses, NEW exit \in {"NONZERO", "SIGNAL"},
             envelope' = [DirectPort!NoEnvelope EXCEPT !.exit = exit, !.parse = class],
             step' = "availability", UNCHANGED <<answer, soundSince>>
      PROVE  /\ TimesTyped' /\ AnswerTyped' /\ WorldTyped'
             /\ envelope'.exit # "ZERO" /\ envelope'.count = 0
  <2>1. envelope' \in Envelopes /\ envelope'.exit # "ZERO" /\ envelope'.count = 0
    BY <1>5, AnswersAre DEF Envelopes, DirectPort!NoEnvelope
  <2> QED
    BY <1>1, <1>2, <1>5, <2>1, ModesAssumption DEF TimesTyped, AnswerTyped, WorldTyped, DirectSteps
<1> QED
  BY <1>1, <1>3, <1>4, <1>5 DEF DirectPort!InspectAll

(* What the look whether the container is still there comes to *)
LEMMA AvailabilityDoes ==
  ASSUME TimesTyped, AnswerTyped, WorldTyped, DiagnosisFits, DirectPort!InspectAvailability
  PROVE  /\ TimesTyped' /\ AnswerTyped' /\ WorldTyped' /\ DiagnosisFits'
         /\ step = "availability" /\ answer' = DirectPort!Nothing /\ step' \in {"group", "diagnose"}
         /\ UNCHANGED <<clock, since, container, addresses, soundSince, outcome>>
<1> USE DEF DirectPort!world
<1>1. /\ step = "availability" /\ answer' = DirectPort!Nothing
      /\ UNCHANGED <<clock, wake, since, container, addresses, soundSince, outcome>>
  BY DEF DirectPort!InspectAvailability
<1>2. mishaps' \in 0..MaxMishaps
  <2>1. \E found \in {"this", "another", "none"}: DirectPort!Suffer(found = "this")
    BY DEF DirectPort!InspectAvailability
  <2> QED
    BY <2>1, Suffered
<1>3. \/ step' = "group" /\ UNCHANGED envelope
      \/ DirectPort!Diagnoses("DIRECT_INSPECT_COMPOSITION_FAILED", "IDENTITY_CONFIG", 0)
      \/ DirectPort!Diagnoses("DIRECT_INSPECT_OBJECT_UNAVAILABLE", "IDENTITY_CONFIG", 0)
  BY DEF DirectPort!InspectAvailability
<1>4. /\ step' \in {"group", "diagnose"} /\ envelope' \in Envelopes
      /\ envelope'.exit = envelope.exit /\ envelope'.count = 0
      /\ step' = "diagnose" => /\ envelope'.group = "IDENTITY_CONFIG"
                               /\ envelope'.terminal \in {"DIRECT_INSPECT_COMPOSITION_FAILED",
                                                          "DIRECT_INSPECT_OBJECT_UNAVAILABLE"}
  BY <1>1, <1>3 DEF AnswerTyped, DiagnosisFits, DirectPort!Diagnoses, Envelopes, GroupNames, Terminals
<1>5. DiagnosisFits'
  BY <1>1, <1>4 DEF DiagnosisFits, DirectPort!Admitted
<1> QED
  BY <1>1, <1>2, <1>4, <1>5, AnswersAre DEF TimesTyped, AnswerTyped, WorldTyped, DirectSteps

(* What one group of the fallback comes to: a mishap ends it with the      *)
(* group's own diagnostic, and the last group is a reading.                *)
LEMMA GroupDoes ==
  ASSUME TimesTyped, AnswerTyped, WorldTyped, DiagnosisFits, DirectPort!InspectGroup
  PROVE  /\ TimesTyped' /\ AnswerTyped' /\ WorldTyped' /\ DiagnosisFits'
         /\ step = "group" /\ UNCHANGED <<clock, since, container, addresses, outcome>>
         /\ answer'.asked \in {answer.asked, DirectPort!Reported.asked}
         /\ answer'.bound \in {answer.bound, DirectPort!Reported.bound}
         /\ \/ step' \in {"group", "diagnose"} /\ UNCHANGED soundSince
            \/ /\ step' = "compose" /\ DirectPort!Reads
               /\ AnswerSound' <=> DirectPort!Sound
<1> USE DEF DirectPort!world
<1> DEFINE index == envelope.count + 1
           group == DirectPort!Groups[index]
<1>1. step = "group" /\ UNCHANGED <<clock, wake, since, container, addresses, outcome>>
  BY DEF DirectPort!InspectGroup
<1>2. PICK ok \in BOOLEAN:
        /\ DirectPort!Suffer(ok)
        /\ answer' = IF ok THEN [f \in DOMAIN answer |->
                                   IF f \in DirectPort!FieldsOf(group) THEN DirectPort!Reported[f]
                                   ELSE answer[f]]
                     ELSE answer
        /\ IF ok /\ group = "STATE_HEALTH" THEN DirectPort!Reads ELSE UNCHANGED soundSince
        /\ IF ok
           THEN /\ envelope' = [envelope EXCEPT !.count = index]
                /\ step' = IF index = 5 THEN "compose" ELSE "group"
           ELSE DirectPort!Diagnoses(DirectPort!GroupTerminals[index], group, envelope.count)
  BY DEF DirectPort!InspectGroup
<1>3. index \in 1..5 /\ envelope.count = index - 1 /\ envelope.exit # "ZERO"
  BY <1>1 DEF AnswerTyped, Envelopes, DiagnosisFits
<1>4. /\ group \in GroupNames /\ DirectPort!GroupTerminals[index] \in Terminals
      /\ group = "STATE_HEALTH" <=> index = 5
  BY <1>3, GroupsAre
<1>5. mishaps' \in 0..MaxMishaps
  BY <1>2, Suffered
<1>6. soundSince' \in SUBSET (0..Horizon)
  BY <1>2, ReadingTyped DEF TimesTyped
<1>7. CASE ok
  <2> DEFINE mixed == [f \in DOMAIN answer |-> IF f \in DirectPort!FieldsOf(group)
                                               THEN DirectPort!Reported[f] ELSE answer[f]]
  <2>1. answer \in Answers /\ DirectPort!Reported \in Answers
    BY AnswersAre DEF AnswerTyped
  <2>2. /\ answer' = mixed /\ mixed \in Answers
        /\ mixed.asked \in {answer.asked, DirectPort!Reported.asked}
        /\ mixed.bound \in {answer.bound, DirectPort!Reported.bound}
        /\ {"state", "health", "oom", "restarts"} \subseteq DirectPort!FieldsOf(group) =>
              /\ mixed.state = DirectPort!Reported.state /\ mixed.health = DirectPort!Reported.health
              /\ mixed.oom = DirectPort!Reported.oom /\ mixed.restarts = DirectPort!Reported.restarts
    BY <1>2, <1>7, <2>1, GroupAnswers
  <2> HIDE DEF mixed
  <2>3. /\ envelope' = [envelope EXCEPT !.count = index] /\ envelope \in Envelopes
        /\ step' = IF index = 5 THEN "compose" ELSE "group"
    BY <1>2, <1>7 DEF AnswerTyped
  <2>4. envelope' \in Envelopes /\ envelope'.exit = envelope.exit /\ envelope'.count = index
    BY <1>3, <2>3 DEF Envelopes
  <2>5. step' \in {"compose", "group"} /\ (step' = "compose" <=> index = 5)
    BY <2>3
  <2>6. DiagnosisFits'
    BY <1>3, <2>4, <2>5 DEF DiagnosisFits
  <2>7. index = 5 => DirectPort!Reads /\ (AnswerSound' <=> DirectPort!Sound)
    <3>1. ASSUME index = 5
          PROVE  {"state", "health", "oom", "restarts"} \subseteq DirectPort!FieldsOf(group)
      BY <1>4, <3>1 DEF DirectPort!FieldsOf, DirectPort!StateFields
    <3> QED
      BY <1>2, <1>4, <1>7, <2>2, <3>1 DEF AnswerSound, DirectPort!Sound, DirectPort!Reported
  <2>8. index # 5 => UNCHANGED soundSince
    BY <1>2, <1>4
  <2>9. TimesTyped' /\ AnswerTyped' /\ WorldTyped'
    BY <1>1, <1>5, <1>6, <2>2, <2>4, <2>5 DEF TimesTyped, AnswerTyped, WorldTyped, DirectSteps
  <2> QED
    BY <1>1, <2>2, <2>5, <2>6, <2>7, <2>8, <2>9
<1>8. CASE ~ok
  <2>1. /\ envelope' = [envelope EXCEPT !.terminal = DirectPort!GroupTerminals[index],
                                        !.group = group, !.count = envelope.count]
        /\ step' = "diagnose" /\ UNCHANGED <<answer, soundSince>> /\ envelope \in Envelopes
    BY <1>2, <1>8 DEF DirectPort!Diagnoses, AnswerTyped
  <2>2. /\ envelope' \in Envelopes /\ envelope'.terminal = DirectPort!GroupTerminals[index]
        /\ envelope'.group = group /\ envelope'.exit # "ZERO" /\ envelope'.count = index - 1
    BY <1>3, <1>4, <2>1 DEF Envelopes
  <2>3. DiagnosisFits'
    BY <1>3, <2>1, <2>2 DEF DiagnosisFits, DirectPort!Admitted
  <2> QED
    BY <1>1, <1>5, <2>1, <2>2, <2>3 DEF TimesTyped, AnswerTyped, WorldTyped, DirectSteps
<1> QED
  BY <1>7, <1>8

(* The groups put together are judged, or do not fit. *)
LEMMA ComposeDoes ==
  ASSUME TimesTyped, AnswerTyped, WorldTyped, DiagnosisFits, DirectPort!ComposeGroups
  PROVE  /\ TimesTyped' /\ AnswerTyped' /\ WorldTyped' /\ DiagnosisFits'
         /\ step = "compose" /\ step' \in {"judge", "diagnose"}
         /\ UNCHANGED <<clock, since, answer, container, addresses, soundSince, outcome>>
<1> USE DEF DirectPort!world
<1>1. /\ step = "compose"
      /\ UNCHANGED <<clock, wake, since, answer, container, addresses, soundSince, outcome>>
  BY DEF DirectPort!ComposeGroups
<1>2. mishaps' \in 0..MaxMishaps
  BY Suffered DEF DirectPort!ComposeGroups
<1>3. \/ step' = "judge" /\ UNCHANGED envelope
      \/ DirectPort!Diagnoses("DIRECT_INSPECT_COMPOSITION_FAILED", "IDENTITY_CONFIG", envelope.count)
  BY DEF DirectPort!ComposeGroups
<1>4. /\ step' \in {"judge", "diagnose"} /\ envelope' \in Envelopes
      /\ step' = "diagnose" => /\ envelope'.exit # "ZERO" /\ envelope'.count = 5
                               /\ envelope'.group = "IDENTITY_CONFIG"
                               /\ envelope'.terminal = "DIRECT_INSPECT_COMPOSITION_FAILED"
  BY <1>1, <1>3 DEF AnswerTyped, DiagnosisFits, DirectPort!Diagnoses, Envelopes, GroupNames, Terminals
<1>5. DirectPort!Groups[1] = "IDENTITY_CONFIG"
  BY DEF DirectPort!Groups
<1>6. DiagnosisFits'
  BY <1>4, <1>5 DEF DiagnosisFits, DirectPort!Admitted
<1> QED
  BY <1>1, <1>2, <1>4, <1>6 DEF TimesTyped, AnswerTyped, WorldTyped, DirectSteps

(* The judgement of a sample ends the probe with a name, or starts, goes   *)
(* on with or gives up the wait for a stable database.                     *)
LEMMA JudgeDoes ==
  ASSUME TimesTyped, AnswerTyped, WorldTyped, DirectPort!JudgeSample
  PROVE  /\ TimesTyped' /\ AnswerTyped' /\ WorldTyped'
         /\ step = "judge" /\ UNCHANGED <<clock, container, addresses, soundSince>>
         /\ answer' \in {answer, DirectPort!Nothing}
         /\ \/ step' = "done" /\ outcome' \notin {"PASS", "DIRECT_PROBE_FAILED"}
            \/ /\ step' = IF \E t \in since': clock - t >= StableSeconds THEN "validate" ELSE "loop"
               /\ ~answer.oom /\ answer.restarts = 0 /\ answer.state = "running"
               /\ since' = IF answer.health # "healthy" THEN {}
                           ELSE IF since = {} THEN {clock} ELSE since
               /\ UNCHANGED outcome
<1> USE DEF DirectPort!world
<1>1. /\ step = "judge" /\ UNCHANGED <<clock, container, addresses, soundSince, mishaps>>
      /\ envelope' = DirectPort!NoEnvelope /\ answer' \in {answer, DirectPort!Nothing}
  BY DEF DirectPort!JudgeSample
<1>2. \/ /\ step' = "done" /\ outcome' \notin {"PASS", "DIRECT_PROBE_FAILED"}
         /\ UNCHANGED <<since, wake>>
      \/ /\ step' = IF \E t \in since': clock - t >= StableSeconds THEN "validate" ELSE "loop"
         /\ ~answer.oom /\ answer.restarts = 0 /\ answer.state = "running"
         /\ since' = IF answer.health # "healthy" THEN {} ELSE IF since = {} THEN {clock} ELSE since
         /\ wake' = clock + 1 /\ UNCHANGED outcome
  <2> DEFINE Ended == \E name \in {"DIRECT_CONTAINER_OOM_KILLED", "DIRECT_RESTART_COUNT_NONZERO",
                                   "DIRECT_CONTAINER_NOT_RUNNING"}: DirectPort!Blocks(name)
             Going == /\ since' = IF answer.health # "healthy" THEN {}
                                  ELSE IF since = {} THEN {clock} ELSE since
                      /\ wake' = clock + 1
                      /\ DirectPort!Proceeds(IF \E t \in since': clock - t >= StableSeconds
                                             THEN "validate" ELSE "loop")
  <2>1. CASE answer.oom \/ answer.restarts # 0 \/ answer.state # "running"
    <3>1. Ended /\ UNCHANGED <<since, wake>>
      BY <2>1 DEF DirectPort!JudgeSample
    <3> QED
      BY <3>1 DEF DirectPort!Blocks
  <2>2. CASE ~answer.oom /\ answer.restarts = 0 /\ answer.state = "running"
    <3>1. Going
      BY <2>2 DEF DirectPort!JudgeSample
    <3> QED
      BY <2>2, <3>1 DEF DirectPort!Proceeds
  <2> QED
    BY <2>1, <2>2
<1>3. since' \in SUBSET (0..Horizon) /\ wake' \in 0..(Horizon + 1)
  <2>1. since' \in {since, {}, {clock}} /\ wake' \in {wake, clock + 1}
    BY <1>2
  <2> QED
    BY <2>1, ModesAssumption DEF TimesTyped
<1>4. step' \in DirectSteps
  BY <1>2 DEF DirectSteps
<1>5. TimesTyped' /\ AnswerTyped' /\ WorldTyped'
  BY <1>1, <1>3, <1>4, AnswersAre DEF TimesTyped, AnswerTyped, WorldTyped
<1> QED
  BY <1>1, <1>2, <1>5

-----------------------------------------------------------------------------
(* The direct probe: its invariant *)

(* The answers stay true: only a report adds to them, and the container    *)
(* keeps what was asked for and its binding.                               *)
LEMMA AnswerStaysTrue ==
  ASSUME DirectInv, DirectPort!DirectNext
  PROVE  AnswerIsTrue'
<1> USE DEF DirectInv
<1> DEFINE Contract(a) == /\ a.asked => container.asked
                          /\ a.bound = "loopback" => container.bound = "loopback"
<1>1. Contract(answer) /\ Contract(DirectPort!Nothing) /\ Contract(DirectPort!Reported)
  BY DEF AnswerIsTrue, DirectPort!Nothing, DirectPort!Reported
<1>2. ASSUME UNCHANGED container, step' \notin {"create", "correlate"},
             answer'.asked \in {answer.asked, DirectPort!Nothing.asked, DirectPort!Reported.asked},
             answer'.bound \in {answer.bound, DirectPort!Nothing.bound, DirectPort!Reported.bound}
      PROVE  AnswerIsTrue'
  BY <1>1, <1>2 DEF AnswerIsTrue
<1>3. CASE DirectPort!CreateContainer
  BY <1>3 DEF DirectPort!CreateContainer, DirectPort!Blocks, DirectPort!Proceeds, AnswerIsTrue,
     DirectPort!Nothing
<1>4. CASE \/ DirectPort!CorrelateContainer \/ DirectPort!PrintDiagnostic \/ DirectPort!GiveUp
           \/ DirectPort!ValidateInspection \/ DirectPort!ConnectLoopback \/ DirectPort!ConnectOutside
  <2>1. UNCHANGED <<container, answer>> /\ step' \notin {"create", "correlate"}
    BY <1>4 DEF DirectPort!CorrelateContainer, DirectPort!PrintDiagnostic, DirectPort!GiveUp,
       DirectPort!ValidateInspection, DirectPort!ConnectLoopback, DirectPort!ConnectOutside,
       DirectPort!Blocks, DirectPort!Proceeds, DirectPort!world
  <2> QED
    BY <1>2, <2>1
<1>5. CASE \/ DirectPort!HealthChanges \/ DirectPort!ContainerExits
           \/ DirectPort!ContainerRestarts \/ DirectPort!Tick
  <2>1. /\ UNCHANGED <<step, answer>>
        /\ container'.asked = container.asked /\ container'.bound = container.bound
    BY <1>5, WorldMoves
  <2> QED
    BY <2>1 DEF AnswerIsTrue, DirectPort!Nothing
<1>6. CASE DirectPort!InspectAll
  BY <1>2, <1>6, InspectAllDoes
<1>7. CASE DirectPort!InspectAvailability
  BY <1>2, <1>7, AvailabilityDoes
<1>8. CASE DirectPort!InspectGroup
  BY <1>2, <1>8, GroupDoes
<1>9. CASE DirectPort!ComposeGroups
  BY <1>2, <1>9, ComposeDoes
<1>10. CASE DirectPort!JudgeSample
  BY <1>2, <1>10, JudgeDoes
<1> QED
  BY <1>3, <1>4, <1>5, <1>6, <1>7, <1>8, <1>9, <1>10 DEF DirectPort!DirectNext

(* Every diagnostic the probe gets to print is one its validator admits.   *)
LEMMA DiagnosisStaysFit ==
  ASSUME DirectInv, DirectPort!DirectNext
  PROVE  DiagnosisFits'
<1> USE DEF DirectInv
<1>1. ASSUME step' \notin {"availability", "group", "compose", "diagnose"}
      PROVE  DiagnosisFits'
  BY <1>1 DEF DiagnosisFits
<1>2. CASE \/ DirectPort!CreateContainer \/ DirectPort!CorrelateContainer
           \/ DirectPort!PrintDiagnostic \/ DirectPort!GiveUp
           \/ DirectPort!ValidateInspection \/ DirectPort!ConnectLoopback \/ DirectPort!ConnectOutside
  BY <1>1, <1>2 DEF DirectPort!CreateContainer, DirectPort!CorrelateContainer,
     DirectPort!PrintDiagnostic, DirectPort!GiveUp, DirectPort!ValidateInspection,
     DirectPort!ConnectLoopback, DirectPort!ConnectOutside, DirectPort!Blocks, DirectPort!Proceeds
<1>3. CASE \/ DirectPort!HealthChanges \/ DirectPort!ContainerExits
           \/ DirectPort!ContainerRestarts \/ DirectPort!Tick
  <2>1. UNCHANGED <<step, envelope>>
    BY <1>3, WorldMoves
  <2> QED
    BY <2>1 DEF DiagnosisFits, DirectPort!Admitted
<1>4. CASE DirectPort!InspectAll
  <2>1. \/ step' = "judge"
        \/ step' = "diagnose" /\ DirectPort!Admitted(envelope)'
        \/ step' = "availability" /\ envelope'.exit # "ZERO" /\ envelope'.count = 0
    BY <1>4, InspectAllDoes
  <2> QED
    BY <2>1 DEF DiagnosisFits
<1>5. CASE DirectPort!JudgeSample
  <2>1. step' \in {"done", "validate", "loop"}
    BY <1>5, JudgeDoes
  <2> QED
    BY <1>1, <2>1
<1> QED
  BY <1>2, <1>3, <1>4, <1>5, AvailabilityDoes, GroupDoes, ComposeDoes DEF DirectPort!DirectNext

(* A reading either is sound, and then the sound readings go back as far   *)
(* as the wait does, or leaves none.                                       *)
LEMMA ReadingOutlasts ==
  ASSUME TimesTyped, WaitIsSound, Outlasts, DirectPort!Reads, UNCHANGED since
  PROVE  /\ \A s \in soundSince': s <= clock
         /\ DirectPort!Sound => soundSince' # {} /\ Outlasts'
<1>1. CASE ~DirectPort!Sound
  BY <1>1 DEF DirectPort!Reads
<1>2. CASE DirectPort!Sound /\ soundSince = {}
  <2>1. soundSince' = {clock} /\ clock \in Nat
    BY <1>2 DEF TimesTyped, DirectPort!Reads
  <2>2. since' = {}
    BY <1>2 DEF Outlasts
  <2> QED
    BY <2>1, <2>2 DEF Outlasts
<1>3. CASE DirectPort!Sound /\ soundSince # {}
  <2>1. soundSince' = soundSince
    BY <1>3 DEF DirectPort!Reads
  <2> QED
    BY <1>3, <2>1 DEF Outlasts, WaitIsSound
<1> QED
  BY <1>1, <1>2, <1>3

(* The wait the probe measures stays within the time the container was     *)
(* seen sound, whatever it did between two samples.                        *)
LEMMA WaitStaysSound ==
  ASSUME DirectInv, DirectPort!DirectNext
  PROVE  WaitIsSound'
<1> USE DEF DirectInv
<1>1. CASE \/ DirectPort!CreateContainer \/ DirectPort!CorrelateContainer
           \/ DirectPort!PrintDiagnostic \/ DirectPort!GiveUp
           \/ DirectPort!ValidateInspection \/ DirectPort!ConnectLoopback \/ DirectPort!ConnectOutside
  <2>1. UNCHANGED <<clock, since, soundSince>>
    BY <1>1 DEF DirectPort!CreateContainer, DirectPort!CorrelateContainer,
       DirectPort!PrintDiagnostic, DirectPort!GiveUp, DirectPort!ValidateInspection,
       DirectPort!ConnectLoopback, DirectPort!ConnectOutside
  <2>2. \/ step' = "done"
        \/ step \in {"create", "correlate"} /\ step' \in {"correlate", "loop"}
        \/ step \in {"validate", "loopback"} /\ step' \in {"loopback", "outside"}
    BY <1>1 DEF DirectPort!CreateContainer, DirectPort!CorrelateContainer,
       DirectPort!PrintDiagnostic, DirectPort!GiveUp, DirectPort!ValidateInspection,
       DirectPort!ConnectLoopback, DirectPort!ConnectOutside, DirectPort!Blocks, DirectPort!Proceeds
  <2> QED
    BY <2>1, <2>2 DEF WaitIsSound, Outlasts, SoundLongEnough
<1>2. CASE \/ DirectPort!HealthChanges \/ DirectPort!ContainerExits
           \/ DirectPort!ContainerRestarts \/ DirectPort!Tick
  <2>1. UNCHANGED <<step, since, answer, soundSince>> /\ clock' \in {clock, clock + 1}
    BY <1>2, WorldMoves
  <2>2. \A s \in soundSince': s <= clock'
    BY <2>1, ModesAssumption DEF WaitIsSound, TimesTyped
  <2>3. SoundLongEnough => SoundLongEnough'
    BY <2>1, ModesAssumption DEF SoundLongEnough, TimesTyped
  <2> QED
    BY <2>1, <2>2, <2>3 DEF WaitIsSound, Outlasts, AnswerSound
<1>3. CASE DirectPort!InspectAll
  <2>1. step = "loop" /\ UNCHANGED <<clock, since>> /\ Outlasts
    BY <1>3, InspectAllDoes DEF WaitIsSound
  <2>2. CASE step' \in {"diagnose", "availability"} /\ UNCHANGED soundSince
    BY <2>1, <2>2 DEF WaitIsSound, Outlasts
  <2>3. CASE step' = "judge" /\ answer' = DirectPort!Reported /\ DirectPort!Reads
    <3>1. AnswerSound' => DirectPort!Sound
      BY <2>3 DEF AnswerSound, DirectPort!Sound, DirectPort!Reported
    <3> QED
      BY <2>1, <2>3, <3>1, ReadingOutlasts DEF WaitIsSound
  <2> QED
    BY <1>3, <2>2, <2>3, InspectAllDoes
<1>4. CASE DirectPort!InspectAvailability
  <2>1. /\ step = "availability" /\ step' \in {"group", "diagnose"}
        /\ UNCHANGED <<clock, since, soundSince>>
    BY <1>4, AvailabilityDoes
  <2> QED
    BY <2>1 DEF WaitIsSound, Outlasts
<1>5. CASE DirectPort!InspectGroup
  <2>1. step = "group" /\ UNCHANGED <<clock, since>> /\ Outlasts
    BY <1>5, GroupDoes DEF WaitIsSound
  <2>2. CASE step' \in {"group", "diagnose"} /\ UNCHANGED soundSince
    BY <2>1, <2>2 DEF WaitIsSound, Outlasts
  <2>3. CASE step' = "compose" /\ DirectPort!Reads /\ (AnswerSound' <=> DirectPort!Sound)
    BY <2>1, <2>3, ReadingOutlasts DEF WaitIsSound
  <2> QED
    BY <1>5, <2>2, <2>3, GroupDoes
<1>6. CASE DirectPort!ComposeGroups
  <2>1. /\ step = "compose" /\ step' \in {"judge", "diagnose"}
        /\ UNCHANGED <<clock, since, answer, soundSince>>
    BY <1>6, ComposeDoes
  <2> QED
    BY <2>1 DEF WaitIsSound, Outlasts, AnswerSound
<1>7. CASE DirectPort!JudgeSample
  <2>1. step = "judge" /\ UNCHANGED <<clock, soundSince>>
    BY <1>7, JudgeDoes
  <2>2. CASE step' = "done"
    BY <2>1, <2>2 DEF WaitIsSound
  <2>3. CASE /\ step' = IF \E t \in since': clock - t >= StableSeconds THEN "validate" ELSE "loop"
             /\ ~answer.oom /\ answer.restarts = 0 /\ answer.state = "running"
             /\ since' = IF answer.health # "healthy" THEN {}
                         ELSE IF since = {} THEN {clock} ELSE since
    <3>1. Outlasts'
      <4>1. CASE answer.health # "healthy"
        BY <2>3, <4>1 DEF Outlasts
      <4>2. CASE answer.health = "healthy"
        <5>1. soundSince # {} /\ Outlasts /\ \A s \in soundSince: s <= clock
          BY <2>1, <2>3, <4>2 DEF WaitIsSound, AnswerSound
        <5> QED
          BY <2>1, <2>3, <4>2, <5>1 DEF Outlasts
      <4> QED
        BY <4>1, <4>2
    <3>2. ASSUME NEW t \in since', clock - t >= StableSeconds
          PROVE  SoundLongEnough'
      <4>1. PICK s \in soundSince': s <= t
        BY <3>1 DEF Outlasts
      <4>2. t \in Nat /\ s \in Nat /\ clock \in Nat
        <5>1. since' \in SUBSET (0..Horizon) /\ soundSince' \in SUBSET (0..Horizon)
          BY <1>7, JudgeDoes DEF TimesTyped
        <5> QED
          BY <5>1 DEF TimesTyped
      <4>3. clock - s >= StableSeconds
        BY <3>2, <4>1, <4>2, ModesAssumption
      <4> QED
        BY <2>1, <4>3 DEF SoundLongEnough
    <3>3. step' \in {"validate", "loop"} /\ (step' = "validate" => SoundLongEnough')
      BY <2>3, <3>2
    <3> QED
      BY <2>1, <3>1, <3>3 DEF WaitIsSound
  <2> QED
    BY <1>7, <2>2, <2>3, JudgeDoes
<1> QED
  BY <1>1, <1>2, <1>3, <1>4, <1>5, <1>6, <1>7 DEF DirectPort!DirectNext

(* The probe ends with a PASS on what it needs for one only, and with a    *)
(* named failure otherwise.                                                *)
LEMMA OutcomeStaysFit ==
  ASSUME DirectInv, DirectPort!DirectNext
  PROVE  OutcomeFits'
<1> USE DEF DirectInv
<1>1. step = "done" => ~DirectPort!DirectNext
  BY DEF DirectPort!DirectNext, DirectPort!CreateContainer, DirectPort!CorrelateContainer,
     DirectPort!InspectAll, DirectPort!InspectAvailability, DirectPort!InspectGroup,
     DirectPort!ComposeGroups, DirectPort!PrintDiagnostic, DirectPort!JudgeSample,
     DirectPort!GiveUp, DirectPort!ValidateInspection, DirectPort!ConnectLoopback,
     DirectPort!ConnectOutside, DirectPort!HealthChanges, DirectPort!ContainerExits,
     DirectPort!ContainerRestarts, DirectPort!Tick
<1>2. outcome = "none" /\ step # "done"
  BY <1>1 DEF OutcomeFits
<1>3. ASSUME UNCHANGED outcome, step' \notin {"loopback", "outside"}
      PROVE  OutcomeFits'
  BY <1>2, <1>3 DEF OutcomeFits, DirectPort!PassIsSound, DirectPort!FailureIsNamed
<1>4. ASSUME step' = "done", outcome' \notin {"PASS", "DIRECT_PROBE_FAILED"}
      PROVE  OutcomeFits'
  BY <1>4 DEF OutcomeFits, DirectPort!PassIsSound, DirectPort!FailureIsNamed
<1>5. CASE DirectPort!CreateContainer \/ DirectPort!CorrelateContainer \/ DirectPort!GiveUp
  BY <1>3, <1>4, <1>5 DEF DirectPort!CreateContainer, DirectPort!CorrelateContainer,
     DirectPort!GiveUp, DirectPort!Blocks, DirectPort!Proceeds
<1>6. CASE DirectPort!PrintDiagnostic
  <2>1. step = "diagnose" /\ DirectPort!Admitted(envelope) /\ envelope.terminal \in Terminals
    BY <1>6 DEF DirectPort!PrintDiagnostic, DiagnosisFits, AnswerTyped, Envelopes
  <2>2. step' = "done" /\ outcome' = envelope.terminal
    BY <1>6, <2>1 DEF DirectPort!PrintDiagnostic, DirectPort!Blocks
  <2> QED
    BY <1>4, <2>1, <2>2 DEF Terminals
<1>7. CASE DirectPort!ValidateInspection
  <2>1. CASE DirectPort!Proceeds("loopback") /\ answer.asked /\ answer.bound = "loopback"
    <3>1. container.asked /\ container.bound = "loopback" /\ UNCHANGED container
      BY <1>7, <2>1 DEF AnswerIsTrue, DirectPort!ValidateInspection, DirectPort!world
    <3> QED
      BY <1>2, <2>1, <3>1 DEF DirectPort!Proceeds, OutcomeFits, DirectPort!PassIsSound,
         DirectPort!FailureIsNamed
  <2>2. CASE DirectPort!Blocks("DIRECT_PORT_BINDING_MISMATCH") \/ DirectPort!Blocks("DIRECT_CONTRACT_MISMATCH")
    BY <1>4, <2>2 DEF DirectPort!Blocks
  <2> QED
    BY <1>7, <2>1, <2>2 DEF DirectPort!ValidateInspection
<1>8. CASE DirectPort!ConnectLoopback
  <2>1. step = "loopback" /\ UNCHANGED container
    BY <1>8 DEF DirectPort!ConnectLoopback, DirectPort!world
  <2>2. CASE DirectPort!Proceeds("outside")
    BY <1>2, <2>1, <2>2 DEF DirectPort!Proceeds, OutcomeFits, DirectPort!PassIsSound,
       DirectPort!FailureIsNamed
  <2>3. CASE DirectPort!Blocks("DIRECT_LOOPBACK_CONNECT_FAILED")
    BY <1>4, <2>3 DEF DirectPort!Blocks
  <2> QED
    BY <1>8, <2>2, <2>3 DEF DirectPort!ConnectLoopback
<1>9. CASE DirectPort!ConnectOutside
  <2>1. /\ step = "outside" /\ step' = "done" /\ UNCHANGED <<clock, container, addresses, soundSince>>
        /\ outcome' = IF addresses /\ container.open /\ container.state = "running"
                      THEN "DIRECT_NONLOOPBACK_CONNECT_SUCCEEDED" ELSE "PASS"
    BY <1>9 DEF DirectPort!ConnectOutside, DirectPort!Blocks, DirectPort!world
  <2>2. SoundLongEnough /\ container.asked /\ container.bound = "loopback"
    BY <2>1 DEF WaitIsSound, OutcomeFits
  <2> QED
    BY <2>1, <2>2 DEF OutcomeFits, SoundLongEnough, DirectPort!PassIsSound, DirectPort!FailureIsNamed
<1>10. CASE \/ DirectPort!HealthChanges \/ DirectPort!ContainerExits
            \/ DirectPort!ContainerRestarts \/ DirectPort!Tick
  <2>1. /\ UNCHANGED <<step, outcome>>
        /\ container'.asked = container.asked /\ container'.bound = container.bound
    BY <1>10, WorldMoves
  <2> QED
    BY <1>2, <2>1 DEF OutcomeFits, DirectPort!PassIsSound, DirectPort!FailureIsNamed
<1>11. CASE DirectPort!InspectAll
  BY <1>3, <1>11, InspectAllDoes
<1>12. CASE DirectPort!InspectAvailability
  BY <1>3, <1>12, AvailabilityDoes
<1>13. CASE DirectPort!InspectGroup
  BY <1>3, <1>13, GroupDoes
<1>14. CASE DirectPort!ComposeGroups
  BY <1>3, <1>14, ComposeDoes
<1>15. CASE DirectPort!JudgeSample
  <2>1. \/ step' = "done" /\ outcome' \notin {"PASS", "DIRECT_PROBE_FAILED"}
        \/ step' \in {"validate", "loop"} /\ UNCHANGED outcome
    BY <1>15, JudgeDoes
  <2> QED
    BY <1>3, <1>4, <2>1
<1> QED
  BY <1>5, <1>6, <1>7, <1>8, <1>9, <1>10, <1>11, <1>12, <1>13, <1>14, <1>15
  DEF DirectPort!DirectNext

(* The invariant of the direct probe is inductive. *)
LEMMA DirectStep ==
  ASSUME DirectInv, [DirectPort!DirectNext]_directVars
  PROVE  DirectInv'
<1>1. CASE UNCHANGED directVars
  <2> USE <1>1 DEF directVars, DirectInv
  <2>1. TimesTyped' /\ AnswerTyped' /\ WorldTyped' /\ AnswerIsTrue'
    BY DEF TimesTyped, AnswerTyped, WorldTyped, AnswerIsTrue, DirectPort!Nothing
  <2>2. DiagnosisFits' /\ WaitIsSound' /\ OutcomeFits'
    BY DEF DiagnosisFits, DirectPort!Admitted, WaitIsSound, Outlasts, AnswerSound, SoundLongEnough,
       OutcomeFits, DirectPort!PassIsSound, DirectPort!FailureIsNamed
  <2> QED
    BY <2>1, <2>2
<1>2. CASE DirectPort!DirectNext
  <2>1. TimesTyped' /\ AnswerTyped' /\ WorldTyped'
    BY <1>2, TypedShellSteps, WorldMoves, InspectAllDoes, AvailabilityDoes, GroupDoes, ComposeDoes,
       JudgeDoes DEF DirectInv, DirectPort!DirectNext
  <2> QED
    BY <1>2, <2>1, AnswerStaysTrue, DiagnosisStaysFit, WaitStaysSound, OutcomeStaysFit DEF DirectInv
<1> QED
  BY <1>1, <1>2

-----------------------------------------------------------------------------
(* The counting relay: what its variables range over *)

Stages == {"start", "cli", "stopping", "written", "judged"}
Tallies == [DOMAIN Split!Zero -> 0..3]
Parts == {"none", "read", "write"}
Parsers == [mode: {"line", "headers", "body"}, sized: BOOLEAN, part: Parts, unread: Seq(Split!Pieces)]
Feeding == [mode: {"line", "headers", "body"}, sized: BOOLEAN, part: Parts, unread: Seq(Split!Pieces),
            raised: {"no", "write attempt", "value error"}, counters: Tallies]
DockerDaemons == [mode: {"line", "headers", "body", "closed"}, sized: BOOLEAN, part: Parts, kind: Parts]
Hearing == [mode: {"line", "headers", "body", "closed"}, sized: BOOLEAN, part: Parts, kind: Parts,
            serves: Seq(Parts)]
Connected == [at: {"new", "open", "closed"}, left: 0..MaxPieces, halved: Parts,
              inbox: Seq(Split!Pieces), parser: Parsers, daemon: DockerDaemons,
              served: SUBSET Parts, owed: Nat]

(* The parser and the daemon read the same: they are at the same place of  *)
(* the same request, which is no write and has been counted.               *)
SamePlace(p, d) == /\ d.mode = p.mode /\ d.sized = p.sized /\ d.part = p.part
                   /\ p.unread = <<>>
ReadOnly(d, counters) == d.mode = "headers" => d.kind = "read" /\ counters.request > 0

(* Only a daemon that has closed the connection may have read something    *)
(* else than the parser, which goes on with what it left unparsed.         *)
InStep(p, d, counters) == d.mode = "closed" \/ (SamePlace(p, d) /\ ReadOnly(d, counters))

ConnectionFits(c) ==
    /\ conn[c].served \subseteq {"read"}
    /\ conn[c].served # {} => counts.request > 0
    /\ conn[c].at # "closed" => InStep(conn[c].parser, conn[c].daemon, counts)

RelayTyped == stage \in Stages /\ counts \in Tallies /\ conn \in [Connections -> Connected]
EndFits ==
    /\ stage \in {"start", "written", "judged"} => \A c \in Connections: conn[c].at # "open"
    /\ stateFile \subseteq {counts} /\ (stateFile # {} => stage \in {"written", "judged"})
    /\ gate = "silent" => stage = "judged" /\ counts.request = 0

RelayInv == RelayTyped /\ EndFits /\ \A c \in Connections: ConnectionFits(c)

-----------------------------------------------------------------------------
(* The counting relay: a chunk, piece by piece *)

(* What holds of zero and, below n, passes to the next number, holds of n. *)
LEMMA Climb ==
  ASSUME NEW n \in Nat, NEW T \in SUBSET Nat, 0 \in T, \A i \in T: i < n => i + 1 \in T
  PROVE  n \in T
<1> DEFINE Missed == {i \in 0..n: i \notin T}
<1>1. SUFFICES ASSUME n \notin T PROVE FALSE
  OBVIOUS
<1>2. n \in Missed /\ Missed \in SUBSET Nat
  BY <1>1
<1>3. PICK m \in Missed: \A i \in Missed: ~(<<i, m>> \in OpToRel(<, Nat))
  BY <1>2, NatLessThanWellFounded, WFMin
<1>4. m \in Nat /\ m # 0 /\ m <= n /\ m \notin T
  OBVIOUS
<1>5. m - 1 \notin Missed
  <2>1. <<m - 1, m>> \in OpToRel(<, Nat)
    BY <1>4 DEF OpToRel
  <2> QED
    BY <1>3, <2>1
<1>6. m - 1 \in T /\ m - 1 < n
  BY <1>4, <1>5
<1>7. (m - 1) + 1 \in T
  BY <1>6
<1> QED
  BY <1>4, <1>7

(* A counter that is counted up does not disturb the others, and a request *)
(* once counted stays so.                                                  *)
LEMMA IncDoes ==
  ASSUME NEW r \in Tallies, NEW counter \in DOMAIN Split!Zero
  PROVE  /\ Split!Inc(r, counter) \in Tallies
         /\ r.request > 0 => Split!Inc(r, counter).request > 0
         /\ counter = "request" => Split!Inc(r, counter).request > 0
         /\ counter # "request" => Split!Inc(r, counter).request = r.request
<1>1. DOMAIN Split!Zero = {"request", "response", "error", "write", "forwarding", "parser"}
  BY DEF Split!Zero
<1> QED
  BY <1>1 DEF Tallies, Split!Inc

(* A request that is counted is on the record. *)
LEMMA CountedDoes ==
  ASSUME NEW r \in Tallies, NEW kind
  PROVE  Split!Counted(r, kind) \in Tallies /\ Split!Counted(r, kind).request > 0
<1>1. {"request", "write"} \subseteq DOMAIN Split!Zero
  BY DEF Split!Zero
<1>2. Split!Inc(r, "request") \in Tallies /\ Split!Inc(r, "request").request > 0
  BY <1>1, IncDoes
<1>3. /\ Split!Inc(Split!Inc(r, "request"), "write") \in Tallies
      /\ Split!Inc(Split!Inc(r, "request"), "write").request > 0
  BY <1>1, <1>2, IncDoes
<1> QED
  BY <1>2, <1>3 DEF Split!Counted

(* A piece leaves the parser well formed; no request is uncounted.         *)
LEMMA FedDoes ==
  ASSUME NEW p \in Feeding, NEW piece \in Split!Pieces
  PROVE  /\ Split!Fed(p, piece) \in Feeding
         /\ p.counters.request > 0 => Split!Fed(p, piece).counters.request > 0
<1> DEFINE line == Split!Line(p.part, piece)
<1>1. CASE p.raised # "no"
  <2>1. Split!Fed(p, piece) = [p EXCEPT !.unread = Append(@, piece)]
    BY <1>1 DEF Split!Fed
  <2>2. p.unread \in Seq(Split!Pieces)
    BY DEF Feeding
  <2>3. Append(p.unread, piece) \in Seq(Split!Pieces)
    BY <2>2
  <2> QED
    BY <2>1, <2>3 DEF Feeding
<1>2. CASE p.raised = "no" /\ p.mode = "body"
  <2>1. Split!Fed(p, piece) = [p EXCEPT !.mode = "line"]
    BY <1>2 DEF Split!Fed
  <2> QED
    BY <2>1 DEF Feeding
<1>3. CASE p.raised = "no" /\ p.mode # "body" /\ piece \in {"half read", "half write"}
  BY <1>3 DEF Split!Fed, Feeding, Parts
<1>4. CASE p.raised = "no" /\ p.mode # "body" /\ piece \notin {"half read", "half write"}
  <2> DEFINE whole == [p EXCEPT !.part = "none"]
  <2>1. whole \in Feeding /\ whole.counters = p.counters
    BY DEF Feeding, Parts
  <2>2. Split!Fed(p, piece) =
          CASE p.mode = "line" /\ line \in {"read", "write"} ->
                 [whole EXCEPT !.mode = "headers", !.counters = Split!Counted(@, line),
                               !.raised = IF line = "write" THEN "write attempt" ELSE "no"]
            [] p.mode = "headers" /\ line = "blank" ->
                 [whole EXCEPT !.mode = IF p.sized THEN "body" ELSE "line", !.sized = FALSE]
            [] p.mode = "headers" /\ line = "length" -> [whole EXCEPT !.sized = TRUE]
            [] OTHER -> [whole EXCEPT !.raised = "value error"]
    BY <1>4 DEF Split!Fed
  <2>3. Split!Counted(p.counters, line) \in Tallies /\ Split!Counted(p.counters, line).request > 0
    BY CountedDoes DEF Feeding
  <2> HIDE DEF line, whole
  <2>4. CASE p.mode = "line" /\ line \in {"read", "write"}
    <3>1. Split!Fed(p, piece) =
            [whole EXCEPT !.mode = "headers", !.counters = Split!Counted(@, line),
                          !.raised = IF line = "write" THEN "write attempt" ELSE "no"]
      BY <2>2, <2>4
    <3> QED
      BY <2>1, <2>3, <3>1 DEF Feeding
  <2>5. CASE p.mode = "headers" /\ line = "blank"
    <3>1. Split!Fed(p, piece) =
            [whole EXCEPT !.mode = IF p.sized THEN "body" ELSE "line", !.sized = FALSE]
      BY <2>2, <2>5
    <3> QED
      BY <2>1, <3>1 DEF Feeding
  <2>6. CASE p.mode = "headers" /\ line = "length"
    <3>1. Split!Fed(p, piece) = [whole EXCEPT !.sized = TRUE]
      BY <2>2, <2>6
    <3> QED
      BY <2>1, <3>1 DEF Feeding
  <2>7. CASE ~(p.mode = "line" /\ line \in {"read", "write"})
             /\ ~(p.mode = "headers" /\ line \in {"blank", "length"})
    <3>1. Split!Fed(p, piece) = [whole EXCEPT !.raised = "value error"]
      BY <2>2, <2>7
    <3> QED
      BY <2>1, <3>1 DEF Feeding
  <2> QED
    BY <2>4, <2>5, <2>6, <2>7
<1> QED
  BY <1>1, <1>2, <1>3, <1>4

(* A piece leaves the daemon's account well formed; a daemon that has      *)
(* closed the connection hears nothing more.                               *)
LEMMA HeardDoes ==
  ASSUME NEW d \in Hearing, NEW piece \in Split!Pieces
  PROVE  /\ Split!Heard(d, piece) \in Hearing
         /\ d.mode = "closed" => Split!Heard(d, piece) = d
<1> DEFINE line == Split!Line(d.part, piece)
<1>1. CASE d.mode = "closed"
  BY <1>1 DEF Split!Heard
<1>2. CASE d.mode = "body"
  <2>1. Split!Heard(d, piece) = [d EXCEPT !.mode = "line"]
    BY <1>2 DEF Split!Heard
  <2> QED
    BY <1>2, <2>1 DEF Hearing
<1>3. CASE d.mode \in {"line", "headers"} /\ piece \in {"half read", "half write"}
  BY <1>3 DEF Split!Heard, Hearing, Parts
<1>4. CASE d.mode \in {"line", "headers"} /\ piece \notin {"half read", "half write"}
  <2> DEFINE whole == [d EXCEPT !.part = "none"]
  <2>1. whole \in Hearing /\ whole.serves = d.serves
    BY DEF Hearing, Parts
  <2>2. Split!Heard(d, piece) =
          CASE d.mode = "line" /\ line \in {"read", "write"} ->
                 [whole EXCEPT !.mode = "headers", !.kind = line]
            [] d.mode = "headers" /\ line = "blank" ->
                 [whole EXCEPT !.mode = IF d.sized THEN "body" ELSE "line", !.sized = FALSE,
                               !.kind = "none", !.serves = Append(@, d.kind)]
            [] d.mode = "headers" /\ line = "length" -> [whole EXCEPT !.sized = TRUE]
            [] OTHER -> [whole EXCEPT !.mode = "closed"]
    BY <1>4 DEF Split!Heard
  <2>3. d.kind \in Parts /\ d.serves \in Seq(Parts)
    BY DEF Hearing
  <2>4. Append(d.serves, d.kind) \in Seq(Parts)
    BY <2>3
  <2> HIDE DEF line
  <2> QED
    <3>1. CASE d.mode = "line" /\ line \in {"read", "write"}
      <4>1. Split!Heard(d, piece) = [whole EXCEPT !.mode = "headers", !.kind = line]
        BY <2>2, <3>1
      <4> QED
        BY <1>4, <2>1, <3>1, <4>1 DEF Hearing, Parts
    <3>2. CASE d.mode = "headers" /\ line = "blank"
      <4>1. Split!Heard(d, piece) =
              [whole EXCEPT !.mode = IF d.sized THEN "body" ELSE "line", !.sized = FALSE,
                            !.kind = "none", !.serves = Append(@, d.kind)]
        BY <2>2, <3>2
      <4> QED
        BY <1>4, <2>1, <2>4, <4>1 DEF Hearing, Parts
    <3>3. CASE d.mode = "headers" /\ line = "length"
      <4>1. Split!Heard(d, piece) = [whole EXCEPT !.sized = TRUE]
        BY <2>2, <3>3
      <4> QED
        BY <1>4, <2>1, <4>1 DEF Hearing, Parts
    <3>4. CASE ~(d.mode = "line" /\ line \in {"read", "write"})
               /\ ~(d.mode = "headers" /\ line \in {"blank", "length"})
      <4>1. Split!Heard(d, piece) = [whole EXCEPT !.mode = "closed"]
        BY <2>2, <3>4
      <4> QED
        BY <1>4, <2>1, <4>1 DEF Hearing, Parts
    <3> QED
      BY <3>1, <3>2, <3>3, <3>4
<1>5. d.mode \in {"line", "headers", "body", "closed"}
  BY DEF Hearing
<1> QED
  BY <1>1, <1>2, <1>3, <1>4, <1>5

(* What the two have made of a chunk so far: the parser has raised a write *)
(* attempt, so that the chunk will be dropped; or the daemon has served    *)
(* reads only, each one counted, and reads the same as the parser.         *)
Together(p, d) ==
    \/ p.raised = "write attempt"
    \/ /\ d.serves \in Seq({"read"}) /\ (d.serves # <<>> => p.counters.request > 0)
       /\ \/ d.mode = "closed"
          \/ p.raised = "no" /\ SamePlace(p, d) /\ ReadOnly(d, p.counters)

(* They stay together when both go on with the same piece.                 *)
LEMMA StayTogether ==
  ASSUME NEW p \in Feeding, NEW d \in Hearing, NEW piece \in Split!Pieces, Together(p, d)
  PROVE  Together(Split!Fed(p, piece), Split!Heard(d, piece))
<1> DEFINE q == Split!Fed(p, piece)
           e == Split!Heard(d, piece)
           line == Split!Line(p.part, piece)
<1> SUFFICES Together(q, e)
  OBVIOUS
<1>1. CASE p.raised = "write attempt"
  <2>1. q.raised = "write attempt"
    BY <1>1 DEF Split!Fed, Feeding
  <2> QED
    BY <2>1 DEF Together
<1>2. CASE p.raised # "write attempt" /\ d.mode = "closed"
  <2>1. e = d
    BY <1>2, HeardDoes
  <2>2. p.counters.request > 0 => q.counters.request > 0
    BY FedDoes
  <2> QED
    BY <1>2, <2>1, <2>2 DEF Together
<1>3. CASE /\ d.serves \in Seq({"read"}) /\ (d.serves # <<>> => p.counters.request > 0)
           /\ p.raised = "no" /\ SamePlace(p, d) /\ ReadOnly(d, p.counters) /\ d.mode # "closed"
  <2>1. d.mode = p.mode /\ d.sized = p.sized /\ d.part = p.part /\ p.unread = <<>>
    BY <1>3 DEF SamePlace
  <2>2. CASE p.mode = "body"
    <3>1. q = [p EXCEPT !.mode = "line"] /\ e = [d EXCEPT !.mode = "line"]
      BY <1>3, <2>1, <2>2 DEF Split!Fed, Split!Heard
    <3> QED
      BY <1>3, <2>1, <3>1 DEF Together, SamePlace, ReadOnly, Feeding, Hearing
  <2>3. CASE p.mode # "body" /\ piece = "half read"
    <3>1. q = [p EXCEPT !.part = "read"] /\ e = [d EXCEPT !.part = "read"]
      BY <1>3, <2>1, <2>3 DEF Split!Fed, Split!Heard, Hearing
    <3> QED
      BY <1>3, <2>1, <3>1 DEF Together, SamePlace, ReadOnly, Feeding, Hearing
  <2>4. CASE p.mode # "body" /\ piece = "half write"
    <3>1. q = [p EXCEPT !.part = "write"] /\ e = [d EXCEPT !.part = "write"]
      BY <1>3, <2>1, <2>4 DEF Split!Fed, Split!Heard, Hearing
    <3> QED
      BY <1>3, <2>1, <3>1 DEF Together, SamePlace, ReadOnly, Feeding, Hearing
  <2>5. CASE p.mode # "body" /\ piece \notin {"half read", "half write"}
    <3> DEFINE whole == [p EXCEPT !.part = "none"]
               heard == [d EXCEPT !.part = "none"]
    <3>1. /\ whole.mode = p.mode /\ whole.sized = p.sized /\ whole.part = "none"
          /\ whole.unread = <<>> /\ whole.raised = "no" /\ whole.counters = p.counters
          /\ heard.mode = d.mode /\ heard.sized = d.sized /\ heard.part = "none"
          /\ heard.kind = d.kind /\ heard.serves = d.serves
          /\ whole \in Feeding /\ heard \in Hearing
      BY <1>3, <2>1 DEF Feeding, Hearing, Parts
    <3>2. q = CASE p.mode = "line" /\ line \in {"read", "write"} ->
                     [whole EXCEPT !.mode = "headers", !.counters = Split!Counted(@, line),
                                   !.raised = IF line = "write" THEN "write attempt" ELSE "no"]
                [] p.mode = "headers" /\ line = "blank" ->
                     [whole EXCEPT !.mode = IF p.sized THEN "body" ELSE "line", !.sized = FALSE]
                [] p.mode = "headers" /\ line = "length" -> [whole EXCEPT !.sized = TRUE]
                [] OTHER -> [whole EXCEPT !.raised = "value error"]
      BY <1>3, <2>5 DEF Split!Fed
    <3>3. e = CASE d.mode = "line" /\ line \in {"read", "write"} ->
                     [heard EXCEPT !.mode = "headers", !.kind = line]
                [] d.mode = "headers" /\ line = "blank" ->
                     [heard EXCEPT !.mode = IF d.sized THEN "body" ELSE "line", !.sized = FALSE,
                                   !.kind = "none", !.serves = Append(@, d.kind)]
                [] d.mode = "headers" /\ line = "length" -> [heard EXCEPT !.sized = TRUE]
                [] OTHER -> [heard EXCEPT !.mode = "closed"]
      BY <1>3, <2>1, <2>5 DEF Split!Heard, Hearing
    <3> HIDE DEF line, whole, heard
    <3>4. CASE p.mode = "line" /\ line \in {"read", "write"}
      <4>1. /\ q = [whole EXCEPT !.mode = "headers", !.counters = Split!Counted(@, line),
                                 !.raised = IF line = "write" THEN "write attempt" ELSE "no"]
            /\ e = [heard EXCEPT !.mode = "headers", !.kind = line]
        BY <2>1, <3>2, <3>3, <3>4
      <4>2. Split!Counted(p.counters, line).request > 0
        BY CountedDoes DEF Feeding
      <4> QED
        <5>1. CASE line = "write"
          <6>1. q.raised = "write attempt"
            BY <3>1, <4>1, <5>1 DEF Feeding
          <6> QED
            BY <6>1 DEF Together
        <5>2. CASE line = "read"
          <6>1. /\ q.mode = "headers" /\ e.mode = "headers" /\ q.sized = p.sized /\ e.sized = d.sized
                /\ q.part = "none" /\ e.part = "none" /\ q.unread = <<>> /\ q.raised = "no"
                /\ q.counters = Split!Counted(p.counters, line) /\ e.kind = "read"
                /\ e.serves = d.serves
            <7>1. /\ q.mode = "headers" /\ q.sized = whole.sized /\ q.part = whole.part
                  /\ q.unread = whole.unread /\ q.raised = "no"
                  /\ q.counters = Split!Counted(whole.counters, line)
              BY <3>1, <4>1, <5>2 DEF Feeding
            <7>2. /\ e.mode = "headers" /\ e.sized = heard.sized /\ e.part = heard.part
                  /\ e.kind = "read" /\ e.serves = heard.serves
              BY <3>1, <4>1, <5>2 DEF Hearing
            <7> HIDE DEF q, e
            <7> QED
              BY <3>1, <7>1, <7>2
          <6> HIDE DEF q, e
          <6>2. SamePlace(q, e)
            BY <2>1, <6>1, Zenon DEF SamePlace
          <6>3. ReadOnly(e, q.counters) /\ q.counters.request > 0
            BY <4>2, <6>1 DEF ReadOnly
          <6>4. q.raised = "no" /\ e.serves \in Seq({"read"})
            BY <1>3, <6>1
          <6> QED
            BY <6>2, <6>3, <6>4 DEF Together
        <5> QED
          BY <3>4, <5>1, <5>2
    <3>5. CASE p.mode = "headers" /\ line = "blank"
      <4>1. /\ q = [whole EXCEPT !.mode = IF p.sized THEN "body" ELSE "line", !.sized = FALSE]
            /\ e = [heard EXCEPT !.mode = IF d.sized THEN "body" ELSE "line", !.sized = FALSE,
                                 !.kind = "none", !.serves = Append(@, d.kind)]
        BY <2>1, <3>2, <3>3, <3>5
      <4>2. d.kind = "read" /\ p.counters.request > 0
        BY <1>3, <2>1, <3>5 DEF ReadOnly
      <4>3. Append(d.serves, d.kind) \in Seq({"read"})
        BY <1>3, <4>2
      <4>4. /\ q.mode = IF p.sized THEN "body" ELSE "line"
            /\ q.sized = FALSE /\ q.part = "none" /\ q.unread = <<>> /\ q.raised = "no"
            /\ q.counters = p.counters
        <5>1. /\ q.mode = IF p.sized THEN "body" ELSE "line"
              /\ q.sized = FALSE /\ q.part = whole.part /\ q.unread = whole.unread
              /\ q.raised = whole.raised /\ q.counters = whole.counters
          BY <3>1, <4>1 DEF Feeding
        <5> HIDE DEF q
        <5> QED
          BY <3>1, <5>1
      <4>5. /\ e.mode = IF d.sized THEN "body" ELSE "line"
            /\ e.sized = FALSE /\ e.part = "none" /\ e.serves = Append(d.serves, d.kind)
        BY <3>1, <4>1 DEF Hearing
      <4>6. e.mode = q.mode /\ e.mode # "headers"
        BY <2>1, <4>4, <4>5
      <4> HIDE DEF q, e
      <4> QED
        <5>1. SamePlace(q, e)
          BY <4>4, <4>5, <4>6, Zenon DEF SamePlace
        <5>2. ReadOnly(e, q.counters) /\ q.counters.request > 0
          BY <4>2, <4>4, <4>6 DEF ReadOnly
        <5> QED
          BY <4>3, <4>4, <4>5, <5>1, <5>2 DEF Together
    <3>6. CASE p.mode = "headers" /\ line = "length"
      <4>1. q = [whole EXCEPT !.sized = TRUE] /\ e = [heard EXCEPT !.sized = TRUE]
        BY <2>1, <3>2, <3>3, <3>6
      <4> QED
        <5>1. /\ q.mode = p.mode /\ q.sized = TRUE /\ q.part = "none" /\ q.unread = <<>>
              /\ q.raised = "no" /\ q.counters = p.counters
          BY <3>1, <4>1 DEF Feeding
        <5>2. /\ e.mode = d.mode /\ e.sized = TRUE /\ e.part = "none" /\ e.kind = d.kind
              /\ e.serves = d.serves
          BY <3>1, <4>1 DEF Hearing
        <5> HIDE DEF q, e
        <5>3. SamePlace(q, e)
          BY <2>1, <5>1, <5>2, Zenon DEF SamePlace
        <5>4. ReadOnly(e, q.counters)
          BY <1>3, <5>1, <5>2, Zenon DEF ReadOnly
        <5>5. /\ q.raised = "no" /\ e.serves \in Seq({"read"})
              /\ e.serves # <<>> => q.counters.request > 0
          BY <1>3, <5>1, <5>2
        <5> QED
          BY <5>3, <5>4, <5>5 DEF Together
    <3>7. CASE ~(p.mode = "line" /\ line \in {"read", "write"})
               /\ ~(p.mode = "headers" /\ line \in {"blank", "length"})
      <4>1. q = [whole EXCEPT !.raised = "value error"] /\ e = [heard EXCEPT !.mode = "closed"]
        BY <2>1, <3>2, <3>3, <3>7
      <4> QED
        BY <1>3, <2>1, <3>1, <4>1 DEF Together, Feeding, Hearing
    <3> QED
      BY <3>4, <3>5, <3>6, <3>7
  <2> QED
    BY <2>2, <2>3, <2>4, <2>5
<1> QED
  BY <1>1, <1>2, <1>3 DEF Together

(* The pieces of a chunk go into the parser one after the other.           *)
FedAll(start, pieces) ==
    LET after[n \in 0..Len(pieces)] == IF n = 0 THEN start ELSE Split!Fed(after[n - 1], pieces[n])
    IN  after[Len(pieces)]

(* The function it defines by recursion exists, and does what it says.     *)
LEMMA FedAllIs ==
  ASSUME NEW start, NEW pieces \in Seq(Split!Pieces)
  PROVE  \E f: /\ f[0] = start /\ FedAll(start, pieces) = f[Len(pieces)]
              /\ \A n \in 1..Len(pieces): f[n] = Split!Fed(f[n - 1], pieces[n])
<1> DEFINE after[n \in 0..Len(pieces)] == IF n = 0 THEN start ELSE Split!Fed(after[n - 1], pieces[n])
           Runs(f, m) == f = [n \in 0..m |-> IF n = 0 THEN start ELSE Split!Fed(f[n - 1], pieces[n])]
           Lengths == {m \in Nat: \E f: Runs(f, m)}
<1>1. Len(pieces) \in Nat
  OBVIOUS
<1>2. 0 \in Lengths
  <2>1. Runs([n \in 0..0 |-> start], 0)
    OBVIOUS
  <2> QED
    BY <2>1
<1>3. ASSUME NEW m \in Lengths
      PROVE  m + 1 \in Lengths
  <2>1. PICK f: Runs(f, m)
    BY <1>3
  <2>2. m \in Nat
    BY <1>3
  <2> DEFINE g == [n \in 0..(m + 1) |-> IF n = m + 1 THEN Split!Fed(f[m], pieces[m + 1]) ELSE f[n]]
  <2>3. f[0] = start /\ \A n \in 1..m: f[n] = Split!Fed(f[n - 1], pieces[n])
    BY <2>1, <2>2
  <2>4. ASSUME NEW n \in 0..(m + 1)
        PROVE  g[n] = IF n = 0 THEN start ELSE Split!Fed(g[n - 1], pieces[n])
    <3>1. CASE n = 0
      BY <2>2, <2>3, <3>1
    <3>2. CASE n \in 1..m
      BY <2>2, <2>3, <3>2
    <3>3. CASE n = m + 1
      BY <2>2, <3>3
    <3> QED
      BY <2>2, <3>1, <3>2, <3>3
  <2>5. Runs(g, m + 1)
    BY <2>4
  <2> QED
    BY <2>2, <2>5
<1>4. Len(pieces) \in Lengths
  BY <1>1, <1>2, <1>3, Climb
<1>5. Runs(after, Len(pieces))
  <2>1. \E f: Runs(f, Len(pieces))
    BY <1>4
  <2> QED
    BY <2>1, Zenon
<1>6. FedAll(start, pieces) = after[Len(pieces)]
  BY DEF FedAll
<1> HIDE DEF after
<1>7. after[0] = start /\ \A n \in 1..Len(pieces): after[n] = Split!Fed(after[n - 1], pieces[n])
  BY <1>1, <1>5
<1> QED
  BY <1>6, <1>7

(* The daemon hears the pieces of a chunk one after the other.             *)
HeardAll(start, pieces) ==
    LET after[n \in 0..Len(pieces)] == IF n = 0 THEN start ELSE Split!Heard(after[n - 1], pieces[n])
    IN  after[Len(pieces)]

(* The function it defines by recursion exists, and does what it says.     *)
LEMMA HeardAllIs ==
  ASSUME NEW start, NEW pieces \in Seq(Split!Pieces)
  PROVE  \E f: /\ f[0] = start /\ HeardAll(start, pieces) = f[Len(pieces)]
              /\ \A n \in 1..Len(pieces): f[n] = Split!Heard(f[n - 1], pieces[n])
<1> DEFINE after[n \in 0..Len(pieces)] == IF n = 0 THEN start ELSE Split!Heard(after[n - 1], pieces[n])
           Runs(f, m) == f = [n \in 0..m |-> IF n = 0 THEN start ELSE Split!Heard(f[n - 1], pieces[n])]
           Lengths == {m \in Nat: \E f: Runs(f, m)}
<1>1. Len(pieces) \in Nat
  OBVIOUS
<1>2. 0 \in Lengths
  <2>1. Runs([n \in 0..0 |-> start], 0)
    OBVIOUS
  <2> QED
    BY <2>1
<1>3. ASSUME NEW m \in Lengths
      PROVE  m + 1 \in Lengths
  <2>1. PICK f: Runs(f, m)
    BY <1>3
  <2>2. m \in Nat
    BY <1>3
  <2> DEFINE g == [n \in 0..(m + 1) |-> IF n = m + 1 THEN Split!Heard(f[m], pieces[m + 1]) ELSE f[n]]
  <2>3. f[0] = start /\ \A n \in 1..m: f[n] = Split!Heard(f[n - 1], pieces[n])
    BY <2>1, <2>2
  <2>4. ASSUME NEW n \in 0..(m + 1)
        PROVE  g[n] = IF n = 0 THEN start ELSE Split!Heard(g[n - 1], pieces[n])
    <3>1. CASE n = 0
      BY <2>2, <2>3, <3>1
    <3>2. CASE n \in 1..m
      BY <2>2, <2>3, <3>2
    <3>3. CASE n = m + 1
      BY <2>2, <3>3
    <3> QED
      BY <2>2, <3>1, <3>2, <3>3
  <2>5. Runs(g, m + 1)
    BY <2>4
  <2> QED
    BY <2>2, <2>5
<1>4. Len(pieces) \in Lengths
  BY <1>1, <1>2, <1>3, Climb
<1>5. Runs(after, Len(pieces))
  <2>1. \E f: Runs(f, Len(pieces))
    BY <1>4
  <2> QED
    BY <2>1, Zenon
<1>6. HeardAll(start, pieces) = after[Len(pieces)]
  BY DEF HeardAll
<1> HIDE DEF after
<1>7. after[0] = start /\ \A n \in 1..Len(pieces): after[n] = Split!Heard(after[n - 1], pieces[n])
  BY <1>1, <1>5
<1> QED
  BY <1>6, <1>7

(* What holds of a piece holds of a chunk: the parser stays well formed,   *)
(* and no request is uncounted;                                            *)
LEMMA FedAllDoes ==
  ASSUME NEW start \in Feeding, NEW pieces \in Seq(Split!Pieces)
  PROVE  /\ FedAll(start, pieces) \in Feeding
         /\ start.counters.request > 0 => FedAll(start, pieces).counters.request > 0
<1>1. PICK f: /\ f[0] = start /\ FedAll(start, pieces) = f[Len(pieces)]
              /\ \A n \in 1..Len(pieces): f[n] = Split!Fed(f[n - 1], pieces[n])
  BY FedAllIs
<1> DEFINE Fine == {n \in Nat: n <= Len(pieces) =>
                      /\ f[n] \in Feeding
                      /\ start.counters.request > 0 => f[n].counters.request > 0}
<1>2. Len(pieces) \in Nat /\ 0 \in Fine
  BY <1>1
<1>3. ASSUME NEW i \in Fine, i < Len(pieces)
      PROVE  i + 1 \in Fine
  <2>1. /\ i \in Nat /\ f[i] \in Feeding
        /\ start.counters.request > 0 => f[i].counters.request > 0
    BY <1>2, <1>3
  <2>2. i + 1 \in 1..Len(pieces) /\ (i + 1) - 1 = i
    BY <1>2, <1>3, <2>1
  <2>3. pieces[i + 1] \in Split!Pieces /\ f[i + 1] = Split!Fed(f[i], pieces[i + 1])
    BY <1>1, <2>2
  <2>4. /\ f[i + 1] \in Feeding
        /\ f[i].counters.request > 0 => f[i + 1].counters.request > 0
    BY <2>1, <2>3, FedDoes
  <2> QED
    BY <2>1, <2>4
<1>4. Len(pieces) \in Fine
  BY <1>2, <1>3, Climb
<1> QED
  BY <1>1, <1>2, <1>4

(* the daemon's account stays well formed, and a closed one as it is;      *)
LEMMA HeardAllDoes ==
  ASSUME NEW begin \in Hearing, NEW pieces \in Seq(Split!Pieces)
  PROVE  /\ HeardAll(begin, pieces) \in Hearing
         /\ begin.mode = "closed" => HeardAll(begin, pieces) = begin
<1>1. PICK f: /\ f[0] = begin /\ HeardAll(begin, pieces) = f[Len(pieces)]
              /\ \A n \in 1..Len(pieces): f[n] = Split!Heard(f[n - 1], pieces[n])
  BY HeardAllIs
<1> DEFINE Fine == {n \in Nat: n <= Len(pieces) =>
                      f[n] \in Hearing /\ (begin.mode = "closed" => f[n] = begin)}
<1>2. Len(pieces) \in Nat /\ 0 \in Fine
  BY <1>1
<1>3. ASSUME NEW i \in Fine, i < Len(pieces)
      PROVE  i + 1 \in Fine
  <2>1. i \in Nat /\ f[i] \in Hearing /\ (begin.mode = "closed" => f[i] = begin)
    BY <1>2, <1>3
  <2>2. i + 1 \in 1..Len(pieces) /\ (i + 1) - 1 = i
    BY <1>2, <1>3, <2>1
  <2>3. pieces[i + 1] \in Split!Pieces /\ f[i + 1] = Split!Heard(f[i], pieces[i + 1])
    BY <1>1, <2>2
  <2> QED
    BY <2>1, <2>3, HeardDoes
<1>4. Len(pieces) \in Fine
  BY <1>2, <1>3, Climb
<1> QED
  BY <1>1, <1>2, <1>4

(* and the two stay together.                                              *)
LEMMA AllTogether ==
  ASSUME NEW start \in Feeding, NEW begin \in Hearing, NEW pieces \in Seq(Split!Pieces),
         Together(start, begin)
  PROVE  Together(FedAll(start, pieces), HeardAll(begin, pieces))
<1>1. PICK f: /\ f[0] = start /\ FedAll(start, pieces) = f[Len(pieces)]
              /\ \A n \in 1..Len(pieces): f[n] = Split!Fed(f[n - 1], pieces[n])
  BY FedAllIs
<1>2. PICK g: /\ g[0] = begin /\ HeardAll(begin, pieces) = g[Len(pieces)]
              /\ \A n \in 1..Len(pieces): g[n] = Split!Heard(g[n - 1], pieces[n])
  BY HeardAllIs
<1> DEFINE Fine == {n \in Nat: n <= Len(pieces) =>
                      f[n] \in Feeding /\ g[n] \in Hearing /\ Together(f[n], g[n])}
<1>3. Len(pieces) \in Nat /\ 0 \in Fine
  BY <1>1, <1>2
<1>4. ASSUME NEW i \in Fine, i < Len(pieces)
      PROVE  i + 1 \in Fine
  <2>1. i \in Nat /\ f[i] \in Feeding /\ g[i] \in Hearing /\ Together(f[i], g[i])
    BY <1>3, <1>4
  <2>2. i + 1 \in 1..Len(pieces) /\ (i + 1) - 1 = i
    BY <1>3, <1>4, <2>1
  <2>3. /\ pieces[i + 1] \in Split!Pieces
        /\ f[i + 1] = Split!Fed(f[i], pieces[i + 1]) /\ g[i + 1] = Split!Heard(g[i], pieces[i + 1])
    BY <1>1, <1>2, <2>2
  <2>4. f[i + 1] \in Feeding /\ g[i + 1] \in Hearing
    BY <2>1, <2>3, FedDoes, HeardDoes
  <2>5. Together(f[i + 1], g[i + 1])
    BY <2>1, <2>3, StayTogether
  <2> QED
    BY <2>1, <2>4, <2>5
<1>5. Len(pieces) \in Fine
  BY <1>3, <1>4, Climb
<1> QED
  BY <1>1, <1>2, <1>3, <1>5

(* feed() on what was left unparsed and a chunk                            *)
LEMMA FeedDoes ==
  ASSUME counts \in Tallies, NEW parser \in Parsers, NEW chunk \in Seq(Split!Pieces)
  PROVE  /\ Split!Feed(parser, chunk) \in Feeding
         /\ counts.request > 0 => Split!Feed(parser, chunk).counters.request > 0
<1> DEFINE pieces == parser.unread \o chunk
           start == [mode |-> parser.mode, sized |-> parser.sized, part |-> parser.part,
                     unread |-> <<>>, raised |-> "no", counters |-> counts]
<1>1. parser.unread \in Seq(Split!Pieces)
  BY DEF Parsers
<1>2. pieces \in Seq(Split!Pieces)
  BY <1>1
<1>3. start \in Feeding /\ start.counters = counts
  BY DEF Feeding, Parsers
<1>4. Split!Feed(parser, chunk) = FedAll(start, pieces)
  BY DEF Split!Feed, FedAll
<1> HIDE DEF start, pieces
<1> QED
  BY <1>2, <1>3, <1>4, FedAllDoes

(* What the daemon makes of a chunk; after it has closed the connection,   *)
(* nothing.                                                                *)
LEMMA HearDoes ==
  ASSUME NEW daemon \in DockerDaemons, NEW chunk \in Seq(Split!Pieces)
  PROVE  /\ Split!Hear(daemon, chunk) \in Hearing
         /\ daemon.mode = "closed" => /\ Split!Hear(daemon, chunk).mode = "closed"
                                      /\ Split!Hear(daemon, chunk).serves = <<>>
<1> DEFINE begin == [mode |-> daemon.mode, sized |-> daemon.sized, part |-> daemon.part,
                     kind |-> daemon.kind, serves |-> <<>>]
<1>1. begin \in Hearing /\ begin.mode = daemon.mode /\ begin.serves = <<>>
  BY DEF Hearing, DockerDaemons
<1>2. Split!Hear(daemon, chunk) = HeardAll(begin, chunk)
  BY DEF Split!Hear, HeardAll
<1> HIDE DEF begin
<1> QED
  BY <1>1, <1>2, HeardAllDoes

(* A parser and a daemon at the same place make the same of a chunk, or    *)
(* the chunk completes the line of a write.                                *)
LEMMA ReadTogether ==
  ASSUME counts \in Tallies, NEW parser \in Parsers, NEW daemon \in DockerDaemons,
         NEW chunk \in Seq(Split!Pieces), SamePlace(parser, daemon), ReadOnly(daemon, counts)
  PROVE  Together(Split!Feed(parser, chunk), Split!Hear(daemon, chunk))
<1> DEFINE start == [mode |-> parser.mode, sized |-> parser.sized, part |-> parser.part,
                     unread |-> <<>>, raised |-> "no", counters |-> counts]
           begin == [mode |-> daemon.mode, sized |-> daemon.sized, part |-> daemon.part,
                     kind |-> daemon.kind, serves |-> <<>>]
<1>1. parser.unread \o chunk = chunk
  BY DEF SamePlace
<1>2. Split!Feed(parser, chunk) = FedAll(start, chunk)
  BY <1>1 DEF Split!Feed, FedAll
<1>3. Split!Hear(daemon, chunk) = HeardAll(begin, chunk)
  BY DEF Split!Hear, HeardAll
<1>4. start \in Feeding /\ begin \in Hearing
  BY DEF Feeding, Parsers, Hearing, DockerDaemons
<1>5. SamePlace(start, begin) /\ ReadOnly(begin, start.counters)
  BY DEF SamePlace, ReadOnly
<1>6. start.raised = "no" /\ begin.serves = <<>> /\ <<>> \in Seq({"read"})
  OBVIOUS
<1> HIDE DEF start, begin
<1>7. Together(start, begin)
  BY <1>5, <1>6 DEF Together
<1> QED
  BY <1>2, <1>3, <1>4, <1>7, AllTogether

-----------------------------------------------------------------------------
(* The counting relay: its invariant *)

(* A connection keeps to the invariant while nothing of it moves that the  *)
(* parser or the daemon has read, and it does not open again.              *)
LEMMA FitStays ==
  ASSUME NEW c \in Connections, ConnectionFits(c), counts.request > 0 => counts'.request > 0,
         conn'[c].served = conn[c].served, conn'[c].parser = conn[c].parser,
         conn'[c].daemon = conn[c].daemon, conn[c].at = "closed" => conn'[c].at = "closed"
  PROVE  ConnectionFits(c)'
BY DEF ConnectionFits, InStep, SamePlace, ReadOnly

(* A connection with other bytes in flight *)
LEMMA StillConnected ==
  ASSUME NEW k \in Connected
  PROVE  /\ \A at \in {"open", "closed"}: [k EXCEPT !.at = at] \in Connected
         /\ \A inbox \in Seq(Split!Pieces), left \in 0..MaxPieces, halved \in Parts:
               [k EXCEPT !.inbox = inbox, !.left = left, !.halved = halved] \in Connected
         /\ k.owed > 0 => [k EXCEPT !.owed = @ - 1] \in Connected
<1>1. \A at \in {"open", "closed"}: [k EXCEPT !.at = at] \in Connected
  BY DEF Connected
<1>2. ASSUME NEW inbox \in Seq(Split!Pieces), NEW left \in 0..MaxPieces, NEW halved \in Parts
      PROVE  [k EXCEPT !.inbox = inbox, !.left = left, !.halved = halved] \in Connected
  BY DEF Connected
<1>3. ASSUME k.owed > 0
      PROVE  [k EXCEPT !.owed = @ - 1] \in Connected
  <2>1. k.owed - 1 \in Nat
    BY <1>3 DEF Connected
  <2> QED
    BY <2>1 DEF Connected
<1> QED
  BY <1>1, <1>2, <1>3

(* Nothing but relay() moves what the parser and the daemon have read.     *)
LEMMA ReadingRests ==
  ASSUME RelayInv, NEW c \in Connections,
         Split!Accept(c) \/ Split!ClientSends(c) \/ Split!RelayResponse(c) \/ Split!Disconnect(c)
  PROVE  /\ RelayTyped' /\ (counts.request > 0 => counts'.request > 0)
         /\ UNCHANGED <<stage, stateFile, gate>>
         /\ stage \in {"start", "written", "judged"} => UNCHANGED <<conn, counts>>
         /\ \A x \in Connections: /\ conn'[x].served = conn[x].served
                                  /\ conn'[x].parser = conn[x].parser
                                  /\ conn'[x].daemon = conn[x].daemon
                                  /\ conn[x].at = "closed" => conn'[x].at = "closed"
<1>1. /\ counts \in Tallies /\ conn \in [Connections -> Connected] /\ conn[c] \in Connected
      /\ {"forwarding", "response", "error", "parser"} \subseteq DOMAIN Split!Zero
  BY DEF RelayInv, RelayTyped, Split!Zero
<1>2. UNCHANGED <<stage, stateFile, gate>>
  BY DEF Split!Accept, Split!ClientSends, Split!RelayResponse, Split!Disconnect
<1>3. counts' \in Tallies /\ (counts.request > 0 => counts'.request > 0)
  <2>1. \A counter \in {"forwarding", "response", "parser"}:
           /\ Split!Inc(counts, counter) \in Tallies
           /\ counts.request > 0 => Split!Inc(counts, counter).request > 0
    BY <1>1, IncDoes
  <2>2. /\ Split!Inc(Split!Inc(counts, "response"), "error") \in Tallies
        /\ counts.request > 0 => Split!Inc(Split!Inc(counts, "response"), "error").request > 0
    BY <1>1, <2>1, IncDoes
  <2>3. counts' \in {counts, Split!Inc(counts, "forwarding"), Split!Inc(counts, "response"),
                     Split!Inc(counts, "parser"), Split!Inc(Split!Inc(counts, "response"), "error")}
    BY DEF Split!Accept, Split!ClientSends, Split!RelayResponse, Split!Disconnect
  <2> QED
    BY <1>1, <2>1, <2>2, <2>3
<1>4. \E k \in Connected:
         /\ conn' = [conn EXCEPT ![c] = k]
         /\ k.served = conn[c].served /\ k.parser = conn[c].parser /\ k.daemon = conn[c].daemon
         /\ conn[c].at # "closed" /\ (stage \in {"start", "written", "judged"} => FALSE)
  <2>1. CASE Split!Accept(c)
    <3>1. PICK at \in {"open", "closed"}: conn' = [conn EXCEPT ![c].at = at]
      BY <2>1 DEF Split!Accept
    <3>2. conn[c].at = "new" /\ stage = "cli"
      BY <2>1 DEF Split!Accept
    <3> QED
      BY <1>1, <3>1, <3>2, StillConnected DEF Connected
  <2>2. CASE Split!ClientSends(c)
    <3>1. PICK first \in Split!Pieces, more \in {<<>>} \cup {<<p>>: p \in Split!Pieces}:
             /\ Len(more) < conn[c].left
             /\ conn' = [conn EXCEPT ![c].inbox = <<first>> \o more,
                                     ![c].left = @ - 1 - Len(more),
                                     ![c].halved = Split!HalvedBy(IF more = <<>> THEN first ELSE more[1])]
      BY <2>2 DEF Split!ClientSends
    <3> DEFINE k == [conn[c] EXCEPT !.inbox = <<first>> \o more, !.left = @ - 1 - Len(more),
                                    !.halved = Split!HalvedBy(IF more = <<>> THEN first ELSE more[1])]
    <3>2. conn[c].at = "open" /\ stage \in {"cli", "stopping"}
      BY <2>2 DEF Split!ClientSends
    <3>3. conn' = [conn EXCEPT ![c] = k]
      BY <1>1, <3>1
    <3>4. <<first>> \o more \in Seq(Split!Pieces) /\ Len(more) \in {0, 1}
      <4>1. more \in Seq(Split!Pieces) /\ Len(more) \in {0, 1}
        <5>1. CASE more = <<>>
          BY <5>1
        <5>2. ASSUME NEW p \in Split!Pieces, more = <<p>>
              PROVE  more \in Seq(Split!Pieces) /\ Len(more) = 1
          BY <5>2
        <5> QED
          BY <5>1, <5>2
      <4>2. <<first>> \in Seq(Split!Pieces)
        OBVIOUS
      <4> QED
        BY <4>1, <4>2
    <3>5. conn[c].left \in 0..MaxPieces /\ MaxPieces \in Nat
      BY <1>1, ModesAssumption DEF Connected
    <3>6. conn[c].left - 1 - Len(more) \in 0..MaxPieces
      BY <3>1, <3>4, <3>5
    <3>7. Split!HalvedBy(IF more = <<>> THEN first ELSE more[1]) \in Parts
      BY DEF Split!HalvedBy, Parts
    <3>8. /\ k \in Connected
          /\ k.served = conn[c].served /\ k.parser = conn[c].parser /\ k.daemon = conn[c].daemon
      BY <1>1, <3>4, <3>6, <3>7, StillConnected DEF Connected
    <3> QED
      BY <3>2, <3>3, <3>8
  <2>3. CASE Split!RelayResponse(c)
    <3>1. conn' = [conn EXCEPT ![c].owed = @ - 1] /\ conn[c].owed > 0 /\ conn[c].at = "open"
      BY <2>3 DEF Split!RelayResponse
    <3>2. stage \notin {"start", "written", "judged"}
      BY <3>1 DEF RelayInv, EndFits
    <3> QED
      BY <1>1, <3>1, <3>2, StillConnected DEF Connected
  <2>4. CASE Split!Disconnect(c)
    <3>1. conn' = [conn EXCEPT ![c].at = "closed"] /\ conn[c].at = "open"
      BY <2>4 DEF Split!Disconnect
    <3>2. stage \notin {"start", "written", "judged"}
      BY <3>1 DEF RelayInv, EndFits
    <3> QED
      BY <1>1, <3>1, <3>2, StillConnected DEF Connected
  <2> QED
    BY <2>1, <2>2, <2>3, <2>4
<1>5. conn' \in [Connections -> Connected]
  BY <1>1, <1>4
<1>6. RelayTyped'
  BY <1>2, <1>3, <1>5 DEF RelayInv, RelayTyped
<1> QED
  BY <1>1, <1>2, <1>3, <1>4, <1>6

(* What relay() makes of a chunk *)
LEMMA ForwardedIs ==
  ASSUME NEW k \in Connected, NEW chunk \in Seq(Split!Pieces)
  PROVE  LET d == Split!Hear(k.daemon, chunk)
             forwarded == Split!Forwarded(k, chunk)
         IN  /\ forwarded \in Connected /\ forwarded.inbox = k.inbox /\ forwarded.parser = k.parser
             /\ forwarded.daemon.mode = d.mode /\ forwarded.daemon.sized = d.sized
             /\ forwarded.daemon.part = d.part /\ forwarded.daemon.kind = d.kind
             /\ forwarded.served = k.served \cup {d.serves[i]: i \in DOMAIN d.serves}
<1> DEFINE d == Split!Hear(k.daemon, chunk)
           daemon == [mode |-> d.mode, sized |-> d.sized, part |-> d.part, kind |-> d.kind]
<1>1. k.daemon \in DockerDaemons /\ k.served \in SUBSET Parts /\ k.owed \in Nat
  BY DEF Connected
<1>2. d \in Hearing
  BY <1>1, HearDoes
<1>3. daemon \in DockerDaemons
  BY <1>2 DEF DockerDaemons, Hearing
<1>4. d.serves \in Seq(Parts)
  BY <1>2 DEF Hearing
<1>5. k.served \cup {d.serves[i]: i \in DOMAIN d.serves} \in SUBSET Parts /\ k.owed + Len(d.serves) \in Nat
  BY <1>1, <1>4
<1>6. Split!Forwarded(k, chunk) = [k EXCEPT !.daemon = daemon,
                                            !.served = @ \cup {d.serves[i]: i \in DOMAIN d.serves},
                                            !.owed = @ + Len(d.serves)]
  BY DEF Split!Forwarded
<1> HIDE DEF d
<1>7. /\ Split!Forwarded(k, chunk).daemon = daemon
      /\ Split!Forwarded(k, chunk).served = k.served \cup {d.serves[i]: i \in DOMAIN d.serves}
      /\ Split!Forwarded(k, chunk).inbox = k.inbox /\ Split!Forwarded(k, chunk).parser = k.parser
  BY <1>6 DEF Connected
<1>8. Split!Forwarded(k, chunk) \in Connected
  BY <1>3, <1>5, <1>6 DEF Connected
<1> QED
  BY <1>7, <1>8 DEF d

(* What the daemon served while it heard a chunk                           *)
LEMMA ServedAre ==
  ASSUME NEW T, NEW s \in Seq(T)
  PROVE  {s[i]: i \in DOMAIN s} \subseteq T /\ (s = <<>> => {s[i]: i \in DOMAIN s} = {})
OBVIOUS

(* relay(): what it forwards leaves parser and daemon in step; a write is  *)
(* dropped, and its connection with it.                                    *)
LEMMA RelayKeeps ==
  ASSUME RelayInv, NEW c \in Connections, Split!Relay(c)
  PROVE  RelayInv'
<1> DEFINE k == conn[c]
           p == Split!Feed(k.parser, k.inbox)
           d == Split!Hear(k.daemon, k.inbox)
           dropped == p.raised = "write attempt"
           after == IF dropped THEN k ELSE Split!Forwarded(k, k.inbox)
           end == [after EXCEPT !.inbox = <<>>, !.parser = Split!ParserOf(p),
                                !.at = IF dropped THEN "closed" ELSE "open"]
<1>1. /\ counts \in Tallies /\ conn \in [Connections -> Connected] /\ k \in Connected
      /\ k.parser \in Parsers /\ k.daemon \in DockerDaemons /\ k.inbox \in Seq(Split!Pieces)
  BY DEF RelayInv, RelayTyped, Connected
<1>2. /\ k.at = "open" /\ conn' = [conn EXCEPT ![c] = end]
      /\ counts' = IF p.raised = "value error" THEN Split!Inc(p.counters, "parser") ELSE p.counters
      /\ UNCHANGED <<stage, stateFile, gate>>
  BY DEF Split!Relay
<1>3. p \in Feeding /\ (counts.request > 0 => p.counters.request > 0)
  BY <1>1, FeedDoes
<1>4. d \in Hearing
  BY <1>1, HearDoes
<1>5. /\ counts' \in Tallies /\ (counts.request > 0 => counts'.request > 0)
      /\ p.counters.request > 0 => counts'.request > 0
  <2>1. p.counters \in Tallies /\ "parser" \in DOMAIN Split!Zero
    BY <1>3 DEF Feeding, Split!Zero
  <2>2. /\ Split!Inc(p.counters, "parser") \in Tallies
        /\ p.counters.request > 0 => Split!Inc(p.counters, "parser").request > 0
    BY <2>1, IncDoes
  <2> QED
    BY <1>2, <1>3, <2>1, <2>2
<1>6. Split!ParserOf(p) \in Parsers
  BY <1>3 DEF Split!ParserOf, Feeding, Parsers
<1>7. LET forwarded == Split!Forwarded(k, k.inbox) IN
        /\ forwarded \in Connected
        /\ forwarded.daemon.mode = d.mode /\ forwarded.daemon.sized = d.sized
        /\ forwarded.daemon.part = d.part /\ forwarded.daemon.kind = d.kind
        /\ forwarded.served = k.served \cup {d.serves[i]: i \in DOMAIN d.serves}
  BY <1>1, ForwardedIs
<1>8. /\ end \in Connected /\ end.parser = Split!ParserOf(p)
      /\ end.at = IF dropped THEN "closed" ELSE "open"
      /\ end.served = after.served /\ end.daemon = after.daemon
  <2>1. after \in Connected
    BY <1>1, <1>7
  <2>2. end = [after EXCEPT !.inbox = <<>>, !.parser = Split!ParserOf(p),
                            !.at = IF dropped THEN "closed" ELSE "open"]
    OBVIOUS
  <2>3. <<>> \in Seq(Split!Pieces)
    OBVIOUS
  <2> HIDE DEF after, p, end
  <2>4. /\ end.parser = Split!ParserOf(p) /\ end.at = IF dropped THEN "closed" ELSE "open"
        /\ end.served = after.served /\ end.daemon = after.daemon
    BY <2>1, <2>2 DEF Connected
  <2>5. end \in Connected
    BY <1>6, <2>1, <2>2, <2>3 DEF Connected
  <2> QED
    BY <2>4, <2>5
<1>9. RelayTyped'
  BY <1>1, <1>2, <1>5, <1>8 DEF RelayInv, RelayTyped
<1>10. EndFits'
  <2>1. stage \notin {"start", "written", "judged"}
    BY <1>2 DEF RelayInv, EndFits
  <2>2. stateFile = {} /\ gate # "silent"
    BY <2>1 DEF RelayInv, EndFits
  <2> QED
    BY <1>2, <2>1, <2>2 DEF EndFits
<1>11. ASSUME NEW x \in Connections, x # c
       PROVE  ConnectionFits(x)'
  <2>1. conn'[x] = conn[x]
    BY <1>1, <1>2, <1>11
  <2>2. ConnectionFits(x)
    BY DEF RelayInv
  <2> QED
    BY <1>5, <2>1, <2>2, FitStays
<1>12. ConnectionFits(c)'
  <2>1. conn'[c] = end
    BY <1>1, <1>2
  <2>2. /\ k.served \subseteq {"read"} /\ (k.served # {} => counts.request > 0)
        /\ InStep(k.parser, k.daemon, counts)
    BY <1>2 DEF RelayInv, ConnectionFits
  <2>3. CASE dropped
    <3>1. end.served = k.served /\ end.at = "closed"
      BY <1>8, <2>3
    <3> QED
      BY <1>5, <2>1, <2>2, <3>1 DEF ConnectionFits
  <2>4. CASE ~dropped
    <3>1. /\ end.daemon.mode = d.mode /\ end.daemon.sized = d.sized
          /\ end.daemon.part = d.part /\ end.daemon.kind = d.kind
          /\ end.served = k.served \cup {d.serves[i]: i \in DOMAIN d.serves}
          /\ end.parser = Split!ParserOf(p)
      BY <1>7, <1>8, <2>4
    <3>2. CASE k.daemon.mode = "closed"
      <4>1. d.mode = "closed" /\ d.serves = <<>>
        BY <1>1, <3>2, HearDoes
      <4>2. end.daemon.mode = "closed" /\ end.served = k.served
        <5>1. {d.serves[i]: i \in DOMAIN d.serves} = {}
          BY <1>4, <4>1, ServedAre DEF Hearing
        <5> HIDE DEF d, end
        <5> QED
          BY <3>1, <4>1, <5>1
      <4> HIDE DEF end
      <4> QED
        BY <1>5, <2>1, <2>2, <4>2 DEF ConnectionFits, InStep
    <3>3. CASE SamePlace(k.parser, k.daemon) /\ ReadOnly(k.daemon, counts)
      <4>1. Together(p, d)
        BY <1>1, <3>3, ReadTogether
      <4>2. /\ d.serves \in Seq({"read"}) /\ (d.serves # <<>> => p.counters.request > 0)
            /\ \/ d.mode = "closed"
               \/ p.raised = "no" /\ SamePlace(p, d) /\ ReadOnly(d, p.counters)
        BY <2>4, <4>1 DEF Together
      <4>3. end.served \subseteq {"read"}
        <5>1. {d.serves[i]: i \in DOMAIN d.serves} \subseteq {"read"}
          BY <4>2, ServedAre
        <5> QED
          BY <2>2, <3>1, <5>1
      <4>4. end.served # {} => counts'.request > 0
        <5>1. d.serves = <<>> => end.served = k.served
          <6>1. d.serves = <<>> => {d.serves[i]: i \in DOMAIN d.serves} = {}
            BY <4>2, ServedAre
          <6> HIDE DEF d, end
          <6> QED
            BY <3>1, <6>1
        <5> QED
          BY <1>5, <2>2, <4>2, <5>1
      <4>5. InStep(end.parser, end.daemon, counts')
        <5>1. CASE d.mode = "closed"
          <6>1. end.daemon.mode = "closed"
            BY <3>1, <5>1
          <6> QED
            BY <6>1 DEF InStep
        <5>2. CASE p.raised = "no" /\ SamePlace(p, d) /\ ReadOnly(d, p.counters)
          <6>1. SamePlace(end.parser, end.daemon)
            <7>1. /\ end.parser.mode = p.mode /\ end.parser.sized = p.sized
                  /\ end.parser.part = p.part /\ end.parser.unread = p.unread
              <8> HIDE DEF p, end
              <8> QED
                BY <3>1 DEF Split!ParserOf
            <7> HIDE DEF p, d, end
            <7> QED
              BY <3>1, <5>2, <7>1 DEF SamePlace
          <6>2. ReadOnly(end.daemon, counts')
            <7> HIDE DEF p, d, end
            <7> QED
              BY <1>5, <3>1, <5>2 DEF ReadOnly
          <6> HIDE DEF p, d, end
          <6> QED
            BY <6>1, <6>2 DEF InStep
        <5> QED
          BY <4>2, <5>1, <5>2
      <4> HIDE DEF end
      <4> QED
        BY <2>1, <4>3, <4>4, <4>5 DEF ConnectionFits
    <3> QED
      BY <2>2, <3>2, <3>3 DEF InStep
  <2> QED
    BY <2>3, <2>4
<1> QED
  BY <1>9, <1>10, <1>11, <1>12 DEF RelayInv

(* The relay's end, and the shell's verdict on what it wrote               *)
LEMMA EndKeeps ==
  ASSUME RelayInv,
         \/ Split!StartRelay \/ Split!StopRelay \/ Split!RelayExits \/ Split!RelayKilled
         \/ Split!JudgeRelay
  PROVE  RelayInv'
<1>1. /\ counts \in Tallies /\ conn \in [Connections -> Connected] /\ stage \in Stages
      /\ "forwarding" \in DOMAIN Split!Zero
  BY DEF RelayInv, RelayTyped, Split!Zero
<1>2. /\ counts' \in Tallies /\ (counts.request > 0 => counts'.request > 0)
      /\ \/ UNCHANGED conn
         \/ conn' = [c \in Connections |-> [conn[c] EXCEPT !.at = "closed"]]
  <2>1. /\ Split!Inc(counts, "forwarding") \in Tallies
        /\ counts.request > 0 => Split!Inc(counts, "forwarding").request > 0
    BY <1>1, IncDoes
  <2>2. counts' \in {counts, Split!Inc(counts, "forwarding")}
    BY DEF Split!StartRelay, Split!StopRelay, Split!RelayExits, Split!RelayKilled, Split!JudgeRelay
  <2> QED
    BY <1>1, <2>1, <2>2 DEF Split!StartRelay, Split!StopRelay, Split!RelayExits, Split!RelayKilled,
       Split!JudgeRelay
<1>3. ASSUME NEW x \in Connections
      PROVE  /\ conn'[x] \in Connected /\ conn'[x].served = conn[x].served
             /\ conn'[x].parser = conn[x].parser /\ conn'[x].daemon = conn[x].daemon
             /\ conn[x].at = "closed" => conn'[x].at = "closed"
             /\ conn[x].at # "open" => conn'[x].at # "open"
  <2>1. conn[x] \in Connected
    BY <1>1
  <2>2. conn'[x] \in {conn[x], [conn[x] EXCEPT !.at = "closed"]}
    BY <1>2
  <2>3. CASE conn'[x] = conn[x]
    BY <2>1, <2>3
  <2>4. CASE conn'[x] = [conn[x] EXCEPT !.at = "closed"]
    <3>1. conn'[x] \in Connected
      BY <2>1, <2>4, StillConnected
    <3> QED
      BY <2>1, <2>4, <3>1 DEF Connected
  <2> QED
    BY <2>2, <2>3, <2>4
<1>4. conn' \in [Connections -> Connected]
  BY <1>1, <1>2, <1>3
<1>5. RelayTyped'
  <2>1. stage' \in Stages
    BY DEF Split!StartRelay, Split!StopRelay, Split!RelayExits, Split!RelayKilled, Split!JudgeRelay,
       Stages
  <2> QED
    BY <1>2, <1>4, <2>1 DEF RelayTyped
<1>6. EndFits'
  <2>1. CASE Split!StartRelay
    <3>1. stateFile = {} /\ gate # "silent"
      BY <2>1 DEF Split!StartRelay, RelayInv, EndFits
    <3> QED
      BY <2>1, <3>1 DEF Split!StartRelay, RelayInv, EndFits
  <2>2. CASE Split!StopRelay
    BY <2>2 DEF Split!StopRelay, RelayInv, EndFits
  <2>3. CASE Split!RelayExits
    <3>1. /\ stateFile' = {counts'} /\ stage' = "written" /\ gate' # "silent"
          /\ conn' = [c \in Connections |-> [conn[c] EXCEPT !.at = "closed"]]
      BY <2>3 DEF Split!RelayExits, RelayInv, EndFits
    <3>2. \A c \in Connections: conn'[c].at # "open"
      BY <1>1, <3>1 DEF Connected
    <3> QED
      BY <3>1, <3>2 DEF EndFits
  <2>4. CASE Split!RelayKilled
    <3>1. /\ stateFile' = {} /\ stage' = "written" /\ gate' # "silent"
          /\ conn' = [c \in Connections |-> [conn[c] EXCEPT !.at = "closed"]]
      BY <2>4 DEF Split!RelayKilled, RelayInv, EndFits
    <3>2. \A c \in Connections: conn'[c].at # "open"
      BY <1>1, <3>1 DEF Connected
    <3> QED
      BY <3>1, <3>2 DEF EndFits
  <2>5. CASE Split!JudgeRelay
    <3>1. /\ stage = "written" /\ stage' = "judged" /\ UNCHANGED <<conn, counts, stateFile>>
          /\ stateFile \subseteq {counts} /\ \A c \in Connections: conn[c].at # "open"
      BY <2>5 DEF Split!JudgeRelay, RelayInv, EndFits
    <3>2. ASSUME gate' = "silent"
          PROVE  counts.request = 0
      <4> DEFINE r == CHOOSE x \in stateFile: TRUE
      <4>1. /\ stateFile # {}
            /\ \A counter \in {"request", "response", "write", "forwarding", "parser"}: r[counter] = 0
        BY <2>5, <3>2 DEF Split!JudgeRelay
      <4>2. r = counts
        BY <3>1, <4>1
      <4> QED
        BY <4>1, <4>2
    <3> QED
      BY <3>1, <3>2 DEF EndFits
  <2> QED
    BY <2>1, <2>2, <2>3, <2>4, <2>5
<1>7. ASSUME NEW x \in Connections
      PROVE  ConnectionFits(x)'
  <2>1. ConnectionFits(x)
    BY DEF RelayInv
  <2> QED
    BY <1>2, <1>3, <2>1, FitStays
<1> QED
  BY <1>5, <1>6, <1>7 DEF RelayInv

(* The invariant holds before the relay starts. *)
LEMMA RelayInitially ==
  ASSUME Split!RelayInit
  PROVE  RelayInv
<1>1. Split!Fresh \in Connected
  <2>1. MaxPieces \in Nat
    BY ModesAssumption
  <2> QED
    BY <2>1 DEF Split!Fresh, Connected, Parsers, DockerDaemons, Parts
<1>2. RelayTyped
  BY <1>1 DEF Split!RelayInit, RelayTyped, Stages, Tallies, Split!Zero
<1>3. EndFits
  BY DEF Split!RelayInit, EndFits, Split!Fresh
<1>4. \A c \in Connections: ConnectionFits(c)
  BY DEF Split!RelayInit, ConnectionFits, InStep, SamePlace, ReadOnly, Split!Fresh
<1> QED
  BY <1>2, <1>3, <1>4 DEF RelayInv

(* The invariant of the relay is inductive. *)
LEMMA RelayStep ==
  ASSUME RelayInv, [Split!RelayNext]_relayVars
  PROVE  RelayInv'
<1>1. CASE UNCHANGED relayVars
  BY <1>1 DEF relayVars, RelayInv, RelayTyped, EndFits, ConnectionFits, InStep, SamePlace, ReadOnly
<1>2. ASSUME NEW c \in Connections,
             Split!Accept(c) \/ Split!ClientSends(c) \/ Split!RelayResponse(c) \/ Split!Disconnect(c)
      PROVE  RelayInv'
  <2>1. /\ RelayTyped' /\ (counts.request > 0 => counts'.request > 0)
        /\ UNCHANGED <<stage, stateFile, gate>>
        /\ stage \in {"start", "written", "judged"} => UNCHANGED <<conn, counts>>
        /\ \A x \in Connections: /\ conn'[x].served = conn[x].served
                                 /\ conn'[x].parser = conn[x].parser
                                 /\ conn'[x].daemon = conn[x].daemon
                                 /\ conn[x].at = "closed" => conn'[x].at = "closed"
    BY <1>2, ReadingRests
  <2>2. EndFits'
    BY <2>1 DEF RelayInv, EndFits
  <2>3. ASSUME NEW x \in Connections
        PROVE  ConnectionFits(x)'
    <3>1. ConnectionFits(x)
      BY DEF RelayInv
    <3> QED
      BY <2>1, <3>1, FitStays
  <2> QED
    BY <2>1, <2>2, <2>3 DEF RelayInv
<1> QED
  BY <1>1, <1>2, RelayKeeps, EndKeeps DEF Split!RelayNext

-----------------------------------------------------------------------------
(* The three diagnostics together *)

(* A step of one diagnostic leaves the variables of the others alone. *)
LEMMA StepsAreSeparate ==
  ASSUME [ModesNext]_modesVars
  PROVE  /\ [Next]_vars /\ [DirectPort!DirectNext]_directVars /\ [Split!RelayNext]_relayVars
BY DEF ModesNext, PrivateProbeRuns, DirectProbeRuns, SplitRuns, modesVars, privateVars, directVars,
   relayVars, vars

(* The modes implement the private probe: whatever mode runs, the probe's  *)
(* variables start and move as run_private_docker_netns_probe has them, so *)
(* that what is proved of the probe alone holds in the script's modes.     *)
THEOREM PrivateProbeImplemented == ModesSpec => Spec
<1>1. ModesInit => Init
  BY DEF ModesInit
<1>2. [ModesNext]_modesVars => [Next]_vars
  BY StepsAreSeparate
<1> QED
  BY <1>1, <1>2, PTL DEF ModesSpec, Spec

(* LatchedBeforeMade: what the private daemon holds, or may yet come to    *)
(* hold, is owed to the cleanup.                                           *)
THEOREM ModesLatch == ModesSpec => []LatchedBeforeMade
BY PrivateProbeImplemented, MadeIsLatched, PTL

(* ForeignIsKept: what was at the packet's paths before the probe stays.   *)
THEOREM ModesKeepForeign == ModesSpec => ForeignIsKept
BY PrivateProbeImplemented, ForeignStays

(* ReceiptIsAdmitted: every way run_probe ends leaves a receipt that its   *)
(* own validate_receipt admits.                                            *)
THEOREM ModesAdmitReceipt == ModesSpec => []ReceiptIsAdmitted
BY PrivateProbeImplemented, ReceiptAdmitted, PTL

(* ProofIsReal: a proven cleanup, and a pass of the shell, mean that       *)
(* nothing is left on the host.                                            *)
THEOREM ModesProofReal == ModesSpec => []ProofIsReal
BY PrivateProbeImplemented, ProofReal, PTL

(* The direct probe's invariant holds in every mode.                       *)
LEMMA DirectPart == ModesSpec => []DirectInv
<1>1. ModesInit => DirectInv
  BY DirectInitially DEF ModesInit
<1>2. DirectInv /\ [ModesNext]_modesVars => DirectInv'
  BY StepsAreSeparate, DirectStep
<1> QED
  BY <1>1, <1>2, PTL DEF ModesSpec

(* DirectPassIsSound: a PASS of the direct probe rests on a container seen *)
(* healthy, throughout, for as long as direct_port_probe.py waits, and     *)
(* bound to the loopback address as the shell asked.                       *)
THEOREM DirectPassSound == ModesSpec => []DirectPassIsSound
<1>1. DirectInv => DirectPassIsSound
  BY DEF DirectInv, OutcomeFits, DirectPassIsSound
<1> QED
  BY <1>1, DirectPart, PTL

(* DirectFailureIsNamed: no diagnostic of direct_port_probe.py is one that *)
(* its own validator throws out.                                           *)
THEOREM DirectFailureNamed == ModesSpec => []DirectFailureIsNamed
<1>1. DirectInv => DirectFailureIsNamed
  BY DEF DirectInv, OutcomeFits, DirectFailureIsNamed
<1> QED
  BY <1>1, DirectPart, PTL

(* The relay's invariant holds in every mode.                              *)
LEMMA RelayPart == ModesSpec => []RelayInv
<1>1. ModesInit => RelayInv
  BY RelayInitially DEF ModesInit
<1>2. RelayInv /\ [ModesNext]_modesVars => RelayInv'
  BY StepsAreSeparate, RelayStep
<1> QED
  BY <1>1, <1>2, PTL DEF ModesSpec

(* WritesAreHeld: for any number of connections and however long and       *)
(* however cut what the clients send over them, docker_api_boundary.py     *)
(* lets no request through to the daemon that changes anything.            *)
THEOREM WritesHeld == ModesSpec => []WritesAreHeld
<1>1. RelayInv => WritesAreHeld
  BY DEF RelayInv, ConnectionFits, WritesAreHeld, Split!WritesAreHeld
<1> QED
  BY <1>1, RelayPart, PTL

(* SilenceIsReal: run_loadconfig_services_split finds the CLI silent only  *)
(* if the daemon has served nothing.                                       *)
THEOREM SilenceReal == ModesSpec => []SilenceIsReal
<1>1. RelayInv => SilenceIsReal
  <2>1. RelayInv => \A c \in Connections: conn[c].served # {} => counts.request > 0
    BY DEF RelayInv, ConnectionFits
  <2>2. RelayInv => (gate = "silent" => counts.request = 0)
    BY DEF RelayInv, EndFits
  <2> QED
    BY <2>1, <2>2 DEF SilenceIsReal, Split!SilenceIsReal
<1> QED
  BY <1>1, RelayPart, PTL

(* ModesTypeOK: every variable of the three diagnostics keeps to its type. *)
THEOREM ModesTypeCorrect == ModesSpec => []ModesTypeOK
<1>1. DirectInv => DirectPort!DirectTypeOK
  BY DEF DirectInv, TimesTyped, AnswerTyped, Envelopes, DirectPort!DirectTypeOK
<1>2. RelayInv => Split!RelayTypeOK
  <2>1. ASSUME RelayInv, NEW c \in Connections
        PROVE  /\ conn[c].at \in {"new", "open", "closed"} /\ conn[c].left \in 0..MaxPieces
               /\ conn[c].served \subseteq {"read", "write"}
    <3>1. conn[c] \in Connected /\ conn[c].served \subseteq {"read"}
      BY <2>1 DEF RelayInv, RelayTyped, ConnectionFits
    <3> QED
      BY <3>1 DEF Connected
  <2> QED
    BY <2>1 DEF RelayInv, RelayTyped, EndFits, Stages, Tallies, Split!RelayTypeOK
<1>3. ModesSpec => []TypeOK
  BY PrivateProbeImplemented, TypeCorrect, PTL
<1>4. TypeOK /\ DirectPort!DirectTypeOK /\ Split!RelayTypeOK => ModesTypeOK
  BY DEF ModesTypeOK
<1> QED
  BY <1>1, <1>2, <1>3, <1>4, DirectPart, RelayPart, PTL

=============================================================================
