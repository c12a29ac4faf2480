--------------------------- MODULE RunExecutor_proofs ---------------------------
(***************************************************************************)
(* Proofs about an agent run, for any loop limits and budgets.             *)
(*                                                                         *)
(* First the run itself (OrchestraRun) under any caller: its loops are     *)
(* bounded and what the owner approves is current.  The two parts of the   *)
(* inductive invariant say, stage by stage, how often each agent has been  *)
(* asked and how far the chain of artifacts in force reaches.              *)
(*                                                                         *)
(* Then the executor: it is one of these callers, and its log tells the    *)
(* run through failures and deaths.  The inductive invariant says how far  *)
(* the log is ahead of the run at each step, and which lineage the events  *)
(* carry.                                                                  *)
(***************************************************************************)
EXTENDS RunExecutor, TLAPS, FiniteSetTheorems, WellFoundedInduction

(* The agents whose stage is behind have been asked once per loop that led *)
(* through them, those ahead once less.                                    *)
CountsPerStage ==
    /\ run.refinements <= run.limits.scout /\ run.revisions <= run.limits.writer
    /\ SpecialistInvocations(run) <= run.limits.total
    /\ run.exact => run.refinements = 0
    /\ run.counts["orchestrator"] = IF run.cursor = "intake" THEN 0 ELSE 1
    /\ run.counts["scout"] <= run.refinements + 1
    /\ run.cursor \in {"intake", "discovery"} => run.counts["scout"] = run.refinements
    /\ run.cursor = "verification" => run.counts["scout"] = run.refinements + 1
    /\ run.counts["verifier"] =
           IF run.cursor \in {"intake", "discovery", "verification"}
           THEN run.refinements ELSE run.refinements + 1
    /\ run.cursor \in {"intake", "discovery", "verification", "strategy"} =>
           /\ run.revisions = 0
           /\ run.counts["strategist"] = 0 /\ run.counts["writer"] = 0
           /\ run.counts["guardian"] = 0
    /\ run.cursor \in {"drafting", "review"} => run.counts["guardian"] = run.revisions
    /\ run.cursor = "drafting" => run.counts["writer"] = run.revisions
    /\ run.cursor = "review" => run.counts["writer"] = run.revisions + 1
    /\ run.counts["strategist"] <= 1
    /\ run.counts["writer"] <= run.revisions + 1
    /\ run.counts["guardian"] <= run.revisions + 1

-----------------------------------------------------------------------------
(* How far the artifacts in force follow one another.                      *)
Discovered ==
    /\ 0 < Made("orchestrator")
    /\ ~run.exact => Made("orchestrator") < Made("scout")

Evident ==
    /\ Discovered
    /\ run.artifacts["verifier"].verdict = "resolved"
    /\ Made("orchestrator") < Made("verifier")
    /\ ~run.exact => Made("scout") < Made("verifier")

Briefed == Evident /\ Made("verifier") < Made("strategist")

Drafted == Briefed /\ Made("strategist") < Made("writer")

Passed ==
    /\ Drafted /\ Made("writer") < Made("guardian")
    /\ run.artifacts["guardian"].verdict = "pass"

ChainPerStage ==
    /\ \A agent \in Agent : Made(agent) <= run.made
    /\ run.cursor # "intake" => 0 < Made("orchestrator")
    /\ CurrentStage(run) = "verification" => Discovered
    /\ run.cursor = "strategy" => Evident
    /\ run.cursor = "drafting" => Briefed
    /\ run.cursor = "review" => Drafted
    /\ run.cursor = "human_approval" /\ run.artifacts["guardian"].verdict = "pass" => Passed
    /\ run.cursor \in {"local_queue", "end"} => Passed
    /\ run.cursor \in {"intake", "discovery", "verification", "strategy"} =>
           run.artifacts["guardian"].verdict = "none"
    /\ run.decision = "approved" => run.cursor \in {"local_queue", "end"}

-----------------------------------------------------------------------------
(* The four ways an artifact moves a run on.                               *)
Goes(agent, verdict) == run' = Accepted(run, agent, verdict)

Blocks == run' = [Accepted(run, "guardian", "block") EXCEPT !.status = "blocked"]

Unresolved == run' = RouteUnresolved(Accepted(run, "verifier", "unresolved"))

Revised == run' = RouteRevise(Accepted(run, "guardian", "revise"))

Submits(agent, verdict) ==
    /\ SubmitAllowed(run, agent)
    /\ \/ agent = "verifier" /\ verdict = "unresolved" /\ Unresolved
       \/ agent = "guardian" /\ verdict = "revise" /\ Revised
       \/ agent = "guardian" /\ verdict = "block" /\ Blocks
       \/ /\ agent = "verifier" => verdict = "resolved"
          /\ agent = "guardian" => verdict = "pass"
          /\ Goes(agent, verdict)

(* A submission is one of the four, made at the stage of its agent.        *)
LEMMA SubmissionCases ==
    ASSUME SubmitAgentArtifact
    PROVE  \E agent \in Agent : \E verdict \in Verdict(agent) : Submits(agent, verdict)
  <1>1. PICK agent \in Agent : \E verdict \in Verdict(agent) :
            SubmitAllowed(run, agent) /\ run' = Submitted(run, agent, verdict)
    BY DEF SubmitAgentArtifact
  <1>2. PICK verdict \in Verdict(agent) :
            SubmitAllowed(run, agent) /\ run' = Submitted(run, agent, verdict)
    BY <1>1
  <1>3. CASE agent = "verifier" /\ verdict = "unresolved"
    BY <1>2, <1>3 DEF Submitted, Submits, Unresolved
  <1>4. CASE agent = "guardian" /\ verdict = "revise"
    BY <1>2, <1>4 DEF Submitted, Submits, Revised
  <1>5. CASE agent = "guardian" /\ verdict = "block"
    BY <1>2, <1>5 DEF Submitted, Submits, Blocks
  <1>6. CASE /\ agent = "verifier" => verdict = "resolved"
             /\ agent = "guardian" => verdict = "pass"
    BY <1>2, <1>6 DEF Submitted, Submits, Goes
  <1>7. QED
    BY <1>2, <1>3, <1>4, <1>5, <1>6 DEF Verdict

-----------------------------------------------------------------------------
(* The stage of an agent, and the next one, are stages.                    *)
LEMMA StageOfAgent ==
    ASSUME RunTypeOK, NEW agent \in Agent, AssignedTo[CurrentStage(run)] = agent
    PROVE  /\ CurrentStage(run) \in DOMAIN After
           /\ After[CurrentStage(run)] \in StageId
  BY DEF RunTypeOK, RunRecord, CurrentStage, StageId, AssignedTo, After, Agent

(* The fields of the run that an accepted artifact leaves.                 *)
LEMMA AcceptedFields ==
    ASSUME RunTypeOK, NEW agent \in Agent, NEW verdict
    PROVE  Accepted(run, agent, verdict) =
               [limits |-> run.limits, exact |-> run.exact, status |-> "running",
                cursor |-> After[CurrentStage(run)], made |-> run.made + 1,
                artifacts |-> [run.artifacts EXCEPT
                                 ![agent] = [made |-> run.made + 1, verdict |-> verdict]],
                counts |-> [run.counts EXCEPT ![agent] = @ + 1],
                refinements |-> run.refinements, revisions |-> run.revisions,
                decision |-> run.decision]
  <1>1. Accepted(run, agent, verdict) =
            [run EXCEPT !.artifacts = [run.artifacts EXCEPT
                                         ![agent] = [made |-> run.made + 1, verdict |-> verdict]],
                        !.made = run.made + 1,
                        !.counts = [run.counts EXCEPT ![agent] = @ + 1],
                        !.cursor = After[CurrentStage(run)], !.status = "running"]
    BY DEF Accepted
  <1>2. QED
    BY <1>1 DEF RunTypeOK, RunRecord

(* An accepted artifact leaves a well-typed run.                           *)
LEMMA AcceptedType ==
    ASSUME RunTypeOK, NEW agent \in Agent, NEW verdict \in Verdict(agent),
           SubmitAllowed(run, agent)
    PROVE  Accepted(run, agent, verdict) \in RunRecord
  <1> DEFINE artifacts == [run.artifacts EXCEPT
                             ![agent] = [made |-> run.made + 1, verdict |-> verdict]]
             counts == [run.counts EXCEPT ![agent] = @ + 1]
             stage == After[CurrentStage(run)]
  <1>1. stage \in StageId
    BY StageOfAgent DEF SubmitAllowed
  <1>2. artifacts \in [Agent -> Artifact]
    <2>1. [made |-> run.made + 1, verdict |-> verdict] \in Artifact
      BY DEF RunTypeOK, RunRecord, Artifact, Verdict
    <2>2. QED
      BY <2>1 DEF RunTypeOK, RunRecord
  <1>3. counts \in [Agent -> Nat]
    BY DEF RunTypeOK, RunRecord
  <1>4. Accepted(run, agent, verdict) =
            [limits |-> run.limits, exact |-> run.exact, status |-> "running",
             cursor |-> stage, made |-> run.made + 1, artifacts |-> artifacts,
             counts |-> counts, refinements |-> run.refinements,
             revisions |-> run.revisions, decision |-> run.decision]
    BY AcceptedFields
  <1> HIDE DEF artifacts, counts, stage
  <1>5. QED
    BY <1>1, <1>2, <1>3, <1>4 DEF RunTypeOK, RunRecord, Status

(* The two routes back keep it well typed.                                 *)
LEMMA RoutedType ==
    ASSUME NEW x \in RunRecord
    PROVE  RouteUnresolved(x) \in RunRecord /\ RouteRevise(x) \in RunRecord
  <1>1. x.refinements + 1 \in Nat /\ x.revisions + 1 \in Nat
    BY DEF RunRecord
  <1>2. [x EXCEPT !.refinements = @ + 1, !.cursor = "discovery",
                  !.status = "refinement_requested"] \in RunRecord
    BY <1>1 DEF RunRecord, Status, StageId, AssignedTo
  <1>3. [x EXCEPT !.cursor = "human_approval", !.status = "needs_human_decision"] \in RunRecord
    BY DEF RunRecord, Status, StageId, AssignedTo
  <1>4. [x EXCEPT !.revisions = @ + 1, !.cursor = "drafting",
                  !.status = "revision_requested"] \in RunRecord
    BY <1>1 DEF RunRecord, Status, StageId, AssignedTo
  <1>5. [x EXCEPT !.status = "needs_human_decision"] \in RunRecord
    BY DEF RunRecord, Status
  <1>6. QED
    BY <1>2, <1>3, <1>4, <1>5 DEF RouteUnresolved, RouteRevise

(* Every step leaves a well-typed run.                                     *)
LEMMA TypeStep == RunTypeOK /\ [Next]_run => RunTypeOK'
  <1> SUFFICES ASSUME RunTypeOK, [Next]_run PROVE RunTypeOK'
    OBVIOUS
  <1>1. CASE SubmitAgentArtifact
    <2>a. PICK agent \in Agent : \E verdict \in Verdict(agent) : Submits(agent, verdict)
      BY <1>1, SubmissionCases
    <2>1. PICK verdict \in Verdict(agent) : Submits(agent, verdict)
      BY <2>a
    <2>2. Accepted(run, agent, verdict) \in RunRecord
      BY <2>1, AcceptedType DEF Submits
    <2>3. CASE agent = "guardian" /\ verdict = "block" /\ Blocks
      BY <2>2, <2>3 DEF Blocks, RunTypeOK, RunRecord, Status
    <2>4. QED
      BY <2>1, <2>2, <2>3, RoutedType DEF Submits, Unresolved, Revised, Goes, RunTypeOK
  <1>2. CASE RecordHumanDecision
    <2>1. PICK decision \in Decision : run' = Decided(run, decision)
      BY <1>2 DEF RecordHumanDecision
    <2>2. [run EXCEPT !.decision = decision, !.cursor = "local_queue",
                      !.status = "approved_for_local_queue"] \in RunRecord
      BY DEF RunTypeOK, RunRecord, Status, StageId, AssignedTo
    <2>3. decision # "approved" =>
              [run EXCEPT !.decision = decision, !.status = decision] \in RunRecord
      BY DEF Decision, RunTypeOK, RunRecord, Status
    <2>4. QED
      BY <2>1, <2>2, <2>3 DEF Decided, RunTypeOK
  <1>3. CASE CompleteLocalQueue
    BY <1>3 DEF CompleteLocalQueue, Queued, RunTypeOK, RunRecord, Status, StageId, AssignedTo
  <1>4. CASE UNCHANGED run
    BY <1>4 DEF RunTypeOK
  <1>5. QED
    BY <1>1, <1>2, <1>3, <1>4 DEF Next

LEMMA TypeInit == Init => RunTypeOK
  BY LimitsAssumption
  DEF Init, CreateRunState, RunTypeOK, RunRecord, Status, StageId, AssignedTo, Artifact,
      NoArtifact

(* A run always has the shape the functions of orchestrator.mjs expect.    *)
THEOREM TypeCorrect == Spec => []RunTypeOK
  BY TypeInit, TypeStep, PTL DEF Spec

-----------------------------------------------------------------------------
(* What a submission does to the fields the invariants speak of.           *)
Kept == run'.limits = run.limits /\ run'.exact = run.exact

NoLoop == run'.refinements = run.refinements /\ run'.revisions = run.revisions

Refines ==
    /\ ~run.exact /\ run.refinements < run.limits.scout
    /\ run'.refinements = run.refinements + 1 /\ run'.revisions = run.revisions
    /\ run'.cursor = "discovery"

Revises ==
    /\ run.revisions < run.limits.writer
    /\ run'.revisions = run.revisions + 1 /\ run'.refinements = run.refinements
    /\ run'.cursor = "drafting"

Escalates == NoLoop /\ run'.cursor = "human_approval"

Advances == NoLoop /\ run'.cursor = After[CurrentStage(run)]

LEMMA SubmissionFields ==
    ASSUME RunTypeOK, NEW agent \in Agent, NEW verdict \in Verdict(agent),
           Submits(agent, verdict)
    PROVE  /\ Kept /\ run'.decision = run.decision /\ run'.made = run.made + 1
           /\ run'.artifacts = [run.artifacts EXCEPT
                                  ![agent] = [made |-> run.made + 1, verdict |-> verdict]]
           /\ run'.counts = [run.counts EXCEPT ![agent] = @ + 1]
           /\ \/ agent = "verifier" /\ verdict = "unresolved" /\ (Refines \/ Escalates)
              \/ agent = "guardian" /\ verdict = "revise" /\ (Revises \/ Escalates)
              \/ agent = "guardian" /\ verdict = "block" /\ Escalates
              \/ /\ agent = "verifier" => verdict = "resolved"
                 /\ agent = "guardian" => verdict = "pass"
                 /\ Advances
  <1> DEFINE artifacts == [run.artifacts EXCEPT
                             ![agent] = [made |-> run.made + 1, verdict |-> verdict]]
             counts == [run.counts EXCEPT ![agent] = @ + 1]
             stage == After[CurrentStage(run)]
             x == Accepted(run, agent, verdict)
  <1>1. x = [limits |-> run.limits, exact |-> run.exact, status |-> "running",
             cursor |-> stage, made |-> run.made + 1, artifacts |-> artifacts,
             counts |-> counts, refinements |-> run.refinements,
             revisions |-> run.revisions, decision |-> run.decision]
    BY AcceptedFields
  <1>2. agent = "guardian" => stage = "human_approval"
    BY DEF Submits, SubmitAllowed, RunTypeOK, RunRecord, CurrentStage, StageId, AssignedTo, After
  <1> HIDE DEF artifacts, counts, stage, x
  <1>3. CASE agent = "verifier" /\ verdict = "unresolved" /\ Unresolved
    <2>1. run' = RouteUnresolved(x)
      BY <1>3 DEF Unresolved, x
    <2>2. QED
      BY <1>1, <1>3, <2>1
      DEF RouteUnresolved, Kept, NoLoop, Refines, Escalates, artifacts, counts
  <1>4. CASE agent = "guardian" /\ verdict = "revise" /\ Revised
    <2>1. run' = RouteRevise(x)
      BY <1>4 DEF Revised, x
    <2>2. CASE run.revisions < run.limits.writer
      BY <1>1, <1>4, <2>1, <2>2
      DEF RouteRevise, RunTypeOK, RunRecord, Kept, Revises, artifacts, counts
    <2>3. CASE ~(run.revisions < run.limits.writer)
      BY <1>1, <1>2, <1>4, <2>1, <2>3
      DEF RouteRevise, RunTypeOK, RunRecord, Kept, NoLoop, Escalates, artifacts, counts
    <2>4. QED
      BY <2>2, <2>3, <1>4
  <1>5. CASE agent = "guardian" /\ verdict = "block" /\ Blocks
    <2>1. run' = [x EXCEPT !.status = "blocked"]
      BY <1>5 DEF Blocks, x
    <2>2. QED
      BY <1>1, <1>2, <1>5, <2>1 DEF Kept, NoLoop, Escalates, artifacts, counts
  <1>6. CASE /\ agent = "verifier" => verdict = "resolved"
             /\ agent = "guardian" => verdict = "pass"
             /\ Goes(agent, verdict)
    <2>1. run' = x
      BY <1>6 DEF Goes, x
    <2>2. QED
      BY <1>1, <1>6, <2>1 DEF Kept, NoLoop, Advances, artifacts, counts, stage
  <1>7. QED
    BY <1>3, <1>4, <1>5, <1>6 DEF Submits

(* The stage at which each agent may submit.                               *)
LEMMA StageFacts ==
    ASSUME RunTypeOK, NEW agent \in Agent, SubmitAllowed(run, agent)
    PROVE  /\ agent = "orchestrator" => run.cursor = "intake"
           /\ agent = "scout" => run.cursor = "discovery" /\ ~run.exact
           /\ agent = "verifier" => \/ run.cursor = "verification"
                                    \/ run.cursor = "discovery" /\ run.exact
           /\ agent = "strategist" => run.cursor = "strategy"
           /\ agent = "writer" => run.cursor = "drafting"
           /\ agent = "guardian" => run.cursor = "review"
           /\ CurrentStage(run) \in {"intake", "discovery", "verification", "strategy",
                                     "drafting", "review"}
           /\ agent = "verifier" => CurrentStage(run) = "verification"
           /\ agent # "verifier" => CurrentStage(run) = run.cursor
  BY DEF RunTypeOK, RunRecord, SubmitAllowed, CurrentStage, StageId, AssignedTo, Agent

(* The decision and the queue leave counts, loops and artifacts alone.     *)
LEMMA OwnerFields ==
    ASSUME RunTypeOK, RecordHumanDecision \/ CompleteLocalQueue
    PROVE  /\ Kept /\ NoLoop
           /\ run'.counts = run.counts /\ run'.artifacts = run.artifacts /\ run'.made = run.made
           /\ \/ /\ run.cursor = "human_approval" /\ run'.cursor = "human_approval"
                 /\ run'.decision # "approved"
              \/ /\ run.cursor = "human_approval" /\ run'.cursor = "local_queue"
                 /\ run.artifacts["guardian"].verdict = "pass"
              \/ /\ run.cursor = "local_queue" /\ run'.cursor = "end"
                 /\ run'.decision = run.decision
  <1>1. CASE RecordHumanDecision
    <2>1. PICK decision \in Decision :
              DecisionAllowed(run, decision) /\ run' = Decided(run, decision)
      BY <1>1 DEF RecordHumanDecision
    <2>2. run.cursor = "human_approval"
      BY <2>1 DEF DecisionAllowed, CurrentStage
    <2>3. CASE decision = "approved"
      BY <2>1, <2>2, <2>3
      DEF DecisionAllowed, Decided, RunTypeOK, RunRecord, Kept, NoLoop
    <2>4. CASE decision # "approved"
      BY <2>1, <2>2, <2>4 DEF Decided, RunTypeOK, RunRecord, Kept, NoLoop
    <2>5. QED
      BY <2>3, <2>4
  <1>2. CASE CompleteLocalQueue
    BY <1>2 DEF CompleteLocalQueue, QueueAllowed, Queued, CurrentStage, RunTypeOK, RunRecord,
                Kept, NoLoop
  <1>3. QED
    BY <1>1, <1>2

-----------------------------------------------------------------------------
(* The loops                                                               *)

LEMMA CountsInit == Init => CountsPerStage
  BY LimitsAssumption
  DEF Init, CreateRunState, CountsPerStage, SpecialistInvocations, Agent

(* A submission within the total counts one specialist more.               *)
LEMMA CountsStep == RunTypeOK /\ CountsPerStage /\ [Next]_run => CountsPerStage'
  <1> SUFFICES ASSUME RunTypeOK, CountsPerStage, [Next]_run PROVE CountsPerStage'
    OBVIOUS
  <1>1. CASE SubmitAgentArtifact
    <2>1. PICK agent \in Agent : \E verdict \in Verdict(agent) : Submits(agent, verdict)
      BY <1>1, SubmissionCases
    <2>2. PICK verdict \in Verdict(agent) : Submits(agent, verdict)
      BY <2>1
    <2>3. /\ Kept
          /\ run'.counts = [run.counts EXCEPT ![agent] = @ + 1]
          /\ \/ agent = "verifier" /\ (Refines \/ Escalates)
             \/ agent = "guardian" /\ (Revises \/ Escalates)
             \/ Advances
      BY <2>2, SubmissionFields
    <2>4. SubmitAllowed(run, agent)
      BY <2>2 DEF Submits
    <2>5. /\ run.counts \in [Agent -> Nat] /\ run.refinements \in Nat /\ run.revisions \in Nat
          /\ run.limits.total \in Nat /\ run.limits.scout \in Nat /\ run.limits.writer \in Nat
      BY DEF RunTypeOK, RunRecord
    <2>6. \A a \in Agent : run'.counts[a] = IF a = agent THEN run.counts[a] + 1 ELSE run.counts[a]
      BY <2>3, <2>5
    <2>7. SpecialistInvocations(run') <= run'.limits.total
      BY <2>3, <2>4, <2>5, <2>6
      DEF CountsPerStage, SpecialistInvocations, Kept, Agent, SubmitAllowed
    <2>8. CASE agent = "orchestrator"
      BY <2>3, <2>4, <2>5, <2>6, <2>7, <2>8, StageFacts
      DEF CountsPerStage, Kept, NoLoop, Advances, After, Agent
    <2>9. CASE agent = "scout"
      BY <2>3, <2>4, <2>5, <2>6, <2>7, <2>9, StageFacts
      DEF CountsPerStage, Kept, NoLoop, Advances, After, Agent
    <2>10. CASE agent = "verifier"
      BY <2>3, <2>4, <2>5, <2>6, <2>7, <2>10, StageFacts
      DEF CountsPerStage, Kept, NoLoop, Advances, Refines, Escalates, After, Agent
    <2>11. CASE agent = "strategist"
      BY <2>3, <2>4, <2>5, <2>6, <2>7, <2>11, StageFacts
      DEF CountsPerStage, Kept, NoLoop, Advances, After, Agent
    <2>12. CASE agent = "writer"
      BY <2>3, <2>4, <2>5, <2>6, <2>7, <2>12, StageFacts
      DEF CountsPerStage, Kept, NoLoop, Advances, After, Agent
    <2>13. CASE agent = "guardian"
      BY <2>3, <2>4, <2>5, <2>6, <2>7, <2>13, StageFacts
      DEF CountsPerStage, Kept, NoLoop, Advances, Revises, Escalates, After, Agent
    <2>14. QED
      BY <2>8, <2>9, <2>10, <2>11, <2>12, <2>13 DEF Agent
  <1>2. CASE RecordHumanDecision \/ CompleteLocalQueue
    BY <1>2, OwnerFields DEF CountsPerStage, SpecialistInvocations, Kept, NoLoop
  <1>3. CASE UNCHANGED run
    BY <1>3 DEF CountsPerStage, SpecialistInvocations
  <1>4. QED
    BY <1>1, <1>2, <1>3 DEF Next

(* For any limits a plan may have, no agent is asked beyond its loops.     *)
THEOREM LoopsStayBounded == Spec => []LoopsAreBounded
  <1>1. RunTypeOK /\ CountsPerStage => LoopsAreBounded
    BY DEF RunTypeOK, RunRecord, CountsPerStage, LoopsAreBounded, Agent
  <1>2. QED
    BY <1>1, TypeInit, TypeStep, CountsInit, CountsStep, PTL DEF Spec

-----------------------------------------------------------------------------
(* The chain of artifacts                                                  *)

LEMMA ChainInit == Init => ChainPerStage
  BY LimitsAssumption
  DEF Init, CreateRunState, ChainPerStage, CurrentStage, Made, NoArtifact, Agent

(* An artifact is newer than all others, and its stage is the end of the   *)
(* part of the chain that is in force.                                     *)
LEMMA ChainStep == RunTypeOK /\ ChainPerStage /\ [Next]_run => ChainPerStage'
  <1> SUFFICES ASSUME RunTypeOK, ChainPerStage, [Next]_run PROVE ChainPerStage'
    OBVIOUS
  <1>1. CASE SubmitAgentArtifact
    <2>1. PICK agent \in Agent : \E verdict \in Verdict(agent) : Submits(agent, verdict)
      BY <1>1, SubmissionCases
    <2>2. PICK verdict \in Verdict(agent) : Submits(agent, verdict)
      BY <2>1
    <2>3. /\ Kept /\ run'.decision = run.decision /\ run'.made = run.made + 1
          /\ run'.artifacts = [run.artifacts EXCEPT
                                 ![agent] = [made |-> run.made + 1, verdict |-> verdict]]
          /\ \/ agent = "verifier" /\ verdict = "unresolved" /\ (Refines \/ Escalates)
             \/ agent = "guardian" /\ verdict = "revise" /\ (Revises \/ Escalates)
             \/ agent = "guardian" /\ verdict = "block" /\ Escalates
             \/ /\ agent = "verifier" => verdict = "resolved"
                /\ agent = "guardian" => verdict = "pass"
                /\ Advances
      BY <2>2, SubmissionFields
    <2>4. SubmitAllowed(run, agent)
      BY <2>2 DEF Submits
    <2>5. /\ run.made \in Nat /\ \A a \in Agent : run.artifacts[a].made \in Nat
          /\ run.exact \in BOOLEAN
      BY DEF RunTypeOK, RunRecord, Artifact
    <2>6. /\ run'.artifacts[agent].made = run.made + 1
          /\ run'.artifacts[agent].verdict = verdict
      BY <2>3 DEF RunTypeOK, RunRecord
    <2>7. \A a \in Agent : a # agent => run'.artifacts[a] = run.artifacts[a]
      BY <2>3 DEF RunTypeOK, RunRecord
    <2>8. CASE agent = "orchestrator"
      BY <2>3, <2>4, <2>5, <2>6, <2>7, <2>8, StageFacts
      DEF ChainPerStage, Discovered, Evident, Briefed, Drafted, Passed, Made, Kept, Advances,
          After, Agent, CurrentStage, Verdict
    <2>9. CASE agent = "scout"
      BY <2>3, <2>4, <2>5, <2>6, <2>7, <2>9, StageFacts
      DEF ChainPerStage, Discovered, Evident, Briefed, Drafted, Passed, Made, Kept, Advances,
          After, Agent, CurrentStage, Verdict
    <2>10. CASE agent = "verifier"
      BY <2>3, <2>4, <2>5, <2>6, <2>7, <2>10, StageFacts
      DEF ChainPerStage, Discovered, Evident, Briefed, Drafted, Passed, Made, Kept, Advances,
          Refines, Escalates, After, Agent, CurrentStage, Verdict
    <2>11. CASE agent = "strategist"
      BY <2>3, <2>4, <2>5, <2>6, <2>7, <2>11, StageFacts
      DEF ChainPerStage, Discovered, Evident, Briefed, Drafted, Passed, Made, Kept, Advances,
          After, Agent, CurrentStage, Verdict
    <2>12. CASE agent = "writer"
      BY <2>3, <2>4, <2>5, <2>6, <2>7, <2>12, StageFacts
      DEF ChainPerStage, Discovered, Evident, Briefed, Drafted, Passed, Made, Kept, Advances,
          After, Agent, CurrentStage, Verdict
    <2>13. CASE agent = "guardian"
      BY <2>3, <2>4, <2>5, <2>6, <2>7, <2>13, StageFacts
      DEF ChainPerStage, Discovered, Evident, Briefed, Drafted, Passed, Made, Kept, Advances,
          Revises, Escalates, After, Agent, CurrentStage, Verdict
    <2>14. QED
      BY <2>8, <2>9, <2>10, <2>11, <2>12, <2>13 DEF Agent
  <1>2. CASE RecordHumanDecision \/ CompleteLocalQueue
    BY <1>2, OwnerFields
    DEF ChainPerStage, Discovered, Evident, Briefed, Drafted, Passed, Made, Kept, CurrentStage
  <1>3. CASE UNCHANGED run
    BY <1>3
    DEF ChainPerStage, Discovered, Evident, Briefed, Drafted, Passed, Made, CurrentStage
  <1>4. QED
    BY <1>1, <1>2, <1>3 DEF Next

(* Whatever loops a plan allows, an approval is of current work.           *)
THEOREM ApprovedWorkStaysCurrent == Spec => []ApprovedWorkIsCurrent
  <1>1. ChainPerStage => ApprovedWorkIsCurrent
    BY DEF ChainPerStage, ApprovedWorkIsCurrent, Discovered, Evident, Briefed, Drafted, Passed
  <1>2. QED
    BY <1>1, TypeInit, TypeStep, ChainInit, ChainStep, PTL DEF Spec
-----------------------------------------------------------------------------
(* The executor.  Its steps, while it goes on and otherwise.               *)

Live == {"create", "invoke", "waiting", "save", "submit", "decide", "queue"}

AfterQueue == {"done", "failing", "failed", "dead"}

AgentAtWork == AssignedTo[CurrentStage(run)]

Entry ==
    [type: {"run_created", "artifact_saved", "human_decision_recorded",
            "local_queue_recorded", "run_failed"},
     agent: Agent \cup {"nobody"}, made: Nat,
     verdict: {"none", "done", "resolved", "unresolved", "pass", "revise", "block"} \cup Decision,
     parents: SUBSET Nat, evidence: Nat]

Typed ==
    /\ RunTypeOK
    /\ pc \in Live \cup Ended \cup {"library", "failing", "failing_budget"}
    /\ budget \in [attempts: Nat \ {0}, invocations: Nat \ {0}]
    /\ asked \in [Agent -> Nat]
    /\ raw \in [agent: Agent \cup {"nobody"},
                verdict: {"none", "done", "resolved", "unresolved", "pass", "revise", "block"},
                hash: Nat]
    /\ given \in Decision /\ evidence \in Nat
    /\ log \in Seq(Entry)
    /\ pc = "library" => log = <<>>

(* What the runtime has counted is never behind the run, and one call      *)
(* ahead of it while an agent is at work.                                  *)
CallsAreCounted ==
    /\ \A agent \in Agent :
          /\ asked[agent] <= budget.attempts + 1
          /\ pc \in Live \cup {"library"} => asked[agent] <= budget.attempts
          /\ pc # "library" => run.counts[agent] <= asked[agent]
    /\ pc \in {"waiting", "save", "submit"} =>
          AgentAtWork \in Agent /\ run.counts[AgentAtWork] < asked[AgentAtWork]
    /\ pc \in {"save", "submit"} =>
          /\ raw.agent = AgentAtWork /\ raw.verdict \in Verdict(raw.agent)
          /\ raw.agent = "verifier" => raw.hash # 0

-----------------------------------------------------------------------------
(* The log and the run.                                                    *)

SavedBy(agent) == {i \in SavedEvents : log[i].agent = agent}

(* The event i holds the artifact that is the n-th submission.             *)
Holds(i, agent, n, verdict) ==
    i \in SavedBy(agent) /\ log[i].made = n /\ log[i].verdict = verdict

LastIsGreatest ==
    \A agent \in Agent :
        /\ LastSaved(agent) \in SavedBy(agent) \cup {0}
        /\ \A i \in SavedBy(agent) : i <= LastSaved(agent)

(* Artifacts are saved in the order in which they are made.                *)
SavedInOrder ==
    \A i, j \in SavedEvents : i < j => log[i].made < log[j].made

(* The submissions that are in the log: those of the run, and the one      *)
(* about to be made.                                                       *)
SavedUpTo(n) == Artifacts = 1 .. n

LogIsAhead ==
    pc # "library" =>
        /\ pc \in Live \ {"submit"} => SavedUpTo(run.made)
        /\ pc = "submit" => SavedUpTo(run.made + 1)
        /\ SavedUpTo(run.made) \/ SavedUpTo(run.made + 1)

(* While the executor goes on, the last artifacts in the log are those in  *)
(* force, but for the one about to count.                                  *)
LogIsCurrent ==
    pc \in Live =>
        \A agent \in Agent :
            IF pc = "submit" /\ agent = raw.agent
            THEN Holds(LastSaved(agent), agent, run.made + 1, raw.verdict)
            ELSE Made(agent) > 0 =>
                   Holds(LastSaved(agent), agent, Made(agent), run.artifacts[agent].verdict)

-----------------------------------------------------------------------------
(* The lineage.                                                            *)

(* The last submission is in force.                                        *)
LastIsInForce == run.made > 0 => \E agent \in Agent : Made(agent) = run.made

(* An artifact that was not made says nothing, and the last one made is  *)
(* in force.                                                               *)
Numbered ==
    /\ \A agent \in Agent : Made(agent) = 0 => run.artifacts[agent].verdict = "none"
    /\ LastIsInForce

(* Every artifact has the one made before it among its parents, and none   *)
(* that was not made before it.                                            *)
ParentsComeFirst ==
    \A i \in SavedEvents :
        /\ \A p \in log[i].parents : 0 < p /\ p < log[i].made
        /\ log[i].made > 1 => log[i].made - 1 \in log[i].parents

(* Evidence an artifact is bound to is that of a packet saved by then.     *)
EvidenceIsOnFile ==
    /\ \A i \in SavedEvents :
          /\ log[i].agent = "verifier" => log[i].evidence # 0
          /\ log[i].evidence # 0 =>
                \E j \in SavedBy("verifier") : j <= i /\ log[j].evidence = log[i].evidence
    /\ pc \in Live /\ evidence # 0 =>
          \E j \in SavedBy("verifier") : log[j].evidence = evidence

(* From the last packet on, everything is bound to it.                     *)
BoundToPacket ==
    pc \in Live /\ LastSaved("verifier") # 0 =>
        /\ evidence # 0
        /\ \A i \in SavedEvents : LastSaved("verifier") <= i => log[i].evidence = evidence

(* The queue record follows the approval and is followed by no artifact.   *)
QueueComesLast ==
    /\ pc = "queue" => /\ log # <<>>
                       /\ log[Len(log)] = Note("human_decision_recorded", "approved", 0)
    /\ (\E q \in DOMAIN log : log[q].type = "local_queue_recorded") => pc \in AfterQueue

IInv ==
    /\ Typed
    /\ CountsPerStage
    /\ ChainPerStage
    /\ CallsAreCounted
    /\ RunIsLogged
    /\ QueueIsJustifiedByLog
    /\ QueuedWorkIsFresh
    /\ LastIsGreatest
    /\ SavedInOrder
    /\ LogIsAhead
    /\ LogIsCurrent
    /\ Numbered
    /\ ParentsComeFirst
    /\ EvidenceIsOnFile
    /\ BoundToPacket
    /\ QueueComesLast

-----------------------------------------------------------------------------
(* The executor's steps as calls of the run.                               *)

(* Every step but saving an artifact.                                      *)
OtherStep ==
    \/ LogCreation \/ Invoke \/ Answer \/ TimeOut \/ LeaveLoop \/ Submit \/ Decide
    \/ Queue \/ Fail \/ Die \/ Library

LEMMA StepsDivide == ExecutorNext => SaveArtifact \/ OtherStep
  BY DEF ExecutorNext, Step, OtherStep

(* The executor makes the calls of OrchestraRun, as any caller may.        *)
LEMMA StepsAreCalls ==
    ASSUME Typed, CallsAreCounted, [ExecutorNext]_vars
    PROVE  [Next]_run
  <1>1. CASE Submit
    <2>1. CASE SubmitAllowed(run, raw.agent)
      <3>1. raw.agent \in Agent /\ raw.verdict \in Verdict(raw.agent)
        BY <1>1 DEF Submit, CallsAreCounted
      <3>2. QED
        BY <1>1, <2>1, <3>1 DEF Submit, Next, SubmitAgentArtifact
    <2>2. CASE ~SubmitAllowed(run, raw.agent)
      BY <1>1, <2>2 DEF Submit
    <2>3. QED
      BY <2>1, <2>2
  <1>2. CASE Decide
    <2>1. CASE DecisionAllowed(run, given)
      BY <1>2, <2>1 DEF Decide, Typed, Next, RecordHumanDecision
    <2>2. CASE ~DecisionAllowed(run, given)
      BY <1>2, <2>2 DEF Decide
    <2>3. QED
      BY <2>1, <2>2
  <1>3. CASE Queue
    BY <1>3 DEF Queue, Next, CompleteLocalQueue
  <1>4. CASE Library
    BY <1>4 DEF Library
  <1>5. CASE LogCreation \/ Invoke \/ Answer \/ TimeOut \/ LeaveLoop \/ SaveArtifact \/ Fail \/ Die
    BY <1>5 DEF LogCreation, Invoke, Answer, TimeOut, LeaveLoop, SaveArtifact, Fail, Die
  <1>6. CASE UNCHANGED vars
    BY <1>6 DEF vars
  <1>7. QED
    BY <1>1, <1>2, <1>3, <1>4, <1>5, <1>6 DEF ExecutorNext, Step

LEMMA RunInit == ExecutorInit => Init
  BY BudgetAssumption DEF ExecutorInit, InitLibrary, InitExecutor, Init

-----------------------------------------------------------------------------
LEMMA NumberedInit == Init => Numbered
  BY DEF Init, CreateRunState, Numbered, LastIsInForce, Made, NoArtifact

LEMMA NumberedStep == RunTypeOK /\ Numbered /\ [Next]_run => Numbered'
  <1> SUFFICES ASSUME RunTypeOK, Numbered, [Next]_run PROVE Numbered'
    OBVIOUS
  <1>1. CASE SubmitAgentArtifact
    <2>1. PICK agent \in Agent : \E verdict \in Verdict(agent) : Submits(agent, verdict)
      BY <1>1, SubmissionCases
    <2>2. PICK verdict \in Verdict(agent) : Submits(agent, verdict)
      BY <2>1
    <2>3. /\ run'.made = run.made + 1
          /\ run'.artifacts = [run.artifacts EXCEPT
                                 ![agent] = [made |-> run.made + 1, verdict |-> verdict]]
      BY <2>2, SubmissionFields
    <2>4. /\ run'.artifacts[agent].made = run'.made /\ run'.made # 0
          /\ \A a \in Agent : a # agent => run'.artifacts[a] = run.artifacts[a]
      BY <2>3 DEF RunTypeOK, RunRecord
    <2>5. QED
      BY <2>4 DEF Numbered, LastIsInForce, Made
  <1>2. CASE RecordHumanDecision \/ CompleteLocalQueue
    BY <1>2, OwnerFields DEF Numbered, LastIsInForce, Made
  <1>3. CASE UNCHANGED run
    BY <1>3 DEF Numbered, LastIsInForce, Made
  <1>4. QED
    BY <1>1, <1>2, <1>3 DEF Next

-----------------------------------------------------------------------------
(* What an append changes.                                                 *)

LEMMA AppendFacts ==
    ASSUME NEW s \in Seq(Entry), NEW e \in Entry
    PROVE  /\ Append(s, e) \in Seq(Entry)
           /\ Len(s) \in Nat /\ DOMAIN s = 1 .. Len(s)
           /\ Len(Append(s, e)) = Len(s) + 1
           /\ DOMAIN Append(s, e) = 1 .. Len(s) + 1
           /\ \A i \in DOMAIN s : i \in DOMAIN Append(s, e) /\ Append(s, e)[i] = s[i]
           /\ Append(s, e)[Len(s) + 1] = e
  OBVIOUS

(* The saved artifacts are the same, in the same places.                   *)
NothingSaved ==
    SavedEvents' = SavedEvents /\ \A i \in SavedEvents : log'[i] = log[i]

LEMMA NotesSaveNothing ==
    ASSUME log \in Seq(Entry), NEW e \in Entry, e.type # "artifact_saved",
           log' = log \/ log' = Append(log, e)
    PROVE  NothingSaved
  <1>1. CASE log' = log
    BY <1>1 DEF NothingSaved, SavedEvents
  <1>2. CASE log' = Append(log, e)
    BY <1>2, AppendFacts DEF NothingSaved, SavedEvents
  <1>3. QED
    BY <1>1, <1>2

LEMMA NothingSavedKeeps ==
    ASSUME NothingSaved
    PROVE  /\ \A agent : SavedBy(agent)' = SavedBy(agent) /\ LastSaved(agent)' = LastSaved(agent)
           /\ Artifacts' = Artifacts
  <1>1. ASSUME NEW agent
        PROVE  SavedBy(agent)' = SavedBy(agent)
    BY DEF NothingSaved, SavedBy
  <1>2. ASSUME NEW agent
        PROVE  LastSaved(agent)' = LastSaved(agent)
    BY <1>1 DEF LastSaved, SavedBy
  <1>3. Artifacts' = Artifacts
    BY DEF NothingSaved, Artifacts
  <1>4. QED
    BY <1>1, <1>2, <1>3

(* Max, of a set of numbers, is what it should be.                         *)
LEMMA GreatestIsMax ==
    ASSUME NEW S, S \subseteq Nat, NEW m \in S, \A y \in S : y <= m
    PROVE  Max(S) = m
  <1>1. \A y \in S : m >= y
    OBVIOUS
  <1>2. Max(S) \in S /\ \A y \in S : Max(S) >= y
    BY <1>1 DEF Max
  <1>3. Max(S) \in Nat /\ Max(S) <= m /\ m <= Max(S)
    BY <1>2
  <1>4. QED
    BY <1>3

(* The artifact that is appended becomes the last of its agent.            *)
LEMMA SavingAppends ==
    ASSUME log \in Seq(Entry), NEW e \in Entry, e.type = "artifact_saved",
           log' = Append(log, e)
    PROVE  /\ SavedEvents' = SavedEvents \cup {Len(log) + 1}
           /\ \A i \in SavedEvents : i <= Len(log) /\ i \in Nat /\ log'[i] = log[i]
           /\ log'[Len(log) + 1] = e
           /\ \A agent :
                 IF agent = e.agent
                 THEN /\ SavedBy(agent)' = SavedBy(agent) \cup {Len(log) + 1}
                      /\ LastSaved(agent)' = Len(log) + 1
                 ELSE SavedBy(agent)' = SavedBy(agent) /\ LastSaved(agent)' = LastSaved(agent)
           /\ Artifacts' = Artifacts \cup {e.made}
  <1> DEFINE new == Len(log) + 1
  <1>1. /\ new \in Nat /\ new > 0 /\ Len(log) \in Nat
        /\ SavedEvents' = SavedEvents \cup {new}
        /\ \A i \in SavedEvents : i < new /\ i \in Nat /\ log'[i] = log[i]
        /\ log'[new] = e
    BY AppendFacts DEF SavedEvents
  <1>2. ASSUME NEW agent, agent # e.agent
        PROVE  SavedBy(agent)' = SavedBy(agent)
    BY <1>1, <1>2 DEF SavedBy
  <1>3. ASSUME NEW agent, agent # e.agent
        PROVE  LastSaved(agent)' = LastSaved(agent)
    BY <1>2, <1>3 DEF LastSaved, SavedBy
  <1>4. SavedBy(e.agent)' = SavedBy(e.agent) \cup {new}
    BY <1>1 DEF SavedBy
  <1>5. LastSaved(e.agent)' = new
    <2> DEFINE S == {0} \cup SavedBy(e.agent)'
    <2>1. LastSaved(e.agent)' = Max(S)
      BY DEF LastSaved, SavedBy
    <2>2. new \in S /\ S \subseteq Nat /\ \A y \in S : y <= new
      BY <1>1, <1>4 DEF SavedBy
    <2> HIDE DEF S, new
    <2>3. QED
      BY <2>1, <2>2, GreatestIsMax
  <1>6. Artifacts' = Artifacts \cup {e.made}
    BY <1>1 DEF Artifacts
  <1>7. \A i \in SavedEvents : i <= Len(log)
    BY <1>1
  <1> HIDE DEF new
  <1>8. new = Len(log) + 1
    BY DEF new
  <1>9. QED
    BY <1>1, <1>2, <1>3, <1>4, <1>5, <1>6, <1>7, <1>8

(* What is not a saved artifact may be noted.                              *)
LEMMA NotesAreEntries ==
    ASSUME NEW type \in {"run_created", "human_decision_recorded", "local_queue_recorded",
                         "run_failed"},
           NEW verdict \in {"none"} \cup Decision, NEW current \in Nat
    PROVE  /\ Note(type, verdict, current) \in Entry
           /\ Note(type, verdict, current).type = type
  BY DEF Note, Event, Entry

-----------------------------------------------------------------------------
(* What the other steps do to the log and to the executor's own state.     *)
LEMMA OtherFields ==
    ASSUME Typed, OtherStep
    PROVE  /\ evidence' = evidence /\ given' = given /\ budget' = budget
           /\ pc' # "submit"
           /\ pc' \in Live => pc \in Live
           /\ pc' = "library" <=> pc = "library"
           /\ pc' \in Live \cup Ended \cup {"library", "failing", "failing_budget"}
           /\ pc \in AfterQueue => pc' \in AfterQueue
           /\ ~Queue => \/ log' = log
                        \/ \E e \in Entry :
                              /\ e.type \notin {"artifact_saved", "local_queue_recorded"}
                              /\ log' = Append(log, e)
           /\ Queue => /\ pc = "queue" /\ pc' \in AfterQueue
                       /\ \/ log' = log
                          \/ log' = Append(log, Note("local_queue_recorded", "none", evidence))
           /\ pc = "library" => log' = log
  <1> USE DEF Live, Ended, AfterQueue
  <1>1. CASE LogCreation
    <2>1. Note("run_created", "none", 0) \in Entry /\ Note("run_created", "none", 0).type = "run_created"
      BY NotesAreEntries
    <2>2. QED
      BY <1>1, <2>1 DEF LogCreation, Logged, runtime, Queue
  <1>2. CASE Invoke
    BY <1>2 DEF Invoke, Queue
  <1>3. CASE Answer \/ TimeOut \/ LeaveLoop \/ Die
    BY <1>3 DEF Answer, TimeOut, LeaveLoop, Die, runtime, Queue, Typed
  <1>4. CASE Submit
    BY <1>4 DEF Submit, runtime, Queue
  <1>5. CASE Decide
    <2> DEFINE note == Note("human_decision_recorded", given, 0)
    <2>1. note \in Entry /\ note.type = "human_decision_recorded"
      <3>1. given \in {"none"} \cup Decision
        BY DEF Typed
      <3>2. QED
        BY <3>1, NotesAreEntries
    <2> HIDE DEF note
    <2>2. /\ runtime' = runtime /\ pc = "decide" /\ pc' \in {"queue", "done", "failing"}
          /\ log' = log \/ log' = Append(log, note)
      BY <1>5 DEF Decide, Logged, note, runtime
    <2>3. QED
      BY <2>1, <2>2 DEF runtime, Queue
  <1>6. CASE Queue
    BY <1>6 DEF Queue, Logged, runtime
  <1>7. CASE Fail
    <2>1. Note("run_failed", "none", 0) \in Entry /\ Note("run_failed", "none", 0).type = "run_failed"
      BY NotesAreEntries
    <2>2. QED
      BY <1>7, <2>1 DEF Fail, runtime, Queue
  <1>8. CASE Library
    BY <1>8 DEF Library, runtime, Queue
  <1>9. QED
    BY <1>1, <1>2, <1>3, <1>4, <1>5, <1>6, <1>7, <1>8 DEF OtherStep

LEMMA OthersSaveNothing ==
    ASSUME Typed, OtherStep
    PROVE  NothingSaved
  <1>1. Note("local_queue_recorded", "none", evidence) \in Entry
        /\ Note("local_queue_recorded", "none", evidence).type = "local_queue_recorded"
    BY NotesAreEntries DEF Typed
  <1>2. \/ log' = log
        \/ \E e \in Entry : e.type # "artifact_saved" /\ log' = Append(log, e)
    BY <1>1, OtherFields
  <1>3. CASE log' = log
    BY <1>3 DEF NothingSaved, SavedEvents
  <1>4. CASE \E e \in Entry : e.type # "artifact_saved" /\ log' = Append(log, e)
    BY <1>4, NotesSaveNothing DEF Typed
  <1>5. QED
    BY <1>2, <1>3, <1>4

-----------------------------------------------------------------------------
(* Types and the runtime's counts.                                         *)

LEMMA TypedStep ==
    ASSUME IInv, [ExecutorNext]_vars
    PROVE  Typed'
  <1> USE DEF IInv
  <1>1. RunTypeOK'
    BY StepsAreCalls, TypeStep DEF Typed
  <1>2. CASE SaveArtifact
    <2>1. evidence' \in Nat
      BY <1>2 DEF SaveArtifact, CurrentEvidence, Typed
    <2>2. Saved(evidence') \in Entry
      <3>1. {Made(agent) : agent \in Agent} \ {0} \in SUBSET Nat
        BY DEF Typed, RunTypeOK, RunRecord, Artifact, Made
      <3>2. run.made + 1 \in Nat
        BY DEF Typed, RunTypeOK, RunRecord
      <3>3. QED
        BY <2>1, <3>1, <3>2 DEF Saved, Event, Entry, Typed
    <2>3. log' \in Seq(Entry)
      <3>1. log' = log \/ log' = Append(log, Saved(evidence'))
        BY <1>2 DEF SaveArtifact, Logged
      <3>2. QED
        BY <2>2, <3>1, AppendFacts DEF Typed
    <2>4. QED
      BY <1>1, <1>2, <2>1, <2>3 DEF SaveArtifact, Logged, Typed, Live, Ended
  <1>3. CASE OtherStep
    <2>1. log' \in Seq(Entry)
      <3>1. Note("local_queue_recorded", "none", evidence) \in Entry
        BY NotesAreEntries DEF Typed
      <3>2. log' = log \/ \E e \in Entry : log' = Append(log, e)
        BY <1>3, <3>1, OtherFields
      <3>3. QED
        BY <3>2, AppendFacts DEF Typed
    <2>2. asked' \in [Agent -> Nat]
      BY <1>3 DEF OtherStep, LogCreation, Invoke, Answer, TimeOut, LeaveLoop, Submit, Decide,
                  Queue, Fail, Die, Library, runtime, Typed
    <2>3. raw' \in [agent: Agent \cup {"nobody"},
                    verdict: {"none", "done", "resolved", "unresolved", "pass", "revise", "block"},
                    hash: Nat]
      <3>1. CASE Answer
        <4>1. AgentAtWork \in Agent
          BY <3>1 DEF Answer, CallsAreCounted
        <4>2. run.made + 1 \in Nat
          BY DEF Typed, RunTypeOK, RunRecord
        <4>3. PICK verdict \in Verdict(AgentAtWork), hash \in {evidence, run.made + 1} :
                  raw' = [agent |-> AgentAtWork, verdict |-> verdict, hash |-> hash]
          BY <3>1 DEF Answer, AgentAtWork
        <4>4. QED
          BY <4>1, <4>2, <4>3 DEF Verdict, Typed
      <3>2. CASE ~Answer
        BY <1>3, <3>2 DEF OtherStep, LogCreation, Invoke, TimeOut, LeaveLoop, Submit, Decide,
                          Queue, Fail, Die, Library, runtime, Typed
      <3>3. QED
        BY <3>1, <3>2
    <2>4. pc' = "library" => log' = <<>>
      BY <1>3, OtherFields DEF Typed
    <2>5. QED
      BY <1>1, <1>3, <2>1, <2>2, <2>3, <2>4, OtherFields DEF Typed
  <1>4. CASE UNCHANGED vars
    BY <1>1, <1>4 DEF vars, runtime, Typed
  <1>5. QED
    BY <1>2, <1>3, <1>4, StepsDivide

(* A submission is counted once, and by the runtime before the run.        *)
LEMMA SubmissionIsCounted ==
    ASSUME IInv, Submit, SubmitAllowed(run, raw.agent)
    PROVE  /\ raw.agent \in Agent /\ pc = "submit" /\ pc' = "invoke"
           /\ run'.made = run.made + 1
           /\ run'.artifacts = [run.artifacts EXCEPT
                  ![raw.agent] = [made |-> run.made + 1, verdict |-> raw.verdict]]
           /\ run'.counts = [run.counts EXCEPT ![raw.agent] = @ + 1]
  <1> DEFINE agent == raw.agent
             verdict == raw.verdict
  <1>1. /\ pc = "submit" /\ pc' = "invoke" /\ run' = Submitted(run, agent, verdict)
        /\ SubmitAllowed(run, agent)
    BY DEF Submit
  <1>2. agent \in Agent /\ verdict \in Verdict(agent)
    BY <1>1 DEF IInv, CallsAreCounted
  <1> HIDE DEF agent, verdict
  <1>3. Submits(agent, verdict)
    <2>1. CASE agent = "verifier" /\ verdict = "unresolved"
      BY <1>1, <2>1 DEF Submitted, Submits, Unresolved
    <2>2. CASE agent = "guardian" /\ verdict = "revise"
      BY <1>1, <2>2 DEF Submitted, Submits, Revised
    <2>3. CASE agent = "guardian" /\ verdict = "block"
      BY <1>1, <2>3 DEF Submitted, Submits, Blocks
    <2>4. CASE /\ agent = "verifier" => verdict = "resolved"
               /\ agent = "guardian" => verdict = "pass"
      BY <1>1, <2>4 DEF Submitted, Submits, Goes
    <2>5. QED
      BY <1>2, <2>1, <2>2, <2>3, <2>4 DEF Verdict
  <1>4. /\ run'.made = run.made + 1
        /\ run'.artifacts = [run.artifacts EXCEPT
               ![agent] = [made |-> run.made + 1, verdict |-> verdict]]
        /\ run'.counts = [run.counts EXCEPT ![agent] = @ + 1]
    BY <1>2, <1>3, SubmissionFields DEF IInv, Typed
  <1>5. QED
    BY <1>1, <1>2, <1>4 DEF agent, verdict

(* The steps other than a submission, as far as the run's artifacts go.    *)
LEMMA OthersSubmitNothing ==
    ASSUME IInv, SaveArtifact \/ OtherStep, pc # "library",
           ~(Submit /\ SubmitAllowed(run, raw.agent))
    PROVE  /\ run'.made = run.made /\ run'.artifacts = run.artifacts
           /\ run'.counts = run.counts
           /\ pc = "submit" => pc' \notin Live
  <1> USE DEF IInv
  <1>1. CASE Decide /\ DecisionAllowed(run, given)
    <2>1. RecordHumanDecision /\ pc = "decide"
      BY <1>1 DEF Decide, RecordHumanDecision, Typed
    <2>2. QED
      BY <2>1, OwnerFields DEF Typed
  <1>2. CASE Queue
    <2>1. CompleteLocalQueue /\ pc = "queue"
      BY <1>2 DEF Queue, CompleteLocalQueue
    <2>2. QED
      BY <2>1, OwnerFields DEF Typed
  <1>3. CASE ~(Decide /\ DecisionAllowed(run, given)) /\ ~Queue
    BY <1>3 DEF OtherStep, LogCreation, Invoke, Answer, TimeOut, LeaveLoop, SaveArtifact, Submit,
                Decide, Queue, Fail, Die, Library, Live
  <1>4. QED
    BY <1>1, <1>2, <1>3

LEMMA CountedStep ==
    ASSUME IInv, ExecutorNext, Typed'
    PROVE  CallsAreCounted'
  <1> USE DEF IInv
  <1>0. /\ run.counts \in [Agent -> Nat] /\ budget.attempts \in Nat
        /\ asked \in [Agent -> Nat] /\ raw.agent \in Agent \cup {"nobody"}
    BY DEF Typed, RunTypeOK, RunRecord
  <1>1. CASE Invoke
    <2>1. AgentAtWork \in Agent /\ asked' = [asked EXCEPT ![AgentAtWork] = @ + 1]
      BY <1>1 DEF Invoke, AgentAtWork
    <2>2. /\ pc = "invoke" /\ pc' \in {"waiting", "failing_budget"} /\ run' = run /\ budget' = budget
          /\ pc' = "waiting" => asked'[AgentAtWork] <= budget.attempts
      BY <1>1 DEF Invoke, WithinBudget, AgentAtWork
    <2>3. AgentAtWork' = AgentAtWork
      BY <2>2 DEF AgentAtWork, CurrentStage
    <2>4. \A agent \in Agent :
              asked'[agent] = IF agent = AgentAtWork THEN asked[agent] + 1 ELSE asked[agent]
      BY <1>0, <2>1
    <2>5. QED
      BY <1>0, <2>1, <2>2, <2>3, <2>4 DEF CallsAreCounted, Live
  <1>2. CASE Answer
    <2>1. /\ AgentAtWork \in Agent /\ run.counts[AgentAtWork] < asked[AgentAtWork]
          /\ pc = "waiting" /\ pc' = "save" /\ run' = run /\ budget' = budget /\ asked' = asked
      BY <1>2 DEF Answer, CallsAreCounted
    <2>2. PICK verdict \in Verdict(AgentAtWork), hash \in {evidence, run.made + 1} :
              /\ hash # run.made + 1 =>
                    AgentAtWork = "verifier" /\ verdict = run.artifacts["verifier"].verdict
              /\ raw' = [agent |-> AgentAtWork, verdict |-> verdict, hash |-> hash]
      BY <1>2 DEF Answer, AgentAtWork
    <2>3. AgentAtWork = "verifier" => hash # 0
      <3> SUFFICES ASSUME AgentAtWork = "verifier", hash = 0
                   PROVE  FALSE
        OBVIOUS
      <3>0. run.made \in Nat /\ run.artifacts \in [Agent -> Artifact]
        BY DEF Typed, RunTypeOK, RunRecord
      <3>1. run.made + 1 # 0
        BY <3>0
      <3>2. evidence = 0 /\ verdict = run.artifacts["verifier"].verdict /\ verdict # "none"
        BY <2>2, <3>1 DEF Verdict
      <3>3. Made("verifier") # 0
        BY <3>2 DEF Numbered, Agent
      <3>4. Made("verifier") > 0
        <4>1. run.artifacts["verifier"] \in Artifact
          BY <3>0 DEF Agent
        <4>2. QED
          BY <3>3, <4>1 DEF Artifact, Made
      <3>5. LastSaved("verifier") \in SavedEvents
        BY <2>1, <3>4 DEF LogIsCurrent, Live, Holds, SavedBy, Agent
      <3>6. LastSaved("verifier") # 0
        BY <3>5 DEF SavedEvents, Typed
      <3>7. QED
        BY <2>1, <3>2, <3>6 DEF BoundToPacket, Live
    <2>4. AgentAtWork' = AgentAtWork
      BY <2>1 DEF AgentAtWork, CurrentStage
    <2>5. QED
      BY <2>1, <2>2, <2>3, <2>4 DEF CallsAreCounted, Live
  <1>3. CASE Submit /\ SubmitAllowed(run, raw.agent)
    <2>1. /\ raw.agent \in Agent /\ pc = "submit" /\ pc' = "invoke"
          /\ run'.counts = [run.counts EXCEPT ![raw.agent] = @ + 1]
      BY <1>3, SubmissionIsCounted
    <2>2. asked' = asked /\ budget' = budget /\ raw.agent = AgentAtWork
      BY <1>3, <2>1 DEF Submit, runtime, CallsAreCounted
    <2>3. \A agent \in Agent :
              run'.counts[agent] = IF agent = raw.agent THEN run.counts[agent] + 1
                                   ELSE run.counts[agent]
      BY <1>0, <2>1
    <2>4. run.counts[raw.agent] < asked[raw.agent]
      BY <2>1, <2>2 DEF CallsAreCounted
    <2>5. QED
      BY <1>0, <2>1, <2>2, <2>3, <2>4 DEF CallsAreCounted, Live
  <1>4. CASE pc = "library"
    <2>1. asked' = asked /\ budget' = budget /\ pc' = pc
      BY <1>4 DEF ExecutorNext, Step, LogCreation, Invoke, Answer, TimeOut, LeaveLoop,
                  SaveArtifact, Submit, Decide, Queue, Fail, Die, Library, runtime
    <2>2. QED
      BY <1>4, <2>1 DEF CallsAreCounted
  <1>5. CASE /\ ~Invoke /\ ~Answer /\ ~(Submit /\ SubmitAllowed(run, raw.agent))
             /\ pc # "library"
    <2>1. SaveArtifact \/ OtherStep
      BY StepsDivide
    <2>2. run'.counts = run.counts /\ (pc = "submit" => pc' \notin Live)
      BY <1>5, <2>1, OthersSubmitNothing
    <2>3. /\ asked' = asked /\ budget' = budget /\ raw' = raw
          /\ pc' \in Live => pc \in Live
          /\ pc' \in {"waiting", "save", "submit"} => run' = run /\ pc = "save" /\ pc' = "submit"
          /\ pc' # "library"
      BY <1>5, <2>2
      DEF ExecutorNext, Step, LogCreation, Logged, TimeOut, LeaveLoop, SaveArtifact, Submit,
          Decide, Queue, Fail, Die, Library, runtime, Live, Ended
    <2>4. run' = run => AgentAtWork' = AgentAtWork
      BY DEF AgentAtWork, CurrentStage
    <2>5. QED
      BY <1>5, <2>2, <2>3, <2>4 DEF CallsAreCounted
  <1>6. QED
    BY <1>1, <1>2, <1>3, <1>4, <1>5

-----------------------------------------------------------------------------
(* The log and the run.                                                    *)

(* What an executor appends when it saves: in the process, or failing      *)
(* after the write.                                                        *)
Saves == SaveArtifact /\ log' = Append(log, Saved(evidence'))

LEMMA SavedIsEntry ==
    ASSUME IInv, Saves
    PROVE  Saved(evidence') \in Entry /\ Saved(evidence').type = "artifact_saved"
  <1> USE DEF IInv
  <1>1. {Made(agent) : agent \in Agent} \ {0} \in SUBSET Nat
    BY DEF Typed, RunTypeOK, RunRecord, Artifact, Made
  <1>2. run.made \in Nat /\ raw.agent \in Agent
    BY DEF Saves, SaveArtifact, CallsAreCounted, Typed, RunTypeOK, RunRecord
  <1>3. evidence' \in Nat
    BY DEF Saves, SaveArtifact, CurrentEvidence, Typed
  <1>4. QED
    BY <1>1, <1>2, <1>3 DEF Saved, Event, Entry, Typed

LEMMA SaveFields ==
    ASSUME IInv, Saves
    PROVE  LET new == Len(log) + 1 IN
           /\ raw.agent \in Agent /\ pc = "save" /\ pc' \in {"submit", "failing"}
           /\ run' = run /\ raw' = raw /\ run.made \in Nat
           /\ evidence' = IF raw.agent = "verifier" THEN raw.hash ELSE evidence
           /\ new \in Nat /\ new > 0 /\ new \notin SavedEvents
           /\ SavedEvents' = SavedEvents \cup {new}
           /\ \A i \in SavedEvents : i \in Nat /\ i > 0 /\ i < new /\ log'[i] = log[i]
           /\ log'[new].agent = raw.agent /\ log'[new].made = run.made + 1
           /\ log'[new].verdict = raw.verdict /\ log'[new].evidence = evidence'
           /\ log'[new].parents = {Made(agent) : agent \in Agent} \ {0}
           /\ \A agent :
                 IF agent = raw.agent
                 THEN SavedBy(agent)' = SavedBy(agent) \cup {new} /\ LastSaved(agent)' = new
                 ELSE SavedBy(agent)' = SavedBy(agent) /\ LastSaved(agent)' = LastSaved(agent)
           /\ Artifacts' = Artifacts \cup {run.made + 1}
  <1> USE DEF IInv
  <1> DEFINE e == Saved(evidence')
  <1>1. /\ pc = "save" /\ pc' \in {"submit", "failing"} /\ run' = run /\ raw' = raw
        /\ evidence' = IF raw.agent = "verifier" THEN raw.hash ELSE evidence
        /\ log' = Append(log, e)
    BY DEF Saves, SaveArtifact, Logged, CurrentEvidence
  <1>2. raw.agent \in Agent /\ run.made \in Nat /\ evidence' \in Nat /\ log \in Seq(Entry)
    BY <1>1 DEF CallsAreCounted, Typed, RunTypeOK, RunRecord
  <1>3. /\ e.type = "artifact_saved" /\ e.agent = raw.agent /\ e.made = run.made + 1
        /\ e.verdict = raw.verdict /\ e.evidence = evidence'
        /\ e.parents = {Made(agent) : agent \in Agent} \ {0}
    BY DEF Saved, Event
  <1>4. e \in Entry
    BY SavedIsEntry
  <1>5. \A i \in SavedEvents : i \in 1 .. Len(log)
    BY <1>2 DEF SavedEvents
  <1>6. Len(log) \in Nat
    BY <1>2
  <1> HIDE DEF e, IInv
  <1>7. QED
    BY <1>1, <1>2, <1>3, <1>4, <1>5, <1>6, SavingAppends

(* Saving fails before the write, or it is one of the steps that save      *)
(* nothing, or an artifact is appended.                                    *)
LEMMA SavingDivides ==
    ASSUME IInv, ExecutorNext
    PROVE  \/ OtherStep
           \/ SaveArtifact /\ log' = log /\ pc' = "failing"
           \/ Saves
  <1>1. CASE SaveArtifact
    BY <1>1 DEF SaveArtifact, Logged, Saves
  <1>2. QED
    BY <1>1, StepsDivide

LEMMA QuietSaving ==
    ASSUME log' = log
    PROVE  NothingSaved
  BY DEF NothingSaved, SavedEvents

LEMMA LastIsGreatestStep ==
    ASSUME IInv, ExecutorNext
    PROVE  LastIsGreatest'
  <1> USE DEF IInv
  <1>1. CASE NothingSaved
    BY <1>1, NothingSavedKeeps DEF LastIsGreatest
  <1>2. CASE Saves
    <2>1. \A agent : \A i \in SavedBy(agent) : i \in SavedEvents
      BY DEF SavedBy
    <2> HIDE DEF IInv
    <2>2. LastIsGreatest
      BY DEF IInv
    <2> DEFINE new == Len(log) + 1
    <2>3. /\ new \in Nat /\ \A i \in SavedEvents : i \in Nat /\ i <= new
          /\ \A agent :
                IF agent = raw.agent
                THEN SavedBy(agent)' = SavedBy(agent) \cup {new} /\ LastSaved(agent)' = new
                ELSE SavedBy(agent)' = SavedBy(agent) /\ LastSaved(agent)' = LastSaved(agent)
      BY <1>2, SaveFields
    <2> HIDE DEF new
    <2>4. ASSUME NEW agent \in Agent
          PROVE  /\ LastSaved(agent)' \in SavedBy(agent)' \cup {0}
                 /\ \A i \in SavedBy(agent)' : i <= LastSaved(agent)'
      <3>1. CASE agent = raw.agent
        BY <2>1, <2>3, <3>1
      <3>2. CASE agent # raw.agent
        BY <2>2, <2>3, <3>2 DEF LastIsGreatest
      <3>3. QED
        BY <3>1, <3>2
    <2>5. QED
      BY <2>4 DEF LastIsGreatest
  <1>3. QED
    BY <1>1, <1>2, SavingDivides, OthersSaveNothing, QuietSaving

LEMMA SavedInOrderStep ==
    ASSUME IInv, ExecutorNext
    PROVE  SavedInOrder'
  <1> USE DEF IInv
  <1>1. CASE NothingSaved
    BY <1>1 DEF SavedInOrder, NothingSaved
  <1>2. CASE Saves
    <2>1. SavedUpTo(run.made)
      BY <1>2, SaveFields DEF LogIsAhead, Live
    <2>2. \A i \in SavedEvents : log[i].made \in 1 .. run.made
      BY <2>1 DEF SavedUpTo, Artifacts
    <2>3. SavedInOrder
      OBVIOUS
    <2> HIDE DEF IInv
    <2>4. QED
      BY <1>2, <2>2, <2>3, SaveFields DEF SavedInOrder
  <1>3. QED
    BY <1>1, <1>2, SavingDivides, OthersSaveNothing, QuietSaving

LEMMA LogIsAheadStep ==
    ASSUME IInv, ExecutorNext
    PROVE  LogIsAhead'
  <1> SUFFICES ASSUME pc' # "library"
               PROVE  LogIsAhead'
    BY DEF LogIsAhead
  <1>0. pc # "library"
    BY OtherFields, StepsDivide DEF IInv, SaveArtifact
  <1>1. run.made \in Nat /\ LogIsAhead
    BY DEF IInv, Typed, RunTypeOK, RunRecord
  <1>2. CASE Saves
    <2>1. /\ Artifacts = 1 .. run.made /\ run' = run /\ pc' \in {"submit", "failing"}
          /\ Artifacts' = Artifacts \cup {run.made + 1}
      BY <1>0, <1>1, <1>2, SaveFields DEF LogIsAhead, SavedUpTo, Live
    <2>2. Artifacts' = 1 .. run'.made + 1
      BY <1>1, <2>1
    <2>3. QED
      BY <2>1, <2>2 DEF LogIsAhead, SavedUpTo, Live
  <1>3. CASE Submit /\ SubmitAllowed(run, raw.agent)
    <2>1. /\ pc = "submit" /\ pc' = "invoke" /\ run'.made = run.made + 1
          /\ Artifacts' = Artifacts
      BY <1>3, SubmissionIsCounted, OthersSaveNothing, NothingSavedKeeps DEF IInv, OtherStep
    <2>2. QED
      BY <1>0, <1>1, <2>1 DEF LogIsAhead, SavedUpTo, Live
  <1>4. CASE OtherStep /\ ~(Submit /\ SubmitAllowed(run, raw.agent))
    <2>1. /\ run'.made = run.made /\ (pc = "submit" => pc' \notin Live)
          /\ pc' # "submit" /\ (pc' \in Live => pc \in Live)
          /\ Artifacts' = Artifacts
      BY <1>0, <1>4, OthersSubmitNothing, OtherFields, OthersSaveNothing, NothingSavedKeeps DEF IInv
    <2>2. QED
      BY <1>0, <1>1, <2>1 DEF LogIsAhead, SavedUpTo, Live
  <1>5. CASE SaveArtifact /\ log' = log /\ pc' = "failing"
    <2>1. run' = run /\ Artifacts' = Artifacts
      BY <1>5, QuietSaving, NothingSavedKeeps DEF SaveArtifact
    <2>2. QED
      BY <1>0, <1>1, <1>5, <2>1 DEF LogIsAhead, SavedUpTo, Live
  <1>6. QED
    BY <1>2, <1>3, <1>4, <1>5, SavingDivides

LEMMA LogIsCurrentStep ==
    ASSUME IInv, ExecutorNext
    PROVE  LogIsCurrent'
  <1> SUFFICES ASSUME pc' \in Live, NEW agent \in Agent
               PROVE  IF pc' = "submit" /\ agent = raw'.agent
                      THEN Holds(LastSaved(agent), agent, run.made + 1, raw.verdict)'
                      ELSE Made(agent)' > 0 =>
                             Holds(LastSaved(agent), agent, Made(agent),
                                   run.artifacts[agent].verdict)'
    BY DEF LogIsCurrent
  <1>0. pc # "library"
    BY OtherFields, StepsDivide DEF IInv, SaveArtifact, Live
  <1>1. LogIsCurrent /\ run.artifacts \in [Agent -> Artifact]
    BY DEF IInv, Typed, RunTypeOK, RunRecord
  <1>2. CASE Saves
    <2>1. pc' = "submit" /\ pc = "save"
      BY <1>2, SaveFields DEF Live
    <2>2. CASE agent = raw.agent
      BY <1>2, <2>1, <2>2, SaveFields DEF Holds, SavedBy
    <2>3. CASE agent # raw.agent
      <3>1. Made(agent) > 0 => Holds(LastSaved(agent), agent, Made(agent), run.artifacts[agent].verdict)
        BY <1>1, <2>1 DEF LogIsCurrent, Live
      <3>2. /\ run' = run /\ raw' = raw /\ LastSaved(agent)' = LastSaved(agent)
            /\ SavedBy(agent)' = SavedBy(agent)
            /\ \A i \in SavedBy(agent) : log'[i] = log[i]
        BY <1>2, <2>3, SaveFields DEF SavedBy
      <3>3. QED
        BY <2>3, <3>1, <3>2 DEF Holds, Made
    <2>4. QED
      BY <2>2, <2>3
  <1>3. CASE Submit /\ SubmitAllowed(run, raw.agent)
    <2>1. /\ raw.agent \in Agent /\ pc = "submit" /\ pc' = "invoke"
          /\ run'.artifacts = [run.artifacts EXCEPT
                 ![raw.agent] = [made |-> run.made + 1, verdict |-> raw.verdict]]
      BY <1>3, SubmissionIsCounted
    <2>2. NothingSaved /\ LastSaved(agent)' = LastSaved(agent) /\ SavedBy(agent)' = SavedBy(agent)
      BY <1>3, OthersSaveNothing, NothingSavedKeeps DEF IInv, OtherStep
    <2>3. \A i \in SavedBy(agent) : log'[i] = log[i]
      BY <2>2 DEF NothingSaved, SavedBy
    <2>4. CASE agent = raw.agent
      <3>1. Holds(LastSaved(agent), agent, run.made + 1, raw.verdict)
        BY <1>1, <2>1, <2>4 DEF LogIsCurrent, Live
      <3>2. run'.artifacts[agent] = [made |-> run.made + 1, verdict |-> raw.verdict]
        BY <1>1, <2>1, <2>4
      <3>3. QED
        BY <2>1, <2>2, <2>3, <3>1, <3>2 DEF Holds, Made
    <2>5. CASE agent # raw.agent
      <3>1. Made(agent) > 0 => Holds(LastSaved(agent), agent, Made(agent), run.artifacts[agent].verdict)
        BY <1>1, <2>1, <2>5 DEF LogIsCurrent, Live
      <3>2. run'.artifacts[agent] = run.artifacts[agent]
        BY <1>1, <2>1, <2>5
      <3>3. QED
        BY <2>1, <2>2, <2>3, <3>1, <3>2 DEF Holds, Made
    <2>6. QED
      BY <2>4, <2>5
  <1>4. CASE OtherStep /\ ~(Submit /\ SubmitAllowed(run, raw.agent))
    <2>1. /\ run'.artifacts = run.artifacts /\ pc # "submit"
          /\ pc' # "submit" /\ pc \in Live
      BY <1>0, <1>4, OthersSubmitNothing, OtherFields DEF IInv
    <2>2. NothingSaved /\ LastSaved(agent)' = LastSaved(agent) /\ SavedBy(agent)' = SavedBy(agent)
      BY <1>4, OthersSaveNothing, NothingSavedKeeps DEF IInv
    <2>3. \A i \in SavedBy(agent) : log'[i] = log[i]
      BY <2>2 DEF NothingSaved, SavedBy
    <2>4. QED
      BY <1>1, <2>1, <2>2, <2>3 DEF LogIsCurrent, Holds, Made
  <1>5. CASE SaveArtifact /\ pc' = "failing"
    BY <1>5 DEF Live
  <1>6. QED
    BY <1>2, <1>3, <1>4, <1>5, SavingDivides

LEMMA RunIsLoggedStep ==
    ASSUME IInv, ExecutorNext
    PROVE  RunIsLogged'
  <1> SUFFICES ASSUME pc' # "library", NEW agent \in Agent, Made(agent)' > 0
               PROVE  \E i \in SavedEvents' :
                         /\ log'[i].agent = agent /\ log'[i].made = Made(agent)'
                         /\ log'[i].verdict = run'.artifacts[agent].verdict
    BY DEF RunIsLogged
  <1>0. pc # "library"
    BY OtherFields, StepsDivide DEF IInv, SaveArtifact
  <1>1. /\ run.artifacts \in [Agent -> Artifact] /\ LogIsCurrent
        /\ Made(agent) > 0 =>
              \E i \in SavedEvents :
                 /\ log[i].agent = agent /\ log[i].made = Made(agent)
                 /\ log[i].verdict = run.artifacts[agent].verdict
    BY <1>0 DEF IInv, Typed, RunTypeOK, RunRecord, RunIsLogged
  <1>2. SavedEvents \subseteq SavedEvents' /\ \A i \in SavedEvents : log'[i] = log[i]
    BY SavingDivides, OthersSaveNothing, QuietSaving, SaveFields DEF IInv, NothingSaved
  <1>3. CASE run'.artifacts[agent] = run.artifacts[agent]
    BY <1>1, <1>2, <1>3 DEF Made
  <1>4. CASE Submit /\ SubmitAllowed(run, raw.agent) /\ agent = raw.agent
    <2>1. /\ pc = "submit"
          /\ run'.artifacts[agent] = [made |-> run.made + 1, verdict |-> raw.verdict]
      BY <1>1, <1>4, SubmissionIsCounted
    <2>2. Holds(LastSaved(agent), agent, run.made + 1, raw.verdict)
      BY <1>1, <1>4, <2>1 DEF LogIsCurrent, Live
    <2>3. QED
      BY <1>2, <2>1, <2>2 DEF Holds, SavedBy, Made
  <1>5. CASE Submit /\ SubmitAllowed(run, raw.agent) /\ agent # raw.agent
    <2>1. run'.artifacts[agent] = run.artifacts[agent]
      BY <1>1, <1>5, SubmissionIsCounted
    <2>2. QED
      BY <1>3, <2>1
  <1>6. CASE ~(Submit /\ SubmitAllowed(run, raw.agent))
    <2>1. run'.artifacts = run.artifacts
      BY <1>0, <1>6, StepsDivide, OthersSubmitNothing
    <2>2. QED
      BY <1>3, <2>1
  <1>7. QED
    BY <1>4, <1>5, <1>6

-----------------------------------------------------------------------------
(* The lineage.                                                            *)

LEMMA ParentsStep ==
    ASSUME IInv, ExecutorNext
    PROVE  ParentsComeFirst'
  <1>0. ParentsComeFirst
    BY DEF IInv
  <1>1. CASE NothingSaved
    BY <1>0, <1>1 DEF ParentsComeFirst, NothingSaved
  <1>2. CASE Saves
    <2> DEFINE new == Len(log) + 1
               parents == {Made(agent) : agent \in Agent} \ {0}
    <2>1. /\ run.made \in Nat /\ SavedEvents' = SavedEvents \cup {new}
          /\ \A i \in SavedEvents : log'[i] = log[i]
          /\ log'[new].made = run.made + 1 /\ log'[new].parents = parents
      BY <1>2, SaveFields
    <2>2. \A agent \in Agent : Made(agent) \in Nat /\ Made(agent) <= run.made
      BY DEF IInv, ChainPerStage, Typed, RunTypeOK, RunRecord, Artifact, Made
    <2>3. \A p \in parents : 0 < p /\ p < run.made + 1
      BY <2>1, <2>2
    <2>4. run.made + 1 > 1 => run.made \in parents
      BY <2>1 DEF IInv, Numbered, LastIsInForce
    <2> HIDE DEF new, parents
    <2>5. QED
      BY <1>0, <2>1, <2>3, <2>4 DEF ParentsComeFirst
  <1>3. QED
    BY <1>1, <1>2, SavingDivides, OthersSaveNothing, QuietSaving DEF IInv

LEMMA EvidenceIsOnFileStep ==
    ASSUME IInv, ExecutorNext
    PROVE  EvidenceIsOnFile'
  <1>0. EvidenceIsOnFile
    BY DEF IInv
  <1>1. CASE NothingSaved /\ (pc' \in Live => pc \in Live /\ evidence' = evidence)
    <2>1. SavedBy("verifier")' = SavedBy("verifier")
      BY <1>1, NothingSavedKeeps
    <2>2. \A i \in SavedBy("verifier") : i \in SavedEvents
      BY DEF SavedBy
    <2>3. QED
      BY <1>0, <1>1, <2>1, <2>2 DEF EvidenceIsOnFile, NothingSaved
  <1>2. CASE Saves
    <2> DEFINE new == Len(log) + 1
    <2>1. /\ new \in Nat /\ SavedEvents' = SavedEvents \cup {new}
          /\ \A i \in SavedEvents : i \in Nat /\ i < new /\ log'[i] = log[i]
          /\ log'[new].evidence = evidence' /\ log'[new].agent = raw.agent
          /\ evidence' = IF raw.agent = "verifier" THEN raw.hash ELSE evidence
          /\ raw.agent = "verifier" => SavedBy("verifier")' = SavedBy("verifier") \cup {new}
          /\ raw.agent # "verifier" => SavedBy("verifier")' = SavedBy("verifier")
      BY <1>2, SaveFields
    <2>2. pc \in Live /\ (raw.agent = "verifier" => raw.hash # 0)
      BY <1>2, SaveFields DEF IInv, CallsAreCounted, Live
    <2>3. \A i \in SavedBy("verifier") : i \in SavedEvents
      BY DEF SavedBy
    <2> HIDE DEF new
    <2>4. evidence' # 0 => \E j \in SavedBy("verifier")' : j <= new /\ log'[j].evidence = evidence'
      <3>1. CASE raw.agent = "verifier"
        BY <2>1, <3>1
      <3>2. CASE raw.agent # "verifier"
        BY <1>0, <2>1, <2>2, <2>3, <3>2 DEF EvidenceIsOnFile
      <3>3. QED
        BY <3>1, <3>2
    <2>5. ASSUME NEW i \in SavedEvents, log[i].evidence # 0
          PROVE  \E j \in SavedBy("verifier")' : j <= i /\ log'[j].evidence = log'[i].evidence
      <3>1. PICK j \in SavedBy("verifier") : j <= i /\ log[j].evidence = log[i].evidence
        BY <1>0, <2>5 DEF EvidenceIsOnFile
      <3>2. j \in SavedBy("verifier")' /\ j \in SavedEvents
        BY <2>1, <2>3, <3>1
      <3>3. QED
        BY <2>1, <3>1, <3>2
    <2>6. \A i \in SavedEvents : log[i].agent = "verifier" => log[i].evidence # 0
      BY <1>0 DEF EvidenceIsOnFile
    <2>7. QED
      BY <2>1, <2>2, <2>4, <2>5, <2>6 DEF EvidenceIsOnFile
  <1>3. CASE OtherStep
    BY <1>1, <1>3, OthersSaveNothing, OtherFields DEF IInv
  <1>4. CASE SaveArtifact /\ log' = log /\ pc' = "failing"
    BY <1>1, <1>4, QuietSaving DEF Live
  <1>5. QED
    BY <1>2, <1>3, <1>4, SavingDivides

LEMMA BoundStep ==
    ASSUME IInv, ExecutorNext
    PROVE  BoundToPacket'
  <1> SUFFICES ASSUME pc' \in Live
               PROVE  BoundToPacket'
    BY DEF BoundToPacket
  <1>0. BoundToPacket
    BY DEF IInv
  <1>1. CASE Saves
    <2> DEFINE new == Len(log) + 1
    <2>1. /\ new \in Nat /\ SavedEvents' = SavedEvents \cup {new}
          /\ \A i \in SavedEvents : i \in Nat /\ i < new /\ log'[i] = log[i]
          /\ log'[new].evidence = evidence'
          /\ evidence' = IF raw.agent = "verifier" THEN raw.hash ELSE evidence
          /\ raw.agent = "verifier" => LastSaved("verifier")' = new
          /\ raw.agent # "verifier" => LastSaved("verifier")' = LastSaved("verifier")
      BY <1>1, SaveFields
    <2>2. pc \in Live /\ (raw.agent = "verifier" => raw.hash # 0)
      BY <1>1, SaveFields DEF IInv, CallsAreCounted, Live
    <2> HIDE DEF new
    <2>3. CASE raw.agent = "verifier"
      BY <2>1, <2>2, <2>3 DEF BoundToPacket
    <2>4. CASE raw.agent # "verifier"
      BY <1>0, <2>1, <2>2, <2>4 DEF BoundToPacket
    <2>5. QED
      BY <2>3, <2>4
  <1>2. CASE OtherStep
    <2>1. /\ pc \in Live /\ evidence' = evidence /\ NothingSaved
          /\ LastSaved("verifier")' = LastSaved("verifier")
      BY <1>2, OtherFields, OthersSaveNothing, NothingSavedKeeps DEF IInv
    <2>2. QED
      BY <1>0, <2>1 DEF BoundToPacket, NothingSaved
  <1>3. CASE SaveArtifact /\ log' = log /\ pc' = "failing"
    BY <1>3 DEF Live
  <1>4. QED
    BY <1>1, <1>2, <1>3, SavingDivides

-----------------------------------------------------------------------------
(* The queue record.                                                       *)

LEMMA QueueComesLastStep ==
    ASSUME IInv, ExecutorNext
    PROVE  QueueComesLast'
  <1> DEFINE IsRecord(e) == e.type = "local_queue_recorded"
  <1>0. QueueComesLast /\ log \in Seq(Entry)
    BY DEF IInv, Typed
  <1>1. pc' = "queue" =>
            log' # <<>> /\ log'[Len(log')] = Note("human_decision_recorded", "approved", 0)
    <2> SUFFICES ASSUME pc' = "queue"
                 PROVE  log' # <<>> /\ log'[Len(log')] = Note("human_decision_recorded", "approved", 0)
      OBVIOUS
    <2> DEFINE note == Note("human_decision_recorded", "approved", 0)
    <2>1. log' = Append(log, note)
      BY DEF ExecutorNext, Step, LogCreation, Logged, Invoke, Answer, TimeOut, LeaveLoop,
             SaveArtifact, Submit, Decide, Queue, Fail, Die, Library, runtime
    <2>2. note \in Entry
      BY NotesAreEntries DEF Decision
    <2> HIDE DEF note
    <2>3. log' # <<>> /\ log'[Len(log')] = note
      BY <1>0, <2>1, <2>2, AppendFacts
    <2>4. QED
      BY <2>3 DEF note
  <1>2. (\E q \in DOMAIN log' : log'[q].type = "local_queue_recorded") => pc' \in AfterQueue
    <2> SUFFICES ASSUME NEW q \in DOMAIN log', log'[q].type = "local_queue_recorded"
                 PROVE  pc' \in AfterQueue
      OBVIOUS
    <2>1. CASE Queue
      BY <2>1, OtherFields DEF IInv, OtherStep
    <2>2. ASSUME ~Queue
          PROVE  q \in DOMAIN log /\ log'[q] = log[q]
      <3>1. \/ log' = log
            \/ \E e \in Entry : e.type # "local_queue_recorded" /\ log' = Append(log, e)
        <4>1. CASE Saves
          <5>1. Saved(evidence') \in Entry /\ Saved(evidence').type = "artifact_saved"
            BY <4>1, SavedIsEntry
          <5>2. QED
            BY <4>1, <5>1 DEF Saves
        <4>2. CASE OtherStep
          BY <2>2, <4>2, OtherFields DEF IInv
        <4>3. QED
          BY <4>1, <4>2, SavingDivides
      <3>2. QED
        BY <1>0, <3>1, AppendFacts
    <2>3. ASSUME ~Queue
          PROVE  pc \in AfterQueue
      BY <1>0, <2>2, <2>3 DEF QueueComesLast
    <2>4. ASSUME ~Queue
          PROVE  pc' \in AfterQueue
      <3>1. CASE OtherStep
        BY <2>3, <2>4, <3>1, OtherFields DEF IInv
      <3>2. CASE SaveArtifact
        BY <2>3, <2>4, <3>2 DEF SaveArtifact, AfterQueue
      <3>3. QED
        BY <3>1, <3>2, StepsDivide
    <2>5. QED
      BY <2>1, <2>4
  <1>3. QED
    BY <1>1, <1>2 DEF QueueComesLast

(* What a queue record at q says of the log before it.                     *)
QueuedAt(q) ==
    /\ log[q - 1] = Note("human_decision_recorded", "approved", 0)
    /\ 0 < LastSaved("verifier")
    /\ LastSaved("verifier") < LastSaved("strategist")
    /\ LastSaved("strategist") < LastSaved("writer")
    /\ LastSaved("writer") < LastSaved("guardian")
    /\ LastSaved("guardian") < q - 1
    /\ log[LastSaved("verifier")].verdict = "resolved"
    /\ log[LastSaved("guardian")].verdict = "pass"
    /\ log[q].evidence # 0
    /\ \A agent \in {"verifier", "strategist", "writer", "guardian"} :
          log[LastSaved(agent)].evidence = log[q].evidence

QueueRecordsHold ==
    \A q \in DOMAIN log : log[q].type = "local_queue_recorded" => QueuedAt(q)

LEMMA QueuedParts ==
    Typed /\ LastIsGreatest =>
        (QueueIsJustifiedByLog /\ QueuedWorkIsFresh <=> QueueRecordsHold)
  <1> SUFFICES ASSUME LastIsGreatest, log \in Seq(Entry)
               PROVE  QueueIsJustifiedByLog /\ QueuedWorkIsFresh <=>
                          \A q \in DOMAIN log : log[q].type = "local_queue_recorded" => QueuedAt(q)
    BY DEF QueueRecordsHold, Typed
  <1>1. \A agent \in Agent : LastSaved(agent) \in DOMAIN log \cup {0}
    BY DEF LastIsGreatest, SavedBy, SavedEvents
  <1>2. \A agent \in Agent : LastSaved(agent) \in Nat
    BY <1>1
  <1>3. ASSUME NEW q \in DOMAIN log, QueuedAt(q)
        PROVE  \A agent \in {"verifier", "strategist", "writer", "guardian"} :
                  LET last == LastSaved(agent)
                  IN last # 0 /\ log[last].evidence # 0 /\ Fresh(log[last], log[q].evidence)
    <2>1. \A agent \in {"verifier", "strategist", "writer", "guardian"} :
              LastSaved(agent) \in Nat /\ LastSaved(agent) # 0
      BY <1>2, <1>3 DEF QueuedAt, Agent
    <2>2. QED
      BY <1>3, <2>1 DEF QueuedAt, Fresh
  <1>4. ASSUME QueuedWorkIsFresh, NEW q \in DOMAIN log, log[q].type = "local_queue_recorded"
        PROVE  /\ log[q].evidence # 0
               /\ \A agent \in {"verifier", "strategist", "writer", "guardian"} :
                     log[LastSaved(agent)].evidence = log[q].evidence
    BY <1>4 DEF QueuedWorkIsFresh, Fresh
  <1>5. ASSUME QueueIsJustifiedByLog, QueuedWorkIsFresh,
               NEW q \in DOMAIN log, log[q].type = "local_queue_recorded"
        PROVE  QueuedAt(q)
    BY <1>4, <1>5 DEF QueueIsJustifiedByLog, QueuedAt
  <1>6. ASSUME \A q \in DOMAIN log : log[q].type = "local_queue_recorded" => QueuedAt(q)
        PROVE  QueueIsJustifiedByLog
    BY <1>6 DEF QueueIsJustifiedByLog, QueuedAt
  <1>7. ASSUME \A q \in DOMAIN log : log[q].type = "local_queue_recorded" => QueuedAt(q)
        PROVE  QueuedWorkIsFresh
    BY <1>3, <1>7 DEF QueuedWorkIsFresh, QueuedAt
  <1>8. QED
    BY <1>5, <1>6, <1>7

(* A record that is justified stays so, as nothing is saved after it.      *)
LEMMA QueuedStays ==
    ASSUME IInv, NEW q \in DOMAIN log, QueuedAt(q), NothingSaved,
           \A i \in DOMAIN log : log'[i] = log[i]
    PROVE  QueuedAt(q)'
  <1> DEFINE Four == {"verifier", "strategist", "writer", "guardian"}
  <1>1. \A agent : LastSaved(agent)' = LastSaved(agent)
    BY NothingSavedKeeps
  <1>2. \A agent \in Four : LastSaved(agent) \in (1 .. Len(log)) \cup {0}
    BY DEF IInv, LastIsGreatest, SavedBy, SavedEvents, Agent, Typed
  <1>3. /\ 0 < LastSaved("verifier")
        /\ LastSaved("verifier") < LastSaved("strategist")
        /\ LastSaved("strategist") < LastSaved("writer")
        /\ LastSaved("writer") < LastSaved("guardian")
        /\ LastSaved("guardian") < q - 1
    BY DEF QueuedAt
  <1>4. q \in 1 .. Len(log) /\ DOMAIN log = 1 .. Len(log) /\ Len(log) \in Nat
    BY DEF IInv, Typed
  <1>5. \A agent \in Four : LastSaved(agent) \in DOMAIN log
    BY <1>2, <1>3, <1>4
  <1>6. q - 1 \in DOMAIN log
    BY <1>2, <1>3, <1>4
  <1> HIDE DEF IInv
  <1>7. /\ log'[q] = log[q] /\ log'[q - 1] = log[q - 1]
        /\ \A agent \in Four : log'[LastSaved(agent)'] = log[LastSaved(agent)]
    BY <1>1, <1>5, <1>6
  <1>8. QED
    BY <1>1, <1>7 DEF QueuedAt

(* A run that goes to the queue, and its log.                              *)
LEMMA QueuingIsJustified ==
    ASSUME IInv, Queue, log' = Append(log, Note("local_queue_recorded", "none", evidence)),
           NEW q, q = Len(log) + 1
    PROVE  QueuedAt(q)'
  <1> USE DEF IInv
  <1> DEFINE Four == {"verifier", "strategist", "writer", "guardian"}
             note == Note("local_queue_recorded", "none", evidence)
  <1>1. pc = "queue" /\ run.cursor = "local_queue"
    BY DEF Queue, QueueAllowed, CurrentStage, Typed, RunTypeOK, RunRecord
  <1>2. Passed
    BY <1>1 DEF ChainPerStage
  <1>3. /\ 0 < Made("verifier") /\ Made("verifier") < Made("strategist")
        /\ Made("strategist") < Made("writer") /\ Made("writer") < Made("guardian")
        /\ run.artifacts["verifier"].verdict = "resolved"
        /\ run.artifacts["guardian"].verdict = "pass"
        /\ \A agent \in Four : Made(agent) \in Nat /\ Made(agent) > 0
    <2>1. \A agent \in Agent : Made(agent) \in Nat
      BY DEF Typed, RunTypeOK, RunRecord, Artifact, Made
    <2>2. Four \subseteq Agent /\ "orchestrator" \in Agent
      BY DEF Agent
    <2>3. /\ 0 < Made("orchestrator") /\ Made("orchestrator") < Made("verifier")
          /\ Made("verifier") < Made("strategist")
          /\ Made("strategist") < Made("writer") /\ Made("writer") < Made("guardian")
          /\ run.artifacts["verifier"].verdict = "resolved"
          /\ run.artifacts["guardian"].verdict = "pass"
      BY <1>2 DEF Passed, Drafted, Briefed, Evident, Discovered
    <2> HIDE DEF IInv
    <2>4. QED
      BY <2>1, <2>2, <2>3
  <1>4. \A agent \in Four :
            Holds(LastSaved(agent), agent, Made(agent), run.artifacts[agent].verdict)
    BY <1>1, <1>3 DEF LogIsCurrent, Live, Agent
  <1>5. \A agent \in Four :
            /\ LastSaved(agent) \in SavedEvents /\ log[LastSaved(agent)].made = Made(agent)
            /\ LastSaved(agent) \in 1 .. Len(log)
    BY <1>4 DEF Holds, SavedBy, SavedEvents, Typed
  <1>6. \A a, b \in Four : Made(a) < Made(b) => LastSaved(a) < LastSaved(b)
    <2> SUFFICES ASSUME NEW a \in Four, NEW b \in Four, Made(a) < Made(b)
                 PROVE  LastSaved(a) < LastSaved(b)
      OBVIOUS
    <2>1. ~(LastSaved(b) < LastSaved(a))
      <3> SUFFICES ASSUME LastSaved(b) < LastSaved(a)
                   PROVE  FALSE
        OBVIOUS
      <3>1. Made(b) < Made(a)
        BY <1>5 DEF SavedInOrder
      <3>2. QED
        BY <1>3, <3>1
    <2>2. LastSaved(b) # LastSaved(a)
      BY <1>3, <1>5
    <2>3. LastSaved(a) \in Nat /\ LastSaved(b) \in Nat
      BY <1>5
    <2>4. QED
      BY <2>1, <2>2, <2>3
  <1>7. /\ 0 < LastSaved("verifier")
        /\ LastSaved("verifier") < LastSaved("strategist")
        /\ LastSaved("strategist") < LastSaved("writer")
        /\ LastSaved("writer") < LastSaved("guardian")
    BY <1>3, <1>5, <1>6
  <1>8. /\ log # <<>> /\ Len(log) \in Nat /\ log \in Seq(Entry)
        /\ log[Len(log)] = Note("human_decision_recorded", "approved", 0)
    BY <1>1 DEF QueueComesLast, Typed
  <1>9. LastSaved("guardian") < Len(log)
    <2>1. log[Len(log)].type # "artifact_saved"
      BY <1>8 DEF Note, Event
    <2>2. Len(log) # LastSaved("guardian")
      BY <1>5, <2>1 DEF SavedEvents
    <2>3. QED
      BY <1>5, <1>8, <2>2
  <1>10. evidence # 0 /\ \A agent \in Four : log[LastSaved(agent)].evidence = evidence
    BY <1>1, <1>5, <1>7 DEF BoundToPacket, Live
  <1>11. log[LastSaved("verifier")].verdict = "resolved" /\ log[LastSaved("guardian")].verdict = "pass"
    BY <1>3, <1>4 DEF Holds
  <1>12. note \in Entry /\ note.evidence = evidence
    <2>1. note \in Entry
      BY NotesAreEntries DEF Typed
    <2>2. QED
      BY <2>1 DEF Note, Event
  <1>13. NothingSaved
    BY OthersSaveNothing DEF OtherStep
  <1>14. \A agent : LastSaved(agent)' = LastSaved(agent)
    BY <1>13, NothingSavedKeeps
  <1> HIDE DEF IInv, note
  <1>15. /\ Len(log)' = Len(log) + 1 /\ log'[Len(log) + 1] = note
         /\ \A i \in 1 .. Len(log) : log'[i] = log[i]
    BY <1>8, <1>12, AppendFacts DEF note
  <1>16. q - 1 = Len(log) /\ Len(log) \in 1 .. Len(log)
    BY <1>8
  <1>17. /\ log'[q].evidence = evidence
         /\ log'[q - 1] = Note("human_decision_recorded", "approved", 0)
    BY <1>8, <1>12, <1>15, <1>16
  <1>18. \A agent \in Four : log'[LastSaved(agent)'] = log[LastSaved(agent)]
    BY <1>5, <1>14, <1>15
  <1>19. QED
    BY <1>7, <1>9, <1>10, <1>11, <1>14, <1>16, <1>17, <1>18 DEF QueuedAt

LEMMA QueuedStep ==
    ASSUME IInv, ExecutorNext, LastIsGreatest', Typed'
    PROVE  QueueIsJustifiedByLog' /\ QueuedWorkIsFresh'
  <1>1. log \in Seq(Entry) /\ \A q \in DOMAIN log : log[q].type = "local_queue_recorded" => QueuedAt(q)
    BY QueuedParts DEF IInv, Typed, QueueRecordsHold
  <1>0. QueueRecordsHold' => QueueIsJustifiedByLog' /\ QueuedWorkIsFresh'
    BY QueuedParts, PTL
  <1>2. SUFFICES ASSUME NEW q \in DOMAIN log', log'[q].type = "local_queue_recorded"
                 PROVE  QueuedAt(q)'
    BY <1>0 DEF QueueRecordsHold
  <1>3. CASE q \in DOMAIN log /\ \A i \in DOMAIN log : log'[i] = log[i]
    <2>1. QueuedAt(q)
      BY <1>1, <1>2, <1>3
    <2>2. pc \in AfterQueue
      BY <1>2, <1>3 DEF IInv, QueueComesLast
    <2>3. OtherStep
      BY <2>2, StepsDivide DEF SaveArtifact, AfterQueue
    <2>4. NothingSaved
      BY <2>3, OthersSaveNothing DEF IInv
    <2>5. QED
      BY <1>3, <2>1, <2>4, QueuedStays
  <1>4. CASE Queue /\ log' = Append(log, Note("local_queue_recorded", "none", evidence))
    <2>1. Note("local_queue_recorded", "none", evidence) \in Entry
      BY NotesAreEntries DEF IInv, Typed
    <2>2. CASE q \in DOMAIN log
      BY <1>1, <1>3, <1>4, <2>1, <2>2, AppendFacts
    <2>3. CASE q = Len(log) + 1
      BY <1>4, <2>3, QueuingIsJustified
    <2>4. q \in 1 .. Len(log) + 1 /\ DOMAIN log = 1 .. Len(log) /\ Len(log) \in Nat
      BY <1>1, <1>2, <1>4, <2>1, AppendFacts
    <2>5. QED
      BY <2>2, <2>3, <2>4
  <1>5. CASE log' = log
    BY <1>2, <1>3, <1>5
  <1>6. CASE \E e \in Entry : e.type # "local_queue_recorded" /\ log' = Append(log, e)
    <2>1. PICK e \in Entry : e.type # "local_queue_recorded" /\ log' = Append(log, e)
      BY <1>6
    <2>2. \A i \in DOMAIN log : log'[i] = log[i]
      BY <1>1, <2>1, AppendFacts
    <2>3. /\ DOMAIN log = 1 .. Len(log) /\ Len(log) \in Nat
          /\ DOMAIN log' = 1 .. Len(log) + 1 /\ log'[Len(log) + 1] = e
      BY <1>1, <2>1, AppendFacts
    <2>4. q # Len(log) + 1
      BY <1>2, <2>1, <2>3
    <2>5. q \in DOMAIN log
      BY <1>2, <2>3, <2>4
    <2>6. QED
      BY <1>3, <2>2, <2>5
  <1>7. \/ Queue /\ log' = Append(log, Note("local_queue_recorded", "none", evidence))
        \/ log' = log
        \/ \E e \in Entry : e.type # "local_queue_recorded" /\ log' = Append(log, e)
    <2>1. CASE Saves
      <3>1. Saved(evidence') \in Entry /\ Saved(evidence').type = "artifact_saved"
        BY <2>1, SavedIsEntry
      <3>3. QED
        BY <2>1, <3>1 DEF Saves
    <2>2. CASE OtherStep
      BY <2>2, OtherFields DEF IInv
    <2>3. QED
      BY <2>1, <2>2, SavingDivides
  <1>8. QED
    BY <1>4, <1>5, <1>6, <1>7

-----------------------------------------------------------------------------
LEMMA InvInit == ExecutorInit => IInv
  <1> SUFFICES ASSUME ExecutorInit PROVE IInv
    OBVIOUS
  <1>1. Init
    BY RunInit
  <1>2. RunTypeOK /\ CountsPerStage /\ ChainPerStage /\ Numbered
    BY <1>1, TypeInit, CountsInit, ChainInit, NumberedInit
  <1>3. /\ run.made = 0 /\ \A agent \in Agent : run.counts[agent] = 0 /\ Made(agent) = 0
    BY <1>1 DEF Init, CreateRunState, Made, NoArtifact
  <1>4. /\ log = <<>> /\ evidence = 0 /\ raw = NoRaw /\ given \in Decision
        /\ asked = [agent \in Agent |-> 0]
        /\ pc \in {"library", "create"}
        /\ budget \in [attempts: Nat \ {0}, invocations: Nat \ {0}]
    BY BudgetAssumption DEF ExecutorInit, InitLibrary, InitExecutor
  <1>5. SavedEvents = {} /\ DOMAIN log = {}
    BY <1>4 DEF SavedEvents
  <1>6. Artifacts = {} /\ \A agent : SavedBy(agent) = {}
    BY <1>5 DEF Artifacts, SavedBy
  <1>7. \A agent : LastSaved(agent) = 0
    <2>1. \A agent : LastSaved(agent) = Max({0})
      BY <1>6 DEF LastSaved, SavedBy
    <2>2. Max({0}) = 0
      BY GreatestIsMax
    <2>3. QED
      BY <2>1, <2>2
  <1>8. Typed
    BY <1>2, <1>4 DEF Typed, Live, NoRaw
  <1>9. CallsAreCounted
    BY <1>3, <1>4 DEF CallsAreCounted, Live
  <1>10. RunIsLogged /\ QueueIsJustifiedByLog /\ QueuedWorkIsFresh /\ QueueComesLast
    BY <1>3, <1>4, <1>5 DEF RunIsLogged, QueueIsJustifiedByLog, QueuedWorkIsFresh, QueueComesLast
  <1>11. LastIsGreatest /\ SavedInOrder /\ ParentsComeFirst
    BY <1>5, <1>6, <1>7 DEF LastIsGreatest, SavedInOrder, ParentsComeFirst
  <1>12. LogIsAhead
    BY <1>3, <1>4, <1>6 DEF LogIsAhead, SavedUpTo
  <1>13. LogIsCurrent
    BY <1>3, <1>4 DEF LogIsCurrent
  <1>14. EvidenceIsOnFile /\ BoundToPacket
    BY <1>4, <1>5, <1>7 DEF EvidenceIsOnFile, BoundToPacket
  <1>15. QED
    BY <1>2, <1>8, <1>9, <1>10, <1>11, <1>12, <1>13, <1>14 DEF IInv

LEMMA InvStutter == IInv /\ UNCHANGED vars => IInv'
  <1> SUFFICES ASSUME IInv, UNCHANGED vars PROVE IInv'
    OBVIOUS
  <1>1. /\ run' = run /\ pc' = pc /\ log' = log
        /\ budget' = budget /\ asked' = asked /\ raw' = raw /\ given' = given /\ evidence' = evidence
    BY DEF vars, runtime
  <1>2. NothingSaved
    BY <1>1, QuietSaving
  <1>3. /\ \A agent : SavedBy(agent)' = SavedBy(agent) /\ LastSaved(agent)' = LastSaved(agent)
        /\ Artifacts' = Artifacts /\ SavedEvents' = SavedEvents
    BY <1>2, NothingSavedKeeps DEF NothingSaved
  <1>4. Typed' /\ CallsAreCounted'
    BY <1>1 DEF IInv, Typed, RunTypeOK, CallsAreCounted, AgentAtWork, CurrentStage
  <1>5. CountsPerStage' /\ ChainPerStage' /\ Numbered'
    BY <1>1, CountsStep, ChainStep, NumberedStep DEF IInv, Typed
  <1>6. RunIsLogged' /\ LogIsAhead' /\ LogIsCurrent'
    BY <1>1, <1>3 DEF IInv, RunIsLogged, LogIsAhead, SavedUpTo, LogIsCurrent, Holds, Made
  <1>7. LastIsGreatest' /\ SavedInOrder' /\ ParentsComeFirst'
    BY <1>1, <1>3 DEF IInv, LastIsGreatest, SavedInOrder, ParentsComeFirst
  <1>8. QueueIsJustifiedByLog' /\ QueuedWorkIsFresh' /\ QueueComesLast'
    BY <1>1, <1>3 DEF IInv, QueueIsJustifiedByLog, QueuedWorkIsFresh, QueueComesLast
  <1>9. EvidenceIsOnFile' /\ BoundToPacket'
    BY <1>1, <1>3 DEF IInv, EvidenceIsOnFile, BoundToPacket
  <1>10. QED
    BY <1>4, <1>5, <1>6, <1>7, <1>8, <1>9 DEF IInv

LEMMA InvStep == IInv /\ [ExecutorNext]_vars => IInv'
  <1> SUFFICES ASSUME IInv, ExecutorNext PROVE IInv'
    BY InvStutter
  <1>1. [Next]_run
    BY StepsAreCalls DEF IInv
  <1>2. CountsPerStage' /\ ChainPerStage' /\ Numbered'
    BY <1>1, CountsStep, ChainStep, NumberedStep DEF IInv, Typed
  <1>3. Typed'
    BY TypedStep
  <1>4. CallsAreCounted'
    BY <1>3, CountedStep
  <1>5. LastIsGreatest' /\ SavedInOrder' /\ LogIsAhead' /\ LogIsCurrent' /\ RunIsLogged'
    BY LastIsGreatestStep, SavedInOrderStep, LogIsAheadStep, LogIsCurrentStep, RunIsLoggedStep
  <1>6. ParentsComeFirst' /\ EvidenceIsOnFile' /\ BoundToPacket' /\ QueueComesLast'
    BY ParentsStep, EvidenceIsOnFileStep, BoundStep, QueueComesLastStep
  <1>7. QueueIsJustifiedByLog' /\ QueuedWorkIsFresh'
    BY <1>3, <1>5, QueuedStep
  <1>8. QED
    BY <1>2, <1>3, <1>4, <1>5, <1>6, <1>7 DEF IInv

LEMMA Soundness == ExecutorSpec => []IInv
  BY InvInit, InvStep, PTL DEF ExecutorSpec


-----------------------------------------------------------------------------
(* The dependency index.                                                   *)

LEMMA Least ==
    ASSUME NEW T, T \subseteq Nat, T # {}
    PROVE  \E n \in T : \A m \in T : n <= m
  <1> DEFINE R == {ss \in Nat \X Nat : ss[1] < ss[2]}
  <1>1. IsWellFoundedOn(R, Nat)
    BY NatLessThanWellFounded DEF OpToRel
  <1>2. \A m, n \in Nat : m < n => <<m, n>> \in R
    OBVIOUS
  <1> HIDE DEF R
  <1>3. PICK n \in T : \A m \in T : ~ (<<m, n>> \in R)
    BY <1>1, WFMin
  <1>4. \A m \in T : ~ (m < n)
    BY <1>2, <1>3
  <1>5. \A m \in T : m \in Nat /\ n \in Nat
    BY <1>3
  <1>6. QED
    BY <1>3, <1>4, <1>5

(* Induction on the members of a set.                                      *)
LEMMA AllNaturals ==
    ASSUME NEW S, 0 \in S, \A n \in Nat : n \in S => n + 1 \in S
    PROVE  Nat \subseteq S
  <1> DEFINE T == Nat \ S
  <1> SUFFICES ASSUME T # {} PROVE FALSE
    OBVIOUS
  <1>1. PICK n \in T : \A m \in T : n <= m
    BY Least
  <1>2. n \in Nat /\ n # 0 /\ n \notin S
    BY <1>1
  <1>3. n - 1 \in Nat /\ n - 1 \notin T
    BY <1>1, <1>2
  <1>4. QED
    BY <1>2, <1>3

(* What f[n] holds is what is n generations away from the start.           *)
IsWalk(f, start) ==
    f = [n \in Nat |-> IF n = 0 THEN start ELSE f[n - 1] \cup ChildrenOf(f[n - 1])]

(* A walk of n steps, each to a child or nowhere.                          *)
Path(p, n, start) ==
    /\ p \in [0 .. n -> Nat] /\ p[0] \in start
    /\ \A k \in 1 .. n : p[k] = p[k - 1] \/ p[k] \in ChildrenOf({p[k - 1]})

Reached(n, start) == {m \in Nat : \E p : Path(p, n, start) /\ p[n] = m}

LEMMA ChildrenOfOne ==
    \A S, m : m \in ChildrenOf(S) <=> \E p \in S : m \in ChildrenOf({p})
  BY DEF ChildrenOf

LEMMA ChildrenAreMade ==
    ASSUME log \in Seq(Entry)
    PROVE  \A S : ChildrenOf(S) \subseteq Nat
  <1>1. \A i \in SavedEvents : log[i] \in Entry
    BY DEF SavedEvents
  <1>2. \A i \in SavedEvents : log[i].made \in Nat
    BY <1>1 DEF Entry
  <1>3. QED
    BY <1>2 DEF ChildrenOf

LEMMA ReachedNext ==
    ASSUME log \in Seq(Entry), NEW start, start \subseteq Nat, NEW n \in Nat, n # 0
    PROVE  Reached(n, start) = Reached(n - 1, start) \cup ChildrenOf(Reached(n - 1, start))
  <1>1. ASSUME NEW m \in Reached(n, start)
        PROVE  m \in Reached(n - 1, start) \cup ChildrenOf(Reached(n - 1, start))
    <2>1. PICK p : Path(p, n, start) /\ p[n] = m
      BY <1>1 DEF Reached
    <2> DEFINE q == [k \in 0 .. n - 1 |-> p[k]]
    <2>2. Path(q, n - 1, start) /\ q[n - 1] = p[n - 1] /\ p[n - 1] \in Nat
      <3>1. n - 1 \in Nat /\ \A k \in 0 .. n - 1 : k \in 0 .. n /\ q[k] = p[k] /\ p[k] \in Nat
        BY <2>1 DEF Path
      <3>2. q \in [0 .. n - 1 -> Nat] /\ q[0] \in start
        BY <2>1, <3>1 DEF Path
      <3>3. ASSUME NEW k \in 1 .. n - 1
            PROVE  q[k] = q[k - 1] \/ q[k] \in ChildrenOf({q[k - 1]})
        <4>1. k \in 0 .. n - 1 /\ k - 1 \in 0 .. n - 1 /\ k \in 1 .. n
          OBVIOUS
        <4>2. QED
          BY <2>1, <3>1, <4>1 DEF Path
      <3>4. q[n - 1] = p[n - 1] /\ p[n - 1] \in Nat
        BY <3>1
      <3> HIDE DEF q
      <3>5. QED
        BY <3>1, <3>2, <3>3, <3>4 DEF Path
    <2>3. p[n - 1] \in Reached(n - 1, start)
      BY <2>2 DEF Reached
    <2>4. m = p[n - 1] \/ m \in ChildrenOf({p[n - 1]})
      BY <2>1 DEF Path
    <2>5. QED
      BY <2>3, <2>4, ChildrenOfOne
  <1>2. ASSUME NEW m \in Nat, NEW l \in Reached(n - 1, start), m = l \/ m \in ChildrenOf({l})
        PROVE  m \in Reached(n, start)
    <2>1. PICK p : Path(p, n - 1, start) /\ p[n - 1] = l
      BY DEF Reached
    <2> DEFINE q == [k \in 0 .. n |-> IF k = n THEN m ELSE p[k]]
    <2>2. q \in [0 .. n -> Nat] /\ q[0] \in start
      BY <2>1 DEF Path
    <2>3. ASSUME NEW k \in 1 .. n
          PROVE  q[k] = q[k - 1] \/ q[k] \in ChildrenOf({q[k - 1]})
      <3>1. CASE k = n
        <4>1. q[k] = m /\ q[k - 1] = l
          BY <2>1, <3>1
        <4>2. QED
          BY <1>2, <4>1
      <3>2. CASE k # n
        <4>1. q[k] = p[k] /\ q[k - 1] = p[k - 1] /\ k \in 1 .. n - 1
          BY <3>2
        <4>2. QED
          BY <2>1, <4>1 DEF Path
      <3>3. QED
        BY <3>1, <3>2
    <2>4. q[n] = m
      OBVIOUS
    <2> HIDE DEF q
    <2>5. Path(q, n, start)
      BY <2>2, <2>3 DEF Path
    <2>6. QED
      BY <2>4, <2>5 DEF Reached
  <1>3. Reached(n - 1, start) \subseteq Nat /\ ChildrenOf(Reached(n - 1, start)) \subseteq Nat
    BY ChildrenAreMade DEF Reached
  <1>4. QED
    BY <1>1, <1>2, <1>3, ChildrenOfOne

LEMMA ReachedFirst ==
    ASSUME NEW start, start \subseteq Nat
    PROVE  Reached(0, start) = start
  <1>1. ASSUME NEW m \in start
        PROVE  m \in Reached(0, start)
    <2> DEFINE p == [k \in 0 .. 0 |-> m]
    <2>1. Path(p, 0, start) /\ p[0] = m
      BY DEF Path
    <2>2. QED
      BY <2>1 DEF Reached
  <1>2. QED
    BY <1>1 DEF Reached, Path

(* The recursive function of the index is defined: walks are one.          *)
LEMMA WalkIsDefined ==
    ASSUME log \in Seq(Entry), NEW start, start \subseteq Nat
    PROVE  \E f : IsWalk(f, start) /\ CollectDependentArtifacts(start) = f[Cardinality(Artifacts)]
  <1> DEFINE g == [n \in Nat |-> Reached(n, start)]
  <1>1. \A n \in Nat : g[n] = IF n = 0 THEN start ELSE g[n - 1] \cup ChildrenOf(g[n - 1])
    <2> SUFFICES ASSUME NEW n \in Nat
                 PROVE  g[n] = IF n = 0 THEN start ELSE g[n - 1] \cup ChildrenOf(g[n - 1])
      OBVIOUS
    <2>1. CASE n = 0
      BY <2>1, ReachedFirst
    <2>2. CASE n # 0
      <3>1. n - 1 \in Nat
        BY <2>2
      <3>2. g[n] = Reached(n, start) /\ g[n - 1] = Reached(n - 1, start)
        BY <3>1
      <3>3. QED
        BY <2>2, <3>2, ReachedNext
    <2>3. QED
      BY <2>1, <2>2
  <1>2. g = [n \in Nat |-> IF n = 0 THEN start ELSE g[n - 1] \cup ChildrenOf(g[n - 1])]
    BY <1>1
  <1>3. IsWalk(g, start)
    BY <1>2 DEF IsWalk
  <1> HIDE DEF g
  <1>4. IsWalk(CHOOSE f : IsWalk(f, start), start)
    BY <1>3
  <1>5. CollectDependentArtifacts(start) = (CHOOSE f : IsWalk(f, start))[Cardinality(Artifacts)]
    BY DEF CollectDependentArtifacts, IsWalk
  <1>6. QED
    BY <1>4, <1>5

(* Where every artifact has the one before it among its parents, the walk  *)
(* from one on finds all that follow it.                                   *)
LEMMA WalkFindsAllAfter ==
    ASSUME log \in Seq(Entry), ParentsComeFirst, NEW last \in Nat, SavedUpTo(last),
           NEW start, NEW first \in start, start \subseteq first .. last,
           first \in Nat, first > 0
    PROVE  CollectDependentArtifacts(start) = first .. last
  <1>1. \A S : ChildrenOf(S) \subseteq 1 .. last
    BY DEF ChildrenOf, SavedUpTo, Artifacts
  <1>2. \A S, m : m \in ChildrenOf(S) => \E p \in S : p < m
    BY DEF ChildrenOf, ParentsComeFirst
  <1>3. ASSUME NEW S, NEW m \in S, m + 1 \in 1 .. last, m > 0, m \in Nat
        PROVE  m + 1 \in ChildrenOf(S)
    <2>1. PICK i \in SavedEvents : log[i].made = m + 1
      BY <1>3 DEF SavedUpTo, Artifacts
    <2>2. m \in log[i].parents
      BY <1>3, <2>1 DEF ParentsComeFirst
    <2>3. QED
      BY <2>1, <2>2 DEF ChildrenOf
  <1>4. start \subseteq Nat
    OBVIOUS
  <1>5. PICK f : IsWalk(f, start) /\ CollectDependentArtifacts(start) = f[Cardinality(Artifacts)]
    BY <1>4, WalkIsDefined
  <1>6. /\ f[0] = start
        /\ \A n \in Nat : f[n + 1] = f[n] \cup ChildrenOf(f[n])
    <2>1. \A n \in Nat : f[n] = IF n = 0 THEN start ELSE f[n - 1] \cup ChildrenOf(f[n - 1])
      <3> DEFINE step == [n \in Nat |-> IF n = 0 THEN start ELSE f[n - 1] \cup ChildrenOf(f[n - 1])]
      <3>1. f = step
        BY <1>5 DEF IsWalk
      <3>2. \A n \in Nat : step[n] = IF n = 0 THEN start ELSE f[n - 1] \cup ChildrenOf(f[n - 1])
        OBVIOUS
      <3> HIDE DEF step
      <3>3. QED
        BY <3>1, <3>2
    <2>2. \A n \in Nat : n + 1 \in Nat /\ n + 1 # 0 /\ (n + 1) - 1 = n
      OBVIOUS
    <2>3. ASSUME NEW n \in Nat
          PROVE  f[n + 1] = f[n] \cup ChildrenOf(f[n])
      <3>1. f[n + 1] = f[(n + 1) - 1] \cup ChildrenOf(f[(n + 1) - 1])
        BY <2>1, <2>2
      <3>2. QED
        BY <2>2, <3>1
    <2>4. QED
      BY <2>1, <2>3
  <1> DEFINE Found(n) ==
               /\ f[n] \subseteq first .. last
               /\ \A m \in first .. last : m <= first + n => m \in f[n]
             S == {n \in Nat : Found(n)}
  <1>7. Found(0)
    BY <1>6
  <1>8. ASSUME NEW n \in Nat, Found(n)
        PROVE  Found(n + 1)
    <2>1. ASSUME NEW m \in ChildrenOf(f[n])
          PROVE  m \in first .. last
      BY <1>1, <1>2, <1>8
    <2>2. ASSUME NEW m \in first .. last, m = first + n + 1
          PROVE  m \in ChildrenOf(f[n])
      <3>1. first + n \in f[n]
        BY <1>8, <2>2
      <3>2. first + n > 0 /\ first + n \in Nat /\ m = (first + n) + 1 /\ m \in 1 .. last
        BY <2>2
      <3>3. QED
        BY <1>3, <3>1, <3>2
    <2>3. QED
      BY <1>6, <1>8, <2>1, <2>2
  <1>9. Nat \subseteq S
    <2>1. 0 \in S /\ \A n \in Nat : n \in S => n + 1 \in S
      BY <1>7, <1>8
    <2> HIDE DEF S
    <2>2. QED
      BY <2>1, AllNaturals
  <1>10. Cardinality(Artifacts) = last
    BY FS_Interval DEF SavedUpTo
  <1>11. Found(last)
    BY <1>9
  <1>12. \A m \in first .. last : m <= first + last
    OBVIOUS
  <1>13. f[last] = first .. last
    BY <1>11, <1>12
  <1> HIDE DEF Found, S
  <1>14. QED
    BY <1>5, <1>10, <1>13

LEMMA LeastIsMin ==
    ASSUME NEW S, S \subseteq Nat, NEW m \in S, \A y \in S : m <= y
    PROVE  Min(S) = m
  <1>1. \A x \in S : (\A y \in S : x <= y) => x = m
    <2> SUFFICES ASSUME NEW x \in S, \A y \in S : x <= y
                 PROVE  x = m
      OBVIOUS
    <2>1. x <= m /\ m <= x /\ x \in Nat /\ m \in Nat
      OBVIOUS
    <2>2. QED
      BY <2>1
  <1>2. QED
    BY <1>1 DEF Min

LEMMA DependentsFound == IInv => DependentsAreFound
  <1> SUFFICES ASSUME IInv, NEW i \in SavedEvents, log[i].agent = "verifier"
               PROVE  LET hash == log[i].evidence
                          J == {j \in SavedEvents :
                                   log[j].agent = "verifier" /\ log[j].evidence = hash}
                      IN ArtifactsInvalidatedByEvidence(hash) =
                             {log[j].made : j \in {j \in SavedEvents : j >= Min(J)}}
    BY DEF DependentsAreFound
  <1> DEFINE hash == log[i].evidence
             J == {j \in SavedEvents : log[j].agent = "verifier" /\ log[j].evidence = hash}
             start == ArtifactsByEvidence(hash)
  <1>1. /\ log \in Seq(Entry) /\ ParentsComeFirst /\ SavedInOrder /\ EvidenceIsOnFile
        /\ LogIsAhead /\ run.made \in Nat
    BY DEF IInv, Typed, RunTypeOK, RunRecord
  <1>2. \A j \in SavedEvents : j \in Nat /\ log[j] \in Entry /\ log[j].made \in Nat
    <2>1. \A j \in SavedEvents : j \in Nat /\ log[j] \in Entry
      BY <1>1 DEF SavedEvents
    <2>2. QED
      BY <2>1 DEF Entry
  <1>3. PICK last \in Nat : SavedUpTo(last)
    <2>1. CASE pc = "library"
      BY <2>1 DEF IInv, Typed, SavedEvents
    <2>2. CASE pc # "library"
      <3>1. run.made \in Nat /\ run.made + 1 \in Nat
        BY <1>1
      <3>2. QED
        BY <1>1, <2>2, <3>1 DEF LogIsAhead
    <2>3. QED
      BY <2>1, <2>2
  <1>4. \A j \in SavedEvents : log[j].made \in 1 .. last
    BY <1>3 DEF SavedUpTo, Artifacts
  <1>5. i \in J /\ J \subseteq Nat /\ J \subseteq SavedEvents /\ hash # 0
    BY <1>1, <1>2 DEF EvidenceIsOnFile
  <1>6. PICK first \in J : \A j \in J : first <= j
    <2> HIDE DEF J
    <2>1. QED
      BY <1>5, Least
  <1>7. Min(J) = first
    <2> HIDE DEF J
    <2>1. QED
      BY <1>5, <1>6, LeastIsMin
  <1>8. /\ first \in SavedEvents /\ log[first].evidence = hash
        /\ log[first].made \in Nat /\ log[first].made > 0 /\ first \in Nat
    BY <1>2, <1>4, <1>6
  <1>9. \A j \in SavedEvents : first <= j => log[first].made <= log[j].made
    BY <1>1, <1>2, <1>8 DEF SavedInOrder
  <1>10. \A j \in SavedEvents : j < first => log[j].made < log[first].made
    BY <1>1, <1>8 DEF SavedInOrder
  <1>11. start \subseteq log[first].made .. last
    <2> SUFFICES ASSUME NEW k \in SavedEvents, log[k].evidence = hash
                 PROVE  log[k].made \in log[first].made .. last
      BY DEF ArtifactsByEvidence
    <2>1. PICK j \in SavedBy("verifier") : j <= k /\ log[j].evidence = hash
      BY <1>1, <1>5 DEF EvidenceIsOnFile
    <2>2. j \in J
      BY <2>1 DEF SavedBy
    <2>3. first <= k
      <3> HIDE DEF J
      <3>1. first <= j /\ j \in Nat /\ k \in Nat /\ first \in Nat
        BY <1>2, <1>5, <1>6, <2>2
      <3>2. QED
        BY <2>1, <3>1
    <2>4. QED
      BY <1>2, <1>4, <1>8, <1>9, <2>3
  <1>12. log[first].made \in start
    BY <1>8 DEF ArtifactsByEvidence
  <1>13. ArtifactsInvalidatedByEvidence(hash) = log[first].made .. last
    <2> HIDE DEF start, hash
    <2>1. CollectDependentArtifacts(start) = log[first].made .. last
      BY <1>1, <1>3, <1>8, <1>11, <1>12, WalkFindsAllAfter
    <2>2. QED
      BY <2>1 DEF ArtifactsInvalidatedByEvidence, start
  <1>14. {log[j].made : j \in {j \in SavedEvents : j >= first}} = log[first].made .. last
    <2>1. ASSUME NEW j \in SavedEvents, j >= first
          PROVE  log[j].made \in log[first].made .. last
      <3>1. first <= j
        BY <1>2, <1>8, <2>1
      <3>2. log[first].made <= log[j].made /\ log[j].made \in 1 .. last
        BY <1>4, <1>9, <3>1
      <3>3. QED
        BY <1>8, <3>2
    <2>2. ASSUME NEW m \in log[first].made .. last
          PROVE  \E j \in SavedEvents : j >= first /\ log[j].made = m
      <3>1. m \in 1 .. last
        BY <1>8
      <3>2. PICK j \in SavedEvents : log[j].made = m
        BY <1>3, <3>1 DEF SavedUpTo, Artifacts
      <3>3. ~(j < first)
        BY <1>8, <1>10, <3>2
      <3>4. QED
        BY <1>2, <1>8, <3>2, <3>3
    <2>3. QED
      BY <2>1, <2>2
  <1>15. QED
    <2> HIDE DEF start
    <2>1. QED
      BY <1>7, <1>13, <1>14

-----------------------------------------------------------------------------
(* The executor only makes calls that a caller of the run may make, in any *)
(* order of failures and deaths: what is proved of the run holds of it.    *)
THEOREM ExecutorRunsThePlan == ExecutorSpec => Spec
  <1>1. IInv /\ [ExecutorNext]_vars => [Next]_run
    BY StepsAreCalls DEF IInv
  <1>2. QED
    BY <1>1, RunInit, Soundness, PTL DEF ExecutorSpec, Spec

(* Types, and what the runtime has counted: the run is never ahead of it,  *)
(* and an artifact in hand is the one the current stage waits for.         *)
THEOREM ExecutorTypeCorrect == ExecutorSpec => []TypeOK
  <1>1. IInv => TypeOK
    <2> SUFFICES ASSUME IInv PROVE TypeOK
      OBVIOUS
    <2>1. Typed /\ CallsAreCounted
      BY DEF IInv
    <2>2. budget.attempts \in Nat /\ \A agent \in Agent : asked[agent] \in Nat
      BY <2>1 DEF Typed
    <2>3. QED
      BY <2>1, <2>2 DEF Typed, CallsAreCounted, TypeOK, AgentAtWork
  <1>2. QED
    BY <1>1, Soundness, PTL

(* For any budgets and loop limits, through failed writes and deaths: the  *)
(* run is never ahead of its log, and what was queued follows from the log *)
(* alone (executeWithModelRuntime saves, then submits).                    *)
THEOREM LogAlwaysTellsTheRun == ExecutorSpec => []LogTellsTheRun
  <1>1. IInv => LogTellsTheRun
    BY DEF IInv, LogTellsTheRun
  <1>2. QED
    BY <1>1, Soundness, PTL

(* The lineage on file is true, however many loops, repeated packets,      *)
(* failed writes and deaths: a wrong packet takes with it all that was     *)
(* saved from its first appearance on and nothing else, and what is queued *)
(* is fresh (artifactsInvalidatedByEvidence, evaluateArtifactFreshness).   *)
THEOREM LineageStaysTrue == ExecutorSpec => []LineageIsTrue
  <1>1. IInv => LineageIsTrue
    BY DependentsFound DEF IInv, LineageIsTrue
  <1>2. QED
    BY <1>1, Soundness, PTL

(* Driven by the executor too, loops are bounded and an approval is of     *)
(* current work.                                                           *)
THEOREM ExecutorApprovesCurrentWork ==
    ExecutorSpec => [](LoopsAreBounded /\ ApprovedWorkIsCurrent)
  BY ExecutorRunsThePlan, LoopsStayBounded, ApprovedWorkStaysCurrent, PTL
=============================================================================
