----------------------------- MODULE OrchestraRun -----------------------------
(***************************************************************************)
(* One run of the six agents (packages/orchestra/src/orchestrator.mjs):    *)
(* the stages, the loops back to the Scout and to the Writer, and the      *)
(* owner's decision.  Each function takes the run and returns the next     *)
(* one, so a function is an operator and its exceptions are a predicate.   *)
(*                                                                         *)
(* An artifact is when it was made, counted in submissions, and what it    *)
(* says; only the Verifier's and the Guardian's matter to the route.       *)
(***************************************************************************)
EXTENDS Naturals

CONSTANT Limits   \* the loopLimits a plan may be created with

ASSUME LimitsAssumption == Limits \subseteq [scout: Nat, writer: Nat, total: Nat \ {0}]

VARIABLE run

-----------------------------------------------------------------------------
(* The plan. *)
Agent == {"orchestrator", "scout", "verifier", "strategist", "writer", "guardian"}

AssignedTo ==
    [intake |-> "orchestrator", discovery |-> "scout", verification |-> "verifier",
     strategy |-> "strategist", drafting |-> "writer", review |-> "guardian",
     human_approval |-> "human", local_queue |-> "scheduler", end |-> "nobody"]

After ==
    [intake |-> "discovery", discovery |-> "verification", verification |-> "strategy",
     strategy |-> "drafting", drafting |-> "review", review |-> "human_approval",
     human_approval |-> "local_queue", local_queue |-> "end"]

StageId == DOMAIN AssignedTo

Verdict(agent) ==
    CASE agent = "verifier" -> {"resolved", "unresolved"}
      [] agent = "guardian" -> {"pass", "revise", "block"}
      [] OTHER -> {"done"}

Status ==
    {"ready", "running", "refinement_requested", "revision_requested", "blocked",
     "needs_human_decision", "approved_for_local_queue", "rejected", "held",
     "completed_local_only"}

Decision == {"approved", "rejected", "held"}

NoArtifact == [made |-> 0, verdict |-> "none"]

(* exact: the owner named the product, discovery is skipped.               *)
CreateRunState(limits, exact) ==
    [limits |-> limits, exact |-> exact, status |-> "ready", cursor |-> "intake", made |-> 0,
     artifacts |-> [agent \in Agent |-> NoArtifact], counts |-> [agent \in Agent |-> 0],
     refinements |-> 0, revisions |-> 0, decision |-> "none"]

CurrentStage(x) ==
    IF x.cursor = "discovery" /\ x.exact THEN "verification" ELSE x.cursor

SpecialistInvocations(x) ==
    x.counts["scout"] + x.counts["verifier"] + x.counts["strategist"]
        + x.counts["writer"] + x.counts["guardian"]

-----------------------------------------------------------------------------
(* submitAgentArtifact                                                     *)

SubmitAllowed(x, agent) ==
    /\ AssignedTo[CurrentStage(x)] = agent
    /\ agent # "orchestrator" => SpecialistInvocations(x) < x.limits.total

(* Bug: an unresolved identity that cannot be refined goes on to strategy. *)
RouteUnresolvedOnward(x) ==
    IF ~x.exact /\ x.refinements < x.limits.scout
    THEN [x EXCEPT !.refinements = @ + 1, !.cursor = "discovery", !.status = "refinement_requested"]
    ELSE [x EXCEPT !.status = "needs_human_decision"]

RouteUnresolved(x) ==
    IF ~x.exact /\ x.refinements < x.limits.scout
    THEN [x EXCEPT !.refinements = @ + 1, !.cursor = "discovery", !.status = "refinement_requested"]
    ELSE [x EXCEPT !.cursor = "human_approval", !.status = "needs_human_decision"]

(* Bug: the revision is compared with its limit after it is counted.       *)
RouteReviseOnceMore(x) ==
    IF x.revisions > x.limits.writer
    THEN [x EXCEPT !.status = "needs_human_decision"]
    ELSE [x EXCEPT !.revisions = @ + 1, !.cursor = "drafting", !.status = "revision_requested"]

RouteRevise(x) ==
    IF x.revisions >= x.limits.writer
    THEN [x EXCEPT !.status = "needs_human_decision"]
    ELSE [x EXCEPT !.revisions = @ + 1, !.cursor = "drafting", !.status = "revision_requested"]

Accepted(x, agent, verdict) ==
    [x EXCEPT !.artifacts[agent] = [made |-> x.made + 1, verdict |-> verdict],
              !.made = @ + 1, !.counts[agent] = @ + 1,
              !.cursor = After[CurrentStage(x)], !.status = "running"]

Submitted(x, agent, verdict) ==
    LET next == Accepted(x, agent, verdict)
    IN CASE agent = "verifier" /\ verdict = "unresolved" -> RouteUnresolved(next)
         [] agent = "guardian" /\ verdict = "revise" -> RouteRevise(next)
         [] agent = "guardian" /\ verdict = "block" -> [next EXCEPT !.status = "blocked"]
         [] OTHER -> next

-----------------------------------------------------------------------------
(* recordHumanDecision, completeLocalQueue                                 *)

DecisionAllowed(x, decision) ==
    /\ CurrentStage(x) = "human_approval"
    /\ decision = "approved" => x.artifacts["guardian"].verdict = "pass"

Decided(x, decision) ==
    IF decision = "approved"
    THEN [x EXCEPT !.decision = decision, !.cursor = "local_queue",
                   !.status = "approved_for_local_queue"]
    ELSE [x EXCEPT !.decision = decision, !.status = decision]

QueueAllowed(x) == CurrentStage(x) = "local_queue" /\ x.decision = "approved"

Queued(x) == [x EXCEPT !.cursor = "end", !.status = "completed_local_only"]

-----------------------------------------------------------------------------
(* A caller that makes these calls in any order.                           *)
Init == \E limits \in Limits, exact \in BOOLEAN : run = CreateRunState(limits, exact)

SubmitAgentArtifact ==
    \E agent \in Agent : \E verdict \in Verdict(agent) :
        SubmitAllowed(run, agent) /\ run' = Submitted(run, agent, verdict)

RecordHumanDecision ==
    \E decision \in Decision :
        DecisionAllowed(run, decision) /\ run' = Decided(run, decision)

CompleteLocalQueue == QueueAllowed(run) /\ run' = Queued(run)

Next == SubmitAgentArtifact \/ RecordHumanDecision \/ CompleteLocalQueue

Spec == Init /\ [][Next]_run

-----------------------------------------------------------------------------
Artifact ==
    [made: Nat, verdict: {"none", "done", "resolved", "unresolved", "pass", "revise", "block"}]

RunRecord ==
    [limits: [scout: Nat, writer: Nat, total: Nat], exact: BOOLEAN, status: Status,
     cursor: StageId, made: Nat, artifacts: [Agent -> Artifact], counts: [Agent -> Nat],
     refinements: Nat, revisions: Nat, decision: Decision \cup {"none"}]

(* Every field keeps its type.                                             *)
RunTypeOK == run \in RunRecord

(* The loops are bounded by the plan, not by the patience of its caller:   *)
(* no agent is asked more often than its first time and once per loop that *)
(* runs through it, so that a run ends even without the total limit        *)
(* (routeUnresolvedVerification, the revise branch).                       *)
LoopsAreBounded ==
    /\ run.refinements <= run.limits.scout /\ run.revisions <= run.limits.writer
    /\ run.counts["orchestrator"] <= 1 /\ run.counts["strategist"] <= 1
    /\ run.counts["scout"] <= run.refinements + 1
    /\ run.counts["verifier"] <= run.refinements + 1
    /\ run.counts["writer"] <= run.revisions + 1
    /\ run.counts["guardian"] <= run.revisions + 1
    /\ SpecialistInvocations(run) <= run.limits.total

Made(agent) == run.artifacts[agent].made

(* What the owner approves is current: the Guardian passed the last        *)
(* drafts, these were written to the last brief, and that was made for the *)
(* last evidence, which was not left unresolved; no loop leaves            *)
(* something older in between (recordHumanDecision looks at the report     *)
(* alone).                                                                 *)
ApprovedWorkIsCurrent ==
    run.decision = "approved" =>
        /\ run.artifacts["guardian"].verdict = "pass"
        /\ run.artifacts["verifier"].verdict = "resolved"
        /\ 0 < Made("orchestrator") /\ Made("orchestrator") < Made("verifier")
        /\ Made("verifier") < Made("strategist") /\ Made("strategist") < Made("writer")
        /\ Made("writer") < Made("guardian")
        /\ ~run.exact => Made("scout") < Made("verifier") /\ Made("orchestrator") < Made("scout")
=============================================================================
