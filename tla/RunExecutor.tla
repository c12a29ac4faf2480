------------------------------ MODULE RunExecutor ------------------------------
(***************************************************************************)
(* A run driven by the executor (executor.mjs) over a model runtime with   *)
(* budgets (model-runtime.mjs) and an append-only event log, the only part *)
(* that outlives the process.  The executor asks the agent of the current  *)
(* stage, saves its artifact, submits it, and at the end enters the        *)
(* decision it was given.  A call may fail or time out, and the process    *)
(* may die at every await.  In mode "library" another caller, as the       *)
(* simulation, makes the calls of OrchestraRun itself.                     *)
(*                                                                         *)
(* A hash stands for what it is taken of: an artifact's is the number of   *)
(* its submission, unique because the artifact before it of the same type  *)
(* is among its parents; an evidence packet's own is that of the last one  *)
(* when the Verifier repeats it word for word.  dependency-index.mjs and   *)
(* versioning.mjs read the lineage that the events carry; the manifest     *)
(* does not change in a run.                                               *)
(***************************************************************************)
EXTENDS OrchestraRun, Sequences, FiniteSetsExt

CONSTANTS
    Default,   \* DEFAULT_LOOP_LIMITS, which the executor's plan has
    Budgets    \* runtime configurations: attempts per agent, invocations per run

ASSUME BudgetAssumption ==
    Default \in Limits /\ Budgets \subseteq [attempts: Nat \ {0}, invocations: Nat \ {0}]

VARIABLES
    pc,       \* the executor's next step
    budget,   \* the runtime's configuration
    asked,    \* attempts: invocations per agent
    raw,      \* the artifact the runtime has returned
    given,    \* humanDecision, a parameter of the call
    evidence, \* currentEvidenceHash
    log       \* the events in the store

runtime == <<budget, asked, raw, given, evidence>>
vars == <<run, pc, runtime, log>>

Ended == {"done", "failed", "over_budget", "dead"}

NoRaw == [agent |-> "nobody", verdict |-> "none", hash |-> 0]

-----------------------------------------------------------------------------
InitLibrary == Init /\ pc = "library" /\ budget = [attempts |-> 1, invocations |-> 1]

InitExecutor ==
    /\ \E exact \in BOOLEAN : run = CreateRunState(Default, exact)
    /\ pc = "create" /\ budget \in Budgets

ExecutorInit ==
    /\ InitLibrary \/ InitExecutor
    /\ asked = [agent \in Agent |-> 0]
    /\ raw = NoRaw /\ given \in Decision /\ evidence = 0 /\ log = <<>>

-----------------------------------------------------------------------------
Event(type, agent, made, verdict, parents, current) ==
    [type |-> type, agent |-> agent, made |-> made, verdict |-> verdict,
     parents |-> parents, evidence |-> current]

Note(type, verdict, current) == Event(type, "nobody", 0, verdict, {}, current)

(* An append to the log, which may fail before or after it is written.     *)
Logged(event, next) ==
    \/ log' = Append(log, event) /\ pc' = next
    \/ log' \in {log, Append(log, event)} /\ pc' = "failing"

LogCreation ==
    /\ pc = "create"
    /\ Logged(Note("run_created", "none", 0), "invoke")
    /\ UNCHANGED <<run, runtime>>

Total(counts) ==
    counts["orchestrator"] + counts["scout"] + counts["verifier"] + counts["strategist"]
        + counts["writer"] + counts["guardian"]

(* Bug: only the invocations of the whole run are bounded.                 *)
WithinRunBudget(counts, agent) == Total(counts) <= budget.invocations

(* runtime.invoke counts the call and refuses it beyond its budget.        *)
WithinBudget(counts, agent) ==
    counts[agent] <= budget.attempts /\ Total(counts) <= budget.invocations

Invoke ==
    LET agent == AssignedTo[CurrentStage(run)] IN
    /\ pc = "invoke" /\ agent \in Agent
    /\ asked' = [asked EXCEPT ![agent] = @ + 1]
    /\ pc' = IF WithinBudget(asked', agent) THEN "waiting" ELSE "failing_budget"
    /\ UNCHANGED <<run, budget, raw, given, evidence, log>>

(* A valid output of the model; a packet may be the last one again.        *)
Answer ==
    LET agent == AssignedTo[CurrentStage(run)] IN
    /\ pc = "waiting"
    /\ \E verdict \in Verdict(agent), hash \in {evidence, run.made + 1} :
        /\ hash # run.made + 1 =>
              agent = "verifier" /\ verdict = run.artifacts["verifier"].verdict
        /\ raw' = [agent |-> agent, verdict |-> verdict, hash |-> hash]
    /\ pc' = "save"
    /\ UNCHANGED <<run, budget, asked, given, evidence, log>>

(* Bug: only a repeated call has a timer.                                  *)
TimeOutOfRetry ==
    /\ pc = "waiting" /\ asked[AssignedTo[CurrentStage(run)]] > 1
    /\ pc' = "failing"
    /\ UNCHANGED <<run, runtime, log>>

(* The timer fires, or the output is invalid or too long.                  *)
TimeOut ==
    /\ pc = "waiting"
    /\ pc' = "failing"
    /\ UNCHANGED <<run, runtime, log>>

(* The loop ends where no agent is assigned.                               *)
LeaveLoop ==
    /\ pc = "invoke" /\ AssignedTo[CurrentStage(run)] \notin Agent
    /\ pc' = "decide"
    /\ UNCHANGED <<run, runtime, log>>

(* attachArtifactMetadata: the parents are the last artifacts of every     *)
(* type, among them the one this replaces.                                 *)
Saved(current) ==
    Event("artifact_saved", raw.agent, run.made + 1, raw.verdict,
          {Made(agent) : agent \in Agent} \ {0}, current)

CurrentEvidence == IF raw.agent = "verifier" THEN raw.hash ELSE evidence

(* Bug: the artifact counts before it is saved.                            *)
SubmitAndSave ==
    /\ pc = "save"
    /\ SubmitAllowed(run, raw.agent)
    /\ run' = Submitted(run, raw.agent, raw.verdict)
    /\ evidence' = CurrentEvidence
    /\ Logged(Saved(evidence'), "invoke")
    /\ UNCHANGED <<budget, asked, raw, given>>

(* Bug: a packet is bound to the evidence before it.                       *)
SaveThenBind ==
    /\ pc = "save"
    /\ evidence' = CurrentEvidence
    /\ Logged(Saved(evidence), "submit")
    /\ UNCHANGED <<run, budget, asked, raw, given>>

(* saveArtifact, and the receipt after it.                                 *)
SaveArtifact ==
    /\ pc = "save"
    /\ evidence' = CurrentEvidence
    /\ Logged(Saved(evidence'), "submit")
    /\ UNCHANGED <<run, budget, asked, raw, given>>

Submit ==
    /\ pc = "submit"
    /\ IF SubmitAllowed(run, raw.agent)
       THEN run' = Submitted(run, raw.agent, raw.verdict) /\ pc' = "invoke"
       ELSE pc' = "failing_budget" /\ UNCHANGED run
    /\ UNCHANGED <<runtime, log>>

Decide ==
    /\ pc = "decide"
    /\ IF DecisionAllowed(run, given)
       THEN /\ run' = Decided(run, given)
            /\ Logged(Note("human_decision_recorded", given, 0),
                      IF given = "approved" THEN "queue" ELSE "done")
       ELSE pc' = "failing" /\ UNCHANGED <<run, log>>
    /\ UNCHANGED runtime

Queue ==
    /\ pc = "queue" /\ QueueAllowed(run)
    /\ run' = Queued(run)
    /\ Logged(Note("local_queue_recorded", "none", evidence), "done")
    /\ UNCHANGED runtime

(* The catch block; its own append may fail as well.                       *)
Fail ==
    /\ pc \in {"failing", "failing_budget"}
    /\ pc' = IF pc = "failing" THEN "failed" ELSE "over_budget"
    /\ \/ log' = Append(log, Note("run_failed", "none", 0))
       \/ log' = log
    /\ UNCHANGED <<run, runtime>>

Die ==
    /\ pc \notin Ended \cup {"library"}
    /\ pc' = "dead"
    /\ UNCHANGED <<run, runtime, log>>

Library == pc = "library" /\ Next /\ UNCHANGED <<pc, runtime, log>>

Step ==
    LogCreation \/ Invoke \/ TimeOut \/ LeaveLoop \/ SaveArtifact \/ Submit \/ Decide
        \/ Queue \/ Fail

ExecutorNext == Step \/ Answer \/ Die \/ Library

ExecutorSpec == ExecutorInit /\ [][ExecutorNext]_vars

(* The event loop takes every step that is enabled, the timer of a call    *)
(* among them; a model need not answer.                                    *)
FairExecutorSpec == ExecutorSpec /\ WF_vars(Step)

-----------------------------------------------------------------------------
(* dependency-index.mjs: read from the events of the log alone.            *)

SavedEvents == {i \in DOMAIN log : log[i].type = "artifact_saved"}

Artifacts == {log[i].made : i \in SavedEvents}

ArtifactsByEvidence(hash) == {log[i].made : i \in {i \in SavedEvents : log[i].evidence = hash}}

ChildrenOf(hashes) ==
    {log[i].made : i \in {i \in SavedEvents : log[i].parents \cap hashes # {}}}

(* The walk has found what is n generations away.                          *)
CollectDependentArtifacts(start) ==
    LET Visited[n \in Nat] ==
            IF n = 0 THEN start ELSE Visited[n - 1] \cup ChildrenOf(Visited[n - 1])
    IN Visited[Cardinality(Artifacts)]

ArtifactsInvalidatedByEvidence(hash) == CollectDependentArtifacts(ArtifactsByEvidence(hash))

(* evaluateArtifactFreshness: no evidence makes nothing stale.             *)
Fresh(event, current) == event.evidence = 0 \/ current = 0 \/ event.evidence = current

-----------------------------------------------------------------------------
(* Types, what the runtime has counted, and that the artifact in hand is   *)
(* the one the current stage waits for.                                    *)
TypeOK ==
    /\ RunTypeOK
    /\ given \in Decision
    /\ \A agent \in Agent : asked[agent] \in 0 .. budget.attempts + 1
    /\ pc # "library" => \A agent \in Agent : run.counts[agent] <= asked[agent]
    /\ pc \in {"save", "submit"} => raw.agent = AssignedTo[CurrentStage(run)]

LastSaved(agent) ==
    Max({0} \cup {i \in SavedEvents : log[i].agent = agent})

(* What is queued can be justified from the log alone, by a reader who has *)
(* nothing else after a crash: before the queue record an approval, before *)
(* that a Guardian pass of the last drafts saved, and these, the brief and *)
(* the evidence saved one after the other (the run chain and the           *)
(* dependency index read nothing else).                                    *)
QueueIsJustifiedByLog ==
    \A q \in DOMAIN log : log[q].type = "local_queue_recorded" =>
        /\ log[q - 1] = Note("human_decision_recorded", "approved", 0)
        /\ 0 < LastSaved("verifier")
        /\ LastSaved("verifier") < LastSaved("strategist")
        /\ LastSaved("strategist") < LastSaved("writer")
        /\ LastSaved("writer") < LastSaved("guardian")
        /\ LastSaved("guardian") < q - 1
        /\ log[LastSaved("verifier")].verdict = "resolved"
        /\ log[LastSaved("guardian")].verdict = "pass"

(* Every artifact a run rests on was saved before it counted: a crash or a *)
(* failed write never leaves a run ahead of its log (executeWithModelRun-  *)
(* time saves, then submits).                                              *)
RunIsLogged ==
    pc # "library" =>
        \A agent \in Agent :
            Made(agent) > 0 =>
                \E i \in SavedEvents :
                    /\ log[i].agent = agent /\ log[i].made = Made(agent)
                    /\ log[i].verdict = run.artifacts[agent].verdict

(* The log tells the whole run: it is never behind, and what was queued    *)
(* follows from it.                                                        *)
LogTellsTheRun == RunIsLogged /\ QueueIsJustifiedByLog

(* A packet that turns out wrong takes with it all that was saved from its *)
(* first appearance on, and nothing from before: no artifact that saw it   *)
(* is missed, however many loops and repeated packets are in between       *)
(* (artifactsInvalidatedByEvidence over what executeWithModelRuntime and   *)
(* attachArtifactMetadata have written).                                   *)
DependentsAreFound ==
    \A i \in SavedEvents :
        log[i].agent = "verifier" =>
            LET hash == log[i].evidence
                first == Min({j \in SavedEvents :
                                 log[j].agent = "verifier" /\ log[j].evidence = hash})
            IN ArtifactsInvalidatedByEvidence(hash) = {log[j].made : j \in {j \in SavedEvents : j >= first}}

(* What goes to the queue is fresh against the evidence the queue record   *)
(* names, and that is the last packet's: the packet, the brief, the drafts *)
(* and the review of them (evaluateArtifactFreshness, completeLocalQueue). *)
QueuedWorkIsFresh ==
    \A q \in DOMAIN log : log[q].type = "local_queue_recorded" =>
        /\ log[q].evidence # 0
        /\ \A agent \in {"verifier", "strategist", "writer", "guardian"} :
              LET last == LastSaved(agent)
              IN last # 0 /\ log[last].evidence # 0 /\ Fresh(log[last], log[q].evidence)

(* The lineage on file is true: it misses no dependent, and calls what was *)
(* queued fresh.                                                           *)
LineageIsTrue == DependentsAreFound /\ QueuedWorkIsFresh

(* An execution ends, in a result or an error, however often Verifier and  *)
(* Guardian send the work back.                                            *)
ExecutionEnds == pc # "library" ~> pc \in Ended
=============================================================================
