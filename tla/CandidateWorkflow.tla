--------------------------- MODULE CandidateWorkflow ---------------------------
(***************************************************************************)
(* The life of one candidate under the commands of the application.  A     *)
(* command is one step: the store applies and persists it under its lock   *)
(* and compare-and-set, the duplicate assessment that follows a            *)
(* verification included.                                                  *)
(*                                                                         *)
(* When supervised, the server is in front: specialist commands are        *)
(* dispatched by the Orchestrator (manual-orchestrator.mjs).  Otherwise    *)
(* the store is used directly, as the tests and any other caller in the    *)
(* process may: only the handlers' own checks remain.                      *)
(***************************************************************************)
EXTENDS Candidate

CONSTANT MaxRevision   \* bound on the candidate's revision, with a server and without

ASSUME BoundAssumption == MaxRevision \in [BOOLEAN -> Nat]

VARIABLES
    cand,        \* the record
    supervised   \* do specialist commands pass the Orchestrator; never changed

workflowVars == <<cand, supervised>>

(* add_manual_candidate; an exact duplicate is not stored at all.  Of the  *)
(* two demo candidates one is in such a state and the other one            *)
(* verification further.                                                   *)
Added ==
    \E copy \in Text, terms \in Terms, assessment \in {"unique", "possible"} :
        cand = Assessed(NewCandidate(copy, terms), assessment)

WorkflowInit == Added /\ supervised \in BOOLEAN

MayRun(command) == supervised => CanDispatch(command, cand)

RequestVerification ==
    /\ MayRun("request_verification")
    /\ \E identity \in Identity, terms \in Terms, assessment \in Assessment(cand) :
           cand' = Assessed(Verified(cand, identity, terms), assessment)

RequestStrategies ==
    /\ MayRun("request_strategies")
    /\ StrategiesAllowed(cand)
    /\ cand' = WithStrategies(cand)

RequestDrafts ==
    /\ MayRun("request_drafts")
    /\ DraftsAllowed(cand)
    /\ cand' = WithDrafts(cand)

RunGuardian ==
    /\ MayRun("run_guardian")
    /\ HasDrafts(cand)
    /\ cand' = GuardianRun(cand)

EditDraft ==
    /\ HasDrafts(cand)
    /\ \E draft \in Draft, text \in Text : cand' = DraftEdited(cand, draft, text)

(* The duplicate-review gate sits in the dedupe store's execute.           *)
RecordReviewDecision ==
    /\ cand.workflow # "duplicate_review"
    /\ \E decision \in ReviewDecision :
           /\ ReviewAllowed(cand, decision)
           /\ cand' = Reviewed(cand, decision)

ResolveDuplicate ==
    /\ PendingDuplicate(cand)
    /\ \E decision \in {"distinct", "duplicate"} : cand' = DuplicateResolved(cand, decision)

AnyCommand ==
    \/ RequestVerification
    \/ RequestStrategies
    \/ RequestDrafts
    \/ RunGuardian
    \/ EditDraft
    \/ RecordReviewDecision
    \/ ResolveDuplicate

WorkflowNext ==
    /\ cand.revision < MaxRevision[supervised]
    /\ AnyCommand
    /\ UNCHANGED supervised

WorkflowSpec == WorkflowInit /\ [][WorkflowNext]_workflowVars

-----------------------------------------------------------------------------
(* Every field keeps its type, and the drafts are written all together.    *)
WorkflowTypeOK ==
    /\ cand \in CandidateRecord
    /\ cand.drafts = NoDrafts \/ cand.drafts \in [Draft -> Text]

(* materialRevision is recomputed by bump only; no command may leave it    *)
(* behind the content it identifies, or a stale Guardian result would pass *)
(* the comparison in recordReviewDecision.                                 *)
MaterialIsCurrent == cand.material = Material(cand)

(* Nothing downstream survives the evidence it was derived from:           *)
(* strategies answer the packet in force, drafts exist only under          *)
(* strategies (invalidateDownstream's keep flags).                         *)
Lineage == DerivedInOrder(cand)

(* The content is one piece: the material revision names it as it is, and  *)
(* none of it answers evidence that is gone.                               *)
ContentIsCurrent == MaterialIsCurrent /\ Lineage

(* A recorded Guardian pass always covers the current content: every       *)
(* handler that touches content drops it first.                            *)
PassIsCurrent == PassStands(cand)

(* An approval that is not marked stale is the approved state, was given   *)
(* for exactly the current content, and rests on a Guardian pass of it: no *)
(* order of edits, re-verifications, Guardian runs and decisions separates *)
(* the three (REVIEW_BINDING_SPEC).                                        *)
ApprovalIsVouched == ApprovalStands(cand)

(* Approved copy breaks none of the non-overridable rules: the product is  *)
(* exactly identified with rights cleared, and no draft, the owner's edits *)
(* included, claims first-hand use without a usage record or makes an      *)
(* endorsement or guarantee (guardian-checks.mjs NON_OVERRIDABLE).         *)
ApprovedCopyIsSafe ==
    FreshApproval(cand) =>
        /\ cand.match = "exact" /\ cand.readiness = "ready"
        /\ ~Flagged(cand) /\ ~NeedsRevision(cand)

(* An approval is earned: by a pass that was about this content, given     *)
(* while it stood, for copy that keeps the rules (recordReviewDecision     *)
(* compares no more than a decision and two hashes).                       *)
ApprovalIsEarned == PassIsCurrent /\ ApprovalIsVouched /\ ApprovedCopyIsSafe

(* A candidate that may be, or is, a duplicate never reaches content: no   *)
(* strategies, drafts or approval before the owner has called it distinct  *)
(* (CANDIDATE_DEDUPE_GUARDRAIL_PLAN).  True of the supervised server only, *)
(* and of it while a dispatch is judged on the state it acts on; see       *)
(* CommandStore for the unlocked read.                                     *)
DuplicatesStayOut ==
    supervised /\ cand.dup \in {"possible_duplicate", "exact_duplicate_suppressed",
                               "confirmed_duplicate"} =>
        /\ cand.strategies = NoStrategies /\ cand.drafts = NoDrafts
        /\ ~FreshApproval(cand)

(* On the server a standing approval never just disappears: it ends with a *)
(* stale mark that still names the approved content, or with the owner's   *)
(* own new decision.                                                       *)
ApprovalEndsVisibly ==
    [][supervised /\ FreshApproval(cand) /\ ~FreshApproval(cand)' =>
          \/ /\ cand.review'.decision = "approved" /\ cand.review'.stale
             /\ cand.review'.bound = cand.review.bound
             /\ cand.workflow' \in {"stale", "duplicate_review", "suppressed_duplicate"}
          \/ cand.review'.decision \in {"held", "rejected"}]_workflowVars

(* The workflow implements the approval promise.                           *)
Promise == INSTANCE Approval WITH
    Content <- MaterialRevision,
    Nothing <- NoMaterial,
    content <- cand.material,
    vouched <- IF cand.guardian.decision = "pass" THEN cand.guardian.bound ELSE NoMaterial,
    approved <- IF FreshApproval(cand) THEN cand.review.bound ELSE NoMaterial

ApprovalPromise == Promise!Spec
=============================================================================
