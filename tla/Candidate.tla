------------------------------ MODULE Candidate ------------------------------
(***************************************************************************)
(* One candidate of the local application state and what each command does *)
(* to it (apps/web/application-state.mjs, with the duplicate stamps of     *)
(* candidate-dedupe-store.mjs and the dispatch rules of                    *)
(* manual-orchestrator.mjs).  A handler is an operator from the record     *)
(* before to the record after; its early returns are a separate            *)
(* predicate.  The module has no variables: the workflow and the store     *)
(* modules both run these handlers.                                        *)
(***************************************************************************)
EXTENDS Naturals

CONSTANTS
    Draft,       \* the draft slots the Writer fills (four in the code)
    FirstDraft,  \* the slot createDrafts selects
    NoDraft,     \* selectedDraftId = null
    Quoting      \* the slots whose template quotes the owner's wording (three of four)

ASSUME DraftAssumption ==
    FirstDraft \in Draft /\ NoDraft \notin Draft /\ Quoting \subseteq Draft

-----------------------------------------------------------------------------
(* What the owner supplies.  A payload is reduced to what the decisions     *)
(* tell apart: how much of brand/model/variant is missing, how many         *)
(* independent origins the references have, whether the link is declared a  *)
(* substitute; and the terms of use the Guardian reads.                     *)

Identity == [missing: {"none", "some", "all"}, origins: 0..2, substitute: BOOLEAN]

Terms == [rights: BOOLEAN,        \* media rights owned, licensed or not required
          personalUse: BOOLEAN,   \* a usage record exists
          disclosed: BOOLEAN]     \* no affiliate link, or a disclosure is present

(* Draft copy by the finding the Guardian makes of it: "first_hand" is a    *)
(* blocker without a usage record, "violating" always is one (endorsement,  *)
(* guarantee), "fixable" is a required change (exaggeration, a copy of      *)
(* another draft).                                                          *)
Text == {"clean", "first_hand", "violating", "fixable"}

MatchState(i) ==
    IF i.substitute THEN "substitute"
    ELSE IF i.missing = "none" /\ i.origins >= 2 THEN "exact"
    ELSE IF i.missing = "all" THEN "unresolved"
    ELSE "likely"

VerifierDecision(match, terms) ==
    IF ~terms.rights \/ match = "unresolved" THEN "hold"
    ELSE IF match = "exact" THEN "verified" ELSE "limited"

Readiness(match, terms) ==
    IF ~terms.rights THEN "blocked"
    ELSE IF match = "unresolved" THEN "weak"
    ELSE IF match = "exact" THEN "ready" ELSE "partial"

Risk(match, terms) ==
    IF ~terms.rights THEN "blocked"
    ELSE IF match \in {"substitute", "likely"} THEN "review" ELSE "low"

-----------------------------------------------------------------------------
(* The record.                                                              *)

WorkflowState ==
    {"verification_needed", "evidence_partial", "evidence_ready",
     "strategy_ready", "draft_ready", "guardian_revise", "guardian_pass",
     "blocked", "approved", "held", "rejected", "stale",
     "duplicate_review", "suppressed_duplicate"}

DuplicateState ==
    {"unique", "possible_duplicate", "exact_duplicate_suppressed",
     "confirmed_distinct", "confirmed_duplicate"}

(* observedAt and createdAt are timestamps in the code; a candidate's next  *)
(* revision stands for them, 0 for an absent object.                        *)
Packet == [observedAt: Nat, claims: SUBSET {"claim-identity"}]
Strategies == [evidenceObservedAt: Nat, createdAt: Nat]
DraftTexts == [Draft -> Text \cup {"absent"}]

NoPacket == [observedAt |-> 0, claims |-> {}]
NoStrategies == [evidenceObservedAt |-> 0, createdAt |-> 0]
NoDrafts == [d \in Draft |-> "absent"]

MaterialRevision ==
    [evidence: Packet, strategies: Strategies, drafts: DraftTexts,
     selected: Draft \cup {NoDraft}, rights: BOOLEAN, disclosed: BOOLEAN]

NoMaterial ==
    [evidence |-> NoPacket, strategies |-> NoStrategies, drafts |-> NoDrafts,
     selected |-> NoDraft, rights |-> FALSE, disclosed |-> FALSE]

Guardian == [decision: {"none", "pass", "revise", "block"}, bound: MaterialRevision]
Review == [decision: {"none", "approved", "held", "rejected"},
           bound: MaterialRevision, stale: BOOLEAN]

NoGuardian == [decision |-> "none", bound |-> NoMaterial]
NoReview == [decision |-> "none", bound |-> NoMaterial, stale |-> FALSE]

CandidateRecord ==
    [workflow: WorkflowState, copy: Text, terms: Terms,
     match: {"exact", "likely", "substitute", "unresolved"},
     verifier: {"none", "verified", "limited", "hold"},
     readiness: {"weak", "partial", "ready", "blocked"},
     risk: {"low", "review", "blocked"},
     evidence: Packet, strategies: Strategies, drafts: DraftTexts,
     selected: Draft \cup {NoDraft}, guardian: Guardian, review: Review,
     dup: DuplicateState, revision: Nat, material: MaterialRevision]

(* The content an approval is about.  The code hashes it; equal contents    *)
(* and equal hashes are the same thing here.                                *)
Material(c) ==
    [evidence |-> c.evidence, strategies |-> c.strategies, drafts |-> c.drafts,
     selected |-> c.selected, rights |-> c.terms.rights,
     disclosed |-> c.terms.disclosed]

FreshApproval(c) == c.review.decision = "approved" /\ ~c.review.stale

(* copy is the owner's own wording (name, reader value), which the Writer's *)
(* templates quote.                                                         *)
NewCandidate(copy, terms) ==
    LET blank == [workflow |-> "verification_needed", copy |-> copy, terms |-> terms,
                  match |-> "unresolved", verifier |-> "none",
                  readiness |-> "weak", risk |-> "review",
                  evidence |-> NoPacket, strategies |-> NoStrategies,
                  drafts |-> NoDrafts, selected |-> NoDraft,
                  guardian |-> NoGuardian, review |-> NoReview,
                  dup |-> "unique", revision |-> 1, material |-> NoMaterial]
    IN [blank EXCEPT !.material = Material(blank)]

Bump(c) == [c EXCEPT !.revision = @ + 1, !.material = Material(c)]

(* Bug: the approval is dropped like any other review.                      *)
DropReviewSilently(c, otherwise) == [c EXCEPT !.review = NoReview, !.workflow = otherwise]

(* An approval of what is about to change is kept, marked stale; any other  *)
(* review is dropped.                                                       *)
DropReview(c, otherwise) ==
    IF FreshApproval(c)
    THEN [c EXCEPT !.review.stale = TRUE, !.workflow = "stale"]
    ELSE [c EXCEPT !.review = NoReview, !.workflow = otherwise]

(* Bug: keepDrafts.                                                         *)
InvalidateKeepingDrafts(c, strategies) ==
    DropReview([c EXCEPT !.strategies = strategies, !.guardian = NoGuardian], c.workflow)

InvalidateDownstream(c, strategies) ==
    DropReview([c EXCEPT !.strategies = strategies, !.drafts = NoDrafts,
                         !.selected = NoDraft, !.guardian = NoGuardian],
               c.workflow)

-----------------------------------------------------------------------------
(* The duplicate stamps.  An assessment is "unique", "possible" or "exact"; *)
(* "kept" is the early return for an identity already confirmed distinct.   *)

Assessment(c) ==
    {"unique", "possible", "exact"}
        \cup (IF c.dup = "confirmed_distinct" THEN {"kept"} ELSE {})

Assessed(c, assessment) ==
    CASE assessment = "exact" ->
            [c EXCEPT !.dup = "exact_duplicate_suppressed", !.workflow = "suppressed_duplicate"]
      [] assessment = "possible" ->
            [c EXCEPT !.dup = "possible_duplicate", !.workflow = "duplicate_review"]
      [] assessment = "unique" -> [c EXCEPT !.dup = "unique"]
      [] assessment = "kept" -> c

PendingDuplicate(c) == c.dup = "possible_duplicate" /\ c.workflow = "duplicate_review"

DuplicateResolved(c, decision) ==
    LET distinct == IF c.readiness = "ready" THEN "evidence_ready"
                    ELSE IF c.readiness = "partial" THEN "evidence_partial"
                    ELSE "verification_needed"
    IN IF decision = "distinct"
       THEN [c EXCEPT !.dup = "confirmed_distinct", !.workflow = distinct, !.revision = @ + 1]
       ELSE [c EXCEPT !.dup = "confirmed_duplicate", !.workflow = "suppressed_duplicate",
                      !.revision = @ + 1]

-----------------------------------------------------------------------------
(* The handlers.                                                            *)

Verified(c, identity, terms) ==
    LET match == MatchState(identity)
        packet == [observedAt |-> c.revision + 1,
                   claims |-> IF identity.missing # "all" /\ identity.origins > 0
                              THEN {"claim-identity"} ELSE {}]
        known == [c EXCEPT !.terms = terms, !.match = match,
                           !.verifier = VerifierDecision(match, terms),
                           !.readiness = Readiness(match, terms),
                           !.risk = Risk(match, terms), !.evidence = packet]
        next == IF known.readiness = "ready" THEN "evidence_ready" ELSE "evidence_partial"
        cleared == InvalidateDownstream(known, NoStrategies)
    IN Bump([cleared EXCEPT !.workflow = IF FreshApproval(c) THEN @ ELSE next])

StrategiesAllowed(c) ==
    c.verifier \in {"verified", "limited"} /\ c.evidence.claims # {}

WithStrategies(c) ==
    LET fresh == [evidenceObservedAt |-> c.evidence.observedAt, createdAt |-> c.revision + 1]
        cleared == InvalidateDownstream(c, fresh)
    IN Bump([cleared EXCEPT !.workflow = IF @ = "stale" THEN @ ELSE "strategy_ready"])

DraftsAllowed(c) == c.strategies # NoStrategies

(* Bug: only the selected slot is written.                                  *)
WithOneDraft(c) ==
    Bump(DropReview([c EXCEPT !.drafts[FirstDraft] = c.copy, !.selected = FirstDraft,
                              !.guardian = NoGuardian], "draft_ready"))

Written(c) == [d \in Draft |-> IF d \in Quoting THEN c.copy ELSE "clean"]

WithDrafts(c) ==
    Bump(DropReview([c EXCEPT !.drafts = Written(c), !.selected = FirstDraft,
                              !.guardian = NoGuardian], "draft_ready"))

HasDrafts(c) == c.drafts # NoDrafts

DraftEdited(c, draft, text) ==
    Bump(DropReview([c EXCEPT !.drafts[draft] = text, !.selected = draft,
                              !.guardian = NoGuardian], "draft_ready"))

(* runGuardianChecks over the drafts as they stand.                         *)
Flagged(c) ==
    \/ ~c.terms.rights
    \/ "claim-identity" \notin c.evidence.claims
    \/ \E d \in Draft : \/ c.drafts[d] = "violating"
                        \/ c.drafts[d] = "first_hand" /\ ~c.terms.personalUse

NeedsRevision(c) == ~c.terms.disclosed \/ \E d \in Draft : c.drafts[d] = "fixable"

(* Bug: only the selected draft is read.                                    *)
GuardianDecisionOfSelected(c) ==
    LET seen == [c EXCEPT !.drafts = [d \in Draft |-> c.drafts[c.selected]]]
    IN IF Flagged(seen) THEN "block" ELSE IF NeedsRevision(seen) THEN "revise" ELSE "pass"

GuardianDecision(c) ==
    IF Flagged(c) THEN "block" ELSE IF NeedsRevision(c) THEN "revise" ELSE "pass"

GuardianState(decision) ==
    CASE decision = "pass" -> "guardian_pass"
      [] decision = "block" -> "blocked"
      [] decision = "revise" -> "guardian_revise"

GuardianRun(c) ==
    LET decided(decision) ==
            [c EXCEPT !.guardian = [decision |-> decision, bound |-> c.material],
                      !.workflow = GuardianState(decision)]
    IN IF c.match # "exact" \/ c.readiness # "ready"
       THEN Bump(decided("block"))
       ELSE Bump([decided(GuardianDecision(c)) EXCEPT !.review = NoReview])

ReviewDecision == {"approved", "held", "rejected"}

(* Bug: anything but a block may be approved.                               *)
ReviewAllowedUnlessBlocked(c, decision) ==
    decision = "approved" => c.guardian.decision # "block" /\ c.guardian.bound = c.material

ReviewAllowed(c, decision) ==
    decision = "approved" => c.guardian.decision = "pass" /\ c.guardian.bound = c.material

Reviewed(c, decision) ==
    Bump([c EXCEPT !.review = [decision |-> decision, bound |-> c.material, stale |-> FALSE],
                   !.workflow = decision])

-----------------------------------------------------------------------------
(* The Orchestrator's dispatch rules, over the read model of the first      *)
(* screen.                                                                  *)

OnFirstScreen(c) ==
    c.risk # "blocked" /\ c.workflow \notin {"held", "rejected", "suppressed_duplicate"}

(* Bug: duplicate_review is one more state with evidence.                   *)
AllowedStatesWithDuplicates(command) ==
    CASE command = "request_verification" ->
            WorkflowState \ {"held", "rejected", "suppressed_duplicate", "duplicate_review"}
      [] command = "request_strategies" -> {"evidence_ready", "duplicate_review"}
      [] command = "request_drafts" -> {"strategy_ready"}
      [] command = "run_guardian" -> {"draft_ready", "guardian_revise", "stale"}

AllowedStates(command) ==
    CASE command = "request_verification" ->
            {"verification_needed", "evidence_partial", "evidence_ready", "strategy_ready",
             "draft_ready", "guardian_revise", "guardian_pass", "approved", "stale", "blocked"}
      [] command = "request_strategies" -> {"evidence_ready"}
      [] command = "request_drafts" -> {"strategy_ready"}
      [] command = "run_guardian" -> {"draft_ready", "guardian_revise", "stale"}

CanDispatch(command, c) ==
    /\ OnFirstScreen(c)
    /\ c.workflow \in AllowedStates(command)
    /\ command = "request_strategies" => c.readiness = "ready" /\ c.match = "exact"
    /\ command = "run_guardian" /\ c.workflow = "stale" =>
           c.readiness = "ready" /\ c.match = "exact" /\ HasDrafts(c)

-----------------------------------------------------------------------------
(* What must stay true of a candidate record.                               *)

(* A Guardian pass on record is about the content as it stands, and the     *)
(* Guardian would give it again.                                            *)
PassStands(c) ==
    c.guardian.decision = "pass" =>
        /\ c.guardian.bound = Material(c)
        /\ c.match = "exact" /\ c.readiness = "ready"
        /\ HasDrafts(c) /\ GuardianDecision(c) = "pass"

(* The approved state is a fresh approval of the current content, resting   *)
(* on a Guardian pass.                                                      *)
ApprovalStands(c) ==
    /\ c.workflow = "approved" <=> FreshApproval(c)
    /\ FreshApproval(c) => c.guardian.decision = "pass" /\ c.review.bound = Material(c)

(* Strategies are about the packet in force and drafts exist only under     *)
(* strategies.                                                              *)
DerivedInOrder(c) ==
    /\ c.evidence.observedAt <= c.revision
    /\ c.strategies # NoStrategies =>
           /\ c.evidence # NoPacket
           /\ c.strategies.evidenceObservedAt = c.evidence.observedAt
           /\ c.strategies.evidenceObservedAt < c.strategies.createdAt
           /\ StrategiesAllowed(c)
    /\ HasDrafts(c) => c.strategies # NoStrategies /\ c.selected \in Draft
=============================================================================
