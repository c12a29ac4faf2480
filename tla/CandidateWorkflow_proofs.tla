------------------------ MODULE CandidateWorkflow_proofs ------------------------
(***************************************************************************)
(* What holds of every candidate, for any set of drafts, any bound on the  *)
(* revision, and with or without the Orchestrator in front of the store.   *)
(*                                                                         *)
(* The first part is about the handlers of Candidate.  A record is sound   *)
(* when what stands on it, a Guardian pass or an approval, is about its    *)
(* content, and nothing on it answers evidence that is gone.  Each handler *)
(* gets a lemma about the record it returns; the helpers they are built    *)
(* from (Bump, DropReview, InvalidateDownstream) come first.  The proofs   *)
(* about the store with many candidates rest on these lemmas as well,      *)
(* which is why names that the store has too begin with Workflow here.     *)
(*                                                                         *)
(* The second part is about the workflow.  The invariants are conjuncts of *)
(* one inductive invariant, WorkflowIInv, or follow from it: the record is *)
(* sound, and with the Orchestrator in front a candidate taken for a       *)
(* duplicate is held back.                                                 *)
(***************************************************************************)
EXTENDS CandidateWorkflow, TLAPS

(* The part of the inductive invariant that is about one record.           *)
Sound(x) == PassStands(x) /\ ApprovalStands(x) /\ DerivedInOrder(x)

InOrder(x) ==
    /\ x.strategies # NoStrategies =>
           /\ x.evidence # NoPacket
           /\ x.strategies.evidenceObservedAt = x.evidence.observedAt
           /\ x.strategies.evidenceObservedAt < x.strategies.createdAt
           /\ StrategiesAllowed(x)
    /\ HasDrafts(x) => x.strategies # NoStrategies /\ x.selected \in Draft

WholeDrafts(x) == x.drafts = NoDrafts \/ x.drafts \in [Draft -> Text]

Stored(x) ==
    /\ x \in CandidateRecord /\ WholeDrafts(x)
    /\ x.material = Material(x)
    /\ Sound(x)

(* Neither a Guardian pass nor an approval is on record.                   *)
Unvouched(x) == x.guardian = NoGuardian /\ ~FreshApproval(x)

(* r is the next revision of x, with the duplicate stamp of x.             *)
Succeeds(x, r) == r.revision = x.revision + 1 /\ r.dup = x.dup

(* An approval in force on x is marked stale on r, and still names what    *)
(* was approved.                                                           *)
MarkedStale(x, r) ==
    FreshApproval(x) => r.review.decision = "approved" /\ r.review.stale /\ r.review.bound = x.review.bound

-----------------------------------------------------------------------------
(* The null objects are of the types they stand in for.                    *)
LEMMA NullTypes ==
    /\ NoPacket \in Packet
    /\ NoStrategies \in Strategies
    /\ NoDrafts \in DraftTexts
    /\ NoMaterial \in MaterialRevision
    /\ NoGuardian \in Guardian
    /\ NoReview \in Review
<1>1. NoPacket \in Packet /\ NoStrategies \in Strategies /\ NoDrafts \in DraftTexts
  BY DEF NoPacket, Packet, NoStrategies, Strategies, NoDrafts, DraftTexts
<1>2. NoMaterial \in MaterialRevision
  BY <1>1 DEF NoMaterial, MaterialRevision
<1>3. QED
  BY <1>1, <1>2 DEF NoGuardian, Guardian, NoReview, Review

(* What a candidate's content looks like is a material revision.           *)
LEMMA MaterialType ==
    ASSUME NEW x \in CandidateRecord
    PROVE  Material(x) \in MaterialRevision
BY DEF CandidateRecord, Material, MaterialRevision, Terms

(* bump changes the two revisions and nothing else.                        *)
LEMMA BumpFields ==
    ASSUME NEW x \in CandidateRecord
    PROVE  /\ Bump(x) \in CandidateRecord
           /\ Bump(x).workflow = x.workflow /\ Bump(x).terms = x.terms
           /\ Bump(x).match = x.match /\ Bump(x).readiness = x.readiness
           /\ Bump(x).verifier = x.verifier
           /\ Bump(x).evidence = x.evidence /\ Bump(x).strategies = x.strategies
           /\ Bump(x).drafts = x.drafts /\ Bump(x).selected = x.selected
           /\ Bump(x).guardian = x.guardian /\ Bump(x).review = x.review
           /\ Bump(x).revision = x.revision + 1
           /\ Bump(x).material = Material(x)
           /\ Bump(x).dup = x.dup
<1> DEFINE m == Material(x)
           n == x.revision + 1
           r == [x EXCEPT !.revision = n, !.material = m]
<1>1. m \in MaterialRevision /\ n \in Nat
  BY MaterialType DEF CandidateRecord
<1>2. Bump(x) = r
  BY DEF Bump
<1> HIDE DEF m, n
<1>3. r \in CandidateRecord
  BY <1>1 DEF CandidateRecord
<1>4. /\ r.workflow = x.workflow /\ r.terms = x.terms /\ r.match = x.match
      /\ r.readiness = x.readiness /\ r.verifier = x.verifier
      /\ r.evidence = x.evidence /\ r.strategies = x.strategies
      /\ r.drafts = x.drafts /\ r.selected = x.selected
      /\ r.guardian = x.guardian /\ r.review = x.review
      /\ r.revision = n /\ r.material = m /\ r.dup = x.dup
  BY DEF CandidateRecord
<1>5. QED
  BY <1>2, <1>3, <1>4 DEF m, n

(* A sound record stays sound when bumped, and then its material revision  *)
(* is up to date.                                                          *)
LEMMA BumpStored ==
    ASSUME NEW x \in CandidateRecord, WholeDrafts(x), PassStands(x), ApprovalStands(x),
           InOrder(x), x.evidence.observedAt <= x.revision + 1
    PROVE  Stored(Bump(x))
<1> DEFINE r == Bump(x)
<1>1. r \in CandidateRecord /\ r.material = Material(x)
  BY BumpFields
<1>2. /\ r.workflow = x.workflow /\ r.terms = x.terms /\ r.match = x.match
      /\ r.readiness = x.readiness /\ r.verifier = x.verifier
      /\ r.evidence = x.evidence /\ r.strategies = x.strategies
      /\ r.drafts = x.drafts /\ r.selected = x.selected
      /\ r.guardian = x.guardian /\ r.review = x.review
      /\ r.revision = x.revision + 1
  BY BumpFields
<1> HIDE DEF r
<1>3. Material(r) = Material(x)
  BY <1>2 DEF Material
<1>4. GuardianDecision(r) = GuardianDecision(x)
  BY <1>2 DEF GuardianDecision, Flagged, NeedsRevision
<1>5. PassStands(r)
  BY <1>2, <1>3, <1>4 DEF PassStands, HasDrafts
<1>6. ApprovalStands(r)
  BY <1>2, <1>3 DEF ApprovalStands, FreshApproval
<1>7. DerivedInOrder(r)
  BY <1>2 DEF DerivedInOrder, InOrder, StrategiesAllowed, HasDrafts
<1>8. WholeDrafts(r)
  BY <1>2 DEF WholeDrafts
<1>9. Stored(r)
  BY <1>1, <1>3, <1>5, <1>6, <1>7, <1>8 DEF Stored, Sound
<1>10. QED
  BY <1>9 DEF r

(* DropReview leaves a record without a fresh approval, and touches only   *)
(* the review and the workflow state.                                      *)
LEMMA DropReviewFields ==
    ASSUME NEW x \in CandidateRecord, NEW w \in WorkflowState
    PROVE  LET r == DropReview(x, w) IN
           /\ r \in CandidateRecord
           /\ ~FreshApproval(r)
           /\ r.workflow = IF FreshApproval(x) THEN "stale" ELSE w
           /\ r.terms = x.terms /\ r.match = x.match
           /\ r.readiness = x.readiness /\ r.verifier = x.verifier
           /\ r.evidence = x.evidence /\ r.strategies = x.strategies
           /\ r.drafts = x.drafts /\ r.selected = x.selected
           /\ r.guardian = x.guardian /\ r.revision = x.revision
           /\ r.dup = x.dup /\ MarkedStale(x, r)
<1> DEFINE r == DropReview(x, w)
<1>1. CASE FreshApproval(x)
  <2> DEFINE v == [x.review EXCEPT !.stale = TRUE]
  <2>1. /\ v \in Review /\ v.stale = TRUE
        /\ v.decision = x.review.decision /\ v.bound = x.review.bound
    BY DEF CandidateRecord, Review
  <2>2. r = [x EXCEPT !.review = v, !.workflow = "stale"]
    BY <1>1 DEF DropReview
  <2> HIDE DEF v
  <2>3. "stale" \in WorkflowState
    BY DEF WorkflowState
  <2>4. QED
    BY <1>1, <2>1, <2>2, <2>3 DEF CandidateRecord, FreshApproval, MarkedStale
<1>2. CASE ~FreshApproval(x)
  <2>1. r = [x EXCEPT !.review = NoReview, !.workflow = w]
    BY <1>2 DEF DropReview
  <2>2. NoReview \in Review /\ NoReview.decision = "none"
    BY NullTypes DEF NoReview
  <2>3. QED
    BY <1>2, <2>1, <2>2 DEF CandidateRecord, FreshApproval, MarkedStale
<1>3. QED
  BY <1>1, <1>2

(* A record on which nothing stands, neither a Guardian pass nor an        *)
(* approval, is stored sound by bump.                                      *)
LEMMA UnvouchedStored ==
    ASSUME NEW x \in CandidateRecord, WholeDrafts(x), InOrder(x),
           x.evidence.observedAt <= x.revision + 1,
           Unvouched(x), x.workflow # "approved"
    PROVE  /\ Stored(Bump(x)) /\ Unvouched(Bump(x)) /\ Succeeds(x, Bump(x))
           /\ Bump(x).workflow = x.workflow /\ Bump(x).review = x.review
<1>1. PassStands(x)
  BY DEF Unvouched, PassStands, NoGuardian
<1>2. ApprovalStands(x)
  BY DEF Unvouched, ApprovalStands
<1>3. /\ Unvouched(Bump(x)) /\ Succeeds(x, Bump(x))
      /\ Bump(x).workflow = x.workflow /\ Bump(x).review = x.review
  BY BumpFields DEF Unvouched, FreshApproval, Succeeds
<1>4. QED
  BY <1>1, <1>2, <1>3, BumpStored

(* invalidateDownstream leaves new strategies and nothing derived from the  *)
(* old ones.                                                               *)
LEMMA InvalidateFields ==
    ASSUME NEW x \in CandidateRecord, NEW s \in Strategies
    PROVE  LET r == InvalidateDownstream(x, s) IN
           /\ r \in CandidateRecord
           /\ ~FreshApproval(r)
           /\ r.workflow = IF FreshApproval(x) THEN "stale" ELSE x.workflow
           /\ r.terms = x.terms /\ r.match = x.match
           /\ r.readiness = x.readiness /\ r.verifier = x.verifier
           /\ r.evidence = x.evidence /\ r.revision = x.revision
           /\ r.strategies = s /\ r.drafts = NoDrafts
           /\ r.guardian = NoGuardian
           /\ r.dup = x.dup /\ MarkedStale(x, r)
<1> DEFINE y == [x EXCEPT !.strategies = s, !.drafts = NoDrafts,
                         !.selected = NoDraft, !.guardian = NoGuardian]
<1>1. /\ y \in CandidateRecord /\ x.workflow \in WorkflowState
      /\ y.strategies = s /\ y.drafts = NoDrafts /\ y.guardian = NoGuardian
      /\ y.review = x.review
      /\ y.terms = x.terms /\ y.match = x.match
      /\ y.readiness = x.readiness /\ y.verifier = x.verifier
      /\ y.evidence = x.evidence /\ y.revision = x.revision /\ y.dup = x.dup
  BY NullTypes DEF CandidateRecord
<1>2. FreshApproval(y) <=> FreshApproval(x)
  BY <1>1 DEF FreshApproval
<1>3. InvalidateDownstream(x, s) = DropReview(y, x.workflow)
  BY DEF InvalidateDownstream
<1> HIDE DEF y
<1>4. QED
  BY <1>1, <1>2, <1>3, DropReviewFields DEF MarkedStale

(* The decisions the Verifier and the Guardian can make.                   *)
LEMMA DecisionTypes ==
    ASSUME NEW i \in Identity, NEW t \in Terms
    PROVE  /\ MatchState(i) \in {"exact", "likely", "substitute", "unresolved"}
           /\ VerifierDecision(MatchState(i), t) \in {"verified", "limited", "hold"}
           /\ Readiness(MatchState(i), t) \in {"weak", "partial", "ready", "blocked"}
           /\ Risk(MatchState(i), t) \in {"low", "review", "blocked"}
BY DEF MatchState, VerifierDecision, Readiness, Risk

-----------------------------------------------------------------------------
(* request_verification before its duplicate assessment.                   *)
LEMMA VerifiedStored ==
    ASSUME NEW c, Stored(c), NEW i \in Identity, NEW t \in Terms
    PROVE  LET r == Verified(c, i, t) IN
           /\ Stored(r) /\ Unvouched(r) /\ Succeeds(c, r) /\ MarkedStale(c, r)
           /\ r.strategies = NoStrategies /\ r.drafts = NoDrafts
           /\ r.workflow \in {"stale", "evidence_ready", "evidence_partial"}
           /\ FreshApproval(c) => r.workflow = "stale"
<1> DEFINE m == MatchState(i)
           p == [observedAt |-> c.revision + 1,
                 claims |-> IF i.missing # "all" /\ i.origins > 0
                            THEN {"claim-identity"} ELSE {}]
           v == VerifierDecision(m, t)
           d == Readiness(m, t)
           k == Risk(m, t)
           known == [c EXCEPT !.terms = t, !.match = m, !.verifier = v,
                              !.readiness = d, !.risk = k, !.evidence = p]
           cleared == InvalidateDownstream(known, NoStrategies)
           w == IF FreshApproval(c) THEN cleared.workflow
                ELSE IF known.readiness = "ready" THEN "evidence_ready" ELSE "evidence_partial"
           y == [cleared EXCEPT !.workflow = w]
<1>1. c \in CandidateRecord /\ c.revision \in Nat
  BY DEF Stored, CandidateRecord
<1>2. p \in Packet /\ p.observedAt = c.revision + 1
  BY <1>1 DEF Packet
<1>3. /\ m \in {"exact", "likely", "substitute", "unresolved"}
      /\ v \in {"verified", "limited", "hold"}
      /\ d \in {"weak", "partial", "ready", "blocked"}
      /\ k \in {"low", "review", "blocked"}
  BY DecisionTypes
<1> HIDE DEF m, p, v, d, k
<1>4. /\ known \in CandidateRecord /\ known.review = c.review
      /\ known.evidence = p /\ known.revision = c.revision /\ known.dup = c.dup
  <2> DEFINE first == [c EXCEPT !.terms = t, !.match = m, !.verifier = v]
             last == [first EXCEPT !.readiness = d, !.risk = k, !.evidence = p]
  <2>1. /\ first \in CandidateRecord /\ first.review = c.review
        /\ first.revision = c.revision /\ first.dup = c.dup
    BY <1>1, <1>3 DEF CandidateRecord
  <2> HIDE DEF first
  <2>2. /\ last \in CandidateRecord /\ last.review = first.review
        /\ last.evidence = p /\ last.revision = first.revision /\ last.dup = first.dup
    BY <1>2, <1>3, <2>1 DEF CandidateRecord
  <2>3. known = last
    BY DEF first
  <2>4. QED
    BY <2>1, <2>2, <2>3
<1>5. FreshApproval(known) <=> FreshApproval(c)
  BY <1>4 DEF FreshApproval
<1> HIDE DEF known
<1>6. /\ cleared \in CandidateRecord /\ ~FreshApproval(cleared)
      /\ FreshApproval(c) => cleared.workflow = "stale"
      /\ cleared.evidence = p /\ cleared.revision = c.revision
      /\ cleared.strategies = NoStrategies /\ cleared.drafts = NoDrafts
      /\ cleared.guardian = NoGuardian
      /\ cleared.dup = c.dup /\ MarkedStale(c, cleared)
  BY <1>4, <1>5, NullTypes, InvalidateFields DEF MarkedStale
<1> HIDE DEF cleared
<1>7. /\ w \in {"stale", "evidence_ready", "evidence_partial"}
      /\ FreshApproval(c) => w = "stale"
  BY <1>6
<1> HIDE DEF w
<1>8. /\ y \in CandidateRecord /\ y.workflow = w /\ y.review = cleared.review
      /\ y.evidence = p /\ y.revision = c.revision
      /\ y.strategies = NoStrategies /\ y.drafts = NoDrafts
      /\ y.guardian = NoGuardian /\ y.dup = c.dup
  BY <1>6, <1>7 DEF CandidateRecord, WorkflowState
<1>9. ~FreshApproval(y) /\ MarkedStale(c, y)
  BY <1>6, <1>8 DEF FreshApproval, MarkedStale
<1> HIDE DEF y
<1>10. WholeDrafts(y) /\ InOrder(y)
  BY <1>8 DEF WholeDrafts, InOrder, HasDrafts
<1>11. y.evidence.observedAt <= y.revision + 1
  BY <1>1, <1>2, <1>8
<1>12. Unvouched(y)
  BY <1>8, <1>9 DEF Unvouched
<1>13. /\ Stored(Bump(y)) /\ Unvouched(Bump(y)) /\ Succeeds(y, Bump(y))
       /\ Bump(y).workflow = y.workflow /\ Bump(y).review = y.review
  BY <1>7, <1>8, <1>10, <1>11, <1>12, UnvouchedStored
<1>14. Bump(y).strategies = NoStrategies /\ Bump(y).drafts = NoDrafts
  BY <1>8, BumpFields
<1>15. Verified(c, i, t) = Bump(y)
  BY DEF Verified, y, w, cleared, known, m, p, v, d, k
<1>16. QED
  BY <1>7, <1>8, <1>9, <1>13, <1>14, <1>15 DEF Succeeds, MarkedStale

(* x with a new duplicate stamp and workflow state.                        *)
Restamped(x, d, w) == [x EXCEPT !.dup = d, !.workflow = w]

(* A duplicate stamp, which may also move the workflow state, keeps a      *)
(* record sound when it does not undo or forge an approval: the stamp is   *)
(* no part of the material.                                                *)
LEMMA RestampedStored ==
    ASSUME NEW x, Stored(x), ~FreshApproval(x),
           NEW d \in DuplicateState, NEW w \in WorkflowState \ {"approved"}
    PROVE  LET r == Restamped(x, d, w) IN
           /\ Stored(r)
           /\ r.guardian = x.guardian /\ r.review = x.review /\ r.material = x.material
           /\ r.revision = x.revision /\ r.dup = d /\ r.workflow = w
           /\ r.strategies = x.strategies /\ r.drafts = x.drafts
<1> DEFINE r == Restamped(x, d, w)
<1>1. x \in CandidateRecord
  BY DEF Stored
<1>2. r \in CandidateRecord
  BY <1>1 DEF CandidateRecord, Restamped
<1>3. /\ r.workflow = w /\ r.dup = d /\ r.terms = x.terms /\ r.match = x.match
      /\ r.readiness = x.readiness /\ r.verifier = x.verifier
      /\ r.evidence = x.evidence /\ r.strategies = x.strategies
  BY <1>1 DEF CandidateRecord, Restamped
<1>4. /\ r.drafts = x.drafts /\ r.selected = x.selected
      /\ r.guardian = x.guardian /\ r.review = x.review
      /\ r.revision = x.revision /\ r.material = x.material
  BY <1>1 DEF CandidateRecord, Restamped
<1> HIDE DEF r
<1>5. Material(r) = Material(x)
  BY <1>3, <1>4 DEF Material
<1>6. GuardianDecision(r) = GuardianDecision(x)
  BY <1>3, <1>4 DEF GuardianDecision, Flagged, NeedsRevision
<1>7. PassStands(r)
  BY <1>3, <1>4, <1>5, <1>6 DEF Stored, Sound, PassStands, HasDrafts
<1>8. ApprovalStands(r)
  BY <1>3, <1>4 DEF ApprovalStands, FreshApproval
<1>9. x.evidence.observedAt \in Nat /\ x.revision \in Nat
  BY <1>1 DEF CandidateRecord, Packet
<1>10. DerivedInOrder(r) /\ WholeDrafts(r)
  BY <1>3, <1>4, <1>9 DEF Stored, Sound, DerivedInOrder, StrategiesAllowed, HasDrafts, WholeDrafts
<1>11. r.material = Material(r)
  BY <1>4, <1>5 DEF Stored
<1>12. Stored(r)
  BY <1>2, <1>7, <1>8, <1>10, <1>11 DEF Stored, Sound
<1>13. QED
  BY <1>3, <1>4, <1>12 DEF r

(* The stamp each assessment puts on a record; the revision and the        *)
(* content stay.                                                           *)
LEMMA AssessedStored ==
    ASSUME NEW x, Stored(x), Unvouched(x),
           NEW a \in {"unique", "possible", "exact", "kept"}
    PROVE  LET r == Assessed(x, a) IN
           /\ Stored(r) /\ Unvouched(r)
           /\ r.review = x.review /\ r.material = x.material /\ r.revision = x.revision
           /\ r.strategies = x.strategies /\ r.drafts = x.drafts
           /\ r.dup = CASE a = "exact" -> "exact_duplicate_suppressed"
                        [] a = "possible" -> "possible_duplicate"
                        [] a = "unique" -> "unique"
                        [] a = "kept" -> x.dup
           /\ r.workflow = CASE a = "exact" -> "suppressed_duplicate"
                             [] a = "possible" -> "duplicate_review"
                             [] a \in {"unique", "kept"} -> x.workflow
<1>1. x \in CandidateRecord
  BY DEF Stored
<1>2. x.workflow \in WorkflowState \ {"approved"} /\ x.dup \in DuplicateState
  BY <1>1 DEF Stored, Sound, Unvouched, ApprovalStands, CandidateRecord
<1> DEFINE d == CASE a = "exact" -> "exact_duplicate_suppressed"
                  [] a = "possible" -> "possible_duplicate"
                  [] a = "unique" -> "unique"
                  [] a = "kept" -> x.dup
           w == CASE a = "exact" -> "suppressed_duplicate"
                  [] a = "possible" -> "duplicate_review"
                  [] a \in {"unique", "kept"} -> x.workflow
           r == Restamped(x, d, w)
<1>3. d \in DuplicateState /\ w \in WorkflowState \ {"approved"} /\ ~FreshApproval(x)
  BY <1>2 DEF WorkflowState, DuplicateState, Unvouched
<1>4. Assessed(x, a) = r
  <2>1. CASE a = "exact" \/ a = "possible"
    BY <2>1 DEF Assessed, Restamped
  <2>2. CASE a = "unique"
    BY <1>1, <2>2 DEF Assessed, Restamped, CandidateRecord
  <2>3. CASE a = "kept"
    BY <1>1, <2>3 DEF Assessed, Restamped, CandidateRecord
  <2>4. QED
    BY <2>1, <2>2, <2>3
<1> HIDE DEF d, w
<1>5. /\ Stored(r)
      /\ r.guardian = x.guardian /\ r.review = x.review /\ r.material = x.material
      /\ r.revision = x.revision /\ r.dup = d /\ r.workflow = w
      /\ r.strategies = x.strategies /\ r.drafts = x.drafts
  BY <1>3, RestampedStored
<1> HIDE DEF r
<1>6. Unvouched(r)
  BY <1>5 DEF Unvouched, FreshApproval
<1>7. QED
  BY <1>4, <1>5, <1>6 DEF d, w

Later(x, n) == [x EXCEPT !.revision = n]

(* A later revision of a sound record is sound: the revision is no part of *)
(* the material.                                                           *)
LEMMA LaterStored ==
    ASSUME NEW x, Stored(x), NEW n \in Nat, x.revision <= n
    PROVE  LET r == Later(x, n) IN
           /\ Stored(r)
           /\ r.guardian = x.guardian /\ r.review = x.review /\ r.material = x.material
           /\ r.revision = n /\ r.dup = x.dup /\ r.workflow = x.workflow
           /\ r.strategies = x.strategies /\ r.drafts = x.drafts
<1> DEFINE r == Later(x, n)
<1>1. /\ x \in CandidateRecord /\ x.revision \in Nat /\ x.evidence.observedAt \in Nat
      /\ x.evidence.observedAt <= x.revision
  BY DEF Stored, Sound, DerivedInOrder, CandidateRecord, Packet
<1>2. r \in CandidateRecord
  BY <1>1 DEF CandidateRecord, Later
<1>3. /\ r.workflow = x.workflow /\ r.terms = x.terms /\ r.match = x.match
      /\ r.readiness = x.readiness /\ r.verifier = x.verifier
      /\ r.evidence = x.evidence /\ r.strategies = x.strategies
  BY <1>1 DEF CandidateRecord, Later
<1>4. /\ r.drafts = x.drafts /\ r.selected = x.selected
      /\ r.guardian = x.guardian /\ r.review = x.review
      /\ r.revision = n /\ r.material = x.material /\ r.dup = x.dup
  BY <1>1 DEF CandidateRecord, Later
<1> HIDE DEF r
<1>5. Material(r) = Material(x)
  BY <1>3, <1>4 DEF Material
<1>6. GuardianDecision(r) = GuardianDecision(x)
  BY <1>3, <1>4 DEF GuardianDecision, Flagged, NeedsRevision
<1>7. PassStands(r) /\ ApprovalStands(r)
  BY <1>3, <1>4, <1>5, <1>6
     DEF Stored, Sound, PassStands, ApprovalStands, FreshApproval, HasDrafts
<1>8. DerivedInOrder(r) /\ WholeDrafts(r)
  BY <1>1, <1>3, <1>4 DEF Stored, Sound, DerivedInOrder, StrategiesAllowed, HasDrafts,
                          WholeDrafts
<1>9. Stored(r)
  BY <1>2, <1>4, <1>5, <1>7, <1>8 DEF Stored, Sound
<1>10. QED
  BY <1>3, <1>4, <1>9 DEF r

(* resolve_duplicate, from duplicate_review.                               *)
LEMMA ResolvedStored ==
    ASSUME NEW c, Stored(c), PendingDuplicate(c), NEW decision \in {"distinct", "duplicate"}
    PROVE  LET r == DuplicateResolved(c, decision) IN
           /\ Stored(r)
           /\ r.guardian = c.guardian /\ r.review = c.review /\ r.material = c.material
           /\ r.revision = c.revision + 1
           /\ r.strategies = c.strategies /\ r.drafts = c.drafts
           /\ decision = "duplicate" =>
                 r.dup = "confirmed_duplicate" /\ r.workflow = "suppressed_duplicate"
           /\ decision = "distinct" =>
                 /\ r.dup = "confirmed_distinct"
                 /\ r.workflow \in {"evidence_ready", "evidence_partial", "verification_needed"}
<1> DEFINE n == c.revision + 1
           w == IF decision = "duplicate" THEN "suppressed_duplicate"
                ELSE IF c.readiness = "ready" THEN "evidence_ready"
                ELSE IF c.readiness = "partial" THEN "evidence_partial"
                ELSE "verification_needed"
           d == IF decision = "distinct" THEN "confirmed_distinct" ELSE "confirmed_duplicate"
           y == Restamped(c, d, w)
<1>1. c \in CandidateRecord /\ n \in Nat /\ c.revision <= n
  BY DEF Stored, CandidateRecord
<1>2. /\ w \in WorkflowState \ {"approved"} /\ d \in DuplicateState
      /\ decision = "duplicate" => d = "confirmed_duplicate" /\ w = "suppressed_duplicate"
      /\ decision = "distinct" =>
            /\ d = "confirmed_distinct"
            /\ w \in {"evidence_ready", "evidence_partial", "verification_needed"}
  BY DEF WorkflowState, DuplicateState
<1>3. ~FreshApproval(c)
  BY DEF Stored, Sound, ApprovalStands, PendingDuplicate
<1>4. DuplicateResolved(c, decision) = Later(y, n)
  BY DEF DuplicateResolved, Restamped, Later
<1> HIDE DEF d, w, n
<1>5. /\ Stored(y) /\ y.revision = c.revision /\ y.dup = d /\ y.workflow = w
      /\ y.guardian = c.guardian /\ y.review = c.review /\ y.material = c.material
      /\ y.strategies = c.strategies /\ y.drafts = c.drafts
  BY <1>2, <1>3, RestampedStored
<1> HIDE DEF y
<1> DEFINE r == Later(y, n)
<1>6. /\ Stored(r)
      /\ r.guardian = y.guardian /\ r.review = y.review /\ r.material = y.material
      /\ r.revision = n /\ r.dup = y.dup /\ r.workflow = y.workflow
      /\ r.strategies = y.strategies /\ r.drafts = y.drafts
  BY <1>1, <1>5, LaterStored
<1> HIDE DEF r
<1>7. DuplicateResolved(c, decision) = r
  BY <1>4 DEF r
<1>8. QED
  BY <1>2, <1>5, <1>6, <1>7 DEF n

(* request_strategies.                                                     *)
LEMMA StrategiesStored ==
    ASSUME NEW c, Stored(c), StrategiesAllowed(c)
    PROVE  LET r == WithStrategies(c) IN
           /\ Stored(r) /\ Unvouched(r) /\ Succeeds(c, r) /\ MarkedStale(c, r)
           /\ r.workflow \in {"stale", "strategy_ready"}
           /\ FreshApproval(c) => r.workflow = "stale"
<1> DEFINE s == [evidenceObservedAt |-> c.evidence.observedAt, createdAt |-> c.revision + 1]
           cleared == InvalidateDownstream(c, s)
           w == IF cleared.workflow = "stale" THEN "stale" ELSE "strategy_ready"
           y == [cleared EXCEPT !.workflow = w]
<1>1. /\ c \in CandidateRecord /\ c.revision \in Nat /\ c.evidence.observedAt \in Nat
      /\ c.evidence.observedAt <= c.revision
  BY DEF Stored, Sound, DerivedInOrder, CandidateRecord, Packet
<1>2. /\ s \in Strategies /\ s.evidenceObservedAt = c.evidence.observedAt
      /\ s.evidenceObservedAt < s.createdAt
  BY <1>1 DEF Strategies
<1> HIDE DEF s
<1>3. /\ cleared \in CandidateRecord /\ ~FreshApproval(cleared)
      /\ cleared.evidence = c.evidence /\ cleared.revision = c.revision
      /\ cleared.verifier = c.verifier
      /\ cleared.strategies = s /\ cleared.drafts = NoDrafts
      /\ cleared.guardian = NoGuardian
      /\ cleared.dup = c.dup /\ MarkedStale(c, cleared)
      /\ FreshApproval(c) => cleared.workflow = "stale"
  BY <1>1, <1>2, InvalidateFields
<1> HIDE DEF cleared
<1>4. w \in {"stale", "strategy_ready"} /\ (FreshApproval(c) => w = "stale")
  BY <1>3
<1> HIDE DEF w
<1>5. /\ y \in CandidateRecord /\ y.workflow = w /\ y.review = cleared.review
      /\ y.evidence = c.evidence /\ y.revision = c.revision /\ y.verifier = c.verifier
      /\ y.strategies = s /\ y.drafts = NoDrafts /\ y.guardian = NoGuardian
      /\ y.dup = c.dup
  BY <1>3, <1>4 DEF CandidateRecord, WorkflowState
<1> HIDE DEF y
<1>6. Unvouched(y) /\ MarkedStale(c, y)
  BY <1>3, <1>5 DEF Unvouched, FreshApproval, MarkedStale
<1>7. y.evidence # NoPacket /\ StrategiesAllowed(y)
  BY <1>5 DEF StrategiesAllowed, NoPacket
<1>8. WholeDrafts(y) /\ InOrder(y)
  BY <1>2, <1>5, <1>7 DEF WholeDrafts, InOrder, HasDrafts
<1>9. /\ Stored(Bump(y)) /\ Unvouched(Bump(y)) /\ Succeeds(y, Bump(y))
      /\ Bump(y).workflow = y.workflow /\ Bump(y).review = y.review
  BY <1>1, <1>4, <1>5, <1>6, <1>8, UnvouchedStored
<1>10. WithStrategies(c) = Bump(y)
  BY DEF WithStrategies, y, w, cleared, s
<1>11. QED
  BY <1>4, <1>5, <1>6, <1>9, <1>10 DEF Succeeds, MarkedStale

(* c with other drafts, the Guardian result dropped and the review         *)
(* invalidated.                                                            *)
Redrafted(c, drafts, selected) ==
    Bump(DropReview([c EXCEPT !.drafts = drafts, !.selected = selected,
                              !.guardian = NoGuardian], "draft_ready"))

(* The common tail of request_drafts and edit_draft: new drafts under the  *)
(* same strategies.                                                        *)
LEMMA RedraftedStored ==
    ASSUME NEW c, Stored(c), c.strategies # NoStrategies,
           NEW drafts \in [Draft -> Text], NEW selected \in Draft
    PROVE  LET r == Redrafted(c, drafts, selected) IN
           /\ Stored(r) /\ Unvouched(r) /\ Succeeds(c, r) /\ MarkedStale(c, r)
           /\ r.workflow \in {"stale", "draft_ready"}
           /\ FreshApproval(c) => r.workflow = "stale"
<1> DEFINE y == [c EXCEPT !.drafts = drafts, !.selected = selected, !.guardian = NoGuardian]
           z == DropReview(y, "draft_ready")
<1>1. /\ c \in CandidateRecord /\ c.revision \in Nat /\ c.evidence.observedAt \in Nat
      /\ c.evidence.observedAt <= c.revision
  BY DEF Stored, Sound, DerivedInOrder, CandidateRecord, Packet
<1>2. drafts \in DraftTexts
  BY DEF DraftTexts
<1>3. /\ y \in CandidateRecord
      /\ y.evidence = c.evidence /\ y.revision = c.revision /\ y.verifier = c.verifier
      /\ y.strategies = c.strategies /\ y.drafts = drafts /\ y.selected = selected
      /\ y.guardian = NoGuardian /\ y.dup = c.dup /\ y.review = c.review
  BY <1>1, <1>2, NullTypes DEF CandidateRecord
<1> HIDE DEF y
<1>4. /\ z \in CandidateRecord /\ ~FreshApproval(z)
      /\ z.workflow \in {"stale", "draft_ready"}
      /\ z.evidence = c.evidence /\ z.revision = c.revision /\ z.verifier = c.verifier
      /\ z.strategies = c.strategies /\ z.drafts = drafts /\ z.selected = selected
      /\ z.guardian = NoGuardian /\ z.dup = c.dup
      /\ FreshApproval(y) => z.workflow = "stale"
      /\ MarkedStale(y, z)
  BY <1>3, DropReviewFields DEF WorkflowState
<1>5. MarkedStale(c, z) /\ (FreshApproval(c) => z.workflow = "stale")
  BY <1>3, <1>4 DEF MarkedStale, FreshApproval
<1> HIDE DEF z
<1>6. InOrder(c)
  BY DEF Stored, Sound, DerivedInOrder, InOrder
<1>7. WholeDrafts(z) /\ InOrder(z) /\ Unvouched(z)
  BY <1>4, <1>6 DEF WholeDrafts, InOrder, StrategiesAllowed, Unvouched
<1>8. /\ Stored(Bump(z)) /\ Unvouched(Bump(z)) /\ Succeeds(z, Bump(z))
      /\ Bump(z).workflow = z.workflow /\ Bump(z).review = z.review
  BY <1>1, <1>4, <1>7, UnvouchedStored
<1>9. /\ Succeeds(c, Bump(z)) /\ MarkedStale(c, Bump(z))
      /\ Bump(z).workflow \in {"stale", "draft_ready"}
      /\ FreshApproval(c) => Bump(z).workflow = "stale"
  BY <1>4, <1>5, <1>8 DEF Succeeds, MarkedStale
<1>10. QED
  BY <1>8, <1>9 DEF Redrafted, z, y

(* request_drafts.                                                         *)
LEMMA DraftsStored ==
    ASSUME NEW c, Stored(c), DraftsAllowed(c)
    PROVE  LET r == WithDrafts(c) IN
           /\ Stored(r) /\ Unvouched(r) /\ Succeeds(c, r) /\ MarkedStale(c, r)
           /\ r.workflow \in {"stale", "draft_ready"}
           /\ FreshApproval(c) => r.workflow = "stale"
<1>1. Written(c) \in [Draft -> Text]
  BY DEF Written, Stored, CandidateRecord, Text
<1>2. WithDrafts(c) = Redrafted(c, Written(c), FirstDraft)
  BY DEF WithDrafts, Redrafted
<1>3. c.strategies # NoStrategies
  BY DEF DraftsAllowed
<1>4. QED
  BY <1>1, <1>2, <1>3, RedraftedStored, DraftAssumption

(* edit_draft.                                                             *)
LEMMA EditStored ==
    ASSUME NEW c, Stored(c), HasDrafts(c), NEW draft \in Draft, NEW text \in Text
    PROVE  LET r == DraftEdited(c, draft, text) IN
           /\ Stored(r) /\ Unvouched(r) /\ Succeeds(c, r) /\ MarkedStale(c, r)
           /\ r.workflow \in {"stale", "draft_ready"}
           /\ FreshApproval(c) => r.workflow = "stale"
<1>1. c.strategies # NoStrategies /\ c.drafts \in [Draft -> Text]
  BY DEF Stored, Sound, DerivedInOrder, WholeDrafts, HasDrafts
<1> DEFINE redrafted == [c.drafts EXCEPT ![draft] = text]
<1>2. redrafted \in [Draft -> Text]
  BY <1>1
<1>3. DraftEdited(c, draft, text) = Redrafted(c, redrafted, draft)
  BY DEF DraftEdited, Redrafted
<1> HIDE DEF redrafted
<1>4. QED
  BY <1>1, <1>2, <1>3, RedraftedStored

(* run_guardian.  An approval in force rests on an exact, ready identity,  *)
(* so the early block, which keeps the review, never finds one.            *)
LEMMA GuardianStored ==
    ASSUME NEW c, Stored(c), HasDrafts(c)
    PROVE  LET r == GuardianRun(c) IN
           /\ Stored(r) /\ ~FreshApproval(r)
           /\ r.material = c.material /\ r.guardian.bound = c.material
           /\ Succeeds(c, r)
           /\ r.workflow \in {"guardian_pass", "blocked", "guardian_revise"}
<1> DEFINE early == c.match # "exact" \/ c.readiness # "ready"
           decision == IF early THEN "block" ELSE GuardianDecision(c)
           g == [decision |-> decision, bound |-> c.material]
           w == GuardianState(decision)
           v == IF early THEN c.review ELSE NoReview
           y == [c EXCEPT !.guardian = g, !.workflow = w, !.review = v]
<1>1. /\ c \in CandidateRecord /\ c.material \in MaterialRevision /\ c.review \in Review
      /\ c.material = Material(c) /\ c.evidence.observedAt <= c.revision
      /\ c.evidence.observedAt \in Nat /\ c.revision \in Nat
  BY DEF Stored, Sound, DerivedInOrder, CandidateRecord, Packet
<1>2. decision \in {"pass", "block", "revise"}
  BY DEF GuardianDecision
<1>3. early => ~FreshApproval(c)
  BY DEF Stored, Sound, ApprovalStands, PassStands
<1>4. GuardianRun(c) = Bump(y)
  <2>1. CASE early
    <3>1. y = [c EXCEPT !.guardian = g, !.workflow = w]
      BY <1>1, <2>1 DEF CandidateRecord
    <3>2. QED
      BY <2>1, <3>1 DEF GuardianRun
  <2>2. CASE ~early
    BY <2>2 DEF GuardianRun
  <2>3. QED
    BY <2>1, <2>2
<1>5. g \in Guardian /\ g.decision = decision /\ g.bound = c.material
  BY <1>1, <1>2 DEF Guardian
<1>6. w \in {"guardian_pass", "blocked", "guardian_revise"}
  BY <1>2 DEF GuardianState
<1>7. v \in Review /\ (v.decision = "approved" => v.stale)
  BY <1>1, <1>3, NullTypes DEF FreshApproval, NoReview, Review
<1>8. /\ decision = "pass" => c.match = "exact" /\ c.readiness = "ready"
      /\ decision = "pass" => GuardianDecision(c) = "pass"
  OBVIOUS
<1> HIDE DEF early, decision, g, w, v
<1>9. y \in CandidateRecord
  BY <1>1, <1>5, <1>6, <1>7 DEF CandidateRecord, WorkflowState
<1>10. /\ y.workflow = w /\ y.terms = c.terms /\ y.match = c.match
       /\ y.readiness = c.readiness /\ y.verifier = c.verifier
       /\ y.evidence = c.evidence /\ y.strategies = c.strategies
  BY <1>1 DEF CandidateRecord
<1>11. /\ y.drafts = c.drafts /\ y.selected = c.selected
       /\ y.guardian = g /\ y.review = v
       /\ y.revision = c.revision /\ y.dup = c.dup
  BY <1>1 DEF CandidateRecord
<1> HIDE DEF y
<1>12. Material(y) = Material(c) /\ HasDrafts(y) /\ GuardianDecision(y) = GuardianDecision(c)
  BY <1>10, <1>11 DEF Material, HasDrafts, GuardianDecision, Flagged, NeedsRevision
<1>13. PassStands(y)
  BY <1>1, <1>5, <1>8, <1>10, <1>11, <1>12 DEF PassStands
<1>14. ApprovalStands(y)
  BY <1>6, <1>7, <1>10, <1>11 DEF ApprovalStands, FreshApproval
<1>15. WholeDrafts(y) /\ InOrder(y)
  BY <1>10, <1>11 DEF Stored, Sound, DerivedInOrder, WholeDrafts, InOrder,
                      StrategiesAllowed, HasDrafts
<1>16. y.evidence.observedAt <= y.revision + 1
  BY <1>1, <1>10, <1>11
<1>17. Stored(Bump(y))
  BY <1>9, <1>13, <1>14, <1>15, <1>16, BumpStored
<1>18. ~FreshApproval(Bump(y)) /\ Bump(y).material = c.material
  BY <1>1, <1>7, <1>9, <1>11, <1>12, BumpFields DEF FreshApproval
<1>19. /\ Bump(y).guardian.bound = c.material /\ Succeeds(c, Bump(y))
       /\ Bump(y).workflow = w
  BY <1>5, <1>9, <1>10, <1>11, BumpFields DEF Succeeds
<1>20. QED
  BY <1>4, <1>6, <1>17, <1>18, <1>19

(* review_decision.  The comparison of material revisions makes an         *)
(* approval rest on the pass of the very content being approved.           *)
LEMMA ReviewedStored ==
    ASSUME NEW c, Stored(c), NEW decision \in ReviewDecision, ReviewAllowed(c, decision)
    PROVE  LET r == Reviewed(c, decision) IN
           /\ Stored(r)
           /\ r.material = c.material /\ r.guardian = c.guardian
           /\ r.review.decision = decision /\ r.review.bound = c.material
           /\ ~r.review.stale
           /\ Succeeds(c, r) /\ r.workflow = decision
           /\ r.strategies = c.strategies /\ r.drafts = c.drafts
<1> DEFINE v == [decision |-> decision, bound |-> c.material, stale |-> FALSE]
           y == [c EXCEPT !.review = v, !.workflow = decision]
<1>1. /\ c \in CandidateRecord /\ c.material \in MaterialRevision
      /\ c.material = Material(c) /\ c.evidence.observedAt <= c.revision
      /\ c.evidence.observedAt \in Nat /\ c.revision \in Nat
  BY DEF Stored, Sound, DerivedInOrder, CandidateRecord, Packet
<1>2. /\ v \in Review /\ v.decision = decision /\ v.bound = c.material /\ v.stale = FALSE
      /\ decision \in WorkflowState
  BY <1>1 DEF Review, ReviewDecision, WorkflowState
<1> HIDE DEF v
<1>3. y \in CandidateRecord
  BY <1>1, <1>2 DEF CandidateRecord
<1>4. /\ y.workflow = decision /\ y.terms = c.terms /\ y.match = c.match
      /\ y.readiness = c.readiness /\ y.verifier = c.verifier
      /\ y.evidence = c.evidence /\ y.strategies = c.strategies
  BY <1>1 DEF CandidateRecord
<1>5. /\ y.drafts = c.drafts /\ y.selected = c.selected
      /\ y.guardian = c.guardian /\ y.review = v
      /\ y.revision = c.revision /\ y.dup = c.dup
  BY <1>1 DEF CandidateRecord
<1>6. Reviewed(c, decision) = Bump(y)
  BY DEF Reviewed, y, v
<1> HIDE DEF y
<1>7. Material(y) = Material(c) /\ GuardianDecision(y) = GuardianDecision(c)
  BY <1>4, <1>5 DEF Material, GuardianDecision, Flagged, NeedsRevision
<1>8. PassStands(y)
  BY <1>4, <1>5, <1>7 DEF Stored, Sound, PassStands, HasDrafts
<1>9. ApprovalStands(y)
  BY <1>1, <1>2, <1>4, <1>5, <1>7 DEF ApprovalStands, FreshApproval, ReviewAllowed
<1>10. WholeDrafts(y) /\ InOrder(y)
  BY <1>4, <1>5 DEF Stored, Sound, DerivedInOrder, WholeDrafts, InOrder,
                    StrategiesAllowed, HasDrafts
<1>11. y.evidence.observedAt <= y.revision + 1
  BY <1>1, <1>4, <1>5
<1>12. Stored(Bump(y))
  BY <1>3, <1>8, <1>9, <1>10, <1>11, BumpStored
<1>13. /\ Bump(y).material = c.material /\ Bump(y).guardian = c.guardian
       /\ Bump(y).review = v /\ Succeeds(c, Bump(y)) /\ Bump(y).workflow = decision
       /\ Bump(y).strategies = c.strategies /\ Bump(y).drafts = c.drafts
  BY <1>1, <1>3, <1>4, <1>5, <1>7, BumpFields DEF Succeeds
<1>14. QED
  BY <1>2, <1>6, <1>12, <1>13

(* A candidate fresh from the form is sound.                               *)
LEMMA NewStored ==
    ASSUME NEW copy \in Text, NEW terms \in Terms
    PROVE  LET r == NewCandidate(copy, terms) IN
           /\ Stored(r) /\ Unvouched(r)
           /\ r.dup = "unique" /\ r.workflow = "verification_needed" /\ r.revision = 1
           /\ r.strategies = NoStrategies /\ r.drafts = NoDrafts
<1> DEFINE blank == [workflow |-> "verification_needed", copy |-> copy, terms |-> terms,
                  match |-> "unresolved", verifier |-> "none",
                  readiness |-> "weak", risk |-> "review",
                  evidence |-> NoPacket, strategies |-> NoStrategies,
                  drafts |-> NoDrafts, selected |-> NoDraft,
                  guardian |-> NoGuardian, review |-> NoReview,
                  dup |-> "unique", revision |-> 1, material |-> NoMaterial]
           m == Material(blank)
           r == [blank EXCEPT !.material = m]
<1>1. blank \in CandidateRecord
  BY NullTypes DEF CandidateRecord, WorkflowState, DuplicateState
<1>2. m \in MaterialRevision
  BY <1>1, MaterialType
<1>3. NewCandidate(copy, terms) = r
  BY DEF NewCandidate
<1>4. /\ r.workflow = "verification_needed" /\ r.evidence = NoPacket
      /\ r.strategies = NoStrategies /\ r.drafts = NoDrafts
      /\ r.guardian = NoGuardian /\ r.review = NoReview /\ r.revision = 1
      /\ r.material = m /\ r.dup = "unique"
  OBVIOUS
<1>5. Material(r) = Material(blank)
  BY DEF Material
<1> HIDE DEF m
<1>6. r \in CandidateRecord
  BY <1>1, <1>2 DEF CandidateRecord
<1> HIDE DEF r, blank
<1>7. ~FreshApproval(r)
  BY <1>4 DEF FreshApproval, NoReview
<1>8. PassStands(r) /\ ApprovalStands(r)
  BY <1>4, <1>7 DEF PassStands, ApprovalStands, NoGuardian
<1>9. DerivedInOrder(r) /\ WholeDrafts(r)
  BY <1>4 DEF DerivedInOrder, WholeDrafts, HasDrafts, NoPacket
<1>10. Stored(r)
  BY <1>4, <1>5, <1>6, <1>8, <1>9 DEF Stored, Sound, m
<1>11. QED
  BY <1>3, <1>4, <1>7, <1>10 DEF Unvouched

-----------------------------------------------------------------------------
(* The workflow.                                                           *)

Suspected ==
    {"possible_duplicate", "exact_duplicate_suppressed", "confirmed_duplicate"}

(* A suspected duplicate is in a state from which the Orchestrator         *)
(* dispatches nothing, and has no content yet.                             *)
HeldBack(x) ==
    x.dup \in Suspected =>
        /\ x.workflow \in {"duplicate_review", "suppressed_duplicate", "held", "rejected"}
        /\ x.strategies = NoStrategies /\ x.drafts = NoDrafts

WorkflowIInv == Stored(cand) /\ (supervised => HeldBack(cand))

-----------------------------------------------------------------------------
(* A new candidate satisfies the invariant.                                *)
LEMMA WorkflowStartsSound == WorkflowInit => WorkflowIInv
<1> SUFFICES ASSUME NEW copy \in Text, NEW terms \in Terms,
                    NEW a \in {"unique", "possible"}, cand = Assessed(NewCandidate(copy, terms), a)
             PROVE  Stored(cand) /\ HeldBack(cand)
  BY DEF WorkflowInit, Added, WorkflowIInv
<1> DEFINE n == NewCandidate(copy, terms)
<1>1. Stored(n) /\ Unvouched(n) /\ n.strategies = NoStrategies /\ n.drafts = NoDrafts
  BY NewStored
<1> HIDE DEF n
<1>2. cand = Assessed(n, a)
  BY DEF n
<1>3. QED
  BY <1>1, <1>2, AssessedStored DEF HeldBack, Suspected

(* request_verification, its duplicate assessment included: the content is *)
(* gone, and nothing vouches for the record.  An approval leaves its mark. *)
LEMMA VerificationStep ==
    ASSUME Stored(cand), RequestVerification
    PROVE  /\ Stored(cand') /\ Unvouched(cand') /\ HeldBack(cand')
           /\ FreshApproval(cand) =>
                 /\ cand'.review.decision = "approved" /\ cand'.review.stale
                 /\ cand'.review.bound = cand.review.bound
                 /\ cand'.workflow \in {"stale", "duplicate_review", "suppressed_duplicate"}
<1>1. PICK identity \in Identity, terms \in Terms, a \in Assessment(cand) :
          cand' = Assessed(Verified(cand, identity, terms), a)
  BY DEF RequestVerification
<1>2. /\ a \in {"unique", "possible", "exact", "kept"}
      /\ a = "kept" => cand.dup = "confirmed_distinct"
  BY DEF Assessment
<1> DEFINE v == Verified(cand, identity, terms)
<1>3. /\ Stored(v) /\ Unvouched(v) /\ v.dup = cand.dup /\ MarkedStale(cand, v)
      /\ v.strategies = NoStrategies /\ v.drafts = NoDrafts
      /\ FreshApproval(cand) => v.workflow = "stale"
  BY VerifiedStored DEF Succeeds
<1> HIDE DEF v
<1>4. cand' = Assessed(v, a)
  BY <1>1 DEF v
<1>5. /\ Stored(cand') /\ Unvouched(cand') /\ cand'.review = v.review
      /\ cand'.strategies = NoStrategies /\ cand'.drafts = NoDrafts
      /\ cand'.dup \in Suspected => a \in {"exact", "possible"}
      /\ a \in {"exact", "possible"} =>
             cand'.workflow \in {"suppressed_duplicate", "duplicate_review"}
      /\ a \notin {"exact", "possible"} => cand'.workflow = v.workflow
  BY <1>2, <1>3, <1>4, AssessedStored DEF Suspected
<1>6. HeldBack(cand')
  BY <1>5 DEF HeldBack
<1>7. QED
  BY <1>3, <1>5, <1>6 DEF MarkedStale

(* Every command keeps the record sound.                                   *)
LEMMA CommandStored ==
    ASSUME Stored(cand), AnyCommand
    PROVE  Stored(cand')
<1>1. CASE RequestVerification
  BY <1>1, VerificationStep
<1>2. CASE RequestStrategies
  BY <1>2, StrategiesStored DEF RequestStrategies
<1>3. CASE RequestDrafts
  BY <1>3, DraftsStored DEF RequestDrafts
<1>4. CASE RunGuardian
  BY <1>4, GuardianStored DEF RunGuardian
<1>5. CASE EditDraft
  BY <1>5, EditStored DEF EditDraft
<1>6. CASE RecordReviewDecision
  BY <1>6, ReviewedStored DEF RecordReviewDecision
<1>7. CASE ResolveDuplicate
  BY <1>7, ResolvedStored DEF ResolveDuplicate
<1>8. QED
  BY <1>1, <1>2, <1>3, <1>4, <1>5, <1>6, <1>7 DEF AnyCommand

(* With the Orchestrator in front, every command leaves suspected          *)
(* duplicates held back: a specialist is not dispatched to one, an edit or *)
(* an approval would need drafts, and only the owner's "distinct" or       *)
(* another verification takes the suspicion away.                          *)
LEMMA CommandHoldsBack ==
    ASSUME Stored(cand), supervised, HeldBack(cand), AnyCommand
    PROVE  HeldBack(cand')
<1>1. CASE RequestVerification
  BY <1>1, VerificationStep
<1>2. CASE RequestStrategies
  <2>1. cand'.dup = cand.dup /\ cand.workflow = "evidence_ready"
    BY <1>2, StrategiesStored
       DEF RequestStrategies, Succeeds, MayRun, CanDispatch, AllowedStates
  <2>2. QED
    BY <2>1 DEF HeldBack
<1>3. CASE RequestDrafts
  <2>1. cand'.dup = cand.dup /\ cand.workflow = "strategy_ready"
    BY <1>3, DraftsStored DEF RequestDrafts, Succeeds, MayRun, CanDispatch, AllowedStates
  <2>2. QED
    BY <2>1 DEF HeldBack
<1>4. CASE RunGuardian
  <2>1. cand'.dup = cand.dup /\ HasDrafts(cand)
    BY <1>4, GuardianStored DEF RunGuardian, Succeeds
  <2>2. QED
    BY <2>1 DEF HeldBack, HasDrafts
<1>5. CASE EditDraft
  <2>1. cand'.dup = cand.dup /\ HasDrafts(cand)
    BY <1>5, EditStored DEF EditDraft, Succeeds
  <2>2. QED
    BY <2>1 DEF HeldBack, HasDrafts
<1>6. CASE RecordReviewDecision
  <2>1. PICK decision \in ReviewDecision :
            ReviewAllowed(cand, decision) /\ cand' = Reviewed(cand, decision)
    BY <1>6 DEF RecordReviewDecision
  <2>2. /\ cand'.dup = cand.dup /\ cand'.workflow = decision
        /\ cand'.strategies = cand.strategies /\ cand'.drafts = cand.drafts
    BY <2>1, ReviewedStored DEF Succeeds
  <2>3. decision = "approved" => HasDrafts(cand)
    BY <2>1 DEF ReviewAllowed, Stored, Sound, PassStands
  <2>4. QED
    BY <2>2, <2>3 DEF HeldBack, HasDrafts, ReviewDecision
<1>7. CASE ResolveDuplicate
  <2>1. PICK decision \in {"distinct", "duplicate"} :
            PendingDuplicate(cand) /\ cand' = DuplicateResolved(cand, decision)
    BY <1>7 DEF ResolveDuplicate
  <2>2. cand.strategies = NoStrategies /\ cand.drafts = NoDrafts
    BY <2>1 DEF HeldBack, PendingDuplicate, Suspected
  <2>3. /\ cand'.strategies = NoStrategies /\ cand'.drafts = NoDrafts
        /\ cand'.dup = "confirmed_distinct" \/ cand'.workflow = "suppressed_duplicate"
    BY <2>1, <2>2, ResolvedStored
  <2>4. QED
    BY <2>3 DEF HeldBack, Suspected
<1>8. QED
  BY <1>1, <1>2, <1>3, <1>4, <1>5, <1>6, <1>7 DEF AnyCommand

(* The invariant is inductive.                                             *)
LEMMA WorkflowStaysSound == WorkflowIInv /\ [WorkflowNext]_workflowVars => WorkflowIInv'
<1>1. ASSUME WorkflowIInv, WorkflowNext
      PROVE  WorkflowIInv'
  BY <1>1, CommandStored, CommandHoldsBack DEF WorkflowIInv, WorkflowNext
<1>2. ASSUME WorkflowIInv, UNCHANGED workflowVars
      PROVE  WorkflowIInv'
  BY <1>2 DEF WorkflowIInv, workflowVars
<1>3. QED
  BY <1>1, <1>2

(* WorkflowIInv is an invariant; the theorems below read it off.           *)
LEMMA WorkflowStandsSound == WorkflowSpec => []WorkflowIInv
<1>1. QED
  BY WorkflowStartsSound, WorkflowStaysSound, PTL DEF WorkflowSpec

-----------------------------------------------------------------------------
(* Every field of a candidate keeps its type, and drafts come all together *)
(* (the record application-state.mjs stores).                              *)
THEOREM WorkflowTypeCorrect == WorkflowSpec => []WorkflowTypeOK
<1>1. WorkflowIInv => WorkflowTypeOK
  BY DEF WorkflowIInv, Stored, WorkflowTypeOK, WholeDrafts
<1>2. QED
  BY <1>1, WorkflowStandsSound, PTL

(* No command leaves materialRevision behind the content it identifies, so *)
(* comparing it in recordReviewDecision compares contents.                 *)
THEOREM MaterialStaysCurrent == WorkflowSpec => []MaterialIsCurrent
<1>1. WorkflowIInv => MaterialIsCurrent
  BY DEF WorkflowIInv, Stored, MaterialIsCurrent
<1>2. QED
  BY <1>1, WorkflowStandsSound, PTL

(* Strategies never outlive the packet they answer, nor drafts the         *)
(* strategies (invalidateDownstream).                                      *)
THEOREM LineageHolds == WorkflowSpec => []Lineage
<1>1. WorkflowIInv => Lineage
  BY DEF WorkflowIInv, Stored, Sound, Lineage
<1>2. QED
  BY <1>1, WorkflowStandsSound, PTL

(* A recorded Guardian pass covers the content as it stands.               *)
THEOREM PassStaysCurrent == WorkflowSpec => []PassIsCurrent
<1>1. WorkflowIInv => PassIsCurrent
  BY DEF WorkflowIInv, Stored, Sound, PassIsCurrent
<1>2. QED
  BY <1>1, WorkflowStandsSound, PTL

(* An approval that is not marked stale is for the current content, which  *)
(* the Guardian has passed: recordReviewDecision's check is never undone.  *)
THEOREM ApprovalStaysVouched == WorkflowSpec => []ApprovalIsVouched
<1>1. WorkflowIInv => ApprovalIsVouched
  BY DEF WorkflowIInv, Stored, Sound, ApprovalIsVouched
<1>2. QED
  BY <1>1, WorkflowStandsSound, PTL

(* Copy under a standing approval would pass the Guardian again: exact     *)
(* identity, cleared rights, no forbidden claim in any draft.              *)
THEOREM ApprovedCopyStaysSafe == WorkflowSpec => []ApprovedCopyIsSafe
<1>1. WorkflowIInv => ApprovedCopyIsSafe
  BY DEF WorkflowIInv, Stored, Sound, ApprovalStands, PassStands, GuardianDecision, ApprovedCopyIsSafe
<1>2. QED
  BY <1>1, WorkflowStandsSound, PTL

(* Everything that is stored was derived from the content and the evidence *)
(* that are stored now, after any sequence of commands.                    *)
THEOREM ContentStaysCurrent == WorkflowSpec => []ContentIsCurrent
BY MaterialStaysCurrent, LineageHolds, PTL DEF ContentIsCurrent

(* A pass and an approval that stand were earned: the pass is of the       *)
(* current content, the approval rests on it, and the approved copy        *)
(* carries no finding that forbids it.                                     *)
THEOREM ApprovalStaysEarned == WorkflowSpec => []ApprovalIsEarned
BY PassStaysCurrent, ApprovalStaysVouched, ApprovedCopyStaysSafe, PTL DEF ApprovalIsEarned

-----------------------------------------------------------------------------
(* With the Orchestrator in front, a candidate that may be or is a         *)
(* duplicate has no strategies, no drafts and no approval: no order of     *)
(* verifications, decisions and resolutions gets content for it            *)
(* (manual-orchestrator.mjs over candidate-dedupe-store.mjs).              *)
THEOREM DuplicatesStayWithoutContent == WorkflowSpec => []DuplicatesStayOut
<1>1. WorkflowIInv => DuplicatesStayOut
  BY DEF WorkflowIInv, Stored, Sound, ApprovalStands, HeldBack, Suspected, DuplicatesStayOut
<1>2. QED
  BY <1>1, WorkflowStandsSound, PTL

(* A step that ends a standing approval leaves a stale mark on it that     *)
(* still names what was approved, or is the owner's own decision           *)
(* (invalidateDownstream, recordReviewDecision behind the dispatch rules). *)
LEMMA ApprovalEnds ==
    ASSUME Stored(cand), supervised, FreshApproval(cand), AnyCommand, ~FreshApproval(cand)'
    PROVE  \/ /\ cand'.review.decision = "approved" /\ cand'.review.stale
              /\ cand'.review.bound = cand.review.bound
              /\ cand'.workflow \in {"stale", "duplicate_review", "suppressed_duplicate"}
           \/ cand'.review.decision \in {"held", "rejected"}
<1>1. cand.workflow = "approved"
  BY DEF Stored, Sound, ApprovalStands
<1>2. CASE RequestVerification
  BY <1>2, VerificationStep
<1>3. CASE RequestStrategies \/ RequestDrafts \/ RunGuardian
  BY <1>1, <1>3
     DEF RequestStrategies, RequestDrafts, RunGuardian, MayRun, CanDispatch, AllowedStates
<1>4. CASE EditDraft
  BY <1>4, EditStored DEF EditDraft, MarkedStale
<1>5. CASE RecordReviewDecision
  <2>1. PICK decision \in ReviewDecision :
            ReviewAllowed(cand, decision) /\ cand' = Reviewed(cand, decision)
    BY <1>5 DEF RecordReviewDecision
  <2>2. cand'.review.decision = decision /\ ~cand'.review.stale
    BY <2>1, ReviewedStored
  <2>3. QED
    BY <2>2 DEF FreshApproval, ReviewDecision
<1>6. CASE ResolveDuplicate
  BY <1>1, <1>6 DEF ResolveDuplicate, PendingDuplicate
<1>7. QED
  BY <1>2, <1>3, <1>4, <1>5, <1>6 DEF AnyCommand

(* With the Orchestrator in front, an approval never just disappears.      *)
THEOREM ApprovalsEndVisibly == WorkflowSpec => ApprovalEndsVisibly
<1>1. WorkflowIInv /\ [WorkflowNext]_workflowVars =>
        [supervised /\ FreshApproval(cand) /\ ~FreshApproval(cand)' =>
          \/ /\ cand.review'.decision = "approved" /\ cand.review'.stale
             /\ cand.review'.bound = cand.review.bound
             /\ cand.workflow' \in {"stale", "duplicate_review", "suppressed_duplicate"}
          \/ cand.review'.decision \in {"held", "rejected"}]_workflowVars
  BY ApprovalEnds DEF WorkflowIInv, WorkflowNext
<1>2. QED
  BY <1>1, WorkflowStandsSound, PTL DEF WorkflowSpec, ApprovalEndsVisibly

-----------------------------------------------------------------------------
(* The refinement.  The images of the three variables of Approval.         *)
Vouching(x) == IF x.guardian.decision = "pass" THEN x.guardian.bound ELSE NoMaterial
Approving(x) == IF FreshApproval(x) THEN x.review.bound ELSE NoMaterial

(* What Guardian and owner stand by is the current content or nothing, and *)
(* content with drafts is not nothing.                                     *)
LEMMA ImageOfStored ==
    ASSUME NEW x, Stored(x)
    PROVE  /\ x.material \in MaterialRevision
           /\ x.guardian.decision = "pass" =>
                  x.guardian.bound = x.material /\ x.material # NoMaterial
           /\ FreshApproval(x) => x.review.bound = x.material
<1>1. x.material \in MaterialRevision
  BY DEF Stored, CandidateRecord
<1>2. ASSUME x.guardian.decision = "pass"
      PROVE  x.guardian.bound = x.material /\ x.material # NoMaterial
  <2>1. x.guardian.bound = x.material /\ x.drafts # NoDrafts
    BY <1>2 DEF Stored, Sound, PassStands, HasDrafts
  <2>2. x.material.drafts = x.drafts /\ NoMaterial.drafts = NoDrafts
    BY DEF Stored, Material, NoMaterial
  <2>3. QED
    BY <2>1, <2>2
<1>3. FreshApproval(x) => x.review.bound = x.material
  BY DEF Stored, Sound, ApprovalStands
<1>4. QED
  BY <1>1, <1>2, <1>3

(* A record without pass or approval maps to no voucher and no approval.   *)
LEMMA ImageOfUnvouched ==
    ASSUME NEW x, Unvouched(x)
    PROVE  Vouching(x) = NoMaterial /\ Approving(x) = NoMaterial
BY DEF Unvouched, Vouching, Approving, NoGuardian

(* Every command is a step of the approval promise, or changes nothing it  *)
(* speaks of.                                                              *)
LEMMA StepRefines ==
    ASSUME Stored(cand), AnyCommand
    PROVE  \/ /\ cand'.material \in MaterialRevision
              /\ Vouching(cand') = NoMaterial /\ Approving(cand') = NoMaterial
           \/ /\ Vouching(cand') \in {cand.material, NoMaterial} /\ Approving(cand') = NoMaterial
              /\ cand'.material = cand.material
           \/ /\ Vouching(cand) = cand.material /\ Vouching(cand) # NoMaterial
              /\ Approving(cand') = cand.material
              /\ cand'.material = cand.material /\ Vouching(cand') = Vouching(cand)
           \/ /\ Approving(cand') = NoMaterial
              /\ cand'.material = cand.material /\ Vouching(cand') = Vouching(cand)
<1>1. CASE RequestVerification
  BY <1>1, VerificationStep, ImageOfStored, ImageOfUnvouched
<1>2. CASE RequestStrategies
  <2>1. Stored(cand') /\ Unvouched(cand')
    BY <1>2, StrategiesStored DEF RequestStrategies
  <2>2. QED
    BY <2>1, ImageOfStored, ImageOfUnvouched
<1>3. CASE RequestDrafts
  <2>1. Stored(cand') /\ Unvouched(cand')
    BY <1>3, DraftsStored DEF RequestDrafts
  <2>2. QED
    BY <2>1, ImageOfStored, ImageOfUnvouched
<1>4. CASE RunGuardian
  <2>1. ~FreshApproval(cand') /\ cand'.material = cand.material /\ cand'.guardian.bound = cand.material
    BY <1>4, GuardianStored DEF RunGuardian
  <2>2. QED
    BY <2>1 DEF Vouching, Approving
<1>5. CASE EditDraft
  <2>1. Stored(cand') /\ Unvouched(cand')
    BY <1>5, EditStored DEF EditDraft
  <2>2. QED
    BY <2>1, ImageOfStored, ImageOfUnvouched
<1>6. CASE RecordReviewDecision
  <2>1. PICK decision \in ReviewDecision :
            ReviewAllowed(cand, decision) /\ cand' = Reviewed(cand, decision)
    BY <1>6 DEF RecordReviewDecision
  <2>2. /\ cand'.material = cand.material /\ cand'.guardian = cand.guardian
        /\ cand'.review.decision = decision /\ cand'.review.bound = cand.material /\ ~cand'.review.stale
    BY <2>1, ReviewedStored
  <2>3. Vouching(cand') = Vouching(cand)
    BY <2>2 DEF Vouching
  <2>4. CASE decision = "approved"
    <3>1. cand.guardian.decision = "pass"
      BY <2>1, <2>4 DEF ReviewAllowed
    <3>2. Vouching(cand) = cand.material /\ Vouching(cand) # NoMaterial
      BY <3>1, ImageOfStored DEF Vouching
    <3>3. Approving(cand') = cand.material
      BY <2>2, <2>4 DEF Approving, FreshApproval
    <3>4. QED
      BY <2>2, <2>3, <3>2, <3>3
  <2>5. CASE decision # "approved"
    BY <2>2, <2>3, <2>5 DEF Approving, FreshApproval
  <2>6. QED
    BY <2>4, <2>5
<1>7. CASE ResolveDuplicate
  <2>1. /\ cand'.material = cand.material /\ cand'.guardian = cand.guardian /\ cand'.review = cand.review
    BY <1>7, ResolvedStored DEF ResolveDuplicate
  <2>2. ~FreshApproval(cand)
    BY <1>7 DEF ResolveDuplicate, PendingDuplicate, Stored, Sound, ApprovalStands
  <2>3. QED
    BY <2>1, <2>2 DEF Vouching, Approving, FreshApproval
<1>8. QED
  BY <1>1, <1>2, <1>3, <1>4, <1>5, <1>6, <1>7 DEF AnyCommand

(* The workflow implements the approval promise: under any sequence of     *)
(* commands only content the Guardian has just passed is approved, and no  *)
(* approval outlives that content.                                         *)
THEOREM WorkflowImplementsApproval == WorkflowSpec => ApprovalPromise
<1>1. WorkflowInit => Promise!Init
  <2> SUFFICES ASSUME NEW copy \in Text, NEW terms \in Terms,
                      NEW a \in {"unique", "possible"},
                      cand = Assessed(NewCandidate(copy, terms), a)
               PROVE  Promise!Init
    BY DEF WorkflowInit, Added
  <2>1. Stored(cand) /\ Unvouched(cand)
    BY NewStored, AssessedStored
  <2>2. QED
    BY <2>1, ImageOfStored, ImageOfUnvouched DEF Promise!Init, Vouching, Approving
<1>2. WorkflowIInv /\ [WorkflowNext]_workflowVars => [Promise!Next]_(Promise!vars)
  <2> SUFFICES ASSUME Stored(cand), AnyCommand \/ cand' = cand
               PROVE  [Promise!Next]_(Promise!vars)
    BY DEF WorkflowIInv, WorkflowNext, workflowVars
  <2>1. CASE /\ cand'.material \in MaterialRevision
             /\ Vouching(cand') = NoMaterial /\ Approving(cand') = NoMaterial
    BY <2>1 DEF Vouching, Approving, FreshApproval, Promise!Next, Promise!Change
  <2>2. CASE /\ Vouching(cand') \in {cand.material, NoMaterial} /\ Approving(cand') = NoMaterial
             /\ cand'.material = cand.material
    BY <2>2 DEF Vouching, Approving, FreshApproval, Promise!Next, Promise!Vouch
  <2>3. CASE /\ Vouching(cand) = cand.material /\ Vouching(cand) # NoMaterial
             /\ Approving(cand') = cand.material
             /\ cand'.material = cand.material /\ Vouching(cand') = Vouching(cand)
    BY <2>3 DEF Vouching, Approving, FreshApproval, Promise!Next, Promise!Approve
  <2>4. CASE /\ Approving(cand') = NoMaterial
             /\ cand'.material = cand.material /\ Vouching(cand') = Vouching(cand)
    BY <2>4 DEF Vouching, Approving, FreshApproval, Promise!Next, Promise!Withdraw
  <2>5. CASE cand' = cand
    BY <2>5 DEF Promise!vars, FreshApproval
  <2>6. QED
    BY <2>1, <2>2, <2>3, <2>4, <2>5, StepRefines
<1>3. QED
  BY <1>1, <1>2, WorkflowStandsSound, PTL DEF WorkflowSpec, ApprovalPromise, Promise!Spec
=============================================================================
