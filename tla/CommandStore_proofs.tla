---------------------------- MODULE CommandStore_proofs ----------------------------
(***************************************************************************)
(* What holds of the duplicate store under any traffic: for any number of  *)
(* candidates, products and requests, any limits, with crashes or without. *)
(*                                                                         *)
(* The inductive invariant IInv says of every record that it is stored as  *)
(* the lemmas about the handlers in CandidateWorkflow_proofs have it; of   *)
(* every request under way what the file may be compared with it (its      *)
(* revision, its place in the history, how often it took effect); of the   *)
(* handler between its two writes what it still has to assess; and, as     *)
(* long as no server dies, what the assessments made so far are about.     *)
(* The variables of a single candidate that come with that module, cand    *)
(* and supervised, appear in no statement here.                            *)
(***************************************************************************)
EXTENDS CommandStore, CandidateWorkflow_proofs, SequenceTheorems, FiniteSetTheorems

Sent(r) == call[r].at # "idle"

OnCandidate(r) == Sent(r) /\ call[r].command \notin OnNoCandidate

OnNone(r) == Sent(r) /\ call[r].command \in OnNoCandidate

UnderAssessment(id) == holder # Nobody /\ call[holder].id = id

(* The workflow states in which a candidate comes to its assessment.       *)
Unassessed == {"verification_needed", "stale", "evidence_ready", "evidence_partial"}

PresentIds == {id \in Id : Present(id)}

(* r is in the history h.                                                  *)
Has(h, r) == \E i \in DOMAIN h : h[i] = r

(* A history the store may keep.                                           *)
History(h) ==
    /\ h \in Seq(Request) /\ Len(h) <= HistoryLimit
    /\ \A i, j \in DOMAIN h : h[i] = h[j] => i = j

-----------------------------------------------------------------------------
(* The parts of the inductive invariant.                                   *)

Typed ==
    /\ traffic \in DOMAIN Traffics
    /\ cands \in [Id -> CandidateRecord \cup {Absent}]
    /\ identity \in [Id -> [product: Product, checked: Product \cup {Nobody}]]
    /\ call \in [Request -> Call]
    /\ applied \in [Request -> 0..2]
    /\ holder \in Request \cup {Nobody}

RoomOnFile == IsFiniteSet(PresentIds) /\ Cardinality(PresentIds) <= CandidateLimit

(* Every record on file is sound, and what its states say of duplicates    *)
(* and rejections was said by an assessment or by the owner.               *)
RecordsAreSound ==
    \A id \in Id : Present(id) =>
        /\ Stored(cands[id])
        /\ cands[id].workflow = "suppressed_duplicate" => Settled(id)
        /\ cands[id].workflow = "rejected" => "review_decision" \in Traffic.issued

(* A request is what its client composed.                                  *)
CallsAreComposed ==
    \A r \in Request :
        /\ Sent(r) => call[r].command \in Traffic.issued /\ call[r].payload \in Payload(call[r].command)
        /\ OnCandidate(r) => call[r].id \in Id
        /\ ~OnCandidate(r) => call[r].saw = Nobody
        /\ ~Sent(r) => applied[r] = 0 /\ call[r].id = Nobody

(* The handler between its two writes.                                     *)
LockIsHeld ==
    /\ \A r \in Request : holder = r <=> call[r].at = "assessing"
    /\ holder # Nobody =>
           LET q == call[holder] IN
           /\ q.command \in {"request_verification", "add_manual_candidate"}
           /\ q.id \in Id /\ Present(q.id) /\ Known(holder)
           /\ Unvouched(cands[q.id]) /\ cands[q.id].workflow \in Unassessed

(* The revision of a candidate only grows under the requests that name it, *)
(* and while it stays the content does.                                    *)
RevisionsGrow ==
    \A r \in Request : OnCandidate(r) /\ Present(call[r].id) =>
        LET c == cands[call[r].id] IN
        /\ applied[r] >= 1 => c.revision > call[r].expected
        /\ ~(call[r].id \in Synthetic /\ "reset_demo" \in Traffic.issued) =>
               /\ c.revision >= call[r].expected
               /\ c.revision = call[r].expected => Material(c) = call[r].saw

(* What took effect on no candidate is in the history.                     *)
EffectsAreKnown ==
    \A r \in Request : applied[r] <= 1 /\ (applied[r] >= 1 /\ OnNone(r) => Known(r))

(* As long as no server dies, an assessment is about the product as it is, *)
(* unless it is just due ...                                               *)
ChecksAreCurrent ==
    ~Traffic.crashes =>
        \A id \in Id \ Synthetic :
            Present(id) /\ ~UnderAssessment(id) => identity[id].checked = identity[id].product

(* ... and of two candidates assessed for the same product one is settled. *)
TwinsAreSettled ==
    ~Traffic.crashes /\ "review_decision" \notin Traffic.issued =>
        \A a, b \in Id \ Synthetic :
            a # b /\ Present(a) /\ Present(b)
                /\ identity[a].checked = identity[b].checked
                /\ identity[a].checked \notin {Vague, Nobody}
            => Settled(a) \/ Settled(b)

IInv ==
    /\ Typed /\ RoomOnFile /\ History(history) /\ RecordsAreSound
    /\ CallsAreComposed /\ LockIsHeld
    /\ RevisionsGrow /\ EffectsAreKnown
    /\ ChecksAreCurrent /\ TwinsAreSettled

-----------------------------------------------------------------------------
(* The history.                                                            *)

(* Without removes the one occurrence there may be, and nothing else.      *)
LEMMA WithoutFacts ==
    ASSUME NEW h, History(h), NEW r \in Request
    PROVE  LET g == Without(h, r) IN
           /\ History(g) /\ ~Has(g, r)
           /\ Has(h, r) => Len(g) = Len(h) - 1
           /\ \A s \in Request : s # r => (Has(g, s) <=> Has(h, s))
<1> DEFINE g == Without(h, r)
<1>0. h \in Seq(Request) /\ Len(h) \in Nat /\ DOMAIN h = 1..Len(h) /\ HistoryLimit \in Nat
  BY LenProperties, StoreAssumption DEF History
<1>1. CASE ~Has(h, r)
  <2>1. g = h
    BY <1>1 DEF Has, Without
  <2>2. QED
    BY <1>1, <2>1
<1>2. CASE Has(h, r)
  <2> DEFINE at == CHOOSE i \in DOMAIN h : h[i] = r
             before == SubSeq(h, 1, at - 1)
             after == SubSeq(h, at + 1, Len(h))
  <2>1. at \in 1..Len(h) /\ h[at] = r
    BY <1>0, <1>2 DEF Has
  <2>2. g = before \o after
    BY <1>2 DEF Without, Has
  <2> HIDE DEF at
  <2>0. at \in Int /\ 1 <= at /\ at <= Len(h) /\ Len(h) \in Int
    BY <1>0, <2>1
  <2>3. /\ before \in Seq(Request) /\ Len(before) = at - 1
        /\ \A i \in 1..(at - 1) : before[i] = h[i]
    BY <1>0, <2>1, SubSeqProperties
  <2>4. /\ after \in Seq(Request) /\ Len(after) = Len(h) - at
        /\ \A i \in 1..(Len(h) - at) : after[i] = h[at + i]
    <3>1. /\ at + 1 \in Int /\ Len(h) \in Int
          /\ \A i \in (at + 1)..Len(h) : h[i] \in Request
      BY <1>0, <2>1, ElementOfSeq
    <3>2. /\ after \in Seq(Request)
          /\ Len(after) = IF at + 1 <= Len(h) THEN Len(h) - (at + 1) + 1 ELSE 0
          /\ \A i \in 1..(Len(h) - (at + 1) + 1) : after[i] = h[at + 1 + i - 1]
      BY <3>1, SubSeqProperties
    <3> HIDE DEF after
    <3> DEFINE n == Len(h)
               l == Len(after)
    <3> HIDE DEF n, l
    <3>3. l = IF at + 1 <= n THEN n - (at + 1) + 1 ELSE 0
      BY <3>2 DEF n, l
    <3>4. n \in Int /\ at <= n
      BY <2>0 DEF n
    <3>5. l = n - at
      BY <2>0, <3>3, <3>4
    <3>6. Len(after) = Len(h) - at
      BY <3>5 DEF n, l
    <3>7. ASSUME NEW i \in 1..(Len(h) - at)
          PROVE  after[i] = h[at + i]
      <4>1. i \in 1..(Len(h) - (at + 1) + 1) /\ at + 1 + i - 1 = at + i
        BY <1>0, <2>1
      <4>2. QED
        BY <3>2, <4>1
    <3>8. QED
      BY <3>2, <3>6, <3>7
  <2> HIDE DEF before, after, g
  <2>5. /\ g \in Seq(Request) /\ Len(g) = Len(h) - 1
        /\ \A i \in 1..(at - 1) : g[i] = h[i]
        /\ \A i \in at..(Len(h) - 1) : g[i] = h[i + 1]
    <3>1. g \in Seq(Request) /\ Len(g) = Len(before) + Len(after)
      BY <2>2, <2>3, <2>4, ConcatProperties
    <3>2. \A i \in 1..(Len(before) + Len(after)) :
            g[i] = IF i <= Len(before) THEN before[i] ELSE after[i - Len(before)]
      BY <2>2, <2>3, <2>4, ConcatProperties
    <3>3. ASSUME NEW i \in 1..(at - 1)
          PROVE  g[i] = h[i]
      <4>1. i \in 1..(Len(before) + Len(after)) /\ i <= Len(before)
        BY <2>0, <2>3, <2>4
      <4>2. QED
        BY <2>3, <3>2, <4>1
    <3>4. ASSUME NEW i \in at..(Len(h) - 1)
          PROVE  g[i] = h[i + 1]
      <4>1. /\ i \in 1..(Len(before) + Len(after)) /\ ~(i <= Len(before))
            /\ i - Len(before) \in 1..(Len(h) - at) /\ at + (i - Len(before)) = i + 1
        BY <1>0, <2>1, <2>3, <2>4
      <4>2. QED
        BY <2>4, <3>2, <4>1
    <3>5. QED
      BY <1>0, <2>1, <2>3, <2>4, <3>1, <3>3, <3>4
  <2>6. DOMAIN g = 1..(Len(h) - 1)
    BY <2>5, LenProperties
  <2>7. \A i, j \in DOMAIN h : h[i] = h[j] => i = j
    BY DEF History
  <2> DEFINE from(i) == IF i < at THEN i ELSE i + 1
  <2>8. \A i, j \in DOMAIN g : g[i] = g[j] => i = j
    <3>1. \A i \in DOMAIN g : from(i) \in DOMAIN h /\ g[i] = h[from(i)]
      BY <1>0, <2>1, <2>5, <2>6
    <3>2. \A i, j \in DOMAIN g : from(i) = from(j) => i = j
      BY <1>0, <2>1, <2>6
    <3> HIDE DEF from
    <3>3. QED
      BY <2>7, <3>1, <3>2
  <2>9. ~Has(g, r)
    <3>1. \A i \in DOMAIN g : from(i) \in DOMAIN h /\ g[i] = h[from(i)] /\ from(i) # at
      BY <1>0, <2>1, <2>5, <2>6
    <3>2. at \in DOMAIN h
      BY <1>0, <2>1
    <3> HIDE DEF from
    <3>3. QED
      BY <2>1, <2>7, <3>1, <3>2 DEF Has
  <2>10. ASSUME NEW s \in Request, s # r
         PROVE  Has(g, s) <=> Has(h, s)
    <3>1. ASSUME NEW i \in DOMAIN g, g[i] = s
          PROVE  Has(h, s)
      <4>1. i \in DOMAIN h /\ i + 1 \in DOMAIN h /\ (h[i] = s \/ h[i + 1] = s)
        BY <1>0, <2>1, <2>5, <2>6, <3>1
      <4>2. QED
        BY <4>1 DEF Has
    <3>2. ASSUME NEW i \in DOMAIN h, h[i] = s
          PROVE  Has(g, s)
      <4>1. CASE i < at
        BY <1>0, <2>1, <2>5, <2>6, <3>2, <4>1 DEF Has
      <4>2. CASE i > at
        <5>1. i - 1 \in DOMAIN g /\ g[i - 1] = s
          BY <1>0, <2>1, <2>5, <2>6, <3>2, <4>2
        <5>2. QED
          BY <5>1 DEF Has
      <4>3. QED
        BY <1>0, <2>1, <2>10, <3>2, <4>1, <4>2
    <3>3. QED
      BY <3>1, <3>2 DEF Has
  <2>11. History(g) /\ Len(g) = Len(h) - 1
    BY <1>0, <2>5, <2>8 DEF History
  <2>12. QED
    BY <2>9, <2>10, <2>11 DEF g
<1>3. QED
  BY <1>1, <1>2

(* Recording a request (recordCommand, recordExtendedCommand) keeps the    *)
(* history within its limit and without repetition; the request is in it,  *)
(* others may be forgotten, but none when the request was there before.    *)
LEMMA RecordedFacts ==
    ASSUME NEW h, History(h), NEW r \in Request
    PROVE  LET g == Recorded(h, r) IN
           /\ History(g) /\ Has(g, r)
           /\ \A s \in Request : Has(g, s) => s = r \/ Has(h, s)
           /\ Has(h, r) => \A s \in Request : Has(h, s) => Has(g, s)
<1> DEFINE w == Without(h, r)
           o == Append(w, r)
           g == Recorded(h, r)
<1>1. /\ History(w) /\ ~Has(w, r)
      /\ Has(h, r) => Len(w) = Len(h) - 1
      /\ \A s \in Request : s # r => (Has(w, s) <=> Has(h, s))
  BY WithoutFacts
<1>2. g = IF Len(o) > HistoryLimit THEN Tail(o) ELSE o
  BY DEF Recorded
<1> HIDE DEF w, g
<1>3. /\ w \in Seq(Request) /\ Len(w) \in Nat /\ DOMAIN w = 1..Len(w)
      /\ Len(w) <= HistoryLimit /\ HistoryLimit \in Nat \ {0}
      /\ \A i, j \in DOMAIN w : w[i] = w[j] => i = j
  BY <1>1, LenProperties, StoreAssumption DEF History
<1>4. /\ o \in Seq(Request) /\ Len(o) = Len(w) + 1 /\ DOMAIN o = 1..(Len(w) + 1)
      /\ \A i \in 1..Len(w) : o[i] = w[i]
      /\ o[Len(w) + 1] = r
  BY <1>3, AppendProperties, LenProperties
<1> HIDE DEF o
<1>5. \A i, j \in DOMAIN o : o[i] = o[j] => i = j
  BY <1>1, <1>3, <1>4 DEF Has
<1>6. Has(o, r)
  BY <1>3, <1>4 DEF Has
<1>7. \A s \in Request : s # r => (Has(o, s) <=> Has(w, s))
  <2> SUFFICES ASSUME NEW s \in Request, s # r
               PROVE  Has(o, s) <=> Has(w, s)
    OBVIOUS
  <2>1. Has(o, s) => Has(w, s)
    BY <1>3, <1>4 DEF Has
  <2>2. Has(w, s) => Has(o, s)
    BY <1>3, <1>4 DEF Has
  <2>3. QED
    BY <2>1, <2>2
<1>8. CASE Len(o) <= HistoryLimit
  <2>1. g = o /\ History(o)
    BY <1>2, <1>3, <1>4, <1>5, <1>8 DEF History
  <2>2. QED
    BY <1>1, <1>6, <1>7, <2>1 DEF g
<1>9. CASE Len(o) > HistoryLimit
  <2>1. Len(w) = HistoryLimit /\ Len(o) = HistoryLimit + 1
    BY <1>3, <1>4, <1>9
  <2>2. ~Has(h, r)
    BY <1>1, <1>3, <2>1 DEF History
  <2>3. /\ Tail(o) \in Seq(Request) /\ Len(Tail(o)) = HistoryLimit
        /\ \A i \in 1..HistoryLimit : Tail(o)[i] = o[i + 1]
        /\ DOMAIN Tail(o) = 1..HistoryLimit
    BY <1>3, <1>4, <2>1, HeadTailProperties, LenProperties
  <2> DEFINE t == Tail(o)
  <2> HIDE DEF t
  <2>4. g = t
    BY <1>2, <1>9 DEF t
  <2>5. /\ t \in Seq(Request) /\ Len(t) = HistoryLimit
        /\ \A i \in 1..HistoryLimit : t[i] = o[i + 1]
        /\ DOMAIN t = 1..HistoryLimit
    BY <2>3 DEF t
  <2>6. \A i, j \in DOMAIN t : t[i] = t[j] => i = j
    <3>1. \A i \in DOMAIN t : i + 1 \in DOMAIN o /\ t[i] = o[i + 1]
      BY <1>3, <1>4, <2>1, <2>5
    <3>2. \A i, j \in DOMAIN t : i + 1 = j + 1 => i = j
      BY <1>3, <2>5
    <3>3. QED
      BY <1>5, <3>1, <3>2
  <2>7. History(t)
    BY <1>3, <2>5, <2>6 DEF History
  <2>8. t[HistoryLimit] = r /\ HistoryLimit \in DOMAIN t
    BY <1>3, <1>4, <2>1, <2>5
  <2>9. ASSUME NEW s \in Request, Has(t, s)
        PROVE  Has(o, s)
    <3>1. PICK i \in 1..HistoryLimit : t[i] = s
      BY <2>5, <2>9 DEF Has
    <3>2. i + 1 \in DOMAIN o /\ o[i + 1] = s
      BY <1>3, <1>4, <2>1, <2>5, <3>1
    <3>3. QED
      BY <3>2 DEF Has
  <2>10. QED
    BY <1>1, <1>7, <2>2, <2>4, <2>7, <2>8, <2>9 DEF Has, g
<1>10. QED
  BY <1>3, <1>4, <1>8, <1>9

-----------------------------------------------------------------------------
(* The records the store makes.                                            *)

(* A product known by all its dimensions identifies the candidate exactly, *)
(* and the packet then has the identity claim.                             *)
LEMMA EvidenceFacts ==
    /\ Cleared \in Terms
    /\ \A p : Evidence(p) \in Identity
    /\ MatchState(Evidence(ExampleProduct)) = "exact"
    /\ ExampleProduct \in Product /\ ExampleProduct # Vague
<1>1. ExampleProduct \in Complete
  BY StoreAssumption DEF ExampleProduct
<1>2. QED
  BY <1>1, StoreAssumption DEF Cleared, Terms, Evidence, Identity, Product, MatchState

(* What a verification writes besides what VerifiedStored says: the        *)
(* Verifier's decision and the packet's claims.                            *)
LEMMA VerifiedFindings ==
    ASSUME NEW x, Stored(x), NEW i \in Identity, NEW t \in Terms
    PROVE  LET r == Verified(x, i, t) IN
           /\ r.verifier = VerifierDecision(MatchState(i), t)
           /\ r.evidence.claims = IF i.missing # "all" /\ i.origins > 0
                                  THEN {"claim-identity"} ELSE {}
<1> DEFINE m == MatchState(i)
           p == [observedAt |-> x.revision + 1,
                 claims |-> IF i.missing # "all" /\ i.origins > 0
                            THEN {"claim-identity"} ELSE {}]
           v == VerifierDecision(m, t)
           d == Readiness(m, t)
           k == Risk(m, t)
           known == [x EXCEPT !.terms = t, !.match = m, !.verifier = v,
                              !.readiness = d, !.risk = k, !.evidence = p]
           cleared == InvalidateDownstream(known, NoStrategies)
           w == IF FreshApproval(x) THEN cleared.workflow
                ELSE IF known.readiness = "ready" THEN "evidence_ready" ELSE "evidence_partial"
           y == [cleared EXCEPT !.workflow = w]
<1>1. x \in CandidateRecord /\ x.revision \in Nat
  BY DEF Stored, CandidateRecord
<1>2. /\ p \in Packet
      /\ p.claims = IF i.missing # "all" /\ i.origins > 0 THEN {"claim-identity"} ELSE {}
  BY <1>1 DEF Packet
<1>3. /\ m \in {"exact", "likely", "substitute", "unresolved"}
      /\ v \in {"verified", "limited", "hold"}
      /\ d \in {"weak", "partial", "ready", "blocked"}
      /\ k \in {"low", "review", "blocked"}
  BY DecisionTypes
<1> HIDE DEF m, p, v, d, k
<1>4. known \in CandidateRecord /\ known.verifier = v /\ known.evidence = p
  <2> DEFINE first == [x EXCEPT !.terms = t, !.match = m, !.verifier = v]
             last == [first EXCEPT !.readiness = d, !.risk = k, !.evidence = p]
  <2>1. first \in CandidateRecord /\ first.verifier = v
    BY <1>1, <1>3 DEF CandidateRecord
  <2> HIDE DEF first
  <2>2. last \in CandidateRecord /\ last.verifier = v /\ last.evidence = p
    BY <1>2, <1>3, <2>1 DEF CandidateRecord
  <2>3. known = last
    BY DEF first
  <2>4. QED
    BY <2>2, <2>3
<1> HIDE DEF known
<1>5. /\ cleared \in CandidateRecord /\ cleared.verifier = v /\ cleared.evidence = p
      /\ cleared.workflow \in WorkflowState
  <2>1. cleared \in CandidateRecord /\ cleared.verifier = v /\ cleared.evidence = p
    BY <1>4, NullTypes, InvalidateFields
  <2>2. QED
    BY <2>1 DEF CandidateRecord
<1> HIDE DEF cleared
<1>6. w \in WorkflowState
  BY <1>5 DEF WorkflowState
<1> HIDE DEF w
<1>7. y \in CandidateRecord /\ y.verifier = v /\ y.evidence = p
  BY <1>5, <1>6 DEF CandidateRecord
<1> HIDE DEF y
<1>8. Verified(x, i, t) = Bump(y)
  BY DEF Verified, y, w, cleared, known, m, p, v, d, k
<1>9. Bump(y).verifier = v /\ Bump(y).evidence = p
  BY <1>7, BumpFields
<1>10. QED
  BY <1>2, <1>8, <1>9 DEF v, m

(* request_strategies leaves strategies, request_drafts drafts.            *)
LEMMA PlannedHasStrategies ==
    ASSUME NEW x, Stored(x), StrategiesAllowed(x)
    PROVE  WithStrategies(x).strategies # NoStrategies
<1> DEFINE s == [evidenceObservedAt |-> x.evidence.observedAt, createdAt |-> x.revision + 1]
           cleared == InvalidateDownstream(x, s)
           w == IF cleared.workflow = "stale" THEN "stale" ELSE "strategy_ready"
           y == [cleared EXCEPT !.workflow = w]
<1>1. x \in CandidateRecord /\ x.revision \in Nat /\ x.evidence.observedAt \in Nat
  BY DEF Stored, CandidateRecord, Packet
<1>2. s \in Strategies /\ s # NoStrategies
  BY <1>1 DEF Strategies, NoStrategies
<1> HIDE DEF s
<1>3. cleared \in CandidateRecord /\ cleared.strategies = s
  BY <1>1, <1>2, InvalidateFields
<1> HIDE DEF cleared
<1>4. w \in WorkflowState
  BY DEF WorkflowState
<1> HIDE DEF w
<1>5. y \in CandidateRecord /\ y.strategies = s
  BY <1>3, <1>4 DEF CandidateRecord
<1> HIDE DEF y
<1>6. WithStrategies(x) = Bump(y)
  BY DEF WithStrategies, y, w, cleared, s
<1>7. QED
  BY <1>2, <1>5, <1>6, BumpFields

(* The Writer fills every slot.                                            *)
LEMMA WrittenHasDrafts ==
    ASSUME NEW x, Stored(x), DraftsAllowed(x)
    PROVE  HasDrafts(WithDrafts(x))
<1> DEFINE y == [x EXCEPT !.drafts = Written(x), !.selected = FirstDraft,
                          !.guardian = NoGuardian]
           z == DropReview(y, "draft_ready")
<1>1. x \in CandidateRecord /\ Written(x) \in [Draft -> Text]
  BY DEF Stored, CandidateRecord, Written, Text
<1>2. Written(x) \in DraftTexts
  BY <1>1 DEF DraftTexts
<1>3. y \in CandidateRecord /\ y.drafts = Written(x)
  BY <1>1, <1>2, NullTypes, DraftAssumption DEF CandidateRecord
<1> HIDE DEF y
<1>4. z \in CandidateRecord /\ z.drafts = Written(x)
  BY <1>3, DropReviewFields DEF WorkflowState
<1>5. WithDrafts(x) = Bump(z)
  BY DEF WithDrafts, z, y
<1> HIDE DEF z
<1>6. WithDrafts(x).drafts = Written(x)
  BY <1>4, <1>5, BumpFields
<1>7. Written(x) # NoDrafts
  <2>1. Written(x)[FirstDraft] \in Text /\ NoDrafts[FirstDraft] = "absent"
    BY <1>1, DraftAssumption DEF NoDrafts
  <2>2. QED
    BY <2>1 DEF Text
<1>8. QED
  BY <1>6, <1>7 DEF HasDrafts

(* Every stage a first candidate may be in is a sound record.              *)
LEMMA StagesStored ==
    /\ Stored(Created) /\ Unvouched(Created) /\ Created.dup = "unique"
    /\ \A x \in Stage \cup {Demo} :
           Stored(x) /\ x.workflow \notin {"suppressed_duplicate", "rejected"}
    /\ Created.workflow = "verification_needed"
<1> DEFINE planned == WithStrategies(Demo)
           written == WithDrafts(planned)
           judged == GuardianRun(written)
<1>1. /\ Stored(Created) /\ Unvouched(Created) /\ Created.dup = "unique"
      /\ Created.workflow = "verification_needed"
  BY NewStored, EvidenceFacts DEF Created, Text
<1>2. /\ Stored(Demo) /\ Demo.workflow \in {"stale", "evidence_ready", "evidence_partial"}
  BY <1>1, EvidenceFacts, VerifiedStored DEF Demo
<1>3. StrategiesAllowed(Demo)
  <2>1. /\ Demo.verifier = VerifierDecision(MatchState(Evidence(ExampleProduct)), Cleared)
        /\ Demo.evidence.claims = IF Evidence(ExampleProduct).missing # "all"
                                        /\ Evidence(ExampleProduct).origins > 0
                                  THEN {"claim-identity"} ELSE {}
    BY <1>1, EvidenceFacts, VerifiedFindings DEF Demo
  <2>2. Demo.verifier = "verified"
    BY <2>1, EvidenceFacts DEF VerifierDecision, Cleared
  <2>3. Demo.evidence.claims # {}
    BY <2>1 DEF Evidence
  <2>4. QED
    BY <2>2, <2>3 DEF StrategiesAllowed
<1>4. Stored(planned) /\ planned.workflow \in {"stale", "strategy_ready"}
  BY <1>2, <1>3, StrategiesStored
<1>5. DraftsAllowed(planned)
  BY PlannedHasStrategies, <1>2, <1>3 DEF DraftsAllowed
<1> HIDE DEF planned
<1>6. Stored(written) /\ written.workflow \in {"stale", "draft_ready"}
  BY <1>4, <1>5, DraftsStored
<1>7. HasDrafts(written)
  BY <1>4, <1>5, WrittenHasDrafts
<1> HIDE DEF written
<1>8. Stored(judged) /\ judged.workflow \in {"guardian_pass", "blocked", "guardian_revise"}
  BY <1>6, <1>7, GuardianStored
<1> HIDE DEF judged
<1>9. Stage = {Created, Demo, planned, written, judged}
  BY DEF Stage, planned, written, judged
<1>10. QED
  BY <1>1, <1>2, <1>4, <1>6, <1>8, <1>9

-----------------------------------------------------------------------------
(* What the handlers do to a record on file.                               *)

SettledStates == {"exact_duplicate_suppressed", "confirmed_duplicate"}

(* A command on a candidate with a payload of its kind.                    *)
Fits(q) ==
    /\ q.command \in Command \ OnNoCandidate
    /\ q.command = "review_decision" => q.payload \in ReviewDecision
    /\ q.command = "resolve_duplicate" => q.payload \in {"distinct", "duplicate"}
    /\ q.command = "edit_draft" => q.payload \in Text

(* A handler makes the next revision of a sound record, sound as well.     *)
(* Suppression as a duplicate comes with a settled stamp and rejection     *)
(* from the owner; a verification leaves the stamp for the assessment.     *)
LEMMA HandledFacts ==
    ASSUME NEW q, Fits(q), NEW x, Stored(x), HandlerAllows(q, x)
    PROVE  LET r == Handled(q, x) IN
           /\ Stored(r) /\ r.revision = x.revision + 1
           /\ x.dup \in SettledStates => r.dup \in SettledStates
           /\ r.workflow = "suppressed_duplicate" => r.dup \in SettledStates
           /\ r.workflow = "rejected" => q.command = "review_decision"
           /\ q.command = "request_verification" =>
                  Unvouched(r) /\ r.workflow \in Unassessed /\ r.dup = x.dup
<1> DEFINE r == Handled(q, x)
<1>1. CASE q.command = "request_verification"
  <2>1. r = Verified(x, Evidence(q.payload), Cleared)
    BY <1>1 DEF Handled
  <2>2. /\ Stored(r) /\ Unvouched(r) /\ Succeeds(x, r)
        /\ r.workflow \in {"stale", "evidence_ready", "evidence_partial"}
    BY <2>1, EvidenceFacts, VerifiedStored
  <2>3. QED
    BY <1>1, <2>2 DEF Unassessed, Succeeds
<1>2. CASE q.command = "request_strategies"
  <2>1. r = WithStrategies(x) /\ StrategiesAllowed(x)
    BY <1>2 DEF Handled, HandlerAllows
  <2>2. Stored(r) /\ Succeeds(x, r) /\ r.workflow \in {"stale", "strategy_ready"}
    BY <2>1, StrategiesStored
  <2>3. QED
    BY <1>2, <2>2 DEF Succeeds
<1>3. CASE q.command = "request_drafts"
  <2>1. r = WithDrafts(x) /\ DraftsAllowed(x)
    BY <1>3 DEF Handled, HandlerAllows
  <2>2. Stored(r) /\ Succeeds(x, r) /\ r.workflow \in {"stale", "draft_ready"}
    BY <2>1, DraftsStored
  <2>3. QED
    BY <1>3, <2>2 DEF Succeeds
<1>4. CASE q.command = "run_guardian"
  <2>1. r = GuardianRun(x) /\ HasDrafts(x)
    BY <1>4 DEF Handled, HandlerAllows
  <2>2. /\ Stored(r) /\ Succeeds(x, r)
        /\ r.workflow \in {"guardian_pass", "blocked", "guardian_revise"}
    BY <2>1, GuardianStored
  <2>3. QED
    BY <1>4, <2>2 DEF Succeeds
<1>5. CASE q.command = "edit_draft"
  <2>1. r = DraftEdited(x, FirstDraft, q.payload) /\ HasDrafts(x) /\ q.payload \in Text
    BY <1>5 DEF Handled, HandlerAllows, Fits
  <2>2. Stored(r) /\ Succeeds(x, r) /\ r.workflow \in {"stale", "draft_ready"}
    BY <2>1, EditStored, DraftAssumption
  <2>3. QED
    BY <1>5, <2>2 DEF Succeeds
<1>6. CASE q.command = "review_decision"
  <2>1. r = Reviewed(x, q.payload) /\ ReviewAllowed(x, q.payload) /\ q.payload \in ReviewDecision
    BY <1>6 DEF Handled, HandlerAllows, Fits
  <2>2. Stored(r) /\ Succeeds(x, r) /\ r.workflow = q.payload
    BY <2>1, ReviewedStored
  <2>3. QED
    BY <1>6, <2>1, <2>2 DEF Succeeds, ReviewDecision
<1>7. CASE q.command = "resolve_duplicate"
  <2>1. /\ r = DuplicateResolved(x, q.payload) /\ PendingDuplicate(x)
        /\ q.payload \in {"distinct", "duplicate"}
    BY <1>7 DEF Handled, HandlerAllows, Fits
  <2>2. /\ Stored(r) /\ r.revision = x.revision + 1
        /\ q.payload = "duplicate" =>
              r.dup = "confirmed_duplicate" /\ r.workflow = "suppressed_duplicate"
        /\ q.payload = "distinct" =>
              r.workflow \in {"evidence_ready", "evidence_partial", "verification_needed"}
    BY <2>1, ResolvedStored
  <2>3. x.dup \notin SettledStates
    BY <2>1 DEF PendingDuplicate, SettledStates
  <2>4. QED
    BY <1>7, <2>1, <2>2, <2>3 DEF SettledStates
<1>8. QED
  BY <1>1, <1>2, <1>3, <1>4, <1>5, <1>6, <1>7 DEF Fits, Command, Specialist, OnNoCandidate

(* The assessment of an unvouched record: it stays sound, its revision and *)
(* content stay, and it is settled exactly when an exact duplicate was     *)
(* found.                                                                  *)
LEMMA AssessedFacts ==
    ASSUME NEW x, Stored(x), Unvouched(x), x.workflow \in Unassessed,
           NEW a \in {"unique", "possible", "exact"}
    PROVE  LET r == Assessed(x, a) IN
           /\ Stored(r) /\ r.revision = x.revision /\ Material(r) = Material(x)
           /\ r.dup \in SettledStates <=> a = "exact"
           /\ r.workflow = "suppressed_duplicate" => r.dup \in SettledStates
           /\ r.workflow # "rejected"
<1> DEFINE r == Assessed(x, a)
<1>1. /\ Stored(r) /\ r.material = x.material /\ r.revision = x.revision
      /\ r.dup = CASE a = "exact" -> "exact_duplicate_suppressed"
                   [] a = "possible" -> "possible_duplicate"
                   [] a = "unique" -> "unique"
                   [] a = "kept" -> x.dup
      /\ r.workflow = CASE a = "exact" -> "suppressed_duplicate"
                        [] a = "possible" -> "duplicate_review"
                        [] a \in {"unique", "kept"} -> x.workflow
  BY AssessedStored
<1> HIDE DEF r
<1>2. /\ r.dup \in SettledStates <=> a = "exact"
      /\ r.workflow = "suppressed_duplicate" => r.dup \in SettledStates
      /\ r.workflow # "rejected"
  BY <1>1 DEF SettledStates, Unassessed
<1>3. Material(r) = Material(x)
  BY <1>1 DEF Stored
<1>4. QED
  BY <1>1, <1>2, <1>3 DEF r

(* The assessment is one of three.                                         *)
LEMMA AssessmentTypes ==
    ASSUME NEW id
    PROVE  AssessmentOf(id) \in {"unique", "possible", "exact"}
BY DEF AssessmentOf

-----------------------------------------------------------------------------
(* What every step shares.                                                 *)

(* The traffic of a behaviour is fixed.                                    *)
LEMMA TrafficFixed ==
    ASSUME traffic' = traffic
    PROVE  Traffic' = Traffic /\ Call' = Call
BY DEF Traffic, Call, Payload

(* The same of what a command carries.                                     *)
LEMMA PayloadFixed ==
    ASSUME traffic' = traffic, NEW command
    PROVE  Payload(command)' = Payload(command)
BY DEF Traffic, Payload

(* What the traffic may be.                                                *)
LEMMA TrafficTypes ==
    ASSUME traffic \in DOMAIN Traffics
    PROVE  /\ Traffic.issued \subseteq Command
           /\ Traffic.products \subseteq Product
           /\ Traffic.stages \subseteq Stage
           /\ Traffic.crashes \in BOOLEAN
           /\ Traffic.demo \subseteq SUBSET Synthetic
BY StoreAssumption, TrafficAssumption DEF Traffic, Product

(* A request that moves on stays what it was, and the others where they    *)
(* are.                                                                    *)
LEMMA ReachFacts ==
    ASSUME call \in [Request -> Call], traffic' = traffic,
           NEW r \in Request, Sent(r),
           NEW step \in {"sent", "routed", "assessing", "over"}, Reach(r, step)
    PROVE  /\ call' \in [Request -> Call]
           /\ call'[r].at = step
           /\ \A s \in Request :
                 /\ s # r => call'[s] = call[s]
                 /\ call'[s].command = call[s].command /\ call'[s].id = call[s].id
                 /\ call'[s].payload = call[s].payload
                 /\ call'[s].expected = call[s].expected /\ call'[s].saw = call[s].saw
                 /\ call'[s].at # "idle" <=> call[s].at # "idle"
<1> DEFINE q == [call[r] EXCEPT !.at = step]
<1>1. call[r] \in Call /\ call' = [call EXCEPT ![r] = q]
  BY DEF Reach
<1>2. /\ q \in Call /\ q.at = step /\ q.command = call[r].command /\ q.id = call[r].id
      /\ q.payload = call[r].payload /\ q.expected = call[r].expected /\ q.saw = call[r].saw
  BY <1>1 DEF Call
<1> HIDE DEF q
<1>3. call' \in [Request -> Call] /\ call'[r] = q
  BY <1>1, <1>2
<1>4. \A s \in Request : s # r => call'[s] = call[s]
  BY <1>1
<1>5. call'[r].at # "idle" /\ call[r].at # "idle"
  BY <1>2, <1>3 DEF Sent
<1>6. QED
  BY <1>2, <1>3, <1>4, <1>5

(* Sending, routing, refusing, replaying, and a death between or before    *)
(* the writes: only the request moves, and the lock is released if it held *)
(* it.                                                                     *)
LEMMA MoveKeeps ==
    ASSUME IInv, UNCHANGED <<file, applied, traffic>>,
           NEW r \in Request, Sent(r),
           NEW step \in {"sent", "routed", "over"}, Reach(r, step),
           holder' = (IF holder = r THEN Nobody ELSE holder),
           holder = r => Traffic.crashes
    PROVE  IInv'
<1> USE DEF IInv
<1>1. /\ traffic' = traffic /\ cands' = cands /\ identity' = identity
      /\ history' = history /\ applied' = applied
  BY DEF file
<1>2. Traffic' = Traffic /\ Call' = Call
  BY <1>1, TrafficFixed
<1>3. /\ call' \in [Request -> Call]
      /\ call'[r].at = step
      /\ \A s \in Request :
            /\ s # r => call'[s] = call[s]
            /\ call'[s].command = call[s].command /\ call'[s].id = call[s].id
            /\ call'[s].payload = call[s].payload
            /\ call'[s].expected = call[s].expected /\ call'[s].saw = call[s].saw
            /\ call'[s].at # "idle" <=> call[s].at # "idle"
  BY <1>1, ReachFacts DEF Typed
<1>4. \A s \in Request : /\ Sent(s)' <=> Sent(s)
                         /\ OnCandidate(s)' <=> OnCandidate(s)
                         /\ OnNone(s)' <=> OnNone(s)
  BY <1>3 DEF Sent, OnCandidate, OnNone
<1>5. Nobody \notin Request
  BY StoreAssumption
<1>6. Typed'
  BY <1>1, <1>2, <1>3 DEF Typed
<1>7. RoomOnFile' /\ History(history)'
  BY <1>1 DEF RoomOnFile, PresentIds, Present, History
<1>8. RecordsAreSound'
  BY <1>1, <1>2 DEF RecordsAreSound, Present, Settled
<1>9. CallsAreComposed'
  BY <1>1, <1>2, <1>3, <1>4, PayloadFixed DEF CallsAreComposed
<1>10. LockIsHeld'
  BY <1>1, <1>3, <1>5 DEF LockIsHeld, Present, Known, Typed
<1>11. RevisionsGrow'
  BY <1>1, <1>2, <1>3, <1>4 DEF RevisionsGrow, Present
<1>12. EffectsAreKnown'
  BY <1>1, <1>4 DEF EffectsAreKnown, Known
<1>13. ChecksAreCurrent'
  <2> SUFFICES ASSUME ~Traffic.crashes
               PROVE  ChecksAreCurrent'
    BY <1>2 DEF ChecksAreCurrent
  <2>1. holder' = holder /\ \A id : UnderAssessment(id)' <=> UnderAssessment(id)
    BY <1>3, <1>5 DEF UnderAssessment, Typed
  <2>2. QED
    BY <1>1, <1>2, <2>1 DEF ChecksAreCurrent, Present
<1>14. TwinsAreSettled'
  BY <1>1, <1>2 DEF TwinsAreSettled, Present, Settled
<1>15. QED
  BY <1>6, <1>7, <1>8, <1>9, <1>10, <1>11, <1>12, <1>13, <1>14

(* A new request has what its client saw of the file, and has had no       *)
(* effect yet.                                                             *)
LEMMA ComposeKeeps ==
    ASSUME IInv, NEW r \in Request, Compose(r), traffic' = traffic
    PROVE  IInv'
<1> USE DEF IInv
<1>1. /\ cands' = cands /\ identity' = identity /\ holder' = holder
      /\ history' = history /\ applied' = applied
  BY DEF file, Compose
<1>2. Traffic' = Traffic /\ Call' = Call
  BY TrafficFixed
<1>3. PICK q \in Call :
         /\ q.at = "sent" /\ q.command \in Traffic.issued /\ q.payload \in Payload(q.command)
         /\ q.command \in OnNoCandidate => q.saw = Nobody
         /\ q.command \notin OnNoCandidate =>
                /\ q.id \in Id /\ Present(q.id)
                /\ q.expected = cands[q.id].revision /\ q.saw = Material(cands[q.id])
         /\ call' = [call EXCEPT ![r] = q]
  <2>0. PICK command \in Traffic.issued : \E payload \in Payload(command) :
          \/ /\ command \in OnNoCandidate
             /\ call' = [call EXCEPT ![r] = [Unsent EXCEPT !.at = "sent", !.command = command,
                                                           !.payload = payload]]
          \/ /\ command \notin OnNoCandidate
             /\ \E id \in Id :
                   /\ Present(id)
                   /\ call' = [call EXCEPT ![r] =
                          [at |-> "sent", command |-> command, id |-> id, payload |-> payload,
                           expected |-> cands[id].revision, saw |-> Material(cands[id])]]
    BY DEF Compose
  <2>1. PICK payload \in Payload(command) :
          \/ /\ command \in OnNoCandidate
             /\ call' = [call EXCEPT ![r] = [Unsent EXCEPT !.at = "sent", !.command = command,
                                                           !.payload = payload]]
          \/ /\ command \notin OnNoCandidate
             /\ \E id \in Id :
                   /\ Present(id)
                   /\ call' = [call EXCEPT ![r] =
                          [at |-> "sent", command |-> command, id |-> id, payload |-> payload,
                           expected |-> cands[id].revision, saw |-> Material(cands[id])]]
    BY <2>0
  <2>2. payload \in (UNION {Payload(k) : k \in Traffic.issued}) \cup {Nobody}
    OBVIOUS
  <2>3. CASE command \in OnNoCandidate /\ call' = [call EXCEPT ![r] =
                [Unsent EXCEPT !.at = "sent", !.command = command, !.payload = payload]]
    <3> DEFINE q == [Unsent EXCEPT !.at = "sent", !.command = command, !.payload = payload]
    <3>1. Unsent \in Call
      BY DEF Unsent, Call
    <3>2. /\ q \in Call /\ q.at = "sent" /\ q.command = command /\ q.payload = payload
          /\ q.saw = Unsent.saw
      BY <2>2, <3>1 DEF Call
    <3>3. Unsent.saw = Nobody
      BY DEF Unsent
    <3> HIDE DEF q
    <3>4. QED
      BY <2>3, <3>2, <3>3 DEF q
  <2>4. ASSUME NEW id \in Id, command \notin OnNoCandidate, Present(id),
               call' = [call EXCEPT ![r] =
                          [at |-> "sent", command |-> command, id |-> id, payload |-> payload,
                           expected |-> cands[id].revision, saw |-> Material(cands[id])]]
        PROVE  \E q \in Call :
                 /\ q.at = "sent" /\ q.command \in Traffic.issued /\ q.payload \in Payload(q.command)
                 /\ q.command \in OnNoCandidate => q.saw = Nobody
                 /\ q.command \notin OnNoCandidate =>
                        /\ q.id \in Id /\ Present(q.id)
                        /\ q.expected = cands[q.id].revision /\ q.saw = Material(cands[q.id])
                 /\ call' = [call EXCEPT ![r] = q]
    <3> DEFINE q == [at |-> "sent", command |-> command, id |-> id, payload |-> payload,
                     expected |-> cands[id].revision, saw |-> Material(cands[id])]
    <3>1. cands[id] \in CandidateRecord
      BY <2>4 DEF RecordsAreSound, Stored
    <3>2. cands[id].revision \in Nat /\ Material(cands[id]) \in MaterialRevision
      BY <3>1, MaterialType DEF CandidateRecord
    <3>3. q \in Call
      BY <2>2, <3>2 DEF Call
    <3>4. QED
      BY <2>4, <3>3
  <2>5. QED
    BY <2>1, <2>3, <2>4
<1>4. /\ call' \in [Request -> Call] /\ call'[r] = q
      /\ \A s \in Request : s # r => call'[s] = call[s]
  BY <1>3 DEF Typed
<1>5. ~Sent(r) /\ applied[r] = 0 /\ holder # r
  BY DEF Compose, Sent, CallsAreComposed, LockIsHeld
<1>6. Typed'
  BY <1>1, <1>2, <1>4 DEF Typed
<1>7. RoomOnFile' /\ History(history)'
  BY <1>1 DEF RoomOnFile, PresentIds, Present, History
<1>8. RecordsAreSound'
  BY <1>1, <1>2 DEF RecordsAreSound, Present, Settled
<1>9. CallsAreComposed'
  <2> SUFFICES ASSUME NEW s \in Request
               PROVE  /\ Sent(s)' => call'[s].command \in Traffic.issued
                                        /\ call'[s].payload \in Payload(call'[s].command)
                      /\ OnCandidate(s)' => call'[s].id \in Id
                      /\ ~OnCandidate(s)' => call'[s].saw = Nobody
                      /\ ~Sent(s)' => applied'[s] = 0 /\ call'[s].id = Nobody
    BY <1>2, PayloadFixed DEF CallsAreComposed
  <2>1. CASE s = r
    BY <1>3, <1>4, <2>1 DEF Sent, OnCandidate
  <2>2. CASE s # r
    BY <1>1, <1>4, <2>2 DEF CallsAreComposed, Sent, OnCandidate
  <2>3. QED
    BY <2>1, <2>2
<1>10. LockIsHeld'
  <2>1. \A s \in Request : holder' = s <=> call'[s].at = "assessing"
    BY <1>1, <1>3, <1>4, <1>5 DEF LockIsHeld
  <2>2. holder # Nobody => call'[holder] = call[holder]
    BY <1>4, <1>5 DEF Typed
  <2>3. QED
    BY <1>1, <2>1, <2>2 DEF LockIsHeld, Present, Known
<1>11. RevisionsGrow'
  <2> SUFFICES ASSUME NEW s \in Request, OnCandidate(s)', Present(call'[s].id)
               PROVE  LET c == cands[call'[s].id] IN
                      /\ applied[s] >= 1 => c.revision > call'[s].expected
                      /\ ~(call'[s].id \in Synthetic /\ "reset_demo" \in Traffic.issued) =>
                             /\ c.revision >= call'[s].expected
                             /\ c.revision = call'[s].expected => Material(c) = call'[s].saw
    BY <1>1, <1>2 DEF RevisionsGrow, Present
  <2>1. CASE s = r
    <3>1. /\ call'[s].id \in Id /\ call'[s].expected = cands[call'[s].id].revision
          /\ call'[s].saw = Material(cands[call'[s].id])
      BY <1>3, <1>4, <2>1 DEF OnCandidate
    <3>2. cands[call'[s].id].revision \in Nat
      BY <3>1 DEF RecordsAreSound, Stored, CandidateRecord
    <3>3. QED
      BY <1>5, <2>1, <3>1, <3>2
  <2>2. CASE s # r
    BY <1>4, <2>2 DEF RevisionsGrow, OnCandidate, Sent
  <2>3. QED
    BY <2>1, <2>2
<1>12. EffectsAreKnown'
  BY <1>1, <1>4, <1>5 DEF EffectsAreKnown, Known, OnNone, Sent
<1>13. ChecksAreCurrent'
  <2>1. \A id : UnderAssessment(id)' <=> UnderAssessment(id)
    BY <1>1, <1>4, <1>5 DEF UnderAssessment, Typed
  <2>2. QED
    BY <1>1, <1>2, <2>1 DEF ChecksAreCurrent, Present
<1>14. TwinsAreSettled'
  BY <1>1, <1>2 DEF TwinsAreSettled, Present, Settled
<1>15. QED
  BY <1>6, <1>7, <1>8, <1>9, <1>10, <1>11, <1>12, <1>13, <1>14

-----------------------------------------------------------------------------
(* The commands on a candidate.                                            *)

(* What a client composed fits the handlers.                               *)
LEMMA CallFits ==
    ASSUME Typed, CallsAreComposed, NEW r \in Request, OnCandidate(r)
    PROVE  /\ Fits(call[r])
           /\ call[r].command = "request_verification" => call[r].payload \in Product
<1>1. /\ call[r].command \in Traffic.issued /\ call[r].payload \in Payload(call[r].command)
      /\ call[r].command \notin OnNoCandidate
  BY DEF OnCandidate, CallsAreComposed
<1>2. Traffic.issued \subseteq Command /\ Traffic.products \subseteq Product
  BY TrafficTypes DEF Typed
<1>3. /\ call[r].command = "request_verification" => Payload(call[r].command) = Traffic.products
      /\ call[r].command = "review_decision" => Payload(call[r].command) = ReviewDecision
      /\ call[r].command = "resolve_duplicate" =>
            Payload(call[r].command) = {"distinct", "duplicate"}
      /\ call[r].command = "edit_draft" => Payload(call[r].command) = {"clean", "violating"}
  BY DEF Payload
<1>4. QED
  BY <1>1, <1>2, <1>3 DEF Fits, Text

(* The count of a request that takes effect for the first time; that of    *)
(* another is kept, or starts again when the history forgets it.           *)
LEMMA EffectFacts ==
    ASSUME Typed, EffectsAreKnown, CallsAreComposed,
           NEW r \in Request, applied[r] = 0, TakesEffect(r)
    PROVE  /\ applied' \in [Request -> 0..2]
           /\ applied'[r] = 1
           /\ \A s \in Request : s # r =>
                 /\ applied'[s] = applied[s] \/ applied'[s] = 0
                 /\ applied'[s] >= 1 /\ OnNone(s) => Known(s)'
                 /\ call[r].command = "reset_demo" => applied'[s] = 0
<1>1. applied' = [s \in Request |->
           IF s = r THEN 1
           ELSE IF \/ call[r].command = "reset_demo"
                   \/ Known(s) /\ ~Known(s)' /\ call[s].command \in OnNoCandidate
                THEN 0
           ELSE applied[s]]
  BY DEF TakesEffect
<1>2. applied \in [Request -> 0..2]
  BY DEF Typed
<1>3. applied' \in [Request -> 0..2] /\ applied'[r] = 1
  BY <1>1, <1>2
<1>4. ASSUME NEW s \in Request, s # r
      PROVE  /\ applied'[s] = applied[s] \/ applied'[s] = 0
             /\ applied'[s] >= 1 /\ OnNone(s) => Known(s)'
             /\ call[r].command = "reset_demo" => applied'[s] = 0
  <2>1. applied'[s] = IF \/ call[r].command = "reset_demo"
                         \/ Known(s) /\ ~Known(s)' /\ call[s].command \in OnNoCandidate
                      THEN 0 ELSE applied[s]
    BY <1>1, <1>4
  <2>2. applied[s] >= 1 /\ OnNone(s) => Known(s)
    BY DEF EffectsAreKnown
  <2>3. QED
    BY <2>1, <2>2 DEF OnNone
<1>5. QED
  BY <1>3, <1>4

(* A command finds no effect of its own request before it.                 *)
LEMMA FirstEffect ==
    ASSUME IInv, NEW r \in Request, OnCandidate(r), Acceptable(call[r])
    PROVE  applied[r] = 0
<1>1. /\ Present(call[r].id) /\ cands[call[r].id].revision = call[r].expected
      /\ call[r].id \in Id
  BY DEF Acceptable, IInv, CallsAreComposed
<1>2. /\ applied[r] >= 1 => cands[call[r].id].revision > call[r].expected
      /\ applied[r] \in 0..2 /\ call[r].expected \in Nat
  BY <1>1 DEF IInv, RevisionsGrow, Typed, Call
<1>3. QED
  BY <1>1, <1>2

(* A command on a candidate makes the next revision of it; a verification  *)
(* keeps the lock for its assessment.                                      *)
LEMMA ApplyKeeps ==
    ASSUME IInv, NEW r \in Request, Apply(r), traffic' = traffic
    PROVE  IInv'
<1> DEFINE q == call[r]
           id0 == q.id
           x == cands[id0]
           y == Handled(q, x)
           e == identity[id0]
           n == CASE q.command = "request_verification" -> [e EXCEPT !.product = q.payload]
                  [] q.command = "resolve_duplicate" -> [e EXCEPT !.checked = e.product]
                  [] OTHER -> e
           step == IF q.command = "request_verification" THEN "assessing" ELSE "over"
<1> USE DEF IInv
<1>1. /\ q.at = "routed" /\ holder = Nobody /\ ~Known(r)
      /\ q.command \notin OnNoCandidate /\ Acceptable(q)
  BY DEF Apply, Enter
<1>2. /\ cands' = [cands EXCEPT ![id0] = y]
      /\ identity' = [identity EXCEPT ![id0] = n]
      /\ history' = Recorded(history, r)
      /\ TakesEffect(r) /\ Reach(r, step)
      /\ holder' = IF q.command = "request_verification" THEN r ELSE Nobody
  BY <1>1 DEF Apply, RecordedFirst
<1>3. /\ Sent(r) /\ OnCandidate(r) /\ id0 \in Id /\ Present(id0)
      /\ x.revision = q.expected /\ HandlerAllows(q, x) /\ Stored(x)
  BY <1>1 DEF Sent, OnCandidate, CallsAreComposed, Acceptable, RecordsAreSound
<1>4. Fits(q) /\ (q.command = "request_verification" => q.payload \in Product)
  BY <1>3, CallFits
<1>5. /\ Stored(y) /\ y.revision = x.revision + 1
      /\ x.dup \in SettledStates => y.dup \in SettledStates
      /\ y.workflow = "suppressed_duplicate" => y.dup \in SettledStates
      /\ y.workflow = "rejected" => q.command = "review_decision"
      /\ q.command = "request_verification" =>
             Unvouched(y) /\ y.workflow \in Unassessed /\ y.dup = x.dup
  BY <1>3, <1>4, HandledFacts
<1>6. Nobody \notin Request /\ Absent \notin CandidateRecord
  BY StoreAssumption
<1>7. Traffic' = Traffic /\ Call' = Call
  BY TrafficFixed
<1>8. /\ call' \in [Request -> Call]
      /\ call'[r].at = step
      /\ \A s \in Request :
            /\ s # r => call'[s] = call[s]
            /\ call'[s].command = call[s].command /\ call'[s].id = call[s].id
            /\ call'[s].payload = call[s].payload
            /\ call'[s].expected = call[s].expected /\ call'[s].saw = call[s].saw
            /\ call'[s].at # "idle" <=> call[s].at # "idle"
  BY <1>2, <1>3, ReachFacts DEF Typed
<1>9. \A s \in Request : /\ Sent(s)' <=> Sent(s)
                         /\ OnCandidate(s)' <=> OnCandidate(s)
                         /\ OnNone(s)' <=> OnNone(s)
  BY <1>8 DEF Sent, OnCandidate, OnNone
<1>10. /\ History(history') /\ Has(history', r)
  BY <1>2, RecordedFacts
<1>11. applied[r] = 0
  BY <1>1, <1>3, FirstEffect
<1>12. /\ applied' \in [Request -> 0..2] /\ applied'[r] = 1
       /\ \A s \in Request : s # r =>
             /\ applied'[s] = applied[s] \/ applied'[s] = 0
             /\ applied'[s] >= 1 /\ OnNone(s) => Known(s)'
  BY <1>2, <1>11, EffectFacts
<1>13. y \in CandidateRecord /\ y # Absent /\ x.revision \in Nat
  BY <1>3, <1>5, <1>6 DEF Stored, CandidateRecord
<1>14. e \in [product: Product, checked: Product \cup {Nobody}]
  BY <1>3 DEF Typed
<1>15. /\ n \in [product: Product, checked: Product \cup {Nobody}]
       /\ q.command # "request_verification" => n.product = e.product
       /\ q.command # "resolve_duplicate" => n.checked = e.checked
       /\ q.command = "resolve_duplicate" => n.checked = e.product
  BY <1>4, <1>14
<1> HIDE DEF y, n, step
<1>16. /\ cands' \in [Id -> CandidateRecord \cup {Absent}]
       /\ cands'[id0] = y
       /\ \A id \in Id : id # id0 => cands'[id] = cands[id]
  BY <1>2, <1>3, <1>13 DEF Typed
<1>17. /\ identity' \in [Id -> [product: Product, checked: Product \cup {Nobody}]]
       /\ identity'[id0] = n
       /\ \A id \in Id : id # id0 => identity'[id] = identity[id]
  BY <1>2, <1>3, <1>15 DEF Typed
<1>18. \A id \in Id : Present(id)' <=> Present(id)
  BY <1>3, <1>13, <1>16 DEF Present
<1>19. \A id \in Id : Settled(id) => Settled(id)'
  BY <1>5, <1>16 DEF Settled, SettledStates
<1>20. Typed'
  BY <1>2, <1>6, <1>7, <1>8, <1>12, <1>16, <1>17 DEF Typed
<1>21. RoomOnFile' /\ History(history)'
  BY <1>10, <1>18 DEF RoomOnFile, PresentIds, History
<1>22. RecordsAreSound'
  <2> SUFFICES ASSUME NEW id \in Id, Present(id)'
               PROVE  /\ Stored(cands'[id])
                      /\ cands'[id].workflow = "suppressed_duplicate" => Settled(id)'
                      /\ cands'[id].workflow = "rejected" => "review_decision" \in Traffic.issued
    BY <1>7 DEF RecordsAreSound
  <2>1. CASE id = id0
    <3>1. q.command \in Traffic.issued
      BY <1>3 DEF CallsAreComposed
    <3>2. QED
      BY <1>5, <1>16, <2>1, <3>1 DEF Settled, SettledStates
  <2>2. CASE id # id0
    BY <1>16, <1>18, <2>2 DEF RecordsAreSound, Settled
  <2>3. QED
    BY <2>1, <2>2
<1>23. CallsAreComposed'
  BY <1>3, <1>7, <1>8, <1>9, <1>12, PayloadFixed DEF CallsAreComposed
<1>24. LockIsHeld'
  <2>1. \A s \in Request : holder' = s <=> call'[s].at = "assessing"
    BY <1>1, <1>2, <1>6, <1>8 DEF LockIsHeld, step
  <2>2. CASE q.command = "request_verification"
    <3>1. holder' = r /\ call'[r].command = "request_verification" /\ call'[r].id = id0
      BY <1>2, <1>8, <2>2
    <3>2. Known(r)'
      BY <1>10 DEF Known, Has
    <3>3. QED
      BY <1>3, <1>5, <1>16, <1>18, <2>1, <2>2, <3>1, <3>2 DEF LockIsHeld
  <2>3. CASE q.command # "request_verification"
    BY <1>2, <2>1, <2>3 DEF LockIsHeld
  <2>4. QED
    BY <2>2, <2>3
<1>25. RevisionsGrow'
  <2> SUFFICES ASSUME NEW s \in Request, OnCandidate(s), cands'[call[s].id] # Absent
               PROVE  LET c == cands'[call[s].id] IN
                      /\ applied'[s] >= 1 => c.revision > call[s].expected
                      /\ ~(call[s].id \in Synthetic /\ "reset_demo" \in Traffic.issued) =>
                             /\ c.revision >= call[s].expected
                             /\ c.revision = call[s].expected => Material(c) = call[s].saw
    BY <1>7, <1>8, <1>9 DEF RevisionsGrow, Present
  <2>1. /\ call[s].id \in Id /\ call[s].expected \in Nat /\ Present(call[s].id)
        /\ applied[s] \in 0..2
    <3>1. call[s].id \in Id
      BY DEF CallsAreComposed
    <3>2. call[s] \in Call /\ applied[s] \in 0..2
      BY DEF Typed
    <3>3. call[s].expected \in Nat
      BY <3>2 DEF Call
    <3>4. QED
      BY <1>18, <3>1, <3>2, <3>3 DEF Present
  <2>2. /\ applied[s] >= 1 => cands[call[s].id].revision > call[s].expected
        /\ ~(call[s].id \in Synthetic /\ "reset_demo" \in Traffic.issued) =>
               /\ cands[call[s].id].revision >= call[s].expected
               /\ cands[call[s].id].revision = call[s].expected =>
                      Material(cands[call[s].id]) = call[s].saw
    BY <2>1 DEF RevisionsGrow
  <2>3. CASE s = r
    BY <1>3, <1>5, <1>13, <1>16, <2>1, <2>3
  <2>4. CASE s # r /\ call[s].id = id0
    BY <1>5, <1>12, <1>13, <1>16, <2>1, <2>2, <2>4
  <2>5. CASE s # r /\ call[s].id # id0
    BY <1>12, <1>16, <2>1, <2>2, <2>5
  <2>6. QED
    BY <2>3, <2>4, <2>5
<1>26. EffectsAreKnown'
  <2>1. Known(r)'
    BY <1>10 DEF Known, Has
  <2>2. \A s \in Request : applied'[s] <= 1
    BY <1>12 DEF EffectsAreKnown, Typed
  <2>3. QED
    BY <1>9, <1>12, <2>1, <2>2 DEF EffectsAreKnown
<1>27. \A id \in Id \ Synthetic : ~Traffic.crashes /\ Present(id) =>
           identity[id].checked = identity[id].product
  BY <1>1 DEF ChecksAreCurrent, UnderAssessment
<1>28. ChecksAreCurrent'
  <2> SUFFICES ASSUME ~Traffic.crashes, NEW id \in Id \ Synthetic,
                      Present(id)', ~UnderAssessment(id)'
               PROVE  identity'[id].checked = identity'[id].product
    BY <1>7 DEF ChecksAreCurrent
  <2>1. identity[id].checked = identity[id].product
    BY <1>18, <1>27
  <2>2. CASE id # id0
    BY <1>17, <2>1, <2>2
  <2>3. CASE id = id0
    <3>1. q.command # "request_verification"
      BY <1>2, <1>6, <1>8, <2>3 DEF UnderAssessment
    <3>2. QED
      BY <1>15, <1>17, <2>1, <2>3, <3>1
  <2>4. QED
    BY <2>2, <2>3
<1>29. TwinsAreSettled'
  <2> SUFFICES ASSUME ~Traffic.crashes, "review_decision" \notin Traffic.issued,
                      NEW a \in Id \ Synthetic, NEW b \in Id \ Synthetic,
                      a # b, Present(a)', Present(b)',
                      identity'[a].checked = identity'[b].checked,
                      identity'[a].checked \notin {Vague, Nobody}
               PROVE  Settled(a)' \/ Settled(b)'
    BY <1>7 DEF TwinsAreSettled
  <2>1. \A id \in {a, b} : identity'[id].checked = identity[id].checked
    BY <1>15, <1>17, <1>18, <1>27
  <2>2. Settled(a) \/ Settled(b)
    BY <1>18, <2>1 DEF TwinsAreSettled
  <2>3. QED
    BY <1>19, <2>2
<1>30. QED
  BY <1>20, <1>21, <1>22, <1>23, <1>24, <1>25, <1>26, <1>28, <1>29

(* reset_demo leaves the demo candidates as seeded, one request in the     *)
(* history, and no count but its own.                                      *)
LEMMA ResetKeeps ==
    ASSUME IInv, NEW r \in Request, Reset(r), traffic' = traffic
    PROVE  IInv'
<1> USE DEF IInv
<1>1. /\ call[r].at = "routed" /\ holder = Nobody /\ ~Known(r)
      /\ call[r].command = "reset_demo" /\ Sent(r) /\ OnNone(r)
      /\ history' = <<r>> /\ TakesEffect(r) /\ Reach(r, "over") /\ holder' = Nobody
  BY DEF Reset, Enter, Sent, OnNone, OnNoCandidate
<1>2. /\ Stored(Demo) /\ Demo.workflow \notin {"suppressed_duplicate", "rejected"}
      /\ Demo \in CandidateRecord /\ Demo # Absent
      /\ Nobody \notin Request /\ Synthetic \subseteq Id
  BY StagesStored, StoreAssumption DEF Stored
<1>3. Traffic' = Traffic /\ Call' = Call
  BY TrafficFixed
<1>4. /\ call' \in [Request -> Call]
      /\ call'[r].at = "over"
      /\ \A s \in Request :
            /\ s # r => call'[s] = call[s]
            /\ call'[s].command = call[s].command /\ call'[s].id = call[s].id
            /\ call'[s].payload = call[s].payload
            /\ call'[s].expected = call[s].expected /\ call'[s].saw = call[s].saw
            /\ call'[s].at # "idle" <=> call[s].at # "idle"
  BY <1>1, ReachFacts DEF Typed
<1>5. \A s \in Request : /\ Sent(s)' <=> Sent(s)
                         /\ OnCandidate(s)' <=> OnCandidate(s)
                         /\ OnNone(s)' <=> OnNone(s)
  BY <1>4 DEF Sent, OnCandidate, OnNone
<1>6. applied[r] = 0
  BY <1>1 DEF EffectsAreKnown, Typed
<1>7. /\ applied' \in [Request -> 0..2] /\ applied'[r] = 1
      /\ \A s \in Request : s # r => applied'[s] = 0
  BY <1>1, <1>6, EffectFacts
<1>8. /\ cands' \in [Id -> CandidateRecord \cup {Absent}]
      /\ \A id \in Id : cands'[id] = IF id \in Synthetic THEN Demo ELSE Absent
  BY <1>2 DEF Reset
<1>9. identity' \in [Id -> [product: Product, checked: Product \cup {Nobody}]]
  <2>1. [product |-> ExampleProduct, checked |-> Nobody]
            \in [product: Product, checked: Product \cup {Nobody}]
    BY EvidenceFacts
  <2>2. Unchecked \in [product: Product, checked: Product \cup {Nobody}]
    BY DEF Unchecked, Product
  <2>3. QED
    BY <2>1, <2>2 DEF Reset
<1>10. \A id \in Id : Present(id)' <=> id \in Synthetic
  BY <1>2, <1>8 DEF Present
<1>11. Typed'
  BY <1>1, <1>3, <1>4, <1>7, <1>8, <1>9 DEF Typed
<1>12. RoomOnFile'
  <2>1. PresentIds' = Synthetic
    BY <1>2, <1>10 DEF PresentIds
  <2>2. QED
    BY <2>1, StoreAssumption DEF RoomOnFile
<1>13. History(history') /\ Known(r)'
  <2>1. /\ <<r>> \in Seq(Request) /\ Len(<<r>>) = 1 /\ DOMAIN <<r>> = 1..1 /\ <<r>>[1] = r
    OBVIOUS
  <2>2. QED
    BY <1>1, <2>1, StoreAssumption DEF History, Known
<1>14. RecordsAreSound'
  BY <1>2, <1>8, <1>10 DEF RecordsAreSound
<1>15. CallsAreComposed'
  BY <1>1, <1>3, <1>4, <1>5, <1>7, PayloadFixed DEF CallsAreComposed
<1>16. LockIsHeld'
  BY <1>1, <1>2, <1>4 DEF LockIsHeld
<1>17. RevisionsGrow'
  <2>1. "reset_demo" \in Traffic.issued
    BY <1>1 DEF CallsAreComposed
  <2>2. ASSUME NEW s \in Request, OnCandidate(s)
        PROVE  s # r /\ applied'[s] = 0 /\ call[s].id \in Id
    BY <1>1, <1>7, <2>2 DEF OnCandidate, OnNone, CallsAreComposed
  <2>3. QED
    BY <1>3, <1>4, <1>5, <1>10, <2>1, <2>2 DEF RevisionsGrow, Present
<1>18. EffectsAreKnown'
  BY <1>7, <1>13 DEF EffectsAreKnown
<1>19. ChecksAreCurrent' /\ TwinsAreSettled'
  BY <1>10 DEF ChecksAreCurrent, TwinsAreSettled
<1>20. QED
  BY <1>11, <1>12, <1>13, <1>14, <1>15, <1>16, <1>17, <1>18, <1>19

(* Where no candidate gives way there is room for one more.                *)
LEMMA RoomLeft ==
    ASSUME RoomOnFile, GivesWay = {}
    PROVE  Cardinality(PresentIds) < CandidateLimit
<1>1. Cardinality(PresentIds) \in Nat /\ CandidateLimit \in Nat \ {0, 1}
  BY StoreAssumption, FS_CardinalityType DEF RoomOnFile
<1>2. ASSUME ~(Cardinality(PresentIds) < CandidateLimit)
      PROVE  FALSE
  <2>1. PresentIds = {}
    BY <1>2 DEF GivesWay, PresentIds
  <2>2. Cardinality(PresentIds) = 0
    BY <2>1, FS_EmptySet
  <2>3. QED
    BY <1>1, <1>2, <2>2
<1>3. QED
  BY <1>2

(* add_manual_candidate: a new candidate for a new id, in the place of the *)
(* oldest if there is no room, and the lock kept for its assessment.       *)
LEMMA AddKeeps ==
    ASSUME IInv, NEW r \in Request, Add(r), traffic' = traffic
    PROVE  IInv'
<1> USE DEF IInv
<1>1. /\ call[r].at = "routed" /\ holder = Nobody /\ ~Known(r)
      /\ call[r].command = "add_manual_candidate" /\ Sent(r) /\ OnNone(r)
      /\ history' = Recorded(history, r) /\ TakesEffect(r) /\ holder' = r
  BY DEF Add, Enter, Sent, OnNone, OnNoCandidate, RecordedFirst
<1>2. PICK new \in Id : \E oldest \in GivesWay \cup {new} :
          /\ Fresh(new)
          /\ GivesWay # {} => oldest # new
          /\ cands' = [cands EXCEPT ![oldest] = Absent, ![new] = Created]
          /\ identity' = [identity EXCEPT ![oldest] = Unchecked,
                                          ![new] = [product |-> call[r].payload, checked |-> Nobody]]
          /\ call' = [call EXCEPT ![r].at = "assessing", ![r].id = new]
  BY DEF Add, Created
<1>3. PICK oldest \in GivesWay \cup {new} :
          /\ Fresh(new)
          /\ GivesWay # {} => oldest # new
          /\ cands' = [cands EXCEPT ![oldest] = Absent, ![new] = Created]
          /\ identity' = [identity EXCEPT ![oldest] = Unchecked,
                                          ![new] = [product |-> call[r].payload, checked |-> Nobody]]
          /\ call' = [call EXCEPT ![r].at = "assessing", ![r].id = new]
  BY <1>2
<1>4. /\ Stored(Created) /\ Unvouched(Created) /\ Created.workflow = "verification_needed"
      /\ Created \in CandidateRecord /\ Created # Absent
      /\ Nobody \notin Request \cup Id /\ Nobody \notin Complete \cup {Vague}
  BY StagesStored, StoreAssumption DEF Stored
<1>5. /\ ~Present(new) /\ new \notin Synthetic
      /\ \A s \in Request : call[s].id = new => call[s].command = "add_manual_candidate"
  BY <1>3 DEF Fresh
<1>6. oldest \in Id /\ (oldest # new => Present(oldest))
  BY <1>3 DEF GivesWay
<1>7. Traffic' = Traffic /\ Call' = Call
  BY TrafficFixed
<1>8. call[r] \in Call /\ call[r].payload \in Product
  <2>1. call[r].payload \in Payload("add_manual_candidate")
    BY <1>1 DEF CallsAreComposed
  <2>2. Traffic.products \subseteq Product
    BY TrafficTypes DEF Typed
  <2>3. QED
    BY <2>1, <2>2 DEF Payload, Typed
<1>9. /\ call' \in [Request -> Call]
      /\ call'[r].at = "assessing" /\ call'[r].id = new
      /\ call'[r].command = call[r].command /\ call'[r].payload = call[r].payload
      /\ call'[r].expected = call[r].expected /\ call'[r].saw = call[r].saw
      /\ \A s \in Request : s # r => call'[s] = call[s]
  <2> DEFINE q == [call[r] EXCEPT !.at = "assessing", !.id = new]
  <2>1. /\ q \in Call /\ q.at = "assessing" /\ q.id = new
        /\ q.command = call[r].command /\ q.payload = call[r].payload
        /\ q.expected = call[r].expected /\ q.saw = call[r].saw
    BY <1>8 DEF Call
  <2>2. call' = [call EXCEPT ![r] = q]
    BY <1>3 DEF Typed
  <2> HIDE DEF q
  <2>3. QED
    BY <2>1, <2>2 DEF Typed
<1>10. \A s \in Request : /\ Sent(s)' <=> Sent(s)
                          /\ OnCandidate(s)' <=> OnCandidate(s)
                          /\ OnNone(s)' <=> OnNone(s)
  <2>1. call'[r].at # "idle" /\ call[r].at # "idle" /\ call'[r].command = call[r].command
    BY <1>1, <1>9
  <2>2. QED
    BY <1>9, <2>1 DEF Sent, OnCandidate, OnNone
<1>11. History(history') /\ Has(history', r)
  BY <1>1, RecordedFacts
<1>12. applied[r] = 0
  BY <1>1 DEF EffectsAreKnown, Typed
<1>13. /\ applied' \in [Request -> 0..2] /\ applied'[r] = 1
       /\ \A s \in Request : s # r =>
             /\ applied'[s] = applied[s] \/ applied'[s] = 0
             /\ applied'[s] >= 1 /\ OnNone(s) => Known(s)'
  BY <1>1, <1>12, EffectFacts
<1>14. /\ cands' \in [Id -> CandidateRecord \cup {Absent}]
       /\ cands'[new] = Created
       /\ oldest # new => cands'[oldest] = Absent
       /\ \A id \in Id : id # new /\ id # oldest => cands'[id] = cands[id]
  BY <1>3, <1>4, <1>6 DEF Typed
<1>15. /\ identity' \in [Id -> [product: Product, checked: Product \cup {Nobody}]]
       /\ identity'[new].checked = Nobody
       /\ \A id \in Id : id # new /\ id # oldest => identity'[id] = identity[id]
  <2>1. /\ Unchecked \in [product: Product, checked: Product \cup {Nobody}]
        /\ [product |-> call[r].payload, checked |-> Nobody]
              \in [product: Product, checked: Product \cup {Nobody}]
    BY <1>8 DEF Unchecked, Product
  <2>2. QED
    BY <1>3, <1>6, <2>1 DEF Typed
<1>16. \A id \in Id : Present(id)' => id = new \/ (id # oldest /\ Present(id) /\ cands'[id] = cands[id]
                                                   /\ identity'[id] = identity[id])
  BY <1>14, <1>15 DEF Present
<1>17. Typed'
  BY <1>1, <1>7, <1>9, <1>13, <1>14, <1>15 DEF Typed
<1>18. RoomOnFile'
  <2>1. PresentIds' = (PresentIds \ {oldest}) \cup {new}
    BY <1>4, <1>6, <1>14 DEF PresentIds, Present
  <2>2. /\ IsFiniteSet(PresentIds) /\ Cardinality(PresentIds) <= CandidateLimit
        /\ Cardinality(PresentIds) \in Nat /\ CandidateLimit \in Nat /\ new \notin PresentIds
    BY <1>5, StoreAssumption, FS_CardinalityType DEF RoomOnFile, PresentIds
  <2>3. CASE GivesWay = {}
    <3>1. oldest = new /\ PresentIds' = PresentIds \cup {new}
      BY <1>3, <2>1, <2>2, <2>3
    <3>2. Cardinality(PresentIds) < CandidateLimit
      BY <2>3, RoomLeft
    <3>3. /\ IsFiniteSet(PresentIds \cup {new})
          /\ Cardinality(PresentIds \cup {new}) = Cardinality(PresentIds) + 1
      BY <2>2, FS_AddElement
    <3>4. QED
      BY <2>2, <3>1, <3>2, <3>3 DEF RoomOnFile
  <2>4. CASE GivesWay # {}
    <3>1. oldest # new /\ oldest \in PresentIds
      BY <1>3, <1>6, <2>4 DEF PresentIds
    <3> DEFINE rest == PresentIds \ {oldest}
    <3>2. IsFiniteSet(rest) /\ Cardinality(rest) = Cardinality(PresentIds) - 1
      BY <2>2, <3>1, FS_RemoveElement
    <3>3. new \notin rest /\ PresentIds' = rest \cup {new}
      BY <2>1, <2>2
    <3> HIDE DEF rest
    <3>4. IsFiniteSet(rest \cup {new}) /\ Cardinality(rest \cup {new}) = Cardinality(rest) + 1
      BY <3>2, <3>3, FS_AddElement
    <3>5. QED
      BY <2>2, <3>2, <3>3, <3>4 DEF RoomOnFile
  <2>5. QED
    BY <2>3, <2>4
<1>19. RecordsAreSound'
  <2> SUFFICES ASSUME NEW id \in Id, Present(id)'
               PROVE  /\ Stored(cands'[id])
                      /\ cands'[id].workflow = "suppressed_duplicate" => Settled(id)'
                      /\ cands'[id].workflow = "rejected" => "review_decision" \in Traffic.issued
    BY <1>7 DEF RecordsAreSound
  <2>1. CASE id = new
    BY <1>4, <1>14, <2>1
  <2>2. CASE id # new
    BY <1>16, <2>2 DEF RecordsAreSound, Settled
  <2>3. QED
    BY <2>1, <2>2
<1>20. CallsAreComposed'
  <2> SUFFICES ASSUME NEW s \in Request
               PROVE  /\ Sent(s)' => call'[s].command \in Traffic.issued
                                        /\ call'[s].payload \in Payload(call'[s].command)
                      /\ OnCandidate(s)' => call'[s].id \in Id
                      /\ ~OnCandidate(s)' => call'[s].saw = Nobody
                      /\ ~Sent(s)' => applied'[s] = 0 /\ call'[s].id = Nobody
    BY <1>7, PayloadFixed DEF CallsAreComposed
  <2>1. CASE s = r
    BY <1>1, <1>9, <1>10, <2>1 DEF CallsAreComposed, OnCandidate, OnNone
  <2>2. CASE s # r
    BY <1>9, <1>10, <1>13, <2>2 DEF CallsAreComposed
  <2>3. QED
    BY <2>1, <2>2
<1>21. LockIsHeld'
  <2>1. \A s \in Request : holder' = s <=> call'[s].at = "assessing"
    BY <1>1, <1>4, <1>9 DEF LockIsHeld
  <2>2. Known(r)'
    BY <1>11 DEF Known, Has
  <2>3. /\ call'[r].command = "add_manual_candidate" /\ call'[r].id = new
        /\ cands'[new] # Absent
        /\ Unvouched(cands'[new]) /\ cands'[new].workflow \in Unassessed
    BY <1>1, <1>4, <1>9, <1>14 DEF Unassessed
  <2>4. QED
    BY <1>1, <2>1, <2>2, <2>3 DEF LockIsHeld, Present
<1>22. RevisionsGrow'
  <2> SUFFICES ASSUME NEW s \in Request, OnCandidate(s), cands'[call[s].id] # Absent
               PROVE  LET c == cands'[call[s].id] IN
                      /\ applied'[s] >= 1 => c.revision > call[s].expected
                      /\ ~(call[s].id \in Synthetic /\ "reset_demo" \in Traffic.issued) =>
                             /\ c.revision >= call[s].expected
                             /\ c.revision = call[s].expected => Material(c) = call[s].saw
    <3>1. \A s \in Request : OnCandidate(s) => s # r
      BY <1>1 DEF OnCandidate, OnNone
    <3>2. QED
      BY <1>7, <1>9, <1>10, <3>1 DEF RevisionsGrow, Present
  <2>1. s # r /\ call[s].id \in Id /\ call[s].id # new
    BY <1>1, <1>5 DEF OnCandidate, OnNone, OnNoCandidate, CallsAreComposed
  <2>2. Present(call[s].id) /\ cands'[call[s].id] = cands[call[s].id]
    BY <1>16, <2>1 DEF Present
  <2>3. applied'[s] >= 1 => applied[s] >= 1
    BY <1>13, <2>1
  <2>4. QED
    BY <2>2, <2>3 DEF RevisionsGrow
<1>23. EffectsAreKnown'
  <2>1. Known(r)'
    BY <1>11 DEF Known, Has
  <2>2. \A s \in Request : applied'[s] <= 1
    BY <1>13 DEF EffectsAreKnown, Typed
  <2>3. QED
    BY <1>10, <1>13, <2>1, <2>2 DEF EffectsAreKnown
<1>24. ChecksAreCurrent'
  <2> SUFFICES ASSUME ~Traffic.crashes, NEW id \in Id \ Synthetic,
                      Present(id)', ~UnderAssessment(id)'
               PROVE  identity'[id].checked = identity'[id].product
    BY <1>7 DEF ChecksAreCurrent
  <2>1. id # new
    BY <1>1, <1>4, <1>9 DEF UnderAssessment
  <2>2. QED
    BY <1>1, <1>16, <2>1 DEF ChecksAreCurrent, UnderAssessment
<1>25. TwinsAreSettled'
  <2> SUFFICES ASSUME ~Traffic.crashes, "review_decision" \notin Traffic.issued,
                      NEW a \in Id \ Synthetic, NEW b \in Id \ Synthetic,
                      a # b, Present(a)', Present(b)',
                      identity'[a].checked = identity'[b].checked,
                      identity'[a].checked \notin {Vague, Nobody}
               PROVE  Settled(a)' \/ Settled(b)'
    BY <1>7 DEF TwinsAreSettled
  <2>1. a # new /\ b # new
    BY <1>15
  <2>2. QED
    BY <1>16, <2>1 DEF TwinsAreSettled, Settled
<1>26. QED
  BY <1>11, <1>17, <1>18, <1>19, <1>20, <1>21, <1>22, <1>23, <1>24, <1>25

-----------------------------------------------------------------------------
(* The second write: the assessment of what the first one left, if it is   *)
(* due, or the removal of an addition, in any case by its own handler.     *)
LEMMA SecondWriteKeeps ==
    ASSUME IInv, traffic' = traffic, applied' = applied,
           NEW r \in Request, call[r].at = "assessing", Reach(r, "over"), holder' = Nobody,
           history' \in {history, Recorded(history, r)},
           NEW id0, id0 = call[r].id,
           \/ cands' = cands /\ identity' = identity /\ ~Reassessed(id0)
           \/ /\ cands' = [cands EXCEPT ![id0] = Assessed(cands[id0], AssessmentOf(id0))]
              /\ identity' = [identity EXCEPT ![id0].checked = identity[id0].product]
           \/ /\ cands' = [cands EXCEPT ![id0] = Absent]
              /\ identity' = [identity EXCEPT ![id0] = Unchecked]
    PROVE  IInv'
<1> USE DEF IInv
<1>1. Nobody \notin Request \cup Id /\ Absent \notin CandidateRecord
  BY StoreAssumption
<1>2. holder = r /\ holder # Nobody /\ Sent(r)
  BY <1>1 DEF LockIsHeld, Sent
<1>3. /\ id0 \in Id /\ Present(id0) /\ Known(r)
      /\ Unvouched(cands[id0]) /\ cands[id0].workflow \in Unassessed
      /\ Stored(cands[id0]) /\ cands[id0] \in CandidateRecord
  BY <1>2 DEF LockIsHeld, RecordsAreSound, Stored
<1>4. Traffic' = Traffic /\ Call' = Call
  BY TrafficFixed
<1>5. /\ call' \in [Request -> Call]
      /\ call'[r].at = "over"
      /\ \A s \in Request :
            /\ s # r => call'[s] = call[s]
            /\ call'[s].command = call[s].command /\ call'[s].id = call[s].id
            /\ call'[s].payload = call[s].payload
            /\ call'[s].expected = call[s].expected /\ call'[s].saw = call[s].saw
            /\ call'[s].at # "idle" <=> call[s].at # "idle"
  BY <1>2, ReachFacts DEF Typed
<1>6. \A s \in Request : /\ Sent(s)' <=> Sent(s)
                         /\ OnCandidate(s)' <=> OnCandidate(s)
                         /\ OnNone(s)' <=> OnNone(s)
  BY <1>5 DEF Sent, OnCandidate, OnNone
<1>7. History(history') /\ \A s \in Request : Known(s) => Known(s)'
  <2>1. Has(history, r) => /\ History(Recorded(history, r))
                           /\ \A s \in Request : Has(history, s) => Has(Recorded(history, r), s)
    BY RecordedFacts
  <2>2. \A s : (Known(s) <=> Has(history, s)) /\ (Known(s)' <=> Has(history', s))
    BY DEF Known, Has
  <2>3. QED
    BY <1>3, <2>1, <2>2
<1> DEFINE a0 == AssessmentOf(id0)
           p0 == identity[id0].product
<1>8. /\ Stored(Assessed(cands[id0], a0))
      /\ Assessed(cands[id0], a0).revision = cands[id0].revision
      /\ Material(Assessed(cands[id0], a0)) = Material(cands[id0])
      /\ Assessed(cands[id0], a0).dup \in SettledStates <=> a0 = "exact"
      /\ Assessed(cands[id0], a0).workflow = "suppressed_duplicate"
            => Assessed(cands[id0], a0).dup \in SettledStates
      /\ Assessed(cands[id0], a0).workflow # "rejected"
  BY <1>3, AssessmentTypes, AssessedFacts
<1>9. /\ identity[id0] \in [product: Product, checked: Product \cup {Nobody}]
      /\ p0 \in Product
      /\ Unchecked \in [product: Product, checked: Product \cup {Nobody}]
  BY <1>3 DEF Typed, Unchecked, Product
<1>10. /\ cands' \in [Id -> CandidateRecord \cup {Absent}]
       /\ identity' \in [Id -> [product: Product, checked: Product \cup {Nobody}]]
       /\ \A id \in Id : id # id0 => cands'[id] = cands[id] /\ identity'[id] = identity[id]
       /\ cands'[id0] # Absent =>
             /\ Stored(cands'[id0])
             /\ cands'[id0].revision = cands[id0].revision
             /\ Material(cands'[id0]) = Material(cands[id0])
             /\ cands'[id0].workflow = "suppressed_duplicate" => cands'[id0].dup \in SettledStates
             /\ cands'[id0].workflow # "rejected"
             /\ identity'[id0].product = p0 /\ identity'[id0].checked = p0
             /\ \/ cands'[id0].dup = cands[id0].dup /\ identity'[id0] = identity[id0]
                \/ cands'[id0].dup \in SettledStates <=> a0 = "exact"
  <2>1. CASE cands' = cands /\ identity' = identity /\ ~Reassessed(id0)
    BY <1>3, <2>1 DEF Typed, Reassessed, Unassessed
  <2>2. CASE /\ cands' = [cands EXCEPT ![id0] = Assessed(cands[id0], a0)]
             /\ identity' = [identity EXCEPT ![id0].checked = p0]
    <3> DEFINE y == Assessed(cands[id0], a0)
               j == [identity[id0] EXCEPT !.checked = p0]
    <3>1. /\ j \in [product: Product, checked: Product \cup {Nobody}]
          /\ j.product = p0 /\ j.checked = p0
      BY <1>9
    <3>2. y \in CandidateRecord
      BY <1>8 DEF Stored
    <3>3. cands' = [cands EXCEPT ![id0] = y] /\ identity' = [identity EXCEPT ![id0] = j]
      BY <2>2
    <3>4. /\ Stored(y) /\ y.revision = cands[id0].revision
          /\ Material(y) = Material(cands[id0])
          /\ y.dup \in SettledStates <=> a0 = "exact"
          /\ y.workflow = "suppressed_duplicate" => y.dup \in SettledStates
          /\ y.workflow # "rejected"
      BY <1>8
    <3> HIDE DEF y, j, a0, p0
    <3>5. /\ cands' \in [Id -> CandidateRecord \cup {Absent}] /\ cands'[id0] = y
          /\ identity' \in [Id -> [product: Product, checked: Product \cup {Nobody}]]
          /\ identity'[id0] = j
          /\ \A id \in Id : id # id0 => cands'[id] = cands[id] /\ identity'[id] = identity[id]
      BY <1>3, <3>1, <3>2, <3>3 DEF Typed
    <3>6. QED
      BY <3>1, <3>4, <3>5
  <2>3. CASE /\ cands' = [cands EXCEPT ![id0] = Absent]
             /\ identity' = [identity EXCEPT ![id0] = Unchecked]
    BY <1>3, <1>9, <2>3 DEF Typed
  <2>4. QED
    BY <2>1, <2>2, <2>3
<1> HIDE DEF a0, p0
<1>11. \A id \in Id : Present(id)' => Present(id)
  BY <1>3, <1>10 DEF Present
<1>12. Typed'
  BY <1>4, <1>5, <1>10 DEF Typed
<1>13. RoomOnFile'
  <2>1. PresentIds' \subseteq PresentIds
    BY <1>11 DEF PresentIds
  <2>2. /\ IsFiniteSet(PresentIds') /\ Cardinality(PresentIds') <= Cardinality(PresentIds)
        /\ Cardinality(PresentIds) \in Nat /\ Cardinality(PresentIds') \in Nat
    BY <2>1, FS_Subset, FS_CardinalityType DEF RoomOnFile
  <2>3. QED
    BY <2>2, StoreAssumption DEF RoomOnFile
<1>14. RecordsAreSound'
  <2> SUFFICES ASSUME NEW id \in Id, Present(id)'
               PROVE  /\ Stored(cands'[id])
                      /\ cands'[id].workflow = "suppressed_duplicate" => Settled(id)'
                      /\ cands'[id].workflow = "rejected" => "review_decision" \in Traffic.issued
    BY <1>4 DEF RecordsAreSound
  <2>1. CASE id = id0
    BY <1>10, <2>1 DEF Present, Settled, SettledStates
  <2>2. CASE id # id0
    BY <1>10, <1>11, <2>2 DEF RecordsAreSound, Settled
  <2>3. QED
    BY <2>1, <2>2
<1>15. CallsAreComposed'
  BY <1>4, <1>5, <1>6, PayloadFixed DEF CallsAreComposed
<1>16. LockIsHeld'
  BY <1>1, <1>2, <1>5 DEF LockIsHeld
<1>17. RevisionsGrow'
  <2> SUFFICES ASSUME NEW s \in Request, OnCandidate(s), cands'[call[s].id] # Absent
               PROVE  LET c == cands'[call[s].id] IN
                      /\ applied[s] >= 1 => c.revision > call[s].expected
                      /\ ~(call[s].id \in Synthetic /\ "reset_demo" \in Traffic.issued) =>
                             /\ c.revision >= call[s].expected
                             /\ c.revision = call[s].expected => Material(c) = call[s].saw
    BY <1>4, <1>5, <1>6 DEF RevisionsGrow, Present
  <2>1. call[s].id \in Id
    BY DEF CallsAreComposed
  <2>2. /\ Present(call[s].id) /\ cands'[call[s].id].revision = cands[call[s].id].revision
        /\ Material(cands'[call[s].id]) = Material(cands[call[s].id])
    BY <1>3, <1>10, <2>1 DEF Present
  <2>3. QED
    BY <2>2 DEF RevisionsGrow
<1>18. EffectsAreKnown'
  BY <1>6, <1>7 DEF EffectsAreKnown
<1>19. ASSUME ~Traffic.crashes, NEW t \in Id \ Synthetic, t # id0, Present(t)
       PROVE  identity[t].checked = identity[t].product
  BY <1>2, <1>19 DEF ChecksAreCurrent, UnderAssessment
<1>20. ChecksAreCurrent'
  <2> SUFFICES ASSUME ~Traffic.crashes, NEW id \in Id \ Synthetic, Present(id)'
               PROVE  identity'[id].checked = identity'[id].product
    BY <1>4 DEF ChecksAreCurrent
  <2>1. CASE id = id0
    BY <1>10, <2>1 DEF Present
  <2>2. CASE id # id0
    BY <1>10, <1>11, <1>19, <2>2
  <2>3. QED
    BY <2>1, <2>2
<1>21. TwinsAreSettled'
  <2> SUFFICES ASSUME ~Traffic.crashes, "review_decision" \notin Traffic.issued,
                      NEW a \in Id \ Synthetic, NEW b \in Id \ Synthetic,
                      a # b, Present(a)', Present(b)',
                      identity'[a].checked = identity'[b].checked,
                      identity'[a].checked \notin {Vague, Nobody}
               PROVE  Settled(a)' \/ Settled(b)'
    BY <1>4 DEF TwinsAreSettled
  <2>1. Present(a) /\ Present(b)
    BY <1>11
  <2>2. ASSUME NEW t \in Id \ Synthetic, t # id0, id0 \notin Synthetic, Present(t), Present(id0)',
               identity'[t].checked = identity'[id0].checked,
               identity'[id0].checked \notin {Vague, Nobody}
        PROVE  Settled(t)' \/ Settled(id0)'
    <3>1. /\ identity'[t] = identity[t] /\ cands'[t] = cands[t]
          /\ identity[t].checked = identity[t].product
          /\ identity'[id0].checked = p0
      BY <1>10, <1>19, <2>2 DEF Present
    <3>2. identity[t].product = p0 /\ p0 # Vague
      BY <2>2, <3>1
    <3>3. CASE /\ cands'[id0].dup = cands[id0].dup /\ identity'[id0] = identity[id0]
      <4>1. identity[t].checked = identity[id0].checked /\ identity[id0].checked \notin {Vague, Nobody}
        BY <2>2, <3>1, <3>3
      <4>2. Settled(t) \/ Settled(id0)
        BY <1>3, <2>2, <4>1 DEF TwinsAreSettled
      <4>3. QED
        BY <3>1, <3>3, <4>2 DEF Settled
    <3>4. CASE cands'[id0].dup \in SettledStates <=> a0 = "exact"
      <4>1. CASE EligibleTarget(t)
        <5>1. a0 = "exact"
          BY <2>2, <3>2, <4>1 DEF a0, p0, AssessmentOf
        <5>2. QED
          BY <3>4, <5>1 DEF Settled, SettledStates
      <4>2. CASE ~EligibleTarget(t)
        <5>1. cands[t].workflow \in {"rejected", "suppressed_duplicate"}
          BY <2>2, <4>2 DEF EligibleTarget
        <5>2. Settled(t)
          BY <2>2, <5>1 DEF RecordsAreSound
        <5>3. QED
          BY <3>1, <5>2 DEF Settled
      <4>3. QED
        BY <4>1, <4>2
    <3>5. QED
      BY <1>10, <2>2, <3>3, <3>4 DEF Present
  <2>3. CASE a = id0
    BY <2>1, <2>2, <2>3
  <2>4. CASE b = id0
    BY <2>1, <2>2, <2>4
  <2>5. CASE a # id0 /\ b # id0
    BY <1>10, <2>1, <2>5 DEF TwinsAreSettled, Settled
  <2>6. QED
    BY <2>3, <2>4, <2>5
<1>22. QED
  BY <1>7, <1>12, <1>13, <1>14, <1>15, <1>16, <1>17, <1>18, <1>20, <1>21

-----------------------------------------------------------------------------
(* The invariant.                                                          *)

(* The files a behaviour starts with.                                      *)
LEMMA PortfolioSound ==
    ASSUME traffic \in DOMAIN Traffics, InitPortfolio, holder = Nobody
    PROVE  /\ cands \in [Id -> CandidateRecord \cup {Absent}]
           /\ identity \in [Id -> [product: Product, checked: Product \cup {Nobody}]]
           /\ RoomOnFile /\ RecordsAreSound /\ ChecksAreCurrent /\ TwinsAreSettled
<1>1. /\ Traffic.products \subseteq Product /\ Traffic.stages \subseteq Stage
      /\ Traffic.demo \subseteq SUBSET Synthetic
  BY TrafficTypes
<1>2. PICK demo \in Traffic.demo :
    \E first \in (Id \ Synthetic) \cup demo : \E other \in (Id \ Synthetic) \cup {first} :
    \E stage \in Traffic.stages, product \in Traffic.products, second \in Traffic.products :
        /\ product = Vague => stage = Created
        /\ first \in Synthetic => stage # Created /\ product = ExampleProduct
        /\ product # second
        /\ Cardinality(demo \cup {first, other}) <= CandidateLimit
        /\ cands = [id \in Id |->
               CASE id = first -> stage
                 [] id \in demo \ {first} -> Demo
                 [] id = other /\ id # first ->
                        Assessed(Created, IF Vague \in {product, second} /\ first \notin Synthetic
                                          THEN "possible" ELSE "unique")
                 [] OTHER -> Absent]
        /\ identity = [id \in Id |->
               CASE id = first ->
                        [product |-> product, checked |-> IF id \in Synthetic THEN Nobody ELSE product]
                 [] id \in demo \ {first} -> [product |-> ExampleProduct, checked |-> Nobody]
                 [] id = other /\ id # first -> [product |-> second, checked |-> second]
                 [] OTHER -> Unchecked]
  BY DEF InitPortfolio
<1>3. PICK first \in (Id \ Synthetic) \cup demo :
    \E other \in (Id \ Synthetic) \cup {first} :
    \E stage \in Traffic.stages, product \in Traffic.products, second \in Traffic.products :
        /\ product = Vague => stage = Created
        /\ first \in Synthetic => stage # Created /\ product = ExampleProduct
        /\ product # second
        /\ Cardinality(demo \cup {first, other}) <= CandidateLimit
        /\ cands = [id \in Id |->
               CASE id = first -> stage
                 [] id \in demo \ {first} -> Demo
                 [] id = other /\ id # first ->
                        Assessed(Created, IF Vague \in {product, second} /\ first \notin Synthetic
                                          THEN "possible" ELSE "unique")
                 [] OTHER -> Absent]
        /\ identity = [id \in Id |->
               CASE id = first ->
                        [product |-> product, checked |-> IF id \in Synthetic THEN Nobody ELSE product]
                 [] id \in demo \ {first} -> [product |-> ExampleProduct, checked |-> Nobody]
                 [] id = other /\ id # first -> [product |-> second, checked |-> second]
                 [] OTHER -> Unchecked]
  BY <1>2
<1>4. PICK other \in (Id \ Synthetic) \cup {first} :
    \E stage \in Traffic.stages, product \in Traffic.products, second \in Traffic.products :
        /\ product = Vague => stage = Created
        /\ first \in Synthetic => stage # Created /\ product = ExampleProduct
        /\ product # second
        /\ Cardinality(demo \cup {first, other}) <= CandidateLimit
        /\ cands = [id \in Id |->
               CASE id = first -> stage
                 [] id \in demo \ {first} -> Demo
                 [] id = other /\ id # first ->
                        Assessed(Created, IF Vague \in {product, second} /\ first \notin Synthetic
                                          THEN "possible" ELSE "unique")
                 [] OTHER -> Absent]
        /\ identity = [id \in Id |->
               CASE id = first ->
                        [product |-> product, checked |-> IF id \in Synthetic THEN Nobody ELSE product]
                 [] id \in demo \ {first} -> [product |-> ExampleProduct, checked |-> Nobody]
                 [] id = other /\ id # first -> [product |-> second, checked |-> second]
                 [] OTHER -> Unchecked]
  BY <1>3
<1>5. PICK stage \in Traffic.stages, product \in Traffic.products, second \in Traffic.products :
        /\ product = Vague => stage = Created
        /\ first \in Synthetic => stage # Created /\ product = ExampleProduct
        /\ product # second
        /\ Cardinality(demo \cup {first, other}) <= CandidateLimit
        /\ cands = [id \in Id |->
               CASE id = first -> stage
                 [] id \in demo \ {first} -> Demo
                 [] id = other /\ id # first ->
                        Assessed(Created, IF Vague \in {product, second} /\ first \notin Synthetic
                                          THEN "possible" ELSE "unique")
                 [] OTHER -> Absent]
        /\ identity = [id \in Id |->
               CASE id = first ->
                        [product |-> product, checked |-> IF id \in Synthetic THEN Nobody ELSE product]
                 [] id \in demo \ {first} -> [product |-> ExampleProduct, checked |-> Nobody]
                 [] id = other /\ id # first -> [product |-> second, checked |-> second]
                 [] OTHER -> Unchecked]
  BY <1>4
<1>6. stage \in Stage /\ product \in Product /\ second \in Product
  BY <1>1
<1>7. /\ demo \subseteq Synthetic /\ demo \subseteq Id /\ first \in Id /\ other \in Id
      /\ IsFiniteSet(Synthetic) /\ Absent \notin CandidateRecord /\ CandidateLimit \in Nat
      /\ ExampleProduct \in Product
  BY <1>1, EvidenceFacts, StoreAssumption
<1> DEFINE a == IF Vague \in {product, second} /\ first \notin Synthetic
                THEN "possible" ELSE "unique"
           added == Assessed(Created, a)
<1>8. /\ Stored(stage) /\ stage.workflow \notin {"suppressed_duplicate", "rejected"}
      /\ Stored(Demo) /\ Demo.workflow \notin {"suppressed_duplicate", "rejected"}
      /\ stage \in CandidateRecord /\ Demo \in CandidateRecord
  BY <1>6, StagesStored DEF Stored
<1>9. /\ Stored(added) /\ added.workflow \notin {"suppressed_duplicate", "rejected"}
      /\ added \in CandidateRecord
  <2>1. /\ Stored(Created) /\ Unvouched(Created) /\ Created.workflow \in Unassessed
        /\ a \in {"unique", "possible"}
    BY StagesStored DEF Unassessed
  <2> HIDE DEF a
  <2>2. /\ Stored(added)
        /\ added.dup \in SettledStates <=> a = "exact"
        /\ added.workflow = "suppressed_duplicate" => added.dup \in SettledStates
        /\ added.workflow # "rejected"
    BY <2>1, AssessedFacts
  <2>3. QED
    BY <2>1, <2>2 DEF Stored
<1> HIDE DEF added
<1>10. /\ cands \in [Id -> CandidateRecord \cup {Absent}]
      /\ \A id \in Id : cands[id] = IF id = first THEN stage
                                    ELSE IF id \in demo THEN Demo
                                    ELSE IF id = other THEN added
                                    ELSE Absent
  <2>1. cands = [id \in Id |-> IF id = first THEN stage
                               ELSE IF id \in demo THEN Demo
                               ELSE IF id = other THEN added
                               ELSE Absent]
    <3>1. ASSUME NEW id \in Id
          PROVE  (CASE id = first -> stage
                    [] id \in demo \ {first} -> Demo
                    [] id = other /\ id # first -> added
                    [] OTHER -> Absent)
                 = (IF id = first THEN stage
                    ELSE IF id \in demo THEN Demo
                    ELSE IF id = other THEN added
                    ELSE Absent)
      <4>1. CASE id = first
        BY <4>1
      <4>2. CASE id # first /\ id \in demo
        <5>1. ~(id = other)
          BY <1>5, <1>7, <4>2
        <5>2. QED
          BY <4>2, <5>1
      <4>3. CASE id # first /\ id \notin demo
        BY <4>3
      <4>4. QED
        BY <4>1, <4>2, <4>3
    <3>2. cands = [id \in Id |->
               CASE id = first -> stage
                 [] id \in demo \ {first} -> Demo
                 [] id = other /\ id # first -> added
                 [] OTHER -> Absent]
      BY <1>5 DEF added
    <3>3. QED
      BY <3>1, <3>2
  <2>2. QED
    BY <1>8, <1>9, <2>1
<1>11. /\ identity \in [Id -> [product: Product, checked: Product \cup {Nobody}]]
      /\ \A id \in Id \ Synthetic :
            /\ id = first => identity[id] = [product |-> product, checked |-> product]
            /\ id = other /\ id # first => identity[id] = [product |-> second, checked |-> second]
  <2>1. ASSUME NEW id \in Id
        PROVE  /\ identity[id] \in [product: Product, checked: Product \cup {Nobody}]
               /\ id \notin Synthetic =>
                     /\ id = first => identity[id] = [product |-> product, checked |-> product]
                     /\ id = other /\ id # first => identity[id] = [product |-> second, checked |-> second]
    <3>1. identity[id] =
               CASE id = first ->
                        [product |-> product, checked |-> IF id \in Synthetic THEN Nobody ELSE product]
                 [] id \in demo \ {first} -> [product |-> ExampleProduct, checked |-> Nobody]
                 [] id = other /\ id # first -> [product |-> second, checked |-> second]
                 [] OTHER -> Unchecked
      BY <1>5
    <3>2. CASE id = first
      BY <1>6, <3>1, <3>2
    <3>3. CASE id # first /\ id \in demo
      <4>1. ~(id = other)
        BY <1>5, <1>7, <3>3
      <4>2. identity[id] = [product |-> ExampleProduct, checked |-> Nobody]
        BY <3>1, <3>3, <4>1
      <4>3. QED
        BY <1>7, <3>3, <4>2
    <3>4. CASE id # first /\ id \notin demo /\ id = other
      BY <1>6, <3>1, <3>4
    <3>5. CASE id # first /\ id \notin demo /\ id # other
      BY <3>1, <3>5 DEF Unchecked, Product
    <3>6. QED
      BY <3>2, <3>3, <3>4, <3>5
  <2>2. DOMAIN identity = Id /\ identity = [id \in Id |-> identity[id]]
    BY <1>5
  <2>3. QED
    BY <2>1, <2>2
<1>12. RoomOnFile
  <2>1. /\ IsFiniteSet(demo)
        /\ IsFiniteSet(demo \cup {first}) /\ IsFiniteSet((demo \cup {first}) \cup {other})
    BY <1>7, FS_Subset, FS_AddElement
  <2>2. demo \cup {first, other} = (demo \cup {first}) \cup {other}
    OBVIOUS
  <2>3. IsFiniteSet(demo \cup {first, other}) /\ PresentIds \subseteq demo \cup {first, other}
    BY <1>10, <2>1, <2>2 DEF PresentIds, Present
  <2>4. /\ IsFiniteSet(PresentIds)
        /\ Cardinality(PresentIds) <= Cardinality(demo \cup {first, other})
        /\ Cardinality(PresentIds) \in Nat /\ Cardinality(demo \cup {first, other}) \in Nat
    BY <2>3, FS_Subset, FS_CardinalityType
  <2>5. QED
    BY <1>5, <1>7, <2>4 DEF RoomOnFile
<1>13. RecordsAreSound
  BY <1>8, <1>9, <1>10 DEF RecordsAreSound, Present
<1>14. \A id \in Id \ Synthetic : Present(id) => id = first \/ id = other
  BY <1>7, <1>10 DEF Present
<1>15. ChecksAreCurrent
  BY <1>11, <1>14 DEF ChecksAreCurrent
<1>16. TwinsAreSettled
  <2>1. ASSUME NEW s \in Id \ Synthetic, NEW t \in Id \ Synthetic, s # t,
               Present(s), Present(t), identity[s].checked = identity[t].checked
        PROVE  FALSE
    BY <1>5, <1>11, <1>14, <2>1
  <2>2. QED
    BY <2>1 DEF TwinsAreSettled
<1>17. QED
  BY <1>10, <1>11, <1>12, <1>13, <1>15, <1>16

(* It holds at first ...                                                   *)
LEMMA InitSound == Init => IInv
<1> SUFFICES ASSUME Init
             PROVE  IInv
  OBVIOUS
<1>1. /\ traffic \in DOMAIN Traffics /\ InitPortfolio /\ history = <<>> /\ holder = Nobody
      /\ call = [r \in Request |-> Unsent] /\ applied = [r \in Request |-> 0]
  BY DEF Init
<1>2. /\ cands \in [Id -> CandidateRecord \cup {Absent}]
      /\ identity \in [Id -> [product: Product, checked: Product \cup {Nobody}]]
      /\ RoomOnFile /\ RecordsAreSound /\ ChecksAreCurrent /\ TwinsAreSettled
  BY <1>1, PortfolioSound
<1>3. Unsent \in Call /\ Unsent.at = "idle" /\ Unsent.id = Nobody /\ Unsent.saw = Nobody
  BY DEF Unsent, Call
<1>4. \A r \in Request : call[r] = Unsent /\ applied[r] = 0 /\ ~Sent(r)
  BY <1>1, <1>3 DEF Sent
<1>5. Typed
  BY <1>1, <1>2, <1>3 DEF Typed
<1>6. History(history)
  BY <1>1, StoreAssumption DEF History
<1>7. CallsAreComposed
  BY <1>3, <1>4 DEF CallsAreComposed, OnCandidate
<1>8. LockIsHeld
  BY <1>1, <1>3, <1>4, StoreAssumption DEF LockIsHeld
<1>9. RevisionsGrow /\ EffectsAreKnown
  BY <1>4 DEF RevisionsGrow, EffectsAreKnown, OnCandidate
<1>10. QED
  BY <1>2, <1>5, <1>6, <1>7, <1>8, <1>9 DEF IInv

(* ... every step keeps it ...                                             *)
LEMMA NextSound == IInv /\ [Next]_vars => IInv'
<1> SUFFICES ASSUME IInv, [Next]_vars
             PROVE  IInv'
  OBVIOUS
<1>0. /\ Nobody \notin Request
      /\ \A r \in Request : holder = r <=> call[r].at = "assessing"
  BY StoreAssumption DEF IInv, LockIsHeld
<1>1. ASSUME NEW r \in Request, traffic' = traffic, Compose(r)
      PROVE  IInv'
  BY <1>1, ComposeKeeps
<1>2. ASSUME NEW r \in Request, traffic' = traffic, Resend(r)
      PROVE  IInv'
  <2>1. Sent(r) /\ holder # r /\ Reach(r, "sent") /\ UNCHANGED <<file, holder, applied>>
    BY <1>0, <1>2 DEF Resend, Sent
  <2>2. QED
    BY <1>2, <2>1, MoveKeeps
<1>3. ASSUME NEW r \in Request, traffic' = traffic, Dispatch(r)
      PROVE  IInv'
  <2>1. /\ Sent(r) /\ holder # r /\ (Reach(r, "routed") \/ Reach(r, "over"))
        /\ UNCHANGED <<file, holder, applied>>
    BY <1>0, <1>3 DEF Dispatch, Sent
  <2>2. QED
    BY <1>3, <2>1, MoveKeeps
<1>4. ASSUME NEW r \in Request, traffic' = traffic, Busy(r) \/ Replay(r) \/ Refuse(r)
      PROVE  IInv'
  <2>1. Sent(r) /\ holder # r /\ Reach(r, "over") /\ UNCHANGED <<file, holder, applied>>
    BY <1>0, <1>4 DEF Busy, Replay, Refuse, Enter, Sent
  <2>2. QED
    BY <1>4, <2>1, MoveKeeps
<1>5. ASSUME NEW r \in Request, traffic' = traffic, Apply(r)
      PROVE  IInv'
  BY <1>5, ApplyKeeps
<1>6. ASSUME NEW r \in Request, traffic' = traffic, Add(r)
      PROVE  IInv'
  BY <1>6, AddKeeps
<1>7. ASSUME NEW r \in Request, traffic' = traffic, Reset(r)
      PROVE  IInv'
  BY <1>7, ResetKeeps
<1>8. ASSUME NEW r \in Request, traffic' = traffic, Assess(r)
      PROVE  IInv'
  <2> DEFINE id0 == call[r].id
  <2>1. /\ call[r].at = "assessing" /\ Reach(r, "over") /\ holder' = Nobody /\ applied' = applied
        /\ history' \in {history, Recorded(history, r)}
        /\ \/ cands' = cands /\ identity' = identity /\ ~Reassessed(id0)
           \/ /\ cands' = [cands EXCEPT ![id0] = Assessed(cands[id0], AssessmentOf(id0))]
              /\ identity' = [identity EXCEPT ![id0].checked = identity[id0].product]
    BY <1>8 DEF Assess, file, IInv, Typed
  <2> HIDE DEF id0
  <2>2. QED
    BY <1>8, <2>1, SecondWriteKeeps DEF id0
<1>9. ASSUME NEW r \in Request, traffic' = traffic, AssessNew(r)
      PROVE  IInv'
  <2> DEFINE id0 == call[r].id
  <2>1. /\ call[r].at = "assessing" /\ Reach(r, "over") /\ holder' = Nobody /\ applied' = applied
        /\ history' = Recorded(history, r)
        /\ \/ /\ cands' = [cands EXCEPT ![id0] = Absent]
              /\ identity' = [identity EXCEPT ![id0] = Unchecked]
           \/ /\ cands' = [cands EXCEPT ![id0] = Assessed(cands[id0], AssessmentOf(id0))]
              /\ identity' = [identity EXCEPT ![id0].checked = identity[id0].product]
    BY <1>9 DEF AssessNew, IInv, Typed
  <2> HIDE DEF id0
  <2>2. QED
    BY <1>9, <2>1, SecondWriteKeeps DEF id0
<1>10. ASSUME NEW r \in Request, traffic' = traffic, Crash(r)
       PROVE  IInv'
  <2>1. /\ Sent(r) /\ Traffic.crashes /\ Reach(r, "over") /\ UNCHANGED <<file, applied>>
        /\ holder' = IF holder = r THEN Nobody ELSE holder
    BY <1>10 DEF Crash, Sent
  <2>2. QED
    BY <1>10, <2>1, MoveKeeps
<1>11. CASE UNCHANGED vars
  <2>1. /\ traffic' = traffic /\ cands' = cands /\ identity' = identity /\ history' = history
        /\ holder' = holder /\ call' = call /\ applied' = applied
    BY <1>11 DEF vars, file
  <2>2. Traffic' = Traffic /\ Call' = Call /\ \A command : Payload(command)' = Payload(command)
    BY <2>1, TrafficFixed, PayloadFixed
  <2>3. Typed' /\ RoomOnFile' /\ History(history') /\ RecordsAreSound' /\ CallsAreComposed'
    BY <2>1, <2>2 DEF IInv, Typed, RoomOnFile, PresentIds, Present, RecordsAreSound, Settled,
                      CallsAreComposed, Sent, OnCandidate
  <2>4. /\ LockIsHeld' /\ RevisionsGrow' /\ EffectsAreKnown' /\ ChecksAreCurrent'
        /\ TwinsAreSettled'
    BY <2>1, <2>2 DEF IInv, LockIsHeld, RevisionsGrow, EffectsAreKnown, ChecksAreCurrent,
                      TwinsAreSettled, Present, Known, Sent, OnCandidate, OnNone,
                      UnderAssessment, Settled
  <2>5. QED
    BY <2>1, <2>3, <2>4 DEF IInv
<1>12. QED
  BY <1>1, <1>2, <1>3, <1>4, <1>5, <1>6, <1>7, <1>8, <1>9, <1>10, <1>11 DEF Next

(* ... and so it always holds.                                             *)
LEMMA Soundness == Spec => []IInv
BY InitSound, NextSound, PTL DEF Spec

-----------------------------------------------------------------------------
(* Types, room in the file, a history within its limit and without         *)
(* repetition, and a lock that is held exactly between two writes, by the  *)
(* handler of a candidate on file.                                         *)
THEOREM TypeCorrect == Spec => []TypeOK
<1>1. ASSUME IInv
      PROVE  TypeOK
  <2>1. /\ \A id \in Id : Present(id) => cands[id] \in CandidateRecord
        /\ identity \in [Id -> [product: Product, checked: Product \cup {Nobody}]]
        /\ call \in [Request -> Call] /\ applied \in [Request -> 0..2]
    BY <1>1 DEF IInv, Typed, RecordsAreSound, Stored
  <2>2. /\ Cardinality({id \in Id : Present(id)}) <= CandidateLimit
        /\ Len(history) <= HistoryLimit
        /\ \A i, j \in DOMAIN history : history[i] = history[j] => i = j
    BY <1>1 DEF IInv, RoomOnFile, PresentIds, History
  <2>3. /\ \A r \in Request : holder = r <=> call[r].at = "assessing"
        /\ holder # Nobody => Present(call[holder].id)
    BY <1>1 DEF IInv, LockIsHeld
  <2>4. QED
    BY <2>1, <2>2, <2>3 DEF TypeOK
<1>2. QED
  BY <1>1, Soundness, PTL

(* No request takes effect twice, however often it is sent, whatever the   *)
(* history has forgotten of the commands on candidates and wherever a      *)
(* server dies (replayFromHistory and the compare-and-set together).       *)
THEOREM NoRequestAppliedTwice == Spec => []AppliedAtMostOnce
<1>1. IInv => AppliedAtMostOnce
  BY DEF IInv, EffectsAreKnown, AppliedAtMostOnce
<1>2. QED
  BY <1>1, Soundness, PTL

(* At rest every assessment is about the product the candidate has now,    *)
(* and of two of the same product one is settled as a duplicate, as long   *)
(* as no server dies and the owner rejects nothing.                        *)
THEOREM DuplicatesStayKnown == Spec => []DuplicatesAreKnown
<1>1. ASSUME IInv
      PROVE  DuplicatesAreKnown
  <2>1. AssessedAtRest
    BY <1>1 DEF IInv, ChecksAreCurrent, UnderAssessment, AssessedAtRest
  <2>2. TwinsAreCaught
    <3> SUFFICES ASSUME holder = Nobody, ~Traffic.crashes, "review_decision" \notin Traffic.issued,
                        NEW a \in Id \ Synthetic, NEW b \in Id \ Synthetic, a # b,
                        Present(a), Present(b),
                        identity[a].product = identity[b].product, identity[a].product # Vague
                 PROVE  Settled(a) \/ Settled(b)
      BY DEF TwinsAreCaught
    <3>1. /\ identity[a].checked = identity[a].product
          /\ identity[b].checked = identity[b].product
      BY <2>1 DEF AssessedAtRest
    <3>2. identity[a].product \in Product
      BY <1>1 DEF IInv, Typed
    <3>3. identity[a].checked \notin {Vague, Nobody}
      BY <3>1, <3>2, StoreAssumption DEF Product
    <3>4. QED
      BY <1>1, <3>1, <3>3 DEF IInv, TwinsAreSettled
  <2>3. QED
    BY <2>1, <2>2 DEF DuplicatesAreKnown
<1>2. QED
  BY <1>1, Soundness, PTL

(* Every record a reader of the file can meet, between the two writes of a *)
(* verification too, has a material revision that names its content, in    *)
(* order of derivation, and no pass or approval for another content.       *)
RecordsStand ==
    \A id \in Id : Present(id) =>
        /\ cands[id].material = Material(cands[id]) /\ DerivedInOrder(cands[id])
        /\ PassStands(cands[id]) /\ ApprovalStands(cands[id])

(* What is proved of one candidate holds of each in the store.             *)
THEOREM RecordsAlwaysStand == Spec => []RecordsStand
<1>1. IInv => RecordsStand
  BY DEF IInv, RecordsAreSound, Stored, Sound, RecordsStand
<1>2. QED
  BY <1>1, Soundness, PTL

-----------------------------------------------------------------------------
(* A step in which a command that names a candidate takes effect is its    *)
(* own Apply, and finds what its client saw.                               *)
LEMMA SeenWhenApplied ==
    ASSUME IInv, [Next]_vars, NEW r \in Request, TakesEffectNow(r), call[r].saw # Nobody,
           ~(call[r].id \in Synthetic /\ "reset_demo" \in Traffic.issued)
    PROVE  Present(call[r].id) /\ Material(cands[call[r].id]) = call[r].saw
<1>1. OnCandidate(r) /\ applied[r] \in 0..2
  BY DEF IInv, CallsAreComposed, Typed
<1>2. applied' # applied
  BY <1>1 DEF TakesEffectNow
<1>3. PICK s \in Request : Apply(s) \/ Add(s) \/ Reset(s)
  BY <1>2 DEF Next, vars, Compose, Resend, Dispatch, Busy, Replay, Refuse,
              Assess, AssessNew, Crash
<1>4. TakesEffect(s)
  BY <1>3 DEF Apply, Add, Reset
<1>5. s = r
  <2>1. s # r => applied'[r] = 0 \/ applied'[r] = applied[r]
    BY <1>4 DEF TakesEffect
  <2>2. QED
    BY <1>1, <2>1 DEF TakesEffectNow
<1>6. Apply(r)
  BY <1>1, <1>3, <1>5 DEF Add, Reset, OnCandidate, OnNoCandidate
<1>7. /\ Present(call[r].id)
      /\ cands[call[r].id].revision = call[r].expected
  BY <1>6 DEF Apply, Acceptable
<1>8. QED
  BY <1>1, <1>7 DEF IInv, RevisionsGrow

(* A command takes effect only on the content its sender was shown: equal  *)
(* revisions mean equal content, so the compare-and-set under the lock     *)
(* makes up for the unlocked reads before it.                              *)
THEOREM AppliedOnWhatWasSeen == Spec => OnlyOnWhatWasSeen
<1>1. IInv /\ [Next]_vars =>
        [\A r \in Request :
          TakesEffectNow(r) /\ call[r].saw # Nobody
              /\ ~(call[r].id \in Synthetic /\ "reset_demo" \in Traffic.issued) =>
              Present(call[r].id) /\ Material(cands[call[r].id]) = call[r].saw]_vars
  BY SeenWhenApplied
<1>2. QED
  BY <1>1, Soundness, PTL DEF Spec, OnlyOnWhatWasSeen

-----------------------------------------------------------------------------
(* The composition.                                                        *)

(* A candidate no handler is at work on is at rest as it is on file.       *)
LEMMA RestOnFile ==
    ASSUME NEW id
    PROVE  /\ ~UnderAssessment(id) => AtRest(id) = cands[id]
           /\ ~UnderAssessment(id)' => AtRest(id)' = cands'[id]
<1>1. ~UnderAssessment(id) => AtRest(id) = cands[id]
  BY DEF UnderAssessment, AtRest
<1>2. ~UnderAssessment(id)' => AtRest(id)' = cands'[id]
  BY DEF UnderAssessment, AtRest
<1>3. QED
  BY <1>1, <1>2

(* The other one is what its handler's second write will make of it.       *)
LEMMA RestAfterVerification ==
    ASSUME NEW id
    PROVE  /\ UnderAssessment(id) /\ call[holder].command = "request_verification" =>
                 AtRest(id) = IF Reassessed(id) THEN Assessed(cands[id], AssessmentOf(id)) ELSE cands[id]
           /\ UnderAssessment(id)' /\ call'[holder'].command = "request_verification" =>
                 AtRest(id)' = IF Reassessed(id)' THEN Assessed(cands'[id], AssessmentOf(id)')
                               ELSE cands'[id]
<1>1. UnderAssessment(id) /\ call[holder].command = "request_verification" =>
         AtRest(id) = IF Reassessed(id) THEN Assessed(cands[id], AssessmentOf(id)) ELSE cands[id]
  BY DEF UnderAssessment, AtRest
<1>2. UnderAssessment(id)' /\ call'[holder'].command = "request_verification" =>
         AtRest(id)' = IF Reassessed(id)' THEN Assessed(cands'[id], AssessmentOf(id)') ELSE cands'[id]
  BY DEF UnderAssessment, AtRest
<1>3. QED
  BY <1>1, <1>2

(* The same of an addition.                                                *)
LEMMA RestAfterAddition ==
    ASSUME NEW id
    PROVE  /\ UnderAssessment(id) /\ call[holder].command = "add_manual_candidate" =>
                 AtRest(id) = IF AssessmentOf(id) = "exact" THEN Absent
                              ELSE Assessed(cands[id], AssessmentOf(id))
           /\ UnderAssessment(id)' /\ call'[holder'].command = "add_manual_candidate" =>
                 AtRest(id)' = IF AssessmentOf(id)' = "exact" THEN Absent
                               ELSE Assessed(cands'[id], AssessmentOf(id)')
<1>1. UnderAssessment(id) /\ call[holder].command = "add_manual_candidate" =>
         AtRest(id) = IF AssessmentOf(id) = "exact" THEN Absent
                      ELSE Assessed(cands[id], AssessmentOf(id))
  BY DEF UnderAssessment, AtRest
<1>2. UnderAssessment(id)' /\ call'[holder'].command = "add_manual_candidate" =>
         AtRest(id)' = IF AssessmentOf(id)' = "exact" THEN Absent
                       ELSE Assessed(cands'[id], AssessmentOf(id)')
  BY DEF UnderAssessment, AtRest
<1>3. QED
  BY <1>1, <1>2

(* What happens around the file and the lock leaves every candidate where  *)
(* it is.                                                                  *)
LEMMA RestKept ==
    ASSUME NEW id, cands' = cands, identity' = identity, holder' = holder,
           holder # Nobody => /\ call'[holder].id = call[holder].id
                              /\ call'[holder].command = call[holder].command
    PROVE  AtRest(id)' = AtRest(id)
<1>1. AssessmentOf(id)' = AssessmentOf(id) /\ (Reassessed(id)' <=> Reassessed(id))
  BY DEF AssessmentOf, Reassessed, EligibleTarget, Present
<1>2. QED
  BY <1>1 DEF AtRest

(* The instance of the single-candidate workflow computes with the store's *)
(* own operators, its Candidate having the same constants.  First what     *)
(* those share ...                                                         *)
LEMMA SameNulls ==
    ASSUME NEW id
    PROVE  /\ Workflow(id)!NoPacket = NoPacket /\ Workflow(id)!NoStrategies = NoStrategies
           /\ Workflow(id)!NoDrafts = NoDrafts /\ Workflow(id)!NoMaterial = NoMaterial
           /\ Workflow(id)!NoReview = NoReview /\ Workflow(id)!NoGuardian = NoGuardian
           /\ Workflow(id)!Text = Text /\ Workflow(id)!Terms = Terms
           /\ Workflow(id)!Identity = Identity /\ Workflow(id)!ReviewDecision = ReviewDecision
           /\ \A x : Workflow(id)!Material(x) = Material(x)
           /\ \A x : Workflow(id)!FreshApproval(x) = FreshApproval(x)
           /\ \A x : Workflow(id)!Bump(x) = Bump(x)
           /\ \A x : Workflow(id)!HasDrafts(x) = HasDrafts(x)
BY DEF NoPacket, NoStrategies, NoDrafts, NoMaterial, NoReview, NoGuardian, Text, Terms, Identity,
       ReviewDecision, Material, FreshApproval, Bump, HasDrafts,
       Workflow!NoPacket, Workflow!NoStrategies, Workflow!NoDrafts, Workflow!NoMaterial,
       Workflow!NoReview, Workflow!NoGuardian, Workflow!Text, Workflow!Terms, Workflow!Identity,
       Workflow!ReviewDecision, Workflow!Material, Workflow!FreshApproval, Workflow!Bump,
       Workflow!HasDrafts

(* ... then the stale mark,                                                *)
LEMMA SameDrop ==
    ASSUME NEW id, NEW x, NEW w
    PROVE  Workflow(id)!DropReview(x, w) = DropReview(x, w)
BY SameNulls DEF DropReview, Workflow!DropReview

(* the duplicate assessment,                                               *)
LEMMA SameAssessment ==
    ASSUME NEW id, NEW x, NEW a
    PROVE  /\ Workflow(id)!Assessment(x) = Assessment(x)
           /\ Workflow(id)!Assessed(x, a) = Assessed(x, a)
           /\ Workflow(id)!NewCandidate(x, a) = NewCandidate(x, a)
<1>1. Workflow(id)!Assessment(x) = Assessment(x)
  BY DEF Assessment, Workflow!Assessment
<1>2. Workflow(id)!Assessed(x, a) = Assessed(x, a)
  BY DEF Assessed, Workflow!Assessed
<1>3. Workflow(id)!NewCandidate(x, a) = NewCandidate(x, a)
  BY SameNulls DEF NewCandidate, Workflow!NewCandidate
<1>4. QED
  BY <1>1, <1>2, <1>3

(* the Verifier's decisions,                                               *)
LEMMA SameVerified ==
    ASSUME NEW id, NEW x, NEW i, NEW t
    PROVE  /\ Workflow(id)!MatchState(i) = MatchState(i)
           /\ Workflow(id)!VerifierDecision(x, t) = VerifierDecision(x, t)
           /\ Workflow(id)!Readiness(x, t) = Readiness(x, t)
           /\ Workflow(id)!Risk(x, t) = Risk(x, t)
<1>1. Workflow(id)!MatchState(i) = MatchState(i)
  BY DEF MatchState, Workflow!MatchState
<1>2. Workflow(id)!VerifierDecision(x, t) = VerifierDecision(x, t)
  BY DEF VerifierDecision, Workflow!VerifierDecision
<1>3. Workflow(id)!Readiness(x, t) = Readiness(x, t)
  BY DEF Readiness, Workflow!Readiness
<1>4. Workflow(id)!Risk(x, t) = Risk(x, t)
  BY DEF Risk, Workflow!Risk
<1>5. QED
  BY <1>1, <1>2, <1>3, <1>4

(* the invalidation,                                                       *)
LEMMA SameInvalidate ==
    ASSUME NEW id, NEW x, NEW s
    PROVE  /\ Workflow(id)!InvalidateDownstream(x, s) = InvalidateDownstream(x, s)
<1>1. Workflow(id)!InvalidateDownstream(x, s) = InvalidateDownstream(x, s)
  BY SameNulls, SameDrop DEF InvalidateDownstream, Workflow!InvalidateDownstream
<1>2. QED
  BY <1>1

(* the verification,                                                       *)
LEMMA SameVerification ==
    ASSUME NEW id, NEW x, NEW i, NEW t
    PROVE  /\ Workflow(id)!Verified(x, i, t) = Verified(x, i, t)
<1> DEFINE m == MatchState(i)
           K(v, d, k) == [x EXCEPT !.terms = t, !.match = m, !.verifier = v,
                                   !.readiness = d, !.risk = k,
                                   !.evidence = [observedAt |-> x.revision + 1,
                                                 claims |-> IF i.missing # "all" /\ i.origins > 0
                                                            THEN {"claim-identity"} ELSE {}]]
           known == K(VerifierDecision(m, t), Readiness(m, t), Risk(m, t))
           Y(cleared) == [cleared EXCEPT !.workflow =
                             IF FreshApproval(x) THEN cleared.workflow
                             ELSE IF known.readiness = "ready" THEN "evidence_ready"
                             ELSE "evidence_partial"]
<1>1. /\ Workflow(id)!MatchState(i) = m
      /\ Workflow(id)!VerifierDecision(m, t) = VerifierDecision(m, t)
      /\ Workflow(id)!Readiness(m, t) = Readiness(m, t) /\ Workflow(id)!Risk(m, t) = Risk(m, t)
  BY SameVerified
<1>2. /\ Workflow(id)!NoStrategies = NoStrategies
      /\ Workflow(id)!FreshApproval(x) = FreshApproval(x)
      /\ \A y : Workflow(id)!Bump(y) = Bump(y)
  BY SameNulls
<1>3. Workflow(id)!InvalidateDownstream(known, NoStrategies)
         = InvalidateDownstream(known, NoStrategies)
  BY SameInvalidate
<1>4. Verified(x, i, t) = Bump(Y(InvalidateDownstream(known, NoStrategies)))
  BY DEF Verified
<1>5. Workflow(id)!Verified(x, i, t)
         = Workflow(id)!Bump(Y(Workflow(id)!InvalidateDownstream(known, NoStrategies)))
  <2> HIDE DEF m
  <2>1. QED
    BY <1>1, <1>2 DEF Workflow!Verified
<1>6. QED
  BY <1>2, <1>3, <1>4, <1>5

(* the Strategist,                                                         *)
LEMMA SamePlanned ==
    ASSUME NEW id, NEW x
    PROVE  /\ Workflow(id)!StrategiesAllowed(x) <=> StrategiesAllowed(x)
           /\ Workflow(id)!WithStrategies(x) = WithStrategies(x)
<1>1. Workflow(id)!StrategiesAllowed(x) <=> StrategiesAllowed(x)
  BY DEF StrategiesAllowed, Workflow!StrategiesAllowed
<1>2. Workflow(id)!WithStrategies(x) = WithStrategies(x)
  BY SameNulls, SameInvalidate DEF WithStrategies, Workflow!WithStrategies
<1>3. QED
  BY <1>1, <1>2

(* the Writer and the editor,                                              *)
LEMMA SameWritten ==
    ASSUME NEW id, NEW x, NEW d, NEW t
    PROVE  /\ Workflow(id)!DraftsAllowed(x) <=> DraftsAllowed(x)
           /\ Workflow(id)!Written(x) = Written(x)
           /\ Workflow(id)!WithDrafts(x) = WithDrafts(x)
           /\ Workflow(id)!DraftEdited(x, d, t) = DraftEdited(x, d, t)
<1>1. Workflow(id)!DraftsAllowed(x) <=> DraftsAllowed(x)
  BY SameNulls DEF DraftsAllowed, Workflow!DraftsAllowed
<1>2. Workflow(id)!Written(x) = Written(x)
  BY DEF Written, Workflow!Written
<1>3. Workflow(id)!WithDrafts(x) = WithDrafts(x)
  BY <1>2, SameNulls, SameDrop DEF WithDrafts, Workflow!WithDrafts
<1>4. Workflow(id)!DraftEdited(x, d, t) = DraftEdited(x, d, t)
  BY SameNulls, SameDrop DEF DraftEdited, Workflow!DraftEdited
<1>5. QED
  BY <1>1, <1>2, <1>3, <1>4

(* the Guardian,                                                           *)
LEMMA SameJudged ==
    ASSUME NEW id, NEW x
    PROVE  /\ Workflow(id)!Flagged(x) <=> Flagged(x)
           /\ Workflow(id)!NeedsRevision(x) <=> NeedsRevision(x)
           /\ Workflow(id)!GuardianDecision(x) = GuardianDecision(x)
           /\ Workflow(id)!GuardianRun(x) = GuardianRun(x)
<1>1. Workflow(id)!Flagged(x) <=> Flagged(x)
  BY DEF Flagged, Workflow!Flagged
<1>2. Workflow(id)!NeedsRevision(x) <=> NeedsRevision(x)
  BY DEF NeedsRevision, Workflow!NeedsRevision
<1>3. Workflow(id)!GuardianDecision(x) = GuardianDecision(x)
  BY <1>1, <1>2 DEF GuardianDecision, Workflow!GuardianDecision
<1>4. Workflow(id)!GuardianRun(x) = GuardianRun(x)
  BY <1>3, SameNulls DEF GuardianRun, Workflow!GuardianRun, GuardianState, Workflow!GuardianState
<1>5. QED
  BY <1>1, <1>2, <1>3, <1>4

(* and the owner.                                                          *)
LEMMA SameDecided ==
    ASSUME NEW id, NEW x, NEW d
    PROVE  /\ Workflow(id)!ReviewAllowed(x, d) <=> ReviewAllowed(x, d)
           /\ Workflow(id)!Reviewed(x, d) = Reviewed(x, d)
           /\ Workflow(id)!PendingDuplicate(x) <=> PendingDuplicate(x)
           /\ Workflow(id)!DuplicateResolved(x, d) = DuplicateResolved(x, d)
<1>1. Workflow(id)!ReviewAllowed(x, d) <=> ReviewAllowed(x, d)
  BY DEF ReviewAllowed, Workflow!ReviewAllowed
<1>2. Workflow(id)!Reviewed(x, d) = Reviewed(x, d)
  BY SameNulls DEF Reviewed, Workflow!Reviewed
<1>3. Workflow(id)!PendingDuplicate(x) <=> PendingDuplicate(x)
  BY DEF PendingDuplicate, Workflow!PendingDuplicate
<1>4. Workflow(id)!DuplicateResolved(x, d) = DuplicateResolved(x, d)
  BY DEF DuplicateResolved, Workflow!DuplicateResolved
<1>5. QED
  BY <1>1, <1>2, <1>3, <1>4

(* A handler's own step is a command of the single-candidate workflow.     *)
LEMMA HandledIsCommand ==
    ASSUME NEW id, NEW q, Fits(q), q.command # "request_verification",
           HandlerAllows(q, AtRest(id)), AtRest(id)' = Handled(q, AtRest(id))
    PROVE  Workflow(id)!AnyCommand
<1>1. CASE q.command = "request_strategies"
  <2>1. StrategiesAllowed(AtRest(id)) /\ AtRest(id)' = WithStrategies(AtRest(id))
    BY <1>1 DEF HandlerAllows, Handled
  <2>2. QED
    BY <2>1, SamePlanned DEF Workflow!AnyCommand, Workflow!RequestStrategies, Workflow!MayRun
<1>2. CASE q.command = "request_drafts"
  <2>1. DraftsAllowed(AtRest(id)) /\ AtRest(id)' = WithDrafts(AtRest(id))
    BY <1>2 DEF HandlerAllows, Handled
  <2>2. QED
    BY <2>1, SameWritten DEF Workflow!AnyCommand, Workflow!RequestDrafts, Workflow!MayRun
<1>3. CASE q.command = "run_guardian"
  <2>1. HasDrafts(AtRest(id)) /\ AtRest(id)' = GuardianRun(AtRest(id))
    BY <1>3 DEF HandlerAllows, Handled
  <2>2. QED
    BY <2>1, SameNulls, SameJudged DEF Workflow!AnyCommand, Workflow!RunGuardian, Workflow!MayRun
<1>4. CASE q.command = "edit_draft"
  <2>1. /\ HasDrafts(AtRest(id)) /\ AtRest(id)' = DraftEdited(AtRest(id), FirstDraft, q.payload)
        /\ FirstDraft \in Draft /\ q.payload \in Text
    BY <1>4, DraftAssumption DEF HandlerAllows, Handled, Fits
  <2>2. QED
    BY <2>1, SameNulls, SameWritten DEF Workflow!AnyCommand, Workflow!EditDraft
<1>5. CASE q.command = "review_decision"
  <2>1. /\ AtRest(id).workflow # "duplicate_review" /\ ReviewAllowed(AtRest(id), q.payload)
        /\ q.payload \in ReviewDecision /\ AtRest(id)' = Reviewed(AtRest(id), q.payload)
    BY <1>5 DEF HandlerAllows, Handled, Fits, NotUnderReview
  <2>2. QED
    BY <2>1, SameNulls, SameDecided DEF Workflow!AnyCommand, Workflow!RecordReviewDecision
<1>6. CASE q.command = "resolve_duplicate"
  <2>1. /\ PendingDuplicate(AtRest(id)) /\ q.payload \in {"distinct", "duplicate"}
        /\ AtRest(id)' = DuplicateResolved(AtRest(id), q.payload)
    BY <1>6 DEF HandlerAllows, Handled, Fits
  <2>2. QED
    BY <2>1, SameDecided DEF Workflow!AnyCommand, Workflow!ResolveDuplicate
<1>7. QED
  BY <1>1, <1>2, <1>3, <1>4, <1>5, <1>6 DEF Fits, Command, Specialist, OnNoCandidate

(* A verification and the assessment that is due on it are one command of  *)
(* the workflow, with the assessment the other candidates make.            *)
LEMMA VerificationIsCommand ==
    ASSUME NEW id, NEW p, NEW v, v = Verified(AtRest(id), Evidence(p), Cleared),
           \/ \E a \in {"unique", "possible", "exact"} : AtRest(id)' = Assessed(v, a)
           \/ AtRest(id)' = v /\ AtRest(id).dup = "confirmed_distinct"
    PROVE  Workflow(id)!AnyCommand
<1>1. PICK a \in Assessment(AtRest(id)) : AtRest(id)' = Assessed(v, a)
  <2>1. CASE \E a \in {"unique", "possible", "exact"} : AtRest(id)' = Assessed(v, a)
    BY <2>1 DEF Assessment
  <2>2. CASE AtRest(id)' = v /\ AtRest(id).dup = "confirmed_distinct"
    <3>1. "kept" \in Assessment(AtRest(id))
      BY <2>2 DEF Assessment
    <3>2. Assessed(v, "kept") = v
      BY DEF Assessed
    <3>3. QED
      BY <2>2, <3>1, <3>2
  <2>3. QED
    BY <2>1, <2>2
<1>2. Evidence(p) \in Workflow(id)!Identity /\ Cleared \in Workflow(id)!Terms
  BY EvidenceFacts, SameNulls
<1>3. /\ Workflow(id)!Assessment(AtRest(id)) = Assessment(AtRest(id))
      /\ Workflow(id)!Assessed(v, a) = Assessed(v, a)
      /\ Workflow(id)!Verified(AtRest(id), Evidence(p), Cleared) = v
  BY SameAssessment, SameVerification
<1>4. Workflow(id)!RequestVerification
  BY <1>1, <1>2, <1>3 DEF Workflow!RequestVerification, Workflow!MayRun
<1>5. QED
  BY <1>4 DEF Workflow!AnyCommand

(* A command applied to a candidate is one of its workflow, and moves no   *)
(* other.                                                                  *)
LEMMA ApplyRuns ==
    ASSUME IInv, NEW r \in Request, Apply(r), traffic' = traffic, NEW id \in Id,
           AtRest(id)' # AtRest(id)
    PROVE  AtRest(id) # Absent /\ Workflow(id)!AnyCommand
<1> DEFINE q == call[r]
           x == cands[q.id]
           y == Handled(q, x)
           step == IF q.command = "request_verification" THEN "assessing" ELSE "over"
<1> USE DEF IInv
<1>1. /\ q.at = "routed" /\ holder = Nobody /\ q.command \notin OnNoCandidate
      /\ Present(q.id) /\ HandlerAllows(q, x) /\ OnCandidate(r) /\ Sent(r)
      /\ cands' = [cands EXCEPT ![q.id] = y]
      /\ Reach(r, step)
      /\ q.command = "request_verification" => holder' = r
      /\ q.command # "request_verification" => holder' = Nobody
  BY DEF Apply, Enter, Acceptable, OnCandidate, Sent
<1>2. /\ step \in {"sent", "routed", "assessing", "over"} /\ call \in [Request -> Call]
      /\ Fits(q) /\ Nobody \notin Request
  BY <1>1, CallFits, StoreAssumption DEF Typed
<1>3. call'[r].id = q.id /\ call'[r].command = q.command
  BY <1>1, <1>2, ReachFacts
<1>4. AtRest(id) = cands[id]
  BY <1>1, RestOnFile DEF UnderAssessment
<1>5. id = q.id
  <2> SUFFICES ASSUME id # q.id
               PROVE  FALSE
    OBVIOUS
  <2>1. ~UnderAssessment(id)'
    BY <1>1, <1>3 DEF UnderAssessment
  <2>2. AtRest(id)' = cands'[id]
    BY <2>1, RestOnFile
  <2>3. QED
    BY <1>1, <1>4, <2>2 DEF Typed
<1>6. AtRest(id) = x /\ AtRest(id) # Absent /\ cands'[id] = y
  BY <1>1, <1>4, <1>5 DEF Present, Typed
<1>7. CASE q.command # "request_verification"
  <2>1. AtRest(id)' = y
    BY <1>1, <1>6, <1>7, RestOnFile DEF UnderAssessment
  <2>2. HandlerAllows(q, AtRest(id)) /\ AtRest(id)' = Handled(q, AtRest(id))
    BY <1>1, <1>6, <2>1
  <2>3. QED
    BY <1>2, <1>6, <1>7, <2>2, HandledIsCommand
<1>8. CASE q.command = "request_verification"
  <2>1. y = Verified(x, Evidence(q.payload), Cleared)
    BY <1>8 DEF Handled
  <2>2. UnderAssessment(id)' /\ call'[holder'].command = "request_verification"
    BY <1>1, <1>2, <1>3, <1>5, <1>8 DEF UnderAssessment
  <2>3. AtRest(id)' = IF Reassessed(id)' THEN Assessed(y, AssessmentOf(id)') ELSE y
    BY <1>6, <2>2, RestAfterVerification
  <2>4. AssessmentOf(id)' \in {"unique", "possible", "exact"}
    BY DEF AssessmentOf
  <2>5. ~Reassessed(id)' => x.dup = "confirmed_distinct"
    <3>1. ~Reassessed(id)' => y.dup = "confirmed_distinct"
      BY <1>6 DEF Reassessed
    <3>2. y.dup = x.dup
      BY <1>1, <1>2, <1>5, <1>8, HandledFacts DEF RecordsAreSound
    <3>3. QED
      BY <3>1, <3>2
  <2> HIDE DEF y, x, q
  <2>6. QED
    BY <1>6, <2>1, <2>3, <2>4, <2>5, VerificationIsCommand
<1>9. QED
  BY <1>6, <1>7, <1>8

(* An addition begins the workflow of its candidate, with an assessment    *)
(* under which a new candidate is kept, and may take the oldest away.      *)
LEMMA AddRuns ==
    ASSUME IInv, NEW r \in Request, Add(r), NEW id \in Id,
           AtRest(id)' \notin {Absent, AtRest(id)}
    PROVE  AtRest(id) = Absent /\ Workflow(id)!Added'
<1> USE DEF IInv
<1>1. /\ call[r].at = "routed" /\ holder = Nobody /\ call[r].command = "add_manual_candidate"
      /\ holder' = r /\ Nobody \notin Request
  BY StoreAssumption DEF Add, Enter
<1>2. PICK new \in Id : \E oldest \in GivesWay \cup {new} :
          /\ Fresh(new)
          /\ cands' = [cands EXCEPT ![oldest] = Absent, ![new] = Created]
          /\ call' = [call EXCEPT ![r].at = "assessing", ![r].id = new]
  BY DEF Add, Created
<1>3. PICK oldest \in GivesWay \cup {new} :
          /\ Fresh(new)
          /\ cands' = [cands EXCEPT ![oldest] = Absent, ![new] = Created]
          /\ call' = [call EXCEPT ![r].at = "assessing", ![r].id = new]
  BY <1>2
<1>4. call'[r].id = new /\ call'[r].command = "add_manual_candidate"
  <2> DEFINE q == [call[r] EXCEPT !.at = "assessing", !.id = new]
  <2>1. call[r] \in Call
    BY DEF Typed
  <2>2. q.id = new /\ q.command = call[r].command
    BY <2>1 DEF Call
  <2>3. call' = [call EXCEPT ![r] = q]
    BY <1>3 DEF Typed
  <2> HIDE DEF q
  <2>4. QED
    BY <1>1, <2>2, <2>3 DEF Typed
<1>5. AtRest(id) = cands[id]
  BY <1>1, RestOnFile DEF UnderAssessment
<1>6. id = new
  <2> SUFFICES ASSUME id # new
               PROVE  FALSE
    OBVIOUS
  <2>1. ~UnderAssessment(id)'
    BY <1>1, <1>4 DEF UnderAssessment
  <2>2. AtRest(id)' = cands'[id]
    BY <2>1, RestOnFile
  <2>3. cands'[id] = Absent \/ cands'[id] = cands[id]
    BY <1>3 DEF Typed
  <2>4. QED
    BY <1>5, <2>2, <2>3
<1>7. AtRest(id) = Absent /\ cands'[id] = Created
  BY <1>3, <1>5, <1>6 DEF Fresh, Present, Typed
<1>8. UnderAssessment(id)' /\ call'[holder'].command = "add_manual_candidate"
  BY <1>1, <1>4, <1>6 DEF UnderAssessment
<1>9. AtRest(id)' = IF AssessmentOf(id)' = "exact" THEN Absent
                    ELSE Assessed(Created, AssessmentOf(id)')
  BY <1>7, <1>8, RestAfterAddition
<1>10. PICK a \in {"unique", "possible"} : AtRest(id)' = Assessed(Created, a)
  BY <1>9 DEF AssessmentOf
<1>11. /\ Workflow(id)!Assessed(Created, a) = Assessed(Created, a)
       /\ Workflow(id)!NewCandidate("clean", Cleared) = Created
       /\ "clean" \in Workflow(id)!Text /\ Cleared \in Workflow(id)!Terms
  BY SameAssessment, SameNulls, EvidenceFacts DEF Created, Text
<1>12. Workflow(id)!Added'
  BY <1>10, <1>11 DEF Workflow!Added
<1>13. QED
  BY <1>7, <1>12

(* The second write brings a candidate to where it was at rest.            *)
LEMMA SecondWriteRests ==
    ASSUME IInv, NEW r \in Request, Assess(r) \/ AssessNew(r), NEW id \in Id
    PROVE  AtRest(id)' = AtRest(id)
<1> USE DEF IInv
<1>1. /\ holder = r /\ holder # Nobody /\ holder' = Nobody
      /\ call[r].id \in Id
  BY StoreAssumption DEF LockIsHeld, Assess, AssessNew
<1>2. AtRest(id)' = cands'[id]
  BY <1>1, RestOnFile DEF UnderAssessment
<1>3. CASE id # call[r].id
  <2>1. cands'[id] = cands[id]
    BY <1>3 DEF Assess, AssessNew, file, Typed
  <2>2. AtRest(id) = cands[id]
    BY <1>1, <1>3, RestOnFile DEF UnderAssessment
  <2>3. QED
    BY <1>2, <2>1, <2>2
<1>4. CASE id = call[r].id /\ Assess(r)
  <2>1. cands'[id] = IF Reassessed(id) THEN Assessed(cands[id], AssessmentOf(id)) ELSE cands[id]
    BY <1>4 DEF Assess, file, Typed
  <2>2. UnderAssessment(id) /\ call[holder].command = "request_verification"
    BY <1>1, <1>4 DEF Assess, UnderAssessment
  <2>3. QED
    BY <1>2, <2>1, <2>2, RestAfterVerification
<1>5. CASE id = call[r].id /\ AssessNew(r)
  <2>1. cands'[id] = IF AssessmentOf(id) = "exact" THEN Absent
                     ELSE Assessed(cands[id], AssessmentOf(id))
    BY <1>5 DEF AssessNew, Typed
  <2>2. UnderAssessment(id) /\ call[holder].command = "add_manual_candidate"
    BY <1>1, <1>5 DEF AssessNew, UnderAssessment
  <2>3. QED
    BY <1>2, <2>1, <2>2, RestAfterAddition
<1>6. QED
  BY <1>3, <1>4, <1>5

(* A request that moves on without the file or the lock leaves every       *)
(* candidate at rest where it is.                                          *)
LEMMA MoveRests ==
    ASSUME IInv, NEW r \in Request, NEW id, traffic' = traffic,
           \/ Compose(r) \/ Resend(r) \/ Dispatch(r)
           \/ Busy(r) \/ Replay(r) \/ Refuse(r)
           \/ Crash(r) /\ ~CrashNow
    PROVE  AtRest(id)' = AtRest(id)
<1> USE DEF IInv
<1>1. cands' = cands /\ identity' = identity
  BY DEF file, Compose, Resend, Dispatch, Busy, Replay, Refuse, Crash
<1>2. \A s \in Request : holder = s <=> call[s].at = "assessing"
  BY DEF LockIsHeld
<1>3. holder # r /\ r # Nobody
  BY <1>2, StoreAssumption
     DEF Compose, Resend, Dispatch, Busy, Replay, Refuse, Enter, CrashNow
<1>4. holder' = holder
  BY <1>3 DEF Compose, Resend, Dispatch, Busy, Replay, Refuse, Crash
<1>5. \A s \in Request : s # r => call'[s] = call[s]
  <2>1. \/ \E q : call' = [call EXCEPT ![r] = q]
        \/ \E step : Reach(r, step)
    BY DEF Compose, Resend, Dispatch, Busy, Replay, Refuse, Crash
  <2>2. QED
    BY <2>1 DEF Reach, Typed
<1>6. QED
  BY <1>1, <1>3, <1>4, <1>5, RestKept DEF Typed

(* Every candidate in the store begins and moves, at rest, as the          *)
(* single-candidate workflow says.                                         *)
LEMMA StepRuns ==
    ASSUME IInv, Next
    PROVE  RunsTheWorkflow
<1> SUFFICES ASSUME NEW id \in Id, AtRest(id)' \notin {Absent, AtRest(id)}, ~ResetNow, ~CrashNow
             PROVE  IF AtRest(id) = Absent THEN Workflow(id)!Added' ELSE Workflow(id)!AnyCommand
  BY DEF RunsTheWorkflow
<1>1. PICK r \in Request :
        \/ Compose(r) \/ Resend(r) \/ Dispatch(r)
        \/ Busy(r) \/ Replay(r) \/ Apply(r) \/ Refuse(r)
        \/ Add(r) \/ Reset(r)
        \/ Assess(r) \/ AssessNew(r)
        \/ Crash(r)
  BY DEF Next
<1>2. traffic' = traffic
  BY DEF Next
<1>3. ~Reset(r)
  <2> SUFFICES ASSUME Reset(r)
               PROVE  ResetNow
    OBVIOUS
  <2>1. /\ call[r].command = "reset_demo" /\ OnNone(r) /\ ~Known(r) /\ TakesEffect(r)
    BY DEF Reset, Enter, OnNone, OnNoCandidate, Sent
  <2>2. applied[r] = 0 /\ applied \in [Request -> 0..2]
    BY <2>1 DEF IInv, EffectsAreKnown, Typed
  <2>3. applied'[r] = 1
    BY <2>1, <2>2 DEF TakesEffect
  <2>4. QED
    BY <2>1, <2>2, <2>3 DEF ResetNow, TakesEffectNow
<1>4. CASE Apply(r)
  BY <1>2, <1>4, ApplyRuns
<1>5. CASE Add(r)
  BY <1>5, AddRuns
<1>6. CASE Assess(r) \/ AssessNew(r)
  BY <1>6, SecondWriteRests
<1>7. CASE \/ Compose(r) \/ Resend(r) \/ Dispatch(r)
           \/ Busy(r) \/ Replay(r) \/ Refuse(r)
           \/ Crash(r)
  BY <1>2, <1>7, MoveRests
<1>8. QED
  BY <1>1, <1>3, <1>4, <1>5, <1>6, <1>7

(* The composition: whatever requests, crashes and other candidates do,    *)
(* each candidate at rest takes only steps of the workflow of one          *)
(* candidate, so that module's theorems speak of this store.               *)
THEOREM EachCandidateRunsTheWorkflow ==
    Spec => StoreRunsTheWorkflow /\ CommandsRunTheWorkflow
<1>1. IInv /\ [Next]_vars =>
        /\ [RunsTheWorkflow]_vars
        /\ [Traffic.crashes => RunsTheWorkflow]_<<file, holder>>
  BY StepRuns DEF vars
<1>2. QED
  BY <1>1, Soundness, PTL DEF Spec, StoreRunsTheWorkflow, CommandsRunTheWorkflow
=============================================================================
