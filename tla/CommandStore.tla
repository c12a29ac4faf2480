------------------------------ MODULE CommandStore ------------------------------
(***************************************************************************)
(* Commands on their way from a client to the state file                   *)
(* (manual-orchestrator.mjs over candidate-dedupe-store.mjs over           *)
(* application-state.mjs).                                                 *)
(*                                                                         *)
(* A client composes a request from what it was shown.  The Orchestrator   *)
(* judges it on a read that takes no lock.  The store then works under the *)
(* lock (LockedStore; here at most one holder): it answers a known request *)
(* from the history, or checks the expected revision and applies the       *)
(* command.  A verification and an addition write the file twice, first    *)
(* with the command applied and then with the duplicate assessment; a read *)
(* or a crash can fall between the two.                                    *)
(***************************************************************************)
EXTENDS Candidate, Sequences, FiniteSets

CONSTANTS
    Id,            \* candidate ids; bounds the number of additions
    Synthetic,     \* the ids of the demo candidates seeded ready
    Absent,        \* no candidate of that id
    Complete,      \* product identities with brand, model and variant
    Vague,         \* the identity of the same name with a dimension missing
    Request,       \* request ids
    Nobody,
    HistoryLimit,  \* MAX_COMMAND_HISTORY
    CandidateLimit,\* how many candidates the file keeps, 50
    Traffics       \* the kinds of traffic a behaviour may have, by name

(* Of each: the commands that clients issue, in how many requests and      *)
(* about which products, whether server processes die during a call, and   *)
(* which demo candidates there may be.                                     *)
ASSUME StoreAssumption ==
    /\ Synthetic \subseteq Id /\ Vague \notin Complete /\ Complete # {}
    /\ Absent \notin CandidateRecord
    /\ Nobody \notin Request \cup Id \cup Complete \cup {Vague}
    /\ HistoryLimit \in Nat \ {0} /\ CandidateLimit \in Nat \ {0, 1}
    /\ IsFiniteSet(Synthetic) /\ Cardinality(Synthetic) <= CandidateLimit
    /\ \A name \in DOMAIN Traffics : LET t == Traffics[name] IN
           /\ t.requests \in Nat /\ t.products \subseteq Complete \cup {Vague}
           /\ t.crashes \in BOOLEAN /\ t.demo \subseteq SUBSET Synthetic

VARIABLES
    cands,     \* file: the candidates
    identity,  \* file: each one's product, and the one its assessment was made for
    history,   \* file: commandOrder, the requests answered before
    holder,    \* the request whose handler holds the lock between two writes
    call,      \* each request and how far it has come
    applied,   \* how often each request took effect, up to twice (observed, not stored)
    traffic    \* what this behaviour's clients and servers do, never changed

file == <<cands, identity, history>>
vars == <<file, holder, call, applied, traffic>>

-----------------------------------------------------------------------------
Traffic == Traffics[traffic]

(* Products and candidates.  All candidates here have one name, so that an *)
(* incomplete identity is similar to every other.                          *)
Product == Complete \cup {Vague}

Evidence(product) ==
    [missing |-> IF product = Vague THEN "some" ELSE "none", origins |-> 2, substitute |-> FALSE]

Cleared == [rights |-> TRUE, personalUse |-> FALSE, disclosed |-> TRUE]

Unchecked == [product |-> Vague, checked |-> Nobody]

Present(id) == cands[id] # Absent

Specialist == {"request_verification", "request_strategies", "request_drafts", "run_guardian"}

OnNoCandidate == {"add_manual_candidate", "reset_demo"}

Command ==
    Specialist \cup OnNoCandidate \cup {"edit_draft", "review_decision", "resolve_duplicate"}

(* What a command carries besides its candidate.                           *)
Payload(command) ==
    CASE command \in {"request_verification", "add_manual_candidate"} -> Traffic.products
      [] command = "review_decision" -> ReviewDecision
      [] command = "resolve_duplicate" -> {"distinct", "duplicate"}
      [] command = "edit_draft" -> {"clean", "violating"}
      [] OTHER -> {Nobody}

Unsent == [at |-> "idle", command |-> Nobody, id |-> Nobody, payload |-> Nobody,
           expected |-> 0, saw |-> Nobody]

-----------------------------------------------------------------------------
(* Initial states: a first candidate at any stage of its life; beside it   *)
(* none, or one added after it and so perhaps under duplicate review; the  *)
(* demo candidates as seeded, one of them as the first, or crowded out.    *)
ExampleProduct == CHOOSE p \in Complete : TRUE

Created == NewCandidate("clean", Cleared)

Demo == Verified(Created, Evidence(ExampleProduct), Cleared)

Stage ==
    LET planned == WithStrategies(Demo)
        written == WithDrafts(planned)
    IN {Created, Demo, planned, written, GuardianRun(written)}

ASSUME TrafficAssumption ==
    \A name \in DOMAIN Traffics :
        Traffics[name].issued \subseteq Command /\ Traffics[name].stages \subseteq Stage

InitPortfolio ==
    \E demo \in Traffic.demo :
    \E first \in (Id \ Synthetic) \cup demo : \E other \in (Id \ Synthetic) \cup {first} :
    \E stage \in Traffic.stages, product \in Traffic.products, second \in Traffic.products :
        /\ product = Vague => stage = Created
        /\ first \in Synthetic => stage # Created /\ product = ExampleProduct
        /\ product # second
        /\ Cardinality(demo \cup {first, other}) <= CandidateLimit
        /\ cands = [id \in Id |->
               CASE id = first -> stage
                 [] id \in demo \ {first} -> Demo
                 [] id = other /\ id # first ->
                        Assessed(Created, IF Vague \in {product, second} /\ first \notin Synthetic
                                          THEN "possible" ELSE "unique")
                 [] OTHER -> Absent]
        /\ identity = [id \in Id |->
               CASE id = first ->
                        [product |-> product, checked |-> IF id \in Synthetic THEN Nobody ELSE product]
                 [] id \in demo \ {first} -> [product |-> ExampleProduct, checked |-> Nobody]
                 [] id = other /\ id # first -> [product |-> second, checked |-> second]
                 [] OTHER -> Unchecked]

Init ==
    /\ traffic \in DOMAIN Traffics
    /\ InitPortfolio
    /\ history = <<>>
    /\ holder = Nobody
    /\ call = [r \in Request |-> Unsent]
    /\ applied = [r \in Request |-> 0]

-----------------------------------------------------------------------------
(* The client and the Orchestrator.                                        *)

Reach(r, step) == call' = [call EXCEPT ![r].at = step]

(* A request is composed from the read model the client holds.             *)
Compose(r) ==
    /\ call[r].at = "idle"
    /\ Cardinality({s \in Request : call[s].at # "idle"}) < Traffic.requests
    /\ \E command \in Traffic.issued : \E payload \in Payload(command) :
          \/ /\ command \in OnNoCandidate
             /\ call' = [call EXCEPT ![r] = [Unsent EXCEPT !.at = "sent", !.command = command,
                                                           !.payload = payload]]
          \/ /\ command \notin OnNoCandidate
             /\ \E id \in Id :
                   /\ Present(id)
                   /\ call' = [call EXCEPT ![r] =
                          [at |-> "sent", command |-> command, id |-> id, payload |-> payload,
                           expected |-> cands[id].revision, saw |-> Material(cands[id])]]
    /\ UNCHANGED <<file, holder, applied>>

(* The same request is sent again once it is over, answered, refused or    *)
(* cut off: the answer was lost, or a second tap.                          *)
Resend(r) ==
    /\ call[r].at = "over"
    /\ Reach(r, "sent")
    /\ UNCHANGED <<file, holder, applied>>

(* validateSpecialistRoute on an unlocked readToday.                       *)
MayRoute(r) ==
    call[r].command \in Specialist =>
        Present(call[r].id) /\ CanDispatch(call[r].command, cands[call[r].id])

Dispatch(r) ==
    /\ call[r].at = "sent"
    /\ Reach(r, IF MayRoute(r) THEN "routed" ELSE "over")
    /\ UNCHANGED <<file, holder, applied>>

-----------------------------------------------------------------------------
(* The store, under the lock.                                              *)

Enter(r) == call[r].at = "routed" /\ holder = Nobody

Known(r) == \E i \in DOMAIN history : history[i] = r

(* A history without the request, which is in it once if at all.           *)
Without(h, r) ==
    IF \A i \in DOMAIN h : h[i] # r THEN h
    ELSE LET at == CHOOSE i \in DOMAIN h : h[i] = r
         IN SubSeq(h, 1, at - 1) \o SubSeq(h, at + 1, Len(h))

(* Bug: the history is cut before the request is added.                    *)
RecordedAfterCut(h, r) ==
    LET others == Without(h, r)
    IN Append(IF Len(others) > HistoryLimit THEN Tail(others) ELSE others, r)

(* recordCommand, recordExtendedCommand: the newest HistoryLimit requests. *)
Recorded(h, r) ==
    LET order == Append(Without(h, r), r)
    IN IF Len(order) > HistoryLimit THEN Tail(order) ELSE order

(* Bug: the base command is recorded only with its assessment.             *)
RecordedOnceAssessed(h, r) ==
    IF call[r].command \in {"request_verification", "add_manual_candidate"} THEN h ELSE Recorded(h, r)

(* The base command's own record.                                          *)
RecordedFirst(h, r) == Recorded(h, r)

(* A reset starts the count again, and so does, for a command that names   *)
(* no candidate, the history when it forgets the request.                  *)
TakesEffect(r) ==
    LET Forgotten(s) == Known(s) /\ ~Known(s)' /\ call[s].command \in OnNoCandidate
    IN applied' = [s \in Request |->
           IF s = r THEN (IF applied[s] < 2 THEN applied[s] + 1 ELSE 2)
           ELSE IF call[r].command = "reset_demo" \/ Forgotten(s) THEN 0
           ELSE applied[s]]

Busy(r) ==
    /\ call[r].at = "routed" /\ holder # Nobody
    /\ Reach(r, "over")
    /\ UNCHANGED <<file, holder, applied>>

Replay(r) ==
    /\ Enter(r) /\ Known(r)
    /\ Reach(r, "over")
    /\ UNCHANGED <<file, holder, applied>>

(* Bug: owner decisions are taken during a duplicate review.               *)
UndecidedOrNot(c) == TRUE

(* assertDuplicateReviewDoesNotGetBypassed                                 *)
NotUnderReview(c) == c.workflow # "duplicate_review"

(* The checks of the handlers.                                             *)
HandlerAllows(q, c) ==
    CASE q.command = "request_verification" -> TRUE
      [] q.command = "request_strategies" -> StrategiesAllowed(c)
      [] q.command = "request_drafts" -> DraftsAllowed(c)
      [] q.command \in {"run_guardian", "edit_draft"} -> HasDrafts(c)
      [] q.command = "review_decision" -> NotUnderReview(c) /\ ReviewAllowed(c, q.payload)
      [] q.command = "resolve_duplicate" -> PendingDuplicate(c)

Handled(q, c) ==
    CASE q.command = "request_verification" -> Verified(c, Evidence(q.payload), Cleared)
      [] q.command = "request_strategies" -> WithStrategies(c)
      [] q.command = "request_drafts" -> WithDrafts(c)
      [] q.command = "run_guardian" -> GuardianRun(c)
      [] q.command = "edit_draft" -> DraftEdited(c, FirstDraft, q.payload)
      [] q.command = "review_decision" -> Reviewed(c, q.payload)
      [] q.command = "resolve_duplicate" -> DuplicateResolved(c, q.payload)

(* Bug: no compare-and-set.                                                *)
AcceptableAtAnyRevision(q) == Present(q.id) /\ HandlerAllows(q, cands[q.id])

Acceptable(q) ==
    /\ Present(q.id)
    /\ cands[q.id].revision = q.expected
    /\ HandlerAllows(q, cands[q.id])

(* A command on a candidate: one write of the file, which for a            *)
(* verification is only the first of two.                                  *)
Apply(r) ==
    LET q == call[r] IN
    /\ Enter(r) /\ ~Known(r)
    /\ q.command \notin OnNoCandidate /\ Acceptable(q)
    /\ cands' = [cands EXCEPT ![q.id] = Handled(q, @)]
    /\ identity' = [identity EXCEPT ![q.id] =
           CASE q.command = "request_verification" -> [@ EXCEPT !.product = q.payload]
             [] q.command = "resolve_duplicate" ->
                    [@ EXCEPT !.checked = identity[q.id].product]
             [] OTHER -> @]
    /\ history' = RecordedFirst(history, r)
    /\ TakesEffect(r)
    /\ IF q.command = "request_verification"
       THEN Reach(r, "assessing") /\ holder' = r
       ELSE Reach(r, "over") /\ UNCHANGED holder

Refuse(r) ==
    LET q == call[r] IN
    /\ Enter(r) /\ ~Known(r)
    /\ q.command \notin OnNoCandidate /\ ~Acceptable(q)
    /\ Reach(r, "over")
    /\ UNCHANGED <<file, holder, applied>>

(* An id no candidate has and no command names, as good as a new UUID.     *)
Fresh(id) ==
    /\ ~Present(id) /\ id \notin Synthetic
    /\ \A s \in Request : call[s].id = id => call[s].command = "add_manual_candidate"

(* The candidate an addition pushes out of a full file: the oldest, which  *)
(* is a demo candidate as long as there is one.                            *)
GivesWay ==
    LET present == {id \in Id : Present(id)}
    IN IF Cardinality(present) < CandidateLimit THEN {}
       ELSE IF present \cap Synthetic # {} THEN present \cap Synthetic
       ELSE present

Add(r) ==
    /\ Enter(r) /\ ~Known(r) /\ call[r].command = "add_manual_candidate"
    /\ \E id \in Id : \E oldest \in GivesWay \cup {id} :
          /\ Fresh(id)
          /\ GivesWay # {} => oldest # id
          /\ cands' = [cands EXCEPT ![oldest] = Absent, ![id] = NewCandidate("clean", Cleared)]
          /\ identity' = [identity EXCEPT ![oldest] = Unchecked,
                                          ![id] = [product |-> call[r].payload, checked |-> Nobody]]
          /\ call' = [call EXCEPT ![r].at = "assessing", ![r].id = id]
    /\ history' = RecordedFirst(history, r)
    /\ TakesEffect(r)
    /\ holder' = r

(* reset_demo: the demo candidates as seeded, and a history of this one    *)
(* request.                                                                *)
Reset(r) ==
    /\ Enter(r) /\ ~Known(r) /\ call[r].command = "reset_demo"
    /\ cands' = [id \in Id |-> IF id \in Synthetic THEN Demo ELSE Absent]
    /\ identity' = [id \in Id |->
           IF id \in Synthetic THEN [product |-> ExampleProduct, checked |-> Nobody]
           ELSE Unchecked]
    /\ history' = <<r>>
    /\ TakesEffect(r)
    /\ Reach(r, "over")
    /\ UNCHANGED holder

-----------------------------------------------------------------------------
(* The duplicate assessment, the second write.                             *)

EligibleTarget(id) ==
    /\ Present(id) /\ id \notin Synthetic
    /\ cands[id].workflow \notin {"rejected", "suppressed_duplicate"}

(* assessCandidateDuplicate: the same complete identity is an exact        *)
(* duplicate, the same name without a contradiction a possible one.        *)
AssessmentOf(id) ==
    LET targets == {t \in Id \ {id} : EligibleTarget(t)}
        product == identity[id].product
    IN IF product # Vague /\ \E t \in targets : identity[t].product = product THEN "exact"
       ELSE IF \E t \in targets : Vague \in {product, identity[t].product} THEN "possible"
       ELSE "unique"

(* Bug: a candidate once confirmed distinct is never assessed again.       *)
ReassessedUnlessDistinct(id) == cands[id].dup # "confirmed_distinct"

(* shouldReassessAfterIdentityMutation                                     *)
Reassessed(id) ==
    cands[id].dup # "confirmed_distinct" \/ identity[id].checked # identity[id].product

Assess(r) ==
    LET id == call[r].id IN
    /\ call[r].at = "assessing" /\ call[r].command = "request_verification"
    /\ IF Reassessed(id)
       THEN /\ cands' = [cands EXCEPT ![id] = Assessed(@, AssessmentOf(id))]
            /\ identity' = [identity EXCEPT ![id].checked = identity[id].product]
            /\ history' = IF AssessmentOf(id) = "unique" THEN history ELSE Recorded(history, r)
       ELSE UNCHANGED file
    /\ Reach(r, "over")
    /\ holder' = Nobody
    /\ UNCHANGED applied

(* An addition that turns out an exact duplicate is taken back.            *)
AssessNew(r) ==
    LET id == call[r].id IN
    /\ call[r].at = "assessing" /\ call[r].command = "add_manual_candidate"
    /\ IF AssessmentOf(id) = "exact"
       THEN /\ cands' = [cands EXCEPT ![id] = Absent]
            /\ identity' = [identity EXCEPT ![id] = Unchecked]
       ELSE /\ cands' = [cands EXCEPT ![id] = Assessed(@, AssessmentOf(id))]
            /\ identity' = [identity EXCEPT ![id].checked = identity[id].product]
    /\ history' = Recorded(history, r)
    /\ Reach(r, "over")
    /\ holder' = Nobody
    /\ UNCHANGED applied

(* A server process dies; its lock is stale in time and cleared.           *)
Crash(r) ==
    /\ Traffic.crashes /\ call[r].at \in {"routed", "assessing"}
    /\ Reach(r, "over")
    /\ holder' = IF holder = r THEN Nobody ELSE holder
    /\ UNCHANGED <<file, applied>>

-----------------------------------------------------------------------------
Next ==
    /\ UNCHANGED traffic
    /\ \E r \in Request :
        \/ Compose(r) \/ Resend(r) \/ Dispatch(r)
        \/ Busy(r) \/ Replay(r) \/ Apply(r) \/ Refuse(r)
        \/ Add(r) \/ Reset(r)
        \/ Assess(r) \/ AssessNew(r)
        \/ Crash(r)

Spec == Init /\ [][Next]_vars

-----------------------------------------------------------------------------
Call ==
    [at: {"idle", "sent", "routed", "assessing", "over"},
     command: Traffic.issued \cup {Nobody}, id: Id \cup {Nobody},
     payload: (UNION {Payload(command) : command \in Traffic.issued}) \cup {Nobody},
     expected: Nat, saw: MaterialRevision \cup {Nobody}]

(* Types; a handler that holds the lock is between its two writes and has  *)
(* its candidate on file, and the history holds no request twice.          *)
TypeOK ==
    /\ \A id \in Id : Present(id) => cands[id] \in CandidateRecord
    /\ identity \in [Id -> [product: Product, checked: Product \cup {Nobody}]]
    /\ Cardinality({id \in Id : Present(id)}) <= CandidateLimit
    /\ Len(history) <= HistoryLimit
    /\ \A i, j \in DOMAIN history : history[i] = history[j] => i = j
    /\ call \in [Request -> Call]
    /\ applied \in [Request -> 0..2]
    /\ \A r \in Request :
           holder = r <=> call[r].at = "assessing"
    /\ holder # Nobody => Present(call[holder].id)

(* However often a request is sent again, it takes effect at most once,    *)
(* even when the first answer was lost in a crash between two writes       *)
(* (replayFromHistory over what the base command recorded).  A command on  *)
(* a candidate is safe even when the history has dropped it, its revision  *)
(* being gone; an addition or a reset only as long as it is kept, and no   *)
(* command after a reset (TakesEffect counts accordingly).                 *)
AppliedAtMostOnce == \A r \in Request : applied[r] <= 1

TakesEffectNow(r) == applied[r]' > applied[r]

(* A command takes effect only on the content its sender was shown, though *)
(* the record has since been read, validated and replaced in between       *)
(* (APPLICATION_INTERFACE_SPEC, version conflict rule).  A reset starts    *)
(* the demo candidates at their first revisions again and is left out.     *)
OnlyOnWhatWasSeen ==
    [][\A r \in Request :
          TakesEffectNow(r) /\ call[r].saw # Nobody
              /\ ~(call[r].id \in Synthetic /\ "reset_demo" \in Traffic.issued) =>
              Present(call[r].id) /\ Material(cands[call[r].id]) = call[r].saw]_vars

(* Whenever no handler is between its two writes, the duplicate assessment *)
(* of every candidate is about the identity it has now                     *)
(* (applyPostVerificationDedupe).  Not after a crash: the repeated request *)
(* is answered from the history.                                           *)
AssessedAtRest ==
    holder = Nobody /\ ~Traffic.crashes =>
        \A id \in Id \ Synthetic :
            Present(id) => identity[id].checked = identity[id].product

Settled(id) == cands[id].dup \in {"exact_duplicate_suppressed", "confirmed_duplicate"}

(* Of two candidates with the same complete identity one has been called a *)
(* duplicate, whatever reviews, additions and re-verifications led there   *)
(* (candidate-dedupe.mjs eligibleTarget).  Without owner rejections, which *)
(* take a candidate out of the comparison.                                 *)
TwinsAreCaught ==
    holder = Nobody /\ ~Traffic.crashes /\ "review_decision" \notin Traffic.issued =>
        \A a, b \in Id \ Synthetic :
            a # b /\ Present(a) /\ Present(b)
                /\ identity[a].product = identity[b].product /\ identity[a].product # Vague
            => Settled(a) \/ Settled(b)

(* What the store knows of duplicates is about the products as they are.   *)
DuplicatesAreKnown == AssessedAtRest /\ TwinsAreCaught

(* What the record of a candidate is once the handler at work on it has    *)
(* made its second write.                                                  *)
AtRest(id) ==
    LET assessing(command) ==
            /\ holder # Nobody /\ call[holder].id = id /\ call[holder].command = command
        due == assessing("add_manual_candidate")
                \/ (assessing("request_verification") /\ Reassessed(id))
    IN IF ~due THEN cands[id]
       ELSE IF assessing("add_manual_candidate") /\ AssessmentOf(id) = "exact" THEN Absent
       ELSE Assessed(cands[id], AssessmentOf(id))

Workflow(id) == INSTANCE CandidateWorkflow WITH
    cand <- AtRest(id), supervised <- FALSE, MaxRevision <- [server \in BOOLEAN |-> 0]

ResetNow == \E r \in Request : call[r].command = "reset_demo" /\ TakesEffectNow(r)

CrashNow == holder # Nobody /\ Crash(holder)

(* Composition: taken at rest, every candidate begins and moves as the     *)
(* single-candidate workflow says, with its free choice of assessment made *)
(* by the other candidates; so what is checked and proved of               *)
(* CandidateWorkflow holds of each candidate in the store (execute of the  *)
(* duplicate store).  Only a reset of the demo replaces a record, and a    *)
(* crash leaves one without its assessment.                                *)
RunsTheWorkflow ==
    \A id \in Id :
        AtRest(id)' \notin {Absent, AtRest(id)} /\ ~ResetNow /\ ~CrashNow =>
            IF AtRest(id) = Absent THEN Workflow(id)!Added' ELSE Workflow(id)!AnyCommand

StoreRunsTheWorkflow == [][RunsTheWorkflow]_vars

(* The part of it that is model-checked: where servers die, and with them  *)
(* every command is issued.                                                *)
CommandsRunTheWorkflow == [][Traffic.crashes => RunsTheWorkflow]_<<file, holder>>

(* No specialist works on a candidate whose duplicate review is pending.   *)
(* Violated: the Orchestrator can read the file between the two writes of  *)
(* a verification, and the second write leaves the revision as it is.      *)
SpecialistsWaitForTheOwner ==
    [][\A r \in Request :
          TakesEffectNow(r) /\ call[r].command \in Specialist
              => ~PendingDuplicate(cands[call[r].id])]_vars
=============================================================================
