----------------------------- MODULE Suppression -----------------------------
(***************************************************************************)
(* Owner suppression (candidate-suppression.mjs and its store): the owner  *)
(* says on which product, brand, category or source no candidate shall be  *)
(* shown.  The rules are on file; whether a candidate is suppressed is a   *)
(* stamp that every read computes anew from the rules, the clock and the   *)
(* stamp found on file, and that every write puts back on file.            *)
(*                                                                         *)
(* The file is written under the write lock.  A verification and an        *)
(* addition write twice (candidate-dedupe-store.mjs), and all that can     *)
(* come between the two writes are reads, the passing of time and a crash. *)
(*                                                                         *)
(* Compare-and-set is kept without the revision numbers: a dispatched      *)
(* verification is dropped from the set when its candidate changes, since  *)
(* it will then be refused without effect.  Replays of known requests,     *)
(* refused requests and what the commands do to a candidate otherwise are  *)
(* CommandStore's and CandidateWorkflow's.                                 *)
(***************************************************************************)
EXTENDS Naturals, Sequences

CONSTANTS
    Candidate,    \* ids of candidates
    Demo,         \* those a reset puts back
    Absent,       \* the traits of an id without a candidate
    Axis,         \* what a rule can be about
    Drifting,     \* the axes a verification can correct: brand and source
    Value,        \* normalised texts
    NoValue,      \* the empty text
    Never,        \* the expiry of a rule without one
    Nobody,       \* nobody is between two writes
    RuleLimit,    \* MAX_SUPPRESSION_RULES
    MaxNow        \* bound on the clock

ASSUME SuppressionAssumption ==
    /\ Demo \subseteq Candidate /\ Nobody \notin Candidate
    /\ Drifting \subseteq Axis
    /\ NoValue \notin Value
    /\ RuleLimit \in Nat \ {0} /\ MaxNow \in Nat /\ Never \notin Nat

VARIABLES
    now,          \* the clock
    rules,        \* state.suppressionRules
    traits,       \* of each candidate, the field each axis looks at
    stamp,        \* candidate.suppression, as on file
    dispatched,   \* candidates with a verification under way to the store
    writing       \* the candidate whose second write is due, and what for

vars == <<now, rules, traits, stamp, dispatched, writing>>

Time == 0..MaxNow

(* A name is required and the lane has a default.                          *)
Traits == {t \in [Axis -> Value \cup {NoValue}] : \A a \in Axis \ Drifting : t[a] # NoValue}

Facet == [axis: Axis, value: Value]

(* No axis and value has two rules, so they stand for the rule's id.       *)
Rule == [facet: Facet, expires: Time \cup {Never}]

Stamp == [active: BOOLEAN, exempt: BOOLEAN, matched: SUBSET Facet, flagged: BOOLEAN]

(* inactiveSuppression                                                     *)
Inactive == [active |-> FALSE, exempt |-> FALSE, matched |-> {}, flagged |-> FALSE]

Exempt == [Inactive EXCEPT !.exempt = TRUE]

Present(id) == traits[id] # Absent

-----------------------------------------------------------------------------
(* The assessment of one candidate.                                        *)

RuleSet(rs) == {rs[i] : i \in DOMAIN rs}

Facets(rs) == {r.facet : r \in RuleSet(rs)}

ruleIsExpired(r, at) == r.expires # Never /\ at >= r.expires

Live(rs, at) == {r \in RuleSet(rs) : ~ruleIsExpired(r, at)}

matchingRules(t, rs, at) ==
    {r.facet : r \in {q \in Live(rs, at) : t[q.facet.axis] = q.facet.value}}

(* Bug: no loss of the match counts as drift.                              *)
NeverStanding(previous, rs, at) == FALSE

rulesStillStanding(previous, rs, at) ==
    \E r \in Live(rs, at) : r.facet \in previous.matched

(* Bug: the rules are looked at before the exemption.                      *)
assessRulesFirst(previous, t, rs, at) ==
    LET matches == matchingRules(t, rs, at) IN
    IF matches # {} THEN [Inactive EXCEPT !.active = TRUE, !.matched = matches]
    ELSE IF previous.exempt THEN Exempt
    ELSE IF previous.active /\ rulesStillStanding(previous, rs, at)
    THEN [previous EXCEPT !.matched = {}, !.flagged = TRUE]
    ELSE Inactive

assessSuppression(previous, t, rs, at) ==
    LET matches == matchingRules(t, rs, at) IN
    IF previous.exempt THEN Exempt
    ELSE IF matches # {} THEN [Inactive EXCEPT !.active = TRUE, !.matched = matches]
    ELSE IF previous.active /\ rulesStillStanding(previous, rs, at)
    THEN [previous EXCEPT !.matched = {}, !.flagged = TRUE]
    ELSE Inactive

(* applySuppressionToState on the stamps s.                                *)
applySuppression(s, ts, rs) ==
    [id \in Candidate |->
        IF ts[id] = Absent THEN Inactive ELSE assessSuppression(s[id], ts[id], rs, now)]

(* readState: what every reader and every command starts from.             *)
Read == applySuppression(stamp, traits, rules)

Shown(id) == Present(id) /\ ~Read[id].active
Hidden(id) == Present(id) /\ Read[id].active

-----------------------------------------------------------------------------
(* The owner's commands.                                                   *)

Unlocked == writing = Nobody

RuleOf(facet) == {r \in RuleSet(rules) : r.facet = facet}

Limited(rs) == IF Len(rs) > RuleLimit THEN Tail(rs) ELSE rs

(* Bug: an existing rule is not looked for.                                *)
WithOneMoreRule(facet, expires) ==
    Limited(Append(rules, [facet |-> facet, expires |-> expires]))

(* A rule on this axis and value is reused as it is, its expiry included.  *)
WithRule(facet, expires) ==
    IF RuleOf(facet) # {} THEN rules
    ELSE Limited(Append(rules, [facet |-> facet, expires |-> expires]))

(* Bug: suppressing leaves the exemption of the candidate standing.        *)
StillExempt(id) == Read

(* Suppressing ends the candidate's own exemption.                         *)
Unexempted(id) == [Read EXCEPT ![id].exempt = FALSE]

suppressCandidate(id, facet, expires) ==
    /\ Unlocked /\ Present(id)
    /\ rules' = WithRule(facet, expires)
    /\ stamp' = applySuppression(Unexempted(id), traits, rules')
    /\ dispatched' = dispatched \ {id}
    /\ UNCHANGED <<now, traits, writing>>

restoreCandidate(id) ==
    /\ Unlocked /\ Hidden(id)
    /\ stamp' = applySuppression([Read EXCEPT ![id] = Exempt], traits, rules)
    /\ dispatched' = dispatched \ {id}
    /\ UNCHANGED <<now, rules, traits, writing>>

Without(rs, i) == SubSeq(rs, 1, i - 1) \o SubSeq(rs, i + 1, Len(rs))

removeSuppressionRule(i) ==
    /\ Unlocked
    /\ rules' = Without(rules, i)
    /\ stamp' = applySuppression(Read, traits, rules')
    /\ UNCHANGED <<now, traits, dispatched, writing>>

-----------------------------------------------------------------------------
(* The other commands, as far as they read and write the stamps.           *)

(* The Orchestrator looks for the candidate on the first screen, without   *)
(* the lock, and passes the call on to the store.                          *)
DispatchVerification(id) ==
    /\ Shown(id)
    /\ dispatched' = dispatched \cup {id}
    /\ UNCHANGED <<now, rules, traits, stamp, writing>>

Corrected(id) ==
    {t \in Traits : \A a \in Axis \ Drifting : t[a] = traits[id][a]}

(* The first write, by the base command: new traits, stamps as read.       *)
Verify(id) ==
    /\ Unlocked /\ id \in dispatched /\ Present(id)
    /\ \E t \in Corrected(id) : traits' = [traits EXCEPT ![id] = t]
    /\ stamp' = Read
    /\ dispatched' = dispatched \ {id}
    /\ writing' = [id |-> id, for |-> "request_verification"]
    /\ UNCHANGED <<now, rules>>

Add(id) ==
    /\ Unlocked /\ ~Present(id) /\ id \notin Demo
    /\ \E t \in Traits : traits' = [traits EXCEPT ![id] = t]
    /\ stamp' = Read
    /\ writing' = [id |-> id, for |-> "add_manual_candidate"]
    /\ UNCHANGED <<now, rules, dispatched>>

(* The second write, of the state read again after the first; an addition  *)
(* that is an exact duplicate is taken back.                               *)
WriteAgain ==
    /\ ~Unlocked
    /\ \/ UNCHANGED traits
       \/ /\ writing.for = "add_manual_candidate"
          /\ traits' = [traits EXCEPT ![writing.id] = Absent]
    /\ stamp' = applySuppression(stamp, traits', rules)
    /\ writing' = Nobody
    /\ UNCHANGED <<now, rules, dispatched>>

Crash ==
    /\ ~Unlocked
    /\ writing' = Nobody
    /\ UNCHANGED <<now, rules, traits, stamp, dispatched>>

(* Any other command on a candidate, an edit or a decision.                *)
OtherCommand(id) ==
    /\ Unlocked /\ Present(id)
    /\ stamp' = Read
    /\ dispatched' = dispatched \ {id}
    /\ UNCHANGED <<now, rules, traits, writing>>

(* The demo state has no rules.  A verification under way is still valid   *)
(* when its demo candidate was at its first revision; its fields are       *)
(* those of the code, here any.                                            *)
ResetDemo ==
    /\ Unlocked
    /\ rules' = <<>>
    /\ \E f \in [Demo -> Traits] :
           traits' = [id \in Candidate |-> IF id \in Demo THEN f[id] ELSE Absent]
    /\ stamp' = [id \in Candidate |-> Inactive]
    /\ \E valid \in SUBSET (dispatched \cap Demo) : dispatched' = valid
    /\ UNCHANGED <<now, writing>>

Tick ==
    /\ now < MaxNow
    /\ now' = now + 1
    /\ UNCHANGED <<rules, traits, stamp, dispatched, writing>>

Init ==
    /\ now = 0
    /\ rules = <<>>
    /\ \E f \in [Demo -> Traits] :
           traits = [id \in Candidate |-> IF id \in Demo THEN f[id] ELSE Absent]
    /\ stamp = [id \in Candidate |-> Inactive]
    /\ dispatched = {}
    /\ writing = Nobody

Suppress(id) ==
    \E facet \in Facet, expires \in Time \cup {Never} : suppressCandidate(id, facet, expires)

Next ==
    \/ \E id \in Candidate :
           \/ Suppress(id) \/ restoreCandidate(id)
           \/ DispatchVerification(id) \/ Verify(id) \/ Add(id) \/ OtherCommand(id)
    \/ \E i \in DOMAIN rules : removeSuppressionRule(i)
    \/ WriteAgain \/ Crash \/ ResetDemo \/ Tick

Spec == Init /\ [][Next]_vars

-----------------------------------------------------------------------------
(* Types; no axis and value has two rules, and no stamp on file names a    *)
(* rule that is gone.                                                      *)
TypeOK ==
    /\ now \in Time
    /\ rules \in Seq(Rule) /\ Len(rules) <= RuleLimit
    /\ \A i, j \in DOMAIN rules : rules[i].facet = rules[j].facet => i = j
    /\ traits \in [Candidate -> Traits \cup {Absent}]
    /\ stamp \in [Candidate -> Stamp]
    /\ \A id \in Candidate : stamp[id].matched \subseteq Facets(rules)
    /\ dispatched \subseteq Candidate
    /\ Unlocked \/ writing.id \in Candidate

Named(id) == matchingRules(traits[id], rules, now) \cup stamp[id].matched

(* A rule that keeps the candidate hidden has been removed, reset or       *)
(* dropped, or has expired.                                                *)
RuleWithdrawn(id) ==
    \E r \in Live(rules, now) : r.facet \in Named(id) /\ r \notin Live(rules, now)'

ComesBack(id) == Hidden(id) /\ Shown(id)'

(* Its identity has been corrected, and no rule matches it any more.       *)
Drifted(id) == Hidden(id) /\ matchingRules(traits[id], rules, now) = {}

(* A suppression is honoured until it is reversed: a hidden candidate      *)
(* comes back because the owner restored it or a rule that hid it is no    *)
(* longer in force, whatever is written to it or to others meanwhile       *)
(* (USER_SUPPRESSION_PLAN section 4).  Once its identity has drifted it    *)
(* comes back without either, see IdentityEditNeverReleases.               *)
HiddenUntilReversed ==
    [][\A id \in Candidate :
          ComesBack(id) /\ ~Drifted(id) => Read[id].exempt' \/ RuleWithdrawn(id)]_vars

(* "An identity edit must never silently un-suppress": violated when a     *)
(* rule comes between the dispatch of a verification and its execution.    *)
(* The second write puts the drift stamp, which names no rule, on file,    *)
(* and the next read finds no rule standing (assessSuppression).           *)
IdentityEditNeverReleases ==
    [][\A id \in Candidate : ComesBack(id) => Read[id].exempt' \/ RuleWithdrawn(id)]_vars

(* The expiries with which suppressing leads to a rule in force; of a rule *)
(* that is reused the expiry in the command is ignored.                    *)
InForce(facet) ==
    IF RuleOf(facet) = {} THEN {e \in Time \cup {Never} : e = Never \/ now < e}
    ELSE {Never : r \in RuleOf(facet) \cap Live(rules, now)}

(* Suppressing hides, at once, the candidate the command is given for and  *)
(* every other one that matches and is not exempt.  Not where a rule is    *)
(* reused that has expired: the new command leaves its expiry as it is,    *)
(* and hides nothing.                                                      *)
SuppressionTakesEffect ==
    [][\A id \in Candidate, facet \in Facet :
          (\E expires \in InForce(facet) : suppressCandidate(id, facet, expires))
          => \A other \in Candidate :
                 /\ Present(other) /\ traits[other][facet.axis] = facet.value
                 /\ other = id \/ ~Read[other].exempt
                 => Hidden(other)']_vars

(* Removing a rule releases every candidate that no other rule matches,    *)
(* also one whose identity has drifted under it.                           *)
RemovalReleases ==
    [][\A i \in DOMAIN rules :
          removeSuppressionRule(i) =>
              \A id \in Candidate :
                  Present(id) /\ matchingRules(traits[id], rules', now) = {} => Shown(id)']_vars

(* What the owner asks for happens, on every candidate it is about.        *)
CommandsTakeEffect == SuppressionTakesEffect /\ RemovalReleases

(* What the owner has restored stays on the first screen until the owner   *)
(* suppresses that very candidate again: not another rule, nor a           *)
(* verification that makes another rule match, nor an addition hides it.   *)
RestoredUntilSuppressed ==
    [][\A id \in Candidate :
          Present(id) /\ Read[id].exempt /\ Hidden(id)' => Suppress(id)]_vars
=============================================================================
