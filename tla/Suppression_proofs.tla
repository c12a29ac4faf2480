-------------------------- MODULE Suppression_proofs --------------------------
(***************************************************************************)
(* Proofs about Suppression, for any sets of candidates, axes and values,  *)
(* any limit on the rules and any clock: what the owner hides stays hidden *)
(* and what the owner brings back stays shown.  The arguments rest on the  *)
(* types and on two facts about the assessment: it names only rules on     *)
(* file, and an exemption goes through it unchanged.                       *)
(***************************************************************************)
EXTENDS Suppression, SequenceTheorems, TLAPS

-----------------------------------------------------------------------------
\* The rules on file.

\* No axis and value has two rules.
OneRuleEach(rs) == \A i, j \in DOMAIN rs : rs[i].facet = rs[j].facet => i = j

GoodRules(rs) == rs \in Seq(Rule) /\ Len(rs) <= RuleLimit /\ OneRuleEach(rs)

\* The rules of a sequence are rules.
LEMMA RuleSetType ==
    ASSUME NEW rs \in Seq(Rule)
    PROVE  RuleSet(rs) \subseteq Rule /\ Facets(rs) \subseteq Facet
  <1>1. RuleSet(rs) \subseteq Rule
    BY ElementOfSeq, LenProperties DEF RuleSet
  <1>2. \A r \in Rule : r.facet \in Facet
    BY DEF Rule
  <1> QED
    BY <1>1, <1>2 DEF Facets

\* A rule on a new axis and value comes on file, whether or not the oldest
\* one has to go.
LEMMA RuleAdded ==
    ASSUME NEW rs, GoodRules(rs), NEW r \in Rule, r.facet \notin Facets(rs)
    PROVE  GoodRules(Limited(Append(rs, r))) /\ r \in RuleSet(Limited(Append(rs, r)))
  <1> DEFINE more == Append(rs, r)
  <1>1. /\ more \in Seq(Rule) /\ more # <<>> /\ Len(more) = Len(rs) + 1
        /\ \A i \in 1..Len(rs) : more[i] = rs[i]
        /\ more[Len(rs) + 1] = r
    BY AppendProperties DEF GoodRules
  <1>2. Len(rs) \in Nat /\ DOMAIN rs = 1..Len(rs) /\ DOMAIN more = 1..(Len(rs) + 1)
    BY <1>1, LenProperties DEF GoodRules
  <1>3. \A i \in 1..Len(rs) : rs[i].facet # r.facet
    BY <1>2 DEF Facets, RuleSet
  <1>4. OneRuleEach(more)
    BY <1>1, <1>2, <1>3 DEF OneRuleEach, GoodRules
  <1> HIDE DEF more
  <1>5. CASE Len(more) > RuleLimit
    <2>1. /\ Tail(more) \in Seq(Rule) /\ Len(Tail(more)) = Len(rs)
          /\ \A i \in 1..Len(Tail(more)) : Tail(more)[i] = more[i + 1]
      BY <1>1, <1>2, HeadTailProperties
    <2>2. DOMAIN Tail(more) = 1..Len(rs)
      BY <2>1, LenProperties
    <2>3. OneRuleEach(Tail(more))
      <3> SUFFICES ASSUME NEW i \in DOMAIN Tail(more), NEW j \in DOMAIN Tail(more),
                          Tail(more)[i].facet = Tail(more)[j].facet
                   PROVE  i = j
        BY DEF OneRuleEach
      <3>1. i + 1 \in DOMAIN more /\ j + 1 \in DOMAIN more
        BY <1>2, <2>2
      <3>2. more[i + 1].facet = more[j + 1].facet
        BY <2>1, <2>2
      <3>3. i + 1 = j + 1
        BY <1>4, <3>1, <3>2 DEF OneRuleEach
      <3> QED
        BY <3>3, <2>2, <1>2
    <2>4. Len(rs) \in DOMAIN Tail(more) /\ Tail(more)[Len(rs)] = r
      BY <1>1, <1>2, <1>5, <2>1, <2>2, SuppressionAssumption
    <2>5. Limited(more) = Tail(more)
      BY <1>5 DEF Limited
    <2>6. r \in RuleSet(Tail(more))
      BY <2>4 DEF RuleSet
    <2> QED
      BY <2>1, <2>3, <2>5, <2>6 DEF GoodRules, more
  <1>6. CASE ~(Len(more) > RuleLimit)
    <2>1. Len(more) <= RuleLimit
      BY <1>1, <1>2, <1>6, SuppressionAssumption
    <2>2. Limited(more) = more
      BY <1>6 DEF Limited
    <2>3. r \in RuleSet(more)
      BY <1>1, <1>2 DEF RuleSet
    <2> QED
      BY <1>1, <1>4, <2>1, <2>2, <2>3 DEF GoodRules, more
  <1> QED
    BY <1>5, <1>6

\* What is left when a rule is removed.
LEMMA RuleRemoved ==
    ASSUME NEW rs, GoodRules(rs), NEW i \in DOMAIN rs
    PROVE  GoodRules(Without(rs, i))
  <1> DEFINE front == SubSeq(rs, 1, i - 1)
             back == SubSeq(rs, i + 1, Len(rs))
             left == front \o back
  <1>1. Len(rs) \in Nat /\ DOMAIN rs = 1..Len(rs) /\ i \in 1..Len(rs)
    BY LenProperties DEF GoodRules
  <1>2. \A k \in 1..Len(rs) : rs[k] \in Rule
    BY <1>1, ElementOfSeq DEF GoodRules
  <1>3. /\ front \in Seq(Rule) /\ Len(front) = i - 1
        /\ \A k \in 1..(i - 1) : front[k] = rs[k]
    <2>1. \A k \in 1..(i - 1) : rs[k] \in Rule
      BY <1>1, <1>2
    <2>2. /\ front \in Seq(Rule) /\ Len(front) = (IF 1 <= i - 1 THEN (i - 1) - 1 + 1 ELSE 0)
          /\ \A k \in 1..((i - 1) - 1 + 1) : front[k] = rs[1 + k - 1]
      BY <1>1, <2>1, SubSeqProperties
    <2> QED
      BY <1>1, <2>2
  <1>4. /\ back \in Seq(Rule) /\ Len(back) = Len(rs) - i
        /\ \A k \in 1..(Len(rs) - i) : back[k] = rs[i + k]
    <2>1. \A k \in (i + 1)..Len(rs) : rs[k] \in Rule
      BY <1>1, <1>2
    <2>2. /\ back \in Seq(Rule)
          /\ Len(back) = (IF i + 1 <= Len(rs) THEN Len(rs) - (i + 1) + 1 ELSE 0)
          /\ \A k \in 1..(Len(rs) - (i + 1) + 1) : back[k] = rs[(i + 1) + k - 1]
      BY <1>1, <2>1, SubSeqProperties
    <2> QED
      BY <1>1, <2>2
  <1> HIDE DEF front, back
  <1>5. /\ left \in Seq(Rule) /\ Len(left) = Len(front) + Len(back)
        /\ \A k \in 1..(Len(front) + Len(back)) :
               left[k] = IF k <= Len(front) THEN front[k] ELSE back[k - Len(front)]
    BY <1>3, <1>4, ConcatProperties
  <1> HIDE DEF left
  <1>6. /\ Len(left) = Len(rs) - 1 /\ DOMAIN left = 1..(Len(rs) - 1)
        /\ \A k \in 1..(Len(rs) - 1) : left[k] = rs[IF k < i THEN k ELSE k + 1]
    <2>1. Len(front) + Len(back) = Len(rs) - 1
      BY <1>1, <1>3, <1>4
    <2>2. DOMAIN left = 1..(Len(rs) - 1)
      BY <1>5, <2>1, LenProperties
    <2>3. ASSUME NEW k \in 1..(Len(rs) - 1)
          PROVE  left[k] = rs[IF k < i THEN k ELSE k + 1]
      <3>1. CASE k < i
        BY <1>1, <1>3, <1>5, <2>1, <3>1
      <3>2. CASE ~(k < i)
        <4>1. k - (i - 1) \in 1..(Len(rs) - i) /\ i + (k - (i - 1)) = k + 1
          BY <1>1, <3>2
        <4>2. left[k] = back[k - (i - 1)]
          BY <1>1, <1>3, <1>5, <2>1, <3>2
        <4> QED
          BY <1>4, <3>2, <4>1, <4>2
      <3> QED
        BY <3>1, <3>2
    <2> QED
      BY <1>5, <2>1, <2>2, <2>3
  <1>7. OneRuleEach(left)
    <2> SUFFICES ASSUME NEW k \in 1..(Len(rs) - 1), NEW m \in 1..(Len(rs) - 1),
                        left[k].facet = left[m].facet
                 PROVE  k = m
      BY <1>6 DEF OneRuleEach
    <2> DEFINE K == IF k < i THEN k ELSE k + 1
               M == IF m < i THEN m ELSE m + 1
    <2>1. K \in DOMAIN rs /\ M \in DOMAIN rs
      BY <1>1
    <2>2. rs[K].facet = rs[M].facet
      BY <1>6
    <2>3. K = M
      BY <2>1, <2>2 DEF OneRuleEach, GoodRules
    <2> QED
      BY <2>3, <1>1
  <1>8. Len(left) <= RuleLimit
    BY <1>1, <1>6, SuppressionAssumption DEF GoodRules
  <1>9. left = Without(rs, i)
    BY DEF Without, left, front, back
  <1> QED
    BY <1>5, <1>7, <1>8, <1>9 DEF GoodRules

-----------------------------------------------------------------------------
\* The assessment.

\* Two values that are both false are equal.
LEMMA BothFalse == \A p, q \in BOOLEAN : ~p /\ ~q => p = q
  OBVIOUS

\* The fields a stamp can have, one by one.
LEMMA StampFields ==
    /\ \A p \in Stamp : p.active \in BOOLEAN /\ p.exempt \in BOOLEAN
    /\ Inactive \in Stamp /\ ~Inactive.active /\ ~Inactive.exempt /\ Inactive.matched = {}
    /\ Exempt \in Stamp /\ ~Exempt.active /\ Exempt.exempt /\ Exempt.matched = {}
  BY DEF Inactive, Exempt, Stamp

\* A stamp of a candidate that rules match.
LEMMA HitFields ==
    ASSUME NEW M \in SUBSET Facet,
           NEW hit, hit = [Inactive EXCEPT !.active = TRUE, !.matched = M]
    PROVE  hit \in Stamp /\ hit.active /\ ~hit.exempt /\ hit.matched = M
  BY DEF Inactive, Stamp

\* A stamp of a candidate whose identity has drifted.
LEMMA DriftFields ==
    ASSUME NEW p \in Stamp, NEW drift, drift = [p EXCEPT !.matched = {}, !.flagged = TRUE]
    PROVE  /\ drift \in Stamp /\ drift.active = p.active /\ drift.exempt = p.exempt
           /\ drift.matched = {}
  BY DEF Stamp

\* A stamp whose exemption is ended.
LEMMA OpenFields ==
    ASSUME NEW p \in Stamp, NEW open, open = [p EXCEPT !.exempt = FALSE]
    PROVE  /\ open \in Stamp /\ open.active = p.active /\ ~open.exempt
           /\ open.matched = p.matched
  BY DEF Stamp

\* Only rules on file, and in force, match.
LEMMA MatchesAreOnFile ==
    ASSUME NEW rs \in Seq(Rule), NEW t, NEW at
    PROVE  /\ matchingRules(t, rs, at) \subseteq Facets(rs)
           /\ matchingRules(t, rs, at) \subseteq Facet
  BY RuleSetType DEF matchingRules, Live, Facets

\* What the assessment makes of a stamp: an exemption stays; where no rule
\* matches, only a rule named on the stamp can keep the candidate hidden,
\* and then the stamp names none any more.
LEMMA Assessed ==
    ASSUME NEW previous \in Stamp, NEW rs \in Seq(Rule), NEW t, NEW at,
           NEW next, next = assessSuppression(previous, t, rs, at),
           NEW M, M = matchingRules(t, rs, at)
    PROVE  /\ next \in Stamp
           /\ next.matched \subseteq Facets(rs)
           /\ next.exempt = previous.exempt
           /\ previous.exempt => next = Exempt
           /\ ~previous.exempt /\ M # {} => next.active /\ next.matched = M
           /\ ~previous.exempt /\ M = {} =>
                 /\ next.matched = {}
                 /\ next.active <=> previous.active /\ rulesStillStanding(previous, rs, at)
  <1>1. M \subseteq Facets(rs) /\ M \in SUBSET Facet
    BY MatchesAreOnFile
  <1>2. previous.exempt \in BOOLEAN /\ previous.active \in BOOLEAN
    BY DEF Stamp
  <1>3. CASE previous.exempt
    <2>1. next = Exempt
      BY <1>3 DEF assessSuppression
    <2>2. next \in Stamp /\ next.matched = {} /\ next.exempt
      BY <2>1, StampFields
    <2> QED
      BY <1>2, <1>3, <2>1, <2>2, StampFields
  <1>4. CASE ~previous.exempt /\ M # {}
    <2>1. next = [Inactive EXCEPT !.active = TRUE, !.matched = M]
      BY <1>4 DEF assessSuppression
    <2>2. next \in Stamp /\ next.active /\ ~next.exempt /\ next.matched = M
      BY <1>1, <2>1, HitFields
    <2>3. next.exempt = previous.exempt
      <3>1. next.exempt \in BOOLEAN
        BY <2>2, StampFields
      <3> QED
        BY <1>2, <1>4, <2>2, <3>1, BothFalse, Zenon
    <2> QED
      BY <1>1, <1>4, <2>2, <2>3
  <1>5. CASE ~previous.exempt /\ M = {} /\ previous.active /\ rulesStillStanding(previous, rs, at)
    <2>1. next = [previous EXCEPT !.matched = {}, !.flagged = TRUE]
      BY <1>5 DEF assessSuppression
    <2>2. /\ next \in Stamp /\ next.active = previous.active /\ next.exempt = previous.exempt
          /\ next.matched = {}
      BY <2>1, DriftFields
    <2> QED
      BY <1>5, <2>2
  <1>6. CASE ~previous.exempt /\ M = {} /\ ~(previous.active /\ rulesStillStanding(previous, rs, at))
    <2>1. next = Inactive
      BY <1>6 DEF assessSuppression
    <2>2. next \in Stamp /\ ~next.active /\ ~next.exempt /\ next.matched = {}
      BY <2>1, StampFields
    <2>3. next.exempt = previous.exempt
      <3>1. next.exempt \in BOOLEAN
        BY <2>2, StampFields
      <3> QED
        BY <1>2, <1>6, <2>2, <3>1, BothFalse, Zenon
    <2> QED
      BY <1>6, <2>2, <2>3
  <1> QED
    BY <1>3, <1>4, <1>5, <1>6

\* A stamp that names no rule, of a candidate no rule matches, does not hide.
LEMMA NamelessReleases ==
    ASSUME NEW previous \in Stamp, previous.matched = {}, NEW rs \in Seq(Rule), NEW t, NEW at,
           matchingRules(t, rs, at) = {}
    PROVE  ~assessSuppression(previous, t, rs, at).active
  <1>1. ~rulesStillStanding(previous, rs, at)
    BY DEF rulesStillStanding
  <1> DEFINE next == assessSuppression(previous, t, rs, at)
  <1>2. CASE previous.exempt
    <2>1. next = Exempt
      BY <1>2, Assessed
    <2> QED
      BY <2>1, StampFields
  <1>3. CASE ~previous.exempt
    <2>1. next.active <=> previous.active /\ rulesStillStanding(previous, rs, at)
      BY <1>3, Assessed
    <2> QED
      BY <1>1, <2>1
  <1> QED
    BY <1>2, <1>3

\* The stamps of a state, good ones for the rules on file.
GoodStamps(s, rs) ==
    /\ s \in [Candidate -> Stamp]
    /\ \A id \in Candidate : s[id].matched \subseteq Facets(rs)

\* An assessment of all candidates gives good stamps.
LEMMA AppliedStamps ==
    ASSUME NEW s \in [Candidate -> Stamp], NEW rs \in Seq(Rule), NEW ts
    PROVE  GoodStamps(applySuppression(s, ts, rs), rs)
  <1> SUFFICES ASSUME NEW id \in Candidate
               PROVE  LET a == applySuppression(s, ts, rs)[id]
                      IN  a \in Stamp /\ a.matched \subseteq Facets(rs)
    BY DEF GoodStamps, applySuppression
  <1>1. s[id] \in Stamp
    OBVIOUS
  <1>2. assessSuppression(s[id], ts[id], rs, now) \in Stamp
        /\ assessSuppression(s[id], ts[id], rs, now).matched \subseteq Facets(rs)
    BY <1>1, Assessed
  <1> QED
    BY <1>2, StampFields DEF applySuppression

-----------------------------------------------------------------------------
\* Types.

\* The parts of the type invariant that an assessment is about.
LEMMA TypesByPart ==
    TypeOK <=>
    /\ now \in Time
    /\ GoodRules(rules)
    /\ traits \in [Candidate -> Traits \cup {Absent}]
    /\ GoodStamps(stamp, rules)
    /\ dispatched \subseteq Candidate
    /\ Unlocked \/ writing.id \in Candidate
  BY DEF TypeOK, GoodRules, OneRuleEach, GoodStamps

\* What every reader starts from is typed, and names rules on file.
LEMMA ReadType ==
    ASSUME TypeOK
    PROVE  GoodStamps(Read, rules)
  BY TypesByPart, AppliedStamps DEF Read, GoodRules, GoodStamps

\* The stamps put on file by the commands are those of an assessment.
LEMMA StampsOfStep ==
    ASSUME TypeOK, GoodRules(rules'),
           NEW s \in [Candidate -> Stamp], NEW ts, stamp' = applySuppression(s, ts, rules')
    PROVE  GoodStamps(stamp', rules')
  BY AppliedStamps DEF GoodRules

\* Ending an exemption keeps the stamps typed.
LEMMA UnexemptedType ==
    ASSUME TypeOK, NEW id \in Candidate
    PROVE  /\ Unexempted(id) \in [Candidate -> Stamp]
           /\ ~Unexempted(id)[id].exempt
           /\ \A other \in Candidate \ {id} : Unexempted(id)[other] = Read[other]
  <1>1. Read \in [Candidate -> Stamp]
    BY ReadType DEF GoodStamps
  <1> DEFINE open == [Read[id] EXCEPT !.exempt = FALSE]
  <1>2. open \in Stamp /\ ~open.exempt
    BY <1>1, OpenFields
  <1>3. Unexempted(id) = [Read EXCEPT ![id] = open]
    BY DEF Unexempted
  <1> HIDE DEF open
  <1> QED
    BY <1>1, <1>2, <1>3

\* A command to suppress leaves good rules, among them the one it is about.
LEMMA SuppressRules ==
    ASSUME TypeOK, NEW facet \in Facet, NEW expires \in Time \cup {Never},
           rules' = WithRule(facet, expires)
    PROVE  /\ GoodRules(rules')
           /\ RuleOf(facet) # {} => rules' = rules
           /\ RuleOf(facet) = {} => [facet |-> facet, expires |-> expires] \in RuleSet(rules')
  <1> DEFINE r == [facet |-> facet, expires |-> expires]
  <1>1. r \in Rule
    BY DEF Rule
  <1>2. GoodRules(rules)
    BY TypesByPart
  <1>3. CASE RuleOf(facet) # {}
    BY <1>2, <1>3 DEF WithRule
  <1>4. CASE RuleOf(facet) = {}
    <2>1. rules' = Limited(Append(rules, r))
      BY <1>4 DEF WithRule
    <2>2. r.facet \notin Facets(rules)
      BY <1>4 DEF RuleOf, Facets
    <2> HIDE DEF r
    <2>3. GoodRules(rules') /\ r \in RuleSet(rules')
      BY <1>1, <1>2, <2>1, <2>2, RuleAdded
    <2> QED
      BY <1>4, <2>3 DEF r
  <1> QED
    BY <1>3, <1>4

\* The states the demo starts in are typed.
LEMMA DemoTypes ==
    ASSUME NEW f \in [Demo -> Traits]
    PROVE  /\ [id \in Candidate |-> IF id \in Demo THEN f[id] ELSE Absent]
                 \in [Candidate -> Traits \cup {Absent}]
           /\ GoodStamps([id \in Candidate |-> Inactive], <<>>)
           /\ GoodRules(<<>>)
  <1>1. \A id \in Candidate : (IF id \in Demo THEN f[id] ELSE Absent) \in Traits \cup {Absent}
    OBVIOUS
  <1>2. GoodStamps([id \in Candidate |-> Inactive], <<>>)
    BY StampFields DEF GoodStamps
  <1>3. <<>> \in Seq(Rule) /\ Len(<<>>) = 0 /\ DOMAIN <<>> = {}
    OBVIOUS
  <1>4. GoodRules(<<>>)
    BY <1>3, SuppressionAssumption DEF GoodRules, OneRuleEach
  <1> QED
    BY <1>1, <1>2, <1>4

\* Every step keeps the types.
LEMMA TypeStep ==
    ASSUME TypeOK, [Next]_vars
    PROVE  TypeOK'
  <1> DEFINE Parts ==
         /\ now \in Time
         /\ GoodRules(rules)
         /\ traits \in [Candidate -> Traits \cup {Absent}]
         /\ GoodStamps(stamp, rules)
         /\ dispatched \subseteq Candidate
         /\ Unlocked \/ writing.id \in Candidate
  <1>0. Parts
    BY TypesByPart
  <1>r. GoodStamps(Read, rules) /\ Read \in [Candidate -> Stamp]
    BY ReadType DEF GoodStamps
  <1> SUFFICES Parts'
    BY TypesByPart, PTL
  <1>1. ASSUME NEW id \in Candidate, Suppress(id)
        PROVE  Parts'
    <2>1. PICK facet \in Facet, expires \in Time \cup {Never} : suppressCandidate(id, facet, expires)
      BY <1>1 DEF Suppress
    <2>2. GoodRules(rules')
      BY <2>1, SuppressRules DEF suppressCandidate
    <2>3. GoodStamps(stamp', rules')
      BY <2>1, <2>2, UnexemptedType, StampsOfStep DEF suppressCandidate
    <2> QED
      BY <1>0, <2>1, <2>2, <2>3 DEF suppressCandidate, Unlocked
  <1>2. ASSUME NEW id \in Candidate, restoreCandidate(id)
        PROVE  Parts'
    <2>1. [Read EXCEPT ![id] = Exempt] \in [Candidate -> Stamp]
      BY <1>r, StampFields
    <2>2. GoodStamps(stamp', rules')
      BY <1>0, <1>2, <2>1, StampsOfStep DEF restoreCandidate
    <2> QED
      BY <1>0, <1>2, <2>2 DEF restoreCandidate, Unlocked
  <1>3. ASSUME NEW id \in Candidate, DispatchVerification(id)
        PROVE  Parts'
    BY <1>0, <1>3 DEF DispatchVerification, Unlocked
  <1>4. ASSUME NEW id \in Candidate, Verify(id)
        PROVE  Parts'
    BY <1>0, <1>r, <1>4 DEF Verify, Corrected
  <1>5. ASSUME NEW id \in Candidate, Add(id)
        PROVE  Parts'
    BY <1>0, <1>r, <1>5 DEF Add
  <1>6. ASSUME NEW id \in Candidate, OtherCommand(id)
        PROVE  Parts'
    BY <1>0, <1>r, <1>6 DEF OtherCommand, Unlocked
  <1>7. ASSUME NEW i \in DOMAIN rules, removeSuppressionRule(i)
        PROVE  Parts'
    <2>1. GoodRules(rules')
      BY <1>0, <1>7, RuleRemoved DEF removeSuppressionRule
    <2>2. GoodStamps(stamp', rules')
      BY <1>r, <1>7, <2>1, StampsOfStep DEF removeSuppressionRule
    <2> QED
      BY <1>0, <1>7, <2>1, <2>2 DEF removeSuppressionRule, Unlocked
  <1>8. CASE WriteAgain
    <2>1. GoodStamps(stamp', rules')
      BY <1>0, <1>8, StampsOfStep DEF WriteAgain, GoodStamps
    <2>2. traits' \in [Candidate -> Traits \cup {Absent}]
      BY <1>0, <1>8 DEF WriteAgain
    <2> QED
      BY <1>0, <1>8, <2>1, <2>2 DEF WriteAgain, Unlocked
  <1>9. CASE Crash
    BY <1>0, <1>9 DEF Crash, Unlocked
  <1>10. CASE ResetDemo
    <2>1. PICK f \in [Demo -> Traits] :
              traits' = [id \in Candidate |-> IF id \in Demo THEN f[id] ELSE Absent]
      BY <1>10 DEF ResetDemo
    <2>2. rules' = <<>> /\ stamp' = [id \in Candidate |-> Inactive]
      BY <1>10 DEF ResetDemo
    <2>3. GoodRules(rules') /\ GoodStamps(stamp', rules')
          /\ traits' \in [Candidate -> Traits \cup {Absent}]
      BY <2>1, <2>2, DemoTypes
    <2> QED
      BY <1>0, <1>10, <2>3 DEF ResetDemo, Unlocked
  <1>11. CASE Tick
    <2>1. now + 1 \in Time
      BY <1>0, <1>11, SuppressionAssumption DEF Tick, Time
    <2> QED
      BY <1>0, <1>11, <2>1 DEF Tick, Unlocked
  <1>12. CASE UNCHANGED vars
    BY <1>0, <1>12 DEF vars, Unlocked
  <1> HIDE DEF Parts
  <1> QED
    BY <1>1, <1>2, <1>3, <1>4, <1>5, <1>6, <1>7, <1>8, <1>9, <1>10, <1>11, <1>12 DEF Next

\* Types; no axis and value ever has two rules, however many come and go,
\* their number stays within the limit, and no stamp on file names a rule
\* that is gone (addSuppressionRule, applySuppressionToState).
THEOREM TypeInvariant == Spec => []TypeOK
  <1>1. Init => TypeOK
    <2> SUFFICES ASSUME Init
                 PROVE  TypeOK
      OBVIOUS
    <2>1. PICK f \in [Demo -> Traits] :
              traits = [id \in Candidate |-> IF id \in Demo THEN f[id] ELSE Absent]
      BY DEF Init
    <2>2. now \in Time
      BY SuppressionAssumption DEF Init, Time
    <2>3. rules = <<>> /\ stamp = [id \in Candidate |-> Inactive]
      BY DEF Init
    <2>4. GoodRules(rules) /\ GoodStamps(stamp, rules)
          /\ traits \in [Candidate -> Traits \cup {Absent}]
      BY <2>1, <2>3, DemoTypes
    <2> QED
      BY <2>2, <2>4, TypesByPart DEF Init, Unlocked
  <1>2. TypeOK /\ [Next]_vars => TypeOK'
    BY TypeStep
  <1> QED
    BY <1>1, <1>2, PTL DEF Spec

-----------------------------------------------------------------------------
\* What the next reader finds.

\* What the assessment makes of the stamp a step leaves, where the candidate
\* is present: an exemption stays, a rule that matches hides, and where none
\* does only a rule named on the stamp goes on hiding.
LEMMA NextReader ==
    ASSUME TypeOK', NEW id \in Candidate, Present(id)'
    PROVE  /\ Read[id]'.exempt = stamp'[id].exempt
           /\ stamp'[id].exempt => ~Read[id]'.active
           /\ ~stamp'[id].exempt /\ matchingRules(traits[id], rules, now)' # {} => Read[id]'.active
           /\ ~stamp'[id].exempt /\ matchingRules(traits[id], rules, now)' = {} =>
                 (Read[id]'.active <=>
                     stamp'[id].active /\ rulesStillStanding(stamp[id], rules, now)')
  <1> DEFINE a == assessSuppression(stamp[id], traits[id], rules, now)'
  <1>1. Read[id]' = a
    BY DEF Read, applySuppression, Present
  <1>2. stamp'[id] \in Stamp /\ rules' \in Seq(Rule)
    BY DEF TypeOK
  <1>3. /\ a.exempt = stamp'[id].exempt
        /\ stamp'[id].exempt => a = Exempt
        /\ ~stamp'[id].exempt /\ matchingRules(traits[id], rules, now)' # {} => a.active
        /\ ~stamp'[id].exempt /\ matchingRules(traits[id], rules, now)' = {} =>
              (a.active <=> stamp'[id].active /\ rulesStillStanding(stamp[id], rules, now)')
    BY <1>2, Assessed
  <1> QED
    BY <1>1, <1>3, StampFields

\* The same of the state before the step.
LEMMA ThisReader ==
    ASSUME TypeOK, NEW id \in Candidate, Present(id)
    PROVE  /\ Read[id] \in Stamp
           /\ Read[id].exempt = stamp[id].exempt
           /\ stamp[id].exempt => ~Read[id].active
           /\ ~stamp[id].exempt /\ matchingRules(traits[id], rules, now) # {} =>
                 Read[id].active /\ Read[id].matched = matchingRules(traits[id], rules, now)
  <1> DEFINE a == assessSuppression(stamp[id], traits[id], rules, now)
  <1>1. Read[id] = a
    BY DEF Read, applySuppression, Present
  <1>2. stamp[id] \in Stamp /\ rules \in Seq(Rule)
    BY DEF TypeOK
  <1>3. /\ a \in Stamp
        /\ a.exempt = stamp[id].exempt
        /\ stamp[id].exempt => a = Exempt
        /\ ~stamp[id].exempt /\ matchingRules(traits[id], rules, now) # {} =>
              a.active /\ a.matched = matchingRules(traits[id], rules, now)
    BY <1>2, Assessed
  <1> QED
    BY <1>1, <1>3, StampFields

\* The four things a step can do to one candidate: leave its traits, take it
\* away, correct its traits and keep everything else, or reset the demo.
LEMMA FourKinds ==
    ASSUME [Next]_vars, NEW id \in Candidate, Present(id), TypeOK
    PROVE  \/ traits'[id] = traits[id]
           \/ ~Present(id)'
           \/ rules' = rules /\ now' = now /\ stamp' = Read
           \/ rules' = <<>> /\ stamp'[id] = Inactive
  <1> DEFINE Goal == \/ traits'[id] = traits[id]
                     \/ ~Present(id)'
                     \/ rules' = rules /\ now' = now /\ stamp' = Read
                     \/ rules' = <<>> /\ stamp'[id] = Inactive
  <1> SUFFICES Goal
    OBVIOUS
  <1>1. ASSUME NEW c \in Candidate, Suppress(c)
        PROVE  Goal
    BY <1>1 DEF Suppress, suppressCandidate
  <1>2. ASSUME NEW c \in Candidate, restoreCandidate(c) \/ DispatchVerification(c) \/ OtherCommand(c)
        PROVE  Goal
    BY <1>2 DEF restoreCandidate, DispatchVerification, OtherCommand
  <1>3. ASSUME NEW c \in Candidate, Verify(c)
        PROVE  Goal
    BY <1>3 DEF Verify
  <1>4. ASSUME NEW c \in Candidate, Add(c)
        PROVE  Goal
    BY <1>4 DEF Add
  <1>5. CASE WriteAgain
    <2>1. CASE UNCHANGED traits
      BY <2>1
    <2>2. CASE traits' = [traits EXCEPT ![writing.id] = Absent]
      BY <2>2 DEF TypeOK, Present
    <2> QED
      BY <1>5, <2>1, <2>2 DEF WriteAgain
  <1>6. CASE ResetDemo
    BY <1>6 DEF ResetDemo
  <1>7. CASE Crash \/ Tick \/ UNCHANGED vars
    BY <1>7 DEF Crash, Tick, vars
  <1>8. ASSUME NEW i \in DOMAIN rules, removeSuppressionRule(i)
        PROVE  Goal
    BY <1>8 DEF removeSuppressionRule
  <1> HIDE DEF Goal
  <1> QED
    BY <1>1, <1>2, <1>3, <1>4, <1>5, <1>6, <1>7, <1>8 DEF Next

\* A candidate some rule matched stays hidden in a step that leaves the
\* rules it has been hidden by in force and does not exempt it.
LEMMA HiddenStep ==
    ASSUME TypeOK, TypeOK', [Next]_vars,
           NEW id \in Candidate, ComesBack(id), ~Drifted(id), ~RuleWithdrawn(id)
    PROVE  Read[id].exempt'
  <1> DEFINE M == matchingRules(traits[id], rules, now)
  <1>1. Present(id) /\ Read[id].active /\ Present(id)' /\ ~Read[id]'.active
    BY DEF ComesBack, Hidden, Shown
  <1>2. M # {}
    BY DEF Drifted, ComesBack
  <1>3. /\ ~stamp[id].exempt
        /\ Read[id] \in Stamp
        /\ ~Read[id].exempt /\ Read[id].active /\ Read[id].matched = M
    BY <1>1, <1>2, ThisReader
  <1>4. PICK r \in Live(rules, now) : r.facet \in M /\ traits[id][r.facet.axis] = r.facet.value
    BY <1>2 DEF matchingRules
  <1>5. r \in Live(rules', now')
    BY <1>4 DEF RuleWithdrawn, Named
  <1>6. /\ Read[id]'.exempt = stamp'[id].exempt
        /\ ~stamp'[id].exempt => matchingRules(traits[id], rules, now)' = {}
        /\ ~stamp'[id].exempt => ~(stamp'[id].active /\ rulesStillStanding(stamp[id], rules, now)')
    BY <1>1, NextReader
  <1>7. CASE traits'[id] = traits[id]
    <2>1. r.facet \in matchingRules(traits[id], rules, now)'
      BY <1>4, <1>5, <1>7 DEF matchingRules
    <2> QED
      BY <1>6, <2>1
  <1>8. CASE rules' = rules /\ now' = now /\ stamp' = Read
    <2>1. stamp'[id].active /\ r.facet \in stamp'[id].matched
      BY <1>3, <1>4, <1>8
    <2>2. rulesStillStanding(stamp[id], rules, now)'
      BY <1>5, <2>1 DEF rulesStillStanding
    <2> QED
      BY <1>6, <2>1, <2>2
  <1>9. CASE rules' = <<>>
    BY <1>5, <1>9 DEF Live, RuleSet
  <1> QED
    BY <1>1, <1>7, <1>8, <1>9, FourKinds

\* A suppression is honoured until it is reversed: as long as the identity of
\* a hidden candidate is matched by a rule, it comes back only because it was
\* restored or a rule that hid it is no longer in force.
THEOREM HiddenStaysHidden == Spec => HiddenUntilReversed
  <1>1. TypeOK /\ TypeOK' /\ [Next]_vars =>
            [\A id \in Candidate :
                 ComesBack(id) /\ ~Drifted(id) => Read[id].exempt' \/ RuleWithdrawn(id)]_vars
    <2> SUFFICES ASSUME TypeOK, TypeOK', [Next]_vars,
                        NEW id \in Candidate, ComesBack(id), ~Drifted(id), ~RuleWithdrawn(id)
                 PROVE  Read[id].exempt'
      OBVIOUS
    <2> QED
      BY HiddenStep
  <1> QED
    BY <1>1, TypeInvariant, PTL DEF Spec, HiddenUntilReversed

-----------------------------------------------------------------------------
\* The owner's commands.

\* Who is exempt, is present and is not the one a suppression is given for
\* is exempt after every step that does not take the candidate away.
LEMMA ExemptionKept ==
    ASSUME TypeOK, [Next]_vars,
           NEW id \in Candidate, Present(id), Read[id].exempt, ~Suppress(id)
    PROVE  \/ ~Present(id)'
           \/ stamp'[id].exempt
           \/ rules' = <<>> /\ stamp'[id] = Inactive
  <1> DEFINE Goal == \/ ~Present(id)'
                     \/ stamp'[id].exempt
                     \/ rules' = <<>> /\ stamp'[id] = Inactive
  <1> SUFFICES Goal
    OBVIOUS
  <1>1. /\ stamp[id].exempt
        /\ Read \in [Candidate -> Stamp]
        /\ stamp \in [Candidate -> Stamp]
        /\ rules \in Seq(Rule)
    BY ThisReader, ReadType DEF GoodStamps, TypeOK
  <1>2. ASSUME NEW s \in [Candidate -> Stamp], s[id].exempt,
               NEW ts, NEW rs \in Seq(Rule), ts[id] # Absent,
               stamp' = applySuppression(s, ts, rs)
        PROVE  Goal
    <2>1. stamp'[id] = assessSuppression(s[id], ts[id], rs, now)
      BY <1>2 DEF applySuppression
    <2> DEFINE a == assessSuppression(s[id], ts[id], rs, now)
    <2>2. s[id] \in Stamp
      BY <1>2
    <2>3. a.exempt = s[id].exempt
      BY <2>2, Assessed
    <2> QED
      BY <1>2, <2>1, <2>3
  <1>3. ASSUME NEW c \in Candidate, Suppress(c)
        PROVE  Goal
    <2>1. c # id
      BY <1>3
    <2>2. PICK facet \in Facet, expires \in Time \cup {Never} : suppressCandidate(c, facet, expires)
      BY <1>3 DEF Suppress
    <2>3. rules' \in Seq(Rule)
      BY <2>2, SuppressRules DEF suppressCandidate, GoodRules
    <2>4. Unexempted(c) \in [Candidate -> Stamp] /\ Unexempted(c)[id].exempt
      BY <2>1, UnexemptedType
    <2> QED
      BY <1>2, <2>2, <2>3, <2>4 DEF suppressCandidate, Present
  <1>4. ASSUME NEW c \in Candidate, restoreCandidate(c)
        PROVE  Goal
    <2> DEFINE s == [Read EXCEPT ![c] = Exempt]
    <2>1. s \in [Candidate -> Stamp] /\ s[id].exempt
      BY <1>1, StampFields
    <2>2. stamp' = applySuppression(s, traits, rules)
      BY <1>4 DEF restoreCandidate
    <2> HIDE DEF s
    <2> QED
      BY <1>1, <1>2, <2>1, <2>2 DEF Present
  <1>5. ASSUME NEW i \in DOMAIN rules, removeSuppressionRule(i)
        PROVE  Goal
    <2>1. rules' \in Seq(Rule)
      BY <1>5, RuleRemoved, TypesByPart DEF removeSuppressionRule, GoodRules
    <2> QED
      BY <1>1, <1>2, <1>5, <2>1 DEF removeSuppressionRule, Present
  <1>6. CASE WriteAgain
    <2>1. CASE Present(id)'
      BY <1>1, <1>2, <1>6, <2>1 DEF WriteAgain, Present
    <2> QED
      BY <2>1
  <1>7. ASSUME NEW c \in Candidate, DispatchVerification(c)
        PROVE  Goal
    BY <1>1, <1>7 DEF DispatchVerification
  <1>8. ASSUME NEW c \in Candidate, Verify(c) \/ Add(c) \/ OtherCommand(c)
        PROVE  Goal
    <2>1. stamp' = Read
      BY <1>8 DEF Verify, Add, OtherCommand
    <2> QED
      BY <2>1
  <1>9. CASE ResetDemo
    BY <1>9 DEF ResetDemo
  <1>10. CASE Crash \/ Tick \/ UNCHANGED vars
    BY <1>1, <1>10 DEF Crash, Tick, vars
  <1> HIDE DEF Goal
  <1> QED
    BY <1>3, <1>4, <1>5, <1>6, <1>7, <1>8, <1>9, <1>10 DEF Next

\* What the owner has restored stays on the first screen until the owner
\* suppresses that very candidate again: no other rule, correction, reset or
\* crash hides it.
THEOREM RestoredStaysShown == Spec => RestoredUntilSuppressed
  <1>1. TypeOK /\ TypeOK' /\ [Next]_vars =>
            [\A id \in Candidate :
                 Present(id) /\ Read[id].exempt /\ Hidden(id)' => Suppress(id)]_vars
    <2> SUFFICES ASSUME TypeOK, TypeOK', [Next]_vars,
                        NEW id \in Candidate, Present(id), Read[id].exempt, Hidden(id)',
                        ~Suppress(id)
                 PROVE  FALSE
      OBVIOUS
    <2>1. Present(id)' /\ Read[id]'.active
      BY DEF Hidden
    <2>2. CASE stamp'[id].exempt
      BY <2>1, <2>2, NextReader
    <2>3. CASE rules' = <<>> /\ stamp'[id] = Inactive
      <3>1. RuleSet(rules') = {}
        BY <2>3 DEF RuleSet
      <3>2. matchingRules(traits[id], rules, now)' = {}
        BY <3>1 DEF matchingRules, Live
      <3>3. ~stamp'[id].active /\ ~stamp'[id].exempt
        BY <2>3, StampFields
      <3> QED
        BY <2>1, <3>2, <3>3, NextReader
    <2> QED
      BY <2>1, <2>2, <2>3, ExemptionKept
  <1> QED
    BY <1>1, TypeInvariant, PTL DEF Spec, RestoredUntilSuppressed

\* A suppression with an expiry that leads to a rule in force leaves one on
\* file, also when the oldest rule had to go for it.
LEMMA RuleInForce ==
    ASSUME TypeOK, NEW id \in Candidate, NEW facet \in Facet, NEW expires \in InForce(facet),
           suppressCandidate(id, facet, expires)
    PROVE  \E r \in Live(rules', now) : r.facet = facet
  <1>1. CASE RuleOf(facet) = {}
    <2> DEFINE r == [facet |-> facet, expires |-> expires]
    <2>1. expires \in Time \cup {Never} /\ (expires = Never \/ now < expires)
      BY <1>1 DEF InForce
    <2>2. r \in RuleSet(rules')
      BY <1>1, <2>1, SuppressRules DEF suppressCandidate
    <2>3. ~ruleIsExpired(r, now)
      BY <2>1, SuppressionAssumption DEF ruleIsExpired, TypeOK, Time
    <2> QED
      BY <2>2, <2>3 DEF Live
  <1>2. CASE RuleOf(facet) # {}
    <2>1. PICK r \in RuleOf(facet) \cap Live(rules, now) : TRUE
      BY <1>2 DEF InForce
    <2>2. rules' = rules
      BY <1>2 DEF suppressCandidate, WithRule
    <2> QED
      BY <2>1, <2>2 DEF RuleOf
  <1> QED
    BY <1>1, <1>2

\* It hides every candidate on that axis and value that is the one it is
\* given for, or is not exempt.
LEMMA SuppressionHides ==
    ASSUME TypeOK, TypeOK',
           NEW id \in Candidate, NEW facet \in Facet, NEW expires \in InForce(facet),
           suppressCandidate(id, facet, expires),
           NEW other \in Candidate, Present(other),
           traits[other][facet.axis] = facet.value, other = id \/ ~Read[other].exempt
    PROVE  Hidden(other)'
  <1>1. PICK r \in Live(rules', now) : r.facet = facet
    BY RuleInForce
  <1>2. traits' = traits /\ now' = now
    BY DEF suppressCandidate
  <1>3. matchingRules(traits[other], rules, now)' # {}
    BY <1>1, <1>2 DEF matchingRules
  <1> DEFINE s == Unexempted(id)
             a == assessSuppression(s[other], traits[other], rules', now)
  <1>4. s \in [Candidate -> Stamp] /\ ~s[other].exempt
    BY UnexemptedType
  <1>5. stamp'[other] = a
    BY DEF suppressCandidate, applySuppression, Present
  <1>6. s[other] \in Stamp /\ rules' \in Seq(Rule)
    BY <1>4 DEF TypeOK
  <1>7. a.exempt = s[other].exempt
    BY <1>6, Assessed
  <1>8. ~stamp'[other].exempt /\ Present(other)'
    BY <1>2, <1>4, <1>5, <1>7 DEF Present
  <1> QED
    BY <1>3, <1>8, NextReader DEF Hidden

\* Removing a rule releases the candidates no other rule matches.
LEMMA RemovalShows ==
    ASSUME TypeOK, TypeOK', NEW i \in DOMAIN rules, removeSuppressionRule(i),
           NEW id \in Candidate, Present(id), matchingRules(traits[id], rules', now) = {}
    PROVE  Shown(id)'
  <1> DEFINE a == assessSuppression(Read[id], traits[id], rules', now)
  <1>1. traits' = traits /\ now' = now
    BY DEF removeSuppressionRule
  <1>2. stamp'[id] = a
    BY DEF removeSuppressionRule, applySuppression, Present
  <1>3. Read[id] \in Stamp /\ rules' \in Seq(Rule) /\ stamp'[id] \in Stamp
    BY ReadType DEF GoodStamps, TypeOK
  <1>4. /\ a.exempt = Read[id].exempt
        /\ ~Read[id].exempt => a.matched = {}
    BY <1>3, Assessed
  <1>5. Present(id)' /\ matchingRules(traits[id], rules, now)' = {}
    BY <1>1 DEF Present
  <1>6. CASE stamp'[id].exempt
    BY <1>5, <1>6, NextReader DEF Shown
  <1>7. CASE ~stamp'[id].exempt
    <2>1. stamp'[id].matched = {}
      BY <1>2, <1>4, <1>7
    <2>2. ~rulesStillStanding(stamp[id], rules, now)'
      BY <2>1 DEF rulesStillStanding
    <2> QED
      BY <1>5, <1>7, <2>2, NextReader DEF Shown
  <1> QED
    BY <1>6, <1>7

\* What the owner asks for happens: a suppression hides everything it is
\* about, at once, and the removal of a rule releases everything that no
\* other rule matches, also a candidate whose identity drifted meanwhile.
THEOREM CommandsHappen == Spec => CommandsTakeEffect
  <1>1. TypeOK /\ TypeOK' /\ [Next]_vars =>
            [\A id \in Candidate, facet \in Facet :
                (\E expires \in InForce(facet) : suppressCandidate(id, facet, expires))
                => \A other \in Candidate :
                       /\ Present(other) /\ traits[other][facet.axis] = facet.value
                       /\ other = id \/ ~Read[other].exempt
                       => Hidden(other)']_vars
    <2> SUFFICES ASSUME TypeOK, TypeOK',
                        NEW id \in Candidate, NEW facet \in Facet,
                        \E expires \in InForce(facet) : suppressCandidate(id, facet, expires),
                        NEW other \in Candidate, Present(other),
                        traits[other][facet.axis] = facet.value, other = id \/ ~Read[other].exempt
                 PROVE  Hidden(other)'
      OBVIOUS
    <2>1. PICK expires \in InForce(facet) : suppressCandidate(id, facet, expires)
      OBVIOUS
    <2> QED
      BY <2>1, SuppressionHides
  <1>2. TypeOK /\ TypeOK' /\ [Next]_vars =>
            [\A i \in DOMAIN rules :
                removeSuppressionRule(i) =>
                    \A id \in Candidate :
                        Present(id) /\ matchingRules(traits[id], rules', now) = {} => Shown(id)']_vars
    <2> SUFFICES ASSUME TypeOK, TypeOK', NEW i \in DOMAIN rules, removeSuppressionRule(i),
                        NEW id \in Candidate, Present(id),
                        matchingRules(traits[id], rules', now) = {}
                 PROVE  Shown(id)'
      OBVIOUS
    <2> QED
      BY RemovalShows
  <1>3. Spec => SuppressionTakesEffect
    BY <1>1, TypeInvariant, PTL DEF Spec, SuppressionTakesEffect
  <1>4. Spec => RemovalReleases
    BY <1>2, TypeInvariant, PTL DEF Spec, RemovalReleases
  <1> QED
    BY <1>3, <1>4 DEF CommandsTakeEffect

=============================================================================
