----------------------------- MODULE FirstScreen -----------------------------
(***************************************************************************)
(* What the owner is shown of the portfolio.  The read model makes two     *)
(* lists: the cards, which selectFirstScreen picks among the five          *)
(* candidates of the inbox, and the excluded ones, which it names when it  *)
(* picks among all of them.  The owner's commands change the portfolio     *)
(* under both lists; only a candidate on a card can be sent to a           *)
(* specialist.                                                             *)
(*                                                                         *)
(* Scores are distinct: Ranked lists the candidates from the highest score *)
(* down.  Every candidate is owner-supplied or a fixture above the review  *)
(* floor, so the floor excludes nobody.  What makes a duplicate is in      *)
(* CommandStore, what a rule hides in Suppression: here any addition or    *)
(* verification may find a duplicate and any candidate may be hidden or    *)
(* released.                                                               *)
(***************************************************************************)
EXTENDS Naturals, FiniteSets, Sequences, Functions

CONSTANTS
    Candidate, Lane, Curiosity,
    Ranked,      \* the candidates by descending opportunity score
    Demo,        \* the fixture candidates
    Limit,       \* FIRST_SCREEN_LIMIT and the length of the inbox
    LaneCap      \* cards of one lane

ASSUME FirstScreenAssumption ==
    /\ Ranked \in Seq(Candidate) /\ Range(Ranked) = Candidate /\ IsInjective(Ranked)
    /\ Demo \subseteq Candidate /\ Curiosity \in Lane
    /\ Limit \in Nat \ {0} /\ LaneCap \in Nat \ {0}

VARIABLES
    state,        \* "absent", or the workflow state as far as the lists tell
    lane,
    blocked,      \* riskLevel = blocked
    suppressed,   \* suppression.active
    pending       \* the candidates under duplicate review, last updated first

vars == <<state, lane, blocked, suppressed, pending>>

\* "decided" is held or rejected; "open" stands for every other state, approved
\* included: the lists treat them alike.
State == {"absent", "open", "duplicate_review", "suppressed_duplicate", "decided"}
Present == {c \in Candidate : state[c] # "absent"}

Init ==
    /\ state = [c \in Candidate |-> IF c \in Demo THEN "open" ELSE "absent"]
    /\ lane \in [Candidate -> Lane]
    /\ blocked = [c \in Candidate |-> FALSE]
    /\ suppressed = [c \in Candidate |-> FALSE]
    /\ pending = <<>>

-----------------------------------------------------------------------------
\* selectFirstScreen.

Only(seq, set) ==
    LET kept[i \in 0 .. Len(seq)] ==
            IF i = 0 THEN <<>>
            ELSE IF seq[i] \in set THEN Append(kept[i - 1], seq[i])
            ELSE kept[i - 1]
    IN  kept[Len(seq)]

CardsOf(l, cards) == Cardinality({i \in DOMAIN cards : lane[cards[i]] = l})

Eligible(c) == ~blocked[c] /\ state[c] # "decided" /\ ~suppressed[c]

\* Bug: the curiosity-only lane is capped like any other.
ReasonOfAnyLane(c, cards, capped) ==
    CASE ~Eligible(c)         -> "excluded"
      [] Len(cards) >= Limit  -> "beyond_first_screen"
      [] capped /\ CardsOf(lane[c], cards) >= LaneCap -> "lane_concentration"
      [] OTHER                -> "none"

\* Why c gets no card after those before it, or "none".
Reason(c, cards, capped) ==
    CASE blocked[c]                        -> "risk_blocked"
      [] state[c] = "decided"       -> "owner_decision"
      [] suppressed[c]                     -> "owner_suppressed"
      [] Len(cards) >= Limit               -> "beyond_first_screen"
      [] capped /\ lane[c] = Curiosity /\ CardsOf(lane[c], cards) >= 1 -> "lane_cap"
      [] capped /\ CardsOf(lane[c], cards) >= LaneCap -> "lane_concentration"
      [] OTHER                             -> "none"

\* The caps hold only when the candidates given are of several lanes.
Capped(set) == Cardinality({lane[c] : c \in set}) > 1

\* The walk along the candidates of set in the order of their scores.
selectFirstScreen(set) ==
    LET capped == Capped(set)
        cards[i \in 0 .. Len(Ranked)] ==
            IF i = 0 THEN <<>>
            ELSE IF Ranked[i] \in set /\ Reason(Ranked[i], cards[i - 1], capped) = "none"
                 THEN Append(cards[i - 1], Ranked[i])
            ELSE cards[i - 1]
    IN  cards[Len(Ranked)]

-----------------------------------------------------------------------------
\* todayFromState.

activeCandidates == {c \in Present : state[c] # "suppressed_duplicate"}

\* Bug: the inbox holds the highest scores alone.
InboxByScore ==
    LET line == Only(Ranked, activeCandidates)
    IN  Range(SubSeq(line, 1, IF Len(line) < Limit THEN Len(line) ELSE Limit))

\* Bug: decided candidates leave the inbox, and their lanes the count.
InboxOfUndecided ==
    LET line == pending \o Only(Ranked, {c \in activeCandidates \ Range(pending) : Eligible(c)})
    IN  Range(SubSeq(line, 1, IF Len(line) < Limit THEN Len(line) ELSE Limit))

\* Reviews that wait for the owner come first, then the highest scores.
selectInboxCandidates ==
    LET line == pending \o Only(Ranked, activeCandidates \ Range(pending))
    IN  Range(SubSeq(line, 1, IF Len(line) < Limit THEN Len(line) ELSE Limit))

Cards == Range(selectFirstScreen(selectInboxCandidates))

\* Bug: the excluded ones are those of the inbox.
ExcludedFromInbox == selectInboxCandidates \ Cards

Excluded == activeCandidates \ Range(selectFirstScreen(activeCandidates))

EmptyReason == selectFirstScreen(activeCandidates) = <<>>

-----------------------------------------------------------------------------
\* The commands.

\* Bug: a resolved review stays on the list of reviews.
BecomesBesides(c, s) ==
    /\ state' = [state EXCEPT ![c] = s]
    /\ pending' = IF s = "duplicate_review" THEN <<c>> \o Only(pending, Candidate \ {c}) ELSE pending

\* c takes workflow state s; a duplicate review is the latest update.
Becomes(c, s) ==
    /\ state' = [state EXCEPT ![c] = s]
    /\ LET others == Only(pending, Candidate \ {c})
       IN  pending' = IF s = "duplicate_review" THEN <<c>> \o others ELSE others

\* applySuppressionToState, on a new identity.
MatchedAnew(c) == \E match \in BOOLEAN : suppressed' = [suppressed EXCEPT ![c] = match]

AddManualCandidate(c) ==
    /\ c \notin Present
    /\ \E s \in {"open", "duplicate_review"} : Becomes(c, s)
    /\ MatchedAnew(c)
    /\ UNCHANGED <<lane, blocked>>

\* candidateFromToday finds cards only.
Dispatchable(c) == c \in Cards

\* Unresolved media rights block the candidate, resolved ones release it.
RequestVerification(c) ==
    /\ state[c] = "open" /\ Dispatchable(c)
    /\ \E risk \in BOOLEAN : blocked' = [blocked EXCEPT ![c] = risk]
    /\ \E s \in {"open", "duplicate_review", "suppressed_duplicate"} : Becomes(c, s)
    /\ MatchedAnew(c)
    /\ UNCHANGED lane

\* The owner may hold or reject any candidate that awaits no review.  One that
\* carries content comes back by an approval or an edit sent under its id.
ReviewDecision(c) ==
    /\ c \in Present /\ state[c] # "duplicate_review"
    /\ \/ Becomes(c, "decided")
       \/ state[c] = "decided" /\ ~blocked[c] /\ Becomes(c, "open")
    /\ UNCHANGED <<lane, blocked, suppressed>>

ResolveDuplicate(c) ==
    /\ state[c] = "duplicate_review"
    /\ \E s \in {"open", "suppressed_duplicate"} : Becomes(c, s)
    /\ UNCHANGED <<lane, blocked, suppressed>>

\* A command about a review makes it the latest update.
Touched(c) ==
    IF c \in Range(pending) THEN <<c>> \o Only(pending, Candidate \ {c}) ELSE pending

\* The rule hides whatever it matches, and not c if the owner gives another
\* value; beyond the limit on rules the oldest is dropped and releases its own.
SuppressCandidate(c) ==
    /\ c \in Present
    /\ \E hidden \in SUBSET Present : suppressed' = [d \in Candidate |-> d \in hidden]
    /\ pending' = Touched(c)
    /\ UNCHANGED <<state, lane, blocked>>

RestoreCandidate(c) ==
    /\ c \in Present /\ suppressed[c]
    /\ suppressed' = [suppressed EXCEPT ![c] = FALSE]
    /\ pending' = Touched(c)
    /\ UNCHANGED <<state, lane, blocked>>

\* remove_suppression_rule, or a rule has expired when the state is next read:
\* what it alone has hidden is released.
RulesEnd ==
    /\ \E released \in SUBSET {d \in Present : suppressed[d]} :
           suppressed' = [d \in Candidate |-> suppressed[d] /\ d \notin released]
    /\ UNCHANGED <<state, lane, blocked, pending>>

ResetDemo ==
    /\ state' = [c \in Candidate |-> IF c \in Demo THEN "open" ELSE "absent"]
    /\ blocked' = [c \in Candidate |-> FALSE]
    /\ suppressed' = [c \in Candidate |-> FALSE]
    /\ pending' = <<>>
    /\ UNCHANGED lane

Next ==
    \/ ResetDemo \/ RulesEnd
    \/ \E c \in Candidate :
          \/ AddManualCandidate(c) \/ RequestVerification(c) \/ ReviewDecision(c)
          \/ ResolveDuplicate(c)
          \/ SuppressCandidate(c) \/ RestoreCandidate(c)

Spec == Init /\ [][Next]_vars

-----------------------------------------------------------------------------
TypeOK ==
    /\ state \in [Candidate -> State] /\ lane \in [Candidate -> Lane]
    /\ blocked \in [Candidate -> BOOLEAN] /\ suppressed \in [Candidate -> BOOLEAN]
    /\ pending \in Seq(Candidate) /\ IsInjective(pending)
    /\ Range(pending) = {c \in Candidate : state[c] = "duplicate_review"}

Rank == [c \in Candidate |-> CHOOSE i \in DOMAIN Ranked : Ranked[i] = c]
Before(c) == {d \in Candidate : Rank[d] < Rank[c]}
NewerThan(c) == {pending[i] : i \in 1 .. (CHOOSE j \in DOMAIN pending : pending[j] = c) - 1}

\* What the rules ask for, said without the loop of selectFirstScreen: the best
\* of each lane up to its cap, and of these the best up to the limit.
CapOf(l) == IF l = Curiosity THEN 1 ELSE LaneCap
Admitted(set) ==
    {c \in set : Eligible(c)
        /\ (Capped(set) =>
              Cardinality({d \in set \cap Before(c) : Eligible(d) /\ lane[d] = lane[c]}) < CapOf(lane[c]))}
Best(set) == {c \in Admitted(set) : Cardinality(Admitted(set) \cap Before(c)) < Limit}

\* The loop picks what the rules ask for, in the order of the scores.
SelectionFollowsTheRules ==
    \A set \in {activeCandidates, selectInboxCandidates} :
        selectFirstScreen(set) = Only(Ranked, Best(set))

\* A pending duplicate review is not hidden by a mere score
\* (docs/implementation/CANDIDATE_DEDUPE_ACCEPTANCE.md:85): one that nothing
\* else excludes has a card unless the inbox is full of newer reviews or the
\* cards of its lane go to higher scores.
PendingIsNotOutscored ==
    \A c \in Range(pending) :
        Eligible(c) /\ c \notin Cards =>
            \/ Cardinality(NewerThan(c)) >= Limit
            \/ \E d \in Cards : lane[d] = lane[c] /\ d \in Before(c)

\* A candidate that is on neither list, so that nothing says where it went
\* (apps/web/application-state.mjs:725), is an eligible one that was crowded out
\* of the inbox by a candidate that is itself excluded or by a review of lower
\* score.
MissingOnlyWhenCrowded ==
    \A c \in activeCandidates \ (Cards \cup Excluded) :
        /\ Eligible(c) /\ c \notin selectInboxCandidates
        /\ \E d \in selectInboxCandidates : d \in Excluded \/ d \notin Before(c)

\* A candidate the owner has hidden is always among the excluded ones, where
\* the client offers to restore it, however low its score.
HiddenStaysRestorable ==
    \A c \in activeCandidates : suppressed[c] => c \in Excluded \ Cards

\* "Nothing to recommend today" is never said over a screen with cards.
EmptyReasonIsTrue == EmptyReason => Cards = {}

\* Nothing is missing without a reason: what is on neither list was crowded out,
\* what is hidden can be restored, and "nothing to recommend" is said only then.
AbsenceIsExplained == MissingOnlyWhenCrowded /\ HiddenStaysRestorable /\ EmptyReasonIsTrue

\* As soon as the cards are of two lanes, one card at most is curiosity-only
\* and no lane exceeds its cap.
DiversityOnScreen ==
    Capped(Cards) =>
        \A l \in Lane : Cardinality({c \in Cards : lane[c] = l}) <= CapOf(l)

\* The cards are the ones the rules ask for, and diverse wherever they can be.
CardsFollowTheRules == SelectionFollowsTheRules /\ DiversityOnScreen

\* Holding, rejecting or hiding one candidate never takes the card of another,
\* as long as it brings no review into the inbox from behind: a command about
\* one that waits there would make it the first.
OthersStayOnScreen ==
    [][\A c \in Candidate :
          /\ \A d \in Candidate \ {c} : state'[d] = state[d] /\ suppressed'[d] = suppressed[d]
          /\ state[c] # "suppressed_duplicate" /\ blocked' = blocked
          /\ \/ state[c] = "open" /\ state'[c] = "decided" /\ suppressed' = suppressed
             \/ /\ suppressed'[c] /\ state' = state
                /\ pending' = pending \/ (c \in selectInboxCandidates /\ pending' = Touched(c))
          => Best(selectInboxCandidates) \ {c} \subseteq Best(selectInboxCandidates)']_vars

\* docs/spec/ACCEPTANCE_TESTS.md:7 "Given at least five viable candidates, the
\* mobile first screen shows up to five": with as many viable candidates as there
\* are cards, the screen is not empty.
ViableCandidatesAreShown ==
    Cardinality({c \in activeCandidates : Eligible(c)}) >= Limit => Cards # {}
=============================================================================
