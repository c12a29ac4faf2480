------------------------------- MODULE Browser -------------------------------
(***************************************************************************)
(* Pages in front of one server.  A page shows the lists of the last       *)
(* answer that reached it and, in a dialog, the workspace of one           *)
(* candidate; what the owner presses there is sent with the revision the   *)
(* lists give.  No button waits for an answer: several requests of a page  *)
(* are under way at once, the server takes them in any order, and answers  *)
(* arrive in any order or not at all.                                      *)
(*                                                                         *)
(* What a command does to a candidate is in CandidateWorkflow, what makes  *)
(* a duplicate in CommandStore, what the lists leave out in FirstScreen:   *)
(* here a verification may end in each way, and every candidate but a      *)
(* suppressed duplicate is listed.  Additions, resets and the filters of   *)
(* the page are left out; so are request_strategies, request_drafts and    *)
(* edit_draft, which are sent, checked and answered as the commands here.  *)
(***************************************************************************)
EXTENDS Naturals, FiniteSets

CONSTANTS
    Client, Candidate,
    None,         \* no candidate
    MaxClicks,    \* bound: buttons pressed and pages reloaded
    MaxFaults     \* bound: failing reads and writes of the state file

ASSUME BrowserAssumption ==
    None \notin Candidate /\ MaxClicks \in Nat /\ MaxFaults \in Nat

VARIABLES
    file,         \* file[c]: the candidate in the state file
    server,       \* up, and what became of the initialisation since it started
    requests,     \* the requests under way
    screen,       \* screen[k]: what page k shows
    clicks, faults

vars == <<file, server, requests, screen, clicks, faults>>

-----------------------------------------------------------------------------
\* Candidates and read models.  "open" is every state on the way to a Guardian
\* pass, a stale approval included, and "held" is rejected too.

Specialists == {"request_verification", "run_guardian"}
Decisions == {"approved", "held"}                  \* review_decision
Resolutions == {"distinct", "duplicate"}           \* resolve_duplicate
Suppressions == {"suppress_candidate", "restore_candidate"}
Command == Specialists \cup Decisions \cup Resolutions \cup Suppressions

ListedState == {"open", "guardian_pass", "approved", "held", "duplicate_review"}
Stored == [revision : Nat \ {0}, state : ListedState \cup {"suppressed_duplicate"},
           suppressed : BOOLEAN]

Unlisted == [revision |-> 0, state |-> "unlisted", suppressed |-> FALSE]
Shown == {Unlisted} \cup [revision : Nat \ {0}, state : ListedState, suppressed : BOOLEAN]

\* Bug: candidates whose duplicate the owner has confirmed stay in the lists.
TodayOfAll == file

Today == [c \in Candidate |->
    IF file[c].state = "suppressed_duplicate" THEN Unlisted ELSE file[c]]

\* Among the cards, and not only among the excluded candidates.
OnCards(candidate) ==
    candidate # Unlisted /\ candidate.state # "held" /\ ~candidate.suppressed

-----------------------------------------------------------------------------
\* The page.

\* What a closed workspace still holds is forgotten: to open it is to render it.
Closed(page) == [page EXCEPT !.open = FALSE, !.active = None, !.shown = Unlisted]

renderWorkspace(page) ==
    IF page.active # None /\ page.today[page.active] # Unlisted
    THEN [page EXCEPT !.shown = page.today[page.active]]
    ELSE Closed(page)

\* Bug: a new answer is shown in the lists only.
renderLists(page) == page

render(page) == IF page.open /\ page.active # None THEN renderWorkspace(page) ELSE page

\* The dialog is opened even if renderWorkspace has found nothing to show.
openWorkspace(page, c) == [renderWorkspace([page EXCEPT !.active = c]) EXCEPT !.open = TRUE]

Blank == [today |-> [c \in Candidate |-> Unlisted],
          active |-> None, open |-> FALSE, shown |-> Unlisted, suppressing |-> None]

Init ==
    /\ file \in [Candidate -> [revision : {1}, state : ListedState, suppressed : BOOLEAN]]
    /\ server = [up |-> TRUE, initialized |-> "no"]
    /\ requests = {}
    /\ screen = [k \in Client |-> Blank]
    /\ clicks = 0 /\ faults = 0

\* The owner looks at the workspace, or at the lists with no dialog before them.
AtWorkspace(k) == screen[k].open /\ screen[k].suppressing = None
AtLists(k) == ~screen[k].open /\ screen[k].suppressing = None
Listed(k, c) == screen[k].today[c] # Unlisted

OpenWorkspace(k) ==
    /\ AtLists(k)
    /\ \E c \in Candidate :
          /\ OnCards(screen[k].today[c]) \/ screen[k].today[c].suppressed
          /\ screen' = [screen EXCEPT ![k] = openWorkspace(@, c)]
    /\ UNCHANGED <<file, server, requests, clicks, faults>>

OpenSuppressDialog(k) ==
    /\ AtLists(k)
    /\ \E c \in Candidate :
          OnCards(screen[k].today[c]) /\ screen' = [screen EXCEPT ![k].suppressing = c]
    /\ UNCHANGED <<file, server, requests, clicks, faults>>

CloseDialog(k) ==
    /\ \/ AtWorkspace(k) /\ screen' = [screen EXCEPT ![k] = Closed(@)]
       \/ screen[k].suppressing # None /\ screen' = [screen EXCEPT ![k].suppressing = None]
    /\ UNCHANGED <<file, server, requests, clicks, faults>>

\* The buttons of the workspace are set by renderWorkspace, those of a card by
\* cardTemplate.  The text of the suppress dialog is set when it is opened.
InWorkspace(shown) ==
    IF shown.state = "duplicate_review" THEN Resolutions
    ELSE Specialists \cup (IF shown.state = "guardian_pass" THEN {"approved"} ELSE {})
                     \cup (IF shown.state # "held" THEN {"held"} ELSE {})

OnCard(shown) ==
    IF shown.suppressed THEN {"restore_candidate"}
    ELSE (IF shown.state = "open" THEN {"run_guardian"} ELSE {})
         \cup (IF shown.state \in {"open", "guardian_pass"} THEN {"held"} ELSE {})

sendCommand(k, command, c, from, seen) ==
    /\ server.up /\ clicks < MaxClicks
    /\ clicks' = clicks + 1
    /\ requests' = requests \cup
          {[id |-> clicks + 1, client |-> k, command |-> command, candidate |-> c,
            from |-> from, expected |-> screen[k].today[c].revision, seen |-> seen,
            step |-> "sent", today |-> Blank.today]}
    /\ UNCHANGED <<file, server, screen, faults>>

Press(k) ==
    \/ /\ AtWorkspace(k) /\ screen[k].active # None /\ Listed(k, screen[k].active)
       /\ \E command \in InWorkspace(screen[k].shown) :
             sendCommand(k, command, screen[k].active, "workspace", screen[k].shown)
    \/ /\ AtLists(k)
       /\ \E c \in Candidate : \E command \in OnCard(screen[k].today[c]) :
             Listed(k, c) /\ sendCommand(k, command, c, "card", screen[k].today[c])
    \/ /\ screen[k].suppressing # None /\ Listed(k, screen[k].suppressing)
       /\ sendCommand(k, "suppress_candidate", screen[k].suppressing, "dialog",
                      screen[k].today[screen[k].suppressing])

\* The server goes on with what the page has sent; its answers reach nobody.
Reload(k) ==
    /\ clicks < MaxClicks /\ clicks' = clicks + 1
    /\ screen' = [screen EXCEPT ![k] = Blank]
    /\ requests' = {IF r.client = k THEN [r EXCEPT !.client = None] ELSE r : r \in requests}
    /\ UNCHANGED <<file, server, faults>>

-----------------------------------------------------------------------------
\* The server.  Every request waits for the one initialisation; once that is
\* rejected, all are answered with an error.

Becomes(r, step) == requests' = (requests \ {r}) \cup {[r EXCEPT !.step = step]}
Answers(r, step) == requests' = (requests \ {r}) \cup {[r EXCEPT !.step = step, !.today = Today]}

\* An answer without lists is a toast on the page.
Told(r) == requests' = requests \ {r}

EnsureInitialized ==
    /\ server.up /\ server.initialized = "no"
    /\ \/ server' = [server EXCEPT !.initialized = "yes"] /\ UNCHANGED faults
       \/ /\ faults < MaxFaults /\ faults' = faults + 1
          /\ server' = [server EXCEPT !.initialized = "rejected"]
    /\ UNCHANGED <<file, requests, screen, clicks>>

NotInitialized(r) ==
    /\ r.step = "sent" /\ server.initialized = "rejected"
    /\ Told(r)
    /\ UNCHANGED <<file, server, screen, clicks, faults>>

\* A page that loads shows nothing to press until it has its answer: asked,
\* answered and shown is one step.  If it fails, the page stays blank.
LoadToday(k) ==
    /\ server.up /\ server.initialized = "yes" /\ screen[k] = Blank
    /\ screen' = [screen EXCEPT ![k] = render([@ EXCEPT !.today = Today])]
    /\ UNCHANGED <<file, server, requests, clicks, faults>>

\* The Orchestrator judges what goes to a specialist on a read of its own.
Routed(r) ==
    LET candidate == Today[r.candidate]
    IN  /\ OnCards(candidate) /\ candidate.state # "duplicate_review"
        /\ r.command = "run_guardian" => candidate.state = "open"

Dispatch(r) ==
    /\ r.step = "sent" /\ r.command \in Specialists /\ server.initialized = "yes"
    /\ IF Routed(r) THEN Becomes(r, "dispatched") ELSE Told(r)
    /\ UNCHANGED <<file, server, screen, clicks, faults>>

\* The rest runs under the write lock; only a suppression also reads its answer
\* there.
HoldsLock(q) == q.step = "halfway" \/ (q.step = "done" /\ q.command \in Suppressions)

Enters(r) ==
    /\ ~\E q \in requests : HoldsLock(q)
    /\ IF r.command \in Specialists THEN r.step = "dispatched"
       ELSE r.step = "sent" /\ server.initialized = "yes"

\* Asked before the revisions are compared.
Bypasses(r) == r.command \in Decisions /\ file[r.candidate].state = "duplicate_review"
\* Bug: the owner's own decisions need no revision.
ConflictsOfSpecialists(r) ==
    r.command \in Specialists /\ file[r.candidate].revision # r.expected

Conflicts(r) == file[r.candidate].revision # r.expected

Allows(r, candidate) ==
    /\ r.command = "approved" => candidate.state = "guardian_pass"
    /\ r.command \in Resolutions => candidate.state = "duplicate_review"
    /\ r.command = "restore_candidate" => candidate.suppressed

Refuse(r) ==
    /\ Enters(r)
    /\ \/ Bypasses(r)
       \/ ~Conflicts(r) /\ ~Allows(r, file[r.candidate])
    /\ Told(r)
    /\ UNCHANGED <<file, server, screen, clicks, faults>>

Conflict(r) ==
    /\ Enters(r) /\ ~Bypasses(r) /\ Conflicts(r)
    /\ Becomes(r, "conflict")
    /\ UNCHANGED <<file, server, screen, clicks, faults>>

Outcome(r) ==
    CASE r.command = "run_guardian" -> {"open", "guardian_pass"}
      [] r.command = "distinct" -> {"open"}
      [] r.command = "duplicate" -> {"suppressed_duplicate"}
      [] r.command \in Suppressions -> {file[r.candidate].state}
      [] OTHER -> {r.command}

\* A rule hides the candidates it matches, which keep their revisions.
Hides(r, c) ==
    IF r.command = "suppress_candidate" THEN {TRUE, file[c].suppressed \/ c = r.candidate}
    ELSE {file[c].suppressed /\ ~(r.command = "restore_candidate" /\ c = r.candidate)}

Executable(r) ==
    Enters(r) /\ ~Bypasses(r) /\ ~Conflicts(r) /\ Allows(r, file[r.candidate])

Execute(r) ==
    /\ Executable(r) /\ r.command # "request_verification"
    /\ \E state \in Outcome(r), hidden \in [Candidate -> BOOLEAN] :
          /\ \A c \in Candidate : hidden[c] \in Hides(r, c)
          /\ file' = [c \in Candidate |->
                IF c = r.candidate
                THEN [revision |-> file[c].revision + 1, state |-> state, suppressed |-> hidden[c]]
                ELSE [file[c] EXCEPT !.suppressed = hidden[c]]]
    /\ Becomes(r, "done")
    /\ UNCHANGED <<server, screen, clicks, faults>>

\* A verification is written before it is assessed, and its assessment after.
Verify(r) ==
    /\ Executable(r) /\ r.command = "request_verification"
    /\ file' = [file EXCEPT ![r.candidate].revision = @ + 1, ![r.candidate].state = "open"]
    /\ Becomes(r, "halfway")
    /\ UNCHANGED <<server, screen, clicks, faults>>

\* Bug: the answer is composed before the assessment is written.
AssessAfterAnswer(r) ==
    /\ r.step = "halfway"
    /\ \E state \in {"open", "duplicate_review", "suppressed_duplicate"} :
          file' = [file EXCEPT ![r.candidate].state = state]
    /\ Answers(r, "ok")
    /\ UNCHANGED <<server, screen, clicks, faults>>

Assess(r) ==
    /\ r.step = "halfway"
    /\ \E state \in {"open", "duplicate_review", "suppressed_duplicate"} :
          file' = [file EXCEPT ![r.candidate].state = state]
    /\ Becomes(r, "done")
    /\ UNCHANGED <<server, screen, clicks, faults>>

Respond(r) ==
    /\ \/ r.step = "done" /\ Answers(r, "ok")
       \/ r.step = "conflict" /\ Answers(r, "version_conflict")
    /\ UNCHANGED <<file, server, screen, clicks, faults>>

\* A read or write fails.  The handler answers with an error, except where the
\* error handling itself reads: that rejection ends the process.
Fails(r) ==
    /\ faults < MaxFaults /\ faults' = faults + 1
    /\ \/ /\ r.step \in {"sent", "dispatched", "halfway", "done"}
          /\ Told(r) /\ UNCHANGED server
       \/ /\ r.step = "conflict"
          /\ server' = [server EXCEPT !.up = FALSE]
          /\ requests' = {}
    /\ UNCHANGED <<file, screen, clicks>>

Restart ==
    /\ ~server.up /\ server' = [up |-> TRUE, initialized |-> "no"]
    /\ UNCHANGED <<file, requests, screen, clicks, faults>>

-----------------------------------------------------------------------------
\* The answer reaches the page, which shows it and goes on with the handler that
\* waited for it; handlers of the workspace only render it once more.

Updated(page, r) ==
    render([page EXCEPT !.today = r.today])

Continued(page, r) ==
    CASE r.step = "ok" /\ r.from = "card" /\ r.command = "run_guardian" ->
            openWorkspace(page, r.candidate)
      [] r.step = "ok" /\ r.from = "dialog" -> [page EXCEPT !.suppressing = None]
      [] OTHER -> page

Receive(r) ==
    /\ r.step \in {"ok", "version_conflict"}
    /\ requests' = requests \ {r}
    /\ screen' = IF r.client \in Client
                 THEN [screen EXCEPT ![r.client] = Continued(Updated(@, r), r)] ELSE screen
    /\ UNCHANGED <<file, server, clicks, faults>>

\* The connection breaks: fetch rejects and the page stays as it is.
Lose(r) ==
    /\ r.step \in {"ok", "version_conflict"} /\ Told(r)
    /\ UNCHANGED <<file, server, screen, clicks, faults>>

Serve(r) ==
    \/ NotInitialized(r) \/ Dispatch(r) \/ Refuse(r) \/ Conflict(r)
    \/ Execute(r) \/ Verify(r) \/ Assess(r) \/ Respond(r) \/ Receive(r)

Next ==
    \/ \E k \in Client :
          LoadToday(k) \/ OpenWorkspace(k) \/ OpenSuppressDialog(k) \/ CloseDialog(k) \/ Press(k) \/ Reload(k)
    \/ \E r \in requests : Serve(r) \/ Fails(r) \/ Lose(r)
    \/ EnsureInitialized \/ Restart

Spec == Init /\ [][Next]_vars

-----------------------------------------------------------------------------
\* Properties.

Page == [today : [Candidate -> Shown], active : Candidate \cup {None}, open : BOOLEAN,
         shown : Shown, suppressing : Candidate \cup {None}]
Request == [id : 1..MaxClicks, client : Client \cup {None}, command : Command,
            candidate : Candidate, from : {"card", "workspace", "dialog"},
            expected : Nat \ {0}, seen : Shown \ {Unlisted},
            step : {"sent", "dispatched", "halfway", "done", "conflict", "ok", "version_conflict"},
            today : [Candidate -> Shown]]

\* Pages, requests and stored candidates have the shapes the code gives them; no
\* answer and no page lists a suppressed duplicate.
TypeOK ==
    /\ file \in [Candidate -> Stored]
    /\ server \in [up : BOOLEAN, initialized : {"no", "yes", "rejected"}]
    /\ requests \subseteq Request
    /\ screen \in [Client -> Page]
    /\ clicks \in 0..MaxClicks /\ faults \in 0..MaxFaults

\* What the workspace shows of a candidate is what the lists behind it say: the
\* revision sent with a button is the revision of what the owner reads there.
ScreenIsOneAnswer ==
    \A k \in Client :
        screen[k].open /\ screen[k].active # None =>
            /\ screen[k].shown = screen[k].today[screen[k].active]
            /\ screen[k].shown # Unlisted

\* AT-36 from the page to the state file: a command that takes effect was pressed
\* on a page that showed the candidate at the very revision it is applied to, and
\* an approval on one that showed its Guardian pass.  Suppression is left out: its
\* dialog keeps the text of the moment it was opened.
Takes(r) == r.step \in {"sent", "dispatched"} /\ \E q \in requests' : q.id = r.id /\ q.step \in {"halfway", "done"}
ActsOnWhatIsShown ==
    [][\A r \in requests : Takes(r) /\ r.from # "dialog" =>
          /\ r.seen.revision = file[r.candidate].revision
          /\ r.command = "approved" => r.seen.state = file[r.candidate].state]_vars

\* AT-36, second half: when a page is told of a conflict, everything it shows of
\* that candidate is later than what the refused command was composed on.
ConflictShowsTheChange ==
    [][\A r \in requests : r.step = "version_conflict" /\ Receive(r) /\ r.client \in Client =>
          LET page == screen'[r.client]
              Later(candidate) == candidate = Unlisted \/ candidate.revision > r.seen.revision
          IN  /\ Later(page.today[r.candidate])
              /\ page.open /\ page.active = r.candidate => Later(page.shown)]_vars

\* AT-36 as the owner sees it: what was not on the page is not decided, and what
\* has changed comes back with the refusal.
RevisionsGuardTheOwner == ActsOnWhatIsShown /\ ConflictShowsTheChange

\* The owner who is told that a verification is done sees its duplicate review, if
\* there is one, and what it made a duplicate is gone: the answer is read after
\* both of its writes, although reading takes no lock.
VerificationAnswerIsWhole ==
    \A r \in requests :
        /\ r.step = "ok" /\ r.command = "request_verification"
        /\ r.today[r.candidate] # Unlisted
        /\ file[r.candidate].revision = r.expected + 1
        => r.today[r.candidate].state = file[r.candidate].state
=============================================================================
