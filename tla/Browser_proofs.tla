---------------------------- MODULE Browser_proofs ----------------------------
(***************************************************************************)
(* What pages and server promise each other, for any number of pages,      *)
(* candidates, requests under way and faults.  The revision a request      *)
(* carries is the one its owner saw, no page knows more than the state     *)
(* file, and the revision of a candidate never falls: so whoever was       *)
(* overtaken is told, with something later than what was pressed on.       *)
(***************************************************************************)
EXTENDS Browser, TLAPS

\* A request carries what was on the page, and no button is used twice.
Composed(r) ==
    /\ r.id <= clicks
    /\ r.expected = r.seen.revision
    /\ r.command = "approved" => r.seen.state = "guardian_pass"

\* Neither a request nor its answer is ahead of the state file, and a refused
\* request is behind it.
Behind(r) ==
    /\ r.expected <= file[r.candidate].revision
    /\ \A c \in Candidate : r.today[c].revision <= file[c].revision
    /\ r.step = "conflict" => r.expected < file[r.candidate].revision
    /\ r.step = "version_conflict" =>
          r.today[r.candidate] = Unlisted \/ r.expected < r.today[r.candidate].revision

Verified(r) == r.command = "request_verification" /\ r.step \in {"done", "ok"}

\* A verification between its writes, and after them.
Written(r) ==
    /\ r.step = "halfway" =>
          r.command = "request_verification" /\ file[r.candidate].revision = r.expected + 1
    /\ Verified(r) => r.expected < file[r.candidate].revision
    /\ /\ r.step = "ok" /\ r.command = "request_verification"
       /\ r.today[r.candidate] # Unlisted
       /\ file[r.candidate].revision = r.expected + 1
       => r.today[r.candidate].state = file[r.candidate].state

Sound(r) == Composed(r) /\ Behind(r) /\ Written(r)

\* Requests are told apart by their ids, one holds the lock, and a verification
\* between its writes was composed after those that are done.
Apart(r, q) ==
    /\ r.id = q.id => r = q
    /\ HoldsLock(r) /\ HoldsLock(q) => r = q
    /\ Verified(r) /\ q.step = "halfway" /\ q.candidate = r.candidate =>
          r.expected < q.expected

PagesAreBehind ==
    \A k \in Client, c \in Candidate : screen[k].today[c].revision <= file[c].revision

RequestsAreSound == \A r \in requests : Sound(r)
RequestsAreApart == \A r, q \in requests : Apart(r, q)

IInv == TypeOK /\ ScreenIsOneAnswer /\ PagesAreBehind /\ RequestsAreSound /\ RequestsAreApart

-----------------------------------------------------------------------------
\* Types.

\* A listed candidate has a revision and a state.
LEMMA ShownFields ==
    ASSUME NEW shown \in Shown
    PROVE  /\ shown.revision \in Nat
           /\ shown # Unlisted => shown \in [revision : Nat \ {0}, state : ListedState, suppressed : BOOLEAN]
  BY DEF Shown, Unlisted

\* The lists of an answer are made of what is stored, and are no newer.
LEMMA TodayShown ==
    ASSUME file \in [Candidate -> Stored]
    PROVE  /\ Today \in [Candidate -> Shown]
           /\ \A c \in Candidate :
                 /\ Today[c].revision <= file[c].revision
                 /\ Today[c] # Unlisted => Today[c] = file[c]
  <1>1. ASSUME NEW c \in Candidate
        PROVE  /\ Today[c] \in Shown
               /\ Today[c].revision <= file[c].revision
               /\ Today[c] # Unlisted => Today[c] = file[c]
    <2>1. file[c] \in Stored
      OBVIOUS
    <2>2. CASE file[c].state = "suppressed_duplicate"
      <3>1. Today[c] = Unlisted
        BY <2>2 DEF Today
      <3> QED  BY <2>1, <3>1 DEF Shown, Unlisted, Stored
    <2>3. CASE file[c].state # "suppressed_duplicate"
      <3>1. Today[c] = file[c]
        BY <2>3 DEF Today
      <3> QED  BY <2>1, <2>3, <3>1 DEF Shown, Stored
    <2> QED  BY <2>2, <2>3
  <1>2. Today = [c \in Candidate |-> Today[c]]
    BY DEF Today
  <1> QED  BY <1>1, <1>2

\* Rendering keeps the shape of a page and its lists.
LEMMA PageShapes ==
    ASSUME None \notin Candidate, NEW page \in Page
    PROVE  /\ Closed(page) \in Page /\ Closed(page).today = page.today
           /\ renderWorkspace(page) \in Page /\ renderWorkspace(page).today = page.today
           /\ render(page) \in Page /\ render(page).today = page.today
           /\ \A c \in Candidate :
                 openWorkspace(page, c) \in Page /\ openWorkspace(page, c).today = page.today
  <1>0. ASSUME NEW p \in Page
        PROVE  /\ Closed(p) \in Page /\ Closed(p).today = p.today
               /\ renderWorkspace(p) \in Page /\ renderWorkspace(p).today = p.today
    <2>1. Closed(p) \in Page /\ Closed(p).today = p.today
      BY DEF Closed, Page, Shown
    <2>2. CASE p.active # None /\ p.today[p.active] # Unlisted
      <3>1. p.active \in Candidate /\ p.today[p.active] \in Shown
        BY <2>2 DEF Page
      <3>2. renderWorkspace(p) = [p EXCEPT !.shown = p.today[p.active]]
        BY <2>2 DEF renderWorkspace
      <3> HIDE <2>2
      <3>3. ASSUME NEW s \in Shown PROVE [p EXCEPT !.shown = s] \in Page /\ [p EXCEPT !.shown = s].today = p.today
        BY DEF Page
      <3> QED  BY <2>1, <3>1, <3>2, <3>3
    <2>3. CASE ~(p.active # None /\ p.today[p.active] # Unlisted)
      BY <2>1, <2>3 DEF renderWorkspace
    <2> QED  BY <2>1, <2>2, <2>3
  <1>1. render(page) \in Page /\ render(page).today = page.today
    BY <1>0 DEF render
  <1>2. ASSUME NEW c \in Candidate
        PROVE  openWorkspace(page, c) \in Page /\ openWorkspace(page, c).today = page.today
    <2> DEFINE p == [page EXCEPT !.active = c]
    <2>1. p \in Page /\ p.today = page.today
      BY DEF Page
    <2>2. renderWorkspace(p) \in Page /\ renderWorkspace(p).today = p.today
      BY <1>0, <2>1
    <2> HIDE DEF p
    <2>3. ASSUME NEW w \in Page PROVE [w EXCEPT !.open = TRUE] \in Page /\ [w EXCEPT !.open = TRUE].today = w.today
      BY DEF Page
    <2>4. openWorkspace(page, c) = [renderWorkspace(p) EXCEPT !.open = TRUE]
      BY DEF openWorkspace, p
    <2> QED  BY <2>1, <2>2, <2>3, <2>4
  <1> QED  BY <1>0, <1>1, <1>2

\* What a page shows in its dialog is what its lists say.
OneAnswer(page) ==
    page.open /\ page.active # None =>
        page.shown = page.today[page.active] /\ page.shown # Unlisted

\* Whatever is rendered, closed or opened shows one answer.
LEMMA PagesShowOneAnswer ==
    ASSUME None \notin Candidate, NEW page \in Page
    PROVE  /\ OneAnswer(Closed(page))
           /\ OneAnswer(render(page))
           /\ \A c \in Candidate : OneAnswer(openWorkspace(page, c))
  <1>1. OneAnswer(Closed(page))
    BY DEF OneAnswer, Closed, Page
  <1>2. OneAnswer(render(page))
    BY DEF OneAnswer, render, renderWorkspace, Closed, Page
  <1>3. ASSUME NEW c \in Candidate PROVE OneAnswer(openWorkspace(page, c))
    <2> DEFINE p == [page EXCEPT !.active = c]
    <2>1. p.active = c /\ p.today = page.today /\ p.today[c] = page.today[c]
      BY DEF Page
    <2>2. p \in Page
      BY DEF Page
    <2>3. openWorkspace(page, c) = [renderWorkspace(p) EXCEPT !.open = TRUE]
      BY DEF openWorkspace
    <2> HIDE DEF p
    <2>4. CASE p.today[c] # Unlisted
      <3>1. renderWorkspace(p) = [p EXCEPT !.shown = p.today[c]]
        BY <2>1, <2>4 DEF renderWorkspace
      <3> QED  BY <2>1, <2>2, <2>3, <2>4, <3>1 DEF OneAnswer, Page
    <2>5. CASE p.today[c] = Unlisted
      <3>1. renderWorkspace(p) = Closed(p)
        BY <2>1, <2>5 DEF renderWorkspace
      <3> QED  BY <2>2, <2>3, <3>1 DEF OneAnswer, Closed, Page
    <2> QED  BY <2>4, <2>5
  <1> QED  BY <1>1, <1>2, <1>3

-----------------------------------------------------------------------------
\* Pages.

\* Where the lists of a page may come from.
Lists == {Today, Blank.today} \cup {r.today : r \in requests}

\* One page changes, and shows one answer.
LEMMA OnePage ==
    ASSUME TypeOK, ScreenIsOneAnswer, NEW k \in Client, NEW page \in Page, OneAnswer(page),
           page.today \in Lists \cup {screen[k].today}, screen' = [screen EXCEPT ![k] = page]
    PROVE  /\ screen' \in [Client -> Page] /\ ScreenIsOneAnswer'
           /\ \A j \in Client : screen'[j].today \in Lists \cup {screen[j].today}
  <1>1. screen \in [Client -> Page]
    BY DEF TypeOK
  <1>2. \A j \in Client : screen'[j] = IF j = k THEN page ELSE screen[j]
    BY <1>1
  <1>3. \A j \in Client : OneAnswer(screen'[j])
    BY <1>2 DEF ScreenIsOneAnswer, OneAnswer
  <1> QED  BY <1>1, <1>2, <1>3 DEF ScreenIsOneAnswer, OneAnswer

\* Every page goes on to show one answer, and its lists come from a read of the
\* state file or from an answer.
LEMMA PagesTurn ==
    ASSUME BrowserAssumption, TypeOK, ScreenIsOneAnswer, [Next]_vars
    PROVE  /\ screen' \in [Client -> Page] /\ ScreenIsOneAnswer'
           /\ \A j \in Client : screen'[j].today \in Lists \cup {screen[j].today}
  <1> DEFINE Goal == /\ screen' \in [Client -> Page] /\ ScreenIsOneAnswer'
                     /\ \A j \in Client : screen'[j].today \in Lists \cup {screen[j].today}
  <1>n. None \notin Candidate
    BY DEF BrowserAssumption
  <1>t. screen \in [Client -> Page] /\ requests \subseteq Request /\ file \in [Candidate -> Stored]
    BY DEF TypeOK
  <1>u. ASSUME UNCHANGED screen PROVE Goal
    BY <1>t, <1>u DEF ScreenIsOneAnswer
  <1>1. ASSUME NEW k \in Client, LoadToday(k) PROVE Goal
    <2> DEFINE p == [screen[k] EXCEPT !.today = Today]
    <2>1. p \in Page /\ p.today = Today
      BY <1>t, TodayShown DEF Page
    <2>2. screen' = [screen EXCEPT ![k] = render(p)]
      BY <1>1 DEF LoadToday
    <2> HIDE DEF p
    <2> QED  BY <1>n, <2>1, <2>2, PageShapes, PagesShowOneAnswer, OnePage DEF Lists
  <1>2. ASSUME NEW k \in Client, OpenWorkspace(k) PROVE Goal
    <2>1. PICK c \in Candidate : screen' = [screen EXCEPT ![k] = openWorkspace(@, c)]
      BY <1>2 DEF OpenWorkspace
    <2>2. screen' = [screen EXCEPT ![k] = openWorkspace(screen[k], c)]
      BY <1>t, <2>1
    <2> QED  BY <1>n, <1>t, <2>2, PageShapes, PagesShowOneAnswer, OnePage
  <1>3. ASSUME NEW k \in Client, NEW c \in Candidate \cup {None},
               screen' = [screen EXCEPT ![k].suppressing = c] PROVE Goal
    <2> DEFINE p == [screen[k] EXCEPT !.suppressing = c]
    <2>1. p \in Page /\ p.today = screen[k].today
      BY <1>t DEF Page
    <2>2. OneAnswer(p)
      BY <1>t DEF OneAnswer, ScreenIsOneAnswer, Page
    <2>3. screen' = [screen EXCEPT ![k] = p]
      BY <1>t, <1>3
    <2> HIDE DEF p
    <2> QED  BY <2>1, <2>2, <2>3, OnePage
  <1>4. ASSUME NEW k \in Client, CloseDialog(k) PROVE Goal
    <2>1. CASE screen' = [screen EXCEPT ![k] = Closed(@)]
      <3>1. screen' = [screen EXCEPT ![k] = Closed(screen[k])]
        BY <1>t, <2>1
      <3> QED  BY <1>n, <1>t, <3>1, PageShapes, PagesShowOneAnswer, OnePage
    <2>2. CASE screen' = [screen EXCEPT ![k].suppressing = None]
      BY <1>3, <2>2
    <2> QED  BY <1>4, <2>1, <2>2 DEF CloseDialog
  <1>5. ASSUME NEW k \in Client, Reload(k) PROVE Goal
    <2>1. Blank \in Page /\ OneAnswer(Blank)
      BY <1>n DEF Blank, Page, Shown, OneAnswer
    <2>2. screen' = [screen EXCEPT ![k] = Blank]
      BY <1>5 DEF Reload
    <2> QED  BY <2>1, <2>2, OnePage DEF Lists
  <1>6. ASSUME NEW r \in requests, Receive(r) PROVE Goal
    <2>1. CASE r.client \notin Client
      BY <1>u, <1>6, <2>1 DEF Receive
    <2>2. CASE r.client \in Client
      <3> DEFINE k == r.client
                 p == [screen[k] EXCEPT !.today = r.today]
                 shown == render(p)
      <3>1. r \in Request /\ r.today \in [Candidate -> Shown] /\ r.candidate \in Candidate
        BY <1>t DEF Request
      <3>2. p \in Page /\ p.today = r.today
        BY <1>t, <2>2, <3>1 DEF Page
      <3>3. screen' = [screen EXCEPT ![k] = Continued(shown, r)]
        BY <1>t, <1>6, <2>2 DEF Receive, Updated
      <3> HIDE DEF p
      <3>4. shown \in Page /\ shown.today = r.today /\ OneAnswer(shown)
        BY <1>n, <3>2, PageShapes, PagesShowOneAnswer
      <3> HIDE DEF shown
      <3>5. /\ Continued(shown, r) \in Page /\ Continued(shown, r).today = r.today
            /\ OneAnswer(Continued(shown, r))
        <4>1. CASE r.step = "ok" /\ r.from = "card" /\ r.command = "run_guardian"
          <5>1. Continued(shown, r) = openWorkspace(shown, r.candidate)
            BY <4>1 DEF Continued
          <5> QED  BY <1>n, <3>1, <3>4, <5>1, PageShapes, PagesShowOneAnswer
        <4>2. CASE r.step = "ok" /\ r.from = "dialog"
          <5>1. Continued(shown, r) = [shown EXCEPT !.suppressing = None]
            BY <4>2 DEF Continued
          <5>2. [shown EXCEPT !.suppressing = None] \in Page
            BY <3>4 DEF Page
          <5> QED  BY <3>4, <5>1, <5>2 DEF Page, OneAnswer
        <4>3. CASE /\ ~(r.step = "ok" /\ r.from = "card" /\ r.command = "run_guardian")
                   /\ ~(r.step = "ok" /\ r.from = "dialog")
          BY <3>4, <4>3 DEF Continued
        <4> QED  BY <4>1, <4>2, <4>3
      <3> QED  BY <2>2, <3>3, <3>5, OnePage DEF Lists
    <2> QED  BY <2>1, <2>2
  <1>7. ASSUME NEW k \in Client, OpenSuppressDialog(k) PROVE Goal
    BY <1>3, <1>7 DEF OpenSuppressDialog
  <1>8. ASSUME NEW k \in Client, Press(k) PROVE Goal
    BY <1>u, <1>8 DEF Press, sendCommand
  <1>9. ASSUME NEW r \in requests,
               \/ NotInitialized(r) \/ Dispatch(r) \/ Refuse(r) \/ Conflict(r) \/ Execute(r)
               \/ Verify(r) \/ Assess(r) \/ Respond(r) \/ Fails(r) \/ Lose(r)
        PROVE  Goal
    BY <1>u, <1>9 DEF NotInitialized, Dispatch, Refuse, Conflict, Execute, Verify, Assess,
                      Respond, Fails, Lose
  <1>10. ASSUME EnsureInitialized \/ Restart \/ UNCHANGED vars PROVE Goal
    BY <1>u, <1>10 DEF EnsureInitialized, Restart, vars
  <1> HIDE DEF Goal
  <1>11. Goal
    BY <1>1, <1>2, <1>4, <1>5, <1>6, <1>7, <1>8, <1>9, <1>10 DEF Next, Serve
  <1> QED  BY <1>11 DEF Goal

-----------------------------------------------------------------------------
\* What a step does to the requests.

Steps == {"sent", "dispatched", "halfway", "done", "conflict", "ok", "version_conflict"}

\* A request that goes on stays the request it was.
Same(r, s) ==
    /\ s.id = r.id /\ s.command = r.command /\ s.candidate = r.candidate
    /\ s.expected = r.expected /\ s.seen = r.seen

\* r goes on as s, the others stay.
GoesOn(r, s) == requests' = (requests \ {r}) \cup {s} /\ Same(r, s)

\* Becomes leaves the lists of a request as they are.
LEMMA BecomesGoesOn ==
    ASSUME TypeOK, NEW r \in requests, NEW step \in Steps, Becomes(r, step)
    PROVE  \E s \in Request : GoesOn(r, s) /\ s.step = step /\ s.today = r.today
  <1> DEFINE s == [r EXCEPT !.step = step]
  <1>1. r \in Request /\ r.today \in [Candidate -> Shown]
    BY DEF TypeOK, Request
  <1>2. s \in Request /\ Same(r, s) /\ s.step = step /\ s.today = r.today
    BY <1>1 DEF Request, Steps, Same
  <1>3. requests' = (requests \ {r}) \cup {s}
    BY DEF Becomes
  <1> QED  BY <1>2, <1>3 DEF GoesOn

\* Answers gives it the lists of now.
LEMMA AnswersGoesOn ==
    ASSUME TypeOK, NEW r \in requests, NEW step \in Steps, Answers(r, step)
    PROVE  \E s \in Request : GoesOn(r, s) /\ s.step = step /\ s.today = Today
  <1> DEFINE s == [r EXCEPT !.step = step, !.today = Today]
  <1>1. r \in Request /\ Today \in [Candidate -> Shown]
    BY TodayShown DEF TypeOK
  <1>2. ASSUME NEW today \in [Candidate -> Shown]
        PROVE  LET a == [r EXCEPT !.step = step, !.today = today]
               IN  a \in Request /\ Same(r, a) /\ a.step = step /\ a.today = today
    BY <1>1 DEF Request, Steps, Same
  <1>3. requests' = (requests \ {r}) \cup {s}
    BY DEF Answers
  <1>4. s \in Request /\ Same(r, s) /\ s.step = step /\ s.today = Today
    BY <1>1, <1>2
  <1> QED  BY <1>3, <1>4 DEF GoesOn

\* What goes on without a write: a request is dispatched, overtaken or answered.
Advances(r, s) ==
    /\ GoesOn(r, s) /\ UNCHANGED <<file, clicks>>
    /\ \/ s.step = "dispatched" /\ s.today = r.today
       \/ s.step = "conflict" /\ s.today = r.today /\ Conflicts(r)
       \/ r.step = "done" /\ s.step = "ok" /\ s.today = Today
       \/ r.step = "conflict" /\ s.step = "version_conflict" /\ s.today = Today

\* A step composes a request, forgets a page, takes requests away, takes one of
\* them further, or writes the state file.
LEMMA RequestsMove ==
    ASSUME TypeOK, [Next]_vars
    PROVE  \/ requests' \subseteq requests /\ UNCHANGED <<file, clicks>>
           \/ \E k \in Client : Press(k) \/ Reload(k)
           \/ \E r \in requests, s \in Request : Advances(r, s)
           \/ \E r \in requests : Execute(r) \/ Verify(r) \/ Assess(r)
  <1> DEFINE Fewer == requests' \subseteq requests /\ UNCHANGED <<file, clicks>>
             Further == \E r \in requests, s \in Request : Advances(r, s)
  <1>1. ASSUME NEW r \in requests, Dispatch(r) PROVE Fewer \/ Further
    <2>1. CASE Routed(r)
      <3>1. Becomes(r, "dispatched") /\ UNCHANGED <<file, clicks>>
        BY <1>1, <2>1 DEF Dispatch
      <3>2. PICK s \in Request : GoesOn(r, s) /\ s.step = "dispatched" /\ s.today = r.today
        BY <3>1, BecomesGoesOn DEF Steps
      <3> QED  BY <3>1, <3>2 DEF Advances
    <2>2. CASE ~Routed(r)
      BY <1>1, <2>2 DEF Dispatch, Told
    <2> QED  BY <2>1, <2>2
  <1>2. ASSUME NEW r \in requests, Conflict(r) PROVE Further
    <2>1. Becomes(r, "conflict") /\ Conflicts(r) /\ UNCHANGED <<file, clicks>>
      BY <1>2 DEF Conflict
    <2>2. PICK s \in Request : GoesOn(r, s) /\ s.step = "conflict" /\ s.today = r.today
      BY <2>1, BecomesGoesOn DEF Steps
    <2> QED  BY <2>1, <2>2 DEF Advances
  <1>3. ASSUME NEW r \in requests, Respond(r) PROVE Further
    <2>1. CASE r.step = "done" /\ Answers(r, "ok")
      <3>1. PICK s \in Request : GoesOn(r, s) /\ s.step = "ok" /\ s.today = Today
        BY <2>1, AnswersGoesOn DEF Steps
      <3> QED  BY <1>3, <2>1, <3>1 DEF Advances, Respond
    <2>2. CASE r.step = "conflict" /\ Answers(r, "version_conflict")
      <3>1. PICK s \in Request : GoesOn(r, s) /\ s.step = "version_conflict" /\ s.today = Today
        BY <2>2, AnswersGoesOn DEF Steps
      <3> QED  BY <1>3, <2>2, <3>1 DEF Advances, Respond
    <2> QED  BY <1>3, <2>1, <2>2 DEF Respond
  <1>4. ASSUME NEW r \in requests,
               NotInitialized(r) \/ Refuse(r) \/ Receive(r) \/ Fails(r) \/ Lose(r)
        PROVE  Fewer
    BY <1>4 DEF NotInitialized, Refuse, Receive, Fails, Lose, Told
  <1>5. ASSUME NEW k \in Client,
               LoadToday(k) \/ OpenWorkspace(k) \/ OpenSuppressDialog(k) \/ CloseDialog(k)
        PROVE  Fewer
    BY <1>5 DEF LoadToday, OpenWorkspace, OpenSuppressDialog, CloseDialog
  <1>6. ASSUME EnsureInitialized \/ Restart \/ UNCHANGED vars PROVE Fewer
    BY <1>6 DEF EnsureInitialized, Restart, vars
  <1> HIDE DEF Fewer, Further
  <1>7. \/ Fewer \/ Further
        \/ \E k \in Client : Press(k) \/ Reload(k)
        \/ \E r \in requests : Execute(r) \/ Verify(r) \/ Assess(r)
    BY <1>1, <1>2, <1>3, <1>4, <1>5, <1>6 DEF Next, Serve
  <1> QED  BY <1>7 DEF Fewer, Further

\* A button carries the revision and the state of what its owner sees.
LEMMA PressComposes ==
    ASSUME BrowserAssumption, TypeOK, ScreenIsOneAnswer, NEW k \in Client, Press(k)
    PROVE  /\ UNCHANGED file /\ clicks' = clicks + 1 /\ clicks' \in 0..MaxClicks
           /\ \E s \in Request :
                 /\ requests' = requests \cup {s}
                 /\ s.id = clicks + 1 /\ s.step = "sent" /\ s.today = Blank.today
                 /\ s.expected = s.seen.revision
                 /\ s.expected = screen[k].today[s.candidate].revision
                 /\ s.command = "approved" => s.seen.state = "guardian_pass"
  <1>t. /\ screen[k] \in Page /\ clicks \in 0..MaxClicks /\ MaxClicks \in Nat
        /\ screen[k].today \in [Candidate -> Shown]
    BY DEF TypeOK, BrowserAssumption, Page
  <1> DEFINE Goal == \E s \in Request :
                 /\ requests' = requests \cup {s}
                 /\ s.id = clicks + 1 /\ s.step = "sent" /\ s.today = Blank.today
                 /\ s.expected = s.seen.revision
                 /\ s.expected = screen[k].today[s.candidate].revision
                 /\ s.command = "approved" => s.seen.state = "guardian_pass"
  <1>0. ASSUME NEW command \in Command, NEW c \in Candidate, NEW from \in {"card", "workspace", "dialog"},
               screen[k].today[c] # Unlisted,
               sendCommand(k, command, c, from, screen[k].today[c]),
               command = "approved" => screen[k].today[c].state = "guardian_pass"
        PROVE  UNCHANGED file /\ clicks' = clicks + 1 /\ clicks' \in 0..MaxClicks /\ Goal
    <2> DEFINE seen == screen[k].today[c]
               s == [id |-> clicks + 1, client |-> k, command |-> command, candidate |-> c,
                     from |-> from, expected |-> seen.revision, seen |-> seen,
                     step |-> "sent", today |-> Blank.today]
    <2>1. clicks' = clicks + 1 /\ clicks + 1 \in 1..MaxClicks /\ UNCHANGED file
      BY <1>t, <1>0 DEF sendCommand
    <2>2. seen \in Shown \ {Unlisted} /\ seen.revision \in Nat \ {0}
      BY <1>t, <1>0, ShownFields
    <2>3. Blank.today \in [Candidate -> Shown]
      BY DEF Blank, Shown
    <2>4. s \in Request
      BY <2>1, <2>2, <2>3 DEF Request
    <2>5. requests' = requests \cup {s}
      BY <1>0 DEF sendCommand
    <2> QED  BY <1>t, <1>0, <2>1, <2>4, <2>5
  <1>1. ASSUME AtWorkspace(k), screen[k].active # None, Listed(k, screen[k].active),
               NEW command \in InWorkspace(screen[k].shown),
               sendCommand(k, command, screen[k].active, "workspace", screen[k].shown)
        PROVE  UNCHANGED file /\ clicks' = clicks + 1 /\ clicks' \in 0..MaxClicks /\ Goal
    <2>1. screen[k].active \in Candidate
      BY <1>t, <1>1 DEF Page
    <2>2. screen[k].shown = screen[k].today[screen[k].active]
      BY <1>1 DEF AtWorkspace, ScreenIsOneAnswer
    <2>3. command \in Command /\ (command = "approved" => screen[k].shown.state = "guardian_pass")
      BY DEF InWorkspace, Command, Specialists, Decisions, Resolutions
    <2> HIDE DEF Goal
    <2> QED  BY <1>0, <1>1, <2>1, <2>2, <2>3 DEF Listed
  <1>2. ASSUME NEW c \in Candidate, NEW command \in OnCard(screen[k].today[c]), Listed(k, c),
               sendCommand(k, command, c, "card", screen[k].today[c])
        PROVE  UNCHANGED file /\ clicks' = clicks + 1 /\ clicks' \in 0..MaxClicks /\ Goal
    <2>1. command \in Command /\ command # "approved"
      BY DEF OnCard, Command, Specialists, Decisions, Suppressions
    <2> HIDE DEF Goal
    <2> QED  BY <1>0, <1>2, <2>1 DEF Listed
  <1>3. ASSUME screen[k].suppressing # None, Listed(k, screen[k].suppressing),
               sendCommand(k, "suppress_candidate", screen[k].suppressing, "dialog",
                           screen[k].today[screen[k].suppressing])
        PROVE  UNCHANGED file /\ clicks' = clicks + 1 /\ clicks' \in 0..MaxClicks /\ Goal
    <2>1. screen[k].suppressing \in Candidate
      BY <1>t, <1>3 DEF Page
    <2>2. "suppress_candidate" \in Command
      BY DEF Command, Suppressions
    <2> HIDE DEF Goal
    <2> QED  BY <1>0, <1>3, <2>1, <2>2 DEF Listed
  <1> HIDE DEF Goal
  <1>4. UNCHANGED file /\ clicks' = clicks + 1 /\ clicks' \in 0..MaxClicks /\ Goal
    BY <1>1, <1>2, <1>3 DEF Press
  <1> QED  BY <1>4 DEF Goal

-----------------------------------------------------------------------------
\* What a write does to the state file.

NoHolder == \A q \in requests : ~HoldsLock(q)

\* One candidate is replaced by a later one.
Replaces(c) ==
    /\ file' \in [Candidate -> Stored]
    /\ file'[c].revision = file[c].revision + 1
    /\ \A d \in Candidate \ {c} :
          file'[d].revision = file[d].revision /\ file'[d].state = file[d].state

\* A command replaces the candidate its sender saw, under the lock.
LEMMA ExecuteWrites ==
    ASSUME TypeOK, NEW r \in requests, Execute(r)
    PROVE  /\ NoHolder /\ r.command # "request_verification"
           /\ file[r.candidate].revision = r.expected
           /\ r.command = "approved" => file[r.candidate].state = "guardian_pass"
           /\ Replaces(r.candidate) /\ clicks' = clicks
           /\ \E s \in Request : GoesOn(r, s) /\ s.step = "done" /\ s.today = r.today
  <1>1. r \in Request /\ r.candidate \in Candidate /\ file \in [Candidate -> Stored]
    BY DEF TypeOK, Request
  <1>2. Executable(r) /\ r.command # "request_verification" /\ Becomes(r, "done") /\ clicks' = clicks
    BY DEF Execute
  <1>3. /\ NoHolder /\ file[r.candidate].revision = r.expected
        /\ r.command = "approved" => file[r.candidate].state = "guardian_pass"
    BY <1>2 DEF Executable, Enters, Conflicts, Allows, NoHolder
  <1>4. PICK state \in Outcome(r), hidden \in [Candidate -> BOOLEAN] :
            file' = [c \in Candidate |->
                IF c = r.candidate
                THEN [revision |-> file[c].revision + 1, state |-> state, suppressed |-> hidden[c]]
                ELSE [file[c] EXCEPT !.suppressed = hidden[c]]]
    BY DEF Execute
  <1>5. state \in ListedState \cup {"suppressed_duplicate"}
    <2>1. r.command \in Command /\ file[r.candidate].state \in ListedState \cup {"suppressed_duplicate"}
      BY <1>1 DEF Request, Stored
    <2> QED  BY <1>2, <2>1 DEF Outcome, Command, Specialists, Decisions, Resolutions, Suppressions, ListedState
  <1>6. \A c \in Candidate : file'[c] \in Stored
    BY <1>1, <1>4, <1>5 DEF Stored
  <1>7. Replaces(r.candidate)
    BY <1>1, <1>4, <1>6 DEF Replaces, Stored
  <1> QED  BY <1>2, <1>3, <1>7, BecomesGoesOn DEF Steps

\* So does the first write of a verification, which keeps the lock.
LEMMA VerifyWrites ==
    ASSUME TypeOK, NEW r \in requests, Verify(r)
    PROVE  /\ NoHolder /\ r.command = "request_verification"
           /\ file[r.candidate].revision = r.expected
           /\ Replaces(r.candidate) /\ clicks' = clicks
           /\ \E s \in Request : GoesOn(r, s) /\ s.step = "halfway" /\ s.today = r.today
  <1>1. r \in Request /\ r.candidate \in Candidate /\ file \in [Candidate -> Stored]
    BY DEF TypeOK, Request
  <1>2. /\ Executable(r) /\ r.command = "request_verification" /\ Becomes(r, "halfway")
        /\ clicks' = clicks
    BY DEF Verify
  <1>3. NoHolder /\ file[r.candidate].revision = r.expected
    BY <1>2 DEF Executable, Enters, Conflicts, NoHolder
  <1>4. file' = [file EXCEPT ![r.candidate].revision = @ + 1, ![r.candidate].state = "open"]
    BY DEF Verify
  <1>5. Replaces(r.candidate)
    BY <1>1, <1>4 DEF Replaces, Stored, ListedState
  <1> QED  BY <1>2, <1>3, <1>5, BecomesGoesOn DEF Steps

\* The assessment does not change the revision.
LEMMA AssessWrites ==
    ASSUME TypeOK, NEW r \in requests, Assess(r)
    PROVE  /\ r.step = "halfway" /\ clicks' = clicks
           /\ file' \in [Candidate -> Stored]
           /\ \A c \in Candidate : file'[c].revision = file[c].revision
           /\ \A c \in Candidate \ {r.candidate} : file'[c] = file[c]
           /\ \E s \in Request : GoesOn(r, s) /\ s.step = "done" /\ s.today = r.today
  <1>1. r \in Request /\ r.candidate \in Candidate /\ file \in [Candidate -> Stored]
    BY DEF TypeOK, Request
  <1>2. r.step = "halfway" /\ Becomes(r, "done") /\ clicks' = clicks
    BY DEF Assess
  <1>3. PICK state \in {"open", "duplicate_review", "suppressed_duplicate"} :
            file' = [file EXCEPT ![r.candidate].state = state]
    BY DEF Assess
  <1>4. /\ file' \in [Candidate -> Stored]
        /\ \A c \in Candidate : file'[c].revision = file[c].revision
        /\ \A c \in Candidate \ {r.candidate} : file'[c] = file[c]
    BY <1>1, <1>3 DEF Stored, ListedState
  <1> QED  BY <1>2, <1>4, BecomesGoesOn DEF Steps

\* No revision falls.
LEMMA FileGrows ==
    ASSUME BrowserAssumption, TypeOK, ScreenIsOneAnswer, [Next]_vars
    PROVE  /\ file' \in [Candidate -> Stored]
           /\ \A c \in Candidate : file[c].revision <= file'[c].revision
  <1>t. requests \subseteq Request /\ file \in [Candidate -> Stored]
    BY DEF TypeOK
  <1>1. CASE UNCHANGED file
    BY <1>t, <1>1 DEF Stored
  <1>2. ASSUME NEW r \in requests, Execute(r) \/ Verify(r) \/ Assess(r)
        PROVE  /\ file' \in [Candidate -> Stored]
               /\ \A c \in Candidate : file[c].revision <= file'[c].revision
    <2>1. r.candidate \in Candidate /\ \A c \in Candidate : file[c].revision \in Nat
      BY <1>t DEF Request, Stored
    <2>2. CASE Assess(r)
      BY <2>1, <2>2, AssessWrites
    <2>3. CASE Execute(r) \/ Verify(r)
      <3>1. Replaces(r.candidate)
        BY <2>3, ExecuteWrites, VerifyWrites
      <3> QED  BY <2>1, <3>1 DEF Replaces
    <2> QED  BY <1>2, <2>2, <2>3
  <1>3. ASSUME NEW k \in Client, Press(k) \/ Reload(k) PROVE UNCHANGED file
    BY <1>3, PressComposes DEF Reload
  <1> QED  BY <1>1, <1>2, <1>3, RequestsMove DEF Advances

-----------------------------------------------------------------------------
\* The invariant is kept, by what happens to the requests.

Kept == requests' \subseteq Request /\ RequestsAreSound' /\ RequestsAreApart'

\* Requests that are only taken away.
LEMMA FewerKeep ==
    ASSUME IInv, requests' \subseteq requests, UNCHANGED <<file, clicks>>
    PROVE  Kept
  BY DEF IInv, TypeOK, RequestsAreSound, RequestsAreApart, Sound, Composed, Behind, Written,
         Verified, Apart, HoldsLock, Kept

\* One request goes on as s, which is sound, while nothing is written.
LEMMA OneGoesOn ==
    ASSUME IInv, NEW r \in requests, NEW s \in Request, GoesOn(r, s),
           UNCHANGED clicks, \A q \in requests \ {r} : Sound(q)', Sound(s)',
           HoldsLock(s) => \A q \in requests : ~HoldsLock(q),
           Verified(s) => \A q \in requests \ {r} :
               q.step = "halfway" /\ q.candidate = r.candidate => r.expected < q.expected,
           s.step = "halfway" => \A q \in requests \ {r} :
               Verified(q) /\ q.candidate = r.candidate => q.expected < r.expected
    PROVE  Kept
  <1>1. requests' = (requests \ {r}) \cup {s} /\ s.id = r.id /\ s.candidate = r.candidate /\ s.expected = r.expected
    BY DEF GoesOn, Same
  <1>2. requests' \subseteq Request
    BY <1>1 DEF IInv, TypeOK
  <1>3. RequestsAreSound'
    BY <1>1 DEF RequestsAreSound
  <1>4. \A p, q \in requests \ {r} : Apart(p, q)
    BY DEF IInv, RequestsAreApart
  <1>5. \A q \in requests \ {r} : q.id # r.id
    BY DEF IInv, RequestsAreApart, Apart
  <1>6. Apart(s, s)
    BY DEF Apart, Verified
  <1>7. \A q \in requests \ {r} : Apart(s, q) /\ Apart(q, s)
    BY <1>1, <1>5 DEF Apart
  <1>8. \A p, q \in requests' : Apart(p, q)
    BY <1>1, <1>4, <1>6, <1>7
  <1>9. RequestsAreApart'
    BY <1>8 DEF RequestsAreApart, Apart, Verified, HoldsLock
  <1> QED  BY <1>2, <1>3, <1>9 DEF Kept

\* What holds of a request as long as the file only grows.
LEMMA BehindStays ==
    ASSUME IInv, NEW q \in requests, clicks <= clicks', clicks' \in Nat,
           file' \in [Candidate -> Stored],
           \A c \in Candidate : file[c].revision <= file'[c].revision
    PROVE  Composed(q)' /\ Behind(q)'
  <1>1. /\ q \in Request /\ q.candidate \in Candidate /\ q.id \in Nat /\ clicks \in Nat
        /\ q.expected \in Nat /\ \A c \in Candidate : q.today[c].revision \in Nat
    BY ShownFields, BrowserAssumption DEF IInv, TypeOK, Request, BrowserAssumption
  <1>2. \A c \in Candidate : file[c].revision \in Nat /\ file'[c].revision \in Nat
    BY DEF IInv, TypeOK, Stored
  <1>3. Composed(q) /\ Behind(q)
    BY DEF IInv, RequestsAreSound, Sound
  <1> QED  BY <1>1, <1>2, <1>3 DEF Composed, Behind

\* Dispatch, Conflict and Respond.
LEMMA AdvanceKeeps ==
    ASSUME BrowserAssumption, IInv, NEW r \in requests, NEW s \in Request, Advances(r, s)
    PROVE  Kept
  <1>1. /\ GoesOn(r, s) /\ UNCHANGED <<file, clicks>> /\ Same(r, s)
    BY DEF Advances, GoesOn
  <1>2. r \in Request /\ r.candidate \in Candidate /\ r.expected \in Nat /\ file \in [Candidate -> Stored]
    BY DEF IInv, TypeOK, Request
  <1>3. \A q \in requests : Sound(q)
    BY DEF IInv, RequestsAreSound
  <1>4. \A q \in requests : Sound(q)'
    BY <1>1, <1>3 DEF Sound, Composed, Behind, Written, Verified
  <1>5. Composed(s)'
    BY <1>1, <1>4 DEF Sound, Composed, Same
  <1>6. \A c \in Candidate : /\ file[c].revision \in Nat /\ Today[c].revision <= file[c].revision
                             /\ Today[c] # Unlisted => Today[c] = file[c]
    BY <1>2, TodayShown DEF Stored
  <1>7. Behind(s)'
    <2>1. CASE s.step = "dispatched" /\ s.today = r.today
      BY <1>1, <1>4, <2>1 DEF Sound, Behind, Same
    <2>2. CASE s.step = "conflict" /\ s.today = r.today /\ Conflicts(r)
      BY <1>1, <1>2, <1>4, <1>6, <2>2 DEF Sound, Behind, Same, Conflicts
    <2>3. CASE r.step = "done" /\ s.step = "ok" /\ s.today = Today
      BY <1>1, <1>4, <1>6, <2>3 DEF Sound, Behind, Same
    <2>4. CASE r.step = "conflict" /\ s.step = "version_conflict" /\ s.today = Today
      <3>1. r.expected < file[r.candidate].revision
        BY <1>3, <2>4 DEF Sound, Behind
      <3> QED  BY <1>1, <1>2, <1>4, <1>6, <2>4, <3>1 DEF Sound, Behind, Same
    <2> QED  BY <2>1, <2>2, <2>3, <2>4 DEF Advances
  <1>8. Written(s)'
    <2>1. CASE s.step \in {"dispatched", "conflict", "version_conflict"}
      BY <2>1 DEF Written, Verified
    <2>2. CASE r.step = "done" /\ s.step = "ok" /\ s.today = Today
      BY <1>1, <1>2, <1>3, <1>6, <2>2 DEF Sound, Written, Verified, Same
    <2> QED  BY <2>1, <2>2 DEF Advances
  <1>9. ~HoldsLock(s) /\ s.step # "halfway"
    BY DEF Advances, HoldsLock
  <1>10. Verified(s) => Verified(r)
    BY <1>1 DEF Advances, Verified, Same
  <1>11. Verified(r) => \A q \in requests : q.step = "halfway" /\ q.candidate = r.candidate => r.expected < q.expected
    BY DEF IInv, RequestsAreApart, Apart
  <1> QED  BY <1>1, <1>4, <1>5, <1>7, <1>8, <1>9, <1>10, <1>11, OneGoesOn DEF Sound

\* A new request has a new id and is no newer than the state file.
LEMMA PressKeeps ==
    ASSUME BrowserAssumption, IInv, NEW k \in Client, Press(k)
    PROVE  Kept
  <1>1. TypeOK /\ ScreenIsOneAnswer
    BY DEF IInv
  <1>2. UNCHANGED file /\ clicks' = clicks + 1 /\ clicks' \in 0..MaxClicks
    BY <1>1, PressComposes
  <1>3. PICK s \in Request :
            /\ requests' = requests \cup {s}
            /\ s.id = clicks + 1 /\ s.step = "sent" /\ s.today = Blank.today
            /\ s.expected = s.seen.revision
            /\ s.expected = screen[k].today[s.candidate].revision
            /\ s.command = "approved" => s.seen.state = "guardian_pass"
    BY <1>1, PressComposes
  <1>4. clicks \in Nat /\ file \in [Candidate -> Stored] /\ s.candidate \in Candidate
    BY <1>1 DEF TypeOK, Request
  <1>5. \A c \in Candidate : file[c].revision \in Nat
    BY <1>4 DEF Stored
  <1>6. \A q \in requests : Sound(q)'
    <2>1. ASSUME NEW q \in requests PROVE Composed(q)' /\ Behind(q)'
      BY <1>2, <1>4, <1>5, BehindStays
    <2>2. ASSUME NEW q \in requests PROVE Written(q)'
      BY <1>2 DEF IInv, RequestsAreSound, Sound, Written, Verified
    <2> QED  BY <2>1, <2>2 DEF Sound
  <1>7. Composed(s)'
    BY <1>2, <1>3, <1>4 DEF Composed
  <1>8. Behind(s)'
    <2>1. \A c \in Candidate : Blank.today[c].revision = 0
      BY DEF Blank, Unlisted
    <2>2. s.expected <= file[s.candidate].revision
      BY <1>3, <1>4 DEF IInv, PagesAreBehind
    <2> QED  BY <1>2, <1>3, <1>5, <2>1, <2>2 DEF Behind
  <1>9. Written(s)'
    BY <1>3 DEF Written, Verified
  <1>10. RequestsAreSound'
    BY <1>3, <1>6, <1>7, <1>8, <1>9 DEF RequestsAreSound, Sound
  <1>11. \A q \in requests : q.id # s.id
    <2>1. \A q \in requests : q.id \in Nat /\ q.id <= clicks
      BY <1>1, BrowserAssumption DEF IInv, TypeOK, Request, RequestsAreSound, Sound, Composed, BrowserAssumption
    <2> QED  BY <1>3, <1>4, <2>1
  <1>12. ~HoldsLock(s) /\ ~Verified(s) /\ s.step # "halfway"
    BY <1>3 DEF HoldsLock, Verified
  <1>13. \A p, q \in requests : Apart(p, q)
    BY DEF IInv, RequestsAreApart
  <1>14. \A p, q \in requests' : Apart(p, q)
    <2>1. Apart(s, s) /\ \A q \in requests : Apart(s, q) /\ Apart(q, s)
      BY <1>11, <1>12 DEF Apart
    <2> QED  BY <1>3, <1>13, <2>1
  <1>15. RequestsAreApart'
    BY <1>14 DEF RequestsAreApart, Apart, Verified, HoldsLock
  <1>16. requests' \subseteq Request
    BY <1>1, <1>3 DEF TypeOK
  <1> QED  BY <1>10, <1>15, <1>16 DEF Kept

\* A reload only takes the page from its requests.
LEMMA ReloadKeeps ==
    ASSUME BrowserAssumption, IInv, NEW k \in Client, Reload(k)
    PROVE  Kept
  <1>1. UNCHANGED file /\ clicks' = clicks + 1
    BY DEF Reload
  <1> DEFINE F(r) == IF r.client = k THEN [r EXCEPT !.client = None] ELSE r
  <1>2. requests' = {F(r) : r \in requests}
    BY DEF Reload
  <1>3. ASSUME NEW r \in requests
        PROVE  F(r) \in Request /\ Same(r, F(r)) /\ F(r).step = r.step /\ F(r).today = r.today
    BY DEF IInv, TypeOK, Request, Same
  <1> HIDE DEF F
  <1>4. requests' \subseteq Request
    BY <1>2, <1>3
  <1>5. ASSUME NEW r \in requests PROVE Sound(F(r))'
    <2>1. Composed(r)' /\ Behind(r)'
      <3>1. clicks \in Nat /\ file \in [Candidate -> Stored]
        BY DEF IInv, TypeOK
      <3>2. \A c \in Candidate : file[c].revision \in Nat
        BY <3>1 DEF Stored
      <3> QED  BY <1>1, <3>1, <3>2, BehindStays
    <2>2. Written(r)'
      BY <1>1 DEF IInv, RequestsAreSound, Sound, Written, Verified
    <2> QED  BY <1>3, <2>1, <2>2 DEF Sound, Composed, Behind, Written, Verified, Same
  <1>6. ASSUME NEW p \in requests, NEW q \in requests PROVE Apart(F(p), F(q))
    <2>1. Apart(p, q)
      BY DEF IInv, RequestsAreApart
    <2> QED  BY <1>3, <2>1 DEF Apart, HoldsLock, Verified, Same
  <1>7. RequestsAreSound'
    BY <1>2, <1>5 DEF RequestsAreSound
  <1>8. \A p, q \in requests' : Apart(p, q)
    BY <1>2, <1>6
  <1>9. RequestsAreApart'
    BY <1>8 DEF RequestsAreApart, Apart, Verified, HoldsLock
  <1> QED  BY <1>4, <1>7, <1>9 DEF Kept

\* A write under a revision that nobody has seen yet.
LEMMA ReplacingKeeps ==
    ASSUME BrowserAssumption, IInv, NEW r \in requests, NEW s \in Request, GoesOn(r, s),
           NoHolder, Replaces(r.candidate), file[r.candidate].revision = r.expected,
           clicks' = clicks, s.today = r.today, s.step \in {"done", "halfway"},
           s.step = "halfway" <=> r.command = "request_verification"
    PROVE  Kept
  <1>1. /\ r \in Request /\ r.candidate \in Candidate /\ r.expected \in Nat /\ Same(r, s)
        /\ file \in [Candidate -> Stored] /\ clicks \in Nat
    BY DEF IInv, TypeOK, Request, GoesOn
  <1>2. /\ \A c \in Candidate : file[c].revision \in Nat /\ file[c].revision <= file'[c].revision
        /\ file' \in [Candidate -> Stored]
        /\ file'[r.candidate].revision = r.expected + 1
    BY <1>1 DEF Replaces, Stored
  <1>3. \A q \in requests : Composed(q)' /\ Behind(q)'
    BY <1>1, <1>2, BehindStays
  <1>4. ASSUME NEW q \in requests PROVE Written(q)'
    <2>1. Written(q) /\ q.step # "halfway" /\ q.candidate \in Candidate /\ q.expected \in Nat
      BY DEF IInv, TypeOK, Request, RequestsAreSound, Sound, NoHolder, HoldsLock
    <2>2. CASE q.candidate = r.candidate
      BY <1>1, <1>2, <2>1, <2>2 DEF Written, Verified
    <2>3. CASE q.candidate # r.candidate
      <3>1. /\ file'[q.candidate].revision = file[q.candidate].revision
            /\ file'[q.candidate].state = file[q.candidate].state
        BY <2>1, <2>3 DEF Replaces
      <3> QED  BY <2>1, <3>1 DEF Written, Verified
    <2> QED  BY <2>2, <2>3
  <1>5. Sound(s)'
    <2>1. Composed(s)' /\ Behind(s)'
      BY <1>1, <1>3 DEF Composed, Behind, Same
    <2>2. Written(s)'
      BY <1>1, <1>2 DEF Written, Verified, Same
    <2> QED  BY <2>1, <2>2 DEF Sound
  <1>6. ~Verified(s)
    BY <1>1 DEF Verified, Same
  <1>7. \A q \in requests : Verified(q) /\ q.candidate = r.candidate => q.expected < r.expected
    BY DEF IInv, RequestsAreSound, Sound, Written
  <1> QED  BY <1>1, <1>3, <1>4, <1>5, <1>6, <1>7, OneGoesOn DEF NoHolder, Sound

\* The second write of a verification: the holder of the lock is alone, and
\* whoever verified before it was answered for an earlier revision.
LEMMA AssessKeeps ==
    ASSUME BrowserAssumption, IInv, NEW r \in requests, Assess(r)
    PROVE  Kept
  <1>0. TypeOK
    BY DEF IInv
  <1>1. PICK s \in Request : GoesOn(r, s) /\ s.step = "done" /\ s.today = r.today
    BY <1>0, AssessWrites
  <1>2. /\ r.step = "halfway" /\ clicks' = clicks /\ clicks \in Nat
        /\ file \in [Candidate -> Stored] /\ file' \in [Candidate -> Stored]
        /\ \A c \in Candidate : file'[c].revision = file[c].revision /\ file[c].revision \in Nat
        /\ \A c \in Candidate \ {r.candidate} : file'[c] = file[c]
    BY <1>0, AssessWrites DEF TypeOK, Stored
  <1>3. /\ r \in Request /\ r.candidate \in Candidate /\ r.expected \in Nat /\ Same(r, s)
        /\ r.command = "request_verification" /\ file[r.candidate].revision = r.expected + 1
    BY <1>0, <1>1, <1>2 DEF IInv, TypeOK, Request, GoesOn, RequestsAreSound, Sound, Written
  <1>4. \A q \in requests : Composed(q)' /\ Behind(q)'
    BY <1>2, BehindStays
  <1>5. ASSUME NEW q \in requests \ {r} PROVE Written(q)' /\ ~HoldsLock(q)
    <2>1. /\ Written(q) /\ Apart(q, r) /\ q.candidate \in Candidate /\ q.expected \in Nat
      BY <1>0 DEF IInv, TypeOK, Request, RequestsAreSound, RequestsAreApart, Sound
    <2>2. ~HoldsLock(q)
      BY <1>2, <2>1 DEF Apart, HoldsLock
    <2>3. CASE q.candidate = r.candidate
      BY <1>2, <1>3, <2>1, <2>2, <2>3 DEF Written, Verified, Apart, HoldsLock
    <2>4. CASE q.candidate # r.candidate
      BY <1>2, <2>1, <2>2, <2>4 DEF Written, Verified, HoldsLock
    <2> QED  BY <2>2, <2>3, <2>4
  <1>6. Sound(s)'
    <2>1. Composed(s)' /\ Behind(s)'
      BY <1>1, <1>2, <1>3, <1>4 DEF Composed, Behind, Same
    <2>2. Written(s)'
      BY <1>1, <1>2, <1>3 DEF Written, Verified, Same
    <2> QED  BY <2>1, <2>2 DEF Sound
  <1>7. ~HoldsLock(s) /\ s.step # "halfway"
    BY <1>1, <1>3 DEF HoldsLock, Suppressions, Same
  <1>8. \A q \in requests \ {r} : q.step # "halfway"
    BY <1>5 DEF HoldsLock
  <1> QED  BY <1>1, <1>2, <1>4, <1>5, <1>6, <1>7, <1>8, OneGoesOn DEF Sound

-----------------------------------------------------------------------------
\* The theorems.

\* The server, the clicks and the faults.
LEMMA CountersStayTyped ==
    ASSUME BrowserAssumption, TypeOK, ScreenIsOneAnswer, [Next]_vars
    PROVE  /\ server' \in [up : BOOLEAN, initialized : {"no", "yes", "rejected"}]
           /\ clicks' \in 0..MaxClicks /\ faults' \in 0..MaxFaults
  <1> DEFINE ServerOK == server' \in [up : BOOLEAN, initialized : {"no", "yes", "rejected"}]
             ClicksOK == clicks' \in 0..MaxClicks
             FaultsOK == faults' \in 0..MaxFaults
  <1>t. /\ server \in [up : BOOLEAN, initialized : {"no", "yes", "rejected"}]
        /\ clicks \in 0..MaxClicks /\ faults \in 0..MaxFaults
        /\ MaxClicks \in Nat /\ MaxFaults \in Nat
    BY DEF TypeOK, BrowserAssumption
  <1>u. ASSUME UNCHANGED <<server, clicks, faults>> PROVE ServerOK /\ ClicksOK /\ FaultsOK
    BY <1>t, <1>u
  <1>1. ASSUME EnsureInitialized PROVE ServerOK /\ ClicksOK /\ FaultsOK
    BY <1>t, <1>1 DEF EnsureInitialized
  <1>2. ASSUME NEW r \in requests, Fails(r) PROVE ServerOK /\ ClicksOK /\ FaultsOK
    <2>1. /\ server' = [server EXCEPT !.up = FALSE] \/ UNCHANGED server
          /\ faults < MaxFaults /\ faults' = faults + 1 /\ clicks' = clicks
      BY <1>2 DEF Fails
    <2>2. [server EXCEPT !.up = FALSE] \in [up : BOOLEAN, initialized : {"no", "yes", "rejected"}]
      BY <1>t
    <2>3. ServerOK
      BY <1>t, <2>1, <2>2
    <2>4. ClicksOK /\ FaultsOK
      BY <1>t, <2>1
    <2> QED  BY <2>3, <2>4
  <1>3. ASSUME Restart PROVE ServerOK /\ ClicksOK /\ FaultsOK
    BY <1>t, <1>3 DEF Restart
  <1>4. ASSUME NEW k \in Client, Press(k) PROVE ServerOK /\ ClicksOK /\ FaultsOK
    <2>1. clicks' \in 0..MaxClicks
      BY <1>4, PressComposes
    <2>2. UNCHANGED <<server, faults>>
      BY <1>4 DEF Press, sendCommand
    <2> QED  BY <1>t, <2>1, <2>2
  <1>5. ASSUME NEW k \in Client, Reload(k) PROVE ServerOK /\ ClicksOK /\ FaultsOK
    BY <1>t, <1>5 DEF Reload
  <1>6. ASSUME NEW k \in Client,
               LoadToday(k) \/ OpenWorkspace(k) \/ OpenSuppressDialog(k) \/ CloseDialog(k)
        PROVE  UNCHANGED <<server, clicks, faults>>
    BY <1>6 DEF LoadToday, OpenWorkspace, OpenSuppressDialog, CloseDialog
  <1>7. ASSUME NEW r \in requests, Serve(r) \/ Lose(r)
        PROVE  UNCHANGED <<server, clicks, faults>>
    BY <1>7 DEF Serve, NotInitialized, Dispatch, Refuse, Conflict, Execute, Verify, Assess,
                Respond, Receive, Lose
  <1> HIDE DEF ServerOK, ClicksOK, FaultsOK
  <1>8. ASSUME UNCHANGED vars PROVE UNCHANGED <<server, clicks, faults>>
    BY <1>8 DEF vars
  <1>9. ServerOK /\ ClicksOK /\ FaultsOK
    BY <1>u, <1>1, <1>2, <1>3, <1>4, <1>5, <1>6, <1>7, <1>8 DEF Next
  <1> QED  BY <1>9 DEF ServerOK, ClicksOK, FaultsOK

\* The invariant holds before anything is asked.
LEMMA InvariantHolds == BrowserAssumption /\ Init => IInv
  <1> SUFFICES ASSUME BrowserAssumption, Init PROVE IInv
    OBVIOUS
  <1>1. file \in [Candidate -> Stored]
    BY DEF Init, Stored
  <1>2. Blank \in Page /\ \A c \in Candidate : Blank.today[c].revision = 0
    BY DEF Blank, Page, Shown, Unlisted
  <1>3. TypeOK
    BY <1>1, <1>2 DEF Init, TypeOK, BrowserAssumption
  <1>4. ScreenIsOneAnswer
    BY DEF Init, ScreenIsOneAnswer, Blank
  <1>5. PagesAreBehind
    BY <1>1, <1>2 DEF Init, PagesAreBehind, Stored
  <1> QED  BY <1>3, <1>4, <1>5 DEF Init, IInv, RequestsAreSound, RequestsAreApart

\* No step breaks the invariant.
LEMMA InvariantIsKept == BrowserAssumption /\ IInv /\ [Next]_vars => IInv'
  <1> SUFFICES ASSUME BrowserAssumption, IInv, [Next]_vars PROVE IInv'
    OBVIOUS
  <1>0. TypeOK /\ ScreenIsOneAnswer
    BY DEF IInv
  <1>1. Kept
    <2>1. ASSUME NEW r \in requests, Execute(r) PROVE Kept
      <3>1. PICK s \in Request : GoesOn(r, s) /\ s.step = "done" /\ s.today = r.today
        BY <1>0, <2>1, ExecuteWrites
      <3> QED  BY <1>0, <2>1, <3>1, ExecuteWrites, ReplacingKeeps
    <2>2. ASSUME NEW r \in requests, Verify(r) PROVE Kept
      <3>1. PICK s \in Request : GoesOn(r, s) /\ s.step = "halfway" /\ s.today = r.today
        BY <1>0, <2>2, VerifyWrites
      <3> QED  BY <1>0, <2>2, <3>1, VerifyWrites, ReplacingKeeps
    <2> QED  BY <1>0, <2>1, <2>2, RequestsMove, FewerKeep, PressKeeps, ReloadKeeps, AdvanceKeeps, AssessKeeps
  <1>2. /\ screen' \in [Client -> Page] /\ ScreenIsOneAnswer'
        /\ \A j \in Client : screen'[j].today \in Lists \cup {screen[j].today}
    BY <1>0, PagesTurn
  <1>3. /\ file' \in [Candidate -> Stored]
        /\ \A c \in Candidate : file[c].revision <= file'[c].revision
    BY <1>0, FileGrows
  <1>4. PagesAreBehind'
    <2>1. ASSUME NEW j \in Client, NEW c \in Candidate
          PROVE  screen'[j].today[c].revision <= file'[c].revision
      <3>1. file[c].revision \in Nat /\ file'[c].revision \in Nat /\ file[c].revision <= file'[c].revision
        BY <1>0, <1>3 DEF TypeOK, Stored
      <3>2. Today[c].revision <= file[c].revision /\ Blank.today[c].revision <= file[c].revision
        BY <1>0, <3>1, TodayShown DEF TypeOK, Blank, Unlisted
      <3>3. \A r \in requests : r.today[c].revision <= file[c].revision
        BY DEF IInv, RequestsAreSound, Sound, Behind
      <3>4. screen[j].today[c].revision <= file[c].revision
        BY DEF IInv, PagesAreBehind
      <3>5. screen'[j].today[c].revision <= file[c].revision
        BY <1>2, <3>2, <3>3, <3>4 DEF Lists
      <3>6. screen'[j].today[c].revision \in Nat
        BY <1>2, ShownFields DEF Page
      <3> QED  BY <3>1, <3>5, <3>6
    <2> QED  BY <2>1 DEF PagesAreBehind
  <1>5. /\ server' \in [up : BOOLEAN, initialized : {"no", "yes", "rejected"}]
        /\ clicks' \in 0..MaxClicks /\ faults' \in 0..MaxFaults
    BY <1>0, CountersStayTyped
  <1> QED  BY <1>1, <1>2, <1>3, <1>4, <1>5 DEF IInv, TypeOK, Kept

\* The invariant holds throughout.
THEOREM InvariantStands == Spec => []IInv
  <1>1. Init => IInv
    BY BrowserAssumption, InvariantHolds
  <1>2. IInv /\ [Next]_vars => IInv'
    BY BrowserAssumption, InvariantIsKept
  <1> QED  BY <1>1, <1>2, PTL DEF Spec

\* Pages, requests and stored candidates keep the shapes the code gives them
\* (app.js, server.mjs), and a suppressed duplicate is on no page.
THEOREM TypeCorrect == Spec => []TypeOK
  <1>1. IInv => TypeOK
    BY DEF IInv
  <1> QED  BY <1>1, InvariantStands, PTL

\* A workspace shows what the lists behind it say, whatever answers arrive and
\* in whatever order (render and renderWorkspace of app.js).
THEOREM ScreenStaysOneAnswer == Spec => []ScreenIsOneAnswer
  <1>1. IInv => ScreenIsOneAnswer
    BY DEF IInv
  <1> QED  BY <1>1, InvariantStands, PTL

\* An owner who is told that a verification is done sees its outcome, although
\* the answer is read without the lock (execute of the suppression store).
THEOREM VerificationAnswersAreWhole == Spec => []VerificationAnswerIsWhole
  <1>1. IInv => VerificationAnswerIsWhole
    BY DEF IInv, RequestsAreSound, Sound, Written, VerificationAnswerIsWhole
  <1> QED  BY <1>1, InvariantStands, PTL

\* A request that takes effect was composed at the very revision it replaces.
LEMMA TakesWhatWasSeen ==
    ASSUME BrowserAssumption, IInv, [Next]_vars, NEW r \in requests, Takes(r)
    PROVE  /\ r.seen.revision = file[r.candidate].revision
           /\ r.command = "approved" => r.seen.state = file[r.candidate].state
  <1>1. PICK q \in requests' : q.id = r.id /\ q.step \in {"halfway", "done"}
    BY DEF Takes
  <1>2. \A p \in requests : p.id = r.id => p = r
    BY DEF IInv, RequestsAreApart, Apart
  <1>3. r.step \in {"sent", "dispatched"} /\ r.id \in Nat /\ r.id <= clicks /\ clicks \in Nat
    BY BrowserAssumption DEF Takes, IInv, TypeOK, Request, RequestsAreSound, Sound, Composed, BrowserAssumption
  <1>4. r.expected = r.seen.revision /\ (r.command = "approved" => r.seen.state = "guardian_pass")
    BY DEF IInv, RequestsAreSound, Sound, Composed
  <1>5. TypeOK /\ ScreenIsOneAnswer
    BY DEF IInv
  <1>6. q \notin requests
    BY <1>1, <1>2, <1>3
  <1>7. ASSUME NEW p \in requests, NEW s \in Request, GoesOn(p, s) PROVE p = r /\ q = s
    BY <1>1, <1>2, <1>6, <1>7 DEF GoesOn, Same
  <1>8. ASSUME NEW p \in requests, Execute(p)
        PROVE  file[r.candidate].revision = r.expected
               /\ (r.command = "approved" => file[r.candidate].state = "guardian_pass")
    BY <1>5, <1>7, <1>8, ExecuteWrites
  <1>9. ASSUME NEW p \in requests, Verify(p)
        PROVE  file[r.candidate].revision = r.expected /\ r.command # "approved"
    BY <1>5, <1>7, <1>9, VerifyWrites
  <1>10. ASSUME NEW p \in requests, Assess(p) PROVE FALSE
    BY <1>3, <1>5, <1>7, <1>10, AssessWrites
  <1>11. ASSUME NEW p \in requests, NEW s \in Request, Advances(p, s) PROVE FALSE
    BY <1>1, <1>7, <1>11 DEF Advances
  <1>12. ASSUME NEW k \in Client, Press(k) PROVE FALSE
    <2>1. \E s \in Request : requests' = requests \cup {s} /\ s.step = "sent"
      BY <1>5, <1>12, PressComposes
    <2> QED  BY <1>1, <1>6, <2>1
  <1>13. ASSUME NEW k \in Client, Reload(k) PROVE FALSE
    <2>1. PICK p \in requests : q = IF p.client = k THEN [p EXCEPT !.client = None] ELSE p
      BY <1>13 DEF Reload
    <2>2. p \in Request
      BY <1>5 DEF TypeOK
    <2>3. q.id = p.id /\ q.step = p.step
      BY <2>1, <2>2 DEF Request
    <2> QED  BY <1>1, <1>2, <1>3, <2>3
  <1> QED  BY <1>4, <1>5, <1>6, <1>8, <1>9, <1>10, <1>11, <1>12, <1>13, RequestsMove

\* A refusal brings what is later than what was pressed on.
LEMMA ConflictBringsTheChange ==
    ASSUME BrowserAssumption, IInv, [Next]_vars, IInv', NEW r \in requests,
           r.step = "version_conflict", Receive(r), r.client \in Client
    PROVE  LET page == screen'[r.client]
               Later(candidate) == candidate = Unlisted \/ candidate.revision > r.seen.revision
           IN  /\ Later(page.today[r.candidate])
               /\ page.open /\ page.active = r.candidate => Later(page.shown)
  <1> DEFINE page == screen'[r.client]
  <1>1. /\ r \in Request /\ r.candidate \in Candidate /\ screen \in [Client -> Page]
        /\ r.expected = r.seen.revision /\ None \notin Candidate /\ r.expected \in Nat
        /\ r.today \in [Candidate -> Shown]
    BY DEF IInv, TypeOK, Request, RequestsAreSound, Sound, Composed, BrowserAssumption
  <1>2. r.today[r.candidate] = Unlisted \/ r.expected < r.today[r.candidate].revision
    BY DEF IInv, RequestsAreSound, Sound, Behind
  <1>3. page = Updated(screen[r.client], r)
    BY <1>1 DEF Receive, Continued
  <1>4. page.today = r.today
    <2> DEFINE p == [screen[r.client] EXCEPT !.today = r.today]
    <2>1. p \in Page /\ p.today = r.today
      BY <1>1 DEF Page
    <2>2. page = render(p)
      BY <1>3 DEF Updated
    <2> HIDE DEF p, page
    <2> QED  BY <1>1, <2>1, <2>2, PageShapes
  <1>5. page.open /\ page.active = r.candidate => page.shown = page.today[r.candidate]
    BY <1>1 DEF IInv, ScreenIsOneAnswer
  <1>6. r.today[r.candidate].revision \in Nat
    BY <1>1, ShownFields
  <1> HIDE DEF page
  <1>7. /\ page.today[r.candidate] = Unlisted \/ page.today[r.candidate].revision > r.seen.revision
        /\ page.open /\ page.active = r.candidate =>
              page.shown = Unlisted \/ page.shown.revision > r.seen.revision
    BY <1>1, <1>2, <1>4, <1>5, <1>6
  <1> QED  BY <1>7 DEF page

\* AT-36: nothing takes effect but what was pressed on the candidate as it is,
\* and who is refused for a conflict is shown the change (assertExpectedRevision
\* and the answer to a conflict in server.mjs).
THEOREM RevisionsAlwaysGuard == Spec => RevisionsGuardTheOwner
  <1> DEFINE Acts == \A r \in requests : Takes(r) /\ r.from # "dialog" =>
                        /\ r.seen.revision = file[r.candidate].revision
                        /\ r.command = "approved" => r.seen.state = file[r.candidate].state
             Shows == \A r \in requests : r.step = "version_conflict" /\ Receive(r) /\ r.client \in Client =>
                        LET page == screen'[r.client]
                            Later(candidate) == candidate = Unlisted \/ candidate.revision > r.seen.revision
                        IN  /\ Later(page.today[r.candidate])
                            /\ page.open /\ page.active = r.candidate => Later(page.shown)
  <1>1. IInv /\ [Next]_vars => Acts
    BY BrowserAssumption, TakesWhatWasSeen
  <1>2. IInv /\ IInv' /\ [Next]_vars => Shows
    BY BrowserAssumption, ConflictBringsTheChange
  <1>3. [][Acts]_vars /\ [][Shows]_vars => RevisionsGuardTheOwner
    BY DEF RevisionsGuardTheOwner, ActsOnWhatIsShown, ConflictShowsTheChange
  <1> HIDE DEF Acts, Shows
  <1> QED  BY <1>1, <1>2, <1>3, InvariantStands, PTL DEF Spec
=============================================================================
