# ThreadScout AI: verification project

TLA+ models, model-checking configurations and machine-checked proofs for
ThreadScout AI, a single-owner tool that takes product candidates through
evidence, strategies, drafts, an automatic Guardian review and the owner's
approval. Source paths below are relative to the repository.

## 1. The system

### Components

| Component | Code | State | Operations | What makes it correct |
|---|---|---|---|---|
| Candidate workflow | `apps/web/application-state.mjs` | one record per candidate: evidence packet, strategies, four drafts, Guardian result, review, workflow state, revision, material hash | `request_verification`, `request_strategies`, `request_drafts`, `edit_draft`, `run_guardian`, `review_decision` | an approval is always about the current content and rests on a Guardian pass of it; nothing outlives what it was derived from |
| Guardian, matching, ranking | `packages/core/src/*.mjs` | none (pure) | decide match state, Verifier decision, readiness, risk, Guardian decision | blocking findings cannot be approved past |
| First screen | `packages/core/src/candidate-ranking.mjs`, `candidate-dedupe-store.mjs`, `apps/web/app.js` | none (computed on every read) | choice of the inbox, of the cards and of the excluded candidates | what waits for the owner is shown, what is hidden can be found again, and what is missing is missing for a reason |
| Duplicate store | `apps/web/candidate-dedupe*.mjs` | duplicate assessment per candidate; command history of 100 | `resolve_duplicate`; assessment after `add_manual_candidate` and `request_verification`; replay | a possible duplicate reaches no content before the owner calls it distinct; a retried command is applied once |
| Locked state file | `apps/web/locked-application-store.mjs` | the JSON file, the lock file beside it | `execute`, `initialize`, unlocked `readToday` | concurrent writers are serial; a wait ends in an answer or an error, never an unsafe write |
| Manual Orchestrator | `apps/web/manual-orchestrator.mjs` | none (validates on a read, then runs the store) | dispatch of specialist, human and deterministic commands | no specialist runs from a state it may not run from |
| Suppression store | `apps/web/candidate-suppression*.mjs` | rules (up to 200), stamps on candidates | `suppress_candidate`, `restore_candidate`, `remove_suppression_rule` | a suppressed candidate stays off the first screen until the owner reverses it |
| Web server, browser client | `apps/web/server.mjs`, `app.js` | a latched initialisation promise; the lists, the workspace and the dialog of each page | the endpoints for reading and commands; press, receive, render, reload | no command takes effect on what its page did not show; a refusal shows what has changed |
| Agent run | `packages/orchestra/src/orchestrator.mjs`, `executor.mjs`, `model-runtime.mjs` | run record, stage cursor, loop counters, budgets | `submitAgentArtifact`, `recordHumanDecision`, `completeLocalQueue` | stages in order, loops bounded, only current work approved, the log ahead of the run |
| Evidence store, dependency index | `packages/orchestra/src/evidence-store.mjs`, `dependency-index.mjs`, `versioning.mjs` | append-only chains and objects in files; lineage of every artifact | `putObject`, `saveArtifact`, `appendRunEvent`, `readRunEvents`; bind, index, invalidate | the chain is never forked or broken, an event never names an object that is not there, and every dependent of withdrawn evidence is found |
| Master harness | `packages/orchestra/src/master-harness.mjs` | one run and its report | one pass over a fixture | the report equals the expected one |
| Registries, prompts, adapters, scripts | the rest of `packages/orchestra/src`, `scripts/` | constants | validation | - |

### How they interact

The server calls `ManualProductOrchestratorService.execute`. It reads the
state *without the lock*, checks the dispatch rules on the first-screen read
model, and calls the store. The store stack is suppression over duplicates
over lock over atomic file: `execute` takes the lock, answers a known
`requestId` from the history, otherwise reads the file, compares
`expectedRevision`, applies the command, and renames a new file into place.
The duplicate store runs the base command first (one write) and stamps its
assessment in a second write under the same lock. The lists an answer carries
are read after the lock is released, again without it.

A page keeps the lists of the last answer that reached it and, in a dialog, the
workspace of one candidate; every command carries the revision found there. No
button waits for an answer.

An agent run is separate from the web application: `executeWithModelRuntime`
asks the runtime for the artifact of the current stage, saves it with
its parents and its evidence in the evidence store's run log, submits it to the run in memory, and goes on until
no agent is next; then it enters the owner's decision it was called with and
queues the run.

### What is hard here

* The material hash is recomputed only in `bump`; the Guardian result and the
  owner's approval are both compared with it. Any handler that forgets one of
  the six dependent fields produces an approval of something else.
* `invalidateDownstream`, `createDrafts` and `editDraft` each decide on their
  own whether the workflow becomes `stale`.
* The lock is a file removed by path, after checks made in earlier calls; a
  killed writer leaves it behind, at worst without a token, and one whose
  file-system call fails may too. The release throws from a `finally` block,
  over the answer of a command that is already on file.
* A crash or a failed write between the two writes of the duplicate store; an
  unlocked read between them.
* Requests of one page overlap, and the answer that arrives last is shown,
  whether or not it was given last; the read before a command and the read
  after it see the file between the writes of others.
* Appends of one run wait for each other in a chain of promises, in which each
  waits for a predecessor that may fail; a failed or killed append may leave
  part of a line.
* The cards are cut from the five best *before* those that get no card are
  taken out, and named as excluded *after* all candidates are looked at.
  Reviews come before all others in the order of their last update, which any
  command about them renews.
* Two sets of bounds, the plan's loops and the runtime's attempts, that know
  nothing of each other; a run in memory beside a log that survives it.
* Idempotency by a bounded history, and a demo reset that starts revisions
  over: a demo candidate that reaches the same revision again takes a command
  composed before the reset.

`PROJECT.json` lists every hazard at its line with the properties that cover it.

## 2. Modules

| Module | Models | Depends on |
|---|---|---|
| `Candidate` | the record and each handler as an operator from record to record; matching, readiness, risk, Guardian decision, dispatch rules | - |
| `CandidateWorkflow` | one candidate under all commands in any order, with or without the Orchestrator | `Candidate`, instance of `Approval` |
| `MCCandidateWorkflow` | bounds on the revisions for TLC | `CandidateWorkflow` |
| `Approval` | abstract: what the owner is promised of approvals | - |
| `CandidateWorkflow_proofs` | lemmas about the handlers of `Candidate`, on which the theorems about the store rest as well, and theorems about `CandidateWorkflow` | `CandidateWorkflow`, `TLAPS` |
| `CommandStore` | clients, Orchestrator and duplicate store over several candidates: requests composed, validated on an unlocked read, applied in one or two writes, repeated, lost in a crash | `Candidate`, instance of `CandidateWorkflow` |
| `CommandStore_proofs` | theorems about `CommandStore` | `CommandStore`, `CandidateWorkflow_proofs` |
| `MCCommandStore` | kinds of traffic and symmetry for TLC | `CommandStore` |
| `Suppression` | the owner's rules, the stamps computed from them and put on file by every write, drift, exemption and expiry | - |
| `Suppression_proofs` | theorems about `Suppression` | `Suppression`, `TLAPS` |
| `LockedStore` | writers on the lock file and the state file, one file-system call per step | instance of `SerialStore` |
| `SerialStore` | abstract: commands, written once or twice, take effect one at a time; what "ok", "refused" and "error" tell of them | - |
| `LockedStore_proofs` | theorems about `LockedStore` | `LockedStore`, `TLAPS` |
| `OrchestraRun` | one agent run: stages, submissions, loops, the owner's decision, the queue | - |
| `RunExecutor` | a run driven by the executor over a budgeted runtime and an event log, with failures and deaths | `OrchestraRun` |
| `RunExecutor_proofs` | theorems about `OrchestraRun` and `RunExecutor` | `RunExecutor`, `TLAPS` |
| `MCRunExecutor` | plans and budgets for TLC | `RunExecutor` |
| `EvidenceStore` | calls of one server process on the evidence store: objects, queues of appends, the files of events, with failing calls, partial lines, kills and restarts | instance of `EventLog` |
| `EventLog` | abstract: what the callers of the evidence store are promised | - |
| `EvidenceStore_proofs` | theorems about `EvidenceStore` | `EvidenceStore`, `TLAPS` |
| `MCEvidenceStore` | two runs and four calls for TLC | `EvidenceStore` |
| `FirstScreen` | the portfolio under all commands, the cards and the excluded candidates computed from it | - |
| `MCFirstScreen` | four candidates in three layouts of lanes | `FirstScreen` |
| `MCFirstScreenStuck` | ten candidates and the screen of five, additions and decisions alone | `FirstScreen` |
| `FirstScreen_proofs` | theorems about `FirstScreen` | `FirstScreen`, `TLAPS` |
| `Browser` | pages in front of one server: what they show, the requests under way, the server's steps on each, answers late, lost or out of order | - |
| `Browser_proofs` | theorems about `Browser` | `Browser`, `TLAPS` |
| `MCBrowser` | two pages and two candidates for TLC | `Browser` |

### Candidate, CandidateWorkflow

A handler is an operator (`Verified`, `WithStrategies`, `WithDrafts`,
`DraftEdited`, `GuardianRun`, `Reviewed`, `DuplicateResolved`), its early
returns a predicate (`StrategiesAllowed`, `DraftsAllowed`, `HasDrafts`,
`ReviewAllowed`, `PendingDuplicate`), and an action of `CandidateWorkflow`
combines the two with `MayRun`, the Orchestrator's rules.

Abstractions:

* *Payloads* are what the decisions tell apart (`Identity`, `Terms`): how many
  of brand, model, variant are missing, the number of independent origins, the
  substitute declaration; rights, usage record, disclosure. Any of them may
  change in a verification, as `applyEvidenceFields` allows.
* *Copy* is the kind of finding the Guardian makes of it (`Text`). The owner's
  own wording is part of the candidate because the Writer's templates quote it
  (`Quoting`: three of four do). The identity strings, which every template
  but one also quotes, are taken to be free of claims.
* *Timestamps* are revisions: a packet is identified by the revision it was
  made in, which is what `evidenceObservedAt` is compared with.
* *Hashes* are their contents: `material` is the record that is hashed.
* *The duplicate assessment* after a verification is a free choice among
  unique, possible and exact, as the other candidates are not in the module;
  an identity confirmed distinct may also be kept (`Assessment`).
* *The first screen* is reduced to its exclusions by risk and by owner
  decision; the limit of five, the score floor and lane caps only remove
  dispatches.  Owner suppression does so too.
* A command with its Orchestrator read is one step; `CommandStore` splits it,
  and the free assessment is made there by the other candidates.

A behaviour is with or without the Orchestrator in front of the candidate
(`supervised`, chosen once and for all). Without it the candidate is in the
store as the tests and any in-process caller use it: the handlers' own checks
must suffice for everything about approvals, and every property but two is
about both kinds. `DuplicatesStayOut` and `ApprovalEndsVisibly` are the
Orchestrator's merit and stated of supervised behaviours alone.
`DuplicatesStayOut` depends on the Orchestrator's read and the command
being one step; finding 2 is what happens when they are not.

### CommandStore

`call` follows each request from `Compose` (a client writes it from what it was
shown, `expected` and `saw`) through `Dispatch` (the Orchestrator's unlocked
read) into the store: `Replay`, `Apply`, `Refuse`, `Add`, `Reset` under the
lock, and `Assess` or `AssessNew` for the second write. `holder` is the request
between its two writes. `cands`, `identity` and `history` are the state file:
the records, the identity each has and the one its assessment was made for,
and `commandOrder`. `applied` is observed only: how often a request took
effect.

The lock is taken as exclusive (`LockedStore` is about how far it is), a
handler with a single write is one step, and a killed holder's lock is gone at
once. A second write that fails leaves on file what a crash there leaves, with
the lock released and its caller told an error; the traffic in which servers
die stands for it. All candidates have one name, so an incomplete identity (`Vague`) is
similar to every other; brand, model and variant are one value
(`Product`). A request id is never used for two different commands, which the
store would refuse. Beyond `CandidateLimit` an addition drops the oldest
candidate (`GivesWay`), whatever its state. A behaviour has one kind of
*traffic* (`Traffics`): which commands its clients issue, how many, about which
products, and whether servers die. Drafts, terms and texts are at their simplest: what they decide
is the matter of `CandidateWorkflow`.

`AtRest(id)` is the record as it will be after a pending second write. It
maps the store onto `CandidateWorkflow`: the first write makes the whole
command's step and the second one stutters. `StoreRunsTheWorkflow` says so of
every step of the store; `CommandsRunTheWorkflow` is the part of it that TLC
evaluates, in the traffic in which servers die.

### Suppression

`rules` and `stamp` are what is on file. A stamp is never simply kept: every
read computes it anew from the rules, the clock and the stamp found
(`assessSuppression`), and every write puts the result of its read back, so
`Read` is what readers and commands see and `Shown` and `Hidden` are said of
it. The three commands of the store are `suppressCandidate`,
`restoreCandidate` and `removeSuppressionRule`; the others appear as far as
they touch the stamps: `Verify` corrects brand and source (name and lane
cannot change), `Add` creates an identity, `OtherCommand` only writes.

* *A rule's id* is its axis and value, as no two rules share both (part of
  `TypeOK`). The stamp names rules by id in the code; an id of a rule that is
  gone cannot be confused with that of a new rule on the same axis and value,
  because every write that drops a rule also renews all stamps (`TypeOK`
  again: no stamp on file names a rule that is gone).
* *Compare-and-set* is kept without the numbers. `dispatched` are the
  verifications composed and validated against the current revision of their
  candidate; whatever changes the candidate drops it from there, as the store
  would refuse it. A new rule stamps other candidates without changing their
  revision, and leaves them there.
* *Two writes.* `writing` is the candidate between the base command's write
  and the second one of the duplicate store, where a crash may fall.
* The blockers that repeat the stamp, the audit and the limit of fifty
  candidates are left out.

### LockedStore

`pc` follows one call of `execute` through `acquireWriteLock` (`open`,
`write`, `stat1`, `read1`, `stat2`, `read2`, `clear`, `retry`), the operation
(`read`, `persist`, `reread`, `rewrite`) and `releaseWriteLock` (`check`,
`unlink`). The lock file is a record of who created it, the token in it, and
whether it is older than `lockStaleMs`; a writer that lost its file by removal
still holds its handle, so its token goes nowhere. `db` is the sequence of
writes the state file has been through: every write replaces the whole file by
what its writer read and one more entry. `Twice` are the calls whose command is
written twice, verifications and additions; the others read the state again for
their answer or, resolving a duplicate, do not.

Every file-system call may throw (`MayFail`). One under the lock goes through
the `finally` block of `withWriteLock`, so the lock is released and the call
ends with "error", whatever is on file by then. One of `acquireWriteLock` or
`releaseWriteLock` itself ends the call at once, and a lock it has created
stays: empty if `writeFile` failed, with its token if `sync` or `close` did
(`WriteToken`) or the release. A missing file is never thrown, and an existing
one not by `open`; these are ordinary steps. So a call has three kinds of
answer. "ok" and "refused" (or busy) are claims about the file; "error" is
none, and no property or promise takes it for one.

A missing state file and `initialize` are left out: the server initialises
before it serves. So is a known request, which only reads and is answered from
the history (`CommandStore`), and the read of the lists after the release
(`Browser`): if that throws, the answer is an error for a command on file, too.

Time is reduced to two facts: a waiter's deadline may pass at any moment
while it waits, and a lock becomes stale only if its creator has ended, or is
in `MaySlow`. This is the timing assumption the design rests on (30 s against
a critical section of milliseconds); `MaySlow` is the place where it is
dropped.

### OrchestraRun, RunExecutor

The functions of `orchestrator.mjs` take a run and return the next one or
throw; in the model each is an operator (`Submitted`, `Decided`, `Queued`) and
a predicate (`SubmitAllowed`, `DecisionAllowed`, `QueueAllowed`). `cursor` is
the stage's id instead of its index. An artifact is the verdict it carries,
where the route depends on one, and when it was made, counted in submissions,
which is what currency means below. `Next` lets any caller make the calls in
any order, which is how the simulation and the harness use them.

`RunExecutor` adds `executeWithModelRuntime`: `pc` is the await it has come
to, `asked` the runtime's attempts, `log` the events of the store. A call of a
model is `Invoke` (counted, checked against the budget) and `Answer` or
`TimeOut`. An append may fail before or after it is written. The artifact is
in the log before it counts in the run (`SaveArtifact`, then `Submit`), the
decision after it (`Decide`). Nothing survives `Die` but the log. An event
carries the lineage `attachArtifactMetadata` gives the artifact: its parents
and the evidence it is bound to, which is a local variable of the loop
(`evidence`), 0 before there is any. The index (`ArtifactsByEvidence`,
`ChildrenOf`), what a packet invalidates (`CollectDependentArtifacts`) and
freshness (`Fresh`) are operators on the log. Receipts,
hash values, character budgets and elapsed time are left out: the last two are
calls that fail. An executor without a store has no log to relate to and is
not modelled.

### EvidenceStore, EventLog

A call is `appendRunEvent`, or `saveArtifact` or `saveSource` (one `putObject`
and then an append). `pc` is the await it has come to: `check` (`exists`),
`write` (the temporary file), `rename`, `queued` (its `readRunEvents` waits for
the append before it or is under way), `append`. `queue[r]` is the chain of
promises of run `r`, `seen` what a call has read and numbers its event by, and
`log[r]` the lines of the file with how each ends. Every file-system call may
fail, an append that fails or is killed may leave none, part or all but the
newline of its line.

`Rejected` is Node's rule that a rejected promise nobody handles ends the
process: the promise kept in the queue is the one `finally()` returns, and only
an append queued behind it handles it. Hashes are the calls whose events they
are of: two events never have one hash. Packets and source records are content.

`EventLog` is the promise: a run's events grow at the end only, one at a time,
and "ok" means the event is among them. `EventsIn` takes the chain from the
lines of a file; a line that was cut is no event.

### FirstScreen

`Cards` and `Excluded` are computed as `todayFromState` does: the inbox is the
pending duplicate reviews, last updated first, and then the best by score, cut
to `Limit`; `selectFirstScreen` walks it with the lane caps, and once more over
all candidates for the excluded ones. The cap applies as soon as the set it is
called with is of two lanes. Commands are reduced to what moves a candidate
between the lists. Scores are distinct and fixed (`Ranked`); candidates below
the review floor do not occur, as only fixtures above it and additions, which
the floor does not touch, can be in the file.

`pending` is the order of the reviews by their last update. Whatever changes a
review or its suppression makes it the first (`Becomes`, `Touched`); the
removal or expiry of a rule changes no candidate but its stamp (`RulesEnd`).
What a rule matches is `Suppression`'s matter: here a suppression may hide any
set of candidates, and release any when the limit on rules drops the oldest.

### Browser

A page (`screen[k]`) is `today`, the lists of the last answer, `active` and
`open`, the workspace dialog, `shown`, what is rendered there, and
`suppressing`, the suppress dialog. A request keeps what the page showed when
it was pressed (`seen`, observed only) and the revision sent. On the server it
is `sent`, `dispatched` after the Orchestrator's read, `halfway` between the
two writes of a verification, `done`, then `ok` with the lists read at that
moment; or `conflict`, then `version_conflict`. A refusal of another kind
carries no lists and is a toast. A suppression reads its answer under the lock,
all others after it.

The state of a candidate is reduced to what decides which buttons there are
and what they may do. Additions, the demo reset and the filters are left out;
so are the three commands that are sent, checked and answered as
`run_guardian` or `held` are. What a verification finds is a free choice here
and the matter of `CommandStore`.

## 3. Runs

Some properties are conjunctions; their parts are named in brackets and each is
a definition with a comment of its own.

| Run | Bounds | Shows |
|---|---|---|
| `workflow` | two drafts (one quoting), all identities, terms and texts; revisions to 7, to 8 with the Orchestrator in front | `WorkflowTypeOK`, `ContentIsCurrent` (`MaterialIsCurrent`, `Lineage`), `ApprovalIsEarned` (`PassIsCurrent`, `ApprovalIsVouched`, `ApprovedCopyIsSafe`), the refinement `ApprovalPromise`; with the Orchestrator `DuplicatesStayOut`, `ApprovalEndsVisibly` |
| `lock_recovery` | two writers, one of which writes twice, may be killed at any step and have any file-system call fail; fairness | `TypeOK`, `MutualExclusion`, `NothingIsLeftBehind` (`FailsClosed`, `NoLockIsLeft`), `ImplementsSerialStore`, `Progress` (`EveryCallEnds`, `StaleLockIsCleared`) |
| `lock_cleanup_race` | three writers, one may be killed | violates `FreshLockIsNeverBypassed` |
| `store` | four ids of which one is a demo candidate, at most two on file, a history of one; two requests of any command with crashes, or three that add, verify and resolve | `TypeOK`, `AppliedAtMostOnce`, `OnlyOnWhatWasSeen`, `DuplicatesAreKnown` (`AssessedAtRest`, `TwinsAreCaught`), and `CommandsRunTheWorkflow`: each candidate makes steps of `CandidateWorkflow` |
| `store_unlocked_read` | two candidates, two requests | violates `SpecialistsWaitForTheOwner` |
| `suppression` | a demo candidate and one other, three axes of which two can be corrected, one value, two rules at most, the clock moves once, crashes | `TypeOK`, `HiddenUntilReversed`, `CommandsTakeEffect` (`SuppressionTakesEffect`, `RemovalReleases`), `RestoredUntilSuppressed` |
| `suppression_drift` | two axes, one rule | violates `IdentityEditNeverReleases` |
| `run_executor` | four plans (limits of zero to three), budgets of one to three attempts, fairness | `TypeOK`, `LoopsAreBounded`, `ApprovedWorkIsCurrent`, `LogTellsTheRun` (`RunIsLogged`, `QueueIsJustifiedByLog`), `LineageIsTrue` (`DependentsAreFound`, `QueuedWorkIsFresh`), `ExecutionEnds` |
| `evidence_store` | two runs, four calls of which two save the same object, two failures, one kill, fairness | `TypeOK`, `LogIsSound` (`ChainUnbroken`, `ReferencesResolve`), `FailuresDoNotSpread`, `EveryCallEnds`, the refinement `ImplementsEventLog` |
| `first_screen` | four candidates for three cards, lanes of two cards, portfolios of one lane and mostly of one; two hidden or blocked at most (`FewExcluded`) | `TypeOK`, `CardsFollowTheRules` (`SelectionFollowsTheRules`, `DiversityOnScreen`), `PendingIsNotOutscored`, `AbsenceIsExplained` (`MissingOnlyWhenCrowded`, `HiddenStaysRestorable`, `EmptyReasonIsTrue`), `OthersStayOnScreen` |
| `first_screen_stuck` | ten candidates of one lane, five cards; additions in the order of the scores and decisions | violates `ViableCandidatesAreShown` |
| `browser` | two pages, two candidates, two buttons pressed or reloads, one failing read or write | `TypeOK`, `ScreenIsOneAnswer`, `VerificationAnswerIsWhole`, `RevisionsGuardTheOwner` (`ActsOnWhatIsShown`, `ConflictShowsTheChange`) |

Why the bounds suffice.

* `workflow`: the shortest path to an approval takes five commands
  (revision 6); seven revisions leave room for any command after it, eight for
  what the Orchestrator lets through after an approval and another command. Two
  drafts distinguish selected from unselected and quoting from not. The
  revision bound makes the candidate stop, so deadlock is not checked.
* `lock_recovery`: two writers of which one dies or fails is the largest
  instance in which recovery cannot race with another recovery; with a third
  writer `MutualExclusion` fails, which `lock_cleanup_race` shows at its cause.
  The one that may fail is the one that writes twice, so that every failure
  falls between any two of its calls; the other one lives on and its visit
  must clear what was left (`StaleLockIsCleared`). Three writers on a reliable
  host, and two that may both die and fail, need no run: `StoreIsSerial` covers
  them. That all writers have ended is the normal end.
* `store`: candidates start at any stage of their life (with crashes, at all
  but written drafts, which the strategies lead to), so two or three
  requests reach what would otherwise take a dozen. A race needs two; a twin of
  a candidate under review needs a candidate to be similar to and two
  additions. A history of one forgets, a file of two drops. The requests are
  finite and each ends, so deadlock is not checked. `CommandsRunTheWorkflow`
  exempts two steps: a demo reset, which starts a candidate anew, and a crash
  between the two writes, see section 5.
* `suppression`: a second candidate is needed for a rule to come from
  elsewhere, three axes for a match that is lost on one while another rule
  stands, two rules for the limit to push one out, one tick for a rule to
  expire. One value and the empty text suffice, as rules are compared with a
  field for equality only.
* `run_executor`: a run is finite by its limits, and the plans and budgets
  include those under which each limit is the one that ends it: no loop at
  all, the loops, the total, the attempts and the invocations.
* `evidence_store`: two calls race for an object, three wait in one queue, the
  second run shows what does not wait. Two failures are a failed append and
  one behind it. All calls having ended is the normal end.
* `first_screen`: four candidates and three cards leave one outside; a cap of
  two below a limit of three makes the cap the reason as well as the limit.
  Without `FewExcluded` the portfolios are too many for one run; two excluded
  ones already show every pair of reasons, and `CardsAlwaysFollowTheRules` and
  its like have no such bound.
* `first_screen_stuck`: five decided candidates and five viable ones on the
  screen of five, as the quoted line has it; no more commands than it takes.
* `browser`: two requests overlap in every way, and of two candidates one
  waits for the owner while the other is worked on. Pages that were answered
  with an error before they showed anything have no button left but reload, so
  the system may really stop and deadlock is not checked.

Fairness. In `LockedStore`, `FairSpec` gives each live writer weak fairness on
its step (the event loop runs a ready continuation) and on its deadline (clocks
advance); none to a lock's ageing or to crashes, so `EveryCallEnds` does not
rest on recovery ever being possible. `FairExecutorSpec` is fair to the
executor's own steps and to the runtime's timer, never to a model's answer. In
`EvidenceStore` the steps of a call are fair, for the same reason as a writer's:
Node runs every continuation whose promise is settled; failures, kills and
restarts are not. `Browser` and the rest assume no fairness.

## 4. Theorems

Every invariant, action property and refinement that a passing run checks is
stated by a theorem; what is left to the runs is liveness. Proved for every
value of the constants, from the named assumptions on them alone (the lock's
theorems that need a condition say so):

* `CandidateWorkflow_proofs`: `WorkflowTypeCorrect`, `ContentStaysCurrent`,
  `ApprovalStaysEarned` and `WorkflowImplementsApproval`. A lemma per handler
  says what it makes of a record that is `Stored`, and the theorems about the
  store with many candidates rest on these too. The inductive invariant is
  `Stored(cand)`: the record is typed, the drafts are absent or
  complete, the material is current, and `PassStands`, `ApprovalStands`,
  `DerivedInOrder` hold together. None of these is inductive alone: an approval
  is of the current content because the pass it rests on was, which needs the
  material to be current. `DerivedInOrder` also bounds the packet's revision,
  without which a new packet could equal the old one. The refinement of
  `Approval` is shown action by action. All this holds with and without the
  Orchestrator. `DuplicatesStayWithoutContent` and `ApprovalsEndVisibly` are
  about the behaviours under it and need one part more, `HeldBack`: a suspected
  duplicate is in a state from which the Orchestrator dispatches nothing, and
  has no content yet.
* `CommandStore_proofs`: for any number of candidates, products and requests
  and under any traffic, with servers that die between the two writes of a
  command: `TypeCorrect`, `NoRequestAppliedTwice`, `AppliedOnWhatWasSeen`,
  `RecordsAlwaysStand` (every record a reader can meet is sound, between two
  writes too), `DuplicatesStayKnown` (whose two halves leave out dying servers,
  and the second the owner's decisions as well) and the composition
  `EachCandidateRunsTheWorkflow`. The history does not keep a request from
  taking effect twice, as it forgets; what does is that the revision of a
  candidate has left behind what an applied request expects
  (`RevisionsGrow`), while what concerns no candidate stays in the history
  (`EffectsAreKnown`). `RevisionsGrow` also says that the content is as it was
  seen as long as the revision is, which gives `OnlyOnWhatWasSeen`.
  `LockIsHeld` says what is on file between the two writes. `TwinsAreSettled`
  compares candidates by the product they were last assessed for, as one whose
  assessment is due has another product by then. For the composition a record
  is taken as it will be when its assessment is done: the first write of a
  verification is then the whole command of `CandidateWorkflow` and the second
  a stutter, or for an addition the beginning of a candidate. The run checks
  this step property where servers die, the theorem has it for all traffic.
* `Suppression_proofs`: for any number of candidates, axes, values and rules
  and any clock, `TypeInvariant`, `HiddenStaysHidden`, `RestoredStaysShown` and
  `CommandsHappen`. The type invariant is already inductive: it says that no
  axis and value has two rules and that no stamp names a rule that is gone,
  which are what the three step properties need. The work is in the lemmas on
  what an assessment returns (`Assessed`, `NamelessReleases`) and on the rules
  at their limit (`RuleAdded`).
* `LockedStore_proofs`: in every environment, with any crashes, failing
  file-system calls and suspended holders, `TypeCorrect` and
  `NothingStaysBehind`. A busy or refused writer has no write on file because
  it has written nothing that anybody else could have read and written on
  (`Traceless`). That a returned call leaves no lock unless it answered an
  error rests on `Tokenless`: a writer that waits owns no lock file, the file
  of one that is about to release it carries its token, and the owner of a
  file has returned only with an error. Nothing is claimed of an error beyond
  that: the command may be on file, in half, or not at all. With no suspended
  holder, and either no deaths and no failures or two writers of which both may
  die and fail (`AtMostOneRecovers`), `MutualExclusionHolds`, the refinement
  `StoreIsSerial` and `FreshLockIsSafe` hold. Their invariant `Guarded` says
  that whoever is past `Open` owns the lock, which is old only if its owner is
  dead or has returned with an error, and that whoever recovers such a lock is
  the only writer left; `Current` adds that what a writer under the lock has
  read is what is on file, and that between the two writes of a command nobody
  else's is added (`Appended` says what a write adds). The condition is as weak
  as the code allows: with a third writer two may recover at a time, and all
  three fail (finding 1).
* `RunExecutor_proofs`: for any limits a plan may have and any caller,
  `LoopsStayBounded` and `ApprovedWorkStaysCurrent`. Neither is inductive: the
  invariants say stage by stage how often each agent has been asked
  (`CountsPerStage`; a Writer at work has been asked exactly once per
  revision) and how far the chain of artifacts in force reaches
  (`ChainPerStage`; before the review there is no report of the Guardian at
  all, so that an escalated verification cannot be approved on an old one).
  `SubmissionFields` reduces a submission to its four routes.
  `ExecutorRunsThePlan` shows that the executor is one such caller, for any
  budgets and with failures and kills: each of its steps is a step of
  `OrchestraRun` or a stutter, so the two theorems hold of it
  (`ExecutorApprovesCurrentWork`). `LogAlwaysTellsTheRun` and
  `LineageStaysTrue` are about its log. The log may be one artifact ahead of
  the run, when the executor dies between saving and submitting (`LogIsAhead`),
  and is otherwise current (`LogIsCurrent`). That the index finds all
  dependents rests on every artifact having the one before it among its parents
  and none after it (`ParentsComeFirst`), and on the walk over the index being
  what the source says: a recursive function, shown to contain whatever a path
  reaches by taking the least number for which it would not. That queued work
  is fresh rests on everything since the last packet being bound to it
  (`BoundToPacket`) and on nothing being saved after the queue record
  (`QueueComesLast`).
* `EvidenceStore_proofs`: `TypeCorrect`, `LogStaysSound` and
  `FailuresStayContained`, for any number of runs, calls, failures and kills.
  The chain alone is not inductive: an event is numbered by what was read in an
  earlier step. The invariant adds that whoever is between reading and
  appending is at the head of its queue (`InTurn`), hence alone, and so still
  knows the end of the file (`KnowsTheEnd`), and that its object is stored
  (`Backed`). `SoundnessKept` says once for all steps that a file that grows by
  such a line stays sound. `StoreImplementsEventLog` is the refinement of
  `EventLog`: a file that grows by a whole line has one event more and by a part
  of a line none (`EventsGrow`, about the recursive function `EventsIn`), and a
  call without an answer has no event on file (`Unwritten`), so each event comes
  with the step that answers its call.
* `Browser_proofs`: `TypeCorrect`, `ScreenStaysOneAnswer`,
  `RevisionsAlwaysGuard` and `VerificationAnswersAreWhole`, for any number of
  pages, candidates, requests under way, clicks and faults. The two halves of
  `RevisionsGuardTheOwner` rest on one order: a request carries the revision
  its owner saw (`Composed`), no page, request or answer is ahead of the state
  file (`PagesAreBehind`, `Behind`), and no revision falls (`FileGrows`). A
  request is hence refused only for something later, and the answer to it
  shows that. That an answer is whole needs in addition that a verification
  between its two writes is alone (`Apart`) and was composed after every one
  that is done, so that its second write changes nothing an answer under way
  still vouches for (`Written`).
* `FirstScreen_proofs`: for any ranking that names every candidate once, any
  lanes, limit and cap, `CardsAlwaysFollowTheRules`, `PendingNeverOutscored`,
  `AbsenceAlwaysExplained` and `OthersAlwaysStay`, over `TypeCorrect`. Here
  `TypeOK` is the inductive invariant: the reviews line up once each, and
  exactly the candidates under review do (`ReviewsFollow`). All else follows
  from a state of that shape. The heart is `SelectionIsBest`: the walk of
  `selectFirstScreen` decides on what it has taken so far, the rules (`Best`)
  on all there is. The two agree because a set cut to its first k has, before
  any member, fewer than k if and only if the whole set has (`FewSoFar`), once
  for a lane and its cap and once for all lanes and the limit (`TakesTheBest`).
  `InboxFacts` says what the cut of the inbox keeps and that a candidate left
  out finds it full; and as an inbox is no longer than the screen, its best are
  all that their lanes admit (`BestOfFew`), so that whoever leaves takes no
  card from another (`LeavingFreesCards`), if the inbox stays as it is. It does
  not always: `OthersAlwaysStay` leaves out a command that makes a review from
  behind the inbox its first. One from within it may move, whatever its place
  (`FrontKeepsTheFirst`, over `ButOne`: those it passes go back by one).

Model-checked only:

* Liveness (`Progress`, `EveryCallEnds`, `ExecutionEnds`): the prover has no
  rules for fairness and `ENABLED`.

The library's induction theorems take a predicate as a parameter, which the
installed provers cannot instantiate. Where a proof needs induction it is done
on a set of naturals, which has a least member if it has any (`Least` in
`RunExecutor_proofs`, `EvidenceStore_proofs` and `FirstScreen_proofs`).

## 5. Findings

1. *A fresh lock can be bypassed.* `clearStaleLockIfNeeded` checks twice and
   then removes by path. Two waiters that both finish their second read of an
   abandoned lock remove twice; the second removal hits the lock the first
   has just taken, and the slower waiter then enters beside the faster one.
   (`lock_cleanup_race`.)
2. *A specialist can overtake the duplicate review.* A verification is visible
   after its first write with the new revision and without the duplicate
   stamp; the second write does not change the revision. A specialist command
   validated in between takes the candidate out of `duplicate_review`, after
   which the review can no longer be resolved. (`store_unlocked_read`.)
3. *A verification can lift a suppression.* "An identity edit must never
   silently un-suppress" holds if the edit is the only thing under way. The
   drift stamp, though, names no rule, and the second write of the
   verification puts it on file; the read after that finds no rule standing
   and clears it. It takes a rule that comes between the Orchestrator's look
   at the candidate and the execution of its verification, as a new rule
   changes no other candidate's revision. (`suppression_drift`.)
4. *The screen can be empty over viable candidates.* The inbox is cut to five
   before held, rejected, suppressed and risk-blocked candidates are taken
   out; five of these with higher scores, and nothing is shown, without a
   reason, though five viable candidates wait behind them.
   (`first_screen_stuck`.)

Observed while modelling, in the steps of the models but no property of a run.
Most are the reason for a condition in a property.

*The lock and the store*

* `releaseWriteLock` compares the token and removes by path in two calls; a
  holder suspended in between for longer than the stale age removes its
  successor's lock. `docs/implementation/PERSISTENCE_LOCK_HARDENING_PLAN.md:31`
  says otherwise.
* An error does not mean that nothing happened. `releaseWriteLock` rethrows
  what is not a missing file from the `finally` block of `withWriteLock`, after
  the state was persisted: the caller gets an error for a command that is on
  file, and the lock stays, with its token, until it is stale. A `sync` or
  `close` that fails in `acquireWriteLock` leaves such a lock as well. A second
  write that fails leaves the first one on file, with the candidate not
  assessed; a read of the lists that fails after the release
  (`candidate-suppression-store.mjs:274`) leaves the whole command. Hence
  "error" beside "ok" and "refused".
* A repeated command is judged by the Orchestrator on the state its first
  sending has produced, before the store can find it in the history, and can
  be refused (`docs/implementation/C_VERTICAL_SLICE_PLAN.md:95`).
* A crash between the two writes of a verification, or a second write that
  fails, leaves an identity that is never assessed: the retry is answered from the history, so only another
  verification repairs it. `AssessedAtRest` is checked without crashes.
* An addition at the limit of candidates drops the oldest one before its own
  assessment; if it turns out an exact duplicate it is taken back, and the
  oldest is gone all the same.
* A demo reset starts revisions and the history over, so a command composed
  before it, or its request id, can fit again. `OnlyOnWhatWasSeen` and
  `AppliedAtMostOnce` leave this out.

*Suppression and the first screen*

* Suppressing reuses a rule on the same axis and value without a look at its
  expiry. Once a temporary rule has expired, suppressing again answers with
  success and hides nothing (`InForce` in `SuppressionTakesEffect`).
* The rule beyond the limit of 200 removes the oldest, and with it whatever it
  alone kept hidden. `HiddenUntilReversed` counts this as a withdrawal.
* The lane caps apply only if the candidates they are given are of two lanes:
  an inbox of one lane is not capped, while the excluded list is made with
  caps. A candidate can then be on both lists; one that was crowded out of the
  inbox can be on neither (`MissingOnlyWhenCrowded`).
* Hiding or restoring a pending review makes it the latest update. With more
  reviews than the inbox holds, hiding one from behind, by the API or an older
  page, brings it in and pushes the last one out, which loses its card to a
  candidate that has none; a new lane among them may also switch the caps on.
  `OthersStayOnScreen` leaves this command out.
* A risk-blocked candidate is never on a card, and the Orchestrator dispatches
  only what is: it cannot be verified anew with corrected rights.

*The evidence store and the executor*

* A rejected append with nothing queued behind it ends the process, with the
  calls of every other run: nobody handles the promise that `finally()`
  returns. `docs/PHASE2D_PLAN.md:19` promises that runs do not
  disturb each other.
* A line that lost only its newline is still read as an event; the next append
  is glued to it, and from then on the file cannot be read. The first of the two
  had been acknowledged to nobody, the second has.
* Two calls that store one object in the same millisecond share a temporary
  name; the second fails with `EEXIST` although the object is there in the
  end. `exists` takes any error for absence.
* The second revision the plan grants the Writer exceeds the runtime's two
  attempts: such a run ends in `run_failed` instead of an escalation
  (`docs/spec/AGENT_CONTRACTS.md:230`, `:234`).
* A candidate set that a refinement makes the Scout save anew is bound to the
  superseded evidence, and `evaluateArtifactFreshness` calls it stale even in
  an approved run; `QueuedWorkIsFresh` is about the packet and what follows it.
* Withdrawing a superseded packet condemns what was built on its successor
  too, as the new packet has the old one among its parents.

*The pages*

* A stale press that the Orchestrator or the duplicate gate refuses gets no
  lists: these checks come before compare-and-set. The page stays as it is
  until it is reloaded, although
  `docs/implementation/C_VERTICAL_SLICE_ACCEPTANCE.md:25` wants the latest
  state shown. `ConflictShowsTheChange` is about the refusals that are
  conflicts.
* An answer read between the two writes of a verification shows the candidate
  without its review, at the same revision.
* An older answer that arrives later puts the older lists back; an answer
  renders the workspace anew over text being typed; a late answer to a card's
  button switches the open workspace to that card.
* The suppress dialog keeps the text of the moment it was opened, while the
  revision sent comes from newer lists.
* The initialisation promise stays rejected once it is. And the error handling
  of a conflict reads the state again outside any `try`: if that read fails,
  the process ends with every request under way.

## 6. Not modelled, and the plan

Left out, for good:

* The Master harness (`master-harness.mjs`, `replay-fixtures.mjs`, 675 lines
  and more): a script that drives one run after the other through fixed
  fixtures and compares the reports with constants. One caller, one step at a
  time, over the stages, lineage and compare-and-set modelled elsewhere: there
  is no order of steps to explore, and a test says as much.
* The Core prototype (`packages/core/src/index.mjs`): pure functions the
  application state has replaced; only its own tests call them.
* Registries, prompts, the niche profile, disabled adapters, source readiness:
  constants and their validation. Scripts.
* Data: the text patterns of the Guardian, similarity measures and scores, the
  hash function and the detection of tampered objects.
* HTTP parsing, static files and rendering as such.

What is worth adding next:

1. Additions and the demo reset in `Browser`, and its liveness: whether a page
   that keeps reloading catches up.
