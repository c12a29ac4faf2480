---------------------------- MODULE EvidenceStore ----------------------------
(***************************************************************************)
(* The evidence store of packages/orchestra: objects stored under the hash *)
(* of their content and, per run, a file with one event per line in which  *)
(* every event names the one before it.  One server process uses the       *)
(* store, which is the boundary docs/STORAGE_OPTIONS.md draws.  Calls of    *)
(* the process interleave at every await; the appends of a run wait for    *)
(* one another in a chain of promises.  Any file-system call may fail, a   *)
(* failed append may leave part of its line, and the process may be killed *)
(* and started again.                                                      *)
(*                                                                         *)
(* Each call has a payload and a time of its own, so its event is named by *)
(* the call, and an event hash is modelled by the call it is the hash of.  *)
(***************************************************************************)
EXTENDS Naturals, Sequences

CONSTANTS
    Call, Run, Object,
    RunOf,        \* the run a call appends to
    ObjectOf,     \* the object a saveArtifact or saveSource stores, or NoObject
    NoObject, NoEvent,
    MaxFaults,    \* bound: failures of file-system calls
    MaxKills      \* bound: kills of the process

ASSUME EvidenceAssumption ==
    /\ RunOf \in [Call -> Run]
    /\ ObjectOf \in [Call -> Object \cup {NoObject}]
    /\ NoObject \notin Object /\ NoEvent \notin Call
    /\ MaxFaults \in Nat /\ MaxKills \in Nat

VARIABLES
    log,       \* log[r]: the lines of events.jsonl
    objects,   \* the objects under their final name
    pc,        \* where each call is
    queue,     \* queue[r]: the appends whose promises are pending, in order
    seen,      \* seen[c]: what readRunEvents told the append of c
    down,      \* "no", "killed", or the run whose rejection ended the process
    faults, kills

vars == <<log, objects, pc, queue, seen, down, faults, kills>>

Stage == {"idle", "check", "write", "rename", "queued", "append", "ok", "failed", "dead"}
\* How a line ends: its newline, all of it but the newline, or in the middle.
LineEnd == {"line", "open", "cut"}
Event == [call : Call, sequence : Nat, previousEventHash : Call \cup {NoEvent}, end : LineEnd]
Position == [count : Nat, hash : Call \cup {NoEvent}]
Nothing == [count |-> 0, hash |-> NoEvent]

Init ==
    /\ log = [r \in Run |-> <<>>] /\ objects = {}
    /\ pc = [c \in Call |-> "idle"] /\ queue = [r \in Run |-> <<>>]
    /\ seen = [c \in Call |-> Nothing]
    /\ down = "no" /\ faults = 0 /\ kills = 0

Up == down = "no"
InProgress(c) == pc[c] \in {"check", "write", "rename", "queued", "append"}
File(c) == log[RunOf[c]]

\* JSON.parse of every line: a line cut in the middle, or two events on one
\* line, cannot be parsed; a last line without its newline can.
Readable(lines) ==
    \A i \in DOMAIN lines :
        lines[i].end = "line" \/ (lines[i].end = "open" /\ i = Len(lines))
\* Bug: the last event itself is taken for its hash.
LastEventForItsHash(lines) ==
    IF lines = <<>> THEN Nothing
    ELSE [count |-> Len(lines), hash |-> lines[Len(lines)]]
LastEvent(lines) ==
    IF lines = <<>> THEN Nothing
    ELSE [count |-> Len(lines), hash |-> lines[Len(lines)].call]

EventOf(c, end) ==
    [call |-> c, sequence |-> seen[c].count + 1,
     previousEventHash |-> seen[c].hash, end |-> end]
\* What an append that does not complete leaves of its line.
Remains(c) == {File(c)} \cup {Append(File(c), EventOf(c, e)) : e \in {"cut", "open"}}

-----------------------------------------------------------------------------
\* The two ways into the store.

AppendRunEvent(c) ==
    /\ Up /\ pc[c] = "idle" /\ ObjectOf[c] = NoObject
    /\ pc' = [pc EXCEPT ![c] = "queued"]
    /\ queue' = [queue EXCEPT ![RunOf[c]] = Append(@, c)]
    /\ UNCHANGED <<log, objects, seen, down, faults, kills>>

\* verifyVersionedArtifact may refuse what saveArtifact is given.
Save(c) ==
    /\ Up /\ pc[c] = "idle" /\ ObjectOf[c] # NoObject
    /\ \E next \in {"check", "failed"} : pc' = [pc EXCEPT ![c] = next]
    /\ UNCHANGED <<log, objects, queue, seen, down, faults, kills>>

\* putObject has returned: saveArtifact appends its event.
Stored(c) ==
    /\ pc' = [pc EXCEPT ![c] = "queued"]
    /\ queue' = [queue EXCEPT ![RunOf[c]] = Append(@, c)]

Exists(c) ==
    /\ Up /\ pc[c] = "check"
    /\ IF ObjectOf[c] \in objects
       THEN Stored(c)
       ELSE pc' = [pc EXCEPT ![c] = "write"] /\ UNCHANGED queue
    /\ UNCHANGED <<log, objects, seen, down, faults, kills>>

\* The temporary name is made of the target, the process and the millisecond:
\* another call that is storing the same object may have taken it.
SameTemporary(c) ==
    \E d \in Call \ {c} : ObjectOf[d] = ObjectOf[c] /\ pc[d] = "rename"

WriteTemporary(c) ==
    /\ Up /\ pc[c] = "write"
    /\ \/ pc' = [pc EXCEPT ![c] = "rename"]
       \/ SameTemporary(c) /\ pc' = [pc EXCEPT ![c] = "failed"]
    /\ UNCHANGED <<log, objects, queue, seen, down, faults, kills>>

Rename(c) ==
    /\ Up /\ pc[c] = "rename"
    /\ objects' = objects \cup {ObjectOf[c]}
    /\ Stored(c)
    /\ UNCHANGED <<log, seen, down, faults, kills>>

\* A rename that fails is no error when the object is there all the same.
RenameFails(c) ==
    /\ Up /\ pc[c] = "rename" /\ faults < MaxFaults
    /\ IF ObjectOf[c] \in objects
       THEN Stored(c)
       ELSE pc' = [pc EXCEPT ![c] = "failed"] /\ UNCHANGED queue
    /\ faults' = faults + 1
    /\ UNCHANGED <<log, objects, seen, down, kills>>

\* mkdir or the write of the temporary file fails.
PutFails(c) ==
    /\ Up /\ pc[c] \in {"check", "write"} /\ faults < MaxFaults
    /\ pc' = [pc EXCEPT ![c] = "failed"]
    /\ faults' = faults + 1
    /\ UNCHANGED <<log, objects, queue, seen, down, kills>>
-----------------------------------------------------------------------------
\* The queue of a run: next = previous.catch(() => undefined).then(task).

\* Bug: an append does not wait for the one before it.
HasTurnAtOnce(c) == \E i \in DOMAIN queue[RunOf[c]] : queue[RunOf[c]][i] = c
HasTurn(c) == queue[RunOf[c]] # <<>> /\ Head(queue[RunOf[c]]) = c

Settled(c) == [queue EXCEPT ![RunOf[c]] = Tail(@)]
AllDead(p) == [d \in Call |-> IF p[d] \in {"ok", "failed", "idle"} THEN p[d] ELSE "dead"]

\* Bug: next = previous.then(task), which passes a rejection on.
RejectedWithSuccessors(c) ==
    LET r == RunOf[c]
        waiting == {queue[r][i] : i \in DOMAIN queue[r]} IN
    /\ pc' = [d \in Call |-> IF d \in waiting THEN "failed" ELSE pc[d]]
    /\ queue' = [queue EXCEPT ![r] = <<>>]
    /\ UNCHANGED down

\* Bug: a failed append is never taken out of the queue.
RejectedInItsPlace(c) ==
    pc' = [pc EXCEPT ![c] = "failed"] /\ UNCHANGED <<queue, down>>

\* Node ends the process for a rejected promise that nobody handles.  The
\* promise that finally() returns rejects along with the append, and only the
\* append queued next handles it: one queued already, or one the caller makes
\* before the microtasks are drained, as the catch block of the executor does.
Rejected(c) ==
    LET r == RunOf[c] failed == [pc EXCEPT ![c] = "failed"] IN
    IF Len(queue[r]) > 1
    THEN pc' = failed /\ queue' = Settled(c) /\ UNCHANGED down
    ELSE \/ \E d \in Call :
               /\ RunOf[d] = r /\ pc[d] = "idle" /\ ObjectOf[d] = NoObject
               /\ pc' = [failed EXCEPT ![d] = "queued"]
               /\ queue' = [queue EXCEPT ![r] = <<d>>]
               /\ UNCHANGED down
         \/ /\ pc' = AllDead(failed)
            /\ queue' = [q \in Run |-> <<>>]
            /\ down' = r

ReadRunEvents(c) ==
    /\ Up /\ pc[c] = "queued" /\ HasTurn(c) /\ Readable(File(c))
    /\ seen' = [seen EXCEPT ![c] = LastEvent(File(c))]
    /\ pc' = [pc EXCEPT ![c] = "append"]
    /\ UNCHANGED <<log, objects, queue, down, faults, kills>>

RefuseToRead(c) ==
    /\ Up /\ pc[c] = "queued" /\ HasTurn(c) /\ ~Readable(File(c))
    /\ Rejected(c)
    /\ UNCHANGED <<log, objects, seen, faults, kills>>

\* Bug: the file is written anew, with the flag "w".
WriteFile(c) ==
    /\ Up /\ pc[c] = "append"
    /\ log' = [log EXCEPT ![RunOf[c]] = <<EventOf(c, "line")>>]
    /\ pc' = [pc EXCEPT ![c] = "ok"]
    /\ queue' = Settled(c)
    /\ UNCHANGED <<objects, seen, down, faults, kills>>

AppendFile(c) ==
    /\ Up /\ pc[c] = "append"
    /\ log' = [log EXCEPT ![RunOf[c]] = Append(@, EventOf(c, "line"))]
    /\ pc' = [pc EXCEPT ![c] = "ok"]
    /\ queue' = Settled(c)
    /\ UNCHANGED <<objects, seen, down, faults, kills>>

\* The read, or the append, fails; an append may have written some of its line.
AppendFails(c) ==
    /\ Up /\ pc[c] \in {"queued", "append"} /\ HasTurn(c) /\ faults < MaxFaults
    /\ \E lines \in (IF pc[c] = "append" THEN Remains(c) ELSE {File(c)}) :
          log' = [log EXCEPT ![RunOf[c]] = lines]
    /\ Rejected(c)
    /\ faults' = faults + 1
    /\ UNCHANGED <<objects, seen, kills>>
-----------------------------------------------------------------------------
\* What a kill leaves of the file of a run: an append under way may have
\* written nothing, some or all of its line.
AfterKill(r) ==
    {log[r]} \cup UNION {Remains(c) \cup {Append(log[r], EventOf(c, "line"))} :
                           c \in {d \in Call : RunOf[d] = r /\ pc[d] = "append"}}

Kill ==
    /\ Up /\ kills < MaxKills
    /\ \E lines \in [Run -> UNION {AfterKill(r) : r \in Run}] :
          /\ \A r \in Run : lines[r] \in AfterKill(r)
          /\ log' = lines
    /\ pc' = AllDead(pc)
    /\ queue' = [r \in Run |-> <<>>]
    /\ down' = "killed" /\ kills' = kills + 1
    /\ UNCHANGED <<objects, seen, faults>>

Restart ==
    /\ ~Up
    /\ down' = "no"
    /\ UNCHANGED <<log, objects, pc, queue, seen, faults, kills>>

Step(c) ==
    \/ Exists(c) \/ WriteTemporary(c) \/ Rename(c)
    \/ ReadRunEvents(c) \/ RefuseToRead(c) \/ AppendFile(c)

Next ==
    \/ \E c \in Call :
          \/ AppendRunEvent(c) \/ Save(c) \/ Step(c)
          \/ RenameFails(c) \/ PutFails(c) \/ AppendFails(c)
    \/ Kill \/ Restart

Spec == Init /\ [][Next]_vars

\* Node runs every continuation whose promise is settled.
FairSpec == Spec /\ \A c \in Call : WF_vars(Step(c))
-----------------------------------------------------------------------------
TypeOK ==
    /\ log \in [Run -> Seq(Event)] /\ objects \subseteq Object
    /\ pc \in [Call -> Stage] /\ queue \in [Run -> Seq(Call)]
    /\ seen \in [Call -> Position] /\ down \in {"no", "killed"} \cup Run
    /\ faults \in 0 .. MaxFaults /\ kills \in 0 .. MaxKills

\* validateRunChain, as far as it depends on who wrote when.
ValidChain(lines) ==
    \A i \in DOMAIN lines :
        /\ lines[i].sequence = i
        /\ lines[i].previousEventHash = IF i = 1 THEN NoEvent ELSE lines[i - 1].call

\* The chain of a run never forks nor skips: whatever fails, is cut off or is
\* killed, the events in its file are numbered without a gap and each names
\* the one before it (appendRunEvent reads, numbers and writes in one turn of
\* the queue).
ChainUnbroken == \A r \in Run : ValidChain(log[r])

\* An event that says an object was saved is never on file before the object
\* is (putObject is awaited, and an error of its rename is ignored only when
\* the object is there).
ReferencesResolve ==
    \A r \in Run : \A i \in DOMAIN log[r] :
        ObjectOf[log[r][i].call] \in objects \cup {NoObject}

\* The file of a run can be trusted as far as it can be read.
LogIsSound == ChainUnbroken /\ ReferencesResolve

\* An append fails only in its turn and for a reason of its own: its file
\* cannot be read, or a file-system call of its own fails.  The failure of the
\* append before it is caught by the queue.
FailuresDoNotSpread ==
    [][\A c \in Call : pc[c] \in {"queued", "append"} /\ pc'[c] = "failed" =>
          HasTurn(c) /\ (faults' > faults \/ ~Readable(File(c)))]_vars

\* Every call comes back, with its event or with an error, or dies with its
\* process: no failure and no kill leaves an append waiting for ever.
EveryCallEnds == \A c \in Call : InProgress(c) ~> ~InProgress(c)

\* The events that can be taken from a file: a line that was cut in the middle
\* is no event.
EventsIn(lines) ==
    LET Upto[i \in 0 .. Len(lines)] ==
            IF i = 0 THEN <<>>
            ELSE IF lines[i].end = "cut" THEN Upto[i - 1]
            ELSE Append(Upto[i - 1], lines[i].call)
    IN Upto[Len(lines)]

\* The store keeps the promise of EventLog.
Promised == INSTANCE EventLog WITH
    chain <- [r \in Run |-> EventsIn(log[r])],
    answer <- [c \in Call |-> IF pc[c] \in {"ok", "failed", "dead"} THEN pc[c] ELSE "none"]
ImplementsEventLog == Promised!Spec
=============================================================================
