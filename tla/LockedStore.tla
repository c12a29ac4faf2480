------------------------------ MODULE LockedStore ------------------------------
(***************************************************************************)
(* The state file and the lock file beside it                              *)
(* (apps/web/locked-application-store.mjs over application-state.mjs).     *)
(*                                                                         *)
(* A writer is one call of execute, in any process of the host: it takes   *)
(* the lock, reads the state file, applies its command, renames the new    *)
(* state into place, once or twice, and releases the lock.  A step is one  *)
(* file-system call, so writers interleave between any two, and any of     *)
(* them may fail.  The lock file is removed by path, whoever created the   *)
(* file that is there by then.                                             *)
(*                                                                         *)
(* Time enters twice.  A lock grows old (lockStaleMs, 30 s) only when its  *)
(* creator is no longer at work on it or may be suspended for that long.   *)
(* A waiting writer's deadline (lockTimeoutMs, 3 s) may pass at any time.  *)
(***************************************************************************)
EXTENDS Naturals, Sequences

CONSTANTS
    Writer,    \* calls of execute
    Twice,     \* those whose command is written twice: verifications, additions
    Nobody,    \* stands for an absent file or an empty one
    MayCrash,  \* writers whose process may be killed
    MayFail,   \* writers whose file-system calls may fail
    MaySlow    \* writers that may be suspended while they hold the lock

ASSUME WriterAssumption ==
    /\ Nobody \notin Writer
    /\ Twice \subseteq Writer /\ MayCrash \subseteq Writer
    /\ MayFail \subseteq Writer /\ MaySlow \subseteq Writer

VARIABLES
    lock,      \* the lock file: who created it, the token in it, is it stale
    db,        \* the state file: the writes it has been through
    pc,
    snapshot,  \* the state as the writer read it
    seen,      \* firstBody of clearStaleLockIfNeeded
    expired,   \* has the writer waited for lockTimeoutMs
    result     \* what the call comes to, returned after the release

vars == <<lock, db, pc, snapshot, seen, expired, result>>
local == <<snapshot, seen, expired, result>>

NoLock == [owner |-> Nobody, body |-> Nobody, old |-> FALSE]
Locked == lock.owner # Nobody

Acquiring == {"open", "stat1", "read1", "stat2", "read2", "clear", "retry"}
Critical == {"read", "persist", "reread", "rewrite"}
Releasing == {"check", "unlink"}
Ended == {"done", "busy", "crashed"}

(* The first or the second write of a command.                             *)
Entries == [by : Writer, nr : {1, 2}]
Entry(w, n) == [by |-> w, nr |-> n]
Last(w) == Entry(w, IF w \in Twice THEN 2 ELSE 1)
Writes(s) == {s[i] : i \in 1..Len(s)}

Init ==
    /\ lock = NoLock
    /\ db = << >>
    /\ pc = [w \in Writer |-> "open"]
    /\ snapshot = [w \in Writer |-> << >>]
    /\ seen = [w \in Writer |-> Nobody]
    /\ expired = [w \in Writer |-> FALSE]
    /\ result = [w \in Writer |-> "none"]

Go(w, to) == pc' = [pc EXCEPT ![w] = to]

-----------------------------------------------------------------------------
(* acquireWriteLock *)

(* open(lockPath, 'wx'): creates the file or fails with EEXIST.            *)
Open(w) ==
    /\ pc[w] = "open"
    /\ IF Locked
       THEN Go(w, "stat1") /\ UNCHANGED lock
       ELSE Go(w, "write") /\ lock' = [owner |-> w, body |-> Nobody, old |-> FALSE]
    /\ UNCHANGED <<db, local>>

(* The token goes to the open handle, so to the file this writer created   *)
(* even when the path names another by now; writing renews the file's age. *)
(* If sync or close fails after that, the call ends and the token stays.   *)
WriteToken(w) ==
    /\ pc[w] = "write"
    /\ lock' = IF lock.owner = w THEN [lock EXCEPT !.body = w, !.old = FALSE] ELSE lock
    /\ \/ Go(w, "read") /\ UNCHANGED result
       \/ w \in MayFail /\ Go(w, "done") /\ result' = [result EXCEPT ![w] = "error"]
    /\ UNCHANGED <<db, snapshot, seen, expired>>

(* Bug: no deadline.                                                       *)
RetryForever(w) ==
    /\ pc[w] = "retry"
    /\ Go(w, "open")
    /\ UNCHANGED <<lock, db, local>>

(* Bug: out of patience, the writer puts its token in the lock and goes on. *)
RetryOrTakeOver(w) ==
    /\ pc[w] = "retry"
    /\ Go(w, IF expired[w] THEN "read" ELSE "open")
    /\ lock' = IF expired[w] /\ Locked THEN [lock EXCEPT !.body = w] ELSE lock
    /\ UNCHANGED <<db, local>>

(* After clearStaleLockIfNeeded, whatever it came to.                      *)
Retry(w) ==
    /\ pc[w] = "retry"
    /\ Go(w, IF expired[w] THEN "busy" ELSE "open")
    /\ UNCHANGED <<lock, db, local>>

-----------------------------------------------------------------------------
(* clearStaleLockIfNeeded: stat and read twice, then rm.                   *)

(* Bug: the age is not looked at.                                          *)
StatExists(w, from, to) ==
    /\ pc[w] = from
    /\ Go(w, IF Locked THEN to ELSE "retry")
    /\ UNCHANGED <<lock, db, local>>

Stat(w, from, to) ==
    /\ pc[w] = from
    /\ Go(w, IF Locked /\ lock.old THEN to ELSE "retry")
    /\ UNCHANGED <<lock, db, local>>

ReadFirst(w) ==
    /\ pc[w] = "read1"
    /\ IF Locked
       THEN Go(w, "stat2") /\ seen' = [seen EXCEPT ![w] = lock.body]
       ELSE Go(w, "retry") /\ UNCHANGED seen
    /\ UNCHANGED <<lock, db, snapshot, expired, result>>

ReadAgain(w) ==
    /\ pc[w] = "read2"
    /\ Go(w, IF Locked /\ lock.body = seen[w] THEN "clear" ELSE "retry")
    /\ UNCHANGED <<lock, db, local>>

Clear(w) ==
    /\ pc[w] = "clear"
    /\ lock' = NoLock
    /\ Go(w, "retry")
    /\ UNCHANGED <<db, local>>

ClearStaleLock(w) ==
    \/ Stat(w, "stat1", "read1")
    \/ ReadFirst(w)
    \/ Stat(w, "stat2", "read2")
    \/ ReadAgain(w)
    \/ Clear(w)

-----------------------------------------------------------------------------
(* The operation under the lock, and releaseWriteLock.                     *)

(* readState and applyCommandToState; the command may be refused.          *)
ReadState(w) ==
    /\ pc[w] = "read"
    /\ \/ /\ snapshot' = [snapshot EXCEPT ![w] = db]
          /\ Go(w, "persist")
          /\ UNCHANGED result
       \/ /\ result' = [result EXCEPT ![w] = "refused"]
          /\ Go(w, "check")
          /\ UNCHANGED snapshot
    /\ UNCHANGED <<lock, db, seen, expired>>

(* Bug: the state is replaced before everything that can be refused has    *)
(* been looked at.                                                         *)
PersistEagerly(w) ==
    /\ pc[w] = "persist"
    /\ db' = Append(snapshot[w], Entry(w, 1))
    /\ \E outcome \in {"ok", "refused"} : result' = [result EXCEPT ![w] = outcome]
    /\ Go(w, "check")
    /\ UNCHANGED <<lock, snapshot, seen, expired>>

(* persist: the whole new state is renamed over the old one.  The owner's  *)
(* answer to a duplicate needs no more; otherwise the state is read again. *)
Persist(w) ==
    /\ pc[w] = "persist"
    /\ db' = Append(snapshot[w], Entry(w, 1))
    /\ \/ Go(w, "reread") /\ UNCHANGED result
       \/ w \notin Twice /\ Go(w, "check") /\ result' = [result EXCEPT ![w] = "ok"]
    /\ UNCHANGED <<lock, snapshot, seen, expired>>

(* The state for the answer, and for the second write where there is one.  *)
ReadAgainForAnswer(w) ==
    /\ pc[w] = "reread"
    /\ IF w \in Twice
       THEN Go(w, "rewrite") /\ snapshot' = [snapshot EXCEPT ![w] = db] /\ UNCHANGED result
       ELSE Go(w, "check") /\ result' = [result EXCEPT ![w] = "ok"] /\ UNCHANGED snapshot
    /\ UNCHANGED <<lock, db, seen, expired>>

PersistAgain(w) ==
    /\ pc[w] = "rewrite"
    /\ db' = Append(snapshot[w], Entry(w, 2))
    /\ result' = [result EXCEPT ![w] = "ok"]
    /\ Go(w, "check")
    /\ UNCHANGED <<lock, snapshot, seen, expired>>

CheckToken(w) ==
    /\ pc[w] = "check"
    /\ Go(w, IF Locked /\ lock.body = w THEN "unlink" ELSE "done")
    /\ UNCHANGED <<lock, db, local>>

Unlink(w) ==
    /\ pc[w] = "unlink"
    /\ lock' = NoLock
    /\ Go(w, "done")
    /\ UNCHANGED <<db, local>>

-----------------------------------------------------------------------------
(* The environment.                                                        *)

Crash(w) ==
    /\ w \in MayCrash /\ pc[w] \notin Ended
    /\ Go(w, "crashed")
    /\ UNCHANGED <<lock, db, local>>

DeadlinePasses(w) ==
    /\ pc[w] \in Acquiring /\ ~expired[w]
    /\ expired' = [expired EXCEPT ![w] = TRUE]
    /\ UNCHANGED <<lock, db, pc, snapshot, seen, result>>

(* Any other call on a file throws: from the operation into the release,   *)
(* which is a finally block, and from everywhere else to the caller.  What *)
(* is on file stays as it is, and so does a lock that is not released.     *)
(* Taking and releasing the lock, only a missing file (or for open an      *)
(* existing one) is not thrown, and that is in the steps above.            *)
FileCallFails(w) ==
    /\ w \in MayFail /\ pc[w] \notin Ended \cup {"retry"}
    /\ result' = [result EXCEPT ![w] = "error"]
    /\ Go(w, IF pc[w] \in Critical THEN "check" ELSE "done")
    /\ UNCHANGED <<lock, db, snapshot, seen, expired>>

LockGrowsOld ==
    /\ Locked /\ ~lock.old
    /\ pc[lock.owner] \in Ended \/ lock.owner \in MaySlow
    /\ lock' = [lock EXCEPT !.old = TRUE]
    /\ UNCHANGED <<db, pc, local>>

-----------------------------------------------------------------------------
Step(w) ==
    \/ Open(w) \/ WriteToken(w) \/ Retry(w)
    \/ ClearStaleLock(w)
    \/ ReadState(w) \/ Persist(w) \/ ReadAgainForAnswer(w) \/ PersistAgain(w)
    \/ CheckToken(w) \/ Unlink(w)

Next ==
    \/ \E w \in Writer : Step(w) \/ Crash(w) \/ FileCallFails(w) \/ DeadlinePasses(w)
    \/ LockGrowsOld

Spec == Init /\ [][Next]_vars

(* A process that is not killed goes on, and clocks advance; that a lock   *)
(* ever grows old is not assumed.                                          *)
FairSpec ==
    /\ Spec
    /\ \A w \in Writer : WF_vars(Step(w)) /\ WF_vars(DeadlinePasses(w))

-----------------------------------------------------------------------------
(* Types; and a lock file never carries another writer's token than that   *)
(* of the writer who created it, however late the token is written.        *)
TypeOK ==
    /\ lock \in [owner : Writer \cup {Nobody}, body : Writer \cup {Nobody}, old : BOOLEAN]
    /\ lock.body \in {lock.owner, Nobody}
    /\ ~Locked => lock = NoLock
    /\ db \in Seq(Entries)
    /\ pc \in [Writer -> Acquiring \cup Critical \cup Releasing \cup Ended \cup {"write"}]
    /\ snapshot \in [Writer -> Seq(Entries)]
    /\ seen \in [Writer -> Writer \cup {Nobody}]
    /\ expired \in [Writer -> BOOLEAN]
    /\ result \in [Writer -> {"none", "ok", "refused", "error"}]

(* One writer at a time between reading the state and replacing it.        *)
MutualExclusion ==
    \A v, w \in Writer : pc[v] \in Critical /\ pc[w] \in Critical => v = w

(* A writer that is told the store is busy, or that its command is         *)
(* refused, has left no trace in the state: waiting too long ends in an    *)
(* error and never in an unsafe write.  A failed file-system call is a     *)
(* third kind of answer, "error", which does not tell what is on file.     *)
FailsClosed ==
    \A w \in Writer : pc[w] = "busy" \/ result[w] = "refused" => Entry(w, 1) \notin Writes(db)

(* A call that has returned leaves no lock file of its own behind, except  *)
(* one that was answered "error": creating or removing it may have failed. *)
NoLockIsLeft ==
    \A w \in Writer : lock.owner = w /\ pc[w] \in {"done", "busy"} => result[w] = "error"

(* A call that has ended leaves nothing behind that its answer denies: no  *)
(* change when it is busy or refused, no lock unless a file-system call    *)
(* of its own failed.                                                      *)
NothingIsLeftBehind == FailsClosed /\ NoLockIsLeft

(* What a writer has been told.                                            *)
Told(w) ==
    CASE pc[w] = "busy" -> "refused"
      [] pc[w] = "done" -> result[w]
      [] OTHER -> "none"

(* The locked file implements the serial store.                            *)
Serial == INSTANCE SerialStore WITH reply <- [w \in Writer |-> Told(w)]

ImplementsSerialStore == Serial!Spec

(* Every call of execute returns, unless its process is killed: whatever   *)
(* becomes of the lock, the wait for it is bounded.                        *)
EveryCallEnds == \A w \in Writer : <>(pc[w] \in Ended)

(* A stale lock does not survive the visit of a writer that lives on and   *)
(* whose file-system calls succeed: one attempt is enough to clear it,     *)
(* whether its owner was killed or could not remove it.                    *)
StaleLockIsCleared ==
    \A w \in Writer \ (MayCrash \cup MayFail) :
        (pc[w] = "open" /\ lock.old) ~> ~lock.old

(* Nobody is kept waiting for long: neither by a lock, nor for good by one *)
(* that nobody holds any more.                                             *)
Progress == EveryCallEnds /\ StaleLockIsCleared

(* "A fresh lock is never bypassed to make progress": what the recovery    *)
(* removes is stale.                                                       *)
FreshLockIsNeverBypassed ==
    [][\A w \in Writer : pc[w] = "clear" /\ pc'[w] = "retry" /\ Locked => lock.old]_vars
=============================================================================
