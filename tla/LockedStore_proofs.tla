--------------------------- MODULE LockedStore_proofs ---------------------------
(***************************************************************************)
(* What holds of the locked state file for any number of writers.          *)
(*                                                                         *)
(* Whatever crashes and fails and however old locks grow, a writer that is *)
(* turned away has not touched the state, and one that is given an answer  *)
(* about its command has removed its lock.  As long as no two writers      *)
(* recover a lock at a time, which two that see the same stale lock may    *)
(* do, the file is a serial store.                                         *)
(***************************************************************************)
EXTENDS LockedStore, TLAPS

(* There is no write of this writer in the file, or in a copy of it.       *)
Free(s, w) == \A i \in 1..Len(s) : s[i].by # w

(* Writers that cannot have written yet, and never will if refused.        *)
Untouched(w) ==
    result[w] = "refused" \/ pc[w] \in Acquiring \cup {"write", "read", "persist", "busy"}

(* Types, and no write of such a writer is in the state file or in what a  *)
(* writer has read of it; a call has no result until its operation ends.   *)
Traceless ==
    /\ pc \in [Writer -> Acquiring \cup Critical \cup Releasing \cup Ended \cup {"write"}]
    /\ snapshot \in [Writer -> Seq(Entries)]
    /\ result \in [Writer -> {"none", "ok", "refused", "error"}]
    /\ db \in Seq(Entries)
    /\ \A w \in Writer : Untouched(w) => Free(db, w) /\ \A v \in Writer : Free(snapshot[v], w)
    /\ \A w \in Writer : pc[w] \in Acquiring \cup Critical \cup {"write", "busy"} =>
                             result[w] = "none"
    /\ \A w \in Writer : pc[w] \in Releasing \cup {"done"} => result[w] # "none"

(* Types of the rest.                                                      *)
Typed ==
    /\ lock \in [owner : Writer \cup {Nobody}, body : Writer \cup {Nobody}, old : BOOLEAN]
    /\ lock.body \in {lock.owner, Nobody}
    /\ ~Locked => lock = NoLock
    /\ seen \in [Writer -> Writer \cup {Nobody}]
    /\ expired \in [Writer -> BOOLEAN]

-----------------------------------------------------------------------------
(* What a write adds to the file.                                          *)
LEMMA Appended ==
    ASSUME NEW s \in Seq(Entries), NEW w \in Writer, NEW n \in {1, 2}
    PROVE  LET t == Append(s, Entry(w, n)) IN
           /\ t \in Seq(Entries)
           /\ t # << >> /\ t[Len(t)] = Entry(w, n)
           /\ Writes(t) = Writes(s) \cup {Entry(w, n)}
           /\ \A v : Free(t, v) <=> Free(s, v) /\ v # w
<1> DEFINE t == Append(s, Entry(w, n))
<1>1. Entry(w, n) \in Entries /\ Entry(w, n).by = w
  BY DEF Entry, Entries
<1>2. /\ t \in Seq(Entries) /\ Len(t) = Len(s) + 1 /\ Len(s) \in Nat
      /\ t[Len(t)] = Entry(w, n) /\ \A i \in 1..Len(s) : t[i] = s[i]
  BY <1>1
<1>3. 1..Len(t) = 1..Len(s) \cup {Len(t)}
  BY <1>2
<1>4. Writes(t) = Writes(s) \cup {Entry(w, n)}
  <2>1. Writes(t) = {t[i] : i \in 1..Len(s)} \cup {t[Len(t)]}
    BY <1>3, Zenon DEF Writes
  <2>2. {t[i] : i \in 1..Len(s)} = Writes(s)
    BY <1>2, Zenon DEF Writes
  <2>3. t[Len(t)] = Entry(w, n)
    BY <1>2, Zenon
  <2>4. QED
    BY <2>1, <2>2, <2>3, Zenon
<1>5. \A v : Free(t, v) <=> Free(s, v) /\ v # w
  BY <1>1, <1>2, <1>3 DEF Free
<1>6. t # << >>
  BY <1>2
<1>7. QED
  BY <1>2, <1>4, <1>5, <1>6

(* Only a writer past its checks writes, and from then on it is refused no *)
(* more.                                                                   *)
LEMMA TracelessInductive ==
    /\ Init => Traceless
    /\ Traceless /\ [Next]_vars => Traceless'
<1>1. Init => Traceless
  BY DEF Init, Traceless, Untouched, Free, Acquiring, Critical, Releasing
<1>2. ASSUME Traceless, [Next]_vars
      PROVE  Traceless'
  <2> USE DEF Acquiring, Critical, Releasing, Ended, Go, local
  <2>1. ASSUME NEW w \in Writer, Open(w) \/ WriteToken(w) \/ Retry(w)
        PROVE  Traceless'
    <3>1. CASE Open(w)
      BY <1>2, <3>1 DEF Traceless, Untouched, Open
    <3>2. CASE WriteToken(w)
      BY <1>2, <3>2 DEF Traceless, Untouched, WriteToken
    <3>3. CASE Retry(w)
      BY <1>2, <3>3 DEF Traceless, Untouched, Retry
    <3>4. QED
      BY <2>1, <3>1, <3>2, <3>3, Zenon
  <2>2. ASSUME NEW w \in Writer, ClearStaleLock(w)
        PROVE  Traceless'
    BY <1>2, <2>2 DEF Traceless, Untouched, ClearStaleLock, Stat, ReadFirst, ReadAgain, Clear
  <2>3. ASSUME NEW w \in Writer, ReadState(w) \/ ReadAgainForAnswer(w)
        PROVE  Traceless'
    <3>1. /\ UNCHANGED db /\ pc' \in [Writer -> Acquiring \cup Critical \cup Releasing \cup Ended \cup {"write"}]
          /\ snapshot' \in [Writer -> Seq(Entries)]
          /\ result' \in [Writer -> {"none", "ok", "refused", "error"}]
          /\ \A v \in Writer : snapshot'[v] \in {snapshot[v], db}
      BY <1>2, <2>3 DEF Traceless, ReadState, ReadAgainForAnswer
    <3>2. \A v \in Writer : Untouched(v)' => Untouched(v)
      BY <1>2, <2>3 DEF Traceless, Untouched, ReadState, ReadAgainForAnswer
    <3>3. \A v \in Writer : Untouched(v)' => Free(db', v) /\ \A u \in Writer : Free(snapshot'[u], v)
      BY <1>2, <3>1, <3>2 DEF Traceless
    <3>4. /\ \A v \in Writer \ {w} : pc'[v] = pc[v] /\ result'[v] = result[v]
          /\ \/ pc'[w] \in {"persist", "rewrite"} /\ result'[w] = "none"
             \/ pc'[w] = "check" /\ result'[w] # "none"
      BY <1>2, <2>3 DEF Traceless, ReadState, ReadAgainForAnswer
    <3>5. QED
      BY <1>2, <3>1, <3>3, <3>4 DEF Traceless
  <2>4. ASSUME NEW w \in Writer, Persist(w) \/ PersistAgain(w)
        PROVE  Traceless'
    <3>1. PICK n \in {1, 2} : db' = Append(snapshot[w], Entry(w, n))
      BY <2>4 DEF Persist, PersistAgain
    <3>2. snapshot[w] \in Seq(Entries) /\ UNCHANGED snapshot
      BY <1>2, <2>4 DEF Traceless, Persist, PersistAgain
    <3>3. db' \in Seq(Entries) /\ \A v : Free(db', v) <=> Free(snapshot[w], v) /\ v # w
      BY <3>1, <3>2, Appended
    <3>4. ~Untouched(w)' /\ \A v \in Writer \ {w} : Untouched(v)' <=> Untouched(v)
      BY <1>2, <2>4 DEF Traceless, Untouched, Persist, PersistAgain
    <3>5. \A v \in Writer : Untouched(v)' => Free(db', v) /\ \A u \in Writer : Free(snapshot'[u], v)
      BY <1>2, <3>2, <3>3, <3>4 DEF Traceless
    <3>6. QED
      BY <1>2, <2>4, <3>2, <3>3, <3>5 DEF Traceless, Persist, PersistAgain
  <2>5. ASSUME NEW w \in Writer, CheckToken(w) \/ Unlink(w) \/ Crash(w) \/ DeadlinePasses(w)
        PROVE  Traceless'
    <3>1. CASE CheckToken(w)
      BY <1>2, <3>1 DEF Traceless, Untouched, CheckToken
    <3>2. CASE Unlink(w)
      BY <1>2, <3>2 DEF Traceless, Untouched, Unlink
    <3>3. CASE Crash(w) \/ DeadlinePasses(w)
      BY <1>2, <3>3 DEF Traceless, Untouched, Crash, DeadlinePasses
    <3>4. QED
      BY <2>5, <3>1, <3>2, <3>3, Zenon
  <2>6. ASSUME NEW w \in Writer, FileCallFails(w)
        PROVE  Traceless'
    BY <1>2, <2>6 DEF Traceless, Untouched, FileCallFails
  <2>7. CASE LockGrowsOld \/ UNCHANGED vars
    BY <1>2, <2>7 DEF Traceless, Untouched, LockGrowsOld, vars
  <2>8. QED
    BY <1>2, <2>1, <2>2, <2>3, <2>4, <2>5, <2>6, <2>7 DEF Next, Step
<1>3. QED
  BY <1>1, <1>2

(* A writer that times out or is refused has left no trace in the state,   *)
(* under any crashes, failures, suspensions and recoveries of the lock.    *)
THEOREM AlwaysFailsClosed == Spec => []FailsClosed
<1>1. Traceless => FailsClosed
  BY DEF Traceless, Untouched, Free, FailsClosed, Writes, Entry
<1>2. QED
  BY <1>1, TracelessInductive, PTL DEF Spec

(* The types of the lock file and of the other variables hold likewise.    *)
LEMMA TypedInductive ==
    /\ Init => Typed
    /\ Traceless /\ Typed /\ [Next]_vars => Typed'
<1>1. Init => Typed
  BY DEF Init, Typed, NoLock, Locked
<1>2. ASSUME Traceless, Typed, [Next]_vars
      PROVE  Typed'
  <2> DEFINE LockTyped ==
                 /\ lock \in [owner : Writer \cup {Nobody}, body : Writer \cup {Nobody},
                              old : BOOLEAN]
                 /\ lock.body \in {lock.owner, Nobody}
                 /\ ~Locked => lock = NoLock
  <2> USE DEF Go, local
  <2>0. ASSUME lock' = NoLock
        PROVE  LockTyped'
    BY <2>0 DEF NoLock, Locked
  <2>1. ASSUME NEW w \in Writer, Open(w) \/ Retry(w)
        PROVE  Typed'
    <3>1. CASE Locked \/ Retry(w)
      BY <1>2, <2>1, <3>1 DEF Typed, Open, Retry, Locked
    <3>2. CASE ~Locked /\ Open(w)
      <4>1. lock' = [owner |-> w, body |-> Nobody, old |-> FALSE]
        BY <3>2 DEF Open
      <4>2. LockTyped'
        BY <4>1, WriterAssumption DEF Locked
      <4>3. QED
        BY <1>2, <3>2, <4>2 DEF Typed, Open
    <3>3. QED
      BY <2>1, <3>1, <3>2
  <2>2. ASSUME NEW w \in Writer, WriteToken(w)
        PROVE  Typed'
    BY <1>2, <2>2, WriterAssumption DEF Typed, WriteToken, Locked, NoLock
  <2>3. ASSUME NEW w \in Writer, ClearStaleLock(w)
        PROVE  Typed'
    <3>1. CASE Clear(w)
      BY <1>2, <2>0, <3>1 DEF Typed, Clear
    <3>2. CASE ReadFirst(w)
      BY <1>2, <3>2 DEF Typed, ReadFirst, Locked
    <3>3. CASE ~Clear(w) /\ ~ReadFirst(w)
      BY <1>2, <2>3, <3>3 DEF Typed, ClearStaleLock, Stat, ReadAgain, Locked
    <3>4. QED
      BY <3>1, <3>2, <3>3
  <2>4. ASSUME NEW w \in Writer,
               ReadState(w) \/ Persist(w) \/ ReadAgainForAnswer(w) \/ PersistAgain(w)
        PROVE  Typed'
    BY <1>2, <2>4 DEF Typed, ReadState, Persist, ReadAgainForAnswer, PersistAgain, Locked
  <2>5. ASSUME NEW w \in Writer,
               CheckToken(w) \/ Unlink(w) \/ Crash(w) \/ FileCallFails(w) \/ DeadlinePasses(w)
        PROVE  Typed'
    <3>1. CASE Unlink(w)
      BY <1>2, <2>0, <3>1 DEF Typed, Unlink
    <3>2. CASE ~Unlink(w)
      BY <1>2, <2>5, <3>2 DEF Typed, CheckToken, Crash, FileCallFails, DeadlinePasses, Locked
    <3>3. QED
      BY <3>1, <3>2
  <2>6. CASE LockGrowsOld \/ UNCHANGED vars
    BY <1>2, <2>6 DEF Typed, LockGrowsOld, vars, Locked, NoLock
  <2>7. QED
    BY <1>2, <2>1, <2>2, <2>3, <2>4, <2>5, <2>6 DEF Next, Step
<1>3. QED
  BY <1>1, <1>2

(* Every variable keeps its type and a lock file never carries a token     *)
(* other than its creator's, in every environment.                         *)
THEOREM TypeCorrect == Spec => []TypeOK
<1>1. Traceless /\ Typed => TypeOK
  BY DEF Traceless, Typed, TypeOK
<1>2. QED
  BY <1>1, TracelessInductive, TypedInductive, PTL DEF Spec

-----------------------------------------------------------------------------
(* A writer that waits has no lock file of its own, the file of one that   *)
(* is about to release it carries its token, and one that has returned and *)
(* left its file has failed.                                               *)
Tokenless ==
    \A w \in Writer : lock.owner = w =>
        /\ pc[w] \notin Acquiring \cup {"busy"}
        /\ pc[w] \in Critical \cup Releasing => lock.body = w
        /\ pc[w] = "done" => result[w] = "error"

(* Only the creator of a lock file writes to it, and without a failure it  *)
(* does not return while the file is there.                                *)
LEMMA TokenlessInductive ==
    /\ Init => Tokenless
    /\ Traceless /\ Typed /\ Tokenless /\ [Next]_vars => Tokenless'
<1>1. Init => Tokenless
  BY WriterAssumption DEF Init, Tokenless, NoLock
<1>2. ASSUME Traceless, Typed, Tokenless, [Next]_vars
      PROVE  Tokenless'
  <2> USE WriterAssumption DEF Tokenless, Go, local, Acquiring, Critical, Releasing
  <2>0. /\ pc \in [Writer -> Acquiring \cup Critical \cup Releasing \cup Ended \cup {"write"}]
        /\ result \in [Writer -> {"none", "ok", "refused", "error"}]
    BY <1>2 DEF Traceless
  <2>1. ASSUME lock' = NoLock
        PROVE  Tokenless'
    BY <2>1 DEF NoLock
  <2>2. ASSUME NEW w \in Writer, Open(w)
        PROVE  Tokenless'
    <3>1. CASE Locked
      BY <1>2, <2>0, <2>2, <3>1 DEF Open
    <3>2. CASE ~Locked
      <4>1. lock'.owner = w /\ pc' = [pc EXCEPT ![w] = "write"]
        BY <2>2, <3>2 DEF Open
      <4>2. QED
        BY <2>0, <4>1
    <3>3. QED
      BY <3>1, <3>2
  <2>3. ASSUME NEW w \in Writer, WriteToken(w)
        PROVE  Tokenless'
    <3>1. /\ lock'.owner = lock.owner
          /\ lock'.body = IF lock.owner = w THEN w ELSE lock.body
      BY <1>2, <2>3 DEF WriteToken, Typed
    <3>2. CASE pc' = [pc EXCEPT ![w] = "read"] /\ UNCHANGED result
      BY <1>2, <2>0, <3>1, <3>2
    <3>3. CASE pc' = [pc EXCEPT ![w] = "done"] /\ result' = [result EXCEPT ![w] = "error"]
      BY <1>2, <2>0, <3>1, <3>3
    <3>4. QED
      BY <2>3, <3>2, <3>3 DEF WriteToken
  <2>4. ASSUME NEW w \in Writer, Retry(w)
        PROVE  Tokenless'
    BY <1>2, <2>0, <2>4 DEF Retry
  <2>5. ASSUME NEW w \in Writer, ClearStaleLock(w)
        PROVE  Tokenless'
    <3>1. CASE Clear(w)
      BY <2>1, <3>1 DEF Clear
    <3>2. CASE ~Clear(w)
      BY <1>2, <2>0, <2>5, <3>2 DEF ClearStaleLock, Stat, ReadFirst, ReadAgain
    <3>3. QED
      BY <3>1, <3>2
  <2>6. ASSUME NEW w \in Writer,
               ReadState(w) \/ Persist(w) \/ ReadAgainForAnswer(w) \/ PersistAgain(w)
        PROVE  Tokenless'
    BY <1>2, <2>0, <2>6 DEF ReadState, Persist, ReadAgainForAnswer, PersistAgain
  <2>7. ASSUME NEW w \in Writer, CheckToken(w)
        PROVE  Tokenless'
    BY <1>2, <2>0, <2>7 DEF CheckToken, Locked
  <2>8. ASSUME NEW w \in Writer, Unlink(w)
        PROVE  Tokenless'
    BY <2>1, <2>8 DEF Unlink
  <2>9. ASSUME NEW w \in Writer, Crash(w) \/ DeadlinePasses(w)
        PROVE  Tokenless'
    BY <1>2, <2>0, <2>9 DEF Crash, DeadlinePasses
  <2>10. ASSUME NEW w \in Writer, FileCallFails(w)
         PROVE  Tokenless'
    BY <1>2, <2>0, <2>10 DEF FileCallFails
  <2>11. CASE LockGrowsOld \/ UNCHANGED vars
    BY <1>2, <2>11 DEF LockGrowsOld, vars, Typed
  <2>12. QED
    BY <1>2, <2>2, <2>3, <2>4, <2>5, <2>6, <2>7, <2>8, <2>9, <2>10, <2>11 DEF Next, Step
<1>3. QED
  BY <1>1, <1>2

(* A call that has ended leaves nothing behind that its answer denies: a   *)
(* busy or refused one no change, and one answered otherwise than by an    *)
(* error no lock; for any number of writers, whichever are killed or       *)
(* suspended, whatever file-system calls fail and whoever recovers locks.  *)
THEOREM NothingStaysBehind == Spec => []NothingIsLeftBehind
<1>1. Tokenless => NoLockIsLeft
  BY DEF Tokenless, NoLockIsLeft, Acquiring
<1>2. QED
  BY <1>1, AlwaysFailsClosed, TracelessInductive, TypedInductive, TokenlessInductive, PTL
     DEF Spec, NothingIsLeftBehind

-----------------------------------------------------------------------------
(* Where at most one writer at a time can recover a lock: none dies and no *)
(* call on a file fails, or there are two writers and anything may.  The   *)
(* lock file is there while its creator is between creating and removing   *)
(* it, and then it is never old; or its creator is dead, or has returned   *)
(* with an error.  Whoever recovers such a lock is the only one left.      *)
(* Hence nobody else is beside a creator, what that writer read is still   *)
(* the state, and between its two writes the first one is the last.        *)
AtMostOneRecovers ==
    MaySlow = {} /\ (MayCrash \cup MayFail = {} \/ \E a, b : Writer = {a, b})

Holding == {"write"} \cup Critical \cup Releasing

Recovering == {"read1", "stat2", "read2", "clear"}

Guarded ==
    /\ Locked => \/ pc[lock.owner] \in Holding /\ ~lock.old
                 \/ pc[lock.owner] \in {"done", "crashed"} /\ lock.owner \in MayCrash \cup MayFail
    /\ \A w \in Writer : pc[w] \in Holding =>
           lock.owner = w /\ lock.body = IF pc[w] = "write" THEN Nobody ELSE w
    /\ \A w \in Writer : pc[w] \in Recovering =>
           Locked /\ lock.old /\ \A v \in Writer \ {w} : pc[v] \in Ended

(* What the writer at work knows of the file.                              *)
Current ==
    /\ \A w \in Writer : pc[w] \in {"persist", "rewrite"} => snapshot[w] = db
    /\ \A w \in Writer : pc[w] \in {"reread", "rewrite"} =>
                             db # << >> /\ db[Len(db)] = Entry(w, 1)
    /\ \A w \in Writer : pc[w] = "rewrite" => w \in Twice
    /\ \A w \in Writer : result[w] = "ok" => Last(w) \in Writes(db)

(* A step keeps the lock with its creator, or its recovery with the last   *)
(* writer alive.                                                           *)
LEMMA GuardedInductive ==
    ASSUME AtMostOneRecovers
    PROVE  /\ Init => Guarded
           /\ Traceless /\ Typed /\ Guarded /\ [Next]_vars => Guarded'
<1>1. Init => Guarded
  BY DEF Init, Guarded, NoLock, Locked, Holding, Critical, Releasing, Recovering
<1>2. ASSUME Traceless, Typed, Guarded, [Next]_vars
      PROVE  Guarded'
  <2> USE WriterAssumption
      DEF Go, local, Locked, Holding, Critical, Releasing, Recovering, Ended
  <2>0. pc \in [Writer -> Acquiring \cup Critical \cup Releasing \cup Ended \cup {"write"}]
    BY <1>2 DEF Traceless
  <2>1. ASSUME NEW w \in Writer, Open(w)
        PROVE  Guarded'
    <3>1. CASE Locked
      BY <1>2, <2>0, <2>1, <3>1 DEF Typed, Guarded, Open
    <3>2. CASE ~Locked
      <4>1. \A v \in Writer : pc[v] \notin Holding
        BY <1>2, <3>2 DEF Guarded
      <4>2. lock'.owner = w /\ lock'.body = Nobody /\ ~lock'.old
        BY <2>1, <3>2 DEF Open
      <4>3. pc' = [pc EXCEPT ![w] = "write"] /\ pc[w] = "open"
        BY <2>1, <3>2 DEF Open
      <4>4. QED
        BY <1>2, <2>0, <3>2, <4>1, <4>2, <4>3 DEF Guarded
    <3>3. QED
      BY <3>1, <3>2
  <2>2. ASSUME NEW w \in Writer, WriteToken(w)
        PROVE  Guarded'
    <3>1. /\ lock.owner = w /\ pc[w] = "write" /\ ~lock.old
          /\ \A v \in Writer : pc[v] \in Holding => v = w
      BY <1>2, <2>2 DEF Guarded, WriteToken
    <3>2. lock'.owner = w /\ lock'.body = w /\ ~lock'.old
      BY <1>2, <2>2, <3>1 DEF Typed, WriteToken
    <3>3. CASE pc' = [pc EXCEPT ![w] = "read"]
      BY <1>2, <2>0, <3>1, <3>2, <3>3 DEF Guarded
    <3>4. CASE pc' = [pc EXCEPT ![w] = "done"] /\ w \in MayFail
      BY <1>2, <2>0, <3>1, <3>2, <3>4 DEF Guarded
    <3>5. QED
      BY <2>2, <3>3, <3>4 DEF WriteToken
  <2>3. ASSUME NEW w \in Writer, Retry(w)
        PROVE  Guarded'
    BY <1>2, <2>0, <2>3 DEF Typed, Guarded, Retry
  <2>4. ASSUME NEW w \in Writer, ClearStaleLock(w)
        PROVE  Guarded'
    <3>1. CASE Stat(w, "stat1", "read1")
      <4>1. CASE Locked /\ lock.old
        <5>1. /\ lock.owner \in MayCrash \cup MayFail /\ lock.owner \in Writer
              /\ pc[lock.owner] \in Ended /\ lock.owner # w
          BY <1>2, <3>1, <4>1 DEF Guarded, Stat, Typed
        <5>2. PICK a, b : Writer = {a, b}
          BY <5>1 DEF AtMostOneRecovers
        <5>3. \A v \in Writer \ {w} : pc[v] \in Ended
          BY <5>1, <5>2
        <5>4. pc' = [pc EXCEPT ![w] = "read1"] /\ UNCHANGED lock
          BY <3>1, <4>1 DEF Stat
        <5>5. QED
          BY <1>2, <2>0, <3>1, <4>1, <5>1, <5>3, <5>4 DEF Guarded, Stat, Typed
      <4>2. CASE ~(Locked /\ lock.old)
        BY <1>2, <2>0, <3>1, <4>2 DEF Guarded, Stat, Typed
      <4>3. QED
        BY <4>1, <4>2
    <3>2. CASE Clear(w)
      <4>1. pc[w] = "clear" /\ \A v \in Writer \ {w} : pc[v] \in Ended
        BY <1>2, <3>2 DEF Guarded, Clear
      <4>2. lock'.owner = Nobody /\ pc' = [pc EXCEPT ![w] = "retry"]
        BY <3>2 DEF Clear, NoLock
      <4>3. QED
        BY <1>2, <2>0, <4>1, <4>2 DEF Guarded
    <3>3. CASE ReadFirst(w) \/ Stat(w, "stat2", "read2") \/ ReadAgain(w)
      <4>1. /\ pc[w] \in Recovering /\ UNCHANGED lock
            /\ \E to \in Recovering \cup {"retry"} : pc' = [pc EXCEPT ![w] = to]
        BY <3>3 DEF ReadFirst, Stat, ReadAgain
      <4>2. PICK to \in Recovering \cup {"retry"} : pc' = [pc EXCEPT ![w] = to]
        BY <4>1
      <4>3. \A v \in Writer \ {w} : pc[v] \in Ended /\ pc'[v] = pc[v]
        BY <1>2, <2>0, <4>1, <4>2 DEF Guarded
      <4>4. lock.owner # w
        BY <1>2, <4>1 DEF Guarded
      <4>5. QED
        BY <1>2, <2>0, <4>1, <4>2, <4>3, <4>4 DEF Guarded, Typed
    <3>4. QED
      BY <2>4, <3>1, <3>2, <3>3 DEF ClearStaleLock
  <2>5. ASSUME NEW w \in Writer,
               ReadState(w) \/ Persist(w) \/ ReadAgainForAnswer(w) \/ PersistAgain(w)
        PROVE  Guarded'
    <3>1. /\ pc[w] \in Critical /\ UNCHANGED lock
          /\ \E to \in Critical \cup Releasing : pc' = [pc EXCEPT ![w] = to]
      BY <2>5 DEF ReadState, Persist, ReadAgainForAnswer, PersistAgain
    <3>2. QED
      BY <1>2, <2>0, <3>1 DEF Guarded, Typed
  <2>6. ASSUME NEW w \in Writer, CheckToken(w)
        PROVE  Guarded'
    <3>1. lock.owner = w /\ lock.body = w
      BY <1>2, <2>6 DEF Guarded, CheckToken
    <3>2. pc' = [pc EXCEPT ![w] = "unlink"] /\ UNCHANGED lock /\ pc[w] = "check"
      BY <2>6, <3>1 DEF CheckToken
    <3>3. QED
      BY <1>2, <2>0, <3>1, <3>2 DEF Guarded
  <2>7. ASSUME NEW w \in Writer, Unlink(w)
        PROVE  Guarded'
    <3>1. pc[w] = "unlink" /\ \A v \in Writer : pc[v] \in Holding => v = w
      BY <1>2, <2>7 DEF Guarded, Unlink
    <3>2. lock'.owner = Nobody /\ pc' = [pc EXCEPT ![w] = "done"]
      BY <2>7 DEF Unlink, NoLock
    <3>3. QED
      BY <1>2, <2>0, <3>1, <3>2 DEF Guarded
  <2>8. ASSUME NEW w \in Writer, DeadlinePasses(w)
        PROVE  Guarded'
    BY <1>2, <2>8 DEF Guarded, DeadlinePasses
  <2>9. ASSUME NEW w \in Writer, Crash(w)
        PROVE  Guarded'
    <3>1. w \in MayCrash /\ pc' = [pc EXCEPT ![w] = "crashed"] /\ UNCHANGED lock
      BY <2>9 DEF Crash
    <3>2. QED
      BY <1>2, <2>0, <3>1 DEF Guarded, Typed
  <2>10. ASSUME NEW w \in Writer, FileCallFails(w)
         PROVE  Guarded'
    <3>1. w \in MayFail /\ UNCHANGED lock
      BY <2>10 DEF FileCallFails
    <3>2. CASE pc[w] \in Critical
      <4>1. pc' = [pc EXCEPT ![w] = "check"]
        BY <2>10, <3>2 DEF FileCallFails
      <4>2. QED
        BY <1>2, <2>0, <3>1, <3>2, <4>1 DEF Guarded, Typed
    <3>3. CASE pc[w] \notin Critical
      <4>1. pc' = [pc EXCEPT ![w] = "done"]
        BY <2>10, <3>3 DEF FileCallFails
      <4>2. QED
        BY <1>2, <2>0, <3>1, <3>3, <4>1 DEF Guarded, Typed
    <3>4. QED
      BY <3>2, <3>3
  <2>11. CASE LockGrowsOld
    <3>1. pc[lock.owner] \in Ended
      BY <2>11 DEF LockGrowsOld, AtMostOneRecovers
    <3>2. /\ lock'.owner = lock.owner /\ lock'.body = lock.body /\ lock'.old
          /\ UNCHANGED pc
      BY <1>2, <2>11 DEF LockGrowsOld, Typed
    <3>3. QED
      BY <1>2, <2>0, <3>1, <3>2 DEF Guarded
  <2>12. CASE UNCHANGED vars
    BY <1>2, <2>12 DEF Guarded, vars
  <2>13. QED
    BY <1>2, <2>1, <2>2, <2>3, <2>4, <2>5, <2>6, <2>7, <2>8, <2>9, <2>10, <2>11, <2>12
       DEF Next, Step
<1>3. QED
  BY <1>1, <1>2

(* Nobody writes while another is between its read and its writes.         *)
LEMMA CurrentInductive ==
    /\ Init => Current
    /\ Traceless /\ Guarded /\ Current /\ [Next]_vars => Current'
<1>1. Init => Current
  BY DEF Init, Current
<1>2. ASSUME Traceless, Guarded, Current, [Next]_vars
      PROVE  Current'
  <2> USE DEF Go, local
  <2>0. /\ pc \in [Writer -> Acquiring \cup Critical \cup Releasing \cup Ended \cup {"write"}]
        /\ result \in [Writer -> {"none", "ok", "refused", "error"}]
        /\ snapshot \in [Writer -> Seq(Entries)]
    BY <1>2 DEF Traceless
  <2>1. ASSUME NEW w \in Writer, UNCHANGED <<db, snapshot>>,
               \A v \in Writer \ {w} : pc'[v] = pc[v] /\ result'[v] = result[v],
               pc'[w] \notin {"persist", "reread", "rewrite"}, result'[w] = "ok" => result[w] = "ok"
        PROVE  Current'
    BY <1>2, <2>1 DEF Current
  <2>2. ASSUME NEW w \in Writer, Open(w) \/ WriteToken(w) \/ Retry(w) \/ ClearStaleLock(w)
        PROVE  Current'
    <3>1. pc'[w] \notin {"persist", "reread", "rewrite"}
      BY <2>0, <2>2 DEF Open, WriteToken, Retry, ClearStaleLock, Stat, ReadFirst, ReadAgain, Clear
    <3>2. /\ UNCHANGED <<db, snapshot>>
          /\ \A v \in Writer \ {w} : pc'[v] = pc[v] /\ result'[v] = result[v]
          /\ result'[w] = "ok" => result[w] = "ok"
      BY <2>0, <2>2 DEF Open, WriteToken, Retry, ClearStaleLock, Stat, ReadFirst, ReadAgain, Clear
    <3>3. QED
      BY <2>1, <3>1, <3>2
  <2>3. ASSUME NEW w \in Writer,
               CheckToken(w) \/ Unlink(w) \/ Crash(w) \/ FileCallFails(w)
        PROVE  Current'
    <3>1. pc'[w] \notin {"persist", "reread", "rewrite"}
      BY <2>0, <2>3 DEF CheckToken, Unlink, Crash, FileCallFails
    <3>2. /\ UNCHANGED <<db, snapshot>>
          /\ \A v \in Writer \ {w} : pc'[v] = pc[v] /\ result'[v] = result[v]
          /\ result'[w] = "ok" => result[w] = "ok"
      BY <2>0, <2>3 DEF CheckToken, Unlink, Crash, FileCallFails
    <3>3. QED
      BY <2>1, <3>1, <3>2
  <2>4. ASSUME NEW w \in Writer, ReadState(w)
        PROVE  Current'
    BY <1>2, <2>0, <2>4 DEF Current, ReadState
  <2>5. ASSUME NEW w \in Writer, pc[w] \in Critical
        PROVE  \A v \in Writer \ {w} : pc[v] \notin Critical
    BY <1>2, <2>5 DEF Guarded, Holding
  <2>6. ASSUME NEW w \in Writer, Persist(w)
        PROVE  Current'
    <3>1. snapshot[w] \in Seq(Entries) /\ snapshot[w] = db /\ pc[w] \in Critical
      BY <1>2, <2>0, <2>6 DEF Current, Persist, Critical
    <3>2. /\ db' # << >> /\ db'[Len(db')] = Entry(w, 1)
          /\ Writes(db') = Writes(db) \cup {Entry(w, 1)}
      BY <2>6, <3>1, Appended DEF Persist
    <3>3. \A v \in Writer \ {w} : pc'[v] = pc[v] /\ pc[v] \notin Critical
      BY <2>0, <2>5, <2>6, <3>1 DEF Persist
    <3>4. \A v \in Writer : result'[v] = "ok" => Last(v) \in Writes(db')
      BY <1>2, <2>0, <2>6, <3>2 DEF Current, Persist, Last
    <3>5. pc'[w] \in {"reread", "check"}
      BY <2>0, <2>6 DEF Persist
    <3>6. QED
      BY <3>2, <3>3, <3>4, <3>5 DEF Current, Critical
  <2>7. ASSUME NEW w \in Writer, ReadAgainForAnswer(w)
        PROVE  Current'
    <3>1. db # << >> /\ db[Len(db)] = Entry(w, 1) /\ UNCHANGED db
      BY <1>2, <2>7 DEF Current, ReadAgainForAnswer
    <3>2. CASE w \in Twice
      BY <1>2, <2>0, <2>7, <3>1, <3>2 DEF Current, ReadAgainForAnswer
    <3>3. CASE w \notin Twice
      <4>1. Last(w) \in Writes(db)
        <5>1. db \in Seq(Entries)
          BY <1>2 DEF Traceless
        <5>2. Len(db) \in 1..Len(db)
          BY <3>1, <5>1
        <5>3. QED
          BY <3>1, <3>3, <5>2 DEF Last, Writes
      <4>2. QED
        BY <1>2, <2>0, <2>7, <3>1, <3>3, <4>1 DEF Current, ReadAgainForAnswer
    <3>4. QED
      BY <3>2, <3>3
  <2>8. ASSUME NEW w \in Writer, PersistAgain(w)
        PROVE  Current'
    <3>1. /\ snapshot[w] \in Seq(Entries) /\ snapshot[w] = db /\ pc[w] \in Critical
          /\ w \in Twice
      BY <1>2, <2>0, <2>8 DEF Current, PersistAgain, Critical
    <3>2. Writes(db') = Writes(db) \cup {Entry(w, 2)}
      BY <2>8, <3>1, Appended DEF PersistAgain
    <3>3. \A v \in Writer \ {w} : pc'[v] = pc[v] /\ pc[v] \notin Critical
      BY <2>0, <2>5, <2>8, <3>1 DEF PersistAgain
    <3>4. \A v \in Writer : result'[v] = "ok" => Last(v) \in Writes(db')
      BY <1>2, <2>0, <2>8, <3>1, <3>2 DEF Current, PersistAgain, Last
    <3>5. pc'[w] = "check"
      BY <2>0, <2>8 DEF PersistAgain
    <3>6. QED
      BY <3>3, <3>4, <3>5 DEF Current, Critical
  <2>9. CASE LockGrowsOld \/ UNCHANGED vars \/ \E w \in Writer : DeadlinePasses(w)
    BY <1>2, <2>9 DEF Current, LockGrowsOld, DeadlinePasses, vars
  <2>10. QED
    BY <1>2, <2>2, <2>3, <2>4, <2>6, <2>7, <2>8, <2>9 DEF Next, Step
<1>3. QED
  BY <1>1, <1>2

(* At most one writer is between reading the state and replacing it: of    *)
(* any number while none dies or fails, and of two whichever does and      *)
(* whenever, the recovery of its lock included.                            *)
THEOREM MutualExclusionHolds ==
    ASSUME AtMostOneRecovers
    PROVE  Spec => []MutualExclusion
<1>1. Guarded => MutualExclusion
  BY DEF Guarded, MutualExclusion, Holding
<1>2. QED
  BY <1>1, TracelessInductive, TypedInductive, GuardedInductive, PTL DEF Spec

(* Under this condition a recovery removes nothing but a stale lock; with   *)
(* three writers it may remove a fresh one, as the run lock_cleanup_race   *)
(* shows.                                                                  *)
THEOREM FreshLockIsSafe ==
    ASSUME AtMostOneRecovers
    PROVE  Spec => FreshLockIsNeverBypassed
<1>1. Traceless /\ Guarded /\ [Next]_vars =>
          [\A w \in Writer : pc[w] = "clear" /\ pc'[w] = "retry" /\ Locked => lock.old]_vars
  BY DEF Guarded, Recovering
<1>2. QED
  BY <1>1, TracelessInductive, TypedInductive, GuardedInductive, PTL
     DEF Spec, FreshLockIsNeverBypassed

(* Under the same condition the locked file is a serial store: no update   *)
(* is lost, in the recovery of a lock that was left behind neither, no     *)
(* other write comes between the two of a command, "ok" means that the     *)
(* command is on file with all its writes, and a writer that is busy or    *)
(* refused has none there.  Of an error nothing is claimed.                *)
THEOREM StoreIsSerial ==
    ASSUME AtMostOneRecovers
    PROVE  Spec => ImplementsSerialStore
<1> DEFINE reply == [w \in Writer |-> Told(w)]
<1>1. Init => Serial!Init
  BY DEF Init, Serial!Init, Told
<1>2. ASSUME Traceless, Guarded, Current, [Next]_vars
      PROVE  [Serial!Next]_(Serial!vars)
  <2> USE DEF Go, local
  <2>0. /\ pc \in [Writer -> Acquiring \cup Critical \cup Releasing \cup Ended \cup {"write"}]
        /\ result \in [Writer -> {"none", "ok", "refused", "error"}]
    BY <1>2 DEF Traceless
  <2>1. ASSUME UNCHANGED db, \A v \in Writer : Told(v)' = Told(v)
        PROVE  UNCHANGED Serial!vars
    BY <2>1 DEF Serial!vars, Told
  <2>2. \A w \in Writer, n \in {1, 2} : Serial!OnFile(w, n) <=> Entry(w, n) \in Writes(db)
    BY DEF Serial!OnFile, Serial!Write, Entry, Writes
  <2>3. \A w \in Writer : Untouched(w) => ~Serial!OnFile(w, 1)
    BY <1>2 DEF Traceless, Free, Serial!OnFile, Serial!Write
  <2>4. ASSUME NEW w \in Writer, NEW told \in {"ok", "refused", "error"},
               Told(w) = "none", Told(w)' = told, UNCHANGED db,
               \A v \in Writer \ {w} : pc'[v] = pc[v] /\ result'[v] = result[v],
               told = "ok" => result[w] = "ok", told = "refused" => Untouched(w)
        PROVE  Serial!Next
    <3>1. told = "ok" => Serial!OnFile(w, IF w \in Twice THEN 2 ELSE 1)
      BY <1>2, <2>2, <2>4 DEF Current, Last
    <3>2. told = "refused" => ~Serial!OnFile(w, 1)
      BY <2>3, <2>4
    <3>3. \A v \in Writer \ {w} : Told(v)' = Told(v)
      BY <2>4 DEF Told
    <3>4. reply' = [reply EXCEPT ![w] = told]
      BY <2>4, <3>3
    <3>5. Serial!Reply(w, told)
      BY <2>4, <3>1, <3>2, <3>4 DEF Serial!Reply
    <3>6. QED
      BY <3>5 DEF Serial!Next
  <2>5. ASSUME NEW w \in Writer, NEW to, to \notin {"done", "busy"},
               pc[w] \notin {"done", "busy"}, pc' = [pc EXCEPT ![w] = to],
               \A v \in Writer \ {w} : result'[v] = result[v]
        PROVE  \A v \in Writer : Told(v)' = Told(v)
    BY <2>0, <2>5 DEF Told
  <2>6. ASSUME NEW w \in Writer,
               Open(w) \/ ClearStaleLock(w) \/ ReadState(w) \/ ReadAgainForAnswer(w) \/ Crash(w)
        PROVE  UNCHANGED Serial!vars
    <3> USE DEF Open, ClearStaleLock, Stat, ReadFirst, ReadAgain, Clear, ReadState,
                ReadAgainForAnswer, Crash, Ended
    <3>1. PICK to : to \notin {"done", "busy"} /\ pc' = [pc EXCEPT ![w] = to]
      BY <2>6
    <3>2. pc[w] \notin {"done", "busy"} /\ UNCHANGED db
      BY <2>6
    <3>3. \A v \in Writer \ {w} : result'[v] = result[v]
      BY <2>0, <2>6
    <3>4. QED
      BY <2>1, <2>5, <3>1, <3>2, <3>3
  <2>7. ASSUME NEW w \in Writer, WriteToken(w)
        PROVE  [Serial!Next]_(Serial!vars)
    <3>1. pc[w] = "write" /\ UNCHANGED db
      BY <2>7 DEF WriteToken
    <3>2. CASE pc' = [pc EXCEPT ![w] = "read"] /\ UNCHANGED result
      BY <2>1, <2>5, <3>1, <3>2
    <3>3. CASE /\ pc' = [pc EXCEPT ![w] = "done"]
               /\ result' = [result EXCEPT ![w] = "error"]
      <4>1. Told(w) = "none" /\ Told(w)' = "error"
        BY <2>0, <3>1, <3>3 DEF Told
      <4>2. QED
        BY <2>0, <2>4, <3>1, <3>3, <4>1
    <3>4. QED
      BY <2>7, <3>2, <3>3 DEF WriteToken
  <2>8. ASSUME NEW w \in Writer, Retry(w)
        PROVE  [Serial!Next]_(Serial!vars)
    <3>1. CASE expired[w]
      <4>1. pc' = [pc EXCEPT ![w] = "busy"] /\ pc[w] = "retry" /\ UNCHANGED <<db, result>>
        BY <2>8, <3>1 DEF Retry
      <4>2. Told(w) = "none" /\ Told(w)' = "refused" /\ Untouched(w)
        BY <2>0, <4>1 DEF Told, Untouched, Acquiring
      <4>3. QED
        BY <2>0, <2>4, <4>1, <4>2
    <3>2. CASE ~expired[w]
      BY <2>1, <2>5, <2>8, <3>2 DEF Retry
    <3>3. QED
      BY <3>1, <3>2
  <2>9. ASSUME NEW w \in Writer, Persist(w)
        PROVE  Serial!Next
    <3>1. /\ pc[w] = "persist" /\ snapshot[w] = db
          /\ \A v \in Writer \ {w} : result'[v] = result[v]
          /\ \E to \in {"reread", "check"} : pc' = [pc EXCEPT ![w] = to]
      BY <1>2, <2>0, <2>9 DEF Current, Persist
    <3>2. \A v \in Writer : Told(v)' = Told(v)
      BY <2>5, <3>1
    <3>3. reply' = reply
      BY <3>2
    <3>4. Told(w) = "none" /\ ~Serial!OnFile(w, 1)
      BY <2>3, <3>1 DEF Told, Untouched
    <3>5. Serial!Begin(w)
      BY <2>9, <3>1, <3>3, <3>4 DEF Persist, Entry, Serial!Begin, Serial!Write
    <3>6. QED
      BY <3>5 DEF Serial!Next
  <2>10. ASSUME NEW w \in Writer, PersistAgain(w)
         PROVE  Serial!Next
    <3>1. /\ pc[w] = "rewrite" /\ snapshot[w] = db /\ w \in Twice
          /\ db # << >> /\ db[Len(db)] = Entry(w, 1)
          /\ pc' = [pc EXCEPT ![w] = "check"]
          /\ \A v \in Writer \ {w} : result'[v] = result[v]
      BY <1>2, <2>0, <2>10 DEF Current, PersistAgain
    <3>2. \A v \in Writer : Told(v)' = Told(v)
      BY <2>5, <3>1
    <3>3. reply' = reply
      BY <3>2
    <3>4. Told(w) = "none"
      BY <3>1 DEF Told
    <3>5. Serial!Complete(w)
      BY <2>10, <3>1, <3>3, <3>4 DEF PersistAgain, Entry, Serial!Complete, Serial!Write
    <3>6. QED
      BY <3>5 DEF Serial!Next
  <2>11. ASSUME NEW w \in Writer, CheckToken(w)
         PROVE  UNCHANGED Serial!vars
    <3>1. Locked /\ lock.body = w
      BY <1>2, <2>11, WriterAssumption DEF Guarded, CheckToken, Holding, Releasing, Locked
    <3>2. QED
      BY <2>1, <2>5, <2>11, <3>1 DEF CheckToken
  <2>12. ASSUME NEW w \in Writer, Unlink(w)
         PROVE  Serial!Next
    <3>1. pc[w] = "unlink" /\ pc' = [pc EXCEPT ![w] = "done"] /\ UNCHANGED <<db, result>>
      BY <2>12 DEF Unlink
    <3>2. result[w] # "none"
      BY <1>2, <3>1 DEF Traceless, Releasing
    <3>3. Told(w) = "none" /\ Told(w)' = result[w] /\ result[w] \in {"ok", "refused", "error"}
      BY <2>0, <3>1, <3>2 DEF Told
    <3>4. QED
      BY <2>0, <2>4, <3>1, <3>3 DEF Untouched
  <2>13. ASSUME NEW w \in Writer, FileCallFails(w)
         PROVE  [Serial!Next]_(Serial!vars)
    <3>1. /\ pc[w] \notin {"done", "busy"} /\ UNCHANGED db
          /\ result' = [result EXCEPT ![w] = "error"]
      BY <2>13 DEF FileCallFails, Ended
    <3>2. CASE pc' = [pc EXCEPT ![w] = "check"]
      BY <2>0, <2>1, <2>5, <3>1, <3>2
    <3>3. CASE pc' = [pc EXCEPT ![w] = "done"]
      <4>1. Told(w) = "none" /\ Told(w)' = "error"
        BY <2>0, <3>1, <3>3 DEF Told
      <4>2. QED
        BY <2>0, <2>4, <3>1, <3>3, <4>1
    <3>4. QED
      BY <2>13, <3>2, <3>3 DEF FileCallFails
  <2>14. CASE LockGrowsOld \/ UNCHANGED vars \/ \E w \in Writer : DeadlinePasses(w)
    BY <2>1, <2>14 DEF Told, LockGrowsOld, DeadlinePasses, vars
  <2>15. QED
    BY <1>2, <2>6, <2>7, <2>8, <2>9, <2>10, <2>11, <2>12, <2>13, <2>14 DEF Next, Step
<1>3. QED
  BY <1>1, <1>2, TracelessInductive, TypedInductive, GuardedInductive, CurrentInductive, PTL
     DEF Spec, ImplementsSerialStore, Serial!Spec
=============================================================================
