-------------------------- MODULE EvidenceStore_proofs --------------------------
(***************************************************************************)
(* What holds of the evidence store for any number of runs, of calls under *)
(* way at once, of failing file-system calls and of kills.                 *)
(*                                                                         *)
(* An append numbers its event by what it has read in an earlier step.     *)
(* That what it has read is still the end of the file follows from the     *)
(* queue: whoever is between reading and appending is at its head, so that *)
(* nobody else of its run is.                                              *)
(*                                                                         *)
(* The last part is the refinement of EventLog, with what EventsIn takes   *)
(* from a file and from a longer one.                                      *)
(***************************************************************************)
EXTENDS EvidenceStore, SequenceTheorems, WellFoundedInduction, TLAPS

InTurn == \A c \in Call : pc[c] = "append" => HasTurn(c)

KnowsTheEnd == \A c \in Call : pc[c] = "append" => seen[c] = LastEvent(File(c))

Backed == \A c \in Call :
    /\ pc[c] \in {"check", "write", "rename"} => ObjectOf[c] # NoObject
    /\ pc[c] \in {"queued", "append"} => ObjectOf[c] \in objects \cup {NoObject}

IInv == TypeOK /\ InTurn /\ KnowsTheEnd /\ Backed /\ LogIsSound

(* A file grows by at most one line, of a call that is appending to it.    *)
Grows(r) ==
    \/ log'[r] = log[r]
    \/ \E c \in Call, e \in LineEnd :
          /\ RunOf[c] = r /\ pc[c] = "append"
          /\ log'[r] = Append(log[r], EventOf(c, e))

LogGrows == log' \in [Run -> Seq(Event)] /\ \A r \in Run : Grows(r)

-----------------------------------------------------------------------------
(* An event numbered by the end of a chain continues it.                   *)
LEMMA ChainContinues ==
    ASSUME NEW lines \in Seq(Event), ValidChain(lines),
           NEW c \in Call, NEW e \in LineEnd, seen[c] = LastEvent(lines)
    PROVE  /\ Append(lines, EventOf(c, e)) \in Seq(Event)
           /\ ValidChain(Append(lines, EventOf(c, e)))
<1> DEFINE event == EventOf(c, e)
           longer == Append(lines, event)
<1>1. /\ event.call = c /\ event.end = e
      /\ event.sequence = seen[c].count + 1 /\ event.previousEventHash = seen[c].hash
  BY DEF EventOf
<1>2. /\ Len(longer) = Len(lines) + 1 /\ longer[Len(lines) + 1] = event
      /\ \A i \in 1 .. Len(lines) : longer[i] = lines[i]
  OBVIOUS
<1>3. CASE lines = <<>>
  <2>1. seen[c].count = 0 /\ seen[c].hash = NoEvent
    BY <1>3 DEF LastEvent, Nothing
  <2>2. event \in Event
    BY <2>1 DEF EventOf, Event
  <2>3. QED
    BY <1>1, <1>2, <1>3, <2>1, <2>2 DEF ValidChain
<1>4. CASE lines # <<>>
  <2>1. /\ seen[c].count = Len(lines) /\ seen[c].hash = lines[Len(lines)].call
        /\ Len(lines) \in Nat \ {0} /\ lines[Len(lines)] \in Event
    BY <1>4 DEF LastEvent
  <2>2. event \in Event
    BY <2>1 DEF EventOf, Event
  <2>3. longer \in Seq(Event)
    BY <2>2
  <2>4. ASSUME NEW i \in 1 .. Len(lines) + 1
        PROVE  /\ longer[i].sequence = i
               /\ longer[i].previousEventHash = IF i = 1 THEN NoEvent ELSE longer[i - 1].call
    <3>1. CASE i = Len(lines) + 1
      <4>1. i # 1 /\ i - 1 = Len(lines) /\ longer[i - 1] = lines[Len(lines)]
        BY <1>2, <2>1, <3>1
      <4>2. longer[i] = event
        BY <1>2, <3>1
      <4>3. QED
        BY <1>1, <2>1, <3>1, <4>1, <4>2
    <3>2. CASE i \in 1 .. Len(lines)
      <4>1. /\ lines[i].sequence = i
            /\ lines[i].previousEventHash = IF i = 1 THEN NoEvent ELSE lines[i - 1].call
        BY <3>2 DEF ValidChain
      <4>2. longer[i] = lines[i] /\ (i # 1 => longer[i - 1] = lines[i - 1])
        BY <1>2, <3>2
      <4>3. QED
        BY <4>1, <4>2
    <3>3. QED
      BY <2>1, <3>1, <3>2
  <2>5. DOMAIN longer = 1 .. Len(lines) + 1
    BY <1>2, <2>3
  <2>6. QED
    BY <2>3, <2>4, <2>5 DEF ValidChain
<1>5. QED
  BY <1>3, <1>4

(* A log that grows in this way stays sound, if objects are not removed.   *)
LEMMA SoundnessKept ==
    ASSUME IInv, LogGrows, objects \subseteq objects'
    PROVE  LogIsSound'
<1>1. ASSUME NEW r \in Run
      PROVE  /\ ValidChain(log'[r])
             /\ \A i \in DOMAIN log'[r] : ObjectOf[log'[r][i].call] \in objects' \cup {NoObject}
  <2>1. /\ log[r] \in Seq(Event) /\ ValidChain(log[r])
        /\ \A i \in DOMAIN log[r] : ObjectOf[log[r][i].call] \in objects' \cup {NoObject}
    BY DEF IInv, TypeOK, LogIsSound, ChainUnbroken, ReferencesResolve
  <2>2. CASE log'[r] = log[r]
    BY <2>1, <2>2
  <2>3. ASSUME NEW c \in Call, NEW e \in LineEnd, RunOf[c] = r, pc[c] = "append",
               log'[r] = Append(log[r], EventOf(c, e))
        PROVE  /\ ValidChain(log'[r])
               /\ \A i \in DOMAIN log'[r] :
                     ObjectOf[log'[r][i].call] \in objects' \cup {NoObject}
    <3>1. seen[c] = LastEvent(log[r])
      BY <2>3 DEF IInv, KnowsTheEnd, File
    <3>2. ValidChain(log'[r]) /\ log'[r] \in Seq(Event)
      BY <2>1, <2>3, <3>1, ChainContinues
    <3>3. EventOf(c, e).call = c /\ ObjectOf[c] \in objects' \cup {NoObject}
      BY <2>3 DEF EventOf, IInv, Backed
    <3>4. \A i \in DOMAIN log'[r] : i \in DOMAIN log[r] \/ i = Len(log[r]) + 1
      BY <2>1, <2>3
    <3>5. /\ \A i \in DOMAIN log[r] : log'[r][i] = log[r][i]
          /\ log'[r][Len(log[r]) + 1] = EventOf(c, e)
      BY <2>1, <2>3
    <3>6. QED
      BY <2>1, <3>2, <3>3, <3>4, <3>5
  <2>4. QED
    BY <2>2, <2>3 DEF LogGrows, Grows
<1>2. QED
  BY <1>1 DEF LogIsSound, ChainUnbroken, ReferencesResolve

-----------------------------------------------------------------------------
(* A rejected append leaves the queue, with what waits for it going on or  *)
(* the process ending: nobody is left who could append out of turn.        *)
LEMMA RejectionKept ==
    ASSUME IInv, NEW c \in Call, HasTurn(c), pc[c] \in {"queued", "append"}, Rejected(c),
           UNCHANGED <<objects, seen>>,
           log' \in [Run -> Seq(Event)], \A r \in Run \ {RunOf[c]} : log'[r] = log[r]
    PROVE  /\ pc' \in [Call -> Stage] /\ queue' \in [Run -> Seq(Call)]
           /\ down' \in {"no", "killed"} \cup Run
           /\ InTurn' /\ KnowsTheEnd' /\ Backed'
<1> DEFINE r == RunOf[c]
           failed == [pc EXCEPT ![c] = "failed"]
<1> USE EvidenceAssumption
<1>1. /\ r \in Run /\ pc \in [Call -> Stage] /\ queue \in [Run -> Seq(Call)]
      /\ down \in {"no", "killed"} \cup Run
  BY DEF IInv, TypeOK
<1>2. \A d \in Call : pc[d] = "append" /\ d # c => RunOf[d] # r
  BY DEF IInv, InTurn, HasTurn
<1>3. \A d \in Call : pc'[d] = "append" => pc[d] = "append" /\ d # c /\ queue'[RunOf[d]] = queue[RunOf[d]]
  <2>1. CASE Len(queue[r]) > 1
    <3>1. pc' = failed /\ queue' = [queue EXCEPT ![r] = Tail(@)]
      BY <2>1 DEF Rejected, Settled
    <3>2. QED
      BY <1>1, <1>2, <3>1
  <2>2. CASE ~(Len(queue[r]) > 1)
    <3>1. ASSUME NEW d \in Call, pc' = [failed EXCEPT ![d] = "queued"],
                 queue' = [queue EXCEPT ![r] = <<d>>]
          PROVE  \A w \in Call : pc'[w] = "append" =>
                     pc[w] = "append" /\ w # c /\ queue'[RunOf[w]] = queue[RunOf[w]]
      BY <1>1, <1>2, <3>1
    <3>2. CASE pc' = AllDead(failed)
      BY <3>2 DEF AllDead
    <3>3. QED
      BY <2>2, <3>1, <3>2 DEF Rejected
  <2>3. QED
    BY <2>1, <2>2
<1>4. /\ pc' \in [Call -> Stage] /\ queue' \in [Run -> Seq(Call)]
      /\ down' \in {"no", "killed"} \cup Run
      /\ \A d \in Call :
            /\ pc'[d] = "queued" => pc[d] = "queued" \/ ObjectOf[d] = NoObject
            /\ pc'[d] \in {"check", "write", "rename"} => pc[d] = pc'[d]
  <2>1. CASE Len(queue[r]) > 1
    <3>1. pc' = failed /\ queue' = [queue EXCEPT ![r] = Tail(@)] /\ UNCHANGED down
      BY <2>1 DEF Rejected, Settled
    <3>2. Tail(queue[r]) \in Seq(Call)
      BY <1>1, <2>1
    <3>3. QED
      BY <1>1, <3>1, <3>2 DEF Stage
  <2>2. CASE ~(Len(queue[r]) > 1)
    <3>1. ASSUME NEW d \in Call, ObjectOf[d] = NoObject, pc' = [failed EXCEPT ![d] = "queued"],
                 queue' = [queue EXCEPT ![r] = <<d>>], UNCHANGED down
          PROVE  /\ pc' \in [Call -> Stage] /\ queue' \in [Run -> Seq(Call)]
                 /\ down' \in {"no", "killed"} \cup Run
                 /\ \A w \in Call :
                       /\ pc'[w] = "queued" => pc[w] = "queued" \/ ObjectOf[w] = NoObject
                       /\ pc'[w] \in {"check", "write", "rename"} => pc[w] = pc'[w]
      <4>1. <<d>> \in Seq(Call)
        OBVIOUS
      <4>2. queue' \in [Run -> Seq(Call)] /\ down' \in {"no", "killed"} \cup Run
        BY <1>1, <3>1, <4>1
      <4>3. pc' \in [Call -> Stage]
        BY <1>1, <3>1 DEF Stage
      <4>4. \A w \in Call :
                /\ pc'[w] = "queued" => pc[w] = "queued" \/ ObjectOf[w] = NoObject
                /\ pc'[w] \in {"check", "write", "rename"} => pc[w] = pc'[w]
        BY <1>1, <3>1
      <4>5. QED
        BY <4>2, <4>3, <4>4
    <3>2. ASSUME pc' = AllDead(failed), queue' = [q \in Run |-> <<>>], down' = r
          PROVE  /\ pc' \in [Call -> Stage] /\ queue' \in [Run -> Seq(Call)]
                 /\ down' \in {"no", "killed"} \cup Run
                 /\ \A w \in Call :
                       /\ pc'[w] = "queued" => pc[w] = "queued" \/ ObjectOf[w] = NoObject
                       /\ pc'[w] \in {"check", "write", "rename"} => pc[w] = pc'[w]
      BY <1>1, <3>2 DEF Stage, AllDead
    <3>3. QED
      BY <2>2, <3>1, <3>2 DEF Rejected
  <2>3. QED
    BY <2>1, <2>2
<1>5. InTurn'
  BY <1>3 DEF IInv, InTurn, HasTurn
<1>6. KnowsTheEnd'
  <2>1. ASSUME NEW d \in Call, pc'[d] = "append"
        PROVE  seen'[d] = LastEvent(File(d))'
    <3>1. pc[d] = "append" /\ RunOf[d] # r /\ RunOf[d] \in Run
      BY <1>2, <1>3, <2>1
    <3>2. seen[d] = LastEvent(log[RunOf[d]]) /\ log'[RunOf[d]] = log[RunOf[d]]
      BY <3>1 DEF IInv, KnowsTheEnd, File
    <3>3. QED
      BY <3>2 DEF File, LastEvent, Nothing
  <2>2. QED
    BY <2>1 DEF KnowsTheEnd
<1>7. Backed'
  BY <1>3, <1>4 DEF IInv, Backed
<1>8. QED
  BY <1>4, <1>5, <1>6, <1>7

(* What a failing or killed append leaves is a line of its own at most.    *)
LEMMA RemainsGrow ==
    ASSUME IInv, NEW c \in Call, pc[c] = "append", NEW lines \in Remains(c)
    PROVE  /\ lines \in Seq(Event)
           /\ lines = File(c) \/ \E e \in LineEnd : lines = Append(File(c), EventOf(c, e))
<1>1. File(c) \in Seq(Event) /\ ValidChain(File(c)) /\ seen[c] = LastEvent(File(c))
  BY EvidenceAssumption
     DEF IInv, TypeOK, File, LogIsSound, ChainUnbroken, KnowsTheEnd
<1>2. lines = File(c) \/ \E e \in LineEnd : lines = Append(File(c), EventOf(c, e))
  BY DEF Remains, LineEnd
<1>3. QED
  BY <1>1, <1>2, ChainContinues

-----------------------------------------------------------------------------
LEMMA InitSound == Init => IInv
<1> SUFFICES ASSUME Init
             PROVE  IInv
  OBVIOUS
<1>1. TypeOK
  BY EvidenceAssumption DEF Init, TypeOK, Stage, Position, Nothing
<1>2. InTurn /\ KnowsTheEnd /\ Backed
  BY DEF Init, InTurn, KnowsTheEnd, Backed
<1>3. LogIsSound
  BY DEF Init, LogIsSound, ChainUnbroken, ReferencesResolve, ValidChain
<1>4. QED
  BY <1>1, <1>2, <1>3 DEF IInv

(* The steps that leave the files and whoever is appending as they are.    *)
LEMMA QuietKept ==
    ASSUME IInv, NEW c \in Call,
           \/ AppendRunEvent(c) \/ Save(c) \/ Exists(c) \/ WriteTemporary(c) \/ Rename(c)
           \/ RenameFails(c) \/ PutFails(c)
    PROVE  IInv'
<1> USE EvidenceAssumption
<1>1. /\ RunOf[c] \in Run /\ pc \in [Call -> Stage] /\ queue \in [Run -> Seq(Call)]
      /\ faults \in 0 .. MaxFaults /\ objects \subseteq Object
      /\ ObjectOf[c] \in Object \cup {NoObject}
  BY DEF IInv, TypeOK
<1>2. /\ UNCHANGED <<log, seen, down, kills>>
      /\ faults' \in 0 .. MaxFaults
  BY <1>1 DEF AppendRunEvent, Save, Exists, WriteTemporary, Rename, RenameFails, PutFails
<1>3. \/ queue' = queue
      \/ queue' = [queue EXCEPT ![RunOf[c]] = Append(@, c)]
  BY DEF AppendRunEvent, Save, Exists, WriteTemporary, Rename, RenameFails, PutFails, Stored
<1>14. /\ queue' \in [Run -> Seq(Call)]
       /\ \A r \in Run : queue[r] # <<>> =>
             queue'[r] # <<>> /\ Head(queue'[r]) = Head(queue[r])
  <2>1. CASE queue' = queue
    BY <1>1, <2>1
  <2>2. CASE queue' = [queue EXCEPT ![RunOf[c]] = Append(@, c)]
    <3>1. queue[RunOf[c]] \in Seq(Call)
      BY <1>1
    <3>2. /\ Append(queue[RunOf[c]], c) \in Seq(Call) /\ Append(queue[RunOf[c]], c) # <<>>
          /\ queue[RunOf[c]] # <<>> => Head(Append(queue[RunOf[c]], c)) = Head(queue[RunOf[c]])
      BY <3>1, AppendProperties, HeadTailAppend
    <3>3. QED
      BY <1>1, <2>2, <3>2
  <2>3. QED
    BY <1>3, <2>1, <2>2
<1>4. objects \subseteq objects' /\ (objects' = objects \/ objects' = objects \cup {ObjectOf[c]})
  BY DEF AppendRunEvent, Save, Exists, WriteTemporary, Rename, RenameFails, PutFails
<1>5. PICK to \in Stage \ {"append"} : pc' = [pc EXCEPT ![c] = to]
  BY DEF AppendRunEvent, Save, Exists, WriteTemporary, Rename, RenameFails, PutFails, Stored, Stage
<1>6. /\ to = "queued" => ObjectOf[c] \in objects' \cup {NoObject}
      /\ to \in {"check", "write", "rename"} => ObjectOf[c] # NoObject
  BY <1>1, <1>5
     DEF AppendRunEvent, Save, Exists, WriteTemporary, Rename, RenameFails, PutFails, Stored,
         IInv, Backed
<1>7. objects' \subseteq Object
  <2>1. CASE Rename(c)
    <3>1. ObjectOf[c] # NoObject
      BY <2>1 DEF Rename, IInv, Backed
    <3>2. QED
      BY <1>1, <1>4, <3>1
  <2>2. CASE ~Rename(c)
    BY <1>1, <2>2 DEF AppendRunEvent, Save, Exists, WriteTemporary, RenameFails, PutFails
  <2>3. QED
    BY <2>1, <2>2
<1>8. TypeOK'
  BY <1>1, <1>2, <1>14, <1>5, <1>7 DEF IInv, TypeOK
<1>9. InTurn'
  BY <1>1, <1>14, <1>5 DEF IInv, InTurn, HasTurn
<1>10. KnowsTheEnd'
  BY <1>1, <1>2, <1>5 DEF IInv, KnowsTheEnd, File, LastEvent, Nothing
<1>11. Backed'
  BY <1>1, <1>4, <1>5, <1>6 DEF IInv, Backed
<1>12. LogIsSound'
  <2>1. LogGrows
    BY <1>2 DEF LogGrows, Grows, IInv, TypeOK
  <2>2. QED
    BY <1>4, <2>1, SoundnessKept
<1>13. QED
  BY <1>8, <1>9, <1>10, <1>11, <1>12 DEF IInv

(* The steps of an append, which only the head of the queue takes.         *)
LEMMA AppendKept ==
    ASSUME IInv, NEW c \in Call,
           ReadRunEvents(c) \/ RefuseToRead(c) \/ AppendFile(c) \/ AppendFails(c)
    PROVE  IInv'
<1> USE EvidenceAssumption
<1>1. /\ RunOf[c] \in Run /\ pc \in [Call -> Stage] /\ queue \in [Run -> Seq(Call)]
      /\ log \in [Run -> Seq(Event)] /\ seen \in [Call -> Position]
      /\ faults \in 0 .. MaxFaults /\ File(c) = log[RunOf[c]]
  BY DEF IInv, TypeOK, File
<1>2. CASE ReadRunEvents(c)
  <2>1. LastEvent(File(c)) \in Position
    <3>1. File(c) \in Seq(Event)
      BY <1>1
    <3>2. CASE File(c) = <<>>
      BY <3>2 DEF LastEvent, Nothing, Position
    <3>3. CASE File(c) # <<>>
      <4>1. Len(File(c)) \in Nat /\ File(c)[Len(File(c))] \in Event
        BY <3>1, <3>3
      <4>2. QED
        BY <3>3, <4>1 DEF LastEvent, Position, Event
    <3>4. QED
      BY <3>2, <3>3
  <2>2. TypeOK' /\ InTurn' /\ Backed'
    BY <1>1, <1>2, <2>1 DEF IInv, TypeOK, InTurn, Backed, HasTurn, ReadRunEvents, Stage
  <2>3. KnowsTheEnd'
    BY <1>1, <1>2 DEF IInv, TypeOK, KnowsTheEnd, ReadRunEvents, File, LastEvent, Nothing
  <2>4. LogIsSound'
    BY <1>2 DEF ReadRunEvents, IInv, LogIsSound, ChainUnbroken, ReferencesResolve, ValidChain
  <2>5. QED
    BY <2>2, <2>3, <2>4 DEF IInv
<1>3. CASE AppendFile(c)
  <2>1. pc[c] = "append" /\ HasTurn(c) /\ seen[c] = LastEvent(File(c))
    BY <1>3 DEF AppendFile, IInv, InTurn, KnowsTheEnd
  <2>2. Append(File(c), EventOf(c, "line")) \in Seq(Event)
    BY <1>1, <2>1, ChainContinues DEF IInv, LogIsSound, ChainUnbroken, LineEnd
  <2>3. /\ log' = [log EXCEPT ![RunOf[c]] = Append(@, EventOf(c, "line"))]
        /\ pc' = [pc EXCEPT ![c] = "ok"] /\ queue' = [queue EXCEPT ![RunOf[c]] = Tail(@)]
        /\ UNCHANGED <<objects, seen, down, faults, kills>>
    BY <1>3 DEF AppendFile, Settled
  <2>4. LogGrows
    BY <1>1, <2>1, <2>2, <2>3 DEF LogGrows, Grows, LineEnd
  <2>5. \A d \in Call : pc'[d] = "append" => pc[d] = "append" /\ RunOf[d] # RunOf[c]
    BY <1>1, <2>1, <2>3 DEF IInv, InTurn, HasTurn
  <2>6. TypeOK'
    <3>1. Tail(queue[RunOf[c]]) \in Seq(Call)
      BY <1>1, <2>1 DEF HasTurn
    <3>2. queue' \in [Run -> Seq(Call)] /\ pc' \in [Call -> Stage]
      BY <1>1, <2>3, <3>1 DEF Stage
    <3>3. QED
      BY <2>3, <2>4, <3>2 DEF IInv, TypeOK, LogGrows
  <2>7. InTurn' /\ KnowsTheEnd' /\ Backed'
    <3>1. InTurn'
      BY <1>1, <2>3, <2>5 DEF IInv, InTurn, HasTurn
    <3>2. KnowsTheEnd'
      BY <1>1, <2>3, <2>5 DEF IInv, KnowsTheEnd, File, LastEvent, Nothing
    <3>3. Backed'
      BY <1>1, <2>3 DEF IInv, Backed
    <3>4. QED
      BY <3>1, <3>2, <3>3
  <2>8. QED
    BY <2>3, <2>4, <2>6, <2>7, SoundnessKept DEF IInv
<1>4. CASE RefuseToRead(c) \/ AppendFails(c)
  <2>1. /\ HasTurn(c) /\ pc[c] \in {"queued", "append"} /\ Rejected(c)
        /\ UNCHANGED <<objects, seen, kills>> /\ faults' \in 0 .. MaxFaults
    BY <1>1, <1>4 DEF RefuseToRead, AppendFails
  <2>2. PICK lines : /\ lines = File(c) \/ (pc[c] = "append" /\ lines \in Remains(c))
                     /\ log' = [log EXCEPT ![RunOf[c]] = lines]
    BY <1>1, <1>4 DEF RefuseToRead, AppendFails
  <2>3. LogGrows
    BY <1>1, <2>2, RemainsGrow DEF LogGrows, Grows
  <2>4. \A r \in Run \ {RunOf[c]} : log'[r] = log[r]
    BY <1>1, <2>2
  <2>5. /\ pc' \in [Call -> Stage] /\ queue' \in [Run -> Seq(Call)]
        /\ down' \in {"no", "killed"} \cup Run
        /\ InTurn' /\ KnowsTheEnd' /\ Backed'
    BY <2>1, <2>3, <2>4, RejectionKept DEF LogGrows
  <2>6. TypeOK'
    BY <2>1, <2>3, <2>5 DEF IInv, TypeOK, LogGrows
  <2>7. QED
    BY <2>1, <2>3, <2>5, <2>6, SoundnessKept DEF IInv
<1>5. QED
  BY <1>2, <1>3, <1>4

(* A kill may complete, cut or undo one append per run; nobody appends     *)
(* after it who has read before.                                           *)
LEMMA KillKept ==
    ASSUME IInv, Kill
    PROVE  IInv'
<1> USE EvidenceAssumption
<1>1. LogGrows
  <2>1. PICK lines \in [Run -> UNION {AfterKill(r) : r \in Run}] :
            (\A r \in Run : lines[r] \in AfterKill(r)) /\ log' = lines
    BY DEF Kill
  <2>2. ASSUME NEW r \in Run
        PROVE  lines[r] \in Seq(Event) /\ Grows(r)
    <3>1. log[r] \in Seq(Event) /\ ValidChain(log[r])
      BY DEF IInv, TypeOK, LogIsSound, ChainUnbroken
    <3>2. CASE lines[r] = log[r]
      BY <2>1, <3>1, <3>2 DEF Grows
    <3>3. ASSUME NEW c \in Call, RunOf[c] = r, pc[c] = "append",
                 \/ lines[r] \in Remains(c)
                 \/ lines[r] = Append(log[r], EventOf(c, "line"))
          PROVE  lines[r] \in Seq(Event) /\ Grows(r)
      <4>1. File(c) = log[r] /\ seen[c] = LastEvent(log[r])
        BY <3>3 DEF File, IInv, KnowsTheEnd
      <4>2. CASE lines[r] \in Remains(c)
        BY <2>1, <3>3, <4>1, <4>2, RemainsGrow DEF Grows
      <4>3. CASE lines[r] = Append(log[r], EventOf(c, "line"))
        BY <2>1, <3>1, <3>3, <4>1, <4>3, ChainContinues DEF Grows, LineEnd
      <4>4. QED
        BY <3>3, <4>2, <4>3
    <3>4. QED
      BY <2>1, <3>2, <3>3 DEF AfterKill
  <2>3. QED
    BY <2>1, <2>2 DEF LogGrows
<1>2. \A c \in Call : pc'[c] \in {"ok", "failed", "idle", "dead"}
  BY DEF Kill, AllDead
<1>3. InTurn' /\ KnowsTheEnd' /\ Backed'
  BY <1>2 DEF InTurn, KnowsTheEnd, Backed
<1>4. TypeOK'
  <2>1. pc' \in [Call -> Stage] /\ queue' \in [Run -> Seq(Call)] /\ kills' \in 0 .. MaxKills
    BY DEF Kill, AllDead, Stage, IInv, TypeOK
  <2>2. QED
    BY <1>1, <2>1 DEF Kill, IInv, TypeOK, LogGrows
<1>5. QED
  BY <1>1, <1>3, <1>4, SoundnessKept DEF Kill, IInv

LEMMA NextSound == IInv /\ [Next]_vars => IInv'
<1> SUFFICES ASSUME IInv, [Next]_vars
             PROVE  IInv'
  OBVIOUS
<1>1. CASE Restart \/ UNCHANGED vars
  <2>1. TypeOK' /\ InTurn' /\ Backed'
    BY <1>1 DEF Restart, vars, IInv, TypeOK, InTurn, HasTurn, Backed
  <2>2. KnowsTheEnd' /\ LogIsSound'
    BY <1>1 DEF Restart, vars, IInv, KnowsTheEnd, File, LastEvent, Nothing,
                LogIsSound, ChainUnbroken, ReferencesResolve, ValidChain
  <2>3. QED
    BY <2>1, <2>2 DEF IInv
<1>2. QED
  BY <1>1, QuietKept, AppendKept, KillKept DEF Next, Step

LEMMA Soundness == Spec => []IInv
BY InitSound, NextSound, PTL DEF Spec

-----------------------------------------------------------------------------
(* Calls, files and queues have the shapes the code gives them, whatever   *)
(* fails and whenever the process ends.                                    *)
THEOREM TypeCorrect == Spec => []TypeOK
<1>1. IInv => TypeOK
  BY DEF IInv
<1>2. QED
  BY <1>1, Soundness, PTL

(* The chain of every run is unbroken and its events name only objects     *)
(* that are stored, for any number of calls, failures and kills            *)
(* (appendRunEvent, putObject).                                            *)
THEOREM LogStaysSound == Spec => []LogIsSound
<1>1. IInv => LogIsSound
  BY DEF IInv
<1>2. QED
  BY <1>1, Soundness, PTL

(* No append fails for the failure of another: the queue catches what its  *)
(* predecessor was rejected with.                                          *)
THEOREM FailuresStayContained == Spec => FailuresDoNotSpread
<1>1. ASSUME IInv, [Next]_vars, NEW c \in Call,
             pc[c] \in {"queued", "append"}, pc'[c] = "failed"
      PROVE  HasTurn(c) /\ (faults' > faults \/ ~Readable(File(c)))
  <2>1. pc \in [Call -> Stage] /\ faults \in Nat
    BY <1>1, EvidenceAssumption DEF IInv, TypeOK
  <2>2. ASSUME NEW d \in Call, Rejected(d)
        PROVE  c = d
    BY <1>1, <2>1, <2>2 DEF Rejected, AllDead
  <2>3. ASSUME NEW d \in Call, RefuseToRead(d) \/ AppendFails(d)
        PROVE  HasTurn(c) /\ (faults' > faults \/ ~Readable(File(c)))
    BY <2>1, <2>2, <2>3 DEF RefuseToRead, AppendFails
  <2>4. ASSUME NEW d \in Call,
               \/ AppendRunEvent(d) \/ Save(d) \/ Exists(d) \/ WriteTemporary(d) \/ Rename(d)
               \/ RenameFails(d) \/ PutFails(d) \/ ReadRunEvents(d) \/ AppendFile(d)
        PROVE  FALSE
    BY <1>1, <2>1, <2>4
       DEF AppendRunEvent, Save, Exists, WriteTemporary, Rename, RenameFails, PutFails,
           ReadRunEvents, AppendFile, Stored
  <2>5. ~Kill /\ ~Restart /\ ~UNCHANGED vars
    BY <1>1, <2>1 DEF Kill, AllDead, Restart, vars
  <2>6. QED
    BY <1>1, <2>3, <2>4, <2>5 DEF Next, Step
<1>2. IInv /\ [Next]_vars =>
          [\A c \in Call : pc[c] \in {"queued", "append"} /\ pc'[c] = "failed" =>
              HasTurn(c) /\ (faults' > faults \/ ~Readable(File(c)))]_vars
  BY <1>1
<1>3. QED
  BY <1>2, Soundness, PTL DEF Spec, FailuresDoNotSpread

-----------------------------------------------------------------------------
(* What EventsIn computes, which a recursive function of its own defines   *)
(* for each file.                                                          *)

LEMMA Least ==
    ASSUME NEW T, T \subseteq Nat, T # {}
    PROVE  \E n \in T : \A m \in T : n <= m
<1> DEFINE R == {ss \in Nat \X Nat : ss[1] < ss[2]}
<1>1. IsWellFoundedOn(R, Nat)
  BY NatLessThanWellFounded DEF OpToRel
<1>2. \A m, n \in Nat : m < n => <<m, n>> \in R
  OBVIOUS
<1> HIDE DEF R
<1>3. PICK n \in T : \A m \in T : ~ (<<m, n>> \in R)
  BY <1>1, WFMin
<1>4. \A m \in T : ~ (m < n)
  BY <1>2, <1>3
<1>5. \A m \in T : m \in Nat /\ n \in Nat
  BY <1>3
<1>6. QED
  BY <1>3, <1>4, <1>5

(* Induction on the members of a set, up to a bound.                       *)
LEMMA AllUpTo ==
    ASSUME NEW n \in Nat, NEW S, 0 \in S, \A i \in 1 .. n : i - 1 \in S => i \in S
    PROVE  0 .. n \subseteq S
<1> DEFINE T == (0 .. n) \ S
<1> SUFFICES ASSUME T # {} PROVE FALSE
  OBVIOUS
<1>1. PICK i \in T : \A m \in T : i <= m
  <2>1. T \subseteq Nat
    OBVIOUS
  <2> HIDE DEF T
  <2>2. QED
    BY <2>1, Least
<1>2. i \in 1 .. n /\ i \notin S
  BY <1>1
<1>3. i - 1 \in 0 .. n /\ i - 1 \notin T
  BY <1>1, <1>2
<1>4. QED
  BY <1>2, <1>3

(* F[i] holds the events of the first i lines.                             *)
Taken(F, lines, i) ==
    IF i = 0 THEN <<>>
    ELSE IF lines[i].end = "cut" THEN F[i - 1]
    ELSE Append(F[i - 1], lines[i].call)

Takes(F, lines) == F = [i \in 0 .. Len(lines) |-> Taken(F, lines, i)]

LEMMA TakenAlike ==
    ASSUME NEW lines, Len(lines) \in Nat, NEW F, Takes(F, lines),
           NEW G, \A i \in 0 .. Len(lines) : G[i] = Taken(G, lines, i)
    PROVE  \A i \in 0 .. Len(lines) : F[i] = G[i]
<1> DEFINE S == {i \in 0 .. Len(lines) : F[i] = G[i]}
<1>1. \A i \in 0 .. Len(lines) : F[i] = Taken(F, lines, i)
  BY DEF Takes
<1>2. 0 \in S
  BY <1>1 DEF Taken
<1>3. ASSUME NEW i \in 1 .. Len(lines), i - 1 \in S
      PROVE  i \in S
  BY <1>1, <1>3 DEF Taken
<1>4. 0 .. Len(lines) \subseteq S
  <2> HIDE DEF S
  <2>1. QED
    BY <1>2, <1>3, AllUpTo
<1>5. QED
  BY <1>4

LEMMA LongerTakes ==
    ASSUME NEW lines \in Seq(Event), NEW e \in Event, NEW F, Takes(F, lines)
    PROVE  \E G : Takes(G, Append(lines, e))
<1> DEFINE longer == Append(lines, e)
           n == Len(lines)
           last == IF e.end = "cut" THEN F[n] ELSE Append(F[n], e.call)
           G == [i \in 0 .. n + 1 |-> IF i = n + 1 THEN last ELSE F[i]]
<1>1. /\ n \in Nat /\ Len(longer) = n + 1 /\ longer[n + 1] = e
      /\ \A i \in 1 .. n : longer[i] = lines[i]
  OBVIOUS
<1>2. ASSUME NEW i \in 0 .. n + 1
      PROVE  G[i] = Taken(G, longer, i)
  <2>1. CASE i = n + 1
    <3>1. G[n] = F[n] /\ i - 1 = n /\ i # 0 /\ longer[i] = e /\ G[i] = last
      BY <1>1, <2>1
    <3> HIDE DEF G, longer, n
    <3>2. QED
      BY <3>1 DEF Taken
  <2>2. CASE i \in 1 .. n
    <3>1. /\ G[i] = F[i] /\ G[i - 1] = F[i - 1] /\ i # 0 /\ longer[i] = lines[i]
          /\ F[i] = Taken(F, lines, i)
      BY <1>1, <2>2 DEF Takes
    <3> HIDE DEF G, longer, n
    <3>2. QED
      BY <3>1 DEF Taken
  <2>3. CASE i = 0
    <3>1. G[0] = F[0] /\ F[0] = Taken(F, lines, 0)
      BY <1>1, <2>3 DEF Takes
    <3> HIDE DEF G, longer, n
    <3>2. QED
      BY <2>3, <3>1 DEF Taken
  <2>4. QED
    BY <1>1, <2>1, <2>2, <2>3
<1>3. G = [i \in 0 .. n + 1 |-> Taken(G, longer, i)]
  BY <1>2
<1> HIDE DEF G, longer, n
<1>4. Takes(G, longer)
  BY <1>1, <1>3 DEF Takes
<1>5. QED
  BY <1>4 DEF longer

(* Every file is taken apart by one function.                              *)
LEMMA EveryFileIsTaken ==
    ASSUME NEW lines \in Seq(Event)
    PROVE  \E F : Takes(F, lines) /\ EventsIn(lines) = F[Len(lines)]
<1> DEFINE first(k) == SubSeq(lines, 1, k)
           S == {k \in 0 .. Len(lines) : \E F : Takes(F, first(k))}
<1>1. Len(lines) \in Nat /\ first(Len(lines)) = lines
  OBVIOUS
<1>2. 0 \in S
  <2> DEFINE F == [i \in 0 .. 0 |-> <<>>]
  <2>1. F = [i \in 0 .. 0 |-> Taken(F, first(0), i)]
    BY DEF Taken
  <2>2. Len(first(0)) = 0
    OBVIOUS
  <2> HIDE DEF F
  <2>3. Takes(F, first(0))
    BY <2>1, <2>2 DEF Takes
  <2>4. QED
    BY <1>1, <2>3
<1>3. ASSUME NEW k \in 1 .. Len(lines), k - 1 \in S
      PROVE  k \in S
  <2>1. /\ first(k - 1) \in Seq(Event) /\ lines[k] \in Event
        /\ first(k) = Append(first(k - 1), lines[k])
    OBVIOUS
  <2>2. PICK F : Takes(F, first(k - 1))
    BY <1>3
  <2> HIDE DEF first
  <2>3. \E G : Takes(G, first(k))
    BY <2>1, <2>2, LongerTakes
  <2>4. QED
    BY <2>3
<1>4. 0 .. Len(lines) \subseteq S
  <2> HIDE DEF S
  <2>1. QED
    BY <1>1, <1>2, <1>3, AllUpTo
<1>5. PICK F : Takes(F, lines)
  <2>1. Len(lines) \in S
    BY <1>1, <1>4
  <2> HIDE DEF first
  <2>2. QED
    BY <1>1, <2>1
<1>6. Takes(CHOOSE G : Takes(G, lines), lines)
  BY <1>5
<1>7. EventsIn(lines) = (CHOOSE G : Takes(G, lines))[Len(lines)]
  BY DEF EventsIn, Takes, Taken
<1>8. QED
  BY <1>6, <1>7

(* A file that grows by a whole line has one more event, by a part of a    *)
(* line none.                                                              *)
LEMMA EventsGrow ==
    ASSUME NEW lines \in Seq(Event), NEW e \in Event
    PROVE  EventsIn(Append(lines, e)) =
               IF e.end = "cut" THEN EventsIn(lines) ELSE Append(EventsIn(lines), e.call)
<1> DEFINE longer == Append(lines, e)
           n == Len(lines)
<1>1. /\ n \in Nat /\ Len(longer) = n + 1 /\ longer[n + 1] = e /\ longer \in Seq(Event)
      /\ \A i \in 1 .. n : longer[i] = lines[i]
  OBVIOUS
<1>2. PICK F : Takes(F, lines) /\ EventsIn(lines) = F[n]
  BY EveryFileIsTaken
<1> HIDE DEF longer
<1>3. PICK G : Takes(G, longer) /\ EventsIn(longer) = G[n + 1]
  BY <1>1, EveryFileIsTaken
<1> HIDE DEF n
<1>4. \A i \in 0 .. n + 1 : G[i] = Taken(G, longer, i)
  BY <1>1, <1>3 DEF Takes
<1>5. \A i \in 0 .. n : G[i] = Taken(G, lines, i)
  BY <1>1, <1>4 DEF Taken
<1>6. F[n] = G[n]
  BY <1>1, <1>2, <1>5, TakenAlike DEF n
<1>7. G[n + 1] = IF e.end = "cut" THEN G[n] ELSE Append(G[n], e.call)
  BY <1>1, <1>4 DEF Taken
<1>8. QED
  BY <1>2, <1>3, <1>6, <1>7 DEF longer

(* The events are those of the lines.                                      *)
Written(h, lines) ==
    /\ h \in Seq(Call)
    /\ \A j \in DOMAIN h : \E i \in DOMAIN lines : lines[i].call = h[j]

LEMMA WrittenGrows ==
    ASSUME NEW lines \in Seq(Event), NEW h, Written(h, lines), NEW i \in DOMAIN lines
    PROVE  Written(Append(h, lines[i].call), lines)
<1> DEFINE call == lines[i].call
<1>1. call \in Call /\ h \in Seq(Call)
  <2>1. lines[i] \in Event
    OBVIOUS
  <2>2. QED
    BY <2>1 DEF Event, Written
<1>2. ASSUME NEW j \in DOMAIN Append(h, call)
      PROVE  \E k \in DOMAIN lines : lines[k].call = Append(h, call)[j]
  <2>1. \/ j \in DOMAIN h /\ Append(h, call)[j] = h[j]
        \/ Append(h, call)[j] = call
    <3> HIDE DEF call
    <3>1. QED
      BY <1>1, <1>2
  <2>2. QED
    BY <2>1 DEF Written
<1>3. Append(h, call) \in Seq(Call)
  <2> HIDE DEF call
  <2>1. QED
    BY <1>1
<1>4. QED
  BY <1>2, <1>3 DEF Written

LEMMA EventsAreWritten ==
    ASSUME NEW lines \in Seq(Event)
    PROVE  Written(EventsIn(lines), lines)
<1> DEFINE n == Len(lines)
<1>1. PICK F : Takes(F, lines) /\ EventsIn(lines) = F[n]
  BY EveryFileIsTaken
<1> DEFINE S == {i \in 0 .. n : Written(F[i], lines)}
<1>2. n \in Nat /\ DOMAIN lines = 1 .. n
  OBVIOUS
<1> HIDE DEF n
<1>3. \A i \in 0 .. n : F[i] = Taken(F, lines, i)
  BY <1>1 DEF Takes, n
<1>4. 0 \in S
  <2>1. F[0] = <<>> /\ 0 \in 0 .. n
    BY <1>2, <1>3 DEF Taken
  <2>2. Written(<<>>, lines)
    BY DEF Written
  <2>3. QED
    BY <2>1, <2>2
<1>5. ASSUME NEW i \in 1 .. n, i - 1 \in S
      PROVE  i \in S
  <2>1. Written(F[i - 1], lines) /\ i \in DOMAIN lines /\ i \in 0 .. n /\ i # 0
    BY <1>2, <1>5
  <2>2. F[i] = F[i - 1] \/ F[i] = Append(F[i - 1], lines[i].call)
    BY <1>3, <2>1 DEF Taken
  <2>3. Written(F[i], lines)
    BY <2>1, <2>2, WrittenGrows
  <2>4. QED
    BY <2>1, <2>3
<1>6. 0 .. n \subseteq S
  <2> HIDE DEF S
  <2>1. QED
    BY <1>2, <1>4, <1>5, AllUpTo
<1>7. QED
  BY <1>1, <1>2, <1>6

-----------------------------------------------------------------------------
(* The promise of EventLog.                                                *)

Answered == {"ok", "failed", "dead"}

(* Whoever has no answer yet has no event on file either.                  *)
Unwritten ==
    \A c \in Call : pc[c] \notin Answered =>
        \A r \in Run : \A i \in DOMAIN log[r] : log[r][i].call # c

(* The file of r grows by at most a line, whose call is answered with it.  *)
GrowsAndAnswers(r) ==
    \/ log'[r] = log[r]
    \/ \E c \in Call, e \in LineEnd :
          /\ RunOf[c] = r /\ pc[c] = "append" /\ pc'[c] \in Answered
          /\ log'[r] = Append(log[r], EventOf(c, e)) /\ EventOf(c, e) \in Event

(* An answer is final, and "ok" is said of a whole line just written.      *)
AnswersAreFinal ==
    \A c \in Call :
        /\ pc[c] \in Answered => pc'[c] = pc[c]
        /\ pc'[c] = "ok" /\ pc[c] # "ok" =>
              /\ pc[c] = "append" /\ EventOf(c, "line") \in Event
              /\ log'[RunOf[c]] = Append(log[RunOf[c]], EventOf(c, "line"))

LEMMA EventTyped ==
    ASSUME IInv, NEW c \in Call, NEW e \in LineEnd
    PROVE  EventOf(c, e) \in Event
BY DEF IInv, TypeOK, Position, EventOf, Event

LEMMA RejectionAnswers ==
    ASSUME IInv, NEW c \in Call, pc[c] \in {"queued", "append"}, Rejected(c)
    PROVE  pc'[c] = "failed" /\ \A d \in Call : /\ pc[d] \in Answered => pc'[d] = pc[d]
                                                /\ pc'[d] = "ok" => pc[d] = "ok"
<1>1. pc \in [Call -> Stage]
  BY DEF IInv, TypeOK
<1>2. QED
  BY <1>1 DEF Rejected, AllDead, Answered

LEMMA StepAnswers ==
    ASSUME IInv, [Next]_vars
    PROVE  AnswersAreFinal /\ \A r \in Run : GrowsAndAnswers(r)
<1> USE EvidenceAssumption
<1>1. pc \in [Call -> Stage] /\ log \in [Run -> Seq(Event)]
  BY DEF IInv, TypeOK
<1>2. ASSUME NEW c \in Call,
             \/ AppendRunEvent(c) \/ Save(c) \/ Exists(c) \/ WriteTemporary(c) \/ Rename(c)
             \/ RenameFails(c) \/ PutFails(c) \/ ReadRunEvents(c)
      PROVE  AnswersAreFinal /\ \A r \in Run : GrowsAndAnswers(r)
  <2>1. log' = log /\ pc[c] \notin Answered
    BY <1>2 DEF AppendRunEvent, Save, Exists, WriteTemporary, Rename, RenameFails, PutFails,
                ReadRunEvents, Answered
  <2>2. \E to \in Stage \ {"ok"} : pc' = [pc EXCEPT ![c] = to]
    BY <1>2 DEF AppendRunEvent, Save, Exists, WriteTemporary, Rename, RenameFails, PutFails,
                ReadRunEvents, Stored, Stage
  <2>3. QED
    BY <1>1, <2>1, <2>2 DEF AnswersAreFinal, GrowsAndAnswers
<1>3. ASSUME NEW c \in Call, AppendFile(c)
      PROVE  AnswersAreFinal /\ \A r \in Run : GrowsAndAnswers(r)
  <2>1. /\ pc[c] = "append" /\ pc' = [pc EXCEPT ![c] = "ok"]
        /\ log' = [log EXCEPT ![RunOf[c]] = Append(@, EventOf(c, "line"))]
        /\ "line" \in LineEnd
    BY <1>3 DEF AppendFile, LineEnd
  <2>2. EventOf(c, "line") \in Event
    BY <2>1, EventTyped
  <2>3. QED
    BY <1>1, <2>1, <2>2 DEF AnswersAreFinal, GrowsAndAnswers, Answered
<1>4. ASSUME NEW c \in Call, RefuseToRead(c) \/ AppendFails(c)
      PROVE  AnswersAreFinal /\ \A r \in Run : GrowsAndAnswers(r)
  <2>1. pc[c] \in {"queued", "append"} /\ Rejected(c)
    BY <1>4 DEF RefuseToRead, AppendFails
  <2>2. AnswersAreFinal /\ pc'[c] \in Answered
    BY <2>1, RejectionAnswers DEF AnswersAreFinal, Answered
  <2>3. PICK lines : /\ lines = File(c) \/ (pc[c] = "append" /\ lines \in Remains(c))
                     /\ log' = [log EXCEPT ![RunOf[c]] = lines]
    BY <1>1, <1>4 DEF RefuseToRead, AppendFails, File
  <2>4. lines = File(c) \/ (pc[c] = "append" /\
                            \E e \in LineEnd : lines = Append(File(c), EventOf(c, e)))
    BY <2>3, RemainsGrow
  <2>5. QED
    BY <1>1, <2>2, <2>3, <2>4, EventTyped DEF GrowsAndAnswers, File
<1>5. CASE Kill
  <2>1. \A d \in Call : /\ pc'[d] = IF pc[d] \in {"ok", "failed", "idle"} THEN pc[d] ELSE "dead"
                        /\ pc[d] = "append" => pc'[d] \in Answered
    BY <1>5 DEF Kill, AllDead, Answered
  <2>2. AnswersAreFinal
    BY <2>1 DEF AnswersAreFinal, Answered
  <2>3. ASSUME NEW r \in Run
        PROVE  GrowsAndAnswers(r)
    <3>1. log'[r] \in AfterKill(r)
      BY <1>5 DEF Kill
    <3>2. CASE log'[r] = log[r]
      BY <3>2 DEF GrowsAndAnswers
    <3>3. ASSUME NEW c \in Call, RunOf[c] = r, pc[c] = "append",
                 log'[r] \in Remains(c) \/ log'[r] = Append(log[r], EventOf(c, "line"))
          PROVE  GrowsAndAnswers(r)
      <4>1. log'[r] = log[r] \/ \E e \in LineEnd : log'[r] = Append(log[r], EventOf(c, e))
        BY <3>3, RemainsGrow DEF File, LineEnd
      <4>2. QED
        BY <2>1, <3>3, <4>1, EventTyped DEF GrowsAndAnswers
    <3>4. QED
      BY <3>1, <3>2, <3>3 DEF AfterKill
  <2>4. QED
    BY <2>2, <2>3
<1>6. CASE Restart \/ UNCHANGED vars
  BY <1>6 DEF Restart, vars, AnswersAreFinal, GrowsAndAnswers
<1>7. QED
  BY <1>2, <1>3, <1>4, <1>5, <1>6 DEF Next, Step

LEMMA UnwrittenKept ==
    ASSUME IInv, Unwritten, [Next]_vars
    PROVE  Unwritten'
<1> SUFFICES ASSUME NEW c \in Call, pc'[c] \notin Answered, NEW r \in Run,
                    NEW i \in DOMAIN log'[r]
             PROVE  log'[r][i].call # c
  BY DEF Unwritten
<1>1. log[r] \in Seq(Event) /\ pc[c] \notin Answered
  BY StepAnswers DEF AnswersAreFinal, IInv, TypeOK
<1>2. CASE log'[r] = log[r]
  BY <1>1, <1>2 DEF Unwritten
<1>3. ASSUME NEW d \in Call, NEW e \in LineEnd, pc'[d] \in Answered,
             log'[r] = Append(log[r], EventOf(d, e)), EventOf(d, e) \in Event
      PROVE  log'[r][i].call # c
  <2>1. \/ i \in DOMAIN log[r] /\ log'[r][i] = log[r][i]
        \/ log'[r][i] = EventOf(d, e)
    <3> DEFINE event == EventOf(d, e)
    <3>1. log'[r] = Append(log[r], event) /\ event \in Event
      BY <1>3
    <3> HIDE DEF event
    <3>2. \/ i \in DOMAIN log[r] /\ log'[r][i] = log[r][i]
          \/ log'[r][i] = event
      BY <1>1, <3>1
    <3>3. QED
      BY <3>2 DEF event
  <2>2. EventOf(d, e).call = d /\ d # c
    BY <1>3 DEF EventOf
  <2>3. QED
    BY <1>1, <2>1, <2>2 DEF Unwritten
<1>4. QED
  BY <1>2, <1>3, StepAnswers DEF GrowsAndAnswers

LEMMA UnwrittenInit == Init => Unwritten
BY DEF Init, Unwritten

(* What the variables of EventLog stand for.                               *)
Chain == [r \in Run |-> EventsIn(log[r])]
Answer == [c \in Call |-> IF pc[c] \in {"ok", "failed", "dead"} THEN pc[c] ELSE "none"]

LEMMA PromiseInit == Init => Promised!Init
<1> SUFFICES ASSUME Init PROVE Promised!Init
  OBVIOUS
<1>1. \A r \in Run : EventsIn(log[r]) = <<>>
  <2> SUFFICES ASSUME NEW r \in Run PROVE EventsIn(log[r]) = <<>>
    OBVIOUS
  <2>1. log[r] \in Seq(Event) /\ DOMAIN log[r] = {}
    BY DEF Init
  <2>2. EventsIn(log[r]) \in Seq(Call) /\ DOMAIN EventsIn(log[r]) = {}
    BY <2>1, EventsAreWritten DEF Written
  <2>3. QED
    BY <2>2
<1>2. QED
  BY <1>1 DEF Init, Promised!Init

(* A file that grows by a line makes the chain of its run grow by one.     *)
LEMMA PromisedGrowth ==
    ASSUME IInv, Unwritten, [Next]_vars, NEW r \in Run
    PROVE  \/ EventsIn(log'[r]) = EventsIn(log[r])
           \/ \E c \in Call : /\ RunOf[c] = r /\ pc[c] \notin Answered
                              /\ \A j \in DOMAIN EventsIn(log[r]) : EventsIn(log[r])[j] # c
                              /\ EventsIn(log'[r]) = Append(EventsIn(log[r]), c)
<1>1. log[r] \in Seq(Event)
  BY DEF IInv, TypeOK
<1>2. ASSUME NEW c \in Call, NEW e \in LineEnd, RunOf[c] = r, pc[c] = "append",
             log'[r] = Append(log[r], EventOf(c, e)), EventOf(c, e) \in Event
      PROVE  \/ EventsIn(log'[r]) = EventsIn(log[r])
             \/ /\ pc[c] \notin Answered
                /\ \A j \in DOMAIN EventsIn(log[r]) : EventsIn(log[r])[j] # c
                /\ EventsIn(log'[r]) = Append(EventsIn(log[r]), c)
  <2>1. \A i \in DOMAIN log[r] : log[r][i].call # c
    BY <1>2 DEF Unwritten, Answered
  <2>2. \A j \in DOMAIN EventsIn(log[r]) : EventsIn(log[r])[j] # c
    BY <1>1, <2>1, EventsAreWritten DEF Written
  <2>3. EventOf(c, e).call = c
    BY DEF EventOf
  <2>4. EventsIn(log'[r]) = EventsIn(log[r]) \/ EventsIn(log'[r]) = Append(EventsIn(log[r]), c)
    BY <1>1, <1>2, <2>3, EventsGrow
  <2>5. QED
    BY <1>2, <2>2, <2>4 DEF Answered
<1>3. QED
  BY <1>2, StepAnswers DEF GrowsAndAnswers

LEMMA PromisedAnswer ==
    ASSUME IInv, [Next]_vars, NEW c \in Call, pc'[c] = "ok", pc[c] # "ok"
    PROVE  \E j \in DOMAIN EventsIn(log'[RunOf[c]]) : EventsIn(log'[RunOf[c]])[j] = c
<1> DEFINE r == RunOf[c]
           event == EventOf(c, "line")
           events == EventsIn(log[r])
<1>1. log'[r] = Append(log[r], event) /\ event \in Event
  BY StepAnswers DEF AnswersAreFinal
<1>2. log[r] \in Seq(Event)
  BY EvidenceAssumption DEF IInv, TypeOK
<1>3. event.call = c /\ event.end = "line"
  BY DEF EventOf
<1> HIDE DEF event, events, r
<1>4. EventsIn(log'[r]) = Append(events, c) /\ events \in Seq(Call)
  BY <1>1, <1>2, <1>3, EventsGrow, EventsAreWritten DEF events, Written
<1>5. Len(events) + 1 \in DOMAIN Append(events, c) /\ Append(events, c)[Len(events) + 1] = c
  BY <1>4
<1>6. QED
  BY <1>4, <1>5 DEF r

LEMMA PromiseStep ==
    ASSUME IInv, Unwritten, [Next]_vars
    PROVE  Promised!Next
<1> USE EvidenceAssumption
<1>1. \A r \in Run : Chain[r] = EventsIn(log[r]) /\ Chain'[r] = EventsIn(log'[r])
  BY DEF Chain
<1>2. \A c \in Call : /\ Answer[c] = IF pc[c] \in Answered THEN pc[c] ELSE "none"
                      /\ Answer'[c] = IF pc'[c] \in Answered THEN pc'[c] ELSE "none"
                      /\ RunOf[c] \in Run
  BY DEF Answer, Answered
<1>3. ASSUME NEW r \in Run
      PROVE  \/ Chain'[r] = Chain[r]
             \/ \E c \in Call : /\ RunOf[c] = r /\ Answer[c] = "none"
                                /\ ~ \E j \in DOMAIN Chain[RunOf[c]] : Chain[RunOf[c]][j] = c
                                /\ Chain'[r] = Append(Chain[r], c)
  BY <1>1, <1>2, PromisedGrowth
<1>4. ASSUME NEW c \in Call
      PROVE  \/ Answer'[c] = Answer[c]
             \/ /\ Answer[c] = "none"
                /\ Answer'[c] = "ok" => \E j \in DOMAIN Chain'[RunOf[c]] : Chain'[RunOf[c]][j] = c
  <2>1. CASE pc[c] \in Answered
    BY <1>2, <2>1, StepAnswers DEF AnswersAreFinal
  <2>2. CASE pc[c] \notin Answered /\ pc'[c] = "ok"
    BY <1>1, <1>2, <2>2, PromisedAnswer DEF Answered
  <2>3. CASE pc[c] \notin Answered /\ pc'[c] # "ok"
    BY <1>2, <2>3 DEF Answered
  <2>4. QED
    BY <2>1, <2>2, <2>3
<1>5. \A r \in Run : Promised!Grows(r)
  BY <1>3 DEF Promised!Grows, Promised!Has, Chain, Answer
<1>6. \A c \in Call : Promised!Answers(c)
  BY <1>4 DEF Promised!Answers, Promised!Has, Chain, Answer
<1>7. QED
  BY <1>5, <1>6 DEF Promised!Next

(* The store keeps the promise of EventLog for any number of runs, calls,  *)
(* failures and kills: the events on file grow at the end only, by one     *)
(* event of a call without an answer, and a caller told "ok" has its event *)
(* among them (appendRunEvent, readRunEvents).                             *)
THEOREM StoreImplementsEventLog == Spec => ImplementsEventLog
<1>1. Init => Unwritten /\ Promised!Init
  BY UnwrittenInit, PromiseInit
<1>2. IInv /\ Unwritten /\ [Next]_vars => Unwritten' /\ [Promised!Next]_(Promised!vars)
  BY UnwrittenKept, PromiseStep
<1>3. QED
  BY <1>1, <1>2, Soundness, PTL DEF Spec, ImplementsEventLog, Promised!Spec
=============================================================================
