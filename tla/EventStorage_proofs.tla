-------------------------- MODULE EventStorage_proofs --------------------------
(***************************************************************************)
(* The promises of the event storage, for every number of workers,         *)
(* crossings, attempts, faults and crashes: rows have both images, what an *)
(* engine takes for persisted is, nothing is forgotten on the disk, and    *)
(* the storage implements the event store of EventStore.                   *)
(***************************************************************************)
EXTENDS EventStorage, TLAPS

\* The steps at which a worker has an event of its own.
Writing == {"make", "frame", "crop", "rename", "insert", "undo", "lost", "winner"}

WorkerOK(w) ==
  /\ id[w] # NoId <=> pc[w] \in Writing
  /\ pc[w] \in Working => key[w] \in Keys
  /\ pc[w] = "wait" => attempt[w] < MaxAttempts
  /\ pc[w] \in Writing => row[id[w]] = NoKey
  /\ pc[w] = "make" => name[id[w]] = "none"
  /\ pc[w] = "insert" => name[id[w]] = "final"
  /\ pc[w] = "crop" => "frame" \in images[id[w]]
  /\ pc[w] \in {"rename", "insert"} => images[id[w]] = Images
  /\ pc[w] = "winner" => name[id[w]] = "none" \/ id[w] \in left

\* No two workers write the same event.
OwnEvents == \A v, w \in Workers : id[v] = id[w] /\ id[v] # NoId => v = w

RowsOK == \A e \in Ids : row[e] # NoKey => name[e] = "final" /\ images[e] = Images

\* Who answers for a directory without a row.
Answered ==
  /\ service = "up" =>
       \A e \in Ids : row[e] = NoKey /\ name[e] # "none" =>
         e \in left \/ \E w \in Workers : id[w] = e
  /\ service = "scan" =>
       /\ known = {e \in Ids : row[e] # NoKey}
       /\ \A e \in Ids : row[e] = NoKey /\ name[e] # "none" => e \in todo \cup left
  /\ service # "up" => \A w \in Workers : pc[w] = "idle" /\ fired[w] = {}

IInv ==
  /\ TypeOK /\ (\A w \in Workers : WorkerOK(w)) /\ OwnEvents /\ RowsOK
  /\ Answered /\ FiredIsRecorded

\* Nothing is stored and no worker has a crossing.
LEMMA Initially == Init => IInv
<1> SUFFICES ASSUME Init PROVE IInv OBVIOUS
<1>1. TypeOK
  BY NumbersAreNatural, NothingIsAValue DEF Init, Idle, TypeOK, Row, Dirs
<1> QED
  BY <1>1, NothingIsAValue
     DEF Init, Idle, IInv, WorkerOK, Writing, Working, OwnEvents, RowsOK, Answered, FiredIsRecorded

-----------------------------------------------------------------------------
\* What a step of one worker has to show: of itself, and of its own event.
LEMMA WorkerStep ==
  ASSUME IInv, NEW w \in Workers, service = "up", service' = "up", TypeOK',
         \A v \in Workers : v # w =>
           /\ pc'[v] = pc[v] /\ key'[v] = key[v] /\ id'[v] = id[v]
           /\ fired'[v] = fired[v] /\ attempt'[v] = attempt[v],
         \A e \in Ids : e # id[w] =>
           /\ row'[e] = row[e] /\ name'[e] = name[e] /\ images'[e] = images[e]
           /\ e \in left => e \in left',
         WorkerOK(w)',
         id'[w] \in {id[w], NoId} \/ \A v \in Workers : id[v] # id'[w],
         \A k \in fired'[w] : Recorded(k)',
         id[w] # NoId /\ row'[id[w]] # NoKey =>
           name'[id[w]] = "final" /\ images'[id[w]] = Images,
         id[w] # NoId /\ row'[id[w]] = NoKey /\ name'[id[w]] # "none" =>
           id'[w] = id[w] \/ id[w] \in left'
  PROVE  IInv'
<1>1. \A v \in Workers : v # w /\ id[v] # NoId => id[v] # id[w] /\ id[v] \in Ids
  BY NothingIsAValue DEF IInv, OwnEvents, TypeOK
<1>2. \A e \in Ids : row[e] # NoKey => row'[e] = row[e]
  <2>1. WorkerOK(w)
    BY DEF IInv
  <2>2. \A e \in Ids : e = id[w] => row[e] = NoKey
    BY <2>1, NothingIsAValue DEF WorkerOK
  <2> QED BY <2>2
<1>3. \A v \in Workers : WorkerOK(v)'
  <2> SUFFICES ASSUME NEW v \in Workers, v # w PROVE WorkerOK(v)'
    OBVIOUS
  <2>1. WorkerOK(v) /\ (pc[v] \in Writing => id[v] \in Ids /\ id[v] # id[w])
    BY <1>1 DEF IInv, WorkerOK
  <2> QED BY <2>1 DEF WorkerOK, Writing
<1>4. OwnEvents'
  BY <1>1 DEF IInv, OwnEvents
<1>5. RowsOK'
  BY NothingIsAValue DEF IInv, RowsOK
<1>6. FiredIsRecorded'
  <2> SUFFICES ASSUME NEW v \in Workers, v # w, NEW k \in fired[v] PROVE Recorded(k)'
    BY DEF FiredIsRecorded
  <2>1. k \in Keys /\ Recorded(k)
    BY DEF IInv, FiredIsRecorded, TypeOK
  <2> QED BY <1>2, <2>1, NothingIsAValue DEF Recorded
<1>7. Answered'
  <2> SUFFICES ASSUME NEW e \in Ids, row'[e] = NoKey, name'[e] # "none"
               PROVE  e \in left' \/ \E v \in Workers : id'[v] = e
    BY DEF Answered
  <2>1. CASE e = id[w]
    BY <2>1, NothingIsAValue
  <2>2. CASE e # id[w]
    <3>1. e \in left \/ \E v \in Workers : v # w /\ id[v] = e
      BY <2>2 DEF IInv, Answered
    <3> QED BY <2>2, <3>1
  <2> QED BY <2>1, <2>2
<1> QED BY <1>3, <1>4, <1>5, <1>6, <1>7 DEF IInv
-----------------------------------------------------------------------------
\* The effect of leaving a crossing, and of a failed attempt, on the worker.
LEMMA AfterLeave ==
  ASSUME TypeOK, NEW w \in Workers, NEW step \in {"idle", "ended"}, Leave(w, step)
  PROVE  /\ pc' \in [Workers -> {"idle", "ended"} \cup Working]
         /\ key' \in [Workers -> Row] /\ id' \in [Workers -> Ids \cup {NoId}]
         /\ crop' \in [Workers -> BOOLEAN] /\ attempt' \in [Workers -> 0..MaxAttempts]
         /\ id'[w] = NoId /\ pc'[w] = step
         /\ \A v \in Workers : v # w =>
              /\ pc'[v] = pc[v] /\ key'[v] = key[v] /\ id'[v] = id[v]
              /\ attempt'[v] = attempt[v]
BY NumbersAreNatural DEF TypeOK, Goto, Leave, Row

\* A failed attempt is followed by another one or by the end of the worker.
LEMMA AfterAttempt ==
  ASSUME TypeOK, NEW w \in Workers, AttemptFails(w)
  PROVE  /\ pc' \in [Workers -> {"idle", "ended"} \cup Working]
         /\ key' \in [Workers -> Row] /\ id' \in [Workers -> Ids \cup {NoId}]
         /\ crop' \in [Workers -> BOOLEAN] /\ attempt' \in [Workers -> 0..MaxAttempts]
         /\ id'[w] = NoId /\ pc'[w] \in {"wait", "ended"}
         /\ pc'[w] = "wait" => key'[w] = key[w] /\ attempt'[w] < MaxAttempts
         /\ \A v \in Workers : v # w =>
              /\ pc'[v] = pc[v] /\ key'[v] = key[v] /\ id'[v] = id[v]
              /\ attempt'[v] = attempt[v]
<1>1. CASE Leave(w, "ended")
  BY <1>1, AfterLeave
<1>2. CASE /\ attempt[w] < MaxAttempts /\ Goto(w, "wait")
           /\ id' = [id EXCEPT ![w] = NoId] /\ UNCHANGED <<key, crop, attempt>>
  BY <1>2 DEF TypeOK, Goto, Working
<1> QED BY <1>1, <1>2 DEF AttemptFails

\* A worker without an event, or whose event is gone, is in order.
LEMMA Released ==
  ASSUME NEW w \in Workers, id'[w] = NoId,
         pc'[w] \in {"idle", "ended", "wait", "lookup"},
         pc'[w] \in {"wait", "lookup"} => key'[w] \in Keys,
         pc'[w] = "wait" => attempt'[w] < MaxAttempts
  PROVE  WorkerOK(w)'
BY DEF WorkerOK, Writing, Working

\* Workers without a crossing, and between attempts.
LEMMA QuietSteps ==
  ASSUME IInv, NEW w \in Workers,
         \/ \E k \in Keys, usable \in BOOLEAN : Observe(w, k, usable)
         \/ \E k \in Keys : Prune(w, k)
         \/ RequestStop(w) \/ Stops(w) \/ Retry(w) \/ StartWorker(w)
  PROVE  IInv'
<1> USE DEF IInv
<1>0. WorkerOK(w) /\ TypeOK /\ (\A k \in fired[w] : Recorded(k))
  BY DEF FiredIsRecorded
<1>1. ASSUME NEW k \in Keys, NEW usable \in BOOLEAN, Observe(w, k, usable) PROVE IInv'
  <2>1. TypeOK'
    BY <1>0, <1>1, NumbersAreNatural DEF Observe, TypeOK, Goto, Working, Row, disk, boot, bounds
  <2>2. /\ service = "up" /\ service' = "up" /\ pc[w] = "idle" /\ pc'[w] = "lookup"
        /\ UNCHANGED <<row, name, images, left, id, fired>> /\ key'[w] = k
        /\ \A v \in Workers : v # w =>
             pc'[v] = pc[v] /\ key'[v] = key[v] /\ attempt'[v] = attempt[v]
    BY <1>0, <1>1 DEF Observe, TypeOK, At, Goto, disk, boot
  <2>3. id[w] = NoId
    BY <1>0, <2>2 DEF WorkerOK, Writing
  <2>4. WorkerOK(w)'
    BY <2>2, <2>3, Released
  <2> QED BY <1>0, <2>1, <2>2, <2>3, <2>4, WorkerStep DEF Recorded
<1>2. ASSUME NEW k \in Keys, Prune(w, k) PROVE IInv'
  <2>1. TypeOK'
    BY <1>0, <1>2 DEF Prune, TypeOK, disk, boot, bounds
  <2>2. /\ service = "up" /\ service' = "up"
        /\ UNCHANGED <<row, name, images, left, id, pc, key, attempt>>
        /\ fired'[w] \subseteq fired[w]
        /\ \A v \in Workers : v # w => fired'[v] = fired[v]
    BY <1>0, <1>2 DEF Prune, TypeOK, At, disk, boot
  <2>3. WorkerOK(w)'
    BY <1>0, <2>2 DEF WorkerOK
  <2>4. id[w] # NoId => id[w] \in Ids
    BY <1>0 DEF TypeOK
  <2> QED BY <1>0, <2>1, <2>2, <2>3, <2>4, WorkerStep DEF Recorded, WorkerOK
<1>3. CASE RequestStop(w)
  <2>1. TypeOK'
    BY <1>0, <1>3 DEF RequestStop, TypeOK, disk, boot, bounds
  <2>2. /\ service = "up" /\ service' = "up"
        /\ UNCHANGED <<row, name, images, left, id, pc, key, attempt, fired>>
    BY <1>3 DEF RequestStop, disk, boot
  <2>3. WorkerOK(w)'
    BY <1>0, <2>2 DEF WorkerOK
  <2> QED BY <1>0, <2>1, <2>2, <2>3, WorkerStep DEF Recorded, WorkerOK
<1>4. CASE Stops(w)
  <2>1. /\ service = "up" /\ service' = "up" /\ pc[w] \in {"idle", "wait"}
        /\ UNCHANGED <<row, name, images, left, fired, stopping, known, todo, faults, crashes>>
        /\ Leave(w, "ended")
    BY <1>4 DEF Stops, At, disk, boot, bounds
  <2>2. /\ TypeOK' /\ id'[w] = NoId /\ pc'[w] = "ended"
        /\ \A v \in Workers : v # w =>
             pc'[v] = pc[v] /\ key'[v] = key[v] /\ id'[v] = id[v] /\ attempt'[v] = attempt[v]
    BY <1>0, <2>1, AfterLeave DEF TypeOK
  <2>3. id[w] = NoId
    BY <1>0, <2>1 DEF WorkerOK, Writing
  <2>4. WorkerOK(w)'
    BY <2>2, Released
  <2> QED BY <1>0, <2>1, <2>2, <2>3, <2>4, WorkerStep DEF Recorded
<1>5. CASE Retry(w)
  <2>1. attempt[w] < MaxAttempts /\ attempt[w] \in 0..MaxAttempts /\ key[w] \in Keys
    BY <1>0, <1>5 DEF Retry, At, WorkerOK, TypeOK, Working
  <2>2. attempt[w] + 1 \in 0..MaxAttempts
    BY <2>1, NumbersAreNatural
  <2>3. TypeOK'
    BY <1>0, <1>5, <2>2 DEF Retry, TypeOK, Goto, Working, disk, boot, bounds
  <2>4. /\ service = "up" /\ service' = "up" /\ pc[w] = "wait" /\ pc'[w] = "lookup"
        /\ UNCHANGED <<row, name, images, left, id, fired, key>>
        /\ \A v \in Workers : v # w => pc'[v] = pc[v] /\ attempt'[v] = attempt[v]
    BY <1>0, <1>5 DEF Retry, TypeOK, At, Goto, disk, boot
  <2>5. id[w] = NoId
    BY <1>0, <2>4 DEF WorkerOK, Writing
  <2>6. WorkerOK(w)'
    BY <2>1, <2>4, <2>5, Released
  <2> QED BY <1>0, <2>3, <2>4, <2>5, <2>6, WorkerStep DEF Recorded
<1>6. CASE StartWorker(w)
  <2>1. TypeOK'
    BY <1>0, <1>6 DEF StartWorker, TypeOK, Goto, disk, boot, bounds
  <2>2. /\ service = "up" /\ service' = "up" /\ pc[w] = "ended" /\ pc'[w] = "idle"
        /\ UNCHANGED <<row, name, images, left, id, key, attempt>> /\ fired'[w] = {}
        /\ \A v \in Workers : v # w => pc'[v] = pc[v] /\ fired'[v] = fired[v]
    BY <1>0, <1>6 DEF StartWorker, TypeOK, At, Goto, disk, boot
  <2>3. id[w] = NoId
    BY <1>0, <2>2 DEF WorkerOK, Writing
  <2>4. WorkerOK(w)'
    BY <2>2, <2>3, Released
  <2> QED BY <1>0, <2>1, <2>2, <2>3, <2>4, WorkerStep
<1> QED BY <1>1, <1>2, <1>3, <1>4, <1>5, <1>6
\* commit_event ends with an answer: what it marks as persisted is recorded.
LEMMA AnswerSteps ==
  ASSUME IInv, NEW w \in Workers,
         LookupFinds(w) \/ InvalidCrop(w) \/ Insert(w) \/ FindWinner(w)
  PROVE  IInv'
<1>1. /\ TypeOK /\ WorkerOK(w) /\ Leave(w, "idle") /\ service = "up" /\ service' = "up"
      /\ UNCHANGED <<name, images, stopping, known, todo, faults, crashes, left>>
      /\ pc[w] \in {"lookup", "insert", "winner"}
  BY DEF IInv, LookupFinds, InvalidCrop, Insert, FindWinner, Answer, At, disk, boot, bounds
<1>2. /\ pc' \in [Workers -> {"idle", "ended"} \cup Working]
      /\ key' \in [Workers -> Row] /\ id' \in [Workers -> Ids \cup {NoId}]
      /\ crop' \in [Workers -> BOOLEAN] /\ attempt' \in [Workers -> 0..MaxAttempts]
      /\ id'[w] = NoId /\ pc'[w] = "idle"
      /\ \A v \in Workers : v # w =>
           pc'[v] = pc[v] /\ key'[v] = key[v] /\ id'[v] = id[v] /\ attempt'[v] = attempt[v]
  BY <1>1, AfterLeave
<1>3. key[w] \in Keys /\ (pc[w] = "insert" => id[w] \in Ids)
  BY <1>1 DEF WorkerOK, Working, Writing, TypeOK
<1>4. WorkerOK(w)'
  BY <1>2, Released
<1>5. \/ /\ row' = row /\ pc[w] # "insert" /\ Recorded(key[w])
         /\ fired' = [fired EXCEPT ![w] = @ \cup {key[w]}]
      \/ row' = row /\ pc[w] = "lookup" /\ fired' = fired
      \/ /\ row' = [row EXCEPT ![id[w]] = key[w]] /\ pc[w] = "insert"
         /\ fired' = [fired EXCEPT ![w] = @ \cup {key[w]}]
  BY DEF LookupFinds, InvalidCrop, Insert, FindWinner, Answer, At
<1>6. TypeOK'
  BY <1>1, <1>2, <1>3, <1>5 DEF TypeOK, Row
<1>7. /\ \A e \in Ids : row'[e] = row[e] \/ (pc[w] = "insert" /\ e = id[w] /\ row'[e] = key[w])
      /\ \A v \in Workers : v # w => fired'[v] = fired[v]
  BY <1>1, <1>5 DEF TypeOK
<1>8. \A k \in fired'[w] : Recorded(k)'
  <2> SUFFICES ASSUME NEW k \in fired'[w] PROVE \E e \in Ids : row'[e] = k
    BY DEF Recorded
  <2>1. k \in fired[w] \/ k = key[w]
    BY <1>1, <1>5 DEF TypeOK
  <2>2. CASE k \in fired[w]
    <3>1. PICK e \in Ids : row[e] = k /\ k # NoKey
      BY <1>1, <2>2, NothingIsAValue DEF IInv, FiredIsRecorded, Recorded, TypeOK
    <3>2. row[e] # NoKey => row'[e] = row[e]
      BY <1>1, <1>7 DEF WorkerOK, Writing
    <3> QED BY <3>1, <3>2
  <2>3. CASE k \notin fired[w] /\ k = key[w]
    <3>1. CASE pc[w] = "insert"
      BY <1>1, <1>3, <1>5, <2>3, <3>1 DEF TypeOK
    <3>2. CASE pc[w] # "insert"
      BY <1>5, <2>3, <3>2 DEF Recorded
    <3> QED BY <3>1, <3>2
  <2> QED BY <2>1, <2>2, <2>3
<1>9. /\ id[w] # NoId /\ row'[id[w]] # NoKey =>
           name'[id[w]] = "final" /\ images'[id[w]] = Images
      /\ id[w] # NoId /\ row'[id[w]] = NoKey /\ name'[id[w]] # "none" => id[w] \in left'
  <2>1. CASE pc[w] = "lookup"
    BY <1>1, <2>1 DEF WorkerOK, Writing
  <2>2. CASE pc[w] = "insert"
    <3>1. row'[id[w]] = key[w] /\ key[w] # NoKey
      BY <1>1, <1>3, <1>5, <2>2, NothingIsAValue DEF TypeOK
    <3> QED BY <1>1, <2>2, <3>1 DEF WorkerOK
  <2>3. CASE pc[w] = "winner"
    <3>1. row'[id[w]] = NoKey
      BY <1>1, <1>5, <2>3 DEF WorkerOK, Writing
    <3> QED BY <1>1, <2>3, <3>1 DEF WorkerOK
  <2> QED BY <1>1, <2>1, <2>2, <2>3
<1>10. \A e \in Ids : e # id[w] =>
         row'[e] = row[e] /\ name'[e] = name[e] /\ images'[e] = images[e] /\ (e \in left => e \in left')
  BY <1>1, <1>7
<1> QED BY <1>1, <1>2, <1>4, <1>6, <1>7, <1>8, <1>9, <1>10, WorkerStep

\* An attempt fails, before it has a directory, after its clean-up, or because
\* the winner of a conflict cannot be found.
LEMMA FailedAttempts ==
  ASSUME IInv, NEW w \in Workers, EarlyFailure(w) \/ Undo(w) \/ WinnerFails(w)
  PROVE  IInv'
<1>1. /\ TypeOK /\ WorkerOK(w) /\ AttemptFails(w) /\ service = "up" /\ service' = "up"
      /\ UNCHANGED <<row, fired, stopping, known, todo, crashes>>
      /\ pc[w] \in {"lookup", "make", "undo", "winner"}
  BY DEF IInv, EarlyFailure, Undo, WinnerFails, At, disk, boot, bounds
<1>2. /\ pc' \in [Workers -> {"idle", "ended"} \cup Working]
      /\ key' \in [Workers -> Row] /\ id' \in [Workers -> Ids \cup {NoId}]
      /\ crop' \in [Workers -> BOOLEAN] /\ attempt' \in [Workers -> 0..MaxAttempts]
      /\ id'[w] = NoId /\ pc'[w] \in {"wait", "ended"}
      /\ pc'[w] = "wait" => key'[w] = key[w] /\ attempt'[w] < MaxAttempts
      /\ \A v \in Workers : v # w =>
           pc'[v] = pc[v] /\ key'[v] = key[v] /\ id'[v] = id[v] /\ attempt'[v] = attempt[v]
  BY <1>1, AfterAttempt
<1>3. key[w] \in Keys /\ WorkerOK(w)'
  BY <1>1, <1>2, Released DEF WorkerOK, Working
<1>4. id[w] # NoId => id[w] \in Ids /\ row[id[w]] = NoKey
  BY <1>1 DEF TypeOK, WorkerOK
<1>5. \/ /\ UNCHANGED <<name, images, left>> /\ pc[w] # "undo"
         /\ faults' = faults \/ (faults < MaxFaults /\ faults' = faults + 1)
      \/ pc[w] = "undo" /\ Cleanup(id[w])
  BY DEF EarlyFailure, Undo, WinnerFails, At, disk, bounds, Fault
<1>6. pc[w] = "undo" => id[w] \in Ids
  BY <1>1 DEF WorkerOK, Writing, TypeOK
<1>7. /\ name' \in [Ids -> Dirs] /\ images' \in [Ids -> SUBSET Images]
      /\ left' \in SUBSET Ids /\ faults' \in 0..MaxFaults
      /\ \A e \in Ids : e # id[w] =>
           name'[e] = name[e] /\ images'[e] = images[e] /\ (e \in left => e \in left')
      /\ pc[w] = "undo" => name'[id[w]] = "none" \/ id[w] \in left'
      /\ pc[w] # "undo" => UNCHANGED <<name, left>>
  BY <1>1, <1>5, <1>6, NumbersAreNatural
     DEF TypeOK, Cleanup, Removed, NotRemoved, NoFault, Fault, Dirs
<1>8. TypeOK'
  BY <1>1, <1>2, <1>7 DEF TypeOK
<1>9. id[w] # NoId /\ name'[id[w]] # "none" => id[w] \in left'
  BY <1>1, <1>7 DEF WorkerOK, Writing
<1> QED
  BY <1>1, <1>2, <1>3, <1>4, <1>7, <1>8, <1>9, WorkerStep DEF IInv, FiredIsRecorded, Recorded
\* The steps of a commit that keep its event.
LEMMA CommitSteps ==
  ASSUME IInv, NEW w \in Workers,
         \/ Encode(w) \/ MakeTemp(w) \/ WriteFile(w) \/ Rename(w)
         \/ StepFails(w) \/ InsertConflicts(w) \/ Lose(w)
  PROVE  IInv'
<1>1. /\ TypeOK /\ WorkerOK(w) /\ service = "up" /\ service' = "up"
      /\ UNCHANGED <<row, key, crop, attempt, fired, stopping, known, todo, crashes>>
      /\ pc[w] \in Working /\ key[w] \in Keys
      /\ \A k \in fired'[w] : Recorded(k)'
  <2>1. TypeOK /\ WorkerOK(w) /\ \A k \in fired[w] : Recorded(k)
    BY DEF IInv, FiredIsRecorded
  <2>2. /\ service = "up" /\ service' = "up" /\ pc[w] \in Working
        /\ UNCHANGED <<row, key, crop, attempt, fired, stopping, known, todo, crashes>>
    BY DEF Encode, MakeTemp, WriteFile, Rename, StepFails, InsertConflicts, Lose,
           At, Working, disk, boot, bounds
  <2> QED BY <2>1, <2>2 DEF WorkerOK, Recorded
<1>2. CASE Encode(w)
  <2>1. PICK e \in Ids : Unused(e) /\ id' = [id EXCEPT ![w] = e]
    BY <1>2 DEF Encode
  <2>2. /\ pc[w] = "lookup" /\ pc'[w] = "make" /\ UNCHANGED <<name, images, left, faults>>
        /\ pc' \in [Workers -> {"idle", "ended"} \cup Working]
        /\ \A v \in Workers : v # w => pc'[v] = pc[v]
    BY <1>1, <1>2 DEF Encode, At, Goto, TypeOK, Working, disk, bounds
  <2>3. id'[w] = e /\ (\A v \in Workers : v # w => id'[v] = id[v]) /\ e # NoId /\ id[w] = NoId
    BY <1>1, <2>1, <2>2, NothingIsAValue DEF TypeOK, WorkerOK, Writing
  <2>4. TypeOK'
    BY <1>1, <2>1, <2>2 DEF TypeOK
  <2>5. WorkerOK(w)'
    BY <1>1, <2>1, <2>2, <2>3 DEF WorkerOK, Writing, Working, Unused
  <2>6. \A v \in Workers : id[v] # id'[w]
    BY <2>1, <2>3 DEF Unused
  <2> QED BY <1>1, <2>2, <2>3, <2>4, <2>5, <2>6, WorkerStep
<1>3. pc[w] \in Writing => id[w] \in Ids /\ id[w] # NoId /\ row[id[w]] = NoKey
  BY <1>1 DEF WorkerOK, TypeOK
<1>4. CASE \/ MakeTemp(w) \/ WriteFile(w) \/ Rename(w)
           \/ StepFails(w) \/ InsertConflicts(w) \/ Lose(w)
  <2>1. /\ pc[w] \in Writing /\ pc'[w] \in Writing /\ id' = id
        /\ pc' \in [Workers -> {"idle", "ended"} \cup Working]
        /\ \A v \in Workers : v # w => pc'[v] = pc[v]
    BY <1>1, <1>4
       DEF MakeTemp, WriteFile, Rename, StepFails, InsertConflicts, Lose,
           At, Goto, TypeOK, Working, Writing
  <2>2. /\ name' \in [Ids -> Dirs] /\ images' \in [Ids -> SUBSET Images]
        /\ left' \in SUBSET Ids /\ faults' \in 0..MaxFaults
        /\ \A e \in Ids : e # id[w] =>
             name'[e] = name[e] /\ images'[e] = images[e] /\ (e \in left => e \in left')
    <3>1. CASE MakeTemp(w) \/ WriteFile(w) \/ Rename(w)
      BY <1>1, <1>3, <2>1, <3>1
         DEF MakeTemp, WriteFile, Rename, At, TypeOK, Dirs, Images, bounds
    <3>2. CASE StepFails(w) \/ InsertConflicts(w)
      BY <1>1, <3>2, NumbersAreNatural
         DEF StepFails, InsertConflicts, Fault, TypeOK, disk, bounds
    <3>3. CASE Lose(w)
      BY <1>1, <1>3, <2>1, <3>3, NumbersAreNatural
         DEF Lose, Cleanup, Removed, NotRemoved, Fault, NoFault, TypeOK, Dirs
    <3> QED BY <1>4, <3>1, <3>2, <3>3
  <2>3. TypeOK'
    BY <1>1, <2>1, <2>2 DEF TypeOK
  <2>4. WorkerOK(w)'
    <3>1. CASE MakeTemp(w) \/ Rename(w)
      BY <1>1, <1>3, <2>1, <3>1 DEF MakeTemp, Rename, At, Goto, TypeOK, WorkerOK, Writing, Working
    <3>2. CASE WriteFile(w)
      <4>1. images'[id[w]] = images[id[w]] \cup {pc[w]} /\ name' = name /\ left' = left
        BY <1>1, <1>3, <2>1, <3>2 DEF WriteFile, TypeOK
      <4>2. \/ pc[w] = "frame" /\ pc'[w] = "crop"
            \/ pc[w] = "crop" /\ pc'[w] = "rename" /\ "frame" \in images[id[w]]
        BY <1>1, <3>2 DEF WriteFile, At, Goto, TypeOK, WorkerOK
      <4>3. images[id[w]] \subseteq Images
        BY <1>1, <1>3, <2>1 DEF TypeOK
      <4> QED
        BY <1>1, <1>3, <2>1, <4>1, <4>2, <4>3 DEF WorkerOK, Writing, Working, Images
    <3>3. CASE StepFails(w) \/ InsertConflicts(w)
      BY <1>1, <1>3, <2>1, <3>3
         DEF StepFails, InsertConflicts, At, Goto, TypeOK, WorkerOK, Writing, Working
    <3>4. CASE Lose(w)
      <4>1. pc'[w] = "winner"
        BY <1>1, <3>4 DEF Lose, Goto, TypeOK
      <4>2. name'[id[w]] = "none" \/ id[w] \in left'
        BY <1>1, <1>3, <2>1, <3>4 DEF Lose, Cleanup, Removed, NotRemoved, TypeOK
      <4> QED BY <1>1, <1>3, <2>1, <4>1, <4>2 DEF WorkerOK, Writing, Working
    <3> QED BY <1>4, <3>1, <3>2, <3>3, <3>4
  <2> QED BY <1>1, <1>3, <2>1, <2>2, <2>3, <2>4, WorkerStep
<1> QED BY <1>2, <1>4

\* The process dies, and its successor looks at the directories.
LEMMA ProcessSteps ==
  ASSUME IInv, Crash \/ Startup \/ UNCHANGED vars
  PROVE  IInv'
<1>0. TypeOK /\ (\A w \in Workers : WorkerOK(w)) /\ RowsOK /\ Answered /\ OwnEvents
  BY DEF IInv
<1>1. CASE Crash
  <2>1. /\ UNCHANGED <<row, name, images, left>> /\ service' = "down"
        /\ \A w \in Workers : pc'[w] = "idle" /\ id'[w] = NoId /\ fired'[w] = {}
    BY <1>1 DEF Crash, Idle, Fresh, disk
  <2>2. TypeOK'
    BY <1>0, <1>1, NumbersAreNatural DEF Crash, Idle, Fresh, TypeOK, Row, disk
  <2>3. \A w \in Workers : WorkerOK(w)'
    BY <2>1, Released
  <2> QED
    BY <1>0, <2>1, <2>2, <2>3 DEF IInv, OwnEvents, RowsOK, Answered, FiredIsRecorded
<1>2. CASE ListRows
  <2>1. /\ UNCHANGED <<row, name, images, pc, key, crop, id, attempt, fired, stopping, left, faults, crashes>>
        /\ service = "down" /\ service' = "scan"
        /\ known' = {e \in Ids : row[e] # NoKey} /\ todo' = {e \in Ids : name[e] # "none"}
    BY <1>2 DEF ListRows, disk, worker, bounds
  <2>2. TypeOK'
    BY <1>0, <2>1 DEF TypeOK
  <2> QED
    BY <1>0, <2>1, <2>2 DEF IInv, WorkerOK, OwnEvents, RowsOK, Answered, FiredIsRecorded, Recorded
<1>3. ASSUME NEW e \in Ids, Sweep(e) PROVE IInv'
  <2>1. /\ UNCHANGED <<row, pc, key, crop, id, attempt, fired, stopping, service, known, crashes>>
        /\ service = "scan" /\ e \in todo /\ todo' = todo \ {e}
        /\ known = {f \in Ids : row[f] # NoKey}
        /\ \A w \in Workers : pc[w] = "idle" /\ fired[w] = {}
    BY <1>0, <1>3 DEF Sweep, worker, Answered
  <2>2. row[e] # NoKey => ~Abandoned(e)
    BY <1>0, <2>1 DEF Abandoned, RowsOK
  <2>3. /\ name' \in [Ids -> Dirs] /\ images' \in [Ids -> SUBSET Images]
        /\ left' \in SUBSET Ids /\ faults' \in 0..MaxFaults
        /\ \A f \in Ids : f # e =>
             name'[f] = name[f] /\ images'[f] = images[f] /\ (f \in left => f \in left')
        /\ Abandoned(e) => name'[e] = "none" \/ e \in left'
        /\ ~Abandoned(e) => name'[e] = name[e] /\ images'[e] = images[e]
    <3>1. CASE Abandoned(e) /\ Cleanup(e)
      BY <1>0, <3>1, NumbersAreNatural
         DEF Cleanup, Removed, NotRemoved, Fault, NoFault, TypeOK, Dirs
    <3>2. CASE ~Abandoned(e) /\ UNCHANGED <<disk, faults, left>>
      BY <1>0, <3>2 DEF TypeOK, disk
    <3> QED BY <1>3, <3>1, <3>2 DEF Sweep
  <2>4. TypeOK'
    BY <1>0, <2>1, <2>3 DEF TypeOK
  <2>5. RowsOK'
    BY <1>0, <2>1, <2>2, <2>3 DEF RowsOK
  <2>6. Answered'
    <3>1. row[e] = NoKey => Abandoned(e)
      BY <2>1 DEF Abandoned
    <3> QED BY <1>0, <2>1, <2>3, <3>1 DEF Answered
  <2>7. \A w \in Workers : WorkerOK(w)'
    BY <1>0, <2>1 DEF WorkerOK, Writing, Working
  <2> QED
    BY <1>0, <2>1, <2>4, <2>5, <2>6, <2>7 DEF IInv, OwnEvents, FiredIsRecorded
<1>4. CASE StartWorkers
  <2>1. /\ UNCHANGED <<row, name, images, pc, key, crop, id, attempt, fired, stopping,
                       known, todo, left, faults, crashes>>
        /\ service = "scan" /\ todo = {} /\ service' = "up"
    BY <1>4 DEF StartWorkers, disk, worker, bounds
  <2>2. TypeOK'
    BY <1>0, <2>1 DEF TypeOK
  <2> QED
    BY <1>0, <2>1, <2>2 DEF IInv, WorkerOK, OwnEvents, RowsOK, Answered, FiredIsRecorded, Recorded
<1>5. CASE UNCHANGED vars
  <2>1. UNCHANGED <<row, name, images, pc, key, crop, id, attempt, fired, stopping,
                    service, known, todo, left, faults, crashes>>
    BY <1>5 DEF vars, disk, worker, boot, bounds
  <2>2. TypeOK'
    BY <1>0, <2>1 DEF TypeOK
  <2> QED
    BY <1>0, <2>1, <2>2 DEF IInv, WorkerOK, OwnEvents, RowsOK, Answered, FiredIsRecorded, Recorded
<1> QED BY <1>1, <1>2, <1>3, <1>4, <1>5 DEF Startup

-----------------------------------------------------------------------------

\* Every step keeps the invariant.
LEMMA Inductive == IInv /\ [Next]_vars => IInv'
BY QuietSteps, AnswerSteps, FailedAttempts, CommitSteps, ProcessSteps DEF Next, Commit

\* The invariant holds whatever fails or crashes.
LEMMA Invariance == Spec => []IInv
BY Initially, Inductive, PTL DEF Spec

(* Workers, directories and rows stay in the states of the protocol.        *)
THEOREM TypeCorrect == Spec => []TypeOK
<1>1. IInv => TypeOK
  BY DEF IInv
<1> QED BY Invariance, <1>1, PTL

(* A row has both of its images, whoever lost a race, whatever failed and   *)
(* whenever the process was killed: the order of commit_event.              *)
THEOREM NoMissingArtifacts == Spec => []RowsHaveArtifacts
<1>1. IInv => RowsHaveArtifacts
  BY DEF IInv, RowsOK, RowsHaveArtifacts, MissingArtifacts, ResolveImage
<1> QED BY Invariance, <1>1, PTL

(* What an engine no longer reports is in the table: mark_persisted after   *)
(* the commit, the lookup and the conflict.                                 *)
THEOREM SuppressedIsRecorded == Spec => []FiredIsRecorded
<1>1. IInv => FiredIsRecorded
  BY DEF IInv
<1> QED BY Invariance, <1>1, PTL

(* Each directory without a row belongs to a commit that is going on or to  *)
(* a removal that failed: the clean-up of commit_event and the sweep of     *)
(* reconcile_startup.                                                       *)
THEOREM DirectoriesAreAnswered == Spec => []NothingIsForgotten
<1>1. IInv => NothingIsForgotten
  <2> SUFFICES ASSUME IInv, service = "up"
               PROVE  Problems \subseteq left \cup {id[w] : w \in Workers}
    BY DEF NothingIsForgotten
  <2>1. \A e \in Ids : row[e] # NoKey => name[e] = "final" /\ images[e] = Images
    BY DEF IInv, RowsOK
  <2>2. \A e \in Problems : e \in Ids /\ row[e] = NoKey /\ name[e] # "none"
    BY <2>1 DEF Problems, MissingArtifacts, Orphans, ResolveImage
  <2> QED BY <2>2 DEF IInv, Answered
<1> QED BY Invariance, <1>1, PTL
(* A crossing with a usable crop is left behind by a worker that goes on    *)
(* only when it is in the table: every path through _persist_event.         *)
THEOREM NothingIsLost == Spec => NoCrossingLost
<1> DEFINE A == \A w \in Workers :
                  (pc[w] \in Working /\ crop[w] /\ pc'[w] = "idle" /\ service' = "up")
                    => \E e \in Ids : row'[e] = key[w]
<1>1. IInv /\ [Next]_vars => [A]_vars
  <2> SUFFICES ASSUME IInv, Next, NEW w \in Workers, pc[w] \in Working, crop[w],
                      pc'[w] = "idle", service' = "up"
               PROVE  \E e \in Ids : row'[e] = key[w]
    OBVIOUS
  <2>1. /\ TypeOK /\ WorkerOK(w) /\ pc[w] # "idle" /\ pc[w] # "ended"
    BY DEF IInv, Working
  <2>2. ASSUME NEW v \in Workers, v # w, pc' = [pc EXCEPT ![v] = pc'[v]] PROVE FALSE
    BY <2>1, <2>2 DEF TypeOK
  <2>3. ASSUME NEW v \in Workers,
               \/ \E k \in Keys, usable \in BOOLEAN : Observe(v, k, usable)
               \/ \E k \in Keys : Prune(v, k)
               \/ RequestStop(v) \/ Retry(v) \/ StartWorker(v)
               \/ Encode(v) \/ MakeTemp(v) \/ WriteFile(v) \/ Rename(v) \/ StepFails(v)
               \/ InsertConflicts(v) \/ Lose(v)
        PROVE  FALSE
    BY <2>1, <2>3
       DEF TypeOK, Observe, Prune, RequestStop, Retry, StartWorker, Encode, MakeTemp,
           WriteFile, Rename, StepFails, InsertConflicts, Lose, Goto, At
  <2>4. ASSUME NEW v \in Workers, Stops(v) PROVE FALSE
    BY <2>1, <2>4 DEF TypeOK, Stops, Leave, Goto
  <2>5. ASSUME NEW v \in Workers, EarlyFailure(v) \/ Undo(v) \/ WinnerFails(v) PROVE FALSE
    <3>1. AttemptFails(v)
      BY <2>5 DEF EarlyFailure, Undo, WinnerFails
    <3>2. pc'[v] \in {"wait", "ended"} /\ \A u \in Workers : u # v => pc'[u] = pc[u]
      BY <2>1, <3>1, AfterAttempt
    <3> QED BY <2>1, <3>2
  <2>6. ASSUME NEW v \in Workers, LookupFinds(v) \/ InvalidCrop(v) \/ Insert(v) \/ FindWinner(v)
        PROVE  \E e \in Ids : row'[e] = key[w]
    <3>1. Leave(v, "idle")
      BY <2>6 DEF LookupFinds, InvalidCrop, Insert, FindWinner, Answer
    <3>2. v = w
      BY <2>1, <3>1, AfterLeave
    <3>3. CASE Insert(v)
      <4>1. id[w] \in Ids /\ row' = [row EXCEPT ![id[w]] = key[w]]
        BY <2>1, <3>2, <3>3 DEF Insert, At, WorkerOK, Writing, TypeOK
      <4> QED BY <2>1, <4>1 DEF TypeOK
    <3>4. CASE LookupFinds(v) \/ FindWinner(v)
      BY <3>2, <3>4 DEF LookupFinds, FindWinner, Recorded
    <3>5. CASE InvalidCrop(v)
      BY <3>2, <3>5 DEF InvalidCrop
    <3> QED BY <2>6, <3>3, <3>4, <3>5
  <2>7. CASE Crash
    BY <2>7 DEF Crash
  <2>8. CASE Startup
    BY <2>1, <2>8 DEF Startup, ListRows, Sweep, StartWorkers, worker
  <2> QED BY <2>3, <2>4, <2>5, <2>6, <2>7, <2>8 DEF Next, Commit
<1> QED BY Invariance, <1>1, PTL DEF Spec, NoCrossingLost

(* The storage implements EventStore: an event appears at once, with both   *)
(* images, for a crossing that has none, and stays.                         *)
THEOREM Refinement == Spec => EventsAppearWhole
<1>1. IInv => Complete = [e \in Ids |-> row[e]]
  BY DEF IInv, RowsOK, Complete, ResolveImage, TypeOK
<1>2. Init => Store!Init
  BY DEF Init, Store!Init, Complete, ResolveImage
<1>3. IInv /\ [Next]_vars => [Store!Next]_Complete
  <2> SUFFICES ASSUME IInv, [Next]_vars PROVE [Store!Next]_Complete
    OBVIOUS
  <2>1. IInv'
    BY Inductive
  <2>2. /\ Complete = [e \in Ids |-> row[e]] /\ row \in [Ids -> Row]
        /\ Complete' = [e \in Ids |-> row'[e]]
    <3>1. (Complete = [e \in Ids |-> row[e]])'
      BY <2>1 DEF IInv, RowsOK, Complete, ResolveImage, TypeOK
    <3> QED BY <1>1, <3>1 DEF IInv, TypeOK
  <2>3. row' = row \/ \E w \in Workers : Insert(w)
    BY DEF Next, Commit, Startup, vars, Crash, ListRows, Sweep, StartWorkers, Observe,
           Prune, RequestStop, Stops, Retry, StartWorker, LookupFinds, InvalidCrop,
           Encode, EarlyFailure, MakeTemp, WriteFile, Rename, StepFails,
           InsertConflicts, Undo, Lose, FindWinner, WinnerFails
  <2>4. ASSUME NEW w \in Workers, Insert(w) PROVE Store!Next
    <3>1. /\ id[w] \in Ids /\ key[w] \in Keys /\ row[id[w]] = NoKey
          /\ row' = [row EXCEPT ![id[w]] = key[w]] /\ \A f \in Ids : row[f] # key[w]
      BY <2>4 DEF IInv, Insert, At, WorkerOK, Writing, Working, TypeOK, Recorded
    <3>2. Complete' = [Complete EXCEPT ![id[w]] = key[w]]
      BY <2>2, <3>1
    <3>3. Store!Record(id[w], key[w])
      BY <2>2, <3>1, <3>2 DEF Store!Record
    <3> QED BY <3>1, <3>3 DEF Store!Next
  <2>5. row' = row => UNCHANGED Complete
    BY <2>2
  <2> QED BY <2>3, <2>4, <2>5
<1> QED BY Invariance, <1>2, <1>3, PTL DEF Spec, EventsAppearWhole, Store!Spec
=============================================================================
