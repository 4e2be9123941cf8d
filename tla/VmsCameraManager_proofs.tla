---------------------- MODULE VmsCameraManager_proofs ----------------------
(***************************************************************************)
(* Proofs about VmsCameraManager for every set of cameras, every choice of *)
(* sources and payloads, and every bound.                                  *)
(***************************************************************************)
EXTENDS VmsCameraManager, TLAPS

-----------------------------------------------------------------------------
(* Facts about the helpers.                                                *)

(* The row that stands for "no row" is a row. *)
LEMMA BlankRowType == BlankRow \in Row
<1>1. PICK s \in Sources : TRUE
  BY SourcesAssumption
<1>2. [enabled |-> FALSE, source |-> s, recording |-> FALSE] \in Row
  BY DEF Row
<1>3. \E r \in Row : ~r.enabled
  BY <1>2
<1>. QED
  BY <1>3 DEF BlankRow

(* What a row asks for is a configuration or no path. *)
LEMMA TargetType ==
  ASSUME NEW r \in Row
  PROVE  Target(r) \in PathConfig \cup {NoPath}
BY DEF Target, PathConfig, Row

(* A part of the state that a step leaves alone keeps its type. *)
LEMMA Stable ==
  /\ DurableType /\ UNCHANGED durable => DurableType'
  /\ ExternalType /\ UNCHANGED external => ExternalType'
  /\ MemoryType /\ UNCHANGED memory => MemoryType'
  /\ LockType /\ UNCHANGED locks => LockType'
  /\ PolledType /\ UNCHANGED polled => PolledType'
<1>1. DurableType /\ UNCHANGED durable => DurableType'
  BY DEF DurableType, durable
<1>2. ExternalType /\ UNCHANGED external => ExternalType'
  BY DEF ExternalType, external
<1>3. MemoryType /\ UNCHANGED memory => MemoryType'
  BY DEF MemoryType, memory
<1>4. LockType /\ UNCHANGED locks => LockType'
  BY DEF LockType, locks
<1>5. PolledType /\ UNCHANGED polled => PolledType'
  BY DEF PolledType, polled
<1>. QED
  BY <1>1, <1>2, <1>3, <1>4, <1>5

(* Counting a failed call. *)
LEMMA SpendType ==
  ASSUME TypeOK, NEW a, Spend(a)
  PROVE  faults' \in Nat
BY DEF TypeOK, Spend

(* Giving a lock back. *)
LEMMA ReleaseType ==
  ASSUME TypeOK, NEW c \in Cameras, Release(c)
  PROVE  LockType' /\ todo' \subseteq Cameras
BY BlankRowType DEF TypeOK, LockType, Release, Holders, Steps

(* Taking a lock, and keeping it. *)
LEMMA TakeType ==
  ASSUME TypeOK, NEW c \in Cameras, NEW task \in Holders, NEW s \in Steps,
         NEW r \in Row, Take(c, task, s, r) \/ GoOn(c, s)
  PROVE  LockType'
BY DEF TypeOK, LockType, Take, GoOn

(* The error branch of _apply. *)
LEMMA ApplyFailedType ==
  ASSUME TypeOK, NEW c \in Cameras, NEW a, ApplyFailed(c, a),
         UNCHANGED <<version, recent>>
  PROVE  MemoryType' /\ LockType' /\ todo' \subseteq Cameras
<1>1. LockType' /\ todo' \subseteq Cameras
  BY ReleaseType DEF ApplyFailed
<1>2. MemoryType'
  BY DEF TypeOK, MemoryType, ApplyFailed, NoteError, Requested, WithRecordingError,
         Pending, Health
<1>. QED
  BY <1>1, <1>2

(* Installing or removing the path of one camera. *)
LEMMA PathsType ==
  ASSUME TypeOK, NEW c \in Cameras, UNCHANGED up,
         \/ paths' = paths
         \/ paths' = [paths EXCEPT ![c] = NoPath]
         \/ \E r \in Row : paths' = [paths EXCEPT ![c] = Target(r)]
  PROVE  ExternalType'
BY TargetType DEF TypeOK, ExternalType

-----------------------------------------------------------------------------
(* Every variable keeps its type.                                          *)

(* A mutation writes a row of the right shape and takes the lock. *)
LEMMA MutationKeepsTypes ==
  ASSUME TypeOK, NEW c \in Cameras,
         \/ \E r \in Payloads : Create(c, r) \/ Update(c, r)
         \/ Delete(c)
  PROVE  TypeOK'
<1>1. ASSUME NEW r \in Payloads, Create(c, r)
      PROVE  TypeOK'
  BY <1>1, Stable, TakeType, PayloadsAssumption
  DEF Create, TypeOK, DurableType, Holders, Steps, locals
<1>2. ASSUME NEW r \in Payloads, Update(c, r)
      PROVE  TypeOK'
  BY <1>2, Stable, TakeType, PayloadsAssumption
  DEF Update, TypeOK, DurableType, Holders, Steps, locals
<1>3. CASE Delete(c)
  BY <1>3, Stable, TakeType, BlankRowType
  DEF Delete, TypeOK, DurableType, MemoryType, Health, Holders, Steps, locals
<1>. QED
  BY <1>1, <1>2, <1>3

(* So does every step of a lock holder. *)
LEMMA HolderKeepsTypes ==
  ASSUME TypeOK, NEW c \in Cameras, HolderStep(c)
  PROVE  TypeOK'
<1>1. CASE Remove(c)
  <2>1. PICK a \in Answers : Remove(c)!2!(a)
    BY <1>1 DEF Remove
  <2>2. DurableType' /\ PolledType'
    BY <1>1, Stable DEF Remove, TypeOK
  <2>3. ExternalType'
    BY <1>1, <2>1, PathsType DEF Remove
  <2>4. MemoryType' /\ dirty' \subseteq Cameras
    BY <1>1, <2>1 DEF Remove, TypeOK, MemoryType, NoteError, Requested, Pending
  <2>5. LockType' /\ todo' \subseteq Cameras
    BY <1>1, ReleaseType DEF Remove
  <2>. QED
    BY <1>1, <2>1, <2>2, <2>3, <2>4, <2>5, SpendType DEF Remove, TypeOK
<1>2. CASE Check(c)
  <2>1. PICK a \in Answers : Check(c)!2!(a)
    BY <1>2 DEF Check
  <2>2. DurableType' /\ ExternalType' /\ PolledType'
    BY <1>2, Stable DEF Check, TypeOK
  <2>3. MemoryType' /\ LockType' /\ todo' \subseteq Cameras /\ dirty' \subseteq Cameras
    <3>1. CASE a = "ok"
      BY <1>2, <2>1, <3>1 DEF Check, GoOn, TypeOK, MemoryType, LockType, Steps
    <3>2. CASE a # "ok"
      BY <1>2, <2>1, <3>2, ApplyFailedType DEF Check, TypeOK
    <3>. QED
      BY <3>1, <3>2
  <2>. QED
    BY <1>2, <2>1, <2>2, <2>3, SpendType DEF Check, TypeOK
<1>3. CASE EnsurePath(c)
  <2>1. PICK a \in Answers : EnsurePath(c)!2!(a)
    BY <1>3 DEF EnsurePath
  <2>2. DurableType' /\ PolledType'
    BY <1>3, Stable DEF EnsurePath, TypeOK
  <2>3. ExternalType'
    BY <1>3, <2>1, PathsType DEF EnsurePath, Replaced, TypeOK, LockType
  <2>4. MemoryType' /\ LockType' /\ todo' \subseteq Cameras /\ dirty' \subseteq Cameras
    <3>1. CASE a = "ok" /\ carried[c].source \notin Rejected
      BY <1>3, <2>1, <3>1 DEF EnsurePath, GoOn, TypeOK, MemoryType, LockType, Steps
    <3>2. CASE a = "ok" /\ carried[c].source \in Rejected
      BY <1>3, <2>1, <3>2, ReleaseType
      DEF EnsurePath, TypeOK, MemoryType, WithRecordingError, Health
    <3>3. CASE a # "ok"
      BY <1>3, <2>1, <3>3, ApplyFailedType DEF EnsurePath, TypeOK
    <3>. QED
      BY <3>1, <3>2, <3>3
  <2>. QED
    BY <1>3, <2>1, <2>2, <2>3, <2>4, SpendType DEF EnsurePath, TypeOK
<1>4. CASE DropPath(c)
  <2>1. PICK a \in Answers : DropPath(c)!2!(a)
    BY <1>4 DEF DropPath
  <2>2. DurableType' /\ PolledType'
    BY <1>4, Stable DEF DropPath, TypeOK
  <2>3. ExternalType'
    BY <1>4, <2>1, PathsType DEF DropPath
  <2>4. MemoryType' /\ LockType' /\ todo' \subseteq Cameras /\ dirty' \subseteq Cameras
    <3>1. CASE a = "ok"
      BY <1>4, <2>1, <3>1, ReleaseType DEF DropPath, TypeOK, MemoryType, Health
    <3>2. CASE a # "ok"
      BY <1>4, <2>1, <3>2, ApplyFailedType DEF DropPath, TypeOK
    <3>. QED
      BY <3>1, <3>2
  <2>. QED
    BY <1>4, <2>1, <2>2, <2>3, <2>4, SpendType DEF DropPath, TypeOK
<1>5. CASE Probe(c)
  <2>1. PICK a \in Answers : Probe(c)!2!(a)
    BY <1>5 DEF Probe
  <2>2. DurableType' /\ ExternalType' /\ PolledType'
    BY <1>5, Stable DEF Probe, TypeOK
  <2>3. MemoryType' /\ LockType' /\ todo' \subseteq Cameras
    <3>1. CASE a = "ok" /\ paths[c] # NoPath
      BY <1>5, <2>1, <3>1, ReleaseType DEF Probe, TypeOK, MemoryType, Health
    <3>2. CASE ~(a = "ok" /\ paths[c] # NoPath)
      BY <1>5, <2>1, <3>2, ApplyFailedType DEF Probe, TypeOK
    <3>. QED
      BY <3>1, <3>2
  <2>. QED
    BY <1>5, <2>1, <2>2, <2>3, SpendType DEF Probe, TypeOK
<1>. QED
  BY <1>1, <1>2, <1>3, <1>4, <1>5 DEF HolderStep

(* And every step of the poll loop. *)
LEMMA PollKeepsTypes ==
  ASSUME TypeOK, PollStep
  PROVE  TypeOK'
<1>1. CASE Wake
  <2>1. DurableType' /\ ExternalType' /\ LockType'
    BY <1>1, Stable DEF Wake, TypeOK
  <2>2. MemoryType' /\ PolledType'
    BY <1>1 DEF Wake, TypeOK, MemoryType, PolledType, Pending, PollPcs
  <2>. QED
    BY <1>1, <2>1, <2>2 DEF Wake, TypeOK, bounds
<1>2. CASE ReconcileRows \/ HealthRows
  <2>1. DurableType' /\ ExternalType' /\ LockType' /\ MemoryType'
    BY <1>2, Stable DEF ReconcileRows, HealthRows, ListRows, TypeOK
  <2>2. PolledType'
    BY <1>2
    DEF ReconcileRows, HealthRows, ListRows, TypeOK, DurableType, PolledType, PollPcs
  <2>. QED
    BY <1>2, <2>1, <2>2 DEF ReconcileRows, HealthRows, ListRows, TypeOK, bounds
<1>3. CASE ReconcileList
  <2>1. PICK a \in Answers : ReconcileList!2!(a)
    BY <1>3 DEF ReconcileList
  <2>2. DurableType' /\ ExternalType' /\ LockType'
    BY <1>3, Stable DEF ReconcileList, TypeOK
  <2>3. MemoryType'
    BY <1>3, <2>1 DEF ReconcileList, MarkAllUnknown, TypeOK, MemoryType, Health
  <2>4. PolledType'
    BY <1>3, <2>1
    DEF ReconcileList, Return, TypeOK, PolledType, Pending, PollPcs, Seen
  <2>. QED
    BY <1>3, <2>1, <2>2, <2>3, <2>4, SpendType DEF ReconcileList, TypeOK
<1>4. ASSUME NEW c \in Cameras, RemoveStale(c)
      PROVE  TypeOK'
  <2>1. PICK a \in Answers : RemoveStale(c)!2!(a)
    BY <1>4 DEF RemoveStale
  <2>2. DurableType' /\ LockType'
    BY <1>4, Stable DEF RemoveStale, TypeOK
  <2>3. ExternalType'
    BY <1>4, <2>1, PathsType DEF RemoveStale
  <2>4. MemoryType' /\ PolledType'
    BY <1>4, <2>1 DEF RemoveStale, TypeOK, MemoryType, PolledType, NoteError
  <2>. QED
    BY <1>4, <2>1, <2>2, <2>3, <2>4, SpendType DEF RemoveStale, TypeOK
<1>5. CASE StaleRemoved
  <2>1. DurableType' /\ ExternalType' /\ LockType' /\ MemoryType'
    BY <1>5, Stable DEF StaleRemoved, TypeOK
  <2>. QED
    BY <1>5, <2>1 DEF StaleRemoved, TypeOK, PolledType, PollPcs, bounds
<1>6. ASSUME NEW c \in Cameras, Visit(c)
      PROVE  TypeOK'
  <2>1. DurableType' /\ ExternalType' /\ MemoryType' /\ PolledType'
    BY <1>6, Stable DEF Visit, TypeOK
  <2>2. LockType'
    BY <1>6, TakeType, Stable DEF Visit, TypeOK, DurableType, Holders, Steps
  <2>. QED
    BY <1>6, <2>1, <2>2 DEF Visit, TypeOK, bounds
<1>7. CASE ReconcileDone
  <2>1. DurableType' /\ ExternalType' /\ LockType'
    BY <1>7, Stable DEF ReconcileDone, TypeOK
  <2>2. MemoryType' /\ PolledType'
    BY <1>7
    DEF ReconcileDone, Return, TypeOK, MemoryType, PolledType, Pending, PollPcs, Seen
  <2>. QED
    BY <1>7, <2>1, <2>2 DEF ReconcileDone, TypeOK, bounds
<1>8. CASE HealthList
  <2>1. PICK a \in Answers : HealthList!2!(a)
    BY <1>8 DEF HealthList
  <2>2. DurableType' /\ ExternalType' /\ LockType'
    BY <1>8, Stable DEF HealthList, TypeOK
  <2>3. MemoryType'
    BY <1>8, <2>1 DEF HealthList, MarkAllUnknown, TypeOK, MemoryType, Health
  <2>4. PolledType'
    BY <1>8, <2>1 DEF HealthList, Return, TypeOK, PolledType, Pending, PollPcs, Seen
  <2>. QED
    BY <1>8, <2>1, <2>2, <2>3, <2>4, SpendType DEF HealthList, TypeOK
<1>9. CASE HealthSeen
  <2>1. DurableType' /\ ExternalType' /\ LockType'
    BY <1>9, Stable DEF HealthSeen, TypeOK
  <2>2. MemoryType'
    BY <1>9 DEF HealthSeen, SetHealth, Requested, TypeOK, MemoryType, PolledType, Health,
      Pending, Seen
  <2>3. PolledType'
    BY <1>9 DEF HealthSeen, SetHealth, Return, TypeOK, PolledType, Pending, PollPcs, Seen
  <2>. QED
    BY <1>9, <2>1, <2>2, <2>3 DEF HealthSeen, TypeOK, bounds
<1>10. CASE HealthSet
  <2>1. DurableType' /\ ExternalType' /\ LockType'
    BY <1>10, Stable DEF HealthSet, TypeOK
  <2>2. MemoryType'
    BY <1>10 DEF HealthSet, SetHealth, Requested, TypeOK, MemoryType, PolledType, Health,
      Pending, Seen
  <2>3. PolledType'
    BY <1>10 DEF HealthSet, SetHealth, Return, TypeOK, PolledType, Pending, PollPcs, Seen
  <2>. QED
    BY <1>10, <2>1, <2>2, <2>3, SpendType DEF HealthSet, TypeOK
<1>. QED
  BY <1>1, <1>2, <1>3, <1>4, <1>5, <1>6, <1>7, <1>8, <1>9, <1>10 DEF PollStep

(* And time, faults of the media server and restarts of the backend. *)
LEMMA EnvironmentKeepsTypes ==
  ASSUME TypeOK, Environment
  PROVE  TypeOK'
<1>1. CASE IntervalPasses
  BY <1>1, Stable DEF IntervalPasses, TypeOK, MemoryType, bounds, locals, external
<1>2. CASE MediaMTXStops
  <2>1. ExternalType'
    BY <1>2 DEF MediaMTXStops, ExternalType
  <2>2. DurableType' /\ MemoryType' /\ LockType' /\ PolledType'
    BY <1>2, Stable DEF MediaMTXStops, TypeOK, locals
  <2>. QED
    BY <1>2, <2>1, <2>2 DEF MediaMTXStops, TypeOK, locals
<1>3. CASE MediaMTXStarts
  BY <1>3, Stable DEF MediaMTXStarts, TypeOK, ExternalType, bounds, locals
<1>4. CASE BackendRestarts
  <2>1. DurableType' /\ ExternalType'
    BY <1>4, Stable DEF BackendRestarts, TypeOK
  <2>2. MemoryType' /\ LockType'
    BY <1>4, BlankRowType
    DEF BackendRestarts, MemoryType, LockType, Health, Pending, Holders, Steps
  <2>3. PolledType'
    BY <1>4 DEF BackendRestarts, Return, PolledType, Pending, PollPcs, Seen
  <2>. QED
    BY <1>4, <2>1, <2>2, <2>3 DEF BackendRestarts, TypeOK
<1>. QED
  BY <1>1, <1>2, <1>3, <1>4 DEF Environment

(* Every variable holds a value of its type in every reachable state. *)
THEOREM TypeCorrect == Spec => []TypeOK
<1>1. Init => TypeOK
  <2> SUFFICES ASSUME Init
               PROVE  TypeOK
    OBVIOUS
  <2>1. DurableType /\ ExternalType
    BY BlankRowType DEF Init, DurableType, ExternalType
  <2>2. MemoryType /\ LockType
    BY BlankRowType DEF Init, MemoryType, LockType, Health, Pending, Holders, Steps
  <2>3. PolledType
    BY DEF Init, PolledType, Pending, PollPcs, Seen
  <2>. QED
    BY <2>1, <2>2, <2>3 DEF Init, TypeOK
<1>2. TypeOK /\ [Next]_vars => TypeOK'
  <2> SUFFICES ASSUME TypeOK, [Next]_vars
               PROVE  TypeOK'
    OBVIOUS
  <2>1. CASE Operator
    BY <2>1, MutationKeepsTypes DEF Operator
  <2>2. CASE PollStep
    BY <2>2, PollKeepsTypes
  <2>3. CASE Environment
    BY <2>3, EnvironmentKeepsTypes
  <2>4. ASSUME NEW c \in Cameras, HolderStep(c)
        PROVE  TypeOK'
    BY <2>4, HolderKeepsTypes
  <2>5. CASE UNCHANGED vars
    BY <2>5, Stable DEF vars, TypeOK, bounds, locals
  <2>. QED
    BY <2>1, <2>2, <2>3, <2>4, <2>5 DEF Next
<1>. QED
  BY <1>1, <1>2, PTL DEF Spec

-----------------------------------------------------------------------------
(* Locks.                                                                  *)

(* A row is only ever changed for a camera whose lock is free, so what a    *)
(* lock holder found out about its camera stays true.                       *)
LEMMA LocksUntouched ==
  ASSUME LockDiscipline, UNCHANGED <<stored, row, holder, step, carried>>,
         (\E c \in Cameras : holder[c] = "reconcile") => UNCHANGED <<pc, todo>>
  PROVE  LockDiscipline'
BY DEF LockDiscipline, Enabled

(* The holder of c's lock goes on to another step of the same task. *)
LEMMA HolderGoesOn ==
  ASSUME TypeOK, LockDiscipline, UNCHANGED <<stored, row, pc>>,
         NEW c \in Cameras, step[c] \in {"check", "configure"}, Enabled(c),
         NEW s \in {"configure", "probe"}, GoOn(c, s)
  PROVE  LockDiscipline'
BY DEF LockDiscipline, Enabled, TypeOK, LockType, GoOn

(* The holder of c's lock gives it back. *)
LEMMA HolderReleases ==
  ASSUME TypeOK, LockDiscipline, UNCHANGED <<stored, row, pc>>,
         NEW c \in Cameras, Release(c)
  PROVE  LockDiscipline'
BY DEF LockDiscipline, Enabled, TypeOK, LockType, Release

(* A mutation takes the lock of c and writes its row. *)
LEMMA MutationTakesLock ==
  ASSUME TypeOK, LockDiscipline, UNCHANGED <<pc, todo>>,
         NEW c \in Cameras,
         \/ Take(c, "api", "configure", row'[c]) /\ c \in stored'
         \/ Take(c, "api", "remove", BlankRow) /\ c \notin stored',
         \A d \in Cameras \ {c} : (d \in stored' <=> d \in stored) /\ row'[d] = row[d]
  PROVE  LockDiscipline'
BY DEF LockDiscipline, Enabled, TypeOK, LockType, Take

(* VmsCameraManager!LockDiscipline, inductive as it stands. *)
THEOREM LocksAreDisciplined == Spec => []LockDiscipline
<1>1. Init => LockDiscipline
  BY DEF Init, LockDiscipline
<1>2. TypeOK /\ LockDiscipline /\ [Next]_vars => LockDiscipline'
  <2> SUFFICES ASSUME TypeOK, LockDiscipline, [Next]_vars
               PROVE  LockDiscipline'
    OBVIOUS
  <2>1. ASSUME NEW c \in Cameras, NEW r \in Payloads, Create(c, r) \/ Update(c, r)
        PROVE  LockDiscipline'
    BY <2>1, MutationTakesLock
    DEF Create, Update, locals, polled, TypeOK, DurableType
  <2>2. ASSUME NEW c \in Cameras, Delete(c)
        PROVE  LockDiscipline'
    BY <2>2, MutationTakesLock DEF Delete, locals, polled
  <2>3. ASSUME NEW c \in Cameras, Remove(c)
        PROVE  LockDiscipline'
    BY <2>3, HolderReleases DEF Remove, durable, polled
  <2>4. ASSUME NEW c \in Cameras, Check(c)
        PROVE  LockDiscipline'
    <3>1. step[c] = "check" /\ Enabled(c)
      BY <2>4 DEF Check, LockDiscipline
    <3>2. UNCHANGED <<stored, row, pc>>
      BY <2>4 DEF Check, durable, polled
    <3>3. \/ Release(c)
          \/ \E s \in {"configure", "probe"} : GoOn(c, s)
      BY <2>4 DEF Check, ApplyFailed
    <3>. QED
      BY <3>1, <3>2, <3>3, HolderReleases, HolderGoesOn
  <2>5. ASSUME NEW c \in Cameras, EnsurePath(c)
        PROVE  LockDiscipline'
    <3>1. step[c] = "configure" /\ Enabled(c)
      BY <2>5 DEF EnsurePath, LockDiscipline, Enabled
    <3>2. UNCHANGED <<stored, row, pc>>
      BY <2>5 DEF EnsurePath, durable, polled
    <3>3. \/ Release(c)
          \/ GoOn(c, "probe")
      BY <2>5 DEF EnsurePath, ApplyFailed
    <3>. QED
      BY <3>1, <3>2, <3>3, HolderReleases, HolderGoesOn
  <2>6. ASSUME NEW c \in Cameras, DropPath(c) \/ Probe(c)
        PROVE  LockDiscipline'
    <3>1. Release(c) /\ UNCHANGED <<stored, row, pc>>
      BY <2>6 DEF DropPath, Probe, ApplyFailed, durable, polled
    <3>. QED
      BY <3>1, HolderReleases
  <2>7. ASSUME NEW c \in Cameras, Visit(c)
        PROVE  LockDiscipline'
    <3>1. UNCHANGED <<stored, row, pc>> /\ pc = "applyAll" /\ c \in todo
      BY <2>7 DEF Visit, durable, polled
    <3>2. CASE Enabled(c)
      BY <2>7, <3>1, <3>2 DEF Visit, Take, LockDiscipline, Enabled, TypeOK, LockType
    <3>3. CASE ~Enabled(c)
      BY <2>7, <3>1, <3>3, LocksUntouched DEF Visit, locks
    <3>. QED
      BY <3>2, <3>3
  <2>8. CASE Wake \/ ReconcileRows \/ HealthRows \/ ReconcileList \/ StaleRemoved
             \/ HealthList \/ HealthSeen \/ HealthSet
    <3>1. UNCHANGED <<stored, row, holder, step, carried>> /\ pc # "applyAll"
      BY <2>8
      DEF Wake, ReconcileRows, HealthRows, ListRows, ReconcileList, StaleRemoved,
          HealthList, HealthSeen, HealthSet, durable, locks
    <3>. QED
      BY <3>1, LocksUntouched DEF LockDiscipline
  <2>9. CASE ReconcileDone
    BY <2>9, LocksUntouched DEF ReconcileDone, LockDiscipline, durable, locks
  <2>10. ASSUME NEW c \in Cameras, RemoveStale(c)
         PROVE  LockDiscipline'
    BY <2>10, LocksUntouched DEF RemoveStale, durable, locks
  <2>11. CASE IntervalPasses \/ MediaMTXStops \/ MediaMTXStarts
    BY <2>11, LocksUntouched
    DEF IntervalPasses, MediaMTXStops, MediaMTXStarts, durable, locks, locals, polled
  <2>12. CASE BackendRestarts
    BY <2>12 DEF BackendRestarts, LockDiscipline
  <2>13. CASE UNCHANGED vars
    BY <2>13, LocksUntouched DEF vars, durable, locks, locals, polled
  <2>. QED
    BY <2>1, <2>2, <2>3, <2>4, <2>5, <2>6, <2>7, <2>8, <2>9, <2>10, <2>11, <2>12, <2>13
    DEF Next, Operator, HolderStep, PollStep, Environment
<1>. QED
  BY <1>1, <1>2, TypeCorrect, PTL DEF Spec

-----------------------------------------------------------------------------
(* What is configured is what is stored.                                   *)

(* A step that writes no row and clears no mark, and leaves every path as   *)
(* it is or removes it, keeps ConfiguredIsCurrent.                          *)
LEMMA PathsOnlyLost ==
  ASSUME TypeOK, ConfiguredIsCurrent, UNCHANGED <<stored, row>>, dirty \subseteq dirty',
         \A c \in Cameras : paths'[c] \in {paths[c], NoPath}
  PROVE  ConfiguredIsCurrent'
BY DEF ConfiguredIsCurrent, Desired

(* What a lock holder is about to configure is what is stored. *)
LEMMA CarriesDesired ==
  ASSUME LockDiscipline, NEW c \in Cameras, step[c] \in {"check", "configure", "probe"}
  PROVE  Target(carried[c]) = Desired(c)
BY DEF LockDiscipline, Desired

(* A step for one camera that ends with its path as desired, or marks it,   *)
(* and does not touch the others.                                           *)
LEMMA OneCameraConfigured ==
  ASSUME TypeOK, ConfiguredIsCurrent, NEW c \in Cameras,
         \A d \in Cameras \ {c} :
            /\ d \in stored' <=> d \in stored
            /\ row'[d] = row[d] /\ paths'[d] = paths[d]
            /\ d \in dirty => d \in dirty',
         c \in dirty' \/ paths'[c] \in {NoPath, Desired(c)'}
  PROVE  ConfiguredIsCurrent'
BY DEF ConfiguredIsCurrent, Desired

(* VmsCameraManager!ConfiguredIsCurrent, inductive next to LockDiscipline:  *)
(* a row is marked in the step that writes it, and unmarked only in a step  *)
(* that finds or makes the path equal to the row its lock holder carries.   *)
THEOREM PathsAreCurrent == Spec => []ConfiguredIsCurrent
<1>1. Init => ConfiguredIsCurrent
  BY DEF Init, ConfiguredIsCurrent
<1>2. TypeOK /\ LockDiscipline /\ ConfiguredIsCurrent /\ [Next]_vars
        => ConfiguredIsCurrent'
  <2> SUFFICES ASSUME TypeOK, LockDiscipline, ConfiguredIsCurrent, [Next]_vars
               PROVE  ConfiguredIsCurrent'
    OBVIOUS
  <2>1. ASSUME NEW c \in Cameras, NEW r \in Payloads, Create(c, r) \/ Update(c, r)
        PROVE  ConfiguredIsCurrent'
    BY <2>1, OneCameraConfigured DEF Create, Update, external, TypeOK, DurableType
  <2>2. ASSUME NEW c \in Cameras, Delete(c)
        PROVE  ConfiguredIsCurrent'
    BY <2>2, OneCameraConfigured DEF Delete, external
  <2>3. ASSUME NEW c \in Cameras, Remove(c)
        PROVE  ConfiguredIsCurrent'
    <3>1. PICK a \in Answers : Remove(c)!2!(a)
      BY <2>3 DEF Remove
    <3>2. CASE a = "ok"
      BY <2>3, <3>1, <3>2, OneCameraConfigured
      DEF Remove, durable, CarriedOut, TypeOK, ExternalType
    <3>3. CASE a # "ok"
      BY <2>3, <3>1, <3>3, PathsOnlyLost DEF Remove, durable, TypeOK, ExternalType
    <3>. QED
      BY <3>2, <3>3
  <2>4. ASSUME NEW c \in Cameras, Check(c)
        PROVE  ConfiguredIsCurrent'
    <3>1. CASE dirty' = dirty
      BY <2>4, <3>1, PathsOnlyLost DEF Check, durable, external
    <3>2. CASE paths[c] = Desired(c) /\ dirty' = dirty \ {c}
      BY <2>4, <3>2, OneCameraConfigured DEF Check, durable, external, Desired
    <3>3. Target(carried[c]) = Desired(c)
      BY <2>4, CarriesDesired DEF Check
    <3>. QED
      BY <2>4, <3>1, <3>2, <3>3 DEF Check
  <2>5. ASSUME NEW c \in Cameras, EnsurePath(c)
        PROVE  ConfiguredIsCurrent'
    <3>1. PICK a \in Answers : EnsurePath(c)!2!(a)
      BY <2>5 DEF EnsurePath
    <3>2. /\ UNCHANGED <<stored, row>> /\ Desired(c)' = Desired(c)
          /\ Target(carried[c]) = Desired(c)
      BY <2>5, CarriesDesired DEF EnsurePath, durable, Desired
    <3>3. CASE paths' = [paths EXCEPT ![c] = Desired(c)]
      BY <3>1, <3>2, <3>3, OneCameraConfigured DEF TypeOK, ExternalType
    <3>4. CASE paths' = paths
      <4>1. dirty' = dirty \/ (dirty' = dirty \ {c} /\ paths[c] = Desired(c))
        BY <3>1, <3>2, <3>4 DEF Replaced, CarriedOut, TypeOK, ExternalType
      <4>2. CASE dirty' = dirty
        BY <3>2, <3>4, <4>2, PathsOnlyLost
      <4>3. CASE dirty' = dirty \ {c} /\ paths[c] = Desired(c)
        BY <3>2, <3>4, <4>3, OneCameraConfigured
      <4>. QED
        BY <4>1, <4>2, <4>3
    <3>. QED
      BY <3>1, <3>2, <3>3, <3>4 DEF Replaced
  <2>6. ASSUME NEW c \in Cameras, DropPath(c)
        PROVE  ConfiguredIsCurrent'
    <3>1. PICK a \in Answers : DropPath(c)!2!(a)
      BY <2>6 DEF DropPath
    <3>2. CASE a = "ok"
      BY <2>6, <3>1, <3>2, OneCameraConfigured
      DEF DropPath, durable, CarriedOut, TypeOK, ExternalType
    <3>3. CASE a # "ok"
      BY <2>6, <3>1, <3>3, PathsOnlyLost DEF DropPath, durable, TypeOK, ExternalType
    <3>. QED
      BY <3>2, <3>3
  <2>7. ASSUME NEW c \in Cameras, Probe(c)
        PROVE  ConfiguredIsCurrent'
    BY <2>7, PathsOnlyLost DEF Probe, durable, external
  <2>8. ASSUME NEW c \in Cameras, RemoveStale(c)
        PROVE  ConfiguredIsCurrent'
    BY <2>8, PathsOnlyLost DEF RemoveStale, durable, TypeOK, ExternalType
  <2>9. ASSUME PollStep, ~ \E c \in Cameras : RemoveStale(c)
        PROVE  ConfiguredIsCurrent'
    <3>1. UNCHANGED <<durable, external, dirty>>
      BY <2>9
      DEF PollStep, Wake, ReconcileRows, HealthRows, ListRows, ReconcileList,
          StaleRemoved, Visit, ReconcileDone, HealthList, HealthSeen, HealthSet
    <3>. QED
      BY <3>1, PathsOnlyLost DEF durable, external
  <2>10. CASE Environment
    BY <2>10, PathsOnlyLost
    DEF Environment, IntervalPasses, MediaMTXStops, MediaMTXStarts, BackendRestarts,
        durable, external
  <2>11. CASE UNCHANGED vars
    BY <2>11, PathsOnlyLost DEF vars, durable, external
  <2>. QED
    BY <2>1, <2>2, <2>3, <2>4, <2>5, <2>6, <2>7, <2>8, <2>9, <2>10, <2>11
    DEF Next, Operator, HolderStep
<1>. QED
  BY <1>1, <1>2, TypeCorrect, LocksAreDisciplined, PTL DEF Spec

-----------------------------------------------------------------------------
(* Recording errors.                                                       *)

(* A step that writes no row, changes no holder and adds no error. *)
LEMMA ErrorsOnlyCleared ==
  ASSUME ErrorsBelongToRecorders, UNCHANGED <<stored, row, step>>, errors' \subseteq errors
  PROVE  ErrorsBelongToRecorders'
BY DEF ErrorsBelongToRecorders, ShouldRecord, Enabled

(* A step for one camera after which its error, if any, is its own, and     *)
(* which does not touch the others.                                         *)
LEMMA OneCameraJudged ==
  ASSUME ErrorsBelongToRecorders, NEW c \in Cameras,
         \A d \in Cameras \ {c} :
            /\ d \in stored' <=> d \in stored
            /\ row'[d] = row[d] /\ step'[d] = step[d]
            /\ d \in errors' => d \in errors,
         errors' \subseteq Cameras,
         c \in errors' => ShouldRecord(c)' \/ step'[c] \in {"check", "configure"}
  PROVE  ErrorsBelongToRecorders'
BY DEF ErrorsBelongToRecorders, ShouldRecord, Enabled

(* The error branch of _apply, and the refusal of a URL: the error is set   *)
(* or cleared by what the row says.                                         *)
LEMMA ErrorNotedForRow ==
  ASSUME TypeOK, LockDiscipline, ErrorsBelongToRecorders, UNCHANGED <<stored, row>>,
         NEW c \in Cameras, step[c] \in {"check", "configure", "probe"},
         errors' = WithRecordingError(c), Release(c)
  PROVE  ErrorsBelongToRecorders'
<1>1. ShouldRecord(c)' = ShouldRecord(c)
  BY DEF ShouldRecord, Enabled
<1>2. c \in errors' => ShouldRecord(c)'
  BY <1>1 DEF WithRecordingError, LockDiscipline, ShouldRecord, Enabled
<1>3. \A d \in Cameras \ {c} : step'[d] = step[d] /\ (d \in errors' => d \in errors)
  BY DEF Release, TypeOK, LockType, WithRecordingError
<1>4. errors' \subseteq Cameras
  BY DEF WithRecordingError, TypeOK, MemoryType
<1>. QED
  BY <1>2, <1>3, <1>4, OneCameraJudged

(* The holder of c's lock clears c's error, or c has none. *)
LEMMA ErrorGone ==
  ASSUME TypeOK, ErrorsBelongToRecorders, UNCHANGED <<stored, row>>, NEW c \in Cameras,
         errors' \subseteq errors, c \notin errors',
         Release(c) \/ \E s \in Steps : GoOn(c, s)
  PROVE  ErrorsBelongToRecorders'
<1>1. \A d \in Cameras \ {c} : step'[d] = step[d]
  BY DEF Release, GoOn, TypeOK, LockType
<1>2. errors' \subseteq Cameras
  BY DEF TypeOK, MemoryType
<1>. QED
  BY <1>1, <1>2, OneCameraJudged

(* VmsCameraManager!ErrorsBelongToRecorders, inductive next to              *)
(* LockDiscipline: a camera being probed should have its row, one whose     *)
(* path is being removed has none.                                          *)
THEOREM ErrorsAreOwned == Spec => []ErrorsBelongToRecorders
<1>1. Init => ErrorsBelongToRecorders
  BY DEF Init, ErrorsBelongToRecorders
<1>2. TypeOK /\ LockDiscipline /\ ErrorsBelongToRecorders /\ [Next]_vars
        => ErrorsBelongToRecorders'
  <2> SUFFICES ASSUME TypeOK, LockDiscipline, ErrorsBelongToRecorders, [Next]_vars
               PROVE  ErrorsBelongToRecorders'
    OBVIOUS
  <2>1. ASSUME NEW c \in Cameras, NEW r \in Payloads, Create(c, r) \/ Update(c, r)
        PROVE  ErrorsBelongToRecorders'
    BY <2>1, OneCameraJudged
    DEF Create, Update, Take, memory, TypeOK, DurableType, MemoryType, LockType
  <2>2. ASSUME NEW c \in Cameras, Delete(c)
        PROVE  ErrorsBelongToRecorders'
    BY <2>2, OneCameraJudged DEF Delete, Take, TypeOK, MemoryType, LockType
  <2>3. ASSUME NEW c \in Cameras, Remove(c)
        PROVE  ErrorsBelongToRecorders'
    <3>1. c \notin errors
      BY <2>3
      DEF Remove, LockDiscipline, ErrorsBelongToRecorders, ShouldRecord, Enabled
    <3>. QED
      BY <2>3, <3>1, ErrorGone DEF Remove, durable
  <2>4. ASSUME NEW c \in Cameras, Check(c)
        PROVE  ErrorsBelongToRecorders'
    <3>1. UNCHANGED <<stored, row>>
      BY <2>4 DEF Check, durable
    <3>2. CASE errors' = errors \ {c} /\ GoOn(c, "probe")
      BY <3>1, <3>2, ErrorGone DEF Steps
    <3>3. CASE UNCHANGED errors /\ GoOn(c, "configure")
      BY <3>1, <3>3, OneCameraJudged DEF GoOn, TypeOK, LockType, MemoryType
    <3>4. ASSUME NEW a, ApplyFailed(c, a)
          PROVE  ErrorsBelongToRecorders'
      BY <2>4, <3>1, <3>4, ErrorNotedForRow DEF Check, ApplyFailed
    <3>. QED
      BY <2>4, <3>2, <3>3, <3>4 DEF Check
  <2>5. ASSUME NEW c \in Cameras, EnsurePath(c)
        PROVE  ErrorsBelongToRecorders'
    <3>1. UNCHANGED <<stored, row>>
      BY <2>5 DEF EnsurePath, durable
    <3>2. CASE errors' = errors \ {c} /\ GoOn(c, "probe")
      BY <3>1, <3>2, ErrorGone DEF Steps
    <3>3. CASE errors' = WithRecordingError(c) /\ Release(c)
      BY <2>5, <3>1, <3>3, ErrorNotedForRow DEF EnsurePath
    <3>. QED
      BY <2>5, <3>2, <3>3 DEF EnsurePath, ApplyFailed
  <2>6. ASSUME NEW c \in Cameras, DropPath(c)
        PROVE  ErrorsBelongToRecorders'
    <3>1. UNCHANGED <<stored, row>>
      BY <2>6 DEF DropPath, durable
    <3>2. CASE errors' = errors \ {c} /\ Release(c)
      BY <3>1, <3>2, ErrorGone
    <3>3. CASE errors' = WithRecordingError(c) /\ Release(c)
      BY <2>6, <3>1, <3>3, ErrorNotedForRow DEF DropPath
    <3>. QED
      BY <2>6, <3>2, <3>3 DEF DropPath, ApplyFailed
  <2>7. ASSUME NEW c \in Cameras, Probe(c)
        PROVE  ErrorsBelongToRecorders'
    <3>1. UNCHANGED <<stored, row>>
      BY <2>7 DEF Probe, durable
    <3>2. CASE UNCHANGED errors /\ Release(c)
      <4>1. c \in errors => ShouldRecord(c)'
        BY <2>7, <3>1 DEF Probe, ErrorsBelongToRecorders, ShouldRecord, Enabled
      <4>. QED
        BY <3>1, <3>2, <4>1, OneCameraJudged DEF Release, TypeOK, LockType, MemoryType
    <3>3. CASE errors' = WithRecordingError(c) /\ Release(c)
      BY <2>7, <3>1, <3>3, ErrorNotedForRow DEF Probe
    <3>. QED
      BY <2>7, <3>2, <3>3 DEF Probe, ApplyFailed
  <2>8. ASSUME NEW c \in Cameras, Visit(c)
        PROVE  ErrorsBelongToRecorders'
    <3>1. UNCHANGED <<stored, row, errors>>
      BY <2>8 DEF Visit, durable, memory
    <3>2. CASE Enabled(c)
      <4>1. step'[c] \in {"check", "configure"}
            /\ \A d \in Cameras \ {c} : step'[d] = step[d]
        BY <2>8, <3>2 DEF Visit, Take, TypeOK, LockType
      <4>. QED
        BY <3>1, <4>1, OneCameraJudged DEF TypeOK, MemoryType
    <3>3. CASE ~Enabled(c)
      BY <2>8, <3>1, <3>3, ErrorsOnlyCleared DEF Visit, locks
    <3>. QED
      BY <3>2, <3>3
  <2>9. ASSUME PollStep, ~ \E c \in Cameras : Visit(c)
        PROVE  ErrorsBelongToRecorders'
    <3>1. UNCHANGED <<stored, row, step>> /\ errors' \subseteq errors
      BY <2>9
      DEF PollStep, Wake, ReconcileRows, HealthRows, ListRows, ReconcileList, RemoveStale,
          StaleRemoved, ReconcileDone, HealthList, HealthSeen, HealthSet, SetHealth,
          durable, memory, locks
    <3>. QED
      BY <3>1, ErrorsOnlyCleared
  <2>10. CASE IntervalPasses \/ MediaMTXStops \/ MediaMTXStarts
    BY <2>10, ErrorsOnlyCleared
    DEF IntervalPasses, MediaMTXStops, MediaMTXStarts, durable, memory, locks
  <2>11. CASE BackendRestarts
    BY <2>11 DEF BackendRestarts, ErrorsBelongToRecorders
  <2>12. CASE UNCHANGED vars
    BY <2>12, ErrorsOnlyCleared DEF vars, durable, memory, locks
  <2>. QED
    BY <2>1, <2>2, <2>3, <2>4, <2>5, <2>6, <2>7, <2>8, <2>9, <2>10, <2>11, <2>12
    DEF Next, Operator, HolderStep, Environment
<1>. QED
  BY <1>1, <1>2, TypeCorrect, LocksAreDisciplined, PTL DEF Spec

-----------------------------------------------------------------------------
(* The manager implements the abstract mirror.                             *)

(* The desired configurations, as the refinement mapping sees them. *)
LEMMA DesiredKept ==
  ASSUME UNCHANGED <<stored, row>>
  PROVE  [c \in Cameras |-> Desired(c)]' = [c \in Cameras |-> Desired(c)]
BY DEF Desired

(* A step that writes no row and only loses paths is a Lose step, or a      *)
(* stutter when it loses none.                                              *)
LEMMA LosesPaths ==
  ASSUME TypeOK, UNCHANGED <<stored, row>>,
         paths' \in [Cameras -> PathConfig \cup {NoPath}],
         \A c \in Cameras : paths'[c] \in {paths[c], NoPath}
  PROVE  Mirror!Next
<1> DEFINE S == {c \in Cameras : paths'[c] = NoPath}
<1>1. paths' = [c \in Cameras |-> IF c \in S THEN NoPath ELSE paths[c]]
  BY DEF TypeOK, ExternalType
<1>2. S \in SUBSET Cameras
  OBVIOUS
<1>3. Mirror!Lose
  BY <1>1, <1>2, DesiredKept DEF Mirror!Lose
<1>. QED
  BY <1>3 DEF Mirror!Next

(* Every mutation is an edit of the desired configuration of one camera. *)
LEMMA MutationEdits ==
  ASSUME TypeOK, TypeOK', NEW c \in Cameras, UNCHANGED paths,
         \A d \in Cameras \ {c} : (d \in stored' <=> d \in stored) /\ row'[d] = row[d]
  PROVE  Mirror!Next
<1>1. Desired(c)' \in PathConfig \cup {NoPath}
  BY TargetType DEF TypeOK, DurableType, Desired
<1>2. \A d \in Cameras \ {c} : Desired(d)' = Desired(d)
  BY DEF Desired
<1>3. [d \in Cameras |-> Desired(d)]'
        = [[d \in Cameras |-> Desired(d)] EXCEPT ![c] = Desired(c)']
  BY <1>2
<1>4. Mirror!Edit(c)
  BY <1>1, <1>3 DEF Mirror!Edit
<1>. QED
  BY <1>4 DEF Mirror!Next

(* VmsCameraManager!MirrorsDesiredState: no interleaving of edits, polls,   *)
(* reconciles, failed calls, crashes and restarts makes the media server    *)
(* serve anything but the configuration desired when it was written.        *)
THEOREM ManagerMirrors == Spec => MirrorsDesiredState
<1>1. Init => Mirror!Init
  BY DEF Init, Mirror!Init, Desired
<1>2. TypeOK /\ TypeOK' /\ LockDiscipline /\ [Next]_vars => [Mirror!Next]_Mirror!vars
  <2> SUFFICES ASSUME TypeOK, TypeOK', LockDiscipline, [Next]_vars
               PROVE  [Mirror!Next]_Mirror!vars
    OBVIOUS
  <2>1. ASSUME NEW c \in Cameras, NEW r \in Payloads, Create(c, r) \/ Update(c, r)
        PROVE  Mirror!Next
    BY <2>1, MutationEdits DEF Create, Update, external, TypeOK, DurableType
  <2>2. ASSUME NEW c \in Cameras, Delete(c)
        PROVE  Mirror!Next
    BY <2>2, MutationEdits DEF Delete, external
  <2>3. ASSUME NEW c \in Cameras, EnsurePath(c)
        PROVE  Mirror!Next
    <3>1. UNCHANGED <<stored, row>>
      BY <2>3 DEF EnsurePath, durable
    <3>2. CASE paths' = [paths EXCEPT ![c] = Desired(c)]
      <4>1. Mirror!Mirror(c)
        BY <3>1, <3>2, DesiredKept DEF Mirror!Mirror
      <4>. QED
        BY <4>1 DEF Mirror!Next
    <3>3. CASE paths' = paths
      BY <3>1, <3>3, LosesPaths DEF TypeOK, ExternalType
    <3>4. Target(carried[c]) = Desired(c)
      BY <2>3, CarriesDesired DEF EnsurePath
    <3>. QED
      BY <2>3, <3>2, <3>3, <3>4 DEF EnsurePath, Replaced
  <2>4. ASSUME NEW c \in Cameras, Remove(c) \/ Check(c) \/ DropPath(c) \/ Probe(c)
        PROVE  Mirror!Next
    <3>1. UNCHANGED <<stored, row>> /\ paths' \in {paths, [paths EXCEPT ![c] = NoPath]}
      BY <2>4 DEF Remove, Check, DropPath, Probe, durable, external
    <3>. QED
      BY <3>1, LosesPaths DEF TypeOK, ExternalType
  <2>5. CASE PollStep
    <3>1. UNCHANGED <<stored, row>>
          /\ \/ paths' = paths
             \/ \E c \in Cameras : paths' = [paths EXCEPT ![c] = NoPath]
      BY <2>5
      DEF PollStep, Wake, ReconcileRows, HealthRows, ListRows, ReconcileList, RemoveStale,
          StaleRemoved, Visit, ReconcileDone, HealthList, HealthSeen, HealthSet,
          durable, external
    <3>. QED
      BY <3>1, LosesPaths DEF TypeOK, ExternalType
  <2>6. CASE Environment
    <3>1. UNCHANGED <<stored, row>>
          /\ paths' \in {paths, [c \in Cameras |-> NoPath]}
      BY <2>6
      DEF Environment, IntervalPasses, MediaMTXStops, MediaMTXStarts, BackendRestarts,
          durable, external
    <3>. QED
      BY <3>1, LosesPaths DEF TypeOK, ExternalType
  <2>7. CASE UNCHANGED vars
    <3>1. UNCHANGED <<stored, row, paths>>
      BY <2>7 DEF vars, durable, external
    <3>. QED
      BY <3>1, DesiredKept DEF Mirror!vars
  <2>. QED
    BY <2>1, <2>2, <2>3, <2>4, <2>5, <2>6, <2>7 DEF Next, Operator, HolderStep
<1>. QED
  BY <1>1, <1>2, TypeCorrect, LocksAreDisciplined, PTL DEF Spec, MirrorsDesiredState, Mirror!Spec
=============================================================================
