----------------------- MODULE SimulatorCamera_proofs -----------------------
(***************************************************************************)
(* Proofs about SimulatorCamera for every bound, whatever clients do, also *)
(* while the create of the camera has not ended.                           *)
(***************************************************************************)
EXTENDS SimulatorCamera, TLAPS

-----------------------------------------------------------------------------
(* The inductive invariant, in named parts.                                *)

(* Which operations get where. *)
Route ==
  /\ at = "idle" <=> op = "none"
  /\ at = "write" => op = "update"
  /\ at = "cleanup" => op \in {"update", "delete"}
  /\ at = "delete" => op = "delete"
  /\ at \in {"start", "spawn", "grace"} => op \in {"create", "start", "restart"}
  /\ op = "create" => at \in {"start", "spawn", "grace"}
  /\ at \in {"stop", "signal", "wait"} => op \in {"stop", "restart", "delete"}
  /\ again => op = "update"
  /\ at \in {"wait", "grace"} => managed # None

(* Every process is owed to an operation or to a restart. *)
Owed ==
  (IF creating THEN 1 ELSE 0) + (IF at \in {"idle", "grace"} THEN 0 ELSE 1)
Budget == last + Owed <= ops + restarts

TypeInv == TypeOK /\ Route /\ Budget

(* A camera an operation works on is stored, until the operation deletes    *)
(* it; only the start of a create, which ends the create, may come later.   *)
Stored ==
  /\ creating => life # "unborn"
  /\ at # "idle" =>
       IF op = "create" THEN life # "unborn" /\ ~creating
       ELSE life = IF at = "cleanup" /\ op = "delete" THEN "deleted" ELSE "stored"

(* What the registry says at the places that rely on it. *)
Registry ==
  /\ at \in {"delete", "spawn"} \/ (at = "start" /\ op = "restart") => ~IsRunning
  /\ life = "unborn" => ~IsRunning
  /\ at = "wait" => registered \in {managed, None}
  /\ at = "grace" => registered = managed /\ process[managed].supervisor = "none"

PublisherInv == Stored /\ Registry /\ OnePublisher

(* The files a step is about to delete, or a row is about to name. *)
Uploaded(record) == record.config.source \in files \cup {Mounted}
FileInv ==
  /\ RowHasItsSource
  /\ at \in {"write", "cleanup"} => life # "unborn"
  /\ at = "write" => Uploaded(carried)
  /\ at = "cleanup" /\ life = "stored" => row.config.source \notin old

(* What the publisher runs, what is stored, and what the holder carries. *)
Restarting ==
  \/ at = "cleanup" /\ again
  \/ op = "restart" /\ at \in {"stop", "signal", "wait"}
RunsInv ==
  /\ life = "stored" /\ IsRunning =>
       \/ process[registered].runs = row.config
       \/ Restarting
       \/ process[registered].stray = "outdated"
  /\ creating /\ IsRunning => process[registered].stray # "outdated"
  /\ at = "write" => again \/ ~IsRunning \/ carried.config = row.config
  /\ at \in {"start", "spawn", "grace"} /\ op # "create" => carried.config = row.config
  /\ Restarting => carried.config = row.config

(* The status, by the place of the holder and by what is still to happen.   *)
(* Before the holder writes one, the row has that of its record, unless the *)
(* end of a create has come between.                                        *)
Unhandled(p) ==
  \/ process[p].supervisor = "calling"
  \/ process[p].supervisor = "watching" /\ ~Alive(p) /\ ~process[p].requested
Backed == IsRunning \/ \E p \in Publishers : Unhandled(p)
Mislabelled == process[registered].stray = "mislabelled"
CarriedStatus ==
  /\ at \in {"write", "cleanup", "stop", "start"} /\ op # "create" /\ life = "stored" =>
       row.status \in {carried.status, "stopped"}
  /\ at = "write" =>
       /\ carried.status \notin Transitional
       /\ carried.status = "running" => Backed
       /\ IsRunning => carried.status = "running" \/ Mislabelled
RowStatus ==
  /\ at \in {"spawn", "grace"} => row.status # "running"
  /\ at \in {"signal", "wait"} /\ op # "delete" => row.status # "running"
  /\ row.status \in Transitional =>
       at \in {"spawn", "grace"} \/ (at \in {"signal", "wait"} /\ op # "delete")
  /\ life # "stored" => row.status = "created"
  /\ life = "stored" /\ IsRunning =>
       row.status = "running" \/ at \in {"signal", "wait", "grace"} \/ Mislabelled
  /\ row.status = "running" /\ op # "delete" => Backed
Supervised ==
  /\ IsRunning /\ at # "grace" => process[registered].supervisor = "watching"
  /\ IsRunning /\ process[registered].requested => at = "wait"
StatusInv == CarriedStatus /\ RowStatus /\ Supervised

-----------------------------------------------------------------------------
(* Facts about the helpers.                                                *)

(* The placeholders have their types. *)
LEMMA Placeholders ==
  NoRecord \in Record /\ NoProcess \in Process /\ Forgotten \in Process
BY DEF NoRecord, Record, Status, NoConfig, Config, Mounted, NoProcess, Process, Forgotten,
       Strays

(* A status keeps a record a record. *)
LEMMA StatusType ==
  ASSUME TypeOK, NEW s \in Status, SetStatus(s)
  PROVE  row' \in Record
BY DEF TypeOK, SetStatus, Record

(* The holder of the lock releases it. *)
LEMMA DoneType ==
  ASSUME Done
  PROVE  /\ op' \in Ops /\ at' \in Places /\ carried' \in Record
         /\ managed' \in Publishers \cup {None} /\ again' \in BOOLEAN
         /\ old' \subseteq Uploads
BY Placeholders DEF Done, Ops, Places

-----------------------------------------------------------------------------
(* Every variable keeps its type.                                          *)

(* Operations of the API, and the end of a creation. *)
LEMMA ApiKeepsTypes ==
  ASSUME TypeInv, Api \/ CreateStarts \/ CreateStops
  PROVE  TypeInv'
<1>. USE BoundsAssumption DEF TypeInv
<1>1. ASSUME NEW auto \in BOOLEAN, NEW config \in Config, Create(auto, config)
      PROVE  TypeInv'
  <2>1. row' \in Record
    BY <1>1 DEF Create, Record, Status
  <2>2. files' \subseteq Uploads
    BY <1>1 DEF Create, TypeOK
  <2>3. TypeOK'
    BY <1>1, <2>1, <2>2 DEF Create, TypeOK, processes, lock
  <2>4. Route'
    BY <1>1 DEF Create, Route, lock
  <2>5. Budget'
    BY <1>1 DEF Create, TypeOK, Budget, Owed, Publishers, None, processes, lock
  <2>. QED
    BY <2>3, <2>4, <2>5
<1>2. ASSUME NEW auto \in BOOLEAN, NEW config \in Config, Update(auto, config)
      PROVE  TypeInv'
  <2>1. carried' \in Record
    BY <1>2 DEF Update, Take, TypeOK, Record
  <2>2. files' \subseteq Uploads
    BY <1>2 DEF Update, TypeOK
  <2>3. again' \in BOOLEAN
    BY <1>2 DEF Update
  <2>4. TypeOK'
    BY <1>2, <2>1, <2>2, <2>3 DEF Update, Take, TypeOK, processes, creation, Ops, Places
  <2>5. Route'
    BY <1>2 DEF Update, Take, Route
  <2>6. Budget'
    BY <1>2 DEF Update, Take, TypeOK, Budget, Owed, Publishers, None, processes, creation
  <2>. QED
    BY <2>4, <2>5, <2>6
<1>3. CASE Start \/ Stop \/ Restart \/ Delete
  <2>1. TypeOK'
    BY <1>3
    DEF Start, Stop, Restart, Delete, Take, TypeOK, durable, processes, creation, Ops,
        Places
  <2>2. Route'
    BY <1>3 DEF Start, Stop, Restart, Delete, Take, Route
  <2>3. Budget'
    BY <1>3
    DEF Start, Stop, Restart, Delete, Take, TypeOK, Budget, Owed, Publishers, None,
        processes, creation
  <2>. QED
    BY <2>1, <2>2, <2>3
<1>4. CASE CreateStarts
  <2>1. TypeOK'
    BY <1>4, Placeholders
    DEF CreateStarts, TypeOK, Ops, Places, durable, processes, bounds
  <2>2. Route'
    BY <1>4 DEF CreateStarts, Route
  <2>3. Budget'
    BY <1>4
    DEF CreateStarts, TypeOK, Budget, Owed, Publishers, None, processes, bounds
  <2>. QED
    BY <2>1, <2>2, <2>3
<1>5. CASE CreateStops
  <2>1. row' \in Record
    BY <1>5, StatusType DEF CreateStops, TypeOK, Status
  <2>2. process' \in [Publishers -> Process]
    BY <1>5 DEF CreateStops, TypeOK, Process, Strays
  <2>3. TypeOK'
    BY <1>5, <2>1, <2>2, Placeholders DEF CreateStops, TypeOK, lock, bounds
  <2>4. Route'
    BY <1>5 DEF CreateStops, Route, lock
  <2>5. Budget'
    BY <1>5 DEF CreateStops, TypeOK, Budget, Owed, Publishers, None, lock, bounds
  <2>. QED
    BY <2>3, <2>4, <2>5
<1>. QED
  BY <1>1, <1>2, <1>3, <1>4, <1>5 DEF Api

(* The rest of an update or a deletion. *)
LEMMA EditKeepsTypes ==
  ASSUME TypeInv, UpdateWrites \/ UpdateRefused \/ Cleanup \/ DeleteRow
  PROVE  TypeInv'
<1>. USE BoundsAssumption DEF TypeInv, HolderOnly
<1>1. CASE UpdateWrites
  <2>1. row' \in Record
    BY <1>1 DEF UpdateWrites, TypeOK
  <2>2. /\ op' \in Ops /\ at' \in Places /\ carried' \in Record
        /\ managed' \in Publishers \cup {None} /\ again' \in BOOLEAN
        /\ old' \subseteq Uploads
    BY <1>1, DoneType DEF UpdateWrites, TypeOK, Ops, Places, Replaced
  <2>3. TypeOK'
    BY <1>1, <2>1, <2>2 DEF UpdateWrites, TypeOK, processes, creation
  <2>4. Route'
    BY <1>1 DEF UpdateWrites, Route
  <2>5. Budget'
    BY <1>1
    DEF UpdateWrites, TypeOK, Budget, Owed, Publishers, None, Route, processes, creation
  <2>. QED
    BY <2>3, <2>4, <2>5
<1>2. CASE UpdateRefused
  <2>1. /\ op' \in Ops /\ at' \in Places /\ carried' \in Record
        /\ managed' \in Publishers \cup {None} /\ again' \in BOOLEAN
        /\ old' \subseteq Uploads
    BY <1>2, DoneType DEF UpdateRefused, TypeOK, Ops, Places
  <2>2. TypeOK'
    BY <1>2, <2>1 DEF UpdateRefused, TypeOK, Fault, processes, creation
  <2>3. Route'
    BY <1>2 DEF UpdateRefused, Route, Done
  <2>4. Budget'
    BY <1>2
    DEF UpdateRefused, TypeOK, Budget, Owed, Publishers, None, Done, Route, Fault,
        processes, creation
  <2>. QED
    BY <2>2, <2>3, <2>4
<1>3. CASE Cleanup
  <2>1. /\ op' \in Ops /\ at' \in Places /\ carried' \in Record
        /\ managed' \in Publishers \cup {None} /\ again' \in BOOLEAN
        /\ old' \subseteq Uploads
    BY <1>3, DoneType DEF Cleanup, TypeOK, Ops, Places
  <2>2. TypeOK'
    BY <1>3, <2>1 DEF Cleanup, TypeOK, processes, creation, bounds
  <2>3. Route'
    BY <1>3 DEF Cleanup, Route, Done
  <2>4. Budget'
    BY <1>3
    DEF Cleanup, TypeOK, Budget, Owed, Publishers, None, Done, Route, processes,
        creation, bounds
  <2>. QED
    BY <2>2, <2>3, <2>4
<1>4. CASE DeleteRow
  <2>1. row' \in Record
    BY <1>4, Placeholders DEF DeleteRow
  <2>2. /\ op' \in Ops /\ at' \in Places /\ carried' \in Record
        /\ managed' \in Publishers \cup {None} /\ again' \in BOOLEAN
        /\ old' \subseteq Uploads
    BY <1>4, DoneType DEF DeleteRow, TypeOK, Ops, Places
  <2>3. TypeOK'
    BY <1>4, <2>1, <2>2 DEF DeleteRow, TypeOK, processes, creation, bounds
  <2>4. Route'
    BY <1>4 DEF DeleteRow, Route
  <2>5. Budget'
    BY <1>4
    DEF DeleteRow, TypeOK, Budget, Owed, Publishers, None, Route, processes, creation,
        bounds
  <2>. QED
    BY <2>3, <2>4, <2>5
<1>. QED
  BY <1>1, <1>2, <1>3, <1>4 DEF HolderStep

(* A stop. *)
LEMMA StopKeepsTypes ==
  ASSUME TypeInv, StopBegins \/ Signal \/ Stopped
  PROVE  TypeInv'
<1>. USE BoundsAssumption DEF TypeInv, HolderOnly
<1>1. CASE StopBegins
  <2>1. row' \in Record
    BY <1>1, StatusType DEF StopBegins, Ensure, Persist, TypeOK, Status
  <2>2. /\ op' \in Ops /\ at' \in Places /\ carried' \in Record
        /\ managed' \in Publishers \cup {None} /\ again' \in BOOLEAN
        /\ old' \subseteq Uploads
    BY <1>1, DoneType DEF StopBegins, TypeOK, Ops, Places, AfterStop, GoTo
  <2>3. TypeOK'
    BY <1>1, <2>1, <2>2 DEF StopBegins, TypeOK, processes, creation
  <2>4. Route'
    BY <1>1 DEF StopBegins, Route, Done, GoTo, AfterStop
  <2>5. Budget'
    BY <1>1
    DEF StopBegins, TypeOK, Budget, Owed, Publishers, None, Done, GoTo, AfterStop,
        Route, processes, creation
  <2>. QED
    BY <2>3, <2>4, <2>5
<1>2. CASE Signal
  <2>1. row' \in Record
    BY <1>2, StatusType DEF Signal, Persist, TypeOK, Status
  <2>2. /\ op' \in Ops /\ at' \in Places /\ carried' \in Record
        /\ managed' \in Publishers \cup {None} /\ again' \in BOOLEAN
        /\ old' \subseteq Uploads
    BY <1>2, DoneType DEF Signal, TypeOK, Ops, Places, AfterStop, GoTo
  <2>6. process' \in [Publishers -> Process]
    BY <1>2 DEF Signal, TypeOK, Process
  <2>3. TypeOK'
    BY <1>2, <2>1, <2>2, <2>6 DEF Signal, TypeOK, creation
  <2>4. Route'
    BY <1>2 DEF Signal, Route, Done, GoTo, AfterStop
  <2>5. Budget'
    BY <1>2
    DEF Signal, TypeOK, Budget, Owed, Publishers, None, Done, GoTo, AfterStop, Route,
        creation
  <2>. QED
    BY <2>3, <2>4, <2>5
<1>3. CASE Stopped
  <2>1. row' \in Record
    BY <1>3, StatusType DEF Stopped, Persist, TypeOK, Status
  <2>2. /\ op' \in Ops /\ at' \in Places /\ carried' \in Record
        /\ managed' \in Publishers \cup {None} /\ again' \in BOOLEAN
        /\ old' \subseteq Uploads
    BY <1>3, DoneType DEF Stopped, TypeOK, Ops, Places, AfterStop, GoTo
  <2>3. TypeOK'
    BY <1>3, <2>1, <2>2 DEF Stopped, TypeOK, creation, Fault, Unregister
  <2>4. Route'
    BY <1>3 DEF Stopped, Route, Done, GoTo, AfterStop
  <2>5. Budget'
    BY <1>3
    DEF Stopped, TypeOK, Budget, Owed, Publishers, None, Done, GoTo, AfterStop, Route,
        creation, Fault
  <2>. QED
    BY <2>3, <2>4, <2>5
<1>. QED
  BY <1>1, <1>2, <1>3 DEF HolderStep

(* A start. *)
LEMMA StartKeepsTypes ==
  ASSUME TypeInv, StartBegins \/ SpawnFails \/ Spawn \/ EarlyExit \/ Survives
  PROVE  TypeInv'
<1>. USE BoundsAssumption DEF TypeInv, HolderOnly
<1>1. CASE StartBegins
  <2>1. row' \in Record
    BY <1>1, StatusType DEF StartBegins, Ensure, Persist, TypeOK, Status
  <2>2. /\ op' \in Ops /\ at' \in Places /\ carried' \in Record
        /\ managed' \in Publishers \cup {None} /\ again' \in BOOLEAN
        /\ old' \subseteq Uploads
    BY <1>1, DoneType DEF StartBegins, TypeOK, Ops, Places, GoTo
  <2>3. TypeOK'
    BY <1>1, <2>1, <2>2 DEF StartBegins, TypeOK, processes, creation
  <2>4. Route'
    BY <1>1 DEF StartBegins, Route, Done, GoTo
  <2>5. Budget'
    BY <1>1
    DEF StartBegins, TypeOK, Budget, Owed, Publishers, None, Done, GoTo, Route,
        processes, creation
  <2>. QED
    BY <2>3, <2>4, <2>5
<1>2. CASE SpawnFails
  <2>1. row' \in Record
    BY <1>2, StatusType DEF SpawnFails, TypeOK, Status
  <2>2. /\ op' \in Ops /\ at' \in Places /\ carried' \in Record
        /\ managed' \in Publishers \cup {None} /\ again' \in BOOLEAN
        /\ old' \subseteq Uploads
    BY <1>2, DoneType DEF SpawnFails, TypeOK, Ops, Places
  <2>3. TypeOK'
    BY <1>2, <2>1, <2>2 DEF SpawnFails, TypeOK, processes, creation, Fault
  <2>4. Route'
    BY <1>2 DEF SpawnFails, Route, Done
  <2>5. Budget'
    BY <1>2
    DEF SpawnFails, TypeOK, Budget, Owed, Publishers, None, Done, Route, processes,
        creation, Fault
  <2>. QED
    BY <2>3, <2>4, <2>5
<1>3. CASE Spawn
  <2>1. last + 1 \in Publishers
    BY <1>3 DEF Spawn, TypeOK, Budget, Owed, Publishers, None
  <2>2. row' \in Record /\ managed' \in Publishers /\ registered' \in Publishers
    BY <1>3, <2>1 DEF Spawn, TypeOK
  <2>3. [NoProcess EXCEPT !.state = "alive", !.runs = carried.config, !.stray = Stray]
          \in Process
    BY DEF TypeOK, NoProcess, Process, Record, Stray, Strays
  <2>4. process' \in [Publishers -> Process]
    BY <1>3, <2>3 DEF Spawn, TypeOK
  <2>5. TypeOK'
    BY <1>3, <2>1, <2>2, <2>4 DEF Spawn, TypeOK, Places, creation
  <2>6. Route'
    BY <1>3, <2>2 DEF Spawn, Route, Publishers, None
  <2>7. Budget'
    BY <1>3 DEF Spawn, TypeOK, Budget, Owed, Publishers, None, creation
  <2>. QED
    BY <2>5, <2>6, <2>7
<1>4. CASE EarlyExit
  <2>1. row' \in Record
    BY <1>4, StatusType DEF EarlyExit, TypeOK, Status
  <2>2. /\ op' \in Ops /\ at' \in Places /\ carried' \in Record
        /\ managed' \in Publishers \cup {None} /\ again' \in BOOLEAN
        /\ old' \subseteq Uploads
    BY <1>4, DoneType DEF EarlyExit, TypeOK, Ops, Places
  <2>3. TypeOK'
    BY <1>4, <2>1, <2>2, Placeholders DEF EarlyExit, TypeOK, creation, Unregister
  <2>4. Route'
    BY <1>4 DEF EarlyExit, Route, Done
  <2>5. Budget'
    BY <1>4 DEF EarlyExit, TypeOK, Budget, Owed, Publishers, None, Done, Route, creation
  <2>. QED
    BY <2>3, <2>4, <2>5
<1>5. CASE Survives
  <2>1. row' \in Record
    BY <1>5, StatusType DEF Survives, TypeOK, Status
  <2>2. /\ op' \in Ops /\ at' \in Places /\ carried' \in Record
        /\ managed' \in Publishers \cup {None} /\ again' \in BOOLEAN
        /\ old' \subseteq Uploads
    BY <1>5, DoneType DEF Survives, TypeOK, Ops, Places
  <2>3. TypeOK'
    BY <1>5, <2>1, <2>2 DEF Survives, TypeOK, creation, Process
  <2>4. Route'
    BY <1>5 DEF Survives, Route, Done
  <2>5. Budget'
    BY <1>5 DEF Survives, TypeOK, Budget, Owed, Publishers, None, Done, Route, creation
  <2>. QED
    BY <2>3, <2>4, <2>5
<1>. QED
  BY <1>1, <1>2, <1>3, <1>4, <1>5 DEF HolderStep

(* Exits, supervisors, the mounted file and restarts of the service. *)
LEMMA EnvironmentKeepsTypes ==
  ASSUME TypeInv,
         \/ \E p \in Publishers : Supervise(p) \/ ExitCallback(p) \/ Exits(p)
         \/ MountedFileChanges \/ ServiceRestarts
  PROVE  TypeInv'
<1>. USE BoundsAssumption DEF TypeInv
<1>1. ASSUME NEW p \in Publishers, Supervise(p) \/ ExitCallback(p) \/ Exits(p)
      PROVE  TypeInv'
  <2>1. process' \in [Publishers -> Process]
    BY <1>1, Placeholders DEF Supervise, ExitCallback, Exits, TypeOK, Process
  <2>2. row' \in Record
    BY <1>1, StatusType
    DEF Supervise, ExitCallback, Exits, AfterExit, TypeOK, Status, durable
  <2>3. TypeOK'
    BY <1>1, <2>1, <2>2
    DEF Supervise, ExitCallback, Exits, Unregister, TypeOK, durable, lock, creation,
        bounds
  <2>4. Route'
    BY <1>1 DEF Supervise, ExitCallback, Exits, Route, lock
  <2>5. Budget'
    BY <1>1 DEF Supervise, ExitCallback, Exits, Budget, Owed, lock, creation, bounds
  <2>. QED
    BY <2>3, <2>4, <2>5
<1>2. CASE MountedFileChanges
  <2>1. TypeOK'
    BY <1>2 DEF MountedFileChanges, Fault, TypeOK, processes, lock, creation
  <2>2. Route' /\ Budget'
    BY <1>2 DEF MountedFileChanges, Route, Budget, Owed, processes, lock, creation
  <2>. QED
    BY <2>1, <2>2
<1>3. CASE ServiceRestarts
  <2>1. row' \in Record
    BY <1>3, StatusType DEF ServiceRestarts, TypeOK, Status
  <2>2. process' \in [Publishers -> Process]
    BY <1>3, Placeholders DEF ServiceRestarts
  <2>3. /\ op' \in Ops /\ at' \in Places /\ carried' \in Record
        /\ managed' \in Publishers \cup {None} /\ again' \in BOOLEAN
        /\ old' \subseteq Uploads
    BY <1>3, <2>1, DoneType DEF ServiceRestarts, Ops, Places
  <2>4. registered' = None /\ creating' = FALSE /\ created' \in Record
    BY <1>3, Placeholders DEF ServiceRestarts
  <2>5. /\ restarts' \in 0..MaxRestarts
        /\ UNCHANGED <<life, files, mounted, last, ops, faults>>
    BY <1>3 DEF ServiceRestarts, TypeOK
  <2>6. TypeOK'
    BY <2>1, <2>2, <2>3, <2>4, <2>5 DEF TypeOK
  <2>7. Route'
    BY <1>3 DEF ServiceRestarts, Done, Route
  <2>8. Budget'
    BY <1>3 DEF ServiceRestarts, Done, TypeOK, Budget, Owed, Publishers, None
  <2>. QED
    BY <2>6, <2>7, <2>8
<1>. QED
  BY <1>1, <1>2, <1>3

-----------------------------------------------------------------------------
(* Types, and what they are for.                                           *)

(* The initial state has the inductive invariant of the types. *)
LEMMA InitTypes == Init => TypeInv
<1>1. SUFFICES ASSUME Init PROVE TypeInv
  OBVIOUS
<1>2. process \in [Publishers -> Process]
  BY <1>1, Placeholders DEF Init
<1>3. ops \in 0..MaxOps /\ faults \in 0..MaxFaults /\ restarts \in 0..MaxRestarts
  BY <1>1, BoundsAssumption DEF Init
<1>4. TypeOK
  BY <1>1, <1>2, <1>3, Placeholders DEF Init, TypeOK, Ops, Places
<1>5. Route /\ Budget
  BY <1>1 DEF Init, Route, Budget, Owed, None
<1>. QED
  BY <1>4, <1>5 DEF TypeInv

(* And every step keeps it. *)
LEMMA StepTypes == TypeInv /\ [Next]_vars => TypeInv'
<1>1. CASE UNCHANGED vars
  BY <1>1
  DEF vars, durable, processes, lock, creation, bounds, TypeInv, TypeOK, Route, Budget, Owed
<1>. QED
  BY <1>1, ApiKeepsTypes, EditKeepsTypes, StopKeepsTypes, StartKeepsTypes,
     EnvironmentKeepsTypes
  DEF Next, HolderStep

(* Every variable holds a value of its type in every reachable state.  In   *)
(* particular there is always a fresh process id for the next publisher.    *)
THEOREM TypeCorrect == Spec => []TypeOK
<1>1. TypeInv => TypeOK
  BY DEF TypeInv
<1>. QED
  BY <1>1, InitTypes, StepTypes, PTL DEF Spec

-----------------------------------------------------------------------------
(* One publisher.                                                          *)

(* The end of a create without a start does nothing to a process but to     *)
(* mark the one whose camera it calls STOPPED.                              *)
LEMMA MislabelsOne ==
  ASSUME TypeOK, CreateStops
  PROVE  /\ \A p \in Publishers :
              /\ process'[p].state = process[p].state
              /\ process'[p].supervisor = process[p].supervisor
              /\ process'[p].runs = process[p].runs
              /\ process'[p].requested = process[p].requested
              /\ \/ process'[p].stray = process[p].stray
                 \/ /\ process'[p].stray = "mislabelled"
                    /\ life = "stored" /\ p = registered
         /\ life = "stored" /\ IsRunning /\ row.status = "running" =>
              process'[registered].stray = "mislabelled"
<1>1. CASE life = "stored" /\ IsRunning /\ row.status = "running"
  <2>1. registered \in Publishers /\ process[registered] \in Process
    BY <1>1 DEF IsRunning, TypeOK
  <2>2. process' = [process EXCEPT ![registered].stray = "mislabelled"]
    BY <1>1 DEF CreateStops
  <2>3. process'[registered] = [process[registered] EXCEPT !.stray = "mislabelled"]
    BY <2>1, <2>2 DEF TypeOK
  <2>4. \A p \in Publishers \ {registered} : process'[p] = process[p]
    BY <2>2 DEF TypeOK
  <2>. QED
    BY <1>1, <2>1, <2>3, <2>4 DEF Process
<1>2. CASE ~(life = "stored" /\ IsRunning /\ row.status = "running")
  BY <1>2 DEF CreateStops
<1>. QED
  BY <1>1, <1>2

(* Operations of the API, and the end of a create: none starts or stops a   *)
(* process.                                                                 *)
LEMMA ApiKeepsPublisher ==
  ASSUME TypeInv, PublisherInv, Api \/ CreateStarts \/ CreateStops
  PROVE  PublisherInv'
<1>. USE DEF PublisherInv, Stored, Registry, OnePublisher, IsRunning, Alive
<1>1. ASSUME NEW auto \in BOOLEAN, NEW config \in Config, Create(auto, config)
      PROVE  PublisherInv'
  BY <1>1 DEF Create, TypeInv, TypeOK, Route, processes, lock
<1>2. ASSUME NEW auto \in BOOLEAN, NEW config \in Config, Update(auto, config)
      PROVE  PublisherInv'
  BY <1>2 DEF Update, Take, processes, creation
<1>3. CASE Start \/ Stop \/ Restart \/ Delete
  BY <1>3 DEF Start, Stop, Restart, Delete, Take, durable, processes, creation
<1>4. CASE CreateStarts
  BY <1>4 DEF CreateStarts, durable, processes
<1>5. CASE CreateStops
  <2>1. \A p \in Publishers :
          /\ process'[p].state = process[p].state
          /\ process'[p].supervisor = process[p].supervisor
          /\ process'[p].stray = process[p].stray \/ life = "stored"
    BY <1>5, MislabelsOne DEF TypeInv
  <2>. QED
    BY <1>5, <2>1 DEF CreateStops, TypeInv, TypeOK, Route, lock
<1>. QED
  BY <1>1, <1>2, <1>3, <1>4, <1>5 DEF Api

(* Steps under the lock: only a start spawns, after a stop or a check that  *)
(* left no live process, and a row goes only after its publisher.           *)
LEMMA HolderKeepsPublisher ==
  ASSUME TypeInv, PublisherInv, HolderStep
  PROVE  PublisherInv'
<1>. USE DEF PublisherInv, Stored, Registry, OnePublisher, IsRunning, Alive, HolderOnly
<1>1. CASE UpdateWrites
  BY <1>1 DEF UpdateWrites, TypeInv, Route, processes, creation
<1>2. CASE UpdateRefused
  BY <1>2 DEF UpdateRefused, Done, processes, creation
<1>3. CASE Cleanup
  BY <1>3 DEF Cleanup, Done, TypeInv, Route, processes, creation
<1>4. CASE DeleteRow
  BY <1>4 DEF DeleteRow, TypeInv, Route, None, Publishers, processes, creation
<1>5. CASE StopBegins
  BY <1>5 DEF StopBegins, AfterStop, GoTo, Done, processes, creation
<1>6. CASE Signal
  <2>1. \A p \in Publishers : /\ process'[p].state = process[p].state
                             /\ process'[p].stray = process[p].stray
    BY <1>6 DEF Signal, TypeInv, TypeOK, Process
  <2>. QED
    BY <1>6, <2>1 DEF Signal, AfterStop, GoTo, Done, TypeInv, TypeOK, creation
<1>7. CASE Stopped
  <2>1. ~IsRunning'
    BY <1>7 DEF Stopped, Unregister, TypeInv, Route
  <2>. QED
    BY <1>7, <2>1 DEF Stopped, Unregister, AfterStop, GoTo, Done, TypeInv, TypeOK, creation
<1>8. CASE StartBegins
  BY <1>8 DEF StartBegins, GoTo, Done, processes, creation
<1>9. CASE SpawnFails
  BY <1>9 DEF SpawnFails, Done, processes, creation
<1>10. CASE Spawn
  <2>1. last + 1 \in Publishers
    BY <1>10, BoundsAssumption DEF Spawn, TypeInv, TypeOK, Budget, Owed, Publishers, None
  <2>2. \A p \in Publishers \ {last + 1} : process'[p] = process[p]
    BY <1>10, <2>1 DEF Spawn, TypeInv, TypeOK
  <2>3. \A p \in Publishers : ~Alive(p)
    BY <1>10, <2>1 DEF Spawn, None, Publishers
  <2>4. process'[last + 1].supervisor = "none" /\ process'[last + 1].stray = Stray
    BY <1>10, <2>1 DEF Spawn, NoProcess, TypeInv, TypeOK
  <2>5. life = "stored" \/ Stray = "orphan"
    BY <1>10 DEF Spawn, Stray, TypeInv, TypeOK
  <2>. QED
    BY <1>10, <2>1, <2>2, <2>3, <2>4, <2>5 DEF Spawn, None, Publishers, creation
<1>11. CASE EarlyExit
  BY <1>11 DEF EarlyExit, Unregister, Done, Forgotten, TypeInv, TypeOK, creation
<1>12. CASE Survives
  <2>1. \A p \in Publishers : /\ process'[p].state = process[p].state
                             /\ process'[p].stray = process[p].stray
    BY <1>12 DEF Survives, TypeInv, TypeOK, Process
  <2>. QED
    BY <1>12, <2>1 DEF Survives, Done, TypeInv, TypeOK, creation
<1>. QED
  BY <1>1, <1>2, <1>3, <1>4, <1>5, <1>6, <1>7, <1>8, <1>9, <1>10, <1>11, <1>12
  DEF HolderStep

(* Outside the lock nothing starts, and the processes nobody is supervising *)
(* yet are left to the start that spawned them.                             *)
LEMMA ExitsAreFinal ==
  ASSUME TypeOK, NEW p \in Publishers, Supervise(p) \/ ExitCallback(p) \/ Exits(p),
         NEW q \in Publishers
  PROVE  /\ process'[q].state = "alive" =>
              /\ Alive(q) /\ process'[q].runs = process[q].runs
              /\ process'[q].stray = process[q].stray
         /\ process[q].supervisor = "none" => process'[q].supervisor = "none"
<1>1. CASE q # p
  BY <1>1 DEF Supervise, ExitCallback, Exits, TypeOK, Alive
<1>2. CASE q = p /\ Supervise(p)
  BY <1>2 DEF Supervise, Forgotten, NoProcess, TypeOK, Process, Alive
<1>3. CASE q = p /\ ExitCallback(p)
  BY <1>3 DEF ExitCallback, Forgotten, NoProcess, TypeOK, Process, Alive
<1>4. CASE q = p /\ Exits(p)
  BY <1>4 DEF Exits, TypeOK, Process, Alive
<1>. QED
  BY <1>1, <1>2, <1>3, <1>4

(* Around the lock: only processes that have exited are unregistered.      *)
LEMMA EnvironmentKeepsPublisher ==
  ASSUME TypeInv, PublisherInv,
         \/ \E p \in Publishers : Supervise(p) \/ ExitCallback(p) \/ Exits(p)
         \/ MountedFileChanges \/ ServiceRestarts
  PROVE  PublisherInv'
<1>. USE DEF PublisherInv, Stored, Registry, OnePublisher, IsRunning, Alive
<1>1. ASSUME NEW p \in Publishers, Supervise(p) \/ ExitCallback(p) \/ Exits(p)
      PROVE  PublisherInv'
  <2>1. \A q \in Publishers : process'[q].state = "alive" =>
                               Alive(q) /\ process'[q].stray = process[q].stray
    BY <1>1, ExitsAreFinal DEF TypeInv
  <2>2. registered' = registered \/ (registered' = None /\ registered = p /\ ~Alive(p))
    BY <1>1 DEF Supervise, ExitCallback, Exits, Unregister
  <2>3. UNCHANGED <<life, creating, op, at, managed>>
    BY <1>1 DEF Supervise, ExitCallback, Exits, durable, lock, creation
  <2>4. Registry'
    <3>1. at = "grace" => registered' = managed /\ process'[managed].supervisor = "none"
      BY <1>1, <2>2, ExitsAreFinal
      DEF Supervise, ExitCallback, Exits, lock, TypeInv, TypeOK, Route
    <3>. QED
      BY <2>1, <2>2, <2>3, <3>1 DEF TypeInv, TypeOK
  <2>. QED
    BY <2>1, <2>2, <2>3, <2>4 DEF TypeInv, TypeOK
<1>2. CASE MountedFileChanges
  BY <1>2 DEF MountedFileChanges, processes, lock, creation
<1>3. CASE ServiceRestarts
  BY <1>3 DEF ServiceRestarts, Done, NoProcess, Forgotten, TypeInv, TypeOK
<1>. QED
  BY <1>1, <1>2, <1>3

(* So every step keeps it. *)
LEMMA StepPublisher == TypeInv /\ PublisherInv /\ [Next]_vars => PublisherInv'
<1>1. PublisherInv /\ UNCHANGED vars => PublisherInv'
  BY DEF vars, durable, processes, lock, creation, PublisherInv, Stored, Registry,
         OnePublisher, IsRunning, Alive
<1>. QED
  BY <1>1, ApiKeepsPublisher, HolderKeepsPublisher, EnvironmentKeepsPublisher DEF Next

(* No camera ever has two live publishers, and none survives outside the    *)
(* registry, where nothing could stop it, whatever clients do and whatever  *)
(* exits, callbacks and restarts come between the steps of the operations.  *)
(* None survives its camera but the one that a create started after its     *)
(* camera had been deleted.                                                 *)
THEOREM OnePublisherOnly == Spec => []OnePublisher
<1>1. Init => PublisherInv
  BY DEF Init, PublisherInv, Stored, Registry, OnePublisher, IsRunning, Alive, NoProcess
<1>2. PublisherInv => OnePublisher
  BY DEF PublisherInv
<1>. QED
  BY <1>1, <1>2, InitTypes, StepTypes, StepPublisher, PTL DEF Spec

-----------------------------------------------------------------------------
(* Files.                                                                  *)

(* A new status leaves the rest of the row alone. *)
LEMMA StatusKeepsConfig ==
  ASSUME TypeOK, NEW s, SetStatus(s) \/ Persist(s) \/ Ensure(s)
  PROVE  row'.config = row.config
BY DEF TypeOK, Record, SetStatus, Persist, Ensure

(* Most steps touch neither the storage nor what a row names. *)
LEMMA FilesUntouched ==
  ASSUME FileInv, UNCHANGED <<life, files>>, row'.config = row.config,
         at' \notin {"write", "cleanup"} \/ UNCHANGED <<at, carried, old>>
  PROVE  FileInv'
BY DEF FileInv, RowHasItsSource, Uploaded

(* Steps under the lock: a file is deleted only when no row names it any    *)
(* more, or not yet.                                                        *)
LEMMA HolderKeepsFiles ==
  ASSUME TypeInv, FileInv, HolderStep
  PROVE  FileInv'
<1>. USE DEF TypeInv, HolderOnly
<1>1. CASE UpdateWrites
  BY <1>1 DEF UpdateWrites, Replaced, FileInv, RowHasItsSource, Uploaded
<1>2. CASE UpdateRefused
  BY <1>2 DEF UpdateRefused, Done, FileInv, RowHasItsSource
<1>3. CASE Cleanup
  BY <1>3 DEF Cleanup, Done, FileInv, RowHasItsSource
<1>4. CASE DeleteRow
  BY <1>4 DEF DeleteRow, FileInv, RowHasItsSource
<1>5. CASE StopBegins \/ Signal \/ Stopped
  <2>1. row'.config = row.config
    BY <1>5, StatusKeepsConfig DEF StopBegins, Signal, Stopped
  <2>2. at' \notin {"write", "cleanup"}
    BY <1>5 DEF StopBegins, Signal, Stopped, AfterStop, GoTo, Done
  <2>. QED
    BY <1>5, <2>1, <2>2, FilesUntouched DEF StopBegins, Signal, Stopped
<1>6. CASE StartBegins \/ SpawnFails \/ Spawn \/ EarlyExit \/ Survives
  <2>1. row'.config = row.config
    BY <1>6, StatusKeepsConfig DEF StartBegins, SpawnFails, Spawn, EarlyExit, Survives
  <2>2. at' \notin {"write", "cleanup"}
    BY <1>6 DEF StartBegins, SpawnFails, Spawn, EarlyExit, Survives, GoTo, Done
  <2>. QED
    BY <1>6, <2>1, <2>2, FilesUntouched
    DEF StartBegins, SpawnFails, Spawn, EarlyExit, Survives
<1>. QED
  BY <1>1, <1>2, <1>3, <1>4, <1>5, <1>6 DEF HolderStep

(* The other steps: operations of the API bring their files with them.     *)
LEMMA OthersKeepFiles ==
  ASSUME TypeInv, FileInv,
         \/ Api \/ CreateStarts \/ CreateStops
         \/ \E p \in Publishers : Supervise(p) \/ ExitCallback(p) \/ Exits(p)
         \/ MountedFileChanges \/ ServiceRestarts
  PROVE  FileInv'
<1>. USE DEF TypeInv
<1>1. ASSUME NEW auto \in BOOLEAN, NEW config \in Config, Create(auto, config)
      PROVE  FileInv'
  BY <1>1 DEF Create, Config, lock, FileInv, RowHasItsSource, Uploaded
<1>2. ASSUME NEW auto \in BOOLEAN, NEW config \in Config, Update(auto, config)
      PROVE  FileInv'
  <2>1. carried'.config = config
    BY <1>2 DEF Update, Take, TypeOK, Record
  <2>2. config.source \in files' \cup {Mounted}
    BY <1>2 DEF Update, Take, Config, FileInv, RowHasItsSource
  <2>. QED
    BY <1>2, <2>1, <2>2 DEF Update, Take, FileInv, RowHasItsSource, Uploaded
<1>3. CASE Start \/ Stop \/ Restart \/ Delete
  BY <1>3, FilesUntouched DEF Start, Stop, Restart, Delete, Take, durable
<1>4. CASE CreateStarts \/ CreateStops
  <2>1. row'.config = row.config
    BY <1>4, StatusKeepsConfig DEF CreateStarts, CreateStops, durable
  <2>. QED
    BY <1>4, <2>1, FilesUntouched DEF CreateStarts, CreateStops, durable, lock
<1>5. ASSUME NEW p \in Publishers, Supervise(p) \/ ExitCallback(p) \/ Exits(p)
      PROVE  FileInv'
  <2>1. row'.config = row.config
    BY <1>5, StatusKeepsConfig DEF Supervise, ExitCallback, Exits, durable
  <2>. QED
    BY <1>5, <2>1, FilesUntouched DEF Supervise, ExitCallback, Exits, durable, lock
<1>6. CASE MountedFileChanges
  BY <1>6, FilesUntouched DEF MountedFileChanges, lock
<1>7. CASE ServiceRestarts
  <2>1. row'.config = row.config
    BY <1>7, StatusKeepsConfig DEF ServiceRestarts
  <2>. QED
    BY <1>7, <2>1, FilesUntouched DEF ServiceRestarts, Done
<1>. QED
  BY <1>1, <1>2, <1>3, <1>4, <1>5, <1>6, <1>7 DEF Api

(* The upload a row names is in storage at every moment of every update,    *)
(* refusal, deletion and restart, whenever clients act.                     *)
THEOREM NamedFilesAreStored == Spec => []RowHasItsSource
<1>1. Init => FileInv
  BY DEF Init, FileInv, RowHasItsSource
<1>2. TypeInv /\ FileInv /\ [Next]_vars => FileInv'
  <2>1. FileInv /\ UNCHANGED vars => FileInv'
    BY FilesUntouched DEF vars, durable, lock
  <2>. QED
    BY <2>1, HolderKeepsFiles, OthersKeepFiles DEF Next
<1>3. FileInv => RowHasItsSource
  BY DEF FileInv
<1>. QED
  BY <1>1, <1>2, <1>3, InitTypes, StepTypes, PTL DEF Spec

-----------------------------------------------------------------------------
(* What a publisher streams.                                               *)

(* Operations of the API: an update decides about the restart by what is    *)
(* running now and by the row of now, which stays until it is written.      *)
LEMMA ApiKeepsRuns ==
  ASSUME TypeInv, PublisherInv, RunsInv, Api \/ CreateStarts \/ CreateStops
  PROVE  RunsInv'
<1>. USE DEF TypeInv, RunsInv, Restarting, IsRunning, Alive
<1>1. ASSUME NEW auto \in BOOLEAN, NEW config \in Config, Create(auto, config)
      PROVE  RunsInv'
  <2>1. ~IsRunning /\ at = "idle" /\ op = "none"
    BY <1>1 DEF Create, PublisherInv, Stored, Registry, Route
  <2>. QED
    BY <1>1, <2>1 DEF Create, processes, lock
<1>2. ASSUME NEW auto \in BOOLEAN, NEW config \in Config, Update(auto, config)
      PROVE  RunsInv'
  <2>1. carried'.config = config
    BY <1>2 DEF Update, Take, TypeOK, Record
  <2>. QED
    BY <1>2, <2>1 DEF Update, Take, Route, processes, creation
<1>3. CASE Start \/ Stop \/ Restart \/ Delete
  BY <1>3 DEF Start, Stop, Restart, Delete, Take, Route, durable, processes, creation
<1>4. CASE CreateStarts
  BY <1>4 DEF CreateStarts, Route, durable, processes
<1>5. CASE CreateStops
  <2>1. row'.config = row.config
    BY <1>5, StatusKeepsConfig DEF CreateStops
  <2>2. UNCHANGED <<life, registered, lock>> /\ creating /\ ~creating'
    BY <1>5 DEF CreateStops
  <2>3. registered # None => /\ process'[registered].state = process[registered].state
                             /\ process'[registered].runs = process[registered].runs
    BY <1>5, MislabelsOne DEF TypeOK
  <2>. QED
    BY <2>1, <2>2, <2>3 DEF lock
<1>. QED
  BY <1>1, <1>2, <1>3, <1>4, <1>5 DEF Api

(* Steps under the lock: only the start of a create carries anything but    *)
(* the row of now.                                                          *)
LEMMA HolderKeepsRuns ==
  ASSUME TypeInv, PublisherInv, RunsInv, HolderStep
  PROVE  RunsInv'
<1>. USE DEF TypeInv, Route, RunsInv, Restarting, IsRunning, Alive, HolderOnly
<1>1. CASE UpdateWrites
  BY <1>1 DEF UpdateWrites, processes, creation
<1>2. CASE UpdateRefused
  BY <1>2 DEF UpdateRefused, Done, processes, creation
<1>3. CASE Cleanup
  BY <1>3 DEF Cleanup, Done, processes, creation
<1>4. CASE DeleteRow
  BY <1>4 DEF DeleteRow, PublisherInv, Registry, processes, creation
<1>5. CASE StopBegins
  <2>1. row'.config = row.config
    BY <1>5, StatusKeepsConfig DEF StopBegins
  <2>. QED
    BY <1>5, <2>1 DEF StopBegins, AfterStop, GoTo, Done, processes, creation
<1>6. CASE Signal
  <2>1. row'.config = row.config
    BY <1>6, StatusKeepsConfig DEF Signal
  <2>2. \A p \in Publishers : /\ process'[p].state = process[p].state
                             /\ process'[p].runs = process[p].runs
                             /\ process'[p].stray = process[p].stray
    BY <1>6 DEF Signal, TypeOK, Process
  <2>. QED
    BY <1>6, <2>1, <2>2 DEF Signal, AfterStop, GoTo, Done, TypeOK, creation
<1>7. CASE Stopped
  <2>1. row'.config = row.config
    BY <1>7, StatusKeepsConfig DEF Stopped
  <2>2. ~IsRunning'
    BY <1>7 DEF Stopped, Unregister, PublisherInv, Registry
  <2>. QED
    BY <1>7, <2>1, <2>2 DEF Stopped, AfterStop, GoTo, Done, creation
<1>8. CASE StartBegins \/ SpawnFails
  <2>1. row'.config = row.config
    BY <1>8, StatusKeepsConfig DEF StartBegins, SpawnFails
  <2>. QED
    BY <1>8, <2>1 DEF StartBegins, SpawnFails, GoTo, Done, processes, creation
<1>9. CASE Spawn
  <2>1. last + 1 \in Publishers
    BY <1>9, BoundsAssumption DEF Spawn, TypeOK, Budget, Owed, Publishers, None
  <2>2. process'[last + 1].runs = carried.config /\ process'[last + 1].stray = Stray
    BY <1>9, <2>1 DEF Spawn, NoProcess, TypeOK
  <2>3. life = "stored" => carried.config = row.config \/ Stray = "outdated"
    BY <1>9 DEF Spawn, Stray
  <2>4. creating => op # "create"
    BY <1>9 DEF Spawn, PublisherInv, Stored
  <2>5. op # "create" => Stray = "no"
    BY DEF Stray
  <2>. QED
    BY <1>9, <2>2, <2>3, <2>4, <2>5 DEF Spawn, creation
<1>10. CASE EarlyExit
  <2>1. row'.config = row.config
    BY <1>10, StatusKeepsConfig DEF EarlyExit
  <2>2. ~IsRunning'
    BY <1>10 DEF EarlyExit, Unregister, PublisherInv, Registry
  <2>. QED
    BY <1>10, <2>1, <2>2 DEF EarlyExit, Done, creation
<1>11. CASE Survives
  <2>1. row'.config = row.config
    BY <1>11, StatusKeepsConfig DEF Survives
  <2>2. \A p \in Publishers : /\ process'[p].state = process[p].state
                             /\ process'[p].runs = process[p].runs
                             /\ process'[p].stray = process[p].stray
    BY <1>11 DEF Survives, TypeOK, Process
  <2>. QED
    BY <1>11, <2>1, <2>2 DEF Survives, Done, TypeOK, creation
<1>. QED
  BY <1>1, <1>2, <1>3, <1>4, <1>5, <1>6, <1>7, <1>8, <1>9, <1>10, <1>11 DEF HolderStep

(* Around the lock nothing starts, and a restart of the service leaves      *)
(* nothing running.                                                         *)
LEMMA EnvironmentKeepsRuns ==
  ASSUME TypeInv, RunsInv,
         \/ \E p \in Publishers : Supervise(p) \/ ExitCallback(p) \/ Exits(p)
         \/ MountedFileChanges \/ ServiceRestarts
  PROVE  RunsInv'
<1>. USE DEF TypeInv, RunsInv, Restarting, IsRunning, Alive
<1>1. ASSUME NEW p \in Publishers, Supervise(p) \/ ExitCallback(p) \/ Exits(p)
      PROVE  RunsInv'
  <2>1. row'.config = row.config
    BY <1>1, StatusKeepsConfig DEF Supervise, ExitCallback, Exits, durable
  <2>2. \A q \in Publishers : process'[q].state = "alive" =>
                               /\ Alive(q) /\ process'[q].runs = process[q].runs
                               /\ process'[q].stray = process[q].stray
    BY <1>1, ExitsAreFinal
  <2>3. registered' \in {registered, None}
    BY <1>1 DEF Supervise, ExitCallback, Exits, Unregister
  <2>4. UNCHANGED <<life, lock, creation>>
    BY <1>1 DEF Supervise, ExitCallback, Exits, durable
  <2>. QED
    BY <2>1, <2>2, <2>3, <2>4 DEF TypeOK, lock, creation
<1>2. CASE MountedFileChanges
  BY <1>2 DEF MountedFileChanges, processes, lock, creation
<1>3. CASE ServiceRestarts
  BY <1>3 DEF ServiceRestarts, Done
<1>. QED
  BY <1>1, <1>2, <1>3

(* An edit that matters restarts the publisher, and nothing else changes    *)
(* what it streams: when no operation is under way it streams what the row  *)
(* says, for any number of edits, exits, refusals and restarts, but for the *)
(* publisher that a create started after its camera had been edited.        *)
THEOREM StreamIsTheRows == Spec => []PublisherRunsItsRow
<1>1. Init => PublisherInv /\ RunsInv
  BY DEF Init, PublisherInv, Stored, Registry, OnePublisher, IsRunning, Alive, NoProcess,
         RunsInv, Restarting
<1>2. TypeInv /\ PublisherInv /\ RunsInv /\ [Next]_vars => RunsInv'
  <2>1. RunsInv /\ UNCHANGED vars => RunsInv'
    BY DEF vars, durable, processes, lock, creation, RunsInv, Restarting, IsRunning, Alive
  <2>. QED
    BY <2>1, ApiKeepsRuns, HolderKeepsRuns, EnvironmentKeepsRuns DEF Next
<1>3. TypeInv /\ RunsInv => PublisherRunsItsRow
  BY DEF TypeInv, Route, RunsInv, Restarting, PublisherRunsItsRow
<1>. QED
  BY <1>1, <1>2, <1>3, InitTypes, StepTypes, StepPublisher, PTL DEF Spec

-----------------------------------------------------------------------------
(* The status.                                                             *)

(* What writing a status means for a camera that is stored. *)
LEMMA StatusIsSet ==
  ASSUME TypeOK, NEW s \in Status, SetStatus(s)
  PROVE  row'.status = IF life = "stored" THEN s ELSE row.status
BY DEF TypeOK, Record, SetStatus

(* While the processes stay as they are, so do the exits to be handled.    *)
LEMMA UnhandledKept ==
  ASSUME NEW p \in Publishers, Unhandled(p), process'[p].state = process[p].state,
         process'[p].supervisor = process[p].supervisor,
         process'[p].requested = process[p].requested
  PROVE  Unhandled(p)'
BY DEF Unhandled, Alive

(* And so does everything else the status rests on. *)
LEMMA SameProcesses ==
  ASSUME UNCHANGED processes
  PROVE  /\ IsRunning' = IsRunning
         /\ Backed => Backed'
         /\ Mislabelled' = Mislabelled
         /\ at \notin {"wait", "grace"} /\ Supervised => Supervised'
<1>1. IsRunning' = IsRunning /\ Mislabelled' = Mislabelled
  BY DEF processes, IsRunning, Alive, Mislabelled
<1>2. Backed => Backed'
  BY <1>1 DEF Backed, Unhandled, processes, Alive
<1>3. at \notin {"wait", "grace"} /\ Supervised => Supervised'
  BY <1>1 DEF Supervised, processes
<1>. QED
  BY <1>1, <1>2, <1>3

(* Operations of the API change no status, and the end of a create only     *)
(* marks the publisher whose camera it calls STOPPED.                       *)
LEMMA ApiKeepsStatus ==
  ASSUME TypeInv, PublisherInv, StatusInv, Api \/ CreateStarts \/ CreateStops
  PROVE  StatusInv'
<1>. USE DEF TypeInv, StatusInv
<1>1. ASSUME NEW auto \in BOOLEAN, NEW config \in Config, Create(auto, config)
      PROVE  StatusInv'
  <2>1. ~IsRunning /\ at = "idle" /\ row'.status = "created" /\ UNCHANGED <<op, at>>
    BY <1>1 DEF Create, PublisherInv, Registry, Stored, TypeOK, lock
  <2>2. UNCHANGED processes
    BY <1>1 DEF Create
  <2>. QED
    BY <2>1, <2>2, SameProcesses DEF CarriedStatus, RowStatus, Supervised, Transitional
<1>2. ASSUME NEW auto \in BOOLEAN, NEW config \in Config, Update(auto, config)
      PROVE  StatusInv'
  <2>1. /\ carried'.status = row.status /\ row.status \notin Transitional
        /\ at = "idle" /\ at' = "write" /\ op' = "update" /\ UNCHANGED <<life, row>>
    BY <1>2 DEF Update, Take, TypeOK, Record
  <2>2. UNCHANGED processes
    BY <1>2 DEF Update, Take
  <2>3. op = "none" /\ life = "stored"
    BY <1>2 DEF Update, Take, Route
  <2>. QED
    BY <2>1, <2>2, <2>3, SameProcesses DEF CarriedStatus, RowStatus
<1>3. CASE Start \/ Stop \/ Restart \/ Delete
  <2>1. /\ carried' = row /\ at = "idle" /\ at' \in {"start", "stop"} /\ op = "none"
        /\ UNCHANGED <<life, row>> /\ life = "stored"
    BY <1>3 DEF Start, Stop, Restart, Delete, Take, durable, Route
  <2>2. UNCHANGED processes
    BY <1>3 DEF Start, Stop, Restart, Delete, Take
  <2>. QED
    BY <2>1, <2>2, SameProcesses DEF CarriedStatus, RowStatus
<1>4. CASE CreateStarts
  <2>1. /\ at = "idle" /\ at' = "start" /\ op = "none" /\ op' = "create"
        /\ UNCHANGED <<life, row>>
    BY <1>4 DEF CreateStarts, durable, Route
  <2>2. UNCHANGED processes
    BY <1>4 DEF CreateStarts
  <2>. QED
    BY <2>1, <2>2, SameProcesses DEF CarriedStatus, RowStatus
<1>5. CASE CreateStops
  <2>1. row'.status = IF life = "stored" THEN "stopped" ELSE row.status
    BY <1>5, StatusIsSet DEF CreateStops, Status
  <2>2. UNCHANGED <<life, registered, op, at, carried>>
    BY <1>5 DEF CreateStops, lock
  <2>3. \A p \in Publishers : /\ process'[p].state = process[p].state
                             /\ process'[p].supervisor = process[p].supervisor
                             /\ process'[p].requested = process[p].requested
    BY <1>5, MislabelsOne
  <2>4. IsRunning' = IsRunning /\ Supervised'
    BY <2>2, <2>3 DEF IsRunning, Alive, Supervised, TypeOK
  <2>5. Backed => Backed'
    BY <2>3, <2>4, UnhandledKept DEF Backed
  <2>6. IsRunning /\ life = "stored" /\ (Mislabelled \/ row.status = "running") => Mislabelled'
    BY <1>5, <2>2, MislabelsOne DEF Mislabelled, IsRunning, TypeOK
  <2>7. CarriedStatus'
    BY <2>1, <2>2, <2>4, <2>5, <2>6 DEF CarriedStatus, RowStatus, Route, PublisherInv, Stored, Transitional
  <2>8. RowStatus'
    BY <2>1, <2>2, <2>4, <2>5, <2>6 DEF RowStatus, Transitional
  <2>. QED
    BY <2>4, <2>7, <2>8
<1>. QED
  BY <1>1, <1>2, <1>3, <1>4, <1>5 DEF Api

(* Steps under the lock that write the row of an edit or a stop. *)
LEMMA EditAndStopKeepStatus ==
  ASSUME TypeInv, PublisherInv, StatusInv,
         \/ UpdateWrites \/ UpdateRefused \/ Cleanup \/ DeleteRow
         \/ StopBegins \/ Signal \/ Stopped
  PROVE  StatusInv'
<1>. USE DEF TypeInv, StatusInv, HolderOnly
<1>1. CASE UpdateWrites
  <2>1. /\ life = "stored" /\ op = "update" /\ at = "write" /\ at' = "cleanup"
        /\ row' = carried /\ UNCHANGED <<op, life, carried, processes>>
    BY <1>1 DEF UpdateWrites, PublisherInv, Stored, Route
  <2>. QED
    BY <2>1, SameProcesses DEF CarriedStatus, RowStatus, Transitional
<1>2. CASE UpdateRefused
  <2>1. /\ op = "update" /\ at = "write" /\ at' = "idle" /\ op' = "none"
        /\ UNCHANGED <<life, row, processes>>
    BY <1>2 DEF UpdateRefused, Done, Route
  <2>. QED
    BY <2>1, SameProcesses DEF CarriedStatus, RowStatus
<1>3. CASE Cleanup
  <2>1. /\ at = "cleanup" /\ at' \in {"idle", "stop"} /\ op' \in {"none", "restart"}
        /\ at' = "stop" => UNCHANGED carried
        /\ UNCHANGED <<life, row, processes>>
    BY <1>3 DEF Cleanup, Done
  <2>2. op = "update" \/ (op = "delete" /\ row.status = "created")
    BY <1>3 DEF Cleanup, Route, PublisherInv, Stored, RowStatus
  <2>. QED
    BY <2>1, <2>2, SameProcesses DEF CarriedStatus, RowStatus
<1>4. CASE DeleteRow
  <2>1. /\ ~IsRunning /\ row'.status = "created" /\ life' = "deleted"
        /\ op = "delete" /\ at = "delete" /\ at' = "cleanup"
        /\ UNCHANGED <<op, processes>>
    BY <1>4 DEF DeleteRow, NoRecord, PublisherInv, Registry, Route
  <2>. QED
    BY <2>1, SameProcesses DEF CarriedStatus, RowStatus, Transitional
<1>5. CASE StopBegins
  <2>1. /\ life = "stored" /\ at = "stop" /\ op \in {"stop", "restart", "delete"}
        /\ UNCHANGED <<life, processes>>
    BY <1>5 DEF StopBegins, PublisherInv, Stored, Route
  <2>2. CASE IsRunning
    <3>1. row'.status = IF op = "delete" THEN row.status ELSE "stopping"
      BY <1>5, <2>1, <2>2, StatusIsSet DEF StopBegins, Persist, Status
    <3>2. at' = "signal" /\ op' = op
      BY <1>5, <2>2 DEF StopBegins, GoTo
    <3>. QED
      BY <2>1, <2>2, <3>1, <3>2, SameProcesses DEF CarriedStatus, RowStatus, Transitional
  <2>3. CASE ~IsRunning
    <3>1. row'.status \in {row.status, "stopped"}
          /\ (op = "delete" \/ row'.status = "stopped")
      BY <1>5, <2>1, <2>3, StatusIsSet
      DEF StopBegins, Ensure, Persist, Status, CarriedStatus
    <3>2. /\ at' \in {"start", "delete", "idle"}
          /\ at' = "start" => op = "restart" /\ UNCHANGED <<op, carried>>
          /\ op = "delete" => op' = "delete"
      BY <1>5, <2>1, <2>3 DEF StopBegins, AfterStop, GoTo, Done
    <3>. QED
      BY <2>1, <2>3, <3>1, <3>2, SameProcesses DEF CarriedStatus, RowStatus, Transitional
  <2>. QED
    BY <2>2, <2>3
<1>6. CASE Signal
  <2>1. life = "stored" /\ at = "signal" /\ op \in {"stop", "restart", "delete"}
        /\ UNCHANGED <<life, registered>>
    BY <1>6 DEF Signal, PublisherInv, Stored, Route
  <2>2. CASE registered = None
    <3>1. row'.status = IF op = "delete" THEN row.status ELSE "stopped"
      BY <1>6, <2>1, <2>2, StatusIsSet DEF Signal, Persist, Status
    <3>2. /\ at' \in {"start", "delete", "idle"} /\ UNCHANGED process
          /\ at' = "start" => op = "restart" /\ UNCHANGED <<op, carried>>
          /\ op = "delete" => op' = "delete"
      BY <1>6, <2>1, <2>2 DEF Signal, AfterStop, GoTo, Done
    <3>3. ~IsRunning /\ ~IsRunning' /\ (Backed => Backed')
      BY <2>1, <2>2, <3>2 DEF IsRunning, Backed, Unhandled, Alive
    <3>. QED
      BY <2>1, <3>1, <3>2, <3>3 DEF CarriedStatus, RowStatus, Supervised, Transitional
  <2>3. CASE registered # None
    <3>1. /\ process'[registered].supervisor = process[registered].supervisor
          /\ process'[registered].state = process[registered].state
          /\ process'[registered].stray = process[registered].stray
      BY <1>6, <2>3 DEF Signal, TypeOK, Process
    <3>2. UNCHANGED <<op, carried, row>> /\ at' = "wait"
      BY <1>6, <2>3 DEF Signal
    <3>3. IsRunning' = IsRunning /\ Mislabelled' = Mislabelled
      BY <2>1, <3>1 DEF IsRunning, Alive, Mislabelled
    <3>4. CarriedStatus'
      BY <3>2 DEF CarriedStatus
    <3>5. RowStatus'
      BY <2>1, <3>2, <3>3 DEF RowStatus
    <3>6. Supervised'
      BY <2>1, <3>1, <3>2, <3>3 DEF Supervised
    <3>. QED
      BY <3>4, <3>5, <3>6
  <2>. QED
    BY <2>2, <2>3
<1>7. CASE Stopped
  <2>1. /\ ~IsRunning' /\ life = "stored" /\ op \in {"stop", "restart", "delete"}
        /\ UNCHANGED life
    BY <1>7 DEF Stopped, Unregister, PublisherInv, Stored, Registry, Route, IsRunning, Alive
  <2>2. row'.status = IF op = "delete" THEN row.status ELSE "stopped"
    BY <1>7, <2>1, StatusIsSet DEF Stopped, Persist, Status
  <2>3. /\ at = "wait" /\ at' \in {"start", "delete", "idle"}
        /\ at' = "start" => op = "restart" /\ UNCHANGED <<op, carried>>
        /\ op = "delete" => op' = "delete"
    BY <1>7, <2>1 DEF Stopped, AfterStop, GoTo, Done
  <2>. QED
    BY <2>1, <2>2, <2>3 DEF CarriedStatus, RowStatus, Supervised, Transitional
<1>. QED
  BY <1>1, <1>2, <1>3, <1>4, <1>5, <1>6, <1>7

(* Steps of a start: RUNNING is written only with the publisher alive. *)
LEMMA StartKeepsStatus ==
  ASSUME TypeInv, PublisherInv, StatusInv,
         StartBegins \/ SpawnFails \/ Spawn \/ EarlyExit \/ Survives
  PROVE  StatusInv'
<1>. USE DEF TypeInv, StatusInv, HolderOnly
<1>. at \in {"start", "spawn", "grace"} /\ op \in {"create", "start", "restart"}
  BY DEF StartBegins, SpawnFails, Spawn, EarlyExit, Survives, Route
<1>. UNCHANGED life
  BY DEF StartBegins, SpawnFails, Spawn, EarlyExit, Survives
<1>1. CASE StartBegins
  <2>1. UNCHANGED processes
    BY <1>1 DEF StartBegins
  <2>2. CASE IsRunning
    <3>1. at' = "idle"
      BY <1>1, <2>2 DEF StartBegins, Done
    <3>2. life = "stored" => row'.status = "running" \/ (row'.status = row.status /\ Mislabelled)
      BY <1>1, <2>2, StatusIsSet
      DEF StartBegins, Ensure, Persist, Status, RowStatus, CarriedStatus
    <3>3. life # "stored" => UNCHANGED row
      BY <1>1, <2>2 DEF StartBegins, Ensure, Persist, SetStatus
    <3>. QED
      BY <1>1, <2>1, <2>2, <3>1, <3>2, <3>3, SameProcesses
      DEF StartBegins, CarriedStatus, RowStatus, Backed, Transitional
  <2>3. CASE ~IsRunning
    <3>1. row'.status = IF life # "stored" THEN row.status
                        ELSE IF Present(carried.config.source) THEN "starting" ELSE "error"
      BY <1>1, <2>3, StatusIsSet DEF StartBegins, Status
    <3>2. IF Present(carried.config.source) THEN at' = "spawn" /\ op' = op ELSE at' = "idle"
      BY <1>1, <2>3 DEF StartBegins, GoTo, Done
    <3>. QED
      BY <1>1, <2>1, <2>3, <3>1, <3>2, SameProcesses
      DEF StartBegins, CarriedStatus, RowStatus, Transitional
  <2>. QED
    BY <2>2, <2>3
<1>2. CASE SpawnFails
  <2>1. ~IsRunning /\ at' = "idle" /\ UNCHANGED processes
    BY <1>2 DEF SpawnFails, Done, PublisherInv, Registry
  <2>2. row'.status = IF life = "stored" THEN "error" ELSE row.status
    BY <1>2, StatusIsSet DEF SpawnFails, Status
  <2>. QED
    BY <1>2, <2>1, <2>2, SameProcesses
    DEF SpawnFails, CarriedStatus, RowStatus, Transitional
<1>3. CASE Spawn
  <2>1. last + 1 \in Publishers
    BY <1>3, BoundsAssumption DEF Spawn, TypeOK, Budget, Owed, Publishers, None
  <2>2. registered' = last + 1 /\ ~process'[last + 1].requested
    BY <1>3, <2>1 DEF Spawn, NoProcess, TypeOK
  <2>3. at = "spawn" /\ at' = "grace" /\ UNCHANGED <<op, row>>
    BY <1>3 DEF Spawn
  <2>. QED
    BY <2>2, <2>3 DEF CarriedStatus, RowStatus, Supervised
<1>4. CASE EarlyExit
  <2>1. ~IsRunning' /\ at = "grace" /\ at' = "idle"
    BY <1>4 DEF EarlyExit, Unregister, PublisherInv, Registry, IsRunning, Alive, Done
  <2>2. row'.status = IF life = "stored" THEN "error" ELSE row.status
    BY <1>4, StatusIsSet DEF EarlyExit, Status
  <2>. QED
    BY <2>1, <2>2 DEF CarriedStatus, RowStatus, Supervised, Transitional
<1>5. CASE Survives
  <2>1. registered = managed /\ managed \in Publishers /\ at = "grace" /\ at' = "idle"
        /\ UNCHANGED registered
    BY <1>5 DEF Survives, TypeOK, PublisherInv, Registry, Done, Alive, Publishers, None, Route
  <2>2. row'.status = IF life = "stored" THEN "running" ELSE row.status
    BY <1>5, StatusIsSet DEF Survives, Status
  <2>3. /\ process'[managed].state = "alive" /\ process'[managed].supervisor = "watching"
        /\ process'[managed].requested = process[managed].requested
    BY <1>5, <2>1 DEF Survives, TypeOK, Process, Alive
  <2>4. IsRunning /\ IsRunning' /\ Backed'
    BY <1>5, <2>1, <2>3 DEF IsRunning, Alive, Survives, Backed, Publishers, None
  <2>5. Supervised'
    BY <2>1, <2>3, <2>4 DEF Supervised
  <2>. QED
    BY <2>1, <2>2, <2>4, <2>5 DEF CarriedStatus, RowStatus, Transitional
<1>. QED
  BY <1>1, <1>2, <1>3, <1>4, <1>5

(* A publisher that dies leaves an exit to be handled, which its supervisor *)
(* passes on and only the callback takes away, with the status.             *)
LEMMA EnvironmentKeepsStatus ==
  ASSUME TypeInv, PublisherInv, StatusInv,
         \/ \E p \in Publishers : Supervise(p) \/ ExitCallback(p) \/ Exits(p)
         \/ MountedFileChanges \/ ServiceRestarts
  PROVE  StatusInv'
<1>. USE DEF TypeInv, StatusInv
<1>1. ASSUME NEW p \in Publishers, Supervise(p)
      PROVE  StatusInv'
  <2>1. \A q \in Publishers \ {p} : process'[q] = process[q]
    BY <1>1 DEF Supervise, TypeOK
  <2>2. registered = p => ~IsRunning /\ registered' = None
    BY <1>1 DEF Supervise, Unregister, IsRunning
  <2>3. registered # p => registered' = registered
    BY <1>1 DEF Supervise, Unregister
  <2>4. \A q \in Publishers : Unhandled(q) => Unhandled(q)'
    <3>1. Unhandled(p) => Unhandled(p)'
      BY <1>1 DEF Supervise, Unhandled, TypeOK, Process
    <3>. QED
      BY <2>1, <3>1, UnhandledKept
  <2>5. registered' # None => registered' \in Publishers \ {p}
    BY <2>2, <2>3 DEF TypeOK
  <2>6. /\ IsRunning' = IsRunning
        /\ IsRunning => process'[registered'] = process[registered]
                        /\ registered' = registered
    BY <2>1, <2>2, <2>3, <2>5 DEF IsRunning, Alive
  <2>7. UNCHANGED <<life, row, op, at, carried>>
    BY <1>1 DEF Supervise, durable, lock
  <2>8. Backed => Backed'
    BY <2>4, <2>6 DEF Backed
  <2>9. IsRunning => Mislabelled' = Mislabelled
    BY <2>6 DEF Mislabelled
  <2>10. Supervised'
    BY <2>6, <2>7 DEF Supervised
  <2>. QED
    BY <2>6, <2>7, <2>8, <2>9, <2>10 DEF CarriedStatus, RowStatus
<1>2. ASSUME NEW p \in Publishers, ExitCallback(p)
      PROVE  StatusInv'
  <2>1. \A q \in Publishers \ {p} : process'[q] = process[q]
    BY <1>2 DEF ExitCallback, TypeOK
  <2>2. process'[p].state # "alive"
    BY <1>2 DEF ExitCallback, Forgotten, NoProcess, TypeOK
  <2>3. at = "idle" /\ op = "none" /\ UNCHANGED <<life, registered, op, at, carried>>
    BY <1>2 DEF ExitCallback, lock, Route
  <2>4. CASE IsRunning
    <3>1. registered # p
      BY <1>2, <2>4, <2>3 DEF ExitCallback, Supervised
    <3>2. /\ IsRunning' /\ Backed' /\ UNCHANGED row
          /\ process'[registered] = process[registered]
      BY <1>2, <2>1, <2>3, <2>4, <3>1 DEF ExitCallback, IsRunning, Alive, TypeOK, Backed
    <3>. QED
      BY <2>3, <2>4, <3>2 DEF CarriedStatus, RowStatus, Supervised, Mislabelled
  <2>5. CASE ~IsRunning
    <3>1. row'.status = row.status \/ row'.status \in {"error", "stopped"}
      BY <1>2, <2>5, StatusIsSet DEF ExitCallback, AfterExit, Status
    <3>2. IF life = "stored" THEN row'.status \in {"error", "stopped"} ELSE row' = row
      BY <1>2, <2>5, StatusIsSet DEF ExitCallback, AfterExit, Status, SetStatus
    <3>3. ~IsRunning'
      BY <2>1, <2>2, <2>3, <2>5 DEF IsRunning, Alive, TypeOK
    <3>. QED
      BY <2>3, <3>2, <3>3 DEF CarriedStatus, RowStatus, Supervised, Transitional
  <2>. QED
    BY <2>4, <2>5
<1>3. ASSUME NEW p \in Publishers, Exits(p)
      PROVE  StatusInv'
  <2>1. \A q \in Publishers \ {p} : process'[q] = process[q]
    BY <1>3 DEF Exits, TypeOK
  <2>2. /\ process'[p].state = "exited"
        /\ process'[p].supervisor = process[p].supervisor
        /\ process'[p].requested = process[p].requested
    BY <1>3 DEF Exits, TypeOK, Process
  <2>3. registered = p /\ IsRunning
    BY <1>3 DEF Exits, PublisherInv, OnePublisher, IsRunning, Publishers, None, Alive
  <2>4. UNCHANGED <<life, row, op, at, carried, registered>> /\ ~IsRunning'
    BY <1>3, <2>2, <2>3 DEF Exits, durable, lock, IsRunning, Alive
  <2>5. at \notin {"grace", "wait"} => Backed'
    <3>1. at \notin {"grace", "wait"} => Unhandled(p)'
      BY <2>2, <2>3 DEF Supervised, Unhandled, Alive
    <3>. QED
      BY <3>1 DEF Backed
  <2>6. row.status = "running" /\ op # "delete" => at \notin {"grace", "wait"}
    BY DEF RowStatus
  <2>. QED
    BY <2>3, <2>4, <2>5, <2>6 DEF CarriedStatus, RowStatus, Supervised
<1>4. CASE MountedFileChanges
  <2>1. UNCHANGED <<life, row, op, at, carried, processes>>
    BY <1>4 DEF MountedFileChanges, lock
  <2>2. Supervised'
    BY <2>1, SameProcesses DEF Supervised, processes
  <2>. QED
    BY <2>1, <2>2, SameProcesses DEF CarriedStatus, RowStatus
<1>5. CASE ServiceRestarts
  <2>1. row'.status \notin Transitional \cup {"running"}
    BY <1>5, StatusIsSet DEF ServiceRestarts, Status, Transitional, RowStatus
  <2>2. life # "stored" => row'.status = "created"
    BY <1>5, StatusIsSet DEF ServiceRestarts, Status, RowStatus
  <2>3. ~IsRunning' /\ UNCHANGED life
    BY <1>5 DEF ServiceRestarts, IsRunning
  <2>4. at' = "idle" \/ (at' = "start" /\ carried' = row')
    BY <1>5 DEF ServiceRestarts, Done
  <2>. QED
    BY <2>1, <2>2, <2>3, <2>4 DEF CarriedStatus, RowStatus, Supervised
<1>. QED
  BY <1>1, <1>2, <1>3, <1>4, <1>5

(* Between operations a live publisher shows as RUNNING, but for the one    *)
(* whose camera a create called STOPPED after another client had started    *)
(* it.  Once its supervisors and callbacks have run, RUNNING means that it  *)
(* is alive, and no transitional status outlives its operation, however it  *)
(* ended and whatever clients do.                                           *)
THEOREM StatusTellsTheTruth == Spec => []StatusIsHonest
<1>1. Init => PublisherInv /\ StatusInv
  BY DEF Init, PublisherInv, Stored, Registry, OnePublisher, IsRunning, Alive, NoProcess,
         NoRecord, StatusInv, CarriedStatus, RowStatus, Supervised, Transitional
<1>2. TypeInv /\ PublisherInv /\ StatusInv /\ [Next]_vars => StatusInv'
  <2>1. StatusInv /\ UNCHANGED vars => StatusInv'
    <3>1. SUFFICES ASSUME StatusInv, UNCHANGED vars PROVE StatusInv'
      OBVIOUS
    <3>2. UNCHANGED <<life, row, op, at, carried, processes>>
      BY <3>1 DEF vars, durable, lock
    <3>3. Supervised'
      BY <3>1, <3>2, SameProcesses DEF StatusInv, Supervised, processes
    <3>. QED
      BY <3>1, <3>2, <3>3, SameProcesses DEF StatusInv, CarriedStatus, RowStatus
  <2>. QED
    BY <2>1, ApiKeepsStatus, EditAndStopKeepStatus, StartKeepsStatus, EnvironmentKeepsStatus
    DEF Next, HolderStep
<1>3. TypeInv /\ StatusInv => StatusIsHonest
  <2>. SUFFICES ASSUME TypeInv, StatusInv PROVE StatusIsHonest
    OBVIOUS
  <2>1. Settled => ~\E p \in Publishers : Unhandled(p)
    BY DEF Settled, Quiet, Unhandled
  <2>. QED
    BY <2>1
    DEF TypeInv, Route, StatusInv, RowStatus, Backed, Mislabelled, Settled, StatusIsHonest
<1>. QED
  BY <1>1, <1>2, <1>3, InitTypes, StepTypes, StepPublisher, PTL DEF Spec
=============================================================================
