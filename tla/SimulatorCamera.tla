--------------------------- MODULE SimulatorCamera ---------------------------
(***************************************************************************)
(* One simulated camera of the RTSP simulator: its row and upload, the     *)
(* FFmpeg publishers that are started for it, the registry of the process  *)
(* manager with one supervisor task per publisher, and the camera manager. *)
(* Cameras share nothing but the names of their streams, so one shows      *)
(* everything.                                                             *)
(*                                                                         *)
(* The holder of the camera's asyncio lock is op, at the place "at"; it    *)
(* works on the record it read, carried.  Meanwhile publishers exit,       *)
(* supervisors unregister them, and their exit callbacks wait for the      *)
(* lock.  An operation of the API is refused (409) while the lock is held, *)
(* a deletion and a callback wait for it; in which order the waiting ones  *)
(* get it is left open.                                                    *)
(*                                                                         *)
(* The row is visible from the insert of create_camera on, so that clients *)
(* act on the camera before the create has ended: it ends with a start     *)
(* from the record it inserted, without reading the row again, or with a   *)
(* status written without the lock.                                        *)
(***************************************************************************)
EXTENDS Naturals, FiniteSets

CONSTANTS
  MaxOps,        (* bound: operations of the API                           *)
  MaxFaults,     (* bound: failed calls, and changes of the mounted file   *)
  MaxRestarts    (* bound: restarts of the simulator                       *)

ASSUME BoundsAssumption == {MaxOps, MaxFaults, MaxRestarts} \subseteq Nat

Uploads    == 1..MaxOps                    (* stored files, never reused   *)
Mounted    == 0                            (* a file of the operator       *)
Publishers == 1..(MaxOps + MaxRestarts)    (* FFmpeg processes             *)
None       == 0

(* What a running publisher was built from; "loop" stands for every         *)
(* setting whose change restarts it.                                        *)
Config == [source : Uploads \cup {Mounted}, loop : BOOLEAN]

(* last_error is set exactly in "error". *)
Status       == {"created", "starting", "running", "stopping", "stopped", "error"}
Transitional == {"starting", "stopping"}
Record       == [status : Status, auto : BOOLEAN, config : Config]

(* History: how the end of a create went wrong on a publisher.  It was      *)
(* started although the camera had been deleted, or for settings that had   *)
(* been edited, or its camera was called STOPPED while it was RUNNING.      *)
Strays == {"no", "orphan", "outdated", "mislabelled"}

Process ==
  [state : {"none", "alive", "exited"}, runs : Config, requested : BOOLEAN,
   supervisor : {"none", "watching", "calling", "done"}, stray : Strays]

VARIABLES
  (* durable *)
  life,        (* of the row                                               *)
  row,
  files,       (* uploads in permanent storage                             *)
  mounted,     (* the mounted file is there                                *)
  (* the process manager *)
  process,
  last,        (* the last process that was spawned                        *)
  registered,  (* _processes                                               *)
  (* the holder of the lock *)
  op, at, carried,
  managed,     (* the process it starts or stops                           *)
  again,       (* restart_needed                                           *)
  old,         (* files to be deleted                                      *)
  (* create_camera, between its insert and its end *)
  creating, created,
  (* bounds *)
  ops, faults, restarts

durable   == <<life, row, files, mounted>>
processes == <<process, last, registered>>
lock      == <<op, at, carried, managed, again, old>>
creation  == <<creating, created>>
bounds    == <<ops, faults, restarts>>
vars      == <<durable, processes, lock, creation, bounds>>

Ops    == {"none", "create", "start", "stop", "restart", "update", "delete"}
Places == {"idle", "write", "cleanup", "stop", "signal", "wait", "delete", "start",
           "spawn", "grace"}

TypeOK ==
  /\ life \in {"unborn", "stored", "deleted"}
  /\ row \in Record
  /\ files \subseteq Uploads /\ mounted \in BOOLEAN
  /\ process \in [Publishers -> Process]
  /\ last \in Publishers \cup {None}
  /\ registered \in Publishers \cup {None}
  /\ op \in Ops /\ at \in Places /\ carried \in Record
  /\ managed \in Publishers \cup {None}
  /\ again \in BOOLEAN /\ old \subseteq Uploads
  /\ creating \in BOOLEAN /\ created \in Record
  /\ ops \in 0..MaxOps /\ faults \in 0..MaxFaults /\ restarts \in 0..MaxRestarts

-----------------------------------------------------------------------------
(* Helpers *)

NoConfig  == [source |-> Mounted, loop |-> FALSE]
NoRecord  == [status |-> "created", auto |-> FALSE, config |-> NoConfig]
NoProcess == [state |-> "none", runs |-> NoConfig, requested |-> FALSE,
              supervisor |-> "none", stray |-> "no"]

(* A process nobody is interested in any more. *)
Forgotten == [NoProcess EXCEPT !.state = "exited", !.supervisor = "done"]

Alive(p) == process[p].state = "alive"

(* FFmpegProcessManager.is_running *)
IsRunning == registered # None /\ Alive(registered)

(* _set_status: an UPDATE by id. *)
SetStatus(s) == row' = IF life = "stored" THEN [row EXCEPT !.status = s] ELSE row

Present(source) == IF source = Mounted THEN mounted ELSE source \in files

Fault == faults < MaxFaults /\ faults' = faults + 1

GoTo(place) == at' = place /\ UNCHANGED <<op, carried, managed, again, old>>

(* The lock is released. *)
Done ==
  /\ op' = "none" /\ at' = "idle" /\ carried' = NoRecord
  /\ managed' = None /\ again' = FALSE /\ old' = {}

(* A process leaves the registry, if it is still the registered one. *)
Unregister(p) == registered' = IF registered = p THEN None ELSE registered

-----------------------------------------------------------------------------
(* create_camera *)

(* The sources an operation may bring: a new upload, or the mounted file.   *)
NewSources == {ops + 1} \cup (IF mounted THEN {Mounted} ELSE {})

Create(auto, config) ==
  /\ life = "unborn" /\ ops < MaxOps
  /\ config.source \in NewSources
  /\ ops' = ops + 1
  /\ files' = files \cup ({config.source} \cap Uploads)
  /\ row' = [status |-> "created", auto |-> auto, config |-> config]
  /\ life' = "stored"
  /\ creating' = TRUE /\ created' = row'
  /\ UNCHANGED <<mounted, processes, lock, faults, restarts>>

(* auto_start: a start under the lock, from the record of the insert. *)
CreateStarts ==
  /\ creating /\ created.auto
  /\ at = "idle"
  /\ op' = "create" /\ at' = "start" /\ carried' = created
  /\ creating' = FALSE /\ created' = NoRecord
  /\ UNCHANGED <<durable, processes, managed, again, old, bounds>>

(* Otherwise STOPPED, without the lock and whatever the status is by now. *)
CreateStops ==
  /\ creating /\ ~created.auto
  /\ SetStatus("stopped")
  /\ process' = IF life = "stored" /\ IsRunning /\ row.status = "running"
                THEN [process EXCEPT ![registered].stray = "mislabelled"] ELSE process
  /\ creating' = FALSE /\ created' = NoRecord
  /\ UNCHANGED <<life, files, mounted, last, registered, lock, bounds>>

-----------------------------------------------------------------------------
(* Operations of the API take the lock and read the row. *)

Take(operation, place, record) ==
  /\ at = "idle" /\ life = "stored"
  /\ ops < MaxOps /\ ops' = ops + 1
  /\ op' = operation /\ at' = place /\ carried' = record
  /\ UNCHANGED <<managed, old, creation, processes, faults, restarts>>

Start ==
  /\ Take("start", "start", row)
  /\ row.status \notin Transitional
  /\ UNCHANGED <<durable, again>>

Stop ==
  /\ Take("stop", "stop", row)
  /\ row.status # "stopping"
  /\ UNCHANGED <<durable, again>>

Restart ==
  /\ Take("restart", "stop", row)
  /\ row.status \notin Transitional
  /\ UNCHANGED <<durable, again>>

Delete ==
  /\ Take("delete", "stop", row)
  /\ UNCHANGED <<durable, again>>

(* Mutant: the old upload makes room for the new one. *)
UpdateInPlace(auto, config) ==
  /\ Take("update", "write", [row EXCEPT !.auto = auto, !.config = config])
  /\ row.status \notin Transitional
  /\ config.source \in {row.config.source} \cup NewSources
  /\ files' = IF config.source = row.config.source THEN files
              ELSE (files \ {row.config.source}) \cup ({config.source} \cap Uploads)
  /\ again' = (IsRunning /\ config # row.config)
  /\ UNCHANGED <<life, row, mounted>>

(* A new upload is promoted and the need of a restart decided before the    *)
(* row is written.                                                          *)
Update(auto, config) ==
  /\ Take("update", "write", [row EXCEPT !.auto = auto, !.config = config])
  /\ row.status \notin Transitional
  /\ config.source \in {row.config.source} \cup NewSources
  /\ files' = files \cup ({config.source} \cap Uploads)
  /\ again' = (IsRunning /\ config # row.config)
  /\ UNCHANGED <<life, row, mounted>>

-----------------------------------------------------------------------------
(* The rest of update_camera and delete_camera, under the lock *)

HolderOnly == UNCHANGED <<life, files, mounted, creation, ops, restarts>>

(* The replaced upload, if the source is another one. *)
Replaced == {row.config.source} \cap (Uploads \ {carried.config.source})

UpdateWrites ==
  /\ at = "write"
  /\ row' = carried
  /\ old' = Replaced
  /\ at' = "cleanup"
  /\ UNCHANGED <<op, carried, managed, again, processes, faults>>
  /\ HolderOnly

(* Another camera has taken the stream path: the new upload goes again. *)
UpdateRefused ==
  /\ at = "write"
  /\ Fault
  /\ files' = files \ ({carried.config.source} \ {row.config.source})
  /\ Done
  /\ UNCHANGED <<life, row, mounted, processes, creation, ops, restarts>>

(* Mutant: a new upload alone restarts nothing. *)
CleanupForgetsRestart ==
  /\ at = "cleanup"
  /\ files' = files \ old
  /\ IF again /\ old = {}
     THEN /\ op' = "restart" /\ at' = "stop" /\ again' = FALSE /\ old' = {}
          /\ UNCHANGED <<carried, managed>>
     ELSE Done
  /\ UNCHANGED <<life, row, mounted, processes, creation, bounds>>

(* delete_stored, once the row does not name the file any more. *)
Cleanup ==
  /\ at = "cleanup"
  /\ files' = files \ old
  /\ IF again
     THEN /\ op' = "restart" /\ at' = "stop" /\ again' = FALSE /\ old' = {}
          /\ UNCHANGED <<carried, managed>>
     ELSE Done
  /\ UNCHANGED <<life, row, mounted, processes, creation, bounds>>

DeleteRow ==
  /\ at = "delete"
  /\ life' = "deleted" /\ row' = NoRecord
  /\ old' = {carried.config.source} \cap Uploads
  /\ at' = "cleanup"
  /\ UNCHANGED <<op, carried, managed, again, files, mounted, processes, creation, bounds>>

-----------------------------------------------------------------------------
(* _stop_locked and FFmpegProcessManager.stop *)

(* A deletion does not persist a status. *)
Persist(s) == IF op = "delete" THEN UNCHANGED row ELSE SetStatus(s)

(* A status the record at hand has already is not written. *)
Ensure(s) == IF carried.status = s THEN UNCHANGED row ELSE Persist(s)

(* What an operation goes on with after its stop. *)
AfterStop ==
  CASE op = "restart" -> GoTo("start")
    [] op = "delete"  -> GoTo("delete")
    [] OTHER          -> Done

StopBegins ==
  /\ at = "stop"
  /\ IF IsRunning THEN Persist("stopping") /\ GoTo("signal")
     ELSE Ensure("stopped") /\ AfterStop
  /\ UNCHANGED <<processes, faults>>
  /\ HolderOnly

(* The process is looked up again, and terminated if it has not exited.     *)
Signal ==
  /\ at = "signal"
  /\ IF registered = None
     THEN Persist("stopped") /\ AfterStop /\ UNCHANGED process
     ELSE /\ process' = [process EXCEPT ![registered].requested = TRUE]
          /\ managed' = registered /\ at' = "wait"
          /\ UNCHANGED <<op, carried, again, old, row>>
  /\ UNCHANGED <<last, registered, faults>>
  /\ HolderOnly

(* Both waits are over, the one for the supervisor perhaps by its timeout.  *)
Stopped ==
  /\ at = "wait" /\ process[managed].state = "exited"
  /\ \/ process[managed].supervisor = "done" /\ UNCHANGED faults
     \/ process[managed].supervisor # "done" /\ Fault
  /\ Unregister(managed)
  /\ Persist("stopped") /\ AfterStop
  /\ UNCHANGED <<process, last>>
  /\ HolderOnly

-----------------------------------------------------------------------------
(* _start_locked and FFmpegProcessManager.start *)

(* Idempotent with a publisher up; ERROR without the source. *)
StartBegins ==
  /\ at = "start"
  /\ \/ IsRunning /\ Ensure("running") /\ Done
     \/ ~IsRunning /\ ~Present(carried.config.source) /\ SetStatus("error") /\ Done
     \/ ~IsRunning /\ Present(carried.config.source) /\ SetStatus("starting") /\ GoTo("spawn")
  /\ UNCHANGED <<processes, faults>>
  /\ HolderOnly

(* AlreadyRunning, even if the registered process has exited; or no FFmpeg. *)
SpawnFails ==
  /\ at = "spawn"
  /\ \/ registered # None /\ UNCHANGED faults
     \/ registered = None /\ Fault
  /\ SetStatus("error") /\ Done
  /\ UNCHANGED processes
  /\ HolderOnly

Stray ==
  CASE op = "create" /\ life = "deleted"                -> "orphan"
    [] op = "create" /\ life = "stored" /\ carried.config # row.config -> "outdated"
    [] OTHER -> "no"

(* Registered before the grace period. *)
Spawn ==
  /\ at = "spawn" /\ registered = None
  /\ last' = last + 1
  /\ process' = [process EXCEPT ![last + 1] =
                   [NoProcess EXCEPT !.state = "alive", !.runs = carried.config,
                                    !.stray = Stray]]
  /\ registered' = last + 1 /\ managed' = last + 1
  /\ at' = "grace"
  /\ UNCHANGED <<op, carried, again, old, row, faults>>
  /\ HolderOnly

EarlyExit ==
  /\ at = "grace" /\ ~Alive(managed)
  /\ Unregister(managed)
  /\ process' = [process EXCEPT ![managed] = Forgotten]
  /\ SetStatus("error") /\ Done
  /\ UNCHANGED <<last, faults>>
  /\ HolderOnly

(* The grace period is over: supervised, and RUNNING. *)
Survives ==
  /\ at = "grace" /\ Alive(managed)
  /\ process' = [process EXCEPT ![managed].supervisor = "watching"]
  /\ SetStatus("running") /\ Done
  /\ UNCHANGED <<last, registered, faults>>
  /\ HolderOnly

HolderStep ==
  \/ UpdateWrites \/ UpdateRefused \/ Cleanup \/ DeleteRow
  \/ StopBegins \/ Signal \/ Stopped
  \/ StartBegins \/ SpawnFails \/ Spawn \/ EarlyExit \/ Survives

-----------------------------------------------------------------------------
(* Processes and their supervisors *)

(* By itself, by a signal or by a kill. *)
Exits(p) ==
  /\ Alive(p)
  /\ process' = [process EXCEPT ![p].state = "exited"]
  /\ UNCHANGED <<durable, last, registered, lock, creation, bounds>>

(* Mutant: whatever is registered for the camera is removed. *)
UnregistersAny(p) ==
  /\ process[p].supervisor = "watching" /\ ~Alive(p)
  /\ registered' = None
  /\ process' = [process EXCEPT ![p] =
                   IF @.requested THEN Forgotten ELSE [@ EXCEPT !.supervisor = "calling"]]
  /\ UNCHANGED <<durable, last, lock, creation, bounds>>

(* Mutant: every exit is reported as unexpected. *)
ReportsUnexpected(p) ==
  /\ process[p].supervisor = "watching" /\ ~Alive(p)
  /\ Unregister(p)
  /\ process' = [process EXCEPT ![p].supervisor = "calling"]
  /\ UNCHANGED <<durable, last, lock, creation, bounds>>

(* _supervise after the exit and the draining of the output.  The callback  *)
(* of a requested exit returns at once.                                     *)
Supervise(p) ==
  /\ process[p].supervisor = "watching" /\ ~Alive(p)
  /\ Unregister(p)
  /\ process' = [process EXCEPT ![p] =
                   IF @.requested THEN Forgotten ELSE [@ EXCEPT !.supervisor = "calling"]]
  /\ UNCHANGED <<durable, last, lock, creation, bounds>>

(* A clip that has ended with code 0, unless it is to loop; or a failure. *)
AfterExit == {"error"} \cup (IF row.config.loop THEN {} ELSE {"stopped"})

(* Mutant: the status of a newer publisher is overwritten. *)
ExitCallbackAnyway(p) ==
  /\ process[p].supervisor = "calling" /\ at = "idle"
  /\ process' = [process EXCEPT ![p] = Forgotten]
  /\ \E s \in AfterExit : SetStatus(s)
  /\ UNCHANGED <<life, files, mounted, last, registered, lock, creation, bounds>>

(* _on_process_exit, once it has the lock. *)
ExitCallback(p) ==
  /\ process[p].supervisor = "calling" /\ at = "idle"
  /\ process' = [process EXCEPT ![p] = Forgotten]
  /\ IF IsRunning THEN UNCHANGED row
     ELSE \E s \in AfterExit : SetStatus(s)
  /\ UNCHANGED <<life, files, mounted, last, registered, lock, creation, bounds>>

-----------------------------------------------------------------------------
(* Environment *)

MountedFileChanges ==
  /\ Fault
  /\ mounted' = ~mounted
  /\ UNCHANGED <<life, row, files, processes, lock, creation, ops, restarts>>

(* The simulator dies, or is shut down, and its publishers with it; startup *)
(* resets the status and starts the camera again if it is to be.            *)
ServiceRestarts ==
  /\ restarts < MaxRestarts
  /\ restarts' = restarts + 1
  /\ process' = [p \in Publishers |->
                   IF process[p].state = "none" THEN NoProcess ELSE Forgotten]
  /\ registered' = None
  /\ IF row.status \in Transitional \cup {"running"} THEN SetStatus("stopped")
     ELSE UNCHANGED row
  /\ IF life = "stored" /\ row.auto
     THEN /\ op' = "start" /\ at' = "start" /\ carried' = row'
          /\ managed' = None /\ again' = FALSE /\ old' = {}
     ELSE Done
  /\ creating' = FALSE /\ created' = NoRecord
  /\ UNCHANGED <<life, files, mounted, last, ops, faults>>

Init ==
  /\ life = "unborn" /\ row = NoRecord
  /\ files = {} /\ mounted = TRUE
  /\ process = [p \in Publishers |-> NoProcess]
  /\ last = None /\ registered = None
  /\ op = "none" /\ at = "idle" /\ carried = NoRecord
  /\ managed = None /\ again = FALSE /\ old = {}
  /\ creating = FALSE /\ created = NoRecord
  /\ ops = 0 /\ faults = 0 /\ restarts = 0

Api ==
  \/ Start \/ Stop \/ Restart \/ Delete
  \/ \E auto \in BOOLEAN, config \in Config : Create(auto, config) \/ Update(auto, config)

Next ==
  \/ Api \/ CreateStarts \/ CreateStops \/ HolderStep
  \/ \E p \in Publishers : Supervise(p) \/ ExitCallback(p) \/ Exits(p)
  \/ MountedFileChanges \/ ServiceRestarts

(* asyncio runs every ready task, and a process that was told to stop is    *)
(* killed if it does not.                                                   *)
Fairness ==
  /\ WF_vars(HolderStep) /\ WF_vars(CreateStarts) /\ WF_vars(CreateStops)
  /\ \A p \in Publishers :
        /\ WF_vars(Supervise(p)) /\ WF_vars(ExitCallback(p))
        /\ WF_vars(process[p].requested /\ Exits(p))

Spec     == Init /\ [][Next]_vars
FairSpec == Spec /\ Fairness

-----------------------------------------------------------------------------
(* Safety *)

(* No exit of a supervised process is still to be dealt with. *)
Quiet == \A p \in Publishers : process[p].supervisor = "watching" => Alive(p)
Settled == at = "idle" /\ ~creating /\ Quiet
             /\ \A p \in Publishers : process[p].supervisor # "calling"

(* A live publisher is always the registered one, so that there is never a  *)
(* second one on the stream path.  Its camera has not been deleted, with    *)
(* the one exception of a camera deleted before its create started it.      *)
OnePublisher ==
  \A p \in Publishers : Alive(p) =>
    /\ registered = p
    /\ life = "stored" \/ process[p].stray = "orphan"

(* Between operations the camera of a live publisher is RUNNING, whatever   *)
(* exit callbacks are late, unless a create ended only after another client *)
(* had it started, and called that publisher STOPPED.  Once the callbacks   *)
(* have run, RUNNING means there is one, and no transitional status is left *)
(* behind, without an exception.                                            *)
StatusIsHonest ==
  life = "stored" =>
    /\ at = "idle" /\ IsRunning =>
         row.status = "running" \/ process[registered].stray = "mislabelled"
    /\ Settled => row.status \notin Transitional /\ (row.status = "running" => IsRunning)

(* Between operations the publisher streams what the row of its camera      *)
(* says: an edit that matters has restarted it.  The exception is the       *)
(* publisher that a create started after its camera had been edited.        *)
PublisherRunsItsRow ==
  life = "stored" /\ at = "idle" /\ IsRunning =>
    \/ process[registered].runs = row.config
    \/ process[registered].stray = "outdated"

(* An upload a row names is in storage at every moment, so also after a     *)
(* crash in the middle of replacing it.                                     *)
RowHasItsSource ==
  life = "stored" => row.config.source = Mounted \/ row.config.source \in files

-----------------------------------------------------------------------------
(* Liveness *)

(* No operation hangs: a stop that holds the lock never waits for a         *)
(* supervisor whose callback waits for the lock.                            *)
CameraSettles == <>[]Settled
=============================================================================
