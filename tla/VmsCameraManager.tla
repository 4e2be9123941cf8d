-------------------------- MODULE VmsCameraManager --------------------------
(***************************************************************************)
(* The VMS camera manager (services/vms): the operator's desired state in  *)
(* SQLite, the media server's configured paths that are derived from it,   *)
(* and the asyncio tasks that keep the two together.                       *)
(*                                                                         *)
(* One action is the code between two awaits, together with the effect of  *)
(* the await that precedes it.  Where the code uses a value it read before *)
(* a later await (the rows and the path list of the poll, the stale list   *)
(* of a reconcile) the read is a step of its own.  Three kinds of task     *)
(* interleave: at most one holder of each camera's lock (a mutation of the *)
(* API, or the reconcile visiting the camera), and the poll loop.          *)
(*                                                                         *)
(* The holder of a lock works on the row it read or wrote when it took the *)
(* lock: that is carried[c], the local "record" of _apply.                 *)
(***************************************************************************)
EXTENDS Naturals, FiniteSets

CONSTANTS
  Cameras,     (* camera ids; a uuid is never reused                       *)
  Sources,     (* RTSP URLs an operator can enter                          *)
  Rejected,    (* the URLs the media server answers with 400               *)
  NoPath,      (* no path is configured                                    *)
  Payloads,    (* the rows an operator may ask for                         *)
  MaxEdits,    (* bound: mutations                                         *)
  MaxFaults,   (* bound: failed calls and media server crashes             *)
  MaxRestarts  (* bound: restarts of the VMS backend                       *)

ASSUME SourcesAssumption == Sources # {} /\ Rejected \subseteq Sources
ASSUME BoundsAssumption == {MaxEdits, MaxFaults, MaxRestarts} \subseteq Nat

Row        == [enabled : BOOLEAN, source : Sources, recording : BOOLEAN]
PathConfig == [source : Sources, record : BOOLEAN]

ASSUME PayloadsAssumption == Payloads \subseteq Row

(* What "row" holds for an id that has no row. *)
BlankRow == CHOOSE r \in Row : ~r.enabled

ASSUME NoPathAssumption == NoPath \notin PathConfig

VARIABLES
  (* durable: the cameras table *)
  born,        (* ids that were ever inserted                              *)
  stored,      (* ids that have a row                                      *)
  row,         (* their rows                                               *)
  (* external: MediaMTX *)
  up,          (* the control API answers                                  *)
  paths,       (* the managed path of each camera                          *)
  (* in memory: fields of CameraManager *)
  health,      (* _health                                                  *)
  errors,      (* keys of _recording_errors                                *)
  available,   (* _mediamtx_available                                      *)
  version,     (* _mediamtx_version is not None                            *)
  pending,     (* _pending_reconcile                                       *)
  recent,      (* a reconcile ended less than reconcile_min_interval ago   *)
  (* in memory: the holder of each camera's lock and where it is *)
  holder,
  step,
  carried,     (* the row it works on                                      *)
  (* in memory: locals of the poll loop *)
  pc,
  reason,      (* of the reconcile in progress                             *)
  recovered,   (* the poll found the media server back                     *)
  known,       (* ids of the rows last listed                              *)
  wanted,      (* the enabled ones among them                              *)
  stale,       (* paths still to be deleted                                *)
  todo,        (* cameras still to be applied                              *)
  seen,        (* the path list last received                              *)
  (* history: rows written and not known to be configured since *)
  dirty,
  (* bounds *)
  edits, faults, restarts

durable  == <<born, stored, row>>
external == <<up, paths>>
memory   == <<health, errors, available, version, pending, recent>>
locks    == <<holder, step, carried>>
polled   == <<pc, reason, recovered, known, wanted, stale, seen>>
locals   == <<polled, todo>>
bounds   == <<edits, faults, restarts>>
vars     == <<durable, external, memory, locks, locals, dirty, bounds>>

Health   == {"none", "unknown", "online", "offline"}
Pending  == {"none", "startup", "requested"}
Holders  == {"nobody", "api", "reconcile"}
Steps    == {"idle", "check", "configure", "probe", "remove"}
PollPcs  == {"sleep", "reconcileRows", "reconcileList", "removeStale", "applyAll",
             "healthRows", "healthList", "healthSeen", "healthSet"}
Seen     == {"absent", "online", "offline"}

DurableType ==
  /\ stored \subseteq born /\ born \subseteq Cameras
  /\ row \in [Cameras -> Row]

ExternalType ==
  /\ up \in BOOLEAN
  /\ paths \in [Cameras -> PathConfig \cup {NoPath}]

MemoryType ==
  /\ health \in [Cameras -> Health]
  /\ errors \subseteq Cameras
  /\ available \in BOOLEAN /\ version \in BOOLEAN /\ recent \in BOOLEAN
  /\ pending \in Pending

LockType ==
  /\ holder \in [Cameras -> Holders]
  /\ step \in [Cameras -> Steps]
  /\ carried \in [Cameras -> Row]

PolledType ==
  /\ pc \in PollPcs
  /\ reason \in Pending /\ recovered \in BOOLEAN
  /\ known \subseteq Cameras /\ wanted \subseteq known
  /\ stale \subseteq Cameras
  /\ seen \in [Cameras -> Seen]

TypeOK ==
  /\ DurableType /\ ExternalType /\ MemoryType /\ LockType /\ PolledType
  /\ todo \subseteq Cameras
  /\ dirty \subseteq Cameras
  /\ edits \in Nat /\ faults \in Nat /\ restarts \in Nat

-----------------------------------------------------------------------------
(* Derived state *)

Enabled(c) == c \in stored /\ row[c].enabled

ShouldRecord(c) == Enabled(c) /\ row[c].recording

(* What the path has to look like by a row; NoPath when it has to be gone. *)
Target(r) ==
  IF r.enabled THEN [source |-> r.source, record |-> r.recording] ELSE NoPath

(* What the path of c has to look like by what is stored. *)
Desired(c) == IF c \in stored THEN Target(row[c]) ELSE NoPath

-----------------------------------------------------------------------------
(* Calls to the media server.  A call is answered, fails with a status of  *)
(* 500, is carried out but its answer is lost, or does not reach a server  *)
(* that is down or unreachable.                                            *)

Answers ==
  IF up
  THEN {"ok"} \cup (IF faults < MaxFaults THEN {"error", "lost", "dropped"} ELSE {})
  ELSE {"dropped"}

Unreachable == {"lost", "dropped"}

(* A call is spent on the fault bound unless it succeeds or the server is down. *)
Spend(a) == faults' = IF up /\ a # "ok" THEN faults + 1 ELSE faults

CarriedOut(a) == a \in {"ok", "lost"}

(* _note_mediamtx_error *)
NoteError(a) == available' = (available /\ a \notin Unreachable)

(* _request_reconcile *)
Requested(now, force) ==
  IF now # "none" \/ (~force /\ recent) THEN now ELSE "requested"

(* Mutant: an error is noted but never cleared. *)
WithRecordingErrorKept(c) ==
  IF carried[c].enabled /\ carried[c].recording THEN errors \cup {c} ELSE errors

(* _note_recording_error *)
WithRecordingError(c) ==
  IF carried[c].enabled /\ carried[c].recording THEN errors \cup {c} ELSE errors \ {c}

(* The lock of c is taken, for work on row r. *)
Take(c, task, at, r) ==
  /\ holder[c] = "nobody"
  /\ holder' = [holder EXCEPT ![c] = task]
  /\ step' = [step EXCEPT ![c] = at]
  /\ carried' = [carried EXCEPT ![c] = r]

(* It is kept, and the holder goes on. *)
GoOn(c, to) ==
  /\ step' = [step EXCEPT ![c] = to]
  /\ UNCHANGED <<holder, carried, todo>>

(* The holder of c's lock returns; the reconcile goes on to its next camera. *)
Release(c) ==
  /\ holder' = [holder EXCEPT ![c] = "nobody"]
  /\ step' = [step EXCEPT ![c] = "idle"]
  /\ carried' = [carried EXCEPT ![c] = BlankRow]
  /\ todo' = IF holder[c] = "reconcile" THEN todo \ {c} ELSE todo

(* The MediaMTXError branch of _apply. *)
ApplyFailed(c, a) ==
  /\ NoteError(a)
  /\ health' = [health EXCEPT ![c] = "unknown"]
  /\ errors' = WithRecordingError(c)
  /\ pending' = Requested(pending, FALSE)
  /\ Release(c)

-----------------------------------------------------------------------------
(* Mutations.  The row is written first, then the lock holder goes on.     *)

Create(c, r) ==
  /\ edits < MaxEdits
  /\ c \notin born
  /\ born' = born \cup {c}
  /\ stored' = stored \cup {c}
  /\ row' = [row EXCEPT ![c] = r]
  /\ dirty' = dirty \cup {c}
  /\ Take(c, "api", "configure", r)
  /\ edits' = edits + 1
  /\ UNCHANGED <<external, memory, locals, faults, restarts>>

(* Mutant: the row is written without waiting for the lock. *)
UpdateWithoutLock(c, r) ==
  /\ edits < MaxEdits
  /\ c \in stored
  /\ r # row[c]
  /\ row' = [row EXCEPT ![c] = r]
  /\ dirty' = dirty \cup {c}
  /\ IF holder[c] = "nobody" THEN Take(c, "api", "configure", r) ELSE UNCHANGED locks
  /\ edits' = edits + 1
  /\ UNCHANGED <<born, stored, external, memory, locals, faults, restarts>>

(* A PATCH that changes none of these fields writes at most the name and    *)
(* calls nothing.                                                           *)
Update(c, r) ==
  /\ edits < MaxEdits
  /\ c \in stored
  /\ r # row[c]
  /\ row' = [row EXCEPT ![c] = r]
  /\ dirty' = dirty \cup {c}
  /\ Take(c, "api", "configure", r)
  /\ edits' = edits + 1
  /\ UNCHANGED <<born, stored, external, memory, locals, faults, restarts>>

Delete(c) ==
  /\ edits < MaxEdits
  /\ c \in stored
  /\ stored' = stored \ {c}
  /\ health' = [health EXCEPT ![c] = "none"]
  /\ errors' = errors \ {c}
  /\ dirty' = dirty \cup {c}
  /\ Take(c, "api", "remove", BlankRow)
  /\ edits' = edits + 1
  /\ UNCHANGED <<born, row, external, available, version, pending, recent, locals,
                 faults, restarts>>

(* delete_camera: the best-effort removal of the path. *)
Remove(c) ==
  /\ step[c] = "remove"
  /\ \E a \in Answers :
       /\ Spend(a)
       /\ paths' = IF CarriedOut(a) THEN [paths EXCEPT ![c] = NoPath] ELSE paths
       /\ IF a = "ok"
          THEN /\ dirty' = dirty \ {c}
               /\ UNCHANGED <<available, pending>>
          ELSE /\ NoteError(a)
               /\ pending' = Requested(pending, FALSE)
               /\ UNCHANGED dirty
  /\ Release(c)
  /\ UNCHANGED <<durable, up, health, errors, version, recent, polled, edits, restarts>>

-----------------------------------------------------------------------------
(* _apply, under c's lock, for a mutation or for the reconcile.            *)

(* skip_if_current: a path that already matches is left alone. *)
Check(c) ==
  /\ step[c] = "check"
  /\ \E a \in Answers :
       /\ Spend(a)
       /\ \/ /\ a = "ok" /\ paths[c] = Target(carried[c])
             /\ available' = TRUE
             /\ errors' = errors \ {c}
             /\ dirty' = dirty \ {c}
             /\ GoOn(c, "probe")
             /\ UNCHANGED <<health, pending>>
          \/ /\ a = "ok" /\ paths[c] # Target(carried[c])
             /\ GoOn(c, "configure")
             /\ UNCHANGED <<available, errors, dirty, health, pending>>
          \/ /\ a # "ok"
             /\ ApplyFailed(c, a)
             /\ UNCHANGED dirty
  /\ UNCHANGED <<durable, external, version, recent, polled, edits, restarts>>

(* Mutant: a path that exists is left alone. *)
CreatedIfMissing(c, a) ==
  IF CarriedOut(a) /\ carried[c].source \notin Rejected /\ paths[c] = NoPath
  THEN [paths EXCEPT ![c] = Target(carried[c])]
  ELSE paths

(* The paths after "replace": the whole configuration is installed, or the  *)
(* URL is refused and the path left as it was.                              *)
Replaced(c, a) ==
  IF CarriedOut(a) /\ carried[c].source \notin Rejected
  THEN [paths EXCEPT ![c] = Target(carried[c])]
  ELSE paths

(* ensure_path for an enabled camera. *)
EnsurePath(c) ==
  /\ step[c] = "configure" /\ carried[c].enabled
  /\ \E a \in Answers :
       /\ Spend(a)
       /\ paths' = Replaced(c, a)
       /\ \/ /\ a = "ok" /\ carried[c].source \notin Rejected
             /\ available' = TRUE
             /\ errors' = errors \ {c}
             /\ dirty' = dirty \ {c}
             /\ GoOn(c, "probe")
             /\ UNCHANGED <<health, pending>>
          \/ /\ a = "ok" /\ carried[c].source \in Rejected
             /\ available' = TRUE
             /\ errors' = WithRecordingError(c)
             /\ health' = [health EXCEPT ![c] = "offline"]
             /\ Release(c)
             /\ UNCHANGED <<dirty, pending>>
          \/ /\ a # "ok"
             /\ ApplyFailed(c, a)
             /\ UNCHANGED dirty
  /\ UNCHANGED <<durable, up, version, recent, polled,
                 edits, restarts>>

(* delete_path for a disabled camera. *)
DropPath(c) ==
  /\ step[c] = "configure" /\ ~carried[c].enabled
  /\ \E a \in Answers :
       /\ Spend(a)
       /\ paths' = IF CarriedOut(a) THEN [paths EXCEPT ![c] = NoPath] ELSE paths
       /\ \/ /\ a = "ok"
             /\ available' = TRUE
             /\ errors' = errors \ {c}
             /\ health' = [health EXCEPT ![c] = "unknown"]
             /\ dirty' = dirty \ {c}
             /\ Release(c)
             /\ UNCHANGED pending
          \/ /\ a # "ok"
             /\ ApplyFailed(c, a)
             /\ UNCHANGED dirty
  /\ UNCHANGED <<durable, up, version, recent, polled,
                 edits, restarts>>

(* get_path: the health the answer of the API carries.  A path that is gone *)
(* is PathNotFound, a MediaMTXError like any other.                         *)
Probe(c) ==
  /\ step[c] = "probe"
  /\ \E a \in Answers :
       /\ Spend(a)
       /\ \/ /\ a = "ok" /\ paths[c] # NoPath
             /\ \E h \in {"online", "offline"} : health' = [health EXCEPT ![c] = h]
             /\ Release(c)
             /\ UNCHANGED <<available, errors, pending>>
          \/ /\ a = "ok" /\ paths[c] = NoPath
             /\ ApplyFailed(c, "error")
          \/ /\ a # "ok"
             /\ ApplyFailed(c, a)
  /\ UNCHANGED <<durable, external, version, recent, polled, dirty, edits, restarts>>

HolderStep(c) == Remove(c) \/ Check(c) \/ EnsurePath(c) \/ DropPath(c) \/ Probe(c)

-----------------------------------------------------------------------------
(* The poll loop: one reconcile if one is pending, then a health poll.     *)

(* _mark_all_unknown, and the note that the server did not answer. *)
MarkAllUnknown ==
  /\ available' = FALSE
  /\ health' = [c \in Cameras |-> IF c \in known THEN "unknown" ELSE health[c]]

(* reconcile_all or refresh_health returns: its locals are gone. *)
Return(to) ==
  /\ pc' = to
  /\ reason' = "none" /\ recovered' = FALSE
  /\ known' = {} /\ wanted' = {} /\ stale' = {}
  /\ seen' = [c \in Cameras |-> "absent"]

(* The top of the loop takes the pending request and clears it. *)
Wake ==
  /\ pc = "sleep"
  /\ IF pending # "none"
     THEN reason' = pending /\ pending' = "none" /\ pc' = "reconcileRows"
     ELSE pc' = "healthRows" /\ UNCHANGED <<reason, pending>>
  /\ UNCHANGED <<durable, external, health, errors, available, version, recent, locks,
                 recovered, known, wanted, stale, todo, seen, dirty, bounds>>

ListRows(from, to) ==
  /\ pc = from /\ pc' = to
  /\ known' = stored
  /\ wanted' = {c \in stored : row[c].enabled}
  /\ UNCHANGED <<durable, external, memory, locks, reason, recovered, stale, todo, seen,
                 dirty, bounds>>

ReconcileRows == ListRows("reconcileRows", "reconcileList")
HealthRows    == ListRows("healthRows", "healthList")

(* list_configured_path_names; the stale names are fixed from here on. *)
ReconcileList ==
  /\ pc = "reconcileList"
  /\ \E a \in Answers :
       /\ Spend(a)
       /\ \/ /\ a = "ok"
             /\ available' = TRUE
             /\ stale' = {c \in Cameras : paths[c] # NoPath /\ c \notin wanted}
             /\ pc' = "removeStale"
             /\ UNCHANGED <<health, reason, recovered, known, wanted, seen>>
          \/ /\ a # "ok"
             /\ MarkAllUnknown
             /\ Return("healthRows")
  /\ UNCHANGED <<durable, external, errors, version, pending, recent, locks, todo, dirty,
                 edits, restarts>>

(* delete_path of one stale name, without the camera's lock. *)
RemoveStale(c) ==
  /\ pc = "removeStale" /\ c \in stale
  /\ \E a \in Answers :
       /\ Spend(a)
       /\ paths' = IF CarriedOut(a) THEN [paths EXCEPT ![c] = NoPath] ELSE paths
       /\ IF a = "ok" THEN UNCHANGED available ELSE NoteError(a)
  /\ stale' = stale \ {c}
  /\ UNCHANGED <<durable, up, health, errors, version, pending, recent, locks, pc, reason,
                 recovered, known, wanted, todo, seen, dirty, edits, restarts>>

StaleRemoved ==
  /\ pc = "removeStale" /\ stale = {}
  /\ pc' = "applyAll"
  /\ todo' = wanted
  /\ UNCHANGED <<durable, external, memory, locks, reason, recovered, known, wanted, stale,
                 seen, dirty, bounds>>

(* The next camera: take its lock, read its row again, skip it if it has    *)
(* been deleted or disabled meanwhile.                                      *)
Visit(c) ==
  /\ pc = "applyAll" /\ c \in todo
  /\ \A d \in Cameras : holder[d] # "reconcile"
  /\ \/ /\ Enabled(c)
        /\ Take(c, "reconcile", IF reason = "startup" THEN "check" ELSE "configure", row[c])
        /\ UNCHANGED todo
     \/ /\ ~Enabled(c) /\ holder[c] = "nobody"
        /\ todo' = todo \ {c}
        /\ UNCHANGED locks
  /\ UNCHANGED <<durable, external, memory, polled, dirty, bounds>>

(* _last_reconcile_at.  The loop cleared the request before the pass, so    *)
(* what is pending now was raised during the pass and stays.                *)
ReconcileDone ==
  /\ pc = "applyAll" /\ todo = {}
  /\ recent' = TRUE
  /\ Return("healthRows")
  /\ UNCHANGED <<durable, external, health, errors, available, version, pending, locks,
                 todo, dirty, bounds>>

(* list_paths: runtime state of every path, as a snapshot. *)
HealthList ==
  /\ pc = "healthList"
  /\ \E a \in Answers :
       /\ Spend(a)
       /\ \/ /\ a = "ok"
             /\ \E s \in [Cameras -> Seen] :
                   /\ \A c \in Cameras : s[c] = "absent" <=> paths[c] = NoPath
                   /\ seen' = s
             /\ pc' = "healthSeen"
             /\ UNCHANGED <<available, health, reason, recovered, known, wanted, stale>>
          \/ /\ a # "ok"
             /\ MarkAllUnknown
             /\ Return("sleep")
  /\ UNCHANGED <<durable, external, errors, version, pending, recent, locks, todo, dirty,
                 edits, restarts>>

(* The rest of refresh_health, from the two snapshots. *)
Drift == \E c \in wanted : seen[c] = "absent"

(* Mutant: only paths of stored cameras are looked at. *)
DisabledOrphans == \E c \in known \ wanted : seen[c] # "absent"

Orphans == \E c \in Cameras \ wanted : seen[c] # "absent"

(* Mutant: what is known of cameras without a row is left alone. *)
SetHealthOfRows(back) ==
  /\ health' = [c \in Cameras |->
                  IF c \notin known THEN health[c]
                  ELSE IF c \in wanted /\ seen[c] # "absent" THEN seen[c]
                  ELSE "unknown"]
  /\ errors' = errors \cap known
  /\ pending' = IF back \/ Drift \/ Orphans THEN Requested(pending, back) ELSE pending
  /\ Return("sleep")

SetHealth(back) ==
  /\ health' = [c \in Cameras |->
                  IF c \notin known THEN "none"
                  ELSE IF c \in wanted /\ seen[c] # "absent" THEN seen[c]
                  ELSE "unknown"]
  /\ errors' = errors \cap known
  /\ pending' = IF back \/ Drift \/ Orphans THEN Requested(pending, back) ELSE pending
  /\ Return("sleep")

(* "recovered" is decided before get_info is awaited, the rest after; with  *)
(* nothing to ask there is no await in between.                             *)
HealthSeen ==
  /\ pc = "healthSeen"
  /\ available' = TRUE
  /\ \/ /\ ~available \/ ~version
        /\ pc' = "healthSet"
        /\ recovered' = ~available
        /\ UNCHANGED <<health, errors, pending, reason, known, wanted, stale, seen>>
     \/ /\ available /\ version
        /\ SetHealth(FALSE)
  /\ UNCHANGED <<durable, external, version, recent, locks, todo, dirty, bounds>>

(* get_info; its failure only leaves the version unknown. *)
HealthSet ==
  /\ pc = "healthSet"
  /\ \E a \in Answers : Spend(a) /\ version' = (a = "ok")
  /\ SetHealth(recovered)
  /\ UNCHANGED <<durable, external, available, recent, locks, todo, dirty, edits,
                 restarts>>

PollStep ==
  \/ Wake \/ ReconcileRows \/ ReconcileList \/ StaleRemoved \/ ReconcileDone
  \/ HealthRows \/ HealthList \/ HealthSeen \/ HealthSet
  \/ \E c \in Cameras : RemoveStale(c) \/ Visit(c)

-----------------------------------------------------------------------------
(* Time and failures.                                                      *)

IntervalPasses ==
  /\ recent
  /\ recent' = FALSE
  /\ UNCHANGED <<durable, external, health, errors, available, version, pending, locks,
                 locals, dirty, bounds>>

(* Paths added through the control API do not survive the media server. *)
MediaMTXStops ==
  /\ up /\ faults < MaxFaults
  /\ up' = FALSE
  /\ paths' = [c \in Cameras |-> NoPath]
  /\ faults' = faults + 1
  /\ UNCHANGED <<durable, memory, locks, locals, dirty, edits, restarts>>

MediaMTXStarts ==
  /\ ~up
  /\ up' = TRUE
  /\ UNCHANGED <<durable, paths, memory, locks, locals, dirty, bounds>>

(* The backend stops between two steps and starts again from its database. *)
BackendRestarts ==
  /\ restarts < MaxRestarts
  /\ restarts' = restarts + 1
  /\ health' = [c \in Cameras |-> "none"]
  /\ errors' = {} /\ available' = FALSE /\ version' = FALSE
  /\ pending' = "startup" /\ recent' = FALSE
  /\ holder' = [c \in Cameras |-> "nobody"]
  /\ step' = [c \in Cameras |-> "idle"]
  /\ carried' = [c \in Cameras |-> BlankRow]
  /\ Return("sleep") /\ todo' = {}
  /\ UNCHANGED <<durable, external, dirty, edits, faults>>

Init ==
  /\ born = {} /\ stored = {}
  /\ row = [c \in Cameras |-> BlankRow]
  /\ up \in BOOLEAN
  /\ paths = [c \in Cameras |-> NoPath]
  /\ health = [c \in Cameras |-> "none"]
  /\ errors = {} /\ available = FALSE /\ version = FALSE
  /\ pending = "startup" /\ recent = FALSE
  /\ holder = [c \in Cameras |-> "nobody"]
  /\ step = [c \in Cameras |-> "idle"]
  /\ carried = [c \in Cameras |-> BlankRow]
  /\ pc = "sleep" /\ reason = "none" /\ recovered = FALSE
  /\ known = {} /\ wanted = {} /\ stale = {} /\ todo = {}
  /\ seen = [c \in Cameras |-> "absent"]
  /\ dirty = {}
  /\ edits = 0 /\ faults = 0 /\ restarts = 0

Operator == \E c \in Cameras : Delete(c) \/ \E r \in Payloads : Create(c, r) \/ Update(c, r)

Environment == IntervalPasses \/ MediaMTXStops \/ MediaMTXStarts \/ BackendRestarts

Next == Operator \/ PollStep \/ Environment \/ \E c \in Cameras : HolderStep(c)

(* asyncio runs every ready task and its locks are first come, first        *)
(* served, so the poll loop and every holder of a lock make progress; the   *)
(* clock runs; the media server is supervised and comes back.  Nothing is   *)
(* assumed of the operator or of faults.                                    *)
Fairness ==
  /\ WF_vars(PollStep)
  /\ \A c \in Cameras : WF_vars(HolderStep(c))
  /\ WF_vars(IntervalPasses)
  /\ WF_vars(MediaMTXStarts)

Spec     == Init /\ [][Next]_vars
FairSpec == Spec /\ Fairness

-----------------------------------------------------------------------------
(* Safety *)

(* Whenever no task is working on a camera and its last configuration       *)
(* attempt succeeded, the path the media server serves under its name is    *)
(* exactly the stored one: source and recording flag.  It may be missing    *)
(* (the server restarted), never different.                                 *)
ConfiguredIsCurrent ==
  \A c \in Cameras \ dirty : paths[c] \in {NoPath, Desired(c)}

(* A recording error belongs to a camera that should be recording, or to    *)
(* one whose new row is just about to be applied: no error of an earlier    *)
(* life survives a toggle, a disable or a delete, whatever fails meanwhile. *)
ErrorsBelongToRecorders ==
  \A c \in errors : ShouldRecord(c) \/ step[c] \in {"check", "configure"}

(* The reconcile holds at most the lock of the camera it is visiting, which *)
(* is still to do and still enabled.  A lock holder works on the row that   *)
(* is stored, not on one that was replaced since it was read, and the path  *)
(* of a deleted camera is removed while it has no row.                      *)
LockDiscipline ==
  /\ \A c \in Cameras : holder[c] = "nobody" <=> step[c] = "idle"
  /\ \A c \in Cameras : holder[c] = "reconcile" =>
        pc = "applyAll" /\ c \in todo /\ Enabled(c) /\ step[c] # "remove"
  /\ \A c, d \in Cameras :
        holder[c] = "reconcile" /\ holder[d] = "reconcile" => c = d
  /\ \A c \in Cameras : step[c] \in {"check", "configure", "probe"} =>
        c \in stored /\ carried[c] = row[c]
  /\ \A c \in Cameras : step[c] \in {"probe", "check"} => Enabled(c)
  /\ \A c \in Cameras : step[c] = "remove" => c \notin stored

(* Media server side, the manager only ever mirrors the current row or      *)
(* loses a path: no interleaving of edits, polls, reconciles, failures and  *)
(* restarts writes back a configuration the operator has replaced.          *)
Mirror ==
  INSTANCE DesiredStateMirror WITH
    Configs  <- PathConfig,
    NoConfig <- NoPath,
    desired  <- [c \in Cameras |-> Desired(c)],
    actual   <- paths

MirrorsDesiredState == Mirror!Spec

-----------------------------------------------------------------------------
(* Liveness, once operator and faults have fallen silent (both are bounded) *)

(* The paths converge: every managed path belongs to an enabled camera and  *)
(* every enabled camera whose URL is accepted has one, whatever was lost,   *)
(* left behind or wrongly deleted before.                                   *)
PathsConverge ==
  <>[](\A c \in Cameras :
         /\ paths[c] # NoPath => Enabled(c)
         /\ Enabled(c) /\ row[c].source \notin Rejected => paths[c] # NoPath)

(* The reported health converges: nothing is reported for a deleted camera, *)
(* a disabled one is UNKNOWN, and ONLINE or OFFLINE is only ever said of a  *)
(* camera that is enabled.                                                  *)
HealthConverges ==
  <>[](\A c \in Cameras :
         /\ c \notin stored => health[c] = "none"
         /\ c \in stored /\ ~Enabled(c) => health[c] = "unknown")

-----------------------------------------------------------------------------
(* What comments and documentation say, and the code does not do *)

(* camera_manager.py: "Keep the desired state; the reconcile loop will      *)
(* retry".  An enabled camera with an accepted URL ends up configured as    *)
(* stored.                                                                  *)
ConfigurationConverges ==
  <>[](\A c \in Cameras :
         Enabled(c) /\ row[c].source \notin Rejected => paths[c] = Desired(c))
=============================================================================
