----------------------- MODULE AnalyticsCameraManager -----------------------
(***************************************************************************)
(* The life of one camera of the video analytics service: its row and its  *)
(* line in SQLite, the registry entry the API reports from, and the worker *)
(* threads that analyse its stream.  Cameras share nothing but the          *)
(* detector, which no step here waits for, so one camera shows everything.  *)
(*                                                                         *)
(* Two kinds of process interleave: the holder of the camera's asyncio lock *)
(* (a PATCH, PUT or DELETE; only joining a thread makes it wait) and the    *)
(* worker threads, which may be several once a join has timed out.  A step  *)
(* of a thread is the code between two points where it looks at, or         *)
(* publishes, state shared with the manager.                                *)
(***************************************************************************)
EXTENDS Naturals, FiniteSets

CONSTANTS
  Urls,          (* RTSP URLs                                              *)
  Lines,         (* geometries of an enabled line                          *)
  NoLine,        (* no line, or a disabled one: nothing to watch           *)
  MaxOps,        (* bound: operations of the API                           *)
  MaxFailures,   (* bound: failed attempts, fatal errors, failed starts    *)
  MaxTimeouts,   (* bound: joins that time out                             *)
  MaxRestarts    (* bound: restarts of the service                         *)

ASSUME BoundsAssumption == {MaxOps, MaxFailures, MaxTimeouts, MaxRestarts} \subseteq Nat
ASSUME LinesAssumption == NoLine \notin Lines
ASSUME UrlsAssumption == Urls # {}

(* Every start of a worker is owed to an operation or to a restart. *)
Instances == 1..(MaxOps + MaxRestarts)
None      == 0     (* no instance, no session                              *)

Config == [url : Urls, line : Lines \cup {NoLine}, requested : Nat]
Camera == [status : {"unborn", "stored", "deleted"}, enabled : BOOLEAN, url : Urls]

States   == {"disabled", "starting", "running", "reconnecting", "error"}
Active   == {"starting", "running", "reconnecting"}
Places   == {"none", "starting", "top", "pump", "backoff", "exiting", "dead"}

Entry ==
  [inst : Instances \cup {None}, worker : Instances \cup {None},
   state : States, stopping : BOOLEAN, session : Nat]

Thread ==
  [pc : Places, stop : BOOLEAN, cfg : Config, pending : SUBSET Config,
   session : Nat, engine : [line : Lines \cup {NoLine}, session : Nat]]

VARIABLES
  (* durable *)
  camera,
  line,
  (* the manager *)
  ready,        (* _detector_ready                                         *)
  entry,        (* the WorkerEntry and its runtime                         *)
  op,           (* the operation waiting for a thread under the lock       *)
  phase,
  (* the threads *)
  thread,
  (* fresh ids *)
  lastInstance, lastSession,
  (* bounds *)
  ops, failures, timeouts, restarts

durable == <<camera, line>>
manager == <<ready, entry, op, phase>>
bounds  == <<ops, failures, timeouts, restarts>>
vars    == <<durable, manager, thread, lastInstance, lastSession, bounds>>

Ops == {"none", "disable", "rtsp", "delete"}

TypeOK ==
  /\ camera \in Camera
  /\ line \in Lines \cup {NoLine}
  /\ ready \in BOOLEAN
  /\ entry \in Entry
  /\ op \in Ops
  /\ phase \in {"idle", "joining", "timedOut"}
  /\ thread \in [Instances -> Thread]
  /\ lastInstance \in 0..(ops + restarts) /\ lastSession \in Nat
  /\ ops \in 0..MaxOps /\ restarts \in 0..MaxRestarts
  /\ failures \in Nat /\ timeouts \in Nat

-----------------------------------------------------------------------------
(* Helpers *)

SomeUrl == CHOOSE u \in Urls : TRUE

(* A runtime without a worker instance. *)
Idle(state) ==
  [inst |-> None, worker |-> None, state |-> state, stopping |-> FALSE, session |-> None]

NoThread ==
  [pc |-> "none", stop |-> FALSE,
   cfg |-> [url |-> SomeUrl, line |-> NoLine, requested |-> None], pending |-> {},
   session |-> None, engine |-> [line |-> NoLine, session |-> None]]

Alive(w) == thread[w].pc \notin {"none", "dead"}

(* Mutant: the runtime callback without its instance check. *)
PublishedByAny(w, state, session) ==
  [entry EXCEPT !.state = state, !.session = session, !.stopping = @ /\ state \in Active]

(* The runtime callback: ignored unless it comes from the current instance. *)
Published(w, state, session) ==
  IF entry.inst = w
  THEN [entry EXCEPT !.state = state, !.session = session,
                     !.stopping = @ /\ state \in Active]
  ELSE entry

-----------------------------------------------------------------------------
(* The rows: the repositories write one each, or raise. *)

Inserted(e, u) == [status |-> "stored", enabled |-> e, url |-> u]
Updated(e, u)  == [camera EXCEPT !.enabled = e, !.url = u]
Deleted(row)   == [row EXCEPT !.status = "deleted"]

(* A camera has at most one line: the row there is is overwritten. *)
Upserted(l) == line' = l

-----------------------------------------------------------------------------
(* Starting, stopping and reconfiguring a worker; the caller holds the lock *)

(* _start_worker; the thread may fail to start.  The entry is replaced      *)
(* whatever thread the old one named.                                       *)
StartWorker(u, l) ==
  LET w == lastInstance + 1 IN
  /\ lastInstance' = w
  /\ lastSession' = lastSession + 1
  /\ \/ /\ thread' = [thread EXCEPT ![w] =
                        [NoThread EXCEPT !.pc = "starting",
                           !.cfg = [url |-> u, line |-> l, requested |-> lastSession + 1]]]
        /\ entry' = [Idle("starting") EXCEPT !.inst = w, !.worker = w]
        /\ UNCHANGED failures
     \/ /\ failures < MaxFailures
        /\ failures' = failures + 1
        /\ entry' = [Idle("error") EXCEPT !.inst = w]
        /\ UNCHANGED thread

(* _start_worker, or _mark_degraded without a detector. *)
StartOrDegrade(u, l) ==
  \/ ready /\ StartWorker(u, l)
  \/ /\ ~ready
     /\ entry' = Idle("error")
     /\ UNCHANGED <<thread, lastInstance, lastSession, failures>>

(* _install_config: the single slot of the worker is overwritten.  The      *)
(* session asked for is a new one, or the one last published.               *)
Install(u, l, new) ==
  LET fresh     == new \/ entry.session = None
      requested == IF fresh THEN lastSession + 1 ELSE entry.session
  IN
  /\ IF entry.worker # None
     THEN /\ thread' = [thread EXCEPT ![entry.worker].pending =
                          {[url |-> u, line |-> l, requested |-> requested]}]
          /\ lastSession' = IF fresh THEN lastSession + 1 ELSE lastSession
     ELSE UNCHANGED <<thread, lastSession>>
  /\ UNCHANGED <<entry, op, phase, lastInstance, failures>>

(* What an operation goes on with once no worker is left.  The cameras      *)
(* table cascades to the line, and the entry goes with the row.             *)
Continue(kind, row, stopped) ==
  \/ /\ kind = "disable"
     /\ camera' = row /\ entry' = stopped
     /\ UNCHANGED <<line, thread, lastInstance, lastSession, failures>>
  \/ /\ kind = "rtsp"
     /\ camera' = row
     /\ StartOrDegrade(row.url, line)
     /\ UNCHANGED line
  \/ /\ kind = "delete"
     /\ camera' = Deleted(row)
     /\ line' = NoLine
     /\ entry' = Idle("disabled")
     /\ UNCHANGED <<thread, lastInstance, lastSession, failures>>

(* Mutant: only a worker that is reported as running is stopped. *)
WriteAndStopRunning(kind, row) ==
  \/ /\ entry.worker # None /\ entry.state = "running"
     /\ camera' = row
     /\ entry' = [entry EXCEPT !.stopping = TRUE]
     /\ thread' = [thread EXCEPT ![entry.worker].stop = TRUE]
     /\ op' = kind /\ phase' = "joining"
     /\ UNCHANGED <<line, lastInstance, lastSession, failures>>
  \/ /\ entry.worker = None \/ entry.state # "running"
     /\ Continue(kind, row, entry)
     /\ UNCHANGED <<op, phase>>

(* The row is written first, then _stop_worker: signal, and join.           *)
WriteAndStop(kind, row) ==
  \/ /\ entry.worker # None
     /\ camera' = row
     /\ entry' = [entry EXCEPT !.stopping = TRUE]
     /\ thread' = [thread EXCEPT ![entry.worker].stop = TRUE]
     /\ op' = kind /\ phase' = "joining"
     /\ UNCHANGED <<line, lastInstance, lastSession, failures>>
  \/ /\ entry.worker = None
     /\ Continue(kind, row, entry)
     /\ UNCHANGED <<op, phase>>

-----------------------------------------------------------------------------
(* The API *)

Operation ==
  /\ op = "none"
  /\ ops < MaxOps
  /\ ops' = ops + 1
  /\ UNCHANGED <<ready, timeouts, restarts>>

Create(e, u) ==
  /\ Operation
  /\ camera.status = "unborn"
  /\ camera' = Inserted(e, u)
  /\ \/ e /\ StartOrDegrade(u, NoLine)
     \/ ~e /\ entry' = Idle("disabled")
        /\ UNCHANGED <<thread, lastInstance, lastSession, failures>>
  /\ UNCHANGED <<line, op, phase>>

(* One runtime action per PATCH.  "semantic": a field that resets the       *)
(* tracking changes; a PATCH that changes none of these is a renaming.      *)
Patch(e, u, semantic) ==
  /\ Operation
  /\ camera.status = "stored"
  /\ LET row == Updated(e, u) IN
     \/ /\ ~e /\ camera.enabled
        /\ WriteAndStop("disable", row)
     \/ /\ ~e /\ ~camera.enabled
        /\ camera' = row /\ UNCHANGED line
        /\ Install(u, line, FALSE)
     \/ /\ e /\ ~camera.enabled
        /\ camera' = row /\ UNCHANGED <<line, op, phase>>
        /\ StartOrDegrade(u, line)
     \/ /\ e /\ camera.enabled /\ u # camera.url
        /\ WriteAndStop("rtsp", row)
     \/ /\ e /\ camera.enabled /\ u = camera.url
        /\ camera' = row /\ UNCHANGED line
        /\ Install(u, line, semantic)

Delete ==
  /\ Operation
  /\ camera.status = "stored"
  /\ WriteAndStop("delete", [camera EXCEPT !.enabled = FALSE])

(* PUT of an enabled line. *)
PutLine(l) ==
  /\ Operation
  /\ camera.status = "stored"
  /\ Upserted(l)
  /\ Install(camera.url, l, TRUE)
  /\ UNCHANGED camera

(* DELETE of a line there is, or PUT of a disabled one. *)
RemoveLine ==
  /\ Operation
  /\ camera.status = "stored"
  /\ line' = NoLine
  /\ Install(camera.url, NoLine, TRUE)
  /\ UNCHANGED camera

(* Mutant: the stop is signalled but nobody waits for the thread. *)
JoinedAtOnce ==
  /\ phase = "joining"
  /\ Continue(op, camera,
       [entry EXCEPT !.worker = None, !.state = "disabled", !.stopping = FALSE,
                     !.session = None])
  /\ op' = "none" /\ phase' = "idle"
  /\ UNCHANGED <<ready, ops, timeouts, restarts>>

(* The thread has exited when the join returns. *)
Joined ==
  /\ phase = "joining"
  /\ ~Alive(entry.worker)
  /\ Continue(op, camera,
       [entry EXCEPT !.worker = None, !.state = "disabled", !.stopping = FALSE,
                     !.session = None])
  /\ op' = "none" /\ phase' = "idle"
  /\ UNCHANGED <<ready, ops, timeouts, restarts>>

(* It has not: is_alive is read, and later the runtime is written.          *)
JoinTimesOut ==
  /\ phase = "joining"
  /\ Alive(entry.worker)
  /\ timeouts < MaxTimeouts
  /\ timeouts' = timeouts + 1
  /\ phase' = "timedOut"
  /\ UNCHANGED <<durable, ready, entry, op, thread, lastInstance, lastSession,
                 ops, failures, restarts>>

StopTimedOut ==
  /\ phase = "timedOut"
  /\ entry' = [entry EXCEPT !.state = "error", !.stopping = TRUE]
  /\ op' = "none" /\ phase' = "idle"
  /\ UNCHANGED <<durable, ready, thread, lastInstance, lastSession, bounds>>

-----------------------------------------------------------------------------
(* The worker thread *)

ThreadOnly == UNCHANGED <<durable, ready, op, phase, lastInstance, ops, timeouts, restarts>>

(* run publishes STARTING before the first session. *)
Starts(w) ==
  /\ thread[w].pc = "starting"
  /\ thread' = [thread EXCEPT ![w].pc = "top"]
  /\ entry' = Published(w, "starting", None)
  /\ ThreadOnly /\ UNCHANGED <<lastSession, failures>>

(* _begin_session: a new tracker, and an engine if there is a line. *)
BeginSession(w, s, cfg, t) ==
  /\ thread' = [thread EXCEPT ![w] =
                  [t EXCEPT !.session = s, !.cfg = cfg,
                            !.engine = [line |-> cfg.line,
                                        session |-> IF cfg.line = NoLine THEN None ELSE s]]]

(* The top of the attempt loop: the first session is the one asked for, the *)
(* following ones are the worker's own.                                     *)
Attempt(w) ==
  /\ thread[w].pc = "top" /\ ~thread[w].stop
  /\ LET first == thread[w].session = None
         s     == IF first THEN thread[w].cfg.requested ELSE lastSession + 1
     IN /\ BeginSession(w, s, thread[w].cfg, [thread[w] EXCEPT !.pc = "pump"])
        /\ lastSession' = IF first THEN lastSession ELSE lastSession + 1
  /\ ThreadOnly /\ UNCHANGED <<entry, failures>>

(* _apply_pending_config: a new session if another one is asked for than by *)
(* the configuration before; else an engine appears or disappears with the  *)
(* line, and one that stays keeps its geometry.                             *)
ApplyPending(w) ==
  /\ thread[w].pc = "pump" /\ ~thread[w].stop /\ thread[w].pending # {}
  /\ LET cfg   == CHOOSE p \in thread[w].pending : TRUE
         taken == [thread[w] EXCEPT !.pending = {}]
         kept  == IF cfg.line # NoLine /\ thread[w].engine.line # NoLine
                  THEN thread[w].engine
                  ELSE [line |-> cfg.line,
                        session |-> IF cfg.line = NoLine THEN None ELSE thread[w].session]
     IN \/ /\ cfg.requested # thread[w].cfg.requested
           /\ BeginSession(w, cfg.requested, cfg, taken)
           /\ entry' = Published(w, entry.state, cfg.requested)
        \/ /\ cfg.requested = thread[w].cfg.requested
           /\ thread' = [thread EXCEPT ![w] = [taken EXCEPT !.cfg = cfg, !.engine = kept]]
           /\ entry' = Published(w, entry.state, thread[w].session)
  /\ ThreadOnly /\ UNCHANGED <<lastSession, failures>>

(* A decoded frame: RUNNING, with the current session. *)
Frame(w) ==
  /\ thread[w].pc = "pump"
  /\ entry' = Published(w, "running", thread[w].session)
  /\ ThreadOnly /\ UNCHANGED <<thread, lastSession, failures>>

(* The source fails or stalls. *)
SourceFails(w) ==
  /\ thread[w].pc = "pump"
  /\ failures < MaxFailures /\ failures' = failures + 1
  /\ thread' = [thread EXCEPT ![w].pc = "backoff"]
  /\ entry' = Published(w, "reconnecting", thread[w].session)
  /\ ThreadOnly /\ UNCHANGED lastSession

BackoffEnds(w) ==
  /\ thread[w].pc = "backoff" /\ ~thread[w].stop
  /\ thread' = [thread EXCEPT ![w].pc = "top"]
  /\ ThreadOnly /\ UNCHANGED <<entry, lastSession, failures>>

(* The last runtime of a thread; it is alive a little longer. *)
Ends(w, state, session) ==
  /\ thread' = [thread EXCEPT ![w] =
                  [@ EXCEPT !.pc = "exiting", !.session = session,
                            !.engine = [line |-> NoLine, session |-> None]]]
  /\ entry' = Published(w, state, session)
  /\ ThreadOnly /\ UNCHANGED lastSession

(* Mutant: the wait between two attempts does not notice a stop. *)
StopSeenAwake(w) ==
  /\ thread[w].pc \in {"top", "pump"} /\ thread[w].stop
  /\ Ends(w, "disabled", None)
  /\ UNCHANGED failures

StopSeen(w) ==
  /\ thread[w].pc \in {"top", "pump", "backoff"} /\ thread[w].stop
  /\ Ends(w, "disabled", None)
  /\ UNCHANGED failures

(* A detector, tracker, pipeline or storage failure that is not retried. *)
FatalError(w) ==
  /\ thread[w].pc = "pump"
  /\ failures < MaxFailures /\ failures' = failures + 1
  /\ Ends(w, "error", thread[w].session)

Dies(w) ==
  /\ thread[w].pc = "exiting"
  /\ thread' = [thread EXCEPT ![w].pc = "dead"]
  /\ ThreadOnly /\ UNCHANGED <<entry, lastSession, failures>>

-----------------------------------------------------------------------------
(* The service restarts from its database: start_all_enabled.              *)
Restart(r) ==
  /\ restarts < MaxRestarts
  /\ restarts' = restarts + 1
  /\ ready' = r
  /\ op' = "none" /\ phase' = "idle"
  /\ LET dead == [w \in Instances |->
                    IF Alive(w) THEN [thread[w] EXCEPT !.pc = "dead"] ELSE thread[w]]
         w    == lastInstance + 1
         run  == camera.status = "stored" /\ camera.enabled
     IN \/ /\ run /\ r
           /\ lastInstance' = w
           /\ lastSession' = lastSession + 1
           /\ thread' = [dead EXCEPT ![w] =
                           [NoThread EXCEPT !.pc = "starting",
                              !.cfg = [url |-> camera.url, line |-> line,
                                       requested |-> lastSession + 1]]]
           /\ entry' = [Idle("starting") EXCEPT !.inst = w, !.worker = w]
        \/ /\ ~(run /\ r)
           /\ thread' = dead
           /\ entry' = Idle(IF run THEN "error" ELSE "disabled")
           /\ UNCHANGED <<lastInstance, lastSession>>
  /\ UNCHANGED <<durable, ops, failures, timeouts>>

Init ==
  /\ camera = [status |-> "unborn", enabled |-> FALSE, url |-> SomeUrl]
  /\ line = NoLine
  /\ ready \in BOOLEAN
  /\ entry = Idle("disabled")
  /\ op = "none" /\ phase = "idle"
  /\ thread = [w \in Instances |-> NoThread]
  /\ lastInstance = 0 /\ lastSession = 0
  /\ ops = 0 /\ failures = 0 /\ timeouts = 0 /\ restarts = 0

Api ==
  \/ \E e \in BOOLEAN, u \in Urls : Create(e, u) \/ \E s \in BOOLEAN : Patch(e, u, s)
  \/ Delete
  \/ RemoveLine \/ \E l \in Lines : PutLine(l)

(* What a thread does by itself, and what happens to it. *)
Progress(w) ==
  \/ Starts(w) \/ Attempt(w) \/ ApplyPending(w) \/ BackoffEnds(w) \/ StopSeen(w) \/ Dies(w)

Next ==
  \/ Api \/ Joined \/ JoinTimesOut \/ StopTimedOut
  \/ \E w \in Instances : Progress(w) \/ Frame(w) \/ SourceFails(w) \/ FatalError(w)
  \/ \E r \in BOOLEAN : Restart(r)

(* Threads are scheduled, and a call that waits for one returns. *)
Fairness ==
  /\ \A w \in Instances : WF_vars(Progress(w))
  /\ WF_vars(Joined) /\ WF_vars(StopTimedOut)

Spec     == Init /\ [][Next]_vars
FairSpec == Spec /\ Fairness

-----------------------------------------------------------------------------
(* Safety *)

(* A thread that may go on running is the registered worker of a camera     *)
(* that is stored and enabled: whatever timed out or failed, no thread      *)
(* keeps analysing a camera that was disabled, deleted or restarted.        *)
NoOrphans ==
  \A w \in Instances : Alive(w) /\ ~thread[w].stop =>
    w = entry.worker /\ camera.status = "stored" /\ camera.enabled

(* As long as no join has timed out, a second thread is never started for   *)
(* the camera while the first one still holds its RTSP session.             *)
OneThread == timeouts = 0 => Cardinality({w \in Instances : Alive(w)}) <= 1

(* An active state is never reported on behalf of a thread that has ended,  *)
(* and "stopping" only of one that was told to stop.                        *)
HonestRuntime ==
  /\ entry.state \in Active =>
        /\ entry.worker # None /\ entry.worker = entry.inst
        /\ Alive(entry.worker) /\ thread[entry.worker].pc # "exiting"
  /\ entry.stopping => entry.worker # None /\ thread[entry.worker].stop

(* Events are recorded under the session of the tracker that found them,    *)
(* and exactly while the configuration in force has a line.                 *)
EngineOfSession ==
  \A w \in Instances : thread[w].pc = "pump" =>
    /\ thread[w].session # None
    /\ thread[w].engine.line = NoLine <=> thread[w].cfg.line = NoLine
    /\ thread[w].engine.line # NoLine => thread[w].engine.session = thread[w].session

-----------------------------------------------------------------------------
(* Liveness *)

(* A camera that is disabled or deleted ends up without any thread, even    *)
(* when the operation that stopped it gave up waiting; an enabled one ends  *)
(* up with a worker on its URL, or reports ERROR, unless a stop timed out.  *)
WorkersConverge ==
  <>[](IF camera.status = "stored" /\ camera.enabled
       THEN timeouts = 0 /\ entry.state # "error" =>
              entry.worker # None /\ Alive(entry.worker)
                /\ thread[entry.worker].cfg.url = camera.url
       ELSE \A w \in Instances : ~Alive(w))
=============================================================================
