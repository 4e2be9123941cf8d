-------------------- MODULE AnalyticsCameraManager_proofs --------------------
(***************************************************************************)
(* That no thread is orphaned, that a second one is never started beside   *)
(* the first, that the runtime is honest and that events carry the session *)
(* of their tracker, for every bound, whatever joins time out.             *)
(***************************************************************************)
EXTENDS AnalyticsCameraManager, FiniteSetTheorems, TLAPS

\* An operation that waits for a thread still has the instance it may start.
Budget == op # "none" => lastInstance < ops + restarts

\* An instance that was not given out has no thread.
Fresh == \A w \in Instances : w > lastInstance => thread[w].pc = "none"

\* The thread of the entry is its instance, unless it has ended.
Registered ==
  /\ entry.worker # None => entry.worker = entry.inst
  /\ entry.inst # None /\ entry.worker = None => ~Alive(entry.inst)

\* What an operation has done once it waits for the thread.
Waits ==
  /\ op = "none" <=> phase = "idle"
  /\ phase # "idle" =>
       /\ entry.worker # None /\ thread[entry.worker].stop
       /\ camera.status = "stored" /\ (camera.enabled <=> op = "rtsp")
  /\ phase = "timedOut" => timeouts # 0

\* As long as no join has timed out, a thread is stopped only while it is
\* waited for.
Single ==
  timeouts = 0 => \A w \in Instances : Alive(w) =>
    w = entry.worker /\ (thread[w].stop => phase = "joining")

\* Every configuration asks for a session.
Sound(t) ==
  /\ t.pc # "none" => t.cfg.requested # None
  /\ \A c \in t.pending : c.requested # None
  /\ t.pc = "pump" =>
       /\ t.session # None
       /\ t.engine.line = NoLine <=> t.cfg.line = NoLine
       /\ t.engine.line # NoLine => t.engine.session = t.session
Sessions == \A w \in Instances : Sound(thread[w])

IInv ==
  /\ TypeOK /\ Budget /\ Fresh /\ Registered /\ Waits
  /\ NoOrphans /\ HonestRuntime /\ Single /\ Sessions

\* Nothing keeps a new thread from being started.
Clear ==
  \A w \in Instances : Alive(w) => thread[w].stop /\ timeouts # 0

-----------------------------------------------------------------------------
\* The instances are numbered from one.
LEMMA InstancesAre ==
  /\ Instances \subseteq Nat /\ None \notin Instances
  /\ \A n \in Nat : n < MaxOps + MaxRestarts => n + 1 \in Instances
BY BoundsAssumption DEF Instances, None

\* What is below the sum of two numbers is below that of their bounds.
LEMMA SumsBelow ==
  \A n, a, b, c, d \in Nat : n < a + b /\ a <= c /\ b <= d => n < c + d
OBVIOUS

\* The entry of a camera without a worker.
LEMMA IdleIs ==
  ASSUME NEW s \in States
  PROVE  /\ Idle(s) \in Entry /\ Idle(s).inst = None /\ Idle(s).worker = None
         /\ Idle(s).state = s /\ Idle(s).stopping = FALSE /\ Idle(s).session = None
BY DEF Idle, Entry, None

\* A thread that was not started.
LEMMA NoThreadIs == NoThread \in Thread /\ NoThread.pc = "none" /\ Sound(NoThread)
<1>1. SomeUrl \in Urls
  BY UrlsAssumption DEF SomeUrl
<1> QED BY <1>1 DEF NoThread, Thread, Config, Places, None, Sound

\* The runtime callback touches the entry of its own instance only.
LEMMA PublishedIs ==
  ASSUME TypeOK, NEW w \in Instances, NEW s \in States, NEW n \in Nat
  PROVE  LET e == Published(w, s, n)
         IN  /\ e \in Entry /\ e.inst = entry.inst /\ e.worker = entry.worker
             /\ entry.inst = w => e.state = s
             /\ entry.inst # w => e = entry
             /\ e.stopping => entry.stopping
BY DEF TypeOK, Published, Entry

\* The state before the camera is created.
LEMMA Initially == Init => IInv
<1> SUFFICES ASSUME Init PROVE IInv
  OBVIOUS
<1> USE DEF Init
<1>1. SomeUrl \in Urls
  BY UrlsAssumption DEF SomeUrl
<1>2. /\ entry \in Entry /\ entry.worker = None /\ entry.inst = None
      /\ entry.state = "disabled" /\ entry.stopping = FALSE
  BY IdleIs DEF States
<1>3. \A w \in Instances : thread[w] = NoThread /\ ~Alive(w)
  BY NoThreadIs DEF Alive
<1>4. TypeOK
  <2>1. thread \in [Instances -> Thread]
    BY NoThreadIs
  <2> QED BY <1>1, <1>2, <2>1, BoundsAssumption DEF TypeOK, Camera, Ops
<1>5. Budget /\ Registered /\ Waits
  BY <1>2, <1>3 DEF Budget, Registered, Waits
<1>6. Fresh /\ NoOrphans /\ Single /\ Sessions
  BY <1>3, NoThreadIs DEF Fresh, NoOrphans, Single, Sessions
<1>7. HonestRuntime
  BY <1>2 DEF HonestRuntime, Active
<1> QED BY <1>4, <1>5, <1>6, <1>7 DEF IInv

-----------------------------------------------------------------------------
(* The threads                                                             *)

\* A step of a thread: it stays stopped or not, and tells at most its own
\* entry about it.
LEMMA ThreadKeeps ==
  ASSUME IInv, ThreadOnly,
         NEW w \in Instances, Alive(w),
         NEW t \in Thread, thread' = [thread EXCEPT ![w] = t],
         t.stop = thread[w].stop, t.pc # "none", Sound(t),
         entry' \in Entry, entry'.inst = entry.inst, entry'.worker = entry.worker,
         entry.inst # w => entry' = entry,
         entry'.stopping => entry.stopping,
         entry.inst = w /\ entry'.state \in Active => t.pc \notin {"exiting", "dead"},
         lastSession' \in Nat, failures' \in Nat
  PROVE  IInv'
<1> USE DEF IInv, ThreadOnly, durable
<1>1. /\ thread \in [Instances -> Thread] /\ thread' \in [Instances -> Thread]
      /\ thread'[w] = t /\ \A v \in Instances : v # w => thread'[v] = thread[v]
  BY DEF TypeOK
<1>2. \A v \in Instances : thread'[v].stop = thread[v].stop /\ (Alive(v)' => Alive(v))
  BY <1>1 DEF Alive
<1>3. TypeOK'
  BY <1>1 DEF TypeOK
<1>4. entry.worker \in Instances \cup {None} /\ entry.inst \in Instances \cup {None}
  BY DEF TypeOK, Entry
<1>5. Budget'
  BY DEF Budget
<1>6. Fresh'
  BY <1>1 DEF Fresh, Alive
<1>7. Registered'
  BY <1>2, <1>4 DEF Registered
<1>8. Waits'
  BY <1>2, <1>4 DEF Waits
<1>9. NoOrphans'
  BY <1>2 DEF NoOrphans
<1>10. Single'
  BY <1>2 DEF Single
<1>11. Sessions'
  BY <1>1 DEF Sessions, Sound
<1>12. HonestRuntime'
  <2>1. ASSUME entry'.state \in Active
        PROVE  /\ entry'.worker # None /\ entry'.worker = entry'.inst
               /\ thread'[entry'.worker].pc \notin {"none", "dead", "exiting"}
    <3>1. CASE entry.inst = w
      <4>1. w # None
        BY InstancesAre
      <4>2. entry.worker = w
        BY <3>1, <4>1 DEF Registered
      <4> QED BY <1>1, <2>1, <3>1, <4>1, <4>2 DEF Alive
    <3>2. CASE entry.inst # w
      BY <1>1, <1>4, <2>1, <3>2 DEF HonestRuntime, Alive
    <3> QED BY <3>1, <3>2
  <2>2. entry'.stopping => entry'.worker # None /\ thread'[entry'.worker].stop
    BY <1>2, <1>4 DEF HonestRuntime
  <2> QED BY <2>1, <2>2 DEF HonestRuntime, Alive
<1> QED BY <1>3, <1>5, <1>6, <1>7, <1>8, <1>9, <1>10, <1>11, <1>12

\* The thread of an instance, and a session that it may publish.
LEMMA ThreadOf ==
  ASSUME IInv, NEW w \in Instances
  PROVE  /\ thread \in [Instances -> Thread] /\ thread[w] \in Thread
         /\ thread[w].session \in Nat /\ thread[w].cfg \in Config
         /\ lastSession \in Nat /\ lastSession + 1 \in Nat /\ lastSession + 1 # None
         /\ failures \in Nat /\ failures + 1 \in Nat /\ entry \in Entry
         /\ None \in Nat /\ NoLine \in Lines \cup {NoLine}
BY DEF IInv, TypeOK, Thread, None

\* The states a thread publishes.
LEMMA StatesAre ==
  /\ Active \subseteq States /\ {"error", "disabled"} \subseteq States
  /\ "disabled" \notin Active /\ "error" \notin Active
BY DEF Active, States

\* A step of a thread that publishes a state.
LEMMA PublishKeeps ==
  ASSUME IInv, ThreadOnly,
         NEW w \in Instances, Alive(w),
         NEW t \in Thread, thread' = [thread EXCEPT ![w] = t],
         t.stop = thread[w].stop, t.pc # "none", Sound(t),
         NEW s \in States, NEW n \in Nat, entry' = Published(w, s, n),
         s \in Active => t.pc \notin {"exiting", "dead"},
         lastSession' \in Nat, failures' \in Nat
  PROVE  IInv'
<1>1. /\ entry' \in Entry /\ entry'.inst = entry.inst /\ entry'.worker = entry.worker
      /\ entry.inst = w => entry'.state = s
      /\ entry.inst # w => entry' = entry
      /\ entry'.stopping => entry.stopping
  BY PublishedIs DEF IInv
<1>2. entry.inst = w /\ entry'.state \in Active => t.pc \notin {"exiting", "dead"}
  BY <1>1
<1> QED BY <1>1, <1>2, ThreadKeeps

\* A thread that starts, that delivers a frame, whose source fails, that
\* waits for its next attempt, or that is gone.
LEMMA StatesOfAThread ==
  ASSUME IInv, NEW w \in Instances,
         Starts(w) \/ Frame(w) \/ SourceFails(w) \/ BackoffEnds(w) \/ Dies(w)
  PROVE  IInv'
<1> DEFINE At(place) == [thread[w] EXCEPT !.pc = place]
<1>1. \A place \in Places : At(place) \in Thread /\ At(place).pc = place
                              /\ At(place).stop = thread[w].stop
                              /\ At(place).cfg = thread[w].cfg
                              /\ At(place).pending = thread[w].pending
                              /\ At(place).session = thread[w].session
                              /\ At(place).engine = thread[w].engine
  BY ThreadOf DEF Thread
<1>2. \A place \in Places \ {"none", "pump"} : thread[w].pc # "none" => Sound(At(place))
  BY <1>1 DEF IInv, Sessions, Sound
<1> HIDE DEF At
<1>3. CASE Starts(w)
  <2>1. /\ thread[w].pc = "starting" /\ thread' = [thread EXCEPT ![w] = At("top")]
        /\ entry' = Published(w, "starting", None) /\ ThreadOnly
        /\ UNCHANGED <<lastSession, failures>>
    BY <1>3 DEF Starts, At
  <2>2. "top" \in Places \ {"none", "pump"} /\ Alive(w)
    BY <2>1 DEF Places, Alive
  <2>3. "starting" \in States /\ None \in Nat /\ lastSession' \in Nat /\ failures' \in Nat
    BY <2>1, ThreadOf DEF States
  <2> QED BY <1>1, <1>2, <2>1, <2>2, <2>3, PublishKeeps
<1>4. CASE Frame(w)
  <2>1. /\ thread[w].pc = "pump" /\ thread' = thread
        /\ entry' = Published(w, "running", thread[w].session) /\ ThreadOnly
        /\ UNCHANGED <<lastSession, failures>>
    BY <1>4 DEF Frame
  <2>2. Alive(w) /\ Sound(thread[w]) /\ thread' = [thread EXCEPT ![w] = thread[w]]
    BY <2>1, ThreadOf DEF Alive, IInv, Sessions
  <2>3. /\ "running" \in States /\ thread[w] \in Thread /\ thread[w].session \in Nat
        /\ lastSession' \in Nat /\ failures' \in Nat
    BY <2>1, ThreadOf DEF States
  <2> QED BY <2>1, <2>2, <2>3, PublishKeeps
<1>5. CASE SourceFails(w)
  <2>1. /\ thread[w].pc = "pump" /\ thread' = [thread EXCEPT ![w] = At("backoff")]
        /\ entry' = Published(w, "reconnecting", thread[w].session) /\ ThreadOnly
        /\ failures' = failures + 1 /\ UNCHANGED lastSession
    BY <1>5 DEF SourceFails, At
  <2>2. "backoff" \in Places \ {"none", "pump"} /\ Alive(w)
    BY <2>1 DEF Places, Alive
  <2>3. /\ "reconnecting" \in States /\ thread[w].session \in Nat
        /\ lastSession' \in Nat /\ failures' \in Nat
    BY <2>1, ThreadOf DEF States
  <2> QED BY <1>1, <1>2, <2>1, <2>2, <2>3, PublishKeeps
<1>6. CASE BackoffEnds(w)
  <2>1. /\ thread[w].pc = "backoff" /\ thread' = [thread EXCEPT ![w] = At("top")]
        /\ ThreadOnly /\ UNCHANGED <<entry, lastSession, failures>>
    BY <1>6 DEF BackoffEnds, At
  <2>2. "top" \in Places \ {"none", "pump"} /\ Alive(w)
    BY <2>1 DEF Places, Alive
  <2> QED BY <1>1, <1>2, <2>1, <2>2, ThreadOf, ThreadKeeps
<1>7. CASE Dies(w)
  <2>1. /\ thread[w].pc = "exiting" /\ thread' = [thread EXCEPT ![w] = At("dead")]
        /\ ThreadOnly /\ UNCHANGED <<entry, lastSession, failures>>
    BY <1>7 DEF Dies, At
  <2>2. "dead" \in Places \ {"none", "pump"} /\ Alive(w)
    BY <2>1 DEF Places, Alive
  <2>3. entry.inst = w => entry.state \notin Active
    BY <2>1 DEF IInv, HonestRuntime
  <2> QED BY <1>1, <1>2, <2>1, <2>2, <2>3, ThreadOf, ThreadKeeps
<1> QED BY <1>3, <1>4, <1>5, <1>6, <1>7

\* A thread that ends, for good or with an error.
LEMMA EndOfAThread ==
  ASSUME IInv, NEW w \in Instances, StopSeen(w) \/ FatalError(w)
  PROVE  IInv'
<1>1. /\ thread[w].pc \in {"top", "pump", "backoff"} /\ failures' \in Nat
      /\ \E state \in {"disabled", "error"}, s \in Nat : Ends(w, state, s)
  BY ThreadOf DEF StopSeen, FatalError
<1>2. PICK state \in {"disabled", "error"}, s \in Nat : Ends(w, state, s)
  BY <1>1
<1> DEFINE t == [thread[w] EXCEPT !.pc = "exiting", !.session = s,
                            !.engine = [line |-> NoLine, session |-> None]]
<1>3. /\ thread' = [thread EXCEPT ![w] = t] /\ entry' = Published(w, state, s)
      /\ ThreadOnly /\ UNCHANGED lastSession
  BY <1>2 DEF Ends
<1>4. /\ t \in Thread /\ t.pc = "exiting" /\ t.stop = thread[w].stop
      /\ t.cfg = thread[w].cfg /\ t.pending = thread[w].pending
  BY ThreadOf DEF Thread, Places
<1>5. Sound(t)
  BY <1>1, <1>4 DEF IInv, Sessions, Sound
<1>6. Alive(w) /\ lastSession' \in Nat
  BY <1>1, <1>3, ThreadOf DEF Alive
<1>7. state \in States /\ state \notin Active
  BY StatesAre
<1> HIDE DEF t
<1> QED BY <1>1, <1>3, <1>4, <1>5, <1>6, <1>7, PublishKeeps

\* A new session begins, and with it a new tracker and a new engine.
LEMMA SessionBegins ==
  ASSUME IInv, NEW w \in Instances, NEW s \in Nat, s # None, NEW cfg \in Config,
         cfg.requested # None, NEW old \in Thread, old.pc = "pump",
         old.stop = thread[w].stop, \A c \in old.pending : c.requested # None,
         BeginSession(w, s, cfg, old)
  PROVE  \E t \in Thread :
           /\ thread' = [thread EXCEPT ![w] = t] /\ t.pc = "pump"
           /\ t.stop = thread[w].stop /\ Sound(t)
<1> DEFINE e == [line |-> cfg.line, session |-> IF cfg.line = NoLine THEN None ELSE s]
           t == [old EXCEPT !.session = s, !.cfg = cfg, !.engine = e]
<1>1. cfg.line \in Lines \cup {NoLine}
  BY DEF Config
<1>2. e \in [line : Lines \cup {NoLine}, session : Nat]
  BY <1>1 DEF None
<1>3. t \in Thread /\ t.pc = "pump" /\ t.stop = old.stop /\ t.cfg = cfg /\ t.session = s
        /\ t.engine = e /\ t.pending = old.pending
  BY <1>2 DEF Thread
<1>4. Sound(t)
  BY <1>3 DEF Sound
<1> QED BY <1>3, <1>4 DEF BeginSession

\* An attempt begins a session.
LEMMA AttemptOfAThread ==
  ASSUME IInv, NEW w \in Instances, Attempt(w)
  PROVE  IInv'
<1> DEFINE old == [thread[w] EXCEPT !.pc = "pump"]
           first == thread[w].session = None
           s == IF first THEN thread[w].cfg.requested ELSE lastSession + 1
<1>1. /\ thread[w].pc = "top" /\ BeginSession(w, s, thread[w].cfg, old)
      /\ lastSession' = IF first THEN lastSession ELSE lastSession + 1
      /\ ThreadOnly /\ UNCHANGED <<entry, failures>>
  BY DEF Attempt
<1>2. /\ thread[w].cfg.requested # None
      /\ \A c \in thread[w].pending : c.requested # None
  BY <1>1 DEF IInv, Sessions, Sound
<1>3. thread[w].cfg.requested \in Nat
  BY ThreadOf DEF Config
<1>4. s \in Nat /\ s # None /\ lastSession' \in Nat
  BY <1>1, <1>2, <1>3, ThreadOf
<1>5. old \in Thread /\ old.pc = "pump" /\ old.stop = thread[w].stop
        /\ old.pending = thread[w].pending
  BY ThreadOf DEF Thread, Places
<1> HIDE DEF old, s
<1>6. PICK t \in Thread : /\ thread' = [thread EXCEPT ![w] = t] /\ t.pc = "pump"
                          /\ t.stop = thread[w].stop /\ Sound(t)
  BY <1>1, <1>2, <1>4, <1>5, SessionBegins, ThreadOf
<1>7. Alive(w)
  BY <1>1 DEF Alive
<1> QED BY <1>1, <1>4, <1>6, <1>7, ThreadOf, ThreadKeeps

\* A pending configuration is applied within the attempt.
LEMMA PendingOfAThread ==
  ASSUME IInv, NEW w \in Instances, ApplyPending(w)
  PROVE  IInv'
<1>1. /\ thread[w].pc = "pump" /\ thread[w].pending # {} /\ thread[w].pending \subseteq Config
      /\ Alive(w) /\ ThreadOnly /\ UNCHANGED <<lastSession, failures>>
  BY ThreadOf DEF ApplyPending, Thread, Alive
<1> DEFINE cfg == CHOOSE c \in thread[w].pending : TRUE
           taken == [thread[w] EXCEPT !.pending = {}]
           fresh == [line |-> cfg.line,
                     session |-> IF cfg.line = NoLine THEN None ELSE thread[w].session]
           kept == IF cfg.line # NoLine /\ thread[w].engine.line # NoLine
                   THEN thread[w].engine ELSE fresh
           t == [taken EXCEPT !.cfg = cfg, !.engine = kept]
<1>2. \/ /\ cfg.requested # thread[w].cfg.requested
         /\ BeginSession(w, cfg.requested, cfg, taken)
         /\ entry' = Published(w, entry.state, cfg.requested)
      \/ /\ cfg.requested = thread[w].cfg.requested
         /\ thread' = [thread EXCEPT ![w] = t]
         /\ entry' = Published(w, entry.state, thread[w].session)
  BY DEF ApplyPending
<1>3. Sound(thread[w])
  BY DEF IInv, Sessions
<1>4. cfg \in thread[w].pending
  BY <1>1
<1>5. /\ cfg \in Config /\ cfg.requested \in Nat /\ cfg.requested # None
      /\ cfg.line \in Lines \cup {NoLine}
  BY <1>1, <1>3, <1>4 DEF Sound, Config
<1>6. /\ taken \in Thread /\ taken.pc = "pump" /\ taken.stop = thread[w].stop
      /\ taken.pending = {} /\ taken.session = thread[w].session
      /\ taken.engine = thread[w].engine
  BY <1>1, ThreadOf DEF Thread
<1>7. \E u \in Thread : /\ thread' = [thread EXCEPT ![w] = u] /\ u.pc = "pump"
                        /\ u.stop = thread[w].stop /\ Sound(u)
  <2>1. CASE BeginSession(w, cfg.requested, cfg, taken)
    <3> HIDE DEF cfg, taken
    <3> QED BY <1>5, <1>6, <2>1, SessionBegins
  <2>2. CASE thread' = [thread EXCEPT ![w] = t]
    <3> HIDE DEF cfg, taken
    <3>1. thread[w].engine \in [line : Lines \cup {NoLine}, session : Nat]
      BY ThreadOf DEF Thread
    <3>2. fresh \in [line : Lines \cup {NoLine}, session : Nat]
      BY <1>5, ThreadOf
    <3>3. kept \in [line : Lines \cup {NoLine}, session : Nat]
      BY <3>1, <3>2
    <3>4. /\ kept.line = NoLine <=> cfg.line = NoLine
          /\ kept.line # NoLine => kept.session = thread[w].session
          /\ thread[w].session # None
      BY <1>1, <1>3 DEF Sound
    <3> HIDE DEF kept
    <3>5. /\ t \in Thread /\ t.pc = "pump" /\ t.stop = thread[w].stop /\ t.cfg = cfg
          /\ t.engine = kept /\ t.pending = {} /\ t.session = thread[w].session
      BY <1>5, <1>6, <3>3 DEF Thread
    <3>6. Sound(t)
      BY <1>5, <3>4, <3>5 DEF Sound
    <3> QED BY <2>2, <3>5, <3>6
  <2> QED BY <1>2, <2>1, <2>2
<1>8. PICK u \in Thread : /\ thread' = [thread EXCEPT ![w] = u] /\ u.pc = "pump"
                          /\ u.stop = thread[w].stop /\ Sound(u)
  BY <1>7
<1>9. entry.state \in States /\ thread[w].session \in Nat
  BY ThreadOf DEF Entry
<1>10. \E n \in Nat : entry' = Published(w, entry.state, n)
  BY <1>2, <1>5, <1>9
<1>11. lastSession' \in Nat /\ failures' \in Nat
  BY <1>1, ThreadOf
<1> QED BY <1>1, <1>8, <1>9, <1>10, <1>11, PublishKeeps

-----------------------------------------------------------------------------
(* The manager                                                             *)

\* What an operation may assume of the entry and of the bounds.
LEMMA ManagerOf ==
  ASSUME IInv
  PROVE  /\ entry \in Entry /\ thread \in [Instances -> Thread]
         /\ entry.inst \in Instances \cup {None} /\ entry.worker \in Instances \cup {None}
         /\ entry.session \in Nat /\ entry.state \in States
         /\ lastInstance \in Nat /\ lastSession \in Nat /\ lastSession + 1 \in Nat
         /\ failures \in Nat /\ failures + 1 \in Nat
         /\ ops \in Nat /\ restarts \in Nat /\ timeouts \in Nat
         /\ camera \in Camera /\ line \in Lines \cup {NoLine}
<1>1. lastInstance \in Nat /\ ops \in Nat /\ restarts \in Nat
  BY BoundsAssumption DEF IInv, TypeOK
<1> QED BY <1>1 DEF IInv, TypeOK, Entry

\* A worker is started, unless there is no detector, once nothing keeps a
\* new one from running.
LEMMA StartKeeps ==
  ASSUME IInv, Clear, NEW u \in Urls, NEW l \in Lines \cup {NoLine},
         StartOrDegrade(u, l),
         camera' \in Camera, camera'.status = "stored", camera'.enabled,
         line' \in Lines \cup {NoLine},
         op' = "none", phase' = "idle",
         UNCHANGED <<ready, timeouts, restarts>>,
         ops' \in 0..MaxOps, ops <= ops', lastInstance < ops' + restarts
  PROVE  IInv'
<1> USE DEF IInv
<1>0. /\ ops' \in Nat /\ ops' <= MaxOps /\ MaxOps \in Nat /\ MaxRestarts \in Nat
      /\ restarts' = restarts /\ restarts <= MaxRestarts /\ restarts' \in 0..MaxRestarts
      /\ lastInstance \in 0..(ops' + restarts')
  <2>1. MaxOps \in Nat /\ MaxRestarts \in Nat
    BY BoundsAssumption
  <2>2. ops' \in Nat /\ ops' <= MaxOps
    BY <2>1
  <2>3. restarts' = restarts /\ restarts \in 0..MaxRestarts
    BY DEF TypeOK
  <2>4. restarts <= MaxRestarts
    BY <2>1, <2>3
  <2>5. lastInstance \in 0..(ops' + restarts')
    BY <2>2, <2>3, ManagerOf
  <2> QED BY <2>1, <2>2, <2>3, <2>4, <2>5
<1>1. CASE ~ready
  <2>1. /\ entry' = Idle("error")
        /\ UNCHANGED <<thread, lastInstance, lastSession, failures>>
    BY <1>1 DEF StartOrDegrade
  <2>2. /\ entry' \in Entry /\ entry'.inst = None /\ entry'.worker = None
        /\ entry'.state \notin Active /\ entry'.stopping = FALSE
    BY <2>1, IdleIs, StatesAre
  <2>3. TypeOK'
    BY <1>0, <2>1, <2>2, ManagerOf DEF TypeOK, Ops
  <2>4. Budget' /\ Registered' /\ Waits' /\ HonestRuntime'
    BY <2>2 DEF Budget, Registered, Waits, HonestRuntime
  <2>5. Fresh' /\ Sessions'
    BY <2>1 DEF Fresh, Sessions, Sound
  <2>6. NoOrphans' /\ Single'
    BY <2>1 DEF NoOrphans, Single, Clear, Alive
  <2> QED BY <2>3, <2>4, <2>5, <2>6
<1>2. CASE ready
  <2> DEFINE w == lastInstance + 1
             t == [NoThread EXCEPT !.pc = "starting",
                     !.cfg = [url |-> u, line |-> l, requested |-> lastSession + 1]]
             e == [Idle("starting") EXCEPT !.inst = w, !.worker = w]
             f == [Idle("error") EXCEPT !.inst = w]
  <2>1. /\ lastInstance' = w /\ lastSession' = lastSession + 1
        /\ \/ thread' = [thread EXCEPT ![w] = t] /\ entry' = e /\ UNCHANGED failures
           \/ thread' = thread /\ entry' = f /\ failures' = failures + 1
    BY <1>2 DEF StartOrDegrade, StartWorker
  <2>2. w \in Instances /\ w # None /\ w > lastInstance
    <3>1. lastInstance < MaxOps + MaxRestarts
      BY <1>0, ManagerOf, SumsBelow
    <3> QED BY <3>1, InstancesAre, ManagerOf
  <2>3. /\ t \in Thread /\ t.pc = "starting" /\ t.stop = FALSE /\ Sound(t)
    <3>1. [url |-> u, line |-> l, requested |-> lastSession + 1] \in Config
      BY ManagerOf DEF Config
    <3>2. NoThread \in Thread /\ NoThread.stop = FALSE /\ NoThread.pending = {}
      BY NoThreadIs DEF NoThread
    <3>3. t \in Thread /\ t.pc = "starting" /\ t.stop = FALSE /\ t.pending = {}
            /\ t.cfg.requested = lastSession + 1
      BY <3>1, <3>2 DEF Thread, Places
    <3> QED BY <3>3, ManagerOf DEF Sound, None
  <2>4. /\ e \in Entry /\ e.inst = w /\ e.worker = w /\ e.state = "starting"
        /\ e.stopping = FALSE
        /\ f \in Entry /\ f.inst = w /\ f.worker = None /\ f.state = "error"
        /\ f.stopping = FALSE
    BY <2>2, IdleIs, StatesAre DEF Entry, Idle, States, None
  <2>5. ~Alive(w)
    BY <2>2 DEF Fresh, Alive
  <2>6. /\ lastInstance' \in 0..(ops' + restarts')
        /\ lastSession' \in Nat /\ failures' \in Nat
    BY <1>0, <2>1, ManagerOf
  <2>7. Budget' /\ Waits'
    BY DEF Budget, Waits
  <2> HIDE DEF t, e, f
  <2>8. CASE thread' = thread /\ entry' = f
    <3>1. TypeOK'
      BY <1>0, <2>4, <2>6, <2>8, ManagerOf DEF TypeOK, Ops
    <3>2. Registered' /\ HonestRuntime'
      BY <2>4, <2>5, <2>8, StatesAre DEF Registered, HonestRuntime, Alive
    <3>3. Fresh' /\ Sessions'
      BY <2>1, <2>8, ManagerOf DEF Fresh, Sessions, Sound, Instances
    <3>4. NoOrphans' /\ Single'
      BY <2>8 DEF NoOrphans, Single, Clear, Alive
    <3> QED BY <2>7, <3>1, <3>2, <3>3, <3>4
  <2>9. CASE thread' = [thread EXCEPT ![w] = t] /\ entry' = e
    <3>1. /\ thread' \in [Instances -> Thread] /\ thread'[w] = t
          /\ \A v \in Instances : v # w => thread'[v] = thread[v]
      BY <2>2, <2>3, <2>9, ManagerOf
    <3>2. TypeOK'
      BY <1>0, <2>4, <2>6, <2>9, <3>1, ManagerOf DEF TypeOK, Ops
    <3>3. Registered' /\ HonestRuntime'
      BY <2>2, <2>3, <2>4, <2>9, <3>1 DEF Registered, HonestRuntime, Alive
    <3>4. Fresh'
      BY <2>1, <2>2, <3>1, ManagerOf, InstancesAre DEF Fresh
    <3>5. Sessions'
      BY <2>3, <3>1 DEF Sessions, Sound
    <3>6. NoOrphans' /\ Single'
      BY <2>3, <2>4, <2>9, <3>1 DEF NoOrphans, Single, Clear, Alive
    <3> QED BY <2>7, <3>2, <3>3, <3>4, <3>5, <3>6
  <2> QED BY <2>1, <2>8, <2>9
<1> QED BY <1>1, <1>2

\* The number of operations stays in its bound, and with it the instances.
LEMMA InBounds ==
  ASSUME IInv, ops' \in 0..MaxOps, ops <= ops', UNCHANGED <<restarts, lastInstance>>
  PROVE  lastInstance' \in 0..(ops' + restarts')
<1>1. MaxOps \in Nat
  BY BoundsAssumption
<1>2. ops' \in Nat
  BY <1>1
<1>3. lastInstance \in 0..(ops + restarts)
  BY DEF IInv, TypeOK
<1> QED BY <1>2, <1>3, ManagerOf

\* An operation leaves the camera without a worker.
LEMMA SettlesKeeps ==
  ASSUME IInv, Clear,
         entry' \in Entry, entry'.worker = None, entry'.state \notin Active, ~entry'.stopping,
         entry'.inst # None => ~Alive(entry'.inst),
         camera' \in Camera, line' \in Lines \cup {NoLine},
         op' = "none", phase' = "idle",
         UNCHANGED <<ready, thread, lastInstance, lastSession, failures, timeouts, restarts>>,
         ops' \in 0..MaxOps, ops <= ops'
  PROVE  IInv'
<1> USE DEF IInv
<1>1. TypeOK'
  BY InBounds DEF TypeOK, Ops
<1>2. Budget' /\ Registered' /\ Waits' /\ HonestRuntime'
  BY DEF Budget, Registered, Waits, HonestRuntime, Alive
<1>3. Fresh' /\ Sessions'
  BY DEF Fresh, Sessions, Sound
<1>4. NoOrphans' /\ Single'
  BY DEF NoOrphans, Single, Clear, Alive
<1> QED BY <1>1, <1>2, <1>3, <1>4

\* A configuration is left to the worker, if there is one.
LEMMA InstallKeeps ==
  ASSUME IInv, op = "none",
         NEW u \in Urls, NEW l \in Lines \cup {NoLine}, NEW new \in BOOLEAN,
         Install(u, l, new),
         camera' \in Camera, camera'.status = camera.status, camera'.enabled = camera.enabled,
         line' \in Lines \cup {NoLine},
         UNCHANGED <<ready, timeouts, restarts>>,
         ops' \in 0..MaxOps, ops <= ops'
  PROVE  IInv'
<1> USE DEF IInv
<1>1. /\ UNCHANGED <<entry, op, phase, lastInstance, failures>>
      /\ lastInstance' \in 0..(ops' + restarts')
  BY InBounds DEF Install
<1>2. /\ thread' \in [Instances -> Thread] /\ lastSession' \in Nat
      /\ \A w \in Instances :
           /\ thread'[w].pc = thread[w].pc /\ thread'[w].stop = thread[w].stop
           /\ Sound(thread'[w])
  <2>1. CASE entry.worker = None
    BY <2>1, ManagerOf DEF Install, Sessions
  <2>2. CASE entry.worker # None
    <3> DEFINE fresh == new \/ entry.session = None
               requested == IF fresh THEN lastSession + 1 ELSE entry.session
               t == [thread[entry.worker] EXCEPT
                       !.pending = {[url |-> u, line |-> l, requested |-> requested]}]
    <3>1. thread' = [thread EXCEPT ![entry.worker] = t] /\ lastSession' \in Nat
      BY <2>2, ManagerOf DEF Install
    <3>2. requested \in Nat /\ requested # None
      BY ManagerOf DEF None
    <3> HIDE DEF requested
    <3>3. [url |-> u, line |-> l, requested |-> requested] \in Config
      BY <3>2 DEF Config
    <3>4. entry.worker \in Instances /\ thread[entry.worker] \in Thread
            /\ Sound(thread[entry.worker])
      BY <2>2, ManagerOf DEF Sessions
    <3>5. /\ t \in Thread /\ t.pc = thread[entry.worker].pc
          /\ t.stop = thread[entry.worker].stop
          /\ t.cfg = thread[entry.worker].cfg /\ t.session = thread[entry.worker].session
          /\ t.engine = thread[entry.worker].engine
          /\ t.pending = {[url |-> u, line |-> l, requested |-> requested]}
      BY <3>3, <3>4 DEF Thread
    <3>6. Sound(t)
      BY <3>2, <3>4, <3>5 DEF Sound
    <3> HIDE DEF t
    <3> QED BY <3>1, <3>4, <3>5, <3>6, ManagerOf DEF Sessions
  <2> QED BY <2>1, <2>2
<1>3. TypeOK'
  BY <1>1, <1>2 DEF TypeOK
<1>4. \A w \in Instances : Alive(w)' <=> Alive(w)
  BY <1>2 DEF Alive
<1>5. Budget' /\ Waits'
  BY <1>1 DEF Budget, Waits
<1>6. Registered' /\ HonestRuntime'
  BY <1>1, <1>2, <1>4, ManagerOf DEF Registered, HonestRuntime
<1>7. Fresh' /\ Sessions'
  BY <1>1, <1>2 DEF Fresh, Sessions
<1>8. NoOrphans' /\ Single'
  BY <1>1, <1>2, <1>4 DEF NoOrphans, Single, Waits
<1> QED BY <1>3, <1>5, <1>6, <1>7, <1>8

\* The worker is told to stop, and waited for.
LEMMA SignalKeeps ==
  ASSUME IInv, op = "none", entry.worker # None, camera.status = "stored",
         NEW kind \in {"disable", "rtsp", "delete"},
         entry' = [entry EXCEPT !.stopping = TRUE],
         thread' = [thread EXCEPT ![entry.worker].stop = TRUE],
         op' = kind, phase' = "joining",
         camera' \in Camera, camera'.status = "stored", camera'.enabled <=> kind = "rtsp",
         UNCHANGED <<line, ready, timeouts, restarts, lastInstance, lastSession, failures>>,
         ops' \in 0..MaxOps, ops <= ops', lastInstance < ops' + restarts
  PROVE  IInv'
<1> USE DEF IInv
<1> DEFINE t == [thread[entry.worker] EXCEPT !.stop = TRUE]
<1>1. entry.worker \in Instances /\ thread[entry.worker] \in Thread
  BY ManagerOf
<1>2. /\ t \in Thread /\ t.pc = thread[entry.worker].pc /\ t.stop = TRUE
      /\ t.cfg = thread[entry.worker].cfg /\ t.session = thread[entry.worker].session
      /\ t.engine = thread[entry.worker].engine /\ t.pending = thread[entry.worker].pending
  BY <1>1 DEF Thread
<1>3. Sound(t)
  BY <1>1, <1>2 DEF Sessions, Sound
<1>4. thread' = [thread EXCEPT ![entry.worker] = t]
  BY <1>1, ManagerOf
<1> HIDE DEF t
<1>5. /\ thread' \in [Instances -> Thread] /\ thread'[entry.worker] = t
      /\ \A w \in Instances : w # entry.worker => thread'[w] = thread[w]
  BY <1>1, <1>2, <1>4, ManagerOf
<1>6. /\ entry' \in Entry /\ entry'.inst = entry.inst /\ entry'.worker = entry.worker
      /\ entry'.state = entry.state /\ entry'.stopping = TRUE
  BY ManagerOf DEF Entry
<1>7. \A w \in Instances : thread'[w].pc = thread[w].pc /\ (Alive(w)' <=> Alive(w))
  BY <1>2, <1>5 DEF Alive
<1>8. TypeOK'
  BY <1>5, <1>6, InBounds DEF TypeOK, Ops
<1>9. Budget'
  BY DEF Budget
<1>10. Waits'
  BY <1>2, <1>5, <1>6 DEF Waits
<1>11. Registered' /\ HonestRuntime'
  BY <1>1, <1>2, <1>5, <1>6, <1>7, ManagerOf DEF Registered, HonestRuntime
<1>12. Fresh' /\ Sessions'
  BY <1>3, <1>5, <1>7 DEF Fresh, Sessions
<1>13. NoOrphans' /\ Single'
  BY <1>2, <1>5, <1>6, <1>7 DEF NoOrphans, Single
<1> QED BY <1>8, <1>9, <1>10, <1>11, <1>12, <1>13

\* What an operation goes on with once no worker is left.
LEMMA ContinueKeeps ==
  ASSUME IInv, Clear,
         NEW kind, NEW row \in Camera, row.status = "stored", row.enabled <=> kind = "rtsp",
         NEW stopped \in Entry, stopped.worker = None, stopped.state \notin Active,
         ~stopped.stopping, stopped.inst # None => ~Alive(stopped.inst),
         Continue(kind, row, stopped),
         op' = "none", phase' = "idle", UNCHANGED <<ready, timeouts, restarts>>,
         ops' \in 0..MaxOps, ops <= ops', lastInstance < ops' + restarts
  PROVE  IInv'
<1>1. line \in Lines \cup {NoLine} /\ row.url \in Urls
  BY ManagerOf DEF Camera
<1>2. CASE kind = "disable"
  BY <1>1, <1>2, SettlesKeeps DEF Continue
<1>3. CASE kind = "rtsp"
  BY <1>1, <1>3, StartKeeps DEF Continue
<1>4. CASE kind = "delete"
  <2>1. Deleted(row) \in Camera
    BY DEF Deleted, Camera
  <2>2. /\ Idle("disabled") \in Entry /\ Idle("disabled").worker = None
        /\ Idle("disabled").inst = None /\ Idle("disabled").state \notin Active
        /\ ~Idle("disabled").stopping
    BY IdleIs, StatesAre
  <2> QED BY <1>4, <2>1, <2>2, SettlesKeeps DEF Continue
<1> QED BY <1>2, <1>3, <1>4 DEF Continue

-----------------------------------------------------------------------------
(* The operations                                                          *)

\* Without a thread to wait for, or once the camera is not enabled, nothing
\* keeps a new one from being started.
LEMMA ClearIf ==
  ASSUME IInv,
         \/ op = "none" /\ (entry.worker = None \/ camera.status # "stored" \/ ~camera.enabled)
         \/ op # "none" /\ ~Alive(entry.worker)
  PROVE  Clear
<1> SUFFICES ASSUME NEW w \in Instances, Alive(w)
             PROVE  thread[w].stop /\ timeouts # 0
  BY DEF Clear
<1> USE DEF IInv
<1>1. w # None
  BY InstancesAre
<1>2. thread[w].stop
  <2>1. ASSUME ~thread[w].stop PROVE FALSE
    BY <1>1, <2>1 DEF NoOrphans
  <2> QED BY <2>1, ManagerOf DEF Thread
<1>3. timeouts # 0
  <2>1. ASSUME timeouts = 0 PROVE FALSE
    <3>1. w = entry.worker /\ phase = "joining"
      BY <1>2, <2>1 DEF Single
    <3> QED BY <1>1, <3>1 DEF Waits
  <2> QED BY <2>1
<1> QED BY <1>2, <1>3

\* An operation of the API begins.
LEMMA OperationIs ==
  ASSUME IInv, Operation
  PROVE  /\ op = "none" /\ phase = "idle" /\ UNCHANGED <<ready, timeouts, restarts>>
         /\ ops' \in 0..MaxOps /\ ops <= ops' /\ lastInstance < ops' + restarts
<1>1. MaxOps \in Nat /\ ops \in Nat
  BY BoundsAssumption, ManagerOf
<1>2. op = "none" /\ ops < MaxOps /\ ops' = ops + 1 /\ UNCHANGED <<ready, timeouts, restarts>>
  BY DEF Operation
<1>3. lastInstance \in 0..(ops + restarts)
  BY DEF IInv, TypeOK
<1>4. lastInstance < ops' + restarts
  BY <1>1, <1>2, <1>3, ManagerOf
<1> QED BY <1>1, <1>2, <1>4 DEF IInv, Waits

\* A row is written, and the worker is stopped if there is one.
LEMMA StopKeeps ==
  ASSUME IInv, Operation, camera.status = "stored",
         NEW kind \in {"disable", "rtsp", "delete"},
         NEW row \in Camera, row.status = "stored", row.enabled <=> kind = "rtsp",
         WriteAndStop(kind, row)
  PROVE  IInv'
<1>1. CASE entry.worker # None
  BY <1>1, OperationIs, SignalKeeps DEF WriteAndStop
<1>2. CASE entry.worker = None
  <2>1. Continue(kind, row, entry) /\ UNCHANGED <<op, phase>>
    BY <1>2 DEF WriteAndStop
  <2>2. /\ entry \in Entry /\ entry.state \notin Active /\ ~entry.stopping
        /\ entry.inst # None => ~Alive(entry.inst)
    BY <1>2, ManagerOf DEF IInv, HonestRuntime, Registered
  <2>3. Clear
    BY <1>2, OperationIs, ClearIf
  <2> QED BY <1>2, <2>1, <2>2, <2>3, OperationIs, ContinueKeeps
<1> QED BY <1>1, <1>2

\* A camera is created.
LEMMA CreateKeeps ==
  ASSUME IInv, NEW e \in BOOLEAN, NEW u \in Urls, Create(e, u)
  PROVE  IInv'
<1>1. Operation /\ camera.status = "unborn" /\ camera' = Inserted(e, u)
        /\ UNCHANGED <<line, op, phase>>
  BY DEF Create
<1>2. camera' \in Camera /\ camera'.status = "stored" /\ camera'.enabled = e
  BY <1>1 DEF Inserted, Camera
<1>3. Clear /\ line \in Lines \cup {NoLine} /\ NoLine \in Lines \cup {NoLine}
  BY <1>1, OperationIs, ClearIf, ManagerOf
<1>4. CASE e /\ StartOrDegrade(u, NoLine)
  BY <1>1, <1>2, <1>3, <1>4, OperationIs, StartKeeps
<1>5. CASE ~e /\ entry' = Idle("disabled")
             /\ UNCHANGED <<thread, lastInstance, lastSession, failures>>
  <2>1. /\ entry' \in Entry /\ entry'.worker = None /\ entry'.inst = None
        /\ entry'.state \notin Active /\ ~entry'.stopping
    BY <1>5, IdleIs, StatesAre
  <2> QED BY <1>1, <1>2, <1>3, <1>5, <2>1, OperationIs, SettlesKeeps
<1> QED BY <1>4, <1>5 DEF Create

\* A camera is patched.
LEMMA PatchKeeps ==
  ASSUME IInv, NEW e \in BOOLEAN, NEW u \in Urls, NEW semantic \in BOOLEAN,
         Patch(e, u, semantic)
  PROVE  IInv'
<1> DEFINE row == Updated(e, u)
<1>1. Operation /\ camera.status = "stored"
  BY DEF Patch
<1>2. /\ row \in Camera /\ row.status = "stored" /\ row.enabled = e /\ row.url = u
      /\ camera \in Camera /\ line \in Lines \cup {NoLine}
  BY <1>1, ManagerOf DEF Updated, Camera
<1> HIDE DEF row
<1>3. CASE ~e /\ camera.enabled /\ WriteAndStop("disable", row)
  BY <1>1, <1>2, <1>3, StopKeeps
<1>4. CASE ~e /\ ~camera.enabled /\ camera' = row /\ UNCHANGED line /\ Install(u, line, FALSE)
  <2>1. camera'.enabled = camera.enabled
    BY <1>2, <1>4 DEF Camera
  <2> QED BY <1>1, <1>2, <1>4, <2>1, OperationIs, InstallKeeps
<1>5. CASE e /\ ~camera.enabled /\ camera' = row /\ UNCHANGED <<line, op, phase>>
           /\ StartOrDegrade(u, line)
  <2>1. Clear
    BY <1>5, OperationIs, ClearIf, <1>1
  <2> QED BY <1>1, <1>2, <1>5, <2>1, OperationIs, StartKeeps
<1>6. CASE e /\ camera.enabled /\ WriteAndStop("rtsp", row)
  BY <1>1, <1>2, <1>6, StopKeeps
<1>7. CASE e /\ camera.enabled /\ camera' = row /\ UNCHANGED line /\ Install(u, line, semantic)
  <2>1. camera'.enabled = camera.enabled
    BY <1>2, <1>7 DEF Camera
  <2> QED BY <1>1, <1>2, <1>7, <2>1, OperationIs, InstallKeeps
<1> QED BY <1>3, <1>4, <1>5, <1>6, <1>7 DEF Patch, row

\* A camera is deleted, or its line changes.
LEMMA RestOfTheApiKeeps ==
  ASSUME IInv, Delete \/ RemoveLine \/ \E l \in Lines : PutLine(l)
  PROVE  IInv'
<1>1. /\ camera \in Camera /\ camera.url \in Urls /\ camera.enabled \in BOOLEAN
      /\ NoLine \in Lines \cup {NoLine}
  BY ManagerOf DEF Camera
<1>2. CASE Delete
  <2> DEFINE row == [camera EXCEPT !.enabled = FALSE]
  <2>1. Operation /\ camera.status = "stored" /\ WriteAndStop("delete", row)
    BY <1>2 DEF Delete
  <2>2. row \in Camera /\ row.status = "stored" /\ row.enabled = FALSE
    BY <1>1, <2>1 DEF Camera
  <2> QED BY <2>1, <2>2, StopKeeps
<1>3. CASE RemoveLine
  BY <1>1, <1>3, OperationIs, InstallKeeps DEF RemoveLine
<1>4. ASSUME NEW l \in Lines, PutLine(l) PROVE IInv'
  BY <1>1, <1>4, OperationIs, InstallKeeps DEF PutLine, Upserted
<1> QED BY <1>2, <1>3, <1>4

\* The thread has ended when the join returns.
LEMMA JoinedKeeps ==
  ASSUME IInv, Joined
  PROVE  IInv'
<1> DEFINE stopped == [entry EXCEPT !.worker = None, !.state = "disabled",
                                    !.stopping = FALSE, !.session = None]
<1>1. /\ phase = "joining" /\ ~Alive(entry.worker) /\ Continue(op, camera, stopped)
      /\ op' = "none" /\ phase' = "idle" /\ UNCHANGED <<ready, ops, timeouts, restarts>>
  BY DEF Joined
<1>2. /\ op # "none" /\ entry.worker # None
      /\ camera \in Camera /\ camera.status = "stored" /\ (camera.enabled <=> op = "rtsp")
  BY <1>1, ManagerOf DEF IInv, Waits
<1>3. Clear
  BY <1>1, <1>2, ClearIf
<1>4. /\ stopped \in Entry /\ stopped.worker = None /\ stopped.state \notin Active
      /\ ~stopped.stopping /\ stopped.inst = entry.inst
  BY ManagerOf, StatesAre DEF Entry, None
<1>5. ~Alive(stopped.inst)
  BY <1>1, <1>2, <1>4 DEF IInv, Registered
<1>6. ops' \in 0..MaxOps /\ ops <= ops' /\ lastInstance < ops' + restarts
  BY <1>1, <1>2, ManagerOf DEF IInv, TypeOK, Budget
<1> HIDE DEF stopped
<1> QED BY <1>1, <1>2, <1>3, <1>4, <1>5, <1>6, ContinueKeeps

\* It has not, and the operation gives up.
LEMMA TimeoutKeeps ==
  ASSUME IInv, JoinTimesOut \/ StopTimedOut
  PROVE  IInv'
<1> USE DEF IInv
<1>1. CASE JoinTimesOut
  <2> USE <1>1 DEF JoinTimesOut, durable
  <2>1. TypeOK' /\ timeouts' # 0
    BY ManagerOf DEF TypeOK
  <2>2. Budget' /\ Fresh' /\ Registered' /\ Waits' /\ Single' /\ Sessions'
    BY <2>1 DEF Budget, Fresh, Registered, Waits, Single, Sessions, Sound, Alive
  <2>3. NoOrphans' /\ HonestRuntime'
    BY DEF NoOrphans, HonestRuntime, Alive
  <2> QED BY <2>1, <2>2, <2>3
<1>2. CASE StopTimedOut
  <2> USE <1>2 DEF StopTimedOut, durable, bounds
  <2>1. /\ entry' \in Entry /\ entry'.inst = entry.inst /\ entry'.worker = entry.worker
        /\ entry'.state = "error" /\ entry'.stopping = TRUE
    BY ManagerOf, StatesAre DEF Entry
  <2>2. TypeOK'
    BY <2>1 DEF TypeOK, Ops
  <2>3. timeouts # 0 /\ entry.worker # None /\ thread[entry.worker].stop
    BY DEF Waits
  <2>4. Budget' /\ Fresh' /\ Registered' /\ Waits' /\ Single' /\ Sessions'
    BY <2>1, <2>3 DEF Budget, Fresh, Registered, Waits, Single, Sessions, Sound, Alive
  <2>5. NoOrphans' /\ HonestRuntime'
    BY <2>1, <2>3, StatesAre DEF NoOrphans, HonestRuntime, Alive
  <2> QED BY <2>2, <2>4, <2>5
<1> QED BY <1>1, <1>2

\* The service restarts: every thread is gone, and one may be started.
LEMMA RestartKeeps ==
  ASSUME IInv, NEW r \in BOOLEAN, Restart(r)
  PROVE  IInv'
<1> USE DEF IInv
<1> DEFINE dead == [v \in Instances |->
                      IF Alive(v) THEN [thread[v] EXCEPT !.pc = "dead"] ELSE thread[v]]
           w == lastInstance + 1
           run == camera.status = "stored" /\ camera.enabled
           t == [NoThread EXCEPT !.pc = "starting",
                   !.cfg = [url |-> camera.url, line |-> line, requested |-> lastSession + 1]]
           e == [Idle("starting") EXCEPT !.inst = w, !.worker = w]
<1>1. /\ restarts < MaxRestarts /\ restarts' = restarts + 1 /\ ready' = r
      /\ op' = "none" /\ phase' = "idle"
      /\ UNCHANGED <<camera, line, ops, failures, timeouts>>
      /\ \/ /\ run /\ r /\ lastInstance' = w /\ lastSession' = lastSession + 1
            /\ thread' = [dead EXCEPT ![w] = t] /\ entry' = e
         \/ /\ ~(run /\ r) /\ thread' = dead
            /\ entry' = Idle(IF run THEN "error" ELSE "disabled")
            /\ UNCHANGED <<lastInstance, lastSession>>
  BY DEF Restart, durable
<1>2. \A v \in Instances :
        /\ dead[v] \in Thread /\ dead[v].pc \in {"none", "dead"} /\ Sound(dead[v])
        /\ thread[v].pc = "none" => dead[v].pc = "none"
  <2> SUFFICES ASSUME NEW v \in Instances
               PROVE  /\ dead[v] \in Thread /\ dead[v].pc \in {"none", "dead"} /\ Sound(dead[v])
                      /\ thread[v].pc = "none" => dead[v].pc = "none"
    OBVIOUS
  <2>1. thread[v] \in Thread /\ Sound(thread[v])
    BY ManagerOf DEF Sessions
  <2>2. CASE ~Alive(v)
    <3>1. dead[v] = thread[v]
      BY <2>2
    <3> HIDE DEF dead
    <3> QED BY <2>1, <2>2, <3>1 DEF Alive
  <2>3. CASE Alive(v)
    <3>1. dead[v] = [thread[v] EXCEPT !.pc = "dead"]
      BY <2>3
    <3> HIDE DEF dead
    <3>2. /\ dead[v] \in Thread /\ dead[v].pc = "dead" /\ dead[v].cfg = thread[v].cfg
          /\ dead[v].pending = thread[v].pending
      BY <2>1, <3>1 DEF Thread, Places
    <3> QED BY <2>1, <2>3, <3>2 DEF Sound, Alive
  <2> QED BY <2>2, <2>3
<1>3. dead \in [Instances -> Thread]
  BY <1>2
<1> HIDE DEF dead
<1>4. MaxOps \in Nat /\ MaxRestarts \in Nat /\ ops <= MaxOps
  <2>1. MaxOps \in Nat /\ MaxRestarts \in Nat
    BY BoundsAssumption
  <2> QED BY <2>1 DEF TypeOK
<1>5. restarts' \in 0..MaxRestarts /\ lastInstance \in 0..(ops + restarts)
  BY <1>1, <1>4, ManagerOf DEF TypeOK
<1>6. /\ lastInstance \in 0..(ops + restarts') /\ w \in 0..(ops + restarts')
      /\ w > lastInstance /\ lastInstance < ops + restarts'
  BY <1>1, <1>5, ManagerOf
<1>7. Budget' /\ Waits'
  BY <1>1 DEF Budget, Waits
<1>8. CASE /\ ~(run /\ r) /\ thread' = dead /\ UNCHANGED <<lastInstance, lastSession>>
           /\ entry' = Idle(IF run THEN "error" ELSE "disabled")
  <2>1. /\ entry' \in Entry /\ entry'.inst = None /\ entry'.worker = None
        /\ entry'.state \notin Active /\ entry'.stopping = FALSE
    BY <1>8, IdleIs, StatesAre
  <2>2. TypeOK'
    BY <1>1, <1>3, <1>5, <1>6, <1>8, <2>1, ManagerOf DEF TypeOK, Ops
  <2>3. Registered' /\ HonestRuntime'
    BY <2>1 DEF Registered, HonestRuntime
  <2>4. Fresh' /\ Sessions'
    BY <1>2, <1>8 DEF Fresh, Sessions
  <2>5. NoOrphans' /\ Single'
    BY <1>2, <1>8 DEF NoOrphans, Single, Alive
  <2> QED BY <1>7, <2>2, <2>3, <2>4, <2>5
<1>9. CASE /\ run /\ r /\ lastInstance' = w /\ lastSession' = lastSession + 1
           /\ thread' = [dead EXCEPT ![w] = t] /\ entry' = e
  <2>1. w \in Instances /\ w # None
    <3>1. lastInstance < MaxOps + MaxRestarts
      <4>1. restarts' <= MaxRestarts /\ restarts' \in Nat /\ ops \in Nat /\ lastInstance \in Nat
        BY <1>4, <1>5, ManagerOf
      <4> QED BY <1>4, <1>6, <4>1, SumsBelow
    <3> QED BY <3>1, InstancesAre, ManagerOf
  <2>2. t \in Thread /\ t.pc = "starting" /\ t.stop = FALSE /\ Sound(t)
    <3>1. [url |-> camera.url, line |-> line, requested |-> lastSession + 1] \in Config
      BY ManagerOf DEF Config, Camera
    <3>2. NoThread \in Thread /\ NoThread.stop = FALSE /\ NoThread.pending = {}
      BY NoThreadIs DEF NoThread
    <3>3. /\ t \in Thread /\ t.pc = "starting" /\ t.stop = FALSE /\ t.pending = {}
          /\ t.cfg.requested = lastSession + 1
      BY <3>1, <3>2 DEF Thread, Places
    <3> QED BY <3>3, ManagerOf DEF Sound, None
  <2>3. /\ e \in Entry /\ e.inst = w /\ e.worker = w /\ e.state = "starting"
        /\ e.stopping = FALSE
    BY <2>1, IdleIs, StatesAre DEF Entry, Idle, States, None
  <2> HIDE DEF t, e
  <2>4. /\ thread' \in [Instances -> Thread] /\ thread'[w] = t
        /\ \A v \in Instances : v # w => thread'[v] = dead[v]
    BY <1>3, <1>9, <2>1, <2>2
  <2>5. TypeOK'
    BY <1>1, <1>5, <1>6, <1>9, <2>3, <2>4, ManagerOf DEF TypeOK, Ops
  <2>6. Registered' /\ HonestRuntime'
    BY <1>9, <2>1, <2>2, <2>3, <2>4 DEF Registered, HonestRuntime, Alive
  <2>7. Fresh'
    BY <1>2, <1>9, <2>4, ManagerOf, InstancesAre DEF Fresh
  <2>8. Sessions'
    BY <1>2, <2>2, <2>4 DEF Sessions
  <2>9. NoOrphans' /\ Single'
    BY <1>1, <1>2, <1>9, <2>2, <2>3, <2>4 DEF NoOrphans, Single, Alive
  <2> QED BY <1>7, <2>5, <2>6, <2>7, <2>8, <2>9
<1> QED BY <1>1, <1>8, <1>9

\* Every step keeps the invariant.
LEMMA Inductive == IInv /\ [Next]_vars => IInv'
<1> SUFFICES ASSUME IInv, [Next]_vars PROVE IInv'
  OBVIOUS
<1>1. CASE UNCHANGED vars
  BY <1>1 DEF vars, durable, manager, bounds, IInv, TypeOK, Budget, Fresh, Registered, Waits,
              NoOrphans, HonestRuntime, Single, Sessions, Sound, Alive
<1>2. CASE Api
  BY <1>2, CreateKeeps, PatchKeeps, RestOfTheApiKeeps DEF Api
<1>3. CASE Joined \/ JoinTimesOut \/ StopTimedOut
  BY <1>3, JoinedKeeps, TimeoutKeeps
<1>4. ASSUME NEW w \in Instances, Progress(w) \/ Frame(w) \/ SourceFails(w) \/ FatalError(w)
      PROVE  IInv'
  BY <1>4, StatesOfAThread, EndOfAThread, AttemptOfAThread, PendingOfAThread DEF Progress
<1>5. ASSUME NEW r \in BOOLEAN, Restart(r) PROVE IInv'
  BY <1>5, RestartKeeps
<1> QED BY <1>1, <1>2, <1>3, <1>4, <1>5 DEF Next

\* It holds throughout the life of the camera.
LEMMA Invariance == Spec => []IInv
BY Initially, Inductive, PTL DEF Spec

\* The rows, the registry and the threads keep to their types.
THEOREM TypeCorrect == Spec => []TypeOK
<1>1. IInv => TypeOK
  BY DEF IInv
<1> QED BY <1>1, Invariance, PTL

\* No thread goes on analysing a camera that was disabled, deleted or given
\* another worker, however many joins time out.
THEOREM ThreadsAreOwned == Spec => []NoOrphans
<1>1. IInv => NoOrphans
  BY DEF IInv
<1> QED BY <1>1, Invariance, PTL

\* A second thread is started beside the first only after a join timed out.
THEOREM ThreadsAreSingle == Spec => []OneThread
<1>1. ASSUME IInv PROVE OneThread
  <2> SUFFICES ASSUME timeouts = 0
               PROVE  Cardinality({w \in Instances : Alive(w)}) <= 1
    BY DEF OneThread
  <2>1. {w \in Instances : Alive(w)} \subseteq {entry.worker}
    BY <1>1 DEF IInv, Single
  <2>2. IsFiniteSet({entry.worker}) /\ Cardinality({entry.worker}) = 1
    BY FS_Singleton
  <2> QED BY <2>1, <2>2, FS_Subset
<1> QED BY <1>1, Invariance, PTL

\* What the API reports of a worker is true of its thread.
THEOREM RuntimeIsHonest == Spec => []HonestRuntime
<1>1. IInv => HonestRuntime
  BY DEF IInv
<1> QED BY <1>1, Invariance, PTL

\* A thread that reads frames has a crossing engine exactly when its
\* configuration has a line, and that engine is the one of the session which
\* its events carry.  Whether the engine has the geometry of that line is not
\* said: a configuration that overtakes a change of the line keeps the old one.
THEOREM EnginesBelongToSessions == Spec => []EngineOfSession
<1>1. IInv => EngineOfSession
  BY DEF IInv, Sessions, Sound, EngineOfSession
<1> QED BY <1>1, Invariance, PTL
=============================================================================
