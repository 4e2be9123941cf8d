------------------------- MODULE StreamWorker_proofs -------------------------
(***************************************************************************)
(* Why a camera can be given up, and what RUNNING says of its pipeline,    *)
(* for every set of pads a source may announce; and what the crossing      *)
(* engine of the same thread reports, for every line and every path.       *)
(*                                                                         *)
(* The engine has variables of its own: its steps are within one step of   *)
(* the pipeline.                                                           *)
(***************************************************************************)
EXTENDS MediaPipeline, CrossingEngine, FiniteSetTheorems, TLAPS

Verdicts == Retried \cup Fatal \cup {"stopped", None}
Pulled   == {"source_error", "source_eos", "pad_link_failed", None}

\* The source has announced video of another codec in this attempt.
OtherSeen == \E p \in OtherPads : callback[p] # None

\* TypeOK with its sets of variables spelled out.
Types ==
  /\ pc \in Places
  /\ state \in {"starting", "running", "reconnecting", "error", "disabled"}
  /\ error \in Retried \cup Fatal \cup {None}
  /\ verdict \in Verdicts
  /\ stop \in BOOLEAN /\ overdue \in BOOLEAN /\ fatal \in BOOLEAN
  /\ wired \in BOOLEAN /\ seen \in BOOLEAN /\ linked \in BOOLEAN
  /\ unsupported \in BOOLEAN /\ linkError \in BOOLEAN /\ closing \in BOOLEAN
  /\ loaded \in BOOLEAN
  /\ failed \in Pulled
  /\ callback \in [Pads -> {None, "inspect", "check", "link", "linked", "failed", "done"}]
  /\ bus \in {"source_error", "source_eos", None}
  /\ detector \in {"free", "this", "other"}

\* BetweenAttempts two attempts there is no pipeline, and no callback of an old one.
BetweenAttempts == pc \in {"begin", "build", "after", "backoff", "ended"}

NothingPlays ==
  /\ BetweenAttempts => ~unsupported /\ \A p \in Pads : ~InCallback(p)
  /\ fatal => pc \in {"process", "detect", "infer"}
  /\ pc \in {"begin", "build", "pump", "process", "detect", "infer", "backoff"} => verdict = None

\* Whatever says that the codec is not supported has seen such a pad.
CodecOK ==
  /\ unsupported => OtherSeen
  /\ fatal => OtherSeen
  /\ verdict = "unsupported_codec" => OtherSeen
  /\ state = "error" /\ error = "unsupported_codec" => OtherSeen

\* The model is released only once the workers were asked to stop.
ModelOK ==
  /\ ~loaded => stop
  /\ verdict = "model_unavailable" => stop
  /\ state = "error" /\ error = "model_unavailable" => stop

ErrorIsFinal == state = "error" => pc = "ended" /\ error \in Fatal

VideoOK ==
  state = "running" =>
    /\ pc \in {"pump", "process", "detect", "infer", "teardown", "null", "after"}
    /\ pc # "after" => wired

IInv == Types /\ NothingPlays /\ CodecOK /\ ModelOK /\ ErrorIsFinal /\ VideoOK

-----------------------------------------------------------------------------
\* The steps of the streaming threads and of everybody but the worker.
Around ==
  \/ \E p \in Pads : PadAdded(p) \/ Callbacks(p)
  \/ \E m \in {"source_error", "source_eos"} : Message(m)
  \/ DeadlinePasses \/ RequestStop \/ OthersDetect \/ ReleaseModel

\* Spelled out or not, the types are the same.
LEMMA TypesSpelledOut == Types <=> TypeOK
BY DEF Types, TypeOK, Verdicts, Pulled

\* A callback that has begun is never forgotten within an attempt.
LEMMA SeenStays ==
  ASSUME Types, OtherSeen, NEW p \in Pads, PadAdded(p) \/ Callbacks(p)
  PROVE  OtherSeen'
<1>1. PICK o \in OtherPads : callback[o] # None
  BY DEF OtherSeen
<1>2. \E next \in {"inspect", "check", "link", "linked", "failed", "done"} :
        callback' = [callback EXCEPT ![p] = next]
  BY DEF PadAdded, Callbacks, Inspect, CheckSink, Link, RecordLink, At
<1>3. callback'[o] # None
  BY <1>1, <1>2 DEF Types, None, Pads
<1> QED BY <1>3 DEF OtherSeen

\* The state before the first attempt.
LEMMA Initially == Init => IInv
<1> SUFFICES ASSUME Init PROVE IInv
  OBVIOUS
<1> USE DEF Init
<1>1. Types
  BY DEF Types, Places, Verdicts, Pulled, None
<1>2. NothingPlays /\ CodecOK /\ ModelOK /\ ErrorIsFinal /\ VideoOK
  BY DEF NothingPlays, CodecOK, ModelOK, ErrorIsFinal, VideoOK, InCallback, None
<1> QED BY <1>1, <1>2 DEF IInv

\* What surrounds the worker leaves it where it is.
LEMMA AroundKeeps ==
  ASSUME IInv, Around
  PROVE  IInv'
<1> USE DEF IInv
<1>1. ASSUME NEW p \in Pads, PadAdded(p) PROVE IInv'
  <2> USE <1>1 DEF PadAdded, At, worker, shared
  <2>1. Types'
    BY DEF Types
  <2>2. CodecOK'
    BY SeenStays DEF CodecOK
  <2>3. NothingPlays'
    BY DEF NothingPlays, BetweenAttempts, Playing
  <2>4. ModelOK' /\ ErrorIsFinal' /\ VideoOK'
    BY DEF ModelOK, ErrorIsFinal, VideoOK
  <2> QED BY <2>1, <2>2, <2>3, <2>4
<1>2. ASSUME NEW p \in Pads, Callbacks(p) PROVE IInv'
  <2>1. /\ UNCHANGED worker /\ UNCHANGED shared /\ UNCHANGED <<bus, closing>>
        /\ \E next \in {"check", "link", "linked", "failed", "done"} :
             callback' = [callback EXCEPT ![p] = next]
        /\ seen' \in BOOLEAN /\ linked' \in BOOLEAN /\ linkError' \in BOOLEAN
        /\ wired' \in BOOLEAN /\ (wired => wired')
        /\ unsupported' = (unsupported \/ (callback[p] = "inspect" /\ p \in OtherPads))
    <3>1. CASE Inspect(p)
      BY <3>1 DEF Inspect, At, worker, shared, Types
    <3>2. CASE CheckSink(p)
      BY <3>2 DEF CheckSink, At, worker, shared, Types
    <3>3. CASE Link(p)
      BY <3>3 DEF Link, At, worker, shared, Types
    <3>4. CASE RecordLink(p)
      BY <3>4 DEF RecordLink, At, worker, shared, Types
    <3> QED BY <1>2, <3>1, <3>2, <3>3, <3>4 DEF Callbacks
  <2>2. InCallback(p)
    BY <1>2 DEF Callbacks, Inspect, CheckSink, Link, RecordLink, At, InCallback, None
  <2>3. ~BetweenAttempts
    BY <2>2 DEF NothingPlays
  <2>4. Types'
    BY <2>1 DEF Types, worker, shared
  <2>5. CodecOK'
    <3>1. unsupported' => OtherSeen'
      <4>1. CASE unsupported
        BY <1>2, <4>1, SeenStays DEF CodecOK
      <4>2. CASE p \in OtherPads
        <5>1. callback[p] # None
          BY <2>2 DEF InCallback
        <5>2. OtherSeen
          BY <4>2, <5>1 DEF OtherSeen
        <5> QED BY <1>2, <5>2, SeenStays
      <4> QED BY <2>1, <4>1, <4>2
    <3> QED BY <1>2, <2>1, <3>1, SeenStays DEF CodecOK, worker
  <2>6. NothingPlays'
    BY <2>1, <2>3 DEF NothingPlays, BetweenAttempts, worker
  <2>7. ModelOK' /\ ErrorIsFinal' /\ VideoOK'
    BY <2>1 DEF ModelOK, ErrorIsFinal, VideoOK, worker, shared
  <2> QED BY <2>4, <2>5, <2>6, <2>7
<1>3. ASSUME UNCHANGED <<pc, state, error, verdict, fatal, failed>>,
             UNCHANGED <<callback, wired, seen, linked, unsupported, linkError, closing>>,
             overdue' \in BOOLEAN, stop' \in BOOLEAN, stop => stop',
             loaded' \in BOOLEAN, ~loaded' => stop',
             bus' \in {"source_error", "source_eos", None},
             detector' \in {"free", "this", "other"}
      PROVE  IInv'
  <2> USE <1>3
  <2>1. Types'
    BY DEF Types
  <2>2. CodecOK' /\ ModelOK'
    BY DEF CodecOK, ModelOK, OtherSeen
  <2>3. NothingPlays'
    BY DEF NothingPlays, BetweenAttempts, InCallback
  <2>4. ErrorIsFinal' /\ VideoOK'
    BY DEF ErrorIsFinal, VideoOK
  <2> QED BY <2>1, <2>2, <2>3, <2>4
<1>4. ASSUME NEW m \in {"source_error", "source_eos"}, Message(m) PROVE IInv'
  BY <1>3, <1>4 DEF Message, worker, shared, Types, ModelOK
<1>5. CASE DeadlinePasses
  BY <1>3, <1>5 DEF DeadlinePasses, pipeline, shared, Types, ModelOK
<1>6. CASE RequestStop
  BY <1>3, <1>6 DEF RequestStop, pipeline, shared, Types, ModelOK
<1>7. CASE OthersDetect
  BY <1>3, <1>7 DEF OthersDetect, worker, pipeline, Types, ModelOK
<1>8. CASE ReleaseModel
  BY <1>3, <1>8 DEF ReleaseModel, worker, pipeline, Types, ModelOK
<1> QED BY <1>1, <1>2, <1>4, <1>5, <1>6, <1>7, <1>8 DEF Around

-----------------------------------------------------------------------------
\* The steps of the worker: how each may leave what has been found.

\* Judge goes on, or gives the verdict that the findings call for.
LEMMA JudgeGives ==
  ASSUME NEW isFatal \in BOOLEAN, NEW code \in Pulled, verdict = None, Judge(isFatal, code)
  PROVE  /\ pc' \in {"pump", "teardown"} /\ verdict' \in Verdicts
         /\ pc' = "pump" => verdict' = None
         /\ verdict' = "unsupported_codec" => isFatal
         /\ verdict' # "model_unavailable"
BY DEF Judge, EndsWith, Goes, Pulled, Verdicts, Retried, Fatal, None

\* A step that stays within the attempt, or ends it with a verdict.
Continues ==
  /\ pc \in {"pump", "process", "detect", "infer", "teardown"}
  /\ pc' \in {"pump", "process", "detect", "infer", "teardown", "null"}
  /\ UNCHANGED <<stop, callback, wired, seen, linked, unsupported, linkError, loaded>>
  /\ overdue' \in BOOLEAN /\ closing' \in BOOLEAN
  /\ fatal' \in BOOLEAN /\ failed' \in Pulled /\ verdict' \in Verdicts
  /\ bus' \in {"source_error", "source_eos", None}
  /\ detector' \in {"free", "this", "other"}
  /\ state' = state \/ (state' = "running" /\ wired)
  /\ error' = error \/ error' = None
  /\ fatal' => pc' \in {"process", "detect", "infer"} /\ (fatal \/ unsupported)
  /\ verdict' = None \/ pc' \in {"teardown", "null"}
  /\ verdict' = "unsupported_codec" => verdict = verdict' \/ fatal \/ unsupported
  /\ verdict' = "model_unavailable" => verdict = verdict' \/ stop

\* Such a step keeps the invariant.
LEMMA ContinuesKeeps ==
  ASSUME IInv, Continues
  PROVE  IInv'
<1> USE DEF IInv, Continues
<1>1. Types'
  <2>1. state' \in {"starting", "running", "reconnecting", "error", "disabled"}
    BY DEF Types
  <2>2. error' \in Retried \cup Fatal \cup {None}
    BY DEF Types
  <2> QED BY <2>1, <2>2 DEF Types, Places
<1>2. NothingPlays'
  BY DEF NothingPlays, BetweenAttempts
<1>3. OtherSeen' = OtherSeen
  BY DEF OtherSeen
<1>4. state # "error" /\ state' # "error"
  BY DEF ErrorIsFinal
<1>5. CodecOK'
  BY <1>3, <1>4 DEF CodecOK
<1>6. ModelOK'
  BY <1>4 DEF ModelOK
<1>7. ErrorIsFinal'
  BY <1>4 DEF ErrorIsFinal
<1>8. VideoOK'
  BY DEF VideoOK
<1> QED BY <1>1, <1>2, <1>5, <1>6, <1>7, <1>8

\* What has been found of the bus and of the pads.
LEMMA Findings ==
  ASSUME Types
  PROVE  Found \in Pulled /\ Unsupported \in BOOLEAN /\ (Unsupported => unsupported)
<1>1. Found \in Pulled
  BY DEF Types, Found, Pulled
<1>2. Unsupported \in BOOLEAN
  BY DEF Types, Unsupported
<1> QED BY <1>1, <1>2 DEF Unsupported

\* The steps from the first pull to the closing of the pipeline.
LEMMA PumpKeeps ==
  ASSUME IInv,
         StopSeen \/ PullNothing \/ PullFrame \/ Process \/ Skip \/ ModelIsGone
           \/ Detect \/ Analysed \/ Close
  PROVE  IInv'
<1> SUFFICES Continues
  BY ContinuesKeeps
<1> USE DEF IInv
<1> USE DEF Goes, KeepsRuntime, KeepsFindings, ForgetsFindings, EndsWith, pipeline, shared
<1>1. /\ Types /\ Found \in Pulled /\ Unsupported \in BOOLEAN /\ (Unsupported => unsupported)
      /\ None \in Pulled /\ None \in Verdicts
      /\ {"stopped", "source_stall", "model_unavailable", "detector_failed", "tracker_invariant",
          "tracker_state_overflow", "event_persistence_failed"} \subseteq Verdicts
  BY Findings DEF Pulled, Verdicts, Retried, Fatal
<1>2. CASE StopSeen
  BY <1>1, <1>2 DEF StopSeen, Continues, Types, NothingPlays
<1>3. CASE PullNothing
  <2>1. verdict = None /\ pc = "pump"
    BY <1>3 DEF PullNothing, NothingPlays
  <2>2. /\ pc' \in {"pump", "teardown"} /\ verdict' \in Verdicts
        /\ pc' = "pump" => verdict' = None
        /\ verdict' = "unsupported_codec" => unsupported
        /\ verdict' # "model_unavailable"
    <3>1. CASE overdue
      BY <1>1, <1>3, <3>1 DEF PullNothing
    <3>2. CASE ~overdue
      <4>1. Judge(Unsupported, Found)
        BY <1>3, <3>2 DEF PullNothing
      <4> QED BY ONLY <1>1, <2>1, <4>1, JudgeGives
    <3> QED BY <3>1, <3>2 DEF Types
  <2> QED BY <1>1, <1>3, <2>1, <2>2 DEF PullNothing, Continues, Types, NothingPlays
<1>4. CASE PullFrame
  <2>1. verdict = None
    BY <1>4 DEF PullFrame, NothingPlays
  <2>2. error' = error \/ error' = None
    BY <1>4 DEF PullFrame
  <2> QED BY <1>1, <1>4, <2>1, <2>2 DEF PullFrame, Continues, Types
<1>5. CASE Process
  BY <1>1, <1>5 DEF Process, Continues, Types, NothingPlays
<1>6. CASE Skip
  <2>1. verdict = None /\ pc = "detect"
    BY <1>6 DEF Skip, NothingPlays
  <2>2. Judge(fatal, failed) /\ fatal \in BOOLEAN /\ failed \in Pulled
    BY <1>6 DEF Skip, Types
  <2>3. /\ pc' \in {"pump", "teardown"} /\ verdict' \in Verdicts
        /\ pc' = "pump" => verdict' = None
        /\ verdict' = "unsupported_codec" => fatal
        /\ verdict' # "model_unavailable"
    BY ONLY <2>1, <2>2, JudgeGives
  <2> QED BY <1>1, <1>6, <2>1, <2>3 DEF Skip, Continues, Types
<1>7. CASE ModelIsGone
  BY <1>1, <1>7 DEF ModelIsGone, Continues, Types, ModelOK
<1>8. CASE Detect
  BY <1>1, <1>8 DEF Detect, Continues, Types, NothingPlays
<1>9. CASE Analysed
  <2>1. verdict = None /\ pc = "infer"
    BY <1>9 DEF Analysed, NothingPlays
  <2>2. /\ pc' \in {"pump", "teardown"} /\ verdict' \in Verdicts
        /\ pc' = "pump" => verdict' = None
        /\ verdict' = "unsupported_codec" => fatal
        /\ verdict' # "model_unavailable"
    <3>1. CASE Judge(fatal, failed)
      <4>1. fatal \in BOOLEAN /\ failed \in Pulled
        BY DEF Types
      <4> QED BY ONLY <2>1, <3>1, <4>1, JudgeGives
    <3>2. CASE \E code \in {"detector_failed", "tracker_invariant", "tracker_state_overflow",
                            "event_persistence_failed"} : EndsWith(code, "teardown")
      BY <1>1, <3>2
    <3>3. CASE stop /\ EndsWith("stopped", "teardown")
      BY <1>1, <3>3
    <3> QED BY <1>9, <3>1, <3>2, <3>3 DEF Analysed
  <2> QED BY <1>1, <1>9, <2>1, <2>2 DEF Analysed, Continues, Types
<1>10. CASE Close
  BY <1>1, <1>10 DEF Close, Continues, Types, NothingPlays
<1> QED BY <1>2, <1>3, <1>4, <1>5, <1>6, <1>7, <1>8, <1>9, <1>10

\* The steps between two pipelines.
LEMMA AttemptKeeps ==
  ASSUME IInv, BeginAttempt \/ BuildFails \/ Play \/ Null \/ AfterAttempt \/ Backoff
  PROVE  IInv'
<1> USE DEF IInv
<1> USE DEF Goes, KeepsRuntime, KeepsFindings, EndsWith, pipeline, shared
<1>1. CASE BeginAttempt
  <2>1. CASE stop
    <3>1. /\ pc' = "ended" /\ state' = "disabled" /\ error' = None
          /\ UNCHANGED <<verdict, stop, fatal, failed, overdue, pipeline, shared>>
      BY <1>1, <2>1 DEF BeginAttempt, Ends, Fatal
    <3>2. Types'
      BY <3>1 DEF Types, Places
    <3>3. NothingPlays'
      BY <1>1, <3>1 DEF BeginAttempt, NothingPlays, BetweenAttempts, InCallback
    <3>4. CodecOK'
      BY <3>1 DEF CodecOK, OtherSeen
    <3>5. ModelOK' /\ ErrorIsFinal' /\ VideoOK'
      BY <3>1 DEF ModelOK, ErrorIsFinal, VideoOK
    <3> QED BY <3>2, <3>3, <3>4, <3>5
  <2>2. CASE ~stop
    <3>1. /\ pc' = "build" /\ callback' = [p \in Pads |-> None]
          /\ UNCHANGED <<state, error, verdict, stop, fatal, failed, overdue, shared>>
          /\ UNCHANGED <<wired, seen, linked, unsupported, linkError, bus, closing>>
      BY <1>1, <2>2 DEF BeginAttempt
    <3>2. Types'
      BY <3>1 DEF Types, Places, None
    <3>3. verdict = None /\ ~fatal /\ ~unsupported /\ state # "error"
      BY <1>1 DEF BeginAttempt, NothingPlays, BetweenAttempts, ErrorIsFinal
    <3>4. NothingPlays'
      BY <3>1, <3>3 DEF NothingPlays, BetweenAttempts, InCallback
    <3>5. CodecOK'
      BY <3>1, <3>3 DEF CodecOK, None
    <3>6. ModelOK' /\ ErrorIsFinal' /\ VideoOK'
      BY <1>1, <3>1, <3>3 DEF BeginAttempt, ModelOK, ErrorIsFinal, VideoOK
    <3> QED BY <3>2, <3>4, <3>5, <3>6
  <2> QED BY <2>1, <2>2 DEF Types
<1>2. CASE BuildFails \/ Play
  <2>1. /\ pc = "build"
        /\ \/ pc' = "after" /\ verdict' \in {"internal_invariant", "pipeline_build_failed"}
           \/ pc' = "teardown" /\ verdict' = "pipeline_play_refused"
           \/ pc' = "pump" /\ verdict' = verdict
        /\ UNCHANGED <<state, error, stop, overdue, fatal, failed, pipeline, shared>>
    BY <1>2 DEF BuildFails, Play
  <2>2. Types'
    BY <2>1 DEF Types, Places, Verdicts, Retried, Fatal
  <2>3. verdict = None /\ ~fatal /\ ~unsupported /\ state \notin {"error", "running"}
    BY <2>1 DEF NothingPlays, BetweenAttempts, ErrorIsFinal, VideoOK
  <2>4. NothingPlays'
    BY <2>1, <2>3 DEF NothingPlays, BetweenAttempts, InCallback
  <2>5. CodecOK' /\ ModelOK' /\ ErrorIsFinal' /\ VideoOK'
    BY <2>1, <2>3 DEF CodecOK, ModelOK, ErrorIsFinal, VideoOK, None
  <2> QED BY <2>2, <2>4, <2>5
<1>3. CASE Null
  <2> USE <1>3 DEF Null, NoPipeline
  <2>1. Types'
    BY DEF Types, Places, None
  <2>2. state # "error" /\ ~fatal
    BY DEF ErrorIsFinal, NothingPlays
  <2>3. NothingPlays'
    BY <2>2 DEF NothingPlays, BetweenAttempts, InCallback
  <2>4. CodecOK'
    BY <2>2 DEF CodecOK, OtherSeen
  <2>5. ModelOK' /\ ErrorIsFinal' /\ VideoOK'
    BY <2>2 DEF ModelOK, ErrorIsFinal, VideoOK
  <2> QED BY <2>1, <2>3, <2>4, <2>5
<1>4. CASE AfterAttempt
  <2>1. /\ pc = "after" /\ verdict' = None /\ ~fatal /\ ~fatal' /\ ~unsupported
        /\ UNCHANGED <<stop, overdue, failed, pipeline, shared>>
    BY <1>4 DEF AfterAttempt, NothingPlays, BetweenAttempts
  <2>2. \/ pc' = "backoff" /\ state' = "reconnecting" /\ error' = verdict /\ verdict \in Retried
        \/ pc' = "ended" /\ state' = "error" /\ error' = verdict /\ verdict \in Fatal
        \/ pc' = "ended" /\ state' = "disabled" /\ error' = None
    BY <1>4 DEF AfterAttempt, Ends
  <2>3. Types'
    <3>1. pc' \in Places /\ state' \in {"reconnecting", "error", "disabled"}
      BY <2>2 DEF Places
    <3>2. error' \in Retried \cup Fatal \cup {None} /\ verdict' \in Verdicts
      BY <2>1, <2>2 DEF Verdicts
    <3> QED BY <1>4, <2>1, <3>1, <3>2 DEF Types, AfterAttempt
  <2>4. NothingPlays'
    BY <2>1, <2>2 DEF NothingPlays, BetweenAttempts, InCallback
  <2>5. CodecOK'
    BY <2>1, <2>2 DEF CodecOK, OtherSeen, None
  <2>6. ModelOK'
    BY <2>1, <2>2 DEF ModelOK, None
  <2>7. ErrorIsFinal' /\ VideoOK'
    BY <2>2 DEF ErrorIsFinal, VideoOK
  <2> QED BY <2>3, <2>4, <2>5, <2>6, <2>7
<1>5. CASE Backoff
  <2>1. /\ pc = "backoff"
        /\ \/ pc' = "ended" /\ state' = "disabled" /\ error' = None
           \/ pc' = "begin" /\ state' = state /\ error' = error
        /\ UNCHANGED <<verdict, stop, fatal, failed, overdue, pipeline, shared>>
    BY <1>5 DEF Backoff, Ends, Fatal
  <2>2. Types'
    BY <2>1 DEF Types, Places
  <2>3. NothingPlays'
    BY <2>1 DEF NothingPlays, BetweenAttempts, InCallback
  <2>4. CodecOK'
    BY <2>1 DEF CodecOK, OtherSeen
  <2>5. ModelOK' /\ ErrorIsFinal' /\ VideoOK'
    BY <2>1 DEF ModelOK, ErrorIsFinal, VideoOK
  <2> QED BY <2>2, <2>3, <2>4, <2>5
<1> QED BY <1>1, <1>2, <1>3, <1>4, <1>5

-----------------------------------------------------------------------------
\* Every step keeps the invariant.
LEMMA Inductive == IInv /\ [Next]_vars => IInv'
<1> SUFFICES ASSUME IInv, [Next]_vars PROVE IInv'
  OBVIOUS
<1>1. CASE UNCHANGED vars
  BY <1>1 DEF vars, worker, pipeline, shared, IInv, Types, NothingPlays, BetweenAttempts, InCallback,
              CodecOK, OtherSeen, ModelOK, ErrorIsFinal, VideoOK
<1>2. CASE Around
  BY <1>2, AroundKeeps
<1>3. CASE Steps
  BY <1>3, PumpKeeps, AttemptKeeps DEF Steps
<1> QED BY <1>1, <1>2, <1>3 DEF Next, Around

\* It holds in every state of the worker and its pipelines.
LEMMA Invariance == Spec => []IInv
BY Initially, Inductive, PTL DEF Spec

\* The worker, its pipeline and the shared detector keep to their types.
THEOREM TypeCorrect == Spec => []TypeOK
<1>1. IInv => TypeOK
  BY TypesSpelledOut DEF IInv
<1> QED BY <1>1, Invariance, PTL

\* A camera is given up only for a cause that no retry can mend, whatever
\* pads its source announces and however the callbacks are scheduled.
THEOREM GivenUp == Spec => []GivenUpForCause
<1>1. IInv => GivenUpForCause
  BY DEF IInv, ErrorIsFinal, CodecOK, OtherSeen, ModelOK, GivenUpForCause
<1> QED BY <1>1, Invariance, PTL

\* RUNNING is never said of a pipeline that has no linked pad.
THEOREM RunningIsHonest == Spec => []RunningHasVideo
<1>1. IInv => RunningHasVideo
  BY DEF IInv, VideoOK, RunningHasVideo
<1> QED BY <1>1, Invariance, PTL

-----------------------------------------------------------------------------
(* The crossing engine: the geometry                                       *)

\* In one direction, a is to b as e is to d, and e is a part of d.
InProportion(a, b, e, d) ==
  d * a = e * b /\ ((0 <= e /\ e <= d /\ 0 < d) \/ (d <= e /\ e <= 0 /\ d < 0))

\* And then a is between 0 and b.
LEMMA OnTheLine ==
  ASSUME NEW a \in Int, NEW b \in Int, NEW e \in Int, NEW d \in Int, InProportion(a, b, e, d)
  PROVE  Between(0, a, b)
<1> USE DEF InProportion
<1>1. CASE 0 <= e /\ e <= d /\ 0 < d /\ b >= 0
  <2>1. 0 <= e * b /\ e * b <= d * b
    BY <1>1
  <2>2. a >= 0 /\ a <= b
    BY <1>1, <2>1
  <2> QED BY <2>2 DEF Between
<1>2. CASE 0 <= e /\ e <= d /\ 0 < d /\ b < 0
  <2>1. e * b <= 0 /\ d * b <= e * b
    BY <1>2
  <2>2. a <= 0 /\ b <= a
    BY <1>2, <2>1
  <2> QED BY <2>2 DEF Between
<1>3. CASE d <= e /\ e <= 0 /\ d < 0 /\ b >= 0
  <2>1. e * b <= 0 /\ d * b <= e * b
    BY <1>3
  <2>2. a >= 0 /\ a <= b
    BY <1>3, <2>1
  <2> QED BY <2>2 DEF Between
<1>4. CASE d <= e /\ e <= 0 /\ d < 0 /\ b < 0
  <2>1. 0 <= e * b /\ e * b <= d * b
    BY <1>4
  <2>2. a <= 0 /\ b <= a
    BY <1>4, <2>1
  <2> QED BY <2>2 DEF Between
<1> QED BY <1>1, <1>2, <1>3, <1>4

\* With its ends strictly on the two sides of a segment, a way cuts it in the
\* sense of the code (orientations, and a box when one of them is 0) exactly
\* if there is a point that lies on both.
LEMMA IntersectionIsExact ==
  ASSUME NEW p1 \in Int \X Int, NEW p2 \in Int \X Int, NEW q1 \in Int \X Int,
         NEW q2 \in Int \X Int,
         Opposite(Orientation(q1, q2, p1), Orientation(q1, q2, p2))
  PROVE  SegmentsIntersect(p1, p2, q1, q2) <=> Meet(p1, p2, q1, q2)
<1> DEFINE ux == p2[1] - p1[1]
           uy == p2[2] - p1[2]
           vx == q2[1] - q1[1]
           vy == q2[2] - q1[2]
           wx == q1[1] - p1[1]
           wy == q1[2] - p1[2]
           d1 == wx * vy - wy * vx
           d  == ux * vy - uy * vx
           e  == wx * uy - wy * ux
<1>1. /\ p1[1] \in Int /\ p1[2] \in Int /\ p2[1] \in Int /\ p2[2] \in Int
      /\ q1[1] \in Int /\ q1[2] \in Int /\ q2[1] \in Int /\ q2[2] \in Int
      /\ ux \in Int /\ uy \in Int /\ vx \in Int /\ vy \in Int /\ wx \in Int /\ wy \in Int
  OBVIOUS
<1>2. d1 \in Int /\ d \in Int /\ e \in Int
  <2> HIDE DEF ux, uy, vx, vy, wx, wy
  <2> QED BY <1>1
<1>3. /\ Orientation(q1, q2, p1) = d1 /\ Orientation(q1, q2, p2) = d1 - d
      /\ Orientation(p1, p2, q1) = 0 - e /\ Orientation(p1, p2, q2) = d - e
  <2>1. /\ p1[1] - q1[1] = 0 - wx /\ p1[2] - q1[2] = 0 - wy
        /\ p2[1] - q1[1] = ux - wx /\ p2[2] - q1[2] = uy - wy
        /\ q2[1] - p1[1] = vx + wx /\ q2[2] - p1[2] = vy + wy
    BY <1>1
  <2>2. /\ Orientation(q1, q2, p1) = vx * (0 - wy) - vy * (0 - wx)
        /\ Orientation(q1, q2, p2) = vx * (uy - wy) - vy * (ux - wx)
        /\ Orientation(p1, p2, q1) = ux * wy - uy * wx
        /\ Orientation(p1, p2, q2) = ux * (vy + wy) - uy * (vx + wx)
    BY <2>1 DEF Orientation
  <2> HIDE DEF ux, uy, vx, vy, wx, wy
  <2> QED BY <1>1, <2>2
<1>4. Meet(p1, p2, q1, q2) <=> IF d # 0 THEN Between(0, d1, d) /\ Between(0, e, d)
                                         ELSE Meet(p1, p2, q1, q2)
  BY DEF Meet
<1>5. /\ d * wx = d1 * ux - vx * e /\ d * wy = d1 * uy - vy * e
      /\ d * (wx + vx) = d1 * ux + vx * (d - e) /\ d * (wy + vy) = d1 * uy + vy * (d - e)
  <2> HIDE DEF ux, uy, vx, vy, wx, wy
  <2> QED BY <1>1
<1>6. /\ Between(0, wx, ux) => Between(p1[1], q1[1], p2[1])
      /\ Between(0, wy, uy) => Between(p1[2], q1[2], p2[2])
      /\ Between(0, wx + vx, ux) => Between(p1[1], q2[1], p2[1])
      /\ Between(0, wy + vy, uy) => Between(p1[2], q2[2], p2[2])
  BY <1>1 DEF Between
<1> HIDE DEF ux, uy, vx, vy, wx, wy, d1, d, e
<1>7. (0 < d1 /\ d1 < d) \/ (d < d1 /\ d1 < 0)
  BY <1>2, <1>3 DEF Opposite
<1>8. ASSUME e = 0
      PROVE  OnSegment(p1, q1, p2)
  <2>1. InProportion(wx, ux, d1, d) /\ InProportion(wy, uy, d1, d)
    BY <1>1, <1>2, <1>5, <1>7, <1>8 DEF InProportion
  <2>2. Between(0, wx, ux) /\ Between(0, wy, uy)
    BY <1>1, <1>2, <2>1, OnTheLine
  <2> QED BY <1>6, <2>2 DEF OnSegment
<1>9. ASSUME d = e
      PROVE  OnSegment(p1, q2, p2)
  <2>1. InProportion(wx + vx, ux, d1, d) /\ InProportion(wy + vy, uy, d1, d)
    BY <1>1, <1>2, <1>5, <1>7, <1>9 DEF InProportion
  <2>2. wx + vx \in Int /\ wy + vy \in Int
    BY <1>1
  <2>3. Between(0, wx + vx, ux) /\ Between(0, wy + vy, uy)
    BY <1>1, <1>2, <2>1, <2>2, OnTheLine
  <2> QED BY <1>6, <2>3 DEF OnSegment
<1>10. SegmentsIntersect(p1, p2, q1, q2) <=> Opposite(0 - e, d - e) \/ e = 0 \/ d = e
  BY <1>2, <1>3, <1>7, <1>8, <1>9 DEF SegmentsIntersect
<1>11. Meet(p1, p2, q1, q2) <=> Between(0, d1, d) /\ Between(0, e, d)
  BY <1>2, <1>4, <1>7
<1> QED BY <1>2, <1>7, <1>10, <1>11 DEF Between, Opposite
-----------------------------------------------------------------------------
(* The crossing engine: its state and the paths of the tracks              *)

\* What the engine keeps of an active track is its last stable point.
LastStable(t) ==
  \/ State(t) = NoState /\ \A i \in 1..Len(trail[t]) : ~Stable(trail[t], i)
  \/ \E m \in 1..Len(trail[t]) :
       /\ Stable(trail[t], m)
       /\ \A j \in 1..Len(trail[t]) : Stable(trail[t], j) => j <= m
       /\ State(t) = [side  |-> ClassifySide(trail[t][m], line.a, line.b),
                        point |-> trail[t][m]]

\* The crossings of active tracks that it suppresses are the stored ones, and
\* it keeps those of tracks it knows.
KeysOK ==
  /\ fired \subseteq events
  /\ \A e \in events : e.track \in active => e \in fired
  /\ \A e \in fired : e.track \in DOMAIN histories
  /\ reported # Nothing => reported.track \in DOMAIN histories

KnownOK ==
  /\ DOMAIN histories \subseteq active /\ active \subseteq Tracks
  /\ IsFiniteSet(DOMAIN histories) /\ Cardinality(DOMAIN histories) <= MaxHistories

EngineInv ==
  /\ EngineTypeOK /\ events \subseteq Observation /\ KnownOK /\ KeysOK
  /\ \A t \in active : LastStable(t)

\* No observation is none.
LEMMA NothingIsNone == Nothing \notin Observation
BY DEF Nothing, Observation, Directions

\* A session begins with no track, no crossing and no path.
LEMMA SessionBegins ==
  ASSUME NEW l \in Lines,
         line = l, histories = << >>, fired = {}, reported = Nothing, live = TRUE,
         active = Tracks, observed = {}, events = {}, trail = [t \in Tracks |-> << >>]
  PROVE  EngineInv
<1>1. DOMAIN histories = {}
  OBVIOUS
<1>2. EngineTypeOK
  BY <1>1 DEF EngineTypeOK
<1>3. KnownOK
  BY <1>1, FS_EmptySet, NumbersAreNatural DEF KnownOK
<1>4. KeysOK
  BY DEF KeysOK
<1>5. \A t \in active : LastStable(t)
  BY <1>1 DEF LastStable, State
<1> QED BY <1>2, <1>3, <1>4, <1>5 DEF EngineInv

\* The ends of a line are apart.
LEMMA LineIs ==
  ASSUME line \in Lines
  PROVE  /\ line.a \in Int \X Int /\ line.b \in Int \X Int /\ Points \subseteq Int \X Int
         /\ SquaredLength(line.a, line.b) \in Int /\ SquaredLength(line.a, line.b) > 0
         /\ line.policy \in Policies
<1>1. /\ line.a \in Int \X Int /\ line.b \in Int \X Int /\ line.a # line.b
      /\ Points \subseteq Int \X Int /\ line.policy \in Policies
  BY PointsAreIntegers, LinesAreSegments
<1>2. /\ line.a[1] \in Int /\ line.a[2] \in Int /\ line.b[1] \in Int /\ line.b[2] \in Int
      /\ line.a[1] # line.b[1] \/ line.a[2] # line.b[2]
  BY <1>1
<1>3. \A x, y \in Int : x # 0 \/ y # 0 => x * x + y * y \in Int /\ x * x + y * y > 0
  <2>1. \A x \in Int : x * x >= 0 /\ (x # 0 => x * x > 0)
    OBVIOUS
  <2> QED BY <2>1
<1>4. /\ line.b[1] - line.a[1] \in Int /\ line.b[2] - line.a[2] \in Int
      /\ line.b[1] - line.a[1] # 0 \/ line.b[2] - line.a[2] # 0
  BY <1>2
<1> QED BY <1>1, <1>3, <1>4 DEF SquaredLength

\* A point outside of the deadband is strictly on one side of the line.
LEMMA SideIs ==
  ASSUME line \in Lines, NEW p \in Points
  PROVE  LET d    == Orientation(line.a, line.b, p)
             side == ClassifySide(p, line.a, line.b)
         IN  /\ d \in Int /\ side \in Sides
             /\ side = "ON_LINE" <=> InDeadband(d, line.a, line.b)
             /\ side = "A_SIDE" => d < 0
             /\ side = "B_SIDE" => d > 0
<1> DEFINE d      == Orientation(line.a, line.b, p)
           length == SquaredLength(line.a, line.b)
<1>1. d \in Int
  <2>1. p \in Int \X Int /\ line.a \in Int \X Int /\ line.b \in Int \X Int
    BY LineIs
  <2>2. /\ p[1] \in Int /\ p[2] \in Int /\ line.a[1] \in Int /\ line.a[2] \in Int
        /\ line.b[1] \in Int /\ line.b[2] \in Int
    BY <2>1
  <2> QED BY <2>2 DEF Orientation
<1>2. Epsilon * Epsilon * length > 0
  <2>1. Epsilon \in Int /\ Epsilon > 0 /\ length \in Int /\ length > 0
    BY LineIs, NumbersAreNatural
  <2> HIDE DEF length
  <2>2. Epsilon * Epsilon \in Int /\ Epsilon * Epsilon > 0
    BY <2>1
  <2>3. \A x, y \in Int : x > 0 /\ y > 0 => x * y > 0
    OBVIOUS
  <2> QED BY <2>1, <2>2, <2>3
<1>3. d = 0 => InDeadband(d, line.a, line.b)
  <2>1. 10000 * 0 * 0 = 0
    OBVIOUS
  <2> QED BY <1>2, <2>1 DEF InDeadband
<1> HIDE DEF d
<1>4. /\ d < 0 \/ d = 0 \/ d > 0
      /\ d <= 0 <=> d < 0 \/ d = 0
  BY <1>1
<1>5. ClassifySide(p, line.a, line.b)
        = IF InDeadband(d, line.a, line.b) THEN "ON_LINE"
          ELSE IF d <= 0 THEN "A_SIDE" ELSE "B_SIDE"
  BY DEF ClassifySide, d
<1> QED BY <1>1, <1>3, <1>4, <1>5 DEF Sides, d

\* The same of the points of a path.
LEMMA StableIs ==
  ASSUME line \in Lines, NEW path \in Seq(Points), NEW i \in 1..Len(path)
  PROVE  /\ path[i] \in Points
         /\ Stable(path, i) <=> ClassifySide(path[i], line.a, line.b) # "ON_LINE"
<1>1. path[i] \in Points
  OBVIOUS
<1>2. Orientation(line.a, line.b, path[i]) \in Int
  BY <1>1, SideIs
<1>3. Stable(path, i) <=> ~InDeadband(Orientation(line.a, line.b, path[i]), line.a, line.b)
  <2> DEFINE d      == Orientation(line.a, line.b, path[i])
             length == SquaredLength(line.a, line.b)
  <2>1. d \in Int /\ length \in Int /\ Epsilon \in Int
    BY <1>2, LineIs, NumbersAreNatural
  <2> HIDE DEF d, length
  <2>2. 10000 * d * d \in Int /\ Epsilon * Epsilon * length \in Int
    BY <2>1
  <2>3. 10000 * d * d >= Epsilon * Epsilon * length <=> ~(10000 * d * d < Epsilon * Epsilon * length)
    BY <2>2
  <2> QED BY <2>3 DEF Stable, InDeadband, d, length
<1> QED BY <1>1, <1>3, SideIs

\* What the engine answers, from the little it keeps, is what the whole path
\* of the track says.
LEMMA CrossesIsExact ==
  ASSUME line \in Lines, NEW t \in Tracks, NEW p \in Points,
         trail[t] \in Seq(Points), LastStable(t)
  PROVE  Completes(t, Append(trail[t], p))
           = IF Crosses(t, p) = Nothing THEN {} ELSE {Crosses(t, p)}
<1> DEFINE n     == Len(trail[t])
           path  == Append(trail[t], p)
           prior == {i \in 1..(Len(path) - 1) : Stable(path, i)}
           new   == ClassifySide(p, line.a, line.b)
           to    == Orientation(line.a, line.b, p)
<1>1. /\ path \in Seq(Points) /\ n \in Nat /\ Len(path) = n + 1 /\ path[n + 1] = p
      /\ n + 1 \in 1..Len(path) /\ Len(path) - 1 = n
      /\ \A i \in 1..n : path[i] = trail[t][i]
  OBVIOUS
<1>2. \A i \in 1..n : Stable(path, i) <=> Stable(trail[t], i)
  BY <1>1 DEF Stable
<1>3. prior = {i \in 1..n : Stable(trail[t], i)}
  BY <1>1, <1>2
<1>4. Stable(path, n + 1) <=> new # "ON_LINE"
  BY <1>1, StableIs
<1>5. CASE prior = {} \/ new = "ON_LINE"
  <2>1. Completes(t, path) = {}
    BY <1>1, <1>4, <1>5 DEF Completes
  <2>2. Crosses(t, p) = Nothing
    <3>1. CASE new = "ON_LINE"
      BY <3>1 DEF Crosses
    <3>2. CASE prior = {}
      <4>1. State(t) = NoState
        BY <1>3, <3>2 DEF LastStable
      <4> QED BY <4>1 DEF Crosses, NoState
    <3> QED BY <1>5, <3>1, <3>2
  <2> QED BY <2>1, <2>2
<1>6. CASE prior # {} /\ new # "ON_LINE"
  <2>1. PICK m \in prior :
          /\ \A j \in prior : j <= m
          /\ State(t) = [side  |-> ClassifySide(trail[t][m], line.a, line.b),
                           point |-> trail[t][m]]
    BY <1>3, <1>6 DEF LastStable
  <2>2. m \in 1..n /\ path[m] = trail[t][m] /\ path[m] \in Points /\ m \in 1..Len(path)
    BY <1>1
  <2>3. (CHOOSE i \in prior : \A j \in prior : j <= i) = m
    <3>1. \A i \in prior : i \in Int
      BY <1>1
    <3> QED BY <2>1, <3>1
  <2> DEFINE from == Orientation(line.a, line.b, path[m])
             old  == ClassifySide(path[m], line.a, line.b)
             way  == IF to > from THEN "A_TO_B" ELSE "B_TO_A"
  <2>4. old # "ON_LINE" /\ old \in Sides /\ new \in Sides
    BY <2>2, <1>1, StableIs, SideIs
  <2>5. /\ from \in Int /\ to \in Int
        /\ (old = "A_SIDE" /\ from < 0) \/ (old = "B_SIDE" /\ from > 0)
        /\ (new = "A_SIDE" /\ to < 0) \/ (new = "B_SIDE" /\ to > 0)
    BY <1>6, <2>2, <2>4, SideIs DEF Sides
  <2>6. State(t).side = old /\ State(t).point = path[m]
    BY <2>1, <2>2
  <2>7. Completes(t, path)
          = IF /\ Opposite(from, to)
               /\ Meet(path[m], p, line.a, line.b)
               /\ line.policy # (IF way = "A_TO_B" THEN "B_TO_A" ELSE "A_TO_B")
            THEN {[track |-> t, direction |-> way]} ELSE {}
    BY <1>1, <1>4, <1>6, <2>3 DEF Completes
  <2>8. Crosses(t, p)
          = IF /\ old # new
               /\ SegmentsIntersect(path[m], p, line.a, line.b)
               /\ DirectionAllowed(line.policy, DirectionFor(old, new))
            THEN [track |-> t, direction |-> DirectionFor(old, new)] ELSE Nothing
    BY <1>6, <2>4, <2>6 DEF Crosses
  <2>9. Opposite(from, to) <=> old # new
    BY <2>5 DEF Opposite
  <2> HIDE DEF path, from, to, old, new
  <2>10. CASE old = new
    BY <2>7, <2>8, <2>9, <2>10 DEF path
  <2>11. CASE old # new
    <3>1. SegmentsIntersect(path[m], p, line.a, line.b) <=> Meet(path[m], p, line.a, line.b)
      <4>1. path[m] \in Int \X Int /\ p \in Int \X Int /\ line.a \in Int \X Int
            /\ line.b \in Int \X Int
        BY <2>2, LineIs
      <4>2. Opposite(Orientation(line.a, line.b, path[m]), Orientation(line.a, line.b, p))
        BY <2>9, <2>11 DEF from, to
      <4> QED BY <4>1, <4>2, IntersectionIsExact
    <3>2. DirectionFor(old, new) = way /\ way \in {"A_TO_B", "B_TO_A"}
      BY <2>5, <2>11 DEF DirectionFor
    <3>3. DirectionAllowed(line.policy, way)
            <=> line.policy # (IF way = "A_TO_B" THEN "B_TO_A" ELSE "A_TO_B")
      BY <3>2, LineIs DEF DirectionAllowed, Policies, Directions
    <3>4. [track |-> t, direction |-> way] # Nothing
      BY <3>2 DEF Nothing
    <3> HIDE DEF way
    <3> QED BY <2>7, <2>8, <2>9, <2>11, <3>1, <3>2, <3>3, <3>4 DEF path
  <2> QED BY <2>10, <2>11
<1> QED BY <1>5, <1>6

-----------------------------------------------------------------------------
(* The crossing engine: its steps                                          *)

\* What the engine answers is an observation, or nothing.
LEMMA CrossesTyped ==
  ASSUME NEW t \in Tracks, NEW p
  PROVE  /\ Crosses(t, p) \in Observation \cup {Nothing}
         /\ Crosses(t, p) # Nothing => Crosses(t, p).track = t
BY DEF Crosses, Observation, DirectionFor, Directions, Nothing

\* With the same line, a path has the same stable points.
LEMMA SameStability ==
  ASSUME line' = line, NEW t, NEW path, trail'[t] = path
  PROVE  \A i : Stable(trail[t], i)' <=> Stable(path, i)
<1>1. \A i : Orientation(line.a, line.b, trail[t][i])' = Orientation(line.a, line.b, path[i])
  BY DEF Orientation
<1>2. SquaredLength(line.a, line.b)' = SquaredLength(line.a, line.b)
  BY DEF SquaredLength
<1> QED BY <1>1, <1>2 DEF Stable

\* A centroid is observed: the anchor of its track follows its last stable
\* point, and those of the others stay.
LEMMA ObserveKeeps ==
  ASSUME EngineInv, NEW t \in Tracks, NEW p \in Points, Observe(t, p)
  PROVE  EngineInv'
<1> USE DEF EngineInv
<1>1. /\ t \in active /\ live /\ reported = Nothing
      /\ trail' = [trail EXCEPT ![t] = Append(trail[t], p)]
      /\ histories' = [u \in DOMAIN histories \cup {t} |->
                         IF u = t THEN Anchor(t, p) ELSE histories[u]]
      /\ reported' = IF Crosses(t, p) \in fired THEN Nothing ELSE Crosses(t, p)
      /\ observed' = observed \cup {t}
      /\ UNCHANGED <<line, fired, live, active, events>>
      /\ t \in DOMAIN histories \/ ~(Cardinality(DOMAIN histories) >= MaxHistories)
  BY DEF Observe, Put, Overflow
<1>2. DOMAIN histories' = DOMAIN histories \cup {t}
  BY <1>1
<1>3. /\ trail \in [Tracks -> Seq(Points)] /\ line \in Lines
      /\ trail' \in [Tracks -> Seq(Points)] /\ trail'[t] = Append(trail[t], p)
      /\ \A u \in Tracks : u # t => trail'[u] = trail[u]
  BY <1>1 DEF EngineTypeOK
<1>4. ClassifySide(p, line.a, line.b) \in Sides
  BY <1>3, SideIs
<1>5. Anchor(t, p) = NoState \/ Anchor(t, p) \in [side : Sides, point : Points]
  <2>1. State(t) = NoState \/ State(t) \in [side : Sides, point : Points]
    BY DEF EngineTypeOK, State
  <2> QED BY <1>4, <2>1 DEF Anchor
<1>6. EngineTypeOK'
  <2>1. \A u \in DOMAIN histories' :
          histories'[u] = NoState \/ histories'[u] \in [side : Sides, point : Points]
    BY <1>1, <1>2, <1>5 DEF EngineTypeOK
  <2>2. reported' \in Observation \cup {Nothing}
    BY <1>1, CrossesTyped
  <2> QED BY <1>1, <1>2, <1>3, <2>1, <2>2 DEF EngineTypeOK
<1>7. KnownOK'
  <2>1. CASE t \in DOMAIN histories
    BY <1>1, <1>2, <2>1 DEF KnownOK
  <2>2. CASE t \notin DOMAIN histories
    <3>1. IsFiniteSet(DOMAIN histories') /\ Cardinality(DOMAIN histories')
                                              = Cardinality(DOMAIN histories) + 1
      BY <1>2, <2>2, FS_AddElement DEF KnownOK
    <3>2. Cardinality(DOMAIN histories) \in Nat /\ MaxHistories \in Nat
      BY FS_CardinalityType, NumbersAreNatural DEF KnownOK
    <3>3. Cardinality(DOMAIN histories') <= MaxHistories
      BY <1>1, <2>2, <3>1, <3>2
    <3> QED BY <1>1, <1>2, <3>1, <3>3 DEF KnownOK
  <2> QED BY <2>1, <2>2
<1>8. KeysOK'
  BY <1>1, <1>2, CrossesTyped DEF KeysOK
<1>9. ASSUME NEW u \in active'
      PROVE  LastStable(u)'
  <2>1. u \in active /\ u \in Tracks
    BY <1>1 DEF KnownOK
  <2>2. CASE u # t
    <3>1. trail'[u] = trail[u]
      BY <1>3, <2>1, <2>2
    <3>2. State(u)' = State(u)
      BY <1>1, <1>2, <2>2 DEF State
    <3>3. \A i : Stable(trail[u], i)' <=> Stable(trail[u], i)
      BY <1>1, <3>1, SameStability
    <3> QED BY <1>1, <2>1, <3>1, <3>2, <3>3 DEF LastStable
  <2>3. CASE u = t
    <3> DEFINE n    == Len(trail[t])
               path == Append(trail[t], p)
    <3>1. /\ path \in Seq(Points) /\ n \in Nat /\ Len(path) = n + 1 /\ path[n + 1] = p
          /\ n + 1 \in 1..Len(path) /\ trail'[t] = path
          /\ \A i \in 1..n : path[i] = trail[t][i]
          /\ 1..Len(path) = 1..n \cup {n + 1}
      BY <1>3
    <3>2. \A i \in 1..n : Stable(path, i) <=> Stable(trail[t], i)
      BY <3>1 DEF Stable
    <3>3. Stable(path, n + 1) <=> ClassifySide(p, line.a, line.b) # "ON_LINE"
      BY <1>3, <3>1, StableIs
    <3>4. \A i : Stable(trail[t], i)' <=> Stable(path, i)
      BY <1>1, <3>1, SameStability
    <3>5. State(t)' = Anchor(t, p)
      BY <1>1, <1>2 DEF State
    <3> HIDE DEF path, n
    <3>6. CASE ClassifySide(p, line.a, line.b) = "ON_LINE"
      <4>1. State(t)' = State(t)
        BY <3>5, <3>6 DEF Anchor
      <4>2. ~Stable(path, n + 1)
        BY <3>3, <3>6
      <4>3. LastStable(t)
        BY <2>1, <2>3
      <4>4. CASE State(t) = NoState /\ \A i \in 1..n : ~Stable(trail[t], i)
        <5>1. \A i \in 1..Len(path) : ~Stable(path, i)
          BY <3>1, <3>2, <4>2, <4>4
        <5>2. NoState' = NoState
          BY DEF NoState
        <5> QED BY <2>3, <3>1, <3>4, <4>1, <4>4, <5>1, <5>2 DEF LastStable
      <4>5. CASE \E m \in 1..n :
                   /\ Stable(trail[t], m)
                   /\ \A j \in 1..n : Stable(trail[t], j) => j <= m
                   /\ State(t) = [side  |-> ClassifySide(trail[t][m], line.a, line.b),
                                    point |-> trail[t][m]]
        <5>1. PICK m \in 1..n :
                   /\ Stable(trail[t], m)
                   /\ \A j \in 1..n : Stable(trail[t], j) => j <= m
                   /\ State(t) = [side  |-> ClassifySide(trail[t][m], line.a, line.b),
                                    point |-> trail[t][m]]
          BY <4>5
        <5>2. /\ m \in 1..Len(path) /\ Stable(path, m) /\ path[m] = trail[t][m]
              /\ \A j \in 1..Len(path) : Stable(path, j) => j <= m
          BY <3>1, <3>2, <4>2, <5>1
        <5> QED BY <1>1, <2>3, <3>1, <3>4, <4>1, <5>1, <5>2 DEF LastStable
      <4> QED BY <4>3, <4>4, <4>5 DEF LastStable, n
    <3>7. CASE ClassifySide(p, line.a, line.b) # "ON_LINE"
      <4>1. State(t)' = [side |-> ClassifySide(p, line.a, line.b), point |-> p]
        BY <3>5, <3>7 DEF Anchor
      <4>2. /\ Stable(path, n + 1) /\ path[n + 1] = p
            /\ \A j \in 1..Len(path) : Stable(path, j) => j <= n + 1
        BY <3>1, <3>3, <3>7
      <4> QED BY <1>1, <2>3, <3>1, <3>4, <4>1, <4>2 DEF LastStable
    <3> QED BY <3>6, <3>7
  <2> QED BY <2>2, <2>3
<1> QED BY <1>1, <1>6, <1>7, <1>8, <1>9

\* The paths and what is kept of them stay: no track comes back, none that is
\* active is forgotten.
LEMMA PathsStay ==
  ASSUME \A t \in active : LastStable(t), UNCHANGED <<line, trail>>, active' \subseteq active,
         \A t \in active' : State(t)' = State(t)
  PROVE  \A t \in active' : LastStable(t)'
<1> SUFFICES ASSUME NEW t \in active' PROVE LastStable(t)'
  OBVIOUS
<1>1. \A i : Stable(trail[t], i)' <=> Stable(trail[t], i)
  BY DEF Stable
<1> QED BY <1>1 DEF LastStable

\* A crossing that was reported is stored, dropped or abandoned, or a track
\* too many ends the worker.
LEMMA OutcomeKeeps ==
  ASSUME EngineInv,
         \/ Persisted \/ Dropped \/ Abandoned
         \/ \E t \in Tracks : Overflows(t)
         \/ UNCHANGED engineVars
  PROVE  EngineInv'
<1> USE DEF EngineInv
<1>1. /\ UNCHANGED <<line, histories, active, observed, trail>> /\ live' \in {live, FALSE}
      /\ \/ UNCHANGED <<fired, events>> /\ reported' \in {reported, Nothing}
         \/ /\ reported # Nothing /\ reported' = Nothing
            /\ fired' = fired \cup {reported} /\ events' = events \cup {reported}
  BY DEF Persisted, Dropped, Abandoned, Overflows, engine, engineVars
<1>2. reported \in Observation \cup {Nothing} /\ fired \subseteq Observation
  BY DEF EngineTypeOK
<1>3. EngineTypeOK'
  BY <1>1, <1>2 DEF EngineTypeOK
<1>4. KnownOK' /\ KeysOK' /\ events' \subseteq Observation
  BY <1>1, <1>2 DEF KnownOK, KeysOK
<1>5. \A t \in active' : LastStable(t)'
  BY <1>1, PathsStay DEF State
<1> QED BY <1>3, <1>4, <1>5

\* A frame ends, and the tracks that its tracker removed are forgotten.
LEMMA EndFrameKeeps ==
  ASSUME EngineInv, NEW removed \in SUBSET active, EndFrame(removed)
  PROVE  EngineInv'
<1> USE DEF EngineInv
<1>1. /\ active' = active \ removed /\ observed' = {} /\ reported = Nothing
      /\ histories' = [t \in DOMAIN histories \ removed |-> histories[t]]
      /\ fired' = {f \in fired : f.track \notin removed \cap DOMAIN histories}
      /\ UNCHANGED <<line, reported, live, events, trail>>
  BY DEF EndFrame
<1>2. DOMAIN histories' = DOMAIN histories \ removed
  BY <1>1
<1>3. EngineTypeOK'
  <2>1. \A t \in DOMAIN histories' :
          histories'[t] = NoState \/ histories'[t] \in [side : Sides, point : Points]
    BY <1>1, <1>2 DEF EngineTypeOK
  <2> QED BY <1>1, <1>2, <2>1 DEF EngineTypeOK
<1>4. KnownOK'
  <2>1. IsFiniteSet(DOMAIN histories') /\ Cardinality(DOMAIN histories')
                                            <= Cardinality(DOMAIN histories)
    BY <1>2, FS_Subset DEF KnownOK
  <2>2. Cardinality(DOMAIN histories) \in Nat /\ Cardinality(DOMAIN histories') \in Nat
        /\ MaxHistories \in Nat
    BY <2>1, FS_CardinalityType, NumbersAreNatural DEF KnownOK
  <2>3. Cardinality(DOMAIN histories') <= MaxHistories
    BY <2>1, <2>2 DEF KnownOK
  <2> QED BY <1>1, <1>2, <2>1, <2>3 DEF KnownOK
<1>5. KeysOK'
  BY <1>1, <1>2 DEF KeysOK, KnownOK
<1>6. \A t \in active' : LastStable(t)'
  BY <1>1, <1>2, PathsStay DEF State
<1> QED BY <1>1, <1>3, <1>4, <1>5, <1>6

\* The invariant is inductive.
LEMMA EngineInductive ==
  ASSUME EngineInv, [EngineNext]_engineVars
  PROVE  EngineInv'
<1>1. ASSUME NEW l \in Lines, BeginSession(l)
      PROVE  EngineInv'
  <2>1. /\ line' = l /\ histories' = << >> /\ fired' = {} /\ reported' = Nothing
        /\ live' = TRUE /\ active' = Tracks /\ observed' = {} /\ events' = {}
        /\ trail' = [t \in Tracks |-> << >>]
    BY <1>1 DEF BeginSession
  <2>2. DOMAIN histories' = {}
    BY <2>1
  <2>3. EngineTypeOK'
    BY <2>1, <2>2 DEF EngineTypeOK
  <2>4. KnownOK'
    BY <2>1, <2>2, FS_EmptySet, NumbersAreNatural DEF KnownOK
  <2>5. KeysOK'
    BY <2>1 DEF KeysOK, Nothing
  <2>6. \A t \in active' : LastStable(t)'
    BY <2>1, <2>2 DEF LastStable, State
  <2> QED BY <2>1, <2>3, <2>4, <2>5, <2>6 DEF EngineInv
<1> QED BY <1>1, ObserveKeeps, OutcomeKeeps, EndFrameKeeps DEF EngineNext

\* An observation reports a crossing exactly if the path completes one that
\* is not stored.
LEMMA ReportIsExact ==
  ASSUME EngineInv, [EngineNext]_engineVars, NEW t \in Tracks, NEW p \in Points,
         trail'[t] = Append(trail[t], p), line' = line
  PROVE  (IF reported' = Nothing THEN {} ELSE {reported'})
           = Completes(t, trail'[t]) \ events
<1> USE DEF EngineInv
<1>1. trail[t] \in Seq(Points)
  BY DEF EngineTypeOK
<1>2. trail'[t] # trail[t] /\ trail'[t] # << >>
  <2>1. Len(Append(trail[t], p)) = Len(trail[t]) + 1 /\ Len(trail[t]) \in Nat /\ Len(<< >>) = 0
    BY <1>1
  <2>2. Len(trail'[t]) # Len(trail[t]) /\ Len(trail'[t]) # 0
    BY <2>1
  <2> QED BY <2>1, <2>2
<1>3. PICK u \in Tracks, q \in Points : Observe(u, q)
  <2>1. ~UNCHANGED trail /\ ~(trail' = [r \in Tracks |-> << >>])
    BY <1>2
  <2> QED BY <2>1 DEF EngineNext, engineVars, engine, Overflows, Persisted, Dropped,
                      Abandoned, EndFrame, BeginSession
<1>4. /\ trail' = [trail EXCEPT ![u] = Append(trail[u], q)] /\ u \in active
      /\ reported' = IF Crosses(u, q) \in fired THEN Nothing ELSE Crosses(u, q)
  BY <1>3 DEF Observe
<1>5. u = t /\ q = p
  <2>1. u = t
    BY <1>2, <1>4 DEF EngineTypeOK
  <2>2. Append(trail[t], q) = Append(trail[t], p)
    BY <1>4, <2>1 DEF EngineTypeOK
  <2>3. Append(trail[t], q)[Len(trail[t]) + 1] = q /\ Append(trail[t], p)[Len(trail[t]) + 1] = p
    BY <1>1
  <2> QED BY <2>1, <2>2, <2>3
<1>6. Completes(t, Append(trail[t], p))
        = IF Crosses(t, p) = Nothing THEN {} ELSE {Crosses(t, p)}
  BY <1>1, <1>4, <1>5, CrossesIsExact DEF EngineTypeOK
<1>7. Crosses(t, p) \in fired <=> Crosses(t, p) \in events
  <2>1. CASE Crosses(t, p) = Nothing
    BY <2>1, NothingIsNone DEF EngineTypeOK
  <2>2. CASE Crosses(t, p) # Nothing
    BY <1>4, <1>5, <2>2, CrossesTyped DEF KeysOK
  <2> QED BY <2>1, <2>2
<1>8. Nothing \notin fired
  BY NothingIsNone DEF EngineTypeOK
<1>9. reported' = IF Crosses(t, p) \in fired THEN Nothing ELSE Crosses(t, p)
  BY <1>4, <1>5
<1> QED BY <1>6, <1>7, <1>8, <1>9

-----------------------------------------------------------------------------
(* The crossing engine: what it promises                                   *)

\* The invariant holds in every state of the engine and its sessions.
LEMMA EngineInvariance == EngineSpec => []EngineInv
<1>1. EngineInit => EngineInv
  BY SessionBegins DEF EngineInit
<1>2. EngineInv /\ [EngineNext]_engineVars => EngineInv'
  BY EngineInductive
<1> QED BY <1>1, <1>2, PTL DEF EngineSpec

\* The engine and what surrounds it keep to their types.
THEOREM EngineTypes == EngineSpec => []EngineTypeOK
<1>1. EngineInv => EngineTypeOK
  BY DEF EngineInv
<1> QED BY <1>1, EngineInvariance, PTL

\* The engine suppresses only what is stored, forgets the tracks that are
\* gone, and never knows more of them than its cap.
THEOREM EngineKeepsLittle == EngineSpec => []EngineIsBounded
<1>1. EngineInv => EngineIsBounded
  BY DEF EngineInv, KnownOK, KeysOK, EngineIsBounded
<1> QED BY <1>1, EngineInvariance, PTL

\* For any line and any path of a track, however often the path touches the
\* deadband or runs around the end of the line: an observation reports a
\* crossing exactly if the last two stable points of the whole path are on
\* opposite sides and the way between them meets the segment, in a direction
\* that the line counts, and this crossing is not stored.
THEOREM CrossingsAreExact == EngineSpec => ReportsAreExact
<1>1. EngineInv /\ [EngineNext]_engineVars
        => [\A t \in Tracks, p \in Points :
              (trail'[t] = Append(trail[t], p) /\ line' = line)
                => (IF reported' = Nothing THEN {} ELSE {reported'})
                     = Completes(t, trail'[t]) \ events]_engineVars
  BY ReportIsExact
<1> QED BY <1>1, EngineInvariance, PTL DEF EngineSpec, ReportsAreExact
-----------------------------------------------------------------------------
(* The analysis of one frame                                               *)

\* The bytes of a range of a buffer that lies within it.
LEMMA BytesAre ==
  ASSUME NEW S, NEW data \in Seq(S), NEW from \in Nat, NEW to \in Nat,
         from <= to, to <= Len(data)
  PROVE  /\ Bytes(data, from, to) = [b \in 1..(to - from) |-> data[from + b]]
         /\ Bytes(data, from, to) \in Seq(S)
         /\ Len(Bytes(data, from, to)) = to - from
<1> DEFINE n == to - from
<1>1. n \in Nat /\ Len(data) \in Nat /\ (IF to < Len(data) THEN to ELSE Len(data)) = to
  OBVIOUS
<1>2. Bytes(data, from, to) = SubSeq(data, from + 1, to)
  BY <1>1 DEF Bytes
<1>3. SubSeq(data, from + 1, to) = [b \in 1..n |-> data[from + b]]
  OBVIOUS
<1>4. \A b \in 1..n : from + b \in 1..Len(data) /\ data[from + b] \in S
  OBVIOUS
<1> HIDE DEF n
<1>5. [b \in 1..n |-> data[from + b]] \in Seq(S) /\ Len([b \in 1..n |-> data[from + b]]) = n
  BY <1>1, <1>4
<1> QED BY <1>2, <1>3, <1>5 DEF n

\* The number of a row times the stride grows with the row.
LEMMA RowsAscend ==
  \A stride, r, s \in Int : stride >= 0 /\ r <= s => r * stride \in Int /\ r * stride <= s * stride
<1> SUFFICES ASSUME NEW stride \in Int, NEW r \in Int, NEW s \in Int, stride >= 0, r <= s
             PROVE  r * stride \in Int /\ r * stride <= s * stride
  OBVIOUS
<1>1. (s - r) * stride >= 0 /\ (s - r) * stride = s * stride - r * stride
  OBVIOUS
<1> QED BY <1>1

\* The copy of a sample has the visible bytes of the buffer, each at its
\* place, for any size, stride and offset; a buffer that lacks one of them
\* is no frame.
THEOREM FramesAreExact ==
  ASSUME NEW S, NEW sample, sample.data \in Seq(S), sample.offset \in Int,
         sample.stride \in Int, sample.width \in Int, sample.height \in Int
  PROVE  FrameIsExact(sample)
<1> DEFINE data   == sample.data
           offset == sample.offset
           stride == sample.stride
           height == sample.height
           row    == 3 * sample.width
           rows   == 1..height
           cols   == 1..row
           at(r)  == offset + (r - 1) * stride
           last   == offset + stride * (height - 1) + row
<1>1. CASE ~(sample.width > 1 /\ height > 1 /\ stride >= row)
  BY <1>1 DEF FrameIsExact, Frame
<1>2. CASE sample.width > 1 /\ height > 1 /\ stride >= row
  <2>1. /\ Len(data) \in Nat /\ DOMAIN data = 1..Len(data) /\ row \in Nat /\ row >= 6
        /\ offset \in Int /\ stride \in Int /\ height \in Int /\ stride >= 0
    BY <1>2
  <2>2. \A r \in rows : /\ (r - 1) * stride \in Int /\ 0 <= (r - 1) * stride
                        /\ (r - 1) * stride <= stride * (height - 1)
    <3> SUFFICES ASSUME NEW r \in rows
                 PROVE  /\ (r - 1) * stride \in Int /\ 0 <= (r - 1) * stride
                        /\ (r - 1) * stride <= stride * (height - 1)
      OBVIOUS
    <3>1. 0 <= r - 1 /\ r - 1 <= height - 1 /\ r - 1 \in Int /\ height - 1 \in Int /\ 0 \in Int
      BY <2>1
    <3>2. (r - 1) * stride \in Int /\ 0 * stride <= (r - 1) * stride
          /\ (r - 1) * stride <= (height - 1) * stride
      BY <2>1, <3>1, RowsAscend
    <3>3. 0 * stride = 0 /\ (height - 1) * stride = stride * (height - 1)
      BY <2>1
    <3> QED BY <3>2, <3>3
  <2> HIDE DEF data, offset, stride, height, row
  <2>3. /\ stride * (height - 1) \in Int /\ stride * height = stride * (height - 1) + stride
        /\ stride * height \in Int /\ last \in Int
    <3>1. stride * (height - 1) \in Int /\ stride * height = stride * (height - 1) + stride
      BY <2>1
    <3> QED BY <2>1, <3>1
  <2>4. (\A r \in rows, b \in cols : at(r) + b \in DOMAIN data) <=> offset >= 0 /\ last <= Len(data)
    <3>1. ASSUME \A r \in rows, b \in cols : at(r) + b \in DOMAIN data
          PROVE  offset >= 0 /\ last <= Len(data)
      <4>1. 1 \in rows /\ 1 \in cols /\ height \in rows /\ row \in cols
        BY <1>2, <2>1
      <4>2. at(1) + 1 \in DOMAIN data /\ at(height) + row \in DOMAIN data
        BY <3>1, <4>1
      <4>3. at(1) = offset /\ at(height) + row = last
        BY <2>1, <2>3
      <4> QED BY <2>1, <2>3, <4>2, <4>3
    <3>2. ASSUME offset >= 0, last <= Len(data), NEW r \in rows, NEW b \in cols
          PROVE  at(r) + b \in DOMAIN data
      BY <2>1, <2>2, <2>3, <3>2
    <3> QED BY <3>1, <3>2
  <2>5. /\ offset >= 0 /\ last <= Len(data)
             /\ Frame(sample) = [r \in rows |-> [b \in cols |-> data[at(r) + b]]]
           => FrameIsExact(sample)
        /\ ~(offset >= 0 /\ last <= Len(data)) /\ Frame(sample) = Unusable
           => FrameIsExact(sample)
    BY <1>2, <2>4 DEF FrameIsExact, ByteAt, data, offset, stride, height, row
  <2>6. Frame(sample) = IF offset < 0 THEN Unusable
                        ELSE CopyRgb(data, offset, stride, sample.width, height)
    <3>1. ~(sample.width <= 1) /\ ~(height <= 1) /\ ~(stride < row)
      BY <1>2, <2>1 DEF height, stride, row
    <3> QED BY <3>1 DEF Frame, data, offset, stride, height, row
  <2>7. CASE offset < 0
    BY <2>1, <2>5, <2>6, <2>7
  <2>8. CASE offset >= 0 /\ last > Len(data)
    <3>1. Len(data) < last /\ ~(Len(data) >= offset + stride * height)
      BY <1>2, <2>1, <2>3, <2>8
    <3>2. CopyRgb(data, offset, stride, sample.width, height) = Unusable
      BY <3>1 DEF CopyRgb, row
    <3> QED BY <2>1, <2>3, <2>5, <2>6, <2>8, <3>2
  <2>9. CASE offset >= 0 /\ last <= Len(data)
    <3>1. \A r \in rows : /\ at(r) \in Nat /\ at(r) + row <= Len(data)
                          /\ (r - 1) * stride \in Nat /\ (r - 1) * stride + row <= stride * height
      BY <1>2, <2>1, <2>2, <2>3, <2>9
    <3>2. data \in Seq(S)
      BY DEF data
    <3>3. CASE Len(data) >= offset + stride * height
      <4> DEFINE block == Bytes(data, offset, offset + stride * height)
      <4>1. offset \in Nat /\ stride * height \in Nat
        BY <1>2, <2>1, <2>2, <2>3, <2>9
      <4> DEFINE end == offset + stride * height
      <4>2. end \in Nat /\ offset <= end /\ end <= Len(data) /\ end - offset = stride * height
        BY <2>1, <3>3, <4>1
      <4> HIDE DEF end
      <4>3. /\ Bytes(data, offset, end) = [b \in 1..(stride * height) |-> data[offset + b]]
            /\ Bytes(data, offset, end) \in Seq(S)
            /\ Len(Bytes(data, offset, end)) = stride * height
        <5>1. /\ Bytes(data, offset, end) = [b \in 1..(end - offset) |-> data[offset + b]]
              /\ Bytes(data, offset, end) \in Seq(S)
              /\ Len(Bytes(data, offset, end)) = end - offset
          BY <3>2, <4>1, <4>2, BytesAre
        <5> QED BY <4>2, <5>1
      <4>4. /\ block = [b \in 1..(stride * height) |-> data[offset + b]]
            /\ block \in Seq(S) /\ Len(block) = stride * height
        BY <4>3 DEF end
      <4> HIDE DEF block
      <4>5. ASSUME NEW r \in rows
            PROVE  Bytes(block, (r - 1) * stride, (r - 1) * stride + row)
                     = [b \in cols |-> data[at(r) + b]]
        <5> DEFINE x == (r - 1) * stride
        <5>1. x \in Nat /\ x + row <= stride * height /\ at(r) = offset + x
          BY <3>1
        <5> HIDE DEF x
        <5>2. /\ x + row \in Nat /\ x <= x + row /\ x + row <= Len(block)
              /\ (x + row) - x = row
          BY <2>1, <4>4, <5>1
        <5> DEFINE to == x + row
        <5>3. block \in Seq(S) /\ to \in Nat /\ x <= to /\ to <= Len(block) /\ to - x = row
          BY <4>4, <5>2
        <5> HIDE DEF to
        <5>4. /\ Bytes(block, x, to) = [b \in 1..(to - x) |-> block[x + b]]
              /\ Bytes(block, x, to) \in Seq(S) /\ Len(Bytes(block, x, to)) = to - x
          BY <5>1, <5>3, BytesAre
        <5>5. Bytes(block, x, x + row) = [b \in cols |-> block[x + b]]
          BY <5>3, <5>4 DEF to
        <5>6. ASSUME NEW b \in cols
              PROVE  block[x + b] = data[at(r) + b]
          <6> DEFINE k == x + b
          <6>1. k \in 1..(stride * height) /\ offset + k = at(r) + b
            BY <2>1, <4>4, <5>1, <5>2
          <6> HIDE DEF k
          <6>2. block[k] = data[at(r) + b]
            BY <4>4, <6>1
          <6> QED BY <6>2 DEF k
        <5>7. Bytes(block, x, x + row) = [b \in cols |-> data[at(r) + b]]
          BY <5>5, <5>6
        <5> QED BY <5>7 DEF x
      <4>6. CopyRgb(data, offset, stride, sample.width, height)
              = [r \in rows |-> Bytes(block, (r - 1) * stride, (r - 1) * stride + row)]
        BY <3>3 DEF CopyRgb, row, block
      <4>7. CopyRgb(data, offset, stride, sample.width, height)
              = [r \in rows |-> [b \in cols |-> data[at(r) + b]]]
        BY <4>5, <4>6
      <4> QED BY <2>1, <2>5, <2>6, <2>9, <4>7
    <3>4. CASE ~(Len(data) >= offset + stride * height)
      <4>1. ASSUME NEW r \in rows
            PROVE  Bytes(data, at(r), at(r) + row) = [b \in cols |-> data[at(r) + b]]
        <5> DEFINE x == at(r)
        <5>1. x \in Nat /\ x + row \in Nat /\ x <= x + row /\ x + row <= Len(data)
              /\ (x + row) - x = row
          BY <2>1, <3>1
        <5> DEFINE end == x + row
        <5>2. end \in Nat /\ x <= end /\ end <= Len(data) /\ end - x = row
          BY <5>1
        <5> HIDE DEF x, end
        <5>3. /\ Bytes(data, x, end) = [b \in 1..(end - x) |-> data[x + b]]
              /\ Bytes(data, x, end) \in Seq(S) /\ Len(Bytes(data, x, end)) = end - x
          BY <3>2, <5>1, <5>2, BytesAre
        <5>4. Bytes(data, x, end) = [b \in cols |-> data[x + b]]
          BY <5>2, <5>3
        <5> QED BY <5>4 DEF x, end
      <4>2. ~(Len(data) < last)
        BY <2>1, <2>3, <2>9
      <4>3. CopyRgb(data, offset, stride, sample.width, height)
              = [r \in rows |-> Bytes(data, at(r), at(r) + row)]
        BY <3>4, <4>2 DEF CopyRgb, row
      <4>4. CopyRgb(data, offset, stride, sample.width, height)
              = [r \in rows |-> [b \in cols |-> data[at(r) + b]]]
        BY <4>1, <4>3
      <4> QED BY <2>1, <2>5, <2>6, <2>9, <4>4
    <3> QED BY <3>3, <3>4
  <2> QED BY <2>1, <2>3, <2>7, <2>8, <2>9
<1> QED BY <1>1, <1>2

\* A detection that is handed on lies in the image and has an area, for any
\* box, threshold and size of the image.
LEMMA DetectionsAreValid ==
  ASSUME NEW found, NEW threshold, NEW enabled, NEW width \in Nat, NEW height \in Nat,
         found.box.x1 \in Int, found.box.x2 \in Int, found.box.y1 \in Int, found.box.y2 \in Int
  PROVE  DetectionIsValid(found, threshold, enabled, width, height)
<1> DEFINE box == Clamped(found.box, width, height)
<1>1. \A v \in Int, limit \in Nat : Clamp(v, limit) \in 0..limit
  BY DEF Clamp
<1>2. /\ box = [x1 |-> box.x1, y1 |-> box.y1, x2 |-> box.x2, y2 |-> box.y2]
      /\ box.x1 \in 0..width /\ box.x2 \in 0..width
      /\ box.y1 \in 0..height /\ box.y2 \in 0..height
  BY <1>1 DEF Clamped
<1> HIDE DEF box
<1>3. ASSUME HasArea(box)
      PROVE  box \in [x1 : 0..(width - 1), x2 : 1..width, y1 : 0..(height - 1), y2 : 1..height]
  <2>1. /\ box.x1 \in 0..(width - 1) /\ box.x2 \in 1..width
        /\ box.y1 \in 0..(height - 1) /\ box.y2 \in 1..height
    BY <1>2, <1>3 DEF HasArea
  <2> QED BY <1>2, <2>1
<1> QED BY <1>3 DEF DetectionIsValid, Accepted, box

\* The tracks of a frame that is trusted have ids of their own.
LEMMA TracksHaveTheirIds ==
  ASSUME NEW n \in Nat, NEW rows, DOMAIN rows = 1..n, \A i \in DOMAIN rows : rows[i].id \in Int
  PROVE  TracksAreDistinct(rows)
<1> SUFFICES ASSUME ~CannotBeTrusted(rows), NEW i \in Tracked(rows), NEW j \in Tracked(rows)
             PROVE  rows[i].id >= 0 /\ (rows[i].id = rows[j].id => i = j)
  BY DEF TracksAreDistinct
<1>1. /\ i \in 1..n /\ rows[i].id >= 0
      /\ j \in 1..n /\ rows[j].id >= 0
  BY DEF Tracked
<1>2. /\ \A k \in 1..(i - 1) : rows[k].id # rows[i].id
      /\ \A k \in 1..(j - 1) : rows[k].id # rows[j].id
  BY <1>1 DEF CannotBeTrusted
<1>3. i < j \/ j < i \/ i = j
  BY <1>1
<1>4. (i < j => i \in 1..(j - 1)) /\ (j < i => j \in 1..(i - 1))
  BY <1>1
<1> QED BY <1>1, <1>2, <1>3, <1>4

\* The small samples, boxes and rows that are evaluated are among these.
THEOREM AnalysisHolds == Spec => []AnalysisIsSound
<1>1. ASSUME NEW sample \in Samples
      PROVE  FrameIsExact(sample)
  <2>1. PICK n \in 0..22 :
          sample \in [data : {[i \in 1..n |-> i]}, offset : -1..1, stride : 5..7,
                     width : 1..2, height : 1..3]
    BY DEF Samples
  <2>2. /\ sample.offset \in Int /\ sample.stride \in Int /\ sample.width \in Int
        /\ sample.height \in Int /\ sample.data = [i \in 1..n |-> i]
    BY <2>1
  <2>3. sample.data \in Seq(Int)
    BY <2>2
  <2> QED BY <2>2, <2>3, FramesAreExact
<1>2. ASSUME NEW class, NEW score, NEW box \in Boxes, NEW enabled
      PROVE  DetectionIsValid([class |-> class, score |-> score, box |-> box], 1, enabled, 2, 2)
  <2>1. box.x1 \in Int /\ box.x2 \in Int /\ box.y1 \in Int /\ box.y2 \in Int
    BY DEF Boxes, Coordinates, NotFinite
  <2> QED BY <2>1, DetectionsAreValid
<1>3. ASSUME NEW rows \in Rows
      PROVE  TracksAreDistinct(rows)
  <2>1. PICK n \in 0..3 : rows \in [1..n -> [id : -1..1, known : BOOLEAN, area : BOOLEAN]]
    BY DEF Rows
  <2>2. DOMAIN rows = 1..n /\ n \in Nat /\ \A i \in DOMAIN rows : rows[i].id \in Int
    BY <2>1
  <2> QED BY <2>2, TracksHaveTheirIds
<1>4. AnalysisIsSound
  BY <1>1, <1>2, <1>3 DEF AnalysisIsSound, ObjectsAndFramesAreSound
<1> QED BY <1>4, PTL
=============================================================================
