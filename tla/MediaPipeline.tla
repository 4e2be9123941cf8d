---------------------------- MODULE MediaPipeline ----------------------------
(***************************************************************************)
(* The thread of one camera: attempt after attempt it builds a GStreamer   *)
(* pipeline, pulls frames from it, has them analysed, and takes it down.   *)
(*                                                                         *)
(* Streaming threads of GStreamer announce the pads of the source and link *)
(* them, and each of their callbacks takes its lock several times.  The    *)
(* detector is shared with the other cameras, which may keep it for good.  *)
(***************************************************************************)
EXTENDS FrameAnalysis, FiniteSets

CONSTANTS
  H264Pads, OtherPads, SilentPads   (* H.264, other video, and no video    *)

Pads == H264Pads \cup OtherPads \cup SilentPads

ASSUME PadsAreDisjoint ==
  /\ H264Pads \cap OtherPads = {} /\ H264Pads \cap SilentPads = {}
  /\ OtherPads \cap SilentPads = {}

VARIABLES
  (* the worker *)
  pc, state, error, verdict, stop,
  overdue,    (* the deadline for the next valid frame has passed          *)
  fatal, failed,   (* what this iteration has found: codec_error, bus_error *)
  (* the pipeline of this attempt *)
  callback,   (* how far the callback of each pad is                       *)
  wired,      (* the depayloader has its peer                              *)
  seen, linked, unsupported, linkError,
  bus,        (* the first terminating message                             *)
  closing,
  (* shared with the other workers *)
  detector, loaded

worker   == <<pc, state, error, verdict, stop, overdue, fatal, failed>>
pipeline == <<callback, wired, seen, linked, unsupported, linkError, bus, closing>>
shared   == <<detector, loaded>>
vars     == <<worker, pipeline, shared>>

Places == {"begin", "build", "pump", "process", "detect", "infer", "teardown", "null", "after",
           "backoff", "ended"}
None   == "none"

(* Errors of the source are retried, fatal ones end the worker.            *)
Retried == {"pipeline_build_failed", "pipeline_play_refused", "source_error", "source_eos",
            "source_stall", "pad_link_failed"}
Fatal   == {"internal_invariant", "unsupported_codec", "model_unavailable", "detector_failed",
            "tracker_invariant", "tracker_state_overflow", "event_persistence_failed"}

Playing == pc \in {"pump", "process", "detect", "infer", "teardown", "null"}
InCallback(p) == callback[p] \notin {None, "done"}

-----------------------------------------------------------------------------
(* The streaming threads                                                   *)

At(p, here, next) == callback[p] = here /\ callback' = [callback EXCEPT ![p] = next]

(* pad-added: nothing is done any more once the pipeline is closing.       *)
PadAdded(p) ==
  /\ Playing /\ ~closing
  /\ At(p, None, "inspect")
  /\ UNCHANGED <<worker, wired, seen, linked, unsupported, linkError, bus, closing, shared>>

(* Mutant: stop holds the lock while it waits for the streaming threads.    *)
InspectWaitsForStop(p) ==
  /\ pc # "null"
  /\ At(p, "inspect", IF p \notin H264Pads \/ linked THEN "done" ELSE "check")
  /\ seen' = (seen \/ p \notin SilentPads)
  /\ unsupported' = (unsupported \/ p \in OtherPads)
  /\ UNCHANGED <<worker, wired, linked, linkError, bus, closing, shared>>

Inspect(p) ==
  /\ At(p, "inspect", IF p \notin H264Pads \/ linked THEN "done" ELSE "check")
  /\ seen' = (seen \/ p \notin SilentPads)
  /\ unsupported' = (unsupported \/ p \in OtherPads)
  /\ UNCHANGED <<worker, wired, linked, linkError, bus, closing, shared>>

(* sink_pad.is_linked, and then the link itself.                           *)
CheckSink(p) ==
  /\ At(p, "check", IF wired THEN "done" ELSE "link")
  /\ UNCHANGED <<worker, wired, seen, linked, unsupported, linkError, bus, closing, shared>>

Link(p) ==
  /\ \/ ~wired /\ wired' = TRUE /\ At(p, "link", "linked")
     \/ UNCHANGED wired /\ At(p, "link", "failed")
  /\ UNCHANGED <<worker, seen, linked, unsupported, linkError, bus, closing, shared>>

RecordLink(p) ==
  /\ \/ At(p, "linked", "done") /\ linked' = TRUE /\ UNCHANGED linkError
     \/ At(p, "failed", "done") /\ linkError' = TRUE /\ UNCHANGED linked
  /\ UNCHANGED <<worker, wired, seen, unsupported, bus, closing, shared>>

Callbacks(p) == Inspect(p) \/ CheckSink(p) \/ Link(p) \/ RecordLink(p)

(* The source fails or ends.                                               *)
Message(m) ==
  /\ pc \in {"pump", "process", "detect", "infer"}
  /\ bus = None /\ bus' = m
  /\ UNCHANGED <<worker, callback, wired, seen, linked, unsupported, linkError, closing, shared>>

-----------------------------------------------------------------------------
(* The worker                                                              *)

Goes(place) == pc' = place
KeepsRuntime == UNCHANGED <<state, error>>
KeepsFindings == UNCHANGED <<fatal, failed>>
ForgetsFindings == fatal' = FALSE /\ failed' = None

(* A new pipeline is built for each attempt.                               *)
NoPipeline ==
  /\ bus' = None /\ wired' = FALSE /\ seen' = FALSE /\ linked' = FALSE
  /\ unsupported' = FALSE /\ linkError' = FALSE /\ closing' = FALSE

(* Why the attempt ends.                                                   *)
EndsWith(code, place) == verdict' = code /\ Goes(place)

(* The thread ends: DISABLED without an error, or ERROR.                   *)
Ends(code) ==
  /\ Goes("ended")
  /\ IF code \in Fatal
     THEN state' = "error" /\ error' = code
     ELSE state' = "disabled" /\ error' = None

BeginAttempt ==
  /\ pc = "begin"
  /\ IF stop
     THEN Ends("stopped") /\ UNCHANGED callback
     ELSE Goes("build") /\ KeepsRuntime /\ callback' = [p \in Pads |-> None]
  /\ KeepsFindings
  /\ UNCHANGED <<verdict, stop, overdue, wired, seen, linked, unsupported, linkError, bus,
                 closing, shared>>

(* A required element is missing, which is fatal, or another exception.    *)
BuildFails ==
  /\ pc = "build"
  /\ \E code \in {"internal_invariant", "pipeline_build_failed"} : EndsWith(code, "after")
  /\ KeepsRuntime /\ KeepsFindings
  /\ UNCHANGED <<stop, overdue, pipeline, shared>>

(* Built; PLAYING is refused, or the source is connected to.               *)
Play ==
  /\ pc = "build"
  /\ \/ EndsWith("pipeline_play_refused", "teardown")
     \/ Goes("pump") /\ UNCHANGED verdict
  /\ KeepsRuntime /\ KeepsFindings
  /\ UNCHANGED <<stop, overdue, pipeline, shared>>

StopSeen ==
  /\ stop
  /\ pc \in {"pump", "process"}
  /\ EndsWith("stopped", "teardown")
  /\ KeepsRuntime /\ ForgetsFindings
  /\ UNCHANGED <<stop, overdue, pipeline, shared>>

(* Mutant: video that is not linked is taken for another codec.            *)
NotLinkedYet == seen /\ ~linked

Unsupported == seen /\ unsupported /\ ~linked

NotLinked   == linkError /\ ~linked

(* What comes after the frame in an iteration: a fatal error of the codec, *)
(* the message of the bus, another error of the pads.                      *)
Judge(isFatal, code) ==
  IF isFatal THEN EndsWith("unsupported_codec", "teardown")
  ELSE IF code # None THEN EndsWith(code, "teardown")
  ELSE Goes("pump") /\ UNCHANGED verdict

Found == IF bus # None THEN bus ELSE IF NotLinked /\ ~Unsupported THEN "pad_link_failed" ELSE None

(* Mutant: any sample moves the deadline.                                  *)
UnusableCounts ==
  /\ pc = "pump" /\ ~stop
  /\ \/ wired /\ overdue' = FALSE /\ Judge(Unsupported, Found)
     \/ /\ UNCHANGED overdue
        /\ IF overdue
           THEN EndsWith("source_stall", "teardown")
           ELSE Judge(Unsupported, Found)
  /\ bus' = None
  /\ KeepsRuntime /\ KeepsFindings
  /\ UNCHANGED <<stop, callback, wired, seen, linked, unsupported, linkError, closing, shared>>

(* Nothing came in time, or a sample that is no frame.                     *)
PullNothing ==
  /\ pc = "pump" /\ ~stop
  /\ IF overdue
     THEN EndsWith("source_stall", "teardown")
     ELSE Judge(Unsupported, Found)
  /\ bus' = None
  /\ KeepsRuntime /\ KeepsFindings
  /\ UNCHANGED <<stop, overdue, callback, wired, seen, linked, unsupported, linkError, closing,
                 shared>>

(* A frame, which only a linked pad delivers.                              *)
PullFrame ==
  /\ pc = "pump" /\ ~stop /\ wired
  /\ overdue' = FALSE
  /\ fatal' = Unsupported /\ failed' = Found /\ bus' = None
  /\ state' = "running" /\ error' = IF state = "running" THEN error ELSE None
  /\ Goes("process")
  /\ UNCHANGED <<verdict, stop, callback, wired, seen, linked, unsupported, linkError, closing,
                 shared>>

(* No stop is requested at this point.                                     *)
Process ==
  /\ pc = "process" /\ ~stop
  /\ Goes("detect")
  /\ KeepsRuntime /\ KeepsFindings
  /\ UNCHANGED <<verdict, stop, overdue, pipeline, shared>>

(* The frame is not due, there is no line, or another camera has the       *)
(* detector.                                                               *)
Skip ==
  /\ pc = "detect"
  /\ Judge(fatal, failed)
  /\ KeepsRuntime /\ ForgetsFindings
  /\ UNCHANGED <<stop, overdue, pipeline, shared>>

ModelIsGone ==
  /\ pc = "detect" /\ ~loaded
  /\ EndsWith("model_unavailable", "teardown")
  /\ KeepsRuntime /\ ForgetsFindings
  /\ UNCHANGED <<stop, overdue, pipeline, shared>>

Detect ==
  /\ pc = "detect" /\ loaded
  /\ detector = "free" /\ detector' = "this"
  /\ Goes("infer")
  /\ KeepsRuntime /\ KeepsFindings
  /\ UNCHANGED <<verdict, stop, overdue, pipeline, loaded>>

(* The detector answers, and the tracks are observed and their crossings   *)
(* persisted; or one of these fails; or a stop is seen between two tries   *)
(* to persist.                                                             *)
Analysed ==
  /\ pc = "infer"
  /\ detector' = "free"
  /\ \/ Judge(fatal, failed)
     \/ \E code \in {"detector_failed", "tracker_invariant", "tracker_state_overflow",
                     "event_persistence_failed"} : EndsWith(code, "teardown")
     \/ stop /\ EndsWith("stopped", "teardown")
  /\ KeepsRuntime /\ ForgetsFindings
  /\ UNCHANGED <<stop, overdue, pipeline, loaded>>

(* pipeline.stop: set under the lock, which is not held any longer when    *)
(* the pipeline is set to NULL.                                            *)
Close ==
  /\ pc = "teardown"
  /\ closing' = TRUE
  /\ Goes("null")
  /\ KeepsRuntime /\ KeepsFindings
  /\ UNCHANGED <<verdict, stop, overdue, callback, wired, seen, linked, unsupported, linkError,
                 bus, shared>>

(* GStreamer waits for its streaming threads.                              *)
Null ==
  /\ pc = "null"
  /\ \A p \in Pads : ~InCallback(p)
  /\ Goes("after")
  /\ KeepsRuntime /\ KeepsFindings
  /\ NoPipeline /\ overdue' = FALSE
  /\ UNCHANGED <<verdict, stop, callback, shared>>

(* Mutant: RECONNECTING is published after the delay.                      *)
ReconnectsQuietly ==
  /\ pc = "after"
  /\ IF verdict \in Retried
     THEN Goes("backoff") /\ KeepsRuntime
     ELSE Ends(verdict)
  /\ KeepsFindings
  /\ verdict' = None
  /\ UNCHANGED <<stop, overdue, pipeline, shared>>

AfterAttempt ==
  /\ pc = "after"
  /\ IF verdict \in Retried
     THEN Goes("backoff") /\ state' = "reconnecting" /\ error' = verdict
     ELSE Ends(verdict)
  /\ KeepsFindings
  /\ verdict' = None
  /\ UNCHANGED <<stop, overdue, pipeline, shared>>

(* The delay is over, or it is cut short by a stop.                        *)
Backoff ==
  /\ pc = "backoff"
  /\ \/ stop /\ Ends("stopped")
     \/ Goes("begin") /\ KeepsRuntime
  /\ KeepsFindings
  /\ UNCHANGED <<verdict, stop, overdue, pipeline, shared>>

Steps ==
  \/ BeginAttempt \/ BuildFails \/ Play
  \/ StopSeen \/ PullNothing \/ PullFrame \/ Process \/ Skip \/ ModelIsGone \/ Detect \/ Analysed
  \/ Close \/ Null \/ AfterAttempt \/ Backoff

-----------------------------------------------------------------------------
(* Everybody else                                                          *)

DeadlinePasses ==
  /\ pc \in {"pump", "process", "detect", "infer"} /\ ~overdue /\ overdue' = TRUE
  /\ UNCHANGED <<pc, state, error, verdict, stop, fatal, failed, pipeline, shared>>

RequestStop ==
  /\ ~stop /\ stop' = TRUE
  /\ UNCHANGED <<pc, state, error, verdict, overdue, fatal, failed, pipeline, shared>>

OthersDetect ==
  /\ \/ loaded /\ detector = "free" /\ detector' = "other"
     \/ detector = "other" /\ detector' = "free"
  /\ UNCHANGED <<worker, pipeline, loaded>>

(* At shutdown, after every worker was asked to stop.                      *)
ReleaseModel ==
  /\ stop /\ loaded /\ loaded' = FALSE
  /\ UNCHANGED <<worker, pipeline, detector>>

Init ==
  /\ pc = "begin" /\ state = "starting" /\ error = None /\ verdict = None /\ stop = FALSE
  /\ overdue = FALSE /\ fatal = FALSE /\ failed = None
  /\ callback = [p \in Pads |-> None]
  /\ wired = FALSE /\ seen = FALSE /\ linked = FALSE
  /\ unsupported = FALSE /\ linkError = FALSE /\ bus = None /\ closing = FALSE
  /\ detector = "free" /\ loaded = TRUE

Next ==
  \/ Steps
  \/ \E p \in Pads : PadAdded(p) \/ Callbacks(p)
  \/ \E m \in {"source_error", "source_eos"} : Message(m)
  \/ DeadlinePasses \/ RequestStop \/ OthersDetect \/ ReleaseModel

(* The thread and the callbacks are scheduled, a build, an inference and a *)
(* commit come to an end, and time passes.  Nothing is assumed of the      *)
(* source and of the other cameras.                                        *)
Spec ==
  /\ Init /\ [][Next]_vars
  /\ WF_vars(Steps) /\ WF_vars(DeadlinePasses)
  /\ \A p \in Pads : WF_vars(Callbacks(p))
-----------------------------------------------------------------------------
TypeOK ==
  /\ pc \in Places
  /\ state \in {"starting", "running", "reconnecting", "error", "disabled"}
  /\ error \in Retried \cup Fatal \cup {None}
  /\ verdict \in Retried \cup Fatal \cup {"stopped", None}
  /\ {stop, overdue, fatal, wired, seen, linked, unsupported, linkError, closing, loaded}
       \subseteq BOOLEAN
  /\ failed \in {"source_error", "source_eos", "pad_link_failed", None}
  /\ callback \in [Pads -> {None, "inspect", "check", "link", "linked", "failed", "done"}]
  /\ bus \in {"source_error", "source_eos", None}
  /\ detector \in {"free", "this", "other"}

(* A camera is given up only for a reason that a retry cannot mend: for    *)
(* its codec only if this source announced video that is not H.264, for    *)
(* the missing model only while the service shuts down.                    *)
GivenUpForCause ==
  state = "error" =>
    /\ pc = "ended" /\ error \in Fatal
    /\ error = "unsupported_codec" => \E p \in OtherPads : callback[p] # None
    /\ error = "model_unavailable" => stop

(* RUNNING means that frames of this very attempt can have come: its       *)
(* pipeline has a linked pad, and no earlier attempt lends its state.      *)
RunningHasVideo ==
  state = "running" /\ pc # "after" => wired

(* A worker that is asked to stop ends, whatever the source and the other  *)
(* cameras do: neither a pad callback nor an inference of another camera   *)
(* can hold it up.                                                         *)
StopIsObeyed == stop ~> pc = "ended"

(* A source that is connected but delivers no valid frame is given up: the *)
(* camera does not stay RUNNING.                                           *)
SilenceIsNoticed == ([]<><<PullFrame>>_vars) \/ <>[](state # "running")

(* The frames, detections and tracks of an attempt are what they should be.*)
AnalysisIsSound == state = "starting" => ObjectsAndFramesAreSound
=============================================================================
