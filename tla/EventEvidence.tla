---------------------------- MODULE EventEvidence ----------------------------
(***************************************************************************)
(* The evidence of one event, as a browser gets it: the recording that     *)
(* shows the crossing, or the image that was stored of it.  One request    *)
(* goes from semantic search to video analytics, which answers from its    *)
(* disk or asks the VMS, which asks MediaMTX's playback server, and the    *)
(* answer is judged again at every hop on its way back.                    *)
(*                                                                         *)
(* Meanwhile the camera may be disabled or deleted, its path may go, its   *)
(* recording grows and expires, an image disappears, and every hop may     *)
(* fail or answer nonsense.  The playback server and the transport are     *)
(* external.  Instants count half milliseconds: the services exchange      *)
(* ends rounded to a millisecond, and the playback server does not.        *)
(***************************************************************************)
EXTENDS Integers

CONSTANTS
  Day,        (* length of a UTC day, a whole number of milliseconds *)
  Horizon,    (* no recording ends later than this                   *)
  Crossings,  (* the instants, in milliseconds, of the event         *)
  MaxChanges  (* times the recording grows or expires meanwhile      *)

ASSUME TimeAssumption ==
  /\ Day \in Nat \ {0} /\ Day % 2 = 0 /\ Horizon \in Nat
  /\ Crossings \subseteq 0 .. Horizon /\ \A t \in Crossings : t % 2 = 0
  /\ MaxChanges \in Nat

VARIABLES
  kind,       (* what is asked for: "recording" or "image"                *)
  crossed,    (* crossed_at of the event                                  *)
  known,      (* the services that have a row of the event                *)
  row,        (* the camera in the VMS: enabled, disabled, deleted        *)
  configured, (* MediaMTX has the camera's path                           *)
  recorded,   (* the timespans on MediaMTX's disk                         *)
  directory,  (* the path has a recording directory                       *)
  file,       (* the event's image is on the analytics disk               *)
  pc,         (* where the request, or the answer to it, is               *)
  msg,        (* the answer on its way back                               *)
  seen,       (* what was recorded when the playback server answered: a   *)
              (* set of one set of timespans, or none                     *)
  smooth,     (* no hop has failed                                        *)
  changes     (* times the recording changed                              *)

world == <<row, configured, recorded, directory, file, changes>>
vars == <<kind, crossed, known, pc, msg, seen, smooth, world>>

Span == {s \in [start : 0 .. Horizon, end : 0 .. Horizon] : s.start < s.end}
Covers(s, t) == s.start <= t /\ t < s.end
Millisecond(t) == t - (t % 2)

Answer(status) == [status |-> status, items |-> {}]

-----------------------------------------------------------------------------
(* MediaMTX's playback server.  It lists what overlaps the window, cut at    *)
(* the window's ends.                                                        *)

Later(a, b) == IF a < b THEN b ELSE a
Earlier(a, b) == IF a < b THEN a ELSE b

Listed(from, until) ==
  {[start |-> Later(s.start, from),
    duration |-> Earlier(s.end, until) - Later(s.start, from)] :
      s \in {s \in recorded : s.start < until /\ from < s.end}}

\* An entry without a readable start, and one that lasts no time.
Unreadable == -1
Odd == {[start |-> Unreadable, duration |-> 1], [start |-> 0, duration |-> 0]}

\* start, end of the UTC day the VMS is asked for
parse_utc_day(t) == [from |-> (t \div Day) * Day, until |-> (t \div Day) * Day + Day]

\* What it answers of the path as it is now.
PlaybackAnswers ==
  LET w == parse_utc_day(crossed)
      items == Listed(w.from, w.until)
  IN  IF ~configured THEN Answer("400 not configured")
      ELSE IF ~directory THEN Answer("400 no such file or directory")
      ELSE IF items = {} THEN Answer("404")
      ELSE [status |-> "200", items |-> items]

Playback ==
  /\ pc = "playback" /\ pc' = "list_timespans"
  /\ msg' = PlaybackAnswers
  /\ seen' = IF configured THEN {recorded} ELSE {}
  /\ UNCHANGED <<kind, crossed, known, smooth, world>>

\* It lists an entry that cannot be used beside the others.
PlaybackIsOdd ==
  /\ pc = "playback" /\ pc' = "list_timespans"
  /\ PlaybackAnswers.status = "200"
  /\ \E o \in Odd : msg' = [status |-> "200", items |-> PlaybackAnswers.items \cup {o}]
  /\ seen' = {recorded} /\ smooth' = FALSE
  /\ UNCHANGED <<kind, crossed, known, world>>

\* It cannot be reached, fails, or answers what is not a list.
PlaybackFails ==
  /\ pc = "playback" /\ pc' = "list_timespans"
  /\ \E s \in {"unreachable", "500", "not a list"} : msg' = Answer(s)
  /\ smooth' = FALSE
  /\ UNCHANGED <<kind, crossed, known, seen, world>>

-----------------------------------------------------------------------------
(* The VMS: RecordingManager.list_recordings, MediaMTXPlaybackClient         *)

\* The row is read before the await; the path is asked for after it.
_require ==
  /\ pc = "vms"
  /\ \/ /\ row = "enabled" /\ pc' = "playback" /\ UNCHANGED msg
     \/ /\ row = "disabled" /\ pc' = "lookup" /\ msg' = Answer("409")
     \/ /\ row = "deleted" /\ pc' = "lookup" /\ msg' = Answer("404")
  /\ UNCHANGED <<kind, crossed, known, seen, smooth, world>>

\* Mutant: any 400 is taken for an empty history.
AnyRefusalIsEmpty(status) ==
  status \in {"404", "400 no such file or directory", "400 not configured"}

\* Is this answer an empty history rather than a failure?
_means_nothing_recorded_yet(status) ==
  status \in {"404", "400 no such file or directory"}

\* An item of the answer, its end rounded down to the millisecond.
RecordingItem(i) ==
  [start |-> i.start, end |-> Millisecond(i.start + i.duration),
   duration |-> i.duration]

list_timespans ==
  /\ pc = "list_timespans" /\ pc' = "lookup"
  /\ msg' =
       IF _means_nothing_recorded_yet(msg.status) THEN Answer("200")
       ELSE IF msg.status = "200"
       THEN [status |-> "200",
             items |-> {RecordingItem(i) : i \in {i \in msg.items : i.start # Unreadable}}]
       ELSE Answer("503")
  /\ UNCHANGED <<kind, crossed, known, seen, smooth, world>>

-----------------------------------------------------------------------------
(* Video analytics: EventService and VMSRecordingClient.lookup               *)

get_event ==
  /\ pc = "analytics"
  /\ \/ /\ "analytics" \notin known /\ pc' = "reply" /\ msg' = Answer("404")
     \/ /\ "analytics" \in known /\ UNCHANGED msg
        /\ pc' = IF kind = "recording" THEN "vms" ELSE "resolve_image"
  /\ UNCHANGED <<kind, crossed, known, seen, smooth, world>>

\* The span an item stands for: its end is computed anew, and the end that
\* came with it may differ by a millisecond.
Computed(i) == [start |-> i.start, end |-> i.start + i.duration]

\* Mutant: the two ends have to be equal.
EndsDiffer(i) == i.duration <= 0 \/ i.start + i.duration # i.end

Malformed(i) == i.duration <= 0 \/ i.start + i.duration - i.end > 2

\* Mutant: an item that starts before the crossing is taken to contain it.
StartedBefore(items, t) == {i \in items : i.start <= t}

\* start_time <= crossed_at < end_time
Containing(items, t) == {i \in items : Covers(Computed(i), t)}

\* The last one by its start; among equals either may have the greater id.
Chosen(items) == {i \in items : \A j \in items : j.start <= i.start}

lookup ==
  /\ pc = "lookup" /\ pc' = "reply"
  /\ LET found == Containing(msg.items, crossed)
     IN  \/ /\ msg.status = "200" /\ ~\E i \in msg.items : Malformed(i)
            /\ found = {} /\ msg' = Answer("NOT_FOUND")
         \/ /\ msg.status = "200" /\ ~\E i \in msg.items : Malformed(i)
            /\ \E i \in Chosen(found) :
                 msg' = [status |-> "AVAILABLE", items |-> {Computed(i)}]
         \/ /\ msg.status # "200" \/ \E i \in msg.items : Malformed(i)
            /\ msg' = Answer("UNAVAILABLE")
  /\ UNCHANGED <<kind, crossed, known, seen, smooth, world>>

\* A timeout, a transport error, another camera's list, a list without its
\* shape, or a playback URL that must not reach a browser: all UNAVAILABLE.
VmsFails ==
  /\ pc \in {"vms", "playback", "list_timespans", "lookup"} /\ pc' = "reply"
  /\ msg' = Answer("UNAVAILABLE") /\ smooth' = FALSE
  /\ UNCHANGED <<kind, crossed, known, seen, world>>

\* _image: the path of a file that is there, or 410
resolve_image ==
  /\ pc = "resolve_image"
  /\ \/ file /\ pc' = "FileResponse" /\ UNCHANGED msg
     \/ ~file /\ pc' = "reply" /\ msg' = Answer("410")
  /\ UNCHANGED <<kind, crossed, known, seen, smooth, world>>

\* The file is opened only now, and may have gone.
FileResponse ==
  /\ pc = "FileResponse" /\ pc' = "reply"
  /\ msg' = Answer(IF file THEN "whole" ELSE "500")
  /\ UNCHANGED <<kind, crossed, known, seen, smooth, world>>

-----------------------------------------------------------------------------
(* Semantic search: api/events.py and Component4Client                       *)

_local_event ==
  /\ pc = "asked"
  /\ \/ "semantic" \in known /\ pc' = "analytics" /\ UNCHANGED msg
     \/ "semantic" \notin known /\ pc' = "done" /\ msg' = Answer("unknown event")
  /\ UNCHANGED <<kind, crossed, known, seen, smooth, world>>

\* As the client passes a recording on: both ends in milliseconds.
fetch_recording(s) == [start |-> Millisecond(s.start), end |-> Millisecond(s.end)]

get_recording ==
  /\ pc = "reply" /\ kind = "recording" /\ pc' = "done"
  /\ msg' = IF msg.status = "AVAILABLE"
            THEN [status |-> "AVAILABLE", items |-> {fetch_recording(s) : s \in msg.items}]
            ELSE IF msg.status = "NOT_FOUND" THEN msg
            ELSE Answer("UNAVAILABLE")
  /\ UNCHANGED <<kind, crossed, known, seen, smooth, world>>

\* What each answer for an image becomes.
fetch_artifact(status) ==
  CASE status = "whole" -> "image"
    [] status = "410"   -> "gone"
    [] status = "404"   -> "unknown event"
    [] OTHER            -> "failed"

_proxy ==
  /\ pc = "reply" /\ kind = "image" /\ pc' = "done"
  /\ msg' = Answer(fetch_artifact(msg.status))
  /\ UNCHANGED <<kind, crossed, known, seen, smooth, world>>

\* Analytics is late, unreachable, or answers with a status, a shape or bytes
\* that are refused; the rest of the work it may be doing changes nothing.
\* A body that breaks off raises past the client's exceptions: a 500.
AnalyticsFails ==
  /\ pc \notin {"asked", "done"} /\ pc' = "done" /\ smooth' = FALSE
  /\ msg' = Answer(IF kind = "recording" THEN "UNAVAILABLE" ELSE "failed")
  /\ UNCHANGED <<kind, crossed, known, seen, world>>

BodyBreaksOff ==
  /\ pc = "reply" /\ kind = "image" /\ msg.status = "whole"
  /\ pc' = "done" /\ smooth' = FALSE /\ msg' = Answer("internal error")
  /\ UNCHANGED <<kind, crossed, known, seen, world>>

-----------------------------------------------------------------------------
(* What changes under the request: the user's requests to the VMS, its       *)
(* updates of the path, the recorder, the retention, the disk.               *)

\* Until the playback server has answered; nothing later reads it.
InFlight == pc \in {"asked", "analytics", "vms", "playback"} /\ kind = "recording"

CameraChanges ==
  /\ InFlight /\ row # "deleted"
  /\ row' \in {"enabled", "disabled", "deleted"} \ {row}
  /\ UNCHANGED <<kind, crossed, known, pc, msg, seen, smooth, configured,
                 recorded, directory, file, changes>>

PathChanges ==
  /\ InFlight /\ configured' = ~configured
  /\ UNCHANGED <<kind, crossed, known, pc, msg, seen, smooth, row, recorded,
                 directory, file, changes>>

Records ==
  /\ InFlight /\ configured /\ changes < MaxChanges
  /\ \E s \in Span :
       /\ \A r \in recorded : r.start # s.start => r.end <= s.start
       /\ \A r \in recorded : r.start = s.start => r.end < s.end
       /\ recorded' = {r \in recorded : r.start # s.start} \cup {s}
  /\ directory' = TRUE /\ changes' = changes + 1
  /\ UNCHANGED <<kind, crossed, known, pc, msg, seen, smooth, row, configured, file>>

Expires ==
  /\ InFlight /\ changes < MaxChanges
  /\ \E s \in recorded : recorded' = recorded \ {s}
  /\ changes' = changes + 1
  /\ UNCHANGED <<kind, crossed, known, pc, msg, seen, smooth, row, configured,
                 directory, file>>

ImageGoes ==
  /\ pc # "done" /\ kind = "image" /\ file /\ file' = FALSE
  /\ UNCHANGED <<kind, crossed, known, pc, msg, seen, smooth, row, configured,
                 recorded, directory, changes>>

-----------------------------------------------------------------------------
Init ==
  /\ kind \in {"recording", "image"} /\ crossed \in Crossings
  /\ known \in SUBSET {"semantic", "analytics"}
  /\ row \in {"enabled", "disabled", "deleted"} /\ configured \in BOOLEAN
  /\ recorded = {} \/ \E r, s \in Span : recorded = {r, s}
  /\ kind = "image" => recorded = {}   \* what the request does not look at
  /\ directory \in (IF recorded = {} THEN BOOLEAN ELSE {TRUE})
  /\ file \in (IF kind = "image" THEN BOOLEAN ELSE {TRUE})
  /\ pc = "asked" /\ msg = Answer("") /\ seen = {}
  /\ smooth = TRUE /\ changes = 0

Next ==
  \/ _local_event \/ get_event \/ _require
  \/ Playback \/ PlaybackIsOdd \/ PlaybackFails
  \/ list_timespans \/ lookup \/ VmsFails \/ get_recording
  \/ resolve_image \/ FileResponse \/ _proxy \/ AnalyticsFails \/ BodyBreaksOff
  \/ CameraChanges \/ PathChanges \/ Records \/ Expires \/ ImageGoes

Spec == Init /\ [][Next]_vars

-----------------------------------------------------------------------------
Done(status) == pc = "done" /\ msg.status = status

(* A recording offered for an event is one the playback server had, and it   *)
(* contains the crossing, also as rounded on the way: lookup's containment   *)
(* over three roundings and a day window.                                    *)
AvailableCovers ==
  Done("AVAILABLE") =>
    /\ seen # {}
    /\ \A i \in msg.items :
         /\ i.start <= crossed /\ crossed <= i.end
         /\ \E s \in UNION seen : Covers(s, crossed) /\ s.start <= i.start + 1 /\ i.end <= s.end

(* Evidence is said not to exist only when that is so: NOT_FOUND when the    *)
(* playback server answered and had nothing of the crossing, gone when the   *)
(* image is missing, unknown when a service has no row.  A failure of any    *)
(* hop, a disabled camera or a missing path is never taken for it.           *)
AbsenceIsTrue ==
  /\ Done("NOT_FOUND") =>
       /\ seen # {}
       /\ \A s \in UNION seen : ~Covers(s, crossed)
  /\ Done("gone") => ~file
  /\ Done("unknown event") => known # {"semantic", "analytics"}

(* When no hop fails, a crossing the playback server has a recording of is   *)
(* found, also next to midnight, in a span that is cut, overlaps another or  *)
(* has an end between two milliseconds.                                      *)
RecordedIsFound ==
  pc = "done" /\ smooth /\ (\E s \in UNION seen : Covers(s, crossed))
    => msg.status = "AVAILABLE"
=============================================================================
