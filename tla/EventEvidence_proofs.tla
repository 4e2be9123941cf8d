------------------------- MODULE EventEvidence_proofs -------------------------
(***************************************************************************)
(* That the evidence offered, denied or found for an event is what the     *)
(* playback server had, for every length of day, every instant and every   *)
(* recording.  The invariant follows one answer from hop to hop: what its   *)
(* items stand for, and what it says when there are none.                  *)
(***************************************************************************)
EXTENDS EventEvidence, TLAPS

Entries == [start : Int, duration : Int]
Items == [start : Int, end : Int, duration : Int]
Offers == [start : Int, end : Int]

TypeOK ==
  /\ crossed \in Int /\ crossed % 2 = 0
  /\ recorded \subseteq Span /\ (~directory => recorded = {})
  /\ seen \subseteq SUBSET Span
  /\ kind \in {"recording", "image"}
  /\ kind = "image" => seen = {}
  /\ pc \in {"vms", "playback", "list_timespans", "lookup"} => kind = "recording"
  /\ pc \in {"resolve_image", "FileResponse"} => kind = "image"
  /\ pc \in {"asked", "analytics", "vms", "playback"} => seen = {}

Hit == \E s \in UNION seen : Covers(s, crossed)

\* What lies between start and start + duration was recorded.
Genuine(i) ==
  i.duration > 0 /\ i.start # Unreadable =>
    \E s \in UNION seen : s.start <= i.start /\ i.start + i.duration <= s.end

FromPlayback ==
  pc = "list_timespans" =>
    /\ msg.items \subseteq Entries
    /\ _means_nothing_recorded_yet(msg.status) => seen # {} /\ ~Hit
    /\ msg.status = "200" =>
         /\ seen # {} /\ \A i \in msg.items : Genuine(i)
         /\ Hit => \E i \in msg.items : i.start >= 0 /\ Covers(Computed(i), crossed)
    /\ smooth => /\ \A i \in msg.items : i.duration > 0 /\ i.start >= 0
                 /\ Hit => msg.status = "200"

FromVms ==
  pc = "lookup" =>
    /\ msg.items \subseteq Items
    /\ msg.status = "200" =>
         /\ seen # {}
         /\ \A i \in msg.items : /\ Genuine(i) /\ i.start # Unreadable
                                 /\ i.end = Millisecond(i.start + i.duration)
         /\ Hit => \E i \in msg.items : Covers(Computed(i), crossed)
    /\ smooth => /\ \A i \in msg.items : i.duration > 0
                 /\ Hit => msg.status = "200"

FromAnalytics ==
  pc = "reply" =>
    /\ msg.items \subseteq Offers
    /\ msg.status = "AVAILABLE" =>
         /\ seen # {}
         /\ \A i \in msg.items :
              /\ Covers(i, crossed)
              /\ \E s \in UNION seen : s.start <= i.start /\ i.end <= s.end
    /\ msg.status = "NOT_FOUND" => seen # {} /\ ~Hit
    /\ smooth /\ Hit => msg.status = "AVAILABLE"
    /\ kind = "image" /\ msg.status = "410" => ~file
    /\ kind = "image" /\ msg.status = "404" => "analytics" \notin known

IInv ==
  /\ TypeOK /\ FromPlayback /\ FromVms /\ FromAnalytics
  /\ AvailableCovers /\ AbsenceIsTrue /\ RecordedIsFound

-----------------------------------------------------------------------------
\* The day the VMS is asked for contains the crossing, at midnight too.
LEMMA DayContains ==
  ASSUME NEW t \in Int
  PROVE  LET w == parse_utc_day(t)
         IN  w.from \in Int /\ w.until \in Int /\ w.from <= t /\ t < w.until
BY TimeAssumption DEF parse_utc_day

\* Rounding down moves an end by less than a millisecond, and never past an
\* instant that is a whole number of milliseconds.
LEMMA Rounding ==
  ASSUME NEW t \in Int
  PROVE  /\ Millisecond(t) \in Int /\ Millisecond(t) <= t /\ t <= Millisecond(t) + 1
         /\ \A c \in Int : c % 2 = 0 /\ c <= t => c <= Millisecond(t)
BY DEF Millisecond

\* What the playback server lists was recorded, and a recording of the
\* crossing is listed, whatever the window cuts off.
LEMMA ListIsSound ==
  ASSUME recorded \subseteq Span, NEW t \in Int
  PROVE  LET w == parse_utc_day(t)
             L == Listed(w.from, w.until)
         IN  /\ L \subseteq Entries
             /\ \A i \in L : i.duration > 0 
             /\ \A i \in L : \E s \in recorded :
                  s.start <= i.start /\ i.start + i.duration <= s.end
             /\ \A s \in recorded : Covers(s, t) =>
                  \E i \in L : i.start >= 0 /\ Covers(Computed(i), t)
<1> DEFINE w == parse_utc_day(t)
           L == Listed(w.from, w.until)
<1>1. w.from \in Int /\ w.until \in Int /\ w.from <= t /\ t < w.until
  BY DayContains
<1>2. \A s \in recorded : s.start \in Int /\ s.end \in Int /\ s.start < s.end /\ s.start >= 0
  BY TimeAssumption DEF Span
<1> HIDE DEF w
<1>3. \A i \in L : \E s \in recorded :
        /\ s.start < w.until /\ w.from < s.end
        /\ i = [start |-> Later(s.start, w.from),
                duration |-> Earlier(s.end, w.until) - Later(s.start, w.from)]
  BY DEF Listed
<1>4. \A s \in recorded : s.start < w.until /\ w.from < s.end =>
        [start |-> Later(s.start, w.from),
         duration |-> Earlier(s.end, w.until) - Later(s.start, w.from)] \in L
  BY DEF Listed
<1> HIDE DEF L
<1>5. ASSUME NEW i \in L
      PROVE  /\ i \in Entries /\ i.duration > 0
             /\ \E s \in recorded : s.start <= i.start /\ i.start + i.duration <= s.end
  BY <1>1, <1>2, <1>3 DEF Later, Earlier, Entries
<1>6. ASSUME NEW s \in recorded, Covers(s, t)
      PROVE  \E i \in L : i.start >= 0 /\ Covers(Computed(i), t)
  <2> DEFINE i == [start |-> Later(s.start, w.from),
                   duration |-> Earlier(s.end, w.until) - Later(s.start, w.from)]
  <2>1. s.start <= t /\ t < s.end
    BY <1>6 DEF Covers
  <2>2. i \in L
    BY <1>1, <1>2, <1>4, <2>1
  <2>3. i.start >= 0 /\ i.start <= t /\ t < i.start + i.duration
    BY <1>1, <1>2, <2>1 DEF Later, Earlier
  <2> QED BY <2>2, <2>3 DEF Covers, Computed
<1> QED BY <1>5, <1>6 DEF w, L
-----------------------------------------------------------------------------

\* The request arrives before anything was asked.
LEMMA Initially == Init => IInv
<1> SUFFICES ASSUME Init PROVE IInv OBVIOUS
<1>1. recorded \subseteq Span /\ crossed \in Int /\ crossed % 2 = 0
  <2>1. crossed \in Crossings /\ crossed \in Int /\ crossed % 2 = 0
    <3>1. crossed \in Crossings
      BY DEF Init
    <3> QED BY <3>1, TimeAssumption
  <2>2. recorded \subseteq Span
    BY DEF Init
  <2> QED BY <2>1, <2>2
<1>2. ~directory => recorded = {}
  BY DEF Init
<1>3. TypeOK /\ seen = {} /\ pc = "asked"
  BY <1>1, <1>2 DEF Init, TypeOK
<1> QED
  BY <1>3 DEF IInv, FromPlayback, FromVms, FromAnalytics,
       AvailableCovers, AbsenceIsTrue, RecordedIsFound, Done

-----------------------------------------------------------------------------
(* Each hop                                                                  *)

\* The answer of MediaMTX tells what was recorded when it was asked.
LEMMA PlaybackStep ==
  ASSUME IInv, Playback \/ PlaybackIsOdd \/ PlaybackFails
  PROVE  IInv'
<1>0. TypeOK
  BY DEF IInv
<1>1. /\ pc = "playback" /\ pc' = "list_timespans" /\ kind = "recording"
      /\ UNCHANGED <<kind, crossed, known, world>>
      /\ recorded \subseteq Span /\ crossed \in Int
  BY <1>0 DEF Playback, PlaybackIsOdd, PlaybackFails, TypeOK
<1> DEFINE w == parse_utc_day(crossed)
           L == Listed(w.from, w.until)
<1>2. /\ L \subseteq Entries
      /\ \A i \in L : i.duration > 0
      /\ \A i \in L : \E s \in recorded :
           s.start <= i.start /\ i.start + i.duration <= s.end
      /\ \A s \in recorded : Covers(s, crossed) =>
           \E i \in L : i.start >= 0 /\ Covers(Computed(i), crossed)
  BY <1>1, ListIsSound
<1>3. \A s \in recorded : s.start >= 0 /\ s.start \in Int /\ s.end \in Int
  BY <1>1, TimeAssumption DEF Span
<1>4. \A i \in L : i.start >= 0
  BY <1>2, <1>3 DEF Entries
<1>5. \/ configured /\ PlaybackAnswers = [status |-> "200", items |-> L]
      \/ ~configured /\ PlaybackAnswers = Answer("400 not configured")
      \/ /\ configured /\ (L = {} \/ recorded = {})
         /\ \/ PlaybackAnswers = Answer("404")
            \/ PlaybackAnswers = Answer("400 no such file or directory")
  <2> HIDE DEF L
  <2> QED BY <1>0, <1>1 DEF PlaybackAnswers, TypeOK, L, w
<1> HIDE DEF L
<1>6. TypeOK'
  BY <1>0, <1>1 DEF Playback, PlaybackIsOdd, PlaybackFails, TypeOK, world
<1>7. FromPlayback'
  <2>1. CASE Playback
    <3>1. msg' = PlaybackAnswers /\ seen' = (IF configured THEN {recorded} ELSE {})
      BY <2>1 DEF Playback
    <3>2. Hit' <=> configured /\ \E s \in recorded : Covers(s, crossed)
      BY <1>1, <3>1 DEF Hit, Covers
    <3>3. CASE configured /\ PlaybackAnswers = [status |-> "200", items |-> L]
      BY <1>1, <1>2, <1>4, <3>1, <3>2, <3>3
         DEF FromPlayback, Genuine, _means_nothing_recorded_yet
    <3>4. CASE ~configured /\ PlaybackAnswers = Answer("400 not configured")
      BY <1>1, <3>1, <3>2, <3>4
         DEF FromPlayback, Genuine, _means_nothing_recorded_yet, Answer
    <3>5. CASE /\ configured /\ (L = {} \/ recorded = {})
               /\ \/ PlaybackAnswers = Answer("404")
                  \/ PlaybackAnswers = Answer("400 no such file or directory")
      <4>1. \A s \in recorded : ~Covers(s, crossed)
        BY <1>2, <3>5
      <4>2. /\ msg'.status = "404" \/ msg'.status = "400 no such file or directory"
            /\ msg'.items = {} /\ seen' = {recorded}
        <5>1. \A t : Answer(t).status = t /\ Answer(t).items = {}
          BY DEF Answer
        <5> QED BY <3>1, <3>5, <5>1
      <4> QED BY <3>2, <4>1, <4>2 DEF FromPlayback, _means_nothing_recorded_yet
    <3> QED BY <1>5, <3>3, <3>4, <3>5
  <2>2. CASE PlaybackIsOdd
    <3>1. /\ PlaybackAnswers = [status |-> "200", items |-> L]
          /\ seen' = {recorded} /\ smooth' = FALSE
      <4>1. PlaybackAnswers.status = "200" /\ seen' = {recorded} /\ smooth' = FALSE
        BY <2>2 DEF PlaybackIsOdd
      <4>2. \A t : Answer(t).status = t
        BY DEF Answer
      <4>3. PlaybackAnswers = [status |-> "200", items |-> L]
        BY <1>5, <4>1, <4>2
      <4> QED BY <4>1, <4>3
    <3>2. PICK o \in Odd : msg' = [status |-> "200", items |-> L \cup {o}]
      BY <2>2, <3>1 DEF PlaybackIsOdd
    <3>3. o \in Entries /\ (o.duration = 0 \/ o.start = Unreadable)
      BY DEF Odd, Entries, Unreadable
    <3>4. Hit' <=> \E s \in recorded : Covers(s, crossed)
      BY <1>1, <3>1 DEF Hit, Covers
    <3> QED
      BY <1>1, <1>2, <3>1, <3>2, <3>3, <3>4
         DEF FromPlayback, Genuine, _means_nothing_recorded_yet
  <2>3. CASE PlaybackFails
    <3>1. PICK t \in {"unreachable", "500", "not a list"} : msg' = Answer(t)
      BY <2>3 DEF PlaybackFails
    <3>2. msg'.status = t /\ msg'.items = {} /\ smooth' = FALSE
      BY <2>3, <3>1 DEF PlaybackFails, Answer
    <3> QED BY <3>2 DEF FromPlayback, _means_nothing_recorded_yet
  <2> QED BY <2>1, <2>2, <2>3
<1> QED
  BY <1>1, <1>6, <1>7 DEF IInv, FromVms, FromAnalytics, AvailableCovers, AbsenceIsTrue,
       RecordedIsFound, Done

\* The VMS answers with the spans of MediaMTX, or with its failure.
LEMMA ListTimespansStep ==
  ASSUME IInv, list_timespans
  PROVE  IInv'
<1>1. /\ pc = "list_timespans" /\ pc' = "lookup"
      /\ UNCHANGED <<kind, crossed, known, seen, smooth, file, recorded, directory>>
      /\ TypeOK /\ FromPlayback
  BY DEF list_timespans, IInv, world
<1>2. TypeOK'
  BY <1>1 DEF TypeOK
<1>3. Hit' <=> Hit
  BY <1>1 DEF Hit, Covers
<1>4. FromVms'
  <2>1. CASE _means_nothing_recorded_yet(msg.status)
    <3>1. msg' = Answer("200")
      BY <2>1 DEF list_timespans
    <3>2. msg'.items = {} /\ msg'.status = "200"
      BY <3>1 DEF Answer
    <3> QED BY <1>1, <1>3, <2>1, <3>2 DEF FromPlayback, FromVms
  <2>2. CASE ~_means_nothing_recorded_yet(msg.status) /\ msg.status # "200"
    <3>1. msg' = Answer("503")
      BY <2>2 DEF list_timespans
    <3>2. msg'.items = {} /\ msg'.status = "503"
      BY <3>1 DEF Answer
    <3> QED BY <1>1, <1>3, <2>2, <3>2 DEF FromPlayback, FromVms
  <2>3. CASE ~_means_nothing_recorded_yet(msg.status) /\ msg.status = "200"
    <3> DEFINE kept == {i \in msg.items : i.start # Unreadable}
    <3>1. msg'.status = "200" /\ msg'.items = {RecordingItem(i) : i \in kept}
      BY <2>3 DEF list_timespans
    <3>2. \A i \in kept : 
            /\ i \in Entries
            /\ RecordingItem(i) \in Items
            /\ RecordingItem(i).start = i.start /\ RecordingItem(i).duration = i.duration
            /\ RecordingItem(i).end = Millisecond(i.start + i.duration)
            /\ Covers(Computed(RecordingItem(i)), crossed) <=> Covers(Computed(i), crossed)
            /\ Genuine(i) <=> Genuine(RecordingItem(i))
      BY <1>1, Rounding
         DEF FromPlayback, Entries, Items, RecordingItem, Genuine, Covers, Computed
    <3>3. \A i \in msg'.items : /\ i \in Items /\ Genuine(i)' /\ i.start # Unreadable
                                /\ i.end = Millisecond(i.start + i.duration)
                                /\ smooth => i.duration > 0
      BY <1>1, <2>3, <3>1, <3>2 DEF FromPlayback, Genuine
    <3>4. Hit => \E i \in msg'.items : Covers(Computed(i), crossed)
      BY <1>1, <2>3, <3>1, <3>2 DEF FromPlayback, Unreadable, Entries
    <3> QED BY <1>1, <1>3, <2>3, <3>1, <3>3, <3>4 DEF FromPlayback, FromVms
  <2> QED BY <2>1, <2>2, <2>3
<1> QED
  BY <1>1, <1>2, <1>4 DEF IInv, FromPlayback, FromAnalytics, AvailableCovers,
       AbsenceIsTrue, RecordedIsFound, Done

\* The lookup keeps a span only if it covers the crossing.
LEMMA LookupStep ==
  ASSUME IInv, lookup
  PROVE  IInv'
<1>1. /\ pc = "lookup" /\ pc' = "reply" /\ kind = "recording"
      /\ UNCHANGED <<kind, crossed, known, seen, smooth, file, recorded, directory>>
      /\ TypeOK /\ FromVms
  BY DEF lookup, IInv, world, TypeOK
<1>2. TypeOK'
  BY <1>1 DEF TypeOK
<1>3. Hit' <=> Hit
  BY <1>1 DEF Hit, Covers
<1>4. FromAnalytics'
  <2> DEFINE found == Containing(msg.items, crossed)
  <2>1. CASE /\ msg.status = "200" /\ ~\E i \in msg.items : Malformed(i)
             /\ found = {} /\ msg' = Answer("NOT_FOUND")
    <3>1. ~Hit /\ seen # {}
      BY <1>1, <2>1 DEF FromVms, Containing
    <3>2. msg'.items = {} /\ msg'.status = "NOT_FOUND"
      BY <2>1 DEF Answer
    <3> QED BY <1>1, <1>3, <3>1, <3>2 DEF FromAnalytics
  <2>2. ASSUME /\ msg.status = "200" /\ ~\E i \in msg.items : Malformed(i),
               NEW i \in Chosen(found),
               msg' = [status |-> "AVAILABLE", items |-> {Computed(i)}]
        PROVE  FromAnalytics'
    <3>1. i \in msg.items /\ Covers(Computed(i), crossed) /\ ~Malformed(i)
      BY <2>2 DEF Chosen, Containing
    <3>2. i \in Items /\ Genuine(i) /\ i.start # Unreadable /\ seen # {}
      BY <1>1, <2>2, <3>1 DEF FromVms
    <3>3. i.duration > 0
      BY <3>1, <3>2 DEF Malformed, Items
    <3>4. PICK s \in UNION seen : s.start <= i.start /\ i.start + i.duration <= s.end
      BY <3>2, <3>3 DEF Genuine
    <3>5. Computed(i) \in Offers
      BY <3>2 DEF Computed, Items, Offers
    <3> QED
      BY <1>1, <1>3, <2>2, <3>1, <3>2, <3>4, <3>5 DEF FromAnalytics, Computed, Covers
  <2>3. CASE /\ msg.status # "200" \/ \E i \in msg.items : Malformed(i)
             /\ msg' = Answer("UNAVAILABLE")
    <3>1. msg'.items = {} /\ msg'.status = "UNAVAILABLE"
      BY <2>3 DEF Answer
    <3>2. smooth => ~Hit
      <4>1. ASSUME smooth, Hit, NEW i \in msg.items, Malformed(i) PROVE FALSE
        <5>1. /\ i \in Items /\ i.duration > 0 /\ i.end = Millisecond(i.start + i.duration)
          BY <1>1, <4>1 DEF FromVms
        <5> QED BY <4>1, <5>1, Rounding DEF Items, Malformed
      <4> QED BY <1>1, <2>3, <4>1 DEF FromVms
    <3> QED BY <1>1, <1>3, <3>1, <3>2 DEF FromAnalytics
  <2> QED BY <2>1, <2>2, <2>3 DEF lookup
<1> QED
  BY <1>1, <1>2, <1>4 DEF IInv, FromPlayback, FromVms, AvailableCovers,
       AbsenceIsTrue, RecordedIsFound, Done

\* The browser is shown what the lookup found.
LEMMA GetRecordingStep ==
  ASSUME IInv, get_recording
  PROVE  IInv'
<1>1. /\ pc = "reply" /\ pc' = "done" /\ kind = "recording"
      /\ UNCHANGED <<kind, crossed, known, seen, smooth, file, recorded, directory>>
      /\ TypeOK /\ FromAnalytics
  BY DEF get_recording, IInv, world
<1>2. TypeOK'
  BY <1>1 DEF TypeOK
<1>3. Hit' <=> Hit
  BY <1>1 DEF Hit, Covers
<1>4. AvailableCovers' /\ AbsenceIsTrue' /\ RecordedIsFound'
  <2>1. CASE msg.status = "AVAILABLE"
    <3>1. msg'.status = "AVAILABLE" /\ msg'.items = {fetch_recording(s) : s \in msg.items}
      BY <2>1 DEF get_recording
    <3>2. ASSUME NEW r \in msg.items
          PROVE  LET i == fetch_recording(r)
                 IN  /\ i.start <= crossed /\ crossed <= i.end
                     /\ \E s \in UNION seen : /\ Covers(s, crossed)
                                              /\ s.start <= i.start + 1 /\ i.end <= s.end
      <4>1. r \in Offers /\ r.start <= crossed /\ crossed < r.end /\ crossed \in Int
        BY <1>1, <2>1 DEF FromAnalytics, Covers, TypeOK
      <4>2. PICK s \in UNION seen : s.start <= r.start /\ r.end <= s.end
        BY <1>1, <2>1 DEF FromAnalytics
      <4>3. s.start \in Int /\ s.end \in Int
        BY <1>1, TimeAssumption DEF TypeOK, Span
      <4>4. fetch_recording(r).start = Millisecond(r.start) /\ fetch_recording(r).end = Millisecond(r.end)
        BY DEF fetch_recording
      <4>5. /\ Millisecond(r.start) \in Int /\ Millisecond(r.start) <= r.start
            /\ r.start <= Millisecond(r.start) + 1
            /\ Millisecond(r.end) \in Int /\ Millisecond(r.end) <= r.end
            /\ crossed <= Millisecond(r.end)
        <5>1. r.start \in Int /\ r.end \in Int /\ crossed \in Int /\ crossed % 2 = 0
          BY <1>1, <4>1 DEF Offers, TypeOK
        <5>2. crossed <= r.end
          BY <4>1, <5>1
        <5> QED BY <5>1, <5>2, Rounding
      <4> QED BY <4>1, <4>2, <4>3, <4>4, <4>5 DEF Covers, Offers
    <3> QED
      BY <1>1, <2>1, <3>1, <3>2
         DEF FromAnalytics, AvailableCovers, AbsenceIsTrue, RecordedIsFound, Done, Hit
  <2>2. CASE msg.status = "NOT_FOUND"
    <3>1. msg' = msg
      BY <2>2 DEF get_recording
    <3> QED
      BY <1>1, <2>2, <3>1
         DEF FromAnalytics, AvailableCovers, AbsenceIsTrue, RecordedIsFound, Done, Hit
  <2>3. CASE msg.status \notin {"AVAILABLE", "NOT_FOUND"}
    <3>1. msg'.status = "UNAVAILABLE"
      BY <2>3 DEF get_recording, Answer
    <3> QED
      BY <1>1, <2>3, <3>1
         DEF FromAnalytics, AvailableCovers, AbsenceIsTrue, RecordedIsFound, Done, Hit
  <2> QED BY <2>1, <2>2, <2>3
<1> QED
  BY <1>1, <1>2, <1>4 DEF IInv, FromPlayback, FromVms, FromAnalytics
\* Hops that decide without a list, and the failures.
LEMMA OtherHops ==
  ASSUME IInv,
         \/ _local_event \/ get_event \/ _require \/ VmsFails \/ resolve_image
         \/ FileResponse \/ _proxy \/ AnalyticsFails \/ BodyBreaksOff
  PROVE  IInv'
<1>1. /\ UNCHANGED <<kind, crossed, known, seen, file, recorded, directory>>
      /\ TypeOK /\ FromAnalytics
      /\ Hit' <=> Hit
      /\ \A t : Answer(t).status = t /\ Answer(t).items = {}
  BY DEF _local_event, get_event, _require, VmsFails, resolve_image, FileResponse,
         _proxy, AnalyticsFails, BodyBreaksOff, IInv, world, Hit, Covers, Answer
<1> USE DEF FromPlayback, FromVms, FromAnalytics, AvailableCovers, AbsenceIsTrue,
            RecordedIsFound, Done
<1>2. CASE _local_event
  <2>1. TypeOK' /\ pc = "asked" /\ seen = {} /\ ~Hit'
    BY <1>1, <1>2 DEF _local_event, TypeOK, Hit
  <2> QED BY <1>1, <1>2, <2>1 DEF _local_event, IInv
<1>3. CASE get_event
  <2>1. TypeOK' /\ pc = "analytics" /\ seen = {} /\ ~Hit'
    BY <1>1, <1>3 DEF get_event, TypeOK, Hit
  <2> QED BY <1>1, <1>3, <2>1 DEF get_event, IInv
<1>4. CASE _require
  <2>1. TypeOK' /\ pc = "vms" /\ kind = "recording" /\ seen = {} /\ ~Hit'
    BY <1>1, <1>4 DEF _require, TypeOK, Hit
  <2> QED BY <1>1, <1>4, <2>1 DEF _require, IInv
<1>5. CASE VmsFails
  <2>1. TypeOK'
    BY <1>1, <1>5 DEF VmsFails, TypeOK
  <2> QED BY <1>1, <1>5, <2>1 DEF VmsFails, IInv, TypeOK
<1>6. CASE resolve_image
  <2>1. pc = "resolve_image" /\ TypeOK'
    BY <1>1, <1>6 DEF resolve_image, TypeOK
  <2>2. kind = "image" /\ seen = {} /\ ~Hit'
    BY <1>1, <2>1 DEF TypeOK, Hit
  <2> QED BY <1>1, <1>6, <2>1, <2>2 DEF resolve_image, IInv
<1>7. CASE FileResponse
  <2>1. TypeOK'
    BY <1>1, <1>7 DEF FileResponse, TypeOK
  <2>2. kind = "image" /\ seen = {} /\ ~Hit'
    BY <1>1, <1>7 DEF FileResponse, TypeOK, Hit
  <2> QED BY <1>1, <1>7, <2>1, <2>2 DEF FileResponse, IInv
<1>8. CASE _proxy
  <2>1. TypeOK' /\ pc = "reply" /\ kind = "image" /\ seen = {} /\ ~Hit'
    BY <1>1, <1>8 DEF _proxy, TypeOK, Hit
  <2>2. pc' = "done" /\ msg'.status = fetch_artifact(msg.status)
    BY <1>1, <1>8 DEF _proxy
  <2>3. /\ fetch_artifact(msg.status) \in {"image", "gone", "unknown event", "failed"}
        /\ fetch_artifact(msg.status) = "gone" => msg.status = "410"
        /\ fetch_artifact(msg.status) = "unknown event" => msg.status = "404"
    BY DEF fetch_artifact
  <2>4. AvailableCovers' /\ RecordedIsFound' /\ AbsenceIsTrue'
    BY <1>1, <2>1, <2>2, <2>3
  <2> QED BY <1>1, <2>1, <2>2, <2>4 DEF IInv
<1>9. CASE AnalyticsFails
  <2>1. TypeOK'
    BY <1>1, <1>9 DEF AnalyticsFails, TypeOK
  <2>2. /\ pc' = "done" /\ ~smooth'
        /\ msg'.status = "UNAVAILABLE" \/ msg'.status = "failed"
    BY <1>1, <1>9 DEF AnalyticsFails
  <2> QED BY <1>1, <2>1, <2>2 DEF IInv
<1>10. CASE BodyBreaksOff
  <2>1. TypeOK'
    BY <1>1, <1>10 DEF BodyBreaksOff, TypeOK
  <2> QED BY <1>1, <1>10, <2>1 DEF BodyBreaksOff, IInv
<1> QED BY <1>2, <1>3, <1>4, <1>5, <1>6, <1>7, <1>8, <1>9, <1>10

\* What changes under the request, and stuttering.
LEMMA WorldStep ==
  ASSUME IInv,
         CameraChanges \/ PathChanges \/ Records \/ Expires \/ ImageGoes \/ UNCHANGED vars
  PROVE  IInv'
<1>1. /\ UNCHANGED <<kind, crossed, known, pc, msg, seen, smooth>>
      /\ TypeOK /\ FromPlayback /\ FromVms /\ FromAnalytics
      /\ AvailableCovers /\ AbsenceIsTrue /\ RecordedIsFound
  BY DEF CameraChanges, PathChanges, Records, Expires, ImageGoes, vars, IInv
<1>2. recorded' \subseteq Span /\ (~directory' => recorded' = {})
  BY DEF CameraChanges, PathChanges, Records, Expires, ImageGoes, vars, world, IInv, TypeOK
<1>3. ~file => ~file'
  BY DEF CameraChanges, PathChanges, Records, Expires, ImageGoes, vars, world
<1>4. Hit' <=> Hit
  BY <1>1 DEF Hit, Covers
<1>5. TypeOK' 
  BY <1>1, <1>2 DEF TypeOK
<1>6. FromPlayback' /\ FromVms' /\ FromAnalytics'
  BY <1>1, <1>3, <1>4 DEF FromPlayback, FromVms, FromAnalytics, Genuine, Covers, Computed
<1> QED
  BY <1>1, <1>3, <1>4, <1>5, <1>6
     DEF IInv, AvailableCovers, AbsenceIsTrue, RecordedIsFound, Done, Covers, Hit

-----------------------------------------------------------------------------

\* Every step keeps the invariant.
LEMMA Inductive == IInv /\ [Next]_vars => IInv'
BY PlaybackStep, ListTimespansStep, LookupStep, GetRecordingStep, OtherHops, WorldStep
   DEF Next

\* The invariant holds throughout the request.
LEMMA Invariance == Spec => []IInv
BY Initially, Inductive, PTL DEF Spec

(* The facts an answer rests on hold at every hop: what the disk, the        *)
(* window and the requests in flight allow (RecordingManager,                *)
(* MediaMTXPlaybackClient, VMSRecordingClient).                              *)
THEOREM TypeCorrect == Spec => []TypeOK
<1>1. IInv => TypeOK
  BY DEF IInv
<1> QED BY Invariance, <1>1, PTL

(* A recording offered contains the crossing and was there, for every length *)
(* of day, window and recording: VMSRecordingClient.lookup and the roundings *)
(* on both sides of it.                                                      *)
THEOREM OfferedIsReal == Spec => []AvailableCovers
<1>1. IInv => AvailableCovers
  BY DEF IInv
<1> QED BY Invariance, <1>1, PTL

(* Nothing is denied that is there: _means_nothing_recorded_yet, lookup,     *)
(* resolve_image and the status codes in between.                            *)
THEOREM DeniedIsAbsent == Spec => []AbsenceIsTrue
<1>1. IInv => AbsenceIsTrue
  BY DEF IInv
<1> QED BY Invariance, <1>1, PTL

(* What is recorded is found when no hop fails: the tolerance of             *)
(* _parse_items is wide enough for every rounding of an end.                 *)
THEOREM FoundWhenRecorded == Spec => []RecordedIsFound
<1>1. IInv => RecordedIsFound
  BY DEF IInv
<1> QED BY Invariance, <1>1, PTL
=============================================================================
