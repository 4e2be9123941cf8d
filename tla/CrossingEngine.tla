--------------------------- MODULE CrossingEngine ---------------------------
(***************************************************************************)
(* How a worker turns the tracked objects of its frames into crossings of  *)
(* a directed line segment: the geometry, the crossing state of each track *)
(* and the keys of persisted crossings.                                    *)
(*                                                                         *)
(* Points have integer coordinates, the unit of length is one step of the  *)
(* grid, and epsilon, the deadband around the line, is given in hundredths *)
(* of it.  Distances are compared by their squares, so that all is exact:  *)
(* the tolerance of 1e-9 of the code's orientation tests is 0 here.        *)
(***************************************************************************)
EXTENDS Integers, Sequences, FiniteSets

CONSTANTS
  Tracks,           (* of one tracker; a removed track does not come back  *)
  Points,
  Lines,            (* records [a, b, policy]                              *)
  Epsilon,
  MaxHistories,     (* MAX_TRACK_HISTORIES                                 *)
  MaxObservations   (* bound: observations in a session                    *)

Directions == {"A_TO_B", "B_TO_A"}
Policies   == Directions \cup {"BOTH"}
Sides      == {"A_SIDE", "B_SIDE", "ON_LINE"}

ASSUME PointsAreIntegers == Points \subseteq Int \X Int
ASSUME LinesAreSegments ==
  /\ Lines \subseteq [a : Points, b : Points, policy : Policies]
  /\ \A l \in Lines : l.a # l.b
ASSUME NumbersAreNatural ==
  Epsilon \in Nat \ {0} /\ {MaxHistories, MaxObservations} \subseteq Nat

-----------------------------------------------------------------------------
(* The geometry                                                            *)

Orientation(p, q, r) == (q[1] - p[1]) * (r[2] - p[2]) - (q[2] - p[2]) * (r[1] - p[1])

SquaredLength(a, b) == (b[1] - a[1]) * (b[1] - a[1]) + (b[2] - a[2]) * (b[2] - a[2])

(* signed_distance is d / |B - A|, compared with epsilon by the squares.   *)
InDeadband(d, a, b) == 10000 * d * d < Epsilon * Epsilon * SquaredLength(a, b)

(* Mutant: a point on the line counts for the side of B.                   *)
SideOfLine(p, a, b) ==
  LET d == Orientation(a, b, p) IN
  IF d < 0 /\ ~InDeadband(d, a, b) THEN "A_SIDE" ELSE "B_SIDE"

ClassifySide(p, a, b) ==
  LET d == Orientation(a, b, p) IN
  IF InDeadband(d, a, b) THEN "ON_LINE" ELSE IF d <= 0 THEN "A_SIDE" ELSE "B_SIDE"

Between(u, v, w) == (u <= v /\ v <= w) \/ (w <= v /\ v <= u)

(* q is in the box of the segment from p to r.                             *)
OnSegment(p, q, r) == Between(p[1], q[1], r[1]) /\ Between(p[2], q[2], r[2])

Opposite(d, e) == (d > 0 /\ e < 0) \/ (d < 0 /\ e > 0)

SegmentsIntersect(p1, p2, q1, q2) ==
  LET d1 == Orientation(q1, q2, p1)
      d2 == Orientation(q1, q2, p2)
      d3 == Orientation(p1, p2, q1)
      d4 == Orientation(p1, p2, q2)
  IN \/ Opposite(d1, d2) /\ Opposite(d3, d4)
     \/ d1 = 0 /\ OnSegment(q1, p1, q2)
     \/ d2 = 0 /\ OnSegment(q1, p2, q2)
     \/ d3 = 0 /\ OnSegment(p1, q1, p2)
     \/ d4 = 0 /\ OnSegment(p1, q2, p2)

DirectionFor(previous, current) ==
  IF previous = "A_SIDE" /\ current = "B_SIDE" THEN "A_TO_B" ELSE "B_TO_A"

DirectionAllowed(policy, actual) == policy \in {"BOTH", actual}

-----------------------------------------------------------------------------
(* The engine                                                              *)

VARIABLES
  line,
  histories,   (* the last stable side and point of the tracks it knows    *)
  fired,       (* keys of persisted crossings                              *)
  reported,    (* the observation that the worker persists, or Nothing     *)
  (* the worker, its tracker and the table of events *)
  live, active, observed, events,
  (* what really happened: the centroids of each track *)
  trail

engine == <<line, histories, fired, reported>>
engineVars   == <<line, histories, fired, reported, live, active, observed, events, trail>>

Nothing     == [track |-> "none", direction |-> "none"]
Observation == [track : Tracks, direction : Directions]
NoState     == [side |-> "ON_LINE", point |-> <<0, 0>>]

State(t) == IF t \in DOMAIN histories THEN histories[t] ELSE NoState

Put(t, state) ==
  histories' = [u \in DOMAIN histories \cup {t} |->
                  IF u = t THEN state ELSE histories[u]]

(* Mutant: the anchor stays where it was if the line was not cut.          *)
AnchorStays(t, p) ==
  LET old == State(t)
      new == ClassifySide(p, line.a, line.b)
  IN IF new = "ON_LINE" \/ (old.side \notin {"ON_LINE", new}
                              /\ ~SegmentsIntersect(old.point, p, line.a, line.b))
     THEN old ELSE [side |-> new, point |-> p]

(* The anchor after an observation: a point of the deadband does not move  *)
(* it, any other does.                                                     *)
Anchor(t, p) ==
  LET new == ClassifySide(p, line.a, line.b)
  IN IF new = "ON_LINE" THEN State(t) ELSE [side |-> new, point |-> p]

(* What observe answers, the keys of persisted crossings aside.            *)
Crosses(t, p) ==
  LET old    == State(t)
      new    == ClassifySide(p, line.a, line.b)
      actual == DirectionFor(old.side, new)
  IN IF /\ new # "ON_LINE" /\ old.side \notin {"ON_LINE", new}
        /\ SegmentsIntersect(old.point, p, line.a, line.b)
        /\ DirectionAllowed(line.policy, actual)
     THEN [track |-> t, direction |-> actual]
     ELSE Nothing

Overflow(t) == t \notin DOMAIN histories /\ Cardinality(DOMAIN histories) >= MaxHistories

Observations == Cardinality({o \in Tracks \X (1..MaxObservations) : o[2] <= Len(trail[o[1]])})

(* One tracked object of a frame.                                          *)
Observe(t, p) ==
  /\ live /\ reported = Nothing
  /\ t \in active \ observed
  /\ Observations < MaxObservations
  /\ ~Overflow(t)
  /\ observed' = observed \cup {t}
  /\ trail' = [trail EXCEPT ![t] = Append(@, p)]
  /\ Put(t, Anchor(t, p))
  /\ reported' = IF Crosses(t, p) \in fired THEN Nothing ELSE Crosses(t, p)
  /\ UNCHANGED <<line, fired, live, active, events>>

(* TrackerStateOverflow ends the worker.                                   *)
Overflows(t) ==
  /\ live /\ reported = Nothing
  /\ t \in active \ observed
  /\ Overflow(t)
  /\ live' = FALSE
  /\ UNCHANGED <<engine, active, observed, events, trail>>

(* The event is stored, or was stored before: mark_persisted.              *)
Persisted ==
  /\ live /\ reported # Nothing
  /\ events' = events \cup {reported}
  /\ fired' = fired \cup {reported}
  /\ reported' = Nothing
  /\ UNCHANGED <<line, histories, live, active, observed, trail>>

(* Its crop is unusable, and it is dropped.                                *)
Dropped ==
  /\ live /\ reported # Nothing
  /\ reported' = Nothing
  /\ UNCHANGED <<line, histories, fired, live, active, observed, events, trail>>

(* It cannot be stored, or the worker is stopped.                          *)
Abandoned ==
  /\ live /\ reported # Nothing
  /\ live' = FALSE
  /\ UNCHANGED <<engine, active, observed, events, trail>>

(* Mutant: the histories of removed tracks stay.                           *)
NoPrune(removed) ==
  /\ live /\ reported = Nothing
  /\ active' = active \ removed
  /\ observed' = {}
  /\ UNCHANGED <<engine, live, events, trail>>

(* The end of a frame: the tracker has removed tracks for good, and prune  *)
(* forgets them.                                                           *)
EndFrame(removed) ==
  /\ live /\ reported = Nothing
  /\ active' = active \ removed
  /\ observed' = {}
  /\ histories' = [t \in DOMAIN histories \ removed |-> histories[t]]
  /\ fired' = {f \in fired : f.track \notin removed \cap DOMAIN histories}
  /\ UNCHANGED <<line, reported, live, events, trail>>

(* A new attempt, or a new configuration: a new session id, tracker and    *)
(* engine.                                                                 *)
BeginSession(l) ==
  /\ reported = Nothing \/ ~live
  /\ line' = l
  /\ histories' = << >> /\ fired' = {} /\ reported' = Nothing
  /\ live' = TRUE /\ active' = Tracks /\ observed' = {} /\ events' = {}
  /\ trail' = [t \in Tracks |-> << >>]

EngineInit ==
  /\ line \in Lines
  /\ histories = << >> /\ fired = {} /\ reported = Nothing
  /\ live = TRUE /\ active = Tracks /\ observed = {} /\ events = {}
  /\ trail = [t \in Tracks |-> << >>]

EngineNext ==
  \/ \E t \in Tracks, p \in Points : Observe(t, p)
  \/ \E t \in Tracks : Overflows(t)
  \/ Persisted \/ Dropped \/ Abandoned
  \/ \E removed \in SUBSET active : EndFrame(removed)
  \/ \E l \in Lines : BeginSession(l)

EngineSpec == EngineInit /\ [][EngineNext]_engineVars
-----------------------------------------------------------------------------
(* The reference: crossings defined by the whole path of a track.          *)

(* Two segments meet: their lines meet at one point, and each runs through *)
(* it within its own length; or they are parallel and share a point.       *)
Meet(p1, p2, q1, q2) ==
  LET u == <<p2[1] - p1[1], p2[2] - p1[2]>>
      v == <<q2[1] - q1[1], q2[2] - q1[2]>>
      w == <<q1[1] - p1[1], q1[2] - p1[2]>>
      det(x, y) == x[1] * y[2] - x[2] * y[1]
      dot(x, y) == x[1] * y[1] + x[2] * y[2]
      d == det(u, v)
      within(n) == Between(0, n, d)
      along(p) == dot(v, <<p[1] - q1[1], p[2] - q1[2]>>)
  IN IF d # 0
     THEN within(det(w, v)) /\ within(det(w, u))
     ELSE /\ det(v, w) = 0
          /\ \/ Between(along(p1), 0, along(p2))
             \/ Between(0, along(p1), dot(v, v))

Stable(path, i) ==
  LET d == Orientation(line.a, line.b, path[i])
  IN 10000 * d * d >= Epsilon * Epsilon * SquaredLength(line.a, line.b)

(* The crossing that the last point of a path completes.                   *)
Completes(t, path) ==
  LET n     == Len(path)
      prior == {i \in 1..(n - 1) : Stable(path, i)}
      m     == CHOOSE i \in prior : \A j \in prior : j <= i
      from  == Orientation(line.a, line.b, path[m])
      to    == Orientation(line.a, line.b, path[n])
      way   == IF to > from THEN "A_TO_B" ELSE "B_TO_A"
  IN IF /\ Stable(path, n) /\ prior # {}
        /\ Opposite(from, to)
        /\ Meet(path[m], path[n], line.a, line.b)
        /\ line.policy # (IF way = "A_TO_B" THEN "B_TO_A" ELSE "A_TO_B")
     THEN {[track |-> t, direction |-> way]}
     ELSE {}

-----------------------------------------------------------------------------
EngineTypeOK ==
  /\ line \in Lines
  /\ DOMAIN histories \subseteq Tracks
  /\ \A t \in DOMAIN histories :
       histories[t] = NoState \/ histories[t] \in [side : Sides, point : Points]
  /\ fired \in SUBSET Observation
  /\ reported \in Observation \cup {Nothing}
  /\ live \in BOOLEAN
  /\ active \in SUBSET Tracks /\ observed \in SUBSET Tracks
  /\ events \in SUBSET Observation
  /\ trail \in [Tracks -> Seq(Points)]

(* An observation reports a crossing exactly if the whole path of the      *)
(* track completes one there (its last two stable points are on opposite   *)
(* sides, and the way between them meets the finite segment), the line     *)
(* counts that direction, and this crossing is not yet stored.             *)
ReportsAreExact ==
  [][\A t \in Tracks, p \in Points :
       (trail'[t] = Append(trail[t], p) /\ line' = line)
         => (IF reported' = Nothing THEN {} ELSE {reported'})
              = Completes(t, trail'[t]) \ events]_engineVars

(* The engine suppresses a crossing only if it is stored, and keeps        *)
(* nothing of a track that is gone.                                        *)
EngineIsBounded ==
  /\ fired \subseteq events
  /\ live /\ observed = {} => /\ DOMAIN histories \subseteq active
                          /\ \A f \in fired : f.track \in active
  /\ Cardinality(DOMAIN histories) <= MaxHistories
=============================================================================
