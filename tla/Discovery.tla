------------------------------ MODULE Discovery ------------------------------
(***************************************************************************)
(* How semantic search mirrors the events of the analytics service: the    *)
(* discovery task walks the history backwards page by page (the backfill), *)
(* and then polls a window that reaches back a fixed overlap before its    *)
(* high-water mark; the reconciliation task walks the whole list again,    *)
(* from time to time.  Cursors and the mark are durable, the process may   *)
(* be killed at any point, requests fail, and a new signing key of the     *)
(* analytics service makes the cursors it handed out invalid.              *)
(*                                                                         *)
(* Events are listed newest first, by time and then by id.                 *)
(***************************************************************************)
EXTENDS Integers, FiniteSets

CONSTANTS
  NumEvents,   (* ids are 1..NumEvents                                     *)
  MaxTime,     (* the times of crossings are 0..MaxTime                    *)
  Malformed,   (* ids of events that do not parse                          *)
  History,     (* ids of the events at the time of the first start         *)
  PageSize,
  Overlap,
  MaxTroubles  (* bound: failed requests, kills and changes of the key     *)

EventIds == 1..NumEvents
Times  == 0..MaxTime

ASSUME EventsAreKnown == Malformed \subseteq EventIds /\ History \subseteq EventIds
ASSUME NumbersAreNatural ==
  /\ {NumEvents, PageSize} \subseteq Nat \ {0}
  /\ {MaxTime, Overlap, MaxTroubles} \subseteq Nat

(* No mark, and no `from` filter: before every time and every window.      *)
Never == -1 - Overlap

VARIABLES
  (* the analytics service *)
  time,       (* of each event, Never while it is not committed            *)
  signing,    (* the key its cursors are signed with                       *)
  late,       (* events committed more than the overlap behind the newest  *)
  (* the database of semantic search *)
  local,      (* the mirrored events                                       *)
  mark,       (* high_water_crossed_at                                     *)
  done,       (* backfill_complete                                         *)
  cursor,     (* backfill_cursor                                           *)
  rcursor,    (* full_reconcile_cursor                                     *)
  (* the discovery task *)
  dpc, start, at, newest, page,
  (* the reconciliation task *)
  rpc, rpage,
  (* bound *)
  troubles

upstream  == <<time, signing, late>>
durable   == <<local, mark, done, cursor, rcursor>>
discovery == <<dpc, start, at, newest, page>>
reconcile == <<rpc, rpage>>
discoveryVars      == <<upstream, durable, discovery, reconcile, troubles>>

NoCursor == [event |-> 0, key |-> 0]
Cursor   == [event : EventIds, key : 0..MaxTroubles] \cup {NoCursor}
NoPage   == [events |-> {}, next |-> NoCursor]

Committed == {e \in EventIds : time[e] # Never}

Newest(S) == CHOOSE t \in {time[e] : e \in S} \cup {Never} :
               \A e \in S : time[e] <= t

Later(s, t) == IF s > t THEN s ELSE t

Before(e, f) == time[e] < time[f] \/ (time[e] = time[f] /\ e < f)

(* decode_cursor: the signature verifies.                                  *)
Valid(c) == c = NoCursor \/ c.key = signing

(* A page of the events from `from` on, after a cursor, and its next       *)
(* cursor: the last event of the page, if there are more.                  *)
Query(c, from) ==
  LET rows  == {e \in Committed : time[e] >= from /\ (c = NoCursor \/ Before(e, c.event))}
      items == {e \in rows : Cardinality({f \in rows : Before(e, f)}) < PageSize}
      last  == CHOOSE e \in items : \A f \in items : e = f \/ Before(e, f)
  IN [events |-> items,
      next   |-> IF items = rows THEN NoCursor ELSE [event |-> last, key |-> signing]]

(* What _parse_page makes of it.                                           *)
Parsed(p) == p.events \ Malformed

Trouble == troubles < MaxTroubles /\ troubles' = troubles + 1

-----------------------------------------------------------------------------
(* The analytics service                                                   *)

Commit(e, t) ==
  /\ time[e] = Never
  /\ time' = [time EXCEPT ![e] = t]
  /\ late' = IF t < Newest(Committed \ Malformed) - Overlap THEN late \cup {e} ELSE late
  /\ UNCHANGED <<signing, durable, discovery, reconcile, troubles>>

ChangeKey ==
  /\ Trouble
  /\ signing' = signing + 1
  /\ UNCHANGED <<time, late, durable, discovery, reconcile>>

-----------------------------------------------------------------------------
(* The discovery task                                                      *)

WindowStart(m, mirrored) ==
  LET high == IF m = Never THEN Newest(mirrored) ELSE m
  IN IF high = Never THEN Never ELSE high - Overlap

(* poll_overlap begins, with what the database says then.                  *)
BeginPoll ==
  /\ dpc' = "poll"
  /\ start' = WindowStart(mark', local')
  /\ at' = NoCursor /\ newest' = Never /\ page' = NoPage

EndPass == dpc' = "idle" /\ start' = Never /\ at' = NoCursor /\ newest' = Never /\ page' = NoPage

(* run_once                                                                *)
RunOnce ==
  /\ dpc = "idle"
  /\ UNCHANGED <<upstream, durable, reconcile, troubles>>
  /\ IF done THEN BeginPoll ELSE dpc' = "backfill" /\ UNCHANGED <<start, at, newest, page>>

(* A request fails: the pass ends, and is begun again after a delay.       *)
RequestFails ==
  /\ dpc \in {"backfill", "poll"}
  /\ Trouble
  /\ EndPass
  /\ UNCHANGED <<upstream, durable, reconcile>>

BackfillPage ==
  /\ dpc = "backfill" /\ Valid(cursor)
  /\ page' = Query(cursor, Never)
  /\ dpc' = "save"
  /\ UNCHANGED <<upstream, durable, start, at, newest, reconcile, troubles>>

(* Mutant: the cursor that was refused is kept.                            *)
CursorIsKept ==
  /\ dpc = "backfill" /\ ~Valid(cursor)
  /\ EndPass
  /\ UNCHANGED <<upstream, durable, reconcile, troubles>>

BackfillReset ==
  /\ dpc = "backfill" /\ ~Valid(cursor)
  /\ cursor' = NoCursor
  /\ EndPass
  /\ UNCHANGED <<upstream, local, mark, done, rcursor, reconcile, troubles>>

AdvanceMark(p) == mark' = Later(mark, Newest(Parsed(p)))

(* The page, the mark and the cursor are saved one after the other; the    *)
(* last page ends the backfill, any other one is followed by the next page *)
(* or by a poll of the head.                                               *)
SavePage ==
  /\ dpc = "save"
  /\ local' = local \cup Parsed(page)
  /\ AdvanceMark(page)
  /\ cursor' = page.next
  /\ IF page.next = NoCursor
     THEN done' = TRUE /\ EndPass
     ELSE /\ UNCHANGED done
          /\ \/ dpc' = "backfill" /\ page' = NoPage /\ UNCHANGED <<start, at, newest>>
             \/ BeginPoll
  /\ UNCHANGED <<upstream, rcursor, reconcile, troubles>>

PollPage ==
  /\ dpc = "poll" /\ Valid(at)
  /\ page' = Query(at, start)
  /\ dpc' = "overlap"
  /\ UNCHANGED <<upstream, durable, start, at, newest, reconcile, troubles>>

PollReset ==
  /\ dpc = "poll" /\ ~Valid(at)
  /\ EndPass
  /\ UNCHANGED <<upstream, durable, reconcile, troubles>>

(* Without a window one page is enough: "the backfill owns the rest".      *)
SavePoll ==
  /\ dpc = "overlap"
  /\ local' = local \cup Parsed(page)
  /\ IF page.next = NoCursor \/ start = Never
     THEN /\ mark' = Later(mark, Later(newest, Newest(Parsed(page))))
          /\ EndPass
     ELSE /\ dpc' = "poll"
          /\ at' = page.next
          /\ newest' = Later(newest, Newest(Parsed(page)))
          /\ page' = NoPage
          /\ UNCHANGED <<mark, start>>
  /\ UNCHANGED <<upstream, done, cursor, rcursor, reconcile, troubles>>

-----------------------------------------------------------------------------
(* The reconciliation task: its next request is made at once, or in the    *)
(* next pass, six hours later.                                             *)

ReconcilePage ==
  /\ rpc = "ask" /\ Valid(rcursor)
  /\ rpage' = Query(rcursor, Never)
  /\ rpc' = "save"
  /\ UNCHANGED <<upstream, durable, discovery, troubles>>

(* The pass ends where it is, and the next one goes on from there.         *)
ReconcilePauses ==
  /\ rpc = "ask"
  /\ Trouble
  /\ UNCHANGED <<upstream, durable, discovery, reconcile>>

(* Mutant: the cursor that was refused is kept.                            *)
ReconcileIsStuck ==
  /\ rpc = "ask" /\ ~Valid(rcursor)
  /\ UNCHANGED discoveryVars

ReconcileReset ==
  /\ rpc = "ask" /\ ~Valid(rcursor)
  /\ rcursor' = NoCursor
  /\ UNCHANGED <<upstream, local, mark, done, cursor, discovery, reconcile, troubles>>

SaveReconciled ==
  /\ rpc = "save"
  /\ local' = local \cup Parsed(rpage)
  /\ rcursor' = rpage.next
  /\ rpc' = "ask" /\ rpage' = NoPage
  /\ UNCHANGED <<upstream, mark, done, cursor, discovery, troubles>>

-----------------------------------------------------------------------------
(* The process is killed; it may be between two of the writes of a page.   *)

Nowhere ==
  /\ dpc' = "idle" /\ start' = Never /\ at' = NoCursor /\ newest' = Never /\ page' = NoPage
  /\ rpc' = "ask" /\ rpage' = NoPage
  /\ Trouble

Crash == Nowhere /\ UNCHANGED <<upstream, durable>>

(* Mutant: the cursor is saved before the page.                            *)
CursorFirst ==
  /\ dpc = "save"
  /\ cursor' = page.next
  /\ Nowhere
  /\ UNCHANGED <<upstream, local, mark, done, rcursor>>

CrashInBackfill ==
  /\ dpc = "save"
  /\ local' = local \cup Parsed(page)
  /\ \/ UNCHANGED <<mark, cursor>>
     \/ AdvanceMark(page) /\ cursor' \in {cursor, page.next}
  /\ Nowhere
  /\ UNCHANGED <<upstream, done, rcursor>>

CrashInPoll ==
  /\ dpc = "overlap"
  /\ local' = local \cup Parsed(page)
  /\ Nowhere
  /\ UNCHANGED <<upstream, mark, done, cursor, rcursor>>

CrashInReconcile ==
  /\ rpc = "save"
  /\ local' = local \cup Parsed(rpage)
  /\ Nowhere
  /\ UNCHANGED <<upstream, mark, done, cursor, rcursor>>

-----------------------------------------------------------------------------
DiscoveryInit ==
  /\ time \in {f \in [EventIds -> Times \cup {Never}] :
                 \A e \in EventIds : f[e] # Never <=> e \in History}
  /\ signing = 0 /\ late = {}
  /\ local = {} /\ mark = Never /\ done = FALSE
  /\ cursor = NoCursor /\ rcursor = NoCursor
  /\ dpc = "idle" /\ start = Never /\ at = NoCursor /\ newest = Never /\ page = NoPage
  /\ rpc = "ask" /\ rpage = NoPage
  /\ troubles = 0

Discover ==
  \/ RunOnce \/ RequestFails
  \/ BackfillPage \/ BackfillReset \/ SavePage
  \/ PollPage \/ PollReset \/ SavePoll

Reconciling ==
  ReconcilePage \/ ReconcilePauses \/ ReconcileReset \/ SaveReconciled

DiscoveryNext ==
  \/ \E e \in EventIds, t \in Times : Commit(e, t)
  \/ ChangeKey
  \/ Discover \/ Reconciling
  \/ Crash \/ CrashInBackfill \/ CrashInPoll \/ CrashInReconcile

(* The discovery task is scheduled whenever it can go on.                  *)
DiscoverySpec == DiscoveryInit /\ [][DiscoveryNext]_discoveryVars /\ WF_discoveryVars(Discover)
-----------------------------------------------------------------------------
Marks == Times \cup {Never}
Page  == [events : SUBSET EventIds, next : Cursor]

DiscoveryTypeOK ==
  /\ time \in [EventIds -> Marks] /\ signing \in 0..MaxTroubles /\ late \in SUBSET EventIds
  /\ local \in SUBSET EventIds /\ mark \in Marks /\ done \in BOOLEAN
  /\ cursor \in Cursor /\ rcursor \in Cursor
  /\ dpc \in {"idle", "backfill", "save", "poll", "overlap"}
  /\ start \in (0 - Overlap)..MaxTime \cup {Never}
  /\ at \in Cursor /\ newest \in Marks /\ page \in Page
  /\ rpc \in {"ask", "save"} /\ rpage \in Page
  /\ troubles \in 0..MaxTroubles

(* Discovery loses no event, whatever fails and whenever the process is    *)
(* killed: an event that is not mirrored yet lies in the window of the     *)
(* next poll, or the backfill still has to come to it.  Only an event that *)
(* was committed more than the overlap behind is left to reconciliation.   *)
Ahead(e) == ~done /\ (cursor = NoCursor \/ Before(e, cursor.event))

NothingIsSkipped ==
  \A e \in Committed \ (Malformed \cup local \cup late) :
    Ahead(e) \/ time[e] >= WindowStart(mark, local)

(* Every event that was committed in time is mirrored by the backfill and  *)
(* the polls alone.                                                        *)
OnTimeEventsAreFound ==
  \A e \in EventIds \ Malformed : (e \in Committed \ late) ~> (e \in local)

(* With the reconciliation running, every event is.                        *)
AllEventsAreFound ==
  WF_discoveryVars(Reconciling) => \A e \in EventIds \ Malformed : (e \in Committed) ~> (e \in local)
=============================================================================
