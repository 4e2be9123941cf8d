---------------------------- MODULE EventStorage ----------------------------
(***************************************************************************)
(* The durable record of line crossings: a directory with two images per   *)
(* event, and a row of the database.  Workers (threads of analytics        *)
(* cameras) persist crossings, and persist one crossing in several         *)
(* attempts when the disk or the database fails; two of them may persist   *)
(* the same crossing.  The process may be killed between any two steps;    *)
(* the start of the service then reconciles the directories with the rows. *)
(*                                                                         *)
(* A crossing is known by its key (camera, line, session, track and        *)
(* direction), on which the table has a UNIQUE index.                      *)
(***************************************************************************)
EXTENDS Naturals, FiniteSets

CONSTANTS
  Workers,      (* threads that persist crossings                          *)
  Keys, NoKey,  (* of crossings                                            *)
  Ids, NoId,    (* of events; new_event_id draws 128 random bits           *)
  MaxAttempts,  (* the length of EVENT_RETRY_DELAYS                        *)
  MaxFaults,    (* bound: calls of the disk or the database that fail      *)
  MaxCrashes    (* bound: times the process is killed                      *)

ASSUME NothingIsAValue == NoKey \notin Keys /\ NoId \notin Ids
ASSUME NumbersAreNatural ==
  MaxAttempts \in Nat \ {0} /\ MaxFaults \in Nat /\ MaxCrashes \in Nat

Images == {"frame", "crop"}        (* of an event                             *)
Dirs   == {"none", "temp", "final"}

(* What an id has in the table: no row, or the row of a crossing.          *)
Row == Keys \cup {NoKey}

VARIABLES
  (* durable *)
  row,       (* the table: the key of each event, or NoKey                 *)
  name,      (* of an event's directory                                    *)
  images,    (* the complete images in it                                  *)
  (* of each worker *)
  pc,
  key, crop, (* the crossing it persists; whether the crop is usable       *)
  id,        (* of the event it is writing                                 *)
  attempt,
  fired,     (* crossings its engine knows to be persisted                 *)
  stopping,
  (* of the process *)
  service, known, todo,
  (* bounds, and the directories that a failed removal left *)
  faults, crashes, left

disk    == <<name, images>>
worker  == <<pc, key, crop, id, attempt, fired, stopping>>
boot    == <<service, known, todo>>
bounds  == <<faults, crashes>>
vars    == <<row, disk, worker, boot, bounds, left>>

Working == {"lookup", "make", "frame", "crop", "rename", "insert", "undo",
            "lost", "winner", "wait"}

(* The row of a crossing, as find_by_dedupe_key looks for it.              *)
Recorded(k) == \E e \in Ids : row[e] = k

(* What resolve_image answers for the two paths of a row.                  *)
ResolveImage(e) == name[e] = "final" /\ images[e] = Images

(* What the start of the service counts, and what the verifier reports.    *)
MissingArtifacts == {e \in Ids : row[e] # NoKey /\ ~ResolveImage(e)}

Orphans == {e \in Ids : row[e] = NoKey /\ name[e] = "final"}

Problems == MissingArtifacts \cup Orphans \cup {e \in Ids : name[e] = "temp"}

At(w, step) == service = "up" /\ pc[w] = step

Goto(w, step) == pc' = [pc EXCEPT ![w] = step]

(* A call of the disk or of the database raises.                           *)
Fault == faults < MaxFaults /\ faults' = faults + 1

NoFault == UNCHANGED faults

(* The crossing is done with, in one way or another.                       *)
Leave(w, step) ==
  /\ Goto(w, step)
  /\ key' = [key EXCEPT ![w] = NoKey]
  /\ crop' = [crop EXCEPT ![w] = FALSE]
  /\ id' = [id EXCEPT ![w] = NoId]
  /\ attempt' = [attempt EXCEPT ![w] = 0]

(* Mutant: the last failure skips the crossing instead of ending the worker. *)
SkipsTheCrossing(w) ==
  \/ /\ attempt[w] < MaxAttempts
     /\ Goto(w, "wait")
     /\ id' = [id EXCEPT ![w] = NoId]
     /\ UNCHANGED <<key, crop, attempt>>
  \/ /\ attempt[w] = MaxAttempts
     /\ Leave(w, "idle")

(* _persist_event tries again, or gives up: the worker is fatal.           *)
AttemptFails(w) ==
  \/ /\ attempt[w] < MaxAttempts
     /\ Goto(w, "wait")
     /\ id' = [id EXCEPT ![w] = NoId]
     /\ UNCHANGED <<key, crop, attempt>>
  \/ /\ attempt[w] = MaxAttempts
     /\ Leave(w, "ended")

(* An answer other than INVALID_CROP: mark_persisted, and the next crossing. *)
Answer(w) ==
  /\ Leave(w, "idle")
  /\ fired' = [fired EXCEPT ![w] = @ \cup {key[w]}]

-----------------------------------------------------------------------------
(* The worker                                                              *)

Observe(w, k, usable) ==
  /\ At(w, "idle") /\ ~stopping[w]
  /\ k \notin fired[w]
  /\ Goto(w, "lookup")
  /\ key' = [key EXCEPT ![w] = k]
  /\ crop' = [crop EXCEPT ![w] = usable]
  /\ attempt' = [attempt EXCEPT ![w] = 1]
  /\ UNCHANGED <<row, disk, id, fired, stopping, boot, bounds, left>>

(* The track of a persisted crossing is removed, and prune forgets it.     *)
Prune(w, k) ==
  /\ At(w, "idle")
  /\ k \in fired[w]
  /\ fired' = [fired EXCEPT ![w] = @ \ {k}]
  /\ UNCHANGED <<row, disk, pc, key, crop, id, attempt, stopping, boot, bounds, left>>

RequestStop(w) ==
  /\ service = "up" /\ pc[w] # "ended" /\ ~stopping[w]
  /\ stopping' = [stopping EXCEPT ![w] = TRUE]
  /\ UNCHANGED <<row, disk, pc, key, crop, id, attempt, fired, boot, bounds, left>>

(* The pump sees the stop before its next frame; a wait between two        *)
(* attempts is cut short, and the crossing is given up.                    *)
Stops(w) ==
  /\ At(w, "idle") \/ At(w, "wait")
  /\ stopping[w]
  /\ Leave(w, "ended")
  /\ UNCHANGED <<row, disk, fired, stopping, boot, bounds, left>>

Retry(w) ==
  /\ At(w, "wait") /\ ~stopping[w]
  /\ Goto(w, "lookup")
  /\ attempt' = [attempt EXCEPT ![w] = @ + 1]
  /\ UNCHANGED <<row, disk, key, crop, id, fired, stopping, boot, bounds, left>>

(* The manager starts a worker in the place of one that ended.             *)
StartWorker(w) ==
  /\ At(w, "ended")
  /\ Goto(w, "idle")
  /\ fired' = [fired EXCEPT ![w] = {}]
  /\ stopping' = [stopping EXCEPT ![w] = FALSE]
  /\ UNCHANGED <<row, disk, key, crop, id, attempt, boot, bounds, left>>

-----------------------------------------------------------------------------
(* commit_event                                                            *)

(* Mutant: a dropped crossing is marked as persisted.                      *)
InvalidCropMarks(w) ==
  /\ At(w, "lookup") /\ ~Recorded(key[w]) /\ ~crop[w]
  /\ Answer(w)
  /\ UNCHANGED <<row, disk, stopping, boot, bounds, left>>

LookupFinds(w) ==
  /\ At(w, "lookup") /\ Recorded(key[w])
  /\ Answer(w)
  /\ UNCHANGED <<row, disk, stopping, boot, bounds, left>>

InvalidCrop(w) ==
  /\ At(w, "lookup") /\ ~Recorded(key[w]) /\ ~crop[w]
  /\ Leave(w, "idle")
  /\ UNCHANGED <<row, disk, fired, stopping, boot, bounds, left>>

(* The images are encoded and the id is drawn.                             *)
Unused(e) == row[e] = NoKey /\ name[e] = "none" /\ \A w \in Workers : id[w] # e

Encode(w) ==
  /\ At(w, "lookup") /\ ~Recorded(key[w]) /\ crop[w]
  /\ Goto(w, "make")
  /\ \E e \in Ids : Unused(e) /\ id' = [id EXCEPT ![w] = e]
  /\ UNCHANGED <<row, disk, key, crop, attempt, fired, stopping, boot, bounds, left>>

(* Before the temporary directory exists nothing has to be undone.         *)
EarlyFailure(w) ==
  /\ At(w, "lookup") \/ At(w, "make")
  /\ Fault
  /\ AttemptFails(w)
  /\ UNCHANGED <<row, disk, fired, stopping, boot, crashes, left>>

MakeTemp(w) ==
  /\ At(w, "make")
  /\ Goto(w, "frame")
  /\ name' = [name EXCEPT ![id[w]] = "temp"]
  /\ UNCHANGED <<row, images, key, crop, id, attempt, fired, stopping, boot, bounds, left>>

WriteFile(w) ==
  /\ At(w, "frame") \/ At(w, "crop")
  /\ images' = [images EXCEPT ![id[w]] = @ \cup {pc[w]}]
  /\ Goto(w, IF pc[w] = "frame" THEN "crop" ELSE "rename")
  /\ UNCHANGED <<row, name, key, crop, id, attempt, fired, stopping, boot, bounds, left>>

(* The directory of the day is synced before the insert, and a failure     *)
(* there has the effect of a failed insert.                                *)
Rename(w) ==
  /\ At(w, "rename")
  /\ name' = [name EXCEPT ![id[w]] = "final"]
  /\ Goto(w, "insert")
  /\ UNCHANGED <<row, images, key, crop, id, attempt, fired, stopping, boot, bounds, left>>

(* Mutant: the insert raises after its transaction was committed.          *)
FailsAfterCommit(w) ==
  /\ At(w, "insert") /\ ~Recorded(key[w])
  /\ Fault
  /\ row' = [row EXCEPT ![id[w]] = key[w]]
  /\ Goto(w, "undo")
  /\ UNCHANGED <<disk, key, crop, id, attempt, fired, stopping, boot, crashes, left>>

(* Mutant: the table has no UNIQUE index on the key.                       *)
InsertAnyway(w) ==
  /\ At(w, "insert")
  /\ row' = [row EXCEPT ![id[w]] = key[w]]
  /\ Answer(w)
  /\ UNCHANGED <<disk, stopping, boot, bounds, left>>

(* A call of the disk raises, or the transaction of the insert is rolled back. *)
StepFails(w) ==
  /\ \E step \in {"frame", "crop", "rename", "insert"} : At(w, step)
  /\ Fault
  /\ Goto(w, "undo")
  /\ UNCHANGED <<row, disk, key, crop, id, attempt, fired, stopping, boot, crashes, left>>

Insert(w) ==
  /\ At(w, "insert") /\ ~Recorded(key[w])
  /\ row' = [row EXCEPT ![id[w]] = key[w]]
  /\ Answer(w)
  /\ UNCHANGED <<disk, stopping, boot, bounds, left>>

(* The UNIQUE index refuses the row: another worker won.                   *)
InsertConflicts(w) ==
  /\ At(w, "insert") /\ Recorded(key[w])
  /\ Goto(w, "lost")
  /\ UNCHANGED <<row, disk, key, crop, id, attempt, fired, stopping, boot, bounds, left>>

(* rmtree removes the directory of event e, or fails on the way and leaves *)
(* the directory with some of its images; nobody hears of the failure.     *)
Removed(e) ==
  /\ name' = [name EXCEPT ![e] = "none"]
  /\ images' = [images EXCEPT ![e] = {}]
  /\ NoFault
  /\ left' = left \ {e}

NotRemoved(e) ==
  /\ \E some \in SUBSET images[e] : images' = [images EXCEPT ![e] = some]
  /\ Fault
  /\ left' = left \cup {e}
  /\ UNCHANGED name

Cleanup(e) == Removed(e) \/ NotRemoved(e)

Undo(w) ==
  /\ At(w, "undo")
  /\ Cleanup(id[w])
  /\ AttemptFails(w)
  /\ UNCHANGED <<row, fired, stopping, boot, crashes>>

Lose(w) ==
  /\ At(w, "lost")
  /\ Cleanup(id[w])
  /\ Goto(w, "winner")
  /\ UNCHANGED <<row, key, crop, id, attempt, fired, stopping, boot, crashes>>

FindWinner(w) ==
  /\ At(w, "winner") /\ Recorded(key[w])
  /\ Answer(w)
  /\ UNCHANGED <<row, disk, stopping, boot, bounds, left>>

WinnerFails(w) ==
  /\ At(w, "winner")
  /\ Recorded(key[w]) => faults < MaxFaults
  /\ faults' = IF Recorded(key[w]) THEN faults + 1 ELSE faults
  /\ AttemptFails(w)
  /\ UNCHANGED <<row, disk, fired, stopping, boot, crashes, left>>

-----------------------------------------------------------------------------
(* The process                                                             *)

Idle == [w \in Workers |-> "idle"]

Fresh ==
  /\ key' = [w \in Workers |-> NoKey]
  /\ crop' = [w \in Workers |-> FALSE]
  /\ id' = [w \in Workers |-> NoId]
  /\ attempt' = [w \in Workers |-> 0]
  /\ fired' = [w \in Workers |-> {}]
  /\ stopping' = [w \in Workers |-> FALSE]

Crash ==
  /\ service # "down"
  /\ crashes < MaxCrashes /\ crashes' = crashes + 1
  /\ service' = "down"
  /\ pc' = Idle /\ Fresh
  /\ known' = {} /\ todo' = {}
  /\ UNCHANGED <<row, disk, faults, left>>

(* Mutant: only the temporary directories are swept.                       *)
AbandonedTemp(e) == name[e] = "temp"

(* reconcile_startup lists the rows, and then walks the directories.       *)
ListRows ==
  /\ service = "down"
  /\ service' = "scan"
  /\ known' = {e \in Ids : row[e] # NoKey}
  /\ todo' = {e \in Ids : name[e] # "none"}
  /\ UNCHANGED <<row, disk, worker, bounds, left>>

Abandoned(e) == name[e] = "temp" \/ e \notin known

Sweep(e) ==
  /\ service = "scan" /\ e \in todo
  /\ todo' = todo \ {e}
  /\ IF Abandoned(e) THEN Cleanup(e) ELSE UNCHANGED <<disk, faults, left>>
  /\ UNCHANGED <<row, worker, service, known, crashes>>

StartWorkers ==
  /\ service = "scan" /\ todo = {}
  /\ service' = "up"
  /\ UNCHANGED <<row, disk, worker, known, todo, bounds, left>>

-----------------------------------------------------------------------------
Init ==
  /\ row = [e \in Ids |-> NoKey]
  /\ name = [e \in Ids |-> "none"]
  /\ images = [e \in Ids |-> {}]
  /\ pc = Idle
  /\ key = [w \in Workers |-> NoKey]
  /\ crop = [w \in Workers |-> FALSE]
  /\ id = [w \in Workers |-> NoId]
  /\ attempt = [w \in Workers |-> 0]
  /\ fired = [w \in Workers |-> {}]
  /\ stopping = [w \in Workers |-> FALSE]
  /\ service = "down" /\ known = {} /\ todo = {}
  /\ faults = 0 /\ crashes = 0 /\ left = {}

(* The steps a worker takes by itself once it has a crossing.              *)
Commit(w) ==
  \/ LookupFinds(w) \/ InvalidCrop(w) \/ Encode(w) \/ EarlyFailure(w)
  \/ MakeTemp(w) \/ WriteFile(w) \/ Rename(w) \/ StepFails(w)
  \/ Insert(w) \/ InsertConflicts(w)
  \/ Undo(w) \/ Lose(w) \/ FindWinner(w) \/ WinnerFails(w)

Startup == ListRows \/ (\E e \in Ids : Sweep(e)) \/ StartWorkers

Next ==
  \/ \E w \in Workers :
       \/ \E k \in Keys, usable \in BOOLEAN : Observe(w, k, usable)
       \/ \E k \in Keys : Prune(w, k)
       \/ RequestStop(w) \/ Stops(w) \/ Retry(w) \/ StartWorker(w)
       \/ Commit(w)
  \/ Crash
  \/ Startup

(* A thread that has something to do is scheduled, a delay elapses, and    *)
(* the container is restarted.                                             *)
Fairness ==
  /\ \A w \in Workers : WF_vars(Commit(w) \/ Retry(w) \/ Stops(w))
  /\ WF_vars(Startup)

Spec == Init /\ [][Next]_vars /\ Fairness
-----------------------------------------------------------------------------
TypeOK ==
  /\ row \in [Ids -> Row]
  /\ name \in [Ids -> Dirs]
  /\ images \in [Ids -> SUBSET Images]
  /\ pc \in [Workers -> {"idle", "ended"} \cup Working]
  /\ key \in [Workers -> Row]
  /\ crop \in [Workers -> BOOLEAN]
  /\ id \in [Workers -> Ids \cup {NoId}]
  /\ attempt \in [Workers -> 0..MaxAttempts]
  /\ fired \in [Workers -> SUBSET Keys]
  /\ stopping \in [Workers -> BOOLEAN]
  /\ service \in {"down", "scan", "up"}
  /\ known \in SUBSET Ids /\ todo \in SUBSET Ids
  /\ faults \in 0..MaxFaults /\ crashes \in 0..MaxCrashes
  /\ left \in SUBSET Ids

(* A row of the table always has both of its images: the image endpoint    *)
(* never answers 410 for an event nobody tampered with, whichever worker   *)
(* lost a race, which clean-up failed and when the process was killed.     *)
RowsHaveArtifacts == MissingArtifacts = {}

(* What an engine no longer reports has really been recorded: a crossing   *)
(* is never suppressed on the strength of a write that was undone.         *)
FiredIsRecorded == \A w \in Workers : \A k \in fired[w] : Recorded(k)

(* The verifier finds no other problem than a commit that is still going   *)
(* on and a directory whose removal failed; after a crash, as soon as the  *)
(* start of the service has swept the directories.                         *)
NothingIsForgotten ==
  service = "up" => Problems \subseteq left \cup {id[w] : w \in Workers}

(* The readers of events see an event store whose events appear whole, at  *)
(* most once for each crossing, and for good.                              *)
Complete == [e \in Ids |-> IF ResolveImage(e) THEN row[e] ELSE NoKey]
Store == INSTANCE EventStore WITH event <- Complete
EventsAppearWhole == Store!Spec

(* A crossing with a usable crop is dropped by a worker that goes on only  *)
(* if it is recorded: nothing but a stop, the last attempt or a crash of   *)
(* the process loses it.                                                   *)
NoCrossingLost ==
  [][\A w \in Workers :
       (pc[w] \in Working /\ crop[w] /\ pc'[w] = "idle" /\ service' = "up")
         => \E e \in Ids : row'[e] = key[w]]_vars
=============================================================================
