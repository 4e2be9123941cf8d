---------------------------- MODULE SemanticIndex ----------------------------
(***************************************************************************)
(* The index of the semantic search: the representations of discovered     *)
(* events in SQLite with their state machine and the index revision, the   *)
(* indexer that claims and embeds them in batches, the rebuilds that       *)
(* publish them as one immutable snapshot, and the reconciliation that     *)
(* repairs vectors and snapshot.                                           *)
(*                                                                         *)
(* Three processes interleave: the indexer, its rebuild or that of the     *)
(* reconciliation (each a thread of its own), and the reconciliation.  A   *)
(* step is one transaction or one read of the database, one call that is   *)
(* awaited, or one swap of the snapshot.  Which of the eligible events a   *)
(* batch takes (three newest first, then one oldest first) is left open.   *)
(***************************************************************************)
EXTENDS Naturals, FiniteSets

CONSTANTS
  Events,          (* event ids of the analytics, which are ordered        *)
  BatchSize,       (* semantic_index_batch_size                            *)
  Threshold,       (* _MODEL_FAILURE_THRESHOLD                             *)
  MaxMishaps,      (* bound: failed or deferred calls, vectors that become *)
                   (* unreadable and restarts of the service, together     *)
  MaxCorruptions   (* bound: vectors that become unreadable                *)

ASSUME EventsAssumption == Events \subseteq Nat
ASSUME SizesAssumption == {BatchSize, Threshold} \subseteq Nat \ {0}
ASSUME BoundsAssumption == {MaxMishaps, MaxCorruptions} \subseteq Nat

Kinds == {"crop", "frame"}
Items == Events \X Kinds

VARIABLES
  (* durable: the representations and system_state tables *)
  rep,        (* per item: its state                                       *)
  corrupt,    (* items whose stored vector does not validate               *)
  revision,   (* index_revision                                            *)
  (* the snapshot store, and whether the service has started *)
  snapshot,
  running,
  model,      (* the embedding model is ready                              *)
  (* the indexer *)
  pc,
  todo,       (* items of the current kind still to be fetched             *)
  images,     (* items fetched, to be embedded and settled                 *)
  later,      (* claimed frames, while the crops are worked on             *)
  changed,    (* the batch indexed something or gave something up          *)
  indexedOne, (* the retries one by one indexed something                  *)
  strikes,    (* _model_failures                                           *)
  (* the rebuild of each task, and the reconciliation *)
  rebuild,
  reconcile,
  foundInvalid,
  (* history *)
  abandoned,  (* claims of batches that ended in an unexpected exception   *)
  overlapped, (* the last rebuild was begun while another one was under way *)
  (* bounds *)
  mishaps, corruptions

durable == <<rep, corrupt, revision>>
batch   == <<pc, todo, images, later, changed, indexedOne, strikes, model>>
tasks   == <<rebuild, reconcile, foundInvalid>>
history == <<abandoned, overlapped>>
bounds  == <<mishaps, corruptions>>
vars    == <<durable, snapshot, running, batch, tasks, history, bounds>>

(* "waiting" is retryable before next_retry_at, "retryable" after it. *)
RepStates == {"absent", "pending", "waiting", "retryable", "indexing", "indexed",
              "permanent_error"}
Rebuilders == {"indexer", "reconciliation"}
Snapshot   == [revision : Nat, items : SUBSET Items]
Rebuild    ==
  [at : {"off", "load", "reset", "reload", "revision", "publish"},
   items : SUBSET Items, invalid : SUBSET Items, revision : Nat]

TypeOK ==
  /\ rep \in [Items -> RepStates]
  /\ corrupt \subseteq Items
  /\ revision \in Nat
  /\ snapshot \in Snapshot
  /\ running \in BOOLEAN /\ model \in BOOLEAN
  /\ pc \in {"idle", "fetch", "commit", "release", "alone", "rebuild"}
  /\ todo \subseteq Items /\ images \subseteq Items /\ later \subseteq Items
  /\ changed \in BOOLEAN /\ indexedOne \in BOOLEAN /\ strikes \in Nat
  /\ rebuild \in [Rebuilders -> Rebuild]
  /\ reconcile \in {"idle", "compare", "rebuild"}
  /\ foundInvalid \in BOOLEAN
  /\ abandoned \subseteq Items /\ overlapped \in BOOLEAN
  /\ mishaps \in Nat /\ corruptions \in Nat

-----------------------------------------------------------------------------
(* Derived state *)

Indexed == {x \in Items : rep[x] = "indexed"}
Valid   == Indexed \ corrupt
Invalid == Indexed \cap corrupt
Claimed == todo \cup images \cup later

(* Mutant: what failed once is never claimed again. *)
ClaimableOnce(x) == rep[x] = "pending"

Claimable(x) == rep[x] \in {"pending", "retryable"}

(* build_snapshot: only an event with a crop is in it. *)
Searchable(S) == {x \in S : <<x[1], "crop">> \in S}

(* A group is worked off in the order of its event ids. *)
IsNext(x, group) == x \in group /\ \A y \in group : x[1] <= y[1]

NoRebuild == [at |-> "off", items |-> {}, invalid |-> {}, revision |-> 0]

(* A rebuild begins; the other task may be in the middle of one. *)
Begin(r) ==
  /\ rebuild' = [rebuild EXCEPT ![r].at = "load"]
  /\ overlapped' = \E other \in Rebuilders \ {r} : rebuild[other].at # "off"

-----------------------------------------------------------------------------
(* Discovery, and time *)

Mishap == mishaps < MaxMishaps /\ mishaps' = mishaps + 1

(* upsert_page: an event comes with both of its representations. *)
Discover(e) ==
  /\ running
  /\ \A k \in Kinds : rep[<<e, k>>] = "absent"
  /\ rep' = [x \in Items |-> IF x[1] = e THEN "pending" ELSE rep[x]]
  /\ UNCHANGED <<corrupt, revision, snapshot, running, batch, tasks, history, bounds>>

RetryDue(x) ==
  /\ rep[x] = "waiting"
  /\ rep' = [rep EXCEPT ![x] = "retryable"]
  /\ UNCHANGED <<corrupt, revision, snapshot, running, batch, tasks, history, bounds>>

Corrupt(x) ==
  /\ Mishap
  /\ corruptions < MaxCorruptions
  /\ corruptions' = corruptions + 1
  /\ x \in Valid
  /\ corrupt' = corrupt \cup {x}
  /\ UNCHANGED <<rep, revision, snapshot, running, batch, tasks, history>>

-----------------------------------------------------------------------------
(* Outcomes of one item.  They are written whatever its state is by now.   *)

(* Mutant: a frame by itself is no reason to publish. *)
MarkIndexedOfCrop(x) ==
  /\ rep' = [rep EXCEPT ![x] = "indexed"]
  /\ corrupt' = corrupt \ {x}
  /\ revision' = revision + 1
  /\ changed' = (changed \/ x[2] = "crop")

(* Mutant: the vector is written, the revision left alone. *)
MarkIndexedOnly(x) ==
  /\ rep' = [rep EXCEPT ![x] = "indexed"]
  /\ corrupt' = corrupt \ {x}
  /\ changed' = TRUE
  /\ UNCHANGED revision

(* mark_indexed *)
MarkIndexed(x) ==
  /\ rep' = [rep EXCEPT ![x] = "indexed"]
  /\ corrupt' = corrupt \ {x}
  /\ revision' = revision + 1
  /\ changed' = TRUE

(* mark_retryable *)
MarkRetryable(x) ==
  /\ rep' = [rep EXCEPT ![x] = "waiting"]
  /\ UNCHANGED <<corrupt, revision, changed>>

(* mark_permanent_error: the embedding is cleared. *)
MarkPermanent(x) ==
  /\ rep' = [rep EXCEPT ![x] = "permanent_error"]
  /\ corrupt' = corrupt \ {x}
  /\ revision' = IF x \in Indexed THEN revision + 1 ELSE revision
  /\ changed' = TRUE

(* release_claim *)
ReleaseClaim(x) ==
  /\ rep' = [rep EXCEPT ![x] = IF @ = "indexing" THEN "pending" ELSE @]
  /\ UNCHANGED <<corrupt, revision, changed>>

(* A commit succeeds, or is refused for a vector of the wrong norm. *)
Commit(x) ==
  \/ MarkIndexed(x) /\ indexedOne' = (pc = "alone") /\ UNCHANGED mishaps
  \/ Mishap /\ MarkRetryable(x) /\ UNCHANGED indexedOne

-----------------------------------------------------------------------------
(* The indexer *)

IndexerOnly == UNCHANGED <<snapshot, running, reconcile, foundInvalid, corruptions>>

(* claim_batch: all that is due of at most BatchSize events, crops first.   *)
Claim ==
  /\ running /\ pc = "idle" /\ model
  /\ LET due == {e \in Events : \E k \in Kinds : Claimable(<<e, k>>)}
         size == IF Cardinality(due) < BatchSize THEN Cardinality(due) ELSE BatchSize
     IN \E E \in SUBSET due :
          LET claimed == {x \in E \X Kinds : Claimable(x)}
              crops   == claimed \cap (Events \X {"crop"})
          IN /\ E # {} /\ Cardinality(E) = size
             /\ rep' = [x \in Items |-> IF x \in claimed THEN "indexing" ELSE rep[x]]
             /\ todo' = IF crops = {} THEN claimed ELSE crops
             /\ later' = claimed \ todo'
  /\ pc' = "fetch" /\ changed' = FALSE
  /\ UNCHANGED <<corrupt, revision, images, indexedOne, strikes, model, rebuild, history, bounds>>
  /\ IndexerOnly

(* fetch_artifact and decoding *)
Fetch(x) ==
  /\ pc = "fetch" /\ IsNext(x, todo)
  /\ \/ /\ images' = images \cup {x}
        /\ UNCHANGED <<durable, changed, mishaps>>
     \/ Mishap /\ MarkPermanent(x) /\ UNCHANGED images
     \/ Mishap /\ MarkRetryable(x) /\ UNCHANGED images
  /\ todo' = todo \ {x}
  /\ UNCHANGED <<pc, later, indexedOne, strikes, model, rebuild, history>>
  /\ IndexerOnly

(* The body breaks off while it is read: an exception nobody expects ends   *)
(* the batch, and run goes on with the next one.                            *)
FetchBreaksOff ==
  /\ pc = "fetch" /\ todo # {}
  /\ Mishap
  /\ abandoned' = abandoned \cup Claimed
  /\ pc' = "idle" /\ todo' = {} /\ images' = {} /\ later' = {} /\ changed' = FALSE
  /\ UNCHANGED <<durable, indexedOne, strikes, model, rebuild, overlapped>>
  /\ IndexerOnly

(* After a kind: the frames, if any; else the rebuild, if there is a reason. *)
NextKind ==
  /\ later' = {} /\ todo' = later
  /\ pc' = CASE later # {}            -> "fetch"
             [] later = {} /\ changed -> "rebuild"
             [] OTHER                 -> "idle"
  /\ IF pc' = "rebuild" THEN Begin("indexer") ELSE UNCHANGED <<rebuild, overlapped>>

(* Nothing was fetched: the kind is done.  Else embed_background_batch,      *)
(* which succeeds, is deferred because a search waits, or fails.            *)
Embed ==
  /\ pc = "fetch" /\ todo = {}
  /\ \/ /\ images = {} /\ NextKind
        /\ UNCHANGED <<strikes, mishaps>>
     \/ /\ images # {}
        /\ \/ pc' = "commit" /\ strikes' = 0 /\ UNCHANGED mishaps
           \/ Mishap /\ pc' \in {"release", "alone"} /\ UNCHANGED strikes
        /\ UNCHANGED <<todo, later, rebuild, overlapped>>
  /\ UNCHANGED <<durable, images, changed, indexedOne, model, abandoned>>
  /\ IndexerOnly

CommitOne(x) ==
  /\ pc = "commit" /\ IsNext(x, images)
  /\ Commit(x)
  /\ images' = images \ {x}
  /\ UNCHANGED <<pc, todo, later, strikes, model, rebuild, history>>
  /\ IndexerOnly

ReleaseOne(x) ==
  /\ pc = "release" /\ IsNext(x, images)
  /\ ReleaseClaim(x)
  /\ images' = images \ {x}
  /\ UNCHANGED <<pc, todo, later, indexedOne, strikes, model, rebuild, history, bounds>>
  /\ IndexerOnly

(* _retry_individually: what made the batch fail may make an image fail     *)
(* again, which is no fault of its own.                                     *)
RetryAlone(x) ==
  /\ pc = "alone" /\ IsNext(x, images)
  /\ \/ Commit(x) /\ UNCHANGED strikes
     \/ ReleaseClaim(x) /\ UNCHANGED <<indexedOne, strikes, mishaps>>
     \/ /\ MarkPermanent(x) \/ MarkRetryable(x)
        /\ strikes' = strikes + 1 /\ UNCHANGED <<indexedOne, mishaps>>
  /\ images' = images \ {x}
  /\ UNCHANGED <<pc, todo, later, model, rebuild, history>>
  /\ IndexerOnly

KindDone ==
  /\ pc \in {"commit", "release", "alone"} /\ images = {}
  /\ model' = (model /\ ~(pc = "alone" /\ strikes >= Threshold /\ ~indexedOne))
  /\ indexedOne' = FALSE
  /\ NextKind
  /\ UNCHANGED <<durable, images, changed, strikes, abandoned, mishaps>>
  /\ IndexerOnly

IndexerStep ==
  \/ Claim \/ Embed \/ KindDone
  \/ \E x \in Items : Fetch(x) \/ CommitOne(x) \/ ReleaseOne(x) \/ RetryAlone(x)

-----------------------------------------------------------------------------
(* SnapshotRebuilder.rebuild, for the indexer (or the start of the service) *)
(* and for the reconciliation.                                              *)

RebuildOnly(r) == UNCHANGED <<batch, running, reconcile, foundInvalid, snapshot, history, bounds>>

Load(r) ==
  /\ rebuild[r].at = "load"
  /\ rebuild' = [rebuild EXCEPT ![r].items = Valid, ![r].invalid = Invalid,
                   ![r].at = IF Invalid = {} THEN "revision" ELSE "reset"]
  /\ RebuildOnly(r) /\ UNCHANGED durable

(* reset_to_pending: whatever became of the items since they were loaded. *)
Reset(r) ==
  /\ rebuild[r].at = "reset"
  /\ rep' = [x \in Items |-> IF x \in rebuild[r].invalid THEN "pending" ELSE rep[x]]
  /\ corrupt' = corrupt \ rebuild[r].invalid
  /\ revision' = revision + 1
  /\ rebuild' = [rebuild EXCEPT ![r].at = "reload", ![r].invalid = {}]
  /\ RebuildOnly(r)

Reload(r) ==
  /\ rebuild[r].at = "reload"
  /\ rebuild' = [rebuild EXCEPT ![r].items = Valid, ![r].at = "revision"]
  /\ RebuildOnly(r) /\ UNCHANGED durable

ReadRevision(r) ==
  /\ rebuild[r].at = "revision"
  /\ rebuild' = [rebuild EXCEPT ![r].revision = revision, ![r].at = "publish"]
  /\ RebuildOnly(r) /\ UNCHANGED durable

(* The swap; whoever waited for the rebuild goes on. *)
Publish(r) ==
  /\ rebuild[r].at = "publish"
  /\ snapshot' = [revision |-> rebuild[r].revision, items |-> Searchable(rebuild[r].items)]
  /\ rebuild' = [rebuild EXCEPT ![r] = NoRebuild]
  /\ running' = TRUE
  /\ pc' = IF r = "indexer" THEN "idle" ELSE pc
  /\ reconcile' = IF r = "reconciliation" THEN "idle" ELSE reconcile
  /\ changed' = (changed /\ r # "indexer")
  /\ UNCHANGED <<durable, todo, images, later, indexedOne, strikes, model, foundInvalid,
                 history, bounds>>

RebuildStep(r) == Load(r) \/ Reset(r) \/ Reload(r) \/ ReadRevision(r) \/ Publish(r)

-----------------------------------------------------------------------------
(* The end of a pass of the reconciliation *)

Revalidate ==
  /\ running /\ reconcile = "idle"
  /\ foundInvalid' = (Invalid # {})
  /\ reconcile' = "compare"
  /\ UNCHANGED <<durable, snapshot, running, batch, rebuild, history, bounds>>

(* Mutant: the snapshot is repaired for invalid vectors only. *)
CompareVectors ==
  /\ reconcile = "compare"
  /\ IF foundInvalid
     THEN reconcile' = "rebuild" /\ Begin("reconciliation")
     ELSE reconcile' = "idle" /\ UNCHANGED <<rebuild, overlapped>>
  /\ foundInvalid' = FALSE
  /\ UNCHANGED <<durable, snapshot, running, batch, abandoned, bounds>>

Compare ==
  /\ reconcile = "compare"
  /\ IF foundInvalid \/ snapshot.revision # revision
     THEN reconcile' = "rebuild" /\ Begin("reconciliation")
     ELSE reconcile' = "idle" /\ UNCHANGED <<rebuild, overlapped>>
  /\ foundInvalid' = FALSE
  /\ UNCHANGED <<durable, snapshot, running, batch, abandoned, bounds>>

ReconcileStep == Revalidate \/ Compare

-----------------------------------------------------------------------------
(* recover_interrupted *)
Recovered(x) == IF rep[x] = "indexing" THEN "retryable" ELSE rep[x]

(* The service dies at any point and starts again: recover_interrupted,     *)
(* then a rebuild, and only then the background tasks.                      *)
Restart ==
  /\ Mishap
  /\ rep' = [x \in Items |-> Recovered(x)]
  /\ snapshot' = [revision |-> 0, items |-> {}]
  /\ running' = FALSE /\ model' = TRUE
  /\ pc' = "idle" /\ todo' = {} /\ images' = {} /\ later' = {}
  /\ changed' = FALSE /\ indexedOne' = FALSE /\ strikes' = 0
  /\ rebuild' = [r \in Rebuilders |->
                   IF r = "indexer" THEN [NoRebuild EXCEPT !.at = "load"] ELSE NoRebuild]
  /\ reconcile' = "idle" /\ foundInvalid' = FALSE
  /\ abandoned' = {} /\ overlapped' = FALSE
  /\ UNCHANGED <<corrupt, revision, corruptions>>

Init ==
  /\ rep = [x \in Items |-> "absent"]
  /\ corrupt = {} /\ revision = 0
  /\ snapshot = [revision |-> 0, items |-> {}]
  /\ running = FALSE /\ model = TRUE
  /\ pc = "idle" /\ todo = {} /\ images = {} /\ later = {}
  /\ changed = FALSE /\ indexedOne = FALSE /\ strikes = 0
  /\ rebuild = [r \in Rebuilders |->
                  IF r = "indexer" THEN [NoRebuild EXCEPT !.at = "load"] ELSE NoRebuild]
  /\ reconcile = "idle" /\ foundInvalid = FALSE
  /\ abandoned = {} /\ overlapped = FALSE
  /\ mishaps = 0 /\ corruptions = 0

Next ==
  \/ \E e \in Events : Discover(e)
  \/ \E x \in Items : RetryDue(x) \/ Corrupt(x)
  \/ IndexerStep \/ FetchBreaksOff
  \/ \E r \in Rebuilders : RebuildStep(r)
  \/ ReconcileStep
  \/ Restart

(* The loops of the indexer and the reconciliation keep running, threads    *)
(* are scheduled, and the clock runs.                                       *)
Fairness ==
  /\ WF_vars(IndexerStep)
  /\ \A r \in Rebuilders : WF_vars(RebuildStep(r))
  /\ WF_vars(ReconcileStep)
  /\ \A x \in Items : WF_vars(RetryDue(x))

Spec     == Init /\ [][Next]_vars
FairSpec == Spec /\ Fairness

-----------------------------------------------------------------------------
(* Safety *)

(* An item in "indexing" is held by the batch in progress or was left       *)
(* behind by one that broke off: no release, reset, retry or restart        *)
(* strands a claim, and the batch never holds an item twice.                *)
IndexingIsClaimed ==
  /\ \A x \in Items : rep[x] = "indexing" => x \in Claimed \cup abandoned
  /\ \A x \in Claimed : rep[x] \in {"indexing", "pending"}
  /\ todo \cap images = {} /\ later \cap (todo \cup images) = {}

(* Between batches, the snapshot holds exactly the vectors that are stored  *)
(* and readable, under the durable revision: unless the rebuild that        *)
(* published last had overlapped another one, or a batch broke off.         *)
SnapshotIsExact ==
  running /\ pc = "idle" /\ reconcile # "rebuild" /\ ~overlapped /\ abandoned = {} =>
    /\ snapshot.revision = revision
    /\ Searchable(Valid) \subseteq snapshot.items
    /\ snapshot.items \subseteq Searchable(Indexed)

(* repositories.py: "index_revision moves in the same transaction that adds *)
(* or removes an indexed representation", and it never moves back.          *)
RevisionMovesWithVectors ==
  [][/\ revision' >= revision
     /\ Indexed' # Indexed => revision' > revision]_vars

-----------------------------------------------------------------------------
(* Liveness *)

(* Every discovered item ends up indexed, with a vector that can be read,   *)
(* or given up, unless its batch broke off or the model became unavailable. *)
RepresentationsSettle ==
  <>[](model => \A x \in Items \ abandoned :
         rep[x] \in {"absent", "permanent_error"} \/ x \in Valid)

(* Whatever was committed and not published, the snapshot that searches use *)
(* ends up with the revision of the database.                               *)
RevisionIsPublished == <>[](running /\ snapshot.revision = revision)
=============================================================================
