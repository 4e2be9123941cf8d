------------------------- MODULE SemanticIndex_proofs -------------------------
(***************************************************************************)
(* That no claim is stranded, and that the revision of the index moves     *)
(* with its vectors, for every set of events and every size of a batch.    *)
(***************************************************************************)
EXTENDS SemanticIndex, TLAPS

\* A batch is held from its claim to its last outcome, and the indexer does
\* not work on one while its own rebuild, or that of the start, runs.
BatchOK ==
  /\ pc \in {"idle", "rebuild"} => Claimed = {}
  /\ pc \in {"commit", "release", "alone"} => todo = {}
  /\ rebuild["indexer"].at # "off" => pc = "rebuild" \/ ~running
  /\ ~running => pc = "idle" /\ reconcile = "idle" /\ rebuild["reconciliation"].at = "off"

IInv == TypeOK /\ IndexingIsClaimed /\ BatchOK

\* What a step may never do to the revision.
RevisionMoves == revision' >= revision /\ (Indexed' # Indexed => revision' > revision)

-----------------------------------------------------------------------------
\* An idle rebuild, and one that begins.
LEMMA RebuildsAre ==
  ASSUME TypeOK, NEW r \in Rebuilders
  PROVE  /\ NoRebuild \in Rebuild /\ [NoRebuild EXCEPT !.at = "load"] \in Rebuild
         /\ [rebuild EXCEPT ![r].at = "load"] \in [Rebuilders -> Rebuild]
<1>1. NoRebuild \in Rebuild /\ [NoRebuild EXCEPT !.at = "load"] \in Rebuild
  BY DEF NoRebuild, Rebuild
<1>2. [rebuild[r] EXCEPT !.at = "load"] \in Rebuild
  BY DEF TypeOK, Rebuild
<1> QED BY <1>1, <1>2 DEF TypeOK

\* Both kinds of an event are items.
LEMMA ItemsAre ==
  \A x \in Items : x[1] \in Events /\ x[2] \in Kinds /\ x = <<x[1], x[2]>>
BY DEF Items

\* The service starts with nothing discovered and its first rebuild.
LEMMA Initially == Init => IInv
<1> SUFFICES ASSUME Init PROVE IInv
  OBVIOUS
<1> USE DEF Init
<1>1. TypeOK
  <2>1. snapshot \in Snapshot
    BY DEF Snapshot
  <2>2. rebuild \in [Rebuilders -> Rebuild]
    BY DEF NoRebuild, Rebuild
  <2>3. rep \in [Items -> RepStates]
    BY DEF RepStates
  <2> QED BY <2>1, <2>2, <2>3 DEF TypeOK
<1>2. IndexingIsClaimed /\ BatchOK
  BY DEF IndexingIsClaimed, BatchOK, Claimed, NoRebuild, Rebuilders
<1> QED BY <1>1, <1>2 DEF IInv

-----------------------------------------------------------------------------
(* The indexer                                                             *)

\* A step of the indexer that is not an outcome leaves the vectors alone.
Elsewhere == IndexerOnly /\ UNCHANGED <<rebuild, history>>

\* What the outcomes of an item have in common.
Outcome(x, s) ==
  /\ rep' = [rep EXCEPT ![x] = s]
  /\ s \in {"pending", "waiting", "indexed", "permanent_error"}
  /\ corrupt' \subseteq Items /\ changed' \in BOOLEAN
  /\ revision' \in Nat /\ revision' >= revision
  /\ s = "indexed" => revision' > revision

\* Every outcome of a claimed item is one of these.
LEMMA OutcomesAre ==
  ASSUME IInv, NEW x \in Claimed,
         MarkIndexed(x) \/ MarkRetryable(x) \/ MarkPermanent(x) \/ ReleaseClaim(x)
  PROVE  \E s \in {"pending", "waiting", "indexed", "permanent_error"} : Outcome(x, s)
<1>1. /\ x \in Items /\ rep[x] \in {"indexing", "pending"} /\ corrupt \subseteq Items
      /\ revision \in Nat /\ revision + 1 \in Nat /\ changed \in BOOLEAN
  BY DEF IInv, TypeOK, IndexingIsClaimed, Claimed
<1>2. CASE MarkIndexed(x)
  BY <1>1, <1>2 DEF MarkIndexed, Outcome
<1>3. CASE MarkRetryable(x)
  BY <1>1, <1>3 DEF MarkRetryable, Outcome
<1>4. CASE MarkPermanent(x)
  BY <1>1, <1>4 DEF MarkPermanent, Outcome
<1>5. CASE ReleaseClaim(x)
  <2>1. rep' = [rep EXCEPT ![x] = "pending"]
    BY <1>1, <1>5 DEF ReleaseClaim, IInv, TypeOK
  <2>2. UNCHANGED <<corrupt, revision, changed>>
    BY <1>5 DEF ReleaseClaim
  <2>3. Outcome(x, "pending")
    BY <1>1, <2>1, <2>2 DEF Outcome
  <2> QED BY <2>3
<1> QED BY <1>2, <1>3, <1>4, <1>5

\* An outcome of an item that leaves the batch keeps the invariant, and
\* moves the revision when it moves a vector.
LEMMA OutcomeKeeps ==
  ASSUME IInv, NEW x \in Claimed,
         NEW s \in {"pending", "waiting", "indexed", "permanent_error"}, Outcome(x, s),
         images' = images \ {x}, todo' = todo \ {x}, x \notin later,
         UNCHANGED <<pc, later, model>>, Elsewhere,
         indexedOne' \in BOOLEAN, strikes' \in Nat, mishaps' \in Nat
  PROVE  IInv' /\ RevisionMoves
<1> USE DEF IInv
<1>1. /\ rep \in [Items -> RepStates] /\ x \in Items /\ rep[x] \in {"indexing", "pending"}
      /\ revision \in Nat
  BY DEF TypeOK, IndexingIsClaimed, Claimed
<1>2. /\ rep' \in [Items -> RepStates] /\ rep'[x] = s
      /\ \A y \in Items : y # x => rep'[y] = rep[y]
  BY <1>1 DEF Outcome, RepStates
<1>3. TypeOK'
  BY <1>2 DEF TypeOK, Outcome, Elsewhere, IndexerOnly, history
<1>4. Claimed' = Claimed \ {x} /\ UNCHANGED abandoned
  BY DEF Claimed, Elsewhere, history
<1>5. IndexingIsClaimed'
  BY <1>1, <1>2, <1>4 DEF IndexingIsClaimed, Claimed, TypeOK
<1>6. BatchOK'
  BY <1>4 DEF BatchOK, Elsewhere, IndexerOnly
<1>7. RevisionMoves
  <2>1. s # "indexed" => Indexed' = Indexed
    BY <1>1, <1>2 DEF Indexed
  <2> QED BY <1>1, <2>1 DEF RevisionMoves, Outcome
<1> QED BY <1>3, <1>5, <1>6, <1>7

\* A step that leaves the representations alone keeps the claims as long as
\* the batch still holds what it held.
LEMMA QuietKeeps ==
  ASSUME IInv, UNCHANGED <<rep, revision, abandoned>>, TypeOK',
         Claimed' = Claimed, todo' \cap images' = {}, later' \cap (todo' \cup images') = {},
         BatchOK'
  PROVE  IInv' /\ RevisionMoves
<1>1. IndexingIsClaimed'
  BY DEF IInv, IndexingIsClaimed
<1>2. RevisionMoves
  BY DEF RevisionMoves, Indexed, IInv, TypeOK
<1> QED BY <1>1, <1>2 DEF IInv

\* A batch is claimed.
LEMMA ClaimKeeps ==
  ASSUME IInv, Claim
  PROVE  IInv' /\ RevisionMoves
<1> USE DEF IInv
<1>1. PICK E \in SUBSET Events :
        LET claimed == {x \in E \X Kinds : Claimable(x)}
            crops   == claimed \cap (Events \X {"crop"})
        IN  /\ rep' = [x \in Items |-> IF x \in claimed THEN "indexing" ELSE rep[x]]
            /\ todo' = IF crops = {} THEN claimed ELSE crops
            /\ later' = claimed \ todo'
  BY DEF Claim
<1>2. /\ running /\ pc = "idle" /\ pc' = "fetch" /\ changed' = FALSE
      /\ UNCHANGED <<corrupt, revision, images, indexedOne, strikes, model, rebuild, history,
                     bounds>>
      /\ UNCHANGED <<snapshot, running, reconcile, foundInvalid>>
  BY DEF Claim, IndexerOnly
<1> DEFINE claimed == {x \in E \X Kinds : Claimable(x)}
           crops   == claimed \cap (Events \X {"crop"})
<1>3. /\ claimed \subseteq Items /\ crops \subseteq claimed
      /\ \A x \in claimed : rep[x] \in {"pending", "retryable"}
  BY DEF Items, Claimable
<1>4. /\ rep' = [x \in Items |-> IF x \in claimed THEN "indexing" ELSE rep[x]]
      /\ todo' \subseteq claimed /\ later' = claimed \ todo'
  BY <1>1
<1> HIDE DEF claimed
<1>5. images = {} /\ images' = {} /\ Claimed = {} /\ Claimed' = claimed
  BY <1>2, <1>4 DEF BatchOK, Claimed
<1>6. /\ rep' \in [Items -> RepStates]
      /\ \A x \in Items : rep'[x] = IF x \in claimed THEN "indexing" ELSE rep[x]
  BY <1>4 DEF TypeOK, RepStates
<1>7. TypeOK'
  BY <1>2, <1>3, <1>4, <1>5, <1>6 DEF TypeOK, history, bounds
<1>8. IndexingIsClaimed'
  <2>1. \A x \in Items : rep'[x] = "indexing" => x \in Claimed' \cup abandoned'
    BY <1>2, <1>5, <1>6 DEF IndexingIsClaimed, history
  <2>2. \A x \in Claimed' : rep'[x] = "indexing"
    BY <1>3, <1>5, <1>6
  <2> QED BY <1>4, <1>5, <2>1, <2>2 DEF IndexingIsClaimed
<1>9. BatchOK'
  BY <1>2 DEF BatchOK
<1>10. RevisionMoves
  <2>1. Indexed' = Indexed
    BY <1>3, <1>6 DEF Indexed
  <2> QED BY <1>2, <2>1 DEF RevisionMoves, TypeOK
<1> QED BY <1>7, <1>8, <1>9, <1>10

\* An artifact is fetched, or an outcome is written.
LEMMA ItemKeeps ==
  ASSUME IInv, NEW x \in Items, Fetch(x) \/ CommitOne(x) \/ ReleaseOne(x) \/ RetryAlone(x)
  PROVE  IInv' /\ RevisionMoves
<1> USE DEF IInv
<1>1. /\ strikes \in Nat /\ strikes + 1 \in Nat /\ mishaps \in Nat /\ mishaps + 1 \in Nat
      /\ indexedOne \in BOOLEAN
  BY DEF TypeOK
<1>2. ASSUME x \in images, pc \in {"commit", "release", "alone"},
             MarkIndexed(x) \/ MarkRetryable(x) \/ MarkPermanent(x) \/ ReleaseClaim(x),
             images' = images \ {x}, UNCHANGED <<pc, todo, later, model>>, Elsewhere,
             indexedOne' \in BOOLEAN, strikes' \in Nat, mishaps' \in Nat
      PROVE  IInv' /\ RevisionMoves
  <2>1. x \in Claimed /\ x \notin later /\ todo = {} /\ todo' = todo \ {x}
    BY <1>2 DEF Claimed, IndexingIsClaimed, BatchOK
  <2>2. PICK s \in {"pending", "waiting", "indexed", "permanent_error"} : Outcome(x, s)
    BY <1>2, <2>1, OutcomesAre
  <2> QED BY <1>2, <2>1, <2>2, OutcomeKeeps
<1>3. ASSUME Commit(x)
      PROVE  /\ MarkIndexed(x) \/ MarkRetryable(x)
             /\ indexedOne' \in BOOLEAN /\ mishaps' \in Nat
  BY <1>1, <1>3 DEF Commit, Mishap
<1>4. CASE CommitOne(x)
  <2>1. /\ Commit(x) /\ x \in images /\ pc = "commit" /\ images' = images \ {x}
        /\ UNCHANGED <<pc, todo, later, strikes, model>> /\ Elsewhere
    BY <1>4 DEF CommitOne, IsNext, Elsewhere
  <2> QED BY <1>1, <1>2, <1>3, <2>1
<1>5. CASE ReleaseOne(x)
  <2>1. /\ ReleaseClaim(x) /\ x \in images /\ pc = "release" /\ images' = images \ {x}
        /\ UNCHANGED <<pc, todo, later, indexedOne, strikes, mishaps, model>> /\ Elsewhere
    BY <1>5 DEF ReleaseOne, IsNext, Elsewhere, bounds
  <2> QED BY <1>1, <1>2, <2>1
<1>6. CASE RetryAlone(x)
  <2>1. /\ x \in images /\ pc = "alone" /\ images' = images \ {x}
        /\ UNCHANGED <<pc, todo, later, model>> /\ Elsewhere
    BY <1>6 DEF RetryAlone, IsNext, Elsewhere
  <2>2. /\ MarkIndexed(x) \/ MarkRetryable(x) \/ MarkPermanent(x) \/ ReleaseClaim(x)
        /\ indexedOne' \in BOOLEAN /\ strikes' \in Nat /\ mishaps' \in Nat
    BY <1>1, <1>3, <1>6 DEF RetryAlone
  <2> QED BY <1>2, <2>1, <2>2
<1>7. CASE Fetch(x)
  <2>1. /\ x \in todo /\ pc = "fetch" /\ todo' = todo \ {x}
        /\ UNCHANGED <<pc, later, indexedOne, strikes, model>> /\ Elsewhere
        /\ x \in Claimed /\ x \notin images /\ x \notin later
    BY <1>7 DEF Fetch, IsNext, Elsewhere, Claimed, IndexingIsClaimed
  <2>2. CASE /\ MarkPermanent(x) \/ MarkRetryable(x)
             /\ Mishap /\ UNCHANGED images
    <3>1. PICK s \in {"pending", "waiting", "indexed", "permanent_error"} : Outcome(x, s)
      BY <2>1, <2>2, OutcomesAre
    <3>2. images' = images \ {x} /\ mishaps' \in Nat
      BY <1>1, <2>1, <2>2 DEF Mishap
    <3> QED BY <1>1, <2>1, <3>1, <3>2, OutcomeKeeps
  <2>3. CASE images' = images \cup {x} /\ UNCHANGED <<durable, changed, mishaps>>
    <3>1. TypeOK'
      BY <2>1, <2>3 DEF TypeOK, durable, Elsewhere, IndexerOnly, history
    <3>2. Claimed' = Claimed
      BY <2>1, <2>3 DEF Claimed
    <3>3. todo' \cap images' = {} /\ later' \cap (todo' \cup images') = {}
      BY <2>1, <2>3 DEF IndexingIsClaimed
    <3>4. BatchOK' /\ UNCHANGED <<rep, revision, abandoned>>
      BY <2>1, <2>3 DEF BatchOK, durable, Elsewhere, IndexerOnly, history
    <3> QED BY <3>1, <3>2, <3>3, <3>4, QuietKeeps
  <2> QED BY <1>7, <2>2, <2>3 DEF Fetch
<1> QED BY <1>4, <1>5, <1>6, <1>7

\* After a kind, the frames are turned to, or the batch is over.
LEMMA NextKindKeeps ==
  ASSUME IInv, NextKind, pc \in {"fetch", "commit", "release", "alone"}, todo = {}, images = {}, images' = {},
         UNCHANGED <<rep, corrupt, revision, abandoned>>, IndexerOnly,
         changed' \in BOOLEAN, indexedOne' \in BOOLEAN, model' \in BOOLEAN,
         strikes' \in Nat, mishaps' \in Nat
  PROVE  IInv' /\ RevisionMoves
<1> USE DEF IInv
<1>1. /\ later' = {} /\ todo' = later /\ pc' \in {"fetch", "rebuild", "idle"}
      /\ later # {} => pc' = "fetch"
  BY DEF NextKind
<1>2. rebuild' \in [Rebuilders -> Rebuild] /\ overlapped' \in BOOLEAN
  <2>1. "indexer" \in Rebuilders
    BY DEF Rebuilders
  <2>2. CASE Begin("indexer")
    BY <2>1, <2>2, RebuildsAre DEF Begin
  <2>3. CASE UNCHANGED <<rebuild, overlapped>>
    BY <2>3 DEF TypeOK
  <2> QED BY <2>2, <2>3 DEF NextKind
<1>3. TypeOK'
  BY <1>1, <1>2 DEF TypeOK, IndexerOnly
<1>4. Claimed' = Claimed
  BY <1>1 DEF Claimed
<1>5. running /\ running' /\ rebuild["indexer"].at = "off"
  BY DEF BatchOK, IndexerOnly
<1>6. rebuild' = rebuild \/ pc' = "rebuild"
  BY <1>1 DEF NextKind
<1>7. BatchOK'
  BY <1>1, <1>4, <1>5, <1>6 DEF Claimed, BatchOK
<1> QED BY <1>1, <1>3, <1>4, <1>7, QuietKeeps

\* A kind is embedded, or done.
LEMMA KindKeeps ==
  ASSUME IInv, Embed \/ KindDone
  PROVE  IInv' /\ RevisionMoves
<1> USE DEF IInv
<1>1. /\ strikes \in Nat /\ mishaps \in Nat /\ mishaps + 1 \in Nat /\ 0 \in Nat
      /\ indexedOne \in BOOLEAN /\ changed \in BOOLEAN /\ model \in BOOLEAN
  BY DEF TypeOK
<1>2. CASE KindDone
  <2>1. /\ pc \in {"commit", "release", "alone"} /\ images = {} /\ NextKind /\ IndexerOnly
        /\ indexedOne' = FALSE /\ UNCHANGED <<durable, images, changed, strikes, abandoned, mishaps>>
        /\ model' \in BOOLEAN
    BY <1>1, <1>2 DEF KindDone
  <2>2. todo = {}
    BY <2>1 DEF BatchOK
  <2> QED BY <1>1, <2>1, <2>2, NextKindKeeps DEF durable
<1>3. CASE Embed
  <2>1. /\ pc = "fetch" /\ todo = {} /\ IndexerOnly
        /\ UNCHANGED <<durable, images, changed, indexedOne, model, abandoned>>
    BY <1>3 DEF Embed
  <2>2. CASE images = {} /\ NextKind /\ UNCHANGED <<strikes, mishaps>>
    BY <1>1, <2>1, <2>2, NextKindKeeps DEF durable
  <2>3. CASE /\ images # {} /\ pc' \in {"commit", "release", "alone"}
             /\ strikes' \in Nat /\ mishaps' \in Nat
             /\ UNCHANGED <<todo, later, rebuild, overlapped>>
    <3>1. TypeOK'
      BY <2>1, <2>3 DEF TypeOK, IndexerOnly, durable
    <3>2. Claimed' = Claimed /\ BatchOK'
      BY <2>1, <2>3 DEF Claimed, BatchOK, IndexerOnly
    <3> QED BY <2>1, <2>3, <3>1, <3>2, QuietKeeps DEF durable, IndexingIsClaimed
  <2> QED BY <1>1, <1>3, <2>2, <2>3 DEF Embed, Mishap
<1> QED BY <1>2, <1>3

\* A batch breaks off: what it held is abandoned.
LEMMA BreakKeeps ==
  ASSUME IInv, FetchBreaksOff
  PROVE  IInv' /\ RevisionMoves
<1> USE DEF IInv, FetchBreaksOff, IndexerOnly, durable
<1>1. Claimed \subseteq Items /\ Claimed' = {} /\ abandoned' = abandoned \cup Claimed
  BY DEF Claimed, TypeOK
<1>2. TypeOK'
  <2>1. abandoned' \subseteq Items
    BY <1>1 DEF TypeOK
  <2>2. mishaps' \in Nat
    BY DEF TypeOK, Mishap
  <2> QED BY <2>1, <2>2 DEF TypeOK
<1>3. IndexingIsClaimed' /\ BatchOK'
  BY <1>1 DEF IndexingIsClaimed, BatchOK
<1>4. RevisionMoves
  BY DEF RevisionMoves, Indexed, TypeOK
<1> QED BY <1>2, <1>3, <1>4

-----------------------------------------------------------------------------
(* The rebuilds, the reconciliation, and everything else                   *)

\* A rebuild whose step leaves the database alone.
LEMMA RebuildReads ==
  ASSUME IInv, NEW r \in Rebuilders, Load(r) \/ Reload(r) \/ ReadRevision(r)
  PROVE  IInv' /\ RevisionMoves
<1> USE DEF IInv
<1>1. /\ UNCHANGED <<durable, batch, running, reconcile, foundInvalid, snapshot, history, bounds>>
  BY DEF Load, Reload, ReadRevision, RebuildOnly
<1>2. /\ rebuild \in [Rebuilders -> Rebuild] /\ rebuild[r] \in Rebuild /\ revision \in Nat
      /\ Valid \subseteq Items /\ Invalid \subseteq Items
  BY DEF TypeOK, Valid, Invalid, Indexed
<1>3. rebuild' \in [Rebuilders -> Rebuild] /\ rebuild[r].at # "off"
      /\ \A other \in Rebuilders : other # r => rebuild'[other] = rebuild[other]
  <2>1. CASE Load(r)
    <3>1. PICK at \in {"revision", "reset"} :
            rebuild' = [rebuild EXCEPT ![r] =
                          [rebuild[r] EXCEPT !.items = Valid, !.invalid = Invalid, !.at = at]]
      BY <1>2, <2>1 DEF Load
    <3>2. [rebuild[r] EXCEPT !.items = Valid, !.invalid = Invalid, !.at = at] \in Rebuild
      BY <1>2 DEF Rebuild
    <3> QED BY <1>2, <2>1, <3>1, <3>2 DEF Load
  <2>2. CASE Reload(r)
    <3>1. [rebuild[r] EXCEPT !.items = Valid, !.at = "revision"] \in Rebuild
      BY <1>2 DEF Rebuild
    <3> QED BY <1>2, <2>2, <3>1 DEF Reload
  <2>3. CASE ReadRevision(r)
    <3>1. [rebuild[r] EXCEPT !.revision = revision, !.at = "publish"] \in Rebuild
      BY <1>2 DEF Rebuild
    <3> QED BY <1>2, <2>3, <3>1 DEF ReadRevision
  <2> QED BY <2>1, <2>2, <2>3
<1>4. TypeOK'
  BY <1>1, <1>3 DEF TypeOK, durable, batch, history, bounds
<1>5. Claimed' = Claimed /\ BatchOK'
  BY <1>1, <1>3 DEF Claimed, BatchOK, batch, Rebuilders
<1> QED BY <1>1, <1>4, <1>5, QuietKeeps DEF durable, batch, history, IndexingIsClaimed

\* Items are reset, whatever became of them: also claimed ones.
LEMMA ResetKeeps ==
  ASSUME IInv, NEW r \in Rebuilders, Reset(r)
  PROVE  IInv' /\ RevisionMoves
<1> USE DEF IInv
<1>1. /\ UNCHANGED <<batch, running, reconcile, foundInvalid, snapshot, history, bounds>>
      /\ rep' = [x \in Items |-> IF x \in rebuild[r].invalid THEN "pending" ELSE rep[x]]
      /\ corrupt' = corrupt \ rebuild[r].invalid /\ revision' = revision + 1
      /\ rebuild' = [rebuild EXCEPT ![r] = [rebuild[r] EXCEPT !.at = "reload", !.invalid = {}]]
      /\ rebuild[r].at = "reset"
  BY DEF Reset, RebuildOnly, TypeOK
<1>2. [rebuild[r] EXCEPT !.at = "reload", !.invalid = {}] \in Rebuild
  BY DEF TypeOK, Rebuild
<1>3. /\ rep' \in [Items -> RepStates] /\ \A x \in Items : rep'[x] \in {"pending", rep[x]}
  BY <1>1 DEF TypeOK, RepStates
<1>4. TypeOK'
  BY <1>1, <1>2, <1>3 DEF TypeOK, batch, history, bounds
<1>5. Claimed' = Claimed /\ Claimed \subseteq Items
  BY <1>1 DEF Claimed, batch, TypeOK
<1>6. BatchOK'
  BY <1>1, <1>5 DEF BatchOK, batch, Rebuilders, TypeOK
<1>7. IndexingIsClaimed'
  BY <1>1, <1>3, <1>5 DEF IndexingIsClaimed, batch, history
<1>8. RevisionMoves
  BY <1>1 DEF RevisionMoves, TypeOK
<1> QED BY <1>4, <1>6, <1>7, <1>8

\* The snapshot is swapped.
LEMMA PublishKeeps ==
  ASSUME IInv, NEW r \in Rebuilders, Publish(r)
  PROVE  IInv' /\ RevisionMoves
<1> USE DEF IInv
<1>1. /\ UNCHANGED <<durable, todo, images, later, indexedOne, strikes, model, foundInvalid,
                     history, bounds>>
      /\ rebuild' = [rebuild EXCEPT ![r] = NoRebuild] /\ running' = TRUE
      /\ changed' = (changed /\ r # "indexer")
      /\ pc' = IF r = "indexer" THEN "idle" ELSE pc
      /\ reconcile' = IF r = "reconciliation" THEN "idle" ELSE reconcile
  BY DEF Publish
<1>2. snapshot' \in Snapshot
  BY DEF Publish, Snapshot, Searchable, TypeOK, Rebuild
<1>3. TypeOK'
  BY <1>1, <1>2, RebuildsAre DEF TypeOK, durable, history, bounds
<1>4. Claimed' = Claimed /\ UNCHANGED <<rep, revision, abandoned>>
  BY <1>1 DEF Claimed, durable, history
<1>5. rebuild[r].at # "off" /\ (r # "indexer" => running)
  BY DEF Publish, BatchOK, Rebuilders
<1>6. CASE r = "indexer"
  <2>1. pc \in {"rebuild", "idle"} /\ pc' = "idle" /\ Claimed = {}
    BY <1>1, <1>5, <1>6 DEF BatchOK
  <2>2. BatchOK'
    BY <1>1, <1>4, <1>6, <2>1 DEF BatchOK, TypeOK, NoRebuild, Rebuilders
  <2> QED BY <1>1, <1>3, <1>4, <2>2, QuietKeeps DEF IndexingIsClaimed
<1>7. CASE r # "indexer"
  <2>1. BatchOK'
    BY <1>1, <1>4, <1>5, <1>7 DEF BatchOK, TypeOK, NoRebuild, Rebuilders
  <2> QED BY <1>1, <1>3, <1>4, <2>1, QuietKeeps DEF IndexingIsClaimed
<1> QED BY <1>6, <1>7

\* An event is discovered, a retry comes due, a vector becomes unreadable.
LEMMA DatabaseKeeps ==
  ASSUME IInv, (\E e \in Events : Discover(e)) \/ \E x \in Items : RetryDue(x) \/ Corrupt(x)
  PROVE  IInv' /\ RevisionMoves
<1> USE DEF IInv
<1>1. ASSUME UNCHANGED <<revision, snapshot, running, batch, tasks, history>>,
             UNCHANGED corrupt \/ corrupt' \in SUBSET Items,
             mishaps' \in Nat, corruptions' \in Nat,
             rep' \in [Items -> RepStates],
             \A x \in Items :
               rep'[x] = rep[x] \/ ({rep[x], rep'[x]} \cap {"indexed", "indexing"} = {}
                                     /\ (rep[x] = "pending" => rep'[x] = "pending"))
      PROVE  IInv' /\ RevisionMoves
  <2>1. TypeOK'
    BY <1>1 DEF TypeOK, batch, tasks, history
  <2>2. Claimed' = Claimed /\ Claimed \subseteq Items
    BY <1>1 DEF Claimed, batch, TypeOK
  <2>3. BatchOK'
    BY <1>1, <2>2 DEF BatchOK, batch, tasks
  <2>4. IndexingIsClaimed'
    <3>1. UNCHANGED <<todo, images, later, abandoned>>
      BY <1>1 DEF batch, history
    <3>2. \A x \in Claimed : rep'[x] \in {"indexing", "pending"}
      BY <1>1, <2>2 DEF IndexingIsClaimed
    <3>3. \A x \in Items : rep'[x] = "indexing" => rep[x] = "indexing"
      BY <1>1
    <3> QED BY <2>2, <3>1, <3>2, <3>3 DEF IndexingIsClaimed
  <2>5. Indexed' = Indexed
    BY <1>1 DEF Indexed
  <2> QED BY <1>1, <2>1, <2>3, <2>4, <2>5 DEF RevisionMoves, TypeOK
<1>2. ASSUME NEW e \in Events, Discover(e) PROVE IInv' /\ RevisionMoves
  <2>1. /\ UNCHANGED <<corrupt, revision, snapshot, running, batch, tasks, history, bounds>>
        /\ rep' = [x \in Items |-> IF x[1] = e THEN "pending" ELSE rep[x]]
    BY <1>2 DEF Discover
  <2>2. \A x \in Items : x[1] = e => rep[x] = "absent"
    BY <1>2, ItemsAre DEF Discover
  <2>3. rep' \in [Items -> RepStates]
    BY <2>1 DEF TypeOK, RepStates
  <2>4. mishaps' \in Nat /\ corruptions' \in Nat
    BY <2>1 DEF TypeOK, bounds
  <2> QED BY <1>1, <2>1, <2>2, <2>3, <2>4
<1>3. ASSUME NEW x \in Items, RetryDue(x) PROVE IInv' /\ RevisionMoves
  <2>1. /\ UNCHANGED <<corrupt, revision, snapshot, running, batch, tasks, history, bounds>>
        /\ rep[x] = "waiting" /\ rep' = [rep EXCEPT ![x] = "retryable"]
    BY <1>3 DEF RetryDue
  <2>2. rep' \in [Items -> RepStates]
    BY <2>1 DEF TypeOK, RepStates
  <2>3. mishaps' \in Nat /\ corruptions' \in Nat
    BY <2>1 DEF TypeOK, bounds
  <2>4. \A y \in Items : rep'[y] = IF y = x THEN "retryable" ELSE rep[y]
    BY <2>1 DEF TypeOK
  <2> QED BY <1>1, <2>1, <2>2, <2>3, <2>4
<1>4. ASSUME NEW x \in Items, Corrupt(x) PROVE IInv' /\ RevisionMoves
  <2>1. /\ UNCHANGED <<rep, revision, snapshot, running, batch, tasks, history>>
        /\ corrupt' \in SUBSET Items /\ mishaps' \in Nat /\ corruptions' \in Nat
    BY <1>4 DEF Corrupt, Mishap, TypeOK
  <2> QED BY <1>1, <2>1 DEF TypeOK
<1> QED BY <1>2, <1>3, <1>4

\* The reconciliation compares, and may begin a rebuild.
LEMMA ReconcileKeeps ==
  ASSUME IInv, ReconcileStep
  PROVE  IInv' /\ RevisionMoves
<1> USE DEF IInv
<1>1. /\ UNCHANGED <<durable, snapshot, running, batch, abandoned, bounds>>
      /\ foundInvalid' \in BOOLEAN /\ reconcile' \in {"idle", "compare", "rebuild"}
      /\ running
  BY DEF ReconcileStep, Revalidate, Compare, history, BatchOK
<1>2. /\ rebuild' \in [Rebuilders -> Rebuild] /\ overlapped' \in BOOLEAN
      /\ rebuild'["indexer"] = rebuild["indexer"]
  <2>1. "reconciliation" \in Rebuilders /\ "indexer" \in Rebuilders
    BY DEF Rebuilders
  <2>2. CASE Begin("reconciliation")
    BY <2>1, <2>2, RebuildsAre DEF Begin, TypeOK
  <2>3. CASE UNCHANGED <<rebuild, overlapped>>
    BY <2>3 DEF TypeOK
  <2> QED BY <2>2, <2>3 DEF ReconcileStep, Revalidate, Compare, history
<1>3. TypeOK'
  BY <1>1, <1>2 DEF TypeOK, durable, batch, bounds
<1>4. Claimed' = Claimed /\ BatchOK'
  BY <1>1, <1>2 DEF Claimed, BatchOK, batch
<1> QED BY <1>1, <1>3, <1>4, QuietKeeps DEF durable, batch, IndexingIsClaimed

\* The service restarts: interrupted items are due again.
LEMMA RestartKeeps ==
  ASSUME IInv, Restart
  PROVE  IInv' /\ RevisionMoves
<1> USE DEF IInv
<1>1. /\ rep' = [x \in Items |-> Recovered(x)] /\ pc' = "idle" /\ ~running'
      /\ todo' = {} /\ images' = {} /\ later' = {} /\ reconcile' = "idle"
      /\ UNCHANGED <<corrupt, revision, corruptions>>
  BY DEF Restart
<1>2. \A x \in Items : /\ rep'[x] \in RepStates /\ rep'[x] # "indexing"
                       /\ rep'[x] = "indexed" <=> rep[x] = "indexed"
  BY <1>1 DEF Recovered, TypeOK, RepStates
<1>3. /\ rebuild' \in [Rebuilders -> Rebuild] /\ rebuild'["reconciliation"].at = "off"
  BY RebuildsAre DEF Restart, Rebuilders, NoRebuild
<1>4. snapshot' \in Snapshot /\ mishaps' \in Nat
  BY DEF Restart, Snapshot, Mishap, TypeOK
<1>5. TypeOK'
  BY <1>1, <1>2, <1>3, <1>4 DEF TypeOK, Restart
<1>6. Claimed' = {} /\ BatchOK'
  BY <1>1, <1>3 DEF Claimed, BatchOK
<1>7. IndexingIsClaimed'
  BY <1>1, <1>2, <1>6 DEF IndexingIsClaimed
<1>8. RevisionMoves
  <2>1. Indexed' = Indexed
    BY <1>2 DEF Indexed
  <2> QED BY <1>1, <2>1 DEF RevisionMoves, TypeOK
<1> QED BY <1>5, <1>6, <1>7, <1>8

\* Every step keeps the invariant and the revision in order.
LEMMA Inductive == IInv /\ [Next]_vars => IInv' /\ [RevisionMoves]_vars
<1> SUFFICES ASSUME IInv, [Next]_vars PROVE IInv' /\ [RevisionMoves]_vars
  OBVIOUS
<1>1. CASE UNCHANGED vars
  BY <1>1 DEF vars, durable, batch, tasks, history, bounds, IInv, TypeOK, IndexingIsClaimed,
              BatchOK, Claimed
<1>2. CASE IndexerStep \/ FetchBreaksOff
  BY <1>2, ClaimKeeps, KindKeeps, ItemKeeps, BreakKeeps DEF IndexerStep
<1>3. ASSUME NEW r \in Rebuilders, RebuildStep(r) PROVE IInv' /\ [RevisionMoves]_vars
  BY <1>3, RebuildReads, ResetKeeps, PublishKeeps DEF RebuildStep
<1>4. CASE (\E e \in Events : Discover(e)) \/ \E x \in Items : RetryDue(x) \/ Corrupt(x)
  BY <1>4, DatabaseKeeps
<1>5. CASE ReconcileStep \/ Restart
  BY <1>5, ReconcileKeeps, RestartKeeps
<1> QED BY <1>1, <1>2, <1>3, <1>4, <1>5 DEF Next

\* The invariant holds whatever is discovered, fails or restarts.
LEMMA Invariance == Spec => []IInv
BY Initially, Inductive, PTL DEF Spec

\* The database, the batch and the rebuilds keep to their types.
THEOREM TypeCorrect == Spec => []TypeOK
<1>1. IInv => TypeOK
  BY DEF IInv
<1> QED BY <1>1, Invariance, PTL

\* An item that is being indexed is held by the batch, or was left behind by
\* one that broke off; and no batch holds an item twice.
THEOREM ClaimsAreHeld == Spec => []IndexingIsClaimed
<1>1. IInv => IndexingIsClaimed
  BY DEF IInv
<1> QED BY <1>1, Invariance, PTL

\* The revision never moves back, and moves with every change of the vectors:
\* whoever finds the revision he knows has every vector there is.
THEOREM RevisionIsTrue == Spec => RevisionMovesWithVectors
<1>1. IInv /\ [Next]_vars => [RevisionMoves]_vars
  BY Inductive
<1>2. [][RevisionMoves]_vars => RevisionMovesWithVectors
  BY PTL DEF RevisionMoves, RevisionMovesWithVectors
<1> QED BY <1>1, <1>2, Invariance, PTL DEF Spec
-----------------------------------------------------------------------------
(* The snapshot                                                            *)

\* What a rebuild has read, and what it is to publish, is what is there.
Loaded(r) ==
  /\ rebuild[r].at \in {"revision", "publish"} =>
       Valid \subseteq rebuild[r].items /\ rebuild[r].items \subseteq Indexed
  /\ rebuild[r].at = "publish" => rebuild[r].revision = revision

\* The snapshot holds what is stored and readable, under the revision.
Published ==
  /\ snapshot.revision = revision
  /\ Searchable(Valid) \subseteq snapshot.items
  /\ snapshot.items \subseteq Searchable(Indexed)

\* While nothing overlapped and no batch broke off, at most one rebuild is
\* under way.  That of the indexer reads a database at rest; that of the
\* reconciliation may be outrun by a batch, which then has changed something
\* and will publish it; and with neither the snapshot is exact.
SnapshotOK ==
  /\ pc = "idle" => ~changed
  /\ reconcile # "rebuild" => rebuild["reconciliation"].at = "off"
  /\ ~overlapped => rebuild["indexer"].at = "off" \/ rebuild["reconciliation"].at = "off"
  /\ ~overlapped /\ abandoned = {} =>
       /\ Loaded("indexer")
       /\ ~changed => Loaded("reconciliation")
       /\ running /\ ~changed /\ (\A r \in Rebuilders : rebuild[r].at = "off") => Published

\* There are two rebuilders.
LEMMA RebuildersAre ==
  /\ "indexer" \in Rebuilders /\ "reconciliation" \in Rebuilders
  /\ \A r \in Rebuilders : r = "indexer" \/ r = "reconciliation"
BY DEF Rebuilders

\* What can be searched grows with what is given.
LEMMA SearchableGrows ==
  ASSUME NEW S, NEW T, S \subseteq T
  PROVE  Searchable(S) \subseteq Searchable(T)
BY DEF Searchable

\* A step that neither begins, moves nor publishes a rebuild keeps what was
\* read, unless it changes a vector, and then it has said so.
LEMMA VectorsStay ==
  ASSUME SnapshotOK, UNCHANGED <<snapshot, running, reconcile, rebuild, overlapped, abandoned>>,
         pc' = "idle" => ~changed',
         \/ changed' /\ rebuild["indexer"].at = "off"
         \/ /\ UNCHANGED <<Indexed, revision>> /\ Valid' \subseteq Valid
            /\ ~changed' => ~changed
  PROVE  SnapshotOK'
<1>1. CASE changed' /\ rebuild["indexer"].at = "off"
  BY <1>1 DEF SnapshotOK, Loaded
<1>2. CASE /\ UNCHANGED <<Indexed, revision>> /\ Valid' \subseteq Valid
           /\ ~changed' => ~changed
  <2>1. Searchable(Valid') \subseteq Searchable(Valid)
    BY <1>2, SearchableGrows
  <2>2. Searchable(Valid)' = Searchable(Valid') /\ Searchable(Indexed)' = Searchable(Indexed)
    BY <1>2 DEF Searchable
  <2>3. Published => Published'
    BY <1>2, <2>1, <2>2 DEF Published
  <2>4. ASSUME NEW r \in Rebuilders, Loaded(r) PROVE Loaded(r)'
    BY <1>2, <2>4 DEF Loaded
  <2> QED BY <1>2, <2>3, <2>4, RebuildersAre DEF SnapshotOK
<1> QED BY <1>1, <1>2

\* An outcome says that it changed a vector, or leaves them all alone.
LEMMA OutcomeSays ==
  ASSUME IInv, NEW x \in Claimed,
         MarkIndexed(x) \/ MarkRetryable(x) \/ MarkPermanent(x) \/ ReleaseClaim(x)
  PROVE  changed' \/ UNCHANGED <<Indexed, corrupt, revision, changed>>
<1>1. x \in Items /\ rep[x] \in {"indexing", "pending"} /\ rep \in [Items -> RepStates]
  BY DEF IInv, TypeOK, IndexingIsClaimed, Claimed
<1>2. CASE MarkIndexed(x) \/ MarkPermanent(x)
  BY <1>2 DEF MarkIndexed, MarkPermanent
<1>3. CASE MarkRetryable(x) \/ ReleaseClaim(x)
  <2>1. PICK s \in {"waiting", "pending"} : rep' = [rep EXCEPT ![x] = s]
    BY <1>1, <1>3 DEF MarkRetryable, ReleaseClaim
  <2>2. Indexed' = Indexed
    BY <1>1, <2>1 DEF Indexed
  <2> QED BY <1>3, <2>2 DEF MarkRetryable, ReleaseClaim
<1> QED BY <1>2, <1>3

\* The batch takes, fetches or settles an item.
LEMMA BatchPublishes ==
  ASSUME IInv, SnapshotOK,
         Claim \/ \E x \in Items : Fetch(x) \/ CommitOne(x) \/ ReleaseOne(x) \/ RetryAlone(x)
  PROVE  SnapshotOK'
<1>1. CASE Claim
  <2>1. /\ pc = "idle" /\ pc' = "fetch" /\ ~changed'
        /\ UNCHANGED <<snapshot, running, reconcile, rebuild, overlapped, abandoned, revision,
                       corrupt>>
    BY <1>1 DEF Claim, IndexerOnly, history
  <2>2. Indexed' = Indexed
    <3>1. \A y \in Items : rep'[y] = rep[y] \/ (Claimable(y) /\ rep'[y] = "indexing")
      BY <1>1 DEF Claim
    <3> QED BY <3>1 DEF Indexed, Claimable
  <2>3. ~changed
    BY <2>1 DEF SnapshotOK
  <2> QED BY <2>1, <2>2, <2>3, VectorsStay DEF Valid
<1>2. ASSUME NEW x \in Items, Fetch(x) \/ CommitOne(x) \/ ReleaseOne(x) \/ RetryAlone(x)
      PROVE  SnapshotOK'
  <2>1. /\ UNCHANGED <<snapshot, running, reconcile, rebuild, overlapped, abandoned, pc>>
        /\ pc \in {"fetch", "commit", "release", "alone"} /\ x \in Claimed
    BY <1>2 DEF Fetch, CommitOne, ReleaseOne, RetryAlone, IndexerOnly, history, IsNext, Claimed
  <2>2. rebuild["indexer"].at = "off"
    BY <2>1 DEF IInv, BatchOK
  <2>3. changed' \/ UNCHANGED <<Indexed, corrupt, revision, changed>>
    <3>1. CASE UNCHANGED <<durable, changed>>
      BY <3>1 DEF durable, Indexed
    <3>2. CASE MarkIndexed(x) \/ MarkRetryable(x) \/ MarkPermanent(x) \/ ReleaseClaim(x)
      BY <2>1, <3>2, OutcomeSays
    <3> QED BY <1>2, <3>1, <3>2 DEF Fetch, CommitOne, ReleaseOne, RetryAlone, Commit
  <2> QED BY <2>1, <2>2, <2>3, VectorsStay DEF Valid
<1> QED BY <1>1, <1>2

\* A kind is embedded, or done: the indexer's own rebuild begins when the
\* batch changed something, and only then.
LEMMA KindPublishes ==
  ASSUME IInv, SnapshotOK, Embed \/ KindDone
  PROVE  SnapshotOK'
<1>1. /\ UNCHANGED <<snapshot, running, reconcile, abandoned, changed, durable>>
      /\ pc \in {"fetch", "commit", "release", "alone"}
      /\ \/ NextKind
         \/ pc' # "idle" /\ UNCHANGED <<rebuild, overlapped>>
  BY DEF Embed, KindDone, IndexerOnly
<1>2. rebuild["indexer"].at = "off" /\ UNCHANGED <<Indexed, Valid, revision>>
  BY <1>1 DEF IInv, BatchOK, durable, Indexed, Valid
<1>3. CASE pc' # "idle" /\ UNCHANGED <<rebuild, overlapped>>
  BY <1>1, <1>2, <1>3, VectorsStay
<1>4. CASE NextKind /\ pc' # "rebuild"
  <2>1. UNCHANGED <<rebuild, overlapped>> /\ (pc' = "idle" => ~changed)
    BY <1>4 DEF NextKind
  <2> QED BY <1>1, <1>2, <2>1, VectorsStay
<1>5. CASE NextKind /\ pc' = "rebuild"
  <2>1. changed /\ Begin("indexer")
    BY <1>5 DEF NextKind
  <2>2. /\ rebuild'["indexer"].at = "load"
        /\ rebuild'["reconciliation"] = rebuild["reconciliation"]
        /\ ~overlapped' => rebuild["reconciliation"].at = "off"
    BY <2>1, RebuildersAre DEF Begin, IInv, TypeOK, Rebuild
  <2> QED BY <1>1, <1>5, <2>1, <2>2, RebuildersAre DEF SnapshotOK, Loaded
<1> QED BY <1>1, <1>3, <1>4, <1>5

\* A rebuild reads, or publishes what it has read.
LEMMA RebuildPublishes ==
  ASSUME IInv, SnapshotOK, NEW r \in Rebuilders, RebuildStep(r)
  PROVE  SnapshotOK'
<1> USE DEF IInv
<1>1. /\ rebuild[r].at # "off" /\ rebuild[r] \in Rebuild
      /\ r = "reconciliation" => reconcile = "rebuild"
      /\ UNCHANGED <<abandoned, overlapped>>
  BY RebuildersAre DEF RebuildStep, Load, Reset, Reload, ReadRevision, Publish, SnapshotOK,
                       TypeOK, RebuildOnly, history
<1>2. ~overlapped => \A o \in Rebuilders : o # r => rebuild[o].at = "off"
  BY <1>1, RebuildersAre DEF SnapshotOK
<1>3. CASE Load(r) \/ Reset(r) \/ Reload(r) \/ ReadRevision(r)
  <2>1. /\ UNCHANGED <<pc, changed, reconcile, running, snapshot>>
        /\ \A o \in Rebuilders : o # r => rebuild'[o] = rebuild[o]
        /\ rebuild'[r].at # "off"
    BY <1>3, RebuildersAre DEF Load, Reset, Reload, ReadRevision, RebuildOnly, batch, TypeOK, Rebuild
  <2>2. \/ ~(rebuild'[r].at \in {"revision", "publish"})
        \/ /\ UNCHANGED <<Indexed, Valid, revision>> /\ rebuild'[r].items = Valid
           /\ rebuild'[r].at = "revision"
        \/ /\ UNCHANGED <<Indexed, Valid, revision>> /\ rebuild'[r].items = rebuild[r].items
           /\ rebuild[r].at = "revision" /\ rebuild'[r].revision = revision
    <3>1. CASE Reset(r)
      BY <3>1 DEF Reset, TypeOK, Rebuild
    <3>2. CASE Load(r) \/ Reload(r) \/ ReadRevision(r)
      <4>1. UNCHANGED <<Indexed, Valid, revision>>
        BY <3>2 DEF Load, Reload, ReadRevision, durable, Indexed, Valid
      <4> QED BY <3>2, <4>1 DEF Load, Reload, ReadRevision, TypeOK, Rebuild
    <3> QED BY <1>3, <3>1, <3>2
  <2>3. Loaded(r) => Loaded(r)'
    BY <2>2 DEF Loaded, Valid, Indexed
  <2>4. ~(rebuild'[r].at \in {"revision", "publish"}) => Loaded(r)'
    BY DEF Loaded
  <2>5. ~overlapped => \A o \in Rebuilders : o # r => Loaded(o)'
    BY <1>2, <2>1 DEF Loaded
  <2> QED BY <1>1, <1>2, <2>1, <2>3, <2>5, RebuildersAre DEF SnapshotOK
<1>4. CASE Publish(r)
  <2>1. /\ UNCHANGED <<Indexed, Valid, revision>> /\ rebuild[r].at = "publish"
        /\ snapshot' = [revision |-> rebuild[r].revision, items |-> Searchable(rebuild[r].items)]
        /\ rebuild'[r].at = "off" /\ \A o \in Rebuilders : o # r => rebuild'[o] = rebuild[o]
        /\ changed' = (changed /\ r # "indexer")
        /\ pc' = (IF r = "indexer" THEN "idle" ELSE pc)
        /\ reconcile' = (IF r = "reconciliation" THEN "idle" ELSE reconcile)
    BY <1>4 DEF Publish, durable, Indexed, Valid, NoRebuild, TypeOK
  <2>2. ~overlapped => \A o \in Rebuilders : Loaded(o)'
    BY <1>2, <2>1 DEF Loaded
  <2>3. Loaded(r) => Published'
    <3>1. ASSUME Loaded(r)
          PROVE  /\ Searchable(Valid) \subseteq Searchable(rebuild[r].items)
                 /\ Searchable(rebuild[r].items) \subseteq Searchable(Indexed)
      BY <2>1, <3>1, SearchableGrows DEF Loaded
    <3>2. Searchable(Valid)' = Searchable(Valid) /\ Searchable(Indexed)' = Searchable(Indexed)
      BY <2>1 DEF Searchable
    <3> QED BY <2>1, <3>1, <3>2 DEF Published, Loaded
  <2>4. /\ pc' = "idle" => ~changed'
        /\ reconcile' # "rebuild" => rebuild'["reconciliation"].at = "off"
        /\ ~overlapped' =>
             rebuild'["indexer"].at = "off" \/ rebuild'["reconciliation"].at = "off"
    BY <1>1, <2>1, RebuildersAre DEF SnapshotOK
  <2>5. ~overlapped /\ abandoned = {} /\ ~changed' => Loaded(r)
    BY <2>1, RebuildersAre DEF SnapshotOK
  <2> QED BY <1>1, <2>2, <2>3, <2>4, <2>5, RebuildersAre DEF SnapshotOK
<1> QED BY <1>3, <1>4 DEF RebuildStep

\* The reconciliation looks at the vectors and the revision.
LEMMA ReconcilePublishes ==
  ASSUME IInv, SnapshotOK, ReconcileStep
  PROVE  SnapshotOK'
<1>1. /\ UNCHANGED <<durable, snapshot, running, batch, abandoned>> /\ reconcile # "rebuild"
      /\ \/ UNCHANGED <<rebuild, overlapped>>
         \/ Begin("reconciliation") /\ reconcile' = "rebuild"
  BY DEF ReconcileStep, Revalidate, Compare, history
<1>2. /\ UNCHANGED <<pc, changed, Indexed, Valid, revision, snapshot, running, abandoned>>
      /\ rebuild["reconciliation"].at = "off"
  BY <1>1 DEF durable, batch, Indexed, Valid, SnapshotOK
<1>3. CASE UNCHANGED <<rebuild, overlapped>>
  <2>1. \A r \in Rebuilders : Loaded(r)' <=> Loaded(r)
    BY <1>2, <1>3 DEF Loaded
  <2>2. Published' <=> Published
    BY <1>2 DEF Published, Searchable
  <2> QED BY <1>2, <1>3, <2>1, <2>2, RebuildersAre DEF SnapshotOK
<1>4. CASE Begin("reconciliation") /\ reconcile' = "rebuild"
  <2>1. /\ rebuild'["reconciliation"].at = "load" /\ rebuild'["indexer"] = rebuild["indexer"]
        /\ ~overlapped' => rebuild["indexer"].at = "off"
    BY <1>4, RebuildersAre DEF Begin, IInv, TypeOK, Rebuild
  <2> QED BY <1>2, <1>4, <2>1, RebuildersAre DEF SnapshotOK, Loaded
<1> QED BY <1>1, <1>3, <1>4

\* Every step keeps what the rebuilds read and what was published.
LEMMA SnapshotInductive ==
  ASSUME IInv, SnapshotOK, [Next]_vars
  PROVE  SnapshotOK'
<1>1. CASE UNCHANGED vars
  <2>1. /\ UNCHANGED <<pc, changed, snapshot, running, reconcile, rebuild, overlapped, abandoned,
                       Indexed, Valid, revision>>
    BY <1>1 DEF vars, durable, batch, tasks, history, Indexed, Valid
  <2> QED BY <2>1, VectorsStay DEF SnapshotOK
<1>2. CASE IndexerStep
  BY <1>2, BatchPublishes, KindPublishes DEF IndexerStep
<1>3. CASE FetchBreaksOff
  <2>1. /\ abandoned' # {} /\ ~changed'
        /\ UNCHANGED <<reconcile, rebuild, overlapped>>
    BY <1>3 DEF FetchBreaksOff, IndexerOnly, Claimed
  <2> QED BY <2>1 DEF SnapshotOK
<1>4. CASE \E r \in Rebuilders : RebuildStep(r)
  BY <1>4, RebuildPublishes
<1>5. CASE ReconcileStep
  BY <1>5, ReconcilePublishes
<1>6. CASE (\E e \in Events : Discover(e)) \/ \E x \in Items : RetryDue(x) \/ Corrupt(x)
  <2>1. /\ UNCHANGED <<pc, changed, snapshot, running, reconcile, rebuild, overlapped, abandoned,
                       revision>>
        /\ corrupt \subseteq corrupt'
    BY <1>6 DEF Discover, RetryDue, Corrupt, batch, tasks, history
  <2>2. Indexed' = Indexed
    <3>1. CASE \E e \in Events : Discover(e)
      BY <3>1, ItemsAre DEF Discover, Indexed
    <3>2. CASE \E x \in Items : RetryDue(x)
      BY <3>2 DEF RetryDue, Indexed, IInv, TypeOK
    <3>3. CASE \E x \in Items : Corrupt(x)
      BY <3>3 DEF Corrupt, Indexed
    <3> QED BY <1>6, <3>1, <3>2, <3>3
  <2> QED BY <2>1, <2>2, VectorsStay DEF Valid, SnapshotOK
<1>7. CASE Restart
  BY <1>7, RebuildersAre DEF Restart, SnapshotOK, Loaded, NoRebuild
<1> QED BY <1>1, <1>2, <1>3, <1>4, <1>5, <1>6, <1>7 DEF Next

\* While the indexer is idle and the reconciliation does not rebuild, the
\* snapshot is exactly what is stored and readable, under the revision of the
\* database: whatever was discovered, failed, became unreadable or restarted.
\* Two cases are excepted: the last rebuild overlapped another one, or a batch
\* broke off since the start (a rebuild during such a batch leaves a snapshot
\* under a revision the batch has moved since, indexer.py:92-96).
THEOREM SnapshotTellsAll == Spec => []SnapshotIsExact
<1>1. Init => SnapshotOK
  BY RebuildersAre DEF Init, SnapshotOK, Loaded, NoRebuild
<1>2. IInv /\ SnapshotOK => SnapshotIsExact
  <2> SUFFICES ASSUME IInv, SnapshotOK, running, pc = "idle", reconcile # "rebuild",
                      ~overlapped, abandoned = {}
               PROVE  Published
    BY DEF SnapshotIsExact, Published
  <2>1. \A r \in Rebuilders : rebuild[r].at = "off"
    BY RebuildersAre DEF SnapshotOK, IInv, BatchOK
  <2> QED BY <2>1 DEF SnapshotOK
<1>3. IInv /\ SnapshotOK /\ [Next]_vars => SnapshotOK'
  BY SnapshotInductive
<1> QED BY <1>1, <1>2, <1>3, Invariance, PTL DEF Spec
=============================================================================
