-------------------------------- MODULE Search --------------------------------
(***************************************************************************)
(* A search: its turn with the model, and how the events of the snapshot   *)
(* that is active then are ranked.                                         *)
(***************************************************************************)
EXTENDS InferenceCoordinator, Integers, SequencesExt

CONSTANTS
  Events,       (* ids of events, which are ordered                        *)
  MaxScore      (* the scores of representations are 0..MaxScore           *)

ASSUME EventsAndScores == Events \subseteq Nat /\ IsFiniteSet(Events) /\ MaxScore \in Nat

(* The ranking.  A snapshot gives each event the scores of its two         *)
(* representations for the query, its time and its camera.                 *)

Missing == -1
Scores  == 0..MaxScore
Entry   == [crop : Scores, frame : Scores \cup {Missing}, time : 0..1, camera : {"c", "d"}]

AnyCamera == "any"
NoMinimum == Missing

(* select_candidates: every filter that is given must match.               *)
Candidates(snapshot, camera) ==
  {e \in DOMAIN snapshot : camera \in {AnyCamera, snapshot[e].camera}}

Fused(entry) == IF entry.frame > entry.crop THEN entry.frame ELSE entry.crop

(* Mutant: all three keys downwards.                                       *)
AllDownwards(snapshot, e, f) ==
  LET a == snapshot[e]
      b == snapshot[f]
  IN \/ Fused(a) > Fused(b)
     \/ Fused(a) = Fused(b) /\ a.time > b.time
     \/ Fused(a) = Fused(b) /\ a.time = b.time /\ e > f

(* lexsort by score and time, both downwards, and by id.                   *)
Precedes(snapshot, e, f) ==
  LET a == snapshot[e]
      b == snapshot[f]
  IN \/ Fused(a) > Fused(b)
     \/ Fused(a) = Fused(b) /\ a.time > b.time
     \/ Fused(a) = Fused(b) /\ a.time = b.time /\ e < f

Sorted(snapshot, kept) ==
  CHOOSE s \in [1..Cardinality(kept) -> kept] :
    \A i, j \in DOMAIN s : i < j => Precedes(snapshot, s[i], s[j])

RankEvents(snapshot, camera, minimum, k) ==
  LET kept  == {e \in Candidates(snapshot, camera) : Fused(snapshot[e]) >= minimum}
      order == Sorted(snapshot, kept)
  IN SubSeq(order, 1, IF k < Len(order) THEN k ELSE Len(order))

(* A search answers with the best events, each once and every one of them  *)
(* matching the filter, in the order of ranking.py: the better of its two  *)
(* images first, then the later crossing, then the smaller id.  Also which *)
(* of them are cut off at the top K is decided by that order alone, so the *)
(* answer does not depend on how the snapshot was built.                   *)
Best(entry) == CHOOSE x \in {entry.crop, entry.frame} : x >= entry.crop /\ x >= entry.frame
Key(snapshot, e) == <<Best(snapshot[e]), snapshot[e].time, -e>>
Beats(a, b) == \E n \in 1..3 : a[n] > b[n] /\ \A m \in 1..(n - 1) : a[m] = b[m]
Exact(snapshot, camera, minimum, k) ==
  LET result   == RankEvents(snapshot, camera, minimum, k)
      matching == {e \in DOMAIN snapshot :
                     /\ camera = AnyCamera \/ snapshot[e].camera = camera
                     /\ snapshot[e].crop >= minimum \/ snapshot[e].frame >= minimum}
      left     == matching \ ToSet(result)
  IN /\ ToSet(result) \subseteq matching
     /\ left # {} => Len(result) = k
     /\ \A i \in 1..Len(result) :
          \A e \in left \cup {result[j] : j \in (i + 1)..Len(result)} :
            Beats(Key(snapshot, result[i]), Key(snapshot, e))
RankingIsExact ==
  pc = [t \in Tasks |-> "idle"] =>
    \A present \in SUBSET Events : \A snapshot \in [present -> Entry] :
      \A camera \in {"c", AnyCamera}, minimum \in Scores \cup {NoMinimum},
         k \in 1..Cardinality(Events) :
        Exact(snapshot, camera, minimum, k)
=============================================================================
