------------------------- MODULE InferenceCoordinator -------------------------
(***************************************************************************)
(* How searches and the indexer share the one embedding model.             *)
(*                                                                         *)
(* The model is guarded by an asyncio.Lock: a release wakes the first      *)
(* waiter, which takes the lock when it is scheduled; until then the lock  *)
(* is free, but nobody overtakes who still waits for it.  A search waits   *)
(* with a timeout, which may end while it waits (its future is cancelled)  *)
(* or after it was woken (expired); it leaves the queue only when it is    *)
(* scheduled again.                                                        *)
(***************************************************************************)
EXTENDS Naturals, Sequences, FiniteSets

CONSTANTS
  Searches,     (* concurrent requests                                     *)
  Indexer,      (* the background task                                     *)
  MaxWaiters    (* MAX_FOREGROUND_WAITERS                                  *)

ASSUME IndexerIsNoSearch == Indexer \notin Searches
ASSUME LimitIsNatural == MaxWaiters \in Nat

Tasks == Searches \cup {Indexer}

VARIABLES pc, waiting, locked, queue
vars == <<pc, waiting, locked, queue>>

Waiting(t) == pc[t] \in {"queued", "woken", "cancelled", "expired"}

(* Nobody is in the queue but searches whose futures have been cancelled.  *)
NobodyIsNext == \A i \in DOMAIN queue : pc[queue[i]] = "cancelled"

Becomes(t, state) == pc' = [pc EXCEPT ![t] = state]

(* The queue without the entry of t.                                       *)
Without(q, t) ==
  LET n == CHOOSE i \in DOMAIN q : q[i] = t
  IN [i \in 1..(Len(q) - 1) |-> IF i < n THEN q[i] ELSE q[i + 1]]

(* What _wake_up_first does to the tasks of a queue: the first one is      *)
(* woken, unless its future is done.                                       *)
Wake(states, q) ==
  IF q # << >> /\ states[Head(q)] = "queued"
  THEN [states EXCEPT ![Head(q)] = "woken"]
  ELSE states

-----------------------------------------------------------------------------
(* Searches                                                                *)

QueueFull(s) ==
  /\ pc[s] = "idle" /\ waiting >= MaxWaiters
  /\ Becomes(s, "refused")
  /\ UNCHANGED <<waiting, locked, queue>>

(* The lock is free and no waiter is to have it.                           *)
TakeAtOnce(s) ==
  /\ pc[s] = "idle" /\ waiting < MaxWaiters
  /\ ~locked /\ NobodyIsNext
  /\ locked' = TRUE
  /\ Becomes(s, "embed")
  /\ UNCHANGED <<waiting, queue>>

Enqueue(s) ==
  /\ pc[s] = "idle" /\ waiting < MaxWaiters
  /\ locked \/ ~NobodyIsNext
  /\ waiting' = waiting + 1
  /\ queue' = Append(queue, s)
  /\ Becomes(s, "queued")
  /\ UNCHANGED locked

Take(s) ==
  /\ pc[s] = "woken"
  /\ locked' = TRUE
  /\ queue' = Without(queue, s)
  /\ waiting' = waiting - 1
  /\ Becomes(s, "embed")

(* The ten seconds are over.                                               *)
Expire(s) ==
  /\ \/ pc[s] = "queued" /\ Becomes(s, "cancelled")
     \/ pc[s] = "woken" /\ Becomes(s, "expired")
  /\ UNCHANGED <<waiting, locked, queue>>

GiveUp(s) ==
  /\ pc[s] \in {"cancelled", "expired"}
  /\ queue' = Without(queue, s)
  /\ waiting' = waiting - 1
  /\ LET gone == [pc EXCEPT ![s] = "refused"]
     IN pc' = IF locked THEN gone ELSE Wake(gone, Without(queue, s))
  /\ UNCHANGED locked

(* Mutant: the release wakes nobody.                                       *)
FinishQuietly(t, state) ==
  /\ pc[t] = "embed"
  /\ locked' = FALSE
  /\ Becomes(t, state)
  /\ UNCHANGED <<waiting, queue>>

(* The model answers, or fails; the lock is released, and the answer is    *)
(* ranked at once, over the snapshot that is active then.                  *)
Finish(t, state) ==
  /\ pc[t] = "embed"
  /\ locked' = FALSE
  /\ pc' = Wake([pc EXCEPT ![t] = state], queue)
  /\ UNCHANGED <<waiting, queue>>

Answer(s) == Finish(s, "answered")
Fail(s)   == Finish(s, "failed")

(* A next request.                                                         *)
Ask(s) ==
  /\ pc[s] \in {"answered", "failed", "refused"}
  /\ Becomes(s, "idle")
  /\ UNCHANGED <<waiting, locked, queue>>

-----------------------------------------------------------------------------
(* The indexer                                                             *)

(* embed_background_batch, unless a search waits already.                  *)
Offer ==
  /\ pc[Indexer] = "idle" /\ waiting = 0
  /\ IF ~locked /\ NobodyIsNext
     THEN locked' = TRUE /\ Becomes(Indexer, "embed") /\ UNCHANGED queue
     ELSE queue' = Append(queue, Indexer) /\ Becomes(Indexer, "queued") /\ UNCHANGED locked
  /\ UNCHANGED waiting

(* Mutant: the searches that arrived in the meantime are not looked at.    *)
TakeAnyWay ==
  /\ pc[Indexer] = "woken"
  /\ queue' = Without(queue, Indexer)
  /\ locked' = TRUE /\ Becomes(Indexer, "embed")
  /\ UNCHANGED waiting

(* It is its turn: a search that arrived in the meantime is let through.   *)
TakeTurn ==
  /\ pc[Indexer] = "woken"
  /\ queue' = Without(queue, Indexer)
  /\ IF waiting > 0
     THEN /\ locked' = FALSE
          /\ pc' = Wake([pc EXCEPT ![Indexer] = "idle"], queue')
     ELSE locked' = TRUE /\ Becomes(Indexer, "embed")
  /\ UNCHANGED waiting

(* Mutant: the lock is kept when the model fails.                          *)
BatchKeepsLock ==
  /\ pc[Indexer] = "embed"
  /\ Becomes(Indexer, "idle")
  /\ UNCHANGED <<waiting, locked, queue>>

BatchDone == Finish(Indexer, "idle")

-----------------------------------------------------------------------------
Init ==
  /\ pc = [t \in Tasks |-> "idle"]
  /\ waiting = 0 /\ locked = FALSE /\ queue = << >>

Serve(s) == Take(s) \/ GiveUp(s) \/ Answer(s) \/ Fail(s)

Index == Offer \/ TakeTurn \/ BatchDone

Next ==
  \/ \E s \in Searches :
       \/ QueueFull(s) \/ TakeAtOnce(s) \/ Enqueue(s) \/ Expire(s) \/ Ask(s)
       \/ Serve(s)
  \/ Index

(* A task that can go on is scheduled, and the model comes to an end.      *)
Spec ==
  /\ Init /\ [][Next]_vars
  /\ \A s \in Searches : WF_vars(Serve(s))
  /\ WF_vars(Index)
-----------------------------------------------------------------------------
TypeOK ==
  /\ pc \in [Tasks -> {"idle", "queued", "woken", "cancelled", "expired", "embed",
                       "answered", "failed", "refused"}]
  /\ waiting \in 0..MaxWaiters
  /\ locked \in BOOLEAN
  /\ queue \in Seq(Tasks)

(* The model serves one caller at a time, and the lock is held exactly     *)
(* while it does.                                                          *)
OneAtATime ==
  /\ \A t, u \in Tasks : pc[t] = "embed" /\ pc[u] = "embed" => t = u
  /\ locked = \E t \in Tasks : pc[t] = "embed"

(* The counter that the limit and the indexer look at is the number of     *)
(* searches in the queue, at every moment.                                 *)
WaitersAreCounted ==
  /\ waiting = Cardinality({s \in Searches : Waiting(s)})
  /\ {queue[i] : i \in DOMAIN queue} = {t \in Tasks : Waiting(t)}
  /\ \A i, j \in DOMAIN queue : queue[i] = queue[j] => i = j

(* A free lock is never forgotten: somebody was woken for it, or is about  *)
(* to give it up and to wake the next one.                                 *)
FreeLockIsOffered ==
  (~locked /\ queue # << >>) => pc[Head(queue)] \in {"woken", "cancelled", "expired"}

(* "a search waits for at most the batch already executing": no batch of   *)
(* the indexer begins while a search waits.                                *)
SearchesGoFirst ==
  [][(pc'[Indexer] = "embed" /\ pc[Indexer] # "embed")
       => \A s \in Searches : ~Waiting(s)]_vars

(* A search that waits gets the model or is refused, even if its ten       *)
(* seconds never end.                                                      *)
SearchesEnd ==
  \A s \in Searches : Waiting(s) ~> (pc[s] \in {"answered", "failed", "refused"})
=============================================================================
