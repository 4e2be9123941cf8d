----------------------- MODULE SemanticSearch_proofs ------------------------
(***************************************************************************)
(* What the semantic search answers from, for every number of searches,    *)
(* events, times and pages.  That the embedding model serves one caller at *)
(* a time, a free lock is never forgotten and the indexer gives way; that  *)
(* an answer is ranked exactly; and that discovery skips no event.         *)
(*                                                                         *)
(* The discovery has variables of its own: its steps and those of the      *)
(* searches have nothing in common.                                        *)
(***************************************************************************)
EXTENDS Search, Discovery, FiniteSetTheorems, TLAPS

Queued == {queue[i] : i \in DOMAIN queue}
Distinct(q) == \A i, j \in 1..Len(q) : q[i] = q[j] => i = j
WaitingSearches == {s \in Searches : Waiting(s)}

QueueOK ==
  /\ Distinct(queue)
  /\ Queued = {t \in Tasks : Waiting(t)}

\* Only the first of the queue is woken, and only for a free lock.
WokenOK ==
  \A t \in Tasks : pc[t] = "woken" => ~locked /\ queue # << >> /\ Head(queue) = t

\* Only a search gives up, or is answered.
IndexerOK == pc[Indexer] \in {"idle", "queued", "woken", "embed"}

CountOK == IsFiniteSet(WaitingSearches) /\ waiting = Cardinality(WaitingSearches)

IInv ==
  /\ TypeOK /\ QueueOK /\ WokenOK /\ IndexerOK /\ CountOK
  /\ OneAtATime /\ FreeLockIsOffered

-----------------------------------------------------------------------------
\* Removing an entry of a queue without repetitions leaves the others, in
\* their order.
LEMMA WithoutOne ==
  ASSUME NEW q \in Seq(Tasks), Distinct(q), NEW n \in 1..Len(q)
  PROVE  LET r == Without(q, q[n])
         IN  /\ r \in Seq(Tasks) /\ Distinct(r)
             /\ {r[i] : i \in DOMAIN r} = {q[i] : i \in DOMAIN q} \ {q[n]}
             /\ q[1] # q[n] => r # << >> /\ Head(r) = q[1]
<1> DEFINE r == [i \in 1..(Len(q) - 1) |-> IF i < n THEN q[i] ELSE q[i + 1]]
<1>1. Len(q) \in Nat /\ DOMAIN q = 1..Len(q) /\ \A i \in 1..Len(q) : q[i] \in Tasks
  OBVIOUS
<1>2. (CHOOSE i \in DOMAIN q : q[i] = q[n]) = n
  BY <1>1 DEF Distinct
<1>3. Without(q, q[n]) = r
  BY <1>2 DEF Without
<1>4. \A i \in 1..(Len(q) - 1) : r[i] \in Tasks
  BY <1>1
<1>5. r \in Seq(Tasks) /\ Len(r) = Len(q) - 1 /\ DOMAIN r = 1..(Len(q) - 1)
  <2>1. r \in [1..(Len(q) - 1) -> Tasks]
    BY <1>4
  <2>2. Len(q) - 1 \in Nat
    BY <1>1
  <2> QED BY <2>1, <2>2
<1>6. Distinct(r)
  BY <1>1, <1>5 DEF Distinct
<1>7. \A i \in 1..(Len(q) - 1) : \E j \in 1..Len(q) : j # n /\ r[i] = q[j]
  <2> SUFFICES ASSUME NEW i \in 1..(Len(q) - 1)
               PROVE  \E j \in 1..Len(q) : j # n /\ r[i] = q[j]
    OBVIOUS
  <2>1. CASE i < n
    BY <1>1, <2>1
  <2>2. CASE ~(i < n)
    <3>1. i + 1 \in 1..Len(q) /\ i + 1 # n /\ r[i] = q[i + 1]
      BY <1>1, <2>2
    <3> QED BY <3>1
  <2> QED BY <2>1, <2>2
<1>8. \A j \in 1..Len(q) : j # n => \E i \in 1..(Len(q) - 1) : r[i] = q[j]
  <2> SUFFICES ASSUME NEW j \in 1..Len(q), j # n
               PROVE  \E i \in 1..(Len(q) - 1) : r[i] = q[j]
    OBVIOUS
  <2>1. CASE j < n
    <3>1. j \in 1..(Len(q) - 1) /\ r[j] = q[j]
      BY <1>1, <2>1
    <3> QED BY <3>1
  <2>2. CASE ~(j < n)
    <3>1. j - 1 \in 1..(Len(q) - 1) /\ ~(j - 1 < n) /\ (j - 1) + 1 = j
      BY <1>1, <2>2
    <3>2. r[j - 1] = q[j]
      BY <3>1
    <3> QED BY <3>1, <3>2
  <2> QED BY <2>1, <2>2
<1>9. \A j \in 1..Len(q) : q[j] = q[n] => j = n
  BY DEF Distinct
<1> HIDE DEF r
<1>10. {r[i] : i \in DOMAIN r} = {q[i] : i \in DOMAIN q} \ {q[n]}
  <2>1. \A i \in DOMAIN r : r[i] \in {q[j] : j \in DOMAIN q} \ {q[n]}
    BY <1>1, <1>5, <1>7, <1>9
  <2>2. \A j \in DOMAIN q : q[j] # q[n] => q[j] \in {r[i] : i \in DOMAIN r}
    BY <1>1, <1>5, <1>8
  <2> QED BY <2>1, <2>2
<1>11. q[1] # q[n] => r # << >> /\ Head(r) = q[1]
  <2> SUFFICES ASSUME q[1] # q[n] PROVE r # << >> /\ Head(r) = q[1]
    OBVIOUS
  <2>1. 1 < n /\ Len(q) > 1
    BY <1>1
  <2>2. r[1] = q[1] /\ Len(r) >= 1
    BY <1>1, <1>5, <2>1 DEF r
  <2> QED BY <1>5, <2>2
<1> QED BY <1>3, <1>5, <1>6, <1>10, <1>11

\* The places of a task.
States == {"idle", "queued", "woken", "cancelled", "expired", "embed", "answered", "failed",
           "refused"}

\* The queue once a task that waits has left it.
LEMMA Leaving ==
  ASSUME TypeOK, QueueOK, NEW t \in Tasks, Waiting(t)
  PROVE  LET r == Without(queue, t)
         IN  /\ r \in Seq(Tasks) /\ Distinct(r)
             /\ {r[i] : i \in DOMAIN r} = Queued \ {t}
             /\ Head(queue) # t => r # << >> /\ Head(r) = Head(queue)
<1>1. queue \in Seq(Tasks) /\ t \in Queued /\ Distinct(queue)
  BY DEF TypeOK, QueueOK
<1>2. PICK n \in 1..Len(queue) : queue[n] = t
  BY <1>1 DEF Queued
<1>3. Head(queue) = queue[1]
  BY <1>1
<1> QED BY <1>1, <1>2, <1>3, WithoutOne DEF Queued

\* The queue once a task has joined it at its end.
LEMMA Joining ==
  ASSUME TypeOK, QueueOK, NEW t \in Tasks, ~Waiting(t)
  PROVE  LET r == Append(queue, t)
         IN  /\ r \in Seq(Tasks) /\ Distinct(r)
             /\ {r[i] : i \in DOMAIN r} = Queued \cup {t}
             /\ r # << >>
             /\ queue # << >> => Head(r) = Head(queue)
             /\ queue = << >> => Head(r) = t
<1> DEFINE r == Append(queue, t)
<1>1. queue \in Seq(Tasks) /\ t \notin Queued /\ Distinct(queue)
  BY DEF TypeOK, QueueOK
<1>2. /\ r \in Seq(Tasks) /\ Len(r) = Len(queue) + 1 /\ r[Len(r)] = t
      /\ \A i \in 1..Len(queue) : r[i] = queue[i]
      /\ DOMAIN r = 1..Len(r) /\ DOMAIN queue = 1..Len(queue) /\ Len(queue) \in Nat
  BY <1>1
<1>3. \A i \in 1..Len(queue) : queue[i] # t
  BY <1>1, <1>2 DEF Queued
<1> HIDE DEF r
<1>4. Distinct(r)
  BY <1>1, <1>2, <1>3 DEF Distinct
<1>5. {r[i] : i \in DOMAIN r} = Queued \cup {t}
  <2>1. \A i \in DOMAIN r : i \in DOMAIN queue \/ i = Len(r)
    BY <1>2
  <2>2. \A i \in DOMAIN queue : i \in DOMAIN r
    BY <1>2
  <2>3. Len(r) \in DOMAIN r
    BY <1>2
  <2>4. \A i \in DOMAIN r : r[i] \in Queued \cup {t}
    BY <1>2, <2>1 DEF Queued
  <2>5. \A u \in Queued \cup {t} : \E i \in DOMAIN r : r[i] = u
    BY <1>2, <2>2, <2>3 DEF Queued
  <2> QED BY <2>4, <2>5
<1>6. r # << >> /\ Head(r) = r[1]
  BY <1>2
<1>7. queue # << >> => Head(queue) = queue[1] /\ Len(queue) >= 1
  BY <1>1
<1>8. queue = << >> => Len(r) = 1
  BY <1>2
<1> QED BY <1>2, <1>4, <1>5, <1>6, <1>7, <1>8 DEF r

\* A wake-up changes the first of the queue, from queued to woken, or nothing.
LEMMA Waking ==
  ASSUME NEW f \in [Tasks -> States], NEW q \in Seq(Tasks)
  PROVE  /\ Wake(f, q) \in [Tasks -> States]
         /\ \A t \in Tasks :
              \/ Wake(f, q)[t] = f[t] /\ (q = << >> \/ t # Head(q) \/ f[t] # "queued")
              \/ /\ q # << >> /\ t = Head(q)
                 /\ f[t] = "queued" /\ Wake(f, q)[t] = "woken"
<1>1. q # << >> => Head(q) \in Tasks
  OBVIOUS
<1> QED BY <1>1 DEF Wake, States

\* Searches that join and leave are counted.
LEMMA Counting ==
  ASSUME CountOK, NEW s \in Searches
  PROVE  /\ ~Waiting(s) => /\ IsFiniteSet(WaitingSearches \cup {s})
                           /\ Cardinality(WaitingSearches \cup {s}) = waiting + 1
         /\ Waiting(s) => /\ IsFiniteSet(WaitingSearches \ {s})
                          /\ Cardinality(WaitingSearches \ {s}) = waiting - 1
         /\ Waiting(s) => waiting > 0
         /\ waiting \in Nat
         /\ waiting = 0 <=> WaitingSearches = {}
<1>1. s \in WaitingSearches <=> Waiting(s)
  BY DEF WaitingSearches
<1>2. IsFiniteSet(WaitingSearches) /\ waiting = Cardinality(WaitingSearches)
  BY DEF CountOK
<1>3. waiting \in Nat
  BY <1>2, FS_CardinalityType
<1>4. waiting = 0 <=> WaitingSearches = {}
  BY <1>2, FS_EmptySet
<1>5. /\ IsFiniteSet(WaitingSearches \cup {s})
      /\ Cardinality(WaitingSearches \cup {s}) =
           IF s \in WaitingSearches THEN Cardinality(WaitingSearches)
                                    ELSE Cardinality(WaitingSearches) + 1
  BY <1>2, FS_AddElement
<1>6. /\ IsFiniteSet(WaitingSearches \ {s})
      /\ Cardinality(WaitingSearches \ {s}) =
           IF s \in WaitingSearches THEN Cardinality(WaitingSearches) - 1
                                    ELSE Cardinality(WaitingSearches)
  BY <1>2, FS_RemoveElement
<1>7. Waiting(s) => waiting > 0
  BY <1>1, <1>3, <1>4
<1> QED BY <1>1, <1>2, <1>3, <1>4, <1>5, <1>6, <1>7
-----------------------------------------------------------------------------

\* Nobody waits, and the lock is free.
LEMMA Initially == Init => IInv
<1> SUFFICES ASSUME Init PROVE IInv OBVIOUS
<1>1. TypeOK
  <2>1. queue \in Seq(Tasks)
    BY DEF Init
  <2>2. waiting \in 0..MaxWaiters
    BY LimitIsNatural DEF Init
  <2> QED BY <2>1, <2>2 DEF Init, TypeOK
<1>2. \A t \in Tasks : ~Waiting(t) /\ pc[t] = "idle"
  BY DEF Init, Waiting
<1>3. QueueOK
  BY <1>2 DEF Init, QueueOK, Queued, Distinct
<1>4. CountOK
  <2>1. WaitingSearches = {}
    BY <1>2 DEF WaitingSearches, Tasks
  <2> QED BY <2>1, FS_EmptySet DEF CountOK, Init
<1> QED
  BY <1>1, <1>2, <1>3, <1>4 DEF Init, IInv, WokenOK, IndexerOK, OneAtATime, FreeLockIsOffered, Tasks

\* A search that does not touch the lock or the queue.
LEMMA StandStill ==
  ASSUME IInv, NEW s \in Searches, QueueFull(s) \/ Expire(s) \/ Ask(s)
  PROVE  IInv'
<1>1. /\ UNCHANGED <<waiting, locked, queue>> /\ s \in Tasks /\ s # Indexer
      /\ pc \in [Tasks -> States] /\ pc' \in [Tasks -> States]
      /\ \A t \in Tasks : t # s => pc'[t] = pc[t]
      /\ pc[s] # "embed" /\ pc'[s] \notin {"embed", "woken"}
      /\ Waiting(s)' <=> Waiting(s)
      /\ pc'[s] \in {"cancelled", "expired"} \/ ~Waiting(s)
  BY IndexerIsNoSearch
     DEF IInv, TypeOK, QueueFull, Expire, Ask, Becomes, Tasks, States, Waiting
<1>2. \A t \in Tasks : Waiting(t)' <=> Waiting(t)
  BY <1>1 DEF Waiting
<1>3. TypeOK'
  BY <1>1 DEF IInv, TypeOK, States
<1>4. QueueOK'
  BY <1>1, <1>2 DEF IInv, QueueOK, Queued, Distinct
<1>5. WokenOK' /\ IndexerOK'
  BY <1>1 DEF IInv, WokenOK, IndexerOK, Tasks
<1>6. CountOK'
  <2>1. WaitingSearches' = WaitingSearches
    BY <1>2 DEF WaitingSearches, Tasks
  <2> QED BY <1>1, <2>1 DEF IInv, CountOK
<1>7. OneAtATime'
  BY <1>1 DEF IInv, OneAtATime
<1>8. FreeLockIsOffered'
  <2> SUFFICES ASSUME ~locked, queue # << >>
               PROVE  pc'[Head(queue)] \in {"woken", "cancelled", "expired"}
    BY <1>1 DEF FreeLockIsOffered
  <2>1. Head(queue) \in Tasks /\ pc[Head(queue)] \in {"woken", "cancelled", "expired"}
    BY DEF IInv, TypeOK, FreeLockIsOffered
  <2> QED BY <1>1, <2>1 DEF Waiting
<1> QED BY <1>3, <1>4, <1>5, <1>6, <1>7, <1>8 DEF IInv

\* A caller takes the lock that no waiter is to have.
LEMMA Taking ==
  ASSUME IInv, NEW t \in Tasks, pc[t] = "idle", ~locked, NobodyIsNext,
         locked' = TRUE, Becomes(t, "embed"), UNCHANGED <<waiting, queue>>
  PROVE  IInv'
<1>1. /\ pc \in [Tasks -> States] /\ pc' \in [Tasks -> States]
      /\ \A u \in Tasks : u # t => pc'[u] = pc[u]
      /\ pc'[t] = "embed" /\ ~Waiting(t) /\ ~Waiting(t)'
  BY DEF IInv, TypeOK, Becomes, States, Waiting
<1>2. \A u \in Tasks : /\ Waiting(u)' <=> Waiting(u)
                       /\ pc[u] # "woken"
  <2>1. \A u \in Tasks : Waiting(u) => pc[u] = "cancelled"
    BY DEF IInv, QueueOK, Queued, NobodyIsNext
  <2> QED BY <1>1, <2>1 DEF Waiting
<1>3. TypeOK' /\ QueueOK'
  <2>1. Queued' = Queued /\ Distinct(queue')
    BY DEF IInv, QueueOK, Queued
  <2> QED BY <1>1, <1>2, <2>1 DEF IInv, TypeOK, States, QueueOK
<1>4. WokenOK' /\ IndexerOK' /\ FreeLockIsOffered'
  BY <1>1, <1>2 DEF IInv, WokenOK, IndexerOK, FreeLockIsOffered, Tasks
<1>5. CountOK'
  <2>1. WaitingSearches' = WaitingSearches
    BY <1>2 DEF WaitingSearches, Tasks
  <2> QED BY <2>1 DEF IInv, CountOK
<1>6. OneAtATime'
  BY <1>1 DEF IInv, OneAtATime
<1> QED BY <1>3, <1>4, <1>5, <1>6 DEF IInv

\* A caller joins the queue.
LEMMA Queueing ==
  ASSUME IInv, NEW t \in Tasks, pc[t] = "idle", locked \/ queue # << >>,
         queue' = Append(queue, t), Becomes(t, "queued"), UNCHANGED locked,
         t \in Searches => waiting < MaxWaiters /\ waiting' = waiting + 1,
         t = Indexer => waiting' = waiting
  PROVE  IInv'
<1>1. /\ pc \in [Tasks -> States] /\ pc' \in [Tasks -> States]
      /\ \A u \in Tasks : u # t => pc'[u] = pc[u]
      /\ pc'[t] = "queued" /\ ~Waiting(t) /\ Waiting(t)'
  BY DEF IInv, TypeOK, Becomes, States, Waiting
<1>2. /\ queue' \in Seq(Tasks) /\ Distinct(queue')
      /\ Queued' = Queued \cup {t} /\ queue' # << >>
      /\ queue # << >> => Head(queue') = Head(queue)
  <2>1. TypeOK /\ QueueOK
    BY DEF IInv
  <2> QED BY <1>1, <2>1, Joining DEF Queued
<1>3. \A u \in Tasks : u # t => (Waiting(u)' <=> Waiting(u))
  BY <1>1 DEF Waiting
<1>4. CountOK' /\ waiting' \in 0..MaxWaiters
  <2>1. CASE t \in Searches
    <3>1. WaitingSearches' = WaitingSearches \cup {t}
      BY <1>1, <1>3, <2>1 DEF WaitingSearches, Tasks
    <3>2. CountOK
      BY DEF IInv
    <3>3. /\ IsFiniteSet(WaitingSearches')
          /\ Cardinality(WaitingSearches') = waiting + 1
      BY <1>1, <2>1, <3>1, <3>2, Counting
    <3>4. waiting \in Nat
      BY LimitIsNatural DEF IInv, TypeOK
    <3> QED BY <2>1, <3>3, <3>4, LimitIsNatural DEF CountOK
  <2>2. CASE t = Indexer
    <3>1. WaitingSearches' = WaitingSearches
      BY <1>3, <2>2, IndexerIsNoSearch DEF WaitingSearches, Tasks
    <3> QED BY <2>2, <3>1 DEF CountOK, IInv, TypeOK
  <2> QED BY <2>1, <2>2 DEF Tasks
<1>5. TypeOK'
  BY <1>1, <1>2, <1>4 DEF IInv, TypeOK, States
<1>6. QueueOK'
  BY <1>1, <1>2, <1>3 DEF IInv, QueueOK
<1>7. WokenOK' /\ IndexerOK'
  BY <1>1, <1>2 DEF IInv, WokenOK, IndexerOK, Tasks
<1>8. OneAtATime'
  BY <1>1 DEF IInv, OneAtATime
<1>9. FreeLockIsOffered'
  <2> SUFFICES ASSUME ~locked PROVE pc'[Head(queue')] \in {"woken", "cancelled", "expired"}
    BY DEF FreeLockIsOffered
  <2>1. queue # << >> /\ Head(queue') = Head(queue) /\ Head(queue) \in Tasks
    BY <1>2 DEF IInv, TypeOK
  <2>2. pc[Head(queue)] \in {"woken", "cancelled", "expired"}
    BY <2>1 DEF IInv, FreeLockIsOffered
  <2> QED BY <1>1, <2>1, <2>2
<1> QED BY <1>4, <1>5, <1>6, <1>7, <1>8, <1>9 DEF IInv
\* A task that waits leaves the queue: it takes the lock, or gives up and lets
\* the next one have a free lock.
LEMMA LeavingQueue ==
  ASSUME IInv, NEW t \in Tasks, Waiting(t), NEW state \in States,
         queue' = Without(queue, t),
         t \in Searches => waiting' = waiting - 1,
         t = Indexer => waiting' = waiting /\ state \in {"idle", "embed"},
         \/ /\ state = "embed" /\ pc[t] = "woken"
            /\ locked' = TRUE /\ Becomes(t, state)
         \/ /\ state \in {"refused", "idle"}
            /\ locked' = locked
            /\ pc' = IF locked THEN [pc EXCEPT ![t] = state]
                     ELSE Wake([pc EXCEPT ![t] = state], queue')
  PROVE  IInv'
<1> DEFINE f == [pc EXCEPT ![t] = state]
<1>1. /\ pc \in [Tasks -> States] /\ f \in [Tasks -> States]
      /\ f[t] = state /\ \A u \in Tasks : u # t => f[u] = pc[u]
  BY DEF IInv, TypeOK, States
<1> HIDE DEF f
<1>2. /\ queue' \in Seq(Tasks) /\ Distinct(queue')
      /\ Queued' = Queued \ {t}
      /\ Head(queue) # t => queue' # << >> /\ Head(queue') = Head(queue)
  <2>1. TypeOK /\ QueueOK
    BY DEF IInv
  <2> QED BY <2>1, Leaving DEF Queued
<1>3. queue' # << >> => Head(queue') \in Tasks /\ Head(queue') # t /\ Waiting(Head(queue'))
  <2>1. queue' # << >> => Head(queue') \in Queued'
    BY <1>2 DEF Queued
  <2> QED BY <1>2, <2>1 DEF IInv, QueueOK
<1>4. /\ pc' \in [Tasks -> States]
      /\ \A u \in Tasks :
           \/ pc'[u] = f[u]
           \/ /\ ~locked' /\ queue' # << >> /\ u = Head(queue')
              /\ f[u] = "queued" /\ pc'[u] = "woken"
      /\ ~locked' /\ queue' # << >> => pc'[Head(queue')] # "queued"
  <2>1. CASE pc' = f
    <3>1. ~locked' /\ queue' # << >> => FALSE \/ pc'[Head(queue')] # "queued"
      <4> SUFFICES ASSUME ~locked', queue' # << >> PROVE f[Head(queue')] # "queued"
        BY <2>1
      <4>1. pc' = Wake(f, queue')
        BY DEF f
      <4>2. \A u \in Tasks :
               \/ Wake(f, queue')[u] = f[u] /\ (queue' = << >> \/ u # Head(queue') \/ f[u] # "queued")
               \/ Wake(f, queue')[u] = "woken" /\ f[u] = "queued"
        BY <1>1, <1>2, Waking
      <4> QED BY <1>3, <2>1, <4>1, <4>2
    <3> QED BY <1>1, <2>1, <3>1
  <2>2. CASE ~locked' /\ pc' = Wake(f, queue')
    <3>1. /\ pc' \in [Tasks -> States]
          /\ \A u \in Tasks :
               \/ pc'[u] = f[u] /\ (queue' = << >> \/ u # Head(queue') \/ f[u] # "queued")
               \/ /\ queue' # << >> /\ u = Head(queue')
                  /\ f[u] = "queued" /\ pc'[u] = "woken"
      BY <1>1, <1>2, <2>2, Waking
    <3> QED BY <1>3, <2>2, <3>1
  <2> QED BY <2>1, <2>2 DEF f, Becomes
<1>5. /\ \A u \in Tasks : u # t => (Waiting(u)' <=> Waiting(u))
      /\ ~Waiting(t)' /\ pc'[t] = state
  BY <1>1, <1>3, <1>4 DEF Waiting
<1>6. CountOK' /\ waiting' \in 0..MaxWaiters
  <2>1. CASE t \in Searches
    <3>1. WaitingSearches' = WaitingSearches \ {t}
      BY <1>5, <2>1 DEF WaitingSearches, Tasks
    <3>2. CountOK
      BY DEF IInv
    <3>3. /\ IsFiniteSet(WaitingSearches')
          /\ Cardinality(WaitingSearches') = waiting - 1
          /\ waiting > 0
      BY <2>1, <3>1, <3>2, Counting
    <3>4. waiting \in Nat /\ waiting <= MaxWaiters
      BY LimitIsNatural DEF IInv, TypeOK
    <3> QED BY <2>1, <3>3, <3>4, LimitIsNatural DEF CountOK
  <2>2. CASE t = Indexer
    <3>1. WaitingSearches' = WaitingSearches
      BY <1>5, <2>2, IndexerIsNoSearch DEF WaitingSearches, Tasks
    <3> QED BY <2>2, <3>1 DEF CountOK, IInv, TypeOK
  <2> QED BY <2>1, <2>2 DEF Tasks
<1>7. TypeOK'
  BY <1>2, <1>4, <1>6 DEF IInv, TypeOK, States
<1>8. QueueOK'
  BY <1>2, <1>5 DEF IInv, QueueOK
<1>9. WokenOK'
  <2> SUFFICES ASSUME NEW u \in Tasks, pc'[u] = "woken"
               PROVE  ~locked' /\ queue' # << >> /\ Head(queue') = u
    BY DEF WokenOK
  <2>1. CASE pc'[u] # f[u]
    BY <1>4, <2>1
  <2>2. CASE pc'[u] = f[u]
    <3>1. u # t /\ pc[u] = "woken"
      BY <1>1, <1>5, <2>2
    <3>2. ~locked /\ Head(queue) = u
      BY <3>1 DEF IInv, WokenOK
    <3>3. queue' # << >> /\ Head(queue') = u
      BY <1>2, <3>1, <3>2
    <3>4. pc[t] # "woken"
      BY <3>1, <3>2 DEF IInv, WokenOK
    <3> QED BY <3>2, <3>3, <3>4
  <2> QED BY <2>1, <2>2
<1>10. IndexerOK'
  BY <1>1, <1>4, <1>5 DEF IInv, IndexerOK, Tasks
<1>11. OneAtATime'
  <2>1. \A u \in Tasks : pc'[u] = "embed" <=> f[u] = "embed"
    BY <1>4
  <2>2. CASE state = "embed"
    <3>1. ~locked /\ locked'
      BY <2>2 DEF IInv, WokenOK
    <3> QED BY <1>1, <2>1, <2>2, <3>1 DEF IInv, OneAtATime
  <2>3. CASE state # "embed"
    <3>1. pc[t] # "embed" /\ locked' = locked
      BY <2>3 DEF Waiting
    <3> QED BY <1>1, <2>1, <2>3, <3>1 DEF IInv, OneAtATime
  <2> QED BY <2>2, <2>3
<1>12. FreeLockIsOffered'
  <2> SUFFICES ASSUME ~locked', queue' # << >> PROVE pc'[Head(queue')] \in {"woken", "cancelled", "expired"}
    BY DEF FreeLockIsOffered
  <2> QED BY <1>3, <1>4, <1>5 DEF Waiting
<1> QED BY <1>6, <1>7, <1>8, <1>9, <1>10, <1>11, <1>12 DEF IInv
\* The model comes to an end and the lock is released.
LEMMA Finishing ==
  ASSUME IInv, NEW t \in Tasks, NEW state \in {"answered", "failed", "idle"},
         t = Indexer => state = "idle", Finish(t, state)
  PROVE  IInv'
<1> DEFINE f == [pc EXCEPT ![t] = state]
<1>1. /\ pc \in [Tasks -> States] /\ f \in [Tasks -> States]
      /\ f[t] = state /\ \A u \in Tasks : u # t => f[u] = pc[u]
      /\ pc' = Wake(f, queue) /\ pc[t] = "embed" /\ locked' = FALSE
      /\ UNCHANGED <<waiting, queue>> /\ queue \in Seq(Tasks)
  BY DEF IInv, TypeOK, States, Finish
<1> HIDE DEF f
<1>2. /\ pc' \in [Tasks -> States]
      /\ \A u \in Tasks :
           \/ pc'[u] = f[u] /\ (queue = << >> \/ u # Head(queue) \/ f[u] # "queued")
           \/ /\ queue # << >> /\ u = Head(queue)
              /\ f[u] = "queued" /\ pc'[u] = "woken"
  BY <1>1, Waking
<1>3. \A u \in Tasks : Waiting(u)' <=> Waiting(u)
  BY <1>1, <1>2 DEF Waiting
<1>4. locked /\ \A u \in Tasks : pc[u] # "woken" /\ (u # t => pc[u] # "embed")
  BY <1>1 DEF IInv, OneAtATime, WokenOK
<1>5. TypeOK' /\ QueueOK'
  <2>1. TypeOK'
    BY <1>1, <1>2 DEF IInv, TypeOK, States
  <2>2. Queued' = Queued /\ Distinct(queue')
    BY <1>1 DEF IInv, QueueOK, Queued
  <2> QED BY <1>3, <2>1, <2>2 DEF IInv, QueueOK
<1>6. CountOK'
  <2>1. WaitingSearches' = WaitingSearches
    BY <1>3 DEF WaitingSearches, Tasks
  <2> QED BY <1>1, <2>1 DEF IInv, CountOK
<1>7. WokenOK' /\ OneAtATime'
  BY <1>1, <1>2, <1>4 DEF WokenOK, OneAtATime
<1>8. IndexerOK'
  BY <1>1, <1>2 DEF IInv, IndexerOK, Tasks
<1>9. FreeLockIsOffered'
  <2> SUFFICES ASSUME queue # << >> PROVE pc'[Head(queue)] \in {"woken", "cancelled", "expired"}
    BY <1>1 DEF FreeLockIsOffered
  <2>1. Head(queue) \in Tasks /\ Head(queue) \in Queued
    BY <1>1 DEF Queued
  <2>2. Waiting(Head(queue))
    BY <2>1 DEF IInv, QueueOK
  <2>3. f[Head(queue)] \in {"queued", "woken", "cancelled", "expired"}
    BY <1>1, <2>1, <2>2 DEF Waiting
  <2>4. CASE f[Head(queue)] = "queued"
    BY <1>2, <2>1, <2>4
  <2>5. CASE f[Head(queue)] # "queued"
    BY <1>2, <2>1, <2>3, <2>5
  <2> QED BY <2>4, <2>5
<1> QED BY <1>5, <1>6, <1>7, <1>8, <1>9 DEF IInv

-----------------------------------------------------------------------------

\* Every step keeps the invariant.
LEMMA Inductive == IInv /\ [Next]_vars => IInv'
<1> SUFFICES ASSUME IInv, [Next]_vars PROVE IInv' OBVIOUS
<1>1. ASSUME NEW s \in Searches, QueueFull(s) \/ Expire(s) \/ Ask(s) PROVE IInv'
  BY <1>1, StandStill
<1>2. ASSUME NEW s \in Searches, TakeAtOnce(s) PROVE IInv'
  BY <1>2, Taking DEF TakeAtOnce, Tasks
<1>3. ASSUME NEW s \in Searches, Enqueue(s) PROVE IInv'
  BY <1>3, IndexerIsNoSearch, Queueing DEF Enqueue, Tasks, NobodyIsNext
<1>4. ASSUME NEW s \in Searches, Take(s) PROVE IInv'
  <2>1. s \in Tasks /\ Waiting(s) /\ s # Indexer
    BY <1>4, IndexerIsNoSearch DEF Take, Waiting, Tasks
  <2> QED BY <1>4, <2>1, LeavingQueue DEF Take, States
<1>5. ASSUME NEW s \in Searches, GiveUp(s) PROVE IInv'
  <2>1. s \in Tasks /\ Waiting(s) /\ s # Indexer /\ "refused" \in States
    BY <1>5, IndexerIsNoSearch DEF GiveUp, Waiting, Tasks, States
  <2>2. /\ queue' = Without(queue, s) /\ waiting' = waiting - 1 /\ locked' = locked
        /\ pc' = IF locked THEN [pc EXCEPT ![s] = "refused"]
                 ELSE Wake([pc EXCEPT ![s] = "refused"], queue')
    BY <1>5 DEF GiveUp
  <2> QED BY <2>1, <2>2, LeavingQueue
<1>6. ASSUME NEW s \in Searches, Answer(s) \/ Fail(s) PROVE IInv'
  BY <1>6, IndexerIsNoSearch, Finishing DEF Answer, Fail, Tasks
<1>7. CASE Offer
  <2>1. Indexer \in Tasks /\ pc[Indexer] = "idle"
    BY <1>7 DEF Offer, Tasks
  <2>2. CASE ~locked /\ NobodyIsNext
    BY <1>7, <2>1, <2>2, Taking DEF Offer
  <2>3. CASE ~(~locked /\ NobodyIsNext)
    <3>1. locked \/ queue # << >>
      BY <2>3 DEF NobodyIsNext
    <3> QED BY <1>7, <2>1, <2>3, <3>1, IndexerIsNoSearch, Queueing DEF Offer
  <2> QED BY <2>2, <2>3
<1>8. CASE TakeTurn
  <2>1. Indexer \in Tasks /\ Waiting(Indexer) /\ pc[Indexer] = "woken" /\ ~locked
    BY <1>8 DEF TakeTurn, Tasks, Waiting, IInv, WokenOK
  <2>2. queue' = Without(queue, Indexer) /\ waiting' = waiting /\ Indexer \notin Searches
    BY <1>8, IndexerIsNoSearch DEF TakeTurn
  <2>3. CASE waiting > 0
    <3>1. "idle" \in States /\ locked' = locked
      BY <1>8, <2>1, <2>3 DEF States, TakeTurn, IInv, TypeOK
    <3>2. pc' = Wake([pc EXCEPT ![Indexer] = "idle"], queue')
      BY <1>8, <2>3 DEF TakeTurn
    <3> QED BY <2>1, <2>2, <3>1, <3>2, LeavingQueue
  <2>4. CASE ~(waiting > 0)
    <3>1. "embed" \in States /\ locked' = TRUE /\ Becomes(Indexer, "embed")
      BY <1>8, <2>4 DEF States, TakeTurn
    <3> QED BY <2>1, <2>2, <3>1, LeavingQueue
  <2> QED BY <2>3, <2>4
<1>9. CASE BatchDone
  BY <1>9, Finishing DEF BatchDone, Tasks
<1>10. CASE UNCHANGED vars
  <2>1. QueueOK' /\ CountOK'
    BY <1>10 DEF IInv, QueueOK, CountOK, Queued, Distinct, WaitingSearches, Waiting, vars
  <2> QED
    BY <1>10, <2>1 DEF IInv, TypeOK, WokenOK, IndexerOK, OneAtATime, FreeLockIsOffered, vars
<1> QED
  BY <1>1, <1>2, <1>3, <1>4, <1>5, <1>6, <1>7, <1>8, <1>9, <1>10 DEF Next, Serve, Index

\* The invariant holds for all tasks and timeouts.
LEMMA Invariance == Spec => []IInv
BY Initially, Inductive, PTL DEF Spec

(* The counter of waiting requests stays within MAX_FOREGROUND_WAITERS, and *)
(* every task is in a state of the protocol.                                *)
THEOREM TypeCorrect == Spec => []TypeOK
<1>1. IInv => TypeOK
  BY DEF IInv
<1> QED BY Invariance, <1>1, PTL

(* The lock of InferenceCoordinator is exclusive although a waiter takes it *)
(* only when it is scheduled, and may have timed out by then.               *)
THEOREM MutualExclusion == Spec => []OneAtATime
<1>1. IInv => OneAtATime
  BY DEF IInv
<1> QED BY Invariance, <1>1, PTL

(* The counter is the number of searches that wait, and the queue holds     *)
(* every task that waits exactly once, at every step.                       *)
THEOREM CountIsTrue == Spec => []WaitersAreCounted
<1>1. IInv => WaitersAreCounted
  <2> SUFFICES ASSUME IInv PROVE WaitersAreCounted
    OBVIOUS
  <2>1. queue \in Seq(Tasks)
    BY DEF IInv, TypeOK
  <2>2. DOMAIN queue = 1..Len(queue)
    BY <2>1
  <2> QED
    BY <2>2 DEF IInv, CountOK, QueueOK, Queued, Distinct, WaitingSearches, WaitersAreCounted
<1> QED BY Invariance, <1>1, PTL

(* No wake-up is lost: while the lock is free the first of the queue was    *)
(* woken, or is about to give up and to wake the next one.                  *)
THEOREM NoLostWakeUp == Spec => []FreeLockIsOffered
<1>1. IInv => FreeLockIsOffered
  BY DEF IInv
<1> QED BY Invariance, <1>1, PTL

(* The promise of embed_background_batch: no batch begins while a search    *)
(* waits.                                                                   *)
THEOREM IndexerGivesWay == Spec => SearchesGoFirst
<1> DEFINE A == (pc'[Indexer] = "embed" /\ pc[Indexer] # "embed")
                   => \A s \in Searches : ~Waiting(s)
<1>1. IInv /\ [Next]_vars => [A]_vars
  <2> SUFFICES ASSUME IInv, Next, pc'[Indexer] = "embed", pc[Indexer] # "embed"
               PROVE  \A s \in Searches : ~Waiting(s)
    OBVIOUS
  <2>1. /\ pc \in [Tasks -> States] /\ queue \in Seq(Tasks) /\ Indexer \in Tasks
        /\ Searches \subseteq Tasks /\ Indexer \notin Searches /\ waiting \in Nat
    BY IndexerIsNoSearch, LimitIsNatural DEF IInv, TypeOK, States, Tasks
  <2>2. ASSUME NEW s \in Tasks, NEW state \in States, NEW q \in Seq(Tasks),
               pc' = Wake([pc EXCEPT ![s] = state], q), state # "embed"
        PROVE  FALSE
    <3> DEFINE f == [pc EXCEPT ![s] = state]
    <3>1. f \in [Tasks -> States] /\ f[Indexer] # "embed"
      BY <2>1, <2>2
    <3> HIDE DEF f
    <3>2. pc'[Indexer] # "embed"
      BY <2>1, <2>2, <3>1, Waking DEF f
    <3> QED BY <3>2
  <2>3. ASSUME NEW s \in Searches,
               QueueFull(s) \/ TakeAtOnce(s) \/ Enqueue(s) \/ Expire(s) \/ Ask(s) \/ Take(s)
        PROVE  FALSE
    BY <2>1, <2>3 DEF QueueFull, TakeAtOnce, Enqueue, Expire, Ask, Take, Becomes
  <2>4. ASSUME NEW s \in Searches, GiveUp(s) PROVE FALSE
    <3>1. Waiting(s) /\ s \in Tasks /\ "refused" \in States
      BY <2>1, <2>4 DEF GiveUp, Waiting, States
    <3>2. Without(queue, s) \in Seq(Tasks)
      BY <3>1, Leaving DEF IInv
    <3>3. CASE locked
      BY <2>1, <2>4, <3>3 DEF GiveUp
    <3>4. CASE ~locked
      BY <2>2, <2>4, <3>1, <3>2, <3>4 DEF GiveUp
    <3> QED BY <3>3, <3>4
  <2>5. ASSUME NEW s \in Searches, Answer(s) \/ Fail(s) PROVE FALSE
    BY <2>1, <2>2, <2>5 DEF Answer, Fail, Finish, States
  <2>6. CASE BatchDone
    BY <2>1, <2>2, <2>6 DEF BatchDone, Finish, States
  <2>7. CASE Offer \/ TakeTurn
    <3>1. waiting = 0
      <4>1. CASE Offer
        BY <4>1 DEF Offer
      <4>2. CASE TakeTurn /\ waiting > 0
        <5>1. Waiting(Indexer) /\ "idle" \in States
          BY <4>2 DEF TakeTurn, Waiting, States
        <5>2. Without(queue, Indexer) \in Seq(Tasks)
          BY <2>1, <5>1, Leaving DEF IInv
        <5> QED BY <2>1, <2>2, <4>2, <5>1, <5>2 DEF TakeTurn
      <4> QED BY <2>1, <2>7, <4>1, <4>2
    <3>2. WaitingSearches = {}
      BY <3>1, FS_EmptySet DEF IInv, CountOK
    <3> QED BY <3>2 DEF WaitingSearches
  <2> QED BY <2>3, <2>4, <2>5, <2>6, <2>7 DEF Next, Serve, Index
<1> QED BY Invariance, <1>1, PTL DEF Spec, SearchesGoFirst
-----------------------------------------------------------------------------
(* The ranking                                                             *)

\* The better of the two scores, as the reference chooses it.
LEMMA BestIsFused ==
  ASSUME NEW a \in Entry
  PROVE  /\ Best(a) = Fused(a) /\ Fused(a) \in Nat
         /\ a.crop \in Int /\ a.frame \in Int /\ a.time \in Nat
         /\ Fused(a) >= a.crop /\ Fused(a) >= a.frame /\ Fused(a) \in {a.crop, a.frame}
<1>1. /\ a.crop \in 0..MaxScore /\ a.frame \in 0..MaxScore \cup {-1} /\ a.time \in 0..1
      /\ MaxScore \in Nat
  BY EventsAndScores DEF Entry, Scores, Missing
<1>2. /\ Fused(a) \in {a.crop, a.frame} /\ Fused(a) >= a.crop /\ Fused(a) >= a.frame
      /\ Fused(a) \in Nat
  BY <1>1 DEF Fused
<1>3. Best(a) \in {a.crop, a.frame} /\ Best(a) >= a.crop /\ Best(a) >= a.frame
  BY <1>1, <1>2 DEF Best
<1> QED BY <1>1, <1>2, <1>3

\* The order of the ranking is a strict total order.
LEMMA OrderIsTotal ==
  ASSUME NEW present \in SUBSET Events, NEW snapshot \in [present -> Entry]
  PROVE  /\ \A e \in present : ~Precedes(snapshot, e, e)
         /\ \A e, f \in present :
              e = f \/ Precedes(snapshot, e, f) \/ Precedes(snapshot, f, e)
         /\ \A e, f, g \in present :
              Precedes(snapshot, e, f) /\ Precedes(snapshot, f, g) => Precedes(snapshot, e, g)
<1>1. \A e \in present : Fused(snapshot[e]) \in Nat /\ snapshot[e].time \in Nat /\ e \in Nat
  BY BestIsFused, EventsAndScores
<1> QED BY <1>1 DEF Precedes

\* What lexsort puts first has the better key.
LEMMA PrecedesBeats ==
  ASSUME NEW present \in SUBSET Events, NEW snapshot \in [present -> Entry],
         NEW e \in present, NEW f \in present, Precedes(snapshot, e, f)
  PROVE  Beats(Key(snapshot, e), Key(snapshot, f))
<1> DEFINE a == snapshot[e]
           b == snapshot[f]
<1>1. /\ Best(a) = Fused(a) /\ Best(b) = Fused(b) /\ Best(a) \in Nat /\ Best(b) \in Nat
      /\ a.time \in Nat /\ b.time \in Nat /\ e \in Nat /\ f \in Nat
  BY BestIsFused, EventsAndScores
<1>2. /\ Key(snapshot, e)[1] = Best(a) /\ Key(snapshot, f)[1] = Best(b)
      /\ Key(snapshot, e)[2] = a.time /\ Key(snapshot, f)[2] = b.time
      /\ Key(snapshot, e)[3] = -e /\ Key(snapshot, f)[3] = -f
  BY DEF Key
<1> HIDE DEF a, b
<1>3. CASE Best(a) > Best(b)
  <2>1. \A m \in 1..(1 - 1) : Key(snapshot, e)[m] = Key(snapshot, f)[m]
    OBVIOUS
  <2> QED BY <1>2, <1>3, <2>1 DEF Beats
<1>4. CASE Best(a) = Best(b) /\ a.time > b.time
  <2>1. \A m \in 1..(2 - 1) : m = 1
    OBVIOUS
  <2> QED BY <1>2, <1>4, <2>1 DEF Beats
<1>5. CASE Best(a) = Best(b) /\ a.time = b.time /\ e < f
  <2>1. \A m \in 1..(3 - 1) : m = 1 \/ m = 2
    OBVIOUS
  <2>2. -e > -f
    BY <1>1, <1>5
  <2> QED BY <1>2, <1>5, <2>1, <2>2 DEF Beats
<1> QED BY <1>1, <1>3, <1>4, <1>5 DEF Precedes, a, b

\* So any set of events of a snapshot can be sorted.
LEMMA SortedExists ==
  ASSUME NEW present \in SUBSET Events, NEW snapshot \in [present -> Entry],
         NEW kept \in SUBSET present
  PROVE  /\ Cardinality(kept) \in Nat /\ IsFiniteSet(kept)
         /\ \E s \in [1..Cardinality(kept) -> kept] :
              \A i, j \in DOMAIN s : i < j => Precedes(snapshot, s[i], s[j])
<1> DEFINE n         == Cardinality(kept)
           before(e) == {f \in kept : Precedes(snapshot, f, e)}
           rank      == [e \in kept |-> Cardinality(before(e)) + 1]
<1>1. IsFiniteSet(kept) /\ n \in Nat
  BY EventsAndScores, FS_Subset, FS_CardinalityType
<1>2. ASSUME NEW e \in kept
      PROVE  Cardinality(before(e)) \in 0..(n - 1)
  <2>1. before(e) \in SUBSET kept /\ e \notin before(e)
    BY OrderIsTotal
  <2>2. IsFiniteSet(before(e)) /\ Cardinality(before(e)) <= n /\ before(e) # kept
    BY <1>1, <2>1, FS_Subset
  <2>3. Cardinality(before(e)) # n
    BY <1>1, <2>1, <2>2, FS_Subset
  <2>4. Cardinality(before(e)) \in Nat
    BY <2>2, FS_CardinalityType
  <2> QED BY <1>1, <2>2, <2>3, <2>4
<1>3. ASSUME NEW e \in kept, NEW f \in kept, Precedes(snapshot, e, f)
      PROVE  Cardinality(before(e)) < Cardinality(before(f))
  <2>1. before(e) \in SUBSET before(f) /\ e \in before(f) /\ e \notin before(e)
    BY <1>3, OrderIsTotal
  <2>2. IsFiniteSet(before(f))
    BY <1>1, FS_Subset
  <2>3. Cardinality(before(e)) <= Cardinality(before(f))
        /\ Cardinality(before(e)) # Cardinality(before(f))
    BY <2>1, <2>2, FS_Subset
  <2> QED BY <1>2, <2>3
<1> HIDE DEF before
<1>4. rank \in [kept -> 1..n]
  BY <1>1, <1>2
<1>5. \A e, f \in kept : rank[e] < rank[f] <=> Precedes(snapshot, e, f)
  <2> SUFFICES ASSUME NEW e \in kept, NEW f \in kept
               PROVE  rank[e] < rank[f] <=> Precedes(snapshot, e, f)
    OBVIOUS
  <2>1. e = f \/ Precedes(snapshot, e, f) \/ Precedes(snapshot, f, e)
    BY OrderIsTotal
  <2>2. rank[e] = Cardinality(before(e)) + 1 /\ rank[f] = Cardinality(before(f)) + 1
        /\ Cardinality(before(e)) \in Nat /\ Cardinality(before(f)) \in Nat
    BY <1>1, <1>2
  <2>3. CASE Precedes(snapshot, e, f)
    BY <1>3, <2>2, <2>3
  <2>4. CASE Precedes(snapshot, f, e)
    <3>1. ~Precedes(snapshot, e, f)
      BY <2>4, OrderIsTotal
    <3> QED BY <1>3, <2>2, <2>4, <3>1
  <2>5. CASE e = f
    BY <2>2, <2>5, OrderIsTotal
  <2> QED BY <2>1, <2>3, <2>4, <2>5
<1> HIDE DEF rank
<1>6. rank \in Injection(kept, 1..n)
  BY <1>4, <1>5, OrderIsTotal DEF Injection, IsInjective
<1>7. IsFiniteSet(1..n) /\ Cardinality(1..n) = n
  BY <1>1, FS_Interval
<1>8. rank \in Surjection(kept, 1..n)
  BY <1>6, <1>7, FS_Injection
<1> DEFINE s == [i \in 1..n |-> CHOOSE e \in kept : rank[e] = i]
<1>9. \A i \in 1..n : s[i] \in kept /\ rank[s[i]] = i
  BY <1>8 DEF Surjection
<1>10. s \in [1..n -> kept] /\ \A i, j \in DOMAIN s : i < j => Precedes(snapshot, s[i], s[j])
  BY <1>5, <1>9
<1> QED BY <1>1, <1>10

\* A sorted set holds each of its elements, once.
LEMMA SortedIsPermutation ==
  ASSUME NEW present \in SUBSET Events, NEW snapshot \in [present -> Entry],
         NEW kept \in SUBSET present
  PROVE  LET n == Cardinality(kept)
             s == Sorted(snapshot, kept)
         IN  /\ n \in Nat /\ s \in [1..n -> kept]
             /\ \A i, j \in 1..n : i < j => Precedes(snapshot, s[i], s[j])
             /\ \A i, j \in 1..n : s[i] = s[j] => i = j
             /\ \A e \in kept : \E i \in 1..n : s[i] = e
<1> DEFINE n == Cardinality(kept)
           s == Sorted(snapshot, kept)
<1>1. n \in Nat /\ IsFiniteSet(kept)
  BY SortedExists
<1>2. s \in [1..n -> kept] /\ \A i, j \in DOMAIN s : i < j => Precedes(snapshot, s[i], s[j])
  BY SortedExists DEF Sorted
<1> HIDE DEF s
<1>3. \A i, j \in 1..n : s[i] = s[j] => i = j
  <2> SUFFICES ASSUME NEW i \in 1..n, NEW j \in 1..n, s[i] = s[j], i # j
               PROVE  FALSE
    OBVIOUS
  <2>1. i < j \/ j < i
    BY <1>1
  <2>2. ~Precedes(snapshot, s[i], s[i])
    BY <1>2, OrderIsTotal
  <2> QED BY <1>2, <2>1, <2>2
<1>4. s \in Injection(1..n, kept)
  BY <1>2, <1>3 DEF Injection, IsInjective
<1>5. IsFiniteSet(1..n) /\ Cardinality(1..n) = n
  BY <1>1, FS_Interval
<1>6. s \in Surjection(1..n, kept)
  BY <1>1, <1>4, <1>5, FS_Injection
<1>7. \A e \in kept : \E i \in 1..n : s[i] = e
  BY <1>6 DEF Surjection
<1> QED BY <1>1, <1>2, <1>3, <1>7 DEF s

\* The answer to a query is exact, for every snapshot, filter and limit.
LEMMA RankEventsIsExact ==
  ASSUME NEW present \in SUBSET Events, NEW snapshot \in [present -> Entry],
         NEW camera \in {"c", AnyCamera}, NEW minimum \in Scores \cup {NoMinimum},
         NEW k \in Nat
  PROVE  Exact(snapshot, camera, minimum, k)
<1> DEFINE kept     == {e \in Candidates(snapshot, camera) : Fused(snapshot[e]) >= minimum}
           n        == Cardinality(kept)
           order    == Sorted(snapshot, kept)
           m        == IF k < n THEN k ELSE n
           result   == RankEvents(snapshot, camera, minimum, k)
           matching == {e \in DOMAIN snapshot :
                          /\ camera = AnyCamera \/ snapshot[e].camera = camera
                          /\ snapshot[e].crop >= minimum \/ snapshot[e].frame >= minimum}
           left     == matching \ ToSet(result)
<1>1. minimum \in Int
  BY EventsAndScores DEF Scores, NoMinimum, Missing
<1>2. \A e \in present : /\ snapshot[e] \in Entry /\ Best(snapshot[e]) = Fused(snapshot[e])
                         /\ Fused(snapshot[e]) \in Nat /\ snapshot[e].time \in Nat
                         /\ snapshot[e].crop \in Int /\ snapshot[e].frame \in Int
                         /\ Fused(snapshot[e]) >= snapshot[e].crop
                         /\ Fused(snapshot[e]) >= snapshot[e].frame
                         /\ Fused(snapshot[e]) \in {snapshot[e].crop, snapshot[e].frame}
  BY BestIsFused
<1>3. kept = matching /\ kept \in SUBSET present
  <2>1. ASSUME NEW e \in present
        PROVE  Fused(snapshot[e]) >= minimum
                 <=> snapshot[e].crop >= minimum \/ snapshot[e].frame >= minimum
    BY <1>1, <1>2
  <2>2. DOMAIN snapshot = present
    OBVIOUS
  <2>3. Candidates(snapshot, camera) =
          {e \in present : camera = AnyCamera \/ snapshot[e].camera = camera}
    BY <2>2 DEF Candidates
  <2> QED BY <2>1, <2>2, <2>3
<1> HIDE DEF kept, matching
<1>4. /\ n \in Nat /\ order \in [1..n -> kept]
      /\ \A i, j \in 1..n : i < j => Precedes(snapshot, order[i], order[j])
      /\ \A i, j \in 1..n : order[i] = order[j] => i = j
      /\ \A e \in kept : \E i \in 1..n : order[i] = e
  BY <1>3, SortedIsPermutation
<1> HIDE DEF order, n
<1>5. /\ result = [i \in 1..m |-> order[i]] /\ Len(result) = m /\ m \in Nat /\ m <= n
      /\ DOMAIN result = 1..m
  <2>1. order \in Seq(kept) /\ Len(order) = n
    BY <1>4
  <2>2. result = SubSeq(order, 1, m)
    BY <2>1 DEF RankEvents, kept, order
  <2>3. m \in Nat /\ m <= n
    BY <1>4
  <2>4. result = [i \in 1..m |-> order[i]]
    BY <2>1, <2>2, <2>3, <1>4
  <2>5. Len(result) = m /\ DOMAIN result = 1..m
    BY <2>3, <2>4
  <2> QED BY <2>3, <2>4, <2>5
<1> HIDE DEF result
<1>6. ToSet(result) = {order[i] : i \in 1..m} /\ \A i \in 1..m : result[i] = order[i]
  BY <1>5 DEF ToSet
<1>7. ToSet(result) \subseteq matching
  BY <1>3, <1>4, <1>5, <1>6
<1>8. \A e \in left : \E j \in 1..n : order[j] = e /\ j > m
  BY <1>3, <1>4, <1>5, <1>6
<1>9. left # {} => Len(result) = k
  BY <1>4, <1>5, <1>8
<1>10. ASSUME NEW i \in 1..Len(result),
              NEW e \in left \cup {result[j] : j \in (i + 1)..Len(result)}
       PROVE  Beats(Key(snapshot, result[i]), Key(snapshot, e))
  <2>1. \E j \in 1..n : order[j] = e /\ j > i
    <3>1. CASE e \in left
      BY <1>4, <1>5, <1>8, <1>10, <3>1
    <3>2. CASE e \in {result[j] : j \in (i + 1)..Len(result)}
      <4>1. PICK j \in (i + 1)..Len(result) : e = result[j]
        BY <3>2
      <4>2. j \in 1..n /\ j \in 1..m /\ j > i
        BY <1>4, <1>5, <1>10, <4>1
      <4> QED BY <1>6, <4>1, <4>2
    <3> QED BY <1>10, <3>1, <3>2
  <2>2. PICK j \in 1..n : order[j] = e /\ j > i
    BY <2>1
  <2>3. i \in 1..n /\ result[i] = order[i]
    BY <1>4, <1>5, <1>6, <1>10
  <2>4. Precedes(snapshot, result[i], e) /\ result[i] \in present /\ e \in present
    BY <1>3, <1>4, <2>2, <2>3
  <2> QED BY <2>4, PrecedesBeats
<1> QED BY <1>7, <1>9, <1>10 DEF Exact, left, matching, result

\* Whoever searches, what is answered is ranked exactly: every event matches, the
\* better score comes first, of equal ones the later crossing, of equal ones the
\* smaller id, and what is cut off at the limit comes after all of them.
THEOREM AnswersAreExact == Spec => []RankingIsExact
<1>1. RankingIsExact
  <2>1. Cardinality(Events) \in Nat
    BY EventsAndScores, FS_CardinalityType
  <2> QED BY <2>1, RankEventsIsExact DEF RankingIsExact
<1> QED BY <1>1, PTL
-----------------------------------------------------------------------------
(* Discovery: what is listed                                               *)

\* Of a finite set that is ordered, some element has none before it.
LEMMA FirstExists ==
  ASSUME NEW S, IsFiniteSet(S), S # {}, NEW R,
         \A x \in S : <<x, x>> \notin R,
         \A x, y, z \in S : <<x, y>> \in R /\ <<y, z>> \in R => <<x, z>> \in R
  PROVE  \E x \in S : \A y \in S : <<y, x>> \notin R
<1> DEFINE below(x) == {y \in S : <<y, x>> \in R}
           T        == {below(x) : x \in S}
<1>1. IsWellFoundedOn(StrictSubsetOrdering(S), SUBSET S)
  BY FS_StrictSubsetOrderingWellFounded, FS_FiniteSubsetsOfFinite
<1>2. T \subseteq SUBSET S /\ T # {}
  <2>1. \A x \in S : below(x) \in SUBSET S /\ below(x) \in T
    OBVIOUS
  <2> QED BY <2>1
<1>3. PICK U \in T : \A V \in T : <<V, U>> \notin StrictSubsetOrdering(S)
  <2> HIDE DEF T
  <2> QED BY <1>1, <1>2, WFMin
<1>4. PICK x \in S : U = below(x)
  BY <1>3
<1>5. ASSUME NEW y \in S, <<y, x>> \in R
      PROVE  FALSE
  <2>1. below(y) \subseteq below(x) /\ y \in below(x) /\ y \notin below(y)
    BY <1>5
  <2>2. <<below(y), below(x)>> \in StrictSubsetOrdering(S)
    BY <2>1 DEF StrictSubsetOrdering
  <2> QED BY <1>3, <1>4, <2>2
<1> QED BY <1>5

\* A page can never consist of events that do not parse, and the history holds
\* one that does: the first page sets the mark.
FirstPageParses == History \ Malformed # {} /\ Cardinality(Malformed) < PageSize

\* The numbers are what they should be.
LEMMA NumbersAre ==
         /\ NumEvents \in Nat /\ PageSize \in Nat /\ MaxTime \in Nat /\ Overlap \in Nat
         /\ MaxTroubles \in Nat /\ Malformed \subseteq EventIds /\ History \subseteq EventIds
         /\ IsFiniteSet(EventIds) /\ EventIds \subseteq Nat \ {0}
         /\ Never \in Int /\ Never < 0 - Overlap
         /\ Marks \subseteq Int /\ \A t \in Marks : t >= Never /\ t <= MaxTime
<1>1. /\ NumEvents \in Nat /\ PageSize \in Nat /\ MaxTime \in Nat /\ Overlap \in Nat
      /\ MaxTroubles \in Nat
  BY NumbersAreNatural
<1>2. Malformed \subseteq EventIds /\ History \subseteq EventIds
  BY EventsAreKnown
<1>3. IsFiniteSet(EventIds) /\ EventIds \subseteq Nat \ {0}
  BY <1>1, FS_Interval DEF EventIds
<1> QED BY <1>1, <1>2, <1>3 DEF Marks, Times, Never

\* The order of the listing is strict and total.
LEMMA ListingIsTotal ==
  ASSUME time \in [EventIds -> Marks]
  PROVE  /\ \A e \in EventIds : ~Before(e, e) /\ time[e] \in Int
         /\ \A e, f \in EventIds : e = f \/ Before(e, f) \/ Before(f, e)
         /\ \A e, f, g \in EventIds : Before(e, f) /\ Before(f, g) => Before(e, g)
         /\ \A e, f \in EventIds : Before(e, f) => time[e] <= time[f]
         /\ \A e, f \in EventIds : ~Before(e, f) => time[e] >= time[f]
<1>1. \A e \in EventIds : time[e] \in Int /\ e \in Nat
  BY NumbersAre
<1> QED BY <1>1 DEF Before

\* The newest time of a set of events is the time of one of them.
LEMMA NewestIs ==
  ASSUME time \in [EventIds -> Marks], NEW S \in SUBSET EventIds
  PROVE  /\ Newest(S) \in Marks /\ Newest(S) \in Int
         /\ \A e \in S : time[e] <= Newest(S)
         /\ Newest(S) = Never \/ \E e \in S : Newest(S) = time[e]
<1> DEFINE R == {r \in S \X S : time[r[1]] > time[r[2]]}
           T == {time[e] : e \in S} \cup {Never}
<1>1. \A e \in S : time[e] \in Marks /\ time[e] \in Int /\ time[e] >= Never
  BY NumbersAre
<1>2. \E t \in T : \A e \in S : time[e] <= t
  <2>1. CASE S = {}
    BY <2>1
  <2>2. CASE S # {}
    <3>1. IsFiniteSet(S)
      BY NumbersAre, FS_Subset
    <3>2. \E x \in S : \A y \in S : <<y, x>> \notin R
      <4>1. \A x \in S : <<x, x>> \notin R
        BY <1>1
      <4>2. \A x, y, z \in S : <<x, y>> \in R /\ <<y, z>> \in R => <<x, z>> \in R
        BY <1>1
      <4> HIDE DEF R
      <4> QED BY <2>2, <3>1, <4>1, <4>2, FirstExists
    <3>3. PICK x \in S : \A y \in S : <<y, x>> \notin R
      BY <3>2
    <3>4. \A y \in S : time[y] <= time[x]
      <4> SUFFICES ASSUME NEW y \in S PROVE ~(time[y] > time[x])
        BY <1>1
      <4>1. <<y, x>> \notin R
        BY <3>3
      <4> QED BY <4>1
    <3> QED BY <3>4
  <2> QED BY <2>1, <2>2
<1>3. Newest(S) \in T /\ \A e \in S : time[e] <= Newest(S)
  BY <1>2 DEF Newest
<1>4. Never \in Marks
  BY DEF Marks
<1> QED BY <1>1, <1>3, <1>4, NumbersAre

\* The events that a request asks for.
Rows(c, from) ==
  {e \in Committed : time[e] >= from /\ (c = NoCursor \/ Before(e, c.event))}

\* A page lists the newest of them; if there are more, these come after its
\* cursor, which is its oldest event, and the page is not within any set that
\* is smaller than it.
LEMMA PageIs ==
  ASSUME time \in [EventIds -> Marks], signing \in 0..MaxTroubles,
         NEW M \in SUBSET EventIds, Cardinality(M) < PageSize, NEW c, NEW from
  PROVE  LET p == Query(c, from)
         IN  /\ p \in Page /\ p.events \subseteq Rows(c, from)
             /\ p.next = NoCursor => p.events = Rows(c, from)
             /\ p.next # NoCursor =>
                  /\ p.next.event \in p.events
                  /\ \A e \in p.events : time[p.next.event] <= time[e]
                  /\ \A e \in Rows(c, from) \ p.events : Before(e, p.next.event)
                  /\ p.events \ M # {}
<1> DEFINE rows   == Rows(c, from)
           newer(e) == {f \in rows : Before(e, f)}
           items  == {e \in rows : Cardinality(newer(e)) < PageSize}
           last   == CHOOSE e \in items : \A f \in items : e = f \/ Before(e, f)
           p      == Query(c, from)
<1>1. p = [events |-> items,
           next |-> IF items = rows THEN NoCursor ELSE [event |-> last, key |-> signing]]
  BY DEF Query, Rows
<1>2. /\ rows \subseteq EventIds /\ IsFiniteSet(rows) /\ items \subseteq rows
      /\ \A e \in rows : IsFiniteSet(newer(e)) /\ Cardinality(newer(e)) \in Nat
  <2>1. rows \subseteq EventIds /\ IsFiniteSet(rows)
    BY NumbersAre, FS_Subset DEF Rows, Committed
  <2> QED BY <2>1, FS_Subset, FS_CardinalityType
<1>3. PageSize \in Nat /\ IsFiniteSet(M) /\ Cardinality(M) \in Nat
  BY NumbersAre, FS_Subset, FS_CardinalityType
<1> HIDE DEF rows
<1>4. ASSUME items # rows
      PROVE  items \ M # {}
  <2> DEFINE rest == rows \ items
             R    == {r \in rest \X rest : Before(r[2], r[1])}
  <2>1. rest # {} /\ rest \subseteq EventIds /\ IsFiniteSet(rest)
    BY <1>2, <1>4, FS_Subset
  <2>2. PICK x \in rest : \A y \in rest : <<y, x>> \notin R
    <3>1. \A x \in rest : <<x, x>> \notin R
      BY <2>1, ListingIsTotal
    <3>2. \A x, y, z \in rest : <<x, y>> \in R /\ <<y, z>> \in R => <<x, z>> \in R
      BY <2>1, ListingIsTotal
    <3> HIDE DEF R, rest
    <3> QED BY <2>1, <3>1, <3>2, FirstExists
  <2>3. newer(x) \subseteq items
    BY <2>2
  <2>4. ~(Cardinality(newer(x)) < PageSize)
    BY <2>2
  <2>5. ASSUME items \subseteq M
        PROVE  FALSE
    <3>1. newer(x) \in SUBSET M
      BY <2>3, <2>5
    <3>2. Cardinality(newer(x)) <= Cardinality(M)
      BY <1>3, <3>1, FS_Subset
    <3>3. Cardinality(newer(x)) \in Nat
      BY <1>2, <2>2
    <3> QED BY <1>3, <2>4, <3>2, <3>3
  <2> QED BY <2>5
<1>5. ASSUME items # {}
      PROVE  last \in items /\ \A f \in items : last = f \/ Before(last, f)
  <2> DEFINE R == {r \in items \X items : Before(r[1], r[2])}
  <2> HIDE DEF items
  <2>1. items \subseteq EventIds /\ IsFiniteSet(items)
    BY <1>2, FS_Subset
  <2>2. PICK x \in items : \A y \in items : <<y, x>> \notin R
    <3>1. \A x \in items : <<x, x>> \notin R
      BY <2>1, ListingIsTotal
    <3>2. \A x, y, z \in items : <<x, y>> \in R /\ <<y, z>> \in R => <<x, z>> \in R
      BY <2>1, ListingIsTotal
    <3> HIDE DEF R
    <3> QED BY <1>5, <2>1, <3>1, <3>2, FirstExists
  <2>3. \A f \in items : x = f \/ Before(x, f)
    BY <2>1, <2>2, ListingIsTotal
  <2> QED BY <2>3
<1>6. ASSUME items # rows, NEW e \in rows \ items
      PROVE  Before(e, last)
  <2>1. last \in items /\ last \in EventIds /\ e \in EventIds
    BY <1>2, <1>4, <1>5, <1>6
  <2>2. last # e /\ Cardinality(newer(last)) < PageSize /\ ~(Cardinality(newer(e)) < PageSize)
    BY <1>6, <2>1
  <2>3. CASE Before(last, e)
    <3>1. newer(e) \in SUBSET newer(last) /\ last \in rows
      BY <1>2, <1>6, <2>1, <2>3, ListingIsTotal
    <3>2. Cardinality(newer(e)) <= Cardinality(newer(last))
      BY <1>2, <3>1, FS_Subset
    <3>3. Cardinality(newer(e)) \in Nat /\ Cardinality(newer(last)) \in Nat
      BY <1>2, <1>6, <3>1
    <3> QED BY <1>3, <2>2, <3>2, <3>3
  <2> QED BY <2>1, <2>2, <2>3, ListingIsTotal
<1> HIDE DEF items, last
<1>7. CASE items = rows
  <2>1. p = [events |-> items, next |-> NoCursor]
    BY <1>1, <1>7
  <2> QED BY <1>2, <1>7, <2>1 DEF Page, Cursor, rows
<1>8. CASE items # rows
  <2>1. p = [events |-> items, next |-> [event |-> last, key |-> signing]]
    BY <1>1, <1>8
  <2>2. last \in items /\ last \in EventIds /\ \A f \in items : last = f \/ Before(last, f)
    BY <1>2, <1>4, <1>5, <1>8
  <2>3. \A e \in items : time[last] <= time[e]
    BY <1>2, <2>2, ListingIsTotal
  <2>4. p \in Page
    BY <1>2, <2>1, <2>2 DEF Page, Cursor
  <2>5. p.events \ M # {}
    BY <1>4, <1>8, <2>1
  <2>6. p.events = items /\ p.next = [event |-> last, key |-> signing] /\ p.next.event = last
    BY <2>1
  <2>7. p.next # NoCursor
    BY <2>2, <2>6, NumbersAre DEF NoCursor
  <2>8. \A e \in rows \ items : Before(e, last)
    BY <1>6, <1>8
  <2> HIDE DEF p
  <2>9. /\ p \in Page /\ p.events \subseteq rows
        /\ p.next = NoCursor => p.events = rows
        /\ p.next # NoCursor =>
             /\ p.next.event \in p.events
             /\ \A e \in p.events : time[p.next.event] <= time[e]
             /\ \A e \in rows \ p.events : Before(e, p.next.event)
             /\ p.events \ M # {}
    BY <1>2, <2>2, <2>3, <2>4, <2>5, <2>6, <2>7, <2>8
  <2> QED BY <2>9 DEF p, rows
<1> QED BY <1>7, <1>8

\* What a request returns is a page.
LEMMA PageIsTyped ==
  ASSUME time \in [EventIds -> Marks], signing \in 0..MaxTroubles, NEW c, NEW from
  PROVE  Query(c, from) \in Page
<1>1. {} \in SUBSET EventIds /\ Cardinality({}) < PageSize
  BY NumbersAreNatural, FS_EmptySet
<1> QED BY <1>1, PageIs

\* And if malformed events are few, one that parses.
LEMMA PageParses ==
  ASSUME FirstPageParses, time \in [EventIds -> Marks], signing \in 0..MaxTroubles,
         NEW c, NEW from
  PROVE  LET p == Query(c, from)
         IN  /\ p \in Page /\ p.events \subseteq Rows(c, from)
             /\ p.next = NoCursor => p.events = Rows(c, from)
             /\ p.next # NoCursor =>
                  /\ p.next.event \in p.events
                  /\ \A e \in p.events : time[p.next.event] <= time[e]
                  /\ \A e \in Rows(c, from) \ p.events : Before(e, p.next.event)
                  /\ Parsed(p) # {}
<1>1. Malformed \in SUBSET EventIds /\ Cardinality(Malformed) < PageSize
  BY NumbersAre DEF FirstPageParses
<1> QED BY <1>1, PageIs DEF Parsed

-----------------------------------------------------------------------------
(* Discovery: its types                                                    *)

\* The key has changed no more often than there was trouble.
DTypes == DiscoveryTypeOK /\ signing <= troubles

\* A window reaches back from a mark.
LEMMA WindowIs ==
  ASSUME time \in [EventIds -> Marks], NEW m \in Marks, NEW S \in SUBSET EventIds
  PROVE  WindowStart(m, S) \in (0 - Overlap)..MaxTime \cup {Never}
<1> DEFINE high == IF m = Never THEN Newest(S) ELSE m
<1>1. high \in Marks
  BY NewestIs
<1> HIDE DEF high
<1>2. CASE high = Never
  BY <1>2 DEF WindowStart, high
<1>3. CASE high # Never
  <2>1. high \in 0..MaxTime /\ MaxTime \in Nat /\ Overlap \in Nat
    BY <1>1, <1>3, NumbersAre DEF Marks, Times
  <2>2. WindowStart(m, S) = high - Overlap
    BY <1>3 DEF WindowStart, high
  <2> QED BY <2>1, <2>2
<1> QED BY <1>2, <1>3

\* No step leaves the types.
LEMMA TypesKept ==
  ASSUME DTypes, [DiscoveryNext]_discoveryVars
  PROVE  DTypes'
<1> USE DEF DTypes
<1>1. /\ time \in [EventIds -> Marks] /\ signing \in 0..MaxTroubles /\ troubles \in 0..MaxTroubles
      /\ MaxTroubles \in Nat /\ page \in Page /\ rpage \in Page
      /\ mark \in Marks /\ newest \in Marks /\ local \in SUBSET EventIds
      /\ cursor \in Cursor /\ rcursor \in Cursor /\ at \in Cursor
  BY NumbersAre DEF DiscoveryTypeOK
<1>2. /\ page.next \in Cursor /\ rpage.next \in Cursor
      /\ Parsed(page) \in SUBSET EventIds /\ Parsed(rpage) \in SUBSET EventIds
  BY <1>1 DEF Page, Parsed
<1>3. NoPage \in Page /\ NoCursor \in Cursor /\ Never \in Marks
  BY DEF NoPage, Page, Cursor, Marks
<1>4. \A s, t \in Marks : Later(s, t) \in Marks
  BY DEF Later
<1>5. Newest(Parsed(page)) \in Marks
  BY <1>1, <1>2, NewestIs
<1>6. Trouble => troubles' \in 0..MaxTroubles /\ signing <= troubles'
  BY <1>1 DEF Trouble, DTypes
<1>7. \A m \in Marks, S \in SUBSET EventIds :
        WindowStart(m, S) \in (0 - Overlap)..MaxTime \cup {Never}
  BY <1>1, WindowIs
<1>8. CASE UNCHANGED discoveryVars
  BY <1>8 DEF discoveryVars, upstream, durable, discovery, reconcile, DiscoveryTypeOK
<1>9. CASE ChangeKey \/ \E e \in EventIds, t \in Times : Commit(e, t)
  <2>1. CASE ChangeKey
    <3>1. signing' \in 0..MaxTroubles /\ signing' <= troubles'
      BY <1>1, <2>1 DEF ChangeKey, Trouble
    <3> QED BY <1>6, <2>1, <3>1
            DEF ChangeKey, durable, discovery, reconcile, DiscoveryTypeOK
  <2>2. ASSUME NEW e \in EventIds, NEW t \in Times, Commit(e, t)
        PROVE  DTypes'
    <3>1. time' \in [EventIds -> Marks] /\ late' \in SUBSET EventIds
      BY <1>1, <2>2 DEF Commit, Marks, DiscoveryTypeOK
    <3> QED BY <2>2, <3>1 DEF Commit, durable, discovery, reconcile, DiscoveryTypeOK
  <2> QED BY <1>9, <2>1, <2>2
<1>10. CASE RunOnce \/ RequestFails \/ BackfillReset \/ PollReset
  <2>1. CASE RunOnce
    <3>1. /\ UNCHANGED <<upstream, durable, reconcile, troubles>>
          /\ BeginPoll \/ (dpc' = "backfill" /\ UNCHANGED <<start, at, newest, page>>)
      <4>1. UNCHANGED <<upstream, durable, reconcile, troubles>>
        BY <2>1 DEF RunOnce
      <4>2. CASE done
        BY <2>1, <4>1, <4>2 DEF RunOnce
      <4>3. CASE ~done
        BY <2>1, <4>1, <4>3 DEF RunOnce
      <4> QED BY <4>2, <4>3
    <3>2. BeginPoll => /\ dpc' = "poll" /\ at' = NoCursor /\ newest' = Never /\ page' = NoPage
                       /\ start' \in (0 - Overlap)..MaxTime \cup {Never}
      <4>1. BeginPoll => start' = WindowStart(mark, local)
        BY <3>1 DEF BeginPoll, WindowStart, Newest, durable, upstream
      <4> QED BY <1>1, <1>7, <4>1 DEF BeginPoll
    <3> QED BY <1>3, <3>1, <3>2 DEF upstream, durable, reconcile, DiscoveryTypeOK
  <2>2. CASE RequestFails
    BY <1>3, <1>6, <2>2
    DEF RequestFails, EndPass, upstream, durable, reconcile, DiscoveryTypeOK
  <2>3. CASE BackfillReset \/ PollReset
    BY <1>3, <2>3
    DEF BackfillReset, PollReset, EndPass, upstream, durable, reconcile, DiscoveryTypeOK
  <2> QED BY <1>10, <2>1, <2>2, <2>3
<1>11. CASE BackfillPage \/ PollPage \/ ReconcilePage
  <2>1. Query(cursor, Never) \in Page /\ Query(at, start) \in Page /\ Query(rcursor, Never) \in Page
    BY <1>1, PageIsTyped
  <2> QED BY <1>11, <2>1
          DEF BackfillPage, PollPage, ReconcilePage, upstream, durable, discovery, reconcile,
              DiscoveryTypeOK
<1>12. CASE SavePage
  <2>1. /\ local' \in SUBSET EventIds /\ mark' \in Marks /\ cursor' \in Cursor /\ done' \in BOOLEAN
        /\ UNCHANGED <<time, signing, late, rcursor, rpc, rpage, troubles>>
    BY <1>1, <1>2, <1>4, <1>5, <1>12
    DEF SavePage, AdvanceMark, upstream, reconcile, DiscoveryTypeOK
  <2>2. /\ dpc' \in {"idle", "backfill", "poll"} /\ at' \in Cursor /\ newest' \in Marks /\ page' \in Page
        /\ start' \in {start, Never, WindowStart(mark', local')}
    <3>1. \/ dpc' = "backfill" /\ page' = NoPage /\ UNCHANGED <<start, at, newest>>
          \/ BeginPoll \/ EndPass
      BY <1>12 DEF SavePage
    <3> QED BY <1>1, <1>3, <3>1 DEF EndPass, BeginPoll
  <2>3. WindowStart(mark', local') \in (0 - Overlap)..MaxTime \cup {Never}
    BY <1>7, <2>1
  <2> QED BY <2>1, <2>2, <2>3 DEF DiscoveryTypeOK
<1>13. CASE SavePoll
  BY <1>1, <1>2, <1>3, <1>4, <1>5, <1>13
  DEF SavePoll, EndPass, upstream, reconcile, DiscoveryTypeOK
<1>14. CASE ReconcilePauses \/ ReconcileReset \/ SaveReconciled
  BY <1>1, <1>2, <1>3, <1>6, <1>14
  DEF ReconcilePauses, ReconcileReset, SaveReconciled, upstream, durable, discovery, reconcile,
      DiscoveryTypeOK
<1>15. CASE Crash \/ CrashInBackfill \/ CrashInPoll \/ CrashInReconcile
  <2>1. Nowhere
    BY <1>15 DEF Crash, CrashInBackfill, CrashInPoll, CrashInReconcile
  <2>2. /\ UNCHANGED <<time, signing, late, rcursor, done>>
        /\ local' \in SUBSET EventIds /\ mark' \in Marks /\ cursor' \in Cursor
    BY <1>1, <1>2, <1>4, <1>5, <1>15
    DEF Crash, CrashInBackfill, CrashInPoll, CrashInReconcile, AdvanceMark, upstream, durable
  <2> QED BY <1>3, <1>6, <2>1, <2>2 DEF Nowhere, DiscoveryTypeOK
<1> QED BY <1>8, <1>9, <1>10, <1>11, <1>12, <1>13, <1>14, <1>15
        DEF DiscoveryNext, Discover, Reconciling

\* The variables of discovery have their types.
THEOREM DiscoveryTypes == DiscoverySpec => []DiscoveryTypeOK
<1>1. DiscoveryInit => DTypes
  <2>1. ASSUME DiscoveryInit PROVE DTypes
    <3>1. NoPage \in Page /\ NoCursor \in Cursor /\ Never \in Marks
      BY DEF NoPage, Page, Cursor, Marks
    <3>2. time \in [EventIds -> Marks] /\ 0 \in 0..MaxTroubles /\ 0 <= 0
      BY <2>1, NumbersAre DEF Marks, DiscoveryInit
    <3> QED BY <2>1, <3>1, <3>2 DEF DiscoveryInit, DTypes, DiscoveryTypeOK
  <2> QED BY <2>1
<1>2. DTypes /\ [DiscoveryNext]_discoveryVars => DTypes'
  BY TypesKept
<1>3. DTypes => DiscoveryTypeOK
  BY DEF DTypes
<1> QED BY <1>1, <1>2, <1>3, PTL DEF DiscoverySpec

-----------------------------------------------------------------------------
(* Discovery: its invariant                                                *)

\* The events that discovery still owes.
Pending == Committed \ (Malformed \cup local \cup late)

PageTop == Newest(Parsed(page))

\* A time that is not after every event that parses.
Reached(t) == t = Never \/ \E e \in Committed \ Malformed : t <= time[e]

\* There is a mark as soon as the backfill has moved, and it never falls
\* behind the cursor.
MarkOK ==
  /\ Reached(mark)
  /\ done \/ cursor # NoCursor => mark # Never
  /\ cursor # NoCursor => cursor.event \in Committed /\ time[cursor.event] <= mark

Covered == \A f \in Pending : Ahead(f) \/ time[f] >= mark - Overlap

PageOK ==
  /\ page.events \subseteq Committed
  /\ page.next # NoCursor => page.next.event \in Committed

\* What the backfill was ahead of when it asked for the page is in the page,
\* or behind it, or was committed since, and then near enough to the mark.
BackfillOK ==
  /\ dpc \in {"backfill", "save"} => ~done
  /\ dpc = "save" =>
       /\ PageOK
       /\ cursor # NoCursor => \A e \in page.events : time[e] <= time[cursor.event]
       /\ Later(mark, PageTop) # Never
       /\ page.next # NoCursor => time[page.next.event] <= Later(mark, PageTop)
       /\ \A f \in Pending : Ahead(f) =>
            \/ f \in page.events
            \/ page.next # NoCursor /\ Before(f, page.next.event)
            \/ time[f] >= Later(mark, PageTop) - Overlap

\* And so of the window of a poll and the pages it has asked for.
PollOK ==
  /\ dpc \in {"poll", "overlap"} =>
       /\ mark # Never /\ start = mark - Overlap /\ Reached(newest)
       /\ at # NoCursor => at.event \in Committed
  /\ dpc = "poll" =>
       \A f \in Pending :
         \/ Ahead(f)
         \/ time[f] >= start /\ (at = NoCursor \/ Before(f, at.event))
         \/ time[f] >= Later(mark, newest) - Overlap
  /\ dpc = "overlap" =>
       /\ PageOK
       /\ \A f \in Pending :
            \/ Ahead(f)
            \/ f \in page.events
            \/ page.next # NoCursor /\ Before(f, page.next.event) /\ time[f] >= start
            \/ time[f] >= Later(mark, Later(newest, PageTop)) - Overlap

\* A history that parses is there from the start.
HistoryOK == History \subseteq Committed

DInv ==
  /\ DiscoveryTypeOK /\ signing <= troubles /\ HistoryOK
  /\ MarkOK /\ Covered /\ BackfillOK /\ PollOK

\* The later of two times.
LEMMA LaterIs ==
  \A s, t \in Int : /\ Later(s, t) \in {s, t} /\ Later(s, t) \in Int
                    /\ Later(s, t) >= s /\ Later(s, t) >= t
BY DEF Later

\* The types of what the invariant compares.
LEMMA TypesAre ==
  ASSUME FirstPageParses, DInv
  PROVE  /\ time \in [EventIds -> Marks] /\ signing \in 0..MaxTroubles
         /\ \A e \in EventIds : time[e] \in Int
         /\ mark \in Marks /\ mark \in Int /\ newest \in Marks /\ newest \in Int
         /\ PageTop \in Marks /\ PageTop \in Int /\ Overlap \in Nat
         /\ Committed \subseteq EventIds /\ Pending \subseteq Committed
         /\ Parsed(page) \subseteq EventIds
         /\ \A e \in Parsed(page) : time[e] <= PageTop
         /\ PageTop = Never \/ \E e \in Parsed(page) : PageTop = time[e]
         /\ Later(mark, PageTop) \in Marks /\ Later(newest, PageTop) \in Marks
         /\ Later(mark, Later(newest, PageTop)) \in Marks
<1>1. /\ time \in [EventIds -> Marks] /\ signing \in 0..MaxTroubles
      /\ mark \in Marks /\ newest \in Marks /\ page \in Page
  BY DEF DInv, DiscoveryTypeOK
<1>2. Parsed(page) \subseteq EventIds
  BY <1>1 DEF Parsed, Page
<1>3. /\ PageTop \in Marks /\ PageTop \in Int
      /\ \A e \in Parsed(page) : time[e] <= PageTop
      /\ PageTop = Never \/ \E e \in Parsed(page) : PageTop = time[e]
  BY <1>1, <1>2, NewestIs DEF PageTop
<1>4. Committed \subseteq EventIds /\ Pending \subseteq Committed
  BY DEF Committed, Pending
<1> QED BY <1>1, <1>2, <1>3, <1>4, NumbersAre DEF Later

\* What has been reached is no later than the newest event that parses.
LEMMA ReachedIs ==
  ASSUME FirstPageParses, DInv, NEW t \in Int, Reached(t)
  PROVE  t <= Newest(Committed \ Malformed)
<1> DEFINE S   == Committed \ Malformed
           top == Newest(S)
<1>1. S \in SUBSET EventIds
  BY DEF Committed
<1>2. \A e \in S : time[e] <= top /\ time[e] \in Int
  BY <1>1, TypesAre, NewestIs
<1>3. top \in Int /\ Never <= top
  BY <1>1, TypesAre, NewestIs, NumbersAre
<1>4. t = Never \/ \E e \in S : t <= time[e]
  BY DEF Reached
<1> HIDE DEF S, top
<1>5. t <= top
  BY <1>2, <1>3, <1>4
<1> QED BY <1>5 DEF top, S

\* The discovery starts idle, without a mark.
LEMMA DInitially ==
  ASSUME FirstPageParses, DiscoveryInit
  PROVE  DInv
<1> USE DEF DiscoveryInit
<1>1. NoPage \in Page /\ NoCursor \in Cursor /\ Never \in Marks
  BY DEF NoPage, Page, Cursor, Marks
<1>2. time \in [EventIds -> Marks]
  BY DEF Marks
<1>3. DiscoveryTypeOK /\ signing <= troubles
  <2>1. signing \in 0..MaxTroubles /\ troubles \in 0..MaxTroubles /\ signing <= troubles
    BY NumbersAre
  <2> QED BY <1>1, <1>2, <2>1 DEF DiscoveryTypeOK
<1>4. HistoryOK
  BY <1>2, NumbersAre DEF HistoryOK, Committed
<1>5. MarkOK /\ Covered /\ BackfillOK /\ PollOK
  BY DEF MarkOK, Reached, Covered, Ahead, BackfillOK, PollOK
<1> QED BY <1>3, <1>4, <1>5 DEF DInv

-----------------------------------------------------------------------------
(* Discovery: its steps                                                    *)

\* With the same events, the listing is the same.
LEMMA SameListing ==
  ASSUME UNCHANGED time
  PROVE  /\ Committed' = Committed
         /\ \A e, f : Before(e, f)' <=> Before(e, f)
         /\ \A t : Reached(t)' <=> Reached(t)
         /\ page' = page => PageTop' = PageTop
         /\ page' = page => (PageOK' <=> PageOK)
BY DEF Committed, Before, Reached, PageTop, Newest, Parsed, PageOK

\* A step that leaves the events, the mark and the cursor alone and loses
\* no mirrored event keeps the invariant, if discovery stays where it is or
\* ends its pass.
LEMMA StaysCovered ==
  ASSUME FirstPageParses, DInv, UNCHANGED <<time, late, mark, done, cursor>>, local \subseteq local'
  PROVE  HistoryOK' /\ MarkOK' /\ Covered' /\ Pending' \subseteq Pending
<1>1. Pending' \subseteq Pending
  BY SameListing DEF Pending
<1> QED BY <1>1, SameListing DEF DInv, HistoryOK, MarkOK, Covered, Ahead

\* And then the whole of the invariant.
LEMMA StaysAtRest ==
  ASSUME FirstPageParses, DInv, UNCHANGED <<time, late, mark, done, cursor>>, local \subseteq local',
         DiscoveryTypeOK', signing' <= troubles', UNCHANGED discovery \/ dpc' = "idle"
  PROVE  DInv'
<1>1. HistoryOK' /\ MarkOK' /\ Covered' /\ Pending' \subseteq Pending
  BY StaysCovered
<1>2. CASE dpc' = "idle"
  BY <1>1, <1>2 DEF DInv, BackfillOK, PollOK
<1>3. CASE UNCHANGED discovery
  <2>1. UNCHANGED <<dpc, start, at, newest, page>>
    BY <1>3 DEF discovery
  <2>2. /\ PageOK' <=> PageOK
        /\ PageTop' = PageTop /\ \A f : Ahead(f)' <=> Ahead(f)
    BY <2>1, SameListing DEF Ahead
  <2>3. BackfillOK'
    BY <1>1, <2>1, <2>2, SameListing DEF DInv, BackfillOK, Later
  <2>4. PollOK'
    BY <1>1, <2>1, <2>2, SameListing DEF DInv, PollOK, Later
  <2> QED BY <1>1, <2>3, <2>4 DEF DInv
<1> QED BY <1>2, <1>3
\* An event is committed: it is within the overlap of whatever has been
\* reached, or it is late.
LEMMA CommitCovered ==
  ASSUME FirstPageParses, DInv, NEW e \in EventIds, NEW t \in Times, Commit(e, t)
  PROVE  DInv'
<1> USE DEF DInv
<1> DEFINE top == Newest(Committed \ Malformed)
<1>1. /\ time[e] = Never /\ time' = [time EXCEPT ![e] = t]
      /\ late' = IF t < top - Overlap THEN late \cup {e} ELSE late
      /\ UNCHANGED <<signing, local, mark, done, cursor, rcursor, dpc, start, at, newest,
                     page, rpc, rpage, troubles>>
  BY DEF Commit, durable, discovery, reconcile
<1>2. /\ t \in Marks /\ t \in Int /\ t # Never
      /\ time' \in [EventIds -> Marks] /\ time'[e] = t
      /\ \A f \in EventIds : f # e => time'[f] = time[f]
      /\ e \notin Committed /\ Committed \subseteq EventIds
  BY <1>1, TypesAre, NumbersAre DEF Marks, Times, Committed
<1>3. Committed' = Committed \cup {e}
  BY <1>1, <1>2 DEF Committed
<1>4. \A f \in Committed : time'[f] = time[f]
  BY <1>2
<1>5. \A f, g \in Committed : Before(f, g)' <=> Before(f, g)
  BY <1>4 DEF Before
<1>6. \A r : Reached(r) => Reached(r)'
  BY <1>2, <1>3, <1>4 DEF Reached
<1>7. Pending' \subseteq Pending \cup {e}
  BY <1>1, <1>3 DEF Pending
<1>8. e \in Pending' => \A r \in Int : Reached(r) => time'[e] >= r - Overlap
  <2> SUFFICES ASSUME e \in Pending', NEW r \in Int, Reached(r)
               PROVE  time'[e] >= r - Overlap
    OBVIOUS
  <2>1. r <= top
    BY ReachedIs
  <2>2. top \in Int
    <3>1. Committed \ Malformed \in SUBSET EventIds
      BY <1>2
    <3> QED BY <3>1, TypesAre, NewestIs
  <2>3. ~(t < top - Overlap)
    BY <1>1, <1>2 DEF Pending
  <2> HIDE DEF top
  <2> QED BY <1>2, <2>1, <2>2, <2>3, NumbersAre
<1>9. PageOK => /\ PageTop' = PageTop /\ Reached(PageTop)
                /\ \A f \in page.events : time'[f] = time[f]
  <2> SUFFICES ASSUME PageOK
               PROVE  PageTop' = PageTop /\ Reached(PageTop)
    BY <1>4 DEF PageOK
  <2>1. Parsed(page) \subseteq Committed \ Malformed /\ page' = page
    BY <1>1 DEF PageOK, Parsed
  <2>2. Parsed(page)' = Parsed(page)
    BY <1>1 DEF Parsed
  <2>3. PageTop' = PageTop
    BY <1>4, <2>1, <2>2 DEF PageTop, Newest
  <2>4. Reached(PageTop)
    <3>1. PageTop = Never \/ \E f \in Parsed(page) : PageTop = time[f]
      BY TypesAre
    <3>2. \A f \in Parsed(page) : time[f] <= time[f]
      BY TypesAre
    <3> QED BY <2>1, <3>1, <3>2 DEF Reached
  <2> QED BY <2>3, <2>4
<1>10. DiscoveryTypeOK' /\ signing' <= troubles' /\ HistoryOK'
  <2>1. late' \in SUBSET EventIds
    BY <1>1 DEF DiscoveryTypeOK
  <2> QED BY <1>1, <1>2, <1>3, <2>1 DEF DiscoveryTypeOK, HistoryOK
<1>11. MarkOK'
  BY <1>1, <1>3, <1>4, <1>6 DEF MarkOK
<1>12. ASSUME NEW f \in Pending
       PROVE  /\ Ahead(f) => Ahead(f)'
              /\ time'[f] = time[f] /\ f \in Committed
  BY <1>1, <1>4, <1>5, TypesAre DEF Ahead, MarkOK
<1>13. Covered'
  <2> SUFFICES ASSUME NEW f \in Pending' PROVE Ahead(f)' \/ time'[f] >= mark - Overlap
    BY <1>1 DEF Covered
  <2>1. CASE f = e
    BY <1>8, <2>1, TypesAre DEF MarkOK
  <2>2. CASE f # e
    BY <1>7, <1>12, <2>2 DEF Covered
  <2> QED BY <2>1, <2>2
<1>14. BackfillOK'
  <2>1. CASE dpc = "save"
    <3>1. PageOK /\ PageOK'
      BY <1>1, <1>3, <2>1 DEF BackfillOK, PageOK
    <3>2. Later(mark, PageTop)' = Later(mark, PageTop) /\ Reached(Later(mark, PageTop))
          /\ Later(mark, PageTop) \in Int
      BY <1>1, <1>9, <3>1, TypesAre, LaterIs DEF Later, MarkOK
    <3>3. ASSUME NEW f \in Pending', Ahead(f)'
          PROVE  \/ f \in page.events
                 \/ page.next # NoCursor /\ Before(f, page.next.event)'
                 \/ time'[f] >= Later(mark, PageTop) - Overlap
      <4>1. CASE f = e
        BY <1>8, <3>2, <3>3, <4>1
      <4>2. CASE f # e
        <5>1. f \in Pending /\ f \in Committed /\ time'[f] = time[f]
          BY <1>7, <1>12, <3>3, <4>2
        <5>2. Ahead(f)
          BY <1>1, <1>5, <3>3, <5>1 DEF Ahead, MarkOK
        <5> QED BY <1>1, <1>5, <2>1, <3>1, <5>1, <5>2 DEF BackfillOK, PageOK
      <4> QED BY <4>1, <4>2
    <3>4. page.next # NoCursor => time'[page.next.event] = time[page.next.event]
      BY <1>4, <3>1 DEF PageOK
    <3>5. cursor # NoCursor => time'[cursor.event] = time[cursor.event]
      BY <1>4 DEF MarkOK
    <3> QED BY <1>1, <1>9, <2>1, <3>1, <3>2, <3>3, <3>4, <3>5 DEF BackfillOK
  <2>2. CASE dpc # "save"
    BY <1>1, <2>2 DEF BackfillOK
  <2> QED BY <2>1, <2>2
<1>15. PollOK'
  <2>1. dpc \in {"poll", "overlap"} =>
          /\ mark # Never /\ start = mark - Overlap /\ Reached(newest) /\ Reached(newest)'
          /\ at # NoCursor => at.event \in Committed /\ at.event \in Committed'
    BY <1>1, <1>3, <1>6 DEF PollOK
  <2>2. CASE dpc = "poll"
    <3>1. /\ Later(mark, newest)' = Later(mark, newest) /\ Reached(Later(mark, newest))
          /\ Later(mark, newest) \in Int
      BY <1>1, <2>1, <2>2, TypesAre, LaterIs DEF Later, MarkOK
    <3>2. ASSUME NEW f \in Pending'
          PROVE  \/ Ahead(f)'
                 \/ time'[f] >= start /\ (at = NoCursor \/ Before(f, at.event)')
                 \/ time'[f] >= Later(mark, newest) - Overlap
      <4>1. CASE f = e
        BY <1>8, <3>1, <3>2, <4>1
      <4>2. CASE f # e
        <5>1. f \in Pending
          BY <1>7, <3>2, <4>2
        <5> QED BY <1>1, <1>5, <1>12, <2>1, <2>2, <5>1 DEF PollOK
      <4> QED BY <4>1, <4>2
    <3> QED BY <1>1, <2>1, <2>2, <3>1, <3>2 DEF PollOK
  <2>3. CASE dpc = "overlap"
    <3>1. PageOK /\ PageOK'
      BY <1>1, <1>3, <2>3 DEF PollOK, PageOK
    <3> DEFINE reached == Later(mark, Later(newest, PageTop))
    <3>2. reached' = reached /\ Reached(reached) /\ reached \in Int
      <4>1. reached' = reached
        BY <1>1, <1>9, <3>1 DEF Later
      <4>2. reached \in {mark, newest, PageTop} /\ reached \in Int
        BY TypesAre, LaterIs
      <4> QED BY <1>9, <2>1, <2>3, <3>1, <4>1, <4>2 DEF MarkOK
    <3>3. ASSUME NEW f \in Pending'
          PROVE  \/ Ahead(f)' \/ f \in page.events
                 \/ /\ page.next # NoCursor /\ Before(f, page.next.event)'
                    /\ time'[f] >= start
                 \/ time'[f] >= reached - Overlap
      <4>1. CASE f = e
        BY <1>8, <3>2, <3>3, <4>1
      <4>2. CASE f # e
        <5>1. f \in Pending
          BY <1>7, <3>3, <4>2
        <5> QED BY <1>1, <1>5, <1>12, <2>3, <3>1, <5>1 DEF PollOK, PageOK
      <4> QED BY <4>1, <4>2
    <3> HIDE DEF reached
    <3>4. \A f \in Pending' : \/ Ahead(f)' \/ f \in page'.events
                              \/ /\ page'.next # NoCursor /\ Before(f, page.next.event)'
                                 /\ time'[f] >= start'
                              \/ time'[f] >= reached' - Overlap
      BY <1>1, <3>2, <3>3
    <3> QED BY <1>1, <2>1, <2>3, <3>1, <3>4 DEF PollOK, reached
  <2>4. CASE dpc \notin {"poll", "overlap"}
    BY <1>1, <2>4 DEF PollOK
  <2> QED BY <2>2, <2>3, <2>4
<1> QED BY <1>10, <1>11, <1>13, <1>14, <1>15
\* A poll begins, with a mark that is there.
LEMMA PollBegins ==
  ASSUME FirstPageParses, BeginPoll, mark' \in Marks, mark' # Never, MarkOK', Covered'
  PROVE  /\ BackfillOK' /\ PollOK'
         /\ start' \in (0 - Overlap)..MaxTime \cup {Never}
         /\ at' \in Cursor /\ newest' \in Marks /\ page' \in Page
         /\ dpc' = "poll"
<1>1. /\ dpc' = "poll" /\ at' = NoCursor /\ newest' = Never /\ page' = NoPage
      /\ start' = mark' - Overlap
  BY DEF BeginPoll, WindowStart
<1>2. mark' \in Times /\ mark' \in 0..MaxTime /\ Overlap \in Nat /\ MaxTime \in Nat
  BY NumbersAre DEF Marks, Times
<1>3. start' \in (0 - Overlap)..MaxTime
  <2>1. \A m \in 0..MaxTime : m - Overlap \in (0 - Overlap)..MaxTime
    BY NumbersAre
  <2> QED BY <1>1, <1>2, <2>1
<1>4. BackfillOK'
  BY <1>1 DEF BackfillOK
<1>5. PollOK'
  BY <1>1 DEF PollOK, Covered, Reached
<1> QED BY <1>1, <1>3, <1>4, <1>5 DEF Cursor, Page, NoPage, Marks

\* A pass begins.
LEMMA RunOnceCovered ==
  ASSUME FirstPageParses, DInv, RunOnce
  PROVE  DInv'
<1> USE DEF DInv
<1>1. /\ dpc = "idle"
      /\ UNCHANGED <<time, signing, late, local, mark, done, cursor, rcursor, rpc, rpage, troubles>>
  BY DEF RunOnce, upstream, durable, reconcile
<1>2. HistoryOK' /\ MarkOK' /\ Covered'
  BY <1>1, StaysCovered
<1>3. CASE done
  <2>1. BeginPoll /\ mark' # Never /\ mark' \in Marks
    BY <1>1, <1>3, TypesAre DEF RunOnce, MarkOK
  <2>2. BackfillOK' /\ PollOK'
    BY <1>2, <2>1, PollBegins
  <2>3. DiscoveryTypeOK'
    BY <1>1, <1>2, <2>1, PollBegins DEF DiscoveryTypeOK
  <2> QED BY <1>1, <1>2, <2>2, <2>3
<1>4. CASE ~done
  <2>1. dpc' = "backfill" /\ UNCHANGED <<start, at, newest, page>>
    BY <1>4 DEF RunOnce
  <2>2. DiscoveryTypeOK'
    BY <1>1, <2>1 DEF DiscoveryTypeOK
  <2>3. BackfillOK' /\ PollOK'
    BY <1>1, <1>4, <2>1 DEF BackfillOK, PollOK
  <2> QED BY <1>1, <1>2, <2>2, <2>3
<1> QED BY <1>3, <1>4

\* A pass ends, or the process is killed, before anything was saved.
LEMMA EndsCovered ==
  ASSUME FirstPageParses, DInv, UNCHANGED <<time, late, mark, done, cursor, signing, rcursor>>,
         local \subseteq local', local' \subseteq EventIds, troubles' \in 0..MaxTroubles,
         troubles' >= troubles, dpc' = "idle", start' = Never, at' = NoCursor,
         newest' = Never, page' = NoPage, rpc' \in {"ask", "save"}, rpage' \in Page
  PROVE  DInv'
<1>1. NoPage \in Page /\ NoCursor \in Cursor /\ Never \in Marks
  BY DEF NoPage, Page, Cursor, Marks
<1>2. signing' <= troubles'
  BY NumbersAre DEF DInv, DiscoveryTypeOK
<1>3. DiscoveryTypeOK'
  BY <1>1 DEF DInv, DiscoveryTypeOK
<1> QED BY <1>2, <1>3, StaysAtRest

\* The backfill asks for its next page.
LEMMA BackfillPageCovered ==
  ASSUME FirstPageParses, DInv, BackfillPage
  PROVE  DInv'
<1> USE DEF DInv
<1>1. /\ dpc = "backfill" /\ dpc' = "save" /\ ~done
      /\ page' = Query(cursor, Never)
      /\ UNCHANGED <<time, signing, late, local, mark, done, cursor, rcursor, start, at, newest,
                     rpc, rpage, troubles>>
  BY DEF BackfillPage, upstream, durable, reconcile, BackfillOK
<1>2. HistoryOK' /\ MarkOK' /\ Covered' /\ Pending' \subseteq Pending
  BY <1>1, StaysCovered
<1> DEFINE rows == Rows(cursor, Never)
           p    == Query(cursor, Never)
<1>3. /\ p \in Page /\ p.events \subseteq rows
      /\ p.next = NoCursor => p.events = rows
      /\ p.next # NoCursor =>
           /\ p.next.event \in p.events
           /\ \A e \in p.events : time[p.next.event] <= time[e]
           /\ \A e \in rows \ p.events : Before(e, p.next.event)
           /\ Parsed(p) # {}
  BY TypesAre, PageParses
<1>4. DiscoveryTypeOK'
  BY <1>1, <1>3 DEF DiscoveryTypeOK
<1>5. /\ rows \subseteq Committed
      /\ \A f \in Committed : Ahead(f) => f \in rows
      /\ cursor # NoCursor => \A e \in rows : time[e] <= time[cursor.event]
  <2>1. \A f \in Committed : time[f] >= Never
    BY TypesAre, NumbersAre
  <2>2. cursor # NoCursor => cursor.event \in EventIds
    BY TypesAre DEF MarkOK
  <2> QED BY <2>1, <2>2, TypesAre, ListingIsTotal DEF Rows, Ahead
<1>6. PageOK'
  BY <1>1, <1>3, <1>5, SameListing DEF PageOK
<1>7. /\ PageTop' = Newest(Parsed(p)) /\ PageTop' \in Marks /\ PageTop' \in Int
      /\ \A e \in Parsed(p) : time[e] <= PageTop'
      /\ Parsed(p) \subseteq EventIds /\ Parsed(p) = p.events \ Malformed
  <2>1. Parsed(p) \in SUBSET EventIds /\ Parsed(p) = p.events \ Malformed
    BY <1>3 DEF Parsed, Page
  <2>2. PageTop' = Newest(Parsed(p))
    BY <1>1 DEF PageTop, Newest, Parsed
  <2> QED BY <2>1, <2>2, TypesAre, NewestIs
<1> DEFINE reached == Later(mark, PageTop')
<1>8. reached \in Int /\ reached >= mark /\ reached >= PageTop' /\ reached \in {mark, PageTop'}
  BY <1>7, TypesAre, LaterIs
<1>9. Later(mark, PageTop)' = reached
  BY <1>1 DEF Later
<1>10. reached # Never
  <2>1. CASE cursor # NoCursor
    BY <1>8, <2>1, TypesAre, NumbersAre DEF MarkOK
  <2>2. CASE cursor = NoCursor
    <3>1. PICK e \in Parsed(p) : e \in Committed
      <4>1. CASE p.next # NoCursor
        BY <1>3, <1>5, <1>7, <4>1
      <4>2. CASE p.next = NoCursor
        <5>1. PICK h \in History : h \notin Malformed
          BY DEF FirstPageParses
        <5>2. h \in rows /\ h \in Committed
          BY <1>1, <1>5, <2>2 DEF HistoryOK, Ahead
        <5> QED BY <1>3, <1>7, <4>2, <5>1, <5>2
      <4> QED BY <4>1, <4>2
    <3>2. time[e] # Never /\ time[e] \in Marks /\ time[e] >= Never /\ time[e] \in Int
      BY <3>1, TypesAre, NumbersAre DEF Committed
    <3>3. time[e] <= PageTop'
      BY <1>7, <3>1
    <3> HIDE DEF reached, p
    <3> QED BY <1>7, <1>8, <3>2, <3>3, NumbersAre
  <2> QED BY <2>1, <2>2
<1>11. ASSUME p.next # NoCursor
       PROVE  time[p.next.event] <= reached
  <2>1. PICK e \in Parsed(p) : TRUE
    BY <1>3, <1>11
  <2>2. e \in p.events /\ p.next.event \in p.events /\ p.events \subseteq EventIds
    BY <1>3, <1>7, <1>11, <2>1, TypesAre, <1>5
  <2>3. time[p.next.event] <= time[e] /\ time[e] <= PageTop'
    BY <1>3, <1>7, <1>11, <2>1, <2>2
  <2>4. time[e] \in Int /\ time[p.next.event] \in Int
    BY <2>2, TypesAre
  <2> HIDE DEF reached, p
  <2> QED BY <1>7, <1>8, <2>3, <2>4
<1>12. ASSUME NEW f \in Pending', Ahead(f)
       PROVE  f \in p.events \/ (p.next # NoCursor /\ Before(f, p.next.event))
  BY <1>2, <1>3, <1>5, <1>12, TypesAre
<1>13. BackfillOK'
  <2>1. /\ \A f : Ahead(f)' <=> Ahead(f)
        /\ \A f, g : Before(f, g)' <=> Before(f, g)
        /\ page' = p /\ p.events \subseteq rows
    BY <1>1, <1>3, SameListing DEF Ahead
  <2>2. p.next # NoCursor => (Before(1, 1)' <=> Before(1, 1))
    BY <2>1
  <2>3. \A f : Before(f, page.next.event)' <=> Before(f, p.next.event)
    BY <1>1 DEF Before
  <2> HIDE DEF p, rows, reached
  <2>4. /\ cursor # NoCursor => \A e \in p.events : time[e] <= time[cursor.event]
    BY <1>5, <2>1
  <2> QED BY <1>1, <1>6, <1>9, <1>10, <1>11, <1>12, <2>1, <2>3, <2>4 DEF BackfillOK
<1>14. PollOK'
  BY <1>1 DEF PollOK
<1> QED BY <1>1, <1>2, <1>4, <1>13, <1>14

\* A page of the backfill is saved, or a part of it is before the process is
\* killed: with the mark where the page moves it, nothing is skipped whether
\* or not the cursor has followed.
LEMMA SavedCovered ==
  ASSUME FirstPageParses, DInv, dpc = "save",
         UNCHANGED <<time, late>>, local' = local \cup Parsed(page),
         mark' = Later(mark, PageTop), cursor' \in {cursor, page.next},
         \/ done' = done
         \/ done' = TRUE /\ page.next = NoCursor
  PROVE  HistoryOK' /\ MarkOK' /\ Covered' /\ mark' # Never /\ mark' \in Marks
         /\ local' \subseteq EventIds
<1> USE DEF DInv
<1>1. /\ ~done /\ PageOK
      /\ cursor # NoCursor => \A e \in page.events : time[e] <= time[cursor.event]
      /\ Later(mark, PageTop) # Never
      /\ page.next # NoCursor => time[page.next.event] <= Later(mark, PageTop)
      /\ \A f \in Pending : Ahead(f) =>
            \/ f \in page.events
            \/ page.next # NoCursor /\ Before(f, page.next.event)
            \/ time[f] >= Later(mark, PageTop) - Overlap
  BY DEF BackfillOK
<1>2. mark' \in Int /\ mark' >= mark /\ mark' \in {mark, PageTop} /\ mark' \in Marks
  BY TypesAre, LaterIs
<1>3. Parsed(page) = page.events \ Malformed /\ page.events \subseteq Committed
  BY <1>1 DEF Parsed, PageOK
<1>4. HistoryOK'
  BY SameListing DEF HistoryOK
<1>5. Reached(mark')
  <2>1. Reached(mark)
    BY DEF MarkOK
  <2>2. PageTop = Never \/ \E e \in Parsed(page) : time[e] \in Int /\ PageTop = time[e]
    BY TypesAre
  <2>3. Reached(PageTop)
    BY <1>3, <2>2 DEF Reached
  <2> QED BY <1>2, <2>1, <2>3
<1>6. cursor # NoCursor => mark' = mark
  <2> SUFFICES ASSUME cursor # NoCursor PROVE PageTop <= mark
    BY <1>2, TypesAre, LaterIs DEF Later
  <2>1. time[cursor.event] <= mark /\ time[cursor.event] \in Int /\ mark >= Never
    BY TypesAre, NumbersAre DEF MarkOK
  <2>2. PageTop = Never \/ \E e \in page.events : time[e] \in Int /\ PageTop = time[e]
    BY <1>3, TypesAre
  <2> QED BY <1>1, <2>1, <2>2, TypesAre
<1>7. MarkOK'
  <2>1. Reached(mark)'
    BY <1>5 DEF Reached, Committed
  <2>2. ASSUME cursor' # NoCursor
        PROVE  cursor'.event \in Committed /\ time[cursor'.event] <= mark'
    <3>1. CASE cursor' = page.next
      BY <1>1, <2>2, <3>1 DEF PageOK
    <3>2. CASE cursor' = cursor
      BY <1>6, <2>2, <3>2 DEF MarkOK
    <3> QED BY <3>1, <3>2
  <2> QED BY <1>1, <2>1, <2>2, SameListing DEF MarkOK
<1>8. Covered'
  <2> SUFFICES ASSUME NEW f \in Pending' PROVE Ahead(f)' \/ time[f] >= mark' - Overlap
    BY DEF Covered
  <2>1. f \in Pending /\ f \notin page.events /\ f \in Committed /\ time[f] \in Int
    BY <1>3, SameListing, TypesAre DEF Pending
  <2>2. CASE Ahead(f)
    <3>1. CASE page.next # NoCursor /\ Before(f, page.next.event)
      <4>1. ~done' /\ cursor' \in {cursor, page.next}
        BY <1>1, <3>1
      <4>2. cursor' = NoCursor \/ Before(f, cursor'.event)
        BY <1>1, <2>2, <3>1 DEF Ahead
      <4>3. Before(f, cursor'.event) <=> Before(f, cursor.event)'
        BY DEF Before
      <4> QED BY <4>1, <4>2, <4>3 DEF Ahead
    <3>2. CASE time[f] >= Later(mark, PageTop) - Overlap
      BY <3>2
    <3> QED BY <1>1, <2>1, <2>2, <3>1, <3>2
  <2>3. CASE ~Ahead(f)
    <3>1. cursor # NoCursor
      BY <1>1, <2>3 DEF Ahead
    <3>2. time[f] >= mark - Overlap
      BY <2>1, <2>3 DEF Covered
    <3> QED BY <1>6, <3>1, <3>2
  <2> QED BY <2>2, <2>3
<1>9. local' \subseteq EventIds
  BY TypesAre DEF DiscoveryTypeOK
<1> QED BY <1>1, <1>2, <1>4, <1>7, <1>8, <1>9

\* A page of the backfill is saved.
LEMMA SavePageCovered ==
  ASSUME FirstPageParses, DInv, SavePage
  PROVE  DInv'
<1> USE DEF DInv
<1>1. /\ dpc = "save" /\ local' = local \cup Parsed(page)
      /\ mark' = Later(mark, PageTop) /\ cursor' = page.next
      /\ UNCHANGED <<time, signing, late, rcursor, rpc, rpage, troubles>>
      /\ \/ done' = TRUE /\ page.next = NoCursor /\ EndPass
         \/ /\ done' = done
            /\ \/ dpc' = "backfill" /\ page' = NoPage /\ UNCHANGED <<start, at, newest>>
               \/ BeginPoll
  BY DEF SavePage, AdvanceMark, PageTop, upstream, reconcile
<1>2. /\ HistoryOK' /\ MarkOK' /\ Covered' /\ mark' # Never /\ mark' \in Marks
      /\ local' \in SUBSET EventIds
  BY <1>1, SavedCovered
<1>3. /\ cursor' \in Cursor /\ done' \in BOOLEAN /\ NoPage \in Page /\ NoCursor \in Cursor
      /\ Never \in Marks
  BY <1>1 DEF DiscoveryTypeOK, Page, NoPage, Cursor, Marks
<1>4. CASE EndPass
  BY <1>1, <1>2, <1>3, <1>4 DEF EndPass, DiscoveryTypeOK, BackfillOK, PollOK
<1>5. CASE dpc' = "backfill" /\ done' = done /\ page' = NoPage
           /\ UNCHANGED <<start, at, newest>>
  BY <1>1, <1>2, <1>3, <1>5 DEF DiscoveryTypeOK, BackfillOK, PollOK
<1>6. CASE BeginPoll
  BY <1>1, <1>2, <1>3, <1>6, PollBegins DEF DiscoveryTypeOK
<1> QED BY <1>1, <1>4, <1>5, <1>6

\* The process is killed while it saves a page of the backfill.
LEMMA CrashInBackfillCovered ==
  ASSUME FirstPageParses, DInv, CrashInBackfill
  PROVE  DInv'
<1>1. /\ dpc = "save" /\ local' = local \cup Parsed(page)
      /\ \/ UNCHANGED <<mark, cursor>>
         \/ mark' = Later(mark, PageTop) /\ cursor' \in {cursor, page.next}
      /\ UNCHANGED <<time, signing, late, rcursor, done>>
      /\ dpc' = "idle" /\ start' = Never /\ at' = NoCursor /\ newest' = Never
      /\ page' = NoPage /\ rpc' = "ask" /\ rpage' = NoPage
      /\ troubles < MaxTroubles /\ troubles' = troubles + 1
  BY DEF CrashInBackfill, AdvanceMark, PageTop, upstream, Nowhere, Trouble
<1>2. /\ troubles' \in 0..MaxTroubles /\ troubles' >= troubles /\ signing' <= troubles'
      /\ NoPage \in Page /\ NoCursor \in Cursor /\ Never \in Marks
  BY <1>1, NumbersAre DEF DInv, DiscoveryTypeOK, Page, NoPage, Cursor, Marks
<1>3. local' \subseteq EventIds
  BY <1>1, TypesAre DEF DInv, DiscoveryTypeOK
<1>4. CASE UNCHANGED <<mark, cursor>>
  BY <1>1, <1>2, <1>3, <1>4, EndsCovered
<1>5. CASE mark' = Later(mark, PageTop) /\ cursor' \in {cursor, page.next}
  <2>1. HistoryOK' /\ MarkOK' /\ Covered' /\ mark' \in Marks
    BY <1>1, <1>5, SavedCovered
  <2>2. cursor' \in Cursor
    BY <1>5 DEF DInv, DiscoveryTypeOK, Page
  <2>3. DiscoveryTypeOK'
    BY <1>1, <1>2, <1>3, <2>1, <2>2 DEF DInv, DiscoveryTypeOK
  <2> QED BY <1>1, <1>2, <2>1, <2>3 DEF DInv, BackfillOK, PollOK
<1> QED BY <1>1, <1>4, <1>5

\* The cursor of the backfill is refused: it walks the history again.
LEMMA BackfillResetCovered ==
  ASSUME FirstPageParses, DInv, BackfillReset
  PROVE  DInv'
<1> USE DEF DInv
<1>1. /\ dpc = "backfill" /\ ~done /\ cursor' = NoCursor /\ dpc' = "idle"
      /\ start' = Never /\ at' = NoCursor /\ newest' = Never /\ page' = NoPage
      /\ UNCHANGED <<time, signing, late, local, mark, done, rcursor, rpc, rpage, troubles>>
  BY DEF BackfillReset, EndPass, upstream, reconcile, BackfillOK
<1>2. NoPage \in Page /\ NoCursor \in Cursor /\ Never \in Marks
  BY DEF Page, NoPage, Cursor, Marks
<1>3. DiscoveryTypeOK'
  BY <1>1, <1>2 DEF DiscoveryTypeOK
<1>4. HistoryOK' /\ MarkOK'
  BY <1>1, SameListing DEF HistoryOK, MarkOK
<1>5. Covered'
  BY <1>1 DEF Covered, Ahead
<1> QED BY <1>1, <1>3, <1>4, <1>5 DEF BackfillOK, PollOK

\* A poll asks for its next page.  What lies after the page that came before
\* is no older than anything the page lists.
LEMMA PollPageCovered ==
  ASSUME FirstPageParses, DInv, PollPage
  PROVE  DInv'
<1> USE DEF DInv
<1>1. /\ dpc = "poll" /\ dpc' = "overlap" /\ page' = Query(at, start)
      /\ UNCHANGED <<time, signing, late, local, mark, done, cursor, rcursor, start, at, newest,
                     rpc, rpage, troubles>>
  BY DEF PollPage, upstream, durable, reconcile
<1>2. HistoryOK' /\ MarkOK' /\ Covered' /\ Pending' \subseteq Pending
  BY <1>1, StaysCovered
<1> DEFINE rows == Rows(at, start)
           p    == Query(at, start)
<1>3. /\ p \in Page /\ p.events \subseteq rows
      /\ p.next = NoCursor => p.events = rows
      /\ p.next # NoCursor =>
           /\ p.next.event \in p.events
           /\ \A e \in rows \ p.events : Before(e, p.next.event)
  BY TypesAre, PageParses
<1>4. /\ rows \subseteq Committed /\ p.events \subseteq Committed
      /\ at # NoCursor => at.event \in EventIds /\ \A e \in rows : Before(e, at.event)
  BY <1>1, <1>3, TypesAre DEF Rows, PollOK
<1>5. PageOK'
  BY <1>1, <1>3, <1>4, SameListing DEF PageOK
<1>6. DiscoveryTypeOK'
  BY <1>1, <1>3 DEF DiscoveryTypeOK
<1>7. /\ PageTop' = Newest(p.events \ Malformed) /\ PageTop' \in Int
      /\ PageTop' = Never \/ \E e \in p.events : PageTop' = time[e]
  <2>1. Parsed(p) \in SUBSET EventIds /\ Parsed(p) = p.events \ Malformed
    BY <1>3 DEF Parsed, Page
  <2>2. PageTop' = Newest(Parsed(p))
    BY <1>1 DEF PageTop, Newest, Parsed
  <2> QED BY <2>1, <2>2, TypesAre, NewestIs
<1> DEFINE before  == Later(mark, newest)
           reached == Later(mark, Later(newest, PageTop'))
<1>8. /\ before \in Int /\ reached \in Int /\ before >= mark /\ before >= Never
      /\ reached \in {before, PageTop'}
  BY <1>7, TypesAre, NumbersAre DEF Later
<1>9. reached = Later(mark, Later(newest, PageTop))'
  BY <1>1 DEF Later
<1>10. ASSUME NEW f \in Pending'
       PROVE  \/ Ahead(f) \/ f \in p.events
              \/ p.next # NoCursor /\ Before(f, p.next.event) /\ time[f] >= start
              \/ time[f] >= reached - Overlap
  <2>1. /\ f \in Pending /\ f \in Committed /\ f \in EventIds /\ time[f] \in Int
        /\ Overlap \in Nat /\ start = mark - Overlap /\ mark \in Int
    BY <1>1, <1>2, TypesAre DEF PollOK
  <2>2. CASE f \in rows
    BY <1>3, <2>1, <2>2 DEF Rows
  <2>3. CASE f \notin rows /\ ~Ahead(f)
    <3>1. \/ time[f] >= start /\ (at = NoCursor \/ Before(f, at.event))
          \/ time[f] >= before - Overlap
      BY <1>1, <2>1, <2>3 DEF PollOK
    <3>2. time[f] >= before - Overlap /\ time[f] >= start
      BY <1>8, <2>1, <2>3, <3>1 DEF Rows
    <3>3. at # NoCursor /\ ~Before(f, at.event)
      BY <2>1, <2>3, <3>2 DEF Rows
    <3>4. time[f] >= time[at.event] /\ time[at.event] \in Int
      BY <1>4, <2>1, <3>3, TypesAre, ListingIsTotal
    <3>5. CASE reached = before
      BY <3>2, <3>5
    <3>6. CASE reached = PageTop' /\ PageTop' # Never
      <4>1. PICK e \in p.events : PageTop' = time[e]
        BY <1>7, <3>6
      <4>2. e \in EventIds /\ Before(e, at.event)
        BY <1>3, <1>4, <3>3, TypesAre
      <4>3. time[e] <= time[at.event] /\ time[e] \in Int
        BY <1>4, <3>3, <4>2, TypesAre, ListingIsTotal
      <4> HIDE DEF reached, p, before
      <4> QED BY <2>1, <3>4, <3>6, <4>1, <4>3
    <3>7. CASE reached = PageTop' /\ PageTop' = Never
      <4>1. reached <= before
        BY <1>8, <3>7, NumbersAre
      <4> HIDE DEF reached, p, before
      <4> QED BY <1>8, <2>1, <3>2, <4>1
    <3> QED BY <1>8, <3>5, <3>6, <3>7
  <2> QED BY <2>2, <2>3
<1>11. BackfillOK'
  BY <1>1 DEF BackfillOK
<1>12. PollOK'
  <2>1. /\ \A f : Ahead(f)' <=> Ahead(f)
        /\ \A f : Before(f, page.next.event)' <=> Before(f, p.next.event)
        /\ page' = p
    BY <1>1 DEF Ahead, Before
  <2>2. /\ mark' # Never /\ start' = mark' - Overlap /\ Reached(newest)'
        /\ at' # NoCursor => at'.event \in Committed'
    BY <1>1, SameListing DEF PollOK
  <2> HIDE DEF p, rows, before, reached
  <2>3. \A f \in Pending' : \/ Ahead(f)' \/ f \in page'.events
                            \/ /\ page'.next # NoCursor /\ Before(f, page.next.event)'
                               /\ time'[f] >= start'
                            \/ time'[f] >= Later(mark, Later(newest, PageTop))' - Overlap
    BY <1>1, <1>9, <1>10, <2>1
  <2> QED BY <1>1, <1>5, <2>2, <2>3 DEF PollOK
<1> QED BY <1>1, <1>2, <1>6, <1>11, <1>12

\* A page of a poll is saved: only the last one moves the mark.
LEMMA SavePollCovered ==
  ASSUME FirstPageParses, DInv, SavePoll
  PROVE  DInv'
<1> USE DEF DInv
<1> DEFINE reached == Later(mark, Later(newest, PageTop))
<1>1. /\ dpc = "overlap" /\ local' = local \cup Parsed(page)
      /\ UNCHANGED <<time, signing, late, done, cursor, rcursor, rpc, rpage, troubles>>
      /\ \/ page.next = NoCursor /\ mark' = reached /\ EndPass
         \/ start = Never
         \/ /\ page.next # NoCursor /\ dpc' = "poll" /\ at' = page.next
            /\ newest' = Later(newest, PageTop) /\ page' = NoPage
            /\ UNCHANGED <<mark, start>>
  BY DEF SavePoll, PageTop, upstream, reconcile
<1>2. /\ mark # Never /\ start = mark - Overlap /\ Reached(newest) /\ PageOK
      /\ \A f \in Pending :
            \/ Ahead(f)
            \/ f \in page.events
            \/ page.next # NoCursor /\ Before(f, page.next.event) /\ time[f] >= start
            \/ time[f] >= reached - Overlap
  BY <1>1 DEF PollOK
<1>3. start # Never
  <2>1. mark >= 0
    BY <1>2, TypesAre DEF Marks, Times
  <2> QED BY <1>2, <2>1, TypesAre, NumbersAre
<1>4. /\ Parsed(page) = page.events \ Malformed /\ page.events \subseteq Committed
      /\ local' \in SUBSET EventIds
  BY <1>2, TypesAre, <1>1 DEF Parsed, PageOK, DiscoveryTypeOK
<1>5. \A f \in Pending' : f \in Pending /\ f \notin page.events
  BY <1>1, <1>4, SameListing DEF Pending
<1>6. Reached(Later(newest, PageTop))
  <2>1. PageTop = Never \/ \E e \in Parsed(page) : time[e] \in Int /\ PageTop = time[e]
    BY TypesAre
  <2>2. Reached(PageTop)
    BY <1>4, <2>1 DEF Reached
  <2> QED BY <1>2, <2>2 DEF Later
<1>7. /\ \A f : Ahead(f)' <=> Ahead(f)
      /\ NoPage \in Page /\ NoCursor \in Cursor /\ Never \in Marks
      /\ page.next \in Cursor
  BY <1>1 DEF Ahead, Before, Page, NoPage, Cursor, Marks, DiscoveryTypeOK
<1>8. HistoryOK'
  BY <1>1, SameListing DEF HistoryOK
<1>9. CASE page.next = NoCursor /\ mark' = reached /\ EndPass
  <2>1. mark' \in Int /\ mark' >= mark /\ mark' # Never /\ mark' \in Marks /\ Reached(mark')
    <3>1. Later(newest, PageTop) \in Int
      BY TypesAre, LaterIs
    <3>2. mark' \in Int /\ mark' >= mark /\ mark' \in {mark, Later(newest, PageTop)}
      BY <1>9, <3>1, TypesAre, LaterIs
    <3>3. Reached(mark')
      BY <1>6, <3>2 DEF MarkOK
    <3>4. mark \in Int /\ mark > Never /\ Never \in Int
      BY <1>2, TypesAre, NumbersAre
    <3>5. mark' \in Marks
      BY <1>9, TypesAre
    <3> QED BY <3>2, <3>3, <3>4, <3>5
  <2>2. MarkOK'
    <3>1. Reached(mark)'
      BY <1>1, <2>1 DEF Reached, Committed
    <3>2. ASSUME cursor # NoCursor
          PROVE  cursor.event \in Committed /\ time[cursor.event] <= mark'
      <4>1. cursor.event \in Committed /\ time[cursor.event] <= mark
        BY <3>2 DEF MarkOK
      <4> QED BY <2>1, <4>1, TypesAre
    <3> QED BY <1>1, <2>1, <3>1, <3>2, SameListing DEF MarkOK
  <2>3. Covered'
    BY <1>1, <1>2, <1>5, <1>7, <1>9 DEF Covered
  <2>4. DiscoveryTypeOK'
    BY <1>1, <1>4, <1>7, <1>9, <2>1 DEF DiscoveryTypeOK, EndPass
  <2> QED BY <1>1, <1>8, <1>9, <2>2, <2>3, <2>4 DEF EndPass, BackfillOK, PollOK
<1>10. CASE /\ page.next # NoCursor /\ dpc' = "poll" /\ at' = page.next
            /\ newest' = Later(newest, PageTop) /\ page' = NoPage
            /\ UNCHANGED <<mark, start>>
  <2>1. DiscoveryTypeOK'
    BY <1>1, <1>4, <1>7, <1>10, TypesAre DEF DiscoveryTypeOK
  <2>2. MarkOK'
    BY <1>1, <1>10, SameListing DEF MarkOK
  <2>3. Covered'
    BY <1>1, <1>5, <1>7, <1>10 DEF Covered
  <2>4. PollOK'
    <3>1. Reached(newest)' /\ page.next.event \in Committed'
      BY <1>1, <1>2, <1>6, <1>10, SameListing DEF Reached, PageOK
    <3>2. Later(mark, newest)' = reached
      BY <1>10 DEF Later
    <3>3. \A f : Before(f, at.event)' <=> Before(f, page.next.event)
      BY <1>1, <1>10 DEF Before
    <3> HIDE DEF reached
    <3>4. \A f \in Pending' :
            \/ Ahead(f)'
            \/ time'[f] >= start' /\ (at' = NoCursor \/ Before(f, at.event)')
            \/ time'[f] >= Later(mark, newest)' - Overlap
      BY <1>1, <1>2, <1>5, <1>7, <1>10, <3>2, <3>3
    <3> QED BY <1>2, <1>10, <3>1, <3>4 DEF PollOK
  <2> QED BY <1>1, <1>8, <1>10, <2>1, <2>2, <2>3, <2>4 DEF BackfillOK
<1> QED BY <1>1, <1>3, <1>9, <1>10

\* A request fails, or the cursor of a poll is refused: the pass ends.
LEMMA PassEndsCovered ==
  ASSUME FirstPageParses, DInv, RequestFails \/ PollReset
  PROVE  DInv'
<1>1. /\ UNCHANGED <<time, late, mark, done, cursor, signing, rcursor, local, rpc, rpage>>
      /\ dpc' = "idle" /\ start' = Never /\ at' = NoCursor
      /\ newest' = Never /\ page' = NoPage
      /\ UNCHANGED troubles \/ (troubles < MaxTroubles /\ troubles' = troubles + 1)
  BY DEF RequestFails, PollReset, EndPass, Trouble, upstream, durable, reconcile
<1>2. /\ troubles' \in 0..MaxTroubles /\ troubles' >= troubles /\ local \subseteq EventIds
      /\ rpc \in {"ask", "save"} /\ rpage \in Page
  BY <1>1, NumbersAre DEF DInv, DiscoveryTypeOK
<1> QED BY <1>1, <1>2, EndsCovered

\* The process is killed elsewhere.
LEMMA CrashCovered ==
  ASSUME FirstPageParses, DInv, Crash \/ CrashInPoll \/ CrashInReconcile
  PROVE  DInv'
<1>1. /\ UNCHANGED <<time, late, mark, done, cursor, signing, rcursor>>
      /\ dpc' = "idle" /\ start' = Never /\ at' = NoCursor
      /\ newest' = Never /\ page' = NoPage
      /\ rpc' = "ask" /\ rpage' = NoPage
      /\ troubles < MaxTroubles /\ troubles' = troubles + 1
      /\ local' \in {local, local \cup Parsed(page), local \cup Parsed(rpage)}
  BY DEF Crash, CrashInPoll, CrashInReconcile, Nowhere, Trouble, upstream, durable
<1>2. /\ troubles' \in 0..MaxTroubles /\ troubles' >= troubles /\ NoPage \in Page
  BY <1>1, NumbersAre DEF DInv, DiscoveryTypeOK, NoPage, Page, Cursor
<1>3. local \subseteq EventIds /\ Parsed(page) \subseteq EventIds
      /\ Parsed(rpage) \subseteq EventIds
  BY DEF DInv, DiscoveryTypeOK, Parsed, Page
<1> QED BY <1>1, <1>2, <1>3, EndsCovered

\* The reconciliation, and a new signing key, leave the discovery task alone.
LEMMA OthersCovered ==
  ASSUME FirstPageParses, DInv, ChangeKey \/ Reconciling
  PROVE  DInv'
<1>1. /\ UNCHANGED <<time, late, mark, done, cursor>> /\ UNCHANGED discovery
      /\ local \subseteq local'
  BY DEF ChangeKey, Reconciling, ReconcilePage, ReconcilePauses, ReconcileReset,
         SaveReconciled, upstream, durable
<1>2. UNCHANGED <<dpc, start, at, newest, page>>
  BY <1>1 DEF discovery
<1>3. /\ NoPage \in Page /\ NoCursor \in Cursor
      /\ Query(rcursor, Never) \in Page
  BY TypesAre, PageParses DEF NoPage, Page, Cursor
<1> USE DEF DInv
<1>4. CASE ChangeKey
  <2>1. /\ signing' = signing + 1 /\ troubles' = troubles + 1 /\ troubles < MaxTroubles
        /\ UNCHANGED <<local, rcursor, rpc, rpage>>
    BY <1>4 DEF ChangeKey, Trouble, durable, reconcile
  <2>2. signing' \in 0..MaxTroubles /\ troubles' \in 0..MaxTroubles /\ signing' <= troubles'
    BY <2>1, NumbersAre DEF DiscoveryTypeOK
  <2>3. DiscoveryTypeOK'
    BY <1>1, <1>2, <2>1, <2>2 DEF DiscoveryTypeOK
  <2> QED BY <1>1, <2>2, <2>3, StaysAtRest
<1>5. CASE Reconciling
  <2>1. /\ UNCHANGED signing
        /\ UNCHANGED troubles \/ (troubles < MaxTroubles /\ troubles' = troubles + 1)
    BY <1>5 DEF Reconciling, ReconcilePage, ReconcilePauses, ReconcileReset,
                SaveReconciled, upstream, Trouble
  <2>2. troubles' \in 0..MaxTroubles /\ signing' <= troubles'
    BY <2>1, NumbersAre DEF DiscoveryTypeOK
  <2>3. local' \in SUBSET EventIds /\ rcursor' \in Cursor
        /\ rpc' \in {"ask", "save"} /\ rpage' \in Page
    <3>1. CASE ReconcilePage
      BY <1>3, <3>1 DEF ReconcilePage, durable, DiscoveryTypeOK
    <3>2. CASE ReconcilePauses
      BY <3>2 DEF ReconcilePauses, durable, reconcile, DiscoveryTypeOK
    <3>3. CASE ReconcileReset
      BY <1>3, <3>3 DEF ReconcileReset, reconcile, DiscoveryTypeOK
    <3>4. CASE SaveReconciled
      <4>1. rpage.next \in Cursor /\ rpage.events \in SUBSET EventIds
        BY DEF DiscoveryTypeOK, Page
      <4> QED BY <1>3, <3>4, <4>1 DEF SaveReconciled, DiscoveryTypeOK, Parsed
    <3> QED BY <1>5, <3>1, <3>2, <3>3, <3>4 DEF Reconciling
  <2>4. DiscoveryTypeOK'
    BY <1>1, <1>2, <2>1, <2>2, <2>3 DEF DiscoveryTypeOK
  <2> QED BY <1>1, <2>2, <2>4, StaysAtRest
<1> QED BY <1>4, <1>5

-----------------------------------------------------------------------------
(* Discovery: what it promises                                             *)

\* The invariant is inductive.
LEMMA DInductive ==
  ASSUME FirstPageParses, DInv, [DiscoveryNext]_discoveryVars
  PROVE  DInv'
<1>1. CASE UNCHANGED discoveryVars
  <2>1. /\ UNCHANGED <<time, late, mark, done, cursor>> /\ UNCHANGED discovery
        /\ UNCHANGED <<local, signing, rcursor, rpc, rpage, troubles>>
    BY <1>1 DEF discoveryVars, upstream, durable, reconcile
  <2>2. DiscoveryTypeOK' /\ signing' <= troubles'
    BY <2>1 DEF DInv, DiscoveryTypeOK, discovery
  <2> QED BY <2>1, <2>2, StaysAtRest
<1>2. CASE DiscoveryNext
  BY <1>2, CommitCovered, RunOnceCovered, BackfillPageCovered, BackfillResetCovered,
     SavePageCovered, PollPageCovered, SavePollCovered, PassEndsCovered, CrashCovered,
     CrashInBackfillCovered, OthersCovered
  DEF DiscoveryNext, Discover
<1> QED BY <1>1, <1>2

\* What the invariant says of the events that are owed.
LEMMA DInvCovers ==
  ASSUME FirstPageParses, DInv
  PROVE  NothingIsSkipped
<1> SUFFICES ASSUME NEW f \in Pending
             PROVE  Ahead(f) \/ time[f] >= WindowStart(mark, local)
  BY DEF NothingIsSkipped, Pending
<1>1. CASE mark = Never
  <2>1. ~done /\ cursor = NoCursor
    BY <1>1 DEF DInv, MarkOK
  <2> QED BY <2>1 DEF Ahead
<1>2. CASE mark # Never
  BY <1>2, TypesAre DEF DInv, Covered, WindowStart
<1> QED BY <1>1, <1>2

\* Discovery loses no event, whatever fails and whenever the process is
\* killed, for any number of events and any size of a page: what is not
\* mirrored yet lies in the window of the next poll, or the backfill still
\* has to come to it, or it was committed too late.
THEOREM NoEventIsSkipped == FirstPageParses => (DiscoverySpec => []NothingIsSkipped)
<1> SUFFICES ASSUME FirstPageParses PROVE DiscoverySpec => []NothingIsSkipped
  OBVIOUS
<1>1. DiscoveryInit => DInv
  BY DInitially
<1>2. DInv /\ [DiscoveryNext]_discoveryVars => DInv'
  BY DInductive
<1>3. DInv => NothingIsSkipped
  BY DInvCovers
<1> QED BY <1>1, <1>2, <1>3, PTL DEF DiscoverySpec
=============================================================================
