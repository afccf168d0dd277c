-------------------------- MODULE WorkerPoolProof ---------------------------
(* Proof about WorkerPool, for every number of workers and spawning threads, *)
(* every queue length and every tree of jobs that spawn jobs: a spawned job  *)
(* is called once. The invariant says of each job where it is, at most in    *)
(* one place, and that a job that another one spawns has not been spawned    *)
(* before that one was called.                                               *)
EXTENDS WorkerPool, FiniteSetTheorems, SequenceTheorems, TLAPS

Threads == Workers \cup Spawners

Typed ==
  /\ jobs \in Seq(Jobs)
  /\ spawning \in [Threads -> Jobs \cup {NoJob}]
  /\ running \in [Workers -> Jobs \cup {NoJob}]
  /\ pc \in [Workers -> {"get", "entry", "spawn", "free"}]
  /\ runs \in [Jobs -> {0, 1}]
  /\ spawned \subseteq Jobs

\* The places a job can be in.
Spawning(j) == \E t \in Threads : spawning[t] = j
Queued(j) == \E i \in 1 .. Len(jobs) : jobs[i] = j
Called(w) == pc[w] = "entry"
Held(j) == \E w \in Workers : Called(w) /\ running[w] = j

\* A job is in no place twice.
NotTwice ==
  /\ \A t, u \in Threads : spawning[t] = spawning[u] /\ spawning[t] # NoJob => t = u
  /\ \A i, k \in 1 .. Len(jobs) : jobs[i] = jobs[k] => i = k
  /\ \A w, x \in Workers : Called(w) /\ Called(x) /\ running[w] = running[x] => w = x

\* A job is in one place from its spawn to its call, and in none before and after.
OnePlace ==
  \A j \in Jobs :
    /\ j \notin spawned => ~Spawning(j) /\ ~Queued(j) /\ ~Held(j) /\ runs[j] = 0
    /\ j \in spawned =>
         \/ Spawning(j) /\ ~Queued(j) /\ ~Held(j) /\ runs[j] = 0
         \/ ~Spawning(j) /\ Queued(j) /\ ~Held(j) /\ runs[j] = 0
         \/ ~Spawning(j) /\ ~Queued(j) /\ Held(j) /\ runs[j] = 0
         \/ ~Spawning(j) /\ ~Queued(j) /\ ~Held(j) /\ runs[j] = 1

IInv ==
  /\ Typed
  /\ NotTwice
  /\ OnePlace
  /\ \A w \in Workers : Called(w) => running[w] \in Jobs
  /\ \A w \in Workers : spawning[w] # NoJob <=> pc[w] = "spawn"
  /\ \A j \in Jobs : Children[j] \in spawned => runs[j] = 1

-----------------------------------------------------------------------------
\* In the beginning no job is anywhere.
LEMMA InitHolds == Init => IInv
<1> SUFFICES ASSUME Init PROVE IInv
  OBVIOUS
<1>1. Typed
  BY PoolAssumption DEF Init, Typed, Threads
<1>2. \A j \in Jobs : ~Spawning(j) /\ ~Queued(j) /\ ~Held(j)
  BY PoolAssumption DEF Init, Spawning, Queued, Held, Called, Threads
<1>3. NotTwice
  BY PoolAssumption DEF Init, NotTwice, Called, Threads
<1> QED
  BY <1>1, <1>2, <1>3, PoolAssumption DEF Init, OnePlace, IInv, Called, Threads

\* A job that a thread outside of the pool spawns was nowhere before.
LEMMA SpawnCallKeeps ==
  ASSUME IInv, NEW s \in Spawners, NEW j \in Jobs, SpawnCall(s, j) PROVE IInv'
<1> USE DEF Threads
<1>1. Typed'
  BY DEF IInv, Typed, SpawnCall
<1>2. /\ spawning' = [spawning EXCEPT ![s] = j]
      /\ spawning[s] = NoJob /\ j \notin spawned /\ spawned' = spawned \cup {j}
      /\ jobs' = jobs /\ running' = running /\ pc' = pc /\ runs' = runs
      /\ spawning \in [Threads -> Jobs \cup {NoJob}]
  BY DEF IInv, Typed, SpawnCall
<1>3. /\ \A k \in Jobs : Queued(k)' = Queued(k) /\ Held(k)' = Held(k)
      /\ \A w \in Workers : Called(w)' = Called(w)
  BY <1>2 DEF Queued, Held, Called
<1>4. \A k \in Jobs : Spawning(k)' <=> Spawning(k) \/ k = j
  BY <1>2, PoolAssumption DEF Spawning
<1>5. ~Spawning(j) /\ ~Queued(j) /\ ~Held(j) /\ runs[j] = 0
  BY <1>2 DEF IInv, OnePlace
<1>6. NotTwice'
  <2>1. \A t, u \in Threads :
          spawning'[t] = spawning'[u] /\ spawning'[t] # NoJob => t = u
    BY <1>2, <1>5 DEF IInv, NotTwice, Spawning
  <2> QED
    BY <1>2, <2>1 DEF IInv, NotTwice, Called
<1>7. OnePlace'
  BY <1>2, <1>3, <1>4, <1>5 DEF IInv, OnePlace
<1>8. \A w \in Workers : w # s
  BY PoolAssumption
<1>9. \A k \in Jobs : Children[k] # j
  BY DEF SpawnCall, IsChild
<1> QED
  BY <1>1, <1>2, <1>6, <1>7, <1>8, <1>9 DEF IInv, Called

\* The put moves the job from its thread to the end of the queue.
LEMMA PutKeeps ==
  ASSUME IInv, NEW t \in Threads, ml_worker_pool_spawn(t) PROVE IInv'
<1> USE DEF Threads
<1> DEFINE j == spawning[t]
<1>1. /\ spawning' = [spawning EXCEPT ![t] = NoJob] /\ spawned' = spawned
      /\ jobs' = Append(jobs, j) /\ running' = running /\ runs' = runs
      /\ pc' = IF t \in Workers THEN [pc EXCEPT ![t] = "free"] ELSE pc
      /\ spawning \in [Threads -> Jobs \cup {NoJob}] /\ jobs \in Seq(Jobs)
      /\ pc \in [Workers -> {"get", "entry", "spawn", "free"}]
      /\ j \in Jobs
  BY DEF IInv, Typed, ml_worker_pool_spawn
<1>2. Typed'
  BY <1>1 DEF IInv, Typed
<1>3. t \in Workers => pc[t] = "spawn"
  BY <1>1, PoolAssumption DEF IInv
<1>4. \A w \in Workers : Called(w)' = Called(w)
  BY <1>1, <1>3 DEF Called
<1>5. Spawning(j) /\ ~Queued(j) /\ ~Held(j) /\ runs[j] = 0 /\ j \in spawned
  BY <1>1 DEF IInv, OnePlace, Spawning
<1>6. /\ Len(jobs') = Len(jobs) + 1 /\ Len(jobs) \in Nat
      /\ \A i \in 1 .. Len(jobs) : jobs'[i] = jobs[i]
      /\ jobs'[Len(jobs) + 1] = j
  BY <1>1
<1>7. \A k \in Jobs : /\ Queued(k)' <=> Queued(k) \/ k = j
                      /\ Held(k)' = Held(k)
                      /\ Spawning(k)' <=> Spawning(k) /\ k # j
  <2> SUFFICES ASSUME NEW k \in Jobs
               PROVE  /\ Queued(k)' <=> Queued(k) \/ k = j
                      /\ Held(k)' = Held(k)
                      /\ Spawning(k)' <=> Spawning(k) /\ k # j
    OBVIOUS
  <2>1. Queued(k)' <=> Queued(k) \/ k = j
    BY <1>6 DEF Queued
  <2>2. Held(k)' = Held(k)
    BY <1>1, <1>4 DEF Held
  <2>3. \A u \in Threads : spawning[u] = j => u = t
    BY <1>1, PoolAssumption DEF IInv, NotTwice
  <2>4. Spawning(k)' <=> Spawning(k) /\ k # j
    BY <1>1, <2>3, PoolAssumption DEF Spawning
  <2> QED
    BY <2>1, <2>2, <2>4
<1>8. NotTwice'
  <2>1. \A i, k \in 1 .. Len(jobs') : jobs'[i] = jobs'[k] => i = k
    BY <1>5, <1>6 DEF IInv, NotTwice, Queued
  <2>2. \A u, v \in Threads :
          spawning'[u] = spawning'[v] /\ spawning'[u] # NoJob => u = v
    BY <1>1 DEF IInv, NotTwice
  <2> QED
    BY <1>1, <1>4, <2>1, <2>2 DEF IInv, NotTwice
<1>9. OnePlace'
  BY <1>1, <1>5, <1>7 DEF IInv, OnePlace
<1>10. /\ \A w \in Workers : (Called(w) => running[w] \in Jobs)'
       /\ \A w \in Workers : (spawning[w] # NoJob <=> pc[w] = "spawn")'
  BY <1>1, <1>4 DEF IInv
<1> QED
  BY <1>1, <1>2, <1>8, <1>9, <1>10 DEF IInv

\* The get moves the first job of the queue to the worker.
LEMMA GetKeeps == ASSUME IInv, NEW w \in Workers, WorkerGet(w) PROVE IInv'
<1> USE DEF Threads
<1> DEFINE j == Head(jobs)
<1>1. /\ spawning' = spawning /\ spawned' = spawned /\ runs' = runs
      /\ running' = [running EXCEPT ![w] = j] /\ jobs' = Tail(jobs)
      /\ pc' = [pc EXCEPT ![w] = "entry"] /\ pc[w] = "get"
      /\ running \in [Workers -> Jobs \cup {NoJob}] /\ jobs \in Seq(Jobs)
      /\ pc \in [Workers -> {"get", "entry", "spawn", "free"}]
      /\ jobs # <<>>
  BY DEF IInv, Typed, WorkerGet
<1>2. /\ Len(jobs) \in Nat \ {0} /\ j = jobs[1] /\ j \in Jobs
      /\ Len(jobs') = Len(jobs) - 1
      /\ \A i \in 1 .. Len(jobs') : jobs'[i] = jobs[i + 1]
  BY <1>1
<1> HIDE DEF j
<1>3. Typed'
  BY <1>1, <1>2 DEF IInv, Typed
<1>4. ~Called(w) /\ \A x \in Workers : Called(x)' <=> Called(x) \/ x = w
  BY <1>1 DEF Called
<1>5. ~Spawning(j) /\ Queued(j) /\ ~Held(j) /\ runs[j] = 0 /\ j \in spawned
  <2>1. Queued(j)
    BY <1>2 DEF Queued
  <2> QED
    BY <1>2, <2>1 DEF IInv, OnePlace
<1>6. \A k \in Jobs : /\ Queued(k)' <=> Queued(k) /\ k # j
                      /\ Held(k)' <=> Held(k) \/ k = j
                      /\ Spawning(k)' = Spawning(k)
  <2> SUFFICES ASSUME NEW k \in Jobs
               PROVE  /\ Queued(k)' <=> Queued(k) /\ k # j
                      /\ Held(k)' <=> Held(k) \/ k = j
                      /\ Spawning(k)' = Spawning(k)
    OBVIOUS
  <2>1. \A i \in 1 .. Len(jobs) : jobs[i] = j <=> i = 1
    BY <1>2 DEF IInv, NotTwice
  <2>2. ASSUME Queued(k)' PROVE Queued(k) /\ k # j
    <3>1. PICK i \in 1 .. Len(jobs') : jobs'[i] = k
      BY <2>2 DEF Queued
    <3>2. i + 1 \in 1 .. Len(jobs) /\ jobs[i + 1] = k /\ i + 1 # 1
      BY <1>2, <3>1
    <3> QED
      BY <2>1, <3>2 DEF Queued
  <2>3. ASSUME Queued(k), k # j PROVE Queued(k)'
    <3>1. PICK i \in 1 .. Len(jobs) : jobs[i] = k
      BY <2>3 DEF Queued
    <3>2. i # 1
      BY <1>2, <2>3, <3>1
    <3>3. i - 1 \in 1 .. Len(jobs') /\ jobs'[i - 1] = jobs[(i - 1) + 1]
      BY <1>2, <3>2
    <3> QED
      BY <3>1, <3>3 DEF Queued
  <2>4. Held(k)' <=> Held(k) \/ k = j
    BY <1>1, <1>4 DEF Held
  <2>5. Spawning(k)' = Spawning(k)
    BY <1>1 DEF Spawning
  <2> QED
    BY <2>2, <2>3, <2>4, <2>5
<1>7. NotTwice'
  <2>1. \A i, k \in 1 .. Len(jobs') : jobs'[i] = jobs'[k] => i = k
    BY <1>2 DEF IInv, NotTwice
  <2>2. \A x, y \in Workers :
          Called(x)' /\ Called(y)' /\ running'[x] = running'[y] => x = y
    BY <1>1, <1>4, <1>5 DEF IInv, NotTwice, Held
  <2> QED
    BY <1>1, <2>1, <2>2 DEF IInv, NotTwice
<1>8. OnePlace'
  BY <1>1, <1>2, <1>5, <1>6 DEF IInv, OnePlace
<1>9. /\ \A x \in Workers : (Called(x) => running[x] \in Jobs)'
      /\ \A x \in Workers : (spawning[x] # NoJob <=> pc[x] = "spawn")'
  BY <1>1, <1>2, <1>4 DEF IInv
<1> QED
  BY <1>1, <1>3, <1>7, <1>8, <1>9 DEF IInv

\* The entry of a job is called for the first time, so the job that it spawns
\* has not been spawned.
LEMMA EntryKeeps == ASSUME IInv, NEW w \in Workers, WorkerEntry(w) PROVE IInv'
<1> USE DEF Threads
<1> DEFINE j == running[w]
           c == Children[j]
<1>1. /\ pc[w] = "entry" /\ j \in Jobs /\ c \in Jobs \cup {NoJob}
      /\ runs' = [runs EXCEPT ![j] = @ + 1] /\ spawning' = [spawning EXCEPT ![w] = c]
      /\ spawned' = IF c = NoJob THEN spawned ELSE spawned \cup {c}
      /\ pc' = [pc EXCEPT ![w] = IF c = NoJob THEN "free" ELSE "spawn"]
      /\ jobs' = jobs /\ running' = running
      /\ spawning \in [Threads -> Jobs \cup {NoJob}] /\ jobs \in Seq(Jobs)
      /\ pc \in [Workers -> {"get", "entry", "spawn", "free"}]
      /\ runs \in [Jobs -> {0, 1}] /\ spawned \subseteq Jobs
      /\ spawning[w] = NoJob
  BY PoolAssumption DEF IInv, Typed, WorkerEntry, Called
<1> HIDE DEF j, c
<1>2. ~Spawning(j) /\ ~Queued(j) /\ Held(j) /\ runs[j] = 0 /\ j \in spawned
  <2>1. Held(j)
    BY <1>1 DEF Held, Called, j
  <2> QED
    BY <1>1, <2>1 DEF IInv, OnePlace
<1>3. Typed'
  BY <1>1, <1>2 DEF IInv, Typed
<1>4. \A x \in Workers : Called(x)' <=> Called(x) /\ x # w
  BY <1>1 DEF Called
<1>5. c # NoJob => c \notin spawned
  BY <1>1, <1>2 DEF IInv, c
<1>6. c # NoJob => ~Spawning(c) /\ ~Queued(c) /\ ~Held(c) /\ runs[c] = 0 /\ c # j
  BY <1>1, <1>2, <1>5 DEF IInv, OnePlace
<1>7. \A k \in Jobs : /\ Queued(k)' = Queued(k)
                      /\ Held(k)' <=> Held(k) /\ k # j
                      /\ Spawning(k)' <=> Spawning(k) \/ k = c
                      /\ runs'[k] = IF k = j THEN 1 ELSE runs[k]
  <2> SUFFICES ASSUME NEW k \in Jobs
               PROVE  /\ Queued(k)' = Queued(k)
                      /\ Held(k)' <=> Held(k) /\ k # j
                      /\ Spawning(k)' <=> Spawning(k) \/ k = c
                      /\ runs'[k] = IF k = j THEN 1 ELSE runs[k]
    OBVIOUS
  <2>1. \A x \in Workers : Called(x) /\ running[x] = j => x = w
    BY <1>1 DEF IInv, NotTwice, Called, j
  <2>2. Held(k)' <=> Held(k) /\ k # j
    BY <1>1, <1>4, <2>1 DEF Held, j
  <2>3. Spawning(k)' <=> Spawning(k) \/ k = c
    BY <1>1, PoolAssumption DEF Spawning
  <2>4. runs'[k] = IF k = j THEN 1 ELSE runs[k]
    BY <1>1, <1>2
  <2> QED
    BY <1>1, <2>2, <2>3, <2>4 DEF Queued
<1>8. NotTwice'
  <2>1. \A u, v \in Threads :
          spawning'[u] = spawning'[v] /\ spawning'[u] # NoJob => u = v
    BY <1>1, <1>6 DEF IInv, NotTwice, Spawning
  <2> QED
    BY <1>1, <1>4, <2>1 DEF IInv, NotTwice
<1>9. \A k \in Jobs : k \in spawned' <=> k \in spawned \/ k = c
  BY <1>1, PoolAssumption
<1>10. OnePlace'
  <2> DEFINE Once(k) ==
        /\ k \notin spawned => ~Spawning(k) /\ ~Queued(k) /\ ~Held(k) /\ runs[k] = 0
        /\ k \in spawned =>
             \/ Spawning(k) /\ ~Queued(k) /\ ~Held(k) /\ runs[k] = 0
             \/ ~Spawning(k) /\ Queued(k) /\ ~Held(k) /\ runs[k] = 0
             \/ ~Spawning(k) /\ ~Queued(k) /\ Held(k) /\ runs[k] = 0
             \/ ~Spawning(k) /\ ~Queued(k) /\ ~Held(k) /\ runs[k] = 1
  <2> SUFFICES ASSUME NEW k \in Jobs PROVE Once(k)'
    BY DEF OnePlace
  <2>1. Once(k)
    BY DEF IInv, OnePlace
  <2>2. CASE k = j
    BY <1>1, <1>2, <1>6, <1>7, <1>9, <2>2, PoolAssumption
  <2>3. CASE k = c
    BY <1>6, <1>7, <1>9, <2>3, PoolAssumption
  <2>4. CASE k # j /\ k # c
    BY <1>7, <1>9, <2>1, <2>4
  <2> QED
    BY <2>2, <2>3, <2>4
<1>11. /\ \A x \in Workers : (Called(x) => running[x] \in Jobs)'
       /\ \A x \in Workers : (spawning[x] # NoJob <=> pc[x] = "spawn")'
  BY <1>1, <1>4 DEF IInv
<1>12. \A k \in Jobs : Children[k] \in spawned' => runs'[k] = 1
  <2> SUFFICES ASSUME NEW k \in Jobs, Children[k] \in spawned' PROVE runs'[k] = 1
    OBVIOUS
  <2>1. CASE Children[k] \in spawned
    BY <1>7, <2>1 DEF IInv
  <2>2. CASE Children[k] \notin spawned
    <3>1. Children[k] = c /\ c # NoJob
      BY <1>1, <2>2
    <3>2. k = j
      BY <1>1, <3>1, PoolAssumption DEF c
    <3> QED
      BY <1>7, <3>2
  <2> QED
    BY <2>1, <2>2
<1> QED
  BY <1>3, <1>8, <1>10, <1>11, <1>12 DEF IInv

\* A worker that is done has no job left to move.
LEMMA FreeKeeps == ASSUME IInv, NEW w \in Workers, WorkerFree(w) PROVE IInv'
<1> USE DEF Threads
<1>1. /\ pc[w] = "free" /\ pc' = [pc EXCEPT ![w] = "get"]
      /\ running' = [running EXCEPT ![w] = NoJob]
      /\ jobs' = jobs /\ spawning' = spawning /\ runs' = runs /\ spawned' = spawned
      /\ running \in [Workers -> Jobs \cup {NoJob}]
      /\ pc \in [Workers -> {"get", "entry", "spawn", "free"}]
  BY DEF IInv, Typed, WorkerFree
<1>2. Typed'
  BY <1>1 DEF IInv, Typed
<1>3. ~Called(w) /\ \A x \in Workers : Called(x)' = Called(x)
  BY <1>1 DEF Called
<1>4. \A k \in Jobs : /\ Queued(k)' = Queued(k)
                      /\ Held(k)' <=> Held(k)
                      /\ Spawning(k)' = Spawning(k)
  BY <1>1, <1>3 DEF Queued, Held, Spawning
<1>5. NotTwice'
  BY <1>1, <1>3 DEF IInv, NotTwice
<1>6. OnePlace'
  BY <1>1, <1>4 DEF IInv, OnePlace
<1>7. /\ \A x \in Workers : (Called(x) => running[x] \in Jobs)'
      /\ \A x \in Workers : (spawning[x] # NoJob <=> pc[x] = "spawn")'
  BY <1>1, <1>3 DEF IInv
<1> QED
  BY <1>1, <1>2, <1>5, <1>6, <1>7 DEF IInv

\* Every step keeps the invariant.
LEMMA StepHolds == IInv /\ [Next]_vars => IInv'
<1> SUFFICES ASSUME IInv, [Next]_vars PROVE IInv'
  OBVIOUS
<1>1. ASSUME NEW s \in Spawners, NEW j \in Jobs, SpawnCall(s, j) PROVE IInv'
  BY <1>1, SpawnCallKeeps
<1>2. ASSUME NEW t \in Threads, ml_worker_pool_spawn(t) PROVE IInv'
  BY <1>2, PutKeeps
<1>3. ASSUME NEW w \in Workers, WorkerGet(w) PROVE IInv'
  BY <1>3, GetKeeps
<1>4. ASSUME NEW w \in Workers, WorkerEntry(w) PROVE IInv'
  BY <1>4, EntryKeeps
<1>5. ASSUME NEW w \in Workers, WorkerFree(w) PROVE IInv'
  BY <1>5, FreeKeeps
<1>6. CASE UNCHANGED vars
  BY <1>6 DEF vars, IInv, Typed, NotTwice, OnePlace, Spawning, Queued, Held, Called
<1> QED
  BY <1>1, <1>2, <1>3, <1>4, <1>5, <1>6 DEF Next, Threads

-----------------------------------------------------------------------------
\* A set with at most one element has none or one.
LEMMA AtMostOne ==
  ASSUME NEW S, \A x, y \in S : x = y
  PROVE  Cardinality(S) = IF S = {} THEN 0 ELSE 1
<1>1. CASE S = {}
  BY <1>1, FS_EmptySet
<1>2. CASE S # {}
  <2>1. PICK x \in S : TRUE
    BY <1>2
  <2>2. S = {x}
    BY <2>1
  <2> QED
    BY <2>2, <1>2, FS_Singleton
<1> QED
  BY <1>1, <1>2

\* The invariant says of each place whether it counts for none or for one.
LEMMA JobRunsOnceHolds == IInv => JobRunsOnce
<1> SUFFICES ASSUME IInv, NEW j \in Jobs
             PROVE  runs[j] + Count(j, spawning) + Count(j, jobs)
                      + Cardinality({w \in Workers : running[w] = j /\ pc[w] = "entry"})
                      = (IF j \in spawned THEN 1 ELSE 0)
  BY DEF JobRunsOnce
<1>1. j # NoJob /\ DOMAIN spawning = Threads /\ DOMAIN jobs = 1 .. Len(jobs)
  BY PoolAssumption DEF IInv, Typed
<1>2. Count(j, spawning) = IF Spawning(j) THEN 1 ELSE 0
  <2> DEFINE S == {t \in DOMAIN spawning : spawning[t] = j}
  <2>1. \A x, y \in S : x = y
    BY <1>1 DEF IInv, NotTwice
  <2>2. S = {} <=> ~Spawning(j)
    BY <1>1 DEF Spawning
  <2>3. Cardinality(S) = IF S = {} THEN 0 ELSE 1
    <3> HIDE DEF S
    <3> QED BY <2>1, AtMostOne
  <2> QED
    BY <2>2, <2>3 DEF Count
<1>3. Count(j, jobs) = IF Queued(j) THEN 1 ELSE 0
  <2> DEFINE S == {i \in DOMAIN jobs : jobs[i] = j}
  <2>1. \A x, y \in S : x = y
    BY <1>1 DEF IInv, NotTwice
  <2>2. S = {} <=> ~Queued(j)
    BY <1>1 DEF Queued
  <2>3. Cardinality(S) = IF S = {} THEN 0 ELSE 1
    <3> HIDE DEF S
    <3> QED BY <2>1, AtMostOne
  <2> QED
    BY <2>2, <2>3 DEF Count
<1>4. Cardinality({w \in Workers : running[w] = j /\ pc[w] = "entry"})
        = IF Held(j) THEN 1 ELSE 0
  <2> DEFINE S == {w \in Workers : running[w] = j /\ pc[w] = "entry"}
  <2>1. \A x, y \in S : x = y
    BY DEF IInv, NotTwice, Called
  <2>2. S = {} <=> ~Held(j)
    BY DEF Held, Called
  <2>3. Cardinality(S) = IF S = {} THEN 0 ELSE 1
    <3> HIDE DEF S
    <3> QED BY <2>1, AtMostOne
  <2> QED
    BY <2>2, <2>3
<1> QED
  BY <1>2, <1>3, <1>4 DEF IInv, OnePlace

\* JobRunsOnce, for every number of threads, every queue length and all jobs: a
\* job given to ml_worker_pool_spawn() is in one place until worker_pool_main()
\* has called its entry, and is called once.
THEOREM JobsRunOnce == Spec => []JobRunsOnce
<1> QED
  BY InitHolds, StepHolds, JobRunsOnceHolds, PTL DEF Spec

=============================================================================
