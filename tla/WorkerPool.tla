------------------------------ MODULE WorkerPool ----------------------------
(* The worker pool of ml_worker_pool.c: a fixed number of threads that get   *)
(* jobs from one queue. A job may spawn further jobs, from the worker thread *)
(* it runs in; like every spawn that blocks while the queue is full.         *)
EXTENDS Integers, Sequences, FiniteSets

CONSTANTS Workers,
          Spawners,   \* threads outside the pool that spawn jobs
          Jobs,       \* jobs: calls of ml_worker_pool_spawn(), one message each
          NoJob,
          Children,   \* Children[j]: the job that the entry of j spawns, or NoJob
          Capacity    \* job_queue_length

ASSUME PoolAssumption ==
  /\ Capacity \in Nat \ {0}
  /\ Children \in [Jobs -> Jobs \cup {NoJob}]
  /\ NoJob \notin Jobs
  /\ \A j, k \in Jobs : Children[j] = Children[k] /\ Children[j] # NoJob => j = k
  /\ Workers \cap Spawners = {}

VARIABLES jobs,      \* the queue
          spawning,  \* the job each thread is putting on the queue
          running,   \* the job each worker has got
          pc,        \* of each worker: "get", "entry", "spawn" or "free"
          runs,      \* history: how many times the entry of each job was called
          spawned    \* history: jobs given to ml_worker_pool_spawn()

vars == <<jobs, spawning, running, pc, runs, spawned>>

Init ==
  /\ jobs = <<>>
  /\ spawning = [t \in Workers \cup Spawners |-> NoJob]
  /\ running = [w \in Workers |-> NoJob]
  /\ pc = [w \in Workers |-> "get"]
  /\ runs = [j \in Jobs |-> 0]
  /\ spawned = {}

IsChild(j) == \E k \in Jobs : Children[k] = j

\* Call of ml_worker_pool_spawn() from a thread outside the pool.
SpawnCall(s, j) ==
  /\ spawning[s] = NoJob
  /\ j \notin spawned
  /\ ~IsChild(j)
  /\ spawning' = [spawning EXCEPT ![s] = j]
  /\ spawned' = spawned \cup {j}
  /\ UNCHANGED <<jobs, running, pc, runs>>

\* The put of ml_worker_pool_spawn(), in any thread.
ml_worker_pool_spawn(t) ==
  /\ spawning[t] # NoJob
  /\ Len(jobs) < Capacity
  /\ jobs' = Append(jobs, spawning[t])
  /\ spawning' = [spawning EXCEPT ![t] = NoJob]
  /\ pc' = IF t \in Workers THEN [pc EXCEPT ![t] = "free"] ELSE pc
  /\ UNCHANGED <<running, runs, spawned>>

\* Mutant: the job is looked at, and removed when it is done.
WorkerGet_peek(w) ==
  /\ pc[w] = "get"
  /\ jobs # <<>>
  /\ running' = [running EXCEPT ![w] = Head(jobs)]
  /\ jobs' = IF Len(jobs) > 1 THEN Tail(jobs) ELSE jobs
  /\ pc' = [pc EXCEPT ![w] = "entry"]
  /\ UNCHANGED <<spawning, runs, spawned>>

\* worker_pool_main(), one statement of its loop after the other.
WorkerGet(w) ==
  /\ pc[w] = "get"
  /\ jobs # <<>>
  /\ running' = [running EXCEPT ![w] = Head(jobs)]
  /\ jobs' = Tail(jobs)
  /\ pc' = [pc EXCEPT ![w] = "entry"]
  /\ UNCHANGED <<spawning, runs, spawned>>

WorkerEntry(w) ==
  /\ pc[w] = "entry"
  /\ LET child == Children[running[w]]
     IN  /\ runs' = [runs EXCEPT ![running[w]] = @ + 1]
         /\ spawning' = [spawning EXCEPT ![w] = child]
         /\ spawned' = IF child = NoJob THEN spawned ELSE spawned \cup {child}
         /\ pc' = [pc EXCEPT ![w] = IF child = NoJob THEN "free" ELSE "spawn"]
  /\ UNCHANGED <<jobs, running>>

\* Mutant: the worker ends after its job.
WorkerFree_exit(w) ==
  /\ pc[w] = "free"
  /\ running' = [running EXCEPT ![w] = NoJob]
  /\ pc' = [pc EXCEPT ![w] = "exit"]
  /\ UNCHANGED <<jobs, spawning, runs, spawned>>

WorkerFree(w) ==
  /\ pc[w] = "free"
  /\ running' = [running EXCEPT ![w] = NoJob]
  /\ pc' = [pc EXCEPT ![w] = "get"]
  /\ UNCHANGED <<jobs, spawning, runs, spawned>>

Next ==
  \/ \E s \in Spawners, j \in Jobs : SpawnCall(s, j)
  \/ \E t \in Workers \cup Spawners : ml_worker_pool_spawn(t)
  \/ \E w \in Workers : WorkerGet(w) \/ WorkerEntry(w) \/ WorkerFree(w)

Spec == Init /\ [][Next]_vars

\* Every thread that can run does.
Fairness ==
  /\ \A t \in Workers \cup Spawners : WF_vars(ml_worker_pool_spawn(t))
  /\ \A w \in Workers : WF_vars(WorkerGet(w)) /\ WF_vars(WorkerEntry(w) \/ WorkerFree(w))

FairSpec == Spec /\ Fairness

-----------------------------------------------------------------------------
Count(j, S) == Cardinality({t \in DOMAIN S : S[t] = j})

\* A spawned job is in exactly one place until its entry was called, and is
\* called once: no two workers get the same job, and none is lost between the
\* spawning thread, the queue and the workers.
JobRunsOnce ==
  \A j \in Jobs :
    runs[j] + Count(j, spawning) + Count(j, jobs)
      + Cardinality({w \in Workers : running[w] = j /\ pc[w] = "entry"})
      = (IF j \in spawned THEN 1 ELSE 0)

\* The queue is full and every worker is in a job that spawns another one: no
\* worker is left to get a job, and the pool never does anything again.
Standstill == Len(jobs) = Capacity /\ \A w \in Workers : pc[w] = "spawn"

\* Every spawned job is called in the end, also the jobs that jobs spawn, unless
\* the pool comes to a standstill: nothing else keeps a job from being called.
SpawnedIsRun == \A j \in Jobs : j \in spawned ~> runs[j] = 1 \/ Standstill

=============================================================================
