------------------------------ MODULE WorkerLeases ------------------------------
(***************************************************************************)
(* HeartbeatWorker: several worker processes take chat jobs from one ARQ   *)
(* queue.  A worker that takes a job writes its name into the job's        *)
(* in-progress lock; it renews a lease as long as it polls.  A lock whose  *)
(* owner has no lease is released by any other worker, which then takes    *)
(* the job; ARQ refuses a second try, and the chat is failed instead.      *)
(*                                                                         *)
(* Each action is one round trip to Redis (a pipeline, a transaction or a  *)
(* script) with the Python around it.  The in-progress lock's own expiry   *)
(* (six hours) and the retired workers' ownerless locks are left out.      *)
(***************************************************************************)
EXTENDS Naturals, FiniteSets

CONSTANTS
    Worker,
    Job,        \* chat.start and resume_iteration jobs, all of them due
    MaxJobs,    \* max_jobs
    MaxTries,   \* max_tries
    Crashes,    \* bound: how many workers may die
    Lapses,     \* bound: how many leases may lapse under a live worker
    None

ASSUME BoundsAssumption == {MaxJobs, Crashes, Lapses} \subseteq Nat
ASSUME TriesAssumption == MaxTries \in Nat \ {0}
ASSUME JobAssumption == IsFiniteSet(Job)
ASSUME NoneAssumption == None \notin Worker \cup Job

VARIABLES
    queue,      \* Redis: the queue
    tries,      \*        the retry counter of each job
    lock,       \*        the owner in the in-progress lock of each job
    lease,      \*        the workers whose lease key exists
    chat,       \* what the job had to do for its turn: open, ended (its
                \* function returned) or failed (by another worker)
    alive,      \* the workers that have not died
    pc,         \* where the poll loop of a worker is
    seen,       \* the locks of others it has read: <<job, owner>>
    wanted,     \* the jobs its poll goes through
    target,     \* the job it watches
    dirty,      \* the workers whose watched lock has been touched
    counter,    \* job_counter of each worker
    run,        \* run[w][j]: how far run_job of j is in w
    crashes, lapses,    \* how many of the bounded faults happened
    claimed, started, weak
                \* history: who ever locked a job, how often its function was
                \* started, which workers have lost a lease

store == <<queue, tries, lock, lease>>
poll == <<pc, seen, wanted, target>>
faults == <<alive, crashes, lapses>>
history == <<claimed, started, weak>>
vars == <<store, chat, poll, dirty, counter, run, faults, history>>

Goes(w, from, to) ==
    /\ w \in alive /\ pc[w] = from
    /\ pc' = [pc EXCEPT ![w] = to]

Watchers(j) == {w \in Worker : target[w] = j}

-----------------------------------------------------------------------------
(* _poll_iteration: renew the lease, release stale locks (not more often   *)
(* than every two seconds), then ARQ's own iteration.                      *)

Renew(w, next) ==
    /\ Goes(w, "renew", next)
    /\ lease' = lease \cup {w}
    /\ UNCHANGED <<queue, tries, lock, chat, seen, wanted, target, dirty,
                   counter, run, faults, history>>

ReadLocks(w) ==
    /\ seen' = [seen EXCEPT ![w] =
            {<<j, lock[j]>> : j \in {k \in queue : lock[k] \notin {None, w}}}]
    /\ Goes(w, "locks", IF seen'[w] = {} THEN "poll" ELSE "leases")
    /\ UNCHANGED <<store, chat, wanted, target, dirty, counter, run, faults, history>>

ReadLeases(w) ==
    /\ Goes(w, "leases", "release")
    /\ seen' = [seen EXCEPT ![w] = {lo \in @ : lo[2] \notin lease}]
    /\ UNCHANGED <<store, chat, wanted, target, dirty, counter, run, faults, history>>

\* Mutant: the lock is deleted for what was read of it before.
ReleaseAsSeen(w) ==
    \E lo \in seen[w] :
        /\ Goes(w, "release", "release")
        /\ seen' = [seen EXCEPT ![w] = @ \ {lo}]
        /\ lock' = [lock EXCEPT ![lo[1]] = None]
        /\ dirty' = dirty \cup Watchers(lo[1])
        /\ UNCHANGED <<queue, tries, lease, chat, wanted, target, counter, run, faults, history>>
(* _RELEASE_STALE_LOCK: only the lock that was read, only if its owner     *)
(* still has no lease.                                                     *)
Release(w) ==
    \E lo \in seen[w] :
        /\ Goes(w, "release", "release")
        /\ seen' = [seen EXCEPT ![w] = @ \ {lo}]
        /\ IF lock[lo[1]] = lo[2] /\ lo[2] \notin lease
           THEN lock' = [lock EXCEPT ![lo[1]] = None] /\ dirty' = dirty \cup Watchers(lo[1])
           ELSE UNCHANGED <<lock, dirty>>
        /\ UNCHANGED <<queue, tries, lease, chat, wanted, target, counter, run, faults, history>>

Released(w) ==
    /\ Goes(w, "release", "poll") /\ seen[w] = {}
    /\ UNCHANGED <<store, chat, seen, wanted, target, dirty, counter, run, faults, history>>

(* The queue is read, and start_jobs drops what this worker runs and what  *)
(* has a lock.  The heart beat at the end of the iteration renews the      *)
(* lease once more before the next one does.                               *)
Poll(w) ==
    LET free == {j \in queue : run[w][j] = "none" /\ lock[j] = None}
    IN  /\ wanted' = [wanted EXCEPT ![w] = IF counter[w] < MaxJobs THEN free ELSE {}]
        /\ Goes(w, "poll", IF wanted'[w] = {} THEN "renew" ELSE "claim")
        /\ UNCHANGED <<store, chat, seen, target, dirty, counter, run, faults, history>>

(* A job is watched and looked at: locked or gone, it is skipped.          *)
Watch(w) ==
    \E j \in wanted[w] :
        /\ counter[w] < MaxJobs
        /\ wanted' = [wanted EXCEPT ![w] = @ \ {j}]
        /\ IF lock[j] = None /\ j \in queue
           THEN /\ Goes(w, "claim", "exec")
                /\ counter' = [counter EXCEPT ![w] = @ + 1]
                /\ target' = [target EXCEPT ![w] = j]
           ELSE Goes(w, "claim", "claim") /\ UNCHANGED <<counter, target>>
        /\ UNCHANGED <<store, chat, seen, dirty, run, faults, history>>

NoMore(w) ==
    /\ Goes(w, "claim", "renew")
    /\ wanted[w] = {} \/ counter[w] >= MaxJobs
    /\ wanted' = [wanted EXCEPT ![w] = {}]
    /\ UNCHANGED <<store, chat, seen, target, dirty, counter, run, faults, history>>

Locks(w, j) ==
    /\ lock' = [lock EXCEPT ![j] = w]
    /\ dirty' = (dirty \cup Watchers(j)) \ {w}
    /\ run' = [run EXCEPT ![w][j] = "begin"]
    /\ claimed' = [claimed EXCEPT ![j] = @ \cup {w}]

\* Mutant: the transaction does not depend on the watch.
ClaimUnwatched(w) ==
    /\ Goes(w, "exec", "claim")
    /\ Locks(w, target[w])
    /\ target' = [target EXCEPT ![w] = None]
    /\ UNCHANGED <<queue, tries, lease, chat, seen, wanted, counter, faults, started, weak>>
\* Mutant: the slot of a lost claim is not given back.
ClaimLeaking(w) ==
    /\ Goes(w, "exec", "claim")
    /\ IF w \in dirty
       THEN dirty' = dirty \ {w} /\ UNCHANGED <<lock, run, claimed>>
       ELSE Locks(w, target[w])
    /\ target' = [target EXCEPT ![w] = None]
    /\ UNCHANGED <<queue, tries, lease, chat, seen, wanted, counter, faults, started, weak>>
(* The transaction writes the lock and the job's task is created; if the   *)
(* lock was touched meanwhile (WatchError) the slot is given back.         *)
Claim(w) ==
    /\ Goes(w, "exec", "claim")
    /\ IF w \in dirty
       THEN /\ dirty' = dirty \ {w}
            /\ counter' = [counter EXCEPT ![w] = @ - 1]
            /\ UNCHANGED <<lock, run, claimed>>
       ELSE Locks(w, target[w]) /\ UNCHANGED counter
    /\ target' = [target EXCEPT ![w] = None]
    /\ UNCHANGED <<queue, tries, lease, chat, seen, wanted, faults, started, weak>>

-----------------------------------------------------------------------------
(* ARQ's run_job, a task of the worker.                                    *)

Running(w, j, at) == w \in alive /\ run[w][j] = at

\* Mutant: a job is tried as often as it is found in the queue.
BeginAgain(w, j) ==
    /\ Running(w, j, "begin")
    /\ run' = [run EXCEPT ![w][j] = IF j \in queue THEN "running" ELSE "expired"]
    /\ started' = IF j \in queue THEN [started EXCEPT ![j] = @ + 1] ELSE started
    /\ UNCHANGED <<store, chat, poll, dirty, counter, faults, claimed, weak>>
(* One transaction reads the job and counts the try.                       *)
Begin(w, j) ==
    /\ Running(w, j, "begin")
    /\ tries' = [tries EXCEPT ![j] = @ + 1]
    /\ IF j \in queue /\ tries[j] < MaxTries
       THEN /\ run' = [run EXCEPT ![w][j] = "running"]
            /\ started' = [started EXCEPT ![j] = @ + 1]
       ELSE /\ run' = [run EXCEPT ![w][j] = IF j \in queue THEN "exceeded" ELSE "expired"]
            /\ UNCHANGED started
    /\ UNCHANGED <<queue, lock, lease, chat, poll, dirty, counter, faults, claimed, weak>>

(* Lock, counter, job and queue entry go together, whoever owns the lock.  *)
Forget(j) ==
    /\ queue' = queue \ {j}
    /\ lock' = [lock EXCEPT ![j] = None]
    /\ tries' = [tries EXCEPT ![j] = 0]
    /\ dirty' = dirty \cup Watchers(j)

Leave(w, j, to) ==
    /\ run' = [run EXCEPT ![w][j] = to]
    /\ counter' = [counter EXCEPT ![w] = IF to = "none" THEN @ - 1 ELSE @]

(* The function returns or raises: the runner has ended the turn, unless   *)
(* another worker did.                                                     *)
Finish(w, j) ==
    /\ Running(w, j, "running")
    /\ Forget(j) /\ Leave(w, j, "none")
    /\ chat' = [chat EXCEPT ![j] = IF @ = "open" THEN "ended" ELSE @]
    /\ UNCHANGED <<lease, poll, faults, history>>

(* finish_failed_job: "job expired", or "retries exceeded".                *)
FinishFailed(w, j) ==
    /\ \/ Running(w, j, "expired") /\ Leave(w, j, "none")
       \/ Running(w, j, "exceeded") /\ Leave(w, j, "abandon")
    /\ Forget(j)
    /\ UNCHANGED <<lease, chat, poll, faults, history>>

\* Mutant: the failed job is only reported.
ReportOnly(w, j) ==
    /\ Running(w, j, "abandon")
    /\ Leave(w, j, "none")
    /\ UNCHANGED <<store, chat, poll, dirty, faults, history>>
(* _fail_abandoned_chat: fail_abandoned ends the turn if it is not over.   *)
FailAbandoned(w, j) ==
    /\ Running(w, j, "abandon")
    /\ Leave(w, j, "none")
    /\ chat' = [chat EXCEPT ![j] = IF @ = "open" THEN "failed" ELSE @]
    /\ UNCHANGED <<store, poll, dirty, faults, history>>

-----------------------------------------------------------------------------
(* Faults.  A worker dies at any moment; a lease lapses once its owner is  *)
(* dead, or when a live one could not renew it for its whole length.       *)

Crash(w) ==
    /\ w \in alive /\ crashes < Crashes
    /\ alive' = alive \ {w} /\ crashes' = crashes + 1
    /\ pc' = [pc EXCEPT ![w] = "renew"]
    /\ seen' = [seen EXCEPT ![w] = {}] /\ wanted' = [wanted EXCEPT ![w] = {}]
    /\ target' = [target EXCEPT ![w] = None] /\ dirty' = dirty \ {w}
    /\ counter' = [counter EXCEPT ![w] = 0]
    /\ run' = [run EXCEPT ![w] = [j \in Job |-> "none"]]
    /\ UNCHANGED <<store, chat, lapses, history>>

Expire(w) ==
    /\ lease' = lease \ {w} /\ weak' = weak \cup {w}
    /\ UNCHANGED <<queue, tries, lock, chat, poll, dirty, counter, run, alive,
                   crashes, claimed, started>>

DeadLeaseExpires(w) == w \in lease \ alive /\ Expire(w) /\ UNCHANGED lapses

LeaseLapses(w) ==
    /\ w \in lease \cap alive /\ lapses < Lapses
    /\ lapses' = lapses + 1
    /\ Expire(w)

-----------------------------------------------------------------------------
Init ==
    /\ queue = Job /\ tries = [j \in Job |-> 0] /\ lock = [j \in Job |-> None]
    /\ lease = {} /\ chat = [j \in Job |-> "open"] /\ alive = Worker
    /\ pc = [w \in Worker |-> "renew"]
    /\ seen = [w \in Worker |-> {}] /\ wanted = [w \in Worker |-> {}]
    /\ target = [w \in Worker |-> None] /\ dirty = {}
    /\ counter = [w \in Worker |-> 0]
    /\ run = [w \in Worker |-> [j \in Job |-> "none"]]
    /\ crashes = 0 /\ lapses = 0
    /\ claimed = [j \in Job |-> {}] /\ started = [j \in Job |-> 0] /\ weak = {}

Loop(w) ==
    \/ Renew(w, "locks") \/ Renew(w, "poll") \/ ReadLocks(w) \/ ReadLeases(w) \/ Release(w) \/ Released(w)
    \/ Poll(w) \/ Watch(w) \/ NoMore(w) \/ Claim(w)

RunJob(w, j) ==
    Begin(w, j) \/ Finish(w, j) \/ FinishFailed(w, j) \/ FailAbandoned(w, j)

Next ==
    \E w \in Worker :
        \/ Loop(w) \/ \E j \in Job : RunJob(w, j)
        \/ Crash(w) \/ DeadLeaseExpires(w) \/ LeaseLapses(w)

Spec == Init /\ [][Next]_vars

(* A live worker's event loop runs its poll loop and its jobs, a job's     *)
(* function returns (job_timeout), and Redis expires keys.  Two seconds    *)
(* pass again and again, and the next iteration looks for stale locks.     *)
FairSpec ==
    /\ Spec
    /\ \A w \in Worker :
        /\ WF_vars(Loop(w)) /\ SF_vars(Renew(w, "locks")) /\ WF_vars(DeadLeaseExpires(w))
        /\ \A j \in Job : WF_vars(RunJob(w, j))

-----------------------------------------------------------------------------
Label == {"renew", "locks", "leases", "release", "poll", "claim", "exec"}
Stage == {"none", "begin", "running", "exceeded", "expired", "abandon"}

Types ==
    /\ queue \subseteq Job /\ lease \subseteq Worker /\ alive \subseteq Worker
    /\ dirty \subseteq Worker /\ weak \subseteq Worker
    /\ lock \in [Job -> Worker \cup {None}]
    /\ chat \in [Job -> {"open", "ended", "failed"}]
    /\ pc \in [Worker -> Label]
    /\ target \in [Worker -> Job \cup {None}]
    /\ seen \in [Worker -> SUBSET (Job \X Worker)] /\ wanted \in [Worker -> SUBSET Job]
    /\ run \in [Worker -> [Job -> Stage]]
    /\ claimed \in [Job -> SUBSET Worker]
    /\ tries \in [Job -> Nat] /\ started \in [Job -> Nat]
    /\ crashes \in 0..Crashes /\ lapses \in 0..Lapses

Busy(w) == {j \in Job : run[w][j] # "none"}

Slots ==
    /\ counter \in [Worker -> 0..MaxJobs]
    /\ \A w \in Worker :
          counter[w] = Cardinality(Busy(w)) + (IF pc[w] = "exec" THEN 1 ELSE 0)

(* Every variable keeps its type, and a slot is taken exactly by the jobs  *)
(* a worker runs and the one it is claiming.                               *)
TypeOK == Types /\ Slots

(* The function of a chat job is not started more than max_tries = 1 time, *)
(* however often its lock is lost, released and taken again: no reply is   *)
(* generated twice.                                                        *)
StartedOnce == \A j \in Job : started[j] <= MaxTries

(* What a worker runs nobody else can take, as long as that worker has     *)
(* kept its lease: it holds the lock, or the job has left the queue.       *)
KeepsLock ==
    \A w \in Worker \ weak, j \in queue : run[w][j] # "none" => lock[j] = w

(* "Failing chat abandoned by a dead worker" (liveness.py:279): a turn is  *)
(* failed only if a worker that had taken its job lost its lease.          *)
OnlyAbandonedFail ==
    \A j \in Job : chat[j] = "failed" => claimed[j] \cap weak # {}

(* A lock is taken from a worker, by recovery, only while it has no lease: *)
(* one that is back in time keeps its job.                                 *)
BackInTime ==
    [][\A j \in Job : j \in queue' /\ lock[j] # None /\ lock'[j] # lock[j]
            => lock[j] \notin lease]_vars

(* With a worker left, every turn ends: the jobs of a worker that died are *)
(* found, tried again and failed, and claims that are lost cost nothing.   *)
TurnsEnd == \A j \in Job : <>(chat[j] # "open")
=============================================================================
