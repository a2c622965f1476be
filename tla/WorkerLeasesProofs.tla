--------------------------- MODULE WorkerLeasesProofs ---------------------------
(***************************************************************************)
(* Proofs about WorkerLeases, for any workers, any finite set of jobs and  *)
(* any number of crashes and lapses.                                       *)
(***************************************************************************)
EXTENDS WorkerLeases, FiniteSetTheorems, TLAPS

-----------------------------------------------------------------------------
(* The inductive invariant, in four parts.                                 *)

(* Who watches a job: only a worker about to claim does, the job is none   *)
(* it runs, and unless something touched the lock it is free and due.      *)
Watching ==
    \A w \in Worker :
        /\ target[w] # None <=> pc[w] = "exec"
        /\ w \in dirty => pc[w] = "exec"
        /\ target[w] # None /\ w \notin dirty =>
              lock[target[w]] = None /\ target[w] \in queue
        /\ target[w] # None => run[w][target[w]] = "none" /\ target[w] \notin wanted[w]
        /\ \A j \in wanted[w] : run[w][j] = "none"

(* Who has kept its lease: a worker that has polled or ever claimed has    *)
(* it, and its locks with it.                                              *)
Leased ==
    \A w \in Worker \ weak :
        /\ pc[w] # "renew" => w \in lease
        /\ \A j \in Job : w \in claimed[j] => w \in lease
        /\ \A j \in queue : w \in claimed[j] => lock[j] = w

(* What is run was claimed.                                                *)
Claimed == \A w \in Worker, j \in Job : run[w][j] # "none" => w \in claimed[j]

(* The retry counter: it counts the starts of a job that is queued, and a  *)
(* second try is only ever made behind the back of a worker that lost its  *)
(* lease.                                                                  *)
Tried ==
    /\ \A j \in Job : started[j] <= MaxTries
    /\ \A j \in queue : started[j] <= tries[j]
    /\ \A j \in queue : tries[j] >= 1 => claimed[j] # {}
    /\ \A j \in queue, w \in Worker :
          tries[j] >= 1 /\ run[w][j] = "begin" => claimed[j] \cap weak # {}
    /\ \A j \in Job, w \in Worker :
          run[w][j] \in {"exceeded", "abandon"} => claimed[j] \cap weak # {}
    /\ \A j \in Job : chat[j] = "failed" => claimed[j] \cap weak # {}

IndInv == Types /\ Watching /\ Leased /\ Claimed /\ Tried

LEMMA InitInd == Init => IndInv
<1> SUFFICES ASSUME Init PROVE IndInv
  OBVIOUS
<1> USE BoundsAssumption, NoneAssumption DEF Init
<1>1. Types
  BY DEF Types, Stage, Label
<1>2. Watching /\ Leased /\ Claimed
  BY DEF Watching, Leased, Claimed
<1>3. Tried
  BY TriesAssumption DEF Tried
<1> QED
  BY <1>1, <1>2, <1>3 DEF IndInv

-----------------------------------------------------------------------------
(* What the steps that move a job do, point by point.                      *)

Moved(w, j, to) ==
    /\ run' \in [Worker -> [Job -> Stage]]
    /\ \A u \in Worker, k \in Job :
          run'[u][k] = IF u = w /\ k = j THEN to ELSE run[u][k]

LEMMA Moves ==
    ASSUME Types, NEW w \in Worker, NEW j \in Job, NEW to \in Stage,
           run' = [run EXCEPT ![w][j] = to]
    PROVE  Moved(w, j, to)
<1> USE DEF Types, Moved
<1>1. run' = [run EXCEPT ![w] = [run[w] EXCEPT ![j] = to]]
  OBVIOUS
<1>2. [run[w] EXCEPT ![j] = to] \in [Job -> Stage]
  OBVIOUS
<1> QED
  BY <1>1, <1>2

LEMMA ForgetType ==
    ASSUME Types, NEW j \in Job, Forget(j)
    PROVE  /\ queue' \subseteq Job /\ lock' \in [Job -> Worker \cup {None}]
           /\ tries' \in [Job -> Nat] /\ dirty' \subseteq Worker
BY DEF Types, Forget, Watchers

(* A job that is tried runs, or is refused.                                *)
Tries(w, j, to) ==
    /\ run[w][j] = "begin" /\ Moved(w, j, to)
    /\ tries' \in [Job -> Nat] /\ started' \in [Job -> Nat]
    /\ \A k \in Job : tries'[k] = IF k = j THEN tries[k] + 1 ELSE tries[k]
    /\ \/ to = "running" /\ j \in queue /\ tries[j] < MaxTries
       \/ to = "exceeded" /\ j \in queue /\ tries[j] >= MaxTries
       \/ to = "expired" /\ j \notin queue
    /\ \A k \in Job : started'[k] =
          IF k = j /\ to = "running" THEN started[k] + 1 ELSE started[k]
    /\ UNCHANGED <<queue, lock, lease, chat, poll, dirty, faults, claimed, weak>>

LEMMA BeginTries ==
    ASSUME Types, NEW w \in Worker, NEW j \in Job, Begin(w, j)
    PROVE  \E to \in {"running", "exceeded", "expired"} : Tries(w, j, to)
<1> USE TriesAssumption
<1>1. run[w][j] = "begin" /\ UNCHANGED <<queue, lock, lease, chat, poll, dirty, faults, claimed, weak>>
  BY DEF Begin, Running
<1>2. tries' \in [Job -> Nat] /\ \A k \in Job : tries'[k] = IF k = j THEN tries[k] + 1 ELSE tries[k]
  BY DEF Types, Begin
<1>3. CASE j \in queue /\ tries[j] < MaxTries
  <2>1. run' = [run EXCEPT ![w][j] = "running"] /\ started' = [started EXCEPT ![j] = @ + 1]
    BY <1>3 DEF Begin
  <2>2. Moved(w, j, "running")
    BY <2>1, Moves DEF Stage
  <2>3. started' \in [Job -> Nat] /\ \A k \in Job : started'[k] = IF k = j THEN started[k] + 1 ELSE started[k]
    BY <2>1 DEF Types
  <2>4. Tries(w, j, "running")
    BY <1>1, <1>2, <1>3, <2>2, <2>3 DEF Tries
  <2> QED
    BY <2>4
<1>4. CASE j \in queue /\ ~(tries[j] < MaxTries)
  <2>1. run' = [run EXCEPT ![w][j] = "exceeded"] /\ started' = started
    BY <1>4 DEF Begin
  <2>2. Moved(w, j, "exceeded")
    BY <2>1, Moves DEF Stage
  <2>3. tries[j] >= MaxTries /\ started' \in [Job -> Nat]
    BY <2>1, <1>4 DEF Types
  <2>4. Tries(w, j, "exceeded")
    BY <1>1, <1>2, <1>4, <2>1, <2>2, <2>3 DEF Tries
  <2> QED
    BY <2>4
<1>5. CASE j \notin queue
  <2>1. run' = [run EXCEPT ![w][j] = "expired"] /\ started' = started
    BY <1>5 DEF Begin
  <2>2. Moved(w, j, "expired")
    BY <2>1, Moves DEF Stage
  <2>3. started' \in [Job -> Nat]
    BY <2>1 DEF Types
  <2>4. Tries(w, j, "expired")
    BY <1>1, <1>2, <1>5, <2>1, <2>2, <2>3 DEF Tries
  <2> QED
    BY <2>4
<1> QED
  BY <1>3, <1>4, <1>5

(* A claim that is not lost takes a lock that is free.                     *)
Takes(w, j) ==
    /\ j \in queue /\ j \in Job /\ lock[j] = None /\ pc[w] = "exec" /\ target[w] = j
    /\ run[w][j] = "none" /\ j \notin wanted[w] /\ Moved(w, j, "begin")
    /\ lock' \in [Job -> Worker \cup {None}] /\ claimed' \in [Job -> SUBSET Worker]
    /\ \A k \in Job :
          /\ lock'[k] = IF k = j THEN w ELSE lock[k]
          /\ claimed'[k] = IF k = j THEN claimed[k] \cup {w} ELSE claimed[k]
    /\ target' \in [Worker -> Job \cup {None}]
    /\ pc' = [pc EXCEPT ![w] = "claim"]
    /\ \A u \in Worker : target'[u] = IF u = w THEN None ELSE target[u]
    /\ dirty' = (dirty \cup Watchers(j)) \ {w}
    /\ UNCHANGED <<queue, tries, lease, chat, seen, wanted, counter, faults, started, weak>>

LEMMA ClaimTakes ==
    ASSUME Types, Watching, NEW w \in Worker, Claim(w), w \notin dirty
    PROVE  Takes(w, target[w])
<1>1. /\ pc[w] = "exec" /\ target[w] \in queue /\ target[w] \in Job /\ lock[target[w]] = None
      /\ run[w][target[w]] = "none" /\ target[w] \notin wanted[w]
  BY NoneAssumption DEF Types, Watching, Claim, Goes
<1>2. /\ lock' = [lock EXCEPT ![target[w]] = w] /\ run' = [run EXCEPT ![w][target[w]] = "begin"]
      /\ claimed' = [claimed EXCEPT ![target[w]] = @ \cup {w}]
      /\ dirty' = (dirty \cup Watchers(target[w])) \ {w} /\ UNCHANGED counter
  BY DEF Claim, Locks
<1>3. Moved(w, target[w], "begin")
  BY <1>1, <1>2, Moves DEF Stage
<1>4. lock' \in [Job -> Worker \cup {None}] /\ \A k \in Job : lock'[k] = IF k = target[w] THEN w ELSE lock[k]
  BY <1>1, <1>2 DEF Types
<1>5. /\ claimed' \in [Job -> SUBSET Worker]
      /\ \A k \in Job : claimed'[k] = IF k = target[w] THEN claimed[k] \cup {w} ELSE claimed[k]
  BY <1>1, <1>2 DEF Types
<1>6. target' \in [Worker -> Job \cup {None}] /\ \A u \in Worker : target'[u] = IF u = w THEN None ELSE target[u]
  BY DEF Types, Claim
<1>7. pc' = [pc EXCEPT ![w] = "claim"]
  BY DEF Claim, Goes
<1>8. UNCHANGED <<queue, tries, lease, chat, seen, wanted, faults, started, weak>>
  BY DEF Claim
<1> QED
  BY <1>1, <1>2, <1>3, <1>4, <1>5, <1>6, <1>7, <1>8 DEF Takes

(* It adds to the claims, and only its own job begins.                     *)
LEMMA TakesAdds ==
    ASSUME NEW w \in Worker, NEW t, Takes(w, t)
    PROVE  /\ t \in Job /\ w \in claimed'[t]
           /\ \A k \in Job, u \in Worker : u \in claimed[k] => u \in claimed'[k]
           /\ \A u \in Worker, k \in Job :
                 run'[u][k] = run[u][k] \/ (u = w /\ k = t /\ run'[u][k] = "begin")
BY DEF Takes, Moved

-----------------------------------------------------------------------------
(* Every part is kept by every step.                                       *)

(* Types.                                                                  *)
LEMMA TypesStep ==
    ASSUME Types, Watching, Next
    PROVE  Types'
<1> USE BoundsAssumption, NoneAssumption DEF Types, Watching, Label, store, poll, faults, history
<1> PICK w \in Worker :
        \/ Loop(w) \/ \E j \in Job : RunJob(w, j)
        \/ Crash(w) \/ DeadLeaseExpires(w) \/ LeaseLapses(w)
  BY DEF Next
<1>1. CASE Renew(w, "locks") \/ Renew(w, "poll")
  <2>1. lease' \subseteq Worker /\ pc' \in [Worker -> Label]
    BY <1>1 DEF Renew, Goes
  <2> QED
    BY <1>1, <2>1 DEF Renew
<1>2. CASE ReadLocks(w)
  BY <1>2 DEF ReadLocks, Goes
<1>3. CASE ReadLeases(w)
  BY <1>3 DEF ReadLeases, Goes
<1>4. CASE Release(w)
  <2>1. seen' \in [Worker -> SUBSET (Job \X Worker)]
    BY <1>4 DEF Release
  <2>2. pc' \in [Worker -> Label]
    BY <1>4 DEF Release, Goes
  <2>3. lock' \in [Job -> Worker \cup {None}] /\ dirty' \subseteq Worker
    <3>1. PICK lo \in seen[w] : lock' = [lock EXCEPT ![lo[1]] = None] \/ UNCHANGED lock
      BY <1>4 DEF Release
    <3>2. dirty' \subseteq Worker
      BY <1>4 DEF Release, Watchers
    <3> QED
      BY <3>1, <3>2
  <2> QED
    BY <1>4, <2>1, <2>2, <2>3 DEF Release
<1>5. CASE Released(w)
  BY <1>5 DEF Released, Goes
<1>6. CASE Poll(w)
  BY <1>6 DEF Poll, Goes
<1>7. CASE Watch(w)
  <2>1. wanted' \in [Worker -> SUBSET Job] /\ target' \in [Worker -> Job \cup {None}]
    BY <1>7 DEF Watch
  <2>2. pc' \in [Worker -> Label]
    BY <1>7, Goes(w, "claim", "exec") \/ Goes(w, "claim", "claim") DEF Watch, Goes
  <2> QED
    BY <1>7, <2>1, <2>2 DEF Watch
<1>8. CASE NoMore(w)
  BY <1>8 DEF NoMore, Goes
<1>9. CASE Claim(w)
  <2>1. CASE w \in dirty
    BY <1>9, <2>1 DEF Claim, Goes
  <2>2. CASE w \notin dirty
    <3>1. Takes(w, target[w])
      BY <1>9, <2>2, ClaimTakes
    <3>2. pc' \in [Worker -> Label]
      BY <3>1 DEF Takes
    <3>3. dirty' \subseteq Worker
      BY <3>1 DEF Takes, Watchers
    <3> QED
      BY <3>1, <3>2, <3>3 DEF Takes, Moved
  <2> QED
    BY <2>1, <2>2
<1>10. ASSUME NEW j \in Job, RunJob(w, j) PROVE Types'
  <2>1. CASE Begin(w, j)
    <3>1. PICK to \in {"running", "exceeded", "expired"} : Tries(w, j, to)
      BY <2>1, BeginTries
    <3> QED
      BY <3>1 DEF Tries, Moved
  <2>2. CASE Finish(w, j)
    <3>1. Moved(w, j, "none")
      BY <2>2, Moves DEF Finish, Leave, Stage
    <3>2. chat' \in [Job -> {"open", "ended", "failed"}]
      BY <2>2 DEF Finish
    <3> QED
      BY <2>2, <3>1, <3>2, ForgetType DEF Finish, Moved
  <2>3. CASE FinishFailed(w, j)
    <3>1. PICK to \in {"none", "abandon"} : run' = [run EXCEPT ![w][j] = to]
      BY <2>3 DEF FinishFailed, Leave
    <3>2. to \in Stage
      BY DEF Stage
    <3>3. Moved(w, j, to)
      BY <3>1, <3>2, Moves
    <3> QED
      BY <2>3, <3>3, ForgetType DEF FinishFailed, Moved
  <2>4. CASE FailAbandoned(w, j)
    <3>1. Moved(w, j, "none")
      BY <2>4, Moves DEF FailAbandoned, Leave, Stage
    <3>2. chat' \in [Job -> {"open", "ended", "failed"}]
      BY <2>4 DEF FailAbandoned
    <3> QED
      BY <2>4, <3>1, <3>2 DEF FailAbandoned, Moved
  <2> QED
    BY <1>10, <2>1, <2>2, <2>3, <2>4 DEF RunJob
<1>11. CASE Crash(w)
  <2>1. run' \in [Worker -> [Job -> Stage]]
    BY <1>11 DEF Crash, Stage
  <2>2. /\ pc' \in [Worker -> Label]
        /\ seen' \in [Worker -> SUBSET (Job \X Worker)] /\ wanted' \in [Worker -> SUBSET Job]
        /\ target' \in [Worker -> Job \cup {None}] /\ crashes' \in 0..Crashes
    BY <1>11 DEF Crash
  <2> QED
    BY <1>11, <2>1, <2>2 DEF Crash
<1>12. CASE DeadLeaseExpires(w) \/ LeaseLapses(w)
  BY <1>12 DEF DeadLeaseExpires, LeaseLapses, Expire
<1> QED
  BY <1>1, <1>2, <1>3, <1>4, <1>5, <1>6, <1>7, <1>8, <1>9, <1>10, <1>11, <1>12 DEF Loop

(* A lock that is touched marks its watchers, so an unmarked one may claim. *)
LEMMA WatchingStep ==
    ASSUME Types, Watching, Next
    PROVE  Watching'
<1> USE NoneAssumption DEF Types, Watching, store, poll, faults, history
<1> PICK w \in Worker :
        \/ Loop(w) \/ \E j \in Job : RunJob(w, j)
        \/ Crash(w) \/ DeadLeaseExpires(w) \/ LeaseLapses(w)
  BY DEF Next
<1>1. CASE Renew(w, "locks") \/ Renew(w, "poll")
  BY <1>1 DEF Renew, Goes
<1>2. CASE ReadLocks(w)
  BY <1>2 DEF ReadLocks, Goes
<1>3. CASE ReadLeases(w)
  BY <1>3 DEF ReadLeases, Goes
<1>4. CASE Release(w)
  BY <1>4 DEF Release, Goes, Watchers
<1>5. CASE Released(w)
  BY <1>5 DEF Released, Goes
<1>6. CASE Poll(w)
  BY <1>6 DEF Poll, Goes
<1>7. CASE Watch(w)
  BY <1>7 DEF Watch, Goes
<1>8. CASE NoMore(w)
  BY <1>8 DEF NoMore, Goes
<1>9. CASE Claim(w)
  <2>1. CASE w \in dirty
    BY <1>9, <2>1 DEF Claim, Goes
  <2>2. CASE w \notin dirty
    <3>1. Takes(w, target[w])
      BY <1>9, <2>2, ClaimTakes
    <3> SUFFICES ASSUME NEW u \in Worker
                 PROVE  /\ target'[u] # None <=> pc'[u] = "exec"
                        /\ u \in dirty' => pc'[u] = "exec"
                        /\ target'[u] # None /\ u \notin dirty' =>
                              lock'[target'[u]] = None /\ target'[u] \in queue'
                        /\ target'[u] # None => run'[u][target'[u]] = "none" /\ target'[u] \notin wanted'[u]
                        /\ \A j \in wanted'[u] : run'[u][j] = "none"
      OBVIOUS
    <3>2. CASE u = w
      <4>1. target'[u] = None /\ pc'[u] # "exec" /\ u \notin dirty'
        BY <3>1, <3>2 DEF Takes
      <4>2. \A j \in wanted'[u] : run'[u][j] = "none"
        BY <3>1, <3>2 DEF Takes, Moved
      <4> QED
        BY <4>1, <4>2
    <3>3. CASE u # w
      <4>1. target'[u] = target[u] /\ pc'[u] = pc[u] /\ UNCHANGED <<queue, wanted>>
        BY <3>1, <3>3 DEF Takes
      <4>2. target[u] = target[w] => u \in dirty'
        BY <3>1, <3>3 DEF Takes, Watchers
      <4>3. u \in dirty' => u \in dirty \/ target[u] = target[w]
        BY <3>1, <3>3 DEF Takes, Watchers
      <4>4. \A j \in Job : run'[u][j] = run[u][j] /\ (j # target[w] => lock'[j] = lock[j])
        BY <3>1, <3>3 DEF Takes, Moved
      <4>5. target[w] # None
        BY <3>1 DEF Takes
      <4>6. target[u] # None => target[u] \in Job
        OBVIOUS
      <4>7. wanted[u] \subseteq Job
        OBVIOUS
      <4>8. target[u] # None /\ u \notin dirty' => target[u] # target[w] /\ u \notin dirty
        BY <4>2, <3>1, <3>3 DEF Takes
      <4>9. target[u] # None /\ u \notin dirty' =>
               lock'[target[u]] = None /\ target[u] \in queue
        BY <4>4, <4>6, <4>8
      <4>10. target[u] # None => run'[u][target[u]] = "none" /\ target[u] \notin wanted[u]
        BY <4>4, <4>6
      <4>11. \A j \in wanted[u] : run'[u][j] = "none"
        BY <4>4, <4>7
      <4>12. u \in dirty' => pc[u] = "exec"
        BY <4>3, <4>5
      <4> QED
        BY <4>1, <4>9, <4>10, <4>11, <4>12
    <3> QED
      BY <3>2, <3>3
  <2> QED
    BY <2>1, <2>2
<1>10. ASSUME NEW j \in Job, RunJob(w, j) PROVE Watching'
  <2>1. CASE Begin(w, j)
    <3>1. PICK to \in {"running", "exceeded", "expired"} : Tries(w, j, to)
      BY <2>1, BeginTries
    <3> QED
      BY <3>1 DEF Tries, Moved
  <2>2. CASE Finish(w, j)
    BY <2>2 DEF Finish, Running, Forget, Leave, Watchers
  <2>3. CASE FinishFailed(w, j)
    <3>1. CASE Running(w, j, "expired") /\ Leave(w, j, "none")
      BY <2>3, <3>1 DEF FinishFailed, Running, Forget, Leave, Watchers
    <3>2. CASE Running(w, j, "exceeded") /\ Leave(w, j, "abandon")
      BY <2>3, <3>2 DEF FinishFailed, Running, Forget, Leave, Watchers
    <3> QED
      BY <2>3, <3>1, <3>2 DEF FinishFailed
  <2>4. CASE FailAbandoned(w, j)
    BY <2>4 DEF FailAbandoned, Running, Leave
  <2> QED
    BY <1>10, <2>1, <2>2, <2>3, <2>4 DEF RunJob
<1>11. CASE Crash(w)
  BY <1>11 DEF Crash
<1>12. CASE DeadLeaseExpires(w) \/ LeaseLapses(w)
  BY <1>12 DEF DeadLeaseExpires, LeaseLapses, Expire
<1> QED
  BY <1>1, <1>2, <1>3, <1>4, <1>5, <1>6, <1>7, <1>8, <1>9, <1>10, <1>11, <1>12 DEF Loop

(* Nobody takes the lock of a worker with a lease: recovery looks at the   *)
(* lease once more with the lock in its hand, and a claim needs it free.   *)
LEMMA LeasedStep ==
    ASSUME Types, Watching, Leased, Next
    PROVE  Leased'
<1> USE NoneAssumption DEF Types, Watching, Leased, store, poll, faults, history
<1> PICK w \in Worker :
        \/ Loop(w) \/ \E j \in Job : RunJob(w, j)
        \/ Crash(w) \/ DeadLeaseExpires(w) \/ LeaseLapses(w)
  BY DEF Next
<1>1. CASE Renew(w, "locks") \/ Renew(w, "poll")
  BY <1>1 DEF Renew, Goes
<1>2. CASE ReadLocks(w)
  BY <1>2 DEF ReadLocks, Goes
<1>3. CASE ReadLeases(w)
  BY <1>3 DEF ReadLeases, Goes
<1>4. CASE Release(w)
  BY <1>4 DEF Release, Goes, Watchers
<1>5. CASE Released(w)
  BY <1>5 DEF Released, Goes
<1>6. CASE Poll(w)
  BY <1>6 DEF Poll, Goes
<1>7. CASE Watch(w)
  BY <1>7 DEF Watch, Goes
<1>8. CASE NoMore(w)
  BY <1>8 DEF NoMore, Goes
<1>9. CASE Claim(w)
  <2>1. CASE w \in dirty
    BY <1>9, <2>1 DEF Claim, Goes
  <2>2. CASE w \notin dirty
    <3>1. Takes(w, target[w])
      BY <1>9, <2>2, ClaimTakes
    <3>2. /\ UNCHANGED <<queue, lease, weak>>
          /\ \A u \in Worker : pc'[u] # "renew" => pc[u] # "renew"
      BY <3>1 DEF Takes
    <3>3. \A u \in Worker, j \in Job : u \in claimed'[j] =>
              u \in claimed[j] \/ (u = w /\ j = target[w] /\ pc[w] # "renew")
      BY <3>1 DEF Takes
    <3>4. \A u \in Worker \ weak : target[w] \in queue /\ u \notin claimed[target[w]]
      BY <3>1 DEF Takes
    <3>5. \A j \in Job : lock'[j] = IF j = target[w] THEN w ELSE lock[j]
      BY <3>1 DEF Takes
    <3> QED
      BY <3>2, <3>3, <3>4, <3>5
  <2> QED
    BY <2>1, <2>2
<1>10. ASSUME NEW j \in Job, RunJob(w, j) PROVE Leased'
  <2>1. CASE Begin(w, j)
    <3>1. PICK to \in {"running", "exceeded", "expired"} : Tries(w, j, to)
      BY <2>1, BeginTries
    <3> QED
      BY <3>1 DEF Tries, Moved
  <2>2. CASE Finish(w, j)
    BY <2>2 DEF Finish, Running, Forget, Leave, Watchers
  <2>3. CASE FinishFailed(w, j)
    BY <2>3 DEF FinishFailed, Running, Forget, Leave, Watchers
  <2>4. CASE FailAbandoned(w, j)
    BY <2>4 DEF FailAbandoned, Running, Leave
  <2> QED
    BY <1>10, <2>1, <2>2, <2>3, <2>4 DEF RunJob
<1>11. CASE Crash(w)
  BY <1>11 DEF Crash
<1>12. CASE DeadLeaseExpires(w) \/ LeaseLapses(w)
  BY <1>12 DEF DeadLeaseExpires, LeaseLapses, Expire
<1> QED
  BY <1>1, <1>2, <1>3, <1>4, <1>5, <1>6, <1>7, <1>8, <1>9, <1>10, <1>11, <1>12 DEF Loop

(* Only a claim makes a job run.                                           *)
LEMMA ClaimedStep ==
    ASSUME Types, Watching, Claimed, Next
    PROVE  Claimed'
<1> USE NoneAssumption DEF Types, Claimed, store, poll, faults, history
<1> PICK w \in Worker :
        \/ Loop(w) \/ \E j \in Job : RunJob(w, j)
        \/ Crash(w) \/ DeadLeaseExpires(w) \/ LeaseLapses(w)
  BY DEF Next
<1>1. CASE Renew(w, "locks") \/ Renew(w, "poll")
  BY <1>1 DEF Renew, Goes
<1>2. CASE ReadLocks(w)
  BY <1>2 DEF ReadLocks, Goes
<1>3. CASE ReadLeases(w)
  BY <1>3 DEF ReadLeases, Goes
<1>4. CASE Release(w)
  BY <1>4 DEF Release, Goes, Watchers
<1>5. CASE Released(w)
  BY <1>5 DEF Released, Goes
<1>6. CASE Poll(w)
  BY <1>6 DEF Poll, Goes
<1>7. CASE Watch(w)
  BY <1>7 DEF Watch, Goes
<1>8. CASE NoMore(w)
  BY <1>8 DEF NoMore, Goes
<1>9. CASE Claim(w)
  <2>1. CASE w \in dirty
    BY <1>9, <2>1 DEF Claim, Goes
  <2>2. CASE w \notin dirty
    <3>1. Takes(w, target[w])
      BY <1>9, <2>2, ClaimTakes
    <3> QED
      BY <3>1, TakesAdds
  <2> QED
    BY <2>1, <2>2
<1>10. ASSUME NEW j \in Job, RunJob(w, j) PROVE Claimed'
  <2>1. CASE Begin(w, j)
    <3>1. PICK to \in {"running", "exceeded", "expired"} : Tries(w, j, to)
      BY <2>1, BeginTries
    <3> QED
      BY <3>1 DEF Tries, Moved
  <2>2. CASE Finish(w, j)
    BY <2>2 DEF Finish, Running, Forget, Leave, Watchers
  <2>3. CASE FinishFailed(w, j)
    <3>1. CASE Running(w, j, "expired") /\ Leave(w, j, "none")
      BY <2>3, <3>1 DEF FinishFailed, Running, Forget, Leave, Watchers
    <3>2. CASE Running(w, j, "exceeded") /\ Leave(w, j, "abandon")
      BY <2>3, <3>2 DEF FinishFailed, Running, Forget, Leave, Watchers
    <3> QED
      BY <2>3, <3>1, <3>2 DEF FinishFailed
  <2>4. CASE FailAbandoned(w, j)
    BY <2>4 DEF FailAbandoned, Running, Leave
  <2> QED
    BY <1>10, <2>1, <2>2, <2>3, <2>4 DEF RunJob
<1>11. CASE Crash(w)
  BY <1>11 DEF Crash
<1>12. CASE DeadLeaseExpires(w) \/ LeaseLapses(w)
  BY <1>12 DEF DeadLeaseExpires, LeaseLapses, Expire
<1> QED
  BY <1>1, <1>2, <1>3, <1>4, <1>5, <1>6, <1>7, <1>8, <1>9, <1>10, <1>11, <1>12 DEF Loop

(* A second worker at the same job had to find its lock free, so the first *)
(* has lost its lease.                                                     *)
LEMMA TriedStep ==
    ASSUME Types, Watching, Leased, Claimed, Tried, Next
    PROVE  Tried'
<1> USE TriesAssumption, NoneAssumption DEF Types, Watching, Leased, Claimed, Tried, store, poll, faults, history
<1> PICK w \in Worker :
        \/ Loop(w) \/ \E j \in Job : RunJob(w, j)
        \/ Crash(w) \/ DeadLeaseExpires(w) \/ LeaseLapses(w)
  BY DEF Next
<1>1. CASE Renew(w, "locks") \/ Renew(w, "poll")
  BY <1>1 DEF Renew, Goes
<1>2. CASE ReadLocks(w)
  BY <1>2 DEF ReadLocks, Goes
<1>3. CASE ReadLeases(w)
  BY <1>3 DEF ReadLeases, Goes
<1>4. CASE Release(w)
  BY <1>4 DEF Release, Goes, Watchers
<1>5. CASE Released(w)
  BY <1>5 DEF Released, Goes
<1>6. CASE Poll(w)
  BY <1>6 DEF Poll, Goes
<1>7. CASE Watch(w)
  BY <1>7 DEF Watch, Goes
<1>8. CASE NoMore(w)
  BY <1>8 DEF NoMore, Goes
<1>9. CASE Claim(w)
  <2>1. CASE w \in dirty
    BY <1>9, <2>1 DEF Claim, Goes
  <2>2. CASE w \notin dirty
    <3>1. Takes(w, target[w])
      BY <1>9, <2>2, ClaimTakes
    <3> DEFINE t == target[w]
    <3>2. t \in queue /\ \A u \in claimed[t] : u \in weak
      BY <3>1 DEF Takes
    <3>3. UNCHANGED <<queue, tries, chat, started, weak>>
      BY <3>1 DEF Takes
    <3>4. \A u \in Worker, j \in Job : run'[u][j] = run[u][j] \/ (j = t /\ run'[u][j] = "begin")
      BY <3>1, TakesAdds
    <3>5. tries[t] >= 1 => claimed[t] \cap weak # {}
      BY <3>2
    <3>6. \A j \in Job, u \in Worker : u \in claimed[j] => u \in claimed'[j]
      BY <3>1, TakesAdds
    <3>7. ASSUME NEW j \in queue, tries[j] >= 1 PROVE claimed'[j] # {}
      <4>1. PICK u \in Worker : u \in claimed[j]
        BY <3>7
      <4> QED
        BY <3>6, <4>1
    <3>8. ASSUME NEW j \in Job, claimed[j] \cap weak # {} PROVE claimed'[j] \cap weak # {}
      <4>1. PICK u \in Worker : u \in claimed[j] /\ u \in weak
        BY <3>8
      <4> QED
        BY <3>6, <4>1
    <3>9. ASSUME NEW j \in queue, NEW u \in Worker, tries[j] >= 1, run'[u][j] = "begin"
          PROVE  claimed'[j] \cap weak # {}
      <4>1. CASE j = t
        BY <3>5, <3>8, <3>9, <4>1
      <4>2. CASE j # t
        <5>1. run[u][j] = "begin" /\ j \in Job
          BY <3>4, <3>9, <4>2
        <5>2. claimed[j] \cap weak # {}
          BY <3>9, <5>1
        <5> QED
          BY <3>8, <5>1, <5>2
      <4> QED
        BY <4>1, <4>2
    <3>10. ASSUME NEW j \in Job, NEW u \in Worker, run'[u][j] \in {"exceeded", "abandon"}
           PROVE  claimed'[j] \cap weak # {}
      BY <3>4, <3>8, <3>10
    <3> QED
      BY <3>3, <3>7, <3>8, <3>9, <3>10
  <2> QED
    BY <2>1, <2>2
<1>10. ASSUME NEW j \in Job, RunJob(w, j) PROVE Tried'
  <2>1. CASE Begin(w, j)
    <3>1. PICK to \in {"running", "exceeded", "expired"} : Tries(w, j, to)
      BY <2>1, BeginTries
    <3>2. w \in claimed[j] /\ UNCHANGED <<queue, chat, claimed, weak>>
      BY <3>1 DEF Tries
    <3>3. \A k \in Job : started'[k] <= MaxTries
      BY <3>1 DEF Tries
    <3>4. \A k \in queue : started'[k] <= tries'[k]
      <4> SUFFICES ASSUME NEW k \in queue PROVE started'[k] <= tries'[k]
        OBVIOUS
      <4>1. k \in Job /\ started[k] \in Nat /\ tries[k] \in Nat /\ started[k] <= tries[k]
        OBVIOUS
      <4>2. tries'[k] = IF k = j THEN tries[k] + 1 ELSE tries[k]
        BY <3>1, <4>1 DEF Tries
      <4>3. started'[k] = IF k = j /\ to = "running" THEN started[k] + 1 ELSE started[k]
        BY <3>1, <4>1 DEF Tries
      <4> QED
        BY <4>1, <4>2, <4>3
    <3>5. \A k \in queue : tries'[k] >= 1 => claimed[k] # {}
      BY <3>1, <3>2 DEF Tries
    <3>6. \A k \in queue, u \in Worker :
              tries'[k] >= 1 /\ run'[u][k] = "begin" => claimed[k] \cap weak # {}
      <4> SUFFICES ASSUME NEW k \in queue, NEW u \in Worker, run'[u][k] = "begin", tries'[k] >= 1
                   PROVE  claimed[k] \cap weak # {}
        OBVIOUS
      <4>1. run[u][k] = "begin" /\ (k = j => u # w)
        BY <3>1 DEF Tries, Moved
      <4>2. CASE k # j
        BY <3>1, <4>1, <4>2 DEF Tries
      <4>3. CASE k = j
        BY <3>2, <4>1, <4>3
      <4> QED
        BY <4>2, <4>3
    <3>7. \A k \in Job, u \in Worker :
              run'[u][k] \in {"exceeded", "abandon"} => claimed[k] \cap weak # {}
      <4> SUFFICES ASSUME NEW k \in Job, NEW u \in Worker, run'[u][k] \in {"exceeded", "abandon"}
                   PROVE  claimed[k] \cap weak # {}
        OBVIOUS
      <4>1. CASE u = w /\ k = j
        <5>1. to = "exceeded"
          BY <3>1, <4>1 DEF Tries, Moved
        <5>2. run[w][j] = "begin" /\ j \in queue /\ tries[j] >= 1
          BY <3>1, <5>1 DEF Tries
        <5> QED
          BY <4>1, <5>2
      <4>2. CASE ~(u = w /\ k = j)
        BY <3>1, <4>2 DEF Tries, Moved
      <4> QED
        BY <4>1, <4>2
    <3> QED
      BY <3>2, <3>3, <3>4, <3>5, <3>6, <3>7
  <2>2. CASE Finish(w, j)
    BY <2>2 DEF Finish, Running, Forget, Leave, Watchers
  <2>3. CASE FinishFailed(w, j)
    <3>1. CASE Running(w, j, "expired") /\ Leave(w, j, "none")
      BY <2>3, <3>1 DEF FinishFailed, Running, Forget, Leave, Watchers
    <3>2. CASE Running(w, j, "exceeded") /\ Leave(w, j, "abandon")
      BY <2>3, <3>2 DEF FinishFailed, Running, Forget, Leave, Watchers
    <3> QED
      BY <2>3, <3>1, <3>2 DEF FinishFailed
  <2>4. CASE FailAbandoned(w, j)
    BY <2>4 DEF FailAbandoned, Running, Leave
  <2> QED
    BY <1>10, <2>1, <2>2, <2>3, <2>4 DEF RunJob
<1>11. CASE Crash(w)
  BY <1>11 DEF Crash
<1>12. CASE DeadLeaseExpires(w) \/ LeaseLapses(w)
  BY <1>12 DEF DeadLeaseExpires, LeaseLapses, Expire
<1> QED
  BY <1>1, <1>2, <1>3, <1>4, <1>5, <1>6, <1>7, <1>8, <1>9, <1>10, <1>11, <1>12 DEF Loop

LEMMA NextInd == IndInv /\ [Next]_vars => IndInv'
<1>1. IndInv /\ Next => IndInv'
  BY TypesStep, WatchingStep, LeasedStep, ClaimedStep, TriedStep DEF IndInv
<1>2. IndInv /\ UNCHANGED vars => IndInv'
  <2> SUFFICES ASSUME IndInv, UNCHANGED vars PROVE IndInv'
    OBVIOUS
  <2> USE DEF vars, store, poll, faults, history
  <2>1. Types'
    BY DEF IndInv, Types
  <2>2. Watching' /\ Leased' /\ Claimed'
    BY DEF IndInv, Watching, Leased, Claimed
  <2>3. Tried'
    BY DEF IndInv, Tried
  <2> QED
    BY <2>1, <2>2, <2>3 DEF IndInv
<1> QED
  BY <1>1, <1>2

LEMMA Inductive == Spec => []IndInv
BY InitInd, NextInd, PTL DEF Spec

-----------------------------------------------------------------------------
(* The slots.  The jobs a worker runs are counted exactly.                 *)

LEMMA BusyFinite ==
    ASSUME NEW w \in Worker
    PROVE  /\ IsFiniteSet(Busy(w)) /\ Cardinality(Busy(w)) \in Nat
           /\ \A j \in Job : j \notin Busy(w) =>
                 Cardinality(Busy(w) \cup {j}) = Cardinality(Busy(w)) + 1
           /\ \A j \in Busy(w) :
                 Cardinality(Busy(w) \ {j}) = Cardinality(Busy(w)) - 1
<1>1. Busy(w) \subseteq Job
  BY DEF Busy
<1>2. IsFiniteSet(Busy(w))
  BY <1>1, JobAssumption, FS_Subset
<1> QED
  BY <1>2, FS_CardinalityType, FS_AddElement, FS_RemoveElement

(* A step that leaves what is run and who claims as it is.                 *)
LEMMA SlotsSame ==
    ASSUME Types, Slots, UNCHANGED counter,
           \A w \in Worker, j \in Job : run'[w][j] # "none" <=> run[w][j] # "none",
           \A w \in Worker : pc'[w] = "exec" <=> pc[w] = "exec"
    PROVE  Slots'
<1>1. \A w \in Worker : Busy(w)' = Busy(w)
  BY DEF Busy
<1> QED
  BY <1>1 DEF Slots

(* A step of one worker.                                                   *)
LEMMA SlotsOne ==
    ASSUME Types, Slots, NEW w \in Worker, NEW n \in 0..MaxJobs,
           counter' = [counter EXCEPT ![w] = n],
           n = Cardinality(Busy(w)') + (IF pc'[w] = "exec" THEN 1 ELSE 0),
           \A u \in Worker \ {w} : Busy(u)' = Busy(u),
           \A u \in Worker \ {w} : pc'[u] = "exec" <=> pc[u] = "exec"
    PROVE  Slots'
BY DEF Slots

(* A job that ends gives its slot back.                                    *)
LEMMA SlotsLeave ==
    ASSUME Types, Slots, NEW w \in Worker, NEW j \in Job, NEW to \in {"none", "abandon"},
           run[w][j] # "none", Leave(w, j, to), UNCHANGED pc
    PROVE  Slots'
<1>1. Moved(w, j, to)
  BY Moves DEF Leave, Stage
<1>2. CASE to = "abandon"
  BY <1>1, <1>2, SlotsSame DEF Leave, Moved, Slots
<1>3. CASE to = "none"
  <2>1. Busy(w)' = Busy(w) \ {j} /\ j \in Busy(w)
    BY <1>1, <1>3 DEF Busy, Moved
  <2>2. \A u \in Worker \ {w} : Busy(u)' = Busy(u)
    BY <1>1 DEF Busy, Moved
  <2>3. Cardinality(Busy(w)') = Cardinality(Busy(w)) - 1 /\ Cardinality(Busy(w)') \in Nat
    <3>1. Cardinality(Busy(w) \ {j}) = Cardinality(Busy(w)) - 1
      BY <2>1, BusyFinite
    <3>2. IsFiniteSet(Busy(w) \ {j})
      BY BusyFinite, FS_Subset
    <3> QED
      BY <2>1, <3>1, <3>2, FS_CardinalityType
  <2>4. counter[w] \in 0..MaxJobs /\ Cardinality(Busy(w)) \in Nat
        /\ counter[w] = Cardinality(Busy(w)) + (IF pc[w] = "exec" THEN 1 ELSE 0)
    BY BusyFinite DEF Slots
  <2>5. counter[w] - 1 \in 0..MaxJobs
        /\ counter[w] - 1 = Cardinality(Busy(w)') + (IF pc[w] = "exec" THEN 1 ELSE 0)
    BY <2>3, <2>4, BoundsAssumption
  <2>6. counter' = [counter EXCEPT ![w] = counter[w] - 1]
    BY <1>3 DEF Leave
  <2> QED
    BY <2>2, <2>5, <2>6, SlotsOne
<1> QED
  BY <1>2, <1>3

LEMMA SlotsStep ==
    ASSUME Types, Watching, Slots, Next
    PROVE  Slots'
<1> USE NoneAssumption, BoundsAssumption DEF store, poll, faults, history
<1> PICK w \in Worker :
        \/ Loop(w) \/ \E j \in Job : RunJob(w, j)
        \/ Crash(w) \/ DeadLeaseExpires(w) \/ LeaseLapses(w)
  BY DEF Next
<1>0. /\ counter[w] \in 0..MaxJobs /\ Cardinality(Busy(w)) \in Nat
      /\ counter[w] = Cardinality(Busy(w)) + (IF pc[w] = "exec" THEN 1 ELSE 0)
  BY BusyFinite DEF Slots
<1>1. CASE Renew(w, "locks") \/ Renew(w, "poll") \/ ReadLocks(w) \/ ReadLeases(w)
           \/ Release(w) \/ Released(w) \/ Poll(w) \/ NoMore(w)
  <2>1. UNCHANGED <<counter, run>>
    BY <1>1 DEF Renew, ReadLocks, ReadLeases, Release, Released, Poll, NoMore
  <2>2. \A u \in Worker : pc'[u] = "exec" <=> pc[u] = "exec"
    BY <1>1 DEF Types, Renew, ReadLocks, ReadLeases, Release, Released, Poll, NoMore, Goes
  <2> QED
    BY <2>1, <2>2, SlotsSame
<1>2. CASE Watch(w)
  <2>1. UNCHANGED run /\ pc[w] = "claim" /\ counter[w] < MaxJobs
    BY <1>2 DEF Watch, Goes
  <2>2. CASE pc' = [pc EXCEPT ![w] = "claim"] /\ UNCHANGED counter
    BY <2>1, <2>2, SlotsSame DEF Types
  <2>3. CASE pc' = [pc EXCEPT ![w] = "exec"] /\ counter' = [counter EXCEPT ![w] = @ + 1]
    <3>1. Busy(w)' = Busy(w) /\ \A u \in Worker \ {w} : Busy(u)' = Busy(u)
      BY <2>1 DEF Busy
    <3>2. counter[w] + 1 \in 0..MaxJobs /\ counter[w] = Cardinality(Busy(w))
      BY <1>0, <2>1
    <3>3. counter' = [counter EXCEPT ![w] = counter[w] + 1]
      BY <2>3
    <3>4. pc'[w] = "exec" /\ \A u \in Worker \ {w} : pc'[u] = pc[u]
      BY <2>3 DEF Types
    <3> QED
      BY <3>1, <3>2, <3>3, <3>4, SlotsOne
  <2> QED
    BY <1>2, <2>2, <2>3 DEF Watch, Goes
<1>3. CASE Claim(w)
  <2>1. pc[w] = "exec" /\ pc' = [pc EXCEPT ![w] = "claim"]
    BY <1>3 DEF Claim, Goes
  <2>2. pc'[w] = "claim" /\ \A u \in Worker \ {w} : pc'[u] = pc[u]
    BY <2>1 DEF Types
  <2>3. CASE w \in dirty
    <3>1. UNCHANGED run /\ counter' = [counter EXCEPT ![w] = counter[w] - 1]
      BY <1>3, <2>3 DEF Claim
    <3>2. Busy(w)' = Busy(w) /\ \A u \in Worker \ {w} : Busy(u)' = Busy(u)
      BY <3>1 DEF Busy
    <3>3. counter[w] - 1 \in 0..MaxJobs /\ counter[w] - 1 = Cardinality(Busy(w))
      BY <1>0, <2>1
    <3>4. counter[w] - 1 = Cardinality(Busy(w)') + (IF pc'[w] = "exec" THEN 1 ELSE 0)
      BY <1>0, <2>2, <3>2, <3>3
    <3> QED
      BY <2>2, <3>1, <3>2, <3>3, <3>4, SlotsOne
  <2>4. CASE w \notin dirty
    <3>1. Takes(w, target[w])
      BY <1>3, <2>4, ClaimTakes
    <3>2. Busy(w)' = Busy(w) \cup {target[w]} /\ target[w] \notin Busy(w) /\ target[w] \in Job
      BY <3>1 DEF Takes, Moved, Busy
    <3>3. \A u \in Worker \ {w} : Busy(u)' = Busy(u)
      BY <3>1 DEF Takes, Moved, Busy
    <3>4. Cardinality(Busy(w)') = counter[w]
      BY <1>0, <2>1, <3>2, BusyFinite
    <3>5. counter' = [counter EXCEPT ![w] = counter[w]]
      BY <3>1 DEF Takes, Slots
    <3>6. counter[w] = Cardinality(Busy(w)') + (IF pc'[w] = "exec" THEN 1 ELSE 0)
      BY <1>0, <2>2, <3>4
    <3> QED
      BY <1>0, <2>2, <3>3, <3>5, <3>6, SlotsOne
  <2> QED
    BY <2>3, <2>4
<1>4. ASSUME NEW j \in Job, RunJob(w, j) PROVE Slots'
  <2>1. CASE Begin(w, j)
    <3>1. PICK to \in {"running", "exceeded", "expired"} : Tries(w, j, to)
      BY <2>1, BeginTries
    <3>2. UNCHANGED <<counter, pc>>
      BY <2>1 DEF Begin
    <3>3. \A u \in Worker, k \in Job : run'[u][k] # "none" <=> run[u][k] # "none"
      BY <3>1 DEF Tries, Moved
    <3> QED
      BY <3>2, <3>3, SlotsSame
  <2>2. CASE Finish(w, j)
    BY <2>2, SlotsLeave DEF Finish, Running
  <2>3. CASE FinishFailed(w, j)
    BY <2>3, SlotsLeave DEF FinishFailed, Running
  <2>4. CASE FailAbandoned(w, j)
    BY <2>4, SlotsLeave DEF FailAbandoned, Running
  <2> QED
    BY <1>4, <2>1, <2>2, <2>3, <2>4 DEF RunJob
<1>5. CASE Crash(w)
  <2>1. Busy(w)' = {} /\ \A u \in Worker \ {w} : Busy(u)' = Busy(u)
    BY <1>5 DEF Crash, Busy, Types
  <2>2. pc'[w] = "renew" /\ \A u \in Worker \ {w} : pc'[u] = pc[u]
    BY <1>5 DEF Crash, Types
  <2>3. counter' = [counter EXCEPT ![w] = 0] /\ 0 \in 0..MaxJobs
    BY <1>5 DEF Crash
  <2>4. 0 = Cardinality(Busy(w)') + (IF pc'[w] = "exec" THEN 1 ELSE 0)
    BY <2>1, <2>2, FS_EmptySet
  <2> QED
    BY <2>1, <2>2, <2>3, <2>4, SlotsOne
<1>6. CASE DeadLeaseExpires(w) \/ LeaseLapses(w)
  BY <1>6, SlotsSame DEF DeadLeaseExpires, LeaseLapses, Expire
<1> QED
  BY <1>1, <1>2, <1>3, <1>4, <1>5, <1>6 DEF Loop

-----------------------------------------------------------------------------
(* The theorems.                                                           *)

(* Types are kept, and no slot is lost or used twice: job_counter is, at   *)
(* every moment, the number of jobs run and claimed.                       *)
THEOREM TypeCorrect == Spec => []TypeOK
<1>1. Init => Slots
  <2> SUFFICES ASSUME Init PROVE Slots
    OBVIOUS
  <2>1. \A w \in Worker : Busy(w) = {}
    BY DEF Init, Busy
  <2>2. \A w \in Worker : Cardinality(Busy(w)) = 0
    BY <2>1, FS_EmptySet
  <2>3. counter \in [Worker -> 0..MaxJobs]
    BY BoundsAssumption DEF Init
  <2> QED
    BY <2>2, <2>3 DEF Init, Slots
<1>2. IndInv /\ Slots /\ [Next]_vars => Slots'
  <2>1. IndInv /\ Slots /\ UNCHANGED vars => Slots'
    BY SlotsSame DEF IndInv, vars, poll
  <2> QED
    BY <2>1, SlotsStep DEF IndInv
<1>3. IndInv /\ Slots => TypeOK
  BY DEF IndInv, TypeOK
<1> QED
  BY <1>1, <1>2, <1>3, Inductive, PTL DEF Spec

(* No job's function is started more often than max_tries, whichever       *)
(* workers die, stall and take each other's locks.                         *)
THEOREM StartsBounded == Spec => []StartedOnce
<1>1. IndInv => StartedOnce
  BY DEF IndInv, Tried, StartedOnce
<1> QED
  BY <1>1, Inductive, PTL

(* A worker that never lost its lease holds the lock of every queued job   *)
(* it runs, though nothing in its own steps ever looks at it again.        *)
THEOREM LocksKept == Spec => []KeepsLock
<1>1. IndInv => KeepsLock
  BY DEF IndInv, Types, Leased, Claimed, KeepsLock
<1> QED
  BY <1>1, Inductive, PTL

(* A turn is failed as abandoned only if a worker that had claimed its job *)
(* lost its lease.                                                         *)
THEOREM FailsOnlyAbandoned == Spec => []OnlyAbandonedFail
<1>1. IndInv => OnlyAbandonedFail
  BY DEF IndInv, Tried, OnlyAbandonedFail
<1> QED
  BY <1>1, Inductive, PTL

(* The lock of a queued job changes hands only while its owner has no      *)
(* lease.                                                                  *)
THEOREM LocksChangeHands == Spec => BackInTime
<1> DEFINE Change == \A j \in Job : j \in queue' /\ lock[j] # None /\ lock'[j] # lock[j]
                        => lock[j] \notin lease
<1>1. IndInv /\ [Next]_vars => Change
  <2> SUFFICES ASSUME IndInv, Next, NEW j \in Job, j \in queue', lock[j] # None, lock'[j] # lock[j]
               PROVE  lock[j] \notin lease
    BY DEF vars, store
  <2> USE DEF store, poll, faults, history
  <2>0. Types /\ Watching
    BY DEF IndInv
  <2> PICK w \in Worker :
        \/ Loop(w) \/ \E k \in Job : RunJob(w, k)
        \/ Crash(w) \/ DeadLeaseExpires(w) \/ LeaseLapses(w)
    BY DEF Next
  <2>1. CASE Release(w)
    BY <2>0, <2>1 DEF Release, Types
  <2>2. CASE Claim(w)
    <3>1. w \notin dirty
      BY <2>2 DEF Claim
    <3> QED
      BY <2>0, <2>2, <3>1, ClaimTakes DEF Takes
  <2>3. CASE Loop(w) /\ ~Release(w) /\ ~Claim(w)
    BY <2>3 DEF Loop, Renew, ReadLocks, ReadLeases, Released, Poll, Watch, NoMore
  <2>4. ASSUME NEW k \in Job, RunJob(w, k) PROVE FALSE
    BY <2>0, <2>4 DEF RunJob, Begin, Finish, FinishFailed, FailAbandoned, Forget, Types
  <2>5. CASE Crash(w) \/ DeadLeaseExpires(w) \/ LeaseLapses(w)
    BY <2>5 DEF Crash, DeadLeaseExpires, LeaseLapses, Expire
  <2> QED
    BY <2>1, <2>2, <2>3, <2>4, <2>5
<1> QED
  BY <1>1, Inductive, PTL DEF Spec, BackInTime
=============================================================================
