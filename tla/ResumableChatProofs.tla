------------------------- MODULE ResumableChatProofs -------------------------
(***************************************************************************)
(* Proofs about ResumableChat, for any set of tools, any bound on the      *)
(* number of pauses and any combination of disturbances.                   *)
(***************************************************************************)
EXTENDS ResumableChat, TLAPS

-----------------------------------------------------------------------------
(* Processes.                                                              *)

(* A job is what Job makes of its number, and every number has its job.    *)
LEMMA JobIds ==
    /\ \A p \in Jobs : p[2] \in 0..Rounds /\ p = Job(p[2]) /\ p \in Proc
    /\ \A j \in 0..Rounds : Job(j) \in Jobs /\ Job(j) \in Proc /\ Job(j)[2] = j
BY DEF Jobs, Job, Proc

(* Jobs, callbacks, rescues and the client are different processes.        *)
LEMMA ProcKinds ==
    /\ \A p \in Callbacks : p \in Proc /\ p \notin Jobs /\ p[2] \in Tool
                            /\ p[1] \in {"result", "timeout"}
    /\ \A j \in 0..Rounds : Rescue(j) \in Proc /\ Rescue(j) \notin Jobs
    /\ \A t \in Tool : /\ <<"result", t>> \in Callbacks
                       /\ <<"timeout", t>> \in Callbacks
                       /\ Timer(t) \in Timers
    /\ Client \in Proc /\ Client \notin Jobs
BY DEF Jobs, Callbacks, Rescues, Timers, Client, Rescue, Timer, Proc

-----------------------------------------------------------------------------
(* Type correctness.  Only Save needs more than the types: the checkpoint  *)
(* it stores is in range because the job at the bound dispatches nothing.  *)

NoPauseAtBound ==
    /\ \A t \in Tool : by[t] # Rounds
    /\ pc[Job(Rounds)] # "save"

TypeInv == TypeOK /\ NoPauseAtBound

LEMMA InitType == Init => TypeInv
<1> SUFFICES ASSUME Init PROVE TypeInv
  OBVIOUS
<1> USE RoundsAssumption
<1>1. TypeOK
  <2>1. pc \in [Proc -> Label] /\ seen \in [Proc -> 0..Rounds]
    BY DEF Init, Label, Rest
  <2>2. ctx \in 0..Rounds /\ by \in [Tool -> 0..NoJob]
    BY DEF Init, NoJob
  <2>3. heard \in [errors : Nat, ended : BOOLEAN, late : Nat]
    BY DEF Init
  <2>4. resumed \in BOOLEAN /\ terminal \in Status
    BY DEF Init, Status
  <2> QED
    BY <2>1, <2>2, <2>3, <2>4 DEF Init, TypeOK
<1>2. NoPauseAtBound
  BY JobIds DEF Init, NoPauseAtBound, NoJob
<1> QED
  BY <1>1, <1>2 DEF TypeInv

(* The labels, one by one.                                                 *)
LEMMA Labels ==
    {"idle", "done", "failed", "aborted", "crashed", "read", "engine", "save", "refused", "reload", "arm", "peek", "check", "take", "send", "give_back", "complete", "wipe", "close", "queued", "claim", "fail", "error", "fail_wipe", "fail_close", "unwind", "revoke", "record", "disarm", "mark", "stop_jobs"} \subseteq Label
BY DEF Label, Rest, Guarded, Unguarded, CallbackOnly, ClientOnly

(* Moving a process to a label keeps the program counters well typed, and  *)
(* the job at the bound from pausing.                                      *)
LEMMA MoveType ==
    ASSUME TypeInv, NEW p \in Proc, NEW l \in Label, Goto(p, l),
           l = "save" => p # Job(Rounds), UNCHANGED by
    PROVE  pc' \in [Proc -> Label] /\ NoPauseAtBound'
BY JobIds, RoundsAssumption DEF TypeInv, TypeOK, NoPauseAtBound, Goto

(* Enqueuing keeps them so too.                                            *)
LEMMA EnqueueType ==
    ASSUME TypeInv, NEW q \in Proc
    PROVE  Enqueue(q) \in [Proc -> Label] /\ Enqueue(q)[Job(Rounds)] # "save"
BY Labels, JobIds, RoundsAssumption DEF TypeInv, TypeOK, NoPauseAtBound, Enqueue

(* Steps of the jobs up to the pause or the end.                           *)
LEMMA JobStepType ==
    ASSUME TypeInv, NEW p \in Jobs, JobStep(p)
    PROVE  TypeInv'
<1> USE RoundsAssumption, Labels, MoveType, JobIds DEF TypeInv, TypeOK, Stay, Leave, Load, store, history
<1>1. CASE MatchCheckpoint(p)
  <2>1. CASE Goto(p, "claim") /\ Load(p) /\ UNCHANGED <<fed, by, tool, timer, aborts, heard, history>>
    BY <1>1, <2>1 DEF MatchCheckpoint
  <2>2. CASE Leave(p, "done")
    BY <1>1, <2>2 DEF MatchCheckpoint
  <2> QED
    BY <1>1, <2>1, <2>2 DEF MatchCheckpoint
<1>2. CASE Claim(p)
  <2>1. CASE ClaimAction(p) /\ Goto(p, "engine") /\ Stay
    BY <2>1 DEF ClaimAction
  <2>2. CASE ClaimAction(p) /\ Goto(p, "read") /\ Stay
    BY <2>2 DEF ClaimAction
  <2>3. CASE Leave(p, "done") /\ UNCHANGED store
    BY <2>3
  <2> QED
    BY <1>2, <2>1, <2>2, <2>3 DEF Claim
<1>3. CASE ReadResults(p)
  BY <1>3 DEF ReadResults, Pending
<1>4. CASE EngineReturns(p)
  <2>1. ASSUME p = Job(Rounds) PROVE Pending(p[2] + 1) = {}
    BY <2>1 DEF NoPauseAtBound, Pending, NoJob
  <2>2. CASE Goto(p, "save") /\ p # Job(Rounds)
    BY <1>4, <2>2 DEF EngineReturns
  <2>3. CASE Goto(p, "complete")
    BY <1>4, <2>3 DEF EngineReturns
  <2> QED
    BY <1>4, <2>1, <2>2, <2>3 DEF EngineReturns
<1>5. CASE Save(p)
  <2>1. p[2] + 1 \in 0..Rounds
    BY <1>5 DEF Save, NoPauseAtBound
  <2>2. CASE SaveCheckpoint(p[2] + 1) /\ Goto(p, "reload") /\ saved' = saved \cup {p[2]}
    BY <1>5, <2>1, <2>2 DEF Save, SaveCheckpoint
  <2>3. CASE UNCHANGED <<store, saved>> /\ Goto(p, "refused")
    BY <1>5, <2>3 DEF Save
  <2> QED
    BY <1>5, <2>2, <2>3 DEF Save
<1>6. CASE RevokeRefused(p)
  BY <1>6 DEF RevokeRefused, Revoked
<1>7. CASE Reload(p)
  BY <1>7 DEF Reload
<1>8. CASE ArmTimers(p)
  BY <1>8 DEF ArmTimers
<1>9. CASE Complete(p)
  BY <1>9 DEF Complete, MarkTerminal, Status
<1> QED
  BY <1>1, <1>2, <1>3, <1>4, <1>5, <1>6, <1>7, <1>8, <1>9 DEF JobStep

(* _resume_if_ready.                                                       *)
LEMMA ReadyStepType ==
    ASSUME TypeInv, NEW p \in Proc, ReadyStep(p) \/ SendRaises(p)
    PROVE  TypeInv'
<1> USE RoundsAssumption, Labels, MoveType DEF TypeInv, TypeOK, Stay, Leave, Load, store, history
<1>1. CASE Peek(p)
  <2>1. CASE Leave(p, "done")
    BY <1>1, <2>1 DEF Peek
  <2>2. CASE Load(p) /\ Goto(p, "check")
    BY <1>1, <2>2 DEF Peek
  <2> QED
    BY <1>1, <2>1, <2>2 DEF Peek
<1>2. CASE Check(p)
  <2>1. CASE Goto(p, "take") /\ Stay
    BY <1>2, <2>1 DEF Check
  <2>2. CASE Leave(p, "done")
    BY <1>2, <2>2 DEF Check
  <2> QED
    BY <1>2, <2>1, <2>2 DEF Check
<1>3. CASE Take(p)
  <2>1. CASE Leave(p, "done") /\ UNCHANGED store
    BY <1>3, <2>1 DEF Take
  <2>2. CASE ClaimResume /\ Goto(p, "send") /\ Stay
    <3>1. resumed' \in BOOLEAN
      BY <2>2 DEF ClaimResume
    <3> QED
      BY <2>2, <3>1 DEF ClaimResume
  <2> QED
    BY <1>3, <2>1, <2>2 DEF Take
<1>4. CASE Send(p)
  <2>1. pc' \in [Proc -> Label] /\ NoPauseAtBound'
    <3>1. Job(seen[p]) \in Proc /\ Job(Rounds) \in Proc
      BY JobIds
    <3> QED
      BY <1>4, <3>1, EnqueueType DEF Send, NoPauseAtBound
  <2> QED
    BY <1>4, <2>1 DEF Send
<1>5. CASE GiveBack(p)
  <2>1. resumed' \in BOOLEAN
    BY <1>5 DEF GiveBack, ReleaseResume
  <2>2. CASE Goto(p, "fail") /\ Stay
    BY <1>5, <2>1, <2>2 DEF GiveBack, ReleaseResume
  <2>3. CASE Leave(p, "failed")
    BY <1>5, <2>1, <2>3 DEF GiveBack, ReleaseResume
  <2> QED
    BY <1>5, <2>2, <2>3 DEF GiveBack
<1>6. CASE SendRaises(p)
  BY <1>6 DEF SendRaises
<1> QED
  BY <1>1, <1>2, <1>3, <1>4, <1>5, <1>6 DEF ReadyStep

(* The ends of a turn.                                                     *)
LEMMA EndStepType ==
    ASSUME TypeInv, NEW p \in Proc, EndStep(p)
    PROVE  TypeInv'
<1> USE RoundsAssumption, Labels, MoveType DEF TypeInv, TypeOK, Stay, Leave, Load, store, history
<1>1. CASE Wipe(p)
  <2>1. resumed' \in BOOLEAN
    BY <1>1 DEF Wipe, Cleanup
  <2>2. CASE Goto(p, "close")
    BY <1>1, <2>1, <2>2 DEF Wipe, Cleanup
  <2>3. CASE Goto(p, "fail_close")
    BY <1>1, <2>1, <2>3 DEF Wipe, Cleanup
  <2> QED
    BY <1>1, <2>2, <2>3 DEF Wipe
<1>2. CASE Close(p)
  <2>1. heard' \in [errors : Nat, ended : BOOLEAN, late : Nat]
    BY <1>2 DEF Close
  <2>2. CASE Goto(p, "failed")
    BY <1>2, <2>1, <2>2 DEF Close
  <2>3. CASE Goto(p, "done")
    BY <1>2, <2>1, <2>3 DEF Close
  <2> QED
    BY <1>2, <2>2, <2>3 DEF Close
<1>3. CASE MarkFailed(p)
  BY <1>3 DEF MarkFailed, MarkTerminal, Status
<1>4. CASE PublishError(p)
  BY <1>4 DEF PublishError
<1>5. CASE Unwind(p)
  BY <1>5 DEF Unwind, AfterRevoke
<1>6. CASE Revoke(p)
  BY <1>6 DEF Revoke, Revoked, AfterRevoke
<1> QED
  BY <1>1, <1>2, <1>3, <1>4, <1>5, <1>6 DEF EndStep

(* The tool-result jobs.                                                   *)
LEMMA CallbackStepType ==
    ASSUME TypeInv, NEW p \in Callbacks, CallbackStep(p)
    PROVE  TypeInv'
<1> USE RoundsAssumption, Labels, MoveType, ProcKinds DEF TypeInv, TypeOK, Stay, Leave, Load, store, history
<1>1. CASE Lookup(p)
  BY <1>1 DEF Lookup
<1>2. CASE Record(p)
  BY <1>2 DEF Record, RecordResult
<1>3. CASE Disarm(p)
  <2>1. aborts' \subseteq Jobs \cup Callbacks \cup Timers
    <3>1. Timer(p[2]) \in Timers
      BY ProcKinds
    <3> QED
      BY <1>3, <3>1 DEF Disarm
  <2> QED
    BY <1>3, <2>1 DEF Disarm
<1> QED
  BY <1>1, <1>2, <1>3 DEF CallbackStep

(* The client.                                                             *)
LEMMA ClientStepType ==
    ASSUME TypeInv, Submit \/ RequestCancel \/ CancelStep
    PROVE  TypeInv'
<1> USE RoundsAssumption, Labels, MoveType, ProcKinds, JobIds, EnqueueType DEF TypeInv, TypeOK, Stay, Leave, Load, store, history
<1>1. CASE Submit
  <2>1. pc' \in [Proc -> Label] /\ pc'[Job(Rounds)] # "save"
    BY <1>1 DEF Submit
  <2> QED
    BY <1>1, <2>1 DEF Submit, NoPauseAtBound
<1>2. CASE RequestCancel
  BY <1>2 DEF RequestCancel
<1>3. CASE MarkCancelled
  BY <1>3 DEF MarkCancelled, MarkTerminal, Status
<1>4. CASE StopJobs
  <2>1. aborts' \subseteq Jobs \cup Callbacks \cup Timers
    <3> DEFINE c == seen[Client]
    <3>1. c \in 0..Rounds /\ Job(0) \in Jobs /\ Job(c) \in Jobs
      BY ProcKinds, JobIds
    <3>2. Pending(c) \subseteq Tool
      BY DEF Pending
    <3>3. {"timer", "result", "timeout"} \X Pending(c) \subseteq Callbacks \cup Timers
      BY <3>2 DEF Callbacks, Timers
    <3> HIDE DEF c
    <3> QED
      BY <1>4, <3>1, <3>3 DEF StopJobs, c
  <2> QED
    BY <1>4, <2>1 DEF StopJobs
<1> QED
  BY <1>1, <1>2, <1>3, <1>4 DEF CancelStep

(* Engine errors, aborts, crashes and rescues.                             *)
LEMMA DisturbanceType ==
    ASSUME TypeInv, NEW p \in Proc, NEW j \in 0..Rounds,
           \/ p \in Jobs /\ EngineRaises(p)
           \/ p \in Jobs \cup Callbacks /\ (AbortJob(p) \/ Crash(p))
           \/ RecoverJob(j)
    PROVE  TypeInv'
<1> USE RoundsAssumption, Labels, MoveType, ProcKinds DEF TypeInv, TypeOK, Stay, Leave, Load, store, history
<1>1. CASE EngineRaises(p)
  BY <1>1 DEF EngineRaises
<1>2. CASE AbortJob(p)
  <2>1. CASE Goto(p, "unwind") /\ Stay
    BY <1>2, <2>1 DEF AbortJob
  <2>2. CASE Leave(p, "aborted")
    BY <1>2, <2>2 DEF AbortJob
  <2> QED
    BY <1>2, <2>1, <2>2 DEF AbortJob
<1>3. CASE Crash(p)
  BY <1>3 DEF Crash
<1>4. CASE RecoverJob(j)
  BY <1>4 DEF RecoverJob
<1> QED
  BY <1>1, <1>2, <1>3, <1>4 DEF TypeOK

(* The engine hands a tool over; tools answer, timeouts fire.              *)
LEMMA ToolStepType ==
    ASSUME TypeInv, NEW p \in Proc, NEW t \in Tool,
           \/ p \in Jobs /\ DispatchTool(p, t)
           \/ ToolAnswers(t) \/ TimerStep(t)
    PROVE  TypeInv'
<1> USE RoundsAssumption, Labels, MoveType, ProcKinds, JobIds, EnqueueType DEF TypeInv, TypeOK, Stay, Leave, Load, store, history
<1>1. CASE p \in Jobs /\ DispatchTool(p, t)
  <2>1. p[2] \in 0..Rounds /\ p[2] # Rounds
    BY <1>1, JobIds DEF DispatchTool
  <2>2. by' \in [Tool -> 0..NoJob]
    <3>1. p[2] \in 0..NoJob
      BY <2>1 DEF NoJob
    <3> QED
      BY <1>1, <3>1 DEF DispatchTool
  <2>4. NoPauseAtBound'
    BY <1>1, <2>1 DEF DispatchTool, NoPauseAtBound
  <2>3. tool' \in [Tool -> {"unused", "running", "finished", "revoked"}]
    BY <1>1 DEF DispatchTool
  <2> QED
    BY <1>1, <2>2, <2>3, <2>4 DEF DispatchTool
<1>2. CASE ToolAnswers(t)
  BY <1>2 DEF ToolAnswers, NoPauseAtBound
<1>3. CASE TimerFires(t)
  <2>1. tool' \in [Tool -> {"unused", "running", "finished", "revoked"}]
    BY <1>3 DEF TimerFires, Revoked
  <2>2. pc' \in [Proc -> Label] /\ NoPauseAtBound'
    BY <1>3, EnqueueType DEF TimerFires, NoPauseAtBound
  <2> QED
    BY <1>3, <2>1, <2>2 DEF TimerFires
<1>4. CASE TimerAborted(t)
  BY <1>4 DEF TimerAborted, NoPauseAtBound
<1> QED
  BY <1>1, <1>2, <1>3, <1>4 DEF TimerStep

(* Every step preserves the types.                                         *)
LEMMA NextType == TypeInv /\ [Next]_vars => TypeInv'
<1> SUFFICES ASSUME TypeInv, [Next]_vars PROVE TypeInv'
  OBVIOUS
<1>1. CASE Submit \/ RequestCancel \/ CancelStep
  BY <1>1, ClientStepType
<1>2. ASSUME NEW p \in Proc, ProcStep(p) \/ SendRaises(p) PROVE TypeInv'
  BY <1>2, JobStepType, CallbackStepType, ReadyStepType, EndStepType DEF ProcStep
<1>3. ASSUME NEW p \in Jobs, EngineRaises(p) PROVE TypeInv'
  BY <1>3, DisturbanceType, JobIds, RoundsAssumption
<1>4. ASSUME NEW p \in Jobs, NEW t \in Tool, DispatchTool(p, t) PROVE TypeInv'
  BY <1>4, ToolStepType, JobIds
<1>5. ASSUME NEW p \in Jobs \cup Callbacks, AbortJob(p) \/ Crash(p) PROVE TypeInv'
  BY <1>5, DisturbanceType, JobIds, ProcKinds, RoundsAssumption
<1>6. ASSUME NEW j \in 0..Rounds, RecoverJob(j) PROVE TypeInv'
  BY <1>6, DisturbanceType, ProcKinds
<1>7. ASSUME NEW t \in Tool, ToolAnswers(t) \/ TimerStep(t)
      PROVE  TypeInv'
  BY <1>7, ToolStepType, ProcKinds
<1>8. CASE UNCHANGED vars
  BY <1>8 DEF vars, TypeInv, TypeOK, NoPauseAtBound
<1> QED
  BY <1>1, <1>2, <1>3, <1>4, <1>5, <1>6, <1>7, <1>8 DEF Next

(* Whatever the tools, the bound and the disturbances, the store, the      *)
(* coroutines and the queue hold only what TypeOK lists.                   *)
THEOREM TypeCorrect == Spec => []TypeOK
<1>1. TypeInv => TypeOK
  BY DEF TypeInv
<1> QED
  BY InitType, NextType, <1>1, PTL DEF Spec

-----------------------------------------------------------------------------
(* The inductive invariant behind SingleEngine and ResumedWithAllResults.  *)
(* Jobs form a chain: once checkpoint c is stored, loaded by anyone, or    *)
(* has its resume job, the engine runs of jobs 0 .. c - 1 are over, so no  *)
(* tool can join Pending(c) any more; and a resume job exists only after   *)
(* all of Pending(c) had answered.  Results are lost only when the turn is *)
(* over.                                                                   *)

BeforeEnd == {"idle", "queued", "claim", "read", "engine"}
PastEngine(j) == pc[Job(j)] \notin BeforeEnd
Settled(c) == \A i \in 0..Rounds : i < c => PastEngine(i)
Ready(c) == Answered(c) \/ terminal # "none"

JobsInOrder == \A c \in 0..Rounds : pc[Job(c)] # "idle" => Settled(c)
LoadedSettled == Settled(ctx) /\ \A p \in Proc : Settled(seen[p])
JobsReady == \A c \in 1..Rounds : pc[Job(c)] # "idle" => Ready(c)
SendersReady == \A p \in Proc : pc[p] \in {"take", "send"} => Ready(seen[p])
WipersOver ==
    /\ \A p \in Proc : pc[p] \in {"wipe", "fail_wipe", "error"} => terminal # "none"
    /\ pc[Client] \in {"unwind", "revoke", "stop_jobs"} => terminal # "none"
ResumersLoaded ==
    \A c \in 1..Rounds : pc[Job(c)] \in {"claim", "read"} => seen[Job(c)] = c

Chain ==
    /\ JobsInOrder /\ LoadedSettled
    /\ JobsReady /\ SendersReady
    /\ WipersOver /\ ResumersLoaded
    /\ ResumedWithAllResults

LEMMA InitChain == Init => Chain
<1> SUFFICES ASSUME Init PROVE Chain
  OBVIOUS
<1>1. /\ \A p \in Proc : pc[p] = "idle" /\ seen[p] = 0
      /\ ctx = 0 /\ \A j \in 0..Rounds : pc[Job(j)] = "idle"
  BY JobIds DEF Init
<1>2. Settled(0)
  BY DEF Settled
<1> QED
  BY <1>1, <1>2, JobIds, ProcKinds DEF Chain, JobsInOrder, LoadedSettled, JobsReady,
     SendersReady, WipersOver, ResumersLoaded, ResumedWithAllResults

(* A step that only moves one coroutine on, past no engine run and into no *)
(* critical operation without its condition, keeps the chain.              *)
LEMMA QuietMove ==
    ASSUME TypeInv, Chain,
           NEW p \in Proc, NEW l \in Label, Goto(p, l),
           p \in Jobs => pc[p] # "idle" /\ l \notin BeforeEnd,
           UNCHANGED <<ctx, results, by, fed>>,
           terminal' \in {terminal, "completed", "failed", "cancelled"},
           terminal # "none" => terminal' # "none",
           seen' \in {seen, [seen EXCEPT ![p] = 0], [seen EXCEPT ![p] = ctx]},
           l \in {"take", "send"} => seen' = seen /\ Ready(seen[p]),
           l \in {"wipe", "fail_wipe", "error"} => terminal' # "none",
           p = Client /\ l \in {"unwind", "revoke", "stop_jobs"} =>
               terminal' # "none"
    PROVE  Chain'
<1> USE JobIds, ProcKinds, RoundsAssumption DEF TypeInv, TypeOK
<1>1. pc' = [pc EXCEPT ![p] = l]
  BY DEF Goto
<1>2. \A j \in 0..Rounds : PastEngine(j) => PastEngine(j)'
  BY <1>1 DEF PastEngine
<1>3. \A c \in 0..Rounds : Settled(c) => Settled(c)'
  BY <1>2 DEF Settled
<1>4. \A c \in 0..Rounds : Ready(c) => Ready(c)'
  BY DEF Ready, Answered, Pending
<1>5. \A q \in Proc : seen'[q] \in {seen[q], 0, ctx}
  OBVIOUS
<1>6. JobsInOrder'
  BY <1>1, <1>3 DEF Chain, JobsInOrder, BeforeEnd
<1>7. LoadedSettled'
  <2>2. Settled(ctx)'
    BY <1>3 DEF Chain, LoadedSettled
  <2>3. ASSUME NEW q \in Proc PROVE Settled(seen[q])'
    <3>1. CASE seen'[q] = seen[q]
      <4>1. Settled(seen[q]) /\ seen[q] \in 0..Rounds
        BY DEF Chain, LoadedSettled
      <4> QED
        BY <3>1, <4>1, <1>2 DEF Settled
    <3>2. CASE seen'[q] = 0
      BY <3>2 DEF Settled
    <3>3. CASE seen'[q] = ctx
      BY <2>2, <3>3 DEF Settled
    <3> QED
      BY <1>5, <3>1, <3>2, <3>3
  <2> QED
    BY <2>2, <2>3 DEF LoadedSettled
<1>8. JobsReady'
  BY <1>1, <1>4 DEF Chain, JobsReady, BeforeEnd
<1>9. SendersReady'
  BY <1>1, <1>4 DEF Chain, SendersReady
<1>10. WipersOver'
  BY <1>1 DEF Chain, WipersOver
<1>11. ResumersLoaded'
  BY <1>1 DEF Chain, ResumersLoaded, BeforeEnd
<1>12. ResumedWithAllResults'
  <2>1. \A c : Pending(c)' = Pending(c)
    BY <1>1 DEF Pending
  <2> QED
    BY <1>1, <2>1 DEF Chain, ResumedWithAllResults, BeforeEnd
<1> QED
  BY <1>6, <1>7, <1>8, <1>9, <1>10, <1>11, <1>12 DEF Chain

(* Job steps.  A resume job starts its engine only after it loaded its own *)
(* checkpoint, and its read of the results sees what the check saw.        *)
LEMMA JobStepChain ==
    ASSUME TypeInv, Chain, NEW p \in Jobs, JobStep(p)
    PROVE  Chain'
<1> USE JobIds, ProcKinds, Labels, RoundsAssumption
<1>1. CASE MatchCheckpoint(p)
  <2>1. CASE Leave(p, "done")
    BY <1>1, <2>1, QuietMove DEF MatchCheckpoint, Leave, store, BeforeEnd
  <2>2. CASE p = Job(ctx) /\ Goto(p, "claim") /\ Load(p)
    <3> USE DEF TypeInv, TypeOK
    <3>1. /\ pc' = [pc EXCEPT ![p] = "claim"] /\ pc[p] = "queued"
          /\ seen' = [seen EXCEPT ![p] = ctx]
          /\ UNCHANGED <<ctx, results, by, fed, terminal>>
      BY <1>1, <2>2 DEF MatchCheckpoint, Goto, Load, store
    <3>2. \A j \in 0..Rounds : PastEngine(j) <=> PastEngine(j)'
      BY <3>1 DEF PastEngine, BeforeEnd
    <3>3. JobsInOrder'
      BY <3>1, <3>2 DEF Chain, JobsInOrder, Settled
    <3>4. LoadedSettled'
      BY <3>1, <3>2 DEF Chain, LoadedSettled, Settled
    <3>5. JobsReady' /\ SendersReady' /\ WipersOver'
      BY <3>1 DEF Chain, JobsReady, SendersReady, WipersOver, Ready, Answered, Pending
    <3>6. ResumersLoaded'
      BY <2>2, <3>1 DEF Chain, ResumersLoaded
    <3>7. ResumedWithAllResults'
      BY <3>1 DEF Chain, ResumedWithAllResults, Pending
    <3> QED
      BY <3>3, <3>4, <3>5, <3>6, <3>7 DEF Chain
  <2> QED
    BY <1>1, <2>1, <2>2 DEF MatchCheckpoint
<1>2. CASE Claim(p)
  <2>1. CASE Leave(p, "done") /\ UNCHANGED store
    BY <1>2, <2>1, QuietMove DEF Claim, Leave, store, BeforeEnd
  <2>2. CASE /\ ClaimAction(p) /\ Stay
             /\ Goto(p, IF p = Job(0) THEN "engine" ELSE "read")
    <3> USE DEF TypeInv, TypeOK
    <3>1. /\ pc' = [pc EXCEPT ![p] = IF p = Job(0) THEN "engine" ELSE "read"]
          /\ pc[p] = IF p = Job(0) THEN "queued" ELSE "claim"
          /\ UNCHANGED <<ctx, results, by, fed, terminal, seen>>
      BY <1>2, <2>2 DEF Claim, ClaimAction, Goto, Stay
    <3>2. \A j \in 0..Rounds : PastEngine(j) <=> PastEngine(j)'
      BY <3>1 DEF PastEngine, BeforeEnd
    <3>3. JobsInOrder' /\ LoadedSettled'
      BY <3>1, <3>2 DEF Chain, JobsInOrder, LoadedSettled, Settled
    <3>5. JobsReady' /\ SendersReady' /\ WipersOver'
      BY <3>1 DEF Chain, JobsReady, SendersReady, WipersOver, Ready, Answered, Pending
    <3>6. ResumersLoaded'
      BY <3>1 DEF Chain, ResumersLoaded
    <3>7. ResumedWithAllResults'
      BY <3>1 DEF Chain, ResumedWithAllResults, Pending
    <3> QED
      BY <3>3, <3>5, <3>6, <3>7 DEF Chain
  <2> QED
    BY <1>2, <2>1, <2>2 DEF Claim
<1>3. CASE ReadResults(p)
  <2> USE DEF TypeInv, TypeOK
  <2>1. /\ pc' = [pc EXCEPT ![p] = "engine"] /\ pc[p] = "read"
        /\ fed' = [fed EXCEPT ![p] =
                       {t \in Pending(seen[p]) : results[t] # "none"}]
        /\ UNCHANGED <<ctx, results, by, terminal, seen>>
    BY <1>3 DEF ReadResults, Goto, store
  <2>2. \A j \in 0..Rounds : PastEngine(j) <=> PastEngine(j)'
    BY <2>1 DEF PastEngine, BeforeEnd
  <2>3. JobsInOrder' /\ LoadedSettled'
    BY <2>1, <2>2 DEF Chain, JobsInOrder, LoadedSettled, Settled
  <2>4. JobsReady' /\ SendersReady'
    <3>1. \A c : Ready(c) <=> Ready(c)'
      BY <2>1 DEF Ready, Answered, Pending
    <3>2. JobsReady'
      BY <2>1, <3>1 DEF Chain, JobsReady
    <3>3. SendersReady'
      <4> SUFFICES ASSUME NEW q \in Proc, pc'[q] \in {"take", "send"}
                   PROVE  Ready(seen[q])'
        BY DEF SendersReady
      <4>1. pc[q] \in {"take", "send"} /\ seen'[q] = seen[q]
        BY <2>1
      <4> QED
        BY <2>1, <4>1 DEF Chain, SendersReady, Ready, Answered, Pending
    <3> QED
      BY <3>2, <3>3
  <2>5. WipersOver' /\ ResumersLoaded'
    BY <2>1 DEF Chain, WipersOver, ResumersLoaded
  <2>6. ASSUME NEW c \in 1..Rounds, pc'[Job(c)] = "engine"
        PROVE  Pending(c)' \subseteq fed'[Job(c)] \/ terminal' # "none"
    <3>1. CASE p = Job(c)
      <4>1. seen[p] = c /\ Ready(c)
        BY <2>1, <3>1 DEF Chain, JobsReady, ResumersLoaded
      <4> QED
        BY <2>1, <3>1, <4>1 DEF Ready, Answered, Pending
    <3>2. CASE p # Job(c)
      <4>1. Job(c) \in Proc /\ Job(c) \in Jobs
        <5>1. c \in 0..Rounds
          BY ONLY <2>6, RoundsAssumption
        <5> QED
          BY ONLY <5>1, JobIds
      <4>2. pc[Job(c)] = "engine" /\ fed'[Job(c)] = fed[Job(c)]
        BY <2>1, <2>6, <3>2, <4>1
      <4>3. Pending(c) \subseteq fed[Job(c)] \/ terminal # "none"
        BY <4>2 DEF Chain, ResumedWithAllResults
      <4>4. Pending(c)' = Pending(c) /\ terminal' = terminal
        BY <2>1 DEF Pending
      <4> QED
        BY ONLY <4>2, <4>3, <4>4
    <3> QED
      BY <3>1, <3>2
  <2> QED
    BY <2>3, <2>4, <2>5, <2>6 DEF Chain, ResumedWithAllResults
<1>4. CASE EngineReturns(p)
  BY <1>4, QuietMove DEF EngineReturns, Stay, store, BeforeEnd
<1>5. CASE Save(p)
  <2>1. CASE UNCHANGED <<store, saved>> /\ Goto(p, "refused")
    BY <1>5, <2>1, QuietMove DEF Save, store, BeforeEnd
  <2>2. CASE SaveCheckpoint(p[2] + 1) /\ Goto(p, "reload") /\ saved' = saved \cup {p[2]}
    <3> USE DEF TypeInv, TypeOK
    <3> DEFINE c == p[2] + 1
    <3>1. /\ pc' = [pc EXCEPT ![p] = "reload"] /\ pc[p] = "save"
          /\ ctx' = c /\ c \in 1..Rounds
          /\ UNCHANGED <<results, by, fed, terminal, seen>>
      <4>1. c \in 1..Rounds
        <5>1. p[2] \in 0..Rounds /\ p = Job(p[2]) /\ pc[p] = "save"
          BY <1>5 DEF Save
        <5>2. p[2] # Rounds
          BY <5>1 DEF NoPauseAtBound
        <5> QED
          BY ONLY <5>1, <5>2, RoundsAssumption DEF c
      <4> QED
        BY <1>5, <2>2, <4>1 DEF Save, SaveCheckpoint, Goto
    <3>2. \A j \in 0..Rounds : PastEngine(j) <=> PastEngine(j)'
      BY <3>1 DEF PastEngine, BeforeEnd
    <3>3. Settled(p[2]) /\ PastEngine(p[2])
      BY <3>1 DEF Chain, JobsInOrder, PastEngine, BeforeEnd
    <3>4. JobsInOrder' /\ LoadedSettled'
      <4>1. ASSUME NEW i \in 0..Rounds, i < p[2] + 1 PROVE PastEngine(i)
        <5>0. \A a, b \in Nat : a < b + 1 => a = b \/ a < b
          OBVIOUS
        <5>1. p[2] \in Nat /\ i \in Nat
          OBVIOUS
        <5>2. i = p[2] \/ i < p[2]
          BY ONLY <4>1, <5>0, <5>1
        <5> QED
          BY <3>3, <5>2 DEF Settled
      <4>2. Settled(c)
        BY <4>1 DEF Settled
      <4>3. \A k : Settled(k) <=> Settled(k)'
        BY <3>2 DEF Settled
      <4>4. \A q \in Proc : pc'[q] # "idle" => pc[q] # "idle"
        BY <3>1
      <4>5. JobsInOrder'
        BY <4>3, <4>4 DEF Chain, JobsInOrder
      <4>6. LoadedSettled'
        BY <3>1, <4>2, <4>3 DEF Chain, LoadedSettled
      <4> QED
        BY <4>5, <4>6
    <3>5. JobsReady' /\ SendersReady' /\ WipersOver' /\ ResumersLoaded'
      <4>1. \A k : Ready(k) <=> Ready(k)'
        BY <3>1 DEF Ready, Answered, Pending
      <4>2. \A q \in Proc : q # p => pc'[q] = pc[q]
        BY <3>1
      <4>3. pc'[p] = "reload"
        BY <3>1
      <4>4. JobsReady'
        BY <3>1, <4>1, <4>2, <4>3 DEF Chain, JobsReady
      <4>5. SendersReady'
        BY <3>1, <4>1, <4>2, <4>3 DEF Chain, SendersReady
      <4>6. WipersOver'
        BY <3>1, <4>2, <4>3 DEF Chain, WipersOver
      <4>7. ResumersLoaded'
        BY <3>1, <4>2, <4>3 DEF Chain, ResumersLoaded
      <4> QED
        BY <4>4, <4>5, <4>6, <4>7
    <3>6. ResumedWithAllResults'
      BY <3>1 DEF Chain, ResumedWithAllResults, Pending
    <3> QED
      BY <3>4, <3>5, <3>6 DEF Chain
  <2> QED
    BY <1>5, <2>1, <2>2 DEF Save
<1>6. CASE RevokeRefused(p)
  BY <1>6, QuietMove DEF RevokeRefused, store, BeforeEnd
<1>7. CASE Reload(p)
  BY <1>7, QuietMove DEF Reload, Load, store, BeforeEnd
<1>8. CASE ArmTimers(p)
  BY <1>8, QuietMove DEF ArmTimers, store, BeforeEnd
<1>9. CASE Complete(p)
  BY <1>9, QuietMove DEF Complete, MarkTerminal, Stay, BeforeEnd
<1> QED
  BY <1>1, <1>2, <1>3, <1>4, <1>5, <1>6, <1>7, <1>8, <1>9 DEF JobStep

(* _resume_if_ready: the check establishes what the claim and the enqueue  *)
(* rely on, and results do not disappear in between unless all is over.    *)
LEMMA ReadyStepChain ==
    ASSUME TypeInv, Chain, NEW p \in Proc, ReadyStep(p) \/ SendRaises(p)
    PROVE  Chain'
<1> USE JobIds, ProcKinds, Labels, RoundsAssumption DEF BeforeEnd, store
<1>1. CASE Peek(p)
  BY <1>1, QuietMove DEF Peek, Leave, Load
<1>2. CASE Check(p)
  BY <1>2, QuietMove DEF Check, Leave, Stay, Ready
<1>3. CASE Take(p)
  <2>1. pc[p] = "take" => Ready(seen[p])
    BY DEF Chain, SendersReady
  <2>2. CASE ClaimResume /\ Goto(p, "send") /\ Stay
    BY <1>3, <2>1, <2>2, QuietMove DEF Take, ClaimResume, Stay
  <2>3. CASE Leave(p, "done") /\ UNCHANGED store
    BY <1>3, <2>3, QuietMove DEF Take, Leave
  <2> QED
    BY <1>3, <2>2, <2>3 DEF Take
<1>4. CASE Send(p)
  <2> DEFINE c == seen[p]
  <2> USE DEF TypeInv, TypeOK
  <2>1. /\ pc[p] = "send" /\ c \in 0..Rounds
        /\ pc' = [Enqueue(Job(c)) EXCEPT ![p] = "done"]
        /\ seen' = [seen EXCEPT ![p] = 0]
        /\ UNCHANGED <<ctx, results, by, fed, terminal>>
    BY <1>4 DEF Send
  <2>2. \A q \in Proc : \/ pc'[q] = pc[q]
                        \/ q = p /\ pc'[q] = "done"
                        \/ q = Job(c) /\ pc[q] = "idle" /\ pc'[q] = "queued"
    BY <2>1 DEF Enqueue
  <2>3. \A j \in 0..Rounds : PastEngine(j) => PastEngine(j)'
    BY <2>1, <2>2 DEF PastEngine
  <2>4. Ready(c) /\ Settled(c)
    BY <2>1 DEF Chain, SendersReady, LoadedSettled
  <2>5. \A i \in 0..Rounds : Settled(i) => Settled(i)'
    BY <2>3 DEF Settled
  <2>6. \A i \in 0..Rounds : Ready(i) <=> Ready(i)'
    BY <2>1 DEF Ready, Answered, Pending
  <2> HIDE DEF c
  <2>7. ASSUME NEW i \in 0..Rounds, pc'[Job(i)] # "idle"
        PROVE  Settled(i)' /\ (i \in 1..Rounds => Ready(i)')
    <3>1. CASE pc[Job(i)] # "idle"
      BY <2>5, <2>6, <3>1 DEF Chain, JobsInOrder, JobsReady
    <3>2. CASE pc[Job(i)] = "idle"
      <4>1. i = c
        BY <2>1, <2>2, <2>7, <3>2 DEF Job
      <4> QED
        BY <2>1, <2>4, <2>5, <2>6, <4>1
    <3> QED
      BY <3>1, <3>2
  <2>8. LoadedSettled'
    <3>1. \A q \in Proc : seen'[q] = seen[q] \/ seen'[q] = 0
      BY <2>1
    <3>2. Settled(0)'
      BY DEF Settled
    <3>3. ASSUME NEW q \in Proc PROVE Settled(seen[q])'
      <4>1. Settled(seen[q]) /\ seen[q] \in 0..Rounds
        BY DEF Chain, LoadedSettled
      <4>2. CASE seen'[q] = seen[q]
        BY <4>1, <4>2, <2>3 DEF Settled
      <4>3. CASE seen'[q] = 0
        BY <4>3 DEF Settled
      <4> QED
        BY <3>1, <4>2, <4>3
    <3> QED
      BY <2>1, <2>5, <3>3 DEF Chain, LoadedSettled
  <2>9. SendersReady'
    <3> SUFFICES ASSUME NEW q \in Proc, pc'[q] \in {"take", "send"}
                 PROVE  Ready(seen[q])'
      BY DEF SendersReady
    <3>1. q # p /\ pc'[q] = pc[q]
      <4>1. pc'[p] = "done"
        BY <2>1 DEF Enqueue
      <4> QED
        BY <2>2, <4>1
    <3>2. seen'[q] = seen[q] /\ Ready(seen[q])
      BY <2>1, <3>1 DEF Chain, SendersReady
    <3> QED
      BY <2>1, <3>2 DEF Ready, Answered, Pending
  <2>10. WipersOver' /\ ResumersLoaded'
    BY <2>1, <2>2 DEF Chain, WipersOver, ResumersLoaded
  <2>11. ResumedWithAllResults'
    BY <2>1, <2>2 DEF Chain, ResumedWithAllResults, Pending
  <2> QED
    BY <2>7, <2>8, <2>9, <2>10, <2>11 DEF Chain, JobsInOrder, JobsReady
<1>5. CASE GiveBack(p)
  BY <1>5, QuietMove DEF GiveBack, ReleaseResume, Stay, Leave
<1>6. CASE SendRaises(p)
  BY <1>6, QuietMove DEF SendRaises, Stay
<1> QED
  BY <1>1, <1>2, <1>3, <1>4, <1>5, <1>6 DEF ReadyStep

(* The ends of a turn.  Only Wipe takes results away.                      *)
LEMMA EndStepChain ==
    ASSUME TypeInv, Chain, NEW p \in Proc, EndStep(p)
    PROVE  Chain'
<1> USE JobIds, ProcKinds, Labels, RoundsAssumption DEF BeforeEnd, store
<1>1. CASE Wipe(p)
  <2> USE DEF TypeInv, TypeOK
  <2> DEFINE l == IF pc[p] = "wipe" THEN "close" ELSE "fail_close"
  <2>1. /\ pc[p] \in {"wipe", "fail_wipe"} /\ terminal # "none"
        /\ pc' = [pc EXCEPT ![p] = l] /\ l \in {"close", "fail_close"}
        /\ ctx' = 0
        /\ UNCHANGED <<by, fed, terminal, seen>>
    BY <1>1 DEF Wipe, Cleanup, Goto, Stay, Chain, WipersOver
  <2> HIDE DEF l
  <2>2. \A j \in 0..Rounds : PastEngine(j) => PastEngine(j)'
    BY <2>1 DEF PastEngine
  <2>3. \A c \in 0..Rounds : Settled(c) => Settled(c)'
    BY <2>2 DEF Settled
  <2>4. JobsInOrder'
    BY <2>1, <2>3 DEF Chain, JobsInOrder
  <2>5. LoadedSettled'
    <3>1. Settled(ctx)'
      <4>1. ctx' = 0
        BY <2>1
      <4>2. ~(\E i \in 0..Rounds : i < 0)
        OBVIOUS
      <4> QED
        BY <4>1, <4>2 DEF Settled
    <3>2. \A q \in Proc : seen[q] \in 0..Rounds /\ Settled(seen[q])
      BY DEF Chain, LoadedSettled
    <3>3. ASSUME NEW q \in Proc PROVE Settled(seen[q])'
      <4>1. seen'[q] = seen[q]
        BY <2>1
      <4> QED
        BY <2>2, <3>2, <4>1 DEF Settled
    <3> QED
      BY <3>1, <3>3 DEF LoadedSettled
  <2>6. JobsReady' /\ SendersReady' /\ ResumedWithAllResults'
    BY <2>1 DEF JobsReady, SendersReady, ResumedWithAllResults, Ready
  <2>7. WipersOver' /\ ResumersLoaded'
    BY <2>1 DEF Chain, WipersOver, ResumersLoaded
  <2> QED
    BY <2>4, <2>5, <2>6, <2>7 DEF Chain
<1>2. CASE Close(p)
  BY <1>2, QuietMove DEF Close
<1>3. CASE MarkFailed(p)
  BY <1>3, QuietMove DEF MarkFailed, MarkTerminal, Stay
<1>4. CASE PublishError(p)
  <2>1. pc[p] = "error" => terminal # "none"
    BY DEF Chain, WipersOver
  <2> QED
    BY <1>4, <2>1, QuietMove DEF PublishError
<1>5. CASE Unwind(p)
  <2>1. p = Client /\ pc[p] = "unwind" => terminal # "none"
    BY DEF Chain, WipersOver
  <2> QED
    BY <1>5, <2>1, QuietMove DEF Unwind, Load, AfterRevoke
<1>6. CASE Revoke(p)
  <2>1. p = Client /\ pc[p] = "revoke" => terminal # "none"
    BY DEF Chain, WipersOver
  <2> QED
    BY <1>6, <2>1, QuietMove DEF Revoke, AfterRevoke
<1> QED
  BY <1>1, <1>2, <1>3, <1>4, <1>5, <1>6 DEF EndStep

(* Steps that only enqueue a process outside the chain, or change nothing  *)
(* the chain speaks of, keep it: results may only be added.                *)
LEMMA QuietStep ==
    ASSUME TypeInv, Chain,
           UNCHANGED <<ctx, by, fed, terminal, seen>>,
           \A t \in Tool : results[t] # "none" => results'[t] # "none",
           \A q \in Proc : \/ pc'[q] = pc[q]
                           \/ q \notin Jobs /\ pc'[q] \in {"queued", "disarm"}
                           \/ q = Job(0) /\ pc[q] = "idle" /\ pc'[q] = "queued"
    PROVE  Chain'
<1> USE JobIds, ProcKinds, RoundsAssumption DEF TypeInv, TypeOK
<1>1. \A j \in 0..Rounds : PastEngine(j) => PastEngine(j)'
  BY DEF PastEngine, BeforeEnd
<1>2. \A c \in 0..Rounds : Settled(c) => Settled(c)'
  BY <1>1 DEF Settled
<1>3. \A c \in 0..Rounds : Ready(c) => Ready(c)'
  BY DEF Ready, Answered, Pending
<1>4. JobsInOrder'
  <2>1. Settled(0)'
    BY DEF Settled
  <2> QED
    BY <1>2, <2>1 DEF Chain, JobsInOrder
<1>5. LoadedSettled'
  <2>1. Settled(ctx)'
    BY <1>2 DEF Chain, LoadedSettled
  <2>2. ASSUME NEW q \in Proc PROVE Settled(seen[q])'
    <3>1. seen'[q] = seen[q] /\ seen[q] \in 0..Rounds /\ Settled(seen[q])
      BY DEF Chain, LoadedSettled
    <3> QED
      BY <1>1, <3>1 DEF Settled
  <2> QED
    BY <2>1, <2>2 DEF LoadedSettled
<1>6. JobsReady'
  <2> SUFFICES ASSUME NEW c \in 1..Rounds, pc'[Job(c)] # "idle"
               PROVE  Ready(c)'
    BY DEF JobsReady
  <2>1. Job(c) # Job(0) /\ Job(c) \in Jobs /\ c \in 0..Rounds
    BY DEF Job
  <2>2. pc[Job(c)] # "idle"
    BY <2>1
  <2> QED
    BY <1>3, <2>1, <2>2 DEF Chain, JobsReady
<1>7. SendersReady'
  <2> SUFFICES ASSUME NEW q \in Proc, pc'[q] \in {"take", "send"}
               PROVE  Ready(seen[q])'
    BY DEF SendersReady
  <2>1. pc[q] \in {"take", "send"} /\ seen'[q] = seen[q]
    OBVIOUS
  <2>2. Ready(seen[q])
    BY <2>1 DEF Chain, SendersReady
  <2> QED
    BY <2>1, <2>2 DEF Ready, Answered, Pending
<1>8. WipersOver'
  BY DEF Chain, WipersOver
<1>9. ResumersLoaded'
  BY DEF Chain, ResumersLoaded
<1>10. ResumedWithAllResults'
  <2> SUFFICES ASSUME NEW c \in 1..Rounds, pc'[Job(c)] = "engine"
               PROVE  Pending(c)' \subseteq fed'[Job(c)] \/ terminal' # "none"
    BY DEF ResumedWithAllResults
  <2>1. pc[Job(c)] = "engine" /\ fed' = fed
    OBVIOUS
  <2>2. Pending(c) \subseteq fed[Job(c)] \/ terminal # "none"
    BY <2>1 DEF Chain, ResumedWithAllResults
  <2> QED
    BY <2>1, <2>2 DEF Pending
<1> QED
  BY <1>4, <1>5, <1>6, <1>7, <1>8, <1>9, <1>10 DEF Chain

(* Tool-result jobs only add results.                                      *)
LEMMA CallbackStepChain ==
    ASSUME TypeInv, Chain, NEW p \in Callbacks, CallbackStep(p)
    PROVE  Chain'
<1> USE JobIds, ProcKinds, Labels, RoundsAssumption DEF BeforeEnd, store
<1>1. CASE Lookup(p)
  BY <1>1, QuietMove DEF Lookup, Load
<1>2. CASE Record(p)
  <2> USE DEF TypeInv, TypeOK
  <2>1. /\ UNCHANGED <<ctx, by, fed, terminal, seen>>
        /\ pc' = [pc EXCEPT ![p] = "disarm"]
    BY <1>2 DEF Record, RecordResult, Stay, Goto
  <2>2. \A t \in Tool : results[t] # "none" => results'[t] # "none"
    BY <1>2 DEF Record, RecordResult
  <2> QED
    BY <2>1, <2>2, QuietStep
<1>3. CASE Disarm(p)
  BY <1>3, QuietMove DEF Disarm
<1> QED
  BY <1>1, <1>2, <1>3 DEF CallbackStep

(* The client starts the chain at job 0 and may end it.                    *)
LEMMA ClientStepChain ==
    ASSUME TypeInv, Chain, Submit \/ RequestCancel \/ CancelStep
    PROVE  Chain'
<1> USE JobIds, ProcKinds, Labels, RoundsAssumption DEF BeforeEnd, store
<1>1. CASE Submit
  <2> USE DEF TypeInv, TypeOK
  <2>1. /\ UNCHANGED <<ctx, by, fed, terminal, seen, results>>
        /\ \A q \in Proc : \/ pc'[q] = pc[q]
                           \/ q = Job(0) /\ pc[q] = "idle" /\ pc'[q] = "queued"
    BY <1>1 DEF Submit, Stay, Enqueue
  <2> QED
    BY <2>1, QuietStep
<1>2. CASE RequestCancel
  BY <1>2, QuietMove DEF RequestCancel, Stay
<1>3. CASE MarkCancelled
  BY <1>3, QuietMove DEF MarkCancelled, MarkTerminal, Stay
<1>4. CASE StopJobs
  <2>1. terminal # "none"
    BY <1>4 DEF StopJobs, Chain, WipersOver
  <2> QED
    BY <1>4, <2>1, QuietMove DEF StopJobs
<1> QED
  BY <1>1, <1>2, <1>3, <1>4 DEF CancelStep

(* Errors, aborts, crashes and rescues move a coroutine past its engine or *)
(* leave jobs alone.                                                       *)
LEMMA DisturbanceChain ==
    ASSUME TypeInv, Chain, NEW p \in Proc, NEW j \in 0..Rounds,
           \/ p \in Jobs /\ EngineRaises(p)
           \/ p \in Jobs \cup Callbacks /\ (AbortJob(p) \/ Crash(p))
           \/ RecoverJob(j)
    PROVE  Chain'
<1> USE JobIds, ProcKinds, Labels, RoundsAssumption DEF BeforeEnd, store
<1>1. CASE p \in Jobs /\ EngineRaises(p)
  BY <1>1, QuietMove DEF EngineRaises, Stay
<1>2. CASE p \in Jobs \cup Callbacks /\ AbortJob(p)
  BY <1>2, QuietMove DEF AbortJob, Stay, Leave, Rest
<1>3. CASE p \in Jobs \cup Callbacks /\ Crash(p)
  BY <1>3, QuietMove DEF Crash, Leave, Rest
<1>4. CASE RecoverJob(j)
  <2>1. Rescue(j) # Client
    BY DEF Rescue, Client
  <2> QED
    BY <1>4, <2>1, QuietMove DEF RecoverJob, Stay
<1> QED
  BY <1>1, <1>2, <1>3, <1>4

(* A tool joins Pending(j + 1) only while job j runs its engine; then      *)
(* nobody has checked checkpoint j + 1 and its resume job does not exist.  *)
LEMMA ToolStepChain ==
    ASSUME TypeInv, Chain, NEW p \in Proc, NEW t \in Tool,
           \/ p \in Jobs /\ DispatchTool(p, t)
           \/ ToolAnswers(t) \/ TimerStep(t)
    PROVE  Chain'
<1> USE JobIds, ProcKinds, RoundsAssumption DEF store
<1>1. CASE p \in Jobs /\ DispatchTool(p, t)
  <2> USE DEF TypeInv, TypeOK
  <2> DEFINE n == p[2] + 1
  <2>1. /\ pc[p] = "engine" /\ p[2] \in 0..Rounds /\ p = Job(p[2])
        /\ by' = [by EXCEPT ![t] = p[2]] /\ by[t] = NoJob
        /\ UNCHANGED <<ctx, results, terminal, pc, seen, fed>>
    BY <1>1 DEF DispatchTool
  <2>2. ~PastEngine(p[2])
    BY <2>1 DEF PastEngine, BeforeEnd
  <2>3. \A c \in 0..Rounds : Settled(c) => ~(p[2] < c)
    BY <2>1, <2>2 DEF Settled
  <2>4. \A c \in 0..Rounds : ~(p[2] < c) => Pending(c)' = Pending(c)
    <3>0. SUFFICES ASSUME NEW c \in 0..Rounds, ~(p[2] < c)
                   PROVE  Pending(c)' = Pending(c)
      OBVIOUS
    <3>1. c # NoJob + 1 /\ c # p[2] + 1
      <4>1. \A a, b, r \in Nat : b <= r /\ ~(a < b) => b # (r + 1) + 1 /\ b # a + 1
        OBVIOUS
      <4>2. p[2] \in Nat /\ c \in Nat /\ c <= Rounds
        BY <2>1
      <4> QED
        BY ONLY <3>0, <4>1, <4>2, RoundsAssumption DEF NoJob
    <3> QED
      BY <2>1, <3>1 DEF Pending
  <2>5. \A c \in 0..Rounds : Settled(c) => (Ready(c) => Ready(c)')
    BY <2>1, <2>3, <2>4 DEF Ready, Answered
  <2>6. JobsInOrder' /\ LoadedSettled' /\ WipersOver' /\ ResumersLoaded'
    BY <2>1 DEF Chain, JobsInOrder, LoadedSettled, WipersOver, ResumersLoaded,
       Settled, PastEngine
  <2>7. JobsReady'
    BY <2>1, <2>5 DEF Chain, JobsReady, JobsInOrder
  <2>8. SendersReady'
    <3> SUFFICES ASSUME NEW q \in Proc, pc[q] \in {"take", "send"}
                 PROVE  Ready(seen[q])'
      BY <2>1 DEF SendersReady
    <3>1. seen[q] \in 0..Rounds /\ Settled(seen[q]) /\ Ready(seen[q])
      BY DEF Chain, LoadedSettled, SendersReady
    <3> QED
      BY <2>1, <2>3, <2>4, <3>1 DEF Ready, Answered
  <2>9. ResumedWithAllResults'
    <3> SUFFICES ASSUME NEW c \in 1..Rounds, pc[Job(c)] = "engine"
                 PROVE  Pending(c)' \subseteq fed[Job(c)] \/ terminal # "none"
      BY <2>1 DEF ResumedWithAllResults
    <3>1. c \in 0..Rounds /\ Settled(c)
      BY DEF Chain, JobsInOrder
    <3> QED
      BY <2>3, <2>4, <3>1 DEF Chain, ResumedWithAllResults
  <2> QED
    BY <2>6, <2>7, <2>8, <2>9 DEF Chain
<1>2. CASE ToolAnswers(t) \/ TimerStep(t)
  <2> USE DEF TypeInv, TypeOK
  <2>1. UNCHANGED <<ctx, results, terminal, seen, fed, by>>
    BY <1>2 DEF ToolAnswers, TimerStep, TimerFires, TimerAborted
  <2>2. \A q \in Proc : pc'[q] = pc[q] \/ (q \notin Jobs /\ pc'[q] = "queued")
    <3>1. pc' = pc \/ \E r \in Callbacks : pc' = Enqueue(r)
      BY <1>2 DEF ToolAnswers, TimerStep, TimerFires, TimerAborted
    <3>2. ASSUME NEW r \in Callbacks, NEW q \in Proc
          PROVE  \/ Enqueue(r)[q] = pc[q]
                 \/ q \notin Jobs /\ Enqueue(r)[q] = "queued"
      <4>1. r \notin Jobs
        OBVIOUS
      <4> QED
        BY <4>1 DEF Enqueue
    <3> QED
      BY <3>1, <3>2
  <2> QED
    BY <2>1, <2>2, QuietStep
<1> QED
  BY <1>1, <1>2

(* Every step keeps the chain.                                             *)
LEMMA NextChain == TypeInv /\ Chain /\ [Next]_vars => Chain'
<1> SUFFICES ASSUME TypeInv, Chain, [Next]_vars PROVE Chain'
  OBVIOUS
<1>1. CASE Submit \/ RequestCancel \/ CancelStep
  BY <1>1, ClientStepChain
<1>2. ASSUME NEW p \in Proc, ProcStep(p) \/ SendRaises(p) PROVE Chain'
  BY <1>2, JobStepChain, CallbackStepChain, ReadyStepChain, EndStepChain DEF ProcStep
<1>3. ASSUME NEW p \in Jobs, EngineRaises(p) PROVE Chain'
  BY <1>3, DisturbanceChain, JobIds, RoundsAssumption
<1>4. ASSUME NEW p \in Jobs, NEW t \in Tool, DispatchTool(p, t) PROVE Chain'
  BY <1>4, ToolStepChain, JobIds
<1>5. ASSUME NEW p \in Jobs \cup Callbacks, AbortJob(p) \/ Crash(p) PROVE Chain'
  BY <1>5, DisturbanceChain, JobIds, ProcKinds, RoundsAssumption
<1>6. ASSUME NEW j \in 0..Rounds, RecoverJob(j) PROVE Chain'
  BY <1>6, DisturbanceChain, ProcKinds
<1>7. ASSUME NEW t \in Tool, ToolAnswers(t) \/ TimerStep(t)
      PROVE  Chain'
  BY <1>7, ToolStepChain, ProcKinds
<1>8. CASE UNCHANGED vars
  BY <1>8 DEF vars, Chain, JobsInOrder, LoadedSettled, JobsReady, SendersReady,
     WipersOver, ResumersLoaded, ResumedWithAllResults, Settled, PastEngine, Ready,
     Answered, Pending
<1> QED
  BY <1>1, <1>2, <1>3, <1>4, <1>5, <1>6, <1>7, <1>8 DEF Next

(* The chain says more than SingleEngine: of two jobs the earlier one is   *)
(* past its engine before the later one exists.                            *)
LEMMA ChainSingle == TypeInv /\ Chain => SingleEngine
<1> SUFFICES ASSUME TypeInv, Chain,
                    NEW p \in Jobs, NEW q \in Jobs, Running(p), Running(q)
             PROVE  p = q
  BY DEF SingleEngine
<1>1. /\ p[2] \in 0..Rounds /\ p = Job(p[2]) /\ q[2] \in 0..Rounds /\ q = Job(q[2])
      /\ ~PastEngine(p[2]) /\ ~PastEngine(q[2])
  BY JobIds DEF Running, PastEngine, BeforeEnd
<1>2. Settled(p[2]) /\ Settled(q[2])
  BY <1>1 DEF Chain, JobsInOrder, Running
<1>3. ~(p[2] < q[2]) /\ ~(q[2] < p[2])
  BY <1>1, <1>2 DEF Settled
<1>4. \A a, b \in 0..Rounds : ~(a < b) /\ ~(b < a) => a = b
  BY RoundsAssumption
<1> QED
  BY <1>1, <1>3, <1>4

LEMMA ChainHolds == Spec => [](TypeInv /\ Chain)
BY InitType, InitChain, NextType, NextChain, PTL DEF Spec

(* For any number of tools and pauses, and whatever goes wrong: no two     *)
(* jobs of a turn run the engine at once.                                  *)
THEOREM OneEngineAtATime == Spec => []SingleEngine
BY ChainHolds, ChainSingle, PTL

(* And the engine of a resumed job has a result for every tool its         *)
(* checkpoint waits for, unless the turn is over.                          *)
THEOREM ResultsComplete == Spec => []ResumedWithAllResults
<1>1. Chain => ResumedWithAllResults
  BY DEF Chain
<1> QED
  BY ChainHolds, <1>1, PTL

-----------------------------------------------------------------------------
(* One error at most.  Whoever decides the turn's end is the only one to   *)
(* publish an error, and does so once.                                     *)

Errors == heard.errors + heard.late
ErrorsDecided ==
    /\ Errors <= 1
    /\ terminal = "none" => Errors = 0
    /\ \A p \in Proc : pc[p] = "error" => Errors = 0 /\ terminal # "none"
    /\ \A p, q \in Proc : pc[p] = "error" /\ pc[q] = "error" => p = q

(* What every other step does to what ErrorsDecided speaks of.             *)
NoNewError ==
    /\ heard'.errors = heard.errors /\ heard'.late = heard.late
    /\ terminal # "none" => terminal' # "none"
    /\ \A q \in Proc : pc'[q] = "error" => pc[q] = "error"

LEMMA NoNewErrorKeeps ==
    TypeInv /\ ErrorsDecided /\ NoNewError => ErrorsDecided'
BY DEF TypeInv, TypeOK, ErrorsDecided, NoNewError, Errors

LEMMA MoveNoError ==
    ASSUME TypeInv, NEW p \in Proc, NEW l, l # "error", Goto(p, l),
           heard'.errors = heard.errors /\ heard'.late = heard.late,
           terminal' \in {terminal, "completed", "failed", "cancelled"}
    PROVE  NoNewError
BY DEF TypeInv, TypeOK, Goto, NoNewError

LEMMA EnqueueNoError ==
    ASSUME TypeInv, NEW r \in Proc, NEW q \in Proc
    PROVE  Enqueue(r)[q] = "error" => pc[q] = "error"
BY DEF TypeInv, TypeOK, Enqueue

LEMMA OthersNoError ==
    ASSUME TypeInv, Next, \A p \in Proc : ~MarkFailed(p) /\ ~PublishError(p)
    PROVE  NoNewError
<1> USE JobIds, ProcKinds, RoundsAssumption, MoveNoError DEF Stay, Leave, store
<1>1. CASE Submit
  BY <1>1, EnqueueNoError DEF Submit, NoNewError
<1>2. CASE RequestCancel \/ CancelStep
  BY <1>2 DEF RequestCancel, CancelStep, MarkCancelled, MarkTerminal, StopJobs
<1>3. ASSUME NEW p \in Jobs, JobStep(p) PROVE NoNewError
  <2>1. CASE MatchCheckpoint(p)
    BY <2>1 DEF MatchCheckpoint
  <2>2. CASE Claim(p) \/ ReadResults(p) \/ EngineReturns(p)
    BY <2>2 DEF Claim, ClaimAction, ReadResults, EngineReturns
  <2>3. CASE Save(p)
    BY <2>3 DEF Save, SaveCheckpoint
  <2>4. CASE RevokeRefused(p) \/ Reload(p) \/ ArmTimers(p)
    BY <2>4 DEF RevokeRefused, Reload, ArmTimers
  <2>5. CASE Complete(p)
    BY <2>5 DEF Complete, MarkTerminal
  <2> QED
    BY <1>3, <2>1, <2>2, <2>3, <2>4, <2>5 DEF JobStep
<1>4. ASSUME NEW p \in Proc, ReadyStep(p) \/ SendRaises(p) PROVE NoNewError
  <2>1. CASE Peek(p) \/ Check(p) \/ SendRaises(p)
    BY <2>1 DEF Peek, Check, SendRaises
  <2>2. CASE Take(p)
    BY <2>2 DEF Take, ClaimResume
  <2>3. CASE Send(p)
    <3>1. Job(seen[p]) \in Proc
      BY <2>3 DEF TypeInv, TypeOK
    <3> QED
      BY <2>3, <3>1, EnqueueNoError DEF Send, NoNewError, TypeInv, TypeOK, Enqueue
  <2>4. CASE GiveBack(p)
    BY <2>4 DEF GiveBack, ReleaseResume
  <2> QED
    BY <1>4, <2>1, <2>2, <2>3, <2>4 DEF ReadyStep
<1>5. ASSUME NEW p \in Proc, EndStep(p) PROVE NoNewError
  <2>1. CASE Wipe(p)
    BY <2>1 DEF Wipe, Cleanup
  <2>2. CASE Close(p)
    <3>1. heard'.errors = heard.errors /\ heard'.late = heard.late
      BY <2>2 DEF Close, TypeInv, TypeOK
    <3> QED
      BY <2>2, <3>1 DEF Close
  <2>3. CASE Unwind(p) \/ Revoke(p)
    BY <2>3 DEF Unwind, Revoke, AfterRevoke
  <2> QED
    BY <1>5, <2>1, <2>2, <2>3 DEF EndStep
<1>6. ASSUME NEW p \in Callbacks, CallbackStep(p) PROVE NoNewError
  BY <1>6 DEF CallbackStep, Lookup, Record, RecordResult, Disarm
<1>7. ASSUME NEW p \in Jobs, EngineRaises(p) PROVE NoNewError
  BY <1>7 DEF EngineRaises
<1>8. ASSUME NEW p \in Jobs, NEW t \in Tool, DispatchTool(p, t) PROVE NoNewError
  BY <1>8 DEF DispatchTool, NoNewError
<1>9. ASSUME NEW p \in Jobs \cup Callbacks, AbortJob(p) \/ Crash(p) PROVE NoNewError
  BY <1>9 DEF AbortJob, Crash
<1>10. ASSUME NEW j \in 0..Rounds, RecoverJob(j) PROVE NoNewError
  BY <1>10 DEF RecoverJob
<1>11. ASSUME NEW t \in Tool, ToolAnswers(t) \/ TimerStep(t)
       PROVE  NoNewError
  <2>1. pc' = pc \/ \E r \in Callbacks : pc' = Enqueue(r)
    BY <1>11 DEF ToolAnswers, TimerStep, TimerFires, TimerAborted
  <2>2. UNCHANGED <<heard, terminal>>
    BY <1>11 DEF ToolAnswers, TimerStep, TimerFires, TimerAborted
  <2> QED
    BY <2>1, <2>2, EnqueueNoError DEF NoNewError
<1> QED
  BY <1>1, <1>2, <1>3, <1>4, <1>5, <1>6, <1>7, <1>8, <1>9, <1>10, <1>11
  DEF Next, ProcStep

LEMMA NextErrors == TypeInv /\ ErrorsDecided /\ [Next]_vars => ErrorsDecided'
<1> SUFFICES ASSUME TypeInv, ErrorsDecided, [Next]_vars PROVE ErrorsDecided'
  OBVIOUS
<1>1. ASSUME NEW p \in Proc, MarkFailed(p) PROVE ErrorsDecided'
  <2>1. heard' = heard
    BY <1>1 DEF MarkFailed, Stay
  <2>2. CASE terminal = "none"
    <3>1. terminal' = "failed" /\ pc' = [pc EXCEPT ![p] = "error"]
      BY <1>1, <2>2 DEF MarkFailed, MarkTerminal, Goto
    <3> QED
      BY <2>1, <2>2, <3>1 DEF TypeInv, TypeOK, ErrorsDecided, Errors
  <2>3. CASE terminal # "none"
    BY <1>1, <2>1, <2>3, MoveNoError, NoNewErrorKeeps DEF MarkFailed, MarkTerminal
  <2> QED
    BY <2>2, <2>3
<1>2. ASSUME NEW p \in Proc, PublishError(p) PROVE ErrorsDecided'
  <2>1. pc[p] = "error" /\ pc' = [pc EXCEPT ![p] = "fail_wipe"] /\ terminal' = terminal
    BY <1>2 DEF PublishError, Goto, store
  <2>2. Errors = 0 /\ terminal # "none"
    BY <2>1 DEF ErrorsDecided
  <2>3. Errors' = 1
    BY <1>2, <2>2 DEF PublishError, Errors, TypeInv, TypeOK
  <2>4. \A q \in Proc : pc'[q] # "error"
    BY <2>1 DEF ErrorsDecided, TypeInv, TypeOK
  <2> QED
    BY <2>1, <2>2, <2>3, <2>4 DEF ErrorsDecided
<1>3. CASE UNCHANGED vars
  BY <1>3 DEF vars, ErrorsDecided, Errors
<1> QED
  BY <1>1, <1>2, <1>3, OthersNoError, NoNewErrorKeeps

(* Jobs, their rescuers and retries together tell the client of at most    *)
(* one failure, whether it still listens or not.                           *)
THEOREM ErrorsOnce == Spec => []OneErrorEvent
<1>1. Init => ErrorsDecided
  BY DEF Init, ErrorsDecided, Errors
<1>2. ErrorsDecided => OneErrorEvent
  BY DEF ErrorsDecided, OneErrorEvent, Errors
<1> QED
  BY InitType, NextType, <1>1, NextErrors, <1>2, PTL DEF Spec

-----------------------------------------------------------------------------
(* What is over stays over: of all the writers of the store, only Wipe     *)
(* still changes the checkpoint or the results of a turn that has ended.   *)

OnlyWipes ==
    terminal # "none" =>
        /\ ctx' \in {ctx, 0}
        /\ \A t \in Tool : results'[t] \in {results[t], "none"}

LEMMA NextOnlyWipes == TypeInv /\ [Next]_vars => OnlyWipes
<1> SUFFICES ASSUME TypeInv, [Next]_vars PROVE OnlyWipes
  OBVIOUS
<1> USE DEF OnlyWipes, store
<1>1. CASE Submit \/ RequestCancel \/ CancelStep
  BY <1>1 DEF Submit, RequestCancel, CancelStep, MarkCancelled, MarkTerminal, StopJobs
<1>2. ASSUME NEW p \in Jobs, JobStep(p) PROVE OnlyWipes
  <2>1. CASE Save(p)
    BY <2>1 DEF Save, SaveAccepted
  <2>2. CASE MatchCheckpoint(p) \/ Claim(p) \/ ReadResults(p) \/ EngineReturns(p)
    BY <2>2 DEF MatchCheckpoint, Claim, ClaimAction, ReadResults, EngineReturns
  <2>3. CASE RevokeRefused(p) \/ Reload(p) \/ ArmTimers(p) \/ Complete(p)
    BY <2>3 DEF RevokeRefused, Reload, ArmTimers, Complete, MarkTerminal
  <2> QED
    BY <1>2, <2>1, <2>2, <2>3 DEF JobStep
<1>3. ASSUME NEW p \in Proc, ReadyStep(p) \/ SendRaises(p) PROVE OnlyWipes
  BY <1>3 DEF ReadyStep, SendRaises, Peek, Check, Take, ClaimResume, Send, GiveBack,
     ReleaseResume
<1>4. ASSUME NEW p \in Proc, EndStep(p) PROVE OnlyWipes
  <2>1. CASE Wipe(p)
    BY <2>1 DEF Wipe, Cleanup
  <2>2. CASE Close(p) \/ MarkFailed(p) \/ PublishError(p) \/ Unwind(p) \/ Revoke(p)
    BY <2>2 DEF Close, MarkFailed, MarkTerminal, PublishError, Unwind, Revoke
  <2> QED
    BY <1>4, <2>1, <2>2 DEF EndStep
<1>5. ASSUME NEW p \in Callbacks, CallbackStep(p) PROVE OnlyWipes
  BY <1>5 DEF CallbackStep, Lookup, Record, RecordResult, Disarm
<1>6. ASSUME NEW p \in Proc, EngineRaises(p) \/ AbortJob(p) \/ Crash(p) PROVE OnlyWipes
  BY <1>6 DEF EngineRaises, AbortJob, Crash
<1>7. ASSUME NEW p \in Jobs, NEW t \in Tool, DispatchTool(p, t) PROVE OnlyWipes
  BY <1>7 DEF DispatchTool
<1>8. ASSUME NEW j \in 0..Rounds, RecoverJob(j) PROVE OnlyWipes
  BY <1>8 DEF RecoverJob
<1>9. ASSUME NEW t \in Tool, ToolAnswers(t) \/ TimerStep(t)
      PROVE  OnlyWipes
  BY <1>9 DEF ToolAnswers, TimerStep, TimerFires, TimerAborted
<1>10. CASE UNCHANGED vars
  BY <1>10 DEF vars
<1>11. \A p \in Jobs \cup Callbacks : p \in Proc
  BY JobIds, ProcKinds
<1> QED
  BY <1>1, <1>2, <1>3, <1>4, <1>5, <1>6, <1>7, <1>8, <1>9, <1>10, <1>11 DEF Next, ProcStep

(* No job still pausing, no duplicate and no retry brings the checkpoint   *)
(* of a cleaned-up turn back.                                              *)
THEOREM StaysCleanedUp == Spec => NoResurrection
<1>1. TypeInv /\ [Next]_vars => [terminal # "none" /\ ctx = 0 => ctx' = 0]_vars
  BY NextOnlyWipes DEF OnlyWipes
<1> QED
  BY InitType, NextType, <1>1, PTL DEF Spec, NoResurrection

(* No late answer or timeout writes a result for a turn that has ended.    *)
THEOREM NoResultAfterEnd == Spec => NoLateResult
<1>1. TypeInv /\ [Next]_vars =>
        [terminal # "none" =>
            \A t \in Tool : results'[t] \in {results[t], "none"}]_vars
  BY NextOnlyWipes DEF OnlyWipes
<1> QED
  BY InitType, NextType, <1>1, PTL DEF Spec, NoLateResult

=============================================================================
