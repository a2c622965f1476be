---------------------------- MODULE ResumableChat ----------------------------
(***************************************************************************)
(* One chat execution of the resumable runtime, as it runs with            *)
(* scheduler.chat.mode = arq and scheduler.tools.mode = celery: the only   *)
(* configuration in which a turn can pause (Settings refuses celery tools  *)
(* with a local chat scheduler, and local tools never answer "pending").   *)
(*                                                                         *)
(* A turn is a chain of ARQ jobs.  Job 0 is "<id>:start"; job c is         *)
(* "<id>:resume:<checkpoint c>".  A job runs the engine; the engine either *)
(* completes, or dispatches tools to Celery and pauses, and then the job   *)
(* saves checkpoint j + 1, arms one timeout per tool and looks whether it  *)
(* can be resumed at once.  A tool's answer, or its timeout, arrives as a  *)
(* "<id>:tool-result:<tool>" job that records it and looks again.          *)
(*                                                                         *)
(* Every coroutine is a process p with a program counter pc[p]; a step is  *)
(* one round trip to Redis, so everything else may happen between a read   *)
(* and the write that relies on it.                                        *)
(***************************************************************************)
EXTENDS Naturals, FiniteSets

CONSTANTS
    Tool,           \* tool call ids; the engine never reuses one
    Rounds,         \* bound: how many times the engine may pause the turn
    Disturbances    \* what may go wrong, or what the client may do

ASSUME RoundsAssumption == Rounds \in Nat
ASSUME DisturbancesAssumption ==
    Disturbances \subseteq {"cancel", "engine_error", "arm_error", "send_error",
                            "crash_job", "crash_callback", "stall"}

VARIABLES
    ctx,        \* the stored checkpoint, 0 when there is none
    results,    \* tool -> what the results hash holds for it
    resumed,    \* the "resumed" key: this checkpoint's resume is claimed
    actions,    \* jobs whose action ("start", "resume:c") is claimed
    terminal,   \* the terminal status, "none" before there is one
    pc,         \* process -> the next operation of its coroutine
    seen,       \* process -> the checkpoint it has loaded, 0 for none
    fed,        \* job -> tools whose results its engine run was given
    by,         \* tool -> the job whose engine run dispatched it
    tool,       \* tool -> what its Celery task is doing
    timer,      \* tool -> its deferred "tool-timeout" job
    aborts,     \* ARQ jobs an abort was requested for
    heard,      \* what a client listening from the start has received
    saved,      \* history: jobs whose checkpoint was accepted
    swept       \* history: somebody else's clean-up took the checkpoint that
                \* cancel() was about to load

store == <<ctx, results, resumed, actions, terminal>>
vars == <<ctx, results, resumed, actions, terminal, pc, seen, fed, by, tool,
          timer, aborts, heard, saved, swept>>
history == <<saved, swept>>

-----------------------------------------------------------------------------
(* Processes. *)

NoJob == Rounds + 1

Job(j) == <<"job", j>>
Rescue(j) == <<"rescue", j>>
Timer(t) == <<"timer", t>>
Client == <<"client", 0>>

Jobs == {"job"} \X (0..Rounds)
Callbacks == {"result", "timeout"} \X Tool  \* tool-result jobs, by payload
Rescues == {"rescue"} \X (0..Rounds)        \* fail_abandoned for a job
Timers == {"timer"} \X Tool
Proc == Jobs \cup Callbacks \cup Rescues \cup {Client}

Status == {"none", "completed", "failed", "cancelled"}

Rest == {"idle", "done", "failed", "aborted", "crashed"}
\* The labels inside the try block of start() and _resume().
Guarded == {"read", "engine", "save", "refused", "reload", "arm", "peek",
            "check", "take", "send", "give_back", "complete", "wipe", "close"}
Unguarded == {"queued", "claim", "fail", "error", "fail_wipe",
              "fail_close", "unwind", "revoke"}
CallbackOnly == {"record", "disarm"}
ClientOnly == {"mark", "stop_jobs"}
Label == Rest \cup Guarded \cup Unguarded \cup CallbackOnly \cup ClientOnly

(* The pending_async_tools of checkpoint c: what job c - 1 dispatched.     *)
Pending(c) == {t \in Tool : by[t] + 1 = c}
\* Mutant: one answer is enough.
AnyAnswered(c) == \E t \in Pending(c) : results[t] # "none"
Answered(c) == \A t \in Pending(c) : results[t] # "none"

-----------------------------------------------------------------------------
(* Moving a process; one that comes to rest forgets what it has loaded.    *)

Goto(p, l) == pc' = [pc EXCEPT ![p] = l]
Stay == UNCHANGED <<seen, fed, by, tool, timer, aborts, heard, history>>
Leave(p, l) ==
    /\ Goto(p, l)
    /\ seen' = [seen EXCEPT ![p] = 0]
    /\ UNCHANGED <<fed, by, tool, timer, aborts, heard, history>>
Load(p) == seen' = [seen EXCEPT ![p] = ctx]

(* enqueue_job with a job id: refused when the id was ever used.           *)
Enqueue(q) == [pc EXCEPT ![q] = IF @ = "idle" THEN "queued" ELSE @]

(* cancel_task for some tools: revoke(terminate=True), called in a thread  *)
(* of its own whose outcome nobody looks at.  The tool may be killed, or   *)
(* answer first, or never hear of it.                                      *)
Revoked(ts) ==
    [t \in Tool |-> IF t \in ts /\ tool[t] = "running"
                    THEN "revoked" ELSE tool[t]]

-----------------------------------------------------------------------------
(* RedisChatCheckpointStore: each operation is one atomic command.         *)

\* Mutant: a save ignores that the turn is over.
SaveAlways == TRUE
SaveAccepted == terminal = "none"

\* Mutants: the pause is counted twice; the claim is kept.
SaveCountingTwice(c) ==
    /\ ctx' = ctx + c
    /\ resumed' = FALSE
    /\ UNCHANGED <<results, actions, terminal>>
SaveKeepingClaim(c) ==
    /\ ctx' = c
    /\ UNCHANGED <<results, resumed, actions, terminal>>
SaveCheckpoint(c) ==
    /\ ctx' = c
    /\ resumed' = FALSE
    /\ UNCHANGED <<results, actions, terminal>>

\* Mutant: a result is recorded though the turn is over.
RecordAfterEnd(t, r) ==
    /\ results' = IF results[t] = "none" THEN [results EXCEPT ![t] = r] ELSE results
    /\ UNCHANGED <<ctx, resumed, actions, terminal>>
RecordResult(t, r) ==
    /\ results' = IF terminal = "none" /\ results[t] = "none"
                  THEN [results EXCEPT ![t] = r]
                  ELSE results
    /\ UNCHANGED <<ctx, resumed, actions, terminal>>

ClaimResume ==
    /\ ~resumed
    /\ resumed' = TRUE
    /\ UNCHANGED <<ctx, results, actions, terminal>>

ClaimAction(p) ==
    /\ p \notin actions
    /\ actions' = actions \cup {p}
    /\ UNCHANGED <<ctx, results, resumed, terminal>>

MarkTerminal(status) ==
    /\ terminal' = IF terminal = "none" THEN status ELSE terminal
    /\ UNCHANGED <<ctx, results, resumed, actions>>

ReleaseResume ==
    /\ resumed' = FALSE
    /\ UNCHANGED <<ctx, results, actions, terminal>>

\* Mutant: the results key is left to expire.
CleanupKeepingResults ==
    /\ ctx' = 0
    /\ resumed' = FALSE
    /\ UNCHANGED <<results, actions, terminal>>
Cleanup ==
    /\ ctx' = 0
    /\ results' = [t \in Tool |-> "none"]
    /\ resumed' = FALSE
    /\ UNCHANGED <<actions, terminal>>

-----------------------------------------------------------------------------
(* Starting a turn and running a job up to its engine.                     *)

(* submit(): listen, then enqueue the start job.                           *)
Submit ==
    /\ pc[Job(0)] = "idle"
    /\ pc' = Enqueue(Job(0))
    /\ UNCHANGED store /\ Stay

(* resume(), as its worker starts it: another checkpoint, or none, ends    *)
(* the job silently.                                                       *)
MatchCheckpoint(p) ==
    /\ pc[p] = "queued" /\ p # Job(0)
    /\ IF p = Job(ctx) THEN /\ Goto(p, "claim")
                            /\ Load(p)
                            /\ UNCHANGED <<fed, by, tool, timer, aborts, heard, history>>
                       ELSE Leave(p, "done")
    /\ UNCHANGED store

(* claim_action: the first thing start() does, the second of resume().     *)
Claim(p) ==
    /\ pc[p] = IF p = Job(0) THEN "queued" ELSE "claim"
    /\ \/ /\ ClaimAction(p)
          /\ Goto(p, IF p = Job(0) THEN "engine" ELSE "read")
          /\ Stay
       \/ /\ p \in actions
          /\ Leave(p, "done")
          /\ UNCHANGED store

(* _resume(): get_results, read long after the results were checked.       *)
ReadResults(p) ==
    /\ pc[p] = "read"
    /\ fed' = [fed EXCEPT ![p] = {t \in Pending(seen[p]) : results[t] # "none"}]
    /\ Goto(p, "engine")
    /\ UNCHANGED <<seen, by, tool, timer, aborts, heard, history>>
    /\ UNCHANGED store

-----------------------------------------------------------------------------
(* The engine.  A tool is handed to Celery while the model still streams,  *)
(* so its answer may be here before the checkpoint that expects it.        *)

DispatchTool(p, t) ==
    /\ pc[p] = "engine" /\ p # Job(Rounds)
    /\ by[t] = NoJob
    /\ by' = [by EXCEPT ![t] = p[2]]
    /\ tool' = [tool EXCEPT ![t] = "running"]
    /\ UNCHANGED <<pc, seen, fed, timer, aborts, heard, history>>
    /\ UNCHANGED store

(* execute()/resume() returns WAITING or COMPLETED, the channel is closed. *)
EngineReturns(p) ==
    /\ pc[p] = "engine"
    /\ Goto(p, IF Pending(p[2] + 1) # {} THEN "save" ELSE "complete")
    /\ UNCHANGED store /\ Stay

EngineRaises(p) ==
    /\ "engine_error" \in Disturbances
    /\ pc[p] = "engine"
    /\ Goto(p, "fail")
    /\ UNCHANGED store /\ Stay

-----------------------------------------------------------------------------
(* _handle_state.                                                          *)

\* Mutant: the checkpoint is saved while the engine still streams.
SaveWhileStreaming(p) ==
    /\ pc[p] \in {"engine", "save"} /\ Pending(p[2] + 1) # {}
    /\ IF SaveAccepted THEN SaveCheckpoint(p[2] + 1) ELSE UNCHANGED store
    /\ IF pc[p] = "engine" THEN UNCHANGED pc ELSE Goto(p, "reload")
    /\ Stay
Save(p) ==
    /\ pc[p] = "save"
    /\ IF SaveAccepted
       THEN SaveCheckpoint(p[2] + 1) /\ Goto(p, "reload") /\ saved' = saved \cup {p[2]}
       ELSE UNCHANGED <<store, saved>> /\ Goto(p, "refused")
    /\ UNCHANGED <<seen, fed, by, tool, timer, aborts, heard, swept>>

\* Mutant: a refused checkpoint is dropped, its tools run on.
KeepRefused(p) ==
    /\ pc[p] = "refused"
    /\ Leave(p, "done")
    /\ UNCHANGED store

(* The execution is over: the tools of the refused checkpoint are revoked. *)
RevokeRefused(p) ==
    /\ pc[p] = "refused"
    /\ tool' = Revoked(Pending(p[2] + 1))
    /\ Goto(p, "done")
    /\ seen' = [seen EXCEPT ![p] = 0]
    /\ UNCHANGED <<fed, by, timer, aborts, heard, history>>
    /\ UNCHANGED store

(* "assert checkpoint is not None": a cleanup in between fails the job.    *)
Reload(p) ==
    /\ pc[p] = "reload"
    /\ Load(p)
    /\ Goto(p, IF ctx = 0 THEN "fail" ELSE "arm")
    /\ UNCHANGED <<fed, by, tool, timer, aborts, heard, history>>
    /\ UNCHANGED store

(* tool_timeout for every pending tool; the gather may raise halfway.      *)
ArmTimers(p) ==
    /\ pc[p] = "arm"
    /\ \E armed \in SUBSET Pending(seen[p]) :
        /\ \/ armed = Pending(seen[p]) /\ Goto(p, "peek")
           \/ "arm_error" \in Disturbances /\ Goto(p, "fail")
        /\ timer' = [t \in Tool |-> IF t \in armed /\ timer[t] = "none"
                                    THEN "set" ELSE timer[t]]
    /\ UNCHANGED <<seen, fed, by, tool, aborts, heard, history>>
    /\ UNCHANGED store

Complete(p) ==
    /\ pc[p] = "complete"
    /\ MarkTerminal("completed")
    /\ Goto(p, "wipe")
    /\ Stay

(* cleanup(), on the normal path and after a failure.                      *)
Wipe(p) ==
    /\ pc[p] \in {"wipe", "fail_wipe"}
    /\ Cleanup
    /\ Goto(p, IF pc[p] = "wipe" THEN "close" ELSE "fail_close")
    /\ swept' = (swept \/ (p # Client /\ pc[Client] = "unwind" /\ ctx # 0))
    /\ UNCHANGED <<seen, fed, by, tool, timer, aborts, heard, saved>>

(* events.finish(): the listener stops at the first FINISHED.              *)
Close(p) ==
    /\ pc[p] \in {"close", "fail_close"}
    /\ heard' = [heard EXCEPT !.ended = TRUE]
    /\ Goto(p, IF pc[p] = "fail_close" /\ p \in Jobs THEN "failed" ELSE "done")
    /\ seen' = [seen EXCEPT ![p] = 0]
    /\ UNCHANGED <<fed, by, tool, timer, aborts, history>>
    /\ UNCHANGED store

-----------------------------------------------------------------------------
(* _resume_if_ready, run by jobs and by callbacks.                         *)

Peek(p) ==
    /\ pc[p] = "peek"
    /\ IF ctx = 0 THEN Leave(p, "done")
                  ELSE /\ Load(p) /\ Goto(p, "check")
                       /\ UNCHANGED <<fed, by, tool, timer, aborts, heard, history>>
    /\ UNCHANGED store

\* Mutant: the answers are not looked at.
CheckPendingOnly(p) ==
    /\ pc[p] = "check"
    /\ IF Pending(seen[p]) # {} THEN Goto(p, "take") /\ Stay ELSE Leave(p, "done")
    /\ UNCHANGED store
Check(p) ==
    /\ pc[p] = "check"
    /\ IF Pending(seen[p]) # {} /\ Answered(seen[p])
       THEN Goto(p, "take") /\ Stay
       ELSE Leave(p, "done")
    /\ UNCHANGED store

(* The claim names no checkpoint: nothing ties it to the one loaded.       *)
Take(p) ==
    /\ pc[p] = "take"
    /\ \/ ClaimResume /\ Goto(p, "send") /\ Stay
       \/ resumed /\ Leave(p, "done") /\ UNCHANGED store

Send(p) ==
    /\ pc[p] = "send"
    /\ pc' = [Enqueue(Job(seen[p])) EXCEPT ![p] = "done"]
    /\ seen' = [seen EXCEPT ![p] = 0]
    /\ UNCHANGED <<fed, by, tool, timer, aborts, heard, history>>
    /\ UNCHANGED store

SendRaises(p) ==
    /\ "send_error" \in Disturbances
    /\ pc[p] = "send"
    /\ Goto(p, "give_back")
    /\ UNCHANGED store /\ Stay

GiveBack(p) ==
    /\ pc[p] = "give_back"
    /\ ReleaseResume
    /\ IF p \in Jobs THEN Goto(p, "fail") /\ Stay ELSE Leave(p, "failed")

-----------------------------------------------------------------------------
(* _fail, _cancel_pending_tools and fail_abandoned.                        *)

\* Mutants: the error is published whoever ended the turn; whoever finds it
\* already over leaves the rest to the one that ended it.
MarkFailedAlways(p) ==
    /\ pc[p] = "fail"
    /\ MarkTerminal("failed")
    /\ Goto(p, "error")
    /\ Stay
MarkFailedFirst(p) ==
    /\ pc[p] = "fail"
    /\ MarkTerminal("failed")
    /\ IF terminal = "none" THEN Goto(p, "error") /\ Stay ELSE Leave(p, "failed")

MarkFailed(p) ==
    /\ pc[p] = "fail"
    /\ MarkTerminal("failed")
    /\ Goto(p, IF terminal = "none" THEN "error" ELSE "fail_wipe")
    /\ Stay

PublishError(p) ==
    /\ pc[p] = "error"
    /\ heard' = IF heard.ended THEN [heard EXCEPT !.late = @ + 1]
                               ELSE [heard EXCEPT !.errors = @ + 1]
    /\ Goto(p, "fail_wipe")
    /\ UNCHANGED <<seen, fed, by, tool, timer, aborts, history>>
    /\ UNCHANGED store

AfterRevoke(p) ==
    CASE p \in Rescues -> "fail" [] p = Client -> "stop_jobs" [] OTHER -> "aborted"

(* Load the checkpoint whose pending tools are to be revoked.              *)
Unwind(p) ==
    /\ pc[p] = "unwind"
    /\ Load(p)
    /\ Goto(p, IF ctx = 0 THEN AfterRevoke(p) ELSE "revoke")
    /\ UNCHANGED <<fed, by, tool, timer, aborts, heard, history>>
    /\ UNCHANGED store

Revoke(p) ==
    /\ pc[p] = "revoke"
    /\ tool' = Revoked(Pending(seen[p]))
    /\ Goto(p, AfterRevoke(p))
    /\ UNCHANGED <<seen, fed, by, timer, aborts, heard, history>>
    /\ UNCHANGED store

-----------------------------------------------------------------------------
(* cancel().                                                               *)

RequestCancel ==
    /\ "cancel" \in Disturbances
    /\ pc[Client] = "idle" /\ pc[Job(0)] # "idle"
    /\ Goto(Client, "mark")
    /\ UNCHANGED store /\ Stay

MarkCancelled ==
    /\ pc[Client] = "mark"
    /\ MarkTerminal("cancelled")
    /\ Goto(Client, "unwind")
    /\ Stay

(* abort_chat_job: the start job, and what belongs to the loaded           *)
(* checkpoint.  The aborts are spawned in the background, unconfirmed.     *)
StopJobs ==
    /\ pc[Client] = "stop_jobs"
    /\ LET c == seen[Client] IN
       aborts' = aborts \cup {Job(0)} \cup
           IF c = 0 THEN {}
           ELSE {Job(c)} \cup ({"timer", "result", "timeout"} \X Pending(c))
    /\ Goto(Client, "wipe")
    /\ UNCHANGED <<seen, fed, by, tool, timer, heard, history>>
    /\ UNCHANGED store

(* CancelledError in the job's coroutine: a worker acts on the request.    *)
(* ARQ does not retry such a job, nor does it count as abandoned.          *)
AbortJob(p) ==
    /\ p \in aborts /\ pc[p] \notin Rest
    /\ IF p \in Jobs /\ pc[p] \in Guarded THEN Goto(p, "unwind") /\ Stay
                                          ELSE Leave(p, "aborted")
    /\ UNCHANGED store

-----------------------------------------------------------------------------
(* Tools, their timeouts and their callbacks.                              *)

(* The tool's hook enqueues the tool-result job, unless its id was used    *)
(* by the timeout.                                                         *)
ToolAnswers(t) ==
    /\ tool[t] \in {"running", "revoked"}
    /\ tool' = [tool EXCEPT ![t] = "finished"]
    /\ pc' = IF pc[<<"timeout", t>>] = "idle"
             THEN Enqueue(<<"result", t>>) ELSE pc
    /\ UNCHANGED <<seen, fed, by, timer, aborts, heard, history>>
    /\ UNCHANGED store

(* timeout_tool_job: the same job id as the answer, and only when it was    *)
(* accepted the tool is revoked.  That second await is lost when the job   *)
(* is aborted in between, by the very callback it has just enqueued.       *)
TimerFires(t) ==
    /\ timer[t] = "set"
    /\ timer' = [timer EXCEPT ![t] = "over"]
    /\ IF pc[<<"result", t>>] = "idle"
       THEN pc' = Enqueue(<<"timeout", t>>) /\ tool' \in {Revoked({t}), tool}
       ELSE UNCHANGED <<pc, tool>>
    /\ UNCHANGED <<seen, fed, by, aborts, heard, history>>
    /\ UNCHANGED store

TimerAborted(t) ==
    /\ timer[t] = "set" /\ Timer(t) \in aborts
    /\ timer' = [timer EXCEPT ![t] = "over"]
    /\ UNCHANGED <<pc, seen, fed, by, tool, aborts, heard, history>>
    /\ UNCHANGED store

(* callback(): load, record, and when the tool is pending in the loaded    *)
(* checkpoint and recorded (by whomever) request its timeout's abort.      *)
Lookup(p) ==
    /\ pc[p] = "queued"
    /\ Load(p)
    /\ Goto(p, "record")
    /\ UNCHANGED <<fed, by, tool, timer, aborts, heard, history>>
    /\ UNCHANGED store

Record(p) ==
    /\ pc[p] = "record"
    /\ RecordResult(p[2], p[1])
    /\ Goto(p, "disarm")
    /\ Stay

Disarm(p) ==
    /\ pc[p] = "disarm"
    /\ aborts' = IF p[2] \in Pending(seen[p]) /\ results[p[2]] # "none"
                 THEN aborts \cup {Timer(p[2])} ELSE aborts
    /\ Goto(p, "peek")
    /\ UNCHANGED <<seen, fed, by, tool, timer, heard, history>>
    /\ UNCHANGED store

-----------------------------------------------------------------------------
(* Workers that die, or that stop renewing their lease but keep running.   *)

Crash(p) ==
    /\ \/ "crash_job" \in Disturbances /\ p \in Jobs
       \/ "crash_callback" \in Disturbances /\ p \in Callbacks
    /\ pc[p] \notin Rest
    /\ Leave(p, "crashed")
    /\ UNCHANGED store

(* Another worker takes the lock over; max_tries = 1 makes the second try  *)
(* fail with "retries exceeded", and fail_abandoned runs for chat jobs.    *)
RecoverJob(j) ==
    /\ pc[Rescue(j)] = "idle"
    /\ \/ pc[Job(j)] = "crashed"
       \/ "stall" \in Disturbances /\ pc[Job(j)] \notin Rest
    /\ Goto(Rescue(j), "unwind")
    /\ UNCHANGED store /\ Stay

-----------------------------------------------------------------------------
Init ==
    /\ ctx = 0
    /\ results = [t \in Tool |-> "none"]
    /\ resumed = FALSE
    /\ actions = {}
    /\ terminal = "none"
    /\ pc = [p \in Proc |-> "idle"]
    /\ seen = [p \in Proc |-> 0]
    /\ fed = [p \in Jobs |-> {}]
    /\ by = [t \in Tool |-> NoJob]
    /\ tool = [t \in Tool |-> "unused"]
    /\ timer = [t \in Tool |-> "none"]
    /\ aborts = {}
    /\ heard = [errors |-> 0, ended |-> FALSE, late |-> 0]
    /\ saved = {} /\ swept = FALSE

(* What process p does by itself once it runs.                             *)
JobStep(p) ==
    \/ MatchCheckpoint(p) \/ Claim(p) \/ ReadResults(p)
    \/ EngineReturns(p) \/ Save(p) \/ RevokeRefused(p) \/ Reload(p)
    \/ ArmTimers(p) \/ Complete(p)
ReadyStep(p) == Peek(p) \/ Check(p) \/ Take(p) \/ Send(p) \/ GiveBack(p)
EndStep(p) ==
    Wipe(p) \/ Close(p) \/ MarkFailed(p) \/ PublishError(p) \/ Unwind(p) \/ Revoke(p)
CallbackStep(p) == Lookup(p) \/ Record(p) \/ Disarm(p)

ProcStep(p) ==
    \/ p \in Jobs /\ JobStep(p)
    \/ p \in Callbacks /\ CallbackStep(p)
    \/ ReadyStep(p)
    \/ EndStep(p)
CancelStep == MarkCancelled \/ StopJobs
TimerStep(t) == TimerFires(t) \/ TimerAborted(t)

Next ==
    \/ Submit
    \/ RequestCancel
    \/ CancelStep
    \/ \E p \in Proc : ProcStep(p) \/ SendRaises(p)
    \/ \E p \in Jobs : EngineRaises(p) \/ \E t \in Tool : DispatchTool(p, t)
    \/ \E p \in Jobs \cup Callbacks : AbortJob(p) \/ Crash(p)
    \/ \E j \in 0..Rounds : RecoverJob(j)
    \/ \E t \in Tool : ToolAnswers(t) \/ TimerStep(t)

Spec == Init /\ [][Next]_vars

(* Coroutines and workers make progress, deferred jobs come due, dead      *)
(* workers are noticed.  A tool need not answer, an abort need not be in   *)
(* time, and nothing has to go wrong.  No step can be taken for ever, so   *)
(* it is enough that these together always move on.                        *)
FairStep ==
    \/ CancelStep
    \/ \E p \in Proc : ProcStep(p)
    \/ \E t \in Tool : TimerStep(t)
    \/ \E j \in 0..Rounds : pc[Job(j)] = "crashed" /\ RecoverJob(j)

FairSpec == Spec /\ WF_vars(FairStep)

-----------------------------------------------------------------------------
(* Every variable holds what the code can put there: program counters name *)
(* an operation, loaded checkpoints exist, results are a tool's or a       *)
(* timeout's.                                                              *)
TypeOK ==
    /\ ctx \in 0..Rounds
    /\ results \in [Tool -> {"none", "result", "timeout"}]
    /\ resumed \in BOOLEAN
    /\ actions \subseteq Jobs
    /\ terminal \in Status
    /\ pc \in [Proc -> Label]
    /\ seen \in [Proc -> 0..Rounds]
    /\ fed \in [Jobs -> SUBSET Tool]
    /\ by \in [Tool -> 0..NoJob]
    /\ tool \in [Tool -> {"unused", "running", "finished", "revoked"}]
    /\ timer \in [Tool -> {"none", "set", "over"}]
    /\ aborts \subseteq Jobs \cup Callbacks \cup Timers
    /\ heard \in [errors : Nat, ended : BOOLEAN, late : Nat]
    /\ saved \subseteq 0..Rounds /\ swept \in BOOLEAN

(* At most one engine run of a turn is active: no two jobs stream into the *)
(* same reply, whatever is retried, abandoned or delivered twice.          *)
Running(p) == pc[p] \in {"read", "engine"}
SingleEngine == \A p, q \in Jobs : Running(p) /\ Running(q) => p = q

(* The engine is resumed with a result for every tool it waits for, though *)
(* they are read again (get_results in _resume) long after the check that  *)
(* enqueued the job; only a turn that is already over may miss some.       *)
ResumedWithAllResults ==
    \A c \in 1..Rounds :
        pc[Job(c)] = "engine" =>
            Pending(c) \subseteq fed[Job(c)] \/ terminal # "none"

(* A turn that is over and cleaned up stays so: neither a pausing job nor  *)
(* a late result writes to the store again.                                *)
NoResurrection ==
    [][terminal # "none" /\ ctx = 0 => ctx' = 0]_vars
NoLateResult ==
    [][terminal # "none" => \A t \in Tool : results'[t] \in {results[t], "none"}]_vars

(* One terminal error at most reaches the stream, though the dying job and *)
(* the worker that rescues it may both fail the turn.                      *)
OneErrorEvent == heard.errors + heard.late <= 1

(* Once every coroutine is at rest a finished turn has left nothing in the *)
(* store and has closed its stream.                                        *)
AtRest == \A p \in Proc : pc[p] \in Rest \ {"crashed"}
NothingLeftBehind ==
    AtRest /\ terminal # "none" =>
        ctx = 0 /\ (\A t \in Tool : results[t] = "none") /\ heard.ended

(* After a cancel every tool that has not answered was asked to stop: by   *)
(* cancel() if a checkpoint named the tool, by the pausing job if the      *)
(* checkpoint was refused; or the tool's timeout is still to come, or has  *)
(* come and done what it could.  There are two exceptions.  Of tools that  *)
(* no stored checkpoint names only their job knows: nobody asks them while *)
(* it is still at work, or if its engine raised, or if it dies or cancel() *)
(* aborts it before it has asked.  And another party that fails the same   *)
(* turn may sweep the checkpoint away before cancel() has loaded it, for   *)
(* example the pausing job when it could not arm the timeouts.             *)
CancelStopsTools ==
    terminal = "cancelled" /\ pc[Client] = "done" =>
        \A t \in Tool : tool[t] = "running" =>
            \/ timer[t] = "set" /\ Timer(t) \notin aborts
            \/ pc[<<"timeout", t>>] # "idle"
            \/ by[t] \notin saved /\ pc[Job(by[t])] # "done"
            \/ swept

-----------------------------------------------------------------------------
(* The turn as its client may think of it.                                 *)
Before == {"idle", "queued", "claim", "read"}

phase ==
    CASE terminal # "none" -> "over"
      [] terminal = "none" /\ ctx = 0 ->
            IF pc[Job(0)] \in Before THEN "new" ELSE "running"
      [] OTHER ->
            IF pc[Job(ctx)] \in Before THEN "paused" ELSE "running"

Turn == INSTANCE ChatTurn WITH
    pause <- IF terminal = "none" THEN ctx ELSE 0,
    asked <- IF terminal = "none" THEN {t \in Tool : by[t] < ctx} ELSE {},
    answered <- IF terminal = "none"
                THEN {t \in Tool : results[t] # "none"} ELSE {}

(* Every run of the jobs, callbacks, timeouts and workers is a turn: it    *)
(* starts once, each pause ends only with all its answers, over is over.   *)
ImplementsTurn == Turn!Spec

-----------------------------------------------------------------------------
(* Liveness.                                                               *)

(* A resume was claimed on the strength of a checkpoint that is no longer  *)
(* the stored one: the claim of the new checkpoint is spent on the old.    *)
StaleClaim == \E p \in Proc : pc[p] = "send" /\ seen[p] # ctx

(* A submitted turn comes to an end, tools answering or not, unless a      *)
(* claim is spent on an old checkpoint: nothing else can lose the wake-up. *)
TurnEndsUnlessClaimIsStale ==
    [](~StaleClaim) => (pc[Job(0)] # "idle" ~> terminal # "none")

(* The stream of a turn that is over is closed, also when the worker dies  *)
(* between mark_terminal and finish.                                       *)
StreamEnds == terminal # "none" ~> heard.ended

(* A pause whose tools have all answered is resumed (or the turn is over). *)
AnsweredPauseResumes ==
    \A c \in 1..Rounds :
        ctx = c /\ Answered(c) ~> pc[Job(c)] # "idle" \/ terminal # "none"

(* No pause outlasts the callback timeout of its tools.                    *)
PauseEnds ==
    \A c \in 1..Rounds : ctx = c ~> pc[Job(c)] # "idle" \/ terminal # "none"

=============================================================================
