--------------------------- MODULE StreamProcessing ---------------------------
(***************************************************************************)
(* The life of one client-facing stream kept in Redis: the processor task  *)
(* that writes what the engine yields (StreamProcessor), the writer task   *)
(* it batches events with, the calls that cancel and delete the stream     *)
(* (TaskManager, StreamManager), and one observer (StreamReader, direct    *)
(* path).                                                                  *)
(*                                                                         *)
(* A stream is two Redis keys, a hash with its status and a log with its   *)
(* events.  Every await of the processor is a value of proc, so that a     *)
(* cancellation may arrive at each of them.  Calls are "local" when they   *)
(* run in the instance that owns the task and "remote" otherwise: Redis is *)
(* shared between instances, the TaskManager is not.                       *)
(***************************************************************************)
EXTENDS Naturals, Sequences, FiniteSets, SequencesExt

CONSTANTS
    Events,     \* bound: the engine yields 1..Events; 1 opens the message,
                \* Events is its message_stop
    Faults,     \* bound: how many calls a behaviour has, together with the
                \* writes to Redis that fail or are repeated
    MaxLen,     \* max_stream_length: what a trimmed log keeps at least
    Caller,     \* the cancel and delete calls of a behaviour
    Remote,     \* the calls that may run in another instance
    Error,      \* the payload of event_handler.error_event
    None        \* a status no reader has seen

ASSUME EventsAssumption == Events \in Nat /\ Events >= 2 /\ Faults \in Nat
ASSUME MaxLenAssumption == MaxLen \in Nat \ {0}
ASSUME RemoteAssumption == Remote \subseteq Caller
ASSUME ErrorAssumption == Error \notin Nat

VARIABLES
    hash,       \* the status in the stream's hash, "none" if there is no hash
    whole,      \* the hash has the fields create_stream writes
    log,        \* every entry ever added to the Redis stream
    trimmed,    \* how many of them, the oldest, were trimmed away
    gone,       \* the stream was deleted
    proc,       \* where the processor task is
    cause,      \* why it stops: "none", "cancelled", "error", "unreported"
    struck,     \* task.cancel() was called and not yet delivered
    next,       \* how many events the engine has yielded
    halted,     \* the engine was cancelled by a call
    marked,     \* is_processing
    pending,    \* events no batch has taken yet
    writer,     \* the writer task
    inflight,   \* the batch it is pushing
    calls,      \* the cancel and delete calls
    failures,   \* how many writes have failed or were repeated
    obs,        \* where the observer is
    pos,        \* how many entries of the log it has read and yielded
    seen,       \* the terminal status it stopped at
    missed      \* history: entries were trimmed before it read them

stream == <<hash, whole, log, trimmed, gone>>
batching == <<pending, writer, inflight>>
engine == <<next, halted>>
observer == <<obs, pos, seen, missed>>
vars == <<hash, whole, log, trimmed, gone, proc, cause, struck, next, halted,
          marked, pending, writer, inflight, calls, failures, obs, pos, seen,
          missed>>

Terminal == {"completed", "cancelled", "error"}     \* TERMINAL_STATUSES
Status == {"pending", "processing"} \cup Terminal
Payload == 1..Events \cup {Error}
WriterLive == {"ready", "writing"}
Unstarted == {"absent", "created", "new"}
EngineRunning == Unstarted \cup {"pending", "loop", "flush", "mark"}
Disturbances == failures + Cardinality({c \in Caller : calls[c].pc # "idle"})
IdleCall == [pc |-> "idle", op |-> "cancel", waited |-> FALSE, success |-> FALSE]

(* update_stream_status: an unconditional HSET, it makes the hash anew if  *)
(* there is none, without the fields of create_stream.                     *)
SetStatus(status) ==
    /\ hash' = status
    /\ whole' = (whole /\ hash # "none")
    /\ UNCHANGED <<log, trimmed, gone>>

(* XADD with an approximate maxlen: entries at the beginning may go as     *)
(* long as MaxLen are left.                                                *)
Write(entries) ==
    /\ log' = log \o entries
    /\ trimmed' \in {trimmed} \cup
          {n \in trimmed..Len(log') : entries # <<>> /\ n + MaxLen <= Len(log')}
    /\ UNCHANGED <<hash, whole, gone>>

-----------------------------------------------------------------------------
(* create_and_start_stream.                                                *)

CreateStream ==
    /\ proc = "absent"
    /\ proc' = "created"
    /\ hash' = "pending" /\ whole' = TRUE
    /\ UNCHANGED <<log, trimmed, gone, cause, struck, engine, marked, batching, calls,
                   failures, observer>>

StartTask ==
    /\ proc = "created"
    /\ proc' = "new"
    /\ UNCHANGED <<stream, cause, struck, engine, marked, batching, calls,
                   failures, observer>>

-----------------------------------------------------------------------------
(* process_stream.  A task that was struck runs no further than the await  *)
(* it is at.                                                               *)

At(pc) == proc = pc /\ ~struck

ProcOnly == UNCHANGED <<struck, calls, observer>>

Begin ==
    /\ At("new")
    /\ proc' = "pending"
    /\ UNCHANGED <<stream, cause, engine, marked, batching, failures>> /\ ProcOnly

SetPending ==
    /\ At("pending")
    /\ SetStatus("pending")
    /\ proc' = "loop"
    /\ UNCHANGED <<cause, engine, marked, batching, failures>> /\ ProcOnly

(* An exception or a cancellation leaves the loop through its finally:     *)
(* a live writer is cancelled and awaited before the handler runs.         *)
Handler(why) == IF why = "cancelled" THEN "cancel" ELSE "report"

\* Mutant: the finally does not wait for the writer it cancels.
LeaveLoopAtOnce(why) ==
    /\ proc' = Handler(why)
    /\ cause' = why
LeaveLoop(why) ==
    /\ proc' = IF writer \in WriterLive THEN "unwind" ELSE Handler(why)
    /\ cause' = why

\* Mutant: a failed writer is replaced without a look at its result.
EnqueueAnyway(event) ==
    /\ pending' = Append(pending, event)
    /\ writer' = IF writer \in WriterLive THEN writer ELSE "ready"
    /\ proc' = "loop"
    /\ UNCHANGED <<cause, inflight>>

(* The event joins the pending ones and a writer is started when none is   *)
(* running; if the last one failed its exception surfaces here.            *)
Enqueue(event) ==
    /\ pending' = Append(pending, event)
    /\ IF writer = "failed"
       THEN LeaveLoop("error") /\ UNCHANGED writer
       ELSE /\ writer' = IF writer \in WriterLive THEN writer ELSE "ready"
            /\ proc' = "loop"
            /\ UNCHANGED cause
    /\ UNCHANGED inflight

\* Mutant: the status is set without waiting for the events before it.
YieldNoFlush ==
    /\ At("loop") /\ next < Events /\ ~halted
    /\ next' = next + 1
    /\ IF ~marked /\ next' > 1
       THEN proc' = "mark" /\ UNCHANGED <<cause, batching>>
       ELSE Enqueue(next')
    /\ UNCHANGED <<stream, halted, marked, failures>> /\ ProcOnly

(* The engine yields an event; the first one of a block makes the stream   *)
(* "processing", after the events before it are written.                   *)
Yield ==
    /\ At("loop") /\ next < Events /\ ~halted
    /\ next' = next + 1
    /\ IF ~marked /\ next' > 1
       THEN proc' = "flush" /\ UNCHANGED <<cause, batching>>
       ELSE Enqueue(next')
    /\ UNCHANGED <<stream, halted, marked, failures>> /\ ProcOnly

Flushed ==
    /\ At("flush") /\ writer \notin WriterLive
    /\ IF writer = "failed"
       THEN LeaveLoop("error")
       ELSE proc' = "mark" /\ UNCHANGED cause
    /\ UNCHANGED <<stream, engine, marked, batching, failures>> /\ ProcOnly

SetProcessing ==
    /\ At("mark")
    /\ SetStatus("processing")
    /\ marked' = TRUE
    /\ Enqueue(next)
    /\ UNCHANGED <<engine, failures>> /\ ProcOnly

(* The generator is exhausted, or raises.                                  *)
EngineEnds ==
    /\ At("loop") /\ (next = Events \/ halted)
    /\ proc' = IF writer = "none" THEN "complete" ELSE "last"
    /\ UNCHANGED <<stream, cause, engine, marked, batching, failures>> /\ ProcOnly

EngineRaises ==
    /\ At("loop")
    /\ LeaveLoop("error")
    /\ UNCHANGED <<stream, engine, marked, batching, failures>> /\ ProcOnly

\* Mutant: the last batch is not awaited.
LastBatchForgotten ==
    /\ At("last")
    /\ proc' = "complete" /\ UNCHANGED cause
    /\ UNCHANGED <<stream, engine, marked, batching, failures>> /\ ProcOnly
LastBatch ==
    /\ At("last") /\ writer \notin WriterLive
    /\ IF writer = "failed"
       THEN LeaveLoop("error")
       ELSE proc' = "complete" /\ UNCHANGED cause
    /\ UNCHANGED <<stream, engine, marked, batching, failures>> /\ ProcOnly

(* The handlers.                                                           *)

SetCompleted ==
    /\ At("complete")
    /\ SetStatus("completed")
    /\ proc' = "done"
    /\ UNCHANGED <<cause, engine, marked, batching, failures>> /\ ProcOnly

(* _handle_cancellation then closes the generator, whatever that raises.   *)
SetCancelled ==
    /\ At("cancel")
    /\ SetStatus("cancelled")
    /\ proc' = "done"
    /\ UNCHANGED <<cause, engine, marked, batching, failures>> /\ ProcOnly

PushError ==
    /\ At("report")
    /\ Write(<<Error>>)
    /\ proc' = "fail"
    /\ UNCHANGED <<cause, engine, marked, batching, failures>> /\ ProcOnly

SetError ==
    /\ At("fail")
    /\ SetStatus("error")
    /\ proc' = "done"
    /\ UNCHANGED <<cause, engine, marked, batching, failures>> /\ ProcOnly

(* The write the processor is at.                                          *)
Written ==
    \/ proc = "pending" /\ SetStatus("pending")
    \/ proc = "mark" /\ SetStatus("processing")
    \/ proc = "complete" /\ SetStatus("completed")
    \/ proc = "cancel" /\ SetStatus("cancelled")
    \/ proc = "report" /\ Write(<<Error>>)
    \/ proc = "fail" /\ SetStatus("error")
Applied == Written \/ UNCHANGED stream

(* Redis has done it but the answer did not come in time: the client       *)
(* (retry_on_timeout) does it again.  It gives up after the second time.   *)
WriteRepeats ==
    /\ Disturbances < Faults /\ ~struck
    /\ failures' = failures + 1
    /\ Written
    /\ UNCHANGED <<proc, cause, engine, marked, batching>> /\ ProcOnly

(* A write of the processor fails, applied or not: inside the try it is    *)
(* reported as an error of the stream, inside a handler nobody reports it. *)
WriteFails ==
    /\ Disturbances < Faults /\ ~struck
    /\ failures' = failures + 1
    /\ Applied
    /\ \/ /\ proc \in {"pending", "mark", "complete"}
          /\ LeaveLoop("error")
       \/ /\ proc \in {"cancel", "report", "fail"}
          /\ proc' = "done" /\ cause' = "unreported"
    /\ UNCHANGED <<engine, marked, batching>> /\ ProcOnly

(* The cancellation arrives.  The write in flight may have been applied;   *)
(* inside a handler it ends the task, before the task began it skips the   *)
(* whole body.                                                             *)
Interrupt ==
    /\ struck /\ proc # "unwind"
    /\ struck' = FALSE
    /\ Applied
    /\ IF proc \in {"new", "cancel", "report", "fail"}
       THEN proc' = "done" /\ cause' = "cancelled"
       ELSE LeaveLoop("cancelled")
    /\ UNCHANGED <<engine, marked, batching, calls, failures, observer>>

-----------------------------------------------------------------------------
(* write_pending: batch what is pending, push it, look again.              *)

WriterOnly == UNCHANGED <<cause, engine, marked, calls, observer>>

TakeBatch ==
    /\ writer = "ready" /\ proc # "unwind"
    /\ writer' = "writing"
    /\ inflight' = pending /\ pending' = <<>>
    /\ UNCHANGED <<stream, proc, struck, failures>> /\ WriterOnly

PushBatch ==
    /\ writer = "writing" /\ proc # "unwind"
    /\ Write(inflight)
    /\ writer' = IF pending = <<>> THEN "done" ELSE "writing"
    /\ inflight' = pending /\ pending' = <<>>
    /\ UNCHANGED <<proc, struck, failures>> /\ WriterOnly

(* The answer to the pipeline did not come in time: what was applied of it *)
(* stays in the log, and the client executes all of it again.              *)
PushRepeats ==
    /\ Disturbances < Faults
    /\ failures' = failures + 1
    /\ writer = "writing" /\ proc # "unwind"
    /\ \E k \in 1..Len(inflight) : Write(SubSeq(inflight, 1, k))
    /\ UNCHANGED <<batching, proc, struck>> /\ WriterOnly

(* The pipeline is not a transaction: it may have been applied in part.    *)
BreakPush(how) ==
    /\ \E k \in 0..Len(inflight) : Write(SubSeq(inflight, 1, k))
    /\ writer' = how
    /\ inflight' = <<>>
    /\ UNCHANGED pending

PushFails ==
    /\ Disturbances < Faults
    /\ failures' = failures + 1
    /\ writer = "writing" /\ proc # "unwind"
    /\ BreakPush("failed")
    /\ UNCHANGED <<proc, struck>> /\ WriterOnly

(* The finally of the loop awaits the writer it has cancelled.  A          *)
(* cancellation of the task itself that arrives meanwhile is suppressed    *)
(* with the writer's own.                                                  *)
WriterStops ==
    /\ proc = "unwind"
    /\ BreakPush("cancelled")
    /\ proc' = Handler(cause)
    /\ struck' = FALSE
    /\ UNCHANGED failures /\ WriterOnly

-----------------------------------------------------------------------------
(* cancel_stream and clean_up_stream.                                      *)

CallOnly == UNCHANGED <<proc, cause, next, marked, batching, failures>>

CallGoes(c, pc) == calls' = [calls EXCEPT ![c].pc = pc]
CallReturns(c) == calls' = [calls EXCEPT ![c].pc = "returned", ![c].success = FALSE]

(* The end points answer 404 when the stream does not exist.               *)
Call(c) ==
    /\ Disturbances < Faults
    /\ calls[c].pc = "idle" /\ hash # "none"
    /\ \E op \in {"cancel", "delete"} :
          calls' = [calls EXCEPT ![c].pc = "task", ![c].op = op]
    /\ UNCHANGED <<stream, struck, halted, observer>> /\ CallOnly

Registered == proc \notin {"absent", "created", "done"}

\* Mutant: the task is cancelled but not awaited.
CancelTaskNoWait(c) ==
    /\ calls[c].pc = "task" /\ Registered
    /\ struck' = TRUE
    /\ calls' = [calls EXCEPT ![c].pc = "service", ![c].success = TRUE,
                             ![c].waited = TRUE]
    /\ UNCHANGED <<stream, halted, observer>> /\ CallOnly
(* TaskManager.cancel_task: this instance has the task, or it has not.     *)
CancelTask(c) ==
    /\ calls[c].pc = "task" /\ Registered
    /\ struck' = TRUE
    /\ CallGoes(c, "await")
    /\ UNCHANGED <<stream, halted, observer>> /\ CallOnly

NoTask(c) ==
    /\ calls[c].pc = "task" /\ (~Registered \/ c \in Remote)
    /\ CallGoes(c, "service")
    /\ UNCHANGED <<stream, struck, halted, observer>> /\ CallOnly

(* The task is awaited; an exception that ended it ends the call as well.  *)
TaskAwaited(c) ==
    /\ calls[c].pc = "await" /\ proc = "done"
    /\ calls' = IF cause \in {"error", "unreported"}
                THEN [calls EXCEPT ![c] = [IdleCall EXCEPT !.pc = "returned"]]
                ELSE [calls EXCEPT ![c].pc = "service", ![c].waited = TRUE,
                                   ![c].success = TRUE]
    /\ UNCHANGED <<stream, struck, halted, observer>> /\ CallOnly

Continue(c) == IF calls[c].op = "delete" THEN CallGoes(c, "delete") ELSE CallReturns(c)

(* ChatService.cancel may end the engine's run; its answer is TRUE when    *)
(* the turn runs as an ARQ job, whether or not it is over.                 *)
CancelService(c) ==
    /\ calls[c].pc = "service"
    /\ \/ CallGoes(c, "status")
       \/ ~calls[c].success /\ Continue(c)
    /\ halted' \in {halted, halted \/ proc \in EngineRunning}
    /\ UNCHANGED <<stream, struck, observer>> /\ CallOnly

SetStatusCancelled(c) ==
    /\ calls[c].pc = "status"
    /\ SetStatus("cancelled")
    /\ Continue(c)
    /\ UNCHANGED <<struck, halted, observer>> /\ CallOnly

(* Entries written after a deletion have newer ids than the observer's.    *)
DeleteStream(c) ==
    /\ calls[c].pc = "delete"
    /\ hash' = "none" /\ whole' = FALSE /\ log' = <<>> /\ trimmed' = 0
    /\ gone' = TRUE
    /\ pos' = 0
    /\ CallReturns(c)
    /\ UNCHANGED <<struck, halted, obs, seen, missed>> /\ CallOnly

-----------------------------------------------------------------------------
(* StreamReader.stream_events.                                             *)

ObserverOnly ==
    UNCHANGED <<stream, proc, cause, struck, engine, marked, batching, calls, failures>>

(* get_stream_events answers 404 without metadata, and fails on a hash     *)
(* that lacks the fields of create_stream.                                 *)
Observe ==
    /\ obs = "absent" /\ hash # "none" /\ whole
    /\ obs' = "read"
    /\ UNCHANGED <<pos, seen, missed>> /\ ObserverOnly

(* XREAD: what is still there behind the last entry it was given.          *)
Unread == pos < Len(log)
Read == pos' = Len(log) /\ missed' = (missed \/ pos < trimmed)

(* A batch whose last event is message_stop ends the stream; a FatalError  *)
(* does not, its status is not one of TERMINAL_STATUSES.                   *)
ReadBatch ==
    /\ obs = "read" /\ Unread
    /\ Read
    /\ IF Last(log) = Events
       THEN obs' = "drain" /\ seen' = "completed"
       ELSE UNCHANGED <<obs, seen>>
    /\ ObserverOnly

ReadNothing ==
    /\ obs = "read" /\ ~Unread
    /\ obs' = "check"
    /\ UNCHANGED <<pos, seen, missed>> /\ ObserverOnly

\* Mutant: only a completed stream is over.
CheckCompleted ==
    /\ obs = "check"
    /\ IF whole /\ hash = "completed"
       THEN obs' = "drain" /\ seen' = hash
       ELSE obs' = "read" /\ UNCHANGED seen
    /\ UNCHANGED <<pos, missed>> /\ ObserverOnly
CheckStatus ==
    /\ obs = "check"
    /\ IF whole /\ hash \in Terminal
       THEN obs' = "drain" /\ seen' = hash
       ELSE obs' = "read" /\ UNCHANGED seen
    /\ UNCHANGED <<pos, missed>> /\ ObserverOnly

\* Mutant: no last read after the terminal status.
NoFinalRead ==
    /\ obs = "drain"
    /\ obs' = "ended"
    /\ UNCHANGED <<pos, seen, missed>> /\ ObserverOnly
FinalRead ==
    /\ obs = "drain"
    /\ Read
    /\ obs' = "ended"
    /\ UNCHANGED seen /\ ObserverOnly

-----------------------------------------------------------------------------
Init ==
    /\ hash = "none" /\ whole = FALSE /\ gone = FALSE
    /\ log = <<>> /\ trimmed = 0
    /\ proc = "absent" /\ cause = "none" /\ struck = FALSE
    /\ next = 0 /\ halted = FALSE /\ marked = FALSE
    /\ pending = <<>> /\ writer = "none" /\ inflight = <<>>
    /\ calls = [c \in Caller |-> IdleCall]
    /\ failures = 0
    /\ obs = "absent" /\ pos = 0 /\ seen = None /\ missed = FALSE

ProcessorStep ==
    \/ CreateStream \/ StartTask \/ Begin \/ SetPending
    \/ Yield \/ Flushed \/ SetProcessing \/ EngineEnds
    \/ LastBatch \/ SetCompleted \/ SetCancelled
    \/ PushError \/ SetError \/ Interrupt
WriterStep == TakeBatch \/ PushBatch \/ WriterStops
CallStep(c) ==
    \/ CancelTask(c) \/ NoTask(c) \/ TaskAwaited(c) \/ CancelService(c)
    \/ SetStatusCancelled(c) \/ DeleteStream(c)
ObserverStep == ReadBatch \/ ReadNothing \/ CheckStatus \/ FinalRead

Next ==
    \/ ProcessorStep \/ EngineRaises \/ WriteFails \/ WriteRepeats
    \/ WriterStep \/ PushFails \/ PushRepeats
    \/ \E c \in Caller : Call(c) \/ CallStep(c)
    \/ Observe \/ ObserverStep

Spec == Init /\ [][Next]_vars

(* The event loop runs every task that can go on, Redis answers, and the   *)
(* engine yields until it ends; nobody has to observe, to cancel or to     *)
(* delete.  No task but the observer goes round in circles, so it is       *)
(* enough that the others together always move on.                         *)
ServerStep == ProcessorStep \/ WriterStep \/ \E c \in Caller : CallStep(c)
FairSpec == Spec /\ WF_vars(ServerStep) /\ WF_vars(ObserverStep)

-----------------------------------------------------------------------------
Calls ==
    [pc : {"idle", "task", "await", "service", "status", "delete", "returned"},
     op : {"cancel", "delete"}, waited : BOOLEAN, success : BOOLEAN]

(* Every variable keeps its type, and a running writer has a batch.        *)
TypeOK ==
    /\ hash \in Terminal \cup {"none", "pending", "processing"}
    /\ {whole, gone, struck, halted, marked, missed} \subseteq BOOLEAN
    /\ whole => hash # "none"
    /\ {log, pending, inflight} \subseteq Seq(Payload)
    /\ proc \in Unstarted \cup {"pending", "loop", "flush", "mark", "last",
                "complete", "unwind", "cancel", "report", "fail", "done"}
    /\ cause \in {"none", "cancelled", "error", "unreported"}
    /\ next \in 0..Events /\ failures \in Nat
    /\ writer \in WriterLive \cup {"none", "done", "failed", "cancelled"}
    /\ writer = "writing" <=> inflight # <<>>
    /\ calls \in [Caller -> Calls]
    /\ obs \in {"absent", "read", "check", "drain", "ended"}
    /\ pos \in 0..Len(log)
    /\ trimmed \in 0..Len(log) /\ (trimmed > 0 => trimmed + MaxLen <= Len(log))
    /\ seen \in Terminal \cup {None}
    /\ proc = "done" => writer \notin WriterLive

Added(k) == \E i \in DOMAIN log : log[i] = k
Heard(k) == \E i \in 1..pos : log[i] = k

(* While the stream is not deleted what is added to its log is what the    *)
(* engine yielded, in order and without a hole, and behind it at most an   *)
(* error: an entry may repeat what is there, when the client repeats a     *)
(* write, but it never skips an event, and nothing follows an error but    *)
(* the same error: whatever the batches, a push that fails or is repeated, *)
(* and the cancellation of a writer in the middle of one do.               *)
Before(i) == IF i = 1 THEN 0 ELSE log[i - 1]
NoHole ==
    ~gone => \A i \in DOMAIN log :
        log[i] = Error \/
        /\ log[i] <= next
        /\ Before(i) # Error /\ log[i] <= Before(i) + 1

(* "The status must not overtake events" (stream_processor.py:75): until a *)
(* call cancels or deletes the stream, "processing" is set when the events *)
(* before the first block are in the log, "completed" when all are and     *)
(* "error" when the error event is.                                        *)
StatusNotAhead ==
    ~gone =>
        /\ hash = "processing" => Added(1)
        /\ hash = "completed" => \A k \in 1..next : Added(k)
        /\ hash = "error" => log # <<>> /\ Last(log) = Error

(* What an observer has heard when it ends agrees with the status that     *)
(* ended it: all the engine yielded if the stream completed, unless some   *)
(* of it was trimmed before the observer came to it, and the error event   *)
(* if it failed.  The status is read before the last events are, so only   *)
(* the final read makes this true.                                         *)
HeardAsSeen ==
    obs = "ended" /\ ~gone =>
        /\ seen = "completed" /\ ~missed => \A k \in 1..next : Heard(k)
        /\ seen = "error" => pos > 0 /\ log[pos] = Error

(* After a cancel or delete call has waited for the processor nobody       *)
(* writes another event of the stream, nor any status but "cancelled".     *)
Quiet == \E c \in Caller : calls[c].waited
QuietAfterCancel ==
    [][Quiet => log' \in {log, <<>>} /\ hash' \in {hash, "cancelled", "none"}]_vars

(* A deleted stream comes back only by a call that was already under way,  *)
(* or by a processor the deleting call could not reach: one of another     *)
(* instance, or one that is only being started.                            *)
InCall == \E c \in Caller : calls[c].pc \notin {"idle", "returned"}
Reached == \E c \in Caller : calls[c].op = "delete" /\ calls[c].pc = "returned"
                             /\ calls[c].waited
StaysDeleted == [][Reached /\ hash = "none" /\ ~InCall => hash' = "none"]_vars

(* An observer's connection ends when the stream does, unless the stream   *)
(* is deleted under it, or the write that was to record its end failed.    *)
ObserverEndsUnlessDeleted ==
    obs = "read" ~> obs = "ended" \/ gone \/ cause = "unreported"

(* "The connection stays open until the job completes, fails, or is        *)
(* cancelled" (messages-async.mdx:64), and "active streams are             *)
(* automatically cancelled before deletion" (chat_async_router.py:691).    *)
ObserverEnds == obs = "read" ~> obs = "ended"
=============================================================================
