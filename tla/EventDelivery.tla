---------------------------- MODULE EventDelivery ----------------------------
(***************************************************************************)
(* How the events of one chat execution travel from the engine to the      *)
(* router: BrokerEventChannel batches what the engine emits, a drain task  *)
(* pushes the batches to a Redis list, and RedisEngineEventBroker.listen   *)
(* pops the list until it finds the FINISHED mark.                         *)
(*                                                                         *)
(* The job's coroutine, its drain task, the listener, a client's cancel()  *)
(* and the rescue of a dead worker interleave at every await.  Events are  *)
(* numbered in the order they are emitted.  The chain of jobs of a turn is *)
(* one coroutine here: a resumed job has a channel of its own, opened when *)
(* the pausing job has closed its channel and saved.                       *)
(***************************************************************************)
EXTENDS Naturals, Sequences, SequencesExt

CONSTANTS
    Events,     \* bound: how many events the engine emits
    Rounds,     \* bound: how many times the turn pauses
    PopLimit,   \* how many queued payloads the listener takes at once
    Error,      \* the payload of StreamingEventHandler().error_event(...)
    Finished,   \* RedisEngineEventBroker._FINISHED
    Faults      \* what may go wrong, or what the client may do

ASSUME BoundsAssumption == Events \in Nat /\ Rounds \in Nat /\ PopLimit \in Nat
ASSUME PayloadAssumption == Error # Finished /\ {Error, Finished} \cap Nat = {}
ASSUME FaultsAssumption ==
    Faults \subseteq {"engine_error", "publish_error", "finish_error",
                      "cancel", "crash", "stall", "leave"}

VARIABLES
    job,        \* where the engine's coroutine is
    round,      \* how many times the turn has paused
    emitted,    \* how many events were emitted
    pending,    \* _pending: emitted, not yet taken by the drain task
    drain,      \* the state of the drain task
    inflight,   \* the batch the drain task is publishing
    wire,       \* the Redis list of the execution
    got,        \* the payload BLPOP returned
    heard,      \* what listen() has yielded
    listener,   \* where the listener is
    cancel,     \* where cancel() is
    rescue,     \* where fail_abandoned() is
    taken,      \* history: it took a worker for dead that was alive
    terminal    \* the terminal status, "none" before there is one

channel == <<pending, drain, inflight>>
reader == <<got, heard, listener>>
vars == <<job, round, emitted, pending, drain, inflight, wire, got, heard,
          listener, cancel, rescue, taken, terminal>>

Payload == 1..Events \cup {Error, Finished}

Awaiting == {"flush", "close", "fail_close"}    \* inside channel.flush()
Finishing == {"finish", "fail_finish"}          \* at events.finish()
JobOver == {"done", "raised", "aborted", "dead"}
DrainLive == {"ready", "publishing"}

-----------------------------------------------------------------------------
(* The channel.  emit() never waits: it starts a drain task unless one is  *)
(* running, or the last one failed.                                        *)

\* Mutant: a failed drain task is replaced as well.
StartsDrainAlways == drain \notin DrainLive
StartsDrain == drain \in {"none", "done"}

Put(event) ==
    /\ pending' = Append(pending, event)
    /\ drain' = IF StartsDrain THEN "ready" ELSE drain

Emit ==
    /\ job = "engine" /\ emitted < Events
    /\ emitted' = emitted + 1
    /\ Put(emitted + 1)
    /\ UNCHANGED <<job, round, inflight, wire, reader, cancel, rescue, taken, terminal>>

\* Mutant: the loop publishes before it looks whether there is anything.
TakeBatchAlways ==
    /\ drain = "ready"
    /\ drain' = "publishing"
    /\ inflight' = pending
    /\ pending' = <<>>
    /\ UNCHANGED <<job, round, emitted, wire, reader, cancel, rescue, taken, terminal>>

(* _publish_pending: swap the pending list, publish it, look again.        *)
TakeBatch ==
    /\ drain = "ready"
    /\ drain' = IF pending = <<>> THEN "done" ELSE "publishing"
    /\ inflight' = pending
    /\ pending' = <<>>
    /\ UNCHANGED <<job, round, emitted, wire, reader, cancel, rescue, taken, terminal>>

Publish ==
    /\ drain = "publishing"
    /\ wire' = wire \o inflight
    /\ inflight' = <<>>
    /\ drain' = "ready"
    /\ UNCHANGED <<job, round, emitted, pending, reader, cancel, rescue, taken, terminal>>

(* The drain task ends without the reply to its push, applied or not.      *)
BreakDrain(how) ==
    /\ drain' = how
    /\ wire' \in {wire, wire \o inflight}
    /\ inflight' = <<>>
    /\ UNCHANGED pending

PublishRaises ==
    /\ "publish_error" \in Faults
    /\ drain = "publishing"
    /\ BreakDrain("failed")
    /\ UNCHANGED <<job, round, emitted, reader, cancel, rescue, taken, terminal>>

-----------------------------------------------------------------------------
(* The job.                                                                *)

JobGoes(l) == job' = l /\ UNCHANGED <<round, emitted, reader, cancel, rescue, taken>>

(* The start of a turn flushes its first event.                            *)
FlushStart ==
    /\ job = "engine" /\ round = 0 /\ emitted = 1
    /\ JobGoes("flush")
    /\ UNCHANGED <<channel, wire, terminal>>

EngineReturns ==
    /\ job = "engine"
    /\ JobGoes("close")
    /\ UNCHANGED <<channel, wire, terminal>>

(* The engine, or the save that follows it, raises.                        *)
JobRaises ==
    /\ "engine_error" \in Faults
    /\ job \in {"engine", "handle"}
    /\ JobGoes("fail")
    /\ UNCHANGED <<channel, wire, terminal>>

AfterFlush == CASE job = "flush" -> "engine"
                [] job = "close" -> "handle"
                [] OTHER -> "fail_finish"

\* Mutant: close() does not wait for the drain task.
FlushNoWait ==
    /\ job \in Awaiting
    /\ JobGoes(AfterFlush)
    /\ UNCHANGED <<channel, wire, terminal>>

(* flush(): wait for the drain task, then for one more if events came in.  *)
FlushReturns ==
    /\ job \in Awaiting /\ drain \in {"none", "done"}
    /\ IF drain = "done" /\ pending # <<>>
       THEN drain' = "ready" /\ UNCHANGED <<job, round, emitted, reader, cancel, rescue, taken>>
       ELSE JobGoes(AfterFlush) /\ UNCHANGED drain
    /\ UNCHANGED <<pending, inflight, wire, terminal>>

(* Awaiting a failed task raises, each time anew: the second time nobody   *)
(* handles it, and clean-up and FINISHED are skipped.                      *)
FlushRaises ==
    /\ job \in Awaiting /\ drain = "failed"
    /\ JobGoes(IF job = "fail_close" THEN "raised" ELSE "fail")
    /\ UNCHANGED <<channel, wire, terminal>>

(* _handle_state: the turn is over, or pauses and goes on in a new job     *)
(* with a new channel unless it was ended meanwhile.                       *)
Complete ==
    /\ job = "handle"
    /\ terminal' = IF terminal = "none" THEN "completed" ELSE terminal
    /\ JobGoes("finish")
    /\ UNCHANGED <<channel, wire>>

Pause ==
    /\ job = "handle" /\ round < Rounds
    /\ IF terminal = "none"
       THEN /\ job' = "engine" /\ round' = round + 1
            /\ pending' = <<>> /\ drain' = "none"
       ELSE job' = "done" /\ UNCHANGED <<round, pending, drain>>
    /\ UNCHANGED <<emitted, inflight, wire, reader, cancel, rescue, taken, terminal>>

\* Mutant: the error does not go through the channel.
FailDirectly ==
    /\ job = "fail"
    /\ terminal' = IF terminal = "none" THEN "failed" ELSE terminal
    /\ wire' = IF terminal = "none" THEN Append(wire, Error) ELSE wire
    /\ JobGoes("fail_finish")
    /\ UNCHANGED channel

(* _fail: whoever sets the terminal status publishes the error.            *)
Fail ==
    /\ job = "fail"
    /\ IF terminal = "none"
       THEN terminal' = "failed" /\ Put(Error) /\ JobGoes("fail_close")
       ELSE UNCHANGED <<terminal, pending, drain>> /\ JobGoes("fail_finish")
    /\ UNCHANGED <<inflight, wire>>

(* A push of one payload may raise.  (A FINISHED that arrives though its   *)
(* push raised is, for the listener, one that did not raise: it drops what *)
(* follows the first.)                                                     *)
Push(x) == wire' = Append(wire, x)

(* A turn that completed and could not say so goes through _fail, which    *)
(* finds the turn over and says it again; there it is the last word.       *)
JobFinishes ==
    /\ job \in Finishing
    /\ \/ Push(Finished) /\ JobGoes("done")
       \/ /\ "finish_error" \in Faults /\ UNCHANGED wire
          /\ JobGoes(IF job = "finish" THEN "fail_finish" ELSE "raised")
    /\ UNCHANGED <<channel, terminal>>

(* CancelledError, when the cancel's abort arrives in time: a coroutine    *)
(* that waits for the drain task takes it along.                           *)
Aborted ==
    /\ cancel \in {"finish", "done", "raised"} /\ job \notin JobOver
    /\ JobGoes("aborted")
    /\ IF job \in Awaiting /\ drain \in DrainLive
       THEN BreakDrain("cancelled") ELSE UNCHANGED <<channel, wire>>
    /\ UNCHANGED terminal

(* The worker dies, its drain task with it.                                *)
Dies ==
    /\ "crash" \in Faults /\ job \notin JobOver
    /\ JobGoes("dead")
    /\ IF drain \in DrainLive THEN BreakDrain("cancelled") ELSE UNCHANGED <<channel, wire>>
    /\ UNCHANGED terminal

-----------------------------------------------------------------------------
(* cancel() and fail_abandoned().                                          *)

RequestCancel ==
    /\ "cancel" \in Faults
    /\ cancel = "idle"
    /\ terminal' = IF terminal = "none" THEN "cancelled" ELSE terminal
    /\ cancel' = "stop"
    /\ UNCHANGED <<job, round, emitted, channel, wire, reader, rescue, taken>>

CancelStep ==
    /\ \/ cancel = "stop" /\ cancel' = "finish" /\ UNCHANGED wire
       \/ cancel = "finish" /\ cancel' = "done" /\ Push(Finished)
       \/ /\ "finish_error" \in Faults
          /\ cancel = "finish" /\ cancel' = "raised" /\ UNCHANGED wire
    /\ UNCHANGED <<job, round, emitted, channel, reader, rescue, taken, terminal>>

\* Mutant: a turn that is already over is left to whoever ended it.
RescueFirst ==
    /\ rescue = "idle" /\ job = "dead" /\ UNCHANGED taken
    /\ terminal' = IF terminal = "none" THEN "failed" ELSE terminal
    /\ rescue' = IF terminal = "none" THEN "error" ELSE "done"
    /\ UNCHANGED <<job, round, emitted, channel, wire, reader, cancel>>

Rescue ==
    /\ rescue = "idle"
    /\ \/ job = "dead" /\ UNCHANGED taken
       \/ "stall" \in Faults /\ job \notin JobOver /\ taken' = TRUE
    /\ terminal' = IF terminal = "none" THEN "failed" ELSE terminal
    /\ rescue' = IF terminal = "none" THEN "error" ELSE "finish"
    /\ UNCHANGED <<job, round, emitted, channel, wire, reader, cancel>>

(* The worker that looks for abandoned jobs swallows what this raises.     *)
RescueStep ==
    /\ \/ rescue = "error" /\ rescue' = "finish" /\ Push(Error)
       \/ rescue = "finish" /\ rescue' = "done" /\ Push(Finished)
       \/ /\ "publish_error" \in Faults
          /\ rescue = "error" /\ rescue' = "raised"
          /\ Push(Error) \/ UNCHANGED wire
       \/ /\ "finish_error" \in Faults
          /\ rescue = "finish" /\ rescue' = "raised" /\ UNCHANGED wire
    /\ UNCHANGED <<job, round, emitted, channel, reader, cancel, taken, terminal>>

-----------------------------------------------------------------------------
(* The listener: BLPOP, then one LPOP of what is already queued.           *)

BlockingPop ==
    /\ listener = "listening" /\ wire # <<>>
    /\ got' = <<Head(wire)>> /\ wire' = Tail(wire)
    /\ listener' = "popped"
    /\ UNCHANGED <<job, round, emitted, channel, heard, cancel, rescue, taken, terminal>>

(* Everything up to FINISHED is yielded, what follows it is dropped.       *)
YieldBatch ==
    /\ listener = "popped"
    /\ LET more == SubSeq(wire, 1, Min({PopLimit, Len(wire)}))
           payloads == got \o more
           mark == SelectInSeq(payloads, LAMBDA x : x = Finished) IN
       /\ wire' = SubSeq(wire, Len(more) + 1, Len(wire))
       /\ heard' = heard \o (IF mark = 0 THEN payloads ELSE SubSeq(payloads, 1, mark - 1))
       /\ listener' = IF mark = 0 THEN "listening" ELSE "cleanup"
    /\ got' = <<>>
    /\ UNCHANGED <<job, round, emitted, channel, cancel, rescue, taken, terminal>>

(* The router closes the generator.                                        *)
Leave ==
    /\ "leave" \in Faults
    /\ listener \in {"listening", "popped"}
    /\ listener' = "leaving" /\ got' = <<>>
    /\ UNCHANGED <<job, round, emitted, channel, wire, heard, cancel, rescue, taken, terminal>>

DeleteList ==
    /\ listener \in {"cleanup", "leaving"}
    /\ listener' = IF listener = "cleanup" THEN "ended" ELSE "left"
    /\ wire' = <<>>
    /\ UNCHANGED <<job, round, emitted, channel, got, heard, cancel, rescue, taken, terminal>>

-----------------------------------------------------------------------------
Init ==
    /\ job = "engine" /\ round = 0 /\ emitted = 0
    /\ pending = <<>> /\ drain = "none" /\ inflight = <<>>
    /\ wire = <<>> /\ got = <<>> /\ heard = <<>>
    /\ listener = "listening"
    /\ cancel = "idle" /\ rescue = "idle" /\ taken = FALSE /\ terminal = "none"

DrainStep == TakeBatch \/ Publish
JobStep ==
    \/ EngineReturns \/ FlushReturns \/ FlushRaises \/ Complete \/ Fail \/ JobFinishes
ListenerStep == BlockingPop \/ YieldBatch \/ DeleteList

Next ==
    \/ Emit \/ FlushStart \/ JobRaises \/ Pause
    \/ DrainStep \/ PublishRaises
    \/ JobStep \/ Aborted \/ Dies
    \/ RequestCancel \/ CancelStep \/ Rescue \/ RescueStep
    \/ ListenerStep \/ Leave

Spec == Init /\ [][Next]_vars

(* The event loops of the worker and of the router make progress, the      *)
(* engine ends at some point, and a dead worker is noticed.                *)
Fairness ==
    /\ WF_vars(DrainStep) /\ WF_vars(JobStep) /\ WF_vars(ListenerStep)
    /\ WF_vars(CancelStep) /\ WF_vars(RescueStep)
    /\ WF_vars(job = "dead" /\ Rescue)

FairSpec == Spec /\ Fairness

-----------------------------------------------------------------------------
(* Every variable holds what the code can put there; the drain task has a  *)
(* batch exactly while it publishes.                                       *)
TypeOK ==
    /\ job \in Awaiting \cup Finishing \cup JobOver \cup {"engine", "handle", "fail"}
    /\ round \in 0..Rounds
    /\ emitted \in 0..Events
    /\ \A s \in {pending, inflight, wire, got, heard} : s \in Seq(Payload)
    /\ drain \in DrainLive \cup {"none", "done", "failed", "cancelled"}
    /\ drain = "publishing" <=> inflight # <<>>
    /\ listener \in {"listening", "popped", "cleanup", "ended", "leaving", "left"}
    /\ cancel \in {"idle", "stop", "finish", "done", "raised"}
    /\ rescue \in {"idle", "error", "finish", "done", "raised"} /\ taken \in BOOLEAN
    /\ terminal \in {"none", "completed", "failed", "cancelled"}

ErrorBefore(s, i) == \E k \in 1..(i - 1) : s[k] = Error

(* A client never sees a hole, a repetition or two events swapped, even    *)
(* when a batch is lost: what it has heard, apart from the error, is a     *)
(* beginning of what the engine emitted.                                   *)
NoHole ==
    \A i \in DOMAIN heard :
        heard[i] = Error \/
        /\ heard[i] = IF ErrorBefore(heard, i) THEN i - 1 ELSE i
        /\ heard[i] <= emitted

(* The terminal error comes once, after the events that led to it, and     *)
(* nothing after the error, unless the worker it is about was alive and    *)
(* went on.                                                                *)
ErrorLast ==
    \A i \in DOMAIN heard :
        heard[i] = Error => ~ErrorBefore(heard, i) /\ (i = Len(heard) \/ taken)

(* The listener of a turn that completed has heard everything: FINISHED    *)
(* cannot overtake a batch still being published.                          *)
CompletedMeansHeard ==
    terminal = "completed" /\ listener = "ended" => Len(heard) = emitted

(* The stream of a turn that is over ends, also when the party that ended  *)
(* the turn dies before it says so.                                        *)
StreamEnds == terminal # "none" ~> listener \in {"ended", "left"}

(* The same when events and the end of the stream may be refused: only if  *)
(* the job, cancel() or the rescue raised, because its own push failed, is *)
(* a listener left waiting.  A job may still die, be cancelled, be taken   *)
(* for dead or be left by its client at any moment.                        *)
StreamEndsUnlessRaised ==
    terminal # "none" ~>
        listener \in {"ended", "left"} \/ "raised" \in {job, cancel, rescue}

=============================================================================
