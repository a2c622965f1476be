------------------------ MODULE StreamProcessingProofs ------------------------
(***************************************************************************)
(* Proofs about StreamProcessing, for every engine, every number of failed *)
(* and repeated writes, every set of calls, every split of them between    *)
(* instances and every trimming of the log.                                *)
(***************************************************************************)
EXTENDS StreamProcessing, SequenceTheorems, TLAPS

USE EventsAssumption, MaxLenAssumption, ErrorAssumption

-----------------------------------------------------------------------------
(* The inductive invariant.                                                *)

Over == {"cancel", "report", "fail", "done"}    \* the loop was left
Idle == {"none", "done"}                        \* a writer with nothing to do

(* The type invariant, one variable at a time.                             *)
StreamTypes ==
    /\ hash \in Terminal \cup {"none", "pending", "processing"}
    /\ whole \in BOOLEAN /\ gone \in BOOLEAN
    /\ whole => hash # "none"
    /\ log \in Seq(Payload)
    /\ trimmed \in 0..Len(log) /\ (trimmed > 0 => trimmed + MaxLen <= Len(log))
TaskTypes ==
    /\ proc \in Unstarted \cup {"pending", "loop", "flush", "mark", "last",
                "complete", "unwind", "cancel", "report", "fail", "done"}
    /\ cause \in {"none", "cancelled", "error", "unreported"}
    /\ struck \in BOOLEAN /\ halted \in BOOLEAN /\ marked \in BOOLEAN
    /\ next \in 0..Events /\ failures \in Nat
BatchTypes ==
    /\ pending \in Seq(Payload) /\ inflight \in Seq(Payload)
    /\ writer \in WriterLive \cup {"none", "done", "failed", "cancelled"}
    /\ writer = "writing" <=> inflight # <<>>
CallTypes == calls \in [Caller -> Calls]
ObserverTypes ==
    /\ obs \in {"absent", "read", "check", "drain", "ended"}
    /\ pos \in 0..Len(log)
    /\ seen \in Terminal \cup {None} /\ missed \in BOOLEAN
Types == StreamTypes /\ TaskTypes /\ BatchTypes /\ CallTypes /\ ObserverTypes

(* Where the tasks are: the loop is left without a live writer, what       *)
(* waited for one goes on with nothing in its hands, and a task is struck  *)
(* only while it is there.                                                 *)
Control ==
    /\ proc \in {"absent", "created", "new", "pending"} => writer = "none"
    /\ proc \in {"mark", "complete"} => writer \in Idle
    /\ proc \in Over => writer \notin WriterLive
    /\ proc \in {"flush", "mark"} => next > 1
    /\ proc = "unwind" => cause \in {"cancelled", "error"} /\ writer \in WriterLive
    /\ writer = "cancelled" => proc \in Over
    /\ writer = "ready" => pending # <<>>
    /\ writer \in Idle => pending = <<>>
    /\ struck => Registered

(* A call that has waited has seen the task end.                           *)
Waited == \A c \in Caller : calls[c].waited => proc = "done"

(* The entries of s count on from n.                                       *)
Counts(s, n) == \A i \in 1..Len(s) : s[i] = n + i

(* s counts up to at most m: no entry skips an event, only an error comes  *)
(* behind an error, and what is counted to was counted through.            *)
Orderly(s, m) ==
    \A i \in 1..Len(s) :
        s[i] = Error \/
        /\ s[i] <= m
        /\ IF i = 1 THEN s[i] <= 1 ELSE s[i - 1] # Error /\ s[i] <= s[i - 1] + 1
Through(s) ==
    \A i \in 1..Len(s) : s[i] \in Nat => \A k \in 1..s[i] : \E j \in 1..i : s[j] = k

(* The event s ends with.                                                  *)
Tip(s) == IF s = <<>> THEN 0 ELSE s[Len(s)]

ErrorWritten == log # <<>> /\ log[Len(log)] = Error
AllWritten == \A k \in 1..next : \E i \in 1..Len(log) : log[i] = k
FirstWritten == \E i \in 1..Len(log) : log[i] = 1

(* The log counts up to what the engine has yielded, and an error comes    *)
(* only from the handler that reports it.                                  *)
Recorded ==
    /\ Orderly(log, next) /\ Through(log)
    /\ proc \notin {"report", "fail", "done"} => ~ErrorWritten
    /\ proc = "fail" => ErrorWritten

(* What the engine has yielded is in the log up to n, and then in the      *)
(* batch and the pending events, one behind the other, as long as no       *)
(* writer failed; of the batch some may be in the log already.             *)
Enqueued == IF proc \in {"flush", "mark"} THEN next - 1 ELSE next
Held(n) ==
    /\ n <= Tip(log)
    /\ Counts(inflight, n) /\ Counts(pending, n + Len(inflight))
    /\ n + Len(inflight) + Len(pending) <= next
    /\ proc # "unwind" => n + Len(inflight) + Len(pending) = Enqueued
Batched == proc \notin Over /\ writer # "failed" => \E n \in Nat : Held(n)

Ending == Over \cup {"complete"}
StatusEarned ==
    /\ hash = "processing" => FirstWritten
    /\ hash = "completed" => AllWritten /\ proc \in Ending
    /\ hash = "error" => ErrorWritten /\ proc \in {"fail", "done"}

(* What the observer was told when it stopped stays true.                  *)
AllRead == \A k \in 1..next : \E i \in 1..pos : log[i] = k
Told ==
    obs \in {"drain", "ended"} =>
        /\ seen = "completed" => AllWritten /\ (next = Events \/ proc \in Ending)
        /\ seen = "error" => ErrorWritten /\ proc \in {"fail", "done"}
        /\ obs = "ended" /\ seen = "completed" => AllRead
        /\ obs = "ended" /\ seen = "error" => pos = Len(log)

Kept == Recorded /\ Batched /\ StatusEarned /\ Told

IInv == Types /\ Control /\ Waited /\ (~gone => Kept)

-----------------------------------------------------------------------------
(* Sequences of payloads.                                                  *)

LEMMA Joined ==
  ASSUME NEW s \in Seq(Payload), NEW t \in Seq(Payload)
  PROVE  /\ s \o t \in Seq(Payload)
         /\ Len(s \o t) = Len(s) + Len(t) /\ Len(s) \in Nat /\ Len(t) \in Nat
         /\ \A i \in 1..Len(s) : (s \o t)[i] = s[i]
         /\ \A i \in 1..Len(t) : (s \o t)[Len(s) + i] = t[i]
<1>1. \A i \in 1..Len(s) + Len(t) :
         (s \o t)[i] = IF i <= Len(s) THEN s[i] ELSE t[i - Len(s)]
  BY ConcatProperties
<1>2. Len(s) \in Nat /\ Len(t) \in Nat
  BY LenProperties
<1>3. ASSUME NEW i \in 1..Len(t)
      PROVE  (s \o t)[Len(s) + i] = t[i]
  <2>1. Len(s) + i \in 1..Len(s) + Len(t) /\ ~(Len(s) + i <= Len(s))
        /\ (Len(s) + i) - Len(s) = i
    BY <1>2
  <2> QED
    BY <1>1, <2>1
<1>4. \A i \in 1..Len(s) : (s \o t)[i] = s[i]
  BY <1>1, <1>2
<1> QED
  BY ConcatProperties, <1>2, <1>3, <1>4

LEMMA Taken ==
  ASSUME NEW s \in Seq(Payload), NEW k \in 0..Len(s)
  PROVE  /\ SubSeq(s, 1, k) \in Seq(Payload)
         /\ Len(SubSeq(s, 1, k)) = k
         /\ \A i \in 1..k : SubSeq(s, 1, k)[i] = s[i]
<1>1. Len(s) \in Nat /\ \A i \in 1..Len(s) : s[i] \in Payload
  BY LenProperties, ElementOfSeq
<1>2. k \in Int /\ \A i \in 1..k : s[i] \in Payload
  BY <1>1
<1> QED
  BY <1>1, <1>2, SubSeqProperties

LEMMA Nonempty ==
  ASSUME NEW s \in Seq(Payload)
  PROVE  /\ s # <<>> <=> Len(s) > 0
         /\ Len(s) \in Nat
         /\ \A i \in 1..Len(s) : s[i] \in Payload
  BY EmptySeq, LenProperties, ElementOfSeq

LEMMA Nothing ==
  <<>> \in Seq(Payload) /\ Len(<<>>) = 0
  BY EmptySeq

LEMMA ErrorOnly ==
  /\ <<Error>> \in Seq(Payload) /\ Len(<<Error>>) = 1 /\ <<Error>>[1] = Error
  BY DEF Payload

-----------------------------------------------------------------------------
(* The types.                                                              *)

(* The flags are BOOLEAN whatever happens.                                 *)
Flags ==
    /\ whole \in BOOLEAN /\ gone \in BOOLEAN /\ struck \in BOOLEAN
    /\ halted \in BOOLEAN /\ marked \in BOOLEAN /\ missed \in BOOLEAN

LEMMA GoneStays ==
  ASSUME Next, gone
  PROVE  gone'
  BY DEF Next, ProcessorStep, WriterStep, CallStep, ObserverStep, CreateStream, StartTask,
     Begin, SetPending, Yield, Flushed, SetProcessing, EngineEnds, EngineRaises,
     LastBatch, SetCompleted, SetCancelled, PushError, SetError, WriteFails, WriteRepeats,
     Interrupt,
     TakeBatch, PushBatch, PushFails, PushRepeats, WriterStops, BreakPush, Applied, Written,
     SetStatus, Write, Call, CancelTask, NoTask, TaskAwaited, CancelService,
     SetStatusCancelled, DeleteStream, Observe, ReadBatch, ReadNothing, CheckStatus,
     FinalRead, ObserverOnly, stream

LEMMA FlagsStep ==
  ASSUME Flags, Next
  PROVE  Flags'
<1> USE DEF Flags, Next, ProcessorStep, WriterStep, CallStep, ObserverStep, CreateStream,
      StartTask, Begin, SetPending, Yield, Flushed, SetProcessing, EngineEnds, EngineRaises,
      LastBatch, SetCompleted, SetCancelled, PushError, SetError, WriteFails, WriteRepeats,
      Interrupt,
      TakeBatch, PushBatch, PushFails, PushRepeats, WriterStops, Call, CancelTask, NoTask,
      TaskAwaited,
      CancelService, SetStatusCancelled, DeleteStream, Observe, ReadBatch, ReadNothing,
      CheckStatus, FinalRead, ProcOnly, WriterOnly, CallOnly, ObserverOnly, engine, observer
<1>1. gone' = gone \/ gone' = TRUE
  BY DEF BreakPush, Applied, Written, SetStatus, Write, stream
<1>2. whole' = whole \/ whole' = TRUE \/ whole' = FALSE \/ whole' = (whole /\ hash # "none")
  BY DEF BreakPush, Applied, Written, SetStatus, Write, stream
<1>3. struck' = struck \/ struck' = TRUE \/ struck' = FALSE
  OBVIOUS
<1>4. halted' = halted \/ halted' = (halted \/ proc \in EngineRunning)
  OBVIOUS
<1>5. marked' = marked \/ marked' = TRUE
  OBVIOUS
<1>6. missed' = missed \/ missed' = (missed \/ pos < trimmed)
  BY DEF Read
<1> QED
  BY ONLY Flags, <1>1, <1>2, <1>3, <1>4, <1>5, <1>6 DEF Flags

(* Only a call moves a call.                                               *)
LEMMA CallsStep ==
  ASSUME CallTypes, Next
  PROVE  CallTypes'
<1> USE DEF CallTypes
<1>1. ASSUME NEW c \in Caller, Call(c) \/ CallStep(c)
      PROVE  calls' \in [Caller -> Calls]
  <2>1. calls[c] \in Calls /\ IdleCall \in Calls
    BY DEF Calls, IdleCall
  <2>2. \E r \in Calls : calls' = [calls EXCEPT ![c] = r]
    <3>1. CASE Call(c)
      <4>1. PICK op \in {"cancel", "delete"} :
              calls' = [calls EXCEPT ![c].pc = "task", ![c].op = op]
        BY <3>1 DEF Call
      <4>2. [calls[c] EXCEPT !.pc = "task", !.op = op] \in Calls
        BY <2>1 DEF Calls
      <4> QED
        BY <4>1, <4>2
    <3>2. ASSUME NEW pc \in {"service", "await", "status", "delete"}, CallGoes(c, pc)
          PROVE  \E r \in Calls : calls' = [calls EXCEPT ![c] = r]
      <4>1. [calls[c] EXCEPT !.pc = pc] \in Calls
        BY <2>1 DEF Calls
      <4> QED
        BY <3>2, <4>1 DEF CallGoes
    <3>3. ASSUME CallReturns(c)
          PROVE  \E r \in Calls : calls' = [calls EXCEPT ![c] = r]
      <4>1. [calls[c] EXCEPT !.pc = "returned", !.success = FALSE] \in Calls
        BY <2>1 DEF Calls
      <4> QED
        BY <3>3, <4>1 DEF CallReturns
    <3>4. CASE TaskAwaited(c)
      <4>1. [calls[c] EXCEPT !.pc = "service", !.waited = TRUE, !.success = TRUE] \in Calls
            /\ [IdleCall EXCEPT !.pc = "returned"] \in Calls
        BY <2>1 DEF Calls
      <4> QED
        BY <3>4, <4>1 DEF TaskAwaited
    <3> QED
      BY <1>1, <3>1, <3>2, <3>3, <3>4
         DEF CallStep, CancelTask, NoTask, CancelService, SetStatusCancelled, DeleteStream,
             Continue
  <2> QED
    BY <2>2
<1>2. ASSUME \A c \in Caller : ~(Call(c) \/ CallStep(c))
      PROVE  calls' \in [Caller -> Calls]
  BY <1>2 DEF Next, ProcessorStep, WriterStep, ObserverStep, CreateStream, StartTask,
     Begin, SetPending, Yield, Flushed, SetProcessing, EngineEnds, EngineRaises,
     LastBatch, SetCompleted, SetCancelled, PushError, SetError, WriteFails, WriteRepeats,
     Interrupt,
     TakeBatch, PushBatch, PushFails, PushRepeats, WriterStops, ProcOnly, WriterOnly,
     Observe, ReadBatch, ReadNothing, CheckStatus, FinalRead, ObserverOnly
<1> QED
  BY <1>1, <1>2

(* The labels: where everybody is.                                         *)
Labels ==
    /\ hash \in Terminal \cup {"none", "pending", "processing"}
    /\ whole => hash # "none"
    /\ proc \in Unstarted \cup {"pending", "loop", "flush", "mark", "last",
                "complete", "unwind", "cancel", "report", "fail", "done"}
    /\ cause \in {"none", "cancelled", "error", "unreported"}
    /\ next \in 0..Events /\ failures \in Nat
    /\ writer \in WriterLive \cup {"none", "done", "failed", "cancelled"}
    /\ obs \in {"absent", "read", "check", "drain", "ended"}
    /\ seen \in Terminal \cup {None}

LEMMA LabelsStep ==
  ASSUME Labels, Control, Next
  PROVE  Labels'
<1> USE DEF Labels
<1>1. CASE CreateStream \/ StartTask \/ Begin \/ SetPending \/ SetCompleted \/ SetCancelled
           \/ SetError
  BY <1>1 DEF CreateStream, StartTask, Begin, SetPending, SetCompleted, SetCancelled,
     SetError, At, ProcOnly, SetStatus, stream, engine, batching, observer, Unstarted, Terminal
<1>2. CASE Flushed \/ EngineEnds \/ EngineRaises \/ LastBatch
  BY <1>2 DEF Flushed, EngineEnds, EngineRaises, LastBatch, LeaveLoop, Handler, At, ProcOnly,
     stream, engine, batching, observer
<1>3. CASE Yield
  BY <1>3 DEF Yield, Enqueue, LeaveLoop, Handler, At, ProcOnly, WriterLive,
     stream, engine, batching, observer
<1>4. CASE SetProcessing
  BY <1>4 DEF SetProcessing, SetStatus, Enqueue, LeaveLoop, Handler, At, ProcOnly,
     WriterLive, engine, observer
<1>5. CASE PushError
  BY <1>5 DEF PushError, Write, At, ProcOnly, engine, batching, observer
<1>6. ASSUME Applied
      PROVE  hash' \in Terminal \cup {"none", "pending", "processing"} /\ (whole' => hash' # "none")
  BY <1>6 DEF Applied, Written, SetStatus, Write, stream, Terminal
<1>7. CASE Interrupt
  BY <1>7, <1>6 DEF Interrupt, LeaveLoop, Handler, engine, batching, observer
<1>8. CASE WriteFails \/ WriteRepeats
  BY <1>8, <1>6 DEF WriteFails, WriteRepeats, Applied, LeaveLoop, Handler, ProcOnly, engine,
     batching, observer
<1>9. CASE TakeBatch \/ PushBatch \/ PushFails \/ PushRepeats \/ WriterStops
  BY <1>9 DEF TakeBatch, PushBatch, PushFails, PushRepeats, WriterStops, BreakPush, Write,
     WriterOnly,
     Handler, stream, engine, batching, observer, WriterLive, Control
<1>10. ASSUME NEW c \in Caller, Call(c) \/ CallStep(c)
       PROVE  Labels'
  BY <1>10 DEF Call, CallStep, CancelTask, NoTask, TaskAwaited, CancelService,
     SetStatusCancelled, DeleteStream, CallOnly, SetStatus, stream, batching, observer, Terminal
<1>11. CASE Observe \/ ObserverStep
  BY <1>11 DEF Observe, ObserverStep, ReadBatch, ReadNothing, CheckStatus, FinalRead,
     ObserverOnly, stream, engine, batching, Terminal
<1> QED
  BY <1>1, <1>2, <1>3, <1>4, <1>5, <1>7, <1>8, <1>9, <1>10, <1>11
     DEF Next, ProcessorStep, WriterStep

(* The sequences.                                                          *)
Sequenced ==
    /\ log \in Seq(Payload) /\ pending \in Seq(Payload) /\ inflight \in Seq(Payload)
    /\ writer = "writing" <=> inflight # <<>>
    /\ pos \in 0..Len(log)
    /\ trimmed \in 0..Len(log) /\ (trimmed > 0 => trimmed + MaxLen <= Len(log))

(* What a step does to what is yielded and not read: nothing, it queues    *)
(* an event, records an error, takes or pushes a batch, breaks a push, or  *)
(* deletes the log; a push or a report may be repeated.                    *)
AtBlock == proc \in {"flush", "mark"}
Stays ==
    /\ UNCHANGED <<log, batching, pos>>
    /\ proc \in Over => proc' \in Over
    /\ proc = "unwind" => proc' = "unwind"
    /\ proc \in {"report", "fail", "done"} => proc' \in {"report", "fail", "done"}
    /\ proc \in {"fail", "done"} => proc' \in {"fail", "done"}
    /\ proc' = "fail" => proc = "fail"
    /\ proc \in Ending => proc' \in Ending
    /\ \/ next' = next /\ (AtBlock' = AtBlock \/ proc' \in Over \cup {"unwind"})
       \/ next' = next + 1 /\ proc = "loop" /\ proc' = "flush"
Queues ==
    /\ UNCHANGED <<log, inflight, pos>>
    /\ \/ proc = "loop" /\ next' = next + 1
       \/ proc = "mark" /\ next' = next
    /\ next' \in 1..Events /\ pending' = Append(pending, next')
    /\ \/ /\ proc' = "loop" /\ writer # "failed"
          /\ writer' = writer \/ (writer # "writing" /\ writer' = "ready")
       \/ proc' = "report" /\ writer = "failed" /\ writer' = "failed"
Reports ==
    /\ log' = log \o <<Error>> /\ UNCHANGED <<batching, next, pos>>
    /\ proc = "report" /\ proc' \in {"report", "fail", "done"}
Takes ==
    /\ writer = "ready" /\ writer' = "writing"
    /\ inflight' = pending /\ pending' = <<>> /\ UNCHANGED <<log, proc, next, pos>>
Pushes ==
    /\ writer = "writing" /\ writer' = IF pending = <<>> THEN "done" ELSE "writing"
    /\ log' = log \o inflight /\ inflight' = pending /\ pending' = <<>>
    /\ UNCHANGED <<proc, next, pos>>
Repeats ==
    /\ \E k \in 1..Len(inflight) : log' = log \o SubSeq(inflight, 1, k)
    /\ writer = "writing" /\ UNCHANGED <<batching, proc, next, pos>>
Breaks ==
    /\ \E k \in 0..Len(inflight) : log' = log \o SubSeq(inflight, 1, k)
    /\ inflight' = <<>> /\ UNCHANGED <<pending, next, pos>>
    /\ writer \in WriterLive
    /\ \/ writer' = "failed" /\ proc' = proc
       \/ writer' = "cancelled" /\ proc = "unwind" /\ proc' \in {"cancel", "report"}
Deletes ==
    /\ gone' = TRUE /\ log' = <<>> /\ pos' = 0
    /\ UNCHANGED <<batching, proc, next>>
Reads == pos' = Len(log) /\ UNCHANGED <<log, batching, proc, next>>

LEMMA Moves ==
  ASSUME Labels, Control, Next
  PROVE  Stays \/ Queues \/ Reports \/ Takes \/ Pushes \/ Repeats \/ Breaks \/ Deletes \/ Reads
<1> USE DEF Labels, Control, Over, Ending, Idle, WriterLive
<1>1. CASE CreateStream \/ StartTask \/ Begin \/ SetPending \/ SetCompleted \/ SetCancelled
           \/ SetError
  BY <1>1 DEF CreateStream, StartTask, Begin, SetPending, SetCompleted, SetCancelled,
     SetError, At, ProcOnly, SetStatus, stream, engine, batching, observer, Stays, AtBlock
<1>2. CASE Flushed \/ EngineEnds \/ EngineRaises \/ LastBatch
  BY <1>2 DEF Flushed, EngineEnds, EngineRaises, LastBatch, LeaveLoop, Handler, At, ProcOnly,
     stream, engine, batching, observer, Stays, AtBlock
<1>3. CASE Yield
  <2>1. next' \in 1..Events
    BY <1>3 DEF Yield
  <2>2. CASE ~marked /\ next' > 1
    BY <1>3, <2>2 DEF Yield, At, ProcOnly, stream, batching, observer, Stays
  <2>3. CASE ~(~marked /\ next' > 1)
    BY <1>3, <2>1, <2>3 DEF Yield, Enqueue, LeaveLoop, Handler, At, ProcOnly, stream,
       observer, Queues
  <2> QED
    BY <2>2, <2>3
<1>4. CASE SetProcessing
  <2>1. next' = next /\ next \in 1..Events
    BY <1>4 DEF SetProcessing, At, engine
  <2> QED
    BY <1>4, <2>1 DEF SetProcessing, SetStatus, Enqueue, At, ProcOnly, observer, Queues
<1>5. CASE PushError
  BY <1>5 DEF PushError, Write, At, ProcOnly, engine, batching, observer, Reports
<1>6. CASE Interrupt \/ WriteFails
  <2>1. CASE UNCHANGED stream \/ UNCHANGED log
    BY <1>6, <2>1 DEF Interrupt, WriteFails, LeaveLoop, Handler, ProcOnly, Registered,
       stream, engine, batching, observer, Stays, AtBlock
  <2>2. CASE proc = "report" /\ Write(<<Error>>)
    BY <1>6, <2>2 DEF Interrupt, WriteFails, Write, ProcOnly, engine, batching, observer, Reports
  <2> QED
    BY <1>6, <2>1, <2>2 DEF Interrupt, WriteFails, Applied, Written, SetStatus
<1>11. CASE WriteRepeats
  BY <1>11 DEF WriteRepeats, Written, Write, SetStatus, ProcOnly, engine, batching, observer,
     Stays, AtBlock, Reports
<1>12. CASE PushRepeats
  BY <1>12 DEF PushRepeats, Write, WriterOnly, engine, observer, Repeats
<1>7. CASE TakeBatch \/ PushBatch
  BY <1>7 DEF TakeBatch, PushBatch, Write, WriterOnly, stream, engine, observer, Takes, Pushes
<1>8. CASE PushFails \/ WriterStops
  BY <1>8 DEF PushFails, WriterStops, BreakPush, Write, WriterOnly, Handler, engine, observer,
     Breaks
<1>9. ASSUME NEW c \in Caller, Call(c) \/ CallStep(c)
      PROVE  Stays \/ Deletes
  BY <1>9 DEF Call, CallStep, CancelTask, NoTask, TaskAwaited, CancelService, SetStatusCancelled,
     DeleteStream, CallOnly, SetStatus, stream, batching, observer, Stays, Deletes, AtBlock
<1>10. CASE Observe \/ ObserverStep
  BY <1>10 DEF Observe, ObserverStep, ReadBatch, ReadNothing, CheckStatus, FinalRead,
     ObserverOnly, Read, stream, engine, batching, Stays, Reads, AtBlock
<1> QED
  BY <1>1, <1>2, <1>3, <1>4, <1>5, <1>6, <1>7, <1>8, <1>9, <1>10, <1>11, <1>12
     DEF Next, ProcessorStep, WriterStep

(* What is trimmed leaves MaxLen entries or more.                          *)
LEMMA TrimStep ==
  ASSUME Next
  PROVE  \/ UNCHANGED <<log, trimmed>>
         \/ \E t \in {<<Error>>, inflight} \cup {SubSeq(inflight, 1, k) : k \in 0..Len(inflight)} :
               Write(t)
         \/ log' = <<>> /\ trimmed' = 0
<1>1. CASE CreateStream \/ StartTask \/ Begin \/ SetPending \/ SetCompleted \/ SetCancelled
           \/ SetError \/ Flushed \/ EngineEnds \/ EngineRaises \/ LastBatch \/ SetProcessing
           \/ PushError \/ Yield
  BY <1>1 DEF CreateStream, StartTask, Begin, SetPending, SetCompleted, SetCancelled,
     SetError, Flushed, EngineEnds, EngineRaises, LastBatch, SetProcessing, PushError, Yield,
     SetStatus, stream
<1>2. CASE Interrupt \/ WriteFails \/ WriteRepeats
  BY <1>2 DEF Interrupt, WriteFails, WriteRepeats, Applied, Written, SetStatus, stream
<1>3. CASE TakeBatch \/ PushBatch \/ PushFails \/ PushRepeats \/ WriterStops
  <2>1. \A k \in 1..Len(inflight) : k \in 0..Len(inflight)
    OBVIOUS
  <2> QED
    BY <1>3, <2>1 DEF TakeBatch, PushBatch, PushFails, PushRepeats, WriterStops, BreakPush, stream
<1>4. ASSUME NEW c \in Caller, Call(c) \/ CallStep(c)
      PROVE  UNCHANGED <<log, trimmed>> \/ (log' = <<>> /\ trimmed' = 0)
  BY <1>4 DEF Call, CallStep, CancelTask, NoTask, TaskAwaited, CancelService, SetStatusCancelled,
     DeleteStream, SetStatus, stream
<1>5. CASE Observe \/ ObserverStep
  BY <1>5 DEF Observe, ObserverStep, ReadBatch, ReadNothing, CheckStatus, FinalRead,
     ObserverOnly, stream
<1> QED
  BY <1>1, <1>2, <1>3, <1>4, <1>5 DEF Next, ProcessorStep, WriterStep

LEMMA SequencedStep ==
  ASSUME Labels, Sequenced, Control, Next
  PROVE  Sequenced'
<1> USE DEF Sequenced
<1> DEFINE Rest == /\ log \in Seq(Payload) /\ pending \in Seq(Payload) /\ inflight \in Seq(Payload)
                   /\ writer = "writing" <=> inflight # <<>>
                   /\ pos \in 0..Len(log)
<1>1. ASSUME Stays \/ Takes
      PROVE  Rest'
  BY <1>1, Nothing DEF Stays, Takes, batching, Control
<1>2. ASSUME Queues
      PROVE  Rest'
  <2>1. next' \in Payload
    BY <1>2 DEF Queues, Payload
  <2>2. pending' \in Seq(Payload)
    BY <1>2, <2>1 DEF Queues
  <2>3. log' = log /\ pos' = pos /\ inflight' = inflight
    BY <1>2 DEF Queues
  <2>4. writer' = "writing" <=> writer = "writing"
    <3>1. CASE writer' = writer
      BY <3>1
    <3>2. CASE writer' = "ready" /\ writer # "writing"
      BY <3>2
    <3>3. CASE writer' = "failed" /\ writer = "failed"
      BY <3>3
    <3> QED
      BY <1>2, <3>1, <3>2, <3>3 DEF Queues
  <2> QED
    BY <2>2, <2>3, <2>4
<1>3. ASSUME Reports \/ Pushes \/ Repeats \/ Breaks
      PROVE  Rest'
  <2>1. \E t \in Seq(Payload) : log' = log \o t
    <3>1. \A k \in 1..Len(inflight) : k \in 0..Len(inflight)
      OBVIOUS
    <3> QED
      BY <1>3, <3>1, ErrorOnly, Taken DEF Reports, Pushes, Repeats, Breaks
  <2>2. log' \in Seq(Payload) /\ Len(log') >= Len(log)
    BY <2>1, Joined, Nonempty
  <2>3. pos' \in 0..Len(log')
    <3>1. Len(log) \in Nat /\ Len(log') \in Nat /\ pos' = pos
      BY <1>3, <2>2, Nonempty DEF Reports, Pushes, Repeats, Breaks
    <3> QED
      BY <3>1, <2>2
  <2>4. inflight' \in Seq(Payload) /\ pending' \in Seq(Payload)
        /\ (writer' = "writing" <=> inflight' # <<>>)
    BY <1>3, Nothing DEF Reports, Pushes, Repeats, Breaks, batching
  <2> QED
    BY <2>2, <2>3, <2>4
<1>4. ASSUME Deletes \/ Reads
      PROVE  Rest'
  <2>1. Len(log) \in Nat
    BY Nonempty
  <2> QED
    <3>1. CASE Deletes
      BY <3>1, Nothing DEF Deletes, batching
    <3>2. CASE Reads
      BY <3>2, <2>1 DEF Reads, batching
    <3> QED
      BY <1>4, <3>1, <3>2
<1>6. Rest'
  BY Moves, <1>1, <1>2, <1>3, <1>4
<1>5. trimmed' \in 0..Len(log') /\ (trimmed' > 0 => trimmed' + MaxLen <= Len(log'))
  <2>1. CASE UNCHANGED <<log, trimmed>>
    BY <2>1
  <2>2. CASE log' = <<>> /\ trimmed' = 0
    BY <2>2, Nothing
  <2>3. ASSUME NEW t \in {<<Error>>, inflight} \cup {SubSeq(inflight, 1, k) : k \in 0..Len(inflight)},
               Write(t)
        PROVE  trimmed' \in 0..Len(log') /\ (trimmed' > 0 => trimmed' + MaxLen <= Len(log'))
    <3>1. t \in Seq(Payload)
      BY ErrorOnly, Taken
    <3>2. Len(log') \in Nat /\ Len(log) \in Nat /\ Len(log') >= Len(log)
      BY <2>3, <3>1, Joined, Nonempty DEF Write
    <3>3. trimmed' = trimmed \/ (trimmed' \in trimmed..Len(log') /\ trimmed' + MaxLen <= Len(log'))
      BY <2>3 DEF Write
    <3> QED
      BY ONLY Sequenced, <3>2, <3>3, MaxLenAssumption DEF Sequenced
  <2> QED
    BY <2>1, <2>2, <2>3, TrimStep
<1> QED
  BY <1>5, <1>6

LEMMA TypesStep ==
  ASSUME Types, Control, [Next]_vars
  PROVE  Types'
<1>1. CASE Next
  <2>1. Flags /\ CallTypes /\ Labels /\ Sequenced
    BY DEF Types, StreamTypes, TaskTypes, BatchTypes, ObserverTypes, Flags, Labels, Sequenced
  <2>2. Flags' /\ CallTypes' /\ Labels' /\ Sequenced'
    BY <1>1, <2>1, FlagsStep, CallsStep, LabelsStep, SequencedStep
  <2> QED
    BY <2>2 DEF Types, StreamTypes, TaskTypes, BatchTypes, ObserverTypes, Flags, Labels, Sequenced
<1>2. CASE UNCHANGED vars
  BY <1>2 DEF vars, Types, StreamTypes, TaskTypes, BatchTypes, CallTypes, ObserverTypes
<1> QED
  BY <1>1, <1>2

LEMMA ControlStep ==
  ASSUME Types, Control, [Next]_vars
  PROVE  Control'
<1>a. Labels /\ Sequenced /\ struck \in BOOLEAN
  BY DEF Types, StreamTypes, TaskTypes, BatchTypes, ObserverTypes, Labels, Sequenced
<1> USE <1>a DEF Labels, Control, Over, Idle, WriterLive, Registered
<1>1. CASE CreateStream \/ StartTask \/ Begin \/ SetPending \/ SetCompleted \/ SetCancelled
           \/ SetError \/ PushError
  BY <1>1 DEF CreateStream, StartTask, Begin, SetPending, SetCompleted, SetCancelled,
     SetError, PushError, At, ProcOnly, engine, batching
<1>2. CASE Flushed \/ EngineEnds \/ EngineRaises \/ LastBatch
  BY <1>2 DEF Flushed, EngineEnds, EngineRaises, LastBatch, LeaveLoop, Handler, At, ProcOnly,
     engine, batching
<1>3. CASE Yield
  BY <1>3 DEF Yield, Enqueue, LeaveLoop, Handler, At, ProcOnly, batching, Sequenced
<1>4. CASE SetProcessing
  BY <1>4 DEF SetProcessing, Enqueue, LeaveLoop, Handler, At, ProcOnly, engine
<1>5. CASE Interrupt
  BY <1>5 DEF Interrupt, LeaveLoop, Handler, engine, batching
<1>6. CASE WriteFails \/ WriteRepeats
  BY <1>6 DEF WriteFails, WriteRepeats, LeaveLoop, Handler, ProcOnly, engine, batching
<1>7. CASE TakeBatch \/ PushBatch \/ PushFails \/ PushRepeats \/ WriterStops
  BY <1>7 DEF TakeBatch, PushBatch, PushFails, PushRepeats, WriterStops, BreakPush, WriterOnly,
     Handler, engine,
     batching
<1>8. ASSUME NEW c \in Caller, Call(c) \/ CallStep(c)
      PROVE  Control'
  BY <1>8 DEF Call, CallStep, CancelTask, NoTask, TaskAwaited, CancelService,
     SetStatusCancelled, DeleteStream, CallOnly, batching
<1>9. CASE Observe \/ ObserverStep
  BY <1>9 DEF Observe, ObserverStep, ReadBatch, ReadNothing, CheckStatus, FinalRead,
     ObserverOnly, engine, batching
<1>10. CASE UNCHANGED vars
  BY <1>10 DEF vars
<1> QED
  BY <1>1, <1>2, <1>3, <1>4, <1>5, <1>6, <1>7, <1>8, <1>9, <1>10
     DEF Next, ProcessorStep, WriterStep

-----------------------------------------------------------------------------
(* The log and the batches.                                                *)

(* What a step writes goes behind what the log has.                        *)
LEMMA LogGrows ==
  ASSUME Labels, Sequenced,
         Stays \/ Queues \/ Reports \/ Takes \/ Pushes \/ Repeats \/ Breaks \/ Reads
  PROVE  /\ Len(log) \in Nat /\ Len(log') \in Nat /\ Len(log') >= Len(log)
         /\ \A i \in 1..Len(log) : log'[i] = log[i]
<1> USE DEF Sequenced
<1>1. Len(log) \in Nat
  BY Nonempty
<1>2. CASE log' = log
  BY <1>1, <1>2
<1>3. CASE Reports \/ Pushes \/ Repeats \/ Breaks
  <2>1. \E t \in Seq(Payload) : log' = log \o t
    <3>1. \A k \in 1..Len(inflight) : k \in 0..Len(inflight)
      OBVIOUS
    <3> QED
      BY <3>1, <1>3, ErrorOnly, Taken DEF Reports, Pushes, Repeats, Breaks
  <2> QED
    BY <2>1, <1>1, Joined, Nonempty
<1> QED
  BY <1>2, <1>3 DEF Stays, Queues, Takes, Reads

LEMMA TipIsEvent ==
  ASSUME NEW s \in Seq(Payload), s # <<>> => s[Len(s)] # Error
  PROVE  Tip(s) \in Nat
  BY Nonempty DEF Tip, Payload

LEMMA OrderlyMore ==
  ASSUME NEW s \in Seq(Payload), NEW m \in Nat, NEW n \in Nat, m <= n, Orderly(s, m)
  PROVE  Orderly(s, n)
<1>1. \A i \in 1..Len(s) : s[i] = Error \/ s[i] \in Nat
  BY Nonempty DEF Payload
<1> QED
  BY <1>1 DEF Orderly

(* A batch that counts on from what the log has may be put behind it, even *)
(* when a part of it is there already.                                     *)
LEMMA OrderlyJoin ==
  ASSUME NEW s \in Seq(Payload), NEW t \in Seq(Payload), NEW n \in Nat, NEW m \in Nat,
         Orderly(s, m), Through(s), Tip(s) \in Nat, n <= Tip(s),
         Counts(t, n), n + Len(t) <= m
  PROVE  /\ Orderly(s \o t, m) /\ Through(s \o t)
         /\ Len(t) > 0 => Tip(s \o t) = n + Len(t)
<1> DEFINE u == s \o t
           L == Len(s)
           K == Len(t)
<1>1. /\ u \in Seq(Payload) /\ Len(u) = L + K /\ L \in Nat /\ K \in Nat
      /\ \A i \in 1..L : u[i] = s[i]
      /\ \A j \in 1..K : u[L + j] = n + j
  BY Joined DEF Counts
<1>2. /\ L = 0 => Tip(s) = 0
      /\ L > 0 => Tip(s) = s[L]
  BY Nonempty DEF Tip
<1>s. s # <<>> <=> L > 0
  BY Nonempty
<1>u. u # <<>> <=> Len(u) > 0
  BY <1>1, Nonempty
<1> HIDE DEF u, L, K
<1>3. ASSUME NEW i \in 1..L + K
      PROVE  i \in 1..L \/ \E j \in 1..K : i = L + j
  <2>1. CASE i <= L
    BY <2>1, <1>1
  <2>2. CASE i > L
    <3>1. i - L \in 1..K /\ i = L + (i - L)
      BY <2>2, <1>1
    <3> QED
      BY <3>1
  <2> QED
    BY <2>1, <2>2, <1>1
<1>4. ASSUME NEW i \in 1..L + K
      PROVE  \/ u[i] = Error
             \/ /\ u[i] <= m
                /\ IF i = 1 THEN u[i] <= 1 ELSE u[i - 1] # Error /\ u[i] <= u[i - 1] + 1
  <2>1. CASE i \in 1..L
    <3>1. u[i] = s[i] /\ (i # 1 => u[i - 1] = s[i - 1])
      BY <1>1, <2>1
    <3> QED
      BY <2>1, <3>1 DEF Orderly, L
  <2>2. ASSUME NEW j \in 1..K, i = L + j
        PROVE  /\ u[i] <= m
               /\ IF i = 1 THEN u[i] <= 1 ELSE u[i - 1] # Error /\ u[i] <= u[i - 1] + 1
    <3>1. u[i] = n + j /\ n + j <= m
      BY <2>2, <1>1 DEF K
    <3>2. CASE i = 1
      <4>1. L = 0 /\ j = 1
        BY <3>2, <2>2, <1>1
      <4> QED
        BY <3>1, <3>2, <4>1, <1>2
    <3>3. CASE j > 1
      <4>1. j - 1 \in 1..K /\ i - 1 = L + (j - 1) /\ i # 1
        BY <3>3, <2>2, <1>1
      <4>2. u[i - 1] = n + (j - 1)
        BY <4>1, <1>1
      <4> QED
        BY <3>1, <4>1, <4>2
    <3>4. CASE i # 1 /\ j = 1
      <4>1. i - 1 = L /\ L \in 1..L
        BY <3>4, <2>2, <1>1
      <4>2. u[i - 1] = s[L] /\ s[L] = Tip(s)
        BY <4>1, <1>1, <1>2
      <4> QED
        BY <3>1, <3>4, <4>2
    <3> QED
      BY <3>2, <3>3, <3>4
  <2> QED
    BY <1>3, <2>1, <2>2
<1>5. ASSUME NEW i \in 1..L + K, u[i] \in Nat, NEW k \in 1..u[i]
      PROVE  \E j \in 1..i : u[j] = k
  <2>1. ASSUME NEW e \in 1..L, s[e] \in Nat, k <= s[e], e <= i
        PROVE  \E j \in 1..i : u[j] = k
    <3>1. k \in 1..s[e]
      BY <2>1, <1>5
    <3>2. PICK j \in 1..e : s[j] = k
      BY <2>1, <3>1 DEF Through, L
    <3>3. j \in 1..L /\ j \in 1..i
      BY <2>1, <3>2, <1>1
    <3> QED
      BY <3>2, <3>3, <1>1
  <2>2. CASE i \in 1..L
    BY <2>1, <2>2, <1>1, <1>5
  <2>3. ASSUME NEW j \in 1..K, i = L + j
        PROVE  \E h \in 1..i : u[h] = k
    <3>1. k <= n + j
      BY <2>3, <1>1, <1>5
    <3>2. CASE k <= n
      <4>1. L \in 1..L /\ s[L] \in Nat /\ k <= s[L] /\ L <= i
        BY <3>2, <2>3, <1>1, <1>2
      <4> QED
        BY <4>1, <2>1
    <3>3. CASE k > n
      <4>1. k - n \in 1..K /\ L + (k - n) \in 1..i /\ n + (k - n) = k
        BY <3>1, <3>3, <2>3, <1>1
      <4>2. u[L + (k - n)] = k
        BY <4>1, <1>1
      <4> QED
        BY <4>1, <4>2
    <3> QED
      BY <3>1, <3>2, <3>3
  <2> QED
    BY <1>3, <2>2, <2>3
<1>6. Orderly(u, m) /\ Through(u)
  BY <1>1, <1>4, <1>5 DEF Orderly, Through
<1>7. K > 0 => Tip(u) = n + K
  <2> SUFFICES ASSUME K > 0
               PROVE  Tip(u) = n + K
    OBVIOUS
  <2>1. K \in 1..K /\ Len(u) > 0
    BY <1>1
  <2>2. u[L + K] = n + K
    BY <2>1, <1>1
  <2> QED
    BY <2>1, <2>2, <1>1, <1>u DEF Tip
<1> QED
  BY <1>6, <1>7 DEF u, K

(* So may an error.                                                        *)
LEMMA OrderlyError ==
  ASSUME NEW s \in Seq(Payload), NEW m \in Nat, Orderly(s, m), Through(s)
  PROVE  LET u == s \o <<Error>>
         IN  Orderly(u, m) /\ Through(u) /\ u # <<>> /\ u[Len(u)] = Error
<1> DEFINE u == s \o <<Error>>
           L == Len(s)
<1>1. /\ u \in Seq(Payload) /\ Len(u) = L + 1 /\ L \in Nat
      /\ \A i \in 1..L : u[i] = s[i]
      /\ u[L + 1] = Error
  <2>1. /\ u \in Seq(Payload) /\ Len(u) = L + Len(<<Error>>) /\ L \in Nat
        /\ \A i \in 1..L : u[i] = s[i]
        /\ \A i \in 1..Len(<<Error>>) : u[L + i] = <<Error>>[i]
    BY Joined, ErrorOnly
  <2> QED
    BY <2>1, ErrorOnly
<1>2. u # <<>>
  BY <1>1, Nonempty
<1> HIDE DEF u, L
<1>3. ASSUME NEW i \in 1..L + 1
      PROVE  \/ u[i] = Error
             \/ /\ u[i] <= m
                /\ IF i = 1 THEN u[i] <= 1 ELSE u[i - 1] # Error /\ u[i] <= u[i - 1] + 1
  <2>1. CASE i = L + 1
    BY <1>1, <2>1
  <2>2. CASE i \in 1..L
    <3>1. u[i] = s[i] /\ (i # 1 => u[i - 1] = s[i - 1])
      BY <1>1, <2>2
    <3> QED
      BY <2>2, <3>1 DEF Orderly, L
  <2> QED
    BY <2>1, <2>2, <1>1
<1>4. ASSUME NEW i \in 1..L + 1, u[i] \in Nat, NEW k \in 1..u[i]
      PROVE  \E j \in 1..i : u[j] = k
  <2>1. i \in 1..L /\ u[i] = s[i]
    BY <1>1, <1>4
  <2>2. PICK j \in 1..i : s[j] = k
    BY <2>1, <1>4 DEF Through, L
  <2>3. j \in 1..L
    BY <2>1, <2>2, <1>1
  <2> QED
    BY <2>2, <2>3, <1>1
<1>5. Orderly(u, m) /\ Through(u)
  BY <1>1, <1>3, <1>4 DEF Orderly, Through
<1> QED
  BY <1>1, <1>2, <1>5 DEF u

(* The batch of a writer, or the beginning of it, behind the log.          *)
LEMMA BatchBehind ==
  ASSUME Labels, Sequenced, Recorded, ~ErrorWritten, NEW n \in Nat, Held(n),
         NEW k \in 0..Len(inflight)
  PROVE  LET u == log \o SubSeq(inflight, 1, k)
         IN  /\ Orderly(u, next) /\ Through(u)
             /\ k > 0 => Tip(u) = n + k
             /\ ~(u # <<>> /\ u[Len(u)] = Error)
<1> DEFINE t == SubSeq(inflight, 1, k)
           u == log \o t
<1>1. log \in Seq(Payload) /\ inflight \in Seq(Payload) /\ next \in Nat
      /\ Len(inflight) \in Nat /\ Len(pending) \in Nat
  BY Nonempty DEF Sequenced, Labels
<1>2. t \in Seq(Payload) /\ Len(t) = k /\ \A i \in 1..k : t[i] = inflight[i]
  BY <1>1, Taken
<1>3. Counts(t, n)
  <2>1. \A i \in 1..k : inflight[i] = n + i
    BY <1>1 DEF Held, Counts
  <2> QED
    BY <1>2, <2>1 DEF Counts
<1>4. Tip(log) \in Nat /\ n <= Tip(log)
  BY <1>1, TipIsEvent DEF ErrorWritten, Held
<1>5. n + k <= next
  BY <1>1 DEF Held
<1>6. u \in Seq(Payload) /\ Len(u) = Len(log) + k /\ Len(log) \in Nat
      /\ \A i \in 1..Len(log) : u[i] = log[i]
  BY <1>1, <1>2, Joined
<1> HIDE DEF t
<1>7. Orderly(u, next) /\ Through(u) /\ (k > 0 => Tip(u) = n + k)
  BY <1>1, <1>2, <1>3, <1>4, <1>5, OrderlyJoin DEF Recorded
<1>8. ~(u # <<>> /\ u[Len(u)] = Error)
  <2> HIDE DEF u
  <2> SUFFICES ASSUME u # <<>>
               PROVE  u[Len(u)] # Error
    OBVIOUS
  <2>1. CASE k > 0
    BY <2>1, <1>7 DEF Tip
  <2>2. CASE k = 0
    <3>1. Len(u) > 0 /\ Len(log) = Len(u)
      BY <2>2, <1>6, Nonempty
    <3>2. log # <<>> /\ u[Len(u)] = log[Len(log)]
      BY <3>1, <1>1, <1>6, Nonempty
    <3> QED
      BY <3>2 DEF ErrorWritten
  <2> QED
    BY <2>1, <2>2
<1> QED
  BY <1>7, <1>8 DEF u, t

(* A writer at work has a batch that goes on where the log ends.           *)
LEMMA WriterHolds ==
  ASSUME Control, Recorded, Batched, writer \in WriterLive
  PROVE  proc \notin Over /\ ~ErrorWritten /\ \E n \in Nat : Held(n)
  BY DEF Control, Recorded, Batched, WriterLive, Over

LEMMA WholeBatch ==
  ASSUME Sequenced
  PROVE  Len(inflight) \in 0..Len(inflight) /\ SubSeq(inflight, 1, Len(inflight)) = inflight
  BY Nonempty, SubSeqFull DEF Sequenced

LEMMA RecordedStays ==
  ASSUME Labels, Sequenced, Recorded, log' = log, next' = next \/ next' = next + 1,
         proc \in {"report", "fail", "done"} => proc' \in {"report", "fail", "done"},
         proc' = "fail" => proc = "fail"
  PROVE  Recorded'
<1>1. next \in Nat /\ next' \in Nat /\ next <= next' /\ log \in Seq(Payload)
  BY DEF Labels, Sequenced
<1>2. Orderly(log, next')
  BY <1>1, OrderlyMore DEF Recorded
<1> QED
  BY <1>2 DEF Recorded, ErrorWritten

LEMMA RecordedReports ==
  ASSUME Labels, Sequenced, Recorded, Reports
  PROVE  Recorded'
<1>1. next \in Nat /\ log \in Seq(Payload)
  BY DEF Labels, Sequenced
<1>2. log' = log \o <<Error>> /\ next' = next /\ proc' \in {"report", "fail", "done"}
  BY DEF Reports
<1>3. Orderly(log', next') /\ Through(log') /\ ErrorWritten'
  BY <1>1, <1>2, OrderlyError DEF Recorded, ErrorWritten
<1> QED
  BY <1>2, <1>3 DEF Recorded

LEMMA RecordedPushes ==
  ASSUME Labels, Sequenced, Control, Recorded, Batched, Pushes \/ Repeats \/ Breaks
  PROVE  Recorded'
<1>1. writer \in WriterLive /\ next' = next
  BY DEF Pushes, Repeats, Breaks, WriterLive
<1>2. proc \notin Over /\ ~ErrorWritten /\ \E n \in Nat : Held(n)
  BY <1>1, WriterHolds
<1>3. PICK k \in 0..Len(inflight) : log' = log \o SubSeq(inflight, 1, k)
  <2>1. \A k \in 1..Len(inflight) : k \in 0..Len(inflight)
    OBVIOUS
  <2> QED
    BY <2>1, WholeBatch DEF Pushes, Repeats, Breaks
<1>4. Orderly(log', next') /\ Through(log') /\ ~ErrorWritten'
  BY <1>1, <1>2, <1>3, BatchBehind DEF ErrorWritten
<1>5. proc' # "fail"
  BY <1>2 DEF Pushes, Repeats, Breaks, Over
<1> QED
  BY <1>4, <1>5 DEF Recorded

LEMMA RecordedStep ==
  ASSUME Labels, Sequenced, Control, Recorded, Batched, Next, ~gone'
  PROVE  Recorded'
<1>1. CASE Stays
  BY <1>1, RecordedStays DEF Stays
<1>2. CASE Queues \/ Takes \/ Reads
  BY <1>2, RecordedStays DEF Queues, Takes, Reads
<1>3. CASE Reports
  BY <1>3, RecordedReports
<1>4. CASE Pushes \/ Repeats \/ Breaks
  BY <1>4, RecordedPushes
<1>5. ~Deletes
  BY DEF Deletes
<1> QED
  BY <1>1, <1>2, <1>3, <1>4, <1>5, Moves

LEMMA CountsAppend ==
  ASSUME NEW s \in Seq(Payload), NEW n \in Nat, NEW e \in Payload,
         Counts(s, n), e = n + Len(s) + 1
  PROVE  Counts(Append(s, e), n) /\ Len(Append(s, e)) = Len(s) + 1
<1>1. /\ Len(Append(s, e)) = Len(s) + 1 /\ Len(s) \in Nat
      /\ \A i \in 1..Len(s) : Append(s, e)[i] = s[i]
      /\ Append(s, e)[Len(s) + 1] = e
  BY AppendProperties, Nonempty
<1> QED
  BY <1>1 DEF Counts

LEMMA CountsNothing ==
  ASSUME NEW n \in Nat
  PROVE  Counts(<<>>, n)
  BY Nothing DEF Counts

LEMMA BatchedStep ==
  ASSUME Labels, Sequenced, Control, Recorded, Batched, Next, ~gone'
  PROVE  Batched'
<1> SUFFICES ASSUME proc' \notin Over, writer' # "failed"
             PROVE  \E n \in Nat : Held(n)'
  BY DEF Batched
<1>1. /\ Len(inflight) \in Nat /\ Len(pending) \in Nat /\ next \in Nat
      /\ inflight # <<>> <=> Len(inflight) > 0
      /\ Len(<<>>) = 0
  BY Nonempty, Nothing DEF Sequenced, Labels
<1>2. CASE Stays
  <2>1. proc \notin Over /\ writer # "failed"
    BY <1>2 DEF Stays, batching
  <2>2. PICK n \in Nat : Held(n)
    BY <2>1 DEF Batched
  <2>3. Held(n)'
    BY <1>1, <1>2, <2>1, <2>2 DEF Stays, Held, Enqueued, AtBlock, Over, batching, Counts, Tip
  <2> QED
    BY <2>3
<1>3. CASE Queues
  <2>1. proc \notin Over /\ writer # "failed" /\ proc # "unwind" /\ proc' = "loop"
    BY <1>3 DEF Queues, Over
  <2>2. PICK n \in Nat : Held(n)
    BY <2>1 DEF Batched
  <2>3. /\ next' = n + Len(inflight) + Len(pending) + 1 /\ next' \in Payload
        /\ next' = (n + Len(inflight)) + Len(pending) + 1 /\ n + Len(inflight) \in Nat
    BY <1>1, <1>3, <2>1, <2>2 DEF Queues, Held, Enqueued, Payload
  <2>4. Counts(pending', n + Len(inflight)) /\ Len(pending') = Len(pending) + 1
    BY <1>3, <2>2, <2>3, CountsAppend DEF Queues, Sequenced, Held
  <2>5. log' = log /\ inflight' = inflight /\ Enqueued' = next'
    BY <1>3, <2>1 DEF Queues, Enqueued
  <2>6. Held(n)'
    BY <1>1, <2>1, <2>2, <2>3, <2>4, <2>5 DEF Held, Tip, Counts
  <2> QED
    BY <2>6
<1>4. CASE Reports
  BY <1>4 DEF Reports, Over
<1>5. CASE Takes
  <2>1. inflight = <<>> /\ Len(inflight) = 0
    BY <1>5, Nothing DEF Takes, Sequenced
  <2>2. PICK n \in Nat : Held(n)
    BY <1>5, WriterHolds DEF Takes, WriterLive
  <2>3. Held(n)'
    BY <1>1, <1>5, <2>1, <2>2, CountsNothing DEF Takes, Held, Enqueued, Counts, Tip
  <2> QED
    BY <2>3
<1>6. CASE Pushes
  <2>1. ~ErrorWritten /\ \E n \in Nat : Held(n)
    BY <1>6, WriterHolds DEF Pushes, WriterLive
  <2>2. PICK n \in Nat : Held(n)
    BY <2>1
  <2>3. Len(inflight) > 0 /\ log' = log \o SubSeq(inflight, 1, Len(inflight))
    BY <1>1, <1>6, WholeBatch DEF Pushes, Sequenced
  <2>4. Tip(log') = n + Len(inflight)
    BY <2>1, <2>2, <2>3, WholeBatch, BatchBehind
  <2>5. PICK m \in Nat : m = n + Len(inflight)
    BY <1>1
  <2>6. Counts(pending, m) /\ m + Len(pending) <= next
        /\ (proc # "unwind" => m + Len(pending) = Enqueued)
    BY <2>2, <2>5 DEF Held
  <2>7. /\ inflight' = pending /\ pending' = <<>> /\ next' = next /\ proc' = proc
        /\ Enqueued' = Enqueued /\ Tip(log)' = m
    BY <1>6, <2>4, <2>5 DEF Pushes, Enqueued
  <2>8. Counts(<<>>, m + Len(pending)) /\ m + Len(pending) + 0 = m + Len(pending)
    BY <1>1, CountsNothing
  <2>9. Held(m)'
    BY <1>1, <2>6, <2>7, <2>8 DEF Held, Counts
  <2> QED
    BY <2>9
<1>7. CASE Repeats
  <2>1. ~ErrorWritten /\ \E n \in Nat : Held(n)
    BY <1>7, WriterHolds DEF Repeats, WriterLive
  <2>2. PICK n \in Nat : Held(n)
    BY <2>1
  <2>3. PICK k \in 1..Len(inflight) : log' = log \o SubSeq(inflight, 1, k)
    BY <1>7 DEF Repeats
  <2>4. k \in 0..Len(inflight) /\ k > 0 /\ n <= n + k
    OBVIOUS
  <2>5. Tip(log') = n + k
    BY <2>1, <2>2, <2>3, <2>4, BatchBehind
  <2>6. UNCHANGED <<batching, proc, next>> /\ Enqueued' = Enqueued
    BY <1>7 DEF Repeats, Enqueued
  <2>7. Held(n)'
    BY <2>2, <2>4, <2>5, <2>6 DEF Held, Tip, Counts, batching
  <2> QED
    BY <2>7
<1>8. CASE Breaks
  BY <1>8 DEF Breaks, Over
<1>9. CASE Reads
  <2>1. proc \notin Over /\ writer # "failed"
    BY <1>9 DEF Reads, batching
  <2>2. PICK n \in Nat : Held(n)
    BY <2>1 DEF Batched
  <2>3. Held(n)'
    BY <1>9, <2>2 DEF Reads, batching, Held, Enqueued, Counts, Tip
  <2> QED
    BY <2>3
<1>10. ~Deletes
  BY DEF Deletes
<1> QED
  BY <1>2, <1>3, <1>4, <1>5, <1>6, <1>7, <1>8, <1>9, <1>10, Moves

-----------------------------------------------------------------------------
(* The status.                                                             *)

(* Who sets which status, and where.                                       *)
LEMMA StatusMoves ==
  ASSUME Labels, Control, Next
  PROVE  \/ hash' \in {hash, "pending", "cancelled", "none"}
         \/ hash' = "processing" /\ proc = "mark"
         \/ hash' = "completed" /\ proc = "complete"
         \/ hash' = "error" /\ proc = "fail"
<1> USE DEF Control, Over, Idle, WriterLive
<1>1. CASE CreateStream \/ StartTask \/ Begin \/ SetPending \/ SetCompleted \/ SetCancelled
           \/ SetError \/ Flushed \/ EngineEnds \/ EngineRaises \/ LastBatch \/ SetProcessing
           \/ PushError \/ Yield
  BY <1>1 DEF CreateStream, StartTask, Begin, SetPending, SetCompleted, SetCancelled,
     SetError, Flushed, EngineEnds, EngineRaises, LastBatch, SetProcessing, PushError, Yield,
     At, SetStatus, Write, stream
<1>2. CASE Interrupt \/ WriteFails \/ WriteRepeats
  BY <1>2 DEF Interrupt, WriteFails, WriteRepeats, Applied, Written, SetStatus, Write, stream
<1>3. CASE TakeBatch \/ PushBatch \/ PushFails \/ PushRepeats \/ WriterStops
  BY <1>3 DEF TakeBatch, PushBatch, PushFails, PushRepeats, WriterStops, BreakPush, Write, stream
<1>4. ASSUME NEW c \in Caller, Call(c) \/ CallStep(c)
      PROVE  hash' \in {hash, "cancelled", "none"}
  BY <1>4 DEF Call, CallStep, CancelTask, NoTask, TaskAwaited, CancelService, SetStatusCancelled,
     DeleteStream, SetStatus, stream
<1>5. CASE Observe \/ ObserverStep
  BY <1>5 DEF Observe, ObserverStep, ReadBatch, ReadNothing, CheckStatus, FinalRead,
     ObserverOnly, stream
<1> QED
  BY <1>1, <1>2, <1>3, <1>4, <1>5 DEF Next, ProcessorStep, WriterStep

(* The engine goes on yielding only in the loop, and an error that was     *)
(* reported stays the last word.                                           *)
LEMMA EndingStays ==
  ASSUME Labels, Sequenced, Control, Next
  PROVE  /\ proc \in Ending => proc' \in Ending /\ next' = next
         /\ proc \in {"fail", "done"} =>
               proc' \in {"fail", "done"} /\ (~gone' => log' = log)
  BY Moves DEF Stays, Queues, Reports, Takes, Pushes, Repeats, Breaks, Deletes, Reads, Over,
     Ending, Idle, Control, WriterLive

LEMMA AddedStays ==
  ASSUME Labels, Sequenced, Control, Next, ~gone', NEW k, NEW i \in 1..Len(log), log[i] = k
  PROVE  \E j \in 1..Len(log') : log'[j] = k
<1>1. ~Deletes
  BY DEF Deletes
<1>2. Len(log) \in Nat /\ Len(log') \in Nat /\ Len(log') >= Len(log) /\ log'[i] = log[i]
  BY <1>1, Moves, LogGrows
<1> QED
  BY <1>2

LEMMA AllWrittenStays ==
  ASSUME Labels, Sequenced, Control, Next, ~gone', AllWritten, next' = next
  PROVE  AllWritten'
  BY AddedStays DEF AllWritten

(* Before the handlers, an idle writer has written all it was given.       *)
LEMMA NothingHeld ==
  ASSUME Labels, Sequenced, Control, Recorded, Batched, proc \in {"mark", "complete"},
         NEW k \in 1..Enqueued
  PROVE  \E i \in 1..Len(log) : log[i] = k
<1>1. writer \in Idle /\ pending = <<>> /\ inflight = <<>>
  BY DEF Control, Idle, Sequenced
<1>2. PICK n \in Nat : Held(n)
  BY <1>1 DEF Batched, Over, Idle
<1>3. ~ErrorWritten
  BY DEF Recorded
<1>4. Tip(log) \in Nat
  BY <1>3, TipIsEvent DEF ErrorWritten, Sequenced
<1>5. n = Enqueued /\ n <= Tip(log)
  BY <1>1, <1>2, Nothing DEF Held
<1>6. log # <<>> /\ Len(log) \in 1..Len(log) /\ log[Len(log)] = Tip(log)
  <2>1. Tip(log) # 0
    BY <1>4, <1>5
  <2> QED
    BY <2>1, Nonempty DEF Tip, Sequenced
<1>7. k \in 1..log[Len(log)]
  BY <1>4, <1>5, <1>6
<1> QED
  BY <1>4, <1>6, <1>7 DEF Recorded, Through

LEMMA StatusStep ==
  ASSUME Labels, Sequenced, Control, Recorded, Batched, StatusEarned, Next, ~gone'
  PROVE  StatusEarned'
<1>1. next \in Nat
  BY DEF Labels
<1>2. ASSUME hash' = "processing"
      PROVE  FirstWritten'
  <2>1. FirstWritten
    <3>1. CASE proc = "mark"
      <4>1. 1 \in 1..Enqueued
        BY <1>1, <3>1 DEF Control, Enqueued
      <4> QED
        BY <3>1, <4>1, NothingHeld DEF FirstWritten
    <3> QED
      BY <1>2, <3>1, StatusMoves DEF StatusEarned
  <2> QED
    BY <2>1, AddedStays DEF FirstWritten
<1>3. ASSUME hash' = "completed"
      PROVE  AllWritten' /\ proc' \in Ending
  <2>1. AllWritten /\ proc \in Ending
    <3>1. CASE proc = "complete"
      BY <3>1, NothingHeld DEF AllWritten, Enqueued, Ending
    <3> QED
      BY <1>3, <3>1, StatusMoves DEF StatusEarned
  <2> QED
    BY <2>1, EndingStays, AllWrittenStays
<1>4. ASSUME hash' = "error"
      PROVE  ErrorWritten' /\ proc' \in {"fail", "done"}
  <2>1. proc \in {"fail", "done"} /\ ErrorWritten
    BY <1>4, StatusMoves DEF StatusEarned, Recorded
  <2> QED
    BY <2>1, EndingStays DEF ErrorWritten
<1> QED
  BY <1>2, <1>3, <1>4 DEF StatusEarned

-----------------------------------------------------------------------------
(* The observer.                                                           *)

Same == UNCHANGED <<log, proc, next, hash>>

LEMMA Watches ==
  ASSUME Labels, Sequenced, Next, ~gone'
  PROVE  \/ UNCHANGED <<obs, seen, pos>>
         \/ obs' \notin {"drain", "ended"}
         \/ obs' = "drain" /\ seen' = "completed" /\ Same /\ log # <<>> /\ log[Len(log)] = Events
         \/ obs' = "drain" /\ seen' = hash /\ Same
         \/ obs = "drain" /\ obs' = "ended" /\ seen' = seen /\ pos' = Len(log) /\ Same
<1>1. CASE ProcessorStep \/ EngineRaises \/ WriteFails \/ WriteRepeats
  BY <1>1 DEF ProcessorStep, CreateStream, StartTask, Begin, SetPending, SetCompleted,
     SetCancelled, SetError, Flushed, EngineEnds, EngineRaises, LastBatch, SetProcessing,
     PushError, Yield, Interrupt, WriteFails, WriteRepeats, ProcOnly, observer
<1>2. CASE WriterStep \/ PushFails \/ PushRepeats
  BY <1>2 DEF WriterStep, TakeBatch, PushBatch, PushFails, PushRepeats, WriterStops, WriterOnly,
     observer
<1>3. ASSUME NEW c \in Caller, Call(c) \/ CallStep(c)
      PROVE  UNCHANGED <<obs, seen, pos>>
  BY <1>3 DEF Call, CallStep, CancelTask, NoTask, TaskAwaited, CancelService, SetStatusCancelled,
     DeleteStream, observer
<1>4. CASE Observe \/ ReadNothing \/ CheckStatus \/ FinalRead
  BY <1>4 DEF Observe, ReadNothing, CheckStatus, FinalRead, Read, ObserverOnly, stream, engine,
     Same
<1>5. CASE ReadBatch
  <2>1. Len(log) > 0
    BY <1>5 DEF ReadBatch, Unread, Sequenced
  <2>2. log # <<>>
    BY <2>1, Nothing
  <2> QED
    BY <1>5, <2>2 DEF ReadBatch, ObserverOnly, stream, engine, Same, Last
<1> QED
  BY <1>1, <1>2, <1>3, <1>4, <1>5 DEF Next, ObserverStep

(* The message_stop of the engine is the last it yields.                   *)
LEMMA StopIsLast ==
  ASSUME Labels, Sequenced, Recorded, log # <<>>, log[Len(log)] = Events
  PROVE  AllWritten /\ next = Events
<1>1. next \in Nat /\ next <= Events /\ Events \in Nat /\ Events # Error
  BY DEF Labels
<1>2. Len(log) \in 1..Len(log)
  BY Nonempty DEF Sequenced
<1>3. Events <= next
  BY <1>1, <1>2 DEF Recorded, Orderly
<1>4. \A k \in 1..Events : \E i \in 1..Len(log) : log[i] = k
  BY <1>1, <1>2 DEF Recorded, Through
<1>5. next = Events
  BY <1>1, <1>3
<1> QED
  BY <1>4, <1>5 DEF AllWritten

(* Whoever told the observer has told the truth, and it stays true.        *)
LEMMA TruthStays ==
  ASSUME Labels, Sequenced, Control, Recorded, Next, ~gone'
  PROVE  /\ AllWritten /\ (next = Events \/ proc \in Ending) =>
               AllWritten' /\ (next' = Events \/ proc' \in Ending) /\ next' = next
         /\ ErrorWritten /\ proc \in {"fail", "done"} =>
               ErrorWritten' /\ proc' \in {"fail", "done"} /\ log' = log
<1>1. ASSUME AllWritten, next = Events \/ proc \in Ending
      PROVE  AllWritten' /\ (next' = Events \/ proc' \in Ending) /\ next' = next
  <2>1. next' = next
    <3>1. CASE proc \in Ending
      BY <3>1, EndingStays
    <3>2. CASE next = Events
      <4>1. next' \in Nat /\ next' <= Events /\ Events \in Nat
        BY LabelsStep DEF Labels
      <4>2. next' = next \/ next' = next + 1
        BY Moves DEF Stays, Queues, Reports, Takes, Pushes, Repeats, Breaks, Deletes, Reads
      <4> QED
        BY <3>2, <4>1, <4>2
    <3> QED
      BY <1>1, <3>1, <3>2
  <2> QED
    BY <1>1, <2>1, EndingStays, AllWrittenStays
<1>2. ASSUME ErrorWritten, proc \in {"fail", "done"}
      PROVE  ErrorWritten' /\ proc' \in {"fail", "done"} /\ log' = log
  BY <1>2, EndingStays DEF ErrorWritten
<1> QED
  BY <1>1, <1>2

LEMMA AllReadStays ==
  ASSUME Labels, Sequenced, Control, Next, ~gone', AllRead, UNCHANGED <<next, pos>>
  PROVE  AllRead'
<1>1. ~Deletes
  BY DEF Deletes
<1>2. Len(log) \in Nat /\ \A i \in 1..Len(log) : log'[i] = log[i]
  BY <1>1, Moves, LogGrows
<1>3. \A i \in 1..pos : log'[i] = log[i]
  BY <1>2 DEF Sequenced
<1> QED
  BY <1>3 DEF AllRead

LEMMA ToldStep ==
  ASSUME Labels, Sequenced, Control, Recorded, StatusEarned, Told, Next, ~gone'
  PROVE  Told'
<1>1. CASE UNCHANGED <<obs, seen, pos>>
  BY <1>1, TruthStays, AllReadStays DEF Told
<1>2. CASE obs' \notin {"drain", "ended"}
  BY <1>2 DEF Told
<1>3. CASE obs' = "drain" /\ seen' = "completed" /\ Same /\ log # <<>> /\ log[Len(log)] = Events
  BY <1>3, StopIsLast DEF Told, Same, AllWritten
<1>4. CASE obs' = "drain" /\ seen' = hash /\ Same
  BY <1>4 DEF Told, Same, AllWritten, ErrorWritten, StatusEarned
<1>5. CASE obs = "drain" /\ obs' = "ended" /\ seen' = seen /\ pos' = Len(log) /\ Same
  BY <1>5 DEF Told, Same, AllWritten, AllRead, ErrorWritten
<1> QED
  BY <1>1, <1>2, <1>3, <1>4, <1>5, Watches

-----------------------------------------------------------------------------
(* Once the task is over nobody writes for it.                             *)

LEMMA DoneIsQuiet ==
  ASSUME Labels, Sequenced, Control, Next, proc = "done"
  PROVE  /\ proc' = "done" /\ log' \in {log, <<>>}
         /\ hash' \in {hash, "cancelled", "none"}
         /\ (\A c \in Caller : ~CallStep(c)) => hash' = hash
<1> USE DEF Control, Over, WriterLive, Registered
<1>1. proc' = "done" /\ log' \in {log, <<>>}
  BY Moves DEF Stays, Queues, Reports, Takes, Pushes, Repeats, Breaks, Deletes, Reads
<1>2. ~ProcessorStep /\ ~EngineRaises /\ ~WriteFails /\ ~WriteRepeats
  BY DEF ProcessorStep, CreateStream, StartTask, Begin, SetPending, SetCompleted, SetCancelled,
     SetError, Flushed, EngineEnds, EngineRaises, LastBatch, SetProcessing, PushError, Yield,
     At, Interrupt, WriteFails, WriteRepeats, Written
<1>3. CASE WriterStep \/ PushFails \/ PushRepeats
  BY <1>1, <1>3 DEF WriterStep, TakeBatch, PushBatch, PushFails, PushRepeats, WriterStops
<1>4. ASSUME NEW c \in Caller, Call(c)
      PROVE  hash' = hash
  BY <1>4 DEF Call, stream
<1>5. ASSUME NEW c \in Caller, CallStep(c)
      PROVE  hash' \in {hash, "cancelled", "none"}
  BY <1>5 DEF CallStep, CancelTask, NoTask, TaskAwaited, CancelService, SetStatusCancelled,
     DeleteStream, SetStatus, stream
<1>6. CASE Observe \/ ObserverStep
  BY <1>6 DEF Observe, ObserverStep, ReadBatch, ReadNothing, CheckStatus, FinalRead,
     ObserverOnly, stream
<1> QED
  BY <1>1, <1>2, <1>3, <1>4, <1>5, <1>6 DEF Next

LEMMA WaitedStep ==
  ASSUME Labels, Sequenced, CallTypes, Control, Waited, Next
  PROVE  Waited'
<1> SUFFICES ASSUME NEW d \in Caller, calls'[d].waited
             PROVE  proc' = "done"
  BY DEF Waited
<1>1. ASSUME proc = "done"
      PROVE  proc' = "done"
  BY <1>1, DoneIsQuiet
<1>2. CASE calls[d].waited
  BY <1>1, <1>2 DEF Waited
<1>3. CASE ~calls[d].waited
  <2>1. PICK c \in Caller : Call(c) \/ CallStep(c)
    BY <1>3 DEF Next, ProcessorStep, WriterStep, ObserverStep, CreateStream, StartTask,
       Begin, SetPending, Yield, Flushed, SetProcessing, EngineEnds, EngineRaises,
       LastBatch, SetCompleted, SetCancelled, PushError, SetError, WriteFails, WriteRepeats,
       Interrupt,
       TakeBatch, PushBatch, PushFails, PushRepeats, WriterStops, ProcOnly, WriterOnly,
       Observe, ReadBatch, ReadNothing, CheckStatus, FinalRead, ObserverOnly
  <2>2. calls \in [Caller -> Calls] /\ calls[c] \in Calls /\ calls[d] \in Calls
    BY DEF CallTypes
  <2>3. ASSUME NEW r, calls' = [calls EXCEPT ![c] = r], r.waited = calls[c].waited
        PROVE  FALSE
    <3>1. calls'[d] = IF d = c THEN r ELSE calls[d]
      BY <2>2, <2>3
    <3> QED
      BY <1>3, <2>3, <3>1
  <2>4. ~Call(c)
    <3>1. ASSUME NEW op, calls' = [calls EXCEPT ![c].pc = "task", ![c].op = op]
          PROVE  FALSE
      <4>1. calls' = [calls EXCEPT ![c] = [calls[c] EXCEPT !.pc = "task", !.op = op]]
        BY <2>2, <3>1
      <4>2. [calls[c] EXCEPT !.pc = "task", !.op = op].waited = calls[c].waited
        BY <2>2 DEF Calls
      <4> QED
        BY <2>3, <4>1, <4>2
    <3> QED
      BY <3>1 DEF Call
  <2>5. ASSUME NEW pc
        PROVE  ~CallGoes(c, pc)
    <3>1. [calls[c] EXCEPT !.pc = pc].waited = calls[c].waited
      BY <2>2 DEF Calls
    <3> QED
      BY <2>3, <3>1 DEF CallGoes
  <2>6. ~CallReturns(c)
    <3>1. [calls[c] EXCEPT !.pc = "returned", !.success = FALSE].waited = calls[c].waited
      BY <2>2 DEF Calls
    <3> QED
      BY <2>3, <3>1 DEF CallReturns
  <2>7. TaskAwaited(c)
    BY <2>1, <2>4, <2>5, <2>6 DEF CallStep, CancelTask, NoTask, CancelService, SetStatusCancelled,
       DeleteStream, Continue
  <2> QED
    BY <1>1, <2>7 DEF TaskAwaited
<1> QED
  BY <1>2, <1>3

-----------------------------------------------------------------------------
(* The invariant holds.                                                    *)

LEMMA InitIInv == Init => IInv
<1> SUFFICES ASSUME Init
             PROVE  IInv
  OBVIOUS
<1> USE DEF Init
<1>1. Types
  <2>1. IdleCall \in Calls
    BY DEF IdleCall, Calls
  <2>2. CallTypes
    BY <2>1 DEF CallTypes
  <2>3. Flags
    BY Zenon DEF Flags
  <2>4. Labels
    BY DEF Labels, Unstarted
  <2>5. Sequenced
    BY Nothing DEF Sequenced
  <2> QED
    BY <2>2, <2>3, <2>4, <2>5 DEF Types, StreamTypes, TaskTypes, BatchTypes, ObserverTypes,
       Flags, Labels, Sequenced
<1>2. Control
  BY DEF Control, Over, Idle, WriterLive, Registered
<1>3. Waited
  BY DEF Waited, IdleCall
<1>4. Recorded /\ Batched
  <2>1. Held(0)
    BY Nothing DEF Held, Tip, Counts, Enqueued
  <2> QED
    BY <2>1, Nothing DEF Recorded, Batched, Orderly, Through, ErrorWritten
<1>5. StatusEarned /\ Told
  BY DEF StatusEarned, Told
<1> QED
  BY <1>1, <1>2, <1>3, <1>4, <1>5 DEF IInv, Kept

LEMMA TypesGive ==
  ASSUME Types
  PROVE  Labels /\ Sequenced /\ CallTypes /\ gone \in BOOLEAN
  BY DEF Types, StreamTypes, TaskTypes, BatchTypes, ObserverTypes, Labels, Sequenced

LEMMA NextIInv == IInv /\ [Next]_vars => IInv'
<1> SUFFICES ASSUME IInv, [Next]_vars
             PROVE  IInv'
  OBVIOUS
<1>1. Labels /\ Sequenced /\ CallTypes /\ Types /\ Control /\ Waited
  BY TypesGive DEF IInv
<1>2. Types' /\ Control'
  BY <1>1, TypesStep, ControlStep
<1>3. CASE UNCHANGED vars
  BY <1>2, <1>3 DEF vars, IInv, Waited, Kept, Recorded, Batched, Counts, Held, Enqueued,
     ErrorWritten, FirstWritten, StatusEarned, AllWritten, AllRead, Told
<1>4. CASE Next
  <2>1. Waited'
    BY <1>1, <1>4, WaitedStep
  <2>2. ASSUME ~gone'
        PROVE  Kept'
    <3>1. ~gone
      BY <1>4, <2>2, GoneStays
    <3>2. Recorded /\ Batched /\ StatusEarned /\ Told
      BY <3>1 DEF IInv, Kept
    <3>3. Recorded' /\ Batched' /\ StatusEarned' /\ Told'
      BY <1>1, <1>4, <2>2, <3>2, RecordedStep, BatchedStep, StatusStep, ToldStep
    <3> QED
      BY <3>3 DEF Kept
  <2> QED
    BY <1>2, <2>1, <2>2 DEF IInv
<1> QED
  BY <1>3, <1>4

LEMMA IInvHolds == Spec => []IInv
  BY InitIInv, NextIInv, PTL DEF Spec

-----------------------------------------------------------------------------
(* What it gives.                                                          *)

(* Every variable keeps its type: the processor writes only payloads, and  *)
(* a writer is running exactly while there is a batch to push.             *)
THEOREM StreamTypesHold == Spec => []TypeOK
<1>1. IInv => TypeOK
  <2> SUFFICES ASSUME IInv
               PROVE  TypeOK
    OBVIOUS
  <2>1. Types /\ (proc = "done" => writer \notin WriterLive)
    BY DEF IInv, Control, Over
  <2> QED
    BY <2>1, Zenon DEF TypeOK, Types, StreamTypes, TaskTypes, BatchTypes, CallTypes, ObserverTypes
<1> QED
  BY <1>1, IInvHolds, PTL

(* What is in the log of a stream that was not deleted is what the engine  *)
(* yielded, in order and without a hole, and behind it an error at most,   *)
(* whatever fails, is repeated or is cancelled.                            *)
THEOREM StreamWithoutHole == Spec => []NoHole
<1>1. IInv => NoHole
  <2> SUFFICES ASSUME IInv, ~gone, NEW i \in DOMAIN log, log[i] # Error
               PROVE  log[i] <= next /\ Before(i) # Error /\ log[i] <= Before(i) + 1
    BY DEF NoHole
  <2>1. Sequenced /\ Recorded
    BY TypesGive DEF IInv, Kept
  <2>2. i \in 1..Len(log) /\ 0 # Error /\ log[i] \in Nat
    BY <2>1 DEF Sequenced, Payload
  <2> QED
    BY <2>1, <2>2 DEF Recorded, Orderly, Before
<1> QED
  BY <1>1, IInvHolds, PTL

(* The status does not overtake the events: it is "processing" when there  *)
(* are some in the log, "completed" when all are, and "error" when the     *)
(* error is, in the order in which the processor awaits its writes.        *)
THEOREM StatusInOrder == Spec => []StatusNotAhead
<1>1. IInv => StatusNotAhead
  <2> SUFFICES ASSUME IInv, ~gone
               PROVE  StatusNotAhead
    BY DEF StatusNotAhead
  <2>1. Labels /\ Sequenced /\ StatusEarned
    BY TypesGive DEF IInv, Kept
  <2>2. DOMAIN log = 1..Len(log)
    BY <2>1 DEF Sequenced
  <2> QED
    BY <2>1, <2>2 DEF StatusNotAhead, StatusEarned, FirstWritten, AllWritten, ErrorWritten, Added,
       Last
<1> QED
  BY <1>1, IInvHolds, PTL

(* An observer that stopped has heard what the status it stopped at says:  *)
(* all the engine yielded, or the error.                                   *)
THEOREM ObserverHearsTheEnd == Spec => []HeardAsSeen
<1>1. IInv => HeardAsSeen
  <2> SUFFICES ASSUME IInv, obs = "ended", ~gone
               PROVE  /\ seen = "completed" => \A k \in 1..next : Heard(k)
                      /\ seen = "error" => pos > 0 /\ log[pos] = Error
    BY DEF HeardAsSeen
  <2>1. Sequenced /\ Told
    BY TypesGive DEF IInv, Kept
  <2>2. log # <<>> => Len(log) > 0
    BY <2>1, Nonempty DEF Sequenced
  <2> QED
    BY <2>1, <2>2 DEF Told, AllRead, ErrorWritten, Heard
<1> QED
  BY <1>1, IInvHolds, PTL

(* A call that waited for the processor waited long enough: afterwards no  *)
(* task writes an event, or a status but that of the calls themselves.     *)
THEOREM CancelledStreamIsQuiet == Spec => QuietAfterCancel
<1> DEFINE Q == Quiet => log' \in {log, <<>>} /\ hash' \in {hash, "cancelled", "none"}
<1>1. IInv /\ [Next]_vars => [Q]_vars
  <2> SUFFICES ASSUME IInv, Next, Quiet
               PROVE  log' \in {log, <<>>} /\ hash' \in {hash, "cancelled", "none"}
    OBVIOUS
  <2>1. proc = "done"
    BY DEF Quiet, IInv, Waited
  <2> QED
    BY <2>1, TypesGive, DoneIsQuiet DEF IInv
<1> QED
  BY <1>1, IInvHolds, PTL DEF Spec, QuietAfterCancel

(* A stream deleted by a call that reached its task stays deleted, unless  *)
(* another call was already under way.                                     *)
THEOREM DeletedStreamStays == Spec => StaysDeleted
<1> DEFINE S == Reached /\ hash = "none" /\ ~InCall => hash' = "none"
<1>1. IInv /\ [Next]_vars => [S]_vars
  <2> SUFFICES ASSUME IInv, Next, Reached, hash = "none", ~InCall
               PROVE  hash' = "none"
    OBVIOUS
  <2>1. proc = "done"
    BY DEF Reached, IInv, Waited
  <2>2. \A c \in Caller : ~CallStep(c)
    BY DEF InCall, CallStep, CancelTask, NoTask, TaskAwaited, CancelService, SetStatusCancelled,
       DeleteStream
  <2> QED
    BY <2>1, <2>2, TypesGive, DoneIsQuiet DEF IInv
<1> QED
  BY <1>1, IInvHolds, PTL DEF Spec, StaysDeleted
=============================================================================
