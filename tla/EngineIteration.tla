---------------------------- MODULE EngineIteration ----------------------------
(***************************************************************************)
(* AsyncChatEngine, for one turn: the iterations of model call, streamed   *)
(* blocks, tool tasks and gather, the pause for tools that run at a        *)
(* worker, and the run that resumes from the checkpoint.  The model and    *)
(* the interceptors are the environment; so is the runner, which resumes   *)
(* with one answer for every tool the pause names (ResumableChat).         *)
(*                                                                         *)
(* A block is named by what it shows; its deltas are left out.  The queue  *)
(* between the iteration and the interceptors is FIFO and the index a      *)
(* block gets there depends on the blocks before it only, so an event is   *)
(* on the wire, with its index, when it is put.                            *)
(***************************************************************************)
EXTENDS Naturals, Sequences, FiniteSets, SequencesExt

CONSTANTS
    Call,           \* the tool calls the model may make
    MaxIterations,  \* max_iterations
    Texts,          \* bound: text and thinking blocks of the turn
    Extras,         \* bound: blocks emitted by BEFORE_ITERATION interceptors
    None

ASSUME BoundsAssumption == {MaxIterations, Texts, Extras} \subseteq Nat
Kind == {"server", "client", "unknown"}     \* who answers a call
TaskState == {"new", "answered", "passed", "out", "refused", "dropped"}

StopReason ==
    {"end_turn", "max_tokens", "stop_sequence", "tool_use", "pause_turn", "refusal"}

ASSUME NoneAssumption == None \notin Call \cup Kind \cup TaskState

VARIABLES
    pc,         \* where the engine is
    is_async,   \* the tool scheduler's: tools run at a Celery worker
    iteration,  \* runtime.iteration
    count,      \* run.block_count, stored as runtime.next_block_count
    index,      \* _current_index of EnsureIndexIsRefreshedInterceptor
    wire,       \* events emitted into the channel, all runs
    open,       \* active_tool_block or active_block
    calls,      \* tool calls of this iteration, in the order they came
    kind,       \* whose tool it calls; "unknown" is nobody's
    task,       \* the task of _handle_tool_use
    messages,   \* request.messages, from this turn on
    pending,    \* pending_async_tools
    reason,     \* stop_reason
    prompt,     \* history: the messages of the last model call
    asked       \* history: model calls of the turn

stream == <<count, index, wire>>
made == <<calls, kind>>
history == <<prompt, asked>>
vars == <<pc, is_async, iteration, stream, open, made, task, messages, pending,
          reason, history>>

Ends == {"completed", "raised"}

-----------------------------------------------------------------------------
(* Events and messages.                                                    *)

MessageStart == [event |-> "message_start"]
MessageStop == [event |-> "message_stop"]
Start(b, i) == [event |-> "start", block |-> b, index |-> i]
Stop(b) == [event |-> "stop", block |-> b]

Text(n) == <<"text", n>>
Extra(n) == <<"extra", n>>
Use(c) == <<"use", c>>
Result(c) == <<"result", c>>
Block == {Text(n) : n \in 0..Texts} \cup {Extra(n) : n \in 0..Extras}
         \cup {Use(c) : c \in Call} \cup {Result(c) : c \in Call}

ASSUME BlockAssumption == None \notin Block

Positions(type) == {i \in DOMAIN wire : wire[i].event = type}
Started == {wire[i].block : i \in Positions("start")}
Stopped == {wire[i].block : i \in Positions("stop")}
Number(what) == Cardinality({b \in Started : b[1] = what})

Closing(b) == IF b = None THEN <<>> ELSE <<Stop(b)>>

\* Mutant: a block is numbered but not counted.
EmitUncounted(before, b, after) ==
    /\ wire' = wire \o before \o <<Start(b, index)>> \o after
    /\ index' = index + 1
    /\ UNCHANGED count

(* A block of the engine's own, put behind events that start none.         *)
Emit(before, b, after) ==
    /\ wire' = wire \o before \o <<Start(b, index)>> \o after
    /\ index' = index + 1
    /\ count' = count + 1

(* A result block and its stop are put in one go.                          *)
ResultBlocks(cs, first) ==
    FlattenSeq([i \in DOMAIN cs |->
        <<Start(Result(cs[i]), first + i - 1), Stop(Result(cs[i]))>>])

CallMessage(cs) == [role |-> "assistant", calls |-> cs]
ToolMessage(c) == [role |-> "tool", calls |-> <<c>>]
ToolMessages(cs) == [i \in DOMAIN cs |-> ToolMessage(cs[i])]

-----------------------------------------------------------------------------
Init ==
    /\ pc = "loop" /\ is_async \in BOOLEAN
    /\ iteration = 0 /\ count = 0 /\ index = 0
    /\ wire = <<MessageStart>>
    /\ open = None
    /\ calls = <<>> /\ kind = [c \in Call |-> None]
    /\ task = [c \in Call |-> None]
    /\ messages = <<>> /\ pending = {}
    /\ reason = None
    /\ prompt = <<>> /\ asked = 0

-----------------------------------------------------------------------------
(* _continue_loop: another iteration, or the end at max_iterations.        *)

StartIteration ==
    /\ pc = "loop" /\ iteration < MaxIterations
    /\ pc' = "before"
    /\ index' = count
    /\ calls' = <<>>
    /\ UNCHANGED <<is_async, iteration, count, wire, open, kind, task, messages,
                   pending, reason, history>>

Exhausted ==
    /\ pc = "loop" /\ iteration >= MaxIterations
    /\ pc' = "close"
    /\ reason' = "max_tokens"
    /\ UNCHANGED <<is_async, iteration, stream, open, made, task, messages,
                   pending, history>>

(* An interceptor of the iteration shows a block, which only the index     *)
(* interceptor counts.                                                     *)
Inject ==
    LET b == Extra(Number("extra")) IN
    /\ pc = "before" /\ Number("extra") < Extras
    /\ wire' = wire \o <<Start(b, index), Stop(b)>>
    /\ index' = index + 1
    /\ UNCHANGED <<pc, is_async, iteration, count, open, made, task, messages,
                   pending, reason, history>>

AskModel ==
    /\ pc = "before"
    /\ pc' = "stream"
    /\ iteration' = iteration + 1
    /\ prompt' = messages
    /\ asked' = asked + 1
    /\ UNCHANGED <<is_async, stream, open, made, task, messages, pending, reason>>

-----------------------------------------------------------------------------
(* _handle_stream_chunk.  Text, and thinking, shows until the first call.  *)

StreamText ==
    LET b == Text(Number("text")) IN
    /\ pc = "stream" /\ calls = <<>>
    /\ Number("text") < Texts
    /\ Emit(Closing(open), b, <<>>)
    /\ open' = b
    /\ UNCHANGED <<pc, is_async, iteration, made, task, messages, pending,
                   reason, history>>

(* A chunk that shows nothing ends the block.                              *)
StreamBlank ==
    /\ pc = "stream" /\ calls = <<>> /\ open # None
    /\ wire' = wire \o Closing(open)
    /\ open' = None
    /\ UNCHANGED <<pc, is_async, iteration, count, index, made, task, messages,
                   pending, reason, history>>

(* _close_active_tool_block creates the task of the call whose block it    *)
(* closes.                                                                 *)
Spawn == IF calls = <<>> THEN task
         ELSE [task EXCEPT ![calls[Len(calls)]] = "new"]

ShowCall(c, before) ==
    /\ pc = "stream" /\ kind[c] = None
    /\ \E k \in Kind : kind' = [kind EXCEPT ![c] = k]
    /\ Emit(before, Use(c), <<>>)
    /\ open' = Use(c)
    /\ task' = Spawn
    /\ calls' = Append(calls, c)
    /\ UNCHANGED <<pc, is_async, iteration, messages, pending, reason, history>>

\* Mutant: a call closes the call before it, not the text.
OpenCallOverText(c) == ShowCall(c, IF calls = <<>> THEN <<>> ELSE Closing(open))

OpenCall(c) == ShowCall(c, Closing(open))

EndStream ==
    /\ pc = "stream"
    /\ pc' = "fold"
    /\ wire' = wire \o Closing(open)
    /\ open' = None
    /\ task' = Spawn
    /\ UNCHANGED <<is_async, iteration, count, index, made, messages, pending,
                   reason, history>>

(* The calls were read from the response in a thread; the tasks went on.   *)
(* A response without calls ends the turn, for the provider's reason, if   *)
(* it gave one.                                                            *)
Fold ==
    /\ pc = "fold"
    /\ messages' = Append(messages, CallMessage(calls))
    /\ IF calls = <<>> THEN pc' = "close" /\ reason' \in StopReason \cup {None}
                       ELSE pc' = "gather" /\ UNCHANGED reason
    /\ UNCHANGED <<is_async, iteration, stream, open, made, task, pending,
                   history>>

-----------------------------------------------------------------------------
(* _execute_tool_use.  Nothing suspends but the execution of a local tool. *)
(* A task whose run has raised goes on, unseen.                            *)

Becomes(c, state) == task' = [task EXCEPT ![c] = state]

(* A local tool ran, or there is no such tool.                             *)
Answer(c) ==
    /\ task[c] = "new"
    /\ kind[c] = "unknown" \/ (kind[c] = "server" /\ ~is_async)
    /\ Becomes(c, "answered")
    /\ IF pc = "raised" THEN UNCHANGED <<stream, messages>>
       ELSE /\ Emit(<<>>, Result(c), <<Stop(Result(c))>>)
            /\ messages' = Append(messages, ToolMessage(c))
    /\ UNCHANGED <<pc, is_async, iteration, open, made, pending, reason, history>>

(* The call is the caller's to answer.                                     *)
Pass(c) ==
    /\ task[c] = "new" /\ kind[c] = "client"
    /\ Becomes(c, "passed")
    /\ UNCHANGED <<pc, is_async, iteration, stream, open, made, messages,
                   pending, reason, history>>

(* async_execute hands the call to Celery, or the broker refuses it.       *)
Dispatch(c) ==
    /\ task[c] = "new" /\ kind[c] = "server" /\ is_async
    /\ Becomes(c, "out") \/ Becomes(c, "refused")
    /\ UNCHANGED <<pc, is_async, iteration, stream, open, made, messages,
                   pending, reason, history>>

-----------------------------------------------------------------------------
(* The gather, and what follows from its results.                          *)

In(state) == {c \in ToSet(calls) : task[c] = state}

Results ==
    /\ \/ In("refused") # {} /\ pc' = "raised" /\ UNCHANGED <<pending, reason>>
       \/ /\ In("refused") = {} /\ In("out") # {}
          /\ pc' = "waiting"
          /\ pending' = In("out")
          /\ UNCHANGED reason
       \/ /\ In("refused") = {} /\ In("out") = {} /\ In("passed") # {}
          /\ pc' = "close"
          /\ reason' = "tool_use"
          /\ UNCHANGED pending
       \/ /\ In("refused") = {} /\ In("out") = {} /\ In("passed") = {}
          /\ pc' = "after"
          /\ UNCHANGED <<pending, reason>>
    /\ UNCHANGED <<is_async, iteration, stream, open, made, task, messages,
                   history>>

\* Mutant: the results are read as soon as one task is done.
GatherFirst == pc = "gather" /\ In("new") # ToSet(calls) /\ Results

Gather == pc = "gather" /\ In("new") = {} /\ Results

(* EnsureToolAreFlattenInterceptor: one call per assistant message, its    *)
(* answer behind it, wherever the answer was.                              *)
Answered(ms) == {m.calls[1] : m \in {x \in ToSet(ms) : x.role = "tool"}}
Asking(ms) == UNION {ToSet(m.calls) : m \in {x \in ToSet(ms) : x.role = "assistant"}}
Pairs(cs) == FlattenSeq([i \in DOMAIN cs |->
                <<CallMessage(<<cs[i]>>), ToolMessage(cs[i])>>])
Flatten(ms) == FlattenSeq([i \in DOMAIN ms |->
                  IF ms[i].role = "tool" THEN <<>>
                  ELSE IF ms[i].calls = <<>> THEN <<ms[i]>>
                  ELSE Pairs(ms[i].calls)])

\* Mutant: the messages stay where the tasks put them.
AfterUnflattened ==
    /\ pc = "after"
    /\ pc' = "loop"
    /\ UNCHANGED <<is_async, iteration, stream, open, made, task, messages,
                   pending, reason, history>>

AfterIteration ==
    LET whole == Asking(messages) \subseteq Answered(messages) IN
    /\ pc = "after"
    /\ pc' = IF whole THEN "loop" ELSE "raised"
    /\ messages' = IF whole THEN Flatten(messages) ELSE messages
    /\ UNCHANGED <<is_async, iteration, stream, open, made, task, pending,
                   reason, history>>

(* The runner appends the answers in the order of the calls, and           *)
(* _continue_tools_checkpoint shows them and takes up the iterations and   *)
(* the blocks of the checkpoint.                                           *)
Responses ==
    FlattenSeq([i \in DOMAIN calls |->
        IF calls[i] \in pending THEN <<calls[i]>> ELSE <<>>])

ContinueTools(iterations, blocks) ==
    /\ pc = "waiting"
    /\ iteration' = iterations
    /\ count' = blocks + Len(Responses)
    /\ index' = count'
    /\ wire' = wire \o ResultBlocks(Responses, blocks)
    /\ messages' = messages \o ToolMessages(Responses)
    /\ task' = [c \in Call |-> IF c \in pending THEN "answered" ELSE task[c]]
    /\ pending' = {}
    /\ IF In("passed") # {} THEN pc' = "close" /\ reason' = "tool_use"
                            ELSE pc' = "after" /\ UNCHANGED reason
    /\ UNCHANGED <<is_async, open, made, history>>

\* Mutant: the resumed run counts its blocks from zero.
ResumeAtBlockZero == ContinueTools(iteration, 0)

\* Mutant: the resumed run has all its iterations again.
ResumeAtIterationZero == ContinueTools(0, count)

Resume == ContinueTools(iteration, count)

Close ==
    /\ pc = "close"
    /\ pc' = "completed"
    /\ wire' = Append(wire, MessageStop)
    /\ UNCHANGED <<is_async, iteration, count, index, open, made, task, messages,
                   pending, reason, history>>

(* The model's stream, an interceptor or the schema of a call fails, or    *)
(* the turn is cancelled.  Only a gather takes its tasks with it.          *)
Abort ==
    /\ pc \notin Ends \cup {"waiting"}
    /\ pc' = "raised"
    /\ task' = IF pc = "gather"
               THEN [c \in Call |-> IF task[c] = "new" THEN "dropped" ELSE task[c]]
               ELSE task
    /\ UNCHANGED <<is_async, iteration, stream, open, made, messages, pending,
                   reason, history>>

Ended == pc \in Ends /\ UNCHANGED vars

Next ==
    \/ StartIteration \/ Exhausted \/ Inject \/ AskModel
    \/ StreamText \/ StreamBlank \/ EndStream \/ Fold
    \/ \E c \in Call : OpenCall(c) \/ Answer(c) \/ Pass(c) \/ Dispatch(c)
    \/ Gather \/ AfterIteration \/ Resume \/ Close
    \/ Abort \/ Ended

Spec == Init /\ [][Next]_vars

-----------------------------------------------------------------------------
(* Types, and what the stored block count is: the engine's own blocks.     *)
TypeOK ==
    /\ pc \in {"loop", "before", "stream", "fold", "gather", "waiting", "after",
              "close", "completed", "raised"}
    /\ is_async \in BOOLEAN
    /\ iteration \in 0..MaxIterations /\ asked \in 0..MaxIterations
    /\ index \in Nat
    /\ count = Cardinality(Positions("start")) - Number("extra")
    /\ Started \subseteq Block
    /\ open \in Started \cup {None}
    /\ IsInjective(calls) /\ ToSet(calls) \subseteq Call
    /\ kind \in [Call -> Kind \cup {None}]
    /\ task \in [Call -> TaskState \cup {None}]
    /\ pending \subseteq Call
    /\ reason \in StopReason \cup {None}

(* What the model reads is a well-formed conversation: every call of the   *)
(* turn so far, in the order the calls were made, each with its own        *)
(* assistant message and directly followed by its one answer.  Tools       *)
(* answer before the assistant message is appended, after it, in any       *)
(* order, and across a pause.                                              *)
Earlier == {c \in Call : kind[c] # None} \ ToSet(calls)

AnswersFollowCalls ==
    /\ \A i \in DOMAIN prompt :
          /\ prompt[i].role = IF i % 2 = 1 THEN "assistant" ELSE "tool"
          /\ Len(prompt[i].calls) = 1
          /\ i % 2 = 1 => i < Len(prompt) /\ prompt[i + 1].calls = prompt[i].calls
    /\ pc \in {"stream", "fold"} => Asking(prompt) = Earlier
                                  /\ Len(prompt) = 2 * Cardinality(Earlier)
    /\ \A i, j \in DOMAIN prompt : \A c, d \in Call :
          i < j /\ prompt[i].calls = <<c>> /\ prompt[j].calls = <<d>> /\ c # d
          => \E m \in Positions("start") : \E n \in Positions("start") :
                m < n /\ wire[m].block = Use(c) /\ wire[n].block = Use(d)

(* The blocks a client sees: opened once and closed after, the streamed    *)
(* ones one at a time, a result only after its call was shown whole.  A    *)
(* message that ended has no block open, a result for every call the       *)
(* server had to answer and none for the caller's own.  If it waits for    *)
(* the caller it says so; if its last response made calls and it does not  *)
(* wait, it stopped because the model was asked max_iterations times.  The *)
(* reason of a response without calls is the provider's, whatever it is.   *)
StartOf(b) == {i \in Positions("start") : wire[i].block = b}
StopOf(b) == {i \in Positions("stop") : wire[i].block = b}
Shown == {c \in Call : Use(c) \in Started}

BlocksInOrder ==
    /\ \A b \in Started \cup Stopped :
          /\ Cardinality(StartOf(b)) = 1 /\ Cardinality(StopOf(b)) <= 1
          /\ \A i \in StartOf(b), j \in StopOf(b) : i < j
    /\ Started \ Stopped = {open} \ {None}
    /\ \A c \in Call : \A i \in StartOf(Result(c)) :
          \E j \in StopOf(Use(c)) : j < i
    /\ pc = "completed" =>
          /\ Positions("message_stop") = {Len(wire)}
          /\ {c \in Shown : kind[c] # "client"} = {c \in Call : Result(c) \in Started}
          /\ LET theirs == \E c \in Shown : kind[c] = "client" IN
             /\ theirs => reason = "tool_use"
             /\ calls # <<>> /\ ~theirs => reason = "max_tokens" /\ asked = MaxIterations

(* Two blocks of a message have the same index only if an interceptor      *)
(* showed a block before both.  (Without the exception it is false: what   *)
(* the index interceptor counted is overwritten at the iteration's end.)   *)
FreshIndices ==
    \A i, j \in Positions("start") :
       i < j /\ wire[i].index = wire[j].index
       => \E n \in 0..Extras : \E k \in StartOf(Extra(n)) : k <= i

(* However often a turn pauses, and whatever job resumes it, it asks the   *)
(* model no more than max_iterations times.                                *)
ModelCallsBounded == asked <= MaxIterations

-----------------------------------------------------------------------------
(* The runs as their scheduler sees them.                                  *)
Status == IF pc \in Ends \cup {"waiting"} THEN pc ELSE "running"
Out == {c \in Call : task[c] = "out"}
Handed == {c \in Call : task[c] = "out"
              \/ (task[c] = "answered" /\ kind[c] = "server" /\ is_async)}

Runs == INSTANCE EngineRuns WITH
    status <- Status, handed <- Handed, out <- Out, awaited <- pending

ImplementsRuns == Runs!Spec
=============================================================================
