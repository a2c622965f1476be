--------------------------- MODULE StreamMultiplexer ---------------------------
(***************************************************************************)
(* Many observers of many streams in one process: AdaptiveStreamReader     *)
(* sends the first Threshold of them to a Redis connection of their own    *)
(* and the others to a StreamMultiplexer, whose single worker reads every  *)
(* stream once per cycle for all its observers.  The multiplexer starts    *)
(* with its first consumer and is stopped when it has no stream left.      *)
(*                                                                         *)
(* A StreamState, with its pushed, and a multiplexer are named after       *)
(* the consumer whose arrival creates them.  A stream's log is the number  *)
(* of events written to it; the last one is its message_stop.  The lock of *)
(* the multiplexer is never held across an await, so what happens under it *)
(* is one step; the adaptive reader's lock is held while a multiplexer     *)
(* stops.                                                                  *)
(***************************************************************************)
EXTENDS Naturals, FiniteSets

CONSTANTS
    Stream,     \* the streams of this process
    Consumer,   \* the observers that come
    Threshold,  \* multiplexing_threshold
    Events,     \* bound: how many events each stream has
    Called,     \* bound: the streams that one call deletes, or cancels in
                \* another instance
    None

ASSUME ThresholdAssumption == Threshold \in Nat
ASSUME EventsAssumption == Events \in [Stream -> Nat] /\ Called \subseteq Stream
ASSUME ConsumerAssumption == IsFiniteSet(Consumer)
ASSUME NoneAssumption == None \notin Consumer \cup Stream \cup Nat

VARIABLES
    written,    \* how many events were written to each stream's log
    over,       \* the streams with a terminal status
    ended,      \* the streams whose processor has written its last status
    cut,        \* history: how many events there were when another instance
                \* wrote CANCELLED, None if none did
    erased,     \* how many were deleted with the stream, None if it was not
    called,     \* the streams that were called upon
    pc,         \* where each consumer is
    topic,      \* the stream it was added for
    direct,     \* _direct_count
    lock,       \* who holds the adaptive reader's lock
    mux,        \* the current multiplexer
    on,         \* the multiplexer a consumer was added to
    feed,       \* the state whose broadcast it reads
    current,    \* states: the state of each stream in the multiplexer
    members,    \* consumers: who is registered for each stream
    pushed,     \* last_id of a state: how many events its broadcast got
    open,       \* the states whose broadcast is not closed
    work,       \* _process_stream of each stream in the worker's cycle
    held,       \* the state it took
    robbed      \* history: consumers closed by a worker that had read for
                \* another state

streams == <<written, over, ended, cut, erased, called>>
registry == <<current, members, open>>
worker == <<work, held>>
vars == <<written, over, ended, cut, erased, called, pc, topic, direct, lock,
          mux, on, feed, current, members, pushed, open, work, held, robbed>>

Attached == {"reading", "settle", "stopping"}
Stopping == \E c \in Consumer : pc[c] = "stopping"

Goes(c, where) == pc' = [pc EXCEPT ![c] = where]

-----------------------------------------------------------------------------
(* The streams, as StreamProcessing has them.  The processor writes events *)
(* and then a last status; another instance may write CANCELLED while it   *)
(* goes on, and a stream may be deleted at any time.                       *)

StreamOnly ==
    UNCHANGED <<pc, topic, direct, lock, mux, on, feed, pushed, registry,
                worker, robbed>>

Publish(s) ==
    /\ s \notin ended /\ written[s] < Events[s]
    /\ written' = [written EXCEPT ![s] = @ + 1]
    /\ UNCHANGED <<over, ended, cut, erased, called>> /\ StreamOnly

(* A status written to a deleted stream makes a hash that no reader can    *)
(* read.                                                                   *)
Finish(s) ==
    /\ s \notin ended
    /\ ended' = ended \cup {s}
    /\ over' = IF erased[s] = None THEN over \cup {s} ELSE over
    /\ UNCHANGED <<written, cut, erased, called>> /\ StreamOnly

CancelElsewhere(s) ==
    /\ s \in Called \ called /\ called' = called \cup {s}
    /\ s \notin over /\ erased[s] = None
    /\ over' = over \cup {s}
    /\ cut' = [cut EXCEPT ![s] = IF @ = None THEN written[s] ELSE @]
    /\ UNCHANGED <<written, ended, erased>> /\ StreamOnly

(* The processor sets "pending" or "processing", whatever there was.       *)
Overwrite(s) ==
    /\ s \in over /\ s \notin ended
    /\ over' = over \ {s}
    /\ UNCHANGED <<written, ended, cut, erased, called>> /\ StreamOnly

Delete(s) ==
    /\ s \in Called \ called /\ called' = called \cup {s}
    /\ erased[s] = None
    /\ erased' = [erased EXCEPT ![s] = written[s]]
    /\ over' = over \ {s}
    /\ UNCHANGED <<written, ended, cut>> /\ StreamOnly

-----------------------------------------------------------------------------
(* AdaptiveStreamReader.stream_events: the path is chosen under the lock.  *)

Route(c) ==
    /\ pc[c] = "new" /\ lock = None
    /\ IF direct < Threshold
       THEN Goes(c, "direct") /\ direct' = direct + 1
       ELSE Goes(c, "attach") /\ UNCHANGED direct
    /\ UNCHANGED <<streams, topic, lock, mux, on, feed, pushed, registry,
                   worker, robbed>>

(* A direct reader ends, how is in StreamProcessing, and gives its place   *)
(* back when it gets the lock.                                             *)
Release(c) ==
    /\ pc[c] = "direct" /\ lock = None
    /\ Goes(c, "done")
    /\ direct' = direct - 1
    /\ UNCHANGED <<streams, topic, lock, mux, on, feed, pushed, registry,
                   worker, robbed>>

(* _stream_multiplexed captures the multiplexer, a new one if there is     *)
(* none, and add_consumer joins the stream's state, or makes it.  Nothing  *)
(* in between suspends.                                                    *)
Attach(c, s) ==
    LET state == IF current[s] = None THEN c ELSE current[s]
    IN  /\ pc[c] = "attach" /\ lock = None
        /\ mux' = IF mux = None THEN c ELSE mux
        /\ on' = [on EXCEPT ![c] = mux']
        /\ current' = [current EXCEPT ![s] = state]
        /\ open' = IF state = c THEN open \cup {c} ELSE open
        /\ members' = [members EXCEPT ![s] = @ \cup {c}]
        /\ feed' = [feed EXCEPT ![c] = state]
        /\ topic' = [topic EXCEPT ![c] = s]
        /\ Goes(c, "reading")
        /\ UNCHANGED <<streams, direct, lock, pushed, worker, robbed>>

Forget(c) ==
    /\ topic' = [topic EXCEPT ![c] = None]
    /\ feed' = [feed EXCEPT ![c] = None]
    /\ robbed' = robbed \ {c}

\* Mutant: the last consumer leaves the state behind.
RemoveKeepingState(c) ==
    /\ Goes(c, "settle") /\ Forget(c)
    /\ members' = [members EXCEPT ![topic[c]] = @ \ {c}]
    /\ UNCHANGED <<current, open>>
(* remove_consumer: the last one takes the state with it.  A multiplexer   *)
(* that was stopped has neither states nor consumers.                      *)
Remove(c) ==
    LET s == topic[c]
    IN  /\ Goes(c, "settle") /\ Forget(c)
        /\ IF on[c] = mux /\ members[s] = {c}
           THEN /\ members' = [members EXCEPT ![s] = {}]
                /\ current' = [current EXCEPT ![s] = None]
                /\ open' = open \ {current[s]}
           ELSE /\ members' = [members EXCEPT ![s] = @ \ {c}]
                /\ UNCHANGED <<current, open>>

(* read_from yields the broadcast from its beginning and returns at its    *)
(* end; the batches it has yielded so far are left out.                    *)
BroadcastEnds(c) ==
    /\ pc[c] = "reading" /\ feed[c] \notin open
    /\ Remove(c)
    /\ UNCHANGED <<streams, direct, lock, mux, on, pushed, worker>>

ClientLeaves(c) ==
    /\ pc[c] = "reading"
    /\ Remove(c)
    /\ UNCHANGED <<streams, direct, lock, mux, on, pushed, worker>>

\* Mutant: whoever is last to be removed stops it, without another look.
SettleUnchecked(c) ==
    /\ pc[c] = "settle" /\ lock = None
    /\ IF mux = on[c]
       THEN /\ Goes(c, "stopping") /\ lock' = c /\ UNCHANGED on
            /\ work' = [s \in Stream |-> "idle"] /\ held' = [s \in Stream |-> None]
       ELSE Goes(c, "done") /\ on' = [on EXCEPT ![c] = None] /\ UNCHANGED <<lock, worker>>
    /\ UNCHANGED <<streams, topic, direct, mux, feed, pushed, registry, robbed>>
(* Under the lock: stop the multiplexer if it is still the current one and *)
(* has no stream.  Its worker is cancelled wherever it is.                 *)
Settle(c) ==
    /\ pc[c] = "settle" /\ lock = None
    /\ IF mux = on[c] /\ \A s \in Stream : current[s] = None
       THEN /\ Goes(c, "stopping") /\ lock' = c /\ UNCHANGED on
            /\ work' = [s \in Stream |-> "idle"] /\ held' = [s \in Stream |-> None]
       ELSE Goes(c, "done") /\ on' = [on EXCEPT ![c] = None] /\ UNCHANGED <<lock, worker>>
    /\ UNCHANGED <<streams, topic, direct, mux, feed, pushed, registry, robbed>>

(* stop returns when the worker has ended: states and consumers cleared,   *)
(* broadcasts closed.                                                      *)
Stopped(c) ==
    /\ pc[c] = "stopping"
    /\ Goes(c, "done") /\ on' = [on EXCEPT ![c] = None]
    /\ open' = open \ {current[s] : s \in Stream}
    /\ current' = [s \in Stream |-> None]
    /\ members' = [s \in Stream |-> {}]
    /\ mux' = None /\ lock' = None
    /\ UNCHANGED <<streams, topic, direct, feed, pushed, worker, robbed>>

-----------------------------------------------------------------------------
(* _run_worker: a snapshot of the streams, each processed once, all of     *)
(* them awaited before the next cycle.                                     *)

WorkerOnly == UNCHANGED <<streams, pc, topic, direct, lock, mux, on, feed>>

(* The states the tasks of a cycle take: their first steps run together.   *)
StartCycle ==
    /\ mux # None /\ ~Stopping
    /\ \A s \in Stream : work[s] = "idle"
    /\ \E s \in Stream : current[s] # None
    /\ work' = [s \in Stream |-> IF current[s] = None THEN "idle" ELSE "read"]
    /\ held' = current
    /\ UNCHANGED <<registry, pushed, robbed>> /\ WorkerOnly

Work(s, at, to) ==
    /\ work[s] = at
    /\ work' = [work EXCEPT ![s] = to]
    /\ held' = [held EXCEPT ![s] = IF to = "idle" THEN None ELSE @]

(* XREAD: what the log holds behind last_id.                               *)
Unread(s) ==
    /\ pushed[held[s]] < written[s]
    /\ erased[s] # None => erased[s] < written[s]

(* _dispatch updates the state the worker took, if the stream has any.     *)
Dispatch(s) ==
    pushed' = IF current[s] = None \/ ~Unread(s) THEN pushed
              ELSE [pushed EXCEPT ![held[s]] = written[s]]

ReadSome(s) ==
    /\ Work(s, "read", IF written[s] = Events[s] THEN "drain" ELSE "idle")
    /\ Unread(s)
    /\ Dispatch(s)
    /\ UNCHANGED <<registry, robbed>> /\ WorkerOnly

ReadNothing(s) ==
    /\ Work(s, "read", "check")
    /\ ~Unread(s)
    /\ UNCHANGED <<registry, pushed, robbed>> /\ WorkerOnly

CheckStatus(s) ==
    /\ Work(s, "check", IF s \in over THEN "drain" ELSE "idle")
    /\ UNCHANGED <<registry, pushed, robbed>> /\ WorkerOnly

(* _close_all_consumers drops whatever state the stream has now.           *)
CloseAll(s) ==
    /\ current' = [current EXCEPT ![s] = None]
    /\ members' = [members EXCEPT ![s] = {}]
    /\ open' = open \ {current[s]}
    /\ robbed' = IF current[s] = held[s] THEN robbed ELSE robbed \cup members[s]

\* Mutant: consumers are closed without the last read.
DrainNothing(s) ==
    /\ Work(s, "drain", "idle")
    /\ CloseAll(s)
    /\ UNCHANGED pushed /\ WorkerOnly
\* Mutant: the state stays in the table.
DrainKeepingState(s) ==
    /\ Work(s, "drain", "idle")
    /\ Dispatch(s)
    /\ open' = open \ {current[s]}
    /\ members' = [members EXCEPT ![s] = {}]
    /\ UNCHANGED <<current, robbed>> /\ WorkerOnly
\* Mutant: the end is dispatched, but the broadcasts stay open.
DrainOnly(s) ==
    /\ Work(s, "drain", "idle")
    /\ Dispatch(s)
    /\ UNCHANGED <<registry, robbed>> /\ WorkerOnly
(* A last read after the terminal status, then the end.                    *)
Drain(s) ==
    /\ Work(s, "drain", "idle")
    /\ Dispatch(s)
    /\ CloseAll(s)
    /\ WorkerOnly

-----------------------------------------------------------------------------
Init ==
    /\ written = [s \in Stream |-> 0] /\ over = {} /\ ended = {} /\ called = {}
    /\ cut = [s \in Stream |-> None] /\ erased = [s \in Stream |-> None]
    /\ pc = [c \in Consumer |-> "new"]
    /\ topic = [c \in Consumer |-> None]
    /\ direct = 0 /\ lock = None /\ mux = None
    /\ on = [c \in Consumer |-> None] /\ feed = [c \in Consumer |-> None]
    /\ pushed = [c \in Consumer |-> 0]
    /\ current = [s \in Stream |-> None] /\ members = [s \in Stream |-> {}]
    /\ open = {} /\ robbed = {}
    /\ work = [s \in Stream |-> "idle"] /\ held = [s \in Stream |-> None]

ConsumerStep(c) ==
    \/ (\E s \in Stream : Attach(c, s)) \/ BroadcastEnds(c) \/ Settle(c) \/ Stopped(c)
StreamStep(s) ==
    Publish(s) \/ Finish(s) \/ CancelElsewhere(s) \/ Overwrite(s) \/ Delete(s)
ProcessStream(s) == ReadSome(s) \/ ReadNothing(s) \/ CheckStatus(s) \/ Drain(s)

Next ==
    \/ \E s \in Stream : StreamStep(s) \/ ProcessStream(s)
    \/ StartCycle
    \/ \E c \in Consumer :
          Route(c) \/ Release(c) \/ ClientLeaves(c) \/ ConsumerStep(c)

Spec == Init /\ [][Next]_vars

(* The event loop runs the worker and every consumer that can go on, and   *)
(* Redis answers.  Streams and clients come, end and leave as they like.   *)
FairSpec ==
    /\ Spec
    /\ WF_vars(StartCycle) /\ \A s \in Stream : WF_vars(ProcessStream(s))
    /\ WF_vars(\E c \in Consumer : ConsumerStep(c))

-----------------------------------------------------------------------------
Label == Attached \cup {"new", "direct", "attach", "done"}

Types ==
    /\ written \in [Stream -> Nat] /\ \A s \in Stream : written[s] <= Events[s]
    /\ over \subseteq Stream /\ ended \subseteq Stream /\ called \subseteq Stream
    /\ cut \in [Stream -> Nat \cup {None}] /\ erased \in [Stream -> Nat \cup {None}]
    /\ pc \in [Consumer -> Label]
    /\ topic \in [Consumer -> Stream \cup {None}]
    /\ lock \in Consumer \cup {None} /\ mux \in Consumer \cup {None}
    /\ on \in [Consumer -> Consumer \cup {None}]
    /\ feed \in [Consumer -> Consumer \cup {None}]
    /\ pushed \in [Consumer -> Nat]
    /\ current \in [Stream -> Consumer \cup {None}]
    /\ members \in [Stream -> SUBSET Consumer]
    /\ open \subseteq Consumer /\ robbed \subseteq Consumer
    /\ work \in [Stream -> {"idle", "read", "check", "drain"}]
    /\ held \in [Stream -> Consumer \cup {None}]

(* Every variable keeps its type, a stream has a state exactly while it    *)
(* has consumers, and the direct readers are counted.                      *)
TypeOK ==
    /\ Types
    /\ \A s \in Stream : current[s] = None <=> members[s] = {}
    /\ direct \in 0..Threshold
    /\ direct = Cardinality({c \in Consumer : pc[c] = "direct"})

(* A consumer that waits on an open broadcast is served: its state is in   *)
(* the current multiplexer, which is not being stopped.  Consumers come    *)
(* and leave, and multiplexers are stopped and made, in any order.         *)
NobodyLeftBehind ==
    \A c \in Consumer : pc[c] = "reading" /\ feed[c] \in open =>
        /\ mux # None /\ on[c] = mux /\ ~Stopping
        /\ current[topic[c]] = feed[c] /\ c \in members[topic[c]]

(* "When the multiplexer drains to zero active streams it is stopped, so   *)
(* load-shedding is fully reversible" (stream_reader.py:538): it runs only *)
(* while a consumer of it is still to be done with.                        *)
StopsWhenDrained ==
    mux # None => \E c \in Consumer : on[c] = mux /\ pc[c] \in Attached

Whole(c) ==
    /\ topic[c] \in ended \/ written[topic[c]] = Events[topic[c]]
    /\ pushed[feed[c]] = written[topic[c]]

(* A broadcast that is closed under a consumer holds all that was written  *)
(* to the stream; if another instance cancelled the stream, whose          *)
(* processor went on, at least what was written before that.  The          *)
(* exceptions are a stream that was deleted, and a worker that had been    *)
(* reading for a state that was replaced meanwhile: then the consumer      *)
(* loses what it had not been given.                                       *)
EndedMeansHeard ==
    \A c \in Consumer :
        pc[c] = "reading" /\ feed[c] \notin open /\ c \notin robbed
        /\ erased[topic[c]] = None =>
            IF cut[topic[c]] = None THEN Whole(c)
                                    ELSE pushed[feed[c]] >= cut[topic[c]]

(* When a stream has a terminal status its consumers are let go, to the    *)
(* last step: each comes once, so in the end whoever is attached reads a   *)
(* stream that goes on, or one that was deleted and has no status any      *)
(* more.                                                                   *)
ConsumersEnd ==
    <>[] \A c \in Consumer :
        pc[c] \in Attached => pc[c] = "reading" /\ topic[c] \notin over
=============================================================================
