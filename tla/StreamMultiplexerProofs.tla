------------------------ MODULE StreamMultiplexerProofs ------------------------
(***************************************************************************)
(* Proofs about StreamMultiplexer, for any streams, any finite set of      *)
(* consumers and any threshold.                                            *)
(***************************************************************************)
EXTENDS StreamMultiplexer, FiniteSetTheorems, TLAPS

-----------------------------------------------------------------------------
(* The inductive invariant.                                                *)

Used == Attached \cup {"done"}

(* Where a consumer is tells what it has.                                  *)
Places ==
    \A c \in Consumer :
        /\ on[c] # None <=> pc[c] \in Attached
        /\ pc[c] = "reading" => feed[c] # None /\ topic[c] # None
        /\ feed[c] # None => pc[feed[c]] \in Used

(* What the multiplexer has registered: the open broadcasts are those of   *)
(* its states, each of one stream, and the members are the consumers that  *)
(* read them.                                                              *)
Registry ==
    /\ \A s \in Stream : current[s] = None <=> members[s] = {}
    /\ \A s \in Stream : current[s] # None =>
          current[s] \in open /\ pc[current[s]] \in Used /\ mux # None
    /\ \A s, t \in Stream : current[s] = current[t] /\ current[s] # None => s = t
    /\ \A x \in open : \E s \in Stream : current[s] = x
    /\ \A s \in Stream : \A c \in members[s] :
          pc[c] = "reading" /\ topic[c] = s /\ feed[c] = current[s] /\ on[c] = mux
    /\ \A c \in Consumer :
          pc[c] = "reading" /\ feed[c] \in open => c \in members[topic[c]]

(* Whoever stops a multiplexer holds the lock, and nobody joins it.        *)
Stops ==
    /\ lock # None => pc[lock] = "stopping"
    /\ \A c \in Consumer : pc[c] = "stopping" =>
          lock = c /\ \A s \in Stream : current[s] = None

IndInv == Types /\ Places /\ Registry /\ Stops

(* What the worker holds of a stream is a state of that stream.            *)
Holds ==
    \A s \in Stream :
        /\ work[s] # "idle" => held[s] # None
        /\ held[s] # None => pc[held[s]] \in Used
        /\ \A t \in Stream : held[s] # None /\ held[s] = current[t] => s = t
        /\ \A t \in Stream : held[s] # None /\ held[s] = held[t] => s = t
        /\ \A c \in Consumer : pc[c] = "reading" /\ feed[c] = held[s] => topic[c] = s

(* No state holds more than was written to its stream.                     *)
Bounded ==
    /\ \A c \in Consumer : pc[c] \notin Used => pushed[c] = 0
    /\ \A s \in Stream : held[s] # None => pushed[held[s]] <= written[s]
    /\ \A s \in Stream : current[s] # None => pushed[current[s]] <= written[s]

(* Only a cancellation in another instance makes a stream be over before   *)
(* its processor has ended, and the worker closes no stream that goes on   *)
(* and was not cancelled.                                                  *)
Overs ==
    \A s \in Stream :
        /\ s \in over => s \in ended \/ cut[s] # None
        /\ cut[s] # None => cut[s] <= written[s]
        /\ work[s] = "drain" /\ cut[s] = None => s \in ended \/ written[s] = Events[s]

Heard == Holds /\ Bounded /\ Overs /\ EndedMeansHeard

LEMMA InitInd == Init => IndInv
<1> SUFFICES ASSUME Init PROVE IndInv
  OBVIOUS
<1> USE ThresholdAssumption, EventsAssumption, NoneAssumption DEF Init
<1>1. Types
  BY DEF Types, Label, Attached
<1>2. Places /\ Registry /\ Stops
  BY DEF Places, Registry, Stops, Attached
<1> QED
  BY <1>1, <1>2 DEF IndInv

-----------------------------------------------------------------------------
(* Every part is kept by every step.                                       *)

(* Types.                                                                  *)
LEMMA TypesStep ==
    ASSUME IndInv, Next
    PROVE  Types'
<1> USE ThresholdAssumption, EventsAssumption, NoneAssumption DEF IndInv, Types, Label, Attached, streams, registry, worker
<1>1. ASSUME NEW s \in Stream, StreamStep(s) \/ ProcessStream(s) PROVE Types'
  <2>1. CASE Publish(s) \/ Finish(s)
    BY <2>1 DEF Publish, Finish, StreamOnly
  <2>2. CASE CancelElsewhere(s) \/ Overwrite(s) \/ Delete(s)
    BY <2>2 DEF CancelElsewhere, Overwrite, Delete, StreamOnly
  <2>3. CASE ReadSome(s)
    BY <2>3 DEF ReadSome, Work, Dispatch, WorkerOnly
  <2>4. CASE ReadNothing(s)
    BY <2>4 DEF ReadNothing, Work, WorkerOnly
  <2>5. CASE CheckStatus(s)
    BY <2>5 DEF CheckStatus, Work, WorkerOnly
  <2>6. CASE Drain(s)
    BY <2>6 DEF Drain, Work, Dispatch, CloseAll, WorkerOnly
  <2> QED
    BY <1>1, <2>1, <2>2, <2>3, <2>4, <2>5, <2>6 DEF StreamStep, ProcessStream
<1>2. CASE StartCycle
  BY <1>2 DEF StartCycle, WorkerOnly
<1>3. ASSUME NEW c \in Consumer,
             Route(c) \/ Release(c) \/ ClientLeaves(c) \/ ConsumerStep(c)
      PROVE  Types'
  <2>1. CASE Route(c)
    BY <2>1 DEF Route, Goes
  <2>2. CASE Release(c)
    BY <2>2 DEF Release, Goes
  <2>3. CASE ClientLeaves(c)
    <3>1. /\ pc' \in [Consumer -> Label] /\ topic' \in [Consumer -> Stream \cup {None}]
          /\ feed' \in [Consumer -> Consumer \cup {None}] /\ robbed' \subseteq Consumer
      BY <2>3 DEF ClientLeaves, Remove, Forget, Goes
    <3>2. /\ members' \in [Stream -> SUBSET Consumer] /\ open' \subseteq Consumer
          /\ current' \in [Stream -> Consumer \cup {None}]
      BY <2>3 DEF ClientLeaves, Remove
    <3> QED
      BY <2>3, <3>1, <3>2 DEF ClientLeaves
  <2>4. ASSUME NEW s \in Stream, Attach(c, s) PROVE Types'
    <3>2. mux' \in Consumer /\ on' \in [Consumer -> Consumer \cup {None}]
      BY <2>4 DEF Attach
    <3>3. PICK x \in Consumer : /\ current' = [current EXCEPT ![s] = x]
                                /\ feed' = [feed EXCEPT ![c] = x]
      BY <2>4 DEF Attach
    <3>4. members' \in [Stream -> SUBSET Consumer] /\ open' \subseteq Consumer
      BY <2>4 DEF Attach
    <3>5. pc' \in [Consumer -> Label]
      BY <2>4 DEF Attach, Goes
    <3> QED
      BY <2>4, <3>2, <3>3, <3>4, <3>5 DEF Attach
  <2>5. CASE BroadcastEnds(c)
    <3>1. /\ pc' \in [Consumer -> Label] /\ topic' \in [Consumer -> Stream \cup {None}]
          /\ feed' \in [Consumer -> Consumer \cup {None}] /\ robbed' \subseteq Consumer
      BY <2>5 DEF BroadcastEnds, Remove, Forget, Goes
    <3>2. /\ members' \in [Stream -> SUBSET Consumer] /\ open' \subseteq Consumer
          /\ current' \in [Stream -> Consumer \cup {None}]
      BY <2>5 DEF BroadcastEnds, Remove
    <3> QED
      BY <2>5, <3>1, <3>2 DEF BroadcastEnds
  <2>6. CASE Settle(c)
    BY <2>6 DEF Settle, Goes
  <2>7. CASE Stopped(c)
    BY <2>7 DEF Stopped, Goes
  <2> QED
    BY <1>3, <2>1, <2>2, <2>3, <2>4, <2>5, <2>6, <2>7 DEF ConsumerStep
<1> QED
  BY <1>1, <1>2, <1>3 DEF Next

(* Places: a consumer is given a multiplexer and a feed in one step.       *)
LEMMA PlacesStep ==
    ASSUME IndInv, Next
    PROVE  Places'
<1> USE NoneAssumption DEF IndInv, Types, Places, Registry, Stops, Used, Label, Attached, streams, registry, worker
<1>1. ASSUME NEW s \in Stream, StreamStep(s) \/ ProcessStream(s) PROVE Places'
  <2>1. CASE Publish(s) \/ Finish(s)
    BY <2>1 DEF Publish, Finish, StreamOnly
  <2>2. CASE CancelElsewhere(s) \/ Overwrite(s) \/ Delete(s)
    BY <2>2 DEF CancelElsewhere, Overwrite, Delete, StreamOnly
  <2>3. CASE ReadSome(s)
    BY <2>3 DEF ReadSome, Work, Dispatch, WorkerOnly
  <2>4. CASE ReadNothing(s)
    BY <2>4 DEF ReadNothing, Work, WorkerOnly
  <2>5. CASE CheckStatus(s)
    BY <2>5 DEF CheckStatus, Work, WorkerOnly
  <2>6. CASE Drain(s)
    BY <2>6 DEF Drain, Work, Dispatch, CloseAll, WorkerOnly
  <2> QED
    BY <1>1, <2>1, <2>2, <2>3, <2>4, <2>5, <2>6 DEF StreamStep, ProcessStream
<1>2. CASE StartCycle
  BY <1>2 DEF StartCycle, WorkerOnly
<1>3. ASSUME NEW c \in Consumer,
             Route(c) \/ Release(c) \/ ClientLeaves(c) \/ ConsumerStep(c)
      PROVE  Places'
  <2>1. CASE Route(c)
    <3>1. /\ UNCHANGED <<on, feed, topic>> /\ pc[c] = "new"
          /\ pc' = [pc EXCEPT ![c] = "direct"] \/ pc' = [pc EXCEPT ![c] = "attach"]
      BY <2>1 DEF Route, Goes
    <3> QED
      BY <3>1
  <2>2. CASE Release(c)
    BY <2>2 DEF Release, Goes
  <2>3. CASE ClientLeaves(c)
    BY <2>3 DEF ClientLeaves, Remove, Forget, Goes
  <2>4. ASSUME NEW s \in Stream, Attach(c, s) PROVE Places'
    BY <2>4 DEF Attach, Goes
  <2>5. CASE BroadcastEnds(c)
    BY <2>5 DEF BroadcastEnds, Remove, Forget, Goes
  <2>6. CASE Settle(c)
    <3>1. UNCHANGED <<feed, topic>> /\ pc[c] = "settle"
      BY <2>6 DEF Settle
    <3>2. \/ pc' = [pc EXCEPT ![c] = "stopping"] /\ UNCHANGED on
          \/ pc' = [pc EXCEPT ![c] = "done"] /\ on' = [on EXCEPT ![c] = None]
      BY <2>6 DEF Settle, Goes
    <3> QED
      BY <3>1, <3>2
  <2>7. CASE Stopped(c)
    BY <2>7 DEF Stopped, Goes
  <2> QED
    BY <1>3, <2>1, <2>2, <2>3, <2>4, <2>5, <2>6, <2>7 DEF ConsumerStep
<1> QED
  BY <1>1, <1>2, <1>3 DEF Next

(* A consumer that is removed leaves what the others read as it is.        *)
LEMMA RemoveRegistry ==
    ASSUME IndInv, NEW c \in Consumer, pc[c] = "reading", Remove(c), UNCHANGED <<mux, on>>
    PROVE  Registry'
<1> DEFINE s == topic[c]
<1> USE NoneAssumption DEF IndInv, Types, Places, Registry
<1>1. s \in Stream
  OBVIOUS
<1>2. /\ pc' = [pc EXCEPT ![c] = "settle"] /\ topic' = [topic EXCEPT ![c] = None]
      /\ feed' = [feed EXCEPT ![c] = None]
  BY DEF Remove, Forget, Goes
<1>3. \A d \in Consumer \ {c} : pc'[d] = pc[d] /\ topic'[d] = topic[d] /\ feed'[d] = feed[d]
  BY <1>2
<1>4. pc'[c] = "settle" /\ \A x \in Consumer : pc[x] \in Used => pc'[x] \in Used
  BY <1>2 DEF Used, Attached
<1>5. c \in members[s] => on[c] = mux
  BY <1>1
<1>6. CASE on[c] = mux /\ members[s] = {c}
  <2>1. /\ members' = [members EXCEPT ![s] = {}] /\ current' = [current EXCEPT ![s] = None]
        /\ open' = open \ {current[s]}
    BY <1>6 DEF Remove
  <2>2. \A t \in Stream \ {s} : /\ members'[t] = members[t] /\ current'[t] = current[t]
                                /\ c \notin members[t]
    BY <1>1, <2>1
  <2>3. members'[s] = {} /\ current'[s] = None /\ current[s] # None
    BY <1>1, <1>6, <2>1
  <2> QED
    BY <1>1, <1>3, <1>4, <1>6, <2>1, <2>2, <2>3
<1>7. CASE ~(on[c] = mux /\ members[s] = {c})
  <2>1. members' = [members EXCEPT ![s] = @ \ {c}] /\ UNCHANGED <<current, open>>
    BY <1>7 DEF Remove
  <2>2. \A t \in Stream : /\ members'[t] = members[t] \ {c}
                          /\ members'[t] = {} <=> members[t] = {}
    BY <1>1, <1>5, <1>7, <2>1
  <2> QED
    BY <1>1, <1>3, <1>4, <2>1, <2>2
<1> QED
  BY <1>6, <1>7

(* Registry: consumers come under the adaptive reader's lock, and leave or  *)
(* are closed together with their state.                                   *)
LEMMA RegistryStep ==
    ASSUME IndInv, Next
    PROVE  Registry'
<1> USE NoneAssumption DEF IndInv, Types, Places, Registry, Stops, Used, Attached, streams, registry, worker
<1>1. ASSUME NEW s \in Stream, StreamStep(s) \/ ProcessStream(s) PROVE Registry'
  <2>1. CASE Publish(s) \/ Finish(s)
    BY <2>1 DEF Publish, Finish, StreamOnly
  <2>2. CASE CancelElsewhere(s) \/ Overwrite(s) \/ Delete(s)
    BY <2>2 DEF CancelElsewhere, Overwrite, Delete, StreamOnly
  <2>3. CASE ReadSome(s)
    BY <2>3 DEF ReadSome, Work, Dispatch, WorkerOnly
  <2>4. CASE ReadNothing(s)
    BY <2>4 DEF ReadNothing, Work, WorkerOnly
  <2>5. CASE CheckStatus(s)
    BY <2>5 DEF CheckStatus, Work, WorkerOnly
  <2>6. CASE Drain(s)
    BY <2>6 DEF Drain, Work, Dispatch, CloseAll, WorkerOnly
  <2> QED
    BY <1>1, <2>1, <2>2, <2>3, <2>4, <2>5, <2>6 DEF StreamStep, ProcessStream
<1>2. CASE StartCycle
  BY <1>2 DEF StartCycle, WorkerOnly
<1>3. ASSUME NEW c \in Consumer,
             Route(c) \/ Release(c) \/ ClientLeaves(c) \/ ConsumerStep(c)
      PROVE  Registry'
  <2>1. CASE Route(c)
    BY <2>1 DEF Route, Goes
  <2>2. CASE Release(c)
    BY <2>2 DEF Release, Goes
  <2>3. CASE ClientLeaves(c)
    BY <2>3, RemoveRegistry DEF ClientLeaves
  <2>4. ASSUME NEW s \in Stream, Attach(c, s) PROVE Registry'
    <3>0. /\ pc' = [pc EXCEPT ![c] = "reading"] /\ topic' = [topic EXCEPT ![c] = s]
          /\ mux' = (IF mux = None THEN c ELSE mux) /\ on' = [on EXCEPT ![c] = mux']
          /\ members' = [members EXCEPT ![s] = @ \cup {c}]
          /\ pc[c] = "attach" /\ on[c] = None /\ c \notin open
          /\ \A t \in Stream : c \notin members[t] /\ current[t] # c
      BY <2>4 DEF Attach, Goes
    <3>1. CASE current[s] = None
      <4>1. /\ current' = [current EXCEPT ![s] = c] /\ feed' = [feed EXCEPT ![c] = c]
            /\ open' = open \cup {c}
        BY <2>4, <3>1 DEF Attach
      <4>2. \A d \in Consumer : feed[d] # c
        BY <3>0
      <4> QED
        BY <3>0, <3>1, <4>1, <4>2
    <3>2. CASE current[s] # None
      <4>1. /\ UNCHANGED <<current, open>> /\ feed' = [feed EXCEPT ![c] = current[s]]
            /\ mux # None
        BY <2>4, <3>2, <3>0 DEF Attach
      <4> QED
        BY <3>0, <3>2, <4>1
    <3> QED
      BY <3>1, <3>2
  <2>5. CASE BroadcastEnds(c)
    BY <2>5, RemoveRegistry DEF BroadcastEnds
  <2>6. CASE Settle(c)
    BY <2>6 DEF Settle, Goes
  <2>7. CASE Stopped(c)
    BY <2>7 DEF Stopped, Goes
  <2> QED
    BY <1>3, <2>1, <2>2, <2>3, <2>4, <2>5, <2>6, <2>7 DEF ConsumerStep
<1> QED
  BY <1>1, <1>2, <1>3 DEF Next

(* Stops: while a multiplexer is being stopped nobody gets the lock.       *)
LEMMA StopsStep ==
    ASSUME IndInv, Next
    PROVE  Stops'
<1> USE NoneAssumption DEF IndInv, Types, Places, Registry, Stops, Attached, streams, registry, worker
<1>1. ASSUME NEW s \in Stream, StreamStep(s) \/ ProcessStream(s) PROVE Stops'
  <2>1. CASE Publish(s) \/ Finish(s)
    BY <2>1 DEF Publish, Finish, StreamOnly
  <2>2. CASE CancelElsewhere(s) \/ Overwrite(s) \/ Delete(s)
    BY <2>2 DEF CancelElsewhere, Overwrite, Delete, StreamOnly
  <2>3. CASE ReadSome(s)
    BY <2>3 DEF ReadSome, Work, Dispatch, WorkerOnly
  <2>4. CASE ReadNothing(s)
    BY <2>4 DEF ReadNothing, Work, WorkerOnly
  <2>5. CASE CheckStatus(s)
    BY <2>5 DEF CheckStatus, Work, WorkerOnly
  <2>6. CASE Drain(s)
    BY <2>6 DEF Drain, Work, Dispatch, CloseAll, WorkerOnly
  <2> QED
    BY <1>1, <2>1, <2>2, <2>3, <2>4, <2>5, <2>6 DEF StreamStep, ProcessStream
<1>2. CASE StartCycle
  BY <1>2 DEF StartCycle, WorkerOnly
<1>3. ASSUME NEW c \in Consumer,
             Route(c) \/ Release(c) \/ ClientLeaves(c) \/ ConsumerStep(c)
      PROVE  Stops'
  <2>1. CASE Route(c)
    BY <2>1 DEF Route, Goes
  <2>2. CASE Release(c)
    BY <2>2 DEF Release, Goes
  <2>3. CASE ClientLeaves(c)
    BY <2>3 DEF ClientLeaves, Remove, Forget, Goes
  <2>4. ASSUME NEW s \in Stream, Attach(c, s) PROVE Stops'
    BY <2>4 DEF Attach, Goes
  <2>5. CASE BroadcastEnds(c)
    BY <2>5 DEF BroadcastEnds, Remove, Forget, Goes
  <2>6. CASE Settle(c)
    BY <2>6 DEF Settle, Goes
  <2>7. CASE Stopped(c)
    BY <2>7 DEF Stopped, Goes
  <2> QED
    BY <1>3, <2>1, <2>2, <2>3, <2>4, <2>5, <2>6, <2>7 DEF ConsumerStep
<1> QED
  BY <1>1, <1>2, <1>3 DEF Next

(* Holds: what was made for one stream is never another stream's.          *)
LEMMA HoldsStep ==
    ASSUME IndInv, Holds, Next
    PROVE  Holds'
<1> USE NoneAssumption DEF IndInv, Types, Places, Registry, Holds, Used, Attached, Stops, streams, registry, worker
<1>1. ASSUME NEW s \in Stream, StreamStep(s) \/ ProcessStream(s) PROVE Holds'
  <2>1. CASE Publish(s) \/ Finish(s)
    BY <2>1 DEF Publish, Finish, StreamOnly
  <2>2. CASE CancelElsewhere(s) \/ Overwrite(s) \/ Delete(s)
    BY <2>2 DEF CancelElsewhere, Overwrite, Delete, StreamOnly
  <2>3. CASE ReadSome(s)
    BY <2>3 DEF ReadSome, Work, Dispatch, WorkerOnly
  <2>4. CASE ReadNothing(s)
    BY <2>4 DEF ReadNothing, Work, WorkerOnly
  <2>5. CASE CheckStatus(s)
    BY <2>5 DEF CheckStatus, Work, WorkerOnly
  <2>6. CASE Drain(s)
    BY <2>6 DEF Drain, Work, Dispatch, CloseAll, WorkerOnly
  <2> QED
    BY <1>1, <2>1, <2>2, <2>3, <2>4, <2>5, <2>6 DEF StreamStep, ProcessStream
<1>2. CASE StartCycle
  BY <1>2 DEF StartCycle, WorkerOnly
<1>3. ASSUME NEW c \in Consumer,
             Route(c) \/ Release(c) \/ ClientLeaves(c) \/ ConsumerStep(c)
      PROVE  Holds'
  <2>1. CASE Route(c)
    BY <2>1 DEF Route, Goes
  <2>2. CASE Release(c)
    BY <2>2 DEF Release, Goes
  <2>3. CASE ClientLeaves(c)
    BY <2>3 DEF ClientLeaves, Remove, Forget, Goes
  <2>4. ASSUME NEW s \in Stream, Attach(c, s) PROVE Holds'
    BY <2>4 DEF Attach, Goes
  <2>5. CASE BroadcastEnds(c)
    BY <2>5 DEF BroadcastEnds, Remove, Forget, Goes
  <2>6. CASE Settle(c)
    <3>1. UNCHANGED <<feed, topic, current>> /\ pc[c] = "settle"
      BY <2>6 DEF Settle
    <3>2. pc' = [pc EXCEPT ![c] = "stopping"] \/ pc' = [pc EXCEPT ![c] = "done"]
      BY <2>6 DEF Settle, Goes
    <3>0. \A d \in Consumer : /\ pc[d] \in Used => pc'[d] \in Used
                              /\ pc'[d] = "reading" => pc[d] = "reading"
      BY <3>1, <3>2
    <3>3. CASE UNCHANGED <<work, held>>
      BY ONLY Holds, Types, <3>0, <3>1, <3>3 DEF Holds, Types
    <3>4. CASE work' = [t \in Stream |-> "idle"] /\ held' = [t \in Stream |-> None]
      BY <3>1, <3>2, <3>4
    <3> QED
      BY <2>6, <3>3, <3>4 DEF Settle
  <2>7. CASE Stopped(c)
    BY <2>7 DEF Stopped, Goes
  <2> QED
    BY <1>3, <2>1, <2>2, <2>3, <2>4, <2>5, <2>6, <2>7 DEF ConsumerStep
<1> QED
  BY <1>1, <1>2, <1>3 DEF Next

(* Bounded: a state is made empty and given what there is in the log.      *)
LEMMA BoundedStep ==
    ASSUME IndInv, Holds, Bounded, Next
    PROVE  Bounded'
<1> USE EventsAssumption, NoneAssumption DEF IndInv, Types, Places, Registry, Holds, Bounded, Used, Attached, Stops, streams, registry, worker
<1>1. ASSUME NEW s \in Stream, StreamStep(s) \/ ProcessStream(s) PROVE Bounded'
  <2>1. CASE Publish(s) \/ Finish(s)
    <3>1. /\ UNCHANGED <<pc, pushed, held, current>>
          /\ \A t \in Stream : written'[t] = written[t] \/ written'[t] = written[t] + 1
      BY <2>1 DEF Publish, Finish, StreamOnly
    <3>2. \A n, m \in Nat : n <= m => n <= m + 1
      OBVIOUS
    <3>3. \A s1 \in Stream : /\ held[s1] # None => held[s1] \in Consumer
                             /\ current[s1] # None => current[s1] \in Consumer
      OBVIOUS
    <3> QED
      BY ONLY Types, Bounded, <3>1, <3>2, <3>3 DEF Types, Bounded
  <2>2. CASE CancelElsewhere(s) \/ Overwrite(s) \/ Delete(s)
    BY <2>2 DEF CancelElsewhere, Overwrite, Delete, StreamOnly
  <2>3. CASE ReadSome(s)
    BY <2>3 DEF ReadSome, Work, Dispatch, Unread, WorkerOnly
  <2>4. CASE ReadNothing(s)
    BY <2>4 DEF ReadNothing, Work, WorkerOnly
  <2>5. CASE CheckStatus(s)
    BY <2>5 DEF CheckStatus, Work, WorkerOnly
  <2>6. CASE Drain(s)
    BY <2>6 DEF Drain, Work, Dispatch, Unread, CloseAll, WorkerOnly
  <2> QED
    BY <1>1, <2>1, <2>2, <2>3, <2>4, <2>5, <2>6 DEF StreamStep, ProcessStream
<1>2. CASE StartCycle
  BY <1>2 DEF StartCycle, WorkerOnly
<1>3. ASSUME NEW c \in Consumer,
             Route(c) \/ Release(c) \/ ClientLeaves(c) \/ ConsumerStep(c)
      PROVE  Bounded'
  <2>1. CASE Route(c)
    <3>1. UNCHANGED <<written, pushed, held, current>>
      BY <2>1 DEF Route
    <3>2. \A d \in Consumer : pc'[d] \notin Used => pc[d] \notin Used
      BY <2>1 DEF Route, Goes
    <3> QED
      BY ONLY Bounded, <3>1, <3>2 DEF Bounded
  <2>2. CASE Release(c)
    BY <2>2 DEF Release, Goes
  <2>3. CASE ClientLeaves(c)
    BY <2>3 DEF ClientLeaves, Remove, Forget, Goes
  <2>4. ASSUME NEW s \in Stream, Attach(c, s) PROVE Bounded'
    <3>1. UNCHANGED <<written, pushed, held>> /\ pc[c] = "attach" /\ written[s] \in Nat
      BY <2>4 DEF Attach
    <3>2. \A d \in Consumer : pc'[d] \notin Used => pc[d] \notin Used
      BY <2>4 DEF Attach, Goes
    <3>3. \A t \in Stream : current'[t] = current[t] \/ (t = s /\ current'[t] = c)
      BY <2>4 DEF Attach
    <3>4. \A n \in Nat : 0 <= n
      OBVIOUS
    <3>5. pushed[c] = 0
      BY ONLY Bounded, <3>1 DEF Bounded, Used, Attached
    <3> QED
      BY ONLY Bounded, <3>1, <3>2, <3>3, <3>4, <3>5 DEF Bounded
  <2>5. CASE BroadcastEnds(c)
    BY <2>5 DEF BroadcastEnds, Remove, Forget, Goes
  <2>6. CASE Settle(c)
    <3>1. /\ UNCHANGED <<written, pushed, current>>
          /\ held' = held \/ held' = [s \in Stream |-> None]
      BY <2>6 DEF Settle
    <3>2. \A d \in Consumer : pc'[d] \notin Used => pc[d] \notin Used
      BY <2>6 DEF Settle, Goes
    <3> QED
      BY ONLY Bounded, <3>1, <3>2 DEF Bounded
  <2>7. CASE Stopped(c)
    BY <2>7 DEF Stopped, Goes
  <2> QED
    BY <1>3, <2>1, <2>2, <2>3, <2>4, <2>5, <2>6, <2>7 DEF ConsumerStep
<1> QED
  BY <1>1, <1>2, <1>3 DEF Next

(* Overs: whoever ends a stream is its processor or another instance.      *)
LEMMA OversStep ==
    ASSUME IndInv, Overs, Next
    PROVE  Overs'
<1> USE EventsAssumption, NoneAssumption DEF IndInv, Types, Overs, streams, registry, worker
<1>1. ASSUME NEW s \in Stream, StreamStep(s) \/ ProcessStream(s) PROVE Overs'
  <2>1. CASE Publish(s) \/ Finish(s)
    BY <2>1 DEF Publish, Finish, StreamOnly
  <2>2. CASE CancelElsewhere(s) \/ Overwrite(s) \/ Delete(s)
    BY <2>2 DEF CancelElsewhere, Overwrite, Delete, StreamOnly
  <2>3. CASE ReadSome(s)
    BY <2>3 DEF ReadSome, Work, Dispatch, WorkerOnly
  <2>4. CASE ReadNothing(s)
    BY <2>4 DEF ReadNothing, Work, WorkerOnly
  <2>5. CASE CheckStatus(s)
    BY <2>5 DEF CheckStatus, Work, WorkerOnly
  <2>6. CASE Drain(s)
    BY <2>6 DEF Drain, Work, Dispatch, CloseAll, WorkerOnly
  <2> QED
    BY <1>1, <2>1, <2>2, <2>3, <2>4, <2>5, <2>6 DEF StreamStep, ProcessStream
<1>2. CASE StartCycle
  BY <1>2 DEF StartCycle, WorkerOnly
<1>3. ASSUME NEW c \in Consumer,
             Route(c) \/ Release(c) \/ ClientLeaves(c) \/ ConsumerStep(c)
      PROVE  Overs'
  <2>1. CASE Route(c)
    BY <2>1 DEF Route, Goes
  <2>2. CASE Release(c)
    BY <2>2 DEF Release, Goes
  <2>3. CASE ClientLeaves(c)
    BY <2>3 DEF ClientLeaves, Remove, Forget, Goes
  <2>4. ASSUME NEW s \in Stream, Attach(c, s) PROVE Overs'
    BY <2>4 DEF Attach, Goes
  <2>5. CASE BroadcastEnds(c)
    BY <2>5 DEF BroadcastEnds, Remove, Forget, Goes
  <2>6. CASE Settle(c)
    BY <2>6 DEF Settle, Goes
  <2>7. CASE Stopped(c)
    BY <2>7 DEF Stopped, Goes
  <2> QED
    BY <1>3, <2>1, <2>2, <2>3, <2>4, <2>5, <2>6, <2>7 DEF ConsumerStep
<1> QED
  BY <1>1, <1>2, <1>3 DEF Next

(* Whoever settles and does not stop the multiplexer leaves a member.      *)
LEMMA DrainedStep ==
    ASSUME IndInv, StopsWhenDrained, Next
    PROVE  StopsWhenDrained'
<1> USE EventsAssumption, NoneAssumption DEF IndInv, Types, Places, Registry, StopsWhenDrained, Attached, Stops, streams, registry, worker
<1>1. ASSUME NEW s \in Stream, StreamStep(s) \/ ProcessStream(s) PROVE StopsWhenDrained'
  <2>1. CASE Publish(s) \/ Finish(s)
    BY <2>1 DEF Publish, Finish, StreamOnly
  <2>2. CASE CancelElsewhere(s) \/ Overwrite(s) \/ Delete(s)
    BY <2>2 DEF CancelElsewhere, Overwrite, Delete, StreamOnly
  <2>3. CASE ReadSome(s)
    BY <2>3 DEF ReadSome, Work, Dispatch, WorkerOnly
  <2>4. CASE ReadNothing(s)
    BY <2>4 DEF ReadNothing, Work, WorkerOnly
  <2>5. CASE CheckStatus(s)
    BY <2>5 DEF CheckStatus, Work, WorkerOnly
  <2>6. CASE Drain(s)
    BY <2>6 DEF Drain, Work, Dispatch, CloseAll, WorkerOnly
  <2> QED
    BY <1>1, <2>1, <2>2, <2>3, <2>4, <2>5, <2>6 DEF StreamStep, ProcessStream
<1>2. CASE StartCycle
  BY <1>2 DEF StartCycle, WorkerOnly
<1>3. ASSUME NEW c \in Consumer,
             Route(c) \/ Release(c) \/ ClientLeaves(c) \/ ConsumerStep(c)
      PROVE  StopsWhenDrained'
  <2>1. CASE Route(c)
    BY <2>1 DEF Route, Goes
  <2>2. CASE Release(c)
    BY <2>2 DEF Release, Goes
  <2>3. CASE ClientLeaves(c)
    BY <2>3 DEF ClientLeaves, Remove, Forget, Goes
  <2>4. ASSUME NEW s \in Stream, Attach(c, s) PROVE StopsWhenDrained'
    BY <2>4 DEF Attach, Goes
  <2>5. CASE BroadcastEnds(c)
    BY <2>5 DEF BroadcastEnds, Remove, Forget, Goes
  <2>6. CASE Settle(c)
    BY <2>6 DEF Settle, Goes
  <2>7. CASE Stopped(c)
    BY <2>7 DEF Stopped, Goes
  <2> QED
    BY <1>3, <2>1, <2>2, <2>3, <2>4, <2>5, <2>6, <2>7 DEF ConsumerStep
<1> QED
  BY <1>1, <1>2, <1>3 DEF Next

(* The last read precedes the close; a stream that is over does not grow.  *)
LEMMA EndedStep ==
    ASSUME IndInv, Holds, Bounded, Overs, EndedMeansHeard, Next
    PROVE  EndedMeansHeard'
<1> USE EventsAssumption, NoneAssumption DEF IndInv, Types, Places, Registry, Holds, Bounded, Overs, EndedMeansHeard, Whole, Attached, Stops, streams, registry, worker
<1>1. ASSUME NEW s \in Stream, StreamStep(s) \/ ProcessStream(s) PROVE EndedMeansHeard'
  <2>1. CASE Publish(s) \/ Finish(s)
    BY <2>1 DEF Publish, Finish, StreamOnly
  <2>2. CASE CancelElsewhere(s) \/ Overwrite(s) \/ Delete(s)
    BY <2>2 DEF CancelElsewhere, Overwrite, Delete, StreamOnly
  <2>3. CASE ReadSome(s)
    BY <2>3 DEF ReadSome, Work, Dispatch, Unread, WorkerOnly
  <2>4. CASE ReadNothing(s)
    BY <2>4 DEF ReadNothing, Work, WorkerOnly
  <2>5. CASE CheckStatus(s)
    BY <2>5 DEF CheckStatus, Work, WorkerOnly
  <2>6. CASE Drain(s)
    BY <2>6 DEF Drain, Work, Dispatch, Unread, CloseAll, WorkerOnly
  <2> QED
    BY <1>1, <2>1, <2>2, <2>3, <2>4, <2>5, <2>6 DEF StreamStep, ProcessStream
<1>2. CASE StartCycle
  BY <1>2 DEF StartCycle, WorkerOnly
<1>3. ASSUME NEW c \in Consumer,
             Route(c) \/ Release(c) \/ ClientLeaves(c) \/ ConsumerStep(c)
      PROVE  EndedMeansHeard'
  <2>1. CASE Route(c)
    BY <2>1 DEF Route, Goes
  <2>2. CASE Release(c)
    BY <2>2 DEF Release, Goes
  <2>3. CASE ClientLeaves(c)
    BY <2>3 DEF ClientLeaves, Remove, Forget, Goes
  <2>4. ASSUME NEW s \in Stream, Attach(c, s) PROVE EndedMeansHeard'
    BY <2>4 DEF Attach, Goes
  <2>5. CASE BroadcastEnds(c)
    BY <2>5 DEF BroadcastEnds, Remove, Forget, Goes
  <2>6. CASE Settle(c)
    BY <2>6 DEF Settle, Goes
  <2>7. CASE Stopped(c)
    BY <2>7 DEF Stopped, Goes
  <2> QED
    BY <1>3, <2>1, <2>2, <2>3, <2>4, <2>5, <2>6, <2>7 DEF ConsumerStep
<1> QED
  BY <1>1, <1>2, <1>3 DEF Next

LEMMA NextInd == IndInv /\ [Next]_vars => IndInv'
<1>1. IndInv /\ Next => IndInv'
  BY TypesStep, PlacesStep, RegistryStep, StopsStep DEF IndInv
<1>2. IndInv /\ UNCHANGED vars => IndInv'
  BY DEF vars, streams, registry, worker, IndInv, Types, Places, Registry, Stops
<1> QED
  BY <1>1, <1>2

LEMMA Inductive == Spec => []IndInv
BY InitInd, NextInd, PTL DEF Spec

-----------------------------------------------------------------------------
(* The direct readers.                                                     *)

Counted ==
    /\ direct \in 0..Threshold
    /\ direct = Cardinality({c \in Consumer : pc[c] = "direct"})

LEMMA CountedStep ==
    ASSUME Types, Counted, Next
    PROVE  Counted'
<1> DEFINE D == {c \in Consumer : pc[c] = "direct"}
<1>0. IsFiniteSet(D) /\ Cardinality(D) \in Nat
  BY ConsumerAssumption, FS_Subset, FS_CardinalityType
<1>1. CASE UNCHANGED direct /\ D' = D
  BY <1>1 DEF Counted
<1>2. ASSUME NEW c \in Consumer, Route(c), pc' = [pc EXCEPT ![c] = "direct"], direct' = direct + 1
      PROVE  Counted'
  <2>1. c \notin D /\ D' = D \cup {c} /\ direct < Threshold
    BY <1>2, ThresholdAssumption DEF Route, Types, Goes, Label, Attached, Counted
  <2>2. Cardinality(D') = Cardinality(D) + 1
    BY <1>0, <2>1, FS_AddElement
  <2> QED
    BY <1>0, <1>2, <2>1, <2>2, ThresholdAssumption DEF Counted
<1>3. ASSUME NEW c \in Consumer, Release(c) PROVE Counted'
  <2>1. c \in D /\ D' = D \ {c} /\ direct' = direct - 1
    BY <1>3 DEF Release, Types, Goes
  <2>2. Cardinality(D') = Cardinality(D) - 1 /\ Cardinality(D') \in Nat
    BY <1>0, <2>1, FS_RemoveElement, FS_CardinalityType
  <2> QED
    BY <1>0, <2>1, <2>2, ThresholdAssumption DEF Counted
<1>4. ASSUME NEW s \in Stream, StreamStep(s) \/ ProcessStream(s)
      PROVE  UNCHANGED direct /\ D' = D
  BY <1>4 DEF StreamStep, Publish, Finish, CancelElsewhere, Overwrite, Delete, StreamOnly, ProcessStream, ReadSome, ReadNothing, CheckStatus, Drain, WorkerOnly
<1>5. StartCycle => UNCHANGED direct /\ D' = D
  BY DEF StartCycle, WorkerOnly
<1>6. ASSUME NEW c \in Consumer,
             \/ (Route(c) /\ direct' = direct) \/ ClientLeaves(c)
             \/ (\E s \in Stream : Attach(c, s)) \/ BroadcastEnds(c) \/ Settle(c) \/ Stopped(c)
      PROVE  UNCHANGED direct /\ D' = D
  <2>1. UNCHANGED direct
    BY <1>6 DEF Route, ClientLeaves, Attach, BroadcastEnds, Settle, Stopped
  <2>2. PICK to \in {"attach", "settle", "reading", "stopping", "done"} :
            /\ pc' = [pc EXCEPT ![c] = to]
            /\ pc[c] # "direct"
    <3>1. direct \in Int => direct + 1 # direct
      OBVIOUS
    <3>2. direct \in Int
      BY DEF Counted
    <3> QED
      BY <1>6, <3>1, <3>2 DEF Route, ClientLeaves, Attach, BroadcastEnds, Settle,
                              Stopped, Remove, Goes
  <2>3. D' = D
    BY <2>2 DEF Types
  <2> QED
    BY <2>1, <2>3
<1>7. ASSUME NEW c \in Consumer, Route(c)
      PROVE  direct' = direct \/ (pc' = [pc EXCEPT ![c] = "direct"] /\ direct' = direct + 1)
  BY <1>7 DEF Route, Goes
<1> HIDE DEF D
<1> QED
  BY <1>1, <1>2, <1>3, <1>4, <1>5, <1>6, <1>7 DEF Next, ConsumerStep

-----------------------------------------------------------------------------
(* The theorems.                                                           *)

(* Types are kept, a stream has a state exactly while it has consumers,    *)
(* and as many direct connections are open as are counted, never more than *)
(* the threshold.                                                          *)
THEOREM TypeCorrect == Spec => []TypeOK
<1>1. Init => Counted
  <2> SUFFICES ASSUME Init PROVE Counted
    OBVIOUS
  <2>1. {c \in Consumer : pc[c] = "direct"} = {}
    BY DEF Init
  <2>2. Cardinality({c \in Consumer : pc[c] = "direct"}) = 0
    BY <2>1, FS_EmptySet
  <2>3. direct = 0 /\ 0 \in 0..Threshold
    BY ThresholdAssumption DEF Init
  <2> QED
    BY <2>2, <2>3 DEF Counted
<1>2. IndInv /\ Counted /\ [Next]_vars => Counted'
  <2>1. Counted /\ UNCHANGED vars => Counted'
    BY DEF Counted, vars
  <2> QED
    BY <2>1, CountedStep DEF IndInv
<1>3. IndInv /\ Counted => TypeOK
  BY DEF IndInv, Registry, Counted, TypeOK
<1> QED
  BY <1>1, <1>2, <1>3, Inductive, PTL DEF Spec

(* Nobody waits at a broadcast that no running worker feeds.               *)
THEOREM ServesAll == Spec => []NobodyLeftBehind
<1>1. IndInv => NobodyLeftBehind
  BY NoneAssumption DEF IndInv, Types, Places, Registry, Stops, Stopping, NobodyLeftBehind
<1> QED
  BY <1>1, Inductive, PTL

(* A multiplexer without consumers does not outlive them.                  *)
THEOREM Drained == Spec => []StopsWhenDrained
<1>1. Init => StopsWhenDrained
  BY DEF Init, StopsWhenDrained
<1>2. IndInv /\ StopsWhenDrained /\ [Next]_vars => StopsWhenDrained'
  <2>1. StopsWhenDrained /\ UNCHANGED vars => StopsWhenDrained'
    BY DEF StopsWhenDrained, vars
  <2> QED
    BY <2>1, DrainedStep
<1> QED
  BY <1>1, <1>2, Inductive, PTL DEF Spec

(* A broadcast that the worker closes for its own readers was whole.       *)
THEOREM EndsWhole == Spec => []EndedMeansHeard
<1>1. Init => Heard
  BY EventsAssumption, NoneAssumption DEF Init, Heard, Holds, Bounded, Overs, EndedMeansHeard
<1>2. IndInv /\ Heard /\ [Next]_vars => Heard'
  <2>1. Heard /\ UNCHANGED vars => Heard'
    BY DEF Heard, Holds, Bounded, Overs, EndedMeansHeard, Whole, vars, streams, registry, worker
  <2> QED
    BY <2>1, HoldsStep, BoundedStep, OversStep, EndedStep DEF Heard
<1>3. Heard => EndedMeansHeard
  BY DEF Heard
<1> QED
  BY <1>1, <1>2, <1>3, Inductive, PTL DEF Spec
=============================================================================
