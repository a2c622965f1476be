---------------------- MODULE ResumableChatRefinement ----------------------
(***************************************************************************)
(* ResumableChat implements ChatTurn: whatever the jobs, callbacks, timers *)
(* and workers do, the client sees a turn that begins once, pauses for new *)
(* tools, continues with all their answers and ends for good.              *)
(***************************************************************************)
EXTENDS ResumableChatProofs

-----------------------------------------------------------------------------
(* What the refinement needs beyond Chain.  While the turn is not over the *)
(* stored checkpoint is the latest anyone knows: no job exists for a later *)
(* one, and the job that is about to save is the one resumed from it.  No  *)
(* trace of a tool exists before a job that has begun dispatches it.       *)

Latest ==
    terminal = "none" =>
        /\ \A c \in 0..Rounds : pc[Job(c)] # "idle" => c <= ctx
        /\ \A p \in Proc : seen[p] <= ctx
        /\ \A c \in 0..Rounds : pc[Job(c)] = "save" => ctx <= c
PausesForTools ==
    \A c \in 0..Rounds : pc[Job(c)] = "save" => Pending(c + 1) # {}
Undispatched ==
    \A t \in Tool :
        by[t] = NoJob => /\ tool[t] = "unused" /\ timer[t] = "none"
                         /\ results[t] = "none"
                         /\ pc[<<"result", t>>] = "idle"
                         /\ pc[<<"timeout", t>>] = "idle"
DispatchersBegan == \A t \in Tool : by[t] # NoJob => pc[Job(by[t])] \notin Before

Order == Latest /\ PausesForTools /\ Undispatched /\ DispatchersBegan

LEMMA DispatcherIsJob ==
    ASSUME TypeInv, NEW t \in Tool, by[t] # NoJob
    PROVE  by[t] \in 0..Rounds
BY RoundsAssumption DEF TypeInv, TypeOK, NoJob

LEMMA InitOrder == Init => Order
<1> SUFFICES ASSUME Init PROVE Order
  OBVIOUS
<1>1. \A c \in 0..Rounds : pc[Job(c)] = "idle"
  BY JobIds DEF Init
<1>2. \A p \in Proc : seen[p] <= ctx
  BY DEF Init
<1>3. Undispatched
  BY ProcKinds DEF Init, Undispatched, Callbacks, Proc
<1> QED
  BY <1>1, <1>2, <1>3 DEF Init, Order, Latest, PausesForTools, DispatchersBegan

(* What a step does that neither saves, records nor dispatches anything:   *)
(* of the jobs' beginnings it may only leave them behind.                  *)
OnlyMoves ==
    /\ UNCHANGED <<ctx, results, by>>
    /\ terminal # "none" => terminal' # "none"
    /\ \A p \in Proc : seen'[p] \in {seen[p], 0, ctx}
    /\ \A c \in 0..Rounds :
        /\ pc'[Job(c)] \in Before => pc[Job(c)] \in Before
        /\ pc[Job(c)] = "idle" =>
            \/ pc'[Job(c)] = "idle"
            \/ pc'[Job(c)] = "queued" /\ (terminal = "none" => c <= ctx)
        /\ pc'[Job(c)] = "save" =>
            \/ pc[Job(c)] = "save"
            \/ pc[Job(c)] = "engine" /\ Pending(c + 1) # {}
    /\ \A t \in Tool : by[t] = NoJob =>
        /\ tool'[t] = tool[t] /\ timer'[t] = timer[t]
        /\ pc'[<<"result", t>>] = pc[<<"result", t>>]
        /\ pc'[<<"timeout", t>>] = pc[<<"timeout", t>>]

LEMMA MovesKeepOrder ==
    ASSUME TypeInv, Chain, Order, OnlyMoves
    PROVE  Order'
<1> USE RoundsAssumption, JobIds DEF OnlyMoves, TypeInv, TypeOK
<1>1. Latest'
  <2> SUFFICES ASSUME terminal' = "none" PROVE Latest'
    BY DEF Latest
  <2>0. terminal = "none" /\ ctx' = ctx
    OBVIOUS
  <2>1. ASSUME NEW c \in 0..Rounds, pc'[Job(c)] # "idle" PROVE c <= ctx
    BY <2>0, <2>1 DEF Order, Latest
  <2>2. ASSUME NEW p \in Proc PROVE seen'[p] <= ctx
    BY <2>0 DEF Order, Latest
  <2>3. ASSUME NEW c \in 0..Rounds, pc'[Job(c)] = "save" PROVE ctx <= c
    <3>1. CASE pc[Job(c)] = "save"
      BY <2>0, <3>1 DEF Order, Latest
    <3>2. CASE pc[Job(c)] = "engine"
      BY <3>2 DEF Chain, LoadedSettled, Settled, PastEngine, BeforeEnd
    <3> QED
      BY <2>3, <3>1, <3>2
  <2> QED
    BY <2>0, <2>1, <2>2, <2>3 DEF Latest
<1>2. PausesForTools'
  BY DEF Order, PausesForTools, Pending
<1>3. Undispatched'
  BY DEF Order, Undispatched
<1>4. DispatchersBegan'
  BY DEF Order, DispatchersBegan, NoJob
<1> QED
  BY <1>1, <1>2, <1>3, <1>4 DEF Order

-----------------------------------------------------------------------------
(* The steps of the turn.                                                  *)

TurnStep == [Turn!Next]_(Turn!tvars)

LEMMA PhaseIs ==
    /\ terminal # "none" => phase = "over"
    /\ terminal = "none" /\ ctx = 0 /\ pc[Job(0)] \in Before => phase = "new"
    /\ terminal = "none" /\ ctx # 0 /\ pc[Job(ctx)] \in Before => phase = "paused"
    /\ terminal = "none" /\ pc[Job(ctx)] \notin Before => phase = "running"
BY DEF phase

(* The first end of a turn finishes it.                                    *)
LEMMA EndsFinish ==
    ASSUME terminal = "none", terminal' # "none"
    PROVE  Turn!Next
<1>1. phase # "over"
  BY DEF phase
<1>2. phase' = "over"
  BY DEF phase
<1>3. Turn!Finish
  BY <1>1, <1>2 DEF Turn!Finish, Turn!Over
<1> QED
  BY <1>3 DEF Turn!Next

(* What happens after that is not seen.                                    *)
LEMMA OverStutters ==
    ASSUME terminal # "none", terminal' # "none"
    PROVE  UNCHANGED Turn!tvars
BY DEF Turn!tvars, phase

(* Nothing but a job's beginning can change the phase of a turn whose      *)
(* store stays as it is.                                                   *)
LEMMA MovesAreTurnSteps ==
    ASSUME TypeInv, Chain, Order, OnlyMoves
    PROVE  TurnStep
<1> USE RoundsAssumption, JobIds DEF TypeInv, TypeOK
<1>1. CASE terminal # "none"
  BY <1>1, OverStutters DEF OnlyMoves, TurnStep
<1>2. CASE terminal = "none" /\ terminal' # "none"
  BY <1>2, EndsFinish DEF TurnStep
<1>3. CASE terminal = "none" /\ terminal' = "none"
  <2>1. UNCHANGED <<ctx, results, by, terminal>>
    BY <1>3 DEF OnlyMoves
  <2>2. CASE pc[Job(ctx)] \in Before <=> pc'[Job(ctx)] \in Before
    BY <2>1, <2>2 DEF TurnStep, Turn!tvars, phase
  <2>3. CASE pc[Job(ctx)] \in Before /\ pc'[Job(ctx)] \notin Before
    <3>1. phase' = "running"
      BY <1>3, <2>1, <2>3 DEF phase
    <3>2. CASE ctx = 0
      <4>1. phase = "new"
        BY <1>3, <2>3, <3>2, PhaseIs
      <4>2. Turn!Begin
        BY <2>1, <3>1, <4>1 DEF Turn!Begin
      <4> QED
        BY <4>2 DEF TurnStep, Turn!Next
    <3>3. CASE ctx # 0
      <4>1. phase = "paused"
        BY <1>3, <2>3, <3>3, PhaseIs
      <4>2. pc[Job(ctx)] # "idle"
        BY <2>3 DEF OnlyMoves, Before
      <4>3. ASSUME NEW t \in Tool, by[t] < ctx PROVE results[t] # "none"
        <5> DEFINE c == by[t] + 1
        <5>1. c \in 1..Rounds /\ c <= ctx /\ t \in Pending(c)
          BY <4>3 DEF Pending
        <5>2. pc[Job(c)] # "idle"
          <6>1. CASE c = ctx
            BY <4>2, <6>1
          <6>2. CASE c < ctx
            BY <5>1, <6>2 DEF Chain, LoadedSettled, Settled, PastEngine, BeforeEnd
          <6> QED
            BY <5>1, <6>1, <6>2
        <5>3. Ready(c)
          BY <5>1, <5>2 DEF Chain, JobsReady
        <5> QED
          BY <1>3, <5>1, <5>3 DEF Ready, Answered
      <4>4. Turn!Continue
        BY <1>3, <2>1, <3>1, <4>1, <4>3 DEF Turn!Continue
      <4> QED
        BY <4>4 DEF TurnStep, Turn!Next
    <3> QED
      BY <3>2, <3>3
  <2>4. pc'[Job(ctx)] \in Before => pc[Job(ctx)] \in Before
    BY DEF OnlyMoves
  <2> QED
    BY <2>2, <2>3, <2>4
<1> QED
  BY <1>1, <1>2, <1>3

-----------------------------------------------------------------------------
(* All but four actions only move.                                         *)

LEMMA MoveOnlyMoves ==
    ASSUME TypeInv, Order, NEW p \in Proc, NEW l, Goto(p, l),
           p \in Jobs \cup Callbacks => pc[p] # "idle",
           p \in Jobs => /\ l # "save" /\ l # "idle"
                         /\ l \in Before => pc[p] \in Before,
           UNCHANGED <<ctx, results, by>>,
           terminal' \in {terminal, "completed", "failed", "cancelled"},
           seen' \in {seen, [seen EXCEPT ![p] = 0], [seen EXCEPT ![p] = ctx]},
           \A t \in Tool : by[t] = NoJob => tool'[t] = tool[t] /\ timer'[t] = timer[t]
    PROVE  OnlyMoves
<1> USE JobIds, ProcKinds, RoundsAssumption DEF TypeInv, TypeOK
<1>1. pc' = [pc EXCEPT ![p] = l]
  BY DEF Goto
<1>2. ASSUME NEW c \in 0..Rounds
      PROVE  /\ pc'[Job(c)] \in Before => pc[Job(c)] \in Before
             /\ pc[Job(c)] = "idle" => pc'[Job(c)] = "idle"
             /\ pc'[Job(c)] = "save" => pc[Job(c)] = "save"
  BY <1>1, <1>2
<1>3. ASSUME NEW t \in Tool, by[t] = NoJob
      PROVE  /\ pc'[<<"result", t>>] = pc[<<"result", t>>]
             /\ pc'[<<"timeout", t>>] = pc[<<"timeout", t>>]
  BY <1>1, <1>3 DEF Order, Undispatched
<1> QED
  BY <1>2, <1>3 DEF OnlyMoves

(* A job id is in the queue for the first time, or nothing happens.        *)
LEMMA EnqueueOnlyMoves ==
    ASSUME TypeInv, NEW q \in Proc, UNCHANGED <<ctx, results, by, terminal, seen>>,
           pc' = Enqueue(q),
           q \in Jobs => q[2] <= ctx \/ terminal # "none",
           q \in Callbacks => by[q[2]] # NoJob,
           \A t \in Tool : by[t] = NoJob => tool'[t] = tool[t] /\ timer'[t] = timer[t]
    PROVE  OnlyMoves
<1> USE JobIds, ProcKinds, RoundsAssumption DEF TypeInv, TypeOK
<1>1. pc' = [pc EXCEPT ![q] = IF @ = "idle" THEN "queued" ELSE @]
  BY DEF Enqueue
<1>2. ASSUME NEW c \in 0..Rounds
      PROVE  /\ pc'[Job(c)] \in Before => pc[Job(c)] \in Before
             /\ pc[Job(c)] = "idle" =>
                   \/ pc'[Job(c)] = "idle"
                   \/ pc'[Job(c)] = "queued" /\ (terminal = "none" => c <= ctx)
             /\ pc'[Job(c)] = "save" => pc[Job(c)] = "save"
  BY <1>1, <1>2 DEF Before
<1>3. ASSUME NEW t \in Tool, by[t] = NoJob
      PROVE  /\ pc'[<<"result", t>>] = pc[<<"result", t>>]
             /\ pc'[<<"timeout", t>>] = pc[<<"timeout", t>>]
  BY <1>1, <1>3
<1> QED
  BY <1>2, <1>3 DEF OnlyMoves

LEMMA OthersOnlyMove ==
    ASSUME TypeInv, Chain, Order, Next,
           \A p \in Jobs : ~Save(p) /\ \A t \in Tool : ~DispatchTool(p, t),
           \A p \in Proc : ~Wipe(p),
           \A p \in Callbacks : ~Record(p)
    PROVE  OnlyMoves
<1> USE JobIds, ProcKinds, RoundsAssumption DEF Stay, Leave, Load, store
<1>1. CASE Submit
  <2>1. Job(0) \in Jobs /\ Job(0)[2] = 0 /\ 0 <= ctx
    BY DEF TypeInv, TypeOK
  <2> QED
    BY <1>1, <2>1, EnqueueOnlyMoves DEF Submit
<1>2. CASE RequestCancel \/ CancelStep
  BY <1>2, MoveOnlyMoves DEF RequestCancel, CancelStep, MarkCancelled, MarkTerminal, StopJobs,
     Client, Callbacks
<1>3. ASSUME NEW p \in Jobs, JobStep(p) PROVE OnlyMoves
  <2> USE MoveOnlyMoves DEF Before
  <2>1. CASE MatchCheckpoint(p)
    BY <2>1 DEF MatchCheckpoint
  <2>2. CASE Claim(p)
    BY <2>2 DEF Claim, ClaimAction
  <2>3. CASE ReadResults(p)
    BY <2>3 DEF ReadResults
  <2>4. CASE EngineReturns(p)
    <3>1. CASE Goto(p, "complete")
      BY <2>4, <3>1 DEF EngineReturns
    <3>2. CASE Goto(p, "save") /\ Pending(p[2] + 1) # {}
      BY <2>4, <3>2 DEF EngineReturns, OnlyMoves, Goto, TypeInv, TypeOK
    <3> QED
      BY <2>4, <3>1, <3>2 DEF EngineReturns
  <2>5. CASE RevokeRefused(p)
    <3>1. \A t \in Tool : by[t] = NoJob => tool'[t] = tool[t]
      BY <2>5 DEF RevokeRefused, Revoked, Order, Undispatched
    <3> QED
      BY <2>5, <3>1 DEF RevokeRefused
  <2>6. CASE Reload(p)
    BY <2>6 DEF Reload
  <2>7. CASE ArmTimers(p)
    <3>1. ASSUME NEW t \in Tool, by[t] = NoJob PROVE t \notin Pending(seen[p])
      BY <3>1 DEF Pending, NoJob, TypeInv, TypeOK
    <3>2. \A t \in Tool : by[t] = NoJob => timer'[t] = timer[t]
      BY <2>7, <3>1 DEF ArmTimers, TypeInv, TypeOK
    <3> QED
      BY <2>7, <3>2 DEF ArmTimers
  <2>8. CASE Complete(p)
    BY <2>8 DEF Complete, MarkTerminal
  <2> QED
    BY <1>3, <2>1, <2>2, <2>3, <2>4, <2>5, <2>6, <2>7, <2>8 DEF JobStep
<1>4. ASSUME NEW p \in Proc, ReadyStep(p) \/ SendRaises(p) PROVE OnlyMoves
  <2>1. CASE Peek(p) \/ Check(p) \/ SendRaises(p)
    BY <2>1, MoveOnlyMoves DEF Peek, Check, SendRaises, Before
  <2>2. CASE Take(p)
    BY <2>2, MoveOnlyMoves DEF Take, ClaimResume, Before
  <2>3. CASE Send(p)
    <3> DEFINE q == Job(seen[p])
    <3>1. /\ q \in Jobs /\ q \notin Callbacks /\ seen[p] \in 0..Rounds /\ q[2] = seen[p]
          /\ pc[p] = "send" /\ pc' = [Enqueue(q) EXCEPT ![p] = "done"]
          /\ seen' = [seen EXCEPT ![p] = 0]
          /\ UNCHANGED <<ctx, results, by, terminal, tool, timer>>
      BY <2>3 DEF Send, TypeInv, TypeOK
    <3>2. terminal = "none" => seen[p] <= ctx
      BY DEF Order, Latest
    <3>3. ASSUME NEW r \in Proc
          PROVE  \/ pc'[r] = pc[r]
                 \/ r = p /\ pc'[r] = "done"
                 \/ r = q /\ pc[r] = "idle" /\ pc'[r] = "queued"
      BY <3>1 DEF Enqueue, TypeInv, TypeOK
    <3> HIDE DEF q
    <3>4. \A t \in Tool : by[t] = NoJob =>
             /\ pc'[<<"result", t>>] = pc[<<"result", t>>]
             /\ pc'[<<"timeout", t>>] = pc[<<"timeout", t>>]
      BY <3>1, <3>3 DEF Order, Undispatched
    <3>5. ASSUME NEW c \in 0..Rounds
          PROVE  /\ pc'[Job(c)] \in Before => pc[Job(c)] \in Before
                 /\ pc[Job(c)] = "idle" =>
                       \/ pc'[Job(c)] = "idle"
                       \/ pc'[Job(c)] = "queued" /\ (terminal = "none" => c <= ctx)
                 /\ pc'[Job(c)] = "save" => pc[Job(c)] = "save"
      BY <3>1, <3>2, <3>3 DEF Before
    <3>6. \A r \in Proc : seen'[r] \in {seen[r], 0}
      BY <3>1 DEF TypeInv, TypeOK
    <3> QED
      BY <3>1, <3>4, <3>5, <3>6 DEF OnlyMoves
  <2>4. CASE GiveBack(p)
    BY <2>4, MoveOnlyMoves DEF GiveBack, ReleaseResume, Before
  <2> QED
    BY <1>4, <2>1, <2>2, <2>3, <2>4 DEF ReadyStep
<1>5. ASSUME NEW p \in Proc, EndStep(p) PROVE OnlyMoves
  <2>1. CASE Close(p) \/ MarkFailed(p) \/ PublishError(p)
    BY <2>1, MoveOnlyMoves DEF Close, MarkFailed, MarkTerminal, PublishError, Before
  <2>2. CASE Unwind(p)
    BY <2>2, MoveOnlyMoves DEF Unwind, AfterRevoke, Before
  <2>3. CASE Revoke(p)
    <3>1. \A t \in Tool : by[t] = NoJob => tool'[t] = tool[t]
      BY <2>3 DEF Revoke, Revoked, Order, Undispatched
    <3> QED
      BY <2>3, <3>1, MoveOnlyMoves DEF Revoke, AfterRevoke, Before
  <2> QED
    BY <1>5, <2>1, <2>2, <2>3 DEF EndStep
<1>6. ASSUME NEW p \in Callbacks, CallbackStep(p) PROVE OnlyMoves
  BY <1>6, MoveOnlyMoves DEF CallbackStep, Lookup, Disarm
<1>7. ASSUME NEW p \in Jobs, EngineRaises(p) PROVE OnlyMoves
  BY <1>7, MoveOnlyMoves DEF EngineRaises, Before
<1>8. ASSUME NEW p \in Jobs \cup Callbacks, AbortJob(p) \/ Crash(p) PROVE OnlyMoves
  BY <1>8, MoveOnlyMoves DEF AbortJob, Crash, Rest, Before
<1>9. ASSUME NEW j \in 0..Rounds, RecoverJob(j) PROVE OnlyMoves
  <2>1. Rescue(j) \notin Callbacks
    BY DEF Rescue, Callbacks
  <2> QED
    BY <1>9, <2>1, MoveOnlyMoves DEF RecoverJob
<1>10. ASSUME NEW t \in Tool, ToolAnswers(t) \/ TimerStep(t) PROVE OnlyMoves
  <2>1. by[t] # NoJob
    BY <1>10 DEF ToolAnswers, TimerStep, TimerFires, TimerAborted, Order, Undispatched
  <2>2. UNCHANGED <<ctx, results, by, terminal, seen>>
    BY <1>10 DEF ToolAnswers, TimerStep, TimerFires, TimerAborted
  <2>3. \A u \in Tool : u # t => tool'[u] = tool[u] /\ timer'[u] = timer[u]
    BY <1>10 DEF ToolAnswers, TimerStep, TimerFires, TimerAborted, Revoked, TypeInv, TypeOK
  <2>4. CASE pc' = pc
    BY <2>1, <2>2, <2>3, <2>4 DEF OnlyMoves, TypeInv, TypeOK
  <2>5. ASSUME NEW x \in {"result", "timeout"}, pc' = Enqueue(<<x, t>>) PROVE OnlyMoves
    <3>1. <<x, t>> \in Callbacks /\ <<x, t>>[2] = t
      BY DEF Callbacks
    <3> QED
      BY <2>1, <2>2, <2>3, <2>5, <3>1, EnqueueOnlyMoves
  <2> QED
    BY <1>10, <2>4, <2>5 DEF ToolAnswers, TimerStep, TimerFires, TimerAborted
<1> QED
  BY <1>1, <1>2, <1>3, <1>4, <1>5, <1>6, <1>7, <1>8, <1>9, <1>10 DEF Next, ProcStep, CallbackStep

-----------------------------------------------------------------------------
(* The four actions that do more.                                          *)

(* An accepted checkpoint is the next pause: its job was resumed from the  *)
(* stored one, and nobody yet knows of the new one.                        *)
LEMMA SaveStep ==
    ASSUME TypeInv, Chain, Order, NEW p \in Jobs, Save(p)
    PROVE  Order' /\ TurnStep
<1> USE JobIds, RoundsAssumption DEF TypeInv, TypeOK
<1>1. CASE terminal # "none"
  <2>1. OnlyMoves
    BY <1>1, MoveOnlyMoves DEF Save, SaveAccepted, store, Stay, Before
  <2> QED
    BY <2>1, MovesKeepOrder, MovesAreTurnSteps
<1>2. CASE terminal = "none"
  <2> DEFINE c == p[2] + 1
  <2>0. p[2] \in 0..Rounds /\ p = Job(p[2])
    OBVIOUS
  <2>1. /\ pc[p] = "save" /\ pc' = [pc EXCEPT ![p] = "reload"]
        /\ ctx' = c /\ p[2] # Rounds /\ c \in 1..Rounds /\ p = Job(p[2])
        /\ UNCHANGED <<results, terminal, seen, by, tool, timer>>
    <3>1. pc[p] = "save" /\ SaveCheckpoint(c) /\ Goto(p, "reload")
          /\ UNCHANGED <<seen, fed, by, tool, timer, aborts, heard>>
      BY <1>2 DEF Save, SaveAccepted
    <3>2. p[2] # Rounds
      BY <3>1 DEF NoPauseAtBound
    <3> QED
      BY <2>0, <3>1, <3>2 DEF SaveCheckpoint, Goto, Stay
  <2>2. ctx = p[2]
    <3>1. p[2] <= ctx /\ ctx <= p[2]
      BY <1>2, <2>1 DEF Order, Latest
    <3>2. ctx \in Nat /\ p[2] \in Nat
      BY <2>0
    <3> QED
      BY ONLY <3>1, <3>2
  <2>3. \A d \in 0..Rounds : pc[Job(d)] # "idle" => d <= p[2]
    BY <1>2, <2>2 DEF Order, Latest
  <2>4. \A d \in 0..Rounds : pc'[Job(d)] # "save"
    <3> SUFFICES ASSUME NEW d \in 0..Rounds, pc'[Job(d)] = "save" PROVE FALSE
      OBVIOUS
    <3>1. pc[Job(d)] = "save" /\ d # p[2]
      BY <2>1
    <3>2. ctx <= d /\ d <= ctx
      BY <1>2, <3>1 DEF Order, Latest
    <3>3. \A a, b \in Nat : a <= b /\ b <= a => a = b
      OBVIOUS
    <3>4. ctx \in Nat /\ d \in Nat
      OBVIOUS
    <3> QED
      BY ONLY <2>2, <3>1, <3>2, <3>3, <3>4
  <2>5. Latest'
    <3>1. ASSUME NEW d \in 0..Rounds, pc'[Job(d)] # "idle" PROVE d <= c
      BY <2>1, <2>3, <3>1
    <3>2. ASSUME NEW q \in Proc PROVE seen[q] <= c
      BY <1>2, <2>2 DEF Order, Latest
    <3> QED
      BY <2>1, <2>4, <3>1, <3>2 DEF Latest
  <2>6. PausesForTools' /\ Undispatched' /\ DispatchersBegan'
    <3>1. DispatchersBegan'
      BY <2>1 DEF Order, DispatchersBegan, Before, NoJob
    <3>2. Undispatched'
      BY <2>1, ProcKinds DEF Order, Undispatched
    <3> QED
      BY <2>4, <3>1, <3>2 DEF PausesForTools
  <2>7. Turn!Pause(Pending(c))
    <3>1. phase = "running"
      BY <1>2, <2>1, <2>2, PhaseIs DEF Before
    <3>2. pc'[Job(c)] = "idle"
      BY <2>1, <2>3
    <3>3. phase' = "paused"
      BY <1>2, <2>1, <3>2 DEF phase, Before
    <3>4. Pending(c) # {}
      BY <2>1 DEF Order, PausesForTools
    <3>0. \A t \in Tool : by[t] \in Nat
      BY DEF NoJob
    <3>5. \A t \in Tool : t \in Pending(c) <=> by[t] = p[2]
      <4>1. \A a, b \in Nat : a + 1 = b + 1 <=> a = b
        OBVIOUS
      <4>2. p[2] \in Nat
        BY <2>0
      <4> QED
        BY ONLY <3>0, <4>1, <4>2 DEF Pending
    <3>6. \A t \in Tool : by[t] < c <=> (by[t] < p[2] \/ by[t] = p[2])
      <4>1. \A a, b \in Nat : a < b + 1 <=> (a < b \/ a = b)
        OBVIOUS
      <4>2. p[2] \in Nat
        BY <2>0
      <4> QED
        BY ONLY <3>0, <4>1, <4>2
    <3>7. Pending(c) \subseteq Tool
      BY DEF Pending
    <3> HIDE DEF c
    <3>8. Pending(c) \cap {t \in Tool : by[t] < ctx} = {}
      BY <2>2, <3>5, <3>7 DEF NoJob
    <3>9. {t \in Tool : by[t] < c} = {t \in Tool : by[t] < ctx} \cup Pending(c)
      BY <2>2, <3>5, <3>6, <3>7
    <3>10. ctx' = ctx + 1
      BY <2>1, <2>2 DEF c
    <3> QED
      BY <1>2, <2>1, <3>1, <3>3, <3>4, <3>8, <3>9, <3>10 DEF Turn!Pause
  <2>8. TurnStep
    <3>1. Pending(c) \in SUBSET Tool
      BY DEF Pending
    <3>2. \E tools \in SUBSET Tool : Turn!Pause(tools)
      BY ONLY <2>7, <3>1 DEF Turn!Pause
    <3> QED
      BY <3>2 DEF TurnStep, Turn!Next
  <2> QED
    BY <2>5, <2>6, <2>8 DEF Order
<1> QED
  BY <1>1, <1>2

(* The first answer recorded for a tool is an answer of the turn.          *)
LEMMA RecordStep ==
    ASSUME TypeInv, Chain, Order, NEW p \in Callbacks, Record(p)
    PROVE  Order' /\ TurnStep
<1> USE JobIds, ProcKinds, RoundsAssumption DEF TypeInv, TypeOK
<1> DEFINE t == p[2]
<1>1. CASE UNCHANGED results
  <2>1. OnlyMoves
    BY <1>1, MoveOnlyMoves DEF Record, RecordResult, Stay
  <2> QED
    BY <2>1, MovesKeepOrder, MovesAreTurnSteps
<1>2. CASE terminal = "none" /\ results[t] = "none"
  <2>1. /\ t \in Tool /\ p[1] \in {"result", "timeout"} /\ pc[p] = "record"
        /\ pc' = [pc EXCEPT ![p] = "disarm"]
        /\ results' = [results EXCEPT ![t] = p[1]]
        /\ UNCHANGED <<ctx, terminal, seen, by, tool, timer>>
    BY <1>2 DEF Record, RecordResult, Goto, Stay
  <2>2. by[t] # NoJob
    <3>1. p = <<"result", t>> \/ p = <<"timeout", t>>
      BY DEF Callbacks
    <3> QED
      BY <2>1, <3>1 DEF Order, Undispatched
  <2>3. \A j \in 0..Rounds : pc'[Job(j)] = pc[Job(j)]
    BY <2>1
  <2>4. Latest' /\ PausesForTools' /\ DispatchersBegan'
    <3>1. Latest'
      BY <2>1, <2>3 DEF Order, Latest
    <3>2. PausesForTools'
      BY <2>1, <2>3 DEF Order, PausesForTools, Pending
    <3>3. DispatchersBegan'
      BY <2>1, <2>3, DispatcherIsJob DEF Order, DispatchersBegan, NoJob
    <3> QED
      BY <3>1, <3>2, <3>3
  <2>5. Undispatched'
    <3> SUFFICES ASSUME NEW u \in Tool, by[u] = NoJob
                 PROVE  /\ results'[u] = "none"
                        /\ pc'[<<"result", u>>] = pc[<<"result", u>>]
                        /\ pc'[<<"timeout", u>>] = pc[<<"timeout", u>>]
      BY <2>1 DEF Order, Undispatched
    <3>1. u # t
      BY <2>2
    <3> QED
      BY <2>1, <3>1 DEF Order, Undispatched
  <2>6. phase' = phase
    BY <2>1, <2>3 DEF phase
  <2>7. phase \in {"running", "paused"}
    <3>1. CASE pc[Job(ctx)] \notin Before
      BY <1>2, <3>1, PhaseIs
    <3>2. CASE pc[Job(ctx)] \in Before /\ ctx # 0
      BY <1>2, <3>2, PhaseIs
    <3>3. CASE pc[Job(ctx)] \in Before /\ ctx = 0
      <4>0. by[t] \in 0..Rounds
        BY <2>1, <2>2, DispatcherIsJob
      <4>1. by[t] \in 0..Rounds /\ pc[Job(by[t])] \notin Before
        BY <2>1, <2>2, <4>0 DEF Order, DispatchersBegan
      <4>2. by[t] <= ctx
        BY <1>2, <4>1 DEF Order, Latest, Before
      <4> QED
        BY <3>3, <4>1, <4>2
    <3> QED
      BY <3>1, <3>2, <3>3
  <2>8. Turn!Answer(t)
    <3>1. t \notin {u \in Tool : results[u] # "none"}
      BY <1>2
    <3>2. {u \in Tool : results'[u] # "none"} = {u \in Tool : results[u] # "none"} \cup {t}
      BY <2>1
    <3> HIDE DEF t
    <3> QED
      BY <1>2, <2>1, <2>6, <2>7, <3>1, <3>2 DEF Turn!Answer
  <2>9. TurnStep
    BY <2>1, <2>8 DEF TurnStep, Turn!Next
  <2> QED
    BY <2>4, <2>5, <2>9 DEF Order
<1> QED
  BY <1>1, <1>2 DEF Record, RecordResult

(* Only a turn that is over is wiped, and nobody sees it.                  *)
LEMMA WipeStep ==
    ASSUME TypeInv, Chain, Order, NEW p \in Proc, Wipe(p)
    PROVE  Order' /\ TurnStep
<1> USE JobIds, ProcKinds, RoundsAssumption DEF TypeInv, TypeOK
<1>1. /\ pc[p] \in {"wipe", "fail_wipe"} /\ terminal # "none"
      /\ \A q \in Proc : q # p => pc'[q] = pc[q]
      /\ pc'[p] \in {"close", "fail_close"}
      /\ results' = [t \in Tool |-> "none"]
      /\ UNCHANGED <<terminal, seen, by, tool, timer>>
  BY DEF Wipe, Cleanup, Goto, Stay, Chain, WipersOver
<1>2. Latest'
  BY <1>1 DEF Latest
<1>3. PausesForTools'
  BY <1>1 DEF Order, PausesForTools, Pending
<1>4. Undispatched'
  BY <1>1 DEF Order, Undispatched
<1>5. DispatchersBegan'
  BY <1>1 DEF Order, DispatchersBegan, Before, NoJob
<1>6. TurnStep
  BY <1>1, OverStutters DEF TurnStep
<1> QED
  BY <1>2, <1>3, <1>4, <1>5, <1>6 DEF Order

(* A tool is dispatched for the pause to come, not for one already taken.  *)
LEMMA DispatchStep ==
    ASSUME TypeInv, Chain, Order, NEW p \in Jobs, NEW t \in Tool, DispatchTool(p, t)
    PROVE  Order' /\ TurnStep
<1> USE JobIds, ProcKinds, RoundsAssumption DEF TypeInv, TypeOK
<1>1. /\ pc[p] = "engine" /\ p = Job(p[2]) /\ p[2] \in 0..Rounds /\ by[t] = NoJob
      /\ by' = [by EXCEPT ![t] = p[2]] /\ \A u \in Tool : u # t => tool'[u] = tool[u]
      /\ UNCHANGED <<ctx, results, terminal, pc, seen, timer>>
  BY DEF DispatchTool, store
<1>2. Latest'
  BY <1>1 DEF Order, Latest
<1>3. PausesForTools'
  <2>1. ASSUME NEW c \in 0..Rounds PROVE Pending(c + 1) \subseteq Pending(c + 1)'
    BY <1>1, <2>1 DEF Pending, NoJob
  <2>2. ASSUME NEW c \in 0..Rounds, pc[Job(c)] = "save" PROVE Pending(c + 1)' # {}
    <3>1. Pending(c + 1) # {}
      BY <2>2 DEF Order, PausesForTools
    <3> QED
      BY ONLY <2>1, <2>2, <3>1
  <2> QED
    BY <1>1, <2>2 DEF PausesForTools
<1>4. Undispatched'
  BY <1>1 DEF Order, Undispatched, NoJob
<1>5. DispatchersBegan'
  BY <1>1 DEF Order, DispatchersBegan, Before
<1>6. TurnStep
  <2>1. ~(p[2] < ctx)
    BY <1>1 DEF Chain, LoadedSettled, Settled, PastEngine, BeforeEnd
  <2>2. {u \in Tool : by'[u] < ctx} = {u \in Tool : by[u] < ctx}
    <3>1. ~(NoJob < ctx)
      BY DEF NoJob
    <3>2. \A u \in Tool : by'[u] = IF u = t THEN p[2] ELSE by[u]
      BY <1>1
    <3> QED
      BY <1>1, <2>1, <3>1, <3>2
  <2>3. phase' = phase
    BY <1>1 DEF phase
  <2>4. ctx' = ctx /\ terminal' = terminal /\ results' = results
    BY <1>1
  <2> QED
    BY ONLY <2>2, <2>3, <2>4 DEF TurnStep, Turn!tvars
<1> QED
  BY <1>2, <1>3, <1>4, <1>5, <1>6 DEF Order

-----------------------------------------------------------------------------
LEMMA NextOrder ==
    TypeInv /\ Chain /\ Order /\ [Next]_vars => Order' /\ TurnStep
<1> SUFFICES ASSUME TypeInv, Chain, Order, [Next]_vars PROVE Order' /\ TurnStep
  OBVIOUS
<1>1. CASE UNCHANGED vars
  <2>1. OnlyMoves
    BY <1>1 DEF vars, OnlyMoves
  <2> QED
    BY <2>1, MovesKeepOrder, MovesAreTurnSteps
<1>2. ASSUME OnlyMoves PROVE Order' /\ TurnStep
  BY <1>2, MovesKeepOrder, MovesAreTurnSteps
<1> QED
  BY <1>1, <1>2, OthersOnlyMove, SaveStep, RecordStep, WipeStep, DispatchStep

LEMMA OrderHolds == Spec => [](TypeInv /\ Chain /\ Order)
BY InitType, InitChain, InitOrder, NextType, NextChain, NextOrder, PTL DEF Spec

(* For any set of tools, any number of pauses and whatever goes wrong, the *)
(* jobs, callbacks, timeouts and workers together behave as one turn: it   *)
(* begins once, each pause waits for tools no earlier pause asked for and  *)
(* ends only with an answer for each of them, an answer is given once, and *)
(* when the turn is over it stays over.                                    *)
THEOREM TurnImplemented == Spec => ImplementsTurn
<1>1. Init => Turn!Init
  <2> SUFFICES ASSUME Init PROVE Turn!Init
    OBVIOUS
  <2>1. phase = "new"
    BY JobIds, PhaseIs, RoundsAssumption DEF Init, Before
  <2>2. {t \in Tool : results[t] # "none"} = {} /\ {t \in Tool : by[t] < ctx} = {}
    BY RoundsAssumption DEF Init, NoJob
  <2> QED
    BY <2>1, <2>2 DEF Init, Turn!Init
<1>2. TypeInv /\ Chain /\ Order /\ [Next]_vars => TurnStep
  BY NextOrder
<1> QED
  BY OrderHolds, <1>1, <1>2, PTL DEF Spec, ImplementsTurn, Turn!Spec, TurnStep
=============================================================================
