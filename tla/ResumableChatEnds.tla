------------------------- MODULE ResumableChatEnds -------------------------
(***************************************************************************)
(* What the end of a turn leaves: nothing in the store, a closed stream    *)
(* and, after a cancel, no tool that nobody watches.                       *)
(***************************************************************************)
EXTENDS ResumableChatRefinement

-----------------------------------------------------------------------------
(* A turn that has ended and is not clean yet has a coroutine on its way   *)
(* to cleanup(), or a worker died on that way and its rescue is due; the   *)
(* same for finish().  An abort, which could take a coroutine off that     *)
(* way, is requested by cancel() only, and cancel() then goes it itself.   *)

Clean == ctx = 0 /\ \A t \in Tool : results[t] = "none"

Wiping(p) ==
    \/ pc[p] \in {"wipe", "error", "fail_wipe", "crashed"}
    \/ p = Client /\ pc[p] \in {"unwind", "revoke", "stop_jobs"}
Closing(p) == Wiping(p) \/ pc[p] \in {"close", "fail_close"}

ClientPath ==
    pc[Client] \in {"idle", "mark", "unwind", "revoke", "stop_jobs", "wipe",
                    "close", "done"}
EndsClean == terminal # "none" => Clean \/ \E p \in Proc : Wiping(p)
EndsClosed == terminal # "none" => heard.ended \/ \E p \in Proc : Closing(p)
ClosersClean ==
    \A p \in Proc :
        pc[p] \in {"close", "fail_close"} => terminal # "none" /\ Clean
AbortsByClient ==
    aborts \cap (Jobs \cup Callbacks) # {} => pc[Client] \in {"wipe", "close", "done"}
ClientDone == pc[Client] = "done" => terminal # "none" /\ Clean /\ heard.ended

Ends ==
    /\ ClientPath /\ EndsClean /\ EndsClosed
    /\ ClosersClean /\ AbortsByClient /\ ClientDone

LEMMA InitEnds == Init => Ends
<1> SUFFICES ASSUME Init PROVE Ends
  OBVIOUS
<1>1. \A p \in Proc : pc[p] = "idle"
  BY DEF Init
<1>2. pc[Client] = "idle" /\ terminal = "none" /\ aborts = {}
  BY ProcKinds DEF Init
<1> QED
  BY <1>1, <1>2 DEF Ends, ClientPath, EndsClean, EndsClosed, ClosersClean,
     AbortsByClient, ClientDone

(* A step that neither ends the turn nor wipes or closes it, nor leaves    *)
(* the way to that.                                                        *)
Calm ==
    /\ terminal' = terminal /\ heard'.ended = heard.ended
    /\ pc'[Client] = pc[Client]
    /\ aborts' \cap (Jobs \cup Callbacks) \subseteq aborts
    /\ \A p \in Proc : Wiping(p) => Wiping(p)'
    /\ \A p \in Proc : Closing(p) => Closing(p)'
    /\ \A p \in Proc : pc'[p] \in {"close", "fail_close"} =>
                       pc[p] \in {"close", "fail_close"}

(* Cleaned up is cleaned up: see OnlyWipes.                                *)
LEMMA CleanStays ==
    ASSUME TypeInv, OnlyWipes, terminal # "none", Clean
    PROVE  Clean'
BY DEF OnlyWipes, Clean

LEMMA CalmKeepsEnds ==
    ASSUME TypeInv, Ends, OnlyWipes, Calm
    PROVE  Ends'
<1> USE CleanStays
<1>1. ClientPath'
  BY DEF Ends, ClientPath, Calm
<1>2. EndsClean'
  BY DEF Ends, EndsClean, Calm
<1>3. EndsClosed'
  BY DEF Ends, EndsClosed, Calm
<1>4. ClosersClean'
  BY DEF Ends, ClosersClean, Calm
<1>5. AbortsByClient'
  BY DEF Ends, AbortsByClient, Calm
<1>6. ClientDone'
  BY DEF Ends, ClientDone, Calm
<1> QED
  BY <1>1, <1>2, <1>3, <1>4, <1>5, <1>6 DEF Ends

LEMMA MoveIsCalm ==
    ASSUME TypeInv, NEW p \in Proc, NEW l, Goto(p, l), p # Client,
           terminal' = terminal, heard'.ended = heard.ended,
           aborts' \cap (Jobs \cup Callbacks) \subseteq aborts,
           pc[p] \in {"wipe", "error", "fail_wipe", "crashed"} =>
               l \in {"fail_wipe", "crashed"},
           pc[p] \in {"close", "fail_close"} => l = "crashed",
           l \notin {"close", "fail_close"}
    PROVE  Calm
<1>1. pc' = [pc EXCEPT ![p] = l] /\ pc \in [Proc -> Label]
  BY DEF Goto, TypeInv, TypeOK
<1>2. \A q \in Proc : q # p => pc'[q] = pc[q]
  BY <1>1
<1>3. pc'[p] = l
  BY <1>1
<1> QED
  BY <1>2, <1>3, ProcKinds DEF Calm, Wiping, Closing

LEMMA EnqueueIsCalm ==
    ASSUME TypeInv, NEW q \in Proc, q # Client, pc' = Enqueue(q),
           UNCHANGED <<terminal, heard, aborts>>
    PROVE  Calm
<1>1. \A r \in Proc : pc'[r] = pc[r] \/ (r = q /\ pc[r] = "idle" /\ pc'[r] = "queued")
  BY DEF Enqueue, TypeInv, TypeOK
<1> QED
  BY <1>1, ProcKinds DEF Calm, Wiping, Closing

(* Every action but those that end, wipe or close the turn, the client's   *)
(* and the aborts.                                                         *)
LEMMA OthersAreCalm ==
    ASSUME TypeInv, Ends, Next,
           ~RequestCancel, ~CancelStep,
           ~Unwind(Client), ~Revoke(Client),
           \A p \in Jobs : ~Complete(p),
           \A p \in Proc : ~MarkFailed(p) /\ ~Wipe(p) /\ ~Close(p),
           \A p \in Jobs \cup Callbacks : ~AbortJob(p)
    PROVE  Calm
<1> USE JobIds, ProcKinds DEF Stay, Leave, store
<1>0. \A p \in Proc : pc[p] \in {"peek", "check", "take", "send", "give_back", "error"} =>
                      p # Client
  BY DEF Ends, ClientPath
<1>1. CASE Submit
  BY <1>1, EnqueueIsCalm, RoundsAssumption DEF Submit
<1>2. ASSUME NEW p \in Jobs, JobStep(p) PROVE Calm
  <2> USE MoveIsCalm
  <2>1. CASE MatchCheckpoint(p)
    BY <2>1 DEF MatchCheckpoint
  <2>2. CASE Claim(p)
    BY <2>2 DEF Claim, ClaimAction
  <2>3. CASE ReadResults(p) \/ EngineReturns(p)
    BY <2>3 DEF ReadResults, EngineReturns
  <2>4. CASE Save(p)
    BY <2>4 DEF Save, SaveCheckpoint
  <2>5. CASE RevokeRefused(p) \/ Reload(p) \/ ArmTimers(p)
    BY <2>5 DEF RevokeRefused, Reload, ArmTimers
  <2> QED
    BY <1>2, <2>1, <2>2, <2>3, <2>4, <2>5 DEF JobStep
<1>3. ASSUME NEW p \in Proc, ReadyStep(p) \/ SendRaises(p) PROVE Calm
  <2>0. p # Client
    BY <1>0, <1>3 DEF ReadyStep, Peek, Check, Take, Send, GiveBack, SendRaises
  <2>1. CASE Peek(p) \/ Check(p) \/ SendRaises(p)
    BY <2>0, <2>1, MoveIsCalm DEF Peek, Check, SendRaises
  <2>2. CASE Take(p)
    BY <2>0, <2>2, MoveIsCalm DEF Take, ClaimResume
  <2>3. CASE Send(p)
    <3> DEFINE q == Job(seen[p])
    <3>1. /\ q \in Jobs /\ pc[p] = "send" /\ pc' = [Enqueue(q) EXCEPT ![p] = "done"]
          /\ UNCHANGED <<terminal, heard, aborts>>
      BY <2>3 DEF Send, TypeInv, TypeOK
    <3> HIDE DEF q
    <3>2. \A r \in Proc : \/ pc'[r] = pc[r]
                          \/ r = p /\ pc'[r] = "done"
                          \/ r = q /\ pc[r] = "idle" /\ pc'[r] = "queued"
      BY <3>1 DEF Enqueue, TypeInv, TypeOK
    <3>3. q # Client
      BY <3>1
    <3> QED
      BY <2>0, <3>1, <3>2, <3>3 DEF Calm, Wiping, Closing
  <2>4. CASE GiveBack(p)
    BY <2>0, <2>4, MoveIsCalm DEF GiveBack, ReleaseResume
  <2> QED
    BY <1>3, <2>1, <2>2, <2>3, <2>4 DEF ReadyStep
<1>4. ASSUME NEW p \in Proc, EndStep(p) PROVE Calm
  <2>1. CASE PublishError(p)
    <3>1. p # Client
      BY <1>0, <2>1 DEF PublishError
    <3>2. heard'.ended = heard.ended
      BY <2>1 DEF PublishError, TypeInv, TypeOK
    <3> QED
      BY <2>1, <3>1, <3>2, MoveIsCalm DEF PublishError
  <2>2. CASE Unwind(p)
    BY <2>2, MoveIsCalm DEF Unwind, AfterRevoke
  <2>3. CASE Revoke(p)
    BY <2>3, MoveIsCalm DEF Revoke, AfterRevoke
  <2> QED
    BY <1>4, <2>1, <2>2, <2>3 DEF EndStep
<1>5. ASSUME NEW p \in Callbacks, CallbackStep(p) PROVE Calm
  <2>0. p # Client
    BY DEF Client, Callbacks
  <2>1. CASE Lookup(p)
    BY <2>0, <2>1, MoveIsCalm DEF Lookup
  <2>2. CASE Record(p)
    BY <2>0, <2>2, MoveIsCalm DEF Record, RecordResult
  <2>3. CASE Disarm(p)
    <3>1. Timer(p[2]) \notin Jobs \cup Callbacks
      BY DEF Timer, Jobs, Callbacks
    <3>2. aborts' \cap (Jobs \cup Callbacks) \subseteq aborts
      BY <2>3, <3>1 DEF Disarm
    <3> QED
      BY <2>0, <2>3, <3>2, MoveIsCalm DEF Disarm
  <2> QED
    BY <1>5, <2>1, <2>2, <2>3 DEF CallbackStep
<1>6. ASSUME NEW p \in Jobs, EngineRaises(p) PROVE Calm
  BY <1>6, MoveIsCalm DEF EngineRaises
<1>7. ASSUME NEW p \in Jobs, NEW t \in Tool, DispatchTool(p, t) PROVE Calm
  BY <1>7 DEF DispatchTool, Calm, Wiping, Closing
<1>8. ASSUME NEW p \in Jobs \cup Callbacks, Crash(p) PROVE Calm
  <2>1. p # Client /\ p \in Proc
    BY DEF Client, Callbacks
  <2> QED
    BY <1>8, <2>1, MoveIsCalm DEF Crash
<1>9. ASSUME NEW j \in 0..Rounds, RecoverJob(j) PROVE Calm
  <2>1. Rescue(j) # Client
    BY DEF Client, Rescue
  <2> QED
    BY <1>9, <2>1, MoveIsCalm DEF RecoverJob
<1>10. ASSUME NEW t \in Tool, ToolAnswers(t) \/ TimerStep(t) PROVE Calm
  <2>1. UNCHANGED <<terminal, heard, aborts>>
    BY <1>10 DEF ToolAnswers, TimerStep, TimerFires, TimerAborted
  <2>2. pc' = pc \/ \E r \in Callbacks : pc' = Enqueue(r)
    BY <1>10 DEF ToolAnswers, TimerStep, TimerFires, TimerAborted
  <2>3. \A r \in Callbacks : r \in Proc /\ r # Client
    BY DEF Client, Callbacks
  <2>4. CASE pc' = pc
    BY <2>1, <2>4 DEF Calm, Wiping, Closing
  <2> QED
    BY <2>1, <2>2, <2>3, <2>4, EnqueueIsCalm
<1> QED
  BY <1>1, <1>2, <1>3, <1>4, <1>5, <1>6, <1>7, <1>8, <1>9, <1>10 DEF Next, ProcStep, JobStep, EndStep

(* Whoever ends the turn is on its way to cleanup().                       *)
LEMMA FirstEnd ==
    ASSUME TypeInv, Chain, Ends, terminal = "none", terminal' # "none",
           NEW p \in Proc, NEW l, Goto(p, l),
           UNCHANGED <<heard, aborts>>,
           \/ p # Client /\ l \in {"wipe", "error", "fail_wipe"}
           \/ p = Client /\ pc[p] = "mark" /\ l = "unwind"
    PROVE  Ends'
<1> USE ProcKinds
<1>1. pc' = [pc EXCEPT ![p] = l] /\ pc \in [Proc -> Label]
  BY DEF Goto, TypeInv, TypeOK
<1>2. \A q \in Proc : q # p => pc'[q] = pc[q]
  BY <1>1
<1>3. pc'[p] = l
  BY <1>1
<1>4. Wiping(p)'
  BY <1>3 DEF Wiping
<1>5. \A q \in Proc : pc[q] \notin {"close", "fail_close"}
  BY DEF Ends, ClosersClean
<1>6. pc[Client] \notin {"wipe", "close", "done"}
  BY <1>5 DEF Ends, ClientDone, Chain, WipersOver
<1>7. aborts \cap (Jobs \cup Callbacks) = {}
  BY <1>6 DEF Ends, AbortsByClient
<1>8. ClientPath' /\ ClientDone'
  BY <1>2, <1>3, <1>6 DEF Ends, ClientPath, ClientDone
<1>9. EndsClean' /\ EndsClosed'
  BY <1>4 DEF EndsClean, EndsClosed, Closing
<1>10. ClosersClean'
  BY <1>2, <1>3, <1>5 DEF ClosersClean
<1>11. AbortsByClient'
  BY <1>7 DEF AbortsByClient
<1> QED
  BY <1>8, <1>9, <1>10, <1>11 DEF Ends

(* cancel() moves on; the aborts it requests come with its own cleanup().  *)
LEMMA ClientMoves ==
    ASSUME TypeInv, Ends, OnlyWipes, NEW l, Goto(Client, l),
           UNCHANGED <<terminal, heard>>,
           aborts' = aborts \/ l = "wipe",
           l \in {"mark", "unwind", "revoke", "stop_jobs", "wipe"},
           pc[Client] \in {"idle", "mark", "unwind", "revoke", "stop_jobs"},
           pc[Client] \in {"unwind", "revoke", "stop_jobs"} => l # "mark"
    PROVE  Ends'
<1> USE ProcKinds, CleanStays
<1>1. pc' = [pc EXCEPT ![Client] = l] /\ pc \in [Proc -> Label]
  BY DEF Goto, TypeInv, TypeOK
<1>2. \A q \in Proc : q # Client => pc'[q] = pc[q]
  BY <1>1
<1>3. pc'[Client] = l
  BY <1>1
<1>4. \A q \in Proc : Wiping(q) => Wiping(q)'
  BY <1>2, <1>3 DEF Wiping
<1>5. \A q \in Proc : Closing(q) => Closing(q)'
  BY <1>2, <1>3, <1>4 DEF Closing
<1>6. ClientPath' /\ ClientDone'
  BY <1>3 DEF ClientPath, ClientDone
<1>7. EndsClean' /\ EndsClosed'
  BY <1>4, <1>5 DEF Ends, EndsClean, EndsClosed
<1>8. ClosersClean'
  BY <1>2, <1>3 DEF Ends, ClosersClean
<1>9. AbortsByClient'
  BY <1>3 DEF Ends, AbortsByClient
<1> QED
  BY <1>6, <1>7, <1>8, <1>9 DEF Ends

LEMMA WipeEnds ==
    ASSUME TypeInv, Chain, Ends, NEW p \in Proc, Wipe(p)
    PROVE  Ends'
<1> USE ProcKinds
<1> DEFINE l == IF pc[p] = "wipe" THEN "close" ELSE "fail_close"
<1>1. /\ pc[p] \in {"wipe", "fail_wipe"} /\ terminal # "none" /\ Clean'
      /\ pc' = [pc EXCEPT ![p] = l] /\ pc \in [Proc -> Label]
      /\ UNCHANGED <<terminal, heard, aborts>>
  BY DEF Wipe, Cleanup, Clean, Goto, Stay, Chain, WipersOver, TypeInv, TypeOK
<1>2. \A q \in Proc : q # p => pc'[q] = pc[q]
  BY <1>1
<1>3. pc'[p] = l /\ l \in {"close", "fail_close"} /\ (p = Client => l = "close")
  BY <1>1 DEF Ends, ClientPath
<1> HIDE DEF l
<1>4. \A q \in Proc : Closing(q) => Closing(q)'
  BY <1>2, <1>3 DEF Closing, Wiping
<1>5. ClientPath' /\ AbortsByClient'
  BY <1>1, <1>2, <1>3 DEF Ends, ClientPath, AbortsByClient
<1>6. EndsClean' /\ ClosersClean'
  BY <1>1 DEF EndsClean, ClosersClean
<1>7. EndsClosed'
  BY <1>1, <1>4 DEF Ends, EndsClosed
<1>8. ClientDone'
  BY <1>1, <1>2, <1>3 DEF Ends, ClientDone
<1> QED
  BY <1>5, <1>6, <1>7, <1>8 DEF Ends

LEMMA CloseEnds ==
    ASSUME TypeInv, Ends, NEW p \in Proc, Close(p)
    PROVE  Ends'
<1> USE ProcKinds
<1> DEFINE l == IF pc[p] = "fail_close" /\ p \in Jobs THEN "failed" ELSE "done"
<1>1. /\ pc[p] \in {"close", "fail_close"} /\ terminal # "none" /\ Clean
      /\ pc' = [pc EXCEPT ![p] = l] /\ pc \in [Proc -> Label]
      /\ heard'.ended /\ UNCHANGED <<ctx, results, terminal, aborts>>
  BY DEF Close, Goto, store, Ends, ClosersClean, TypeInv, TypeOK
<1>2. \A q \in Proc : q # p => pc'[q] = pc[q]
  BY <1>1
<1>3. pc'[p] = l /\ l \in {"failed", "done"} /\ (p = Client => l = "done")
  BY <1>1
<1> HIDE DEF l
<1>4. Clean'
  BY <1>1 DEF Clean
<1>5. ClientPath' /\ AbortsByClient'
  BY <1>1, <1>2, <1>3 DEF Ends, ClientPath, AbortsByClient
<1>6. EndsClean' /\ EndsClosed' /\ ClosersClean' /\ ClientDone'
  BY <1>1, <1>4 DEF EndsClean, EndsClosed, ClosersClean, ClientDone
<1> QED
  BY <1>5, <1>6 DEF Ends

(* An abort may take a coroutine off the way to cleanup(): cancel(), which *)
(* requested it, is about to clean up itself, or has.                      *)
LEMMA AbortEnds ==
    ASSUME TypeInv, Ends, NEW p \in Jobs \cup Callbacks, AbortJob(p)
    PROVE  Ends'
<1> USE JobIds, ProcKinds
<1>0. p \in Proc /\ p # Client
  BY DEF Client, Callbacks
<1>1. /\ p \in aborts
      /\ \A q \in Proc : q # p => pc'[q] = pc[q]
      /\ pc'[p] \in {"unwind", "aborted"}
      /\ UNCHANGED <<ctx, results, terminal, heard, aborts>>
  BY <1>0 DEF AbortJob, Goto, Leave, Stay, store, TypeInv, TypeOK
<1>2. pc[Client] \in {"wipe", "close", "done"} /\ pc'[Client] = pc[Client]
  BY <1>0, <1>1 DEF Ends, AbortsByClient
<1>3. Clean' <=> Clean
  BY <1>1 DEF Clean
<1>4. EndsClean'
  <2>1. pc[Client] = "wipe" => Wiping(Client)'
    BY <1>2 DEF Wiping
  <2>2. pc[Client] \in {"close", "done"} => Clean'
    BY <1>3 DEF Ends, ClosersClean, ClientDone
  <2> QED
    BY <1>2, <2>1, <2>2 DEF EndsClean
<1>5. EndsClosed'
  <2>1. pc[Client] \in {"wipe", "close"} => Closing(Client)'
    BY <1>2 DEF Closing, Wiping
  <2>2. pc[Client] = "done" => heard'.ended
    BY <1>1 DEF Ends, ClientDone
  <2> QED
    BY <1>2, <2>1, <2>2 DEF EndsClosed
<1>6. ClosersClean'
  BY <1>1, <1>3 DEF Ends, ClosersClean
<1>7. ClientPath' /\ AbortsByClient' /\ ClientDone'
  BY <1>1, <1>2, <1>3 DEF Ends, ClientPath, AbortsByClient, ClientDone
<1> QED
  BY <1>4, <1>5, <1>6, <1>7 DEF Ends

LEMMA NextEnds == TypeInv /\ Chain /\ Ends /\ [Next]_vars => Ends'
<1> SUFFICES ASSUME TypeInv, Chain, Ends, [Next]_vars PROVE Ends'
  OBVIOUS
<1> USE JobIds, ProcKinds DEF Stay, store
<1>0. OnlyWipes
  BY NextOnlyWipes
<1>1. CASE UNCHANGED vars
  <2>1. Calm
    BY <1>1 DEF vars, Calm, Wiping, Closing
  <2> QED
    BY <1>0, <2>1, CalmKeepsEnds
<1>2. ASSUME NEW p \in Jobs, Complete(p) PROVE Ends'
  <2>1. CASE terminal = "none"
    BY <1>2, <2>1, FirstEnd DEF Complete, MarkTerminal
  <2>2. CASE terminal # "none"
    <3>1. Calm
      BY <1>2, <2>2, MoveIsCalm DEF Complete, MarkTerminal
    <3> QED
      BY <1>0, <3>1, CalmKeepsEnds
  <2> QED
    BY <2>1, <2>2
<1>3. ASSUME NEW p \in Proc, MarkFailed(p) PROVE Ends'
  <2>0. p # Client
    BY <1>3 DEF MarkFailed, Ends, ClientPath
  <2>1. CASE terminal = "none"
    BY <1>3, <2>0, <2>1, FirstEnd DEF MarkFailed, MarkTerminal
  <2>2. CASE terminal # "none"
    <3>1. Calm
      BY <1>3, <2>0, <2>2, MoveIsCalm DEF MarkFailed, MarkTerminal
    <3> QED
      BY <1>0, <3>1, CalmKeepsEnds
  <2> QED
    BY <2>1, <2>2
<1>4. ASSUME RequestCancel \/ StopJobs PROVE Ends'
  BY <1>0, <1>4, ClientMoves DEF RequestCancel, StopJobs
<1>5. ASSUME MarkCancelled PROVE Ends'
  <2>1. CASE terminal = "none"
    BY <1>5, <2>1, FirstEnd DEF MarkCancelled, MarkTerminal
  <2>2. CASE terminal # "none"
    BY <1>0, <1>5, <2>2, ClientMoves DEF MarkCancelled, MarkTerminal
  <2> QED
    BY <2>1, <2>2
<1>6. ASSUME Unwind(Client) \/ Revoke(Client) PROVE Ends'
  <2>1. AfterRevoke(Client) = "stop_jobs"
    BY DEF AfterRevoke, Client, Rescues
  <2> QED
    BY <1>0, <1>6, <2>1, ClientMoves DEF Unwind, Revoke
<1> QED
  BY <1>0, <1>1, <1>2, <1>3, <1>4, <1>5, <1>6, WipeEnds, CloseEnds, AbortEnds,
     OthersAreCalm, CalmKeepsEnds DEF CancelStep

LEMMA EndsHold == Spec => [](TypeInv /\ Chain /\ Ends)
BY InitType, InitChain, InitEnds, NextType, NextChain, NextEnds, PTL DEF Spec

(* However a turn ends - completed, failed, cancelled, aborted half way,   *)
(* rescued from a worker that died or only stalled - once everything is at *)
(* rest its checkpoint and results are gone and its stream is closed.      *)
THEOREM EverythingCleanedUp == Spec => []NothingLeftBehind
<1>1. TypeInv /\ Ends => NothingLeftBehind
  <2> SUFFICES ASSUME Ends, AtRest, terminal # "none"
               PROVE  Clean /\ heard.ended
    BY DEF NothingLeftBehind, Clean
  <2>1. ASSUME NEW p \in Proc PROVE ~Closing(p)
    BY DEF AtRest, Rest, Closing, Wiping
  <2>2. ASSUME NEW p \in Proc PROVE ~Wiping(p)
    BY <2>1 DEF Closing
  <2> QED
    BY <2>1, <2>2 DEF Ends, EndsClean, EndsClosed
<1> QED
  BY EndsHold, <1>1, PTL

-----------------------------------------------------------------------------
(* No tool of a pause runs unwatched.  The inductive invariant follows a   *)
(* pause from its checkpoint to its timers: whoever has passed its save    *)
(* has seen to its tools, whoever was called back has stopped them, and a  *)
(* timer is aborted only for a tool that is stopped already.               *)

CalledBack(t) == pc[<<"result", t>>] # "idle" \/ pc[<<"timeout", t>>] # "idle"
HeardFrom(c) == \A t \in Tool : by[t] + 1 = c => CalledBack(t)
Watched(t) ==
    tool[t] = "running" => timer[t] # "none" \/ pc[<<"timeout", t>>] # "idle"
WatchedPause(c) == \A t \in Tool : by[t] + 1 = c => Watched(t)
NoPause(c) == \A t \in Tool : by[t] + 1 # c
AfterArm == {"peek", "check", "take", "send", "done"}
Completing == {"complete", "wipe", "close"}

ResultsStopped ==
    \A t \in Tool : pc[<<"result", t>>] # "idle" => tool[t] # "running"
ResultsCalledBack == \A t \in Tool : results[t] # "none" => CalledBack(t)
SendersHeard ==
    \A p \in Proc : pc[p] \in {"take", "send"} => HeardFrom(seen[p])
ResumersHeard == \A c \in 1..Rounds : pc[Job(c)] # "idle" => HeardFrom(c)
SaversStored ==
    \A c \in 0..Rounds : pc[Job(c)] = "reload" => ctx = 0 \/ c + 1 <= ctx
ArmersLoaded ==
    \A c \in 0..Rounds :
        pc[Job(c)] = "arm" => seen[Job(c)] = c + 1 \/ HeardFrom(c + 1)
ArmedWatched ==
    \A c \in 0..Rounds : pc[Job(c)] \in AfterArm => WatchedPause(c + 1)
CompletersAlone ==
    \A c \in 0..Rounds : pc[Job(c)] \in Completing => NoPause(c + 1)
AbortedTimers ==
    \A t \in Tool : Timer(t) \in aborts =>
        /\ by[t] # NoJob
        /\ tool[t] = "running" => pc[<<"timeout", t>>] # "idle"
FiredTimers ==
    \A t \in Tool :
        timer[t] = "over" /\ tool[t] = "running" => pc[<<"timeout", t>>] # "idle"
ClientRevoked ==
    pc[Client] = "stop_jobs" =>
        \A t \in Tool : by[t] + 1 = seen[Client] => tool[t] # "running"

Watch ==
    /\ ResultsStopped /\ ResultsCalledBack /\ SendersHeard /\ ResumersHeard
    /\ SaversStored /\ ArmersLoaded /\ ArmedWatched /\ CompletersAlone
    /\ AbortedTimers /\ FiredTimers /\ ClientRevoked

LEMMA InitWatch == Init => Watch
<1> SUFFICES ASSUME Init PROVE Watch
  OBVIOUS
<1>1. \A p \in Proc : pc[p] = "idle"
  BY DEF Init
<1>2. /\ \A c \in 0..Rounds : pc[Job(c)] = "idle"
      /\ \A t \in Tool : pc[<<"result", t>>] = "idle" /\ pc[<<"timeout", t>>] = "idle"
      /\ pc[Client] = "idle"
  BY <1>1, JobIds, ProcKinds
<1>3. \A c \in 1..Rounds : pc[Job(c)] = "idle"
  BY <1>2, RoundsAssumption
<1>4. aborts = {} /\ \A t \in Tool : results[t] = "none" /\ timer[t] = "none"
  BY DEF Init
<1> QED
  BY <1>1, <1>2, <1>3, <1>4 DEF Watch, ResultsStopped, ResultsCalledBack,
     SendersHeard, ResumersHeard, SaversStored, ArmersLoaded, ArmedWatched,
     CompletersAlone, AbortedTimers, FiredTimers, ClientRevoked, AfterArm, Completing

(* What every step but a dispatch does to what Watch speaks of.            *)
WatchMoves ==
    /\ by' = by
    /\ \A q \in Proc :
        /\ pc[q] # "idle" => pc'[q] # "idle"
        /\ pc'[q] \in {"take", "send"} =>
            /\ seen'[q] = seen[q]
            /\ pc[q] \in {"take", "send"} \/ HeardFrom(seen[q])
    /\ \A t \in Tool :
        /\ results'[t] # "none" => results[t] # "none" \/ CalledBack(t)
        /\ tool'[t] = "running" => tool[t] = "running"
        /\ timer[t] # "none" => timer'[t] # "none"
        /\ timer'[t] = "over" =>
            timer[t] = "over" \/ tool'[t] # "running" \/ pc'[<<"timeout", t>>] # "idle"
        /\ Timer(t) \in aborts' =>
            \/ Timer(t) \in aborts
            \/ /\ by[t] # NoJob
               /\ tool[t] # "running" \/ pc[<<"timeout", t>>] # "idle"
        /\ pc'[<<"result", t>>] # "idle" =>
            pc[<<"result", t>>] # "idle" \/ tool'[t] # "running"
    /\ \A c \in 0..Rounds :
        /\ pc'[Job(c)] # "idle" => pc[Job(c)] # "idle" \/ c = 0 \/ HeardFrom(c)
        /\ pc'[Job(c)] = "reload" =>
            \/ pc[Job(c)] = "reload" /\ ctx' \in {ctx, 0}
            \/ c + 1 <= ctx'
        /\ pc'[Job(c)] = "arm" =>
            \/ pc[Job(c)] = "arm" /\ seen'[Job(c)] = seen[Job(c)]
            \/ pc[Job(c)] = "reload" /\ seen'[Job(c)] = ctx /\ ctx # 0
        /\ pc'[Job(c)] \in AfterArm =>
            pc[Job(c)] \in AfterArm \/ WatchedPause(c + 1)'
        /\ pc'[Job(c)] \in Completing =>
            pc[Job(c)] \in Completing \/ NoPause(c + 1)
    /\ pc'[Client] = "stop_jobs" =>
        \/ pc[Client] = "stop_jobs" /\ seen'[Client] = seen[Client]
        \/ \A t \in Tool : by[t] + 1 = seen'[Client] => tool'[t] # "running"

LEMMA MovesKeepWatch ==
    ASSUME TypeInv, Chain, Watch, WatchMoves
    PROVE  Watch'
<1> USE JobIds, ProcKinds, RoundsAssumption
<1>1. \A t \in Tool : CalledBack(t) => CalledBack(t)'
  BY DEF WatchMoves, CalledBack
<1>2. \A c : HeardFrom(c) => HeardFrom(c)'
  BY <1>1 DEF WatchMoves, HeardFrom
<1>3. \A t \in Tool : Watched(t) => Watched(t)'
  BY DEF WatchMoves, Watched
<1>4. \A c : WatchedPause(c) => WatchedPause(c)'
  BY <1>3 DEF WatchMoves, WatchedPause
<1>5. ResultsStopped'
  BY DEF Watch, WatchMoves, ResultsStopped
<1>6. ResultsCalledBack'
  BY <1>1 DEF Watch, WatchMoves, ResultsCalledBack
<1>7. SendersHeard'
  <2> SUFFICES ASSUME NEW p \in Proc, pc'[p] \in {"take", "send"}
               PROVE  HeardFrom(seen[p])'
    BY DEF SendersHeard
  <2>1. seen'[p] = seen[p] /\ HeardFrom(seen[p])
    BY DEF Watch, WatchMoves, SendersHeard
  <2>2. HeardFrom(seen[p])' = \A t \in Tool : by'[t] + 1 = seen'[p] => CalledBack(t)'
    BY DEF HeardFrom
  <2> QED
    BY <1>1, <2>1, <2>2 DEF HeardFrom, WatchMoves
<1>8. ResumersHeard'
  <2> SUFFICES ASSUME NEW c \in 1..Rounds, pc'[Job(c)] # "idle"
               PROVE  HeardFrom(c)'
    BY DEF ResumersHeard
  <2>1. c \in 0..Rounds /\ c # 0
    OBVIOUS
  <2> QED
    BY <1>2, <2>1 DEF Watch, WatchMoves, ResumersHeard
<1>9. SaversStored'
  BY DEF Watch, WatchMoves, SaversStored, TypeInv, TypeOK
<1>10. ArmersLoaded'
  <2> SUFFICES ASSUME NEW c \in 0..Rounds, pc'[Job(c)] = "arm"
               PROVE  seen'[Job(c)] = c + 1 \/ HeardFrom(c + 1)'
    BY DEF ArmersLoaded
  <2>1. CASE pc[Job(c)] = "arm" /\ seen'[Job(c)] = seen[Job(c)]
    BY <1>2, <2>1 DEF Watch, ArmersLoaded
  <2>2. CASE pc[Job(c)] = "reload" /\ seen'[Job(c)] = ctx /\ ctx # 0
    <3>1. c + 1 <= ctx /\ ctx \in 0..Rounds
      BY <2>2 DEF Watch, SaversStored, TypeInv, TypeOK
    <3>2. CASE c + 1 = ctx
      BY <2>2, <3>2
    <3>3. CASE c + 1 # ctx
      <4>1. c + 1 \in 1..Rounds /\ c + 1 \in 0..Rounds /\ c + 1 < ctx
        BY <3>1, <3>3
      <4>2. pc[Job(c + 1)] # "idle"
        BY <4>1 DEF Chain, LoadedSettled, Settled, PastEngine, BeforeEnd
      <4> QED
        BY <1>2, <4>1, <4>2 DEF Watch, ResumersHeard
    <3> QED
      BY <3>2, <3>3
  <2> QED
    BY <2>1, <2>2 DEF WatchMoves
<1>11. ArmedWatched'
  <2> SUFFICES ASSUME NEW c \in 0..Rounds, pc'[Job(c)] \in AfterArm
               PROVE  WatchedPause(c + 1)'
    BY DEF ArmedWatched, AfterArm
  <2> QED
    BY <1>4 DEF Watch, WatchMoves, ArmedWatched
<1>12. CompletersAlone'
  BY DEF Watch, WatchMoves, CompletersAlone, NoPause, Completing
<1>13. AbortedTimers'
  BY DEF Watch, WatchMoves, AbortedTimers, NoJob
<1>14. FiredTimers'
  BY DEF Watch, WatchMoves, FiredTimers
<1>15. ClientRevoked'
  BY DEF Watch, WatchMoves, ClientRevoked
<1> QED
  BY <1>5, <1>6, <1>7, <1>8, <1>9, <1>10, <1>11, <1>12, <1>13, <1>14, <1>15 DEF Watch

-----------------------------------------------------------------------------
(* Every action but DispatchTool does no more.                             *)

LEMMA MoveIsWatched ==
    ASSUME TypeInv, NEW p \in Proc, NEW l, Goto(p, l),
           UNCHANGED <<by, timer>>,
           ctx' \in {ctx, 0},
           \A t \in Tool : results'[t] # "none" => results[t] # "none",
           \A t \in Tool : tool'[t] = "running" => tool[t] = "running",
           \A t \in Tool : Timer(t) \in aborts' => Timer(t) \in aborts,
           seen' \in {seen, [seen EXCEPT ![p] = 0], [seen EXCEPT ![p] = ctx]},
           l # "idle",
           p \in Callbacks => pc[p] # "idle",
           p \in Jobs => /\ pc[p] # "idle" /\ l \notin {"reload", "arm"}
                         /\ l \in AfterArm => \/ pc[p] \in AfterArm
                                             \/ NoPause(p[2] + 1)
                         /\ l \in Completing => \/ pc[p] \in Completing
                                               \/ NoPause(p[2] + 1),
           l \in {"take", "send"} =>
               seen' = seen /\ (pc[p] \in {"take", "send"} \/ HeardFrom(seen[p])),
           p = Client => l # "stop_jobs"
    PROVE  WatchMoves
<1> USE JobIds, ProcKinds, RoundsAssumption
<1>1. /\ pc' = [pc EXCEPT ![p] = l] /\ pc \in [Proc -> Label]
      /\ seen \in [Proc -> 0..Rounds]
  BY DEF Goto, TypeInv, TypeOK
<1>2. \A q \in Proc : q # p => pc'[q] = pc[q] /\ seen'[q] = seen[q]
  BY <1>1
<1>3. pc'[p] = l
  BY <1>1
<1>4. \A c : NoPause(c) => WatchedPause(c)'
  BY DEF NoPause, WatchedPause
<1>5. ASSUME NEW c \in 0..Rounds
      PROVE  /\ pc'[Job(c)] # "idle" => pc[Job(c)] # "idle"
             /\ pc'[Job(c)] = "reload" => pc[Job(c)] = "reload"
             /\ pc'[Job(c)] = "arm" =>
                    pc[Job(c)] = "arm" /\ seen'[Job(c)] = seen[Job(c)]
             /\ pc'[Job(c)] \in AfterArm =>
                    pc[Job(c)] \in AfterArm \/ WatchedPause(c + 1)'
             /\ pc'[Job(c)] \in Completing =>
                    pc[Job(c)] \in Completing \/ NoPause(c + 1)
  <2>1. CASE p = Job(c)
    BY <1>3, <1>4, <2>1
  <2>2. CASE p # Job(c)
    BY <1>2, <2>2
  <2> QED
    BY <2>1, <2>2
<1>6. ASSUME NEW t \in Tool, pc'[<<"result", t>>] # "idle"
      PROVE  pc[<<"result", t>>] # "idle"
  <2>1. <<"result", t>> \in Callbacks /\ <<"result", t>> \in Proc
    OBVIOUS
  <2>2. CASE p = <<"result", t>>
    BY <2>1, <2>2
  <2>3. CASE p # <<"result", t>>
    BY <1>2, <1>6, <2>1, <2>3
  <2> QED
    BY <2>2, <2>3
<1>7. ASSUME NEW q \in Proc
      PROVE  /\ pc[q] # "idle" => pc'[q] # "idle"
             /\ pc'[q] \in {"take", "send"} =>
                    /\ seen'[q] = seen[q]
                    /\ pc[q] \in {"take", "send"} \/ HeardFrom(seen[q])
  BY <1>2, <1>3
<1>8. pc'[Client] = "stop_jobs" => pc[Client] = "stop_jobs" /\ seen'[Client] = seen[Client]
  BY <1>2, <1>3
<1> QED
  BY <1>5, <1>6, <1>7, <1>8 DEF WatchMoves

(* Revoking only stops tools, and stops the pending ones.                  *)
LEMMA RevokedStops ==
    ASSUME TypeInv, NEW c \in Nat, tool' = Revoked(Pending(c))
    PROVE  /\ \A t \in Tool : tool'[t] = "running" => tool[t] = "running"
           /\ \A t \in Tool : by[t] + 1 = c => tool'[t] # "running"
BY DEF Revoked, Pending, TypeInv, TypeOK

LEMMA JobStepWatched ==
    ASSUME TypeInv, Chain, Order, Watch, NEW p \in Jobs, JobStep(p)
    PROVE  WatchMoves
<1> USE JobIds, ProcKinds, RoundsAssumption DEF Stay, Leave, Load, store
<1> DEFINE c == p[2]
<1>a. c \in 0..Rounds /\ p = Job(c) /\ p \in Proc /\ p # Client /\ p \notin Callbacks
  OBVIOUS
<1>b. AfterArm = {"peek", "check", "take", "send", "done"} /\
      Completing = {"complete", "wipe", "close"}
  BY DEF AfterArm, Completing
<1>c. pc[p] \in Before => NoPause(c + 1)
  <2>0. SUFFICES ASSUME pc[p] \in Before, NEW t \in Tool, by[t] + 1 = c + 1 PROVE FALSE
    BY DEF NoPause
  <2>1. by[t] = c /\ by[t] # NoJob
    <3>1. \A a, b, r \in Nat : a + 1 = b + 1 /\ b <= r => a = b /\ a # r + 1
      OBVIOUS
    <3>2. by[t] \in Nat /\ c \in Nat /\ c <= Rounds
      BY <1>a DEF NoJob, TypeInv, TypeOK
    <3> QED
      BY ONLY <2>0, <3>1, <3>2, RoundsAssumption DEF NoJob
  <2> QED
    BY <1>a, <2>0, <2>1 DEF Order, DispatchersBegan
<1>d. Pending(c + 1) = {} => NoPause(c + 1)
  BY DEF Pending, NoPause
<1>1. CASE MatchCheckpoint(p)
  BY <1>1, <1>a, <1>b, <1>c, MoveIsWatched DEF MatchCheckpoint, Before
<1>2. CASE Claim(p)
  BY <1>2, <1>a, <1>b, <1>c, MoveIsWatched DEF Claim, ClaimAction, Before
<1>3. CASE ReadResults(p)
  BY <1>3, <1>a, <1>b, MoveIsWatched DEF ReadResults
<1>4. CASE EngineReturns(p)
  BY <1>4, <1>a, <1>b, <1>d, MoveIsWatched DEF EngineReturns
<1>5. CASE Save(p)
  <2>1. CASE UNCHANGED store /\ Goto(p, "refused")
    BY <1>5, <1>a, <1>b, <2>1, MoveIsWatched DEF Save
  <2>2. CASE SaveAccepted /\ SaveCheckpoint(c + 1) /\ Goto(p, "reload")
    <3>1. /\ pc' = [pc EXCEPT ![p] = "reload"] /\ pc \in [Proc -> Label]
          /\ ctx' = c + 1 /\ UNCHANGED <<results, seen, by, tool, timer, aborts>>
      BY <1>5, <2>2 DEF Save, SaveCheckpoint, Goto, TypeInv, TypeOK
    <3>2. \A q \in Proc : q # p => pc'[q] = pc[q]
      BY <3>1
    <3>3. pc'[p] = "reload" /\ pc[p] = "save"
      BY <1>5, <3>1 DEF Save
    <3>4. ASSUME NEW d \in 0..Rounds, pc'[Job(d)] = "reload" PROVE d + 1 <= ctx'
      <4>1. pc[Job(d)] # "idle"
        BY <3>2, <3>3, <3>4
      <4>2. d <= ctx /\ ctx <= c
        BY <1>a, <2>2, <3>3, <4>1 DEF Order, Latest, SaveAccepted
      <4> QED
        BY <1>a, <3>1, <4>2 DEF TypeInv, TypeOK
    <3>5. ASSUME NEW d \in 0..Rounds, pc'[Job(d)] # "reload" PROVE pc'[Job(d)] = pc[Job(d)]
      BY <3>2, <3>3, <3>5
    <3>6. pc'[Client] = pc[Client]
      BY <1>a, <3>2
    <3>7. \A t \in Tool : pc'[<<"result", t>>] = pc[<<"result", t>>]
      BY <1>a, <3>2
    <3>8. ASSUME NEW q \in Proc
          PROVE  /\ pc[q] # "idle" => pc'[q] # "idle"
                 /\ pc'[q] \in {"take", "send"} => pc[q] \in {"take", "send"}
      BY <3>2, <3>3
    <3>9. ASSUME NEW d \in 0..Rounds, pc'[Job(d)] # "idle" PROVE pc[Job(d)] # "idle"
      BY <3>2, <3>3, <3>9
    <3> QED
      BY <1>b, <3>1, <3>4, <3>5, <3>6, <3>7, <3>8, <3>9 DEF WatchMoves
  <2> QED
    BY <1>5, <2>1, <2>2 DEF Save
<1>6. CASE RevokeRefused(p)
  <2>1. /\ pc' = [pc EXCEPT ![p] = "done"] /\ pc \in [Proc -> Label]
        /\ pc[p] = "refused" /\ seen' = [seen EXCEPT ![p] = 0]
        /\ tool' = Revoked(Pending(c + 1))
        /\ seen \in [Proc -> 0..Rounds]
        /\ UNCHANGED <<ctx, results, by, timer, aborts>>
    BY <1>6 DEF RevokeRefused, Goto, TypeInv, TypeOK
  <2>2. /\ \A t \in Tool : tool'[t] = "running" => tool[t] = "running"
        /\ \A t \in Tool : by[t] + 1 = c + 1 => tool'[t] # "running"
    BY <1>a, <2>1, RevokedStops
  <2>3. WatchedPause(c + 1)'
    BY <2>1, <2>2 DEF WatchedPause, Watched
  <2>4. \A q \in Proc : q # p => pc'[q] = pc[q] /\ seen'[q] = seen[q]
    BY <2>1
  <2>5. pc'[p] = "done"
    BY <2>1
  <2> HIDE DEF c
  <2>6. ASSUME NEW d \in 0..Rounds
        PROVE  \/ pc'[Job(d)] = pc[Job(d)] /\ seen'[Job(d)] = seen[Job(d)]
               \/ d = c /\ pc'[Job(d)] = "done" /\ pc[Job(d)] = "refused"
    BY <1>a, <2>1, <2>4, <2>5
  <2>7. ASSUME NEW q \in Proc
        PROVE  /\ pc[q] # "idle" => pc'[q] # "idle"
               /\ pc'[q] \in {"take", "send"} =>
                      pc[q] \in {"take", "send"} /\ seen'[q] = seen[q]
    BY <2>4, <2>5
  <2>8. pc'[Client] = pc[Client] /\ seen'[Client] = seen[Client]
    BY <1>a, <2>4
  <2>9. \A t \in Tool : pc'[<<"result", t>>] = pc[<<"result", t>>]
    BY <1>a, <2>4
  <2> QED
    BY <1>b, <2>1, <2>2, <2>3, <2>6, <2>7, <2>8, <2>9 DEF WatchMoves
<1>7. CASE Reload(p)
  <2>1. CASE ctx = 0
    BY <1>7, <1>a, <1>b, <2>1, MoveIsWatched DEF Reload
  <2>2. CASE ctx # 0
    <3>1. /\ pc' = [pc EXCEPT ![p] = "arm"] /\ pc \in [Proc -> Label]
          /\ pc[p] = "reload" /\ seen' = [seen EXCEPT ![p] = ctx]
          /\ seen \in [Proc -> 0..Rounds]
          /\ UNCHANGED <<ctx, results, by, tool, timer, aborts>>
      BY <1>7, <2>2 DEF Reload, Goto, TypeInv, TypeOK
    <3>2. \A q \in Proc : q # p => pc'[q] = pc[q] /\ seen'[q] = seen[q]
      BY <3>1
    <3>3. pc'[p] = "arm" /\ seen'[p] = ctx
      BY <3>1
    <3> HIDE DEF c
    <3>4. ASSUME NEW d \in 0..Rounds
          PROVE  \/ pc'[Job(d)] = pc[Job(d)] /\ seen'[Job(d)] = seen[Job(d)]
                 \/ /\ pc'[Job(d)] = "arm" /\ pc[Job(d)] = "reload"
                    /\ seen'[Job(d)] = ctx /\ ctx # 0
      BY <1>a, <2>2, <3>1, <3>2, <3>3
    <3>5. ASSUME NEW q \in Proc
          PROVE  /\ pc[q] # "idle" => pc'[q] # "idle"
                 /\ pc'[q] \in {"take", "send"} =>
                        pc[q] \in {"take", "send"} /\ seen'[q] = seen[q]
      BY <3>2, <3>3
    <3>6. pc'[Client] = pc[Client] /\ seen'[Client] = seen[Client]
      BY <1>a, <3>2
    <3>7. \A t \in Tool : pc'[<<"result", t>>] = pc[<<"result", t>>]
      BY <1>a, <3>2
    <3> QED
      BY <1>b, <3>1, <3>4, <3>5, <3>6, <3>7 DEF WatchMoves
  <2> QED
    BY <2>1, <2>2
<1>9. CASE Complete(p)
  BY <1>9, <1>a, <1>b, MoveIsWatched DEF Complete, MarkTerminal
<1>8. CASE ArmTimers(p)
  <2>1. PICK armed \in SUBSET Pending(seen[p]) :
            /\ \/ armed = Pending(seen[p]) /\ Goto(p, "peek")
               \/ Goto(p, "fail")
            /\ timer' = [t \in Tool |-> IF t \in armed /\ timer[t] = "none"
                                        THEN "set" ELSE timer[t]]
    BY <1>8 DEF ArmTimers
  <2>2. /\ pc' \in {[pc EXCEPT ![p] = "peek"], [pc EXCEPT ![p] = "fail"]}
        /\ pc \in [Proc -> Label] /\ pc[p] = "arm" /\ timer \in [Tool -> {"none", "set", "over"}]
        /\ UNCHANGED <<ctx, results, seen, by, tool, aborts>>
    BY <1>8, <2>1 DEF ArmTimers, Goto, TypeInv, TypeOK
  <2>3. \A q \in Proc : q # p => pc'[q] = pc[q]
    BY <2>2
  <2>4. pc'[p] \in {"peek", "fail"}
    BY <2>2
  <2>5. \A t \in Tool : /\ timer[t] # "none" => timer'[t] # "none"
                        /\ timer'[t] = "over" => timer[t] = "over"
    BY <2>1, <2>2
  <2>6. pc'[p] = "peek" => WatchedPause(c + 1)'
    <3> SUFFICES ASSUME pc'[p] = "peek", NEW t \in Tool, by[t] + 1 = c + 1,
                        tool[t] = "running"
                 PROVE  timer'[t] # "none" \/ pc'[<<"timeout", t>>] # "idle"
      BY <2>2 DEF WatchedPause, Watched
    <3>1. armed = Pending(seen[p])
      BY <2>1, <2>2 DEF Goto
    <3>2. CASE seen[p] = c + 1
      BY <2>1, <3>1, <3>2 DEF Pending
    <3>3. CASE HeardFrom(c + 1)
      <4>1. pc[<<"timeout", t>>] # "idle"
        BY <3>3 DEF HeardFrom, CalledBack, Watch, ResultsStopped
      <4>2. <<"timeout", t>> \in Proc /\ <<"timeout", t>> # p
        BY <1>a
      <4> QED
        BY <2>3, <4>1, <4>2
    <3> QED
      BY <1>a, <2>2, <3>2, <3>3 DEF Watch, ArmersLoaded
  <2> HIDE DEF c
  <2>7. ASSUME NEW d \in 0..Rounds
        PROVE  \/ pc'[Job(d)] = pc[Job(d)]
               \/ d = c /\ pc'[Job(d)] \in {"peek", "fail"} /\ pc[Job(d)] = "arm"
    BY <1>a, <2>2, <2>3, <2>4
  <2>8. \A d \in 0..Rounds :
            pc'[Job(d)] \in AfterArm => pc[Job(d)] \in AfterArm \/ WatchedPause(d + 1)'
    BY <1>a, <1>b, <2>6, <2>7
  <2>9. ASSUME NEW q \in Proc
        PROVE  /\ pc[q] # "idle" => pc'[q] # "idle"
               /\ pc'[q] \in {"take", "send"} => pc[q] \in {"take", "send"}
    BY <2>3, <2>4
  <2>10. pc'[Client] = pc[Client] /\ \A t \in Tool : pc'[<<"result", t>>] = pc[<<"result", t>>]
    BY <1>a, <2>3
  <2> QED
    BY <1>b, <2>2, <2>5, <2>7, <2>8, <2>9, <2>10 DEF WatchMoves
<1> QED
  BY <1>1, <1>2, <1>3, <1>4, <1>5, <1>6, <1>7, <1>8, <1>9 DEF JobStep

LEMMA ReadyStepWatched ==
    ASSUME TypeInv, Chain, Order, Ends, Watch, NEW p \in Proc, ReadyStep(p) \/ SendRaises(p)
    PROVE  WatchMoves
<1> USE JobIds, ProcKinds, RoundsAssumption DEF Stay, Leave, Load, store
<1>a. pc[p] \in {"peek", "check", "take", "send", "give_back"} => p # Client
  BY DEF Ends, ClientPath
<1>b. AfterArm = {"peek", "check", "take", "send", "done"} /\
      Completing = {"complete", "wipe", "close"}
  BY DEF AfterArm, Completing
<1>1. CASE Peek(p)
  BY <1>1, <1>a, <1>b, MoveIsWatched DEF Peek
<1>2. CASE Check(p)
  <2>1. CASE Answered(seen[p]) /\ Goto(p, "take") /\ UNCHANGED <<seen, by, tool, timer, aborts>>
    <3>1. HeardFrom(seen[p])
      BY <2>1 DEF Answered, Pending, HeardFrom, Watch, ResultsCalledBack
    <3> QED
      BY <1>2, <1>a, <1>b, <2>1, <3>1, MoveIsWatched DEF Check
  <2>2. CASE Leave(p, "done")
    BY <1>2, <1>a, <1>b, <2>2, MoveIsWatched DEF Check
  <2> QED
    BY <1>2, <2>1, <2>2 DEF Check
<1>3. CASE Take(p)
  BY <1>3, <1>a, <1>b, MoveIsWatched DEF Take, ClaimResume
<1>4. CASE Send(p)
  <2> DEFINE n == seen[p]
  <2>1. /\ pc[p] = "send" /\ pc' = [Enqueue(Job(n)) EXCEPT ![p] = "done"]
        /\ pc \in [Proc -> Label] /\ n \in 0..Rounds /\ HeardFrom(n)
        /\ seen' = [seen EXCEPT ![p] = 0] /\ seen \in [Proc -> 0..Rounds]
        /\ UNCHANGED <<ctx, results, by, tool, timer, aborts>>
    BY <1>4 DEF Send, TypeInv, TypeOK, Watch, SendersHeard
  <2> HIDE DEF n
  <2>2. \A q \in Proc : \/ pc'[q] = pc[q] /\ seen'[q] = seen[q]
                        \/ q = p /\ pc'[q] = "done"
                        \/ /\ q = Job(n) /\ pc[q] = "idle" /\ pc'[q] = "queued"
                           /\ seen'[q] = seen[q]
    BY <2>1 DEF Enqueue
  <2>3. p # Client /\ Job(n) # Client /\ Job(n) \notin Callbacks
    BY <1>a, <2>1
  <2>4. ASSUME NEW d \in 0..Rounds
        PROVE  \/ pc'[Job(d)] = pc[Job(d)] /\ seen'[Job(d)] = seen[Job(d)]
               \/ pc'[Job(d)] = "done" /\ pc[Job(d)] = "send"
               \/ d = n /\ pc'[Job(d)] = "queued" /\ pc[Job(d)] = "idle"
    BY <2>1, <2>2
  <2>5. ASSUME NEW t \in Tool, pc'[<<"result", t>>] # "idle" PROVE pc[<<"result", t>>] # "idle"
    <3>1. <<"result", t>> \in Proc /\ <<"result", t>> # Job(n)
      BY <2>3
    <3> QED
      BY <2>1, <2>2, <2>5, <3>1
  <2>6. ASSUME NEW q \in Proc
        PROVE  /\ pc[q] # "idle" => pc'[q] # "idle"
               /\ pc'[q] \in {"take", "send"} =>
                      pc[q] \in {"take", "send"} /\ seen'[q] = seen[q]
    BY <2>2
  <2>7. pc'[Client] = pc[Client] \/ pc'[Client] # "stop_jobs"
    BY <2>2
  <2>8. seen'[Client] = seen[Client]
    BY <2>1, <2>3
  <2> QED
    BY <1>b, <2>1, <2>4, <2>5, <2>6, <2>7, <2>8 DEF WatchMoves
<1>5. CASE GiveBack(p)
  BY <1>5, <1>a, <1>b, MoveIsWatched DEF GiveBack, ReleaseResume
<1>6. CASE SendRaises(p)
  BY <1>6, <1>a, <1>b, MoveIsWatched DEF SendRaises
<1> QED
  BY <1>1, <1>2, <1>3, <1>4, <1>5, <1>6 DEF ReadyStep

LEMMA EndStepWatched ==
    ASSUME TypeInv, Chain, Watch, NEW p \in Proc, EndStep(p)
    PROVE  WatchMoves
<1> USE JobIds, ProcKinds, RoundsAssumption DEF Stay, Leave, Load, store
<1>b. AfterArm = {"peek", "check", "take", "send", "done"} /\
      Completing = {"complete", "wipe", "close"}
  BY DEF AfterArm, Completing
<1>1. CASE Wipe(p)
  <2>1. ctx' = 0 /\ \A t \in Tool : results'[t] = "none"
    BY <1>1 DEF Wipe, Cleanup
  <2> QED
    BY <1>1, <1>b, <2>1, MoveIsWatched DEF Wipe
<1>2. CASE Close(p)
  <2>1. p \in Jobs /\ pc[p] = "close" => NoPause(p[2] + 1)
    BY <1>b DEF Watch, CompletersAlone
  <2> QED
    BY <1>2, <1>b, <2>1, MoveIsWatched DEF Close
<1>3. CASE MarkFailed(p)
  BY <1>3, <1>b, MoveIsWatched DEF MarkFailed, MarkTerminal
<1>4. CASE PublishError(p)
  BY <1>4, <1>b, MoveIsWatched DEF PublishError
<1>c. AfterRevoke(Client) = "stop_jobs" /\
      (p # Client => AfterRevoke(p) \in {"fail", "aborted"})
  BY DEF AfterRevoke, Client, Rescues
<1>d. /\ Client \notin Callbacks
      /\ \A d \in 0..Rounds : Job(d) # Client
      /\ \A t \in Tool : <<"result", t>> # Client /\ <<"timeout", t>> # Client
  BY DEF Client, Callbacks
<1>5. CASE Unwind(p)
  <2>1. CASE p # Client \/ ctx # 0
    BY <1>5, <1>b, <1>c, <2>1, MoveIsWatched DEF Unwind
  <2>2. CASE p = Client /\ ctx = 0
    <3>1. /\ pc' = [pc EXCEPT ![Client] = "stop_jobs"] /\ pc \in [Proc -> Label]
          /\ pc[Client] = "unwind"
          /\ seen' = [seen EXCEPT ![Client] = 0] /\ seen \in [Proc -> 0..Rounds]
          /\ UNCHANGED <<ctx, results, by, tool, timer, aborts>>
      BY <1>5, <1>c, <2>2 DEF Unwind, Goto, TypeInv, TypeOK
    <3>2. \A q \in Proc : q # Client => pc'[q] = pc[q] /\ seen'[q] = seen[q]
      BY <3>1
    <3>3. pc'[Client] = "stop_jobs" /\ seen'[Client] = 0
      BY <3>1
    <3>4. \A t \in Tool : by[t] + 1 # 0
      BY DEF TypeInv, TypeOK, NoJob
    <3>5. ASSUME NEW d \in 0..Rounds
          PROVE  pc'[Job(d)] = pc[Job(d)] /\ seen'[Job(d)] = seen[Job(d)]
      BY <1>d, <3>2
    <3>6. \A t \in Tool : pc'[<<"result", t>>] = pc[<<"result", t>>]
      BY <1>d, <3>2
    <3>7. ASSUME NEW q \in Proc
          PROVE  /\ pc[q] # "idle" => pc'[q] # "idle"
                 /\ pc'[q] \in {"take", "send"} =>
                        pc[q] \in {"take", "send"} /\ seen'[q] = seen[q]
      BY <3>2, <3>3
    <3> QED
      BY <1>b, <3>1, <3>3, <3>4, <3>5, <3>6, <3>7 DEF WatchMoves
  <2> QED
    BY <2>1, <2>2
<1>6. CASE Revoke(p)
  <2>0. /\ seen[p] \in Nat /\ tool' = Revoked(Pending(seen[p]))
        /\ UNCHANGED <<ctx, results, seen, by, timer, aborts>>
    BY <1>6 DEF Revoke, TypeInv, TypeOK
  <2>1. /\ \A t \in Tool : tool'[t] = "running" => tool[t] = "running"
        /\ \A t \in Tool : by[t] + 1 = seen[p] => tool'[t] # "running"
    BY <2>0, RevokedStops
  <2>2. CASE p # Client
    BY <1>6, <1>b, <1>c, <2>0, <2>1, <2>2, MoveIsWatched DEF Revoke
  <2>3. CASE p = Client
    <3>1. /\ pc' = [pc EXCEPT ![Client] = "stop_jobs"] /\ pc \in [Proc -> Label]
          /\ pc[Client] = "revoke"
      BY <1>6, <1>c, <2>3 DEF Revoke, Goto, TypeInv, TypeOK
    <3>2. \A q \in Proc : q # Client => pc'[q] = pc[q]
      BY <3>1
    <3>3. pc'[Client] = "stop_jobs"
      BY <3>1
    <3>5. \A d \in 0..Rounds : pc'[Job(d)] = pc[Job(d)]
      BY <1>d, <3>2
    <3>6. \A t \in Tool : pc'[<<"result", t>>] = pc[<<"result", t>>]
      BY <1>d, <3>2
    <3>7. ASSUME NEW q \in Proc
          PROVE  /\ pc[q] # "idle" => pc'[q] # "idle"
                 /\ pc'[q] \in {"take", "send"} => pc[q] \in {"take", "send"}
      BY <3>2, <3>3
    <3> QED
      BY <1>b, <2>0, <2>1, <2>3, <3>5, <3>6, <3>7 DEF WatchMoves
  <2> QED
    BY <2>2, <2>3
<1> QED
  BY <1>1, <1>2, <1>3, <1>4, <1>5, <1>6 DEF EndStep

LEMMA CallbackStepWatched ==
    ASSUME TypeInv, Chain, Watch, NEW p \in Callbacks, CallbackStep(p)
    PROVE  WatchMoves
<1> USE JobIds, ProcKinds, RoundsAssumption DEF Stay, Leave, Load, store
<1>a. p # Client /\ p \notin Jobs /\ p \in Proc
  BY DEF Client, Callbacks
<1>b. p[2] \in Tool /\ (p = <<"result", p[2]>> \/ p = <<"timeout", p[2]>>)
  BY DEF Callbacks
<1>1. CASE Lookup(p)
  BY <1>1, <1>a, MoveIsWatched DEF Lookup
<1>2. CASE Record(p)
  <2>1. /\ pc' = [pc EXCEPT ![p] = "disarm"] /\ pc \in [Proc -> Label] /\ pc[p] = "record"
        /\ \A t \in Tool : t # p[2] => results'[t] = results[t]
        /\ UNCHANGED <<ctx, seen, by, tool, timer, aborts>>
    BY <1>2 DEF Record, RecordResult, Goto, TypeInv, TypeOK
  <2>2. CalledBack(p[2])
    BY <1>b, <2>1 DEF CalledBack
  <2>3. \A q \in Proc : q # p => pc'[q] = pc[q]
    BY <2>1
  <2>4. pc'[p] = "disarm"
    BY <2>1
  <2>5. \A d \in 0..Rounds : pc'[Job(d)] = pc[Job(d)]
    BY <1>a, <2>3
  <2>6. pc'[Client] = pc[Client]
    BY <1>a, <2>3
  <2>7. \A t \in Tool : pc'[<<"result", t>>] # "idle" => pc[<<"result", t>>] # "idle"
    BY <2>1, <2>3
  <2>8. ASSUME NEW q \in Proc
        PROVE  /\ pc[q] # "idle" => pc'[q] # "idle"
               /\ pc'[q] \in {"take", "send"} => pc[q] \in {"take", "send"}
    BY <2>3, <2>4
  <2> QED
    BY <2>1, <2>2, <2>5, <2>6, <2>7, <2>8 DEF WatchMoves
<1>3. CASE Disarm(p)
  <2>1. /\ pc' = [pc EXCEPT ![p] = "peek"] /\ pc \in [Proc -> Label] /\ pc[p] = "disarm"
        /\ UNCHANGED <<ctx, results, seen, by, tool, timer>>
    BY <1>3 DEF Disarm, Goto, TypeInv, TypeOK
  <2>2. ASSUME NEW t \in Tool, Timer(t) \in aborts'
        PROVE  \/ Timer(t) \in aborts
               \/ /\ by[t] # NoJob
                  /\ tool[t] # "running" \/ pc[<<"timeout", t>>] # "idle"
    <3>1. CASE Timer(t) \notin aborts
      <4>1. t = p[2] /\ t \in Pending(seen[p])
        BY <1>3, <2>2, <3>1 DEF Disarm, Timer
      <4>2. by[t] # NoJob
        <5>1. seen[p] \in 0..Rounds /\ by[t] + 1 = seen[p]
          BY <1>a, <4>1 DEF Pending, TypeInv, TypeOK
        <5> QED
          BY ONLY <5>1, RoundsAssumption DEF NoJob
      <4>3. tool[t] # "running" \/ pc[<<"timeout", t>>] # "idle"
        BY <1>b, <2>1, <4>1 DEF Watch, ResultsStopped
      <4> QED
        BY <4>2, <4>3
    <3> QED
      BY <3>1
  <2>3. \A q \in Proc : q # p => pc'[q] = pc[q]
    BY <2>1
  <2>4. pc'[p] = "peek"
    BY <2>1
  <2>5. \A d \in 0..Rounds : pc'[Job(d)] = pc[Job(d)]
    BY <1>a, <2>3
  <2>6. pc'[Client] = pc[Client]
    BY <1>a, <2>3
  <2>7. \A t \in Tool : pc'[<<"result", t>>] # "idle" => pc[<<"result", t>>] # "idle"
    BY <2>1, <2>3
  <2>8. ASSUME NEW q \in Proc
        PROVE  /\ pc[q] # "idle" => pc'[q] # "idle"
               /\ pc'[q] \in {"take", "send"} => pc[q] \in {"take", "send"}
    BY <2>3, <2>4
  <2> QED
    BY <2>1, <2>2, <2>5, <2>6, <2>7, <2>8 DEF WatchMoves
<1> QED
  BY <1>1, <1>2, <1>3 DEF CallbackStep

LEMMA ClientStepWatched ==
    ASSUME TypeInv, Chain, Watch, Submit \/ RequestCancel \/ CancelStep
    PROVE  WatchMoves
<1> USE JobIds, ProcKinds, RoundsAssumption DEF Stay, store
<1>a. Client \notin Callbacks
  BY DEF Client, Callbacks
<1>1. CASE Submit
  <2>1. /\ \A q \in Proc : \/ pc'[q] = pc[q]
                           \/ q = Job(0) /\ pc[q] = "idle" /\ pc'[q] = "queued"
        /\ UNCHANGED <<ctx, results, seen, by, tool, timer, aborts>>
    BY <1>1 DEF Submit, Enqueue, TypeInv, TypeOK
  <2>2. Job(0) # Client
    OBVIOUS
  <2>3. ASSUME NEW t \in Tool PROVE pc'[<<"result", t>>] = pc[<<"result", t>>]
    <3>1. <<"result", t>> \in Proc /\ <<"result", t>> # Job(0)
      BY DEF Job
    <3> QED
      BY <2>1, <3>1
  <2>4. ASSUME NEW d \in 0..Rounds
        PROVE  pc'[Job(d)] = pc[Job(d)] \/ (d = 0 /\ pc'[Job(d)] = "queued")
    BY <2>1
  <2>5. pc'[Client] = pc[Client]
    BY <2>1, <2>2
  <2> QED
    BY <2>1, <2>3, <2>4, <2>5 DEF WatchMoves, AfterArm, Completing
<1>2. CASE RequestCancel
  BY <1>2, <1>a, MoveIsWatched DEF RequestCancel
<1>3. CASE MarkCancelled
  BY <1>3, <1>a, MoveIsWatched DEF MarkCancelled, MarkTerminal
<1>4. CASE StopJobs
  <2>1. /\ pc' = [pc EXCEPT ![Client] = "wipe"] /\ pc \in [Proc -> Label]
        /\ pc[Client] = "stop_jobs"
        /\ UNCHANGED <<ctx, results, seen, by, tool, timer>>
    BY <1>4 DEF StopJobs, Goto, TypeInv, TypeOK
  <2>2. ASSUME NEW t \in Tool, Timer(t) \in aborts', Timer(t) \notin aborts
        PROVE  by[t] # NoJob /\ tool[t] # "running"
    <3>1. \A d : Timer(t) # Job(d)
      BY DEF Timer, Job
    <3>2. t \in Pending(seen[Client])
      BY <1>4, <2>2, <3>1 DEF StopJobs, Timer
    <3>3. by[t] + 1 = seen[Client] /\ seen[Client] \in 0..Rounds
      BY <3>2 DEF Pending, TypeInv, TypeOK
    <3>4. by[t] # NoJob
      BY ONLY <3>3, RoundsAssumption DEF NoJob
    <3> QED
      BY <2>1, <3>3, <3>4 DEF Watch, ClientRevoked
  <2>3. \A q \in Proc : q # Client => pc'[q] = pc[q]
    BY <2>1
  <2>4. pc'[Client] = "wipe"
    BY <2>1
  <2>5. \A d \in 0..Rounds : pc'[Job(d)] = pc[Job(d)]
    BY <2>3
  <2>6. \A t \in Tool : pc'[<<"result", t>>] = pc[<<"result", t>>]
    BY <1>a, <2>3
  <2>7. ASSUME NEW q \in Proc
        PROVE  /\ pc[q] # "idle" => pc'[q] # "idle"
               /\ pc'[q] \in {"take", "send"} => pc[q] \in {"take", "send"}
    BY <2>3, <2>4
  <2> QED
    BY <2>1, <2>2, <2>4, <2>5, <2>6, <2>7 DEF WatchMoves
<1> QED
  BY <1>1, <1>2, <1>3, <1>4 DEF CancelStep

LEMMA DisturbanceWatched ==
    ASSUME TypeInv, NEW p \in Proc, NEW j \in 0..Rounds,
           \/ p \in Jobs /\ EngineRaises(p)
           \/ p \in Jobs \cup Callbacks /\ (AbortJob(p) \/ Crash(p))
           \/ RecoverJob(j)
    PROVE  WatchMoves
<1> USE JobIds, ProcKinds, RoundsAssumption DEF Stay, Leave, store, AfterArm, Completing
<1>1. CASE p \in Jobs /\ EngineRaises(p)
  BY <1>1, MoveIsWatched DEF EngineRaises
<1>2. CASE p \in Jobs \cup Callbacks /\ AbortJob(p)
  BY <1>2, MoveIsWatched DEF AbortJob, Rest
<1>3. CASE p \in Jobs \cup Callbacks /\ Crash(p)
  BY <1>3, MoveIsWatched DEF Crash, Rest
<1>4. CASE RecoverJob(j)
  <2>1. Rescue(j) \notin Callbacks
    BY DEF Rescue, Callbacks
  <2> QED
    BY <1>4, <2>1, MoveIsWatched DEF RecoverJob
<1> QED
  BY <1>1, <1>2, <1>3, <1>4

(* A tool that answers has stopped; a timeout is over only when its        *)
(* callback, or the tool's own, is in the queue.                           *)
LEMMA ToolStepWatched ==
    ASSUME TypeInv, Watch, NEW t \in Tool, ToolAnswers(t) \/ TimerStep(t)
    PROVE  WatchMoves
<1> USE JobIds, ProcKinds, RoundsAssumption DEF store
<1>1. /\ UNCHANGED <<ctx, results, seen, by, aborts>>
      /\ pc \in [Proc -> Label] /\ tool \in [Tool -> {"unused", "running", "finished", "revoked"}]
      /\ timer \in [Tool -> {"none", "set", "over"}]
  BY DEF ToolAnswers, TimerStep, TimerFires, TimerAborted, TypeInv, TypeOK
<1>2. \A q \in Proc : \/ pc'[q] = pc[q]
                      \/ /\ q \in Callbacks /\ pc[q] = "idle" /\ pc'[q] = "queued"
                         /\ q[2] = t
  BY <1>1 DEF ToolAnswers, TimerStep, TimerFires, TimerAborted, Enqueue
<1>3. \A d \in 0..Rounds : pc'[Job(d)] = pc[Job(d)]
  BY <1>2
<1>4. pc'[Client] = pc[Client]
  <2>1. Client \notin Callbacks
    BY DEF Client, Callbacks
  <2> QED
    BY <1>2, <2>1
<1>5. ASSUME NEW q \in Proc
      PROVE  /\ pc[q] # "idle" => pc'[q] # "idle"
             /\ pc'[q] \in {"take", "send"} => pc[q] \in {"take", "send"}
  BY <1>2
<1>6. ASSUME NEW u \in Tool
      PROVE  /\ tool'[u] = "running" => tool[u] = "running"
             /\ timer[u] # "none" => timer'[u] # "none"
  BY <1>1 DEF ToolAnswers, TimerStep, TimerFires, TimerAborted, Revoked
<1>7. ASSUME NEW u \in Tool, pc'[<<"result", u>>] # "idle", pc[<<"result", u>>] = "idle"
      PROVE  tool'[u] # "running"
  <2>1. u = t
    BY <1>2, <1>7
  <2>2. CASE ToolAnswers(t)
    BY <1>1, <2>1, <2>2 DEF ToolAnswers
  <2>3. CASE TimerStep(t)
    BY <1>1, <1>7, <2>1, <2>3 DEF TimerStep, TimerFires, TimerAborted, Enqueue
  <2> QED
    BY <2>2, <2>3
<1>8. ASSUME NEW u \in Tool, timer'[u] = "over", timer[u] # "over"
      PROVE  tool'[u] # "running" \/ pc'[<<"timeout", u>>] # "idle"
  <2>1. u = t /\ TimerStep(t)
    BY <1>1, <1>8 DEF ToolAnswers, TimerStep, TimerFires, TimerAborted
  <2>2. CASE TimerFires(t) /\ pc[<<"result", t>>] = "idle"
    BY <1>1, <2>1, <2>2 DEF TimerFires, Enqueue
  <2>3. CASE TimerFires(t) /\ pc[<<"result", t>>] # "idle"
    BY <2>1, <2>3 DEF TimerFires, Watch, ResultsStopped
  <2>4. CASE TimerAborted(t)
    BY <2>1, <2>4 DEF TimerAborted, Watch, AbortedTimers
  <2> QED
    BY <2>1, <2>2, <2>3, <2>4 DEF TimerStep
<1> QED
  BY <1>1, <1>3, <1>4, <1>5, <1>6, <1>7, <1>8 DEF WatchMoves, AfterArm, Completing

(* A dispatched tool joins the pause to come: nobody has loaded it, saved  *)
(* it or seen to its tools yet.                                            *)
LEMMA DispatchWatched ==
    ASSUME TypeInv, Chain, Order, Watch, NEW p \in Jobs, NEW t \in Tool, DispatchTool(p, t)
    PROVE  Watch'
<1> USE JobIds, ProcKinds, RoundsAssumption DEF TypeInv, TypeOK
<1>1. /\ pc[p] = "engine" /\ p = Job(p[2]) /\ p[2] \in 0..Rounds /\ by[t] = NoJob
      /\ by' = [by EXCEPT ![t] = p[2]] /\ \A u \in Tool : u # t => tool'[u] = tool[u]
      /\ UNCHANGED <<ctx, results, pc, seen, timer, aborts>>
  BY DEF DispatchTool, store
<1>2. ~PastEngine(p[2])
  BY <1>1 DEF PastEngine, BeforeEnd
<1>3. ASSUME NEW c \in 0..Rounds, Settled(c) PROVE p[2] + 1 # c
  BY <1>1, <1>2, <1>3 DEF Settled
<1>4. ASSUME NEW d \in 0..Rounds, PastEngine(d) PROVE p[2] # d
  BY <1>1, <1>2, <1>4
<1>5. pc[<<"result", t>>] = "idle" /\ pc[<<"timeout", t>>] = "idle" /\ timer[t] = "none"
  BY <1>1 DEF Order, Undispatched
<1>6. \A u \in Tool : u # t => by'[u] = by[u]
  BY <1>1
<1>7. by'[t] = p[2]
  BY <1>1
<1>8. \A u \in Tool : CalledBack(u)' <=> CalledBack(u)
  BY <1>1 DEF CalledBack
<1>9. ASSUME NEW c \in 0..Rounds, Settled(c), HeardFrom(c) PROVE HeardFrom(c)'
  BY <1>3, <1>6, <1>7, <1>8, <1>9 DEF HeardFrom
<1>10. ASSUME NEW c \in 0..Rounds, PastEngine(c)
       PROVE  /\ HeardFrom(c + 1) => HeardFrom(c + 1)'
              /\ WatchedPause(c + 1) => WatchedPause(c + 1)'
              /\ NoPause(c + 1) => NoPause(c + 1)'
  <2>1. by'[t] + 1 # c + 1
    <3>1. \A a, b \in Nat : a + 1 = b + 1 => a = b
      OBVIOUS
    <3>2. p[2] \in Nat /\ c \in Nat
      BY <1>1
    <3> QED
      BY ONLY <1>4, <1>7, <1>10, <3>1, <3>2
  <2>2. \A u \in Tool : u # t /\ Watched(u) => Watched(u)'
    BY <1>1 DEF Watched
  <2>3. HeardFrom(c + 1) => HeardFrom(c + 1)'
    BY <1>6, <1>8, <2>1 DEF HeardFrom
  <2>4. WatchedPause(c + 1) => WatchedPause(c + 1)'
    BY <1>6, <2>1, <2>2 DEF WatchedPause
  <2>5. NoPause(c + 1) => NoPause(c + 1)'
    BY <1>6, <2>1 DEF NoPause
  <2> QED
    BY <2>3, <2>4, <2>5
<1>11. ASSUME NEW c \in 0..Rounds, pc[Job(c)] \in {"arm"} \cup AfterArm \cup Completing
       PROVE  PastEngine(c)
  BY <1>11 DEF PastEngine, BeforeEnd, AfterArm, Completing
<1>12. ResultsStopped' /\ ResultsCalledBack' /\ FiredTimers'
  <2>1. ResultsStopped'
    BY <1>1, <1>5 DEF Watch, ResultsStopped
  <2>2. ResultsCalledBack'
    BY <1>1, <1>8 DEF Watch, ResultsCalledBack
  <2>3. FiredTimers'
    BY <1>1, <1>5 DEF Watch, FiredTimers
  <2> QED
    BY <2>1, <2>2, <2>3
<1>13. SendersHeard'
  <2> SUFFICES ASSUME NEW q \in Proc, pc[q] \in {"take", "send"}
               PROVE  HeardFrom(seen[q])'
    BY <1>1 DEF SendersHeard
  <2>1. seen[q] \in 0..Rounds /\ Settled(seen[q]) /\ HeardFrom(seen[q])
    BY DEF Chain, LoadedSettled, Watch, SendersHeard
  <2>2. \A u \in Tool : by[u] + 1 = seen[q] => CalledBack(u)
    BY <2>1 DEF HeardFrom
  <2>3. p[2] + 1 # seen[q] /\ seen'[q] = seen[q]
    BY <1>1, <1>3, <2>1
  <2> QED
    BY <1>6, <1>7, <1>8, <2>2, <2>3 DEF HeardFrom
<1>14. ResumersHeard'
  <2> SUFFICES ASSUME NEW c \in 1..Rounds, pc[Job(c)] # "idle"
               PROVE  HeardFrom(c)'
    BY <1>1 DEF ResumersHeard
  <2>1. c \in 0..Rounds /\ Settled(c) /\ HeardFrom(c)
    BY DEF Chain, JobsInOrder, Watch, ResumersHeard
  <2> QED
    BY <1>9, <2>1
<1>15. SaversStored'
  BY <1>1 DEF Watch, SaversStored
<1>16. ArmersLoaded'
  BY <1>1, <1>10, <1>11 DEF Watch, ArmersLoaded
<1>17. ArmedWatched'
  BY <1>1, <1>10, <1>11 DEF Watch, ArmedWatched, AfterArm
<1>18. CompletersAlone'
  BY <1>1, <1>10, <1>11 DEF Watch, CompletersAlone, Completing
<1>19. AbortedTimers'
  <2> SUFFICES ASSUME NEW u \in Tool, Timer(u) \in aborts
               PROVE  /\ by'[u] # NoJob
                      /\ tool'[u] = "running" => pc[<<"timeout", u>>] # "idle"
    BY <1>1 DEF AbortedTimers, NoJob
  <2>1. u # t
    BY <1>1 DEF Watch, AbortedTimers
  <2> QED
    BY <1>1, <1>6, <2>1 DEF Watch, AbortedTimers
<1>20. ClientRevoked'
  <2> SUFFICES ASSUME pc[Client] = "stop_jobs", NEW u \in Tool, by'[u] + 1 = seen[Client]
               PROVE  tool'[u] # "running"
    BY <1>1 DEF ClientRevoked
  <2>1. seen[Client] \in 0..Rounds /\ Settled(seen[Client])
    BY DEF Chain, LoadedSettled
  <2>2. u # t
    BY <1>3, <1>7, <2>1
  <2> QED
    BY <1>1, <1>6, <2>2 DEF Watch, ClientRevoked
<1> QED
  BY <1>12, <1>13, <1>14, <1>15, <1>16, <1>17, <1>18, <1>19, <1>20 DEF Watch

LEMMA NextWatch ==
    TypeInv /\ Chain /\ Order /\ Ends /\ Watch /\ [Next]_vars => Watch'
<1> SUFFICES ASSUME TypeInv, Chain, Order, Ends, Watch, [Next]_vars PROVE Watch'
  OBVIOUS
<1> USE JobIds, ProcKinds, RoundsAssumption
<1>1. CASE UNCHANGED vars
  <2>1. WatchMoves
    BY <1>1 DEF vars, WatchMoves
  <2> QED
    BY <2>1, MovesKeepWatch
<1>2. CASE Submit \/ RequestCancel \/ CancelStep
  BY <1>2, ClientStepWatched, MovesKeepWatch
<1>3. ASSUME NEW p \in Proc, ProcStep(p) \/ SendRaises(p) PROVE Watch'
  BY <1>3, JobStepWatched, CallbackStepWatched, ReadyStepWatched, EndStepWatched,
     MovesKeepWatch DEF ProcStep
<1>4. ASSUME NEW p \in Jobs, EngineRaises(p) PROVE Watch'
  BY <1>4, DisturbanceWatched, MovesKeepWatch
<1>5. ASSUME NEW p \in Jobs, NEW t \in Tool, DispatchTool(p, t) PROVE Watch'
  BY <1>5, DispatchWatched
<1>6. ASSUME NEW p \in Jobs \cup Callbacks, AbortJob(p) \/ Crash(p) PROVE Watch'
  BY <1>6, DisturbanceWatched, MovesKeepWatch
<1>7. ASSUME NEW j \in 0..Rounds, RecoverJob(j) PROVE Watch'
  BY <1>7, DisturbanceWatched, MovesKeepWatch
<1>8. ASSUME NEW t \in Tool, ToolAnswers(t) \/ TimerStep(t) PROVE Watch'
  BY <1>8, ToolStepWatched, MovesKeepWatch
<1> QED
  BY <1>1, <1>2, <1>3, <1>4, <1>5, <1>6, <1>7, <1>8 DEF Next

-----------------------------------------------------------------------------
(* A tool whose checkpoint was accepted and whose timeout was never armed  *)
(* is exposed: only the checkpoint knows of it.  As long as nobody but the *)
(* client ends the turn that checkpoint stays where cancel() will find it, *)
(* and cancel() revokes what it has found.                                 *)

BeforeSave == {"idle", "queued", "claim", "read", "engine", "save"}
BeforeLoad == {"idle", "mark", "unwind"}

Exposed(t) ==
    /\ by[t] \in saved /\ tool[t] = "running"
    /\ timer[t] = "none" /\ pc[<<"timeout", t>>] = "idle"
InSight(t) ==
    IF pc[Client] \in BeforeLoad THEN ctx = by[t] + 1
    ELSE pc[Client] = "revoke" /\ seen[Client] = by[t] + 1

SavedPast == \A c \in saved : pc[Job(c)] \notin BeforeSave
CancelledByClient == terminal = "cancelled" => pc[Client] \notin {"idle", "mark"}
ClientMarked == pc[Client] \notin {"idle", "mark"} => terminal # "none"
ExposedInSight ==
    terminal \in {"none", "cancelled"} /\ ~swept =>
        \A t \in Tool : Exposed(t) => InSight(t)

Kept == SavedPast /\ CancelledByClient /\ ClientMarked /\ ExposedInSight

LEMMA InitKept == Init => Kept
BY ProcKinds DEF Init, Kept, SavedPast, CancelledByClient, ClientMarked,
   ExposedInSight, Exposed

(* What every step but an accepted save does to what Kept speaks of.       *)
NoneExposed == \A t \in Tool : Exposed(t)' => Exposed(t) /\ by'[t] = by[t]
StaysInSight ==
    terminal' \in {"none", "cancelled"} /\ ~swept' =>
        \A t \in Tool : Exposed(t)' /\ InSight(t) => InSight(t)'
Marking ==
    /\ terminal' # terminal =>
        \/ terminal' \notin {"none", "cancelled"}
        \/ terminal = "none" /\ pc'[Client] = "unwind"
    /\ pc'[Client] \in {"idle", "mark"} => pc[Client] \in {"idle", "mark"}
    /\ pc'[Client] \notin {"idle", "mark"} =>
        pc[Client] \notin {"idle", "mark"} \/ terminal' # "none"
    /\ terminal # "none" => terminal' # "none"
KeptMoves ==
    /\ saved' = saved /\ (swept => swept')
    /\ \A c \in 0..Rounds : pc'[Job(c)] \in BeforeSave => pc[Job(c)] \in BeforeSave
    /\ Marking /\ StaysInSight

LEMMA MovesKeepKept ==
    ASSUME TypeInv, Kept, NoneExposed, KeptMoves
    PROVE  Kept'
<1>1. SavedPast'
  BY DEF Kept, SavedPast, KeptMoves, TypeInv, TypeOK
<1>2. CancelledByClient' /\ ClientMarked'
  BY DEF Kept, CancelledByClient, ClientMarked, KeptMoves, Marking
<1>3. ExposedInSight'
  <2> SUFFICES ASSUME terminal' \in {"none", "cancelled"}, ~swept',
                      NEW t \in Tool, Exposed(t)'
               PROVE  InSight(t)'
    BY DEF ExposedInSight
  <2>1. terminal \in {"none", "cancelled"} /\ ~swept
    BY DEF KeptMoves, Marking
  <2> QED
    BY <2>1 DEF Kept, ExposedInSight, NoneExposed, KeptMoves, StaysInSight
<1> QED
  BY <1>1, <1>2, <1>3 DEF Kept

(* Steps of others that leave the checkpoint and the verdict alone.        *)
LEMMA OthersKeep ==
    ASSUME TypeInv,
           UNCHANGED <<ctx, terminal, by, saved, swept>>,
           seen'[Client] = seen[Client], pc'[Client] = pc[Client],
           \A c \in 0..Rounds : \/ pc'[Job(c)] = pc[Job(c)]
                                \/ pc[Job(c)] \in BeforeSave
                                \/ pc'[Job(c)] \notin BeforeSave
    PROVE  KeptMoves
BY DEF KeptMoves, Marking, StaysInSight, InSight

LEMMA MoveKeeps ==
    ASSUME TypeInv, NEW p \in Proc, p # Client, NEW l, Goto(p, l),
           UNCHANGED <<ctx, terminal, by, saved, swept>>,
           seen' \in {seen, [seen EXCEPT ![p] = 0], [seen EXCEPT ![p] = ctx]},
           p \in Jobs => pc[p] \in BeforeSave \/ l \notin BeforeSave
    PROVE  KeptMoves
<1>1. pc' = [pc EXCEPT ![p] = l] /\ pc \in [Proc -> Label]
      /\ seen \in [Proc -> 0..Rounds]
  BY DEF Goto, TypeInv, TypeOK
<1>2. \A q \in Proc : q # p => pc'[q] = pc[q] /\ seen'[q] = seen[q]
  BY <1>1
<1>3. pc'[p] = l
  BY <1>1
<1> QED
  BY <1>2, <1>3, JobIds, ProcKinds, OthersKeep

LEMMA EnqueueKeeps ==
    ASSUME TypeInv, NEW q \in Proc, q # Client, pc' = Enqueue(q),
           UNCHANGED <<ctx, terminal, by, seen, saved, swept>>
    PROVE  KeptMoves
<1>1. \A r \in Proc : pc'[r] = pc[r] \/ (r = q /\ pc[r] = "idle" /\ pc'[r] = "queued")
  BY DEF Enqueue, TypeInv, TypeOK
<1> QED
  BY <1>1, JobIds, ProcKinds, OthersKeep DEF BeforeSave

(* Failing or completing the turn makes it somebody else's.                *)
LEMMA EndKeeps ==
    ASSUME TypeInv, NEW p \in Proc, p # Client, NEW l, l \notin BeforeSave, Goto(p, l),
           NEW s \in {"completed", "failed"}, MarkTerminal(s),
           UNCHANGED <<seen, by, saved, swept>>
    PROVE  KeptMoves
<1>1. CASE terminal' = terminal
  BY <1>1, MoveKeeps DEF MarkTerminal
<1>2. CASE terminal' = s
  <2>1. \A q \in Proc : q # p => pc'[q] = pc[q]
    BY DEF Goto, TypeInv, TypeOK
  <2>2. pc'[p] = l
    BY DEF Goto, TypeInv, TypeOK
  <2> QED
    BY <1>2, <2>1, <2>2, JobIds, ProcKinds DEF KeptMoves, Marking, StaysInSight
<1> QED
  BY <1>1, <1>2 DEF MarkTerminal

LEMMA JobStepKeeps ==
    ASSUME TypeInv, Order, NEW p \in Jobs, JobStep(p), ~(Save(p) /\ SaveAccepted)
    PROVE  KeptMoves
<1> USE JobIds, ProcKinds, MoveKeeps DEF Stay, Leave, Load, store, history, BeforeSave
<1>0. p \in Proc /\ p # Client
  OBVIOUS
<1>1. CASE MatchCheckpoint(p)
  BY <1>0, <1>1 DEF MatchCheckpoint
<1>2. CASE Claim(p)
  BY <1>0, <1>2 DEF Claim, ClaimAction
<1>3. CASE ReadResults(p)
  BY <1>0, <1>3 DEF ReadResults
<1>4. CASE EngineReturns(p)
  BY <1>0, <1>4 DEF EngineReturns
<1>5. CASE Save(p)
  BY <1>0, <1>5 DEF Save
<1>6. CASE RevokeRefused(p)
  BY <1>0, <1>6 DEF RevokeRefused
<1>7. CASE Reload(p)
  BY <1>0, <1>7 DEF Reload
<1>8. CASE ArmTimers(p)
  BY <1>0, <1>8 DEF ArmTimers
<1>9. CASE Complete(p)
  BY <1>0, <1>9, EndKeeps DEF Complete
<1> QED
  BY <1>1, <1>2, <1>3, <1>4, <1>5, <1>6, <1>7, <1>8, <1>9 DEF JobStep

LEMMA ReadyStepKeeps ==
    ASSUME TypeInv, Ends, NEW p \in Proc, ReadyStep(p) \/ SendRaises(p)
    PROVE  KeptMoves
<1> USE JobIds, ProcKinds, MoveKeeps DEF Stay, Leave, Load, store, history, BeforeSave
<1>0. p # Client /\ (p \in Jobs => pc[p] # "idle")
  BY DEF Ends, ClientPath, ReadyStep, Peek, Check, Take, Send, GiveBack, SendRaises
<1>1. CASE Peek(p)
  BY <1>0, <1>1 DEF Peek
<1>2. CASE Check(p)
  BY <1>0, <1>2 DEF Check
<1>3. CASE Take(p)
  BY <1>0, <1>3 DEF Take, ClaimResume
<1>4. CASE Send(p)
  <2>1. \A q \in Proc : \/ pc'[q] = pc[q]
                        \/ q = p /\ pc'[q] = "done"
                        \/ q = Job(seen[p]) /\ pc[q] = "idle"
    BY <1>4 DEF Send, Enqueue, TypeInv, TypeOK
  <2>2. seen'[Client] = seen[Client] /\ Job(seen[p]) # Client
    BY <1>0, <1>4 DEF Send, TypeInv, TypeOK
  <2> QED
    BY <1>0, <1>4, <2>1, <2>2, OthersKeep DEF Send
<1>5. CASE GiveBack(p)
  BY <1>0, <1>5 DEF GiveBack, ReleaseResume
<1>6. CASE SendRaises(p)
  BY <1>0, <1>6 DEF SendRaises
<1> QED
  BY <1>1, <1>2, <1>3, <1>4, <1>5, <1>6 DEF ReadyStep

LEMMA EndStepKeeps ==
    ASSUME TypeInv, Chain, Ends, Kept, NoneExposed, NEW p \in Proc, EndStep(p)
    PROVE  KeptMoves
<1> USE JobIds, ProcKinds, MoveKeeps DEF Stay, Leave, Load, store, history, BeforeSave
<1>1. CASE MarkFailed(p)
  <2>1. p # Client
    BY <1>1 DEF MarkFailed, Ends, ClientPath
  <2> QED
    BY <1>1, <2>1, EndKeeps DEF MarkFailed
<1>2. CASE PublishError(p)
  <2>1. p # Client
    BY <1>2 DEF PublishError, Ends, ClientPath
  <2> QED
    BY <1>2, <2>1 DEF PublishError
<1>3. CASE Wipe(p)
  <2>1. terminal # "none" /\ terminal' = terminal
    BY <1>3 DEF Wipe, Cleanup, Chain, WipersOver
  <2>2. \A q \in Proc : q # p => pc'[q] = pc[q]
    BY <1>3 DEF Wipe, Goto, TypeInv, TypeOK
  <2>3. pc[p] \in {"wipe", "fail_wipe"} /\ pc'[p] \in {"close", "fail_close"}
    BY <1>3 DEF Wipe, Goto, TypeInv, TypeOK
  <2>4. /\ UNCHANGED <<by, saved, seen>> /\ ctx' = 0
        /\ swept' = (swept \/ (p # Client /\ pc[Client] = "unwind" /\ ctx # 0))
    BY <1>3 DEF Wipe, Cleanup
  <2>5. StaysInSight
    <3> SUFFICES ASSUME terminal \in {"none", "cancelled"}, ~swept', NEW t \in Tool,
                        InSight(t)
                 PROVE  InSight(t)'
      BY <2>1 DEF StaysInSight
    <3>1. CASE p = Client
      BY <2>3, <3>1 DEF InSight, BeforeLoad
    <3>2. CASE p # Client /\ pc[Client] = "unwind"
      BY <2>2, <2>4, <3>2 DEF InSight, BeforeLoad
    <3>3. CASE p # Client /\ pc[Client] # "unwind"
      <4>1. pc[Client] \notin BeforeLoad
        BY <2>1, <3>3 DEF Kept, CancelledByClient, BeforeLoad
      <4> QED
        BY <2>2, <2>4, <3>3, <4>1 DEF InSight
    <3> QED
      BY <3>1, <3>2, <3>3
  <2>6. Marking
    BY <2>1, <2>2, <2>3 DEF Marking
  <2> QED
    BY <2>2, <2>3, <2>4, <2>5, <2>6 DEF KeptMoves
<1>4. CASE Close(p)
  <2>1. CASE p # Client
    BY <1>4, <2>1 DEF Close
  <2>2. CASE p = Client
    <3>1. /\ \A q \in Proc : q # p => pc'[q] = pc[q]
          /\ pc[p] \in {"close", "fail_close"} /\ pc'[p] = "done"
      BY <1>4, <2>2 DEF Close, Goto, TypeInv, TypeOK
    <3>2. \A t \in Tool : ~InSight(t)
      BY <2>2, <3>1 DEF InSight, BeforeLoad
    <3> QED
      BY <1>4, <2>2, <3>1, <3>2 DEF Close, KeptMoves, Marking, StaysInSight
  <2> QED
    BY <2>1, <2>2
<1>5. CASE Unwind(p)
  <2>1. CASE p # Client
    BY <1>5, <2>1 DEF Unwind, AfterRevoke
  <2>2. CASE p = Client
    <3>1. /\ \A q \in Proc : q # p => pc'[q] = pc[q]
          /\ pc[p] = "unwind" /\ pc'[p] = IF ctx = 0 THEN "stop_jobs" ELSE "revoke"
          /\ seen'[p] = ctx /\ ctx' = ctx /\ by' = by
      BY <1>5, <2>2 DEF Unwind, Goto, AfterRevoke, TypeInv, TypeOK, Rescues, Client
    <3>2. \A t \in Tool : InSight(t) => InSight(t)'
      BY <2>2, <3>1 DEF InSight, BeforeLoad, TypeInv, TypeOK
    <3> QED
      BY <1>5, <2>2, <3>1, <3>2 DEF Unwind, KeptMoves, Marking, StaysInSight
  <2> QED
    BY <2>1, <2>2
<1>6. CASE Revoke(p)
  <2>1. CASE p # Client
    BY <1>6, <2>1 DEF Revoke, AfterRevoke
  <2>2. CASE p = Client
    <3>1. /\ \A q \in Proc : q # p => pc'[q] = pc[q]
          /\ pc[p] = "revoke" /\ pc'[p] = "stop_jobs"
          /\ UNCHANGED <<ctx, seen, by>> /\ tool' = Revoked(Pending(seen[p]))
      BY <1>6, <2>2 DEF Revoke, Goto, AfterRevoke, TypeInv, TypeOK, Rescues, Client
    <3>2. \A t \in Tool : by[t] + 1 = seen[p] => tool'[t] # "running"
      BY <3>1, RevokedStops DEF TypeInv, TypeOK
    <3>3. \A t \in Tool : ~(Exposed(t)' /\ InSight(t))
      BY <2>2, <3>1, <3>2 DEF Exposed, InSight, BeforeLoad
    <3> QED
      BY <1>6, <2>2, <3>1, <3>3 DEF Revoke, KeptMoves, Marking, StaysInSight
  <2> QED
    BY <2>1, <2>2
<1> QED
  BY <1>1, <1>2, <1>3, <1>4, <1>5, <1>6 DEF EndStep

LEMMA CallbackStepKeeps ==
    ASSUME TypeInv, NEW p \in Callbacks, CallbackStep(p)
    PROVE  KeptMoves
<1> USE ProcKinds, MoveKeeps DEF Stay, Load, store, history
<1>1. p # Client
  BY DEF Client, Callbacks
<1> QED
  BY <1>1 DEF CallbackStep, Lookup, Record, RecordResult, Disarm

LEMMA DisturbanceKeeps ==
    ASSUME TypeInv, NEW p \in Proc, NEW j \in 0..Rounds,
           \/ p \in Jobs /\ EngineRaises(p)
           \/ p \in Jobs \cup Callbacks /\ (AbortJob(p) \/ Crash(p))
           \/ RecoverJob(j)
    PROVE  KeptMoves
<1> USE JobIds, ProcKinds, MoveKeeps DEF Stay, Leave, store, history, BeforeSave
<1>1. Client \notin Callbacks /\ Rescue(j) # Client
  BY DEF Client, Callbacks, Rescue
<1>2. CASE p \in Jobs /\ EngineRaises(p)
  BY <1>2 DEF EngineRaises
<1>3. CASE p \in Jobs \cup Callbacks /\ AbortJob(p)
  BY <1>1, <1>3 DEF AbortJob, Rest
<1>4. CASE p \in Jobs \cup Callbacks /\ Crash(p)
  BY <1>1, <1>4 DEF Crash, Rest
<1>5. CASE RecoverJob(j)
  BY <1>1, <1>5 DEF RecoverJob
<1> QED
  BY <1>2, <1>3, <1>4, <1>5

LEMMA ToolStepKeeps ==
    ASSUME TypeInv, NEW t \in Tool, ToolAnswers(t) \/ TimerStep(t)
    PROVE  KeptMoves
<1> USE ProcKinds DEF store, history
<1>1. Client \notin Callbacks
  BY DEF Client, Callbacks
<1>2. UNCHANGED <<ctx, terminal, by, seen, saved, swept>>
  BY DEF ToolAnswers, TimerStep, TimerFires, TimerAborted
<1>3. CASE UNCHANGED pc
  BY <1>2, <1>3, OthersKeep
<1>4. CASE \E q \in Callbacks : pc' = Enqueue(q)
  BY <1>1, <1>2, <1>4, EnqueueKeeps
<1> QED
  BY <1>3, <1>4 DEF ToolAnswers, TimerStep, TimerFires, TimerAborted

LEMMA ClientStepKeeps ==
    ASSUME TypeInv, Chain, Submit \/ RequestCancel \/ CancelStep
    PROVE  KeptMoves
<1> USE JobIds, ProcKinds DEF Stay, store, history
<1>1. CASE Submit
  BY <1>1, EnqueueKeeps, RoundsAssumption DEF Submit
<1>2. ASSUME ~Submit
      PROVE  /\ \A q \in Proc : q # Client => pc'[q] = pc[q]
             /\ pc[Client] \in {"idle", "mark", "stop_jobs"}
             /\ UNCHANGED <<ctx, by, seen, saved, swept>>
  BY <1>2 DEF CancelStep, RequestCancel, MarkCancelled, MarkTerminal, StopJobs,
     Goto, TypeInv, TypeOK
<1>3. CASE RequestCancel
  <2>1. pc[Client] = "idle" /\ pc'[Client] = "mark" /\ terminal' = terminal
    BY <1>3 DEF RequestCancel, Goto, TypeInv, TypeOK
  <2>2. ~Submit
    BY <2>1 DEF Submit, Enqueue, TypeInv, TypeOK
  <2> QED
    BY <1>2, <2>1, <2>2 DEF KeptMoves, Marking, StaysInSight, InSight, BeforeLoad
<1>4. CASE MarkCancelled
  <2>1. /\ pc[Client] = "mark" /\ pc'[Client] = "unwind"
        /\ terminal' = IF terminal = "none" THEN "cancelled" ELSE terminal
    BY <1>4 DEF MarkCancelled, MarkTerminal, Goto, TypeInv, TypeOK
  <2>2. ~Submit
    BY <2>1 DEF Submit, Enqueue, TypeInv, TypeOK
  <2> QED
    BY <1>2, <2>1, <2>2 DEF KeptMoves, Marking, StaysInSight, InSight, BeforeLoad
<1>5. CASE StopJobs
  <2>1. pc[Client] = "stop_jobs" /\ pc'[Client] = "wipe" /\ terminal' = terminal
    BY <1>5 DEF StopJobs, Goto, TypeInv, TypeOK
  <2>2. ~Submit
    BY <2>1 DEF Submit, Enqueue, TypeInv, TypeOK
  <2>3. \A t \in Tool : ~InSight(t)
    BY <2>1 DEF InSight, BeforeLoad
  <2>4. terminal # "none"
    BY <2>1 DEF Chain, WipersOver
  <2> QED
    BY <1>2, <2>1, <2>2, <2>3, <2>4 DEF KeptMoves, Marking, StaysInSight
<1> QED
  BY <1>1, <1>3, <1>4, <1>5 DEF CancelStep

(* A tool that is dispatched now has a job that has saved nothing yet.     *)
LEMMA DispatchKeeps ==
    ASSUME TypeInv, Kept, NEW p \in Jobs, NEW t \in Tool, DispatchTool(p, t)
    PROVE  Kept'
<1> USE JobIds
<1>1. /\ UNCHANGED <<ctx, terminal, pc, seen, timer, saved, swept>>
      /\ by' = [by EXCEPT ![t] = p[2]] /\ tool' = [tool EXCEPT ![t] = "running"]
      /\ pc[p] = "engine" /\ p = Job(p[2])
  BY DEF DispatchTool, store, history
<1>2. p[2] \notin saved
  BY <1>1 DEF Kept, SavedPast, BeforeSave
<1>3. /\ ~Exposed(t)'
      /\ \A u \in Tool : u # t => by'[u] = by[u] /\ tool'[u] = tool[u]
  BY <1>1, <1>2 DEF Exposed, TypeInv, TypeOK
<1>4. NoneExposed
  BY <1>1, <1>3 DEF NoneExposed, Exposed
<1>5. StaysInSight
  BY <1>1, <1>3 DEF StaysInSight, InSight
<1>6. KeptMoves
  BY <1>1, <1>5 DEF KeptMoves, Marking
<1> QED
  BY <1>4, <1>6, MovesKeepKept

(* Of the tools of earlier pauses each has called back, so none of them is *)
(* exposed when the next checkpoint replaces theirs.                       *)
LEMMA SaveKeeps ==
    ASSUME TypeInv, Order, Watch, Kept, NEW p \in Jobs, Save(p), SaveAccepted
    PROVE  Kept'
<1> USE JobIds, ProcKinds, RoundsAssumption
<1> DEFINE c == p[2]
<1>1. /\ pc[p] = "save" /\ p = Job(c) /\ c \in 0..Rounds /\ terminal = "none"
      /\ ctx' = c + 1 /\ saved' = saved \cup {c}
      /\ pc' = [pc EXCEPT ![p] = "reload"] /\ pc \in [Proc -> Label]
      /\ UNCHANGED <<terminal, seen, by, tool, timer, swept>>
  BY DEF Save, SaveAccepted, SaveCheckpoint, Goto, TypeInv, TypeOK
<1> HIDE DEF c
<1>2. \A q \in Proc : q # p => pc'[q] = pc[q]
  BY <1>1
<1>3. pc'[p] = "reload"
  BY <1>1
<1>4. pc'[Client] = pc[Client] /\ \A t \in Tool : pc'[<<"timeout", t>>] = pc[<<"timeout", t>>]
  BY <1>2
<1>5. SavedPast'
  <2> SUFFICES ASSUME NEW d \in saved', pc'[Job(d)] \in BeforeSave PROVE FALSE
    BY DEF SavedPast
  <2>1. d \in 0..Rounds /\ Job(d) # p
    BY <1>1, <1>3 DEF BeforeSave, TypeInv, TypeOK
  <2>2. d \in saved /\ pc[Job(d)] \in BeforeSave
    BY <1>1, <1>2, <2>1
  <2> QED
    BY <2>2 DEF Kept, SavedPast
<1>6. CancelledByClient' /\ ClientMarked'
  BY <1>1, <1>4 DEF Kept, CancelledByClient, ClientMarked
<1>7. ExposedInSight'
  <2> SUFFICES ASSUME ~swept, NEW t \in Tool, Exposed(t)' PROVE InSight(t)'
    BY <1>1 DEF ExposedInSight
  <2>1. pc[Client] \in BeforeLoad
    BY <1>1 DEF Kept, ClientMarked, BeforeLoad
  <2>2. CASE by[t] = c
    BY <1>1, <1>4, <2>1, <2>2 DEF InSight
  <2>3. CASE by[t] # c
    <3>1. Exposed(t) /\ by[t] \in saved
      BY <1>1, <1>4, <2>3 DEF Exposed
    <3>2. ctx = by[t] + 1
      BY <1>1, <2>1, <3>1 DEF Kept, ExposedInSight, InSight
    <3>3. ctx = c
      BY <1>1 DEF Order, Latest, TypeInv, TypeOK
    <3>4. c \in 1..Rounds
      BY <1>1, <3>2, <3>3, <3>1 DEF TypeInv, TypeOK
    <3>5. HeardFrom(c)
      BY <1>1, <3>4 DEF Watch, ResumersHeard
    <3>6. CalledBack(t)
      BY <3>2, <3>3, <3>5 DEF HeardFrom
    <3> QED
      BY <3>1, <3>6 DEF CalledBack, Exposed, Watch, ResultsStopped
  <2> QED
    BY <2>2, <2>3
<1> QED
  BY <1>5, <1>6, <1>7 DEF Kept

LEMMA WatchedKeepExposed ==
    ASSUME WatchMoves, saved' = saved
    PROVE  NoneExposed
BY ProcKinds DEF WatchMoves, NoneExposed, Exposed

LEMMA NextKept ==
    TypeInv /\ Chain /\ Order /\ Ends /\ Watch /\ Kept /\ [Next]_vars => Kept'
<1> SUFFICES ASSUME TypeInv, Chain, Order, Ends, Watch, Kept, [Next]_vars PROVE Kept'
  OBVIOUS
<1> USE JobIds, ProcKinds, RoundsAssumption
<1>0. ASSUME WatchMoves, KeptMoves PROVE Kept'
  BY <1>0, MovesKeepKept, WatchedKeepExposed DEF KeptMoves
<1>1. CASE UNCHANGED vars
  <2>1. WatchMoves
    BY <1>1 DEF vars, WatchMoves
  <2>2. KeptMoves
    BY <1>1, OthersKeep DEF vars
  <2> QED
    BY <1>0, <2>1, <2>2
<1>2. CASE Submit \/ RequestCancel \/ CancelStep
  BY <1>0, <1>2, ClientStepWatched, ClientStepKeeps
<1>3. ASSUME NEW p \in Jobs, JobStep(p) PROVE Kept'
  BY <1>0, <1>3, JobStepWatched, JobStepKeeps, SaveKeeps
<1>4. ASSUME NEW p \in Proc, ReadyStep(p) \/ SendRaises(p) PROVE Kept'
  BY <1>0, <1>4, ReadyStepWatched, ReadyStepKeeps
<1>5. ASSUME NEW p \in Proc, EndStep(p) PROVE Kept'
  <2>1. WatchMoves
    BY <1>5, EndStepWatched
  <2>2. saved' = saved
    BY <1>5 DEF EndStep, MarkFailed, PublishError, Wipe, Close, Unwind, Revoke,
       Stay, history
  <2> QED
    BY <1>0, <1>5, <2>1, <2>2, WatchedKeepExposed, EndStepKeeps
<1>6. ASSUME NEW p \in Callbacks, CallbackStep(p) PROVE Kept'
  BY <1>0, <1>6, CallbackStepWatched, CallbackStepKeeps
<1>7. ASSUME NEW p \in Jobs, EngineRaises(p) PROVE Kept'
  BY <1>0, <1>7, DisturbanceWatched, DisturbanceKeeps
<1>8. ASSUME NEW p \in Jobs, NEW t \in Tool, DispatchTool(p, t) PROVE Kept'
  BY <1>8, DispatchKeeps
<1>9. ASSUME NEW p \in Jobs \cup Callbacks, AbortJob(p) \/ Crash(p) PROVE Kept'
  BY <1>0, <1>9, DisturbanceWatched, DisturbanceKeeps
<1>10. ASSUME NEW j \in 0..Rounds, RecoverJob(j) PROVE Kept'
  BY <1>0, <1>10, DisturbanceWatched, DisturbanceKeeps
<1>11. ASSUME NEW t \in Tool, ToolAnswers(t) \/ TimerStep(t) PROVE Kept'
  BY <1>0, <1>11, ToolStepWatched, ToolStepKeeps
<1> QED
  BY <1>1, <1>2, <1>3, <1>4, <1>5, <1>6, <1>7, <1>8, <1>9, <1>10, <1>11 DEF Next, ProcStep

LEMMA KeptHolds == Spec => [](TypeInv /\ Order /\ Watch /\ Kept)
BY InitType, InitChain, InitOrder, InitEnds, InitWatch, InitKept,
   NextType, NextChain, NextOrder, NextEnds, NextWatch, NextKept, PTL DEF Spec

(* After a cancel every tool that has not answered was asked to stop, or   *)
(* its timeout is still armed, or has called back.  What is left are tools *)
(* of a checkpoint that was never accepted, whose job has not gone through *)
(* its pause, and tools of a checkpoint that another party swept away      *)
(* before cancel() had loaded it.                                          *)
THEOREM NoToolUnwatched == Spec => []CancelStopsTools
<1>1. TypeInv /\ Order /\ Watch /\ Kept => CancelStopsTools
  <2> SUFFICES ASSUME TypeInv, Order, Watch, Kept,
                      terminal = "cancelled", pc[Client] = "done", ~swept,
                      NEW t \in Tool, tool[t] = "running",
                      by[t] \in saved \/ pc[Job(by[t])] = "done",
                      pc[<<"timeout", t>>] = "idle"
               PROVE  timer[t] = "set" /\ Timer(t) \notin aborts
    BY DEF CancelStopsTools
  <2>1. timer[t] # "none"
    <3>1. CASE by[t] \in saved
      <4>1. ~InSight(t)
        BY DEF InSight, BeforeLoad
      <4> QED
        BY <3>1, <4>1 DEF Kept, ExposedInSight, Exposed
    <3>2. CASE pc[Job(by[t])] = "done"
      <4>1. by[t] \in 0..Rounds
        BY DispatcherIsJob DEF Order, Undispatched
      <4> QED
        BY <3>2, <4>1 DEF Watch, ArmedWatched, AfterArm, WatchedPause, Watched
    <3> QED
      BY <3>1, <3>2
  <2>2. timer[t] # "over" /\ Timer(t) \notin aborts
    BY DEF Watch, FiredTimers, AbortedTimers
  <2> QED
    BY <2>1, <2>2 DEF TypeInv, TypeOK
<1> QED
  BY KeptHolds, <1>1, PTL
=============================================================================
