------------------------------ MODULE EngineRuns ------------------------------
(***************************************************************************)
(* What the runs of one turn's engine promise to whoever schedules them    *)
(* (ResumableChat takes it for granted): no tool call is handed to a       *)
(* worker twice, a run that pauses names every call that is out, one that  *)
(* completes leaves none out, and nothing is handed out meanwhile.  Only a *)
(* run that raised may leave calls out, and hand out more of them later.   *)
(* Implemented by EngineIteration, see ImplementsRuns there.               *)
(***************************************************************************)
CONSTANT Call

VARIABLES
    status,     \* "running", "waiting", "completed" or "raised"
    handed,     \* the calls handed to the tool workers so far
    out,        \* those of them whose answer the engine has not taken
    awaited     \* the calls the pause names

rvars == <<status, handed, out, awaited>>

Init == status = "running" /\ handed = {} /\ out = {} /\ awaited = {}

Dispatch(c) ==
    /\ status \in {"running", "raised"}
    /\ c \notin handed
    /\ handed' = handed \cup {c}
    /\ out' = out \cup {c}
    /\ UNCHANGED <<status, awaited>>

Pause ==
    /\ status = "running" /\ out # {}
    /\ status' = "waiting"
    /\ awaited' = out
    /\ UNCHANGED <<handed, out>>

(* Every awaited call has its answer.                                      *)
Resume ==
    /\ status = "waiting"
    /\ status' = "running"
    /\ out' = out \ awaited
    /\ awaited' = {}
    /\ UNCHANGED handed

Complete ==
    /\ status = "running" /\ out = {}
    /\ status' = "completed"
    /\ UNCHANGED <<handed, out, awaited>>

Raise ==
    /\ status = "running"
    /\ status' = "raised"
    /\ UNCHANGED <<handed, out, awaited>>

Next ==
    \/ \E c \in Call : Dispatch(c)
    \/ Pause
    \/ Resume
    \/ Complete
    \/ Raise

Spec == Init /\ [][Next]_rvars
=============================================================================
