------------------------------- MODULE ChatTurn -------------------------------
(***************************************************************************)
(* What a resumable chat turn promises, whatever runs it: it starts once,  *)
(* pauses for tools it has not asked before, continues only when every     *)
(* tool of the pause has answered, and when it is over it stays over.      *)
(* Implemented by ResumableChat, see ImplementsTurn there.                 *)
(***************************************************************************)
EXTENDS Naturals

CONSTANT Tool

VARIABLES
    phase,      \* "new", "running", "paused" or "over"
    pause,      \* how many times the turn has paused
    asked,      \* tools asked in any pause so far
    answered    \* tools whose answer, or whose timeout, is known

tvars == <<phase, pause, asked, answered>>

(* When the turn is over what it was waiting for is forgotten.             *)
Over == phase = "over" /\ pause = 0 /\ asked = {} /\ answered = {}

Init == phase = "new" /\ pause = 0 /\ asked = {} /\ answered = {}

Begin ==
    /\ phase = "new"
    /\ phase' = "running"
    /\ UNCHANGED <<pause, asked, answered>>

(* The tools were dispatched while the turn ran, so some may have answered *)
Pause(tools) ==
    /\ phase = "running"
    /\ tools # {} /\ tools \cap asked = {}
    /\ phase' = "paused"
    /\ pause' = pause + 1
    /\ asked' = asked \cup tools
    /\ UNCHANGED answered

Answer(t) ==
    /\ phase \in {"running", "paused"}
    /\ t \notin answered
    /\ answered' = answered \cup {t}
    /\ UNCHANGED <<phase, pause, asked>>

Continue ==
    /\ phase = "paused" /\ asked \subseteq answered
    /\ phase' = "running"
    /\ UNCHANGED <<pause, asked, answered>>

Finish == phase # "over" /\ Over'

Next ==
    \/ Begin
    \/ \E tools \in SUBSET Tool : Pause(tools)
    \/ \E t \in Tool : Answer(t)
    \/ Continue
    \/ Finish

Spec == Init /\ [][Next]_tvars
=============================================================================
