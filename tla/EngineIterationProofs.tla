------------------------- MODULE EngineIterationProofs -------------------------
(***************************************************************************)
(* Proofs about EngineIteration, for any calls and any max_iterations: its *)
(* runs are those of EngineRuns, a turn's model calls are bounded, and the *)
(* blocks on the wire are whole, in order and numbered afresh, and what    *)
(* the model reads is a well-formed conversation.                          *)
(***************************************************************************)
EXTENDS EngineIteration, SequenceTheorems, FiniteSetTheorems, FunctionTheorems,
        WellFoundedInduction, TLAPS

-----------------------------------------------------------------------------
(* The inductive invariant, in three parts.                                *)

Live(c) == task[c] \in {"new", "out", "refused"}

(* What a task's state says of its call.                                   *)
Tasks ==
    /\ task \in [Call -> TaskState \cup {None}]
    /\ kind \in [Call -> Kind \cup {None}]
    /\ \A c \in Call : kind[c] = None => task[c] = None
    /\ \A c \in Call : task[c] \in {"out", "refused"} => kind[c] = "server" /\ is_async

(* The tasks of an iteration are of its own calls, and the gather leaves   *)
(* none behind but those the pause names.                                  *)
Gathered ==
    /\ calls \in Seq(Call)
    /\ \A i \in DOMAIN calls : kind[calls[i]] # None
    /\ pc # "raised" => \A c \in Call : Live(c) => c \in ToSet(calls)
    /\ pc \in {"loop", "before", "after", "close", "completed"} =>
          \A c \in Call : ~Live(c)
    /\ pc = "waiting" => \A c \in Call : task[c] \notin {"new", "refused"}
    /\ pending = IF pc = "waiting" THEN Out ELSE {}
    /\ pc = "before" => calls = <<>>
    /\ pc = "stream" /\ calls # <<>> => task[calls[Len(calls)]] = None

(* Every model call is an iteration, and none is begun beyond the last.    *)
Counted ==
    /\ iteration \in Nat /\ asked = iteration
    /\ iteration <= MaxIterations
    /\ pc = "before" => iteration < MaxIterations

IndInv == Tasks /\ Gathered /\ Counted

(* It holds at the start.                                                  *)
LEMMA InitInd == Init => IndInv
<1> SUFFICES ASSUME Init PROVE IndInv
  OBVIOUS
<1> USE NoneAssumption DEF Init, Kind, TaskState
<1>1. Tasks
  BY DEF Tasks
<1>2. Gathered
  BY DEF Gathered, Live, Out
<1>3. Counted
  BY BoundsAssumption DEF Counted
<1> QED
  BY <1>1, <1>2, <1>3 DEF IndInv

(* A task is handed out only for a call of the server, at a worker.          *)
LEMMA TasksStep == IndInv /\ Next => Tasks'
<1> SUFFICES ASSUME IndInv, Next PROVE Tasks'
  OBVIOUS
<1> USE NoneAssumption DEF IndInv, Kind, TaskState
<1>1. CASE StartIteration
  BY <1>1 DEF StartIteration, Tasks
<1>2. CASE Exhausted
  BY <1>2 DEF Exhausted, Tasks, made
<1>3. CASE Inject
  BY <1>3 DEF Inject, Tasks, made
<1>4. CASE AskModel
  BY <1>4 DEF AskModel, Tasks, made
<1>5. CASE StreamText
  BY <1>5 DEF StreamText, Tasks, made
<1>6. CASE StreamBlank
  BY <1>6 DEF StreamBlank, Tasks, made
<1>7. CASE EndStream
  BY <1>7 DEF EndStream, Spawn, Tasks, Gathered, made
<1>8. CASE Fold
  BY <1>8 DEF Fold, Tasks, made
<1>9. CASE Gather
  BY <1>9 DEF Gather, Results, Tasks, made
<1>10. CASE AfterIteration
  BY <1>10 DEF AfterIteration, Tasks, made
<1>11. CASE Resume
  BY <1>11 DEF Resume, ContinueTools, Tasks, Gathered, Out, made
<1>12. CASE Close
  BY <1>12 DEF Close, Tasks, made
<1>13. CASE Abort
  BY <1>13 DEF Abort, Tasks, made
<1>14. ASSUME NEW c \in Call, OpenCall(c) PROVE Tasks'
  BY <1>14 DEF OpenCall, ShowCall, Spawn, Tasks, Gathered
<1>15. ASSUME NEW c \in Call, Answer(c) PROVE Tasks'
  BY <1>15 DEF Answer, Becomes, Tasks, made
<1>16. ASSUME NEW c \in Call, Pass(c) PROVE Tasks'
  BY <1>16 DEF Pass, Becomes, Tasks, made
<1>17. ASSUME NEW c \in Call, Dispatch(c) PROVE Tasks'
  BY <1>17 DEF Dispatch, Becomes, Tasks, made
<1>18. CASE Ended
  BY <1>18 DEF Ended, Tasks, vars, made
<1> QED
  BY <1>1, <1>2, <1>3, <1>4, <1>5, <1>6, <1>7, <1>8, <1>9, <1>10, <1>11, <1>12, <1>13, <1>14, <1>15, <1>16, <1>17, <1>18 DEF Next

(* Only a gather that has all its results lets the run go on.              *)
LEMMA GatheredStep == IndInv /\ Next => Gathered'
<1> SUFFICES ASSUME IndInv, Next PROVE Gathered'
  OBVIOUS
<1> USE NoneAssumption DEF IndInv, Kind, TaskState
<1>1. CASE StartIteration
  BY <1>1 DEF StartIteration, Gathered, Live
<1>2. CASE Exhausted
  BY <1>2 DEF Exhausted, Gathered, Live, made
<1>3. CASE Inject
  BY <1>3 DEF Inject, Gathered, Live, made
<1>4. CASE AskModel
  BY <1>4 DEF AskModel, Gathered, Live, made
<1>5. CASE StreamText
  BY <1>5 DEF StreamText, Gathered, Live, made
<1>6. CASE StreamBlank
  BY <1>6 DEF StreamBlank, Gathered, Live, made
<1>7. CASE EndStream
  BY <1>7 DEF EndStream, Spawn, Gathered, Live, ToSet, made
<1>8. CASE Fold
  BY <1>8 DEF Fold, Gathered, Live, ToSet, made
<1>9. CASE Gather
  BY <1>9 DEF Gather, Results, In, Gathered, Live, Out, ToSet, made
<1>10. CASE AfterIteration
  BY <1>10 DEF AfterIteration, Gathered, Live, made
<1>11. CASE Resume
  BY <1>11 DEF Resume, ContinueTools, Gathered, Live, Out, made
<1>12. CASE Close
  BY <1>12 DEF Close, Gathered, Live, made
<1>13. CASE Abort
  BY <1>13 DEF Abort, Gathered, made
<1>14. ASSUME NEW c \in Call, OpenCall(c) PROVE Gathered'
  <2> USE <1>14 DEF OpenCall, ShowCall, Gathered, Tasks
  <2>1. /\ calls' = Append(calls, c) /\ calls' \in Seq(Call)
        /\ pc = "stream" /\ pc' = pc /\ pending' = pending
        /\ DOMAIN calls' = 1..(Len(calls) + 1) /\ DOMAIN calls = 1..Len(calls)
        /\ \A i \in DOMAIN calls : calls'[i] = calls[i]
        /\ calls'[Len(calls) + 1] = c
    OBVIOUS
  <2>2. \A i \in DOMAIN calls : kind[calls[i]] # None /\ calls[i] # c
    OBVIOUS
  <2>3. kind'[c] # None /\ \A d \in Call \ {c} : kind'[d] = kind[d]
    OBVIOUS
  <2>4. task[c] = None
    OBVIOUS
  <2>5. \A d \in Call : task'[d] = IF calls # <<>> /\ d = calls[Len(calls)]
                                  THEN "new" ELSE task[d]
    BY DEF Spawn
  <2>6. calls # <<>> => calls[Len(calls)] # c /\ calls[Len(calls)] \in ToSet(calls)
    BY <2>1, <2>2 DEF ToSet
  <2>7. \A i \in DOMAIN calls' : kind'[calls'[i]] # None
    BY <2>1, <2>2, <2>3
  <2>8. \A d \in Call : Live(d)' => d \in ToSet(calls)'
    BY <2>1, <2>5, <2>6 DEF Live, ToSet
  <2>9. Out' = Out
    BY <2>1, <2>4, <2>5 DEF Out
  <2>10. task'[calls'[Len(calls')]] = None
    BY <2>1, <2>4, <2>5, <2>6
  <2> QED
    BY <2>1, <2>7, <2>8, <2>9, <2>10
<1>15. ASSUME NEW c \in Call, Answer(c) PROVE Gathered'
  BY <1>15 DEF Answer, Becomes, Gathered, Live, made
<1>16. ASSUME NEW c \in Call, Pass(c) PROVE Gathered'
  BY <1>16 DEF Pass, Becomes, Gathered, Live, made
<1>17. ASSUME NEW c \in Call, Dispatch(c) PROVE Gathered'
  BY <1>17 DEF Dispatch, Becomes, Tasks, Gathered, Live, made
<1>18. CASE Ended
  BY <1>18 DEF Ended, Gathered, Live, Out, vars, made
<1> QED
  BY <1>1, <1>2, <1>3, <1>4, <1>5, <1>6, <1>7, <1>8, <1>9, <1>10, <1>11, <1>12, <1>13, <1>14, <1>15, <1>16, <1>17, <1>18 DEF Next

(* The iterations survive the pause.                                       *)
LEMMA CountedStep == IndInv /\ Next => Counted'
<1> SUFFICES ASSUME IndInv, Next PROVE Counted'
  OBVIOUS
<1> USE NoneAssumption DEF IndInv, Kind, TaskState
<1>1. CASE StartIteration
  BY <1>1 DEF StartIteration, Counted, history
<1>2. CASE Exhausted
  BY <1>2 DEF Exhausted, Counted, history
<1>3. CASE Inject
  BY <1>3 DEF Inject, Counted, history
<1>4. CASE AskModel
  BY <1>4, BoundsAssumption DEF AskModel, Counted
<1>5. CASE StreamText
  BY <1>5 DEF StreamText, Counted, history
<1>6. CASE StreamBlank
  BY <1>6 DEF StreamBlank, Counted, history
<1>7. CASE EndStream
  BY <1>7 DEF EndStream, Counted, history
<1>8. CASE Fold
  BY <1>8 DEF Fold, Counted, history
<1>9. CASE Gather
  BY <1>9 DEF Gather, Results, Counted, history
<1>10. CASE AfterIteration
  BY <1>10 DEF AfterIteration, Counted, history
<1>11. CASE Resume
  BY <1>11 DEF Resume, ContinueTools, Counted, history
<1>12. CASE Close
  BY <1>12 DEF Close, Counted, history
<1>13. CASE Abort
  BY <1>13 DEF Abort, Counted, history
<1>14. ASSUME NEW c \in Call, OpenCall(c) PROVE Counted'
  BY <1>14 DEF OpenCall, ShowCall, Counted, history
<1>15. ASSUME NEW c \in Call, Answer(c) PROVE Counted'
  BY <1>15 DEF Answer, Counted, history
<1>16. ASSUME NEW c \in Call, Pass(c) PROVE Counted'
  BY <1>16 DEF Pass, Counted, history
<1>17. ASSUME NEW c \in Call, Dispatch(c) PROVE Counted'
  BY <1>17 DEF Dispatch, Counted, history
<1>18. CASE Ended
  BY <1>18 DEF Ended, Counted, vars, history
<1> QED
  BY <1>1, <1>2, <1>3, <1>4, <1>5, <1>6, <1>7, <1>8, <1>9, <1>10, <1>11, <1>12, <1>13, <1>14, <1>15, <1>16, <1>17, <1>18 DEF Next

(* Every step is one of the runs, or none.                                 *)
LEMMA RunsStep == IndInv /\ Next => [Runs!Next]_Runs!rvars
<1> SUFFICES ASSUME IndInv, Next PROVE [Runs!Next]_Runs!rvars
  OBVIOUS
<1> USE NoneAssumption DEF IndInv, Kind, TaskState
<1>1. CASE StartIteration
  BY <1>1 DEF StartIteration, Out, Handed, Status, Ends, Runs!rvars
<1>2. CASE Exhausted
  BY <1>2 DEF Exhausted, Out, Handed, Status, Ends, Runs!rvars, made
<1>3. CASE Inject
  BY <1>3 DEF Inject, Out, Handed, Status, Runs!rvars, made
<1>4. CASE AskModel
  BY <1>4 DEF AskModel, Out, Handed, Status, Ends, Runs!rvars, made
<1>5. CASE StreamText
  BY <1>5 DEF StreamText, Out, Handed, Status, Runs!rvars, made
<1>6. CASE StreamBlank
  BY <1>6 DEF StreamBlank, Out, Handed, Status, Runs!rvars, made
<1>7. CASE EndStream
  BY <1>7 DEF EndStream, Spawn, Gathered, Out, Handed, Status, Ends, Runs!rvars, made
<1>8. CASE Fold
  BY <1>8 DEF Fold, Out, Handed, Status, Ends, Runs!rvars, made
<1>9. CASE Gather
  BY <1>9 DEF Gather, Results, In, Gathered, Live, Out, Handed, Status, Ends, ToSet, Runs!Next, Runs!rvars, Runs!Pause, Runs!Raise, made
<1>10. CASE AfterIteration
  BY <1>10 DEF AfterIteration, Out, Handed, Status, Ends, Runs!Next, Runs!rvars, Runs!Raise, made
<1>11. CASE Resume
  BY <1>11 DEF Resume, ContinueTools, Tasks, Gathered, Out, Handed, Status, Ends, Runs!Next, Runs!Resume, made
<1>12. CASE Close
  BY <1>12 DEF Close, Gathered, Live, Out, Handed, Status, Ends, Runs!Next, Runs!Complete, made
<1>13. CASE Abort
  BY <1>13 DEF Abort, Out, Handed, Status, Ends, Runs!Next, Runs!Raise, made
<1>14. ASSUME NEW c \in Call, OpenCall(c) PROVE [Runs!Next]_Runs!rvars
  BY <1>14 DEF OpenCall, ShowCall, Spawn, Tasks, Gathered, Out, Handed, Status, Runs!rvars
<1>15. ASSUME NEW c \in Call, Answer(c) PROVE [Runs!Next]_Runs!rvars
  BY <1>15 DEF Answer, Becomes, Out, Handed, Status, Runs!rvars, made
<1>16. ASSUME NEW c \in Call, Pass(c) PROVE [Runs!Next]_Runs!rvars
  BY <1>16 DEF Pass, Becomes, Out, Handed, Status, Runs!rvars, made
<1>17. ASSUME NEW c \in Call, Dispatch(c) PROVE [Runs!Next]_Runs!rvars
  BY <1>17 DEF Dispatch, Becomes, Tasks, Gathered, Live, Out, Handed, Status, Ends, Runs!Next, Runs!rvars, Runs!Dispatch, made
<1>18. CASE Ended
  BY <1>18 DEF Ended, Out, Handed, Status, Runs!rvars, vars, made
<1> QED
  BY <1>1, <1>2, <1>3, <1>4, <1>5, <1>6, <1>7, <1>8, <1>9, <1>10, <1>11, <1>12, <1>13, <1>14, <1>15, <1>16, <1>17, <1>18 DEF Next

(* And so it holds always.                                                 *)
LEMMA Inductive == Spec => []IndInv
<1>1. IndInv /\ UNCHANGED vars => IndInv'
  BY DEF IndInv, Tasks, Gathered, Counted, Live, Out, vars, made, history
<1>2. IndInv /\ [Next]_vars => IndInv'
  BY <1>1, TasksStep, GatheredStep, CountedStep DEF IndInv
<1> QED
  BY <1>2, InitInd, PTL DEF Spec

-----------------------------------------------------------------------------
(* Sequences: sums, flattened sequences.                                  *)

(* A set of numbers that is not empty has a least one.                     *)
LEMMA LeastNumber ==
    ASSUME NEW S \in SUBSET Nat, S # {}
    PROVE  \E x \in S : \A y \in S : x =< y
<1> DEFINE R == OpToRel(<, Nat)
<1>1. IsWellFoundedOn(R, Nat)
  BY NatLessThanWellFounded, Zenon
<1>2. \A x, y \in Nat : y < x => <<y, x>> \in R
  BY DEF OpToRel
<1> HIDE DEF R
<1>3. PICK x \in S : \A y \in S : ~(<<y, x>> \in R)
  BY <1>1, WFMin
<1>4. ASSUME NEW y \in S PROVE x =< y
  <2>1. x \in Nat /\ y \in Nat
    OBVIOUS
  <2>2. ~(y < x)
    BY <1>2, <1>3, <2>1
  <2> QED
    BY <2>1, <2>2
<1> QED
  BY <1>4

(* What is so of zero, and of each number after one it is so of, is so of  *)
(* all of them: a set of numbers stands for the statement.                 *)
LEMMA Count ==
    ASSUME NEW n \in Nat, NEW S,
           0 \in S, \A m \in 0..n : m \in S /\ m < n => m + 1 \in S
    PROVE  \A m \in 0..n : m \in S
<1> DEFINE D == {m \in 0..n : m \notin S}
<1>1. SUFFICES ASSUME D # {} PROVE FALSE
  OBVIOUS
<1>2. D \in SUBSET Nat
  OBVIOUS
<1>3. PICK x \in D : \A y \in D : x =< y
  BY <1>1, <1>2, LeastNumber
<1>4. x # 0 /\ x - 1 \in 0..n /\ ~(x =< x - 1)
  BY <1>3
<1>5. x - 1 \in S
  BY <1>3, <1>4
<1> QED
  BY <1>3, <1>4, <1>5

(* The sums of the first parts, one behind the other.                      *)
Sums(f, s) == \A i \in 1..Len(s) : f[i] = IF i = 1 THEN s[i] ELSE f[i - 1] \o s[i]

(* There are such sums.                                                    *)
LEMMA SumsExist ==
    ASSUME NEW A, NEW s \in Seq(Seq(A))
    PROVE  \E f \in [1..Len(s) -> Seq(A)] : Sums(f, s)
<1> DEFINE Upto(m) == \E f \in [1..m -> Seq(A)] :
              \A i \in 1..m : f[i] = IF i = 1 THEN s[i] ELSE f[i - 1] \o s[i]
<1> DEFINE S == {m \in 0..Len(s) : Upto(m)}
<1>1. 0 \in S
  <2> DEFINE e == [i \in 1..0 |-> <<>>]
  <2>1. e \in [1..0 -> Seq(A)]
    OBVIOUS
  <2>2. \A i \in 1..0 : e[i] = IF i = 1 THEN s[i] ELSE e[i - 1] \o s[i]
    OBVIOUS
  <2> HIDE DEF e
  <2>3. Upto(0)
    BY <2>1, <2>2
  <2> HIDE DEF Upto
  <2> QED
    BY <2>3
<1>2. ASSUME NEW m \in 0..Len(s), m \in S, m < Len(s) PROVE m + 1 \in S
  <2>1. PICK f \in [1..m -> Seq(A)] :
              \A i \in 1..m : f[i] = IF i = 1 THEN s[i] ELSE f[i - 1] \o s[i]
    BY <1>2
  <2> DEFINE last == IF m = 0 THEN s[m + 1] ELSE f[m] \o s[m + 1]
  <2> DEFINE g == [i \in 1..(m + 1) |-> IF i = m + 1 THEN last ELSE f[i]]
  <2>2. s[m + 1] \in Seq(A)
    BY <1>2
  <2>3. last \in Seq(A)
    <3>1. CASE m = 0
      BY <2>2, <3>1
    <3>2. CASE m # 0
      <4>1. f[m] \in Seq(A)
        BY <3>2
      <4> HIDE DEF g
      <4> QED
        BY <2>2, <3>2, <4>1, ConcatProperties
    <3> QED
      BY <3>1, <3>2
  <2> HIDE DEF last
  <2>4. g \in [1..(m + 1) -> Seq(A)]
    BY <2>3
  <2>5. ASSUME NEW i \in 1..(m + 1)
        PROVE  g[i] = IF i = 1 THEN s[i] ELSE g[i - 1] \o s[i]
    <3>1. CASE i \in 1..m
      <4>1. g[i] = f[i]
        BY <3>1
      <4>2. i # 1 => i - 1 \in 1..m /\ i - 1 \in 1..(m + 1) /\ i - 1 # m + 1
        BY <3>1
      <4>3. i # 1 => g[i - 1] = f[i - 1]
        BY <4>2
      <4> HIDE DEF g
      <4> QED
        BY <2>1, <3>1, <4>1, <4>3
    <3>2. CASE i = m + 1
      BY <3>2 DEF last
    <3> QED
      BY <3>1, <3>2
  <2>6. Upto(m + 1)
    <3> HIDE DEF g
    <3> QED
      BY <2>4, <2>5
  <2> HIDE DEF Upto
  <2> QED
    BY <1>2, <2>6
<1> HIDE DEF Upto
<1>3. Len(s) \in Nat
  OBVIOUS
<1>4. \A m \in 0..Len(s) : m \in S
  <2> HIDE DEF S
  <2> QED
    BY <1>1, <1>2, <1>3, Count
<1>5. Upto(Len(s))
  BY <1>3, <1>4
<1> QED
  BY <1>5 DEF Upto, Sums

(* Two sums of one sequence agree.                                         *)
LEMMA SumsAgree ==
    ASSUME NEW s, Len(s) \in Nat, NEW f, NEW g, Sums(f, s), Sums(g, s)
    PROVE  \A i \in 1..Len(s) : f[i] = g[i]
<1> DEFINE n == Len(s)
<1> DEFINE S == {m \in 0..n : m = 0 \/ f[m] = g[m]}
<1>1. 0 \in S
  OBVIOUS
<1>2. ASSUME NEW m \in 0..n, m \in S, m < n PROVE m + 1 \in S
  <2>1. m + 1 \in 1..n /\ (m + 1) - 1 = m
    BY <1>2
  <2>2. f[m + 1] = (IF m = 0 THEN s[m + 1] ELSE f[m] \o s[m + 1])
    BY <2>1 DEF Sums
  <2>3. g[m + 1] = (IF m = 0 THEN s[m + 1] ELSE g[m] \o s[m + 1])
    BY <2>1 DEF Sums
  <2> QED
    BY <1>2, <2>1, <2>2, <2>3
<1>3. \A m \in 0..n : m \in S
  <2> HIDE DEF S
  <2> QED
    BY <1>1, <1>2, Count
<1> QED
  BY <1>3

(* FlattenSeq is the last of the sums.                                     *)
LEMMA FlatIsSum ==
    ASSUME NEW A, NEW s \in Seq(Seq(A)), Len(s) # 0,
           NEW f \in [1..Len(s) -> Seq(A)], Sums(f, s)
    PROVE  FlattenSeq(s) = f[Len(s)]
<1> DEFINE Step(h) == [i \in 1..Len(s) |-> IF i = 1 THEN s[i] ELSE h[i - 1] \o s[i]]
<1> DEFINE h == CHOOSE h : h = Step(h)
<1>1. FlattenSeq(s) = h[Len(s)]
  BY DEF FlattenSeq
<1>2. f = Step(f)
  BY DEF Sums
<1> HIDE DEF Step
<1>3. h = Step(h)
  BY <1>2
<1> HIDE DEF h
<1>4. Sums(h, s)
  BY <1>3 DEF Step, Sums
<1>5. Len(s) \in Nat /\ Len(s) \in 1..Len(s)
  OBVIOUS
<1>6. \A i \in 1..Len(s) : h[i] = f[i]
  BY <1>4, <1>5, SumsAgree
<1> QED
  BY <1>1, <1>5, <1>6

(* One part more is put behind.                                            *)
LEMMA FlatAppend ==
    ASSUME NEW A, NEW s \in Seq(Seq(A)), NEW x \in Seq(A)
    PROVE  /\ FlattenSeq(s) \in Seq(A)
           /\ FlattenSeq(Append(s, x)) = FlattenSeq(s) \o x
<1> DEFINE t == Append(s, x)
<1>1. /\ t \in Seq(Seq(A)) /\ Len(t) = Len(s) + 1 /\ t[Len(t)] = x
      /\ \A i \in 1..Len(s) : t[i] = s[i]
  OBVIOUS
<1> HIDE DEF t
<1>2. PICK f \in [1..Len(t) -> Seq(A)] : Sums(f, t)
  BY <1>1, SumsExist
<1>3. FlattenSeq(t) = f[Len(t)]
  BY <1>1, <1>2, FlatIsSum
<1>4. CASE Len(s) = 0
  <2>1. s = <<>> /\ FlattenSeq(s) = <<>>
    BY <1>4, EmptySeq DEF FlattenSeq
  <2>2. f[Len(t)] = x
    BY <1>1, <1>2, <1>4 DEF Sums
  <2>3. <<>> \o x = x /\ <<>> \in Seq(A)
    BY ConcatEmptySeq
  <2> QED
    BY <1>3, <2>1, <2>2, <2>3 DEF t
<1>5. CASE Len(s) # 0
  <2> DEFINE g == [i \in 1..Len(s) |-> f[i]]
  <2>1. g \in [1..Len(s) -> Seq(A)]
    BY <1>1
  <2>2. Sums(g, s)
    <3>1. ASSUME NEW i \in 1..Len(s)
          PROVE  g[i] = IF i = 1 THEN s[i] ELSE g[i - 1] \o s[i]
      <4>1. f[i] = IF i = 1 THEN t[i] ELSE f[i - 1] \o t[i]
        <5>1. i \in 1..Len(t)
          BY <1>1
        <5> QED
          BY <1>2, <5>1 DEF Sums
      <4>2. i # 1 => i - 1 \in 1..Len(s)
        OBVIOUS
      <4>3. g[i] = f[i] /\ (i # 1 => g[i - 1] = f[i - 1]) /\ t[i] = s[i]
        BY <1>1, <4>2
      <4> HIDE DEF g
      <4> QED
        BY <4>1, <4>3
    <3> HIDE DEF g
    <3> QED
      BY <3>1 DEF Sums
  <2>3. g[Len(s)] = f[Len(s)] /\ g[Len(s)] \in Seq(A)
    <3>1. Len(s) \in 1..Len(s)
      BY <1>5
    <3>2. g[Len(s)] = f[Len(s)]
      BY <3>1
    <3> HIDE DEF g
    <3> QED
      BY <2>1, <3>1, <3>2
  <2> HIDE DEF g
  <2>4. FlattenSeq(s) = g[Len(s)]
    BY <1>5, <2>1, <2>2, FlatIsSum
  <2>5. f[Len(t)] = f[Len(s)] \o x
    <3>1. Len(t) \in 1..Len(t) /\ Len(t) # 1 /\ Len(t) - 1 = Len(s)
      BY <1>1, <1>5
    <3> QED
      BY <1>1, <1>2, <3>1 DEF Sums
  <2> QED
    BY <1>3, <2>3, <2>4, <2>5 DEF t
<1> QED
  BY <1>4, <1>5

(* One element is put behind a sequence.                                   *)
LEMMA OneMore ==
    ASSUME NEW A, NEW u \in Seq(A), NEW x \in A
    PROVE  /\ u \o <<x>> \in Seq(A) /\ Len(u \o <<x>>) = Len(u) + 1
           /\ \A k \in 1..Len(u) : (u \o <<x>>)[k] = u[k]
           /\ (u \o <<x>>)[Len(u) + 1] = x
  OBVIOUS

(* Two elements are put behind a sequence.                                 *)
LEMMA TwoMore ==
    ASSUME NEW A, NEW u \in Seq(A), NEW x \in A, NEW y \in A
    PROVE  /\ u \o <<x, y>> \in Seq(A) /\ Len(u \o <<x, y>>) = Len(u) + 2
           /\ \A k \in 1..Len(u) : (u \o <<x, y>>)[k] = u[k]
           /\ (u \o <<x, y>>)[Len(u) + 1] = x
           /\ (u \o <<x, y>>)[Len(u) + 2] = y
  OBVIOUS

(* Two sequences of one.                                                   *)
LEMMA OneAndOne ==
    ASSUME NEW A, NEW u \in Seq(A), NEW x \in A, NEW y \in A
    PROVE  u \o <<>> \o <<x>> \o <<y>> = u \o <<x, y>>
<1>1. u \o <<>> = u
  BY ConcatEmptySeq
<1>2. /\ u \o <<x>> \in Seq(A) /\ Len(u \o <<x>>) = Len(u) + 1
      /\ \A k \in 1..Len(u) : (u \o <<x>>)[k] = u[k]
      /\ (u \o <<x>>)[Len(u) + 1] = x
  BY OneMore
<1> DEFINE t == u \o <<x>>
<1> HIDE DEF t
<1>3. /\ t \o <<y>> \in Seq(A) /\ Len(t \o <<y>>) = Len(t) + 1
      /\ \A k \in 1..Len(t) : (t \o <<y>>)[k] = t[k]
      /\ (t \o <<y>>)[Len(t) + 1] = y
  BY <1>2, OneMore DEF t
<1>4. /\ u \o <<x, y>> \in Seq(A) /\ Len(u \o <<x, y>>) = Len(u) + 2
      /\ \A k \in 1..Len(u) : (u \o <<x, y>>)[k] = u[k]
      /\ (u \o <<x, y>>)[Len(u) + 1] = x
      /\ (u \o <<x, y>>)[Len(u) + 2] = y
  BY TwoMore
<1>5. Len(t) = Len(u) + 1 /\ Len(u) \in Nat
  BY <1>2 DEF t
<1>6. ASSUME NEW k \in 1..(Len(u) + 2)
      PROVE  (t \o <<y>>)[k] = (u \o <<x, y>>)[k]
  <2>1. CASE k \in 1..Len(u)
    <3>1. t[k] = u[k] /\ k \in 1..Len(t)
      BY <1>2, <1>5, <2>1 DEF t
    <3> QED
      BY <1>3, <1>4, <2>1, <3>1
  <2>2. CASE k = Len(u) + 1
    <3>1. t[k] = x /\ k \in 1..Len(t)
      BY <1>2, <1>5, <2>2 DEF t
    <3> QED
      BY <1>3, <1>4, <2>2, <3>1
  <2>3. CASE k = Len(u) + 2
    <3>1. k = Len(t) + 1
      BY <1>5, <2>3
    <3> QED
      BY <1>3, <1>4, <2>3, <3>1
  <2> QED
    BY <1>5, <2>1, <2>2, <2>3
<1>7. t \o <<y>> = u \o <<x, y>>
  <2>1. Len(t \o <<y>>) = Len(u) + 2
    BY <1>3, <1>5
  <2> QED
    BY <1>3, <1>4, <1>6, <2>1, SeqEqual
<1> QED
  BY <1>1, <1>7 DEF t

(* Every number up to twice n is the first or the second of a pair.        *)
LEMMA InPairs ==
    ASSUME NEW n \in Nat, NEW j \in 1..(2 * n)
    PROVE  \E i \in 1..n : j = 2 * i - 1 \/ j = 2 * i
<1> DEFINE S == {m \in 0..j : \E i \in Nat : m = 2 * i \/ (i # 0 /\ m = 2 * i - 1)}
<1>1. 0 \in S
  OBVIOUS
<1>2. ASSUME NEW m \in 0..j, m \in S, m < j PROVE m + 1 \in S
  <2>1. PICK i \in Nat : m = 2 * i \/ (i # 0 /\ m = 2 * i - 1)
    BY <1>2
  <2>2. CASE m = 2 * i
    <3>1. i + 1 \in Nat /\ i + 1 # 0 /\ m + 1 = 2 * (i + 1) - 1
      BY <2>2
    <3>2. \E k \in Nat : m + 1 = 2 * k \/ (k # 0 /\ m + 1 = 2 * k - 1)
      BY ONLY <3>1
    <3>3. m + 1 \in 0..j
      BY <1>2
    <3> QED
      BY <3>2, <3>3
  <2>3. CASE i # 0 /\ m = 2 * i - 1
    <3>1. m + 1 = 2 * i /\ m + 1 \in 0..j
      BY <1>2, <2>3
    <3> QED
      BY <3>1
  <2> QED
    BY <2>1, <2>2, <2>3
<1>3. j \in S
  <2> HIDE DEF S
  <2> QED
    BY <1>1, <1>2, Count
<1>4. PICK i \in Nat : j = 2 * i \/ (i # 0 /\ j = 2 * i - 1)
  BY <1>3
<1>5. i \in 1..n
  BY <1>4
<1> QED
  BY <1>4, <1>5

(* Pairs put one behind the other.                                         *)
Paired(a, b) == [i \in DOMAIN a |-> <<a[i], b[i]>>]

AllPairs(s, n, a, b, A) ==
    /\ n \in Nat /\ a \in [1..n -> A] /\ b \in [1..n -> A]
    /\ s = FlattenSeq(Paired(a, b))

(* The pairs, one behind the other.                                        *)
LEMMA TwoByTwo ==
    ASSUME NEW A, NEW n, NEW a, NEW b, NEW s, AllPairs(s, n, a, b, A)
    PROVE  /\ s \in Seq(A) /\ Len(s) = 2 * n
           /\ \A i \in 1..n : s[2 * i - 1] = a[i] /\ s[2 * i] = b[i]
<1> USE DEF AllPairs
<1> DEFINE part(m) == [i \in 1..m |-> <<a[i], b[i]>>]
<1> DEFINE Good(m) == /\ FlattenSeq(part(m)) \in Seq(A)
                      /\ Len(FlattenSeq(part(m))) = 2 * m
                      /\ \A i \in 1..m : /\ FlattenSeq(part(m))[2 * i - 1] = a[i]
                                         /\ FlattenSeq(part(m))[2 * i] = b[i]
<1> DEFINE S == {m \in 0..n : Good(m)}
<1>1. 0 \in S
  <2>1. part(0) = <<>>
    OBVIOUS
  <2>2. FlattenSeq(part(0)) = <<>>
    BY <2>1 DEF FlattenSeq
  <2> HIDE DEF part
  <2>3. Good(0)
    <3>1. FlattenSeq(part(0)) \in Seq(A)
      <4>1. <<>> \in Seq(A)
        OBVIOUS
      <4> QED
        BY <2>2, <4>1
    <3>2. Len(FlattenSeq(part(0))) = 2 * 0
      BY <2>2
    <3>3. 1..0 = {}
      OBVIOUS
    <3> QED
      BY <3>1, <3>2, <3>3
  <2> HIDE DEF Good
  <2> QED
    BY <2>3
<1>2. ASSUME NEW m \in 0..n, m \in S, m < n PROVE m + 1 \in S
  <2> DEFINE old == FlattenSeq(part(m))
  <2> DEFINE pair == <<a[m + 1], b[m + 1]>>
  <2>1. /\ pair \in Seq(A) /\ Len(pair) = 2
        /\ pair[1] = a[m + 1] /\ pair[2] = b[m + 1]
    BY <1>2
  <2>2. part(m) \in Seq(Seq(A)) /\ Len(part(m)) = m
    OBVIOUS
  <2>3. part(m + 1) = Append(part(m), pair)
    <3>1. part(m + 1) \in Seq(Seq(A)) /\ Len(part(m + 1)) = m + 1
      <4>1. \A i \in 1..(m + 1) : <<a[i], b[i]>> \in Seq(A)
        BY <1>2
      <4> QED
        BY <4>1
    <3>2. Append(part(m), pair) \in Seq(Seq(A)) /\ Len(Append(part(m), pair)) = m + 1
      <4> HIDE DEF part, pair
      <4> QED
        BY <2>1, <2>2
    <3>3. \A i \in 1..(m + 1) : part(m + 1)[i] = Append(part(m), pair)[i]
      <4> TAKE i \in 1..(m + 1)
      <4>1. part(m + 1)[i] = <<a[i], b[i]>>
        OBVIOUS
      <4>2. i # m + 1 => part(m)[i] = <<a[i], b[i]>> /\ i \in 1..m
        OBVIOUS
      <4>3. Append(part(m), pair)[i] = IF i = m + 1 THEN pair ELSE part(m)[i]
        <5> HIDE DEF part, pair
        <5> QED
          BY <2>1, <2>2
      <4> QED
        BY <4>1, <4>2, <4>3
    <3> HIDE DEF part, pair
    <3> QED
      BY <3>1, <3>2, <3>3, SeqEqual
  <2> HIDE DEF part, pair
  <2>4. old \in Seq(A) /\ FlattenSeq(part(m + 1)) = old \o pair
    BY <2>1, <2>2, <2>3, FlatAppend
  <2>5. /\ Len(old) = 2 * m
        /\ \A i \in 1..m : old[2 * i - 1] = a[i] /\ old[2 * i] = b[i]
    BY <1>2
  <2> HIDE DEF old
  <2>6. /\ old \o pair \in Seq(A) /\ Len(old \o pair) = 2 * (m + 1)
        /\ \A k \in 1..(2 * m) : (old \o pair)[k] = old[k]
        /\ (old \o pair)[2 * m + 1] = pair[1]
        /\ (old \o pair)[2 * m + 2] = pair[2]
    <3>1. Len(old) = 2 * m /\ 2 * (m + 1) = 2 * m + 2
      BY <2>5
    <3>2. /\ old \o pair \in Seq(A) /\ Len(old \o pair) = Len(old) + 2
          /\ \A k \in 1..Len(old) : (old \o pair)[k] = old[k]
          /\ (old \o pair)[Len(old) + 1] = pair[1]
          /\ (old \o pair)[Len(old) + 2] = pair[2]
      <4>1. a[m + 1] \in A /\ b[m + 1] \in A
        BY <1>2
      <4> QED
        BY <2>1, <2>4, <4>1, TwoMore DEF pair
    <3> QED
      BY <3>1, <3>2
  <2>7. ASSUME NEW i \in 1..(m + 1)
        PROVE  (old \o pair)[2 * i - 1] = a[i] /\ (old \o pair)[2 * i] = b[i]
    <3>1. CASE i = m + 1
      <4>1. 2 * i - 1 = 2 * m + 1 /\ 2 * i = 2 * m + 2
        BY <3>1
      <4> QED
        BY <2>1, <2>6, <3>1, <4>1
    <3>2. CASE i # m + 1
      <4>1. i \in 1..m /\ 2 * i - 1 \in 1..(2 * m) /\ 2 * i \in 1..(2 * m)
        BY <3>2
      <4> QED
        BY <2>5, <2>6, <4>1
    <3> QED
      BY <3>1, <3>2
  <2>8. Good(m + 1)
    BY <2>4, <2>6, <2>7
  <2> HIDE DEF Good
  <2> QED
    BY <1>2, <2>8
<1>3. \A m \in 0..n : m \in S
  <2> HIDE DEF S
  <2> QED
    BY <1>1, <1>2, Count
<1>4. Good(n)
  <2> HIDE DEF Good
  <2> QED
    BY <1>3
<1>5. part(n) = Paired(a, b)
  BY DEF Paired
<1> HIDE DEF part
<1> QED
  BY <1>4, <1>5

(* The members of a sequence that are in a set, in their order.            *)
Chosen(s, P) == [i \in DOMAIN s |-> IF s[i] \in P THEN <<s[i]>> ELSE <<>>]

(* What is chosen: the members of the set, in the order of the sequence.   *)
LEMMA ChosenFlat ==
    ASSUME NEW A, NEW s \in Seq(A), NEW P, NEW q, q = FlattenSeq(Chosen(s, P))
    PROVE  /\ q \in Seq(A) /\ ToSet(q) = ToSet(s) \cap P
           /\ IsInjective(s) => IsInjective(q)
<1> DEFINE part(m) == [i \in 1..m |-> IF s[i] \in P THEN <<s[i]>> ELSE <<>>]
<1> DEFINE r(m) == FlattenSeq(part(m))
<1> DEFINE Good(m) == /\ r(m) \in Seq(A)
                      /\ \A x : (\E i \in 1..Len(r(m)) : r(m)[i] = x)
                                <=> x \in P /\ \E i \in 1..m : s[i] = x
                      /\ IsInjective(s) => IsInjective(r(m))
<1> DEFINE S == {m \in 0..Len(s) : Good(m)}
<1>1. 0 \in S
  <2>1. part(0) = <<>>
    OBVIOUS
  <2>2. r(0) = <<>>
    BY <2>1 DEF FlattenSeq
  <2> HIDE DEF r
  <2>3. <<>> \in Seq(A) /\ Len(<<>>) = 0 /\ 1..0 = {} /\ IsInjective(<<>>)
    BY DEF IsInjective
  <2>4. Good(0)
    BY <2>2, <2>3
  <2> HIDE DEF Good
  <2> QED
    BY <2>4
<1>2. ASSUME NEW m \in 0..Len(s), m \in S, m < Len(s) PROVE m + 1 \in S
  <2> DEFINE x == s[m + 1]
  <2> DEFINE more == IF x \in P THEN <<x>> ELSE <<>>
  <2>1. m + 1 \in 1..Len(s) /\ x \in A /\ more \in Seq(A)
    BY <1>2
  <2>2. part(m) \in Seq(Seq(A)) /\ Len(part(m)) = m
    <3>1. \A i \in 1..m : (IF s[i] \in P THEN <<s[i]>> ELSE <<>>) \in Seq(A)
      OBVIOUS
    <3> QED
      BY <3>1
  <2>3. part(m + 1) = Append(part(m), more)
    <3>1. part(m + 1) \in Seq(Seq(A)) /\ Len(part(m + 1)) = m + 1
      <4>1. \A i \in 1..(m + 1) : (IF s[i] \in P THEN <<s[i]>> ELSE <<>>) \in Seq(A)
        BY <1>2
      <4> QED
        BY <4>1
    <3>2. Append(part(m), more) \in Seq(Seq(A)) /\ Len(Append(part(m), more)) = m + 1
      <4> HIDE DEF part, more
      <4> QED
        BY <2>1, <2>2
    <3>3. \A i \in 1..(m + 1) : part(m + 1)[i] = Append(part(m), more)[i]
      <4> TAKE i \in 1..(m + 1)
      <4>1. part(m + 1)[i] = IF s[i] \in P THEN <<s[i]>> ELSE <<>>
        OBVIOUS
      <4>2. i # m + 1 => i \in 1..m /\ part(m)[i] = IF s[i] \in P THEN <<s[i]>> ELSE <<>>
        OBVIOUS
      <4>3. Append(part(m), more)[i] = IF i = m + 1 THEN more ELSE part(m)[i]
        <5> HIDE DEF part, more
        <5> QED
          BY <2>1, <2>2
      <4> QED
        BY <4>1, <4>2, <4>3
    <3> HIDE DEF part, more
    <3> QED
      BY <3>1, <3>2, <3>3, SeqEqual
  <2> HIDE DEF part
  <2>4. r(m) \in Seq(A) /\ r(m + 1) = r(m) \o more
    BY <2>1, <2>2, <2>3, FlatAppend
  <2>5. Good(m)
    BY <1>2
  <2> HIDE DEF r
  <2>6. \A y : (\E i \in 1..m : s[i] = y) \/ y = x <=> \E i \in 1..(m + 1) : s[i] = y
    BY <1>2
  <2>7. CASE x \notin P
    <3>1. r(m + 1) = r(m)
      BY <2>4, <2>7, ConcatEmptySeq
    <3>2. Good(m + 1)
      BY <2>5, <2>6, <2>7, <3>1
    <3> HIDE DEF Good
    <3> QED
      BY <2>1, <3>2
  <2>8. CASE x \in P
    <3>1. /\ r(m + 1) \in Seq(A) /\ Len(r(m + 1)) = Len(r(m)) + 1
          /\ \A i \in 1..Len(r(m)) : r(m + 1)[i] = r(m)[i]
          /\ r(m + 1)[Len(r(m)) + 1] = x
      <4>1. more = <<x>>
        BY <2>8
      <4> HIDE DEF more, x
      <4>2. r(m + 1) = r(m) \o <<x>>
        BY <2>4, <4>1
      <4>3. /\ r(m) \o <<x>> \in Seq(A) /\ Len(r(m) \o <<x>>) = Len(r(m)) + 1
            /\ \A k \in 1..Len(r(m)) : (r(m) \o <<x>>)[k] = r(m)[k]
            /\ (r(m) \o <<x>>)[Len(r(m)) + 1] = x
        BY <2>1, <2>4, OneMore
      <4> QED
        BY <4>2, <4>3
    <3>2. \A y : (\E i \in 1..Len(r(m + 1)) : r(m + 1)[i] = y)
                  <=> (\E i \in 1..Len(r(m)) : r(m)[i] = y) \/ y = x
      <4>1. Len(r(m)) \in Nat /\ 1..Len(r(m + 1)) = 1..Len(r(m)) \cup {Len(r(m)) + 1}
        BY <2>4, <3>1
      <4> HIDE DEF x
      <4> QED
        BY <3>1, <4>1
    <3>3. \A y : (\E i \in 1..Len(r(m + 1)) : r(m + 1)[i] = y)
                  <=> y \in P /\ \E i \in 1..(m + 1) : s[i] = y
      BY <2>5, <2>6, <2>8, <3>2
    <3>4. ASSUME IsInjective(s) PROVE IsInjective(r(m + 1))
      <4>1. ~ \E i \in 1..m : s[i] = x
        BY <2>1, <3>4 DEF IsInjective
      <4>2. ~ \E i \in 1..Len(r(m)) : r(m)[i] = x
        BY <2>5, <4>1
      <4>3. DOMAIN r(m) = 1..Len(r(m)) /\ DOMAIN r(m + 1) = 1..(Len(r(m)) + 1)
        BY <2>4, <3>1
      <4>4. \A i, j \in 1..Len(r(m)) : r(m)[i] = r(m)[j] => i = j
        BY <2>5, <3>4, <4>3 DEF IsInjective
      <4>5. \A i \in 1..(Len(r(m)) + 1) : i \in 1..Len(r(m)) \/ i = Len(r(m)) + 1
        BY <2>4
      <4> HIDE DEF x
      <4> QED
        BY <3>1, <4>2, <4>3, <4>4, <4>5 DEF IsInjective
    <3>5. Good(m + 1)
      BY <3>1, <3>3, <3>4
    <3> HIDE DEF Good
    <3> QED
      BY <2>1, <3>5
  <2> QED
    BY <2>7, <2>8
<1>3. Good(Len(s))
  <2>1. \A m \in 0..Len(s) : m \in S
    <3> HIDE DEF S
    <3> QED
      BY <1>1, <1>2, Count
  <2> HIDE DEF Good
  <2> QED
    BY <2>1
<1>4. part(Len(s)) = Chosen(s, P)
  BY DEF Chosen
<1>5. r(Len(s)) = FlattenSeq(Chosen(s, P))
  BY <1>4
<1>6. /\ q \in Seq(A)
      /\ IsInjective(s) => IsInjective(q)
      /\ \A x : (\E i \in 1..Len(q) : q[i] = x) <=> x \in P /\ \E i \in 1..Len(s) : s[i] = x
  BY <1>3, <1>5
<1> HIDE DEF r, Good
<1>7. DOMAIN q = 1..Len(q) /\ DOMAIN s = 1..Len(s)
  BY <1>6
<1>8. ToSet(q) = ToSet(s) \cap P
  BY <1>6, <1>7 DEF ToSet
<1> QED
  BY <1>6, <1>8

-----------------------------------------------------------------------------
(* Events and pieces of the wire.                                         *)

Event == [event : {"message_start", "message_stop"}]
         \cup [event : {"start"}, block : Block, index : Nat]
         \cup [event : {"stop"}, block : Block]

(* What is put on the wire is an event.                                    *)
LEMMA Events ==
    /\ MessageStart \in Event /\ MessageStop \in Event
    /\ \A b \in Block : Stop(b) \in Event
    /\ \A b \in Block, i \in Nat : Start(b, i) \in Event
  BY DEF Event, MessageStart, MessageStop, Start, Stop

Starts(w, i, b) == w[i].event = "start" /\ w[i].block = b
Stops(w, i, b) == w[i].event = "stop" /\ w[i].block = b

(* A piece of the wire that starts the blocks of one set, each once, and   *)
(* stops those of another, each once and behind its start.                 *)
Piece(v, B, E) ==
    /\ v \in Seq(Event)
    /\ \A i \in DOMAIN v : (\E b \in B : Starts(v, i, b)) \/ (\E b \in E : Stops(v, i, b))
    /\ \A b \in B : \E i \in DOMAIN v : Starts(v, i, b)
    /\ \A b \in E : \E i \in DOMAIN v : Stops(v, i, b)
    /\ \A b \in B : \A i, j \in DOMAIN v : Starts(v, i, b) /\ Starts(v, j, b) => i = j
    /\ \A b \in E : \A i, j \in DOMAIN v : Stops(v, i, b) /\ Stops(v, j, b) => i = j
    /\ \A b \in B : \A i, j \in DOMAIN v : Starts(v, i, b) /\ Stops(v, j, b) => i < j

(* Nothing is a piece.                                                     *)
LEMMA NoPiece == Piece(<<>>, {}, {})
  BY DEF Piece

(* A stop behind its block's start is a piece.                             *)
LEMMA StopPiece ==
    ASSUME NEW a \in Block
    PROVE  Piece(<<Stop(a)>>, {}, {a})
<1> DEFINE v == <<Stop(a)>>
<1>1. v \in Seq(Event) /\ DOMAIN v = {1} /\ v[1] = Stop(a)
  BY Events
<1>2. \A b : Stops(v, 1, b) <=> b = a
  BY <1>1 DEF Stop, Stops
<1> HIDE DEF v
<1> QED
  BY <1>1, <1>2 DEF Piece

(* And so is a start.                                                      *)
LEMMA StartPiece ==
    ASSUME NEW b \in Block, NEW n \in Nat
    PROVE  Piece(<<Start(b, n)>>, {b}, {})
<1> DEFINE v == <<Start(b, n)>>
<1>1. v \in Seq(Event) /\ DOMAIN v = {1} /\ v[1] = Start(b, n)
  BY Events
<1>2. \A x : Starts(v, 1, x) <=> x = b
  BY <1>1 DEF Start, Starts
<1>3. \A x : ~Stops(v, 1, x)
  BY <1>1 DEF Start, Stops
<1> HIDE DEF v
<1> QED
  BY <1>1, <1>2, <1>3 DEF Piece

(* Two events, one a start and one a stop.                                 *)
LEMMA TwoEvents ==
    ASSUME NEW a \in Block, NEW b \in Block, NEW n \in Nat
    PROVE  /\ Piece(<<Start(b, n), Stop(b)>>, {b}, {b})
           /\ a # b => Piece(<<Stop(a), Start(b, n)>>, {b}, {a})
<1>1. ASSUME NEW v \in Seq(Event), DOMAIN v = {1, 2}, v[1] = Start(b, n), v[2] = Stop(b)
      PROVE  Piece(v, {b}, {b})
  <2>1. \A x : Starts(v, 1, x) <=> x = b
    BY <1>1 DEF Start, Starts
  <2>2. \A x : Stops(v, 2, x) <=> x = b
    BY <1>1 DEF Stop, Stops
  <2>3. \A x : ~Stops(v, 1, x) /\ ~Starts(v, 2, x)
    BY <1>1 DEF Start, Stop, Stops, Starts
  <2> QED
    BY <1>1, <2>1, <2>2, <2>3 DEF Piece
<1>2. ASSUME NEW v \in Seq(Event), DOMAIN v = {1, 2}, v[1] = Stop(a), v[2] = Start(b, n),
             a # b
      PROVE  Piece(v, {b}, {a})
  <2>1. \A x : Stops(v, 1, x) <=> x = a
    BY <1>2 DEF Stop, Stops
  <2>2. \A x : Starts(v, 2, x) <=> x = b
    BY <1>2 DEF Start, Starts
  <2>3. \A x : ~Starts(v, 1, x) /\ ~Stops(v, 2, x)
    BY <1>2 DEF Start, Stop, Stops, Starts
  <2> QED
    BY <1>2, <2>1, <2>2, <2>3 DEF Piece
<1>3. /\ <<Start(b, n), Stop(b)>> \in Seq(Event) /\ DOMAIN <<Start(b, n), Stop(b)>> = {1, 2}
      /\ <<Stop(a), Start(b, n)>> \in Seq(Event) /\ DOMAIN <<Stop(a), Start(b, n)>> = {1, 2}
  BY Events
<1> QED
  BY <1>1, <1>2, <1>3

(* The results of a pause, one whole block behind the other.               *)
LEMMA ResultsPiece ==
    ASSUME NEW cs \in Seq(Call), IsInjective(cs), NEW n \in Nat,
           NEW v, v = ResultBlocks(cs, n),
           NEW B, B = {Result(c) : c \in ToSet(cs)}
    PROVE  /\ Piece(v, B, B)
           /\ Len(v) = 2 * Len(cs)
           /\ \A i \in 1..Len(cs) : /\ v[2 * i - 1] = Start(Result(cs[i]), n + i - 1)
                                    /\ v[2 * i] = Stop(Result(cs[i]))
<1> DEFINE k == Len(cs)
<1> DEFINE a == [i \in 1..k |-> Start(Result(cs[i]), n + i - 1)]
<1> DEFINE z == [i \in 1..k |-> Stop(Result(cs[i]))]
<1>1. a \in [1..k -> Event] /\ z \in [1..k -> Event] /\ k \in Nat
  <2>1. ASSUME NEW i \in 1..k
        PROVE  Result(cs[i]) \in Block /\ n + i - 1 \in Nat
    BY DEF Block
  <2> QED
    BY <2>1, Events
<1>2. v = FlattenSeq(Paired(a, z))
  <2>1. Paired(a, z) = [i \in DOMAIN cs |->
            <<Start(Result(cs[i]), n + i - 1), Stop(Result(cs[i]))>>]
    BY DEF Paired
  <2> QED
    BY <2>1 DEF ResultBlocks
<1>3. /\ v \in Seq(Event) /\ Len(v) = 2 * k
      /\ \A i \in 1..k : v[2 * i - 1] = a[i] /\ v[2 * i] = z[i]
  <2>1. a \in [1..k -> Event] /\ z \in [1..k -> Event] /\ k \in Nat
    BY <1>1
  <2> HIDE DEF a, z, k
  <2>2. AllPairs(v, k, a, z, Event)
    BY <1>2, <2>1 DEF AllPairs
  <2> QED
    BY <2>2, TwoByTwo
<1>4. \A i \in 1..k : /\ v[2 * i - 1] = Start(Result(cs[i]), n + i - 1)
                      /\ v[2 * i] = Stop(Result(cs[i]))
  BY <1>3
<1>5. /\ DOMAIN v = 1..(2 * k)
      /\ \A i \in 1..k : 2 * i - 1 \in DOMAIN v /\ 2 * i \in DOMAIN v
  BY <1>1, <1>3
<1>6. \A j \in DOMAIN v : \E i \in 1..k : j = 2 * i - 1 \/ j = 2 * i
  BY <1>1, <1>5, InPairs
<1>7. \A i \in 1..k : /\ \A b : Starts(v, 2 * i - 1, b) <=> b = Result(cs[i])
                      /\ \A b : Stops(v, 2 * i, b) <=> b = Result(cs[i])
                      /\ \A b : ~Stops(v, 2 * i - 1, b) /\ ~Starts(v, 2 * i, b)
  <2> TAKE i \in 1..k
  <2>1. v[2 * i - 1] = Start(Result(cs[i]), n + i - 1) /\ v[2 * i] = Stop(Result(cs[i]))
    BY <1>4
  <2>2. \A b : Starts(v, 2 * i - 1, b) <=> b = Result(cs[i])
    BY <2>1 DEF Start, Starts
  <2>3. \A b : Stops(v, 2 * i, b) <=> b = Result(cs[i])
    BY <2>1 DEF Stop, Stops
  <2>4. \A b : ~Stops(v, 2 * i - 1, b) /\ ~Starts(v, 2 * i, b)
    BY <2>1 DEF Start, Stop, Starts, Stops
  <2> QED
    BY <2>2, <2>3, <2>4
<1>8. \A i, j \in 1..k : Result(cs[i]) = Result(cs[j]) => i = j
  BY DEF Result, IsInjective
<1> HIDE DEF k, a, z
<1>9. \A b : b \in B <=> \E i \in 1..k : b = Result(cs[i])
  BY DEF ToSet, k
<1>10. Piece(v, B, B)
  <2>1. \A i \in DOMAIN v : (\E b \in B : Starts(v, i, b)) \/ (\E b \in B : Stops(v, i, b))
    <3> TAKE j \in DOMAIN v
    <3>1. PICK i \in 1..k : j = 2 * i - 1 \/ j = 2 * i
      BY <1>6
    <3>2. Result(cs[i]) \in B
      BY <1>9
    <3> QED
      BY <1>7, <3>1, <3>2
  <2>2. ASSUME NEW b \in B, NEW i \in DOMAIN v, NEW j \in DOMAIN v
        PROVE  /\ Starts(v, i, b) /\ Starts(v, j, b) => i = j
               /\ Stops(v, i, b) /\ Stops(v, j, b) => i = j
               /\ Starts(v, i, b) /\ Stops(v, j, b) => i < j
    <3>1. PICK x \in 1..k : i = 2 * x - 1 \/ i = 2 * x
      BY <1>6
    <3>2. PICK y \in 1..k : j = 2 * y - 1 \/ j = 2 * y
      BY <1>6
    <3>3. x \in Nat /\ y \in Nat
      BY <1>1
    <3>4. CASE Starts(v, i, b) /\ Starts(v, j, b)
      BY <1>7, <1>8, <3>1, <3>2, <3>3, <3>4
    <3>5. CASE Stops(v, i, b) /\ Stops(v, j, b)
      BY <1>7, <1>8, <3>1, <3>2, <3>3, <3>5
    <3>6. CASE Starts(v, i, b) /\ Stops(v, j, b)
      <4>1. i = 2 * x - 1 /\ j = 2 * y /\ x = y
        BY <1>7, <1>8, <3>1, <3>2, <3>6
      <4>2. i # j
        BY <1>7, <3>6, <4>1
      <4> QED
        BY <3>3, <3>6, <4>1, <4>2, <1>7
    <3> QED
      BY <3>4, <3>5, <3>6
  <2>3. ASSUME NEW b \in B
        PROVE  /\ \E i \in DOMAIN v : Starts(v, i, b)
               /\ \E i \in DOMAIN v : Stops(v, i, b)
    <3>1. PICK i \in 1..k : b = Result(cs[i])
      BY <1>9
    <3>2. 2 * i - 1 \in DOMAIN v /\ 2 * i \in DOMAIN v
      BY <1>5
    <3>3. Starts(v, 2 * i - 1, b) /\ Stops(v, 2 * i, b)
      BY <1>7, <3>1
    <3> QED
      BY <3>2, <3>3
  <2> QED
    BY <1>3, <2>1, <2>2, <2>3 DEF Piece
<1> QED
  BY <1>3, <1>4, <1>10 DEF k

-----------------------------------------------------------------------------
(* A step puts a piece behind the wire.                                    *)

(* Every block is started at most once, stopped at most once, and stopped  *)
(* only behind its start.                                                  *)
Once ==
    /\ wire \in Seq(Event)
    /\ \A b \in Block : \A i, j \in DOMAIN wire : Starts(wire, i, b) /\ Starts(wire, j, b) => i = j
    /\ \A b \in Block : \A i, j \in DOMAIN wire : Stops(wire, i, b) /\ Stops(wire, j, b) => i = j
    /\ \A b \in Block : \A j \in DOMAIN wire : Stops(wire, j, b)
          => \E i \in DOMAIN wire : i < j /\ Starts(wire, i, b)

(* The blocks started and stopped, by their events.                        *)
LEMMA StartedStopped ==
    /\ \A b : b \in Started <=> \E i \in DOMAIN wire : Starts(wire, i, b)
    /\ \A b : b \in Stopped <=> \E i \in DOMAIN wire : Stops(wire, i, b)
  BY DEF Started, Stopped, Positions, Starts, Stops

(* The same in the next state.                                             *)
LEMMA StartedStoppedNext ==
    /\ \A b : b \in Started' <=> \E i \in DOMAIN wire' : Starts(wire', i, b)
    /\ \A b : b \in Stopped' <=> \E i \in DOMAIN wire' : Stops(wire', i, b)
  BY DEF Started, Stopped, Positions, Starts, Stops

(* Only blocks are started or stopped.                                     *)
LEMMA BlocksOfEvents ==
    ASSUME NEW w \in Seq(Event), NEW i \in DOMAIN w, NEW b,
           Starts(w, i, b) \/ Stops(w, i, b)
    PROVE  b \in Block
<1>1. w[i] \in Event
  OBVIOUS
<1> QED
  BY <1>1 DEF Event, Starts, Stops

(* Where the events of a piece are, once it is behind the wire.            *)
IsBehind(v, w, x) == w \in Seq(Event) /\ v \in Seq(Event) /\ x = w \o v

(* The longer wire has the old events in their places, and the new ones    *)
(* behind.                                                                 *)
LEMMA Behind ==
    ASSUME NEW v, NEW w, NEW x, IsBehind(v, w, x)
    PROVE  /\ x \in Seq(Event) /\ Len(x) = Len(w) + Len(v)
           /\ \A i \in DOMAIN w : i \in DOMAIN x /\ x[i] = w[i]
           /\ \A i \in DOMAIN v : Len(w) + i \in DOMAIN x /\ x[Len(w) + i] = v[i]
           /\ \A j \in DOMAIN x : j \in DOMAIN w \/ \E i \in DOMAIN v : j = Len(w) + i
           /\ \A i \in DOMAIN w, j \in DOMAIN v : i < Len(w) + j
           /\ \A i, j \in DOMAIN v : i < j <=> Len(w) + i < Len(w) + j
           /\ \A i, j \in DOMAIN v : i = j <=> Len(w) + i = Len(w) + j
<1> USE DEF IsBehind
<1>1. /\ x \in Seq(Event) /\ Len(x) = Len(w) + Len(v)
      /\ \A i \in 1..Len(x) : x[i] = IF i <= Len(w) THEN w[i] ELSE v[i - Len(w)]
  BY ConcatProperties
<1>2. DOMAIN w = 1..Len(w) /\ DOMAIN v = 1..Len(v) /\ DOMAIN x = 1..(Len(w) + Len(v))
  BY <1>1
<1>3. Len(w) \in Nat /\ Len(v) \in Nat
  OBVIOUS
<1>4. \A i \in DOMAIN w : i \in DOMAIN x /\ x[i] = w[i]
  BY <1>1, <1>2, <1>3
<1>5. ASSUME NEW i \in DOMAIN v PROVE Len(w) + i \in DOMAIN x /\ x[Len(w) + i] = v[i]
  <2>1. Len(w) + i \in 1..Len(x) /\ ~(Len(w) + i <= Len(w)) /\ (Len(w) + i) - Len(w) = i
    BY <1>1, <1>2, <1>3
  <2> QED
    BY <1>1, <1>2, <2>1
<1>6. ASSUME NEW j \in DOMAIN x PROVE j \in DOMAIN w \/ \E i \in DOMAIN v : j = Len(w) + i
  <2>1. CASE j <= Len(w)
    BY <1>2, <1>3, <2>1
  <2>2. CASE ~(j <= Len(w))
    <3>1. j - Len(w) \in DOMAIN v /\ j = Len(w) + (j - Len(w))
      BY <1>2, <1>3, <2>2
    <3> QED
      BY <3>1
  <2> QED
    BY <2>1, <2>2
<1>7. \A i \in DOMAIN w, j \in DOMAIN v : i < Len(w) + j
  BY <1>2, <1>3
<1>8. \A i, j \in DOMAIN v : /\ i < j <=> Len(w) + i < Len(w) + j
                             /\ i = j <=> Len(w) + i = Len(w) + j
  BY <1>2, <1>3
<1> QED
  BY <1>1, <1>4, <1>5, <1>6, <1>7, <1>8

Puts(v, B, E) ==
    /\ Piece(v, B, E) /\ wire' = wire \o v
    /\ B \cap Started = {} /\ E \cap Stopped = {} /\ E \subseteq Started \cup B

(* The starts and the stops of the longer wire.                            *)
LEMMA PutsStarts ==
    ASSUME Once, NEW v, NEW B, NEW E, Puts(v, B, E)
    PROVE  /\ wire' \in Seq(Event)
           /\ \A b : \A i \in DOMAIN wire : /\ Starts(wire', i, b) <=> Starts(wire, i, b)
                                            /\ Stops(wire', i, b) <=> Stops(wire, i, b)
           /\ \A b : \A i \in DOMAIN v : /\ Starts(wire', Len(wire) + i, b) <=> Starts(v, i, b)
                                         /\ Stops(wire', Len(wire) + i, b) <=> Stops(v, i, b)
           /\ Started' = Started \cup B /\ Stopped' = Stopped \cup E
<1>1. IsBehind(v, wire, wire')
  BY DEF IsBehind, Once, Puts, Piece
<1>2. /\ wire' \in Seq(Event)
      /\ \A i \in DOMAIN wire : i \in DOMAIN wire' /\ wire'[i] = wire[i]
      /\ \A i \in DOMAIN v : Len(wire) + i \in DOMAIN wire' /\ wire'[Len(wire) + i] = v[i]
      /\ \A j \in DOMAIN wire' : j \in DOMAIN wire \/ \E i \in DOMAIN v : j = Len(wire) + i
  BY <1>1, Behind
<1>3. \A b : \A i \in DOMAIN wire : /\ Starts(wire', i, b) <=> Starts(wire, i, b)
                                    /\ Stops(wire', i, b) <=> Stops(wire, i, b)
  BY <1>2 DEF Starts, Stops
<1>4. \A b : \A i \in DOMAIN v : /\ Starts(wire', Len(wire) + i, b) <=> Starts(v, i, b)
                                 /\ Stops(wire', Len(wire) + i, b) <=> Stops(v, i, b)
  BY <1>2 DEF Starts, Stops
<1>5. \A b, i : ~(Starts(v, i, b) /\ \E c : Stops(v, i, c))
  BY DEF Starts, Stops
<1>6. \A b, c, i : (Starts(v, i, b) /\ Starts(v, i, c)) \/ (Stops(v, i, b) /\ Stops(v, i, c))
          => b = c
  BY DEF Starts, Stops
<1>7. /\ \A b : (\E i \in DOMAIN v : Starts(v, i, b)) <=> b \in B
      /\ \A b : (\E i \in DOMAIN v : Stops(v, i, b)) <=> b \in E
  <2>1. \A i \in DOMAIN v : (\E b \in B : Starts(v, i, b)) \/ (\E b \in E : Stops(v, i, b))
    BY DEF Puts, Piece
  <2>2. /\ \A b \in B : \E i \in DOMAIN v : Starts(v, i, b)
        /\ \A b \in E : \E i \in DOMAIN v : Stops(v, i, b)
    BY DEF Puts, Piece
  <2>3. \A b : \A i \in DOMAIN v : Starts(v, i, b) => b \in B
    BY <1>5, <1>6, <2>1
  <2>4. \A b : \A i \in DOMAIN v : Stops(v, i, b) => b \in E
    BY <1>5, <1>6, <2>1
  <2> QED
    BY <2>2, <2>3, <2>4
<1>8. \A b : b \in Started' <=> b \in Started \cup B
  BY <1>2, <1>3, <1>4, <1>7, StartedStopped, StartedStoppedNext
<1>9. \A b : b \in Stopped' <=> b \in Stopped \cup E
  BY <1>2, <1>3, <1>4, <1>7, StartedStopped, StartedStoppedNext
<1> QED
  BY <1>2, <1>3, <1>4, <1>8, <1>9

(* A new piece keeps every block to one start and one stop behind it.      *)
LEMMA PutsKeepsOnce ==
    ASSUME Once, NEW v, NEW B, NEW E, Puts(v, B, E)
    PROVE  Once'
<1>1. IsBehind(v, wire, wire')
  BY DEF IsBehind, Once, Puts, Piece
<1> DEFINE n == Len(wire)
<1>2. /\ \A i \in DOMAIN wire : i \in DOMAIN wire'
      /\ \A i \in DOMAIN v : n + i \in DOMAIN wire'
      /\ \A j \in DOMAIN wire' : j \in DOMAIN wire \/ \E i \in DOMAIN v : j = n + i
      /\ \A i \in DOMAIN wire, j \in DOMAIN v : i < n + j
      /\ \A i, j \in DOMAIN v : i < j <=> n + i < n + j
  BY <1>1, Behind
<1>3. /\ wire' \in Seq(Event)
      /\ \A b : \A i \in DOMAIN wire : /\ Starts(wire', i, b) <=> Starts(wire, i, b)
                                       /\ Stops(wire', i, b) <=> Stops(wire, i, b)
      /\ \A b : \A i \in DOMAIN v : /\ Starts(wire', n + i, b) <=> Starts(v, i, b)
                                    /\ Stops(wire', n + i, b) <=> Stops(v, i, b)
  BY PutsStarts
<1> HIDE DEF n
<1>4. /\ \A b : (\E i \in DOMAIN v : Starts(v, i, b)) => b \in B
      /\ \A b : (\E i \in DOMAIN v : Stops(v, i, b)) => b \in E
  BY DEF Puts, Piece, Starts, Stops
<1>5. ASSUME NEW b \in Block, NEW i \in DOMAIN wire', NEW j \in DOMAIN wire',
             Starts(wire', i, b), Starts(wire', j, b)
      PROVE  i = j
  <2>1. CASE b \in B
    <3>1. i \notin DOMAIN wire /\ j \notin DOMAIN wire
      BY <1>3, <1>5, <2>1, StartedStopped DEF Puts
    <3>2. PICK k \in DOMAIN v : i = n + k
      BY <1>2, <3>1
    <3>3. PICK l \in DOMAIN v : j = n + l
      BY <1>2, <3>1
    <3>4. k = l
      BY <1>3, <1>5, <2>1, <3>2, <3>3 DEF Puts, Piece
    <3> QED
      BY <3>2, <3>3, <3>4
  <2>2. CASE b \notin B
    <3>1. i \in DOMAIN wire /\ j \in DOMAIN wire
      BY <1>2, <1>3, <1>4, <1>5, <2>2
    <3> QED
      BY <1>3, <1>5, <3>1 DEF Once
  <2> QED
    BY <2>1, <2>2
<1>6. ASSUME NEW b \in Block, NEW i \in DOMAIN wire', NEW j \in DOMAIN wire',
             Stops(wire', i, b), Stops(wire', j, b)
      PROVE  i = j
  <2>1. CASE b \in E
    <3>1. i \notin DOMAIN wire /\ j \notin DOMAIN wire
      BY <1>3, <1>6, <2>1, StartedStopped DEF Puts
    <3>2. PICK k \in DOMAIN v : i = n + k
      BY <1>2, <3>1
    <3>3. PICK l \in DOMAIN v : j = n + l
      BY <1>2, <3>1
    <3>4. k = l
      BY <1>3, <1>6, <2>1, <3>2, <3>3 DEF Puts, Piece
    <3> QED
      BY <3>2, <3>3, <3>4
  <2>2. CASE b \notin E
    <3>1. i \in DOMAIN wire /\ j \in DOMAIN wire
      BY <1>2, <1>3, <1>4, <1>6, <2>2
    <3> QED
      BY <1>3, <1>6, <3>1 DEF Once
  <2> QED
    BY <2>1, <2>2
<1>7. ASSUME NEW b \in Block, NEW j \in DOMAIN wire', Stops(wire', j, b)
      PROVE  \E i \in DOMAIN wire' : i < j /\ Starts(wire', i, b)
  <2>1. CASE j \in DOMAIN wire
    BY <1>2, <1>3, <1>7, <2>1 DEF Once
  <2>2. CASE j \notin DOMAIN wire
    <3>1. PICK l \in DOMAIN v : j = n + l
      BY <1>2, <2>2
    <3>2. Stops(v, l, b) /\ b \in E
      BY <1>3, <1>4, <1>7, <3>1
    <3>3. CASE b \in B
      <4>1. PICK k \in DOMAIN v : Starts(v, k, b)
        BY <3>3 DEF Puts, Piece
      <4>2. k < l
        BY <3>2, <3>3, <4>1 DEF Puts, Piece
      <4>3. n + k \in DOMAIN wire' /\ n + k < j /\ Starts(wire', n + k, b)
        BY <1>2, <1>3, <3>1, <4>1, <4>2
      <4> QED
        BY <4>3
    <3>4. CASE b \notin B
      <4>1. PICK i \in DOMAIN wire : Starts(wire, i, b)
        BY <3>2, <3>4, StartedStopped DEF Puts
      <4> QED
        BY <1>2, <1>3, <3>1, <4>1
    <3> QED
      BY <3>3, <3>4
  <2> QED
    BY <2>1, <2>2
<1> QED
  BY <1>3, <1>5, <1>6, <1>7 DEF Once

-----------------------------------------------------------------------------
(* What the actions put on the wire.                                       *)

(* The streamed blocks are shown one at a time, and a call whose task was  *)
(* created is closed.                                                      *)
Opened ==
    /\ open \in Started \cup {None}
    /\ Started \ Stopped = {open} \ {None}
    /\ \A c \in Call : open = Use(c) => task[c] = None

OneStart(v, b, n) == \A i \in DOMAIN v : v[i].event = "start" => v[i].block = b /\ v[i].index = n

(* Only what was started is stopped, and the open block is one of these.   *)
LEMMA StartedAreBlocks == Once => Started \subseteq Block /\ Stopped \subseteq Started
<1> SUFFICES ASSUME Once PROVE Started \subseteq Block /\ Stopped \subseteq Started
  OBVIOUS
<1>1. \A b \in Started \cup Stopped : b \in Block
  BY StartedStopped, BlocksOfEvents DEF Once
<1>2. \A b \in Stopped : b \in Started
  BY <1>1, StartedStopped DEF Once
<1> QED
  BY <1>1, <1>2

(* The open block was started and not stopped.                             *)
LEMMA OpenIsStarted == Once /\ Opened =>
    open = None \/ (open \in Block /\ open \in Started /\ open \notin Stopped /\ open # None)
  BY StartedAreBlocks DEF Opened

(* A step may put nothing.                                                 *)
LEMMA PutsNothing == Once /\ wire' = wire => Puts(<<>>, {}, {})
  BY NoPiece, ConcatEmptySeq DEF Once, Puts

(* The stop of the open block.                                             *)
LEMMA PutsClosing ==
    ASSUME Once, Opened, wire' = wire \o Closing(open)
    PROVE  \E v : Puts(v, {}, {open} \ {None}) /\ \A i \in DOMAIN v : v[i].event = "stop"
<1>1. CASE open = None
  <2>1. {open} \ {None} = {} /\ wire' = wire \o <<>> /\ DOMAIN <<>> = {}
    BY <1>1 DEF Closing
  <2>2. Puts(<<>>, {}, {})
    BY <2>1, NoPiece DEF Puts
  <2> QED
    BY <2>1, <2>2
<1>2. CASE open # None
  <2> DEFINE v == <<Stop(open)>>
  <2>1. open \in Block /\ open \in Started /\ open \notin Stopped
    BY <1>2, OpenIsStarted
  <2>2. /\ Piece(v, {}, {open}) /\ wire' = wire \o v
        /\ \A i \in DOMAIN v : v[i].event = "stop"
    BY <1>2, <2>1, StopPiece DEF Closing, Stop
  <2> HIDE DEF v
  <2>3. Puts(v, {}, {open})
    BY <2>1, <2>2 DEF Puts
  <2>4. {open} \ {None} = {open}
    BY <1>2
  <2> QED
    BY <2>2, <2>3, <2>4
<1> QED
  BY <1>1, <1>2

(* Emit puts a block behind the one it closes.                             *)
LEMMA PutsNext ==
    ASSUME Once, Opened, index \in Nat, NEW b \in Block, b \notin Started,
           wire' = wire \o Closing(open) \o <<Start(b, index)>> \o <<>>
    PROVE  \E v : Puts(v, {b}, {open} \ {None}) /\ OneStart(v, b, index)
<1>1. Start(b, index) \in Event /\ wire \in Seq(Event)
  BY Events DEF Once
<1>2. CASE open = None
  <2> DEFINE v == <<Start(b, index)>>
  <2>1. {open} \ {None} = {} /\ Closing(open) = <<>>
    BY <1>2 DEF Closing
  <2>2. wire' = wire \o v
    BY <1>1, <2>1
  <2>3. Piece(v, {b}, {}) /\ OneStart(v, b, index)
    BY StartPiece DEF OneStart, Start
  <2> HIDE DEF v
  <2> QED
    BY <2>1, <2>2, <2>3 DEF Puts
<1>3. CASE open # None
  <2> DEFINE v == <<Stop(open), Start(b, index)>>
  <2>1. open \in Block /\ open \in Started /\ open \notin Stopped
    BY <1>3, OpenIsStarted
  <2>2. {open} \ {None} = {open} /\ Closing(open) = <<Stop(open)>> /\ Stop(open) \in Event
    BY <1>3, <2>1, Events DEF Closing
  <2>3. wire' = wire \o v
    BY <1>1, <2>2
  <2>4. Piece(v, {b}, {open})
    BY <2>1, TwoEvents
  <2>5. OneStart(v, b, index)
    <3>1. DOMAIN v = {1, 2} /\ v[1].event = "stop" /\ v[2] = Start(b, index)
      BY DEF Stop
    <3> HIDE DEF v
    <3> QED
      BY <3>1 DEF OneStart, Start
  <2> HIDE DEF v
  <2> QED
    BY <2>1, <2>2, <2>3, <2>4, <2>5 DEF Puts
<1> QED
  BY <1>2, <1>3

(* A block is put whole.                                                   *)
LEMMA PutsWhole ==
    ASSUME Once, index \in Nat, NEW b \in Block, b \notin Started,
           \/ wire' = wire \o <<Start(b, index), Stop(b)>>
           \/ wire' = wire \o <<>> \o <<Start(b, index)>> \o <<Stop(b)>>
    PROVE  \E v : Puts(v, {b}, {b}) /\ OneStart(v, b, index)
<1> DEFINE v == <<Start(b, index), Stop(b)>>
<1>1. Start(b, index) \in Event /\ Stop(b) \in Event /\ wire \in Seq(Event)
  BY Events DEF Once
<1>2. wire' = wire \o v
  BY <1>1, OneAndOne
<1>3. Piece(v, {b}, {b})
  BY TwoEvents
<1>4. OneStart(v, b, index)
  <2>1. DOMAIN v = {1, 2} /\ v[1] = Start(b, index) /\ v[2].event = "stop"
    BY DEF Stop
  <2> HIDE DEF v
  <2> QED
    BY <2>1 DEF OneStart, Start
<1>5. b \notin Stopped
  BY StartedAreBlocks
<1> HIDE DEF v
<1> QED
  BY <1>2, <1>3, <1>4, <1>5 DEF Puts

-----------------------------------------------------------------------------
(* The invariant of the wire and the calls.                                *)

(* Blocks of different sorts, or of different calls, differ.               *)
LEMMA Tags ==
    /\ \A m, n : Text(m) # Extra(n) /\ Text(m) # Use(n) /\ Text(m) # Result(n)
    /\ \A m, n : Extra(m) # Use(n) /\ Extra(m) # Result(n) /\ Use(m) # Result(n)
    /\ \A m, n : /\ Text(m) = Text(n) => m = n
                 /\ Extra(m) = Extra(n) => m = n
                 /\ Use(m) = Use(n) => m = n
                 /\ Result(m) = Result(n) => m = n
    /\ \A m : /\ Text(m)[1] = "text" /\ Extra(m)[1] = "extra"
              /\ Use(m)[1] = "use" /\ Result(m)[1] = "result"
  BY DEF Text, Extra, Use, Result

(* The four sorts of blocks.                                               *)
LEMMA TheBlocks ==
    /\ \A n \in 0..Texts : Text(n) \in Block
    /\ \A n \in 0..Extras : Extra(n) \in Block
    /\ \A c \in Call : Use(c) \in Block /\ Result(c) \in Block
    /\ \A b \in Block : \/ \E n \in 0..Texts : b = Text(n)
                        \/ \E n \in 0..Extras : b = Extra(n)
                        \/ \E c \in Call : b = Use(c) \/ b = Result(c)
  BY DEF Block

(* The blocks are named in turn, and tell what became of a call.           *)
Named ==
    /\ \E n \in 0..Texts : \A m \in Nat : Text(m) \in Started <=> m < n
    /\ \E n \in 0..Extras : \A m \in Nat : Extra(m) \in Started <=> m < n
    /\ \A c \in Call : Use(c) \in Started <=> kind[c] # None
    /\ \A c \in Call : Result(c) \in Started => task[c] = "answered"
    /\ \A c \in Call : task[c] = "answered" /\ pc # "raised" => Result(c) \in Started

(* Whoever has to answer a call does, and the reason of the end says so.   *)
CallStates ==
    /\ IsInjective(calls)
    /\ \A c \in Call : task[c] = "answered" => kind[c] # "client"
    /\ \A c \in Call : task[c] = "passed" => kind[c] = "client"
    /\ \A c \in Call : task[c] = "dropped" => pc = "raised"
    /\ \A c \in Call : kind[c] # None /\ task[c] = None
          => pc \in {"stream", "raised"} /\ open = Use(c)
    /\ \A c \in Call : pc = "stream" /\ open = Use(c)
          => calls # <<>> /\ calls[Len(calls)] = c
    /\ pc \in {"before", "stream", "fold", "gather", "waiting"}
          => \A c \in Call : task[c] = "passed" => c \in ToSet(calls)
    /\ pc \in {"loop", "before", "after"} => \A c \in Call : task[c] # "passed"

Reasons ==
    /\ pc \notin {"close", "completed", "raised"} => reason = None
    /\ pc \in {"gather", "waiting", "after"} => calls # <<>>
    /\ reason \in StopReason \cup {None}
    /\ pc \in {"close", "completed"} =>
          /\ (\E c \in Call : task[c] = "passed") => reason = "tool_use"
          /\ calls # <<>> /\ (\A c \in Call : task[c] # "passed")
                => reason = "max_tokens" /\ asked = MaxIterations

(* The number of the blocks of a sort.                                     *)
LEMMA NumberIs ==
    ASSUME NEW what, NEW n \in Nat,
           \A b : b \in Started /\ b[1] = what <=> \E m \in 0..(n - 1) : b = <<what, m>>
    PROVE  Number(what) = n
<1> DEFINE S == {b \in Started : b[1] = what}
<1> DEFINE f == [m \in 0..(n - 1) |-> <<what, m>>]
<1>1. \A b : b \in S <=> \E m \in 0..(n - 1) : b = <<what, m>>
  OBVIOUS
<1>2. f \in [0..(n - 1) -> S]
  BY <1>1
<1>3. \A m, k \in 0..(n - 1) : f[m] = f[k] => m = k
  OBVIOUS
<1>4. \A b \in S : \E m \in 0..(n - 1) : f[m] = b
  BY <1>1
<1> HIDE DEF f, S
<1>5. ExistsBijection(0..(n - 1), S)
  BY <1>2, <1>3, <1>4 DEF ExistsBijection, Bijection, Injection, Surjection, IsInjective
<1>6. IsFiniteSet(0..(n - 1)) /\ Cardinality(0..(n - 1)) = n
  <2>1. 0 \in Int /\ n - 1 \in Int
    OBVIOUS
  <2>2. /\ IsFiniteSet(0..(n - 1))
        /\ Cardinality(0..(n - 1)) = IF 0 > n - 1 THEN 0 ELSE (n - 1) - 0 + 1
    BY <2>1, FS_Interval
  <2>3. (IF 0 > n - 1 THEN 0 ELSE (n - 1) - 0 + 1) = n
    OBVIOUS
  <2> QED
    BY <2>2, <2>3
<1>7. Cardinality(S) = n
  BY <1>5, <1>6, FS_Bijection
<1> QED
  BY <1>7 DEF S, Number

(* The next text, and the next block of an interceptor, are new.           *)
LEMMA NextNames ==
    ASSUME Once, Named
    PROVE  /\ Number("text") \in 0..Texts /\ Number("extra") \in 0..Extras
           /\ \A m \in Nat : Text(m) \in Started <=> m < Number("text")
           /\ \A m \in Nat : Extra(m) \in Started <=> m < Number("extra")
<1>1. PICK t \in 0..Texts : \A m \in Nat : Text(m) \in Started <=> m < t
  BY DEF Named
<1>2. PICK x \in 0..Extras : \A m \in Nat : Extra(m) \in Started <=> m < x
  BY DEF Named
<1>3. t \in Nat /\ x \in Nat /\ 0..Texts \subseteq Nat /\ 0..Extras \subseteq Nat
  BY BoundsAssumption
<1>4. Started \subseteq Block
  BY StartedAreBlocks
<1>5. ASSUME NEW b
      PROVE  b \in Started /\ b[1] = "text" <=> \E m \in 0..(t - 1) : b = <<"text", m>>
  <2>1. ASSUME b \in Started, b[1] = "text" PROVE \E m \in 0..(t - 1) : b = Text(m)
    <3>1. PICK m \in Nat : b = Text(m)
      BY <1>3, <1>4, <2>1, Tags, TheBlocks
    <3>2. m < t
      BY <1>1, <2>1, <3>1
    <3> QED
      BY <1>3, <3>1, <3>2
  <2>2. ASSUME NEW m \in 0..(t - 1), b = Text(m) PROVE b \in Started /\ b[1] = "text"
    BY <1>1, <1>3, <2>2, Tags
  <2> QED
    BY <2>1, <2>2 DEF Text
<1>6. ASSUME NEW b
      PROVE  b \in Started /\ b[1] = "extra" <=> \E m \in 0..(x - 1) : b = <<"extra", m>>
  <2>1. ASSUME b \in Started, b[1] = "extra" PROVE \E m \in 0..(x - 1) : b = Extra(m)
    <3>1. PICK m \in Nat : b = Extra(m)
      BY <1>3, <1>4, <2>1, Tags, TheBlocks
    <3>2. m < x
      BY <1>2, <2>1, <3>1
    <3> QED
      BY <1>3, <3>1, <3>2
  <2>2. ASSUME NEW m \in 0..(x - 1), b = Extra(m) PROVE b \in Started /\ b[1] = "extra"
    BY <1>2, <1>3, <2>2, Tags
  <2> QED
    BY <2>1, <2>2 DEF Extra
<1>7. Number("text") = t
  BY <1>3, <1>5, NumberIs
<1>8. Number("extra") = x
  BY <1>3, <1>6, NumberIs
<1> QED
  BY <1>1, <1>2, <1>7, <1>8

(* A call is answered, passed or handed out as its kind says, and its      *)
(* block is open as long as it has no task.                                *)
LEMMA CallStep == IndInv /\ Named /\ Opened /\ CallStates /\ Next => CallStates'
<1> SUFFICES ASSUME IndInv, Named, Opened, CallStates, Next PROVE CallStates'
  OBVIOUS
<1>0. \A c \in Call : open = Use(c) => kind[c] # None /\ task[c] = None
  BY TheBlocks, BlockAssumption DEF Named, Opened
<1> USE NoneAssumption DEF IndInv, Kind, TaskState
<1>1. CASE StartIteration
  BY <1>1 DEF StartIteration, CallStates, IsInjective
<1>2. CASE Exhausted
  BY <1>2 DEF Exhausted, CallStates, made
<1>3. CASE Inject
  BY <1>3 DEF Inject, CallStates, made
<1>4. CASE AskModel
  BY <1>0, <1>4 DEF AskModel, CallStates, made
<1>5. CASE StreamText
  BY <1>5, Tags DEF StreamText, CallStates, made
<1>6. CASE StreamBlank
  BY <1>6, Tags, TheBlocks, BlockAssumption DEF StreamBlank, CallStates, made
<1>7. CASE EndStream
  <2>1. /\ pc = "stream" /\ pc' = "fold" /\ kind' = kind /\ calls' = calls /\ open' = None
        /\ \A d \in Call : task'[d] = IF calls # <<>> /\ d = calls[Len(calls)]
                                    THEN "new" ELSE task[d]
    BY <1>7 DEF EndStream, Spawn, made, Tasks
  <2>2. calls # <<>> => calls[Len(calls)] \in Call
    BY DEF Gathered
  <2>3. \A d \in Call : kind'[d] # None => task'[d] # None
    BY <2>1 DEF CallStates
  <2>4. \A d \in Call : Use(d) # None
    BY TheBlocks, BlockAssumption
  <2> HIDE DEF Kind, TaskState
  <2> QED
    BY <2>1, <2>3, <2>4 DEF CallStates
<1>8. CASE Fold
  BY <1>8 DEF Fold, CallStates, made
<1>9. CASE Gather
  BY <1>9 DEF Gather, Results, In, CallStates, ToSet, made
<1>10. CASE AfterIteration
  BY <1>10 DEF AfterIteration, CallStates, made
<1>11. CASE Resume
  BY <1>11 DEF Resume, ContinueTools, In, CallStates, Gathered, Out, Tasks, made
<1>12. CASE Close
  BY <1>12 DEF Close, CallStates, made
<1>13. CASE Abort
  BY <1>13 DEF Abort, CallStates, made
<1>14. ASSUME NEW c \in Call, OpenCall(c) PROVE CallStates'
  <2>1. /\ pc = "stream" /\ pc' = "stream" /\ calls' = Append(calls, c) /\ open' = Use(c)
        /\ kind[c] = None /\ kind'[c] # None
        /\ \A d \in Call : d # c => kind'[d] = kind[d]
        /\ \A d \in Call : task'[d] = IF calls # <<>> /\ d = calls[Len(calls)]
                                    THEN "new" ELSE task[d]
    BY <1>14 DEF OpenCall, ShowCall, Spawn, Tasks
  <2>2. /\ calls' # <<>> /\ calls'[Len(calls')] = c /\ calls' \in Seq(Call)
        /\ \A i \in DOMAIN calls : i \in DOMAIN calls' /\ calls'[i] = calls[i]
        /\ \A i \in DOMAIN calls' : i \in DOMAIN calls \/ (i = Len(calls) + 1 /\ calls'[i] = c)
    BY <2>1 DEF Gathered
  <2>3. \A i \in DOMAIN calls : calls[i] # c
    BY <2>1 DEF Gathered
  <2>4. calls # <<>> => calls[Len(calls)] \in Call /\ calls[Len(calls)] # c
    BY <2>3 DEF Gathered
  <2>5. task[c] = None /\ task'[c] = None
    BY <2>1, <2>4 DEF Tasks
  <2>6. IsInjective(calls')
    BY <2>2, <2>3 DEF CallStates, IsInjective
  <2>7. \A d \in Call : kind'[d] # None /\ task'[d] = None => open' = Use(d)
    <3> SUFFICES ASSUME NEW d \in Call, kind'[d] # None, task'[d] = None, d # c PROVE FALSE
      BY <2>1
    <3>1. kind[d] # None /\ task[d] = None /\ ~(calls # <<>> /\ d = calls[Len(calls)])
      BY <2>1
    <3> QED
      BY <2>1, <3>1 DEF CallStates
  <2>8. \A d \in Call : open' = Use(d) => d = c
    BY <2>1, Tags
  <2>9. \A d \in ToSet(calls) : d \in ToSet(calls')
    BY <2>2 DEF ToSet
  <2>10. \A d \in Call : task'[d] \in {"answered", "passed", "dropped"}
            => task[d] = task'[d] /\ d # c /\ kind'[d] = kind[d]
    BY <2>1, <2>5
  <2> HIDE DEF Kind, TaskState
  <2> QED
    BY <2>1, <2>2, <2>6, <2>7, <2>8, <2>9, <2>10 DEF CallStates
<1>15. ASSUME NEW c \in Call, Answer(c) PROVE CallStates'
  BY <1>15 DEF Answer, Becomes, CallStates, Gathered, Live, Tasks, made
<1>16. ASSUME NEW c \in Call, Pass(c) PROVE CallStates'
  BY <1>16 DEF Pass, Becomes, CallStates, Gathered, Live, Tasks, made
<1>17. ASSUME NEW c \in Call, Dispatch(c) PROVE CallStates'
  BY <1>17 DEF Dispatch, Becomes, CallStates, Tasks, made
<1>18. CASE Ended
  BY <1>18 DEF Ended, CallStates, vars, made
<1> QED
  BY <1>1, <1>2, <1>3, <1>4, <1>5, <1>6, <1>7, <1>8, <1>9, <1>10, <1>11, <1>12, <1>13, <1>14, <1>15, <1>16, <1>17, <1>18 DEF Next

(* The reason of the end is set once, from the tasks.                      *)
LEMMA ReasonStep == IndInv /\ CallStates /\ Reasons /\ Next => Reasons'
<1> SUFFICES ASSUME IndInv, CallStates, Reasons, Next PROVE Reasons'
  OBVIOUS
<1> USE NoneAssumption DEF IndInv, Kind, TaskState
<1>1. CASE StartIteration
  BY <1>1 DEF StartIteration, Reasons, history
<1>2. CASE Exhausted
  BY <1>2, BoundsAssumption DEF Exhausted, Reasons, StopReason, CallStates, Counted, made, history
<1>3. CASE Inject
  BY <1>3 DEF Inject, Becomes, Reasons, CallStates, Gathered, Live, Tasks, made, history
<1>4. CASE AskModel
  BY <1>4 DEF AskModel, Becomes, Reasons, CallStates, Gathered, Live, Tasks, made, history
<1>5. CASE StreamText
  BY <1>5 DEF StreamText, Becomes, Reasons, CallStates, Gathered, Live, Tasks, made, history
<1>6. CASE StreamBlank
  BY <1>6 DEF StreamBlank, Becomes, Reasons, CallStates, Gathered, Live, Tasks, made, history
<1>7. CASE EndStream
  BY <1>7 DEF EndStream, Reasons, made, history
<1>8. CASE Fold
  BY <1>8 DEF Fold, Reasons, StopReason, CallStates, ToSet, made, history
<1>9. CASE Gather
  <2>1. /\ pc = "gather" /\ pc' \in {"raised", "waiting", "close", "after"}
        /\ calls' = calls /\ task' = task
        /\ pc' = "close" => reason' = "tool_use" /\ In("passed") # {}
        /\ pc' # "close" => reason' = reason
    BY <1>9 DEF Gather, Results, made
  <2>2. In("passed") # {} => \E c \in Call : task[c] = "passed"
    BY DEF In, Gathered, ToSet
  <2> QED
    BY <2>1, <2>2 DEF Reasons, StopReason
<1>10. CASE AfterIteration
  BY <1>10 DEF AfterIteration, Reasons, made, history
<1>11. CASE Resume
  BY <1>11 DEF Resume, ContinueTools, In, Reasons, StopReason, CallStates, Gathered, Out, ToSet, Tasks, made, history
<1>12. CASE Close
  BY <1>12 DEF Close, Becomes, Reasons, CallStates, Gathered, Live, Tasks, made, history
<1>13. CASE Abort
  BY <1>13 DEF Abort, Reasons, made, history
<1>14. ASSUME NEW c \in Call, OpenCall(c) PROVE Reasons'
  BY <1>14 DEF OpenCall, ShowCall, Reasons, history
<1>15. ASSUME NEW c \in Call, Answer(c) PROVE Reasons'
  BY <1>15 DEF Answer, Becomes, Reasons, CallStates, Gathered, Live, Tasks, made, history
<1>16. ASSUME NEW c \in Call, Pass(c) PROVE Reasons'
  BY <1>16 DEF Pass, Becomes, Reasons, CallStates, Gathered, Live, Tasks, made, history
<1>17. ASSUME NEW c \in Call, Dispatch(c) PROVE Reasons'
  BY <1>17 DEF Dispatch, Becomes, Reasons, CallStates, Gathered, Live, Tasks, made, history
<1>18. CASE Ended
  BY <1>18 DEF Ended, Reasons, vars, made, history
<1> QED
  BY <1>1, <1>2, <1>3, <1>4, <1>5, <1>6, <1>7, <1>8, <1>9, <1>10, <1>11, <1>12, <1>13, <1>14, <1>15, <1>16, <1>17, <1>18 DEF Next

(* A result is shown only behind its call's block.                         *)
ResultsBehind ==
    \A c \in Call : \A i \in DOMAIN wire : Starts(wire, i, Result(c))
       => \E j \in DOMAIN wire : j < i /\ Stops(wire, j, Use(c))

WireInv == Once /\ ResultsBehind /\ Named /\ Opened

(* A new piece keeps the results behind their calls.                       *)
LEMMA PutsKeepsResults ==
    ASSUME Once, ResultsBehind, NEW v, NEW B, NEW E, Puts(v, B, E),
           \A c \in Call : Result(c) \in B => Use(c) \in Stopped
    PROVE  ResultsBehind'
<1>1. IsBehind(v, wire, wire')
  BY DEF IsBehind, Once, Puts, Piece
<1> DEFINE n == Len(wire)
<1>2. /\ \A i \in DOMAIN wire : i \in DOMAIN wire'
      /\ \A j \in DOMAIN wire' : j \in DOMAIN wire \/ \E i \in DOMAIN v : j = n + i
      /\ \A i \in DOMAIN wire, j \in DOMAIN v : i < n + j
  BY <1>1, Behind
<1>3. /\ \A b : \A i \in DOMAIN wire : /\ Starts(wire', i, b) <=> Starts(wire, i, b)
                                       /\ Stops(wire', i, b) <=> Stops(wire, i, b)
      /\ \A b : \A i \in DOMAIN v : Starts(wire', n + i, b) <=> Starts(v, i, b)
  BY PutsStarts
<1> HIDE DEF n
<1>4. \A b : (\E i \in DOMAIN v : Starts(v, i, b)) => b \in B
  BY DEF Puts, Piece, Starts, Stops
<1>5. ASSUME NEW c \in Call, NEW i \in DOMAIN wire', Starts(wire', i, Result(c))
      PROVE  \E j \in DOMAIN wire' : j < i /\ Stops(wire', j, Use(c))
  <2>1. CASE i \in DOMAIN wire
    BY <1>2, <1>3, <1>5, <2>1 DEF ResultsBehind
  <2>2. CASE i \notin DOMAIN wire
    <3>1. PICK k \in DOMAIN v : i = n + k
      BY <1>2, <2>2
    <3>2. Result(c) \in B
      BY <1>3, <1>4, <1>5, <3>1
    <3>3. PICK j \in DOMAIN wire : Stops(wire, j, Use(c))
      BY <3>2, StartedStopped
    <3> QED
      BY <1>2, <1>3, <3>1, <3>3
  <2> QED
    BY <2>1, <2>2
<1> QED
  BY <1>5 DEF ResultsBehind

(* What is answered stays answered, and no more is but by a run that       *)
(* raised.                                                                 *)
Answers ==
    /\ kind' = kind
    /\ \A c \in Call : task[c] = "answered" => task'[c] = "answered"
    /\ \A c \in Call : task'[c] = "answered" => task[c] = "answered" \/ pc' = "raised"
    /\ pc = "raised" => pc' = "raised"

(* A step that leaves the wire and the tasks of the open block alone.      *)
LEMMA WireRests ==
    ASSUME WireInv, Answers, wire' = wire, open' = open,
           \A c \in Call : open = Use(c) /\ task[c] = None => task'[c] = None
    PROVE  WireInv'
<1> USE DEF WireInv
<1>1. Started' = Started /\ Stopped' = Stopped
  BY DEF Started, Stopped, Positions
<1>2. Once' /\ ResultsBehind'
  BY DEF Once, ResultsBehind
<1>3. Named'
  BY <1>1 DEF Named, Answers
<1>4. Opened'
  BY <1>1 DEF Opened
<1> QED
  BY <1>2, <1>3, <1>4

(* A step that closes the open block.                                      *)
LEMMA WireCloses ==
    ASSUME WireInv, Answers, wire' = wire \o Closing(open), open' = None
    PROVE  WireInv'
<1> USE DEF WireInv
<1>1. PICK v : Puts(v, {}, {open} \ {None})
  BY PutsClosing
<1>2. Once' /\ ResultsBehind'
  BY <1>1, PutsKeepsOnce, PutsKeepsResults
<1>3. Started' = Started /\ Stopped' = Stopped \cup ({open} \ {None})
  <2>1. Started' = Started \cup {} /\ Stopped' = Stopped \cup ({open} \ {None})
    BY <1>1, PutsStarts
  <2>2. Started \cup {} = Started
    OBVIOUS
  <2> QED
    BY <2>1, <2>2
<1>4. Named'
  BY <1>3 DEF Named, Answers
<1>5. Opened'
  BY <1>3, TheBlocks, BlockAssumption DEF Opened
<1> QED
  BY <1>2, <1>4, <1>5

(* A step that opens a block of the engine, and closes the one before it.  *)
LEMMA WireOpens ==
    ASSUME WireInv, index \in Nat, NEW b \in Block, b \notin Started,
           wire' = wire \o Closing(open) \o <<Start(b, index)>> \o <<>>, open' = b,
           \A c \in Call : b # Result(c)
    PROVE  /\ Once' /\ ResultsBehind' /\ Started' = Started \cup {b}
           /\ open' \in Started' /\ Started' \ Stopped' = {open'} \ {None}
<1> USE DEF WireInv
<1>1. PICK v : Puts(v, {b}, {open} \ {None})
  BY PutsNext
<1>2. Once' /\ ResultsBehind'
  BY <1>1, PutsKeepsOnce, PutsKeepsResults
<1>3. Started' = Started \cup {b} /\ Stopped' = Stopped \cup ({open} \ {None})
  BY <1>1, PutsStarts
<1>4. b # None /\ b # open
  BY BlockAssumption, OpenIsStarted
<1>5. b \notin Stopped
  BY StartedAreBlocks
<1> QED
  BY <1>2, <1>3, <1>4, <1>5 DEF Opened

(* A step that puts whole blocks.                                          *)
LEMMA WireWhole ==
    ASSUME WireInv, NEW v, NEW B, Puts(v, B, B), open' = open,
           \A c \in Call : Result(c) \in B => Use(c) \in Stopped,
           \A c \in Call : open = Use(c) => task'[c] = None
    PROVE  Once' /\ ResultsBehind' /\ Started' = Started \cup B /\ Opened'
<1> USE DEF WireInv
<1>1. Once' /\ ResultsBehind'
  BY PutsKeepsOnce, PutsKeepsResults
<1>2. Started' = Started \cup B /\ Stopped' = Stopped \cup B
  BY PutsStarts
<1>3. open = None \/ open \notin B
  BY OpenIsStarted DEF Puts
<1>4. Opened'
  BY <1>2, <1>3 DEF Opened
<1> QED
  BY <1>1, <1>2, <1>4

(* The call of a task was shown whole.                                     *)
LEMMA TaskShown ==
    ASSUME WireInv, Tasks, NEW c \in Call, task[c] # None
    PROVE  Use(c) \in Stopped
<1>1. Use(c) \in Started
  BY DEF WireInv, Named, Tasks
<1>2. Use(c) # open
  BY DEF WireInv, Opened
<1> QED
  BY <1>1, <1>2 DEF WireInv, Opened

(* The runner's answers are those of all pending calls, each once.         *)
LEMMA ResponsesOfAll ==
    IndInv /\ CallStates /\ pc = "waiting" =>
       Responses \in Seq(Call) /\ IsInjective(Responses) /\ ToSet(Responses) = pending
<1> SUFFICES ASSUME IndInv, CallStates, pc = "waiting"
             PROVE  Responses \in Seq(Call) /\ IsInjective(Responses) /\ ToSet(Responses) = pending
  OBVIOUS
<1>1. calls \in Seq(Call) /\ IsInjective(calls) /\ pending = Out
  BY DEF IndInv, Gathered, CallStates
<1>2. Responses = FlattenSeq(Chosen(calls, pending))
  BY DEF Responses, Chosen
<1>3. /\ Responses \in Seq(Call) /\ ToSet(Responses) = ToSet(calls) \cap pending
      /\ IsInjective(calls) => IsInjective(Responses)
  BY <1>1, <1>2, ChosenFlat
<1>4. pending \subseteq ToSet(calls)
  BY <1>1 DEF IndInv, Gathered, Live, Out
<1> QED
  BY <1>1, <1>3, <1>4

(* The run that resumes puts the results of the pause.                     *)
LEMMA ResumePuts ==
    ASSUME IndInv, CallStates, WireInv, count \in Nat, Resume
    PROVE  LET B == {Result(c) : c \in pending}
               v == ResultBlocks(Responses, count) IN
           /\ Puts(v, B, B) /\ Len(v) = 2 * Len(Responses)
           /\ \A i \in 1..Len(Responses) :
                 /\ v[2 * i - 1] = Start(Result(Responses[i]), count + i - 1)
                 /\ v[2 * i] = Stop(Result(Responses[i]))
<1> DEFINE B == {Result(c) : c \in pending}
<1> DEFINE v == ResultBlocks(Responses, count)
<1>1. pc = "waiting" /\ pending = Out /\ wire' = wire \o v
  BY DEF Resume, ContinueTools, IndInv, Gathered
<1>2. Responses \in Seq(Call) /\ IsInjective(Responses) /\ ToSet(Responses) = pending
  BY <1>1, ResponsesOfAll
<1>3. B = {Result(c) : c \in ToSet(Responses)}
  BY <1>2
<1> HIDE DEF B
<1>4. /\ Piece(v, B, B) /\ Len(v) = 2 * Len(Responses)
      /\ \A i \in 1..Len(Responses) :
            /\ v[2 * i - 1] = Start(Result(Responses[i]), count + i - 1)
            /\ v[2 * i] = Stop(Result(Responses[i]))
  BY <1>2, <1>3, ResultsPiece
<1>5. B \cap Started = {}
  <2>1. ASSUME NEW c \in pending PROVE Result(c) \notin Started
    BY <1>1 DEF WireInv, Named, Out
  <2> QED
    BY <2>1 DEF B
<1>6. B \cap Stopped = {}
  BY <1>5, StartedAreBlocks DEF WireInv
<1> HIDE DEF v
<1>7. Puts(v, B, B)
  BY <1>1, <1>4, <1>5, <1>6 DEF Puts
<1> QED
  BY <1>4, <1>7 DEF v, B

(* The blocks a client sees, step by step.                                 *)
LEMMA WireStep ==
    IndInv /\ CallStates /\ WireInv /\ count \in Nat /\ index \in Nat /\ Next => WireInv'
<1> SUFFICES ASSUME IndInv, CallStates, WireInv, count \in Nat, index \in Nat, Next
             PROVE  WireInv'
  OBVIOUS
<1> USE NoneAssumption DEF IndInv, Kind, TaskState, WireInv
<1>1. CASE StartIteration
  BY <1>1, WireRests DEF StartIteration, Answers
<1>2. CASE Exhausted
  BY <1>2, WireRests DEF Exhausted, Answers, stream, made
<1>3. CASE Inject
  <2> DEFINE x == Number("extra")
  <2> DEFINE b == Extra(x)
  <2>1. /\ x \in 0..Extras /\ x < Extras /\ b \in Block /\ b \notin Started
        /\ \A m \in Nat : Extra(m) \in Started <=> m < x
    BY <1>3, NextNames, TheBlocks, BoundsAssumption DEF Inject
  <2>2. /\ wire' = wire \o <<Start(b, index), Stop(b)>> /\ open' = open /\ pc' = pc
        /\ kind' = kind /\ task' = task
    BY <1>3 DEF Inject, made
  <2> HIDE DEF x
  <2>3. PICK v : Puts(v, {b}, {b})
    BY <2>1, <2>2, PutsWhole
  <2>4. \A c \in Call : Result(c) \notin {b} /\ Use(c) \notin {b} /\ \A m : Text(m) \notin {b}
    BY Tags
  <2>5. Once' /\ ResultsBehind' /\ Started' = Started \cup {b} /\ Opened'
    BY <2>2, <2>3, <2>4, WireWhole DEF Opened
  <2>6. \A m \in Nat : Extra(m) \in Started' <=> m < x + 1
    BY <2>1, <2>5, Tags, BoundsAssumption
  <2>7. x + 1 \in 0..Extras
    BY <2>1, BoundsAssumption
  <2>8. \A m : Text(m) \in Started' <=> Text(m) \in Started
    BY <2>5, Tags
  <2>9. Named'
    BY <2>2, <2>4, <2>5, <2>6, <2>7, <2>8 DEF Named
  <2> QED
    BY <2>5, <2>9
<1>4. CASE AskModel
  BY <1>4, WireRests DEF AskModel, Answers, stream, made
<1>5. CASE StreamText
  <2> DEFINE x == Number("text")
  <2> DEFINE b == Text(x)
  <2>1. /\ x \in 0..Texts /\ x < Texts /\ b \in Block /\ b \notin Started
        /\ \A m \in Nat : Text(m) \in Started <=> m < x
    BY <1>5, NextNames, TheBlocks, BoundsAssumption DEF StreamText
  <2>2. /\ wire' = wire \o Closing(open) \o <<Start(b, index)>> \o <<>> /\ open' = b
        /\ pc' = pc /\ kind' = kind /\ task' = task
    BY <1>5 DEF StreamText, Emit, made
  <2> HIDE DEF x
  <2>4. \A c \in Call : Result(c) # b /\ Use(c) # b /\ \A m : Extra(m) # b
    BY Tags
  <2>5. /\ Once' /\ ResultsBehind' /\ Started' = Started \cup {b}
        /\ open' \in Started' /\ Started' \ Stopped' = {open'} \ {None}
    BY <2>1, <2>2, <2>4, WireOpens
  <2>6. \A m \in Nat : Text(m) \in Started' <=> m < x + 1
    BY <2>1, <2>5, Tags, BoundsAssumption
  <2>7. x + 1 \in 0..Texts
    BY <2>1, BoundsAssumption
  <2>8. \A m : Extra(m) \in Started' <=> Extra(m) \in Started
    BY <2>5, Tags
  <2>9. Named'
    BY <2>2, <2>4, <2>5, <2>6, <2>7, <2>8 DEF Named
  <2>10. Opened'
    BY <2>2, <2>4, <2>5 DEF Opened
  <2> QED
    BY <2>5, <2>9, <2>10
<1>6. CASE StreamBlank
  BY <1>6, WireCloses DEF StreamBlank, Answers, made
<1>7. CASE EndStream
  <2>1. \A c \in Call : /\ task[c] = "answered" => task'[c] = "answered"
                        /\ task'[c] = "answered" => task[c] = "answered"
    BY <1>7 DEF EndStream, Spawn, Tasks, Gathered
  <2> QED
    BY <1>7, <2>1, WireCloses DEF EndStream, Answers, made
<1>8. CASE Fold
  BY <1>8, WireRests DEF Fold, Answers, stream, made
<1>9. CASE Gather
  BY <1>9, WireRests DEF Gather, Results, Answers, stream, made
<1>10. CASE AfterIteration
  BY <1>10, WireRests DEF AfterIteration, Answers, stream, made
<1>11. CASE Resume
  <2>1. /\ pc = "waiting" /\ pc' \in {"close", "after"} /\ pending = Out
        /\ open' = open /\ kind' = kind
        /\ task' = [d \in Call |-> IF d \in pending THEN "answered" ELSE task[d]]
    BY <1>11 DEF Resume, ContinueTools, Gathered, made
  <2>2. PICK v, B : Puts(v, B, B) /\ B = {Result(d) : d \in pending}
    BY <1>11, ResumePuts
  <2>3. \A d \in Call : d \in pending <=> task[d] = "out"
    BY <2>1 DEF Out
  <2>4. \A d \in Call : Result(d) \in B <=> d \in pending
    BY <2>1, <2>2, Tags DEF Out
  <2>5. \A d \in Call : Result(d) \in B => Use(d) \in Stopped
    BY <2>3, <2>4, TaskShown DEF WireInv
  <2>6. \A d \in Call : open = Use(d) => task'[d] = None
    BY <2>1, <2>3 DEF Opened
  <2>7. Once' /\ ResultsBehind' /\ Started' = Started \cup B /\ Opened'
    BY <2>1, <2>2, <2>5, <2>6, WireWhole DEF WireInv
  <2>8. \A m : Text(m) \notin B /\ Extra(m) \notin B /\ Use(m) \notin B
    BY <2>2, Tags
  <2>9. Named'
    BY <2>1, <2>3, <2>4, <2>7, <2>8 DEF Named
  <2> QED
    BY <2>7, <2>9
<1>12. CASE Close
  <2>1. /\ pc = "close" /\ pc' = "completed" /\ open' = open /\ kind' = kind
        /\ task' = task /\ wire' = Append(wire, MessageStop)
    BY <1>12 DEF Close, made
  <2>2. /\ wire' \in Seq(Event) /\ Len(wire') = Len(wire) + 1
        /\ \A i \in DOMAIN wire : i \in DOMAIN wire' /\ wire'[i] = wire[i]
        /\ \A i \in DOMAIN wire' : i \in DOMAIN wire \/ wire'[i].event = "message_stop"
    BY <2>1, Events DEF Once, MessageStop
  <2>3. /\ \A b : \A i \in DOMAIN wire : /\ Starts(wire', i, b) <=> Starts(wire, i, b)
                                         /\ Stops(wire', i, b) <=> Stops(wire, i, b)
        /\ \A b : \A i \in DOMAIN wire' : Starts(wire', i, b) \/ Stops(wire', i, b)
              => i \in DOMAIN wire
    BY <2>2 DEF Starts, Stops
  <2>4. Started' = Started /\ Stopped' = Stopped
    <3>1. \A b : /\ b \in Started' <=> b \in Started
                 /\ b \in Stopped' <=> b \in Stopped
      BY <2>2, <2>3, StartedStopped, StartedStoppedNext
    <3> QED
      BY <3>1
  <2>5. Once'
    BY <2>2, <2>3 DEF Once
  <2>6. ResultsBehind'
    BY <2>2, <2>3 DEF ResultsBehind
  <2>7. Named' /\ Opened'
    BY <2>1, <2>4 DEF Named, Opened
  <2> QED
    BY <2>5, <2>6, <2>7
<1>13. CASE Abort
  BY <1>13, WireRests DEF Abort, Tasks, Answers, Ends, stream, made
<1>14. ASSUME NEW c \in Call, OpenCall(c) PROVE WireInv'
  <2> DEFINE b == Use(c)
  <2>1. b \in Block /\ b \notin Started /\ kind[c] = None /\ task[c] = None
    BY <1>14, TheBlocks DEF OpenCall, ShowCall, Named, Tasks
  <2>2. /\ wire' = wire \o Closing(open) \o <<Start(b, index)>> \o <<>> /\ open' = b
        /\ pc' = pc
    BY <1>14 DEF OpenCall, ShowCall, Emit
  <2>3. /\ kind'[c] # None /\ \A d \in Call : d # c => kind'[d] = kind[d]
        /\ \A d \in Call : task'[d] = IF calls # <<>> /\ d = calls[Len(calls)]
                                    THEN "new" ELSE task[d]
    BY <1>14 DEF OpenCall, ShowCall, Spawn, Tasks
  <2>4. calls # <<>> => calls[Len(calls)] \in Call /\ kind[calls[Len(calls)]] # None
    BY DEF Gathered
  <2>5. task'[c] = None
    BY <2>1, <2>3, <2>4
  <2>6. /\ \A d \in Call : Result(d) # b
        /\ \A m : Text(m) # b /\ Extra(m) # b
        /\ \A d \in Call : Use(d) = b => d = c
    BY Tags
  <2>7. /\ Once' /\ ResultsBehind' /\ Started' = Started \cup {b}
        /\ open' \in Started' /\ Started' \ Stopped' = {open'} \ {None}
    BY <2>1, <2>2, <2>6, WireOpens
  <2>8. \A d \in Call : Result(d) \in Started' <=> Result(d) \in Started
    BY <2>6, <2>7
  <2>9. calls # <<>> => task[calls[Len(calls)]] = None
    BY <1>14 DEF OpenCall, ShowCall, Gathered
  <2>10. \A d \in Call : task'[d] = "answered" <=> task[d] = "answered"
    BY <2>3, <2>4, <2>9
  <2>11. Named'
    <3>1. \A d \in Call : Use(d) \in Started' <=> kind'[d] # None
      BY <2>1, <2>3, <2>6, <2>7 DEF Named
    <3>2. \A m : /\ Text(m) \in Started' <=> Text(m) \in Started
                 /\ Extra(m) \in Started' <=> Extra(m) \in Started
      BY <2>6, <2>7
    <3> QED
      BY <2>2, <2>8, <2>10, <3>1, <3>2 DEF Named
  <2>12. Opened'
    BY <2>2, <2>5, <2>6, <2>7 DEF Opened
  <2> QED
    BY <2>7, <2>11, <2>12
<1>15. ASSUME NEW c \in Call, Answer(c) PROVE WireInv'
  <2>1. task[c] = "new" /\ task' = [task EXCEPT ![c] = "answered"] /\ pc' = pc
        /\ open' = open /\ kind' = kind
    BY <1>15 DEF Answer, Becomes, made
  <2>2. \A d \in Call : task'[d] = IF d = c THEN "answered" ELSE task[d]
    BY <2>1 DEF Tasks
  <2>3. open # Use(c)
    BY <2>1 DEF Opened
  <2>4. CASE pc = "raised"
    <3>1. wire' = wire
      BY <1>15, <2>4 DEF Answer, stream
    <3> QED
      BY <2>1, <2>2, <2>3, <2>4, <3>1, WireRests DEF Answers
  <2>5. CASE pc # "raised"
    <3> DEFINE b == Result(c)
    <3>1. b \in Block /\ b \notin Started
      BY <2>1, TheBlocks DEF Named
    <3>2. wire' = wire \o <<>> \o <<Start(b, index)>> \o <<Stop(b)>>
      BY <1>15, <2>5 DEF Answer, Emit
    <3>3. PICK v : Puts(v, {b}, {b})
      BY <3>1, <3>2, PutsWhole
    <3>4. Use(c) \in Stopped
      BY <2>1, TaskShown DEF WireInv
    <3>5. \A d \in Call : Result(d) = b => d = c
      BY Tags
    <3>6. Once' /\ ResultsBehind' /\ Started' = Started \cup {b} /\ Opened'
      BY <2>1, <2>2, <2>3, <3>3, <3>4, <3>5, WireWhole DEF Opened, WireInv
    <3>7. \A m : Text(m) # b /\ Extra(m) # b /\ Use(m) # b
      BY Tags
    <3>8. Named'
      BY <2>1, <2>2, <2>5, <3>5, <3>6, <3>7 DEF Named
    <3> QED
      BY <3>6, <3>8
  <2> QED
    BY <2>4, <2>5
<1>16. ASSUME NEW c \in Call, Pass(c) PROVE WireInv'
  BY <1>16, WireRests DEF Pass, Becomes, Tasks, Answers, stream, made
<1>17. ASSUME NEW c \in Call, Dispatch(c) PROVE WireInv'
  BY <1>17, WireRests DEF Dispatch, Becomes, Tasks, Answers, stream, made
<1>18. CASE Ended
  BY <1>18, WireRests DEF Ended, Answers, vars, stream, made
<1> QED
  BY <1>1, <1>2, <1>3, <1>4, <1>5, <1>6, <1>7, <1>8, <1>9, <1>10, <1>11, <1>12, <1>13, <1>14, <1>15, <1>16, <1>17, <1>18 DEF Next

-----------------------------------------------------------------------------
(* What a step does to the wire and to the two counts.                     *)

Rests ==
    /\ wire' = wire /\ count' = count /\ index' \in {index, count}
    /\ pc = "completed" <=> pc' = "completed"

StopsOnly ==
    /\ \E v, E : Puts(v, {}, E) /\ \A i \in DOMAIN v : v[i].event = "stop"
    /\ count' = count /\ index' = index
    /\ pc # "completed" /\ pc' # "completed"

ShowsOne ==
    /\ \E v, b, E : /\ Puts(v, {b}, E) /\ OneStart(v, b, index)
                    /\ \A m : b # Extra(m)
    /\ count' = count + 1 /\ index' = index + 1
    /\ pc # "completed" /\ pc' # "completed"

Injects ==
    /\ \E v, m : /\ m \in Nat /\ OneStart(v, Extra(m), index)
                 /\ Puts(v, {Extra(m)}, {Extra(m)})
    /\ count' = count /\ index' = index + 1
    /\ pc # "completed" /\ pc' # "completed"

(* Every step does one of these to the wire and its counters.              *)
LEMMA Moves ==
    IndInv /\ CallStates /\ WireInv /\ index \in Nat /\ Next =>
       Rests \/ StopsOnly \/ ShowsOne \/ Injects \/ Resume \/ Close
<1> SUFFICES ASSUME IndInv, CallStates, WireInv, index \in Nat, Next
             PROVE  Rests \/ StopsOnly \/ ShowsOne \/ Injects \/ Resume \/ Close
  OBVIOUS
<1> USE DEF IndInv, WireInv
<1>1. CASE StartIteration
  BY <1>1 DEF StartIteration, Rests
<1>2. CASE Exhausted
  BY <1>2 DEF Exhausted, Rests, stream
<1>3. CASE Inject
  <2> DEFINE x == Number("extra")
  <2> DEFINE b == Extra(x)
  <2>1. x \in Nat /\ b \in Block /\ b \notin Started
    BY NextNames, TheBlocks, BoundsAssumption DEF Inject
  <2>2. /\ wire' = wire \o <<Start(b, index), Stop(b)>>
        /\ index' = index + 1 /\ count' = count /\ pc # "completed" /\ pc' # "completed"
    BY <1>3 DEF Inject
  <2> HIDE DEF x
  <2>3. \E v : Puts(v, {b}, {b}) /\ OneStart(v, b, index)
    BY <2>1, <2>2, PutsWhole
  <2> QED
    BY <2>1, <2>2, <2>3 DEF Injects
<1>4. CASE AskModel
  BY <1>4 DEF AskModel, Rests, stream
<1>5. CASE StreamText
  <2>1. Text(Number("text")) \in Block /\ Text(Number("text")) \notin Started
    BY <1>5, NextNames, TheBlocks, BoundsAssumption DEF StreamText
  <2>2. \A m : Text(Number("text")) # Extra(m)
    BY Tags
  <2>3. \E v : Puts(v, {Text(Number("text"))}, {open} \ {None}) /\ OneStart(v, Text(Number("text")), index)
    BY <1>5, <2>1, PutsNext DEF StreamText, Emit
  <2> QED
    BY <1>5, <2>2, <2>3 DEF StreamText, Emit, ShowsOne
<1>6. CASE StreamBlank
  BY <1>6, PutsClosing DEF StreamBlank, StopsOnly
<1>7. CASE EndStream
  BY <1>7, PutsClosing DEF EndStream, StopsOnly
<1>8. CASE Fold
  BY <1>8 DEF Fold, Rests, stream
<1>9. CASE Gather
  BY <1>9 DEF Gather, Results, Rests, stream
<1>10. CASE AfterIteration
  BY <1>10 DEF AfterIteration, Rests, stream
<1>11. CASE Resume
  BY <1>11 DEF Resume, ContinueTools
<1>12. CASE Close
  BY <1>12
<1>13. CASE Abort
  BY <1>13 DEF Abort, Ends, Rests, stream
<1>14. ASSUME NEW c \in Call, OpenCall(c) PROVE Rests \/ StopsOnly \/ ShowsOne \/ Injects \/ Resume \/ Close
  <2>1. Use(c) \in Block /\ Use(c) \notin Started
    BY <1>14, TheBlocks DEF OpenCall, ShowCall, Named
  <2>2. \A m : Use(c) # Extra(m)
    BY Tags
  <2>3. \E v : Puts(v, {Use(c)}, {open} \ {None}) /\ OneStart(v, Use(c), index)
    BY <1>14, <2>1, PutsNext DEF OpenCall, ShowCall, Emit
  <2> QED
    BY <1>14, <2>2, <2>3 DEF OpenCall, ShowCall, Emit, ShowsOne
<1>15. ASSUME NEW c \in Call, Answer(c) PROVE Rests \/ StopsOnly \/ ShowsOne \/ Injects \/ Resume \/ Close
  <2>1. CASE pc = "raised"
    BY <1>15, <2>1 DEF Answer, Rests, stream
  <2>2. CASE pc # "raised"
    <3>1. Result(c) \in Block /\ Result(c) \notin Started
      BY <1>15, TheBlocks DEF Answer, Named
    <3>2. \A m : Result(c) # Extra(m)
      BY Tags
    <3>3. \E v : Puts(v, {Result(c)}, {Result(c)}) /\ OneStart(v, Result(c), index)
      BY <1>15, <2>2, <3>1, PutsWhole DEF Answer, Emit
    <3>4. pc # "completed"
      BY <1>15 DEF Answer, Gathered, Live
    <3> QED
      BY <1>15, <2>2, <3>2, <3>3, <3>4 DEF Answer, Emit, ShowsOne
  <2> QED
    BY <2>1, <2>2
<1>16. ASSUME NEW c \in Call, Pass(c) PROVE Rests \/ StopsOnly \/ ShowsOne \/ Injects \/ Resume \/ Close
  BY <1>16 DEF Pass, Rests, stream
<1>17. ASSUME NEW c \in Call, Dispatch(c) PROVE Rests \/ StopsOnly \/ ShowsOne \/ Injects \/ Resume \/ Close
  BY <1>17 DEF Dispatch, Rests, stream
<1>18. CASE Ended
  BY <1>18 DEF Ended, Rests, vars, stream
<1> QED
  BY <1>1, <1>2, <1>3, <1>4, <1>5, <1>6, <1>7, <1>8, <1>9, <1>10, <1>11, <1>12, <1>13, <1>14, <1>15, <1>16, <1>17, <1>18 DEF Next

-----------------------------------------------------------------------------
(* The indices.                                                            *)

ExtraBy(w, i) == \E k \in DOMAIN w : k <= i /\ \E n \in Nat : Starts(w, k, Extra(n))

(* Without a block of an interceptor the index is the count, and the       *)
(* indices used are below it; the first such block spoils both.            *)
Indexed ==
    /\ count \in Nat /\ index \in Nat /\ count <= index
    /\ (\A n \in Nat : Extra(n) \notin Started) => index = count
    /\ \A i \in DOMAIN wire : wire[i].event = "start"
          => wire[i].index \in Nat /\ (wire[i].index < count \/ ExtraBy(wire, i))
    /\ \A i, j \in DOMAIN wire :
          wire[i].event = "start" /\ wire[j].event = "start" /\ i < j
          /\ wire[i].index = wire[j].index => ExtraBy(wire, i)

(* What is put behind has indices from the count on.                       *)
Above(v) ==
    /\ \A i \in DOMAIN v : v[i].event = "start"
          => /\ v[i].index \in Nat /\ count <= v[i].index
             /\ \/ v[i].index < count'
                \/ \E n \in Nat : v[i].block = Extra(n)
                \/ \E n \in Nat : Extra(n) \in Started
    /\ \A i, j \in DOMAIN v :
          v[i].event = "start" /\ v[j].event = "start" /\ i < j => v[i].index # v[j].index
    /\ count' \in Nat /\ index' \in Nat /\ count <= count' /\ count' <= index'
    /\ (\A n \in Nat : Extra(n) \notin Started') => index' = count'

(* What is above the count keeps the indices apart.                        *)
LEMMA IndexKept ==
    ASSUME Once, Indexed, NEW v, IsBehind(v, wire, wire'), Above(v)
    PROVE  Indexed'
<1> DEFINE n == Len(wire)
<1>1. /\ \A i \in DOMAIN wire : i \in DOMAIN wire' /\ wire'[i] = wire[i]
      /\ \A i \in DOMAIN v : n + i \in DOMAIN wire' /\ wire'[n + i] = v[i]
      /\ \A j \in DOMAIN wire' : j \in DOMAIN wire \/ \E i \in DOMAIN v : j = n + i
      /\ \A i \in DOMAIN wire, j \in DOMAIN v : i < n + j
      /\ \A i, j \in DOMAIN v : i < j <=> n + i < n + j
  BY Behind
<1>2. \A i \in DOMAIN wire : i \in Nat
  BY DEF Once
<1>3. \A i \in DOMAIN v : n + i \in Nat
  BY DEF IsBehind, Once
<1> HIDE DEF n
<1>4. ASSUME NEW i \in DOMAIN wire, ExtraBy(wire, i) PROVE ExtraBy(wire', i)
  BY <1>1, <1>4 DEF ExtraBy, Starts
<1>5. ASSUME NEW i \in DOMAIN v, NEW m \in Nat, Extra(m) \in Started PROVE ExtraBy(wire', n + i)
  <2>1. PICK k \in DOMAIN wire : Starts(wire, k, Extra(m))
    BY <1>5, StartedStopped
  <2>2. k \in DOMAIN wire' /\ Starts(wire', k, Extra(m)) /\ k <= n + i
    BY <1>1, <1>2, <1>3, <2>1 DEF Starts
  <2> QED
    BY <2>2 DEF ExtraBy
<1>6. ASSUME NEW i \in DOMAIN v, v[i].event = "start", NEW m \in Nat, v[i].block = Extra(m)
      PROVE  ExtraBy(wire', n + i)
  <2>1. n + i \in DOMAIN wire' /\ Starts(wire', n + i, Extra(m)) /\ n + i <= n + i
    BY <1>1, <1>3, <1>6 DEF Starts
  <2> QED
    BY <2>1 DEF ExtraBy
<1>7. ASSUME NEW i \in DOMAIN wire', wire'[i].event = "start"
      PROVE  wire'[i].index \in Nat /\ (wire'[i].index < count' \/ ExtraBy(wire', i))
  <2>1. CASE i \in DOMAIN wire
    <3>1. wire'[i] = wire[i]
      BY <1>1, <2>1
    <3> QED
      BY <1>4, <1>7, <2>1, <3>1 DEF Indexed, Above
  <2>2. CASE i \notin DOMAIN wire
    <3>1. PICK k \in DOMAIN v : i = n + k
      BY <1>1, <2>2
    <3>2. wire'[i] = v[k]
      BY <1>1, <3>1
    <3> QED
      BY <1>5, <1>6, <1>7, <3>1, <3>2 DEF Above
  <2> QED
    BY <2>1, <2>2
<1>8. ASSUME NEW i \in DOMAIN wire', NEW j \in DOMAIN wire', i < j,
             wire'[i].event = "start", wire'[j].event = "start",
             wire'[i].index = wire'[j].index
      PROVE  ExtraBy(wire', i)
  <2>1. CASE i \in DOMAIN wire /\ j \in DOMAIN wire
    <3>1. wire'[i] = wire[i] /\ wire'[j] = wire[j]
      BY <1>1, <2>1
    <3>2. ExtraBy(wire, i)
      BY <1>8, <2>1, <3>1 DEF Indexed
    <3> QED
      BY <1>4, <2>1, <3>2
  <2>2. CASE i \in DOMAIN wire /\ j \notin DOMAIN wire
    <3>1. PICK k \in DOMAIN v : j = n + k
      BY <1>1, <2>2
    <3>2. wire'[j] = v[k] /\ wire'[i] = wire[i]
      BY <1>1, <2>2, <3>1
    <3>3. count <= wire[i].index /\ wire[i].index \in Nat /\ count \in Nat
      BY <1>8, <3>2 DEF Above, Indexed
    <3>4. ExtraBy(wire, i)
      BY <1>8, <2>2, <3>2, <3>3 DEF Indexed
    <3> QED
      BY <1>4, <2>2, <3>4
  <2>3. CASE i \notin DOMAIN wire
    <3>1. PICK k \in DOMAIN v : i = n + k
      BY <1>1, <2>3
    <3>2. j \notin DOMAIN wire
      <4> SUFFICES ASSUME j \in DOMAIN wire PROVE FALSE
        OBVIOUS
      <4>1. j < i /\ i \in Nat /\ j \in Nat
        BY <1>1, <1>2, <1>3, <3>1
      <4> QED
        BY <1>8, <4>1
    <3>3. PICK l \in DOMAIN v : j = n + l
      BY <1>1, <3>2
    <3>4. wire'[i] = v[k] /\ wire'[j] = v[l] /\ k < l
      BY <1>1, <1>8, <3>1, <3>3
    <3> QED
      BY <1>8, <3>4 DEF Above
  <2> QED
    BY <2>1, <2>2, <2>3
<1> QED
  BY <1>7, <1>8 DEF Indexed, Above

(* The index is spoilt by a block of an interceptor only.                  *)
LEMMA IndexStep ==
    IndInv /\ CallStates /\ WireInv /\ Indexed /\ Next => Indexed'
<1> SUFFICES ASSUME IndInv, CallStates, WireInv, Indexed, Next PROVE Indexed'
  OBVIOUS
<1>0. Once /\ count \in Nat /\ index \in Nat /\ count <= index
  BY DEF WireInv, Indexed
<1>1. ASSUME Rests PROVE Indexed'
  <2>1. wire' = wire /\ count' = count /\ index' \in {index, count} /\ Started' = Started
    BY <1>1 DEF Rests, Started, Positions
  <2>2. \A i : ExtraBy(wire', i) <=> ExtraBy(wire, i)
    BY <2>1
  <2>3. index' \in Nat /\ count' <= index'
    BY <1>0, <2>1
  <2>4. (\A n \in Nat : Extra(n) \notin Started') => index' = count'
    BY <2>1 DEF Indexed
  <2> QED
    BY <2>1, <2>2, <2>3, <2>4 DEF Indexed
<1>2. ASSUME NEW v, NEW B, NEW E, Puts(v, B, E)
      PROVE  /\ IsBehind(v, wire, wire') /\ Started' = Started \cup B
             /\ \A b \in B : \A i, j \in DOMAIN v : Starts(v, i, b) /\ Starts(v, j, b) => i = j
             /\ \A i \in DOMAIN v : i \in Nat
  <2>1. IsBehind(v, wire, wire') /\ v \in Seq(Event)
    BY <1>0, <1>2 DEF IsBehind, Puts, Piece, Once
  <2>2. Started' = Started \cup B
    BY <1>0, <1>2, PutsStarts
  <2>3. \A b \in B : \A i, j \in DOMAIN v : Starts(v, i, b) /\ Starts(v, j, b) => i = j
    BY <1>2 DEF Puts, Piece
  <2>4. \A i \in DOMAIN v : i \in Nat
    BY <2>1
  <2> QED
    BY <2>1, <2>2, <2>3, <2>4
<1>3. ASSUME StopsOnly PROVE Indexed'
  <2>1. PICK v, E : Puts(v, {}, E) /\ \A i \in DOMAIN v : v[i].event = "stop"
    BY <1>3 DEF StopsOnly
  <2>2. IsBehind(v, wire, wire') /\ Started' = Started \cup {}
    BY <1>2, <2>1
  <2>3. Above(v)
    BY <1>0, <1>3, <2>1, <2>2 DEF Above, StopsOnly, Indexed
  <2> QED
    BY <1>0, <2>2, <2>3, IndexKept
<1>4. ASSUME NEW v, NEW b, NEW E, Puts(v, {b}, E), OneStart(v, b, index)
      PROVE  /\ \A i \in DOMAIN v : v[i].event = "start"
                    => v[i].index = index /\ v[i].block = b
             /\ \A i, j \in DOMAIN v :
                    v[i].event = "start" /\ v[j].event = "start" => ~(i < j)
  <2>1. \A i \in DOMAIN v : v[i].event = "start" => v[i].index = index /\ Starts(v, i, b)
    BY <1>4 DEF OneStart, Starts
  <2>2. \A i, j \in DOMAIN v : Starts(v, i, b) /\ Starts(v, j, b) => i = j
    BY <1>2, <1>4
  <2>3. \A i \in DOMAIN v : i \in Nat
    BY <1>2, <1>4
  <2> QED
    BY <2>1, <2>2, <2>3 DEF Starts
<1>5. ASSUME ShowsOne PROVE Indexed'
  <2>1. PICK v, b, E : Puts(v, {b}, E) /\ OneStart(v, b, index) /\ \A m : b # Extra(m)
    BY <1>5 DEF ShowsOne
  <2>2. IsBehind(v, wire, wire') /\ Started' = Started \cup {b}
    BY <1>2, <2>1
  <2>3. count' = count + 1 /\ index' = index + 1
    BY <1>5 DEF ShowsOne
  <2>4. (\A n \in Nat : Extra(n) \notin Started) => index = count
    BY DEF Indexed
  <2>5. \A n \in Nat : Extra(n) \in Started' <=> Extra(n) \in Started
    BY <2>1, <2>2
  <2>6. \A i \in DOMAIN v : v[i].event = "start"
          => /\ v[i].index \in Nat /\ count <= v[i].index
             /\ v[i].index < count' \/ \E n \in Nat : Extra(n) \in Started
    BY <1>0, <1>4, <2>1, <2>3, <2>4
  <2>7. Above(v)
    BY <1>0, <1>4, <2>1, <2>3, <2>4, <2>5, <2>6 DEF Above
  <2> QED
    BY <1>0, <2>2, <2>7, IndexKept
<1>6. ASSUME Injects PROVE Indexed'
  <2>1. PICK v, m : /\ m \in Nat /\ OneStart(v, Extra(m), index)
                    /\ Puts(v, {Extra(m)}, {Extra(m)})
    BY <1>6 DEF Injects
  <2>2. IsBehind(v, wire, wire') /\ Started' = Started \cup {Extra(m)}
    BY <1>2, <2>1
  <2>3. count' = count /\ index' = index + 1
    BY <1>6 DEF Injects
  <2>4. Above(v)
    BY <1>0, <1>4, <2>1, <2>2, <2>3 DEF Above
  <2> QED
    BY <1>0, <2>2, <2>4, IndexKept
<1>7. ASSUME Resume PROVE Indexed'
  <2> DEFINE B == {Result(c) : c \in pending}
  <2> DEFINE v == ResultBlocks(Responses, count)
  <2> DEFINE k == Len(Responses)
  <2>1. Responses \in Seq(Call) /\ k \in Nat
    BY <1>7, ResponsesOfAll DEF Resume, ContinueTools
  <2>2. /\ Puts(v, B, B) /\ Len(v) = 2 * k
        /\ \A i \in 1..k : /\ v[2 * i - 1] = Start(Result(Responses[i]), count + i - 1)
                           /\ v[2 * i] = Stop(Result(Responses[i]))
    BY <1>0, <1>7, ResumePuts
  <2>3. count' = count + k /\ index' = count'
    BY <1>7 DEF Resume, ContinueTools
  <2> HIDE DEF v, B, k
  <2>4. IsBehind(v, wire, wire') /\ v \in Seq(Event)
    BY <1>2, <2>2 DEF IsBehind
  <2>5. DOMAIN v = 1..(2 * k)
    BY <2>2, <2>4
  <2>6. \A j \in DOMAIN v : \E i \in 1..k : j = 2 * i - 1 \/ j = 2 * i
    BY <2>1, <2>5, InPairs
  <2>7. \A i \in 1..k : /\ v[2 * i - 1].index = count + i - 1
                        /\ v[2 * i].event = "stop"
    <3> TAKE i \in 1..k
    <3>1. v[2 * i - 1] = Start(Result(Responses[i]), count + i - 1)
      BY <2>2
    <3>2. v[2 * i] = Stop(Result(Responses[i]))
      BY <2>2
    <3>3. v[2 * i - 1].index = count + i - 1
      BY <3>1 DEF Start
    <3>4. v[2 * i].event = "stop"
      BY <3>2 DEF Stop
    <3> QED
      BY <3>3, <3>4
  <2>8. \A j \in DOMAIN v : v[j].event = "start"
          => \E i \in 1..k : j = 2 * i - 1 /\ v[j].index = count + i - 1
    BY <2>6, <2>7
  <2>9. \A i \in 1..k : count + i - 1 \in Nat /\ count <= count + i - 1 /\ count + i - 1 < count + k
    BY <1>0, <2>1
  <2>10. \A i, j \in 1..k : 2 * i - 1 < 2 * j - 1 => count + i - 1 # count + j - 1
    BY <1>0, <2>1
  <2>11. \A i \in DOMAIN v : v[i].event = "start"
          => v[i].index \in Nat /\ count <= v[i].index /\ v[i].index < count'
    BY <2>3, <2>8, <2>9
  <2>12. \A i, j \in DOMAIN v :
          v[i].event = "start" /\ v[j].event = "start" /\ i < j => v[i].index # v[j].index
    BY <2>8, <2>10
  <2>13. count' \in Nat /\ index' \in Nat /\ count <= count' /\ count' <= index'
    BY <1>0, <2>1, <2>3
  <2>14. Above(v)
    BY <2>3, <2>11, <2>12, <2>13 DEF Above
  <2> QED
    BY <1>0, <2>4, <2>14, IndexKept
<1>8. ASSUME Close PROVE Indexed'
  <2> DEFINE v == <<MessageStop>>
  <2>1. IsBehind(v, wire, wire') /\ DOMAIN v = {1} /\ v[1].event # "start"
    BY <1>0, <1>8, Events, AppendIsConcat DEF Close, IsBehind, MessageStop, Once
  <2>2. count' = count /\ index' = index
    BY <1>8 DEF Close
  <2> HIDE DEF v
  <2>3. \A n \in Nat : Extra(n) \in Started => Extra(n) \in Started'
    <3>1. \A i \in DOMAIN wire : i \in DOMAIN wire' /\ wire'[i] = wire[i]
      BY <2>1, Behind
    <3> QED
      BY <3>1, StartedStopped, StartedStoppedNext DEF Starts
  <2>4. Above(v)
    BY <1>0, <2>1, <2>2, <2>3 DEF Above, Indexed
  <2> QED
    BY <1>0, <2>1, <2>4, IndexKept
<1> QED
  BY <1>0, <1>1, <1>3, <1>5, <1>6, <1>7, <1>8, Moves

-----------------------------------------------------------------------------
(* The block count, and the end of the message.                            *)

Extraneous == {b \in Started : b[1] = "extra"}

Numbered ==
    /\ IsFiniteSet(Started)
    /\ Cardinality(Started) = count + Cardinality(Extraneous)

(* The engine counts each block of its own as it starts it.                *)
LEMMA NumberStep ==
    IndInv /\ CallStates /\ WireInv /\ Indexed /\ Numbered /\ Next => Numbered'
<1> SUFFICES ASSUME IndInv, CallStates, WireInv, Indexed, Numbered, Next PROVE Numbered'
  OBVIOUS
<1>0. Once /\ count \in Nat /\ index \in Nat
  BY DEF WireInv, Indexed
<1>1. IsFiniteSet(Started) /\ IsFiniteSet(Extraneous)
  BY FS_Subset DEF Numbered, Extraneous
<1>2. Cardinality(Started) \in Nat /\ Cardinality(Extraneous) \in Nat
  BY <1>1, FS_CardinalityType
<1>3. ASSUME Started' = Started, count' = count PROVE Numbered'
  <2>1. Extraneous' = Extraneous
    BY <1>3 DEF Extraneous
  <2> QED
    BY <1>3, <2>1 DEF Numbered
<1>4. ASSUME Rests PROVE Numbered'
  BY <1>3, <1>4 DEF Rests, Started, Positions
<1>5. ASSUME StopsOnly PROVE Numbered'
  <2>1. PICK v, E : Puts(v, {}, E)
    BY <1>5 DEF StopsOnly
  <2>2. Started' = Started \cup {} /\ Started \cup {} = Started
    BY <1>0, <2>1, PutsStarts
  <2> QED
    BY <1>3, <1>5, <2>2 DEF StopsOnly
<1>6. ASSUME ShowsOne PROVE Numbered'
  <2>1. PICK v, b, E : Puts(v, {b}, E) /\ \A m : b # Extra(m)
    BY <1>6 DEF ShowsOne
  <2>2. Started' = Started \cup {b} /\ b \notin Started /\ Started' \subseteq Block
    <3>1. Once'
      BY <1>0, <2>1, PutsKeepsOnce
    <3>2. Started' \subseteq Block
      BY <3>1, StartedStoppedNext, BlocksOfEvents DEF Once
    <3> QED
      BY <1>0, <2>1, <3>2, PutsStarts DEF Puts
  <2>3. b[1] # "extra"
    BY <2>1, <2>2, TheBlocks, Tags
  <2>4. Extraneous' = Extraneous
    BY <2>2, <2>3 DEF Extraneous
  <2>5. IsFiniteSet(Started') /\ Cardinality(Started') = Cardinality(Started) + 1
    BY <1>1, <2>2, FS_AddElement
  <2>6. count' = count + 1
    BY <1>6 DEF ShowsOne
  <2> QED
    BY <1>0, <1>2, <2>4, <2>5, <2>6 DEF Numbered
<1>7. ASSUME Injects PROVE Numbered'
  <2>1. PICK v, m : Puts(v, {Extra(m)}, {Extra(m)})
    BY <1>7 DEF Injects
  <2>2. Started' = Started \cup {Extra(m)} /\ Extra(m) \notin Started
    BY <1>0, <2>1, PutsStarts DEF Puts
  <2>3. Extraneous' = Extraneous \cup {Extra(m)} /\ Extra(m) \notin Extraneous
    BY <2>2, Tags DEF Extraneous
  <2>4. IsFiniteSet(Started') /\ Cardinality(Started') = Cardinality(Started) + 1
    BY <1>1, <2>2, FS_AddElement
  <2>5. Cardinality(Extraneous') = Cardinality(Extraneous) + 1
    BY <1>1, <2>3, FS_AddElement
  <2>6. count' = count
    BY <1>7 DEF Injects
  <2> QED
    BY <1>0, <1>2, <2>4, <2>5, <2>6 DEF Numbered
<1>8. ASSUME Resume PROVE Numbered'
  <2> DEFINE B == {Result(c) : c \in pending}
  <2> DEFINE v == ResultBlocks(Responses, count)
  <2> DEFINE k == Len(Responses)
  <2>1. Responses \in Seq(Call) /\ k \in Nat /\ IsInjective(Responses) /\ ToSet(Responses) = pending
    BY <1>8, ResponsesOfAll DEF Resume, ContinueTools
  <2>2. Puts(v, B, B)
    BY <1>0, <1>8, ResumePuts
  <2>3. count' = count + k
    BY <1>8 DEF Resume, ContinueTools
  <2>4. IsFiniteSet(B) /\ Cardinality(B) = k
    <3> DEFINE f == [i \in 1..k |-> Result(Responses[i])]
    <3>1. f \in [1..k -> B]
      BY <2>1 DEF ToSet
    <3>2. \A i, j \in 1..k : f[i] = f[j] => i = j
      BY <2>1, Tags DEF IsInjective
    <3>3. \A b \in B : \E i \in 1..k : f[i] = b
      BY <2>1 DEF ToSet
    <3> HIDE DEF f, B, k
    <3>4. ExistsBijection(1..k, B)
      BY <3>1, <3>2, <3>3 DEF ExistsBijection, Bijection, Injection, Surjection, IsInjective
    <3>5. IsFiniteSet(1..k) /\ Cardinality(1..k) = IF 1 > k THEN 0 ELSE k - 1 + 1
      BY <2>1, FS_Interval
    <3>6. (IF 1 > k THEN 0 ELSE k - 1 + 1) = k
      BY <2>1
    <3> QED
      BY <3>4, <3>5, <3>6, FS_Bijection
  <2>5. \A b \in B : b[1] # "extra"
    BY Tags
  <2> HIDE DEF B, v, k
  <2>6. Started' = Started \cup B /\ Started \cap B = {}
    BY <1>0, <2>2, PutsStarts DEF Puts
  <2>7. Extraneous' = Extraneous
    BY <2>5, <2>6 DEF Extraneous
  <2>8. /\ IsFiniteSet(Started')
        /\ Cardinality(Started') = Cardinality(Started) + Cardinality(B) - Cardinality({})
    BY <1>1, <2>4, <2>6, FS_Union
  <2>9. Cardinality({}) = 0
    BY FS_EmptySet
  <2> QED
    BY <1>0, <1>2, <2>1, <2>3, <2>4, <2>7, <2>8, <2>9 DEF Numbered
<1>9. ASSUME Close PROVE Numbered'
  <2>1. IsBehind(<<MessageStop>>, wire, wire')
    BY <1>0, <1>9, Events, AppendIsConcat DEF Close, IsBehind, Once
  <2>2. /\ \A i \in DOMAIN wire : i \in DOMAIN wire' /\ wire'[i] = wire[i]
        /\ \A j \in DOMAIN wire' : j \in DOMAIN wire \/ wire'[j].event = "message_stop"
    BY <2>1, Behind DEF MessageStop
  <2>3. \A b : b \in Started' <=> b \in Started
    BY <2>2, StartedStopped, StartedStoppedNext DEF Starts
  <2> QED
    BY <1>3, <1>9, <2>3 DEF Close
<1> QED
  BY <1>0, <1>4, <1>5, <1>6, <1>7, <1>8, <1>9, Moves

MessageEnd ==
    /\ \A i \in DOMAIN wire : wire[i].event = "message_stop" => pc = "completed" /\ i = Len(wire)
    /\ pc = "completed" => Len(wire) \in DOMAIN wire /\ wire[Len(wire)].event = "message_stop"

(* The message ends once, with the turn.                                   *)
LEMMA EndStep ==
    IndInv /\ CallStates /\ WireInv /\ Indexed /\ MessageEnd /\ Next => MessageEnd'
<1> SUFFICES ASSUME IndInv, CallStates, WireInv, Indexed, MessageEnd, Next PROVE MessageEnd'
  OBVIOUS
<1>0. Once /\ count \in Nat /\ index \in Nat
  BY DEF WireInv, Indexed
<1>1. ASSUME NEW v, NEW B, NEW E, Puts(v, B, E), pc # "completed", pc' # "completed"
      PROVE  MessageEnd'
  <2>1. IsBehind(v, wire, wire')
    BY <1>0, <1>1 DEF IsBehind, Puts, Piece, Once
  <2>2. /\ \A i \in DOMAIN wire : i \in DOMAIN wire' /\ wire'[i] = wire[i]
        /\ \A i \in DOMAIN v : wire'[Len(wire) + i] = v[i]
        /\ \A j \in DOMAIN wire' : j \in DOMAIN wire \/ \E i \in DOMAIN v : j = Len(wire) + i
    BY <2>1, Behind
  <2>3. \A i \in DOMAIN v : v[i].event # "message_stop"
    BY <1>1 DEF Puts, Piece, Starts, Stops
  <2> QED
    BY <1>1, <2>2, <2>3 DEF MessageEnd
<1>2. CASE Rests
  BY <1>2 DEF Rests, MessageEnd
<1>3. CASE StopsOnly
  BY <1>1, <1>3 DEF StopsOnly
<1>4. CASE ShowsOne
  BY <1>1, <1>4 DEF ShowsOne
<1>5. CASE Injects
  BY <1>1, <1>5 DEF Injects
<1>6. CASE Resume
  <2>1. pc # "completed" /\ pc' # "completed"
    BY <1>6 DEF Resume, ContinueTools
  <2>2. \E v, B : Puts(v, B, B)
    BY <1>0, <1>6, ResumePuts
  <2> QED
    BY <1>1, <2>1, <2>2
<1>7. CASE Close
  <2>1. /\ pc = "close" /\ pc' = "completed" /\ Len(wire') = Len(wire) + 1
        /\ wire'[Len(wire')].event = "message_stop" /\ Len(wire') \in DOMAIN wire'
        /\ \A i \in DOMAIN wire' : i # Len(wire') => i \in DOMAIN wire /\ wire'[i] = wire[i]
    BY <1>0, <1>7, Events DEF Close, Once, MessageStop
  <2> QED
    BY <2>1 DEF MessageEnd
<1> QED
  BY <1>0, <1>2, <1>3, <1>4, <1>5, <1>6, <1>7, Moves

-----------------------------------------------------------------------------
(* The turn.                                                               *)

(* Where the engine is, and where its tools run.                           *)
Control ==
    /\ pc \in {"loop", "before", "stream", "fold", "gather", "waiting", "after",
               "close", "completed", "raised"}
    /\ is_async \in BOOLEAN

(* No step leaves these places.                                            *)
LEMMA ControlStep == Control /\ Next => Control'
<1> SUFFICES ASSUME Control, Next PROVE Control'
  OBVIOUS
<1>1. CASE StartIteration
  BY <1>1 DEF StartIteration, Control
<1>2. CASE Exhausted
  BY <1>2 DEF Exhausted, Control
<1>3. CASE Inject
  BY <1>3 DEF Inject, Control
<1>4. CASE AskModel
  BY <1>4 DEF AskModel, Control
<1>5. CASE StreamText
  BY <1>5 DEF StreamText, Control
<1>6. CASE StreamBlank
  BY <1>6 DEF StreamBlank, Control
<1>7. CASE EndStream
  BY <1>7 DEF EndStream, Control
<1>8. CASE Fold
  BY <1>8 DEF Fold, Control
<1>9. CASE Gather
  BY <1>9 DEF Gather, Results, Control
<1>10. CASE AfterIteration
  BY <1>10 DEF AfterIteration, Control
<1>11. CASE Resume
  BY <1>11 DEF Resume, ContinueTools, Control
<1>12. CASE Close
  BY <1>12 DEF Close, Control
<1>13. CASE Abort
  BY <1>13 DEF Abort, Control
<1>14. ASSUME NEW c \in Call, OpenCall(c) PROVE Control'
  BY <1>14 DEF OpenCall, ShowCall, Control
<1>15. ASSUME NEW c \in Call, Answer(c) PROVE Control'
  BY <1>15 DEF Answer, Control
<1>16. ASSUME NEW c \in Call, Pass(c) PROVE Control'
  BY <1>16 DEF Pass, Control
<1>17. ASSUME NEW c \in Call, Dispatch(c) PROVE Control'
  BY <1>17 DEF Dispatch, Control
<1>18. CASE Ended
  BY <1>18 DEF Ended, vars, Control
<1> QED
  BY <1>1, <1>2, <1>3, <1>4, <1>5, <1>6, <1>7, <1>8, <1>9, <1>10, <1>11, <1>12, <1>13, <1>14, <1>15, <1>16, <1>17, <1>18 DEF Next

(* The whole invariant.                                                    *)
TurnInv ==
    Control /\ IndInv /\ CallStates /\ Reasons /\ WireInv /\ Indexed /\ Numbered /\ MessageEnd

(* It holds at the start.                                                  *)
LEMMA InitTurn == Init => TurnInv
<1> SUFFICES ASSUME Init PROVE TurnInv
  OBVIOUS
<1>0. Control
  BY DEF Init, Control
<1>1. IndInv
  BY InitInd
<1>2. CallStates
  BY NoneAssumption DEF Init, CallStates, IsInjective, TaskState
<1>3. Reasons
  BY DEF Init, Reasons
<1>4. wire \in Seq(Event) /\ DOMAIN wire = {1} /\ Len(wire) = 1 /\ wire[1].event = "message_start"
  BY Events DEF Init, MessageStart
<1>5. \A i \in DOMAIN wire : \A b : ~Starts(wire, i, b) /\ ~Stops(wire, i, b)
  BY <1>4 DEF Starts, Stops
<1>6. Started = {} /\ Stopped = {}
  BY <1>5, StartedStopped
<1>7. WireInv
  <2>1. Once
    BY <1>4, <1>5 DEF Once
  <2>2. ResultsBehind
    BY <1>5 DEF ResultsBehind
  <2>3. Opened
    BY <1>6 DEF Opened, Init
  <2>4. Named
    BY <1>6, BoundsAssumption, NoneAssumption DEF Named, Init, TaskState
  <2> QED
    BY <2>1, <2>2, <2>3, <2>4 DEF WireInv
<1>8. Indexed
  BY <1>4 DEF Indexed, Init
<1>9. Numbered
  <2>1. Extraneous = {}
    BY <1>6 DEF Extraneous
  <2> QED
    BY <1>6, <2>1, FS_EmptySet DEF Numbered, Init
<1>10. MessageEnd
  BY <1>4 DEF MessageEnd, Init
<1> QED
  BY <1>0, <1>1, <1>2, <1>3, <1>7, <1>8, <1>9, <1>10 DEF TurnInv

(* Nothing that the invariant speaks of changes in a step that stutters.   *)
LEMMA TurnStutters == TurnInv /\ UNCHANGED vars => TurnInv'
<1> SUFFICES ASSUME TurnInv, UNCHANGED vars PROVE TurnInv'
  OBVIOUS
<1> USE DEF TurnInv, vars, made, stream, history
<1>0. Control'
  BY DEF Control
<1>1. IndInv'
  BY DEF IndInv, Tasks, Gathered, Counted, Live, Out
<1>2. CallStates' /\ Reasons'
  BY DEF CallStates, Reasons
<1>3. Started' = Started /\ Stopped' = Stopped
  BY DEF Started, Stopped, Positions
<1>4. WireInv'
  BY <1>3 DEF WireInv, Once, ResultsBehind, Opened, Named
<1>5. Indexed'
  BY <1>3 DEF Indexed
<1>6. Numbered'
  BY <1>3 DEF Numbered, Extraneous
<1>7. MessageEnd'
  BY DEF MessageEnd
<1> QED
  BY <1>0, <1>1, <1>2, <1>4, <1>5, <1>6, <1>7

(* The invariant holds always.                                             *)
LEMMA TurnInductive == Spec => []TurnInv
<1>1. TurnInv /\ Next => TurnInv'
  <2> SUFFICES ASSUME TurnInv, Next PROVE TurnInv'
    OBVIOUS
  <2>1. count \in Nat /\ index \in Nat
    BY DEF TurnInv, Indexed
  <2>2. Control' /\ IndInv'
    BY ControlStep, TasksStep, GatheredStep, CountedStep DEF TurnInv, IndInv
  <2>3. CallStates' /\ Reasons' /\ WireInv'
    BY <2>1, CallStep, ReasonStep, WireStep DEF TurnInv, WireInv
  <2>4. Indexed' /\ Numbered' /\ MessageEnd'
    BY IndexStep, NumberStep, EndStep DEF TurnInv
  <2> QED
    BY <2>2, <2>3, <2>4 DEF TurnInv
<1> QED
  BY <1>1, InitTurn, TurnStutters, PTL DEF Spec

(* A set whose members are all one has at most one.                        *)
LEMMA Single ==
    ASSUME NEW S, \A x, y \in S : x = y
    PROVE  /\ IsFiniteSet(S) /\ Cardinality(S) <= 1
           /\ S # {} => Cardinality(S) = 1
<1>1. CASE S = {}
  BY <1>1, FS_EmptySet
<1>2. CASE S # {}
  <2>1. PICK x \in S : S = {x}
    BY <1>2
  <2> QED
    <3>1. IsFiniteSet(S) /\ Cardinality(S) = 1
      BY <2>1, FS_Singleton
    <3> QED
      BY <3>1
<1> QED
  BY <1>1, <1>2

(* What holds of the empty sequence and of every sequence that is one      *)
(* longer holds of all: S is the set of those it holds of.                 *)
LEMMA Lengthen ==
    ASSUME NEW A, NEW S, <<>> \in S,
           \A s \in Seq(A) : \A x \in A : s \in S => Append(s, x) \in S
    PROVE  Seq(A) \subseteq S
<1> SUFFICES ASSUME NEW t \in Seq(A) PROVE t \in S
  OBVIOUS
<1> DEFINE n == Len(t)
<1> DEFINE T == {m \in 0..n : SubSeq(t, 1, m) \in S}
<1>1. n \in Nat
  OBVIOUS
<1>2. 0 \in T
  <2>1. SubSeq(t, 1, 0) = <<>>
    OBVIOUS
  <2>2. 0 \in 0..n
    BY <1>1
  <2> QED
    BY <2>1, <2>2
<1>3. ASSUME NEW m \in 0..n, m \in T, m < n PROVE m + 1 \in T
  <2>1. SubSeq(t, 1, m) \in Seq(A) /\ t[m + 1] \in A
    BY <1>1, <1>3
  <2>2. SubSeq(t, 1, m + 1) = Append(SubSeq(t, 1, m), t[m + 1])
    BY <1>1, <1>3
  <2>3. SubSeq(t, 1, m) \in S
    BY <1>3
  <2>4. SubSeq(t, 1, m + 1) \in S
    BY <2>1, <2>2, <2>3
  <2> QED
    BY <1>1, <1>3, <2>4
<1>4. n \in 0..n
  BY <1>1
<1> HIDE DEF T
<1>5. n \in T
  BY <1>1, <1>2, <1>3, <1>4, Count
<1>6. SubSeq(t, 1, n) = t
  OBVIOUS
<1> QED
  BY <1>5, <1>6 DEF T

Message == [role : {"assistant", "tool"}, calls : Seq(Call)]

(* One call and its answer, and what one message is flattened to.          *)
Couple(c) == <<CallMessage(<<c>>), ToolMessage(c)>>
Flat(m) == IF m.role = "tool" THEN <<>>
           ELSE IF m.calls = <<>> THEN <<m>> ELSE Pairs(m.calls)

(* What the engine appends is a message.                                   *)
LEMMA MessageTypes ==
    /\ \A c \in Call : /\ ToolMessage(c) \in Message /\ CallMessage(<<c>>) \in Message
                       /\ Couple(c) \in Seq(Message)
    /\ \A cs \in Seq(Call) : CallMessage(cs) \in Message
<1>1. \A cs \in Seq(Call) : CallMessage(cs) \in Message
  BY DEF CallMessage, Message
<1>2. \A c \in Call : <<c>> \in Seq(Call)
  OBVIOUS
<1>3. \A c \in Call : ToolMessage(c) \in Message
  BY <1>2 DEF ToolMessage, Message
<1>4. \A c \in Call : CallMessage(<<c>>) \in Message
  BY <1>1, <1>2
<1>5. \A x, y \in Message : <<x, y>> \in Seq(Message)
  OBVIOUS
<1>6. \A c \in Call : Couple(c) \in Seq(Message)
  BY <1>3, <1>4, <1>5 DEF Couple
<1> QED
  BY <1>1, <1>3, <1>4, <1>6

(* A map over a sequence that is one longer.                               *)
IsMap(f, A, B) == f \in [A -> B]
Along(f, s) == [i \in DOMAIN s |-> f[s[i]]]

(* It is one longer too.                                                   *)
LEMMA MapAppend ==
    ASSUME NEW A, NEW B, NEW f, IsMap(f, A, B), NEW s \in Seq(A), NEW x \in A
    PROVE  /\ Along(f, s) \in Seq(B)
           /\ Along(f, Append(s, x)) = Append(Along(f, s), f[x])
<1> DEFINE t == Append(s, x)
<1> DEFINE u == [i \in DOMAIN s |-> f[s[i]]]
<1> DEFINE v == [i \in DOMAIN t |-> f[t[i]]]
<1>0. f \in [A -> B]
  BY DEF IsMap
<1>1. s \in [1..Len(s) -> A] /\ Len(s) \in Nat /\ DOMAIN s = 1..Len(s)
  OBVIOUS
<1>2. u \in [1..Len(s) -> B]
  BY <1>0, <1>1
<1>3. u \in Seq(B) /\ Len(u) = Len(s) /\ f[x] \in B
  BY <1>0, <1>1, <1>2
<1>4. t \in Seq(A) /\ Len(t) = Len(s) + 1 /\ DOMAIN t = 1..(Len(s) + 1)
  OBVIOUS
<1>5. /\ \A i \in 1..Len(s) : t[i] = s[i]
      /\ t[Len(s) + 1] = x
  OBVIOUS
<1> DEFINE w == Append(u, f[x])
<1>6. \A i \in 1..(Len(s) + 1) : v[i] = IF i = Len(s) + 1 THEN f[x] ELSE u[i]
  BY <1>1, <1>4, <1>5
<1> HIDE DEF u, t
<1>7. w = [i \in 1..(Len(s) + 1) |-> IF i = Len(s) + 1 THEN f[x] ELSE u[i]]
  BY <1>3
<1>8. v = [i \in 1..(Len(s) + 1) |-> IF i = Len(s) + 1 THEN f[x] ELSE u[i]]
  BY <1>4, <1>6
<1> QED
  BY <1>3, <1>7, <1>8 DEF u, t, Along

(* The pairs of a sequence that is one longer.                             *)
LEMMA PairsAppend ==
    /\ Pairs(<<>>) = <<>>
    /\ \A o \in Seq(Call) : \A c \in Call :
          Pairs(o) \in Seq(Message) /\ Pairs(Append(o, c)) = Pairs(o) \o Couple(c)
<1> DEFINE f == [c \in Call |-> Couple(c)]
<1>1. IsMap(f, Call, Seq(Message))
  BY MessageTypes DEF IsMap
<1>2. \A o \in Seq(Call) : Pairs(o) = FlattenSeq(Along(f, o))
  <2> TAKE o \in Seq(Call)
  <2>1. \A i \in DOMAIN o : o[i] \in Call
    OBVIOUS
  <2>2. Along(f, o) = [i \in DOMAIN o |-> <<CallMessage(<<o[i]>>), ToolMessage(o[i])>>]
    BY <2>1 DEF Couple, Along
  <2> QED
    BY <2>2 DEF Pairs
<1>3. Pairs(<<>>) = <<>>
  <2>1. [i \in DOMAIN <<>> |-> <<CallMessage(<<(<<>>)[i]>>), ToolMessage((<<>>)[i])>>] = <<>>
    OBVIOUS
  <2>2. FlattenSeq(<<>>) = <<>>
    BY DEF FlattenSeq
  <2> QED
    BY <2>1, <2>2 DEF Pairs
<1>4. ASSUME NEW o \in Seq(Call), NEW c \in Call
      PROVE  Pairs(o) \in Seq(Message) /\ Pairs(Append(o, c)) = Pairs(o) \o Couple(c)
  <2>1. f[c] = Couple(c)
    OBVIOUS
  <2>2. Couple(c) \in Seq(Message)
    BY MessageTypes
  <2>3. Append(o, c) \in Seq(Call)
    OBVIOUS
  <2> HIDE DEF f
  <2>4. Along(f, o) \in Seq(Seq(Message)) /\ Along(f, Append(o, c)) = Append(Along(f, o), f[c])
    BY <1>1, MapAppend
  <2>5. /\ FlattenSeq(Along(f, o)) \in Seq(Message)
        /\ FlattenSeq(Append(Along(f, o), f[c])) = FlattenSeq(Along(f, o)) \o f[c]
    BY <2>1, <2>2, <2>4, FlatAppend
  <2> QED
    BY <1>2, <2>1, <2>3, <2>4, <2>5
<1> QED
  BY <1>3, <1>4

(* Pairs are messages.                                                     *)
LEMMA PairsTyped == \A o \in Seq(Call) : Pairs(o) \in Seq(Message)
<1>1. CASE Call = {}
  <2>1. \A o \in Seq(Call) : o = <<>>
    BY <1>1
  <2>2. <<>> \in Seq(Message)
    OBVIOUS
  <2> QED
    BY <2>1, <2>2, PairsAppend
<1>2. CASE Call # {}
  BY <1>2, PairsAppend
<1> QED
  BY <1>1, <1>2

(* Flattening goes message by message.                                     *)
LEMMA FlattenAppend ==
    /\ Flatten(<<>>) = <<>>
    /\ \A m \in Message : Flat(m) \in Seq(Message)
    /\ \A ms \in Seq(Message) : \A m \in Message :
          Flatten(ms) \in Seq(Message) /\ Flatten(Append(ms, m)) = Flatten(ms) \o Flat(m)
<1> DEFINE f == [m \in Message |-> Flat(m)]
<1>1. \A m \in Message : Flat(m) \in Seq(Message)
  <2> TAKE m \in Message
  <2>1. m.calls \in Seq(Call)
    BY DEF Message
  <2>2. Pairs(m.calls) \in Seq(Message)
    BY <2>1, PairsTyped
  <2>3. <<>> \in Seq(Message) /\ <<m>> \in Seq(Message)
    OBVIOUS
  <2> QED
    BY <2>2, <2>3 DEF Flat
<1>2. IsMap(f, Message, Seq(Message))
  BY <1>1 DEF IsMap
<1>3. \A ms \in Seq(Message) : Flatten(ms) = FlattenSeq(Along(f, ms))
  <2> TAKE ms \in Seq(Message)
  <2>1. \A i \in DOMAIN ms : ms[i] \in Message
    OBVIOUS
  <2>2. Along(f, ms) = [i \in DOMAIN ms |-> IF ms[i].role = "tool" THEN <<>>
                  ELSE IF ms[i].calls = <<>> THEN <<ms[i]>>
                  ELSE Pairs(ms[i].calls)]
    BY <2>1 DEF Flat, Along
  <2> QED
    BY <2>2 DEF Flatten
<1>4. Flatten(<<>>) = <<>>
  <2>1. Along(f, <<>>) = <<>> /\ <<>> \in Seq(Message)
    BY DEF Along
  <2>2. FlattenSeq(<<>>) = <<>>
    BY DEF FlattenSeq
  <2> HIDE DEF f
  <2> QED
    BY <1>3, <2>1, <2>2
<1>5. ASSUME NEW ms \in Seq(Message), NEW m \in Message
      PROVE  Flatten(ms) \in Seq(Message) /\ Flatten(Append(ms, m)) = Flatten(ms) \o Flat(m)
  <2>1. f[m] = Flat(m) /\ Flat(m) \in Seq(Message) /\ Append(ms, m) \in Seq(Message)
    BY <1>1
  <2> HIDE DEF f
  <2>2. Along(f, ms) \in Seq(Seq(Message)) /\ Along(f, Append(ms, m)) = Append(Along(f, ms), f[m])
    BY <1>2, MapAppend
  <2>3. /\ FlattenSeq(Along(f, ms)) \in Seq(Message)
        /\ FlattenSeq(Append(Along(f, ms), f[m])) = FlattenSeq(Along(f, ms)) \o f[m]
    BY <2>1, <2>2, FlatAppend
  <2> QED
    BY <1>3, <2>1, <2>2, <2>3
<1> QED
  BY <1>1, <1>4, <1>5

(* The pairs of two sequences, one behind the other.                       *)
LEMMA PairsConcat ==
    \A o, cs \in Seq(Call) : Pairs(o \o cs) = Pairs(o) \o Pairs(cs)
<1> SUFFICES ASSUME NEW o \in Seq(Call)
             PROVE  \A cs \in Seq(Call) : Pairs(o \o cs) = Pairs(o) \o Pairs(cs)
  OBVIOUS
<1> DEFINE S == {cs \in Seq(Call) : Pairs(o \o cs) = Pairs(o) \o Pairs(cs)}
<1>1. <<>> \in S
  <2>1. o \o <<>> = o
    OBVIOUS
  <2>2. Pairs(o) \o <<>> = Pairs(o)
    BY PairsTyped
  <2>3. <<>> \in Seq(Call)
    OBVIOUS
  <2> QED
    BY <2>1, <2>2, <2>3, PairsAppend
<1>2. ASSUME NEW cs \in Seq(Call), NEW c \in Call, cs \in S PROVE Append(cs, c) \in S
  <2>1. o \o Append(cs, c) = Append(o \o cs, c) /\ o \o cs \in Seq(Call)
    OBVIOUS
  <2>2. Pairs(Append(o \o cs, c)) = Pairs(o \o cs) \o Couple(c)
    BY <2>1, PairsAppend
  <2>3. Pairs(Append(cs, c)) = Pairs(cs) \o Couple(c)
    BY PairsAppend
  <2>4. Pairs(o) \in Seq(Message) /\ Pairs(cs) \in Seq(Message) /\ Couple(c) \in Seq(Message)
    BY PairsTyped, MessageTypes
  <2>5. Pairs(o \o cs) = Pairs(o) \o Pairs(cs)
    BY <1>2
  <2>6. (Pairs(o) \o Pairs(cs)) \o Couple(c) = Pairs(o) \o (Pairs(cs) \o Couple(c))
    BY <2>4, ConcatAssociative
  <2>7. Append(cs, c) \in Seq(Call)
    OBVIOUS
  <2> QED
    BY <2>1, <2>2, <2>3, <2>5, <2>6, <2>7
<1> HIDE DEF S
<1>3. Seq(Call) \subseteq S
  BY <1>1, <1>2, Lengthen
<1> QED
  BY <1>3 DEF S

(* Sequences one behind the other.                                         *)
LEMMA ConcatAppend ==
    \A u, v \in Seq(Call) : \A x \in Call : Append(u \o v, x) = u \o Append(v, x)
  OBVIOUS

(* The members of two sequences.                                           *)
LEMMA ConcatSet ==
    ASSUME NEW A, NEW u \in Seq(A), NEW v \in Seq(A)
    PROVE  ToSet(u \o v) = ToSet(u) \cup ToSet(v)
<1>1. /\ \A i \in 1..Len(u) : i \in 1..Len(u \o v) /\ (u \o v)[i] = u[i]
      /\ \A i \in 1..Len(v) : Len(u) + i \in 1..Len(u \o v) /\ (u \o v)[Len(u) + i] = v[i]
      /\ \A j \in 1..Len(u \o v) : j \in 1..Len(u) \/ \E i \in 1..Len(v) : j = Len(u) + i
  <2>1. Len(u \o v) = Len(u) + Len(v) /\ Len(u) \in Nat /\ Len(v) \in Nat
    OBVIOUS
  <2>2. \A j \in 1..(Len(u) + Len(v)) : j \in 1..Len(u) \/ j - Len(u) \in 1..Len(v)
    BY <2>1
  <2>3. \A j \in 1..Len(u \o v) : j = Len(u) + (j - Len(u))
    BY <2>1
  <2>4. /\ \A i \in 1..Len(u) : i \in 1..Len(u \o v) /\ (u \o v)[i] = u[i]
        /\ \A i \in 1..Len(v) : Len(u) + i \in 1..Len(u \o v) /\ (u \o v)[Len(u) + i] = v[i]
    OBVIOUS
  <2> QED
    BY <2>1, <2>2, <2>3, <2>4
<1>2. DOMAIN u = 1..Len(u) /\ DOMAIN v = 1..Len(v) /\ DOMAIN (u \o v) = 1..Len(u \o v)
  OBVIOUS
<1>3. /\ \A x : x \in ToSet(u) <=> \E i \in 1..Len(u) : x = u[i]
      /\ \A x : x \in ToSet(v) <=> \E i \in 1..Len(v) : x = v[i]
      /\ \A x : x \in ToSet(u \o v) <=> \E i \in 1..Len(u \o v) : x = (u \o v)[i]
  BY <1>2 DEF ToSet
<1>4. ASSUME NEW x, x \in ToSet(u \o v) PROVE x \in ToSet(u) \cup ToSet(v)
  <2>1. PICK j \in 1..Len(u \o v) : x = (u \o v)[j]
    BY <1>3, <1>4
  <2>2. CASE j \in 1..Len(u)
    BY <1>1, <1>3, <2>1, <2>2
  <2>3. ASSUME NEW i \in 1..Len(v), j = Len(u) + i PROVE x \in ToSet(v)
    BY <1>1, <1>3, <2>1, <2>3
  <2> QED
    BY <1>1, <2>1, <2>2, <2>3
<1>5. ASSUME NEW x, x \in ToSet(u) \cup ToSet(v) PROVE x \in ToSet(u \o v)
  BY <1>1, <1>3, <1>5
<1> QED
  BY <1>4, <1>5

(* Two messages appended to a sequence.                                    *)
LEMMA CoupleAppended ==
    ASSUME NEW u \in Seq(Message), NEW c \in Call
    PROVE  u \o Couple(c) = Append(Append(u, CallMessage(<<c>>)), ToolMessage(c))
<1>1. CallMessage(<<c>>) \in Message /\ ToolMessage(c) \in Message
  BY MessageTypes
<1>2. \A x, y \in Message : u \o <<x, y>> = Append(Append(u, x), y)
  OBVIOUS
<1> QED
  BY <1>1, <1>2 DEF Couple

(* The messages of one call and its answer are flat already.               *)
LEMMA CoupleFlat ==
    ASSUME NEW c \in Call
    PROVE  /\ Flat(CallMessage(<<c>>)) = Couple(c)
           /\ Flat(ToolMessage(c)) = <<>>
<1>1. CallMessage(<<c>>).role = "assistant" /\ CallMessage(<<c>>).calls = <<c>> /\ <<c>> # <<>>
  BY DEF CallMessage
<1>2. Flat(CallMessage(<<c>>)) = Pairs(<<c>>)
  BY <1>1 DEF Flat
<1>3. Append(<<>>, c) = <<c>> /\ <<>> \in Seq(Call)
  OBVIOUS
<1>4. Pairs(<<c>>) = <<>> \o Couple(c)
  BY <1>3, PairsAppend
<1>5. <<>> \o Couple(c) = Couple(c)
  BY MessageTypes
<1> QED
  BY <1>2, <1>4, <1>5 DEF Flat, ToolMessage

(* What is flat is left alone.                                             *)
LEMMA FlattenPairs == \A o \in Seq(Call) : Flatten(Pairs(o)) = Pairs(o)
<1> DEFINE S == {o \in Seq(Call) : Flatten(Pairs(o)) = Pairs(o)}
<1>1. <<>> \in S
  BY PairsAppend, FlattenAppend
<1>2. ASSUME NEW o \in Seq(Call), NEW c \in Call, o \in S PROVE Append(o, c) \in S
  <2> DEFINE u == Pairs(o)
  <2> DEFINE x == CallMessage(<<c>>)
  <2> DEFINE y == ToolMessage(c)
  <2>1. u \in Seq(Message) /\ x \in Message /\ y \in Message /\ Couple(c) \in Seq(Message)
    BY PairsTyped, MessageTypes
  <2>2. Pairs(Append(o, c)) = u \o Couple(c)
    BY PairsAppend
  <2>3. u \o Couple(c) = Append(Append(u, x), y)
    BY <2>1, CoupleAppended
  <2>4. Flat(x) = Couple(c) /\ Flat(y) = <<>>
    BY CoupleFlat
  <2>5. Flatten(u) = u
    BY <1>2
  <2> HIDE DEF u, x, y
  <2>6. Append(u, x) \in Seq(Message)
    BY <2>1
  <2>7. Flatten(Append(u, x)) = u \o Couple(c)
    BY <2>1, <2>4, <2>5, FlattenAppend
  <2>8. Flatten(Append(Append(u, x), y)) = (u \o Couple(c)) \o <<>>
    BY <2>1, <2>4, <2>6, <2>7, FlattenAppend
  <2>9. (u \o Couple(c)) \o <<>> = u \o Couple(c)
    BY <2>1
  <2>10. Append(o, c) \in Seq(Call)
    OBVIOUS
  <2> QED
    BY <2>2, <2>3, <2>8, <2>9, <2>10
<1> HIDE DEF S
<1>3. Seq(Call) \subseteq S
  BY <1>1, <1>2, Lengthen
<1> QED
  BY <1>3 DEF S

(* Answers behind the messages change nothing of what these are flattened  *)
(* to.                                                                     *)
LEMMA FlattenAnswer ==
    ASSUME NEW ms \in Seq(Message), NEW c \in Call
    PROVE  Append(ms, ToolMessage(c)) \in Seq(Message)
           /\ Flatten(Append(ms, ToolMessage(c))) = Flatten(ms)
<1>1. ToolMessage(c) \in Message /\ Flat(ToolMessage(c)) = <<>>
  BY MessageTypes, CoupleFlat
<1>2. Flatten(Append(ms, ToolMessage(c))) = Flatten(ms) \o <<>> /\ Flatten(ms) \in Seq(Message)
  BY <1>1, FlattenAppend
<1>3. Flatten(ms) \o <<>> = Flatten(ms)
  BY <1>2
<1> QED
  BY <1>1, <1>2, <1>3

(* And many answers.                                                       *)
LEMMA FlattenAnswers ==
    ASSUME NEW ms \in Seq(Message)
    PROVE  \A cs \in Seq(Call) : /\ ms \o ToolMessages(cs) \in Seq(Message)
                                 /\ Flatten(ms \o ToolMessages(cs)) = Flatten(ms)
<1> DEFINE S == {cs \in Seq(Call) : /\ ms \o ToolMessages(cs) \in Seq(Message)
                                    /\ Flatten(ms \o ToolMessages(cs)) = Flatten(ms)}
<1>1. <<>> \in S
  <2>1. ToolMessages(<<>>) = <<>>
    BY DEF ToolMessages
  <2>2. ms \o <<>> = ms /\ <<>> \in Seq(Call)
    OBVIOUS
  <2> QED
    BY <2>1, <2>2
<1>2. ASSUME NEW cs \in Seq(Call), NEW c \in Call, cs \in S PROVE Append(cs, c) \in S
  <2>0. \A x \in Call : ToolMessage(x) \in Message
    BY MessageTypes
  <2> DEFINE f == [x \in Call |-> ToolMessage(x)]
  <2>1. IsMap(f, Call, Message)
    BY <2>0 DEF IsMap
  <2>2. \A s \in Seq(Call) : ToolMessages(s) = Along(f, s)
    BY DEF ToolMessages, Along
  <2>3. f[c] = ToolMessage(c)
    OBVIOUS
  <2> HIDE DEF f
  <2>4. Along(f, cs) \in Seq(Message) /\ Along(f, Append(cs, c)) = Append(Along(f, cs), f[c])
    BY <2>1, MapAppend
  <2>5. Append(cs, c) \in Seq(Call)
    OBVIOUS
  <2>6. /\ ToolMessages(cs) \in Seq(Message)
        /\ ToolMessages(Append(cs, c)) = Append(ToolMessages(cs), ToolMessage(c))
    BY <2>2, <2>3, <2>4, <2>5
  <2>7. \A t \in Seq(Message) : \A x \in Message : ms \o Append(t, x) = Append(ms \o t, x)
    OBVIOUS
  <2>8. ms \o ToolMessages(Append(cs, c)) = Append(ms \o ToolMessages(cs), ToolMessage(c))
    BY <2>0, <2>6, <2>7
  <2>9. ms \o ToolMessages(cs) \in Seq(Message) /\ Flatten(ms \o ToolMessages(cs)) = Flatten(ms)
    BY <1>2
  <2>10. /\ Append(ms \o ToolMessages(cs), ToolMessage(c)) \in Seq(Message)
         /\ Flatten(Append(ms \o ToolMessages(cs), ToolMessage(c))) = Flatten(ms)
    BY <2>9, FlattenAnswer
  <2> QED
    BY <2>5, <2>8, <2>10
<1> HIDE DEF S
<1>3. Seq(Call) \subseteq S
  BY <1>1, <1>2, Lengthen
<1> QED
  BY <1>3 DEF S

(* What the pairs are, one by one.                                         *)
LEMMA PairsAre ==
    ASSUME NEW o \in Seq(Call)
    PROVE  /\ Len(Pairs(o)) = 2 * Len(o)
           /\ \A i \in 1..Len(o) : /\ Pairs(o)[2 * i - 1] = CallMessage(<<o[i]>>)
                                   /\ Pairs(o)[2 * i] = ToolMessage(o[i])
<1> DEFINE a == [i \in 1..Len(o) |-> CallMessage(<<o[i]>>)]
<1> DEFINE b == [i \in 1..Len(o) |-> ToolMessage(o[i])]
<1>1. Len(o) \in Nat /\ DOMAIN o = 1..Len(o) /\ \A i \in 1..Len(o) : o[i] \in Call
  OBVIOUS
<1>2. a \in [1..Len(o) -> Message] /\ b \in [1..Len(o) -> Message]
  BY <1>1, MessageTypes
<1>3. Paired(a, b) = [i \in DOMAIN o |-> <<CallMessage(<<o[i]>>), ToolMessage(o[i])>>]
  BY <1>1 DEF Paired
<1>4. Pairs(o) = FlattenSeq(Paired(a, b))
  BY <1>3 DEF Pairs
<1>5. \A i \in 1..Len(o) : a[i] = CallMessage(<<o[i]>>) /\ b[i] = ToolMessage(o[i])
  OBVIOUS
<1> HIDE DEF a, b
<1>6. AllPairs(Pairs(o), Len(o), a, b, Message)
  BY <1>1, <1>2, <1>4 DEF AllPairs
<1>7. /\ Len(Pairs(o)) = 2 * Len(o)
      /\ \A i \in 1..Len(o) : Pairs(o)[2 * i - 1] = a[i] /\ Pairs(o)[2 * i] = b[i]
  BY <1>6, TwoByTwo
<1> QED
  BY <1>5, <1>7

-----------------------------------------------------------------------------
(* What the model reads.                                                   *)

Grown(w, x) == \A i \in DOMAIN w : i \in DOMAIN x /\ x[i] = w[i]

(* Two calls, and all calls of a sequence, were shown in this order.       *)
Before(w, c, d) == \E m, n \in DOMAIN w : m < n /\ Starts(w, m, Use(c)) /\ Starts(w, n, Use(d))

Told(w, o) ==
    /\ o \in Seq(Call) /\ IsInjective(o)
    /\ \A i, j \in DOMAIN o : i < j => Before(w, o[i], o[j])

(* What was shown in order stays so.                                       *)
LEMMA ToldLater ==
    ASSUME NEW w, NEW x, NEW o, Grown(w, x), Told(w, o)
    PROVE  Told(x, o)
<1>1. \A c, d : Before(w, c, d) => Before(x, c, d)
  BY DEF Grown, Before, Starts
<1> QED
  BY <1>1 DEF Told

TurnStep == TurnInv /\ TurnInv' /\ Next

(* The wire only grows.                                                    *)
LEMMA WireGrows == TurnStep => Grown(wire, wire')
<1> SUFFICES ASSUME TurnStep PROVE Grown(wire, wire')
  OBVIOUS
<1>0. Once /\ count \in Nat /\ index \in Nat /\ WireInv /\ IndInv /\ CallStates /\ Next
  BY DEF TurnStep, TurnInv, WireInv, Indexed
<1>1. ASSUME NEW v, IsBehind(v, wire, wire') PROVE Grown(wire, wire')
  BY <1>1, Behind DEF Grown
<1>2. ASSUME NEW v, NEW B, NEW E, Puts(v, B, E) PROVE Grown(wire, wire')
  <2>1. IsBehind(v, wire, wire')
    BY <1>0, <1>2 DEF IsBehind, Puts, Piece, Once
  <2> QED
    BY <1>1, <2>1
<1>3. CASE Rests
  BY <1>3 DEF Rests, Grown
<1>4. CASE StopsOnly \/ ShowsOne \/ Injects
  BY <1>2, <1>4 DEF StopsOnly, ShowsOne, Injects
<1>5. CASE Resume
  BY <1>0, <1>2, <1>5, ResumePuts
<1>6. CASE Close
  <2>1. IsBehind(<<MessageStop>>, wire, wire')
    BY <1>0, <1>6, Events, AppendIsConcat DEF Close, IsBehind, Once
  <2> QED
    BY <1>1, <2>1
<1> QED
  BY <1>0, <1>3, <1>4, <1>5, <1>6, Moves

(* A call is shown behind all calls before it.                             *)
LEMMA ToldNext ==
    ASSUME TurnStep, NEW c \in Call, OpenCall(c), NEW o, Told(wire, o),
           \A i \in DOMAIN o : kind[o[i]] # None
    PROVE  Told(wire', Append(o, c))
<1>1. Grown(wire, wire')
  BY WireGrows
<1>2. o \in Seq(Call) /\ IsInjective(o) /\ Told(wire', o)
  BY <1>1, ToldLater DEF Told
<1>3. kind[c] = None /\ kind'[c] # None
  BY NoneAssumption DEF OpenCall, ShowCall, TurnStep, TurnInv, IndInv, Tasks
<1>4. Use(c) \notin Started /\ Use(c) \in Started'
  BY <1>3 DEF TurnStep, TurnInv, WireInv, Named
<1>5. PICK n \in DOMAIN wire' : Starts(wire', n, Use(c)) /\ n \notin DOMAIN wire
  <2>1. PICK n \in DOMAIN wire' : Starts(wire', n, Use(c))
    BY <1>4, StartedStoppedNext
  <2>2. n \notin DOMAIN wire
    BY <1>1, <1>4, <2>1, StartedStopped DEF Grown, Starts
  <2> QED
    BY <2>1, <2>2
<1>6. \A m \in DOMAIN wire : m \in DOMAIN wire' /\ m < n
  <2>1. wire \in Seq(Event) /\ wire' \in Seq(Event)
    BY DEF TurnStep, TurnInv, WireInv, Once
  <2>2. n \in Nat /\ n > 0 /\ \A m \in DOMAIN wire : m \in 1..Len(wire)
    BY <2>1
  <2>3. Len(wire) \in Nat /\ n > Len(wire)
    BY <1>5, <2>1, <2>2
  <2> QED
    BY <1>1, <2>2, <2>3 DEF Grown
<1>7. ASSUME NEW i \in DOMAIN o PROVE Before(wire', o[i], c) /\ o[i] # c
  <2>1. o[i] \in Call /\ kind[o[i]] # None
    BY <1>2
  <2>2. PICK m \in DOMAIN wire : Starts(wire, m, Use(o[i]))
    BY <2>1, StartedStopped DEF TurnStep, TurnInv, WireInv, Named
  <2>3. Starts(wire', m, Use(o[i]))
    BY <1>1, <2>2 DEF Grown, Starts
  <2> QED
    BY <1>3, <1>5, <1>6, <2>1, <2>3 DEF Before
<1> DEFINE q == Append(o, c)
<1>8. /\ q \in Seq(Call) /\ DOMAIN q = 1..(Len(o) + 1) /\ DOMAIN o = 1..Len(o) /\ Len(o) \in Nat
      /\ \A i \in 1..Len(o) : q[i] = o[i]
      /\ q[Len(o) + 1] = c
  BY <1>2
<1> HIDE DEF q
<1>9. IsInjective(q)
  <2> SUFFICES ASSUME NEW i \in DOMAIN q, NEW j \in DOMAIN q, q[i] = q[j] PROVE i = j
    BY DEF IsInjective
  <2>1. CASE i \in DOMAIN o /\ j \in DOMAIN o
    BY <1>2, <1>8, <2>1 DEF IsInjective
  <2>2. CASE i \notin DOMAIN o /\ j \notin DOMAIN o
    BY <1>8, <2>2
  <2>3. CASE i \in DOMAIN o /\ j \notin DOMAIN o
    <3>1. j = Len(o) + 1
      BY <1>8, <2>3
    <3> QED
      BY <1>7, <1>8, <2>3, <3>1
  <2>4. CASE i \notin DOMAIN o /\ j \in DOMAIN o
    <3>1. i = Len(o) + 1
      BY <1>8, <2>4
    <3> QED
      BY <1>7, <1>8, <2>4, <3>1
  <2> QED
    BY <2>1, <2>2, <2>3, <2>4
<1>10. ASSUME NEW i \in DOMAIN q, NEW j \in DOMAIN q, i < j PROVE Before(wire', q[i], q[j])
  <2>1. i \in DOMAIN o /\ (j \in DOMAIN o \/ j = Len(o) + 1)
    BY <1>8, <1>10
  <2>2. CASE j \in DOMAIN o
    BY <1>2, <1>8, <1>10, <2>1, <2>2 DEF Told
  <2>3. CASE j = Len(o) + 1
    BY <1>7, <1>8, <2>1, <2>3
  <2> QED
    BY <2>1, <2>2, <2>3
<1> QED
  BY <1>8, <1>9, <1>10 DEF Told, q

(* The messages tell of the calls in the order these were shown: of all of *)
(* them between two iterations, of those before it during one, and once    *)
(* the response was folded of its own behind these.                        *)
Asks(o) ==
    /\ Told(wire, o)
    /\ pc \in {"loop", "before"} =>
          /\ \A c \in Call : kind[c] # None <=> c \in ToSet(o)
          /\ messages = Pairs(o)
    /\ pc \in {"stream", "fold", "gather", "waiting", "after"} =>
          ToSet(o) = Earlier /\ Told(wire, o \o calls)
    /\ pc \in {"stream", "fold"} => Flatten(messages) = Pairs(o)
    /\ pc \in {"gather", "waiting", "after"} => Flatten(messages) = Pairs(o \o calls)

(* And so does the last prompt.                                            *)
Prompted(o) ==
    /\ Told(wire, o) /\ prompt = Pairs(o)
    /\ pc \in {"stream", "fold"} => ToSet(o) = Earlier

Answering == messages \in Seq(Message) /\ (\E o : Asks(o)) /\ (\E o : Prompted(o))

(* A step of which the messages tell nothing new.                          *)
Keeps ==
    /\ kind' = kind /\ calls' = calls /\ prompt' = prompt
    /\ messages' \in Seq(Message) /\ Flatten(messages') = Flatten(messages)
    /\ pc' \in {"loop", "before"} => pc = pc' /\ messages' = messages
    /\ pc' \in {"stream", "fold"} => pc \in {"stream", "fold"}
    /\ pc' \in {"gather", "waiting", "after"} => pc \in {"gather", "waiting", "after"}

(* Every step is one of these.                                             *)
LEMMA Tells ==
    ASSUME TurnStep, messages \in Seq(Message)
    PROVE  Keeps \/ StartIteration \/ AskModel \/ Fold \/ AfterIteration \/ \E d \in Call : OpenCall(d)
<1>0. messages \in Seq(Message) /\ TurnInv /\ Next
  BY DEF TurnStep
<1>1. CASE StartIteration
  BY <1>1
<1>2. CASE Exhausted
  BY <1>0, <1>2 DEF Exhausted, Keeps, made, history, Ends
<1>3. CASE Inject
  BY <1>0, <1>3 DEF Inject, Keeps, made, history, Ends
<1>4. CASE AskModel
  BY <1>4
<1>5. CASE StreamText
  BY <1>0, <1>5 DEF StreamText, Keeps, made, history, Ends
<1>6. CASE StreamBlank
  BY <1>0, <1>6 DEF StreamBlank, Keeps, made, history, Ends
<1>7. CASE EndStream
  BY <1>0, <1>7 DEF EndStream, Keeps, made, history, Ends
<1>8. CASE Fold
  BY <1>8
<1>9. CASE Gather
  BY <1>0, <1>9 DEF Gather, Results, Keeps, made, history, Ends
<1>10. CASE AfterIteration
  BY <1>10
<1>11. CASE Resume
  <2>1. pc = "waiting" /\ pc' \in {"close", "after"} /\ messages' = messages \o ToolMessages(Responses)
    BY <1>11 DEF Resume, ContinueTools
  <2>2. Responses \in Seq(Call)
    BY <1>0, <2>1, ResponsesOfAll DEF TurnInv
  <2>3. messages' \in Seq(Message) /\ Flatten(messages') = Flatten(messages)
    BY <1>0, <2>1, <2>2, FlattenAnswers
  <2>4. kind' = kind /\ calls' = calls /\ prompt' = prompt
    BY <1>11 DEF Resume, ContinueTools, made, history
  <2> QED
    BY <2>1, <2>3, <2>4 DEF Keeps
<1>12. CASE Close
  BY <1>0, <1>12 DEF Close, Keeps, made, history, Ends
<1>13. CASE Abort
  BY <1>0, <1>13 DEF Abort, Keeps, made, history, Ends
<1>14. ASSUME NEW c \in Call, OpenCall(c) PROVE Keeps \/ StartIteration \/ AskModel \/ Fold \/ AfterIteration \/ \E d \in Call : OpenCall(d)
  BY <1>14
<1>15. ASSUME NEW c \in Call, Answer(c) PROVE Keeps \/ StartIteration \/ AskModel \/ Fold \/ AfterIteration \/ \E d \in Call : OpenCall(d)
  <2>1. pc \notin {"loop", "before"} /\ messages' \in Seq(Message)
        /\ Flatten(messages') = Flatten(messages)
    <3>1. pc \notin {"loop", "before"}
      BY <1>0, <1>15 DEF Answer, TurnInv, IndInv, Gathered, Live
    <3>2. messages' = messages \/ messages' = Append(messages, ToolMessage(c))
      BY <1>15 DEF Answer
    <3> QED
      BY <1>0, <3>1, <3>2, FlattenAnswer
  <2> QED
    BY <1>15, <2>1 DEF Answer, Keeps, made, history
<1>16. ASSUME NEW c \in Call, Pass(c) PROVE Keeps \/ StartIteration \/ AskModel \/ Fold \/ AfterIteration \/ \E d \in Call : OpenCall(d)
  BY <1>0, <1>16 DEF Pass, Keeps, made, history, Ends
<1>17. ASSUME NEW c \in Call, Dispatch(c) PROVE Keeps \/ StartIteration \/ AskModel \/ Fold \/ AfterIteration \/ \E d \in Call : OpenCall(d)
  BY <1>0, <1>17 DEF Dispatch, Keeps, made, history, Ends
<1>18. CASE Ended
  BY <1>0, <1>18 DEF Ended, Keeps, vars, made, history
<1> QED
  BY <1>0, <1>1, <1>2, <1>3, <1>4, <1>5, <1>6, <1>7, <1>8, <1>9, <1>10, <1>11, <1>12, <1>13, <1>14, <1>15, <1>16, <1>17, <1>18 DEF Next

(* The messages and the prompt, step by step.                              *)
LEMMA AnsweringStep == TurnStep /\ Answering => Answering'
<1> SUFFICES ASSUME TurnStep, Answering PROVE Answering'
  OBVIOUS
<1>0. messages \in Seq(Message)
  BY DEF Answering
<1>1. PICK o : Asks(o)
  BY DEF Answering
<1>2. PICK p : Prompted(p)
  BY DEF Answering
<1>3. Told(wire', o) /\ Told(wire', p)
  BY <1>1, <1>2, WireGrows, ToldLater DEF Asks, Prompted
<1>4. o \in Seq(Call) /\ p \in Seq(Call) /\ calls \in Seq(Call)
  BY <1>1, <1>2 DEF Asks, Prompted, Told, TurnStep, TurnInv, IndInv, Gathered
<1>5. \A c \in Call : c \in ToSet(calls) => kind[c] # None
  BY DEF TurnStep, TurnInv, IndInv, Gathered, ToSet
<1>6. CASE Keeps
  <2>1. Earlier' = Earlier
    BY <1>6 DEF Keeps, Earlier
  <2>2. pc' \in {"stream", "fold", "gather", "waiting", "after"} => Told(wire', o \o calls)
    BY <1>1, <1>6, WireGrows, ToldLater DEF Asks, Keeps
  <2>3. Asks(o)'
    BY <1>1, <1>3, <1>6, <2>1, <2>2 DEF Asks, Keeps
  <2>4. Prompted(p)'
    BY <1>2, <1>3, <1>6, <2>1 DEF Prompted, Keeps
  <2> QED
    BY <1>6, <2>3, <2>4 DEF Answering, Keeps
<1>7. CASE StartIteration
  <2>1. pc = "loop" /\ pc' = "before" /\ kind' = kind /\ messages' = messages /\ prompt' = prompt
    BY <1>7 DEF StartIteration, history
  <2>2. Asks(o)'
    BY <1>1, <1>3, <2>1 DEF Asks
  <2>3. Prompted(p)'
    BY <1>2, <1>3, <2>1 DEF Prompted
  <2> QED
    BY <1>0, <2>1, <2>2, <2>3 DEF Answering
<1>8. CASE AskModel
  <2>1. /\ pc = "before" /\ pc' = "stream" /\ kind' = kind /\ messages' = messages
        /\ prompt' = messages /\ calls' = <<>>
    BY <1>8 DEF AskModel, made, TurnStep, TurnInv, IndInv, Gathered
  <2>2. messages = Pairs(o) /\ \A c \in Call : kind[c] # None <=> c \in ToSet(o)
    BY <1>1, <2>1 DEF Asks
  <2>3. ToSet(o) \subseteq Call
    BY <1>4 DEF ToSet
  <2>4. ToSet(o) = Earlier'
    <3>1. ToSet(<<>>) = {}
      BY DEF ToSet
    <3> QED
      BY <2>1, <2>2, <2>3, <3>1 DEF Earlier
  <2>5. Flatten(messages') = Pairs(o)
    BY <1>4, <2>1, <2>2, FlattenPairs
  <2>6. o \o <<>> = o
    BY <1>4
  <2>7. Asks(o)'
    BY <1>3, <2>1, <2>4, <2>5, <2>6 DEF Asks
  <2>8. Prompted(o)'
    BY <1>3, <2>1, <2>2, <2>4 DEF Prompted
  <2> QED
    BY <1>0, <2>1, <2>7, <2>8 DEF Answering
<1>9. CASE Fold
  <2>1. /\ pc = "fold" /\ kind' = kind /\ calls' = calls /\ prompt' = prompt
        /\ messages' = Append(messages, CallMessage(calls))
        /\ IF calls = <<>> THEN pc' = "close" ELSE pc' = "gather"
    BY <1>9 DEF Fold, made, history
  <2>2. ToSet(o) = Earlier /\ Told(wire, o \o calls) /\ Flatten(messages) = Pairs(o)
    BY <1>1, <2>1 DEF Asks
  <2>3. Earlier' = Earlier /\ Told(wire', o \o calls)
    BY <2>1, <2>2, WireGrows, ToldLater DEF Earlier
  <2>4. CallMessage(calls) \in Message
    BY <1>4, MessageTypes
  <2>5. calls # <<>> => Flat(CallMessage(calls)) = Pairs(calls)
    BY DEF Flat, CallMessage
  <2>6. /\ messages' \in Seq(Message)
        /\ Flatten(messages') = Flatten(messages) \o Flat(CallMessage(calls))
    <3>1. Append(messages, CallMessage(calls)) \in Seq(Message)
      BY <1>0, <2>4
    <3>2. Flatten(Append(messages, CallMessage(calls)))
             = Flatten(messages) \o Flat(CallMessage(calls))
      BY <1>0, <2>4, FlattenAppend
    <3> QED
      BY <2>1, <3>1, <3>2
  <2>7. calls # <<>> => Flatten(messages') = Pairs(o \o calls)
    BY <1>4, <2>2, <2>5, <2>6, PairsConcat
  <2>8. Asks(o)'
    BY <1>3, <2>1, <2>2, <2>3, <2>7 DEF Asks
  <2>9. Prompted(p)'
    BY <1>2, <1>3, <2>1 DEF Prompted
  <2> QED
    BY <2>6, <2>8, <2>9 DEF Answering
<1>10. CASE AfterIteration
  <2>1. /\ pc = "after" /\ kind' = kind /\ calls' = calls /\ prompt' = prompt
        /\ \/ pc' = "loop" /\ messages' = Flatten(messages)
           \/ pc' = "raised" /\ messages' = messages
    BY <1>10 DEF AfterIteration, made, history
  <2>2. ToSet(o) = Earlier /\ Told(wire, o \o calls) /\ Flatten(messages) = Pairs(o \o calls)
    BY <1>1, <2>1 DEF Asks
  <2>3. Told(wire', o \o calls) /\ o \o calls \in Seq(Call)
    BY <1>4, <2>2, WireGrows, ToldLater
  <2>4. messages' \in Seq(Message)
    BY <1>0, <2>1, <2>2, <2>3, PairsTyped
  <2>5. ToSet(o \o calls) = ToSet(o) \cup ToSet(calls)
    BY <1>4, ConcatSet
  <2>6. \A c \in Call : kind[c] # None <=> c \in ToSet(o \o calls)
    BY <1>5, <2>2, <2>5 DEF Earlier
  <2>7. Asks(o \o calls)'
    BY <2>1, <2>2, <2>3, <2>6 DEF Asks
  <2>8. Prompted(p)'
    BY <1>2, <1>3, <2>1 DEF Prompted
  <2> QED
    BY <2>4, <2>7, <2>8 DEF Answering
<1>11. ASSUME NEW c \in Call, OpenCall(c) PROVE Answering'
  <2>1. /\ pc = "stream" /\ pc' = "stream" /\ kind[c] = None /\ calls' = Append(calls, c)
        /\ messages' = messages /\ prompt' = prompt
    BY <1>11 DEF OpenCall, ShowCall, history
  <2>2. \A d \in Call : kind'[d] # None <=> d = c \/ kind[d] # None
    BY <1>11, NoneAssumption DEF OpenCall, ShowCall, TurnStep, TurnInv, IndInv, Tasks
  <2>3. ToSet(calls') = ToSet(calls) \cup {c}
    <3> DEFINE u == <<c>>
    <3>1. u \in Seq(Call) /\ ToSet(u) = {c}
      BY DEF ToSet
    <3>2. calls' = calls \o u
      BY <1>4, <2>1, AppendIsConcat
    <3> HIDE DEF u
    <3>3. ToSet(calls \o u) = ToSet(calls) \cup ToSet(u)
      BY <1>4, <3>1, ConcatSet
    <3> QED
      BY <3>1, <3>2, <3>3
  <2>4. Earlier' = Earlier
    BY <2>1, <2>2, <2>3 DEF Earlier
  <2>5. ToSet(o) = Earlier /\ Told(wire, o \o calls) /\ Flatten(messages) = Pairs(o)
    BY <1>1, <2>1 DEF Asks
  <2>6. \A i \in DOMAIN (o \o calls) : kind[(o \o calls)[i]] # None
    <3>1. \A i \in DOMAIN (o \o calls) : (o \o calls)[i] \in ToSet(o) \cup ToSet(calls)
      BY <1>4 DEF ToSet
    <3>2. \A d \in ToSet(o) \cup ToSet(calls) : kind[d] # None
      <4>1. ToSet(calls) \subseteq Call
        BY <1>4 DEF ToSet
      <4> QED
        BY <1>5, <2>5, <4>1 DEF Earlier
    <3> QED
      BY <3>1, <3>2
  <2>7. Told(wire', Append(o \o calls, c))
    BY <1>11, <2>5, <2>6, ToldNext
  <2>8. Append(o \o calls, c) = o \o Append(calls, c)
    BY <1>4, ConcatAppend
  <2>9. Asks(o)'
    BY <1>3, <2>1, <2>4, <2>5, <2>7, <2>8 DEF Asks
  <2>10. Prompted(p)'
    BY <1>2, <1>3, <2>1, <2>4 DEF Prompted
  <2> QED
    BY <1>0, <2>1, <2>9, <2>10 DEF Answering
<1> QED
  BY <1>0, <1>6, <1>7, <1>8, <1>9, <1>10, <1>11, Tells

(* The invariant of the messages.                                          *)
LEMMA AnsweringInductive == Spec => []Answering
<1>1. Init => Answering
  <2> SUFFICES ASSUME Init PROVE Answering
    OBVIOUS
  <2> DEFINE o == <<>>
  <2>1. messages \in Seq(Message) /\ messages = <<>> /\ prompt = <<>>
    BY DEF Init
  <2>2. Told(wire, o)
    BY DEF Told, IsInjective
  <2>3. ToSet(o) = {}
    BY DEF ToSet
  <2> HIDE DEF o
  <2>4. Pairs(o) = <<>>
    BY PairsAppend DEF o
  <2>5. Asks(o)
    BY <2>1, <2>2, <2>3, <2>4 DEF Asks, Init
  <2>6. Prompted(o)
    BY <2>1, <2>2, <2>4 DEF Prompted, Init
  <2> QED
    BY <2>1, <2>5, <2>6 DEF Answering
<1>2. TurnInv /\ TurnInv' /\ Answering /\ [Next]_vars => Answering'
  <2>1. ASSUME Answering, UNCHANGED vars PROVE Answering'
    <3> USE <2>1 DEF vars, made, history, stream
    <3>1. Earlier' = Earlier
      BY DEF Earlier
    <3>2. \A o : Asks(o)' <=> Asks(o)
      BY <3>1 DEF Asks
    <3>3. \A o : Prompted(o)' <=> Prompted(o)
      BY <3>1 DEF Prompted
    <3> QED
      BY <3>2, <3>3 DEF Answering
  <2> QED
    BY <2>1, AnsweringStep DEF TurnStep
<1> QED
  BY <1>1, <1>2, TurnInductive, PTL DEF Spec

-----------------------------------------------------------------------------
(* The theorems.                                                           *)

(* What the runner and its scheduler take for granted of the engine.       *)
THEOREM RunsImplemented == Spec => ImplementsRuns
<1>1. Init => Runs!Init
  BY NoneAssumption DEF TaskState, Init, Runs!Init, Status, Handed, Out, Ends
<1>2. IndInv /\ UNCHANGED vars => UNCHANGED Runs!rvars
  BY DEF vars, made, Runs!rvars, Status, Handed, Out
<1>3. IndInv /\ [Next]_vars => [Runs!Next]_Runs!rvars
  BY <1>2, RunsStep
<1> QED
  BY <1>1, <1>3, Inductive, PTL DEF Spec, ImplementsRuns, Runs!Spec

(* A turn asks the model no more than max_iterations times, however often  *)
(* it pauses.                                                              *)
THEOREM CallsBounded == Spec => []ModelCallsBounded
<1>1. IndInv => ModelCallsBounded
  BY DEF IndInv, Counted, ModelCallsBounded
<1> QED
  BY <1>1, Inductive, PTL

(* Without a block of an interceptor before it, a block's index is its     *)
(* own: the engine counts what it shows, across iterations and pauses.     *)
THEOREM IndicesFresh == Spec => []FreshIndices
<1>1. TurnInv => FreshIndices
  <2> SUFFICES ASSUME TurnInv, NEW i \in Positions("start"), NEW j \in Positions("start"),
                      i < j, wire[i].index = wire[j].index
               PROVE  \E n \in 0..Extras : \E k \in StartOf(Extra(n)) : k <= i
    BY DEF FreshIndices
  <2>1. ExtraBy(wire, i)
    BY DEF TurnInv, Indexed, Positions
  <2>2. PICK k \in DOMAIN wire : k <= i /\ \E n \in Nat : Starts(wire, k, Extra(n))
    BY <2>1 DEF ExtraBy
  <2>3. PICK n \in Nat : Starts(wire, k, Extra(n))
    BY <2>2
  <2>4. Extra(n) \in Block
    BY <2>3, BlocksOfEvents DEF TurnInv, WireInv, Once
  <2>5. n \in 0..Extras
    <3>1. \/ \E m \in 0..Texts : Extra(n) = Text(m)
          \/ \E m \in 0..Extras : Extra(n) = Extra(m)
          \/ \E c \in Call : Extra(n) = Use(c) \/ Extra(n) = Result(c)
      BY <2>4, TheBlocks
    <3> QED
      BY <3>1, Tags
  <2>6. k \in StartOf(Extra(n))
    BY <2>3 DEF StartOf, Starts, Positions
  <2> QED
    BY <2>2, <2>5, <2>6
<1> QED
  BY <1>1, TurnInductive, PTL

(* A client sees every block opened once and closed behind, a result       *)
(* behind its call, and in a completed message every call answered by whom *)
(* it is for; a message that waits for the caller says so, and one whose   *)
(* last calls are answered ends there only at max_iterations.              *)
THEOREM BlocksSeenInOrder == Spec => []BlocksInOrder
<1>1. TurnInv => BlocksInOrder
  <2> SUFFICES ASSUME TurnInv PROVE BlocksInOrder
    OBVIOUS
  <2>1. Once /\ Opened /\ Named /\ ResultsBehind
    BY DEF TurnInv, WireInv
  <2>2. /\ \A b, i : i \in StartOf(b) <=> i \in DOMAIN wire /\ Starts(wire, i, b)
        /\ \A b, i : i \in StopOf(b) <=> i \in DOMAIN wire /\ Stops(wire, i, b)
    BY DEF StartOf, StopOf, Starts, Stops, Positions
  <2>3. ASSUME NEW b \in Started \cup Stopped
        PROVE  /\ Cardinality(StartOf(b)) = 1 /\ Cardinality(StopOf(b)) <= 1
               /\ \A i \in StartOf(b), j \in StopOf(b) : i < j
    <3>1. b \in Started /\ b \in Block
      BY <2>1, StartedAreBlocks
    <3>2. StartOf(b) # {}
      BY <2>2, <3>1, StartedStopped
    <3>3. /\ \A i, j \in StartOf(b) : i = j
          /\ \A i, j \in StopOf(b) : i = j
      BY <2>1, <2>2, <3>1 DEF Once
    <3>4. \A j \in StopOf(b) : \E i \in StartOf(b) : i < j
      BY <2>1, <2>2, <3>1 DEF Once
    <3>5. Cardinality(StartOf(b)) = 1
      BY <3>2, <3>3, Single
    <3>6. Cardinality(StopOf(b)) <= 1
      BY <3>3, Single
    <3> QED
      BY <3>3, <3>4, <3>5, <3>6
  <2>4. Started \ Stopped = {open} \ {None}
    BY <2>1 DEF Opened
  <2>5. \A c \in Call : \A i \in StartOf(Result(c)) : \E j \in StopOf(Use(c)) : j < i
    BY <2>1, <2>2 DEF ResultsBehind
  <2>6. ASSUME pc = "completed"
        PROVE  /\ Positions("message_stop") = {Len(wire)}
               /\ {c \in Shown : kind[c] # "client"} = {c \in Call : Result(c) \in Started}
               /\ (\E c \in Shown : kind[c] = "client") => reason = "tool_use"
               /\ calls # <<>> /\ ~(\E c \in Shown : kind[c] = "client")
                     => reason = "max_tokens" /\ asked = MaxIterations
    <3>1. Positions("message_stop") = {Len(wire)}
      BY <2>6 DEF TurnInv, MessageEnd, Positions
    <3>2. \A c \in Call : c \in Shown <=> kind[c] # None
      BY <2>1 DEF Named, Shown
    <3>3. \A c \in Call : task[c] \in {"answered", "passed", None}
      BY <2>6 DEF TurnInv, IndInv, Tasks, Gathered, Live, CallStates, TaskState
    <3>4. \A c \in Call : kind[c] # None => task[c] \in {"answered", "passed"}
      BY <2>6, <3>3 DEF TurnInv, CallStates
    <3>5. \A c \in Call : task[c] \in {"answered", "passed"} => kind[c] # None
      BY NoneAssumption DEF TurnInv, IndInv, Tasks, TaskState
    <3>6. \A c \in Call : kind[c] # None /\ kind[c] # "client" <=> task[c] = "answered"
      BY <3>4, <3>5 DEF TurnInv, CallStates
    <3>7. \A c \in Call : kind[c] = "client" <=> task[c] = "passed"
      BY <3>4, <3>5, NoneAssumption DEF TurnInv, CallStates, Kind
    <3>8. \A c \in Call : Result(c) \in Started <=> task[c] = "answered"
      BY <2>1, <2>6 DEF Named
    <3>9. {c \in Shown : kind[c] # "client"} = {c \in Call : Result(c) \in Started}
      BY <3>2, <3>6, <3>8 DEF Shown
    <3>10. (\E c \in Shown : kind[c] = "client") <=> \E c \in Call : task[c] = "passed"
      <4>1. \A c \in Call : task[c] = "passed" => c \in Shown
        BY <3>2, <3>5
      <4> QED
        BY <3>7, <4>1 DEF Shown
    <3>11. /\ (\E c \in Call : task[c] = "passed") => reason = "tool_use"
           /\ calls # <<>> /\ (\A c \in Call : task[c] # "passed")
                 => reason = "max_tokens" /\ asked = MaxIterations
      BY <2>6 DEF TurnInv, Reasons
    <3> QED
      BY <3>1, <3>9, <3>10, <3>11
  <2> QED
    BY <2>3, <2>4, <2>5, <2>6 DEF BlocksInOrder
<1> QED
  BY <1>1, TurnInductive, PTL

(* The types, and that the stored block count is the number of the         *)
(* engine's own blocks.                                                    *)
THEOREM TurnTypesHold == Spec => []TypeOK
<1>1. TurnInv => TypeOK
  <2> SUFFICES ASSUME TurnInv PROVE TypeOK
    OBVIOUS
  <2>1. Once /\ Opened /\ Started \subseteq Block
    BY StartedAreBlocks DEF TurnInv, WireInv
  <2>2. count = Cardinality(Positions("start")) - Number("extra")
    <3> DEFINE P == Positions("start")
    <3> DEFINE f == [i \in P |-> wire[i].block]
    <3>1. f \in [P -> Started]
      BY DEF Started
    <3>2. \A i, j \in P : f[i] = f[j] => i = j
      <4>1. \A i \in P : i \in DOMAIN wire /\ Starts(wire, i, f[i]) /\ f[i] \in Block
        BY <2>1 DEF Positions, Starts, Started
      <4> QED
        BY <2>1, <4>1 DEF Once
    <3>3. \A b \in Started : \E i \in P : f[i] = b
      BY DEF Started
    <3> HIDE DEF f, P
    <3>4. ExistsBijection(Started, P)
      <4>1. ExistsBijection(P, Started)
        BY <3>1, <3>2, <3>3 DEF ExistsBijection, Bijection, Injection, Surjection, IsInjective
      <4> QED
        BY <4>1, Fun_ExistsBijSymmetric
    <3>5. IsFiniteSet(Started) /\ Cardinality(Started) = count + Cardinality(Extraneous)
      BY DEF TurnInv, Numbered
    <3>6. Cardinality(P) = count + Cardinality(Extraneous)
      BY <3>4, <3>5, FS_Bijection
    <3>7. Number("extra") = Cardinality(Extraneous)
      BY DEF Number, Extraneous
    <3>8. Cardinality(Extraneous) \in Nat /\ count \in Nat
      BY <3>5, FS_Subset, FS_CardinalityType DEF Extraneous, TurnInv, Indexed
    <3> QED
      BY <3>6, <3>7, <3>8 DEF P
  <2>3. pc \in {"loop", "before", "stream", "fold", "gather", "waiting", "after",
                "close", "completed", "raised"}
    BY DEF TurnInv, Control
  <2>4. is_async \in BOOLEAN
    BY DEF TurnInv, Control
  <2>5. iteration \in 0..MaxIterations /\ asked \in 0..MaxIterations
    BY BoundsAssumption DEF TurnInv, IndInv, Counted
  <2>6. index \in Nat
    BY DEF TurnInv, Indexed
  <2>7. open \in Started \cup {None}
    BY <2>1 DEF Opened
  <2>8. IsInjective(calls) /\ ToSet(calls) \subseteq Call
    BY DEF TurnInv, CallStates, IndInv, Gathered, ToSet
  <2>9. /\ kind \in [Call -> Kind \cup {None}]
        /\ task \in [Call -> TaskState \cup {None}]
    BY DEF TurnInv, IndInv, Tasks
  <2>10. pending \subseteq Call
    BY DEF TurnInv, IndInv, Gathered, Out
  <2>11. reason \in StopReason \cup {None}
    BY DEF TurnInv, Reasons
  <2> QED
    BY <2>1, <2>2, <2>3, <2>4, <2>5, <2>6, <2>7, <2>8, <2>9, <2>10, <2>11 DEF TypeOK
<1> QED
  BY <1>1, TurnInductive, PTL

(* What the model reads is a well-formed conversation: every earlier call  *)
(* once, in the order the calls were shown, each in a message of its own   *)
(* with its one answer behind it, however the tools answered and wherever  *)
(* the turn paused.                                                        *)
THEOREM ModelReadsPairs == Spec => []AnswersFollowCalls
<1>1. Answering => AnswersFollowCalls
  <2> SUFFICES ASSUME Answering PROVE AnswersFollowCalls
    OBVIOUS
  <2>1. PICK o : Prompted(o)
    BY DEF Answering
  <2>2. /\ o \in Seq(Call) /\ IsInjective(o) /\ prompt = Pairs(o) /\ Len(o) \in Nat
        /\ DOMAIN o = 1..Len(o) /\ Told(wire, o)
    BY <2>1 DEF Prompted, Told
  <2>3. /\ prompt \in Seq(Message) /\ Len(prompt) = 2 * Len(o)
        /\ \A i \in 1..Len(o) : /\ prompt[2 * i - 1] = CallMessage(<<o[i]>>)
                                /\ prompt[2 * i] = ToolMessage(o[i])
    BY <2>2, PairsTyped, PairsAre
  <2>4. DOMAIN prompt = 1..(2 * Len(o))
    BY <2>3
  <2>5. \A i \in DOMAIN prompt : \E k \in 1..Len(o) : i = 2 * k - 1 \/ i = 2 * k
    BY <2>2, <2>4, InPairs
  <2>6. \A k \in 1..Len(o) :
           /\ prompt[2 * k - 1].role = "assistant" /\ prompt[2 * k].role = "tool"
           /\ prompt[2 * k - 1].calls = <<o[k]>> /\ prompt[2 * k].calls = <<o[k]>>
    <3>1. \A x : CallMessage(x).role = "assistant" /\ CallMessage(x).calls = x
      BY DEF CallMessage
    <3>2. \A x : ToolMessage(x).role = "tool" /\ ToolMessage(x).calls = <<x>>
      BY DEF ToolMessage
    <3> TAKE k \in 1..Len(o)
    <3>3. prompt[2 * k - 1] = CallMessage(<<o[k]>>)
      BY <2>3
    <3>4. prompt[2 * k] = ToolMessage(o[k])
      BY <2>3
    <3>5. prompt[2 * k - 1].role = "assistant" /\ prompt[2 * k - 1].calls = <<o[k]>>
      BY <3>1, <3>3
    <3>6. prompt[2 * k].role = "tool" /\ prompt[2 * k].calls = <<o[k]>>
      BY <3>2, <3>4
    <3> QED
      BY <3>5, <3>6
  <2>7. \A k \in 1..Len(o) : (2 * k - 1) % 2 = 1 /\ (2 * k) % 2 = 0 /\ 2 * k - 1 < 2 * Len(o)
                             /\ (2 * k - 1) + 1 = 2 * k
    BY <2>2
  <2>8. ASSUME NEW i \in DOMAIN prompt
        PROVE  /\ prompt[i].role = IF i % 2 = 1 THEN "assistant" ELSE "tool"
               /\ Len(prompt[i].calls) = 1
               /\ i % 2 = 1 => i < Len(prompt) /\ prompt[i + 1].calls = prompt[i].calls
    <3>1. PICK k \in 1..Len(o) : i = 2 * k - 1 \/ i = 2 * k
      BY <2>5
    <3>2. Len(<<o[k]>>) = 1
      OBVIOUS
    <3>3. CASE i = 2 * k - 1
      BY <2>3, <2>6, <2>7, <3>2, <3>3
    <3>4. CASE i = 2 * k
      <4>1. i % 2 = 0 /\ ~(i % 2 = 1)
        BY <2>7, <3>4
      <4>2. prompt[i].role = "tool" /\ prompt[i].calls = <<o[k]>>
        BY <2>6, <3>4
      <4> QED
        BY <3>2, <4>1, <4>2
    <3> QED
      BY <3>1, <3>3, <3>4
  <2>9. ASSUME pc \in {"stream", "fold"}
        PROVE  Asking(prompt) = Earlier /\ Len(prompt) = 2 * Cardinality(Earlier)
    <3>1. ToSet(o) = Earlier
      BY <2>1, <2>9 DEF Prompted
    <3>2. \A x : x \in Asking(prompt)
             <=> \E i \in DOMAIN prompt : prompt[i].role = "assistant" /\ x \in ToSet(prompt[i].calls)
      BY DEF Asking, ToSet
    <3>3. \A k \in 1..Len(o) : ToSet(<<o[k]>>) = {o[k]}
      BY DEF ToSet
    <3>4. \A k \in 1..Len(o) : 2 * k - 1 \in DOMAIN prompt
      BY <2>2, <2>4
    <3>5. \A x : x \in Asking(prompt) <=> \E k \in 1..Len(o) : x = o[k]
      <4>1. ASSUME NEW x, NEW k \in 1..Len(o), x = o[k] PROVE x \in Asking(prompt)
        <5>1. prompt[2 * k - 1].role = "assistant" /\ x \in ToSet(prompt[2 * k - 1].calls)
          BY <2>6, <3>3, <4>1
        <5> QED
          BY <3>2, <3>4, <5>1
      <4>2. ASSUME NEW x, x \in Asking(prompt) PROVE \E k \in 1..Len(o) : x = o[k]
        <5>1. PICK i \in DOMAIN prompt : prompt[i].role = "assistant" /\ x \in ToSet(prompt[i].calls)
          BY <3>2, <4>2
        <5>2. PICK k \in 1..Len(o) : i = 2 * k - 1 \/ i = 2 * k
          BY <2>5
        <5>3. prompt[i].calls = <<o[k]>>
          BY <2>6, <5>2
        <5> QED
          BY <3>3, <5>1, <5>3
      <4> QED
        BY <4>1, <4>2
    <3>6. Asking(prompt) = ToSet(o)
      BY <2>2, <3>5 DEF ToSet
    <3>7. Cardinality(ToSet(o)) = Len(o)
      <4>1. o \in [1..Len(o) -> ToSet(o)]
        BY <2>2 DEF ToSet
      <4>2. \A x \in ToSet(o) : \E k \in 1..Len(o) : o[k] = x
        BY <2>2 DEF ToSet
      <4>3. ExistsBijection(1..Len(o), ToSet(o))
        BY <2>2, <4>1, <4>2 DEF ExistsBijection, Bijection, Injection, Surjection, IsInjective
      <4>4. IsFiniteSet(1..Len(o)) /\ Cardinality(1..Len(o)) = IF 1 > Len(o) THEN 0 ELSE Len(o) - 1 + 1
        BY <2>2, FS_Interval
      <4>5. (IF 1 > Len(o) THEN 0 ELSE Len(o) - 1 + 1) = Len(o)
        BY <2>2
      <4> QED
        BY <4>3, <4>4, <4>5, FS_Bijection
    <3> QED
      BY <2>3, <3>1, <3>6, <3>7
  <2>10. ASSUME NEW i \in DOMAIN prompt, NEW j \in DOMAIN prompt, NEW c \in Call, NEW d \in Call,
                i < j, prompt[i].calls = <<c>>, prompt[j].calls = <<d>>, c # d
         PROVE  \E m \in Positions("start") : \E n \in Positions("start") :
                   m < n /\ wire[m].block = Use(c) /\ wire[n].block = Use(d)
    <3>1. PICK k \in 1..Len(o) : i = 2 * k - 1 \/ i = 2 * k
      BY <2>5
    <3>2. PICK l \in 1..Len(o) : j = 2 * l - 1 \/ j = 2 * l
      BY <2>5
    <3>3. prompt[i].calls = <<o[k]>> /\ prompt[j].calls = <<o[l]>>
      BY <2>6, <3>1, <3>2
    <3>4. o[k] = c /\ o[l] = d
      BY <2>10, <3>3
    <3>5. k <= l /\ k # l
      BY <2>2, <2>10, <3>1, <3>2, <3>4
    <3>6. Before(wire, c, d)
      BY <2>2, <3>4, <3>5 DEF Told
    <3> QED
      BY <3>6 DEF Before, Starts, Positions
  <2> QED
    BY <2>8, <2>9, <2>10 DEF AnswersFollowCalls
<1> QED
  BY <1>1, AnsweringInductive, PTL
=============================================================================
