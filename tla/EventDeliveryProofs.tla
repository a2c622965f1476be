-------------------------- MODULE EventDeliveryProofs --------------------------
(***************************************************************************)
(* Proofs about EventDelivery, for any number of events, of pauses and of  *)
(* payloads popped at once, and any set of faults.                         *)
(***************************************************************************)
EXTENDS EventDelivery, SequenceTheorems, WellFoundedInduction, TLAPS

-----------------------------------------------------------------------------
(* Where the FINISHED mark is, and how much the listener takes.            *)

(* A set of numbers that is not empty has a least one.                     *)
LEMMA HasMin ==
    ASSUME NEW S \in SUBSET Nat, S # {}
    PROVE  Min(S) \in S /\ \A y \in S : Min(S) =< y
<1> DEFINE R == OpToRel(<, Nat)
<1>1. IsWellFoundedOn(R, Nat)
  BY NatLessThanWellFounded
<1>2. \A x, y \in Nat : y < x => <<y, x>> \in R
  BY DEF OpToRel
<1> HIDE DEF R
<1>3. PICK x \in S : \A y \in S : ~(<<y, x>> \in R)
  BY <1>1, WFMin
<1>4. ASSUME NEW y \in S PROVE x =< y
  <2>1. x \in Nat /\ y \in Nat
    OBVIOUS
  <2>2. ~(y < x)
    BY <1>2, <1>3, <2>1
  <2> QED
    BY <2>1, <2>2
<1> QED
  BY <1>4 DEF Min

(* The listener takes no more than there is.                               *)
LEMMA TakesSome ==
    ASSUME NEW a \in Nat, NEW b \in Nat
    PROVE  Min({a, b}) \in 0..b
<1>1. {a, b} \in SUBSET Nat /\ {a, b} # {}
  OBVIOUS
<1>2. Min({a, b}) \in {a, b} /\ \A y \in {a, b} : Min({a, b}) =< y
  BY <1>1, HasMin
<1> QED
  BY <1>2

(* SelectInSeq finds the first FINISHED mark, or gives 0 for none.         *)
LEMMA MarkFound ==
    ASSUME NEW s \in Seq(Payload)
    PROVE  LET mark == SelectInSeq(s, LAMBDA x : x = Finished) IN
           \/ mark = 0 /\ \A i \in 1..Len(s) : s[i] # Finished
           \/ /\ mark \in 1..Len(s) /\ s[mark] = Finished
              /\ \A i \in 1..(mark - 1) : s[i] # Finished
<1> DEFINE I == {i \in 1..Len(s) : s[i] = Finished}
<1>1. SelectInSeq(s, LAMBDA x : x = Finished) = IF I # {} THEN Min(I) ELSE 0
  BY DEF SelectInSeq
<1>2. I \in SUBSET Nat
  OBVIOUS
<1>3. CASE I = {}
  BY <1>1, <1>3
<1>4. CASE I # {}
  <2>1. Min(I) \in I /\ \A y \in I : Min(I) =< y
    BY <1>2, <1>4, HasMin
  <2>2. Min(I) \in 1..Len(s) /\ s[Min(I)] = Finished
    BY <2>1
  <2>3. ASSUME NEW i \in 1..(Min(I) - 1) PROVE s[i] # Finished
    <3>1. Len(s) \in Nat
      OBVIOUS
    <3>2. i \in 1..Len(s) /\ ~(Min(I) =< i)
      BY <2>2, <3>1
    <3> QED
      BY <2>1, <3>2
  <2> QED
    BY <1>1, <1>4, <2>2, <2>3
<1> QED
  BY <1>3, <1>4

-----------------------------------------------------------------------------
(* What is true of the payloads of an execution in the order the listener  *)
(* meets them: the events stand at their places up to the first FINISHED,  *)
(* there is one error, and only marks follow it.                           *)

Has(s, x) == \E i \in 1..Len(s) : s[i] = x
Marked(s, i) == \E k \in 1..i : s[k] = Finished
Place(s, i) == IF ErrorBefore(s, i) THEN i - 1 ELSE i
Placed(s) ==
    \A i \in 1..Len(s) : Marked(s, i) \/ s[i] = Error \/ s[i] = Place(s, i)
UpTo(s, n) == \A i \in 1..Len(s) : s[i] \in {Error, Finished} \/ s[i] \in 1..n
OneError(s) == \A i, j \in 1..Len(s) : s[i] = Error /\ s[j] = Error => i = j
ErrorEnds(s) == \A i, j \in 1..Len(s) : s[i] = Error /\ i < j => s[j] = Finished
Fits(s, n) == ~Has(s, Finished) => Len(s) = IF Has(s, Error) THEN n + 1 ELSE n
AllHeard(s, n) ==
    n <= Len(s) /\ \A i \in 1..Len(s) : s[i] = Finished <=> n < i

(* A beginning of such a sequence is such a sequence.                      *)
LEMMA PrefixKeeps ==
    ASSUME NEW s \in Seq(Payload), NEW r \in Seq(Payload), NEW n \in Nat
    PROVE  /\ Placed(s \o r) => Placed(s)
           /\ UpTo(s \o r, n) => UpTo(s, n)
           /\ OneError(s \o r) => OneError(s)
           /\ ErrorEnds(s \o r) => ErrorEnds(s)
           /\ \A x : Has(s, x) => Has(s \o r, x)
<1> DEFINE t == s \o r
<1>1. /\ Len(s) \in Nat /\ Len(t) \in Nat /\ Len(s) <= Len(t)
      /\ \A i \in 1..Len(s) : t[i] = s[i]
  BY ConcatProperties
<1> HIDE DEF t
<1>2. Placed(t) => Placed(s)
  <2> SUFFICES ASSUME Placed(t), NEW i \in 1..Len(s)
               PROVE  Marked(s, i) \/ s[i] = Error \/ s[i] = Place(s, i)
    BY DEF Placed
  <2>1. i \in 1..Len(t) /\ \A k \in 1..i : t[k] = s[k]
    BY <1>1
  <2>2. Marked(t, i) => Marked(s, i)
    BY <2>1 DEF Marked
  <2>3. ErrorBefore(t, i) <=> ErrorBefore(s, i)
    BY <2>1 DEF ErrorBefore
  <2> QED
    BY <2>1, <2>2, <2>3 DEF Placed, Place
<1>3. UpTo(t, n) => UpTo(s, n)
  BY <1>1 DEF UpTo
<1>4. OneError(t) => OneError(s)
  BY <1>1 DEF OneError
<1>5. ErrorEnds(t) => ErrorEnds(s)
  BY <1>1 DEF ErrorEnds
<1>6. \A x : Has(s, x) => Has(t, x)
  BY <1>1 DEF Has
<1> QED
  BY <1>2, <1>3, <1>4, <1>5, <1>6 DEF t

(* Where the payloads are when one more is put in among them.              *)
LEMMA Inserted ==
    ASSUME NEW u \in Seq(Payload), NEW v \in Seq(Payload), NEW x \in Payload
    PROVE  LET s == u \o v
               t == Append(u, x) \o v
               m == Len(u) IN
           /\ s \in Seq(Payload) /\ t \in Seq(Payload)
           /\ m \in 0..Len(s) /\ Len(s) \in Nat /\ Len(t) = Len(s) + 1
           /\ \A i \in 1..m : t[i] = s[i]
           /\ t[m + 1] = x
           /\ \A i \in (m + 2)..Len(t) : t[i] = s[i - 1] /\ i - 1 \in 1..Len(s)
<1> DEFINE s == u \o v
           t == Append(u, x) \o v
           m == Len(u)
<1>1. /\ Append(u, x) \in Seq(Payload) /\ Len(Append(u, x)) = m + 1
      /\ \A i \in 1..m : Append(u, x)[i] = u[i]
      /\ Append(u, x)[m + 1] = x
  BY AppendProperties
<1>2. /\ Len(s) = m + Len(v) /\ m \in Nat /\ Len(v) \in Nat /\ s \in Seq(Payload)
      /\ \A i \in 1..(m + Len(v)) : s[i] = IF i <= m THEN u[i] ELSE v[i - m]
  BY ConcatProperties
<1>3. /\ Len(t) = (m + 1) + Len(v) /\ t \in Seq(Payload)
      /\ \A i \in 1..((m + 1) + Len(v)) :
            t[i] = IF i <= m + 1 THEN Append(u, x)[i] ELSE v[i - (m + 1)]
  BY <1>1, ConcatProperties
<1> HIDE DEF s, t, m
<1>4. ASSUME NEW i \in (m + 2)..Len(t)
      PROVE  t[i] = s[i - 1] /\ i - 1 \in 1..Len(s)
  <2>1. /\ i \in 1..((m + 1) + Len(v)) /\ ~(i <= m + 1)
        /\ i - 1 \in 1..(m + Len(v)) /\ ~(i - 1 <= m)
        /\ i - (m + 1) = (i - 1) - m
    BY <1>2, <1>3
  <2> QED
    BY <1>2, <1>3, <2>1
<1>5. ASSUME NEW i \in 1..m PROVE t[i] = s[i]
  BY <1>1, <1>2, <1>3
<1>6. t[m + 1] = x
  BY <1>1, <1>2, <1>3
<1> QED
  BY <1>2, <1>3, <1>4, <1>5, <1>6 DEF s, t, m

(* The error, the first one, or a mark goes in anywhere.                   *)
LEMMA InsertKeeps ==
    ASSUME NEW u \in Seq(Payload), NEW v \in Seq(Payload), NEW n \in Nat,
           NEW x \in {Error, Finished}, x = Error => ~Has(u \o v, Error),
           Placed(u \o v), UpTo(u \o v, n), OneError(u \o v)
    PROVE  /\ Placed(Append(u, x) \o v) /\ UpTo(Append(u, x) \o v, n)
           /\ OneError(Append(u, x) \o v)
           /\ Has(Append(u, x) \o v, x)
           /\ \A y : y # x /\ Has(Append(u, x) \o v, y) => Has(u \o v, y)
<1> DEFINE s == u \o v
           t == Append(u, x) \o v
           m == Len(u)
<1>1. /\ m \in 0..Len(s) /\ Len(s) \in Nat /\ Len(t) = Len(s) + 1
      /\ \A i \in 1..m : t[i] = s[i]
      /\ t[m + 1] = x
      /\ \A i \in (m + 2)..Len(t) : t[i] = s[i - 1] /\ i - 1 \in 1..Len(s)
  BY Inserted DEF Payload
<1>2. x = Error => ~Has(s, Error)
  OBVIOUS
<1>3. Placed(s) /\ UpTo(s, n) /\ OneError(s)
  OBVIOUS
<1> HIDE DEF s, t, m
<1>4. ASSUME NEW i \in 1..Len(t)
      PROVE  \/ i <= m /\ i \in 1..Len(s)
             \/ i = m + 1
             \/ i \in (m + 2)..Len(t) /\ i - 1 \in 1..Len(s)
  BY <1>1
<1>a. ASSUME NEW i \in 1..Len(t), i # m + 1
      PROVE  \E j \in 1..Len(s) : t[i] = s[j]
  <2>1. CASE i <= m
    <3>1. i \in 1..m /\ i \in 1..Len(s)
      BY <1>1, <2>1
    <3> QED
      BY <1>1, <3>1
  <2>2. CASE i > m
    <3>1. i \in (m + 2)..Len(t)
      BY <1>1, <1>a, <2>2
    <3> QED
      BY <1>1, <3>1
  <2> QED
    BY <1>1, <2>1, <2>2
<1>5. Placed(t)
  <2> SUFFICES ASSUME NEW i \in 1..Len(t), ~Marked(t, i), t[i] # Error
               PROVE  t[i] = Place(t, i)
    BY DEF Placed
  <2>1. CASE i <= m
    <3>1. i \in 1..Len(s) /\ \A k \in 1..i : t[k] = s[k]
      BY <1>1, <2>1
    <3>2. ~Marked(s, i) /\ (ErrorBefore(s, i) <=> ErrorBefore(t, i))
      BY <3>1 DEF Marked, ErrorBefore
    <3> QED
      BY <1>3, <3>1, <3>2 DEF Placed, Place
  <2>2. i # m + 1 \/ x = Error
    BY <1>1 DEF Marked
  <2>3. CASE i \in (m + 2)..Len(t)
    <3>1. /\ i - 1 \in 1..Len(s) /\ t[i] = s[i - 1]
          /\ m + 1 \in 1..i /\ m + 1 \in 1..(i - 1)
      BY <1>1, <2>3
    <3>2. x = Error /\ ErrorBefore(t, i)
      BY <1>1, <3>1 DEF Marked, ErrorBefore
    <3>3. ~Marked(s, i - 1)
      <4> SUFFICES ASSUME NEW k \in 1..(i - 1), s[k] = Finished
                   PROVE  \E l \in 1..i : t[l] = Finished
        BY DEF Marked
      <4>1. CASE k <= m
        BY <1>1, <3>1, <4>1
      <4>2. CASE k > m
        <5>1. k + 1 \in 1..i /\ k + 1 \in (m + 2)..Len(t) /\ (k + 1) - 1 = k
          BY <1>1, <2>3, <4>2
        <5> QED
          BY <1>1, <5>1
      <4> QED
        BY <1>1, <4>1, <4>2
    <3>4. ~ErrorBefore(s, i - 1)
      BY <1>1, <1>2, <3>1, <3>2 DEF Has, ErrorBefore
    <3> QED
      BY <1>3, <3>1, <3>2, <3>3, <3>4 DEF Placed, Place
  <2>4. i # m + 1
    BY <1>1, <2>2
  <2> QED
    BY <1>4, <2>1, <2>3, <2>4
<1>6. UpTo(t, n)
  <2> SUFFICES ASSUME NEW i \in 1..Len(t)
               PROVE  t[i] \in {Error, Finished} \/ t[i] \in 1..n
    BY DEF UpTo
  <2>1. t[i] = x \/ \E j \in 1..Len(s) : t[i] = s[j]
    BY <1>1, <1>a
  <2> QED
    BY <1>3, <2>1 DEF UpTo
<1>7. OneError(t)
  <2> SUFFICES ASSUME NEW i \in 1..Len(t), NEW j \in 1..Len(t),
                      t[i] = Error, t[j] = Error, i < j
               PROVE  FALSE
    BY <1>1 DEF OneError
  <2>1. i # m + 1 \/ j # m + 1
    OBVIOUS
  <2>2. CASE x = Error
    <3>1. \A l \in 1..Len(s) : s[l] # Error
      BY <1>2, <2>2 DEF Has
    <3>2. ASSUME NEW l \in 1..Len(t), l # m + 1 PROVE t[l] # Error
      BY <1>a, <3>1, <3>2
    <3> QED
      BY <2>1, <3>2
  <2>3. CASE x # Error
    <3>1. i # m + 1 /\ j # m + 1
      BY <1>1, <2>3
    <3>2. PICK k \in 1..Len(s) : s[k] = Error /\ k = IF i <= m THEN i ELSE i - 1
      BY <1>1, <1>4, <3>1
    <3>3. PICK l \in 1..Len(s) : s[l] = Error /\ l = IF j <= m THEN j ELSE j - 1
      BY <1>1, <1>4, <3>1
    <3>4. k # l
      BY <1>1, <3>1, <3>2, <3>3
    <3> QED
      BY <1>3, <3>2, <3>3, <3>4 DEF OneError
  <2> QED
    BY <2>2, <2>3
<1>8. Has(t, x)
  BY <1>1 DEF Has
<1>9. \A y : y # x /\ Has(t, y) => Has(s, y)
  <2> SUFFICES ASSUME NEW y, y # x, NEW i \in 1..Len(t), t[i] = y
               PROVE  Has(s, y)
    BY DEF Has
  <2>1. i # m + 1
    BY <1>1
  <2> QED
    BY <1>a, <2>1 DEF Has
<1> QED
  BY <1>5, <1>6, <1>7, <1>8, <1>9 DEF s, t

(* A mark may stand between the error and its end, as it may after it.     *)
LEMMA MarkKeepsEnd ==
    ASSUME NEW u \in Seq(Payload), NEW v \in Seq(Payload), ErrorEnds(u \o v)
    PROVE  ErrorEnds(Append(u, Finished) \o v)
<1> DEFINE s == u \o v
           t == Append(u, Finished) \o v
           m == Len(u)
<1>1. /\ m \in 0..Len(s) /\ Len(s) \in Nat /\ Len(t) = Len(s) + 1
      /\ \A i \in 1..m : t[i] = s[i]
      /\ t[m + 1] = Finished
      /\ \A i \in (m + 2)..Len(t) : t[i] = s[i - 1] /\ i - 1 \in 1..Len(s)
  BY Inserted DEF Payload
<1>2. ErrorEnds(s)
  OBVIOUS
<1> HIDE DEF s, t, m
<1> SUFFICES ASSUME NEW i \in 1..Len(t), NEW j \in 1..Len(t),
                    t[i] = Error, i < j, j # m + 1
             PROVE  t[j] = Finished
  BY <1>1 DEF ErrorEnds, t
<1>3. i # m + 1
  BY <1>1, PayloadAssumption
<1>4. ASSUME NEW k \in 1..Len(t), k # m + 1
      PROVE  \E l \in 1..Len(s) : t[k] = s[l] /\ l = IF k <= m THEN k ELSE k - 1
  <2>1. CASE k <= m
    BY <1>1, <2>1
  <2>2. CASE k > m
    <3>1. k \in (m + 2)..Len(t)
      BY <1>1, <1>4, <2>2
    <3> QED
      BY <1>1, <2>2, <3>1
  <2> QED
    BY <1>1, <2>1, <2>2
<1>5. PICK k \in 1..Len(s) : t[i] = s[k] /\ k = IF i <= m THEN i ELSE i - 1
  BY <1>3, <1>4
<1>6. PICK l \in 1..Len(s) : t[j] = s[l] /\ l = IF j <= m THEN j ELSE j - 1
  BY <1>4
<1>7. k < l
  BY <1>1, <1>3, <1>5, <1>6
<1> QED
  BY <1>2, <1>5, <1>6, <1>7 DEF ErrorEnds

(* An event goes to the end, where it fits; so does the error.             *)
LEMMA AppendKeeps ==
    ASSUME NEW s \in Seq(Payload), NEW n \in Nat, NEW x \in Payload,
           x \in {n + 1, Error}, Placed(s), UpTo(s, n), OneError(s), Fits(s, n),
           x = Error => ~Has(s, Error)
    PROVE  /\ Placed(Append(s, x)) /\ OneError(Append(s, x))
           /\ ~Has(s, Error) => ErrorEnds(Append(s, x))
           /\ \A y : y # x /\ Has(Append(s, x), y) => Has(s, y)
           /\ x = n + 1 => UpTo(Append(s, x), n + 1) /\ Fits(Append(s, x), n + 1)
           /\ x = Error => UpTo(Append(s, x), n) /\ Fits(Append(s, x), n)
<1> DEFINE t == Append(s, x)
<1>1. /\ Len(s) \in Nat /\ Len(t) = Len(s) + 1 /\ t[Len(t)] = x
      /\ \A i \in 1..Len(s) : t[i] = s[i]
  BY AppendProperties
<1>2. n + 1 # Error /\ n + 1 # Finished /\ Error # Finished
  <2>1. n + 1 \in Nat
    OBVIOUS
  <2>2. Error \notin Nat /\ Finished \notin Nat /\ Error # Finished
    BY PayloadAssumption
  <2> QED
    BY <2>1, <2>2
<1> HIDE DEF t
<1>3. ASSUME NEW i \in 1..Len(t) PROVE i \in 1..Len(s) \/ i = Len(t)
  BY <1>1
<1>4. \A y : Has(t, y) <=> Has(s, y) \/ y = x
  BY <1>1, <1>3 DEF Has
<1>5. Placed(t)
  <2> SUFFICES ASSUME NEW i \in 1..Len(t), ~Marked(t, i), t[i] # Error
               PROVE  t[i] = Place(t, i)
    BY DEF Placed
  <2>1. CASE i \in 1..Len(s)
    <3>1. \A k \in 1..i : t[k] = s[k]
      BY <1>1, <2>1
    <3>2. ~Marked(s, i) /\ (ErrorBefore(s, i) <=> ErrorBefore(t, i))
      BY <3>1 DEF Marked, ErrorBefore
    <3> QED
      BY <1>1, <2>1, <3>2 DEF Placed, Place
  <2>2. CASE i = Len(t)
    <3>1. x = n + 1
      BY <1>1, <2>2
    <3>2. ~Has(s, Finished)
      BY <1>1, <2>2 DEF Has, Marked
    <3>3. ErrorBefore(t, i) <=> Has(s, Error)
      BY <1>1, <2>2 DEF Has, ErrorBefore
    <3> QED
      BY <1>1, <2>2, <3>1, <3>2, <3>3 DEF Fits, Place
  <2> QED
    BY <1>3, <2>1, <2>2
<1>6. OneError(t)
  BY <1>1, <1>2, <1>3 DEF OneError, Has
<1>7. ASSUME ~Has(s, Error) PROVE ErrorEnds(t)
  BY <1>1, <1>3, <1>7 DEF ErrorEnds, Has
<1>8. ASSUME x = n + 1 PROVE UpTo(t, n + 1) /\ Fits(t, n + 1)
  BY <1>1, <1>2, <1>3, <1>4, <1>8 DEF UpTo, Fits
<1>9. ASSUME x = Error PROVE UpTo(t, n) /\ Fits(t, n)
  BY <1>1, <1>2, <1>3, <1>4, <1>9 DEF UpTo, Fits
<1> QED
  BY <1>4, <1>5, <1>6, <1>7, <1>8, <1>9 DEF t

-----------------------------------------------------------------------------
(* Types, and what the places of the parties say about each other.         *)

Control ==
    /\ drain \in {"none", "done"} => pending = <<>>
    /\ job = "handle" => drain \in {"none", "done"}
    /\ job = "dead" => drain \notin DrainLive
    /\ terminal = "none" =>
          /\ job \in {"engine", "flush", "close", "handle", "fail", "dead"}
          /\ cancel = "idle" /\ rescue = "idle"
    /\ terminal = "failed" => job \in {"fail_close"} \cup Finishing \cup JobOver \/ taken
    /\ terminal = "completed" =>
          job \in Finishing \cup JobOver /\ drain \in {"none", "done"}
    /\ rescue # "idle" => terminal # "none" /\ (job = "dead" \/ taken)
    /\ rescue = "error" => terminal = "failed"
    /\ got # <<>> => listener = "popped"

LEMMA QueueTypes ==
    ASSUME TypeOK
    PROVE  /\ pending \in Seq(Payload) /\ inflight \in Seq(Payload)
           /\ wire \in Seq(Payload) /\ got \in Seq(Payload) /\ heard \in Seq(Payload)
BY DEF TypeOK

(* What the listener takes is a beginning of the queue; it keeps what      *)
(* stands before the first mark.                                           *)
LEMMA Yields ==
    ASSUME TypeOK, YieldBatch
    PROVE  \E more \in Seq(Payload) :
             /\ wire = more \o wire' /\ wire' \in Seq(Payload)
             /\ got \o more \in Seq(Payload)
             /\ \/ /\ listener' = "listening" /\ heard' = heard \o (got \o more)
                   /\ ~Has(got \o more, Finished)
                \/ /\ listener' = "cleanup"
                   /\ \E mark \in 1..Len(got \o more) :
                         /\ (got \o more)[mark] = Finished
                         /\ \A i \in 1..(mark - 1) : (got \o more)[i] # Finished
                         /\ heard' = heard \o SubSeq(got \o more, 1, mark - 1)
<1> USE BoundsAssumption
<1> DEFINE n == Min({PopLimit, Len(wire)})
           more == SubSeq(wire, 1, n)
           payloads == got \o more
           mark == SelectInSeq(payloads, LAMBDA x : x = Finished)
<1>1. wire \in Seq(Payload) /\ got \in Seq(Payload) /\ Len(wire) \in Nat
  BY QueueTypes
<1>2. n \in 0..Len(wire)
  BY <1>1, TakesSome
<1>3. /\ wire' = SubSeq(wire, Len(more) + 1, Len(wire))
      /\ heard' = heard \o (IF mark = 0 THEN payloads ELSE SubSeq(payloads, 1, mark - 1))
      /\ listener' = IF mark = 0 THEN "listening" ELSE "cleanup"
  BY DEF YieldBatch
<1> HIDE DEF n
<1>4. \A i \in 1..n : wire[i] \in Payload
  BY <1>1, <1>2, ElementOfSeq
<1>5. more \in Seq(Payload) /\ Len(more) = n
  BY <1>2, <1>4, SubSeqProperties
<1>6. SubSeq(wire, 1, n) \o SubSeq(wire, n + 1, Len(wire)) = wire
  <2>1. 1 \in 1..(Len(wire) + 1) /\ n \in (1 - 1)..Len(wire) /\ Len(wire) \in n..Len(wire)
    BY <1>1, <1>2
  <2>2. SubSeq(wire, 1, n) \o SubSeq(wire, n + 1, Len(wire)) = SubSeq(wire, 1, Len(wire))
    BY <1>1, <2>1, ConcatAdjacentSubSeq
  <2> QED
    BY <1>1, <2>2, SubSeqFull
<1>7. wire = more \o wire' /\ wire' \in Seq(Payload)
  <2>1. wire' = SubSeq(wire, n + 1, Len(wire))
    BY <1>3, <1>5
  <2>2. \A i \in (n + 1)..Len(wire) : wire[i] \in Payload
    BY <1>1, <1>2, ElementOfSeq
  <2>3. wire' \in Seq(Payload)
    BY <1>1, <1>2, <2>1, <2>2, SubSeqProperties
  <2> QED
    BY <1>6, <2>1, <2>3
<1> HIDE DEF more
<1>8. payloads \in Seq(Payload)
  BY <1>1, <1>5, ConcatProperties
<1>9. \/ mark = 0 /\ \A i \in 1..Len(payloads) : payloads[i] # Finished
      \/ /\ mark \in 1..Len(payloads) /\ payloads[mark] = Finished
         /\ \A i \in 1..(mark - 1) : payloads[i] # Finished
  BY <1>8, MarkFound
<1> HIDE DEF mark
<1>10. mark = 0 => ~Has(payloads, Finished)
  BY <1>9 DEF Has
<1> QED
  BY <1>3, <1>5, <1>7, <1>8, <1>9, <1>10

LEMMA InitTypes == Init => TypeOK
<1> SUFFICES ASSUME Init PROVE TypeOK
  OBVIOUS
<1>1. \A s \in {pending, inflight, wire, got, heard} : s \in Seq(Payload)
  BY EmptySeq DEF Init
<1>2. taken \in BOOLEAN
  BY DEF Init
<1> QED
  BY <1>1, <1>2, BoundsAssumption DEF Init, TypeOK, Awaiting, Finishing, JobOver, DrainLive

LEMMA TypesStep ==
    ASSUME TypeOK, Control, Next
    PROVE  TypeOK'
<1> DEFINE Queues == /\ pending \in Seq(Payload) /\ inflight \in Seq(Payload)
                     /\ wire \in Seq(Payload) /\ got \in Seq(Payload)
                     /\ heard \in Seq(Payload)
           Places ==
             /\ job \in Awaiting \cup Finishing \cup JobOver
                        \cup {"engine", "handle", "fail"}
             /\ round \in 0..Rounds
             /\ emitted \in 0..Events
             /\ drain \in DrainLive \cup {"none", "done", "failed", "cancelled"}
             /\ drain = "publishing" <=> inflight # <<>>
             /\ listener \in {"listening", "popped", "cleanup", "ended", "leaving", "left"}
             /\ cancel \in {"idle", "stop", "finish", "done", "raised"}
             /\ rescue \in {"idle", "error", "finish", "done", "raised"}
             /\ terminal \in {"none", "completed", "failed", "cancelled"}
<1> USE BoundsAssumption
<1>1. Queues /\ Places /\ taken \in BOOLEAN
  BY QueueTypes DEF TypeOK
<1>2. {Error, Finished} \subseteq Payload
  BY DEF Payload
<1>3. Queues' /\ Places' /\ taken' \in BOOLEAN => TypeOK'
  BY DEF TypeOK
<1>4. <<>> \in Seq(Payload)
  BY EmptySeq
<1> USE DEF Awaiting, Finishing, JobOver, DrainLive, channel, reader, JobGoes, Push
<1>5. CASE Emit
  <2>1. emitted + 1 \in Payload /\ emitted' \in 0..Events
    BY <1>1, <1>5 DEF Emit, Payload
  <2>2. Append(pending, emitted + 1) \in Seq(Payload)
    BY <1>1, <2>1, AppendProperties
  <2> QED
    BY <1>1, <1>3, <1>5, <2>1, <2>2 DEF Emit, Put, StartsDrain
<1>6. CASE FlushStart \/ JobRaises \/ EngineReturns \/ FlushReturns \/ FlushRaises \/ Complete
  BY <1>1, <1>3, <1>6 DEF FlushStart, JobRaises, EngineReturns, FlushReturns, FlushRaises,
     AfterFlush, Complete
<1>7. CASE Pause
  <2>1. Queues'
    BY <1>1, <1>4, <1>7 DEF Pause
  <2>2. Places'
    BY <1>1, <1>7 DEF Control, Pause
  <2>3. taken' \in BOOLEAN
    BY <1>1, <1>7 DEF Pause
  <2> QED
    BY <1>3, <2>1, <2>2, <2>3
<1>8. CASE Fail
  <2>1. Append(pending, Error) \in Seq(Payload)
    BY <1>1, <1>2, AppendProperties
  <2>7. Queues'
    BY <1>1, <1>8, <2>1 DEF Fail, Put, StartsDrain
  <2>8. Places'
    <3>1. /\ drain' \in {drain, "ready"} /\ (drain' = "publishing" <=> drain = "publishing")
          /\ inflight' = inflight
      BY <1>1, <1>8 DEF Fail, Put, StartsDrain
    <3>2. job' \in {"fail_close", "fail_finish"} /\ terminal' \in {terminal, "failed"}
      BY <1>8 DEF Fail
    <3>3. UNCHANGED <<round, emitted, listener, cancel, rescue>>
      BY <1>8 DEF Fail
    <3> QED
      BY <1>1, <3>1, <3>2, <3>3
  <2>9. taken' \in BOOLEAN
    BY <1>1, <1>8 DEF Fail, Put, StartsDrain
  <2> QED
    BY <1>3, <2>7, <2>8, <2>9
<1>9. CASE JobFinishes \/ CancelStep \/ RescueStep
  <2>1. Append(wire, Finished) \in Seq(Payload) /\ Append(wire, Error) \in Seq(Payload)
    BY <1>1, <1>2, AppendProperties
  <2>7. Queues'
    BY <1>1, <1>9, <2>1 DEF JobFinishes, Push, CancelStep, RescueStep
  <2>8. Places'
    <3>1. CASE JobFinishes
      BY <1>1, <3>1 DEF JobFinishes, Push
    <3>2. CASE CancelStep
      BY <1>1, <3>2 DEF CancelStep, Push
    <3>3. CASE RescueStep
      BY <1>1, <3>3 DEF RescueStep, Push
    <3> QED
      BY <1>9, <3>1, <3>2, <3>3
  <2>9. taken' \in BOOLEAN
    BY <1>1, <1>9 DEF JobFinishes, Push, CancelStep, RescueStep
  <2> QED
    BY <1>3, <2>7, <2>8, <2>9
<1>10. CASE RequestCancel \/ Rescue
  <2>7. Queues'
    BY <1>1, <1>10 DEF RequestCancel, Rescue
  <2>8. Places'
    BY <1>1, <1>10 DEF RequestCancel, Rescue
  <2>9. taken' \in BOOLEAN
    BY <1>1, <1>10 DEF RequestCancel, Rescue
  <2> QED
    BY <1>3, <2>7, <2>8, <2>9
<1>11. CASE DrainStep \/ PublishRaises \/ Aborted \/ Dies
  <2>1. wire \o inflight \in Seq(Payload)
    BY <1>1, ConcatProperties
  <2>2. CASE TakeBatch
    BY <1>1, <1>3, <1>4, <2>2 DEF TakeBatch
  <2>3. CASE Publish
    BY <1>1, <1>3, <1>4, <2>1, <2>3 DEF Publish
  <2>4. CASE PublishRaises
    <3>7. Queues'
      BY <1>1, <1>4, <2>1, <2>4 DEF PublishRaises, BreakDrain
    <3>8. Places'
      BY <1>1, <2>4 DEF PublishRaises, BreakDrain
    <3>9. taken' \in BOOLEAN
      BY <1>1, <2>4 DEF PublishRaises, BreakDrain
    <3> QED
      BY <1>3, <3>7, <3>8, <3>9
  <2>5. CASE Aborted \/ Dies
    <3>7. Queues'
      BY <1>1, <1>4, <2>1, <2>5 DEF Aborted, Dies, BreakDrain
    <3>8. Places'
      <4>1. CASE Aborted
        BY <1>1, <4>1 DEF Aborted, BreakDrain
      <4>2. CASE Dies
        BY <1>1, <4>2 DEF Dies, BreakDrain
      <4> QED
        BY <2>5, <4>1, <4>2
    <3>9. taken' \in BOOLEAN
      BY <1>1, <2>5 DEF Aborted, Dies, BreakDrain
    <3> QED
      BY <1>3, <3>7, <3>8, <3>9
  <2> QED
    BY <1>11, <2>2, <2>3, <2>4, <2>5 DEF DrainStep
<1>12. CASE BlockingPop
  <2>1. Head(wire) \in Payload /\ Tail(wire) \in Seq(Payload)
    BY <1>1, <1>12, HeadTailProperties DEF BlockingPop
  <2>2. <<Head(wire)>> \in Seq(Payload)
    BY <2>1
  <2> QED
    BY <1>1, <1>3, <1>12, <2>1, <2>2 DEF BlockingPop
<1>13. CASE YieldBatch
  <2>1. wire' \in Seq(Payload) /\ heard' \in Seq(Payload) /\ listener' \in {"listening", "cleanup"}
    <3>1. PICK more \in Seq(Payload) :
             /\ wire = more \o wire' /\ wire' \in Seq(Payload)
             /\ got \o more \in Seq(Payload)
             /\ \/ /\ listener' = "listening" /\ heard' = heard \o (got \o more)
                   /\ ~Has(got \o more, Finished)
                \/ /\ listener' = "cleanup"
                   /\ \E mark \in 1..Len(got \o more) :
                         /\ (got \o more)[mark] = Finished
                         /\ \A i \in 1..(mark - 1) : (got \o more)[i] # Finished
                         /\ heard' = heard \o SubSeq(got \o more, 1, mark - 1)
      BY <1>13, Yields
    <3> DEFINE s == got \o more
    <3>2. s \in Seq(Payload) /\ \A i \in 1..Len(s) : s[i] \in Payload
      BY <3>1, ElementOfSeq
    <3> HIDE DEF s
    <3>3. ASSUME NEW mark \in 1..Len(s) PROVE SubSeq(s, 1, mark - 1) \in Seq(Payload)
      <4>1. mark - 1 \in Int /\ \A i \in 1..(mark - 1) : s[i] \in Payload
        BY <3>2
      <4> QED
        BY <4>1, SubSeqProperties
    <3>4. \A r \in Seq(Payload) : heard \o r \in Seq(Payload)
      BY <1>1, ConcatProperties
    <3> QED
      BY <3>1, <3>2, <3>3, <3>4 DEF s
  <2>7. Queues'
    BY <1>1, <1>4, <1>13, <2>1 DEF YieldBatch
  <2>8. Places'
    BY <1>1, <1>13, <2>1 DEF YieldBatch
  <2>9. taken' \in BOOLEAN
    BY <1>1, <1>13, <2>1 DEF YieldBatch
  <2> QED
    BY <1>3, <2>7, <2>8, <2>9
<1>14. CASE Leave \/ DeleteList
  <2>7. Queues'
    BY <1>1, <1>4, <1>14 DEF Leave, DeleteList
  <2>8. Places'
    <3>1. CASE Leave
      BY <1>1, <3>1 DEF Leave
    <3>2. CASE DeleteList
      BY <1>1, <3>2 DEF DeleteList
    <3> QED
      BY <1>14, <3>1, <3>2
  <2>9. taken' \in BOOLEAN
    BY <1>1, <1>14 DEF Leave, DeleteList
  <2> QED
    BY <1>3, <2>7, <2>8, <2>9
<1> QED
  BY <1>5, <1>6, <1>7, <1>8, <1>9, <1>10, <1>11, <1>12, <1>13, <1>14
     DEF Next, JobStep, DrainStep, ListenerStep

LEMMA ControlStep ==
    ASSUME TypeOK, Control, Next
    PROVE  Control'
<1> USE DEF Control, Awaiting, Finishing, JobOver, DrainLive, channel, reader, JobGoes, Push
<1>1. CASE Emit \/ FlushStart \/ JobRaises \/ Pause
  BY <1>1 DEF Emit, Put, StartsDrain, FlushStart, JobRaises, Pause
<1>2. CASE DrainStep \/ PublishRaises
  BY <1>2 DEF DrainStep, TakeBatch, Publish, PublishRaises, BreakDrain
<1>3. CASE EngineReturns \/ FlushReturns \/ FlushRaises
  BY <1>3 DEF EngineReturns, FlushReturns, FlushRaises, AfterFlush
<1>4. CASE Complete \/ JobFinishes
  BY <1>4 DEF Complete, JobFinishes
<1>5. CASE Fail
  BY <1>5 DEF Fail, Put, StartsDrain
<1>6. CASE Aborted \/ Dies
  BY <1>6 DEF Aborted, Dies, BreakDrain
<1>7. CASE RequestCancel \/ CancelStep
  BY <1>7 DEF RequestCancel, CancelStep
<1>8. CASE Rescue \/ RescueStep
  BY <1>8 DEF Rescue, RescueStep
<1>9. CASE ListenerStep \/ Leave
  BY <1>9 DEF ListenerStep, BlockingPop, YieldBatch, DeleteList, Leave
<1> QED
  BY <1>1, <1>2, <1>3, <1>4, <1>5, <1>6, <1>7, <1>8, <1>9 DEF Next, JobStep

-----------------------------------------------------------------------------
(* The flow: what the listener has heard, holds and will find, and what    *)
(* the channel still publishes.                                            *)

Open == drain \notin {"failed", "cancelled"}
Out == IF Open THEN inflight \o pending ELSE <<>>
Ahead == (heard \o got) \o wire
Flow == Ahead \o Out
Listening == listener \in {"listening", "popped"}

FlowOK ==
    /\ Placed(Flow) /\ UpTo(Flow, emitted) /\ OneError(Flow)
    /\ taken \/ ErrorEnds(Flow)
    /\ Open => Fits(Flow, emitted)
    /\ terminal = "none" => ~Has(Flow, Finished)
    /\ Has(Flow, Error) => terminal = "failed" /\ rescue # "error"
    /\ terminal = "completed" => AllHeard(Flow, emitted)

LEMMA FlowTypes ==
    ASSUME TypeOK
    PROVE  Ahead \in Seq(Payload) /\ Out \in Seq(Payload) /\ Flow \in Seq(Payload)
<1>1. Ahead \in Seq(Payload)
  BY QueueTypes, ConcatProperties DEF Ahead
<1>2. Out \in Seq(Payload)
  BY QueueTypes, ConcatProperties, EmptySeq DEF Out
<1> QED
  BY <1>1, <1>2, ConcatProperties DEF Flow

(* Steps that move payloads along, or change who has ended the turn.       *)
LEMMA FlowKept ==
    ASSUME TypeOK, FlowOK, Flow' = Flow, emitted' = emitted, taken => taken', Open' => Open,
           \/ terminal' = terminal
           \/ terminal = "none" /\ (terminal' = "completed" => Open),
           rescue' = "error" => rescue = "error" \/ terminal = "none"
    PROVE  FlowOK'
<1>1. Len(Flow) \in Nat /\ emitted \in Nat
  BY FlowTypes, BoundsAssumption DEF TypeOK
<1>2. ASSUME terminal = "none", terminal' = "completed" PROVE AllHeard(Flow, emitted)
  <2>1. Len(Flow) = emitted /\ ~Has(Flow, Finished)
    BY <1>2 DEF FlowOK, Fits
  <2> QED
    BY <1>1, <2>1 DEF AllHeard, Has
<1> QED
  BY <1>2 DEF FlowOK

(* The channel is cut off: what it had not published is lost.              *)
LEMMA FlowCut ==
    ASSUME TypeOK, FlowOK, Flow' \in Seq(Payload),
           NEW r \in Seq(Payload), Flow = Flow' \o r, ~Open',
           UNCHANGED <<emitted, taken, terminal, rescue>>, terminal # "completed"
    PROVE  FlowOK'
<1>1. Flow' \in Seq(Payload) /\ emitted \in Nat
  BY BoundsAssumption DEF TypeOK
<1> DEFINE s == Flow'
<1>2. /\ Placed(s \o r) /\ UpTo(s \o r, emitted) /\ OneError(s \o r)
      /\ taken \/ ErrorEnds(s \o r)
      /\ terminal = "none" => ~Has(s \o r, Finished)
      /\ Has(s \o r, Error) => terminal = "failed" /\ rescue # "error"
  BY DEF FlowOK
<1>3. s \in Seq(Payload)
  BY <1>1
<1> HIDE DEF s
<1>4. /\ Placed(s) /\ UpTo(s, emitted) /\ OneError(s)
      /\ taken \/ ErrorEnds(s)
      /\ terminal = "none" => ~Has(s, Finished)
      /\ Has(s, Error) => terminal = "failed" /\ rescue # "error"
  BY <1>1, <1>2, <1>3, PrefixKeeps
<1> QED
  BY <1>4 DEF FlowOK, s

(* FINISHED, or the error of a rescued turn, overtakes what the channel    *)
(* still publishes.                                                        *)
LEMMA FlowInsert ==
    ASSUME TypeOK, FlowOK, NEW u \in Seq(Payload), NEW v \in Seq(Payload),
           NEW x \in {Error, Finished}, Flow = u \o v, Flow' = Append(u, x) \o v,
           UNCHANGED <<emitted, taken, terminal>>, Open' => Open, terminal # "none",
           rescue' = "error" => rescue = "error" /\ x = Finished,
           x = Error => rescue = "error" /\ terminal = "failed" /\ (taken \/ v = <<>>),
           terminal = "completed" => v = <<>>
    PROVE  FlowOK'
<1>1. emitted \in Nat /\ Error # Finished /\ x \in Payload
  BY BoundsAssumption, PayloadAssumption DEF TypeOK, Payload
<1> DEFINE s == u \o v
           t == Append(u, x) \o v
<1>2. x = Error => ~Has(s, Error)
  BY DEF FlowOK
<1>3. /\ Placed(t) /\ UpTo(t, emitted) /\ OneError(t)
      /\ Has(t, x)
      /\ \A y : y # x /\ Has(t, y) => Has(s, y)
  BY <1>1, <1>2, InsertKeeps DEF FlowOK
<1>4. taken \/ ErrorEnds(t)
  <2> SUFFICES ASSUME ~taken PROVE ErrorEnds(t)
    OBVIOUS
  <2>1. CASE x = Finished
    BY <2>1, MarkKeepsEnd DEF FlowOK
  <2>2. CASE x = Error
    <3>1. v = <<>>
      BY <2>2
    <3>2. Append(u, x) \in Seq(Payload)
      BY <1>1, AppendProperties
    <3>3. s = u /\ t = Append(u, x)
      BY <3>1, <3>2, ConcatEmptySeq
    <3>4. /\ Len(t) = Len(u) + 1 /\ Len(u) \in Nat
          /\ \A i \in 1..Len(u) : t[i] = u[i]
      BY <1>1, <3>3, AppendProperties
    <3>5. \A i \in 1..Len(u) : u[i] # Error
      BY <1>2, <2>2, <3>3 DEF Has
    <3> QED
      BY <3>4, <3>5 DEF ErrorEnds
  <2> QED
    BY <2>1, <2>2
<1>5. Open' => Fits(t, emitted)
  <2>1. CASE x = Finished
    BY <1>3, <2>1 DEF Fits
  <2>2. CASE x = Error
    <3> SUFFICES ASSUME Open, ~Has(t, Finished) PROVE Len(t) = emitted + 1
      BY <1>3, <2>2 DEF Fits
    <3>1. Len(t) = Len(s) + 1
      BY <1>1, Inserted
    <3>2. ~Has(s, Finished)
      <4> SUFFICES ASSUME NEW i \in 1..Len(s), s[i] = Finished
                   PROVE  \E j \in 1..Len(t) : t[j] = Finished
        BY DEF Has
      <4> HIDE DEF s, t
      <4>1. /\ Len(u) \in 0..Len(s) /\ Len(s) \in Nat /\ Len(t) = Len(s) + 1
            /\ \A j \in 1..Len(u) : t[j] = s[j]
            /\ \A j \in (Len(u) + 2)..Len(t) : t[j] = s[j - 1] /\ j - 1 \in 1..Len(s)
        BY <1>1, Inserted DEF s, t
      <4>2. CASE i <= Len(u)
        BY <4>1, <4>2
      <4>3. CASE i > Len(u)
        <5>1. i + 1 \in (Len(u) + 2)..Len(t) /\ (i + 1) - 1 = i
          BY <4>1, <4>3
        <5>2. t[i + 1] = s[i]
          BY <4>1, <5>1
        <5>3. i + 1 \in 1..Len(t)
          BY <4>1, <5>1
        <5> QED
          BY <5>2, <5>3
      <4> QED
        BY <4>1, <4>2, <4>3
    <3>3. Len(s) = emitted
      BY <1>2, <2>2, <3>2 DEF FlowOK, Fits
    <3> QED
      BY <3>1, <3>3
  <2> QED
    BY <2>1, <2>2
<1>6. Has(t, Error) => terminal = "failed" /\ rescue' # "error"
  <2>1. CASE x = Error
    BY <1>1, <2>1
  <2>2. CASE x = Finished
    BY <1>1, <1>3, <2>2 DEF FlowOK
  <2> QED
    BY <2>1, <2>2
<1>7. terminal = "completed" => AllHeard(t, emitted)
  <2> SUFFICES ASSUME terminal = "completed" PROVE AllHeard(t, emitted)
    OBVIOUS
  <2>1. x = Finished /\ v = <<>>
    OBVIOUS
  <2>2. s = u /\ t = Append(u, Finished)
    BY <1>1, <2>1, ConcatEmptySeq, AppendProperties
  <2>3. /\ Len(t) = Len(u) + 1 /\ Len(u) \in Nat /\ t[Len(u) + 1] = Finished
        /\ \A i \in 1..Len(u) : t[i] = u[i]
    BY <1>1, <2>1, <2>2, AppendProperties
  <2>4. AllHeard(u, emitted)
    BY <2>2 DEF FlowOK
  <2> HIDE DEF s, t
  <2> QED
    BY <1>1, <2>3, <2>4 DEF AllHeard
<1> QED
  BY <1>3, <1>4, <1>5, <1>6, <1>7 DEF FlowOK

(* The engine emits an event, or the job tells its error.                  *)
LEMMA FlowAppend ==
    ASSUME TypeOK, FlowOK, Open, Open', NEW x \in Payload, Flow' = Append(Flow, x),
           taken' = taken, rescue' = rescue, terminal # "completed",
           \/ /\ x = emitted + 1 /\ emitted' = emitted + 1 /\ terminal' = terminal
              /\ terminal = "failed" => taken
           \/ /\ x = Error /\ emitted' = emitted /\ terminal = "none" /\ terminal' = "failed"
              /\ rescue = "idle"
    PROVE  FlowOK'
<1> DEFINE t == Append(Flow, x)
<1>1. Flow \in Seq(Payload) /\ emitted \in Nat
  BY FlowTypes, BoundsAssumption DEF TypeOK
<1>2. emitted + 1 # Error /\ emitted + 1 # Finished /\ Error # Finished
  <2>1. emitted + 1 \in Nat
    BY <1>1
  <2> QED
    BY <2>1, PayloadAssumption
<1>3. Placed(Flow) /\ UpTo(Flow, emitted) /\ OneError(Flow) /\ Fits(Flow, emitted)
  BY DEF FlowOK
<1>4. x = Error => ~Has(Flow, Error)
  BY <1>2 DEF FlowOK
<1>5. /\ Placed(t) /\ OneError(t)
      /\ ~Has(Flow, Error) => ErrorEnds(t)
      /\ \A y : y # x /\ Has(t, y) => Has(Flow, y)
      /\ x = emitted + 1 => UpTo(t, emitted + 1) /\ Fits(t, emitted + 1)
      /\ x = Error => UpTo(t, emitted) /\ Fits(t, emitted)
  BY <1>1, <1>3, <1>4, AppendKeeps
<1> HIDE DEF t
<1>6. taken \/ ErrorEnds(t)
  BY <1>2, <1>4, <1>5 DEF FlowOK
<1>7. terminal' = "none" => ~Has(t, Finished)
  BY <1>2, <1>5 DEF FlowOK
<1>8. Has(t, Error) => terminal' = "failed" /\ rescue' # "error"
  BY <1>2, <1>5 DEF FlowOK
<1>9. UpTo(t, emitted') /\ Fits(t, emitted')
  BY <1>2, <1>5
<1>10. terminal' # "completed"
  OBVIOUS
<1> QED
  BY <1>5, <1>6, <1>7, <1>8, <1>9, <1>10 DEF FlowOK, t

(* How the steps move the flow.                                            *)

LEMMA Assoc ==
    \A s, t, u \in Seq(Payload) : (s \o t) \o u = s \o (t \o u)
BY ConcatAssociative

LEMMA ConcatAppend ==
    ASSUME NEW s \in Seq(Payload), NEW t \in Seq(Payload), NEW x \in Payload
    PROVE  s \o Append(t, x) = Append(s \o t, x)
<1>1. Append(t, x) = t \o <<x>> /\ <<x>> \in Seq(Payload)
  BY AppendIsConcat
<1>2. s \o t \in Seq(Payload)
  BY ConcatProperties
<1>3. Append(s \o t, x) = (s \o t) \o <<x>>
  BY <1>2, AppendIsConcat
<1> QED
  BY <1>1, <1>3, ConcatAssociative

LEMMA NothingOut ==
    ASSUME TypeOK, Control, drain \in {"none", "done", "failed", "cancelled"}
    PROVE  Out = <<>> /\ Flow = Ahead
<1>1. Out = <<>>
  <2>1. CASE drain \in {"none", "done"}
    <3>1. pending = <<>> /\ inflight = <<>>
      BY <2>1 DEF TypeOK, Control
    <3> QED
      BY <3>1, QueueTypes, ConcatEmptySeq DEF Out
  <2>2. CASE drain \in {"failed", "cancelled"}
    BY <2>2 DEF Out, Open
  <2> QED
    BY <2>1, <2>2
<1> QED
  BY <1>1, FlowTypes, ConcatEmptySeq DEF Flow

LEMMA WirePushed ==
    ASSUME TypeOK, NEW x \in Payload, wire' = Append(wire, x),
           UNCHANGED <<heard, got, drain, inflight, pending>>
    PROVE  Flow' = Append(Ahead, x) \o Out /\ (Open' <=> Open)
<1>1. heard \o got \in Seq(Payload)
  BY QueueTypes, ConcatProperties
<1>2. Ahead' = Append(Ahead, x)
  BY <1>1, QueueTypes, ConcatAppend DEF Ahead
<1>3. Out' = Out /\ (Open' <=> Open)
  BY DEF Out, Open
<1> QED
  BY <1>2, <1>3 DEF Flow

LEMMA ChannelPushed ==
    ASSUME TypeOK, NEW x \in Payload, Put(x), UNCHANGED <<heard, got, wire, inflight>>
    PROVE  /\ Open' <=> Open
           /\ Open => Flow' = Append(Flow, x)
           /\ ~Open => Flow' = Flow
<1>1. Open' <=> Open
  BY DEF Open, Put, StartsDrain
<1>2. Ahead' = Ahead
  BY DEF Ahead
<1>3. ASSUME Open PROVE Out' = Append(Out, x)
  BY <1>1, <1>3, QueueTypes, ConcatAppend DEF Put, Out
<1>4. ASSUME Open PROVE Flow' = Append(Flow, x)
  <2>1. Ahead \o Append(Out, x) = Append(Ahead \o Out, x)
    BY FlowTypes, ConcatAppend
  <2> QED
    BY <1>2, <1>3, <1>4, <2>1 DEF Flow
<1>5. ASSUME ~Open PROVE Flow' = Flow
  BY <1>1, <1>2, <1>5 DEF Out, Flow
<1> QED
  BY <1>1, <1>4, <1>5

LEMMA BatchMoves ==
    ASSUME TypeOK, DrainStep
    PROVE  Flow' = Flow /\ Open /\ Open'
<1>1. Open /\ Open'
  BY DEF DrainStep, TakeBatch, Publish, Open
<1>2. CASE TakeBatch
  <2>1. inflight = <<>> /\ inflight' = pending /\ pending' = <<>> /\ Ahead' = Ahead
    BY <1>2 DEF TakeBatch, TypeOK, reader, Ahead
  <2>2. Out' = Out
    BY <1>1, <2>1, QueueTypes, ConcatEmptySeq DEF Out
  <2> QED
    BY <1>1, <2>1, <2>2 DEF Flow
<1>3. CASE Publish
  <2>1. /\ wire' = wire \o inflight /\ inflight' = <<>> /\ pending' = pending
        /\ heard' = heard /\ got' = got
    BY <1>3 DEF Publish, reader
  <2>2. heard \o got \in Seq(Payload)
    BY QueueTypes, ConcatProperties
  <2>3. Ahead' = Ahead \o inflight
    <3>1. wire \in Seq(Payload) /\ inflight \in Seq(Payload)
      BY QueueTypes
    <3>2. ((heard \o got) \o wire) \o inflight = (heard \o got) \o (wire \o inflight)
      BY ONLY <2>2, <3>1, Assoc, Zenon
    <3> QED
      BY <2>1, <3>2 DEF Ahead
  <2>4. Out = inflight \o pending /\ Out' = pending
    BY <1>1, <2>1, QueueTypes, ConcatEmptySeq DEF Out
  <2>5. (Ahead \o inflight) \o pending = Ahead \o (inflight \o pending)
    <3>1. Ahead \in Seq(Payload) /\ inflight \in Seq(Payload) /\ pending \in Seq(Payload)
      BY QueueTypes, FlowTypes
    <3> QED
      BY ONLY <3>1, Assoc, Zenon
  <2> QED
    BY <1>1, <2>3, <2>4, <2>5 DEF Flow
<1> QED
  BY <1>2, <1>3 DEF DrainStep

LEMMA DrainBreaks ==
    ASSUME TypeOK, NEW how \in {"failed", "cancelled"}, BreakDrain(how), drain \in DrainLive,
           UNCHANGED <<heard, got>>
    PROVE  /\ ~Open' /\ Flow' \in Seq(Payload)
           /\ \E r \in Seq(Payload) : Flow = Flow' \o r
<1>1. Open /\ ~Open'
  BY DEF BreakDrain, Open, DrainLive
<1>2. Out = inflight \o pending /\ Out' = <<>>
  BY <1>1 DEF Out
<1>3. heard \o got \in Seq(Payload)
  BY QueueTypes, ConcatProperties
<1>4. Ahead' \in {Ahead, Ahead \o inflight}
  <2>1. ((heard \o got) \o wire) \o inflight = (heard \o got) \o (wire \o inflight)
    <3>1. wire \in Seq(Payload) /\ inflight \in Seq(Payload)
      BY QueueTypes
    <3> QED
      BY ONLY <1>3, <3>1, Assoc, Zenon
  <2>2. Ahead' = (heard \o got) \o wire' /\ wire' \in {wire, wire \o inflight}
    BY DEF BreakDrain, Ahead
  <2> QED
    BY <2>1, <2>2 DEF Ahead
<1>5. Ahead \o inflight \in Seq(Payload)
  BY QueueTypes, FlowTypes, ConcatProperties
<1>6. Flow' = Ahead' /\ Flow' \in Seq(Payload)
  BY <1>2, <1>4, <1>5, FlowTypes, ConcatEmptySeq DEF Flow
<1>7. CASE Ahead' = Ahead
  <2>1. Flow = Flow' \o Out
    BY <1>6, <1>7 DEF Flow
  <2> QED
    BY <1>1, <1>6, <2>1, FlowTypes
<1>8. CASE Ahead' = Ahead \o inflight
  <2>1. Ahead \o (inflight \o pending) = (Ahead \o inflight) \o pending
    <3>1. Ahead \in Seq(Payload) /\ inflight \in Seq(Payload) /\ pending \in Seq(Payload)
      BY QueueTypes, FlowTypes
    <3> HIDE DEF Ahead, Payload
    <3> QED
      BY <3>1, ConcatAssociative
  <2>2. Flow = Flow' \o pending
    BY <1>2, <1>6, <1>8, <2>1 DEF Flow
  <2> QED
    BY <1>1, <1>6, <2>2, QueueTypes
<1> QED
  BY <1>1, <1>4, <1>6, <1>7, <1>8

LEMMA PopMoves ==
    ASSUME TypeOK, Control, BlockingPop
    PROVE  Flow' = Flow /\ (Open' <=> Open)
<1>1. got = <<>> /\ wire # <<>> /\ got' = <<Head(wire)>> /\ wire' = Tail(wire) /\ heard' = heard
  BY DEF BlockingPop, Control
<1>2. Out' = Out /\ (Open' <=> Open)
  BY DEF BlockingPop, channel, Out, Open
<1>3. Head(wire) \in Payload /\ Tail(wire) \in Seq(Payload) /\ wire = <<Head(wire)>> \o Tail(wire)
  <2>1. Head(wire) \in Payload /\ Tail(wire) \in Seq(Payload)
    BY <1>1, QueueTypes, HeadTailProperties
  <2>2. Len(wire) \in Nat \ {0}
    BY <1>1, QueueTypes, EmptySeq
  <2>3. Head(wire) = wire[1] /\ Tail(wire) = SubSeq(wire, 2, Len(wire))
    BY <1>1, QueueTypes, TailIsSubSeq
  <2>4. 1 \in 1..Len(wire) /\ Len(wire) \in 1..Len(wire)
    BY <2>2
  <2>5. SubSeq(wire, 1, Len(wire)) = <<wire[1]>> \o SubSeq(wire, 1 + 1, Len(wire))
    BY <2>4, QueueTypes, SubSeqRecursiveFirst
  <2>6. SubSeq(wire, 1, Len(wire)) = wire
    BY QueueTypes, SubSeqFull
  <2> QED
    BY <2>1, <2>3, <2>5, <2>6
<1>4. heard \o got = heard
  BY <1>1, QueueTypes, ConcatEmptySeq
<1>5. <<Head(wire)>> \in Seq(Payload)
  BY <1>3
<1>6. Ahead' = Ahead
  <2>1. (heard \o <<Head(wire)>>) \o Tail(wire) = heard \o (<<Head(wire)>> \o Tail(wire))
    <3>1. heard \in Seq(Payload) /\ Tail(wire) \in Seq(Payload)
      BY <1>3, QueueTypes
    <3> QED
      BY ONLY <1>5, <3>1, Assoc, Zenon
  <2> QED
    BY <1>1, <1>3, <1>4, <2>1 DEF Ahead
<1> QED
  BY <1>2, <1>6 DEF Flow

LEMMA HasConcat ==
    ASSUME NEW s \in Seq(Payload), NEW t \in Seq(Payload), NEW x, Has(s \o t, x), ~Has(s, x)
    PROVE  Has(t, x)
<1>1. /\ Len(s) \in Nat /\ Len(t) \in Nat /\ Len(s \o t) = Len(s) + Len(t)
      /\ \A i \in 1..(Len(s) + Len(t)) :
            (s \o t)[i] = IF i <= Len(s) THEN s[i] ELSE t[i - Len(s)]
  BY ConcatProperties
<1>2. PICK i \in 1..(Len(s) + Len(t)) : (s \o t)[i] = x
  BY <1>1 DEF Has
<1>3. ~(i <= Len(s))
  BY <1>1, <1>2 DEF Has
<1>4. i - Len(s) \in 1..Len(t) /\ t[i - Len(s)] = x
  BY <1>1, <1>2, <1>3
<1> QED
  BY <1>4 DEF Has

(* A batch without a mark stays in the flow; with one, what the client     *)
(* gets is the beginning of the flow up to the mark.                       *)
LEMMA YieldMoves ==
    ASSUME TypeOK, Control, YieldBatch, ~Has(heard, Finished)
    PROVE  /\ ~Has(heard', Finished)
           /\ \/ listener' = "listening" /\ Flow' = Flow /\ (Open' <=> Open)
              \/ /\ listener' = "cleanup" /\ heard' \in Seq(Payload)
                 /\ \E r \in Seq(Payload) :
                       Flow = heard' \o r /\ Len(r) > 0 /\ r[1] = Finished
<1>1. PICK more \in Seq(Payload) :
         /\ wire = more \o wire' /\ wire' \in Seq(Payload)
         /\ got \o more \in Seq(Payload)
         /\ \/ /\ listener' = "listening" /\ heard' = heard \o (got \o more)
               /\ ~Has(got \o more, Finished)
            \/ /\ listener' = "cleanup"
               /\ \E mark \in 1..Len(got \o more) :
                     /\ (got \o more)[mark] = Finished
                     /\ \A i \in 1..(mark - 1) : (got \o more)[i] # Finished
                     /\ heard' = heard \o SubSeq(got \o more, 1, mark - 1)
  BY Yields
<1>2. got' = <<>> /\ Out' = Out /\ (Open' <=> Open)
  BY DEF YieldBatch, channel, Out, Open
<1> DEFINE s == got \o more
           rest == wire' \o Out
<1>3. /\ heard \in Seq(Payload) /\ got \in Seq(Payload) /\ Out \in Seq(Payload)
      /\ s \in Seq(Payload) /\ wire' \in Seq(Payload) /\ heard \o s \in Seq(Payload)
      /\ heard \o got \in Seq(Payload) /\ rest \in Seq(Payload)
  <2>1. heard \in Seq(Payload) /\ got \in Seq(Payload) /\ Out \in Seq(Payload)
    BY QueueTypes, FlowTypes
  <2> HIDE DEF Payload
  <2> QED
    BY <1>1, <2>1, ConcatProperties
<1>4. Ahead = (heard \o s) \o wire' /\ Flow = (heard \o s) \o rest
  <2>1. ((heard \o got) \o more) \o wire' = (heard \o got) \o (more \o wire')
    <3>1. /\ heard \o got \in Seq(Payload) /\ more \in Seq(Payload)
          /\ wire' \in Seq(Payload)
      BY <1>1, <1>3
    <3> QED
      BY ONLY <3>1, Assoc, Zenon
  <2>2. (heard \o got) \o more = heard \o s
    <3>1. heard \in Seq(Payload) /\ got \in Seq(Payload) /\ more \in Seq(Payload)
      BY <1>1, <1>3
    <3> QED
      BY ONLY <3>1, Assoc, Zenon DEF s
  <2>3. Ahead = (heard \o s) \o wire'
    BY <1>1, <2>1, <2>2 DEF Ahead
  <2>4. ((heard \o s) \o wire') \o Out = (heard \o s) \o rest
    <3>1. heard \o s \in Seq(Payload) /\ wire' \in Seq(Payload) /\ Out \in Seq(Payload)
      BY <1>3
    <3> QED
      BY ONLY <3>1, Assoc, Zenon DEF rest
  <2> QED
    BY <2>3, <2>4 DEF Flow
<1>5. CASE listener' = "listening"
  <2>1. heard' = heard \o s /\ ~Has(s, Finished)
    BY <1>1, <1>5
  <2>2. Ahead' = Ahead
    BY <1>2, <1>3, <1>4, <2>1, ConcatEmptySeq DEF Ahead
  <2>3. ~Has(heard', Finished)
    BY <1>3, <2>1, HasConcat
  <2> QED
    BY <1>2, <1>5, <2>2, <2>3 DEF Flow
<1>6. CASE listener' = "cleanup"
  <2>1. PICK mark \in 1..Len(s) :
           /\ s[mark] = Finished
           /\ \A i \in 1..(mark - 1) : s[i] # Finished
           /\ heard' = heard \o SubSeq(s, 1, mark - 1)
    BY <1>1, <1>6
  <2>2. Len(s) \in Nat /\ \A i \in 1..Len(s) : s[i] \in Payload
    BY <1>3, ElementOfSeq
  <2> DEFINE a == SubSeq(s, 1, mark - 1)
             b == SubSeq(s, mark, Len(s))
  <2> HIDE DEF s, rest, Payload
  <2>3. a \in Seq(Payload) /\ Len(a) = mark - 1 /\ \A i \in 1..(mark - 1) : a[i] = s[i]
    <3>1. \A i \in 1..(mark - 1) : s[i] \in Payload
      BY <2>2
    <3>2. /\ a \in Seq(Payload)
          /\ Len(a) = IF 1 <= mark - 1 THEN (mark - 1) - 1 + 1 ELSE 0
          /\ \A i \in 1..((mark - 1) - 1 + 1) : a[i] = s[1 + i - 1]
      BY <2>2, <3>1, SubSeqProperties
    <3> HIDE DEF a
    <3> QED
      BY <2>2, <3>2
  <2>4. b \in Seq(Payload) /\ Len(b) > 0 /\ b[1] = Finished
    <3>1. /\ b \in Seq(Payload)
          /\ Len(b) = IF mark <= Len(s) THEN Len(s) - mark + 1 ELSE 0
          /\ \A i \in 1..(Len(s) - mark + 1) : b[i] = s[mark + i - 1]
      BY <2>2, SubSeqProperties
    <3> HIDE DEF b
    <3>2. Len(s) - mark + 1 \in Nat \ {0} /\ mark + 1 - 1 = mark
      BY <2>2
    <3>3. b[1] = s[mark]
      BY <3>1, <3>2
    <3>4. Len(b) > 0
      BY <2>2, <3>1
    <3> QED
      BY <2>1, <3>1, <3>3, <3>4
  <2>5. s = a \o b
    <3>1. /\ 1 \in 1..(Len(s) + 1) /\ mark - 1 \in (1 - 1)..Len(s)
          /\ Len(s) \in (mark - 1)..Len(s) /\ (mark - 1) + 1 = mark
      BY <2>2
    <3>2. SubSeq(s, 1, mark - 1) \o SubSeq(s, (mark - 1) + 1, Len(s)) = SubSeq(s, 1, Len(s))
      BY <1>3, <3>1, ConcatAdjacentSubSeq
    <3> QED
      BY <1>3, <3>1, <3>2, SubSeqFull
  <2> HIDE DEF a, b
  <2>6. heard' = heard \o a
    BY <2>1 DEF a
  <2>7. ~Has(a, Finished)
    BY <2>1, <2>3 DEF Has
  <2>8. heard' \in Seq(Payload) /\ ~Has(heard', Finished)
    BY <1>3, <2>3, <2>6, <2>7, HasConcat, ConcatProperties
  <2>9. Flow = heard' \o (b \o rest) /\ b \o rest \in Seq(Payload)
    <3>1. (heard \o a) \o b = heard \o (a \o b)
      <4>1. heard \in Seq(Payload) /\ a \in Seq(Payload) /\ b \in Seq(Payload)
        BY <1>3, <2>3, <2>4
      <4> QED
        BY ONLY <4>1, Assoc, Zenon
    <3>2. (heard' \o b) \o rest = heard' \o (b \o rest)
      <4>1. heard' \in Seq(Payload) /\ b \in Seq(Payload) /\ rest \in Seq(Payload)
        BY <1>3, <2>4, <2>8
      <4> QED
        BY ONLY <4>1, Assoc, Zenon
    <3>3. b \o rest \in Seq(Payload)
      BY <1>3, <2>4, ConcatProperties
    <3> QED
      BY <1>4, <2>5, <2>6, <3>1, <3>2, <3>3
  <2>10. Len(b \o rest) > 0 /\ (b \o rest)[1] = Finished
    BY <1>3, <2>4, ConcatProperties
  <2> QED
    BY <1>6, <2>8, <2>9, <2>10
<1> QED
  BY <1>1, <1>5, <1>6

-----------------------------------------------------------------------------
(* While the listener listens, every step leaves a flow in order.          *)
LEMMA FlowStep ==
    ASSUME TypeOK, Control, FlowOK, ~Has(heard, Finished), Next, Listening, Listening'
    PROVE  FlowOK'
<1> DEFINE Still == Flow' = Flow /\ emitted' = emitted /\ taken' = taken /\ (Open' => Open)
                    /\ rescue' = rescue /\ terminal' = terminal
<1>1. Still => FlowOK'
  BY FlowKept
<1>2. ASSUME UNCHANGED <<heard, got, wire, inflight, pending>>, Open' <=> Open
      PROVE  Flow' = Flow
  BY <1>2 DEF Flow, Ahead, Out
<1>3. Error \in Payload /\ Finished \in Payload
  BY DEF Payload
<1> USE DEF channel, reader, JobGoes
<1>4. CASE Emit
  <2>1. /\ Put(emitted + 1) /\ emitted' = emitted + 1 /\ job = "engine"
        /\ UNCHANGED <<heard, got, wire, inflight, taken, rescue, terminal>>
        /\ emitted + 1 \in Payload
    BY <1>4, BoundsAssumption DEF Emit, TypeOK, Payload
  <2>2. terminal # "completed" /\ (terminal = "failed" => taken)
    BY <2>1 DEF Control, JobOver, Finishing
  <2>3. CASE Open
    BY <2>1, <2>2, <2>3, ChannelPushed, FlowAppend
  <2>4. CASE ~Open
    <3>1. Flow' = Flow /\ ~Open'
      BY <2>1, <2>4, ChannelPushed
    <3>2. UpTo(Flow, emitted) => UpTo(Flow, emitted + 1)
      BY BoundsAssumption DEF UpTo, TypeOK
    <3> QED
      BY <2>1, <2>2, <3>1, <3>2 DEF FlowOK
  <2> QED
    BY <2>3, <2>4
<1>5. CASE Fail
  <2>1. CASE terminal = "none"
    <3>1. /\ Put(Error) /\ terminal' = "failed" /\ rescue = "idle"
          /\ UNCHANGED <<heard, got, wire, inflight, taken, rescue, emitted>>
      BY <1>5, <2>1 DEF Fail, Control
    <3>2. CASE Open
      BY <1>3, <2>1, <3>1, <3>2, ChannelPushed, FlowAppend
    <3>3. CASE ~Open
      BY <1>3, <2>1, <3>1, <3>3, ChannelPushed, FlowKept
    <3> QED
      BY <3>2, <3>3
  <2>2. CASE terminal # "none"
    <3>1. UNCHANGED <<heard, got, wire, inflight, pending, drain, emitted, taken, rescue, terminal>>
      BY <1>5, <2>2 DEF Fail
    <3> QED
      BY <1>1, <1>2, <3>1 DEF Open
  <2> QED
    BY <2>1, <2>2
<1>6. CASE FlushStart \/ JobRaises \/ EngineReturns \/ FlushRaises \/ FlushReturns
  <2>1. /\ UNCHANGED <<heard, got, wire, inflight, pending, emitted, taken, rescue, terminal>>
        /\ Open' <=> Open
    BY <1>6 DEF FlushStart, JobRaises, EngineReturns, FlushRaises, FlushReturns, Open
  <2> QED
    BY <1>1, <1>2, <2>1
<1>7. CASE Pause
  <2>1. drain \in {"none", "done"} /\ pending = <<>>
    BY <1>7 DEF Pause, Control
  <2>2. /\ UNCHANGED <<heard, got, wire, inflight, pending, emitted, taken, rescue, terminal>>
        /\ Open' <=> Open
    BY <1>7, <2>1 DEF Pause, Open
  <2> QED
    BY <1>1, <1>2, <2>2
<1>8. CASE DrainStep
  <2>1. UNCHANGED <<emitted, taken, rescue, terminal>>
    BY <1>8 DEF DrainStep, TakeBatch, Publish
  <2> QED
    BY <1>1, <1>8, <2>1, BatchMoves
<1>9. ASSUME NEW how \in {"failed", "cancelled"}, BreakDrain(how), drain \in DrainLive,
             UNCHANGED <<heard, got, emitted, taken, rescue, terminal>>
      PROVE  FlowOK'
  <2>1. terminal # "completed"
    BY <1>9 DEF Control, DrainLive
  <2> QED
    BY <1>9, <2>1, DrainBreaks, FlowCut
<1>10. CASE PublishRaises
  BY <1>9, <1>10 DEF PublishRaises, DrainLive
<1>11. CASE Aborted \/ Dies
  <2>1. UNCHANGED <<heard, got, emitted, taken, rescue, terminal>>
    BY <1>11 DEF Aborted, Dies
  <2>2. CASE drain \in DrainLive /\ BreakDrain("cancelled")
    BY <1>9, <2>1, <2>2
  <2>3. CASE UNCHANGED <<wire, inflight, pending, drain>>
    BY <1>1, <1>2, <2>1, <2>3 DEF Open
  <2> QED
    BY <1>11, <2>2, <2>3 DEF Aborted, Dies
<1>12. CASE Complete \/ RequestCancel \/ Rescue
  <2>1. /\ UNCHANGED <<heard, got, wire, inflight, pending, drain, emitted>>
        /\ Open' <=> Open
    BY <1>12 DEF Complete, RequestCancel, Rescue, Open
  <2>2. taken => taken'
    BY <1>12 DEF Complete, RequestCancel, Rescue
  <2>3. \/ terminal' = terminal
        \/ terminal = "none" /\ (terminal' = "completed" => Open)
    BY <1>12 DEF Complete, RequestCancel, Rescue, Control, Open
  <2>4. rescue' = "error" => rescue = "error" \/ terminal = "none"
    BY <1>12 DEF Complete, RequestCancel, Rescue
  <2> QED
    BY <1>2, <2>1, <2>2, <2>3, <2>4, FlowKept
<1>13. ASSUME NEW x \in {Error, Finished}, wire' = Append(wire, x),
              UNCHANGED <<heard, got, drain, inflight, pending, emitted, taken, terminal>>,
              terminal # "none",
              rescue' = "error" => rescue = "error" /\ x = Finished,
              x = Error => rescue = "error"
       PROVE  FlowOK'
  <2>1. Flow' = Append(Ahead, x) \o Out /\ (Open' <=> Open)
    BY <1>3, <1>13, WirePushed
  <2>2. x = Error => terminal = "failed" /\ (taken \/ Out = <<>>)
    <3> SUFFICES ASSUME x = Error PROVE terminal = "failed" /\ (taken \/ Out = <<>>)
      OBVIOUS
    <3>1. rescue = "error" /\ terminal = "failed" /\ (job = "dead" \/ taken)
      BY <1>13 DEF Control
    <3>2. job = "dead" => Out = <<>>
      BY NothingOut DEF Control, DrainLive, TypeOK
    <3> QED
      BY <3>1, <3>2
  <2>3. terminal = "completed" => Out = <<>>
    BY NothingOut DEF Control
  <2>4. Flow = Ahead \o Out
    BY DEF Flow
  <2> QED
    BY <1>13, <2>1, <2>2, <2>3, <2>4, FlowTypes, FlowInsert
<1>14. CASE JobFinishes
  <2>1. terminal # "none"
    BY <1>14 DEF JobFinishes, Finishing, Push, Control
  <2>2. CASE wire' = Append(wire, Finished)
    <3>1. UNCHANGED <<heard, got, drain, inflight, pending, emitted, taken, terminal, rescue>>
      BY <1>14 DEF JobFinishes, Push
    <3> QED
      BY <1>13, <2>1, <2>2, <3>1, PayloadAssumption
  <2>3. CASE UNCHANGED wire
    <3>1. /\ UNCHANGED <<heard, got, wire, inflight, pending, emitted, taken, rescue, terminal>>
          /\ Open' <=> Open
      BY <1>14, <2>3 DEF JobFinishes, Push, Open
    <3> QED
      BY <1>1, <1>2, <3>1
  <2> QED
    BY <1>14, <2>2, <2>3 DEF JobFinishes, Push
<1>15. CASE CancelStep
  <2>1. UNCHANGED <<heard, got, drain, inflight, pending, emitted, taken, terminal, rescue>>
    BY <1>15 DEF CancelStep, Push
  <2>2. CASE cancel = "finish" /\ wire' = Append(wire, Finished)
    <3>1. terminal # "none"
      BY <2>2 DEF Control
    <3> QED
      BY <1>13, <2>1, <2>2, <3>1, PayloadAssumption
  <2>3. CASE UNCHANGED wire
    BY <1>1, <1>2, <2>1, <2>3 DEF Open
  <2> QED
    BY <1>15, <2>2, <2>3 DEF CancelStep, Push
<1>16. CASE RescueStep
  <2>1. /\ UNCHANGED <<heard, got, drain, inflight, pending, emitted, taken, terminal>>
        /\ terminal # "none" /\ rescue' # "error"
    BY <1>16 DEF RescueStep, Push, Control
  <2>2. CASE UNCHANGED wire
    <3>1. Open' <=> Open
      BY <2>1 DEF Open
    <3> QED
      BY <1>2, <2>1, <2>2, <3>1, FlowKept
  <2>3. CASE \/ rescue = "error" /\ wire' = Append(wire, Error)
             \/ wire' = Append(wire, Finished)
    BY <1>13, <2>1, <2>3, PayloadAssumption
  <2> QED
    BY <1>16, <2>2, <2>3 DEF RescueStep, Push
<1>17. CASE BlockingPop
  <2>1. UNCHANGED <<emitted, taken, rescue, terminal>>
    BY <1>17 DEF BlockingPop
  <2> QED
    BY <1>1, <1>17, <2>1, PopMoves
<1>18. CASE YieldBatch
  <2>1. UNCHANGED <<emitted, taken, rescue, terminal>>
    BY <1>18 DEF YieldBatch
  <2>2. Flow' = Flow /\ (Open' <=> Open)
    BY <1>18, YieldMoves DEF Listening
  <2> QED
    BY <1>1, <2>1, <2>2
<1>19. ~Leave /\ ~DeleteList
  BY DEF Leave, DeleteList, Listening
<1> QED
  BY <1>4, <1>5, <1>6, <1>7, <1>8, <1>10, <1>11, <1>12, <1>14, <1>15, <1>16,
     <1>17, <1>18, <1>19 DEF Next, JobStep, ListenerStep

-----------------------------------------------------------------------------
(* What the client has heard.                                              *)

InOrder(h, n, late) ==
    \A i \in 1..Len(h) :
        /\ h[i] = Error \/ (h[i] = Place(h, i) /\ h[i] <= n)
        /\ h[i] = Error => ~ErrorBefore(h, i) /\ (i = Len(h) \/ late)

Heard ==
    /\ ~Has(heard, Finished)
    /\ ~Listening => InOrder(heard, emitted, taken)
    /\ listener \in {"cleanup", "ended"} =>
          terminal # "none" /\ (terminal = "completed" => Len(heard) = emitted)

Delivered == TypeOK /\ Control /\ (Listening => FlowOK) /\ Heard

LEMMA HeardFirst ==
    ASSUME TypeOK
    PROVE  heard \in Seq(Payload) /\ \E r \in Seq(Payload) : Flow = heard \o r
<1> DEFINE ahead == got \o wire
<1>1. /\ heard \in Seq(Payload) /\ got \in Seq(Payload) /\ wire \in Seq(Payload)
      /\ Out \in Seq(Payload)
  BY QueueTypes, FlowTypes
<1>2. ahead \in Seq(Payload)
  BY <1>1, ConcatProperties
<1>3. Ahead = heard \o ahead
  <2>1. heard \in Seq(Payload) /\ got \in Seq(Payload) /\ wire \in Seq(Payload)
    BY <1>1
  <2>2. (heard \o got) \o wire = heard \o (got \o wire)
    BY ONLY <2>1, Assoc, Zenon
  <2> QED
    BY <2>2 DEF Ahead
<1> HIDE DEF ahead
<1>4. Flow = heard \o (ahead \o Out)
  <2>1. heard \in Seq(Payload) /\ ahead \in Seq(Payload) /\ Out \in Seq(Payload)
    BY <1>1, <1>2
  <2>2. (heard \o ahead) \o Out = heard \o (ahead \o Out)
    BY ONLY <2>1, Assoc, Zenon
  <2> QED
    BY <1>3, <2>2 DEF Flow
<1>5. ahead \o Out \in Seq(Payload)
  BY <1>1, <1>2, ConcatProperties
<1> QED
  BY <1>1, <1>4, <1>5

(* A beginning of the flow without a mark is in order.                     *)
LEMMA BeginningInOrder ==
    ASSUME TypeOK, FlowOK, NEW h \in Seq(Payload), NEW r \in Seq(Payload),
           Flow = h \o r, ~Has(h, Finished)
    PROVE  InOrder(h, emitted, taken)
<1>1. emitted \in Nat /\ Len(h) \in Nat /\ Error # Finished
  BY BoundsAssumption, PayloadAssumption DEF TypeOK
<1>2. /\ Placed(h) /\ UpTo(h, emitted) /\ OneError(h)
      /\ taken \/ ErrorEnds(h)
  BY <1>1, PrefixKeeps DEF FlowOK
<1>3. \A i \in 1..Len(h) : h[i] # Finished
  BY DEF Has
<1> SUFFICES ASSUME NEW i \in 1..Len(h)
             PROVE  /\ h[i] = Error \/ (h[i] = Place(h, i) /\ h[i] <= emitted)
                    /\ h[i] = Error => ~ErrorBefore(h, i) /\ (i = Len(h) \/ taken)
  BY DEF InOrder
<1>4. h[i] # Error => h[i] = Place(h, i)
  BY <1>1, <1>2, <1>3 DEF Placed, Marked
<1>5. h[i] # Error => h[i] <= emitted
  BY <1>1, <1>2, <1>3 DEF UpTo
<1>6. h[i] = Error => ~ErrorBefore(h, i)
  BY <1>1, <1>2 DEF OneError, ErrorBefore
<1>7. h[i] = Error => i = Len(h) \/ taken
  BY <1>1, <1>2, <1>3 DEF ErrorEnds
<1> QED
  BY <1>4, <1>5, <1>6, <1>7

(* What was in order stays in order as the engine goes on.                 *)
LEMMA OrderStays ==
    ASSUME NEW h \in Seq(Payload), NEW m \in 0..Events, NEW n \in Nat, m <= n, NEW a, NEW b,
           a => b, InOrder(h, m, a)
    PROVE  InOrder(h, n, b)
<1> SUFFICES ASSUME NEW i \in 1..Len(h)
             PROVE  /\ h[i] = Error \/ (h[i] = Place(h, i) /\ h[i] <= n)
                    /\ h[i] = Error => ~ErrorBefore(h, i) /\ (i = Len(h) \/ b)
  BY DEF InOrder
<1>1. h[i] = Error => ~ErrorBefore(h, i) /\ (i = Len(h) \/ b)
  BY DEF InOrder
<1>2. ASSUME h[i] # Error PROVE h[i] = Place(h, i) /\ h[i] <= n
  <2>1. h[i] = Place(h, i) /\ h[i] <= m
    BY <1>2 DEF InOrder
  <2>2. h[i] \in Int /\ m \in Int
    BY <2>1 DEF Place
  <2> QED
    BY <2>1, <2>2
<1> QED
  BY <1>1, <1>2

LEMMA HeardStep ==
    ASSUME Delivered, Next
    PROVE  Heard'
<1> USE DEF Delivered
<1>1. heard \in Seq(Payload) /\ emitted \in 0..Events /\ emitted' \in Nat /\ emitted <= emitted'
  <2>1. emitted' \in {emitted, emitted + 1}
    BY DEF Next, Emit, FlushStart, JobRaises, Pause, DrainStep, TakeBatch, Publish, PublishRaises,
       JobStep, EngineReturns, FlushReturns, FlushRaises, Complete, Fail, JobFinishes, Aborted,
       Dies, RequestCancel, CancelStep, Rescue, RescueStep, ListenerStep, BlockingPop,
       YieldBatch, DeleteList, Leave, JobGoes
  <2> QED
    BY <2>1, QueueTypes, BoundsAssumption DEF TypeOK
<1>2. taken => taken'
  BY DEF Next, Emit, FlushStart, JobRaises, Pause, DrainStep, TakeBatch, Publish, PublishRaises,
     JobStep, EngineReturns, FlushReturns, FlushRaises, Complete, Fail, JobFinishes, Aborted,
     Dies, RequestCancel, CancelStep, Rescue, RescueStep, ListenerStep, BlockingPop,
     YieldBatch, DeleteList, Leave, JobGoes
<1>3. ASSUME listener' = listener, heard' = heard PROVE Heard'
  <2>1. ~Listening => InOrder(heard, emitted', taken')
    BY <1>1, <1>2, OrderStays DEF Heard
  <2>2. ASSUME listener \in {"cleanup", "ended"}
        PROVE  /\ terminal' = terminal
               /\ terminal = "completed" => emitted' = emitted
    <3>1. terminal # "none" /\ (terminal = "completed" => job # "engine")
      BY <2>2 DEF Heard, Control, JobOver, Finishing
    <3> QED
      BY <3>1 DEF Next, Emit, FlushStart, JobRaises, Pause, DrainStep, TakeBatch, Publish,
         PublishRaises, JobStep, EngineReturns, FlushReturns, FlushRaises, Complete, Fail,
         JobFinishes, Aborted, Dies, RequestCancel, CancelStep, Rescue, RescueStep,
         ListenerStep, BlockingPop, YieldBatch, DeleteList, Leave, JobGoes
  <2> QED
    BY <1>3, <2>1, <2>2 DEF Heard, Listening
<1>4. CASE BlockingPop
  BY <1>4 DEF BlockingPop, Heard, Listening
<1>5. CASE YieldBatch
  <2>1. Listening /\ FlowOK /\ UNCHANGED <<emitted, taken, terminal>>
    BY <1>5 DEF YieldBatch, Listening
  <2>2. CASE listener' = "listening"
    BY <1>5, <2>2, YieldMoves DEF Heard, Listening
  <2>3. CASE listener' = "cleanup"
    <3>1. /\ heard' \in Seq(Payload) /\ ~Has(heard', Finished)
          /\ \E r \in Seq(Payload) : Flow = heard' \o r /\ Len(r) > 0 /\ r[1] = Finished
      BY <1>5, <2>3, YieldMoves DEF Heard
    <3>2. PICK r \in Seq(Payload) : Flow = heard' \o r /\ Len(r) > 0 /\ r[1] = Finished
      BY <3>1
    <3>3. InOrder(heard', emitted, taken)
      BY <2>1, <3>1, <3>2, BeginningInOrder
    <3> DEFINE h == heard'
               m == Len(h) + 1
    <3>4. /\ Len(h) \in Nat /\ m \in 1..Len(Flow) /\ Flow[m] = Finished
          /\ \A i \in 1..Len(h) : i \in 1..Len(Flow) /\ Flow[i] # Finished
      <4>1. h \in Seq(Payload) /\ ~Has(h, Finished) /\ Flow = h \o r
        BY <3>1, <3>2
      <4> HIDE DEF h
      <4>2. /\ Len(h) \in Nat /\ Len(r) \in Nat /\ Len(Flow) = Len(h) + Len(r)
            /\ \A i \in 1..(Len(h) + Len(r)) :
                  Flow[i] = IF i <= Len(h) THEN h[i] ELSE r[i - Len(h)]
        BY <4>1, ConcatProperties
      <4>3. m - Len(h) = 1 /\ m \in 1..(Len(h) + Len(r)) /\ ~(m <= Len(h))
        BY <3>2, <4>2
      <4>4. Flow[m] = Finished
        BY <3>2, <4>2, <4>3
      <4>5. ASSUME NEW i \in 1..Len(h) PROVE i \in 1..Len(Flow) /\ Flow[i] # Finished
        BY <4>1, <4>2 DEF Has
      <4> QED
        BY <4>2, <4>3, <4>4, <4>5
    <3>5. terminal # "none"
      BY <2>1, <3>4 DEF FlowOK, Has
    <3>6. ASSUME terminal = "completed" PROVE Len(h) = emitted
      <4>1. AllHeard(Flow, emitted)
        BY <2>1, <3>6 DEF FlowOK
      <4>2. emitted < m
        BY <3>4, <4>1 DEF AllHeard
      <4>3. ASSUME emitted < Len(h) PROVE FALSE
        <5>1. Len(h) \in 1..Len(h)
          BY <1>1, <3>4, <4>3
        <5> QED
          BY <3>4, <4>1, <4>3, <5>1 DEF AllHeard
      <4> HIDE DEF h
      <4> QED
        BY <1>1, <3>4, <4>2, <4>3
    <3> QED
      BY <2>1, <2>3, <3>1, <3>3, <3>5, <3>6 DEF Heard, Listening
  <2> QED
    BY <1>5, <2>2, <2>3, YieldMoves DEF Heard
<1>6. CASE Leave
  <2>1. Listening /\ FlowOK /\ UNCHANGED <<heard, emitted, taken, terminal>> /\ listener' = "leaving"
    BY <1>6 DEF Leave, Listening
  <2>2. \E r \in Seq(Payload) : Flow = heard \o r
    BY HeardFirst
  <2>3. InOrder(heard, emitted, taken)
    BY <1>1, <2>1, <2>2, BeginningInOrder DEF Heard
  <2> QED
    BY <2>1, <2>3 DEF Heard, Listening
<1>7. CASE DeleteList
  BY <1>7 DEF DeleteList, Heard, Listening
<1>8. Next => (listener' = listener /\ heard' = heard) \/ BlockingPop \/ YieldBatch \/ Leave
              \/ DeleteList
  BY DEF Next, Emit, FlushStart, JobRaises, Pause, DrainStep, TakeBatch, Publish, PublishRaises,
     JobStep, EngineReturns, FlushReturns, FlushRaises, Complete, Fail, JobFinishes, Aborted,
     Dies, RequestCancel, CancelStep, Rescue, RescueStep, ListenerStep, JobGoes, reader
<1> QED
  BY <1>3, <1>4, <1>5, <1>6, <1>7, <1>8

LEMMA InitDelivered == Init => Delivered
<1> SUFFICES ASSUME Init PROVE Delivered
  OBVIOUS
<1>1. TypeOK
  BY InitTypes
<1>2. Control
  BY DEF Init, Control, JobOver, DrainLive
<1>3. Len(Flow) = 0 /\ Len(heard) = 0
  BY EmptySeq, ConcatEmptySeq DEF Init, Flow, Ahead, Out, Open
<1>4. \A x : ~Has(Flow, x) /\ ~Has(heard, x)
  BY <1>3 DEF Has
<1>5. FlowOK
  BY <1>3, <1>4 DEF Init, FlowOK, Placed, UpTo, OneError, ErrorEnds, Fits
<1>6. Heard
  BY <1>4 DEF Init, Heard, Listening
<1> QED
  BY <1>1, <1>2, <1>5, <1>6 DEF Delivered

LEMMA NextDelivered == Delivered /\ [Next]_vars => Delivered'
<1> SUFFICES ASSUME Delivered, [Next]_vars PROVE Delivered'
  OBVIOUS
<1>1. CASE Next
  <2>1. TypeOK' /\ Control'
    BY <1>1, TypesStep, ControlStep DEF Delivered
  <2>2. Listening' => Listening
    BY <1>1 DEF Delivered, Listening, Next, Emit, FlushStart, JobRaises, Pause, DrainStep,
       TakeBatch, Publish, PublishRaises, JobStep, EngineReturns, FlushReturns, FlushRaises,
       Complete, Fail, JobFinishes, Aborted, Dies, RequestCancel, CancelStep, Rescue, RescueStep,
       ListenerStep, BlockingPop, YieldBatch, DeleteList, Leave, JobGoes, reader
  <2>3. Listening' => FlowOK'
    BY <1>1, <2>2, FlowStep DEF Delivered, Heard
  <2>4. Heard'
    BY <1>1, HeardStep
  <2> QED
    BY <2>1, <2>3, <2>4 DEF Delivered
<1>2. CASE UNCHANGED vars
  BY <1>2 DEF vars, channel, reader, Delivered, TypeOK, Control, FlowOK, Heard, Listening, Open,
     Flow, Ahead, Out
<1> QED
  BY <1>1, <1>2

LEMMA DeliveredHolds == Spec => []Delivered
BY InitDelivered, NextDelivered, PTL DEF Spec

-----------------------------------------------------------------------------
(* Every queue holds payloads, every party is at a place the code has.     *)
THEOREM DeliveryTypes == Spec => []TypeOK
<1>1. Delivered => TypeOK
  BY DEF Delivered
<1> QED
  BY <1>1, DeliveredHolds, PTL

LEMMA HeardInOrder ==
    ASSUME Delivered
    PROVE  InOrder(heard, emitted, taken) /\ heard \in Seq(Payload)
<1>1. heard \in Seq(Payload)
  BY QueueTypes DEF Delivered
<1>2. CASE Listening
  BY <1>1, <1>2, HeardFirst, BeginningInOrder DEF Delivered, Heard
<1>3. CASE ~Listening
  BY <1>1, <1>3 DEF Delivered, Heard
<1> QED
  BY <1>2, <1>3

(* A client hears the events the engine emitted from the first on, each    *)
(* once and in order, whatever is lost: _publish_pending publishes batches *)
(* one at a time and nothing more once one was lost.                       *)
THEOREM EventsHeardInOrder == Spec => []NoHole
<1>1. Delivered => NoHole
  BY HeardInOrder DEF InOrder, Place, NoHole
<1> QED
  BY <1>1, DeliveredHolds, PTL

(* The error of a failed turn comes once and last, unless a worker that    *)
(* was taken for dead goes on publishing.                                  *)
THEOREM ErrorHeardLast == Spec => []ErrorLast
<1>1. Delivered => ErrorLast
  BY HeardInOrder DEF InOrder, ErrorLast
<1> QED
  BY <1>1, DeliveredHolds, PTL

(* The stream of a completed turn does not end before its listener has     *)
(* heard every event.                                                      *)
THEOREM CompletedTurnsHeard == Spec => []CompletedMeansHeard
<1>1. Delivered => CompletedMeansHeard
  BY DEF Delivered, Heard, CompletedMeansHeard
<1> QED
  BY <1>1, DeliveredHolds, PTL
=============================================================================
