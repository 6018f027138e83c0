------------------------- MODULE ServerTasksProofs -------------------------
(***************************************************************************)
(* Theorems about ServerTasks for all values of its constants: any number  *)
(* of requests, any size of the pool and the mailbox, any number of        *)
(* failures.                                                               *)
(*                                                                         *)
(* The argument: what a task has in hand can be read off the steps it has  *)
(* still to take (HoldInv), because its lists of steps are orderly and a   *)
(* list it turns to needs nothing yet (Fresh).  So an action of a task     *)
(* either asks for one thing more, or goes on with a fresh list after it   *)
(* has given back what it had, or had nothing in the first place.          *)
(***************************************************************************)
EXTENDS ServerTasks, SequenceTheorems, WellFoundedInduction, TLAPS

\* A list for a task that has nothing in hand.
Fresh(steps) == Orderly(steps) /\ ~HasPermit(steps) /\ ~HasConnection(steps)

-----------------------------------------------------------------------------
(* Queues.                                                                 *)

\* A set of numbers that is not empty has a least element.
LEMMA LeastNumber ==
  ASSUME NEW S, S \subseteq Nat, S # {}
  PROVE  \E x \in S : \A y \in S : x <= y
<1> DEFINE R == {ss \in Nat \X Nat : ss[1] < ss[2]}
<1>1. IsWellFoundedOn(R, Nat)
  BY NatLessThanWellFounded DEF OpToRel
<1>2. \E x \in S : \A y \in S : ~ (<<y, x>> \in R)
  <2> HIDE DEF R
  <2> QED
    BY <1>1, WFMin
<1>3. \E x \in S : \A y \in S : ~ (y < x)
  BY <1>2
<1> HIDE DEF R
<1> QED
  BY <1>3

\* The holder of place r left the queue, and those behind it moved up.
Left(queue, new, t, r) ==
  /\ queue[r] = t
  /\ \A x \in 1..(Len(queue) - 1) : new[x] = IF x < r THEN queue[x] ELSE queue[x + 1]

\* A task leaves a queue, and those behind it move up.
LEMMA WithoutShifts ==
  ASSUME NEW S, NEW queue \in Seq(S), NEW t, \E i \in 1..Len(queue) : queue[i] = t
  PROVE  /\ Without(queue, t) \in Seq(S) /\ Len(Without(queue, t)) = Len(queue) - 1
         /\ \E r \in 1..Len(queue) : Left(queue, Without(queue, t), t, r)
<1> DEFINE n == Len(queue)
           found == {i \in 1..n : queue[i] = t}
           r == Min(found)
           s == SubSeq(queue, 1, r - 1)
           u == SubSeq(queue, r + 1, n)
<1>1. n \in Nat /\ \A i \in 1..n : queue[i] \in S
  BY LenProperties, ElementOfSeq
<1>2. \E x \in found : \A y \in found : x <= y
  <2>1. found \subseteq Nat /\ found # {}
    BY <1>1
  <2> HIDE DEF found
  <2> QED
    BY <2>1, LeastNumber
<1>3. r \in found
  BY <1>2 DEF Min
<1>4. Without(queue, t) = s \o u
  <2>1. Without(queue, t) = RemoveAt(queue, r)
    BY <1>3, Zenon DEF Without, RemoveFirst, SelectInSeq
  <2> QED
    BY <2>1 DEF RemoveAt
<1>5. r \in 1..n /\ queue[r] = t
  BY <1>3
<1> HIDE DEF r, found
<1>6. s \in Seq(S) /\ Len(s) = r - 1 /\ \A x \in 1..(r - 1) : s[x] = queue[x]
  <2>1. \A x \in 1..(r - 1) : queue[x] \in S
    BY <1>1, <1>5
  <2>2. 1 \in Int /\ r - 1 \in Int
    BY <1>1, <1>5
  <2>3. /\ s \in Seq(S) /\ Len(s) = IF 1 <= r - 1 THEN (r - 1) - 1 + 1 ELSE 0
        /\ \A x \in 1..((r - 1) - 1 + 1) : s[x] = queue[1 + x - 1]
    BY <2>1, <2>2, SubSeqProperties
  <2> HIDE DEF s, n
  <2> QED
    BY <1>1, <1>5, <2>3
<1>7. u \in Seq(S) /\ Len(u) = n - r /\ \A x \in 1..(n - r) : u[x] = queue[r + x]
  <2>1. \A x \in (r + 1)..n : queue[x] \in S
    BY <1>1, <1>5
  <2>2. r + 1 \in Int /\ n \in Int
    BY <1>1, <1>5
  <2>3. /\ u \in Seq(S) /\ Len(u) = IF r + 1 <= n THEN n - (r + 1) + 1 ELSE 0
        /\ \A x \in 1..(n - (r + 1) + 1) : u[x] = queue[(r + 1) + x - 1]
    BY <2>1, <2>2, SubSeqProperties
  <2> HIDE DEF u, n
  <2>4. Len(u) = n - r
    BY <1>1, <1>5, <2>3
  <2>5. ASSUME NEW x \in 1..(n - r) PROVE u[x] = queue[r + x]
    <3>1. x \in 1..(n - (r + 1) + 1) /\ (r + 1) + x - 1 = r + x
      BY <1>1, <1>5
    <3> QED
      BY <2>3, <3>1
  <2> QED
    BY <2>3, <2>4, <2>5
<1> HIDE DEF s, u
<1>8. /\ s \o u \in Seq(S) /\ Len(s \o u) = Len(s) + Len(u)
      /\ \A x \in 1..(Len(s) + Len(u)) : (s \o u)[x] = IF x <= Len(s) THEN s[x] ELSE u[x - Len(s)]
  BY <1>6, <1>7, ConcatProperties
<1> HIDE DEF n
<1>9. Len(s \o u) = n - 1
  BY <1>1, <1>5, <1>6, <1>7, <1>8
<1>10. ASSUME NEW x \in 1..(n - 1)
       PROVE  (s \o u)[x] = IF x < r THEN queue[x] ELSE queue[x + 1]
  <2>1. CASE x < r
    BY <1>1, <1>5, <1>6, <1>7, <1>8, <2>1
  <2>2. CASE ~(x < r)
    <3>1. x - (r - 1) \in 1..(n - r) /\ r + (x - (r - 1)) = x + 1 /\ ~(x <= r - 1)
      BY <1>1, <1>5, <2>2
    <3> QED
      BY <1>1, <1>5, <1>6, <1>7, <1>8, <2>2, <3>1
  <2> QED
    BY <2>1, <2>2
<1>11. Left(queue, s \o u, t, r)
  BY <1>5, <1>10 DEF Left, n
<1> QED
  BY <1>4, <1>5, <1>8, <1>9, <1>11 DEF n

\* A task that is not in a queue does not leave it.
LEMMA WithoutAbsent ==
  ASSUME NEW queue, NEW t, ~ \E i \in 1..Len(queue) : queue[i] = t
  PROVE  Without(queue, t) = queue
BY DEF Without, RemoveFirst

LEMMA WithoutTyped ==
  ASSUME NEW S, NEW queue \in Seq(S), NEW t
  PROVE  Without(queue, t) \in Seq(S)
BY WithoutShifts, WithoutAbsent

\* Who is in a queue after somebody has left it; the head stays at the head.
LEMMA WithoutHolds ==
  ASSUME NEW queue, NEW S, Holders(queue, S), NEW t
  PROVE  /\ Holders(Without(queue, t), S \ {t})
         /\ \A u \in S : u # t /\ queue[1] = u => Without(queue, t)[1] = u
<1> DEFINE n == Len(queue)  new == Without(queue, t)
<1>1. /\ queue \in Seq(Tasks) /\ n \in Nat /\ DOMAIN queue = 1..n
      /\ \A i, j \in 1..n : queue[i] = queue[j] => i = j
      /\ S = {queue[i] : i \in 1..n}
  BY LenProperties DEF Holders, ToSet
<1>2. CASE \E i \in 1..n : queue[i] = t
  <2>1. /\ new \in Seq(Tasks) /\ Len(new) = n - 1
        /\ \E r \in 1..n : Left(queue, new, t, r)
    BY <1>1, <1>2, WithoutShifts
  <2>2. PICK r \in 1..n :
          /\ queue[r] = t
          /\ \A x \in 1..(n - 1) : new[x] = IF x < r THEN queue[x] ELSE queue[x + 1]
    BY <2>1, Zenon DEF Left
  <2>3. DOMAIN new = 1..(n - 1)
    BY <2>1, LenProperties
  <2> HIDE DEF n, new
  <2>4. \A i, j \in 1..(n - 1) : new[i] = new[j] => i = j
    BY <1>1, <2>2
  <2>5. \A i \in 1..(n - 1) : new[i] \in S \ {t}
    BY <1>1, <2>2
  <2>6. ASSUME NEW u \in S \ {t} PROVE \E i \in 1..(n - 1) : new[i] = u
    <3>1. PICK k \in 1..n : queue[k] = u
      BY <1>1
    <3>2. k # r
      BY <2>2, <3>1
    <3>3. CASE k < r
      BY <1>1, <2>2, <3>1, <3>3
    <3>4. CASE k > r
      <4>1. k - 1 \in 1..(n - 1) /\ ~(k - 1 < r) /\ (k - 1) + 1 = k
        BY <1>1, <3>4
      <4> QED
        BY <2>2, <3>1, <4>1
    <3> QED
      BY <1>1, <3>2, <3>3, <3>4
  <2>7. ToSet(new) = S \ {t}
    BY <2>3, <2>5, <2>6 DEF ToSet
  <2>8. ASSUME NEW u \in S, u # t, queue[1] = u PROVE new[1] = u
    <3>1. r # 1 /\ 1 < r /\ 1 \in 1..(n - 1)
      BY <1>1, <2>2, <2>8
    <3> QED
      BY <2>2, <2>8, <3>1
  <2> QED
    BY <2>1, <2>4, <2>7, <2>8 DEF Holders, new
<1>3. CASE ~ \E i \in 1..n : queue[i] = t
  <2>1. new = queue
    BY <1>3, WithoutAbsent
  <2>2. S \ {t} = S
    BY <1>1, <1>3
  <2> QED
    BY <2>1, <2>2
<1> QED
  BY <1>2, <1>3

\* Who is in a queue after somebody has joined it; the head stays at the head.
LEMMA AppendHolds ==
  ASSUME NEW queue, NEW S, Holders(queue, S), NEW t \in Tasks, t \notin S
  PROVE  /\ Holders(Append(queue, t), S \cup {t})
         /\ \A u \in S : queue[1] = u => Append(queue, t)[1] = u
<1> DEFINE n == Len(queue)  new == Append(queue, t)
<1>1. /\ queue \in Seq(Tasks) /\ n \in Nat /\ DOMAIN queue = 1..n
      /\ \A i, j \in 1..n : queue[i] = queue[j] => i = j
      /\ S = {queue[i] : i \in 1..n}
  BY LenProperties DEF Holders, ToSet
<1>2. /\ new \in Seq(Tasks) /\ Len(new) = n + 1
      /\ \A i \in 1..n : new[i] = queue[i]
      /\ new[n + 1] = t
  BY <1>1, AppendProperties
<1>3. DOMAIN new = 1..(n + 1)
  BY <1>2, LenProperties
<1> HIDE DEF n, new
<1>4. \A i \in 1..n : queue[i] # t
  BY <1>1
<1>5. \A i, j \in 1..(n + 1) : new[i] = new[j] => i = j
  BY <1>1, <1>2, <1>4
<1>6. ToSet(new) = S \cup {t}
  <2>1. \A i \in 1..(n + 1) : new[i] \in S \cup {t}
    BY <1>1, <1>2
  <2>2. \A u \in S \cup {t} : \E i \in 1..(n + 1) : new[i] = u
    BY <1>1, <1>2
  <2> QED
    BY <1>3, <2>1, <2>2 DEF ToSet
<1>7. \A u \in S : queue[1] = u => new[1] = u
  <2> SUFFICES ASSUME NEW u \in S, queue[1] = u PROVE new[1] = u
    OBVIOUS
  <2>1. 1 \in 1..n
    BY <1>1
  <2> QED
    BY <1>2, <2>1
<1> QED
  BY <1>2, <1>5, <1>6, <1>7 DEF Holders, new

-----------------------------------------------------------------------------
(* Lists of steps.                                                         *)

LEMMA TailOrderly ==
  ASSUME NEW steps, Orderly(steps), steps # <<>>
  PROVE  Orderly(Tail(steps))
<1> DEFINE n == Len(steps)  rest == Tail(steps)
<1>1. /\ rest \in Seq(Steps) /\ Len(rest) = n - 1
      /\ \A i \in 1..(n - 1) : rest[i] = steps[i + 1]
  BY HeadTailProperties DEF Orderly
<1>2. n \in Nat /\ n > 0
  BY LenProperties, EmptySeq DEF Orderly
<1> SUFFICES ASSUME NEW i \in 1..(n - 1)
             PROVE
               /\ rest[i] = "permit" =>
                    i + 3 = n - 1 /\ rest[i + 1] = "connection" /\ rest[i + 2] = "begin"
               /\ rest[i] = "connection" => i < n - 1 /\ rest[i + 1] \in Reads \cup {"begin"}
               /\ rest[i] = "begin" => i + 1 = n - 1 /\ rest[i + 1] = "commit"
               /\ rest[i] = "commit" => i = n - 1
               /\ i > 1 => /\ rest[i] \in Reads \cup {"begin"} => rest[i - 1] = "connection"
                           /\ rest[i] = "begin" => i = 2 \/ rest[i - 2] = "permit"
                           /\ rest[i] = "commit" => rest[i - 1] = "begin"
  BY <1>1 DEF Orderly
<1> DEFINE k == i + 1
<1>3. /\ steps[k] = "permit" => k + 3 = n /\ steps[k + 1] = "connection" /\ steps[k + 2] = "begin"
      /\ steps[k] = "connection" => k < n /\ steps[k + 1] \in Reads \cup {"begin"}
      /\ steps[k] = "begin" => k + 1 = n /\ steps[k + 1] = "commit"
      /\ steps[k] = "commit" => k = n
      /\ steps[k] \in Reads \cup {"begin"} => steps[k - 1] = "connection"
      /\ steps[k] = "begin" => k = 2 \/ steps[k - 2] = "permit"
      /\ steps[k] = "commit" => steps[k - 1] = "begin"
  <2>1. k \in 1..n /\ k > 1
    BY <1>2
  <2> QED
    BY <2>1 DEF Orderly
<1> HIDE DEF rest, n
<1>4. /\ rest[i] = steps[i + 1]
      /\ i + 1 \in 1..(n - 1) => rest[i + 1] = steps[(i + 1) + 1]
      /\ i + 2 \in 1..(n - 1) => rest[i + 2] = steps[(i + 1) + 2]
      /\ i - 1 \in 1..(n - 1) => rest[i - 1] = steps[(i + 1) - 1]
      /\ i - 2 \in 1..(n - 1) => rest[i - 2] = steps[(i + 1) - 2]
  BY <1>1, <1>2
<1> QED
  BY <1>2, <1>3, <1>4

\* After a wait or a read the task needs nothing it would have had to ask for.
LEMMA TailFresh ==
  ASSUME NEW steps, Orderly(steps), steps # <<>>, steps[1] \in Waits \cup Reads
  PROVE  Fresh(Tail(steps))
<1> DEFINE n == Len(steps)  rest == Tail(steps)
<1>1. /\ rest \in Seq(Steps) /\ Len(rest) = n - 1
      /\ \A i \in 1..(n - 1) : rest[i] = steps[i + 1]
  BY HeadTailProperties DEF Orderly
<1>2. n \in Nat /\ n > 0
  BY LenProperties, EmptySeq DEF Orderly
<1>3. steps[1] \notin {"permit", "connection", "begin"}
  BY DEF Waits, Models, Reads
<1>4. \A i \in 1..n : i > 1 =>
        /\ steps[i] \in Reads \cup {"begin"} => steps[i - 1] = "connection"
        /\ steps[i] = "begin" => i = 2 \/ steps[i - 2] = "permit"
        /\ steps[i] = "commit" => steps[i - 1] = "begin"
  BY DEF Orderly
<1>5. ~HasConnection(rest)
  <2> SUFFICES ASSUME rest # <<>> PROVE rest[1] \notin Reads \cup {"begin", "commit"}
    BY DEF HasConnection
  <2>1. Len(rest) > 0
    BY <1>1, EmptySeq
  <2>2. 2 \in 1..n /\ rest[1] = steps[2]
    BY <1>1, <1>2, <2>1
  <2> QED
    BY <1>3, <1>4, <2>2
<1>6. ~HasPermit(rest)
  <2> HIDE DEF rest
  <2> SUFFICES ASSUME rest = <<"connection", "begin", "commit">> PROVE FALSE
    BY <1>5 DEF HasPermit, HasConnection
  <2>1. Len(rest) = 3 /\ rest[2] = "begin"
    OBVIOUS
  <2> HIDE DEF n
  <2>2. 3 \in 1..n /\ 2 \in 1..(n - 1) /\ 2 + 1 = 3
    BY <1>1, <1>2, <2>1
  <2>3. steps[3] = "begin"
    BY <1>1, <2>1, <2>2
  <2> QED
    BY <1>3, <1>4, <2>2, <2>3
<1> QED
  BY <1>5, <1>6, TailOrderly DEF Fresh

LEMMA TwoAndOne ==
  ASSUME NEW S, NEW a \in Seq(S), NEW b \in Seq(S), NEW c \in Seq(S),
         Len(a) = 2, Len(b) = 1, Len(c) = 3, a[1] = c[1], a[2] = c[2], b[1] = c[3]
  PROVE  a \o b = c
<1> DEFINE ab == a \o b
<1>1. /\ ab \in Seq(S) /\ Len(ab) = Len(a) + Len(b)
      /\ \A k \in 1..(Len(a) + Len(b)) : ab[k] = IF k <= Len(a) THEN a[k] ELSE b[k - Len(a)]
  BY ConcatProperties
<1> HIDE DEF ab
<1>2. Len(ab) = Len(c) /\ 1..Len(ab) = {1, 2, 3}
  BY <1>1
<1>3. ab[1] = c[1] /\ ab[2] = c[2] /\ ab[3] = c[3]
  BY <1>1
<1>4. \A k \in 1..Len(ab) : ab[k] = c[k]
  BY <1>2, <1>3
<1> QED
  BY <1>1, <1>2, <1>4, SeqEqual DEF ab

LEMMA DeadlineSteps == Fresh(ReadSteps \o <<"wait">>)
<1> DEFINE steps == <<"connection", "read", "wait">>
<1>1. ReadSteps \o <<"wait">> = steps
  <2> DEFINE b == <<"wait">>
  <2>1. /\ ReadSteps \in Seq(Steps) /\ b \in Seq(Steps) /\ steps \in Seq(Steps)
        /\ Len(ReadSteps) = 2 /\ Len(b) = 1 /\ Len(steps) = 3
    BY DEF ReadSteps, Steps, Waits, Models, Reads
  <2>2. ReadSteps[1] = steps[1] /\ ReadSteps[2] = steps[2] /\ b[1] = steps[3]
    BY DEF ReadSteps
  <2> HIDE DEF b, steps
  <2>3. ReadSteps \o b = steps
    BY <2>1, <2>2, TwoAndOne
  <2> QED
    BY <2>3 DEF b
<1>2. Fresh(steps)
  BY DEF Fresh, Orderly, HasPermit, HasConnection, Steps, Waits, Models, Reads
<1> QED
  BY <1>1, <1>2

\* The lists that the tasks turn to.
LEMMA FreshLists ==
  /\ Fresh(<<>>) /\ Fresh(<<"wait">>) /\ Fresh(WriteSteps) /\ Fresh(<<"sleep">> \o WriteSteps)
  /\ Fresh(CallSteps) /\ Fresh(ReadSteps \o CallSteps) /\ Fresh(ReadSteps \o <<"wait">>)
  /\ Fresh(AddSteps) /\ Fresh(RetrieveSteps)
<1> USE DEF Fresh, Orderly, HasPermit, HasConnection, Steps, Waits, Models, Reads
<1>1. Fresh(<<>>)
  OBVIOUS
<1>2. Fresh(<<"wait">>)
  OBVIOUS
<1>3. Fresh(WriteSteps)
  BY DEF WriteSteps
<1>4. Fresh(<<"sleep">> \o WriteSteps)
  BY DEF WriteSteps
<1>5. Fresh(CallSteps)
  BY DEF CallSteps
<1>6. Fresh(ReadSteps \o CallSteps)
  BY DEF CallSteps, ReadSteps
<1>7. Fresh(ReadSteps \o <<"wait">>)
  BY DeadlineSteps
<1>8. Fresh(AddSteps)
  BY DEF AddSteps, WriteSteps
<1>9. Fresh(RetrieveSteps)
  BY DEF RetrieveSteps, ReadSteps
<1> QED
  BY <1>1, <1>2, <1>3, <1>4, <1>5, <1>6, <1>7, <1>8, <1>9

-----------------------------------------------------------------------------
(* What the tasks have in hand.                                            *)

Permits == {t \in Tasks : HasPermit(todo[t])}
Connecteds == {t \in Tasks : HasConnection(todo[t])}

GoesTo(t, steps) == todo' = [todo EXCEPT ![t] = steps]

LEMMA FreshStarts ==
  ASSUME NEW steps, Fresh(steps), steps # <<>>
  PROVE  Head(steps) \notin {"begin", "commit"}
BY HeadTailProperties DEF Fresh, Orderly, HasConnection

\* Whoever begins or commits has asked for the permit and a connection.
LEMMA BeginnerPermitted ==
  ASSUME NEW steps, Orderly(steps), steps # <<>>, Head(steps) \in {"begin", "commit"}
  PROVE  HasPermit(steps) /\ HasConnection(steps)
<1> DEFINE n == Len(steps)
<1>1. n \in Nat /\ n > 0 /\ Head(steps) = steps[1] /\ steps \in Seq(Steps)
  BY LenProperties, EmptySeq, HeadTailProperties DEF Orderly
<1>2. /\ steps[1] = "begin" => 1 + 1 = n /\ steps[1 + 1] = "commit"
      /\ steps[1] = "commit" => 1 = n
  <2>1. 1 \in 1..n
    BY <1>1
  <2> QED
    BY <2>1 DEF Orderly
<1>3. steps = <<"begin", "commit">> \/ steps = <<"commit">>
  BY <1>1, <1>2
<1> QED
  BY <1>3 DEF HasPermit, HasConnection

LEMMA FreshTask ==
  ASSUME HoldInv, NEW t \in Tasks, NEW steps, Fresh(steps), GoesTo(t, steps)
  PROVE  /\ todo' \in [Tasks -> Seq(Steps)]
         /\ \A u \in Tasks : Orderly(todo'[u])
         /\ Permits' = Permits \ {t} /\ Connecteds' = Connecteds \ {t}
         /\ ~Doing(t, "begin")' /\ ~Doing(t, "commit")'
         /\ \A u \in Tasks \ {t} : todo'[u] = todo[u]
<1>1. /\ todo'[t] = steps /\ todo' \in [Tasks -> Seq(Steps)]
      /\ \A u \in Tasks \ {t} : todo'[u] = todo[u]
  BY DEF HoldInv, GoesTo, Fresh, Orderly
<1>2. \A u \in Tasks : Orderly(todo'[u])
  BY <1>1 DEF HoldInv, Fresh
<1>3. Permits' = Permits \ {t}
  BY <1>1 DEF Permits, Fresh
<1>4. Connecteds' = Connecteds \ {t}
  BY <1>1 DEF Connecteds, Fresh
<1>5. ~Doing(t, "begin")' /\ ~Doing(t, "commit")'
  BY <1>1, FreshStarts DEF Doing
<1> QED
  BY <1>1, <1>2, <1>3, <1>4, <1>5

\* A task that has nothing in hand turns to a list that needs nothing yet.
LEMMA MoveHolds ==
  ASSUME HoldInv, NEW t \in Tasks, NEW steps, Fresh(steps), GoesTo(t, steps),
         ~HasPermit(todo[t]), ~HasConnection(todo[t]), UNCHANGED resources
  PROVE  HoldInv'
<1>1. /\ todo' \in [Tasks -> Seq(Steps)] /\ \A u \in Tasks : Orderly(todo'[u])
      /\ Permits' = Permits /\ Connecteds' = Connecteds
      /\ ~Doing(t, "begin")' /\ ~Doing(t, "commit")'
      /\ \A u \in Tasks \ {t} : todo'[u] = todo[u]
  BY FreshTask DEF Permits, Connecteds
<1>2. ~Doing(t, "commit")
  BY HeadTailProperties DEF Doing, HasConnection, HoldInv
<1>3. gate' = gate /\ pool' = pool /\ lock' = lock
  BY DEF resources
<1>4. Holders(gate, Permits)' /\ Holders(pool, Connecteds)'
  BY <1>1, <1>3 DEF HoldInv, Permits, Connecteds, Holders
<1>5. \A u \in Tasks : lock' = u <=> Doing(u, "commit")'
  BY <1>1, <1>2, <1>3 DEF HoldInv, Doing
<1>6. \A u \in Tasks : (Doing(u, "begin")' \/ Doing(u, "commit")') => gate'[1] = u
  BY <1>1, <1>3 DEF HoldInv, Doing
<1> QED
  BY <1>1, <1>3, <1>4, <1>5, <1>6 DEF HoldInv, Permits, Connecteds

\* A task gives back what it has.
LEMMA ReleaseHolds ==
  ASSUME HoldInv, NEW t \in Tasks, NEW steps, Fresh(steps), GoesTo(t, steps),
         NEW left \in {"free", "rollback"}, Release(t, left)
  PROVE  HoldInv'
<1>1. /\ todo' \in [Tasks -> Seq(Steps)] /\ \A u \in Tasks : Orderly(todo'[u])
      /\ Permits' = Permits \ {t} /\ Connecteds' = Connecteds \ {t}
      /\ ~Doing(t, "begin")' /\ ~Doing(t, "commit")'
      /\ \A u \in Tasks \ {t} : todo'[u] = todo[u]
  BY FreshTask
<1>2. /\ gate' = Without(gate, t) /\ pool' = Without(pool, t)
      /\ lock' = IF lock = t THEN left ELSE lock
  BY DEF Release
<1>3. Holders(gate, Permits) /\ Holders(pool, Connecteds)
  BY DEF HoldInv, Permits, Connecteds
<1>4. Holders(gate', Permits') /\ Holders(pool', Connecteds')
  BY <1>1, <1>2, <1>3, WithoutHolds
<1>5. left \notin Tasks
  BY TasksDistinct
<1>6. \A u \in Tasks : lock' = u <=> Doing(u, "commit")'
  BY <1>1, <1>2, <1>5 DEF HoldInv, Doing
<1>9. \A u \in Permits : u # t /\ gate[1] = u => gate'[1] = u
  BY <1>2, <1>3, WithoutHolds
<1>7. ASSUME NEW u \in Tasks, Doing(u, "begin")' \/ Doing(u, "commit")' PROVE gate'[1] = u
  <2>1. u # t /\ todo'[u] = todo[u]
    BY <1>1, <1>7
  <2>2. u \in Permits'
    BY <1>1, <1>7, BeginnerPermitted DEF Permits, Doing
  <2>3. gate[1] = u
    BY <1>7, <2>1 DEF HoldInv, Doing
  <2>4. u \in Permits
    BY <1>1, <2>2
  <2> QED
    BY <1>9, <2>1, <2>3, <2>4
<1>8. lock' \in Tasks \cup {"free", "other", "rollback"}
  BY <1>2 DEF HoldInv
<1> QED
  BY <1>1, <1>4, <1>6, <1>7, <1>8 DEF HoldInv, Permits, Connecteds

\* A task asks for the permit: it has everything else still to ask for.
LEMMA AskPermitHolds ==
  ASSUME HoldInv, NEW t \in Tasks, AskPermit(t)
  PROVE  HoldInv'
<1> DEFINE steps == todo[t]  rest == Tail(todo[t])
<1>1. Orderly(steps) /\ steps # <<>> /\ steps[1] = "permit" /\ steps \in Seq(Steps)
  BY HeadTailProperties DEF AskPermit, Doing, HoldInv, Orderly
<1>2. steps = <<"permit", "connection", "begin", "commit">>
  <2> DEFINE n == Len(steps)
  <2>1. n \in Nat /\ n > 0
    BY <1>1, LenProperties, EmptySeq
  <2>2. 1 \in 1..n
    BY <2>1
  <2>3. 1 + 3 = n /\ steps[1 + 1] = "connection" /\ steps[1 + 2] = "begin"
    BY <1>1, <2>2 DEF Orderly
  <2>4. 3 \in 1..n
    BY <2>3
  <2>5. steps[3 + 1] = "commit"
    BY <1>1, <2>3, <2>4 DEF Orderly
  <2> QED
    BY <1>1, <2>3, <2>5
<1>3. rest = <<"connection", "begin", "commit">>
  BY <1>2
<1>4. Orderly(rest) /\ rest \in Seq(Steps)
  BY <1>1, TailOrderly DEF Orderly
<1>5. /\ todo' = [todo EXCEPT ![t] = rest] /\ gate' = Append(gate, t)
      /\ pool' = pool /\ lock' = lock
  BY DEF AskPermit, Proceed, GoTo
<1>6. HasPermit(rest) /\ ~HasConnection(rest) /\ ~HasPermit(steps) /\ ~HasConnection(steps)
  BY <1>2, <1>3 DEF HasPermit, HasConnection, Reads
<1>7. Head(rest) = "connection" /\ Head(steps) = "permit"
  BY <1>2, <1>3
<1> HIDE DEF steps, rest
<1>8. /\ todo' \in [Tasks -> Seq(Steps)] /\ todo'[t] = rest
      /\ \A u \in Tasks \ {t} : todo'[u] = todo[u]
  BY <1>4, <1>5 DEF HoldInv
<1>9. Permits' = Permits \cup {t} /\ t \notin Permits /\ Connecteds' = Connecteds
  BY <1>6, <1>8 DEF Permits, Connecteds, steps
<1>10. /\ Holders(gate', Permits \cup {t}) /\ Holders(pool, Connecteds)
       /\ \A u \in Permits : gate[1] = u => gate'[1] = u
  BY <1>5, <1>9, AppendHolds DEF HoldInv, Permits, Connecteds
<1>11. ~Doing(t, "begin")' /\ ~Doing(t, "commit")' /\ ~Doing(t, "commit")
  BY <1>7, <1>8 DEF Doing, steps
<1>12. \A u \in Tasks : lock' = u <=> Doing(u, "commit")'
  BY <1>5, <1>8, <1>11 DEF HoldInv, Doing
<1>13. ASSUME NEW u \in Tasks, Doing(u, "begin")' \/ Doing(u, "commit")' PROVE gate'[1] = u
  <2>1. u # t /\ todo'[u] = todo[u]
    BY <1>8, <1>11, <1>13
  <2>2. u \in Permits
    BY <1>13, <2>1, BeginnerPermitted DEF Permits, Doing, HoldInv
  <2> QED
    BY <1>10, <1>13, <2>1, <2>2 DEF HoldInv, Doing
<1>14. \A u \in Tasks : Orderly(todo'[u])
  BY <1>4, <1>8 DEF HoldInv
<1> QED
  BY <1>5, <1>8, <1>9, <1>10, <1>12, <1>13, <1>14 DEF HoldInv, Permits, Connecteds

\* A task is connected next, whether it writes or reads.
LEMMA ConnectionHolds ==
  ASSUME HoldInv, NEW t \in Tasks, AskConnection(t), ~HasConnection(todo[t]),
         HasConnection(Tail(todo[t])), HasPermit(Tail(todo[t])) <=> HasPermit(todo[t]),
         Head(Tail(todo[t])) # "commit",
         Head(Tail(todo[t])) = "begin" => gate[1] = t
  PROVE  HoldInv'
<1> DEFINE rest == Tail(todo[t])
<1>1. todo[t] # <<>> /\ Head(todo[t]) = "connection" /\ Orderly(todo[t])
  BY DEF AskConnection, Doing, HoldInv
<1>2. Orderly(rest) /\ rest \in Seq(Steps)
  BY <1>1, TailOrderly DEF Orderly
<1>3. /\ todo' = [todo EXCEPT ![t] = rest] /\ pool' = Append(pool, t)
      /\ gate' = gate /\ lock' = lock
  BY DEF AskConnection, Proceed, GoTo
<1> HIDE DEF rest
<1>4. /\ todo' \in [Tasks -> Seq(Steps)] /\ todo'[t] = rest
      /\ \A u \in Tasks \ {t} : todo'[u] = todo[u]
  BY <1>2, <1>3 DEF HoldInv
<1>5. Permits' = Permits /\ t \notin Connecteds /\ Connecteds' = Connecteds \cup {t}
  BY <1>4 DEF Permits, Connecteds, rest
<1>6. Holders(pool', Connecteds \cup {t}) /\ Holders(gate, Permits)
  BY <1>3, <1>5, AppendHolds DEF HoldInv, Permits, Connecteds
<1>7. \A u \in Tasks : lock' = u <=> Doing(u, "commit")'
  BY <1>1, <1>3, <1>4 DEF HoldInv, Doing, rest
<1>8. \A u \in Tasks : (Doing(u, "begin")' \/ Doing(u, "commit")') => gate'[1] = u
  BY <1>3, <1>4 DEF HoldInv, Doing, rest
<1>9. \A u \in Tasks : Orderly(todo'[u])
  BY <1>2, <1>4 DEF HoldInv
<1> QED
  BY <1>3, <1>4, <1>5, <1>6, <1>7, <1>8, <1>9 DEF HoldInv, Permits, Connecteds

LEMMA AskWriteConnection ==
  ASSUME HoldInv, NEW t \in Tasks, AskConnection(t),
         todo[t] = <<"connection", "begin", "commit">>
  PROVE  HoldInv'
<1>1. Tail(todo[t]) = <<"begin", "commit">>
  OBVIOUS
<1>2. /\ ~HasConnection(todo[t]) /\ HasConnection(Tail(todo[t]))
      /\ HasPermit(Tail(todo[t])) /\ HasPermit(todo[t])
      /\ Head(Tail(todo[t])) # "commit"
  BY <1>1 DEF HasPermit, HasConnection, Reads
<1>3. t \in ToSet(gate)
  BY <1>2 DEF HoldInv, Holders
<1>4. gate[1] = t
  BY <1>3 DEF AskConnection, Permitted
<1> QED
  BY <1>2, <1>4, ConnectionHolds

LEMMA AskReadConnection ==
  ASSUME HoldInv, NEW t \in Tasks, AskConnection(t),
         ~HasPermit(todo[t]), ~HasConnection(todo[t]),
         HasConnection(Tail(todo[t])), ~HasPermit(Tail(todo[t])), Head(Tail(todo[t])) \in Reads
  PROVE  HoldInv'
<1>1. Head(Tail(todo[t])) # "commit" /\ Head(Tail(todo[t])) # "begin"
  BY DEF Reads
<1> QED
  BY <1>1, ConnectionHolds

\* A task asks for a connection; one that writes has the permit.
LEMMA AskConnectionHolds ==
  ASSUME HoldInv, NEW t \in Tasks, AskConnection(t)
  PROVE  HoldInv'
<1> DEFINE steps == todo[t]  rest == Tail(todo[t])
<1>1. /\ Orderly(steps) /\ steps # <<>> /\ steps[1] = "connection" /\ Head(steps) = "connection"
      /\ steps \in Seq(Steps)
  BY HeadTailProperties DEF AskConnection, Doing, HoldInv, Orderly
<1>2. /\ Len(steps) \in Nat /\ 1 < Len(steps) /\ rest[1] = steps[2]
      /\ rest \in Seq(Steps) /\ Len(rest) = Len(steps) - 1
      /\ steps[2] \in Reads \cup {"begin"}
  <2> DEFINE n == Len(steps)
  <2>1. n \in Nat /\ n > 0
    BY <1>1, LenProperties, EmptySeq
  <2>2. 1 \in 1..n
    BY <2>1
  <2>3. 1 < n /\ steps[1 + 1] \in Reads \cup {"begin"}
    BY <1>1, <2>2 DEF Orderly
  <2>4. rest \in Seq(Steps) /\ Len(rest) = n - 1 /\ \A i \in 1..(n - 1) : rest[i] = steps[i + 1]
    BY <1>1, HeadTailProperties
  <2> HIDE DEF steps, rest, n
  <2>5. rest[1] = steps[2]
    BY <2>1, <2>3, <2>4
  <2> QED
    BY <2>1, <2>3, <2>4, <2>5 DEF n
<1>3. CASE steps[2] = "begin"
  <2>1. steps = <<"connection", "begin", "commit">>
    <3>1. 2 \in 1..Len(steps)
      BY <1>2
    <3>2. 2 + 1 = Len(steps) /\ steps[2 + 1] = "commit"
      BY <1>1, <1>3, <3>1 DEF Orderly
    <3> QED
      BY <1>1, <1>3, <3>2
  <2> QED
    BY <2>1, AskWriteConnection
<1>4. CASE steps[2] \in Reads
  <2>1. ~HasPermit(steps) /\ ~HasConnection(steps)
    <3>1. steps[2] # "begin" /\ steps[1] = "connection"
      BY <1>1, <1>4 DEF Reads
    <3> HIDE DEF steps
    <3> QED
      BY <3>1 DEF HasPermit, HasConnection, Reads
  <2>2. rest # <<>> /\ Head(rest) \in Reads /\ rest[1] \in Reads
    <3> HIDE DEF steps, rest
    <3>1. rest # <<>>
      BY <1>2, EmptySeq
    <3> QED
      BY <1>2, <1>4, <3>1
  <2>3. HasConnection(rest) /\ ~HasPermit(rest)
    <3> HIDE DEF rest
    <3> QED
      BY <2>2 DEF HasPermit, HasConnection, Reads
  <2> QED
    BY <2>1, <2>2, <2>3, AskReadConnection
<1> QED
  BY <1>2, <1>3, <1>4

\* A task begins to write: it is at the head of the gate and becomes the one that
\* has the lock.
LEMMA BeginHolds ==
  ASSUME HoldInv, NEW t \in Tasks, Begin(t)
  PROVE  HoldInv'
<1> DEFINE rest == Tail(todo[t])
<1>1. todo[t] # <<>> /\ Head(todo[t]) = "begin" /\ Orderly(todo[t])
  BY DEF Begin, Doing, HoldInv
<1>2. Orderly(rest) /\ rest \in Seq(Steps)
  BY <1>1, TailOrderly DEF Orderly
<1>3. todo[t] = <<"begin", "commit">>
  <2>1. todo[t] \in Seq(Steps) /\ Len(todo[t]) \in Nat /\ Len(todo[t]) > 0 /\ todo[t][1] = "begin"
    BY <1>1, LenProperties, EmptySeq, HeadTailProperties DEF Orderly
  <2>2. 1 \in 1..Len(todo[t])
    BY <2>1
  <2>3. 1 + 1 = Len(todo[t]) /\ todo[t][1 + 1] = "commit"
    BY <1>1, <2>1, <2>2 DEF Orderly
  <2> QED
    BY <2>1, <2>3
<1>4. rest = <<"commit">>
  BY <1>3
<1>5. /\ HasPermit(rest) /\ HasConnection(rest) /\ HasPermit(todo[t]) /\ HasConnection(todo[t])
      /\ rest # <<>> /\ Head(rest) = "commit"
  BY <1>3, <1>4 DEF HasPermit, HasConnection
<1>6. /\ todo' = [todo EXCEPT ![t] = rest] /\ pool' = pool
      /\ gate' = gate /\ lock = "free" /\ lock' = t
  BY DEF Begin, Proceed, GoTo
<1>7. gate[1] = t
  BY <1>1 DEF HoldInv, Doing
<1> HIDE DEF rest
<1>8. /\ todo' \in [Tasks -> Seq(Steps)] /\ todo'[t] = rest
      /\ \A u \in Tasks \ {t} : todo'[u] = todo[u]
  BY <1>2, <1>6 DEF HoldInv
<1>9. Permits' = Permits /\ Connecteds' = Connecteds
  BY <1>5, <1>8 DEF Permits, Connecteds
<1>10. Holders(gate', Permits') /\ Holders(pool', Connecteds')
  BY <1>6, <1>9 DEF HoldInv, Permits, Connecteds
<1>11. \A u \in Tasks : ~Doing(u, "commit")
  BY <1>6, TasksDistinct DEF HoldInv
<1>12. \A u \in Tasks : lock' = u <=> Doing(u, "commit")'
  BY <1>5, <1>6, <1>8, <1>11 DEF Doing
<1>13. \A u \in Tasks : (Doing(u, "begin")' \/ Doing(u, "commit")') => gate'[1] = u
  BY <1>6, <1>7, <1>8 DEF HoldInv, Doing
<1>14. \A u \in Tasks : Orderly(todo'[u])
  BY <1>2, <1>8 DEF HoldInv
<1> QED
  BY <1>6, <1>8, <1>10, <1>12, <1>13, <1>14 DEF HoldInv, Permits, Connecteds

\* Nobody of this server has the lock, and it changes hands.
LEMMA LockHolds ==
  ASSUME HoldInv, UNCHANGED <<todo, gate, pool>>, lock \in {"free", "other", "rollback"},
         lock' \in {"free", "other", "rollback"}
  PROVE  HoldInv'
<1>1. lock \notin Tasks /\ lock' \notin Tasks
  BY TasksDistinct
<1>2. \A u \in Tasks : lock' = u <=> Doing(u, "commit")'
  BY <1>1 DEF HoldInv, Doing
<1> QED
  BY <1>2 DEF HoldInv, Doing, Holders

LEMMA UntouchedHolds ==
  ASSUME HoldInv, UNCHANGED <<todo, gate, pool, lock>>
  PROVE  HoldInv'
BY DEF HoldInv, Doing, Holders

\* All tasks end.
LEMMA StopHolds ==
  ASSUME HoldInv, Stop
  PROVE  HoldInv'
<1>1. /\ todo' = [t \in Tasks |-> <<>>] /\ gate' = <<>> /\ pool' = <<>>
      /\ lock' \in {"free", "other"}
  BY DEF Stop
<1>2. todo' \in [Tasks -> Seq(Steps)] /\ \A t \in Tasks : todo'[t] = <<>>
  BY <1>1
<1>3. ~HasPermit(<<>>) /\ ~HasConnection(<<>>) /\ Orderly(<<>>)
  BY FreshLists DEF Fresh
<1>4. Permits' = {} /\ Connecteds' = {}
  BY <1>2, <1>3 DEF Permits, Connecteds
<1>5. Holders(<<>>, {})
  <2>1. ToSet(<<>>) = {}
    BY DEF ToSet
  <2> QED
    BY <2>1 DEF Holders
<1>6. lock' \notin Tasks
  BY <1>1, TasksDistinct
<1>7. \A u \in Tasks : ~Doing(u, "commit")' /\ ~Doing(u, "begin")'
  BY <1>2 DEF Doing
<1> QED
  BY <1>1, <1>2, <1>3, <1>4, <1>5, <1>6, <1>7 DEF HoldInv, Permits, Connecteds

-----------------------------------------------------------------------------
(* The actions of requests.                                                *)

\* TasksInv without what HoldInv says.
OtherOK ==
  /\ doing \in [Tasks -> {"idle", "stage", "retrieve", "claim", "dispatch", "settle",
                          "deadline", "recover", "add", "dead"}]
  /\ tries \in [Posts -> 0..MaxStageRetries]
  /\ answer \in [Queries -> {"none", "ok", "error", "gone"}]
  /\ mailbox \in Seq(Callers)
  /\ serving \in Callers \cup {NoOne}
  /\ reply \in [Callers -> {"none", "ok", "error"}]
  /\ {alive, poisoned, stream} \subseteq BOOLEAN
  /\ server \in {"up", "draining", "stopped"}
  /\ faults \in 0..MaxFaults
  /\ \A q \in Queries : todo[q] \in {<<>>, CallSteps, <<"answer">>}
  /\ serving = NoOne => todo[Actor] = <<>>

LEMMA InvParts == TasksInv <=> HoldInv /\ OtherOK
BY DEF TasksInv, TypeOK, HoldInv, OtherOK, Holders

LEMMA InvPartsNext == HoldInv' /\ OtherOK' => TasksInv'
BY DEF TasksInv, TypeOK, HoldInv, OtherOK, Holders

\* Who waits, or does nothing, has nothing in hand.
LEMMA WaitsWithNothing ==
  ASSUME HoldInv, NEW t \in Tasks, todo[t] = <<>> \/ \E step \in Waits : Doing(t, step)
  PROVE  ~HasPermit(todo[t]) /\ ~HasConnection(todo[t])
<1>1. CASE todo[t] = <<>>
  BY <1>1, FreshLists DEF Fresh
<1>2. CASE todo[t] # <<>>
  <2>1. todo[t] \in Seq(Steps) /\ todo[t][1] = Head(todo[t]) /\ todo[t][1] \in Waits
    BY <1>2 DEF HoldInv, Doing
  <2>2. todo[t][1] \notin {"connection", "begin", "commit"} \cup Reads
    BY <2>1 DEF Waits, Models, Reads
  <2> QED
    BY <2>2 DEF HasPermit, HasConnection
<1> QED
  BY <1>1, <1>2

\* A task goes on after a wait.
LEMMA WaitEnds ==
  ASSUME HoldInv, NEW t \in Tasks, NEW step \in Waits, Doing(t, step),
         GoesTo(t, Tail(todo[t])), UNCHANGED resources
  PROVE  HoldInv'
<1>1. Orderly(todo[t]) /\ todo[t] # <<>> /\ todo[t][1] \in Waits
  BY DEF HoldInv, Doing
<1>2. Fresh(Tail(todo[t]))
  BY <1>1, TailFresh
<1> QED
  BY <1>2, MoveHolds, WaitsWithNothing

LEMMA SharedKeeps ==
  ASSUME TasksInv, NEW t \in Tasks \ Queries, t = Actor => serving # NoOne, Shared(t)
  PROVE  TasksInv'
<1>1. HoldInv /\ OtherOK
  BY InvParts
<1>2. HoldInv'
  BY <1>1, AskPermitHolds, AskConnectionHolds, BeginHolds DEF Shared
<1>3. /\ doing' = [doing EXCEPT ![t] = doing[t]] /\ todo' = [todo EXCEPT ![t] = Tail(todo[t])]
      /\ UNCHANGED <<tries, answer, actorState, serverState, faults>>
  BY Zenon DEF Shared, AskPermit, AskConnection, Begin, Proceed, GoTo
<1>4. OtherOK'
  BY <1>1, <1>3 DEF OtherOK, HoldInv, actorState, serverState, Tasks, Calls
<1> QED
  BY <1>2, <1>4, InvPartsNext

LEMMA PostKeeps ==
  ASSUME TasksInv, NEW p \in Posts, Post(p) \/ PostSteps(p) \/ PostHangsUp(p)
  PROVE  TasksInv'
<1>1. HoldInv /\ OtherOK
  BY InvParts
<1>2. p \in Tasks /\ p \notin Queries /\ p # Actor
  BY TasksDistinct DEF Tasks, Calls
<1> USE DEF GoesTo, GoTo, Respond
<1>3. CASE Post(p)
  <2>1. HoldInv'
    <3>1. todo[p] = <<>> /\ GoesTo(p, WriteSteps) /\ UNCHANGED resources
      BY <1>3 DEF Post
    <3> QED
      BY <1>1, <1>2, <3>1, FreshLists, MoveHolds, WaitsWithNothing
  <2>2. OtherOK'
    BY <1>1, <1>2, <1>3, BoundsNat DEF Post, OtherOK, HoldInv, actorState, serverState
  <2> QED
    BY <2>1, <2>2, InvPartsNext
<1>4. CASE Shared(p)
  BY <1>2, <1>4, SharedKeeps
<1>5. CASE StageSleeps(p)
  <2>1. HoldInv'
    <3>1. Doing(p, "sleep") /\ GoesTo(p, Tail(todo[p])) /\ UNCHANGED resources
      BY <1>5 DEF StageSleeps, Proceed
    <3>2. "sleep" \in Waits
      BY DEF Waits
    <3> QED
      BY <1>1, <1>2, <3>1, <3>2, WaitEnds
  <2>2. OtherOK'
    BY <1>1, <1>2, <1>5 DEF StageSleeps, Proceed, OtherOK, HoldInv, actorState, serverState
  <2> QED
    BY <2>1, <2>2, InvPartsNext
<1>6. CASE Accepted(p) \/ RefusedByStore(p) \/ StageAgain(p) \/ GiveUp(p) \/ PostHangsUp(p)
  <2>1. \E steps \in {<<>>, <<"sleep">> \o WriteSteps}, left \in {"free", "rollback"} :
          GoesTo(p, steps) /\ Release(p, left)
    BY <1>6 DEF Accepted, RefusedByStore, StageAgain, GiveUp, PostHangsUp, Commit, Drop, Retry
  <2>2. HoldInv'
    BY <1>1, <1>2, <2>1, FreshLists, ReleaseHolds
  <2>3. /\ \E goal \in {"stage", "idle"} : doing' = [doing EXCEPT ![p] = goal]
        /\ UNCHANGED <<answer, actorState, serverState>>
    BY <1>6 DEF Accepted, RefusedByStore, StageAgain, GiveUp, PostHangsUp, Retry
  <2>4. tries' \in [Posts -> 0..MaxStageRetries]
    BY <1>1, <1>6, BoundsNat DEF Accepted, RefusedByStore, StageAgain, GiveUp, PostHangsUp,
                                  RetriesLeft, OtherOK
  <2>5. faults' \in 0..MaxFaults
    BY <1>1, <1>6, BoundsNat DEF Accepted, RefusedByStore, StageAgain, GiveUp, PostHangsUp,
                                  DatabaseFails, StatementFails, Fault, OtherOK
  <2>6. OtherOK'
    BY <1>1, <1>2, <2>1, <2>3, <2>4, <2>5 DEF OtherOK, HoldInv, actorState, serverState
  <2> QED
    BY <2>2, <2>6, InvPartsNext
<1> QED
  BY <1>3, <1>4, <1>5, <1>6 DEF PostSteps

LEMMA SendHolds ==
  ASSUME TasksInv, NEW c \in Callers, Send(c)
  PROVE  TasksInv'
<1>1. HoldInv /\ OtherOK
  BY InvParts
<1>2. c \in Tasks /\ c # Actor
  BY TasksDistinct DEF Tasks, Calls, Callers
<1>3. /\ Doing(c, "send") /\ GoesTo(c, Tail(todo[c]))
      /\ doing' = [doing EXCEPT ![c] = doing[c]]
      /\ UNCHANGED <<tries, answer, resources, serving, alive, poisoned, serverState, faults>>
  BY DEF Send, Proceed, GoTo, GoesTo
<1>4. HoldInv'
  <2>1. "send" \in Waits
    BY DEF Waits
  <2> QED
    BY <1>1, <1>2, <1>3, <2>1, WaitEnds
<1>5. mailbox' \in Seq(Callers) /\ reply' \in [Callers -> {"none", "ok", "error"}]
  BY <1>1, AppendProperties DEF Send, Enqueue, OtherOK
<1>6. \A q \in Queries : todo'[q] \in {<<>>, CallSteps, <<"answer">>}
  <2> SUFFICES ASSUME NEW q \in Queries PROVE todo'[q] \in {<<>>, CallSteps, <<"answer">>}
    OBVIOUS
  <2>1. q \in Tasks /\ todo[q] \in {<<>>, CallSteps, <<"answer">>}
    BY <1>1 DEF Tasks, Calls, OtherOK
  <2>2. CASE q = c
    <3>1. todo[q] # <<>> /\ Head(todo[q]) = "send"
      BY <1>3, <2>2 DEF Doing
    <3>2. todo[q] # <<"answer">>
      BY <3>1
    <3>3. Tail(CallSteps) = <<"answer">>
      BY DEF CallSteps
    <3>4. todo'[q] = Tail(todo[q])
      BY <1>1, <1>3, <2>1, <2>2 DEF GoesTo, HoldInv
    <3> QED
      BY <2>1, <3>1, <3>2, <3>3, <3>4
  <2>3. CASE q # c
    BY <1>1, <1>3, <2>1, <2>3 DEF GoesTo, HoldInv
  <2> QED
    BY <2>2, <2>3
<1>7. OtherOK'
  BY <1>1, <1>2, <1>3, <1>5, <1>6 DEF OtherOK, HoldInv, GoesTo, serverState
<1> QED
  BY <1>4, <1>7, InvPartsNext

LEMMA QueryKeeps ==
  ASSUME TasksInv, NEW q \in Queries, Query(q) \/ QuerySteps(q) \/ QueryHangsUp(q)
  PROVE  TasksInv'
<1>1. HoldInv /\ OtherOK
  BY InvParts
<1>2. q \in Tasks /\ q \in Callers /\ q # Actor
  BY TasksDistinct DEF Tasks, Calls, Callers
<1> USE DEF GoesTo, GoTo
<1>3. CASE Query(q)
  <2>1. HoldInv'
    <3>1. todo[q] = <<>> /\ GoesTo(q, CallSteps) /\ UNCHANGED resources
      BY <1>3 DEF Query
    <3> QED
      BY <1>1, <1>2, <3>1, FreshLists, MoveHolds, WaitsWithNothing
  <2>2. OtherOK'
    BY <1>1, <1>2, <1>3 DEF Query, OtherOK, HoldInv, actorState, serverState
  <2> QED
    BY <2>1, <2>2, InvPartsNext
<1>4. CASE Send(q)
  BY <1>2, <1>4, SendHolds
<1>5. CASE QueryAnswered(q)
  <2>1. HoldInv'
    <3>1. Doing(q, "answer") /\ GoesTo(q, <<>>) /\ UNCHANGED resources
      BY <1>5 DEF QueryAnswered, Answered, Finish
    <3>2. "answer" \in Waits
      BY DEF Waits
    <3> QED
      BY <1>1, <1>2, <3>1, <3>2, FreshLists, MoveHolds, WaitsWithNothing
  <2>2. OtherOK'
    BY <1>1, <1>2, <1>5 DEF QueryAnswered, Answered, Finish, OtherOK, HoldInv, actorState, serverState
  <2> QED
    BY <2>1, <2>2, InvPartsNext
<1>6. CASE QueryHangsUp(q)
  <2>1. todo[q] \in {CallSteps, <<"answer">>}
    BY <1>1, <1>6 DEF QueryHangsUp, OtherOK
  <2>2. Doing(q, "send") \/ Doing(q, "answer")
    BY <2>1 DEF Doing, CallSteps
  <2>3. HoldInv'
    <3>1. GoesTo(q, <<>>) /\ UNCHANGED resources
      BY <1>6 DEF QueryHangsUp, Finish
    <3>2. {"send", "answer"} \subseteq Waits
      BY DEF Waits
    <3> QED
      BY <1>1, <1>2, <2>2, <3>1, <3>2, FreshLists, MoveHolds, WaitsWithNothing
  <2>4. mailbox' \in Seq(Callers)
    BY <1>1, <1>6, WithoutTyped DEF QueryHangsUp, LeaveMailbox, OtherOK
  <2>5. faults' \in 0..MaxFaults
    BY <1>1, <1>6, BoundsNat DEF QueryHangsUp, Fault, OtherOK
  <2>6. OtherOK'
    BY <1>1, <1>2, <1>6, <2>4, <2>5 DEF QueryHangsUp, Finish, OtherOK, HoldInv, serverState
  <2> QED
    BY <2>3, <2>6, InvPartsNext
<1> QED
  BY <1>3, <1>4, <1>5, <1>6 DEF QuerySteps

-----------------------------------------------------------------------------
(* The actions of the dispatcher.                                          *)

LEMMA DispatcherKeeps ==
  ASSUME TasksInv, DispatcherSteps
  PROVE  TasksInv'
<1>1. HoldInv /\ OtherOK
  BY InvParts
<1>2. /\ Dispatcher \in Tasks /\ Dispatcher \in Callers /\ Dispatcher # Actor
      /\ Dispatcher \notin Queries
  BY TasksDistinct DEF Tasks, Calls, Callers
<1>3. CASE Shared(Dispatcher)
  BY <1>2, <1>3, SharedKeeps
<1>4. CASE Send(Dispatcher)
  BY <1>2, <1>4, SendHolds
<1> USE DEF GoesTo, GoTo
<1>5. CASE DispatcherAnswered \/ DispatcherWakes
  <2>1. /\ Doing(Dispatcher, "answer") \/ Doing(Dispatcher, "wait")
        /\ GoesTo(Dispatcher, WriteSteps) /\ UNCHANGED resources
    BY <1>5 DEF DispatcherAnswered, DispatcherWakes, Answered
  <2>2. {"wait", "answer"} \subseteq Waits
    BY DEF Waits
  <2>3. HoldInv'
    BY <1>1, <1>2, <2>1, <2>2, FreshLists, MoveHolds, WaitsWithNothing
  <2>4. \E goal \in {"claim", "settle"} : doing' = [doing EXCEPT ![Dispatcher] = goal]
    BY <1>5 DEF DispatcherAnswered, DispatcherWakes
  <2>5. UNCHANGED <<tries, answer, actorState, serverState, faults>>
    BY <1>5 DEF DispatcherAnswered, DispatcherWakes
  <2>6. OtherOK'
    BY <1>1, <1>2, <2>1, <2>4, <2>5 DEF OtherOK, HoldInv, actorState, serverState
  <2> QED
    BY <2>3, <2>6, InvPartsNext
<1>6. CASE DispatcherReads
  <2>1. /\ Doing(Dispatcher, "read") /\ GoesTo(Dispatcher, Tail(todo[Dispatcher]))
        /\ Release(Dispatcher, "free")
    BY <1>6 DEF DispatcherReads, Proceed
  <2>2. Fresh(Tail(todo[Dispatcher]))
    <3>1. Orderly(todo[Dispatcher]) /\ todo[Dispatcher] # <<>> /\ todo[Dispatcher][1] \in Reads
      BY <1>1, <1>2, <2>1 DEF HoldInv, Doing, Reads
    <3> QED
      BY <3>1, TailFresh
  <2>3. HoldInv'
    BY <1>1, <1>2, <2>1, <2>2, ReleaseHolds
  <2>4. OtherOK'
    BY <1>1, <1>2, <1>6 DEF DispatcherReads, Proceed, OtherOK, HoldInv, actorState, serverState
  <2> QED
    BY <2>3, <2>4, InvPartsNext
<1>7. CASE Claimed \/ WindowUnread \/ Settled \/ DispatcherFails \/ Recovered
  <2>1. \E steps \in {WriteSteps, ReadSteps \o CallSteps, ReadSteps \o <<"wait">>, <<"wait">>},
           left \in {"free", "rollback"} :
          GoesTo(Dispatcher, steps) /\ Release(Dispatcher, left)
    BY <1>7 DEF Claimed, WindowUnread, Settled, DispatcherFails, Recovered, Commit, Drop
  <2>2. HoldInv'
    BY <1>1, <1>2, <2>1, FreshLists, ReleaseHolds
  <2>3. /\ \E goal \in {"idle", "claim", "dispatch", "settle", "deadline", "recover"} :
             doing' = [doing EXCEPT ![Dispatcher] = goal]
        /\ UNCHANGED <<tries, answer, actorState, serverState>>
    BY <1>7 DEF Claimed, WindowUnread, Settled, DispatcherFails, Recovered
  <2>4. faults' \in 0..MaxFaults
    BY <1>1, <1>7, BoundsNat DEF Claimed, WindowUnread, Settled, DispatcherFails, Recovered,
                                  DatabaseFails, StatementFails, Fault, OtherOK
  <2>5. OtherOK'
    BY <1>1, <1>2, <2>1, <2>3, <2>4 DEF OtherOK, HoldInv, actorState, serverState
  <2> QED
    BY <2>2, <2>5, InvPartsNext
<1> QED
  BY <1>3, <1>4, <1>5, <1>6, <1>7 DEF DispatcherSteps

-----------------------------------------------------------------------------
(* The actions of the actor.                                               *)

ActorGoal == {"idle", "add", "retrieve", "dead"}

\* The rest of the invariant after a step of the actor: it goes on with its task, or
\* it has answered and is idle.
LEMMA ActorOther ==
  ASSUME HoldInv, OtherOK, NEW steps, GoesTo(Actor, steps),
         \E goal \in ActorGoal \cup {doing[Actor]} : doing' = [doing EXCEPT ![Actor] = goal],
         serving' \in Callers \cup {NoOne}, serving' = NoOne => steps = <<>>,
         mailbox' \in Seq(Callers), reply' \in [Callers -> {"none", "ok", "error"}],
         alive' \in BOOLEAN, poisoned' \in BOOLEAN, faults' \in 0..MaxFaults,
         UNCHANGED <<tries, answer, serverState>>
  PROVE  OtherOK'
<1>1. Actor \in Tasks /\ Actor \notin Queries
  BY TasksDistinct DEF Tasks, Calls
<1>2. todo'[Actor] = steps /\ \A q \in Queries : todo'[q] = todo[q]
  BY <1>1 DEF GoesTo, HoldInv, Tasks, Calls
<1>3. doing' \in [Tasks -> {"idle", "stage", "retrieve", "claim", "dispatch", "settle",
                           "deadline", "recover", "add", "dead"}]
  BY <1>1 DEF OtherOK, ActorGoal
<1> QED
  BY <1>2, <1>3 DEF OtherOK, serverState

\* What Deliver and Continue do.
LEMMA ContinueSteps ==
  ASSUME OtherOK, NEW steps, Continue(steps)
  PROVE  /\ GoesTo(Actor, steps)
         /\ \E goal \in ActorGoal \cup {doing[Actor]} : doing' = [doing EXCEPT ![Actor] = goal]
         /\ serving' \in {serving, NoOne}
         /\ serving' = NoOne => (steps = <<>> \/ serving = NoOne)
         /\ mailbox' = mailbox /\ reply' \in [Callers -> {"none", "ok", "error"}]
         /\ UNCHANGED <<tries, answer, alive, serverState>>
<1>1. CASE steps = <<>>
  BY <1>1 DEF Continue, Deliver, GoTo, GoesTo, ActorGoal, OtherOK
<1>2. CASE steps # <<>>
  BY <1>2 DEF Continue, GoTo, GoesTo, ActorGoal, OtherOK
<1> QED
  BY <1>1, <1>2

LEMMA DeliverSteps ==
  ASSUME OtherOK, Deliver("error") \/ Deliver("ok")
  PROVE  /\ GoesTo(Actor, <<>>)
         /\ \E goal \in ActorGoal \cup {doing[Actor]} : doing' = [doing EXCEPT ![Actor] = goal]
         /\ serving' = NoOne
         /\ mailbox' = mailbox /\ reply' \in [Callers -> {"none", "ok", "error"}]
         /\ UNCHANGED <<tries, answer, alive, serverState>>
BY DEF Deliver, GoTo, GoesTo, ActorGoal, OtherOK

LEMMA ActorBusy ==
  ASSUME HoldInv, OtherOK, todo[Actor] # <<>>
  PROVE  serving # NoOne /\ Orderly(todo[Actor]) /\ Actor \in Tasks
BY DEF OtherOK, HoldInv, Tasks

\* The actor waits for a model, and goes on or gives up.
LEMMA ModelStepsKeep ==
  ASSUME TasksInv, Analyze \/ Evolve \/ ModelFails \/ Encode \/ EncoderPanics
  PROVE  TasksInv'
<1>1. HoldInv /\ OtherOK
  BY InvParts
<1>2. PICK step \in Models : Doing(Actor, step)
  BY DEF Analyze, Evolve, ModelFails, Encode, EncoderPanics, Models
<1>3. /\ serving # NoOne /\ Actor \in Tasks
      /\ ~HasPermit(todo[Actor]) /\ ~HasConnection(todo[Actor])
      /\ Fresh(Tail(todo[Actor]))
  <2>1. todo[Actor] # <<>> /\ Head(todo[Actor]) \in Waits /\ step \in Waits
    BY <1>2 DEF Doing, Waits
  <2>2. serving # NoOne /\ Orderly(todo[Actor]) /\ Actor \in Tasks
    BY <1>1, <2>1, ActorBusy
  <2>3. todo[Actor][1] \in Waits
    BY <2>1, <2>2 DEF Orderly
  <2> QED
    BY <1>1, <1>2, <2>1, <2>2, <2>3, TailFresh, WaitsWithNothing
<1>4. /\ UNCHANGED resources
      /\ alive \in BOOLEAN /\ poisoned' \in BOOLEAN /\ faults' \in 0..MaxFaults
  <2>1. UNCHANGED resources /\ (UNCHANGED poisoned \/ poisoned' = TRUE)
    BY Zenon DEF Analyze, Evolve, ModelFails, Encode, EncoderPanics
  <2>2. faults' \in 0..MaxFaults
    BY <1>1, BoundsNat DEF Analyze, Evolve, ModelFails, Encode, EncoderPanics, Fault, OtherOK
  <2>3. alive \in BOOLEAN /\ poisoned \in BOOLEAN
    BY <1>1, Zenon DEF OtherOK
  <2> QED
    BY <2>1, <2>2, <2>3
<1>5. Deliver("error") \/ \E steps \in {Tail(todo[Actor]), WriteSteps} : Continue(steps)
  BY DEF Analyze, Evolve, ModelFails, Encode, EncoderPanics
<1>6. CASE Deliver("error")
  <2>1. HoldInv'
    BY <1>1, <1>3, <1>4, <1>6, DeliverSteps, FreshLists, MoveHolds
  <2>2. OtherOK'
    BY <1>1, <1>4, <1>6, DeliverSteps, ActorOther DEF OtherOK
  <2> QED
    BY <2>1, <2>2, InvPartsNext
<1>7. ASSUME NEW steps \in {Tail(todo[Actor]), WriteSteps}, Continue(steps) PROVE TasksInv'
  <2>1. Fresh(steps)
    BY <1>3, FreshLists
  <2>2. HoldInv'
    BY <1>1, <1>3, <1>4, <1>7, <2>1, ContinueSteps, MoveHolds
  <2>3. /\ GoesTo(Actor, steps)
        /\ \E goal \in ActorGoal \cup {doing[Actor]} : doing' = [doing EXCEPT ![Actor] = goal]
        /\ serving' \in {serving, NoOne}
        /\ serving' = NoOne => steps = <<>>
        /\ mailbox' = mailbox /\ reply' \in [Callers -> {"none", "ok", "error"}]
        /\ UNCHANGED <<tries, answer, alive, serverState>>
    BY <1>1, <1>3, <1>7, ContinueSteps
  <2>4. OtherOK'
    <3>1. mailbox' \in Seq(Callers) /\ serving' \in Callers \cup {NoOne}
      <4>1. mailbox \in Seq(Callers) /\ serving \in Callers \cup {NoOne}
        BY <1>1 DEF OtherOK
      <4>2. mailbox' = mailbox /\ serving' \in {serving, NoOne}
        BY <2>3
      <4> QED
        BY <4>1, <4>2
    <3>2. alive' \in BOOLEAN
      BY <1>4, <2>3, Zenon
    <3> QED
      BY <1>1, <1>4, <2>3, <3>1, <3>2, ActorOther
  <2> QED
    BY <2>2, <2>4, InvPartsNext
<1> QED
  BY <1>5, <1>6, <1>7

\* The actor gives back what it has, and goes on, answers or gives up.
LEMMA ReleaseStepsKeep ==
  ASSUME TasksInv, ActorReads \/ LinksLeftOut \/ Stored \/ ActorFails
  PROVE  TasksInv'
<1>1. HoldInv /\ OtherOK
  BY InvParts
<1>2. todo[Actor] # <<>>
  BY DEF ActorReads, LinksLeftOut, Stored, ActorFails, Commit, DatabaseFails, StatementFails, Busy, Doing
<1>3. serving # NoOne /\ Actor \in Tasks /\ Orderly(todo[Actor])
  BY <1>1, <1>2, ActorBusy
<1>4. /\ \E left \in {"free", "rollback"} : Release(Actor, left)
      /\ alive \in BOOLEAN /\ poisoned' \in BOOLEAN
  <2>1. UNCHANGED poisoned /\ \E left \in {"free", "rollback"} : Release(Actor, left)
    BY DEF ActorReads, LinksLeftOut, Stored, ActorFails, Commit, Drop
  <2>2. alive \in BOOLEAN /\ poisoned \in BOOLEAN
    BY <1>1, Zenon DEF OtherOK
  <2> QED
    BY <2>1, <2>2
<1>5. faults' \in 0..MaxFaults
  BY <1>1, BoundsNat DEF ActorReads, LinksLeftOut, Stored, ActorFails, DatabaseFails,
                         StatementFails, Fault, OtherOK
<1>6. \/ Deliver("error") \/ Deliver("ok")
      \/ /\ \E step \in Reads : Doing(Actor, step)
         /\ \E steps \in {Tail(todo[Actor]), <<>>, WriteSteps} : Continue(steps)
  BY DEF ActorReads, LinksLeftOut, Stored, ActorFails, AfterRead, AfterNone, Reads
<1>7. CASE Deliver("error") \/ Deliver("ok")
  <2>1. HoldInv'
    BY <1>1, <1>3, <1>4, <1>7, DeliverSteps, FreshLists, ReleaseHolds
  <2>2. OtherOK'
    BY <1>1, <1>4, <1>5, <1>7, DeliverSteps, ActorOther DEF OtherOK
  <2> QED
    BY <2>1, <2>2, InvPartsNext
<1>8. ASSUME \E step \in Reads : Doing(Actor, step),
             NEW steps \in {Tail(todo[Actor]), <<>>, WriteSteps}, Continue(steps)
      PROVE  TasksInv'
  <2>1. todo[Actor][1] \in Reads
    BY <1>3, <1>8 DEF Orderly, Doing
  <2>2. Fresh(steps)
    BY <1>2, <1>3, <2>1, TailFresh, FreshLists
  <2>3. HoldInv'
    BY <1>1, <1>3, <1>4, <1>8, <2>2, ContinueSteps, ReleaseHolds
  <2>4. /\ GoesTo(Actor, steps)
        /\ \E goal \in ActorGoal \cup {doing[Actor]} : doing' = [doing EXCEPT ![Actor] = goal]
        /\ serving' \in {serving, NoOne}
        /\ serving' = NoOne => steps = <<>>
        /\ mailbox' = mailbox /\ reply' \in [Callers -> {"none", "ok", "error"}]
        /\ UNCHANGED <<tries, answer, alive, serverState>>
    BY <1>1, <1>3, <1>8, ContinueSteps
  <2>5. OtherOK'
    <3>1. mailbox' \in Seq(Callers) /\ serving' \in Callers \cup {NoOne}
      <4>1. mailbox \in Seq(Callers) /\ serving \in Callers \cup {NoOne}
        BY <1>1 DEF OtherOK
      <4>2. mailbox' = mailbox /\ serving' \in {serving, NoOne}
        BY <2>4
      <4> QED
        BY <4>1, <4>2
    <3>2. alive' \in BOOLEAN
      BY <1>4, <2>4, Zenon
    <3> QED
      BY <1>1, <1>4, <1>5, <2>4, <3>1, <3>2, ActorOther
  <2> QED
    BY <2>3, <2>5, InvPartsNext
<1> QED
  BY <1>6, <1>7, <1>8

LEMMA ActorKeeps ==
  ASSUME TasksInv, ActorSteps \/ ActorPanics
  PROVE  TasksInv'
<1>1. HoldInv /\ OtherOK
  BY InvParts
<1>2. Actor \in Tasks /\ Actor \notin Queries
  BY TasksDistinct DEF Tasks, Calls
<1>3. CASE Shared(Actor)
  <2>1. todo[Actor] # <<>>
    BY <1>3 DEF Shared, AskPermit, AskConnection, Begin, Doing
  <2> QED
    BY <1>1, <1>2, <1>3, <2>1, ActorBusy, SharedKeeps
<1>4. CASE Take
  <2>1. Head(mailbox) \in Callers /\ Tail(mailbox) \in Seq(Callers)
    BY <1>1, <1>4, HeadTailProperties DEF Take, OtherOK
  <2>2. NoOne \notin Callers
    BY TasksDistinct
  <2>3. PICK steps \in {AddSteps, RetrieveSteps} : GoesTo(Actor, steps)
    BY <1>4 DEF Take, GoTo, GoesTo
  <2>4. todo[Actor] = <<>> /\ UNCHANGED resources
    BY <1>1, <1>4 DEF Take, OtherOK
  <2>5. HoldInv'
    BY <1>1, <1>2, <2>3, <2>4, FreshLists, MoveHolds, WaitsWithNothing
  <2>6. /\ \E goal \in ActorGoal \cup {doing[Actor]} : doing' = [doing EXCEPT ![Actor] = goal]
        /\ serving' = Head(mailbox) /\ mailbox' = Tail(mailbox)
        /\ UNCHANGED <<tries, answer, alive, reply, poisoned, serverState, faults>>
    BY <1>4 DEF Take, GoTo, ActorGoal
  <2>7. OtherOK'
    BY <1>1, <2>1, <2>2, <2>3, <2>6, ActorOther DEF OtherOK
  <2> QED
    BY <2>5, <2>7, InvPartsNext
<1>5. CASE ActorPanics
  <2>1. GoesTo(Actor, <<>>) /\ Release(Actor, "rollback")
    BY <1>5 DEF ActorPanics, Drop, GoTo, GoesTo
  <2>2. HoldInv'
    BY <1>1, <1>2, <2>1, FreshLists, ReleaseHolds
  <2>3. /\ \E goal \in ActorGoal \cup {doing[Actor]} : doing' = [doing EXCEPT ![Actor] = goal]
        /\ serving' = NoOne /\ mailbox' = <<>> /\ alive' = FALSE
        /\ UNCHANGED <<tries, answer, poisoned, serverState>>
    BY <1>5 DEF ActorPanics, GoTo, ActorGoal
  <2>4. reply' \in [Callers -> {"none", "ok", "error"}] /\ faults' \in 0..MaxFaults
    BY <1>1, <1>5, BoundsNat DEF ActorPanics, CallersDropped, Fault, OtherOK
  <2>5. OtherOK'
    <3>1. mailbox' \in Seq(Callers) /\ serving' \in Callers \cup {NoOne}
      BY <2>3
    <3>3. alive' \in BOOLEAN
      BY <2>3, Zenon
    <3>2. poisoned \in BOOLEAN
      BY <1>1, Zenon DEF OtherOK
    <3> QED
      BY <1>1, <2>1, <2>3, <2>4, <3>1, <3>2, ActorOther
  <2> QED
    BY <2>2, <2>5, InvPartsNext
<1> QED
  BY <1>3, <1>4, <1>5, ModelStepsKeep, ReleaseStepsKeep DEF ActorSteps

-----------------------------------------------------------------------------
(* The environment, and all together.                                      *)

LEMMA EnvironmentKeeps ==
  ASSUME TasksInv, RolledBack \/ OtherLocks \/ OtherUnlocks \/ OpenStream \/ Signal \/ Stop
  PROVE  TasksInv'
<1>1. HoldInv /\ OtherOK
  BY InvParts
<1>2. CASE RolledBack \/ OtherLocks \/ OtherUnlocks
  <2>1. HoldInv'
    BY <1>1, <1>2, LockHolds DEF RolledBack, OtherLocks, OtherUnlocks
  <2>2. OtherOK'
    BY <1>1, <1>2, BoundsNat DEF RolledBack, OtherLocks, OtherUnlocks, Fault, OtherOK,
                                  actorState, serverState
  <2> QED
    BY <2>1, <2>2, InvPartsNext
<1>3. CASE OpenStream \/ Signal
  <2>1. HoldInv'
    BY <1>1, <1>3, UntouchedHolds DEF OpenStream, Signal, resources
  <2>2. OtherOK'
    BY <1>1, <1>3 DEF OpenStream, Signal, ShutdownSignal, OtherOK, actorState
  <2> QED
    BY <2>1, <2>2, InvPartsNext
<1>4. CASE Stop
  <2>1. HoldInv'
    BY <1>1, <1>4, StopHolds
  <2>2. \A t \in Tasks : todo'[t] = <<>>
    BY <1>4 DEF Stop
  <2>3. Queries \subseteq Tasks /\ Actor \in Tasks
    BY DEF Tasks, Calls
  <2>4. OtherOK'
    BY <1>1, <1>4, <2>2, <2>3 DEF Stop, OtherOK
  <2> QED
    BY <2>1, <2>4, InvPartsNext
<1> QED
  BY <1>2, <1>3, <1>4

LEMMA InitInv == Init => TasksInv
<1> SUFFICES ASSUME Init PROVE TasksInv
  OBVIOUS
<1>1. Fresh(WriteSteps) /\ Fresh(<<>>)
  BY FreshLists
<1>2. \A t \in Tasks : Fresh(todo[t])
  BY <1>1 DEF Init
<1>3. todo \in [Tasks -> Seq(Steps)] /\ \A t \in Tasks : Orderly(todo[t])
  BY <1>1, <1>2 DEF Init, Fresh, Orderly
<1>4. Permits = {} /\ Connecteds = {}
  BY <1>2 DEF Fresh, Permits, Connecteds
<1>5. gate = <<>> /\ pool = <<>> /\ lock = "free"
  BY DEF Init
<1>6. Holders(<<>>, {})
  <2>1. ToSet(<<>>) = {}
    BY DEF ToSet
  <2> QED
    BY <2>1 DEF Holders
<1>7. \A t \in Tasks : ~Doing(t, "begin") /\ ~Doing(t, "commit")
  BY <1>2, FreshStarts DEF Doing
<1>8. HoldInv
  BY <1>3, <1>4, <1>5, <1>6, <1>7, TasksDistinct DEF HoldInv, Permits, Connecteds
<1>9. OtherOK
  <2>1. {alive, poisoned, stream} \subseteq BOOLEAN
    BY Zenon DEF Init
  <2>2. mailbox \in Seq(Callers) /\ \A q \in Queries : todo[q] = <<>>
    BY TasksDistinct DEF Init, Tasks, Calls
  <2>3. todo[Actor] = <<>>
    BY TasksDistinct DEF Init, Tasks, Calls
  <2>4. /\ doing \in [Tasks -> {"idle", "stage", "retrieve", "claim", "dispatch", "settle",
                               "deadline", "recover", "add", "dead"}]
        /\ tries \in [Posts -> 0..MaxStageRetries] /\ faults \in 0..MaxFaults
        /\ answer \in [Queries -> {"none", "ok", "error", "gone"}]
        /\ reply \in [Callers -> {"none", "ok", "error"}]
        /\ serving = NoOne /\ server = "up"
    BY BoundsNat DEF Init
  <2> QED
    BY <2>1, <2>2, <2>3, <2>4 DEF OtherOK
<1> QED
  BY <1>8, <1>9, InvParts

LEMMA NextInv == TasksInv /\ [Next]_vars => TasksInv'
<1> SUFFICES ASSUME TasksInv, [Next]_vars PROVE TasksInv'
  OBVIOUS
<1>1. CASE \E p \in Posts : Post(p) \/ PostSteps(p) \/ PostHangsUp(p)
  BY <1>1, PostKeeps
<1>2. CASE \E q \in Queries : Query(q) \/ QuerySteps(q) \/ QueryHangsUp(q)
  BY <1>2, QueryKeeps
<1>3. CASE DispatcherSteps
  BY <1>3, DispatcherKeeps
<1>4. CASE ActorSteps \/ ActorPanics
  BY <1>4, ActorKeeps
<1>5. CASE RolledBack \/ OtherLocks \/ OtherUnlocks \/ OpenStream \/ Signal \/ Stop
  BY <1>5, EnvironmentKeeps
<1>6. CASE UNCHANGED vars
  <2>1. HoldInv'
    BY <1>6, InvParts, UntouchedHolds DEF vars, resources
  <2>2. OtherOK'
    BY <1>6, InvParts DEF vars, OtherOK, actorState, serverState
  <2> QED
    BY <2>1, <2>2, InvPartsNext
<1> QED
  BY <1>1, <1>2, <1>3, <1>4, <1>5, <1>6 DEF Next

\* What a task has in hand can be read off the steps it has still to take, in every
\* reachable state.
LEMMA TasksInvariance == Spec => []TasksInv
<1>1. Init => TasksInv
  BY InitInv
<1>2. TasksInv /\ [Next]_vars => TasksInv'
  BY NextInv
<1> QED
  BY <1>1, <1>2, PTL DEF Spec

-----------------------------------------------------------------------------
(* The theorems.                                                           *)

\* Type correctness.
THEOREM TypeCorrectness == Spec => []TypeOK
<1>1. TasksInv => TypeOK
  BY DEF TasksInv
<1> QED
  BY <1>1, TasksInvariance, PTL

\* One writer at most has a connection, whatever the size of the pool and however
\* many want to write: it has the permit, and the gate has one head.
THEOREM OneWriterConnectedHolds == Spec => []OneWriterConnected
<1>1. TasksInv => OneWriterConnected
  BY DEF TasksInv, HoldInv, OneWriterConnected
<1> QED
  BY <1>1, TasksInvariance, PTL

\* Nobody keeps the permit, a connection or the lock while it waits for a model, a
\* task or a timer: there is no cycle of tasks that wait for each other.
THEOREM HoldsNothingWhileWaitingHolds == Spec => []HoldsNothingWhileWaiting
<1>1. TasksInv => HoldsNothingWhileWaiting
  <2> SUFFICES ASSUME TasksInv, NEW t \in Tasks,
                      todo[t] = <<>> \/ \E step \in Waits : Doing(t, step)
               PROVE  t \notin ToSet(gate) \cup ToSet(pool) \cup {lock}
    BY DEF HoldsNothingWhileWaiting
  <2>1. HoldInv
    BY DEF TasksInv
  <2>2. ~HasPermit(todo[t]) /\ ~HasConnection(todo[t])
    BY <2>1, WaitsWithNothing
  <2>3. ~Doing(t, "commit")
    BY DEF Doing, Waits, Models
  <2> QED
    BY <2>1, <2>2, <2>3 DEF HoldInv, Holders
<1> QED
  BY <1>1, TasksInvariance, PTL
=============================================================================
