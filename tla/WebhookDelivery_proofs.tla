----------------------- MODULE WebhookDelivery_proofs -----------------------
(***************************************************************************)
(* Proofs about WebhookDelivery, for every number of workers, rows,        *)
(* subscribers, attempts, crashes and faults.                              *)
(***************************************************************************)
EXTENDS WebhookDelivery, FiniteSetTheorems, TLAPS

\* The parts of Next, so that each proof splits a step the same way.
LEMMA StepCases ==
    ASSUME [Next]_vars
    PROVE  \/ \E s \in Subscribers : Register(s) \/ Deactivate(s)
           \/ \E r \in Rows : Enqueue(r)
           \/ \E w \in Workers : Poll(w)
           \/ \E w \in Workers : EndRound(w) \/ Restart(w)
           \/ \E w \in Workers : Crash(w)
           \/ \E w \in Workers : \E t \in tasks[w] :
                BeginPost(w, t) \/ SkipInactive(w, t)
           \/ \E w \in Workers : \E t \in tasks[w] : Accept(w, t)
           \/ \E w \in Workers : \E t \in tasks[w] : MarkDelivered(w, t)
           \/ \E w \in Workers : \E t \in tasks[w] : ReadAttempts(w, t)
           \/ \E w \in Workers : \E t \in tasks[w] : MarkFailed(w, t)
           \/ \E w \in Workers : \E t \in tasks[w] : Raise(w, t)
           \/ Tick
           \/ UNCHANGED vars
BY DEF Next, Step

-----------------------------------------------------------------------------
(* Type correctness.                                                       *)

\* The type invariant holds of every reachable state of the delivery system.
THEOREM TypeCorrect == Spec => []TypeOK
<1> USE ParameterAssumption
<1>1. Init => TypeOK
  BY DEF Init, TypeOK, SubscriberState, RowStatus, LoopState, Rounds
<1>2. TypeOK /\ [Next]_vars => TypeOK'
  <2> SUFFICES ASSUME TypeOK, [Next]_vars PROVE TypeOK'
    OBVIOUS
  <2> USE DEF TypeOK, table, worker, budget, history
  <2>1. ASSUME NEW s \in Subscribers, Register(s) \/ Deactivate(s)
        PROVE TypeOK'
    BY <2>1 DEF Register, Deactivate, SubscriberState
  <2>2. ASSUME NEW r \in Rows, Enqueue(r) PROVE TypeOK'
    BY <2>2 DEF Enqueue, FirstAttempt, RowStatus
  <2>3. ASSUME NEW w \in Workers, Poll(w) PROVE TypeOK'
    <3>1. PICK batch \in SUBSET Rows, n \in Rounds :
            /\ tasks' = [tasks EXCEPT ![w] = @ \cup
                  [row : batch, round : {n}, at : {"waiting"}, seen : {0}]]
            /\ round' = [round EXCEPT ![w] = n]
            /\ loop' = [loop EXCEPT ![w] = "gathering"]
      BY <2>3 DEF Poll
    <3>2. [row : batch, round : {n}, at : {"waiting"}, seen : {0}] \subseteq Task
      BY DEF Task, TaskState
    <3>3. tasks' \in [Workers -> SUBSET Task]
      BY <3>1, <3>2
    <3>4. QED
      BY <2>3, <3>1, <3>3 DEF Poll, LoopState
  <2>4. ASSUME NEW w \in Workers, EndRound(w) \/ Restart(w) PROVE TypeOK'
    BY <2>4 DEF EndRound, Restart, LoopState
  <2>5. ASSUME NEW w \in Workers, Crash(w) PROVE TypeOK'
    BY <2>5 DEF Crash, LoopState
  <2>6. ASSUME NEW w \in Workers, NEW t \in tasks[w],
               BeginPost(w, t) \/ SkipInactive(w, t)
        PROVE TypeOK'
    BY <2>6 DEF BeginPost, SkipInactive, Gone, Becomes, Task, TaskState
  <2>7. ASSUME NEW w \in Workers, NEW t \in tasks[w], Accept(w, t)
        PROVE TypeOK'
    BY <2>7 DEF Accept, Becomes, Task, TaskState
  <2>8. ASSUME NEW w \in Workers, NEW t \in tasks[w], MarkDelivered(w, t)
        PROVE TypeOK'
    BY <2>8 DEF MarkDelivered, Gone, Task, RowStatus
  <2>9. ASSUME NEW w \in Workers, NEW t \in tasks[w], ReadAttempts(w, t)
        PROVE TypeOK'
    <3>1. [t EXCEPT !.at = "marking", !.seen = attempts[t.row]] \in Task
      <4>1. t \in Task /\ t.row \in Rows
        BY DEF Task
      <4>2. attempts[t.row] \in Nat
        BY <4>1
      <4>3. QED
        BY <4>1, <4>2 DEF Task, TaskState
    <3>2. tasks' \in [Workers -> SUBSET Task]
      BY <2>9, <3>1 DEF ReadAttempts, Becomes
    <3>3. QED
      BY <2>9, <3>2 DEF ReadAttempts
  <2>10. ASSUME NEW w \in Workers, NEW t \in tasks[w], MarkFailed(w, t)
         PROVE TypeOK'
    <3> DEFINE attempt == AttemptNumber(t)
    <3>1. attempt \in Nat /\ attempt \in 1..attempt /\ t.row \in Rows
      BY DEF AttemptNumber, Task
    <3>2. ~GivesUp(attempt) => now + Backoff(attempt) \in Nat
      BY <3>1, BackoffAssumption DEF GivesUp
    <3>3. nextAttempt' \in [Rows -> Nat]
      BY <2>10, <3>2 DEF MarkFailed
    <3>4. status' \in [Rows -> RowStatus]
      BY <2>10 DEF MarkFailed, RowStatus
    <3>5. attempts' \in [Rows -> Nat] /\ failures' \in [Rows -> Nat]
      BY <2>10, <3>1 DEF MarkFailed
    <3>6. QED
      BY <2>10, <3>3, <3>4, <3>5 DEF MarkFailed, Gone
  <2>11. ASSUME NEW w \in Workers, NEW t \in tasks[w], Raise(w, t)
         PROVE TypeOK'
    BY <2>11 DEF Raise, Gone, LoopState
  <2>12. ASSUME Tick PROVE TypeOK'
    BY <2>12 DEF Tick
  <2>13. ASSUME UNCHANGED vars PROVE TypeOK'
    BY <2>13 DEF vars
  <2>14. QED
    BY StepCases, <2>1, <2>2, <2>3, <2>4, <2>5, <2>6, <2>7, <2>8, <2>9,
       <2>10, <2>11, <2>12, <2>13
<1>3. QED
  BY <1>1, <1>2, PTL DEF Spec

-----------------------------------------------------------------------------
(* A delivered row was received.                                           *)

\* A task that saw a 2xx answer is of a row its subscriber received.
AnswersAreReal ==
    \A w \in Workers : \A t \in tasks[w] : t.at = "accepted" => t.row \in received

DeliveredInv == TypeOK /\ AnswersAreReal /\ DeliveredWasReceived

\* Every step preserves it.
LEMMA DeliveredStep ==
    DeliveredInv /\ [Next]_vars => (AnswersAreReal /\ DeliveredWasReceived)'
<1> SUFFICES ASSUME TypeOK, AnswersAreReal, DeliveredWasReceived, [Next]_vars
             PROVE  AnswersAreReal' /\ DeliveredWasReceived'
  BY DEF DeliveredInv
<1> USE DEF AnswersAreReal, DeliveredWasReceived, TypeOK,
            table, worker, budget, history
<1>1. ASSUME NEW s \in Subscribers, Register(s) \/ Deactivate(s)
      PROVE AnswersAreReal' /\ DeliveredWasReceived'
  BY <1>1 DEF Register, Deactivate
<1>2. ASSUME NEW r \in Rows, Enqueue(r)
      PROVE AnswersAreReal' /\ DeliveredWasReceived'
  BY <1>2 DEF Enqueue
<1>3. ASSUME NEW w \in Workers, Poll(w)
      PROVE AnswersAreReal' /\ DeliveredWasReceived'
  BY <1>3 DEF Poll
<1>4. ASSUME NEW w \in Workers, EndRound(w) \/ Restart(w)
      PROVE AnswersAreReal' /\ DeliveredWasReceived'
  BY <1>4 DEF EndRound, Restart
<1>5. ASSUME NEW w \in Workers, Crash(w)
      PROVE AnswersAreReal' /\ DeliveredWasReceived'
  BY <1>5 DEF Crash
<1>6. ASSUME NEW w \in Workers, NEW t \in tasks[w],
             BeginPost(w, t) \/ SkipInactive(w, t)
      PROVE AnswersAreReal' /\ DeliveredWasReceived'
  BY <1>6 DEF BeginPost, SkipInactive, Gone, Becomes, Task
<1>7. ASSUME NEW w \in Workers, NEW t \in tasks[w], Accept(w, t)
      PROVE AnswersAreReal' /\ DeliveredWasReceived'
  BY <1>7 DEF Accept, Becomes, Task
<1>8. ASSUME NEW w \in Workers, NEW t \in tasks[w], MarkDelivered(w, t)
      PROVE AnswersAreReal' /\ DeliveredWasReceived'
  BY <1>8 DEF MarkDelivered, Acknowledged, Gone
<1>9. ASSUME NEW w \in Workers, NEW t \in tasks[w], ReadAttempts(w, t)
      PROVE AnswersAreReal' /\ DeliveredWasReceived'
  <2>1. t.at = "accepted" \/ t.at = "posting"
    BY <1>9 DEF ReadAttempts
  <2> DEFINE u == [t EXCEPT !.at = "marking", !.seen = attempts[t.row]]
  <2>2. u.at = "marking"
    BY DEF Task
  <2> HIDE DEF u
  <2>3. tasks' = [tasks EXCEPT ![w] = (@ \ {t}) \cup {u}]
    BY <1>9 DEF ReadAttempts, Becomes, u
  <2>4. QED
    BY <1>9, <2>2, <2>3 DEF ReadAttempts
<1>10. ASSUME NEW w \in Workers, NEW t \in tasks[w], MarkFailed(w, t)
       PROVE AnswersAreReal' /\ DeliveredWasReceived'
  <2>1. \A r \in Rows : status'[r] = "delivered" => status[r] = "delivered"
    BY <1>10 DEF MarkFailed
  <2>2. QED
    BY <1>10, <2>1 DEF MarkFailed, Gone
<1>11. ASSUME NEW w \in Workers, NEW t \in tasks[w], Raise(w, t)
       PROVE AnswersAreReal' /\ DeliveredWasReceived'
  BY <1>11 DEF Raise, Gone
<1>12. ASSUME Tick PROVE AnswersAreReal' /\ DeliveredWasReceived'
  BY <1>12 DEF Tick
<1>13. ASSUME UNCHANGED vars PROVE AnswersAreReal' /\ DeliveredWasReceived'
  BY <1>13 DEF vars
<1>14. QED
  BY StepCases, <1>1, <1>2, <1>3, <1>4, <1>5, <1>6, <1>7, <1>8, <1>9,
     <1>10, <1>11, <1>12, <1>13

\* However many workers run, crash or raise, the status 'delivered' is only
\* ever written for a row whose subscriber answered 2xx.
THEOREM DeliveredCorrect == Spec => []DeliveredWasReceived
<1>1. Init => AnswersAreReal /\ DeliveredWasReceived
  BY DEF Init, AnswersAreReal, DeliveredWasReceived
<1>2. QED
  BY <1>1, DeliveredStep, TypeCorrect, PTL DEF Spec, DeliveredInv

-----------------------------------------------------------------------------
(* A dead row was tried MAX_ATTEMPTS times.                                *)

\* attempt_count never runs ahead of the failures that really happened, in
\* the table or in what a mark_failed in progress has read: a lost update
\* makes it fall behind, never ahead.
CountsAreEarned ==
    /\ \A r \in Rows : attempts[r] <= failures[r]
    /\ \A w \in Workers : \A t \in tasks[w] :
          t.at = "marking" => t.seen <= failures[t.row]

DeadInv == TypeOK /\ CountsAreEarned /\ DeadWasTried

\* However the workers' reads and writes of attempt_count interleave, a row is
\* dead-lettered only after MAX_ATTEMPTS failures of that row.
THEOREM DeadCorrect == Spec => []DeadWasTried
<1> USE ParameterAssumption
<1>1. Init => CountsAreEarned /\ DeadWasTried
  BY DEF Init, CountsAreEarned, DeadWasTried
<1>2. DeadInv /\ [Next]_vars => (CountsAreEarned /\ DeadWasTried)'
  <2> SUFFICES ASSUME TypeOK, CountsAreEarned, DeadWasTried, [Next]_vars
               PROVE  CountsAreEarned' /\ DeadWasTried'
    BY DEF DeadInv
  <2> USE DEF CountsAreEarned, DeadWasTried, TypeOK,
              table, worker, budget, history
  <2>1. ASSUME NEW s \in Subscribers, Register(s) \/ Deactivate(s)
        PROVE CountsAreEarned' /\ DeadWasTried'
    BY <2>1 DEF Register, Deactivate
  <2>2. ASSUME NEW r \in Rows, Enqueue(r)
        PROVE CountsAreEarned' /\ DeadWasTried'
    BY <2>2 DEF Enqueue
  <2>3. ASSUME NEW w \in Workers, Poll(w)
        PROVE CountsAreEarned' /\ DeadWasTried'
    BY <2>3 DEF Poll
  <2>4. ASSUME NEW w \in Workers, EndRound(w) \/ Restart(w)
        PROVE CountsAreEarned' /\ DeadWasTried'
    BY <2>4 DEF EndRound, Restart
  <2>5. ASSUME NEW w \in Workers, Crash(w)
        PROVE CountsAreEarned' /\ DeadWasTried'
    BY <2>5 DEF Crash
  <2>6. ASSUME NEW w \in Workers, NEW t \in tasks[w],
               BeginPost(w, t) \/ SkipInactive(w, t)
        PROVE CountsAreEarned' /\ DeadWasTried'
    BY <2>6 DEF BeginPost, SkipInactive, Gone, Becomes, Task
  <2>7. ASSUME NEW w \in Workers, NEW t \in tasks[w], Accept(w, t)
        PROVE CountsAreEarned' /\ DeadWasTried'
    BY <2>7 DEF Accept, Becomes, Task
  <2>8. ASSUME NEW w \in Workers, NEW t \in tasks[w], MarkDelivered(w, t)
        PROVE CountsAreEarned' /\ DeadWasTried'
    <3>1. \A r \in Rows : status'[r] = "dead" => status[r] = "dead"
      BY <2>8 DEF MarkDelivered
    <3>2. QED
      BY <2>8, <3>1 DEF MarkDelivered, Gone
  <2>9. ASSUME NEW w \in Workers, NEW t \in tasks[w], ReadAttempts(w, t)
        PROVE CountsAreEarned' /\ DeadWasTried'
    <3>1. t \in Task /\ t.row \in Rows
      BY DEF Task
    <3> DEFINE u == [t EXCEPT !.at = "marking", !.seen = attempts[t.row]]
    <3>2. u.row = t.row /\ u.seen = attempts[t.row]
      BY <3>1 DEF Task
    <3>3. u.seen <= failures[u.row]
      BY <3>1, <3>2
    <3> HIDE DEF u
    <3>4. tasks' = [tasks EXCEPT ![w] = (@ \ {t}) \cup {u}]
      BY <2>9 DEF ReadAttempts, Becomes, u
    <3>5. QED
      BY <2>9, <3>3, <3>4 DEF ReadAttempts
  <2>10. ASSUME NEW w \in Workers, NEW t \in tasks[w], MarkFailed(w, t)
         PROVE CountsAreEarned' /\ DeadWasTried'
    <3>1. t \in Task /\ t.row \in Rows /\ t.seen \in Nat /\ t.at = "marking"
      BY <2>10 DEF Task, MarkFailed
    <3>2. attempts' = [attempts EXCEPT ![t.row] = t.seen + 1]
      BY <2>10 DEF MarkFailed, AttemptNumber
    <3>3. failures' = [failures EXCEPT ![t.row] = @ + 1]
      BY <2>10 DEF MarkFailed
    <3>4. t.seen + 1 <= failures'[t.row]
      BY <3>1, <3>3
    <3>5. \A r \in Rows : failures[r] <= failures'[r]
      BY <3>1, <3>3
    <3>6. \A r \in Rows : attempts'[r] <= failures'[r]
      <4> SUFFICES ASSUME NEW r \in Rows PROVE attempts'[r] <= failures'[r]
        OBVIOUS
      <4>1. attempts[r] \in Nat /\ failures[r] \in Nat /\ failures'[r] \in Nat
        BY <3>1, <3>3
      <4>2. CASE r = t.row
        BY <4>2, <3>2, <3>4
      <4>3. CASE r # t.row
        BY <4>1, <4>3, <3>2, <3>5
      <4>4. QED
        BY <4>2, <4>3
    <3>7. \A r \in Rows : status'[r] = "dead" =>
             \/ status[r] = "dead"
             \/ r = t.row /\ t.seen + 1 >= MaxAttempts
      BY <2>10, <3>1 DEF MarkFailed, AttemptNumber, GivesUp
    <3>8. DeadWasTried'
      <4> SUFFICES ASSUME NEW r \in Rows, status'[r] = "dead"
                   PROVE  failures'[r] >= MaxAttempts
        OBVIOUS
      <4>1. failures[r] \in Nat /\ failures'[r] \in Nat
        BY <3>1, <3>3
      <4>2. CASE status[r] = "dead"
        BY <4>1, <4>2, <3>5
      <4>3. CASE r = t.row /\ t.seen + 1 >= MaxAttempts
        BY <4>1, <4>3, <3>1, <3>4
      <4>4. QED
        BY <4>2, <4>3, <3>7
    <3>9. \A v \in Workers : \A x \in tasks'[v] : x \in tasks[v]
      BY <2>10 DEF MarkFailed, Gone
    <3>10. \A v \in Workers : \A x \in tasks'[v] :
              x.at = "marking" => x.seen <= failures'[x.row]
      <4> SUFFICES ASSUME NEW v \in Workers, NEW x \in tasks'[v], x.at = "marking"
                   PROVE  x.seen <= failures'[x.row]
        OBVIOUS
      <4>1. x \in Task /\ x.row \in Rows /\ x.seen \in Nat
        BY <3>9 DEF Task
      <4>2. x.seen <= failures[x.row] /\ failures[x.row] <= failures'[x.row]
        BY <3>9, <3>5, <4>1
      <4>3. failures[x.row] \in Nat /\ failures'[x.row] \in Nat
        BY <4>1, <3>3, <3>1
      <4>4. QED
        BY <4>1, <4>2, <4>3
    <3>11. QED
      BY <3>6, <3>8, <3>10
  <2>11. ASSUME NEW w \in Workers, NEW t \in tasks[w], Raise(w, t)
         PROVE CountsAreEarned' /\ DeadWasTried'
    BY <2>11 DEF Raise, Gone
  <2>12. ASSUME Tick PROVE CountsAreEarned' /\ DeadWasTried'
    BY <2>12 DEF Tick
  <2>13. ASSUME UNCHANGED vars PROVE CountsAreEarned' /\ DeadWasTried'
    BY <2>13 DEF vars
  <2>14. QED
    BY StepCases, <2>1, <2>2, <2>3, <2>4, <2>5, <2>6, <2>7, <2>8, <2>9,
       <2>10, <2>11, <2>12, <2>13
<1>3. QED
  BY <1>1, <1>2, TypeCorrect, PTL DEF Spec, DeadInv

-----------------------------------------------------------------------------
(* One worker, no database error: a round owns the rows it fetched.        *)

\* Live tasks only exist during the gather that awaits them, and each is the
\* only one of a row that is still pending and due.
RoundInv ==
    Undisturbed =>
        \A w \in Workers :
            /\ loop[w] # "gathering" => tasks[w] = {}
            /\ \A t \in tasks[w] :
                  /\ t.round = round[w]
                  /\ t.row \in Due
                  /\ \A u \in tasks[w] : u.row = t.row => u = t

\* A step that leaves a task's row where it was and only moves the task along
\* keeps the round's claim on its rows.
LEMMA TaskMoves ==
    ASSUME TypeOK, RoundInv, Undisturbed, NEW w \in Workers, NEW t \in tasks[w],
           NEW u, u.row = t.row, u.round = t.round, Becomes(w, t, u),
           UNCHANGED <<status, nextAttempt, now, loop, round>>
    PROVE  RoundInv'
<1>1. \A v \in Workers : v = w
  BY DEF Undisturbed
<1>2. tasks'[w] = (tasks[w] \ {t}) \cup {u}
  BY DEF Becomes, TypeOK
<1>3. Due' = Due
  BY DEF Due
<1>4. loop[w] = "gathering"
  BY DEF RoundInv
<1>5. \A x \in tasks'[w] : \E y \in tasks[w] :
         /\ x.row = y.row /\ x.round = y.round
         /\ (x = y /\ y # t) \/ (x = u /\ y = t)
  <2> TAKE x \in tasks'[w]
  <2>1. CASE x = u
    BY <2>1
  <2>2. CASE x # u
    BY <2>2, <1>2
  <2>3. QED
    BY <2>1, <2>2
<1>6. ASSUME NEW x \in tasks'[w]
      PROVE  /\ x.round = round'[w]
             /\ x.row \in Due'
             /\ \A y \in tasks'[w] : y.row = x.row => y = x
  <2>1. PICK p \in tasks[w] :
           /\ x.row = p.row /\ x.round = p.round
           /\ (x = p /\ p # t) \/ (x = u /\ p = t)
    BY <1>5
  <2>2. ASSUME NEW y \in tasks'[w], y.row = x.row PROVE y = x
    <3>1. PICK q \in tasks[w] :
             /\ y.row = q.row /\ y.round = q.round
             /\ (y = q /\ q # t) \/ (y = u /\ q = t)
      BY <1>5
    <3>2. p = q
      BY <2>1, <2>2, <3>1 DEF RoundInv
    <3>3. QED
      BY <2>1, <3>1, <3>2
  <2>3. QED
    BY <1>3, <2>1, <2>2 DEF RoundInv
<1>7. QED
  BY <1>1, <1>4, <1>6 DEF RoundInv

\* A step that ends a task, and may write its row but no other, keeps the
\* round's claim on the rows of the other tasks.
LEMMA TaskEnds ==
    ASSUME TypeOK, RoundInv, Undisturbed, NEW w \in Workers, NEW t \in tasks[w],
           Gone(w, t), UNCHANGED <<now, loop, round>>,
           \A r \in Rows \ {t.row} :
               status'[r] = status[r] /\ nextAttempt'[r] = nextAttempt[r]
    PROVE  RoundInv'
<1>1. \A v \in Workers : v = w
  BY DEF Undisturbed
<1>2. tasks'[w] = tasks[w] \ {t}
  BY DEF Gone, TypeOK
<1>3. loop[w] = "gathering"
  BY DEF RoundInv
<1>4. ASSUME NEW x \in tasks'[w]
      PROVE  /\ x.round = round'[w]
             /\ x.row \in Due'
             /\ \A y \in tasks'[w] : y.row = x.row => y = x
  <2>1. x \in tasks[w] /\ x.row # t.row
    BY <1>2 DEF RoundInv
  <2>2. x.row \in Rows /\ x.row \in Due
    BY <2>1 DEF RoundInv, Due
  <2>3. x.row \in Due'
    BY <2>1, <2>2 DEF Due
  <2>4. QED
    BY <1>2, <2>1, <2>3 DEF RoundInv
<1>5. QED
  BY <1>1, <1>3, <1>4 DEF RoundInv

\* Every step preserves the claim, as long as it stays undisturbed.
LEMMA RoundInvStep ==
    ASSUME TypeOK, RoundInv, [Next]_vars
    PROVE  RoundInv'
<1> USE DEF table, worker, budget, history
<1>0. faults \in Nat
  BY ParameterAssumption DEF TypeOK
<1>1. ASSUME NEW s \in Subscribers, Register(s) \/ Deactivate(s)
      PROVE RoundInv'
  BY <1>1 DEF Register, Deactivate, RoundInv, Undisturbed, Due
<1>2. ASSUME NEW r \in Rows, Enqueue(r) PROVE RoundInv'
  <2>1. Due \subseteq Due'
    BY <1>2 DEF Enqueue, Due, TypeOK
  <2>2. QED
    BY <1>2, <2>1 DEF Enqueue, RoundInv, Undisturbed
<1>3. ASSUME NEW w \in Workers, Poll(w) PROVE RoundInv'
  <2> SUFFICES ASSUME Undisturbed' PROVE RoundInv'
    BY DEF RoundInv
  <2>1. Undisturbed /\ \A v \in Workers : v = w
    BY <1>3 DEF Poll, Undisturbed
  <2>2. tasks[w] = {}
    BY <1>3, <2>1 DEF Poll, RoundInv
  <2>3. PICK batch \in SUBSET Rows, n \in Rounds :
          /\ IsDueBatch(batch)
          /\ tasks' = [tasks EXCEPT ![w] = @ \cup
                [row : batch, round : {n}, at : {"waiting"}, seen : {0}]]
          /\ round' = [round EXCEPT ![w] = n]
          /\ loop' = [loop EXCEPT ![w] = "gathering"]
    BY <1>3 DEF Poll
  <2>4. tasks'[w] = [row : batch, round : {n}, at : {"waiting"}, seen : {0}]
    BY <2>2, <2>3 DEF TypeOK
  <2>5. round'[w] = n /\ loop'[w] = "gathering"
    BY <2>3 DEF TypeOK
  <2>6. batch \subseteq Due'
    BY <1>3, <2>3 DEF IsDueBatch, Poll, Due
  <2>7. \A t \in tasks'[w] : t.row \in batch /\ t.round = n
    BY <2>4
  <2>8. \A t, u \in tasks'[w] : u.row = t.row => u = t
    BY <2>4
  <2>9. QED
    BY <2>1, <2>5, <2>6, <2>7, <2>8 DEF RoundInv
<1>4. ASSUME NEW w \in Workers, EndRound(w) \/ Restart(w) PROVE RoundInv'
  <2> SUFFICES ASSUME Undisturbed' PROVE RoundInv'
    BY DEF RoundInv
  <2>1. Undisturbed /\ \A v \in Workers : v = w
    BY <1>4 DEF EndRound, Restart, Undisturbed
  <2>2. tasks[w] = {}
    BY <1>4, <2>1 DEF EndRound, Restart, RoundInv
  <2>3. tasks'[w] = {}
    BY <1>4, <2>2 DEF EndRound, Restart
  <2>4. QED
    BY <2>1, <2>3 DEF RoundInv
<1>5. ASSUME NEW w \in Workers, Crash(w) PROVE RoundInv'
  <2> SUFFICES ASSUME Undisturbed' PROVE RoundInv'
    BY DEF RoundInv
  <2>1. \A v \in Workers : v = w
    BY DEF Undisturbed
  <2>2. tasks'[w] = {}
    BY <1>5 DEF Crash, TypeOK
  <2>3. QED
    BY <2>1, <2>2 DEF RoundInv
<1>6. ASSUME NEW w \in Workers, NEW t \in tasks[w],
             BeginPost(w, t) \/ Accept(w, t) \/ ReadAttempts(w, t)
      PROVE RoundInv'
  <2> SUFFICES ASSUME Undisturbed' PROVE RoundInv'
    BY DEF RoundInv
  <2>1. Undisturbed
    BY <1>6 DEF BeginPost, Accept, ReadAttempts, Undisturbed
  <2>2. t \in Task
    BY DEF TypeOK
  <2>3. PICK u : /\ Becomes(w, t, u)
                 /\ u.row = t.row /\ u.round = t.round
    <3>1. CASE BeginPost(w, t)
      <4> DEFINE u == [t EXCEPT !.at = "posting"]
      <4>1. u.row = t.row /\ u.round = t.round
        BY <2>2 DEF Task
      <4>2. QED
        BY <3>1, <4>1 DEF BeginPost
    <3>2. CASE Accept(w, t)
      <4> DEFINE u == [t EXCEPT !.at = "accepted"]
      <4>1. u.row = t.row /\ u.round = t.round
        BY <2>2 DEF Task
      <4>2. QED
        BY <3>2, <4>1 DEF Accept
    <3>3. CASE ReadAttempts(w, t)
      <4> DEFINE u == [t EXCEPT !.at = "marking", !.seen = attempts[t.row]]
      <4>1. u.row = t.row /\ u.round = t.round
        BY <2>2 DEF Task
      <4>2. QED
        BY <3>3, <4>1 DEF ReadAttempts
    <3>4. QED
      BY <1>6, <3>1, <3>2, <3>3
  <2>4. UNCHANGED <<status, nextAttempt, now, loop, round>>
    BY <1>6 DEF BeginPost, Accept, ReadAttempts
  <2>5. QED
    BY <2>1, <2>3, <2>4, TaskMoves
<1>7. ASSUME NEW w \in Workers, NEW t \in tasks[w],
             SkipInactive(w, t) \/ MarkDelivered(w, t) \/ MarkFailed(w, t)
      PROVE RoundInv'
  <2> SUFFICES ASSUME Undisturbed' PROVE RoundInv'
    BY DEF RoundInv
  <2>1. Undisturbed
    BY <1>7 DEF SkipInactive, MarkDelivered, MarkFailed, Undisturbed
  <2>2. Gone(w, t) /\ UNCHANGED <<now, loop, round>>
    BY <1>7 DEF SkipInactive, MarkDelivered, MarkFailed
  <2>3. \A r \in Rows \ {t.row} :
          status'[r] = status[r] /\ nextAttempt'[r] = nextAttempt[r]
    BY <1>7 DEF SkipInactive, MarkDelivered, MarkFailed, TypeOK
  <2>4. QED
    BY <2>1, <2>2, <2>3, TaskEnds
<1>8. ASSUME NEW w \in Workers, NEW t \in tasks[w], Raise(w, t)
      PROVE RoundInv'
  BY <1>0, <1>8 DEF Raise, RoundInv, Undisturbed
<1>9. ASSUME Tick PROVE RoundInv'
  <2>1. Due \subseteq Due'
    BY <1>9 DEF Tick, Due, TypeOK
  <2>2. QED
    BY <1>9, <2>1 DEF Tick, RoundInv, Undisturbed
<1>10. ASSUME UNCHANGED vars PROVE RoundInv'
  BY <1>10 DEF vars, RoundInv, Undisturbed, Due
<1>11. QED
  BY StepCases, <1>1, <1>2, <1>3, <1>4, <1>5, <1>6, <1>7, <1>8, <1>9, <1>10

\* With one worker and no database error, what get_due_deliveries returned is
\* still true of each row when its task runs, whatever is awaited in between
\* and however often the worker crashes.
THEOREM RoundOwnership == Spec => []RoundOwnsItsRows
<1>1. Init => RoundInv
  BY DEF Init, RoundInv
<1>2. TypeOK /\ RoundInv /\ [Next]_vars => RoundInv'
  BY RoundInvStep
<1>3. RoundInv => RoundOwnsItsRows
  BY DEF Due, RoundInv, RoundOwnsItsRows
<1>4. QED
  BY <1>1, <1>2, <1>3, TypeCorrect, PTL DEF Spec

\* With one worker and no database error, 'delivered' and 'dead' are final
\* although mark_delivered and mark_failed do not look at the status.
THEOREM SettledFinal == Spec => SettledIsFinal
<1>1. Init => RoundInv
  BY DEF Init, RoundInv
<1>2. TypeOK /\ RoundInv /\ [Next]_vars => RoundInv'
  BY RoundInvStep
<1>3. TypeOK /\ RoundInv /\ [Next]_vars =>
        [Undisturbed' => \A r \in Rows : Settled(r) => status'[r] = status[r]]_vars
  <2> SUFFICES ASSUME TypeOK, RoundInv, [Next]_vars, Undisturbed',
                      NEW r \in Rows, Settled(r)
               PROVE  status'[r] = status[r]
    OBVIOUS
  <2> USE DEF table, worker, budget, history
  <2>1. ASSUME NEW q \in Rows, Enqueue(q) PROVE status'[r] = status[r]
    BY <2>1 DEF Enqueue, Settled, TypeOK
  <2>2. ASSUME NEW w \in Workers, NEW t \in tasks[w],
               MarkDelivered(w, t) \/ MarkFailed(w, t)
        PROVE  status'[r] = status[r]
    <3>1. Undisturbed
      BY <2>2 DEF MarkDelivered, MarkFailed, Undisturbed
    <3>2. t.row # r
      BY <3>1 DEF RoundInv, Due, Settled
    <3>3. QED
      BY <2>2, <3>2 DEF MarkDelivered, MarkFailed, TypeOK
  <2>3. ASSUME UNCHANGED status PROVE status'[r] = status[r]
    BY <2>3
  <2>4. QED
    BY StepCases, <2>1, <2>2, <2>3
       DEF Register, Deactivate, Poll, EndRound, Restart, Crash, BeginPost,
           SkipInactive, Accept, ReadAttempts, Raise, Tick, vars
<1>4. QED
  BY <1>1, <1>2, <1>3, TypeCorrect, PTL DEF Spec, SettledIsFinal

-----------------------------------------------------------------------------
(* One worker, no database error: the subsystem implements AlertQueue.     *)

\* attempt_count is the number of failures: nobody writes it between a
\* mark_failed's SELECT and its UPDATE.
ExactInv ==
    Undisturbed =>
        /\ \A r \in Rows :
              /\ attempts[r] = failures[r]
              /\ status[r] = "absent" => failures[r] = 0
              /\ status[r] \in {"absent", "pending"} => failures[r] < MaxAttempts
        /\ \A w \in Workers : \A t \in tasks[w] :
              t.at = "marking" => t.seen = attempts[t.row]

SoloInv == TypeOK /\ RoundInv /\ ExactInv

\* A database error is not forgotten.
LEMMA UndisturbedBefore ==
    ASSUME TypeOK, [Next]_vars, Undisturbed'
    PROVE  Undisturbed
<1>1. faults' = faults \/ faults' = faults + 1
  BY StepCases, Zenon
     DEF Register, Deactivate, Enqueue, Poll, EndRound, Restart, Crash,
         BeginPost, SkipInactive, Accept, MarkDelivered, ReadAttempts,
         MarkFailed, Raise, Tick, vars, budget, worker, history, table
<1>2. faults \in Nat
  BY DEF TypeOK
<1>3. faults' = 0 => faults = 0
  BY <1>1, <1>2
<1> QED
  BY <1>3 DEF Undisturbed

\* Every step preserves the exact count, as long as it stays undisturbed.
LEMMA ExactInvStep ==
    ASSUME TypeOK, RoundInv, ExactInv, [Next]_vars
    PROVE  ExactInv'
<1> USE ParameterAssumption DEF table, worker, budget, history
<1> SUFFICES ASSUME Undisturbed' PROVE ExactInv'
  BY DEF ExactInv
<1>0. Undisturbed
  BY UndisturbedBefore
<1>1. ASSUME UNCHANGED <<attempts, failures, status>>,
             \A w \in Workers : \A t \in tasks'[w] :
                 t.at = "marking" => t.seen = attempts[t.row]
      PROVE ExactInv'
  BY <1>0, <1>1 DEF ExactInv
<1>2. ASSUME UNCHANGED <<attempts, failures, status>>,
             \A w \in Workers : tasks'[w] \subseteq tasks[w]
      PROVE ExactInv'
  BY <1>0, <1>1, <1>2 DEF ExactInv
<1>3. ASSUME NEW r \in Rows, Enqueue(r) PROVE ExactInv'
  <2>1. \A w \in Workers : \A t \in tasks[w] : t.row # r
    BY <1>0, <1>3 DEF RoundInv, Due, Enqueue
  <2>2. \A w \in Workers : \A t \in tasks[w] : t.row \in Rows
    BY DEF TypeOK, Task
  <2>3. attempts' = [attempts EXCEPT ![r] = 0] /\ failures' = failures
        /\ tasks' = tasks
    BY <1>3 DEF Enqueue
  <2>4. failures[r] = 0 /\ 0 < MaxAttempts
    BY <1>0, <1>3 DEF ExactInv, Enqueue
  <2>5. \A q \in Rows :
          /\ attempts'[q] = failures'[q]
          /\ status'[q] = "absent" => failures'[q] = 0
          /\ status'[q] \in {"absent", "pending"} => failures'[q] < MaxAttempts
    BY <1>0, <1>3, <2>3, <2>4 DEF ExactInv, Enqueue, TypeOK
  <2>6. \A w \in Workers : \A t \in tasks'[w] :
          t.at = "marking" => t.seen = attempts'[t.row]
    BY <1>0, <2>1, <2>2, <2>3 DEF ExactInv, TypeOK
  <2>7. QED
    BY <2>5, <2>6 DEF ExactInv
<1>4. ASSUME NEW w \in Workers, Poll(w) PROVE ExactInv'
  <2>1. PICK batch \in SUBSET Rows, n \in Rounds :
          tasks' = [tasks EXCEPT ![w] = @ \cup
                [row : batch, round : {n}, at : {"waiting"}, seen : {0}]]
    BY <1>4 DEF Poll
  <2>2. \A v \in Workers : \A t \in tasks'[v] : t \in tasks[v] \/ t.at = "waiting"
    BY <2>1 DEF TypeOK
  <2>3. \A v \in Workers : \A t \in tasks'[v] :
          t.at = "marking" => t.seen = attempts[t.row]
    BY <1>0, <2>2 DEF ExactInv
  <2>4. QED
    BY <1>1, <1>4, <2>3 DEF Poll
<1>5. ASSUME NEW w \in Workers, NEW t \in tasks[w],
             BeginPost(w, t) \/ Accept(w, t) \/ ReadAttempts(w, t)
      PROVE ExactInv'
  <2>1. t \in Task /\ t.row \in Rows
    BY DEF TypeOK, Task
  <2>2. PICK u : /\ Becomes(w, t, u)
                 /\ u.at = "marking" => u.seen = attempts[u.row]
    <3>1. CASE BeginPost(w, t)
      BY <2>1, <3>1 DEF BeginPost, Task
    <3>2. CASE Accept(w, t)
      BY <2>1, <3>2 DEF Accept, Task
    <3>3. CASE ReadAttempts(w, t)
      <4> DEFINE u == [t EXCEPT !.at = "marking", !.seen = attempts[t.row]]
      <4>1. u.row = t.row /\ u.seen = attempts[t.row]
        BY <2>1 DEF Task
      <4>2. QED
        BY <3>3, <4>1 DEF ReadAttempts
    <3>4. QED
      BY <1>5, <3>1, <3>2, <3>3
  <2>3. \A v \in Workers : \A x \in tasks'[v] : x \in tasks[v] \/ x = u
    BY <2>2 DEF Becomes, TypeOK
  <2>4. \A v \in Workers : \A x \in tasks'[v] :
          x.at = "marking" => x.seen = attempts[x.row]
    BY <1>0, <2>2, <2>3 DEF ExactInv
  <2>5. QED
    BY <1>1, <1>5, <2>4 DEF BeginPost, Accept, ReadAttempts
<1>6. ASSUME NEW w \in Workers, NEW t \in tasks[w], MarkDelivered(w, t)
      PROVE ExactInv'
  <2>1. \A q \in Rows : status'[q] = status[q] \/ status'[q] = "delivered"
    BY <1>6 DEF MarkDelivered, TypeOK
  <2>2. \A v \in Workers : tasks'[v] \subseteq tasks[v]
    BY <1>6 DEF MarkDelivered, Gone, TypeOK
  <2>3. UNCHANGED <<attempts, failures>>
    BY <1>6 DEF MarkDelivered
  <2>4. \A q \in Rows :
          /\ attempts'[q] = failures'[q]
          /\ status'[q] = "absent" => failures'[q] = 0
          /\ status'[q] \in {"absent", "pending"} => failures'[q] < MaxAttempts
    BY <1>0, <2>1, <2>3 DEF ExactInv
  <2>5. \A v \in Workers : \A x \in tasks'[v] :
          x.at = "marking" => x.seen = attempts'[x.row]
    BY <1>0, <2>2, <2>3 DEF ExactInv
  <2>6. QED
    BY <2>4, <2>5 DEF ExactInv
<1>7. ASSUME NEW w \in Workers, NEW t \in tasks[w], MarkFailed(w, t)
      PROVE ExactInv'
  <2>1. t.row \in Rows /\ t.seen = attempts[t.row] /\ t.seen \in Nat
    BY <1>0, <1>7 DEF ExactInv, MarkFailed, TypeOK, Task
  <2>2. attempts' = [attempts EXCEPT ![t.row] = t.seen + 1]
    BY <1>7 DEF MarkFailed, AttemptNumber
  <2>3. failures' = [failures EXCEPT ![t.row] = @ + 1]
    BY <1>7 DEF MarkFailed
  <2>4. \A q \in Rows : attempts'[q] = failures'[q]
    BY <1>0, <2>1, <2>2, <2>3 DEF ExactInv, TypeOK
  <2>5. \A q \in Rows \ {t.row} : status'[q] = status[q]
    BY <1>7 DEF MarkFailed, TypeOK
  <2>6. IF t.seen + 1 >= MaxAttempts THEN status'[t.row] = "dead"
                                     ELSE status'[t.row] = "pending"
    BY <1>7, <2>1 DEF MarkFailed, AttemptNumber, GivesUp, TypeOK
  <2>7. \A q \in Rows :
          /\ status'[q] = "absent" => failures'[q] = 0
          /\ status'[q] \in {"absent", "pending"} => failures'[q] < MaxAttempts
    <3> SUFFICES ASSUME NEW q \in Rows
                 PROVE  /\ status'[q] = "absent" => failures'[q] = 0
                        /\ status'[q] \in {"absent", "pending"} =>
                              failures'[q] < MaxAttempts
      OBVIOUS
    <3>1. CASE q = t.row
      <4>1. failures'[q] = t.seen + 1
        BY <2>1, <2>2, <2>4, <3>1 DEF TypeOK
      <4>2. QED
        BY <2>1, <2>6, <3>1, <4>1
    <3>2. CASE q # t.row
      BY <1>0, <2>3, <2>5, <3>2 DEF ExactInv, TypeOK
    <3>3. QED
      BY <3>1, <3>2
  <2>8. \A v \in Workers : \A x \in tasks'[v] :
          x \in tasks[v] /\ x.row \in Rows /\ x.row # t.row
    BY <1>0, <1>7 DEF MarkFailed, Gone, RoundInv, Undisturbed, TypeOK, Task
  <2>9. \A v \in Workers : \A x \in tasks'[v] :
          x.at = "marking" => x.seen = attempts'[x.row]
    BY <1>0, <2>2, <2>8 DEF ExactInv, TypeOK
  <2>10. QED
    BY <2>4, <2>7, <2>9 DEF ExactInv
<1>8. ASSUME NEW w \in Workers, Crash(w) PROVE ExactInv'
  BY <1>2, <1>8 DEF Crash, TypeOK
<1>9. ASSUME NEW w \in Workers, NEW t \in tasks[w],
             SkipInactive(w, t) \/ Raise(w, t)
      PROVE ExactInv'
  BY <1>2, <1>9 DEF SkipInactive, Raise, Gone, TypeOK
<1>10. ASSUME UNCHANGED <<attempts, failures, status, tasks>> PROVE ExactInv'
  BY <1>2, <1>10
<1>11. QED
  BY StepCases, <1>3, <1>4, <1>5, <1>6, <1>7, <1>8, <1>9, <1>10
     DEF Register, Deactivate, EndRound, Restart, Tick, vars

\* With one worker and no database error, every behaviour of registry, table
\* and worker, crashes and restarts included, is one that AlertQueue allows.
THEOREM Refinement ==
    ASSUME MaxFaults = 0, \A v, w \in Workers : v = w
    PROVE  Spec => QueueSpec
<1> USE DEF table, worker, budget, history
<1>1. Init => Queue!Init /\ RoundInv /\ ExactInv /\ AnswersAreReal
  BY ParameterAssumption
     DEF Init, Queue!Init, RoundInv, ExactInv, AnswersAreReal
<1>2. SoloInv /\ [Next]_vars => (RoundInv /\ ExactInv)'
  BY RoundInvStep, ExactInvStep DEF SoloInv
<1>3. SoloInv /\ DeliveredInv /\ [Next]_vars => [Queue!Next]_(Queue!vars)
  <2> SUFFICES ASSUME SoloInv, DeliveredInv, [Next]_vars
               PROVE  Queue!Next \/ UNCHANGED Queue!vars
    OBVIOUS
  <2> USE DEF SoloInv, DeliveredInv
  <2>0. Undisturbed
    BY ParameterAssumption DEF Undisturbed, TypeOK
  <2>1. ASSUME NEW r \in Rows, Enqueue(r) PROVE Queue!Next
    <3>1. Queue!Submit(r)
      BY <2>1 DEF Enqueue, Queue!Submit
    <3>2. QED
      BY <3>1 DEF Queue!Next
  <2>2. ASSUME NEW w \in Workers, NEW t \in tasks[w], Accept(w, t)
        PROVE Queue!Next
    <3>1. t.row \in Rows /\ status[t.row] = "pending"
      BY <2>0 DEF RoundInv, Due
    <3>2. Queue!Receive(t.row)
      BY <2>2, <3>1 DEF Accept, Queue!Receive
    <3>3. QED
      BY <3>1, <3>2 DEF Queue!Next
  <2>3. ASSUME NEW w \in Workers, NEW t \in tasks[w], MarkDelivered(w, t)
        PROVE Queue!Next
    <3>1. t.row \in Rows /\ status[t.row] = "pending"
      BY <2>0 DEF RoundInv, Due
    <3>2. t.row \in received
      BY <2>3 DEF MarkDelivered, Acknowledged, AnswersAreReal
    <3>3. Queue!Confirm(t.row)
      BY <2>3, <3>1, <3>2 DEF MarkDelivered, Queue!Confirm
    <3>4. QED
      BY <3>1, <3>3 DEF Queue!Next
  <2>4. ASSUME NEW w \in Workers, NEW t \in tasks[w], MarkFailed(w, t)
        PROVE Queue!Next
    <3>1. t.row \in Rows /\ status[t.row] = "pending"
      BY <2>0 DEF RoundInv, Due
    <3>2. t.seen = failures[t.row] /\ failures[t.row] < MaxAttempts
          /\ failures[t.row] \in Nat
      BY <2>0, <2>4, <3>1 DEF ExactInv, MarkFailed, TypeOK
    <3>3. failures' = [failures EXCEPT ![t.row] = @ + 1] /\ UNCHANGED received
      BY <2>4 DEF MarkFailed
    <3>4. CASE t.seen + 1 >= MaxAttempts
      <4>1. status' = [status EXCEPT ![t.row] = "dead"]
        BY <2>4, <3>4 DEF MarkFailed, GivesUp, AttemptNumber
      <4>2. failures[t.row] + 1 = MaxAttempts
        BY <3>2, <3>4, ParameterAssumption
      <4>3. Queue!GiveUp(t.row)
        BY <3>1, <3>3, <4>1, <4>2 DEF Queue!GiveUp
      <4>4. QED
        BY <3>1, <4>3 DEF Queue!Next
    <3>5. CASE ~(t.seen + 1 >= MaxAttempts)
      <4>1. status' = status
        BY <2>4, <3>1, <3>5 DEF MarkFailed, GivesUp, AttemptNumber, TypeOK
      <4>2. failures[t.row] + 1 < MaxAttempts
        BY <3>2, <3>5, ParameterAssumption
      <4>3. Queue!Retry(t.row)
        BY <3>1, <3>3, <4>1, <4>2 DEF Queue!Retry
      <4>4. QED
        BY <3>1, <4>3 DEF Queue!Next
    <3>6. QED
      BY <3>4, <3>5
  <2>5. ASSUME UNCHANGED <<status, received, failures>>
        PROVE UNCHANGED Queue!vars
    BY <2>5 DEF Queue!vars
  <2>6. QED
    BY StepCases, <2>1, <2>2, <2>3, <2>4, <2>5
       DEF Register, Deactivate, Poll, EndRound, Restart, Crash, BeginPost,
           SkipInactive, ReadAttempts, Raise, Tick, vars
<1>4. Init => DeliveredWasReceived
  BY DEF Init, DeliveredWasReceived
<1>5. DeliveredInv /\ [Next]_vars => (AnswersAreReal /\ DeliveredWasReceived)'
  BY DeliveredStep
<1>6. QED
  BY <1>1, <1>2, <1>3, <1>4, <1>5, TypeCorrect, PTL
     DEF Spec, QueueSpec, Queue!Spec, SoloInv, DeliveredInv

-----------------------------------------------------------------------------
(* How often a row is POSTed by one worker.                                *)

\* A task has begun its POST of the row.
InFlight(r) == \E w \in Workers : \E t \in tasks[w] : t.row = r /\ Admitted(t)

\* A POST has ended in a recorded failure, or with a crash, or it is under way,
\* or it has delivered the row.
PostsInv ==
    Undisturbed =>
        \A r \in Rows :
            /\ failures[r] <= MaxAttempts
            /\ status[r] = "delivered" => failures[r] < MaxAttempts
            /\ posts[r] <= failures[r] + crashes + 1
            /\ posts[r] = failures[r] + crashes + 1 => InFlight(r) \/ status[r] = "delivered"


\* A task that moves on stays in flight, and one that ends takes its row along.
LEMMA FlightKept ==
    ASSUME TypeOK, NEW w \in Workers, NEW t \in tasks[w], NEW r \in Rows, InFlight(r),
           \/ t.row # r /\ Gone(w, t)
           \/ ~Admitted(t) /\ Gone(w, t)
           \/ \E u : u.row = t.row /\ Admitted(u) /\ Becomes(w, t, u)
    PROVE  InFlight(r)'
<1>0. PICK v \in Workers : \E x \in tasks[v] : x.row = r /\ Admitted(x)
  BY DEF InFlight
<1>1. PICK x \in tasks[v] : x.row = r /\ Admitted(x)
  BY <1>0
<1>2. CASE x \in tasks'[v]
  BY <1>1, <1>2 DEF InFlight, Admitted
<1>3. CASE x \notin tasks'[v]
  <2>1. v = w /\ x = t
    BY <1>3 DEF Gone, Becomes, TypeOK
  <2>2. PICK u : u.row = t.row /\ Admitted(u) /\ Becomes(w, t, u)
    BY <1>1, <2>1
  <2>3. u \in tasks'[w]
    BY <2>2 DEF Becomes, TypeOK
  <2> QED
    BY <1>1, <2>1, <2>2, <2>3 DEF InFlight, Admitted
<1> QED
  BY <1>2, <1>3

\* Every step preserves the count of POSTs, as long as it stays undisturbed.
LEMMA PostsStep ==
    ASSUME TypeOK, RoundInv, ExactInv, PostsInv, [Next]_vars
    PROVE  PostsInv'
<1> USE ParameterAssumption DEF table, worker, budget, history
<1> SUFFICES ASSUME Undisturbed' PROVE PostsInv'
  BY DEF PostsInv
<1>0. Undisturbed
  BY UndisturbedBefore
<1>a. crashes \in Nat /\ posts \in [Rows -> Nat] /\ failures \in [Rows -> Nat]
  BY DEF TypeOK
<1>1. ASSUME UNCHANGED <<posts, failures, crashes>>,
             \A r \in Rows : status'[r] = "delivered" <=> status[r] = "delivered",
             \A r \in Rows : InFlight(r) => InFlight(r)'
      PROVE  PostsInv'
  BY <1>0, <1>1 DEF PostsInv
<1>2. ASSUME NEW r \in Rows, Enqueue(r) PROVE PostsInv'
  BY <1>1, <1>2 DEF Enqueue, InFlight, Admitted, TypeOK
<1>3. ASSUME NEW w \in Workers, Poll(w) PROVE PostsInv'
  <2>1. \A v \in Workers : tasks[v] \subseteq tasks'[v]
    BY <1>3 DEF Poll, TypeOK
  <2> QED
    BY <1>1, <1>3, <2>1 DEF Poll, InFlight, Admitted
<1>4. ASSUME UNCHANGED <<posts, failures, crashes, status, tasks>> PROVE PostsInv'
  BY <1>1, <1>4 DEF InFlight, Admitted
<1>5. ASSUME NEW w \in Workers, NEW t \in tasks[w], BeginPost(w, t) PROVE PostsInv'
  <2> DEFINE u == [t EXCEPT !.at = "posting"]
  <2>1. t \in Task /\ t.row \in Rows /\ ~Admitted(t) /\ u.row = t.row /\ Admitted(u)
    BY <1>5 DEF BeginPost, Permitted, Admitted, Task, TypeOK
  <2>2. status[t.row] = "pending" /\ ~InFlight(t.row)
    BY <1>0, <2>1 DEF RoundInv, Due, InFlight, Undisturbed
  <2>3. posts[t.row] <= failures[t.row] + crashes
    BY <1>0, <1>a, <2>1, <2>2 DEF PostsInv
  <2>4. Becomes(w, t, u)
    BY <1>5 DEF BeginPost
  <2>5. \A r \in Rows : InFlight(r) => InFlight(r)'
    BY <2>1, <2>4, FlightKept
  <2>6. InFlight(t.row)'
    <3>1. u \in tasks'[w]
      BY <2>4 DEF Becomes, TypeOK
    <3> QED BY <2>1, <3>1 DEF InFlight, Admitted
  <2>7. /\ posts' = [posts EXCEPT ![t.row] = @ + 1]
        /\ UNCHANGED <<failures, crashes, status>>
    BY <1>5 DEF BeginPost
  <2>8. posts'[t.row] = posts[t.row] + 1 /\ \A r \in Rows \ {t.row} : posts'[r] = posts[r]
    BY <1>a, <2>1, <2>7
  <2> HIDE DEF u
  <2> QED
    BY <1>0, <1>a, <2>1, <2>3, <2>5, <2>6, <2>7, <2>8 DEF PostsInv
<1>6. ASSUME NEW w \in Workers, NEW t \in tasks[w], SkipInactive(w, t) PROVE PostsInv'
  <2>1. Gone(w, t) /\ ~Admitted(t)
    BY <1>6 DEF SkipInactive, Permitted, Admitted
  <2>2. \A r \in Rows : InFlight(r) => InFlight(r)'
    BY <2>1, FlightKept
  <2> QED
    BY <1>1, <1>6, <2>2 DEF SkipInactive
<1>7. ASSUME NEW w \in Workers, NEW t \in tasks[w], Accept(w, t) \/ ReadAttempts(w, t)
      PROVE  PostsInv'
  <2>1. \E u : u.row = t.row /\ Admitted(u) /\ Becomes(w, t, u)
    <3>1. t \in Task
      BY DEF TypeOK
    <3>2. CASE Accept(w, t)
      <4> DEFINE u == [t EXCEPT !.at = "accepted"]
      <4>1. u.row = t.row /\ u.at = "accepted" /\ Becomes(w, t, u)
        BY <3>1, <3>2 DEF Accept, Task
      <4> QED BY <4>1 DEF Admitted
    <3>3. CASE ReadAttempts(w, t)
      <4> DEFINE u == [t EXCEPT !.at = "marking", !.seen = attempts[t.row]]
      <4>1. u.row = t.row /\ u.at = "marking" /\ Becomes(w, t, u)
        BY <3>1, <3>3 DEF ReadAttempts, Task
      <4> QED BY <4>1 DEF Admitted
    <3> QED BY <1>7, <3>2, <3>3
  <2>2. \A r \in Rows : InFlight(r) => InFlight(r)'
    BY <2>1, FlightKept
  <2> QED
    BY <1>1, <1>7, <2>2 DEF Accept, ReadAttempts
<1>8. ASSUME NEW w \in Workers, NEW t \in tasks[w], MarkDelivered(w, t) PROVE PostsInv'
  <2>1. t.row \in Rows /\ failures[t.row] < MaxAttempts
    BY <1>0 DEF RoundInv, ExactInv, Due, TypeOK, Task
  <2>2. \A r \in Rows \ {t.row} : InFlight(r) => InFlight(r)'
    BY <1>8, FlightKept DEF MarkDelivered
  <2>3. status' = [status EXCEPT ![t.row] = "delivered"]
        /\ UNCHANGED <<posts, failures, crashes>>
    BY <1>8 DEF MarkDelivered
  <2> QED
    BY <1>0, <2>1, <2>2, <2>3 DEF PostsInv, TypeOK
<1>9. ASSUME NEW w \in Workers, NEW t \in tasks[w], MarkFailed(w, t) PROVE PostsInv'
  <2>1. t.row \in Rows /\ failures[t.row] < MaxAttempts
    BY <1>0 DEF RoundInv, ExactInv, Due, TypeOK, Task
  <2>2. \A r \in Rows \ {t.row} : InFlight(r) => InFlight(r)'
    BY <1>9, FlightKept DEF MarkFailed
  <2>3. /\ failures' = [failures EXCEPT ![t.row] = @ + 1]
        /\ status'[t.row] \in {"dead", "pending"}
        /\ \A r \in Rows \ {t.row} : status'[r] = status[r]
        /\ UNCHANGED <<posts, crashes>>
    BY <1>9, <2>1 DEF MarkFailed, TypeOK
  <2>4. /\ failures'[t.row] = failures[t.row] + 1
        /\ \A r \in Rows \ {t.row} : failures'[r] = failures[r]
    BY <1>a, <2>1, <2>3
  <2>5. ASSUME NEW r \in Rows
        PROVE  /\ failures'[r] <= MaxAttempts
               /\ status'[r] = "delivered" => failures'[r] < MaxAttempts
               /\ posts'[r] <= failures'[r] + crashes' + 1
               /\ posts'[r] = failures'[r] + crashes' + 1 =>
                    InFlight(r)' \/ status'[r] = "delivered"
    <3>1. CASE r = t.row
      BY <1>0, <1>a, <2>1, <2>3, <2>4, <3>1 DEF PostsInv
    <3>2. CASE r # t.row
      BY <1>0, <2>2, <2>3, <2>4, <3>2 DEF PostsInv
    <3> QED BY <3>1, <3>2
  <2> QED
    BY <2>5 DEF PostsInv
<1>10. ASSUME NEW w \in Workers, Crash(w) PROVE PostsInv'
  <2>1. crashes' = crashes + 1 /\ UNCHANGED <<posts, failures, status>>
    BY <1>10 DEF Crash
  <2> QED
    BY <1>0, <1>a, <2>1 DEF PostsInv
<1>11. ASSUME NEW w \in Workers, NEW t \in tasks[w], Raise(w, t) PROVE PostsInv'
  <2>1. faults' = faults + 1 /\ faults = 0 /\ faults' = 0
    BY <1>0, <1>11 DEF Raise, Undisturbed
  <2> QED BY <2>1
<1> QED
  BY StepCases, <1>2, <1>3, <1>4, <1>5, <1>6, <1>7, <1>8, <1>9, <1>10, <1>11
     DEF Register, Deactivate, EndRound, Restart, Tick, vars

\* With one worker and no database error, a row is POSTed at most MAX_ATTEMPTS
\* times, plus once for each crash (PostsBounded): the price of at-least-once
\* delivery is one repetition per crash, however the rounds fell.
THEOREM PostsCorrect == Spec => []PostsBounded
<1>1. Init => RoundInv /\ ExactInv /\ PostsInv
  BY ParameterAssumption DEF Init, RoundInv, ExactInv, PostsInv
<1>2. TypeOK /\ RoundInv /\ ExactInv /\ PostsInv /\ [Next]_vars =>
        (RoundInv /\ ExactInv /\ PostsInv)'
  BY RoundInvStep, ExactInvStep, PostsStep
<1>3. TypeOK /\ RoundInv /\ ExactInv /\ PostsInv => PostsBounded
  <2> SUFFICES ASSUME TypeOK, RoundInv, ExactInv, PostsInv, Undisturbed, NEW r \in Rows
               PROVE  posts[r] <= MaxAttempts + crashes
    BY DEF PostsBounded
  <2>1. crashes \in Nat /\ posts[r] \in Nat /\ failures[r] \in Nat /\ MaxAttempts \in Nat
    BY ParameterAssumption DEF TypeOK
  <2>2. InFlight(r) => failures[r] < MaxAttempts
    BY DEF InFlight, RoundInv, ExactInv, Due
  <2> QED
    BY <2>1, <2>2 DEF PostsInv
<1> QED
  BY <1>1, <1>2, <1>3, TypeCorrect, PTL DEF Spec

-----------------------------------------------------------------------------
(* How many POSTs of a worker run in parallel.                             *)

\* The rounds of a worker that a database error has ended before their tasks.
LeftRounds(w) ==
    {t.round : t \in tasks[w]} \ (IF loop[w] = "gathering" THEN {round[w]} ELSE {})

\* Each round has its semaphore, and each left round its database error.
ParallelInv ==
    \A w \in Workers :
        /\ IsFiniteSet(tasks[w])
        /\ Cardinality(LeftRounds(w)) <= faults
        /\ \A n \in Rounds : Cardinality(Admissions(w, n)) <= MaxConcurrent

\* A finite set can be numbered within any bound on its size.
LEMMA Numbering ==
    ASSUME NEW S, IsFiniteSet(S), NEW n \in Nat, Cardinality(S) <= n
    PROVE  \E g : g \in Injection(S, 1..n)
<1>1. Cardinality(S) \in Nat /\ ExistsBijection(1..Cardinality(S), S)
  BY FS_CardinalityType
<1>2. PICK f : f \in Bijection(1..Cardinality(S), S)
  BY <1>1 DEF ExistsBijection
<1>3. /\ f \in [1..Cardinality(S) -> S]
      /\ \A s \in S : \E i \in 1..Cardinality(S) : f[i] = s
  BY <1>2 DEF Bijection, Surjection
<1> DEFINE g == [s \in S |-> CHOOSE i \in 1..Cardinality(S) : f[i] = s]
<1>4. \A s \in S : g[s] \in 1..Cardinality(S) /\ f[g[s]] = s
  BY <1>3
<1>5. g \in [S -> 1..n]
  BY <1>1, <1>4
<1>6. \A s, t \in S : g[s] = g[t] => s = t
  BY <1>4
<1> QED
  BY <1>5, <1>6 DEF Injection, IsInjective

\* A set whose parts are bounded is bounded by their number.
LEMMA BoundedParts ==
    ASSUME NEW S, NEW R, IsFiniteSet(S), IsFiniteSet(R), NEW n \in Nat, NEW f \in [S -> R],
           \A r \in R : Cardinality({s \in S : f[s] = r}) <= n
    PROVE  Cardinality(S) <= Cardinality(R) * n
<1> DEFINE part(r) == {s \in S : f[s] = r}
           g == [r \in R |-> CHOOSE g : g \in Injection(part(r), 1..n)]
           h == [s \in S |-> <<f[s], g[f[s]][s]>>]
<1>1. \A r \in R : g[r] \in Injection(part(r), 1..n)
  <2> TAKE r \in R
  <2>1. IsFiniteSet(part(r))
    BY FS_Subset
  <2>2. \E e : e \in Injection(part(r), 1..n)
    BY <2>1, Numbering
  <2> QED BY <2>2
<1>2. \A s \in S : f[s] \in R /\ g[f[s]] \in [part(f[s]) -> 1..n] /\ s \in part(f[s])
  BY <1>1 DEF Injection
<1>3. \A r \in R : \A s, t \in part(r) : g[r][s] = g[r][t] => s = t
  BY <1>1 DEF Injection, IsInjective
<1> HIDE DEF g
<1>4. h \in [S -> R \X (1..n)]
  BY <1>2
<1>5. \A s, t \in S : h[s] = h[t] => s = t
  BY <1>2, <1>3
<1>6. h \in Injection(S, R \X (1..n))
  BY <1>4, <1>5 DEF Injection, IsInjective
<1>7. IsFiniteSet(1..n) /\ Cardinality(1..n) = n
  BY FS_Interval
<1>8. IsFiniteSet(R \X (1..n)) /\ Cardinality(R \X (1..n)) = Cardinality(R) * n
  BY <1>7, FS_Product
<1> QED
  BY <1>6, <1>8, FS_Injection

\* A worker's part of the invariant depends on its tasks, loop and round alone.
WorkerBounded(w) ==
    /\ IsFiniteSet(tasks[w])
    /\ Cardinality(LeftRounds(w)) <= faults
    /\ \A n \in Rounds : Cardinality(Admissions(w, n)) <= MaxConcurrent

LEMMA LeftRoundsFinite ==
    ASSUME NEW w \in Workers, IsFiniteSet(tasks[w])
    PROVE  /\ IsFiniteSet({t.round : t \in tasks[w]})
           /\ IsFiniteSet(LeftRounds(w)) /\ Cardinality(LeftRounds(w)) \in Nat
           /\ \A n : /\ IsFiniteSet(Admissions(w, n))
                     /\ Cardinality(Admissions(w, n)) \in Nat
<1> DEFINE rounds == {t.round : t \in tasks[w]}
           f == [t \in tasks[w] |-> t.round]
<1>1. f \in Surjection(tasks[w], rounds)
  BY DEF Surjection
<1>2. IsFiniteSet(rounds)
  BY <1>1, FS_Surjection
<1>3. IsFiniteSet(LeftRounds(w))
  BY <1>2, FS_Subset DEF LeftRounds
<1>4. \A n : IsFiniteSet(Admissions(w, n))
  BY FS_Subset DEF Admissions
<1> QED
  BY <1>2, <1>3, <1>4, FS_CardinalityType

\* Fewer tasks, rounds left and admissions: the bounds stay.
LEMMA FewerBounded ==
    ASSUME TypeOK, NEW w \in Workers, WorkerBounded(w), IsFiniteSet(tasks'[w]),
           faults' >= faults, faults' \in Nat,
           LeftRounds(w)' \subseteq LeftRounds(w),
           \A n \in Rounds : Admissions(w, n)' \subseteq Admissions(w, n)
    PROVE  WorkerBounded(w)'
<1>1. /\ IsFiniteSet(LeftRounds(w)) /\ Cardinality(LeftRounds(w)) \in Nat
      /\ \A n : IsFiniteSet(Admissions(w, n)) /\ Cardinality(Admissions(w, n)) \in Nat
  BY LeftRoundsFinite DEF WorkerBounded
<1>2. Cardinality(LeftRounds(w)') \in Nat /\ Cardinality(LeftRounds(w)') <= Cardinality(LeftRounds(w))
  BY <1>1, FS_Subset, FS_CardinalityType
<1>3. ASSUME NEW n \in Rounds PROVE Cardinality(Admissions(w, n)') <= MaxConcurrent
  <2>1. /\ Cardinality(Admissions(w, n)') \in Nat
        /\ Cardinality(Admissions(w, n)') <= Cardinality(Admissions(w, n))
    BY <1>1, FS_Subset, FS_CardinalityType
  <2> QED
    BY <1>1, <2>1, ParameterAssumption DEF WorkerBounded
<1>4. faults \in Nat
  BY DEF TypeOK
<1> QED
  BY <1>1, <1>2, <1>3, <1>4 DEF WorkerBounded

\* One element more adds at most one to the size.
LEMMA OneMore ==
    ASSUME NEW S, NEW x, IsFiniteSet(S)
    PROVE  /\ IsFiniteSet(S \cup {x}) /\ Cardinality(S) \in Nat
           /\ Cardinality(S \cup {x}) \in Nat
           /\ Cardinality(S \cup {x}) <= Cardinality(S) + 1
<1>1. IsFiniteSet(S \cup {x}) /\ Cardinality(S) \in Nat
      /\ Cardinality(S \cup {x}) = IF x \in S THEN Cardinality(S) ELSE Cardinality(S) + 1
  BY FS_AddElement, FS_CardinalityType
<1>2. Cardinality(S \cup {x}) \in Nat
  BY <1>1
<1> QED
  BY <1>1, <1>2

\* A task that moves on, admitted before or taking a permit.
LEMMA MoverBounded ==
    ASSUME TypeOK, NEW w \in Workers, NEW t \in tasks[w], NEW u, WorkerBounded(w),
           u.round = t.round, Becomes(w, t, u), UNCHANGED <<faults, loop, round>>,
           Admitted(t) \/ HasPermit(w, t)
    PROVE  WorkerBounded(w)'
<1>1. tasks'[w] = (tasks[w] \ {t}) \cup {u}
  BY DEF Becomes, TypeOK
<1>2. IsFiniteSet(tasks'[w])
  <2>1. IsFiniteSet(tasks[w] \ {t})
    BY FS_RemoveElement DEF WorkerBounded
  <2>2. IsFiniteSet((tasks[w] \ {t}) \cup {u})
    BY <2>1, OneMore
  <2> QED BY <1>1, <2>2
<1>3. LeftRounds(w)' \subseteq LeftRounds(w)
  BY <1>1 DEF LeftRounds
<1>4. ASSUME NEW n \in Rounds PROVE Cardinality(Admissions(w, n)') <= MaxConcurrent
  <2>0. IsFiniteSet(Admissions(w, n)) /\ Cardinality(Admissions(w, n)) \in Nat
        /\ Cardinality(Admissions(w, n)) <= MaxConcurrent /\ MaxConcurrent \in Nat
    BY LeftRoundsFinite, ParameterAssumption DEF WorkerBounded
  <2>1. CASE n # t.round
    <3>1. Admissions(w, n)' \subseteq Admissions(w, n)
      BY <1>1, <2>1 DEF Admissions, Admitted
    <3> QED BY <2>0, <3>1, FS_Subset, FS_CardinalityType
  <2>2. CASE n = t.round /\ Admitted(t)
    <3> DEFINE others == Admissions(w, n) \ {t}
    <3>1. t \in Admissions(w, n)
      BY <2>2 DEF Admissions
    <3>2. IsFiniteSet(others) /\ Cardinality(others) = Cardinality(Admissions(w, n)) - 1
      BY <2>0, <3>1, FS_RemoveElement
    <3>3. IsFiniteSet(others \cup {u}) /\ Cardinality(others \cup {u}) <= Cardinality(others) + 1
      BY <3>2, OneMore
    <3>4. Admissions(w, n)' \subseteq others \cup {u}
      BY <1>1 DEF Admissions, Admitted
    <3>5. Cardinality(Admissions(w, n)') <= Cardinality(others \cup {u})
          /\ Cardinality(Admissions(w, n)') \in Nat /\ Cardinality(others \cup {u}) \in Nat
      BY <3>3, <3>4, FS_Subset, FS_CardinalityType
    <3> HIDE DEF others
    <3> QED BY <2>0, <3>2, <3>3, <3>5
  <2>3. CASE n = t.round /\ HasPermit(w, t)
    <3>1. Cardinality(Admissions(w, n)) < MaxConcurrent
      BY <2>3 DEF HasPermit
    <3>2. Admissions(w, n)' \subseteq Admissions(w, n) \cup {u}
      BY <1>1 DEF Admissions, Admitted
    <3>3. IsFiniteSet(Admissions(w, n) \cup {u})
          /\ Cardinality(Admissions(w, n) \cup {u}) <= Cardinality(Admissions(w, n)) + 1
      BY <2>0, OneMore
    <3>4. Cardinality(Admissions(w, n)') <= Cardinality(Admissions(w, n) \cup {u})
          /\ Cardinality(Admissions(w, n)') \in Nat
          /\ Cardinality(Admissions(w, n) \cup {u}) \in Nat
      BY <3>2, <3>3, FS_Subset, FS_CardinalityType
    <3> QED BY <2>0, <3>1, <3>3, <3>4
  <2> QED BY <2>1, <2>2, <2>3
<1>5. Cardinality(LeftRounds(w)') <= faults'
  <2>1. IsFiniteSet(LeftRounds(w)) /\ Cardinality(LeftRounds(w)) \in Nat
    BY LeftRoundsFinite DEF WorkerBounded
  <2>2. Cardinality(LeftRounds(w)') <= Cardinality(LeftRounds(w))
        /\ Cardinality(LeftRounds(w)') \in Nat
    BY <1>3, <2>1, FS_Subset, FS_CardinalityType
  <2> QED BY <2>1, <2>2 DEF WorkerBounded, TypeOK
<1> QED
  BY <1>2, <1>4, <1>5 DEF WorkerBounded

\* A worker's step keeps its own bounds.
LEMMA WorkerStep ==
    ASSUME TypeOK, TypeOK', NEW w \in Workers, WorkerBounded(w),
           \/ Poll(w) \/ EndRound(w) \/ Crash(w) \/ Restart(w)
           \/ \E t \in tasks[w] : Step(w, t)
    PROVE  WorkerBounded(w)'
<1> USE DEF table, worker, budget, history
<1>0. faults \in Nat /\ faults' \in Nat /\ IsFiniteSet(tasks[w])
  BY DEF TypeOK, WorkerBounded
<1>1. CASE Poll(w)
  <2>1. PICK batch \in SUBSET Rows, n \in Rounds :
          /\ IsDueBatch(batch)
          /\ tasks' = [tasks EXCEPT ![w] = @ \cup
                [row : batch, round : {n}, at : {"waiting"}, seen : {0}]]
          /\ round' = [round EXCEPT ![w] = n]
          /\ loop' = [loop EXCEPT ![w] = "gathering"]
    BY <1>1 DEF Poll
  <2> DEFINE new == [row : batch, round : {n}, at : {"waiting"}, seen : {0}]
  <2>2. tasks'[w] = tasks[w] \cup new /\ round'[w] = n /\ loop'[w] = "gathering"
    BY <2>1 DEF TypeOK
  <2>3. \A t \in new : t.round = n /\ t.at = "waiting"
    OBVIOUS
  <2>4. IsFiniteSet(new)
    <3> DEFINE f == [r \in batch |-> [row |-> r, round |-> n, at |-> "waiting", seen |-> 0]]
    <3>1. f \in Surjection(batch, new)
      BY DEF Surjection
    <3> QED BY <2>1, <3>1, FS_Surjection DEF IsDueBatch
  <2>5. IsFiniteSet(tasks'[w])
    <3>1. IsFiniteSet(tasks[w] \cup new)
      BY <1>0, <2>4, FS_Union
    <3> QED BY <2>2, <3>1
  <2> HIDE DEF new
  <2>6. LeftRounds(w)' \subseteq LeftRounds(w)
    BY <1>1, <2>2, <2>3 DEF LeftRounds, Poll
  <2>7. \A m \in Rounds : Admissions(w, m)' \subseteq Admissions(w, m)
    BY <2>2, <2>3 DEF Admissions, Admitted
  <2>8. faults' = faults
    BY <1>1 DEF Poll
  <2> QED
    BY <1>0, <2>5, <2>6, <2>7, <2>8, FewerBounded
<1>2. CASE EndRound(w) \/ Restart(w)
  <2>1. UNCHANGED <<tasks, round, faults>> /\ loop'[w] = "sleeping"
    BY <1>2 DEF EndRound, Restart, TypeOK
  <2>2. LeftRounds(w)' \subseteq LeftRounds(w)
    BY <1>2, <2>1 DEF LeftRounds, EndRound, Restart
  <2>3. \A m \in Rounds : Admissions(w, m)' \subseteq Admissions(w, m)
    BY <2>1 DEF Admissions, Admitted
  <2> QED
    BY <1>0, <2>1, <2>2, <2>3, FewerBounded
<1>3. CASE Crash(w)
  <2>1. tasks'[w] = {} /\ faults' = faults
    BY <1>3 DEF Crash, TypeOK
  <2>2. LeftRounds(w)' \subseteq LeftRounds(w)
    BY <2>1 DEF LeftRounds
  <2>3. \A m \in Rounds : Admissions(w, m)' \subseteq Admissions(w, m)
    BY <2>1 DEF Admissions
  <2>4. IsFiniteSet(tasks'[w])
    BY <2>1, FS_EmptySet
  <2>5. faults' >= faults
    BY <1>0, <2>1
  <2> QED
    BY <1>0, <2>2, <2>3, <2>4, <2>5, FewerBounded
<1>4. ASSUME NEW t \in tasks[w], BeginPost(w, t) PROVE WorkerBounded(w)'
  <2> DEFINE u == [t EXCEPT !.at = "posting"]
  <2>1. u.round = t.round
    BY DEF Task, TypeOK
  <2> HIDE DEF u
  <2>2. Becomes(w, t, u) /\ HasPermit(w, t) /\ UNCHANGED <<faults, loop, round>>
    BY <1>4 DEF BeginPost, Permitted, u
  <2> QED BY <2>1, <2>2, MoverBounded
<1>5. ASSUME NEW t \in tasks[w], Accept(w, t) PROVE WorkerBounded(w)'
  <2> DEFINE u == [t EXCEPT !.at = "accepted"]
  <2>1. u.round = t.round /\ Admitted(t)
    BY <1>5 DEF Task, TypeOK, Accept, Admitted
  <2> HIDE DEF u
  <2>2. Becomes(w, t, u) /\ UNCHANGED <<faults, loop, round>>
    BY <1>5 DEF Accept, u
  <2> QED BY <2>1, <2>2, MoverBounded
<1>6. ASSUME NEW t \in tasks[w], ReadAttempts(w, t) PROVE WorkerBounded(w)'
  <2> DEFINE u == [t EXCEPT !.at = "marking", !.seen = attempts[t.row]]
  <2>1. u.round = t.round /\ Admitted(t)
    BY <1>6 DEF Task, TypeOK, ReadAttempts, Admitted
  <2> HIDE DEF u
  <2>2. Becomes(w, t, u) /\ UNCHANGED <<faults, loop, round>>
    BY <1>6 DEF ReadAttempts, u
  <2> QED BY <2>1, <2>2, MoverBounded
\* A task that ends, whatever for.
<1>7. ASSUME NEW t \in tasks[w], Gone(w, t)
      PROVE  /\ IsFiniteSet(tasks'[w]) /\ tasks'[w] \subseteq tasks[w]
             /\ \A m \in Rounds : Admissions(w, m)' \subseteq Admissions(w, m)
  <2>1. tasks'[w] = tasks[w] \ {t}
    BY <1>7 DEF Gone, TypeOK
  <2> QED BY <1>0, <2>1, FS_RemoveElement DEF Admissions, Admitted
<1>8. ASSUME NEW t \in tasks[w], SkipInactive(w, t) \/ MarkDelivered(w, t) \/ MarkFailed(w, t)
      PROVE  WorkerBounded(w)'
  <2>1. Gone(w, t) /\ UNCHANGED <<faults, loop, round>>
    BY <1>8 DEF SkipInactive, MarkDelivered, MarkFailed
  <2>2. LeftRounds(w)' \subseteq LeftRounds(w)
    BY <1>7, <2>1 DEF LeftRounds
  <2> QED
    BY <1>0, <1>7, <2>1, <2>2, FewerBounded
<1>9. ASSUME NEW t \in tasks[w], Raise(w, t) PROVE WorkerBounded(w)'
  <2>1. Gone(w, t) /\ faults' = faults + 1 /\ round' = round
    BY <1>9 DEF Raise
  <2>2. LeftRounds(w)' \subseteq LeftRounds(w) \cup {round[w]}
    BY <1>7, <2>1 DEF LeftRounds
  <2>3. /\ IsFiniteSet(LeftRounds(w)) /\ Cardinality(LeftRounds(w)) \in Nat
        /\ Cardinality(LeftRounds(w)) <= faults
    BY LeftRoundsFinite DEF WorkerBounded
  <2>4. /\ IsFiniteSet(LeftRounds(w) \cup {round[w]})
        /\ Cardinality(LeftRounds(w) \cup {round[w]}) <= Cardinality(LeftRounds(w)) + 1
    BY <2>3, FS_AddElement
  <2>5. /\ Cardinality(LeftRounds(w)') <= Cardinality(LeftRounds(w) \cup {round[w]})
        /\ Cardinality(LeftRounds(w)') \in Nat
        /\ Cardinality(LeftRounds(w) \cup {round[w]}) \in Nat
    BY <2>2, <2>4, FS_Subset, FS_CardinalityType
  <2>6. Cardinality(LeftRounds(w)') <= faults'
    BY <1>0, <2>1, <2>3, <2>4, <2>5
  <2>7. ASSUME NEW m \in Rounds PROVE Cardinality(Admissions(w, m)') <= MaxConcurrent
    <3>1. IsFiniteSet(Admissions(w, m)) /\ Cardinality(Admissions(w, m)) \in Nat
      BY LeftRoundsFinite, <1>0
    <3>2. /\ Cardinality(Admissions(w, m)') <= Cardinality(Admissions(w, m))
          /\ Cardinality(Admissions(w, m)') \in Nat
      BY <1>7, <2>1, <3>1, FS_Subset, FS_CardinalityType
    <3> QED
      BY <3>1, <3>2, ParameterAssumption DEF WorkerBounded
  <2> QED
    BY <1>7, <2>1, <2>6, <2>7 DEF WorkerBounded
<1> QED
  BY <1>1, <1>2, <1>3, <1>4, <1>5, <1>6, <1>8, <1>9 DEF Step

\* Every step keeps the bounds of every worker: a step of one leaves the others
\* alone.
LEMMA ParallelStep ==
    ASSUME TypeOK, TypeOK', ParallelInv, [Next]_vars
    PROVE  ParallelInv'
<1> USE DEF table, worker, budget, history
<1>0. ParallelInv <=> \A v \in Workers : WorkerBounded(v)
  BY DEF ParallelInv, WorkerBounded
<1>1. ParallelInv' <=> \A v \in Workers : WorkerBounded(v)'
  BY DEF ParallelInv, WorkerBounded
<1>2. ASSUME NEW v \in Workers, faults' \in {faults, faults + 1},
             tasks'[v] = tasks[v], loop'[v] = loop[v], round'[v] = round[v]
      PROVE  WorkerBounded(v)'
  <2>1. WorkerBounded(v) /\ faults \in Nat /\ faults' \in Nat /\ faults' >= faults
    BY <1>0, <1>2 DEF TypeOK
  <2>2. LeftRounds(v)' = LeftRounds(v) /\ \A n \in Rounds : Admissions(v, n)' = Admissions(v, n)
    BY <1>2 DEF LeftRounds, Admissions, Admitted
  <2>3. IsFiniteSet(tasks'[v])
    BY <1>2, <2>1 DEF WorkerBounded
  <2> QED BY <2>1, <2>2, <2>3, FewerBounded
<1>3. ASSUME NEW w \in Workers,
             \/ Poll(w) \/ EndRound(w) \/ Crash(w) \/ Restart(w)
             \/ \E t \in tasks[w] : Step(w, t)
      PROVE  ParallelInv'
  <2>1. WorkerBounded(w)'
    BY <1>0, <1>3, WorkerStep
  <2>2. /\ faults' \in {faults, faults + 1}
        /\ \A v \in Workers \ {w} :
             tasks'[v] = tasks[v] /\ loop'[v] = loop[v] /\ round'[v] = round[v]
    <3>1. CASE Poll(w) \/ EndRound(w) \/ Crash(w) \/ Restart(w)
      BY <3>1 DEF Poll, EndRound, Crash, Restart, TypeOK
    <3>2. ASSUME NEW t \in tasks[w], Step(w, t)
          PROVE  /\ faults' \in {faults, faults + 1} /\ round' = round
                 /\ \A v \in Workers \ {w} : tasks'[v] = tasks[v] /\ loop'[v] = loop[v]
      <4>1. faults' \in {faults, faults + 1} /\ round' = round
        BY <3>2 DEF Step, BeginPost, SkipInactive, Accept, MarkDelivered, ReadAttempts,
                    MarkFailed, Raise
      <4>2. \A v \in Workers \ {w} : tasks'[v] = tasks[v]
        BY <3>2 DEF Step, BeginPost, SkipInactive, Accept, MarkDelivered, ReadAttempts,
                    MarkFailed, Raise, Becomes, Gone, TypeOK
      <4>3. \A v \in Workers \ {w} : loop'[v] = loop[v]
        BY <3>2 DEF Step, BeginPost, SkipInactive, Accept, MarkDelivered, ReadAttempts,
                    MarkFailed, Raise, TypeOK
      <4> QED BY <4>1, <4>2, <4>3
    <3> QED BY <1>3, <3>1, <3>2
  <2>3. \A v \in Workers \ {w} : WorkerBounded(v)'
    BY <1>2, <2>2
  <2> QED
    BY <1>1, <2>1, <2>3
<1>4. ASSUME UNCHANGED <<tasks, loop, round, faults>> PROVE ParallelInv'
  BY <1>1, <1>2, <1>4
<1> QED
  BY <1>3, <1>4 DEF Next, Register, Deactivate, Enqueue, Tick, vars

\* However many rounds database errors have abandoned with live tasks: a worker
\* has at most MAX_CONCURRENT POSTs under way for each of them and for the round
\* it awaits (ParallelBounded).
THEOREM ParallelCorrect == Spec => []ParallelBounded
<1>1. Init => ParallelInv
  <2> SUFFICES ASSUME Init, NEW w \in Workers PROVE WorkerBounded(w)
    BY DEF ParallelInv, WorkerBounded
  <2>1. tasks[w] = {} /\ LeftRounds(w) = {} /\ faults = 0
    BY DEF Init, LeftRounds
  <2>2. \A n \in Rounds : Admissions(w, n) = {}
    BY <2>1 DEF Admissions
  <2> QED
    BY <2>1, <2>2, FS_EmptySet, ParameterAssumption DEF WorkerBounded
<1>2. TypeOK /\ ParallelInv => ParallelBounded
  <2> SUFFICES ASSUME TypeOK, ParallelInv, NEW w \in Workers
               PROVE  Cardinality({t \in tasks[w] : Admitted(t)}) <= MaxConcurrent * (1 + faults)
    BY DEF ParallelBounded
  <2> DEFINE admitted == {t \in tasks[w] : Admitted(t)}
             rounds == {t.round : t \in tasks[w]}
             f == [t \in admitted |-> t.round]
  <2>1. WorkerBounded(w) /\ faults \in Nat /\ MaxConcurrent \in Nat
    BY ParameterAssumption DEF ParallelInv, WorkerBounded, TypeOK
  <2>2. IsFiniteSet(admitted) /\ Cardinality(admitted) \in Nat
    BY <2>1, FS_Subset, FS_CardinalityType DEF WorkerBounded
  <2>3. /\ IsFiniteSet(rounds) /\ IsFiniteSet(LeftRounds(w))
        /\ Cardinality(LeftRounds(w)) \in Nat /\ Cardinality(LeftRounds(w)) <= faults
    BY <2>1, LeftRoundsFinite DEF WorkerBounded
  <2>4. Cardinality(rounds) \in Nat /\ Cardinality(rounds) <= 1 + faults
    <3>1. rounds \subseteq LeftRounds(w) \cup {round[w]}
      BY DEF LeftRounds
    <3>2. /\ IsFiniteSet(LeftRounds(w) \cup {round[w]})
          /\ Cardinality(LeftRounds(w) \cup {round[w]}) <= Cardinality(LeftRounds(w)) + 1
      BY <2>3, FS_AddElement
    <3>3. /\ Cardinality(rounds) <= Cardinality(LeftRounds(w) \cup {round[w]})
          /\ Cardinality(rounds) \in Nat /\ Cardinality(LeftRounds(w) \cup {round[w]}) \in Nat
      BY <3>1, <3>2, FS_Subset, FS_CardinalityType
    <3> HIDE DEF rounds
    <3> QED BY <2>1, <2>3, <3>2, <3>3
  <2>5. \A n \in rounds : Cardinality({t \in admitted : f[t] = n}) <= MaxConcurrent
    <3> TAKE n \in rounds
    <3>1. n \in Rounds
      BY DEF TypeOK, Task
    <3>2. {t \in admitted : f[t] = n} = Admissions(w, n)
      BY DEF Admissions
    <3> QED BY <2>1, <3>1, <3>2 DEF WorkerBounded
  <2>6. f \in [admitted -> rounds]
    OBVIOUS
  <2> HIDE DEF f, admitted, rounds
  <2>7. Cardinality(admitted) <= Cardinality(rounds) * MaxConcurrent
    BY <2>1, <2>2, <2>3, <2>5, <2>6, BoundedParts
  <2>8. Cardinality(rounds) * MaxConcurrent <= MaxConcurrent * (1 + faults)
    BY <2>1, <2>4
  <2>9. Cardinality(admitted) <= MaxConcurrent * (1 + faults)
    BY <2>1, <2>2, <2>4, <2>7, <2>8
  <2> QED BY <2>9 DEF admitted
<1> QED
  BY <1>1, <1>2, ParallelStep, TypeCorrect, PTL DEF Spec
=============================================================================
