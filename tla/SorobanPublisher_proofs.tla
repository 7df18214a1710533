----------------------- MODULE SorobanPublisher_proofs -----------------------
(***************************************************************************)
(* Proofs about SorobanPublisher, for any number of scores and any         *)
(* threshold, window, reset time, clock and fault bound: type correctness, *)
(* the bound the circuit breaker puts on the failures of a window, that a  *)
(* row 'submitted' is about an executed transaction, that the breaker      *)
(* never resets by cooling down when its reset time is no shorter than its *)
(* window, and how often a score is executed and audited.                  *)
(***************************************************************************)
EXTENDS SorobanPublisher, FiniteSetTheorems, TLAPS

USE PublisherAssumption DEF PublisherAssumption, ErrorKind, Control, Submitting, AuditStatus

\* save_submission for a score appends one row, or raises and counts as a fault.
LEMMA SavedType ==
    ASSUME TypeOK, NEW s \in Scores, NEW outcome \in AuditStatus,
           (Saved(s, outcome) /\ UNCHANGED faults) \/ SaveRaises
    PROVE  /\ audit' \in [Scores -> Seq(AuditStatus)]
           /\ faults' \in 0..MaxFaults
<1>1. faults \in 0..MaxFaults /\ audit \in [Scores -> Seq(AuditStatus)]
  BY DEF TypeOK
<1>2. CASE Saved(s, outcome) /\ UNCHANGED faults
  <2>1. Append(audit[s], outcome) \in Seq(AuditStatus)
    BY <1>1
  <2> QED
    BY <1>1, <1>2, <2>1 DEF Saved
<1>3. CASE SaveRaises
  BY <1>1, <1>3 DEF SaveRaises
<1> QED
  BY <1>2, <1>3

\* TypeOK: publisher, audit table and network stay within their types; in
\* particular no score is submitted a third time.
LEMMA TypeStep == TypeOK /\ [Next]_vars => TypeOK'
<1> SUFFICES ASSUME TypeOK, [Next]_vars PROVE TypeOK'
  OBVIOUS
<1> USE DEF TypeOK, batch, submission, network, record, history
<1>1. CASE NewPublisher
  BY <1>1 DEF NewPublisher
<1>2. CASE StartBatch
  BY <1>2 DEF StartBatch, Fresh
<1>3. CASE EndBatch
  BY <1>3 DEF EndBatch
<1>4. ASSUME NEW s \in remaining, RefuseOpen(s) PROVE TypeOK'
  <2>1. s \in Scores /\ "skipped" \in AuditStatus
    BY DEF TypeOK
  <2>2. audit' \in [Scores -> Seq(AuditStatus)] /\ faults' \in 0..MaxFaults
    BY <1>4, <2>1, SavedType DEF RefuseOpen
  <2> HIDE DEF AuditStatus
  <2> QED
    BY <1>4, <2>1, <2>2 DEF RefuseOpen, InWindow, Taken
<1>5. ASSUME NEW s \in remaining, SkipDryRun(s) PROVE TypeOK'
  <2>1. s \in Scores /\ "skipped" \in AuditStatus
    BY DEF TypeOK
  <2>2. audit' \in [Scores -> Seq(AuditStatus)] /\ faults' \in 0..MaxFaults
    BY <1>5, <2>1, SavedType DEF SkipDryRun
  <2> HIDE DEF AuditStatus
  <2> QED
    BY <1>5, <2>1, <2>2 DEF SkipDryRun, PassCircuit, InWindow, Taken
<1>6. ASSUME NEW s \in remaining, BeginSubmission(s) PROVE TypeOK'
  BY <1>6 DEF BeginSubmission, PassCircuit, InWindow, Taken
<1>7. CASE Load
  BY <1>7 DEF Load
<1>8. CASE Send
  BY <1>8 DEF Send, Transaction
<1>9. ASSUME NEW kind \in Errors, SendFails(kind) PROVE TypeOK'
  BY <1>9 DEF SendFails, Fails
<1>10. ASSUME NEW kind \in Errors, SendUncertain(kind) PROVE TypeOK'
  BY <1>10 DEF SendUncertain, Fails, Unresolved, Transaction
<1>11. ASSUME NEW kind \in Errors, PollFails(kind) PROVE TypeOK'
  BY <1>11 DEF PollFails, Fails, Unresolved
<1>12. CASE PollSucceeds
  <2>1. current \in Scores /\ "submitted" \in AuditStatus /\ "failed" \in AuditStatus
    BY <1>12 DEF PollSucceeds
  <2>2. CASE Closed("submitted")
    <3>1. audit' \in [Scores -> Seq(AuditStatus)] /\ faults' \in 0..MaxFaults
      BY <2>1, <2>2, SavedType DEF Closed
    <3> HIDE DEF AuditStatus
    <3> QED
      BY <1>12, <2>2, <3>1 DEF PollSucceeds, Closed, Over
  <2>3. CASE faults < MaxFaults /\ faults' = faults + 1 /\ Saved(current, "failed") /\ Over
    <3>1. Append(audit[current], "failed") \in Seq(AuditStatus)
      BY <2>1
    <3>2. audit' \in [Scores -> Seq(AuditStatus)]
      BY <2>1, <2>3, <3>1 DEF Saved
    <3>3. faults' \in 0..MaxFaults
      BY <2>3
    <3> HIDE DEF AuditStatus
    <3> QED
      BY <1>12, <2>3, <3>2, <3>3 DEF PollSucceeds, Over
  <2> QED
    BY <1>12, <2>2, <2>3 DEF PollSucceeds
<1>13. CASE Retry
  BY <1>13 DEF Retry, MayRetry
<1>14. CASE GiveUp
  <2>1. current \in Scores /\ "failed" \in AuditStatus
    BY <1>14 DEF GiveUp
  <2>2. audit' \in [Scores -> Seq(AuditStatus)] /\ faults' \in 0..MaxFaults
    BY <1>14, <2>1, SavedType DEF GiveUp, Closed
  <2> HIDE DEF AuditStatus
  <2> QED
    BY <1>14, <2>1, <2>2 DEF GiveUp, Closed, Over
<1>15. ASSUME NEW tx \in pool, Execute(tx) PROVE TypeOK'
  BY <1>15 DEF Execute, Transaction, Executed
<1>16. CASE Kill
  <2>1. faults' \in 0..MaxFaults
    BY <1>16 DEF Kill
  <2>2. /\ pc' = "idle" /\ sequence' = 0 /\ attempt' = 1
        /\ error' = "none" /\ dryRun' = FALSE /\ failures' = {}
        /\ remaining' = {} /\ current' = NoScore
    BY <1>16 DEF Kill
  <2>3. UNCHANGED <<now, network, audit, history>>
    BY <1>16 DEF Kill
  <2> HIDE DEF AuditStatus
  <2>4. pc' \in Control /\ pc' \notin Submitting /\ pc' \notin {"send", "poll"}
    BY <2>2
  <2>5. dryRun' \in BOOLEAN /\ remaining' \subseteq Scores /\ current' \in Scores \cup {NoScore}
    BY <2>2
  <2>6. failures' \subseteq [score : Scores, at : 0..MaxTime]
    BY <2>2
  <2>7. attempt' \in 1..2 /\ error' \in ErrorKind \cup {"none"} /\ sequence' \in Nat
    BY <2>2
  <2> QED
    BY <2>1, <2>3, <2>4, <2>5, <2>6, <2>7
<1>17. CASE Tick
  BY <1>17 DEF Tick
<1>18. CASE UNCHANGED vars
  BY <1>18 DEF vars
<1> QED
  BY <1>1, <1>2, <1>3, <1>4, <1>5, <1>6, <1>7, <1>8, <1>9, <1>10, <1>11, <1>12,
     <1>13, <1>14, <1>15, <1>16, <1>17, <1>18 DEF Next, Publisher

\* Type correctness of the publisher (TypeOK).
THEOREM PublisherTypeCorrect == Spec => []TypeOK
<1>1. Init => TypeOK
  <2> SUFFICES ASSUME Init PROVE TypeOK
    OBVIOUS
  <2>1. audit \in [Scores -> Seq(AuditStatus)] /\ ledger \in Seq(Executed)
    BY DEF Init
  <2>2. now \in 0..MaxTime /\ faults \in 0..MaxFaults /\ sends \in [Scores -> Nat]
    BY DEF Init
  <2> HIDE DEF AuditStatus
  <2>3. pc \in Control /\ pc \notin Submitting /\ pc \notin {"send", "poll"}
    BY DEF Init
  <2>4. dryRun \in BOOLEAN /\ remaining \subseteq Scores /\ current \in Scores \cup {NoScore}
    BY DEF Init
  <2>5. failures \subseteq [score : Scores, at : 0..MaxTime] /\ pool \subseteq Transaction
    BY DEF Init
  <2>6. attempt \in 1..2 /\ error \in ErrorKind \cup {"none"} /\ sequence \in Nat
    BY DEF Init
  <2>7. unresolved \subseteq Scores \X ErrorKind /\ taken \subseteq Scores
    BY DEF Init
  <2> QED
    BY <2>1, <2>2, <2>3, <2>4, <2>5, <2>6, <2>7 DEF TypeOK
<1> QED
  BY <1>1, TypeStep, PTL DEF Spec

-----------------------------------------------------------------------------
\* What holds of the breaker at every step: its list is finite and bounded.
BreakerInv == IsFiniteSet(failures) /\ BreakerBounds

\* A step that records nothing and starts no submission keeps the bound.
LEMMA BreakerQuietStep ==
    ASSUME TypeOK, TypeOK', BreakerInv, failures' \subseteq failures, now' >= now,
           pc' \in Submitting =>
               pc \in Submitting \/ Cardinality(InWindow(now)) < Threshold
    PROVE  BreakerInv'
<1>1. now \in Int /\ now' \in Int /\ \A f \in failures : f.at \in Int
  BY DEF TypeOK
<1>2. InWindow(now)' \subseteq InWindow(now) /\ InWindow(now) \subseteq failures
  BY <1>1 DEF InWindow
<1>3. /\ Cardinality(InWindow(now)') \in Nat
      /\ Cardinality(InWindow(now)) \in Nat
      /\ Cardinality(InWindow(now)') <= Cardinality(InWindow(now))
  BY <1>2, FS_Subset, FS_CardinalityType DEF BreakerInv
<1>4. IsFiniteSet(failures')
  BY FS_Subset DEF BreakerInv
<1> QED
  BY <1>3, <1>4 DEF BreakerInv, BreakerBounds

\* BreakerBounds: every step preserves the bound.
LEMMA BreakerStep == TypeOK /\ TypeOK' /\ BreakerInv /\ [Next]_vars => BreakerInv'
<1> SUFFICES ASSUME TypeOK, TypeOK', BreakerInv, [Next]_vars PROVE BreakerInv'
  OBVIOUS
<1> USE DEF batch, submission, network, record, history
<1>a. now \in Int /\ now' \in Int /\ Threshold \in Nat
  BY DEF TypeOK
<1>b. InWindow(now) \subseteq failures
  BY DEF InWindow
<1>c. IsFiniteSet(InWindow(now)) /\ Cardinality(InWindow(now)) \in Nat
  BY <1>b, FS_Subset, FS_CardinalityType DEF BreakerInv
<1>1. CASE NewPublisher
  BY <1>1, <1>a, BreakerQuietStep DEF NewPublisher
<1>2. CASE StartBatch
  BY <1>2, <1>a, BreakerQuietStep DEF StartBatch
<1>3. CASE EndBatch
  BY <1>3, <1>a, BreakerQuietStep DEF EndBatch
<1>4. ASSUME NEW s \in remaining, RefuseOpen(s) PROVE BreakerInv'
  BY <1>4, <1>a, BreakerQuietStep DEF RefuseOpen, InWindow
<1>5. ASSUME NEW s \in remaining, SkipDryRun(s) PROVE BreakerInv'
  BY <1>5, <1>a, BreakerQuietStep DEF SkipDryRun, PassCircuit, InWindow
<1>6. ASSUME NEW s \in remaining, BeginSubmission(s) PROVE BreakerInv'
  <2>1. CASE Tripped
    <3>1. failures' = {}
      BY <1>6, <2>1 DEF BeginSubmission, PassCircuit
    <3>2. InWindow(now)' = {}
      BY <3>1 DEF InWindow
    <3> QED
      BY <3>1, <3>2, FS_EmptySet DEF BreakerInv, BreakerBounds
  <2>2. CASE ~Tripped
    <3>1. Cardinality(InWindow(now)) < Threshold
      BY <2>2, <1>c DEF Tripped
    <3> QED
      BY <1>6, <2>2, <3>1, <1>a, BreakerQuietStep
      DEF BeginSubmission, PassCircuit, InWindow
  <2> QED
    BY <2>1, <2>2
<1>7. CASE Load
  BY <1>7, <1>a, BreakerQuietStep DEF Load
<1>8. CASE Send
  BY <1>8, <1>a, BreakerQuietStep DEF Send
<1>9. ASSUME NEW kind \in Errors, SendFails(kind) PROVE BreakerInv'
  BY <1>9, <1>a, BreakerQuietStep DEF SendFails, Fails
<1>10. ASSUME NEW kind \in Errors, SendUncertain(kind) PROVE BreakerInv'
  BY <1>10, <1>a, BreakerQuietStep DEF SendUncertain
<1>11. ASSUME NEW kind \in Errors, PollFails(kind) PROVE BreakerInv'
  BY <1>11, <1>a, BreakerQuietStep DEF PollFails
<1>12. CASE PollSucceeds
  BY <1>12, <1>a, BreakerQuietStep DEF PollSucceeds, Closed, Over
<1>13. CASE Retry
  BY <1>13, <1>a, BreakerQuietStep DEF Retry
<1>14. CASE GiveUp
  <2> DEFINE f == [score |-> current, at |-> now]
  <2>1. pc = "error" /\ pc' = "next" /\ failures' = failures \cup {f} /\ now' = now
    BY <1>14 DEF GiveUp, Closed, Over
  <2>2. Cardinality(InWindow(now)) < Threshold
    BY <2>1 DEF BreakerInv, BreakerBounds
  <2>3. InWindow(now)' \subseteq InWindow(now) \cup {f}
    BY <2>1 DEF InWindow
  <2>4. /\ IsFiniteSet(InWindow(now) \cup {f})
        /\ Cardinality(InWindow(now) \cup {f}) <= Threshold
    <3>1. /\ IsFiniteSet(InWindow(now) \cup {f})
          /\ \/ Cardinality(InWindow(now) \cup {f}) = Cardinality(InWindow(now))
             \/ Cardinality(InWindow(now) \cup {f}) = Cardinality(InWindow(now)) + 1
      BY <1>c, FS_AddElement
    <3> QED
      BY <1>a, <1>c, <2>2, <3>1
  <2>5. IsFiniteSet(failures')
    BY <2>1, FS_AddElement DEF BreakerInv
  <2>6. Cardinality(InWindow(now)') <= Cardinality(InWindow(now) \cup {f})
    BY <2>3, <2>4, FS_Subset
  <2>7. IsFiniteSet(InWindow(now)')
    BY <2>3, <2>4, FS_Subset
  <2>8. Cardinality(InWindow(now)') <= Threshold
    BY <1>a, <2>4, <2>6, <2>7, FS_CardinalityType
  <2> QED
    BY <2>1, <2>5, <2>8 DEF BreakerInv, BreakerBounds
<1>15. ASSUME NEW tx \in pool, Execute(tx) PROVE BreakerInv'
  BY <1>15, <1>a, BreakerQuietStep DEF Execute
<1>16. CASE Kill
  BY <1>16, <1>a, BreakerQuietStep DEF Kill
<1>17. CASE Tick
  BY <1>17, <1>a, BreakerQuietStep DEF Tick
<1>18. CASE UNCHANGED vars
  BY <1>18, <1>a, BreakerQuietStep DEF vars
<1> QED
  BY <1>1, <1>2, <1>3, <1>4, <1>5, <1>6, <1>7, <1>8, <1>9, <1>10, <1>11, <1>12,
     <1>13, <1>14, <1>15, <1>16, <1>17, <1>18 DEF Next, Publisher

\* The circuit breaker keeps every window within the threshold, and the
\* contract is called only below it (BreakerBounds).
THEOREM BreakerCorrect == Spec => []BreakerBounds
<1>1. Init => BreakerInv
  <2> SUFFICES ASSUME Init PROVE BreakerInv
    OBVIOUS
  <2>1. InWindow(now) = {} /\ failures = {}
    BY DEF Init, InWindow
  <2>2. Cardinality(InWindow(now)) = 0 /\ IsFiniteSet(failures)
    BY <2>1, FS_EmptySet
  <2> QED
    BY <2>2 DEF BreakerInv, BreakerBounds
<1>2. BreakerInv => BreakerBounds
  BY DEF BreakerInv
<1> QED
  BY <1>1, <1>2, BreakerStep, PublisherTypeCorrect, PTL DEF Spec

-----------------------------------------------------------------------------
\* SubmittedLanded: a new row 'submitted' follows a successful poll, and the
\* ledger only grows.
LEMMA LandedStep ==
    TypeOK /\ SubmittedLanded /\ [Next]_vars => SubmittedLanded'
<1> SUFFICES ASSUME TypeOK, SubmittedLanded, [Next]_vars PROVE SubmittedLanded'
  OBVIOUS
<1> USE DEF TypeOK, batch, submission, network, record, history
<1>1. ASSUME UNCHANGED network, NEW s \in Scores, NEW outcome \in AuditStatus, Saved(s, outcome),
             outcome = "submitted" => Landed(s) # {}
      PROVE  SubmittedLanded'
  <2>1. \A t \in Scores : Landed(t)' = Landed(t)
    BY <1>1 DEF Landed
  <2>2. ASSUME NEW t \in Scores, NEW i \in DOMAIN audit'[t], audit'[t][i] = "submitted"
        PROVE  Landed(t) # {}
    <3>1. CASE t = s
      <4>1. audit'[s] = Append(audit[s], outcome)
        BY <1>1 DEF Saved
      <4>2. audit[s] \in Seq(AuditStatus)
        OBVIOUS
      <4>3. (i \in DOMAIN audit[s] /\ audit'[s][i] = audit[s][i]) \/ audit'[s][i] = outcome
        BY <2>2, <3>1, <4>1, <4>2
      <4> QED
        BY <1>1, <2>2, <3>1, <4>3 DEF SubmittedLanded
    <3>2. CASE t # s
      BY <1>1, <2>2, <3>2 DEF Saved, SubmittedLanded
    <3> QED
      BY <3>1, <3>2
  <2> QED
    BY <2>1, <2>2 DEF SubmittedLanded
<1>2. ASSUME UNCHANGED audit, UNCHANGED ledger PROVE SubmittedLanded'
  BY <1>2 DEF SubmittedLanded, Landed
<1>3. ASSUME NEW s \in remaining, RefuseOpen(s) PROVE SubmittedLanded'
  BY <1>1, <1>2, <1>3 DEF RefuseOpen, SaveRaises
<1>4. ASSUME NEW s \in remaining, SkipDryRun(s) PROVE SubmittedLanded'
  BY <1>1, <1>2, <1>4 DEF SkipDryRun, SaveRaises
<1>5. CASE PollSucceeds
  <2>1. current \in Scores /\ UNCHANGED network
    BY <1>5 DEF PollSucceeds
  <2>2. Landed(current) # {}
    <3>1. /\ sequence <= Len(ledger)
          /\ ledger[sequence] = [score |-> current, ok |-> TRUE]
      BY <1>5 DEF PollSucceeds, PolledSuccess
    <3>2. sequence >= 1
      BY <1>5 DEF PollSucceeds
    <3>3. sequence \in DOMAIN ledger
      BY <3>1, <3>2
    <3> QED
      BY <3>1, <3>3 DEF Landed
  <2> QED
    BY <1>1, <1>2, <1>5, <2>1, <2>2 DEF PollSucceeds, Closed, SaveRaises
<1>6. CASE GiveUp
  <2>1. current \in Scores /\ UNCHANGED network
    BY <1>6 DEF GiveUp
  <2> QED
    BY <1>1, <1>2, <1>6, <2>1 DEF GiveUp, Closed, SaveRaises
<1>7. ASSUME NEW tx \in pool, Execute(tx) PROVE SubmittedLanded'
  <2>1. audit' = audit
    BY <1>7 DEF Execute
  <2>2. ASSUME NEW s \in Scores PROVE Landed(s) \subseteq Landed(s)'
    <3>1. PICK ok \in BOOLEAN : ledger' = Append(ledger, [score |-> tx.score, ok |-> ok])
      BY <1>7 DEF Execute
    <3>2. [score |-> tx.score, ok |-> ok] \in Executed
      BY DEF Transaction, Executed
    <3>3. ledger \in Seq(Executed)
      OBVIOUS
    <3>4. \A n \in DOMAIN ledger : n \in DOMAIN ledger' /\ ledger'[n] = ledger[n]
      BY <3>1, <3>2, <3>3
    <3> QED
      BY <3>4 DEF Landed
  <2> QED
    BY <2>1, <2>2 DEF SubmittedLanded
<1>8. CASE NewPublisher \/ StartBatch \/ EndBatch \/ Load \/ Send \/ Retry \/ Kill \/ Tick
  BY <1>2, <1>8 DEF NewPublisher, StartBatch, EndBatch, Load, Send, Retry, Kill, Tick
<1>9. ASSUME NEW s \in remaining, BeginSubmission(s) PROVE SubmittedLanded'
  BY <1>2, <1>9 DEF BeginSubmission
<1>10. ASSUME NEW kind \in Errors, SendFails(kind) \/ SendUncertain(kind) \/ PollFails(kind)
       PROVE  SubmittedLanded'
  BY <1>2, <1>10 DEF SendFails, SendUncertain, PollFails
<1>11. CASE UNCHANGED vars
  BY <1>2, <1>11 DEF vars
<1> QED
  BY <1>3, <1>4, <1>5, <1>6, <1>7, <1>8, <1>9, <1>10, <1>11 DEF Next, Publisher

\* An audit row 'submitted' never lies about the chain (SubmittedLanded).
THEOREM SubmittedIsOnChain == Spec => []SubmittedLanded
<1>1. Init => SubmittedLanded
  BY DEF Init, SubmittedLanded
<1> QED
  BY <1>1, LandedStep, PublisherTypeCorrect, PTL DEF Spec

-----------------------------------------------------------------------------
\* _check_circuit prunes before it tests the cooldown, so with a reset time no
\* shorter than the window (300 and 60 seconds by default) its reset branch is
\* dead code: an open circuit is refused until the window has emptied it.
THEOREM ResetIsUnreachable ==
    ASSUME Reset >= Window
    PROVE  Spec => []~(Tripped /\ CooledDown)
<1>1. TypeOK => ~(Tripped /\ CooledDown)
  BY DEF TypeOK, CooledDown, InWindow
<1> QED
  BY <1>1, PublisherTypeCorrect, PTL

-----------------------------------------------------------------------------
(* What executed, what may still execute, and what the audit table says.    *)

\* The account's sequence numbers at which a transaction of the score succeeded
\* or may yet do so.
Live(s) == {tx.seq : tx \in {t \in pool : t.score = s}} \cup Landed(s)

\* No poll of the score ended without an answer, by a timeout or at all.
NeverTimedOut(s) == <<s, "timeout">> \notin unresolved
AlwaysAnswered(s) == NeverTimedOut(s) /\ <<s, "other">> \notin unresolved

\* A score is in the hands of the publisher only while it is being submitted,
\* and one that is still to be submitted has left no trace.
ControlInv ==
    /\ pc \notin Submitting => current = NoScore
    /\ pc = "idle" => remaining = {}
    /\ current \in taken \cup {NoScore}
    /\ remaining \cap taken = {}
    /\ \A s \in Scores : s = current => audit[s] = <<>>
    /\ \A s \in Scores \ taken : audit[s] = <<>> /\ sends[s] = 0

\* A transaction waits for a number that is not used yet; a score never sent
\* has none.
LedgerInv ==
    /\ \A tx \in pool : tx.seq > Len(ledger)
    /\ \A s \in Scores : sends[s] = 0 => Live(s) = {}

\* Without a timeout a score has one transaction at most, and none when the
\* next one is built.
OnceInv == \A s \in Scores : NeverTimedOut(s) =>
    /\ \A m, n \in Live(s) : m = n
    /\ s = current => /\ pc \in {"load", "send"} => Live(s) = {}
                      /\ pc = "poll" => Live(s) \subseteq {sequence}
                      /\ pc = "error" /\ error \in Retryable => Live(s) = {}

\* With an answer to every poll, what may be on chain is being polled for or
\* has been reported.
ReportedInv == \A s \in Scores : AlwaysAnswered(s) =>
    /\ s = current /\ pc = "error" => Live(s) = {}
    /\ s # current /\ faults = 0 /\ Live(s) # {} => audit[s] = <<"submitted">>

SubmissionInv == ControlInv /\ LedgerInv /\ OnceInv /\ ReportedInv

\* What the network holds of a score changes by a send or by an execution only.
LEMMA LiveQuiet ==
    ASSUME UNCHANGED network, NEW s \in Scores
    PROVE  Live(s)' = Live(s) /\ Landed(s)' = Landed(s)
  BY DEF network, Live, Landed

LEMMA LiveSent ==
    ASSUME TypeOK, NEW s \in Scores, pc = "send",
           pool' = pool \cup {[score |-> current, seq |-> sequence]}, UNCHANGED ledger
    PROVE  Live(s)' = Live(s) \cup (IF s = current THEN {sequence} ELSE {})
<1> DEFINE new == [score |-> current, seq |-> sequence]
           waiting(set) == {t \in set : t.score = s}
<1>1. Landed(s)' = Landed(s)
  BY DEF Landed
<1>2. waiting(pool') = waiting(pool) \cup (IF s = current THEN {new} ELSE {})
  OBVIOUS
<1>3. {t.seq : t \in waiting(pool')} =
        {t.seq : t \in waiting(pool)} \cup (IF s = current THEN {sequence} ELSE {})
  <2>1. CASE s = current
    <3>1. waiting(pool') = waiting(pool) \cup {new} /\ new.seq = sequence
      BY <1>2, <2>1
    <3> HIDE DEF waiting, new
    <3> QED BY <2>1, <3>1
  <2>2. CASE s # current
    BY <1>2, <2>2
  <2> QED BY <2>1, <2>2
<1> QED
  BY <1>1, <1>3 DEF Live

\* An execution takes a waiting transaction's number to the ledger, or drops it.
LEMMA LiveExecuted ==
    ASSUME TypeOK, NEW tx \in pool, Execute(tx), NEW s \in Scores
    PROVE  Live(s)' \subseteq Live(s)
<1>1. PICK ok \in BOOLEAN : ledger' = Append(ledger, [score |-> tx.score, ok |-> ok])
  BY DEF Execute
<1>2. tx.seq = Len(ledger) + 1 /\ pool' \subseteq pool /\ tx \in Transaction
  BY DEF Execute, TypeOK
<1>3. [score |-> tx.score, ok |-> ok] \in Executed /\ ledger \in Seq(Executed)
  BY <1>2 DEF Transaction, Executed, TypeOK
<1>4. Landed(s)' \subseteq Live(s)
  <2> SUFFICES ASSUME NEW n \in DOMAIN ledger', ledger'[n] = [score |-> s, ok |-> TRUE]
               PROVE  n \in Live(s)
    BY DEF Landed
  <2>1. CASE n \in DOMAIN ledger
    <3>1. ledger'[n] = ledger[n]
      BY <1>1, <1>3, <2>1
    <3> QED BY <2>1, <3>1 DEF Live, Landed
  <2>2. CASE n \notin DOMAIN ledger
    <3>1. n = Len(ledger) + 1 /\ ledger'[n] = [score |-> tx.score, ok |-> ok]
      BY <1>1, <1>3, <2>2
    <3> QED BY <1>2, <3>1 DEF Live
  <2> QED BY <2>1, <2>2
<1> QED
  BY <1>2, <1>4 DEF Live

LEMMA ControlStep == TypeOK /\ ControlInv /\ [Next]_vars => ControlInv'
<1> SUFFICES ASSUME TypeOK, ControlInv, [Next]_vars PROVE ControlInv'
  OBVIOUS
<1> USE DEF ControlInv, batch, submission, network, record, history
<1>a. remaining \subseteq Scores /\ audit \in [Scores -> Seq(AuditStatus)]
  BY DEF TypeOK
<1>1. CASE NewPublisher \/ EndBatch \/ Load \/ Retry \/ Kill \/ Tick
  BY <1>1, <1>a DEF NewPublisher, EndBatch, Load, Retry, Kill, Tick
<1>2. CASE StartBatch
  BY <1>2 DEF StartBatch, Fresh
<1>3. ASSUME NEW s \in remaining, RefuseOpen(s) PROVE ControlInv'
  BY <1>3, <1>a DEF RefuseOpen, Saved, SaveRaises, Taken
<1>4. ASSUME NEW s \in remaining, SkipDryRun(s) PROVE ControlInv'
  BY <1>4, <1>a DEF SkipDryRun, Saved, SaveRaises, Taken
<1>5. ASSUME NEW s \in remaining, BeginSubmission(s) PROVE ControlInv'
  BY <1>5, <1>a DEF BeginSubmission, Taken
<1>6. CASE Send
  BY <1>6, <1>a DEF Send, TypeOK
<1>7. ASSUME NEW kind \in Errors, SendFails(kind) PROVE ControlInv'
  BY <1>7 DEF SendFails, Fails
<1>8. ASSUME NEW kind \in Errors, SendUncertain(kind) PROVE ControlInv'
  BY <1>8, <1>a DEF SendUncertain, Fails, TypeOK
<1>9. ASSUME NEW kind \in Errors, PollFails(kind) PROVE ControlInv'
  BY <1>9 DEF PollFails, Fails
<1>10. CASE PollSucceeds
  BY <1>10, <1>a DEF PollSucceeds, Closed, Saved, SaveRaises, Over
<1>11. CASE GiveUp
  BY <1>11, <1>a DEF GiveUp, Closed, Saved, SaveRaises, Over
<1>12. ASSUME NEW tx \in pool, Execute(tx) PROVE ControlInv'
  BY <1>12 DEF Execute
<1>13. CASE UNCHANGED vars
  BY <1>13 DEF vars
<1> QED
  BY <1>1, <1>2, <1>3, <1>4, <1>5, <1>6, <1>7, <1>8, <1>9, <1>10, <1>11, <1>12, <1>13
  DEF Next, Publisher

LEMMA LedgerStep == TypeOK /\ LedgerInv /\ [Next]_vars => LedgerInv'
<1> SUFFICES ASSUME TypeOK, LedgerInv, [Next]_vars PROVE LedgerInv'
  OBVIOUS
<1> USE DEF LedgerInv
<1>1. ASSUME UNCHANGED <<network, sends>> PROVE LedgerInv'
  BY <1>1, LiveQuiet DEF network
<1>2. ASSUME pc = "send", sequence > Len(ledger), UNCHANGED ledger,
             pool' = pool \cup {[score |-> current, seq |-> sequence]},
             sends' = [sends EXCEPT ![current] = @ + 1]
      PROVE  LedgerInv'
  <2>0. sends \in [Scores -> Nat] /\ current \in Scores
    BY <1>2 DEF TypeOK
  <2>1. \A s \in Scores : s # current => Live(s)' = Live(s) /\ sends'[s] = sends[s]
    <3>1. \A s \in Scores : s # current => Live(s)' = Live(s)
      BY <1>2, LiveSent
    <3> QED
      BY <1>2, <2>0, <3>1
  <2>2. current \in Scores /\ sends'[current] # 0
    BY <1>2 DEF TypeOK
  <2> QED
    BY <1>2, <2>1, <2>2
<1>3. ASSUME NEW tx \in pool, Execute(tx) PROVE LedgerInv'
  <2>1. Len(ledger') = Len(ledger) + 1
    BY <1>3 DEF Execute, TypeOK
  <2>2. \A t \in pool' : t \in pool /\ t.seq > tx.seq
    BY <1>3 DEF Execute
  <2>3. \A s \in Scores : Live(s)' \subseteq Live(s)
    BY <1>3, LiveExecuted
  <2>4. \A t \in pool' : t.seq > Len(ledger')
    BY <1>3, <2>1, <2>2 DEF Execute
  <2> QED
    BY <1>3, <2>3, <2>4 DEF Execute, history
<1>4. CASE Send
  BY <1>2, <1>4 DEF Send
<1>5. ASSUME NEW kind \in Errors, SendUncertain(kind) PROVE LedgerInv'
  BY <1>2, <1>5 DEF SendUncertain
<1>6. CASE \/ NewPublisher \/ StartBatch \/ EndBatch \/ Load \/ PollSucceeds
           \/ Retry \/ GiveUp \/ Kill \/ Tick \/ UNCHANGED vars
  BY <1>1, <1>6
  DEF NewPublisher, StartBatch, EndBatch, Load, PollSucceeds, Retry, GiveUp, Kill, Tick, vars,
      history
<1>7. ASSUME NEW s \in remaining, RefuseOpen(s) \/ SkipDryRun(s) \/ BeginSubmission(s)
      PROVE  LedgerInv'
  BY <1>1, <1>7 DEF RefuseOpen, SkipDryRun, BeginSubmission, Taken
<1>8. ASSUME NEW kind \in Errors, SendFails(kind) \/ PollFails(kind) PROVE LedgerInv'
  BY <1>1, <1>8 DEF SendFails, PollFails, history
<1> QED
  BY <1>3, <1>4, <1>5, <1>6, <1>7, <1>8 DEF Next, Publisher

\* A poll that says FAILED leaves nothing of the score that could execute.
LEMMA FailedIsGone ==
    ASSUME TypeOK, LedgerInv, pc = "poll", PolledFailure, Live(current) \subseteq {sequence}
    PROVE  Live(current) = {}
<1>1. sequence <= Len(ledger) /\ \A tx \in pool : tx.seq > Len(ledger)
  BY DEF PolledFailure, LedgerInv
<1>2. sequence \notin {tx.seq : tx \in {t \in pool : t.score = current}}
  <2>1. sequence \in Nat /\ Len(ledger) \in Nat /\ \A tx \in pool : tx.seq \in Nat
    BY DEF TypeOK, Transaction
  <2> QED BY <1>1, <2>1
<1>3. sequence \notin Landed(current)
  BY DEF PolledFailure, Landed
<1> QED
  BY <1>2, <1>3 DEF Live

LEMMA OnceStep == TypeOK /\ ControlInv /\ LedgerInv /\ OnceInv /\ [Next]_vars => OnceInv'
<1> SUFFICES ASSUME TypeOK, ControlInv, LedgerInv, OnceInv, [Next]_vars PROVE OnceInv'
  OBVIOUS
<1> USE DEF OnceInv, NeverTimedOut, Retryable
<1>1. ASSUME UNCHANGED <<network, sends, unresolved>>, current' = NoScore PROVE OnceInv'
  BY <1>1, LiveQuiet DEF history
<1>2. ASSUME UNCHANGED <<network, sends, unresolved, submission, pc>> PROVE OnceInv'
  BY <1>2, LiveQuiet DEF history, submission
<1>3. CASE NewPublisher \/ Tick \/ UNCHANGED vars
  BY <1>2, <1>3 DEF NewPublisher, Tick, vars, history
<1>4. CASE StartBatch \/ EndBatch \/ PollSucceeds \/ GiveUp \/ Kill
  BY <1>1, <1>4
  DEF StartBatch, EndBatch, PollSucceeds, GiveUp, Kill, Closed, Over, submission, ControlInv,
      history
<1>5. ASSUME NEW s \in remaining, RefuseOpen(s) \/ SkipDryRun(s) PROVE OnceInv'
  BY <1>1, <1>5 DEF RefuseOpen, SkipDryRun, Taken, submission, ControlInv
<1>6. ASSUME NEW s \in remaining, BeginSubmission(s) PROVE OnceInv'
  <2>1. s \in Scores /\ Live(s) = {}
    BY DEF ControlInv, LedgerInv, TypeOK
  <2> QED
    BY <1>6, <2>1, LiveQuiet DEF BeginSubmission, Taken
<1>7. CASE Load
  BY <1>7, LiveQuiet DEF Load, history
<1>8. CASE Send
  BY <1>8, LiveSent DEF Send, submission
<1>9. ASSUME NEW kind \in Errors, SendFails(kind) PROVE OnceInv'
  BY <1>9, LiveQuiet DEF SendFails, Fails, history
<1>10. ASSUME NEW kind \in Errors, SendUncertain(kind) PROVE OnceInv'
  BY <1>10, LiveSent DEF SendUncertain, Fails, Unresolved
<1>11. ASSUME NEW kind \in Errors, PollFails(kind) PROVE OnceInv'
  <2>1. /\ pc = "poll" /\ pc' = "error" /\ error' = kind /\ UNCHANGED <<network, current>>
        /\ unresolved \subseteq unresolved' /\ current \in Scores
    BY <1>11 DEF PollFails, Fails, Unresolved, TypeOK
  <2>2. NeverTimedOut(current)' /\ kind \in Retryable => Live(current) = {}
    <3>1. CASE kind \in {"timeout", "other"} /\ Unresolved(kind)
      BY <2>1, <3>1 DEF Unresolved
    <3>2. CASE PolledFailure
      BY <2>1, <3>2, FailedIsGone
    <3> QED
      BY <1>11, <3>1, <3>2 DEF PollFails
  <2> QED
    BY <2>1, <2>2, LiveQuiet
<1>12. CASE Retry
  BY <1>12, LiveQuiet DEF Retry, MayRetry, history
<1>13. ASSUME NEW tx \in pool, Execute(tx) PROVE OnceInv'
  BY <1>13, LiveExecuted DEF Execute, history, submission
<1> QED
  BY <1>3, <1>4, <1>5, <1>6, <1>7, <1>8, <1>9, <1>10, <1>11, <1>12, <1>13 DEF Next, Publisher

LEMMA ReportedStep ==
    TypeOK /\ SubmissionInv /\ [Next]_vars => ReportedInv'
<1> SUFFICES ASSUME TypeOK, SubmissionInv, [Next]_vars PROVE ReportedInv'
  OBVIOUS
<1> USE DEF ReportedInv, AlwaysAnswered, NeverTimedOut
<1>a. audit \in [Scores -> Seq(AuditStatus)] /\ remaining \subseteq Scores /\ faults \in Nat
  BY DEF TypeOK
<1>b. ControlInv /\ LedgerInv /\ OnceInv /\ ReportedInv
  BY DEF SubmissionInv
<1>1. ASSUME UNCHANGED <<network, sends, unresolved, record, current>>, pc' = "error" => pc = "error"
      PROVE  ReportedInv'
  BY <1>1, <1>b, LiveQuiet DEF history, record
\* A row about a score nothing was sent for.
<1>2. ASSUME UNCHANGED <<network, sends, unresolved, current>>, pc' # "error", NEW s \in remaining,
             (Saved(s, "skipped") /\ UNCHANGED faults) \/ SaveRaises
      PROVE  ReportedInv'
  <2>1. s \in Scores /\ Live(s) = {}
    BY <1>a, <1>b DEF ControlInv, LedgerInv
  <2>2. \A t \in Scores : Live(t)' = Live(t)
    BY <1>2, LiveQuiet
  <2>3. faults' = 0 => faults = 0 /\ Saved(s, "skipped")
    BY <1>2, <1>a DEF SaveRaises
  <2> QED
    BY <1>2, <1>a, <1>b, <2>1, <2>2, <2>3 DEF history, Saved
<1>3. CASE NewPublisher \/ Tick \/ StartBatch \/ EndBatch \/ Load \/ UNCHANGED vars
  BY <1>1, <1>3 DEF NewPublisher, Tick, StartBatch, EndBatch, Load, submission, record, vars, history
<1>4. ASSUME NEW s \in remaining, RefuseOpen(s) PROVE ReportedInv'
  BY <1>2, <1>4 DEF RefuseOpen, Taken, submission
<1>5. ASSUME NEW s \in remaining, SkipDryRun(s) PROVE ReportedInv'
  BY <1>2, <1>5 DEF SkipDryRun, Taken, submission
<1>6. ASSUME NEW s \in remaining, BeginSubmission(s) PROVE ReportedInv'
  <2>1. current = NoScore
    BY <1>6, <1>b DEF BeginSubmission, ControlInv
  <2> QED
    BY <1>6, <1>b, <2>1, LiveQuiet DEF BeginSubmission, Taken, record
<1>7. CASE Send
  BY <1>7, <1>b, LiveSent DEF Send, submission, record
<1>8. ASSUME NEW kind \in Errors, SendFails(kind) PROVE ReportedInv'
  <2>1. pc = "load" \/ pc = "send"
    BY <1>8 DEF SendFails
  <2>2. NeverTimedOut(current) => Live(current) = {}
    BY <1>b, <2>1 DEF OnceInv, TypeOK
  <2> QED
    BY <1>8, <1>b, <2>2, LiveQuiet DEF SendFails, history, record
<1>9. ASSUME NEW kind \in Errors, SendUncertain(kind) PROVE ReportedInv'
  BY <1>9, <1>b, LiveSent DEF SendUncertain, Fails, Unresolved, record
<1>10. ASSUME NEW kind \in Errors, PollFails(kind) PROVE ReportedInv'
  <2>1. /\ pc = "poll" /\ UNCHANGED <<network, current, record>>
        /\ unresolved \subseteq unresolved' /\ current \in Scores
    BY <1>10 DEF PollFails, Fails, Unresolved, TypeOK
  <2>2. AlwaysAnswered(current)' => Live(current) = {}
    <3>1. CASE kind \in {"timeout", "other"} /\ Unresolved(kind)
      BY <2>1, <3>1 DEF Unresolved
    <3>2. CASE PolledFailure
      BY <1>b, <2>1, <3>2, FailedIsGone DEF OnceInv
    <3> QED
      BY <1>10, <3>1, <3>2 DEF PollFails
  <2> QED
    BY <1>b, <2>1, <2>2, LiveQuiet DEF record
<1>11. CASE PollSucceeds
  <2>1. /\ current \in Scores /\ current' = NoScore /\ pc' = "next"
        /\ UNCHANGED <<network, history>>
    BY <1>11 DEF PollSucceeds, Closed, Over, TypeOK
  <2>2. faults' = 0 => faults = 0 /\ Saved(current, "submitted")
    BY <1>11, <1>a DEF PollSucceeds, Closed, SaveRaises
  <2>3. audit[current] = <<>>
    BY <1>b, <2>1 DEF ControlInv
  <2>4. faults' = 0 => audit'[current] = <<"submitted">>
    BY <1>a, <2>1, <2>2, <2>3 DEF Saved
  <2> QED
    BY <1>a, <1>b, <2>1, <2>2, <2>4, LiveQuiet DEF history, Saved
<1>12. CASE Retry
  BY <1>1, <1>12 DEF Retry, history
<1>13. CASE GiveUp
  <2>1. /\ current \in Scores /\ current' = NoScore /\ pc' = "next" /\ pc = "error"
        /\ UNCHANGED <<network, history>>
    BY <1>13 DEF GiveUp, Closed, Over, TypeOK
  <2>2. faults' = 0 => faults = 0 /\ Saved(current, "failed")
    BY <1>13, <1>a DEF GiveUp, Closed, SaveRaises
  <2> QED
    BY <1>a, <1>b, <2>1, <2>2, LiveQuiet DEF history, Saved
<1>14. CASE Kill
  <2>1. faults' # 0 /\ pc' = "idle" /\ UNCHANGED <<network, history>>
    BY <1>14, <1>a DEF Kill
  <2> QED
    BY <2>1
<1>15. ASSUME NEW tx \in pool, Execute(tx) PROVE ReportedInv'
  <2>1. \A s \in Scores : Live(s)' \subseteq Live(s)
    BY <1>15, LiveExecuted
  <2> QED
    BY <1>15, <1>b, <2>1 DEF Execute, history, submission, record
<1> QED
  BY <1>3, <1>4, <1>5, <1>6, <1>7, <1>8, <1>9, <1>10, <1>11, <1>12, <1>13, <1>14, <1>15
  DEF Next, Publisher

\* SubmissionInv: inductive, given the types.
THEOREM SubmissionCorrect == Spec => []SubmissionInv
<1>1. Init => SubmissionInv
  BY DEF Init, SubmissionInv, ControlInv, LedgerInv, OnceInv, ReportedInv, Live, Landed
<1>2. TypeOK /\ SubmissionInv /\ [Next]_vars => SubmissionInv'
  BY ControlStep, LedgerStep, OnceStep, ReportedStep DEF SubmissionInv
<1> QED
  BY <1>1, <1>2, PublisherTypeCorrect, PTL DEF Spec

\* Whatever the network answers and loses, and whenever the run is killed: the
\* retries of _execute_with_retries write a score to the contract twice only
\* after a poll of it timed out (TwiceOnlyAfterTimeout).
THEOREM TwiceCorrect == Spec => []TwiceOnlyAfterTimeout
<1>1. TypeOK /\ SubmissionInv => TwiceOnlyAfterTimeout
  <2> SUFFICES ASSUME TypeOK, SubmissionInv, NEW s \in Scores, NeverTimedOut(s)
               PROVE  ~(Cardinality(Landed(s)) > 1)
    BY DEF TwiceOnlyAfterTimeout, NeverTimedOut
  <2>1. \A m, n \in Landed(s) : m = n
    BY DEF SubmissionInv, OnceInv, Live
  <2>2. CASE Landed(s) = {}
    BY <2>2, FS_EmptySet
  <2>3. CASE Landed(s) # {}
    <3>1. PICK n : Landed(s) = {n}
      BY <2>1, <2>3
    <3>2. Cardinality(Landed(s)) = 1
      BY <3>1, FS_Singleton
    <3> QED BY <3>2
  <2> QED BY <2>2, <2>3
<1> QED
  BY <1>1, SubmissionCorrect, PublisherTypeCorrect, PTL

\* What executed is known: without faults, a score on the ledger whose
\* submission is over has the one row 'submitted', unless a poll of it ended
\* without an answer (LandedIsReported).
THEOREM ReportedCorrect == Spec => []LandedIsReported
<1>1. SubmissionInv => LandedIsReported
  BY DEF SubmissionInv, ReportedInv, AlwaysAnswered, NeverTimedOut, LandedIsReported, Live
<1> QED
  BY <1>1, SubmissionCorrect, PTL

LEMMA FirstRow == \A row : Append(<<>>, row) = <<row>>
  OBVIOUS

\* The one row of a score taken from the batch, when its submission ends.
LEMMA AuditedRow ==
    ASSUME TypeOK, ControlInv, AuditedOnce,
           NEW s \in Scores, NEW outcome \in AuditStatus, current' = NoScore,
           taken' = taken \cup {s},
           s = current \/ (current = NoScore /\ s \in remaining),
           Saved(s, outcome), UNCHANGED faults
    PROVE  AuditedOnce'
<1>1. /\ audit \in [Scores -> Seq(AuditStatus)] /\ audit[s] = <<>>
      /\ current \in taken \cup {NoScore}
  BY DEF TypeOK, ControlInv
<1>2. Append(audit[s], outcome) = <<outcome>>
  BY <1>1, FirstRow
<1>3. audit' = [audit EXCEPT ![s] = <<outcome>>]
  BY <1>2 DEF Saved
<1> QED
  BY <1>1, <1>3 DEF AuditedOnce

\* AuditedOnce: a submission, however it ends, writes its row before the loop
\* goes on, and no score is taken twice.
LEMMA AuditedStep == TypeOK /\ ControlInv /\ AuditedOnce /\ [Next]_vars => AuditedOnce'
<1> SUFFICES ASSUME TypeOK, ControlInv, AuditedOnce, [Next]_vars PROVE AuditedOnce'
  OBVIOUS
<1> USE DEF AuditedOnce, history, record
<1>a. /\ audit \in [Scores -> Seq(AuditStatus)] /\ remaining \subseteq Scores /\ faults \in Nat
      /\ \A s \in Scores : s = current \/ s \in remaining => audit[s] = <<>>
      /\ current \in taken \cup {NoScore}
  BY DEF TypeOK, ControlInv
<1>1. ASSUME UNCHANGED <<record, taken, current>> PROVE AuditedOnce'
  BY <1>1
\* With a fault only the length matters.
<1>3. ASSUME faults' # 0,
             \/ UNCHANGED audit
             \/ \E s \in Scores, outcome \in AuditStatus :
                  (s = current \/ s \in remaining) /\ Saved(s, outcome)
      PROVE  AuditedOnce'
  <2>1. CASE UNCHANGED audit
    BY <1>3, <2>1
  <2>2. ASSUME NEW s \in Scores, NEW outcome \in AuditStatus, s = current \/ s \in remaining,
               Saved(s, outcome)
        PROVE  AuditedOnce'
    <3>0. audit[s] = <<>> /\ Append(audit[s], outcome) = <<outcome>>
      BY <1>a, <2>2, FirstRow
    <3>1. audit[s] = <<>> /\ audit' = [audit EXCEPT ![s] = <<outcome>>]
      BY <2>2, <3>0 DEF Saved
    <3> QED
      BY <1>3, <1>a, <3>1
  <2> QED
    BY <1>3, <2>1, <2>2
<1>4. CASE NewPublisher \/ Tick \/ StartBatch \/ EndBatch \/ Load \/ Retry \/ UNCHANGED vars
  BY <1>1, <1>4 DEF NewPublisher, Tick, StartBatch, EndBatch, Load, Retry, submission, vars
<1>5. ASSUME NEW s \in remaining, RefuseOpen(s) \/ SkipDryRun(s) PROVE AuditedOnce'
  <2>1. current = NoScore /\ current' = NoScore /\ taken' = taken \cup {s}
    BY <1>5 DEF RefuseOpen, SkipDryRun, ControlInv, submission, Taken
  <2>2. CASE Saved(s, "skipped") /\ UNCHANGED faults
    BY <1>a, <2>1, <2>2, AuditedRow
  <2>3. CASE SaveRaises
    <3>1. faults' # 0 /\ UNCHANGED audit
      BY <1>a, <2>3 DEF SaveRaises
    <3> QED BY <1>3, <3>1
  <2> QED
    BY <1>5, <2>2, <2>3 DEF RefuseOpen, SkipDryRun
<1>6. ASSUME NEW s \in remaining, BeginSubmission(s) PROVE AuditedOnce'
  <2>1. current = NoScore
    BY <1>6 DEF BeginSubmission, ControlInv
  <2> QED
    BY <1>6, <2>1 DEF BeginSubmission, Taken
<1>8. CASE Send
  BY <1>1, <1>8 DEF Send, submission
<1>9. ASSUME NEW kind \in Errors, SendFails(kind) \/ SendUncertain(kind) \/ PollFails(kind)
      PROVE  AuditedOnce'
  BY <1>1, <1>9 DEF SendFails, SendUncertain, PollFails
<1>10. ASSUME NEW outcome \in AuditStatus, current \in Scores, UNCHANGED taken,
              Closed(outcome)
       PROVE  AuditedOnce'
  <2>1. current' = NoScore /\ taken' = taken \cup {current}
    BY <1>a, <1>10 DEF Closed, Over
  <2>2. CASE Saved(current, outcome) /\ UNCHANGED faults
    BY <1>10, <2>1, <2>2, AuditedRow
  <2>3. CASE SaveRaises
    <3>1. faults' # 0 /\ UNCHANGED audit
      BY <1>a, <2>3 DEF SaveRaises
    <3> QED BY <1>3, <3>1
  <2> QED
    BY <1>10, <2>2, <2>3 DEF Closed
<1>11. CASE PollSucceeds
  <2>1. current \in Scores /\ UNCHANGED taken
    BY <1>11 DEF PollSucceeds, TypeOK
  <2>2. CASE faults' = faults + 1 /\ Saved(current, "failed")
    BY <1>3, <1>a, <2>1, <2>2
  <2> QED
    BY <1>10, <1>11, <2>1, <2>2 DEF PollSucceeds
<1>12. CASE GiveUp
  <2>1. current \in Scores /\ UNCHANGED taken
    BY <1>12 DEF GiveUp, TypeOK
  <2> QED
    BY <1>10, <1>12, <2>1 DEF GiveUp
<1>13. CASE Kill
  BY <1>3, <1>13, <1>a DEF Kill
<1>14. ASSUME NEW tx \in pool, Execute(tx) PROVE AuditedOnce'
  BY <1>1, <1>14 DEF Execute, submission
<1> QED
  BY <1>4, <1>5, <1>6, <1>8, <1>9, <1>11, <1>12, <1>13, <1>14 DEF Next, Publisher

\* README, Audit log: every score whose submit_score was called and is over,
\* however it ended, has exactly one row in on_chain_submissions if no write
\* failed and no run was killed; no score ever has two (AuditedOnce).
THEOREM AuditCorrect == Spec => []AuditedOnce
<1>1. Init => AuditedOnce
  BY DEF Init, AuditedOnce
<1>2. TypeOK /\ SubmissionInv /\ AuditedOnce /\ [Next]_vars => AuditedOnce'
  BY AuditedStep DEF SubmissionInv
<1> QED
  BY <1>1, <1>2, SubmissionCorrect, PublisherTypeCorrect, PTL DEF Spec
=============================================================================
