-------------------------- MODULE ScoringRun_proofs --------------------------
(***************************************************************************)
(* Theorems about ScoringRun, for any runs, accounts, pairs and failures:  *)
(* type correctness, when a run's scores, raw rows and explanations are in *)
(* the tables, whose rows the readers see, and the bound on the snapshots. *)
(***************************************************************************)
EXTENDS ScoringRun, FiniteSetTheorems, WellFoundedInduction, TLAPS

\* What a step may be; the proofs follow this list.
LEMMA StepCases ==
    ASSUME NEW r \in Runs, Step(r)
    PROVE  \/ \E m \in Modes[r] : Start(r, m)
           \/ \E traded \in [Pairs -> SUBSET Accounts], couples \in SUBSET Couples :
                Preload(r, traded, couples)
           \/ SaveCorrelations(r)
           \/ \E accounts \in SUBSET Accounts : LoadTrades(r, accounts)
           \/ UsePreloaded(r)
           \/ SavePools(r) \/ SavePayments(r) \/ SaveRoutes(r)
           \/ \E ring \in BOOLEAN : ScorePair(r, ring)
           \/ Record(r) \/ Prune(r) \/ RecordFails(r)
           \/ SaveScores(r) \/ SaveRings(r) \/ SaveVectors(r)
           \/ \E x \in todo[r] : Explain(r, x) \/ ExplainFails(r, x)
           \/ Enqueue(r) \/ Submit(r) \/ Stamps(r) \/ Abort(r)
  BY DEF Step

\* A run that is loading has a pair in hand; one that saves has none.
Positioned ==
    \A r \in Runs :
        /\ pc[r] \in Loading => next[r] <= Len(AssetPairs)
        /\ pc[r] \in Saving \ {"dead"} => next[r] > Len(AssetPairs)

TypeInv == TypeOK /\ Positioned

LEMMA LengthType == Len(AssetPairs) \in Nat \ {0}
  BY RunAssumption DEF RunAssumption

\* The pair in hand is one of the pairs.
LEMMA PairType ==
    ASSUME TypeInv, NEW r \in Runs, pc[r] \in Loading
    PROVE  Pair(r) \in Pairs
<1>1. next[r] \in DOMAIN AssetPairs
  BY LengthType, RunAssumption DEF TypeInv, TypeOK, Positioned, RunAssumption
<1> QED
  BY <1>1 DEF Pair, Pairs

\* Where a run goes on after a pair fits the position it has reached.
LEMMA AfterPairType ==
    ASSUME NEW position \in 1..Len(AssetPairs) + 1, NEW list
    PROVE  /\ AfterPair(position, list) \in {"load", "scores", "record"}
           /\ AfterPair(position, list) = "load" <=> position <= Len(AssetPairs)
  BY LengthType DEF AfterPair

\* TypeInv, the part of it about a run's place: every step keeps it.
LEMMA PlaceStep ==
    ASSUME TypeInv, NEW r \in Runs, Step(r)
    PROVE  /\ pc' \in [Runs -> Loading \cup Saving]
           /\ next' \in [Runs -> 1..Len(AssetPairs) + 1]
           /\ Positioned'
<1> DEFINE Place == /\ pc' \in [Runs -> Loading \cup Saving]
                    /\ next' \in [Runs -> 1..Len(AssetPairs) + 1]
                    /\ Positioned'
<1> SUFFICES Place
  OBVIOUS
<1> USE LengthType DEF Loading, Saving
<1>0. /\ pc \in [Runs -> Loading \cup Saving] /\ next \in [Runs -> 1..Len(AssetPairs) + 1]
      /\ Positioned
  BY DEF TypeInv, TypeOK
<1>1. ASSUME NEW m \in Modes[r], Start(r, m) PROVE Place
  BY <1>0, <1>1 DEF Start, Goes, Positioned
<1>2. ASSUME NEW traded, NEW couples, Preload(r, traded, couples) PROVE Place
  BY <1>0, <1>2 DEF Preload, Goes, Positioned
<1>3. CASE SaveCorrelations(r)
  BY <1>0, <1>3 DEF SaveCorrelations, Goes, locals, Positioned
<1>4. ASSUME NEW accounts, UseTrades(r, accounts) PROVE Place
  <2>1. pc[r] = "load" /\ next[r] <= Len(AssetPairs) /\ next[r] \in 1..Len(AssetPairs) + 1
    BY <1>0, <1>4 DEF UseTrades, Goes, Positioned
  <2>2. CASE accounts = {}
    <3> DEFINE to == AfterPair(next[r] + 1, computed[r])
    <3>1. next' = [next EXCEPT ![r] = next[r] + 1] /\ pc' = [pc EXCEPT ![r] = to]
      BY <1>4, <2>2 DEF UseTrades, Goes
    <3>2. /\ next[r] + 1 \in 1..Len(AssetPairs) + 1 /\ to \in {"load", "scores", "record"}
          /\ to = "load" <=> next[r] + 1 <= Len(AssetPairs)
      BY <2>1, AfterPairType
    <3> HIDE DEF to
    <3> QED
      BY <1>0, <3>1, <3>2 DEF Positioned
  <2>3. CASE accounts # {}
    BY <1>0, <1>4, <2>1, <2>3 DEF UseTrades, Goes, AfterLoad, AfterPools, Positioned
  <2> QED
    BY <2>2, <2>3
<1>5. CASE SavePools(r) \/ SavePayments(r) \/ SaveRoutes(r)
  BY <1>0, <1>5 DEF SavePools, SavePayments, SaveRoutes, SaveRaw, Goes, AfterPools,
                    AfterPayments, locals, Positioned
<1>6. ASSUME NEW ring, ScorePair(r, ring) PROVE Place
  <2> DEFINE to == AfterPair(next[r] + 1, computed'[r])
  <2>1. next' = [next EXCEPT ![r] = next[r] + 1] /\ pc' = [pc EXCEPT ![r] = to]
    BY <1>6 DEF ScorePair, Goes
  <2>2. next[r] <= Len(AssetPairs) /\ next[r] \in 1..Len(AssetPairs) + 1
    BY <1>0, <1>6 DEF ScorePair, Positioned
  <2>3. /\ next[r] + 1 \in 1..Len(AssetPairs) + 1 /\ to \in {"load", "scores", "record"}
        /\ to = "load" <=> next[r] + 1 <= Len(AssetPairs)
    BY <2>2, AfterPairType
  <2> HIDE DEF to
  <2> QED
    BY <1>0, <2>1, <2>3 DEF Positioned
<1>7. CASE Record(r) \/ Prune(r) \/ RecordFails(r)
  BY <1>0, <1>7 DEF Record, Prune, RecordFails, Goes, locals, Positioned
<1>8. CASE SaveScores(r) \/ SaveRings(r) \/ SaveVectors(r)
  BY <1>0, <1>8 DEF SaveScores, SaveRings, SaveVectors, AfterScores, AfterRings, Goes, locals,
                    Positioned
<1>9. ASSUME NEW x \in todo[r], Explain(r, x) \/ ExplainFails(r, x) PROVE Place
  BY <1>0, <1>9 DEF Explain, ExplainFails, Handled, AfterShap, Goes, Positioned
<1>10. CASE Enqueue(r) \/ Submit(r) \/ Stamps(r)
  BY <1>0, <1>10 DEF Enqueue, Submit, Stamps, TakeMoment, Goes, locals, Positioned
<1>11. CASE Abort(r)
  BY <1>0, <1>11 DEF Abort, locals, Positioned
<1>12. ASSUME NEW accounts, LoadTrades(r, accounts) PROVE Place
  <2> HIDE DEF Place
  <2> QED
    BY <1>4, <1>12 DEF LoadTrades
<1>13. CASE UsePreloaded(r)
  <2> HIDE DEF Place
  <2> QED
    BY <1>4, <1>13 DEF UsePreloaded
<1> HIDE DEF Place
<1> QED
  BY StepCases, <1>1, <1>2, <1>3, <1>5, <1>6, <1>7, <1>8, <1>9, <1>10, <1>11, <1>12, <1>13

\* The rows a run makes of its scores.
LEMMA RowTypes ==
    ASSUME TypeInv, NEW r \in Runs
    PROVE  /\ \A w \in Accounts, p \in Pairs :
                [run |-> r, wallet |-> w, pair |-> p, at |-> now] \in Row
           /\ \A x \in Row :
                /\ x.run \in Runs /\ x.wallet \in Accounts /\ x.pair \in Pairs
                /\ Snapshot(x, now) \in Row
                /\ [run |-> r, wallet |-> x.wallet, pair |-> x.pair, at |-> moment[r],
                    shap |-> NoRun] \in Vector
           /\ \A v \in Vector : [v EXCEPT !.shap = r] \in Vector
           /\ \A items : \A i \in items : [run |-> r, item |-> i, at |-> Stamp(r, i)] \in Report(items)
<1>1. now \in Nat /\ moment[r] \in Nat
  BY DEF TypeInv, TypeOK
<1> QED
  BY <1>1 DEF Row, Snapshot, Vector, Report, Stamp

LocalsOK ==
    /\ now \in Nat
    /\ mode \in [Runs -> Mode]
    /\ trades \in [Runs -> [Pairs -> SUBSET Accounts]]
    /\ loaded \in [Runs -> [Pairs -> Nat]]
    /\ computed \in [Runs -> SUBSET Row]
    /\ found \in [Runs -> SUBSET Pairs]
    /\ correlated \in [Runs -> SUBSET Couples]
    /\ moment \in [Runs -> Nat]
    /\ todo \in [Runs -> SUBSET Row]

\* TypeInv, the part of it about the other locals.
LEMMA LocalsStep ==
    ASSUME TypeInv, NEW r \in Runs, Step(r)
    PROVE  LocalsOK'
<1>0. LocalsOK /\ pc \in [Runs -> Loading \cup Saving]
  BY DEF TypeInv, TypeOK, Couples, LocalsOK
<1>1. ASSUME NEW m \in Modes[r], Start(r, m) PROVE LocalsOK'
  <2>1. m \in Mode
    BY RunAssumption DEF RunAssumption
  <2> QED
    BY <1>0, <1>1, <2>1 DEF Start, LocalsOK
<1>2. ASSUME NEW traded \in [Pairs -> SUBSET Accounts], NEW couples \in SUBSET Couples,
             Preload(r, traded, couples)
      PROVE  LocalsOK'
  BY <1>0, <1>2 DEF Preload, ClockMoves, LocalsOK
<1>3. CASE UNCHANGED <<now, locals>>
  BY <1>0, <1>3 DEF locals, LocalsOK
<1>4. ASSUME NEW accounts \in SUBSET Accounts, LoadTrades(r, accounts) PROVE LocalsOK'
  <2>1. Pair(r) \in Pairs
    BY <1>4, PairType DEF LoadTrades, UseTrades, Goes, Loading
  <2> HIDE DEF Pair
  <2> QED
    BY <1>0, <1>4, <2>1 DEF LoadTrades, ClockMoves, LocalsOK
<1>5. CASE UsePreloaded(r)
  BY <1>0, <1>5 DEF UsePreloaded, LocalsOK
<1>6. ASSUME NEW ring \in BOOLEAN, ScorePair(r, ring) PROVE LocalsOK'
  <2> DEFINE new == {[run |-> r, wallet |-> w, pair |-> Pair(r), at |-> now] : w \in trades[r][Pair(r)]}
  <2>1. Pair(r) \in Pairs
    BY <1>6, PairType DEF ScorePair, Loading
  <2>2. new \subseteq Row
    <3>1. trades[r][Pair(r)] \subseteq Accounts
      BY <1>0, <2>1 DEF LocalsOK
    <3> QED
      BY <2>1, <3>1, RowTypes
  <2>3. computed' = [computed EXCEPT ![r] = computed[r] \cup new]
    BY <1>6 DEF ScorePair
  <2> HIDE DEF new
  <2>4. computed' \in [Runs -> SUBSET Row]
    BY <1>0, <2>2, <2>3 DEF LocalsOK
  <2>5. found' \in [Runs -> SUBSET Pairs]
    BY <1>0, <1>6, <2>1 DEF ScorePair, LocalsOK
  <2> QED
    BY <1>0, <1>6, <2>4, <2>5 DEF ScorePair, ClockMoves, LocalsOK
<1>7. CASE Record(r)
  BY <1>0, <1>7 DEF Record, ClockMoves, locals, LocalsOK
<1>8. CASE SaveVectors(r)
  BY <1>0, <1>8 DEF SaveVectors, LocalsOK
<1>9. ASSUME NEW x \in todo[r], Explain(r, x) \/ ExplainFails(r, x) PROVE LocalsOK'
  BY <1>0, <1>9 DEF Explain, ExplainFails, Handled, LocalsOK
<1>10. CASE Stamps(r)
  <2>1. ASSUME NEW from, NEW to, TakeMoment(r, from, to) PROVE LocalsOK'
    <3>1. now' \in Nat /\ moment' \in [Runs -> Nat]
      BY <1>0, <2>1 DEF TakeMoment, ClockMoves, LocalsOK
    <3> QED
      BY <1>0, <2>1, <3>1 DEF TakeMoment, LocalsOK
  <2> QED
    BY <1>10, <2>1 DEF Stamps
<1>11. CASE \/ SaveCorrelations(r) \/ SavePools(r) \/ SavePayments(r) \/ SaveRoutes(r)
            \/ Prune(r) \/ RecordFails(r) \/ SaveScores(r) \/ SaveRings(r)
            \/ Enqueue(r) \/ Submit(r) \/ Abort(r)
  <2>1. UNCHANGED <<now, locals>>
    BY <1>11 DEF SaveCorrelations, SavePools, SavePayments, SaveRoutes, SaveRaw, Prune,
                 RecordFails, SaveScores, SaveRings, Enqueue, Submit, Abort
  <2> QED
    BY <1>3, <2>1
<1> QED
  BY StepCases, <1>1, <1>2, <1>4, <1>5, <1>6, <1>7, <1>8, <1>9, <1>10, <1>11

TablesOK ==
    /\ scores \subseteq Row
    /\ vectors \subseteq Vector
    /\ rings \subseteq Report(Pairs)
    /\ correlations \subseteq Report(Couples)
    /\ raw \subseteq Raw \X Runs \X Pairs
    /\ snapshots \subseteq Earlier \cup Row
    /\ submitted \subseteq Row
    /\ overlap \subseteq SUBSET Runs
    /\ failures \in 0..MaxFailures

\* TypeInv, the part of it about the tables.
LEMMA TablesStep ==
    ASSUME TypeInv, NEW r \in Runs, Step(r)
    PROVE  TablesOK'
<1>0. TablesOK /\ LocalsOK
  BY DEF TypeInv, TypeOK, Couples, TablesOK, LocalsOK
<1>1. CASE UNCHANGED <<tables, overlap, failures>>
  BY <1>0, <1>1 DEF tables, reports, TablesOK
<1>2. ASSUME NEW m \in Modes[r], Start(r, m) PROVE TablesOK'
  BY <1>0, <1>2 DEF Start, tables, reports, TablesOK
<1>3. CASE SaveCorrelations(r)
  <2>1. ReportRows(r, correlated[r]) \subseteq Report(Couples)
    <3>1. correlated[r] \subseteq Couples
      BY <1>0 DEF LocalsOK
    <3> QED
      BY <3>1, RowTypes DEF ReportRows
  <2> QED
    BY <1>0, <1>3, <2>1 DEF SaveCorrelations, Unchanged, TablesOK
<1>4. CASE SaveRings(r)
  <2>1. ReportRows(r, found[r]) \subseteq Report(Pairs)
    <3>1. found[r] \subseteq Pairs
      BY <1>0 DEF LocalsOK
    <3> QED
      BY <3>1, RowTypes DEF ReportRows
  <2> QED
    BY <1>0, <1>4, <2>1 DEF SaveRings, Unchanged, TablesOK
<1>5. CASE SavePools(r) \/ SavePayments(r) \/ SaveRoutes(r)
  <2>1. Pair(r) \in Pairs
    BY <1>5, PairType DEF SavePools, SavePayments, SaveRoutes, SaveRaw, Goes, Loading
  <2> QED
    BY <1>0, <1>5, <2>1 DEF SavePools, SavePayments, SaveRoutes, SaveRaw, Unchanged, Raw, TablesOK
<1>6. CASE Record(r) \/ Prune(r)
  <2>1. \A x \in computed[r] : Snapshot(x, now) \in Row
    BY <1>0, RowTypes DEF LocalsOK
  <2>2. snapshots' \subseteq Earlier \cup Row
    <3>1. CASE Record(r)
      BY <1>0, <2>1, <3>1 DEF Record, TablesOK
    <3>2. CASE Prune(r)
      <4>1. Kept \subseteq snapshots
        BY DEF Kept
      <4> QED
        BY <1>0, <3>2, <4>1 DEF Prune, TablesOK
    <3> QED
      BY <1>6, <3>1, <3>2
  <2> QED
    BY <1>0, <1>6, <2>2 DEF Record, Prune, reports, Unchanged, TablesOK
<1>7. CASE RecordFails(r) \/ Abort(r)
  <2>1. failures' \in 0..MaxFailures
    BY <1>0, <1>7, RunAssumption DEF RecordFails, Abort, RunAssumption, TablesOK
  <2> QED
    BY <1>0, <1>7, <2>1 DEF RecordFails, Abort, tables, reports, TablesOK
<1>8. CASE SaveScores(r) \/ Submit(r)
  <2>1. computed[r] \subseteq Row
    BY <1>0 DEF LocalsOK
  <2> QED
    BY <1>0, <1>8, <2>1 DEF SaveScores, Submit, Inserted, reports, Unchanged, TablesOK
<1>9. CASE SaveVectors(r)
  <2>1. computed[r] \subseteq Row
    BY <1>0 DEF LocalsOK
  <2>2. vectors' \subseteq Vector
    BY <1>0, <1>9, <2>1, RowTypes DEF SaveVectors, TablesOK
  <2> QED
    BY <1>0, <1>9, <2>2 DEF SaveVectors, reports, Unchanged, TablesOK
<1>10. ASSUME NEW x \in todo[r], Explain(r, x) PROVE TablesOK'
  <2>1. vectors' \subseteq Vector
    <3>1. NewestVector(x) \subseteq vectors
      BY DEF NewestVector, Newest, Of
    <3> HIDE DEF NewestVector
    <3> QED
      BY <1>0, <1>10, <3>1, RowTypes DEF Explain, TablesOK
  <2> QED
    BY <1>0, <1>10, <2>1 DEF Explain, reports, Unchanged, TablesOK
<1>11. ASSUME NEW traded, NEW couples, Preload(r, traded, couples) PROVE TablesOK'
  BY <1>1, <1>11 DEF Preload, Unchanged
<1>12. ASSUME NEW accounts, LoadTrades(r, accounts) PROVE TablesOK'
  BY <1>1, <1>12 DEF LoadTrades, Unchanged
<1>13. ASSUME NEW ring, ScorePair(r, ring) PROVE TablesOK'
  BY <1>1, <1>13 DEF ScorePair, Unchanged
<1>14. ASSUME NEW x, ExplainFails(r, x) PROVE TablesOK'
  BY <1>1, <1>14 DEF ExplainFails, Unchanged
<1>15. CASE UsePreloaded(r) \/ Enqueue(r) \/ Stamps(r)
  BY <1>1, <1>15 DEF UsePreloaded, Enqueue, Stamps, TakeMoment, Unchanged
<1> QED
  BY StepCases, <1>2, <1>3, <1>4, <1>5, <1>6, <1>7, <1>8, <1>9, <1>10, <1>11, <1>12, <1>13,
     <1>14, <1>15

LEMMA TypeInit == Init => TypeInv
<1> SUFFICES ASSUME Init PROVE TypeInv
  OBVIOUS
<1>1. pc \in [Runs -> Loading \cup Saving] /\ next \in [Runs -> 1..Len(AssetPairs) + 1] /\ Positioned
  BY LengthType DEF Init, Loading, Saving, Positioned
<1>2. LocalsOK
  BY DEF Init, LocalsOK, Mode
<1>3. TablesOK
  BY RunAssumption DEF Init, RunAssumption, TablesOK
<1> QED
  BY <1>1, <1>2, <1>3 DEF TypeInv, TypeOK, Couples, LocalsOK, TablesOK

LEMMA TypeStep == TypeInv /\ [Next]_vars => TypeInv'
<1> SUFFICES ASSUME TypeInv, [Next]_vars PROVE TypeInv'
  OBVIOUS
<1>1. ASSUME NEW r \in Runs, Step(r) PROVE TypeInv'
  BY <1>1, PlaceStep, LocalsStep, TablesStep DEF TypeInv, TypeOK, Couples, LocalsOK, TablesOK
<1>2. CASE UNCHANGED vars
  <2>1. UNCHANGED <<pc, next, overlap, failures, now>> /\ UNCHANGED <<locals, tables>>
    BY <1>2 DEF vars, locals
  <2>2. LocalsOK' /\ TablesOK'
    BY <2>1 DEF locals, tables, reports, TypeInv, TypeOK, Couples, LocalsOK, TablesOK
  <2>3. Positioned'
    BY <2>1 DEF TypeInv, Positioned
  <2> QED
    BY <2>1, <2>2, <2>3 DEF TypeInv, TypeOK, Couples, LocalsOK, TablesOK
<1> QED
  BY <1>1, <1>2 DEF Next

\* Type correctness of the runs' locals and of the tables, with the place in
\* the list of pairs that each step of a run presupposes.
THEOREM ScoringTypeCorrect == Spec => []TypeOK
<1>1. Spec => []TypeInv
  BY TypeInit, TypeStep, PTL DEF Spec
<1>2. TypeInv => TypeOK
  BY DEF TypeInv
<1> QED
  BY <1>1, <1>2, PTL

-----------------------------------------------------------------------------
(* Scores: all or none of a run's, and before what is submitted.           *)

Unsaved == Loading \cup {"record", "prune", "scores"}
Saved == Saving \ {"record", "prune", "scores", "dead"}

SavedInv ==
    /\ \A r \in Runs : \A x \in computed[r] : x.run = r
    /\ \A x \in scores : x \in computed[x.run]
    /\ \A r \in Runs : pc[r] \in Unsaved => \A x \in scores : x.run # r
    /\ \A r \in Runs : pc[r] \in Saved => computed[r] \subseteq scores
    /\ ScoresAllOrNone
    /\ SubmittedIsSaved

\* What a step does to a run's place and position, when it leaves scores alone.
Moves(r, from, to) ==
    /\ pc[r] \in from
    /\ \E p \in to : pc' = [pc EXCEPT ![r] = p]
    /\ UNCHANGED <<computed, scores, submitted>>

\* Before they are saved, a run's scores are not in the table; afterwards its
\* position does not move.
LEMMA MovesKeepSaved ==
    ASSUME TypeInv, SavedInv, NEW r \in Runs,
           \/ Moves(r, Unsaved, Unsaved) /\ \A s \in Runs \ {r} : next'[s] = next[s]
           \/ Moves(r, Saved, Saved \cup {"dead"}) /\ UNCHANGED next
           \/ Moves(r, Unsaved, {"dead"}) /\ UNCHANGED next
    PROVE  SavedInv'
<1>0. pc \in [Runs -> Loading \cup Saving]
  BY DEF TypeInv, TypeOK
<1>1. UNCHANGED <<computed, scores, submitted>>
  BY DEF Moves
<1>2. /\ (\A s \in Runs : \A x \in computed[s] : x.run = s)'
      /\ (\A x \in scores : x \in computed[x.run])'
      /\ SubmittedIsSaved'
  BY <1>1 DEF SavedInv, SubmittedIsSaved
<1>3. ASSUME NEW s \in Runs, pc'[s] \in Unsaved PROVE \A x \in scores : x.run # s
  BY <1>0, <1>3 DEF Moves, SavedInv, Unsaved, Saved, Loading, Saving
<1>4. ASSUME NEW s \in Runs, pc'[s] \in Saved PROVE computed[s] \subseteq scores
  BY <1>0, <1>4 DEF Moves, SavedInv, Unsaved, Saved, Loading, Saving
<1>5. ScoresAllOrNone'
  <2> SUFFICES ASSUME NEW s \in Runs, {x \in scores : x.run = s} # {}
               PROVE  {x \in scores : x.run = s} = computed[s] /\ next'[s] > Len(AssetPairs)
    BY <1>1 DEF ScoresAllOrNone
  <2>1. {x \in scores : x.run = s} = computed[s] /\ next[s] > Len(AssetPairs)
    BY DEF SavedInv, ScoresAllOrNone
  <2>2. next'[s] = next[s]
    BY DEF Moves, SavedInv
  <2> QED
    BY <2>1, <2>2
<1> QED
  BY <1>1, <1>2, <1>3, <1>4, <1>5 DEF SavedInv

\* SavedInv: every step keeps it.
LEMMA SavedStep ==
    ASSUME TypeInv, SavedInv, NEW r \in Runs, Step(r)
    PROVE  SavedInv'
<1> DEFINE Early == /\ Moves(r, Unsaved, Unsaved)
                    /\ \A s \in Runs \ {r} : next'[s] = next[s]
           Late == Moves(r, Saved, Saved \cup {"dead"}) /\ UNCHANGED next
<1>0. /\ pc \in [Runs -> Loading \cup Saving]
      /\ next \in [Runs -> 1..Len(AssetPairs) + 1]
      /\ computed \in [Runs -> SUBSET Row]
  BY DEF TypeInv, TypeOK
<1>1. ASSUME NEW m \in Modes[r], Start(r, m) PROVE Early
  BY <1>0, <1>1 DEF Start, Goes, Moves, Unsaved, Loading, tables
<1>2. ASSUME NEW traded, NEW couples, Preload(r, traded, couples) PROVE Early
  BY <1>0, <1>2 DEF Preload, Goes, Moves, Unsaved, Loading, tables
<1>3. CASE SaveCorrelations(r) \/ SavePools(r) \/ SavePayments(r) \/ SaveRoutes(r)
  <2>1. Early
    BY <1>0, <1>3 DEF SaveCorrelations, SavePools, SavePayments, SaveRoutes, SaveRaw, AfterPools,
                      AfterPayments, Goes, Moves, Unsaved, Loading, locals
  <2> QED
    BY <2>1, MovesKeepSaved
<1>4. ASSUME NEW accounts, UseTrades(r, accounts), UNCHANGED <<computed, tables>> PROVE Early
  <2>1. /\ next[r] + 1 \in 1..Len(AssetPairs) + 1
        /\ pc[r] = "load"
    BY <1>0, <1>4, LengthType DEF UseTrades, Goes, TypeInv, Positioned, Loading
  <2>2. AfterPair(next[r] + 1, computed[r]) \in Unsaved
    BY <2>1, AfterPairType DEF Unsaved, Loading
  <2>3. AfterLoad(r) \in Unsaved
    BY DEF AfterLoad, AfterPools, Unsaved, Loading
  <2>4. pc[r] \in Unsaved
    BY <2>1 DEF Unsaved, Loading
  <2> QED
    BY <1>0, <1>4, <2>2, <2>3, <2>4 DEF UseTrades, Goes, Moves, tables
<1>5. ASSUME NEW accounts, LoadTrades(r, accounts) PROVE Early
  <2> HIDE DEF Early
  <2> QED
    BY <1>4, <1>5 DEF LoadTrades
<1>6. CASE UsePreloaded(r)
  <2> DEFINE accounts == trades[r][Pair(r)]
  <2>1. UseTrades(r, accounts) /\ UNCHANGED <<computed, tables>>
    BY <1>6 DEF UsePreloaded
  <2> HIDE DEF accounts, Early
  <2>2. Early
    BY <1>4, <2>1
  <2> QED
    BY <2>2, MovesKeepSaved DEF Early
<1>7. ASSUME NEW ring \in BOOLEAN, ScorePair(r, ring) PROVE SavedInv'
  <2> DEFINE new == {[run |-> r, wallet |-> w, pair |-> Pair(r), at |-> now] : w \in trades[r][Pair(r)]}
             to == AfterPair(next[r] + 1, computed'[r])
  <2>1. /\ computed' = [computed EXCEPT ![r] = computed[r] \cup new]
        /\ pc[r] = "score" /\ pc' = [pc EXCEPT ![r] = to]
        /\ UNCHANGED <<scores, submitted>>
        /\ next' = [next EXCEPT ![r] = next[r] + 1]
    BY <1>7 DEF ScorePair, Goes, tables
  <2>2. to \in Unsaved
    <3>1. next[r] + 1 \in 1..Len(AssetPairs) + 1
      BY <1>0, <2>1, LengthType DEF TypeInv, Positioned, Loading
    <3> QED
      BY <3>1, AfterPairType DEF Unsaved, Loading
  <2>3. \A x \in new : x.run = r
    OBVIOUS
  <2> HIDE DEF new, to
  <2>4. pc[r] \in Unsaved /\ \A x \in scores : x.run # r
    BY <2>1 DEF SavedInv, Unsaved, Loading
  <2>5. (\A s \in Runs : \A x \in computed[s] : x.run = s)'
    BY <1>0, <2>1, <2>3 DEF SavedInv
  <2>6. (\A x \in scores : x \in computed[x.run])'
    <3>1. \A x \in scores : x.run \in Runs
      BY DEF TypeInv, TypeOK, Row
    <3> QED
      BY <1>0, <2>1, <2>4, <3>1 DEF SavedInv
  <2>7. \A s \in Runs : /\ pc'[s] \in Unsaved => \A x \in scores : x.run # s
                        /\ pc'[s] \in Saved => computed'[s] \subseteq scores
    <3>1. Unsaved \cap Saved = {}
      BY DEF Unsaved, Saved, Loading, Saving
    <3> QED
      BY <1>0, <2>1, <2>2, <2>4, <3>1 DEF SavedInv
  <2>8. ScoresAllOrNone'
    <3> SUFFICES ASSUME NEW s \in Runs, {x \in scores : x.run = s} # {}
                 PROVE  {x \in scores : x.run = s} = computed'[s] /\ next'[s] > Len(AssetPairs)
      BY <2>1 DEF ScoresAllOrNone
    <3>1. s # r
      BY <2>4
    <3> QED
      BY <1>0, <2>1, <3>1 DEF SavedInv, ScoresAllOrNone
  <2> QED
    BY <2>1, <2>5, <2>6, <2>7, <2>8 DEF SavedInv, SubmittedIsSaved
<1>8. CASE Record(r) \/ Prune(r) \/ RecordFails(r)
  <2>1. Early
    BY <1>0, <1>8 DEF Record, Prune, RecordFails, Goes, Moves, Unsaved, locals, tables
  <2> QED
    BY <2>1, MovesKeepSaved
<1>9. CASE SaveScores(r)
  <2>1. /\ pc[r] = "scores" /\ pc[r] \in Unsaved
        /\ pc' = [pc EXCEPT ![r] = AfterScores(r)]
        /\ scores' = scores \cup computed[r]
        /\ UNCHANGED <<computed, next, submitted>>
    BY <1>9 DEF SaveScores, Goes, Inserted, locals, Unsaved
  <2>2. AfterScores(r) \in Saved
    BY DEF AfterScores, AfterRings, Saved, Saving
  <2>3. /\ \A x \in scores : x.run # r /\ x.run \in Runs
        /\ \A x \in computed[r] : x.run = r
    BY <2>1 DEF SavedInv, TypeInv, TypeOK, Row
  <2> HIDE DEF Early, Late
  <2>4. (\A x \in scores : x \in computed[x.run])'
    BY <2>1, <2>3 DEF SavedInv
  <2>5. \A s \in Runs : /\ pc'[s] \in Unsaved => \A x \in scores' : x.run # s
                        /\ pc'[s] \in Saved => computed'[s] \subseteq scores'
    <3>1. Unsaved \cap Saved = {}
      BY DEF Unsaved, Saved, Loading, Saving
    <3> QED
      BY <1>0, <2>1, <2>2, <2>3, <3>1 DEF SavedInv
  <2>6. ScoresAllOrNone'
    <3> SUFFICES ASSUME NEW s \in Runs, {x \in scores' : x.run = s} # {}
                 PROVE  {x \in scores' : x.run = s} = computed[s] /\ next[s] > Len(AssetPairs)
      BY <2>1 DEF ScoresAllOrNone
    <3>1. CASE s = r
      <4>1. {x \in scores' : x.run = s} = computed[s]
        BY <2>1, <2>3, <3>1
      <4> QED
        BY <2>1, <3>1, <4>1 DEF TypeInv, Positioned, Saving
    <3>2. CASE s # r
      <4>1. {x \in scores' : x.run = s} = {x \in scores : x.run = s}
        BY <2>1, <2>3, <3>2
      <4> QED
        BY <4>1 DEF SavedInv, ScoresAllOrNone
    <3> QED
      BY <3>1, <3>2
  <2> QED
    BY <2>1, <2>4, <2>5, <2>6 DEF SavedInv, SubmittedIsSaved
<1>10. CASE SaveRings(r) \/ SaveVectors(r) \/ Enqueue(r)
  <2>1. Late
    BY <1>0, <1>10 DEF SaveRings, SaveVectors, Enqueue, AfterRings, Goes, Moves, Saved, Saving,
                       locals, tables
  <2> QED
    BY <2>1, MovesKeepSaved
<1>11. ASSUME NEW x \in todo[r], Explain(r, x) \/ ExplainFails(r, x) PROVE Late
  BY <1>0, <1>11 DEF Explain, ExplainFails, Handled, AfterShap, Goes, Moves, Saved, Saving, tables
<1>12. CASE Stamps(r)
  <2>1. Early \/ Late
    BY <1>0, <1>12 DEF Stamps, TakeMoment, Goes, Moves, Unsaved, Saved, Loading, Saving, tables
  <2> QED
    BY <2>1, MovesKeepSaved
<1>13. CASE Submit(r)
  <2>1. /\ pc[r] = "submit" /\ pc' = [pc EXCEPT ![r] = "done"]
        /\ submitted' \subseteq submitted \cup computed[r]
        /\ UNCHANGED <<computed, next, scores>>
    BY <1>13 DEF Submit, Goes, locals
  <2>2. computed[r] \subseteq scores
    BY <2>1 DEF SavedInv, Saved, Saving
  <2>3. SubmittedIsSaved'
    BY <2>1, <2>2 DEF SavedInv, SubmittedIsSaved
  <2>4. \A s \in Runs : /\ pc'[s] \in Unsaved => \A x \in scores : x.run # s
                        /\ pc'[s] \in Saved => computed[s] \subseteq scores
    BY <1>0, <2>1, <2>2 DEF SavedInv, Unsaved, Saved, Loading, Saving
  <2>5. ScoresAllOrNone'
    BY <2>1 DEF SavedInv, ScoresAllOrNone
  <2> QED
    BY <2>1, <2>3, <2>4, <2>5 DEF SavedInv
<1>14. CASE Abort(r)
  <2>1. Late \/ (Moves(r, Unsaved, {"dead"}) /\ UNCHANGED next)
    BY <1>0, <1>14 DEF Abort, Running, Moves, Unsaved, Saved, Loading, Saving, locals, tables
  <2> QED
    BY <2>1, MovesKeepSaved
<1>15. Early \/ Late => SavedInv'
  BY MovesKeepSaved
<1> HIDE DEF Early, Late
<1> QED
  BY StepCases, <1>1, <1>2, <1>3, <1>5, <1>6, <1>7, <1>8, <1>9, <1>10, <1>11, <1>12, <1>13,
     <1>14, <1>15

LEMMA SavedInvariant == Spec => [](TypeInv /\ SavedInv)
<1>1. Init => TypeInv /\ SavedInv
  <2>1. Init => SavedInv
    BY DEF Init, SavedInv, ScoresAllOrNone, SubmittedIsSaved, Saved
  <2> QED
    BY <2>1, TypeInit
<1>2. TypeInv /\ SavedInv /\ [Next]_vars => (TypeInv /\ SavedInv)'
  <2> SUFFICES ASSUME TypeInv, SavedInv, [Next]_vars PROVE (TypeInv /\ SavedInv)'
    OBVIOUS
  <2>1. CASE UNCHANGED vars
    BY <2>1, TypeStep DEF vars, locals, tables, SavedInv, ScoresAllOrNone, SubmittedIsSaved
  <2> QED
    BY <2>1, TypeStep, SavedStep DEF Next
<1> QED
  BY <1>1, <1>2, PTL DEF Spec

\* A run's scores are in the table all together or not at all, whatever
\* exception or crash ends the run.
THEOREM AllOrNoneCorrect == Spec => []ScoresAllOrNone
<1>1. SavedInv => ScoresAllOrNone
  BY DEF SavedInv
<1> QED
  BY <1>1, SavedInvariant, PTL

\* What was given to the contract can be read in the table.
THEOREM SubmittedCorrect == Spec => []SubmittedIsSaved
<1>1. SavedInv => SubmittedIsSaved
  BY DEF SavedInv
<1> QED
  BY <1>1, SavedInvariant, PTL

-----------------------------------------------------------------------------
(* What a run stores of a pair before it scores it.                        *)

PoolsStored(r, p) == <<r, p>> \in PoolTrades => <<"pool", r, p>> \in raw
PaymentsStored(r, p) == <<r, p>> \in PathPayments => <<"payment", r, p>> \in raw
RoutesStored(r, p) == <<r, p>> \in Circular => <<"route", r, p>> \in raw
Stored(r, p) == PoolsStored(r, p) /\ PaymentsStored(r, p) /\ RoutesStored(r, p)

\* What run r has stored at each place inside a pair, and of each pair it has
\* scored.
RawOf(r) ==
    /\ \A x \in computed[r] : Stored(r, x.pair)
    /\ pc[r] = "payments" => PoolsStored(r, Pair(r))
    /\ pc[r] = "routes" => PoolsStored(r, Pair(r)) /\ PaymentsStored(r, Pair(r))
    /\ pc[r] = "score" => Stored(r, Pair(r))

RawInv == \A r \in Runs : RawOf(r)

\* A run keeps what it has while others act, the raw tables only grow.
LEMMA OthersKeepRaw ==
    ASSUME TypeInv, NEW r \in Runs, NEW s \in Runs, s # r, RawOf(s), Step(r)
    PROVE  RawOf(s)'
<1>1. raw \subseteq raw' /\ computed'[s] = computed[s] /\ next'[s] = next[s] /\ pc'[s] = pc[s]
  <2>0. /\ pc \in [Runs -> Loading \cup Saving]
        /\ next \in [Runs -> 1..Len(AssetPairs) + 1]
        /\ computed \in [Runs -> SUBSET Row]
    BY DEF TypeInv, TypeOK
  <2> DEFINE Untouched == raw \subseteq raw' /\ computed'[s] = computed[s]
                        /\ next'[s] = next[s] /\ pc'[s] = pc[s]
  <2>1. ASSUME NEW m \in Modes[r], Start(r, m) PROVE Untouched
    BY <2>0, <2>1 DEF Start, Goes, tables, reports
  <2>2. ASSUME NEW traded, NEW couples, Preload(r, traded, couples) PROVE Untouched
    BY <2>0, <2>2 DEF Preload, Goes, tables, reports
  <2>3. ASSUME NEW accounts, UseTrades(r, accounts), UNCHANGED <<computed, tables>> PROVE Untouched
    BY <2>0, <2>3 DEF UseTrades, Goes, tables, reports
  <2>4. ASSUME NEW accounts, LoadTrades(r, accounts) PROVE Untouched
    <3> HIDE DEF Untouched
    <3> QED
      BY <2>3, <2>4 DEF LoadTrades
  <2>5. CASE UsePreloaded(r)
    <3> HIDE DEF Untouched
    <3>1. Untouched
      BY <2>3, <2>5 DEF UsePreloaded
    <3> QED
      BY <3>1 DEF Untouched
  <2>6. ASSUME NEW ring, ScorePair(r, ring) PROVE Untouched
    BY <2>0, <2>6 DEF ScorePair, Goes, tables, reports
  <2>7. CASE SaveCorrelations(r) \/ SavePools(r) \/ SavePayments(r) \/ SaveRoutes(r)
    BY <2>0, <2>7 DEF SaveCorrelations, SavePools, SavePayments, SaveRoutes, SaveRaw, Goes, locals
  <2>8. CASE Record(r) \/ Prune(r) \/ RecordFails(r) \/ SaveScores(r) \/ SaveRings(r)
             \/ SaveVectors(r) \/ Enqueue(r) \/ Submit(r) \/ Abort(r)
    BY <2>0, <2>8 DEF Record, Prune, RecordFails, SaveScores, SaveRings, SaveVectors, Enqueue,
                      Submit, Abort, Goes, locals, tables, reports
  <2>9. ASSUME NEW x, Explain(r, x) \/ ExplainFails(r, x) PROVE Untouched
    BY <2>0, <2>9 DEF Explain, ExplainFails, Handled, Goes, tables, reports
  <2>10. CASE Stamps(r)
    BY <2>0, <2>10 DEF Stamps, TakeMoment, Goes, tables, reports
  <2> QED
    BY StepCases, <2>1, <2>2, <2>4, <2>5, <2>6, <2>7, <2>8, <2>9, <2>10
<1> QED
  BY <1>1 DEF RawOf, Stored, PoolsStored, PaymentsStored, RoutesStored, Pair

\* A run that goes on with what it has computed, outside a pair or into one
\* whose first raw rows are due.
LEMMA PlacesKeepRaw ==
    ASSUME NEW r \in Runs, RawOf(r), UNCHANGED <<computed, raw>>,
           pc'[r] \notin {"payments", "routes", "score"}
    PROVE  RawOf(r)'
  BY DEF RawOf, Stored, PoolsStored, PaymentsStored, RoutesStored

\* A run stores the raw rows of the pair in hand one kind after the other and
\* then scores it.
LEMMA OwnStepKeepsRaw ==
    ASSUME TypeInv, NEW r \in Runs, RawOf(r), Step(r)
    PROVE  RawOf(r)'
<1>0. /\ pc \in [Runs -> Loading \cup Saving]
      /\ next \in [Runs -> 1..Len(AssetPairs) + 1]
      /\ computed \in [Runs -> SUBSET Row]
  BY DEF TypeInv, TypeOK
<1> DEFINE Elsewhere == /\ UNCHANGED <<computed, raw>>
                        /\ pc'[r] \notin {"payments", "routes", "score"}
<1>1. ASSUME NEW m \in Modes[r], Start(r, m) PROVE Elsewhere
  BY <1>0, <1>1 DEF Start, Goes, tables, reports
<1>2. ASSUME NEW traded, NEW couples, Preload(r, traded, couples) PROVE Elsewhere
  BY <1>0, <1>2 DEF Preload, Goes, tables, reports
<1>3. ASSUME NEW accounts, UseTrades(r, accounts), UNCHANGED <<computed, raw>> PROVE RawOf(r)'
  <2>1. CASE accounts = {}
    <3>1. pc'[r] = AfterPair(next[r] + 1, computed[r])
      BY <1>0, <1>3, <2>1 DEF UseTrades, Goes
    <3>2. AfterPair(next[r] + 1, computed[r]) \notin {"payments", "routes", "score"}
      BY DEF AfterPair
    <3> QED
      BY <1>3, <3>1, <3>2, PlacesKeepRaw
  <2>2. CASE accounts # {}
    <3>1. pc'[r] = AfterLoad(r) /\ next' = next
      BY <1>0, <1>3, <2>2 DEF UseTrades, Goes
    <3>2. /\ AfterLoad(r) = "payments" => PoolsStored(r, Pair(r))
          /\ AfterLoad(r) = "score" => Stored(r, Pair(r))
          /\ AfterLoad(r) # "routes"
      BY RunAssumption DEF AfterLoad, AfterPools, Stored, PoolsStored, PaymentsStored,
                           RoutesStored, RunAssumption
    <3> QED
      BY <1>3, <3>1, <3>2 DEF RawOf, Pair, Stored, PoolsStored, PaymentsStored, RoutesStored
  <2> QED
    BY <2>1, <2>2
<1>4. ASSUME NEW accounts, LoadTrades(r, accounts) PROVE RawOf(r)'
  BY <1>3, <1>4 DEF LoadTrades, tables, reports
<1>5. CASE UsePreloaded(r)
  BY <1>3, <1>5 DEF UsePreloaded, tables, reports
<1>6. CASE SavePools(r)
  <2>1. /\ pc'[r] = AfterPools(r) /\ next' = next /\ computed' = computed
        /\ raw' = raw \cup {<<"pool", r, Pair(r)>>}
    BY <1>0, <1>6 DEF SavePools, SaveRaw, Goes, locals
  <2>2. /\ AfterPools(r) # "routes"
        /\ AfterPools(r) = "score" => PaymentsStored(r, Pair(r)) /\ RoutesStored(r, Pair(r))
    BY RunAssumption DEF AfterPools, PaymentsStored, RoutesStored, RunAssumption
  <2> HIDE DEF AfterPools
  <2> QED
    BY <2>1, <2>2 DEF RawOf, Pair, Stored, PoolsStored, PaymentsStored, RoutesStored
<1>7. CASE SavePayments(r)
  <2>1. /\ pc[r] = "payments" /\ pc'[r] = AfterPayments(r) /\ next' = next /\ computed' = computed
        /\ raw' = raw \cup {<<"payment", r, Pair(r)>>}
    BY <1>0, <1>7 DEF SavePayments, SaveRaw, Goes, locals
  <2>2. /\ AfterPayments(r) # "payments"
        /\ AfterPayments(r) = "score" => RoutesStored(r, Pair(r))
    BY DEF AfterPayments, RoutesStored
  <2> QED
    BY <2>1, <2>2 DEF RawOf, Pair, Stored, PoolsStored, PaymentsStored, RoutesStored
<1>8. CASE SaveRoutes(r)
  <2>1. /\ pc[r] = "routes" /\ pc'[r] = "score" /\ next' = next /\ computed' = computed
        /\ raw' = raw \cup {<<"route", r, Pair(r)>>}
    BY <1>0, <1>8 DEF SaveRoutes, SaveRaw, Goes, locals
  <2> QED
    BY <2>1 DEF RawOf, Pair, Stored, PoolsStored, PaymentsStored, RoutesStored
<1>9. ASSUME NEW ring, ScorePair(r, ring) PROVE RawOf(r)'
  <2> DEFINE new == {[run |-> r, wallet |-> w, pair |-> Pair(r), at |-> now] : w \in trades[r][Pair(r)]}
             to == AfterPair(next[r] + 1, computed'[r])
  <2>1. /\ pc[r] = "score" /\ pc'[r] = to /\ raw' = raw
        /\ computed'[r] = computed[r] \cup new
    BY <1>0, <1>9 DEF ScorePair, Goes, tables, reports
  <2>2. \A x \in new : x.pair = Pair(r)
    OBVIOUS
  <2>3. to \notin {"payments", "routes", "score"}
    BY DEF AfterPair
  <2> HIDE DEF new, to
  <2> QED
    BY <2>1, <2>2, <2>3 DEF RawOf, Stored, PoolsStored, PaymentsStored, RoutesStored
<1>10. CASE SaveCorrelations(r)
  BY <1>0, <1>10, PlacesKeepRaw DEF SaveCorrelations, Goes, locals
<1>11. CASE Record(r) \/ Prune(r) \/ RecordFails(r) \/ SaveScores(r) \/ SaveRings(r)
            \/ SaveVectors(r) \/ Enqueue(r) \/ Submit(r) \/ Abort(r)
  <2>1. Elsewhere
    BY <1>0, <1>11 DEF Record, Prune, RecordFails, SaveScores, SaveRings, SaveVectors, Enqueue,
                       Submit, Abort, AfterScores, AfterRings, Goes, locals, tables, reports
  <2> QED
    BY <2>1, PlacesKeepRaw
<1>12. ASSUME NEW x, Explain(r, x) \/ ExplainFails(r, x) PROVE Elsewhere
  BY <1>0, <1>12 DEF Explain, ExplainFails, Handled, AfterShap, Goes, tables, reports
<1>13. CASE Stamps(r)
  <2>1. Elsewhere
    BY <1>0, <1>13 DEF Stamps, TakeMoment, Goes, tables, reports
  <2> QED
    BY <2>1, PlacesKeepRaw
<1>14. Elsewhere => RawOf(r)'
  BY PlacesKeepRaw
<1> HIDE DEF Elsewhere
<1> QED
  BY StepCases, <1>1, <1>2, <1>4, <1>5, <1>6, <1>7, <1>8, <1>9, <1>10, <1>11, <1>12, <1>13, <1>14

\* The raw rows a score was computed from are stored before the score is,
\* whatever other runs do in between.
THEOREM RawFirstCorrect == Spec => []RawBeforeScores
<1>1. Init => RawInv
  BY DEF Init, RawInv, RawOf
<1>2. TypeInv /\ RawInv /\ [Next]_vars => RawInv'
  <2> SUFFICES ASSUME TypeInv, RawInv, [Next]_vars PROVE RawInv'
    OBVIOUS
  <2>1. CASE UNCHANGED vars
    BY <2>1 DEF vars, locals, tables, reports, RawInv, RawOf, Stored, PoolsStored, PaymentsStored,
                RoutesStored, Pair
  <2>2. ASSUME NEW r \in Runs, Step(r), NEW s \in Runs PROVE RawOf(s)'
    BY <2>2, OwnStepKeepsRaw, OthersKeepRaw DEF RawInv
  <2> QED
    BY <2>1, <2>2 DEF Next, RawInv
<1>3. TypeInv /\ SavedInv /\ RawInv => RawBeforeScores
  <2> SUFFICES ASSUME TypeInv, SavedInv, RawInv, NEW x \in scores
               PROVE  Stored(x.run, x.pair)
    BY DEF RawBeforeScores, Stored, PoolsStored, PaymentsStored, RoutesStored
  <2>1. x.run \in Runs /\ x \in computed[x.run]
    BY DEF TypeInv, TypeOK, Row, SavedInv
  <2> QED
    BY <2>1 DEF RawInv, RawOf
<1> QED
  BY <1>1, <1>2, <1>3, SavedInvariant, PTL DEF Spec

-----------------------------------------------------------------------------
(* Explanations: whose vector is the newest when a run explains its own.   *)

\* Runs under way at the same time are known to overlap.
OverlapInv ==
    \A r, s \in Runs : r # s /\ Running(r) /\ Running(s) => {r, s} \in overlap

\* No row and no save is from the future.
ClockInv ==
    /\ \A v \in vectors : v.at < now
    /\ \A r \in Runs : moment[r] < now

\* Once a run has its ts, a vector of another run is older, or of a run that
\* overlaps.
NewerIn(r) ==
    pc[r] \in {"vectors", "shap"} =>
        \A v \in vectors : v.run = r \/ {r, v.run} \in overlap \/ v.at < moment[r]

\* A run that explains has a vector of its own for everything it explains.
Owns(r, x) ==
    \E v \in vectors : /\ v.run = r /\ v.wallet = x.wallet /\ v.pair = x.pair
                       /\ v.at = moment[r]

OwnersIn(r) == pc[r] = "shap" => \A x \in todo[r] : Owns(r, x)

ShapInv ==
    /\ OverlapInv
    /\ ClockInv
    /\ \A r \in Runs : NewerIn(r) /\ OwnersIn(r)
    /\ ExplanationIsOwn

\* A step outside the explanations.
Quiet(r) ==
    /\ Running(r)
    /\ \E p \in (Loading \cup Saving) \ {"vectors", "shap"} : pc' = [pc EXCEPT ![r] = p]
    /\ now' \in {now, now + 1}
    /\ UNCHANGED <<vectors, moment, todo, overlap>>

LEMMA QuietKeepsShap ==
    ASSUME TypeInv, ShapInv, NEW r \in Runs, Quiet(r)
    PROVE  ShapInv'
<1>0. /\ pc \in [Runs -> Loading \cup Saving]
      /\ now \in Nat /\ moment \in [Runs -> Nat] /\ \A v \in vectors : v.at \in Nat
  BY DEF TypeInv, TypeOK, Vector
<1>1. OverlapInv'
  BY <1>0 DEF Quiet, ShapInv, OverlapInv, Running
<1>2. ClockInv'
  BY <1>0 DEF Quiet, ShapInv, ClockInv
<1>3. ASSUME NEW s \in Runs PROVE (NewerIn(s) /\ OwnersIn(s))'
  <2>1. pc'[s] \in {"vectors", "shap"} => pc'[s] = pc[s]
    <3>1. PICK p \in (Loading \cup Saving) \ {"vectors", "shap"} : pc' = [pc EXCEPT ![r] = p]
      BY DEF Quiet
    <3>2. p \notin {"vectors", "shap"}
      BY DEF Loading
    <3> QED
      BY <1>0, <3>1, <3>2
  <2>2. UNCHANGED <<vectors, moment, todo, overlap>> /\ NewerIn(s) /\ OwnersIn(s)
    BY DEF Quiet, ShapInv
  <2> QED
    BY <2>1, <2>2 DEF NewerIn, OwnersIn, Owns
<1>4. ExplanationIsOwn'
  BY DEF Quiet, ShapInv, ExplanationIsOwn
<1> QED
  BY <1>1, <1>2, <1>3, <1>4 DEF ShapInv

\* A run that starts overlaps every run under way.
LEMMA StartKeepsShap ==
    ASSUME TypeInv, ShapInv, NEW r \in Runs, NEW m, Start(r, m)
    PROVE  ShapInv'
<1>0. pc \in [Runs -> Loading \cup Saving]
  BY DEF TypeInv, TypeOK
<1>1. /\ pc[r] = "idle"
      /\ \E p \in {"preload", "load"} : pc' = [pc EXCEPT ![r] = p]
      /\ overlap \subseteq overlap'
      /\ \A s \in Runs : Running(s) => {r, s} \in overlap'
      /\ UNCHANGED <<now, vectors, moment, todo>>
  BY DEF Start, Goes, tables
<1>2. OverlapInv'
  <2> SUFFICES ASSUME NEW s \in Runs, NEW t \in Runs, s # t, Running(s)', Running(t)'
               PROVE  {s, t} \in overlap'
    BY DEF OverlapInv
  <2>1. CASE s = r
    BY <1>0, <1>1, <2>1 DEF Running
  <2>2. CASE t = r
    <3>1. {r, s} = {s, t}
      BY <2>2
    <3> QED
      BY <1>0, <1>1, <2>2, <3>1 DEF Running
  <2>3. CASE s # r /\ t # r
    BY <1>0, <1>1, <2>3 DEF Running, ShapInv, OverlapInv
  <2> QED
    BY <2>1, <2>2, <2>3
<1>3. ClockInv'
  BY <1>1 DEF ShapInv, ClockInv
<1>4. ASSUME NEW s \in Runs PROVE (NewerIn(s) /\ OwnersIn(s))'
  BY <1>0, <1>1 DEF ShapInv, NewerIn, OwnersIn, Owns
<1>5. ExplanationIsOwn'
  BY <1>1 DEF ShapInv, ExplanationIsOwn
<1> QED
  BY <1>2, <1>3, <1>4, <1>5 DEF ShapInv

\* A ts is later than every vector in the table.
LEMMA MomentKeepsShap ==
    ASSUME TypeInv, ShapInv, NEW r \in Runs, Stamps(r)
    PROVE  ShapInv'
<1>0. /\ pc \in [Runs -> Loading \cup Saving]
      /\ now \in Nat /\ moment \in [Runs -> Nat] /\ \A v \in vectors : v.at \in Nat
  BY DEF TypeInv, TypeOK, Vector
<1>1. /\ pc[r] \in {"correlate", "found", "scored"}
      /\ \E p \in {"correlations", "rings", "vectors"} : pc' = [pc EXCEPT ![r] = p]
      /\ moment' = [moment EXCEPT ![r] = now] /\ now' = now + 1
      /\ UNCHANGED <<vectors, todo, overlap>>
  BY DEF Stamps, TakeMoment, Goes, ClockMoves, Unchanged, tables
<1>2. OverlapInv'
  <2>1. Running(r) /\ \A s \in Runs : Running(s)' => Running(s)
    BY <1>0, <1>1 DEF Running
  <2> QED
    BY <1>1, <2>1 DEF ShapInv, OverlapInv
<1>3. ClockInv'
  BY <1>0, <1>1 DEF ShapInv, ClockInv
<1>4. ASSUME NEW s \in Runs PROVE (NewerIn(s) /\ OwnersIn(s))'
  <2>1. CASE s = r
    BY <1>0, <1>1, <2>1 DEF ShapInv, ClockInv, NewerIn, OwnersIn
  <2>2. CASE s # r
    <3>1. pc'[s] = pc[s] /\ moment'[s] = moment[s]
      BY <1>0, <1>1, <2>2
    <3> QED
      BY <1>1, <3>1 DEF ShapInv, NewerIn, OwnersIn, Owns
  <2> QED
    BY <2>1, <2>2
<1>5. ExplanationIsOwn'
  BY <1>1 DEF ShapInv, ExplanationIsOwn
<1> QED
  BY <1>2, <1>3, <1>4, <1>5 DEF ShapInv

\* The vectors of a run are the newest, or of a run that overlaps.
LEMMA VectorsKeepShap ==
    ASSUME TypeInv, ShapInv, NEW r \in Runs, SaveVectors(r)
    PROVE  ShapInv'
<1> DEFINE new == {[run |-> r, wallet |-> x.wallet, pair |-> x.pair, at |-> moment[r], shap |-> NoRun] :
                     x \in computed[r]}
<1>0. /\ pc \in [Runs -> Loading \cup Saving]
      /\ now \in Nat /\ moment \in [Runs -> Nat] /\ todo \in [Runs -> SUBSET Row]
      /\ \A v \in vectors : v.at \in Nat
  BY DEF TypeInv, TypeOK, Vector
<1>1. /\ pc[r] = "vectors" /\ pc' = [pc EXCEPT ![r] = "shap"]
      /\ vectors' = vectors \cup new
      /\ todo' = [todo EXCEPT ![r] = computed[r]]
      /\ UNCHANGED <<now, moment, overlap>>
  BY DEF SaveVectors, Goes, Unchanged
<1>2. /\ \A v \in new : v.run = r /\ v.at = moment[r] /\ v.shap = NoRun
      /\ \A x \in computed[r] : \E v \in new : v.wallet = x.wallet /\ v.pair = x.pair
  <2>1. ASSUME NEW x \in computed[r]
        PROVE  \E v \in new : v.wallet = x.wallet /\ v.pair = x.pair
    <3> DEFINE own == [run |-> r, wallet |-> x.wallet, pair |-> x.pair, at |-> moment[r], shap |-> NoRun]
    <3>1. own \in new /\ own.wallet = x.wallet /\ own.pair = x.pair
      OBVIOUS
    <3> QED
      BY <3>1
  <2>2. \A v \in new : v.run = r /\ v.at = moment[r] /\ v.shap = NoRun
    OBVIOUS
  <2> QED
    BY <2>1, <2>2
<1> HIDE DEF new
<1>3. OverlapInv'
  <2>1. Running(r) /\ \A s \in Runs : Running(s)' => Running(s)
    BY <1>0, <1>1 DEF Running
  <2> QED
    BY <1>1, <2>1 DEF ShapInv, OverlapInv
<1>4. ClockInv'
  BY <1>0, <1>1, <1>2 DEF ShapInv, ClockInv
<1>5. ASSUME NEW s \in Runs PROVE (NewerIn(s) /\ OwnersIn(s))'
  <2>1. CASE s = r
    <3>1. NewerIn(r)'
      BY <1>0, <1>1, <1>2 DEF ShapInv, NewerIn
    <3>2. OwnersIn(r)'
      <4>1. todo'[r] = computed[r]
        BY <1>0, <1>1
      <4> QED
        BY <1>1, <1>2, <4>1 DEF OwnersIn, Owns
    <3> QED
      BY <2>1, <3>1, <3>2
  <2>2. CASE s # r
    <3>1. pc'[s] = pc[s] /\ todo'[s] = todo[s]
      BY <1>0, <1>1, <2>2
    <3>2. pc[s] \in {"vectors", "shap"} => {s, r} \in overlap
      BY <1>1, <2>2 DEF ShapInv, OverlapInv, Running
    <3>3. NewerIn(s) /\ OwnersIn(s)
      BY DEF ShapInv
    <3>4. NewerIn(s)'
      BY <1>1, <1>2, <3>1, <3>2, <3>3 DEF NewerIn
    <3>5. OwnersIn(s)'
      BY <1>1, <3>1, <3>3 DEF OwnersIn, Owns
    <3> QED
      BY <3>4, <3>5
  <2> QED
    BY <2>1, <2>2
<1>6. ExplanationIsOwn'
  BY <1>1, <1>2 DEF ShapInv, ExplanationIsOwn
<1> QED
  BY <1>3, <1>4, <1>5, <1>6 DEF ShapInv

\* An explanation goes to the run's own vector or to one of a run that
\* overlaps; nothing but the explanation of a vector changes.
LEMMA ExplainKeepsShap ==
    ASSUME TypeInv, ShapInv, NEW r \in Runs, NEW x \in todo[r],
           Explain(r, x) \/ ExplainFails(r, x)
    PROVE  ShapInv'
<1>0. /\ pc \in [Runs -> Loading \cup Saving]
      /\ now \in Nat /\ moment \in [Runs -> Nat] /\ todo \in [Runs -> SUBSET Row]
      /\ vectors \subseteq Vector
  BY DEF TypeInv, TypeOK
<1>1. /\ pc[r] = "shap" /\ \E p \in {"shap", "enqueue"} : pc' = [pc EXCEPT ![r] = p]
      /\ todo' = [todo EXCEPT ![r] = todo[r] \ {x}]
      /\ UNCHANGED <<now, moment, overlap>>
  BY DEF Explain, ExplainFails, Handled, AfterShap, Goes, Unchanged
<1>2. OverlapInv'
  <2>1. Running(r) /\ \A s \in Runs : Running(s)' => Running(s)
    BY <1>0, <1>1 DEF Running
  <2> QED
    BY <1>1, <2>1 DEF ShapInv, OverlapInv
<1> DEFINE Same(v, u) == v.run = u.run /\ v.wallet = u.wallet /\ v.pair = u.pair /\ v.at = u.at
<1>3. /\ \A v \in vectors' : \E u \in vectors :
           Same(v, u) /\ (v.shap = u.shap \/ (v.shap = r /\ u \in NewestVector(x)))
      /\ \A u \in vectors : \E v \in vectors' : Same(v, u)
  <2>1. CASE ExplainFails(r, x)
    BY <2>1 DEF ExplainFails, tables
  <2>2. CASE Explain(r, x)
    <3> DEFINE target == NewestVector(x)
               changed == {[v EXCEPT !.shap = r] : v \in target}
    <3>1. vectors' = (vectors \ target) \cup changed
      BY <2>2 DEF Explain
    <3>2. target \subseteq vectors
      BY DEF NewestVector, Newest, Of
    <3>3. /\ \A v \in changed : \E u \in target : v.shap = r /\ Same(v, u)
          /\ \A u \in target : \E v \in changed : Same(v, u)
      <4> DEFINE Changed(u) == [u EXCEPT !.shap = r]
      <4>1. ASSUME NEW u \in target
            PROVE  Changed(u) \in changed /\ Changed(u).shap = r /\ Same(Changed(u), u)
        <5>1. u \in Vector
          BY <1>0, <3>2
        <5> QED
          BY <5>1 DEF Vector
      <4>2. \A v \in changed : \E u \in target : v = Changed(u)
        OBVIOUS
      <4>3. ASSUME NEW v \in changed PROVE \E u \in target : v.shap = r /\ Same(v, u)
        <5>1. PICK u \in target : v = Changed(u)
          BY <4>2
        <5> HIDE DEF Changed, target, changed
        <5> QED
          BY <4>1, <5>1
      <4>4. ASSUME NEW u \in target PROVE \E v \in changed : Same(v, u)
        <5> HIDE DEF Changed, target, changed
        <5> QED
          BY <4>1
      <4> QED
        BY <4>3, <4>4
    <3> HIDE DEF target, changed
    <3>4. \A v \in vectors' : \E u \in vectors :
            Same(v, u) /\ (v.shap = u.shap \/ (v.shap = r /\ u \in target))
      BY <3>1, <3>2, <3>3
    <3>5. \A u \in vectors : \E v \in vectors' : Same(v, u)
      BY <3>1, <3>3
    <3> QED
      BY <3>4, <3>5 DEF target
  <2> QED
    BY <2>1, <2>2
<1>4. ClockInv'
  BY <1>0, <1>1, <1>3 DEF ShapInv, ClockInv
<1>5. ASSUME NEW s \in Runs PROVE (NewerIn(s) /\ OwnersIn(s))'
  <2>1. /\ pc'[s] \in {"vectors", "shap"} => pc'[s] = pc[s]
        /\ todo'[s] \subseteq todo[s]
    BY <1>0, <1>1
  <2>2. NewerIn(s) /\ OwnersIn(s)
    BY DEF ShapInv
  <2>3. NewerIn(s)'
    BY <1>1, <1>3, <2>1, <2>2 DEF NewerIn
  <2>4. OwnersIn(s)'
    BY <1>1, <1>3, <2>1, <2>2 DEF OwnersIn, Owns
  <2> QED
    BY <2>3, <2>4
<1>6. ExplanationIsOwn'
  <2> SUFFICES ASSUME NEW v \in vectors', v.shap \notin {NoRun, v.run}
               PROVE  {v.shap, v.run} \in overlap
    BY <1>1 DEF ExplanationIsOwn
  <2>1. PICK u \in vectors : /\ Same(v, u)
                             /\ v.shap = u.shap \/ (v.shap = r /\ u \in NewestVector(x))
    BY <1>3
  <2>2. CASE v.shap = u.shap
    BY <2>1, <2>2 DEF ShapInv, ExplanationIsOwn
  <2>3. CASE v.shap = r /\ u \in NewestVector(x)
    <3>1. PICK o \in vectors : o.run = r /\ o.wallet = x.wallet /\ o.pair = x.pair /\ o.at = moment[r]
      BY <1>1 DEF ShapInv, OwnersIn, Owns
    <3>2. o.at <= u.at
      BY <2>3, <3>1 DEF NewestVector, Newest, Of
    <3>3. u.run = r \/ {r, u.run} \in overlap \/ u.at < moment[r]
      BY <1>1 DEF ShapInv, NewerIn
    <3>4. u.at \in Nat /\ moment[r] \in Nat
      BY <1>0 DEF Vector
    <3> QED
      BY <2>1, <2>3, <3>1, <3>2, <3>3, <3>4
  <2> QED
    BY <2>1, <2>2, <2>3
<1> QED
  BY <1>2, <1>4, <1>5, <1>6 DEF ShapInv

\* What a run explains is stored with its own vector, or with that of a run
\* under way at the same time.
THEOREM ExplanationCorrect == Spec => []ExplanationIsOwn
<1>1. Init => ShapInv
  BY DEF Init, ShapInv, OverlapInv, ClockInv, NewerIn, OwnersIn, ExplanationIsOwn, Running
<1>2. TypeInv /\ ShapInv /\ [Next]_vars => ShapInv'
  <2> SUFFICES ASSUME TypeInv, ShapInv, [Next]_vars PROVE ShapInv'
    OBVIOUS
  <2>1. CASE UNCHANGED vars
    BY <2>1 DEF vars, locals, tables, ShapInv, OverlapInv, ClockInv, NewerIn, OwnersIn, Owns,
                ExplanationIsOwn, Running
  <2>2. ASSUME NEW r \in Runs, Step(r) PROVE ShapInv'
    <3>0. pc \in [Runs -> Loading \cup Saving] /\ now \in Nat
      BY DEF TypeInv, TypeOK
    <3>1. ASSUME NEW traded, NEW couples, Preload(r, traded, couples) PROVE Quiet(r)
      BY <3>0, <3>1 DEF Preload, Goes, ClockMoves, Unchanged, Quiet, Running, Loading, tables
    <3>2. ASSUME NEW accounts, UseTrades(r, accounts), now' \in {now, now + 1},
                 UNCHANGED <<vectors, moment, todo, overlap>>
          PROVE  Quiet(r)
      <4>1. AfterPair(next[r] + 1, computed[r]) \in (Loading \cup Saving) \ {"vectors", "shap"}
        BY DEF AfterPair, Loading, Saving
      <4>2. AfterLoad(r) \in Loading
        BY DEF AfterLoad, AfterPools, Loading
      <4>3. Running(r)
        BY <3>2 DEF UseTrades, Goes, Running
      <4> QED
        BY <3>2, <4>1, <4>2, <4>3 DEF UseTrades, Goes, Quiet, Loading
    <3>3. ASSUME NEW accounts, LoadTrades(r, accounts) PROVE Quiet(r)
      BY <3>2, <3>3 DEF LoadTrades, ClockMoves, Unchanged, tables
    <3>4. CASE UsePreloaded(r)
      BY <3>2, <3>4, QuietKeepsShap DEF UsePreloaded, Unchanged, tables
    <3>5. ASSUME NEW ring, ScorePair(r, ring) PROVE Quiet(r)
      <4>1. AfterPair(next[r] + 1, computed'[r]) \in (Loading \cup Saving) \ {"vectors", "shap"}
        BY DEF AfterPair, Loading, Saving
      <4>2. /\ pc[r] = "score" /\ pc' = [pc EXCEPT ![r] = AfterPair(next[r] + 1, computed'[r])]
            /\ now' = now + 1 /\ UNCHANGED <<vectors, moment, todo, overlap>>
        BY <3>5 DEF ScorePair, Goes, ClockMoves, Unchanged, tables
      <4> QED
        BY <4>1, <4>2 DEF Quiet, Running
    <3>6. CASE SaveCorrelations(r) \/ SavePools(r) \/ SavePayments(r) \/ SaveRoutes(r)
      <4>1. Quiet(r)
        BY <3>6 DEF SaveCorrelations, SavePools, SavePayments, SaveRoutes, SaveRaw, AfterPools,
                    AfterPayments, Goes, Unchanged, Quiet, Running, Loading, locals
      <4> QED
        BY <4>1, QuietKeepsShap
    <3>7. CASE Record(r) \/ Prune(r) \/ RecordFails(r) \/ SaveScores(r) \/ SaveRings(r)
      <4>1. Quiet(r)
        BY <3>7 DEF Record, Prune, RecordFails, SaveScores, SaveRings, AfterScores, AfterRings, Goes,
                    ClockMoves, Unchanged, Quiet, Running, Saving, locals, tables
      <4> QED
        BY <4>1, QuietKeepsShap
    <3>8. CASE Enqueue(r) \/ Submit(r) \/ Abort(r)
      <4>1. Quiet(r)
        BY <3>8 DEF Enqueue, Submit, Abort, Goes, Unchanged, Quiet, Running, Saving, locals, tables
      <4> QED
        BY <4>1, QuietKeepsShap
    <3> HIDE DEF Quiet
    <3> QED
      BY <2>2, StepCases, <3>1, <3>3, <3>4, <3>5, <3>6, <3>7, <3>8, StartKeepsShap, QuietKeepsShap,
         MomentKeepsShap, VectorsKeepShap, ExplainKeepsShap
  <2> QED
    BY <2>1, <2>2 DEF Next
<1>3. Spec => []TypeInv
  BY TypeInit, TypeStep, PTL DEF Spec
<1>4. ShapInv => ExplanationIsOwn
  BY DEF ShapInv
<1> QED
  BY <1>1, <1>2, <1>3, <1>4, PTL DEF Spec
-----------------------------------------------------------------------------
(* Order of runs.  The moments a run has written, to its rows or as the time *)
(* of its loads, are the clock's and its own; of two runs that did not       *)
(* overlap, the earlier has ended and all its moments are earlier.           *)

\* The moments of a run's loads, of its scores, and of its saves.
Times(r) ==
    (({loaded[r][p] : p \in Pairs} \cup {moment[r]}) \ {0})
        \cup {x.at : x \in computed[r]}
        \cup {y.at : y \in {y \in rings \cup correlations : y.run = r}}

Before(r, s) == ~Running(r) /\ \A t \in Times(r), u \in Times(s) : t < u

\* Every moment is past, and nobody else's; a run that is still to start has
\* none; a save under way has its ts.
TimesInv ==
    /\ now # 0
    /\ \A r \in Runs : \A t \in Times(r) : t \in Nat /\ t < now
    /\ \A r, s \in Runs : r # s => Times(r) \cap Times(s) = {}
    /\ \A r \in Runs : pc[r] = "idle" => Times(r) = {}
    /\ \A r \in Runs : pc[r] \in {"correlations", "rings", "vectors"} => moment[r] # 0

OrderInv ==
    \A r, s \in Runs :
        r # s /\ pc[r] # "idle" /\ pc[s] # "idle" /\ {r, s} \notin overlap =>
            Before(r, s) \/ Before(s, r)

\* A moment of a run is one of its loads, saves, scores or rows.
LEMMA TimesOf ==
    ASSUME NEW r, NEW t
    PROVE  t \in Times(r) <=>
             \/ t # 0 /\ \E p \in Pairs : loaded[r][p] = t
             \/ t # 0 /\ moment[r] = t
             \/ \E x \in computed[r] : x.at = t
             \/ \E y \in rings \cup correlations : y.run = r /\ y.at = t
  BY DEF Times

\* A step of a run leaves the other runs' places alone; a run that starts
\* notes who is under way.
LEMMA StepShape ==
    ASSUME TypeInv, NEW r \in Runs, Step(r)
    PROVE  /\ \A s \in Runs \ {r} : pc'[s] = pc[s]
           /\ pc'[r] # "idle"
           /\ overlap \subseteq overlap'
           /\ \/ Running(r)
              \/ /\ pc[r] = "idle"
                 /\ \A s \in Runs : Running(s) => {r, s} \in overlap'
                 /\ UNCHANGED <<now, loaded, moment, computed, rings, correlations>>
           /\ Running(r) => UNCHANGED overlap
           /\ pc[r] \in {"correlate", "found", "scored"} \/ ~Stamps(r)
           /\ pc'[r] \in {"correlations", "rings", "vectors"} => Stamps(r)
<1> DEFINE Goal == /\ \A s \in Runs \ {r} : pc'[s] = pc[s]
                   /\ pc'[r] # "idle"
                   /\ overlap \subseteq overlap'
                   /\ \/ Running(r)
                      \/ /\ pc[r] = "idle"
                         /\ \A s \in Runs : Running(s) => {r, s} \in overlap'
                         /\ UNCHANGED <<now, loaded, moment, computed, rings, correlations>>
                   /\ Running(r) => UNCHANGED overlap
                   /\ pc[r] \in {"correlate", "found", "scored"} \/ ~Stamps(r)
                   /\ pc'[r] \in {"correlations", "rings", "vectors"} => Stamps(r)
<1> SUFFICES Goal
  OBVIOUS
<1>0. /\ pc \in [Runs -> Loading \cup Saving]
      /\ pc[r] \in {"correlate", "found", "scored"} \/ ~Stamps(r)
  BY DEF TypeInv, TypeOK, Stamps, TakeMoment, Goes
<1>1. ASSUME NEW m, Start(r, m) PROVE Goal
  BY <1>0, <1>1 DEF Start, Goes, Running, tables, reports
<1>2. ASSUME Running(r), UNCHANGED overlap,
             NEW place \in (Loading \cup Saving) \ {"idle", "correlations", "rings", "vectors"},
             pc' = [pc EXCEPT ![r] = place]
      PROVE  Goal
  BY <1>0, <1>2
<1>3. CASE Stamps(r)
  BY <1>0, <1>3 DEF Stamps, TakeMoment, Goes, Unchanged, Running
<1> HIDE DEF Goal
<1>4. ASSUME NEW traded, NEW couples, Preload(r, traded, couples) PROVE Goal
  BY <1>2, <1>4 DEF Preload, Goes, Unchanged, Running, Loading
<1>5. ASSUME NEW accounts, UseTrades(r, accounts), UNCHANGED overlap PROVE Goal
  <2>1. /\ AfterPair(next[r] + 1, computed[r]) \in {"load", "scores", "record"}
        /\ AfterLoad(r) \in {"pools", "payments", "score"}
    BY DEF AfterPair, AfterLoad, AfterPools
  <2> QED
    BY <1>2, <1>5, <2>1 DEF UseTrades, Goes, Running, Loading, Saving
<1>6. ASSUME NEW accounts, LoadTrades(r, accounts) PROVE Goal
  BY <1>5, <1>6 DEF LoadTrades, Unchanged
<1>7. CASE UsePreloaded(r)
  BY <1>5, <1>7 DEF UsePreloaded, Unchanged
<1>8. ASSUME NEW ring, ScorePair(r, ring) PROVE Goal
  <2>1. AfterPair(next[r] + 1, computed'[r]) \in {"load", "scores", "record"}
    BY DEF AfterPair
  <2> QED
    BY <1>2, <1>8, <2>1 DEF ScorePair, Goes, Unchanged, Running, Loading, Saving
<1>9. CASE SaveCorrelations(r) \/ SavePools(r) \/ SavePayments(r) \/ SaveRoutes(r)
  <2>1. /\ AfterPools(r) \in {"payments", "score"} /\ AfterPayments(r) \in {"routes", "score"}
    BY DEF AfterPools, AfterPayments
  <2> QED
    BY <1>2, <1>9, <2>1 DEF SaveCorrelations, SavePools, SavePayments, SaveRoutes, SaveRaw, Goes,
                            Unchanged, Running, Loading
<1>10. CASE Record(r) \/ Prune(r) \/ RecordFails(r) \/ Enqueue(r) \/ Submit(r) \/ Abort(r)
  BY <1>2, <1>10 DEF Record, Prune, RecordFails, Enqueue, Submit, Abort, Goes, Unchanged, Running,
                     Saving
<1>11. CASE SaveScores(r) \/ SaveRings(r) \/ SaveVectors(r)
  <2>1. /\ AfterScores(r) \in {"enqueue", "found", "scored"} /\ AfterRings(r) \in {"enqueue", "scored"}
    BY DEF AfterScores, AfterRings
  <2> QED
    BY <1>2, <1>11, <2>1 DEF SaveScores, SaveRings, SaveVectors, Goes, Unchanged, Running, Saving
<1>12. ASSUME NEW x, Explain(r, x) \/ ExplainFails(r, x) PROVE Goal
  <2>1. AfterShap(r, todo'[r]) \in {"enqueue", "shap"}
    BY DEF AfterShap
  <2> QED
    BY <1>2, <1>12, <2>1 DEF Explain, ExplainFails, Handled, Goes, Unchanged, Running, Saving
<1> QED
  BY StepCases, <1>1, <1>3, <1>4, <1>6, <1>7, <1>8, <1>9, <1>10, <1>11, <1>12

\* A step of a run adds at most the present moment, its own, and then the
\* clock moves on.
LEMMA TimesStep ==
    ASSUME TypeInv, TimesInv, NEW r \in Runs, Step(r)
    PROVE  /\ \A s \in Runs \ {r} : Times(s)' \subseteq Times(s)
           /\ \/ now' \in {now, now + 1} /\ Times(r)' \subseteq Times(r)
              \/ now' = now + 1 /\ Times(r)' \subseteq Times(r) \cup {now}
           /\ pc'[r] \in {"correlations", "rings", "vectors"} => moment'[r] # 0
<1> DEFINE Goal == /\ \A s \in Runs \ {r} : Times(s)' \subseteq Times(s)
                   /\ \/ now' \in {now, now + 1} /\ Times(r)' \subseteq Times(r)
                      \/ now' = now + 1 /\ Times(r)' \subseteq Times(r) \cup {now}
<1>0. /\ pc \in [Runs -> Loading \cup Saving] /\ loaded \in [Runs -> [Pairs -> Nat]]
      /\ computed \in [Runs -> SUBSET Row] /\ moment \in [Runs -> Nat] /\ now # 0
  BY DEF TypeInv, TypeOK, TimesInv
<1>1. Goal
  <2>1. ASSUME UNCHANGED <<loaded, moment, computed, rings, correlations>>, now' \in {now, now + 1}
        PROVE  Goal
    BY <2>1 DEF Times
  <2>2. ASSUME NEW f \in [Pairs -> Nat], loaded' = [loaded EXCEPT ![r] = f],
               \A p \in Pairs : f[p] \in {loaded[r][p], now}, now' = now + 1,
               UNCHANGED <<moment, computed, rings, correlations>>
        PROVE  Goal
    <3>1. loaded'[r] = f /\ \A s \in Runs \ {r} : loaded'[s] = loaded[s]
      BY <1>0, <2>2
    <3>2. ASSUME NEW s \in Runs \ {r} PROVE Times(s)' \subseteq Times(s)
      BY <2>2, <3>1 DEF Times
    <3>3. ASSUME NEW t \in Times(r)' PROVE t \in Times(r) \cup {now}
      BY <2>2, <3>1, <3>3 DEF Times
    <3> QED BY <2>2, <3>2, <3>3
  <2>3. ASSUME NEW ring, ScorePair(r, ring) PROVE Goal
    <3>1. /\ \A s \in Runs \ {r} : computed'[s] = computed[s]
          /\ \A x \in computed'[r] : x \in computed[r] \/ x.at = now
          /\ now' = now + 1 /\ UNCHANGED <<loaded, moment, rings, correlations>>
      BY <1>0, <2>3 DEF ScorePair, ClockMoves, tables, reports
    <3> QED BY <3>1 DEF Times
  <2>4. CASE Stamps(r)
    <3>1. /\ moment'[r] = now /\ \A s \in Runs \ {r} : moment'[s] = moment[s]
          /\ now' = now + 1 /\ UNCHANGED <<loaded, computed, rings, correlations>>
      BY <1>0, <2>4 DEF Stamps, TakeMoment, ClockMoves, tables, reports
    <3> QED BY <3>1 DEF Times
  <2>5. ASSUME pc[r] \in {"correlations", "rings"}, NEW items,
               rings' \cup correlations' = rings \cup correlations \cup ReportRows(r, items),
               UNCHANGED <<now, loaded, moment, computed>>
        PROVE  Goal
    <3>1. \A y \in ReportRows(r, items) : y.run = r /\ y.at = moment[r]
      BY DEF ReportRows, Stamp
    <3>2. moment[r] # 0
      BY <2>5 DEF TimesInv
    <3> QED BY <2>5, <3>1, <3>2 DEF Times
  <2> HIDE DEF Goal
  <2>6. ASSUME NEW traded, NEW couples, Preload(r, traded, couples) PROVE Goal
    <3>1. /\ loaded' = [loaded EXCEPT ![r] = [p \in Pairs |-> now]] /\ now' = now + 1
          /\ UNCHANGED <<moment, computed, rings, correlations>>
      BY <2>6 DEF Preload, ClockMoves, tables, reports
    <3>2. [p \in Pairs |-> now] \in [Pairs -> Nat]
      BY DEF TypeInv, TypeOK
    <3> QED BY <2>2, <3>1, <3>2
  <2>7. ASSUME NEW accounts, LoadTrades(r, accounts) PROVE Goal
    <3> DEFINE f == [loaded[r] EXCEPT ![Pair(r)] = now]
    <3>1. /\ loaded' = [loaded EXCEPT ![r] = f] /\ now' = now + 1
          /\ UNCHANGED <<moment, computed, rings, correlations>>
      BY <1>0, <2>7 DEF LoadTrades, ClockMoves, tables, reports
    <3>2. f \in [Pairs -> Nat] /\ \A p \in Pairs : f[p] \in {loaded[r][p], now}
      BY <1>0 DEF TypeInv, TypeOK
    <3> QED BY <2>2, <3>1, <3>2
  <2>8. CASE SaveCorrelations(r) \/ SaveRings(r)
    <3>1. PICK items : rings' \cup correlations' = rings \cup correlations \cup ReportRows(r, items)
      BY <2>8 DEF SaveCorrelations, SaveRings
    <3>2. /\ pc[r] \in {"correlations", "rings"}
          /\ UNCHANGED <<now, loaded, moment, computed>>
      BY <2>8 DEF SaveCorrelations, SaveRings, Goes, locals
    <3> QED BY <2>5, <3>1, <3>2
  <2>9. ASSUME NEW x, Explain(r, x) \/ ExplainFails(r, x) PROVE Goal
    BY <2>1, <2>9 DEF Explain, ExplainFails, tables, reports
  <2>10. ASSUME NEW m, Start(r, m) PROVE Goal
    BY <2>1, <2>10 DEF Start, tables, reports
  <2>11. CASE \/ UsePreloaded(r) \/ SavePools(r) \/ SavePayments(r) \/ SaveRoutes(r)
              \/ Record(r) \/ Prune(r) \/ RecordFails(r) \/ SaveScores(r) \/ SaveVectors(r)
              \/ Enqueue(r) \/ Submit(r) \/ Abort(r)
    BY <2>1, <2>11 DEF UsePreloaded, SavePools, SavePayments, SaveRoutes, SaveRaw, Record, Prune,
         RecordFails, SaveScores, SaveVectors, Enqueue, Submit, Abort, ClockMoves, locals, tables,
         reports
  <2> QED
    BY StepCases, <2>3, <2>4, <2>6, <2>7, <2>8, <2>9, <2>10, <2>11
<1>2. ASSUME pc'[r] \in {"correlations", "rings", "vectors"} PROVE moment'[r] # 0
  <2>1. Stamps(r)
    BY <1>2, StepShape
  <2> QED BY <1>0, <2>1 DEF Stamps, TakeMoment
<1> QED
  BY <1>1, <1>2

\* A run takes no moment for another.
LEMMA OthersMoment ==
    ASSUME TypeInv, NEW r \in Runs, Step(r), NEW s \in Runs \ {r}
    PROVE  moment'[s] = moment[s]
<1>0. moment \in [Runs -> Nat]
  BY DEF TypeInv, TypeOK
<1>1. CASE Stamps(r)
  BY <1>0, <1>1 DEF Stamps, TakeMoment
<1>2. CASE UNCHANGED moment
  BY <1>2
<1>3. ASSUME NEW x, Explain(r, x) \/ ExplainFails(r, x) PROVE UNCHANGED moment
  BY <1>3 DEF Explain, ExplainFails
<1>4. CASE \/ \E m \in Modes[r] : Start(r, m)
           \/ \E traded, couples : Preload(r, traded, couples)
           \/ \E accounts : LoadTrades(r, accounts)
           \/ \E ring : ScorePair(r, ring)
           \/ SaveVectors(r) \/ UsePreloaded(r)
  BY <1>4 DEF Start, Preload, LoadTrades, ScorePair, SaveVectors, UsePreloaded
<1>5. CASE \/ SaveCorrelations(r) \/ SavePools(r) \/ SavePayments(r) \/ SaveRoutes(r)
           \/ Record(r) \/ Prune(r) \/ RecordFails(r) \/ SaveScores(r) \/ SaveRings(r)
           \/ Enqueue(r) \/ Submit(r) \/ Abort(r)
  BY <1>5 DEF SaveCorrelations, SavePools, SavePayments, SaveRoutes, SaveRaw, Record, Prune,
              RecordFails, SaveScores, SaveRings, Enqueue, Submit, Abort, locals
<1> QED
  BY StepCases, <1>1, <1>2, <1>3, <1>4, <1>5

\* TimesInv: every step keeps it.
LEMMA TimesKept ==
    ASSUME TypeInv, TimesInv, NEW r \in Runs, Step(r)
    PROVE  TimesInv'
<1>0. now \in Nat /\ \A s \in Runs : \A t \in Times(s) : t \in Nat /\ t < now
  BY DEF TypeInv, TypeOK, TimesInv
<1>1. now' \in Nat /\ now' >= now /\ now' # 0
  BY <1>0, TimesStep DEF TimesInv
<1>2. ASSUME NEW s \in Runs, NEW t \in Times(s)' PROVE t \in Nat /\ t < now'
  BY <1>0, <1>1, <1>2, TimesStep
<1>3. ASSUME NEW s \in Runs \ {r} PROVE Times(r)' \cap Times(s)' = {}
  <2>1. now \notin Times(s) /\ Times(r) \cap Times(s) = {}
    BY <1>0 DEF TimesInv
  <2> QED BY <2>1, TimesStep
<1>4. ASSUME NEW s \in Runs, NEW t \in Runs, s # t PROVE Times(s)' \cap Times(t)' = {}
  <2>1. CASE s = r \/ t = r
    BY <1>3, <1>4, <2>1
  <2>2. CASE s # r /\ t # r
    BY <1>4, <2>2, TimesStep DEF TimesInv
  <2> QED BY <2>1, <2>2
<1>5. ASSUME NEW s \in Runs, pc'[s] = "idle" PROVE Times(s)' = {}
  <2>1. s # r /\ pc[s] = "idle"
    BY <1>5, StepShape
  <2> QED BY <2>1, TimesStep DEF TimesInv
<1>6. ASSUME NEW s \in Runs, pc'[s] \in {"correlations", "rings", "vectors"}
      PROVE  moment'[s] # 0
  <2>1. CASE s = r
    BY <1>6, <2>1, TimesStep
  <2>2. CASE s # r
    <3>1. pc'[s] = pc[s] /\ moment'[s] = moment[s]
      BY <2>2, StepShape, OthersMoment
    <3> QED BY <1>6, <3>1 DEF TimesInv
  <2> QED BY <2>1, <2>2
<1> QED
  BY <1>1, <1>2, <1>4, <1>5, <1>6 DEF TimesInv

\* OrderInv: every step keeps it; a run whose moments are all earlier than
\* another's has ended, and gets no more.
LEMMA OrderKept ==
    ASSUME TypeInv, TimesInv, OrderInv, NEW r \in Runs, Step(r)
    PROVE  OrderInv'
<1>0. \A s \in Runs : \A t \in Times(s) : t \in Nat /\ t < now
  BY DEF TimesInv
<1>1. ASSUME NEW q \in Runs \ {r}, pc[q] # "idle", {r, q} \notin overlap'
      PROVE  Before(q, r)'
  <2>1. pc'[q] = pc[q] /\ Times(q)' \subseteq Times(q)
    BY StepShape, TimesStep
  <2>2. CASE pc[r] = "idle"
    <3>1. ~Running(q)
      BY <1>1, <2>2, StepShape DEF Running
    <3>2. Times(r)' \subseteq Times(r)
      <4>1. UNCHANGED <<now, loaded, moment, computed, rings, correlations>>
        BY <2>2, StepShape DEF Running
      <4> QED BY <4>1 DEF Times
    <3>3. Times(r) = {}
      BY <2>2 DEF TimesInv
    <3> QED BY <2>1, <3>1, <3>2, <3>3 DEF Before, Running
  <2>3. CASE pc[r] # "idle"
    <3>1. Running(r) /\ UNCHANGED overlap
      BY <2>3, StepShape
    <3>2. Before(q, r)
      <4>1. Before(r, q) \/ Before(q, r)
        BY <1>1, <2>3, <3>1 DEF OrderInv
      <4> QED BY <3>1, <4>1 DEF Before
    <3>3. Times(r)' \subseteq Times(r) \cup {now}
      BY TimesStep
    <3> QED BY <1>0, <2>1, <3>2, <3>3 DEF Before, Running
  <2> QED BY <2>2, <2>3
<1>2. ASSUME NEW s \in Runs, NEW t \in Runs, s # t, pc'[s] # "idle", pc'[t] # "idle",
             {s, t} \notin overlap'
      PROVE  Before(s, t)' \/ Before(t, s)'
  <2>1. CASE s = r
    BY <1>1, <1>2, <2>1, StepShape
  <2>2. CASE t = r
    <3>1. {r, s} = {s, t}
      BY <2>2
    <3> QED BY <1>1, <1>2, <2>2, <3>1, StepShape
  <2>3. CASE s # r /\ t # r
    <3>1. /\ pc'[s] = pc[s] /\ pc'[t] = pc[t] /\ overlap \subseteq overlap'
          /\ Times(s)' \subseteq Times(s) /\ Times(t)' \subseteq Times(t)
      BY <2>3, StepShape, TimesStep
    <3>2. Before(s, t) \/ Before(t, s)
      BY <1>2, <3>1 DEF OrderInv
    <3> QED BY <3>1, <3>2 DEF Before, Running
  <2> QED BY <2>1, <2>2, <2>3
<1> QED
  BY <1>2 DEF OrderInv

LEMMA OrderInvariant == Spec => [](TypeInv /\ SavedInv /\ TimesInv /\ OrderInv)
<1>1. Init => TimesInv /\ OrderInv
  BY DEF Init, TimesInv, OrderInv, Times
<1>2. TypeInv /\ TimesInv /\ OrderInv /\ [Next]_vars => TimesInv' /\ OrderInv'
  <2> SUFFICES ASSUME TypeInv, TimesInv, OrderInv, [Next]_vars PROVE TimesInv' /\ OrderInv'
    OBVIOUS
  <2>1. CASE UNCHANGED vars
    <3>1. UNCHANGED <<now, pc, loaded, moment, computed, rings, correlations, overlap>>
      BY <2>1 DEF vars, locals, tables, reports
    <3>2. \A r \in Runs : Times(r)' = Times(r)
      BY <3>1 DEF Times
    <3> QED BY <3>1, <3>2 DEF TimesInv, OrderInv, Before, Running
  <2>2. ASSUME NEW r \in Runs, Step(r) PROVE TimesInv' /\ OrderInv'
    BY <2>2, TimesKept, OrderKept
  <2> QED BY <2>1, <2>2 DEF Next
<1> QED
  BY <1>1, <1>2, SavedInvariant, PTL DEF Spec

\* Of two runs that did not overlap, the one whose moments are later loaded
\* later.
LEMMA LaterIsFresher ==
    ASSUME TypeInv, TimesInv, OrderInv, NEW r \in Runs, NEW s \in Runs, r # s,
           NEW t \in Times(r), NEW u \in Times(s), u <= t
    PROVE  Fresher(r, s)
<1>1. pc[r] # "idle" /\ pc[s] # "idle" /\ t \in Nat /\ u \in Nat
  BY DEF TimesInv
<1>2. CASE {r, s} \in overlap
  BY <1>2 DEF Fresher
<1>3. CASE Before(s, r)
  <2>1. ASSUME NEW p \in Pairs, NEW q \in Pairs, loaded[s][p] # 0, loaded[r][q] # 0
        PROVE  loaded[s][p] < loaded[r][q]
    <3>1. loaded[s][p] \in Times(s) /\ loaded[r][q] \in Times(r)
      BY <2>1 DEF Times
    <3> QED BY <1>3, <3>1 DEF Before
  <2> QED BY <2>1 DEF Fresher
<1>4. ~Before(r, s)
  BY <1>1 DEF Before
<1> QED
  BY <1>1, <1>2, <1>3, <1>4 DEF OrderInv

\* The score get_latest_scores shows is that of the run that read Horizon last
\* (LatestScoreIsFreshest).
THEOREM FreshestCorrect == Spec => []LatestScoreIsFreshest
<1>1. TypeInv /\ SavedInv /\ TimesInv /\ OrderInv => LatestScoreIsFreshest
  <2> SUFFICES ASSUME TypeInv, SavedInv, TimesInv, OrderInv, NEW w, NEW p,
                      NEW x \in Newest(Of(scores, w, p)), NEW y \in Of(scores, w, p),
                      x.run # y.run
               PROVE  Fresher(x.run, y.run)
    BY DEF LatestScoreIsFreshest
  <2>1. x \in scores /\ y \in scores /\ y.at <= x.at
    BY DEF Newest, Of
  <2>2. x.run \in Runs /\ y.run \in Runs
    BY <2>1 DEF TypeInv, TypeOK, Row
  <2>3. x.at \in Times(x.run) /\ y.at \in Times(y.run)
    BY <2>1 DEF SavedInv, Times
  <2> QED BY <2>1, <2>2, <2>3, LaterIsFresher
<1> QED
  BY <1>1, OrderInvariant, PTL
-----------------------------------------------------------------------------
(* Reports.  A run saves its rings and its correlations once, after it has   *)
(* found them all and at a moment of its own: the newest rows are the whole  *)
(* report of one run.                                                        *)

BeforeRings == Loading \cup {"record", "prune", "scores", "found", "rings"}
BeforeCorrelations == {"idle", "preload", "correlate", "correlations"}

RowsOf(table, r) == {y \in table : y.run = r}

\* The table has no row of the run, or all that the run found, at one moment.
Whole(table, items, r) ==
    RowsOf(table, r) # {} =>
        \E at \in {y.at : y \in RowsOf(table, r)} :
            RowsOf(table, r) = {[run |-> r, item |-> i, at |-> at] : i \in items[r]}

ReportInv ==
    \A r \in Runs :
        /\ pc[r] \in BeforeRings => RowsOf(rings, r) = {}
        /\ pc[r] \in BeforeCorrelations => RowsOf(correlations, r) = {}
        /\ Whole(rings, found, r)
        /\ Whole(correlations, correlated, r)

\* A run's rows, inserted at once.
LEMMA ReportRowsAreWhole ==
    ASSUME NEW r \in Runs, NEW items
    PROVE  /\ \A y \in ReportRows(r, items) : y.run = r /\ y.at = moment[r]
           /\ ReportRows(r, items) = {[run |-> r, item |-> i, at |-> moment[r]] : i \in items}
  BY DEF ReportRows, Stamp

\* The places of a run before its rings are saved are not reached again, nor
\* those before its correlations are; what it found changes before.
LEMMA ReportShape ==
    ASSUME TypeInv, NEW r \in Runs, Step(r)
    PROVE  /\ pc'[r] \in BeforeRings => pc[r] \in BeforeRings
           /\ pc'[r] \in BeforeCorrelations => pc[r] \in BeforeCorrelations
           /\ \A s \in Runs \ {r} : found'[s] = found[s] /\ correlated'[s] = correlated[s]
           /\ pc[r] \in BeforeRings \/ UNCHANGED found
           /\ pc[r] \in BeforeCorrelations \/ UNCHANGED correlated
           /\ UNCHANGED rings \/ SaveRings(r)
           /\ UNCHANGED correlations \/ SaveCorrelations(r)
           /\ SaveRings(r) => pc'[r] \notin BeforeRings /\ UNCHANGED found
           /\ SaveCorrelations(r) =>
                pc'[r] \notin BeforeCorrelations /\ UNCHANGED correlated
<1> DEFINE Places == /\ pc'[r] \in BeforeRings => pc[r] \in BeforeRings
                     /\ pc'[r] \in BeforeCorrelations => pc[r] \in BeforeCorrelations
           Still == UNCHANGED <<found, correlated, rings, correlations>>
           Moved == /\ \A s \in Runs \ {r} : found'[s] = found[s] /\ correlated'[s] = correlated[s]
                    /\ pc[r] \in BeforeRings \/ UNCHANGED found
                    /\ pc[r] \in BeforeCorrelations \/ UNCHANGED correlated
                    /\ UNCHANGED rings \/ SaveRings(r)
                    /\ UNCHANGED correlations \/ SaveCorrelations(r)
<1>0. /\ pc \in [Runs -> Loading \cup Saving]
      /\ found \in [Runs -> SUBSET Pairs] /\ correlated \in [Runs -> SUBSET Couples]
  BY DEF TypeInv, TypeOK, Couples
<1> USE DEF BeforeRings, BeforeCorrelations, Loading, Saving
<1>1. /\ SaveRings(r) => pc'[r] \notin BeforeRings /\ UNCHANGED found
      /\ SaveCorrelations(r) => pc'[r] \notin BeforeCorrelations /\ UNCHANGED correlated
  <2>1. AfterRings(r) \in {"enqueue", "scored"}
    BY DEF AfterRings
  <2> QED BY <1>0, <2>1 DEF SaveRings, SaveCorrelations, Goes, locals
<1>2. Places
  <2>1. ASSUME NEW m, Start(r, m) PROVE Places
    BY <1>0, <2>1 DEF Start, Goes
  <2>2. ASSUME NEW traded, NEW couples, Preload(r, traded, couples) PROVE Places
    BY <1>0, <2>2 DEF Preload, Goes
  <2>3. ASSUME NEW accounts, UseTrades(r, accounts) PROVE Places
    <3>1. /\ AfterPair(next[r] + 1, computed[r]) \in {"load", "scores", "record"}
          /\ AfterLoad(r) \in {"pools", "payments", "score"}
      BY DEF AfterPair, AfterLoad, AfterPools
    <3> QED BY <1>0, <2>3, <3>1 DEF UseTrades, Goes
  <2>4. ASSUME NEW ring, ScorePair(r, ring) PROVE Places
    <3>1. AfterPair(next[r] + 1, computed'[r]) \in {"load", "scores", "record"}
      BY DEF AfterPair
    <3> QED BY <1>0, <2>4, <3>1 DEF ScorePair, Goes
  <2>5. CASE SaveCorrelations(r) \/ SavePools(r) \/ SavePayments(r) \/ SaveRoutes(r)
    <3>1. /\ AfterPools(r) \in {"payments", "score"} /\ AfterPayments(r) \in {"routes", "score"}
      BY DEF AfterPools, AfterPayments
    <3> QED BY <1>0, <2>5, <3>1 DEF SaveCorrelations, SavePools, SavePayments, SaveRoutes, SaveRaw,
                                    Goes
  <2>6. CASE Record(r) \/ Prune(r) \/ RecordFails(r) \/ Enqueue(r) \/ Submit(r) \/ Abort(r)
             \/ Stamps(r)
    BY <1>0, <2>6 DEF Record, Prune, RecordFails, Enqueue, Submit, Abort, Stamps, TakeMoment, Goes
  <2>7. CASE SaveScores(r) \/ SaveRings(r) \/ SaveVectors(r)
    <3>1. /\ AfterScores(r) \in {"enqueue", "found", "scored"}
          /\ AfterRings(r) \in {"enqueue", "scored"}
      BY DEF AfterScores, AfterRings
    <3> QED BY <1>0, <2>7, <3>1 DEF SaveScores, SaveRings, SaveVectors, Goes
  <2>8. ASSUME NEW x, Explain(r, x) \/ ExplainFails(r, x) PROVE Places
    <3>1. AfterShap(r, todo'[r]) \in {"enqueue", "shap"}
      BY DEF AfterShap
    <3> QED BY <1>0, <2>8, <3>1 DEF Explain, ExplainFails, Handled, Goes
  <2> HIDE DEF Places
  <2>9. ASSUME NEW accounts, LoadTrades(r, accounts) PROVE Places
    BY <2>3, <2>9 DEF LoadTrades
  <2>10. CASE UsePreloaded(r)
    BY <2>3, <2>10 DEF UsePreloaded
  <2> QED
    BY StepCases, <2>1, <2>2, <2>4, <2>5, <2>6, <2>7, <2>8, <2>9, <2>10
<1>3. Still => Moved
  OBVIOUS
<1>4. Moved
  <2>1. ASSUME NEW traded, NEW couples, Preload(r, traded, couples) PROVE Moved
    BY <1>0, <2>1 DEF Preload, Goes, tables, reports
  <2>2. ASSUME NEW ring, ScorePair(r, ring) PROVE Moved
    BY <1>0, <2>2 DEF ScorePair, tables, reports
  <2>3. CASE SaveCorrelations(r) \/ SaveRings(r)
    BY <2>3 DEF SaveCorrelations, SaveRings, locals
  <2> HIDE DEF Moved
  <2>4. ASSUME NEW x, Explain(r, x) \/ ExplainFails(r, x) PROVE Still
    BY <2>4 DEF Explain, ExplainFails, tables, reports
  <2>5. ASSUME NEW m, Start(r, m) PROVE Still
    BY <2>5 DEF Start, tables, reports
  <2>6. ASSUME NEW accounts, LoadTrades(r, accounts) PROVE Still
    BY <2>6 DEF LoadTrades, tables, reports
  <2>7. CASE \/ UsePreloaded(r) \/ SavePools(r) \/ SavePayments(r) \/ SaveRoutes(r)
             \/ Record(r) \/ Prune(r) \/ RecordFails(r) \/ SaveScores(r) \/ SaveVectors(r)
             \/ Enqueue(r) \/ Submit(r) \/ Stamps(r) \/ Abort(r)
    <3>1. Still
      BY <2>7 DEF UsePreloaded, SavePools, SavePayments, SaveRoutes, SaveRaw, Record, Prune,
         RecordFails, SaveScores, SaveVectors, Enqueue, Submit, Stamps, TakeMoment, Abort, locals,
         tables, reports
    <3> QED BY <1>3, <3>1
  <2> HIDE DEF Still
  <2> QED
    BY StepCases, <1>3, <2>1, <2>2, <2>3, <2>4, <2>5, <2>6, <2>7
<1> QED
  BY <1>1, <1>2, <1>4

\* A table that gets no row of the run, whose items stay or which has none yet,
\* stays whole; so does one that gets all the run found at once.
LEMMA WholeKept ==
    ASSUME NEW table, NEW items, NEW table1, NEW items1, NEW s \in Runs,
           Whole(table, items, s),
           \/ RowsOf(table1, s) = RowsOf(table, s) /\ items1[s] = items[s]
           \/ RowsOf(table1, s) = {}
           \/ RowsOf(table1, s) = ReportRows(s, items1[s])
    PROVE  Whole(table1, items1, s)
<1>1. CASE RowsOf(table1, s) = RowsOf(table, s) /\ items1[s] = items[s]
  BY <1>1 DEF Whole
<1>2. CASE RowsOf(table1, s) = {}
  BY <1>2 DEF Whole
<1>3. CASE RowsOf(table1, s) = ReportRows(s, items1[s]) /\ RowsOf(table1, s) # {}
  <2>1. moment[s] \in {y.at : y \in RowsOf(table1, s)}
    BY <1>3, ReportRowsAreWhole
  <2> HIDE DEF RowsOf
  <2> QED BY <1>3, <2>1, ReportRowsAreWhole DEF Whole
<1> QED
  BY <1>1, <1>2, <1>3

\* ReportInv: every step keeps it.
LEMMA ReportKept ==
    ASSUME TypeInv, ReportInv, NEW r \in Runs, Step(r)
    PROVE  ReportInv'
<1>0. /\ pc[r] \in BeforeRings => RowsOf(rings, r) = {}
      /\ pc[r] \in BeforeCorrelations => RowsOf(correlations, r) = {}
  BY DEF ReportInv
<1>1. SaveRings(r) => /\ rings' = rings \cup ReportRows(r, found[r]) /\ found' = found
                      /\ RowsOf(rings, r) = {}
  BY <1>0, ReportShape DEF SaveRings, Goes, BeforeRings
<1>2. SaveCorrelations(r) =>
        /\ correlations' = correlations \cup ReportRows(r, correlated[r])
        /\ correlated' = correlated /\ RowsOf(correlations, r) = {}
  BY <1>0, ReportShape DEF SaveCorrelations, Goes, BeforeCorrelations
<1>3. ASSUME NEW s \in Runs \ {r}
      PROVE  RowsOf(rings', s) = RowsOf(rings, s)
             /\ RowsOf(correlations', s) = RowsOf(correlations, s)
  BY <1>1, <1>2, ReportShape, ReportRowsAreWhole DEF RowsOf
<1>4. \/ RowsOf(rings', r) = RowsOf(rings, r) /\ found'[r] = found[r]
      \/ RowsOf(rings', r) = {}
      \/ SaveRings(r) /\ RowsOf(rings', r) = ReportRows(r, found'[r])
  <2>1. CASE SaveRings(r)
    BY <1>1, <2>1, ReportRowsAreWhole DEF RowsOf
  <2>2. CASE UNCHANGED rings
    BY <1>0, <2>2, ReportShape
  <2> QED BY <2>1, <2>2, ReportShape
<1>5. \/ RowsOf(correlations', r) = RowsOf(correlations, r) /\ correlated'[r] = correlated[r]
      \/ RowsOf(correlations', r) = {}
      \/ SaveCorrelations(r) /\ RowsOf(correlations', r) = ReportRows(r, correlated'[r])
  <2>1. CASE SaveCorrelations(r)
    BY <1>2, <2>1, ReportRowsAreWhole DEF RowsOf
  <2>2. CASE UNCHANGED correlations
    BY <1>0, <2>2, ReportShape
  <2> QED BY <2>1, <2>2, ReportShape
<1>6. ASSUME NEW s \in Runs PROVE Whole(rings', found', s) /\ Whole(correlations', correlated', s)
  <2>0. Whole(rings, found, s) /\ Whole(correlations, correlated, s)
    BY DEF ReportInv
  <2>1. CASE s = r
    BY <1>4, <1>5, <2>0, <2>1, WholeKept
  <2>2. CASE s # r
    <3>1. found'[s] = found[s] /\ correlated'[s] = correlated[s]
      BY <2>2, ReportShape
    <3> QED BY <1>3, <2>0, <2>2, <3>1, WholeKept
  <2> QED BY <2>1, <2>2
<1>7. ASSUME NEW s \in Runs
      PROVE  /\ pc'[s] \in BeforeRings => RowsOf(rings', s) = {}
             /\ pc'[s] \in BeforeCorrelations => RowsOf(correlations', s) = {}
  <2>1. CASE s = r
    BY <1>0, <2>1, ReportShape
  <2>2. CASE s # r
    <3>1. pc'[s] = pc[s]
      BY <2>2, StepShape
    <3> QED BY <1>3, <2>2, <3>1 DEF ReportInv
  <2> QED BY <2>1, <2>2
<1> QED
  BY <1>6, <1>7 DEF ReportInv, Whole, RowsOf

\* A table of whole reports, each at moments of its run's own, shows one run,
\* the freshest.
LEMMA WholeShowsOne ==
    ASSUME TypeInv, TimesInv, OrderInv, NEW table, NEW items,
           table \subseteq rings \cup correlations, \A r \in Runs : Whole(table, items, r)
    PROVE  ShowsOneRun(table, items)
<1>0. ASSUME NEW y \in table PROVE y.run \in Runs /\ y.at \in Times(y.run)
  BY <1>0 DEF TypeInv, TypeOK, Report, Times
<1> SUFFICES ASSUME NEW x \in Newest(table)
             PROVE  /\ {[run |-> x.run, item |-> i, at |-> x.at] : i \in items[x.run]} = Newest(table)
                    /\ \A y \in table : y.run # x.run => Fresher(x.run, y.run)
  BY DEF ShowsOneRun
<1> DEFINE r == x.run
<1>1. x \in table /\ r \in Runs /\ x.at \in Times(r) /\ \A y \in table : y.at <= x.at
  BY <1>0 DEF Newest
<1>2. \A y \in table : y.run # r => Fresher(r, y.run)
  BY <1>0, <1>1, LaterIsFresher
<1>3. ASSUME NEW y \in Newest(table) PROVE y.run = r
  <2>1. y \in table /\ x.at <= y.at /\ y.at <= x.at
    BY <1>1 DEF Newest
  <2>2. y.run \in Runs /\ y.at \in Times(y.run) /\ y.at \in Nat /\ x.at \in Nat
    BY <1>0, <1>1, <2>1 DEF TimesInv
  <2>3. y.at = x.at
    BY <2>1, <2>2
  <2> QED BY <1>1, <2>2, <2>3 DEF TimesInv
<1>4. x \in RowsOf(table, r)
  BY <1>1 DEF RowsOf
<1>5. PICK at : RowsOf(table, r) = {[run |-> r, item |-> i, at |-> at] : i \in items[r]}
  BY <1>1, <1>4 DEF Whole
<1>6. at = x.at
  BY <1>4, <1>5
<1>7. RowsOf(table, r) = Newest(table)
  <2>1. \A y \in RowsOf(table, r) : y \in table /\ y.at = x.at
    BY <1>5, <1>6 DEF RowsOf
  <2>2. RowsOf(table, r) \subseteq Newest(table)
    BY <1>1, <2>1 DEF Newest
  <2>3. Newest(table) \subseteq RowsOf(table, r)
    BY <1>3 DEF Newest, RowsOf
  <2> QED BY <2>2, <2>3
<1> QED
  BY <1>2, <1>5, <1>6, <1>7

\* What the readers of wash_rings and pair_correlations see is the whole report
\* of one run, the freshest (ReportsOfOneRun).
THEOREM ReportsCorrect == Spec => []ReportsOfOneRun
<1>1. Init => ReportInv
  BY DEF Init, ReportInv, RowsOf, Whole
<1>2. TypeInv /\ ReportInv /\ [Next]_vars => ReportInv'
  <2> SUFFICES ASSUME TypeInv, ReportInv, [Next]_vars PROVE ReportInv'
    OBVIOUS
  <2>1. CASE UNCHANGED vars
    BY <2>1 DEF vars, locals, tables, reports, ReportInv, RowsOf, Whole
  <2>2. ASSUME NEW r \in Runs, Step(r) PROVE ReportInv'
    BY <2>2, ReportKept
  <2> QED BY <2>1, <2>2 DEF Next
<1>3. TypeInv /\ TimesInv /\ OrderInv /\ ReportInv => ReportsOfOneRun
  BY WholeShowsOne DEF ReportInv, ReportsOfOneRun
<1> QED
  BY <1>1, <1>2, <1>3, OrderInvariant, PTL DEF Spec
-----------------------------------------------------------------------------
(* Snapshots.  A batch has a moment of its own, so a pruning, which keeps    *)
(* whole moments, leaves less than SnapshotKeep rows and one more batch.     *)

RowsAt(t) == {x \in snapshots : x.at = t}
Pruning == {r \in Runs : pc[r] = "prune"}

SnapshotInv ==
    /\ IsFiniteSet(snapshots)
    /\ \A x \in snapshots : /\ x.at \in Int /\ x.at < now
                            /\ Cardinality(RowsAt(x.at)) <= Batch
    /\ SnapshotsBounded

LEMMA BatchType ==
    /\ Batch \in Nat /\ IsFiniteSet(Accounts \X Pairs)
    /\ Cardinality(Accounts \X Pairs) <= Batch
    /\ SnapshotCap \in Nat /\ SnapshotKeep \in Nat \ {0}
<1>1. IsFiniteSet(Accounts) /\ Cardinality(Accounts) \in Nat
  BY RunAssumption, FS_CardinalityType DEF RunAssumption
<1>2. AssetPairs \in Surjection(1..Len(AssetPairs), Pairs)
  BY RunAssumption DEF RunAssumption, Surjection, Pairs
<1>3. /\ IsFiniteSet(1..Len(AssetPairs))
      /\ Cardinality(1..Len(AssetPairs)) = Len(AssetPairs)
  BY LengthType, FS_Interval
<1>4. IsFiniteSet(Pairs) /\ Cardinality(Pairs) <= Len(AssetPairs) /\ Cardinality(Pairs) \in Nat
  BY <1>2, <1>3, FS_Surjection, FS_CardinalityType
<1>5. /\ IsFiniteSet(Accounts \X Pairs)
      /\ Cardinality(Accounts \X Pairs) = Cardinality(Accounts) * Cardinality(Pairs)
  BY <1>1, <1>4, FS_Product
<1>6. ASSUME NEW a \in Nat, NEW b \in Nat, NEW c \in Nat, b <= c
      PROVE  a * b <= a * c /\ a * c \in Nat
  BY <1>6
<1>7. /\ Cardinality(Accounts) * Cardinality(Pairs) <= Batch
      /\ Batch \in Nat
  BY <1>1, <1>4, <1>6, LengthType DEF Batch
<1>8. SnapshotCap \in Nat /\ SnapshotKeep \in Nat \ {0}
  BY RunAssumption DEF RunAssumption
<1> QED
  BY <1>5, <1>7, <1>8

LEMMA UnionSize ==
    ASSUME NEW S, NEW T, IsFiniteSet(S), IsFiniteSet(T)
    PROVE  /\ IsFiniteSet(S \cup T) /\ Cardinality(S \cup T) \in Nat
           /\ Cardinality(S \cup T) <= Cardinality(S) + Cardinality(T)
<1>1. /\ IsFiniteSet(S \cup T)
      /\ Cardinality(S \cup T) = Cardinality(S) + Cardinality(T) - Cardinality(S \cap T)
  BY FS_Union
<1>2. IsFiniteSet(S \cap T)
  BY FS_Subset
<1>3. /\ Cardinality(S \cap T) \in Nat /\ Cardinality(S) \in Nat /\ Cardinality(T) \in Nat
      /\ Cardinality(S \cup T) \in Nat
  BY <1>1, <1>2, FS_CardinalityType
<1> QED
  BY <1>1, <1>3

\* The rows a run makes at one moment are at most one for each account and pair.
LEMMA BatchSize ==
    ASSUME NEW r, NEW t, NEW S,
           \A x \in S : \E w \in Accounts, p \in Pairs :
               x = [run |-> r, wallet |-> w, pair |-> p, at |-> t]
    PROVE  IsFiniteSet(S) /\ Cardinality(S) \in Nat /\ Cardinality(S) <= Batch
<1> DEFINE f == [x \in S |-> <<x.wallet, x.pair>>]
<1>1. f \in [S -> Accounts \X Pairs]
  OBVIOUS
<1>2. \A x, y \in S : f[x] = f[y] => x = y
  OBVIOUS
<1> HIDE DEF f
<1>3. f \in Injection(S, Accounts \X Pairs)
  BY <1>1, <1>2 DEF Injection, IsInjective
<1>4. IsFiniteSet(S) /\ Cardinality(S) <= Cardinality(Accounts \X Pairs)
  BY <1>3, BatchType, FS_Injection
<1>5. Cardinality(S) \in Nat /\ Cardinality(Accounts \X Pairs) \in Nat
  BY <1>4, BatchType, FS_CardinalityType
<1> QED
  BY <1>4, <1>5, BatchType

\* A finite set of rows has an oldest one.
LEMMA OldestRow ==
    ASSUME NEW S, IsFiniteSet(S), S # {}, \A x \in S : x.at \in Int
    PROVE  \E x \in S : \A y \in S : x.at <= y.at
<1> DEFINE older(x) == {y \in S : y.at < x.at}
           R == StrictSubsetOrdering(S)
           T == {older(x) : x \in S}
<1>1. T \subseteq FiniteSubsetsOf(S) /\ T # {}
  <2>1. \A x \in S : IsFiniteSet(older(x))
    BY FS_Subset
  <2> QED BY <2>1 DEF FiniteSubsetsOf
<1>2. IsWellFoundedOn(R, FiniteSubsetsOf(S))
  BY FS_StrictSubsetOrderingWellFounded
<1>3. PICK A \in T : \A B \in T : ~(<<B, A>> \in R)
  <2> HIDE DEF T, R
  <2> QED BY <1>1, <1>2, WFMin
<1>4. PICK x \in S : A = older(x)
  OBVIOUS
<1>5. ASSUME NEW y \in S, ~(x.at <= y.at) PROVE FALSE
  <2>1. y \in older(x) /\ y \notin older(y)
    BY <1>5
  <2>2. older(y) \subseteq older(x)
    BY <1>5
  <2>3. <<older(y), A>> \in R
    BY <1>4, <2>1, <2>2 DEF StrictSubsetOrdering
  <2> QED BY <1>3, <2>3
<1> QED
  BY <1>5

\* What a pruning keeps.
LEMMA KeptSize ==
    ASSUME TypeInv, SnapshotInv
    PROVE  /\ IsFiniteSet(Kept) /\ Cardinality(Kept) \in Nat
           /\ Cardinality(Kept) <= SnapshotKeep + Batch - 1
<1>1. Kept \subseteq snapshots /\ IsFiniteSet(snapshots)
  BY DEF Kept, SnapshotInv
<1>2. IsFiniteSet(Kept) /\ Cardinality(Kept) \in Nat
  BY <1>1, FS_Subset, FS_CardinalityType
<1>3. CASE Kept = {}
  <2>1. Cardinality(Kept) = 0
    BY <1>3, FS_EmptySet
  <2> QED BY <1>2, <2>1, BatchType
<1>4. CASE Kept # {}
  <2>1. PICK x \in Kept : \A y \in Kept : x.at <= y.at
    <3>1. \A y \in Kept : y.at \in Int
      BY <1>1 DEF SnapshotInv
    <3> QED BY <1>2, <1>4, <3>1, OldestRow
  <2> DEFINE newer == {y \in snapshots : y.at > x.at}
  <2>2. x \in snapshots /\ Cardinality(newer) < SnapshotKeep
    BY DEF Kept
  <2>3. Kept \subseteq newer \cup RowsAt(x.at)
    <3> SUFFICES ASSUME NEW y \in Kept PROVE y.at > x.at \/ y.at = x.at
      BY <1>1 DEF RowsAt
    <3> QED BY <1>1, <2>1, <2>2 DEF SnapshotInv
  <2>4. /\ IsFiniteSet(newer) /\ Cardinality(newer) \in Nat
        /\ IsFiniteSet(RowsAt(x.at)) /\ Cardinality(RowsAt(x.at)) \in Nat
    BY <1>1, FS_Subset, FS_CardinalityType DEF RowsAt
  <2>5. Cardinality(RowsAt(x.at)) <= Batch
    BY <2>2 DEF SnapshotInv
  <2> HIDE DEF newer
  <2>6. IsFiniteSet(newer \cup RowsAt(x.at))
        /\ Cardinality(newer \cup RowsAt(x.at)) \in Nat
        /\ Cardinality(newer \cup RowsAt(x.at)) <= Cardinality(newer) + Cardinality(RowsAt(x.at))
    BY <2>4, UnionSize
  <2>7. Cardinality(Kept) <= Cardinality(newer \cup RowsAt(x.at))
    BY <2>3, <2>6, FS_Subset
  <2> QED BY <1>2, <2>2, <2>4, <2>5, <2>6, <2>7, BatchType
<1> QED
  BY <1>2, <1>3, <1>4

\* A step that records, prunes or fails, and one that does neither.
LEMMA PruneShape ==
    ASSUME TypeInv, NEW r \in Runs, Step(r)
    PROVE  \/ Record(r) \/ Prune(r) \/ RecordFails(r) \/ Abort(r)
           \/ UNCHANGED <<snapshots, failures>> /\ now' >= now /\ Pruning' = Pruning
<1> DEFINE Other == /\ UNCHANGED <<snapshots, failures>> /\ now' >= now
                    /\ Pruning' = Pruning
<1>0. pc \in [Runs -> Loading \cup Saving] /\ now \in Nat
  BY DEF TypeInv, TypeOK
<1>1. ASSUME NEW place, place # "prune", pc[r] # "prune", pc' = [pc EXCEPT ![r] = place],
             UNCHANGED <<snapshots, failures>>, now' \in {now, now + 1}
      PROVE  Other
  BY <1>0, <1>1 DEF Pruning
<1> HIDE DEF Other
<1>2. ASSUME NEW m, Start(r, m) PROVE Other
  BY <1>1, <1>2 DEF Start, Goes, tables
<1>3. ASSUME NEW traded, NEW couples, Preload(r, traded, couples) PROVE Other
  BY <1>1, <1>3 DEF Preload, Goes, ClockMoves, Unchanged, tables
<1>4. ASSUME NEW accounts, UseTrades(r, accounts), UNCHANGED <<snapshots, failures>>,
             now' \in {now, now + 1}
      PROVE  Other
  <2>1. /\ AfterPair(next[r] + 1, computed[r]) # "prune" /\ AfterLoad(r) # "prune"
    BY DEF AfterPair, AfterLoad, AfterPools
  <2> QED BY <1>1, <1>4, <2>1 DEF UseTrades, Goes
<1>5. ASSUME NEW accounts, LoadTrades(r, accounts) PROVE Other
  BY <1>4, <1>5 DEF LoadTrades, ClockMoves, Unchanged, tables
<1>6. ASSUME UsePreloaded(r) PROVE Other
  BY <1>4, <1>6 DEF UsePreloaded, Unchanged, tables
<1>7. ASSUME NEW ring, ScorePair(r, ring) PROVE Other
  <2>1. AfterPair(next[r] + 1, computed'[r]) # "prune"
    BY DEF AfterPair
  <2> QED BY <1>1, <1>7, <2>1 DEF ScorePair, Goes, ClockMoves, Unchanged, tables
<1>8. ASSUME SaveCorrelations(r) \/ SavePools(r) \/ SavePayments(r) \/ SaveRoutes(r) PROVE Other
  <2>1. AfterPools(r) # "prune" /\ AfterPayments(r) # "prune"
    BY DEF AfterPools, AfterPayments
  <2> QED BY <1>1, <1>8, <2>1 DEF SaveCorrelations, SavePools, SavePayments, SaveRoutes, SaveRaw,
                                  Goes, Unchanged
<1>9. ASSUME SaveScores(r) \/ SaveRings(r) \/ SaveVectors(r) PROVE Other
  <2>1. AfterScores(r) # "prune" /\ AfterRings(r) # "prune"
    BY DEF AfterScores, AfterRings
  <2> QED BY <1>1, <1>9, <2>1 DEF SaveScores, SaveRings, SaveVectors, Goes, Unchanged, reports
<1>10. ASSUME NEW x, Explain(r, x) \/ ExplainFails(r, x) PROVE Other
  <2>1. AfterShap(r, todo'[r]) # "prune"
    BY DEF AfterShap
  <2> QED BY <1>1, <1>10, <2>1 DEF Explain, ExplainFails, Handled, Goes, Unchanged, tables
<1>11. ASSUME Enqueue(r) \/ Submit(r) \/ Stamps(r) PROVE Other
  BY <1>1, <1>11 DEF Enqueue, Submit, Stamps, TakeMoment, Goes, ClockMoves, Unchanged, tables
<1> QED
  BY StepCases, <1>2, <1>3, <1>5, <1>6, <1>7, <1>8, <1>9, <1>10, <1>11 DEF Other

\* The bound grows with the prunings still to come and with the failures.
LEMMA BoundGrows ==
    ASSUME NEW b \in Nat, NEW k \in Nat, NEW m \in Nat, NEW c \in Nat, k <= m + 1,
           NEW n \in Nat, c <= n + b * k
    PROVE  /\ c + b <= n + b * (k + 1)
           /\ c <= n + b * (m + 1)
<1>1. b * (k + 1) = b * k + b
  OBVIOUS
<1>2. b * k \in Nat /\ b * (m + 1) \in Nat /\ b * (m + 1) >= b * k
  OBVIOUS
<1> QED
  BY <1>1, <1>2

Limit ==
    IF SnapshotKeep + Batch - 1 < SnapshotCap THEN SnapshotCap ELSE SnapshotKeep + Batch - 1

\* SnapshotInv: every step keeps it.
LEMMA SnapshotKept ==
    ASSUME TypeInv, TypeInv', SavedInv, SnapshotInv, NEW r \in Runs, Step(r)
    PROVE  SnapshotInv'
<1>0. /\ pc \in [Runs -> Loading \cup Saving] /\ computed \in [Runs -> SUBSET Row]
      /\ now \in Nat /\ failures \in Nat /\ failures' \in Nat
  <2>1. MaxFailures \in Nat /\ failures \in 0..MaxFailures /\ failures' \in 0..MaxFailures
    BY RunAssumption DEF TypeInv, TypeOK, RunAssumption
  <2>2. failures \in Nat /\ failures' \in Nat
    BY <2>1
  <2> QED BY <2>2 DEF TypeInv, TypeOK
<1>L. /\ Batch \in Nat /\ Limit \in Nat /\ SnapshotCap <= Limit
      /\ SnapshotKeep + Batch - 1 <= Limit
  BY BatchType DEF Limit
<1>1. /\ IsFiniteSet(snapshots) /\ Cardinality(snapshots) \in Nat
      /\ IsFiniteSet(Pruning) /\ Cardinality(Pruning) \in Nat
      /\ IsFiniteSet(Pruning') /\ Cardinality(Pruning') \in Nat
  <2>1. IsFiniteSet(Runs)
    BY RunAssumption DEF RunAssumption
  <2>2. IsFiniteSet(Pruning) /\ IsFiniteSet(Pruning')
    BY <2>1, FS_Subset DEF Pruning
  <2> QED BY <2>2, FS_CardinalityType DEF SnapshotInv
<1>2. Cardinality(snapshots) <= Limit + Batch * (Cardinality(Pruning) + failures)
  BY DEF SnapshotInv, SnapshotsBounded, Limit, Pruning
<1>3. ASSUME Cardinality(snapshots') <= Limit + Batch * (Cardinality(Pruning') + failures')
      PROVE  SnapshotsBounded'
  BY <1>3 DEF SnapshotsBounded, Limit, Pruning
<1>4. ASSUME NEW S, S \subseteq snapshots
      PROVE  /\ IsFiniteSet(S) /\ Cardinality(S) \in Nat
             /\ Cardinality(S) <= Cardinality(snapshots)
  BY <1>1, <1>4, FS_Subset, FS_CardinalityType
<1>5. ASSUME snapshots' \subseteq snapshots, now' >= now, now' \in Nat
      PROVE  /\ IsFiniteSet(snapshots')
             /\ (\A x \in snapshots : /\ x.at \in Int /\ x.at < now
                                      /\ Cardinality(RowsAt(x.at)) <= Batch)'
  <2>1. ASSUME NEW x \in snapshots'
        PROVE  Cardinality({y \in snapshots' : y.at = x.at}) <= Batch
    <3>1. Cardinality(RowsAt(x.at)) <= Batch /\ IsFiniteSet(RowsAt(x.at))
      BY <1>4, <1>5 DEF SnapshotInv, RowsAt
    <3>2. {y \in snapshots' : y.at = x.at} \subseteq RowsAt(x.at)
      BY <1>5 DEF RowsAt
    <3> DEFINE S == {y \in snapshots' : y.at = x.at}
    <3>3. Cardinality(S) <= Cardinality(RowsAt(x.at)) /\ Cardinality(S) \in Nat
          /\ Cardinality(RowsAt(x.at)) \in Nat
      BY <3>1, <3>2, FS_Subset, FS_CardinalityType
    <3> QED BY <1>0, <1>L, <3>1, <3>3
  <2>2. IsFiniteSet(snapshots')
    BY <1>4, <1>5
  <2>3. \A x \in snapshots' : x.at \in Int /\ x.at < now'
    BY <1>0, <1>5 DEF SnapshotInv
  <2> QED BY <2>1, <2>2, <2>3 DEF RowsAt
<1>6. CASE Record(r)
  <2> DEFINE new == {Snapshot(x, now) : x \in computed[r]}
  <2>1. /\ pc[r] = "record" /\ pc' = [pc EXCEPT ![r] = "prune"]
        /\ snapshots' = snapshots \cup new /\ now' = now + 1 /\ failures' = failures
    BY <1>6 DEF Record, Goes, ClockMoves, Unchanged
  <2>2. ASSUME NEW y \in new
        PROVE  /\ y.at = now
               /\ \E w \in Accounts, p \in Pairs : y = [run |-> r, wallet |-> w, pair |-> p, at |-> now]
    <3>1. PICK x \in computed[r] : y = Snapshot(x, now)
      OBVIOUS
    <3>2. x \in Row /\ x.run = r
      BY <1>0, <1>L, <3>1 DEF SavedInv
    <3> QED BY <3>1, <3>2 DEF Row, Snapshot
  <2>3. IsFiniteSet(new) /\ Cardinality(new) \in Nat /\ Cardinality(new) <= Batch
    BY <2>2, BatchSize
  <2> HIDE DEF new
  <2>4. /\ IsFiniteSet(snapshots') /\ Cardinality(snapshots') \in Nat
        /\ Cardinality(snapshots') <= Cardinality(snapshots) + Cardinality(new)
    BY <1>1, <2>1, <2>3, UnionSize
  <2>5. Pruning' = Pruning \cup {r} /\ r \notin Pruning
    BY <1>0, <1>L, <2>1 DEF Pruning
  <2>6. Cardinality(Pruning') = Cardinality(Pruning) + 1
    BY <1>1, <2>5, FS_AddElement
  <2>7. SnapshotsBounded'
    <3>1. Cardinality(snapshots) + Batch
            <= Limit + Batch * (Cardinality(Pruning) + failures + 1)
      BY <1>0, <1>L, <1>1, <1>2, BoundGrows
    <3>2. Cardinality(Pruning') + failures' = Cardinality(Pruning) + failures + 1
      BY <1>0, <1>L, <1>1, <2>1, <2>6
    <3>3. Cardinality(snapshots') <= Cardinality(snapshots) + Batch
      BY <1>0, <1>L, <1>1, <2>3, <2>4
    <3>4. Batch * (Cardinality(Pruning) + failures + 1) \in Nat
      BY <1>0, <1>L, <1>1
    <3> QED BY <1>0, <1>L, <1>1, <1>3, <2>4, <3>1, <3>2, <3>3, <3>4
  <2>8. ASSUME NEW x \in snapshots'
        PROVE  x.at \in Int /\ x.at < now'
               /\ Cardinality({y \in snapshots' : y.at = x.at}) <= Batch
    <3>1. CASE x \in new
      <4>1. {y \in snapshots' : y.at = x.at} = new
        BY <1>0, <1>L, <2>1, <2>2, <3>1 DEF SnapshotInv
      <4>2. Cardinality({y \in snapshots' : y.at = x.at}) <= Batch
        BY <2>3, <4>1
      <4>3. x.at = now
        BY <2>2, <3>1
      <4> QED BY <1>0, <2>1, <4>2, <4>3
    <3>2. CASE x \in snapshots
      <4>1. x.at \in Int /\ x.at < now
        BY <3>2 DEF SnapshotInv
      <4>2. {y \in snapshots' : y.at = x.at} = RowsAt(x.at)
        BY <1>0, <1>L, <2>1, <2>2, <4>1 DEF RowsAt
      <4>3. Cardinality(RowsAt(x.at)) <= Batch
        BY <3>2 DEF SnapshotInv
      <4>4. Cardinality({y \in snapshots' : y.at = x.at}) <= Batch
        BY <4>2, <4>3
      <4> QED BY <1>0, <2>1, <4>1, <4>4
    <3> QED BY <2>1, <3>1, <3>2
  <2> QED BY <2>4, <2>7, <2>8 DEF SnapshotInv, RowsAt
<1>7. CASE Prune(r)
  <2>1. /\ snapshots' = (IF OverCap THEN Kept ELSE snapshots)
        /\ UNCHANGED <<now, failures>>
    BY <1>7 DEF Prune, Unchanged
  <2>2. snapshots' \subseteq snapshots
    BY <2>1 DEF Kept
  <2>3. Cardinality(snapshots') \in Nat /\ Cardinality(snapshots') <= Limit
    <3>1. CASE OverCap
      <4>1. snapshots' = Kept
        BY <2>1, <3>1
      <4>2. /\ Cardinality(Kept) \in Nat
            /\ Cardinality(Kept) <= SnapshotKeep + Batch - 1
        BY KeptSize
      <4>3. SnapshotKeep \in Nat
        BY BatchType
      <4> QED BY <1>L, <4>1, <4>2, <4>3
    <3>2. CASE ~OverCap
      BY <1>0, <1>L, <1>1, <2>1, <3>2, BatchType DEF OverCap
    <3> QED BY <3>1, <3>2
  <2>4. Batch * (Cardinality(Pruning') + failures') \in Nat
    BY <1>0, <1>L, <1>1
  <2>5. SnapshotsBounded'
    BY <1>0, <1>L, <1>3, <2>3, <2>4
  <2> QED BY <1>0, <1>L, <1>5, <2>1, <2>2, <2>5 DEF SnapshotInv
<1>8. CASE RecordFails(r) \/ Abort(r)
  <2>1. /\ UNCHANGED <<snapshots, now>> /\ failures' = failures + 1
        /\ \E place \in {"scores", "dead"} : pc' = [pc EXCEPT ![r] = place]
    BY <1>8 DEF RecordFails, Abort, Goes, tables
  <2>2. Pruning' = Pruning \ {r}
    BY <1>0, <1>L, <2>1 DEF Pruning
  <2>3. Cardinality(Pruning) <= Cardinality(Pruning') + 1
    BY <1>1, <2>2, FS_RemoveElement
  <2>4. Cardinality(snapshots) <= Limit + Batch * (Cardinality(Pruning') + failures + 1)
    BY <1>0, <1>L, <1>1, <1>2, <2>3, BoundGrows
  <2>5. SnapshotsBounded'
    <3>1. Cardinality(Pruning') + failures' = Cardinality(Pruning') + failures + 1
      BY <1>0, <1>L, <1>1, <2>1
    <3> QED BY <1>3, <2>1, <2>4, <3>1
  <2> QED BY <1>0, <1>L, <1>5, <2>1, <2>5 DEF SnapshotInv
<1>9. CASE UNCHANGED <<snapshots, failures>> /\ now' >= now /\ Pruning' = Pruning
  <2>1. SnapshotsBounded'
    BY <1>2, <1>3, <1>9
  <2>2. now' \in Nat
    BY DEF TypeInv, TypeOK
  <2> QED BY <1>5, <1>9, <2>1, <2>2 DEF SnapshotInv
<1> QED
  BY PruneShape, <1>6, <1>7, <1>8, <1>9

\* The snapshot table stays within its cap, but for part of a batch, the
\* prunings still to come and those that failed (SnapshotsBounded).
THEOREM SnapshotsCorrect == Spec => []SnapshotsBounded
<1>1. Init => SnapshotInv
  <2> SUFFICES ASSUME Init PROVE SnapshotInv
    OBVIOUS
  <2>1. /\ snapshots = Earlier /\ now = 1 /\ failures = 0 /\ Pruning = {}
    BY DEF Init, Pruning
  <2>2. Cardinality(Pruning) = 0
    BY <2>1, FS_EmptySet
  <2>3. Cardinality(snapshots) <= SnapshotCap
    BY <2>1, RunAssumption DEF RunAssumption
  <2>4. SnapshotsBounded
    <3>1. Limit + Batch * (Cardinality(Pruning) + failures) = Limit
      BY <2>1, <2>2, BatchType DEF Limit
    <3>2. IsFiniteSet(snapshots) /\ Cardinality(snapshots) \in Nat
      BY <2>1, RunAssumption, FS_CardinalityType DEF RunAssumption
    <3>3. Cardinality(snapshots) <= Limit
      BY <2>3, <3>2, BatchType DEF Limit
    <3> QED BY <3>1, <3>3 DEF SnapshotsBounded, Limit, Pruning
  <2>5. ASSUME NEW x \in snapshots
        PROVE  /\ x.at \in Int /\ x.at < now
               /\ Cardinality(RowsAt(x.at)) <= Batch
    <3>1. x.at \in Int /\ x.at <= 0 /\ Cardinality({y \in Earlier : y.at = x.at}) <= Batch
      BY <2>1, <2>5, RunAssumption DEF RunAssumption
    <3>2. RowsAt(x.at) = {y \in Earlier : y.at = x.at}
      BY <2>1 DEF RowsAt
    <3> QED BY <2>1, <3>1, <3>2
  <2> QED BY <2>1, <2>4, <2>5, RunAssumption DEF SnapshotInv, RunAssumption
<1>2. TypeInv /\ TypeInv' /\ SavedInv /\ SnapshotInv /\ [Next]_vars => SnapshotInv'
  <2> SUFFICES ASSUME TypeInv, TypeInv', SavedInv, SnapshotInv, [Next]_vars PROVE SnapshotInv'
    OBVIOUS
  <2>1. CASE UNCHANGED vars
    <3>1. UNCHANGED <<now, pc, snapshots, failures>>
      BY <2>1 DEF vars, locals, tables, reports
    <3> QED BY <3>1 DEF SnapshotInv, SnapshotsBounded, RowsAt
  <2>2. ASSUME NEW r \in Runs, Step(r) PROVE SnapshotInv'
    BY <2>2, SnapshotKept
  <2> QED BY <2>1, <2>2 DEF Next
<1>3. SnapshotInv => SnapshotsBounded
  BY DEF SnapshotInv
<1> QED
  BY <1>1, <1>2, <1>3, SavedInvariant, PTL DEF Spec
=============================================================================
