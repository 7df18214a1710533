----------------------- MODULE SchemaMigration_proofs -----------------------
(***************************************************************************)
(* Proofs about SchemaMigration, for any number of processes and any list  *)
(* of migrations: however calls of migrate_db overlap, crash, time out on  *)
(* the lock or misread the version, schema_version and the rows 'applied'  *)
(* never claim more than the file has, and a call that returns leaves the  *)
(* whole schema.  The inductive invariant SchemaInv adds what a call in    *)
(* progress has already established for the version it is applying.        *)
(***************************************************************************)
EXTENDS SchemaMigration, TLAPS

Applying == {"log", "run", "error", "finish"}

\* What the assumption on Script says of versions and statements.
LEMMA ScriptFacts ==
    /\ Latest \in Nat
    /\ Versions = 1..Latest
    /\ \A v \in Versions : /\ Len(Script[v]) \in Nat
                           /\ DOMAIN Script[v] = 1..Len(Script[v])
                           /\ Objects(v) \subseteq Schema
<1>1. Script \in Seq(Seq(Schema))
  BY MigrationAssumption DEF MigrationAssumption
<1>2. Latest \in Nat /\ Versions = 1..Latest
  BY <1>1 DEF Latest, Versions
<1>3. \A v \in Versions : Script[v] \in Seq(Schema)
  BY <1>1 DEF Versions
<1> QED
  BY <1>2, <1>3 DEF Schema

\* TypeOK: the loop of migrate_db moves to a version of _MIGRATIONS or past it.
LEMMA ContinuesType ==
    ASSUME TypeOK, NEW p \in Processes, NEW v \in 1..(Latest + 1), Continues(p, v)
    PROVE  /\ pc' \in [Processes -> Control]
           /\ target' \in [Processes -> 1..(Latest + 1)]
           /\ \A q \in Processes : pc'[q] \in Applying => target'[q] \in Versions
  BY ScriptFacts DEF TypeOK, Continues, GoesTo, Control, Applying

\* TypeOK: a call that goes to another place of migrate_db stays within its type.
LEMMA GoesToType ==
    ASSUME TypeOK, NEW p \in Processes, NEW label \in Control, GoesTo(p, label),
           UNCHANGED target, label \in Applying => target[p] \in Versions
    PROVE  /\ pc' \in [Processes -> Control]
           /\ \A q \in Processes : pc'[q] \in Applying => target'[q] \in Versions
  BY DEF TypeOK, GoesTo, Applying

\* TypeOK: the UPDATEs of schema_migrations keep its rows' type.
LEMMA UpdatedType ==
    ASSUME TypeOK, NEW v \in Versions, NEW status \in {"applying", "applied"},
           NEW failed \in BOOLEAN, Updated(v, status, failed)
    PROVE  log' \subseteq Row
<1> SUFFICES ASSUME NEW row \in log PROVE
        (IF row.version = v /\ row.status = "applying"
           THEN [version |-> v, status |-> status, error |-> row.error \/ failed]
           ELSE row) \in Row
  BY DEF Updated
<1>1. row \in Row
  BY DEF TypeOK
<1>2. (row.error \/ failed) \in BOOLEAN
  BY <1>1 DEF Row
<1> QED
  BY <1>1, <1>2 DEF Row

\* TypeOK: every step of a process or of the operator keeps every type.
LEMMA TypeStep == TypeOK /\ [Next]_vars => TypeOK'
<1> SUFFICES ASSUME TypeOK, [Next]_vars PROVE TypeOK'
  OBVIOUS
<1> USE MigrationAssumption DEF MigrationAssumption, database, calls, bounds, history
<1>a. Latest \in Nat /\ Versions = 1..Latest
  BY ScriptFacts
<1>1. ASSUME NEW p \in Processes, Call(p) PROVE TypeOK'
  <2>1. GoesTo(p, "detect") /\ UNCHANGED target
    BY <1>1 DEF Call
  <2> QED
    BY <1>1, <2>1, GoesToType DEF Call, TypeOK, Control, Applying, Migrating
<1>2. ASSUME NEW p \in Processes, Refuse(p) \/ Proceed(p) PROVE TypeOK'
  <2>1. (GoesTo(p, "idle") \/ GoesTo(p, "read")) /\ UNCHANGED target
    BY <1>2 DEF Refuse, Proceed
  <2> QED
    BY <1>2, <2>1, GoesToType DEF Refuse, Proceed, TypeOK, Control, Applying
<1>3. ASSUME NEW p \in Processes, ReadVersion(p) \/ ReadLocked(p) PROVE TypeOK'
  <2>1. /\ FirstPending(version) \in 1..(Latest + 1)
        /\ FirstPending(0) \in 1..(Latest + 1)
    BY <1>a DEF FirstPending, TypeOK
  <2>2. /\ pc' \in [Processes -> Control]
        /\ target' \in [Processes -> 1..(Latest + 1)]
        /\ \A q \in Processes : pc'[q] \in Applying => target'[q] \in Versions
    BY <1>3, <2>1, ContinuesType DEF ReadVersion, ReadLocked
  <2> QED
    <3>1. busy' \in 0..MaxBusy
      BY <1>3 DEF ReadVersion, ReadLocked, TypeOK
    <3>3. disturbed' \in BOOLEAN
      BY <1>3 DEF ReadVersion, ReadLocked, TypeOK
    <3>2. UNCHANGED <<database, step, crashes, repaired>>
      BY <1>3 DEF ReadVersion, ReadLocked
    <3> QED
      BY <2>2, <3>1, <3>2, <3>3 DEF TypeOK, Applying
<1>4. ASSUME NEW p \in Processes, LogStart(p) PROVE TypeOK'
  <2>1. GoesTo(p, "run") /\ UNCHANGED target /\ target[p] \in Versions
    BY <1>4 DEF LogStart, TypeOK
  <2>2. log' \subseteq Row
    <3>1. StartedRow(target[p]) \in Row
      BY <2>1 DEF StartedRow, Row
    <3>2. log \subseteq Row
      BY DEF TypeOK
    <3>3. log' = log \cup {StartedRow(target[p])}
      BY <1>4 DEF LogStart, Logged
    <3> QED
      BY <3>1, <3>2, <3>3
  <2> QED
    BY <1>4, <2>1, <2>2, GoesToType DEF LogStart, TypeOK, Control, Applying
<1>5. ASSUME NEW p \in Processes, Execute(p) PROVE TypeOK'
  <2>1. target[p] \in Versions /\ step[p] \in 1..Len(Script[target[p]])
    <3>1. target[p] \in Versions /\ step[p] \in Nat \ {0}
      BY <1>5 DEF Execute, TypeOK
    <3>2. Len(Script[target[p]]) \in Nat
      BY <3>1, ScriptFacts
    <3> QED
      BY <1>5, <3>1, <3>2 DEF Execute
  <2>2. Statement(p) \in Schema
    BY <2>1, ScriptFacts DEF Statement, Objects
  <2> QED
    BY <1>5, <2>2 DEF Execute, TypeOK
<1>6. ASSUME NEW p \in Processes, Executed(p) \/ Fail(p) PROVE TypeOK'
  <2>1. /\ GoesTo(p, "finish") \/ GoesTo(p, "error")
        /\ UNCHANGED target /\ target[p] \in Versions
    BY <1>6 DEF Executed, Fail, TypeOK
  <2> QED
    BY <1>6, <2>1, GoesToType DEF Executed, Fail, TypeOK, Control, Applying
<1>7. ASSUME NEW p \in Processes, RecordError(p) PROVE TypeOK'
  <2>1. GoesTo(p, "idle") /\ UNCHANGED target /\ target[p] \in Versions
    BY <1>7 DEF RecordError, TypeOK
  <2>2. log' \subseteq Row
    BY <1>7, <2>1, UpdatedType DEF RecordError
  <2> QED
    BY <1>7, <2>1, <2>2, GoesToType DEF RecordError, TypeOK, Control, Applying
<1>8. ASSUME NEW p \in Processes, Finish(p) PROVE TypeOK'
  <2>1. target[p] \in Versions
    BY <1>8 DEF Finish, TypeOK
  <2>2. log' \subseteq Row
    BY <1>8, <2>1, UpdatedType DEF Finish
  <2>3. NextVersion(target[p]) \in 1..(Latest + 1)
    BY <1>a, <2>1 DEF NextVersion
  <2>4. /\ pc' \in [Processes -> Control]
        /\ target' \in [Processes -> 1..(Latest + 1)]
        /\ \A q \in Processes : pc'[q] \in Applying => target'[q] \in Versions
    BY <1>8, <2>3, ContinuesType DEF Finish
  <2> QED
    BY <1>8, <1>a, <2>1, <2>2, <2>4 DEF Finish, TypeOK, Applying
<1>9. ASSUME NEW p \in Processes, LockTimeout(p) PROVE TypeOK'
  <2>1. UNCHANGED target
    BY <1>9 DEF LockTimeout
  <2>3. GoesTo(p, "idle") \/ (GoesTo(p, "error") /\ pc[p] = "run")
    BY <1>9 DEF LockTimeout, AfterLockedRun, GoesTo
  <2>4. pc[p] = "run" => target[p] \in Versions
    BY DEF TypeOK
  <2>2. busy' \in 0..MaxBusy
    BY <1>9 DEF LockTimeout, TypeOK
  <2> QED
    BY <1>9, <2>1, <2>2, <2>3, <2>4, GoesToType DEF LockTimeout, TypeOK, Control, Applying
<1>10. ASSUME NEW p \in Processes, Crash(p) PROVE TypeOK'
  <2>1. GoesTo(p, "idle") /\ UNCHANGED target
    BY <1>10 DEF Crash
  <2>2. crashes' \in 0..MaxCrashes
    BY <1>10 DEF Crash, TypeOK
  <2> QED
    BY <1>10, <2>1, <2>2, GoesToType DEF Crash, TypeOK, Control, Applying
<1>11. CASE Repair
  <2>1. log' \subseteq Row /\ repaired' \subseteq Versions
    BY <1>11 DEF Repair, Interrupted, Row, TypeOK
  <2>2. present' \subseteq Schema
    BY <1>11, ScriptFacts DEF Repair, Interrupted, Row, TypeOK
  <2> QED
    BY <1>11, <2>1, <2>2 DEF Repair, TypeOK
<1>12. CASE UNCHANGED vars
  BY <1>12 DEF vars, TypeOK
<1> QED
  BY <1>1, <1>2, <1>3, <1>4, <1>5, <1>6, <1>7, <1>8, <1>9, <1>10, <1>11, <1>12
  DEF Next, Migrate

\* Type correctness of the database file and of the calls of migrate_db (TypeOK).
THEOREM MigrationTypeCorrect == Spec => []TypeOK
<1>1. Init => TypeOK
  <2> SUFFICES ASSUME Init PROVE TypeOK
    OBVIOUS
  <2>1. /\ version \in 0..Latest /\ 1 \in 1..(Latest + 1)
        /\ crashes \in 0..MaxCrashes /\ busy \in 0..MaxBusy
    BY ScriptFacts, MigrationAssumption DEF Init, MigrationAssumption
  <2>2. pc \in [Processes -> Control] /\ \A p \in Processes : pc[p] = "idle"
    BY DEF Init, Control
  <2>3. target \in [Processes -> 1..(Latest + 1)] /\ step \in [Processes -> Nat \ {0}]
    BY <2>1 DEF Init
  <2>4. disturbed \in BOOLEAN
    BY DEF Init
  <2> QED
    BY <2>1, <2>2, <2>3, <2>4 DEF Init, TypeOK
<1> QED
  BY <1>1, TypeStep, PTL DEF Spec

-----------------------------------------------------------------------------
\* What a call in progress has established for the version it is applying.
CallInv(p) ==
    /\ pc[p] \in Applying => Complete(target[p] - 1)
    /\ pc[p] = "run" => \A i \in DOMAIN Script[target[p]] :
                            i < step[p] => Script[target[p]][i] \in present
    /\ pc[p] = "finish" => Objects(target[p]) \subseteq present
    /\ pc[p] = "ready" => Complete(Latest)

SchemaInv ==
    /\ VersionIsComplete
    /\ AppliedIsComplete
    /\ \A p \in Processes : CallInv(p)

\* Complete: the schema never loses an object.
LEMMA CompleteGrows ==
    ASSUME NEW v, Complete(v), present \subseteq present'
    PROVE  Complete(v)'
  BY DEF Complete

\* A step that only adds objects, and moves process p to a place whose part of
\* the invariant holds, preserves the invariant.
LEMMA OneCallStep ==
    ASSUME TypeOK, SchemaInv, NEW p \in Processes, present \subseteq present',
           VersionIsComplete', AppliedIsComplete', CallInv(p)',
           \A q \in Processes \ {p} :
               pc'[q] = pc[q] /\ target'[q] = target[q] /\ step'[q] = step[q]
    PROVE  SchemaInv'
<1>1. ASSUME NEW q \in Processes \ {p} PROVE CallInv(q)'
  <2>1. CallInv(q)
    BY DEF SchemaInv
  <2>2. pc'[q] = pc[q] /\ target'[q] = target[q] /\ step'[q] = step[q]
    OBVIOUS
  <2> QED
    BY <2>1, <2>2, CompleteGrows DEF CallInv, Complete
<1> QED
  BY <1>1 DEF SchemaInv

\* The same for a step that leaves version and rows alone.
LEMMA QuietCallStep ==
    ASSUME TypeOK, SchemaInv, NEW p \in Processes, present \subseteq present',
           UNCHANGED <<version, log>>, CallInv(p)',
           \A q \in Processes \ {p} :
               pc'[q] = pc[q] /\ target'[q] = target[q] /\ step'[q] = step[q]
    PROVE  SchemaInv'
<1>1. VersionIsComplete'
  BY CompleteGrows DEF SchemaInv, VersionIsComplete, Complete
<1>2. AppliedIsComplete'
  BY DEF SchemaInv, AppliedIsComplete
<1> QED
  BY <1>1, <1>2, OneCallStep

\* A version is complete when its predecessors and its own objects are there.
LEMMA CompleteUpTo ==
    ASSUME NEW v \in Versions, Complete(v - 1), Objects(v) \subseteq present
    PROVE  Complete(v)
  BY ScriptFacts DEF Complete

\* The loop goes on at version v with everything below v in place.
LEMMA ContinuesInv ==
    ASSUME TypeOK, NEW p \in Processes, NEW v \in 1..(Latest + 1), Continues(p, v),
           Complete(v - 1)'
    PROVE  CallInv(p)'
<1>1. target'[p] = v /\ pc'[p] = (IF v > Latest THEN "ready" ELSE "log")
  BY DEF Continues, GoesTo, TypeOK
<1>2. CASE v > Latest
  <2>1. v - 1 = Latest
    BY <1>2, ScriptFacts
  <2> QED
    BY <1>1, <1>2, <2>1 DEF CallInv, Applying
<1>3. CASE ~(v > Latest)
  BY <1>1, <1>3 DEF CallInv, Applying
<1> QED
  BY <1>2, <1>3

\* SchemaInv is preserved by every step.
LEMMA SchemaStep == TypeOK /\ SchemaInv /\ [Next]_vars => SchemaInv'
<1> SUFFICES ASSUME TypeOK, SchemaInv, [Next]_vars PROVE SchemaInv'
  OBVIOUS
<1> USE DEF database, calls, bounds, history
<1>a. \A p \in Processes : CallInv(p)
  BY DEF SchemaInv
<1>1. ASSUME NEW p \in Processes, GoesTo(p, "idle") \/ GoesTo(p, "detect") \/ GoesTo(p, "read")
                                  \/ GoesTo(p, "error"),
             UNCHANGED <<database, target, step>>,
             pc'[p] = "error" => pc[p] \in Applying
      PROVE  SchemaInv'
  <2>1. /\ pc'[p] \in {"idle", "detect", "read", "error"}
        /\ \A q \in Processes \ {p} : pc'[q] = pc[q]
    BY <1>1 DEF GoesTo, TypeOK
  <2>2. CallInv(p)'
    BY <1>1, <1>a, <2>1, CompleteGrows DEF CallInv, Applying, Complete
  <2> QED
    BY <1>1, <2>1, <2>2, QuietCallStep
<1>2. ASSUME NEW p \in Processes, Call(p) \/ Refuse(p) \/ Proceed(p) \/ Crash(p)
      PROVE  SchemaInv'
  <2>1. /\ GoesTo(p, "idle") \/ GoesTo(p, "detect") \/ GoesTo(p, "read")
        /\ UNCHANGED <<database, target, step>>
    BY <1>2 DEF Call, Refuse, Proceed, Crash
  <2>2. pc'[p] # "error"
    BY <2>1 DEF GoesTo, TypeOK
  <2> QED
    BY <1>1, <2>1, <2>2
<1>3. ASSUME NEW p \in Processes, Fail(p) \/ LockTimeout(p) PROVE SchemaInv'
  <2>1. /\ GoesTo(p, "idle") \/ GoesTo(p, "error")
        /\ UNCHANGED <<database, target, step>>
    BY <1>3 DEF Fail, LockTimeout, AfterLockedRun
  <2>2. pc'[p] = "error" => pc[p] \in Applying
    BY <1>3 DEF Fail, LockTimeout, AfterLockedRun, GoesTo, TypeOK, Applying
  <2> QED
    BY <1>1, <2>1, <2>2
<1>4. ASSUME NEW p \in Processes, ReadVersion(p) PROVE SchemaInv'
  <2>1. PICK v \in 1..(Latest + 1) : v = FirstPending(version) /\ v - 1 = version
    BY ScriptFacts DEF FirstPending, TypeOK
  <2>2. /\ Continues(p, v)
        /\ UNCHANGED <<database, step>>
    BY <1>4, <2>1 DEF ReadVersion
  <2>3. Complete(v - 1)'
    BY <2>1, <2>2 DEF SchemaInv, VersionIsComplete, Complete
  <2>4. CallInv(p)'
    BY <2>1, <2>2, <2>3, ContinuesInv
  <2> QED
    BY <2>2, <2>4, QuietCallStep DEF Continues, GoesTo, TypeOK
<1>5. ASSUME NEW p \in Processes, ReadLocked(p) PROVE SchemaInv'
  <2>1. FirstPending(0) \in 1..(Latest + 1) /\ FirstPending(0) - 1 = 0
    BY ScriptFacts DEF FirstPending
  <2>2. /\ Continues(p, FirstPending(0))
        /\ UNCHANGED <<database, step>>
    BY <1>5 DEF ReadLocked
  <2>3. Complete(0)'
    BY ScriptFacts DEF Complete
  <2>4. CallInv(p)'
    BY <2>1, <2>2, <2>3, ContinuesInv
  <2> QED
    BY <2>2, <2>4, QuietCallStep DEF Continues, GoesTo, TypeOK
<1>6. ASSUME NEW p \in Processes, LogStart(p) PROVE SchemaInv'
  <2>1. /\ pc[p] = "log" /\ pc'[p] = "run" /\ step'[p] = 1
        /\ UNCHANGED <<version, present, target>>
        /\ \A q \in Processes \ {p} : pc'[q] = pc[q] /\ step'[q] = step[q]
    BY <1>6 DEF LogStart, GoesTo, TypeOK
  <2>2. target[p] \in Versions
    BY <2>1 DEF TypeOK
  <2>3. CallInv(p)'
    BY <1>a, <2>1, <2>2, ScriptFacts DEF CallInv, Applying, Complete
  <2>4. VersionIsComplete'
    BY <2>1 DEF SchemaInv, VersionIsComplete, Complete
  <2>5. AppliedIsComplete'
    BY <1>6, <2>1 DEF LogStart, Logged, StartedRow, SchemaInv, AppliedIsComplete
  <2> QED
    BY <2>1, <2>3, <2>4, <2>5, OneCallStep
<1>7. ASSUME NEW p \in Processes, Execute(p) PROVE SchemaInv'
  <2>1. /\ pc[p] = "run" /\ UNCHANGED <<version, log, pc, target>>
        /\ present' = present \cup {Script[target[p]][step[p]]}
        /\ step'[p] = step[p] + 1
        /\ \A q \in Processes \ {p} : step'[q] = step[q]
    BY <1>7 DEF Execute, Statement, TypeOK
  <2>2. target[p] \in Versions /\ step[p] \in Nat \ {0}
    BY <2>1 DEF TypeOK
  <2>3. Complete(target[p] - 1)'
    BY <1>a, <2>1, CompleteGrows DEF CallInv, Applying, Complete
  <2>4. ASSUME NEW i \in DOMAIN Script[target[p]], i < step[p] + 1
        PROVE  Script[target[p]][i] \in present'
    <3>1. i \in Nat
      BY <2>2, ScriptFacts
    <3>2. i < step[p] \/ i = step[p]
      BY <2>2, <2>4, <3>1
    <3> QED
      BY <1>a, <2>1, <3>2 DEF CallInv
  <2>5. CallInv(p)'
    BY <2>1, <2>3, <2>4 DEF CallInv
  <2> QED
    BY <2>1, <2>5, QuietCallStep
<1>8. ASSUME NEW p \in Processes, Executed(p) PROVE SchemaInv'
  <2>1. /\ pc[p] = "run" /\ pc'[p] = "finish" /\ UNCHANGED <<database, target, step>>
        /\ step[p] > Len(Script[target[p]])
        /\ \A q \in Processes \ {p} : pc'[q] = pc[q]
    BY <1>8 DEF Executed, GoesTo, TypeOK
  <2>2. target[p] \in Versions /\ step[p] \in Nat
    BY <2>1 DEF TypeOK
  <2>3. \A i \in DOMAIN Script[target[p]] : i < step[p]
    BY <2>1, <2>2, ScriptFacts
  <2>4. Objects(target[p]) \subseteq present
    BY <1>a, <2>1, <2>3 DEF CallInv, Objects
  <2>5. CallInv(p)'
    BY <1>a, <2>1, <2>4 DEF CallInv, Applying, Complete
  <2> QED
    BY <2>1, <2>5, QuietCallStep
<1>9. ASSUME NEW p \in Processes, RecordError(p) PROVE SchemaInv'
  <2>1. /\ UNCHANGED <<version, present, target, step>> /\ pc'[p] = "idle"
        /\ \A q \in Processes \ {p} : pc'[q] = pc[q]
    BY <1>9 DEF RecordError, GoesTo, TypeOK
  <2>2. CallInv(p)'
    BY <2>1 DEF CallInv, Applying
  <2>3. VersionIsComplete'
    BY <2>1 DEF SchemaInv, VersionIsComplete, Complete
  <2>5. \A row \in log' : row.status = "applied" => row \in log
    BY <1>9 DEF RecordError, Updated
  <2>6. AppliedIsComplete'
    BY <2>1, <2>5 DEF SchemaInv, AppliedIsComplete
  <2> QED
    BY <2>1, <2>2, <2>3, <2>6, OneCallStep
<1>10. ASSUME NEW p \in Processes, Finish(p) PROVE SchemaInv'
  <2>1. /\ pc[p] = "finish" /\ version' = target[p] /\ UNCHANGED <<present, step>>
        /\ Continues(p, NextVersion(target[p]))
    BY <1>10 DEF Finish
  <2>2. target[p] \in Versions
    BY <2>1 DEF TypeOK
  <2>3. Complete(target[p] - 1) /\ Objects(target[p]) \subseteq present
    BY <1>a, <2>1 DEF CallInv, Applying
  <2>4. Complete(target[p])
    BY <2>2, <2>3, CompleteUpTo
  <2>5. VersionIsComplete'
    BY <2>1, <2>4 DEF VersionIsComplete, Complete
  <2>6. PICK v \in 1..(Latest + 1) : v = NextVersion(target[p]) /\ v - 1 = target[p]
    BY <2>2, ScriptFacts DEF NextVersion
  <2>7. Complete(v - 1)'
    BY <2>1, <2>4, <2>6 DEF Complete
  <2>8. CallInv(p)'
    BY <2>1, <2>6, <2>7, ContinuesInv
  <2>9. AppliedIsComplete'
    <3> SUFFICES ASSUME NEW row \in log', row.status = "applied"
                 PROVE  Objects(row.version) \subseteq present
      BY <2>1 DEF AppliedIsComplete
    <3>1. PICK r \in log : row = IF r.version = target[p] /\ r.status = "applying"
                                 THEN [version |-> target[p], status |-> "applied",
                                       error |-> r.error \/ FALSE]
                                 ELSE r
      BY <1>10 DEF Finish, Updated
    <3>2. row.version = r.version
      BY <3>1 DEF TypeOK, Row
    <3> QED
      BY <2>3, <3>1, <3>2 DEF SchemaInv, AppliedIsComplete
  <2> QED
    BY <2>1, <2>5, <2>8, <2>9, OneCallStep DEF Continues, GoesTo, TypeOK
<1>11. CASE Repair
  <2>1. present \subseteq present' /\ UNCHANGED <<version, pc, target, step>>
    BY <1>11 DEF Repair
  <2>2. VersionIsComplete'
    BY <2>1, CompleteGrows DEF SchemaInv, VersionIsComplete, Complete
  <2>3. AppliedIsComplete'
    <3> SUFFICES ASSUME NEW row \in log'
                 PROVE  Objects(row.version) \subseteq present'
      BY DEF AppliedIsComplete
    <3>1. PICK r \in log : row = [r EXCEPT !.status = "applied"]
      BY <1>11 DEF Repair
    <3>2. row.version = r.version /\ r.status \in {"applying", "applied"}
      BY <3>1 DEF TypeOK, Row
    <3>3. CASE r.status = "applied"
      BY <2>1, <3>2, <3>3 DEF SchemaInv, AppliedIsComplete
    <3>4. CASE r.status = "applying"
      BY <1>11, <3>2, <3>4 DEF Repair, Interrupted
    <3> QED
      BY <3>2, <3>3, <3>4
  <2>4. ASSUME NEW p \in Processes PROVE CallInv(p)'
    BY <1>a, <2>1, CompleteGrows DEF CallInv, Complete
  <2> QED
    BY <2>2, <2>3, <2>4 DEF SchemaInv
<1>12. CASE UNCHANGED vars
  BY <1>12 DEF vars, SchemaInv, VersionIsComplete, AppliedIsComplete, CallInv, Complete
<1> QED
  BY <1>2, <1>3, <1>4, <1>5, <1>6, <1>7, <1>8, <1>9, <1>10, <1>11, <1>12
  DEF Next, Migrate

\* The inductive invariant holds throughout.
LEMMA SchemaInvariant == Spec => []SchemaInv
<1>1. Init => SchemaInv
  BY ScriptFacts
  DEF Init, SchemaInv, VersionIsComplete, AppliedIsComplete, CallInv, Applying, Complete
<1> QED
  BY <1>1, SchemaStep, MigrationTypeCorrect, PTL DEF Spec

\* schema_version never claims more than the file has (VersionIsComplete).
THEOREM VersionCorrect == Spec => []VersionIsComplete
<1>1. SchemaInv => VersionIsComplete
  BY DEF SchemaInv
<1> QED
  BY <1>1, SchemaInvariant, PTL

\* After init_db the whole schema exists (ReadyIsComplete).
THEOREM ReadyCorrect == Spec => []ReadyIsComplete
<1>1. SchemaInv => ReadyIsComplete
  BY DEF SchemaInv, CallInv, ReadyIsComplete
<1> QED
  BY <1>1, SchemaInvariant, PTL

\* A row 'applied' is about a script that ran to its end (AppliedIsComplete).
THEOREM AppliedCorrect == Spec => []AppliedIsComplete
<1>1. SchemaInv => AppliedIsComplete
  BY DEF SchemaInv
<1> QED
  BY <1>1, SchemaInvariant, PTL

-----------------------------------------------------------------------------
(* InterruptionVisible.  While calls do not overlap and the version could be *)
(* read, a call past its test of the log found no row 'applying', applies    *)
(* the version after schema_version's, and the only rows 'applying' are the  *)
(* ones it inserted: so an object above schema_version is explained by a row *)
(* of its own version, when the call is under way and after it is cut short. *)

\* What such a call knows of the log.
LoneCallInv(p) ==
    /\ pc[p] \in Applying => target[p] = version + 1
    /\ pc[p] \in {"read", "log"} => Interrupted = {}
    /\ pc[p] \in {"run", "error", "finish"} =>
          /\ Interrupted # {}
          /\ \A row \in Interrupted : row.version = target[p]

Explained ==
    \A v \in Versions \ repaired :
        v > version /\ Objects(v) \cap present # {} =>
            \E row \in Interrupted : row.version = v

Alone == \A p, q \in Processes : Migrating(p) /\ Migrating(q) => p = q

LoneInv == ~disturbed => Alone /\ Explained /\ \A p \in Processes : LoneCallInv(p)

\* A step of the one call under way, or of a call that begins: the others are
\* outside migrate_db, where LoneCallInv says nothing.
LEMMA LoneCallStep ==
    ASSUME NEW p \in Processes, \A q \in Processes \ {p} : pc'[q] = pc[q] /\ ~Migrating(q),
           Explained', LoneCallInv(p)'
    PROVE  LoneInv'
<1>1. ASSUME NEW q \in Processes \ {p} PROVE pc'[q] \in {"idle", "ready"}
  BY DEF Migrating
<1>2. Alone'
  BY <1>1 DEF Alone, Migrating
<1>3. \A q \in Processes \ {p} : LoneCallInv(q)'
  BY <1>1 DEF LoneCallInv, Applying
<1> QED
  BY <1>2, <1>3 DEF LoneInv

\* A step that leaves the file alone leaves its objects explained.
LEMMA ExplainedStays ==
    ASSUME Explained, UNCHANGED <<version, log, present, repaired>>
    PROVE  Explained'
  BY DEF Explained, Interrupted

\* LoneInv is preserved by every step.
LEMMA LoneStep == TypeOK /\ LoneInv /\ [Next]_vars => LoneInv'
<1> SUFFICES ASSUME TypeOK, LoneInv, [Next]_vars, ~disturbed' PROVE LoneInv'
  BY DEF LoneInv
<1> USE DEF database, calls, bounds, history
<1>0. ~disturbed
  BY DEF Next, Migrate, Call, Refuse, Proceed, ReadVersion, ReadLocked, LogStart, Execute,
         Executed, Fail, RecordError, Finish, LockTimeout, Crash, Repair, vars, TypeOK
<1>a. Alone /\ Explained /\ \A p \in Processes : LoneCallInv(p)
  BY <1>0 DEF LoneInv
<1>b. ASSUME NEW p \in Processes, Migrating(p)
      PROVE  \A q \in Processes \ {p} : ~Migrating(q)
  BY <1>a, <1>b DEF Alone
<1>1. ASSUME NEW p \in Processes, Call(p) PROVE LoneInv'
  <2>1. pc'[p] = "detect" /\ \A q \in Processes \ {p} : pc'[q] = pc[q] /\ ~Migrating(q)
    BY <1>1 DEF Call, GoesTo, TypeOK
  <2>2. LoneCallInv(p)'
    BY <2>1 DEF LoneCallInv, Applying
  <2>3. Explained'
    BY <1>1, <1>a, ExplainedStays DEF Call
  <2> QED BY <2>1, <2>2, <2>3, LoneCallStep
<1>2. ASSUME NEW p \in Processes,
             Refuse(p) \/ Proceed(p) \/ Executed(p) \/ Fail(p) \/ LockTimeout(p) \/ Crash(p)
      PROVE  LoneInv'
  <2>1. /\ Migrating(p)
        /\ \A q \in Processes \ {p} : pc'[q] = pc[q]
        /\ UNCHANGED <<version, log, present, repaired, target>>
    BY <1>2 DEF Refuse, Proceed, Executed, Fail, LockTimeout, Crash, Migrating, GoesTo, TypeOK,
                AfterLockedRun
  <2>2. \/ pc'[p] = "idle"
        \/ pc'[p] = "read" /\ Interrupted = {}
        \/ pc[p] = "run" /\ pc'[p] \in {"error", "finish"}
    BY <1>2 DEF Refuse, Proceed, Executed, Fail, LockTimeout, Crash, GoesTo, TypeOK,
                AfterLockedRun
  <2>3. LoneCallInv(p)'
    BY <1>a, <2>1, <2>2 DEF LoneCallInv, Applying, Interrupted
  <2>4. Explained'
    BY <1>a, <2>1, ExplainedStays
  <2> QED BY <1>b, <2>1, <2>3, <2>4, LoneCallStep
<1>3. ASSUME NEW p \in Processes, ReadLocked(p) PROVE LoneInv'
  BY <1>3 DEF ReadLocked
<1>4. ASSUME NEW p \in Processes, ReadVersion(p) PROVE LoneInv'
  <2>1. /\ pc[p] = "read" /\ Migrating(p) /\ pc'[p] \in {"ready", "log"}
        /\ target'[p] = version + 1
        /\ \A q \in Processes \ {p} : pc'[q] = pc[q]
        /\ UNCHANGED <<version, log, present, repaired>>
    BY <1>4 DEF ReadVersion, Continues, FirstPending, GoesTo, Migrating, TypeOK
  <2>2. LoneCallInv(p)'
    BY <1>a, <2>1 DEF LoneCallInv, Applying, Interrupted
  <2>3. Explained'
    BY <1>a, <2>1, ExplainedStays
  <2> QED BY <1>b, <2>1, <2>2, <2>3, LoneCallStep
<1>5. ASSUME NEW p \in Processes, LogStart(p) PROVE LoneInv'
  <2>1. /\ pc[p] = "log" /\ Migrating(p) /\ pc'[p] = "run"
        /\ log' = log \cup {StartedRow(target[p])}
        /\ \A q \in Processes \ {p} : pc'[q] = pc[q]
        /\ UNCHANGED <<version, present, repaired, target>>
    BY <1>5 DEF LogStart, Logged, GoesTo, Migrating, TypeOK
  <2>2. Interrupted = {} /\ target[p] = version + 1
    BY <1>a, <2>1 DEF LoneCallInv, Applying
  <2>3. Interrupted' = {StartedRow(target[p])} /\ StartedRow(target[p]).version = target[p]
    BY <2>1, <2>2 DEF Interrupted, StartedRow
  <2>4. LoneCallInv(p)'
    BY <2>1, <2>2, <2>3 DEF LoneCallInv
  <2>5. Explained'
    BY <1>a, <2>1, <2>2 DEF Explained
  <2> QED BY <1>b, <2>1, <2>4, <2>5, LoneCallStep
<1>6. ASSUME NEW p \in Processes, Execute(p) PROVE LoneInv'
  <2>1. /\ pc[p] = "run" /\ Migrating(p) /\ UNCHANGED <<version, log, pc, target, repaired>>
        /\ present' = present \cup {Statement(p)}
        /\ step[p] <= Len(Script[target[p]])
    BY <1>6 DEF Execute, Migrating
  <2>2. target[p] \in Versions /\ Statement(p) \in Objects(target[p])
    BY <2>1, ScriptFacts DEF TypeOK, Statement, Objects
  <2>3. LoneCallInv(p)'
    BY <1>a, <2>1 DEF LoneCallInv, Applying, Interrupted
  <2>4. Explained'
    <3> SUFFICES ASSUME NEW v \in Versions \ repaired, v > version,
                        Objects(v) \cap present' # {}
                 PROVE  \E row \in Interrupted : row.version = v
      BY <2>1 DEF Explained, Interrupted
    <3>1. CASE Objects(v) \cap present # {}
      BY <1>a, <3>1 DEF Explained
    <3>2. CASE v = target[p]
      BY <1>a, <2>1, <3>2 DEF LoneCallInv
    <3> QED BY <2>1, <2>2, <3>1, <3>2, ObjectsAssumption DEF ObjectsAssumption
  <2> QED BY <1>b, <2>1, <2>3, <2>4, LoneCallStep
<1>7. ASSUME NEW p \in Processes, RecordError(p) PROVE LoneInv'
  <2>1. /\ pc[p] = "error" /\ Migrating(p) /\ pc'[p] = "idle"
        /\ \A q \in Processes \ {p} : pc'[q] = pc[q]
        /\ UNCHANGED <<version, present, repaired>>
    BY <1>7 DEF RecordError, GoesTo, Migrating, TypeOK
  <2>2. LoneCallInv(p)'
    BY <2>1 DEF LoneCallInv, Applying
  <2>3. ASSUME NEW row \in Interrupted
        PROVE  \E r \in Interrupted' : r.version = row.version
    <3> DEFINE r == IF row.version = target[p] /\ row.status = "applying"
                      THEN [version |-> target[p], status |-> "applying",
                            error |-> row.error \/ TRUE]
                      ELSE row
    <3>1. r \in log'
      BY <1>7 DEF RecordError, Updated, Interrupted
    <3>2. r.version = row.version /\ r.status = "applying"
      BY DEF Interrupted
    <3> QED BY <3>1, <3>2 DEF Interrupted
  <2>4. Explained'
    BY <1>a, <2>1, <2>3 DEF Explained
  <2> QED BY <1>b, <2>1, <2>2, <2>4, LoneCallStep
<1>8. ASSUME NEW p \in Processes, Finish(p) PROVE LoneInv'
  <2>1. /\ pc[p] = "finish" /\ Migrating(p) /\ pc'[p] \in {"ready", "log"}
        /\ target'[p] = target[p] + 1 /\ version' = target[p]
        /\ \A q \in Processes \ {p} : pc'[q] = pc[q]
        /\ UNCHANGED <<present, repaired>>
        /\ Updated(target[p], "applied", FALSE)
    BY <1>8 DEF Finish, Continues, NextVersion, GoesTo, Migrating, TypeOK
  <2>2. /\ target[p] = version + 1 /\ version \in Nat
        /\ \A row \in Interrupted : row.version = target[p]
    BY <1>a, <2>1, ScriptFacts DEF LoneCallInv, Applying, TypeOK
  <2>3. Interrupted' = {}
    BY <2>1, <2>2 DEF Updated, Interrupted
  <2>4. LoneCallInv(p)'
    BY <2>1, <2>3 DEF LoneCallInv, Applying
  <2>5. Explained'
    <3> SUFFICES ASSUME NEW v \in Versions \ repaired, v > target[p],
                        Objects(v) \cap present # {}
                 PROVE  FALSE
      BY <2>1 DEF Explained
    <3>1. v \in Nat
      BY ScriptFacts
    <3>2. v > version
      BY <2>2, <3>1
    <3> QED BY <1>a, <2>2, <3>1, <3>2 DEF Explained
  <2> QED BY <1>b, <2>1, <2>4, <2>5, LoneCallStep
<1>9. CASE Repair
  <2>1. /\ UNCHANGED <<version, pc, target>>
        /\ \A p \in Processes : ~Migrating(p)
        /\ repaired' = repaired \cup {row.version : row \in Interrupted}
        /\ present' = present \cup UNION {Objects(row.version) : row \in Interrupted}
    BY <1>9 DEF Repair
  <2>2. Alone' /\ \A p \in Processes : LoneCallInv(p)'
    BY <2>1 DEF Alone, LoneCallInv, Migrating, Applying
  <2>3. Explained'
    <3> SUFFICES ASSUME NEW v \in Versions \ repaired', v > version,
                        Objects(v) \cap present' # {}
                 PROVE  FALSE
      BY <2>1 DEF Explained
    <3>1. \A row \in Interrupted : row.version \in Versions /\ row.version # v
      BY <2>1 DEF TypeOK, Row, Interrupted
    <3>2. Objects(v) \cap present # {}
      BY <2>1, <3>1, ObjectsAssumption DEF ObjectsAssumption
    <3> QED BY <1>a, <2>1, <3>1, <3>2 DEF Explained
  <2> QED BY <2>2, <2>3 DEF LoneInv
<1>10. CASE UNCHANGED vars
  BY <1>10, <1>a DEF vars, LoneInv, Alone, Migrating, Explained, LoneCallInv, Interrupted
<1> QED
  BY <1>1, <1>2, <1>3, <1>4, <1>5, <1>6, <1>7, <1>8, <1>9, <1>10 DEF Next, Migrate

\* An interrupted migration is visible in the log (InterruptionVisible).
THEOREM VisibleCorrect == Spec => []InterruptionVisible
<1>1. Init => LoneInv
  BY DEF Init, LoneInv, Alone, Migrating, Explained, LoneCallInv, Applying
<1>2. Spec => []LoneInv
  BY <1>1, LoneStep, MigrationTypeCorrect, PTL DEF Spec
<1>3. LoneInv => InterruptionVisible
  BY DEF LoneInv, Explained, Interrupted, InterruptionVisible
<1> QED
  BY <1>2, <1>3, PTL
=============================================================================
