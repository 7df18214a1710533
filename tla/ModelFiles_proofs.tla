--------------------------- MODULE ModelFiles_proofs ---------------------------
(***************************************************************************)
(* Theorems about ModelFiles, for any writers, loaders, ensemble, versions *)
(* and bounds.                                                             *)
(***************************************************************************)
EXTENDS ModelFiles, TLAPS

\* What a step may be; the proofs below follow this list.
LEMMA StepCases ==
    ASSUME [Next]_vars
    PROVE  \/ \E p \in Writers :
                 \/ Train(p) \/ Remember(p) \/ Open(p) \/ Close(p) \/ Crash(p)
                 \/ \E v \in Versions : SaveVersioned(p, v) \/ Rollback(p, v)
           \/ \E l \in Loaders :
                 BeginLoad(l) \/ LoadModel(l) \/ SkipAbsent(l) \/ LoadRaises(l) \/ EndLoad(l)
           \/ UNCHANGED vars
  BY DEF Next, Write, Load

\* The names of the files differ.
LEMMA Names ==
    /\ {"reference", "metadata", "pointer"} \cap (ModelNames \cup Versions) = {}
    /\ ModelNames \cap Versions = {}
    /\ Versions \cap Nat = {}
    /\ NoValue \notin Value
    /\ MaxTrainings \in Nat /\ MaxCalls \in Nat /\ MaxCrashes \in Nat
    /\ Ensemble \in Seq(ModelNames) /\ Len(Ensemble) \in Nat
    /\ DOMAIN Ensemble = 1..Len(Ensemble)
    /\ Versions \subseteq File /\ "pointer" \in File
    /\ ModelNames \cup {"reference", "metadata"} \subseteq File
    /\ Trainings \subseteq Nat
  BY ModelFilesAssumption DEF ModelFilesAssumption, Value, Trainings, File

\* The files of a training: the reference, the models, the metadata.
LEMMA PlanOfTraining ==
    ASSUME NEW t
    PROVE  LET plan == Plan([call |-> "train", value |-> t])
               n == Len(Ensemble)
           IN  /\ plan \in Seq(File) /\ Len(plan) = n + 2 /\ DOMAIN plan = 1..(n + 2)
               /\ plan[1] = "reference"
               /\ \A i \in 1..n : plan[i + 1] = Ensemble[i]
               /\ plan[n + 2] = "metadata"
<1> DEFINE plan == <<"reference">> \o Ensemble \o <<"metadata">>
           n == Len(Ensemble)
<1>1. Plan([call |-> "train", value |-> t]) = plan
  BY DEF Plan
<1>2. /\ Ensemble \in Seq(File) /\ <<"reference">> \in Seq(File) /\ <<"metadata">> \in Seq(File)
      /\ n \in Nat
  BY Names
<1>3. (<<"reference">> \o Ensemble) \in Seq(File) /\ Len(<<"reference">> \o Ensemble) = n + 1
  BY <1>2
<1>4. /\ plan \in Seq(File) /\ Len(plan) = n + 2 /\ DOMAIN plan = 1..(n + 2)
      /\ plan[1] = "reference"
      /\ plan[n + 2] = "metadata"
  BY <1>2, <1>3
<1>5. ASSUME NEW i \in 1..n PROVE plan[i + 1] = Ensemble[i]
  <2>1. plan[i + 1] = (<<"reference">> \o Ensemble)[i + 1]
    BY <1>2, <1>3
  <2> QED
    BY <1>2, <2>1
<1> QED
  BY <1>1, <1>4, <1>5

\* The files a save or a rollback writes.
LEMMA PlanOfVersion ==
    ASSUME NEW j \in Job, j.call # "train", j # NoJob
    PROVE  /\ j.value \in Versions
           /\ j.call \in {"save", "rollback"}
           /\ Plan(j) \in Seq(File) /\ DOMAIN Plan(j) = 1..Len(Plan(j))
           /\ j.call = "save" => /\ Len(Plan(j)) = 2 /\ DOMAIN Plan(j) = {1, 2}
                                 /\ Plan(j)[1] = j.value
                                 /\ Plan(j)[2] = "pointer"
           /\ j.call = "rollback" => /\ Len(Plan(j)) = 1 /\ DOMAIN Plan(j) = {1}
                                     /\ Plan(j)[1] = "pointer"
<1>1. j.value \in Versions /\ j.call \in {"save", "rollback"}
  BY DEF Job, NoJob
<1>2. j.value \in File /\ "pointer" \in File
  BY <1>1, Names
<1>3. CASE j.call = "save"
  <2>1. Plan(j) = <<j.value, "pointer">>
    BY <1>3 DEF Plan
  <2> QED
    BY <1>1, <1>2, <1>3, <2>1
<1>4. CASE j.call = "rollback"
  <2>1. Plan(j) = <<"pointer">>
    BY <1>4 DEF Plan
  <2> QED
    BY <1>1, <1>2, <1>4, <2>1
<1> QED
  BY <1>1, <1>3, <1>4

\* Plans are files, a writer's target is one of them.
LEMMA TargetType ==
    ASSUME TypeOK, NEW p \in Writers, Active(p)
    PROVE  /\ Plan(job[p]) \in Seq(File) /\ Len(Plan(job[p])) \in Nat
           /\ DOMAIN Plan(job[p]) = 1..Len(Plan(job[p]))
           /\ at[p] \in 1..Len(Plan(job[p]))
           /\ Target(p) \in File
           /\ job[p] # NoJob /\ job[p].value \in Value
<1>1. job[p] \in Job /\ job[p] # NoJob /\ at[p] \in DOMAIN Plan(job[p])
  BY DEF TypeOK
<1>2. job[p].value \in Value
  BY <1>1 DEF Job, Value
<1>3. Plan(job[p]) \in Seq(File)
  <2>1. CASE job[p].call = "train"
    <3>1. PICK t : job[p] = [call |-> "train", value |-> t]
      BY <1>1, <2>1 DEF Job, NoJob
    <3> QED
      BY <3>1, PlanOfTraining
  <2>2. CASE job[p].call # "train"
    BY <1>1, <2>2, PlanOfVersion
  <2> QED
    BY <2>1, <2>2
<1> QED
  BY <1>1, <1>2, <1>3 DEF Target

\* A training's targets, and those of the other calls, by their place.
LEMMA TargetCases ==
    ASSUME TypeOK, NEW p \in Writers, Active(p)
    PROVE  /\ Training(p) =>
                /\ job[p].value \in Trainings
                /\ Len(Plan(job[p])) = Len(Ensemble) + 2
                /\ Target(p) \in ModelNames \cup {"reference", "metadata"}
                /\ at[p] = 1 <=> Target(p) = "reference"
                /\ at[p] = Len(Ensemble) + 2 <=> Target(p) = "metadata"
                /\ Plan(job[p])[1] = "reference"
                /\ \A i \in DOMAIN Ensemble : Plan(job[p])[i + 1] = Ensemble[i]
           /\ ~Training(p) =>
                /\ job[p].value \in Versions
                /\ job[p].call = "save" \/ job[p].call = "rollback"
                /\ Target(p) \in {job[p].value, "pointer"}
                /\ Target(p) \in Versions <=> job[p].call = "save" /\ at[p] = 1
                /\ job[p].call = "save" => Len(Plan(job[p])) = 2
                /\ job[p].call = "rollback" => Len(Plan(job[p])) = 1 /\ at[p] = 1
                /\ Target(p) = "pointer" => at[p] = Len(Plan(job[p]))
<1>1. job[p] \in Job /\ job[p] # NoJob /\ at[p] \in DOMAIN Plan(job[p])
  BY DEF TypeOK
<1>2. CASE Training(p)
  <2>1. PICK t \in Trainings : job[p] = [call |-> "train", value |-> t]
    BY <1>1, <1>2 DEF Job, NoJob, Training
  <2>2. /\ Len(Plan(job[p])) = Len(Ensemble) + 2
        /\ DOMAIN Plan(job[p]) = 1..(Len(Ensemble) + 2)
        /\ Plan(job[p])[1] = "reference"
        /\ \A i \in 1..Len(Ensemble) : Plan(job[p])[i + 1] = Ensemble[i]
        /\ Plan(job[p])[Len(Ensemble) + 2] = "metadata"
    BY <2>1, PlanOfTraining
  <2>3. ASSUME at[p] # 1, at[p] # Len(Ensemble) + 2 PROVE Target(p) \in ModelNames
    <3>1. at[p] - 1 \in 1..Len(Ensemble) /\ (at[p] - 1) + 1 = at[p]
      BY <1>1, <2>2, <2>3, Names
    <3>2. Target(p) = Ensemble[at[p] - 1]
      BY <2>2, <3>1 DEF Target
    <3> QED
      BY <3>1, <3>2, Names
  <2>4. at[p] = 1 => Target(p) = "reference"
    BY <2>2 DEF Target
  <2>5. at[p] = Len(Ensemble) + 2 => Target(p) = "metadata"
    BY <2>2 DEF Target
  <2>6. "reference" \notin ModelNames /\ "metadata" \notin ModelNames
    BY Names
  <2>7. Len(Ensemble) + 2 # 1
    BY Names
  <2> QED
    BY <1>2, <2>1, <2>2, <2>3, <2>4, <2>5, <2>6, <2>7, Names
<1>3. CASE ~Training(p)
  <2>1. job[p].call # "train"
    BY <1>3 DEF Training
  <2>2. /\ job[p].value \in Versions
        /\ job[p].call \in {"save", "rollback"}
        /\ job[p].call = "save" => /\ Len(Plan(job[p])) = 2 /\ at[p] \in {1, 2}
                                   /\ Plan(job[p])[1] = job[p].value
                                   /\ Plan(job[p])[2] = "pointer"
        /\ job[p].call = "rollback" => /\ Len(Plan(job[p])) = 1 /\ at[p] = 1
                                       /\ Plan(job[p])[1] = "pointer"
    BY <1>1, <2>1, PlanOfVersion
  <2>3. "pointer" \notin Versions
    BY Names
  <2>4. CASE job[p].call = "save"
    <3>1. CASE at[p] = 1
      <4>1. Target(p) = job[p].value
        BY <2>2, <2>4, <3>1 DEF Target
      <4> QED
        BY <1>3, <2>2, <2>3, <2>4, <3>1, <4>1
    <3>2. CASE at[p] = 2
      <4>1. Target(p) = "pointer"
        BY <2>2, <2>4, <3>2 DEF Target
      <4> QED
        BY <1>3, <2>2, <2>3, <2>4, <3>2, <4>1
    <3> QED
      BY <2>2, <2>4, <3>1, <3>2
  <2>5. CASE job[p].call = "rollback"
    <3>1. Target(p) = "pointer"
      BY <2>2, <2>5 DEF Target
    <3> QED
      BY <1>3, <2>2, <2>3, <2>5, <3>1
  <2> QED
    BY <2>2, <2>4, <2>5
<1> QED
  BY <1>2, <1>3

-----------------------------------------------------------------------------
(***************************************************************************)
(* What is in the directory was written; a file a writer has open exists.  *)
(***************************************************************************)
DiskInv ==
    /\ \A f \in File : files[f].whole => Exists(f)
    /\ \A p \in Writers : opened[p] => Active(p) /\ Exists(Target(p))

\* What a closed file may hold: the writer's data, or those of another one.
LEMMA OutcomeType ==
    ASSUME TypeOK, DiskInv, NEW p \in Writers, Active(p), opened[p], NEW c \in Outcomes(p)
    PROVE  /\ c \in Content /\ c.value \in {job[p].value, files[Target(p)].value}
           /\ c.value # NoValue
<1>1. /\ Target(p) \in File /\ job[p].value \in Value
      /\ files[Target(p)] \in Content /\ files[Target(p)].value # NoValue
  BY TargetType DEF TypeOK, DiskInv, Exists
<1>2. files[Target(p)].value \in Value
  BY <1>1 DEF Content
<1>3. c.value \in {job[p].value, files[Target(p)].value} /\ c.whole \in BOOLEAN
      /\ c = [value |-> c.value, whole |-> c.whole]
  <2>1. \/ c = [value |-> job[p].value, whole |-> TRUE]
        \/ c \in [value : {job[p].value, files[Target(p)].value}, whole : BOOLEAN]
    BY Zenon DEF Outcomes
  <2>2. CASE c = [value |-> job[p].value, whole |-> TRUE]
    BY <2>2
  <2>3. CASE c \in [value : {job[p].value, files[Target(p)].value}, whole : BOOLEAN]
    BY <2>3
  <2> QED
    BY <2>1, <2>2, <2>3
<1> QED
  BY <1>1, <1>2, <1>3, Names DEF Content

\* What open and close do to the directory.
LEMMA DiskSteps ==
    ASSUME TypeOK, DiskInv, NEW p \in Writers
    PROVE  /\ Open(p) => /\ Target(p) \in File
                         /\ files' = [files EXCEPT ![Target(p)] =
                                        [value |-> job[p].value, whole |-> FALSE]]
                         /\ job[p].value \in Value
           /\ Close(p) => \E c \in Content :
                 /\ Target(p) \in File
                 /\ files' = [files EXCEPT ![Target(p)] = c]
                 /\ c \in Outcomes(p) /\ c.value # NoValue
                 /\ c.value \in {job[p].value, files[Target(p)].value}
  BY TargetType, OutcomeType DEF Open, Close

LEMMA TypeStep ==
    ASSUME TypeOK, DiskInv, [Next]_vars
    PROVE  TypeOK'
<1> USE DEF disk, writing, reading, bounds, history
<1>1. ASSUME NEW p \in Writers, NEW j \in Job, Begin(p, j), j # NoJob, 1 \in DOMAIN Plan(j)
      PROVE  /\ job' \in [Writers -> Job] /\ at' \in [Writers -> Nat]
             /\ \A q \in Writers : Active(q)' => at'[q] \in DOMAIN Plan(job'[q]) /\ job'[q] # NoJob
             /\ calls' \in 0..MaxCalls
  BY <1>1, Names DEF Begin, TypeOK, Active
<1>2. ASSUME NEW p \in Writers, Train(p) PROVE TypeOK'
  <2> DEFINE j == [call |-> "train", value |-> trainings']
  <2>1. trainings' \in Trainings /\ trainings' \in 0..MaxTrainings
    BY <1>2, Names DEF Train, TypeOK, Trainings
  <2>2. j \in Job /\ j # NoJob
    BY <2>1 DEF Job, NoJob
  <2>3. 1 \in DOMAIN Plan(j)
    BY PlanOfTraining, Names
  <2>4. Begin(p, j)
    BY <1>2 DEF Train
  <2> QED
    BY <1>1, <1>2, <2>1, <2>2, <2>3, <2>4 DEF Train, Begin, TypeOK
<1>3. ASSUME NEW p \in Writers, NEW v \in Versions, SaveVersioned(p, v) \/ Rollback(p, v)
      PROVE  TypeOK'
  <2> DEFINE j(c) == [call |-> c, value |-> v]
  <2>1. \A c \in {"save", "rollback"} : j(c) \in Job /\ j(c) # NoJob /\ 1 \in DOMAIN Plan(j(c))
    <3> TAKE c \in {"save", "rollback"}
    <3>1. j(c) \in Job /\ j(c) # NoJob /\ j(c).call # "train"
      BY DEF Job, NoJob
    <3> HIDE DEF j
    <3>2. Len(Plan(j(c))) \in {1, 2} /\ DOMAIN Plan(j(c)) = 1..Len(Plan(j(c)))
      BY <3>1, PlanOfVersion
    <3>3. 1 \in DOMAIN Plan(j(c))
      BY <3>2
    <3> QED
      BY <3>1, <3>3
  <2>2. \E c \in {"save", "rollback"} : Begin(p, j(c))
    BY <1>3 DEF SaveVersioned, Rollback
  <2>3. doubtful' \subseteq Versions
    BY <1>3 DEF SaveVersioned, Rollback, TypeOK
  <2>4. UNCHANGED <<disk, opened, current, reading, crashes, finished, trainings, overlapped, quiet>>
    BY <1>3 DEF SaveVersioned, Rollback, Begin
  <2> HIDE DEF j
  <2>5. /\ job' \in [Writers -> Job] /\ at' \in [Writers -> Nat]
        /\ \A q \in Writers : Active(q)' => at'[q] \in DOMAIN Plan(job'[q]) /\ job'[q] # NoJob
        /\ calls' \in 0..MaxCalls
    BY <1>1, <2>1, <2>2
  <2> QED
    BY <2>3, <2>4, <2>5 DEF TypeOK
<1>4. ASSUME NEW p \in Writers, Remember(p) PROVE TypeOK'
  <2>1. files["pointer"] \in Content
    BY Names DEF TypeOK
  <2> QED
    BY <1>4, <2>1 DEF Remember, TypeOK, Active, Content
<1>5. ASSUME NEW p \in Writers, Open(p) PROVE TypeOK'
  <2>1. files' \in [File -> Content]
    <3>1. [value |-> job[p].value, whole |-> FALSE] \in Content
      BY <1>5, DiskSteps DEF Content
    <3> QED
      BY <1>5, <3>1, DiskSteps DEF TypeOK
  <2> QED
    BY <1>5, <2>1 DEF Open, TypeOK, Active
<1>6. ASSUME NEW p \in Writers, Close(p) PROVE TypeOK'
  <2>1. files' \in [File -> Content]
    BY <1>6, DiskSteps DEF TypeOK
  <2>2. Active(p) /\ at[p] \in 1..Len(Plan(job[p])) /\ DOMAIN Plan(job[p]) = 1..Len(Plan(job[p]))
        /\ Len(Plan(job[p])) \in Nat
    BY <1>6, TargetType DEF Close
  <2>3. CASE at[p] < Len(Plan(job[p]))
    <3>1. at' = [at EXCEPT ![p] = @ + 1] /\ UNCHANGED <<job, finished>>
      BY <1>6, <2>3 DEF Close
    <3>2. at[p] + 1 \in DOMAIN Plan(job[p])
      BY <2>2, <2>3
    <3>3. \A q \in Writers : Active(q)' => at'[q] \in DOMAIN Plan(job'[q]) /\ job'[q] # NoJob
      BY <2>2, <3>1, <3>2 DEF TypeOK, Active
    <3>4. at' \in [Writers -> Nat]
      BY <3>1 DEF TypeOK
    <3> QED
      BY <1>6, <2>1, <3>1, <3>3, <3>4 DEF Close, TypeOK
  <2>4. CASE ~(at[p] < Len(Plan(job[p])))
    <3>1. at' = [at EXCEPT ![p] = 0] /\ job' = [job EXCEPT ![p] = NoJob]
      BY <1>6, <2>4 DEF Close
    <3>2. finished' \subseteq Trainings
      <4>1. job[p].call = "train" => job[p].value \in Trainings
        BY <2>2, TargetCases DEF Training
      <4>2. \/ finished' = finished
            \/ job[p].call = "train" /\ finished' = finished \cup {job[p].value}
        BY <1>6, <2>4 DEF Close
      <4> QED
        BY <4>1, <4>2 DEF TypeOK
    <3>3. \A q \in Writers : Active(q)' => at'[q] \in DOMAIN Plan(job'[q]) /\ job'[q] # NoJob
      BY <3>1 DEF TypeOK, Active
    <3>4. job' \in [Writers -> Job] /\ at' \in [Writers -> Nat]
      BY <3>1 DEF TypeOK, Job
    <3> QED
      BY <1>6, <2>1, <3>2, <3>3, <3>4 DEF Close, TypeOK
  <2> QED
    BY <2>3, <2>4
<1>7. ASSUME NEW p \in Writers, Crash(p) PROVE TypeOK'
  <2>1. crashes' \in 0..MaxCrashes
    BY <1>7, Names DEF Crash, TypeOK
  <2>2. job' \in [Writers -> Job] /\ at' \in [Writers -> Nat]
    BY <1>7 DEF Crash, TypeOK, Job
  <2> QED
    BY <1>7, <2>1, <2>2 DEF Crash, TypeOK, Active
<1>8. ASSUME NEW l \in Loaders, LoadModel(l) PROVE TypeOK'
  <2>1. loading[l] \in 1..Len(Ensemble) /\ Wanted(l) \in ModelNames
    BY <1>8, Names DEF LoadModel, Reads, Wanted
  <2>2. files[Wanted(l)].value \in Value
    BY <1>8, <2>1, Names DEF LoadModel, DiskInv, Exists, TypeOK, Content
  <2> QED
    BY <1>8, <2>1, <2>2, Names DEF LoadModel, NextFile, TypeOK, Active
<1>9. ASSUME NEW l \in Loaders, SkipAbsent(l) PROVE TypeOK'
  <2>1. loading[l] \in 1..Len(Ensemble)
    BY <1>9, Names DEF SkipAbsent, Reads
  <2> QED
    BY <1>9, <2>1, Names DEF SkipAbsent, NextFile, TypeOK, Active
<1>10. ASSUME NEW l \in Loaders, BeginLoad(l) \/ LoadRaises(l) \/ EndLoad(l) PROVE TypeOK'
  <2>1. UNCHANGED <<disk, writing, bounds, overlapped, finished, doubtful>> /\ quiet' \subseteq Loaders
    BY <1>10 DEF BeginLoad, LoadRaises, EndLoad, TypeOK
  <2>2. models' \in [Loaders -> SUBSET (ModelNames \X Value)]
    BY <1>10 DEF BeginLoad, LoadRaises, EndLoad, TypeOK
  <2>3. loading' \in [Loaders -> 0..(Len(Ensemble) + 1)]
    <3>1. loading' = [loading EXCEPT ![l] = 1] \/ loading' = [loading EXCEPT ![l] = 0]
      BY <1>10 DEF BeginLoad, LoadRaises, EndLoad
    <3>2. 0 \in 0..(Len(Ensemble) + 1) /\ 1 \in 0..(Len(Ensemble) + 1)
      BY Names
    <3> QED
      BY <3>1, <3>2 DEF TypeOK
  <2> QED
    BY <2>1, <2>2, <2>3 DEF TypeOK, Active
<1>11. CASE UNCHANGED vars
  BY <1>11 DEF vars, TypeOK, Active
<1> QED
  BY <1>2, <1>3, <1>4, <1>5, <1>6, <1>7, <1>8, <1>9, <1>10, <1>11, StepCases

\* A call that begins leaves the other writers where they are.
LEMMA BeginSteps ==
    ASSUME TypeOK, DiskInv, NEW p \in Writers,
           Train(p) \/ \E v \in Versions : SaveVersioned(p, v) \/ Rollback(p, v)
    PROVE  /\ ~Active(p) /\ ~opened[p] /\ Active(p)' /\ at'[p] = 1
           /\ UNCHANGED <<files, opened, current, loading, models, crashes, finished>>
           /\ \A q \in Writers \ {p} : /\ at'[q] = at[q] /\ job'[q] = job[q]
                                       /\ Active(q)' = Active(q) /\ Training(q)' = Training(q)
                                       /\ Target(q)' = Target(q)
           /\ Train(p) => job'[p] = [call |-> "train", value |-> trainings'] /\ Training(p)'
           /\ ~Train(p) => ~Training(p)' /\ job'[p].value \in Versions
<1>1. PICK j : Begin(p, j) /\ (\/ Train(p) /\ j = [call |-> "train", value |-> trainings']
                              \/ \E v \in Versions :
                                   \/ SaveVersioned(p, v) /\ j = [call |-> "save", value |-> v]
                                   \/ Rollback(p, v) /\ j = [call |-> "rollback", value |-> v])
  BY DEF Train, SaveVersioned, Rollback
<1>2. /\ ~Active(p) /\ at'[p] = 1 /\ job'[p] = j
      /\ UNCHANGED <<files, opened, current, loading, models, crashes, finished>>
      /\ \A q \in Writers \ {p} : at'[q] = at[q] /\ job'[q] = job[q]
  BY <1>1 DEF Begin, TypeOK, disk, reading
<1>3. ~opened[p] /\ Active(p)'
  BY <1>2 DEF DiskInv, Active
<1>4. \A q \in Writers \ {p} : /\ Active(q)' = Active(q) /\ Training(q)' = Training(q)
                              /\ Target(q)' = Target(q)
  BY <1>2 DEF Active, Training, Target
<1>5. Train(p) => trainings' # trainings
  BY DEF Train, TypeOK
<1>6. (\E v \in Versions : SaveVersioned(p, v) \/ Rollback(p, v)) => trainings' = trainings
  BY DEF SaveVersioned, Rollback
<1>7. Train(p) => job'[p] = [call |-> "train", value |-> trainings'] /\ Training(p)'
  BY <1>1, <1>2, <1>3, <1>5, <1>6 DEF Training
<1>8. ~Train(p) => ~Training(p)' /\ job'[p].value \in Versions
  BY <1>1, <1>2 DEF Training
<1> QED
  BY <1>2, <1>3, <1>4, <1>7, <1>8

\* Writers that open, close or crash leave the others where they are.
LEMMA WriterSteps ==
    ASSUME TypeOK, DiskInv, NEW p \in Writers, Open(p) \/ Close(p) \/ Crash(p)
    PROVE  /\ Active(p)
           /\ UNCHANGED <<current, loading, models, trainings, overlapped, quiet, doubtful>>
           /\ \A q \in Writers \ {p} : /\ at'[q] = at[q] /\ job'[q] = job[q] /\ opened'[q] = opened[q]
                                       /\ Active(q)' = Active(q) /\ Training(q)' = Training(q)
                                       /\ Target(q)' = Target(q)
           /\ Open(p) => /\ UNCHANGED <<job, at, finished>> /\ opened'[p] = TRUE
                         /\ Active(p)' /\ Training(p)' = Training(p) /\ Target(p)' = Target(p)
           /\ Close(p) => /\ opened[p] /\ opened'[p] = FALSE
                          /\ \/ /\ at[p] < Len(Plan(job[p])) /\ at'[p] = at[p] + 1 /\ job'[p] = job[p]
                                /\ finished' = finished
                                /\ Active(p)' /\ Training(p)' = Training(p)
                             \/ /\ at[p] = Len(Plan(job[p])) /\ at'[p] = 0
                                /\ ~Active(p)' /\ ~Training(p)'
                                /\ finished' = IF Training(p) THEN finished \cup {job[p].value}
                                                              ELSE finished
           /\ Crash(p) => /\ ~Active(p)' /\ ~Training(p)' /\ opened'[p] = FALSE
                          /\ UNCHANGED <<files, finished>>
<1>1. /\ Active(p)
      /\ UNCHANGED <<current, loading, models, trainings, overlapped, quiet, doubtful>>
  BY DEF Open, Close, Crash, reading, bounds, history
<1>2. \A q \in Writers \ {p} : at'[q] = at[q] /\ job'[q] = job[q] /\ opened'[q] = opened[q]
  BY DEF Open, Close, Crash, TypeOK, history, reading, bounds
<1>3. \A q \in Writers \ {p} : /\ Active(q)' = Active(q) /\ Training(q)' = Training(q)
                              /\ Target(q)' = Target(q)
  BY <1>2 DEF Active, Training, Target
<1>4. ASSUME Open(p)
      PROVE  /\ UNCHANGED <<job, at, finished>> /\ opened'[p] = TRUE
             /\ Active(p)' /\ Training(p)' = Training(p) /\ Target(p)' = Target(p)
  BY <1>1, <1>4 DEF Open, TypeOK, history, Active, Training, Target
<1>5. ASSUME Close(p)
      PROVE  /\ opened[p] /\ opened'[p] = FALSE
             /\ \/ /\ at[p] < Len(Plan(job[p])) /\ at'[p] = at[p] + 1 /\ job'[p] = job[p]
                   /\ finished' = finished
                   /\ Active(p)' /\ Training(p)' = Training(p)
                \/ /\ at[p] = Len(Plan(job[p])) /\ at'[p] = 0
                   /\ ~Active(p)' /\ ~Training(p)'
                   /\ finished' = IF Training(p) THEN finished \cup {job[p].value}
                                                 ELSE finished
  <2>1. opened[p] /\ opened'[p] = FALSE
    BY <1>5 DEF Close, TypeOK
  <2>2. at[p] \in 1..Len(Plan(job[p])) /\ Len(Plan(job[p])) \in Nat
    BY <1>1, TargetType
  <2>3. CASE at[p] < Len(Plan(job[p]))
    <3>1. at'[p] = at[p] + 1 /\ job'[p] = job[p] /\ finished' = finished
      BY <1>5, <2>3 DEF Close, TypeOK
    <3> QED
      BY <1>1, <2>1, <2>2, <2>3, <3>1 DEF Active, Training
  <2>4. CASE ~(at[p] < Len(Plan(job[p])))
    <3>1. at[p] = Len(Plan(job[p]))
      BY <2>2, <2>4
    <3>2. at'[p] = 0 /\ finished' = IF job[p].call = "train" THEN finished \cup {job[p].value}
                                                          ELSE finished
      BY <1>5, <2>4 DEF Close, TypeOK
    <3> QED
      BY <1>1, <2>1, <3>1, <3>2 DEF Active, Training
  <2> QED
    BY <2>3, <2>4
<1>6. ASSUME Crash(p)
      PROVE  /\ ~Active(p)' /\ ~Training(p)' /\ opened'[p] = FALSE
             /\ UNCHANGED <<files, finished>>
  BY <1>6 DEF Crash, TypeOK, disk, history, Active, Training
<1> QED
  BY <1>1, <1>2, <1>3, <1>4, <1>5, <1>6

LEMMA DiskStep ==
    ASSUME TypeOK, DiskInv, [Next]_vars
    PROVE  DiskInv'
<1> USE DEF disk, writing, reading, bounds, history
<1>1. ASSUME NEW p \in Writers,
             Train(p) \/ \E v \in Versions : SaveVersioned(p, v) \/ Rollback(p, v)
      PROVE  DiskInv'
  BY <1>1, BeginSteps DEF DiskInv, Exists
<1>2. ASSUME UNCHANGED <<files, job, at, opened>> PROVE DiskInv'
  BY <1>2 DEF DiskInv, Exists, Active, Target
<1>3. ASSUME NEW p \in Writers, Open(p) PROVE DiskInv'
  <2>1. Target(p) \in File /\ job[p].value # NoValue
        /\ files' = [files EXCEPT ![Target(p)] = [value |-> job[p].value, whole |-> FALSE]]
    BY <1>3, DiskSteps, Names
  <2>2. \A f \in File : /\ files'[f].whole => Exists(f)'
                        /\ Exists(f) => Exists(f)'
                        /\ f = Target(p) => Exists(f)'
    BY <2>1 DEF DiskInv, Exists, TypeOK
  <2>3. \A q \in Writers : Active(q) => Target(q) \in File
    BY TargetType
  <2> QED
    BY <1>3, <2>1, <2>2, <2>3, WriterSteps DEF DiskInv
<1>4. ASSUME NEW p \in Writers, Close(p) PROVE DiskInv'
  <2>1. PICK c \in Content : Target(p) \in File /\ c.value # NoValue
                             /\ files' = [files EXCEPT ![Target(p)] = c]
    BY <1>4, DiskSteps
  <2>2. \A f \in File : /\ files'[f].whole => Exists(f)'
                        /\ Exists(f) => Exists(f)'
    BY <2>1 DEF DiskInv, Exists, TypeOK
  <2>3. \A q \in Writers : Active(q) => Target(q) \in File
    BY TargetType
  <2>4. opened'[p] = FALSE /\ \A q \in Writers \ {p} :
          opened'[q] = opened[q] /\ Active(q)' = Active(q) /\ Target(q)' = Target(q)
    BY <1>4, WriterSteps
  <2> QED
    BY <2>2, <2>3, <2>4 DEF DiskInv
<1>5. ASSUME NEW p \in Writers, Crash(p) PROVE DiskInv'
  BY <1>5, WriterSteps DEF DiskInv, Exists
<1> QED
  BY <1>1, <1>2, <1>3, <1>4, <1>5, StepCases
     DEF Remember, BeginLoad, LoadModel, SkipAbsent, LoadRaises, EndLoad, vars

-----------------------------------------------------------------------------
(***************************************************************************)
(* The files of trainings, as long as no two have run at once.  A training *)
(* is the latest one; the files it has passed hold its data; nothing it    *)
(* writes is older than the metadata.  After it is through a load that it  *)
(* did not disturb has collected its models up to where it is.             *)
(***************************************************************************)
TrainFile == ModelNames \cup {"reference", "metadata"}
Stored(t) == [value |-> t, whole |-> TRUE]
Loaded(n) == {<<Ensemble[i], trainings>> : i \in 1..n}

WriterInv ==
    /\ \A p, q \in Writers : Training(p) /\ Training(q) => p = q
    /\ \A p \in Writers : Training(p) =>
         /\ job[p].value = trainings /\ trainings \in Trainings /\ trainings \notin finished
         /\ quiet = {}
         /\ \A i \in 1..(at[p] - 1) : files[Plan(job[p])[i]] = Stored(trainings)
         /\ opened[p] => files[Target(p)].value = trainings

ValueInv ==
    /\ \A f \in TrainFile : files[f].value \in (1..trainings) \cup {NoValue}
    /\ Exists("metadata") =>
         \A f \in ModelNames \cup {"reference"} :
            files[f].value \in Trainings /\ files[f].value >= files["metadata"].value

LoadInv ==
    /\ finished \subseteq 1..trainings
    /\ trainings \in finished =>
         /\ \A m \in ModelNames : files[m] = Stored(trainings)
         /\ \A l \in quiet :
              models[l] = Loaded(IF loading[l] = 0 THEN Len(Ensemble) ELSE loading[l] - 1)

TrainInv == ~overlapped => WriterInv /\ ValueInv /\ LoadInv

\* Each file occurs once among those of a training.
LEMMA PlanInjective ==
    ASSUME TypeOK, NEW p \in Writers, Training(p)
    PROVE  /\ \A i \in 1..(at[p] - 1) : /\ Plan(job[p])[i] \in TrainFile
                                       /\ Plan(job[p])[i] # Target(p)
           /\ Target(p) \in TrainFile
           /\ at[p] \in 1..(Len(Ensemble) + 2)
<1> DEFINE plan == Plan(job[p])
           n == Len(Ensemble)
<1>1. /\ at[p] \in 1..(n + 2) /\ n \in Nat
      /\ plan[1] = "reference" /\ \A i \in 1..n : plan[i + 1] = Ensemble[i]
      /\ Target(p) = plan[at[p]] /\ Target(p) \in TrainFile
      /\ at[p] = n + 2 => Target(p) = "metadata"
  BY TargetType, TargetCases, Names DEF Training, Target, TrainFile
<1>2. /\ "reference" \notin ModelNames /\ "metadata" \notin ModelNames
      /\ \A i \in 1..n : Ensemble[i] \in ModelNames
      /\ \A i, j \in 1..n : Ensemble[i] = Ensemble[j] => i = j
  BY Names, ModelFilesAssumption DEF ModelFilesAssumption
<1> HIDE DEF plan, n
<1>3. ASSUME NEW i \in 1..(at[p] - 1) PROVE plan[i] \in TrainFile /\ plan[i] # plan[at[p]]
  <2>1. CASE i = 1
    <3>1. CASE at[p] = n + 2
      BY <1>1, <2>1, <3>1 DEF TrainFile
    <3>2. CASE at[p] # n + 2
      <4>1. at[p] - 1 \in 1..n /\ (at[p] - 1) + 1 = at[p]
        BY <1>1, <1>3, <3>2
      <4>2. plan[at[p]] = Ensemble[at[p] - 1]
        BY <1>1, <4>1
      <4> QED
        BY <1>1, <1>2, <2>1, <4>1, <4>2 DEF TrainFile
    <3> QED
      BY <3>1, <3>2
  <2>2. CASE i # 1
    <3>1. i - 1 \in 1..n /\ (i - 1) + 1 = i
      BY <1>1, <1>3, <2>2
    <3>2. plan[i] = Ensemble[i - 1]
      BY <1>1, <3>1
    <3>3. CASE at[p] = n + 2
      BY <1>1, <1>2, <3>1, <3>2, <3>3 DEF TrainFile
    <3>4. CASE at[p] # n + 2
      <4>1. at[p] - 1 \in 1..n /\ (at[p] - 1) + 1 = at[p] /\ at[p] - 1 # i - 1
        BY <1>1, <1>3, <3>4
      <4>2. plan[at[p]] = Ensemble[at[p] - 1]
        BY <1>1, <4>1
      <4> QED
        BY <1>2, <3>1, <3>2, <4>1, <4>2 DEF TrainFile
    <3> QED
      BY <3>3, <3>4
  <2> QED
    BY <2>1, <2>2
<1> QED
  BY <1>1, <1>3 DEF plan, n

\* What the calls of the registry write is none of a training's files.
LEMMA VersionTarget ==
    ASSUME TypeOK, NEW p \in Writers, Active(p), ~Training(p)
    PROVE  Target(p) \notin TrainFile
<1>1. Target(p) \in Versions \cup {"pointer"}
  BY TargetCases
<1> QED
  BY <1>1, Names DEF TrainFile

\* A step that changes none of the files of trainings, and starts none.
LEMMA TrainFrame ==
    ASSUME TypeOK, TrainInv,
           UNCHANGED <<trainings, overlapped, quiet, finished, models, loading>>,
           \A f \in TrainFile : files'[f] = files[f],
           \A p \in Writers : Training(p)' =>
              /\ Training(p) /\ job'[p] = job[p] /\ at'[p] = at[p]
              /\ opened'[p] = opened[p] /\ Target(p)' = Target(p)
    PROVE  TrainInv'
<1> SUFFICES ASSUME ~overlapped PROVE WriterInv' /\ ValueInv' /\ LoadInv'
  BY DEF TrainInv
<1>1. WriterInv /\ ValueInv /\ LoadInv
  BY DEF TrainInv
<1>2. WriterInv'
  <2>1. \A p, q \in Writers : Training(p)' /\ Training(q)' => p = q
    BY <1>1 DEF WriterInv
  <2>2. ASSUME NEW p \in Writers, Training(p)'
        PROVE  /\ job'[p].value = trainings' /\ trainings' \in Trainings /\ trainings' \notin finished'
               /\ quiet' = {}
               /\ \A i \in 1..(at'[p] - 1) : files'[Plan(job'[p])[i]] = Stored(trainings')
               /\ opened'[p] => files'[Target(p)'].value = trainings'
    <3>1. Training(p)
      BY <2>2
    <3>2. /\ \A i \in 1..(at[p] - 1) : Plan(job[p])[i] \in TrainFile
          /\ Target(p) \in TrainFile
      BY <3>1, PlanInjective
    <3> QED
      BY <1>1, <2>2, <3>1, <3>2 DEF WriterInv
  <2> QED
    BY <2>1, <2>2 DEF WriterInv
<1>3. ValueInv'
  BY <1>1 DEF ValueInv, TrainFile, Exists
<1>4. LoadInv'
  BY <1>1 DEF LoadInv, Loaded, TrainFile
<1> QED
  BY <1>2, <1>3, <1>4

\* A training that begins is the only one, or the runs overlap from now on.
LEMMA TrainBegins ==
    ASSUME TypeOK, DiskInv, TrainInv, NEW p \in Writers, Train(p)
    PROVE  TrainInv'
<1> SUFFICES ASSUME ~overlapped' PROVE WriterInv' /\ ValueInv' /\ LoadInv'
  BY DEF TrainInv
<1>1. ~overlapped /\ \A q \in Writers : ~Training(q)
  BY DEF Train
<1>2. WriterInv /\ ValueInv /\ LoadInv
  BY <1>1 DEF TrainInv
<1>3. /\ UNCHANGED <<files, opened, models, loading, finished>>
      /\ ~opened[p] /\ at'[p] = 1 /\ job'[p].value = trainings'
      /\ \A q \in Writers \ {p} : ~Training(q)'
  BY <1>1, BeginSteps
<1>4. /\ trainings' = trainings + 1 /\ quiet' = {} /\ trainings \in Nat
      /\ trainings' \in Trainings
  BY Names DEF Train, TypeOK, Trainings
<1>5. trainings' \notin finished /\ finished \subseteq 1..trainings'
  BY <1>2, <1>4 DEF LoadInv
<1>6. WriterInv'
  BY <1>3, <1>4, <1>5 DEF WriterInv
<1>7. ValueInv'
  <2>1. 1..trainings \subseteq 1..trainings'
    BY <1>4
  <2> QED
    BY <1>2, <1>3, <2>1 DEF ValueInv, Exists
<1>8. LoadInv'
  BY <1>3, <1>5 DEF LoadInv
<1> QED
  BY <1>6, <1>7, <1>8

\* A training opens a file; the metadata only when the others are its own.
LEMMA TrainOpens ==
    ASSUME TypeOK, DiskInv, TrainInv, NEW p \in Writers, Open(p), Training(p)
    PROVE  TrainInv'
<1> SUFFICES ASSUME ~overlapped PROVE WriterInv' /\ ValueInv' /\ LoadInv'
  BY WriterSteps DEF TrainInv
<1> DEFINE f == Target(p)
<1>1. WriterInv /\ ValueInv /\ LoadInv
  BY DEF TrainInv
<1>2. /\ UNCHANGED <<current, loading, models, trainings, quiet, job, at, finished>>
      /\ f \in File /\ files' = [files EXCEPT ![f] = [value |-> trainings, whole |-> FALSE]]
      /\ f \in TrainFile /\ Training(p)' /\ Target(p)' = f
      /\ trainings \in Trainings /\ trainings \in Nat /\ trainings \notin finished /\ quiet = {}
  <2>1. /\ job[p].value = trainings /\ trainings \in Trainings /\ trainings \in Nat
        /\ trainings \notin finished /\ quiet = {}
    BY <1>1, Names DEF WriterInv
  <2>2. f \in File /\ files' = [files EXCEPT ![f] = [value |-> trainings, whole |-> FALSE]]
    BY <2>1, DiskSteps
  <2>3. f \in TrainFile
    BY PlanInjective
  <2>4. /\ UNCHANGED <<current, loading, models, trainings, quiet, job, at, finished>>
        /\ Training(p)' /\ Target(p)' = f
    BY WriterSteps
  <2> QED
    BY <2>1, <2>2, <2>3, <2>4
<1>3. /\ files'[f] = [value |-> trainings, whole |-> FALSE]
      /\ \A g \in File \ {f} : files'[g] = files[g]
      /\ TrainFile \subseteq File
  BY <1>2, Names DEF TypeOK, TrainFile
<1>4. WriterInv'
  <2>1. \A q \in Writers \ {p} : ~Training(q)'
    BY <1>1, WriterSteps DEF WriterInv
  <2>2. \A i \in 1..(at[p] - 1) : files'[Plan(job[p])[i]] = Stored(trainings)
    BY <1>1, <1>3, PlanInjective DEF WriterInv
  <2>3. job[p].value = trainings
    BY <1>1 DEF WriterInv
  <2> QED
    BY <1>2, <1>3, <2>1, <2>2, <2>3 DEF WriterInv
<1>5. ValueInv'
  <2>1. \A g \in TrainFile : files'[g].value \in (1..trainings) \cup {NoValue}
    BY <1>1, <1>2, <1>3 DEF ValueInv, Trainings
  <2>2. CASE f = "metadata"
    <3>1. at[p] = Len(Ensemble) + 2
      BY <2>2, TargetCases DEF Training
    <3>2. /\ Plan(job[p])[1] = "reference"
          /\ \A i \in 1..Len(Ensemble) : Plan(job[p])[i + 1] = Ensemble[i]
      BY TargetCases, Names DEF Training
    <3>3. \A g \in ModelNames \cup {"reference"} : files[g] = Stored(trainings)
      <4>1. files["reference"] = Stored(trainings)
        BY <1>1, <3>1, <3>2, Names DEF WriterInv
      <4>2. ASSUME NEW i \in 1..Len(Ensemble) PROVE files[Ensemble[i]] = Stored(trainings)
        <5>1. i + 1 \in 1..(at[p] - 1)
          BY <3>1, Names
        <5> QED
          BY <1>1, <3>2, <5>1 DEF WriterInv
      <4> QED
        BY <4>1, <4>2, Names DEF ModelNames
    <3>4. \A g \in ModelNames \cup {"reference"} : g # f
      BY <2>2, Names
    <3>5. \A g \in ModelNames \cup {"reference"} : files'[g].value = trainings
      BY <1>3, <3>3, <3>4 DEF Stored, TrainFile
    <3> QED
      BY <1>2, <1>3, <2>1, <2>2, <3>5 DEF ValueInv
  <2>3. CASE f # "metadata"
    <3>1. files'["metadata"] = files["metadata"]
      BY <1>3, <2>3, Names
    <3>2. Exists("metadata") => files["metadata"].value <= trainings
      BY <1>1, <1>2 DEF ValueInv, TrainFile, Exists
    <3>3. \A g \in ModelNames \cup {"reference"} : g = f \/ files'[g] = files[g]
      BY <1>3 DEF TrainFile
    <3> QED
      BY <1>1, <1>2, <1>3, <2>1, <3>1, <3>2, <3>3 DEF ValueInv, Exists
  <2> QED
    BY <2>2, <2>3
<1>6. LoadInv'
  BY <1>1, <1>2 DEF LoadInv
<1> QED
  BY <1>4, <1>5, <1>6

\* A training closes a file: nobody else has written it.
LEMMA TrainCloses ==
    ASSUME TypeOK, DiskInv, TrainInv, NEW p \in Writers, Close(p), Training(p)
    PROVE  TrainInv'
<1> SUFFICES ASSUME ~overlapped PROVE WriterInv' /\ ValueInv' /\ LoadInv'
  BY WriterSteps DEF TrainInv
<1> DEFINE f == Target(p)
<1>1. WriterInv /\ ValueInv /\ LoadInv
  BY DEF TrainInv
<1>2. /\ job[p].value = trainings /\ trainings \in Trainings /\ trainings \in Nat
      /\ trainings \notin finished /\ quiet = {}
      /\ opened[p] /\ files[f].value = trainings
      /\ f \in TrainFile /\ f \in File /\ TrainFile \subseteq File
  BY <1>1, WriterSteps, PlanInjective, Names DEF WriterInv, TrainFile
<1>3. files' = [files EXCEPT ![f] = Stored(trainings)]
  <2>1. \A q \in Writers \ {p} : Active(q) => Target(q) # f
    BY <1>1, <1>2, VersionTarget DEF WriterInv
  <2>2. Outcomes(p) = {Stored(trainings)}
    BY <1>2, <2>1 DEF Outcomes, Stored
  <2> QED
    BY <2>2 DEF Close
<1>4. /\ files'[f] = Stored(trainings)
      /\ \A g \in File \ {f} : files'[g] = files[g]
      /\ \A g \in TrainFile : files'[g].value = files[g].value
  BY <1>2, <1>3 DEF TypeOK, Stored
<1>5. /\ UNCHANGED <<loading, models, trainings, quiet>>
      /\ opened'[p] = FALSE
      /\ \A q \in Writers \ {p} : ~Training(q)'
  BY <1>1, WriterSteps DEF WriterInv
<1>6. /\ at[p] \in 1..(Len(Ensemble) + 2)
      /\ \A i \in 1..(at[p] - 1) : files'[Plan(job[p])[i]] = Stored(trainings)
      /\ f = Plan(job[p])[at[p]]
  BY <1>1, <1>2, <1>4, PlanInjective DEF WriterInv, Target
<1>7. \A i \in 1..at[p] : files'[Plan(job[p])[i]] = Stored(trainings)
  BY <1>4, <1>6, Names
<1>8. ValueInv'
  <2>1. Exists("metadata")' = Exists("metadata")
    BY <1>4 DEF Exists, TrainFile
  <2> QED
    BY <1>1, <1>4, <1>5, <2>1 DEF ValueInv, TrainFile
<1>9. CASE at[p] < Len(Plan(job[p]))
  <2>1. at'[p] = at[p] + 1 /\ job'[p] = job[p] /\ finished' = finished /\ Training(p)'
    <3>1. at[p] # Len(Plan(job[p]))
      BY <1>6, <1>9
    <3> QED
      BY <3>1, WriterSteps
  <2>2. at'[p] - 1 = at[p]
    BY <1>6, <2>1, Names
  <2>3. WriterInv'
    BY <1>2, <1>5, <1>7, <2>1, <2>2 DEF WriterInv
  <2>4. LoadInv'
    BY <1>1, <1>2, <1>5, <2>1 DEF LoadInv
  <2> QED
    BY <1>8, <2>3, <2>4
<1>10. CASE ~(at[p] < Len(Plan(job[p])))
  <2>1. /\ at[p] = Len(Plan(job[p])) /\ ~Training(p)'
        /\ finished' = finished \cup {trainings}
    BY <1>2, <1>10, WriterSteps
  <2>2. WriterInv'
    BY <1>5, <2>1 DEF WriterInv
  <2>3. \A m \in ModelNames : files'[m] = Stored(trainings)
    <3>1. /\ at[p] = Len(Ensemble) + 2
          /\ \A i \in 1..Len(Ensemble) : Plan(job[p])[i + 1] = Ensemble[i]
      BY <2>1, TargetCases, Names DEF Training
    <3>2. ASSUME NEW i \in 1..Len(Ensemble) PROVE files'[Ensemble[i]] = Stored(trainings)
      <4>1. i + 1 \in 1..at[p]
        BY <3>1, Names
      <4> QED
        BY <1>7, <3>1, <4>1
    <3> QED
      BY <3>2, Names DEF ModelNames
  <2>4. finished' \subseteq 1..trainings'
    <3>1. trainings \in 1..trainings
      BY <1>2, Names DEF Trainings
    <3> QED
      BY <1>1, <1>5, <2>1, <3>1 DEF LoadInv
  <2>5. LoadInv'
    BY <1>2, <1>5, <2>3, <2>4 DEF LoadInv
  <2> QED
    BY <1>8, <2>2, <2>5
<1> QED
  BY <1>9, <1>10

\* The loaders: what a quiet one collects after a training is through.
LEMMA TrainLoads ==
    ASSUME TypeOK, DiskInv, TrainInv, NEW l \in Loaders,
           BeginLoad(l) \/ LoadModel(l) \/ SkipAbsent(l) \/ LoadRaises(l) \/ EndLoad(l)
    PROVE  TrainInv'
<1> USE DEF disk, writing, reading, bounds, history
<1> SUFFICES ASSUME ~overlapped PROVE WriterInv' /\ ValueInv' /\ LoadInv'
  BY DEF TrainInv, BeginLoad, LoadModel, SkipAbsent, LoadRaises, EndLoad
<1>1. WriterInv /\ ValueInv /\ LoadInv
  BY DEF TrainInv
<1>2. UNCHANGED <<files, job, at, opened, trainings, finished>>
  BY DEF BeginLoad, LoadModel, SkipAbsent, LoadRaises, EndLoad
<1>3. \/ quiet' = quiet
      \/ /\ BeginLoad(l)
         /\ quiet' = IF \E p \in Writers : Training(p) THEN quiet \ {l} ELSE quiet \cup {l}
  <2>1. CASE BeginLoad(l)
    <3>1. quiet' = IF \E p \in Writers : Training(p) THEN quiet \ {l} ELSE quiet \cup {l}
      BY <2>1 DEF BeginLoad
    <3> QED
      BY <2>1, <3>1
  <2>2. CASE ~BeginLoad(l)
    <3>1. quiet' = quiet
      BY <2>2 DEF LoadModel, SkipAbsent, LoadRaises, EndLoad
    <3> QED
      BY <3>1
  <2> QED
    BY <2>1, <2>2
<1>4. WriterInv'
  BY <1>1, <1>2, <1>3 DEF WriterInv, Training, Active, Target
<1>5. ValueInv'
  BY <1>1, <1>2 DEF ValueInv, Exists
<1>6. ASSUME trainings \in finished, NEW k \in quiet'
      PROVE  models'[k] = Loaded(IF loading'[k] = 0 THEN Len(Ensemble) ELSE loading'[k] - 1)
  <2> DEFINE n(i) == IF i = 0 THEN Len(Ensemble) ELSE i - 1
  <2>1. /\ \A m \in ModelNames : files[m] = Stored(trainings)
        /\ \A q \in quiet : models[q] = Loaded(n(loading[q]))
    BY <1>1, <1>6 DEF LoadInv
  <2>2. CASE k # l
    BY <1>3, <2>1, <2>2 DEF BeginLoad, LoadModel, SkipAbsent, LoadRaises, EndLoad, NextFile, TypeOK
  <2>3. CASE k = l /\ BeginLoad(l)
    <3>1. loading'[k] = 1 /\ models'[k] = {}
      BY <2>3 DEF BeginLoad, TypeOK
    <3>2. Loaded(0) = {}
      BY DEF Loaded
    <3> QED
      BY <3>1, <3>2
  <2>4. CASE k = l /\ ~BeginLoad(l)
    <3>1. k \in quiet /\ models[k] = Loaded(n(loading[k]))
      BY <1>3, <2>1, <2>4
    <3>2. Reads(l) => Wanted(l) \in ModelNames /\ files[Wanted(l)] = Stored(trainings)
      BY <2>1, Names DEF Reads, Wanted
    <3>3. ~SkipAbsent(l) /\ ~LoadRaises(l)
      <4>1. Reads(l) => Exists(Wanted(l)) /\ files[Wanted(l)].whole
        <5>1. trainings # NoValue
          BY <1>1, <1>6, Names DEF TypeOK, Value
        <5> QED
          BY <3>2, <5>1 DEF Exists, Stored
      <4> QED
        BY <4>1 DEF SkipAbsent, LoadRaises
    <3>4. CASE LoadModel(l)
      <4>1. loading[l] \in 1..Len(Ensemble) /\ loading'[l] = loading[l] + 1
        BY <3>4, Names DEF LoadModel, Reads, NextFile, TypeOK
      <4>2. models'[l] = models[l] \cup {<<Ensemble[loading[l]], trainings>>}
        BY <3>2, <3>4 DEF LoadModel, Wanted, Stored, TypeOK
      <4>3. n(loading[l]) = loading[l] - 1 /\ n(loading'[l]) = loading[l]
        BY <4>1
      <4>4. 1..loading[l] = (1..(loading[l] - 1)) \cup {loading[l]}
        BY <4>1
      <4>5. Loaded(loading[l]) = Loaded(loading[l] - 1) \cup {<<Ensemble[loading[l]], trainings>>}
        BY <4>4, Zenon DEF Loaded
      <4> QED
        BY <2>4, <3>1, <4>2, <4>3, <4>5
    <3>5. CASE EndLoad(l)
      <4>1. loading[l] = Len(Ensemble) + 1 /\ loading'[l] = 0 /\ models' = models
        BY <3>5 DEF EndLoad, TypeOK
      <4>2. n(loading[l]) = Len(Ensemble) /\ n(loading'[l]) = Len(Ensemble)
        BY <4>1, Names
      <4> QED
        BY <2>4, <3>1, <4>1, <4>2
    <3> QED
      BY <2>4, <3>3, <3>4, <3>5
  <2> QED
    BY <2>2, <2>3, <2>4
<1>7. LoadInv'
  <2>1. Loaded(0)' = Loaded(0) /\ \A n : Loaded(n)' = Loaded(n)
    BY <1>2 DEF Loaded
  <2> QED
    BY <1>1, <1>2, <1>6, <2>1 DEF LoadInv
<1> QED
  BY <1>4, <1>5, <1>7

LEMMA TrainStep ==
    ASSUME TypeOK, DiskInv, TrainInv, [Next]_vars
    PROVE  TrainInv'
<1> USE DEF disk, writing, reading, bounds, history
<1>1. ASSUME NEW p \in Writers, Train(p) PROVE TrainInv'
  BY <1>1, TrainBegins
<1>2. ASSUME NEW p \in Writers, ~Train(p),
             \E v \in Versions : SaveVersioned(p, v) \/ Rollback(p, v)
      PROVE  TrainInv'
  <2>1. UNCHANGED <<trainings, overlapped, quiet>>
    BY <1>2 DEF SaveVersioned, Rollback
  <2> QED
    BY <1>2, <2>1, BeginSteps, TrainFrame
<1>3. ASSUME UNCHANGED <<files, job, at, opened, trainings, overlapped, quiet, finished, models, loading>>
      PROVE  TrainInv'
  BY <1>3, TrainFrame DEF Training, Active, Target
<1>4. ASSUME NEW p \in Writers, Open(p) \/ Close(p) \/ Crash(p) PROVE TrainInv'
  <2>1. CASE Training(p) /\ Open(p)
    BY <2>1, TrainOpens
  <2>2. CASE Training(p) /\ Close(p)
    BY <2>2, TrainCloses
  <2>3. CASE ~Training(p) /\ ~Crash(p)
    <3>1. ~Training(p)' /\ finished' = finished
      BY <1>4, <2>3, WriterSteps
    <3>2. Target(p) \notin TrainFile /\ TrainFile \subseteq File
      BY <1>4, <2>3, WriterSteps, VersionTarget, Names DEF TrainFile
    <3>3. \A f \in TrainFile : files'[f] = files[f]
      BY <1>4, <2>3, <3>2, DiskSteps DEF TypeOK
    <3> QED
      BY <1>4, <3>1, <3>3, WriterSteps, TrainFrame
  <2>4. CASE Crash(p)
    BY <2>4, WriterSteps, TrainFrame
  <2> QED
    BY <1>4, <2>1, <2>2, <2>3, <2>4
<1>5. ASSUME NEW l \in Loaders,
             BeginLoad(l) \/ LoadModel(l) \/ SkipAbsent(l) \/ LoadRaises(l) \/ EndLoad(l)
      PROVE  TrainInv'
  BY <1>5, TrainLoads
<1> QED
  BY <1>1, <1>2, <1>3, <1>4, <1>5, StepCases DEF Remember, vars

-----------------------------------------------------------------------------
(***************************************************************************)
(* The files of versions.  What the pointer names, and what a call is about *)
(* to make it name, is whole; a version that is being stored is nobody      *)
(* else's.                                                                 *)
(***************************************************************************)
Saving(p) == Active(p) /\ job[p].call = "save" /\ at[p] = 1

PointerInv ==
    /\ files["pointer"].value \in Versions \cup {NoValue}
    /\ \A v \in Versions : files[v].value \in {v, NoValue}
    /\ \A v \in Versions \ doubtful :
         /\ files["pointer"].value = v => files[v].whole
         /\ \A p \in Writers : Active(p) /\ job[p].value = v =>
              IF Saving(p)
                 THEN /\ ~files[v].whole
                      /\ \A q \in Writers : Active(q) /\ job[q].value = v => q = p
                 ELSE files[v].whole

\* A call of the registry begins.
LEMMA VersionBegins ==
    ASSUME TypeOK, DiskInv, PointerInv, NEW p \in Writers, NEW w \in Versions,
           SaveVersioned(p, w) \/ Rollback(p, w)
    PROVE  PointerInv'
<1>1. /\ ~Active(p) /\ Active(p)' /\ at'[p] = 1 /\ files' = files
      /\ \A q \in Writers \ {p} : /\ job'[q] = job[q] /\ Active(q)' = Active(q)
                                  /\ at'[q] = at[q]
      /\ \A q \in Writers \ {p} : Saving(q)' = Saving(q)
  BY BeginSteps DEF Saving
<1>2. doubtful \subseteq doubtful'
  BY DEF SaveVersioned, Rollback
<1>3. /\ job'[p].value = w
      /\ SaveVersioned(p, w) => Saving(p)'
      /\ ~SaveVersioned(p, w) => ~Saving(p)'
  <2>1. CASE SaveVersioned(p, w)
    <3>1. job'[p] = [call |-> "save", value |-> w]
      BY <2>1 DEF SaveVersioned, Begin, TypeOK
    <3> QED
      BY <1>1, <2>1, <3>1 DEF Saving
  <2>2. CASE ~SaveVersioned(p, w)
    <3>1. job'[p] = [call |-> "rollback", value |-> w]
      BY <2>2 DEF Rollback, Begin, TypeOK
    <3> QED
      BY <1>1, <2>2, <3>1 DEF Saving
  <2> QED
    BY <2>1, <2>2
<1>4. ASSUME w \notin doubtful', SaveVersioned(p, w)
      PROVE  /\ ~files[w].whole
             /\ \A q \in Writers : ~(Active(q) /\ job[q].value = w)
  <2>1. ~(Exists(w) \/ \E q \in Writers : Active(q) /\ job[q].value = w)
    BY <1>4 DEF SaveVersioned
  <2> QED
    BY <2>1, Names DEF DiskInv
<1>5. ASSUME w \notin doubtful', ~SaveVersioned(p, w) PROVE files[w].whole
  BY <1>5 DEF Rollback
<1>6. ASSUME NEW v \in Versions \ doubtful', NEW q \in Writers, Active(q)', job'[q].value = v
      PROVE  IF Saving(q)'
                THEN /\ ~files[v].whole
                     /\ \A r \in Writers : Active(r)' /\ job'[r].value = v => r = q
                ELSE files[v].whole
  <2>1. CASE v # w
    BY <1>1, <1>2, <1>3, <1>6, <2>1 DEF PointerInv
  <2>2. CASE v = w /\ q = p
    BY <1>1, <1>3, <1>4, <1>5, <1>6, <2>2
  <2>3. CASE v = w /\ q # p
    <3>1. Active(q) /\ job[q].value = w
      BY <1>1, <1>6, <2>3
    <3>2. ~SaveVersioned(p, w) /\ files[w].whole
      BY <1>4, <1>5, <1>6, <2>3, <3>1
    <3>3. ~Saving(q)
      BY <1>2, <1>6, <2>3, <3>1, <3>2 DEF PointerInv
    <3> QED
      BY <1>1, <2>3, <3>2, <3>3
  <2> QED
    BY <2>1, <2>2, <2>3
<1> QED
  BY <1>1, <1>2, <1>6 DEF PointerInv

\* A version's file, or the pointer, is opened.
LEMMA VersionOpens ==
    ASSUME TypeOK, DiskInv, PointerInv, NEW p \in Writers, Open(p)
    PROVE  PointerInv'
<1>1. /\ UNCHANGED <<job, at, doubtful>> /\ Active(p)
      /\ \A q \in Writers : Active(q)' = Active(q) /\ Saving(q)' = Saving(q)
  BY WriterSteps DEF Active, Saving
<1>2. /\ Target(p) \in File
      /\ files' = [files EXCEPT ![Target(p)] = [value |-> job[p].value, whole |-> FALSE]]
      /\ Versions \subseteq File /\ "pointer" \in File /\ "pointer" \notin Versions
  BY DiskSteps, Names
<1>3. CASE Target(p) \notin Versions \cup {"pointer"}
  BY <1>1, <1>2, <1>3 DEF PointerInv, TypeOK
<1>4. CASE Target(p) = "pointer"
  <2>1. job[p].value \in Versions /\ ~Saving(p)
    <3>1. ~Training(p)
      BY <1>1, <1>2, <1>4, TargetCases, Names
    <3> QED
      BY <1>1, <1>2, <1>4, <3>1, TargetCases DEF Saving
  <2>2. files'["pointer"].value = job[p].value /\ \A v \in Versions : files'[v] = files[v]
    BY <1>2, <1>4 DEF TypeOK
  <2>3. job[p].value \notin doubtful => files[job[p].value].whole
    BY <1>1, <2>1 DEF PointerInv
  <2> QED
    BY <1>1, <2>1, <2>2, <2>3 DEF PointerInv
<1>5. CASE Target(p) \in Versions
  <2> DEFINE w == job[p].value
  <2>1. w \in Versions /\ Target(p) = w /\ Saving(p)
    <3>1. ~Training(p)
      BY <1>1, <1>5, TargetCases, Names
    <3> QED
      BY <1>1, <1>2, <1>5, <3>1, TargetCases DEF Saving
  <2>2. /\ files'[w] = [value |-> w, whole |-> FALSE]
        /\ files'["pointer"] = files["pointer"]
        /\ \A v \in Versions \ {w} : files'[v] = files[v]
    BY <1>2, <2>1 DEF TypeOK
  <2>3. ASSUME w \notin doubtful
        PROVE  /\ files["pointer"].value # w
               /\ \A q \in Writers : Active(q) /\ job[q].value = w => q = p
    BY <1>1, <2>1, <2>3 DEF PointerInv
  <2> HIDE DEF w
  <2>4. ASSUME NEW v \in Versions \ doubtful, NEW q \in Writers, Active(q), job[q].value = v
        PROVE  IF Saving(q)
                  THEN /\ ~files'[v].whole
                       /\ \A r \in Writers : Active(r) /\ job[r].value = v => r = q
                  ELSE files'[v].whole
    <3>1. CASE v = w
      <4>1. q = p
        BY <2>3, <2>4, <3>1
      <4> QED
        BY <2>1, <2>2, <2>3, <2>4, <3>1, <4>1
    <3>2. CASE v # w
      BY <2>2, <2>4, <3>2 DEF PointerInv
    <3> QED
      BY <3>1, <3>2
  <2>5. \A v \in Versions : files'[v].value \in {v, NoValue}
    BY <2>2 DEF PointerInv
  <2>6. \A v \in Versions \ doubtful : files'["pointer"].value = v => files'[v].whole
    BY <2>2, <2>3 DEF PointerInv
  <2> QED
    BY <1>1, <2>2, <2>4, <2>5, <2>6 DEF PointerInv
<1> QED
  BY <1>3, <1>4, <1>5

\* A version's file, or the pointer, is closed: nobody else has the former
\* open, and what has been written to the latter names a whole version.
LEMMA VersionCloses ==
    ASSUME TypeOK, DiskInv, PointerInv, NEW p \in Writers, Close(p)
    PROVE  PointerInv'
<1>1. /\ UNCHANGED doubtful /\ Active(p) /\ opened[p]
      /\ \A q \in Writers \ {p} : /\ job'[q] = job[q] /\ at'[q] = at[q]
                                  /\ Active(q)' = Active(q) /\ Saving(q)' = Saving(q)
  BY WriterSteps DEF Saving
<1>2. PICK c \in Content :
        /\ Target(p) \in File
        /\ files' = [files EXCEPT ![Target(p)] = c]
        /\ c \in Outcomes(p) /\ c.value # NoValue
        /\ c.value \in {job[p].value, files[Target(p)].value}
  BY DiskSteps
<1>3. Versions \subseteq File /\ "pointer" \in File /\ "pointer" \notin Versions
  BY Names
<1>4. Active(p)' => job'[p] = job[p] /\ at'[p] # 1 /\ ~Saving(p)'
  <2>1. at[p] \in Nat /\ at[p] >= 1
    BY <1>1 DEF TypeOK, Active
  <2>2. Active(p)' => job'[p] = job[p] /\ at'[p] = at[p] + 1
    BY WriterSteps
  <2> QED
    BY <2>1, <2>2 DEF Saving
<1>5. CASE Target(p) \notin Versions \cup {"pointer"}
  <2>1. \A f \in Versions \cup {"pointer"} : files'[f] = files[f]
    BY <1>2, <1>3, <1>5 DEF TypeOK
  <2>2. ~Saving(p)
    <3>1. job[p].call = "save" /\ at[p] = 1 => ~Training(p)
      BY DEF Training
    <3> QED
      BY <1>1, <1>5, <3>1, TargetCases DEF Saving
  <2> QED
    BY <1>1, <1>4, <2>1, <2>2 DEF PointerInv
<1>6. CASE Target(p) = "pointer"
  <2>1. job[p].value \in Versions /\ ~Saving(p)
    <3>1. ~Training(p)
      BY <1>1, <1>6, TargetCases, Names
    <3> QED
      BY <1>1, <1>3, <1>6, <3>1, TargetCases DEF Saving
  <2>2. files'["pointer"] = c /\ \A v \in Versions : files'[v] = files[v]
    BY <1>2, <1>3, <1>6 DEF TypeOK
  <2>3. c.value \in Versions /\ (c.value \notin doubtful => files[c.value].whole)
    BY <1>1, <1>2, <1>6, <2>1 DEF PointerInv
  <2> QED
    BY <1>1, <1>4, <2>1, <2>2, <2>3 DEF PointerInv
<1>7. CASE Target(p) \in Versions
  <2> DEFINE w == job[p].value
  <2>1. w \in Versions /\ Target(p) = w /\ Saving(p)
    <3>1. ~Training(p)
      BY <1>1, <1>7, TargetCases, Names
    <3> QED
      BY <1>1, <1>3, <1>7, <3>1, TargetCases DEF Saving
  <2>2. files[w].value = w
    <3>1. files[w].value # NoValue
      BY <1>1, <2>1 DEF DiskInv, Exists
    <3> QED
      BY <2>1, <3>1 DEF PointerInv
  <2>3. /\ files'[w] = c /\ c.value = w
        /\ files'["pointer"] = files["pointer"]
        /\ \A v \in Versions \ {w} : files'[v] = files[v]
    BY <1>2, <1>3, <2>1, <2>2 DEF TypeOK
  <2>4. ASSUME w \notin doubtful
        PROVE  /\ files'[w].whole
               /\ \A q \in Writers : Active(q) /\ job[q].value = w => q = p
    <3>1. \A q \in Writers : Active(q) /\ job[q].value = w => q = p
      BY <1>1, <2>1, <2>4 DEF PointerInv
    <3>2. \A q \in Writers \ {p} : Active(q) => Target(q) # w
      <4> SUFFICES ASSUME NEW q \in Writers \ {p}, Active(q), Target(q) = w PROVE FALSE
        OBVIOUS
      <4>1. ~Training(q)
        BY <2>1, VersionTarget, TargetCases, Names
      <4>2. job[q].value = w
        BY <1>3, <2>1, <4>1, TargetCases
      <4> QED
        BY <3>1, <4>2
    <3>3. Outcomes(p) = {[value |-> w, whole |-> TRUE]}
      BY <2>1, <2>2, <3>2 DEF Outcomes
    <3> QED
      BY <1>2, <2>3, <3>1, <3>3
  <2> HIDE DEF w
  <2>5. ASSUME NEW v \in Versions \ doubtful, NEW q \in Writers, Active(q)', job'[q].value = v
        PROVE  IF Saving(q)'
                  THEN /\ ~files'[v].whole
                       /\ \A r \in Writers : Active(r)' /\ job'[r].value = v => r = q
                  ELSE files'[v].whole
    <3>1. CASE v = w
      <4>1. q = p
        <5>1. q # p => Active(q) /\ job[q].value = w
          BY <1>1, <2>5, <3>1
        <5> QED
          BY <2>4, <2>5, <3>1, <5>1
      <4> QED
        BY <1>4, <2>4, <2>5, <3>1, <4>1
    <3>2. CASE v # w
      <4>1. q # p
        BY <1>4, <2>5, <3>2 DEF w
      <4>2. Active(q) /\ job[q].value = v /\ files'[v] = files[v]
        BY <1>1, <2>3, <2>5, <3>2, <4>1
      <4>3. \A r \in Writers : Active(r)' /\ job'[r].value = v => Active(r) /\ job[r].value = v
        BY <1>1, <1>4
      <4> QED
        BY <1>1, <2>5, <4>1, <4>2, <4>3 DEF PointerInv
    <3> QED
      BY <3>1, <3>2
  <2>6. \A v \in Versions : files'[v].value \in {v, NoValue}
    BY <2>3 DEF PointerInv
  <2>7. \A v \in Versions \ doubtful : files'["pointer"].value = v => files'[v].whole
    BY <2>3, <2>4 DEF PointerInv
  <2> QED
    BY <1>1, <2>3, <2>5, <2>6, <2>7 DEF PointerInv
<1> QED
  BY <1>5, <1>6, <1>7

LEMMA PointerStep ==
    ASSUME TypeOK, DiskInv, PointerInv, [Next]_vars
    PROVE  PointerInv'
<1> USE DEF disk, writing, reading, bounds, history
<1>1. ASSUME NEW p \in Writers, Train(p) PROVE PointerInv'
  <2>1. /\ ~Active(p) /\ files' = files /\ job'[p].value \in Trainings /\ Training(p)'
        /\ \A q \in Writers \ {p} : /\ job'[q] = job[q] /\ at'[q] = at[q]
                                    /\ Active(q)' = Active(q)
    <3>1. trainings' \in Trainings
      BY <1>1, Names DEF Train, TypeOK, Trainings
    <3> QED
      BY <1>1, <3>1, BeginSteps
  <2>2. doubtful' = doubtful /\ job'[p].value \notin Versions
    BY <1>1, <2>1, Names DEF Train
  <2>3. \A q \in Writers \ {p} : Saving(q)' = Saving(q)
    BY <2>1 DEF Saving
  <2> QED
    BY <2>1, <2>2, <2>3 DEF PointerInv
<1>2. ASSUME NEW p \in Writers, NEW w \in Versions, SaveVersioned(p, w) \/ Rollback(p, w)
      PROVE  PointerInv'
  BY <1>2, VersionBegins
<1>3. ASSUME UNCHANGED <<files, job, at, doubtful>> PROVE PointerInv'
  BY <1>3 DEF PointerInv, Saving, Active
<1>4. ASSUME NEW p \in Writers, Crash(p) PROVE PointerInv'
  <2>1. /\ ~Active(p)' /\ files' = files /\ doubtful' = doubtful
        /\ \A q \in Writers \ {p} : /\ job'[q] = job[q] /\ at'[q] = at[q]
                                    /\ Active(q)' = Active(q)
    BY <1>4, WriterSteps
  <2>2. \A q \in Writers \ {p} : Saving(q)' = Saving(q)
    BY <2>1 DEF Saving
  <2> QED
    BY <2>1, <2>2 DEF PointerInv
<1>5. ASSUME NEW p \in Writers, Open(p) \/ Close(p) PROVE PointerInv'
  BY <1>5, VersionOpens, VersionCloses
<1> QED
  BY <1>1, <1>2, <1>3, <1>4, <1>5, StepCases
     DEF Remember, BeginLoad, LoadModel, SkipAbsent, LoadRaises, EndLoad, vars

-----------------------------------------------------------------------------
\* The inductive invariant of the directory.
IInv == TypeOK /\ DiskInv /\ TrainInv /\ PointerInv

LEMMA Invariance == Spec => []IInv
<1>1. Init => IInv
  <2> SUFFICES ASSUME Init PROVE IInv
    OBVIOUS
  <2>1. TypeOK
    <3>1. Absent \in Content /\ NoJob \in Job
      BY DEF Absent, Content, Job
    <3>2. 0 \in 0..MaxTrainings /\ 0 \in 0..MaxCalls /\ 0 \in 0..MaxCrashes
          /\ 0 \in 0..(Len(Ensemble) + 1)
      BY Names
    <3> QED
      BY <3>1, <3>2 DEF Init, TypeOK, Active
  <2>2. DiskInv
    BY DEF Init, DiskInv, Absent, Exists
  <2>3. TrainInv
    BY Names DEF Init, TrainInv, WriterInv, ValueInv, LoadInv, Absent, Exists, Training, Active, TrainFile
  <2>4. PointerInv
    <3>1. \A f \in File : files[f].value = NoValue
      BY DEF Init, Absent
    <3>2. \A v \in Versions : v # NoValue
      BY Names DEF Value
    <3> QED
      BY <3>1, <3>2, Names DEF Init, PointerInv, Active
  <2> QED
    BY <2>1, <2>2, <2>3, <2>4 DEF IInv
<1>2. IInv /\ [Next]_vars => IInv'
  BY TypeStep, DiskStep, TrainStep, PointerStep DEF IInv
<1> QED
  BY <1>1, <1>2, PTL DEF Spec

\* Files, writers and loaders have their types, for any ensemble and versions.
THEOREM FilesTypeCorrect == Spec => []TypeOK
<1>1. IInv => TypeOK
  BY DEF IInv
<1> QED
  BY <1>1, Invariance, PTL

\* However many models: what load_models combines after trainings that ran one
\* at a time is the last one's, if no training ran during the load.
THEOREM TogetherCorrect == Spec => []LoadedTogether
<1>1. IInv => LoadedTogether
  <2> SUFFICES ASSUME IInv, ~overlapped, trainings \in finished, NEW l \in quiet, loading[l] = 0
               PROVE  models[l] = {<<m, trainings>> : m \in ModelNames}
    BY DEF LoadedTogether
  <2>1. models[l] = Loaded(Len(Ensemble))
    BY DEF IInv, TrainInv, LoadInv
  <2>2. ModelNames = {Ensemble[i] : i \in 1..Len(Ensemble)}
    BY Names DEF ModelNames
  <2> QED
    BY <2>1, <2>2 DEF Loaded
<1> QED
  BY <1>1, Invariance, PTL

\* However many models and trainings, and wherever one is killed: readable
\* metadata describe no older model or reference than they are themselves.
THEOREM MetadataCorrect == Spec => []MetadataIsLast
<1>1. IInv => MetadataIsLast
  <2>1. IInv /\ files["metadata"].whole => Exists("metadata")
    BY Names DEF IInv, DiskInv
  <2> QED
    BY <2>1 DEF IInv, TrainInv, ValueInv, MetadataIsLast
<1> QED
  BY <1>1, Invariance, PTL

\* Any versions, any writers, any crash: the version the pointer names loads,
\* unless it was stored twice or was partial when it was rolled back to.
THEOREM LatestCorrect == Spec => []LatestLoads
<1>1. IInv => LatestLoads
  <2> SUFFICES ASSUME IInv, files["pointer"].whole, files["pointer"].value \notin doubtful
               PROVE  LoadLatest = files["pointer"].value
    BY DEF LatestLoads
  <2>1. Exists("pointer") /\ files["pointer"].value \in Versions
    BY Names DEF IInv, DiskInv, PointerInv, Exists
  <2>2. files[files["pointer"].value].whole
    BY <2>1 DEF IInv, PointerInv
  <2> QED
    BY <2>1, <2>2 DEF LoadLatest
<1> QED
  BY <1>1, Invariance, PTL
=============================================================================
