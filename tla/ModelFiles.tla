------------------------------ MODULE ModelFiles ------------------------------
(***************************************************************************)
(* ModelFiles: the files of model_dir.  `cli.py train` writes the reference *)
(* data set, the models of the ensemble and the metadata, one after        *)
(* another; API, pipeline, stream worker and backtest read the models with *)
(* load_models; model_registry.py keeps files per version and a pointer to *)
(* the latest one.                                                         *)
(*                                                                         *)
(* Nothing locks the directory and no file is replaced at once: open()     *)
(* truncates it, what is written arrives, it is closed.  A file is         *)
(* abstracted to who wrote it last and whether it is whole.                *)
(***************************************************************************)
EXTENDS Integers, Sequences, FiniteSets

CONSTANTS
    Writers,        \* processes that train, save a version or roll back
    Loaders,        \* processes that call load_models
    Ensemble,       \* names of _MODEL_FILENAMES, in the order of `results`
    Versions,       \* version hashes of one model name of the registry
    NoValue,        \* content of a file that does not exist
    MaxTrainings,   \* bound: runs of `train`
    MaxCalls,       \* bound: runs of `train` and calls of the registry that write
    MaxCrashes      \* bound: writers that die

ModelNames == {Ensemble[i] : i \in DOMAIN Ensemble}
Trainings == 1..MaxTrainings
File == {"reference", "metadata", "pointer"} \cup ModelNames \cup Versions

ASSUME ModelFilesAssumption ==
    /\ Ensemble \in Seq(ModelNames)
    /\ \A i, j \in DOMAIN Ensemble : Ensemble[i] = Ensemble[j] => i = j
    /\ {"reference", "metadata", "pointer"} \cap (ModelNames \cup Versions) = {}
    /\ ModelNames \cap Versions = {}
    /\ Versions \cap Nat = {}
    /\ NoValue \notin Trainings \cup Versions
    /\ MaxTrainings \in Nat
    /\ MaxCalls \in Nat
    /\ MaxCrashes \in Nat

VARIABLES
    files,       \* what each file holds
    job,         \* what each writer does: the call and what it writes
    at,          \* the file of its plan it is at, 0 when it does nothing
    opened,      \* it has that file open
    current,     \* get_current_version, as each writer last read it
    loading,     \* the model each loader reads next, 0 outside load_models
    models,      \* what load_models has collected, then what the loader uses
    trainings,   \* runs of train begun
    calls,       \* calls that write begun
    crashes,     \* writers that died
    overlapped,  \* history: two trainings ran at once
    finished,    \* history: trainings that went through
    quiet,       \* history: loaders no training has disturbed since they began
    doubtful     \* history: versions written twice or rolled back to when partial

disk == <<files>>
writing == <<job, at, opened, current>>
reading == <<loading, models>>
bounds == <<trainings, calls, crashes>>
history == <<overlapped, finished, quiet, doubtful>>
vars == <<disk, writing, reading, bounds, history>>

Value == Trainings \cup Versions
Content == [value : Value \cup {NoValue}, whole : BOOLEAN]
Absent == [value |-> NoValue, whole |-> FALSE]
Exists(f) == files[f].value # NoValue

NoJob == [call |-> "none", value |-> NoValue]
Job == [call : {"train"}, value : Trainings]
       \cup [call : {"save", "rollback"}, value : Versions]
       \cup {NoJob}

\* Mutation: the metadata is written before the models.
MetadataFirst(j) == CASE j.call = "train" -> <<"reference", "metadata">> \o Ensemble
                      [] j.call = "save" -> <<j.value, "pointer">>
                      [] OTHER -> <<"pointer">>
\* Mutation: the pointer is moved before the model is stored.
PointerFirst(j) == CASE j.call = "train" -> <<"reference">> \o Ensemble \o <<"metadata">>
                     [] j.call = "save" -> <<"pointer", j.value>>
                     [] OTHER -> <<"pointer">>
\* Mutation: the loop over the results leaves out the last one.
LastModelLost(j) ==
    CASE j.call = "train" -> <<"reference">> \o SubSeq(Ensemble, 1, Len(Ensemble) - 1) \o <<"metadata">>
      [] j.call = "save" -> <<j.value, "pointer">>
      [] OTHER -> <<"pointer">>
\* The files a call writes, in order: train saves the reference before it
\* trains, save_models the models and then the metadata; save_versioned_model
\* the model and then the pointer.
Plan(j) ==
    CASE j.call = "train" -> <<"reference">> \o Ensemble \o <<"metadata">>
      [] j.call = "save" -> <<j.value, "pointer">>
      [] OTHER -> <<"pointer">>

Active(p) == at[p] # 0
Training(p) == Active(p) /\ job[p].call = "train"
Target(p) == Plan(job[p])[at[p]]

Init ==
    /\ files = [f \in File |-> Absent]
    /\ job = [p \in Writers |-> NoJob]
    /\ at = [p \in Writers |-> 0]
    /\ opened = [p \in Writers |-> FALSE]
    /\ current = [p \in Writers |-> NoValue]
    /\ loading = [l \in Loaders |-> 0]
    /\ models = [l \in Loaders |-> {}]
    /\ trainings = 0 /\ calls = 0 /\ crashes = 0
    /\ overlapped = FALSE
    /\ finished = {}
    /\ quiet = {}
    /\ doubtful = {}

-----------------------------------------------------------------------------
Begin(p, j) ==
    /\ ~Active(p)
    /\ calls < MaxCalls
    /\ calls' = calls + 1
    /\ job' = [job EXCEPT ![p] = j]
    /\ at' = [at EXCEPT ![p] = 1]
    /\ UNCHANGED <<disk, opened, current, reading, crashes, finished>>

\* `cli.py train`.  (`retrain-check` would write the same files, but its import
\* of two functions storage.py does not have raises first.)
Train(p) ==
    /\ trainings < MaxTrainings
    /\ trainings' = trainings + 1
    /\ Begin(p, [call |-> "train", value |-> trainings'])
    /\ overlapped' = (overlapped \/ \E q \in Writers : Training(q))
    /\ quiet' = {}
    /\ UNCHANGED doubtful

\* save_versioned_model.  A hash is the same for two trainings of one minute.
SaveVersioned(p, v) ==
    /\ Begin(p, [call |-> "save", value |-> v])
    /\ doubtful' = IF Exists(v) \/ \E q \in Writers : Active(q) /\ job[q].value = v
                      THEN doubtful \cup {v} ELSE doubtful
    /\ UNCHANGED <<trainings, overlapped, quiet>>

\* get_current_version: None without a pointer, "" while it is truncated.
Remember(p) ==
    /\ ~Active(p)
    /\ current' = [current EXCEPT ![p] = IF files["pointer"].whole THEN files["pointer"].value
                                                                  ELSE NoValue]
    /\ UNCHANGED <<disk, job, at, opened, reading, bounds, history>>

\* list_model_versions: every file of a version, whole or not.
Listed == {v \in Versions : Exists(v)}

\* rollback_model to a version that was the current one or that is listed.
Rollback(p, v) ==
    /\ v \in Listed \cup {current[p]}
    /\ Begin(p, [call |-> "rollback", value |-> v])
    /\ doubtful' = IF files[v].whole THEN doubtful ELSE doubtful \cup {v}
    /\ UNCHANGED <<trainings, overlapped, quiet>>

\* open(path, "w") truncates the file.
Open(p) ==
    /\ Active(p)
    /\ ~opened[p]
    /\ files' = [files EXCEPT ![Target(p)] = [value |-> job[p].value, whole |-> FALSE]]
    /\ opened' = [opened EXCEPT ![p] = TRUE]
    /\ UNCHANGED <<job, at, current, reading, bounds, history>>

\* What a file holds when p closes it: its own data, unless another writer has
\* opened it since or has it open.
Outcomes(p) ==
    LET f == Target(p)
        shared == \E q \in Writers \ {p} : Active(q) /\ opened[q] /\ Target(q) = f
    IN  IF files[f].value = job[p].value /\ ~shared
           THEN {[value |-> job[p].value, whole |-> TRUE]}
           ELSE [value : {job[p].value, files[f].value}, whole : BOOLEAN]

\* The data are written and the file closed; the call goes on to the next file
\* or is through.
Close(p) ==
    /\ Active(p)
    /\ opened[p]
    /\ \E c \in Outcomes(p) : files' = [files EXCEPT ![Target(p)] = c]
    /\ opened' = [opened EXCEPT ![p] = FALSE]
    /\ IF at[p] < Len(Plan(job[p]))
          THEN at' = [at EXCEPT ![p] = @ + 1] /\ UNCHANGED <<job, finished>>
          ELSE /\ at' = [at EXCEPT ![p] = 0]
               /\ job' = [job EXCEPT ![p] = NoJob]
               /\ finished' = IF job[p].call = "train" THEN finished \cup {job[p].value}
                                                       ELSE finished
    /\ UNCHANGED <<current, reading, bounds, overlapped, quiet, doubtful>>

\* The process is killed, or train_ensemble raises.
Crash(p) ==
    /\ Active(p)
    /\ crashes < MaxCrashes
    /\ crashes' = crashes + 1
    /\ at' = [at EXCEPT ![p] = 0]
    /\ job' = [job EXCEPT ![p] = NoJob]
    /\ opened' = [opened EXCEPT ![p] = FALSE]
    /\ UNCHANGED <<disk, current, reading, trainings, calls, history>>

-----------------------------------------------------------------------------
\* The API at startup, a pipeline run, a stream worker, a backtest.
BeginLoad(l) ==
    /\ loading[l] = 0
    /\ loading' = [loading EXCEPT ![l] = 1]
    /\ models' = [models EXCEPT ![l] = {}]
    /\ quiet' = IF \E p \in Writers : Training(p) THEN quiet \ {l}
                                               ELSE quiet \cup {l}
    /\ UNCHANGED <<disk, writing, bounds, overlapped, finished, doubtful>>

Wanted(l) == Ensemble[loading[l]]
Reads(l) == loading[l] \in DOMAIN Ensemble
NextFile(l) == loading' = [loading EXCEPT ![l] = @ + 1]

LoadModel(l) ==
    /\ Reads(l)
    /\ files[Wanted(l)].whole
    /\ models' = [models EXCEPT ![l] = @ \cup {<<Wanted(l), files[Wanted(l)].value>>}]
    /\ NextFile(l)
    /\ UNCHANGED <<disk, writing, bounds, history>>

\* if os.path.exists(path): a model without a file is left out.
SkipAbsent(l) ==
    /\ Reads(l)
    /\ ~Exists(Wanted(l))
    /\ NextFile(l)
    /\ UNCHANGED <<disk, writing, models, bounds, history>>

\* joblib.load of a truncated file raises; nobody catches that.
LoadRaises(l) ==
    /\ Reads(l)
    /\ Exists(Wanted(l)) /\ ~files[Wanted(l)].whole
    /\ loading' = [loading EXCEPT ![l] = 0]
    /\ models' = [models EXCEPT ![l] = {}]
    /\ UNCHANGED <<disk, writing, bounds, history>>

\* load_models returns, or raises FileNotFoundError when it has found nothing.
EndLoad(l) ==
    /\ loading[l] = Len(Ensemble) + 1
    /\ loading' = [loading EXCEPT ![l] = 0]
    /\ UNCHANGED <<disk, writing, models, bounds, history>>

\* load_latest_model: the version the pointer names, or "raises".
LoadLatest ==
    IF Exists("pointer") /\ files["pointer"].whole /\ files[files["pointer"].value].whole
       THEN files["pointer"].value ELSE NoValue

Write(p) ==
    \/ Train(p) \/ Remember(p) \/ Open(p) \/ Close(p) \/ Crash(p)
    \/ \E v \in Versions : SaveVersioned(p, v) \/ Rollback(p, v)
Load(l) == BeginLoad(l) \/ LoadModel(l) \/ SkipAbsent(l) \/ LoadRaises(l) \/ EndLoad(l)

Next == (\E p \in Writers : Write(p)) \/ (\E l \in Loaders : Load(l))

Spec == Init /\ [][Next]_vars

-----------------------------------------------------------------------------
\* The type invariant of the directory, its writers and its loaders.
TypeOK ==
    /\ files \in [File -> Content]
    /\ job \in [Writers -> Job]
    /\ at \in [Writers -> Nat]
    /\ \A p \in Writers : Active(p) => at[p] \in DOMAIN Plan(job[p]) /\ job[p] # NoJob
    /\ opened \in [Writers -> BOOLEAN]
    /\ current \in [Writers -> Value \cup {NoValue}]
    /\ loading \in [Loaders -> 0..(Len(Ensemble) + 1)]
    /\ models \in [Loaders -> SUBSET (ModelNames \X Value)]
    /\ trainings \in 0..MaxTrainings
    /\ calls \in 0..MaxCalls
    /\ crashes \in 0..MaxCrashes
    /\ overlapped \in BOOLEAN
    /\ finished \subseteq Trainings
    /\ quiet \subseteq Loaders
    /\ doubtful \subseteq Versions

\* load_models combines models of one training, all of them, when no training
\* ran during the load and the last one went through and ran alone: the files
\* are separate, but nothing of an earlier or interrupted training shows.
LoadedTogether ==
    ~overlapped /\ trainings \in finished =>
        \A l \in quiet :
            loading[l] = 0 => models[l] = {<<m, trainings>> : m \in ModelNames}

\* A training_metadata.json that can be read never describes models or a
\* reference older than itself, also after a crash anywhere in train: drift
\* detection may take the reference for at least as new as the metadata.
MetadataIsLast ==
    ~overlapped /\ files["metadata"].whole =>
        \A f \in ModelNames \cup {"reference"} :
            files[f].value \in Trainings /\ files[f].value >= files["metadata"].value

\* The version the pointer names can be loaded, whatever was saved, rolled back
\* or interrupted at once, unless the file of that version was written again
\* (two saves of one minute share a hash) or somebody rolled back to a partial
\* one.
LatestLoads ==
    files["pointer"].whole /\ files["pointer"].value \notin doubtful =>
        LoadLatest = files["pointer"].value
=============================================================================
