--------------------------- MODULE CheckpointStore ---------------------------
(***************************************************************************)
(* Saving, rotating and resuming training checkpoints: the trainer's       *)
(* _save_checkpoint and _load_checkpoint, the FSDP checkpoint manager that *)
(* each rank of the actor and of the critic runs, and the tracker file     *)
(* latest_checkpointed_iteration.txt.  The job may be killed between any   *)
(* two file operations; the disk survives, previous_saved_paths does not.  *)
(* A write that a crash interrupts leaves a torn file.  File system errors *)
(* other than a crash, HDFS copies and async_save are not modelled.        *)
(***************************************************************************)
EXTENDS Integers, Sequences, FiniteSets

CONSTANTS
    WorldSize,            \* ranks of each worker group
    UseCritic,            \* whether a critic is trained and saved
    MaxActorCkptToKeep,   \* max_actor_ckpt_to_keep, 0 for None
    MaxCriticCkptToKeep,  \* max_critic_ckpt_to_keep, 0 for None
    ResumeModes,          \* resume_mode values a (re)start may use
    MaxSteps,             \* total_training_steps
    MaxRuns               \* bound: how often the job is started

ASSUME ConstantsAssumption ==
    /\ WorldSize \in Nat \ {0}
    /\ UseCritic \in BOOLEAN
    /\ MaxActorCkptToKeep \in Nat /\ MaxCriticCkptToKeep \in Nat
    /\ ResumeModes \subseteq {"auto", "disable", "resume_path"}
    /\ MaxSteps \in Nat /\ MaxRuns \in Nat \ {0}

Ranks == 0..(WorldSize - 1)
Roles == IF UseCritic THEN {"actor", "critic"} ELSE {"actor"}
Keep == [role \in Roles |-> IF role = "actor" THEN MaxActorCkptToKeep ELSE MaxCriticCkptToKeep]

(* The files of one global_step_N folder: a shard per role and rank, data.pt *)
Data == <<"data", 0>>
Pieces == (Roles \X Ranks) \cup {Data}
Steps == 1..MaxSteps

(* What a file holds: nothing, a torn write, or a whole write of one run.   *)
Absent == 0
Torn == -1
Content == {Absent, Torn} \cup 1..MaxRuns

(* What the tracker file holds: a step, no file at all, or nothing in it.   *)
NoTracker == 0
EmptyTracker == -1

VARIABLES
    disk,     \* [step -> [piece -> content]]
    tracker,  \* latest_checkpointed_iteration.txt
    run,      \* number of the current start of the job
    step,     \* global_steps
    phase,    \* where the trainer is
    role,     \* the worker group that is saving
    todo,     \* its ranks that have not begun to write their shard
    doomed,   \* steps whose folder of this role rank 0 is removing
    saved,    \* previous_saved_paths of each role's rank 0
    strayed   \* history: the runs that resumed from another step than the tracked one

vars == <<disk, tracker, run, step, phase, role, todo, doomed, saved, strayed>>

Phases == {"train", "capacity", "evict", "write", "register", "rotate",
           "data", "track", "commit", "down", "failed"}

Init ==
    /\ disk = [s \in Steps |-> [p \in Pieces |-> Absent]]
    /\ tracker = NoTracker
    /\ run = 1
    /\ step = 0
    /\ phase = "train"
    /\ role = "actor"
    /\ todo = {}
    /\ doomed = {}
    /\ saved = [r \in Roles |-> << >>]
    /\ strayed = {}

Put(s, p, c) == disk' = [disk EXCEPT ![s][p] = c]

-----------------------------------------------------------------------------
(* One training step, and the decision to save after it: on save_freq, on   *)
(* an expiring reservation, always on the last step.                        *)
TrainStep ==
    /\ phase = "train"
    /\ step < MaxSteps
    /\ step' = step + 1
    /\ phase' \in (IF step + 1 = MaxSteps THEN {"capacity"} ELSE {"train", "capacity"})
    /\ role' = "actor"
    /\ UNCHANGED <<disk, tracker, run, todo, doomed, saved, strayed>>

(* The first n paths, and the rest.                                         *)
Oldest(q, n) == {q[i] : i \in 1..n}
Newest(q, n) == SubSeq(q, n + 1, Len(q))

(* How many registered paths ensure_checkpoint_capacity removes.            *)
Mut_CapacityNone(q, keep) == 0
CapacityExcess(q, keep) ==
    IF keep > 1 /\ Len(q) >= keep THEN Len(q) - keep + 1 ELSE 0

(* How many register_checkpoint removes, the new path included in q.        *)
RegisterExcess(q, keep) ==
    IF keep > 0 /\ Len(q) > keep THEN Len(q) - keep ELSE 0

(* Rank 0 picks what to remove; a barrier holds the writers back until the  *)
(* removal is over.                                                         *)
EnsureCapacity ==
    /\ phase = "capacity"
    /\ LET n == CapacityExcess(saved[role], Keep[role])
       IN  /\ doomed' = Oldest(saved[role], n)
           /\ saved' = [saved EXCEPT ![role] = Newest(@, n)]
    /\ phase' = "evict"
    /\ UNCHANGED <<disk, tracker, run, step, role, todo, strayed>>

(* rmtree unlinks one file of a folder it removes.                          *)
Unlink(s, rank) ==
    /\ s \in doomed
    /\ disk[s][<<role, rank>>] # Absent
    /\ Put(s, <<role, rank>>, Absent)
    /\ UNCHANGED <<tracker, run, step, phase, role, todo, doomed, saved, strayed>>

(* rmtree is done with a folder.                                            *)
Removed(s) ==
    /\ s \in doomed
    /\ \A rank \in Ranks : disk[s][<<role, rank>>] = Absent
    /\ doomed' = doomed \ {s}
    /\ UNCHANGED <<disk, tracker, run, step, phase, role, todo, saved, strayed>>

(* The barrier after the removal: every rank starts to save.                *)
StartWriting ==
    /\ phase = "evict"
    /\ doomed = {}
    /\ phase' = "write"
    /\ todo' = Ranks
    /\ UNCHANGED <<disk, tracker, run, step, role, doomed, saved, strayed>>

(* A rank opens its shard, and later has written all of it.                 *)
BeginShard(rank) ==
    /\ phase = "write"
    /\ rank \in todo
    /\ Put(step, <<role, rank>>, Torn)
    /\ todo' = todo \ {rank}
    /\ UNCHANGED <<tracker, run, step, phase, role, doomed, saved, strayed>>
EndShard(rank) ==
    /\ phase = "write"
    /\ rank \notin todo
    /\ disk[step][<<role, rank>>] = Torn
    /\ Put(step, <<role, rank>>, run)
    /\ UNCHANGED <<tracker, run, step, phase, role, todo, doomed, saved, strayed>>

(* The barrier after the shards lets rank 0 go on.                          *)
Mut_NoBarrier == TRUE
ShardsDone == todo = {} /\ \A rank \in Ranks : disk[step][<<role, rank>>] # Torn
AllShardsWritten ==
    /\ phase = "write"
    /\ ShardsDone
    /\ phase' = "register"
    /\ UNCHANGED <<disk, tracker, run, step, role, todo, doomed, saved, strayed>>

RegisterCheckpoint ==
    /\ phase = "register"
    /\ LET q == Append(saved[role], step)
           n == RegisterExcess(q, Keep[role])
       IN  /\ doomed' = Oldest(q, n)
           /\ saved' = [saved EXCEPT ![role] = Newest(q, n)]
    /\ phase' = "rotate"
    /\ UNCHANGED <<disk, tracker, run, step, role, todo, strayed>>

(* The worker group's save returns; the trainer goes on with the critic or  *)
(* with the dataloader.                                                     *)
RoleSaved ==
    /\ phase = "rotate"
    /\ doomed = {}
    /\ IF role = "actor" /\ UseCritic
       THEN role' = "critic" /\ phase' = "capacity"
       ELSE role' = role /\ phase' = "data"
    /\ UNCHANGED <<disk, tracker, run, step, todo, doomed, saved, strayed>>

BeginData ==
    /\ phase = "data"
    /\ disk[step][Data] # Torn
    /\ Put(step, Data, Torn)
    /\ UNCHANGED <<tracker, run, step, phase, role, todo, doomed, saved, strayed>>
EndData ==
    /\ phase = "data"
    /\ disk[step][Data] = Torn
    /\ Put(step, Data, run)
    /\ phase' = "track"
    /\ UNCHANGED <<tracker, run, step, role, todo, doomed, saved, strayed>>

(* open(tracker, "w") truncates; the number is on disk once it is flushed.  *)
OpenTracker ==
    /\ phase = "track"
    /\ tracker' = EmptyTracker
    /\ phase' = "commit"
    /\ UNCHANGED <<disk, run, step, role, todo, doomed, saved, strayed>>
WriteTracker ==
    /\ phase = "commit"
    /\ tracker' = step
    /\ phase' = "train"
    /\ UNCHANGED <<disk, run, step, role, todo, doomed, saved, strayed>>

-----------------------------------------------------------------------------
(* The job is killed; rank 0's previous_saved_paths and the removals in     *)
(* progress are gone.                                                       *)
Crash ==
    /\ phase \notin {"down", "failed"}
    /\ run < MaxRuns
    /\ phase' = "down"
    /\ todo' = {} /\ doomed' = {}
    /\ saved' = [r \in Roles |-> << >>]
    /\ UNCHANGED <<disk, tracker, run, step, role, strayed>>

(* load_checkpoint reads every shard; a missing data.pt is only a warning.  *)
Loadable(s) ==
    /\ \A r \in Roles, rank \in Ranks : disk[s][<<r, rank>>] \notin {Absent, Torn}
    /\ disk[s][Data] # Torn

(* The job starts again: s is the step it resumes from, 0 for scratch.      *)
Mut_StartForgetsStep(s) ==
    /\ run' = run + 1
    /\ strayed' = IF s = tracker THEN strayed ELSE strayed \cup {run'}
    /\ IF s = 0 \/ (s > 0 /\ Loadable(s))
       THEN step' = 0 /\ phase' = "train"
       ELSE step' = step /\ phase' = "failed"
    /\ UNCHANGED <<disk, tracker, role, todo, doomed, saved>>
StartAt(s) ==
    /\ run' = run + 1
    /\ strayed' = IF s = tracker THEN strayed ELSE strayed \cup {run'}
    /\ IF s = 0 \/ (s > 0 /\ Loadable(s))
       THEN step' = s /\ phase' = "train"
       ELSE step' = step /\ phase' = "failed"
    /\ UNCHANGED <<disk, tracker, role, todo, doomed, saved>>

(* Resuming reads the tracker first, in every mode but "disable": an empty  *)
(* file makes int() raise.                                                  *)
Restart ==
    /\ phase = "down"
    /\ \/ "auto" \in ResumeModes /\ StartAt(tracker)
       \/ "disable" \in ResumeModes /\ StartAt(0)
       \/ "resume_path" \in ResumeModes
          /\ IF tracker = EmptyTracker THEN StartAt(tracker)
             ELSE \E s \in Steps : Loadable(s) /\ StartAt(s)

Finished == (phase = "train" /\ step = MaxSteps) \/ phase = "failed"
Idle == Finished /\ UNCHANGED vars

Saving ==
    \/ EnsureCapacity \/ StartWriting \/ AllShardsWritten \/ RegisterCheckpoint
    \/ RoleSaved \/ BeginData \/ EndData \/ OpenTracker \/ WriteTracker
    \/ \E s \in Steps : Removed(s) \/ \E rank \in Ranks : Unlink(s, rank)
    \/ \E rank \in Ranks : BeginShard(rank) \/ EndShard(rank)

Next == TrainStep \/ Saving \/ Crash \/ Restart \/ Idle

Spec == Init /\ [][Next]_vars

-----------------------------------------------------------------------------
TypeOK ==
    /\ disk \in [Steps -> [Pieces -> Content]]
    /\ tracker \in {NoTracker, EmptyTracker} \cup Steps
    /\ run \in 1..MaxRuns
    /\ step \in 0..MaxSteps
    /\ phase \in Phases
    /\ role \in Roles
    /\ todo \subseteq Ranks
    /\ doomed \subseteq Steps
    /\ saved \in [Roles -> Seq(Steps)]
    /\ strayed \subseteq 1..MaxRuns

(* All the files of a step were written, whole, by one run of the job.      *)
Complete(s) == \E k \in 1..MaxRuns : \A p \in Pieces : disk[s][p] = k

TrackedWhole == tracker \in Steps => Complete(tracker)

(* As long as every restart resumed where the tracker said, the folder of   *)
(* the tracked step is complete and not a mixture of two runs: what         *)
(* _load_checkpoint would load is a checkpoint that was saved, wherever a   *)
(* crash strikes.                                                           *)
TrackedIsComplete == strayed = {} => TrackedWhole

(* Likewise the tracker is only ever overwritten with a newer step, in      *)
(* spite of crashes and restarts.                                           *)
TrackerNeverGoesBack ==
    [][(strayed = {} /\ tracker \in Steps /\ tracker' # tracker) => step > tracker]_vars

(* With max_ckpt_to_keep of 2 or more, one run of the job never has more of *)
(* its checkpoints of a role on disk than that, not even during a save:     *)
(* room is made before the first shard is written.                          *)
RetentionWithinRun ==
    \A r \in Roles : Keep[r] > 1 =>
        Cardinality({s \in Steps : \E rank \in Ranks : disk[s][<<r, rank>>] = run})
            <= Keep[r]

(* A restart fails only when the crash came between truncating and writing  *)
(* the tracker, or after a restart from somewhere else.                     *)
RestartFailsOnlyIfTorn ==
    phase = "failed" /\ strayed = {} => tracker = EmptyTracker
=============================================================================
