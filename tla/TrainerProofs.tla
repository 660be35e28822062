---------------------------- MODULE TrainerProofs ----------------------------
(***************************************************************************)
(* The trainer: its checkpoint store, and below it the cycle of training   *)
(* steps whose saves and restarts use that store.                          *)
(*                                                                         *)
(* For every number of ranks, steps and crashes: with max_ckpt_to_keep     *)
(* other than 1, and as long as restarts resume from the tracked step, the *)
(* folder the tracker names is complete, restarts fail only on a torn      *)
(* checkpoint, the tracker only moves on and no more checkpoints stay than *)
(* asked for.  For every number of replicas, steps and restarts and in     *)
(* every configuration, nobody works on GPUs a replica still holds; when   *)
(* the weights are updated after every step, a replica that generates has  *)
(* the actor's weights, and the actor learns from its own rollouts.        *)
(***************************************************************************)
EXTENDS TrainCycle, CheckpointStore, FiniteSetTheorems, FunctionTheorems, SequenceTheorems, TLAPS

(***************************************************************************)
(* The checkpoint store.                                                   *)
(***************************************************************************)
SavePhases == {"capacity", "evict", "write", "register", "rotate", "data", "track", "commit"}

(* The roles whose shards of the current step are written and registered.   *)
Registered(r) ==
    /\ phase \in SavePhases
    /\ \/ phase \in {"data", "track", "commit"}
       \/ phase = "rotate" /\ role = r
       \/ r = "actor" /\ role = "critic"

(* Which step is being saved relative to the tracked one.                   *)
StepInv ==
    /\ phase \in SavePhases => step \in Steps /\ tracker < step
    /\ phase = "train" => tracker <= step
    /\ phase \notin {"commit", "down", "failed"} => tracker >= 0
    /\ phase = "down" => run < MaxRuns
    /\ phase \in {"data", "track", "commit"} /\ UseCritic => role = "critic"

(* Registered paths are in the order they were saved.  Those of a role that *)
(* is not done with the current step are no newer than the tracked one.     *)
SavedInv ==
    \A r \in Roles :
        /\ \A i, j \in 1..Len(saved[r]) : i < j => saved[r][i] < saved[r][j]
        /\ \A i \in 1..Len(saved[r]) : saved[r][i] <= step
        /\ ~Registered(r) => \A i \in 1..Len(saved[r]) : saved[r][i] <= tracker
        /\ phase \in {"down", "failed"} => saved[r] = << >>

(* What is being removed is neither the tracked step nor the current one.   *)
DoomedInv ==
    /\ phase \notin {"evict", "rotate"} => doomed = {}
    /\ \A s \in doomed : s < step /\ s # tracker

(* What the current save has written.                                       *)
FilesInv ==
    /\ \A r \in Roles, rank \in Ranks : Registered(r) => disk[step][<<r, rank>>] = run
    /\ phase = "register" => \A rank \in Ranks : disk[step][<<role, rank>>] = run
    /\ phase = "write" =>
           \A rank \in Ranks \ todo : disk[step][<<role, rank>>] \in {Torn, run}
    /\ phase \in {"track", "commit"} => disk[step][Data] = run

IInv == TypeOK /\ StepInv /\ SavedInv /\ DoomedInv /\ FilesInv /\ TrackedWhole

(* What every step preserves: once a restart strayed nothing is claimed.    *)
Safe == strayed # {} \/ IInv

-----------------------------------------------------------------------------
(* What is left of a sequence without its n oldest elements.                *)
LEMMA NewestFacts ==
    ASSUME NEW q \in Seq(Steps), NEW n \in 0..Len(q)
    PROVE  /\ Newest(q, n) \in Seq(Steps)
           /\ Len(Newest(q, n)) = Len(q) - n
           /\ \A i \in 1..(Len(q) - n) : Newest(q, n)[i] = q[n + i]
BY DEF Newest

LEMMA OldestFacts ==
    ASSUME NEW q \in Seq(Steps), NEW n \in 0..Len(q)
    PROVE  /\ Oldest(q, n) \subseteq Steps
           /\ \A s \in Oldest(q, n) : \E i \in 1..n : s = q[i]
BY DEF Oldest

(* A folder keeps its files when another folder changes.                    *)
LEMMA CompleteElsewhere ==
    ASSUME TypeOK, TypeOK', TrackedWhole, UNCHANGED tracker,
           \A s \in Steps : s = tracker => disk'[s] = disk[s]
    PROVE  TrackedWhole'
BY DEF TrackedWhole, Complete

(* The configurations the result is about.                                  *)
SafeConfig == \A r \in Roles : Keep[r] # 1

(* A write of one file keeps the type of the disk and changes one cell.     *)
LEMMA PutFacts ==
    ASSUME TypeOK, NEW s \in Steps, NEW p \in Pieces, NEW c \in Content, Put(s, p, c)
    PROVE  /\ disk' \in [Steps -> [Pieces -> Content]]
           /\ disk'[s][p] = c
           /\ \A q \in Pieces : q # p => disk'[s][q] = disk[s][q]
           /\ \A t \in Steps : t # s => disk'[t] = disk[t]
BY DEF TypeOK, Put

LEMMA InitInv == Init => IInv
<1> SUFFICES ASSUME Init PROVE IInv
    OBVIOUS
<1> USE ConstantsAssumption
<1>1. TypeOK
    BY DEF Init, TypeOK, Steps, Content, Absent, NoTracker, Phases, Roles
<1>2. StepInv /\ DoomedInv
    BY DEF Init, StepInv, DoomedInv, SavePhases, NoTracker
<1>3. SavedInv /\ FilesInv
    BY DEF Init, SavedInv, FilesInv, Registered, SavePhases
<1>4. TrackedWhole
    BY DEF Init, TrackedWhole, NoTracker, Steps
<1> QED
    BY <1>1, <1>2, <1>3, <1>4 DEF IInv

LEMMA TrainStepInv ==
    ASSUME IInv, TrainStep PROVE IInv'
<1> USE DEF IInv
<1> USE ConstantsAssumption
<1>1. TypeOK'
    BY DEF TrainStep, TypeOK, Phases, Roles
<1>2. StepInv'
    BY DEF TrainStep, TypeOK, StepInv, SavePhases, Steps, NoTracker, EmptyTracker
<1>3. SavedInv'
  <2>1. \A r \in Roles : ~Registered(r)
      BY DEF TrainStep, Registered, SavePhases
  <2> QED
      BY <2>1 DEF TrainStep, TypeOK, SavedInv, Steps
<1>4. DoomedInv'
    BY DEF TrainStep, DoomedInv
<1>5. FilesInv'
    BY DEF TrainStep, FilesInv, Registered, SavePhases
<1>6. TrackedWhole'
    BY DEF TrainStep, TrackedWhole, Complete
<1> QED
    BY <1>1, <1>2, <1>3, <1>4, <1>5, <1>6

(* Making room removes only paths older than the tracked step.              *)
LEMMA EnsureCapacityInv ==
    ASSUME SafeConfig, IInv, EnsureCapacity PROVE IInv'
<1> USE DEF IInv
<1> USE ConstantsAssumption
<1> DEFINE q == saved[role]
           n == CapacityExcess(q, Keep[role])
<1>1. role \in Roles /\ q \in Seq(Steps) /\ Keep[role] \in Nat /\ Len(q) \in Nat
    BY DEF TypeOK, Keep
<1>2. n \in 0..Len(q) /\ (n > 0 => n < Len(q))
    BY <1>1 DEF CapacityExcess
<1>3. /\ doomed' = Oldest(q, n) /\ saved' = [saved EXCEPT ![role] = Newest(q, n)]
      /\ phase = "capacity" /\ phase' = "evict"
      /\ UNCHANGED <<disk, tracker, run, step, role, todo, strayed>>
    BY DEF EnsureCapacity
<1> HIDE DEF n
<1>4. TypeOK'
    BY <1>1, <1>2, <1>3, NewestFacts, OldestFacts DEF TypeOK, Phases
<1>5. StepInv'
    BY <1>3 DEF StepInv, SavePhases
<1>6. ~Registered(role) /\ \A r \in Roles : Registered(r)' <=> Registered(r)
    BY <1>1, <1>3 DEF Registered, SavePhases, Roles
<1>7. SavedInv'
  <2> SUFFICES ASSUME NEW r \in Roles
               PROVE  /\ \A i, j \in 1..Len(saved'[r]) : i < j => saved'[r][i] < saved'[r][j]
                      /\ \A i \in 1..Len(saved'[r]) : saved'[r][i] <= step
                      /\ ~Registered(r) => \A i \in 1..Len(saved'[r]) : saved'[r][i] <= tracker
      BY <1>3, <1>6 DEF SavedInv
  <2>1. CASE r # role
      BY <2>1, <1>3 DEF SavedInv, TypeOK
  <2>2. CASE r = role
    <3>1. saved'[r] = Newest(q, n)
        BY <2>2, <1>1, <1>3 DEF TypeOK
    <3>2. /\ Len(saved'[r]) = Len(q) - n
          /\ \A i \in 1..(Len(q) - n) : saved'[r][i] = q[n + i]
        BY <3>1, <1>1, <1>2, NewestFacts
    <3>3. \A i \in 1..(Len(q) - n) : n + i \in 1..Len(q)
        BY <1>1, <1>2
    <3>4. /\ \A i, j \in 1..Len(q) : i < j => q[i] < q[j]
          /\ \A i \in 1..Len(q) : q[i] <= step
          /\ ~Registered(r) => \A i \in 1..Len(q) : q[i] <= tracker
        BY <1>1, <2>2 DEF SavedInv
    <3>5. \A i, j \in 1..(Len(q) - n) : i < j => n + i < n + j
        BY <1>1, <1>2
    <3> QED
        BY <3>2, <3>3, <3>4, <3>5
  <2> QED
      BY <2>1, <2>2
<1>8. DoomedInv'
  <2> SUFFICES ASSUME NEW s \in Oldest(q, n) PROVE s < step /\ s # tracker
      BY <1>3 DEF DoomedInv
  <2>1. PICK i \in 1..n : s = q[i]
      BY <1>1, <1>2, OldestFacts
  <2>2. i \in 1..Len(q) /\ Len(q) \in 1..Len(q) /\ i < Len(q)
      BY <1>1, <1>2, <2>1
  <2>3. q[i] < q[Len(q)] /\ q[Len(q)] <= tracker
      BY <1>1, <1>6, <2>2 DEF SavedInv
  <2>4. q[i] \in Int /\ q[Len(q)] \in Int /\ tracker \in Int /\ step \in Int /\ tracker < step
      BY <1>1, <1>3, <2>2 DEF TypeOK, Steps, StepInv, SavePhases, NoTracker, EmptyTracker
  <2> QED
      BY <2>1, <2>3, <2>4
<1>9. FilesInv'
    BY <1>3, <1>6 DEF FilesInv
<1>10. TrackedWhole'
    BY <1>3 DEF TrackedWhole, Complete
<1> QED
    BY <1>4, <1>5, <1>7, <1>8, <1>9, <1>10

(* A removal touches only folders that are neither tracked nor being saved. *)
LEMMA UnlinkInv ==
    ASSUME IInv, NEW s \in Steps, NEW rank \in Ranks, Unlink(s, rank)
    PROVE  IInv'
<1> USE DEF IInv
<1> USE ConstantsAssumption
<1> DEFINE p == <<role, rank>>
<1>1. p \in Pieces /\ Absent \in Content /\ s < step /\ s # tracker
    BY DEF TypeOK, Pieces, Content, Unlink, DoomedInv
<1>2. /\ disk' \in [Steps -> [Pieces -> Content]]
      /\ \A t \in Steps : t # s => disk'[t] = disk[t]
    BY <1>1, PutFacts DEF Unlink
<1>3. UNCHANGED <<tracker, run, step, phase, role, todo, doomed, saved, strayed>>
    BY DEF Unlink
<1>4. TypeOK'
    BY <1>2, <1>3 DEF TypeOK
<1>5. StepInv' /\ SavedInv' /\ DoomedInv'
    BY <1>3 DEF StepInv, SavedInv, DoomedInv, Registered
<1>6. FilesInv'
  <2>1. s # step
      BY <1>1 DEF TypeOK, Steps
  <2>2. phase \in SavePhases => disk'[step] = disk[step]
      BY <1>2, <2>1 DEF StepInv
  <2> QED
      BY <1>3, <2>2 DEF FilesInv, Registered, SavePhases
<1>7. TrackedWhole'
    BY <1>1, <1>2, <1>3, <1>4, CompleteElsewhere
<1> QED
    BY <1>4, <1>5, <1>6, <1>7

(* The steps that neither write a file nor register a path.                 *)
LEMMA BarriersInv ==
    ASSUME IInv, (\E s \in Steps : Removed(s)) \/ StartWriting \/ AllShardsWritten \/ RoleSaved
    PROVE  IInv'
<1> USE DEF IInv
<1> USE ConstantsAssumption
<1>1. UNCHANGED <<disk, tracker, run, step, saved, strayed>>
    BY DEF Removed, StartWriting, AllShardsWritten, RoleSaved
<1>2. TrackedWhole'
    BY <1>1 DEF TrackedWhole, Complete
<1>3. CASE \E s \in Steps : Removed(s)
  <2>1. UNCHANGED <<disk, tracker, run, step, phase, role, todo, saved, strayed>> /\ doomed' \subseteq doomed
      BY <1>3 DEF Removed
  <2>2. TypeOK' /\ StepInv' /\ SavedInv' /\ DoomedInv' /\ FilesInv'
      BY <2>1 DEF TypeOK, StepInv, SavedInv, DoomedInv, FilesInv, Registered
  <2> QED
      BY <1>2, <2>2
<1>4. CASE StartWriting
  <2>1. \A r \in Roles : Registered(r)' <=> Registered(r)
      BY <1>4 DEF StartWriting, Registered, SavePhases
  <2>2. TypeOK' /\ StepInv'
      BY <1>4 DEF StartWriting, TypeOK, StepInv, Phases, SavePhases
  <2>3. SavedInv' /\ DoomedInv' /\ FilesInv'
      BY <1>4, <2>1 DEF StartWriting, SavedInv, DoomedInv, FilesInv
  <2> QED
      BY <1>2, <2>2, <2>3
<1>5. CASE AllShardsWritten
  <2>1. \A r \in Roles : Registered(r)' <=> Registered(r)
      BY <1>5 DEF AllShardsWritten, Registered, SavePhases
  <2>2. TypeOK' /\ StepInv'
      BY <1>5 DEF AllShardsWritten, TypeOK, StepInv, Phases, SavePhases
  <2>3. \A rank \in Ranks : disk[step][<<role, rank>>] = run
      BY <1>5 DEF AllShardsWritten, ShardsDone, FilesInv
  <2>4. SavedInv' /\ DoomedInv' /\ FilesInv'
      BY <1>5, <2>1, <2>3 DEF AllShardsWritten, SavedInv, DoomedInv, FilesInv
  <2> QED
      BY <1>2, <2>2, <2>4
<1>6. CASE RoleSaved
  <2>1. \A r \in Roles : Registered(r)' <=> Registered(r)
      BY <1>6 DEF RoleSaved, Registered, SavePhases, Roles, TypeOK
  <2>2. TypeOK' /\ StepInv'
      BY <1>6 DEF RoleSaved, TypeOK, StepInv, Phases, SavePhases, Roles
  <2>3. SavedInv' /\ DoomedInv' /\ FilesInv'
      BY <1>6, <2>1 DEF RoleSaved, SavedInv, DoomedInv, FilesInv
  <2> QED
      BY <1>2, <2>2, <2>3
<1> QED
    BY <1>3, <1>4, <1>5, <1>6

(* A rank writes a shard, or the trainer data.pt, of the current step.      *)
LEMMA WriteInv ==
    ASSUME IInv, (\E rank \in Ranks : BeginShard(rank) \/ EndShard(rank)) \/ BeginData \/ EndData
    PROVE  IInv'
<1> USE DEF IInv
<1> USE ConstantsAssumption
<1>0. /\ step \in Steps /\ tracker # step /\ tracker >= 0 /\ tracker < step
      /\ UNCHANGED <<tracker, run, step, role, doomed, saved, strayed>>
      /\ Torn \in Content /\ run \in Content /\ Data \in Pieces /\ run # Torn
      /\ \A r \in Roles, rank \in Ranks : <<r, rank>> \in Pieces
  <2>1. phase \in {"write", "data"} /\ UNCHANGED <<tracker, run, step, role, doomed, saved, strayed>>
      BY DEF BeginShard, EndShard, BeginData, EndData
  <2>2. step \in Steps /\ tracker < step /\ tracker >= 0
      BY <2>1 DEF StepInv, SavePhases
  <2>3. tracker # step
      BY <2>2 DEF Steps
  <2>4. Torn \in Content /\ run \in Content /\ run # Torn
      BY DEF TypeOK, Content, Torn
  <2> QED
      BY <2>1, <2>2, <2>3, <2>4 DEF Pieces
<1>1. CASE \E rank \in Ranks : BeginShard(rank) \/ EndShard(rank)
  <2>1. PICK rank \in Ranks : BeginShard(rank) \/ EndShard(rank)
      BY <1>1
  <2>2. PICK c \in {Torn, run} : Put(step, <<role, rank>>, c)
      BY <2>1 DEF BeginShard, EndShard
  <2>3. /\ disk' \in [Steps -> [Pieces -> Content]]
        /\ disk'[step][<<role, rank>>] = c
        /\ \A q \in Pieces : q # <<role, rank>> => disk'[step][q] = disk[step][q]
        /\ \A t \in Steps : t # step => disk'[t] = disk[t]
      BY <1>0, <2>2, PutFacts DEF TypeOK
  <2>4. phase = "write" /\ phase' = phase /\ todo' \subseteq todo
        /\ todo \ todo' \subseteq {rank} /\ rank \notin todo'
      BY <2>1 DEF BeginShard, EndShard
  <2>5. TypeOK' /\ StepInv' /\ SavedInv' /\ DoomedInv'
      BY <1>0, <2>3, <2>4 DEF TypeOK, StepInv, SavedInv, DoomedInv, Registered
  <2>6. \A r \in Roles : Registered(r)' <=> Registered(r)
      BY <1>0, <2>4 DEF Registered
  <2>7. \A r \in Roles : Registered(r) => r # role
      BY <2>4 DEF Registered
  <2>8. FilesInv'
    <3>1. \A r \in Roles, k \in Ranks : Registered(r)' => disk'[step][<<r, k>>] = run'
        BY <1>0, <2>3, <2>6, <2>7 DEF FilesInv
    <3>2. \A k \in Ranks \ todo' : disk'[step][<<role, k>>] \in {Torn, run}
        BY <1>0, <2>3, <2>4 DEF FilesInv, TypeOK
    <3> QED
        BY <1>0, <2>4, <3>1, <3>2 DEF FilesInv
  <2>9. TrackedWhole'
      BY <1>0, <2>3, <2>5, CompleteElsewhere
  <2> QED
      BY <2>5, <2>8, <2>9
<1>2. CASE BeginData \/ EndData
  <2>2. PICK c \in {Torn, run} : Put(step, Data, c) /\ (phase' = "track" => c = run)
      BY <1>2 DEF BeginData, EndData
  <2>3. /\ disk' \in [Steps -> [Pieces -> Content]]
        /\ disk'[step][Data] = c
        /\ \A q \in Pieces : q # Data => disk'[step][q] = disk[step][q]
        /\ \A t \in Steps : t # step => disk'[t] = disk[t]
      BY <1>0, <2>2, PutFacts
  <2>4. phase = "data" /\ phase' \in {"data", "track"} /\ todo' = todo
      BY <1>2 DEF BeginData, EndData
  <2>5. TypeOK' /\ StepInv' /\ DoomedInv'
      BY <1>0, <2>3, <2>4 DEF TypeOK, StepInv, DoomedInv, SavePhases, Phases
  <2>6. \A r \in Roles : Registered(r)' /\ Registered(r)
      BY <1>0, <2>4 DEF Registered, SavePhases
  <2>7. SavedInv'
      BY <1>0, <2>4, <2>6 DEF SavedInv
  <2>8. FilesInv'
    <3>1. \A r \in Roles, k \in Ranks : <<r, k>> # Data
        BY DEF Roles, Data
    <3>2. \A r \in Roles, k \in Ranks : disk'[step][<<r, k>>] = run
        BY <1>0, <2>3, <2>6, <3>1 DEF FilesInv
    <3> QED
        BY <1>0, <2>2, <2>3, <2>4, <3>2 DEF FilesInv
  <2>9. TrackedWhole'
      BY <1>0, <2>3, <2>5, CompleteElsewhere
  <2> QED
      BY <2>5, <2>7, <2>8, <2>9
<1> QED
    BY <1>1, <1>2

(* Registering the new checkpoint rotates out only paths older than the     *)
(* tracked one: with a limit of 2 or more two paths are left.               *)
LEMMA RegisterCheckpointInv ==
    ASSUME SafeConfig, IInv, RegisterCheckpoint PROVE IInv'
<1> USE DEF IInv
<1> USE ConstantsAssumption
<1> DEFINE old == saved[role]
           q == Append(old, step)
           n == RegisterExcess(q, Keep[role])
<1>1. role \in Roles /\ old \in Seq(Steps) /\ Keep[role] \in Nat /\ Len(old) \in Nat
    BY DEF TypeOK, Keep
<1>2. /\ doomed' = Oldest(q, n) /\ saved' = [saved EXCEPT ![role] = Newest(q, n)]
      /\ phase = "register" /\ phase' = "rotate"
      /\ UNCHANGED <<disk, tracker, run, step, role, todo, strayed>>
    BY DEF RegisterCheckpoint
<1>3. step \in Steps /\ tracker < step /\ tracker \in Int /\ step \in Int
    BY <1>2 DEF StepInv, SavePhases, TypeOK, Steps, NoTracker, EmptyTracker
<1>4. q \in Seq(Steps) /\ Len(q) = Len(old) + 1 /\ q[Len(q)] = step
      /\ \A i \in 1..Len(old) : q[i] = old[i]
    BY <1>1, <1>3
<1> HIDE DEF q
<1>5. n \in 0..Len(q) /\ (n > 0 => n < Len(old))
  <2>1. Keep[role] # 1
      BY <1>1 DEF SafeConfig
  <2> QED
      BY <2>1, <1>1, <1>4 DEF RegisterExcess
<1> HIDE DEF n
<1>6. ~Registered(role)
    BY <1>2 DEF Registered
<1>7. /\ \A i, j \in 1..Len(old) : i < j => old[i] < old[j]
      /\ \A i \in 1..Len(old) : old[i] <= tracker /\ old[i] \in Int
    BY <1>1, <1>6 DEF SavedInv, Steps
<1>8. \A i, j \in 1..Len(q) : i < j => q[i] < q[j]
  <2> SUFFICES ASSUME NEW i \in 1..Len(q), NEW j \in 1..Len(q), i < j PROVE q[i] < q[j]
      OBVIOUS
  <2>1. CASE j \in 1..Len(old)
    <3>1. i \in 1..Len(old)
        BY <2>1, <1>1
    <3> QED
        BY <2>1, <3>1, <1>4, <1>7
  <2>2. CASE j = Len(q)
    <3>1. i \in 1..Len(old)
        BY <2>2, <1>1, <1>4
    <3> QED
        BY <2>2, <3>1, <1>3, <1>4, <1>7
  <2> QED
      BY <2>1, <2>2, <1>1, <1>4
<1>9. \A i \in 1..Len(q) : q[i] <= step
  <2> SUFFICES ASSUME NEW i \in 1..Len(q) PROVE q[i] <= step
      OBVIOUS
  <2>1. CASE i \in 1..Len(old)
      BY <2>1, <1>3, <1>4, <1>7
  <2>2. CASE i = Len(q)
      BY <2>2, <1>3, <1>4
  <2> QED
      BY <2>1, <2>2, <1>1, <1>4
<1>10. TypeOK'
    BY <1>1, <1>2, <1>4, <1>5, NewestFacts, OldestFacts DEF TypeOK, Phases
<1>11. StepInv'
    BY <1>2 DEF StepInv, SavePhases
<1>12. /\ \A r \in Roles : r = role => Registered(r)'
       /\ \A r \in Roles : r # role => (Registered(r)' <=> Registered(r))
    BY <1>1, <1>2 DEF Registered, SavePhases, Roles
<1>13. SavedInv'
  <2> SUFFICES ASSUME NEW r \in Roles
               PROVE  /\ \A i, j \in 1..Len(saved'[r]) : i < j => saved'[r][i] < saved'[r][j]
                      /\ \A i \in 1..Len(saved'[r]) : saved'[r][i] <= step
                      /\ ~Registered(r)' => \A i \in 1..Len(saved'[r]) : saved'[r][i] <= tracker
      BY <1>2 DEF SavedInv
  <2>1. CASE r # role
      BY <2>1, <1>2, <1>12 DEF SavedInv, TypeOK
  <2>2. CASE r = role
    <3>1. saved'[r] = Newest(q, n)
        BY <2>2, <1>1, <1>2 DEF TypeOK
    <3>2. /\ Len(Newest(q, n)) = Len(q) - n
          /\ \A i \in 1..(Len(q) - n) : Newest(q, n)[i] = q[n + i]
        BY <1>4, <1>5, NewestFacts, Zenon
    <3>3. \A i \in 1..(Len(q) - n) : n + i \in 1..Len(q)
        BY <1>1, <1>4, <1>5
    <3>4. \A i, j \in 1..(Len(q) - n) : i < j => n + i < n + j
        BY <1>1, <1>4, <1>5
    <3> QED
      <4>1. \A i, j \in 1..Len(Newest(q, n)) : i < j => Newest(q, n)[i] < Newest(q, n)[j]
          BY <3>2, <3>3, <3>4, <1>8
      <4>2. \A i \in 1..Len(Newest(q, n)) : Newest(q, n)[i] <= step
          BY <3>2, <3>3, <1>9
      <4> QED
          BY <2>2, <3>1, <4>1, <4>2, <1>12
  <2> QED
      BY <2>1, <2>2
<1>14. DoomedInv'
  <2> SUFFICES ASSUME NEW s \in Oldest(q, n) PROVE s < step /\ s # tracker
      BY <1>2 DEF DoomedInv
  <2>1. PICK i \in 1..n : s = q[i]
      BY <1>4, <1>5, OldestFacts
  <2>2. i \in 1..Len(old) /\ Len(old) \in 1..Len(old) /\ i < Len(old)
      BY <1>1, <1>5, <2>1
  <2>3. s = old[i] /\ old[i] < old[Len(old)] /\ old[Len(old)] <= tracker
        /\ old[i] \in Int /\ old[Len(old)] \in Int
      BY <1>4, <1>7, <2>1, <2>2
  <2> QED
      BY <1>3, <2>3
<1>15. FilesInv'
    BY <1>1, <1>2, <1>12 DEF FilesInv
<1>16. TrackedWhole'
    BY <1>2 DEF TrackedWhole, Complete
<1> QED
    BY <1>10, <1>11, <1>13, <1>14, <1>15, <1>16

(* The tracker is emptied, then names the step all files of which this run  *)
(* has written.                                                             *)
LEMMA TrackerInv ==
    ASSUME IInv, OpenTracker \/ WriteTracker PROVE IInv'
<1> USE DEF IInv
<1> USE ConstantsAssumption
<1>1. CASE OpenTracker
  <2>1. TypeOK' /\ StepInv' /\ DoomedInv'
      BY <1>1 DEF OpenTracker, TypeOK, StepInv, DoomedInv, SavePhases, Phases, EmptyTracker, Steps
  <2>2. \A r \in Roles : Registered(r)' /\ Registered(r)
      BY <1>1 DEF OpenTracker, Registered, SavePhases
  <2>3. SavedInv' /\ FilesInv'
      BY <1>1, <2>2 DEF OpenTracker, SavedInv, FilesInv
  <2>4. TrackedWhole'
      BY <1>1 DEF OpenTracker, TrackedWhole, EmptyTracker, Steps
  <2> QED
      BY <2>1, <2>3, <2>4
<1>2. CASE WriteTracker
  <2>1. step \in Steps /\ UNCHANGED <<disk, run, step, role, todo, doomed, saved, strayed>>
        /\ phase = "commit" /\ phase' = "train" /\ tracker' = step
      BY <1>2 DEF WriteTracker, StepInv, SavePhases
  <2>2. TypeOK' /\ DoomedInv'
      BY <2>1 DEF TypeOK, DoomedInv, Phases
  <2>3. StepInv'
      BY <2>1 DEF StepInv, SavePhases, Steps
  <2>4. SavedInv' /\ FilesInv'
      BY <2>1 DEF SavedInv, FilesInv, Registered, SavePhases
  <2>5. \A p \in Pieces : disk[step][p] = run
      BY <2>1 DEF FilesInv, Pieces, Registered, SavePhases
  <2>6. TrackedWhole'
      BY <2>1, <2>5 DEF TrackedWhole, Complete, TypeOK
  <2> QED
      BY <2>2, <2>3, <2>4, <2>6
<1> QED
    BY <1>1, <1>2

(* A crash forgets the registered paths; a restart resumes from the tracked *)
(* step, from scratch, or not at all.                                       *)
LEMMA CrashRestartInv ==
    ASSUME IInv, Crash \/ Restart PROVE strayed' # {} \/ IInv'
<1> USE DEF IInv
<1> USE ConstantsAssumption
<1>1. CASE Crash
  <2>1. TypeOK' /\ StepInv' /\ DoomedInv' /\ FilesInv'
      BY <1>1 DEF Crash, TypeOK, StepInv, DoomedInv, FilesInv, Registered, SavePhases, Phases
  <2>2. SavedInv' /\ TrackedWhole'
      BY <1>1 DEF Crash, SavedInv, TrackedWhole, Complete
  <2> QED
      BY <2>1, <2>2
<1>2. CASE Restart
  <2> SUFFICES ASSUME strayed' = {} PROVE IInv'
      OBVIOUS
  <2>1. phase = "down" /\ StartAt(tracker) /\ strayed = {}
      BY <1>2 DEF Restart, StartAt, TypeOK
  <2>2. /\ run' = run + 1 /\ run < MaxRuns /\ strayed' \subseteq 1..MaxRuns
        /\ UNCHANGED <<disk, tracker, role, todo, doomed, saved>>
        /\ (phase' = "train" /\ step' = tracker /\ tracker >= 0) \/ (phase' = "failed" /\ step' = step)
      BY <2>1 DEF StartAt, StepInv, TypeOK, Steps, NoTracker, EmptyTracker
  <2>3. step' \in 0..MaxSteps /\ run' \in 1..MaxRuns
      BY <2>2 DEF TypeOK, Steps, NoTracker, EmptyTracker
  <2>4. TypeOK' /\ DoomedInv'
      BY <2>1, <2>2, <2>3 DEF TypeOK, DoomedInv, Phases
  <2>5. StepInv'
      BY <2>1, <2>2 DEF StepInv, SavePhases, TypeOK, Steps, NoTracker, EmptyTracker
  <2>6. SavedInv' /\ FilesInv'
      BY <2>1, <2>2 DEF SavedInv, FilesInv, Registered, SavePhases
  <2>7. TrackedWhole'
      BY <2>2 DEF TrackedWhole, Complete
  <2> QED
      BY <2>4, <2>5, <2>6, <2>7
<1> QED
    BY <1>1, <1>2

-----------------------------------------------------------------------------
(* Once a restart strayed it stays so.                                      *)
LEMMA StrayedForEver == [Next]_vars /\ strayed # {} => strayed' # {}
BY DEF Next, Saving, vars, TrainStep, EnsureCapacity, Unlink, Removed, StartWriting, BeginShard,
       EndShard, AllShardsWritten, RegisterCheckpoint, RoleSaved, BeginData, EndData, OpenTracker,
       WriteTracker, Crash, Restart, StartAt, Idle

(* One step of the system, as long as no restart strays.                    *)
LEMMA SafeStep ==
    ASSUME SafeConfig, IInv, [Next]_vars
    PROVE  strayed' # {} \/ IInv'
<1>1. CASE TrainStep
    BY <1>1, TrainStepInv
<1>2. CASE EnsureCapacity
    BY <1>2, EnsureCapacityInv
<1>3. ASSUME NEW s \in Steps, NEW rank \in Ranks, Unlink(s, rank) PROVE IInv'
    BY <1>3, UnlinkInv
<1>4. CASE (\E s \in Steps : Removed(s)) \/ StartWriting \/ AllShardsWritten \/ RoleSaved
    BY <1>4, BarriersInv
<1>5. CASE (\E rank \in Ranks : BeginShard(rank) \/ EndShard(rank)) \/ BeginData \/ EndData
    BY <1>5, WriteInv
<1>6. CASE RegisterCheckpoint
    BY <1>6, RegisterCheckpointInv
<1>7. CASE OpenTracker \/ WriteTracker
    BY <1>7, TrackerInv
<1>8. CASE Crash \/ Restart
    BY <1>8, CrashRestartInv
<1>9. CASE UNCHANGED vars
    BY <1>9 DEF vars, IInv, TypeOK, StepInv, SavedInv, DoomedInv, FilesInv, TrackedWhole,
                Registered, Complete
<1> QED
    BY <1>1, <1>2, <1>3, <1>4, <1>5, <1>6, <1>7, <1>8, <1>9 DEF Next, Saving, Idle

(* With no retention limit of 1, the files under the tracked step are, at   *)
(* every moment and after every crash, the complete checkpoint that one run *)
(* wrote, as long as restarts resume from it: any number of ranks, steps    *)
(* and restarts.                                                            *)
THEOREM TrackedCheckpointIsComplete ==
    ASSUME SafeConfig
    PROVE  Spec => []TrackedIsComplete
<1>2. Safe /\ [Next]_vars => Safe'
    BY SafeStep, StrayedForEver DEF Safe
<1>3. Init => Safe
    BY InitInv DEF Safe
<1>4. Safe => TrackedIsComplete
    BY DEF Safe, IInv, TrackedIsComplete
<1> QED
    BY <1>2, <1>3, <1>4, PTL DEF Spec

-----------------------------------------------------------------------------
(* The rest holds in every configuration and wherever restarts resumed.     *)
Basics ==
    /\ phase \in SavePhases => step \in Steps
    /\ phase = "down" => run < MaxRuns
    /\ phase \notin {"evict", "rotate"} => doomed = {}
    /\ \A s \in Steps, p \in Pieces : disk[s][p] <= run

TypedInv == TypeOK /\ Basics

LEMMA PutTyped ==
    ASSUME TypedInv, NEW p \in Pieces, NEW c \in {Absent, Torn, run}, NEW s \in Steps, Put(s, p, c)
    PROVE  /\ disk' \in [Steps -> [Pieces -> Content]]
           /\ \A t \in Steps, q \in Pieces : disk'[t][q] <= run
           /\ \A t \in Steps, q \in Pieces : disk'[t][q] = IF t = s /\ q = p THEN c ELSE disk[t][q]
<1>1. run \in 1..MaxRuns /\ c \in Content /\ c <= run
    BY DEF TypedInv, TypeOK, Content, Absent, Torn
<1>2. /\ disk' \in [Steps -> [Pieces -> Content]] /\ disk'[s][p] = c
      /\ \A q \in Pieces : q # p => disk'[s][q] = disk[s][q]
      /\ \A t \in Steps : t # s => disk'[t] = disk[t]
    BY <1>1, PutFacts DEF TypedInv
<1>3. \A t \in Steps, q \in Pieces : disk'[t][q] = IF t = s /\ q = p THEN c ELSE disk[t][q]
    BY <1>2
<1> QED
    BY <1>1, <1>2, <1>3 DEF TypedInv, Basics

LEMMA RemovalCounts ==
    ASSUME TypedInv, NEW q \in Seq(Steps), NEW k \in Nat
    PROVE  CapacityExcess(q, k) \in 0..Len(q) /\ RegisterExcess(q, k) \in 0..Len(q)
BY DEF CapacityExcess, RegisterExcess

LEMMA TypedStep == ASSUME TypedInv, [Next]_vars PROVE TypedInv'
<1> USE ConstantsAssumption
<1>0. /\ role \in Roles /\ saved \in [Roles -> Seq(Steps)] /\ Keep[role] \in Nat
      /\ disk \in [Steps -> [Pieces -> Content]] /\ run \in 1..MaxRuns /\ step \in 0..MaxSteps
    BY DEF TypedInv, TypeOK, Keep
<1>1. CASE TrainStep
    BY <1>1 DEF TrainStep, TypedInv, TypeOK, Basics, Phases, SavePhases, Roles, Steps
<1>2. CASE EnsureCapacity
  <2> DEFINE q == saved[role]
             n == CapacityExcess(q, Keep[role])
  <2>1. q \in Seq(Steps) /\ n \in 0..Len(q)
      BY <1>0, RemovalCounts
  <2>2. /\ doomed' = Oldest(q, n) /\ saved' = [saved EXCEPT ![role] = Newest(q, n)]
        /\ phase = "capacity" /\ phase' = "evict"
        /\ UNCHANGED <<disk, tracker, run, step, role, todo, strayed>>
      BY <1>2 DEF EnsureCapacity
  <2> HIDE DEF q, n
  <2>3. doomed' \subseteq Steps /\ saved' \in [Roles -> Seq(Steps)]
      BY <1>0, <2>1, <2>2, NewestFacts, OldestFacts
  <2> QED
      BY <2>2, <2>3 DEF TypedInv, TypeOK, Basics, Phases, SavePhases
<1>3. CASE RegisterCheckpoint
  <2> DEFINE q == Append(saved[role], step)
             n == RegisterExcess(q, Keep[role])
  <2>1. phase = "register" /\ step \in Steps
      BY <1>3 DEF RegisterCheckpoint, TypedInv, Basics, SavePhases
  <2>2. q \in Seq(Steps)
      BY <1>0, <2>1
  <2>3. n \in 0..Len(q)
      BY <1>0, <2>2, RemovalCounts
  <2>4. /\ doomed' = Oldest(q, n) /\ saved' = [saved EXCEPT ![role] = Newest(q, n)]
        /\ phase' = "rotate"
        /\ UNCHANGED <<disk, tracker, run, step, role, todo, strayed>>
      BY <1>3 DEF RegisterCheckpoint
  <2> HIDE DEF q, n
  <2>5. doomed' \subseteq Steps /\ saved' \in [Roles -> Seq(Steps)]
      BY <1>0, <2>2, <2>3, <2>4, NewestFacts, OldestFacts
  <2> QED
      BY <2>1, <2>4, <2>5 DEF TypedInv, TypeOK, Basics, Phases, SavePhases
<1>4. ASSUME NEW s \in Steps, NEW rank \in Ranks, Unlink(s, rank) PROVE TypedInv'
  <2>1. <<role, rank>> \in Pieces /\ Absent \in {Absent, Torn, run}
      BY <1>0 DEF Pieces
  <2> QED
      BY <1>4, <2>1, PutTyped DEF Unlink, TypedInv, TypeOK, Basics
<1>5. ASSUME NEW rank \in Ranks, BeginShard(rank) \/ EndShard(rank) PROVE TypedInv'
  <2>1. <<role, rank>> \in Pieces /\ step \in Steps /\ phase = "write"
      BY <1>0, <1>5 DEF Pieces, BeginShard, EndShard, TypedInv, Basics, SavePhases
  <2>2. PICK c \in {Absent, Torn, run} : Put(step, <<role, rank>>, c)
      BY <1>5 DEF BeginShard, EndShard
  <2>3. /\ disk' \in [Steps -> [Pieces -> Content]]
        /\ \A t \in Steps, q \in Pieces : disk'[t][q] <= run
      BY <2>1, <2>2, PutTyped
  <2>4. UNCHANGED <<tracker, run, step, phase, role, doomed, saved, strayed>> /\ todo' \subseteq todo
      BY <1>5 DEF BeginShard, EndShard
  <2>5. TypeOK'
      BY <2>3, <2>4 DEF TypedInv, TypeOK
  <2>6. Basics'
      BY <2>3, <2>4 DEF TypedInv, Basics
  <2> QED
      BY <2>5, <2>6 DEF TypedInv
<1>6. CASE BeginData \/ EndData
  <2>1. Data \in Pieces /\ step \in Steps /\ phase = "data"
      BY <1>6 DEF Pieces, BeginData, EndData, TypedInv, Basics, SavePhases
  <2>2. PICK c \in {Absent, Torn, run} : Put(step, Data, c)
      BY <1>6 DEF BeginData, EndData
  <2>3. /\ disk' \in [Steps -> [Pieces -> Content]]
        /\ \A t \in Steps, q \in Pieces : disk'[t][q] <= run
      BY <2>1, <2>2, PutTyped
  <2>4. /\ UNCHANGED <<tracker, run, step, role, todo, doomed, saved, strayed>>
        /\ phase' \in {"data", "track"}
      BY <1>6, <2>1 DEF BeginData, EndData
  <2>5. TypeOK'
      BY <2>3, <2>4 DEF TypedInv, TypeOK, Phases
  <2>6. Basics'
      BY <2>1, <2>3, <2>4 DEF TypedInv, Basics
  <2> QED
      BY <2>5, <2>6 DEF TypedInv
<1>7. CASE (\E s \in Steps : Removed(s)) \/ StartWriting \/ AllShardsWritten \/ RoleSaved
  <2>1. UNCHANGED <<disk, tracker, run, step, saved, strayed>>
      BY <1>7 DEF Removed, StartWriting, AllShardsWritten, RoleSaved
  <2>2. /\ phase' \in Phases /\ role' \in Roles /\ todo' \subseteq Ranks /\ doomed' \subseteq doomed
        /\ phase \in SavePhases /\ phase' # "down"
    <3> USE DEF TypedInv, TypeOK, Phases, SavePhases, Roles
    <3>1. CASE \E s \in Steps : Removed(s)
        BY <3>1 DEF Removed, Basics
    <3>2. CASE StartWriting
        BY <3>2 DEF StartWriting
    <3>3. CASE AllShardsWritten
        BY <3>3 DEF AllShardsWritten
    <3>4. CASE RoleSaved
        BY <3>4 DEF RoleSaved
    <3> QED
        BY <1>7, <3>1, <3>2, <3>3, <3>4
  <2>3. phase' \notin {"evict", "rotate"} => doomed' = {}
      BY <1>7 DEF Removed, StartWriting, AllShardsWritten, RoleSaved, TypedInv, Basics
  <2>4. TypeOK'
      BY <2>1, <2>2 DEF TypedInv, TypeOK
  <2>5. Basics'
      BY <2>1, <2>2, <2>3 DEF TypedInv, Basics
  <2> QED
      BY <2>4, <2>5 DEF TypedInv
<1>8. CASE OpenTracker \/ WriteTracker
  <2>1. /\ UNCHANGED <<disk, run, step, role, todo, doomed, saved, strayed>>
        /\ phase \in {"track", "commit"} /\ phase' \in {"commit", "train"}
        /\ step \in Steps /\ tracker' \in {EmptyTracker, step}
      BY <1>8 DEF OpenTracker, WriteTracker, TypedInv, Basics, SavePhases
  <2>2. TypeOK'
      BY <2>1 DEF TypedInv, TypeOK, Phases
  <2>3. Basics'
      BY <2>1 DEF TypedInv, Basics
  <2> QED
      BY <2>2, <2>3 DEF TypedInv
<1>9. CASE Crash
  <2>1. /\ UNCHANGED <<disk, tracker, run, step, role, strayed>> /\ run < MaxRuns
        /\ phase' = "down" /\ todo' = {} /\ doomed' = {} /\ saved' = [r \in Roles |-> << >>]
      BY <1>9 DEF Crash
  <2>2. saved' \in [Roles -> Seq(Steps)]
      BY <2>1
  <2>3. TypeOK'
      BY <2>1, <2>2 DEF TypedInv, TypeOK, Phases
  <2>4. Basics'
      BY <2>1 DEF TypedInv, Basics, SavePhases
  <2> QED
      BY <2>3, <2>4 DEF TypedInv
<1>10. CASE Restart
  <2>1. PICK s \in {NoTracker, EmptyTracker} \cup Steps : StartAt(s)
      BY <1>10 DEF Restart, TypedInv, TypeOK, NoTracker
  <2>2. /\ run' = run + 1 /\ run' \in 1..MaxRuns /\ strayed' \subseteq 1..MaxRuns
        /\ UNCHANGED <<disk, tracker, role, todo, doomed, saved>>
        /\ phase = "down" /\ phase' \in {"train", "failed"} /\ step' \in 0..MaxSteps
      BY <1>0, <1>10, <2>1 DEF Restart, StartAt, TypedInv, TypeOK, Basics, Steps, NoTracker, EmptyTracker
  <2>3. \A s1 \in Steps, p \in Pieces : disk'[s1][p] <= run'
    <3>1. \A s1 \in Steps, p \in Pieces : disk[s1][p] \in Int /\ disk[s1][p] <= run
        BY <1>0 DEF TypedInv, Basics, Content, Absent, Torn
    <3> QED
        BY <1>0, <2>2, <3>1
  <2> QED
      BY <2>2, <2>3 DEF TypedInv, TypeOK, Basics, Phases, SavePhases
<1>11. CASE UNCHANGED vars
    BY <1>11 DEF vars, TypedInv, TypeOK, Basics
<1> QED
    BY <1>1, <1>2, <1>3, <1>4, <1>5, <1>6, <1>7, <1>8, <1>9, <1>10, <1>11
    DEF Next, Saving, Idle

LEMMA TypedInit == Init => TypedInv
<1> SUFFICES ASSUME Init PROVE TypedInv
    OBVIOUS
<1>1. TypeOK
    BY InitInv DEF IInv
<1>2. Basics
    BY ConstantsAssumption DEF Init, Basics, SavePhases, Absent
<1> QED
    BY <1>1, <1>2 DEF TypedInv

(* Type correctness, for every limit, way to resume, crash and restart.     *)
THEOREM TypeCorrect == Spec => []TypedInv
BY TypedInit, TypedStep, PTL DEF Spec

-----------------------------------------------------------------------------
(* A restart can fail only over a tracker that names a step.                *)
TornRestart == phase = "failed" => tracker = EmptyTracker

LEMMA TornStep ==
    ASSUME IInv, TornRestart, [Next]_vars
    PROVE  strayed' # {} \/ TornRestart'
<1> SUFFICES ASSUME strayed' = {}, phase' = "failed" PROVE tracker' = EmptyTracker
    BY DEF TornRestart
<1>1. CASE Restart
  <2>1. StartAt(tracker) /\ phase' = "failed"
      BY <1>1 DEF Restart, StartAt, IInv, TypeOK
  <2>2. ~(tracker = 0 \/ (tracker > 0 /\ Loadable(tracker))) /\ tracker' = tracker
      BY <2>1 DEF StartAt
  <2>3. ASSUME tracker \in Steps PROVE FALSE
    <3>1. PICK k \in 1..MaxRuns : \A p \in Pieces : disk[tracker][p] = k
        BY <2>3 DEF IInv, TrackedWhole, Complete
    <3>2. k \notin {Absent, Torn}
        BY ConstantsAssumption DEF Absent, Torn
    <3>3. Loadable(tracker)
        BY <3>1, <3>2 DEF Loadable, Pieces
    <3> QED
        BY <2>2, <2>3, <3>3 DEF Steps
  <2>4. tracker \in {NoTracker, EmptyTracker}
      BY <2>3 DEF IInv, TypeOK
  <2> QED
      BY <2>2, <2>4 DEF NoTracker
<1>2. CASE ~Restart
  <2>1. phase = "failed" /\ tracker' = tracker
      BY <1>2 DEF Next, Saving, vars, TrainStep, EnsureCapacity, Unlink, Removed, StartWriting,
                  BeginShard, EndShard, AllShardsWritten, RegisterCheckpoint, RoleSaved, BeginData,
                  EndData, OpenTracker, WriteTracker, Crash, Idle
  <2> QED
      BY <2>1 DEF TornRestart
<1> QED
    BY <1>1, <1>2

(* With no retention limit of 1, a restart from the tracked step fails only *)
(* if the crash left the tracker truncated.                                 *)
THEOREM FailedRestartsAreTorn ==
    ASSUME SafeConfig
    PROVE  Spec => []RestartFailsOnlyIfTorn
<1> DEFINE Both == strayed # {} \/ (IInv /\ TornRestart)
<1>1. Init => Both
  <2>1. Init => TornRestart
      BY DEF Init, TornRestart
  <2> QED
      BY <2>1, InitInv
<1>2. Both /\ [Next]_vars => Both'
    BY SafeStep, TornStep, StrayedForEver DEF Safe
<1>3. Both => RestartFailsOnlyIfTorn
    BY DEF RestartFailsOnlyIfTorn, TornRestart
<1> HIDE DEF Both
<1> QED
    BY <1>1, <1>2, <1>3, PTL DEF Spec

(* The order of the tracked and the current step does not depend on how     *)
(* many checkpoints are kept.                                               *)
LEMMA StepInvStep ==
    ASSUME TypedInv, StepInv, [Next]_vars
    PROVE  strayed' # {} \/ StepInv'
<1> SUFFICES ASSUME strayed' = {} PROVE StepInv'
    OBVIOUS
<1> USE ConstantsAssumption
<1>1. CASE TrainStep
    BY <1>1 DEF TrainStep, TypedInv, TypeOK, StepInv, SavePhases, Steps, NoTracker, EmptyTracker
<1>2. CASE EnsureCapacity \/ StartWriting \/ AllShardsWritten \/ RegisterCheckpoint
  <2>1. /\ UNCHANGED <<tracker, run, step, role>> /\ phase \in SavePhases
        /\ phase \notin {"commit", "down", "failed"}
        /\ phase' \in {"evict", "write", "register", "rotate"}
      BY <1>2 DEF EnsureCapacity, StartWriting, AllShardsWritten, RegisterCheckpoint, SavePhases
  <2> QED
      BY <2>1 DEF StepInv, SavePhases
<1>3. CASE RoleSaved
    BY <1>3 DEF RoleSaved, StepInv, SavePhases, Roles, TypedInv, TypeOK
<1>4. ASSUME NEW s \in Steps, NEW rank \in Ranks,
             Unlink(s, rank) \/ Removed(s) \/ BeginShard(rank) \/ EndShard(rank)
      PROVE  StepInv'
  <2>1. UNCHANGED <<tracker, run, step, phase, role>>
      BY <1>4 DEF Unlink, Removed, BeginShard, EndShard
  <2> QED
      BY <2>1 DEF StepInv
<1>5. CASE BeginData \/ EndData
  <2>1. UNCHANGED <<tracker, run, step, role>> /\ phase = "data" /\ phase' \in {"data", "track"}
      BY <1>5 DEF BeginData, EndData
  <2> QED
      BY <2>1 DEF StepInv, SavePhases
<1>6. CASE OpenTracker
    BY <1>6 DEF OpenTracker, StepInv, SavePhases, EmptyTracker, Steps
<1>7. CASE WriteTracker
  <2>1. step \in Steps /\ tracker' = step /\ step' = step /\ phase' = "train"
      BY <1>7 DEF WriteTracker, StepInv, SavePhases
  <2> QED
      BY <2>1 DEF StepInv, SavePhases, Steps
<1>8. CASE Crash
    BY <1>8 DEF Crash, StepInv, SavePhases
<1>9. CASE Restart
  <2>1. phase = "down" /\ StartAt(tracker)
      BY <1>9 DEF Restart, StartAt, TypedInv, TypeOK
  <2>2. /\ UNCHANGED <<tracker, role>>
        /\ (phase' = "train" /\ step' = tracker /\ tracker >= 0) \/ (phase' = "failed" /\ step' = step)
      BY <2>1 DEF StartAt, TypedInv, TypeOK, Steps, NoTracker, EmptyTracker
  <2>3. tracker \in Int
      BY DEF TypedInv, TypeOK, Steps, NoTracker, EmptyTracker
  <2> QED
      BY <2>2, <2>3 DEF StepInv, SavePhases
<1>10. CASE UNCHANGED vars
    BY <1>10 DEF vars, StepInv
<1>11. \A s \in Steps : Removed(s) => StepInv'
  <2>1. 0 \in Ranks
      BY DEF Ranks
  <2> QED
      BY <1>4, <2>1
<1>12. \A rank \in Ranks : BeginShard(rank) \/ EndShard(rank) => StepInv'
  <2> SUFFICES ASSUME NEW rank \in Ranks, BeginShard(rank) \/ EndShard(rank) PROVE StepInv'
      OBVIOUS
  <2>1. UNCHANGED <<tracker, run, step, phase, role>>
      BY DEF BeginShard, EndShard
  <2> QED
      BY <2>1 DEF StepInv
<1> QED
    BY <1>1, <1>2, <1>3, <1>4, <1>5, <1>6, <1>7, <1>8, <1>9, <1>10, <1>11, <1>12 DEF Next, Saving, Idle

(* As long as restarts resume from the tracked step, the tracker only moves *)
(* on to newer steps: whatever the limits and wherever a crash strikes.     *)
THEOREM TrackerMovesOn == Spec => TrackerNeverGoesBack
<1> DEFINE Ordered == TypedInv /\ (strayed # {} \/ StepInv)
           Forward == (strayed = {} /\ tracker \in Steps /\ tracker' # tracker) => step > tracker
<1>1. Init => Ordered
  <2>1. Init => StepInv
      BY InitInv DEF IInv
  <2> QED
      BY <2>1, TypedInit
<1>2. Ordered /\ [Next]_vars => Ordered'
    BY TypedStep, StepInvStep, StrayedForEver
<1>3. Ordered /\ [Next]_vars => [Forward]_vars
  <2> SUFFICES ASSUME Ordered, [Next]_vars, strayed = {}, tracker \in Steps, tracker' # tracker
               PROVE  step > tracker
      OBVIOUS
  <2>1. OpenTracker \/ WriteTracker
      BY DEF Next, Saving, vars, TrainStep, EnsureCapacity, Unlink, Removed, StartWriting,
             BeginShard, EndShard, AllShardsWritten, RegisterCheckpoint, RoleSaved, BeginData,
             EndData, Crash, Restart, StartAt, Idle
  <2>2. phase \in SavePhases
      BY <2>1 DEF OpenTracker, WriteTracker, SavePhases
  <2>3. step \in Steps /\ tracker < step
      BY <2>2 DEF StepInv
  <2> QED
      BY <2>3 DEF Steps
<1> HIDE DEF Ordered
<1> QED
    BY <1>1, <1>2, <1>3, PTL DEF Spec, TrackerNeverGoesBack

-----------------------------------------------------------------------------
(* The checkpoints of a role that the current run has on disk.              *)
OfRun(r) == {s \in Steps : \E rank \in Ranks : disk[s][<<r, rank>>] = run}
Listed(q) == {q[i] : i \in 1..Len(q)}

(* Where they may be: registered, about to be removed, or being written.    *)
Accounted(r) ==
    Listed(saved[r]) \cup
    (IF r # role THEN {} ELSE doomed \cup (IF phase \in {"write", "register"} THEN {step} ELSE {}))

Retained(r) ==
    /\ Cardinality(OfRun(r)) <= Keep[r]
    /\ Len(saved[r]) <= Keep[r]
    /\ phase \notin {"down", "failed"} => OfRun(r) \subseteq Accounted(r)
    /\ r = role /\ phase \in {"evict", "write", "register"} => Len(saved[r]) < Keep[r]

LEMMA OfRunFacts ==
    ASSUME TypedInv, NEW r \in Roles
    PROVE  /\ IsFiniteSet(OfRun(r)) /\ Cardinality(OfRun(r)) \in Nat
           /\ \A T : T \subseteq OfRun(r) => Cardinality(T) <= Cardinality(OfRun(r))
<1>1. IsFiniteSet(Steps)
    BY ConstantsAssumption, FS_Interval DEF Steps
<1>2. OfRun(r) \subseteq Steps
    BY DEF OfRun
<1> QED
    BY <1>1, <1>2, FS_Subset, FS_CardinalityType

(* A set of which all but one element is listed.                            *)
LEMMA ListedCount ==
    ASSUME NEW q \in Seq(Steps), NEW S, S \subseteq Listed(q), NEW x
    PROVE  /\ IsFiniteSet(S) /\ Cardinality(S) <= Len(q)
           /\ IsFiniteSet(S \cup {x}) /\ Cardinality(S \cup {x}) <= Len(q) + 1
<1> DEFINE I == 1..Len(q)
           f == [i \in I |-> q[i]]
<1>0. Len(q) \in Nat /\ Len(q) \in Int /\ 1 \in Int
    OBVIOUS
<1>1a. IsFiniteSet(I) /\ Cardinality(I) = IF 1 > Len(q) THEN 0 ELSE Len(q) - 1 + 1
    BY <1>0, FS_Interval
<1>1. IsFiniteSet(I) /\ Cardinality(I) = Len(q) /\ Len(q) \in Nat
  <2> HIDE DEF I
  <2> QED
      BY <1>0, <1>1a
<1>2. f \in Surjection(I, Listed(q))
    BY DEF Surjection, Listed
<1>3. IsFiniteSet(Listed(q)) /\ Cardinality(Listed(q)) <= Len(q)
    BY <1>1, <1>2, FS_Surjection
<1>4. IsFiniteSet(S) /\ Cardinality(S) <= Cardinality(Listed(q))
    BY <1>3, FS_Subset
<1>5. Cardinality(S) \in Nat /\ Cardinality(Listed(q)) \in Nat
    BY <1>3, <1>4, FS_CardinalityType
<1>6. IsFiniteSet(S \cup {x}) /\ Cardinality(S \cup {x}) <= Cardinality(S) + 1
  <2>1. IsFiniteSet(S \cup {x})
        /\ Cardinality(S \cup {x}) = IF x \in S THEN Cardinality(S) ELSE Cardinality(S) + 1
      BY <1>4, FS_AddElement
  <2> QED
      BY <1>5, <2>1
<1>7. Cardinality(S \cup {x}) \in Nat
    BY <1>6, FS_CardinalityType
<1> QED
    BY <1>1, <1>3, <1>4, <1>5, <1>6, <1>7

(* Nothing written by the run appears: the count cannot grow.               *)
LEMMA ShrunkCount ==
    ASSUME TypedInv, NEW r \in Roles, OfRun(r)' \subseteq OfRun(r), NEW k \in Nat,
           Cardinality(OfRun(r)) <= k
    PROVE  Cardinality(OfRun(r)') <= k
<1>1. IsFiniteSet(OfRun(r)) /\ Cardinality(OfRun(r)) \in Nat
      /\ Cardinality(OfRun(r)') <= Cardinality(OfRun(r))
    BY OfRunFacts
<1>2. IsFiniteSet(OfRun(r)')
    BY <1>1, FS_Subset
<1>3. Cardinality(OfRun(r)') \in Nat
    BY <1>2, FS_CardinalityType
<1> QED
    BY <1>1, <1>3

LEMMA OfRunSame ==
    ASSUME NEW r, UNCHANGED <<disk, run>> PROVE OfRun(r)' = OfRun(r)
BY DEF OfRun

(* Taking the oldest paths off a list loses none of them.                   *)
LEMMA ListedParts ==
    ASSUME NEW q \in Seq(Steps), NEW n \in 0..Len(q)
    PROVE  Listed(q) = Oldest(q, n) \cup Listed(Newest(q, n))
<1>1. /\ Newest(q, n) \in Seq(Steps) /\ Len(Newest(q, n)) = Len(q) - n
      /\ \A i \in 1..(Len(q) - n) : Newest(q, n)[i] = q[n + i]
    BY NewestFacts
<1>2. ASSUME NEW x \in Listed(q) PROVE x \in Oldest(q, n) \cup Listed(Newest(q, n))
  <2>1. PICK i \in 1..Len(q) : x = q[i]
      BY <1>2 DEF Listed
  <2>2. CASE i <= n
      BY <2>1, <2>2 DEF Oldest
  <2>3. CASE i > n
    <3>1. i - n \in 1..(Len(q) - n) /\ n + (i - n) = i
        BY <2>1, <2>3
    <3>2. Newest(q, n)[i - n] = x
        BY <1>1, <2>1, <3>1
    <3> QED
        BY <1>1, <3>1, <3>2 DEF Listed
  <2> QED
      BY <2>1, <2>2, <2>3
<1>3. Oldest(q, n) \subseteq Listed(q)
    BY DEF Oldest, Listed
<1>4. ASSUME NEW x \in Listed(Newest(q, n)) PROVE x \in Listed(q)
  <2>1. PICK i \in 1..(Len(q) - n) : x = Newest(q, n)[i]
      BY <1>1, <1>4 DEF Listed
  <2>2. n + i \in 1..Len(q) /\ x = q[n + i]
      BY <1>1, <2>1
  <2> QED
      BY <2>2 DEF Listed
<1> QED
    BY <1>2, <1>3, <1>4

LEMMA ListedAppend ==
    ASSUME NEW q \in Seq(Steps), NEW s \in Steps
    PROVE  Listed(Append(q, s)) = Listed(q) \cup {s}
<1>1. /\ Len(Append(q, s)) = Len(q) + 1 /\ Append(q, s)[Len(q) + 1] = s
      /\ \A i \in 1..Len(q) : Append(q, s)[i] = q[i]
    OBVIOUS
<1>2. ASSUME NEW x \in Listed(Append(q, s)) PROVE x \in Listed(q) \cup {s}
  <2>1. PICK i \in 1..(Len(q) + 1) : x = Append(q, s)[i]
      BY <1>1, <1>2 DEF Listed
  <2>2. i \in 1..Len(q) \/ i = Len(q) + 1
      BY <2>1
  <2> QED
      BY <1>1, <2>1, <2>2 DEF Listed
<1>3. ASSUME NEW x \in Listed(q) PROVE x \in Listed(Append(q, s))
  <2>1. PICK i \in 1..Len(q) : x = q[i]
      BY <1>3 DEF Listed
  <2>2. i \in 1..Len(Append(q, s)) /\ Append(q, s)[i] = x
      BY <1>1, <2>1
  <2> QED
      BY <2>2 DEF Listed
<1>4. s \in Listed(Append(q, s))
  <2>1. Len(q) + 1 \in 1..Len(Append(q, s))
      BY <1>1
  <2> QED
      BY <1>1, <2>1 DEF Listed
<1> QED
    BY <1>2, <1>3, <1>4

(* Steps that write no shard of the role to the end.                        *)
LEMMA RetainedByRemoval ==
    ASSUME TypedInv, NEW r \in Roles, Retained(r), Keep[r] > 1,
           OfRun(r)' \subseteq OfRun(r), UNCHANGED <<role, saved>>, phase' = phase,
           phase \in {"write", "register"} => step' = step,
           \A s \in OfRun(r)' : s \in doomed => s \in doomed'
    PROVE  Retained(r)'
<1>1. Keep[r] \in Nat
    BY ConstantsAssumption DEF Keep
<1>2. Cardinality(OfRun(r)') <= Keep[r]
    BY <1>1, ShrunkCount DEF Retained
<1>3. phase \notin {"down", "failed"} => OfRun(r)' \subseteq Accounted(r)'
    BY DEF Retained, Accounted
<1> QED
    BY <1>2, <1>3 DEF Retained

LEMMA RetainedStep ==
    ASSUME TypedInv, NEW r \in Roles, Keep[r] > 1, Retained(r), [Next]_vars
    PROVE  Retained(r)'
<1> USE ConstantsAssumption
<1>0. /\ role \in Roles /\ saved \in [Roles -> Seq(Steps)] /\ Keep[r] \in Nat /\ Keep[role] \in Nat
      /\ saved[r] \in Seq(Steps) /\ Len(saved[r]) \in Nat
      /\ disk \in [Steps -> [Pieces -> Content]] /\ run \in 1..MaxRuns
    BY DEF TypedInv, TypeOK, Keep
<1>1. CASE TrainStep \/ StartWriting \/ AllShardsWritten \/ RoleSaved \/ OpenTracker \/ WriteTracker
  <2>1. /\ UNCHANGED <<disk, run, saved>> /\ doomed = {} /\ doomed' = {}
        /\ phase' \in {"write", "register"} =>
               /\ UNCHANGED <<role, step>>
               /\ phase \in {"evict", "write"}
        /\ phase \in {"write", "register"} => phase' \in {"write", "register"}
        /\ phase' # "evict" /\ phase \notin {"down", "failed"}
    <3>1. CASE TrainStep
        BY <3>1 DEF TrainStep, TypedInv, Basics
    <3>2. CASE StartWriting
        BY <3>2 DEF StartWriting, TypedInv, Basics
    <3>3. CASE AllShardsWritten
        BY <3>3 DEF AllShardsWritten, TypedInv, Basics
    <3>4. CASE RoleSaved
        BY <3>4 DEF RoleSaved, TypedInv, Basics
    <3>5. CASE OpenTracker \/ WriteTracker
        BY <3>5 DEF OpenTracker, WriteTracker, TypedInv, Basics
    <3> QED
        BY <1>1, <3>1, <3>2, <3>3, <3>4, <3>5
  <2>2. OfRun(r)' = OfRun(r)
      BY <2>1, OfRunSame
  <2>3. OfRun(r) \subseteq Accounted(r)
      BY <2>1 DEF Retained
  <2>4. OfRun(r)' \subseteq Accounted(r)'
      BY <2>1, <2>2, <2>3 DEF Accounted
  <2> QED
      BY <2>1, <2>2, <2>4 DEF Retained
<1>2. CASE EnsureCapacity
  <2> DEFINE q == saved[role]
             n == CapacityExcess(q, Keep[role])
  <2>1a. q \in Seq(Steps) /\ Len(q) \in Nat
      BY <1>0
  <2>1. q \in Seq(Steps) /\ n \in 0..Len(q) /\ Len(q) \in Nat
      BY <1>0, <2>1a, RemovalCounts
  <2>2. r = role /\ Len(q) <= Keep[r] => Len(q) - n < Keep[r]
      BY <1>0 DEF CapacityExcess
  <2>3. /\ doomed' = Oldest(q, n) /\ saved' = [saved EXCEPT ![role] = Newest(q, n)]
        /\ phase = "capacity" /\ phase' = "evict" /\ doomed = {}
        /\ UNCHANGED <<disk, tracker, run, step, role, todo, strayed>>
      BY <1>2 DEF EnsureCapacity, TypedInv, Basics
  <2> HIDE DEF n
  <2>4. OfRun(r)' = OfRun(r) /\ OfRun(r) \subseteq Listed(saved[r])
      BY <2>3, OfRunSame DEF Retained, Accounted
  <2>5. CASE r # role
    <3>1. saved'[r] = saved[r]
        BY <1>0, <2>3, <2>5
    <3> QED
        BY <2>3, <2>4, <2>5, <3>1 DEF Retained, Accounted
  <2>6. CASE r = role
    <3>1. saved'[r] = Newest(q, n) /\ Len(saved'[r]) = Len(q) - n
        BY <1>0, <2>1, <2>3, <2>6, NewestFacts
    <3>2. Listed(q) = Oldest(q, n) \cup Listed(Newest(q, n))
        BY <2>1, ListedParts
    <3>3. OfRun(r)' \subseteq Accounted(r)'
        BY <2>3, <2>4, <2>6, <3>1, <3>2 DEF Accounted
    <3>4. Len(saved'[r]) < Keep[r]
        BY <2>2, <2>6, <3>1 DEF Retained
    <3>5. Len(saved'[r]) <= Keep[r]
        BY <1>0, <2>1, <3>1, <3>4
    <3> QED
        BY <2>3, <2>4, <3>3, <3>4, <3>5 DEF Retained
  <2> QED
      BY <2>5, <2>6
<1>3. ASSUME NEW s \in Steps, NEW rank \in Ranks, Unlink(s, rank) PROVE Retained(r)'
  <2>1. /\ UNCHANGED <<run, role, saved, phase, step, doomed>>
        /\ <<role, rank>> \in Pieces /\ Put(s, <<role, rank>>, Absent)
      BY <1>0, <1>3 DEF Unlink, Pieces
  <2>2. \A t \in Steps, p \in Pieces : disk'[t][p] = IF t = s /\ p = <<role, rank>> THEN Absent ELSE disk[t][p]
      BY <2>1, PutTyped
  <2>3. Absent # run'
      BY <1>0, <2>1 DEF Absent
  <2>4. OfRun(r)' \subseteq OfRun(r)
      BY <2>1, <2>2, <2>3 DEF OfRun, Pieces
  <2> QED
      BY <2>1, <2>4, RetainedByRemoval
<1>4. ASSUME NEW s \in Steps, Removed(s) PROVE Retained(r)'
  <2>1. /\ UNCHANGED <<disk, run, role, saved, phase, step>> /\ doomed' = doomed \ {s}
        /\ \A rank \in Ranks : disk[s][<<role, rank>>] = Absent
      BY <1>4 DEF Removed
  <2>2. OfRun(r)' = OfRun(r)
      BY <2>1, OfRunSame
  <2>2a. run # Absent
      BY <1>0 DEF Absent
  <2>3. r = role => s \notin OfRun(r)
      BY <2>1, <2>2a DEF OfRun
  <2>4. CASE r = role
      BY <2>1, <2>2, <2>3, <2>4, RetainedByRemoval
  <2>5. CASE r # role
      BY <2>1, <2>2, <2>5 DEF Retained, Accounted
  <2> QED
      BY <2>4, <2>5
<1>5. ASSUME NEW rank \in Ranks, BeginShard(rank) PROVE Retained(r)'
  <2>1. /\ UNCHANGED <<run, role, saved, phase, step, doomed>> /\ step \in Steps
        /\ <<role, rank>> \in Pieces /\ Put(step, <<role, rank>>, Torn)
      BY <1>0, <1>5 DEF BeginShard, Pieces, TypedInv, Basics, SavePhases
  <2>2. \A t \in Steps, p \in Pieces : disk'[t][p] = IF t = step /\ p = <<role, rank>> THEN Torn ELSE disk[t][p]
      BY <2>1, PutTyped
  <2>3. Torn # run'
      BY <1>0, <2>1 DEF Torn
  <2>4. OfRun(r)' \subseteq OfRun(r)
      BY <2>1, <2>2, <2>3 DEF OfRun, Pieces
  <2> QED
      BY <2>1, <2>4, RetainedByRemoval
<1>6. ASSUME NEW rank \in Ranks, EndShard(rank) PROVE Retained(r)'
  <2>1. /\ UNCHANGED <<run, role, saved, phase, step, doomed>> /\ step \in Steps /\ phase = "write"
        /\ <<role, rank>> \in Pieces /\ Put(step, <<role, rank>>, run) /\ doomed = {}
      BY <1>0, <1>6 DEF EndShard, Pieces, TypedInv, Basics, SavePhases
  <2>2. \A t \in Steps, p \in Pieces : disk'[t][p] = IF t = step /\ p = <<role, rank>> THEN run ELSE disk[t][p]
      BY <2>1, PutTyped
  <2>3. CASE r # role
    <3>1. OfRun(r)' \subseteq OfRun(r)
        BY <2>1, <2>2, <2>3 DEF OfRun, Pieces
    <3> QED
        BY <2>1, <3>1, RetainedByRemoval
  <2>4. CASE r = role
    <3>1. OfRun(r)' \subseteq OfRun(r) \cup {step}
        BY <2>1, <2>2 DEF OfRun, Pieces
    <3>2. OfRun(r) \subseteq Listed(saved[r]) \cup {step}
        BY <2>1 DEF Retained, Accounted
    <3>3. OfRun(r)' \subseteq Accounted(r)'
        BY <2>1, <2>4, <3>1, <3>2 DEF Accounted
    <3> DEFINE S == OfRun(r)' \ {step}
    <3>4. S \subseteq Listed(saved[r]) /\ OfRun(r)' \subseteq S \cup {step}
        BY <3>1, <3>2
    <3>5. IsFiniteSet(S \cup {step}) /\ Cardinality(S \cup {step}) <= Len(saved[r]) + 1
        BY <1>0, <3>4, ListedCount
    <3>6. Cardinality(OfRun(r)') <= Cardinality(S \cup {step}) /\ IsFiniteSet(OfRun(r)')
        BY <3>4, <3>5, FS_Subset
    <3>7. Cardinality(OfRun(r)') \in Nat /\ Cardinality(S \cup {step}) \in Nat
        BY <3>5, <3>6, FS_CardinalityType
    <3>8. Len(saved[r]) < Keep[r]
        BY <2>1, <2>4 DEF Retained
    <3> HIDE DEF S
    <3>9. Cardinality(OfRun(r)') <= Keep[r]
        BY <1>0, <3>5, <3>6, <3>7, <3>8
    <3> QED
        BY <2>1, <3>3, <3>9 DEF Retained
  <2> QED
      BY <2>3, <2>4
<1>7. CASE RegisterCheckpoint
  <2> DEFINE old == saved[role]
             q == Append(old, step)
             n == RegisterExcess(q, Keep[role])
  <2>1. step \in Steps /\ phase = "register" /\ doomed = {}
      BY <1>7 DEF RegisterCheckpoint, TypedInv, Basics, SavePhases
  <2>2. old \in Seq(Steps) /\ q \in Seq(Steps) /\ Len(q) = Len(old) + 1 /\ Len(old) \in Nat
      BY <1>0, <2>1
  <2>3. n \in 0..Len(q)
      BY <1>0, <2>2, RemovalCounts
  <2>4. /\ doomed' = Oldest(q, n) /\ saved' = [saved EXCEPT ![role] = Newest(q, n)]
        /\ phase' = "rotate"
        /\ UNCHANGED <<disk, tracker, run, step, role, todo, strayed>>
      BY <1>7 DEF RegisterCheckpoint
  <2>5. OfRun(r)' = OfRun(r)
      BY <2>4, OfRunSame
  <2>6. CASE r # role
    <3>1. saved'[r] = saved[r]
        BY <1>0, <2>4, <2>6
    <3> QED
        BY <2>1, <2>4, <2>5, <2>6, <3>1 DEF Retained, Accounted
  <2>7. CASE r = role
    <3>1. Len(old) < Keep[r]
        BY <2>1, <2>7 DEF Retained
    <3>2. n = 0
        BY <1>0, <2>2, <2>7, <3>1 DEF RegisterExcess
    <3> HIDE DEF n
    <3>3a. Listed(q) = Oldest(q, n) \cup Listed(Newest(q, n))
        BY <2>2, <2>3, ListedParts
    <3>3b. Len(Newest(q, n)) = Len(q) - n
        BY <2>2, <2>3, NewestFacts
    <3>3. Len(Newest(q, n)) = Len(old) + 1 /\ Listed(q) = Oldest(q, n) \cup Listed(Newest(q, n))
        BY <2>2, <3>2, <3>3a, <3>3b
    <3>4. Listed(q) = Listed(old) \cup {step}
        BY <2>1, <2>2, ListedAppend
    <3>5. saved'[r] = Newest(q, n)
        BY <1>0, <2>4, <2>7
    <3>6. OfRun(r) \subseteq Listed(old) \cup {step}
        BY <2>1, <2>7 DEF Retained, Accounted
    <3>7. OfRun(r)' \subseteq Accounted(r)'
        BY <2>4, <2>5, <2>7, <3>3, <3>4, <3>5, <3>6 DEF Accounted
    <3>8. Len(saved'[r]) <= Keep[r]
        BY <1>0, <2>2, <3>1, <3>3, <3>5
    <3> QED
        BY <2>4, <2>5, <3>7, <3>8 DEF Retained
  <2> QED
      BY <2>6, <2>7
<1>8. CASE BeginData \/ EndData
  <2>1. /\ UNCHANGED <<run, role, saved, step, doomed>> /\ step \in Steps /\ Data \in Pieces
        /\ phase = "data" /\ phase' \in {"data", "track"}
      BY <1>8 DEF BeginData, EndData, Pieces, TypedInv, Basics, SavePhases
  <2>2. PICK c \in {Absent, Torn, run} : Put(step, Data, c)
      BY <1>8 DEF BeginData, EndData
  <2>3. \A t \in Steps, p \in Pieces : disk'[t][p] = IF t = step /\ p = Data THEN c ELSE disk[t][p]
      BY <2>1, <2>2, PutTyped
  <2>4. \A rank \in Ranks : <<r, rank>> \in Pieces /\ <<r, rank>> # Data
      BY DEF Pieces, Roles, Data
  <2>5. OfRun(r)' = OfRun(r)
      BY <2>1, <2>3, <2>4 DEF OfRun
  <2> QED
      BY <2>1, <2>5 DEF Retained, Accounted
<1>9. CASE Crash
  <2>1. UNCHANGED <<disk, run>> /\ phase' = "down" /\ saved'[r] = << >>
      BY <1>9 DEF Crash
  <2> QED
      BY <1>0, <2>1, OfRunSame DEF Retained
<1>10. CASE Restart
  <2>1. run' = run + 1 /\ UNCHANGED <<disk, saved>> /\ phase' \in {"train", "failed"}
      BY <1>10 DEF Restart, StartAt
  <2>2. \A s \in Steps, p \in Pieces : disk[s][p] \in Int /\ disk[s][p] <= run
      BY <1>0 DEF TypedInv, Basics, Content, Absent, Torn
  <2>3. \A rank \in Ranks : <<r, rank>> \in Pieces
      BY DEF Pieces
  <2>4a. ASSUME NEW s \in Steps, NEW rank \in Ranks, disk'[s][<<r, rank>>] = run' PROVE FALSE
    <3>1. disk[s][<<r, rank>>] \in Int /\ disk[s][<<r, rank>>] <= run /\ run \in Int
        BY <1>0, <2>2, <2>3
    <3> QED
        BY <2>1, <2>4a, <3>1
  <2>4. OfRun(r)' = {}
      BY <2>4a DEF OfRun
  <2>5. Cardinality(OfRun(r)') = 0
      BY <2>4, FS_EmptySet
  <2> QED
      BY <1>0, <2>1, <2>4, <2>5 DEF Retained
<1>11. CASE UNCHANGED vars
    BY <1>11 DEF vars, Retained, Accounted, OfRun
<1> QED
    BY <1>1, <1>2, <1>3, <1>4, <1>5, <1>6, <1>7, <1>8, <1>9, <1>10, <1>11 DEF Next, Saving, Idle

(* One run of the job never holds more checkpoints of a role than its limit *)
(* of 2 or more, not even while it saves: for any number of ranks, steps,   *)
(* crashes and ways to resume.                                              *)
THEOREM RetentionHolds == Spec => []RetentionWithinRun
<1> DEFINE Inv == TypedInv /\ \A r \in Roles : Keep[r] > 1 => Retained(r)
<1>1. Init => Inv
  <2> SUFFICES ASSUME Init, NEW r \in Roles, Keep[r] > 1 PROVE Retained(r)
      BY TypedInit
  <2>0. \A rank \in Ranks : <<r, rank>> \in Pieces
      BY DEF Pieces
  <2>1a. ASSUME NEW s \in Steps, NEW rank \in Ranks, disk[s][<<r, rank>>] = run PROVE FALSE
    <3>1. disk = [t \in Steps |-> [p \in Pieces |-> Absent]] /\ run = 1
        BY DEF Init
    <3>2. disk[s][<<r, rank>>] = Absent
        BY <2>0, <3>1
    <3> QED
        BY <2>1a, <3>1, <3>2 DEF Absent
  <2>1. OfRun(r) = {}
      BY <2>1a DEF OfRun
  <2>2. Cardinality(OfRun(r)) = 0
      BY <2>1, FS_EmptySet
  <2>3. Keep[r] \in Nat /\ saved[r] = << >> /\ phase = "train"
      BY ConstantsAssumption DEF Keep, Init
  <2> QED
      BY <2>1, <2>2, <2>3 DEF Retained
<1>2. Inv /\ [Next]_vars => Inv'
    BY TypedStep, RetainedStep
<1>3. Inv => RetentionWithinRun
    BY DEF RetentionWithinRun, Retained, OfRun
<1> HIDE DEF Inv
<1> QED
    BY <1>1, <1>2, <1>3, PTL DEF Spec

-----------------------------------------------------------------------------
(***************************************************************************)
(* The training cycle.  First the driver's stack: how labels are pushed.   *)
(***************************************************************************)
LEMMA Joined ==
    ASSUME NEW S, NEW s \in Seq(S), NEW t \in Seq(S), NEW u \in Seq(S),
           Len(u) = Len(s) + Len(t),
           \A n \in 1..Len(s) : u[n] = s[n],
           \A n \in 1..Len(t) : u[Len(s) + n] = t[n]
    PROVE  s \o t = u
<1> DEFINE v == s \o t
<1>1. /\ v \in Seq(S) /\ Len(v) = Len(s) + Len(t)
      /\ \A n \in 1..Len(s) + Len(t) : v[n] = IF n <= Len(s) THEN s[n] ELSE t[n - Len(s)]
    BY ConcatProperties, Zenon
<1> HIDE DEF v
<1>2. Len(s) \in Nat /\ Len(t) \in Nat
    OBVIOUS
<1>3. ASSUME NEW n \in 1..Len(v) PROVE v[n] = u[n]
  <2>1. v[n] = IF n <= Len(s) THEN s[n] ELSE t[n - Len(s)]
      BY <1>1
  <2>2. CASE n <= Len(s)
      BY <1>2, <2>1, <2>2
  <2>3. CASE n > Len(s)
    <3> DEFINE k == n - Len(s)
    <3>1. k \in 1..Len(t) /\ n = Len(s) + k /\ ~(n <= Len(s))
        BY <1>1, <1>2, <2>3
    <3>2. u[Len(s) + k] = t[k]
        BY <3>1
    <3> QED
        BY <2>1, <3>1, <3>2
  <2> QED
      BY <1>1, <1>2, <2>2, <2>3
<1> QED
    BY <1>1, <1>3, SeqEqual DEF v

LEMMA Join11 == ASSUME NEW a, NEW b
                PROVE  <<a>> \o <<b>> = <<a, b>>
<1> DEFINE S == {a, b}
           s == <<a>>
           t == <<b>>
           u == <<a, b>>
<1>1. s \in Seq(S) /\ t \in Seq(S) /\ u \in Seq(S) /\ Len(u) = Len(s) + Len(t)
    OBVIOUS
<1>2. \A n \in 1..Len(s) : u[n] = s[n]
    OBVIOUS
<1>3. \A n \in 1..Len(t) : u[Len(s) + n] = t[n]
    OBVIOUS
<1> HIDE DEF S, s, t, u
<1>4. s \o t = u
    BY <1>1, <1>2, <1>3, Joined, Zenon
<1> QED
    BY <1>4 DEF s, t, u

LEMMA Join21 == ASSUME NEW a, NEW b, NEW c
                PROVE  <<a, b>> \o <<c>> = <<a, b, c>>
<1> DEFINE S == {a, b, c}
           s == <<a, b>>
           t == <<c>>
           u == <<a, b, c>>
<1>1. s \in Seq(S) /\ t \in Seq(S) /\ u \in Seq(S) /\ Len(u) = Len(s) + Len(t)
    OBVIOUS
<1>2. \A n \in 1..Len(s) : u[n] = s[n]
    OBVIOUS
<1>3. \A n \in 1..Len(t) : u[Len(s) + n] = t[n]
    OBVIOUS
<1> HIDE DEF S, s, t, u
<1>4. s \o t = u
    BY <1>1, <1>2, <1>3, Joined, Zenon
<1> QED
    BY <1>4 DEF s, t, u

LEMMA Join13 == ASSUME NEW a, NEW b, NEW c, NEW d
                PROVE  <<a>> \o <<b, c, d>> = <<a, b, c, d>>
<1> DEFINE S == {a, b, c, d}
           s == <<a>>
           t == <<b, c, d>>
           u == <<a, b, c, d>>
<1>1. s \in Seq(S) /\ t \in Seq(S) /\ u \in Seq(S) /\ Len(u) = Len(s) + Len(t)
    OBVIOUS
<1>2. \A n \in 1..Len(s) : u[n] = s[n]
    OBVIOUS
<1>3. \A n \in 1..Len(t) : u[Len(s) + n] = t[n]
    OBVIOUS
<1> HIDE DEF S, s, t, u
<1>4. s \o t = u
    BY <1>1, <1>2, <1>3, Joined, Zenon
<1> QED
    BY <1>4 DEF s, t, u

LEMMA Join41 == ASSUME NEW a, NEW b, NEW c, NEW d, NEW e
                PROVE  <<a, b, c, d>> \o <<e>> = <<a, b, c, d, e>>
<1> DEFINE S == {a, b, c, d, e}
           s == <<a, b, c, d>>
           t == <<e>>
           u == <<a, b, c, d, e>>
<1>1. s \in Seq(S) /\ t \in Seq(S) /\ u \in Seq(S) /\ Len(u) = Len(s) + Len(t)
    OBVIOUS
<1>2. \A n \in 1..Len(s) : u[n] = s[n]
    OBVIOUS
<1>3. \A n \in 1..Len(t) : u[Len(s) + n] = t[n]
    OBVIOUS
<1> HIDE DEF S, s, t, u
<1>4. s \o t = u
    BY <1>1, <1>2, <1>3, Joined, Zenon
<1> QED
    BY <1>4 DEF s, t, u

LEMMA Join51 == ASSUME NEW a, NEW b, NEW c, NEW d, NEW e, NEW f
                PROVE  <<a, b, c, d, e>> \o <<f>> = <<a, b, c, d, e, f>>
<1> DEFINE S == {a, b, c, d, e, f}
           s == <<a, b, c, d, e>>
           t == <<f>>
           u == <<a, b, c, d, e, f>>
<1>1. s \in Seq(S) /\ t \in Seq(S) /\ u \in Seq(S) /\ Len(u) = Len(s) + Len(t)
    OBVIOUS
<1>2. \A n \in 1..Len(s) : u[n] = s[n]
    OBVIOUS
<1>3. \A n \in 1..Len(t) : u[Len(s) + n] = t[n]
    OBVIOUS
<1> HIDE DEF S, s, t, u
<1>4. s \o t = u
    BY <1>1, <1>2, <1>3, Joined, Zenon
<1> QED
    BY <1>4 DEF s, t, u

LEMMA Join22 == ASSUME NEW a, NEW b, NEW c, NEW d
                PROVE  <<a, b>> \o <<c, d>> = <<a, b, c, d>>
<1> DEFINE S == {a, b, c, d}
           s == <<a, b>>
           t == <<c, d>>
           u == <<a, b, c, d>>
<1>1. s \in Seq(S) /\ t \in Seq(S) /\ u \in Seq(S) /\ Len(u) = Len(s) + Len(t)
    OBVIOUS
<1>2. \A n \in 1..Len(s) : u[n] = s[n]
    OBVIOUS
<1>3. \A n \in 1..Len(t) : u[Len(s) + n] = t[n]
    OBVIOUS
<1> HIDE DEF S, s, t, u
<1>4. s \o t = u
    BY <1>1, <1>2, <1>3, Joined, Zenon
<1> QED
    BY <1>4 DEF s, t, u

LEMMA StepJoined ==
    <<"generate", "sleep">> \o <<"siop", "reward", "train", "finish">>
          = <<"generate", "sleep", "siop", "reward", "train", "finish">>
<1> DEFINE S == {"generate", "sleep", "siop", "reward", "train", "finish"}
           s == <<"generate", "sleep">>
           t == <<"siop", "reward", "train", "finish">>
           u == <<"generate", "sleep", "siop", "reward", "train", "finish">>
<1>1. s \in Seq(S) /\ t \in Seq(S) /\ u \in Seq(S) /\ Len(u) = Len(s) + Len(t)
    OBVIOUS
<1>2. \A n \in 1..Len(s) : u[n] = s[n]
    OBVIOUS
<1>3. \A n \in 1..Len(t) : u[Len(s) + n] = t[n]
    OBVIOUS
<1> HIDE DEF S, s, t, u
<1>4. s \o t = u
    BY <1>1, <1>2, <1>3, Joined, Zenon
<1> QED
    BY <1>4 DEF s, t, u

LEMMA BaselineJoined ==
    <<"generate", "sleep", "other", "sleep">> \o <<"siop", "reward", "train", "finish">>
          = <<"generate", "sleep", "other", "sleep", "siop", "reward", "train", "finish">>
<1> DEFINE S == {"generate", "sleep", "other", "sleep", "siop", "reward", "train", "finish"}
           s == <<"generate", "sleep", "other", "sleep">>
           t == <<"siop", "reward", "train", "finish">>
           u == <<"generate", "sleep", "other", "sleep", "siop", "reward", "train", "finish">>
<1>1. s \in Seq(S) /\ t \in Seq(S) /\ u \in Seq(S) /\ Len(u) = Len(s) + Len(t)
    OBVIOUS
<1>2. \A n \in 1..Len(s) : u[n] = s[n]
    OBVIOUS
<1>3. \A n \in 1..Len(t) : u[Len(s) + n] = t[n]
    OBVIOUS
<1> HIDE DEF S, s, t, u
<1>4. s \o t = u
    BY <1>1, <1>2, <1>3, Joined, Zenon
<1> QED
    BY <1>4 DEF s, t, u

LEMMA Join23 == ASSUME NEW a, NEW b, NEW c, NEW d, NEW e
                PROVE  <<a, b>> \o <<c, d, e>> = <<a, b, c, d, e>>
<1> DEFINE S == {a, b, c, d, e}
           s == <<a, b>>
           t == <<c, d, e>>
           u == <<a, b, c, d, e>>
<1>1. s \in Seq(S) /\ t \in Seq(S) /\ u \in Seq(S) /\ Len(u) = Len(s) + Len(t)
    OBVIOUS
<1>2. \A n \in 1..Len(s) : u[n] = s[n]
    OBVIOUS
<1>3. \A n \in 1..Len(t) : u[Len(s) + n] = t[n]
    OBVIOUS
<1> HIDE DEF S, s, t, u
<1>4. s \o t = u
    BY <1>1, <1>2, <1>3, Joined, Zenon
<1> QED
    BY <1>4 DEF s, t, u

LEMMA ScoredBaselineJoined ==
    <<"generate", "sleep", "other", "sleep", "baseline">> \o <<"siop", "reward", "train", "finish">>
          = <<"generate", "sleep", "other", "sleep", "baseline", "siop", "reward", "train", "finish">>
<1> DEFINE S == {"generate", "sleep", "other", "sleep", "baseline", "siop", "reward", "train", "finish"}
           s == <<"generate", "sleep", "other", "sleep", "baseline">>
           t == <<"siop", "reward", "train", "finish">>
           u == <<"generate", "sleep", "other", "sleep", "baseline", "siop", "reward", "train", "finish">>
<1>1. s \in Seq(S) /\ t \in Seq(S) /\ u \in Seq(S) /\ Len(u) = Len(s) + Len(t)
    OBVIOUS
<1>2. \A n \in 1..Len(s) : u[n] = s[n]
    OBVIOUS
<1>3. \A n \in 1..Len(t) : u[Len(s) + n] = t[n]
    OBVIOUS
<1> HIDE DEF S, s, t, u
<1>4. s \o t = u
    BY <1>1, <1>2, <1>3, Joined, Zenon
<1> QED
    BY <1>4 DEF s, t, u

(***************************************************************************)
(* What the driver's stack may be: a label with what is left to do after   *)
(* it.                                                                     *)
(***************************************************************************)
Learn == <<"siop", "reward", "train", "finish">>

Plain(l, t) ==
    \/ l \in {"load", "prologue", "next", "finish", "done"} /\ t = <<>>
    \/ l = "sleep" /\ t = <<"load">>
    \/ l = "update" /\ t = <<"prologue">>
    \/ l = "update" /\ t = <<"finish">>
    \/ l = "save" /\ t = <<"update", "finish">>

OfStep(l, t) ==
    \/ l = "generate" /\ t = <<"sleep", "siop", "reward", "train", "finish">>
    \/ l = "sleep" /\ t = Learn
    \/ l = "siop" /\ t = <<"reward", "train", "finish">>
    \/ l = "reward" /\ t = <<"train", "finish">>
    \/ l = "train" /\ t = <<"finish">>

OfBaseline(l, t) ==
    \/ /\ l = "generate"
       /\ t = <<"sleep", "other", "sleep", "siop", "reward", "train", "finish">>
    \/ /\ l = "sleep"
       /\ t = <<"other", "sleep", "siop", "reward", "train", "finish">>
    \/ /\ l = "other"
       /\ t = <<"sleep", "siop", "reward", "train", "finish">>
    \/ /\ l = "generate"
       /\ t = <<"sleep", "other", "sleep", "baseline", "siop", "reward", "train", "finish">>
    \/ /\ l = "sleep"
       /\ t = <<"other", "sleep", "baseline", "siop", "reward", "train", "finish">>
    \/ /\ l = "other"
       /\ t = <<"sleep", "baseline", "siop", "reward", "train", "finish">>
    \/ l = "sleep" /\ t = <<"baseline", "siop", "reward", "train", "finish">>
    \/ l = "baseline" /\ t = Learn

(* A validation, with what comes after its last batch.                      *)
Validating(l, t, e) ==
    \/ l = "validate" /\ t = <<e>>
    \/ l = "other" /\ t = <<"sleep", "score", "update", e>>
    \/ l = "other" /\ t = <<"sleep", "score", "update", "validate", e>>
    \/ l = "other" /\ t = <<e>>
    \/ l = "other" /\ t = <<"validate", e>>
    \/ l = "sleep" /\ t = <<"score", "update", e>>
    \/ l = "sleep" /\ t = <<"score", "update", "validate", e>>
    \/ l = "score" /\ t = <<"update", e>>
    \/ l = "score" /\ t = <<"update", "validate", e>>
    \/ l = "update" /\ t = <<e>>
    \/ l = "update" /\ t = <<"validate", e>>

OfValidation(l, t) == \E e \in {"next", "done"} : Validating(l, t, e)

Program(l, t) ==
    \/ Plain(l, t) \/ OfStep(l, t) \/ OfValidation(l, t)
    \/ config.remax /\ OfBaseline(l, t)

Runs(s) == s # <<>> /\ Program(Head(s), Tail(s))

(* The rollouts of the step are in the batch and the actor has not learnt   *)
(* from them.                                                               *)
Learning(l, t) ==
    \/ l \in {"siop", "reward", "train"}
    \/ l = "sleep" /\ Head(t) = "siop"

(* What may come after a label that leaves the rest of the stack as it is.  *)
Follows(l, t) ==
    \/ l = "sleep" /\ Head(t) = "load"
    \/ l = "sleep" /\ Head(t) = "siop"
    \/ l = "sleep" /\ Head(t) = "score"
    \/ config.remax /\ l = "sleep" /\ Head(t) \in {"other", "baseline"}
    \/ config.remax /\ l = "baseline" /\ Head(t) = "siop"
    \/ l = "update" /\ Head(t) \in {"prologue", "finish", "next", "done", "validate"}
    \/ l = "other" /\ Head(t) \in {"next", "done", "validate"}
    \/ l = "other" /\ Head(t) = "sleep" /\ (config.remax \/ ~Learning(Head(t), Tail(t)))
    \/ l = "generate" /\ Head(t) = "sleep" /\ (config.remax \/ Learning(Head(t), Tail(t)))
    \/ l = "siop" /\ Head(t) = "reward"
    \/ l = "reward" /\ Head(t) = "train"
    \/ l = "save" /\ Head(t) = "update"
    \/ l = "score" /\ Head(t) = "update"
Popping == {"sleep", "update", "generate", "other", "baseline", "siop", "reward", "save", "score"}

CycleTypes ==
    /\ config \in Configs
    /\ Runs(stack)
    /\ awaited \subseteq Replicas
    /\ globalSteps \in 0..TotalSteps /\ newest \in 0..TotalSteps /\ actor \in 0..TotalSteps
    /\ engine \in [Replicas -> [weights: Int, mapped: SUBSET Awake, cached: SUBSET Int, tag: Int]]
    /\ batch \in [by: SUBSET Int, tags: SUBSET Int, siop: BOOLEAN,
                  rewards: {"none", "baseline", "streamed", "with", "without"}]
(* Nobody else's memory is mapped when somebody works on the GPUs.          *)
Freed(e) == config.freeCache => e.mapped = {}
GpusFreed ==
    /\ At("sleep") => \A r \in Replicas \ awaited : Freed(engine[r])
    /\ At("load") \/ At("baseline") \/ At("siop") \/ At("reward") \/ At("train") \/ At("score") =>
           \A r \in Replicas : Freed(engine[r])

CycleInv == CycleTypes /\ GpusFreed

(* Between an update and the next sleep every replica has the weights of    *)
(* the actor; the actor is that of the step but for the step itself; the    *)
(* batch of a step is made with these weights.                              *)
Busy == Learning(Head(stack), Tail(stack))
Prepared(e) ==
    /\ e.mapped = Awake /\ e.weights = actor /\ e.cached \subseteq {actor}
    /\ ~config.legacy => e.tag = actor
Serving ==
    \/ At("generate") \/ At("other") \/ At("prologue") \/ At("next") \/ At("validate")
    \/ At("finish")
Preparing ==
    /\ At("update") => \A r \in Replicas \ awaited : Prepared(engine[r])
    /\ Serving => \A r \in Replicas : Prepared(engine[r])
Current ==
    /\ At("generate") \/ Busy => globalSteps >= 1
    /\ ~At("generate") /\ ~Busy => actor = globalSteps
MadeBy(weights) == batch.by = weights /\ (~config.legacy => batch.tags = weights)
Collected ==
    /\ At("generate") => MadeBy(IF awaited = Replicas THEN {} ELSE {actor})
    /\ Busy => MadeBy({actor})
PolicyInv == Preparing /\ Current /\ Collected

LEMMA PlainPops == ASSUME NEW l, NEW t, Plain(l, t), l \in Popping PROVE Runs(t) /\ Follows(l, t)
<1>1. CASE l = "sleep" /\ t = <<"load">>
  <2>1. t # <<>> /\ Head(t) = "load" /\ Tail(t) = <<>>
      BY <1>1
  <2>2. Plain("load", <<>>)
      BY DEF Plain
  <2> QED
      BY <1>1, <2>1, <2>2, Zenon DEF Runs, Program, Follows
<1>2. CASE l = "update" /\ t = <<"prologue">>
  <2>1. t # <<>> /\ Head(t) = "prologue" /\ Tail(t) = <<>>
      BY <1>2
  <2>2. Plain("prologue", <<>>)
      BY DEF Plain
  <2> QED
      BY <1>2, <2>1, <2>2, Zenon DEF Runs, Program, Follows
<1>3. CASE l = "update" /\ t = <<"finish">>
  <2>1. t # <<>> /\ Head(t) = "finish" /\ Tail(t) = <<>>
      BY <1>3
  <2>2. Plain("finish", <<>>)
      BY DEF Plain
  <2> QED
      BY <1>3, <2>1, <2>2, Zenon DEF Runs, Program, Follows
<1>4. CASE l = "save" /\ t = <<"update", "finish">>
  <2>1. t # <<>> /\ Head(t) = "update" /\ Tail(t) = <<"finish">>
      BY <1>4
  <2>2. Plain("update", <<"finish">>)
      BY DEF Plain
  <2> QED
      BY <1>4, <2>1, <2>2, Zenon DEF Runs, Program, Follows
<1> QED
    BY <1>1, <1>2, <1>3, <1>4 DEF Plain, Popping

LEMMA OfStepPops == ASSUME NEW l, NEW t, OfStep(l, t), l \in Popping PROVE Runs(t) /\ Follows(l, t)
<1>1. CASE l = "generate" /\ t = <<"sleep", "siop", "reward", "train", "finish">>
  <2>1. t # <<>> /\ Head(t) = "sleep" /\ Tail(t) = <<"siop", "reward", "train", "finish">>
      BY <1>1
  <2>2. OfStep("sleep", <<"siop", "reward", "train", "finish">>)
      BY DEF OfStep, Learn
  <2>3. Learning("sleep", <<"siop", "reward", "train", "finish">>)
      BY DEF Learning
  <2> QED
      BY <1>1, <2>1, <2>2, <2>3, Zenon DEF Runs, Program, Follows
<1>2. CASE l = "sleep" /\ t = Learn
  <2>1. t # <<>> /\ Head(t) = "siop" /\ Tail(t) = <<"reward", "train", "finish">>
      BY <1>2 DEF Learn
  <2>2. OfStep("siop", <<"reward", "train", "finish">>)
      BY DEF OfStep
  <2> QED
      BY <1>2, <2>1, <2>2, Zenon DEF Runs, Program, Follows
<1>3. CASE l = "siop" /\ t = <<"reward", "train", "finish">>
  <2>1. t # <<>> /\ Head(t) = "reward" /\ Tail(t) = <<"train", "finish">>
      BY <1>3
  <2>2. OfStep("reward", <<"train", "finish">>)
      BY DEF OfStep
  <2> QED
      BY <1>3, <2>1, <2>2, Zenon DEF Runs, Program, Follows
<1>4. CASE l = "reward" /\ t = <<"train", "finish">>
  <2>1. t # <<>> /\ Head(t) = "train" /\ Tail(t) = <<"finish">>
      BY <1>4
  <2>2. OfStep("train", <<"finish">>)
      BY DEF OfStep
  <2> QED
      BY <1>4, <2>1, <2>2, Zenon DEF Runs, Program, Follows
<1> QED
    BY <1>1, <1>2, <1>3, <1>4 DEF OfStep, Popping

LEMMA OfBaselinePops == ASSUME NEW l, NEW t, OfBaseline(l, t), l \in Popping, config.remax
    PROVE  Runs(t) /\ Follows(l, t)
<1>1. CASE l = "generate" /\ t = <<"sleep", "other", "sleep", "siop", "reward", "train", "finish">>
  <2>1. /\ t # <<>>
        /\ Head(t) = "sleep"
        /\ Tail(t) = <<"other", "sleep", "siop", "reward", "train", "finish">>
      BY <1>1
  <2>2. OfBaseline("sleep", <<"other", "sleep", "siop", "reward", "train", "finish">>)
      BY DEF OfBaseline
  <2> QED
      BY <1>1, <2>1, <2>2, Zenon DEF Runs, Program, Follows
<1>2. CASE l = "sleep" /\ t = <<"other", "sleep", "siop", "reward", "train", "finish">>
  <2>1. t # <<>> /\ Head(t) = "other" /\ Tail(t) = <<"sleep", "siop", "reward", "train", "finish">>
      BY <1>2
  <2>2. OfBaseline("other", <<"sleep", "siop", "reward", "train", "finish">>)
      BY DEF OfBaseline
  <2> QED
      BY <1>2, <2>1, <2>2, Zenon DEF Runs, Program, Follows
<1>3. CASE l = "other" /\ t = <<"sleep", "siop", "reward", "train", "finish">>
  <2>1. t # <<>> /\ Head(t) = "sleep" /\ Tail(t) = <<"siop", "reward", "train", "finish">>
      BY <1>3
  <2>2. OfStep("sleep", <<"siop", "reward", "train", "finish">>)
      BY DEF OfStep, Learn
  <2> QED
      BY <1>3, <2>1, <2>2, Zenon DEF Runs, Program, Follows
<1>4. CASE /\ l = "generate"
           /\ t = <<"sleep", "other", "sleep", "baseline", "siop", "reward", "train", "finish">>
  <2>1. /\ t # <<>>
        /\ Head(t) = "sleep"
        /\ Tail(t) = <<"other", "sleep", "baseline", "siop", "reward", "train", "finish">>
      BY <1>4
  <2>2. OfBaseline("sleep", <<"other", "sleep", "baseline", "siop", "reward", "train", "finish">>)
      BY DEF OfBaseline
  <2> QED
      BY <1>4, <2>1, <2>2, Zenon DEF Runs, Program, Follows
<1>5. CASE l = "sleep" /\ t = <<"other", "sleep", "baseline", "siop", "reward", "train", "finish">>
  <2>1. /\ t # <<>>
        /\ Head(t) = "other"
        /\ Tail(t) = <<"sleep", "baseline", "siop", "reward", "train", "finish">>
      BY <1>5
  <2>2. OfBaseline("other", <<"sleep", "baseline", "siop", "reward", "train", "finish">>)
      BY DEF OfBaseline
  <2> QED
      BY <1>5, <2>1, <2>2, Zenon DEF Runs, Program, Follows
<1>6. CASE l = "other" /\ t = <<"sleep", "baseline", "siop", "reward", "train", "finish">>
  <2>1. /\ t # <<>>
        /\ Head(t) = "sleep"
        /\ Tail(t) = <<"baseline", "siop", "reward", "train", "finish">>
      BY <1>6
  <2>2. OfBaseline("sleep", <<"baseline", "siop", "reward", "train", "finish">>)
      BY DEF OfBaseline
  <2> QED
      BY <1>6, <2>1, <2>2, Zenon DEF Runs, Program, Follows
<1>7. CASE l = "sleep" /\ t = <<"baseline", "siop", "reward", "train", "finish">>
  <2>1. t # <<>> /\ Head(t) = "baseline" /\ Tail(t) = <<"siop", "reward", "train", "finish">>
      BY <1>7
  <2>2. OfBaseline("baseline", <<"siop", "reward", "train", "finish">>)
      BY DEF OfBaseline, Learn
  <2> QED
      BY <1>7, <2>1, <2>2, Zenon DEF Runs, Program, Follows
<1>8. CASE l = "baseline" /\ t = <<"siop", "reward", "train", "finish">>
  <2>1. t # <<>> /\ Head(t) = "siop" /\ Tail(t) = <<"reward", "train", "finish">>
      BY <1>8
  <2>2. OfStep("siop", <<"reward", "train", "finish">>)
      BY DEF OfStep
  <2> QED
      BY <1>8, <2>1, <2>2, Zenon DEF Runs, Program, Follows
<1> QED
    BY <1>1, <1>2, <1>3, <1>4, <1>5, <1>6, <1>7, <1>8 DEF OfBaseline, Popping, Learn

LEMMA ValidatingPops ==
    ASSUME NEW l, NEW t, NEW e \in {"next", "done"}, Validating(l, t, e), l \in Popping
    PROVE  Runs(t) /\ Follows(l, t)
<1>1. CASE l = "other" /\ t = <<"sleep", "score", "update", e>>
  <2>1. t # <<>> /\ Head(t) = "sleep" /\ Tail(t) = <<"score", "update", e>>
      BY <1>1
  <2>2. Validating("sleep", <<"score", "update", e>>, e)
      BY DEF Validating
  <2>3. ~Learning("sleep", <<"score", "update", e>>)
      BY DEF Learning
  <2> QED
      BY <1>1, <2>1, <2>2, <2>3, Zenon DEF Runs, Program, OfValidation, Follows
<1>2. CASE l = "other" /\ t = <<"sleep", "score", "update", "validate", e>>
  <2>1. t # <<>> /\ Head(t) = "sleep" /\ Tail(t) = <<"score", "update", "validate", e>>
      BY <1>2
  <2>2. Validating("sleep", <<"score", "update", "validate", e>>, e)
      BY DEF Validating
  <2>3. ~Learning("sleep", <<"score", "update", "validate", e>>)
      BY DEF Learning
  <2> QED
      BY <1>2, <2>1, <2>2, <2>3, Zenon DEF Runs, Program, OfValidation, Follows
<1>3. CASE l = "other" /\ t = <<e>>
  <2>1. t # <<>> /\ Head(t) = e /\ Tail(t) = <<>>
      BY <1>3
  <2>2. Plain(e, <<>>)
      BY DEF Plain
  <2> QED
      BY <1>3, <2>1, <2>2, Zenon DEF Runs, Program, OfValidation, Follows
<1>4. CASE l = "other" /\ t = <<"validate", e>>
  <2>1. t # <<>> /\ Head(t) = "validate" /\ Tail(t) = <<e>>
      BY <1>4
  <2>2. Validating("validate", <<e>>, e)
      BY DEF Validating
  <2> QED
      BY <1>4, <2>1, <2>2, Zenon DEF Runs, Program, OfValidation, Follows
<1>5. CASE l = "sleep" /\ t = <<"score", "update", e>>
  <2>1. t # <<>> /\ Head(t) = "score" /\ Tail(t) = <<"update", e>>
      BY <1>5
  <2>2. Validating("score", <<"update", e>>, e)
      BY DEF Validating
  <2> QED
      BY <1>5, <2>1, <2>2, Zenon DEF Runs, Program, OfValidation, Follows
<1>6. CASE l = "sleep" /\ t = <<"score", "update", "validate", e>>
  <2>1. t # <<>> /\ Head(t) = "score" /\ Tail(t) = <<"update", "validate", e>>
      BY <1>6
  <2>2. Validating("score", <<"update", "validate", e>>, e)
      BY DEF Validating
  <2> QED
      BY <1>6, <2>1, <2>2, Zenon DEF Runs, Program, OfValidation, Follows
<1>7. CASE l = "score" /\ t = <<"update", e>>
  <2>1. t # <<>> /\ Head(t) = "update" /\ Tail(t) = <<e>>
      BY <1>7
  <2>2. Validating("update", <<e>>, e)
      BY DEF Validating
  <2> QED
      BY <1>7, <2>1, <2>2, Zenon DEF Runs, Program, OfValidation, Follows
<1>8. CASE l = "score" /\ t = <<"update", "validate", e>>
  <2>1. t # <<>> /\ Head(t) = "update" /\ Tail(t) = <<"validate", e>>
      BY <1>8
  <2>2. Validating("update", <<"validate", e>>, e)
      BY DEF Validating
  <2> QED
      BY <1>8, <2>1, <2>2, Zenon DEF Runs, Program, OfValidation, Follows
<1>9. CASE l = "update" /\ t = <<e>>
  <2>1. t # <<>> /\ Head(t) = e /\ Tail(t) = <<>>
      BY <1>9
  <2>2. Plain(e, <<>>)
      BY DEF Plain
  <2> QED
      BY <1>9, <2>1, <2>2, Zenon DEF Runs, Program, OfValidation, Follows
<1>10. CASE l = "update" /\ t = <<"validate", e>>
  <2>1. t # <<>> /\ Head(t) = "validate" /\ Tail(t) = <<e>>
      BY <1>10
  <2>2. Validating("validate", <<e>>, e)
      BY DEF Validating
  <2> QED
      BY <1>10, <2>1, <2>2, Zenon DEF Runs, Program, OfValidation, Follows
<1> QED
    BY <1>1, <1>2, <1>3, <1>4, <1>5, <1>6, <1>7, <1>8, <1>9, <1>10 DEF Validating, Popping

LEMMA OfValidationPops == ASSUME NEW l, NEW t, OfValidation(l, t), l \in Popping
    PROVE  Runs(t) /\ Follows(l, t)
BY ValidatingPops, Zenon DEF OfValidation

LEMMA BootRuns ==
    /\ Runs(<<"update", "prologue">>) /\ Head(<<"update", "prologue">>) = "update"
    /\ Runs(<<"validate", "next">>) /\ Head(<<"validate", "next">>) = "validate"
    /\ Runs(<<"validate", "done">>) /\ Head(<<"validate", "done">>) = "validate"
    /\ Runs(<<"next">>) /\ Head(<<"next">>) = "next"
    /\ Runs(<<"done">>) /\ Head(<<"done">>) = "done"
<1>1. Runs(<<"update", "prologue">>) /\ Head(<<"update", "prologue">>) = "update"
  <2>1. /\ <<"update", "prologue">> # <<>>
        /\ Head(<<"update", "prologue">>) = "update"
        /\ Tail(<<"update", "prologue">>) = <<"prologue">>
      OBVIOUS
  <2>2. Plain("update", <<"prologue">>)
      BY DEF Plain
  <2> QED
      BY <2>1, <2>2, Zenon DEF Runs, Program
<1>2. Runs(<<"validate", "next">>) /\ Head(<<"validate", "next">>) = "validate"
  <2>1. /\ <<"validate", "next">> # <<>>
        /\ Head(<<"validate", "next">>) = "validate"
        /\ Tail(<<"validate", "next">>) = <<"next">>
      OBVIOUS
  <2>2. Validating("validate", <<"next">>, "next")
      BY DEF Validating
  <2> QED
      BY <2>1, <2>2, Zenon DEF Runs, Program, OfValidation
<1>3. Runs(<<"next">>) /\ Head(<<"next">>) = "next"
  <2>1. <<"next">> # <<>> /\ Head(<<"next">>) = "next" /\ Tail(<<"next">>) = <<>>
      OBVIOUS
  <2>2. Plain("next", <<>>)
      BY DEF Plain
  <2> QED
      BY <2>1, <2>2, Zenon DEF Runs, Program
<1>4. Runs(<<"done">>) /\ Head(<<"done">>) = "done"
  <2>1. <<"done">> # <<>> /\ Head(<<"done">>) = "done" /\ Tail(<<"done">>) = <<>>
      OBVIOUS
  <2>2. Plain("done", <<>>)
      BY DEF Plain
  <2> QED
      BY <2>1, <2>2, Zenon DEF Runs, Program
<1>5. Runs(<<"validate", "done">>) /\ Head(<<"validate", "done">>) = "validate"
  <2>1. /\ <<"validate", "done">> # <<>>
        /\ Head(<<"validate", "done">>) = "validate"
        /\ Tail(<<"validate", "done">>) = <<"done">>
      OBVIOUS
  <2>2. Validating("validate", <<"done">>, "done")
      BY DEF Validating
  <2> QED
      BY <2>1, <2>2, Zenon DEF Runs, Program, OfValidation
<1> QED
    BY <1>1, <1>2, <1>3, <1>4, <1>5

LEMMA StepRuns ==
    /\ Runs(<<"generate", "sleep", "siop", "reward", "train", "finish">>)
    /\ Head(<<"generate", "sleep", "siop", "reward", "train", "finish">>) = "generate"
<1>1. /\ <<"generate", "sleep", "siop", "reward", "train", "finish">> # <<>>
      /\ Head(<<"generate", "sleep", "siop", "reward", "train", "finish">>) = "generate"
      /\ Tail(<<"generate", "sleep", "siop", "reward", "train", "finish">>)
            = <<"sleep", "siop", "reward", "train", "finish">>
    OBVIOUS
<1>2. OfStep("generate", <<"sleep", "siop", "reward", "train", "finish">>)
    BY DEF OfStep
<1> QED
    BY <1>1, <1>2, Zenon DEF Runs, Program

LEMMA BaselineRuns == ASSUME config.remax PROVE
    /\ Runs(<<"generate", "sleep", "other", "sleep", "siop", "reward", "train", "finish">>)
    /\ Head(<<"generate", "sleep", "other", "sleep", "siop", "reward", "train", "finish">>) = "generate"
<1>1. /\ <<"generate", "sleep", "other", "sleep", "siop", "reward", "train", "finish">> # <<>>
      /\ Head(<<"generate", "sleep", "other", "sleep", "siop", "reward", "train", "finish">>) = "generate"
      /\ Tail(<<"generate", "sleep", "other", "sleep", "siop", "reward", "train", "finish">>)
            = <<"sleep", "other", "sleep", "siop", "reward", "train", "finish">>
    OBVIOUS
<1>2. OfBaseline("generate", <<"sleep", "other", "sleep", "siop", "reward", "train", "finish">>)
    BY DEF OfBaseline
<1> QED
    BY <1>1, <1>2, Zenon DEF Runs, Program

LEMMA ScoredBaselineRuns == ASSUME config.remax PROVE
    /\ Runs(<<"generate", "sleep", "other", "sleep", "baseline", "siop", "reward", "train", "finish">>)
    /\ Head(<<"generate", "sleep", "other", "sleep", "baseline", "siop", "reward", "train", "finish">>) = "generate"
<1>1. /\ <<"generate", "sleep", "other", "sleep", "baseline", "siop", "reward", "train", "finish">> # <<>>
      /\ Head(<<"generate", "sleep", "other", "sleep", "baseline", "siop", "reward", "train", "finish">>) = "generate"
      /\ Tail(<<"generate", "sleep", "other", "sleep", "baseline", "siop", "reward", "train", "finish">>)
            = <<"sleep", "other", "sleep", "baseline", "siop", "reward", "train", "finish">>
    OBVIOUS
<1>2. OfBaseline("generate", <<"sleep", "other", "sleep", "baseline", "siop", "reward", "train", "finish">>)
    BY DEF OfBaseline
<1> QED
    BY <1>1, <1>2, Zenon DEF Runs, Program

LEMMA TrainedRuns ==
    /\ Runs(<<"update", "finish">>) /\ Head(<<"update", "finish">>) = "update"
    /\ Runs(<<"save", "update", "finish">>) /\ Head(<<"save", "update", "finish">>) = "save"
    /\ Runs(<<"finish">>) /\ Head(<<"finish">>) = "finish"
<1>1. Runs(<<"update", "finish">>) /\ Head(<<"update", "finish">>) = "update"
  <2>1. /\ <<"update", "finish">> # <<>>
        /\ Head(<<"update", "finish">>) = "update"
        /\ Tail(<<"update", "finish">>) = <<"finish">>
      OBVIOUS
  <2>2. Plain("update", <<"finish">>)
      BY DEF Plain
  <2> QED
      BY <2>1, <2>2, Zenon DEF Runs, Program
<1>2. Runs(<<"save", "update", "finish">>) /\ Head(<<"save", "update", "finish">>) = "save"
  <2>1. /\ <<"save", "update", "finish">> # <<>>
        /\ Head(<<"save", "update", "finish">>) = "save"
        /\ Tail(<<"save", "update", "finish">>) = <<"update", "finish">>
      OBVIOUS
  <2>2. Plain("save", <<"update", "finish">>)
      BY DEF Plain
  <2> QED
      BY <2>1, <2>2, Zenon DEF Runs, Program
<1>3. Runs(<<"finish">>) /\ Head(<<"finish">>) = "finish"
  <2>1. <<"finish">> # <<>> /\ Head(<<"finish">>) = "finish" /\ Tail(<<"finish">>) = <<>>
      OBVIOUS
  <2>2. Plain("finish", <<>>)
      BY DEF Plain
  <2> QED
      BY <2>1, <2>2, Zenon DEF Runs, Program
<1> QED
    BY <1>1, <1>2, <1>3

LEMMA ValidationRuns == ASSUME NEW e \in {"next", "done"} PROVE
    /\ Runs(<<"other", e>>) /\ Head(<<"other", e>>) = "other"
    /\ Runs(<<"other", "validate", e>>) /\ Head(<<"other", "validate", e>>) = "other"
    /\ Runs(<<"other", "sleep", "score", "update", e>>)
    /\ Head(<<"other", "sleep", "score", "update", e>>) = "other"
    /\ Runs(<<"other", "sleep", "score", "update", "validate", e>>)
    /\ Head(<<"other", "sleep", "score", "update", "validate", e>>) = "other"
<1>1. Runs(<<"other", e>>) /\ Head(<<"other", e>>) = "other"
  <2>1. /\ <<"other", e>> # <<>>
        /\ Head(<<"other", e>>) = "other"
        /\ Tail(<<"other", e>>) = <<e>>
      OBVIOUS
  <2>2. Validating("other", <<e>>, e)
      BY DEF Validating
  <2> QED
      BY <2>1, <2>2, Zenon DEF Runs, Program, OfValidation
<1>2. Runs(<<"other", "validate", e>>) /\ Head(<<"other", "validate", e>>) = "other"
  <2>1. /\ <<"other", "validate", e>> # <<>>
        /\ Head(<<"other", "validate", e>>) = "other"
        /\ Tail(<<"other", "validate", e>>) = <<"validate", e>>
      OBVIOUS
  <2>2. Validating("other", <<"validate", e>>, e)
      BY DEF Validating
  <2> QED
      BY <2>1, <2>2, Zenon DEF Runs, Program, OfValidation
<1>3. /\ Runs(<<"other", "sleep", "score", "update", e>>)
      /\ Head(<<"other", "sleep", "score", "update", e>>) = "other"
  <2>1. /\ <<"other", "sleep", "score", "update", e>> # <<>>
        /\ Head(<<"other", "sleep", "score", "update", e>>) = "other"
        /\ Tail(<<"other", "sleep", "score", "update", e>>)
              = <<"sleep", "score", "update", e>>
      OBVIOUS
  <2>2. Validating("other", <<"sleep", "score", "update", e>>, e)
      BY DEF Validating
  <2> QED
      BY <2>1, <2>2, Zenon DEF Runs, Program, OfValidation
<1>4. /\ Runs(<<"other", "sleep", "score", "update", "validate", e>>)
      /\ Head(<<"other", "sleep", "score", "update", "validate", e>>) = "other"
  <2>1. /\ <<"other", "sleep", "score", "update", "validate", e>> # <<>>
        /\ Head(<<"other", "sleep", "score", "update", "validate", e>>) = "other"
        /\ Tail(<<"other", "sleep", "score", "update", "validate", e>>)
              = <<"sleep", "score", "update", "validate", e>>
      OBVIOUS
  <2>2. Validating("other", <<"sleep", "score", "update", "validate", e>>, e)
      BY DEF Validating
  <2> QED
      BY <2>1, <2>2, Zenon DEF Runs, Program, OfValidation
<1> QED
    BY <1>1, <1>2, <1>3, <1>4

LEMMA Tails == ASSUME NEW s, Runs(s)
               PROVE  /\ Head(s) \in {"load", "prologue", "next", "finish", "done"} => Tail(s) = <<>>
                      /\ Head(s) = "train" => Tail(s) = <<"finish">>
                      /\ Head(s) = "validate" => Tail(s) \in {<<"next">>, <<"done">>}
<1> DEFINE l == Head(s)
           t == Tail(s)
<1>1. Program(l, t)
    BY DEF Runs
<1> HIDE DEF l, t
<1>2. /\ l \in {"load", "prologue", "next", "finish", "done"} => t = <<>>
      /\ l = "train" => t = <<"finish">>
      /\ l = "validate" => t \in {<<"next">>, <<"done">>}
    BY <1>1 DEF Program, Plain, OfStep, OfBaseline, OfValidation, Validating
<1> QED
    BY <1>2 DEF l, t

LEMMA Pops == ASSUME NEW s, Runs(s), Head(s) \in Popping
              PROVE  Runs(Tail(s)) /\ Follows(Head(s), Tail(s))
BY PlainPops, OfStepPops, OfBaselinePops, OfValidationPops, Zenon DEF Runs, Program
LEMMA StillRuns == ASSUME Runs(stack'), config' = config PROVE Runs(stack)'
BY Zenon DEF Runs, Program

(* What a replica's answer and the driver's own steps do to the stack.      *)
LEMMA AnswerStack ==
    ASSUME CycleTypes, NEW r \in awaited, Head(stack) \in Popping, Answered(r), config' = config
    PROVE  /\ Runs(stack)' /\ awaited' \subseteq Replicas
           /\ \/ stack' = stack /\ awaited' = awaited \ {r} /\ awaited' # Replicas
              \/ /\ awaited = {r} /\ awaited' = Replicas /\ stack' = Tail(stack)
                 /\ Follows(Head(stack), Tail(stack))
<1>1. Runs(stack) /\ awaited \subseteq Replicas
    BY DEF CycleTypes
<1>2. CASE awaited = {r}
  <2>1. awaited' = Replicas /\ stack' = Tail(stack)
      BY <1>2 DEF Answered
  <2>2. Runs(Tail(stack)) /\ Follows(Head(stack), Tail(stack))
      BY <1>1, Pops, Zenon
  <2>3. Runs(stack)'
      BY <2>1, <2>2, StillRuns, Zenon
  <2> QED
      BY <1>2, <2>1, <2>2, <2>3, Zenon
<1>3. CASE awaited # {r}
  <2>1. awaited' = awaited \ {r} /\ stack' = stack
      BY <1>3 DEF Answered
  <2>2. Runs(stack)'
      BY <1>1, <2>1, StillRuns, Zenon
  <2>3. awaited' \subseteq Replicas /\ awaited' # Replicas
      BY <1>1, <2>1
  <2> QED
      BY <2>1, <2>2, <2>3
<1> QED
    BY <1>2, <1>3

LEMMA PassStack ==
    ASSUME CycleTypes, Head(stack) \in {"baseline", "siop", "reward", "save", "score"}, Continue(<<>>), config' = config
    PROVE  Runs(stack)' /\ Follows(Head(stack), stack') /\ awaited' = Replicas
<1>1. Runs(stack)
    BY DEF CycleTypes
<1>2. Runs(Tail(stack)) /\ Follows(Head(stack), Tail(stack))
    BY <1>1, Pops DEF Popping
<1>3. <<>> \o Tail(stack) = Tail(stack)
    OBVIOUS
<1>4. stack' = Tail(stack) /\ awaited' = Replicas
    BY <1>3, Zenon DEF Continue
<1>5. Runs(stack)'
    BY <1>2, <1>4, StillRuns, Zenon
<1> QED
    BY <1>2, <1>4, <1>5, Zenon
LEMMA LoadStack == ASSUME CycleTypes, Load PROVE Runs(stack)' /\ At("update")'
<1>1. Tail(stack) = <<>>
    BY Tails DEF CycleTypes, Load, At
<1>2. <<"update", "prologue">> \o <<>> = <<"update", "prologue">>
    OBVIOUS
<1>3. stack' = <<"update", "prologue">> /\ config' = config
    BY <1>1, <1>2, Zenon DEF Load, Continue
<1> QED
    BY <1>3, BootRuns, StillRuns, Zenon DEF At, Runs

LEMMA PrologueStack == ASSUME CycleTypes, Prologue
    PROVE  Runs(stack)' /\ (At("validate")' \/ At("next")')
<1>1. Tail(stack) = <<>>
    BY Tails DEF CycleTypes, Prologue, At
<1>2. /\ <<"validate", "next">> \o <<>> = <<"validate", "next">>
      /\ <<"validate", "done">> \o <<>> = <<"validate", "done">>
      /\ <<"next">> \o <<>> = <<"next">>
    OBVIOUS
<1>3. \/ Continue(<<"validate", "next">>) \/ Continue(<<"validate", "done">>)
      \/ Continue(<<"next">>)
    BY Zenon DEF Prologue
<1>4. stack' \in {<<"validate", "next">>, <<"validate", "done">>, <<"next">>} /\ config' = config
    BY <1>1, <1>2, <1>3, Zenon DEF Prologue, Continue
<1>5. CASE stack' = <<"validate", "next">>
    BY <1>4, <1>5, BootRuns, StillRuns, Zenon DEF At, Runs
<1>6. CASE stack' = <<"validate", "done">>
    BY <1>4, <1>6, BootRuns, StillRuns, Zenon DEF At, Runs
<1>7. CASE stack' = <<"next">>
    BY <1>4, <1>7, BootRuns, StillRuns, Zenon DEF At, Runs
<1> QED
    BY <1>4, <1>5, <1>6, <1>7, Zenon

LEMMA NextStack ==
    ASSUME CycleTypes, NextStep
    PROVE  /\ Runs(stack)'
           /\ globalSteps = TotalSteps => At("done")'
           /\ globalSteps # TotalSteps => At("generate")'
<1>1. Tail(stack) = <<>>
    BY Tails DEF CycleTypes, NextStep, At
<1>2. config' = config
    BY DEF NextStep
<1>3. CASE globalSteps = TotalSteps
  <2>1. <<"done">> \o <<>> = <<"done">>
      OBVIOUS
  <2>2. stack' = <<"done">>
      BY <1>1, <1>3, <2>1, Zenon DEF NextStep, Continue
  <2> QED
      BY <1>2, <1>3, <2>2, BootRuns, StillRuns, Zenon DEF At, Runs
<1>4. CASE globalSteps # TotalSteps /\ ~config.remax
  <2>1. /\ <<"generate", "sleep">> \o <<>> = <<"generate", "sleep">>
        /\ <<"generate", "sleep", "siop", "reward", "train", "finish">> \o <<>>
              = <<"generate", "sleep", "siop", "reward", "train", "finish">>
      OBVIOUS
  <2>2. <<"generate", "sleep">> \o <<"siop", "reward", "train", "finish">>
            = <<"generate", "sleep", "siop", "reward", "train", "finish">>
      BY StepJoined
  <2>3. Continue(<<"generate", "sleep">> \o <<>> \o <<"siop", "reward", "train", "finish">>)
    <3>1. Continue(IF globalSteps = TotalSteps THEN <<"done">>
                   ELSE <<"generate", "sleep">> \o Baselines \o <<"siop", "reward", "train", "finish">>)
        BY DEF NextStep
    <3>2. Baselines = <<>>
        BY <1>4 DEF Baselines
    <3> QED
        BY <1>4, <3>1, <3>2
  <2>4. stack' = <<"generate", "sleep", "siop", "reward", "train", "finish">>
      BY <1>1, <2>1, <2>2, <2>3, Zenon DEF Continue
  <2> QED
      BY <1>2, <1>4, <2>4, StepRuns, StillRuns, Zenon DEF At, Runs
<1>5. CASE globalSteps # TotalSteps /\ config.remax /\ config.rm # "colocated"
  <2>1. <<"generate", "sleep", "other", "sleep", "siop", "reward", "train", "finish">> \o <<>>
            = <<"generate", "sleep", "other", "sleep", "siop", "reward", "train", "finish">>
      OBVIOUS
  <2>2. <<"generate", "sleep">> \o <<"other", "sleep">> = <<"generate", "sleep", "other", "sleep">>
      BY Join22, Zenon
  <2>3. <<"generate", "sleep", "other", "sleep">> \o <<"siop", "reward", "train", "finish">>
            = <<"generate", "sleep", "other", "sleep", "siop", "reward", "train", "finish">>
      BY BaselineJoined
  <2>4. Continue(<<"generate", "sleep">> \o <<"other", "sleep">> \o <<"siop", "reward", "train", "finish">>)
    <3>1. Continue(IF globalSteps = TotalSteps THEN <<"done">>
                   ELSE <<"generate", "sleep">> \o Baselines \o <<"siop", "reward", "train", "finish">>)
        BY DEF NextStep
    <3>2. Baselines = <<"other", "sleep">>
        BY <1>5 DEF Baselines
    <3> QED
        BY <1>5, <3>1, <3>2
  <2>5. stack' = <<"generate", "sleep", "other", "sleep", "siop", "reward", "train", "finish">>
      BY <1>1, <2>1, <2>2, <2>3, <2>4, Zenon DEF Continue
  <2> QED
      BY <1>2, <1>5, <2>5, BaselineRuns, StillRuns, Zenon DEF At, Runs
<1>6. CASE globalSteps # TotalSteps /\ config.remax /\ config.rm = "colocated"
  <2>1. <<"generate", "sleep", "other", "sleep", "baseline", "siop", "reward", "train", "finish">> \o <<>>
            = <<"generate", "sleep", "other", "sleep", "baseline", "siop", "reward", "train", "finish">>
      OBVIOUS
  <2>2. <<"generate", "sleep">> \o <<"other", "sleep", "baseline">> = <<"generate", "sleep", "other", "sleep", "baseline">>
      BY Join23, Zenon
  <2>3. <<"generate", "sleep", "other", "sleep", "baseline">> \o <<"siop", "reward", "train", "finish">>
            = <<"generate", "sleep", "other", "sleep", "baseline", "siop", "reward", "train", "finish">>
      BY ScoredBaselineJoined
  <2>4. Continue(<<"generate", "sleep">> \o <<"other", "sleep", "baseline">> \o <<"siop", "reward", "train", "finish">>)
    <3>1. Continue(IF globalSteps = TotalSteps THEN <<"done">>
                   ELSE <<"generate", "sleep">> \o Baselines \o <<"siop", "reward", "train", "finish">>)
        BY DEF NextStep
    <3>2. Baselines = <<"other", "sleep", "baseline">>
        BY <1>6 DEF Baselines
    <3> QED
        BY <1>6, <3>1, <3>2
  <2>5. stack' = <<"generate", "sleep", "other", "sleep", "baseline", "siop", "reward", "train", "finish">>
      BY <1>1, <2>1, <2>2, <2>3, <2>4, Zenon DEF Continue
  <2> QED
      BY <1>2, <1>6, <2>5, ScoredBaselineRuns, StillRuns, Zenon DEF At, Runs
<1> QED
    BY <1>3, <1>4, <1>5, <1>6, Zenon

LEMMA TrainStack ==
    ASSUME CycleTypes, Train
    PROVE  /\ Runs(stack)'
           /\ At("save")' \/ At("update")' \/ At("finish")'
           /\ config.warmup <= globalSteps => ~At("finish")'
<1>1. Tail(stack) = <<"finish">>
    BY Tails DEF CycleTypes, Train, At
<1>2. config' = config
    BY DEF Train
<1>3. /\ <<>> \o <<"finish">> = <<"finish">> /\ <<>> \o <<"update">> = <<"update">>
    OBVIOUS
<1>4. /\ <<"save">> \o <<"update">> = <<"save", "update">>
      /\ <<"update">> \o <<"finish">> = <<"update", "finish">>
      /\ <<"save", "update">> \o <<"finish">> = <<"save", "update", "finish">>
    BY Join11, Join21, Zenon
<1>5. CASE config.warmup <= globalSteps
  <2>1. \E save \in BOOLEAN : stack' = AfterActor(save) \o <<"finish">>
    <3>1. PICK expiring \in BOOLEAN :
              Continue(AfterActor(config.saveFreq > 0 /\ (Due(config.saveFreq) \/ expiring)))
        BY <1>5, Zenon DEF Train
    <3> DEFINE save == config.saveFreq > 0 /\ (Due(config.saveFreq) \/ expiring)
    <3>2. save \in BOOLEAN
        OBVIOUS
    <3>3. Continue(AfterActor(save))
        BY <3>1
    <3> HIDE DEF save
    <3> QED
        BY <1>1, <3>2, <3>3, Zenon DEF Continue
  <2>2. stack' = <<"save", "update", "finish">> \/ stack' = <<"update", "finish">>
      BY <2>1, <1>3, <1>4, Zenon DEF AfterActor
  <2> QED
      BY <1>2, <2>2, TrainedRuns, StillRuns, Zenon DEF At, Runs
<1>6. CASE ~(config.warmup <= globalSteps)
  <2>1. stack' = <<"finish">>
      BY <1>1, <1>3, <1>6, Zenon DEF Train, Continue
  <2> QED
      BY <1>2, <1>6, <2>1, TrainedRuns, StillRuns, Zenon DEF At, Runs
<1> QED
    BY <1>5, <1>6, Zenon

LEMMA FinishStack == ASSUME CycleTypes, FinishStep
    PROVE  Runs(stack)' /\ (At("validate")' \/ At("next")')
<1>1. Tail(stack) = <<>>
    BY Tails DEF CycleTypes, FinishStep, At
<1>2. /\ <<"validate", "next">> \o <<>> = <<"validate", "next">> /\ <<"next">> \o <<>> = <<"next">>
      /\ <<>> \o <<"next">> = <<"next">>
    OBVIOUS
<1>3. <<"validate">> \o <<"next">> = <<"validate", "next">>
    BY Join11, Zenon
<1>4. (stack' = <<"validate", "next">> \/ stack' = <<"next">>) /\ config' = config
    BY <1>1, <1>2, <1>3, Zenon DEF FinishStep, Continue
<1> QED
    BY <1>4, BootRuns, StillRuns, Zenon DEF At, Runs

LEMMA ValidateStack == ASSUME CycleTypes, Validate PROVE Runs(stack)' /\ At("other")'
<1>1. PICK e \in {"next", "done"} : Tail(stack) = <<e>>
    BY Tails DEF CycleTypes, Validate, At
<1>2. PICK more \in BOOLEAN :
          Continue(<<"other">> \o (IF config.rm = "colocated" THEN <<"sleep", "score", "update">> ELSE <<>>)
                               \o (IF more THEN <<"validate">> ELSE <<>>))
    BY Zenon DEF Validate, ScoreOnSharedGpus
<1>3. /\ <<"other">> \o <<>> = <<"other">>
      /\ <<"other", "sleep", "score", "update">> \o <<>> = <<"other", "sleep", "score", "update">>
    OBVIOUS
<1>4. /\ <<"other">> \o <<"sleep", "score", "update">> = <<"other", "sleep", "score", "update">>
      /\ <<"other">> \o <<"validate">> = <<"other", "validate">>
      /\ <<"other", "sleep", "score", "update">> \o <<"validate">>
            = <<"other", "sleep", "score", "update", "validate">>
  <2>1. <<"other">> \o <<"sleep", "score", "update">> = <<"other", "sleep", "score", "update">>
      BY Join13, Zenon
  <2>2. <<"other">> \o <<"validate">> = <<"other", "validate">>
      BY Join11, Zenon
  <2>3. <<"other", "sleep", "score", "update">> \o <<"validate">>
            = <<"other", "sleep", "score", "update", "validate">>
      BY Join41, Zenon
  <2> QED
      BY <2>1, <2>2, <2>3, Zenon
<1>5. /\ <<"other">> \o <<e>> = <<"other", e>>
      /\ <<"other", "validate">> \o <<e>> = <<"other", "validate", e>>
      /\ <<"other", "sleep", "score", "update">> \o <<e>>
            = <<"other", "sleep", "score", "update", e>>
      /\ <<"other", "sleep", "score", "update", "validate">> \o <<e>>
            = <<"other", "sleep", "score", "update", "validate", e>>
  <2>1. <<"other">> \o <<e>> = <<"other", e>>
      BY Join11, Zenon
  <2>2. <<"other", "validate">> \o <<e>> = <<"other", "validate", e>>
      BY Join21, Zenon
  <2>3. <<"other", "sleep", "score", "update">> \o <<e>>
            = <<"other", "sleep", "score", "update", e>>
      BY Join41, Zenon
  <2>4. <<"other", "sleep", "score", "update", "validate">> \o <<e>>
            = <<"other", "sleep", "score", "update", "validate", e>>
      BY Join51, Zenon
  <2> QED
      BY <2>1, <2>2, <2>3, <2>4, Zenon
<1>6. \/ stack' = <<"other", e>>
      \/ stack' = <<"other", "validate", e>>
      \/ stack' = <<"other", "sleep", "score", "update", e>>
      \/ stack' = <<"other", "sleep", "score", "update", "validate", e>>
  <2>1. CASE config.rm = "colocated" /\ more
      BY <1>1, <1>2, <1>4, <1>5, <2>1, Zenon DEF Continue
  <2>2. CASE config.rm = "colocated" /\ ~more
      BY <1>1, <1>2, <1>3, <1>4, <1>5, <2>2, Zenon DEF Continue
  <2>3. CASE config.rm # "colocated" /\ more
      BY <1>1, <1>2, <1>3, <1>4, <1>5, <2>3, Zenon DEF Continue
  <2>4. CASE config.rm # "colocated" /\ ~more
      BY <1>1, <1>2, <1>3, <1>5, <2>4, Zenon DEF Continue
  <2> QED
      BY <2>1, <2>2, <2>3, <2>4, Zenon
<1>7. config' = config
    BY DEF Validate
<1> QED
    BY <1>6, <1>7, ValidationRuns, StillRuns, Zenon DEF At, Runs

(* The values an engine and the batch take.                                 *)
EngineType == [weights: Int, mapped: SUBSET Awake, cached: SUBSET Int, tag: Int]

LEMMA EngineSteps == ASSUME CycleTypes, NEW e \in EngineType
                     PROVE  Slept(e) \in EngineType /\ Updated(e) \in EngineType /\ Cached(e) \in EngineType
<1>1. actor \in Int /\ globalSteps \in Int /\ NoWeights \in Int /\ {LostBlock} \in SUBSET Int
    BY CycleAssumption DEF CycleTypes, NoWeights, LostBlock
<1>2. Slept(e) \in EngineType
  <2>1. CASE ~config.freeCache
      BY <2>1 DEF Slept
  <2>2. CASE config.freeCache
    <3> DEFINE c == IF e.cached = {} THEN {} ELSE {LostBlock}
    <3>1. c \in SUBSET Int
        BY <1>1
    <3>2. Slept(e) = [e EXCEPT !.weights = NoWeights, !.mapped = {}, !.cached = c]
        BY <2>2 DEF Slept
    <3> HIDE DEF c
    <3> QED
        BY <1>1, <3>1, <3>2 DEF EngineType
  <2> QED
      BY <2>1, <2>2
<1>3. Updated(e) \in EngineType
  <2> DEFINE g == IF config.legacy THEN e.tag ELSE globalSteps
  <2>1. g \in Int
      BY <1>1 DEF EngineType
  <2>2. Updated(e) = [e EXCEPT !.weights = actor, !.mapped = Awake, !.cached = {}, !.tag = g]
      BY DEF Updated
  <2> HIDE DEF g
  <2> QED
      BY <1>1, <2>1, <2>2 DEF EngineType
<1>4. Cached(e) \in EngineType
    BY DEF EngineType, Cached
<1> QED
    BY <1>2, <1>3, <1>4

LEMMA EngineWrite == ASSUME CycleTypes, NEW r \in Replicas, NEW v \in EngineType,
           engine' = [engine EXCEPT ![r] = v]
                     PROVE  /\ engine' \in [Replicas -> EngineType]
                            /\ engine'[r] = v /\ \A q \in Replicas \ {r} : engine'[q] = engine[q]
BY DEF CycleTypes, EngineType

LEMMA SleepInv == ASSUME CycleInv, NEW r \in Replicas, Sleep(r) PROVE CycleInv'
<1>1. CycleTypes /\ r \in awaited /\ At("sleep") /\ Answered(r) /\ config' = config
    BY DEF CycleInv, Sleep
<1>2. Slept(engine[r]) \in EngineType
    BY <1>1, EngineSteps DEF CycleTypes, EngineType
<1>3. /\ engine' \in [Replicas -> EngineType]
      /\ engine'[r] = Slept(engine[r]) /\ \A q \in Replicas \ {r} : engine'[q] = engine[q]
    BY <1>1, <1>2, EngineWrite DEF Sleep
<1>4. Runs(stack)' /\ awaited' \subseteq Replicas
    BY <1>1, AnswerStack DEF At, Popping
<1>5. CycleTypes'
    BY <1>1, <1>3, <1>4 DEF Sleep, CycleTypes, EngineType
<1>6. Freed(engine'[r])
    BY <1>1, <1>3 DEF Freed, Slept, CycleTypes, EngineType
<1>7. GpusFreed'
  <2>1. CASE stack' = stack /\ awaited' = awaited \ {r}
    <3>1. /\ At("sleep")'
          /\ ~At("load")'
          /\ ~At("baseline")'
          /\ ~At("siop")'
          /\ ~At("reward")'
          /\ ~At("train")'
          /\ ~At("score")'
        BY <1>1, <2>1 DEF At
    <3>2. ASSUME NEW q \in Replicas \ awaited' PROVE Freed(engine'[q])
      <4>1. CASE q = r
          BY <4>1, <1>6
      <4>2. CASE q # r
        <5>1. Freed(engine[q]) /\ engine'[q] = engine[q]
            BY <1>1, <1>3, <2>1, <4>2 DEF CycleInv, GpusFreed
        <5> QED
            BY <1>1, <5>1 DEF Freed
      <4> QED
          BY <4>1, <4>2
    <3> QED
        BY <1>1, <3>1, <3>2 DEF GpusFreed, Freed
  <2>2. CASE awaited = {r} /\ awaited' = Replicas
    <3>1. ASSUME NEW q \in Replicas PROVE Freed(engine'[q])
      <4>1. CASE q = r
          BY <4>1, <1>6
      <4>2. CASE q # r
        <5>1. Freed(engine[q]) /\ engine'[q] = engine[q]
            BY <1>1, <1>3, <2>2, <4>2 DEF CycleInv, GpusFreed
        <5> QED
            BY <1>1, <5>1 DEF Freed
      <4> QED
          BY <4>1, <4>2
    <3> QED
        BY <1>1, <3>1 DEF GpusFreed, Freed
  <2> QED
      BY <1>1, <2>1, <2>2, AnswerStack DEF At, Popping
<1> QED
    BY <1>5, <1>7 DEF CycleInv

(* A call that leaves the GPUs to the replicas.                             *)
LEMMA AwakeCallInv ==
    ASSUME CycleInv, NEW r \in awaited, At("update") \/ At("generate") \/ At("other"), Answered(r),
           config' = config, CycleTypes'
    PROVE  CycleInv'
<1>1. CycleTypes
    BY DEF CycleInv
<1>2. \/ stack' = stack
      \/ awaited' = Replicas /\ stack' = Tail(stack) /\ Follows(Head(stack), Tail(stack))
    BY <1>1, AnswerStack DEF At, Popping
<1>3. CASE stack' = stack
    BY <1>3 DEF GpusFreed, At, CycleInv
<1>4. CASE awaited' = Replicas /\ stack' = Tail(stack) /\ Follows(Head(stack), Tail(stack))
  <2>1. Follows(Head(stack), stack')
      BY <1>4, Zenon
  <2>2. ~At("load")' /\ ~At("baseline")' /\ ~At("siop")' /\ ~At("reward")' /\ ~At("train")' /\ ~At("score")'
      BY <2>1 DEF Follows, At
  <2> QED
      BY <1>4, <2>2 DEF GpusFreed, CycleInv
<1> QED
    BY <1>2, <1>3, <1>4

LEMMA UpdateWeightsInv == ASSUME CycleInv, NEW r \in Replicas, UpdateWeights(r) PROVE CycleInv'
<1>1. CycleTypes /\ r \in awaited /\ At("update") /\ Answered(r) /\ config' = config
    BY DEF CycleInv, UpdateWeights
<1>2. Updated(engine[r]) \in EngineType
    BY <1>1, EngineSteps DEF CycleTypes, EngineType
<1>3. engine' \in [Replicas -> EngineType]
    BY <1>1, <1>2, EngineWrite DEF UpdateWeights
<1>4. Runs(stack)' /\ awaited' \subseteq Replicas
    BY <1>1, AnswerStack DEF At, Popping
<1>5. CycleTypes'
    BY <1>1, <1>3, <1>4 DEF UpdateWeights, CycleTypes, EngineType
<1> QED
    BY <1>1, <1>5, AwakeCallInv

LEMMA GenerateInv == ASSUME CycleInv, NEW r \in Replicas, Generate(r) PROVE CycleInv'
<1>1. CycleTypes /\ r \in awaited /\ At("generate") /\ Answered(r) /\ config' = config
    BY DEF CycleInv, Generate
<1>2. Cached(engine[r]) \in EngineType /\ engine[r] \in EngineType
    BY <1>1, EngineSteps DEF CycleTypes, EngineType
<1>3. engine' \in [Replicas -> EngineType]
    BY <1>1, <1>2, EngineWrite DEF Generate
<1>4. Runs(stack)' /\ awaited' \subseteq Replicas
    BY <1>1, AnswerStack DEF At, Popping
<1>5. batch' \in [by: SUBSET Int, tags: SUBSET Int, siop: BOOLEAN,
                  rewards: {"none", "baseline", "streamed", "with", "without"}]
    BY <1>1, <1>2 DEF Generate, CycleTypes, EngineType
<1>6. CycleTypes'
    BY <1>1, <1>3, <1>4, <1>5 DEF Generate, CycleTypes, EngineType
<1> QED
    BY <1>1, <1>6, AwakeCallInv

LEMMA GenerateOtherInv == ASSUME CycleInv, NEW r \in Replicas, GenerateOther(r) PROVE CycleInv'
<1>1. CycleTypes /\ r \in awaited /\ At("other") /\ Answered(r) /\ config' = config
    BY DEF CycleInv, GenerateOther
<1>2. Cached(engine[r]) \in EngineType
    BY <1>1, EngineSteps DEF CycleTypes, EngineType
<1>3. engine' \in [Replicas -> EngineType]
    BY <1>1, <1>2, EngineWrite DEF GenerateOther
<1>4. Runs(stack)' /\ awaited' \subseteq Replicas
    BY <1>1, AnswerStack DEF At, Popping
<1>5. CycleTypes'
    BY <1>1, <1>3, <1>4 DEF GenerateOther, CycleTypes, EngineType
<1> QED
    BY <1>1, <1>5, AwakeCallInv


(* The driver's steps that leave the stack to what is on it, or hand the    *)
(* GPUs to the replicas.                                                    *)
LEMMA HandOver == ASSUME At("update")' \/ At("validate")' \/ At("next")' \/ At("other")' \/ At("generate")'
                                \/ At("done")' \/ At("save")' \/ At("finish")'
                  PROVE  GpusFreed'
BY DEF GpusFreed, At

LEMMA LoadInv == ASSUME CycleInv, Load PROVE CycleInv'
<1>1. CycleTypes
    BY DEF CycleInv
<1>2. Runs(stack)' /\ At("update")'
    BY <1>1, LoadStack
<1>3. CycleTypes'
    BY <1>1, <1>2, CycleAssumption DEF Load, Continue, CycleTypes
<1> QED
    BY <1>2, <1>3, HandOver DEF CycleInv

LEMMA PrologueInv == ASSUME CycleInv, Prologue PROVE CycleInv'
<1>1. CycleTypes
    BY DEF CycleInv
<1>2. Runs(stack)' /\ (At("validate")' \/ At("next")')
    BY <1>1, PrologueStack
<1>3. CycleTypes'
    BY <1>1, <1>2 DEF Prologue, Continue, CycleTypes
<1> QED
    BY <1>2, <1>3, HandOver DEF CycleInv

LEMMA NextStepInv == ASSUME CycleInv, NextStep PROVE CycleInv'
<1>1. CycleTypes
    BY DEF CycleInv
<1>2. Runs(stack)' /\ (At("done")' \/ At("generate")')
    BY <1>1, NextStack
<1>3. globalSteps' \in 0..TotalSteps
    BY <1>1, CycleAssumption DEF NextStep, CycleTypes
<1>4. awaited' \subseteq Replicas /\ batch' = NoBatch
    BY DEF NextStep, Continue
<1>5. CycleTypes'
    BY <1>1, <1>2, <1>3, <1>4 DEF NextStep, CycleTypes, NoBatch
<1> QED
    BY <1>2, <1>5, HandOver DEF CycleInv

LEMMA ScoreBaselinesInv == ASSUME CycleInv, ScoreBaselines PROVE CycleInv'
<1>1. CycleTypes /\ At("baseline") /\ Continue(<<>>) /\ config' = config /\ engine' = engine
    BY DEF CycleInv, ScoreBaselines
<1>2. Runs(stack)' /\ Follows(Head(stack), stack') /\ awaited' = Replicas
    BY <1>1, PassStack DEF At
<1>3. CycleTypes'
    BY <1>1, <1>2 DEF ScoreBaselines, CycleTypes
<1>4. Head(stack') = "siop"
    BY <1>1, <1>2 DEF Follows, At
<1> QED
    BY <1>1, <1>3, <1>4 DEF CycleInv, GpusFreed, Freed, At

LEMMA SiopRewardsInv == ASSUME CycleInv, SiopRewards PROVE CycleInv'
<1>1. CycleTypes /\ At("siop") /\ Continue(<<>>) /\ config' = config /\ engine' = engine
    BY DEF CycleInv, SiopRewards
<1>2. Runs(stack)' /\ Follows(Head(stack), stack') /\ awaited' = Replicas
    BY <1>1, PassStack DEF At
<1>3. CycleTypes'
    BY <1>1, <1>2 DEF SiopRewards, CycleTypes
<1>4. Head(stack') = "reward"
    BY <1>1, <1>2 DEF Follows, At
<1> QED
    BY <1>1, <1>3, <1>4 DEF CycleInv, GpusFreed, Freed, At

LEMMA RewardInv == ASSUME CycleInv, Reward PROVE CycleInv'
<1>1. CycleTypes /\ At("reward") /\ Continue(<<>>) /\ config' = config /\ engine' = engine
    BY DEF CycleInv, Reward
<1>2. Runs(stack)' /\ Follows(Head(stack), stack') /\ awaited' = Replicas
    BY <1>1, PassStack DEF At
<1>3. CycleTypes'
    BY <1>1, <1>2 DEF Reward, CycleTypes
<1>4. Head(stack') = "train"
    BY <1>1, <1>2 DEF Follows, At
<1> QED
    BY <1>1, <1>3, <1>4 DEF CycleInv, GpusFreed, Freed, At

LEMMA TrainInv == ASSUME CycleInv, Train PROVE CycleInv'
<1>1. CycleTypes
    BY DEF CycleInv
<1>2. Runs(stack)' /\ (At("save")' \/ At("update")' \/ At("finish")')
    BY <1>1, TrainStack
<1>3. awaited' = Replicas /\ actor' \in 0..TotalSteps
    BY <1>1 DEF Train, Continue, CycleTypes
<1>4. CycleTypes'
    BY <1>1, <1>2, <1>3 DEF Train, CycleTypes
<1> QED
    BY <1>2, <1>4, HandOver DEF CycleInv

LEMMA SaveInv == ASSUME CycleInv, Save PROVE CycleInv'
<1>1. CycleTypes /\ At("save") /\ Continue(<<>>) /\ config' = config
    BY DEF CycleInv, Save
<1>2. Runs(stack)' /\ Follows(Head(stack), stack') /\ awaited' = Replicas
    BY <1>1, PassStack DEF At
<1>3. CycleTypes'
    BY <1>1, <1>2 DEF Save, CycleTypes
<1>4. stack' # <<>> /\ Head(stack') = "update"
    BY <1>1, <1>2 DEF Follows, At, Runs
<1> QED
    BY <1>3, <1>4, HandOver DEF CycleInv, At

LEMMA FinishStepInv == ASSUME CycleInv, FinishStep PROVE CycleInv'
<1>1. CycleTypes
    BY DEF CycleInv
<1>2. Runs(stack)' /\ (At("validate")' \/ At("next")')
    BY <1>1, FinishStack
<1>3. CycleTypes'
    BY <1>1, <1>2 DEF FinishStep, Continue, CycleTypes
<1> QED
    BY <1>2, <1>3, HandOver DEF CycleInv

LEMMA ValidateInv == ASSUME CycleInv, Validate PROVE CycleInv'
<1>1. CycleTypes
    BY DEF CycleInv
<1>2. Runs(stack)' /\ At("other")'
    BY <1>1, ValidateStack
<1>3. awaited' = Replicas
    BY DEF Validate, Continue
<1>4. CycleTypes'
    BY <1>1, <1>2, <1>3 DEF Validate, CycleTypes
<1> QED
    BY <1>2, <1>4, HandOver DEF CycleInv

LEMMA ScoreInv == ASSUME CycleInv, Score PROVE CycleInv'
<1>1. CycleTypes /\ At("score") /\ Continue(<<>>) /\ config' = config
    BY DEF CycleInv, Score
<1>2. Runs(stack)' /\ Follows(Head(stack), stack') /\ awaited' = Replicas
    BY <1>1, PassStack DEF At
<1>3. CycleTypes'
    BY <1>1, <1>2 DEF Score, CycleTypes
<1>4. stack' # <<>> /\ Head(stack') = "update"
    BY <1>1, <1>2 DEF Follows, At, Runs
<1> QED
    BY <1>3, <1>4, HandOver DEF CycleInv, At

(* Every start begins with replicas that are to be put to sleep.            *)
LEMMA LaunchStack == Runs(<<"sleep", "load">>) /\ Head(<<"sleep", "load">>) = "sleep"
<1>1. /\ <<"sleep", "load">> # <<>>
      /\ Head(<<"sleep", "load">>) = "sleep"
      /\ Tail(<<"sleep", "load">>) = <<"load">>
    OBVIOUS
<1>2. Plain("sleep", <<"load">>)
    BY DEF Plain
<1> QED
    BY <1>1, <1>2, Zenon DEF Runs, Program

LEMMA LaunchedTypes ==
    /\ [r \in Replicas |-> Launched]
          \in [Replicas -> [weights: Int, mapped: SUBSET Awake, cached: SUBSET Int, tag: Int]]
    /\ NoBatch \in [by: SUBSET Int, tags: SUBSET Int, siop: BOOLEAN,
                    rewards: {"none", "baseline", "streamed", "with", "without"}]
BY DEF Launched, NoWeights, NoTag, NoBatch

LEMMA StartAgainInv == ASSUME CycleInv, StartAgain PROVE CycleInv'
<1>1. stack' = <<"sleep", "load">> /\ config' = config /\ awaited' = Replicas
    BY DEF StartAgain
<1>2. Runs(stack)' /\ Head(stack') = "sleep"
    BY <1>1, LaunchStack, StillRuns, Zenon
<1>3. CycleTypes'
    BY <1>1, <1>2, LaunchedTypes, CycleAssumption DEF StartAgain, CycleInv, CycleTypes
<1>4. GpusFreed'
    BY <1>1, <1>2 DEF GpusFreed, At
<1> QED
    BY <1>3, <1>4 DEF CycleInv

LEMMA CycleInitInv == ASSUME CycleInit PROVE CycleInv
<1>1. Runs(stack) /\ Head(stack) = "sleep"
    BY LaunchStack, Zenon DEF CycleInit
<1>2. CycleTypes
    BY <1>1, LaunchedTypes, CycleAssumption DEF CycleInit, CycleTypes
<1>3. GpusFreed
    BY <1>1 DEF CycleInit, GpusFreed, At
<1> QED
    BY <1>2, <1>3 DEF CycleInv

LEMMA CycleInvStutter == ASSUME CycleInv, UNCHANGED cycleVars PROVE CycleInv'
BY Zenon DEF cycleVars, CycleInv, CycleTypes, GpusFreed, Runs, Program, Freed, At

LEMMA CycleInvNext == ASSUME CycleInv, [CycleNext]_cycleVars PROVE CycleInv'
<1>1. CASE Driver
    BY <1>1, LoadInv, PrologueInv, NextStepInv, ScoreBaselinesInv, SiopRewardsInv, RewardInv, TrainInv, SaveInv,
       FinishStepInv, ValidateInv, ScoreInv, Zenon DEF Driver
<1>2. ASSUME NEW r \in Replicas, Replica(r) PROVE CycleInv'
    BY <1>2, SleepInv, UpdateWeightsInv, GenerateInv, GenerateOtherInv, Zenon DEF Replica
<1>3. CASE StartAgain
    BY <1>3, StartAgainInv
<1>4. CASE UNCHANGED cycleVars
    BY <1>4, CycleInvStutter
<1> QED
    BY <1>1, <1>2, <1>3, <1>4, Zenon DEF CycleNext, Done

LEMMA CycleInvAlways == CycleSpec => []CycleInv
<1>1. CycleInit => CycleInv
    BY CycleInitInv
<1>2. CycleInv /\ [CycleNext]_cycleVars => CycleInv'
    BY CycleInvNext
<1> QED
    BY <1>1, <1>2, PTL DEF CycleSpec

(* In every configuration, with a colocated reward model, baselines and     *)
(* restarts, training, loading and scoring find the GPUs free.              *)
THEOREM GpusHaveOneUser == CycleSpec => []OneUserOfTheGpus
<1>1. CycleInv => OneUserOfTheGpus
    BY DEF CycleInv, GpusFreed, OneUserOfTheGpus, Freed
<1> QED
    BY <1>1, CycleInvAlways, PTL

(* The configurations the two properties of the weights are about.          *)
AlwaysUpdated == \A c \in Configs : ~c.remax /\ c.warmup \in {0, 1}

ReadyInv == CycleInv /\ PolicyInv /\ ~config.remax /\ config.warmup \in {0, 1}

LEMMA EngineBecomes ==
    ASSUME CycleTypes, NEW r \in Replicas, NEW v, engine' = [engine EXCEPT ![r] = v]
    PROVE  engine'[r] = v /\ \A q \in Replicas \ {r} : engine'[q] = engine[q]
BY DEF CycleTypes

LEMMA PreparedStays == ASSUME config' = config, actor' = actor, NEW e
    PROVE  Prepared(e) <=> Prepared(e)'
BY DEF Prepared

LEMMA UpdatedIsPrepared ==
    ASSUME CycleTypes, actor = globalSteps, NEW r \in Replicas PROVE Prepared(Updated(engine[r]))
<1>1. engine[r] \in [weights: Int, mapped: SUBSET Awake, cached: SUBSET Int, tag: Int]
    BY DEF CycleTypes
<1> QED
    BY <1>1 DEF Updated, Prepared

LEMMA CachedIsPrepared ==
    ASSUME CycleTypes, NEW r \in Replicas, Prepared(engine[r]) PROVE Prepared(Cached(engine[r]))
<1>1. engine[r] \in [weights: Int, mapped: SUBSET Awake, cached: SUBSET Int, tag: Int]
    BY DEF CycleTypes
<1> QED
    BY <1>1 DEF Cached, Prepared

LEMMA SleepPolicy == ASSUME ReadyInv, NEW r \in awaited, Sleep(r) PROVE PolicyInv'
<1>1. /\ CycleTypes /\ At("sleep") /\ Answered(r) /\ UNCHANGED <<config, globalSteps, actor, batch>>
      /\ Current /\ Collected /\ ~config.remax
    BY DEF ReadyInv, PolicyInv, CycleInv, Sleep
<1>2. \/ stack' = stack
      \/ stack' = Tail(stack) /\ Follows(Head(stack), Tail(stack))
    BY <1>1, AnswerStack DEF At, Popping
<1>3. CASE stack' = stack
  <2>1. Busy' <=> Busy
      BY <1>3, Zenon DEF Busy, Learning
  <2>2. Preparing'
      BY <1>1, <1>3 DEF Preparing, Serving, At
  <2>3. Current' /\ Collected'
      BY <1>1, <1>3, <2>1 DEF Current, Collected, At, MadeBy
  <2> QED
      BY <2>2, <2>3 DEF PolicyInv
<1>4. CASE stack' = Tail(stack) /\ Follows(Head(stack), Tail(stack))
  <2>1. Follows("sleep", stack')
      BY <1>1, <1>4, Zenon DEF At
  <2>2. Head(stack') \in {"load", "siop", "score"}
      BY <1>1, <2>1 DEF Follows
  <2>3. Busy' <=> Head(stack') = "siop"
      BY <2>2 DEF Busy, Learning
  <2>4. Busy <=> Head(stack') = "siop"
      BY <1>1, <1>4 DEF Busy, Learning, At
  <2>5. Preparing' /\ ~At("generate")'
      BY <2>2 DEF Preparing, Serving, At
  <2>6. ~At("generate")
      BY <1>1 DEF At
  <2>7. Current' /\ Collected'
      BY <1>1, <2>3, <2>4, <2>5, <2>6 DEF Current, Collected, MadeBy
  <2> QED
      BY <2>5, <2>7 DEF PolicyInv
<1> QED
    BY <1>2, <1>3, <1>4

LEMMA UpdateWeightsPolicy == ASSUME ReadyInv, NEW r \in awaited, UpdateWeights(r) PROVE PolicyInv'
<1>1. /\ /\ CycleTypes
      /\ At("update")
      /\ Answered(r)
      /\ UNCHANGED <<config, globalSteps, actor, batch>>
      /\ Preparing /\ Current /\ Collected /\ r \in Replicas
    BY DEF ReadyInv, PolicyInv, CycleInv, CycleTypes, UpdateWeights
<1>2. /\ engine'[r] = Updated(engine[r]) /\ \A q \in Replicas \ {r} : engine'[q] = engine[q]
    BY <1>1, EngineBecomes DEF UpdateWeights
<1>3. ~Busy /\ ~At("generate") /\ actor = globalSteps
    BY <1>1 DEF Busy, Learning, Current, At
<1>4. Prepared(engine'[r])
    BY <1>1, <1>2, <1>3, UpdatedIsPrepared
<1>5. \A q \in Replicas \ awaited : Prepared(engine[q])
    BY <1>1 DEF Preparing
<1>6. \/ stack' = stack /\ awaited' = awaited \ {r}
      \/ awaited = {r} /\ stack' = Tail(stack) /\ Follows(Head(stack), Tail(stack))
    BY <1>1, AnswerStack DEF At, Popping
<1>7. CASE stack' = stack /\ awaited' = awaited \ {r}
  <2>1. At("update")' /\ Head(stack') = "update"
      BY <1>1, <1>7 DEF At
  <2>2. ASSUME NEW q \in Replicas \ awaited' PROVE Prepared(engine'[q])
      BY <1>2, <1>4, <1>5, <1>7, Zenon
  <2>3. \A q \in Replicas \ awaited' : Prepared(engine[q])'
      BY <1>1, <2>2 DEF Prepared
  <2>4. Preparing'
      BY <2>1, <2>3 DEF Preparing, Serving, At
  <2>5. ~Busy' /\ ~At("generate")'
      BY <2>1 DEF Busy, Learning, At
  <2> QED
      BY <1>1, <1>3, <2>4, <2>5 DEF PolicyInv, Current, Collected
<1>8. CASE awaited = {r} /\ stack' = Tail(stack) /\ Follows(Head(stack), Tail(stack))
  <2>1. Follows("update", stack')
      BY <1>1, <1>8, Zenon DEF At
  <2>2. Head(stack') \in {"prologue", "finish", "next", "done", "validate"}
      BY <2>1 DEF Follows
  <2>3. ASSUME NEW q \in Replicas PROVE Prepared(engine'[q])
      BY <1>2, <1>4, <1>5, <1>8, Zenon
  <2>4. \A q \in Replicas : Prepared(engine[q])'
      BY <1>1, <2>3 DEF Prepared
  <2>5. Preparing'
      BY <2>2, <2>4 DEF Preparing, Serving, At
  <2>6. ~Busy' /\ ~At("generate")'
      BY <2>2 DEF Busy, Learning, At
  <2> QED
      BY <1>1, <1>3, <2>5, <2>6 DEF PolicyInv, Current, Collected
<1> QED
    BY <1>6, <1>7, <1>8

LEMMA GeneratePolicy == ASSUME ReadyInv, NEW r \in awaited, Generate(r) PROVE PolicyInv'
<1>1. /\ CycleTypes /\ At("generate") /\ Answered(r) /\ UNCHANGED <<config, globalSteps, actor>>
      /\ Preparing
      /\ Current
      /\ Collected
      /\ r \in Replicas
      /\ ~config.remax
      /\ awaited \subseteq Replicas
    BY DEF ReadyInv, PolicyInv, CycleInv, CycleTypes, Generate
<1>2. /\ engine'[r] = Cached(engine[r]) /\ \A q \in Replicas \ {r} : engine'[q] = engine[q]
    BY <1>1, EngineBecomes DEF Generate
<1>3. \A q \in Replicas : Prepared(engine[q])
    BY <1>1 DEF Preparing, Serving, At
<1>4. \A q \in Replicas : Prepared(engine'[q])
  <2>1. Prepared(engine'[r])
      BY <1>1, <1>2, <1>3, CachedIsPrepared
  <2> QED
      BY <1>2, <1>3, <2>1, Zenon
<1>5. \A q \in Replicas : Prepared(engine[q])'
    BY <1>1, <1>4 DEF Prepared
<1>6. globalSteps' >= 1
    BY <1>1 DEF Current
<1>7. MadeBy({actor})'
  <2>1. MadeBy({}) \/ MadeBy({actor})
      BY <1>1 DEF Collected
  <2>2. engine[r].weights = actor /\ (~config.legacy => engine[r].tag = actor)
      BY <1>1, <1>3 DEF Prepared
  <2>3. /\ batch'.by = batch.by \cup {engine[r].weights}
        /\ batch'.tags = batch.tags \cup {engine[r].tag}
      BY <1>1 DEF Generate, CycleTypes
  <2> QED
      BY <1>1, <2>1, <2>2, <2>3 DEF MadeBy
<1>8. \/ stack' = stack /\ awaited' # Replicas
      \/ stack' = Tail(stack) /\ Follows(Head(stack), Tail(stack))
    BY <1>1, AnswerStack DEF At, Popping
<1>9. CASE stack' = stack /\ awaited' # Replicas
  <2>1. At("generate")' /\ ~Busy'
      BY <1>1, <1>9 DEF At, Busy, Learning
  <2>2. Preparing'
      BY <1>5, <2>1 DEF Preparing, Serving, At
  <2>3. Collected'
      BY <1>7, <1>9, <2>1 DEF Collected
  <2> QED
      BY <1>6, <2>1, <2>2, <2>3 DEF PolicyInv, Current
<1>10. CASE stack' = Tail(stack) /\ Follows(Head(stack), Tail(stack))
  <2>1. Follows("generate", stack')
      BY <1>1, <1>10, Zenon DEF At
  <2>2. Head(stack') = "sleep" /\ Learning(Head(stack'), Tail(stack'))
      BY <1>1, <2>1 DEF Follows
  <2>3. Busy' /\ ~At("generate")'
      BY <2>2 DEF Busy, At, Learning
  <2>4. Preparing'
      BY <2>2 DEF Preparing, Serving, At
  <2> QED
      BY <1>6, <1>7, <2>3, <2>4 DEF PolicyInv, Current, Collected
<1> QED
    BY <1>8, <1>9, <1>10

LEMMA GenerateOtherPolicy == ASSUME ReadyInv, NEW r \in awaited, GenerateOther(r) PROVE PolicyInv'
<1>1. /\ CycleTypes /\ At("other") /\ Answered(r) /\ UNCHANGED <<config, globalSteps, actor, batch>>
      /\ Preparing /\ Current /\ r \in Replicas /\ ~config.remax
    BY DEF ReadyInv, PolicyInv, CycleInv, CycleTypes, GenerateOther
<1>2. /\ engine'[r] = Cached(engine[r]) /\ \A q \in Replicas \ {r} : engine'[q] = engine[q]
    BY <1>1, EngineBecomes DEF GenerateOther
<1>3. \A q \in Replicas : Prepared(engine[q])
    BY <1>1 DEF Preparing, Serving, At
<1>4. \A q \in Replicas : Prepared(engine'[q])
  <2>1. Prepared(engine'[r])
      BY <1>1, <1>2, <1>3, CachedIsPrepared
  <2> QED
      BY <1>2, <1>3, <2>1, Zenon
<1>5. \A q \in Replicas : Prepared(engine[q])'
    BY <1>1, <1>4 DEF Prepared
<1>6. ~Busy /\ ~At("generate") /\ actor = globalSteps
    BY <1>1 DEF Busy, Learning, Current, At
<1>7. \/ stack' = stack
      \/ stack' = Tail(stack) /\ Follows(Head(stack), Tail(stack))
    BY <1>1, AnswerStack DEF At, Popping
<1>8. ~Busy' /\ ~At("generate")' /\ ~At("update")'
  <2>1. CASE stack' = stack
      BY <1>1, <2>1 DEF At, Busy, Learning
  <2>2. CASE stack' = Tail(stack) /\ Follows(Head(stack), Tail(stack))
    <3>1. Follows("other", stack')
        BY <1>1, <2>2, Zenon DEF At
    <3>2. \/ Head(stack') \in {"next", "done", "validate"}
          \/ Head(stack') = "sleep" /\ ~Learning(Head(stack'), Tail(stack'))
        BY <1>1, <3>1 DEF Follows
    <3> QED
        BY <3>2 DEF Busy, At, Learning
  <2> QED
      BY <1>7, <2>1, <2>2
<1>9. Preparing'
    BY <1>5, <1>8 DEF Preparing
<1> QED
    BY <1>1, <1>6, <1>8, <1>9 DEF PolicyInv, Current, Collected

(* A step of the driver after which the replicas are those of before and    *)
(* serve, or are to be updated.                                             *)
LEMMA Onwards ==
    ASSUME (Serving' /\ ~At("generate")') \/ At("update")' \/ At("save")' \/ At("done")',
           At("update")' => awaited' = Replicas,
           Serving' => \A r \in Replicas : Prepared(engine[r])',
           actor' = globalSteps'
    PROVE  PolicyInv'
<1>1. ~Busy' /\ ~At("generate")'
    BY DEF Serving, Busy, Learning, At
<1>2. Preparing'
    BY DEF Preparing
<1> QED
    BY <1>1, <1>2 DEF PolicyInv, Current, Collected

LEMMA LoadPolicy == ASSUME ReadyInv, Load PROVE PolicyInv'
<1>1. At("update")' /\ awaited' = Replicas /\ actor' = globalSteps'
    BY LoadStack DEF ReadyInv, CycleInv, Load, Continue
<1>2. ~Serving'
    BY <1>1 DEF Serving, At
<1> QED
    BY <1>1, <1>2, Onwards

LEMMA StillServing ==
    ASSUME ReadyInv, Serving, ~At("generate"), UNCHANGED <<config, actor, engine>>
    PROVE  actor = globalSteps /\ \A r \in Replicas : Prepared(engine[r])'
<1>1. Current /\ Preparing
    BY DEF ReadyInv, PolicyInv
<1>2. ~Busy
    BY DEF Serving, At, Busy, Learning
<1>3. actor = globalSteps /\ \A r \in Replicas : Prepared(engine[r])
    BY <1>1, <1>2 DEF Current, Preparing
<1> QED
    BY <1>3 DEF Prepared

LEMMA ProloguePolicy == ASSUME ReadyInv, Prologue PROVE PolicyInv'
<1>1. Serving' /\ ~At("generate")' /\ ~At("update")'
    BY PrologueStack DEF ReadyInv, CycleInv, Serving, At
<1>2. Serving /\ ~At("generate") /\ UNCHANGED <<config, actor, engine, globalSteps>>
    BY DEF Prologue, Serving, At
<1> QED
    BY <1>1, <1>2, StillServing, Onwards

LEMMA FinishStepPolicy == ASSUME ReadyInv, FinishStep PROVE PolicyInv'
<1>1. Serving' /\ ~At("generate")' /\ ~At("update")'
    BY FinishStack DEF ReadyInv, CycleInv, Serving, At
<1>2. Serving /\ ~At("generate") /\ UNCHANGED <<config, actor, engine, globalSteps>>
    BY DEF FinishStep, Serving, At
<1> QED
    BY <1>1, <1>2, StillServing, Onwards

LEMMA ValidatePolicy == ASSUME ReadyInv, Validate PROVE PolicyInv'
<1>1. Serving' /\ ~At("generate")' /\ ~At("update")'
    BY ValidateStack DEF ReadyInv, CycleInv, Serving, At
<1>2. Serving /\ ~At("generate") /\ UNCHANGED <<config, actor, engine, globalSteps>>
    BY DEF Validate, Serving, At
<1> QED
    BY <1>1, <1>2, StillServing, Onwards

LEMMA NextStepPolicy == ASSUME ReadyInv, NextStep PROVE PolicyInv'
<1>1. Serving /\ ~At("generate") /\ UNCHANGED <<config, actor, engine>>
    BY DEF NextStep, Serving, At
<1>2. actor = globalSteps /\ \A r \in Replicas : Prepared(engine[r])'
    BY <1>1, StillServing
<1>3. CycleTypes
    BY DEF ReadyInv, CycleInv
<1>4. CASE globalSteps = TotalSteps
  <2>1. At("done")' /\ globalSteps' = globalSteps
      BY <1>3, <1>4, NextStack, CycleAssumption DEF NextStep
  <2>2. ~Serving' /\ ~At("update")'
      BY <2>1 DEF Serving, At
  <2> QED
      BY <1>1, <1>2, <2>1, <2>2, Onwards
<1>5. CASE globalSteps # TotalSteps
  <2>1. At("generate")'
      BY <1>3, <1>5, NextStack
  <2>2. globalSteps' >= 1
      BY <1>3, <1>5, CycleAssumption DEF NextStep, CycleTypes
  <2>3. batch' = NoBatch /\ awaited' = Replicas
      BY DEF NextStep, Continue
  <2>4. ~Busy' /\ ~At("update")'
      BY <2>1 DEF Busy, Learning, At
  <2>5. Preparing'
      BY <1>2, <2>4 DEF Preparing
  <2>6. Collected'
      BY <2>3, <2>4 DEF Collected, MadeBy, NoBatch
  <2> QED
      BY <2>1, <2>2, <2>4, <2>5, <2>6 DEF PolicyInv, Current
<1> QED
    BY <1>4, <1>5

LEMMA ScoreBaselinesPolicy == ASSUME ReadyInv, ScoreBaselines PROVE PolicyInv'
<1>1. Program("baseline", Tail(stack)) /\ ~config.remax
    BY DEF ReadyInv, CycleInv, CycleTypes, Runs, ScoreBaselines, At
<1>2. ~Program("baseline", Tail(stack))
    BY <1>1 DEF Program, Plain, OfStep, OfValidation, Validating
<1> QED
    BY <1>1, <1>2

LEMMA SiopRewardsPolicy == ASSUME ReadyInv, SiopRewards PROVE PolicyInv'
<1>1. CycleTypes /\ At("siop") /\ Continue(<<>>) /\ UNCHANGED <<config, globalSteps, actor>>
    BY DEF ReadyInv, CycleInv, SiopRewards
<1>2. Head(stack') = "reward"
    BY <1>1, PassStack DEF Follows, At
<1>3. Busy /\ Busy' /\ ~At("generate")' /\ ~At("update")' /\ ~Serving'
    BY <1>1, <1>2 DEF Busy, Learning, At, Serving
<1>4. batch'.by = batch.by /\ batch'.tags = batch.tags
    BY <1>1 DEF SiopRewards, CycleTypes
<1> QED
    BY <1>1, <1>3, <1>4 DEF ReadyInv, PolicyInv, Preparing, Current, Collected, MadeBy

LEMMA RewardPolicy == ASSUME ReadyInv, Reward PROVE PolicyInv'
<1>1. CycleTypes /\ At("reward") /\ Continue(<<>>) /\ UNCHANGED <<config, globalSteps, actor>>
    BY DEF ReadyInv, CycleInv, Reward
<1>2. Head(stack') = "train"
    BY <1>1, PassStack DEF Follows, At
<1>3. Busy /\ Busy' /\ ~At("generate")' /\ ~At("update")' /\ ~Serving'
    BY <1>1, <1>2 DEF Busy, Learning, At, Serving
<1>4. batch'.by = batch.by /\ batch'.tags = batch.tags
    BY <1>1 DEF Reward, CycleTypes
<1> QED
    BY <1>1, <1>3, <1>4 DEF ReadyInv, PolicyInv, Preparing, Current, Collected, MadeBy

LEMMA TrainPolicy == ASSUME ReadyInv, Train PROVE PolicyInv'
<1>1. CycleTypes /\ Current /\ Busy /\ config.warmup \in {0, 1}
    BY DEF ReadyInv, CycleInv, PolicyInv, Train, At, Busy, Learning
<1>2. globalSteps >= 1 /\ globalSteps \in Nat
    BY <1>1, CycleAssumption DEF Current, CycleTypes
<1>3. config.warmup <= globalSteps
    BY <1>1, <1>2
<1>4. actor' = globalSteps' /\ awaited' = Replicas
    BY <1>3 DEF Train, Continue
<1>5. At("save")' \/ At("update")'
    BY <1>1, <1>3, TrainStack
<1>6. ~Serving'
    BY <1>5 DEF Serving, At
<1> QED
    BY <1>4, <1>5, <1>6, Onwards

LEMMA SavePolicy == ASSUME ReadyInv, Save PROVE PolicyInv'
<1>1. CycleTypes /\ At("save") /\ Continue(<<>>) /\ UNCHANGED <<config, globalSteps, actor>>
    BY DEF ReadyInv, CycleInv, Save
<1>2. Current /\ ~Busy /\ ~At("generate")
    BY <1>1 DEF ReadyInv, PolicyInv, Busy, Learning, At
<1>3. Runs(stack)' /\ Head(stack') = "update" /\ awaited' = Replicas
    BY <1>1, PassStack DEF Follows, At
<1>4. At("update")' /\ ~Serving'
    BY <1>3 DEF Runs, At, Serving
<1> QED
    BY <1>1, <1>2, <1>3, <1>4, Onwards DEF Current

LEMMA ScorePolicy == ASSUME ReadyInv, Score PROVE PolicyInv'
<1>1. CycleTypes /\ At("score") /\ Continue(<<>>) /\ UNCHANGED <<config, globalSteps, actor>>
    BY DEF ReadyInv, CycleInv, Score
<1>2. Current /\ ~Busy /\ ~At("generate")
    BY <1>1 DEF ReadyInv, PolicyInv, Busy, Learning, At
<1>3. Runs(stack)' /\ Head(stack') = "update" /\ awaited' = Replicas
    BY <1>1, PassStack DEF Follows, At
<1>4. At("update")' /\ ~Serving'
    BY <1>3 DEF Runs, At, Serving
<1> QED
    BY <1>1, <1>2, <1>3, <1>4, Onwards DEF Current

LEMMA LaunchIdle == ASSUME stack = <<"sleep", "load">>
    PROVE  ~Busy /\ ~Serving /\ ~At("generate") /\ ~At("update")
<1>1. Head(stack) = "sleep" /\ Head(Tail(stack)) = "load"
    OBVIOUS
<1> QED
    BY <1>1 DEF Busy, Learning, Serving, At

LEMMA StartAgainPolicy == ASSUME StartAgain PROVE PolicyInv'
<1>1. stack' = <<"sleep", "load">> /\ actor' = globalSteps'
    BY DEF StartAgain
<1>2. Head(stack') = "sleep" /\ Head(Tail(stack')) = "load"
    BY <1>1
<1>3. ~Busy' /\ ~Serving' /\ ~At("generate")' /\ ~At("update")'
    BY <1>2 DEF Busy, Learning, Serving, At
<1> QED
    BY <1>1, <1>3 DEF PolicyInv, Preparing, Current, Collected

LEMMA InitPolicy == ASSUME CycleInit PROVE PolicyInv
<1>1. stack = <<"sleep", "load">> /\ actor = globalSteps
    BY DEF CycleInit
<1> QED
    BY <1>1, LaunchIdle DEF PolicyInv, Preparing, Current, Collected

LEMMA PolicyStutter == ASSUME PolicyInv, UNCHANGED cycleVars PROVE PolicyInv'
BY DEF cycleVars, PolicyInv, Preparing, Current, Collected, Serving, Busy, Learning, At, Prepared, MadeBy

LEMMA PolicyNext == ASSUME ReadyInv, [CycleNext]_cycleVars PROVE PolicyInv'
<1>1. CASE Driver
    BY <1>1, LoadPolicy, ProloguePolicy, NextStepPolicy, ScoreBaselinesPolicy, SiopRewardsPolicy, RewardPolicy, TrainPolicy,
       SavePolicy, FinishStepPolicy, ValidatePolicy, ScorePolicy, Zenon DEF Driver
<1>2. ASSUME NEW r \in Replicas, Replica(r) PROVE PolicyInv'
  <2>1. r \in awaited
      BY <1>2, Zenon DEF Replica, Sleep, UpdateWeights, Generate, GenerateOther
  <2> QED
      BY <1>2, <2>1, SleepPolicy, UpdateWeightsPolicy, GeneratePolicy, GenerateOtherPolicy, Zenon DEF Replica
<1>3. CASE StartAgain
    BY <1>3, StartAgainPolicy
<1>4. CASE UNCHANGED cycleVars
    BY <1>4, PolicyStutter DEF ReadyInv
<1> QED
    BY <1>1, <1>2, <1>3, <1>4, Zenon DEF CycleNext, Done

LEMMA PolicyAlways == ASSUME AlwaysUpdated PROVE CycleSpec => [](CycleInv /\ PolicyInv)
<1>1. CycleInit => PolicyInv
    BY InitPolicy
<1>2. CycleInv => ~config.remax /\ config.warmup \in {0, 1}
    BY DEF AlwaysUpdated, CycleInv, CycleTypes
<1>3. CycleInv /\ PolicyInv /\ [CycleNext]_cycleVars => PolicyInv'
    BY <1>2, PolicyNext, Zenon DEF ReadyInv
<1> QED
    BY <1>1, <1>3, CycleInvAlways, PTL DEF CycleSpec

(* Without a warm-up of the critic beyond the first step, and without the   *)
(* baselines of REMAX, a replica never generates with memory that was       *)
(* unmapped, with old weights or with blocks cached under old weights.      *)
THEOREM ReplicasAreReady == ASSUME AlwaysUpdated PROVE CycleSpec => []GeneratesReady
<1>1. CycleInv /\ PolicyInv => GeneratesReady
    BY DEF CycleInv, CycleTypes, PolicyInv, Preparing, Serving, Prepared, GeneratesReady
<1> QED
    BY <1>1, PolicyAlways, PTL

(* In the same configurations the actor learns from its own rollouts alone. *)
THEOREM RolloutsAreOnPolicy == ASSUME AlwaysUpdated PROVE CycleSpec => []OnPolicy
<1>1. CycleInv /\ PolicyInv => OnPolicy
    BY DEF PolicyInv, Collected, MadeBy, Busy, Learning, At, OnPolicy
<1> QED
    BY <1>1, PolicyAlways, PTL
===============================================================================
