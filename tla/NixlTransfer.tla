----------------------------- MODULE NixlTransfer -----------------------------
(***************************************************************************)
(* One transfer of the NIXL checkpoint engine.  A rank offers a bucket to  *)
(* the next one by a message; the next one reads it from the offering      *)
(* rank's memory whenever it comes to it, and the end of the read is       *)
(* notified.  Meanwhile the offering rank reads from the rank before it    *)
(* into its other buffer and hands out the tensors of the bucket it        *)
(* offers.                                                                 *)
(***************************************************************************)
EXTENDS WeightChain, SequencesExt

CONSTANT Trainers  \* trainer_world_size

VARIABLES
    stage,     \* "prepare", "transfer", or "failed" for an assertion
    inbox,     \* per rank and sender: messages, as in NixlAgent.messages
    readable,  \* per rank: its ReadableOperation, "none", "posted" or "read"
    pc,        \* per rollout rank: "metadata", "yield" or "done"
    send,      \* per rollout rank: which buffer is send_buf
    last,      \* whether the bucket in it is the last
    incoming,  \* metadata of the bucket being read
    reading    \* its ReadOperation: "none", "started" or "done"

nixlVars == <<stage, inbox, readable, pc, send, last, incoming, reading>>
vars == <<chainVars, nixlVars>>

NoMessage == [entries |-> <<>>, last |-> FALSE, buf |-> 0]

Init ==
    /\ ChainInit
    /\ stage = "prepare"
    /\ inbox = [r \in Ranks |-> [q \in Ranks |-> <<>>]]
    /\ readable = [r \in Ranks |-> "none"]
    /\ pc = [r \in RolloutRanks |-> "metadata"]
    /\ send = [r \in RolloutRanks |-> 0]
    /\ last = [r \in RolloutRanks |-> FALSE]
    /\ incoming = [r \in RolloutRanks |-> NoMessage]
    /\ reading = [r \in RolloutRanks |-> "none"]

-----------------------------------------------------------------------------
(* build_topology: the metadata of all agents, trainers first, each given   *)
(* by the agent's rank.                                                     *)
Metadata ==
    [n \in 1..(Trainers + Rollouts) |-> IF n = 1 THEN 0 ELSE IF n <= Trainers THEN -1 ELSE n - Trainers]
None == -2

(* s[-n:], which is all of s when n is 0.                                   *)
LastOnes(s, n) == IF n = 0 THEN s ELSE SubSeq(s, Len(s) - n + 1, Len(s))

FirstRollout == Head(LastOnes(Metadata, Rollouts))
PrevAgents == <<Metadata[1]>> \o Front(LastOnes(Metadata, Rollouts))
NextAgents == LastOnes(Metadata, Rollouts - 1) \o <<None>>
NextOf(r) == IF r = 0 THEN FirstRollout ELSE NextAgents[r]

(* build_process_group asserts that every rollout rank has its arguments,   *)
(* which is not so when there is one rank: all metadata are its next ones.  *)
BuildTopology ==
    /\ stage = "prepare"
    /\ stage' = IF Len(PrevAgents) = Rollouts /\ Len(NextAgents) = Rollouts
                THEN "transfer" ELSE "failed"
    /\ UNCHANGED <<chainVars, inbox, readable, pc, send, last, incoming, reading>>

-----------------------------------------------------------------------------
(* ReadableOperation.__init__: rank r offers a bucket to the next rank, if  *)
(* there is one.                                                            *)
Offer(r, bucket) ==
    IF NextOf(r) = None
    THEN UNCHANGED <<inbox, readable>>
    ELSE /\ inbox' = [inbox EXCEPT ![NextOf(r)][r] = Append(@, bucket)]
         /\ readable' = [readable EXCEPT ![r] = "posted"]

(* wait_for_complete of the operation before, if there was one.             *)
Mut_NotAwaited(r) == TRUE
WasRead(r) == readable[r] # "posted"

PackBucket == stage = "transfer" /\ Pack /\ UNCHANGED nixlVars

SendBucket ==
    /\ stage = "transfer"
    /\ BucketReady
    /\ WasRead(0)
    /\ Offer(0, [entries |-> meta, last |-> IsLast, buf |-> fill])
    /\ EmptyBucket(1 - fill)
    /\ UNCHANGED <<buf, entries, copies, loaded, stage, pc, send, last, incoming, reading>>

(* read_metadata and begin_read.                                            *)
ReadMetadata(r) ==
    LET arrived == inbox[r][PrevAgents[r]]
    IN  /\ stage = "transfer"
        /\ pc[r] = "metadata"
        /\ arrived # <<>>
        /\ inbox' = [inbox EXCEPT ![r][PrevAgents[r]] = Tail(@)]
        /\ incoming' = [incoming EXCEPT ![r] = Head(arrived)]
        /\ reading' = [reading EXCEPT ![r] = "started"]
        /\ pc' = [pc EXCEPT ![r] = "yield"]
        /\ UNCHANGED <<chainVars, stage, readable, send, last>>

(* NIXL: the read takes place, its end is notified to the rank read from.   *)
ReadRuns(r) ==
    /\ reading[r] = "started"
    /\ buf' = [buf EXCEPT ![r][1 - send[r]] = buf[PrevAgents[r]][incoming[r].buf]]
    /\ reading' = [reading EXCEPT ![r] = "done"]
    /\ readable' = [readable EXCEPT ![PrevAgents[r]] = "read"]
    /\ UNCHANGED <<size, packVars, entries, copies, loaded, announced,
                   stage, inbox, pc, send, last, incoming>>

YieldTensor(r) ==
    /\ pc[r] = "yield"
    /\ Yield(r, send[r])
    /\ UNCHANGED nixlVars

CopyTensor(r) == CopyRuns(r) /\ UNCHANGED nixlVars

(* Both operations have ended and the device is synchronized: the buffers   *)
(* change places, and the new bucket is offered at once.  Before the first  *)
(* bucket there is nothing to yield or to wait for.                         *)
Synchronized(r) == copies[r] = <<>>

Swap(r) ==
    /\ pc[r] = "yield"
    /\ ~last[r]
    /\ entries[r] = <<>>
    /\ WasRead(r)
    /\ reading[r] = "done"
    /\ Synchronized(r)
    /\ send' = [send EXCEPT ![r] = 1 - @]
    /\ last' = [last EXCEPT ![r] = incoming[r].last]
    /\ entries' = [entries EXCEPT ![r] = incoming[r].entries]
    /\ reading' = [reading EXCEPT ![r] = "none"]
    /\ Offer(r, [incoming[r] EXCEPT !.buf = send'[r]])
    /\ pc' = [pc EXCEPT ![r] = IF last'[r] THEN "yield" ELSE "metadata"]
    /\ UNCHANGED <<size, packVars, buf, copies, loaded, announced, stage, incoming>>

Return(r) ==
    /\ pc[r] = "yield"
    /\ last[r]
    /\ entries[r] = <<>>
    /\ WasRead(r)
    /\ pc' = [pc EXCEPT ![r] = "done"]
    /\ UNCHANGED <<chainVars, stage, inbox, readable, send, last, incoming, reading>>

Announce ==
    /\ AnnounceIf(AllSent /\ WasRead(0) /\ \A r \in RolloutRanks : pc[r] = "done")
    /\ UNCHANGED nixlVars

(* Waiting is polling, without a timeout; and in the end nothing happens.   *)
Poll == (stage # "prepare") /\ UNCHANGED vars

Next ==
    \/ BuildTopology \/ PackBucket \/ SendBucket
    \/ \E r \in RolloutRanks :
           ReadMetadata(r) \/ ReadRuns(r) \/ YieldTensor(r) \/ CopyTensor(r) \/ Swap(r) \/ Return(r)
    \/ Announce \/ Poll

(* Messages arrive, reads and copies end, and nobody competes for a step.   *)
Spec == Init /\ [][Next]_vars /\ WF_vars(Next)
===============================================================================
