--------------------------- MODULE MooncakeTransfer ---------------------------
(***************************************************************************)
(* One transfer of the Mooncake checkpoint engine.  A rank tells the next  *)
(* one where a bucket is; the next one reads it into one of its buffers,   *)
(* passes it on, hands out its tensors, and acknowledges by writing four   *)
(* magic bytes over the beginning of the buffer it has read.  A buffer is  *)
(* used again when its first bytes are the magic ones.                     *)
(***************************************************************************)
EXTENDS WeightChain

VARIABLES
    awaited,   \* rank 0 waits for the magic bytes in the buffer to be packed
    shouldWait,\* should_wait
    inbox,     \* per rollout rank: objects sent to it and not received
    info,      \* the object it works on
    idx,       \* idx: buckets it has done
    pc         \* "receive", "read", "yield", "sync" or "done"

mooncakeVars == <<awaited, shouldWait, inbox, info, idx, pc>>
vars == <<chainVars, mooncakeVars>>

Magic == -1                       \* in the first cell of a buffer
Magical(r, b) == buf[r][b][0] = Magic
Current(r) == idx[r] % 2

Init ==
    /\ ChainInit
    /\ awaited = FALSE
    /\ shouldWait = FALSE
    /\ inbox = [r \in RolloutRanks |-> <<>>]
    /\ info = [r \in RolloutRanks |-> [entries |-> <<>>, buf |-> 0, len |-> 0, last |-> FALSE]]
    /\ idx = [r \in RolloutRanks |-> 0]
    /\ pc = [r \in RolloutRanks |-> "receive"]

-----------------------------------------------------------------------------
(* Rank 0: send_weights.                                                    *)
PackBucket ==
    /\ ~awaited
    /\ Pack
    /\ UNCHANGED mooncakeVars

(* The bucket's place is sent to rank 1.  Before the other buffer is packed *)
(* again it must be acknowledged, unless this was the first bucket; after   *)
(* the last bucket its own acknowledgement is waited for.                   *)
SendBucket ==
    /\ ~awaited
    /\ BucketReady
    /\ inbox' = [inbox EXCEPT ![1] =
           Append(@, [entries |-> meta, buf |-> fill, len |-> offset, last |-> IsLast])]
    /\ EmptyBucket(IF IsLast THEN fill ELSE 1 - fill)
    /\ awaited' = (IsLast \/ shouldWait)
    /\ shouldWait' = TRUE
    /\ UNCHANGED <<buf, entries, copies, loaded, info, idx, pc>>

Acknowledged ==
    /\ awaited
    /\ Magical(0, fill)
    /\ awaited' = FALSE
    /\ UNCHANGED <<chainVars, shouldWait, inbox, info, idx, pc>>

-----------------------------------------------------------------------------
(* A rollout rank: receive_weights.                                         *)
Receive(r) ==
    /\ pc[r] = "receive"
    /\ inbox[r] # <<>>
    /\ info' = [info EXCEPT ![r] = Head(inbox[r])]
    /\ inbox' = [inbox EXCEPT ![r] = Tail(@)]
    /\ pc' = [pc EXCEPT ![r] = "read"]
    /\ UNCHANGED <<chainVars, awaited, shouldWait, idx>>

(* A rank that has passed on a bucket from the current buffer waits for its *)
(* acknowledgement by the next rank.                                        *)
Mut_NotAwaited(r) == TRUE
MayOverwrite(r) == idx[r] >= 2 /\ r < Rollouts => Magical(r, Current(r))

(* transfer_sync_read of the bucket's bytes, then its new place is sent to  *)
(* the next rank.                                                           *)
Read(r) ==
    /\ pc[r] = "read"
    /\ MayOverwrite(r)
    /\ buf' = [buf EXCEPT ![r][Current(r)] =
           [c \in Cells |-> IF c < info[r].len THEN buf[r - 1][info[r].buf][c] ELSE @[c]]]
    /\ inbox' = IF r = Rollouts THEN inbox
                ELSE [inbox EXCEPT ![r + 1] = Append(@, [info[r] EXCEPT !.buf = Current(r)])]
    /\ entries' = [entries EXCEPT ![r] = info[r].entries]
    /\ pc' = [pc EXCEPT ![r] = "yield"]
    /\ UNCHANGED <<size, packVars, copies, loaded, announced, awaited, shouldWait, info, idx>>

YieldTensor(r) ==
    /\ pc[r] = "yield"
    /\ Yield(r, Current(r))
    /\ UNCHANGED mooncakeVars

CopyTensor(r) == CopyRuns(r) /\ UNCHANGED mooncakeVars

(* transfer_sync_write of the magic bytes to the buffer that was read.  Its *)
(* owner may not have handed it out or copied it yet: only the last rank of *)
(* the chain is sure to hand out what it has read.                          *)
Acknowledge(r) ==
    /\ pc[r] = "yield"
    /\ entries[r] = <<>>
    /\ buf' = [buf EXCEPT ![r - 1][info[r].buf][0] = Magic]
    /\ pc' = [pc EXCEPT ![r] = "sync"]
    /\ UNCHANGED <<size, packVars, entries, copies, loaded, announced,
                   awaited, shouldWait, inbox, info, idx>>

Synchronize(r) ==
    /\ pc[r] = "sync"
    /\ copies[r] = <<>>
    /\ idx' = [idx EXCEPT ![r] = @ + 1]
    /\ pc' = [pc EXCEPT ![r] = IF info[r].last THEN "done" ELSE "receive"]
    /\ UNCHANGED <<chainVars, awaited, shouldWait, inbox, info>>

Announce ==
    /\ AnnounceIf(AllSent /\ ~awaited /\ \A r \in RolloutRanks : pc[r] = "done")
    /\ UNCHANGED mooncakeVars

(* wait_for_complete is polling, without a timeout; in the end nothing      *)
(* happens any more.                                                        *)
Poll == UNCHANGED vars

Next ==
    \/ PackBucket \/ SendBucket \/ Acknowledged
    \/ \E r \in RolloutRanks :
           \/ Receive(r) \/ Read(r) \/ YieldTensor(r) \/ CopyTensor(r)
           \/ Acknowledge(r) \/ Synchronize(r)
    \/ Announce \/ Poll

(* Objects arrive, copies end, and nobody competes for a step.              *)
Spec == Init /\ [][Next]_vars /\ WF_vars(Next)
===============================================================================
