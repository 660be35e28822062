-------------------------- MODULE MCCheckpointEngine --------------------------
(***************************************************************************)
(* TLC instance of the checkpoint engines.  CheckpointEngineManager takes  *)
(* the engine its configuration names; the rollout is the same for all: a  *)
(* rank of the chain of the NIXL and Mooncake engines is a receiver of the *)
(* NCCL engine.  The engines that were not chosen stay as they were built. *)
(***************************************************************************)
EXTENDS WeightTransfer

CONSTANTS Rollouts, Trainers

VARIABLES
    backend,                          \* config.backend
    watched,                          \* the receiver whose weights are compared
    buf, entries,                     \* WeightChain
    stage, inbox, readable, pc, send, last, incoming, reading,  \* NixlTransfer
    awaited, shouldWait, objects, info, idx, at  \* MooncakeTransfer; its inbox and pc

Nixl == INSTANCE NixlTransfer
Mooncake == INSTANCE MooncakeTransfer WITH inbox <- objects, pc <- at

sharedVars == <<size, next, fill, offset, meta, copies, loaded, announced>>
ncclVars == <<sbuf, op, wire, engineVars, ibuf, imeta, ioffset, chan, clones, work>>
chainOnlyVars == <<buf, entries>>
nixlVars == <<stage, inbox, readable, pc, send, last, incoming, reading>>
mooncakeVars == <<awaited, shouldWait, objects, info, idx, at>>
config == <<backend, watched>>
allVars == <<sharedVars, ncclVars, chainOnlyVars, nixlVars, mooncakeVars, config>>

ASSUME EnginesAssumption ==
    /\ Rollouts \in Nat \ {0} /\ Trainers \in Nat \ {0}
    /\ Receivers = 1..Rollouts

(* Of a Mooncake transfer the last rank is watched, see its Acknowledge.    *)
EngineInit ==
    /\ backend \in {"nccl", "nixl", "mooncake"}
    /\ watched \in IF backend = "mooncake" THEN {Rollouts} ELSE Receivers
    /\ Init /\ Nixl!Init /\ Mooncake!Init

EngineNext ==
    /\ \/ /\ backend = "nccl"
          /\ Next
          /\ UNCHANGED <<chainOnlyVars, nixlVars, mooncakeVars>>
       \/ /\ backend = "nixl"
          /\ Nixl!Next
          /\ UNCHANGED <<ncclVars, mooncakeVars>>
       \/ /\ backend = "mooncake"
          /\ Mooncake!Next
          /\ UNCHANGED <<ncclVars, nixlVars>>
    /\ UNCHANGED config

EngineSpec == EngineInit /\ [][EngineNext]_allVars /\ WF_allVars(EngineNext)

(* With every engine a receiver of the rollout gets every weight once, in   *)
(* order and with its own bytes, before the driver goes on, and the driver  *)
(* goes on: whatever the sizes of the weights and the pace of ranks,        *)
(* network, device and workers.                                             *)
Watched == INSTANCE WeightStream WITH
    Receivers <- {"watched"}, loaded <- [r \in {"watched"} |-> loaded[watched]]
EnginesImplementStream == Watched!Spec
===============================================================================
