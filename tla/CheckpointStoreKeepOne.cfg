\* max_actor_ckpt_to_keep = 1: the old actor folder goes before the tracker moves.
SPECIFICATION Spec
CONSTANTS
    WorldSize = 1
    UseCritic = FALSE
    MaxActorCkptToKeep = 1
    MaxCriticCkptToKeep = 0
    ResumeModes = {"auto"}
    MaxSteps = 2
    MaxRuns = 2
INVARIANT TrackedIsComplete
