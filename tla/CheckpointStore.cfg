\* Actor and critic with different limits, a crash, every way to resume.
SPECIFICATION Spec
CONSTANTS
    WorldSize = 2
    UseCritic = TRUE
    MaxActorCkptToKeep = 2
    MaxCriticCkptToKeep = 0
    ResumeModes = {"auto", "disable", "resume_path"}
    MaxSteps = 3
    MaxRuns = 3
INVARIANTS TrackedIsComplete RetentionWithinRun RestartFailsOnlyIfTorn
PROPERTY TrackerNeverGoesBack
