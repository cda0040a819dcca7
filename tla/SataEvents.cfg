SPECIFICATION FairSpec
CONSTANTS
    MaxCmds = 3
    MaxResets = 1
    EQ_LIMIT = 2
    MaxTasks = 2
INVARIANTS MovesForHost SlowRunsAlone RunsWhole HostIsServed
PROPERTIES DeferredStarts MailIsRead
