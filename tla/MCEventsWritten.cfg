CONSTANT Configs <- EventsWrittenConfigs
SPECIFICATION Spec
INVARIANT EventsWritten
