------------------------- MODULE MCAgentLifecycle -------------------------
EXTENDS AgentLifecycle

RecoverySteps == {"recover", "read_marker", "undo_marker"}
AgentSteps == {"decide", "wipe", "enroll", "enrolled", "run", "renewed", "bundled", "restart",
               "rem_mark", "rem_wipe", "rem_trust", "rem_unit", "rem_last"}
\* Everywhere but between the marker's rename or its removal and the flush that follows.
KillAnywhereFlushed == (SaveSteps \ {"mark_sync", "sync_unmarked"}) \union RecoverySteps \union AgentSteps
=============================================================================
