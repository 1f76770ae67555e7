---------------------------- MODULE AgentUpdate -----------------------------
(***************************************************************************)
(* The agent replaces its own binary: download and checks, the backup, the *)
(* swap and its pending marker (update.rs), the watchdog of the next start *)
(* (main.rs), and the control loop that takes orders and acknowledgements  *)
(* beside them (control_loop.rs, requests.rs).  The process may end        *)
(* between any two steps; files keep what was written.  A binary is its    *)
(* version; the downloaded file is checked whole, so it is not state.      *)
(***************************************************************************)
EXTENDS Naturals

CONSTANTS
    MaxVersion,
    Mute,           \* versions that run but that the server never acknowledges
    MaxRollbacks,   \* MAX_ROLLBACKS
    MaxOrders,      \* bound: update orders
    MaxKills,       \* bound: ends of the process that nobody planned
    MaxFileFaults   \* bound: file operations that fail

Versions == 1..MaxVersion

ASSUME UpdateAssumption ==
    /\ MaxVersion \in Nat \ {0} /\ MaxRollbacks \in Nat \ {0}
    /\ Mute \subseteq Versions \ {1}
    /\ MaxOrders \in Nat /\ MaxKills \in Nat /\ MaxFileFaults \in Nat

VARIABLES
    bin, prev,    \* the installed binary and its backup, {binary}.prev
    pending,      \* .update-pending exists
    count,        \* .rollback-count
    run,          \* the version that runs, or Down
    linked,       \* it has a connection on which orders may come
    awaiting,     \* Agent.pending_update
    resetting,    \* the marker was removed, and the count comes next
    watch,        \* the watchdog's task
    lane,         \* apply_update, and the outcome waiting for the loop
    order,        \* the version it installs
    accepted,     \* history: the version the server last acknowledged
    shaky,        \* history: the backup or its restoring failed, it was taken by a
                  \* version not acknowledged or still watched, or a marker stayed
    gaveUp,       \* history: the watchdog was not started any more
    orders, kills, faults

updateVars == <<bin, prev, pending, count, run, linked, awaiting, resetting, watch,
                lane, order, accepted, shaky, gaveUp, orders, kills, faults>>

\* Numbers that are no version: no file or process, and a file half written.
NoFile == 0
Down == 0
TornFile == MaxVersion + 1
LaneStages == {"idle", "download", "backup", "copying", "swap", "mark", "done"}

UpdateTypeOK ==
    /\ bin \in Versions \cup {TornFile} /\ prev \in Versions \cup {TornFile, NoFile}
    /\ pending \in BOOLEAN /\ count \in Nat
    /\ run \in Versions \cup {Down} /\ linked \in BOOLEAN
    /\ awaiting \in BOOLEAN /\ resetting \in BOOLEAN
    /\ shaky \in BOOLEAN /\ gaveUp \in BOOLEAN
    /\ watch \in {"off", "asleep", "elapsed", "counted"}
    /\ lane \in LaneStages /\ order \in Versions /\ accepted \in Versions
    /\ orders \in 0..MaxOrders /\ kills \in 0..MaxKills /\ faults \in 0..MaxFileFaults

UpdateInit ==
    /\ bin = 1 /\ prev = NoFile /\ pending = FALSE /\ count = 0
    /\ run = 1 /\ linked = FALSE /\ awaiting = FALSE /\ resetting = FALSE
    /\ watch = "off" /\ lane = "idle" /\ order = 1
    /\ accepted = 1 /\ shaky = FALSE /\ gaveUp = FALSE
    /\ orders = 0 /\ kills = 0 /\ faults = 0

bounds == <<orders, kills, faults>>
history == <<accepted, shaky, gaveUp>>
loopVars == <<run, linked, awaiting, resetting>>
taskVars == <<watch, lane, order>>
fileVars == <<bin, prev, pending, count>>

\* The loop is between two messages.
AtRest == run # Down /\ ~resetting

\* One more file operation fails, which the code logs and passes over.
Fault == faults < MaxFileFaults /\ faults' = faults + 1

\* The process ends, its tasks with it.
Exit ==
    /\ run' = Down /\ linked' = FALSE /\ awaiting' = FALSE /\ resetting' = FALSE
    /\ watch' = "off" /\ lane' = "idle" /\ order' = order

-----------------------------------------------------------------------------
(* Start-up: start_update_watchdog *)

\* No marker: nothing to watch.
StartSettled ==
    /\ run = Down /\ bin # TornFile /\ ~pending
    /\ run' = bin
    /\ UNCHANGED <<fileVars, linked, awaiting, resetting, taskVars, history, bounds>>

StartWatched ==
    /\ run = Down /\ bin # TornFile /\ pending /\ count < MaxRollbacks
    /\ run' = bin /\ awaiting' = TRUE /\ watch' = "asleep"
    /\ UNCHANGED <<fileVars, linked, resetting, lane, order, history, bounds>>

\* Loop protection: the marker and then the count are removed.
StartGivingUp ==
    /\ run = Down /\ bin # TornFile /\ pending /\ count >= MaxRollbacks
    /\ run' = bin /\ resetting' = TRUE /\ gaveUp' = TRUE
    /\ \/ pending' = FALSE /\ UNCHANGED <<shaky, faults>>
       \/ Fault /\ shaky' = TRUE /\ UNCHANGED pending
    /\ UNCHANGED <<bin, prev, count, linked, awaiting, taskVars, accepted, orders, kills>>

ResetRollbackCount ==
    /\ resetting
    /\ resetting' = FALSE
    /\ \/ count' = 0 /\ UNCHANGED faults
       \/ Fault /\ UNCHANGED count
    /\ UNCHANGED <<bin, prev, pending, run, linked, awaiting, taskVars, history, orders, kills>>

-----------------------------------------------------------------------------
(* The control loop *)

\* Connected, and registered as far as PushUpdate looks: the order may come
\* before the trust bundle that acknowledges the agent.
Connect ==
    /\ AtRest /\ ~linked
    /\ linked' = TRUE
    /\ UNCHANGED <<fileVars, run, awaiting, resetting, taskVars, history, bounds>>

Disconnect ==
    /\ AtRest /\ linked
    /\ linked' = FALSE
    /\ UNCHANGED <<fileVars, run, awaiting, resetting, taskVars, history, bounds>>

\* notify_one reaches a watchdog that still sleeps; one whose minute is over may
\* be in its other branch already.
StandDown ==
    \/ watch' = "off"
    \/ watch # "asleep" /\ UNCHANGED watch

\* The server's acknowledgement settles the update that awaits it.
Acknowledge ==
    /\ awaiting' = FALSE /\ resetting' = awaiting /\ accepted' = run
    /\ IF awaiting
       THEN /\ StandDown
            /\ \/ pending' = FALSE /\ UNCHANGED <<shaky, faults>>
               \/ Fault /\ shaky' = TRUE /\ UNCHANGED pending
       ELSE UNCHANGED <<watch, pending, shaky, faults>>
    /\ UNCHANGED <<bin, prev, count, run, linked, lane, order, gaveUp, orders, kills>>

OnAcknowledgedBySending == AtRest /\ linked /\ (awaiting \/ accepted # run) /\ Acknowledge

OnAcknowledged ==
    /\ AtRest /\ linked /\ run \notin Mute /\ (awaiting \/ accepted # run)
    /\ Acknowledge

\* An order for a later version, with the lane free.  The select is biased: an
\* outcome that waits is handled before the order is read.
StartUpdate(v) ==
    /\ AtRest /\ linked /\ lane = "idle" /\ v > run /\ v # bin
    /\ orders < MaxOrders
    /\ lane' = "download" /\ order' = v /\ orders' = orders + 1
    /\ UNCHANGED <<fileVars, loopVars, watch, history, kills, faults>>

\* The update was applied: acknowledge it and restart.  The outcome waits for a
\* connection.
OnUpdateOutcome ==
    /\ AtRest /\ linked /\ lane = "done"
    /\ Exit
    /\ UNCHANGED <<fileVars, history, bounds>>

-----------------------------------------------------------------------------
(* apply_update, a task of its own *)

Go(from, to) == lane = from /\ lane' = to /\ UNCHANGED <<order, watch>>

\* Downloaded and verified, or refused without a trace.
Download ==
    /\ Go("download", "backup") \/ Go("download", "idle")
    /\ UNCHANGED <<fileVars, loopVars, history, bounds>>

\* fs::copy truncates the old backup; then it copies the installed binary.
BackupBegins ==
    /\ Go("backup", "copying")
    /\ prev' = TornFile
    /\ shaky' = (accepted # run \/ pending \/ watch # "off")
    /\ UNCHANGED <<bin, pending, count, loopVars, accepted, gaveUp, bounds>>

BackupKeepsOld ==
    IF prev # NoFile
    THEN Go("backup", "swap") /\ UNCHANGED <<fileVars, loopVars, history, bounds>>
    ELSE BackupBegins

Backup == BackupBegins

BackupEnds ==
    /\ Go("copying", "swap")
    /\ prev' = bin
    /\ UNCHANGED <<bin, pending, count, loopVars, history, bounds>>

\* "failed to backup current binary, continuing"
BackupFails ==
    /\ Go("backup", "swap") \/ Go("copying", "swap")
    /\ Fault /\ shaky' = TRUE
    /\ UNCHANGED <<fileVars, loopVars, accepted, gaveUp, orders, kills>>

Swap ==
    /\ Go("swap", "mark")
    /\ bin' = order /\ gaveUp' = FALSE
    /\ UNCHANGED <<prev, pending, count, loopVars, accepted, shaky, bounds>>

\* The mode or the rename fails: the update is given up.
SwapFails ==
    /\ Go("swap", "idle")
    /\ Fault
    /\ UNCHANGED <<fileVars, loopVars, history, orders, kills>>

WriteUpdatePending ==
    /\ Go("mark", "done")
    /\ \/ pending' = TRUE /\ UNCHANGED faults
       \/ Fault /\ UNCHANGED pending
    /\ UNCHANGED <<bin, prev, count, loopVars, history, orders, kills>>

-----------------------------------------------------------------------------
(* The watchdog, a task of its own *)

Elapse ==
    /\ watch = "asleep" /\ watch' = "elapsed"
    /\ UNCHANGED <<fileVars, loopVars, lane, order, history, bounds>>

IncrementRollbackCount ==
    /\ watch = "elapsed" /\ watch' = "counted"
    /\ \/ count' = count + 1 /\ UNCHANGED faults
       \/ Fault /\ UNCHANGED count
    /\ UNCHANGED <<bin, prev, pending, loopVars, lane, order, history, orders, kills>>

RollbackUnchecked ==
    /\ watch = "counted"
    /\ bin' = prev /\ prev' = NoFile
    /\ Exit
    /\ UNCHANGED <<pending, count, history, bounds>>

Rollback ==
    /\ watch = "counted" /\ prev # NoFile
    /\ bin' = prev /\ prev' = NoFile
    /\ Exit
    /\ UNCHANGED <<pending, count, history, bounds>>

NothingToRestore ==
    /\ watch = "counted" /\ prev = NoFile
    /\ watch' = "off"
    /\ UNCHANGED <<fileVars, loopVars, lane, order, history, bounds>>

\* "watchdog: rollback failed": the agent goes on unwatched.
RollbackFails ==
    /\ watch = "counted" /\ prev # NoFile
    /\ watch' = "off"
    /\ Fault /\ shaky' = TRUE
    /\ UNCHANGED <<fileVars, loopVars, lane, order, accepted, gaveUp, orders, kills>>

ProcessEnds ==
    /\ run # Down /\ kills < MaxKills
    /\ kills' = kills + 1
    /\ Exit
    /\ UNCHANGED <<fileVars, history, orders, faults>>

StartUp == StartSettled \/ StartWatched \/ StartGivingUp
Watchdog == Elapse \/ IncrementRollbackCount \/ Rollback \/ RollbackFails
            \/ NothingToRestore
ApplyUpdate == Download \/ Backup \/ BackupEnds \/ BackupFails \/ Swap \/ SwapFails
               \/ WriteUpdatePending

UpdateNext ==
    \/ StartUp \/ ResetRollbackCount
    \/ Connect \/ Disconnect \/ OnAcknowledged \/ OnUpdateOutcome
    \/ \E v \in Versions : StartUpdate(v)
    \/ ApplyUpdate \/ Watchdog \/ ProcessEnds

\* The service manager restarts the agent and its timer runs; the server, the
\* download and the administrators need not do anything.
UpdateSpec ==
    /\ UpdateInit /\ [][UpdateNext]_updateVars
    /\ WF_updateVars(StartUp) /\ WF_updateVars(Watchdog)

-----------------------------------------------------------------------------
(* Properties *)

\* What a watchdog would restore is the version the server last acknowledged,
\* whole, and what is installed is a whole binary, wherever the process ended and
\* whatever was ordered in between, unless the backup failed or was taken before
\* the running version was settled, a marker could not be removed, or the watched
\* version was acknowledged too late (apply_update, on_acknowledged, start_update_watchdog).
RestoresAccepted ==
    shaky \/ /\ bin # TornFile
             /\ (watch # "off" /\ prev # NoFile /\ accepted # run) => prev = accepted

\* A version the server never acknowledges does not stay installed once a watchdog
\* has started beside a sound backup, however often the process dies, unless the
\* count of attempts has reached its limit (spawn_update_watchdog).
MuteGoesBack ==
    \A v \in Mute :
        (run = v /\ watch = "asleep" /\ prev # NoFile) ~> (bin # v \/ shaky \/ gaveUp)

\* Agent-Updates.md: "the running binary is kept alongside the new one before the
\* swap".
BackupKept == [][Swap => prev = run]_updateVars

\* Agent-Updates.md: "If the server accepts it, the marker is cleared and the update
\* is confirmed": an acknowledged version is not rolled back.
ConfirmedStays == [][Rollback => accepted # run]_updateVars
=============================================================================
