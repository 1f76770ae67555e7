---------------------------- MODULE AgentProofs -----------------------------
(***************************************************************************)
(* The files an agent lives by, its binary and its identity, wherever the  *)
(* process ends or the power is cut.  A rollback restores what the server  *)
(* acknowledged, for any number of versions, orders, ends of the process   *)
(* and failed file operations.  And for any number of servers, devices,    *)
(* renewals, bundles, installs, power cuts, dying processes and failed     *)
(* saves: a save is all there or not there at all, a restart loads what    *)
(* the agent presents, and recovery leaves one identity.                   *)
(***************************************************************************)
EXTENDS AgentUpdate, AgentLifecycle, TLAPS

-----------------------------------------------------------------------------
(* Self-update *)

\* What runs is what is installed until an update has swapped it; the tasks live
\* and die with the process, and nothing runs from a torn file.
Installed ==
    /\ run # Down => bin # TornFile
    /\ run # Down /\ lane \notin {"mark", "done"} => bin = run
    /\ (lane # "idle" \/ watch # "off" \/ awaiting) => run # Down

\* A backup taken in time: from its first byte to the marker nobody watches, no
\* marker is on disk, and the version that runs is the acknowledged one.
SoundBackup ==
    /\ lane = "copying" => accepted = run /\ pending = FALSE /\ watch = "off"
    /\ lane \in {"swap", "mark"} =>
         accepted = run /\ prev = run /\ pending = FALSE /\ watch = "off"
    /\ lane = "done" => accepted = run /\ prev = run /\ watch = "off"

\* What is on disk while no backup is under way: a torn backup is never beside a
\* marker or a watchdog, a marker is beside the acknowledged version, and a
\* watched version that is not acknowledged has its marker.
SoundDisk ==
    /\ prev = TornFile => pending = FALSE /\ watch = "off"
    /\ pending => prev \in {NoFile, accepted}
    /\ pending /\ run # Down /\ ~awaiting => accepted = run
    /\ watch # "off" /\ accepted # run => pending
    /\ bin # TornFile

UpdateInv == UpdateTypeOK /\ Installed /\ (shaky \/ (SoundBackup /\ SoundDisk))

\* Every step keeps the types.
LEMMA TypesKept ==
    ASSUME UpdateTypeOK, [UpdateNext]_updateVars
    PROVE  UpdateTypeOK'
<1> USE UpdateAssumption DEF UpdateTypeOK, Versions, NoFile, Down, TornFile, LaneStages
<1>1. CASE StartSettled
    BY <1>1 DEF StartSettled, fileVars, taskVars, history, bounds
<1>2. CASE StartWatched
    BY <1>2 DEF StartWatched, fileVars, history, bounds
<1>3. CASE StartGivingUp
  <2>1. faults' \in 0..MaxFileFaults
    <3>1. faults' = faults \/ Fault
      BY <1>3, Zenon DEF StartGivingUp
    <3> QED
      BY <3>1 DEF Fault
  <2>2. pending' \in BOOLEAN /\ shaky' \in BOOLEAN
    BY <1>3 DEF StartGivingUp, Fault
  <2> QED
    BY <1>3, <2>1, <2>2 DEF StartGivingUp, taskVars
<1>4. CASE ResetRollbackCount
  <2>1. faults' \in 0..MaxFileFaults
    BY <1>4 DEF ResetRollbackCount, Fault
  <2>2. count' \in Nat
    BY <1>4 DEF ResetRollbackCount, Fault
  <2>3. resetting' \in BOOLEAN
    BY <1>4 DEF ResetRollbackCount
  <2>4. /\ UNCHANGED <<bin, prev, pending, run, linked, awaiting, watch, lane, order>>
        /\ UNCHANGED <<accepted, shaky, gaveUp, orders, kills>>
    BY <1>4 DEF ResetRollbackCount, taskVars, history
  <2> QED
    BY <2>1, <2>2, <2>3, <2>4
<1>5. CASE Connect
    BY <1>5 DEF Connect, AtRest, fileVars, taskVars, history, bounds
<1>6. CASE Disconnect
    BY <1>6, ZenonT(60) DEF Disconnect, AtRest, fileVars, taskVars, history, bounds
<1>7. CASE OnAcknowledged
  <2>1. faults' \in 0..MaxFileFaults
    BY <1>7 DEF OnAcknowledged, AtRest, Acknowledge, StandDown, Fault
  <2>2. pending' \in BOOLEAN /\ shaky' \in BOOLEAN
    BY <1>7 DEF OnAcknowledged, AtRest, Acknowledge, StandDown, Fault
  <2> QED
    BY <1>7, <2>1, <2>2 DEF OnAcknowledged, AtRest, Acknowledge, StandDown
<1>8. CASE OnUpdateOutcome
    BY <1>8 DEF OnUpdateOutcome, AtRest, Exit, fileVars, history, bounds
<1>9. ASSUME NEW v \in Versions, StartUpdate(v) PROVE UpdateTypeOK'
    BY <1>9 DEF StartUpdate, AtRest, fileVars, loopVars, history
<1>10. CASE Download
    BY <1>10 DEF Download, Go, fileVars, loopVars, history, bounds
<1>11. CASE Backup
    BY <1>11 DEF Backup, BackupBegins, Go, loopVars, bounds
<1>12. CASE BackupEnds
    BY <1>12 DEF BackupEnds, Go, loopVars, history, bounds
<1>13. CASE BackupFails
    BY <1>13 DEF BackupFails, Go, Fault, fileVars, loopVars
<1>14. CASE Swap
    BY <1>14 DEF Swap, Go, loopVars, bounds
<1>15. CASE WriteUpdatePending
  <2>1. faults' \in 0..MaxFileFaults
    BY <1>15 DEF WriteUpdatePending, Go, Fault
  <2>2. pending' \in BOOLEAN
    BY <1>15 DEF WriteUpdatePending, Go, Fault
  <2> QED
    BY <1>15, <2>1, <2>2 DEF WriteUpdatePending, Go, loopVars, history
<1>16. CASE Elapse
    BY <1>16 DEF Elapse, fileVars, loopVars, history, bounds
<1>17. CASE IncrementRollbackCount
  <2>1. faults' \in 0..MaxFileFaults
    BY <1>17 DEF IncrementRollbackCount, Fault
  <2>2. count' \in Nat
    BY <1>17 DEF IncrementRollbackCount, Fault
  <2> QED
    BY <1>17, <2>1, <2>2 DEF IncrementRollbackCount, loopVars, history
<1>18. CASE Rollback
    BY <1>18 DEF Rollback, Exit, history, bounds
<1>19. CASE NothingToRestore
    BY <1>19 DEF NothingToRestore, fileVars, loopVars, history, bounds
<1>20. CASE ProcessEnds
  <2>1. kills' \in 0..MaxKills
    BY <1>20 DEF ProcessEnds
  <2>2. run' \in Versions \cup {Down} /\ lane' \in LaneStages /\ order' \in Versions
    BY <1>20 DEF ProcessEnds, Exit
  <2> QED
    BY <1>20, <2>1, <2>2 DEF ProcessEnds, Exit, fileVars, history
<1>21. CASE UNCHANGED updateVars
    BY <1>21 DEF updateVars
<1>22. CASE SwapFails
    BY <1>22 DEF SwapFails, Go, Fault, fileVars, loopVars, history
<1>23. CASE RollbackFails
    BY <1>23 DEF RollbackFails, Fault, fileVars, loopVars
<1> QED
    BY <1>1, <1>2, <1>3, <1>4, <1>5, <1>6, <1>7, <1>8, <1>9, <1>10, <1>11, <1>12, <1>13,
        <1>14, <1>15, <1>16, <1>17, <1>18, <1>19, <1>20, <1>21, <1>22, <1>23 DEF UpdateNext, StartUp,
        ApplyUpdate, Watchdog

\* Every step keeps the running version and the installed one together.
LEMMA InstalledKept ==
    ASSUME UpdateTypeOK, Installed, [UpdateNext]_updateVars
    PROVE  Installed'
<1> USE UpdateAssumption DEF UpdateTypeOK, Installed, Versions, NoFile, Down, TornFile, LaneStages
<1>1. CASE StartSettled
    BY <1>1 DEF StartSettled, fileVars, taskVars, history, bounds
<1>2. CASE StartWatched
    BY <1>2 DEF StartWatched, fileVars, history, bounds
<1>3. CASE StartGivingUp
    BY <1>3 DEF StartGivingUp, Fault, taskVars
<1>4. CASE ResetRollbackCount
    BY <1>4 DEF ResetRollbackCount, Fault, taskVars, history
<1>5. CASE Connect
    BY <1>5 DEF Connect, AtRest, fileVars, taskVars, history, bounds
<1>6. CASE Disconnect
    BY <1>6 DEF Disconnect, AtRest, fileVars, taskVars, history, bounds
<1>7. CASE OnAcknowledged
    BY <1>7 DEF OnAcknowledged, AtRest, Acknowledge, StandDown, Fault
<1>8. CASE OnUpdateOutcome
    BY <1>8 DEF OnUpdateOutcome, AtRest, Exit, fileVars, history, bounds
<1>9. ASSUME NEW v \in Versions, StartUpdate(v) PROVE Installed'
    BY <1>9 DEF StartUpdate, AtRest, fileVars, loopVars, history
<1>10. CASE Download
    BY <1>10 DEF Download, Go, fileVars, loopVars, history, bounds
<1>11. CASE Backup
    BY <1>11 DEF Backup, BackupBegins, Go, loopVars, bounds
<1>12. CASE BackupEnds
    BY <1>12 DEF BackupEnds, Go, loopVars, history, bounds
<1>13. CASE BackupFails
    BY <1>13 DEF BackupFails, Go, Fault, fileVars, loopVars
<1>14. CASE Swap
    BY <1>14 DEF Swap, Go, loopVars, bounds
<1>15. CASE WriteUpdatePending
    BY <1>15 DEF WriteUpdatePending, Go, Fault, loopVars, history
<1>16. CASE Elapse
    BY <1>16 DEF Elapse, fileVars, loopVars, history, bounds
<1>17. CASE IncrementRollbackCount
    BY <1>17 DEF IncrementRollbackCount, Fault, loopVars, history
<1>18. CASE Rollback
    BY <1>18 DEF Rollback, Exit, history, bounds
<1>19. CASE NothingToRestore
    BY <1>19 DEF NothingToRestore, fileVars, loopVars, history, bounds
<1>20. CASE ProcessEnds
    BY <1>20 DEF ProcessEnds, Exit, fileVars, history
<1>21. CASE UNCHANGED updateVars
    BY <1>21 DEF updateVars
<1>22. CASE SwapFails
    BY <1>22 DEF SwapFails, Go, Fault, fileVars, loopVars, history
<1>23. CASE RollbackFails
    BY <1>23 DEF RollbackFails, Fault, fileVars, loopVars
<1> QED
    BY <1>1, <1>2, <1>3, <1>4, <1>5, <1>6, <1>7, <1>8, <1>9, <1>10, <1>11, <1>12, <1>13,
        <1>14, <1>15, <1>16, <1>17, <1>18, <1>19, <1>20, <1>21, <1>22, <1>23 DEF UpdateNext, StartUp,
        ApplyUpdate, Watchdog

\* Every step keeps a sound backup sound, or is one of the excused ones.
LEMMA SoundKept ==
    ASSUME UpdateInv, [UpdateNext]_updateVars
    PROVE  shaky' \/ (SoundBackup /\ SoundDisk)'
<1> USE UpdateAssumption DEF UpdateInv, UpdateTypeOK, Installed, SoundBackup, SoundDisk,
    Versions, NoFile, Down, TornFile, LaneStages
<1>1. CASE StartSettled
    BY <1>1 DEF StartSettled, fileVars, taskVars, history, bounds
<1>2. CASE StartWatched
    BY <1>2 DEF StartWatched, fileVars, history, bounds
<1>3. CASE StartGivingUp
    BY <1>3 DEF StartGivingUp, Fault, taskVars
<1>4. CASE ResetRollbackCount
    BY <1>4 DEF ResetRollbackCount, Fault, taskVars, history
<1>5. CASE Connect
    BY <1>5 DEF Connect, AtRest, fileVars, taskVars, history, bounds
<1>6. CASE Disconnect
    BY <1>6 DEF Disconnect, AtRest, fileVars, taskVars, history, bounds
<1>7. CASE OnAcknowledged
    BY <1>7 DEF OnAcknowledged, AtRest, Acknowledge, StandDown, Fault
<1>8. CASE OnUpdateOutcome
    BY <1>8 DEF OnUpdateOutcome, AtRest, Exit, fileVars, history, bounds
<1>9. ASSUME NEW v \in Versions, StartUpdate(v) PROVE shaky' \/ (SoundBackup /\ SoundDisk)'
    BY <1>9 DEF StartUpdate, AtRest, fileVars, loopVars, history
<1>10. CASE Download
    BY <1>10 DEF Download, Go, fileVars, loopVars, history, bounds
<1>11. CASE Backup
    BY <1>11 DEF Backup, BackupBegins, Go, loopVars, bounds
<1>12. CASE BackupEnds
    BY <1>12 DEF BackupEnds, Go, loopVars, history, bounds
<1>13. CASE BackupFails
    BY <1>13 DEF BackupFails, Go, Fault, fileVars, loopVars
<1>14. CASE Swap
    BY <1>14 DEF Swap, Go, loopVars, bounds
<1>15. CASE WriteUpdatePending
    BY <1>15 DEF WriteUpdatePending, Go, Fault, loopVars, history
<1>16. CASE Elapse
    BY <1>16 DEF Elapse, fileVars, loopVars, history, bounds
<1>17. CASE IncrementRollbackCount
    BY <1>17 DEF IncrementRollbackCount, Fault, loopVars, history
<1>18. CASE Rollback
    BY <1>18 DEF Rollback, Exit, history, bounds
<1>19. CASE NothingToRestore
    BY <1>19 DEF NothingToRestore, fileVars, loopVars, history, bounds
<1>20. CASE ProcessEnds
    BY <1>20 DEF ProcessEnds, Exit, fileVars, history
<1>21. CASE UNCHANGED updateVars
    BY <1>21 DEF updateVars
<1>22. CASE SwapFails
    BY <1>22 DEF SwapFails, Go, Fault, fileVars, loopVars, history
<1>23. CASE RollbackFails
    BY <1>23 DEF RollbackFails, Fault, fileVars, loopVars
<1> QED
    BY <1>1, <1>2, <1>3, <1>4, <1>5, <1>6, <1>7, <1>8, <1>9, <1>10, <1>11, <1>12, <1>13,
        <1>14, <1>15, <1>16, <1>17, <1>18, <1>19, <1>20, <1>21, <1>22, <1>23 DEF UpdateNext, StartUp,
        ApplyUpdate, Watchdog

\* The types and the strengthened invariant hold in every reachable state.
LEMMA UpdateInvariant == UpdateSpec => []UpdateInv
<1>1. UpdateInit => UpdateInv
  <2> SUFFICES ASSUME UpdateInit PROVE UpdateInv
    OBVIOUS
  <2> USE UpdateAssumption DEF UpdateInit, Versions, NoFile, Down, TornFile, LaneStages
  <2>1. UpdateTypeOK
    <3>1. 1 \in Versions
      OBVIOUS
    <3>2. pending \in BOOLEAN /\ linked \in BOOLEAN /\ awaiting \in BOOLEAN
          /\ resetting \in BOOLEAN /\ shaky \in BOOLEAN /\ gaveUp \in BOOLEAN
      OBVIOUS
    <3> QED
      BY <3>1, <3>2 DEF UpdateTypeOK
  <2>2. Installed /\ SoundBackup /\ SoundDisk
    BY DEF Installed, SoundBackup, SoundDisk
  <2> QED
    BY <2>1, <2>2 DEF UpdateInv
<1>2. UpdateInv /\ [UpdateNext]_updateVars => UpdateInv'
    BY TypesKept, InstalledKept, SoundKept DEF UpdateInv
<1> QED
    BY <1>1, <1>2, PTL DEF UpdateSpec

\* The types of the files, of the agent's tasks and of the history are right in
\* every reachable state, for any number of versions, orders, kills and faults
\* (update.rs, main.rs).
THEOREM UpdateTypesHold == UpdateSpec => []UpdateTypeOK
<1>1. UpdateInv => UpdateTypeOK
    BY DEF UpdateInv
<1> QED
    BY <1>1, UpdateInvariant, PTL

\* Whatever the number of versions, orders, ends of the process and failed file
\* operations: unless the backup failed or was taken before the running version
\* was settled, what is installed is whole and what a watchdog restores is what the
\* server acknowledged (apply_update, start_update_watchdog, on_acknowledged).
THEOREM RestoresAcceptedHolds == UpdateSpec => []RestoresAccepted
<1>1. UpdateInv => RestoresAccepted
    BY DEF UpdateInv, SoundDisk, RestoresAccepted
<1> QED
    BY <1>1, UpdateInvariant, PTL

-----------------------------------------------------------------------------
(* The identity store *)

Disks == [live : [AllEntries -> Values], next : [AllEntries -> Values]]
Views(d) == [live : [Entries[d] -> Values], next : [Entries[d] -> Values]]
Saved == Files \union {"note"}

Staging == {"stage", "fill", "sync_staged"}
Marking == {"mark", "mark_fill", "mark_rename"}
Finishing == {"rename", "sync_renamed", "consume", "sync_consumed", "unmark"}
Saving == Staging \union Marking \union Finishing \union {"mark_sync", "sync_unmarked"}
Returned == {"enrolled", "renewed", "bundled", "restart"}
Removing == {"rem_mark", "rem_wipe", "rem_trust", "rem_unit", "rem_last"}
\* Places where no save is under way nor left unsettled.
Quiet == {"run", "wipe", "enroll", "gone"} \union Removing
Places == Saving \union Returned \union Quiet
          \union {"down", "recover", "read_marker", "undo_marker", "decide"}

-----------------------------------------------------------------------------
\* The predicates below are about P, what a power cut may leave of each directory, and D,
\* what the disk holds; they are used of past and disk before and after a step.

\* The disk and every view of it hold entries; what the disk holds may survive a power cut.
Sound(P, D) ==
    /\ D \in Disks
    /\ DOMAIN P = Dirs
    /\ \A d \in Dirs : P[d] \subseteq Views(d) /\ View(D, d) \in P[d]
DiskOK == Sound(past, disk)

\* What a start may find.
Findable(P) == {Recovered(Joined(t, v)) : t \in P["trust"], v \in P["data"]}

\* Where the thread stands, the save it has under way and what was counted.
Counted == n \in [Events -> Nat] /\ \A k \in Events : n[k] <= Bound[k]
ControlOK ==
    /\ pc \in Places
    /\ Counted
    /\ pc \in {"stage", "fill", "rename"} => i \in 1 .. Len(job.order)
    /\ pc \notin {"stage", "fill", "rename"} => i = 1
    /\ IF before = {} THEN job = None ELSE job \in Jobs
    /\ pc \in Quiet => before = {}
    /\ pc \in Saving \union Returned => before # {}
    /\ pc \in {"recover", "read_marker", "undo_marker"} => after = "decide"
    /\ pc \in Returned => after = pc
    /\ pc \in Saving => after \in Returned \union {"decide"}
    /\ pc \in Staging \union Marking \union {"mark_sync"} => after \in Returned
    /\ pc \in {"wipe", "enroll"} => after \in {"enrolled", "restart"}
    /\ ~unit => pc \in {"rem_last", "gone"}

\* A note on disk, now or after a power cut, is a note, and so is the one enrolled with.
NotesIn(P) == \A v \in P["data"] : v.live["note"] \in Notes \union {None}
NotesOK == NotesIn(past) /\ (pc \in {"wipe", "enroll"} => using \in Notes)

-----------------------------------------------------------------------------
\* What the view v of directory d holds of the save j.
StagedIn(v, d, j) == \A f \in FilesOf(j) \intersect Entries[d] : v.next[f] = j.put[f]
PlacedIn(v, d, j) == \A f \in FilesOf(j) \intersect Entries[d] : v.next[f] = None /\ v.live[f] = j.put[f]
HeldIn(v, d, j) == \A f \in FilesOf(j) \intersect Entries[d] :
                      v.next[f] = j.put[f] \/ (v.next[f] = None /\ v.live[f] = j.put[f])

Unmarked(P) == \A v \in P["data"] : v.live["marker"] = None
Staged(P, j) == \A d \in Dirs : \A v \in P[d] : StagedIn(v, d, j)
InPlace(P, j) == \A d \in Dirs : \A v \in P[d] : PlacedIn(v, d, j)
Holding(P, j) == \A d \in Dirs : \A v \in P[d] : HeldIn(v, d, j)
MarkedIf(P, j) == \A v \in P["data"] : v.live["marker"] \in {None, j}
Marked(P, j) == Holding(P, j) /\ \A v \in P["data"] : v.live["marker"] = j

\* A marker is on disk only while every file it names is staged or in place.
StoreOK ==
    /\ pc \in Staging \union Marking \union Returned \union Quiet \union {"undo_marker", "decide"}
         => Unmarked(past)
    /\ pc \in {"stage", "fill"} =>
         \A k \in 1 .. i - 1 : disk.next[job.order[k]] = job.put[job.order[k]]
    /\ pc = "sync_staged" => \A f \in FilesOf(job) : disk.next[f] = job.put[f]
    /\ pc \in Marking \union {"mark_sync"} => Staged(past, job)
    /\ pc = "mark_rename" => disk.next["marker"] = job
    /\ pc = "mark_sync" => MarkedIf(past, job) /\ disk.live["marker"] = job
    /\ pc \in Finishing => Marked(past, job)
    /\ pc = "rename" => \A k \in 1 .. i - 1 : disk.next[job.order[k]] = None
    /\ pc = "sync_renamed" => \A f \in FilesOf(job) : disk.next[f] = None
    /\ pc \in {"consume", "sync_consumed", "unmark", "sync_unmarked"} \union Returned
         => InPlace(past, job)
    /\ pc = "sync_unmarked" => MarkedIf(past, job) /\ disk.live["marker"] = None
    /\ pc \in {"down", "recover", "read_marker"} =>
         Unmarked(past) \/ (before # {} /\ Marked(past, job))

-----------------------------------------------------------------------------
\* The identity in one view of the data folder is whole, and the master keys are its server's.
Whole(v) ==
    Exists(v) => /\ v.live["cert"] \in Certs
                 /\ v.live["key"] = v.live["cert"]
                 /\ v.live["device_id"] = Device(v.live["cert"].srv, v.live["cert"].dev)
TrustedIn(t, v) ==
    Exists(v) => t.live["server_ca"] \in
                    {Bundle(v.live["cert"].srv, b) : b \in 0 .. MaxBundles} \union {None}

\* Every power cut leaves one whole identity or none, and an identity on disk is the only one.
Settled(P, D) ==
    /\ \A v \in P["data"] : Whole(v) /\ \A t \in P["trust"] : TrustedIn(t, v)
    /\ Exists(D) => \A v \in P["data"] : \A f \in IdentityFiles : v.live[f] = D.live[f]

\* The certificate c is the identity that any power cut leaves.
Presented(P, c) ==
    /\ c \in Certs
    /\ \A v \in P["data"] : /\ v.live["cert"] = c /\ v.live["key"] = c
                            /\ v.live["device_id"] = Device(c.srv, c.dev)

\* A bundle under way is of the server that any identity on disk is from.
SameServer(P, j) ==
    \A v \in P["data"] : Exists(v) => j.put["server_ca"].srv = v.live["cert"].srv

Renewing(j) == \E c \in Certs, b \in 0 .. MaxBundles : j = RenewalJob(c, b)
Enrolling(j) == \E s \in Servers, d \in 1 .. MaxDevices : j = EnrollJob(s, d)
Bundling(j) == \E s \in Servers, b \in 0 .. MaxBundles : j = BundleJob(s, b)

IdentityOK ==
    /\ Settled(past, disk) \/ (before # {} /\ Marked(past, job) /\ ~Bundling(job))
    /\ before # {} /\ Bundling(job) => SameServer(past, job)
    /\ pc = "run" => Presented(past, mem)
    /\ pc \in Saving \union Returned /\ after = "bundled" => Presented(past, mem) /\ Bundling(job)
    /\ pc \in Saving \union Returned /\ after = "renewed" => Renewing(job)
    /\ pc \in Saving \union Returned /\ after \in {"enrolled", "restart"} => Enrolling(job)
    /\ pc \in Staging \union Marking /\ after = "renewed" => Presented(past, mem)

IInv == DiskOK /\ ControlOK /\ NotesOK /\ StoreOK /\ AllOrNothing /\ IdentityOK

-----------------------------------------------------------------------------
(* Entries, views and jobs *)

\* What the two directories hold.
LEMMA EntryFacts ==
    /\ Dirs = {"trust", "data"}
    /\ Entries["trust"] = {"server_ca"}
    /\ Entries["data"] = {"device_id", "cert", "key", "update_key", "marker", "note", "removed"}
    /\ AllEntries = {"server_ca", "device_id", "cert", "key", "update_key", "marker", "note", "removed"}
    /\ Files = {"server_ca", "device_id", "cert", "key", "update_key"}
    /\ Saved = {"server_ca", "device_id", "cert", "key", "update_key", "note"}
  <1>1. Entries["trust"] = {"server_ca"}
    BY DEF Entries
  <1>2. Files = {"server_ca", "device_id", "cert", "key", "update_key"}
    BY DEF Files, IdentityFiles
  <1>3. Entries["data"] = {"device_id", "cert", "key", "update_key", "marker", "note", "removed"}
    BY <1>2 DEF Entries
  <1>4. AllEntries = Entries["trust"] \union Entries["data"]
    BY DEF AllEntries, Dirs
  <1> QED BY <1>1, <1>2, <1>3, <1>4 DEF Dirs, Saved

\* A view of a directory of a disk holds that disk's entries.
LEMMA ViewFacts ==
    ASSUME NEW D \in Disks, NEW d \in Dirs
    PROVE  /\ View(D, d) \in Views(d)
           /\ \A e \in Entries[d] : /\ View(D, d).live[e] = D.live[e]
                                   /\ View(D, d).next[e] = D.next[e]
  <1>1. Entries[d] \subseteq AllEntries
    BY DEF AllEntries
  <1> QED BY <1>1 DEF View, Views, Disks

\* The two directories of a disk put together.
LEMMA JoinFacts ==
    ASSUME NEW t \in Views("trust"), NEW v \in Views("data")
    PROVE  /\ Joined(t, v) \in Disks
           /\ View(Joined(t, v), "trust") = t
           /\ View(Joined(t, v), "data") = v
           /\ Joined(t, v).live["server_ca"] = t.live["server_ca"]
           /\ Joined(t, v).next["server_ca"] = t.next["server_ca"]
           /\ \A e \in Entries["data"] : /\ Joined(t, v).live[e] = v.live[e]
                                        /\ Joined(t, v).next[e] = v.next[e]
  <1>1. /\ t.live \in [Entries["trust"] -> Values] /\ t.next \in [Entries["trust"] -> Values]
        /\ v.live \in [Entries["data"] -> Values] /\ v.next \in [Entries["data"] -> Values]
    BY DEF Views
  <1>2. ASSUME NEW a \in [Entries["trust"] -> Values], NEW b \in [Entries["data"] -> Values]
        PROVE  /\ Beside(a, b) \in [AllEntries -> Values]
               /\ Beside(a, b)["server_ca"] = a["server_ca"]
               /\ \A e \in Entries["data"] : Beside(a, b)[e] = b[e]
    BY EntryFacts DEF Beside
  <1>3. /\ Joined(t, v).live = Beside(t.live, v.live)
        /\ Joined(t, v).next = Beside(t.next, v.next)
    BY DEF Joined
  <1>4. Joined(t, v) \in Disks
    BY <1>1, <1>2 DEF Joined, Disks
  <1>5. View(Joined(t, v), "trust") = t
    BY <1>1, <1>2, <1>3, EntryFacts DEF View, Views
  <1>6. View(Joined(t, v), "data") = v
    BY <1>1, <1>2, <1>3, EntryFacts DEF View, Views
  <1> QED BY <1>1, <1>2, <1>3, <1>4, <1>5, <1>6

\* One more event stays within its bound.
LEMMA CountFacts ==
    ASSUME NEW k \in Events, Count(k)
    PROVE  n[k] < Bound[k] /\ n' = [n EXCEPT ![k] = @ + 1]
  BY DEF Count

\* The files a save of each kind writes, in order.
LEMMA EnrollFacts ==
    ASSUME NEW s \in Servers, NEW d \in 1 .. MaxDevices, NEW j, j = EnrollJob(s, d)
    PROVE  /\ Len(j.order) = 5 /\ DOMAIN j.order = 1 .. 5
           /\ \A k, m \in 1 .. 5 : k # m => j.order[k] # j.order[m]
           /\ FilesOf(j) = Files
           /\ j.put["server_ca"] = Bundle(s, 0) /\ j.put["update_key"] = Key(s)
           /\ j.put["device_id"] = Device(s, d)
           /\ j.put["cert"] = Cert(s, d, 0) /\ j.put["key"] = Cert(s, d, 0)
           /\ j.consumes \in BOOLEAN
  <1>1. /\ j.order = <<"server_ca", "update_key", "device_id", "cert", "key">>
        /\ j.consumes = TRUE
    BY DEF EnrollJob
  <1>2. /\ j.put["server_ca"] = Bundle(s, 0) /\ j.put["update_key"] = Key(s)
        /\ j.put["device_id"] = Device(s, d)
        /\ j.put["cert"] = Cert(s, d, 0) /\ j.put["key"] = Cert(s, d, 0)
    BY EntryFacts DEF EnrollJob
  <1>3. /\ Len(j.order) = 5 /\ DOMAIN j.order = 1 .. 5
        /\ j.order[1] = "server_ca" /\ j.order[2] = "update_key" /\ j.order[3] = "device_id"
        /\ j.order[4] = "cert" /\ j.order[5] = "key"
    BY <1>1
  <1>4. 1 .. 5 = {1, 2, 3, 4, 5}
    OBVIOUS
  <1>5. FilesOf(j) = Files
    BY <1>3, <1>4, EntryFacts DEF FilesOf
  <1>6. \A k, m \in 1 .. 5 : k # m => j.order[k] # j.order[m]
    BY <1>3, <1>4
  <1> QED BY <1>1, <1>2, <1>3, <1>5, <1>6

LEMMA RenewalFacts ==
    ASSUME NEW c \in Certs, NEW b \in 0 .. MaxBundles, NEW j, j = RenewalJob(c, b)
    PROVE  /\ Len(j.order) = 4 /\ DOMAIN j.order = 1 .. 4
           /\ \A k, m \in 1 .. 4 : k # m => j.order[k] # j.order[m]
           /\ FilesOf(j) = {"server_ca", "device_id", "cert", "key"}
           /\ j.put["server_ca"] = Bundle(c.srv, b)
           /\ j.put["device_id"] = Device(c.srv, c.dev)
           /\ j.put["cert"] = c /\ j.put["key"] = c
           /\ j.consumes \in BOOLEAN
  <1>1. /\ j.order = <<"server_ca", "device_id", "cert", "key">>
        /\ j.consumes = FALSE
    BY DEF RenewalJob
  <1>2. /\ j.put["server_ca"] = Bundle(c.srv, b)
        /\ j.put["device_id"] = Device(c.srv, c.dev)
        /\ j.put["cert"] = c /\ j.put["key"] = c
    BY EntryFacts DEF RenewalJob
  <1>3. /\ Len(j.order) = 4 /\ DOMAIN j.order = 1 .. 4
        /\ j.order[1] = "server_ca" /\ j.order[2] = "device_id"
        /\ j.order[3] = "cert" /\ j.order[4] = "key"
    BY <1>1
  <1>4. 1 .. 4 = {1, 2, 3, 4}
    OBVIOUS
  <1>5. FilesOf(j) = {"server_ca", "device_id", "cert", "key"}
    BY <1>3, <1>4 DEF FilesOf
  <1>6. \A k, m \in 1 .. 4 : k # m => j.order[k] # j.order[m]
    BY <1>3, <1>4
  <1> QED BY <1>1, <1>2, <1>3, <1>5, <1>6

LEMMA BundleFacts ==
    ASSUME NEW s \in Servers, NEW b \in 0 .. MaxBundles, NEW j, j = BundleJob(s, b)
    PROVE  /\ Len(j.order) = 1 /\ DOMAIN j.order = 1 .. 1
           /\ FilesOf(j) = {"server_ca"}
           /\ j.put["server_ca"] = Bundle(s, b)
           /\ j.consumes \in BOOLEAN
  <1>1. /\ j.order = <<"server_ca">> /\ j.consumes = FALSE
        /\ j.put["server_ca"] = Bundle(s, b)
    BY DEF BundleJob
  <1>2. Len(j.order) = 1 /\ DOMAIN j.order = 1 .. 1 /\ j.order[1] = "server_ca"
    BY <1>1
  <1>3. 1 .. 1 = {1}
    OBVIOUS
  <1> QED BY <1>1, <1>2, <1>3 DEF FilesOf

\* A save is of one of the three kinds.
LEMMA JobKinds ==
    ASSUME NEW j \in Jobs
    PROVE  Enrolling(j) \/ Renewing(j) \/ Bundling(j)
  BY DEF Jobs, Enrolling, Renewing, Bundling

\* What holds of every save: distinct files, each with contents to put, and a marker that
\* can be told from a missing or a torn one.
LEMMA JobFacts ==
    ASSUME NEW j \in Jobs
    PROVE  /\ Readable(j)
           /\ Len(j.order) \in Nat \ {0} /\ DOMAIN j.order = 1 .. Len(j.order)
           /\ \A k, m \in 1 .. Len(j.order) : k # m => j.order[k] # j.order[m]
           /\ "server_ca" \in FilesOf(j) /\ FilesOf(j) \subseteq Files
           /\ \A f \in FilesOf(j) : j.put[f] \in Contents
           /\ j.put["server_ca"] \in Bundles
           /\ j.consumes \in BOOLEAN
  <1>0. Readable(j)
    BY AbsenceAssumption DEF Readable
  <1>c. \A s \in Servers, d \in 1 .. MaxDevices :
          /\ Bundle(s, 0) \in Bundles /\ Key(s) \in Contents
          /\ Device(s, d) \in Contents /\ Cert(s, d, 0) \in Certs
    BY BoundAssumption DEF Bundle, Bundles, Key, Device, Cert, Certs, Contents
  <1>d. \A c \in Certs : c.srv \in Servers /\ c.dev \in 1 .. MaxDevices
    BY DEF Certs
  <1>e. \A s \in Servers, b \in 0 .. MaxBundles : Bundle(s, b) \in Bundles
    BY DEF Bundle, Bundles
  <1>f. Bundles \subseteq Contents /\ Certs \subseteq Contents
    BY DEF Contents
  <1>1. CASE Enrolling(j)
    <2>1. PICK s \in Servers, d \in 1 .. MaxDevices : j = EnrollJob(s, d)
      BY <1>1 DEF Enrolling
    <2>2. /\ Len(j.order) = 5 /\ DOMAIN j.order = 1 .. 5
          /\ \A k, m \in 1 .. 5 : k # m => j.order[k] # j.order[m]
          /\ FilesOf(j) = Files
          /\ j.put["server_ca"] = Bundle(s, 0) /\ j.put["update_key"] = Key(s)
          /\ j.put["device_id"] = Device(s, d)
          /\ j.put["cert"] = Cert(s, d, 0) /\ j.put["key"] = Cert(s, d, 0)
          /\ j.consumes \in BOOLEAN
      BY <2>1, EnrollFacts
    <2>3. \A f \in FilesOf(j) : j.put[f] \in Contents
      BY <2>2, <1>c, <1>f, EntryFacts
    <2>4. j.put["server_ca"] \in Bundles
      BY <2>2, <1>c
    <2> QED BY <1>0, <2>2, <2>3, <2>4, EntryFacts
  <1>2. CASE Renewing(j)
    <2>1. PICK c \in Certs, b \in 0 .. MaxBundles : j = RenewalJob(c, b)
      BY <1>2 DEF Renewing
    <2>2. /\ Len(j.order) = 4 /\ DOMAIN j.order = 1 .. 4
          /\ \A k, m \in 1 .. 4 : k # m => j.order[k] # j.order[m]
          /\ FilesOf(j) = {"server_ca", "device_id", "cert", "key"}
          /\ j.put["server_ca"] = Bundle(c.srv, b)
          /\ j.put["device_id"] = Device(c.srv, c.dev)
          /\ j.put["cert"] = c /\ j.put["key"] = c
          /\ j.consumes \in BOOLEAN
      BY <2>1, RenewalFacts
    <2>3. \A f \in FilesOf(j) : j.put[f] \in Contents
      BY <2>2, <1>c, <1>d, <1>e, <1>f
    <2>4. j.put["server_ca"] \in Bundles
      BY <2>2, <1>d, <1>e
    <2> QED BY <1>0, <2>2, <2>3, <2>4, EntryFacts
  <1>3. CASE Bundling(j)
    <2>1. PICK s \in Servers, b \in 0 .. MaxBundles : j = BundleJob(s, b)
      BY <1>3 DEF Bundling
    <2>2. /\ Len(j.order) = 1 /\ DOMAIN j.order = 1 .. 1
          /\ FilesOf(j) = {"server_ca"}
          /\ j.put["server_ca"] = Bundle(s, b)
          /\ j.consumes \in BOOLEAN
      BY <2>1, BundleFacts
    <2>3. j.put["server_ca"] \in Bundles
      BY <2>2, <1>e
    <2> QED BY <1>0, <1>f, <2>2, <2>3, EntryFacts
  <1> QED BY <1>1, <1>2, <1>3, JobKinds

\* The identity a save of one writes is whole, with the master keys of its server; the save
\* of a bundle leaves the identity alone.
LEMMA IdentityJob ==
    ASSUME NEW j \in Jobs
    PROVE  /\ Bundling(j) => FilesOf(j) = {"server_ca"}
           /\ Enrolling(j) \/ Renewing(j) => ~Bundling(j)
           /\ ~Bundling(j) =>
                /\ IdentityFiles \subseteq FilesOf(j)
                /\ j.put["cert"] \in Certs /\ j.put["key"] = j.put["cert"]
                /\ j.put["device_id"] = Device(j.put["cert"].srv, j.put["cert"].dev)
                /\ \E b \in 0 .. MaxBundles : j.put["server_ca"] = Bundle(j.put["cert"].srv, b)
  <1>1. Bundling(j) => FilesOf(j) = {"server_ca"}
    BY BundleFacts DEF Bundling
  <1>2. Enrolling(j) =>
          /\ FilesOf(j) = Files
          /\ j.put["cert"] \in Certs /\ j.put["key"] = j.put["cert"]
          /\ j.put["device_id"] = Device(j.put["cert"].srv, j.put["cert"].dev)
          /\ \E b \in 0 .. MaxBundles : j.put["server_ca"] = Bundle(j.put["cert"].srv, b)
    <2> SUFFICES ASSUME NEW s \in Servers, NEW d \in 1 .. MaxDevices, j = EnrollJob(s, d)
                 PROVE  /\ FilesOf(j) = Files
                        /\ j.put["cert"] \in Certs /\ j.put["key"] = j.put["cert"]
                        /\ j.put["device_id"] = Device(j.put["cert"].srv, j.put["cert"].dev)
                        /\ \E b \in 0 .. MaxBundles : j.put["server_ca"] = Bundle(j.put["cert"].srv, b)
      BY DEF Enrolling
    <2>1. /\ FilesOf(j) = Files
          /\ j.put["server_ca"] = Bundle(s, 0) /\ j.put["device_id"] = Device(s, d)
          /\ j.put["cert"] = Cert(s, d, 0) /\ j.put["key"] = Cert(s, d, 0)
      BY EnrollFacts
    <2>2. Cert(s, d, 0) \in Certs /\ Cert(s, d, 0).srv = s /\ Cert(s, d, 0).dev = d
      BY BoundAssumption DEF Cert, Certs
    <2>3. 0 \in 0 .. MaxBundles
      BY BoundAssumption
    <2> QED BY <2>1, <2>2, <2>3
  <1>3. Renewing(j) =>
          /\ IdentityFiles \subseteq FilesOf(j)
          /\ j.put["cert"] \in Certs /\ j.put["key"] = j.put["cert"]
          /\ j.put["device_id"] = Device(j.put["cert"].srv, j.put["cert"].dev)
          /\ \E b \in 0 .. MaxBundles : j.put["server_ca"] = Bundle(j.put["cert"].srv, b)
    <2> SUFFICES ASSUME NEW c \in Certs, NEW b \in 0 .. MaxBundles, j = RenewalJob(c, b)
                 PROVE  /\ IdentityFiles \subseteq FilesOf(j)
                        /\ j.put["cert"] \in Certs /\ j.put["key"] = j.put["cert"]
                        /\ j.put["device_id"] = Device(j.put["cert"].srv, j.put["cert"].dev)
                        /\ \E bb \in 0 .. MaxBundles : j.put["server_ca"] = Bundle(j.put["cert"].srv, bb)
      BY DEF Renewing
    <2>1. /\ FilesOf(j) = {"server_ca", "device_id", "cert", "key"}
          /\ j.put["server_ca"] = Bundle(c.srv, b) /\ j.put["device_id"] = Device(c.srv, c.dev)
          /\ j.put["cert"] = c /\ j.put["key"] = c
      BY RenewalFacts
    <2> QED BY <2>1 DEF IdentityFiles
  <1>4. IdentityFiles \subseteq Files /\ "cert" \in IdentityFiles
    BY EntryFacts DEF IdentityFiles
  <1> QED BY <1>1, <1>2, <1>3, <1>4, JobKinds

-----------------------------------------------------------------------------
(* What recovery finds *)

LEMMA MayFindFacts == MayFind = Findable(past) /\ MayFind' = Findable(past')
  BY DEF MayFind, CutOutcomes, Findable

\* Without a marker recovery finds what is in place.
LEMMA FoundPlain ==
    ASSUME NEW t \in Views("trust"), NEW v \in Views("data"), v.live["marker"] = None
    PROVE  Recovered(Joined(t, v)) = [e \in Saved |-> Joined(t, v).live[e]]
  <1>1. Joined(t, v).live["marker"] = None
    BY JoinFacts, EntryFacts
  <1>2. ~MarkedWhole(Joined(t, v))
    BY <1>1 DEF MarkedWhole, Readable
  <1> QED BY <1>2 DEF Recovered, Saved

\* With a marker, every file of which is staged or in place, it finds the whole save.
LEMMA FoundMarked ==
    ASSUME NEW t \in Views("trust"), NEW v \in Views("data"), NEW j \in Jobs,
           v.live["marker"] = j, HeldIn(t, "trust", j), HeldIn(v, "data", j)
    PROVE  \A f \in FilesOf(j) : Recovered(Joined(t, v))[f] = j.put[f]
  <1> DEFINE D == Joined(t, v)
  <1>1. D.live["marker"] = j
    BY JoinFacts, EntryFacts
  <1>2. \A f \in FilesOf(j) : f \in Entries["trust"] \union Entries["data"] /\ f \in Saved
    BY JobFacts, EntryFacts
  <1>3. \A f \in FilesOf(j) \intersect Entries["trust"] :
          D.next[f] = j.put[f] \/ (D.next[f] = None /\ D.live[f] = j.put[f])
    BY JoinFacts, EntryFacts DEF HeldIn
  <1>4. \A f \in FilesOf(j) \intersect Entries["data"] :
          D.next[f] = j.put[f] \/ (D.next[f] = None /\ D.live[f] = j.put[f])
    BY JoinFacts DEF HeldIn
  <1>5. \A f \in FilesOf(j) : D.next[f] = j.put[f] \/ (D.next[f] = None /\ D.live[f] = j.put[f])
    BY <1>2, <1>3, <1>4
  <1>6. MarkedWhole(D)
    BY <1>1, <1>5, JobFacts DEF MarkedWhole, HoldsNew
  <1>7. \A f \in FilesOf(j) : j.put[f] # None
    BY JobFacts, AbsenceAssumption
  <1>8. "note" \notin FilesOf(j)
    BY JobFacts, EntryFacts
  <1> HIDE DEF D
  <1>9. ASSUME NEW f \in FilesOf(j)
        PROVE  Recovered(D)[f] = j.put[f]
    <2>1. CASE D.next[f] # None
      <3>1. Recovered(D)[f] = D.next[f]
        BY <1>1, <1>2, <1>6, <1>8, <2>1 DEF Recovered, Saved
      <3> QED BY <3>1, <1>5, <2>1
    <2>2. CASE D.next[f] = None
      <3>1. Recovered(D)[f] = D.live[f]
        BY <1>1, <1>2, <1>6, <1>8, <2>2 DEF Recovered, Saved
      <3> QED BY <3>1, <1>5, <1>7, <2>2
    <2> QED BY <2>1, <2>2
  <1> QED BY <1>9 DEF D

\* Files in place are found, with the marker or without it.
LEMMA FoundPlaced ==
    ASSUME NEW t \in Views("trust"), NEW v \in Views("data"), NEW j \in Jobs,
           v.live["marker"] \in {None, j}, PlacedIn(t, "trust", j), PlacedIn(v, "data", j)
    PROVE  \A f \in FilesOf(j) : Recovered(Joined(t, v))[f] = j.put[f]
  <1>1. CASE v.live["marker"] = j
    <2>1. HeldIn(t, "trust", j) /\ HeldIn(v, "data", j)
      BY DEF HeldIn, PlacedIn
    <2> QED BY <1>1, <2>1, FoundMarked
  <1>2. CASE v.live["marker"] = None
    <2>1. Recovered(Joined(t, v)) = [e \in Saved |-> Joined(t, v).live[e]]
      BY <1>2, FoundPlain
    <2>2. \A f \in FilesOf(j) : f \in Entries["trust"] \union Entries["data"] /\ f \in Saved
      BY JobFacts, EntryFacts
    <2>3. \A f \in FilesOf(j) \intersect Entries["trust"] : Joined(t, v).live[f] = j.put[f]
      BY JoinFacts, EntryFacts DEF PlacedIn
    <2>4. \A f \in FilesOf(j) \intersect Entries["data"] : Joined(t, v).live[f] = j.put[f]
      BY JoinFacts DEF PlacedIn
    <2> QED BY <2>1, <2>2, <2>3, <2>4
  <1> QED BY <1>1, <1>2

-----------------------------------------------------------------------------
(* What a step does to the views *)

\* The views after a step are views from before it, or the disk as the step left it.
Moves(P, Q, D) == \A d \in Dirs : Q[d] \subseteq P[d] \union {View(D, d)}
Shrinks(P, Q) == \A d \in Dirs : Q[d] \subseteq P[d]

LEMMA WriteMoves ==
    ASSUME DiskOK, NEW D \in Disks, Write(D)
    PROVE  DiskOK' /\ disk' = D /\ Moves(past, past', disk')
  <1>1. disk' = D /\ past' = [d \in Dirs |-> past[d] \union {View(D, d)}]
    BY DEF Write
  <1>2. \A d \in Dirs : View(D, d) \in Views(d)
    BY ViewFacts
  <1> QED BY <1>1, <1>2 DEF DiskOK, Sound, Moves

LEMMA FlushMoves ==
    ASSUME DiskOK, NEW ds, Flush(ds)
    PROVE  /\ DiskOK' /\ disk' = disk /\ Moves(past, past', disk') /\ Shrinks(past, past')
           /\ \A d \in Dirs \intersect ds : past'[d] = {View(disk', d)}
  <1>1. disk' = disk /\ past' = [d \in Dirs |-> IF d \in ds THEN {View(disk, d)} ELSE past[d]]
    BY DEF Flush
  <1> QED BY <1>1 DEF DiskOK, Sound, Moves, Shrinks

LEMMA StayMoves ==
    ASSUME DiskOK, UNCHANGED <<disk, past>>
    PROVE  DiskOK' /\ disk' = disk /\ past' = past /\ Moves(past, past', disk') /\ Shrinks(past, past')
  BY DEF DiskOK, Sound, Moves, Shrinks

LEMMA CutMoves ==
    ASSUME DiskOK, PowerCut
    PROVE  /\ DiskOK' /\ Moves(past, past', disk') /\ Shrinks(past, past')
           /\ \A d \in Dirs : past'[d] = {View(disk', d)}
  <1>1. past' = [d \in Dirs |-> {View(disk', d)}]
    BY DEF PowerCut
  <1>2. PICK t \in past["trust"], v \in past["data"] : disk' = Joined(t, v)
    BY DEF PowerCut, CutOutcomes
  <1>3. t \in Views("trust") /\ v \in Views("data")
    BY EntryFacts DEF DiskOK, Sound
  <1>4. disk' \in Disks /\ View(disk', "trust") = t /\ View(disk', "data") = v
    BY <1>2, <1>3, JoinFacts
  <1>5. \A d \in Dirs : View(disk', d) \in past[d]
    BY <1>2, <1>4, EntryFacts
  <1> QED BY <1>1, <1>4, <1>5 DEF DiskOK, Sound, Moves, Shrinks

\* The changes a step makes to the entries of a disk.
StageOf(C, f, x) == [C EXCEPT !.next[f] = x]
PutOf(C, f, x) == [C EXCEPT !.live[f] = x]
RenameOf(C, f) == [C EXCEPT !.live[f] = C.next[f], !.next[f] = None]

LEMMA StageFacts ==
    ASSUME DiskOK, NEW f \in AllEntries, NEW x \in Values, NEW D, D = StageOf(disk, f, x)
    PROVE  /\ D \in Disks /\ D.live = disk.live /\ D.next[f] = x
           /\ \A e \in AllEntries \ {f} : D.next[e] = disk.next[e]
  BY DEF DiskOK, Sound, Disks, StageOf

LEMMA PutFacts ==
    ASSUME DiskOK, NEW f \in AllEntries, NEW x \in Values, NEW D, D = PutOf(disk, f, x)
    PROVE  /\ D \in Disks /\ D.next = disk.next /\ D.live[f] = x
           /\ \A e \in AllEntries \ {f} : D.live[e] = disk.live[e]
  BY DEF DiskOK, Sound, Disks, PutOf

LEMMA NoneIsValue == None \in Values /\ Torn \in Values /\ TRUE \in Values
                     /\ Jobs \subseteq Values /\ Notes \subseteq Values /\ Contents \subseteq Values
  BY DEF Values

LEMMA RenameFacts ==
    ASSUME DiskOK, NEW f \in AllEntries, NEW D,
           D = RenameOf(disk, f)
    PROVE  /\ D \in Disks /\ D.live[f] = disk.next[f] /\ D.next[f] = None
           /\ \A e \in AllEntries \ {f} : D.live[e] = disk.live[e] /\ D.next[e] = disk.next[e]
  <1>1. disk.live \in [AllEntries -> Values] /\ disk.next \in [AllEntries -> Values]
        /\ disk = [live |-> disk.live, next |-> disk.next]
    BY DEF DiskOK, Sound, Disks
  <1>2. D = [live |-> [disk.live EXCEPT ![f] = disk.next[f]], next |-> [disk.next EXCEPT ![f] = None]]
    BY <1>1 DEF RenameOf
  <1>3. /\ D.live = [disk.live EXCEPT ![f] = disk.next[f]]
        /\ D.next = [disk.next EXCEPT ![f] = None]
        /\ D = [live |-> D.live, next |-> D.next]
    BY <1>2
  <1>4. /\ D.live \in [AllEntries -> Values] /\ D.live[f] = disk.next[f]
        /\ \A e \in AllEntries \ {f} : D.live[e] = disk.live[e]
    BY <1>1, <1>3
  <1>5. /\ D.next \in [AllEntries -> Values] /\ D.next[f] = None
        /\ \A e \in AllEntries \ {f} : D.next[e] = disk.next[e]
    BY <1>1, <1>3, NoneIsValue
  <1>6. D \in Disks
    BY <1>3, <1>4, <1>5 DEF Disks
  <1> QED BY <1>4, <1>5, <1>6

LEMMA RemoveFacts ==
    ASSUME DiskOK, NEW S, NEW D, D = Remove(S)
    PROVE  /\ D \in Disks /\ D.next = disk.next
           /\ \A e \in AllEntries : D.live[e] = IF e \in S THEN None ELSE disk.live[e]
  BY NoneIsValue DEF DiskOK, Sound, Disks, Remove

LEMMA RemoveStagedFacts ==
    ASSUME DiskOK, NEW S, NEW D, D = RemoveStaged(S)
    PROVE  /\ D \in Disks /\ D.live = disk.live
           /\ \A e \in AllEntries : D.next[e] = IF e \in S THEN None ELSE disk.next[e]
  BY NoneIsValue DEF DiskOK, Sound, Disks, RemoveStaged

LEMMA WipeFacts ==
    ASSUME DiskOK, NEW k, NEW D, D = Wiped(k)
    PROVE  /\ D \in Disks
           /\ \A e \in Entries["data"] : D.live[e] = IF e = k THEN disk.live[e] ELSE None
           /\ D.live["server_ca"] = disk.live["server_ca"]
  <1>1. disk.live \in [AllEntries -> Values] /\ disk.next \in [AllEntries -> Values]
    BY DEF DiskOK, Sound, Disks
  <1>2. D \in Disks
    BY <1>1, NoneIsValue DEF Wiped, Disks
  <1>3. \A e \in AllEntries : D.live[e] = IF e \in Entries["data"] \ {k} THEN None ELSE disk.live[e]
    BY DEF Wiped
  <1> QED BY <1>2, <1>3, EntryFacts

\* The master keys and the data folder of every view after a step are those of a view before
\* it, in the entries the step left alone.
SameLive(L, C, D) == \A e \in AllEntries : e \in L => D.live[e] = C.live[e]
SameNext(N, C, D) == \A e \in AllEntries : e \in N => D.next[e] = C.next[e]
Alike(v, w, d, L, N) == /\ \A e \in Entries[d] : e \in L => v.live[e] = w.live[e]
                        /\ \A e \in Entries[d] : e \in N => v.next[e] = w.next[e]

LEMMA Twins ==
    ASSUME NEW P, NEW Q, NEW C, NEW D, Sound(P, C), Sound(Q, D), Moves(P, Q, D), NEW L, NEW N,
           SameLive(L, C, D), SameNext(N, C, D), NEW d \in Dirs, NEW v \in Q[d]
    PROVE  \E w \in P[d] : Alike(v, w, d, L, N)
  <1>1. CASE v \in P[d]
    BY <1>1 DEF Alike
  <1>2. CASE v = View(D, d)
    <2>1. View(C, d) \in P[d]
      BY DEF Sound
    <2>2. Entries[d] \subseteq AllEntries
      BY DEF AllEntries
    <2>3. \A e \in Entries[d] : /\ View(D, d).live[e] = D.live[e] /\ View(C, d).live[e] = C.live[e]
                                /\ View(D, d).next[e] = D.next[e] /\ View(C, d).next[e] = C.next[e]
      BY ViewFacts DEF Sound
    <2> QED BY <1>2, <2>1, <2>2, <2>3 DEF Alike, SameLive, SameNext
  <1> QED BY <1>1, <1>2 DEF Moves

-----------------------------------------------------------------------------
(* What a step keeps of what the views say *)

\* Fewer views say no less.
LEMMA ShrinkKeeps ==
    ASSUME NEW P, NEW Q, Shrinks(P, Q)
    PROVE  /\ Unmarked(P) => Unmarked(Q)
           /\ NotesIn(P) => NotesIn(Q)
           /\ Findable(Q) \subseteq Findable(P)
           /\ \A j : /\ Staged(P, j) => Staged(Q, j)
                     /\ InPlace(P, j) => InPlace(Q, j)
                     /\ Holding(P, j) => Holding(Q, j)
                     /\ MarkedIf(P, j) => MarkedIf(Q, j)
                     /\ Marked(P, j) => Marked(Q, j)
                     /\ SameServer(P, j) => SameServer(Q, j)
                     /\ Presented(P, j) => Presented(Q, j)
  <1>1. Q["data"] \subseteq P["data"] /\ Q["trust"] \subseteq P["trust"]
    BY EntryFacts DEF Shrinks
  <1>2. /\ Unmarked(P) => Unmarked(Q)
        /\ NotesIn(P) => NotesIn(Q)
    BY <1>1 DEF Unmarked, NotesIn
  <1>3. Findable(Q) \subseteq Findable(P)
    BY <1>1 DEF Findable
  <1>4. ASSUME NEW j
        PROVE  /\ Staged(P, j) => Staged(Q, j)
               /\ InPlace(P, j) => InPlace(Q, j)
               /\ Holding(P, j) => Holding(Q, j)
    BY DEF Staged, InPlace, Holding, Shrinks
  <1>5. ASSUME NEW j
        PROVE  /\ MarkedIf(P, j) => MarkedIf(Q, j)
               /\ Marked(P, j) => Marked(Q, j)
               /\ SameServer(P, j) => SameServer(Q, j)
               /\ Presented(P, j) => Presented(Q, j)
    BY <1>1, <1>4 DEF MarkedIf, Marked, SameServer, Presented
  <1> QED BY <1>2, <1>3, <1>4, <1>5

\* A step that leaves the files, their staged copies and the marker alone.
LEMMA AsideKeeps ==
    ASSUME NEW P, NEW Q, NEW C, NEW D, Sound(P, C), Sound(Q, D), Moves(P, Q, D),
           \A e \in Files \union {"marker"} : D.live[e] = C.live[e],
           \A e \in Files : D.next[e] = C.next[e],
           NEW j \in Jobs
    PROVE  /\ Staged(P, j) => Staged(Q, j)
           /\ InPlace(P, j) => InPlace(Q, j)
           /\ Holding(P, j) => Holding(Q, j)
           /\ MarkedIf(P, j) => MarkedIf(Q, j)
           /\ Marked(P, j) => Marked(Q, j)
  <1>1. ASSUME NEW d \in Dirs, NEW v \in Q[d]
        PROVE  \E w \in P[d] : /\ \A e \in Entries[d] : e \in Files \union {"marker"} => v.live[e] = w.live[e]
                               /\ \A e \in Entries[d] : e \in Files => v.next[e] = w.next[e]
    <2>1. SameLive(Files \union {"marker"}, C, D) /\ SameNext(Files, C, D)
      BY DEF SameLive, SameNext
    <2>2. \E w \in P[d] : Alike(v, w, d, Files \union {"marker"}, Files)
      BY <2>1, Twins
    <2> QED BY <2>2 DEF Alike
  <1>2. FilesOf(j) \subseteq Files
    BY JobFacts
  <1>3. Staged(P, j) => Staged(Q, j)
    BY <1>1, <1>2 DEF Staged, StagedIn
  <1>4. InPlace(P, j) => InPlace(Q, j)
    BY <1>1, <1>2 DEF InPlace, PlacedIn
  <1>5. Holding(P, j) => Holding(Q, j)
    BY <1>1, <1>2 DEF Holding, HeldIn
  <1>6. \A v \in Q["data"] : \E w \in P["data"] : v.live["marker"] = w.live["marker"]
    BY <1>1, EntryFacts
  <1> QED BY <1>3, <1>4, <1>5, <1>6 DEF MarkedIf, Marked

\* A step that leaves no marker on disk marks nothing.
LEMMA StaysUnmarked ==
    ASSUME NEW P, NEW Q, NEW D, Sound(Q, D), Moves(P, Q, D), D.live["marker"] = None, Unmarked(P)
    PROVE  Unmarked(Q)
  <1>1. View(D, "data").live["marker"] = None
    BY ViewFacts, EntryFacts DEF Sound
  <1> QED BY <1>1, EntryFacts DEF Unmarked, Moves

LEMMA StaysNoted ==
    ASSUME NEW P, NEW Q, NEW D, Sound(Q, D), Moves(P, Q, D), D.live["note"] \in Notes \union {None}, NotesIn(P)
    PROVE  NotesIn(Q)
  <1>1. View(D, "data").live["note"] = D.live["note"]
    BY ViewFacts, EntryFacts DEF Sound
  <1> QED BY <1>1, EntryFacts DEF NotesIn, Moves

\* The disk is one of its views.
LEMMA DiskSays ==
    ASSUME NEW P, NEW D, Sound(P, D)
    PROVE  /\ Unmarked(P) => D.live["marker"] = None
           /\ NotesIn(P) => D.live["note"] \in Notes \union {None}
           /\ \A j \in Jobs : /\ Staged(P, j) => \A f \in FilesOf(j) : D.next[f] = j.put[f]
                              /\ InPlace(P, j) => \A f \in FilesOf(j) : D.next[f] = None /\ D.live[f] = j.put[f]
                              /\ Holding(P, j) => \A f \in FilesOf(j) :
                                   D.next[f] = j.put[f] \/ (D.next[f] = None /\ D.live[f] = j.put[f])
                              /\ Marked(P, j) => D.live["marker"] = j
  <1>1. View(D, "data") \in P["data"] /\ View(D, "trust") \in P["trust"]
    BY EntryFacts DEF Sound
  <1>2. /\ \A e \in Entries["data"] : View(D, "data").live[e] = D.live[e] /\ View(D, "data").next[e] = D.next[e]
        /\ \A e \in Entries["trust"] : View(D, "trust").live[e] = D.live[e] /\ View(D, "trust").next[e] = D.next[e]
    BY ViewFacts, EntryFacts DEF Sound
  <1>3. "marker" \in Entries["data"] /\ "note" \in Entries["data"]
    BY EntryFacts
  <1>4. /\ Unmarked(P) => D.live["marker"] = None
        /\ NotesIn(P) => D.live["note"] \in Notes \union {None}
    BY <1>1, <1>2, <1>3 DEF Unmarked, NotesIn
  <1>5. ASSUME NEW j \in Jobs
        PROVE  /\ Staged(P, j) => \A f \in FilesOf(j) : D.next[f] = j.put[f]
               /\ InPlace(P, j) => \A f \in FilesOf(j) : D.next[f] = None /\ D.live[f] = j.put[f]
               /\ Holding(P, j) => \A f \in FilesOf(j) :
                    D.next[f] = j.put[f] \/ (D.next[f] = None /\ D.live[f] = j.put[f])
               /\ Marked(P, j) => D.live["marker"] = j
    <2>1. \A f \in FilesOf(j) : f \in Entries["data"] \/ f \in Entries["trust"]
      BY JobFacts, EntryFacts
    <2>2. Staged(P, j) => \A f \in FilesOf(j) : D.next[f] = j.put[f]
      BY <1>1, <1>2, <2>1, EntryFacts DEF Staged, StagedIn
    <2>3. InPlace(P, j) => \A f \in FilesOf(j) : D.next[f] = None /\ D.live[f] = j.put[f]
      BY <1>1, <1>2, <2>1, EntryFacts DEF InPlace, PlacedIn
    <2>4. Holding(P, j) => \A f \in FilesOf(j) :
            D.next[f] = j.put[f] \/ (D.next[f] = None /\ D.live[f] = j.put[f])
      BY <1>1, <1>2, <2>1, EntryFacts DEF Holding, HeldIn
    <2>5. Marked(P, j) => D.live["marker"] = j
      BY <1>1, <1>2, <1>3 DEF Marked
    <2> QED BY <2>2, <2>3, <2>4, <2>5
  <1> QED BY <1>4, <1>5

\* A step that leaves the identity alone, and one that also leaves the master keys alone.
LEMMA IdentityKept ==
    ASSUME NEW P, NEW Q, NEW C, NEW D, Sound(P, C), Sound(Q, D), Moves(P, Q, D),
           \A e \in IdentityFiles : D.live[e] = C.live[e]
    PROVE  /\ \A c : Presented(P, c) => Presented(Q, c)
           /\ \A j : SameServer(P, j) => SameServer(Q, j)
           /\ D.live["server_ca"] = C.live["server_ca"] /\ Settled(P, C) => Settled(Q, D)
  <1>1. IdentityFiles = {"device_id", "cert", "key"} /\ IdentityFiles \subseteq Entries["data"]
    BY EntryFacts DEF IdentityFiles
  <1>2. ASSUME NEW v \in Q["data"]
        PROVE  \E w \in P["data"] : \A e \in IdentityFiles : v.live[e] = w.live[e]
    <2>1. SameLive(IdentityFiles, C, D) /\ SameNext({}, C, D)
      BY DEF SameLive, SameNext
    <2>2. \E w \in P["data"] : Alike(v, w, "data", IdentityFiles, {})
      BY <2>1, Twins, EntryFacts
    <2> QED BY <2>2, <1>1 DEF Alike
  <1>3. ASSUME NEW v \in Q["data"]
        PROVE  \E w \in P["data"] : /\ v.live["cert"] = w.live["cert"] /\ v.live["key"] = w.live["key"]
                                    /\ v.live["device_id"] = w.live["device_id"]
                                    /\ Exists(v) <=> Exists(w)
    BY <1>1, <1>2 DEF Exists
  <1>4. \A c : Presented(P, c) => Presented(Q, c)
    BY <1>3 DEF Presented
  <1>5. \A j : SameServer(P, j) => SameServer(Q, j)
    BY <1>3 DEF SameServer
  <1>6. ASSUME D.live["server_ca"] = C.live["server_ca"], Settled(P, C)
        PROVE  Settled(Q, D)
    <2>1. ASSUME NEW t \in Q["trust"]
          PROVE  \E u \in P["trust"] : t.live["server_ca"] = u.live["server_ca"]
      <3>1. SameLive({"server_ca"}, C, D) /\ SameNext({}, C, D)
        BY <1>6 DEF SameLive, SameNext
      <3>2. \E u \in P["trust"] : Alike(t, u, "trust", {"server_ca"}, {})
        BY <3>1, Twins, EntryFacts
      <3> QED BY <3>2, EntryFacts DEF Alike
    <2>2. \A v \in Q["data"] : Whole(v)
      BY <1>3, <1>6 DEF Settled, Whole
    <2>3. \A v \in Q["data"] : \A t \in Q["trust"] : TrustedIn(t, v)
      BY <1>3, <1>6, <2>1 DEF Settled, TrustedIn
    <2>4. Exists(D) => \A v \in Q["data"] : \A f \in IdentityFiles : v.live[f] = D.live[f]
      <3>1. Exists(D) => Exists(C)
        BY <1>1 DEF Exists
      <3> QED BY <1>2, <1>6, <3>1 DEF Settled
    <2> QED BY <2>2, <2>3, <2>4 DEF Settled
  <1> QED BY <1>4, <1>5, <1>6

-----------------------------------------------------------------------------
(* What a step keeps of what a start may find *)

\* Where no marker is, a start finds the same in views that are the same in their files.
LEMMA PlainTwin ==
    ASSUME NEW t \in Views("trust"), NEW u \in Views("trust"), NEW v \in Views("data"), NEW w \in Views("data"),
           v.live["marker"] = None, w.live["marker"] = None,
           t.live["server_ca"] = u.live["server_ca"],
           \A e \in Saved \intersect Entries["data"] : v.live[e] = w.live[e]
    PROVE  Recovered(Joined(t, v)) = Recovered(Joined(u, w))
  <1>1. \A e \in Saved : e = "server_ca" \/ e \in Saved \intersect Entries["data"]
    BY EntryFacts
  <1>2. /\ Joined(t, v).live["server_ca"] = Joined(u, w).live["server_ca"]
        /\ \A e \in Saved \intersect Entries["data"] : Joined(t, v).live[e] = Joined(u, w).live[e]
    BY JoinFacts
  <1>3. \A e \in Saved : Joined(t, v).live[e] = Joined(u, w).live[e]
    BY <1>1, <1>2
  <1>4. [e \in Saved |-> Joined(t, v).live[e]] = [e \in Saved |-> Joined(u, w).live[e]]
    BY <1>3
  <1> QED BY <1>4, FoundPlain

LEMMA FoundKept ==
    ASSUME NEW P, NEW Q, NEW C, NEW D, Sound(P, C), Sound(Q, D), Moves(P, Q, D),
           Unmarked(P), Unmarked(Q), \A e \in Saved : D.live[e] = C.live[e]
    PROVE  Findable(Q) \subseteq Findable(P)
  <1> SUFFICES ASSUME NEW t \in Q["trust"], NEW v \in Q["data"]
               PROVE  Recovered(Joined(t, v)) \in Findable(P)
    BY DEF Findable
  <1>1. SameLive(Saved, C, D) /\ SameNext({}, C, D)
    BY DEF SameLive, SameNext
  <1>2. PICK u \in P["trust"] : Alike(t, u, "trust", Saved, {})
    BY <1>1, Twins, EntryFacts
  <1>3. PICK w \in P["data"] : Alike(v, w, "data", Saved, {})
    BY <1>1, Twins, EntryFacts
  <1>4. /\ t \in Views("trust") /\ u \in Views("trust") /\ v \in Views("data") /\ w \in Views("data")
    BY EntryFacts DEF Sound
  <1>5. v.live["marker"] = None /\ w.live["marker"] = None
    BY DEF Unmarked
  <1>6. t.live["server_ca"] = u.live["server_ca"]
    BY <1>2, EntryFacts DEF Alike
  <1>7. \A e \in Saved \intersect Entries["data"] : v.live[e] = w.live[e]
    BY <1>3 DEF Alike
  <1>8. Recovered(Joined(t, v)) = Recovered(Joined(u, w))
    BY <1>4, <1>5, <1>6, <1>7, PlainTwin
  <1> QED BY <1>8 DEF Findable

\* A new note changes nothing else of what a start may find.
LEMMA FoundNoted ==
    ASSUME NEW P, NEW Q, NEW C, NEW D, Sound(P, C), Sound(Q, D), Moves(P, Q, D),
           Unmarked(P), Unmarked(Q), \A e \in Files : D.live[e] = C.live[e]
    PROVE  Findable(Q) \subseteq
             Findable(P) \union {[b EXCEPT !["note"] = D.live["note"]] : b \in Findable(P)}
  <1> SUFFICES ASSUME NEW t \in Q["trust"], NEW v \in Q["data"]
               PROVE  Recovered(Joined(t, v)) \in
                        Findable(P) \union {[b EXCEPT !["note"] = D.live["note"]] : b \in Findable(P)}
    BY DEF Findable
  <1>1. SameLive(Files, C, D) /\ SameNext({}, C, D)
    BY DEF SameLive, SameNext
  <1>2. PICK u \in P["trust"] : Alike(t, u, "trust", Files, {})
    BY <1>1, Twins, EntryFacts
  <1>4. t \in Views("trust") /\ u \in Views("trust") /\ v \in Views("data")
    BY EntryFacts DEF Sound
  <1>5. v.live["marker"] = None
    BY DEF Unmarked
  <1>6. t.live["server_ca"] = u.live["server_ca"]
    BY <1>2, EntryFacts DEF Alike
  <1>7. CASE v \in P["data"]
    <2>1. Recovered(Joined(t, v)) = Recovered(Joined(u, v))
      BY <1>4, <1>5, <1>6, PlainTwin
    <2> QED BY <1>7, <2>1 DEF Findable
  <1>8. CASE v = View(D, "data")
    <2> DEFINE w == View(C, "data")
    <2>1. w \in P["data"] /\ w \in Views("data") /\ w.live["marker"] = None
      BY EntryFacts DEF Sound, Unmarked
    <2>2. /\ \A e \in Files \intersect Entries["data"] : v.live[e] = w.live[e]
          /\ v.live["note"] = D.live["note"]
      BY <1>8, ViewFacts, EntryFacts DEF Sound
    <2> HIDE DEF w
    <2>3. /\ Recovered(Joined(t, v)) = [e \in Saved |-> Joined(t, v).live[e]]
          /\ Recovered(Joined(u, w)) = [e \in Saved |-> Joined(u, w).live[e]]
      BY <1>4, <1>5, <2>1, FoundPlain
    <2>4. /\ \A e \in Files : e = "server_ca" \/ e \in Files \intersect Entries["data"]
          /\ "note" \in Entries["data"] /\ "note" \notin Files
          /\ "server_ca" \in Files
      BY EntryFacts
    <2>5. /\ Joined(t, v).live["server_ca"] = Joined(u, w).live["server_ca"]
          /\ \A e \in Files \intersect Entries["data"] : Joined(t, v).live[e] = Joined(u, w).live[e]
          /\ Joined(t, v).live["note"] = D.live["note"]
      BY <1>4, <1>6, <2>1, <2>2, <2>4, JoinFacts
    <2>6. \A e \in Saved : Joined(t, v).live[e] = IF e = "note" THEN D.live["note"] ELSE Joined(u, w).live[e]
      BY <2>4, <2>5 DEF Saved
    <2>7. [e \in Saved |-> Joined(t, v).live[e]] =
            [[e \in Saved |-> Joined(u, w).live[e]] EXCEPT !["note"] = D.live["note"]]
      BY <2>6
    <2>8. Recovered(Joined(t, v)) = [Recovered(Joined(u, w)) EXCEPT !["note"] = D.live["note"]]
      BY <2>3, <2>7
    <2>9. Recovered(Joined(u, w)) \in Findable(P)
      BY <2>1 DEF Findable
    <2> QED BY <2>8, <2>9
  <1> QED BY <1>7, <1>8, EntryFacts DEF Moves

\* A marker that comes to a disk whose files are all held adds only the whole save.
LEMMA FoundMarking ==
    ASSUME NEW P, NEW Q, NEW C, NEW D, Sound(P, C), Sound(Q, D), Moves(P, Q, D), NEW j \in Jobs,
           Holding(Q, j), MarkedIf(Q, j), D.live["marker"] = j, D.live["server_ca"] = C.live["server_ca"]
    PROVE  \A found \in Findable(Q) :
             found \in Findable(P) \/ \A f \in FilesOf(j) : found[f] = j.put[f]
  <1> SUFFICES ASSUME NEW t \in Q["trust"], NEW v \in Q["data"]
               PROVE  \/ Recovered(Joined(t, v)) \in Findable(P)
                      \/ \A f \in FilesOf(j) : Recovered(Joined(t, v))[f] = j.put[f]
    BY DEF Findable
  <1>1. t \in Views("trust") /\ v \in Views("data")
    BY EntryFacts DEF Sound
  <1>2. CASE v.live["marker"] = j
    <2>1. HeldIn(t, "trust", j) /\ HeldIn(v, "data", j)
      BY EntryFacts DEF Holding
    <2> QED BY <1>1, <1>2, <2>1, FoundMarked
  <1>3. CASE v.live["marker"] = None /\ None # j
    <2>1. View(D, "data").live["marker"] = j
      BY ViewFacts, EntryFacts DEF Sound
    <2>2. v \in P["data"]
      BY <1>3, <2>1, EntryFacts DEF Moves
    <2>3. SameLive({"server_ca"}, C, D) /\ SameNext({}, C, D)
      BY DEF SameLive, SameNext
    <2>4. PICK u \in P["trust"] : Alike(t, u, "trust", {"server_ca"}, {})
      BY <2>3, Twins, EntryFacts
    <2>5. u \in Views("trust") /\ t.live["server_ca"] = u.live["server_ca"]
      BY <2>4, EntryFacts DEF Alike, Sound
    <2>6. Recovered(Joined(t, v)) = Recovered(Joined(u, v))
      BY <1>1, <1>3, <2>5, PlainTwin
    <2> QED BY <2>2, <2>6 DEF Findable
  <1> QED BY <1>2, <1>3 DEF MarkedIf

\* A marked save, and one in place, is found whole.
LEMMA FoundWhole ==
    ASSUME NEW P, NEW D, Sound(P, D), NEW j \in Jobs,
           Marked(P, j) \/ (InPlace(P, j) /\ MarkedIf(P, j))
    PROVE  \A found \in Findable(P) : \A f \in FilesOf(j) : found[f] = j.put[f]
  <1> SUFFICES ASSUME NEW t \in P["trust"], NEW v \in P["data"]
               PROVE  \A f \in FilesOf(j) : Recovered(Joined(t, v))[f] = j.put[f]
    BY DEF Findable
  <1>1. t \in Views("trust") /\ v \in Views("data")
    BY EntryFacts DEF Sound
  <1>2. CASE Marked(P, j)
    <2>1. v.live["marker"] = j /\ HeldIn(t, "trust", j) /\ HeldIn(v, "data", j)
      BY <1>2, EntryFacts DEF Marked, Holding
    <2> QED BY <1>1, <2>1, FoundMarked
  <1>3. CASE InPlace(P, j) /\ MarkedIf(P, j)
    <2>1. v.live["marker"] \in {None, j} /\ PlacedIn(t, "trust", j) /\ PlacedIn(v, "data", j)
      BY <1>3, EntryFacts DEF InPlace, MarkedIf
    <2> QED BY <1>1, <2>1, FoundPlaced
  <1> QED BY <1>2, <1>3

\* A start always finds something.
LEMMA FoundSome ==
    ASSUME NEW P, NEW D, Sound(P, D)
    PROVE  Findable(P) # {}
  <1>1. View(D, "trust") \in P["trust"] /\ View(D, "data") \in P["data"]
    BY EntryFacts DEF Sound
  <1>2. Recovered(Joined(View(D, "trust"), View(D, "data"))) \in Findable(P)
    BY <1>1 DEF Findable
  <1> QED BY <1>2

-----------------------------------------------------------------------------
(* Where the thread stands *)

\* The counters stay within their bounds.
LEMMA CountKeeps ==
    ASSUME Counted, NEW k \in Events, Count(k)
    PROVE  Counted' /\ n'[k] = n[k] + 1 /\ n'[k] \in 1 .. Bound[k]
  <1>1. n[k] < Bound[k] /\ n' = [n EXCEPT ![k] = @ + 1]
    BY CountFacts
  <1>2. \A e \in Events : Bound[e] \in Nat
    BY BoundAssumption DEF Events, Bound
  <1>3. n' \in [Events -> Nat] /\ n'[k] = n[k] + 1 /\ \A e \in Events \ {k} : n'[e] = n[e]
    BY <1>1 DEF Counted
  <1>4. n'[k] <= Bound[k] /\ n'[k] >= 1
    BY <1>1, <1>2, <1>3 DEF Counted
  <1>5. \A e \in Events : n'[e] <= Bound[e]
    BY <1>3, <1>4 DEF Counted
  <1> QED BY <1>2, <1>3, <1>4, <1>5 DEF Counted

\* What the servers issue is a save of its kind.
LEMMA EnrollIssues ==
    ASSUME IInv, EnrollIssued
    PROVE  job' \in Jobs /\ Enrolling(job') /\ Counted'
  <1>1. pc = "enroll" /\ Count("device") /\ job' = EnrollJob(using.srv, n'["device"])
    BY DEF EnrollIssued, Begin
  <1>2. using.srv \in Servers
    BY <1>1 DEF IInv, NotesOK, Notes
  <1>3. Counted' /\ n'["device"] \in 1 .. Bound["device"]
    BY <1>1, CountKeeps DEF IInv, ControlOK, Counted, Events
  <1>4. Bound["device"] = MaxDevices
    BY DEF Bound
  <1> QED BY <1>1, <1>2, <1>3, <1>4 DEF Jobs, Enrolling

LEMMA RenewIssues ==
    ASSUME IInv, Renew
    PROVE  job' \in Jobs /\ Renewing(job') /\ Counted'
  <1> DEFINE c == [mem EXCEPT !.renewal = n'["renewal"]]
  <1>1. pc = "run" /\ Count("renewal") /\ job' = RenewalJob(c, n["bundle"])
    BY DEF Renew, Begin
  <1>2. mem \in Certs
    BY <1>1 DEF IInv, IdentityOK, Presented
  <1>3. Counted' /\ n'["renewal"] \in 1 .. Bound["renewal"]
    BY <1>1, CountKeeps DEF IInv, ControlOK, Counted, Events
  <1>4. Bound["renewal"] = MaxRenewals /\ Bound["bundle"] = MaxBundles
    BY DEF Bound
  <1>5. n["bundle"] \in 0 .. MaxBundles
    BY <1>4, BoundAssumption DEF IInv, ControlOK, Counted, Events
  <1>6. c \in Certs
    BY <1>2, <1>3, <1>4, BoundAssumption DEF Certs
  <1> HIDE DEF c
  <1> QED BY <1>1, <1>3, <1>5, <1>6 DEF Jobs, Renewing

LEMMA BundleIssues ==
    ASSUME IInv, TrustBundle
    PROVE  /\ job' \in Jobs /\ Bundling(job') /\ Counted'
           /\ job'.put["server_ca"].srv = mem.srv
  <1>1. pc = "run" /\ Count("bundle") /\ job' = BundleJob(mem.srv, n'["bundle"])
    BY DEF TrustBundle, Begin
  <1>2. mem.srv \in Servers
    BY <1>1 DEF IInv, IdentityOK, Presented, Certs
  <1>3. Counted' /\ n'["bundle"] \in 1 .. Bound["bundle"]
    BY <1>1, CountKeeps DEF IInv, ControlOK, Counted, Events
  <1>4. n'["bundle"] \in 0 .. MaxBundles
    BY <1>3 DEF Bound
  <1>5. job'.put["server_ca"] = Bundle(mem.srv, n'["bundle"])
    BY <1>1, <1>2, <1>4, BundleFacts
  <1> QED BY <1>1, <1>2, <1>3, <1>4, <1>5 DEF Jobs, Bundling, Bundle

\* A marker on disk is that of the save that did not return.
LEMMA MarkerIsJob ==
    ASSUME IInv, pc \in {"read_marker", "undo_marker"}
    PROVE  /\ disk.live["marker"] = None \/ (before # {} /\ disk.live["marker"] = job /\ Marked(past, job))
           /\ pc = "undo_marker" => disk.live["marker"] = None
           /\ MarkedWhole(disk) => before # {} /\ disk.live["marker"] = job /\ Marked(past, job)
           /\ ~MarkedWhole(disk) => disk.live["marker"] = None /\ Unmarked(past)
  <1>1. Unmarked(past) \/ (before # {} /\ Marked(past, job))
    BY DEF IInv, StoreOK
  <1>2. pc = "undo_marker" => Unmarked(past)
    BY DEF IInv, StoreOK
  <1>3. Unmarked(past) => disk.live["marker"] = None
    BY DiskSays DEF IInv, DiskOK
  <1>4. ASSUME before # {}, Marked(past, job)
        PROVE  disk.live["marker"] = job /\ MarkedWhole(disk)
    <2>1. job \in Jobs
      BY <1>4 DEF IInv, ControlOK
    <2>2. /\ disk.live["marker"] = job
          /\ \A f \in FilesOf(job) : disk.next[f] = job.put[f] \/ (disk.next[f] = None /\ disk.live[f] = job.put[f])
      BY <1>4, <2>1, DiskSays DEF IInv, DiskOK, Marked
    <2> QED BY <2>1, <2>2, JobFacts DEF MarkedWhole, HoldsNew
  <1>5. disk.live["marker"] = None => ~MarkedWhole(disk)
    BY DEF MarkedWhole, Readable
  <1> QED BY <1>1, <1>2, <1>3, <1>4, <1>5

-----------------------------------------------------------------------------
\* Every step leaves the thread at a place of the program, with the save that belongs there.
LEMMA ControlStep ==
    ASSUME IInv, [Next]_vars
    PROVE  ControlOK'
  <1> USE DEF Places, Saving, Staging, Marking, Finishing, Returned, Quiet, Removing
  <1>0. ControlOK
    BY DEF IInv
  <1>n. n' = n => Counted'
    BY <1>0 DEF ControlOK, Counted
  <1>c. ASSUME NEW k \in Events, Count(k) PROVE Counted'
    BY <1>0, <1>c, CountKeeps DEF ControlOK
  <1>m. MayFind # {}
    BY FoundSome, MayFindFacts DEF IInv, DiskOK
  <1>b. ASSUME job' \in Jobs PROVE 1 \in 1 .. Len(job'.order)
    BY <1>b, JobFacts
  <1>l. before # {} => Len(job.order) \in Nat \ {0}
    BY <1>0, JobFacts DEF ControlOK
  <1>1. CASE StageOpen /\ UNCHANGED <<agentVars, before, n>>
    BY <1>0, <1>n, <1>1 DEF ControlOK, agentVars, Goto, StageOpen
  <1>2. CASE SyncStaged /\ UNCHANGED <<agentVars, before, n>>
    BY <1>0, <1>n, <1>2 DEF ControlOK, agentVars, Goto, SyncStaged
  <1>3. CASE MarkOpen /\ UNCHANGED <<agentVars, before, n>>
    BY <1>0, <1>n, <1>3 DEF ControlOK, agentVars, Goto, MarkOpen
  <1>4. CASE MarkFill /\ UNCHANGED <<agentVars, before, n>>
    BY <1>0, <1>n, <1>4 DEF ControlOK, agentVars, Goto, MarkFill
  <1>5. CASE MarkRename /\ UNCHANGED <<agentVars, before, n>>
    BY <1>0, <1>n, <1>5 DEF ControlOK, agentVars, Goto, MarkRename
  <1>6. CASE SyncRenamed /\ UNCHANGED <<agentVars, before, n>>
    BY <1>0, <1>n, <1>6 DEF ControlOK, agentVars, Goto, SyncRenamed
  <1>7. CASE Consume /\ UNCHANGED <<agentVars, before, n>>
    BY <1>0, <1>n, <1>7 DEF ControlOK, agentVars, Goto, Consume
  <1>8. CASE SyncConsumed /\ UNCHANGED <<agentVars, before, n>>
    BY <1>0, <1>n, <1>8 DEF ControlOK, agentVars, Goto, SyncConsumed
  <1>9. CASE Unmark /\ UNCHANGED <<agentVars, before, n>>
    BY <1>0, <1>n, <1>9 DEF ControlOK, agentVars, Goto, Unmark
  <1>10. CASE SyncUnmarked /\ UNCHANGED <<agentVars, before, n>>
    BY <1>0, <1>n, <1>10 DEF ControlOK, agentVars, Goto, SyncUnmarked
  <1>11. CASE RecoverClean /\ UNCHANGED <<agentVars, before, n>>
    BY <1>0, <1>n, <1>11 DEF ControlOK, agentVars, Goto, RecoverClean
  <1>12. CASE RecoverBack /\ UNCHANGED <<agentVars, before, n>>
    BY <1>0, <1>n, <1>12 DEF ControlOK, agentVars, Goto, RecoverBack
  <1>13. CASE StageFill /\ UNCHANGED <<agentVars, before, n>>
    BY <1>0, <1>n, <1>13, <1>l DEF ControlOK, agentVars, Turn, Goto, StageFill
  <1>14. CASE Rename /\ UNCHANGED <<agentVars, before, n>>
    BY <1>0, <1>n, <1>14, <1>l DEF ControlOK, agentVars, Turn, Goto, Rename
  <1>15. CASE MarkSync /\ UNCHANGED <<agentVars, before, n>>
    BY <1>0, <1>n, <1>15, <1>l DEF ControlOK, agentVars, Turn, Goto, MarkSync
  <1>16. CASE RecoverForward /\ UNCHANGED <<agentVars, before, n>>
    BY <1>0, <1>n, <1>16, <1>l, MarkerIsJob DEF ControlOK, agentVars, RecoverForward
  <1>17. CASE UndoMarker /\ UNCHANGED <<agentVars, before, n>>
    BY <1>0, <1>n, <1>17, MarkerIsJob DEF ControlOK, agentVars, Goto, UndoMarker, Readable
  <1>18. CASE Start
    BY <1>0, <1>n, <1>18 DEF ControlOK, Start, RecoverStart, agentVars
  <1>19. CASE StartEnroll
    BY <1>0, <1>n, <1>19 DEF ControlOK, StartEnroll
  <1>20. CASE StartLoad
    BY <1>0, <1>n, <1>20 DEF ControlOK, Leave, agentVars, StartLoad
  <1>21. CASE StartRemoval
    BY <1>0, <1>n, <1>21 DEF ControlOK, Leave, agentVars, StartRemoval
  <1>22. CASE StartStranded
    BY <1>0, <1>n, <1>22 DEF ControlOK, Leave, agentVars, StartStranded
  <1>23. CASE Wipe
    BY <1>0, <1>n, <1>23 DEF ControlOK, Wipe, Goto, agentVars
  <1>24. CASE Enrolled
    BY <1>0, <1>n, <1>24 DEF ControlOK, Leave, agentVars, Enrolled
  <1>25. CASE Renewed
    BY <1>0, <1>n, <1>25 DEF ControlOK, Leave, agentVars, Renewed
  <1>26. CASE Bundled
    BY <1>0, <1>n, <1>26 DEF ControlOK, Leave, agentVars, Bundled
  <1>27. CASE Restart
    BY <1>0, <1>n, <1>27 DEF ControlOK, Restart
  <1>28. CASE RemoveMark
    BY <1>0, <1>n, <1>28 DEF ControlOK, Goto, agentVars, RemoveMark
  <1>29. CASE RemoveWipe
    BY <1>0, <1>n, <1>29 DEF ControlOK, Goto, agentVars, RemoveWipe
  <1>30. CASE RemoveTrust
    BY <1>0, <1>n, <1>30 DEF ControlOK, Goto, agentVars, RemoveTrust
  <1>31. CASE RemoveUnit
    BY <1>0, <1>n, <1>31 DEF ControlOK, Goto, agentVars, RemoveUnit
  <1>32. CASE RemoveLast
    BY <1>0, <1>n, <1>32 DEF ControlOK, Goto, agentVars, RemoveLast
  <1>33. CASE InstallClear
    BY <1>0, <1>n, <1>33, <1>c DEF ControlOK, InstallClear, Events
  <1>34. CASE \E s \in Servers, f \in BOOLEAN : InstallNote(s, f)
    BY <1>0, <1>n, <1>34 DEF ControlOK, InstallNote
  <1>35. CASE InstallRestart
    BY <1>0, <1>n, <1>35, FailureAssumption DEF ControlOK, InstallRestart, Die
  <1>36. CASE EnrollIssued
    BY <1>0, <1>n, <1>36, <1>m, <1>b, EnrollIssues DEF ControlOK, EnrollIssued, Begin, agentVars
  <1>37. CASE EnrollRefused
    BY <1>0, <1>n, <1>37 DEF ControlOK, EnrollRefused, Die
  <1>38. CASE Acknowledged
    BY <1>0, <1>n, <1>38 DEF ControlOK, Acknowledged
  <1>39. CASE Reconnect
    BY <1>0, <1>n, <1>39 DEF ControlOK, Reconnect
  <1>40. CASE Renew
    BY <1>0, <1>n, <1>40, <1>m, <1>b, RenewIssues DEF ControlOK, Renew, Begin, agentVars
  <1>41. CASE TrustBundle
    BY <1>0, <1>n, <1>41, <1>m, <1>b, BundleIssues DEF ControlOK, TrustBundle, Begin, agentVars
  <1>42. CASE SaveFailed
    BY <1>0, <1>n, <1>42, <1>c DEF ControlOK, SaveFailed, Fail, Leave, agentVars, Events, SaveSteps
  <1>43. CASE StartOver
    BY <1>0, <1>n, <1>43 DEF ControlOK, StartOver
  <1>44. CASE Deleted
    BY <1>0, <1>n, <1>44 DEF ControlOK, Deleted, Die
  <1>45. CASE Cut
    BY <1>0, <1>n, <1>45, <1>c DEF ControlOK, Cut, Die, Events
  <1>46. CASE Kill
    BY <1>0, <1>n, <1>46, <1>c DEF ControlOK, Kill, Die, Events
  <1>47. CASE UNCHANGED vars
    BY <1>0, <1>n, <1>47 DEF ControlOK, vars
  <1> QED BY <1>1, <1>2, <1>3, <1>4, <1>5, <1>6, <1>7, <1>8, <1>9, <1>10, <1>11, <1>12, <1>13, <1>14, <1>15, <1>16, <1>17, <1>18, <1>19, <1>20, <1>21, <1>22, <1>23, <1>24, <1>25, <1>26, <1>27, <1>28, <1>29, <1>30, <1>31, <1>32, <1>33, <1>34, <1>35, <1>36, <1>37, <1>38, <1>39, <1>40, <1>41, <1>42, <1>43, <1>44, <1>45, <1>46, <1>47 DEF Next, Step, StoreStep

-----------------------------------------------------------------------------
(* What each step writes *)

\* The file a loop of the save is at.
LEMMA AtFile ==
    ASSUME IInv, pc \in {"stage", "fill", "rename"}
    PROVE  /\ job \in Jobs /\ i \in 1 .. Len(job.order)
           /\ job.order[i] \in FilesOf(job) /\ job.order[i] \in AllEntries /\ job.order[i] \in Files
           /\ job.put[job.order[i]] \in Values
  <1>1. job \in Jobs /\ i \in 1 .. Len(job.order)
    BY DEF IInv, ControlOK, Saving, Staging, Finishing
  <1>2. job.order[i] \in FilesOf(job)
    BY <1>1, JobFacts DEF FilesOf
  <1>3. job.order[i] \in Files
    BY <1>1, <1>2, JobFacts
  <1>4. job.put[job.order[i]] \in Values
    BY <1>1, <1>2, JobFacts, NoneIsValue
  <1> QED BY <1>1, <1>2, <1>3, <1>4, EntryFacts

LEMMA StageOpenEffect ==
    ASSUME IInv, StageOpen
    PROVE  /\ DiskOK' /\ Moves(past, past', disk')
           /\ disk'.live = disk.live
           /\ \A e \in AllEntries \ {job.order[i]} : disk'.next[e] = disk.next[e]
  <1>0. PICK D : D = StageOf(disk, job.order[i], Torn)
    OBVIOUS
  <1>1. pc = "stage" /\ Write(D)
    BY <1>0 DEF StageOpen, StageOf
  <1>2. DiskOK /\ job.order[i] \in AllEntries /\ Torn \in Values
    BY <1>1, AtFile, NoneIsValue DEF IInv
  <1>3. /\ D \in Disks /\ D.live = disk.live
        /\ \A e \in AllEntries \ {job.order[i]} : D.next[e] = disk.next[e]
    BY <1>0, <1>2, StageFacts
  <1>4. DiskOK' /\ disk' = D /\ Moves(past, past', disk')
    BY <1>1, <1>2, <1>3, WriteMoves
  <1> QED BY <1>3, <1>4

LEMMA StageFillEffect ==
    ASSUME IInv, StageFill
    PROVE  /\ DiskOK' /\ Moves(past, past', disk')
           /\ disk'.live = disk.live
           /\ disk'.next[job.order[i]] = job.put[job.order[i]]
           /\ \A e \in AllEntries \ {job.order[i]} : disk'.next[e] = disk.next[e]
  <1>0. PICK D : D = StageOf(disk, job.order[i], job.put[job.order[i]])
    OBVIOUS
  <1>1. pc = "fill" /\ Write(D)
    BY <1>0 DEF StageFill, StageOf
  <1>2. DiskOK /\ job.order[i] \in AllEntries /\ job.put[job.order[i]] \in Values
    BY <1>1, AtFile DEF IInv
  <1>3. /\ D \in Disks /\ D.live = disk.live /\ D.next[job.order[i]] = job.put[job.order[i]]
        /\ \A e \in AllEntries \ {job.order[i]} : D.next[e] = disk.next[e]
    BY <1>0, <1>2, StageFacts
  <1>4. DiskOK' /\ disk' = D /\ Moves(past, past', disk')
    BY <1>1, <1>2, <1>3, WriteMoves
  <1> QED BY <1>3, <1>4

\* Staging the marker.
LEMMA MarkEffect ==
    ASSUME IInv, MarkOpen \/ MarkFill
    PROVE  /\ DiskOK' /\ Moves(past, past', disk')
           /\ disk'.live = disk.live
           /\ MarkFill => disk'.next["marker"] = job
           /\ \A e \in Files : disk'.next[e] = disk.next[e]
  <1>1. "marker" \in AllEntries /\ Files \subseteq AllEntries \ {"marker"}
    BY EntryFacts
  <1>2. DiskOK /\ job \in Values /\ Torn \in Values
    <2>1. job \in Jobs
      BY DEF IInv, ControlOK, MarkOpen, MarkFill, Saving, Marking
    <2> QED BY <2>1, NoneIsValue DEF IInv
  <1>3. ASSUME NEW x \in Values, Write([disk EXCEPT !.next["marker"] = x])
        PROVE  /\ DiskOK' /\ Moves(past, past', disk')
               /\ disk'.live = disk.live /\ disk'.next["marker"] = x
               /\ \A e \in Files : disk'.next[e] = disk.next[e]
    <2>0. PICK D : D = StageOf(disk, "marker", x)
      OBVIOUS
    <2>1. /\ D \in Disks /\ D.live = disk.live /\ D.next["marker"] = x
          /\ \A e \in AllEntries \ {"marker"} : D.next[e] = disk.next[e]
      BY <1>1, <1>2, <2>0, StageFacts
    <2>2. Write(D)
      BY <1>3, <2>0 DEF StageOf
    <2>3. DiskOK' /\ disk' = D /\ Moves(past, past', disk')
      BY <1>2, <2>1, <2>2, WriteMoves
    <2> QED BY <1>1, <2>1, <2>3
  <1>4. CASE MarkOpen
    <2>1. pc = "mark" /\ Write([disk EXCEPT !.next["marker"] = Torn])
      BY <1>4 DEF MarkOpen
    <2>2. ~MarkFill
      BY <2>1 DEF MarkFill
    <2> QED BY <1>2, <1>3, <2>1, <2>2
  <1>5. CASE MarkFill
    <2>1. Write([disk EXCEPT !.next["marker"] = job])
      BY <1>5 DEF MarkFill
    <2> QED BY <1>2, <1>3, <2>1
  <1> QED BY <1>4, <1>5

\* The commit point.
LEMMA MarkRenameEffect ==
    ASSUME IInv, MarkRename
    PROVE  /\ DiskOK' /\ Moves(past, past', disk')
           /\ disk'.live["marker"] = job
           /\ \A e \in AllEntries \ {"marker"} : disk'.live[e] = disk.live[e] /\ disk'.next[e] = disk.next[e]
  <1>0. PICK D : D = RenameOf(disk, "marker")
    OBVIOUS
  <1>1. pc = "mark_rename" /\ Write(D)
    BY <1>0 DEF MarkRename, RenameOf
  <1>2. DiskOK /\ "marker" \in AllEntries /\ disk.next["marker"] = job
    BY <1>1, EntryFacts DEF IInv, StoreOK
  <1>3. /\ D \in Disks /\ D.live["marker"] = disk.next["marker"]
        /\ \A e \in AllEntries \ {"marker"} : D.live[e] = disk.live[e] /\ D.next[e] = disk.next[e]
    BY <1>0, <1>2, RenameFacts
  <1>4. DiskOK' /\ disk' = D /\ Moves(past, past', disk')
    BY <1>1, <1>2, <1>3, WriteMoves
  <1> QED BY <1>2, <1>3, <1>4

\* A staged file takes its place, or is there already.
LEMMA RenameEffect ==
    ASSUME IInv, Rename
    PROVE  /\ DiskOK' /\ Moves(past, past', disk')
           /\ disk'.next[job.order[i]] = None /\ disk'.live[job.order[i]] = job.put[job.order[i]]
           /\ \A e \in AllEntries \ {job.order[i]} : disk'.live[e] = disk.live[e] /\ disk'.next[e] = disk.next[e]
  <1> DEFINE f == job.order[i]
  <1>1. pc = "rename"
    BY DEF Rename
  <1>2. DiskOK /\ job \in Jobs /\ f \in FilesOf(job) /\ f \in AllEntries
    BY <1>1, AtFile DEF IInv
  <1>3. Marked(past, job)
    BY <1>1 DEF IInv, StoreOK, Finishing
  <1>4. disk.next[f] = job.put[f] \/ (disk.next[f] = None /\ disk.live[f] = job.put[f])
    BY <1>2, <1>3, DiskSays DEF DiskOK, Marked
  <1>5. job.put[f] # None
    BY <1>2, JobFacts, AbsenceAssumption
  <1>6. CASE disk.next[f] = None
    <2>1. UNCHANGED <<disk, past>>
      BY <1>6 DEF Rename
    <2> QED BY <1>2, <1>4, <1>5, <1>6, <2>1, StayMoves
  <1>7. CASE disk.next[f] # None
    <2>0. PICK D : D = RenameOf(disk, f)
      OBVIOUS
    <2>1. Write(D)
      BY <1>7, <2>0 DEF Rename, RenameOf
    <2> HIDE DEF f
    <2>2. /\ D \in Disks /\ D.live[f] = disk.next[f] /\ D.next[f] = None
          /\ \A e \in AllEntries \ {f} : D.live[e] = disk.live[e] /\ D.next[e] = disk.next[e]
      BY <1>2, <2>0, RenameFacts
    <2>3. DiskOK' /\ disk' = D /\ Moves(past, past', disk')
      BY <1>2, <2>1, <2>2, WriteMoves
    <2>4. disk'.live[f] = job.put[f] /\ disk'.next[f] = None
      BY <1>4, <1>7, <2>2, <2>3
    <2> QED BY <2>2, <2>3, <2>4 DEF f
  <1> QED BY <1>6, <1>7

LEMMA RemoveEffect ==
    ASSUME DiskOK, NEW S, Write(Remove(S))
    PROVE  /\ DiskOK' /\ Moves(past, past', disk')
           /\ disk'.next = disk.next
           /\ \A e \in AllEntries : disk'.live[e] = IF e \in S THEN None ELSE disk.live[e]
  <1> DEFINE D == Remove(S)
  <1>1. /\ D \in Disks /\ D.next = disk.next
        /\ \A e \in AllEntries : D.live[e] = IF e \in S THEN None ELSE disk.live[e]
    BY RemoveFacts
  <1>2. Write(D)
    OBVIOUS
  <1> HIDE DEF D
  <1>3. DiskOK' /\ disk' = D /\ Moves(past, past', disk')
    BY <1>1, <1>2, WriteMoves
  <1> QED BY <1>1, <1>3

\* Recovery's clean-up of staged files.
LEMMA CleanEffect ==
    ASSUME DiskOK, NEW S, Write(RemoveStaged(S))
    PROVE  /\ DiskOK' /\ Moves(past, past', disk')
           /\ disk'.live = disk.live
           /\ \A e \in AllEntries : disk'.next[e] = IF e \in S THEN None ELSE disk.next[e]
  <1> DEFINE D == RemoveStaged(S)
  <1>1. /\ D \in Disks /\ D.live = disk.live
        /\ \A e \in AllEntries : D.next[e] = IF e \in S THEN None ELSE disk.next[e]
    BY RemoveStagedFacts
  <1>2. Write(D)
    OBVIOUS
  <1> HIDE DEF D
  <1>3. DiskOK' /\ disk' = D /\ Moves(past, past', disk')
    BY <1>1, <1>2, WriteMoves
  <1> QED BY <1>1, <1>3

LEMMA WipeEffect ==
    ASSUME DiskOK, NEW k, Write(Wiped(k))
    PROVE  /\ DiskOK' /\ Moves(past, past', disk')
           /\ \A e \in Entries["data"] : disk'.live[e] = IF e = k THEN disk.live[e] ELSE None
           /\ disk'.live["server_ca"] = disk.live["server_ca"]
  <1> DEFINE D == Wiped(k)
  <1>1. /\ D \in Disks
        /\ \A e \in Entries["data"] : D.live[e] = IF e = k THEN disk.live[e] ELSE None
        /\ D.live["server_ca"] = disk.live["server_ca"]
    BY WipeFacts
  <1>2. Write(D)
    OBVIOUS
  <1> HIDE DEF D
  <1>3. DiskOK' /\ disk' = D /\ Moves(past, past', disk')
    BY <1>1, <1>2, WriteMoves
  <1> QED BY <1>1, <1>3

\* The steps that touch only the note and the removal's marker.
Aside(C, D) ==
    /\ \A e \in AllEntries \ {"note", "removed"} : D.live[e] = C.live[e]
    /\ \A e \in AllEntries : D.next[e] = C.next[e]

LEMMA StayAside ==
    ASSUME DiskOK, UNCHANGED <<disk, past>>
    PROVE  DiskOK' /\ Moves(past, past', disk') /\ Aside(disk, disk') /\ disk'.live["note"] = disk.live["note"]
  BY StayMoves DEF Aside

LEMMA RemoveAside ==
    ASSUME DiskOK, NEW S, S \subseteq {"note", "removed"}, Write(Remove(S))
    PROVE  /\ DiskOK' /\ Moves(past, past', disk') /\ Aside(disk, disk')
           /\ disk'.live["note"] = IF "note" \in S THEN None ELSE disk.live["note"]
  <1>1. /\ DiskOK' /\ Moves(past, past', disk')
        /\ disk'.next = disk.next
        /\ \A e \in AllEntries : disk'.live[e] = IF e \in S THEN None ELSE disk.live[e]
    BY RemoveEffect
  <1>2. "note" \in AllEntries
    BY EntryFacts
  <1> QED BY <1>1, <1>2 DEF Aside

Apart == UNCHANGED <<agentVars, before, n>>
AsideStep ==
    \/ InstallClear \/ \E s \in Servers, f \in BOOLEAN : InstallNote(s, f)
    \/ Acknowledged \/ Renewed \/ StartEnroll \/ StartLoad
    \/ (Consume /\ Apart) \/ RemoveMark \/ RemoveLast

LEMMA InstallNoteEffect ==
    ASSUME IInv, NEW s \in Servers, NEW f \in BOOLEAN, InstallNote(s, f)
    PROVE  /\ DiskOK' /\ Moves(past, past', disk') /\ Aside(disk, disk')
           /\ disk'.live["note"] = Note(s, f) /\ Note(s, f) \in Notes
           /\ disk'.live["removed"] = disk.live["removed"]
  <1>0. PICK D : D = PutOf(disk, "note", Note(s, f))
    OBVIOUS
  <1>1. Note(s, f) \in Notes /\ Note(s, f) \in Values
    BY NoneIsValue DEF Note, Notes
  <1>2. DiskOK /\ "note" \in AllEntries /\ "removed" \in AllEntries
    BY EntryFacts DEF IInv
  <1>3. /\ D \in Disks /\ D.next = disk.next /\ D.live["note"] = Note(s, f)
        /\ \A e \in AllEntries \ {"note"} : D.live[e] = disk.live[e]
    BY <1>0, <1>1, <1>2, PutFacts
  <1>4. Write(D)
    BY <1>0 DEF InstallNote, PutOf
  <1>5. DiskOK' /\ disk' = D /\ Moves(past, past', disk')
    BY <1>2, <1>3, <1>4, WriteMoves
  <1> QED BY <1>1, <1>2, <1>3, <1>5 DEF Aside

LEMMA RemoveMarkEffect ==
    ASSUME IInv, RemoveMark
    PROVE  /\ DiskOK' /\ Moves(past, past', disk') /\ Aside(disk, disk')
           /\ disk'.live["note"] = disk.live["note"]
  <1>p. PICK x : x = TRUE
    OBVIOUS
  <1>0. PICK D : D = PutOf(disk, "removed", x)
    OBVIOUS
  <1>1. disk' = D /\ past' = [past EXCEPT !["data"] = {View(disk', "data")}]
    BY <1>0, <1>p DEF RemoveMark, PutOf
  <1>2. DiskOK /\ "removed" \in AllEntries /\ "note" \in AllEntries /\ x \in Values
    BY <1>p, EntryFacts, NoneIsValue DEF IInv
  <1>3. /\ D \in Disks /\ D.next = disk.next
        /\ \A e \in AllEntries \ {"removed"} : D.live[e] = disk.live[e]
    BY <1>0, <1>2, PutFacts
  <1>4. View(D, "trust") = View(disk, "trust")
    <2>1. \A e \in Entries["trust"] : D.live[e] = disk.live[e] /\ D.next[e] = disk.next[e]
      BY <1>3, EntryFacts
    <2> QED BY <2>1 DEF View
  <1>5. View(D, "data") \in Views("data")
    BY <1>3, ViewFacts, EntryFacts
  <1>6. past["trust"] \subseteq Views("trust") /\ View(disk, "trust") \in past["trust"] /\ DOMAIN past = Dirs
    BY EntryFacts DEF IInv, DiskOK, Sound
  <1>7. past'["data"] = {View(disk', "data")} /\ past'["trust"] = past["trust"] /\ DOMAIN past' = Dirs
    BY <1>1, <1>6, EntryFacts
  <1>8. DiskOK'
    BY <1>1, <1>3, <1>4, <1>5, <1>6, <1>7, EntryFacts DEF DiskOK, Sound
  <1>9. Moves(past, past', disk')
    BY <1>7, EntryFacts DEF Moves
  <1> QED BY <1>1, <1>2, <1>3, <1>8, <1>9 DEF Aside

LEMMA AsideEffect ==
    ASSUME IInv, AsideStep
    PROVE  /\ DiskOK' /\ Moves(past, past', disk') /\ Aside(disk, disk')
           /\ disk'.live["note"] \in Notes \union {None}
           /\ InstallClear => disk'.live["note"] = disk.live["note"]
  <1>0. DiskOK /\ disk.live["note"] \in Notes \union {None}
    BY DiskSays DEF IInv, DiskOK, NotesOK
  <1> DEFINE Goal == /\ DiskOK' /\ Moves(past, past', disk') /\ Aside(disk, disk')
                     /\ disk'.live["note"] \in Notes \union {None}
  <1>a. Write(Remove({"removed"})) => Goal /\ disk'.live["note"] = disk.live["note"]
    <2>1. {"removed"} \subseteq {"note", "removed"} /\ "note" \notin {"removed"}
      OBVIOUS
    <2> QED BY <1>0, <2>1, RemoveAside
  <1>b. Write(Remove({"note"})) => Goal
    <2>1. {"note"} \subseteq {"note", "removed"}
      OBVIOUS
    <2> QED BY <1>0, <2>1, RemoveAside
  <1>c. UNCHANGED <<disk, past>> => Goal /\ disk'.live["note"] = disk.live["note"]
    BY <1>0, StayAside
  <1>1. CASE InstallClear
    <2>1. Write(Remove({"removed"}))
      BY <1>1 DEF InstallClear
    <2> QED BY <1>a, <2>1
  <1>i. CASE ~InstallClear
    <2> SUFFICES Goal
      BY <1>i
    <2> HIDE DEF Goal
    <2>2. CASE \E s \in Servers, f \in BOOLEAN : InstallNote(s, f)
      BY <2>2, InstallNoteEffect DEF Goal
    <2>3. CASE Acknowledged \/ Renewed
      <3>1. Write(Remove({"note"})) \/ UNCHANGED <<disk, past>>
        BY <2>3 DEF Acknowledged, Renewed, ConsumeNote
      <3> QED BY <1>b, <1>c, <3>1
    <2>4. CASE StartEnroll \/ StartLoad
      <3>1. Write(Remove({"removed"})) \/ UNCHANGED <<disk, past>>
        BY <2>4 DEF StartEnroll, StartLoad, Unremove
      <3> QED BY <1>a, <1>c, <3>1
    <2>5. CASE Consume /\ Apart
      <3>1. Write(Remove({"note"})) \/ UNCHANGED <<disk, past>>
        BY <2>5 DEF Consume
      <3> QED BY <1>b, <1>c, <3>1
    <2>6. CASE RemoveMark
      BY <1>0, <2>6, RemoveMarkEffect DEF Goal
    <2>7. CASE RemoveLast
      <3>1. Write(Remove({"removed"}))
        BY <2>7 DEF RemoveLast
      <3> QED BY <1>a, <3>1
    <2> QED BY <1>i, <2>2, <2>3, <2>4, <2>5, <2>6, <2>7 DEF AsideStep
  <1> QED BY <1>1, <1>i

\* The flushes, and the places they flush.
FlushStep == SyncStaged \/ MarkSync \/ SyncRenamed \/ SyncConsumed \/ SyncUnmarked

LEMMA FlushEffect ==
    ASSUME IInv, FlushStep
    PROVE  /\ DiskOK' /\ disk' = disk /\ Moves(past, past', disk') /\ Shrinks(past, past')
           /\ SyncStaged \/ SyncRenamed => \A d \in DirsOf(FilesOf(job)) : past'[d] = {View(disk', d)}
           /\ MarkSync \/ SyncUnmarked => past'["data"] = {View(disk', "data")}
  <1>0. DiskOK /\ "data" \in Dirs /\ DirsOf(FilesOf(job)) \subseteq Dirs
    BY EntryFacts DEF IInv, DirsOf
  <1>a. ASSUME NEW ds, Flush(ds)
        PROVE  /\ DiskOK' /\ disk' = disk /\ Moves(past, past', disk') /\ Shrinks(past, past')
               /\ \A d \in Dirs \intersect ds : past'[d] = {View(disk', d)}
    BY <1>0, <1>a, FlushMoves
  <1>1. CASE SyncStaged \/ SyncRenamed
    <2>1. Flush(DirsOf(FilesOf(job))) /\ ~MarkSync /\ ~SyncUnmarked
      BY <1>1 DEF SyncStaged, SyncRenamed, MarkSync, SyncUnmarked
    <2> QED BY <1>0, <1>a, <2>1
  <1>2. CASE MarkSync \/ SyncUnmarked
    <2>1. Flush({"data"}) /\ ~SyncStaged /\ ~SyncRenamed
      BY <1>2 DEF SyncStaged, SyncRenamed, MarkSync, SyncUnmarked
    <2> QED BY <1>0, <1>a, <2>1
  <1>3. CASE SyncConsumed
    <2>1. ~SyncStaged /\ ~SyncRenamed /\ ~MarkSync /\ ~SyncUnmarked
      BY <1>3 DEF SyncStaged, SyncRenamed, MarkSync, SyncUnmarked, SyncConsumed
    <2>2. Flush({"data"}) \/ UNCHANGED <<disk, past>>
      BY <1>3 DEF SyncConsumed
    <2> QED BY <1>0, <1>a, <2>1, <2>2, StayMoves
  <1> QED BY <1>1, <1>2, <1>3 DEF FlushStep

\* The steps that write nothing.
StayStep ==
    \/ Start \/ StartRemoval \/ StartStranded \/ (RecoverForward /\ Apart)
    \/ EnrollIssued \/ EnrollRefused \/ Enrolled \/ Reconnect \/ Renew \/ TrustBundle \/ Bundled
    \/ SaveFailed \/ StartOver \/ Restart \/ Deleted \/ RemoveUnit \/ InstallRestart \/ Kill
    \/ UNCHANGED vars

LEMMA StayEffect ==
    ASSUME StayStep
    PROVE  UNCHANGED <<disk, past>>
  BY DEF StayStep, Start, RecoverStart, StartRemoval, StartStranded, RecoverForward, EnrollIssued, Begin,
         EnrollRefused, Enrolled, Reconnect, Renew, TrustBundle, Bundled, SaveFailed, Fail, StartOver,
         Restart, Deleted, RemoveUnit, InstallRestart, Kill, vars

LEMMA RecoverEffect ==
    ASSUME IInv, RecoverClean \/ RecoverBack
    PROVE  /\ DiskOK' /\ Moves(past, past', disk') /\ disk'.live = disk.live
           /\ RecoverClean => \A e \in Files : disk'.next[e] = disk.next[e]
  <1>1. CASE RecoverClean
    <2>1. Write(RemoveStaged({"marker"}))
      BY <1>1 DEF RecoverClean
    <2>2. Files \subseteq AllEntries \ {"marker"}
      BY EntryFacts
    <2> QED BY <2>1, <2>2, CleanEffect DEF IInv
  <1>2. CASE RecoverBack
    <2>1. \E S : Write(RemoveStaged(S))
      BY <1>2 DEF RecoverBack
    <2>2. ~RecoverClean
      BY <1>2 DEF RecoverClean, RecoverBack
    <2> QED BY <2>1, <2>2, CleanEffect DEF IInv
  <1> QED BY <1>1, <1>2

\* Taking the marker away, and the master keys.
LEMMA UnmarkEffect ==
    ASSUME IInv, Unmark \/ UndoMarker
    PROVE  /\ DiskOK' /\ Moves(past, past', disk') /\ disk'.next = disk.next
           /\ disk'.live["marker"] = None
           /\ \A e \in AllEntries \ {"marker"} : disk'.live[e] = disk.live[e]
  <1>1. Write(Remove({"marker"}))
    BY DEF Unmark, UndoMarker
  <1>2. "marker" \in AllEntries
    BY EntryFacts
  <1> QED BY <1>1, <1>2, RemoveEffect DEF IInv

LEMMA RemoveTrustEffect ==
    ASSUME IInv, RemoveTrust
    PROVE  /\ DiskOK' /\ Moves(past, past', disk') /\ disk'.next = disk.next
           /\ disk'.live["server_ca"] = None
           /\ \A e \in AllEntries \ {"server_ca"} : disk'.live[e] = disk.live[e]
  <1>1. Write(Remove({"server_ca"}))
    BY DEF RemoveTrust
  <1>2. "server_ca" \in AllEntries
    BY EntryFacts
  <1> QED BY <1>1, <1>2, RemoveEffect DEF IInv

LEMMA WipeStepEffect ==
    ASSUME IInv, Wipe \/ RemoveWipe
    PROVE  /\ DiskOK' /\ Moves(past, past', disk')
           /\ disk'.live["note"] \in {disk.live["note"], None}
           /\ disk'.live["marker"] = None
           /\ \A e \in IdentityFiles : disk'.live[e] = None
           /\ disk'.live["server_ca"] = disk.live["server_ca"]
  <1>1. \E k \in {"note", "removed"} : Write(Wiped(k))
    BY DEF Wipe, RemoveWipe
  <1>2. PICK k \in {"note", "removed"} : Write(Wiped(k))
    BY <1>1
  <1>3. /\ DiskOK' /\ Moves(past, past', disk')
        /\ \A e \in Entries["data"] : disk'.live[e] = IF e = k THEN disk.live[e] ELSE None
        /\ disk'.live["server_ca"] = disk.live["server_ca"]
    BY <1>2, WipeEffect DEF IInv
  <1>4. /\ IdentityFiles \subseteq Entries["data"] /\ "marker" \in Entries["data"] /\ "note" \in Entries["data"]
        /\ k \notin IdentityFiles /\ k # "marker"
    BY EntryFacts DEF IdentityFiles
  <1> QED BY <1>3, <1>4

\* Every step is one of these.
WriteStep ==
    \/ StageOpen \/ StageFill \/ MarkOpen \/ MarkFill \/ MarkRename \/ Rename \/ Unmark
    \/ RecoverClean \/ RecoverBack \/ UndoMarker

LEMMA Cases ==
    ASSUME [Next]_vars
    PROVE  \/ StayStep \/ AsideStep \/ (FlushStep /\ Apart) \/ (WriteStep /\ Apart)
           \/ Wipe \/ RemoveWipe \/ RemoveTrust \/ Cut
  BY DEF Next, Step, StoreStep, StayStep, AsideStep, FlushStep, WriteStep, Apart

LEMMA DiskStep ==
    ASSUME IInv, [Next]_vars
    PROVE  DiskOK' /\ Moves(past, past', disk')
  <1>1. CASE StayStep
    BY <1>1, StayEffect, StayMoves DEF IInv
  <1>2. CASE AsideStep
    BY <1>2, AsideEffect
  <1>3. CASE FlushStep
    BY <1>3, FlushEffect
  <1>4. CASE WriteStep
    BY <1>4, StageOpenEffect, StageFillEffect, MarkEffect, MarkRenameEffect, RenameEffect, UnmarkEffect,
       RecoverEffect DEF WriteStep
  <1>5. CASE Wipe \/ RemoveWipe
    BY <1>5, WipeStepEffect
  <1>6. CASE RemoveTrust
    BY <1>6, RemoveTrustEffect
  <1>7. CASE Cut
    BY <1>7, CutMoves DEF IInv, Cut
  <1> QED BY <1>1, <1>2, <1>3, <1>4, <1>5, <1>6, <1>7, Cases

LEMMA NotesStep ==
    ASSUME IInv, [Next]_vars
    PROVE  NotesOK'
  <1>0. /\ DiskOK /\ NotesIn(past) /\ disk.live["note"] \in Notes \union {None}
        /\ DiskOK' /\ Moves(past, past', disk')
    BY DiskSays, DiskStep DEF IInv, DiskOK, NotesOK
  <1>n. disk'.live["note"] \in Notes \union {None} => NotesIn(past')
    BY <1>0, StaysNoted DEF DiskOK
  <1>s. Shrinks(past, past') => NotesIn(past')
    BY <1>0, ShrinkKeeps
  <1>e. "note" \in AllEntries /\ "note" \notin Files
    BY EntryFacts
  <1>1. NotesIn(past')
    <2>1. CASE StayStep
      BY <2>1, <1>0, <1>s, StayEffect, StayMoves
    <2>2. CASE AsideStep
      BY <2>2, <1>n, AsideEffect
    <2>3. CASE FlushStep
      BY <2>3, <1>s, FlushEffect
    <2>4. CASE WriteStep
      <3>1. disk'.live["note"] = disk.live["note"]
        <4>1. CASE StageOpen \/ StageFill \/ MarkOpen \/ MarkFill \/ RecoverClean \/ RecoverBack
          BY <4>1, StageOpenEffect, StageFillEffect, MarkEffect, RecoverEffect
        <4>2. CASE MarkRename
          BY <4>2, <1>e, MarkRenameEffect
        <4>3. CASE Unmark \/ UndoMarker
          BY <4>3, <1>e, UnmarkEffect
        <4>4. CASE Rename
          <5>1. job.order[i] # "note"
            BY <4>4, <1>e, AtFile DEF Rename
          <5> QED BY <4>4, <5>1, <1>e, RenameEffect
        <4> QED BY <2>4, <4>1, <4>2, <4>3, <4>4 DEF WriteStep
      <3> QED BY <3>1, <1>0, <1>n
    <2>5. CASE Wipe \/ RemoveWipe
      BY <2>5, <1>0, <1>n, WipeStepEffect
    <2>6. CASE RemoveTrust
      BY <2>6, <1>0, <1>n, <1>e, RemoveTrustEffect
    <2>7. CASE Cut
      BY <2>7, <1>0, <1>s, CutMoves DEF Cut
    <2> QED BY <2>1, <2>2, <2>3, <2>4, <2>5, <2>6, <2>7, Cases
  <1>2. pc' \in {"wipe", "enroll"} => using' \in Notes
    <2> SUFFICES ASSUME pc' \in {"wipe", "enroll"} PROVE using' \in Notes
      OBVIOUS
    <2>c. ControlOK /\ (pc \in {"wipe", "enroll"} => using \in Notes)
      BY DEF IInv, NotesOK
    <2>1. CASE StartEnroll \/ StartOver
      <3>1. using' = disk.live["note"] /\ disk.live["note"] # None
        BY <2>1 DEF StartEnroll, StartOver, note
      <3> QED BY <3>1, <1>0
    <2>2. CASE Wipe \/ InstallClear \/ \E s \in Servers, f \in BOOLEAN : InstallNote(s, f)
      BY <2>2, <2>c DEF Wipe, Goto, agentVars, InstallClear, InstallNote
    <2>3. CASE UNCHANGED vars
      BY <2>3, <2>c DEF vars
    <2>4. CASE StoreStep
      <3>1. pc' \notin {"wipe", "enroll"}
        BY <2>4, <2>c DEF ControlOK, Saving, Staging, Marking, Finishing, Returned, StoreStep, StageOpen, StageFill,
             SyncStaged, MarkOpen, MarkFill, MarkRename, MarkSync, Rename, SyncRenamed, Consume, SyncConsumed,
             Unmark, SyncUnmarked, RecoverClean, RecoverForward, RecoverBack, UndoMarker, Goto, Turn
      <3> QED BY <3>1
    <2>5. CASE \/ Start \/ StartLoad \/ StartRemoval \/ StartStranded \/ Enrolled \/ Renewed \/ Bundled \/ Restart
               \/ RemoveMark \/ RemoveWipe \/ RemoveTrust \/ RemoveUnit \/ RemoveLast
      BY <2>5 DEF Start, RecoverStart, StartLoad, StartRemoval, StartStranded, Enrolled, Renewed, Bundled, Restart,
           RemoveMark, RemoveWipe, RemoveTrust, RemoveUnit, RemoveLast, Leave, Goto
    <2>6. CASE \/ InstallRestart \/ EnrollIssued \/ EnrollRefused \/ Acknowledged \/ Reconnect \/ Renew
               \/ TrustBundle \/ SaveFailed \/ Deleted \/ Cut \/ Kill
      BY <2>6 DEF InstallRestart, EnrollIssued, EnrollRefused, Acknowledged, Reconnect, Renew, TrustBundle,
           SaveFailed, Fail, Deleted, Cut, Kill, Begin, Leave, Die
    <2> QED BY <2>1, <2>2, <2>3, <2>4, <2>5, <2>6 DEF Next, Step
  <1> QED BY <1>1, <1>2 DEF NotesOK

-----------------------------------------------------------------------------
(* The marker and the files it names *)

\* The disk a step leaves holds the save as the views before it did.
LEMMA HoldingMoves ==
    ASSUME NEW P, NEW Q, NEW D, Sound(Q, D), Moves(P, Q, D), NEW j \in Jobs, Holding(P, j),
           \A f \in FilesOf(j) : D.next[f] = j.put[f] \/ (D.next[f] = None /\ D.live[f] = j.put[f])
    PROVE  Holding(Q, j)
  <1>1. ASSUME NEW d \in Dirs PROVE HeldIn(View(D, d), d, j)
    BY ViewFacts DEF HeldIn, Sound
  <1> QED BY <1>1 DEF Holding, Moves

LEMMA StagedMoves ==
    ASSUME NEW P, NEW Q, NEW D, Sound(Q, D), Moves(P, Q, D), NEW j \in Jobs, Staged(P, j),
           \A f \in FilesOf(j) : D.next[f] = j.put[f]
    PROVE  Staged(Q, j)
  <1>1. ASSUME NEW d \in Dirs PROVE StagedIn(View(D, d), d, j)
    BY ViewFacts DEF StagedIn, Sound
  <1> QED BY <1>1 DEF Staged, Moves

LEMMA PlacedMoves ==
    ASSUME NEW P, NEW Q, NEW D, Sound(Q, D), Moves(P, Q, D), NEW j \in Jobs, InPlace(P, j),
           \A f \in FilesOf(j) : D.next[f] = None /\ D.live[f] = j.put[f]
    PROVE  InPlace(Q, j)
  <1>1. ASSUME NEW d \in Dirs PROVE PlacedIn(View(D, d), d, j)
    BY ViewFacts DEF PlacedIn, Sound
  <1> QED BY <1>1 DEF InPlace, Moves

LEMMA MarkerMoves ==
    ASSUME NEW P, NEW Q, NEW D, Sound(Q, D), Moves(P, Q, D), NEW j,
           \A v \in P["data"] : v.live["marker"] \in {None, j}, D.live["marker"] \in {None, j}
    PROVE  /\ MarkedIf(Q, j)
           /\ (\A v \in P["data"] : v.live["marker"] = j) /\ D.live["marker"] = j
                => \A v \in Q["data"] : v.live["marker"] = j
  <1>1. View(D, "data").live["marker"] = D.live["marker"]
    BY ViewFacts, EntryFacts DEF Sound
  <1> QED BY <1>1, EntryFacts DEF MarkedIf, Moves

\* A save that is staged or in place is held.
LEMMA HeldEither ==
    ASSUME NEW P, NEW j, Staged(P, j) \/ InPlace(P, j)
    PROVE  Holding(P, j)
  BY DEF Staged, StagedIn, InPlace, PlacedIn, Holding, HeldIn

\* A flush of the save's directories leaves of the save what the disk holds of it.
LEMMA FlushedSave ==
    ASSUME NEW Q, NEW D, Sound(Q, D), NEW j \in Jobs,
           \A d \in DirsOf(FilesOf(j)) : Q[d] = {View(D, d)}
    PROVE  /\ (\A f \in FilesOf(j) : D.next[f] = j.put[f]) => Staged(Q, j)
           /\ (\A f \in FilesOf(j) : D.next[f] = None /\ D.live[f] = j.put[f]) => InPlace(Q, j)
  <1>1. ASSUME NEW d \in Dirs, d \notin DirsOf(FilesOf(j))
        PROVE  FilesOf(j) \intersect Entries[d] = {}
    BY <1>1 DEF DirsOf
  <1>2. ASSUME NEW d \in Dirs
        PROVE  \A e \in Entries[d] : View(D, d).live[e] = D.live[e] /\ View(D, d).next[e] = D.next[e]
    BY ViewFacts DEF Sound
  <1>3. (\A f \in FilesOf(j) : D.next[f] = j.put[f]) => Staged(Q, j)
    BY <1>1, <1>2 DEF Staged, StagedIn
  <1>4. (\A f \in FilesOf(j) : D.next[f] = None /\ D.live[f] = j.put[f]) => InPlace(Q, j)
    BY <1>1, <1>2 DEF InPlace, PlacedIn
  <1> QED BY <1>3, <1>4

\* Outside the two unflushed moments the views agree whether there is a marker.
LEMMA OneMind ==
    ASSUME IInv
    PROVE  \/ pc \in {"mark_sync", "sync_unmarked"}
           \/ Unmarked(past)
           \/ before # {} /\ Marked(past, job)
  BY DEF IInv, ControlOK, StoreOK, Places, Saving, Staging, Marking, Finishing, Returned, Quiet, Removing

\* Nothing but the absence of a marker is said where no save is under way.
LEMMA IdleStore ==
    ASSUME Unmarked(past'),
           pc' \in Quiet \union {"down", "recover", "read_marker", "undo_marker", "decide"}
    PROVE  StoreOK'
  BY DEF StoreOK, Saving, Staging, Marking, Finishing, Returned, Quiet, Removing

LEMMA StayStore ==
    ASSUME IInv, StayStep
    PROVE  StoreOK'
  <1> USE DEF Places, Saving, Staging, Marking, Finishing, Returned, Quiet, Removing
  <1>0. ControlOK /\ StoreOK /\ past' = past /\ disk' = disk
    BY StayEffect DEF IInv
  <1>1. CASE Start
    BY <1>0, <1>1 DEF StoreOK, ControlOK, Start, RecoverStart, agentVars
  <1>2. CASE StartRemoval \/ StartStranded
    BY <1>0, <1>2, IdleStore DEF StoreOK, StartRemoval, StartStranded, Leave
  <1>3. CASE RecoverForward /\ Apart
    BY <1>0, <1>3, MarkerIsJob DEF StoreOK, ControlOK, RecoverForward, Apart
  <1>4. CASE EnrollIssued \/ Renew \/ TrustBundle
    <2>1. pc \in Quiet /\ pc' = "stage" /\ i' = 1
      BY <1>4 DEF EnrollIssued, Renew, TrustBundle, Begin
    <2>2. Unmarked(past')
      BY <1>0, <2>1 DEF StoreOK
    <2> QED BY <2>1, <2>2 DEF StoreOK
  <1>5. CASE EnrollRefused \/ Enrolled \/ Bundled \/ Restart \/ Deleted \/ Reconnect \/ StartOver \/ RemoveUnit
    <2>1. /\ pc \in Quiet \union Returned
          /\ pc' \in Quiet \union {"down", "recover", "read_marker", "undo_marker", "decide"}
      BY <1>5 DEF EnrollRefused, Enrolled, Bundled, Restart, Deleted, Reconnect, StartOver, RemoveUnit,
           Die, Leave, Goto
    <2>2. Unmarked(past')
      BY <1>0, <2>1 DEF StoreOK
    <2> QED BY <2>1, <2>2, IdleStore
  <1>6. CASE SaveFailed
    <2>1. pc \in UnmarkedSteps /\ pc' = "run"
      BY <1>6, FailureAssumption DEF SaveFailed, Fail, Leave
    <2>2. Unmarked(past')
      BY <1>0, <2>1 DEF StoreOK, UnmarkedSteps
    <2> QED BY <2>1, <2>2, IdleStore
  <1>7. CASE InstallRestart \/ Kill
    <2>1. /\ pc \notin {"mark_sync", "sync_unmarked"} /\ before' = before
          /\ job' = IF before = {} THEN None ELSE job
          /\ pc' = "down" \/ (pc' = "gone" /\ ~unit)
      BY <1>7, FailureAssumption DEF InstallRestart, Kill, Die
    <2>2. CASE Unmarked(past)
      BY <1>0, <2>1, <2>2, IdleStore
    <2>3. CASE before # {} /\ Marked(past, job) /\ pc' = "down"
      BY <1>0, <2>1, <2>3 DEF StoreOK
    <2>4. CASE pc' = "gone" /\ ~unit
      <3>1. Unmarked(past)
        BY <1>0, <2>4 DEF ControlOK, StoreOK
      <3> QED BY <2>2, <3>1
    <2> QED BY <2>1, <2>2, <2>3, <2>4, OneMind
  <1>8. CASE UNCHANGED vars
    BY <1>0, <1>8 DEF vars, StoreOK
  <1> QED BY <1>1, <1>2, <1>3, <1>4, <1>5, <1>6, <1>7, <1>8 DEF StayStep

LEMMA AsideStore ==
    ASSUME IInv, AsideStep
    PROVE  StoreOK'
  <1> USE DEF Places, Saving, Staging, Marking, Finishing, Returned, Quiet, Removing
  <1>0. ControlOK /\ StoreOK /\ DiskOK /\ DiskOK' /\ Moves(past, past', disk') /\ Aside(disk, disk')
    BY AsideEffect DEF IInv
  <1>1. /\ \A e \in Files \union {"marker"} : disk'.live[e] = disk.live[e]
        /\ \A e \in Files : disk'.next[e] = disk.next[e]
        /\ disk'.next["marker"] = disk.next["marker"]
    BY <1>0, EntryFacts DEF Aside
  <1>2. Unmarked(past) => Unmarked(past')
    <2>1. Unmarked(past) => disk'.live["marker"] = None
      BY <1>0, <1>1, DiskSays DEF DiskOK
    <2> QED BY <1>0, <2>1, StaysUnmarked DEF DiskOK
  <1>3. ASSUME job \in Jobs
        PROVE  /\ Staged(past, job) => Staged(past', job)
               /\ InPlace(past, job) => InPlace(past', job)
               /\ MarkedIf(past, job) => MarkedIf(past', job)
               /\ Marked(past, job) => Marked(past', job)
    BY <1>0, <1>1, <1>3, AsideKeeps DEF DiskOK
  <1>4. before # {} => job \in Jobs /\ FilesOf(job) \subseteq Files
                       /\ \A k \in 1 .. Len(job.order) : job.order[k] \in Files
    <2>1. ASSUME before # {}
          PROVE  /\ job \in Jobs /\ FilesOf(job) \subseteq Files
                 /\ \A k \in 1 .. Len(job.order) : job.order[k] \in Files
      <3>1. job \in Jobs
        BY <1>0, <2>1 DEF ControlOK
      <3> QED BY <3>1, JobFacts DEF FilesOf
    <2> QED BY <2>1
  <1>5. CASE StartEnroll \/ StartLoad \/ Renewed \/ RemoveMark \/ RemoveLast \/ Acknowledged
    <2>1. pc \in Quiet \union Returned \union {"decide"} /\ pc' \in Quiet
      BY <1>5 DEF StartEnroll, StartLoad, Renewed, RemoveMark, RemoveLast, Acknowledged, Leave, Goto
    <2>2. Unmarked(past')
      BY <1>0, <1>2, <2>1 DEF StoreOK
    <2> QED BY <2>1, <2>2, IdleStore
  <1>6. CASE Consume /\ Apart
    <2>1. pc = "consume" /\ pc' = "sync_consumed" /\ job' = job /\ before # {}
      BY <1>0, <1>6 DEF Consume, Goto, ControlOK
    <2>2. Marked(past', job) /\ InPlace(past', job)
      BY <1>0, <1>3, <1>4, <2>1 DEF StoreOK
    <2> QED BY <2>1, <2>2 DEF StoreOK
  <1>7. CASE InstallClear \/ \E s \in Servers, f \in BOOLEAN : InstallNote(s, f)
    <2>1. pc' = pc /\ i' = i /\ job' = job /\ (before # {} => before' # {})
      BY <1>7 DEF InstallClear, InstallNote
    <2>2. CASE pc \in {"stage", "fill", "rename"}
      <3>1. /\ i \in 1 .. Len(job.order) /\ before # {}
        BY <1>0, <2>2 DEF ControlOK
      <3>2. \A k \in 1 .. i - 1 : k \in 1 .. Len(job.order)
        BY <3>1, <1>4, JobFacts
      <3>3. \A k \in 1 .. i - 1 : disk'.next[job.order[k]] = disk.next[job.order[k]]
        BY <1>1, <1>4, <3>1, <3>2
      <3>4. CASE pc \in {"stage", "fill"}
        BY <1>0, <1>2, <2>1, <3>3, <3>4 DEF StoreOK
      <3>5. CASE pc = "rename"
        BY <1>0, <1>3, <1>4, <2>1, <3>1, <3>3, <3>5 DEF StoreOK
      <3> QED BY <2>2, <3>4, <3>5
    <2>3. CASE pc \in {"sync_staged"} \union Marking \union {"mark_sync"}
      <3>1. before # {} /\ \A f \in FilesOf(job) : disk'.next[f] = disk.next[f]
        BY <1>0, <1>1, <1>4, <2>3 DEF ControlOK
      <3> QED BY <1>0, <1>1, <1>2, <1>3, <1>4, <2>1, <2>3, <3>1 DEF StoreOK
    <2>4. CASE pc \in {"sync_renamed", "consume", "sync_consumed", "unmark", "sync_unmarked"} \union Returned
      <3>1. before # {} /\ \A f \in FilesOf(job) : disk'.next[f] = disk.next[f]
        BY <1>0, <1>1, <1>4, <2>4 DEF ControlOK
      <3> QED BY <1>0, <1>1, <1>2, <1>3, <1>4, <2>1, <2>4, <3>1 DEF StoreOK
    <2>5. CASE pc \in {"down", "recover", "read_marker"}
      BY <1>0, <1>2, <1>3, <1>4, <2>1, <2>5 DEF StoreOK
    <2>6. CASE pc \in Quiet \union {"undo_marker", "decide"}
      <3>1. Unmarked(past')
        BY <1>0, <1>2, <2>6 DEF StoreOK
      <3> QED BY <2>1, <2>6, <3>1, IdleStore
    <2> QED BY <1>0, <2>2, <2>3, <2>4, <2>5, <2>6 DEF ControlOK
  <1> QED BY <1>5, <1>6, <1>7 DEF AsideStep

LEMMA FlushStore ==
    ASSUME IInv, FlushStep, Apart
    PROVE  StoreOK'
  <1> USE DEF Places, Saving, Staging, Marking, Finishing, Returned, Quiet, Removing
  <1>0. /\ ControlOK /\ StoreOK /\ DiskOK /\ DiskOK' /\ disk' = disk
        /\ Moves(past, past', disk') /\ Shrinks(past, past')
    BY FlushEffect DEF IInv
  <1>1. /\ Unmarked(past) => Unmarked(past')
        /\ Staged(past, job) => Staged(past', job)
        /\ InPlace(past, job) => InPlace(past', job)
        /\ Marked(past, job) => Marked(past', job)
    BY <1>0, ShrinkKeeps
  <1>2. before # {} /\ job \in Jobs
    BY <1>0 DEF FlushStep, SyncStaged, MarkSync, SyncRenamed, SyncConsumed, SyncUnmarked, ControlOK
  <1>3. View(disk', "data").live["marker"] = disk.live["marker"]
    BY <1>0, ViewFacts, EntryFacts DEF DiskOK, Sound
  <1>4. CASE SyncStaged
    <2>1. pc = "sync_staged" /\ pc' = "mark" /\ job' = job
      BY <1>4 DEF SyncStaged, Goto
    <2>2. \A f \in FilesOf(job) : disk'.next[f] = job.put[f]
      BY <1>0, <2>1 DEF StoreOK
    <2>3. \A d \in DirsOf(FilesOf(job)) : past'[d] = {View(disk', d)}
      BY <1>4, FlushEffect
    <2>4. Staged(past', job)
      BY <1>0, <1>2, <2>2, <2>3, FlushedSave DEF DiskOK
    <2> QED BY <1>0, <1>1, <2>1, <2>4 DEF StoreOK
  <1>5. CASE MarkSync
    <2>1. pc = "mark_sync" /\ pc' = "rename" /\ job' = job /\ i' = 1
      BY <1>0, <1>5 DEF MarkSync, Goto, ControlOK
    <2>2. past'["data"] = {View(disk', "data")} /\ disk.live["marker"] = job
      BY <1>0, <1>5, <2>1, FlushEffect DEF StoreOK
    <2>3. Holding(past', job)
      BY <1>0, <1>1, <2>1, HeldEither DEF StoreOK
    <2>4. Marked(past', job)
      BY <1>3, <2>2, <2>3 DEF Marked
    <2> QED BY <2>1, <2>4 DEF StoreOK
  <1>6. CASE SyncRenamed
    <2>1. pc = "sync_renamed" /\ pc' = "consume" /\ job' = job
      BY <1>6 DEF SyncRenamed, Goto
    <2>2. Marked(past, job) /\ \A f \in FilesOf(job) : disk.next[f] = None
      BY <1>0, <2>1 DEF StoreOK
    <2>3. \A f \in FilesOf(job) : disk.next[f] = job.put[f] \/ (disk.next[f] = None /\ disk.live[f] = job.put[f])
      BY <1>0, <1>2, <2>2, DiskSays DEF DiskOK, Marked
    <2>4. \A f \in FilesOf(job) : job.put[f] # None
      BY <1>2, JobFacts, AbsenceAssumption
    <2>5. \A f \in FilesOf(job) : disk'.next[f] = None /\ disk'.live[f] = job.put[f]
      BY <1>0, <2>2, <2>3, <2>4
    <2>6. \A d \in DirsOf(FilesOf(job)) : past'[d] = {View(disk', d)}
      BY <1>6, FlushEffect
    <2>7. InPlace(past', job)
      BY <1>0, <1>2, <2>5, <2>6, FlushedSave DEF DiskOK
    <2> QED BY <1>1, <2>1, <2>2, <2>7 DEF StoreOK
  <1>7. CASE SyncConsumed
    <2>1. pc = "sync_consumed" /\ pc' = "unmark" /\ job' = job
      BY <1>7 DEF SyncConsumed, Goto
    <2> QED BY <1>0, <1>1, <2>1 DEF StoreOK
  <1>8. CASE SyncUnmarked
    <2>1. pc = "sync_unmarked" /\ pc' \in Returned \union {"decide"} /\ job' = job
      BY <1>0, <1>8 DEF SyncUnmarked, Goto, ControlOK
    <2>2. past'["data"] = {View(disk', "data")} /\ disk.live["marker"] = None
      BY <1>0, <1>8, <2>1, FlushEffect DEF StoreOK
    <2>3. Unmarked(past')
      BY <1>3, <2>2 DEF Unmarked
    <2> QED BY <1>0, <1>1, <2>1, <2>3 DEF StoreOK
  <1> QED BY <1>4, <1>5, <1>6, <1>7, <1>8 DEF FlushStep

LEMMA LoopFacts ==
    ASSUME NEW j \in Jobs
    PROVE  /\ DOMAIN j.order = 1 .. Len(j.order) /\ Len(j.order) \in Nat
           /\ \A k, m \in 1 .. Len(j.order) : k # m => j.order[k] # j.order[m]
           /\ \A k \in 1 .. Len(j.order) : j.order[k] \in AllEntries
           /\ FilesOf(j) \subseteq AllEntries \ {"marker"} /\ "marker" \in AllEntries
  <1>1. \A k \in DOMAIN j.order : j.order[k] \in FilesOf(j)
    BY DEF FilesOf
  <1>2. Files \subseteq AllEntries \ {"marker"} /\ "marker" \in AllEntries
    BY EntryFacts
  <1>3. FilesOf(j) \subseteq AllEntries \ {"marker"}
    BY <1>2, JobFacts
  <1> QED BY <1>1, <1>2, <1>3, JobFacts

\* Staging, up to the commit point.
LEMMA StagingStore ==
    ASSUME IInv, StageOpen \/ StageFill \/ MarkOpen \/ MarkFill \/ MarkRename, Apart
    PROVE  StoreOK'
  <1> USE DEF Places, Saving, Staging, Marking, Finishing, Returned, Quiet, Removing
  <1>0. ControlOK /\ StoreOK /\ DiskOK
    BY DEF IInv
  <1>1. before # {} /\ job \in Jobs /\ pc \in Staging \union Marking
    BY <1>0 DEF StageOpen, StageFill, MarkOpen, MarkFill, MarkRename, ControlOK
  <1>2. Unmarked(past) /\ disk.live["marker"] = None
    BY <1>0, <1>1, DiskSays DEF StoreOK, DiskOK
  <1>u. DiskOK' /\ Moves(past, past', disk') /\ disk'.live = disk.live => Unmarked(past')
    BY <1>2, StaysUnmarked DEF DiskOK
  <1>d. /\ DOMAIN job.order = 1 .. Len(job.order) /\ Len(job.order) \in Nat
        /\ \A k, m \in 1 .. Len(job.order) : k # m => job.order[k] # job.order[m]
        /\ \A k \in 1 .. Len(job.order) : job.order[k] \in AllEntries
        /\ FilesOf(job) \subseteq AllEntries \ {"marker"}
    BY <1>1, LoopFacts
  <1>3. CASE StageOpen \/ StageFill
    <2>1. pc \in {"stage", "fill"} /\ i \in 1 .. Len(job.order)
      BY <1>0, <1>3 DEF StageOpen, StageFill, ControlOK
    <2>2. \A k \in 1 .. i - 1 : k \in 1 .. Len(job.order) /\ k # i
      BY <1>d, <2>1
    <2>3. \A k \in 1 .. i - 1 : job.order[k] \in AllEntries \ {job.order[i]}
      BY <1>d, <2>1, <2>2
    <2>4. \A k \in 1 .. i - 1 : disk.next[job.order[k]] = job.put[job.order[k]]
      BY <1>0, <2>1 DEF StoreOK
    <2>5. CASE StageOpen
      <3>1. pc' = "fill" /\ i' = i /\ job' = job
        BY <2>5 DEF StageOpen, Goto
      <3>2. Unmarked(past') /\ \A k \in 1 .. i - 1 : disk'.next[job.order[k]] = job.put[job.order[k]]
        BY <1>u, <2>3, <2>4, <2>5, StageOpenEffect
      <3> QED BY <3>1, <3>2 DEF StoreOK
    <2>6. CASE StageFill
      <3>1. Unmarked(past') /\ \A k \in 1 .. i - 1 : disk'.next[job.order[k]] = job.put[job.order[k]]
        BY <1>u, <2>3, <2>4, <2>6, StageFillEffect
      <3>2. disk'.next[job.order[i]] = job.put[job.order[i]]
        BY <2>6, StageFillEffect
      <3>3. \A k \in 1 .. i : k \in 1 .. i - 1 \/ k = i
        BY <1>d, <2>1
      <3>4. \A k \in 1 .. i : disk'.next[job.order[k]] = job.put[job.order[k]]
        BY <3>1, <3>2, <3>3
      <3>5. CASE i < Len(job.order)
        <4>1. pc' = "stage" /\ i' = i + 1 /\ job' = job
          BY <2>6, <3>5 DEF StageFill, Turn
        <4>2. i' - 1 = i
          BY <1>d, <2>1, <4>1
        <4> QED BY <3>1, <3>4, <4>1, <4>2 DEF StoreOK
      <3>6. CASE ~(i < Len(job.order))
        <4>1. pc' = "sync_staged" /\ job' = job
          BY <2>6, <3>6 DEF StageFill, Turn
        <4>2. i = Len(job.order)
          BY <1>d, <2>1, <3>6
        <4>3. \A f \in FilesOf(job) : disk'.next[f] = job.put[f]
          BY <1>d, <3>4, <4>2 DEF FilesOf
        <4> QED BY <3>1, <4>1, <4>3 DEF StoreOK
      <3> QED BY <3>5, <3>6
    <2> QED BY <1>3, <2>5, <2>6
  <1>4. CASE MarkOpen \/ MarkFill
    <2>1. /\ pc \in {"mark", "mark_fill"} /\ job' = job /\ pc' \in {"mark_fill", "mark_rename"}
          /\ pc' = "mark_rename" => MarkFill
      BY <1>4 DEF MarkOpen, MarkFill, Goto
    <2>2. /\ DiskOK' /\ Moves(past, past', disk') /\ disk'.live = disk.live
          /\ MarkFill => disk'.next["marker"] = job
          /\ \A e \in Files : disk'.next[e] = disk.next[e]
      BY <1>4, MarkEffect
    <2>3. Staged(past, job) /\ Unmarked(past')
      BY <1>0, <1>u, <2>1, <2>2 DEF StoreOK
    <2>4. \A f \in FilesOf(job) : disk'.next[f] = job.put[f]
      BY <1>0, <1>1, <2>2, <2>3, DiskSays, JobFacts DEF DiskOK
    <2>5. Staged(past', job)
      BY <1>1, <2>2, <2>3, <2>4, StagedMoves DEF DiskOK
    <2> QED BY <2>1, <2>2, <2>3, <2>5 DEF StoreOK
  <1>5. CASE MarkRename
    <2>1. pc = "mark_rename" /\ pc' = "mark_sync" /\ job' = job
      BY <1>5 DEF MarkRename, Goto
    <2>2. /\ DiskOK' /\ Moves(past, past', disk') /\ disk'.live["marker"] = job
          /\ \A e \in AllEntries \ {"marker"} : disk'.next[e] = disk.next[e]
      BY <1>5, MarkRenameEffect
    <2>3. Staged(past, job)
      BY <1>0, <2>1 DEF StoreOK
    <2>4. \A f \in FilesOf(job) : disk'.next[f] = job.put[f]
      BY <1>0, <1>1, <1>d, <2>2, <2>3, DiskSays DEF DiskOK
    <2>5. Staged(past', job)
      BY <1>1, <2>2, <2>3, <2>4, StagedMoves DEF DiskOK
    <2>6. \A v \in past["data"] : v.live["marker"] \in {None, job}
      BY <1>2 DEF Unmarked
    <2>7. MarkedIf(past', job)
      BY <2>2, <2>6, MarkerMoves DEF DiskOK
    <2> QED BY <2>1, <2>2, <2>5, <2>7 DEF StoreOK
  <1> QED BY <1>3, <1>4, <1>5

\* After the commit point.
LEMMA FinishingStore ==
    ASSUME IInv, Rename \/ Unmark, Apart
    PROVE  StoreOK'
  <1> USE DEF Places, Saving, Staging, Marking, Finishing, Returned, Quiet, Removing
  <1>0. ControlOK /\ StoreOK /\ DiskOK
    BY DEF IInv
  <1>1. before # {} /\ job \in Jobs /\ Marked(past, job)
    BY <1>0 DEF Rename, Unmark, ControlOK, StoreOK
  <1>2. /\ disk.live["marker"] = job
        /\ \A f \in FilesOf(job) : disk.next[f] = job.put[f] \/ (disk.next[f] = None /\ disk.live[f] = job.put[f])
    BY <1>0, <1>1, DiskSays DEF DiskOK, Marked
  <1>d. /\ DOMAIN job.order = 1 .. Len(job.order) /\ Len(job.order) \in Nat
        /\ \A k, m \in 1 .. Len(job.order) : k # m => job.order[k] # job.order[m]
        /\ \A k \in 1 .. Len(job.order) : job.order[k] \in AllEntries
        /\ FilesOf(job) \subseteq AllEntries \ {"marker"} /\ "marker" \in AllEntries
    BY <1>1, LoopFacts
  <1>3. CASE Rename
    <2>1. pc = "rename" /\ i \in 1 .. Len(job.order) /\ job.order[i] # "marker"
      BY <1>0, <1>3, AtFile, EntryFacts DEF Rename, ControlOK
    <2>2. /\ DiskOK' /\ Moves(past, past', disk')
          /\ disk'.next[job.order[i]] = None /\ disk'.live[job.order[i]] = job.put[job.order[i]]
          /\ \A e \in AllEntries \ {job.order[i]} : disk'.live[e] = disk.live[e] /\ disk'.next[e] = disk.next[e]
      BY <1>3, RenameEffect
    <2>3. \A f \in FilesOf(job) : disk'.next[f] = job.put[f] \/ (disk'.next[f] = None /\ disk'.live[f] = job.put[f])
      BY <1>2, <1>d, <2>2
    <2>4. Holding(past', job)
      BY <1>1, <2>2, <2>3, HoldingMoves DEF DiskOK, Marked
    <2>5. disk'.live["marker"] = job
      BY <1>2, <1>d, <2>1, <2>2
    <2>6. \A v \in past["data"] : v.live["marker"] = job
      BY <1>1 DEF Marked
    <2>7. \A v \in past'["data"] : v.live["marker"] = job
      BY <2>2, <2>5, <2>6, MarkerMoves DEF DiskOK
    <2>8. Marked(past', job)
      BY <2>4, <2>7 DEF Marked
    <2>9. \A k \in 1 .. i : disk'.next[job.order[k]] = None
      <3>1. \A k \in 1 .. i : k = i \/ (k \in 1 .. i - 1 /\ k \in 1 .. Len(job.order) /\ k # i)
        BY <1>d, <2>1
      <3>2. \A k \in 1 .. i - 1 : disk.next[job.order[k]] = None
        BY <1>0, <2>1 DEF StoreOK
      <3>3. ASSUME NEW k \in 1 .. i - 1, k \in 1 .. Len(job.order), k # i
            PROVE  disk'.next[job.order[k]] = None
        <4>1. job.order[k] \in AllEntries \ {job.order[i]}
          BY <1>d, <2>1, <3>3
        <4> QED BY <2>2, <3>2, <4>1
      <3> QED BY <2>2, <3>1, <3>3
    <2>10. CASE i < Len(job.order)
      <3>1. pc' = "rename" /\ i' = i + 1 /\ job' = job
        BY <1>3, <2>10 DEF Rename, Turn
      <3>2. i' - 1 = i
        BY <1>d, <2>1, <3>1
      <3> QED BY <2>8, <2>9, <3>1, <3>2 DEF StoreOK
    <2>11. CASE ~(i < Len(job.order))
      <3>1. pc' = "sync_renamed" /\ job' = job
        BY <1>3, <2>11 DEF Rename, Turn
      <3>2. i = Len(job.order)
        BY <1>d, <2>1, <2>11
      <3>3. \A f \in FilesOf(job) : disk'.next[f] = None
        BY <1>d, <2>9, <3>2 DEF FilesOf
      <3> QED BY <2>8, <3>1, <3>3 DEF StoreOK
    <2> QED BY <2>10, <2>11
  <1>4. CASE Unmark
    <2>1. pc = "unmark" /\ pc' = "sync_unmarked" /\ job' = job
      BY <1>4 DEF Unmark, Goto
    <2>2. /\ DiskOK' /\ Moves(past, past', disk') /\ disk'.next = disk.next
          /\ disk'.live["marker"] = None
          /\ \A e \in AllEntries \ {"marker"} : disk'.live[e] = disk.live[e]
      BY <1>4, UnmarkEffect
    <2>3. InPlace(past, job)
      BY <1>0, <2>1 DEF StoreOK
    <2>4. \A f \in FilesOf(job) : disk'.next[f] = None /\ disk'.live[f] = job.put[f]
      BY <1>0, <1>1, <1>d, <2>2, <2>3, DiskSays DEF DiskOK
    <2>5. InPlace(past', job)
      BY <1>1, <2>2, <2>3, <2>4, PlacedMoves DEF DiskOK
    <2>6. \A v \in past["data"] : v.live["marker"] \in {None, job}
      BY <1>1 DEF Marked
    <2>7. MarkedIf(past', job)
      BY <2>2, <2>6, MarkerMoves DEF DiskOK
    <2> QED BY <2>1, <2>2, <2>5, <2>7 DEF StoreOK
  <1> QED BY <1>3, <1>4

LEMMA RecoverStore ==
    ASSUME IInv, RecoverClean \/ RecoverBack \/ UndoMarker, Apart
    PROVE  StoreOK'
  <1> USE DEF Places, Saving, Staging, Marking, Finishing, Returned, Quiet, Removing
  <1>0. ControlOK /\ StoreOK /\ DiskOK
    BY DEF IInv
  <1>1. CASE RecoverClean
    <2>1. pc = "recover" /\ pc' = "read_marker" /\ job' = job /\ before' = before
      BY <1>1 DEF RecoverClean, Goto, Apart
    <2>2. /\ DiskOK' /\ Moves(past, past', disk') /\ disk'.live = disk.live
          /\ \A e \in Files : disk'.next[e] = disk.next[e]
      BY <1>1, RecoverEffect
    <2>3. CASE Unmarked(past)
      <3>1. disk'.live["marker"] = None
        BY <1>0, <2>2, <2>3, DiskSays DEF DiskOK
      <3>2. Unmarked(past')
        BY <2>2, <2>3, <3>1, StaysUnmarked DEF DiskOK
      <3> QED BY <2>1, <3>2, IdleStore
    <2>4. CASE before # {} /\ Marked(past, job)
      <3>1. job \in Jobs
        BY <1>0, <2>4 DEF ControlOK
      <3>2. \A e \in Files \union {"marker"} : disk'.live[e] = disk.live[e]
        BY <2>2
      <3>3. Marked(past', job)
        BY <1>0, <2>2, <2>4, <3>1, <3>2, AsideKeeps DEF DiskOK
      <3> QED BY <2>1, <2>4, <3>3 DEF StoreOK
    <2> QED BY <1>0, <2>1, <2>3, <2>4 DEF StoreOK
  <1>2. CASE RecoverBack
    <2>1. pc = "read_marker" /\ pc' = "undo_marker" /\ ~MarkedWhole(disk)
      BY <1>2 DEF RecoverBack, Goto
    <2>2. DiskOK' /\ Moves(past, past', disk') /\ disk'.live = disk.live
      BY <1>2, RecoverEffect
    <2>3. disk.live["marker"] = None /\ Unmarked(past)
      BY <2>1, MarkerIsJob
    <2>4. Unmarked(past')
      BY <2>2, <2>3, StaysUnmarked DEF DiskOK
    <2> QED BY <2>1, <2>4, IdleStore
  <1>3. CASE UndoMarker
    <2>1. pc = "undo_marker"
      BY <1>3 DEF UndoMarker
    <2>2. disk.live["marker"] = None /\ Unmarked(past)
      BY <1>0, <2>1, DiskSays DEF StoreOK, DiskOK
    <2>3. pc' = "decide"
      BY <1>0, <1>3, <2>1, <2>2 DEF UndoMarker, Goto, Readable, ControlOK
    <2>4. DiskOK' /\ Moves(past, past', disk') /\ disk'.live["marker"] = None
      BY <1>3, UnmarkEffect
    <2>5. Unmarked(past')
      BY <2>2, <2>4, StaysUnmarked DEF DiskOK
    <2> QED BY <2>3, <2>5, IdleStore
  <1> QED BY <1>1, <1>2, <1>3

LEMMA CutStore ==
    ASSUME IInv, Cut
    PROVE  StoreOK'
  <1> USE DEF Places, Saving, Staging, Marking, Finishing, Returned, Quiet, Removing
  <1>0. ControlOK /\ StoreOK /\ DiskOK
    BY DEF IInv
  <1>1. /\ DiskOK' /\ Shrinks(past, past')
        /\ past'["data"] = {View(disk', "data")}
    BY <1>0, CutMoves, EntryFacts DEF Cut
  <1>2. /\ before' = before /\ job' = IF before = {} THEN None ELSE job
        /\ pc' = IF unit THEN "down" ELSE "gone"
    BY DEF Cut, Die
  <1>3. /\ Unmarked(past) => Unmarked(past')
        /\ Staged(past, job) => Staged(past', job)
        /\ InPlace(past, job) => InPlace(past', job)
        /\ MarkedIf(past, job) => MarkedIf(past', job)
        /\ Marked(past, job) => Marked(past', job)
    BY <1>1, ShrinkKeeps
  <1>4. CASE Unmarked(past')
    BY <1>2, <1>4, IdleStore
  <1>5. CASE before # {} /\ Marked(past', job)
    <2>1. CASE unit
      BY <1>2, <1>5, <2>1 DEF StoreOK
    <2>2. CASE ~unit
      BY <1>0, <1>3, <1>4, <2>2 DEF ControlOK, StoreOK
    <2> QED BY <2>1, <2>2
  <1>6. CASE pc \in {"mark_sync", "sync_unmarked"}
    <2>1. before # {} /\ Holding(past', job) /\ MarkedIf(past', job)
      BY <1>0, <1>3, <1>6, HeldEither DEF ControlOK, StoreOK
    <2>2. \/ \A v \in past'["data"] : v.live["marker"] = None
          \/ \A v \in past'["data"] : v.live["marker"] = job
      BY <1>1, <2>1 DEF MarkedIf
    <2> QED BY <1>4, <1>5, <2>1, <2>2 DEF Unmarked, Marked
  <1> QED BY <1>3, <1>4, <1>5, <1>6, OneMind

\* Every step keeps the files a marker names.
LEMMA StoreStepKeeps ==
    ASSUME IInv, [Next]_vars
    PROVE  StoreOK'
  <1> USE DEF Quiet, Removing
  <1>1. CASE StayStep
    BY <1>1, StayStore
  <1>2. CASE AsideStep
    BY <1>2, AsideStore
  <1>3. CASE FlushStep /\ Apart
    BY <1>3, FlushStore
  <1>4. CASE WriteStep /\ Apart
    BY <1>4, StagingStore, FinishingStore, RecoverStore DEF WriteStep
  <1>5. CASE Wipe \/ RemoveWipe \/ RemoveTrust
    <2>1. pc \in Quiet /\ pc' \in Quiet
      BY <1>5 DEF Wipe, RemoveWipe, RemoveTrust, Goto
    <2>2. Unmarked(past) /\ disk.live["marker"] = None
      BY <2>1, DiskSays DEF IInv, StoreOK, DiskOK
    <2>3. "marker" \in AllEntries \ {"server_ca"}
      BY EntryFacts
    <2>4. DiskOK' /\ Moves(past, past', disk') /\ disk'.live["marker"] = None
      BY <1>5, <2>2, <2>3, WipeStepEffect, RemoveTrustEffect
    <2>5. Unmarked(past')
      BY <2>2, <2>4, StaysUnmarked DEF DiskOK
    <2> QED BY <2>1, <2>5, IdleStore
  <1>6. CASE Cut
    BY <1>6, CutStore
  <1> QED BY <1>1, <1>2, <1>3, <1>4, <1>5, <1>6, Cases

-----------------------------------------------------------------------------
(* A save is all there or not there at all *)

Atomic(P, j, b) == \A found \in Findable(P) : (\A f \in FilesOf(j) : found[f] = j.put[f]) \/ found \in b

LEMMA AtomicFacts ==
    /\ AllOrNothing <=> (before # {} => Atomic(past, job, before))
    /\ AllOrNothing' <=> (before' # {} => Atomic(past', job', before'))
  BY MayFindFacts DEF AllOrNothing, Atomic

\* A start finds no more than it did.
LEMMA AtomicLess ==
    ASSUME IInv, Findable(past') \subseteq Findable(past),
           before' = before, before # {} => job' = job
    PROVE  AllOrNothing'
  BY AtomicFacts DEF IInv, Atomic

\* A save that is marked, or in place, is all there.
LEMMA AtomicWhole ==
    ASSUME DiskOK', job' \in Jobs, Marked(past', job') \/ (InPlace(past', job') /\ MarkedIf(past', job'))
    PROVE  AllOrNothing'
  <1>1. \A found \in Findable(past') : \A f \in FilesOf(job') : found[f] = job'.put[f]
    BY FoundWhole DEF DiskOK
  <1> QED BY <1>1, AtomicFacts DEF Atomic

\* After the commit point a save is marked, or in place.
LEMMA AtomicPlace ==
    ASSUME IInv, [Next]_vars, pc' \in Finishing \union {"sync_unmarked"}
    PROVE  AllOrNothing'
  <1> USE DEF Saving, Finishing
  <1>1. ControlOK' /\ StoreOK' /\ DiskOK'
    BY ControlStep, StoreStepKeeps, DiskStep
  <1>2. job' \in Jobs
    BY <1>1 DEF ControlOK
  <1>3. Marked(past', job') \/ (InPlace(past', job') /\ MarkedIf(past', job'))
    BY <1>1 DEF StoreOK
  <1> QED BY <1>1, <1>2, <1>3, AtomicWhole

\* The commit point: the marker comes to a disk that has every file staged.
LEMMA AtomicMark ==
    ASSUME IInv, [Next]_vars, pc' = "mark_sync", job' = job, before \subseteq before', before # {},
           disk'.live["server_ca"] = disk.live["server_ca"]
    PROVE  AllOrNothing'
  <1> USE DEF Saving
  <1>1. DiskOK /\ ControlOK' /\ StoreOK' /\ DiskOK' /\ Moves(past, past', disk')
    BY ControlStep, StoreStepKeeps, DiskStep DEF IInv
  <1>2. job' \in Jobs
    BY <1>1 DEF ControlOK
  <1>3. Holding(past', job') /\ MarkedIf(past', job') /\ disk'.live["marker"] = job'
    BY <1>1, HeldEither DEF StoreOK
  <1>4. \A found \in Findable(past') :
          found \in Findable(past) \/ \A f \in FilesOf(job') : found[f] = job'.put[f]
    BY <1>1, <1>2, <1>3, FoundMarking DEF DiskOK
  <1> QED BY <1>4, AtomicFacts DEF IInv, Atomic

LEMMA StayFound ==
    ASSUME IInv, StayStep
    PROVE  AllOrNothing'
  <1> USE DEF Saving, Returned, Quiet, Removing
  <1>0. past' = past
    BY StayEffect
  <1>a. ASSUME before' = before, before # {} => job' = job
        PROVE  AllOrNothing'
    BY <1>0, <1>a, AtomicLess
  <1>1. CASE EnrollIssued \/ Renew \/ TrustBundle
    <2>1. before' = Findable(past')
      BY <1>0, <1>1, MayFindFacts DEF EnrollIssued, Renew, TrustBundle
    <2> QED BY <2>1, AtomicFacts DEF Atomic
  <1>2. CASE StartRemoval \/ StartStranded \/ Enrolled \/ Bundled \/ SaveFailed \/ Restart
    BY <1>2, AtomicFacts DEF StartRemoval, StartStranded, Enrolled, Bundled, SaveFailed, Restart
  <1>3. CASE RecoverForward /\ Apart
    <2>1. before' = before /\ job' = job
      BY <1>3, MarkerIsJob DEF RecoverForward, Apart
    <2> QED BY <1>a, <2>1
  <1>4. CASE Start \/ EnrollRefused \/ Reconnect \/ StartOver \/ Deleted \/ RemoveUnit
             \/ InstallRestart \/ Kill
    <2>1. before' = before /\ (before # {} => job' = job)
      BY <1>4 DEF Start, RecoverStart, EnrollRefused, Reconnect, StartOver, Deleted, RemoveUnit,
                  InstallRestart, Kill, Die, Goto
    <2> QED BY <1>a, <2>1
  <1>5. CASE UNCHANGED vars
    BY <1>5, <1>a DEF vars
  <1> QED BY <1>1, <1>2, <1>3, <1>4, <1>5 DEF StayStep

LEMMA NoteIsNoFile ==
    ASSUME NEW P, NEW b \in Findable(P), NEW x, NEW j \in Jobs
    PROVE  \A f \in FilesOf(j) : [b EXCEPT !["note"] = x][f] = b[f]
  <1>1. DOMAIN b = Saved
    BY DEF Findable, Recovered, Saved
  <1>2. FilesOf(j) \subseteq Saved \ {"note"}
    BY JobFacts, EntryFacts
  <1>3. \E S : b = [e \in Saved |-> S[e]]
    BY <1>1 DEF Findable, Recovered, Saved
  <1> QED BY <1>1, <1>2, <1>3

\* The installer's steps leave the files and the marker alone.
LEMMA InstallFound ==
    ASSUME IInv, [Next]_vars, InstallClear \/ \E s \in Servers, f \in BOOLEAN : InstallNote(s, f)
    PROVE  AllOrNothing'
  <1>0. ControlOK /\ StoreOK /\ DiskOK /\ DiskOK' /\ Moves(past, past', disk') /\ Aside(disk, disk')
    BY AsideEffect DEF IInv, AsideStep
  <1>1. pc' = pc /\ job' = job /\ before \subseteq before' /\ (before = {} => before' = {})
    BY DEF InstallClear, InstallNote
  <1>2. CASE before = {}
    BY <1>1, <1>2, AtomicFacts
  <1>3. CASE before # {}
    <2>1. job \in Jobs
      BY <1>0, <1>3 DEF ControlOK
    <2>2. /\ \A e \in Files \union {"marker"} : disk'.live[e] = disk.live[e]
          /\ \A e \in Files : disk'.next[e] = disk.next[e]
          /\ disk'.live["server_ca"] = disk.live["server_ca"]
      BY <1>0, EntryFacts DEF Aside
    <2>3. CASE pc = "mark_sync"
      BY <1>1, <1>3, <2>2, <2>3, AtomicMark
    <2>4. CASE pc = "sync_unmarked"
      BY <1>1, <2>4, AtomicPlace
    <2>5. CASE Marked(past, job)
      <3>1. Marked(past', job)
        BY <1>0, <2>1, <2>2, <2>5, AsideKeeps DEF DiskOK
      <3> QED BY <1>0, <1>1, <2>1, <3>1, AtomicWhole
    <2>6. CASE Unmarked(past)
      <3>1. disk'.live["marker"] = None
        BY <1>0, <2>2, <2>6, DiskSays DEF DiskOK
      <3>2. Unmarked(past')
        BY <1>0, <2>6, <3>1, StaysUnmarked DEF DiskOK
      <3>3. CASE InstallClear
        <4>1. disk'.live["note"] = disk.live["note"] /\ before' = before
          BY <3>3, AsideEffect DEF AsideStep, InstallClear
        <4>2. \A e \in Saved : disk'.live[e] = disk.live[e]
          BY <2>2, <4>1 DEF Saved
        <4>3. Findable(past') \subseteq Findable(past)
          BY <1>0, <2>6, <3>2, <4>2, FoundKept DEF DiskOK
        <4> QED BY <1>1, <4>1, <4>3, AtomicLess
      <3>4. ASSUME NEW s \in Servers, NEW f \in BOOLEAN, InstallNote(s, f)
            PROVE  AllOrNothing'
        <4>0. PICK x : x = Note(s, f)
          OBVIOUS
        <4>1. disk'.live["note"] = x
          BY <3>4, <4>0, InstallNoteEffect
        <4>2. Findable(past') \subseteq Findable(past) \union {[b EXCEPT !["note"] = x] : b \in Findable(past)}
          BY <1>0, <2>2, <2>6, <3>2, <4>1, FoundNoted DEF DiskOK
        <4>3. before' = before \union {[b EXCEPT !["note"] = x] : b \in before}
          BY <3>4, <4>0 DEF InstallNote
        <4>4. \A b \in Findable(past) : (\A g \in FilesOf(job) : b[g] = job.put[g]) \/ b \in before
          BY <1>3, AtomicFacts DEF IInv, Atomic
        <4>5. \A b \in Findable(past) : \A g \in FilesOf(job) : [b EXCEPT !["note"] = x][g] = b[g]
          BY <2>1, NoteIsNoFile
        <4>6. ASSUME NEW found \in Findable(past')
              PROVE  (\A g \in FilesOf(job) : found[g] = job.put[g]) \/ found \in before'
          <5>1. CASE found \in Findable(past)
            BY <4>3, <4>4, <5>1
          <5>2. CASE found \in {[b EXCEPT !["note"] = x] : b \in Findable(past)}
            <6>1. PICK b \in Findable(past) : found = [b EXCEPT !["note"] = x]
              BY <5>2
            <6>2. CASE b \in before
              BY <4>3, <6>1, <6>2
            <6>3. CASE \A g \in FilesOf(job) : b[g] = job.put[g]
              BY <4>5, <6>1, <6>3
            <6> QED BY <4>4, <6>2, <6>3
          <5> QED BY <4>2, <5>1, <5>2
        <4> QED BY <1>1, <4>6, AtomicFacts DEF Atomic
      <3> QED BY <3>3, <3>4
    <2> QED BY <2>3, <2>4, <2>5, <2>6, OneMind
  <1> QED BY <1>2, <1>3

LEMMA AsideFound ==
    ASSUME IInv, [Next]_vars, AsideStep
    PROVE  AllOrNothing'
  <1> USE DEF Quiet, Removing, Finishing
  <1>0. ControlOK
    BY DEF IInv
  <1>1. CASE InstallClear \/ \E s \in Servers, f \in BOOLEAN : InstallNote(s, f)
    BY <1>1, InstallFound
  <1>2. CASE Renewed \/ StartEnroll \/ StartLoad
    <2>1. before' = {}
      BY <1>2 DEF Renewed, StartEnroll, StartLoad
    <2> QED BY <2>1, AtomicFacts
  <1>3. CASE Acknowledged \/ RemoveMark \/ RemoveLast
    <2>1. before' = {}
      BY <1>0, <1>3 DEF Acknowledged, RemoveMark, RemoveLast, ControlOK
    <2> QED BY <2>1, AtomicFacts
  <1>4. CASE Consume /\ Apart
    <2>1. pc' = "sync_consumed"
      BY <1>4 DEF Consume, Goto
    <2> QED BY <2>1, AtomicPlace
  <1> QED BY <1>1, <1>2, <1>3, <1>4 DEF AsideStep

LEMMA WriteFound ==
    ASSUME IInv, [Next]_vars, WriteStep, Apart
    PROVE  AllOrNothing'
  <1> USE DEF Staging, Marking, Finishing
  <1>0. ControlOK /\ StoreOK /\ DiskOK /\ DiskOK' /\ StoreOK' /\ Moves(past, past', disk') /\ before' = before
    BY DiskStep, StoreStepKeeps DEF IInv, Apart
  <1>a. ASSUME Unmarked(past), Unmarked(past'), job' = job,
               \A e \in Saved : disk'.live[e] = disk.live[e]
        PROVE  AllOrNothing'
    <2>1. Findable(past') \subseteq Findable(past)
      BY <1>0, <1>a, FoundKept DEF DiskOK
    <2> QED BY <1>0, <1>a, <2>1, AtomicLess
  <1>1. CASE StageOpen \/ StageFill \/ MarkOpen \/ MarkFill
    <2>1. /\ pc \in Staging \union Marking /\ pc' \in Staging \union Marking /\ job' = job
      BY <1>1 DEF StageOpen, StageFill, MarkOpen, MarkFill, Goto, Turn
    <2>2. Unmarked(past) /\ Unmarked(past')
      BY <1>0, <2>1 DEF StoreOK
    <2>3. disk'.live = disk.live
      BY <1>1, StageOpenEffect, StageFillEffect, MarkEffect
    <2> QED BY <1>a, <2>1, <2>2, <2>3
  <1>2. CASE MarkRename
    <2>1. pc = "mark_rename" /\ pc' = "mark_sync" /\ job' = job
      BY <1>2 DEF MarkRename, Goto
    <2>2. before # {}
      BY <1>0, <2>1 DEF ControlOK, Saving
    <2>3. disk'.live["server_ca"] = disk.live["server_ca"]
      BY <1>2, MarkRenameEffect, EntryFacts
    <2> QED BY <1>0, <2>1, <2>2, <2>3, AtomicMark
  <1>3. CASE Rename \/ Unmark
    <2>1. pc' \in Finishing \union {"sync_unmarked"}
      BY <1>3 DEF Rename, Unmark, Goto, Turn
    <2> QED BY <2>1, AtomicPlace
  <1>4. CASE RecoverClean
    <2>1. pc = "recover" /\ job' = job
      BY <1>4 DEF RecoverClean, Goto
    <2>2. disk'.live = disk.live /\ \A e \in Files : disk'.next[e] = disk.next[e]
      BY <1>4, RecoverEffect
    <2>3. CASE Unmarked(past)
      <3>1. disk'.live["marker"] = None
        BY <1>0, <2>2, <2>3, DiskSays DEF DiskOK
      <3>2. Unmarked(past')
        BY <1>0, <2>3, <3>1, StaysUnmarked DEF DiskOK
      <3> QED BY <1>a, <2>1, <2>2, <2>3, <3>2
    <2>4. CASE before # {} /\ Marked(past, job)
      <3>1. job \in Jobs
        BY <1>0, <2>4 DEF ControlOK
      <3>2. \A e \in Files \union {"marker"} : disk'.live[e] = disk.live[e]
        BY <2>2
      <3>3. Marked(past', job)
        BY <1>0, <2>2, <2>4, <3>1, <3>2, AsideKeeps DEF DiskOK
      <3> QED BY <1>0, <2>1, <3>1, <3>3, AtomicWhole
    <2> QED BY <1>0, <2>1, <2>3, <2>4 DEF StoreOK
  <1>5. CASE RecoverBack
    <2>1. pc = "read_marker" /\ ~MarkedWhole(disk) /\ pc' = "undo_marker" /\ job' = job
      BY <1>5 DEF RecoverBack, Goto
    <2>2. Unmarked(past) /\ Unmarked(past')
      BY <1>0, <2>1, MarkerIsJob DEF StoreOK
    <2>3. disk'.live = disk.live
      BY <1>5, RecoverEffect
    <2> QED BY <1>a, <2>1, <2>2, <2>3
  <1>6. CASE UndoMarker
    <2>1. pc = "undo_marker" /\ job' = job
      BY <1>6 DEF UndoMarker, Goto
    <2>2. Unmarked(past) /\ disk.live["marker"] = None
      BY <1>0, <2>1, DiskSays DEF StoreOK, DiskOK
    <2>3. pc' = "decide"
      BY <1>0, <1>6, <2>1, <2>2 DEF UndoMarker, Goto, Readable, ControlOK
    <2>4. Unmarked(past')
      BY <1>0, <2>3 DEF StoreOK
    <2>5. \A e \in Saved : e \in AllEntries \ {"marker"}
      BY EntryFacts
    <2>6. \A e \in Saved : disk'.live[e] = disk.live[e]
      BY <1>6, <2>5, UnmarkEffect
    <2> QED BY <1>a, <2>1, <2>2, <2>4, <2>6
  <1> QED BY <1>1, <1>2, <1>3, <1>4, <1>5, <1>6 DEF WriteStep

\* Every step keeps an unreturned save all or nothing.
LEMMA FoundStep ==
    ASSUME IInv, [Next]_vars
    PROVE  AllOrNothing'
  <1> USE DEF Quiet, Removing
  <1>1. CASE StayStep
    BY <1>1, StayFound
  <1>2. CASE AsideStep
    BY <1>2, AsideFound
  <1>3. CASE FlushStep /\ Apart
    <2>1. Findable(past') \subseteq Findable(past)
      BY <1>3, FlushEffect, ShrinkKeeps
    <2>2. before' = before /\ job' = job
      BY <1>3 DEF Apart, FlushStep, SyncStaged, MarkSync, SyncRenamed, SyncConsumed, SyncUnmarked, Goto
    <2> QED BY <2>1, <2>2, AtomicLess
  <1>4. CASE WriteStep /\ Apart
    BY <1>4, WriteFound
  <1>5. CASE Wipe \/ RemoveWipe \/ RemoveTrust
    <2>1. before' = {}
      BY <1>5 DEF Wipe, RemoveWipe, RemoveTrust, IInv, ControlOK
    <2> QED BY <2>1, AtomicFacts
  <1>6. CASE Cut
    <2>1. Findable(past') \subseteq Findable(past)
      BY <1>6, CutMoves, ShrinkKeeps DEF IInv, Cut
    <2>2. before' = before /\ (before # {} => job' = job)
      BY <1>6 DEF Cut, Die
    <2> QED BY <2>1, <2>2, AtomicLess
  <1> QED BY <1>1, <1>2, <1>3, <1>4, <1>5, <1>6, Cases

-----------------------------------------------------------------------------
(* One identity *)

\* A marker on disk is a save's, so without one the identity is settled.
LEMMA UnmarkedSettled ==
    ASSUME IInv, Unmarked(past)
    PROVE  Settled(past, disk)
  <1>1. ASSUME before # {}, Marked(past, job)
        PROVE  FALSE
    <2>1. job \in Jobs
      BY <1>1 DEF IInv, ControlOK
    <2>2. disk.live["marker"] = None /\ disk.live["marker"] = job
      BY <1>1, <2>1, DiskSays DEF IInv, DiskOK
    <2> QED BY <2>1, <2>2, AbsenceAssumption
  <1> QED BY <1>1 DEF IInv, IdentityOK

\* A power cut, or a flush, leaves no identity that was not there.
LEMMA ShrinkSettled ==
    ASSUME NEW P, NEW Q, NEW C, NEW D, Sound(Q, D), Shrinks(P, Q), Settled(P, C),
           C = D \/ Q["data"] = {View(D, "data")}
    PROVE  Settled(Q, D)
  <1>0. "data" \in Dirs /\ "trust" \in Dirs /\ IdentityFiles \subseteq Entries["data"] /\ D \in Disks
    BY EntryFacts DEF IdentityFiles, Sound
  <1>1. \A v \in Q["data"] : Whole(v) /\ \A t \in Q["trust"] : TrustedIn(t, v)
    BY <1>0 DEF Settled, Shrinks
  <1>2. CASE C = D
    BY <1>0, <1>1, <1>2 DEF Settled, Shrinks
  <1>3. CASE Q["data"] = {View(D, "data")}
    <2>1. \A f \in IdentityFiles : View(D, "data").live[f] = D.live[f]
      BY <1>0, ViewFacts
    <2> QED BY <1>1, <1>3, <2>1 DEF Settled
  <1> QED BY <1>2, <1>3

\* New master keys beside an identity that a step leaves alone.
TrustedBeside(Q, D) ==
    \A v \in Q["data"] : Exists(v) =>
        D.live["server_ca"] \in {Bundle(v.live["cert"].srv, b) : b \in 0 .. MaxBundles} \union {None}

LEMMA TrustMoves ==
    ASSUME NEW P, NEW Q, NEW C, NEW D, Sound(P, C), Sound(Q, D), Moves(P, Q, D),
           \A e \in IdentityFiles : D.live[e] = C.live[e],
           TrustedBeside(Q, D), Settled(P, C)
    PROVE  Settled(Q, D)
  <1>0. /\ "data" \in Dirs /\ "trust" \in Dirs /\ IdentityFiles \subseteq Entries["data"]
        /\ IdentityFiles \subseteq AllEntries /\ "server_ca" \in Entries["trust"] /\ D \in Disks
        /\ "cert" \in IdentityFiles /\ "key" \in IdentityFiles /\ "device_id" \in IdentityFiles
    BY EntryFacts DEF IdentityFiles, Sound
  <1>1. SameLive(IdentityFiles, C, D) /\ SameNext({}, C, D)
    BY DEF SameLive, SameNext
  <1>2. \A v \in Q["data"] : \E w \in P["data"] : \A f \in IdentityFiles : v.live[f] = w.live[f]
    <2>1. \A v \in Q["data"] : \E w \in P["data"] : Alike(v, w, "data", IdentityFiles, {})
      BY <1>0, <1>1, Twins
    <2> QED BY <1>0, <2>1 DEF Alike
  <1>3. ASSUME NEW v \in Q["data"]
        PROVE  Whole(v) /\ \A t \in Q["trust"] : TrustedIn(t, v)
    <2>1. PICK w \in P["data"] : \A f \in IdentityFiles : v.live[f] = w.live[f]
      BY <1>2
    <2>2. Whole(w) /\ (Exists(v) => Exists(w)) /\ v.live["cert"] = w.live["cert"]
          /\ v.live["key"] = w.live["key"] /\ v.live["device_id"] = w.live["device_id"]
      BY <1>0, <2>1 DEF Settled, Exists
    <2>3. Whole(v)
      BY <2>2 DEF Whole
    <2>4. ASSUME NEW t \in Q["trust"]
          PROVE  TrustedIn(t, v)
      <3>1. CASE t \in P["trust"]
        <4>1. TrustedIn(t, w)
          BY <3>1 DEF Settled
        <4> QED BY <2>2, <4>1 DEF TrustedIn
      <3>2. CASE t = View(D, "trust")
        <4>1. t.live["server_ca"] = D.live["server_ca"]
          BY <1>0, <3>2, ViewFacts
        <4> QED BY <4>1 DEF TrustedIn, TrustedBeside
      <3> QED BY <1>0, <3>1, <3>2 DEF Moves
    <2> QED BY <2>3, <2>4
  <1>4. Exists(D) => \A v \in Q["data"] : \A f \in IdentityFiles : v.live[f] = D.live[f]
    <2>1. Exists(D) => Exists(C)
      BY DEF Exists
    <2> QED BY <1>2, <2>1 DEF Settled
  <1> QED BY <1>3, <1>4 DEF Settled

\* A wipe takes the identity with it.
LEMMA WipeSettled ==
    ASSUME NEW P, NEW Q, NEW C, NEW D, Sound(P, C), Sound(Q, D), Moves(P, Q, D),
           \A e \in IdentityFiles : D.live[e] = None, D.live["server_ca"] = C.live["server_ca"],
           Settled(P, C)
    PROVE  Settled(Q, D)
  <1>0. /\ "data" \in Dirs /\ "trust" \in Dirs /\ IdentityFiles \subseteq Entries["data"]
        /\ "server_ca" \in Entries["trust"] /\ D \in Disks /\ C \in Disks
        /\ "cert" \in IdentityFiles
    BY EntryFacts DEF IdentityFiles, Sound
  <1>1. ASSUME NEW v \in Q["data"], Exists(v)
        PROVE  v \in P["data"]
    <2>1. View(D, "data").live["cert"] = None
      BY <1>0, ViewFacts
    <2>2. v # View(D, "data")
      BY <1>0, <1>1, <2>1 DEF Exists
    <2> QED BY <1>0, <2>2 DEF Moves
  <1>2. ASSUME NEW t \in Q["trust"]
        PROVE  \E u \in P["trust"] : t.live["server_ca"] = u.live["server_ca"]
    <2>1. View(D, "trust").live["server_ca"] = View(C, "trust").live["server_ca"]
      BY <1>0, ViewFacts
    <2>2. View(C, "trust") \in P["trust"]
      BY <1>0 DEF Sound
    <2> QED BY <1>0, <2>1, <2>2 DEF Moves
  <1>3. ~Exists(D)
    BY <1>0 DEF Exists
  <1>4. \A v \in Q["data"] : Whole(v)
    BY <1>1 DEF Whole, Settled
  <1>5. ASSUME NEW v \in Q["data"], NEW t \in Q["trust"]
        PROVE  TrustedIn(t, v)
    <2>1. PICK u \in P["trust"] : t.live["server_ca"] = u.live["server_ca"]
      BY <1>2
    <2>2. Exists(v) => TrustedIn(u, v)
      BY <1>1 DEF Settled
    <2> QED BY <2>1, <2>2 DEF TrustedIn
  <1> QED BY <1>3, <1>4, <1>5 DEF Settled

\* A save of an identity that is in place is the one identity, and it is the one to present.
LEMMA PlacedSettles ==
    ASSUME NEW P, NEW D, Sound(P, D), NEW j \in Jobs, InPlace(P, j), ~Bundling(j)
    PROVE  Settled(P, D) /\ Presented(P, j.put["cert"])
  <1>0. /\ "data" \in Dirs /\ "trust" \in Dirs /\ IdentityFiles \subseteq Entries["data"]
        /\ "server_ca" \in Entries["trust"]
        /\ "cert" \in IdentityFiles /\ "key" \in IdentityFiles /\ "device_id" \in IdentityFiles
    BY EntryFacts DEF IdentityFiles
  <1>1. /\ IdentityFiles \subseteq FilesOf(j) /\ "server_ca" \in FilesOf(j)
        /\ j.put["cert"] \in Certs /\ j.put["key"] = j.put["cert"]
        /\ j.put["device_id"] = Device(j.put["cert"].srv, j.put["cert"].dev)
        /\ \E b \in 0 .. MaxBundles : j.put["server_ca"] = Bundle(j.put["cert"].srv, b)
    BY IdentityJob, JobFacts
  <1>2. \A v \in P["data"] : \A f \in IdentityFiles : v.live[f] = j.put[f]
    BY <1>0, <1>1 DEF InPlace, PlacedIn
  <1>3. \A t \in P["trust"] : t.live["server_ca"] = j.put["server_ca"]
    BY <1>0, <1>1 DEF InPlace, PlacedIn
  <1>4. \A f \in IdentityFiles : D.live[f] = j.put[f]
    BY <1>1, DiskSays
  <1>5. \A v \in P["data"] : /\ v.live["cert"] = j.put["cert"] /\ v.live["key"] = j.put["cert"]
                             /\ v.live["device_id"] = Device(j.put["cert"].srv, j.put["cert"].dev)
    BY <1>0, <1>1, <1>2
  <1>6. \A v \in P["data"] : Whole(v)
    BY <1>1, <1>5 DEF Whole
  <1>7. \A v \in P["data"] : \A t \in P["trust"] : TrustedIn(t, v)
    BY <1>1, <1>3, <1>5 DEF TrustedIn
  <1>8. \A v \in P["data"] : \A f \in IdentityFiles : v.live[f] = D.live[f]
    BY <1>2, <1>4
  <1>9. Settled(P, D)
    BY <1>6, <1>7, <1>8 DEF Settled
  <1> QED BY <1>1, <1>5, <1>9 DEF Presented

\* The identity on a settled disk is the one to present.
LEMMA SettledPresents ==
    ASSUME NEW P, NEW D, Sound(P, D), Settled(P, D), Exists(D)
    PROVE  Presented(P, D.live["cert"])
  <1>0. /\ "data" \in Dirs /\ IdentityFiles \subseteq Entries["data"] /\ D \in Disks
        /\ "cert" \in IdentityFiles /\ "key" \in IdentityFiles /\ "device_id" \in IdentityFiles
    BY EntryFacts DEF IdentityFiles, Sound
  <1>1. \A v \in P["data"] : \A f \in IdentityFiles : v.live[f] = D.live[f]
    BY DEF Settled
  <1>2. \A v \in P["data"] : Exists(v) /\ Whole(v)
    BY <1>1 DEF Exists, Settled
  <1>3. View(D, "data") \in P["data"]
    BY <1>0 DEF Sound
  <1> QED BY <1>0, <1>1, <1>2, <1>3 DEF Whole, Presented

\* What is said of the identity wherever the thread stands.
Guarded(P, D, b, j) ==
    /\ Settled(P, D) \/ (b # {} /\ Marked(P, j) /\ ~Bundling(j))
    /\ b # {} /\ Bundling(j) => SameServer(P, j)

\* Where no save is under way and no agent runs there is no more to say.
LEMMA IdleIdentity ==
    ASSUME Guarded(past', disk', before', job'), pc' \notin Saving \union Returned \union {"run"}
    PROVE  IdentityOK'
  BY DEF IdentityOK, Guarded, Saving

\* A running agent presents the identity on disk.
LEMMA RunIdentity ==
    ASSUME Settled(past', disk'), before' = {}, Presented(past', mem'), pc' = "run"
    PROVE  IdentityOK'
  BY DEF IdentityOK, Saving, Staging, Marking, Finishing, Returned

\* A save under way goes on.
LEMMA SaveIdentity ==
    ASSUME IInv, Guarded(past', disk', before', job'), pc \in Saving, pc' # "run",
           pc' \in Staging \union Marking => pc \in Staging \union Marking,
           job' = job, after' = after, mem' = mem,
           pc \in Staging \union Marking \/ Bundling(job) =>
               (Presented(past, mem) => Presented(past', mem))
    PROVE  IdentityOK'
  <1>1. IdentityOK
    BY DEF IInv
  <1>2. CASE after = "bundled"
    <2>1. Presented(past, mem) /\ Bundling(job)
      BY <1>1, <1>2 DEF IdentityOK
    <2>2. Presented(past', mem)
      BY <2>1
    <2> QED BY <1>2, <2>1, <2>2 DEF IdentityOK, Guarded
  <1>3. CASE after = "renewed"
    <2>1. Renewing(job)
      BY <1>1, <1>3 DEF IdentityOK
    <2>2. pc' \in Staging \union Marking => Presented(past', mem)
      BY <1>1, <1>3 DEF IdentityOK
    <2> QED BY <1>3, <2>1, <2>2 DEF IdentityOK, Guarded
  <1>4. CASE after \in {"enrolled", "restart"}
    <2>1. Enrolling(job)
      BY <1>1, <1>4 DEF IdentityOK
    <2> QED BY <1>4, <2>1 DEF IdentityOK, Guarded
  <1>5. CASE after \notin {"bundled", "renewed", "enrolled", "restart"}
    BY <1>5 DEF IdentityOK, Guarded
  <1> QED BY <1>2, <1>3, <1>4, <1>5

LEMMA GuardedNow ==
    ASSUME IInv
    PROVE  Guarded(past, disk, before, job)
  BY DEF IInv, IdentityOK, Guarded

LEMMA StayIdentity ==
    ASSUME IInv, StayStep
    PROVE  IdentityOK'
  <1> USE DEF Saving, Staging, Marking, Finishing, Returned, Quiet, Removing
  <1>0. /\ past' = past /\ disk' = disk /\ ControlOK /\ StoreOK /\ IdentityOK /\ DiskOK
        /\ Guarded(past, disk, before, job)
    BY StayEffect, GuardedNow DEF IInv
  <1>1. CASE Start \/ EnrollRefused \/ StartOver \/ Deleted \/ RemoveUnit \/ InstallRestart \/ Kill
    <2>1. before' = before /\ (before # {} => job' = job)
      BY <1>1 DEF Start, RecoverStart, EnrollRefused, StartOver, Deleted, RemoveUnit,
                  InstallRestart, Kill, Die, Goto
    <2>2. pc' \in {"recover", "down", "wipe", "rem_mark", "rem_last", "gone"}
      BY <1>1 DEF Start, RecoverStart, EnrollRefused, StartOver, Deleted, RemoveUnit,
                  InstallRestart, Kill, Die, Goto
    <2>3. Guarded(past', disk', before', job')
      BY <1>0, <2>1 DEF Guarded
    <2> QED BY <2>2, <2>3, IdleIdentity
  <1>2. CASE StartRemoval \/ StartStranded \/ Restart
    <2>1. pc \in {"decide", "restart"} /\ before' = {} /\ pc' \in {"rem_mark", "down"}
      BY <1>2 DEF StartRemoval, StartStranded, Restart, Leave
    <2>2. Settled(past, disk)
      BY <1>0, <2>1, UnmarkedSettled DEF StoreOK
    <2>3. Guarded(past', disk', before', job')
      BY <1>0, <2>1, <2>2 DEF Guarded
    <2> QED BY <2>1, <2>3, IdleIdentity
  <1>3. CASE Enrolled \/ Bundled \/ SaveFailed
    <2>1. pc \in Returned \union Staging \union Marking /\ before' = {} /\ pc' = "run"
      BY <1>3, FailureAssumption DEF Enrolled, Bundled, SaveFailed, Fail, Leave, UnmarkedSteps
    <2>2. Settled(past, disk)
      BY <1>0, <2>1, UnmarkedSettled DEF StoreOK
    <2>3. Presented(past, mem')
      <3>1. CASE Enrolled
        <4>1. pc = "enrolled" /\ mem' = job.put["cert"]
          BY <3>1 DEF Enrolled
        <4>2. after = "enrolled" /\ before # {} /\ InPlace(past, job)
          BY <1>0, <4>1 DEF ControlOK, StoreOK
        <4>3. job \in Jobs /\ Enrolling(job)
          BY <1>0, <4>1, <4>2 DEF ControlOK, IdentityOK
        <4>4. ~Bundling(job)
          BY <4>3, IdentityJob
        <4> QED BY <1>0, <4>1, <4>2, <4>3, <4>4, PlacedSettles DEF DiskOK
      <3>2. CASE Bundled
        <4>1. pc = "bundled" /\ mem' = mem
          BY <3>2 DEF Bundled, agentVars
        <4>2. after = "bundled"
          BY <1>0, <4>1 DEF ControlOK
        <4> QED BY <1>0, <4>1, <4>2 DEF IdentityOK
      <3>3. CASE SaveFailed
        <4>1. pc \in Staging \union Marking /\ after \in {"renewed", "bundled"} /\ mem' = mem
          BY <3>3, FailureAssumption DEF SaveFailed, Fail, UnmarkedSteps, agentVars
        <4> QED BY <1>0, <4>1 DEF IdentityOK
      <3> QED BY <1>3, <3>1, <3>2, <3>3
    <2> QED BY <1>0, <2>1, <2>2, <2>3, RunIdentity
  <1>4. CASE Reconnect
    <2>1. pc = "run" /\ pc' = "run" /\ mem' = mem /\ before' = before
      BY <1>4 DEF Reconnect
    <2>2. before = {} /\ Settled(past, disk) /\ Presented(past, mem)
      BY <1>0, <2>1, UnmarkedSettled DEF ControlOK, StoreOK, IdentityOK
    <2> QED BY <1>0, <2>1, <2>2, RunIdentity
  <1>5. CASE EnrollIssued \/ Renew \/ TrustBundle
    <2>1. pc \in {"enroll", "run"} /\ pc' = "stage" /\ mem' = mem
      BY <1>5 DEF EnrollIssued, Renew, TrustBundle, Begin, agentVars
    <2>2. Settled(past', disk')
      BY <1>0, <2>1, UnmarkedSettled DEF StoreOK
    <2>3. CASE EnrollIssued
      <3>1. job' \in Jobs /\ Enrolling(job')
        BY <2>3, EnrollIssues
      <3>2. ~Bundling(job')
        BY <3>1, IdentityJob
      <3>3. after' \in {"enrolled", "restart"}
        BY <1>0, <2>3 DEF EnrollIssued, Begin, ControlOK
      <3> QED BY <2>1, <2>2, <3>1, <3>2, <3>3 DEF IdentityOK
    <2>4. CASE Renew
      <3>1. job' \in Jobs /\ Renewing(job')
        BY <2>4, RenewIssues
      <3>2. ~Bundling(job')
        BY <3>1, IdentityJob
      <3>3. after' = "renewed" /\ Presented(past', mem')
        BY <1>0, <2>1, <2>4 DEF Renew, Begin, IdentityOK
      <3> QED BY <2>1, <2>2, <3>1, <3>2, <3>3 DEF IdentityOK
    <2>5. CASE TrustBundle
      <3>1. job' \in Jobs /\ Bundling(job') /\ job'.put["server_ca"].srv = mem.srv
        BY <2>5, BundleIssues
      <3>2. after' = "bundled" /\ Presented(past', mem')
        BY <1>0, <2>1, <2>5 DEF TrustBundle, Begin, IdentityOK
      <3>3. SameServer(past', job')
        BY <2>1, <3>1, <3>2 DEF SameServer, Presented
      <3> QED BY <2>1, <2>2, <3>1, <3>2, <3>3 DEF IdentityOK
    <2> QED BY <1>5, <2>3, <2>4, <2>5
  <1>6. CASE RecoverForward /\ Apart
    <2>1. pc = "read_marker" /\ pc' = "rename" /\ job' = job /\ before' = before /\ after' = after
      BY <1>6, MarkerIsJob DEF RecoverForward, Apart
    <2>2. after' = "decide"
      BY <1>0, <2>1 DEF ControlOK
    <2> QED BY <1>0, <2>1, <2>2 DEF IdentityOK, Guarded
  <1>7. CASE UNCHANGED vars
    BY <1>0, <1>7 DEF vars, IdentityOK
  <1> QED BY <1>1, <1>2, <1>3, <1>4, <1>5, <1>6, <1>7 DEF StayStep

LEMMA AsideIdentity ==
    ASSUME IInv, AsideStep
    PROVE  IdentityOK'
  <1> USE DEF Saving, Staging, Marking, Finishing, Returned, Quiet, Removing
  <1>0. /\ ControlOK /\ StoreOK /\ IdentityOK /\ DiskOK /\ DiskOK' /\ Moves(past, past', disk')
        /\ Aside(disk, disk') /\ Guarded(past, disk, before, job)
    BY AsideEffect, GuardedNow DEF IInv
  <1>1. /\ \A e \in Files \union {"marker"} : disk'.live[e] = disk.live[e]
        /\ \A e \in Files : disk'.next[e] = disk.next[e]
        /\ \A e \in IdentityFiles : disk'.live[e] = disk.live[e]
        /\ disk'.live["server_ca"] = disk.live["server_ca"]
    BY <1>0, EntryFacts DEF Aside, IdentityFiles
  <1>2. /\ \A c : Presented(past, c) => Presented(past', c)
        /\ \A j : SameServer(past, j) => SameServer(past', j)
        /\ Settled(past, disk) => Settled(past', disk')
    BY <1>0, <1>1, IdentityKept DEF DiskOK
  <1>3. Guarded(past', disk', before, job)
    <2>1. before # {} => job \in Jobs
      BY <1>0 DEF ControlOK
    <2>2. before # {} /\ Marked(past, job) => Marked(past', job)
      BY <1>0, <1>1, <2>1, AsideKeeps DEF DiskOK
    <2> QED BY <1>0, <1>2, <2>2 DEF Guarded
  <1>4. CASE InstallClear \/ \E s \in Servers, f \in BOOLEAN : InstallNote(s, f)
    <2>1. /\ pc' = pc /\ job' = job /\ after' = after /\ mem' = mem
          /\ before' = {} <=> before = {}
      BY <1>4 DEF InstallClear, InstallNote
    <2>2. Guarded(past', disk', before', job')
      BY <1>3, <2>1 DEF Guarded
    <2> QED BY <1>0, <1>2, <2>1, <2>2 DEF IdentityOK, Guarded
  <1>5. CASE Acknowledged
    <2>1. pc = "run" /\ pc' = "run" /\ mem' = mem /\ before' = before
      BY <1>5 DEF Acknowledged
    <2>2. before' = {} /\ Settled(past, disk) /\ Presented(past, mem)
      BY <1>0, <2>1, UnmarkedSettled DEF ControlOK, StoreOK, IdentityOK
    <2> QED BY <1>2, <2>1, <2>2, RunIdentity
  <1>6. CASE Renewed
    <2>1. pc = "renewed" /\ pc' = "run" /\ mem' = job.put["cert"] /\ before' = {}
      BY <1>6 DEF Renewed, Leave
    <2>2. after = "renewed" /\ before # {} /\ InPlace(past, job)
      BY <1>0, <2>1 DEF ControlOK, StoreOK
    <2>3. job \in Jobs /\ Renewing(job)
      BY <1>0, <2>1, <2>2 DEF ControlOK, IdentityOK
    <2>4. ~Bundling(job)
      BY <2>3, IdentityJob
    <2>5. Settled(past, disk) /\ Presented(past, mem')
      BY <1>0, <2>1, <2>2, <2>3, <2>4, PlacedSettles DEF DiskOK
    <2> QED BY <1>2, <2>1, <2>5, RunIdentity
  <1>7. CASE StartEnroll
    <2>1. pc = "decide" /\ before' = {} /\ pc' \in {"wipe", "enroll"}
      BY <1>7 DEF StartEnroll
    <2>2. Settled(past, disk)
      BY <1>0, <2>1, UnmarkedSettled DEF StoreOK
    <2>3. Guarded(past', disk', before', job')
      BY <1>2, <2>1, <2>2 DEF Guarded
    <2> QED BY <2>1, <2>3, IdleIdentity
  <1>8. CASE StartLoad
    <2>1. pc = "decide" /\ pc' = "run" /\ before' = {} /\ Exists(disk) /\ mem' = disk.live["cert"]
      BY <1>8 DEF StartLoad, Leave
    <2>2. Settled(past, disk)
      BY <1>0, <2>1, UnmarkedSettled DEF StoreOK
    <2>3. Presented(past, mem')
      BY <1>0, <2>1, <2>2, SettledPresents DEF DiskOK
    <2> QED BY <1>2, <2>1, <2>2, <2>3, RunIdentity
  <1>9. CASE Consume /\ Apart
    <2>1. /\ pc = "consume" /\ pc' = "sync_consumed" /\ job' = job /\ before' = before /\ after' = after
          /\ mem' = mem
      BY <1>9 DEF Consume, Goto, Apart, agentVars
    <2> QED BY <1>2, <1>3, <2>1, SaveIdentity
  <1>10. CASE RemoveMark \/ RemoveLast
    <2>1. before' = before /\ job' = job /\ pc' \in {"rem_wipe", "gone"}
      BY <1>10 DEF RemoveMark, RemoveLast, Goto
    <2> QED BY <1>3, <2>1, IdleIdentity
  <1> QED BY <1>4, <1>5, <1>6, <1>7, <1>8, <1>9, <1>10 DEF AsideStep

LEMMA FlushIdentity ==
    ASSUME IInv, FlushStep, Apart
    PROVE  IdentityOK'
  <1> USE DEF Saving, Staging, Marking, Finishing
  <1>0. /\ ControlOK /\ DiskOK' /\ disk' = disk /\ Shrinks(past, past') /\ Guarded(past, disk, before, job)
    BY FlushEffect, GuardedNow DEF IInv
  <1>1. /\ Marked(past, job) => Marked(past', job)
        /\ SameServer(past, job) => SameServer(past', job)
        /\ Presented(past, mem) => Presented(past', mem)
    BY <1>0, ShrinkKeeps
  <1>2. Settled(past, disk) => Settled(past', disk')
    BY <1>0, ShrinkSettled DEF DiskOK
  <1>3. /\ pc \in Saving /\ job' = job /\ after' = after /\ mem' = mem /\ before' = before
        /\ pc' = "mark" => pc = "sync_staged"
        /\ pc' \in {"mark", "rename", "consume", "unmark", after}
    BY <1>0 DEF FlushStep, SyncStaged, MarkSync, SyncRenamed, SyncConsumed, SyncUnmarked, Goto, Apart, agentVars,
                ControlOK, Returned
  <1>4. after \in Returned \union {"decide"}
    BY <1>0, <1>3 DEF ControlOK
  <1>5. pc' # "run" /\ (pc' \in Staging \union Marking => pc \in Staging \union Marking)
    BY <1>3, <1>4 DEF Returned
  <1>6. Guarded(past', disk', before', job')
    BY <1>0, <1>1, <1>2, <1>3 DEF Guarded
  <1> QED BY <1>1, <1>3, <1>5, <1>6, SaveIdentity

LEMMA WriteIdentity ==
    ASSUME IInv, [Next]_vars, WriteStep, Apart
    PROVE  IdentityOK'
  <1> USE DEF Saving, Staging, Marking, Finishing, Returned
  <1>0. /\ ControlOK /\ StoreOK /\ IdentityOK /\ DiskOK /\ DiskOK' /\ StoreOK' /\ Moves(past, past', disk')
        /\ before' = before /\ mem' = mem /\ Guarded(past, disk, before, job)
    BY DiskStep, StoreStepKeeps, GuardedNow DEF IInv, Apart, agentVars
  <1>a. ASSUME \A e \in AllEntries \ {"marker"} : disk'.live[e] = disk.live[e]
        PROVE  /\ \A c : Presented(past, c) => Presented(past', c)
               /\ \A j : SameServer(past, j) => SameServer(past', j)
               /\ Settled(past, disk) => Settled(past', disk')
    <2>1. /\ \A e \in IdentityFiles : disk'.live[e] = disk.live[e]
          /\ disk'.live["server_ca"] = disk.live["server_ca"]
      BY <1>a, EntryFacts DEF IdentityFiles
    <2> QED BY <1>0, <2>1, IdentityKept DEF DiskOK
  <1>1. CASE StageOpen \/ StageFill \/ MarkOpen \/ MarkFill \/ MarkRename
    <2>1. /\ pc \in Staging \union Marking /\ pc' \in Staging \union Marking \union {"mark_sync"}
          /\ job' = job /\ after' = after
      BY <1>1 DEF StageOpen, StageFill, MarkOpen, MarkFill, MarkRename, Goto, Turn
    <2>2. \A e \in AllEntries \ {"marker"} : disk'.live[e] = disk.live[e]
      BY <1>1, StageOpenEffect, StageFillEffect, MarkEffect, MarkRenameEffect
    <2>3. Settled(past, disk)
      BY <1>0, <2>1, UnmarkedSettled DEF StoreOK
    <2>4. Guarded(past', disk', before', job')
      BY <1>0, <1>a, <2>1, <2>2, <2>3 DEF Guarded
    <2>5. Presented(past, mem) => Presented(past', mem)
      BY <1>a, <2>2
    <2> QED BY <1>0, <2>1, <2>4, <2>5, SaveIdentity
  <1>2. CASE Rename
    <2>1. pc = "rename" /\ pc' \in {"rename", "sync_renamed"} /\ job' = job /\ after' = after
      BY <1>2 DEF Rename, Turn
    <2>2. before # {} /\ Marked(past', job) /\ job \in Jobs
      BY <1>0, <2>1 DEF ControlOK, StoreOK
    <2>3. CASE ~Bundling(job)
      <3>1. Guarded(past', disk', before', job')
        BY <1>0, <2>1, <2>2, <2>3 DEF Guarded
      <3> QED BY <1>0, <2>1, <2>3, <3>1, SaveIdentity
    <2>4. CASE Bundling(job)
      <3>1. FilesOf(job) = {"server_ca"} /\ job.put["server_ca"] \in Bundles
        BY <2>2, <2>4, IdentityJob, JobFacts
      <3>2. job.order[i] = "server_ca"
        BY <2>1, <3>1, AtFile
      <3>3. /\ disk'.live["server_ca"] = job.put["server_ca"]
            /\ \A e \in AllEntries \ {"server_ca"} : disk'.live[e] = disk.live[e]
        BY <1>2, <3>2, RenameEffect
      <3>4. \A e \in IdentityFiles : disk'.live[e] = disk.live[e]
        BY <3>3, EntryFacts DEF IdentityFiles
      <3>5. /\ Presented(past, mem) => Presented(past', mem)
            /\ SameServer(past, job) => SameServer(past', job)
        BY <1>0, <3>4, IdentityKept DEF DiskOK
      <3>6. Settled(past, disk) /\ SameServer(past', job)
        BY <1>0, <2>2, <2>4, <3>5 DEF Guarded
      <3>7. TrustedBeside(past', disk')
        <4>1. ASSUME NEW v \in past'["data"], Exists(v)
              PROVE  \E b \in 0 .. MaxBundles : disk'.live["server_ca"] = Bundle(v.live["cert"].srv, b)
          <5>1. job.put["server_ca"].srv = v.live["cert"].srv
            BY <3>6, <4>1 DEF SameServer
          <5>2. PICK s \in Servers, b \in 0 .. MaxBundles : job.put["server_ca"] = [srv |-> s, bundle |-> b]
            BY <3>1 DEF Bundles
          <5> QED BY <3>3, <5>1, <5>2 DEF Bundle
        <4> QED BY <4>1 DEF TrustedBeside
      <3>8. Settled(past', disk')
        BY <1>0, <3>4, <3>6, <3>7, TrustMoves DEF DiskOK
      <3>9. Guarded(past', disk', before', job')
        BY <2>1, <3>6, <3>8 DEF Guarded
      <3> QED BY <1>0, <2>1, <3>5, <3>9, SaveIdentity
    <2> QED BY <2>3, <2>4
  <1>3. CASE Unmark
    <2>1. pc = "unmark" /\ pc' = "sync_unmarked" /\ job' = job /\ after' = after
      BY <1>3 DEF Unmark, Goto
    <2>2. before # {} /\ InPlace(past', job) /\ job \in Jobs
      BY <1>0, <2>1 DEF ControlOK, StoreOK
    <2>3. \A e \in AllEntries \ {"marker"} : disk'.live[e] = disk.live[e]
      BY <1>3, UnmarkEffect
    <2>4. CASE ~Bundling(job)
      <3>1. Settled(past', disk')
        BY <1>0, <2>2, <2>4, PlacedSettles DEF DiskOK
      <3>2. Guarded(past', disk', before', job')
        BY <2>1, <2>4, <3>1 DEF Guarded
      <3> QED BY <1>0, <2>1, <2>4, <3>2, SaveIdentity
    <2>5. CASE Bundling(job)
      <3>1. Settled(past', disk') /\ SameServer(past', job)
        BY <1>0, <1>a, <2>2, <2>3, <2>5 DEF Guarded
      <3>2. Guarded(past', disk', before', job')
        BY <2>1, <3>1 DEF Guarded
      <3>3. Presented(past, mem) => Presented(past', mem)
        BY <1>a, <2>3
      <3> QED BY <1>0, <2>1, <3>2, <3>3, SaveIdentity
    <2> QED BY <2>4, <2>5
  <1>4. CASE RecoverClean
    <2>1. pc' = "read_marker" /\ job' = job
      BY <1>4 DEF RecoverClean, Goto
    <2>2. disk'.live = disk.live /\ \A e \in Files : disk'.next[e] = disk.next[e]
      BY <1>4, RecoverEffect
    <2>3. before # {} /\ Marked(past, job) => Marked(past', job)
      <3>1. ASSUME before # {}, Marked(past, job)
            PROVE  Marked(past', job)
        <4>1. job \in Jobs
          BY <1>0, <3>1 DEF ControlOK
        <4>2. \A e \in Files \union {"marker"} : disk'.live[e] = disk.live[e]
          BY <2>2
        <4> QED BY <1>0, <2>2, <3>1, <4>1, <4>2, AsideKeeps DEF DiskOK
      <3> QED BY <3>1
    <2>4. Guarded(past', disk', before', job')
      BY <1>0, <1>a, <2>1, <2>2, <2>3 DEF Guarded
    <2> QED BY <2>1, <2>4, IdleIdentity
  <1>5. CASE RecoverBack \/ UndoMarker
    <2>1. Unmarked(past) /\ pc' \in {"undo_marker", "decide"} /\ job' = job
      <3>1. CASE RecoverBack
        BY <3>1, MarkerIsJob DEF RecoverBack, Goto
      <3>2. CASE UndoMarker
        <4>1. pc = "undo_marker" /\ job' = job
          BY <3>2 DEF UndoMarker, Goto
        <4>2. Unmarked(past) /\ disk.live["marker"] = None
          BY <1>0, <4>1, DiskSays DEF StoreOK, DiskOK
        <4>3. pc' = "decide"
          BY <1>0, <3>2, <4>1, <4>2 DEF UndoMarker, Goto, Readable, ControlOK
        <4> QED BY <4>1, <4>2, <4>3
      <3> QED BY <1>5, <3>1, <3>2
    <2>2. \A e \in AllEntries \ {"marker"} : disk'.live[e] = disk.live[e]
      BY <1>5, RecoverEffect, UnmarkEffect
    <2>3. Settled(past, disk)
      BY <2>1, UnmarkedSettled
    <2>4. Guarded(past', disk', before', job')
      BY <1>0, <1>a, <2>1, <2>2, <2>3 DEF Guarded
    <2> QED BY <2>1, <2>4, IdleIdentity
  <1> QED BY <1>1, <1>2, <1>3, <1>4, <1>5 DEF WriteStep

\* Every step leaves one whole identity, or none, or the marker of one.
LEMMA IdentityStep ==
    ASSUME IInv, [Next]_vars
    PROVE  IdentityOK'
  <1> USE DEF Saving, Staging, Marking, Finishing, Returned, Quiet, Removing
  <1>0. /\ ControlOK /\ StoreOK /\ DiskOK /\ DiskOK' /\ Moves(past, past', disk')
        /\ Guarded(past, disk, before, job)
    BY DiskStep, GuardedNow DEF IInv
  <1>1. CASE StayStep
    BY <1>1, StayIdentity
  <1>2. CASE AsideStep
    BY <1>2, AsideIdentity
  <1>3. CASE FlushStep /\ Apart
    BY <1>3, FlushIdentity
  <1>4. CASE WriteStep /\ Apart
    BY <1>4, WriteIdentity
  <1>5. CASE Wipe \/ RemoveWipe \/ RemoveTrust
    <2>1. pc \in Quiet /\ pc' \in {"enroll", "rem_trust", "rem_unit"} /\ before' = before
      BY <1>5 DEF Wipe, RemoveWipe, RemoveTrust, Goto
    <2>2. before' = {} /\ Settled(past, disk)
      BY <1>0, <2>1, UnmarkedSettled DEF ControlOK, StoreOK
    <2>3. CASE Wipe \/ RemoveWipe
      <3>1. Settled(past', disk')
        BY <1>0, <2>2, <2>3, WipeStepEffect, WipeSettled DEF DiskOK
      <3>2. Guarded(past', disk', before', job')
        BY <2>2, <3>1 DEF Guarded
      <3> QED BY <2>1, <3>2, IdleIdentity
    <2>4. CASE RemoveTrust
      <3>1. /\ disk'.live["server_ca"] = None
            /\ \A e \in IdentityFiles : disk'.live[e] = disk.live[e]
        BY <2>4, RemoveTrustEffect, EntryFacts DEF IdentityFiles
      <3>2. TrustedBeside(past', disk')
        BY <3>1 DEF TrustedBeside
      <3>3. Settled(past', disk')
        BY <1>0, <2>2, <3>1, <3>2, TrustMoves DEF DiskOK
      <3>4. Guarded(past', disk', before', job')
        BY <2>2, <3>3 DEF Guarded
      <3> QED BY <2>1, <3>4, IdleIdentity
    <2> QED BY <1>5, <2>3, <2>4
  <1>6. CASE Cut
    <2>1. /\ DiskOK' /\ Shrinks(past, past')
          /\ past'["data"] = {View(disk', "data")}
      BY <1>0, <1>6, CutMoves, EntryFacts DEF Cut
    <2>2. /\ before' = before /\ (before # {} => job' = job) /\ pc' \in {"down", "gone"}
      BY <1>6 DEF Cut, Die
    <2>3. /\ Marked(past, job) => Marked(past', job)
          /\ SameServer(past, job) => SameServer(past', job)
      BY <2>1, ShrinkKeeps
    <2>4. Settled(past, disk) => Settled(past', disk')
      BY <2>1, ShrinkSettled DEF DiskOK
    <2>5. Guarded(past', disk', before', job')
      BY <1>0, <2>2, <2>3, <2>4 DEF Guarded
    <2> QED BY <2>2, <2>5, IdleIdentity
  <1> QED BY <1>1, <1>2, <1>3, <1>4, <1>5, <1>6, Cases

-----------------------------------------------------------------------------
(* The first state *)

\* A machine without an agent, or one that was enrolled earlier.
LEMMA FirstDisk ==
    ASSUME Init
    PROVE  /\ DiskOK /\ \A d \in Dirs : past[d] = {View(disk, d)}
           /\ disk.live["marker"] = None /\ disk.live["note"] = None
           /\ \/ ~Exists(disk)
              \/ \E s \in Servers :
                   /\ disk.live["cert"] = Cert(s, 1, 0) /\ disk.live["key"] = Cert(s, 1, 0)
                   /\ disk.live["device_id"] = Device(s, 1) /\ disk.live["server_ca"] = Bundle(s, 0)
  <1>0. Empty \in [AllEntries -> Values] /\ \A e \in AllEntries : Empty[e] = None
    BY NoneIsValue DEF Empty
  <1>1. "marker" \in AllEntries /\ "note" \in AllEntries /\ "cert" \in AllEntries
        /\ "marker" \notin Files /\ "note" \notin Files /\ "cert" \in IdentityFiles
        /\ "cert" \in Files /\ "key" \in Files /\ "device_id" \in Files /\ "server_ca" \in Files
        /\ Files \subseteq AllEntries
    BY EntryFacts DEF IdentityFiles
  <1>2. CASE disk = [live |-> Empty, next |-> Empty]
    <2>1. disk \in Disks /\ disk.live["marker"] = None /\ disk.live["note"] = None /\ ~Exists(disk)
      BY <1>0, <1>1, <1>2 DEF Disks, Exists
    <2>2. \A d \in Dirs : past[d] = {View(disk, d)}
      BY DEF Init
    <2>3. DiskOK
      BY <2>1, <2>2, ViewFacts DEF DiskOK, Sound, Init
    <2> QED BY <2>1, <2>2, <2>3
  <1>3. CASE \E s \in HomeServer :
               disk = [live |-> [e \in AllEntries |-> IF e \in Files THEN EnrollJob(s, 1).put[e] ELSE None],
                       next |-> Empty]
    <2>1. PICK s \in HomeServer :
               disk = [live |-> [e \in AllEntries |-> IF e \in Files THEN EnrollJob(s, 1).put[e] ELSE None],
                       next |-> Empty]
      BY <1>3
    <2>2. s \in Servers /\ 1 \in 1 .. MaxDevices
      BY HomeAssumption, BoundAssumption
    <2>3. PICK j : j = EnrollJob(s, 1)
      OBVIOUS
    <2>4. /\ j.put["server_ca"] = Bundle(s, 0) /\ j.put["device_id"] = Device(s, 1)
          /\ j.put["cert"] = Cert(s, 1, 0) /\ j.put["key"] = Cert(s, 1, 0)
          /\ FilesOf(j) = Files
      BY <2>2, <2>3, EnrollFacts
    <2>5. j \in Jobs
      BY <2>2, <2>3 DEF Jobs
    <2>6. \A f \in Files : j.put[f] \in Values
      BY <2>4, <2>5, JobFacts, NoneIsValue
    <2>7. disk.next = Empty /\ disk.live = [e \in AllEntries |-> IF e \in Files THEN j.put[e] ELSE None]
      BY <2>1, <2>3
    <2>8. disk \in Disks
      <3>1. disk.live \in [AllEntries -> Values]
        BY <2>6, <2>7, NoneIsValue
      <3> QED BY <1>0, <2>1, <2>7, <3>1 DEF Disks
    <2>9. /\ disk.live["marker"] = None /\ disk.live["note"] = None
          /\ disk.live["cert"] = Cert(s, 1, 0) /\ disk.live["key"] = Cert(s, 1, 0)
          /\ disk.live["device_id"] = Device(s, 1) /\ disk.live["server_ca"] = Bundle(s, 0)
      BY <1>1, <2>4, <2>7
    <2>10. \A d \in Dirs : past[d] = {View(disk, d)}
      BY DEF Init
    <2>11. DiskOK
      BY <2>8, <2>10, ViewFacts DEF DiskOK, Sound, Init
    <2> QED BY <2>2, <2>9, <2>10, <2>11
  <1> QED BY <1>2, <1>3 DEF Init

LEMMA FirstSettled ==
    ASSUME Init
    PROVE  Settled(past, disk)
  <1>0. /\ disk \in Disks /\ past["data"] = {View(disk, "data")} /\ past["trust"] = {View(disk, "trust")}
        /\ "data" \in Dirs /\ "trust" \in Dirs
    BY FirstDisk, EntryFacts DEF DiskOK, Sound
  <1>1. /\ \A f \in IdentityFiles : View(disk, "data").live[f] = disk.live[f]
        /\ View(disk, "trust").live["server_ca"] = disk.live["server_ca"]
    BY <1>0, ViewFacts, EntryFacts DEF IdentityFiles
  <1>2. /\ View(disk, "data").live["cert"] = disk.live["cert"]
        /\ View(disk, "data").live["key"] = disk.live["key"]
        /\ View(disk, "data").live["device_id"] = disk.live["device_id"]
    BY <1>1 DEF IdentityFiles
  <1>3. CASE ~Exists(disk)
    <2>1. ~Exists(View(disk, "data"))
      BY <1>1, <1>3 DEF Exists
    <2> QED BY <1>0, <1>3, <2>1 DEF Settled, Whole, TrustedIn
  <1>4. ASSUME NEW s \in Servers, disk.live["cert"] = Cert(s, 1, 0), disk.live["key"] = Cert(s, 1, 0),
               disk.live["device_id"] = Device(s, 1), disk.live["server_ca"] = Bundle(s, 0)
        PROVE  Settled(past, disk)
    <2>1. Cert(s, 1, 0) \in Certs /\ Cert(s, 1, 0).srv = s /\ Cert(s, 1, 0).dev = 1 /\ 0 \in 0 .. MaxBundles
      BY BoundAssumption DEF Cert, Certs
    <2>2. Whole(View(disk, "data"))
      BY <1>2, <1>4, <2>1 DEF Whole
    <2>3. TrustedIn(View(disk, "trust"), View(disk, "data"))
      BY <1>1, <1>2, <1>4, <2>1 DEF TrustedIn
    <2> QED BY <1>0, <1>1, <2>2, <2>3 DEF Settled
  <1> QED BY <1>3, <1>4, FirstDisk

LEMMA FirstState ==
    ASSUME Init
    PROVE  IInv
  <1> USE DEF Places, Saving, Staging, Marking, Finishing, Returned, Quiet, Removing
  <1>1. DiskOK
    BY FirstDisk
  <1>2. /\ pc \in {"down", "gone"} /\ i = 1 /\ job = None /\ before = {} /\ (~unit => pc = "gone")
    BY DEF Init
  <1>3. Counted
    <2>1. n = [k \in Events |-> IF k = "device" /\ unit THEN 1 ELSE 0]
      BY DEF Init
    <2>2. Bound["device"] >= 1 /\ \A k \in Events : Bound[k] \in Nat
      BY BoundAssumption DEF Bound, Events
    <2>3. \A k \in Events : n[k] \in Nat /\ n[k] <= Bound[k]
      BY <2>1, <2>2
    <2> QED BY <2>1, <2>3 DEF Counted
  <1>4. ControlOK
    BY <1>2, <1>3 DEF ControlOK
  <1>5. Unmarked(past) /\ NotesIn(past)
    <2>1. past["data"] = {View(disk, "data")} /\ disk \in Disks /\ "data" \in Dirs
      BY FirstDisk, EntryFacts DEF DiskOK, Sound
    <2>2. View(disk, "data").live["marker"] = None /\ View(disk, "data").live["note"] = None
      BY <2>1, FirstDisk, ViewFacts, EntryFacts
    <2> QED BY <2>1, <2>2 DEF Unmarked, NotesIn
  <1>6. NotesOK
    BY <1>2, <1>5 DEF NotesOK
  <1>7. StoreOK
    BY <1>2, <1>5 DEF StoreOK
  <1>8. AllOrNothing
    BY <1>2 DEF AllOrNothing
  <1>9. IdentityOK
    BY <1>2, FirstSettled DEF IdentityOK
  <1> QED BY <1>1, <1>4, <1>6, <1>7, <1>8, <1>9 DEF IInv

-----------------------------------------------------------------------------
(* The invariant and what it says *)

\* The places, the views of the disk and the save under way stay in step.
LEMMA IdentityInvariant == Spec => []IInv
  <1>1. Init => IInv
    BY FirstState
  <1>2. IInv /\ [Next]_vars => IInv'
    BY DiskStep, ControlStep, NotesStep, StoreStepKeeps, FoundStep, IdentityStep DEF IInv
  <1> QED BY <1>1, <1>2, PTL DEF Spec

(* A save that has not returned, or that a crash interrupted, is all there or not there at all,
   wherever the power is cut: recovery finds every file of it, or what it would have found when
   the save began (identity_store.rs, commit and recover). *)
THEOREM AllOrNothingHolds == Spec => []AllOrNothing
  <1>1. IInv => AllOrNothing
    BY DEF IInv
  <1> QED BY <1>1, IdentityInvariant, PTL

(* The certificate a running agent presents is the one a restart loads, with its key and its
   device number, wherever the power is cut (control_loop.rs, the renewal taken into use only
   once it is saved). *)
THEOREM RestartHolds == Spec => []RestartLoadsMemory
  <1>1. ASSUME IInv, pc = "run"
        PROVE  \A found \in MayFind :
                 /\ found["cert"] = mem /\ found["key"] = mem
                 /\ found["device_id"] = Device(mem.srv, mem.dev)
    <2>1. /\ Unmarked(past) /\ Presented(past, mem)
          /\ past["trust"] \subseteq Views("trust") /\ past["data"] \subseteq Views("data")
      BY <1>1, EntryFacts DEF IInv, DiskOK, Sound, StoreOK, IdentityOK, Quiet
    <2>2. ASSUME NEW t \in past["trust"], NEW v \in past["data"]
          PROVE  /\ Recovered(Joined(t, v))["cert"] = mem /\ Recovered(Joined(t, v))["key"] = mem
                 /\ Recovered(Joined(t, v))["device_id"] = Device(mem.srv, mem.dev)
      <3>1. t \in Views("trust") /\ v \in Views("data") /\ v.live["marker"] = None
        BY <2>1 DEF Unmarked
      <3>2. Recovered(Joined(t, v)) = [e \in Saved |-> Joined(t, v).live[e]]
        BY <3>1, FoundPlain
      <3>3. \A e \in Entries["data"] : Joined(t, v).live[e] = v.live[e]
        BY <3>1, JoinFacts
      <3>4. /\ Recovered(Joined(t, v))["cert"] = v.live["cert"]
            /\ Recovered(Joined(t, v))["key"] = v.live["key"]
            /\ Recovered(Joined(t, v))["device_id"] = v.live["device_id"]
        BY <3>2, <3>3, EntryFacts
      <3> QED BY <2>1, <3>4 DEF Presented
    <2> QED BY <2>2, MayFindFacts DEF Findable
  <1>2. IInv => RestartLoadsMemory
    BY <1>1 DEF RestartLoadsMemory
  <1> QED BY <1>2, IdentityInvariant, PTL

(* What recovery leaves is one identity: a certificate with its own key and number, and the
   master keys of the server that issued it, or none (identity_store.rs, recover; main.rs,
   the start-up decision). *)
THEOREM RecoveredHolds == Spec => []RecoveredWhole
  <1>1. ASSUME IInv, pc = "decide", Exists(disk)
        PROVE  \E s \in Servers, d \in 1 .. MaxDevices, g \in 0 .. MaxRenewals :
                 /\ disk.live["cert"] = Cert(s, d, g) /\ disk.live["key"] = Cert(s, d, g)
                 /\ disk.live["device_id"] = Device(s, d)
                 /\ disk.live["server_ca"] \in {Bundle(s, b) : b \in 0 .. MaxBundles} \union {None}
    <2>1. Settled(past, disk) /\ Sound(past, disk)
      BY <1>1, UnmarkedSettled DEF IInv, DiskOK, StoreOK
    <2>2. /\ View(disk, "data") \in past["data"] /\ View(disk, "trust") \in past["trust"]
          /\ disk \in Disks /\ "data" \in Dirs /\ "trust" \in Dirs
      BY <2>1, EntryFacts DEF Sound
    <2>3. /\ \A f \in IdentityFiles : View(disk, "data").live[f] = disk.live[f]
          /\ View(disk, "trust").live["server_ca"] = disk.live["server_ca"]
      BY <2>2, ViewFacts, EntryFacts DEF IdentityFiles
    <2>4. Exists(View(disk, "data"))
      BY <1>1, <2>3 DEF Exists
    <2>5. /\ disk.live["cert"] \in Certs /\ disk.live["key"] = disk.live["cert"]
          /\ disk.live["device_id"] = Device(disk.live["cert"].srv, disk.live["cert"].dev)
          /\ disk.live["server_ca"] \in
               {Bundle(disk.live["cert"].srv, b) : b \in 0 .. MaxBundles} \union {None}
      BY <2>1, <2>2, <2>3, <2>4 DEF Settled, Whole, TrustedIn, IdentityFiles
    <2>6. PICK c \in Certs : c = disk.live["cert"]
      BY <2>5
    <2>7. c.srv \in Servers /\ c.dev \in 1 .. MaxDevices /\ c.renewal \in 0 .. MaxRenewals
          /\ c = Cert(c.srv, c.dev, c.renewal)
      BY DEF Certs, Cert
    <2> QED BY <2>5, <2>6, <2>7
  <1>2. IInv => RecoveredWhole
    BY <1>1 DEF RecoveredWhole
  <1> QED BY <1>2, IdentityInvariant, PTL
=============================================================================
