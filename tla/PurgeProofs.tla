----------------------------- MODULE PurgeProofs -----------------------------
(***************************************************************************)
(* The erasure of devices, for any number of devices, connections, jobs,   *)
(* faults and restarts: an erased device stays out, a denied connection    *)
(* writes at most the registration it had begun, and crashes alone leave   *)
(* no purge behind.                                                        *)
(***************************************************************************)
EXTENDS DevicePurge, TLAPS

\* Places a run of a job reaches only after its device was denied in memory.
Denying == {"deny", "denyEach", "deregister"}
Erasing == Places \ (Denying \cup {Idle})

\* A device job that erases has its device denied in memory.
DeniedFirst ==
    \A j \in Jobs : SubjectOf[j] # Nobody /\ at[j] \in Erasing => SubjectOf[j] \in tomb

\* Once the Postgres stage of a device job has run, the device is off the ledger on disk.
ErasedOnDisk ==
    \A j \in Jobs : SubjectOf[j] # Nobody /\ ("postgres" \in stored[j] \/ at[j] = "postgresSave")
        => SubjectOf[j] \notin certs

\* A job is verified and completed only after that stage.
FlaggedLast ==
    \A j \in Jobs : at[j] \in {"verify", "complete"} \/ j \in finished => "postgres" \in stored[j]

\* A job somebody works on is in the table, and one that nobody works on, nor will
\* after this start, was left behind by a fault or by its count of series.
WorkedOn ==
    /\ \A j \in Jobs : at[j] # Idle => j \in filed
    /\ \A j \in filed \ finished :
         at[j] = Idle => j \in resuming \/ faults > 0 \/ "postgres" \in stored[j]

JobInv == DeniedFirst /\ ErasedOnDisk /\ FlaggedLast /\ WorkedOn /\ StaysOut

\* The connection held for a device is its own and has joined, and so has one whose
\* handler is at work.
HeldJoined ==
    /\ \A d \in Devices :
         held[d] # Nobody => link[held[d]] \in {"open", "shut"} /\ DeviceOf[held[d]] = d
    /\ \A c \in Conns : busy[c] # Idle => link[c] \in {"open", "shut"}

\* A connection that wrote a late registration has begun no other, and cannot while
\* its device is denied.
LateOnce ==
    \A c \in Conns : late[c] = 0 \/ (/\ late[c] = 1 /\ busy[c] # "register"
                                     /\ DeviceOf[c] \in tomb \/ link[c] = "off")

ConnInv == HeldJoined /\ LateOnce

PurgeInv == PurgeTypeOK /\ JobInv /\ ConnInv

-----------------------------------------------------------------------------
(* Types *)

\* A store call that fails ends the run.
LEMMA FailsTypes ==
    ASSUME PurgeTypeOK, NEW j \in Jobs, Fails(j), UNCHANGED <<index, sweepVars, boots>>
    PROVE  PurgeTypeOK'
    BY PurgeAssumption DEF PurgeTypeOK, Fails, Fault, Stop, GoTo, Places, storeVars, connVars, sweepVars

LEMMA RunJobTypes ==
    ASSUME PurgeTypeOK, WorkedOn, NEW j \in Jobs, RunJob(j)
    PROVE  PurgeTypeOK'
<1> USE PurgeAssumption DEF PurgeTypeOK, GoTo, NoFault, Places, storeVars, connVars, sweepVars, bootVars
<1>1. CASE Deny(j)
  <2>1. CASE Fails(j)
    BY <1>1, <2>1, FailsTypes DEF Deny
  <2>2. CASE SubjectOf[j] # Nobody /\ ~Fails(j)
    BY <1>1, <2>2 DEF Deny
  <2>3. CASE SubjectOf[j] = Nobody /\ ~Fails(j)
    BY <1>1, <2>3 DEF Deny
  <2> QED
    BY <2>1, <2>2, <2>3
<1>2. CASE DenyEach(j)
  <2>1. CASE Fails(j)
    BY <1>2, <2>1, FailsTypes DEF DenyEach
  <2>2. CASE ~Fails(j)
    BY <1>2, <2>2 DEF DenyEach
  <2> QED
    BY <2>1, <2>2
<1>3. CASE Deregister(j)
  <2>1. Connected(j) \subseteq Devices
    BY DEF Connected, Scope
  <2>2. tomb' \subseteq Devices /\ told' \subseteq Devices
    BY <1>3, <2>1 DEF Deregister
  <2>3. link' \in [Conns -> {"off", "checked", "open", "shut"}]
    BY <1>3 DEF Deregister
  <2>4. at' \in [Jobs -> Places]
    BY <1>3 DEF Deregister, StageNames
  <2> QED
    BY <1>3, <2>2, <2>3, <2>4 DEF Deregister
<1>4. ASSUME NEW s \in StageNames, Erase(j, s)
      PROVE  PurgeTypeOK'
  <2>1. CASE Fails(j)
    BY <1>4, <2>1, FailsTypes DEF Erase
  <2>2. CASE ~Fails(j)
    <3>1. /\ series' \subseteq series /\ rows' \subseteq rows /\ certs' \subseteq certs
      BY <1>4, <2>2 DEF Erase
    <3>2. SaveOf(s) \in Places
      BY DEF SaveOf, StageNames
    <3>3. at' \in [Jobs -> Places]
      BY <1>4, <2>2, <3>2 DEF Erase
    <3> QED
      BY <1>4, <2>2, <3>1, <3>3 DEF Erase
  <2> QED
    BY <2>1, <2>2
<1>5. ASSUME NEW s \in StageNames, SaveProgress(j, s) \/ SkipStage(j, s)
      PROVE  PurgeTypeOK'
  <2>0. NextStage(s) \in Places
    BY DEF NextStage, StageNames
  <2>1. CASE SaveProgress(j, s) /\ Fails(j)
    BY <2>1, FailsTypes DEF SaveProgress
  <2>2. CASE SaveProgress(j, s) /\ ~Fails(j)
    BY <2>0, <2>2 DEF SaveProgress
  <2>3. CASE SkipStage(j, s)
    BY <2>0, <2>3 DEF SkipStage
  <2> QED
    BY <1>5, <2>1, <2>2, <2>3
<1>6. CASE Verify(j)
  <2>1. CASE Fails(j)
    BY <1>6, <2>1, FailsTypes DEF Verify
  <2>2. CASE ~Fails(j)
    BY <1>6, <2>2 DEF Verify, Stop
  <2> QED
    BY <2>1, <2>2
<1>7. CASE MarkComplete(j)
  <2>1. CASE Fails(j)
    BY <1>7, <2>1, FailsTypes DEF MarkComplete
  <2>2. CASE ~Fails(j)
    <3>1. j \in filed
      BY <1>7 DEF MarkComplete, WorkedOn, Idle
    <3> QED
      BY <1>7, <2>2, <3>1 DEF MarkComplete, Stop
  <2> QED
    BY <2>1, <2>2
<1> QED
    BY <1>1, <1>2, <1>3, <1>4, <1>5, <1>6, <1>7 DEF RunJob

\* What an agent's connection does.
ConnAction(c) ==
    \/ Connect(c) \/ DeliverRemovalOrder(c) \/ Lose(c) \/ BufferTelemetry(c)
    \/ ConnStep(c) \/ WriteSamples(c)
    \/ \E msg \in {"register", "heartbeat"} : HandleControl(c, msg)

LEMMA ConnTypes ==
    ASSUME PurgeTypeOK, NEW c \in Conns, ConnAction(c)
    PROVE  PurgeTypeOK'
<1> USE PurgeAssumption DEF PurgeTypeOK, NoFault, storeVars, jobVars, connVars, sweepVars, bootVars
<1>1. CASE Connect(c) \/ DeliverRemovalOrder(c) \/ Lose(c)
    BY <1>1 DEF Connect, DeliverRemovalOrder, Lose
<1>2. CASE BufferTelemetry(c) \/ \E msg \in {"register", "heartbeat"} : HandleControl(c, msg)
    BY <1>2 DEF BufferTelemetry, HandleControl
<1>3. CASE Join(c)
    BY <1>3 DEF Join
<1>4. CASE Register(c)
  <2>1. late' = late \/ late' = [late EXCEPT ![c] = late[c] + 1]
    BY <1>4 DEF Register
  <2>2. late' \in [Conns -> Nat]
    BY <2>1
  <2> QED
    BY <1>4, <2>2 DEF Register
<1>5. CASE Heartbeat(c) \/ EndLoop(c)
    BY <1>5 DEF Heartbeat, EndLoop
<1>6. CASE WriteSamples(c)
    BY <1>6 DEF WriteSamples, Fault
<1> QED
    BY <1>1, <1>2, <1>3, <1>4, <1>5, <1>6 DEF ConnAction, ConnStep

LEMMA UpkeepTypes ==
    ASSUME PurgeTypeOK,
           \/ Sweep \/ Reboot \/ \E j \in Jobs : Request(j) \/ ResumeNext(j)
    PROVE  PurgeTypeOK'
<1> USE PurgeAssumption DEF PurgeTypeOK, GoTo, NoFault, Fault, Places, storeVars, jobVars, connVars,
                            sweepVars, bootVars
<1>1. CASE ListRows
  <2>1. live' = rows
    BY <1>1 DEF ListRows
  <2>2. live' \in (SUBSET Devices) \cup {NotListed}
    BY <2>1
  <2> QED
    BY <1>1, <2>2 DEF ListRows
<1>2. CASE ListSubjects \/ DeleteOrphan
  <2>1. live' = live \/ live' = NotListed
    BY <1>2 DEF ListSubjects, DeleteOrphan
  <2>2. live' \in (SUBSET Devices) \cup {NotListed}
    BY <2>1, Zenon
  <2>3. orphans' \subseteq Devices /\ series' \subseteq Devices
    BY <1>2 DEF ListSubjects, DeleteOrphan
  <2>4. faults' \in 0..MaxFaults
    BY <1>2 DEF ListSubjects, DeleteOrphan
  <2> QED
    BY <1>2, <2>2, <2>3, <2>4 DEF ListSubjects, DeleteOrphan
<1>3. CASE Reboot
  <2>1. tomb' \subseteq Devices /\ faults' \in 0..MaxFaults
    BY <1>3 DEF Reboot
  <2>2. /\ link' \in [Conns -> {"off", "checked", "open", "shut"}]
        /\ busy' \in [Conns -> {"register", "heartbeat", Idle}]
        /\ held' \in [Devices -> Conns \cup {Nobody}]
        /\ at' \in [Jobs -> Places] /\ todo' \in [Jobs -> SUBSET Devices]
    BY <1>3 DEF Reboot
  <2>3. live' \in (SUBSET Devices) \cup {NotListed}
    BY <1>3, Zenon DEF Reboot
  <2>4. orphans' \subseteq Devices /\ buffer' \subseteq Conns /\ flushing' \subseteq Conns /\ boots' \in 0..MaxBoots
    BY <1>3 DEF Reboot
  <2>5. index' \subseteq Devices /\ resuming' \subseteq filed
    BY <1>3 DEF Reboot
  <2> QED
    BY <1>3, <2>1, <2>2, <2>3, <2>4, <2>5 DEF Reboot
<1>4. CASE \E j \in Jobs : Request(j) \/ ResumeNext(j)
    BY <1>4 DEF Request, ResumeNext
<1> QED
    BY <1>1, <1>2, <1>3, <1>4 DEF Sweep

-----------------------------------------------------------------------------
(* Jobs *)

\* A failed call leaves its mark.
LEMMA FailsJobs ==
    ASSUME PurgeTypeOK, JobInv, NEW j \in Jobs, Fails(j), UNCHANGED index
    PROVE  JobInv'
<1> USE DEF PurgeTypeOK, Fails, Fault, Stop, GoTo, storeVars, connVars
<1>1. faults' > 0
    OBVIOUS
<1>2. at' = [at EXCEPT ![j] = Idle] /\ Idle \notin Erasing
    BY DEF Erasing
<1>3. DeniedFirst'
    BY <1>2 DEF JobInv, DeniedFirst
<1>4. ErasedOnDisk'
    BY <1>2 DEF JobInv, ErasedOnDisk, Idle
<1>5. FlaggedLast'
    BY <1>2 DEF JobInv, FlaggedLast, Idle
<1>6. WorkedOn'
    BY <1>1, <1>2 DEF JobInv, WorkedOn
<1>7. StaysOut'
    BY DEF JobInv, StaysOut
<1> QED
    BY <1>3, <1>4, <1>5, <1>6, <1>7 DEF JobInv

\* Steps of a job between two places that are not idle and touch neither the ledger
\* nor the flags.
LEMMA MovesOn ==
    ASSUME PurgeTypeOK, JobInv, NEW j \in Jobs, NEW place \in Places \ {Idle},
           at[j] # Idle, at' = [at EXCEPT ![j] = place],
           place \in Erasing => at[j] \in Erasing \/ SubjectOf[j] = Nobody \/ SubjectOf[j] \in tomb',
           place \notin {"postgresSave", "verify"},
           place = "complete" => "postgres" \in stored[j],
           tomb \subseteq tomb', certs' = certs, index' = index, stored' = stored,
           filed' = filed, finished' = finished, resuming' = resuming, faults' = faults
    PROVE  JobInv'
<1> USE DEF PurgeTypeOK
<1>1. DeniedFirst'
    BY DEF JobInv, DeniedFirst
<1>2. ErasedOnDisk' /\ FlaggedLast'
    BY DEF JobInv, ErasedOnDisk, FlaggedLast
<1>3. WorkedOn'
    BY DEF JobInv, WorkedOn
<1>4. StaysOut'
    BY DEF JobInv, StaysOut
<1> QED
    BY <1>1, <1>2, <1>3, <1>4 DEF JobInv

LEMMA RunJobKeeps ==
    ASSUME PurgeTypeOK, JobInv, NEW j \in Jobs, RunJob(j)
    PROVE  JobInv'
<1> USE DEF GoTo, NoFault, storeVars, connVars, sweepVars, bootVars
<1> DEFINE Sub == SubjectOf[j]
<1>0. \A p \in Places : p \in Erasing <=> p \notin {"deny", "denyEach", "deregister", "idle"}
    BY DEF Erasing, Denying, Idle
<1>1. CASE Deny(j)
  <2>1. CASE Fails(j)
    BY <1>1, <2>1, FailsJobs DEF Deny
  <2>2. CASE ~Fails(j)
    <3>1. PICK place \in {"deregister", "denyEach"} : at' = [at EXCEPT ![j] = place]
      BY <1>1, <2>2 DEF Deny
    <3>2. /\ at[j] # Idle /\ tomb' = tomb /\ certs' = certs /\ index' = index /\ stored' = stored
          /\ filed' = filed /\ finished' = finished /\ resuming' = resuming /\ faults' = faults
      BY <1>1, <2>2 DEF Deny, Idle
    <3>3. place \in Places \ {Idle} /\ place \notin Erasing
      BY DEF Places, Idle, Erasing, Denying
    <3> QED
      BY <3>1, <3>2, <3>3, MovesOn
  <2> QED
    BY <2>1, <2>2
<1>2. CASE DenyEach(j)
  <2>1. CASE Fails(j)
    BY <1>2, <2>1, FailsJobs DEF DenyEach
  <2>2. CASE ~Fails(j)
    <3>1. PICK place \in {"deregister", "denyEach"} : at' = [at EXCEPT ![j] = place]
      BY <1>2, <2>2 DEF DenyEach, PurgeTypeOK
    <3>2. /\ at[j] # Idle /\ tomb' = tomb /\ certs' = certs /\ index' = index /\ stored' = stored
          /\ filed' = filed /\ finished' = finished /\ resuming' = resuming /\ faults' = faults
      BY <1>2, <2>2 DEF DenyEach, Idle
    <3>3. place \in Places \ {Idle} /\ place \notin Erasing
      BY DEF Places, Idle, Erasing, Denying
    <3> QED
      BY <3>1, <3>2, <3>3, MovesOn
  <2> QED
    BY <2>1, <2>2
<1>3. CASE Deregister(j)
  <2>1. /\ at[j] # Idle /\ at' = [at EXCEPT ![j] = "vm"] /\ tomb \subseteq tomb'
        /\ Sub # Nobody => Sub \in tomb'
    BY <1>3 DEF Deregister, Idle
  <2>2. /\ certs' = certs /\ index' = index /\ stored' = stored
        /\ filed' = filed /\ finished' = finished /\ resuming' = resuming /\ faults' = faults
    BY <1>3 DEF Deregister
  <2>3. "vm" \in Places \ {Idle}
    BY DEF Places, StageNames, Idle
  <2> QED
    BY <2>1, <2>2, <2>3, MovesOn
<1>4. ASSUME NEW s \in StageNames, Erase(j, s)
      PROVE  JobInv'
  <2>1. CASE Fails(j)
    BY <1>4, <2>1, FailsJobs DEF Erase
  <2>2. CASE ~Fails(j)
    <3>1. /\ at[j] = s /\ at' = [at EXCEPT ![j] = SaveOf(s)] /\ certs' \subseteq certs
          /\ tomb' = tomb /\ index' = index /\ stored' = stored /\ filed' = filed
          /\ finished' = finished /\ resuming' = resuming /\ faults' = faults
      BY <1>4, <2>2 DEF Erase
    <3>2. s = "postgres" /\ Sub # Nobody => Sub \notin certs'
      BY <1>4, <2>2 DEF Erase
    <3>3. /\ s \in Erasing /\ s # Idle /\ SaveOf(s) # Idle
          /\ SaveOf(s) \notin {"verify", "complete"}
          /\ SaveOf(s) = "postgresSave" => s = "postgres"
      BY DEF SaveOf, StageNames, Idle, Erasing, Places, Denying
    <3>4. DeniedFirst'
      BY <3>1, <3>3 DEF JobInv, DeniedFirst, PurgeTypeOK
    <3>5. ErasedOnDisk'
      BY <3>1, <3>2, <3>3 DEF JobInv, ErasedOnDisk, PurgeTypeOK
    <3>6. FlaggedLast'
      BY <3>1, <3>3 DEF JobInv, FlaggedLast, PurgeTypeOK
    <3>7. WorkedOn' /\ StaysOut'
      BY <3>1, <3>3 DEF JobInv, WorkedOn, StaysOut, PurgeTypeOK
    <3> QED
      BY <3>4, <3>5, <3>6, <3>7 DEF JobInv
  <2> QED
    BY <2>1, <2>2
<1>5. ASSUME NEW s \in StageNames, (SaveProgress(j, s) /\ ~Fails(j)) \/ SkipStage(j, s)
      PROVE  JobInv'
  <2>1. /\ at' = [at EXCEPT ![j] = NextStage(s)] /\ certs' = certs
        /\ tomb' = tomb /\ index' = index /\ filed' = filed
        /\ finished' = finished /\ resuming' = resuming /\ faults' = faults
    BY <1>5 DEF SaveProgress, SkipStage
  <2>2. /\ stored'[j] = stored[j] \cup {s} /\ \A i \in Jobs \ {j} : stored'[i] = stored[i]
        /\ at[j] = SaveOf(s) \/ (at[j] = s /\ s \in stored[j])
    BY <1>5 DEF SaveProgress, SkipStage, PurgeTypeOK
  <2>3. /\ s \in Erasing /\ SaveOf(s) \in Erasing /\ NextStage(s) # Idle
        /\ NextStage(s) \notin {"complete", "postgresSave"}
        /\ NextStage(s) = "verify" => s = "postgres"
        /\ s = "postgres" => SaveOf(s) = "postgresSave"
    BY DEF SaveOf, NextStage, StageNames, Idle, Erasing, Places, Denying
  <2>4. DeniedFirst'
    BY <2>1, <2>2, <2>3 DEF JobInv, DeniedFirst, PurgeTypeOK
  <2>5. ErasedOnDisk'
    BY <2>1, <2>2, <2>3 DEF JobInv, ErasedOnDisk, PurgeTypeOK
  <2>6. FlaggedLast'
    BY <2>1, <2>2, <2>3 DEF JobInv, FlaggedLast, PurgeTypeOK
  <2>7. WorkedOn'
    <3>1. at[j] # Idle
      BY <2>2, <2>3 DEF Erasing
    <3> QED
      BY <2>1, <2>2, <2>3, <3>1 DEF JobInv, WorkedOn, PurgeTypeOK
  <2>8. StaysOut'
    BY <2>1 DEF JobInv, StaysOut
  <2> QED
    BY <2>4, <2>5, <2>6, <2>7, <2>8 DEF JobInv
<1>6. ASSUME NEW s \in StageNames, SaveProgress(j, s), Fails(j)
      PROVE  JobInv'
    BY <1>6, FailsJobs DEF SaveProgress
<1>7. CASE Verify(j)
  <2>0. at[j] = "verify" /\ "postgres" \in stored[j]
    BY <1>7 DEF Verify, JobInv, FlaggedLast
  <2>1. CASE Fails(j)
    BY <1>7, <2>1, FailsJobs DEF Verify
  <2>2. CASE at' = [at EXCEPT ![j] = "complete"] /\ resuming' = resuming /\ ~Fails(j)
    <3>1. /\ tomb' = tomb /\ certs' = certs /\ index' = index /\ stored' = stored
          /\ filed' = filed /\ finished' = finished /\ faults' = faults
      BY <1>7, <2>2 DEF Verify
    <3>2. "complete" \in Places \ {Idle} /\ "verify" \in Erasing /\ "verify" # Idle
      BY DEF Places, Idle, Erasing, Denying
    <3> QED
      BY <2>0, <2>2, <3>1, <3>2, MovesOn
  <2>3. CASE Stop(j) /\ ~Fails(j)
    <3>1. /\ at' = [at EXCEPT ![j] = Idle] /\ resuming' = resuming \ {j}
          /\ tomb' = tomb /\ certs' = certs /\ index' = index /\ stored' = stored
          /\ filed' = filed /\ finished' = finished /\ faults' = faults
      BY <1>7, <2>3 DEF Verify, Stop
    <3>2. Idle \notin Erasing /\ Idle \notin {"verify", "complete", "postgresSave"}
      BY DEF Erasing, Idle
    <3>3. DeniedFirst' /\ ErasedOnDisk' /\ FlaggedLast' /\ StaysOut'
      BY <3>1, <3>2 DEF JobInv, DeniedFirst, ErasedOnDisk, FlaggedLast, StaysOut, PurgeTypeOK
    <3>4. WorkedOn'
      BY <2>0, <3>1, <3>2 DEF JobInv, WorkedOn, PurgeTypeOK
    <3> QED
      BY <3>3, <3>4 DEF JobInv
  <2> QED
    BY <1>7, <2>1, <2>2, <2>3 DEF Verify
<1>8. CASE MarkComplete(j)
  <2>0. at[j] = "complete" /\ "postgres" \in stored[j] /\ (Sub # Nobody => Sub \in tomb)
    <3>1. at[j] = "complete" /\ "complete" \in Erasing
      BY <1>8 DEF MarkComplete, Erasing, Places, Denying, Idle
    <3> QED
      BY <3>1 DEF JobInv, FlaggedLast, DeniedFirst
  <2>1. CASE Fails(j)
    BY <1>8, <2>1, FailsJobs DEF MarkComplete
  <2>2. CASE ~Fails(j)
    <3>1. /\ at' = [at EXCEPT ![j] = Idle] /\ resuming' = resuming \ {j}
          /\ tomb' = tomb /\ certs' = certs /\ index' = index /\ stored' = stored
          /\ filed' = filed /\ finished' = finished \cup {j} /\ faults' = faults
      BY <1>8, <2>2 DEF MarkComplete, Stop
    <3>2. Idle \notin Erasing /\ Idle \notin {"verify", "complete", "postgresSave"}
      BY DEF Erasing, Idle
    <3>3. DeniedFirst' /\ ErasedOnDisk'
      BY <3>1, <3>2 DEF JobInv, DeniedFirst, ErasedOnDisk, PurgeTypeOK
    <3>4. FlaggedLast' /\ StaysOut'
      BY <2>0, <3>1, <3>2 DEF JobInv, FlaggedLast, StaysOut, PurgeTypeOK
    <3>5. WorkedOn'
      BY <3>1, <3>2 DEF JobInv, WorkedOn, PurgeTypeOK
    <3> QED
      BY <3>3, <3>4, <3>5 DEF JobInv
  <2> QED
    BY <2>1, <2>2
<1> QED
    BY <1>1, <1>2, <1>3, <1>4, <1>5, <1>6, <1>7, <1>8 DEF RunJob

\* Connections and the sweep do not touch jobs, the deny-list or the ledger.
LEMMA AsideJobs ==
    ASSUME PurgeTypeOK, JobInv, faults' \in Nat, faults' >= faults,
           UNCHANGED <<jobVars, certs, tomb, index, resuming>>
    PROVE  JobInv'
<1> USE DEF PurgeTypeOK, jobVars
<1>1. DeniedFirst' /\ ErasedOnDisk' /\ FlaggedLast' /\ StaysOut'
    BY DEF JobInv, DeniedFirst, ErasedOnDisk, FlaggedLast, StaysOut
<1>2. faults > 0 => faults' > 0
    OBVIOUS
<1>3. WorkedOn'
    BY <1>2 DEF JobInv, WorkedOn
<1> QED
    BY <1>1, <1>3 DEF JobInv

LEMMA ConnJobs ==
    ASSUME PurgeTypeOK, JobInv, Sweep \/ \E c \in Conns : ConnAction(c)
    PROVE  JobInv'
<1>1. UNCHANGED <<jobVars, certs, tomb, index, resuming>>
  <2> USE DEF storeVars, bootVars
  <2>1. CASE Sweep
    BY <2>1 DEF Sweep, ListRows, ListSubjects, DeleteOrphan
  <2>2. ASSUME NEW c \in Conns, ConnAction(c) 
        PROVE  UNCHANGED <<jobVars, certs, tomb, index, resuming>>
    BY <2>2 DEF ConnAction, ConnStep, Connect, DeliverRemovalOrder, Lose, BufferTelemetry, Join,
                Register, Heartbeat, EndLoop, WriteSamples, HandleControl
  <2> QED
    BY <2>1, <2>2
<1>2. faults' = faults \/ faults' = faults + 1
    BY DEF Sweep, ListRows, ListSubjects, DeleteOrphan, ConnAction, ConnStep, Connect, Join,
           DeliverRemovalOrder, Lose, BufferTelemetry, Register, Heartbeat, EndLoop, WriteSamples,
           HandleControl, Fault, NoFault
<1> QED
    BY <1>1, <1>2, AsideJobs DEF PurgeTypeOK

LEMMA RequestJobs ==
    ASSUME PurgeTypeOK, JobInv, NEW j \in Jobs, Request(j) \/ ResumeNext(j)
    PROVE  JobInv'
<1>1. /\ at' = [at EXCEPT ![j] = "deny"] /\ filed' = filed \cup {j}
      /\ UNCHANGED <<certs, tomb, index, resuming, stored, finished, faults>>
    BY DEF Request, ResumeNext, GoTo, NoFault, storeVars, bootVars, PurgeTypeOK
<1>2. "deny" \notin Erasing /\ "deny" # Idle
    BY DEF Erasing, Denying, Idle
<1>3. DeniedFirst' /\ ErasedOnDisk' /\ FlaggedLast' /\ StaysOut'
    BY <1>1, <1>2 DEF JobInv, DeniedFirst, ErasedOnDisk, FlaggedLast, StaysOut, PurgeTypeOK
<1>4. WorkedOn'
    BY <1>1, <1>2 DEF JobInv, WorkedOn, PurgeTypeOK
<1> QED
    BY <1>3, <1>4 DEF JobInv

\* After a restart the deny-list in memory may be empty; the ledger is not warmed
\* with what was erased.
LEMMA RebootJobs ==
    ASSUME PurgeTypeOK, JobInv, Reboot
    PROVE  JobInv'
<1>1. /\ at' = [j \in Jobs |-> Idle] /\ index' = certs /\ resuming' = filed \ finished
      /\ UNCHANGED <<certs, filed, finished, stored>>
    BY DEF Reboot, storeVars
<1>2. Idle \notin Erasing /\ Idle \notin {"verify", "complete", "postgresSave"}
    BY DEF Erasing, Idle
<1>3. DeniedFirst' /\ ErasedOnDisk' /\ FlaggedLast'
    BY <1>1, <1>2 DEF JobInv, DeniedFirst, ErasedOnDisk, FlaggedLast
<1>4. WorkedOn'
    BY <1>1 DEF WorkedOn
<1>5. StaysOut'
    BY <1>1 DEF JobInv, ErasedOnDisk, FlaggedLast, StaysOut, PurgeTypeOK
<1> QED
    BY <1>3, <1>4, <1>5 DEF JobInv

-----------------------------------------------------------------------------
(* Connections *)

LEMMA JobConns ==
    ASSUME PurgeTypeOK, ConnInv, NEW j \in Jobs, RunJob(j) \/ Request(j) \/ ResumeNext(j)
    PROVE  ConnInv'
<1> USE DEF GoTo, storeVars, connVars
<1>1. CASE Deregister(j)
  <2>1. /\ tomb \subseteq tomb' /\ UNCHANGED <<held, late, busy>>
        /\ link' = [c \in Conns |->
              IF link[c] = "open" /\ \E d \in Connected(j) : held[d] = c THEN "shut" ELSE link[c]]
    BY <1>1 DEF Deregister
  <2>2. \A c \in Conns : /\ link[c] \in {"open", "shut"} => link'[c] \in {"open", "shut"}
                         /\ link[c] = "off" => link'[c] = "off"
    BY <2>1
  <2> QED
    BY <2>1, <2>2 DEF ConnInv, HeldJoined, LateOnce, PurgeTypeOK
<1>2. CASE UNCHANGED <<tomb, connVars>>
    BY <1>2 DEF ConnInv, HeldJoined, LateOnce
<1>3. ASSUME ~Deregister(j) PROVE UNCHANGED <<tomb, connVars>>
    BY <1>3 DEF RunJob, Deny, DenyEach, Erase, SaveProgress, SkipStage, Verify, MarkComplete, Fails,
                Request, ResumeNext
<1> QED
    BY <1>1, <1>2, <1>3

LEMMA ConnConns ==
    ASSUME PurgeTypeOK, ConnInv, NEW c \in Conns, ConnAction(c)
    PROVE  ConnInv'
<1> USE PurgeAssumption DEF PurgeTypeOK, ConnInv, HeldJoined, LateOnce
<1>1. CASE Connect(c)
  <2>1. /\ link[c] = "off" /\ link' = [link EXCEPT ![c] = "checked"]
        /\ late' = [late EXCEPT ![c] = 0] /\ UNCHANGED <<held, busy, tomb>>
    BY <1>1 DEF Connect
  <2> QED
    BY <2>1
<1>2. CASE DeliverRemovalOrder(c) \/ BufferTelemetry(c) \/ WriteSamples(c)
    BY <1>2 DEF DeliverRemovalOrder, BufferTelemetry, WriteSamples
<1>3. CASE Lose(c)
  <2>1. /\ link[c] = "open" /\ link' = [link EXCEPT ![c] = "shut"]
        /\ UNCHANGED <<held, busy, tomb, late>>
    BY <1>3 DEF Lose
  <2> QED
    BY <2>1
<1>4. ASSUME NEW msg \in {"register", "heartbeat"}, HandleControl(c, msg) PROVE ConnInv'
  <2>1. /\ link[c] = "open" /\ DeviceOf[c] \notin tomb /\ busy' = [busy EXCEPT ![c] = msg]
        /\ UNCHANGED <<held, link, tomb, late>>
    BY <1>4 DEF HandleControl
  <2>2. late[c] = 0
    BY <2>1
  <2> QED
    BY <2>1, <2>2
<1>5. CASE Join(c)
  <2>1. /\ link[c] = "checked" /\ held' = [held EXCEPT ![DeviceOf[c]] = c]
        /\ link' = [o \in Conns |-> IF o = c THEN "open"
                                    ELSE IF o = held[DeviceOf[c]] THEN "shut" ELSE link[o]]
        /\ UNCHANGED <<busy, tomb, late>>
    BY <1>5 DEF Join
  <2>2. held[DeviceOf[c]] # Nobody => link[held[DeviceOf[c]]] # "off"
    OBVIOUS
  <2>3. \A o \in Conns : link[o] = "off" => link'[o] = "off"
    BY <2>1, <2>2
  <2>4. LateOnce'
    BY <2>1, <2>3
  <2>5. HeldJoined'
    BY <2>1
  <2> QED
    BY <2>4, <2>5
<1>6. CASE Register(c)
  <2>1. /\ busy[c] = "register" /\ busy' = [busy EXCEPT ![c] = Idle]
        /\ UNCHANGED <<held, link, tomb>>
        /\ \/ late' = late
           \/ DeviceOf[c] \in tomb /\ late' = [late EXCEPT ![c] = late[c] + 1]
    BY <1>6 DEF Register
  <2>2. late[c] = 0 /\ Idle # "register"
    BY <2>1 DEF Idle
  <2>3. late'[c] = 0 \/ (late'[c] = 1 /\ DeviceOf[c] \in tomb)
    BY <2>1, <2>2
  <2>4. \A o \in Conns \ {c} : late'[o] = late[o] /\ busy'[o] = busy[o]
    BY <2>1
  <2>5. busy'[c] # "register"
    BY <2>1, <2>2
  <2> QED
    BY <2>1, <2>3, <2>4, <2>5
<1>7. CASE Heartbeat(c)
  <2>1. /\ busy' = [busy EXCEPT ![c] = Idle] /\ UNCHANGED <<held, late, tomb>>
        /\ busy[c] = "heartbeat" /\ link' \in {link, [link EXCEPT ![c] = "shut"]}
    <3>1. /\ link' = [link EXCEPT ![c] = IF DeviceOf[c] \in rows THEN link[c] ELSE "shut"]
          /\ busy' = [busy EXCEPT ![c] = Idle] /\ UNCHANGED <<held, late, tomb>>
          /\ busy[c] = "heartbeat"
      BY <1>7 DEF Heartbeat
    <3>2. [link EXCEPT ![c] = link[c]] = link
      OBVIOUS
    <3>3. CASE DeviceOf[c] \in rows
      BY <3>1, <3>2, <3>3
    <3>4. CASE DeviceOf[c] \notin rows
      BY <3>1, <3>4
    <3> QED
      BY <3>3, <3>4
  <2>2. link[c] \in {"open", "shut"} /\ "heartbeat" # Idle /\ Idle # "register"
    BY <2>1 DEF Idle
  <2>3. link'[c] \in {"open", "shut"} /\ \A o \in Conns \ {c} : link'[o] = link[o]
    BY <2>1, <2>2
  <2>4. HeldJoined'
    BY <2>1, <2>2, <2>3
  <2>5. LateOnce'
    BY <2>1, <2>2, <2>3
  <2> QED
    BY <2>4, <2>5
<1>8. CASE EndLoop(c)
  <2>1. /\ link' = [link EXCEPT ![c] = "off"] /\ UNCHANGED <<busy, late, tomb>>
        /\ busy[c] = Idle
        /\ held' = [held EXCEPT ![DeviceOf[c]] =
                        IF held[DeviceOf[c]] = c THEN Nobody ELSE held[DeviceOf[c]]]
    BY <1>8 DEF EndLoop
  <2>2. \A d \in Devices : held'[d] # Nobody => held'[d] = held[d] /\ held[d] # c
    BY <2>1
  <2>3. \A o \in Conns \ {c} : link'[o] = link[o]
    BY <2>1
  <2>4. HeldJoined'
    BY <2>1, <2>2, <2>3
  <2>5. LateOnce'
    BY <2>1, <2>3
  <2> QED
    BY <2>4, <2>5
<1> QED
    BY <1>1, <1>2, <1>3, <1>4, <1>5, <1>6, <1>7, <1>8 DEF ConnAction, ConnStep

-----------------------------------------------------------------------------
(* The invariant *)

LEMMA InitPurge == PurgeInit => PurgeInv
<1> SUFFICES ASSUME PurgeInit PROVE PurgeInv
    OBVIOUS
<1> USE PurgeAssumption DEF PurgeInit
<1>1. PurgeTypeOK
  <2>1. live \in (SUBSET Devices) \cup {NotListed}
    BY Zenon
  <2> QED
    BY <2>1 DEF PurgeTypeOK, Places
<1>2. JobInv
  <2>1. \A j \in Jobs : at[j] \notin Erasing /\ at[j] \notin {"verify", "complete", "postgresSave"}
    BY DEF Erasing, Idle
  <2> QED
    BY <2>1 DEF JobInv, DeniedFirst, ErasedOnDisk, FlaggedLast, WorkedOn, StaysOut
<1>3. ConnInv
    BY DEF ConnInv, HeldJoined, LateOnce
<1> QED
    BY <1>1, <1>2, <1>3 DEF PurgeInv

LEMMA NextPurge == PurgeInv /\ [PurgeNext]_purgeVars => PurgeInv'
<1> SUFFICES ASSUME PurgeInv, [PurgeNext]_purgeVars PROVE PurgeInv'
    OBVIOUS
<1>0. PurgeTypeOK /\ JobInv /\ WorkedOn /\ ConnInv
    BY DEF PurgeInv, JobInv
<1>1. ASSUME NEW j \in Jobs, RunJob(j) PROVE PurgeInv'
    BY <1>0, <1>1, RunJobTypes, RunJobKeeps, JobConns DEF PurgeInv
<1>2. ASSUME NEW j \in Jobs, Request(j) \/ ResumeNext(j) PROVE PurgeInv'
    BY <1>0, <1>2, UpkeepTypes, RequestJobs, JobConns DEF PurgeInv
<1>3. ASSUME NEW c \in Conns, ConnAction(c) PROVE PurgeInv'
    BY <1>0, <1>3, ConnTypes, ConnJobs, ConnConns DEF PurgeInv
<1>4. CASE Sweep
  <2>1. ConnInv'
    <3>1. UNCHANGED <<tomb, connVars>>
      BY <1>4 DEF Sweep, ListRows, ListSubjects, DeleteOrphan
    <3> QED
      BY <1>0, <3>1 DEF connVars, ConnInv, HeldJoined, LateOnce
  <2> QED
    BY <1>0, <1>4, <2>1, UpkeepTypes, ConnJobs DEF PurgeInv
<1>5. CASE Reboot
  <2>1. ConnInv'
    <3>1. /\ link' = [c \in Conns |-> "off"] /\ busy' = [c \in Conns |-> Idle]
          /\ held' = [d \in Devices |-> Nobody] /\ late' = late
      BY <1>5 DEF Reboot
    <3> QED
      BY <1>0, <3>1 DEF ConnInv, HeldJoined, LateOnce, Idle
  <2> QED
    BY <1>0, <1>5, <2>1, UpkeepTypes, RebootJobs DEF PurgeInv
<1>6. CASE UNCHANGED purgeVars
  <2>1. PurgeTypeOK'
    BY <1>0, <1>6 DEF purgeVars, storeVars, jobVars, connVars, sweepVars, bootVars, PurgeTypeOK
  <2>2. JobInv'
    BY <1>0, <1>6, AsideJobs DEF purgeVars, storeVars, jobVars, bootVars, PurgeTypeOK
  <2>3. ConnInv'
    BY <1>0, <1>6 DEF purgeVars, connVars, ConnInv, HeldJoined, LateOnce
  <2> QED
    BY <2>1, <2>2, <2>3 DEF PurgeInv
<1> QED
    BY <1>1, <1>2, <1>3, <1>4, <1>5, <1>6 DEF PurgeNext, ConnAction

LEMMA PurgeInvariant == PurgeSpec => []PurgeInv
    BY InitPurge, NextPurge, PTL DEF PurgeSpec

-----------------------------------------------------------------------------
\* The types hold in every reachable state; that only filed jobs are completed or
\* resumed (MarkComplete, Resume) needs the whole invariant.
THEOREM PurgeTypesHold == PurgeSpec => []PurgeTypeOK
<1>1. PurgeInv => PurgeTypeOK
    BY DEF PurgeInv
<1> QED
    BY <1>1, PurgeInvariant, PTL

\* A device whose own purge is complete is denied in memory or off the ledger in
\* every reachable state, also after a restart that could not read the deny-list
\* (DeregisterAgent, DeleteDevice, WarmTombstones, Warm).
THEOREM StaysOutHolds == PurgeSpec => []StaysOut
<1>1. PurgeInv => StaysOut
    BY DEF PurgeInv, JobInv
<1> QED
    BY <1>1, PurgeInvariant, PTL

\* No connection writes a second registration after its device was denied
\* (handleControl, register).
THEOREM OneLateRegistrationHolds == PurgeSpec => []OneLateRegistration
<1>1. PurgeInv => OneLateRegistration
    BY DEF PurgeInv, ConnInv, LateOnce, OneLateRegistration
<1> QED
    BY <1>1, PurgeInvariant, PTL

\* A purge nobody works on after the server has started is complete, or a store
\* failed, or it counted series that were written late (Resume).
THEOREM CrashAloneResumesHolds == PurgeSpec => []CrashAloneResumes
<1>1. PurgeInv => CrashAloneResumes
  <2> SUFFICES ASSUME PurgeInv, resuming = {}, NEW j \in filed \ finished, at[j] = Idle
               PROVE  faults > 0 \/ "postgres" \in stored[j]
    BY DEF CrashAloneResumes, Serving
  <2> QED
    BY DEF PurgeInv, JobInv, WorkedOn
<1> QED
    BY <1>1, PurgeInvariant, PTL
=============================================================================
