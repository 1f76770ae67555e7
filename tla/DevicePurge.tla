----------------------------- MODULE DevicePurge ----------------------------
(***************************************************************************)
(* The erasure of devices: purge jobs and their stages (lifecycle,         *)
(* handlers_device_actions.go, handlers_purge.go), the deny-list on disk   *)
(* and in the agent server's memory, the sweep that removes orphaned       *)
(* series, and what connections write meanwhile.  One tenant; the stores   *)
(* and the process may fail between any two steps.                         *)
(***************************************************************************)
EXTENDS Naturals, FiniteSets

CONSTANTS
    Devices, Conns, Jobs, Nobody,
    DeviceOf,      \* the device of a connection
    SubjectOf,     \* the device a job erases, or Nobody for the whole tenant
    MaxFaults,     \* bound: store calls that fail, counts that come too early
    MaxBoots       \* bound: restarts of the server

ASSUME PurgeAssumption ==
    /\ Nobody \notin Devices \cup Conns
    /\ DeviceOf \in [Conns -> Devices]
    /\ SubjectOf \in [Jobs -> Devices \cup {Nobody}]
    /\ MaxFaults \in Nat /\ MaxBoots \in Nat

StageNames == {"vm", "object", "postgres"}

VARIABLES
    rows, certs, series, denied,   \* the stores: devices, device_certificates, the
                                   \* metrics store, the deny-list
    filed, finished, stored,       \* purge_jobs: its rows, completed_at, the flags
    tomb, index,                   \* memory: AgentServer.tombstones, the ledger's index
    at, todo,                      \* where the goroutine of a job is, devices to deny
    link, held, busy, buffer, flushing,   \* connections, and AgentServer.conns
    told,                          \* devices that read their removal order
    live, orphans,                 \* a sweep: the rows it listed, what it will delete
    resuming,                      \* jobs that Resume has still to run; see Serving
    faults, boots,
    late                           \* history: registrations a connection wrote
                                   \* although its device was denied in memory

storeVars == <<rows, certs, series, denied>>
jobVars == <<filed, finished, stored, at, todo>>
connVars == <<link, held, busy, buffer, flushing, told, late>>
sweepVars == <<live, orphans>>
bootVars == <<resuming, boots>>
purgeVars == <<storeVars, jobVars, tomb, index, connVars, sweepVars, bootVars, faults>>

Idle == "idle"
Places == {Idle, "deny", "denyEach", "deregister", "verify", "complete"} \cup StageNames
          \cup {"vmSave", "objectSave", "postgresSave"}
NotListed == {Nobody}

Scope(j) == IF SubjectOf[j] = Nobody THEN Devices ELSE {SubjectOf[j]}
Serving == resuming = {}

PurgeTypeOK ==
    /\ rows \subseteq Devices /\ certs \subseteq Devices /\ series \subseteq Devices
    /\ denied \subseteq Devices /\ tomb \subseteq Devices /\ index \subseteq Devices
    /\ filed \subseteq Jobs /\ finished \subseteq filed /\ resuming \subseteq filed
    /\ stored \in [Jobs -> SUBSET StageNames]
    /\ at \in [Jobs -> Places] /\ todo \in [Jobs -> SUBSET Devices]
    /\ link \in [Conns -> {"off", "checked", "open", "shut"}]
    /\ held \in [Devices -> Conns \cup {Nobody}]
    /\ busy \in [Conns -> {"register", "heartbeat", Idle}]
    /\ buffer \subseteq Conns /\ flushing \subseteq Conns /\ told \subseteq Devices
    /\ live \in (SUBSET Devices) \cup {NotListed} /\ orphans \subseteq Devices
    /\ faults \in 0..MaxFaults /\ boots \in 0..MaxBoots
    /\ late \in [Conns -> Nat]

\* Every device is enrolled and has been seen.
PurgeInit ==
    /\ rows = Devices /\ certs = Devices /\ index = Devices /\ series = {}
    /\ denied = {} /\ tomb = {} /\ told = {}
    /\ filed = {} /\ finished = {} /\ resuming = {}
    /\ stored = [j \in Jobs |-> {}] /\ at = [j \in Jobs |-> Idle]
    /\ todo = [j \in Jobs |-> {}]
    /\ link = [c \in Conns |-> "off"] /\ busy = [c \in Conns |-> Idle]
    /\ held = [d \in Devices |-> Nobody]
    /\ buffer = {} /\ flushing = {}
    /\ live = NotListed /\ orphans = {}
    /\ faults = 0 /\ boots = 0
    /\ late = [c \in Conns |-> 0]

Fault == faults < MaxFaults /\ faults' = faults + 1
NoFault == UNCHANGED faults

-----------------------------------------------------------------------------
(* The orchestrator *)

GoTo(j, place) == at' = [at EXCEPT ![j] = place]

\* The end of a run, whichever way; Resume then takes the next job.
Stop(j) == GoTo(j, Idle) /\ resuming' = resuming \ {j}

\* fail, or an error that is only returned.
Fails(j) ==
    /\ Fault /\ Stop(j)
    /\ UNCHANGED <<storeVars, filed, finished, stored, todo, tomb, connVars>>

\* PurgeDevice or PurgeTenant, asked for by an administrator: CreateJob.
Request(j) ==
    /\ Serving /\ j \notin filed /\ at[j] = Idle
    /\ SubjectOf[j] # Nobody => SubjectOf[j] \in rows
    /\ filed' = filed \cup {j}
    /\ GoTo(j, "deny") /\ NoFault
    /\ UNCHANGED <<storeVars, finished, stored, todo, tomb, index, connVars, sweepVars, bootVars>>

\* applyTombstone, on disk: the device, or the tenant and the list of its devices.
Deny(j) ==
    /\ at[j] = "deny"
    /\ \/ /\ IF SubjectOf[j] # Nobody
             THEN /\ denied' = denied \cup {SubjectOf[j]}
                  /\ GoTo(j, "deregister") /\ UNCHANGED todo
             ELSE /\ todo' = [todo EXCEPT ![j] = rows]
                  /\ GoTo(j, "denyEach") /\ UNCHANGED denied
          /\ NoFault
          /\ UNCHANGED <<rows, certs, series, filed, finished, stored, tomb, connVars, resuming>>
       \/ Fails(j)
    /\ UNCHANGED <<index, sweepVars, boots>>

DenyEach(j) ==
    /\ at[j] = "denyEach"
    /\ \/ /\ \E d \in todo[j] :
               /\ denied' = denied \cup {d}
               /\ todo' = [todo EXCEPT ![j] = @ \ {d}]
          /\ UNCHANGED at
          /\ NoFault
          /\ UNCHANGED <<rows, certs, series, filed, finished, stored, tomb, connVars, resuming>>
       \/ /\ todo[j] = {} /\ GoTo(j, "deregister") /\ NoFault
          /\ UNCHANGED <<storeVars, filed, finished, stored, todo, tomb, connVars, resuming>>
       \/ Fails(j)
    /\ UNCHANGED <<index, sweepVars, boots>>

\* The devices whose connection DeregisterAgent finds, or DeregisterTenant.
Connected(j) == {d \in Scope(j) : held[d] # Nobody}

\* Mutant: a device without a connection is not denied in memory.
DeregisterOnlineOnly(j) ==
    /\ at[j] = "deregister"
    /\ tomb' = tomb \cup Connected(j)
    /\ \E read \in SUBSET Connected(j) : told' = told \cup read
    /\ link' = [c \in Conns |->
         IF link[c] = "open" /\ \E d \in Connected(j) : held[d] = c THEN "shut" ELSE link[c]]
    /\ GoTo(j, "vm")
    /\ UNCHANGED <<storeVars, filed, finished, stored, todo, index, held, busy, buffer, flushing,
                   late, sweepVars, bootVars, faults>>

\* DeregisterAgent: deny in memory, send the order to the connection held for
\* the device, and close it; DeregisterTenant does so for connected devices.
Deregister(j) ==
    /\ at[j] = "deregister"
    /\ tomb' = tomb \cup IF SubjectOf[j] # Nobody THEN {SubjectOf[j]} ELSE Connected(j)
    /\ \E read \in SUBSET Connected(j) : told' = told \cup read
    /\ link' = [c \in Conns |->
         IF link[c] = "open" /\ \E d \in Connected(j) : held[d] = c THEN "shut" ELSE link[c]]
    /\ GoTo(j, "vm")
    /\ UNCHANGED <<storeVars, filed, finished, stored, todo, index, held, busy, buffer, flushing,
                   late, sweepVars, bootVars, faults>>

NextStage(s) == IF s = "vm" THEN "object" ELSE IF s = "object" THEN "postgres" ELSE "verify"
SaveOf(s) == CASE s = "vm" -> "vmSave" [] s = "object" -> "objectSave" [] OTHER -> "postgresSave"

\* A stage of Run that the job's flags do not mark done; the server is wired
\* without an object store, so that stage only sets its flag.
Erase(j, s) ==
    /\ at[j] = s /\ s \notin stored[j]
    /\ \/ /\ series' = IF s = "vm" THEN series \ Scope(j) ELSE series
          /\ rows' = IF s = "postgres" THEN rows \ Scope(j) ELSE rows
          /\ certs' = IF s # "postgres" THEN certs
                      ELSE certs \ IF SubjectOf[j] # Nobody THEN {SubjectOf[j]} ELSE rows
          /\ GoTo(j, SaveOf(s)) /\ NoFault
          /\ UNCHANGED <<denied, filed, finished, stored, todo, tomb, connVars, resuming>>
       \/ Fails(j)
    /\ UNCHANGED <<index, sweepVars, boots>>

\* UpdateProgress.
SaveProgress(j, s) ==
    /\ at[j] = SaveOf(s)
    /\ \/ /\ stored' = [stored EXCEPT ![j] = @ \cup {s}]
          /\ GoTo(j, NextStage(s)) /\ NoFault
          /\ UNCHANGED <<storeVars, filed, finished, todo, tomb, connVars, resuming>>
       \/ Fails(j)
    /\ UNCHANGED <<index, sweepVars, boots>>

SkipStage(j, s) ==
    /\ at[j] = s /\ s \in stored[j]
    /\ GoTo(j, NextStage(s))
    /\ UNCHANGED <<storeVars, filed, finished, stored, todo, tomb, index, connVars, sweepVars,
                   bootVars, faults>>

\* verifyEmpty: series left, late or not yet compacted, leave the job pending.
Verify(j) ==
    /\ at[j] = "verify"
    /\ \/ /\ series \cap Scope(j) = {}
          /\ GoTo(j, "complete") /\ NoFault
          /\ UNCHANGED <<storeVars, filed, finished, stored, todo, tomb, connVars, resuming>>
       \/ /\ series \cap Scope(j) # {}
          /\ Stop(j) /\ NoFault
          /\ UNCHANGED <<storeVars, filed, finished, stored, todo, tomb, connVars>>
       \/ Fails(j)
    /\ UNCHANGED <<index, sweepVars, boots>>

MarkComplete(j) ==
    /\ at[j] = "complete"
    /\ \/ /\ finished' = finished \cup {j}
          /\ Stop(j) /\ NoFault
          /\ UNCHANGED <<storeVars, filed, stored, todo, tomb, connVars>>
       \/ Fails(j)
    /\ UNCHANGED <<index, sweepVars, boots>>

RunJob(j) ==
    \/ Deny(j) \/ DenyEach(j) \/ Deregister(j)
    \/ \E s \in StageNames : Erase(j, s) \/ SaveProgress(j, s) \/ SkipStage(j, s)
    \/ Verify(j) \/ MarkComplete(j)

-----------------------------------------------------------------------------
(* The agent's connections *)

\* accept: not on the deny-list, and on the ledger.
Connect(c) ==
    LET d == DeviceOf[c] IN
    /\ Serving /\ link[c] = "off" /\ d \notin told
    /\ d \notin tomb /\ d \in index
    /\ link' = [link EXCEPT ![c] = "checked"]
    /\ late' = [late EXCEPT ![c] = 0]
    /\ UNCHANGED <<storeVars, jobVars, tomb, index, held, busy, buffer, flushing, told,
                   sweepVars, bootVars, faults>>

\* deliverRemovalOrder.
DeliverRemovalOrder(c) ==
    LET d == DeviceOf[c] IN
    /\ Serving /\ link[c] = "off" /\ d \notin told /\ d \in tomb
    /\ told' = told \cup {d}
    /\ UNCHANGED <<storeVars, jobVars, tomb, index, link, held, busy, buffer, flushing, late,
                   sweepVars, bootVars, faults>>

\* registerConn; retire closes the older connection.
Join(c) ==
    /\ link[c] = "checked"
    /\ held' = [held EXCEPT ![DeviceOf[c]] = c]
    /\ link' = [o \in Conns |-> IF o = c THEN "open"
                                ELSE IF o = held[DeviceOf[c]] THEN "shut" ELSE link[o]]
    /\ UNCHANGED <<storeVars, jobVars, tomb, index, busy, buffer, flushing, told, late,
                   sweepVars, bootVars, faults>>

Lose(c) ==
    /\ link[c] = "open" /\ link' = [link EXCEPT ![c] = "shut"]
    /\ UNCHANGED <<storeVars, jobVars, tomb, index, held, busy, buffer, flushing, told, late,
                   sweepVars, bootVars, faults>>

\* Mutant: the deny-list is checked at the handshake alone.
HandleControlUndenied(c, msg) ==
    /\ link[c] = "open" /\ busy[c] = Idle
    /\ busy' = [busy EXCEPT ![c] = msg]
    /\ UNCHANGED <<storeVars, jobVars, tomb, index, link, held, buffer, flushing, told, late,
                   sweepVars, bootVars, faults>>

\* handleControl up to its check of the deny-list.
HandleControl(c, msg) ==
    /\ link[c] = "open" /\ busy[c] = Idle /\ DeviceOf[c] \notin tomb
    /\ busy' = [busy EXCEPT ![c] = msg]
    /\ UNCHANGED <<storeVars, jobVars, tomb, index, link, held, buffer, flushing, told, late,
                   sweepVars, bootVars, faults>>

\* A metric window is only buffered, or flushes a buffer that is full.
BufferTelemetry(c) ==
    /\ link[c] = "open" /\ busy[c] = Idle /\ DeviceOf[c] \notin tomb
    /\ \/ buffer' = buffer \cup {c} /\ UNCHANGED flushing
       \/ buffer' = buffer \ {c} /\ flushing' = flushing \cup {c}
    /\ UNCHANGED <<storeVars, jobVars, tomb, index, link, held, busy, told, late,
                   sweepVars, bootVars, faults>>

\* register: Upsert.
Register(c) ==
    /\ busy[c] = "register"
    /\ rows' = rows \cup {DeviceOf[c]}
    /\ busy' = [busy EXCEPT ![c] = Idle]
    /\ late' = IF DeviceOf[c] \in tomb THEN [late EXCEPT ![c] = @ + 1] ELSE late
    /\ UNCHANGED <<certs, series, denied, jobVars, tomb, index, link, held, buffer, flushing,
                   told, sweepVars, bootVars, faults>>

\* handleHeartbeat: flush, on a goroutine of its own when a slot is free, then
\* SetStatus, which ends the loop when there is no row.
Heartbeat(c) ==
    /\ busy[c] = "heartbeat"
    /\ busy' = [busy EXCEPT ![c] = Idle]
    /\ flushing' = flushing \cup ({c} \cap buffer)
    /\ buffer' = buffer \ {c}
    /\ link' = [link EXCEPT ![c] = IF DeviceOf[c] \in rows THEN @ ELSE "shut"]
    /\ UNCHANGED <<storeVars, jobVars, tomb, index, held, told, late, sweepVars, bootVars, faults>>

\* persistTelemetry: the write, or its drop.
WriteSamples(c) ==
    /\ c \in flushing
    /\ flushing' = flushing \ {c}
    /\ \/ series' = series \cup {DeviceOf[c]} /\ NoFault
       \/ Fault /\ UNCHANGED series
    /\ UNCHANGED <<rows, certs, denied, jobVars, tomb, index, link, held, busy, buffer, told,
                   late, sweepVars, bootVars>>

\* runControlLoop flushes what is buffered as it ends; unregisterConn.
EndLoop(c) ==
    LET d == DeviceOf[c] IN
    /\ link[c] = "shut" /\ busy[c] = Idle
    /\ link' = [link EXCEPT ![c] = "off"]
    /\ held' = [held EXCEPT ![d] = IF @ = c THEN Nobody ELSE @]
    /\ flushing' = flushing \cup ({c} \cap buffer)
    /\ buffer' = buffer \ {c}
    /\ UNCHANGED <<storeVars, jobVars, tomb, index, busy, told, late, sweepVars, bootVars, faults>>

-----------------------------------------------------------------------------
(* Reconciler.Sweep: the rows, then the subjects of the metrics store, then
   one delete after another, each of which may fail *)

ListRows ==
    /\ Serving /\ live = NotListed /\ live' = rows
    /\ UNCHANGED <<storeVars, jobVars, tomb, index, connVars, orphans, bootVars, faults>>

\* Mutant: erased devices are taken to have no series.
ListSubjectsUndenied ==
    /\ live # NotListed /\ orphans = {}
    /\ orphans' = series \ (live \cup denied)
    /\ live' = IF orphans' = {} THEN NotListed ELSE live
    /\ UNCHANGED <<storeVars, jobVars, tomb, index, connVars, bootVars, faults>>

ListSubjects ==
    /\ live # NotListed /\ orphans = {}
    /\ orphans' = series \ live
    /\ live' = IF orphans' = {} THEN NotListed ELSE live
    /\ UNCHANGED <<storeVars, jobVars, tomb, index, connVars, bootVars, faults>>

DeleteOrphan ==
    /\ \E d \in orphans :
         /\ orphans' = orphans \ {d}
         /\ live' = IF orphans' = {} THEN NotListed ELSE live
         /\ \/ series' = series \ {d} /\ NoFault
            \/ Fault /\ UNCHANGED series
    /\ UNCHANGED <<rows, certs, denied, jobVars, tomb, index, connVars, bootVars>>

Sweep == ListRows \/ ListSubjects \/ DeleteOrphan

-----------------------------------------------------------------------------
(* The process ends and starts again: the ledger is warmed, the deny-list too
   unless that fails, which is only logged, and Resume runs the jobs that are
   not complete, one after another, before anything connects. *)
\* Mutant: Resume runs jobs that were never filed.
RebootResumesAll ==
    /\ boots < MaxBoots /\ boots' = boots + 1
    /\ index' = certs
    /\ \/ tomb' = denied /\ NoFault
       \/ tomb' = {} /\ Fault
    /\ resuming' = Jobs \ finished
    /\ at' = [j \in Jobs |-> Idle] /\ todo' = [j \in Jobs |-> {}]
    /\ link' = [c \in Conns |-> "off"] /\ busy' = [c \in Conns |-> Idle]
    /\ held' = [d \in Devices |-> Nobody]
    /\ buffer' = {} /\ flushing' = {}
    /\ live' = NotListed /\ orphans' = {}
    /\ UNCHANGED <<storeVars, filed, finished, stored, told, late>>

\* Mutant: Resume passes over jobs that had no stage done.
RebootResumesStarted ==
    /\ boots < MaxBoots /\ boots' = boots + 1
    /\ index' = certs
    /\ \/ tomb' = denied /\ NoFault
       \/ tomb' = {} /\ Fault
    /\ resuming' = {j \in filed \ finished : stored[j] # {}}
    /\ at' = [j \in Jobs |-> Idle] /\ todo' = [j \in Jobs |-> {}]
    /\ link' = [c \in Conns |-> "off"] /\ busy' = [c \in Conns |-> Idle]
    /\ held' = [d \in Devices |-> Nobody]
    /\ buffer' = {} /\ flushing' = {}
    /\ live' = NotListed /\ orphans' = {}
    /\ UNCHANGED <<storeVars, filed, finished, stored, told, late>>

Reboot ==
    /\ boots < MaxBoots /\ boots' = boots + 1
    /\ index' = certs
    /\ \/ tomb' = denied /\ NoFault
       \/ tomb' = {} /\ Fault
    /\ resuming' = filed \ finished
    /\ at' = [j \in Jobs |-> Idle] /\ todo' = [j \in Jobs |-> {}]
    /\ link' = [c \in Conns |-> "off"] /\ busy' = [c \in Conns |-> Idle]
    /\ held' = [d \in Devices |-> Nobody]
    /\ buffer' = {} /\ flushing' = {}
    /\ live' = NotListed /\ orphans' = {}
    /\ UNCHANGED <<storeVars, filed, finished, stored, told, late>>

ResumeNext(j) ==
    /\ j \in resuming /\ \A i \in Jobs : at[i] = Idle
    /\ GoTo(j, "deny")
    /\ UNCHANGED <<storeVars, filed, finished, stored, todo, tomb, index, connVars, sweepVars,
                   bootVars, faults>>

ConnStep(c) == Join(c) \/ Register(c) \/ Heartbeat(c) \/ EndLoop(c)

PurgeNext ==
    \/ \E j \in Jobs : Request(j) \/ RunJob(j) \/ ResumeNext(j)
    \/ \E c \in Conns :
         \/ Connect(c) \/ DeliverRemovalOrder(c) \/ Lose(c) \/ BufferTelemetry(c)
         \/ ConnStep(c) \/ WriteSamples(c)
    \/ \E c \in Conns, msg \in {"register", "heartbeat"} : HandleControl(c, msg)
    \/ Sweep \/ Reboot

\* Goroutines run on and the sweep's timer fires; agents and administrators
\* need not do anything, and the process need not restart.
PurgeFairness ==
    /\ \A j \in Jobs : WF_purgeVars(RunJob(j)) /\ WF_purgeVars(ResumeNext(j))
    /\ \A c \in Conns : WF_purgeVars(ConnStep(c)) /\ WF_purgeVars(WriteSamples(c))
    /\ WF_purgeVars(Sweep)

PurgeSpec == PurgeInit /\ [][PurgeNext]_purgeVars /\ PurgeFairness

-----------------------------------------------------------------------------
(* Properties *)

\* A device whose own purge is complete is never admitted again while the server
\* runs, whatever failed or restarted since, the warming of the deny-list
\* included: it is denied in memory or off the ledger (DeregisterAgent,
\* DeleteDevice, WarmTombstones, Warm).
StaysOut ==
    \A j \in finished : SubjectOf[j] # Nobody =>
        (SubjectOf[j] \in tomb \/ SubjectOf[j] \notin index)

\* The check in handleControl leaves a connection at most the one registration it
\* was already working on when its device was denied.
OneLateRegistration == \A c \in Conns : late[c] <= 1

\* A purge that no goroutine works on is complete, or a store failed or counted
\* series that were written late: crashes alone never leave one behind (Resume,
\* and the flags it starts from).
CrashAloneResumes ==
    Serving => \A j \in filed \ finished :
        at[j] = Idle => faults > 0 \/ "postgres" \in stored[j]

\* Series written after the erasure do not outlive it: without a row they are
\* swept (Reconciler.Sweep).
OrphansSwept == \A d \in Devices : d \in series ~> (d \notin series \/ d \in rows)

\* orchestrator.go: "an offline device is rejected by id on reconnect after its
\* Postgres row is gone".
ErasedIsRefused ==
    \A j \in finished : \A d \in denied \cap Scope(j) : d \in tomb \/ d \notin index
=============================================================================
