-------------------------- MODULE AgentLifecycle --------------------------
(* A machine's identity over its life: the installer leaves a note, the agent
   decides at start-up what to do with what it finds on disk, enrols, renews its
   certificate, takes new trust bundles, starts over when the server disowns it,
   and removes itself.  All of it goes through IdentityStore's files, and a power
   cut or a crash may strike between any two steps.

   A server's certificate names the server that signed it, the device number it
   chose and how often the certificate was renewed; a trust bundle names the
   server and its issue. *)
EXTENDS IdentityStore, Functions

CONSTANTS
    Servers,
    HomeServer,                             \* which of them may have enrolled the machine earlier
    KillSteps,                              \* where the process may die on its own
    MaxDevices, MaxRenewals, MaxBundles,    \* what the servers may issue
    MaxInstalls, MaxCuts, MaxFaults,        \* how often the installer runs and things fail
    MaxEvents                               \* how many of all these together

VARIABLES
    mem,        \* the certificate the running agent presents
    using,      \* the note the agent is enrolling with
    acked,      \* whether the present connection was acknowledged
    unit,       \* whether the machine starts the agent
    inst,       \* where the installer stands
    before,     \* history: what a start might have found when the unreturned save began, if there is one
    n           \* history: how many of each bounded event there were

vars == <<disk, past, pc, i, job, after, mem, using, acked, unit, inst, before, n>>
agentVars == <<mem, using, acked, unit, inst>>

Device(s, d) == [srv |-> s, dev |-> d]
Cert(s, d, g) == [srv |-> s, dev |-> d, renewal |-> g]
Bundle(s, b) == [srv |-> s, bundle |-> b]
Note(s, f) == [srv |-> s, fresh |-> f]
Key(s) == [srv |-> s]

Events == {"device", "renewal", "bundle", "install", "cut", "fault"}
Bound == [device |-> MaxDevices, renewal |-> MaxRenewals, bundle |-> MaxBundles,
          install |-> MaxInstalls, cut |-> MaxCuts, fault |-> MaxFaults]

\* One more event of kind k, within its bound.
Count(k) == /\ n[k] < Bound[k]
            /\ FoldFunction(+, 0, n) < MaxEvents
            /\ n' = [n EXCEPT ![k] = @ + 1]

note == disk.live["note"]
Exists(D) == \A f \in IdentityFiles : D.live[f] # None
\* What a start of the machine may find, wherever the power is cut.
MayFind == {Recovered(D) : D \in CutOutcomes}

\* Mutant: an enrolment keeps the master keys the machine already trusts.
EnrollKeepsTrust(s, d) ==
    [order |-> <<"update_key", "device_id", "cert", "key">>,
     put   |-> [f \in Files |-> CASE f = "server_ca" -> Bundle(s, 0)
                                  [] f = "update_key" -> Key(s)
                                  [] f = "device_id" -> Device(s, d)
                                  [] OTHER -> Cert(s, d, 0)],
     consumes |-> TRUE]

\* A save of the identity, the note's master key and the update key the server sent.
EnrollJob(s, d) ==
    [order |-> <<"server_ca", "update_key", "device_id", "cert", "key">>,
     put   |-> [f \in Files |-> CASE f = "server_ca" -> Bundle(s, 0)
                                  [] f = "update_key" -> Key(s)
                                  [] f = "device_id" -> Device(s, d)
                                  [] OTHER -> Cert(s, d, 0)],
     consumes |-> TRUE]

\* A machine without an agent, or one that some server enrolled earlier and that starts up.
Empty == [e \in AllEntries |-> None]
Init ==
    /\ \/ unit = FALSE /\ disk = [live |-> Empty, next |-> Empty]
       \/ /\ unit = TRUE
          /\ \E s \in HomeServer :
               disk = [live |-> [e \in AllEntries |-> IF e \in Files THEN EnrollJob(s, 1).put[e] ELSE None],
                       next |-> Empty]
    /\ n = [k \in Events |-> IF k = "device" /\ unit THEN 1 ELSE 0]
    /\ past = [d \in Dirs |-> {View(disk, d)}]
    /\ pc = IF unit THEN "down" ELSE "gone"
    /\ i = 1 /\ job = None /\ after = None
    /\ mem = None /\ using = None /\ acked = FALSE
    /\ inst = "idle"
    /\ before = {}

\* The process ends and what it held in memory is lost.  A save that never returned is kept in
\* job, for the properties only.
Die(then) ==
    /\ pc' = then
    /\ mem' = None /\ using' = None /\ acked' = FALSE
    /\ i' = 1 /\ after' = None
    /\ job' = IF before = {} THEN None ELSE job

-----------------------------------------------------------------------------
(* The installer: it clears a half-finished removal, leaves the note and only then
   restarts the agent, which runs meanwhile. *)

InstallClear ==
    /\ inst = "idle"
    /\ Count("install")
    /\ Write(Remove({"removed"}))
    /\ inst' = "cleared"
    /\ UNCHANGED <<pc, i, job, after, mem, using, acked, unit, before>>

InstallNote(s, f) ==
    /\ inst = "cleared"
    /\ Write([disk EXCEPT !.live["note"] = Note(s, f)])
    /\ inst' = "noted"
    /\ before' = before \union {[b EXCEPT !["note"] = Note(s, f)] : b \in before}
    /\ UNCHANGED <<pc, i, job, after, mem, using, acked, unit, n>>

InstallRestart ==
    /\ inst = "noted"
    /\ pc \in KillSteps \union {"gone"}
    /\ inst' = "idle"
    /\ unit' = TRUE
    /\ Die("down")
    /\ UNCHANGED <<disk, past, before, n>>

-----------------------------------------------------------------------------
(* Start-up *)

Start ==
    /\ unit
    /\ RecoverStart("decide")
    /\ UNCHANGED <<agentVars, before, n>>

\* The note names a server none of this machine's files come from.
IssuedBy(c, s) == c # None /\ c.srv = s
Foreign == ~IssuedBy(disk.live["server_ca"], note.srv) /\ ~IssuedBy(disk.live["cert"], note.srv)

\* A note beats the marker of a removal, which is deleted.
Unremove == IF note # None THEN Write(Remove({"removed"})) ELSE UNCHANGED <<disk, past>>

StartEnroll ==
    /\ pc = "decide"
    /\ note # None
    /\ LET wipe == note.fresh \/ (Exists(disk) /\ Foreign) IN
         /\ wipe \/ ~Exists(disk)
         /\ pc' = IF wipe THEN "wipe" ELSE "enroll"
    /\ using' = note
    /\ Unremove
    /\ after' = "enrolled"
    /\ before' = {}
    /\ job' = None
    /\ UNCHANGED <<i, mem, acked, unit, inst, n>>

StartLoad ==
    /\ pc = "decide"
    /\ Exists(disk)
    /\ IF note = None THEN disk.live["removed"] = None ELSE ~note.fresh /\ ~Foreign
    /\ Unremove
    /\ mem' = disk.live["cert"]
    /\ before' = {}
    /\ Leave("run")
    /\ UNCHANGED <<using, acked, unit, inst, n>>

StartRemoval ==
    /\ pc = "decide"
    /\ note = None
    /\ disk.live["removed"] # None
    /\ before' = {}
    /\ Leave("rem_mark")
    /\ UNCHANGED <<disk, past, agentVars, n>>

\* Nothing to connect as and nothing to enrol with: the agent exits and is started again.
StartStranded ==
    /\ pc = "decide"
    /\ note = None /\ ~Exists(disk) /\ disk.live["removed"] = None
    /\ before' = {}
    /\ Leave("down")
    /\ UNCHANGED <<disk, past, agentVars, n>>

-----------------------------------------------------------------------------
(* Enrolment *)

\* wipe_data_folder, keeping one entry; the trusted master keys are in another folder.
Wiped(keep) ==
    [live |-> [e \in AllEntries |-> IF e \in Entries["data"] \ {keep} THEN None ELSE disk.live[e]],
     next |-> [e \in AllEntries |-> IF e \in Entries["data"] THEN None ELSE disk.next[e]]]

Wipe ==
    /\ pc = "wipe"
    /\ Write(Wiped("note"))
    /\ Goto("enroll")
    /\ UNCHANGED <<agentVars, before, n>>

EnrollIssued ==
    /\ pc = "enroll"
    /\ Count("device")
    /\ Begin(EnrollJob(using.srv, n'["device"]), after)
    /\ before' = MayFind
    /\ UNCHANGED agentVars

\* The code is refused or the reply unusable: the agent exits and the note stays.
EnrollRefused ==
    /\ pc = "enroll"
    /\ Die("down")
    /\ UNCHANGED <<disk, past, unit, inst, before, n>>

Enrolled ==
    /\ pc = "enrolled"
    /\ mem' = job.put["cert"]
    /\ using' = None
    /\ before' = {}
    /\ Leave("run")
    /\ UNCHANGED <<disk, past, acked, unit, inst, n>>

-----------------------------------------------------------------------------
(* A running agent *)

\* on_acknowledged: the first acknowledgement on a connection deletes the note.
ConsumeNote == IF ~acked /\ note # None THEN Write(Remove({"note"})) ELSE UNCHANGED <<disk, past>>

Acknowledged ==
    /\ pc = "run" /\ ~acked
    /\ ConsumeNote
    /\ acked' = TRUE
    /\ UNCHANGED <<pc, i, job, after, mem, using, unit, inst, before, n>>

Reconnect ==
    /\ pc = "run" /\ acked
    /\ acked' = FALSE
    /\ UNCHANGED <<disk, past, pc, i, job, after, mem, using, unit, inst, before, n>>

RenewalJob(c, b) ==
    [order |-> <<"server_ca", "device_id", "cert", "key">>,
     put   |-> [f \in Files \ {"update_key"} |->
                   CASE f = "server_ca" -> Bundle(c.srv, b)
                     [] f = "device_id" -> Device(c.srv, c.dev)
                     [] OTHER -> c],
     consumes |-> FALSE]

BundleJob(s, b) == [order |-> <<"server_ca">>, put |-> [f \in {"server_ca"} |-> Bundle(s, b)],
                    consumes |-> FALSE]

Renew ==
    /\ pc = "run"
    /\ Count("renewal")
    /\ Begin(RenewalJob([mem EXCEPT !.renewal = n'["renewal"]], n["bundle"]), "renewed")
    /\ before' = MayFind
    /\ UNCHANGED agentVars

\* The saved renewal is taken into use; the issue counts as an acknowledgement.
Renewed ==
    /\ pc = "renewed"
    /\ mem' = job.put["cert"]
    /\ ConsumeNote
    /\ acked' = TRUE
    /\ before' = {}
    /\ Leave("run")
    /\ UNCHANGED <<using, unit, inst, n>>

TrustBundle ==
    /\ pc = "run"
    /\ Count("bundle")
    /\ Begin(BundleJob(mem.srv, n'["bundle"]), "bundled")
    /\ before' = MayFind
    /\ UNCHANGED agentVars

Bundled ==
    /\ pc = "bundled"
    /\ before' = {}
    /\ Leave("run")
    /\ UNCHANGED <<disk, past, agentVars, n>>

\* Mutant: the agent presents the renewed certificate although saving it failed.
SaveFailedUsed ==
    /\ after \in {"renewed", "bundled"}
    /\ Count("fault")
    /\ mem' = IF after = "renewed" THEN job.put["cert"] ELSE mem
    /\ Fail("run")
    /\ before' = {}
    /\ UNCHANGED <<using, acked, unit, inst>>

\* A save of a running agent meets an I/O error: it is logged and the agent goes on.
SaveFailed ==
    /\ after \in {"renewed", "bundled"}
    /\ Count("fault")
    /\ Fail("run")
    /\ before' = {}
    /\ UNCHANGED agentVars

\* The server deleted the device or refused its certificate, or its chain is not trusted, and
\* there is a note: start over with it, and restart into the new identity.
StartOver ==
    /\ pc = "run"
    /\ note # None
    /\ using' = note
    /\ after' = "restart"
    /\ pc' = "wipe"
    /\ UNCHANGED <<disk, past, i, job, mem, acked, unit, inst, before, n>>

\* act_on exits with the code that has systemd start the agent again.
Restart ==
    /\ pc = "restart"
    /\ pc' = "down"
    /\ mem' = None /\ using' = None /\ acked' = FALSE
    /\ i' = 1 /\ job' = None /\ after' = None
    /\ before' = {}
    /\ UNCHANGED <<disk, past, unit, inst, n>>

\* The server deleted the device and there is no note.
Deleted ==
    /\ pc = "run"
    /\ note = None
    /\ Die("rem_mark")
    /\ UNCHANGED <<disk, past, unit, inst, before, n>>

-----------------------------------------------------------------------------
(* Self-removal *)

\* Mutant: the removal leaves no marker of itself.
RemoveUnmarked ==
    /\ pc = "rem_mark"
    /\ Goto("rem_wipe")
    /\ UNCHANGED <<disk, past, agentVars, before, n>>

RemoveMark ==
    /\ pc = "rem_mark"
    /\ disk' = [disk EXCEPT !.live["removed"] = TRUE]
    /\ past' = [past EXCEPT !["data"] = {View(disk', "data")}]
    /\ Goto("rem_wipe")
    /\ UNCHANGED <<agentVars, before, n>>

RemoveWipe ==
    /\ pc = "rem_wipe"
    /\ Write(Wiped("removed"))
    /\ Goto("rem_trust")
    /\ UNCHANGED <<agentVars, before, n>>

RemoveTrust ==
    /\ pc = "rem_trust"
    /\ Write(Remove({"server_ca"}))
    /\ Goto("rem_unit")
    /\ UNCHANGED <<agentVars, before, n>>

\* The unit and the binary; nothing starts the agent from here on.
RemoveUnit ==
    /\ pc = "rem_unit"
    /\ unit' = FALSE
    /\ Goto("rem_last")
    /\ UNCHANGED <<disk, past, mem, using, acked, inst, before, n>>

RemoveLast ==
    /\ pc = "rem_last"
    /\ Write(Remove({"removed"}))
    /\ Goto("gone")
    /\ UNCHANGED <<agentVars, before, n>>

-----------------------------------------------------------------------------
\* The installer's script may die with the machine or outlive the agent's process.
Cut ==
    /\ Count("cut")
    /\ PowerCut
    /\ Die(IF unit THEN "down" ELSE "gone")
    /\ inst' \in {inst, "idle"}
    /\ UNCHANGED <<unit, before>>

\* The process dies and the directories stay as they are, flushed or not.
Kill ==
    /\ Count("cut")
    /\ pc \in KillSteps
    /\ Die(IF unit THEN "down" ELSE "gone")
    /\ UNCHANGED <<disk, past, unit, inst, before>>

Step ==
    \/ Start \/ StartEnroll \/ StartLoad \/ StartRemoval \/ StartStranded
    \/ StoreStep /\ UNCHANGED <<agentVars, before, n>>
    \/ Wipe \/ Enrolled \/ Renewed \/ Bundled \/ Restart
    \/ RemoveMark \/ RemoveWipe \/ RemoveTrust \/ RemoveUnit \/ RemoveLast

Next ==
    \/ Step
    \/ InstallClear
    \/ \E s \in Servers, f \in BOOLEAN : InstallNote(s, f)
    \/ InstallRestart
    \/ EnrollIssued \/ EnrollRefused
    \/ Acknowledged \/ Reconnect \/ Renew \/ TrustBundle \/ SaveFailed \/ StartOver \/ Deleted
    \/ Cut \/ Kill

Spec == Init /\ [][Next]_vars
\* The agent's own steps go on, and systemd starts a stopped agent again.
FairSpec == Spec /\ WF_vars(Step)

-----------------------------------------------------------------------------
Certs == [srv : Servers, dev : 1 .. MaxDevices, renewal : 0 .. MaxRenewals]
Bundles == [srv : Servers, bundle : 0 .. MaxBundles]
Contents == Certs \union Bundles \union [srv : Servers, dev : 1 .. MaxDevices] \union [srv : Servers]
Notes == [srv : Servers, fresh : BOOLEAN]

Jobs == {EnrollJob(s, d) : s \in Servers, d \in 1 .. MaxDevices}
        \union {RenewalJob(c, b) : c \in Certs, b \in 0 .. MaxBundles}
        \union {BundleJob(s, b) : s \in Servers, b \in 0 .. MaxBundles}

\* Whatever an entry of a directory may hold.
Values == Contents \union Notes \union Jobs \union {None, Torn, TRUE}

ASSUME BoundAssumption ==
    /\ MaxDevices \in Nat \ {0} /\ MaxRenewals \in Nat /\ MaxBundles \in Nat
    /\ MaxInstalls \in Nat /\ MaxCuts \in Nat /\ MaxFaults \in Nat
ASSUME HomeAssumption == HomeServer \subseteq Servers
\* A missing entry is no entry; torn contents are no contents.
ASSUME AbsenceAssumption ==
    /\ None \notin Contents /\ None \notin Notes /\ None \notin Jobs /\ None # TRUE
    /\ Torn \notin Contents /\ Torn \notin Notes /\ Torn \notin Jobs /\ Torn # None

\* The failures the store withstands: a save fails with an I/O error only before its marker is in
\* place, and the process does not die alone while the marker's rename or removal is unflushed.
\* Power may be cut anywhere.
UnmarkedSteps == {"stage", "fill", "sync_staged", "mark", "mark_fill", "mark_rename"}
ASSUME FailureAssumption ==
    /\ FaultSteps \subseteq UnmarkedSteps
    /\ KillSteps \intersect {"mark_sync", "sync_unmarked"} = {}

TypeOK ==
    /\ \A f \in Files : /\ disk.live[f] \in Contents \union {None}
                        /\ disk.next[f] \in Contents \union {None, Torn}
    /\ note \in Notes \union {None}
    /\ disk.live["removed"] \in {TRUE, None}
    /\ \A d \in Dirs : View(disk, d) \in past[d]
    /\ mem \in Contents \union {None}
    /\ acked \in BOOLEAN /\ unit \in BOOLEAN /\ inst \in {"idle", "cleared", "noted"}

(* A save that has not returned, or that a crash interrupted and start-up has not
   yet settled, is all there or not there at all, wherever the power is cut: recovery yields
   every file of the save, or what it would have yielded when the save began, an
   enrolment's note included. *)
AllOrNothing ==
    before # {} =>
        \A found \in MayFind :
            \/ \A f \in FilesOf(job) : found[f] = job.put[f]
            \/ found \in before

(* The certificate a running agent presents is the one a restart loads, with its key and its
   device number, wherever the power is cut. *)
RestartLoadsMemory ==
    pc = "run" =>
        \A found \in MayFind :
            /\ found["cert"] = mem /\ found["key"] = mem
            /\ found["device_id"] = Device(mem.srv, mem.dev)

(* Recovery yields one set of files: an identity it leaves is a certificate with its own key and
   number, and the master keys beside it, if a removal has not taken them, are those of the server
   that issued it. *)
RecoveredWhole ==
    pc = "decide" /\ Exists(disk) =>
        \E s \in Servers, d \in 1 .. MaxDevices, g \in 0 .. MaxRenewals :
            /\ disk.live["cert"] = Cert(s, d, g) /\ disk.live["key"] = Cert(s, d, g)
            /\ disk.live["device_id"] = Device(s, d)
            /\ disk.live["server_ca"] \in {Bundle(s, b) : b \in 0 .. MaxBundles} \union {None}

(* A note marked fresh leaves the disk only with the save of an identity enrolled with a note, or
   with the machine's removal: it is not deleted unused. *)
FreshNoteUsed ==
    [][note # None /\ note'  = None /\ note.fresh =>
         pc \in {"consume", "rem_wipe"} \/ n'["cut"] # n["cut"]]_vars

(* A removal that has written its marker comes to an end after any interruption: the agent is gone,
   unless the installer ran again. *)
RemovalFinishes == (pc = "rem_wipe") ~> (pc = "gone" \/ note # None \/ inst # "idle")
=============================================================================
