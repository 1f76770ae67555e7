----------------------------- MODULE AgentConns -----------------------------
(***************************************************************************)
(* The control connections of the agents: the registry of the newest       *)
(* connection of each device, the probe that retires a replaced one, the   *)
(* online status in the devices table, and the gate that orders joining    *)
(* and leaving (server_connection.go, conn.go, conn_register.go).  Who is  *)
(* admitted at all is in CertRenewal and DevicePurge.                      *)
(***************************************************************************)
EXTENDS Naturals, FiniteSets

CONSTANTS
    Devices, Nobody,
    Conns,         \* connections, numbered in the order of their admission
    DeviceOf,      \* the device number a connection proved in its handshake
    OtherTenant,   \* devices of a tenant other than the default one
    DbFails,       \* whether a database write may fail
    MaxRestarts    \* bound: restarts of the server

ASSUME ConnsAssumption ==
    /\ Conns \subseteq Nat /\ Nobody \notin Conns
    /\ IsFiniteSet(Devices)
    /\ DeviceOf \in [Conns -> Devices]
    /\ OtherTenant \subseteq Devices
    /\ DbFails \in BOOLEAN
    /\ MaxRestarts \in Nat

VARIABLES
    phase,       \* where accept, the goroutine of a connection, is
    up,          \* the QUIC connection is open
    heard,       \* the message its handler has read and not yet written
    registered,  \* open connections whose registration was written
    conns,       \* AgentServer.conns: the connection held for a device
    count,       \* AgentServer.count
    gate,        \* who is inside a device's statusGate across a database write
    probing,     \* replaced connections that retire is pinging
    known,       \* devices that have a row
    status,      \* the status column of the devices table
    joined,      \* history: connections that were ever in the registry
    restarts

connVars == <<phase, up, heard, registered, conns, count, gate, probing, known,
              status, joined, restarts>>

ConnPhases == {"new", "admitted", "serving", "released", "offlining", "gone"}
NoMessage == "none"

ConnsTypeOK ==
    /\ phase \in [Conns -> ConnPhases]
    /\ up \in [Conns -> BOOLEAN]
    /\ heard \in [Conns -> {"register", "upserted", "heartbeat", NoMessage}]
    /\ registered \subseteq Conns /\ probing \subseteq Conns /\ joined \subseteq Conns
    /\ conns \in [Devices -> Conns \cup {Nobody}]
    /\ count \in Nat
    /\ gate \in [Devices -> Conns \cup {Nobody}]
    /\ known \subseteq Devices
    /\ status \in [Devices -> {"online", "offline"}]
    /\ restarts \in 0..MaxRestarts

ConnsInit ==
    /\ phase = [c \in Conns |-> "new"]
    /\ up = [c \in Conns |-> FALSE]
    /\ heard = [c \in Conns |-> NoMessage]
    /\ registered = {} /\ probing = {} /\ joined = {} /\ known = {}
    /\ conns = [d \in Devices |-> Nobody]
    /\ gate = [d \in Devices |-> Nobody]
    /\ count = 0 /\ restarts = 0
    /\ status = [d \in Devices |-> "offline"]

Step(c, from, to) == phase[c] = from /\ phase' = [phase EXCEPT ![c] = to]

-----------------------------------------------------------------------------
(* accept *)

\* The handshake, the admission and the look-up of the device's tenant.
Accept(c) ==
    /\ Step(c, "new", "admitted")
    /\ \A b \in Conns : b < c => phase[b] # "new"
    /\ up' = [up EXCEPT ![c] = TRUE]
    /\ UNCHANGED <<heard, registered, conns, count, gate, probing, known, status, joined, restarts>>

\* Mutant: the replaced connection is not retired.
RegisterConnUnprobed(c) ==
    LET d == DeviceOf[c] IN
    /\ gate[d] = Nobody
    /\ Step(c, "admitted", "serving")
    /\ conns' = [conns EXCEPT ![d] = c]
    /\ IF conns[d] = Nobody
       THEN count' = count + 1 /\ UNCHANGED probing
       ELSE UNCHANGED <<probing, count>>
    /\ joined' = joined \cup {c}
    /\ UNCHANGED <<up, heard, registered, gate, known, status, restarts>>

\* Mutant: a replacement is counted as a new agent.
RegisterConnRecounted(c) ==
    LET d == DeviceOf[c] IN
    /\ gate[d] = Nobody
    /\ Step(c, "admitted", "serving")
    /\ conns' = [conns EXCEPT ![d] = c]
    /\ IF conns[d] = Nobody
       THEN count' = count + 1 /\ UNCHANGED probing
       ELSE probing' = probing \cup {conns[d]} /\ count' = count + 1
    /\ joined' = joined \cup {c}
    /\ UNCHANGED <<up, heard, registered, gate, known, status, restarts>>

\* Mutant: the missing older connection is retired too.
RegisterConnProbesAny(c) ==
    LET d == DeviceOf[c] IN
    /\ gate[d] = Nobody
    /\ Step(c, "admitted", "serving")
    /\ conns' = [conns EXCEPT ![d] = c]
    /\ IF conns[d] = Nobody
       THEN count' = count + 1 /\ probing' = probing \cup {conns[d]}
       ELSE probing' = probing \cup {conns[d]} /\ UNCHANGED count
    /\ joined' = joined \cup {c}
    /\ UNCHANGED <<up, heard, registered, gate, known, status, restarts>>

\* registerConn: swap and count under the gate, then retire the older one.
RegisterConn(c) ==
    LET d == DeviceOf[c] IN
    /\ gate[d] = Nobody
    /\ Step(c, "admitted", "serving")
    /\ conns' = [conns EXCEPT ![d] = c]
    /\ IF conns[d] = Nobody
       THEN count' = count + 1 /\ UNCHANGED probing
       ELSE probing' = probing \cup {conns[d]} /\ UNCHANGED count
    /\ joined' = joined \cup {c}
    /\ UNCHANGED <<up, heard, registered, gate, known, status, restarts>>

\* retire: the ping is answered or times out, then the connection is closed.
Retire(c) ==
    /\ c \in probing
    /\ probing' = probing \ {c}
    /\ up' = [up EXCEPT ![c] = FALSE]
    /\ UNCHANGED <<phase, heard, registered, conns, count, gate, known, status, joined, restarts>>

\* The machine hangs up, or the path to it is lost; later nobody would notice.
Lose(c) ==
    /\ up[c] /\ phase[c] \in {"admitted", "serving"}
    /\ up' = [up EXCEPT ![c] = FALSE]
    /\ UNCHANGED <<phase, heard, registered, conns, count, gate, probing, known, status, joined, restarts>>

-----------------------------------------------------------------------------
(* runControlLoop: one message at a time, read and then written *)

HandleControl(c, msg) ==
    /\ phase[c] = "serving" /\ up[c] /\ heard[c] = NoMessage
    /\ heard' = [heard EXCEPT ![c] = msg]
    /\ UNCHANGED <<phase, up, registered, conns, count, gate, probing, known, status, joined, restarts>>

\* register writes the row, status included, and then the status once more;
\* either write may fail.
Upsert(c) ==
    /\ phase[c] = "serving" /\ heard[c] = "register"
    /\ known' = known \cup {DeviceOf[c]}
    /\ status' = [status EXCEPT ![DeviceOf[c]] = "online"]
    /\ heard' = [heard EXCEPT ![c] = "upserted"]
    /\ UNCHANGED <<phase, up, registered, conns, count, gate, probing, joined, restarts>>

Register(c) ==
    /\ phase[c] = "serving" /\ heard[c] = "upserted"
    /\ status' = [status EXCEPT ![DeviceOf[c]] = "online"]
    /\ registered' = registered \cup {c}
    /\ heard' = [heard EXCEPT ![c] = NoMessage]
    /\ UNCHANGED <<phase, up, conns, count, gate, probing, known, joined, restarts>>

\* handleHeartbeat: the status alone.
Heartbeat(c) ==
    /\ phase[c] = "serving" /\ heard[c] = "heartbeat" /\ DeviceOf[c] \in known
    /\ status' = [status EXCEPT ![DeviceOf[c]] = "online"]
    /\ heard' = [heard EXCEPT ![c] = NoMessage]
    /\ UNCHANGED <<phase, up, registered, conns, count, gate, probing, known, joined, restarts>>

\* A write that fails, or finds no row, ends the loop, as a lost connection
\* does; unregisterConn marks the connection released first.
EndLoop(c) ==
    /\ \/ heard[c] # NoMessage /\ DbFails
       \/ heard[c] = "heartbeat" /\ DeviceOf[c] \notin known
       \/ heard[c] = NoMessage /\ ~up[c]
    /\ Step(c, "serving", "released")
    /\ heard' = [heard EXCEPT ![c] = NoMessage]
    /\ UNCHANGED <<up, registered, conns, count, gate, probing, known, status, joined, restarts>>

-----------------------------------------------------------------------------
(* unregisterConn *)

\* Its last lines: the stream and the connection are closed.
Closed(c) ==
    /\ up' = [up EXCEPT ![c] = FALSE]
    /\ registered' = registered \ {c}

\* releaseDeviceStatus, a newer connection is held: nothing to write.
SkipOffline(c) ==
    /\ gate[DeviceOf[c]] = Nobody /\ conns[DeviceOf[c]] # c
    /\ Step(c, "released", "gone")
    /\ Closed(c)
    /\ UNCHANGED <<heard, conns, count, gate, probing, known, status, joined, restarts>>

\* Mutant: the gate is left before the status write.
ReleaseDeviceUngated(c) ==
    LET d == DeviceOf[c] IN
    /\ gate[d] = Nobody /\ conns[d] = c
    /\ Step(c, "released", "offlining")
    /\ conns' = [conns EXCEPT ![d] = Nobody]
    /\ count' = count - 1
    /\ UNCHANGED <<up, heard, registered, gate, probing, known, status, joined, restarts>>

\* releaseDeviceStatus: CompareAndDelete, with the gate kept for the write.
ReleaseDevice(c) ==
    LET d == DeviceOf[c] IN
    /\ gate[d] = Nobody /\ conns[d] = c
    /\ Step(c, "released", "offlining")
    /\ conns' = [conns EXCEPT ![d] = Nobody]
    /\ count' = count - 1
    /\ gate' = [gate EXCEPT ![d] = c]
    /\ UNCHANGED <<up, heard, registered, probing, known, status, joined, restarts>>

\* The write, which may fail and is then only logged; the gate is left.
WriteOffline(c) ==
    LET d == DeviceOf[c] IN
    /\ Step(c, "offlining", "gone")
    /\ Closed(c)
    /\ \/ d \in known /\ status' = [status EXCEPT ![d] = "offline"]
       \/ (d \notin known \/ DbFails) /\ UNCHANGED status
    /\ gate' = [gate EXCEPT ![d] = Nobody]
    /\ UNCHANGED <<heard, conns, count, probing, known, joined, restarts>>

-----------------------------------------------------------------------------
(* The process ends and starts again: app.go clears the online statuses of
   the default tenant before it serves. *)
Restart ==
    /\ restarts < MaxRestarts
    /\ restarts' = restarts + 1
    /\ phase' = [c \in Conns |-> IF phase[c] = "new" THEN "new" ELSE "gone"]
    /\ up' = [c \in Conns |-> FALSE]
    /\ heard' = [c \in Conns |-> NoMessage]
    /\ conns' = [d \in Devices |-> Nobody]
    /\ gate' = [d \in Devices |-> Nobody]
    /\ count' = 0 /\ probing' = {} /\ registered' = {}
    /\ status' = [d \in Devices |-> IF d \in OtherTenant THEN status[d] ELSE "offline"]
    /\ UNCHANGED <<known, joined>>

\* The goroutine that accepted a connection.
AcceptStep(c) ==
    \/ RegisterConn(c)
    \/ Upsert(c) \/ Register(c) \/ Heartbeat(c) \/ EndLoop(c)
    \/ SkipOffline(c) \/ ReleaseDevice(c) \/ WriteOffline(c)

ConnsNext ==
    \/ \E c \in Conns : Accept(c) \/ Lose(c) \/ Retire(c) \/ AcceptStep(c)
    \/ \E c \in Conns, msg \in {"register", "heartbeat"} : HandleControl(c, msg)
    \/ Restart

\* Both goroutines of a connection run on; arrivals, losses and messages need not.
ConnsFairness ==
    \A c \in Conns : WF_connVars(AcceptStep(c)) /\ WF_connVars(Retire(c))

ConnsSpec == ConnsInit /\ [][ConnsNext]_connVars /\ ConnsFairness

-----------------------------------------------------------------------------
(* Properties *)

\* A device whose registered connection is the one held for it is online in the
\* table: the offline write of an older connection never lands on top of the
\* registration of a newer one (releaseDeviceStatus and its gate).
ServedIsOnline ==
    \A d \in Devices : conns[d] \in registered => status[d] = "online"

\* A connection replaced by a newer one of its device is closed and torn down
\* (retire, then unregisterConn), whether or not its machine still answers.
ReplacedIsGone ==
    \A c \in Conns : (c \in joined /\ conns[DeviceOf[c]] # c) ~> (phase[c] = "gone")

Presence == INSTANCE DevicePresence WITH
    holder <- conns, spent <- joined, connected <- count

\* The registry implements the presence specification: newest wins, nobody comes
\* back, and the count is the number of devices held (registerConn and
\* releaseDeviceStatus).
PresenceSpec == Presence!PresenceSpec

\* app.go: "A status left online by a previous run is cleared before serving".
ClearedAtStart == [][Restart => \A d \in Devices : status'[d] = "offline"]_connVars
=============================================================================
