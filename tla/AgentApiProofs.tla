--------------------------- MODULE AgentApiProofs ---------------------------
(***************************************************************************)
(* The server's side of the agents, for any number of devices,             *)
(* connections, certificates, requests, prunes and restarts.  The registry *)
(* of connections: a served device is online, and the registry implements  *)
(* newest-wins presence.  Renewal of a device's certificate: the machine   *)
(* is never locked out of its own server, and a superseded certificate     *)
(* never comes back.                                                       *)
(***************************************************************************)
EXTENDS AgentConns, CertRenewal, FiniteSetTheorems, SequenceTheorems, TLAPS

-----------------------------------------------------------------------------
(* The registry of connections *)

\* A connection is held for its own device only.
Placed == \A d \in Devices : conns[d] # Nobody => DeviceOf[conns[d]] = d

\* A connection that has not been in the registry has nothing to show for it.
Fresh ==
    \A c \in Conns : phase[c] \in {"new", "admitted"} => c \notin joined /\ c \notin registered

\* While the gate of a device is kept across the offline write, nobody holds the
\* device, and the gate is the writer's.
Gated ==
    /\ \A d \in Devices : gate[d] # Nobody => conns[d] = Nobody
    /\ \A c \in Conns : phase[c] = "offlining" => gate[DeviceOf[c]] = c

Counted == count = Cardinality(Presence!Held(conns))

ConnsInv == ConnsTypeOK /\ Placed /\ Fresh /\ Gated /\ Counted /\ ServedIsOnline

-----------------------------------------------------------------------------
\* What a held device more or less makes of the count (registerConn,
\* releaseDeviceStatus).
LEMMA CountingHeld ==
    ASSUME conns \in [Devices -> Conns \cup {Nobody}], NEW d \in Devices
    PROVE  /\ IsFiniteSet(Presence!Held(conns)) /\ Cardinality(Presence!Held(conns)) \in Nat
           /\ \A c \in Conns :
                     Cardinality(Presence!Held([conns EXCEPT ![d] = c])) =
                        IF conns[d] = Nobody THEN Cardinality(Presence!Held(conns)) + 1
                                             ELSE Cardinality(Presence!Held(conns))
           /\ conns[d] # Nobody =>
                /\ Cardinality(Presence!Held([conns EXCEPT ![d] = Nobody])) =
                      Cardinality(Presence!Held(conns)) - 1
                /\ Cardinality(Presence!Held(conns)) - 1 \in Nat
<1> DEFINE H == Presence!Held(conns)
<1>1. IsFiniteSet(H) /\ Cardinality(H) \in Nat
  <2>1. H \in SUBSET Devices
    BY DEF Presence!Held
  <2> QED
    BY <2>1, ConnsAssumption, FS_Subset, FS_CardinalityType
<1>2. ASSUME NEW c \in Conns
      PROVE  Cardinality(Presence!Held([conns EXCEPT ![d] = c])) =
                IF conns[d] = Nobody THEN Cardinality(H) + 1 ELSE Cardinality(H)
  <2>1. Presence!Held([conns EXCEPT ![d] = c]) = H \cup {d}
    BY ConnsAssumption DEF Presence!Held
  <2>2. d \in H <=> conns[d] # Nobody
    BY DEF Presence!Held
  <2> QED
    BY <1>1, <2>1, <2>2, FS_AddElement
<1>3. ASSUME conns[d] # Nobody
      PROVE  /\ Cardinality(Presence!Held([conns EXCEPT ![d] = Nobody])) = Cardinality(H) - 1
             /\ Cardinality(H) - 1 \in Nat
  <2>1. Presence!Held([conns EXCEPT ![d] = Nobody]) = H \ {d}
    BY DEF Presence!Held
  <2>2. d \in H
    BY <1>3 DEF Presence!Held
  <2>3. IsFiniteSet(H \ {d}) /\ Cardinality(H \ {d}) = Cardinality(H) - 1
    BY <1>1, <2>2, FS_RemoveElement
  <2>4. Cardinality(H \ {d}) \in Nat
    BY <2>3, FS_CardinalityType
  <2> QED
    BY <2>1, <2>3, <2>4
<1> QED
    BY <1>1, <1>2, <1>3

\* The cardinality the presence specification speaks of is the usual one.
LEMMA SameCardinality == \A S : Presence!Cardinality(S) = Cardinality(S)
    BY Zenon DEF Presence!Cardinality, Cardinality, Presence!IsFiniteSet, IsFiniteSet

\* Every step keeps the types; the count needs its books.
LEMMA TypesKept ==
    ASSUME ConnsTypeOK, Counted, ConnsNext
    PROVE  ConnsTypeOK'
<1> USE ConnsAssumption DEF ConnsTypeOK, ConnPhases, NoMessage, Step
<1>1. ASSUME NEW c \in Conns, Accept(c) \/ Lose(c) \/ Retire(c)
      PROVE  ConnsTypeOK'
    BY <1>1 DEF Accept, Lose, Retire
<1>2. ASSUME NEW c \in Conns, RegisterConn(c)
      PROVE  ConnsTypeOK'
  <2>1. DeviceOf[c] \in Devices
    OBVIOUS
  <2>2. \/ conns[DeviceOf[c]] = Nobody /\ count' = count + 1 /\ probing' = probing
        \/ /\ conns[DeviceOf[c]] # Nobody
           /\ probing' = probing \cup {conns[DeviceOf[c]]} /\ count' = count
    BY <1>2, Zenon DEF RegisterConn
  <2>3. count' \in Nat
    BY <2>2
  <2>4. probing' \subseteq Conns
    <3>1. CASE probing' = probing
      BY <3>1
    <3>2. CASE conns[DeviceOf[c]] # Nobody /\ probing' = probing \cup {conns[DeviceOf[c]]}
      <4>1. conns[DeviceOf[c]] \in Conns
        BY <2>1, <3>2
      <4> QED
        BY <3>2, <4>1
    <3> QED
      BY <2>2, <3>1, <3>2
  <2> QED
    BY <1>2, <2>1, <2>3, <2>4 DEF RegisterConn
<1>3. ASSUME NEW c \in Conns, Upsert(c) \/ Register(c) \/ Heartbeat(c) \/ EndLoop(c)
      PROVE  ConnsTypeOK'
  <2>1. DeviceOf[c] \in Devices
    OBVIOUS
  <2>2. CASE Upsert(c)
    BY <2>1, <2>2 DEF Upsert
  <2>3. CASE Register(c)
    BY <2>1, <2>3 DEF Register
  <2>4. CASE Heartbeat(c)
    BY <2>1, <2>4 DEF Heartbeat
  <2>5. CASE EndLoop(c)
    BY <2>5 DEF EndLoop
  <2> QED
    BY <1>3, <2>2, <2>3, <2>4, <2>5
<1>4. ASSUME NEW c \in Conns, SkipOffline(c) \/ WriteOffline(c)
      PROVE  ConnsTypeOK'
  <2>1. CASE SkipOffline(c)
    BY <2>1 DEF SkipOffline, Closed
  <2>2. CASE WriteOffline(c)
    <3>1. status' = status \/ status' = [status EXCEPT ![DeviceOf[c]] = "offline"]
      BY <2>2, Zenon DEF WriteOffline
    <3>2. status' \in [Devices -> {"online", "offline"}]
      BY <3>1
    <3> QED
      BY <2>2, <3>2 DEF WriteOffline, Closed
  <2> QED
    BY <1>4, <2>1, <2>2
<1>5. ASSUME NEW c \in Conns, ReleaseDevice(c)
      PROVE  ConnsTypeOK'
  <2>1. DeviceOf[c] \in Devices /\ conns[DeviceOf[c]] # Nobody
    BY <1>5 DEF ReleaseDevice
  <2>2. count' \in Nat
    BY <1>5, <2>1, CountingHeld DEF ReleaseDevice, Counted
  <2> QED
    BY <1>5, <2>1, <2>2 DEF ReleaseDevice
<1>6. ASSUME NEW c \in Conns, NEW msg \in {"register", "heartbeat"}, HandleControl(c, msg)
      PROVE  ConnsTypeOK'
    BY <1>6 DEF HandleControl
<1>7. CASE Restart
    BY <1>7 DEF Restart
<1> QED
    BY <1>1, <1>2, <1>3, <1>4, <1>5, <1>6, <1>7 DEF ConnsNext, AcceptStep

\* The registry changes in three ways: a connection takes its device, gives it up,
\* or all are gone with the process.  Each keeps the count and the places.
LEMMA RegistryStep ==
    ASSUME ConnsTypeOK, Placed, Fresh, Counted, ConnsNext
    PROVE  /\ Placed' /\ Counted'
           /\ \/ \E c \in Conns : Presence!Take(DeviceOf[c], c)
              \/ \E d \in Devices : Presence!Drop({d})
              \/ Presence!Drop(Devices)
              \/ UNCHANGED <<conns, joined, count>>
<1> USE ConnsAssumption DEF ConnsTypeOK
<1>1. ASSUME NEW c \in Conns, RegisterConn(c)
      PROVE  Placed' /\ Counted' /\ Presence!Take(DeviceOf[c], c)
  <2> DEFINE d == DeviceOf[c]
  <2>1. d \in Devices /\ conns' = [conns EXCEPT ![d] = c] /\ joined' = joined \cup {c}
    BY <1>1 DEF RegisterConn
  <2>2. count' = IF conns[d] = Nobody THEN count + 1 ELSE count
    BY <1>1 DEF RegisterConn
  <2>3. Counted'
    BY <2>1, <2>2, CountingHeld DEF Counted
  <2>4. Placed'
    BY <2>1 DEF Placed
  <2>5. c \notin joined
    BY <1>1 DEF RegisterConn, Step, Fresh
  <2> QED
    BY <2>1, <2>3, <2>4, <2>5, SameCardinality DEF Presence!Take, Counted
<1>2. ASSUME NEW c \in Conns, ReleaseDevice(c)
      PROVE  Placed' /\ Counted' /\ Presence!Drop({DeviceOf[c]})
  <2> DEFINE d == DeviceOf[c]
  <2>1. /\ d \in Devices /\ conns[d] # Nobody /\ conns' = [conns EXCEPT ![d] = Nobody]
        /\ count' = count - 1 /\ joined' = joined
    BY <1>2 DEF ReleaseDevice
  <2>2. Counted'
    BY <2>1, CountingHeld DEF Counted
  <2>3. Placed'
    BY <2>1 DEF Placed
  <2>4. conns' = [e \in Devices |-> IF e \in {d} THEN Nobody ELSE conns[e]]
    BY <2>1
  <2> QED
    BY <2>1, <2>2, <2>3, <2>4, SameCardinality DEF Presence!Drop, Counted
<1>3. CASE Restart
  <2>1. conns' = [d \in Devices |-> Nobody] /\ count' = 0 /\ joined' = joined
    BY <1>3 DEF Restart
  <2>2. Presence!Held(conns') = {}
    BY <2>1 DEF Presence!Held
  <2>3. Counted'
    BY <2>1, <2>2, FS_EmptySet DEF Counted
  <2>4. Placed'
    BY <2>1 DEF Placed
  <2>5. conns' = [e \in Devices |-> IF e \in Devices THEN Nobody ELSE conns[e]]
    BY <2>1
  <2> QED
    BY <2>1, <2>3, <2>4, <2>5, SameCardinality DEF Presence!Drop, Counted
<1>4. CASE UNCHANGED <<conns, joined, count>>
    BY <1>4 DEF Placed, Counted, Presence!Held
<1>5. ASSUME NEW c \in Conns, \/ Accept(c) \/ Lose(c) \/ Retire(c) \/ Upsert(c) \/ Register(c)
                              \/ Heartbeat(c) \/ EndLoop(c) \/ SkipOffline(c) \/ WriteOffline(c)
                              \/ \E msg \in {"register", "heartbeat"} : HandleControl(c, msg)
      PROVE  UNCHANGED <<conns, joined, count>>
    BY <1>5 DEF Accept, Lose, Retire, Upsert, Register, Heartbeat, EndLoop, SkipOffline,
                WriteOffline, HandleControl
<1> QED
  <2>1. \A c \in Conns : DeviceOf[c] \in Devices
    OBVIOUS
  <2> QED
    BY <1>1, <1>2, <1>3, <1>4, <1>5, <2>1, Zenon DEF ConnsNext, AcceptStep

\* Who has been in the registry, and who is inside a gate.
LEMMA PhasesKept ==
    ASSUME ConnsTypeOK, Fresh, Gated, ConnsNext
    PROVE  Fresh' /\ Gated'
<1> USE ConnsAssumption DEF ConnsTypeOK, Step, Fresh, Gated
<1>1. ASSUME NEW c \in Conns, Accept(c) \/ Lose(c) \/ Retire(c)
      PROVE  Fresh' /\ Gated'
    BY <1>1 DEF Accept, Lose, Retire
<1>2. ASSUME NEW c \in Conns, RegisterConn(c)
      PROVE  Fresh' /\ Gated'
    BY <1>2 DEF RegisterConn
<1>3. ASSUME NEW c \in Conns, Upsert(c) \/ Register(c) \/ Heartbeat(c) \/ EndLoop(c)
      PROVE  Fresh' /\ Gated'
    BY <1>3 DEF Upsert, Register, Heartbeat, EndLoop
<1>4. ASSUME NEW c \in Conns, SkipOffline(c) \/ WriteOffline(c) \/ ReleaseDevice(c)
      PROVE  Fresh'
    BY <1>4 DEF SkipOffline, WriteOffline, ReleaseDevice, Closed
<1>5. ASSUME NEW c \in Conns, SkipOffline(c) \/ WriteOffline(c) \/ ReleaseDevice(c)
      PROVE  Gated'
  <2>1. CASE SkipOffline(c)
    BY <2>1 DEF SkipOffline
  <2>2. CASE WriteOffline(c)
    <3>1. gate[DeviceOf[c]] = c /\ gate' = [gate EXCEPT ![DeviceOf[c]] = Nobody]
      BY <2>2 DEF WriteOffline
    <3> QED
      BY <2>2, <3>1 DEF WriteOffline
  <2>3. CASE ReleaseDevice(c)
    BY <2>3 DEF ReleaseDevice
  <2> QED
    BY <1>5, <2>1, <2>2, <2>3
<1>6. ASSUME NEW c \in Conns, NEW msg \in {"register", "heartbeat"}, HandleControl(c, msg)
      PROVE  Fresh' /\ Gated'
    BY <1>6 DEF HandleControl
<1>7. CASE Restart
    BY <1>7 DEF Restart
<1> QED
    BY <1>1, <1>2, <1>3, <1>4, <1>5, <1>6, <1>7 DEF ConnsNext, AcceptStep

\* The offline write happens inside the gate, when nobody holds the device.
LEMMA OnlineKept ==
    ASSUME ConnsTypeOK, Placed, Fresh, Gated, ServedIsOnline, ConnsNext
    PROVE  ServedIsOnline'
<1> USE ConnsAssumption DEF ConnsTypeOK, Step, ServedIsOnline
<1>1. ASSUME NEW c \in Conns, \/ Accept(c) \/ Lose(c) \/ Retire(c) \/ EndLoop(c)
                              \/ \E msg \in {"register", "heartbeat"} : HandleControl(c, msg)
      PROVE  ServedIsOnline'
    BY <1>1 DEF Accept, Lose, Retire, EndLoop, HandleControl
<1>2. ASSUME NEW c \in Conns, RegisterConn(c)
      PROVE  ServedIsOnline'
    BY <1>2 DEF RegisterConn, Fresh
<1>3. ASSUME NEW c \in Conns, Upsert(c) \/ Heartbeat(c)
      PROVE  ServedIsOnline'
    BY <1>3 DEF Upsert, Heartbeat
<1>4. ASSUME NEW c \in Conns, Register(c)
      PROVE  ServedIsOnline'
    BY <1>4 DEF Register, Placed
<1>5. ASSUME NEW c \in Conns, SkipOffline(c) \/ ReleaseDevice(c)
      PROVE  ServedIsOnline'
  <2>1. status' = status /\ registered' \subseteq registered
    BY <1>5, Zenon DEF SkipOffline, ReleaseDevice, Closed
  <2>2. \A d \in Devices : conns'[d] \in {conns[d], Nobody}
    <3>1. conns' = conns \/ conns' = [conns EXCEPT ![DeviceOf[c]] = Nobody]
      BY <1>5, Zenon DEF SkipOffline, ReleaseDevice
    <3> QED
      BY <3>1
  <2> QED
    BY <2>1, <2>2
<1>6. ASSUME NEW c \in Conns, WriteOffline(c)
      PROVE  ServedIsOnline'
  <2>1. conns[DeviceOf[c]] = Nobody /\ conns' = conns
    BY <1>6 DEF WriteOffline, Gated
  <2>2. registered' = registered \ {c}
    BY <1>6 DEF WriteOffline, Closed
  <2>3. \A d \in Devices : d # DeviceOf[c] => status'[d] = status[d]
    BY <1>6 DEF WriteOffline
  <2> QED
    BY <2>1, <2>2, <2>3
<1>7. CASE Restart
    BY <1>7 DEF Restart
<1> QED
    BY <1>1, <1>2, <1>3, <1>4, <1>5, <1>6, <1>7 DEF ConnsNext, AcceptStep

LEMMA InitConns == ConnsInit => ConnsInv
<1> SUFFICES ASSUME ConnsInit PROVE ConnsInv
    OBVIOUS
<1> USE ConnsAssumption DEF ConnsInit
<1>1. ConnsTypeOK
    BY DEF ConnsTypeOK, ConnPhases, NoMessage
<1>2. Placed /\ Fresh /\ Gated /\ ServedIsOnline
    BY DEF Placed, Fresh, Gated, ServedIsOnline
<1>3. Presence!Held(conns) = {}
    BY DEF Presence!Held
<1> QED
    BY <1>1, <1>2, <1>3, FS_EmptySet DEF ConnsInv, Counted

LEMMA NextConns == ConnsInv /\ [ConnsNext]_connVars => ConnsInv'
<1> SUFFICES ASSUME ConnsInv, [ConnsNext]_connVars PROVE ConnsInv'
    OBVIOUS
<1>1. CASE ConnsNext
    BY <1>1, TypesKept, RegistryStep, PhasesKept, OnlineKept DEF ConnsInv
<1>2. CASE UNCHANGED connVars
    BY <1>2 DEF connVars, ConnsInv, ConnsTypeOK, Placed, Fresh, Gated, Counted,
                ServedIsOnline, Presence!Held
<1> QED
    BY <1>1, <1>2

LEMMA ConnsInvariant == ConnsSpec => []ConnsInv
    BY InitConns, NextConns, PTL DEF ConnsSpec

-----------------------------------------------------------------------------
\* The types hold in every reachable state; that the number of connected agents
\* never falls below zero (count, releaseDeviceStatus) needs the whole invariant.
THEOREM ConnsTypesHold == ConnsSpec => []ConnsTypeOK
<1>1. ConnsInv => ConnsTypeOK
    BY DEF ConnsInv
<1> QED
    BY <1>1, ConnsInvariant, PTL

\* A device whose registered connection is the one held for it is online in the
\* table, whatever older connections of it are being torn down meanwhile
\* (releaseDeviceStatus and its gate).
THEOREM ServedIsOnlineHolds == ConnsSpec => []ServedIsOnline
<1>1. ConnsInv => ServedIsOnline
    BY DEF ConnsInv
<1> QED
    BY <1>1, ConnsInvariant, PTL

\* The registry implements the presence specification: the newest connection holds
\* the device, one that lost it never gets it back, and the count is the number of
\* devices held (registerConn, releaseDeviceStatus).
THEOREM PresenceImplemented == ConnsSpec => PresenceSpec
<1>1. ConnsInit => Presence!PresenceInit
    BY DEF ConnsInit, Presence!PresenceInit
<1>2. ConnsInv /\ [ConnsNext]_connVars => [Presence!PresenceNext]_(Presence!presenceVars)
  <2> SUFFICES ASSUME ConnsInv, [ConnsNext]_connVars
               PROVE  [Presence!PresenceNext]_(Presence!presenceVars)
    OBVIOUS
  <2>1. CASE UNCHANGED connVars
    BY <2>1 DEF connVars, Presence!presenceVars
  <2>2. CASE ConnsNext
    <3>1. \A c \in Conns : DeviceOf[c] \in Devices
      BY ConnsAssumption
    <3> QED
      BY <2>2, <3>1, RegistryStep DEF ConnsInv, Presence!PresenceNext, Presence!presenceVars
  <2> QED
    BY <2>1, <2>2
<1> QED
    BY <1>1, <1>2, ConnsInvariant, PTL DEF ConnsSpec, PresenceSpec, Presence!PresenceSpec

-----------------------------------------------------------------------------
(* Renewal *)

AgentFrames ==
    [type : {"RenewCertificate"}]
        \cup [type : {"CertificateIssued"}, cert : Certs, key : Nat]
ServerFrames ==
    [type : {"CertificateSigningRequest"}, key : Nat] \cup [type : {"CertificateInstalled"}]

Types ==
    /\ rows \subseteq Certs /\ rowSeen \subseteq Certs /\ index \subseteq Certs
    /\ seen \subseteq Certs /\ writing \subseteq Certs /\ pruning \subseteq Certs
    /\ machine \in Certs /\ keys \in Nat /\ pending \in {0, keys} /\ buried \in Nat
    /\ stage \in [Links -> Stages]
    /\ cert \in [Links -> Certs \cup {0}] /\ issued \in [Links -> Certs \cup {0}]
    /\ asking \in [Links -> Nat]
    /\ toAgent \in [Links -> Seq(AgentFrames)] /\ toServer \in [Links -> Seq(ServerFrames)]

\* The machine's certificate is on both ledgers, and nothing later was ever seen,
\* so nothing from it on is pruned.
Current ==
    /\ machine \in rows \cap index
    /\ \A j \in seen \cup rowSeen \cup writing : j <= machine
    /\ \A c \in Links : cert[c] <= machine
    /\ \A k \in pruning : k < machine /\ k <= buried

Asks(c, i) == toServer[c][i].type = "CertificateSigningRequest"
Installs(c, i) == toServer[c][i].type = "CertificateInstalled"
Issues(c, i) == toAgent[c][i].type = "CertificateIssued"
Sent(c) == 1..Len(toServer[c])
Due(c) == 1..Len(toAgent[c])

\* The handler of a connection works on a request.
Working(c) == stage[c] \in {"checked", "signing", "recorded"}

\* Requests come in the order of their keys, and after the notices of what earlier
\* ones installed.
InOrder(c) ==
    \A i \in Sent(c) : Asks(c, i) =>
        /\ toServer[c][i].key \in 1..keys
        /\ \A j \in Sent(c) : i < j =>
             ~Installs(c, j) /\ (Asks(c, j) => toServer[c][i].key < toServer[c][j].key)

\* What the handler works on is older than what it has still to read, and what it
\* has answered is older than either.
Answered(c) ==
    /\ Working(c) =>
         /\ asking[c] \in 1..keys
         /\ \A i \in Sent(c) : Asks(c, i) => asking[c] < toServer[c][i].key
    /\ \A g \in Due(c) : Issues(c, g) =>
         /\ toAgent[c][g].key \in 1..keys
         /\ Working(c) => toAgent[c][g].key < asking[c]
         /\ \A i \in Sent(c) : Asks(c, i) => toAgent[c][g].key < toServer[c][i].key

\* A notice under way is about the certificate the connection has on record.
Noticed(c) ==
    \A i \in Sent(c) : Installs(c, i) =>
        /\ ~Working(c) /\ issued[c] <= machine
        /\ \A g \in Due(c) : Issues(c, g) => toAgent[c][g].key # pending

\* The answer to the outstanding request is a certificate of the ledger, no earlier
\* than the machine's own.
Outstanding(c) ==
    /\ \A g \in Due(c) : Issues(c, g) /\ toAgent[c][g].key = pending =>
         /\ toAgent[c][g].cert = issued[c]
         /\ issued[c] >= machine /\ issued[c] \in rows \cap index
    /\ stage[c] = "recorded" =>
         /\ issued[c] \in Certs
         /\ asking[c] = pending => issued[c] >= machine /\ issued[c] \in rows

Conversation(c) == InOrder(c) /\ Answered(c) /\ Noticed(c) /\ Outstanding(c)

RenewalInv == Types /\ Current /\ \A c \in Links : Conversation(c)

\* What the table says was seen is so in memory too, or is past the grace.
Remembered ==
    /\ \A j \in rowSeen \cup writing : j \in seen \/ j <= buried
    /\ dead \subseteq Certs /\ \A k \in dead : k <= buried \/ \E j \in rowSeen : j > k
    /\ \A k \in pruning : k <= buried

-----------------------------------------------------------------------------
(* The two queues of a connection *)

\* Reading takes the first frame and moves the others up.
LEMMA Reads ==
    ASSUME NEW S, NEW q \in Seq(S), q # <<>>
    PROVE  /\ Tail(q) \in Seq(S) /\ Len(Tail(q)) = Len(q) - 1 /\ Len(q) \in Nat /\ Len(q) >= 1
           /\ Head(q) = q[1] /\ Head(q) \in S
           /\ \A i \in 1..Len(Tail(q)) : Tail(q)[i] = q[i + 1] /\ i + 1 \in 1..Len(q)
    BY HeadTailProperties, LenProperties

\* Writing adds one at the end.
LEMMA Writes ==
    ASSUME NEW S, NEW q \in Seq(S), NEW m \in S
    PROVE  /\ Append(q, m) \in Seq(S) /\ Len(Append(q, m)) = Len(q) + 1 /\ Len(q) \in Nat
           /\ Append(q, m)[Len(q) + 1] = m
           /\ \A i \in 1..Len(q) : Append(q, m)[i] = q[i] /\ q[i] \in S
    BY AppendProperties, LenProperties, ElementOfSeq

\* A step elsewhere keeps what is said on a connection: the machine may meanwhile
\* have asked anew or given up on its request, and have moved on to a later
\* certificate; rows and entries may have come, or gone below the machine's own.
LEMMA Aside ==
    ASSUME Types, NEW c \in Links, Conversation(c),
           toServer'[c] = toServer[c], toAgent'[c] = toAgent[c],
           asking'[c] = asking[c], issued'[c] = issued[c],
           Working(c)' => Working(c), stage'[c] = "recorded" => stage[c] = "recorded",
           keys' \in Nat, keys' >= keys, machine' \in Nat,
           \/ pending' = pending /\ machine' = machine
           \/ (pending' = 0 \/ pending' > keys) /\ machine' >= machine,
           \A k \in Certs : k >= machine =>
               (k \in rows => k \in rows') /\ (k \in index => k \in index')
    PROVE  Conversation(c)'
<1> USE DEF Types, Sent, Due, Asks, Installs, Issues
<1>0. Len(toServer[c]) \in Nat /\ Len(toAgent[c]) \in Nat
    OBVIOUS
<1>1. InOrder(c)'
  <2> SUFFICES ASSUME NEW i \in 1..Len(toServer[c]),
                      toServer[c][i].type = "CertificateSigningRequest"
               PROVE  /\ toServer[c][i].key \in 1..keys'
                      /\ \A j \in 1..Len(toServer[c]) : i < j =>
                           /\ toServer[c][j].type # "CertificateInstalled"
                           /\ toServer[c][j].type = "CertificateSigningRequest" =>
                                toServer[c][i].key < toServer[c][j].key
    BY DEF InOrder
  <2>1. toServer[c][i].key \in 1..keys
    BY DEF Conversation, InOrder
  <2> QED
    BY <2>1 DEF Conversation, InOrder
<1>2. Answered(c)'
  <2>1. 1..keys \subseteq 1..keys'
    OBVIOUS
  <2> QED
    BY <2>1 DEF Conversation, Answered
<1>3. Noticed(c)'
  <2>1. \A g \in 1..Len(toAgent[c]) : toAgent[c][g].type = "CertificateIssued" =>
            toAgent[c][g].key \in 1..keys
    BY DEF Conversation, Answered
  <2>2. issued[c] <= machine => issued[c] <= machine'
    <3>1. issued[c] \in Nat /\ machine \in Nat
      BY RenewalAssumption DEF Certs
    <3> QED
      BY <3>1
  <2> QED
    BY <2>1, <2>2 DEF Conversation, Noticed
<1>4. Outstanding(c)'
  <2>1. \A g \in 1..Len(toAgent[c]) : toAgent[c][g].type = "CertificateIssued" =>
            toAgent[c][g].key \in 1..keys
    BY DEF Conversation, Answered
  <2>2. stage'[c] = "recorded" => asking[c] \in 1..keys
    BY DEF Conversation, Answered, Working
  <2>3. CASE pending' = pending /\ machine' = machine
    BY <2>3 DEF Conversation, Outstanding
  <2>4. CASE pending' = 0 \/ pending' > keys
    BY <2>1, <2>2, <2>4 DEF Conversation, Outstanding
  <2> QED
    BY <2>3, <2>4
<1> QED
    BY <1>1, <1>2, <1>3, <1>4 DEF Conversation

-----------------------------------------------------------------------------
(* Every step keeps the types *)

\* The steps of a connection that move neither frame nor request.
QuietStep(c) ==
    \/ \E k \in Certs : Admit(c, k)
    \/ MarkSeen(c) \/ CloseSuperseded(c) \/ Join(c) \/ Leave(c) \/ EnterFlight(c)

\* The steps of no connection that leave the rows alone.
UpkeepStep == (\E k \in Certs : PersistSeen(k)) \/ NextDay \/ Expire \/ ChoosePrune

LEMMA QuietTypes ==
    ASSUME Types, NEW c \in Links, QuietStep(c)
    PROVE  Types'
<1> USE RenewalAssumption DEF Types, StageFrom, Stages, ledgerVars, linkVars, machineVars, upkeepVars
<1>1. ASSUME NEW k \in Certs, Admit(c, k) PROVE Types'
    BY <1>1 DEF Admit
<1>2. CASE MarkSeen(c)
  <2>1. \/ seen' = seen /\ writing' = writing
        \/ /\ cert[c] \in index
           /\ seen' = seen \cup {cert[c]} /\ writing' = writing \cup {cert[c]}
    BY <1>2, Zenon DEF MarkSeen
  <2>2. seen' \subseteq Certs /\ writing' \subseteq Certs
    BY <2>1
  <2> QED
    BY <1>2, <2>2 DEF MarkSeen
<1>3. CASE CloseSuperseded(c)
    BY <1>3 DEF CloseSuperseded
<1>4. CASE Join(c) \/ Leave(c)
    BY <1>4 DEF Join, Leave
<1>5. CASE EnterFlight(c)
    BY <1>5 DEF EnterFlight
<1> QED
    BY <1>1, <1>2, <1>3, <1>4, <1>5 DEF QuietStep

LEMMA UpkeepTypes ==
    ASSUME Types, UpkeepStep \/ Prune \/ Reboot
    PROVE  Types'
<1> USE RenewalAssumption DEF Types, Stages, ledgerVars, linkVars, machineVars, upkeepVars
<1>1. ASSUME NEW k \in Certs, PersistSeen(k) PROVE Types'
    BY <1>1 DEF PersistSeen
<1>2. CASE NextDay \/ Expire
    BY <1>2 DEF NextDay, Expire
<1>3. CASE ChoosePrune
    BY <1>3 DEF ChoosePrune
<1>4. CASE Prune
  <2>1. PICK gone \in SUBSET pruning :
           /\ rows' = rows \ gone /\ rowSeen' = rowSeen \ gone
           /\ \/ index' = index \ gone /\ seen' = seen \ gone
              \/ index' = index /\ seen' = seen
    BY <1>4, Zenon DEF Prune
  <2> QED
    BY <1>4, <2>1 DEF Prune
<1>5. CASE Reboot
  <2>1. /\ toAgent' \in [Links -> Seq(AgentFrames)]
        /\ toServer' \in [Links -> Seq(ServerFrames)]
    BY <1>5 DEF Reboot
  <2> QED
    BY <1>5, <2>1 DEF Reboot
<1> QED
    BY <1>1, <1>2, <1>3, <1>4, <1>5 DEF UpkeepStep

\* The frames of the two sides are what they should be.
LEMMA FrameTypes ==
    ASSUME Types, NEW c \in Links
    PROVE  /\ [type |-> "RenewCertificate"] \in AgentFrames
           /\ [type |-> "CertificateInstalled"] \in ServerFrames
           /\ \A k \in Nat : [type |-> "CertificateSigningRequest", key |-> k] \in ServerFrames
           /\ \A k \in Certs : [type |-> "CertificateIssued", cert |-> k, key |-> asking[c]]
                                    \in AgentFrames
           /\ \A m \in AgentFrames : m.type = "CertificateIssued" => m.cert \in Certs /\ m.key \in Nat
           /\ \A m \in ServerFrames : m.type = "CertificateSigningRequest" => m.key \in Nat
    BY DEF Types, AgentFrames, ServerFrames

LEMMA RenewTypes ==
    ASSUME Types, NEW c \in Links, Outstanding(c),
           \/ OfferRenewal(c) \/ CheckRequest(c) \/ RecordRow(c) \/ IndexAndSend(c)
           \/ HandleInstalled(c) \/ AgentRequests(c) \/ AgentInstalls(c)
    PROVE  Types'
<1> USE RenewalAssumption DEF Types, StageFrom, Stages, ledgerVars, linkVars, machineVars, upkeepVars
<1>1. CASE OfferRenewal(c)
  <2>1. toAgent' = [toAgent EXCEPT ![c] = Append(toAgent[c], [type |-> "RenewCertificate"])]
    BY <1>1 DEF OfferRenewal
  <2>2. toAgent' \in [Links -> Seq(AgentFrames)]
    BY <2>1, FrameTypes, Writes
  <2> QED
    BY <1>1, <2>2 DEF OfferRenewal
<1>2. CASE CheckRequest(c)
  <2>1. /\ toServer[c] # <<>> /\ toServer' = [toServer EXCEPT ![c] = Tail(toServer[c])]
        /\ Head(toServer[c]).type = "CertificateSigningRequest"
    BY <1>2 DEF CheckRequest
  <2>2. toServer' \in [Links -> Seq(ServerFrames)] /\ Head(toServer[c]) \in ServerFrames
    BY <2>1, Reads
  <2>3. Head(toServer[c]).key \in Nat
    BY <2>1, <2>2, FrameTypes
  <2> QED
    BY <1>2, <2>2, <2>3 DEF CheckRequest
<1>3. CASE RecordRow(c)
    BY <1>3 DEF RecordRow
<1>4. CASE IndexAndSend(c)
  <2>1. issued[c] \in Certs
    BY <1>4 DEF IndexAndSend, Outstanding
  <2>2. toAgent' = [toAgent EXCEPT ![c] = Append(toAgent[c],
            [type |-> "CertificateIssued", cert |-> issued[c], key |-> asking[c]])]
    BY <1>4 DEF IndexAndSend
  <2>3. toAgent' \in [Links -> Seq(AgentFrames)]
    BY <2>1, <2>2, FrameTypes, Writes
  <2> QED
    BY <1>4, <2>1, <2>3 DEF IndexAndSend
<1>5. CASE HandleInstalled(c)
  <2>1. toServer[c] # <<>> /\ toServer' = [toServer EXCEPT ![c] = Tail(toServer[c])]
    BY <1>5 DEF HandleInstalled
  <2>2. toServer' \in [Links -> Seq(ServerFrames)]
    BY <2>1, Reads
  <2>3. \/ /\ rowSeen' = rowSeen /\ seen' = seen /\ cert' = cert /\ stage' = stage
        \/ /\ rowSeen' \subseteq rowSeen \cup rows /\ seen' \subseteq seen \cup index
           /\ cert' = [cert EXCEPT ![c] = issued[c]] /\ stage' = [stage EXCEPT ![c] = "installed"]
    <3>1. CASE issued[c] = 0
      BY <1>5, <3>1 DEF HandleInstalled
    <3>2. CASE issued[c] # 0
      BY <1>5, <3>2 DEF HandleInstalled
    <3> QED
      BY <3>1, <3>2
  <2>4. rowSeen' \subseteq Certs /\ seen' \subseteq Certs
    BY <2>3
  <2>5. rows' = rows /\ index' = index /\ writing' = writing
    BY <1>5 DEF HandleInstalled
  <2> QED
    BY <1>5, <2>2, <2>3, <2>4, <2>5 DEF HandleInstalled
<1>6. CASE AgentRequests(c)
  <2>1. /\ toAgent[c] # <<>> /\ toAgent' = [toAgent EXCEPT ![c] = Tail(toAgent[c])]
        /\ keys' = keys + 1
        /\ toServer' = [toServer EXCEPT ![c] = Append(toServer[c],
             [type |-> "CertificateSigningRequest", key |-> keys + 1])]
    BY <1>6 DEF AgentRequests, AgentReads
  <2>2. toAgent' \in [Links -> Seq(AgentFrames)]
    BY <2>1, Reads
  <2>3. toServer' \in [Links -> Seq(ServerFrames)]
    BY <2>1, FrameTypes, Writes
  <2> QED
    BY <1>6, <2>1, <2>2, <2>3 DEF AgentRequests
<1>7. CASE AgentInstalls(c)
  <2>1. /\ toAgent[c] # <<>> /\ toAgent' = [toAgent EXCEPT ![c] = Tail(toAgent[c])]
        /\ Head(toAgent[c]).type = "CertificateIssued"
    BY <1>7 DEF AgentInstalls, AgentReads
  <2>2. toAgent' \in [Links -> Seq(AgentFrames)] /\ Head(toAgent[c]) \in AgentFrames
    BY <2>1, Reads
  <2>3. Head(toAgent[c]).cert \in Certs
    BY <2>1, <2>2, FrameTypes
  <2>4. \/ toServer' = toServer /\ machine' = machine
        \/ /\ toServer' = [toServer EXCEPT ![c] =
                 Append(toServer[c], [type |-> "CertificateInstalled"])]
           /\ machine' = Head(toAgent[c]).cert
    BY <1>7 DEF AgentInstalls
  <2>5. toServer' \in [Links -> Seq(ServerFrames)]
    <3>1. Append(toServer[c], [type |-> "CertificateInstalled"]) \in Seq(ServerFrames)
      BY FrameTypes, Writes
    <3> QED
      BY <2>4, <3>1
  <2> QED
    BY <1>7, <2>2, <2>3, <2>4, <2>5 DEF AgentInstalls
<1> QED
    BY <1>1, <1>2, <1>3, <1>4, <1>5, <1>6, <1>7

-----------------------------------------------------------------------------
(* Every step keeps the machine current *)

\* Steps that move neither the machine nor what was seen.
LEMMA CurrentKept ==
    ASSUME Types, Current, NEW c \in Links,
           \/ QuietStep(c) \/ OfferRenewal(c) \/ CheckRequest(c) \/ RecordRow(c)
           \/ IndexAndSend(c) \/ AgentRequests(c)
    PROVE  Current' /\ machine' = machine
<1> USE RenewalAssumption DEF Types, Current, Certs, StageFrom, ledgerVars, linkVars, machineVars, upkeepVars
<1>1. ASSUME NEW k \in Certs, Admit(c, k) PROVE Current' /\ machine' = machine
    BY <1>1 DEF Admit
<1>2. CASE MarkSeen(c)
  <2>1. \/ seen' = seen /\ writing' = writing
        \/ seen' = seen \cup {cert[c]} /\ writing' = writing \cup {cert[c]}
    BY <1>2, Zenon DEF MarkSeen
  <2> QED
    BY <1>2, <2>1 DEF MarkSeen
<1>3. CASE CloseSuperseded(c) \/ Join(c) \/ Leave(c) \/ EnterFlight(c)
    BY <1>3 DEF CloseSuperseded, Join, Leave, EnterFlight
<1>4. CASE OfferRenewal(c) \/ CheckRequest(c) \/ AgentRequests(c)
    BY <1>4 DEF OfferRenewal, CheckRequest, AgentRequests
<1>5. CASE RecordRow(c)
  <2>1. rows \subseteq rows'
    BY <1>5 DEF RecordRow
  <2> QED
    BY <1>5, <2>1 DEF RecordRow
<1>6. CASE IndexAndSend(c)
    BY <1>6 DEF IndexAndSend
<1> QED
    BY <1>1, <1>2, <1>3, <1>4, <1>5, <1>6 DEF QuietStep

\* Upkeep and restarts: what is pruned is earlier than the machine's own.
LEMMA CurrentUpkept ==
    ASSUME Types, Current, UpkeepStep \/ Prune \/ Reboot
    PROVE  Current' /\ machine' = machine
<1> USE RenewalAssumption DEF Types, Current, Certs, ledgerVars, linkVars, machineVars, upkeepVars
<1>1. ASSUME NEW k \in Certs, PersistSeen(k) PROVE Current' /\ machine' = machine
    BY <1>1 DEF PersistSeen
<1>2. CASE NextDay \/ Expire
  <2>1. /\ rows' = rows /\ index' = index /\ seen' = seen /\ rowSeen' = rowSeen
        /\ writing' = writing /\ cert' = cert /\ pruning' = pruning /\ machine' = machine
    BY <1>2 DEF NextDay, Expire
  <2>2. buried' \in Nat /\ buried' >= buried
    BY <1>2 DEF NextDay, Expire
  <2>3. \A k \in pruning : k \in Nat /\ k <= buried
    OBVIOUS
  <2>4. \A k \in pruning : k <= buried'
    BY <2>2, <2>3
  <2> QED
    BY <2>1, <2>4
<1>3. CASE ChoosePrune
    BY <1>3 DEF ChoosePrune, Superseded
<1>4. CASE Prune
  <2>1. PICK gone \in SUBSET pruning :
           /\ rows' = rows \ gone /\ rowSeen' = rowSeen \ gone
           /\ \/ index' = index \ gone /\ seen' = seen \ gone
              \/ index' = index /\ seen' = seen
    BY <1>4, Zenon DEF Prune
  <2>2. machine \notin gone
    BY <2>1
  <2> QED
    BY <1>4, <2>1, <2>2 DEF Prune
<1>5. CASE Reboot
    BY <1>5 DEF Reboot
<1> QED
    BY <1>1, <1>2, <1>3, <1>4, <1>5 DEF UpkeepStep

\* A notice makes the certificate it is about current; the machine has it already.
LEMMA CurrentNoticed ==
    ASSUME Types, Current, NEW c \in Links, Conversation(c), HandleInstalled(c)
    PROVE  Current' /\ machine' = machine /\ issued[c] <= machine
<1> USE RenewalAssumption DEF Types, Certs, machineVars, upkeepVars, ledgerVars
<1>1. 1 \in Sent(c) /\ Installs(c, 1)
  <2>1. toServer[c] # <<>> /\ Head(toServer[c]).type = "CertificateInstalled"
    BY DEF HandleInstalled
  <2> QED
    BY <2>1, Reads DEF Sent, Installs
<1>2. issued[c] <= machine
    BY <1>1 DEF Conversation, Noticed
<1>3. /\ rows' = rows /\ index' = index /\ writing' = writing /\ machine' = machine
      /\ pruning' = pruning /\ buried' = buried
    BY DEF HandleInstalled
<1>4. \/ seen' = seen /\ rowSeen' = rowSeen /\ cert' = cert
      \/ /\ cert' = [cert EXCEPT ![c] = issued[c]]
         /\ seen' \subseteq seen \cup {issued[c]} /\ rowSeen' \subseteq rowSeen \cup {issued[c]}
  <2>1. CASE issued[c] = 0
    BY <2>1 DEF HandleInstalled
  <2>2. CASE issued[c] # 0
    BY <2>2 DEF HandleInstalled
  <2> QED
    BY <2>1, <2>2
<1> QED
    BY <1>2, <1>3, <1>4 DEF Current

\* What the machine installs is no earlier than what it had.
LEMMA CurrentInstalled ==
    ASSUME Types, Current, NEW c \in Links, Conversation(c), AgentInstalls(c)
    PROVE  /\ Current' /\ machine' >= machine /\ pending' = 0
           /\ \/ toServer' = toServer /\ machine' = machine
              \/ /\ pending = keys /\ keys # 0 /\ toAgent[c][1].key = keys
                 /\ machine' = issued[c]
                 /\ toServer' = [toServer EXCEPT ![c] =
                       Append(toServer[c], [type |-> "CertificateInstalled"])]
<1> USE RenewalAssumption DEF Types, Certs, machineVars, upkeepVars, ledgerVars
<1>1. /\ toAgent[c] # <<>> /\ Head(toAgent[c]).type = "CertificateIssued"
      /\ pending' = 0
      /\ \/ toServer' = toServer /\ machine' = machine
         \/ /\ Head(toAgent[c]).key = pending
            /\ machine' = Head(toAgent[c]).cert
            /\ toServer' = [toServer EXCEPT ![c] =
                  Append(toServer[c], [type |-> "CertificateInstalled"])]
    BY DEF AgentInstalls, AgentReads
<1>2. 1 \in Due(c) /\ Issues(c, 1) /\ Head(toAgent[c]) = toAgent[c][1]
    BY <1>1, Reads DEF Due, Issues
<1>3. toAgent[c][1].key \in 1..keys
    BY <1>2 DEF Conversation, Answered
<1>4. toAgent[c][1].key = pending =>
         /\ toAgent[c][1].cert = issued[c] /\ issued[c] >= machine
         /\ issued[c] \in rows \cap index
    BY <1>2 DEF Conversation, Outstanding
<1>5. /\ rows' = rows /\ index' = index /\ seen' = seen /\ rowSeen' = rowSeen
      /\ writing' = writing /\ cert' = cert /\ pruning' = pruning /\ buried' = buried
    BY DEF AgentInstalls
<1>6. machine' >= machine /\ machine' \in rows \cap index
    BY <1>1, <1>2, <1>4 DEF Current
<1>7. Current'
  <2>1. \A k \in Nat : (k <= machine => k <= machine') /\ (k < machine => k < machine')
    BY <1>6
  <2>2. Certs \cup {0} \subseteq Nat
    OBVIOUS
  <2> QED
    BY <1>5, <1>6, <2>1, <2>2 DEF Current
<1> QED
    BY <1>1, <1>2, <1>3, <1>4, <1>6, <1>7

-----------------------------------------------------------------------------
(* Every step keeps the conversations *)

LEMMA QuietConversation ==
    ASSUME RenewalInv, NEW c \in Links, QuietStep(c), NEW o \in Links
    PROVE  Conversation(o)'
<1> USE DEF StageFrom, ledgerVars, linkVars, machineVars, upkeepVars
<1>1. /\ toServer' = toServer /\ toAgent' = toAgent /\ asking' = asking /\ issued' = issued
      /\ keys' = keys /\ pending' = pending /\ machine' = machine
      /\ rows' = rows /\ index' = index
    BY DEF QuietStep, Admit, MarkSeen, CloseSuperseded, Join, Leave, EnterFlight
<1> DEFINE Moves == /\ \/ stage' = stage
                       \/ \E to \in Stages \ {"checked", "recorded"} :
                            stage' = [stage EXCEPT ![c] = to]
                    /\ stage'[c] = "signing" => stage[c] \in {"signing", "checked"}
<1>2. Moves
    <2> USE DEF RenewalInv, Types, Stages
    <2>1. ASSUME NEW k \in Certs, Admit(c, k) PROVE Moves
      BY <2>1 DEF Admit
    <2>2. CASE MarkSeen(c) \/ CloseSuperseded(c)
      BY <2>2 DEF MarkSeen, CloseSuperseded
    <2>3. CASE Join(c) \/ Leave(c)
      BY <2>3 DEF Join, Leave
    <2>4. CASE EnterFlight(c)
      BY <2>4 DEF EnterFlight
    <2> QED
      BY <2>1, <2>2, <2>3, <2>4 DEF QuietStep
<1>3. (Working(o)' => Working(o)) /\ (stage'[o] = "recorded" => stage[o] = "recorded")
    BY <1>2 DEF Working, RenewalInv, Types, Stages
<1>4. /\ Types /\ Conversation(o) /\ keys \in Nat /\ keys >= keys /\ machine \in Nat
      /\ toServer'[o] = toServer[o] /\ toAgent'[o] = toAgent[o]
      /\ asking'[o] = asking[o] /\ issued'[o] = issued[o]
    BY <1>1, RenewalAssumption DEF RenewalInv, Types, Certs
<1> QED
    BY <1>1, <1>3, <1>4, Aside

LEMMA UpkeepConversation ==
    ASSUME RenewalInv, UpkeepStep \/ Prune, NEW o \in Links
    PROVE  Conversation(o)'
<1> USE DEF ledgerVars, linkVars, machineVars, upkeepVars
<1>1. /\ toServer' = toServer /\ toAgent' = toAgent /\ asking' = asking /\ issued' = issued
      /\ keys' = keys /\ pending' = pending /\ machine' = machine /\ stage' = stage
    BY DEF UpkeepStep, PersistSeen, NextDay, Expire, ChoosePrune, Prune
<1>2. rows \ pruning \subseteq rows' /\ index \ pruning \subseteq index'
  <2>1. CASE UpkeepStep
    BY <2>1 DEF UpkeepStep, PersistSeen, NextDay, Expire, ChoosePrune
  <2>2. CASE Prune
    BY <2>2 DEF Prune
  <2> QED
    BY <2>1, <2>2
<1>3. \A k \in Certs : k >= machine => k \notin pruning
    BY RenewalAssumption DEF RenewalInv, Types, Current, Certs
<1>4. Working(o)' => Working(o)
    BY <1>1 DEF Working
<1>5. \A k \in Certs : k >= machine =>
         (k \in rows => k \in rows') /\ (k \in index => k \in index')
    BY <1>2, <1>3
<1>6. keys' \in Nat /\ keys' >= keys /\ machine' \in Nat
    BY <1>1, RenewalAssumption DEF RenewalInv, Types, Certs
<1> QED
    BY <1>1, <1>4, <1>5, <1>6, Aside DEF RenewalInv

LEMMA RebootConversation ==
    ASSUME RenewalInv, Reboot, NEW o \in Links
    PROVE  Conversation(o)'
<1>1. /\ toServer'[o] = <<>> /\ toAgent'[o] = <<>> /\ stage'[o] \in {"idle", "live"}
    BY DEF Reboot
<1>2. Sent(o)' = {} /\ Due(o)' = {}
    BY <1>1 DEF Sent, Due
<1> QED
    BY <1>1, <1>2 DEF Conversation, InOrder, Answered, Noticed, Outstanding, Working

\* The other connections, whoever of them takes a step.
LEMMA OthersConversation ==
    ASSUME RenewalInv, NEW c \in Links, NEW o \in Links \ {c},
           \/ OfferRenewal(c) \/ CheckRequest(c) \/ RecordRow(c) \/ IndexAndSend(c)
           \/ HandleInstalled(c) \/ AgentRequests(c) \/ AgentInstalls(c)
    PROVE  Conversation(o)'
<1> USE DEF StageFrom, ledgerVars, linkVars, machineVars, upkeepVars
<1>1. Types /\ Current /\ Conversation(c) /\ Conversation(o)
    BY DEF RenewalInv
<1>2. /\ toServer'[o] = toServer[o] /\ toAgent'[o] = toAgent[o]
      /\ asking'[o] = asking[o] /\ issued'[o] = issued[o] /\ stage'[o] = stage[o]
  <2> USE <1>1 DEF Types
  <2>1. CASE OfferRenewal(c) \/ CheckRequest(c)
    BY <2>1 DEF OfferRenewal, CheckRequest
  <2>2. CASE RecordRow(c) \/ IndexAndSend(c)
    BY <2>2 DEF RecordRow, IndexAndSend
  <2>3. CASE HandleInstalled(c)
    BY <2>3 DEF HandleInstalled
  <2>4. CASE AgentRequests(c) \/ AgentInstalls(c)
    BY <2>4 DEF AgentRequests, AgentInstalls, AgentReads
  <2> QED
    BY <2>1, <2>2, <2>3, <2>4
<1>3. rows \subseteq rows' /\ index \subseteq index'
    BY DEF OfferRenewal, CheckRequest, RecordRow, IndexAndSend, HandleInstalled, AgentRequests,
           AgentInstalls
<1>4. (Working(o)' => Working(o)) /\ (stage'[o] = "recorded" => stage[o] = "recorded")
    BY <1>2 DEF Working
<1>5. CASE AgentInstalls(c)
  <2>1. /\ machine' >= machine /\ pending' = 0 /\ keys' = keys /\ machine' \in Nat
    <3>1. machine' >= machine /\ pending' = 0
      BY <1>1, <1>5, CurrentInstalled
    <3>2. keys' = keys
      BY <1>5 DEF AgentInstalls
    <3>3. Types'
      BY <1>1, <1>5, RenewTypes DEF Conversation
    <3> QED
      BY <3>1, <3>2, <3>3, RenewalAssumption DEF Types, Certs
  <2>2. keys' \in Nat /\ keys' >= keys
    BY <1>1, <2>1 DEF Types
  <2> QED
    BY <1>1, <1>2, <1>3, <1>4, <2>1, <2>2, Aside
<1>6. CASE AgentRequests(c)
  <2>1. keys' = keys + 1 /\ pending' = keys + 1 /\ machine' = machine /\ machine \in Nat
    BY <1>1, <1>6, RenewalAssumption DEF AgentRequests, Types, Certs
  <2>2. /\ keys' \in Nat /\ keys' >= keys /\ pending' > keys /\ machine' >= machine
        /\ machine' \in Nat
    BY <1>1, <2>1 DEF Types
  <2> QED
    BY <1>1, <1>2, <1>3, <1>4, <2>2, Aside
<1>7. CASE \/ OfferRenewal(c) \/ CheckRequest(c) \/ RecordRow(c) \/ IndexAndSend(c)
           \/ HandleInstalled(c)
  <2>1. keys' = keys /\ pending' = pending /\ machine' = machine
    BY <1>7 DEF OfferRenewal, CheckRequest, RecordRow, IndexAndSend, HandleInstalled
  <2>2. keys \in Nat /\ machine \in Nat
    BY <1>1, RenewalAssumption DEF Types, Certs
  <2> QED
    BY <1>1, <1>2, <1>3, <1>4, <2>1, <2>2, Aside
<1> QED
    BY <1>5, <1>6, <1>7

\* A new offer says nothing about certificates; a refused request, an entry or an
\* insert that failed ends the work on a request.
LEMMA OfferConversation ==
    ASSUME RenewalInv, NEW c \in Links, OfferRenewal(c)
    PROVE  Conversation(c)'
<1>1. Types /\ Conversation(c)
    BY DEF RenewalInv
<1>2. /\ toServer' = toServer /\ asking' = asking /\ issued' = issued /\ stage' = stage
      /\ keys' = keys /\ pending' = pending /\ machine' = machine /\ rows' = rows /\ index' = index
      /\ toAgent' = [toAgent EXCEPT ![c] = Append(toAgent[c], [type |-> "RenewCertificate"])]
    BY DEF OfferRenewal, ledgerVars, machineVars
<1>3. Len(toAgent'[c]) = Len(toAgent[c]) + 1 /\ Len(toAgent[c]) \in Nat
    BY <1>1, <1>2, FrameTypes, Writes DEF Types
<1>4. toAgent'[c][Len(toAgent[c]) + 1] = [type |-> "RenewCertificate"]
    BY <1>1, <1>2, FrameTypes, Writes DEF Types
<1>5. \A g \in 1..Len(toAgent[c]) : toAgent'[c][g] = toAgent[c][g]
    BY <1>1, <1>2, FrameTypes, Writes DEF Types
<1>6. \A g \in Due(c)' : Issues(c, g)' => g \in Due(c) /\ Issues(c, g) /\ toAgent'[c][g] = toAgent[c][g]
  <2> SUFFICES ASSUME NEW g \in 1..Len(toAgent'[c]), toAgent'[c][g].type = "CertificateIssued"
               PROVE  g \in 1..Len(toAgent[c])
    BY <1>5 DEF Due, Issues
  <2>1. g # Len(toAgent[c]) + 1
    BY <1>4
  <2> QED
    BY <1>3, <2>1
<1>7. InOrder(c)'
    BY <1>1, <1>2 DEF Conversation, InOrder, Sent, Asks, Installs
<1>8. Answered(c)'
    BY <1>1, <1>2, <1>6 DEF Conversation, Answered, Working, Sent, Asks
<1>9. Noticed(c)'
    BY <1>1, <1>2, <1>6 DEF Conversation, Noticed, Working, Sent, Installs
<1>10. Outstanding(c)'
    BY <1>1, <1>2, <1>6 DEF Conversation, Outstanding
<1> QED
    BY <1>7, <1>8, <1>9, <1>10 DEF Conversation

\* A request is read: no notice is behind it, and later requests have later keys.
LEMMA CheckConversation ==
    ASSUME RenewalInv, NEW c \in Links, CheckRequest(c)
    PROVE  Conversation(c)'
<1>1. Types /\ Conversation(c)
    BY DEF RenewalInv
<1>2. /\ toAgent' = toAgent /\ issued' = issued
      /\ keys' = keys /\ pending' = pending /\ machine' = machine /\ rows' = rows /\ index' = index
      /\ toServer[c] # <<>> /\ Head(toServer[c]).type = "CertificateSigningRequest"
      /\ toServer' = [toServer EXCEPT ![c] = Tail(toServer[c])]
    BY DEF CheckRequest, ledgerVars, machineVars
<1>3. /\ 1 \in Sent(c) /\ Asks(c, 1) /\ Head(toServer[c]) = toServer[c][1]
      /\ \A i \in Sent(c)' : i + 1 \in Sent(c) /\ 1 < i + 1 /\ toServer'[c][i] = toServer[c][i + 1]
    BY <1>1, <1>2, Reads DEF Types, Sent, Asks
<1>4. \A i \in Sent(c)' : i \in Nat
    BY DEF Sent
<1>5. stage[c] = "live" /\ stage'[c] # "recorded"
    BY <1>1 DEF CheckRequest, Reading, StageFrom, Types
<1>6. Working(c)' => asking'[c] = toServer[c][1].key
    BY <1>1, <1>3, <1>5 DEF CheckRequest, Working, Types
<1>7. InOrder(c)'
  <2> SUFFICES ASSUME NEW i \in Sent(c)', Asks(c, i)'
               PROVE  /\ toServer'[c][i].key \in 1..keys
                      /\ \A j \in Sent(c)' : i < j =>
                            /\ ~Installs(c, j)'
                            /\ Asks(c, j)' => toServer'[c][i].key < toServer'[c][j].key
    BY <1>2 DEF InOrder
  <2>1. i + 1 \in Sent(c) /\ Asks(c, i + 1) /\ toServer'[c][i] = toServer[c][i + 1]
    BY <1>3 DEF Asks
  <2>2. \A j \in Sent(c)' : i < j => i + 1 < j + 1
    BY <1>4
  <2> QED
    BY <1>1, <1>3, <2>1, <2>2 DEF Conversation, InOrder, Asks, Installs
<1>8. \A i \in Sent(c)' : ~Installs(c, i)' /\ (Asks(c, i)' => toServer[c][1].key < toServer'[c][i].key)
    BY <1>1, <1>3 DEF Conversation, InOrder, Asks, Installs
<1>9. Answered(c)'
  <2>1. toServer[c][1].key \in 1..keys
    BY <1>1, <1>3 DEF Conversation, InOrder
  <2>2. \A g \in Due(c) : Issues(c, g) =>
           /\ toAgent[c][g].key \in 1..keys
           /\ toAgent[c][g].key < toServer[c][1].key
           /\ \A i \in Sent(c)' : Asks(c, i)' => toAgent[c][g].key < toServer'[c][i].key
    BY <1>1, <1>3 DEF Conversation, Answered, Asks
  <2> QED
    BY <1>2, <1>6, <1>8, <2>1, <2>2 DEF Answered, Due, Issues
<1>10. Noticed(c)'
    BY <1>8 DEF Noticed
<1>11. Outstanding(c)'
    BY <1>1, <1>2, <1>5 DEF Conversation, Outstanding, Due, Issues
<1> QED
    BY <1>7, <1>9, <1>10, <1>11 DEF Conversation

\* A row is inserted, later than the machine's own.
LEMMA RecordConversation ==
    ASSUME RenewalInv, NEW c \in Links, RecordRow(c)
    PROVE  Conversation(c)'
<1> USE RenewalAssumption DEF Certs
<1>1. Types /\ Conversation(c) /\ machine \in rows
    BY DEF RenewalInv, Current
<1>2. /\ toAgent' = toAgent /\ toServer' = toServer /\ asking' = asking /\ index' = index
      /\ keys' = keys /\ pending' = pending /\ machine' = machine /\ stage[c] = "signing"
    BY DEF RecordRow, machineVars, StageFrom
<1>3. CASE issued' = issued /\ rows' = rows /\ stage' = [stage EXCEPT ![c] = "live"]
  <2>1. (Working(c)' => Working(c)) /\ stage'[c] # "recorded"
    BY <1>1, <1>3 DEF Working, Types
  <2> QED
    BY <1>1, <1>2, <1>3, <2>1, Aside DEF Types
<1>4. ASSUME NEW k \in Certs, \A j \in rows : j < k, rows' = rows \cup {k},
             issued' = [issued EXCEPT ![c] = k], stage' = [stage EXCEPT ![c] = "recorded"]
      PROVE  Conversation(c)'
  <2>1. issued'[c] = k /\ machine < k /\ stage'[c] = "recorded"
    BY <1>1, <1>4 DEF Types
  <2>2. Working(c) /\ Working(c)'
    BY <1>2, <2>1 DEF Working
  <2>3. \A g \in Due(c) : Issues(c, g) => toAgent[c][g].key # pending
    BY <1>1, <2>2 DEF Conversation, Answered, Types
  <2>4. \A i \in Sent(c) : ~Installs(c, i)
    BY <1>1, <2>2 DEF Conversation, Noticed
  <2>5. InOrder(c)' /\ Answered(c)'
    BY <1>1, <1>2, <2>2 DEF Conversation, InOrder, Answered, Sent, Due, Asks, Installs, Issues
  <2>6. Noticed(c)'
    BY <1>2, <2>4 DEF Noticed, Sent, Installs
  <2>7. Outstanding(c)'
    <3>1. issued'[c] >= machine /\ issued'[c] \in rows' /\ issued'[c] \in Certs
      BY <1>1, <1>4, <2>1 DEF Types
    <3> QED
      BY <1>2, <2>3, <3>1 DEF Outstanding, Due, Issues
  <2> QED
    BY <2>5, <2>6, <2>7 DEF Conversation
<1> QED
    BY <1>3, <1>4 DEF RecordRow, StageFrom

\* The answer is sent: the certificate is on both ledgers by then.
LEMMA SendConversation ==
    ASSUME RenewalInv, NEW c \in Links, IndexAndSend(c)
    PROVE  Conversation(c)'
<1> DEFINE m == [type |-> "CertificateIssued", cert |-> issued[c], key |-> asking[c]]
<1>1. Types /\ Conversation(c) /\ issued[c] \in Certs
    BY DEF RenewalInv, Conversation, Outstanding, IndexAndSend, StageFrom
<1>2. /\ toServer' = toServer /\ asking' = asking /\ issued' = issued /\ rows' = rows
      /\ keys' = keys /\ pending' = pending /\ machine' = machine
      /\ index' = index \cup {issued[c]} /\ stage[c] = "recorded" /\ stage'[c] = "live"
      /\ toAgent' = [toAgent EXCEPT ![c] = Append(toAgent[c], m)]
    BY <1>1 DEF IndexAndSend, machineVars, StageFrom, Types
<1>3. m \in AgentFrames /\ m.type = "CertificateIssued" /\ m.cert = issued[c] /\ m.key = asking[c]
    BY <1>1, FrameTypes
<1> HIDE DEF m
<1>4. /\ Len(toAgent'[c]) = Len(toAgent[c]) + 1 /\ Len(toAgent[c]) \in Nat
      /\ toAgent'[c][Len(toAgent[c]) + 1] = m
      /\ \A g \in 1..Len(toAgent[c]) : toAgent'[c][g] = toAgent[c][g]
    BY <1>1, <1>2, <1>3, Writes DEF Types
<1>5. \A g \in Due(c)' : toAgent'[c][g] = m \/ (g \in Due(c) /\ toAgent'[c][g] = toAgent[c][g])
    BY <1>4 DEF Due
<1>6. Working(c) /\ ~Working(c)'
    BY <1>2 DEF Working
<1>7. InOrder(c)'
    BY <1>1, <1>2 DEF Conversation, InOrder, Sent, Asks, Installs
<1>8. Answered(c)'
  <2> SUFFICES ASSUME NEW g \in Due(c)', Issues(c, g)'
               PROVE  /\ toAgent'[c][g].key \in 1..keys
                      /\ \A i \in Sent(c) : Asks(c, i) => toAgent'[c][g].key < toServer[c][i].key
    BY <1>2, <1>6 DEF Answered, Sent, Asks
  <2>1. CASE toAgent'[c][g] = m
    BY <1>1, <1>3, <1>6, <2>1 DEF Conversation, Answered
  <2>2. CASE g \in Due(c) /\ toAgent'[c][g] = toAgent[c][g]
    BY <1>1, <2>2 DEF Conversation, Answered, Issues
  <2> QED
    BY <1>5, <2>1, <2>2
<1>9. Noticed(c)'
    BY <1>1, <1>2, <1>6 DEF Conversation, Noticed, Sent, Installs
<1>10. Outstanding(c)'
  <2> SUFFICES ASSUME NEW g \in Due(c)', Issues(c, g)', toAgent'[c][g].key = pending
               PROVE  /\ toAgent'[c][g].cert = issued[c]
                      /\ issued[c] >= machine /\ issued[c] \in rows \cap index'
    BY <1>2 DEF Outstanding
  <2>1. CASE toAgent'[c][g] = m
    BY <1>1, <1>2, <1>3, <2>1 DEF Conversation, Outstanding
  <2>2. CASE g \in Due(c) /\ toAgent'[c][g] = toAgent[c][g]
    BY <1>1, <1>2, <2>2 DEF Conversation, Outstanding, Issues
  <2> QED
    BY <1>5, <2>1, <2>2
<1> QED
    BY <1>7, <1>8, <1>9, <1>10 DEF Conversation

\* A notice is read: what is left in the queue behind it stays in order.
LEMMA NoticeConversation ==
    ASSUME RenewalInv, NEW c \in Links, HandleInstalled(c)
    PROVE  Conversation(c)'
<1>1. Types /\ Conversation(c)
    BY DEF RenewalInv
<1>2. /\ toAgent' = toAgent /\ issued' = [issued EXCEPT ![c] = 0]
      /\ keys' = keys /\ pending' = pending /\ machine' = machine /\ rows' = rows /\ index' = index
      /\ toServer[c] # <<>> /\ Head(toServer[c]).type = "CertificateInstalled"
      /\ toServer' = [toServer EXCEPT ![c] = Tail(toServer[c])] /\ stage[c] = "live"
    BY DEF HandleInstalled, ledgerVars, machineVars, Reading
<1>3. stage'[c] \in {"live", "installed"}
  <2>1. stage' = stage \/ stage' = [stage EXCEPT ![c] = "installed"]
    BY Zenon DEF HandleInstalled
  <2> QED
    BY <1>1, <1>2, <2>1 DEF Types
<1>4. /\ 1 \in Sent(c) /\ Installs(c, 1)
      /\ \A i \in Sent(c)' : i + 1 \in Sent(c) /\ i \in Nat /\ toServer'[c][i] = toServer[c][i + 1]
    BY <1>1, <1>2, Reads DEF Types, Sent, Installs
<1>5. issued'[c] = 0 /\ issued'[c] <= machine
    BY <1>1, <1>2, RenewalAssumption DEF Types, Certs
<1>6. \A g \in Due(c) : Issues(c, g) => toAgent[c][g].key # pending
    BY <1>1, <1>4 DEF Conversation, Noticed
<1>7. ~Working(c)' /\ stage'[c] # "recorded"
    BY <1>3 DEF Working
<1>8. InOrder(c)'
  <2> SUFFICES ASSUME NEW i \in Sent(c)', Asks(c, i)'
               PROVE  /\ toServer'[c][i].key \in 1..keys
                      /\ \A j \in Sent(c)' : i < j =>
                            /\ ~Installs(c, j)'
                            /\ Asks(c, j)' => toServer'[c][i].key < toServer'[c][j].key
    BY <1>2 DEF InOrder
  <2>1. i + 1 \in Sent(c) /\ Asks(c, i + 1) /\ toServer'[c][i] = toServer[c][i + 1]
    BY <1>4 DEF Asks
  <2>2. \A j \in Sent(c)' : i < j => i + 1 < j + 1
    BY <1>4
  <2> QED
    BY <1>1, <1>4, <2>1, <2>2 DEF Conversation, InOrder, Asks, Installs
<1>9. Answered(c)'
  <2>1. \A g \in Due(c) : Issues(c, g) =>
           /\ toAgent[c][g].key \in 1..keys
           /\ \A i \in Sent(c)' : Asks(c, i)' => toAgent[c][g].key < toServer'[c][i].key
    BY <1>1, <1>4 DEF Conversation, Answered, Asks
  <2> QED
    BY <1>2, <1>7, <2>1 DEF Answered, Due, Issues
<1>10. Noticed(c)' /\ Outstanding(c)'
    BY <1>2, <1>5, <1>6, <1>7 DEF Noticed, Outstanding, Due, Issues
<1> QED
    BY <1>8, <1>9, <1>10 DEF Conversation

\* The machine asks with a key later than any on the way.
LEMMA AskConversation ==
    ASSUME RenewalInv, NEW c \in Links, AgentRequests(c)
    PROVE  Conversation(c)'
<1> DEFINE m == [type |-> "CertificateSigningRequest", key |-> keys + 1]
<1>1. Types /\ Conversation(c)
    BY DEF RenewalInv
<1>2. /\ issued' = issued /\ asking' = asking /\ stage' = stage
      /\ keys' = keys + 1 /\ pending' = keys + 1 /\ machine' = machine
      /\ toAgent[c] # <<>> /\ toAgent' = [toAgent EXCEPT ![c] = Tail(toAgent[c])]
      /\ toServer' = [toServer EXCEPT ![c] = Append(toServer[c], m)]
    BY DEF AgentRequests, AgentReads
<1>3. m \in ServerFrames /\ m.type = "CertificateSigningRequest" /\ m.key = keys + 1 /\ keys \in Nat
    BY <1>1, FrameTypes DEF Types
<1> HIDE DEF m
<1>4. /\ Len(toServer'[c]) = Len(toServer[c]) + 1 /\ Len(toServer[c]) \in Nat
      /\ toServer'[c][Len(toServer[c]) + 1] = m
      /\ \A i \in 1..Len(toServer[c]) : toServer'[c][i] = toServer[c][i]
    BY <1>1, <1>2, <1>3, Writes DEF Types
<1>5. \A i \in Sent(c)' :
         \/ toServer'[c][i] = m /\ i = Len(toServer[c]) + 1
         \/ i \in Sent(c) /\ toServer'[c][i] = toServer[c][i]
    BY <1>4 DEF Sent
<1>6. \A g \in Due(c)' : g + 1 \in Due(c) /\ toAgent'[c][g] = toAgent[c][g + 1]
    BY <1>1, <1>2, Reads DEF Types, Due
<1>7. \A g \in Due(c)' : Issues(c, g)' => toAgent'[c][g].key \in 1..keys /\ toAgent'[c][g].key # keys + 1
    BY <1>1, <1>3, <1>6 DEF Conversation, Answered, Issues
<1>8. InOrder(c)'
  <2> SUFFICES ASSUME NEW i \in Sent(c)', Asks(c, i)'
               PROVE  /\ toServer'[c][i].key \in 1..(keys + 1)
                      /\ \A j \in Sent(c)' : i < j =>
                            /\ ~Installs(c, j)'
                            /\ Asks(c, j)' => toServer'[c][i].key < toServer'[c][j].key
    BY <1>2 DEF InOrder
  <2>1. CASE toServer'[c][i] = m /\ i = Len(toServer[c]) + 1
    <3>1. \A j \in Sent(c)' : ~(i < j)
      BY <1>4, <2>1 DEF Sent
    <3> QED
      BY <1>3, <2>1, <3>1
  <2>2. CASE i \in Sent(c) /\ toServer'[c][i] = toServer[c][i]
    <3>1. /\ toServer[c][i].key \in 1..keys
          /\ \A j \in Sent(c) : i < j =>
               ~Installs(c, j) /\ (Asks(c, j) => toServer[c][i].key < toServer[c][j].key)
      BY <1>1, <2>2 DEF Conversation, InOrder, Asks
    <3>2. toServer[c][i].key \in 1..(keys + 1) /\ toServer[c][i].key < keys + 1
      BY <1>3, <3>1
    <3> QED
      BY <1>3, <1>5, <2>2, <3>1, <3>2 DEF Asks, Installs
  <2> QED
    BY <1>5, <2>1, <2>2
<1>9. Answered(c)'
  <2>1. 1..keys \subseteq 1..(keys + 1) /\ \A k \in 1..keys : k < keys + 1
    BY <1>3
  <2>2. Working(c)' => /\ asking'[c] \in 1..(keys + 1)
                       /\ \A i \in Sent(c)' : Asks(c, i)' => asking'[c] < toServer'[c][i].key
    BY <1>1, <1>2, <1>3, <1>5, <2>1 DEF Conversation, Answered, Working, Asks
  <2>3. ASSUME NEW g \in Due(c)', Issues(c, g)'
        PROVE  /\ toAgent'[c][g].key \in 1..(keys + 1)
               /\ Working(c)' => toAgent'[c][g].key < asking'[c]
               /\ \A i \in Sent(c)' : Asks(c, i)' => toAgent'[c][g].key < toServer'[c][i].key
    <3>1. g + 1 \in Due(c) /\ Issues(c, g + 1) /\ toAgent'[c][g] = toAgent[c][g + 1]
      BY <1>6, <2>3 DEF Issues
    <3>2. /\ toAgent[c][g + 1].key \in 1..keys
          /\ Working(c) => toAgent[c][g + 1].key < asking[c]
          /\ \A i \in Sent(c) : Asks(c, i) => toAgent[c][g + 1].key < toServer[c][i].key
      BY <1>1, <3>1 DEF Conversation, Answered
    <3> QED
      BY <1>2, <1>3, <1>5, <2>1, <3>1, <3>2 DEF Working, Asks
  <2> QED
    BY <1>2, <2>2, <2>3 DEF Answered
<1>10. Noticed(c)'
    BY <1>1, <1>2, <1>3, <1>5, <1>7 DEF Conversation, Noticed, Installs, Working
<1>11. Outstanding(c)'
  <2>1. stage'[c] = "recorded" => issued'[c] \in Certs /\ asking'[c] # keys + 1
    BY <1>1, <1>2, <1>3 DEF Conversation, Outstanding, Answered, Working
  <2> QED
    BY <1>2, <1>7, <2>1 DEF Outstanding
<1> QED
    BY <1>8, <1>9, <1>10, <1>11 DEF Conversation

\* The machine installs the answer to its last request, so none is under way.
LEMMA InstallConversation ==
    ASSUME RenewalInv, NEW c \in Links, AgentInstalls(c)
    PROVE  Conversation(c)'
<1> DEFINE m == [type |-> "CertificateInstalled"]
<1>1. Types /\ Conversation(c) /\ Current
    BY DEF RenewalInv
<1>2. /\ issued' = issued /\ asking' = asking /\ stage' = stage /\ keys' = keys
      /\ toAgent[c] # <<>> /\ toAgent' = [toAgent EXCEPT ![c] = Tail(toAgent[c])]
      /\ Head(toAgent[c]).type = "CertificateIssued"
    BY DEF AgentInstalls, AgentReads
<1>3. /\ pending' = 0 /\ machine' >= machine
      /\ \/ toServer' = toServer /\ machine' = machine
         \/ /\ pending = keys /\ keys # 0 /\ toAgent[c][1].key = keys
            /\ machine' = issued[c]
            /\ toServer' = [toServer EXCEPT ![c] = Append(toServer[c], m)]
    BY <1>1, CurrentInstalled
<1>4. \A g \in Due(c)' : g + 1 \in Due(c) /\ toAgent'[c][g] = toAgent[c][g + 1]
    BY <1>1, <1>2, Reads DEF Types, Due
<1>5. 1 \in Due(c) /\ Issues(c, 1)
    BY <1>1, <1>2, Reads DEF Types, Due, Issues
<1>6. \A g \in Due(c)' : Issues(c, g)' => toAgent'[c][g].key \in 1..keys /\ toAgent'[c][g].key # 0
    BY <1>1, <1>4 DEF Conversation, Answered, Issues
<1>7. Outstanding(c)'
  <2>1. stage'[c] = "recorded" => issued'[c] \in Certs /\ asking'[c] # 0
    BY <1>1, <1>2 DEF Conversation, Outstanding, Answered, Working
  <2> QED
    BY <1>3, <1>6, <2>1 DEF Outstanding
<1>8. CASE toServer' = toServer /\ machine' = machine
  <2>1. InOrder(c)'
    BY <1>1, <1>2, <1>8 DEF Conversation, InOrder, Sent, Asks, Installs
  <2>2. Answered(c)'
    <3>1. ASSUME NEW g \in Due(c)', Issues(c, g)'
          PROVE  /\ toAgent'[c][g].key \in 1..keys
                 /\ Working(c) => toAgent'[c][g].key < asking[c]
                 /\ \A i \in Sent(c) : Asks(c, i) => toAgent'[c][g].key < toServer[c][i].key
      <4>1. g + 1 \in Due(c) /\ Issues(c, g + 1) /\ toAgent'[c][g] = toAgent[c][g + 1]
        BY <1>4, <3>1 DEF Issues
      <4> QED
        BY <1>1, <4>1 DEF Conversation, Answered
    <3> QED
      BY <1>1, <1>2, <1>8, <3>1 DEF Conversation, Answered, Working, Sent, Asks
  <2>3. Noticed(c)'
    BY <1>1, <1>2, <1>3, <1>6, <1>8 DEF Conversation, Noticed, Sent, Installs, Working
  <2> QED
    BY <1>7, <2>1, <2>2, <2>3 DEF Conversation
<1>9. CASE /\ toAgent[c][1].key = keys /\ machine' = issued[c]
           /\ toServer' = [toServer EXCEPT ![c] = Append(toServer[c], m)]
  <2>1. m \in ServerFrames /\ m.type = "CertificateInstalled"
    BY <1>1, FrameTypes
  <2> HIDE DEF m
  <2>2. /\ Len(toServer'[c]) = Len(toServer[c]) + 1 /\ Len(toServer[c]) \in Nat
        /\ toServer'[c][Len(toServer[c]) + 1] = m
        /\ \A i \in 1..Len(toServer[c]) : toServer'[c][i] = toServer[c][i]
    BY <1>1, <1>9, <2>1, Writes DEF Types
  <2>3. \A i \in Sent(c)' : toServer'[c][i] = m \/ (i \in Sent(c) /\ toServer'[c][i] = toServer[c][i])
    BY <2>2 DEF Sent
  <2>4. ~Working(c) /\ \A i \in Sent(c) : ~Asks(c, i)
    <3>1. keys \in Nat /\ asking[c] \in Nat
      BY <1>1 DEF Types
    <3>2. Working(c) => keys < asking[c] /\ asking[c] \in 1..keys
      BY <1>1, <1>5, <1>9 DEF Conversation, Answered
    <3>3. \A i \in Sent(c) : Asks(c, i) =>
             keys < toServer[c][i].key /\ toServer[c][i].key \in 1..keys
      BY <1>1, <1>5, <1>9 DEF Conversation, Answered, InOrder
    <3> QED
      BY <3>1, <3>2, <3>3
  <2>5. ~Working(c)' /\ \A i \in Sent(c)' : ~Asks(c, i)'
    BY <1>2, <2>1, <2>3, <2>4 DEF Working, Asks
  <2>6. InOrder(c)' /\ Answered(c)'
    BY <1>2, <1>6, <2>5 DEF InOrder, Answered
  <2>7. issued'[c] <= machine'
    <3>1. issued[c] \in Nat
      BY <1>1, RenewalAssumption DEF Types, Certs
    <3> QED
      BY <1>2, <1>9, <3>1
  <2>8. Noticed(c)'
    BY <1>3, <1>6, <2>5, <2>7 DEF Noticed
  <2> QED
    BY <1>7, <2>6, <2>8 DEF Conversation
<1> QED
    BY <1>3, <1>8, <1>9

-----------------------------------------------------------------------------
(* The invariant *)

LEMMA InitRenewal == RenewalInit => RenewalInv
<1> SUFFICES ASSUME RenewalInit PROVE RenewalInv
    OBVIOUS
<1> USE RenewalAssumption DEF RenewalInit
<1>1. Types
  <2>1. toAgent \in [Links -> Seq(AgentFrames)] /\ toServer \in [Links -> Seq(ServerFrames)]
    OBVIOUS
  <2> QED
    BY <2>1 DEF Types, Certs, Stages
<1>2. Current
    BY DEF Current
<1>3. ASSUME NEW c \in Links PROVE Conversation(c)
  <2>1. Sent(c) = {} /\ Due(c) = {}
    BY DEF Sent, Due
  <2> QED
    BY <2>1 DEF Conversation, InOrder, Answered, Noticed, Outstanding, Working
<1> QED
    BY <1>1, <1>2, <1>3 DEF RenewalInv

LEMMA NextRenewal == RenewalInv /\ [RenewalNext]_renewalVars => RenewalInv'
<1> SUFFICES ASSUME RenewalInv, [RenewalNext]_renewalVars PROVE RenewalInv'
    OBVIOUS
<1>1. Types /\ Current /\ \A c \in Links : Conversation(c) /\ Outstanding(c)
    BY DEF RenewalInv, Conversation
<1>2. ASSUME NEW c \in Links, QuietStep(c) PROVE RenewalInv'
    BY <1>1, <1>2, QuietTypes, CurrentKept, QuietConversation DEF RenewalInv
<1>3. CASE UpkeepStep \/ Prune \/ Reboot
    BY <1>1, <1>3, UpkeepTypes, CurrentUpkept, UpkeepConversation, RebootConversation DEF RenewalInv
<1>4. ASSUME NEW c \in Links,
             \/ OfferRenewal(c) \/ CheckRequest(c) \/ RecordRow(c) \/ IndexAndSend(c)
             \/ HandleInstalled(c) \/ AgentRequests(c) \/ AgentInstalls(c)
      PROVE  RenewalInv'
  <2>1. Types'
    BY <1>1, <1>4, RenewTypes
  <2>2. Current'
    BY <1>1, <1>4, CurrentKept, CurrentNoticed, CurrentInstalled
  <2>3. Conversation(c)'
    BY <1>4, OfferConversation, CheckConversation, RecordConversation, SendConversation,
       NoticeConversation, AskConversation, InstallConversation
  <2>4. \A o \in Links \ {c} : Conversation(o)'
    BY <1>4, OthersConversation
  <2>5. (\A o \in Links : Conversation(o))'
    BY <2>3, <2>4
  <2> QED
    BY <2>1, <2>2, <2>5 DEF RenewalInv
<1>5. CASE UNCHANGED renewalVars
    BY <1>5 DEF renewalVars, ledgerVars, linkVars, machineVars, upkeepVars, RenewalInv, Types, Current,
                Conversation, InOrder, Answered, Noticed, Outstanding, Working, Sent, Due, Asks,
                Installs, Issues
<1> QED
    BY <1>2, <1>3, <1>4, <1>5 DEF RenewalNext, QuietStep, UpkeepStep

LEMMA RenewalInvariant == RenewalSpec => []RenewalInv
    BY InitRenewal, NextRenewal, PTL DEF RenewalSpec

\* What the table remembers, step by step.
LEMMA NextRemembered == Types /\ Types' /\ Remembered /\ [RenewalNext]_renewalVars => Remembered'
<1> SUFFICES ASSUME Types, Types', Remembered, [RenewalNext]_renewalVars PROVE Remembered'
    OBVIOUS
<1> USE RenewalAssumption DEF Types, Certs, Remembered, ledgerVars, linkVars, machineVars, upkeepVars
<1>1. CASE \/ \E c \in Links : \/ \E k \in Certs : Admit(c, k)
                              \/ CloseSuperseded(c) \/ Join(c) \/ Leave(c)
                              \/ OfferRenewal(c) \/ CheckRequest(c) \/ EnterFlight(c)
                              \/ RecordRow(c) \/ IndexAndSend(c) \/ AgentRequests(c)
                              \/ AgentInstalls(c)
           \/ NextDay \/ UNCHANGED renewalVars
    <2>1. /\ rowSeen' = rowSeen /\ writing' = writing /\ seen' = seen /\ buried' = buried
          /\ dead' = dead /\ pruning' = pruning
      BY <1>1 DEF Admit, CloseSuperseded, Join, Leave, OfferRenewal, CheckRequest, EnterFlight,
                  RecordRow, IndexAndSend, AgentRequests, AgentInstalls, NextDay, renewalVars
    <2> QED
      BY <2>1
<1>2. ASSUME NEW c \in Links, MarkSeen(c) PROVE Remembered'
  <2>1. /\ \/ seen' = seen /\ writing' = writing
           \/ seen' = seen \cup {cert[c]} /\ writing' = writing \cup {cert[c]}
        /\ rowSeen' = rowSeen /\ buried' = buried /\ dead' = dead /\ pruning' = pruning
    BY <1>2, Zenon DEF MarkSeen
  <2> QED
    BY <2>1
<1>3. ASSUME NEW k \in Certs, PersistSeen(k) PROVE Remembered'
  <2>1. /\ k \in writing /\ writing' = writing \ {k}
        /\ seen' = seen /\ buried' = buried /\ pruning' = pruning
        /\ \/ /\ rowSeen' = rowSeen \cup ({k} \cap rows)
              /\ dead' = dead \cup {i \in Certs : \E j \in {k} \cap rows : j > i}
           \/ rowSeen' = rowSeen /\ dead' = dead
    BY <1>3 DEF PersistSeen, DeadBy
  <2>2. \A i \in dead' : i \in dead \/ \E j \in rowSeen' : j > i
    BY <2>1
  <2> QED
    BY <2>1, <2>2
<1>4. ASSUME NEW c \in Links, HandleInstalled(c) PROVE Remembered'
  <2>1. /\ writing' = writing /\ buried' = buried /\ pruning' = pruning /\ seen \subseteq seen'
        /\ \/ /\ rowSeen' = rowSeen \cup ({issued[c]} \cap rows)
              /\ dead' = dead \cup {i \in Certs : \E j \in {issued[c]} \cap rows : j > i}
              /\ issued[c] \in seen'
           \/ rowSeen' = rowSeen /\ dead' = dead
    <3>1. CASE issued[c] = 0
      BY <1>4, <3>1 DEF HandleInstalled
    <3>2. CASE issued[c] # 0
      BY <1>4, <3>2 DEF HandleInstalled, DeadBy
    <3> QED
      BY <3>1, <3>2
  <2>2. \A i \in dead' : i \in dead \/ \E j \in rowSeen' : j > i
    BY <2>1
  <2> QED
    BY <2>1, <2>2
<1>5. CASE Expire
  <2>1. /\ rowSeen' = rowSeen /\ writing' = writing /\ seen' = seen /\ buried' = buried + 1
        /\ dead' = dead /\ pruning' = pruning
    BY <1>5 DEF Expire
  <2>2. \A k \in Certs : k <= buried => k <= buried'
    BY <2>1
  <2> QED
    BY <2>1, <2>2
<1>6. CASE ChoosePrune
    BY <1>6 DEF ChoosePrune
<1>7. CASE Prune
  <2>1. PICK gone \in SUBSET pruning :
           /\ rowSeen' = rowSeen \ gone /\ seen \ gone \subseteq seen'
           /\ pruning' = {} /\ writing' = writing /\ dead' = dead /\ buried' = buried
    BY <1>7 DEF Prune
  <2>2. \A j \in gone : j <= buried
    BY <2>1
  <2>3. \A k \in dead : k <= buried \/ \E j \in rowSeen' : j > k
    BY <2>1, <2>2
  <2> QED
    BY <2>1, <2>2, <2>3
<1>8. CASE Reboot
    BY <1>8 DEF Reboot
<1> QED
    BY <1>1, <1>2, <1>3, <1>4, <1>5, <1>6, <1>7, <1>8 DEF RenewalNext

-----------------------------------------------------------------------------
\* The machine can always connect with the certificate it has saved until that is
\* past the grace, whatever was lost, failed, pruned or restarted meanwhile
\* (Record, Send, MarkInstalled, Prune, Warm).
THEOREM NeverLockedOutHolds == RenewalSpec => []NeverLockedOut
<1>1. RenewalInv => NeverLockedOut
  <2> SUFFICES ASSUME RenewalInv PROVE NeverLockedOut
    OBVIOUS
  <2>1. \A j \in seen : ~(j > machine)
    BY RenewalAssumption DEF RenewalInv, Current, Types, Certs
  <2> QED
    BY <2>1 DEF RenewalInv, Current, NeverLockedOut, Admissible, Superseded
<1> QED
    BY <1>1, RenewalInvariant, PTL

\* A certificate that a later one superseded on disk is refused from then on,
\* across prunes and restarts (supersededLocked, Prune, Warm).
THEOREM NoComebackHolds == RenewalSpec => []NoComeback
<1>1. RenewalInit => Remembered
    BY DEF RenewalInit, Remembered
<1>2. Types /\ Remembered => NoComeback
    BY RenewalAssumption DEF Types, Certs, Remembered, NoComeback, Admissible, Superseded
<1>3. RenewalInv => Types
    BY DEF RenewalInv
<1> QED
    BY <1>1, <1>2, <1>3, RenewalInvariant, NextRemembered, PTL DEF RenewalSpec
=============================================================================
