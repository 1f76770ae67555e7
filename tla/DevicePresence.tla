--------------------------- MODULE DevicePresence ---------------------------
(***************************************************************************)
(* What the agent server promises about presence, whatever its threads do: *)
(* the connection that commands for a device go to is the newest one, a    *)
(* connection that lost its device never gets it back, and the number of   *)
(* connected agents is the number of devices that have a connection.       *)
(***************************************************************************)
EXTENDS FiniteSets

CONSTANTS Devices, Conns, Nobody

VARIABLES
    holder,     \* the connection commands for a device go to, or Nobody
    spent,      \* connections that hold or have held a device
    connected   \* the number of connected agents

presenceVars == <<holder, spent, connected>>

Held(h) == {d \in Devices : h[d] # Nobody}

PresenceInit ==
    /\ holder = [d \in Devices |-> Nobody]
    /\ spent = {} /\ connected = 0

Take(d, c) ==
    /\ c \notin spent
    /\ holder' = [holder EXCEPT ![d] = c]
    /\ spent' = spent \cup {c}
    /\ connected' = Cardinality(Held(holder'))

\* One device's connection ends, or all of them with the server.
Drop(D) ==
    /\ holder' = [d \in Devices |-> IF d \in D THEN Nobody ELSE holder[d]]
    /\ connected' = Cardinality(Held(holder'))
    /\ UNCHANGED spent

PresenceNext ==
    \/ \E d \in Devices, c \in Conns : Take(d, c)
    \/ \E d \in Devices : Drop({d})
    \/ Drop(Devices)

PresenceSpec == PresenceInit /\ [][PresenceNext]_presenceVars
=============================================================================
