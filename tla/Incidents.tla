------------------------------ MODULE Incidents -----------------------------
(***************************************************************************)
(* One rule's alerts and the rooms they fold into, for one customer and    *)
(* within the hour its budget is counted over (alerts: postgres.go,        *)
(* postgres_fold.go, postgres_lifecycle.go).  The store runs concurrent    *)
(* transactions under Postgres' READ COMMITTED: a statement sees what was  *)
(* committed when it began, plus its own writes; a row that another        *)
(* transaction has locked is waited for and then re-checked, while         *)
(* subqueries keep the first snapshot.                                     *)
(***************************************************************************)
EXTENDS Naturals, FiniteSets, FiniteSetsExt

CONSTANTS
    Devices,
    Txs,          \* transactions under way at once, each for a connection's slot
    Wide,         \* whether the rule groups over the customer, or by device
    Maintained,   \* devices in maintenance
    Window,       \* Grouping.Window
    Ceiling,      \* Limits.OrganizationHourly
    MaxTime,      \* bound: the clock
    MaxRooms,     \* bound: rooms ever opened
    MaxErased     \* bound: devices erased

ASSUME IncidentsAssumption ==
    /\ Wide \in BOOLEAN /\ Maintained \subseteq Devices
    /\ IsFiniteSet(Txs) /\ "none" \notin Txs
    /\ {Window, Ceiling, MaxTime, MaxRooms, MaxErased} \subseteq Nat \ {0}

Times == 0..MaxTime
Rooms == 1..MaxRooms
Unfiled == 0
Everyone == "everyone"

VARIABLES
    now,
    alerts,     \* stored alerts: device, time, severity, room
    room,       \* rooms: key, status, first and last seen, the two counts, and when
                \* it was closed, if for being quiet
    storm,      \* whether the storm room is open
    tx,         \* what a transaction has done and waits for
    lock,       \* row locks on rooms: who holds one, or NoTx
    opening,    \* the transactions that have inserted an open room, uncommitted
    erasing,    \* an erasure under way: its device and its snapshot
    erased,     \* devices whose erasure began; they are denied by then
    blurred     \* history: rooms an erasure counted with a stale snapshot

incidentVars == <<now, alerts, room, storm, tx, lock, opening, erasing, erased, blurred>>

NoTx == "none"
Key(d) == IF Wide THEN Everyone ELSE d
Closed == "resolved"
NoRoom == [key |-> NoTx, status |-> "absent", first |-> 0, last |-> 0,
           occurrences |-> 0, devices |-> 0, quietAt |-> 0]
IdleTx == [at |-> "idle", dev |-> NoTx, time |-> 0, severity |-> NoTx,
           target |-> Unfiled, image |-> NoRoom, gathers |-> {}, lapses |-> Unfiled]
NoErasure == [dev |-> NoTx, snapshot |-> {}]

Alert(t) == [dev |-> tx[t].dev, time |-> tx[t].time, severity |-> tx[t].severity, room |-> Unfiled]
In(S, r) == {a \in S : a.room = r}
DevicesOf(S) == {a.dev : a \in S}
OpenRooms(k) == {r \in Rooms : room[r].key = k /\ room[r].status = "open"}

IncidentsTypeOK ==
    /\ now \in Times /\ storm \in BOOLEAN
    /\ \A a \in alerts : a.dev \in Devices /\ a.time \in Times /\ a.room \in Rooms \cup {Unfiled}
    /\ \A r \in Rooms : room[r].status \in {"absent", "open", Closed}
    /\ \A t \in Txs : tx[t].at \in {"idle", "fold", "wait", "decide", "open", "commit"}
    /\ lock \in [Rooms -> Txs \cup {NoTx}] /\ opening \subseteq Txs
    /\ erased \subseteq Devices /\ blurred \subseteq Rooms

IncidentsInit ==
    /\ now = 0 /\ alerts = {} /\ storm = FALSE
    /\ room = [r \in Rooms |-> NoRoom]
    /\ tx = [t \in Txs |-> IdleTx] /\ lock = [r \in Rooms |-> NoTx] /\ opening = {}
    /\ erasing = NoErasure /\ erased = {} /\ blurred = {}

Running == {t \in Txs : tx[t].at # "idle"}

\* Grouping.spans and Grouping.lapsed.
Spans(r, time) == time <= room[r].last + Window /\ room[r].first <= time + Window
Lapsed(r, time) == time > room[r].last + Window

\* Mutant: the count is incremented instead of restated.
RestateByOne(image, S) ==
    [image EXCEPT !.occurrences = @ + 1, !.devices = Cardinality(DevicesOf(S)),
                  !.first = Min({a.time : a \in S}), !.last = Max({a.time : a \in S})]

\* restateRoomFromItsAlerts, over the alerts the room now holds.
Restate(image, S) ==
    [image EXCEPT !.occurrences = Cardinality(S), !.devices = Cardinality(DevicesOf(S)),
                  !.first = Min({a.time : a \in S}), !.last = Max({a.time : a \in S})]

\* countPendingObservers and attachPendingObservations: the unfiled info alerts
\* of the key inside the window around the new one.
Pending(t) ==
    {a \in alerts : /\ a.room = Unfiled /\ a.severity = "info"
                    /\ Key(a.dev) = Key(tx[t].dev)
                    /\ a.time <= tx[t].time + Window /\ tx[t].time <= a.time + Window}

Begin(t, d, time, sev, place) ==
    tx' = [tx EXCEPT ![t] = [IdleTx EXCEPT !.at = place, !.dev = d, !.time = time, !.severity = sev]]

-----------------------------------------------------------------------------
(* Record *)

\* Mutant: the insert does not look at the budget.
StoreUnbudgeted(t, d, time, sev) ==
    /\ t \notin Running /\ time <= now /\ d \notin erased
    /\ ~\E u \in Running : tx[u].dev = d /\ tx[u].time = time
    /\ ~\E a \in alerts : a.dev = d /\ a.time = time
    /\ Begin(t, d, time, sev, "fold")
    /\ UNCHANGED <<now, alerts, room, storm, lock, opening, erasing, erased, blurred>>

\* The insert, on condition of the budget; the same identity under way in
\* another transaction is waited for.
Store(t, d, time, sev) ==
    /\ t \notin Running /\ time <= now /\ d \notin erased
    /\ Cardinality(alerts) < Ceiling
    /\ ~\E u \in Running : tx[u].dev = d /\ tx[u].time = time
    /\ ~\E a \in alerts : a.dev = d /\ a.time = time
    /\ Begin(t, d, time, sev, "fold")
    /\ UNCHANGED <<now, alerts, room, storm, lock, opening, erasing, erased, blurred>>

\* A spent budget and no such identity: the storm room counts one more.
Suppress(d, time) ==
    /\ Cardinality(alerts) >= Ceiling /\ time <= now /\ d \notin erased
    /\ ~\E a \in alerts : a.dev = d /\ a.time = time
    /\ storm' = TRUE
    /\ UNCHANGED <<now, alerts, room, tx, lock, opening, erasing, erased, blurred>>

\* lockOpenRoom, the moment it begins.
LookForRoom(t) ==
    /\ tx[t].at = "fold"
    /\ \E r \in OpenRooms(Key(tx[t].dev)) \cup {Unfiled} :
         /\ r = Unfiled => OpenRooms(Key(tx[t].dev)) = {}
         /\ tx' = [tx EXCEPT ![t].target = r, ![t].at = IF r = Unfiled THEN "decide" ELSE "wait"]
    /\ UNCHANGED <<now, alerts, room, storm, lock, opening, erasing, erased, blurred>>

\* Mutant: the row is not re-checked once it is locked.
LockRoomUnchecked(t) ==
    LET r == tx[t].target IN
    /\ tx[t].at = "wait" /\ lock[r] = NoTx
    /\ IF room[r].status = "absent"
       THEN /\ tx' = [tx EXCEPT ![t].target = Unfiled, ![t].at = "decide"]
            /\ UNCHANGED lock
       ELSE /\ lock' = [lock EXCEPT ![r] = t]
            /\ \/ /\ Spans(r, tx[t].time)
                  /\ tx' = [tx EXCEPT ![t].at = "commit",
                            ![t].image = Restate(room[r], In(alerts, r) \cup {Alert(t)})]
               \/ /\ Lapsed(r, tx[t].time)
                  /\ tx' = [tx EXCEPT ![t].at = "decide", ![t].lapses = r, ![t].target = Unfiled]
               \/ /\ ~Spans(r, tx[t].time) /\ ~Lapsed(r, tx[t].time)
                  /\ tx' = [tx EXCEPT ![t].at = "commit", ![t].target = Unfiled]
    /\ UNCHANGED <<now, alerts, room, storm, opening, erasing, erased, blurred>>

\* The lock, and the row re-checked: closed meanwhile reads as no room.
LockRoom(t) ==
    LET r == tx[t].target IN
    /\ tx[t].at = "wait" /\ lock[r] = NoTx
    /\ IF room[r].status # "open"
       THEN /\ tx' = [tx EXCEPT ![t].target = Unfiled, ![t].at = "decide"]
            /\ UNCHANGED lock
       ELSE /\ lock' = [lock EXCEPT ![r] = t]
            /\ \/ /\ Spans(r, tx[t].time)
                  /\ tx' = [tx EXCEPT ![t].at = "commit",
                            ![t].image = Restate(room[r], In(alerts, r) \cup {Alert(t)})]
               \/ /\ Lapsed(r, tx[t].time)
                  /\ tx' = [tx EXCEPT ![t].at = "decide", ![t].lapses = r, ![t].target = Unfiled]
               \/ /\ ~Spans(r, tx[t].time) /\ ~Lapsed(r, tx[t].time)
                  /\ tx' = [tx EXCEPT ![t].at = "commit", ![t].target = Unfiled]
    /\ UNCHANGED <<now, alerts, room, storm, opening, erasing, erased, blurred>>

\* opensARoom: an info alert waits for a second machine.
OpensARoom(t) ==
    \/ tx[t].severity # "info"
    \/ Wide /\ Cardinality(DevicesOf(Pending(t)) \cup {tx[t].dev}) > 1

Decide(t) ==
    /\ tx[t].at = "decide"
    /\ tx' = [tx EXCEPT ![t].at = IF OpensARoom(t) THEN "open" ELSE "commit"]
    /\ UNCHANGED <<now, alerts, room, storm, lock, opening, erasing, erased, blurred>>

\* openRoom: insert or, on conflict, join; both lock the row.
OpenOrJoin(t) ==
    LET k == Key(tx[t].dev)
        others == OpenRooms(k) \ {tx[t].lapses}
        filed(r) == In(alerts, r) \cup Pending(t) \cup {Alert(t)}
        fileInto(r, image) ==
            tx' = [tx EXCEPT ![t].at = "commit", ![t].target = r, ![t].gathers = Pending(t),
                             ![t].image = Restate(image, filed(r))]
    IN
    /\ tx[t].at = "open"
    /\ \/ \E r \in others :
            /\ lock[r] = NoTx /\ lock' = [lock EXCEPT ![r] = t]
            /\ fileInto(r, room[r]) /\ UNCHANGED opening
       \/ /\ others = {} /\ (\A u \in opening : Key(tx[u].dev) # k)
          /\ \E r \in Rooms :
               /\ room[r].status = "absent" /\ lock[r] = NoTx
               /\ \A q \in Rooms : q < r => room[q].status # "absent" \/ lock[q] # NoTx
               /\ lock' = [lock EXCEPT ![r] = t]
               /\ fileInto(r, [NoRoom EXCEPT !.key = k, !.status = "open"])
          /\ opening' = opening \cup {t}
    /\ UNCHANGED <<now, alerts, room, storm, erasing, erased, blurred>>

Release(t) ==
    /\ tx' = [tx EXCEPT ![t] = IdleTx]
    /\ lock' = [r \in Rooms |-> IF lock[r] = t THEN NoTx ELSE lock[r]]
    /\ opening' = opening \ {t}

\* fileInto and the rest become visible at once; a room left behind is closed
\* at the end of its window.
Commit(t) ==
    LET into == tx[t].target
        filed == {[a EXCEPT !.room = into] : a \in tx[t].gathers \cup {Alert(t)}}
    IN
    /\ tx[t].at = "commit"
    /\ alerts' = (alerts \ tx[t].gathers) \cup filed
    /\ room' = [r \in Rooms |->
         IF r = into THEN tx[t].image
         ELSE IF r = tx[t].lapses
              THEN [room[r] EXCEPT !.status = Closed, !.quietAt = room[r].last + Window]
              ELSE room[r]]
    /\ Release(t)
    /\ UNCHANGED <<now, storm, erasing, erased, blurred>>

\* An error, or the two seconds of telemetryPersistTimeout, roll it back.
Rollback(t) ==
    /\ t \in Running /\ Release(t)
    /\ UNCHANGED <<now, alerts, room, storm, erasing, erased, blurred>>

-----------------------------------------------------------------------------
(* People, janitors and erasure *)

\* Transition to resolved; between the open statuses nothing here changes.
Resolve(r) ==
    /\ room[r].status = "open" /\ lock[r] = NoTx
    /\ room' = [room EXCEPT ![r].status = Closed]
    /\ UNCHANGED <<now, alerts, storm, tx, lock, opening, erasing, erased, blurred>>

Reopen(r) ==
    /\ room[r].status = Closed /\ lock[r] = NoTx
    /\ OpenRooms(room[r].key) = {}
    /\ \A u \in opening : Key(tx[u].dev) # room[r].key
    /\ room' = [room EXCEPT ![r].status = "open", ![r].quietAt = 0]
    /\ UNCHANGED <<now, alerts, storm, tx, lock, opening, erasing, erased, blurred>>

\* ResolveStale: each row as it is once its lock is free.
ResolveStale(r) ==
    /\ room[r].status = "open" /\ lock[r] = NoTx
    /\ room[r].last + Window <= now /\ room[r].key \notin Maintained
    /\ room' = [room EXCEPT ![r].status = Closed, ![r].quietAt = room[r].last + Window]
    /\ UNCHANGED <<now, alerts, storm, tx, lock, opening, erasing, erased, blurred>>

\* EraseDeviceAlerts begins: the rooms the device fed, and the alerts seen.
EraseBegins(d) ==
    /\ erasing = NoErasure /\ d \notin erased /\ Cardinality(erased) < MaxErased
    /\ d \in DevicesOf(alerts)
    /\ erasing' = [dev |-> d, snapshot |-> alerts]
    /\ erased' = erased \cup {d}
    /\ UNCHANGED <<now, alerts, room, storm, tx, lock, opening, blurred>>

\* Once their rows and the alerts' are free: recount from the snapshot, close the emptied ones,
\* delete the device's alerts.
EraseEnds ==
    LET d == erasing.dev
        fed == {r \in Rooms : d \in DevicesOf(In(erasing.snapshot, r))}
        rest(r) == {a \in In(erasing.snapshot, r) : a.dev # d}
    IN
    /\ erasing # NoErasure /\ \A r \in fed : lock[r] = NoTx
    /\ \A t \in Running : d \notin DevicesOf(tx[t].gathers)
    /\ room' = [r \in Rooms |->
         IF r \notin fed THEN room[r]
         ELSE LET counted == [room[r] EXCEPT !.occurrences = Cardinality(rest(r)),
                                             !.devices = Cardinality(DevicesOf(rest(r)))]
              IN IF rest(r) = {} /\ room[r].status = "open" /\ d \in DevicesOf(In(alerts, r))
                 THEN [counted EXCEPT !.status = Closed] ELSE counted]
    /\ alerts' = {a \in alerts : a.dev # d}
    /\ blurred' = blurred \cup {r \in fed : In(erasing.snapshot, r) # In(alerts, r)}
                  \cup {r \in Rooms \ fed : d \in DevicesOf(In(alerts, r))}
    /\ erasing' = NoErasure
    /\ UNCHANGED <<now, storm, tx, lock, opening, erased>>

Tick ==
    /\ now < MaxTime /\ now' = now + 1
    /\ UNCHANGED <<alerts, room, storm, tx, lock, opening, erasing, erased, blurred>>

IncidentsNext ==
    \/ \E d \in Devices, time \in Times :
         \/ Suppress(d, time)
         \/ \E t \in Txs, sev \in {"info", "warning"} : Store(t, d, time, sev)
    \/ \E t \in Txs :
         \/ LookForRoom(t) \/ LockRoom(t) \/ Decide(t) \/ OpenOrJoin(t) \/ Commit(t) \/ Rollback(t)
    \/ \E r \in Rooms : Resolve(r) \/ Reopen(r) \/ ResolveStale(r)
    \/ \E d \in Devices : EraseBegins(d)
    \/ EraseEnds \/ Tick

IncidentsSpec == IncidentsInit /\ [][IncidentsNext]_incidentVars

-----------------------------------------------------------------------------
(* Properties *)

\* A room's counts are those of the alerts filed in it, however folds, people,
\* sweeps and erasures interleave, unless an erasure waited for a fold
\* (restateRoomFromItsAlerts under the row lock, recountRoomsLosingADevice).
CountsMatch ==
    \A r \in Rooms \ blurred : room[r].status # "absent" =>
        /\ room[r].occurrences = Cardinality(In(alerts, r))
        /\ room[r].devices = Cardinality(DevicesOf(In(alerts, r)))

\* A room closed for being quiet has no alert later than its closing time: no
\* sweep closes a room that a fold has just extended (ResolveStale, closeLapsed).
ClosedWhenQuiet ==
    \A r \in Rooms : room[r].quietAt > 0 =>
        \A a \in In(alerts, r) : a.time + Window <= room[r].quietAt

\* The hourly budget is exceeded by no more than the transactions that counted
\* before each other's commit (storeAlertSQL).
BudgetOvershoot == Cardinality(alerts) <= Ceiling + Cardinality(Txs) - 1

\* postgres_fold.go: "Restating from the alerts survives concurrent folds and
\* erasures."
CountsSurviveErasure ==
    \A r \in Rooms : room[r].status # "absent" =>
        room[r].occurrences = Cardinality(In(alerts, r))
=============================================================================
