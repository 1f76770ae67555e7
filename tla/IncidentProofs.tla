--------------------------- MODULE IncidentProofs ---------------------------
(***************************************************************************)
(* A rule's alerts and their rooms, for any number of devices,             *)
(* transactions, rooms and erasures: a room's counts are those of the      *)
(* alerts in it, a room closed as quiet was quiet, and the hourly budget   *)
(* is overshot by no more than the transactions at once.                   *)
(***************************************************************************)
EXTENDS Incidents, FiniteSetTheorems, WellFoundedInduction, TLAPS

Severities == {"info", "warning"}
AlertType == [dev : Devices, time : Times, severity : Severities, room : Rooms \cup {Unfiled}]
Keys == Devices \cup {Everyone, NoTx}
RoomType == [key : Keys, status : {"absent", "open", Closed}, first : Nat, last : Nat,
             occurrences : Nat, devices : Nat, quietAt : Nat]
TxType == [at : {"idle", "fold", "wait", "decide", "open", "commit"},
           dev : Devices \cup {NoTx}, time : Times, severity : Severities \cup {NoTx},
           target : Rooms \cup {Unfiled}, image : RoomType, gathers : SUBSET AlertType,
           lapses : Rooms \cup {Unfiled}]

Types ==
    /\ alerts \subseteq AlertType /\ IsFiniteSet(alerts)
    /\ room \in [Rooms -> RoomType]
    /\ tx \in [Txs -> TxType] /\ lock \in [Rooms -> Txs \cup {NoTx}] /\ opening \subseteq Txs
    /\ \A t \in Running : tx[t].dev \in Devices /\ tx[t].severity \in Severities
    /\ erasing.snapshot \subseteq AlertType /\ IsFiniteSet(erasing.snapshot)
    /\ now \in Nat

\* A device's moment identifies an alert, stored or about to be.
Identities ==
    /\ \A a, b \in alerts : a.dev = b.dev /\ a.time = b.time => a = b
    /\ \A t \in Running : \A a \in alerts : ~(a.dev = tx[t].dev /\ a.time = tx[t].time)
    /\ \A t, u \in Running : tx[t].dev = tx[u].dev /\ tx[t].time = tx[u].time => t = u

\* The partial unique index: one open room for a key, and one being opened.
OneOpen ==
    \A r, q \in Rooms :
        room[r].status = "open" /\ room[q].status = "open" /\ room[r].key = room[q].key => r = q
OneOpening == \A t, u \in opening : Key(tx[t].dev) = Key(tx[u].dev) => t = u

\* A transaction that will write a room has its row locked until it commits.
Filing(t) == tx[t].at = "commit" /\ tx[t].target # Unfiled
Filed(t) == In(alerts, tx[t].target) \cup tx[t].gathers \cup {Alert(t)}

Waits(t) ==
    tx[t].at = "wait" =>
        /\ tx[t].target \in Rooms /\ room[tx[t].target].key = Key(tx[t].dev)
        /\ room[tx[t].target].status # "absent"
Lapses(t) ==
    tx[t].lapses # Unfiled =>
        /\ lock[tx[t].lapses] = t /\ tx[t].at \in {"decide", "open", "commit"}
        /\ room[tx[t].lapses].status = "open" /\ room[tx[t].lapses].key = Key(tx[t].dev)
Places(t) ==
    /\ tx[t].at \in {"decide", "open"} => tx[t].target = Unfiled
    /\ ~Filing(t) => tx[t].gathers = {} /\ t \notin opening
    /\ Filing(t) => lock[tx[t].target] = t
    /\ Filing(t) /\ t \notin opening =>
         room[tx[t].target].status = "open" /\ room[tx[t].target].key = Key(tx[t].dev)
    /\ t \in opening =>
         /\ room[tx[t].target].status = "absent"
         /\ OpenRooms(Key(tx[t].dev)) \subseteq {tx[t].lapses}
Gathers(t) ==
    /\ tx[t].gathers \subseteq alerts
    /\ \A a \in tx[t].gathers : a.room = Unfiled /\ Key(a.dev) = Key(tx[t].dev)

\* What it will write is what the room will hold.
Images(t) ==
    Filing(t) =>
        /\ tx[t].image.key = Key(tx[t].dev) /\ tx[t].image.status = "open"
        /\ tx[t].image.quietAt = 0
        /\ \A a \in Filed(t) : a.time <= tx[t].image.last
        /\ tx[t].target \notin blurred =>
             /\ tx[t].image.occurrences = Cardinality(Filed(t))
             /\ tx[t].image.devices = Cardinality(DevicesOf(Filed(t)))

TxInv(t) == Waits(t) /\ Lapses(t) /\ Places(t) /\ Gathers(t) /\ Images(t)

RoomTimes ==
    \A r \in Rooms :
        /\ room[r].status = "open" => room[r].quietAt = 0
        /\ room[r].status # "absent" => \A a \in In(alerts, r) : a.time <= room[r].last
        /\ room[r].status = "absent" => In(alerts, r) = {} /\ room[r].quietAt = 0

\* Each transaction under way may still add one.
Budget == Cardinality(alerts) + Cardinality(Running) <= Ceiling + Cardinality(Txs) - 1

\* What is said of rooms and of the transactions on them.
RoomInv ==
    /\ Types /\ Identities /\ OneOpen /\ OneOpening /\ RoomTimes
    /\ CountsMatch /\ ClosedWhenQuiet
    /\ \A t \in Txs : TxInv(t)

IncInv == RoomInv /\ Budget

-----------------------------------------------------------------------------
(* Sets *)

\* A non-empty set of times has a least and a last, which Min and Max choose.
LEMMA FirstAndLast ==
    ASSUME NEW T, T \subseteq Times, T # {}
    PROVE  Min(T) \in T /\ Max(T) \in T /\ \A y \in T : y <= Max(T)
<1> DEFINE R == {ss \in Nat \X Nat : ss[1] < ss[2]}
<1>1. IsWellFoundedOn(R, Nat)
  BY NatLessThanWellFounded DEF OpToRel
<1>2. \A x, y \in Nat : x < y => <<x, y>> \in R
  OBVIOUS
<1>3. MaxTime \in Nat
  BY IncidentsAssumption
<1> HIDE DEF R
<1>4. ASSUME NEW U, U \subseteq Nat, U # {}
      PROVE  \E x \in U : \A y \in U : x <= y
  <2>1. PICK x \in U : \A y \in U : ~(<<y, x>> \in R)
    BY <1>1, <1>4, WFMin, Zenon
  <2>2. \A y \in U : ~(y < x)
    BY <1>2, <1>4, <2>1
  <2> QED BY <1>4, <2>2
<1>5. T \subseteq Nat
  BY <1>3 DEF Times
<1>6. Min(T) \in T
  <2>1. \E x \in T : \A y \in T : x <= y
    BY <1>4, <1>5
  <2> QED BY <2>1 DEF Min
<1>7. \E x \in T : \A y \in T : x >= y
  <2> DEFINE U == {n \in Nat : \E y \in T : n = MaxTime - y}
  <2>1. U # {}
    <3>1. PICK y \in T : TRUE
      OBVIOUS
    <3>2. MaxTime - y \in Nat
      BY <1>3, <3>1 DEF Times
    <3> QED BY <3>1, <3>2
  <2>2. PICK n \in U : \A m \in U : n <= m
    BY <1>4, <2>1
  <2>3. PICK x \in T : n = MaxTime - x
    BY <2>2
  <2>4. ASSUME NEW y \in T PROVE x >= y
    <3>1. y \in Nat /\ x \in Nat /\ MaxTime - y \in Nat
      BY <1>3, <1>5 DEF Times
    <3>2. n <= MaxTime - y
      BY <2>2, <3>1
    <3> QED BY <1>3, <2>3, <3>1, <3>2
  <2> QED BY <2>3, <2>4
<1>8. Max(T) \in T /\ \A y \in T : Max(T) >= y
  BY <1>7 DEF Max
<1> QED BY <1>5, <1>6, <1>8

\* Finitely many alerts are of finitely many devices.
LEMMA FiniteDevices ==
    ASSUME NEW S, IsFiniteSet(S)
    PROVE  Cardinality(S) \in Nat /\ IsFiniteSet(DevicesOf(S)) /\ Cardinality(DevicesOf(S)) \in Nat
<1> DEFINE f == [a \in S |-> a.dev]
<1>1. f \in Surjection(S, DevicesOf(S))
  BY DEF DevicesOf, Surjection
<1>2. IsFiniteSet(DevicesOf(S))
  BY <1>1, FS_Surjection
<1> QED BY <1>2, FS_CardinalityType

\* What restateRoomFromItsAlerts writes.
LEMMA Restated ==
    ASSUME NEW S, S \subseteq AlertType, IsFiniteSet(S), S # {}, NEW i \in RoomType
    PROVE  /\ Restate(i, S) \in RoomType
           /\ Restate(i, S).key = i.key /\ Restate(i, S).status = i.status
           /\ Restate(i, S).quietAt = i.quietAt
           /\ Restate(i, S).occurrences = Cardinality(S)
           /\ Restate(i, S).devices = Cardinality(DevicesOf(S))
           /\ \A a \in S : a.time <= Restate(i, S).last
<1> DEFINE T == {a.time : a \in S}
<1>1. T \subseteq Times /\ T # {}
  BY DEF AlertType
<1>2. Min(T) \in T /\ Max(T) \in T /\ \A y \in T : y <= Max(T)
  BY <1>1, FirstAndLast
<1>3. Min(T) \in Nat /\ Max(T) \in Nat
  BY <1>1, <1>2, IncidentsAssumption DEF Times
<1>4. \A a \in S : a.time <= Max(T)
  BY <1>2
<1>5. Restate(i, S) = [i EXCEPT !.occurrences = Cardinality(S), !.devices = Cardinality(DevicesOf(S)),
                               !.first = Min(T), !.last = Max(T)]
  BY DEF Restate
<1>6. Cardinality(S) \in Nat /\ Cardinality(DevicesOf(S)) \in Nat
  BY FiniteDevices
<1> HIDE DEF T
<1>7. PICK m \in Nat, n \in Nat, c \in Nat, e \in Nat :
        /\ m = Min(T) /\ n = Max(T) /\ c = Cardinality(S) /\ e = Cardinality(DevicesOf(S))
  BY <1>3, <1>6
<1>8. Restate(i, S) = [i EXCEPT !.occurrences = c, !.devices = e, !.first = m, !.last = n]
  BY <1>5, <1>7
<1>9. /\ Restate(i, S) \in RoomType
      /\ Restate(i, S).key = i.key /\ Restate(i, S).status = i.status
      /\ Restate(i, S).quietAt = i.quietAt
      /\ Restate(i, S).occurrences = c /\ Restate(i, S).devices = e /\ Restate(i, S).last = n
  BY <1>8 DEF RoomType
<1> QED BY <1>4, <1>7, <1>9

\* An absent room and a transaction that has not begun.
LEMMA Blanks ==
    /\ NoRoom \in RoomType /\ IdleTx \in TxType
    /\ IdleTx.at = "idle" /\ IdleTx.gathers = {} /\ IdleTx.lapses = Unfiled /\ IdleTx.target = Unfiled
<1>1. 0 \in Times /\ 0 \in Nat
  BY IncidentsAssumption DEF Times
<1>2. NoRoom \in RoomType
  BY <1>1 DEF NoRoom, RoomType, Keys
<1>3. IdleTx \in TxType
  BY <1>1, <1>2 DEF IdleTx, TxType, NoTx
<1> QED BY <1>2, <1>3 DEF IdleTx

\* A transaction that has begun is about an alert.
LEMMA AlertOf ==
    ASSUME Types, NEW t \in Running
    PROVE  t \in Txs /\ Alert(t) \in AlertType /\ Alert(t).room = Unfiled
           /\ Alert(t).dev = tx[t].dev /\ Alert(t).time = tx[t].time
<1>1. t \in Txs /\ tx[t].dev \in Devices /\ tx[t].severity \in Severities
  BY DEF Types, Running
<1>2. tx[t].time \in Times
  BY <1>1 DEF Types, TxType
<1> QED BY <1>1, <1>2 DEF Alert, AlertType

\* A room is written by one transaction at a time, and so are the alerts of a key.
LEMMA FilingAlone ==
    ASSUME RoomInv, NEW t \in Txs, NEW u \in Txs, Filing(t), Filing(u),
           Key(tx[t].dev) = Key(tx[u].dev)
    PROVE  t = u
<1>1. /\ TxInv(t) /\ TxInv(u)
      /\ tx[t].target \in Rooms /\ tx[u].target \in Rooms
  BY DEF RoomInv, Types, TxType, Filing
<1>2. ASSUME NEW x \in Txs, NEW y \in Txs, TxInv(x), TxInv(y), Filing(y),
             Key(tx[x].dev) = Key(tx[y].dev), tx[y].target \in Rooms,
             x \in opening, y \notin opening
      PROVE  x = y
  <2>1. tx[y].target \in OpenRooms(Key(tx[x].dev))
    BY <1>2 DEF TxInv, Places, OpenRooms
  <2>2. tx[y].target = tx[x].lapses
    BY <1>2, <2>1 DEF TxInv, Places
  <2>3. tx[x].lapses # Unfiled
    BY <1>2, <2>2 DEF Filing
  <2> QED BY <1>2, <2>2, <2>3 DEF TxInv, Places, Lapses
<1>3. CASE t \in opening /\ u \in opening
  BY <1>3 DEF RoomInv, OneOpening
<1>4. CASE t \in opening /\ u \notin opening
  BY <1>1, <1>2, <1>4
<1>5. CASE t \notin opening /\ u \in opening
  BY <1>1, <1>2, <1>5
<1>6. CASE t \notin opening /\ u \notin opening
  <2>1. tx[t].target = tx[u].target
    BY <1>1, <1>6 DEF TxInv, Places, RoomInv, OneOpen
  <2> QED BY <1>1, <2>1 DEF TxInv, Places
<1> QED BY <1>3, <1>4, <1>5, <1>6

\* What one transaction does before it commits changes nothing for another.
LEMMA Undisturbed ==
    ASSUME NEW u \in Txs, TxInv(u), Types, tx'[u] = tx[u],
           alerts' = alerts, room' = room, blurred' = blurred, (u \in opening') = (u \in opening),
           \A r \in Rooms : lock[r] = u => lock'[r] = u
    PROVE  TxInv(u)'
<1>1. /\ tx[u].target \in Rooms \cup {Unfiled} /\ tx[u].lapses \in Rooms \cup {Unfiled}
  BY DEF Types, TxType
<1>2. Filing(u)' = Filing(u) /\ Alert(u)' = Alert(u)
  BY DEF Filing, Alert
<1>3. Filed(u)' = Filed(u)
  BY <1>2 DEF Filed, In
<1>4. Waits(u)'
  BY DEF TxInv, Waits, Key
<1>5. Lapses(u)'
  BY <1>1 DEF TxInv, Lapses, Key
<1>6. Places(u)'
  <2>1. OpenRooms(Key(tx[u].dev))' = OpenRooms(Key(tx[u].dev))
    BY DEF OpenRooms, Key
  <2> QED BY <1>1, <1>2, <2>1 DEF TxInv, Places, Key, Filing
<1>7. Gathers(u)'
  BY DEF TxInv, Gathers, Key
<1>8. Images(u)'
  BY <1>2, <1>3 DEF TxInv, Images, Key
<1> QED BY <1>4, <1>5, <1>6, <1>7, <1>8 DEF TxInv

\* So for a step of t alone what is to be shown is about t.
LEMMA OwnStep ==
    ASSUME RoomInv, NEW t \in Txs, NEW w \in TxType, tx' = [tx EXCEPT ![t] = w],
           UNCHANGED <<now, alerts, room, blurred, erasing>>,
           lock' \in [Rooms -> Txs \cup {NoTx}],
           \A r \in Rooms : lock[r] # lock'[r] => lock[r] \in {t, NoTx},
           opening' \subseteq Txs, opening' \ {t} = opening \ {t},
           w.at # "idle" =>
             /\ w.dev \in Devices /\ w.severity \in Severities
             /\ \A a \in alerts : ~(a.dev = w.dev /\ a.time = w.time)
             /\ \A u \in Running \ {t} : ~(tx[u].dev = w.dev /\ tx[u].time = w.time),
           t \in opening' => \A u \in opening \ {t} : Key(tx[u].dev) # Key(w.dev),
           TxInv(t)'
    PROVE  RoomInv'
<1>1. tx \in [Txs -> TxType] /\ tx'[t] = w /\ \A u \in Txs \ {t} : tx'[u] = tx[u]
  BY DEF RoomInv, Types
<1>2. Running' \subseteq Running \cup {t} /\ (t \in Running' <=> w.at # "idle")
  BY <1>1 DEF Running
<1>3. Types'
  <2>1. tx' \in [Txs -> TxType]
    BY DEF RoomInv, Types
  <2>2. ASSUME NEW u \in Running' PROVE tx'[u].dev \in Devices /\ tx'[u].severity \in Severities
    <3>1. CASE u = t
      BY <1>1, <1>2, <3>1
    <3>2. CASE u # t
      <4>1. u \in Running /\ tx'[u] = tx[u]
        BY <1>1, <1>2, <3>2 DEF Running
      <4> QED BY <4>1 DEF RoomInv, Types
    <3> QED BY <3>1, <3>2
  <2> QED BY <2>1, <2>2 DEF RoomInv, Types
<1>4. Identities'
  <2>1. ASSUME NEW u \in Running', NEW a \in alerts
        PROVE  ~(a.dev = tx'[u].dev /\ a.time = tx'[u].time)
    <3>1. CASE u = t
      BY <1>1, <1>2, <3>1
    <3>2. CASE u # t
      BY <1>1, <1>2, <3>2 DEF RoomInv, Identities, Running
    <3> QED BY <3>1, <3>2
  <2>2. ASSUME NEW u \in Running', NEW v \in Running',
               tx'[u].dev = tx'[v].dev, tx'[u].time = tx'[v].time
        PROVE  u = v
    <3>1. /\ \A x \in Running' \ {t} : x \in Running \ {t} /\ tx'[x] = tx[x]
      BY <1>1, <1>2 DEF Running
    <3>2. CASE u = t /\ v # t
      BY <1>1, <1>2, <2>2, <3>1, <3>2
    <3>3. CASE u # t /\ v = t
      BY <1>1, <1>2, <2>2, <3>1, <3>3
    <3>4. CASE u # t /\ v # t
      BY <2>2, <3>1, <3>4 DEF RoomInv, Identities
    <3> QED BY <3>2, <3>3, <3>4
  <2>3. \A a, b \in alerts : a.dev = b.dev /\ a.time = b.time => a = b
    BY DEF RoomInv, Identities
  <2> QED BY <2>1, <2>2, <2>3 DEF Identities
<1>5. OneOpen' /\ RoomTimes' /\ CountsMatch' /\ ClosedWhenQuiet'
  BY DEF RoomInv, OneOpen, RoomTimes, CountsMatch, ClosedWhenQuiet, In
<1>6. OneOpening'
  <2> SUFFICES ASSUME NEW u \in opening', NEW v \in opening', Key(tx'[u].dev) = Key(tx'[v].dev)
               PROVE  u = v
    BY DEF OneOpening, Key
  <2>1. \A x \in opening' \ {t} : x \in opening \ {t} /\ x \in Txs /\ tx'[x] = tx[x]
    BY <1>1
  <2>2. CASE u = t /\ v # t
    BY <1>1, <2>1, <2>2
  <2>3. CASE u # t /\ v = t
    BY <1>1, <2>1, <2>3
  <2>4. CASE u # t /\ v # t
    BY <2>1, <2>4 DEF RoomInv, OneOpening
  <2> QED BY <2>2, <2>3, <2>4
<1>7. ASSUME NEW u \in Txs PROVE TxInv(u)'
  <2>1. CASE u # t
    <3>1. (u \in opening') = (u \in opening) /\ TxInv(u) /\ Types
      BY <2>1 DEF RoomInv
    <3>2. \A r \in Rooms : lock[r] = u => lock'[r] = u
      BY <2>1, IncidentsAssumption DEF NoTx
    <3> QED BY <1>1, <2>1, <3>1, <3>2, Undisturbed
  <2> QED BY <2>1
<1> QED BY <1>3, <1>4, <1>5, <1>6, <1>7 DEF RoomInv

\* A transaction that does not write a room.
LEMMA NotFiling ==
    ASSUME NEW t, ~Filing(t)', tx'[t].gathers = {}, t \notin opening',
           tx'[t].at \in {"decide", "open"} => tx'[t].target = Unfiled,
           Waits(t)', Lapses(t)'
    PROVE  TxInv(t)'
BY DEF TxInv, Places, Gathers, Images

\* Before it writes, a transaction has gathered nothing and holds at most the room
\* it will leave behind.
LEMMA BeforeFiling ==
    ASSUME RoomInv, NEW t \in Txs, tx[t].at # "commit"
    PROVE  /\ tx[t] \in TxType /\ ~Filing(t) /\ tx[t].gathers = {} /\ t \notin opening
           /\ tx[t].at \in {"idle", "fold", "wait"} => tx[t].lapses = Unfiled
<1>1. TxInv(t) /\ tx[t] \in TxType
  BY DEF RoomInv, Types
<1> QED BY <1>1 DEF TxInv, Places, Lapses, Filing

\* The moment a transaction restates a room, its row locked (fileInto).
LEMMA StartsFiling ==
    ASSUME RoomInv, NEW t \in Txs, tx[t].at \in {"wait", "open"},
           NEW r \in Rooms, lock[r] = NoTx, lock' = [lock EXCEPT ![r] = t],
           NEW G \in SUBSET alerts,
           \A a \in G : a.room = Unfiled /\ Key(a.dev) = Key(tx[t].dev),
           NEW i \in RoomType, i.key = Key(tx[t].dev), i.status = "open", i.quietAt = 0,
           NEW w, tx' = [tx EXCEPT ![t] = w],
           w = [tx[t] EXCEPT !.at = "commit", !.target = r, !.gathers = G,
                             !.image = Restate(i, In(alerts, r) \cup G \cup {Alert(t)})],
           UNCHANGED <<now, alerts, room, blurred, erasing>>,
           \/ opening' = opening /\ room[r].status = "open" /\ room[r].key = Key(tx[t].dev)
           \/ /\ opening' = opening \cup {t} /\ room[r].status = "absent"
              /\ OpenRooms(Key(tx[t].dev)) \subseteq {tx[t].lapses}
              /\ \A u \in opening : Key(tx[u].dev) # Key(tx[t].dev)
    PROVE  RoomInv'
<1> DEFINE S == In(alerts, r) \cup G \cup {Alert(t)}
<1>1. /\ tx[t] \in TxType /\ ~Filing(t) /\ t \notin opening /\ t \in Running
      /\ Types /\ TxInv(t)
  BY BeforeFiling DEF RoomInv, Running
<1>2. Alert(t) \in AlertType
  BY <1>1, AlertOf
<1>3. S \subseteq AlertType /\ S # {} /\ IsFiniteSet(S)
  <2>1. S \subseteq alerts \cup {Alert(t)}
    BY DEF In
  <2>2. IsFiniteSet(alerts \cup {Alert(t)})
    BY <1>1, FS_AddElement DEF Types
  <2>3. IsFiniteSet(S)
    BY <2>1, <2>2, FS_Subset
  <2> QED BY <1>1, <1>2, <2>1, <2>3 DEF Types
<1> DEFINE m == Restate(i, S)
<1>4. /\ m \in RoomType /\ m.key = Key(tx[t].dev) /\ m.status = "open" /\ m.quietAt = 0
      /\ m.occurrences = Cardinality(S) /\ m.devices = Cardinality(DevicesOf(S))
      /\ \A a \in S : a.time <= m.last
  BY <1>3, Restated
<1>5. w = [tx[t] EXCEPT !.at = "commit", !.target = r, !.gathers = G, !.image = m]
  OBVIOUS
<1> HIDE DEF m
<1>6. /\ w.at = "commit" /\ w.target = r /\ w.gathers = G /\ w.image = m
      /\ w.dev = tx[t].dev /\ w.time = tx[t].time /\ w.severity = tx[t].severity
      /\ w.lapses = tx[t].lapses
  BY <1>1, <1>5 DEF TxType
<1>7. w \in TxType
  <2>1. G \in SUBSET AlertType
    BY <1>1 DEF Types
  <2> QED BY <1>1, <1>4, <1>5, <2>1 DEF TxType
<1>8. tx'[t] = w /\ r # Unfiled /\ lock'[r] = t
  BY <1>1 DEF Types, Rooms, Unfiled
<1>9. /\ Filing(t)' /\ Alert(t)' = Alert(t) /\ Filed(t)' = S
      /\ Key(tx[t].dev)' = Key(tx[t].dev)
  <2>1. Filing(t)' /\ Alert(t)' = Alert(t)
    BY <1>6, <1>8 DEF Filing, Alert
  <2>2. Filed(t)' = S
    BY <1>6, <1>8, <2>1 DEF Filed, In
  <2> QED BY <1>6, <1>8, <2>1, <2>2 DEF Key
<1>10. TxInv(t)'
  <2>1. Waits(t)'
    BY <1>6, <1>8 DEF Waits
  <2>2. Lapses(t)'
    <3> SUFFICES ASSUME tx[t].lapses # Unfiled PROVE Lapses(t)'
      BY <1>6, <1>8 DEF Lapses
    <3>1. /\ lock[tx[t].lapses] = t /\ tx[t].lapses \in Rooms
          /\ room[tx[t].lapses].status = "open" /\ room[tx[t].lapses].key = Key(tx[t].dev)
      BY <1>1 DEF TxInv, Lapses, TxType
    <3>2. lock'[tx[t].lapses] = t
      BY <1>1, <3>1 DEF Types
    <3> QED BY <1>6, <1>8, <1>9, <3>1, <3>2 DEF Lapses
  <2>3. Places(t)'
    <3>1. OpenRooms(Key(tx[t].dev))' = OpenRooms(Key(tx[t].dev))
      BY <1>9 DEF OpenRooms
    <3> QED BY <1>1, <1>6, <1>8, <1>9, <3>1 DEF Places
  <2>4. Gathers(t)'
    BY <1>6, <1>8, <1>9 DEF Gathers, Key
  <2>5. Images(t)'
    BY <1>4, <1>6, <1>8, <1>9 DEF Images
  <2> QED BY <2>1, <2>2, <2>3, <2>4, <2>5 DEF TxInv
<1>11. /\ lock' \in [Rooms -> Txs \cup {NoTx}]
       /\ \A q \in Rooms : lock[q] # lock'[q] => lock[q] \in {t, NoTx}
       /\ opening' \subseteq Txs /\ opening' \ {t} = opening \ {t}
  BY <1>1 DEF Types
<1>12. /\ w.dev \in Devices /\ w.severity \in Severities
       /\ \A a \in alerts : ~(a.dev = w.dev /\ a.time = w.time)
       /\ \A u \in Running \ {t} : ~(tx[u].dev = w.dev /\ tx[u].time = w.time)
  BY <1>1, <1>6 DEF RoomInv, Types, Identities
<1>13. t \in opening' => \A u \in opening \ {t} : Key(tx[u].dev) # Key(w.dev)
  BY <1>1, <1>6
<1> QED BY <1>7, <1>10, <1>11, <1>12, <1>13, OwnStep

-----------------------------------------------------------------------------
(* The steps of a transaction *)

\* Record's insert.
LEMMA StoreKeeps ==
    ASSUME RoomInv, NEW t \in Txs, NEW d \in Devices, NEW time \in Times, NEW sev \in Severities,
           Store(t, d, time, sev)
    PROVE  RoomInv'
<1> DEFINE w == [IdleTx EXCEPT !.at = "fold", !.dev = d, !.time = time, !.severity = sev]
<1>1. tx' = [tx EXCEPT ![t] = w] /\ UNCHANGED <<now, alerts, room, lock, opening, erasing, blurred>>
  BY DEF Store, Begin
<1>2. /\ t \notin Running
      /\ ~\E u \in Running : tx[u].dev = d /\ tx[u].time = time
      /\ ~\E a \in alerts : a.dev = d /\ a.time = time
  BY DEF Store
<1>3. /\ w \in TxType /\ w.at = "fold" /\ w.dev = d /\ w.time = time /\ w.severity = sev
      /\ w.gathers = {} /\ w.lapses = Unfiled
  BY Blanks DEF TxType, IdleTx
<1> HIDE DEF w
<1>4. t \notin opening /\ tx'[t] = w
  BY <1>1, <1>2, BeforeFiling DEF Running, RoomInv, Types
<1>5. TxInv(t)'
  <2>1. ~Filing(t)' /\ Waits(t)' /\ Lapses(t)'
    BY <1>3, <1>4 DEF Filing, Waits, Lapses
  <2> QED BY <1>1, <1>3, <1>4, <2>1, NotFiling
<1>6. lock' \in [Rooms -> Txs \cup {NoTx}] /\ opening' \subseteq Txs
  BY <1>1 DEF RoomInv, Types
<1> QED BY <1>1, <1>2, <1>3, <1>4, <1>5, <1>6, OwnStep

\* lockOpenRoom's first look.
LEMMA LookForRoomKeeps ==
    ASSUME RoomInv, NEW t \in Txs, LookForRoom(t)
    PROVE  RoomInv'
<1>1. PICK r \in OpenRooms(Key(tx[t].dev)) \cup {Unfiled} :
        tx' = [tx EXCEPT ![t].target = r, ![t].at = IF r = Unfiled THEN "decide" ELSE "wait"]
  BY DEF LookForRoom
<1>2. tx[t].at = "fold" /\ UNCHANGED <<now, alerts, room, lock, opening, erasing, blurred>>
  BY DEF LookForRoom
<1> DEFINE p == IF r = Unfiled THEN "decide" ELSE "wait"
<1> DEFINE w == [tx[t] EXCEPT !.target = r, !.at = p]
<1>3. p \in {"decide", "wait"} /\ (p = "wait" <=> r # Unfiled) /\ tx' = [tx EXCEPT ![t] = w]
  BY <1>1
<1> HIDE DEF p
<1>4. /\ tx[t] \in TxType /\ tx[t].gathers = {} /\ tx[t].lapses = Unfiled /\ t \notin opening
      /\ tx[t].dev \in Devices /\ tx[t].severity \in Severities /\ t \in Running
  BY <1>2, BeforeFiling DEF RoomInv, Types, Running
<1>5. /\ w.at = p /\ w.target = r /\ w.gathers = {} /\ w.lapses = Unfiled
      /\ w.dev = tx[t].dev /\ w.time = tx[t].time /\ w.severity = tx[t].severity
  BY <1>4 DEF TxType
<1>6. w \in TxType
  <2>1. r \in Rooms \cup {Unfiled}
    BY DEF OpenRooms
  <2> QED BY <1>3, <1>4, <2>1 DEF TxType
<1> HIDE DEF w
<1>7. tx'[t] = w
  BY <1>3 DEF RoomInv, Types
<1>8. TxInv(t)'
  <2>1. ~Filing(t)' /\ Lapses(t)'
    BY <1>3, <1>5, <1>7 DEF Filing, Lapses
  <2>2. Waits(t)'
    BY <1>2, <1>3, <1>5, <1>7 DEF Waits, OpenRooms, Key
  <2> QED BY <1>2, <1>3, <1>4, <1>5, <1>7, <2>1, <2>2, NotFiling
<1>9. /\ lock' \in [Rooms -> Txs \cup {NoTx}] /\ opening' \subseteq Txs
      /\ \A a \in alerts : ~(a.dev = w.dev /\ a.time = w.time)
      /\ \A u \in Running \ {t} : ~(tx[u].dev = w.dev /\ tx[u].time = w.time)
  BY <1>2, <1>4, <1>5 DEF RoomInv, Types, Identities
<1> QED BY <1>2, <1>3, <1>4, <1>5, <1>6, <1>8, <1>9, OwnStep

\* A step that leaves the transaction with no room to write.
LEMMA StepsOn ==
    ASSUME RoomInv, NEW t \in Running, tx[t].at # "commit", NEW w \in TxType,
           tx' = [tx EXCEPT ![t] = w], w.at # "idle",
           w.dev = tx[t].dev, w.time = tx[t].time, w.severity = tx[t].severity, w.gathers = {},
           ~(w.at = "commit" /\ w.target # Unfiled),
           w.at \in {"decide", "open"} => w.target = Unfiled, w.at # "wait",
           UNCHANGED <<now, alerts, room, blurred, erasing, opening>>,
           lock' \in [Rooms -> Txs \cup {NoTx}],
           \A r \in Rooms : lock[r] # lock'[r] => lock[r] \in {t, NoTx},
           Lapses(t)'
    PROVE  RoomInv'
<1>1. t \in Txs /\ t \notin opening /\ tx'[t] = w
  BY BeforeFiling DEF Running, RoomInv, Types
<1>2. TxInv(t)'
  <2>1. ~Filing(t)' /\ Waits(t)'
    BY <1>1 DEF Filing, Waits
  <2> QED BY <1>1, <2>1, NotFiling
<1>3. /\ w.dev \in Devices /\ w.severity \in Severities /\ opening' \subseteq Txs
      /\ \A a \in alerts : ~(a.dev = w.dev /\ a.time = w.time)
      /\ \A u \in Running \ {t} : ~(tx[u].dev = w.dev /\ tx[u].time = w.time)
  BY DEF RoomInv, Types, Identities
<1> QED BY <1>1, <1>2, <1>3, OwnStep

\* lockOpenRoom's row, locked and re-checked.
LEMMA LockRoomKeeps ==
    ASSUME RoomInv, NEW t \in Txs, LockRoom(t)
    PROVE  RoomInv'
<1> DEFINE r == tx[t].target
<1>1. /\ tx[t].at = "wait" /\ lock[r] = NoTx
      /\ UNCHANGED <<now, alerts, room, opening, erasing, blurred>>
  BY DEF LockRoom
<1>2. /\ t \in Running /\ tx[t] \in TxType /\ tx[t].gathers = {} /\ tx[t].lapses = Unfiled
      /\ t \notin opening /\ TxInv(t) /\ Types
  BY <1>1, BeforeFiling DEF Running, RoomInv
<1>3. r \in Rooms /\ room[r].key = Key(tx[t].dev) /\ room[r] \in RoomType
  BY <1>1, <1>2 DEF TxInv, Waits, Types
<1>4. \/ /\ lock' = lock
         /\ tx' = [tx EXCEPT ![t].target = Unfiled, ![t].at = "decide"]
      \/ /\ room[r].status = "open" /\ lock' = [lock EXCEPT ![r] = t]
         /\ tx' = [tx EXCEPT ![t].at = "commit",
                             ![t].image = Restate(room[r], In(alerts, r) \cup {Alert(t)})]
      \/ /\ room[r].status = "open" /\ lock' = [lock EXCEPT ![r] = t]
         /\ tx' = [tx EXCEPT ![t].at = "decide", ![t].lapses = r, ![t].target = Unfiled]
      \/ /\ room[r].status = "open" /\ lock' = [lock EXCEPT ![r] = t]
         /\ tx' = [tx EXCEPT ![t].at = "commit", ![t].target = Unfiled]
  BY Zenon DEF LockRoom
<1>5. CASE lock' = lock /\ tx' = [tx EXCEPT ![t].target = Unfiled, ![t].at = "decide"]
  <2> DEFINE w == [tx[t] EXCEPT !.target = Unfiled, !.at = "decide"]
  <2>1. tx' = [tx EXCEPT ![t] = w]
    BY <1>5
  <2>2. /\ w \in TxType /\ w.at = "decide" /\ w.target = Unfiled /\ w.gathers = {}
        /\ w.lapses = Unfiled /\ w.dev = tx[t].dev /\ w.time = tx[t].time
        /\ w.severity = tx[t].severity
    BY <1>2 DEF TxType
  <2> HIDE DEF w
  <2>3. Lapses(t)' /\ lock' \in [Rooms -> Txs \cup {NoTx}]
    BY <1>2, <1>5, <2>1, <2>2 DEF Lapses, Types
  <2> QED BY <1>1, <1>2, <1>5, <2>1, <2>2, <2>3, StepsOn
<1>6. CASE /\ room[r].status = "open" /\ lock' = [lock EXCEPT ![r] = t]
           /\ tx' = [tx EXCEPT ![t].at = "commit",
                               ![t].image = Restate(room[r], In(alerts, r) \cup {Alert(t)})]
  <2> DEFINE m == Restate(room[r], In(alerts, r) \cup {} \cup {Alert(t)})
  <2> DEFINE w == [tx[t] EXCEPT !.at = "commit", !.target = r, !.gathers = {}, !.image = m]
  <2>1. In(alerts, r) \cup {} \cup {Alert(t)} = In(alerts, r) \cup {Alert(t)}
    OBVIOUS
  <2>2. tx' = [tx EXCEPT ![t].at = "commit", ![t].image = m]
    BY <1>6, <2>1
  <2> HIDE DEF m
  <2>3. [tx[t] EXCEPT !.at = "commit", !.image = m] = w
    BY <1>2 DEF TxType
  <2>4. tx' = [tx EXCEPT ![t] = w]
    BY <2>2, <2>3
  <2>5. room[r].quietAt = 0
    BY <1>3, <1>6 DEF RoomInv, RoomTimes
  <2>6. w = [tx[t] EXCEPT !.at = "commit", !.target = r, !.gathers = {},
                          !.image = Restate(room[r], In(alerts, r) \cup {} \cup {Alert(t)})]
    BY DEF m
  <2> HIDE DEF w, r
  <2>7. {} \in SUBSET alerts /\ \A a \in {} : a.room = Unfiled /\ Key(a.dev) = Key(tx[t].dev)
    OBVIOUS
  <2>8. UNCHANGED <<now, alerts, room, blurred, erasing>> /\ tx[t].at \in {"wait", "open"}
    BY <1>1
  <2>9. opening' = opening /\ room[r].status = "open" /\ room[r].key = Key(tx[t].dev)
    BY <1>1, <1>3, <1>6
  <2>10. lock[r] = NoTx /\ lock' = [lock EXCEPT ![r] = t] /\ r \in Rooms /\ room[r] \in RoomType
    BY <1>1, <1>3, <1>6
  <2> QED BY <2>4, <2>5, <2>6, <2>7, <2>8, <2>9, <2>10, StartsFiling
<1>7. CASE /\ room[r].status = "open" /\ lock' = [lock EXCEPT ![r] = t]
           /\ tx' = [tx EXCEPT ![t].at = "decide", ![t].lapses = r, ![t].target = Unfiled]
  <2> DEFINE w == [tx[t] EXCEPT !.at = "decide", !.lapses = r, !.target = Unfiled]
  <2>1. tx' = [tx EXCEPT ![t] = w]
    BY <1>7
  <2>2. /\ w \in TxType /\ w.at = "decide" /\ w.target = Unfiled /\ w.gathers = {}
        /\ w.lapses = r /\ w.dev = tx[t].dev /\ w.time = tx[t].time
        /\ w.severity = tx[t].severity
    BY <1>2, <1>3 DEF TxType
  <2> HIDE DEF w, r
  <2>3. tx'[t] = w /\ lock'[r] = t /\ lock' \in [Rooms -> Txs \cup {NoTx}]
        /\ \A q \in Rooms : lock[q] # lock'[q] => lock[q] \in {t, NoTx}
    BY <1>1, <1>2, <1>3, <1>7, <2>1 DEF Types
  <2>4. Lapses(t)'
    BY <1>1, <1>3, <1>7, <2>2, <2>3 DEF Lapses, Key
  <2> QED BY <1>1, <1>2, <2>1, <2>2, <2>3, <2>4, StepsOn
<1>8. CASE /\ lock' = [lock EXCEPT ![r] = t]
           /\ tx' = [tx EXCEPT ![t].at = "commit", ![t].target = Unfiled]
  <2> DEFINE w == [tx[t] EXCEPT !.at = "commit", !.target = Unfiled]
  <2>1. tx' = [tx EXCEPT ![t] = w]
    BY <1>8
  <2>2. /\ w \in TxType /\ w.at = "commit" /\ w.target = Unfiled /\ w.gathers = {}
        /\ w.lapses = Unfiled /\ w.dev = tx[t].dev /\ w.time = tx[t].time
        /\ w.severity = tx[t].severity
    BY <1>2, <1>3 DEF TxType
  <2> HIDE DEF w, r
  <2>3. tx'[t] = w /\ lock' \in [Rooms -> Txs \cup {NoTx}]
        /\ \A q \in Rooms : lock[q] # lock'[q] => lock[q] \in {t, NoTx}
    BY <1>1, <1>2, <1>3, <1>8, <2>1 DEF Types
  <2>4. Lapses(t)'
    BY <2>2, <2>3 DEF Lapses
  <2> QED BY <1>1, <1>2, <2>1, <2>2, <2>3, <2>4, StepsOn
<1> QED BY <1>4, <1>5, <1>6, <1>7, <1>8

\* opensARoom.
LEMMA DecideKeeps ==
    ASSUME RoomInv, NEW t \in Txs, Decide(t)
    PROVE  RoomInv'
<1>1. /\ tx[t].at = "decide"
      /\ UNCHANGED <<now, alerts, room, lock, opening, erasing, blurred>>
      /\ tx' = [tx EXCEPT ![t].at = IF OpensARoom(t) THEN "open" ELSE "commit"]
  BY DEF Decide
<1>2. PICK p \in {"open", "commit"} : tx' = [tx EXCEPT ![t].at = p]
  BY <1>1
<1> DEFINE w == [tx[t] EXCEPT !.at = p]
<1>3. /\ t \in Running /\ tx[t] \in TxType /\ tx[t].gathers = {} /\ TxInv(t) /\ Types
  BY <1>1, BeforeFiling DEF Running, RoomInv
<1>4. tx[t].target = Unfiled
  BY <1>1, <1>3 DEF TxInv, Places
<1>5. tx' = [tx EXCEPT ![t] = w]
  BY <1>2
<1>6. /\ w \in TxType /\ w.at = p /\ w.target = Unfiled /\ w.gathers = {}
      /\ w.lapses = tx[t].lapses /\ w.dev = tx[t].dev /\ w.time = tx[t].time
      /\ w.severity = tx[t].severity
  BY <1>2, <1>3, <1>4 DEF TxType
<1> HIDE DEF w
<1>7. tx'[t] = w /\ lock' \in [Rooms -> Txs \cup {NoTx}]
  BY <1>1, <1>3, <1>5 DEF Types
<1>8. Lapses(t)'
  BY <1>1, <1>2, <1>3, <1>6, <1>7 DEF TxInv, Lapses, Key
<1> QED BY <1>1, <1>2, <1>3, <1>5, <1>6, <1>7, <1>8, StepsOn

\* openRoom.
LEMMA OpenOrJoinKeeps ==
    ASSUME RoomInv, NEW t \in Txs, OpenOrJoin(t)
    PROVE  RoomInv'
<1> DEFINE k == Key(tx[t].dev)
<1> DEFINE fileInto(r, image) ==
             tx' = [tx EXCEPT ![t].at = "commit", ![t].target = r, ![t].gathers = Pending(t),
                      ![t].image = Restate(image, In(alerts, r) \cup Pending(t) \cup {Alert(t)})]
<1>1. /\ tx[t].at = "open" /\ UNCHANGED <<now, alerts, room, erasing, blurred>>
  BY DEF OpenOrJoin
<1>2. \/ \E r \in OpenRooms(k) \ {tx[t].lapses} :
            /\ lock[r] = NoTx /\ lock' = [lock EXCEPT ![r] = t]
            /\ fileInto(r, room[r]) /\ UNCHANGED opening
      \/ /\ OpenRooms(k) \ {tx[t].lapses} = {} /\ (\A u \in opening : Key(tx[u].dev) # k)
         /\ \E r \in Rooms :
              /\ room[r].status = "absent" /\ lock[r] = NoTx
              /\ lock' = [lock EXCEPT ![r] = t]
              /\ fileInto(r, [NoRoom EXCEPT !.key = k, !.status = "open"])
         /\ opening' = opening \cup {t}
  BY Zenon DEF OpenOrJoin
<1>3. /\ Pending(t) \in SUBSET alerts
      /\ \A a \in Pending(t) : a.room = Unfiled /\ Key(a.dev) = Key(tx[t].dev)
  BY DEF Pending
<1>4. t \in Running /\ tx[t] \in TxType /\ Types
  BY <1>1, BeforeFiling DEF Running, RoomInv
<1>5. CASE \E r \in OpenRooms(k) \ {tx[t].lapses} :
             /\ lock[r] = NoTx /\ lock' = [lock EXCEPT ![r] = t]
             /\ fileInto(r, room[r]) /\ UNCHANGED opening
  <2>1. PICK r \in OpenRooms(k) : /\ lock[r] = NoTx /\ lock' = [lock EXCEPT ![r] = t]
                                  /\ fileInto(r, room[r]) /\ UNCHANGED opening
    BY <1>5
  <2>2. r \in Rooms /\ room[r].key = k /\ room[r].status = "open"
    BY DEF OpenRooms
  <2>3. room[r] \in RoomType /\ room[r].quietAt = 0
    BY <1>4, <2>2 DEF Types, RoomInv, RoomTimes
  <2> DEFINE w == [tx[t] EXCEPT !.at = "commit", !.target = r, !.gathers = Pending(t),
                   !.image = Restate(room[r], In(alerts, r) \cup Pending(t) \cup {Alert(t)})]
  <2>4. tx' = [tx EXCEPT ![t] = w]
    BY <2>1
  <2>5. w = [tx[t] EXCEPT !.at = "commit", !.target = r, !.gathers = Pending(t),
                   !.image = Restate(room[r], In(alerts, r) \cup Pending(t) \cup {Alert(t)})]
    OBVIOUS
  <2> HIDE DEF w
  <2>6. UNCHANGED <<now, alerts, room, blurred, erasing>> /\ tx[t].at \in {"wait", "open"}
    BY <1>1
  <2>7. opening' = opening /\ room[r].status = "open" /\ room[r].key = Key(tx[t].dev)
        /\ lock[r] = NoTx /\ lock' = [lock EXCEPT ![r] = t]
    BY <2>1, <2>2
  <2> QED BY <1>3, <2>2, <2>3, <2>4, <2>5, <2>6, <2>7, StartsFiling
<1>6. CASE /\ OpenRooms(k) \ {tx[t].lapses} = {} /\ (\A u \in opening : Key(tx[u].dev) # k)
           /\ \E r \in Rooms :
                /\ room[r].status = "absent" /\ lock[r] = NoTx
                /\ lock' = [lock EXCEPT ![r] = t]
                /\ fileInto(r, [NoRoom EXCEPT !.key = k, !.status = "open"])
           /\ opening' = opening \cup {t}
  <2> DEFINE i == [NoRoom EXCEPT !.key = k, !.status = "open"]
  <2>1. PICK r \in Rooms : /\ room[r].status = "absent" /\ lock[r] = NoTx
                           /\ lock' = [lock EXCEPT ![r] = t] /\ fileInto(r, i)
    BY <1>6
  <2>2. k \in Keys
    BY <1>4 DEF Types, Key, Keys
  <2>3. i \in RoomType /\ i.key = k /\ i.status = "open" /\ i.quietAt = 0
    BY <2>2, Blanks DEF RoomType, NoRoom
  <2> HIDE DEF i
  <2> DEFINE w == [tx[t] EXCEPT !.at = "commit", !.target = r, !.gathers = Pending(t),
                   !.image = Restate(i, In(alerts, r) \cup Pending(t) \cup {Alert(t)})]
  <2>4. tx' = [tx EXCEPT ![t] = w]
    BY <2>1
  <2>5. w = [tx[t] EXCEPT !.at = "commit", !.target = r, !.gathers = Pending(t),
                   !.image = Restate(i, In(alerts, r) \cup Pending(t) \cup {Alert(t)})]
    OBVIOUS
  <2> HIDE DEF w
  <2>6. UNCHANGED <<now, alerts, room, blurred, erasing>> /\ tx[t].at \in {"wait", "open"}
    BY <1>1
  <2>7. /\ opening' = opening \cup {t} /\ room[r].status = "absent"
        /\ OpenRooms(Key(tx[t].dev)) \subseteq {tx[t].lapses}
        /\ \A u \in opening : Key(tx[u].dev) # Key(tx[t].dev)
    BY <1>6, <2>1
  <2>8. lock[r] = NoTx /\ lock' = [lock EXCEPT ![r] = t]
    BY <2>1
  <2> QED BY <1>3, <2>3, <2>4, <2>5, <2>6, <2>7, <2>8, StartsFiling
<1> QED BY <1>2, <1>5, <1>6

\* A failed transaction leaves nothing behind.
LEMMA RollbackKeeps ==
    ASSUME RoomInv, NEW t \in Txs, Rollback(t)
    PROVE  RoomInv'
<1>1. /\ tx' = [tx EXCEPT ![t] = IdleTx]
      /\ lock' = [r \in Rooms |-> IF lock[r] = t THEN NoTx ELSE lock[r]]
      /\ opening' = opening \ {t}
      /\ UNCHANGED <<now, alerts, room, erasing, blurred>>
  BY DEF Rollback, Release
<1>2. tx'[t] = IdleTx /\ opening' \subseteq Txs /\ lock' \in [Rooms -> Txs \cup {NoTx}]
      /\ \A r \in Rooms : lock[r] # lock'[r] => lock[r] \in {t, NoTx}
  BY <1>1 DEF RoomInv, Types
<1>3. TxInv(t)'
  <2>1. ~Filing(t)' /\ Waits(t)' /\ Lapses(t)'
    BY <1>2, Blanks DEF Filing, Waits, Lapses
  <2> QED BY <1>1, <1>2, <2>1, Blanks, NotFiling
<1> QED BY <1>1, <1>2, <1>3, Blanks, OwnStep

-----------------------------------------------------------------------------
(* Commit *)

\* An alert in its room: who, when and how bad stay.
LEMMA Refiled ==
    ASSUME NEW a \in AlertType, NEW r \in Rooms \cup {Unfiled}
    PROVE  /\ [a EXCEPT !.room = r] \in AlertType /\ [a EXCEPT !.room = r].room = r
           /\ [a EXCEPT !.room = r].dev = a.dev /\ [a EXCEPT !.room = r].time = a.time
           /\ a.room = r => [a EXCEPT !.room = r] = a
BY DEF AlertType

\* The alerts after a commit: at most one more, each with an identity it had, and
\* the room holds just what its image counted.
LEMMA CommitAlerts ==
    ASSUME RoomInv, NEW t \in Txs, Commit(t)
    PROVE  /\ alerts' \subseteq AlertType /\ IsFiniteSet(alerts')
           /\ Cardinality(alerts') <= Cardinality(alerts) + 1
           /\ \A b \in alerts' :
                \/ b \in alerts /\ b \notin tx[t].gathers
                \/ \E a \in tx[t].gathers \cup {Alert(t)} :
                     a.dev = b.dev /\ a.time = b.time /\ b = [a EXCEPT !.room = tx[t].target]
           /\ \A r \in Rooms : r # tx[t].target => In(alerts', r) = In(alerts, r)
           /\ \A a \in alerts : a.room = Unfiled /\ a \notin tx[t].gathers => a \in alerts'
           /\ tx[t].target \in Rooms =>
                /\ Cardinality(In(alerts', tx[t].target)) = Cardinality(Filed(t))
                /\ DevicesOf(In(alerts', tx[t].target)) = DevicesOf(Filed(t))
                /\ \A b \in In(alerts', tx[t].target) : \E a \in Filed(t) : a.time = b.time
<1>1. PICK into, G, A : into = tx[t].target /\ G = tx[t].gathers /\ A = Alert(t)
  OBVIOUS
<1> DEFINE put(a) == [a EXCEPT !.room = into]
<1>2. alerts' = (alerts \ G) \cup {put(a) : a \in G \cup {A}}
  BY <1>1 DEF Commit
<1>3. /\ t \in Running /\ Types /\ Identities /\ TxInv(t) /\ tx[t] \in TxType
  BY DEF Commit, RoomInv, Types, Running
<1>4. /\ A \in AlertType /\ A.room = Unfiled /\ A.dev = tx[t].dev /\ A.time = tx[t].time
      /\ into \in Rooms \cup {Unfiled} /\ alerts \subseteq AlertType /\ IsFiniteSet(alerts)
  BY <1>1, <1>3, AlertOf DEF TxType, Types
<1>5. G \subseteq alerts /\ (\A a \in G : a.room = Unfiled) /\ Unfiled \notin Rooms
  BY <1>1, <1>3 DEF TxInv, Gathers, Unfiled, Rooms
<1>6. \A a \in AlertType : /\ put(a) \in AlertType /\ put(a).room = into /\ put(a).dev = a.dev
                           /\ put(a).time = a.time /\ (a.room = into => put(a) = a)
  BY <1>4, Refiled
<1>7. \A a \in alerts \cup {A}, b \in alerts \cup {A} : a.dev = b.dev /\ a.time = b.time => a = b
  BY <1>3, <1>4 DEF Identities
<1> HIDE DEF put
<1>8. alerts' \subseteq AlertType
  BY <1>2, <1>4, <1>5, <1>6
<1>9. /\ IsFiniteSet(alerts \cup {A}) /\ Cardinality(alerts \cup {A}) \in Nat /\ Cardinality(alerts) \in Nat
      /\ Cardinality(alerts \cup {A}) <= Cardinality(alerts) + 1
  <2>1. /\ IsFiniteSet(alerts \cup {A}) /\ Cardinality(alerts) \in Nat
        /\ Cardinality(alerts \cup {A}) = IF A \in alerts THEN Cardinality(alerts) ELSE Cardinality(alerts) + 1
    BY <1>4, FS_AddElement, FS_CardinalityType
  <2> QED BY <2>1
<1>10. IsFiniteSet(alerts') /\ Cardinality(alerts') <= Cardinality(alerts) + 1
  <2> DEFINE f == [a \in alerts \cup {A} |-> IF a \in G \cup {A} THEN put(a) ELSE a]
  <2>1. \A a \in alerts \cup {A} : f[a] \in alerts'
    BY <1>2
  <2>2. ASSUME NEW b \in alerts' PROVE \E a \in alerts \cup {A} : f[a] = b
    <3>1. CASE b \in alerts \ G
      <4>1. b # A
        BY <1>3, <1>4, <3>1 DEF Identities
      <4> QED BY <3>1, <4>1
    <3>2. CASE b \in {put(a) : a \in G \cup {A}}
      <4>1. PICK a \in G \cup {A} : b = put(a)
        BY <3>2
      <4> QED BY <1>5, <4>1
    <3> QED BY <1>2, <3>1, <3>2
  <2>3. f \in [alerts \cup {A} -> alerts']
    BY <2>1
  <2>4. f \in Surjection(alerts \cup {A}, alerts')
    BY <2>2, <2>3 DEF Surjection
  <2> HIDE DEF f
  <2>5. IsFiniteSet(alerts') /\ Cardinality(alerts') <= Cardinality(alerts \cup {A})
    BY <1>9, <2>4, FS_Surjection
  <2>6. Cardinality(alerts') \in Nat
    BY <2>5, FS_CardinalityType
  <2> QED BY <1>9, <2>5, <2>6
<1>11. ASSUME NEW b \in alerts'
       PROVE  \/ b \in alerts /\ b \notin tx[t].gathers
              \/ \E a \in tx[t].gathers \cup {Alert(t)} :
                   a.dev = b.dev /\ a.time = b.time /\ b = [a EXCEPT !.room = tx[t].target]
  <2>1. CASE b \in alerts \ G
    BY <1>1, <2>1
  <2>2. CASE b \in {put(a) : a \in G \cup {A}}
    <3>1. PICK a \in G \cup {A} : b = put(a)
      BY <2>2
    <3>2. a \in AlertType
      BY <1>4, <1>5
    <3>3. a.dev = b.dev /\ a.time = b.time
      BY <1>6, <3>1, <3>2
    <3> QED BY <1>1, <3>1, <3>3 DEF put
  <2> QED BY <1>2, <2>1, <2>2
<1>12. ASSUME NEW r \in Rooms, r # into
       PROVE  In(alerts', r) = In(alerts, r)
  <2>1. \A a \in G \cup {A} : put(a).room = into
    BY <1>4, <1>5, <1>6
  <2>2. r # Unfiled
    BY <1>5
  <2> QED BY <1>2, <1>5, <1>12, <2>1, <2>2 DEF In
<1>13. \A a \in alerts : a.room = Unfiled /\ a \notin G => a \in alerts'
  BY <1>2
<1>14. ASSUME into \in Rooms
       PROVE  /\ Cardinality(In(alerts', into)) = Cardinality(Filed(t))
              /\ DevicesOf(In(alerts', into)) = DevicesOf(Filed(t))
              /\ \A b \in In(alerts', into) : \E a \in Filed(t) : a.time = b.time
  <2>1. PICK S : S = Filed(t)
    OBVIOUS
  <2>2. S = In(alerts, into) \cup G \cup {A} /\ S \subseteq alerts \cup {A} /\ S \subseteq AlertType
    BY <1>1, <1>4, <1>5, <2>1 DEF Filed, In
  <2>3. In(alerts', into) = {put(a) : a \in S}
    <3>1. ASSUME NEW b \in In(alerts', into) PROVE b \in {put(a) : a \in S}
      <4>1. b \in alerts' /\ b.room = into
        BY <3>1 DEF In
      <4>2. CASE b \in alerts \ G
        <5>1. b \in S /\ b \in AlertType
          BY <1>4, <2>2, <4>1, <4>2 DEF In
        <5>2. put(b) = b
          BY <1>6, <4>1, <5>1
        <5> QED BY <5>1, <5>2
      <4>3. CASE b \in {put(a) : a \in G \cup {A}}
        BY <2>2, <4>3
      <4> QED BY <1>2, <4>1, <4>2, <4>3
    <3>2. ASSUME NEW a \in S PROVE put(a) \in In(alerts', into)
      <4>1. put(a).room = into
        BY <1>6, <2>2
      <4>2. CASE a \in G \cup {A}
        BY <1>2, <4>1, <4>2 DEF In
      <4>3. CASE a \in In(alerts, into)
        <5>1. a \in alerts /\ a.room = into /\ a \in AlertType
          BY <1>4, <4>3 DEF In
        <5>2. a \notin G
          BY <1>5, <1>14, <5>1
        <5>3. put(a) = a
          BY <1>6, <5>1
        <5> QED BY <1>2, <5>1, <5>2, <5>3 DEF In
      <4> QED BY <2>2, <4>2, <4>3
    <3> QED BY <3>1, <3>2
  <2> DEFINE f == [a \in S |-> put(a)]
  <2>4. f \in Surjection(S, In(alerts', into))
    BY <2>3 DEF Surjection
  <2>5. f \in Injection(S, In(alerts', into))
    <3>1. ASSUME NEW a \in S, NEW b \in S, put(a) = put(b) PROVE a = b
      <4>1. a \in AlertType /\ b \in AlertType /\ a \in alerts \cup {A} /\ b \in alerts \cup {A}
        BY <2>2
      <4>2. a.dev = b.dev /\ a.time = b.time
        BY <1>6, <3>1, <4>1
      <4> QED BY <1>7, <4>1, <4>2
    <3> QED BY <2>4, <3>1 DEF Injection, Surjection, IsInjective
  <2>6. IsFiniteSet(S)
    BY <1>9, <2>2, FS_Subset
  <2> HIDE DEF f
  <2>7. Cardinality(In(alerts', into)) = Cardinality(S)
    BY <2>4, <2>5, <2>6, FS_Surjection
  <2>8. DevicesOf(In(alerts', into)) = DevicesOf(S)
    BY <1>6, <2>2, <2>3 DEF DevicesOf
  <2>9. \A b \in In(alerts', into) : \E a \in S : a.time = b.time
    BY <1>6, <2>2, <2>3
  <2> QED BY <2>1, <2>7, <2>8, <2>9
<1>15. /\ \A r \in Rooms : r # tx[t].target => In(alerts', r) = In(alerts, r)
       /\ \A a \in alerts : a.room = Unfiled /\ a \notin tx[t].gathers => a \in alerts'
       /\ tx[t].target \in Rooms =>
            /\ Cardinality(In(alerts', tx[t].target)) = Cardinality(Filed(t))
            /\ DevicesOf(In(alerts', tx[t].target)) = DevicesOf(Filed(t))
            /\ \A b \in In(alerts', tx[t].target) : \E a \in Filed(t) : a.time = b.time
  BY <1>1, <1>12, <1>13, <1>14
<1> QED BY <1>8, <1>10, <1>11, <1>15

\* The rooms after a commit: the one it writes, the one it closes, and the rest.
LEMMA CommitRooms ==
    ASSUME RoomInv, NEW t \in Txs, Commit(t)
    PROVE  /\ t \in Running /\ TxInv(t) /\ Types
           /\ room' \in [Rooms -> RoomType]
           /\ tx[t].target \in Rooms =>
                /\ Filing(t) /\ lock[tx[t].target] = t /\ room'[tx[t].target] = tx[t].image
           /\ tx[t].lapses \in Rooms =>
                /\ lock[tx[t].lapses] = t /\ room[tx[t].lapses].status = "open"
                /\ tx[t].lapses # tx[t].target =>
                     /\ room'[tx[t].lapses].status = Closed
                     /\ room'[tx[t].lapses].quietAt = room[tx[t].lapses].last + Window
                     /\ room'[tx[t].lapses].key = room[tx[t].lapses].key
                     /\ room'[tx[t].lapses].last = room[tx[t].lapses].last
                     /\ room'[tx[t].lapses].occurrences = room[tx[t].lapses].occurrences
                     /\ room'[tx[t].lapses].devices = room[tx[t].lapses].devices
           /\ \A r \in Rooms : r \notin {tx[t].target, tx[t].lapses} => room'[r] = room[r]
<1>1. t \in Running /\ TxInv(t) /\ Types /\ tx[t] \in TxType /\ Unfiled \notin Rooms
  <2>1. Unfiled \notin Rooms
    BY DEF Unfiled, Rooms
  <2> QED BY <2>1 DEF Commit, RoomInv, Types, Running
<1>2. PICK into, left, m : into = tx[t].target /\ left = tx[t].lapses /\ m = tx[t].image
  OBVIOUS
<1> DEFINE shut(r) == [room[r] EXCEPT !.status = Closed, !.quietAt = room[r].last + Window]
<1>3. room' = [r \in Rooms |-> IF r = into THEN m ELSE IF r = left THEN shut(r) ELSE room[r]]
  BY <1>2 DEF Commit
<1>4. \A r \in Rooms : /\ shut(r) \in RoomType /\ shut(r).status = Closed
                       /\ shut(r).quietAt = room[r].last + Window
                       /\ shut(r).key = room[r].key /\ shut(r).last = room[r].last
                       /\ shut(r).occurrences = room[r].occurrences
                       /\ shut(r).devices = room[r].devices
  <2> TAKE r \in Rooms
  <2>1. room[r] \in RoomType
    BY <1>1 DEF Types
  <2>2. room[r].last + Window \in Nat
    BY <2>1, IncidentsAssumption DEF RoomType
  <2> QED BY <2>1, <2>2 DEF RoomType, Closed
<1>5. m \in RoomType /\ \A r \in Rooms : room[r] \in RoomType
  BY <1>1, <1>2 DEF Types, TxType
<1> HIDE DEF shut
<1>6. room' \in [Rooms -> RoomType]
  BY <1>3, <1>4, <1>5
<1>7. into \in Rooms => Filing(t) /\ lock[into] = t /\ room'[into] = m
  <2> HAVE into \in Rooms
  <2>1. Filing(t)
    BY <1>1, <1>2 DEF Commit, Filing
  <2> QED BY <1>1, <1>2, <1>3, <2>1 DEF TxInv, Places
<1>8. left \in Rooms => lock[left] = t /\ room[left].status = "open"
                        /\ (left # into => room'[left] = shut(left))
  <2>1. left \in Rooms => lock[left] = t /\ room[left].status = "open"
    BY <1>1, <1>2 DEF TxInv, Lapses
  <2> QED BY <1>3, <2>1
<1>9. \A r \in Rooms : r \notin {into, left} => room'[r] = room[r]
  BY <1>3
<1> QED BY <1>1, <1>2, <1>4, <1>6, <1>7, <1>8, <1>9

\* Another transaction finds the rows it holds, and what it has gathered, as before.
LEMMA CommitOthers ==
    ASSUME RoomInv, NEW t \in Txs, Commit(t), NEW u \in Txs, u # t
    PROVE  TxInv(u)'
<1>1. PICK into, left : into = tx[t].target /\ left = tx[t].lapses
  OBVIOUS
<1>2. /\ t \in Running /\ TxInv(t) /\ Types /\ room' \in [Rooms -> RoomType]
      /\ into \in Rooms => Filing(t) /\ lock[into] = t /\ room'[into] = tx[t].image
      /\ left \in Rooms => /\ lock[left] = t /\ room[left].status = "open"
                           /\ left # into => room'[left].status = Closed /\ room'[left].key = room[left].key
      /\ \A r \in Rooms : r \notin {into, left} => room'[r] = room[r]
  BY <1>1, CommitRooms
<1>3. /\ \A r \in Rooms : r # into => In(alerts', r) = In(alerts, r)
      /\ \A a \in alerts : a.room = Unfiled /\ a \notin tx[t].gathers => a \in alerts'
  BY <1>1, CommitAlerts
<1>4. /\ tx' = [tx EXCEPT ![t] = IdleTx] /\ opening' = opening \ {t} /\ blurred' = blurred
      /\ lock' = [r \in Rooms |-> IF lock[r] = t THEN NoTx ELSE lock[r]]
  BY DEF Commit, Release
<1>5. /\ tx'[u] = tx[u] /\ (u \in opening' <=> u \in opening) /\ TxInv(u) /\ tx[u] \in TxType
      /\ Unfiled \notin Rooms
  <2>1. Unfiled \notin Rooms
    BY DEF Unfiled, Rooms
  <2> QED BY <1>2, <1>4, <2>1 DEF Types, RoomInv
<1>6. \A r \in Rooms : lock[r] = u => lock'[r] = u /\ room'[r] = room[r] /\ r # into
  BY <1>2, <1>4
<1>7. /\ tx[u].target \in Rooms \cup {Unfiled} /\ tx[u].lapses \in Rooms \cup {Unfiled}
      /\ Key(tx[u].dev)' = Key(tx[u].dev) /\ Filing(u)' = Filing(u) /\ Alert(u)' = Alert(u)
  BY <1>5 DEF TxType, Key, Filing, Alert
<1>8. Filing(t) /\ Filing(u) => Key(tx[t].dev) # Key(tx[u].dev)
  BY FilingAlone
<1>9. into \in Rooms => /\ tx[t].image.status = "open" /\ tx[t].image.key = Key(tx[t].dev)
                        /\ room[into].status = "absent" \/ room[into].key = Key(tx[t].dev)
  BY <1>1, <1>2 DEF TxInv, Images, Places
<1>10. Waits(u)'
  <2> SUFFICES ASSUME tx[u].at = "wait"
               PROVE  /\ tx[u].target \in Rooms /\ room'[tx[u].target].key = Key(tx[u].dev)
                      /\ room'[tx[u].target].status # "absent"
    BY <1>5, <1>7 DEF Waits
  <2>1. /\ tx[u].target \in Rooms /\ room[tx[u].target].key = Key(tx[u].dev)
        /\ room[tx[u].target].status # "absent"
    BY <1>5 DEF TxInv, Waits
  <2>2. CASE tx[u].target = into
    BY <1>2, <1>9, <2>1, <2>2
  <2>3. CASE tx[u].target = left /\ left # into
    BY <1>2, <2>1, <2>3 DEF Closed
  <2>4. CASE tx[u].target \notin {left, into}
    BY <1>2, <2>1, <2>4
  <2> QED BY <2>1, <2>2, <2>3, <2>4
<1>11. Lapses(u)'
  <2> SUFFICES ASSUME tx[u].lapses # Unfiled PROVE Lapses(u)'
    BY <1>5 DEF Lapses
  <2>1. /\ tx[u].lapses \in Rooms /\ lock[tx[u].lapses] = u
        /\ tx[u].at \in {"decide", "open", "commit"}
        /\ room[tx[u].lapses].status = "open" /\ room[tx[u].lapses].key = Key(tx[u].dev)
    BY <1>5, <1>7 DEF TxInv, Lapses
  <2>2. lock'[tx[u].lapses] = u /\ room'[tx[u].lapses] = room[tx[u].lapses]
    BY <1>6, <2>1
  <2> QED BY <1>5, <1>7, <2>1, <2>2 DEF Lapses
<1>12. Filing(u) => tx[u].target \in Rooms /\ lock[tx[u].target] = u
  BY <1>5, <1>7 DEF TxInv, Places, Filing
<1>13. Places(u)'
  <2>1. Filing(u) => /\ lock'[tx[u].target] = u /\ room'[tx[u].target] = room[tx[u].target]
    BY <1>6, <1>12
  <2>2. u \in opening => Filing(u)
    BY <1>5 DEF TxInv, Places
  <2>3. ASSUME u \in opening
        PROVE  OpenRooms(Key(tx[u].dev))' \subseteq {tx[u].lapses}
    <3>1. OpenRooms(Key(tx[u].dev)) \subseteq {tx[u].lapses}
      BY <1>5, <2>3 DEF TxInv, Places
    <3>2. ASSUME NEW r \in Rooms, room'[r].key = Key(tx[u].dev), room'[r].status = "open"
          PROVE  room[r].key = Key(tx[u].dev) /\ room[r].status = "open"
      <4>1. CASE r = into
        <5>1. Filing(t) /\ Key(tx[t].dev) = Key(tx[u].dev)
          BY <1>2, <1>9, <3>2, <4>1
        <5> QED BY <1>8, <2>2, <2>3, <5>1
      <4>2. CASE r = left /\ left # into
        BY <1>2, <3>2, <4>2 DEF Closed
      <4>3. CASE r \notin {into, left}
        BY <1>2, <3>2, <4>3
      <4> QED BY <4>1, <4>2, <4>3
    <3>3. OpenRooms(Key(tx[u].dev))' \subseteq OpenRooms(Key(tx[u].dev))
      BY <1>7, <3>2 DEF OpenRooms
    <3> QED BY <3>1, <3>3
  <2> QED BY <1>5, <1>7, <2>1, <2>2, <2>3 DEF TxInv, Places
<1>14. Gathers(u)'
  <2>1. /\ tx[u].gathers \subseteq alerts
        /\ \A a \in tx[u].gathers : a.room = Unfiled /\ Key(a.dev) = Key(tx[u].dev)
    BY <1>5 DEF TxInv, Gathers
  <2>2. ASSUME NEW a \in tx[u].gathers PROVE a \notin tx[t].gathers
    <3> SUFFICES ASSUME a \in tx[t].gathers PROVE FALSE
      OBVIOUS
    <3>1. Filing(t) /\ Filing(u)
      BY <1>2, <1>5 DEF TxInv, Places
    <3>2. Key(tx[t].dev) = Key(tx[u].dev)
      BY <1>2, <2>1 DEF TxInv, Gathers
    <3> QED BY <1>8, <3>1, <3>2
  <2>3. tx[u].gathers \subseteq alerts'
    BY <1>3, <2>1, <2>2
  <2> QED BY <1>5, <1>7, <2>1, <2>3 DEF Gathers, Key
<1>15. Images(u)'
  <2> SUFFICES ASSUME Filing(u) PROVE Images(u)'
    BY <1>7 DEF Images
  <2>1. In(alerts', tx[u].target) = In(alerts, tx[u].target)
    BY <1>3, <1>6, <1>12
  <2>2. Filed(u)' = Filed(u)
    BY <1>5, <1>7, <2>1 DEF Filed, In
  <2> QED BY <1>4, <1>5, <1>7, <2>2 DEF TxInv, Images
<1> QED BY <1>10, <1>11, <1>13, <1>14, <1>15 DEF TxInv

\* And the rooms and alerts are as its image said.
LEMMA CommitKeeps ==
    ASSUME RoomInv, NEW t \in Txs, Commit(t)
    PROVE  RoomInv'
<1>1. PICK into, left, m, G, A :
        /\ into = tx[t].target /\ left = tx[t].lapses /\ m = tx[t].image
        /\ G = tx[t].gathers /\ A = Alert(t)
  OBVIOUS
<1>2. /\ t \in Running /\ TxInv(t) /\ Types /\ room' \in [Rooms -> RoomType]
      /\ into \in Rooms => Filing(t) /\ lock[into] = t /\ room'[into] = m
      /\ left \in Rooms =>
           /\ lock[left] = t /\ room[left].status = "open"
           /\ left # into => /\ room'[left].status = Closed /\ room'[left].key = room[left].key
                             /\ room'[left].quietAt = room[left].last + Window
                             /\ room'[left].last = room[left].last
                             /\ room'[left].occurrences = room[left].occurrences
                             /\ room'[left].devices = room[left].devices
      /\ \A r \in Rooms : r \notin {into, left} => room'[r] = room[r]
  BY <1>1, CommitRooms
<1>3. /\ alerts' \subseteq AlertType /\ IsFiniteSet(alerts')
      /\ \A b \in alerts' :
           \/ b \in alerts /\ b \notin G
           \/ \E a \in G \cup {A} :
                a.dev = b.dev /\ a.time = b.time /\ b = [a EXCEPT !.room = into]
      /\ \A r \in Rooms : r # into => In(alerts', r) = In(alerts, r)
      /\ into \in Rooms =>
           /\ Cardinality(In(alerts', into)) = Cardinality(Filed(t))
           /\ DevicesOf(In(alerts', into)) = DevicesOf(Filed(t))
           /\ \A b \in In(alerts', into) : \E a \in Filed(t) : a.time = b.time
  BY <1>1, CommitAlerts
<1>4. /\ tx' = [tx EXCEPT ![t] = IdleTx] /\ opening' = opening \ {t}
      /\ UNCHANGED <<now, erasing, blurred>>
      /\ lock' = [r \in Rooms |-> IF lock[r] = t THEN NoTx ELSE lock[r]]
  BY DEF Commit, Release
<1>5. /\ tx'[t] = IdleTx /\ (\A u \in Txs \ {t} : tx'[u] = tx[u]) /\ Running' = Running \ {t}
      /\ tx' \in [Txs -> TxType] /\ lock' \in [Rooms -> Txs \cup {NoTx}]
  <2>1. /\ tx'[t] = IdleTx /\ (\A u \in Txs \ {t} : tx'[u] = tx[u])
        /\ tx' \in [Txs -> TxType] /\ lock' \in [Rooms -> Txs \cup {NoTx}]
    BY <1>2, <1>4, Blanks DEF Types
  <2> QED BY <2>1, Blanks DEF Running
<1>6. G \subseteq alerts /\ A.dev = tx[t].dev /\ A.time = tx[t].time
  BY <1>1, <1>2, AlertOf DEF TxInv, Gathers
<1>7. into \in Rooms =>
        /\ m.key = Key(tx[t].dev) /\ m.status = "open" /\ m.quietAt = 0
        /\ \A a \in Filed(t) : a.time <= m.last
        /\ into \notin blurred => /\ m.occurrences = Cardinality(Filed(t))
                                  /\ m.devices = Cardinality(DevicesOf(Filed(t)))
  BY <1>1, <1>2 DEF TxInv, Images
<1>8. Types'
  BY <1>2, <1>3, <1>4, <1>5 DEF Types
<1>9. Identities'
  <2>1. \A a \in alerts, b \in alerts : a.dev = b.dev /\ a.time = b.time => a = b
    BY DEF RoomInv, Identities
  <2>2. \A a \in alerts : ~(a.dev = A.dev /\ a.time = A.time)
    BY <1>2, <1>6 DEF RoomInv, Identities
  <2>3. ASSUME NEW b \in alerts', NEW c \in alerts', b.dev = c.dev, b.time = c.time
        PROVE  b = c
    <3>1. CASE b \in alerts \ G /\ c \in alerts \ G
      BY <2>1, <2>3, <3>1
    <3>2. ASSUME NEW x \in alerts \ G, NEW a \in G \cup {A}
          PROVE  ~(x.dev = a.dev /\ x.time = a.time)
      BY <1>6, <2>1, <2>2, <3>2
    <3>3. CASE b \in alerts \ G /\ c \notin alerts \ G
      BY <1>3, <2>3, <3>2, <3>3
    <3>4. CASE b \notin alerts \ G /\ c \in alerts \ G
      BY <1>3, <2>3, <3>2, <3>4
    <3>5. CASE b \notin alerts \ G /\ c \notin alerts \ G
      <4>1. PICK a \in G \cup {A} : a.dev = b.dev /\ a.time = b.time /\ b = [a EXCEPT !.room = into]
        BY <1>3, <3>5
      <4>2. PICK e \in G \cup {A} : e.dev = c.dev /\ e.time = c.time /\ c = [e EXCEPT !.room = into]
        BY <1>3, <3>5
      <4>3. a = e
        BY <1>6, <2>1, <2>2, <2>3, <4>1, <4>2
      <4> QED BY <4>1, <4>2, <4>3
    <3> QED BY <3>1, <3>3, <3>4, <3>5
  <2>4. ASSUME NEW u \in Running', NEW b \in alerts'
        PROVE  ~(b.dev = tx'[u].dev /\ b.time = tx'[u].time)
    <3>1. u \in Running /\ u # t /\ tx'[u] = tx[u]
      BY <1>5 DEF Running
    <3>2. \A a \in alerts : ~(a.dev = tx[u].dev /\ a.time = tx[u].time)
      BY <3>1 DEF RoomInv, Identities
    <3>3. ~(A.dev = tx[u].dev /\ A.time = tx[u].time)
      BY <1>2, <1>6, <3>1 DEF RoomInv, Identities
    <3> QED BY <1>3, <1>6, <3>1, <3>2, <3>3
  <2>5. ASSUME NEW u \in Running', NEW v \in Running',
               tx'[u].dev = tx'[v].dev, tx'[u].time = tx'[v].time
        PROVE  u = v
    <3>1. u \in Running /\ v \in Running /\ tx'[u] = tx[u] /\ tx'[v] = tx[v]
      BY <1>5 DEF Running
    <3> QED BY <2>5, <3>1 DEF RoomInv, Identities
  <2> QED BY <2>3, <2>4, <2>5 DEF Identities
<1>10. OneOpen'
  <2> SUFFICES ASSUME NEW r \in Rooms, NEW q \in Rooms, room'[r].status = "open",
                      room'[q].status = "open", room'[r].key = room'[q].key, r # q
               PROVE  FALSE
    BY DEF OneOpen
  <2>1. ASSUME NEW x \in Rooms, NEW y \in Rooms, x = into, x # y, room'[y].status = "open",
               room'[x].key = room'[y].key
        PROVE  FALSE
    <3>1. y # left /\ room'[y] = room[y]
      BY <1>2, <2>1 DEF Closed
    <3>2. room[y].key = Key(tx[t].dev) /\ room[y].status = "open"
      BY <1>2, <1>7, <2>1, <3>1
    <3>3. CASE t \in opening
      <4>1. OpenRooms(Key(tx[t].dev)) \subseteq {left}
        BY <1>1, <1>2, <3>3 DEF TxInv, Places
      <4> QED BY <3>1, <3>2, <4>1 DEF OpenRooms
    <3>4. CASE t \notin opening
      <4>1. room[into].status = "open" /\ room[into].key = Key(tx[t].dev)
        BY <1>1, <1>2, <2>1, <3>4 DEF TxInv, Places
      <4> QED BY <2>1, <3>2, <4>1 DEF RoomInv, OneOpen
    <3> QED BY <3>3, <3>4
  <2>2. r # into /\ q # into
    BY <2>1
  <2>3. r # left /\ q # left
    BY <1>2, <2>2 DEF Closed
  <2> QED BY <1>2, <2>2, <2>3 DEF RoomInv, OneOpen
<1>11. OneOpening'
  <2>1. \A u \in opening' : u \in opening /\ tx'[u] = tx[u]
    BY <1>2, <1>4, <1>5 DEF Types
  <2> QED BY <2>1 DEF RoomInv, OneOpening, Key
<1>12. ASSUME NEW r \in Rooms
       PROVE  /\ room'[r].status = "open" => room'[r].quietAt = 0
              /\ room'[r].status # "absent" => \A a \in In(alerts', r) : a.time <= room'[r].last
              /\ room'[r].status = "absent" => In(alerts', r) = {} /\ room'[r].quietAt = 0
              /\ room'[r].quietAt > 0 => \A a \in In(alerts', r) : a.time + Window <= room'[r].quietAt
              /\ r \notin blurred /\ room'[r].status # "absent" =>
                   /\ room'[r].occurrences = Cardinality(In(alerts', r))
                   /\ room'[r].devices = Cardinality(DevicesOf(In(alerts', r)))
  <2>1. CASE r = into
    <3>1. room'[r] = m /\ m.status = "open" /\ m.quietAt = 0
      BY <1>2, <1>7, <2>1
    <3>2. \A a \in In(alerts', r) : a.time <= m.last
      BY <1>3, <1>7, <2>1
    <3>3. r \notin blurred => /\ m.occurrences = Cardinality(In(alerts', r))
                              /\ m.devices = Cardinality(DevicesOf(In(alerts', r)))
      BY <1>3, <1>7, <2>1
    <3> QED BY <3>1, <3>2, <3>3
  <2>2. CASE r # into
    <3>1. In(alerts', r) = In(alerts, r)
      BY <1>3, <2>2
    <3>2. /\ room[r].status = "open" => room[r].quietAt = 0
          /\ room[r].status # "absent" => \A a \in In(alerts, r) : a.time <= room[r].last
          /\ room[r].status = "absent" => In(alerts, r) = {} /\ room[r].quietAt = 0
          /\ room[r].quietAt > 0 => \A a \in In(alerts, r) : a.time + Window <= room[r].quietAt
          /\ r \notin blurred /\ room[r].status # "absent" =>
               /\ room[r].occurrences = Cardinality(In(alerts, r))
               /\ room[r].devices = Cardinality(DevicesOf(In(alerts, r)))
      BY DEF RoomInv, RoomTimes, CountsMatch, ClosedWhenQuiet
    <3>3. CASE r = left
      <4>1. /\ room'[r].status = Closed /\ room'[r].quietAt = room[r].last + Window
            /\ room'[r].last = room[r].last /\ room[r].status = "open"
            /\ room'[r].occurrences = room[r].occurrences /\ room'[r].devices = room[r].devices
        BY <1>2, <2>2, <3>3
      <4>2. ASSUME NEW a \in In(alerts, r) PROVE a.time + Window <= room[r].last + Window
        <5>1. a.time <= room[r].last
          BY <3>2, <4>1
        <5>2. a.time \in Nat /\ room[r].last \in Nat /\ Window \in Nat
          BY <1>2, IncidentsAssumption DEF Types, AlertType, RoomType, In, Times
        <5> QED BY <5>1, <5>2
      <4> QED BY <3>1, <3>2, <4>1, <4>2 DEF Closed
    <3>4. CASE r # left
      <4>1. room'[r] = room[r]
        BY <1>2, <2>2, <3>4
      <4> QED BY <3>1, <3>2, <4>1
    <3> QED BY <3>3, <3>4
  <2> QED BY <2>1, <2>2
<1>13. RoomTimes' /\ ClosedWhenQuiet'
  BY <1>12 DEF RoomTimes, ClosedWhenQuiet, In
<1>14. CountsMatch'
  BY <1>4, <1>12 DEF CountsMatch, In
<1>15. TxInv(t)'
  <2>1. ~Filing(t)' /\ Waits(t)' /\ Lapses(t)'
    BY <1>5, Blanks DEF Filing, Waits, Lapses
  <2> QED BY <1>4, <1>5, <2>1, Blanks, NotFiling
<1>16. \A u \in Txs : TxInv(u)'
  BY <1>15, CommitOthers
<1> QED BY <1>8, <1>9, <1>10, <1>11, <1>13, <1>14, <1>16 DEF RoomInv

-----------------------------------------------------------------------------
(* People, janitors and erasure *)

\* Nobody has a row that is free; closing it or, where its key has no open room,
\* opening it again disturbs no transaction.
LEMMA RowUpdate ==
    ASSUME RoomInv, NEW r \in Rooms, lock[r] = NoTx, room[r].status # "absent",
           NEW n \in RoomType, room' = [room EXCEPT ![r] = n],
           n.key = room[r].key, n.last = room[r].last,
           n.occurrences = room[r].occurrences, n.devices = room[r].devices,
           n.status \in {"open", Closed},
           n.status = "open" => /\ n.quietAt = 0 /\ OpenRooms(room[r].key) = {}
                                /\ \A u \in opening : Key(tx[u].dev) # room[r].key,
           n.quietAt \in {0, room[r].quietAt, room[r].last + Window},
           UNCHANGED <<now, alerts, tx, lock, opening, erasing, blurred>>
    PROVE  RoomInv'
<1>1. Types /\ room'[r] = n /\ \A q \in Rooms \ {r} : room'[q] = room[q]
  BY DEF RoomInv, Types
<1>2. Types'
  BY <1>1 DEF Types, Running
<1>3. Identities' /\ OneOpening'
  BY DEF RoomInv, Identities, OneOpening, Running, Key
<1>4. OneOpen'
  <2> SUFFICES ASSUME NEW x \in Rooms, NEW y \in Rooms, room'[x].status = "open",
                      room'[y].status = "open", room'[x].key = room'[y].key
               PROVE  x = y
    BY DEF OneOpen
  <2>1. CASE x # r /\ y # r
    BY <1>1, <2>1 DEF RoomInv, OneOpen
  <2>2. CASE x = r /\ y # r
    BY <1>1, <2>2 DEF OpenRooms
  <2>3. CASE x # r /\ y = r
    BY <1>1, <2>3 DEF OpenRooms
  <2> QED BY <2>1, <2>2, <2>3
<1>5. ASSUME NEW q \in Rooms
      PROVE  /\ room'[q].status = "open" => room'[q].quietAt = 0
             /\ room'[q].status # "absent" => \A a \in In(alerts, q) : a.time <= room'[q].last
             /\ room'[q].status = "absent" => In(alerts, q) = {} /\ room'[q].quietAt = 0
             /\ room'[q].quietAt > 0 => \A a \in In(alerts, q) : a.time + Window <= room'[q].quietAt
             /\ q \notin blurred /\ room'[q].status # "absent" =>
                  /\ room'[q].occurrences = Cardinality(In(alerts, q))
                  /\ room'[q].devices = Cardinality(DevicesOf(In(alerts, q)))
  <2>1. /\ room[q].status = "open" => room[q].quietAt = 0
        /\ room[q].status # "absent" => \A a \in In(alerts, q) : a.time <= room[q].last
        /\ room[q].status = "absent" => In(alerts, q) = {} /\ room[q].quietAt = 0
        /\ room[q].quietAt > 0 => \A a \in In(alerts, q) : a.time + Window <= room[q].quietAt
        /\ q \notin blurred /\ room[q].status # "absent" =>
             /\ room[q].occurrences = Cardinality(In(alerts, q))
             /\ room[q].devices = Cardinality(DevicesOf(In(alerts, q)))
    BY DEF RoomInv, RoomTimes, CountsMatch, ClosedWhenQuiet
  <2>2. CASE q # r
    BY <1>1, <2>1, <2>2
  <2>3. CASE q = r
    <3>1. \A a \in In(alerts, r) : a.time <= room[r].last
      BY <2>1, <2>3
    <3>2. ASSUME n.quietAt > 0, NEW a \in In(alerts, r) PROVE a.time + Window <= n.quietAt
      <4>1. a.time \in Nat /\ room[r].last \in Nat /\ Window \in Nat
        BY <1>1, IncidentsAssumption DEF Types, AlertType, RoomType, In, Times
      <4>2. a.time + Window <= room[r].last + Window
        BY <3>1, <4>1
      <4>3. CASE n.quietAt = 0
        BY <3>2, <4>3
      <4>4. CASE n.quietAt = room[r].quietAt
        BY <2>1, <2>3, <3>2, <4>4
      <4>5. CASE n.quietAt = room[r].last + Window
        BY <4>2, <4>5
      <4> QED BY <4>3, <4>4, <4>5
    <3> QED BY <1>1, <2>1, <2>3, <3>1, <3>2 DEF Closed
  <2> QED BY <2>2, <2>3
<1>6. RoomTimes' /\ ClosedWhenQuiet' /\ CountsMatch'
  BY <1>5 DEF RoomTimes, ClosedWhenQuiet, CountsMatch, In
<1>7. ASSUME NEW u \in Txs PROVE TxInv(u)'
  <2>1. /\ TxInv(u) /\ tx[u].target \in Rooms \cup {Unfiled} /\ tx[u].lapses \in Rooms \cup {Unfiled}
        /\ u # NoTx
    BY <1>1, IncidentsAssumption DEF RoomInv, Types, TxType, NoTx
  <2>2. \A q \in Rooms : lock[q] = u => room'[q] = room[q]
    BY <1>1, <2>1
  <2>3. Filing(u)' = Filing(u) /\ Filed(u)' = Filed(u) /\ Key(tx[u].dev)' = Key(tx[u].dev)
    BY DEF Filing, Filed, In, Alert, Key
  <2>4. Waits(u)'
    BY <1>1, <2>1, <2>3 DEF TxInv, Waits, Closed
  <2>5. Lapses(u)'
    BY <2>1, <2>2, <2>3 DEF TxInv, Lapses
  <2>6. Places(u)'
    <3>1. Filing(u) => room'[tx[u].target] = room[tx[u].target]
      BY <2>1, <2>2 DEF TxInv, Places, Filing
    <3>2. u \in opening => Filing(u)
      BY <2>1 DEF TxInv, Places
    <3>3. u \in opening => OpenRooms(Key(tx[u].dev))' \subseteq OpenRooms(Key(tx[u].dev))
      BY <1>1, <2>3 DEF OpenRooms
    <3> QED BY <2>1, <2>3, <3>1, <3>2, <3>3 DEF TxInv, Places
  <2>7. Gathers(u)' /\ Images(u)'
    BY <2>1, <2>3 DEF TxInv, Gathers, Images, Key
  <2> QED BY <2>4, <2>5, <2>6, <2>7 DEF TxInv
<1> QED BY <1>2, <1>3, <1>4, <1>6, <1>7 DEF RoomInv

\* Transition, and ResolveStale.
LEMMA RoomStepsKeep ==
    ASSUME RoomInv, NEW r \in Rooms, Resolve(r) \/ Reopen(r) \/ ResolveStale(r)
    PROVE  RoomInv'
<1>1. room[r] \in RoomType /\ room \in [Rooms -> RoomType]
  BY DEF RoomInv, Types
<1>2. room[r].last + Window \in Nat
  BY <1>1, IncidentsAssumption DEF RoomType
<1>3. CASE Resolve(r)
  <2> DEFINE n == [room[r] EXCEPT !.status = Closed]
  <2>1. /\ n \in RoomType /\ n.key = room[r].key /\ n.last = room[r].last
        /\ n.occurrences = room[r].occurrences /\ n.devices = room[r].devices
        /\ n.status = Closed /\ n.quietAt = room[r].quietAt
    BY <1>1 DEF RoomType, Closed
  <2>2. room' = [room EXCEPT ![r] = n] /\ lock[r] = NoTx /\ room[r].status = "open"
        /\ UNCHANGED <<now, alerts, tx, lock, opening, erasing, blurred>>
    BY <1>3 DEF Resolve
  <2> HIDE DEF n
  <2>3. n.status # "open"
    BY <2>1 DEF Closed
  <2> QED BY <2>1, <2>2, <2>3, RowUpdate
<1>4. CASE Reopen(r)
  <2> DEFINE n == [room[r] EXCEPT !.status = "open", !.quietAt = 0]
  <2>1. /\ n \in RoomType /\ n.key = room[r].key /\ n.last = room[r].last
        /\ n.occurrences = room[r].occurrences /\ n.devices = room[r].devices
        /\ n.status = "open" /\ n.quietAt = 0
    BY <1>1 DEF RoomType
  <2>2. room' = [room EXCEPT ![r] = n] /\ lock[r] = NoTx /\ room[r].status = Closed
        /\ UNCHANGED <<now, alerts, tx, lock, opening, erasing, blurred>>
        /\ OpenRooms(room[r].key) = {} /\ \A u \in opening : Key(tx[u].dev) # room[r].key
    BY <1>4 DEF Reopen
  <2> HIDE DEF n
  <2>3. room[r].status # "absent"
    BY <2>2 DEF Closed
  <2> QED BY <2>1, <2>2, <2>3, RowUpdate
<1>5. CASE ResolveStale(r)
  <2> DEFINE n == [room[r] EXCEPT !.status = Closed, !.quietAt = room[r].last + Window]
  <2>1. /\ n \in RoomType /\ n.key = room[r].key /\ n.last = room[r].last
        /\ n.occurrences = room[r].occurrences /\ n.devices = room[r].devices
        /\ n.status = Closed /\ n.quietAt = room[r].last + Window
    BY <1>1, <1>2 DEF RoomType, Closed
  <2>2. room' = [room EXCEPT ![r] = n] /\ lock[r] = NoTx /\ room[r].status = "open"
        /\ UNCHANGED <<now, alerts, tx, lock, opening, erasing, blurred>>
    BY <1>5 DEF ResolveStale
  <2> HIDE DEF n
  <2>3. n.status # "open"
    BY <2>1 DEF Closed
  <2> QED BY <2>1, <2>2, <2>3, RowUpdate
<1> QED BY <1>3, <1>4, <1>5

\* recountRoomsLosingADevice and the delete.
LEMMA EraseEndsKeeps ==
    ASSUME RoomInv, EraseEnds
    PROVE  RoomInv'
<1> DEFINE rest(r) == {a \in In(erasing.snapshot, r) : a.dev # erasing.dev}
<1> DEFINE counted(r) == [room[r] EXCEPT !.occurrences = Cardinality(rest(r)),
                                         !.devices = Cardinality(DevicesOf(rest(r)))]
<1>1. PICK d, fed : /\ d = erasing.dev
                    /\ fed = {r \in Rooms : erasing.dev \in DevicesOf(In(erasing.snapshot, r))}
  OBVIOUS
<1>2. /\ \A r \in fed : lock[r] = NoTx
      /\ \A t \in Running : d \notin DevicesOf(tx[t].gathers)
      /\ alerts' = {a \in alerts : a.dev # d}
      /\ blurred' = blurred \cup {r \in fed : In(erasing.snapshot, r) # In(alerts, r)}
                    \cup {r \in Rooms \ fed : d \in DevicesOf(In(alerts, r))}
      /\ erasing' = NoErasure
      /\ UNCHANGED <<now, tx, lock, opening>>
  BY <1>1, Zenon DEF EraseEnds
<1>3. room' = [r \in Rooms |->
                IF r \notin fed THEN room[r]
                ELSE IF rest(r) = {} /\ room[r].status = "open" /\ d \in DevicesOf(In(alerts, r))
                     THEN [counted(r) EXCEPT !.status = Closed] ELSE counted(r)]
  BY <1>1 DEF EraseEnds
<1>4. Types
  BY DEF RoomInv
<1>5. \A r \in Rooms :
        /\ counted(r) \in RoomType /\ counted(r).key = room[r].key /\ counted(r).last = room[r].last
        /\ counted(r).quietAt = room[r].quietAt /\ counted(r).status = room[r].status
        /\ counted(r).occurrences = Cardinality(rest(r))
        /\ counted(r).devices = Cardinality(DevicesOf(rest(r)))
  <2> TAKE r \in Rooms
  <2>1. room[r] \in RoomType
    BY <1>4 DEF Types
  <2>2. Cardinality(rest(r)) \in Nat /\ Cardinality(DevicesOf(rest(r))) \in Nat
    <3>1. rest(r) \subseteq erasing.snapshot
      BY DEF In
    <3>2. IsFiniteSet(rest(r))
      BY <1>4, <3>1, FS_Subset DEF Types
    <3> QED BY <3>2, FiniteDevices
  <2>3. PICK c \in Nat, e \in Nat : c = Cardinality(rest(r)) /\ e = Cardinality(DevicesOf(rest(r)))
    BY <2>2
  <2>4. counted(r) = [room[r] EXCEPT !.occurrences = c, !.devices = e]
    BY <2>3
  <2> HIDE DEF rest, counted
  <2> QED BY <2>1, <2>3, <2>4 DEF RoomType
<1> HIDE DEF rest, counted
<1>6. ASSUME NEW r \in Rooms, r \notin fed
      PROVE  room'[r] = room[r]
  BY <1>3, <1>6
<1>7. ASSUME NEW r \in Rooms, r \in fed
      PROVE  /\ room'[r] \in RoomType /\ room'[r].key = room[r].key /\ room'[r].last = room[r].last
             /\ room'[r].quietAt = room[r].quietAt
             /\ \/ room'[r].status = room[r].status
                \/ room[r].status = "open" /\ room'[r].status = Closed
             /\ room'[r].occurrences = Cardinality(rest(r))
             /\ room'[r].devices = Cardinality(DevicesOf(rest(r)))
  <2>1. \/ room[r].status = "open" /\ room'[r] = [counted(r) EXCEPT !.status = Closed]
        \/ room'[r] = counted(r)
    BY <1>3, <1>7
  <2>2. PICK c : c = counted(r)
    OBVIOUS
  <2>3. CASE room[r].status = "open" /\ room'[r] = [c EXCEPT !.status = Closed]
    BY <1>5, <2>2, <2>3 DEF RoomType, Closed
  <2>4. CASE room'[r] = c
    BY <1>5, <2>2, <2>4
  <2> QED BY <2>1, <2>2, <2>3, <2>4
<1>8. \A r \in Rooms : In(alerts', r) \subseteq In(alerts, r)
  BY <1>2 DEF In
<1>9. ASSUME NEW r \in Rooms, r \notin blurred'
      PROVE  /\ r \notin blurred
             /\ r \in fed => In(alerts', r) = rest(r)
             /\ r \notin fed => In(alerts', r) = In(alerts, r)
  <2>1. r \notin blurred
    BY <1>2, <1>9
  <2>2. CASE r \in fed
    <3>1. In(erasing.snapshot, r) = In(alerts, r)
      BY <1>2, <1>9, <2>2
    <3>2. In(alerts', r) = {a \in In(alerts, r) : a.dev # d}
      BY <1>2 DEF In
    <3> QED BY <1>1, <2>1, <2>2, <3>1, <3>2 DEF rest
  <2>3. CASE r \notin fed
    <3>1. d \notin DevicesOf(In(alerts, r))
      BY <1>2, <1>9, <2>3
    <3>2. In(alerts', r) = In(alerts, r)
      BY <1>2, <3>1 DEF In, DevicesOf
    <3> QED BY <2>1, <2>3, <3>2
  <2> QED BY <2>2, <2>3
<1>10. Types'
  <2>1. alerts' \subseteq alerts
    BY <1>2
  <2>2. IsFiniteSet(alerts')
    BY <1>4, <2>1, FS_Subset DEF Types
  <2>3. room' \in [Rooms -> RoomType]
    <3>1. \A r \in Rooms : room'[r] \in RoomType
      BY <1>4, <1>6, <1>7 DEF Types
    <3> QED BY <1>3, <3>1
  <2>4. erasing'.snapshot = {} /\ IsFiniteSet({})
    BY <1>2, FS_EmptySet DEF NoErasure
  <2> QED BY <1>2, <1>4, <2>1, <2>2, <2>3, <2>4 DEF Types, Running
<1>11. Identities'
  BY <1>2 DEF RoomInv, Identities, Running
<1>12. \A r \in Rooms : room'[r].key = room[r].key /\ (room'[r].status = "open" => room[r].status = "open")
  BY <1>6, <1>7
<1>13. OneOpen' /\ OneOpening'
  BY <1>2, <1>12 DEF RoomInv, OneOpen, OneOpening, Key
<1>14. ASSUME NEW r \in Rooms
       PROVE  /\ room'[r].status = "open" => room'[r].quietAt = 0
              /\ room'[r].status # "absent" => \A a \in In(alerts', r) : a.time <= room'[r].last
              /\ room'[r].status = "absent" => In(alerts', r) = {} /\ room'[r].quietAt = 0
              /\ room'[r].quietAt > 0 => \A a \in In(alerts', r) : a.time + Window <= room'[r].quietAt
              /\ r \notin blurred' /\ room'[r].status # "absent" =>
                   /\ room'[r].occurrences = Cardinality(In(alerts', r))
                   /\ room'[r].devices = Cardinality(DevicesOf(In(alerts', r)))
  <2>1. /\ room[r].status = "open" => room[r].quietAt = 0
        /\ room[r].status # "absent" => \A a \in In(alerts, r) : a.time <= room[r].last
        /\ room[r].status = "absent" => In(alerts, r) = {} /\ room[r].quietAt = 0
        /\ room[r].quietAt > 0 => \A a \in In(alerts, r) : a.time + Window <= room[r].quietAt
        /\ r \notin blurred /\ room[r].status # "absent" =>
             /\ room[r].occurrences = Cardinality(In(alerts, r))
             /\ room[r].devices = Cardinality(DevicesOf(In(alerts, r)))
    BY DEF RoomInv, RoomTimes, CountsMatch, ClosedWhenQuiet
  <2>2. CASE r \notin fed
    BY <1>6, <1>8, <1>9, <2>1, <2>2
  <2>3. CASE r \in fed
    BY <1>7, <1>8, <1>9, <2>1, <2>3 DEF Closed
  <2> QED BY <2>2, <2>3
<1>15. RoomTimes' /\ ClosedWhenQuiet' /\ CountsMatch'
  BY <1>14 DEF RoomTimes, ClosedWhenQuiet, CountsMatch, In
<1>16. ASSUME NEW u \in Txs PROVE TxInv(u)'
  <2>1. /\ TxInv(u) /\ tx[u].target \in Rooms \cup {Unfiled} /\ tx[u].lapses \in Rooms \cup {Unfiled}
        /\ u # NoTx /\ Unfiled \notin Rooms
    <3>1. Unfiled \notin Rooms
      BY DEF Unfiled, Rooms
    <3> QED BY <1>4, <3>1, IncidentsAssumption DEF RoomInv, Types, TxType, NoTx
  <2>2. \A q \in Rooms : lock[q] = u => q \notin fed /\ room'[q] = room[q]
    BY <1>2, <1>6, <2>1
  <2>3. Filing(u)' = Filing(u) /\ Alert(u)' = Alert(u) /\ Key(tx[u].dev)' = Key(tx[u].dev)
    BY <1>2 DEF Filing, Alert, Key
  <2>4. Filing(u) => /\ tx[u].target \in Rooms /\ lock[tx[u].target] = u
                     /\ room'[tx[u].target] = room[tx[u].target] /\ tx[u].target \notin fed
    BY <2>1, <2>2 DEF TxInv, Places, Filing
  <2>5. Waits(u)'
    <3>1. \A r \in Rooms : room[r].status # "absent" => room'[r].status # "absent"
      BY <1>6, <1>7 DEF Closed
    <3> QED BY <1>2, <1>12, <2>1, <2>3, <3>1 DEF TxInv, Waits
  <2>6. Lapses(u)'
    BY <1>2, <2>1, <2>2, <2>3 DEF TxInv, Lapses
  <2>7. Places(u)'
    <3>1. u \in opening => Filing(u)
      BY <2>1 DEF TxInv, Places
    <3>2. OpenRooms(Key(tx[u].dev))' \subseteq OpenRooms(Key(tx[u].dev))
      BY <1>12, <2>3 DEF OpenRooms
    <3> QED BY <1>2, <2>1, <2>3, <2>4, <3>1, <3>2 DEF TxInv, Places
  <2>8. Gathers(u)'
    <3>1. /\ tx[u].gathers \subseteq alerts
          /\ \A a \in tx[u].gathers : a.room = Unfiled /\ Key(a.dev) = Key(tx[u].dev)
      BY <2>1 DEF TxInv, Gathers
    <3>2. ASSUME NEW a \in tx[u].gathers PROVE a.dev # d
      <4>1. u \in Running
        BY <2>1 DEF TxInv, Places, Filing, Running
      <4> QED BY <1>2, <4>1 DEF DevicesOf
    <3> QED BY <1>2, <2>3, <3>1, <3>2 DEF Gathers, Key
  <2>9. Images(u)'
    <3> SUFFICES ASSUME Filing(u) PROVE Images(u)'
      BY <2>3 DEF Images
    <3>1. Filed(u)' = In(alerts', tx[u].target) \cup tx[u].gathers \cup {Alert(u)}
      BY <1>2, <2>3 DEF Filed, In
    <3>2. Filed(u)' \subseteq Filed(u)
      BY <1>8, <2>4, <3>1 DEF Filed
    <3>3. tx[u].target \notin blurred' => tx[u].target \notin blurred /\ Filed(u)' = Filed(u)
      BY <1>9, <2>4, <3>1 DEF Filed
    <3> QED BY <1>2, <2>1, <2>3, <3>2, <3>3 DEF TxInv, Images
  <2> QED BY <2>5, <2>6, <2>7, <2>8, <2>9 DEF TxInv
<1> QED BY <1>10, <1>11, <1>13, <1>15, <1>16 DEF RoomInv

\* Time passing, an alert dropped and an erasure's snapshot touch no room.
LEMMA QuietStepsKeep ==
    ASSUME RoomInv,
           UNCHANGED <<alerts, room, tx, lock, opening, blurred>>,
           now' \in Nat, erasing'.snapshot \in {erasing.snapshot, alerts}
    PROVE  RoomInv'
<1>1. Types'
  BY DEF RoomInv, Types, Running
<1>2. Identities' /\ OneOpen' /\ OneOpening' /\ RoomTimes' /\ CountsMatch' /\ ClosedWhenQuiet'
  BY DEF RoomInv, Identities, OneOpen, OneOpening, RoomTimes, CountsMatch, ClosedWhenQuiet,
         Running, In, Key
<1>3. \A u \in Txs : TxInv(u)'
  <2>1. ASSUME NEW u \in Txs PROVE TxInv(u)'
    BY Undisturbed DEF RoomInv
  <2> QED BY <2>1
<1> QED BY <1>1, <1>2, <1>3 DEF RoomInv

-----------------------------------------------------------------------------
(* The budget, and the whole *)

\* What a step makes of the alerts and of the transactions under way.
LEMMA BudgetKept ==
    ASSUME IncInv, IncidentsNext
    PROVE  Budget'
<1>1. /\ IsFiniteSet(alerts) /\ IsFiniteSet(Running) /\ Cardinality(alerts) \in Nat
      /\ Cardinality(Running) \in Nat /\ Cardinality(Txs) \in Nat
      /\ Ceiling \in Nat /\ RoomInv /\ Types
      /\ Cardinality(alerts) + Cardinality(Running) <= Ceiling + Cardinality(Txs) - 1
  <2>1. Running \subseteq Txs /\ IsFiniteSet(Txs)
    BY IncidentsAssumption DEF Running
  <2>2. IsFiniteSet(Running)
    BY <2>1, FS_Subset
  <2> QED BY <2>1, <2>2, FS_CardinalityType, IncidentsAssumption DEF IncInv, RoomInv, Types, Budget
<1>2. CASE \E t \in Txs, d \in Devices, time \in Times, sev \in Severities : Store(t, d, time, sev)
  <2>1. alerts' = alerts /\ Cardinality(alerts) < Ceiling
    BY <1>2 DEF Store
  <2>2. Cardinality(Running') <= Cardinality(Txs) /\ Cardinality(Running') \in Nat
    <3>1. Running' \subseteq Txs
      BY DEF Running
    <3> QED BY <3>1, IncidentsAssumption, FS_Subset, FS_CardinalityType
  <2> QED BY <1>1, <2>1, <2>2 DEF Budget
<1>3. CASE \E t \in Txs : Commit(t)
  <2>1. PICK t \in Txs : Commit(t)
    BY <1>3
  <2>2. /\ t \in Running /\ tx' = [tx EXCEPT ![t] = IdleTx] /\ tx \in [Txs -> TxType]
        /\ Cardinality(alerts') <= Cardinality(alerts) + 1 /\ IsFiniteSet(alerts')
    BY <1>1, <2>1, CommitAlerts DEF Commit, Release, Types, Running
  <2>3. Running' = Running \ {t}
    BY <2>2, Blanks DEF Running
  <2>4. Cardinality(Running') = Cardinality(Running) - 1
    BY <1>1, <2>2, <2>3, FS_RemoveElement
  <2>5. Cardinality(alerts') \in Nat
    BY <2>2, FS_CardinalityType
  <2> QED BY <1>1, <2>2, <2>4, <2>5 DEF Budget
<1>4. ASSUME Running' \subseteq Running, alerts' \subseteq alerts
      PROVE  Budget'
  <2>1. /\ Cardinality(Running') <= Cardinality(Running) /\ Cardinality(alerts') <= Cardinality(alerts)
        /\ Cardinality(Running') \in Nat /\ Cardinality(alerts') \in Nat
    BY <1>1, <1>4, FS_Subset, FS_CardinalityType
  <2> QED BY <1>1, <2>1 DEF Budget
<1>5. CASE \E t \in Txs : LookForRoom(t) \/ LockRoom(t) \/ Decide(t) \/ OpenOrJoin(t) \/ Rollback(t)
  <2>1. PICK t \in Txs : LookForRoom(t) \/ LockRoom(t) \/ Decide(t) \/ OpenOrJoin(t) \/ Rollback(t)
    BY <1>5
  <2>2. alerts' = alerts
    BY <2>1, Zenon DEF LookForRoom, LockRoom, Decide, OpenOrJoin, Rollback
  <2>3. t \in Running
    BY <2>1 DEF LookForRoom, LockRoom, Decide, OpenOrJoin, Rollback, Running
  <2>4. \A u \in Txs \ {t} : tx'[u] = tx[u]
    <3>1. tx \in [Txs -> TxType]
      BY <1>1 DEF Types
    <3>2. CASE LookForRoom(t)
      BY <3>1, <3>2 DEF LookForRoom
    <3>3. CASE LockRoom(t)
      BY <3>1, <3>3 DEF LockRoom
    <3>4. CASE Decide(t)
      BY <3>1, <3>4 DEF Decide
    <3>5. CASE OpenOrJoin(t)
      BY <3>1, <3>5 DEF OpenOrJoin
    <3>6. CASE Rollback(t)
      BY <3>1, <3>6 DEF Rollback, Release
    <3> QED BY <2>1, <3>2, <3>3, <3>4, <3>5, <3>6
  <2>5. Running' \subseteq Running
    BY <2>3, <2>4 DEF Running
  <2> QED BY <1>4, <2>2, <2>5
<1>6. CASE \/ \E d \in Devices, time \in Times : Suppress(d, time)
           \/ \E r \in Rooms : Resolve(r) \/ Reopen(r) \/ ResolveStale(r)
           \/ \E d \in Devices : EraseBegins(d)
           \/ EraseEnds \/ Tick
  <2>1. tx' = tx /\ alerts' \subseteq alerts
    BY <1>6 DEF Suppress, Resolve, Reopen, ResolveStale, EraseBegins, EraseEnds, Tick
  <2>2. Running' = Running
    BY <2>1 DEF Running
  <2> QED BY <1>4, <2>1, <2>2
<1> QED BY <1>2, <1>3, <1>5, <1>6 DEF IncidentsNext, Severities

\* Every step keeps the invariant.
LEMMA NextKeeps ==
    ASSUME IncInv, [IncidentsNext]_incidentVars
    PROVE  IncInv'
<1>1. RoomInv /\ Types /\ now \in Nat
  BY DEF IncInv, RoomInv, Types
<1>2. CASE UNCHANGED incidentVars
  <2>1. RoomInv'
    BY <1>1, <1>2, QuietStepsKeep DEF incidentVars
  <2>2. Budget'
    BY <1>2 DEF IncInv, Budget, Running, incidentVars
  <2> QED BY <2>1, <2>2 DEF IncInv
<1>3. CASE IncidentsNext
  <2>1. Budget'
    BY <1>3, BudgetKept
  <2> SUFFICES RoomInv'
    BY <2>1 DEF IncInv
  <2>2. CASE \E d \in Devices, time \in Times : Suppress(d, time)
    BY <1>1, <2>2, QuietStepsKeep DEF Suppress
  <2>3. CASE \E d \in Devices : EraseBegins(d)
    BY <1>1, <2>3, QuietStepsKeep DEF EraseBegins
  <2>4. CASE Tick
    <3>1. now' \in Nat
      BY <1>1, <2>4 DEF Tick
    <3> QED BY <1>1, <2>4, <3>1, QuietStepsKeep DEF Tick
  <2>5. CASE \E t \in Txs, d \in Devices, time \in Times, sev \in Severities : Store(t, d, time, sev)
    BY <1>1, <2>5, StoreKeeps
  <2>6. CASE \E t \in Txs : \/ LookForRoom(t) \/ LockRoom(t) \/ Decide(t) \/ OpenOrJoin(t)
                            \/ Commit(t) \/ Rollback(t)
    BY <1>1, <2>6, LookForRoomKeeps, LockRoomKeeps, DecideKeeps, OpenOrJoinKeeps, CommitKeeps,
       RollbackKeeps
  <2>7. CASE \E r \in Rooms : Resolve(r) \/ Reopen(r) \/ ResolveStale(r)
    BY <1>1, <2>7, RoomStepsKeep
  <2>8. CASE EraseEnds
    BY <1>1, <2>8, EraseEndsKeeps
  <2> QED BY <1>3, <2>2, <2>3, <2>4, <2>5, <2>6, <2>7, <2>8 DEF IncidentsNext, Severities
<1> QED BY <1>2, <1>3

\* A new store is in order.
LEMMA InitHolds == IncidentsInit => IncInv
<1> SUFFICES ASSUME IncidentsInit PROVE IncInv
  OBVIOUS
<1>1. /\ now = 0 /\ alerts = {} /\ room = [r \in Rooms |-> NoRoom] /\ tx = [t \in Txs |-> IdleTx]
      /\ lock = [r \in Rooms |-> NoTx] /\ opening = {} /\ erasing = NoErasure
  BY DEF IncidentsInit
<1>2. Running = {} /\ \A t \in Txs : tx[t] = IdleTx
  BY <1>1, Blanks DEF Running
<1>3. Types
  BY <1>1, <1>2, Blanks, FS_EmptySet DEF Types, NoErasure
<1>4. Identities /\ OneOpening
  BY <1>1, <1>2 DEF Identities, OneOpening
<1>5. \A r \in Rooms : room[r].status = "absent" /\ room[r].quietAt = 0
  BY <1>1 DEF NoRoom
<1>6. OneOpen /\ RoomTimes /\ CountsMatch /\ ClosedWhenQuiet
  BY <1>1, <1>5 DEF OneOpen, RoomTimes, CountsMatch, ClosedWhenQuiet, In
<1>7. ASSUME NEW t \in Txs PROVE TxInv(t)
  BY <1>1, <1>2, Blanks DEF TxInv, Waits, Lapses, Places, Gathers, Images, Filing
<1>8. Budget
  <2>1. Cardinality(alerts) = 0 /\ Cardinality(Running) = 0
    BY <1>1, <1>2, FS_EmptySet
  <2>2. Ceiling \in Nat \ {0} /\ Cardinality(Txs) \in Nat
    BY IncidentsAssumption, FS_CardinalityType
  <2> QED BY <2>1, <2>2 DEF Budget
<1> QED BY <1>3, <1>4, <1>6, <1>7, <1>8 DEF IncInv, RoomInv

\* The inductive invariant.
LEMMA IncInvHolds == IncidentsSpec => []IncInv
<1>1. IncInv /\ [IncidentsNext]_incidentVars => IncInv'
  BY NextKeeps
<1> QED BY <1>1, InitHolds, PTL DEF IncidentsSpec

\* A room's counts are those of the alerts filed in it, for every interleaving of
\* folds, sweeps, people and erasures, unless an erasure waited for a fold.
THEOREM CountsMatchHolds == IncidentsSpec => []CountsMatch
<1>1. IncInv => CountsMatch
  BY DEF IncInv, RoomInv
<1> QED BY <1>1, IncInvHolds, PTL

\* A room closed for being quiet has no alert later than its closing time.
THEOREM ClosedWhenQuietHolds == IncidentsSpec => []ClosedWhenQuiet
<1>1. IncInv => ClosedWhenQuiet
  BY DEF IncInv, RoomInv
<1> QED BY <1>1, IncInvHolds, PTL

\* The hourly budget is overshot by less than the number of transactions at once.
THEOREM BudgetOvershootHolds == IncidentsSpec => []BudgetOvershoot
<1>1. IncInv => BudgetOvershoot
  <2> SUFFICES ASSUME IncInv PROVE BudgetOvershoot
    OBVIOUS
  <2>1. Running \subseteq Txs /\ IsFiniteSet(Txs) /\ IsFiniteSet(alerts) /\ Ceiling \in Nat
    BY IncidentsAssumption DEF Running, IncInv, RoomInv, Types
  <2>2. Cardinality(alerts) \in Nat /\ Cardinality(Running) \in Nat /\ Cardinality(Txs) \in Nat
    BY <2>1, FS_Subset, FS_CardinalityType
  <2> QED BY <2>1, <2>2 DEF IncInv, Budget, BudgetOvershoot
<1> QED BY <1>1, IncInvHolds, PTL
=============================================================================
