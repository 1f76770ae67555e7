------------------------------ MODULE Backfill ------------------------------
(***************************************************************************)
(* Reconnect backfill: an agent that comes back asks for a drain slot,     *)
(* sends its stored history one acknowledged batch at a time and moves a   *)
(* durable cursor (backfill_loop.rs, ml/backfill/); the server admits      *)
(* agents under a global and a per-tenant cap, with grants that expire     *)
(* (backfill_scheduler.go, conn_backfill.go).  Time is relative: a         *)
(* deadline is the number of ticks left.                                   *)
(***************************************************************************)
EXTENDS Integers, FiniteSets

CONSTANTS
    Devices, Conns, Tenants, Nobody,
    DeviceOf,       \* the device of a connection
    TenantOf,       \* the tenant the device had when the connection was opened
    MaxConcurrent, PerTenantMax, GrantTTL, DeferBackoff,
    Backlog,        \* bound: batches of history a device starts with
    Aged,           \* batches the server finds out of retention and only acknowledges
    Skew,           \* how far the agents' clock is ahead of the server's
    WriteFails      \* whether the metrics store may refuse a write

ASSUME BackfillAssumption ==
    /\ IsFiniteSet(Devices) /\ Nobody \notin Conns /\ Nobody \notin Tenants
    /\ DeviceOf \in [Conns -> Devices] /\ TenantOf \in [Conns -> Tenants]
    /\ MaxConcurrent \in Nat /\ PerTenantMax \in Nat
    /\ GrantTTL \in Nat \ {0} /\ DeferBackoff \in Nat \ {0}
    /\ Backlog \in Nat /\ Aged \subseteq 1..Backlog
    /\ Skew \in Nat /\ WriteFails \in BOOLEAN

VARIABLES
    link,       \* a connection: unused, open, lost (the server still reads it) or gone
    conn,       \* the connection the agent has, or Nobody
    mode,       \* Phase of the agent's coordinator; waitack is Draining with awaiting_ack
    deadline,   \* ticks to the deadline of the grant the agent holds
    armed,      \* agents whose bf_send_at is set
    retry,      \* ticks to bf_retry_at, or Never
    cursor,     \* the watermark: batches up to it are not sent again
    up, down,   \* the message under way on a connection, one at most
    slot,       \* scheduler.grants: the tenant a device's grant is charged to, or Nobody
    left,       \* ticks to the deadline of the grant
    tenantCount,
    waited,     \* scheduler.firstReq: ticks since the first request, or Never
    stored      \* batches in the metrics store

agentVars == <<conn, mode, deadline, armed, retry, cursor>>
slotVars == <<slot, left, tenantCount, waited>>
backfillVars == <<link, agentVars, up, down, slotVars, stored>>

Never == -1
NoMsg == [type |-> "none", n |-> 0]
Msg(type, n) == [type |-> type, n |-> n]

BackfillTypeOK ==
    /\ link \in [Conns -> {"unused", "open", "lost", "gone"}]
    /\ conn \in [Devices -> Conns \cup {Nobody}]
    /\ mode \in [Devices -> {"idle", "awaiting", "draining", "waitack", "quiescent"}]
    /\ deadline \in [Devices -> Never..GrantTTL]
    /\ armed \subseteq Devices
    /\ retry \in [Devices -> Never..2 * DeferBackoff]
    /\ cursor \in [Devices -> 0..Backlog]
    /\ up \in [Conns -> {NoMsg, Msg("request", 0)} \cup {Msg("batch", n) : n \in 1..Backlog}]
    /\ down \in [Conns -> {NoMsg} \cup {Msg("grant", n) : n \in Never..GrantTTL}
                       \cup {Msg("defer", n) : n \in 1..DeferBackoff}
                       \cup {Msg("ack", n) : n \in 1..Backlog}]
    /\ slot \in [Devices -> Tenants \cup {Nobody}]
    /\ left \in [Devices -> 0..GrantTTL]
    /\ tenantCount \in [Tenants -> Nat]
    /\ waited \in [Devices -> Never..DeferBackoff]
    /\ stored \in [Devices -> SUBSET (1..Backlog)]

BackfillInit ==
    /\ link = [c \in Conns |-> "unused"]
    /\ conn = [d \in Devices |-> Nobody]
    /\ mode = [d \in Devices |-> "idle"]
    /\ deadline = [d \in Devices |-> Never]
    /\ armed = {}
    /\ retry = [d \in Devices |-> Never]
    /\ cursor = [d \in Devices |-> 0]
    /\ up = [c \in Conns |-> NoMsg] /\ down = [c \in Conns |-> NoMsg]
    /\ slot = [d \in Devices |-> Nobody]
    /\ left = [d \in Devices |-> 0]
    /\ tenantCount = [t \in Tenants |-> 0]
    /\ waited = [d \in Devices |-> Never]
    /\ stored = [d \in Devices |-> {}]

-----------------------------------------------------------------------------
(* The agent's coordinator and its place in the control loop *)

\* start_session: the request that asks for a slot, or nothing when all is sent.
StartSession(d, c) ==
    IF cursor[d] = Backlog
    THEN mode' = [mode EXCEPT ![d] = "quiescent"] /\ UNCHANGED up
    ELSE /\ mode' = [mode EXCEPT ![d] = "awaiting"]
         /\ up' = [up EXCEPT ![c] = Msg("request", 0)]

\* run: both timers of a connection start unset.
Connect(d, c) ==
    /\ conn[d] = Nobody /\ link[c] = "unused" /\ DeviceOf[c] = d
    /\ conn' = [conn EXCEPT ![d] = c]
    /\ link' = [link EXCEPT ![c] = "open"]
    /\ armed' = armed \ {d}
    /\ retry' = [retry EXCEPT ![d] = Never]
    /\ StartSession(d, c)
    /\ UNCHANGED <<deadline, cursor, down, slotVars, stored>>

Take(d, type) == conn[d] # Nobody /\ down[conn[d]].type = type
Taken(d) == down' = [down EXCEPT ![conn[d]] = NoMsg]

OnGrant(d) ==
    /\ Take(d, "grant") /\ Taken(d)
    /\ mode' = [mode EXCEPT ![d] = "draining"]
    /\ deadline' = [deadline EXCEPT ![d] = down[conn[d]].n]
    /\ armed' = armed \cup {d}
    /\ UNCHANGED <<link, conn, retry, cursor, up, slotVars, stored>>

\* Mutant: a deferred agent does not ask again.
OnDeferForgotten(d) ==
    /\ Take(d, "defer") /\ Taken(d)
    /\ mode' = [mode EXCEPT ![d] = "quiescent"]
    /\ LET base == down[conn[d]].n
           most == IF base \div 2 > 1 THEN base \div 2 ELSE 1
       IN \E jitter \in 0..most : retry' = [retry EXCEPT ![d] = Never]
    /\ UNCHANGED <<link, conn, deadline, armed, cursor, up, slotVars, stored>>

\* on_defer: the delay is jittered around the one the server asked for.
OnDefer(d) ==
    /\ Take(d, "defer") /\ Taken(d)
    /\ mode' = [mode EXCEPT ![d] = "quiescent"]
    /\ LET base == down[conn[d]].n
           most == IF base \div 2 > 1 THEN base \div 2 ELSE 1
       IN \E jitter \in 0..most : retry' = [retry EXCEPT ![d] = base - base \div 4 + jitter]
    /\ UNCHANGED <<link, conn, deadline, armed, cursor, up, slotVars, stored>>

\* on_ack: the cursor of the acknowledged batch, unless its write fails.
OnAck(d) ==
    /\ Take(d, "ack") /\ Taken(d)
    /\ IF mode[d] \in {"draining", "waitack"}
       THEN /\ mode' = [mode EXCEPT ![d] = "draining"]
            /\ \E n \in {down[conn[d]].n, cursor[d]} : cursor' = [cursor EXCEPT ![d] = n]
       ELSE UNCHANGED <<mode, cursor>>
    /\ armed' = armed \cup {d}
    /\ UNCHANGED <<link, conn, deadline, retry, up, slotVars, stored>>

Expired(d) == deadline[d] < Skew

\* next_batch within the deadline: the next batch, or the end of the drain.
SendBatch(d) ==
    /\ conn[d] # Nobody /\ d \in armed /\ mode[d] = "draining" /\ ~Expired(d)
    /\ armed' = armed \ {d}
    /\ IF cursor[d] = Backlog
       THEN mode' = [mode EXCEPT ![d] = "quiescent"] /\ UNCHANGED up
       ELSE /\ mode' = [mode EXCEPT ![d] = "waitack"]
            /\ up' = [up EXCEPT ![conn[d]] = Msg("batch", cursor[d] + 1)]
    /\ UNCHANGED <<link, conn, deadline, retry, cursor, down, slotVars, stored>>

\* next_batch past the deadline asks for a slot again; elsewhere it does nothing.
SendNothing(d) ==
    /\ conn[d] # Nobody /\ d \in armed
    /\ mode[d] # "draining" \/ Expired(d)
    /\ armed' = armed \ {d}
    /\ IF mode[d] = "draining" THEN StartSession(d, conn[d]) ELSE UNCHANGED <<mode, up>>
    /\ UNCHANGED <<link, conn, deadline, retry, cursor, down, slotVars, stored>>

RetryFires(d) ==
    /\ conn[d] # Nobody /\ retry[d] = 0
    /\ retry' = [retry EXCEPT ![d] = Never]
    /\ StartSession(d, conn[d])
    /\ UNCHANGED <<link, conn, deadline, armed, cursor, down, slotVars, stored>>

\* The path is lost, or the agent's process with it: a cursor was saved without
\* a flush.  A device keeps one connection for later (the bound on losses).
Lose(d) ==
    /\ conn[d] # Nobody
    /\ \E c \in Conns : DeviceOf[c] = d /\ link[c] = "unused"
    /\ link' = [link EXCEPT ![conn[d]] = "lost"]
    /\ down' = [down EXCEPT ![conn[d]] = NoMsg]
    /\ conn' = [conn EXCEPT ![d] = Nobody]
    /\ mode' = [mode EXCEPT ![d] = "idle"]
    /\ \E n \in 0..cursor[d] : cursor' = [cursor EXCEPT ![d] = n]
    /\ UNCHANGED <<deadline, armed, retry, up, slotVars, stored>>

-----------------------------------------------------------------------------
(* The scheduler, one call under its mutex *)

HeldBy(t) == {d \in Devices : slot[d] = t}
Holders == {d \in Devices : slot[d] # Nobody}
\* Mutant: a grant is reaped a tick before its deadline.
OverdueEarly == {d \in Holders : left[d] <= 1}

Overdue == {d \in Holders : left[d] = 0}

Fewer(count, n) == IF count > n THEN count - n ELSE 0

\* release of a set of devices: their slots, and the counts of their tenants.
Dropped(D) == [d \in Devices |-> IF d \in D THEN Nobody ELSE slot[d]]
\* Mutant: a release leaves the tenant's count alone.
CountWithoutNone(D) == tenantCount

CountWithout(D) == [t \in Tenants |-> Fewer(tenantCount[t], Cardinality(HeldBy(t) \cap D))]

Renew(d) ==
    /\ slot' = Dropped(Overdue) /\ tenantCount' = CountWithout(Overdue)
    /\ left' = [left EXCEPT ![d] = GrantTTL]
    /\ waited' = [waited EXCEPT ![d] = Never]

Admit(d, t) ==
    /\ slot' = [Dropped(Overdue) EXCEPT ![d] = t]
    /\ tenantCount' = [CountWithout(Overdue) EXCEPT ![t] = @ + 1]
    /\ left' = [left EXCEPT ![d] = GrantTTL]
    /\ waited' = [waited EXCEPT ![d] = Never]

DeferSlot(d) ==
    /\ slot' = Dropped(Overdue) /\ tenantCount' = CountWithout(Overdue)
    /\ waited' = [waited EXCEPT ![d] = IF @ = Never THEN 0 ELSE @]
    /\ UNCHANGED left

\* Mutant: a long wait is deferred by nothing.
RetryAfterUnfloored(d) ==
    LET since == IF waited[d] = Never THEN 0 ELSE waited[d]
    IN DeferBackoff - since

RetryAfter(d) ==
    LET since == IF waited[d] = Never THEN 0 ELSE waited[d]
    IN IF DeferBackoff - since > 1 THEN DeferBackoff - since ELSE 1

Full(t) ==
    \/ Cardinality(Holders \ Overdue) >= MaxConcurrent
    \/ CountWithout(Overdue)[t] >= PerTenantMax

RequestSlot(d, t) ==
    \/ d \in Holders \ Overdue /\ Renew(d)
    \/ d \notin Holders \ Overdue /\ ~Full(t) /\ Admit(d, t)
    \/ d \notin Holders \ Overdue /\ Full(t) /\ DeferSlot(d)

Decision(d, t) ==
    IF d \in Holders \ Overdue \/ ~Full(t) THEN Msg("grant", GrantTTL) ELSE Msg("defer", RetryAfter(d))

Release(d) ==
    /\ slot' = Dropped({d}) /\ tenantCount' = CountWithout({d})
    /\ waited' = [waited EXCEPT ![d] = Never]
    /\ UNCHANGED left

-----------------------------------------------------------------------------
(* The server's side of a connection *)

Read(c, type) ==
    /\ link[c] \in {"open", "lost"} /\ up[c].type = type
    /\ up' = [up EXCEPT ![c] = NoMsg]

\* sendControl: what is written to a lost connection reaches nobody.
Answer(c, msg) == down' = IF link[c] = "open" THEN [down EXCEPT ![c] = msg] ELSE down

HandleRequestBackfillSlot(c) ==
    /\ Read(c, "request")
    /\ RequestSlot(DeviceOf[c], TenantOf[c])
    /\ Answer(c, Decision(DeviceOf[c], TenantOf[c]))
    /\ UNCHANGED <<link, agentVars, stored>>

HandleMetricBackfillBatch(c) ==
    /\ Read(c, "batch")
    /\ stored' = IF up[c].n \in Aged THEN stored
                 ELSE [stored EXCEPT ![DeviceOf[c]] = @ \cup {up[c].n}]
    /\ Answer(c, Msg("ack", up[c].n))
    /\ UNCHANGED <<link, agentVars, slotVars>>

\* Mutant: a batch is acknowledged although its write failed.
BatchNotStoredAcked(c) ==
    /\ WriteFails /\ up[c].n \notin Aged
    /\ Read(c, "batch")
    /\ Answer(c, Msg("ack", up[c].n))
    /\ UNCHANGED <<link, agentVars, slotVars, stored>>

\* A failed write leaves the batch without an answer.
BatchNotStored(c) ==
    /\ WriteFails /\ up[c].n \notin Aged
    /\ Read(c, "batch")
    /\ UNCHANGED <<link, agentVars, down, slotVars, stored>>

\* unregisterConn of a connection whose path is gone, whatever it left unread.
UnregisterConn(c) ==
    /\ link[c] = "lost"
    /\ link' = [link EXCEPT ![c] = "gone"]
    /\ up' = [up EXCEPT ![c] = NoMsg]
    /\ Release(DeviceOf[c])
    /\ UNCHANGED <<agentVars, down, stored>>

Soon(n) == IF n > 0 THEN n - 1 ELSE n

Tick ==
    /\ deadline' = [d \in Devices |-> IF deadline[d] > Never THEN deadline[d] - 1 ELSE Never]
    /\ down' = [c \in Conns |-> IF down[c].type = "grant" /\ down[c].n > Never
                                THEN Msg("grant", down[c].n - 1) ELSE down[c]]
    /\ retry' = [d \in Devices |-> Soon(retry[d])]
    /\ left' = [d \in Devices |-> Soon(left[d])]
    /\ waited' = [d \in Devices |-> IF waited[d] \in 0..(DeferBackoff - 1)
                                    THEN waited[d] + 1 ELSE waited[d]]
    /\ UNCHANGED <<link, conn, mode, armed, cursor, up, slot, tenantCount, stored>>

-----------------------------------------------------------------------------
AgentStep(d) ==
    \/ \E c \in Conns : Connect(d, c)
    \/ OnGrant(d) \/ OnDefer(d) \/ OnAck(d)
    \/ SendBatch(d) \/ SendNothing(d) \/ RetryFires(d)

ServerStep(c) ==
    \/ HandleRequestBackfillSlot(c) \/ HandleMetricBackfillBatch(c)
    \/ UnregisterConn(c)

BackfillNext ==
    \/ \E d \in Devices : AgentStep(d) \/ Lose(d)
    \/ \E c \in Conns : ServerStep(c) \/ BatchNotStored(c)
    \/ Tick

\* An answer is on its way for less than the life of a grant, the timer of an
\* acknowledged batch fires within it, and a saved cursor is saved now and then.
TimelyGrant(d) == OnGrant(d) /\ deadline'[d] >= Skew
SavedAck(d) == OnAck(d) /\ cursor' # cursor

BackfillFairness ==
    /\ \A d \in Devices :
        /\ WF_backfillVars(AgentStep(d))
        /\ SF_backfillVars(TimelyGrant(d))
        /\ SF_backfillVars(SendBatch(d))
        /\ SF_backfillVars(SavedAck(d))
    /\ \A c \in Conns : WF_backfillVars(ServerStep(c))
    /\ WF_backfillVars(Tick)

BackfillSpec == BackfillInit /\ [][BackfillNext]_backfillVars /\ BackfillFairness

-----------------------------------------------------------------------------
(* Properties *)

(***************************************************************************)
(* The scheduler's books balance: a tenant's count is the number of grants *)
(* charged to it, and neither cap is ever exceeded, also with grants that  *)
(* lapsed unreaped, a device that changed tenant while it held a grant,    *)
(* and releases by connections that never had one                          *)
(* (BackfillScheduler.RequestSlot, release, reap).                         *)
(***************************************************************************)
SlotBooks ==
    /\ \A t \in Tenants :
        /\ tenantCount[t] = Cardinality(HeldBy(t))
        /\ tenantCount[t] <= PerTenantMax
    /\ Cardinality(Holders) <= MaxConcurrent

(***************************************************************************)
(* A cursor never passes history the server does not have: every batch the *)
(* agent will not send again is in the metrics store, unless the server    *)
(* called it out of retention (handleMetricBackfillBatch acknowledges only *)
(* what was written; BackfillCoordinator.on_ack).                          *)
(***************************************************************************)
AckedIsStored == \A d \in Devices : 1..cursor[d] \ Aged \subseteq stored[d]

(***************************************************************************)
(* An agent that drains within its deadline has a grant, unless an earlier *)
(* connection of the device ended after the one it drains on was opened:   *)
(* Release goes by the device, so that teardown gives away the newer       *)
(* connection's grant (unregisterConn).                                    *)
(***************************************************************************)
DrainHasSlot ==
    \A d \in Devices :
        mode[d] \in {"draining", "waitack"} /\ deadline[d] > 0
            => \/ slot[d] # Nobody
               \/ \E c \in Conns \ {conn[d]} : DeviceOf[c] = d /\ link[c] = "gone"

Drained(d) == cursor[d] = Backlog

\* The batch of an agent was dropped without an answer and nothing is under way.
Stalled(d) ==
    /\ mode[d] = "waitack" /\ d \notin armed /\ conn[d] # Nobody
    /\ up[conn[d]] = NoMsg /\ down[conn[d]] = NoMsg

(***************************************************************************)
(* Every backlog is drained in the end, whoever was admitted first and     *)
(* however often grants lapse, except by an agent that waits for the       *)
(* acknowledgement of a batch whose write failed.                          *)
(***************************************************************************)
DrainsOrStalls == \A d \in Devices : <>[](Drained(d) \/ Stalled(d))

(***************************************************************************)
(* What the server says when a write fails: "not acking (agent will        *)
(* retry)" (conn_backfill.go:84).                                          *)
(***************************************************************************)
AgentRetries == \A d \in Devices : []<>Drained(d)

(***************************************************************************)
(* "MaxConcurrent is the global cap on simultaneously-draining agents"     *)
(* (backfill_scheduler.go:26).                                             *)
(***************************************************************************)
DrainersWithinCap ==
    Cardinality({d \in Devices : mode[d] \in {"draining", "waitack"} /\ deadline[d] > 0})
        <= MaxConcurrent
=============================================================================
