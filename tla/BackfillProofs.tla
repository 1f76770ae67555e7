---------------------------- MODULE BackfillProofs ---------------------------
(***************************************************************************)
(* Backfill, for any number of agents, connections, tenants, batches and   *)
(* ticks: the scheduler's books balance, no cursor passes what the server  *)
(* has, and an agent drains only with a grant.                             *)
(***************************************************************************)
EXTENDS Backfill, FiniteSetTheorems, TLAPS

UpMsgs == {NoMsg, Msg("request", 0)} \cup {Msg("batch", n) : n \in 1..Backlog}
DownMsgs == {NoMsg} \cup {Msg("grant", n) : n \in Never..GrantTTL}
                    \cup {Msg("defer", n) : n \in 1..DeferBackoff}
                    \cup {Msg("ack", n) : n \in 1..Backlog}

\* The connection an agent has is its own, and open.
Linked == \A d \in Devices : conn[d] # Nobody => DeviceOf[conn[d]] = d /\ link[conn[d]] = "open"

\* Every batch up to n that is within retention is in the store.
Has(d, n) == 1..n \ Aged \subseteq stored[d]

\* A batch under way comes after what the server has, and only what it has is
\* acknowledged.
Delivered ==
    /\ \A d \in Devices : Has(d, cursor[d])
    /\ \A c \in Conns : up[c].type = "batch" => Has(DeviceOf[c], up[c].n - 1)
    /\ \A c \in Conns : down[c].type = "ack" => Has(DeviceOf[c], down[c].n)

\* A grant that lasts n ticks is backed by a slot that lasts as long, unless a
\* connection of the device has ended.
Backed(d, n) ==
    n > 0 => \/ slot[d] # Nobody /\ left[d] >= n
             \/ \E c \in Conns : DeviceOf[c] = d /\ link[c] = "gone"

Granted ==
    /\ \A c \in Conns : down[c].type = "grant" => Backed(DeviceOf[c], down[c].n)
    /\ \A d \in Devices : mode[d] \in {"draining", "waitack"} => Backed(d, deadline[d])

BackfillInv == BackfillTypeOK /\ Linked /\ Delivered /\ Granted /\ SlotBooks

-----------------------------------------------------------------------------
(* Messages *)

LEMMA Messages ==
    /\ NoMsg \in UpMsgs /\ NoMsg \in DownMsgs /\ Msg("request", 0) \in UpMsgs
    /\ \A n \in 1..Backlog : Msg("batch", n) \in UpMsgs /\ Msg("ack", n) \in DownMsgs
    /\ \A n \in Never..GrantTTL : Msg("grant", n) \in DownMsgs
    /\ \A n \in 1..DeferBackoff : Msg("defer", n) \in DownMsgs
    /\ \A type, n : Msg(type, n).type = type /\ Msg(type, n).n = n
    /\ NoMsg.type = "none"
    BY DEF UpMsgs, DownMsgs, NoMsg, Msg

LEMMA MessageTypes ==
    /\ \A m \in UpMsgs : m.type = "batch" => m.n \in 1..Backlog
    /\ \A m \in DownMsgs :
         /\ m.type = "grant" => m.n \in Never..GrantTTL
         /\ m.type = "defer" => m.n \in 1..DeferBackoff
         /\ m.type = "ack" => m.n \in 1..Backlog
    BY DEF UpMsgs, DownMsgs, NoMsg, Msg

-----------------------------------------------------------------------------
(* The scheduler *)

\* What the books are after a release of a set of devices.
LEMMA Releases ==
    ASSUME BackfillTypeOK, SlotBooks, NEW D
    PROVE  /\ Dropped(D) \in [Devices -> Tenants \cup {Nobody}]
           /\ CountWithout(D) \in [Tenants -> Nat]
           /\ \A t \in Tenants :
                /\ CountWithout(D)[t] = Cardinality(HeldBy(t) \ D)
                /\ CountWithout(D)[t] <= PerTenantMax
                /\ {d \in Devices : Dropped(D)[d] = t} = HeldBy(t) \ D
                /\ IsFiniteSet(HeldBy(t) \ D)
           /\ {d \in Devices : Dropped(D)[d] # Nobody} = Holders \ D
           /\ IsFiniteSet(Holders \ D)
           /\ Cardinality(Holders \ D) \in Nat
           /\ Cardinality(Holders \ D) <= MaxConcurrent
<1> USE BackfillAssumption
<1>1. Dropped(D) \in [Devices -> Tenants \cup {Nobody}]
    BY DEF BackfillTypeOK, Dropped
<1>2. ASSUME NEW t \in Tenants
      PROVE  /\ CountWithout(D)[t] \in Nat
             /\ CountWithout(D)[t] = Cardinality(HeldBy(t) \ D)
             /\ CountWithout(D)[t] <= PerTenantMax
             /\ {d \in Devices : Dropped(D)[d] = t} = HeldBy(t) \ D
             /\ IsFiniteSet(HeldBy(t) \ D)
  <2>1. IsFiniteSet(HeldBy(t))
    <3>1. HeldBy(t) \in SUBSET Devices
      BY DEF HeldBy
    <3> QED
      BY <3>1, FS_Subset
  <2>2. /\ IsFiniteSet(HeldBy(t) \ D)
        /\ Cardinality(HeldBy(t) \ D) = Cardinality(HeldBy(t)) - Cardinality(HeldBy(t) \cap D)
    BY <2>1, FS_Difference
  <2>3. IsFiniteSet(HeldBy(t) \cap D)
    BY <2>1, FS_Intersection
  <2>4. /\ Cardinality(HeldBy(t)) \in Nat /\ Cardinality(HeldBy(t) \cap D) \in Nat
        /\ Cardinality(HeldBy(t) \ D) \in Nat
    BY <2>1, <2>2, <2>3, FS_CardinalityType
  <2>5. /\ tenantCount[t] = Cardinality(HeldBy(t)) /\ tenantCount[t] <= PerTenantMax
    BY DEF SlotBooks
  <2>6. CountWithout(D)[t] = Fewer(tenantCount[t], Cardinality(HeldBy(t) \cap D))
    BY DEF CountWithout
  <2>7. CountWithout(D)[t] = Cardinality(HeldBy(t) \ D)
    BY <2>2, <2>4, <2>5, <2>6 DEF Fewer
  <2>8. {d \in Devices : Dropped(D)[d] = t} = HeldBy(t) \ D
    BY DEF Dropped, HeldBy
  <2> QED
    BY <2>2, <2>4, <2>5, <2>7, <2>8
<1>3. CountWithout(D) \in [Tenants -> Nat]
    BY <1>2 DEF CountWithout
<1>4. /\ {d \in Devices : Dropped(D)[d] # Nobody} = Holders \ D
      /\ IsFiniteSet(Holders \ D) /\ Cardinality(Holders \ D) \in Nat
      /\ Cardinality(Holders \ D) <= MaxConcurrent
  <2>1. Holders \in SUBSET Devices /\ Holders \ D \in SUBSET Holders
    BY DEF Holders
  <2>2. IsFiniteSet(Holders)
    BY <2>1, FS_Subset
  <2>3. IsFiniteSet(Holders \ D) /\ Cardinality(Holders \ D) <= Cardinality(Holders)
    BY <2>1, <2>2, FS_Subset
  <2>4. Cardinality(Holders) \in Nat /\ Cardinality(Holders \ D) \in Nat
    BY <2>2, <2>3, FS_CardinalityType
  <2>5. {d \in Devices : Dropped(D)[d] # Nobody} = Holders \ D
    BY DEF Dropped, Holders
  <2> QED
    BY <2>3, <2>4, <2>5 DEF SlotBooks
<1> QED
    BY <1>1, <1>2, <1>3, <1>4

\* Slots given back: the books still balance.
LEMMA BooksReleased ==
    ASSUME BackfillTypeOK, SlotBooks, NEW D,
           slot' = Dropped(D), tenantCount' = CountWithout(D)
    PROVE  /\ slot' \in [Devices -> Tenants \cup {Nobody}] /\ tenantCount' \in [Tenants -> Nat]
           /\ SlotBooks'
<1>1. ASSUME NEW t \in Tenants PROVE HeldBy(t)' = HeldBy(t) \ D
  <2>1. HeldBy(t)' = {d \in Devices : Dropped(D)[d] = t}
    BY DEF HeldBy
  <2> QED
    BY <2>1, Releases
<1>2. Holders' = Holders \ D
  <2>1. Holders' = {d \in Devices : Dropped(D)[d] # Nobody}
    BY DEF Holders
  <2> QED
    BY <2>1, Releases
<1> QED
    BY <1>1, <1>2, Releases DEF SlotBooks

\* A slot given out below both caps: the books balance and the caps hold.
LEMMA BooksAdmitted ==
    ASSUME BackfillTypeOK, SlotBooks, NEW d \in Devices, NEW t \in Tenants,
           d \notin Holders \ Overdue, ~Full(t), Admit(d, t)
    PROVE  /\ slot' \in [Devices -> Tenants \cup {Nobody}] /\ tenantCount' \in [Tenants -> Nat]
           /\ slot'[d] = t /\ SlotBooks'
<1> DEFINE S == Dropped(Overdue)
           C == CountWithout(Overdue)
<1> USE BackfillAssumption
<1>0. S \in [Devices -> Tenants \cup {Nobody}] /\ C \in [Tenants -> Nat] /\ S[d] = Nobody
  <2>1. S[d] = Nobody
    BY DEF Dropped, Holders
  <2> QED
    BY <2>1, Releases
<1>1. slot' = [S EXCEPT ![d] = t] /\ tenantCount' = [C EXCEPT ![t] = C[t] + 1]
    BY DEF Admit
<1>2. /\ \A u \in Tenants : /\ C[u] = Cardinality(HeldBy(u) \ Overdue) /\ C[u] <= PerTenantMax
                            /\ {e \in Devices : S[e] = u} = HeldBy(u) \ Overdue
                            /\ IsFiniteSet(HeldBy(u) \ Overdue)
      /\ {e \in Devices : S[e] # Nobody} = Holders \ Overdue
      /\ IsFiniteSet(Holders \ Overdue) /\ Cardinality(Holders \ Overdue) \in Nat
    BY Releases
<1>3. Cardinality(Holders \ Overdue) < MaxConcurrent /\ C[t] < PerTenantMax
    BY <1>0, <1>2 DEF Full
<1> HIDE DEF S, C
<1>4. /\ HeldBy(t)' = (HeldBy(t) \ Overdue) \cup {d} /\ d \notin HeldBy(t) \ Overdue
      /\ \A u \in Tenants \ {t} : HeldBy(u)' = HeldBy(u) \ Overdue
      /\ Holders' = (Holders \ Overdue) \cup {d}
  <2>1. {e \in Devices : slot'[e] = t} = {e \in Devices : S[e] = t} \cup {d}
    BY <1>0, <1>1
  <2>2. ASSUME NEW u \in Tenants \ {t}
        PROVE  {e \in Devices : slot'[e] = u} = {e \in Devices : S[e] = u}
    BY <1>0, <1>1, <2>2
  <2>3. {e \in Devices : slot'[e] # Nobody} = {e \in Devices : S[e] # Nobody} \cup {d}
    BY <1>0, <1>1
  <2>4. d \notin {e \in Devices : S[e] = t}
    BY <1>0
  <2>5. HeldBy(t)' = {e \in Devices : slot'[e] = t} /\ Holders' = {e \in Devices : slot'[e] # Nobody}
    BY DEF HeldBy, Holders
  <2>6. \A u \in Tenants \ {t} : HeldBy(u)' = {e \in Devices : slot'[e] = u}
    BY DEF HeldBy
  <2> QED
    BY <1>2, <2>1, <2>2, <2>3, <2>4, <2>5, <2>6
<1>5. Cardinality(HeldBy(t)') = C[t] + 1
  <2>1. IsFiniteSet(HeldBy(t) \ Overdue)
    BY <1>2
  <2>2. Cardinality((HeldBy(t) \ Overdue) \cup {d}) = Cardinality(HeldBy(t) \ Overdue) + 1
    BY <1>4, <2>1, FS_AddElement
  <2> QED
    BY <1>2, <1>4, <2>2
<1>6. Cardinality(Holders') = Cardinality(Holders \ Overdue) + 1
    BY <1>2, <1>4, FS_AddElement
<1>7. tenantCount' \in [Tenants -> Nat] /\ slot' \in [Devices -> Tenants \cup {Nobody}] /\ slot'[d] = t
    BY <1>0, <1>1
<1>8. tenantCount'[t] = C[t] + 1 /\ \A u \in Tenants \ {t} : tenantCount'[u] = C[u]
    BY <1>0, <1>1
<1>9. ASSUME NEW u \in Tenants
      PROVE  tenantCount'[u] = Cardinality(HeldBy(u)') /\ tenantCount'[u] <= PerTenantMax
  <2>1. CASE u = t
    BY <1>0, <1>3, <1>5, <1>8, <2>1
  <2>2. CASE u # t
    BY <1>2, <1>4, <1>8, <2>2
  <2> QED
    BY <2>1, <2>2
<1>10. Cardinality(Holders') <= MaxConcurrent
    BY <1>2, <1>3, <1>6
<1> QED
    BY <1>7, <1>9, <1>10 DEF SlotBooks

\* One call of RequestSlot: the books, the types, and that a grant lasting until its
\* end goes with the slot.
LEMMA Requests ==
    ASSUME BackfillTypeOK, SlotBooks, NEW d \in Devices, NEW t \in Tenants, RequestSlot(d, t)
    PROVE  /\ SlotBooks'
           /\ slot' \in [Devices -> Tenants \cup {Nobody}] /\ tenantCount' \in [Tenants -> Nat]
           /\ left' \in [Devices -> 0..GrantTTL] /\ waited' \in [Devices -> Never..DeferBackoff]
           /\ Decision(d, t) \in DownMsgs /\ Decision(d, t).type \in {"grant", "defer"}
           /\ Decision(d, t).type = "grant" =>
                slot'[d] # Nobody /\ left'[d] = GrantTTL /\ Decision(d, t).n = GrantTTL
           /\ \A e \in Devices : slot[e] # Nobody /\ left[e] > 0 =>
                slot'[e] # Nobody /\ left'[e] >= left[e]
<1> USE BackfillAssumption
<1>1. waited' \in [Devices -> Never..DeferBackoff] /\ left' \in [Devices -> 0..GrantTTL]
  <2>1. \/ waited' = [waited EXCEPT ![d] = Never]
        \/ waited' = [waited EXCEPT ![d] = IF waited[d] = Never THEN 0 ELSE waited[d]]
    BY DEF RequestSlot, Renew, Admit, DeferSlot
  <2>2. left' = left \/ left' = [left EXCEPT ![d] = GrantTTL]
    BY DEF RequestSlot, Renew, Admit, DeferSlot
  <2>3. Never \in Never..DeferBackoff /\ 0 \in Never..DeferBackoff /\ GrantTTL \in 0..GrantTTL
    BY DEF Never
  <2> QED
    BY <2>1, <2>2, <2>3, SMTT(30) DEF BackfillTypeOK
<1>2. RetryAfter(d) \in 1..DeferBackoff
  <2>1. waited[d] \in Never..DeferBackoff
    BY DEF BackfillTypeOK
  <2> QED
    BY <2>1 DEF RetryAfter, Never
<1>3. GrantTTL \in Never..GrantTTL
    BY DEF Never
<1>4. Decision(d, t) \in DownMsgs /\ Decision(d, t).type \in {"grant", "defer"}
  <2>1. Decision(d, t) = Msg("grant", GrantTTL) \/ Decision(d, t) = Msg("defer", RetryAfter(d))
    BY DEF Decision
  <2> QED
    BY <1>2, <1>3, <2>1, Messages
<1>5. \A e \in Devices : slot[e] # Nobody /\ left[e] > 0 =>
          e \notin Overdue /\ Dropped(Overdue)[e] = slot[e]
    BY DEF Overdue, Dropped, BackfillTypeOK
<1>6. CASE d \in Holders \ Overdue /\ Renew(d)
  <2>1. /\ slot' = Dropped(Overdue) /\ tenantCount' = CountWithout(Overdue)
        /\ left' = [left EXCEPT ![d] = GrantTTL]
    BY <1>6 DEF Renew
  <2>2. slot'[d] # Nobody /\ left'[d] = GrantTTL /\ Decision(d, t) = Msg("grant", GrantTTL)
    BY <1>6, <2>1 DEF Dropped, Holders, Decision, BackfillTypeOK
  <2>3. \A e \in Devices : slot[e] # Nobody /\ left[e] > 0 =>
            slot'[e] # Nobody /\ left'[e] >= left[e]
    BY <1>5, <2>1 DEF BackfillTypeOK
  <2>4. Decision(d, t).n = GrantTTL
    BY <2>2, Messages
  <2> QED
    BY <1>1, <1>4, <2>1, <2>2, <2>3, <2>4, BooksReleased
<1>7. CASE d \notin Holders \ Overdue /\ ~Full(t) /\ Admit(d, t)
  <2>1. /\ slot' = [Dropped(Overdue) EXCEPT ![d] = t]
        /\ left' = [left EXCEPT ![d] = GrantTTL]
    BY <1>7 DEF Admit
  <2>2. /\ slot' \in [Devices -> Tenants \cup {Nobody}] /\ tenantCount' \in [Tenants -> Nat]
        /\ slot'[d] = t /\ SlotBooks'
    BY <1>7, BooksAdmitted
  <2>3. slot'[d] # Nobody /\ left'[d] = GrantTTL /\ Decision(d, t) = Msg("grant", GrantTTL)
    BY <1>7, <2>1, <2>2 DEF Decision, BackfillTypeOK
  <2>4. \A e \in Devices : slot[e] # Nobody /\ left[e] > 0 =>
            slot'[e] # Nobody /\ left'[e] >= left[e]
    <3>1. \A e \in Devices : left[e] \in 0..GrantTTL
      BY DEF BackfillTypeOK
    <3>2. \A e \in Devices \ {d} : slot'[e] = Dropped(Overdue)[e] /\ left'[e] = left[e]
      BY <2>1 DEF BackfillTypeOK, Dropped
    <3> QED
      BY <1>5, <2>3, <3>1, <3>2
  <2>5. Decision(d, t).n = GrantTTL
    BY <2>3, Messages
  <2> QED
    BY <1>1, <1>4, <2>2, <2>3, <2>4, <2>5
<1>8. CASE d \notin Holders \ Overdue /\ Full(t) /\ DeferSlot(d)
  <2>1. slot' = Dropped(Overdue) /\ tenantCount' = CountWithout(Overdue) /\ left' = left
    BY <1>8 DEF DeferSlot
  <2>2. Decision(d, t) = Msg("defer", RetryAfter(d))
    BY <1>8 DEF Decision
  <2>3. Decision(d, t).type # "grant"
    BY <2>2, Messages
  <2>4. \A e \in Devices : slot[e] # Nobody /\ left[e] > 0 =>
            slot'[e] # Nobody /\ left'[e] >= left[e]
    BY <1>5, <2>1 DEF BackfillTypeOK
  <2> QED
    BY <1>1, <1>4, <2>1, <2>3, <2>4, BooksReleased
<1> QED
    BY <1>6, <1>7, <1>8 DEF RequestSlot

-----------------------------------------------------------------------------
(* The agent *)

\* What a session starts with.
LEMMA Starts ==
    ASSUME BackfillTypeOK, NEW d \in Devices, NEW c \in Conns, StartSession(d, c)
    PROVE  /\ mode' \in {[mode EXCEPT ![d] = "quiescent"], [mode EXCEPT ![d] = "awaiting"]}
           /\ up' \in {up, [up EXCEPT ![c] = Msg("request", 0)]}
           /\ mode' \in [Devices -> {"idle", "awaiting", "draining", "waitack", "quiescent"}]
           /\ up' \in [Conns -> UpMsgs]
<1>1. \/ mode' = [mode EXCEPT ![d] = "quiescent"] /\ up' = up
      \/ mode' = [mode EXCEPT ![d] = "awaiting"] /\ up' = [up EXCEPT ![c] = Msg("request", 0)]
    BY DEF StartSession
<1>2. up \in [Conns -> UpMsgs]
    BY DEF BackfillTypeOK, UpMsgs
<1>3. mode' \in [Devices -> {"idle", "awaiting", "draining", "waitack", "quiescent"}]
    BY <1>1 DEF BackfillTypeOK
<1>4. up' \in [Conns -> UpMsgs]
    BY <1>1, <1>2, Messages
<1> QED
    BY <1>1, <1>3, <1>4

LEMMA AgentTypes ==
    ASSUME BackfillTypeOK, NEW d \in Devices, AgentStep(d) \/ Lose(d)
    PROVE  BackfillTypeOK'
<1> USE BackfillAssumption DEF agentVars, slotVars
<1>0. /\ up \in [Conns -> UpMsgs] /\ down \in [Conns -> DownMsgs]
      /\ conn[d] # Nobody => conn[d] \in Conns
      /\ cursor[d] \in 0..Backlog
    BY DEF BackfillTypeOK, UpMsgs, DownMsgs
<1>1. ASSUME NEW c \in Conns, Connect(d, c) PROVE BackfillTypeOK'
  <2>1. /\ up' \in [Conns -> UpMsgs]
        /\ mode' \in [Devices -> {"idle", "awaiting", "draining", "waitack", "quiescent"}]
    BY <1>1, Starts DEF Connect
  <2>2. retry' \in [Devices -> Never..2 * DeferBackoff]
    BY <1>1 DEF Connect, BackfillTypeOK, Never
  <2> QED
    BY <1>1, <2>1, <2>2 DEF Connect, BackfillTypeOK, UpMsgs
<1>2. CASE OnGrant(d)
  <2>1. down[conn[d]].n \in Never..GrantTTL
    BY <1>0, <1>2, MessageTypes DEF OnGrant, Take
  <2>2. down' \in [Conns -> DownMsgs]
    BY <1>0, <1>2, Messages DEF OnGrant, Taken
  <2> QED
    BY <1>2, <2>1, <2>2 DEF OnGrant, BackfillTypeOK, DownMsgs
<1>3. CASE OnDefer(d)
  <2> DEFINE base == down[conn[d]].n
             most == IF base \div 2 > 1 THEN base \div 2 ELSE 1
  <2>1. base \in 1..DeferBackoff
    BY <1>0, <1>3, MessageTypes DEF OnDefer, Take
  <2>2. PICK jitter \in 0..most : retry' = [retry EXCEPT ![d] = base - base \div 4 + jitter]
    BY <1>3 DEF OnDefer
  <2>3. base - base \div 4 + jitter \in Never..2 * DeferBackoff
    <3>1. jitter \in Nat /\ (jitter <= base \div 2 \/ jitter <= 1)
      BY <2>1, <2>2
    <3>2. base \div 4 \in Nat /\ base \div 2 \in Nat /\ base \div 4 <= base /\ base \div 2 <= base
      BY <2>1
    <3> QED
      BY <2>1, <3>1, <3>2 DEF Never
  <2>4. retry' \in [Devices -> Never..2 * DeferBackoff]
    BY <2>2, <2>3 DEF BackfillTypeOK
  <2>5. down' \in [Conns -> DownMsgs]
    BY <1>0, <1>3, Messages DEF OnDefer, Taken
  <2> QED
    BY <1>3, <2>4, <2>5 DEF OnDefer, BackfillTypeOK, DownMsgs
<1>4. CASE OnAck(d)
  <2>1. down[conn[d]].n \in 1..Backlog
    BY <1>0, <1>4, MessageTypes DEF OnAck, Take
  <2>2. down' \in [Conns -> DownMsgs]
    BY <1>0, <1>4, Messages DEF OnAck, Taken
  <2>3. \/ mode' = mode /\ cursor' = cursor
        \/ /\ mode' = [mode EXCEPT ![d] = "draining"]
           /\ \E n \in {down[conn[d]].n, cursor[d]} : cursor' = [cursor EXCEPT ![d] = n]
    BY <1>4, Zenon DEF OnAck
  <2>4. cursor' \in [Devices -> 0..Backlog]
    BY <1>0, <2>1, <2>3 DEF BackfillTypeOK
  <2>5. mode' \in [Devices -> {"idle", "awaiting", "draining", "waitack", "quiescent"}]
    BY <2>3 DEF BackfillTypeOK
  <2> QED
    BY <1>4, <2>2, <2>4, <2>5 DEF OnAck, BackfillTypeOK, DownMsgs
<1>5. CASE SendBatch(d)
  <2>1. \/ mode' = [mode EXCEPT ![d] = "quiescent"] /\ up' = up
        \/ /\ cursor[d] # Backlog /\ mode' = [mode EXCEPT ![d] = "waitack"]
           /\ up' = [up EXCEPT ![conn[d]] = Msg("batch", cursor[d] + 1)]
    BY <1>5, Zenon DEF SendBatch
  <2>2. cursor[d] # Backlog => cursor[d] + 1 \in 1..Backlog
    BY <1>0
  <2>3. up' \in [Conns -> UpMsgs]
    BY <1>0, <2>1, <2>2, Messages
  <2>4. mode' \in [Devices -> {"idle", "awaiting", "draining", "waitack", "quiescent"}]
    BY <2>1 DEF BackfillTypeOK
  <2> QED
    BY <1>5, <2>3, <2>4 DEF SendBatch, BackfillTypeOK, UpMsgs
<1>6. CASE SendNothing(d)
  <2>1. /\ up' \in [Conns -> UpMsgs]
        /\ mode' \in [Devices -> {"idle", "awaiting", "draining", "waitack", "quiescent"}]
    <3>1. CASE mode[d] = "draining"
      BY <1>0, <1>6, <3>1, Starts DEF SendNothing
    <3>2. CASE mode[d] # "draining"
      BY <1>0, <1>6, <3>2 DEF SendNothing, BackfillTypeOK
    <3> QED
      BY <3>1, <3>2
  <2> QED
    BY <1>6, <2>1 DEF SendNothing, BackfillTypeOK, UpMsgs
<1>7. CASE RetryFires(d)
  <2>1. /\ up' \in [Conns -> UpMsgs]
        /\ mode' \in [Devices -> {"idle", "awaiting", "draining", "waitack", "quiescent"}]
    BY <1>0, <1>7, Starts DEF RetryFires
  <2>2. retry' \in [Devices -> Never..2 * DeferBackoff]
    BY <1>7 DEF RetryFires, BackfillTypeOK, Never
  <2> QED
    BY <1>7, <2>1, <2>2 DEF RetryFires, BackfillTypeOK, UpMsgs
<1>8. CASE Lose(d)
  <2>1. down' \in [Conns -> DownMsgs]
    BY <1>0, <1>8, Messages DEF Lose
  <2>2. cursor' \in [Devices -> 0..Backlog]
    BY <1>0, <1>8 DEF Lose, BackfillTypeOK
  <2> QED
    BY <1>8, <2>1, <2>2 DEF Lose, BackfillTypeOK, DownMsgs
<1> QED
    BY <1>1, <1>2, <1>3, <1>4, <1>5, <1>6, <1>7, <1>8 DEF AgentStep

\* The agent's end of its connection.
LEMMA AgentLinked ==
    ASSUME BackfillTypeOK, Linked, NEW d \in Devices, AgentStep(d) \/ Lose(d)
    PROVE  Linked' /\ \A c \in Conns : link[c] = "gone" => link'[c] = "gone"
<1> USE BackfillAssumption DEF BackfillTypeOK, Linked
<1>1. ASSUME NEW c \in Conns, Connect(d, c)
      PROVE  Linked' /\ \A o \in Conns : link[o] = "gone" => link'[o] = "gone"
    BY <1>1 DEF Connect
<1>2. CASE \/ OnGrant(d) \/ OnDefer(d) \/ OnAck(d) \/ SendBatch(d) \/ SendNothing(d) \/ RetryFires(d)
    BY <1>2 DEF OnGrant, OnDefer, OnAck, SendBatch, SendNothing, RetryFires
<1>3. CASE Lose(d)
  <2>1. /\ conn[d] # Nobody /\ link' = [link EXCEPT ![conn[d]] = "lost"]
        /\ conn' = [conn EXCEPT ![d] = Nobody]
    BY <1>3 DEF Lose
  <2>2. \A e \in Devices \ {d} : conn[e] # Nobody => conn[e] # conn[d]
    BY <2>1
  <2> QED
    BY <2>1, <2>2
<1> QED
    BY <1>1, <1>2, <1>3 DEF AgentStep

\* The cursor moves to what was acknowledged, a batch is the one after the cursor.
LEMMA AgentDelivered ==
    ASSUME BackfillTypeOK, Linked, Delivered, NEW d \in Devices, AgentStep(d) \/ Lose(d)
    PROVE  Delivered'
<1> USE BackfillAssumption
<1>0. /\ stored' = stored
      /\ conn[d] # Nobody => conn[d] \in Conns /\ DeviceOf[conn[d]] = d
      /\ cursor[d] \in 0..Backlog
  <2>1. stored' = stored
    BY DEF AgentStep, Connect, OnGrant, OnDefer, OnAck, SendBatch, SendNothing, RetryFires, Lose
  <2> QED
    BY <2>1 DEF BackfillTypeOK, Linked
<1>1. \A e \in Devices : \A n \in Int : Has(e, n)' <=> Has(e, n)
    BY <1>0 DEF Has
<1>2. /\ up \in [Conns -> UpMsgs] /\ down \in [Conns -> DownMsgs]
      /\ cursor \in [Devices -> 0..Backlog] /\ DeviceOf \in [Conns -> Devices]
    BY DEF BackfillTypeOK, UpMsgs, DownMsgs
<1>3. ASSUME \A e \in Devices : Has(e, cursor'[e]),
             \A c \in Conns : up'[c].type = "batch" =>
                 up'[c] = up[c] \/ Has(DeviceOf[c], up'[c].n - 1),
             \A c \in Conns : down'[c] = down[c] \/ down'[c] = NoMsg,
             cursor' \in [Devices -> 0..Backlog]
      PROVE  Delivered'
  <2>1. \A e \in Devices : Has(e, cursor[e])'
    <3>1. \A e \in Devices : cursor'[e] \in Int
      BY <1>3
    <3> QED
      BY <1>1, <1>3, <3>1 DEF Has
  <2>2. \A c \in Conns : up'[c].type = "batch" => Has(DeviceOf[c], up[c].n - 1)'
    <3>1. \A c \in Conns : up'[c].type = "batch" => Has(DeviceOf[c], up'[c].n - 1)
      BY <1>3 DEF Delivered
    <3> QED
      BY <1>0, <3>1 DEF Has
  <2>3. \A c \in Conns : down'[c].type = "ack" => Has(DeviceOf[c], down[c].n)'
    <3>1. \A c \in Conns : down'[c].type = "ack" => Has(DeviceOf[c], down'[c].n)
      BY <1>3, Messages DEF Delivered
    <3> QED
      BY <1>0, <3>1 DEF Has
  <2> QED
    BY <2>1, <2>2, <2>3 DEF Delivered
<1>4. CASE OnAck(d)
  <2>1. /\ conn[d] # Nobody /\ down[conn[d]].type = "ack" /\ up' = up
        /\ down' = [down EXCEPT ![conn[d]] = NoMsg]
        /\ \/ cursor' = cursor
           \/ \E n \in {down[conn[d]].n, cursor[d]} : cursor' = [cursor EXCEPT ![d] = n]
    BY <1>4 DEF OnAck, Take, Taken
  <2>2. Has(d, down[conn[d]].n) /\ down[conn[d]].n \in 1..Backlog
    BY <1>0, <1>2, <2>1, MessageTypes DEF Delivered
  <2>3. \A e \in Devices : Has(e, cursor[e])
    BY DEF Delivered
  <2>4. cursor' \in [Devices -> 0..Backlog] /\ \A e \in Devices : Has(e, cursor'[e])
    BY <1>0, <1>2, <2>1, <2>2, <2>3
  <2> QED
    BY <1>2, <1>3, <2>1, <2>4
<1>5. CASE SendBatch(d)
  <2>1. /\ down' = down /\ cursor' = cursor /\ conn[d] # Nobody
        /\ up' = up \/ up' = [up EXCEPT ![conn[d]] = Msg("batch", cursor[d] + 1)]
    BY <1>5 DEF SendBatch
  <2>2. Msg("batch", cursor[d] + 1).n - 1 = cursor[d]
    BY <1>0, Messages
  <2>3. \A c \in Conns : up'[c] = up[c] \/ Has(DeviceOf[c], up'[c].n - 1)
    BY <1>0, <1>2, <2>1, <2>2 DEF Delivered
  <2> QED
    BY <1>2, <1>3, <2>1, <2>3 DEF Delivered
<1>6. ASSUME NEW c \in Conns, StartSession(d, c), cursor' = cursor, down' = down
      PROVE  Delivered'
  <2>1. up' = up \/ up' = [up EXCEPT ![c] = Msg("request", 0)]
    BY <1>6, Starts
  <2>2. \A o \in Conns : up'[o] = up[o] \/ up'[o].type # "batch"
    BY <1>2, <2>1, Messages
  <2> QED
    BY <1>2, <1>3, <1>6, <2>2 DEF Delivered
<1>7. ASSUME up' = up, cursor' = cursor,
             down' = down \/ down' = [down EXCEPT ![conn[d]] = NoMsg]
      PROVE  Delivered'
  <2>1. \A c \in Conns : down'[c] = down[c] \/ down'[c] = NoMsg
    BY <1>2, <1>7
  <2> QED
    BY <1>2, <1>3, <1>7, <2>1 DEF Delivered
<1>8. CASE OnGrant(d) \/ OnDefer(d)
    BY <1>7, <1>8 DEF OnGrant, OnDefer, Taken
<1>9. CASE (\E c \in Conns : Connect(d, c)) \/ SendNothing(d) \/ RetryFires(d)
    BY <1>0, <1>6, <1>7, <1>9 DEF Connect, SendNothing, RetryFires
<1>10. CASE Lose(d)
  <2>1. /\ down' = [down EXCEPT ![conn[d]] = NoMsg] /\ up' = up
        /\ \E n \in 0..cursor[d] : cursor' = [cursor EXCEPT ![d] = n]
    BY <1>10 DEF Lose
  <2>2. \A n \in 0..cursor[d] : n \in 0..Backlog /\ 1..n \subseteq 1..cursor[d]
    BY <1>0
  <2>3. \A e \in Devices : Has(e, cursor[e])
    BY DEF Delivered
  <2>4. \A n \in 0..cursor[d] : Has(d, n)
    BY <2>2, <2>3 DEF Has
  <2>5. cursor' \in [Devices -> 0..Backlog] /\ \A e \in Devices : Has(e, cursor'[e])
    BY <1>2, <2>1, <2>2, <2>3, <2>4
  <2>6. \A c \in Conns : down'[c] = down[c] \/ down'[c] = NoMsg
    BY <1>2, <2>1
  <2> QED
    BY <1>3, <2>1, <2>5, <2>6
<1> QED
    BY <1>4, <1>5, <1>8, <1>9, <1>10 DEF AgentStep

\* A drain begins with a grant that is backed, and goes on under its deadline.
LEMMA AgentGranted ==
    ASSUME BackfillTypeOK, Linked, Granted, NEW d \in Devices, AgentStep(d) \/ Lose(d)
    PROVE  Granted'
<1> USE BackfillAssumption
<1>0. /\ slot' = slot /\ left' = left
      /\ \A c \in Conns : link[c] = "gone" => link'[c] = "gone"
      /\ conn[d] # Nobody => conn[d] \in Conns /\ DeviceOf[conn[d]] = d
  <2>1. slot' = slot /\ left' = left
    BY DEF AgentStep, Connect, OnGrant, OnDefer, OnAck, SendBatch, SendNothing, RetryFires, Lose, slotVars
  <2>2. \A c \in Conns : link[c] = "gone" => link'[c] = "gone"
    BY AgentLinked
  <2>3. conn[d] # Nobody => conn[d] \in Conns /\ DeviceOf[conn[d]] = d
    BY DEF BackfillTypeOK, Linked
  <2> QED
    BY <2>1, <2>2, <2>3
<1>1. ASSUME NEW e \in Devices, NEW n, Backed(e, n)
      PROVE  n > 0 => \/ slot'[e] # Nobody /\ left'[e] >= n
                      \/ \E c \in Conns : DeviceOf[c] = e /\ link'[c] = "gone"
    BY <1>0, <1>1 DEF Backed
<1>2. /\ down \in [Conns -> DownMsgs] /\ DeviceOf \in [Conns -> Devices]
      /\ mode \in [Devices -> {"idle", "awaiting", "draining", "waitack", "quiescent"}]
      /\ deadline \in [Devices -> Never..GrantTTL]
    BY DEF BackfillTypeOK, DownMsgs
<1>3. ASSUME \A c \in Conns : down'[c] = down[c] \/ down'[c] = NoMsg,
             \A e \in Devices : mode'[e] \in {"draining", "waitack"} => Backed(e, deadline'[e])
      PROVE  Granted'
  <2>1. \A c \in Conns : down'[c].type = "grant" => Backed(DeviceOf[c], down'[c].n)
    BY <1>3, Messages DEF Granted
  <2> QED
    BY <1>1, <1>2, <1>3, <2>1 DEF Granted, Backed
<1>4. CASE OnGrant(d)
  <2>1. /\ conn[d] # Nobody /\ down[conn[d]].type = "grant"
        /\ down' = [down EXCEPT ![conn[d]] = NoMsg]
        /\ mode' = [mode EXCEPT ![d] = "draining"]
        /\ deadline' = [deadline EXCEPT ![d] = down[conn[d]].n]
    BY <1>4 DEF OnGrant, Take, Taken
  <2>2. Backed(d, deadline'[d])
    BY <1>0, <1>2, <2>1 DEF Granted
  <2>3. \A e \in Devices : mode'[e] \in {"draining", "waitack"} => Backed(e, deadline'[e])
    BY <1>2, <2>1, <2>2 DEF Granted
  <2> QED
    BY <1>2, <1>3, <2>1, <2>3
<1>5. CASE \/ \E c \in Conns : Connect(d, c)
           \/ OnDefer(d) \/ OnAck(d) \/ SendBatch(d) \/ SendNothing(d) \/ RetryFires(d) \/ Lose(d)
  <2>1. deadline' = deadline
    BY <1>5 DEF Connect, OnDefer, OnAck, SendBatch, SendNothing, RetryFires, Lose
  <2>2. down' = down \/ down' = [down EXCEPT ![conn[d]] = NoMsg]
    BY <1>5 DEF Connect, OnDefer, OnAck, SendBatch, SendNothing, RetryFires, Lose, Taken
  <2>3. \/ mode' = mode
        \/ \E m \in {"quiescent", "awaiting", "idle"} : mode' = [mode EXCEPT ![d] = m]
        \/ /\ mode[d] \in {"draining", "waitack"}
           /\ \E m \in {"draining", "waitack"} : mode' = [mode EXCEPT ![d] = m]
    <3>1. CASE \E c \in Conns : Connect(d, c)
      BY <3>1, Starts DEF Connect
    <3>2. CASE OnDefer(d) \/ Lose(d)
      BY <3>2 DEF OnDefer, Lose
    <3>3. CASE OnAck(d)
      BY <3>3, Zenon DEF OnAck
    <3>4. CASE SendBatch(d)
      BY <3>4 DEF SendBatch
    <3>5. CASE SendNothing(d) \/ RetryFires(d)
      BY <1>0, <3>5, Starts DEF SendNothing, RetryFires
    <3> QED
      BY <1>5, <3>1, <3>2, <3>3, <3>4, <3>5
  <2>4. \A e \in Devices : mode'[e] \in {"draining", "waitack"} => mode[e] \in {"draining", "waitack"}
    BY <1>2, <2>3
  <2> QED
    BY <1>2, <1>3, <2>1, <2>2, <2>4 DEF Granted
<1> QED
    BY <1>4, <1>5 DEF AgentStep

-----------------------------------------------------------------------------
(* The server and time *)

\* The books of a step that leaves slots alone.
LEMMA SameBooks ==
    ASSUME SlotBooks, slot' = slot, tenantCount' = tenantCount
    PROVE  SlotBooks'
    BY DEF SlotBooks, HeldBy, Holders

LEMMA RequestKeeps ==
    ASSUME BackfillInv, NEW c \in Conns, HandleRequestBackfillSlot(c)
    PROVE  BackfillInv'
<1> USE BackfillAssumption
<1> DEFINE d == DeviceOf[c]
           m == Decision(DeviceOf[c], TenantOf[c])
<1>0. /\ BackfillTypeOK /\ Linked /\ Delivered /\ Granted /\ SlotBooks /\ d \in Devices
      /\ TenantOf[c] \in Tenants
      /\ up \in [Conns -> UpMsgs] /\ down \in [Conns -> DownMsgs]
    BY DEF BackfillInv, BackfillTypeOK, UpMsgs, DownMsgs
<1>1. /\ up' = [up EXCEPT ![c] = NoMsg] /\ RequestSlot(d, TenantOf[c])
      /\ down' = down \/ down' = [down EXCEPT ![c] = m]
      /\ UNCHANGED <<link, conn, mode, deadline, armed, retry, cursor, stored>>
    BY DEF HandleRequestBackfillSlot, Read, Answer, agentVars
<1>2. /\ SlotBooks'
      /\ slot' \in [Devices -> Tenants \cup {Nobody}] /\ tenantCount' \in [Tenants -> Nat]
      /\ left' \in [Devices -> 0..GrantTTL] /\ waited' \in [Devices -> Never..DeferBackoff]
      /\ m \in DownMsgs /\ m.type \in {"grant", "defer"}
      /\ m.type = "grant" => slot'[d] # Nobody /\ left'[d] = GrantTTL /\ m.n = GrantTTL
      /\ \A e \in Devices : slot[e] # Nobody /\ left[e] > 0 =>
            slot'[e] # Nobody /\ left'[e] >= left[e]
    BY <1>0, <1>1, Requests
<1> HIDE DEF m, d
<1>3. up' \in [Conns -> UpMsgs] /\ down' \in [Conns -> DownMsgs]
    BY <1>0, <1>1, <1>2, Messages
<1>4. BackfillTypeOK'
    BY <1>0, <1>1, <1>2, <1>3 DEF BackfillTypeOK, UpMsgs, DownMsgs
<1>5. Linked'
    BY <1>0, <1>1 DEF Linked
<1>6. Delivered'
  <2>1. \A o \in Conns : up'[o].type = "batch" => up'[o] = up[o]
    BY <1>0, <1>1, Messages
  <2>2. \A o \in Conns : down'[o].type = "ack" => down'[o] = down[o]
    BY <1>0, <1>1, <1>2
  <2> QED
    BY <1>0, <1>1, <2>1, <2>2 DEF Delivered, Has
<1>7. \A e \in Devices : \A n \in Never..GrantTTL : Backed(e, n) =>
          (n > 0 => \/ slot'[e] # Nobody /\ left'[e] >= n
                    \/ \E o \in Conns : DeviceOf[o] = e /\ link'[o] = "gone")
  <2>1. \A e \in Devices : left[e] \in 0..GrantTTL /\ left'[e] \in 0..GrantTTL
    BY <1>0, <1>2 DEF BackfillTypeOK
  <2>2. ASSUME NEW e \in Devices, NEW n \in Never..GrantTTL, slot[e] # Nobody, left[e] >= n, n > 0
        PROVE  slot'[e] # Nobody /\ left'[e] >= n
    <3>1. left[e] > 0
      BY <2>1, <2>2 DEF Never
    <3>2. slot'[e] # Nobody /\ left'[e] >= left[e]
      BY <1>2, <2>2, <3>1
    <3> QED
      BY <2>1, <2>2, <3>2 DEF Never
  <2> QED
    BY <1>1, <2>2 DEF Backed
<1>8. Granted'
  <2>1. ASSUME NEW o \in Conns, down'[o].type = "grant"
        PROVE  down'[o].n > 0 =>
                  \/ slot'[DeviceOf[o]] # Nobody /\ left'[DeviceOf[o]] >= down'[o].n
                  \/ \E b \in Conns : DeviceOf[b] = DeviceOf[o] /\ link'[b] = "gone"
    <3>1. CASE down'[o] = down[o]
      <4>1. down[o].n \in Never..GrantTTL /\ Backed(DeviceOf[o], down[o].n)
        BY <1>0, <2>1, <3>1, MessageTypes DEF Granted
      <4> QED
        BY <1>7, <3>1, <4>1
    <3>2. CASE o = c /\ down'[o] = m
      BY <1>2, <2>1, <3>2 DEF d
    <3> QED
      BY <1>0, <1>1, <3>1, <3>2
  <2>2. ASSUME NEW e \in Devices, mode[e] \in {"draining", "waitack"}
        PROVE  deadline[e] > 0 => \/ slot'[e] # Nobody /\ left'[e] >= deadline[e]
                                  \/ \E b \in Conns : DeviceOf[b] = e /\ link'[b] = "gone"
    <3>1. deadline[e] \in Never..GrantTTL /\ Backed(e, deadline[e])
      BY <1>0, <2>2 DEF Granted, BackfillTypeOK
    <3> QED
      BY <1>7, <3>1
  <2> QED
    BY <1>1, <2>1, <2>2 DEF Granted, Backed
<1> QED
    BY <1>2, <1>4, <1>5, <1>6, <1>8 DEF BackfillInv

\* A batch is stored and acknowledged, or dropped: what was stored stays.
LEMMA BatchKeeps ==
    ASSUME BackfillInv, NEW c \in Conns, HandleMetricBackfillBatch(c) \/ BatchNotStored(c)
    PROVE  BackfillInv'
<1> USE BackfillAssumption
<1> DEFINE d == DeviceOf[c]
           n == up[c].n
<1>0. /\ BackfillTypeOK /\ Linked /\ Delivered /\ Granted /\ SlotBooks /\ d \in Devices
      /\ up \in [Conns -> UpMsgs] /\ down \in [Conns -> DownMsgs]
      /\ stored \in [Devices -> SUBSET (1..Backlog)] /\ cursor \in [Devices -> 0..Backlog]
    BY DEF BackfillInv, BackfillTypeOK, UpMsgs, DownMsgs
<1>1. /\ up' = [up EXCEPT ![c] = NoMsg] /\ up[c].type = "batch"
      /\ UNCHANGED <<link, conn, mode, deadline, armed, retry, cursor>>
      /\ UNCHANGED <<slot, left, tenantCount, waited>>
    BY DEF HandleMetricBackfillBatch, BatchNotStored, Read, agentVars, slotVars
<1>2. \/ stored' = stored /\ down' = down
      \/ /\ stored' = IF n \in Aged THEN stored ELSE [stored EXCEPT ![d] = stored[d] \cup {n}]
         /\ down' = down \/ down' = [down EXCEPT ![c] = Msg("ack", n)]
  <2>1. CASE HandleMetricBackfillBatch(c)
    <3>1. stored' = IF n \in Aged THEN stored ELSE [stored EXCEPT ![d] = stored[d] \cup {n}]
      BY <2>1 DEF HandleMetricBackfillBatch
    <3>2. down' = down \/ down' = [down EXCEPT ![c] = Msg("ack", n)]
      BY <2>1 DEF HandleMetricBackfillBatch, Answer
    <3> QED
      BY <3>1, <3>2
  <2>2. CASE BatchNotStored(c)
    BY <2>2 DEF BatchNotStored
  <2> QED
    BY <2>1, <2>2
<1>3. n \in 1..Backlog /\ Has(d, n - 1)
    BY <1>0, <1>1, MessageTypes DEF Delivered
<1> HIDE DEF d, n
<1>4. /\ stored' \in [Devices -> SUBSET (1..Backlog)]
      /\ \A e \in Devices : stored[e] \subseteq stored'[e]
    BY <1>0, <1>2, <1>3
<1>5. up' \in [Conns -> UpMsgs] /\ down' \in [Conns -> DownMsgs]
    BY <1>0, <1>1, <1>2, <1>3, Messages
<1>6. BackfillTypeOK'
    BY <1>0, <1>1, <1>4, <1>5 DEF BackfillTypeOK, UpMsgs, DownMsgs
<1>7. Linked'
    BY <1>0, <1>1 DEF Linked
<1>8. Delivered'
  <2>1. \A e \in Devices : 1..cursor'[e] \ Aged \subseteq stored'[e]
    BY <1>0, <1>1, <1>4 DEF Delivered, Has
  <2>2. \A o \in Conns : up'[o].type = "batch" => up'[o] = up[o]
    BY <1>0, <1>1, Messages
  <2>3. \A o \in Conns : up'[o].type = "batch" => 1..(up'[o].n - 1) \ Aged \subseteq stored'[DeviceOf[o]]
    BY <1>0, <1>4, <2>2 DEF Delivered, Has
  <2>4. \A o \in Conns : down[o].type = "ack" => 1..down[o].n \ Aged \subseteq stored'[DeviceOf[o]]
    BY <1>0, <1>4 DEF Delivered, Has
  <2>5. down' # down => 1..n \ Aged \subseteq stored'[d]
    <3>1. SUFFICES ASSUME down' # down, NEW k \in 1..n, k \notin Aged PROVE k \in stored'[d]
      OBVIOUS
    <3>2. CASE k = n
      BY <1>0, <1>2, <3>1, <3>2
    <3>3. CASE k # n
      <4>1. k \in 1..(n - 1)
        BY <1>3, <3>3
      <4>2. k \in stored[d]
        BY <1>3, <3>1, <4>1 DEF Has
      <4> QED
        BY <1>0, <1>4, <4>2
    <3> QED
      BY <3>2, <3>3
  <2>6. ASSUME NEW o \in Conns, down'[o].type = "ack"
        PROVE  1..down'[o].n \ Aged \subseteq stored'[DeviceOf[o]]
    <3>1. CASE down'[o] = down[o]
      BY <2>4, <2>6, <3>1
    <3>2. CASE down'[o] # down[o]
      <4>1. o = c /\ down' # down /\ down'[o] = Msg("ack", n)
        BY <1>0, <1>2, <3>2
      <4>2. down'[o].n = n
        BY <4>1, Messages
      <4> QED
        BY <2>5, <4>1, <4>2 DEF d
    <3> QED
      BY <3>1, <3>2
  <2> QED
    BY <2>1, <2>3, <2>6 DEF Delivered, Has
<1>9. Granted'
  <2>1. \A o \in Conns : down'[o].type = "grant" => down'[o] = down[o]
    BY <1>0, <1>2, Messages
  <2> QED
    BY <1>0, <1>1, <2>1 DEF Granted, Backed
<1>10. SlotBooks'
    BY <1>0, <1>1, SameBooks
<1> QED
    BY <1>6, <1>7, <1>8, <1>9, <1>10 DEF BackfillInv

\* The teardown releases the device's slot: from then on one of its connections ended.
LEMMA UnregisterKeeps ==
    ASSUME BackfillInv, NEW c \in Conns, UnregisterConn(c)
    PROVE  BackfillInv'
<1> USE BackfillAssumption
<1> DEFINE d == DeviceOf[c]
<1>0. /\ BackfillTypeOK /\ Linked /\ Delivered /\ Granted /\ SlotBooks /\ d \in Devices
      /\ up \in [Conns -> UpMsgs] /\ link \in [Conns -> {"unused", "open", "lost", "gone"}]
    BY DEF BackfillInv, BackfillTypeOK, UpMsgs
<1>1. /\ link[c] = "lost" /\ link' = [link EXCEPT ![c] = "gone"]
      /\ up' = [up EXCEPT ![c] = NoMsg]
      /\ UNCHANGED <<conn, mode, deadline, armed, retry, cursor, down, stored, left>>
      /\ slot' = Dropped({d}) /\ tenantCount' = CountWithout({d})
      /\ waited' = [waited EXCEPT ![d] = Never]
    BY DEF UnregisterConn, Release, agentVars
<1> HIDE DEF d
<1>2. /\ slot' \in [Devices -> Tenants \cup {Nobody}] /\ tenantCount' \in [Tenants -> Nat]
      /\ SlotBooks'
    BY <1>0, <1>1, BooksReleased
<1>3. up' \in [Conns -> UpMsgs]
    BY <1>0, <1>1, Messages
<1>4. waited' \in [Devices -> Never..DeferBackoff]
  <2>1. Never \in Never..DeferBackoff
    BY DEF Never
  <2> QED
    BY <1>0, <1>1, <2>1 DEF BackfillTypeOK
<1>5. BackfillTypeOK'
    BY <1>0, <1>1, <1>2, <1>3, <1>4 DEF BackfillTypeOK, UpMsgs
<1>6. Linked'
    BY <1>0, <1>1 DEF Linked, BackfillTypeOK
<1>7. Delivered'
  <2>1. \A o \in Conns : up'[o].type = "batch" => up'[o] = up[o]
    BY <1>0, <1>1, Messages
  <2> QED
    BY <1>0, <1>1, <2>1 DEF Delivered, Has
<1>8. ASSUME NEW e \in Devices, NEW n, Backed(e, n)
      PROVE  n > 0 => \/ slot'[e] # Nobody /\ left'[e] >= n
                      \/ \E o \in Conns : DeviceOf[o] = e /\ link'[o] = "gone"
  <2>1. CASE e = d
    BY <1>0, <1>1, <2>1 DEF d
  <2>2. CASE e # d
    <3>1. slot'[e] = slot[e] /\ left'[e] = left[e]
      BY <1>1, <2>2 DEF Dropped
    <3>2. \A o \in Conns : link[o] = "gone" => link'[o] = "gone"
      BY <1>0, <1>1
    <3> QED
      BY <1>8, <3>1, <3>2 DEF Backed
  <2> QED
    BY <2>1, <2>2
<1>9. Granted'
  <2>1. \A o \in Conns : down[o].type = "grant" => Backed(DeviceOf[o], down[o].n)
    BY <1>0 DEF Granted
  <2>2. \A e \in Devices : mode[e] \in {"draining", "waitack"} => Backed(e, deadline[e])
    BY <1>0 DEF Granted
  <2>3. \A o \in Conns : DeviceOf[o] \in Devices
    OBVIOUS
  <2>4. \A o \in Conns : down[o].type = "grant" => (down[o].n > 0 =>
            \/ slot'[DeviceOf[o]] # Nobody /\ left'[DeviceOf[o]] >= down[o].n
            \/ \E b \in Conns : DeviceOf[b] = DeviceOf[o] /\ link'[b] = "gone")
    BY <1>8, <2>1, <2>3
  <2>5. \A e \in Devices : mode[e] \in {"draining", "waitack"} => (deadline[e] > 0 =>
            \/ slot'[e] # Nobody /\ left'[e] >= deadline[e]
            \/ \E b \in Conns : DeviceOf[b] = e /\ link'[b] = "gone")
    BY <1>8, <2>2
  <2> QED
    BY <1>1, <2>4, <2>5 DEF Granted, Backed
<1> QED
    BY <1>2, <1>5, <1>6, <1>7, <1>9 DEF BackfillInv

\* A tick shortens a grant and the slot behind it alike.
LEMMA TickKeeps ==
    ASSUME BackfillInv, Tick
    PROVE  BackfillInv'
<1> USE BackfillAssumption
<1>0. /\ BackfillTypeOK /\ Linked /\ Delivered /\ Granted /\ SlotBooks
      /\ down \in [Conns -> DownMsgs]
      /\ deadline \in [Devices -> Never..GrantTTL] /\ left \in [Devices -> 0..GrantTTL]
      /\ retry \in [Devices -> Never..2 * DeferBackoff] /\ waited \in [Devices -> Never..DeferBackoff]
    BY DEF BackfillInv, BackfillTypeOK, DownMsgs
<1>1. UNCHANGED <<link, conn, mode, armed, cursor, up, slot, tenantCount, stored>>
    BY DEF Tick
<1>2. /\ deadline' \in [Devices -> Never..GrantTTL]
      /\ \A d \in Devices : deadline'[d] > 0 => deadline'[d] = deadline[d] - 1
    BY <1>0 DEF Tick, Never
<1>3. /\ left' \in [Devices -> 0..GrantTTL]
      /\ \A d \in Devices : left[d] > 0 => left'[d] = left[d] - 1
    BY <1>0 DEF Tick, Soon
<1>4. retry' \in [Devices -> Never..2 * DeferBackoff]
    BY <1>0 DEF Tick, Soon, Never
<1>5. waited' \in [Devices -> Never..DeferBackoff]
    BY <1>0 DEF Tick, Never
<1>6. ASSUME NEW c \in Conns
      PROVE  /\ down'[c] \in DownMsgs
             /\ down'[c].type # "grant" => down'[c] = down[c]
             /\ down'[c].type = "grant" =>
                  /\ down[c].type = "grant" /\ down[c].n \in Never..GrantTTL
                  /\ down'[c].n > 0 => down'[c].n = down[c].n - 1
  <2>1. down'[c] = IF down[c].type = "grant" /\ down[c].n > Never
                   THEN Msg("grant", down[c].n - 1) ELSE down[c]
    BY DEF Tick
  <2>2. down[c] \in DownMsgs
    BY <1>0
  <2>3. CASE down[c].type = "grant" /\ down[c].n > Never
    <3>1. down[c].n \in Never..GrantTTL
      BY <2>2, <2>3, MessageTypes
    <3>2. down[c].n - 1 \in Never..GrantTTL
      BY <2>3, <3>1 DEF Never
    <3> QED
      BY <2>1, <2>3, <3>1, <3>2, Messages
  <2>4. CASE ~(down[c].type = "grant" /\ down[c].n > Never)
    <3>1. down'[c] = down[c]
      BY <2>1, <2>4
    <3>2. down[c].type = "grant" => down[c].n \in Never..GrantTTL
      BY <2>2, MessageTypes
    <3>3. down[c].type = "grant" => ~(down[c].n > 0)
      BY <2>4, <3>2 DEF Never
    <3> QED
      BY <2>2, <3>1, <3>2, <3>3
  <2> QED
    BY <2>3, <2>4
<1>7. down' \in [Conns -> DownMsgs]
  <2>1. down' = [c \in Conns |-> down'[c]]
    BY DEF Tick
  <2> QED
    BY <1>6, <2>1
<1>8. BackfillTypeOK'
    BY <1>0, <1>1, <1>2, <1>3, <1>4, <1>5, <1>7 DEF BackfillTypeOK, DownMsgs
<1>9. Linked'
    BY <1>0, <1>1 DEF Linked
<1>10. Delivered'
  <2>1. \A c \in Conns : down'[c].type = "ack" => down'[c] = down[c]
    BY <1>6
  <2> QED
    BY <1>0, <1>1, <2>1 DEF Delivered, Has
<1>11. ASSUME NEW d \in Devices, NEW n \in Never..GrantTTL, Backed(d, n), n - 1 > 0
       PROVE  \/ slot'[d] # Nobody /\ left'[d] >= n - 1
              \/ \E c \in Conns : DeviceOf[c] = d /\ link'[c] = "gone"
  <2>1. n > 0
    BY <1>11 DEF Never
  <2>2. CASE slot[d] # Nobody /\ left[d] >= n
    <3>1. left[d] \in 0..GrantTTL
      BY <1>0
    <3>2. left[d] > 0
      BY <2>1, <2>2, <3>1 DEF Never
    <3> QED
      BY <1>1, <1>3, <2>2, <3>1, <3>2 DEF Never
  <2> QED
    BY <1>1, <1>11, <2>1, <2>2 DEF Backed
<1>12. Granted'
  <2>1. ASSUME NEW c \in Conns, down'[c].type = "grant", down'[c].n > 0
        PROVE  \/ slot'[DeviceOf[c]] # Nobody /\ left'[DeviceOf[c]] >= down'[c].n
               \/ \E o \in Conns : DeviceOf[o] = DeviceOf[c] /\ link'[o] = "gone"
    <3>1. /\ down[c].n \in Never..GrantTTL /\ down'[c].n = down[c].n - 1
          /\ Backed(DeviceOf[c], down[c].n)
      BY <1>0, <1>6, <2>1 DEF Granted
    <3>2. DeviceOf[c] \in Devices
      OBVIOUS
    <3> QED
      BY <1>11, <2>1, <3>1, <3>2
  <2>2. ASSUME NEW d \in Devices, mode[d] \in {"draining", "waitack"}, deadline'[d] > 0
        PROVE  \/ slot'[d] # Nobody /\ left'[d] >= deadline'[d]
               \/ \E o \in Conns : DeviceOf[o] = d /\ link'[o] = "gone"
    <3>1. /\ deadline[d] \in Never..GrantTTL /\ deadline'[d] = deadline[d] - 1
          /\ Backed(d, deadline[d])
      BY <1>0, <1>2, <2>2 DEF Granted
    <3> QED
      BY <1>11, <2>2, <3>1
  <2> QED
    BY <1>1, <2>1, <2>2 DEF Granted, Backed
<1>13. SlotBooks'
    BY <1>0, <1>1, SameBooks
<1> QED
    BY <1>8, <1>9, <1>10, <1>12, <1>13 DEF BackfillInv

-----------------------------------------------------------------------------
(* The invariant *)

LEMMA InitBackfill ==
    ASSUME BackfillInit
    PROVE  BackfillInv
<1> USE BackfillAssumption
<1>1. BackfillTypeOK
  <2>1. Never \in Never..GrantTTL /\ Never \in Never..2 * DeferBackoff /\ Never \in Never..DeferBackoff
    BY DEF Never
  <2>2. up \in [Conns -> UpMsgs] /\ down \in [Conns -> DownMsgs]
    BY Messages DEF BackfillInit
  <2> QED
    BY <2>1, <2>2 DEF BackfillInit, BackfillTypeOK, UpMsgs, DownMsgs
<1>2. Linked
    BY DEF BackfillInit, Linked
<1>3. Delivered
  <2>1. 1..0 = {}
    OBVIOUS
  <2>2. \A c \in Conns : up[c].type = "none" /\ down[c].type = "none"
    BY Messages DEF BackfillInit
  <2> QED
    BY <2>1, <2>2 DEF BackfillInit, Delivered, Has
<1>4. Granted
  <2>1. \A c \in Conns : down[c].type = "none"
    BY Messages DEF BackfillInit
  <2> QED
    BY <2>1 DEF BackfillInit, Granted
<1>5. SlotBooks
  <2>1. \A t \in Tenants : HeldBy(t) = {}
    BY DEF BackfillInit, HeldBy
  <2>2. Holders = {}
    BY DEF BackfillInit, Holders
  <2>3. \A t \in Tenants : tenantCount[t] = 0
    BY DEF BackfillInit
  <2> QED
    BY <2>1, <2>2, <2>3, FS_EmptySet DEF SlotBooks
<1> QED
    BY <1>1, <1>2, <1>3, <1>4, <1>5 DEF BackfillInv

LEMMA NextBackfill ==
    ASSUME BackfillInv, [BackfillNext]_backfillVars
    PROVE  BackfillInv'
<1>1. ASSUME NEW d \in Devices, AgentStep(d) \/ Lose(d)
      PROVE  BackfillInv'
  <2>1. BackfillTypeOK /\ Linked /\ Delivered /\ Granted /\ SlotBooks
    BY DEF BackfillInv
  <2>2. slot' = slot /\ tenantCount' = tenantCount
    BY <1>1 DEF AgentStep, Connect, OnGrant, OnDefer, OnAck, SendBatch, SendNothing, RetryFires,
                Lose, slotVars
  <2> QED
    BY <1>1, <2>1, <2>2, AgentTypes, AgentLinked, AgentDelivered, AgentGranted, SameBooks DEF BackfillInv
<1>2. CASE \E c \in Conns : ServerStep(c) \/ BatchNotStored(c)
    BY <1>2, RequestKeeps, BatchKeeps, UnregisterKeeps DEF ServerStep
<1>3. CASE Tick
    BY <1>3, TickKeeps
<1>4. CASE UNCHANGED backfillVars
    BY <1>4 DEF backfillVars, agentVars, slotVars, BackfillInv, BackfillTypeOK, Linked, Delivered, Has,
                Granted, Backed, SlotBooks, HeldBy, Holders
<1> QED
    BY <1>1, <1>2, <1>3, <1>4 DEF BackfillNext

LEMMA BackfillInvariant == BackfillSpec => []BackfillInv
    BY InitBackfill, NextBackfill, PTL DEF BackfillSpec

-----------------------------------------------------------------------------
(* The theorems *)

(***************************************************************************)
(* The state of agents and scheduler is well formed in every reachable     *)
(* state; a deferral always asks for a wait of at least one tick, so that  *)
(* no agent polls without pause (BackfillScheduler.deferSlot).             *)
(***************************************************************************)
THEOREM BackfillTypesHold == BackfillSpec => []BackfillTypeOK
<1>1. BackfillInv => BackfillTypeOK
    BY DEF BackfillInv
<1> QED
    BY <1>1, BackfillInvariant, PTL

(***************************************************************************)
(* Each tenant's count is the number of grants charged to it and both caps *)
(* hold, for any caps and any number of agents and tenants                 *)
(* (BackfillScheduler.RequestSlot, Release, reap).                         *)
(***************************************************************************)
THEOREM SlotBooksHold == BackfillSpec => []SlotBooks
<1>1. BackfillInv => SlotBooks
    BY DEF BackfillInv
<1> QED
    BY <1>1, BackfillInvariant, PTL

(***************************************************************************)
(* No agent's cursor passes a batch that is neither stored nor out of      *)
(* retention, whatever is lost, replayed or found with an older cursor     *)
(* (handleMetricBackfillBatch, BackfillCoordinator::on_ack).               *)
(***************************************************************************)
THEOREM AckedIsStoredHolds == BackfillSpec => []AckedIsStored
<1>1. BackfillInv => AckedIsStored
    BY DEF BackfillInv, Delivered, Has, AckedIsStored
<1> QED
    BY <1>1, BackfillInvariant, PTL

(***************************************************************************)
(* An agent that drains within its deadline holds a slot, unless another   *)
(* connection of its device was torn down (unregisterConn, Release).       *)
(***************************************************************************)
THEOREM DrainHasSlotHolds == BackfillSpec => []DrainHasSlot
<1>1. BackfillInv => DrainHasSlot
  <2>1. SUFFICES ASSUME BackfillInv, NEW d \in Devices,
                        mode[d] \in {"draining", "waitack"}, deadline[d] > 0, slot[d] = Nobody
                 PROVE  \E c \in Conns \ {conn[d]} : DeviceOf[c] = d /\ link[c] = "gone"
    BY DEF DrainHasSlot
  <2>2. PICK c \in Conns : DeviceOf[c] = d /\ link[c] = "gone"
    BY <2>1 DEF BackfillInv, Granted, Backed
  <2>3. conn[d] # c
    BY <2>1, <2>2, BackfillAssumption DEF BackfillInv, Linked
  <2> QED
    BY <2>2, <2>3
<1> QED
    BY <1>1, BackfillInvariant, PTL
=============================================================================
