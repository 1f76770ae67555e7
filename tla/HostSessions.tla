---------------------------- MODULE HostSessions ----------------------------
(***************************************************************************)
(* The sessions of one host: its row in agent_sessions (postgres.go), the  *)
(* API calls that create and end sessions (handlers_sessions.go,           *)
(* usecase/session.go), the stale-row sweep (sweeper.go), a crash of the   *)
(* server, and the relay the rows stand for.                               *)
(***************************************************************************)
EXTENDS Relay

CONSTANT Events  \* bound: what may happen to the server besides its requests

ASSUME HostAssumption == Events \subseteq {"sweep", "shutdown", "crash"}

VARIABLES
    target,     \* the token an API call ends, and the one a create hands out
    fresh,      \* the token a create inserted
    used,       \* tokens ever generated
    requested,  \* tokens the host and the browser were given
    stale,      \* the tokens a sweep under way deletes; {NoOne} between sweeps
    crashed     \* bound: the server crashes at most once

hostVars == <<target, fresh, used, requested, stale, crashed>>
vars == <<relayVars, hostVars>>

\* What a relay step of a call leaves alone.
relayRest == <<handlers, conn, entry, count, registry, sess, pipe, claim, stopping>>

Init ==
    /\ RelayInit
    /\ target = [c \in Calls |-> NoOne] /\ fresh = [c \in Calls |-> NoOne]
    /\ used = {} /\ requested = {} /\ stale = {NoOne} /\ crashed = FALSE

-----------------------------------------------------------------------------
(* CreateSession *)

\* PostgresSessions.Create: one transaction replaces the caller's own row.  A
\* create on a host another technician holds is refused and changes nothing.
Create(c, u, t) ==
    /\ pc[c] = "idle" /\ t \notin used /\ row.user \in {NoOne, u}
    /\ row' = [tok |-> t, user |-> u, old |-> FALSE]
    /\ target' = [target EXCEPT ![c] = row.tok] /\ fresh' = [fresh EXCEPT ![c] = t]
    /\ used' = used \cup {t}
    /\ Goto(c, IF row.tok = NoOne THEN "requesting" ELSE "replacing")
    /\ UNCHANGED <<relayRest, obj, requested, stale, crashed>>

\* SendSessionRequest reached the agent: both sides know the token.
Request(c) ==
    /\ pc[c] = "requesting"
    /\ requested' = requested \cup {fresh[c]}
    /\ Goto(c, "done")
    /\ UNCHANGED <<relayRest, obj, row, target, fresh, used, stale, crashed>>

\* It failed: the row is deleted again.
RequestFails(c) ==
    /\ pc[c] = "requesting"
    /\ row' = IF row.tok = fresh[c] THEN NoRow ELSE row
    /\ Goto(c, "done")
    /\ UNCHANGED <<relayRest, obj, hostVars>>

-----------------------------------------------------------------------------
(* SessionService.Delete, by the holder or an administrator *)

Find(c) ==
    /\ pc[c] = "idle" /\ row # NoRow
    /\ target' = [target EXCEPT ![c] = row.tok]
    /\ Goto(c, "found")
    /\ UNCHANGED <<relayRest, obj, row, fresh, used, requested, stale, crashed>>

DeleteRow(c) ==
    /\ pc[c] = "found"
    /\ \/ row.tok = target[c] /\ row' = NoRow /\ Goto(c, "deleted")
       \/ row.tok # target[c] /\ Goto(c, "done") /\ UNCHANGED row
    /\ UNCHANGED <<relayRest, obj, hostVars>>

-----------------------------------------------------------------------------
\* relay.End of the session a call deleted or replaced; a create goes on to ask
\* the host for the new one.
AfterEnd(c) == IF fresh[c] = NoOne THEN "done" ELSE "requesting"
End(c) ==
    /\ pc[c] \in {"deleted", "replacing"}
    /\ EndMark(c, target[c], AfterEnd(c))
    /\ UNCHANGED hostVars

CallReleases(c) ==
    /\ \/ EndRelease(c, target[c], AfterEnd(c))
       \/ ReleaseDrop(c) \/ ReleaseForget(c) \/ ReleaseRow(c)
       \/ ReleaseEnd(c, AfterEnd(c))
    /\ UNCHANGED hostVars

-----------------------------------------------------------------------------
(* Sweeper.Sweep: the cutoff and the live tokens are read, then one DELETE runs. *)

LiveTokens == {t \in Tokens : entry[t] # NoOne}

SweepRead ==
    /\ "sweep" \in Events /\ stale = {NoOne}
    /\ stale' = {t \in Tokens \ LiveTokens : row.tok = t /\ row.old}
    /\ UNCHANGED <<relayVars, target, fresh, used, requested, crashed>>

SweepDeleteNothing ==
    /\ stale # {NoOne}
    /\ stale' = {NoOne}
    /\ UNCHANGED <<relayVars, target, fresh, used, requested, crashed>>

SweepDelete ==
    /\ stale # {NoOne}
    /\ row' = IF row.tok \in stale THEN NoRow ELSE row
    /\ stale' = {NoOne}
    /\ UNCHANGED <<pc, relayRest, obj, target, fresh, used, requested, crashed>>

\* The row passes the grace period.
Age ==
    /\ "sweep" \in Events /\ row # NoRow /\ ~row.old
    /\ row' = [row EXCEPT !.old = TRUE]
    /\ UNCHANGED <<pc, relayRest, obj, hostVars>>

-----------------------------------------------------------------------------
\* The context every parked handler watches is cancelled (main.go).
Shutdown ==
    /\ "shutdown" \in Events /\ ~stopping /\ stopping' = TRUE
    /\ UNCHANGED <<pc, handlers, obj, conn, entry, count, registry, sess, pipe, claim,
                   row, hostVars>>

\* The server dies and is started again: only the row survives.
Crash ==
    /\ "crash" \in Events /\ ~crashed /\ crashed' = TRUE
    /\ pc' = [a \in Actors |-> IF pc[a] = "idle" THEN "idle" ELSE "done"]
    /\ conn' = [h \in Handlers |-> IF conn[h] = "none" THEN "none" ELSE "closed"]
    /\ entry' = [t \in Tokens |-> NoOne] /\ count' = 0 /\ registry' = {}
    /\ sess' = [o \in Handlers |-> NewSession] /\ pipe' = [o \in Handlers |-> "none"]
    /\ claim' = [a \in Actors |-> NoClaim]
    /\ stale' = {NoOne}
    /\ UNCHANGED <<handlers, obj, stopping, row, target, fresh, used, requested>>

RelayNext ==
    /\ \/ \E h \in Handlers :
             \/ \E sd \in Sides, t \in requested : Validate(h, t, sd)
             \/ HandlerStep(h) \/ PeerTimeout(h) \/ PingFails(h) \/ Hangup(h)
             \/ PipeStep(h)
    /\ UNCHANGED hostVars

CallStep(c) == Request(c) \/ RequestFails(c) \/ DeleteRow(c) \/ End(c) \/ CallReleases(c)

Next ==
    \/ RelayNext
    \/ \E c \in Calls :
          \/ \E u \in Users, t \in Tokens : Create(c, u, t)
          \/ Find(c) \/ CallStep(c)
    \/ SweepRead \/ SweepDelete \/ Age
    \/ Shutdown \/ Crash

Spec == Init /\ [][Next]_vars

-----------------------------------------------------------------------------
(* Properties *)

Labels == {"idle", "validated", "loaded", "saving", "joining", "registered", "waiting",
           "parked", "leaving", "dropping", "forgetting", "ending_row", "closing_sides",
           "closing", "done", "requesting", "replacing", "found", "deleted", "releasing"}

\* Every variable has its type.
TypeOK ==
    /\ pc \in [Actors -> Labels]
    /\ tok \in [Handlers -> Tokens \cup {NoOne}] /\ side \in [Handlers -> Sides]
    /\ obj \in [Actors -> Handlers \cup {NoOne}]
    /\ waitOn \in [Handlers -> Handlers \cup {NoOne}]
    /\ conn \in [Handlers -> {"none", "open", "closed"}]
    /\ entry \in [Tokens -> Handlers \cup {NoOne}]
    /\ count \in Int /\ registry \subseteq Tokens
    /\ sess \in [Handlers -> [agent : Handlers \cup {NoOne}, browser : Handlers \cup {NoOne},
                              started : BOOLEAN, released : BOOLEAN, ended : BOOLEAN,
                              cancelled : BOOLEAN, done : BOOLEAN]]
    /\ pipe \in [Handlers -> {"none", "copying", "dropping", "forgetting", "ending_row",
                              "closing_sides", "draining", "over"}]
    /\ claim \in [Actors -> [tok : Tokens \cup {NoOne}, started : BOOLEAN,
                             conns : SUBSET Handlers]]
    /\ stopping \in BOOLEAN
    /\ row \in [tok : Tokens \cup {NoOne}, user : Users \cup {NoOne}, old : BOOLEAN]
    /\ target \in [Calls -> Tokens \cup {NoOne}] /\ fresh \in [Calls -> Tokens \cup {NoOne}]
    /\ used \subseteq Tokens /\ requested \subseteq used
    /\ stale \subseteq Tokens \cup {NoOne} /\ crashed \in BOOLEAN

\* A session is torn down by release or by its pipe, never by both: the claim
\* release makes under the lock and the start of the pipe exclude one another,
\* whatever timed out, unregistered or was ended meanwhile (startPipeIfReady).
OneTeardown == \A o \in Handlers : sess[o].released => ~Piping(o)

\* A session that is counted and that neither its pipe nor a release has booked out.
Live(o) ==
    /\ sess[o].started /\ ~sess[o].done
    /\ pipe[o] \in {"none", "copying", "dropping"}
    /\ ~sess[o].released \/ \E a \in Actors : obj[a] = o /\ pc[a] = "dropping" /\ claim[a].started

\* WaitForDrain never reports a drained relay while a session is live: the
\* count is at least the number of live sessions.
CountCoversLive == count >= Cardinality({o \in Handlers : Live(o)})

\* Nothing is under way in the relay or the API.
Idle ==
    /\ \A a \in Actors : pc[a] \in {"idle", "done"}
    /\ \A o \in Handlers : pipe[o] \in {"none", "over"}

\* Every session that ended gave back its count and its registry record
\* (ADR-093; relay.go, Unregister), so a stopping server drains.
TeardownReturns == Idle => count = 0 /\ registry = {}

\* Once every call that marked it has returned, a session End marked is either
\* released or has its pipe cancelled: "End ends a session from outside it".
EndedStops ==
    \A o \in Handlers :
        (/\ sess[o].ended /\ pipe[o] = "copying"
         /\ \A c \in Calls : obj[c] = o => pc[c] \in {"requesting", "done"})
            => sess[o].cancelled

\* ADR-059: the row and the live session end together.  With no call under way,
\* two sides that are joined and copying have the row of their token.
LiveHasRow ==
    \A o \in Handlers :
        (/\ pipe[o] = "copying" /\ ~sess[o].cancelled /\ SidesOf(o) # {}
         /\ \A h \in SidesOf(o) : conn[h] = "open"
         /\ \A a \in Actors : pc[a] \in {"idle", "parked", "done"})
            => row.tok = tok[o]

-----------------------------------------------------------------------------
(* Fairness: goroutines run, a peer wait times out, the sweep runs on its timer *)
(* and rows grow old.  Nothing is asked of pings: the done channel is enough.   *)
Fairness ==
    /\ \A h \in Handlers :
          /\ WF_vars(HandlerStep(h) /\ UNCHANGED hostVars)
          /\ WF_vars(PeerTimeout(h) /\ UNCHANGED hostVars)
          /\ WF_vars(PipeStep(h) /\ UNCHANGED hostVars)
    /\ \A c \in Calls : WF_vars(CallStep(c))
    /\ WF_vars(Age) /\ WF_vars(SweepRead) /\ WF_vars(SweepDelete)

FairSpec == Spec /\ Fairness

\* ADR-093: no handler is stranded.  Once any side of its session is closed,
\* or the server stops, every handler parked on the session returns.
HandlersReturn ==
    \A h \in Handlers :
        (pc[h] = "parked" /\ (stopping \/ \E g \in SidesOf(obj[h]) : conn[g] = "closed"))
            ~> pc[h] = "done"

\* ADR-059: a row does not outlive its session.  A row whose token the relay
\* does not hold is deleted, or a side registers, even after a crash or a
\* failed delete.
RowReclaimed ==
    \A t \in Tokens : (row.tok = t /\ entry[t] = NoOne) ~> (row.tok # t \/ entry[t] # NoOne)
=============================================================================
