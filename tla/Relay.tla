-------------------------------- MODULE Relay --------------------------------
(***************************************************************************)
(* The server's relay (relay.go) and the WebSocket handlers that register  *)
(* with it (handlers_relay.go).  A handler validates its token against the *)
(* session row, registers one side, waits for the peer, parks, and on its  *)
(* way out unregisters and closes its connection.  A session object is     *)
(* named after the handler whose LoadOrStore put it in the map.  Every     *)
(* section under a session's lock, and every call on a shared map, counter *)
(* or table between two of them, is a step of its own.                     *)
(***************************************************************************)
EXTENDS Integers, FiniteSets

CONSTANTS
    Tokens,    \* relay tokens the API may hand out
    Users,     \* technicians
    Handlers,  \* WebSocket handlers, each serving one connection
    Calls,     \* API calls that may end a session from outside
    NoOne      \* no handler, no session, no token

Sides == {"agent", "browser"}
Actors == Handlers \cup Calls
NoRow == [tok |-> NoOne, user |-> NoOne, old |-> FALSE]

ASSUME RelayAssumption ==
    /\ Handlers \cap Calls = {}
    /\ NoOne \notin Tokens \cup Users \cup Actors
    /\ IsFiniteSet(Handlers)

VARIABLES
    pc,          \* what each handler and each call does next
    tok, side,   \* a handler's token and side
    obj,         \* the session a handler or a call works on
    waitOn,      \* the session a handler waits on for its peer
    conn,        \* a handler's connection: "none", "open" or "closed"
    entry,       \* Relay.sessions: token to session
    count,       \* Relay.count
    registry,    \* InProcessRegistry.entries
    sess,        \* the session objects' fields
    pipe,        \* per session: where its pipe is, "none" while it never started
    claim,       \* per actor: what release captured under the lock
    stopping,    \* the server's lifetime context is cancelled
    row          \* the host's row in agent_sessions

handlers == <<tok, side, waitOn>>
relayVars == <<pc, handlers, obj, conn, entry, count, registry, sess, pipe, claim,
               stopping, row>>

NewSession == [agent |-> NoOne, browser |-> NoOne, started |-> FALSE,
               released |-> FALSE, ended |-> FALSE, cancelled |-> FALSE, done |-> FALSE]
NoClaim == [tok |-> NoOne, started |-> FALSE, conns |-> {}]

Piping(o) == pipe[o] # "none"
SidesOf(o) == {sess[o].agent, sess[o].browser} \ {NoOne}
Goto(a, label) == pc' = [pc EXCEPT ![a] = label]
CloseConns(cs) == conn' = [h \in Handlers |-> IF h \in cs THEN "closed" ELSE conn[h]]
Set(o, field) == sess' = [sess EXCEPT ![o] = [@ EXCEPT ![field] = TRUE]]

RelayInit ==
    /\ pc = [a \in Actors |-> "idle"]
    /\ tok = [h \in Handlers |-> NoOne] /\ side = [h \in Handlers |-> "agent"]
    /\ obj = [a \in Actors |-> NoOne] /\ waitOn = [h \in Handlers |-> NoOne]
    /\ conn = [h \in Handlers |-> "none"]
    /\ entry = [t \in Tokens |-> NoOne]
    /\ count = 0 /\ registry = {}
    /\ sess = [o \in Handlers |-> NewSession]
    /\ pipe = [o \in Handlers |-> "none"]
    /\ claim = [a \in Actors |-> NoClaim]
    /\ stopping = FALSE
    /\ row = NoRow

-----------------------------------------------------------------------------
(* A handler, up to its park *)

\* validateRelayToken, authenticateBrowser and the upgrade: the token has its row.
Validate(h, t, sd) ==
    /\ pc[h] = "idle" /\ row.tok = t
    /\ tok' = [tok EXCEPT ![h] = t] /\ side' = [side EXCEPT ![h] = sd]
    /\ conn' = [conn EXCEPT ![h] = "open"]
    /\ Goto(h, "validated")
    /\ UNCHANGED <<obj, waitOn, entry, count, registry, sess, pipe, claim, stopping, row>>

\* Register: LoadOrStore.
LoadOrStore(h) ==
    LET t == tok[h]
        o == IF entry[t] = NoOne THEN h ELSE entry[t]
    IN  /\ pc[h] = "validated"
        /\ entry' = [entry EXCEPT ![t] = o] /\ obj' = [obj EXCEPT ![h] = o]
        /\ Goto(h, "loaded")
        /\ UNCHANGED <<handlers, conn, count, registry, sess, pipe, claim, stopping, row>>

\* Register: setSide and markStarted under the lock; a duplicate side is closed.
SetSide(h) ==
    LET o == obj[h]
        s == sess[o]
    IN  /\ pc[h] = "loaded"
        /\ \/ /\ s[side[h]] # NoOne
              /\ CloseConns({h}) /\ Goto(h, "done")
              /\ UNCHANGED <<sess, count>>
           \/ /\ s[side[h]] = NoOne
              /\ sess' = [sess EXCEPT ![o] = [@ EXCEPT ![side[h]] = h, !.started = TRUE]]
              /\ count' = IF s.started THEN count ELSE count + 1
              /\ Goto(h, IF s.started THEN "joining" ELSE "saving")
              /\ UNCHANGED conn
        /\ UNCHANGED <<handlers, obj, entry, registry, pipe, claim, stopping, row>>

\* Register: writeOwnerMeta, for the session's first side.
SaveSession(h) ==
    /\ pc[h] = "saving"
    /\ registry' = registry \cup {tok[h]}
    /\ Goto(h, "joining")
    /\ UNCHANGED <<handlers, obj, conn, entry, count, sess, pipe, claim, stopping, row>>

CanPipeReleased(o) == ~Piping(o) /\ sess[o].agent # NoOne /\ sess[o].browser # NoOne

CanPipe(o) == /\ ~Piping(o) /\ ~sess[o].released
              /\ sess[o].agent # NoOne /\ sess[o].browser # NoOne

\* Register: startPipeIfReady.
StartPipe(h) ==
    /\ pc[h] = "joining"
    /\ pipe' = IF CanPipe(obj[h]) THEN [pipe EXCEPT ![obj[h]] = "copying"] ELSE pipe
    /\ Goto(h, "registered")
    /\ UNCHANGED <<handlers, obj, conn, entry, count, registry, sess, claim, stopping, row>>

\* WaitForPeer: the token is looked up again.
LookForPeer(h) ==
    LET o == entry[tok[h]]
    IN  /\ pc[h] = "registered"
        /\ waitOn' = [waitOn EXCEPT ![h] = o]
        /\ Goto(h, IF o = NoOne THEN "leaving" ELSE "waiting")
        /\ UNCHANGED <<tok, side, obj, conn, entry, count, registry, sess, pipe, claim,
                       stopping, row>>

StepTo(h, from, to) ==
    /\ pc[h] = from /\ Goto(h, to)
    /\ UNCHANGED <<handlers, obj, conn, entry, count, registry, sess, pipe, claim, stopping, row>>

\* WaitForPeer: ready is closed when the pipe starts, or the peer wait times out.
PeerArrived(h) == StepTo(h, "waiting", "parked") /\ Piping(waitOn[h])
PeerTimeout(h) == StepTo(h, "waiting", "leaving")

\* The park: the session is done, the server stops, or a ping goes unanswered or
\* the console session behind the browser side ended.
SessionDone(h) == StepTo(h, "parked", "leaving") /\ sess[obj[h]].done
LifetimeOver(h) == stopping /\ StepTo(h, "parked", "leaving")
PingFails(h) == StepTo(h, "parked", "leaving")

\* The network drops a connection, or its far end closes it.
Hangup(h) ==
    /\ conn[h] = "open"
    /\ CloseConns({h})
    /\ UNCHANGED <<pc, handlers, obj, entry, count, registry, sess, pipe, claim, stopping, row>>

-----------------------------------------------------------------------------
(* Releasing a session that never paired: Relay.release, run by a handler's   *)
(* Unregister or by a call's End.                                             *)

\* The section under the lock: a piping or released session is left alone.
Claim(a, o, t, otherwise) ==
    \/ /\ Piping(o) \/ sess[o].released
       /\ Goto(a, otherwise)
       /\ UNCHANGED <<sess, claim>>
    \/ /\ ~Piping(o) /\ ~sess[o].released
       /\ Set(o, "released")
       /\ claim' = [claim EXCEPT ![a] =
                      [tok |-> t, started |-> sess[o].started, conns |-> SidesOf(o)]]
       /\ Goto(a, "dropping")

\* The handler's deferred Unregister.
Unregister(h) ==
    LET o == entry[tok[h]]
    IN  /\ pc[h] = "leaving"
        /\ \/ o = NoOne /\ Goto(h, "closing") /\ UNCHANGED <<sess, claim, obj>>
           \/ /\ o # NoOne
              /\ Claim(h, o, tok[h], "closing")
              /\ obj' = [obj EXCEPT ![h] = o]
        /\ UNCHANGED <<handlers, conn, entry, count, registry, pipe, stopping, row>>

ReleaseDropUnstarted(a) ==
    LET c == claim[a]
    IN  /\ pc[a] = "dropping"
        /\ entry' = [entry EXCEPT ![c.tok] = IF @ = obj[a] THEN NoOne ELSE @]
        /\ count' = count - 1
        /\ Goto(a, "forgetting")
        /\ UNCHANGED <<handlers, obj, conn, registry, sess, pipe, claim, stopping, row>>

\* CompareAndDelete, and the count of a session that was started when claimed.
ReleaseDrop(a) ==
    LET c == claim[a]
    IN  /\ pc[a] = "dropping"
        /\ entry' = [entry EXCEPT ![c.tok] = IF @ = obj[a] THEN NoOne ELSE @]
        /\ count' = IF c.started THEN count - 1 ELSE count
        /\ Goto(a, "forgetting")
        /\ UNCHANGED <<handlers, obj, conn, registry, sess, pipe, claim, stopping, row>>

ReleaseForget(a) ==
    /\ pc[a] = "forgetting"
    /\ registry' = registry \ {claim[a].tok}
    /\ Goto(a, "ending_row")
    /\ UNCHANGED <<handlers, obj, conn, entry, count, sess, pipe, claim, stopping, row>>

\* OnSessionEnd deletes the row by its token; a failing delete is only logged.
EndRow(t) == row' \in {row, IF row.tok = t THEN NoRow ELSE row}

ReleaseRow(a) ==
    /\ pc[a] = "ending_row"
    /\ EndRow(claim[a].tok)
    /\ Goto(a, "closing_sides")
    /\ UNCHANGED <<handlers, obj, conn, entry, count, registry, sess, pipe, claim, stopping>>

\* closeSides on the connections captured by the claim, then end.
ReleaseEnd(a, after) ==
    /\ pc[a] = "closing_sides"
    /\ CloseConns(claim[a].conns)
    /\ Set(obj[a], "done")
    /\ claim' = [claim EXCEPT ![a] = NoClaim]
    /\ Goto(a, after)
    /\ UNCHANGED <<handlers, obj, entry, count, registry, pipe, stopping, row>>

\* The handler's deferred CloseNow.
CloseNow(h) ==
    /\ pc[h] = "closing"
    /\ CloseConns({h}) /\ Goto(h, "done")
    /\ UNCHANGED <<handlers, obj, entry, count, registry, sess, pipe, claim, stopping, row>>

-----------------------------------------------------------------------------
(* Relay.pipe of the session o *)

PipeTo(o, from, to) == pipe[o] = from /\ pipe' = [pipe EXCEPT ![o] = to]

\* A copier ends, because a connection is closed, or End cancelled the pipe.
PipeStops(o) ==
    /\ PipeTo(o, "copying", "dropping")
    /\ sess[o].cancelled \/ \E h \in SidesOf(o) : conn[h] = "closed"
    /\ UNCHANGED <<pc, handlers, obj, conn, entry, count, registry, sess, claim, stopping, row>>

\* The browser-to-agent copier closes both sides as soon as it ends.
CopierCloses(o) ==
    /\ Piping(o)
    /\ \E h \in SidesOf(o) : conn[h] = "closed"
    /\ CloseConns(SidesOf(o))
    /\ UNCHANGED <<pc, handlers, obj, entry, count, registry, sess, pipe, claim, stopping, row>>

PipeDrop(o) ==
    /\ PipeTo(o, "dropping", "forgetting")
    /\ entry' = [entry EXCEPT ![tok[o]] = NoOne]
    /\ count' = count - 1
    /\ UNCHANGED <<pc, handlers, obj, conn, registry, sess, claim, stopping, row>>

PipeForget(o) ==
    /\ PipeTo(o, "forgetting", "ending_row")
    /\ registry' = registry \ {tok[o]}
    /\ UNCHANGED <<pc, handlers, obj, conn, entry, count, sess, claim, stopping, row>>

PipeRow(o) ==
    /\ PipeTo(o, "ending_row", "closing_sides")
    /\ EndRow(tok[o])
    /\ UNCHANGED <<pc, handlers, obj, conn, entry, count, registry, sess, claim, stopping>>

PipeCloses(o) ==
    /\ PipeTo(o, "closing_sides", "draining")
    /\ CloseConns(SidesOf(o))
    /\ UNCHANGED <<pc, handlers, obj, entry, count, registry, sess, claim, stopping, row>>

PipeEndSilent(o) ==
    /\ PipeTo(o, "draining", "over")
    /\ UNCHANGED <<pc, handlers, obj, conn, entry, count, registry, sess, claim, stopping, row>>

\* Both copiers have ended on their closed connections: the session is done.
PipeEnd(o) ==
    /\ PipeTo(o, "draining", "over")
    /\ Set(o, "done")
    /\ UNCHANGED <<pc, handlers, obj, conn, entry, count, registry, claim, stopping, row>>

-----------------------------------------------------------------------------
(* Relay.End, called by a call c on the token t *)

EndMark(c, t, after) ==
    LET o == entry[t]
    IN  /\ \/ /\ o = NoOne
              /\ Goto(c, after) /\ UNCHANGED <<sess, obj>>
           \/ /\ o # NoOne
              /\ sess[o].released \/ sess[o].ended
              /\ Goto(c, after) /\ UNCHANGED <<sess, obj>>
           \/ /\ o # NoOne /\ ~sess[o].released /\ ~sess[o].ended
              /\ sess' = [sess EXCEPT ![o] = [@ EXCEPT !.ended = TRUE, !.cancelled = Piping(o)]]
              /\ obj' = [obj EXCEPT ![c] = o]
              /\ Goto(c, IF Piping(o) THEN after ELSE "releasing")
        /\ UNCHANGED <<handlers, conn, entry, count, registry, pipe, claim, stopping, row>>

\* End's release of a session that was not piping when it was marked.
EndRelease(c, t, after) ==
    /\ pc[c] = "releasing"
    /\ Claim(c, obj[c], t, after)
    /\ UNCHANGED <<handlers, obj, conn, entry, count, registry, pipe, stopping, row>>

-----------------------------------------------------------------------------
HandlerStep(h) ==
    \/ LoadOrStore(h) \/ SetSide(h) \/ SaveSession(h) \/ StartPipe(h) \/ LookForPeer(h)
    \/ PeerArrived(h) \/ SessionDone(h) \/ LifetimeOver(h)
    \/ Unregister(h) \/ ReleaseDrop(h) \/ ReleaseForget(h) \/ ReleaseRow(h)
    \/ ReleaseEnd(h, "closing") \/ CloseNow(h)

PipeStep(o) ==
    \/ PipeStops(o) \/ CopierCloses(o) \/ PipeDrop(o) \/ PipeForget(o) \/ PipeRow(o)
    \/ PipeCloses(o) \/ PipeEnd(o)
=============================================================================
