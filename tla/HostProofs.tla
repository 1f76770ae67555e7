----------------------------- MODULE HostProofs -----------------------------
(***************************************************************************)
(* The host, for every number of handlers, calls, tokens and technicians.  *)
(* Release and pipe never both tear a session down: OneTeardown is         *)
(* inductive once the session objects and the pipes have their types.      *)
(* The drain count covers the live sessions: the proof counts the sessions *)
(* whose count is still owed, of which each live one is.                   *)
(***************************************************************************)
EXTENDS HostSessions, FiniteSetTheorems, TLAPS

Session == [agent : Handlers \cup {NoOne}, browser : Handlers \cup {NoOne},
            started : BOOLEAN, released : BOOLEAN, ended : BOOLEAN,
            cancelled : BOOLEAN, done : BOOLEAN]
PipeStages == {"none", "copying", "dropping", "forgetting", "ending_row",
               "closing_sides", "draining", "over"}

\* The types OneTeardown rests on: of the sides, the session objects and the pipes.
SessionTypes ==
    /\ side \in [Handlers -> Sides]
    /\ sess \in [Handlers -> Session]
    /\ pipe \in [Handlers -> PipeStages]

TInv == SessionTypes /\ OneTeardown

\* What a step may do to the sessions and the pipes, whatever else it does: neither changes,
\* or one session object changes and keeps its claim, or claims itself while it does not pipe,
\* or one pipe starts on an unclaimed session or goes on.
SessionStep ==
    \/ UNCHANGED <<side, sess, pipe>>
    \/ \E h \in Handlers, sd \in Sides :
          side' = [side EXCEPT ![h] = sd] /\ UNCHANGED <<sess, pipe>>
    \/ /\ UNCHANGED <<side, pipe>>
       /\ \E o \in Handlers, s \in Session :
             /\ sess' = [sess EXCEPT ![o] = s]
             /\ s.released => sess[o].released \/ ~Piping(o)
    \/ /\ UNCHANGED <<side, sess>>
       /\ \E o \in Handlers, p \in PipeStages :
             /\ pipe' = [pipe EXCEPT ![o] = p]
             /\ Piping(o) \/ ~sess[o].released
    \/ /\ UNCHANGED side
       /\ \E o \in Handlers, p \in PipeStages, s \in Session :
             /\ pipe' = [pipe EXCEPT ![o] = p] /\ sess' = [sess EXCEPT ![o] = s]
             /\ Piping(o) /\ s.released = sess[o].released
    \/ /\ UNCHANGED side
       /\ sess' = [o \in Handlers |-> NewSession] /\ pipe' = [o \in Handlers |-> "none"]

-----------------------------------------------------------------------------
\* Whatever a step does, in those terms, the invariant survives it.
LEMMA SessionStepKeeps == TInv /\ SessionStep => TInv'
<1> SUFFICES ASSUME TInv, SessionStep PROVE TInv'
  OBVIOUS
<1> USE DEF TInv, SessionTypes, OneTeardown, Piping
<1>1. CASE UNCHANGED <<side, sess, pipe>>
  BY <1>1
<1>2. CASE \E h \in Handlers, sd \in Sides :
             side' = [side EXCEPT ![h] = sd] /\ UNCHANGED <<sess, pipe>>
  BY <1>2
<1>3. CASE /\ UNCHANGED <<side, pipe>>
           /\ \E o \in Handlers, s \in Session :
                 /\ sess' = [sess EXCEPT ![o] = s]
                 /\ s.released => sess[o].released \/ ~Piping(o)
  <2> PICK o \in Handlers, s \in Session :
         /\ sess' = [sess EXCEPT ![o] = s]
         /\ s.released => sess[o].released \/ ~Piping(o)
    BY <1>3
  <2> QED BY <1>3
<1>4. CASE /\ UNCHANGED <<side, sess>>
           /\ \E o \in Handlers, p \in PipeStages :
                 /\ pipe' = [pipe EXCEPT ![o] = p]
                 /\ Piping(o) \/ ~sess[o].released
  <2> PICK o \in Handlers, p \in PipeStages :
         /\ pipe' = [pipe EXCEPT ![o] = p]
         /\ Piping(o) \/ ~sess[o].released
    BY <1>4
  <2> QED BY <1>4
<1>5. CASE /\ UNCHANGED side
           /\ \E o \in Handlers, p \in PipeStages, s \in Session :
                 /\ pipe' = [pipe EXCEPT ![o] = p] /\ sess' = [sess EXCEPT ![o] = s]
                 /\ Piping(o) /\ s.released = sess[o].released
  <2> PICK o \in Handlers, p \in PipeStages, s \in Session :
         /\ pipe' = [pipe EXCEPT ![o] = p] /\ sess' = [sess EXCEPT ![o] = s]
         /\ Piping(o) /\ s.released = sess[o].released
    BY <1>5
  <2> QED BY <1>5
<1>6. CASE /\ UNCHANGED side
           /\ sess' = [o \in Handlers |-> NewSession] /\ pipe' = [o \in Handlers |-> "none"]
  BY <1>6 DEF NewSession, Session, PipeStages
<1> QED BY <1>1, <1>2, <1>3, <1>4, <1>5, <1>6 DEF SessionStep

\* A claim changes one session that does not pipe, or nothing (Relay.release).
LEMMA ClaimStep ==
    ASSUME TInv, NEW a, NEW o, NEW t, NEW otherwise, Claim(a, o, t, otherwise),
           UNCHANGED <<side, pipe>>
    PROVE  SessionStep
<1>1. CASE UNCHANGED sess
  BY <1>1 DEF SessionStep
<1>2. CASE ~Piping(o) /\ Set(o, "released")
  <2>1. CASE o \in Handlers
    <3> DEFINE s == [sess[o] EXCEPT !["released"] = TRUE]
    <3>1. sess' = [sess EXCEPT ![o] = s]
      BY <1>2 DEF Set
    <3>2. s \in Session
      BY <2>1 DEF TInv, SessionTypes, Session
    <3> QED BY <1>2, <2>1, <3>1, <3>2 DEF SessionStep
  <2>2. CASE o \notin Handlers
    <3>1. sess' = sess
      BY <1>2, <2>2 DEF Set, TInv, SessionTypes
    <3> QED BY <3>1 DEF SessionStep
  <2> QED BY <2>1, <2>2
<1> QED BY <1>1, <1>2 DEF Claim

\* The steps of a release after its claim leave every claim as it was (Relay.release).
LEMMA ReleaseStep ==
    ASSUME TInv, NEW a \in Actors, NEW after,
           ReleaseDrop(a) \/ ReleaseForget(a) \/ ReleaseRow(a) \/ ReleaseEnd(a, after)
    PROVE  SessionStep
<1>1. CASE ReleaseDrop(a) \/ ReleaseForget(a) \/ ReleaseRow(a)
  BY <1>1 DEF ReleaseDrop, ReleaseForget, ReleaseRow, SessionStep, handlers
<1>2. CASE ReleaseEnd(a, after)
  <2> DEFINE o == obj[a]
             s == [sess[o] EXCEPT !["done"] = TRUE]
  <2>1. sess' = [sess EXCEPT ![o] = s] /\ UNCHANGED <<side, pipe>>
    BY <1>2 DEF ReleaseEnd, Set, handlers
  <2>2. CASE o \in Handlers
    <3>1. s \in Session /\ s.released = sess[o].released
      BY <2>2, ZenonT(40) DEF TInv, SessionTypes, Session
    <3> QED BY <2>1, <2>2, <3>1 DEF SessionStep
  <2>3. CASE o \notin Handlers
    <3>1. sess' = sess
      BY <2>1, <2>3 DEF TInv, SessionTypes
    <3> QED BY <2>1, <3>1 DEF SessionStep
  <2> QED BY <2>2, <2>3
<1> QED BY <1>1, <1>2

\* Setting a side, under the lock, claims nothing (session.setSide).
LEMMA SetSideStep ==
    ASSUME TInv, NEW h \in Handlers, SetSide(h)
    PROVE  SessionStep
<1>1. UNCHANGED <<side, pipe>>
  BY DEF SetSide, handlers
<1>2. CASE UNCHANGED sess
  BY <1>1, <1>2 DEF SessionStep
<1>3. CASE sess' = [sess EXCEPT ![obj[h]] = [@ EXCEPT ![side[h]] = h, !.started = TRUE]]
  <2> DEFINE o == obj[h]
             s == [sess[o] EXCEPT ![side[h]] = h, !.started = TRUE]
  <2>1. sess' = [sess EXCEPT ![o] = s]
    BY <1>3
  <2>2. CASE o \in Handlers
    <3>1. sess[o] \in Session /\ side[h] \in {"agent", "browser"}
      BY <2>2 DEF TInv, SessionTypes, Sides
    <3>2. s \in Session /\ s.released = sess[o].released
      <4>1. CASE side[h] = "agent"
        BY <3>1, <4>1 DEF Session
      <4>2. CASE side[h] = "browser"
        BY <3>1, <4>2 DEF Session
      <4> QED BY <3>1, <4>1, <4>2
    <3> QED BY <1>1, <2>1, <2>2, <3>2 DEF SessionStep
  <2>3. CASE o \notin Handlers
    <3>1. sess' = sess
      BY <2>1, <2>3 DEF TInv, SessionTypes
    <3> QED BY <1>1, <3>1 DEF SessionStep
  <2> QED BY <2>2, <2>3
<1> QED BY <1>2, <1>3 DEF SetSide

\* The pipe starts only on a session nobody claimed (Relay.startPipeIfReady).
LEMMA StartPipeStep ==
    ASSUME TInv, NEW h \in Handlers, StartPipe(h)
    PROVE  SessionStep
<1> DEFINE o == obj[h]
<1>1. UNCHANGED <<side, sess>>
  BY DEF StartPipe, handlers
<1>2. CASE pipe' = pipe
  BY <1>1, <1>2 DEF SessionStep
<1>3. CASE CanPipe(o) /\ pipe' = [pipe EXCEPT ![o] = "copying"]
  <2>1. CASE o \in Handlers
    BY <1>1, <1>3, <2>1 DEF SessionStep, CanPipe, PipeStages
  <2>2. CASE o \notin Handlers
    <3>1. pipe' = pipe
      BY <1>3, <2>2 DEF TInv, SessionTypes
    <3> QED BY <1>1, <3>1 DEF SessionStep
  <2> QED BY <2>1, <2>2
<1> QED BY <1>2, <1>3 DEF StartPipe

\* Everything a handler does is such a step.
LEMMA HandlerSessionStep ==
    ASSUME TInv, NEW h \in Handlers, HandlerStep(h) PROVE SessionStep
<1>1. CASE \/ LoadOrStore(h) \/ SaveSession(h) \/ LookForPeer(h) \/ PeerArrived(h)
           \/ SessionDone(h) \/ LifetimeOver(h) \/ CloseNow(h)
  BY <1>1 DEF LoadOrStore, SaveSession, LookForPeer, PeerArrived, SessionDone, LifetimeOver,
              CloseNow, StepTo, handlers, SessionStep
<1>2. CASE SetSide(h)
  BY <1>2, SetSideStep
<1>3. CASE StartPipe(h)
  BY <1>3, StartPipeStep
<1>4. CASE Unregister(h)
  <2> DEFINE o == entry[tok[h]]
  <2>1. UNCHANGED <<side, pipe>>
    BY <1>4 DEF Unregister, handlers
  <2>2. UNCHANGED sess \/ Claim(h, o, tok[h], "closing")
    BY <1>4 DEF Unregister
  <2>3. CASE UNCHANGED sess
    BY <2>1, <2>3 DEF SessionStep
  <2>4. CASE Claim(h, o, tok[h], "closing")
    BY <2>1, <2>4, ClaimStep
  <2> QED BY <2>2, <2>3, <2>4
<1>5. CASE ReleaseDrop(h) \/ ReleaseForget(h) \/ ReleaseRow(h) \/ ReleaseEnd(h, "closing")
  <2>1. h \in Actors
    BY DEF Actors
  <2> QED BY <1>5, <2>1, ReleaseStep
<1> QED BY <1>1, <1>2, <1>3, <1>4, <1>5 DEF HandlerStep

\* Everything a running pipe does is such a step: it goes on, or ends its session.
LEMMA PipeSessionStep ==
    ASSUME TInv, NEW o \in Handlers, PipeStep(o) PROVE SessionStep
<1>1. CASE CopierCloses(o)
  BY <1>1 DEF CopierCloses, SessionStep, handlers
<1>2. CASE \/ PipeStops(o) \/ PipeDrop(o) \/ PipeForget(o) \/ PipeRow(o) \/ PipeCloses(o)
  <2>1. /\ UNCHANGED <<side, sess>>
        /\ Piping(o)
        /\ \E p \in PipeStages : pipe' = [pipe EXCEPT ![o] = p]
    BY <1>2 DEF PipeStops, PipeDrop, PipeForget, PipeRow, PipeCloses, PipeTo, Piping,
                PipeStages, handlers
  <2> QED BY <2>1 DEF SessionStep
<1>3. CASE PipeEnd(o)
  <2> DEFINE s == [sess[o] EXCEPT !["done"] = TRUE]
  <2>1. /\ UNCHANGED side
        /\ Piping(o)
        /\ pipe' = [pipe EXCEPT ![o] = "over"]
        /\ sess' = [sess EXCEPT ![o] = s]
    BY <1>3 DEF PipeEnd, PipeTo, Piping, Set, handlers
  <2>2. s \in Session /\ s.released = sess[o].released
    BY DEF TInv, SessionTypes, Session
  <2>3. "over" \in PipeStages
    BY DEF PipeStages
  <2> QED BY <2>1, <2>2, <2>3 DEF SessionStep
<1> QED BY <1>1, <1>2, <1>3 DEF PipeStep

\* Everything a call does is such a step: End marks a session and claims nothing, its release
\* claims like any other (Relay.End).
LEMMA CallSessionStep ==
    ASSUME TInv, NEW c \in Calls, CallStep(c) PROVE SessionStep
<1>1. CASE Request(c) \/ RequestFails(c) \/ DeleteRow(c)
  BY <1>1 DEF Request, RequestFails, DeleteRow, relayRest, handlers, SessionStep
<1>2. CASE End(c)
  <2> DEFINE o == entry[target[c]]
             s == [sess[o] EXCEPT !.ended = TRUE, !.cancelled = Piping(o)]
  <2>1. UNCHANGED <<side, pipe>>
    BY <1>2 DEF End, EndMark, handlers
  <2>2. UNCHANGED sess \/ sess' = [sess EXCEPT ![o] = s]
    BY <1>2 DEF End, EndMark
  <2>3. CASE sess' = sess
    BY <2>1, <2>3 DEF SessionStep
  <2>4. CASE sess' = [sess EXCEPT ![o] = s] /\ o \in Handlers
    <3>1. Piping(o) \in BOOLEAN
      BY DEF Piping
    <3>2. s \in Session /\ s.released = sess[o].released
      BY <2>4, <3>1, ZenonT(40) DEF TInv, SessionTypes, Session
    <3> QED BY <2>1, <2>4, <3>2 DEF SessionStep
  <2>5. CASE sess' = [sess EXCEPT ![o] = s] /\ o \notin Handlers
    <3>1. sess' = sess
      BY <2>5 DEF TInv, SessionTypes
    <3> QED BY <2>1, <3>1 DEF SessionStep
  <2> QED BY <2>2, <2>3, <2>4, <2>5
<1>3. CASE EndRelease(c, target[c], AfterEnd(c))
  <2>1. UNCHANGED <<side, pipe>> /\ Claim(c, obj[c], target[c], AfterEnd(c))
    BY <1>3 DEF EndRelease, handlers
  <2> QED BY <2>1, ClaimStep
<1>4. CASE ReleaseDrop(c) \/ ReleaseForget(c) \/ ReleaseRow(c) \/ ReleaseEnd(c, AfterEnd(c))
  <2>1. c \in Actors
    BY DEF Actors
  <2> QED BY <1>4, <2>1, ReleaseStep
<1> QED BY <1>1, <1>2, <1>3, <1>4 DEF CallStep, CallReleases

\* Every step of the system is such a step.
LEMMA NextIsSessionStep == TInv /\ [Next]_vars => SessionStep
<1> SUFFICES ASSUME TInv, [Next]_vars PROVE SessionStep
  OBVIOUS
<1>1. CASE RelayNext
  <2> PICK h \in Handlers :
         \/ \E sd \in Sides, t \in requested : Validate(h, t, sd)
         \/ HandlerStep(h) \/ PeerTimeout(h) \/ PingFails(h) \/ Hangup(h)
         \/ PipeStep(h)
    BY <1>1 DEF RelayNext
  <2>1. CASE \E sd \in Sides, t \in requested : Validate(h, t, sd)
    BY <2>1 DEF Validate, SessionStep
  <2>2. CASE HandlerStep(h)
    BY <2>2, HandlerSessionStep
  <2>3. CASE PeerTimeout(h) \/ PingFails(h) \/ Hangup(h)
    BY <2>3 DEF PeerTimeout, PingFails, Hangup, StepTo, handlers, SessionStep
  <2>4. CASE PipeStep(h)
    BY <2>4, PipeSessionStep
  <2> QED BY <2>1, <2>2, <2>3, <2>4
<1>2. CASE \E c \in Calls :
             \/ \E u \in Users, t \in Tokens : Create(c, u, t)
             \/ Find(c)
  BY <1>2 DEF Create, Find, relayRest, handlers, SessionStep
<1>3. CASE \E c \in Calls : CallStep(c)
  BY <1>3, CallSessionStep
<1>4. CASE SweepRead \/ SweepDelete \/ Age \/ Shutdown
  BY <1>4 DEF SweepRead, SweepDelete, Age, Shutdown, relayVars, relayRest, handlers, SessionStep
<1>5. CASE Crash
  BY <1>5 DEF Crash, handlers, SessionStep
<1>6. CASE UNCHANGED vars
  BY <1>6 DEF vars, relayVars, handlers, SessionStep
<1> QED BY <1>1, <1>2, <1>3, <1>4, <1>5, <1>6 DEF Next

-----------------------------------------------------------------------------
\* A session is torn down by release or by its pipe, never by both, with any number of
\* handlers and calls (relay.go, startPipeIfReady and release).
THEOREM OneTeardownHolds == Spec => []OneTeardown
<1>1. Init => TInv
  BY DEF Init, RelayInit, TInv, SessionTypes, OneTeardown, Sides, NewSession, Session,
         PipeStages, Piping
<1>2. TInv /\ [Next]_vars => TInv'
  BY NextIsSessionStep, SessionStepKeeps
<1>3. TInv => OneTeardown
  BY DEF TInv
<1> QED BY <1>1, <1>2, <1>3, PTL DEF Spec
-----------------------------------------------------------------------------
(***************************************************************************)
(* The count covers the live sessions.  The sessions whose count is still  *)
(* owed are counted instead of the live ones: a step adds one to the count *)
(* with a session that becomes owed, and takes one off with a session that *)
(* is no longer, because a release that gives a count back claimed its     *)
(* session alone and a pipe runs only on a session that is counted.        *)
(***************************************************************************)
\* A release has the session's count still to give back.
Returning(o) == \E a \in Actors : obj[a] = o /\ pc[a] = "dropping" /\ claim[a].started

\* The sessions whose count is still to be given back, by a pipe, or by a release that
\* captured it or is yet to come.
Owed(o) ==
    /\ sess[o].started
    /\ pipe[o] \in {"none", "copying", "dropping"}
    /\ ~sess[o].released \/ Returning(o)
OwedSet == {o \in Handlers : Owed(o)}
Covered == count \in Int /\ count >= Cardinality(OwedSet)

\* The types of what decides which sessions are counted.
PlaceTypes ==
    /\ pc \in [Actors -> Labels]
    /\ tok \in [Handlers -> Tokens \cup {NoOne}]
    /\ obj \in [Actors -> Handlers \cup {NoOne}]
    /\ entry \in [Tokens -> Handlers \cup {NoOne}]
    /\ claim \in [Actors -> [tok : Tokens \cup {NoOne}, started : BOOLEAN, conns : SUBSET Handlers]]
    /\ row \in [tok : Tokens \cup {NoOne}, user : Users \cup {NoOne}, old : BOOLEAN]
    /\ row = NoRow \/ row.tok \in Tokens
    /\ target \in [Calls -> Tokens \cup {NoOne}] /\ fresh \in [Calls -> Tokens \cup {NoOne}]
    /\ used \subseteq Tokens /\ requested \subseteq Tokens

\* A handler past its check has a token; a call that ends a session has its token, one that
\* asks the host for a session the new one, one that goes on to release its session.
Known ==
    /\ \A h \in Handlers : pc[h] # "idle" => tok[h] \in Tokens
    /\ \A c \in Calls : pc[c] \in {"found", "deleted", "replacing"} => target[c] \in Tokens
    /\ \A c \in Calls : pc[c] \in {"requesting", "replacing"} => fresh[c] \in Tokens
    /\ \A c \in Calls : pc[c] = "releasing" => obj[c] \in Handlers

\* A release under way has claimed its session, alone.
Claims ==
    /\ \A a \in Actors : pc[a] = "dropping" =>
         /\ obj[a] \in Handlers /\ sess[obj[a]].released
         /\ claim[a].started => sess[obj[a]].started
    /\ \A a, b \in Actors : pc[a] = "dropping" /\ pc[b] = "dropping" /\ obj[a] = obj[b] => a = b

\* A session with a side, or with a pipe, is counted.
Sided ==
    \A o \in Handlers :
        sess[o].agent # NoOne \/ sess[o].browser # NoOne \/ Piping(o) => sess[o].started

HostInv == TInv /\ PlaceTypes /\ Known /\ Claims /\ Sided /\ Covered

\* A set of sessions that grows by one, or loses one, against a count that follows it.
LEMMA CountFollows ==
    ASSUME NEW S \in SUBSET Handlers, NEW T \in SUBSET Handlers, NEW n \in Int, n >= Cardinality(S)
    PROVE  /\ T \subseteq S => n >= Cardinality(T)
           /\ \A o \in Handlers : T \subseteq S \cup {o} => n + 1 >= Cardinality(T)
           /\ \A o \in S : T \subseteq S \ {o} => n - 1 >= Cardinality(T)
<1>1. IsFiniteSet(S) /\ IsFiniteSet(T) /\ Cardinality(S) \in Nat /\ Cardinality(T) \in Nat
  BY RelayAssumption, FS_Subset, FS_CardinalityType
<1>2. ASSUME T \subseteq S PROVE n >= Cardinality(T)
  <2>1. Cardinality(T) <= Cardinality(S)
    BY <1>1, <1>2, FS_Subset
  <2> QED BY <1>1, <2>1
<1>3. ASSUME NEW o \in Handlers, T \subseteq S \cup {o} PROVE n + 1 >= Cardinality(T)
  <2>1. IsFiniteSet(S \cup {o}) /\ Cardinality(S \cup {o}) \in {Cardinality(S), Cardinality(S) + 1}
    BY <1>1, FS_AddElement
  <2>2. Cardinality(T) <= Cardinality(S \cup {o})
    BY <1>3, <2>1, FS_Subset
  <2> QED BY <1>1, <2>1, <2>2
<1>4. ASSUME NEW o \in S, T \subseteq S \ {o} PROVE n - 1 >= Cardinality(T)
  <2>1. IsFiniteSet(S \ {o}) /\ Cardinality(S \ {o}) = Cardinality(S) - 1
    BY <1>1, FS_RemoveElement
  <2>2. Cardinality(T) <= Cardinality(S \ {o})
    BY <1>4, <2>1, FS_Subset
  <2> QED BY <1>1, <2>1, <2>2
<1> QED BY <1>2, <1>3, <1>4

-----------------------------------------------------------------------------
(* Places and tokens *)

\* The labels, and that a step of one actor leaves the others where they are.
LEMMA OneGoes ==
    ASSUME PlaceTypes, NEW a \in Actors, NEW l \in Labels, Goto(a, l)
    PROVE  /\ pc' \in [Actors -> Labels] /\ pc'[a] = l
           /\ \A b \in Actors \ {a} : pc'[b] = pc[b]
  BY DEF Goto, PlaceTypes

\* Known survives a step of a handler that keeps its token.
LEMMA HandlerKnown ==
    ASSUME PlaceTypes, Known, NEW h \in Handlers, pc[h] # "idle", NEW l \in Labels, Goto(h, l),
           tok' = tok, \A b \in Calls : obj'[b] = obj[b], UNCHANGED <<target, fresh>>
    PROVE  Known'
<1>1. h \in Actors /\ \A c \in Calls : c \in Actors /\ c # h
  BY RelayAssumption DEF Actors
<1>2. (\A g \in Handlers : pc'[g] = pc[g] \/ g = h) /\ (\A c \in Calls : pc'[c] = pc[c])
  BY <1>1, OneGoes DEF Actors
<1> QED BY <1>2 DEF Known

\* And one of a call, if what the call knows fits its new place.
LEMMA CallKnown ==
    ASSUME PlaceTypes, Known, NEW c \in Calls, NEW l \in Labels, Goto(c, l), UNCHANGED tok,
           \A b \in Calls \ {c} : target'[b] = target[b] /\ fresh'[b] = fresh[b] /\ obj'[b] = obj[b],
           l \in {"found", "deleted", "replacing"} => target'[c] \in Tokens,
           l \in {"requesting", "replacing"} => fresh'[c] \in Tokens,
           l = "releasing" => obj'[c] \in Handlers
    PROVE  Known'
<1>1. c \in Actors /\ \A h \in Handlers : h \in Actors /\ c # h
  BY RelayAssumption DEF Actors
<1>2. /\ \A h \in Handlers : pc'[h] = pc[h]
      /\ \A b \in Calls \ {c} : pc'[b] = pc[b]
      /\ pc'[c] = l
  BY <1>1, OneGoes DEF Actors
<1> QED BY <1>2 DEF Known

\* A row keeps its type when it is deleted, or grows old.
LEMMA RowTypes ==
    ASSUME PlaceTypes, row' = row \/ row' = NoRow \/ (row # NoRow /\ row' = [row EXCEPT !.old = TRUE])
    PROVE  /\ row' \in [tok : Tokens \cup {NoOne}, user : Users \cup {NoOne}, old : BOOLEAN]
           /\ row' = NoRow \/ row'.tok \in Tokens
<1>1. NoRow \in [tok : Tokens \cup {NoOne}, user : Users \cup {NoOne}, old : BOOLEAN]
  BY DEF NoRow
<1>2. CASE row' = row
  BY <1>2 DEF PlaceTypes
<1>3. CASE row' = NoRow
  BY <1>1, <1>3
<1>4. CASE row # NoRow /\ row' = [row EXCEPT !.old = TRUE]
  BY <1>4 DEF PlaceTypes
<1> QED BY <1>2, <1>3, <1>4

\* The types that a claim touches (Relay.release, under the lock).
LEMMA ClaimTypes ==
    ASSUME TInv, PlaceTypes, NEW a \in Actors, NEW o \in Handlers, NEW t \in Tokens \cup {NoOne},
           NEW otherwise \in Labels, Claim(a, o, t, otherwise)
    PROVE  /\ claim' \in [Actors -> [tok : Tokens \cup {NoOne}, started : BOOLEAN, conns : SUBSET Handlers]]
           /\ \E l \in {otherwise, "dropping"} : l \in Labels /\ Goto(a, l)
<1>1. SidesOf(o) \in SUBSET Handlers /\ sess[o].started \in BOOLEAN
  BY DEF TInv, SessionTypes, Session, SidesOf
<1>2. "dropping" \in Labels
  BY DEF Labels
<1>3. CASE UNCHANGED claim /\ Goto(a, otherwise)
  BY <1>3 DEF PlaceTypes
<1>4. CASE /\ claim' = [claim EXCEPT ![a] = [tok |-> t, started |-> sess[o].started, conns |-> SidesOf(o)]]
           /\ Goto(a, "dropping")
  BY <1>1, <1>2, <1>4 DEF PlaceTypes
<1> QED BY <1>3, <1>4 DEF Claim

\* The types of a release after its claim.
LEMMA ReleaseTypes ==
    ASSUME PlaceTypes, NEW a \in Actors, NEW after \in Labels, UNCHANGED <<target, fresh, used, requested>>,
           ReleaseDrop(a) \/ ReleaseForget(a) \/ ReleaseRow(a) \/ ReleaseEnd(a, after)
    PROVE  PlaceTypes' /\ UNCHANGED <<tok, obj>> /\ pc[a] # "idle"
           /\ \E l \in {"forgetting", "ending_row", "closing_sides", after} : l \in Labels /\ Goto(a, l)
<1>1. /\ UNCHANGED <<tok, obj>> /\ pc[a] # "idle"
      /\ \E l \in {"forgetting", "ending_row", "closing_sides", after} : l \in Labels /\ Goto(a, l)
  BY DEF ReleaseDrop, ReleaseForget, ReleaseRow, ReleaseEnd, handlers, Labels
<1>2. pc' \in [Actors -> Labels]
  BY <1>1, OneGoes
<1>3. entry' \in [Tokens -> Handlers \cup {NoOne}]
  <2>1. \/ entry' = entry
        \/ entry' = [entry EXCEPT ![claim[a].tok] = IF entry[claim[a].tok] = obj[a] THEN NoOne ELSE entry[claim[a].tok]]
    BY DEF ReleaseDrop, ReleaseForget, ReleaseRow, ReleaseEnd
  <2> QED BY <2>1 DEF PlaceTypes
<1>4. claim' \in [Actors -> [tok : Tokens \cup {NoOne}, started : BOOLEAN, conns : SUBSET Handlers]]
  <2>1. claim' = claim \/ claim' = [claim EXCEPT ![a] = NoClaim]
    BY DEF ReleaseDrop, ReleaseForget, ReleaseRow, ReleaseEnd
  <2>2. NoClaim \in [tok : Tokens \cup {NoOne}, started : BOOLEAN, conns : SUBSET Handlers]
    BY DEF NoClaim
  <2> QED BY <2>1, <2>2 DEF PlaceTypes
<1>5. row' = row \/ row' = NoRow
  BY DEF ReleaseDrop, ReleaseForget, ReleaseRow, ReleaseEnd, EndRow
<1>6. /\ row' \in [tok : Tokens \cup {NoOne}, user : Users \cup {NoOne}, old : BOOLEAN]
      /\ row' = NoRow \/ row'.tok \in Tokens
  BY <1>5, RowTypes
<1> QED BY <1>1, <1>2, <1>3, <1>4, <1>6 DEF PlaceTypes

LEMMA HandlerPlaces ==
    ASSUME TInv, PlaceTypes, Known, NEW h \in Handlers, HandlerStep(h), UNCHANGED hostVars
    PROVE  PlaceTypes' /\ Known'
<1>0. /\ h \in Actors /\ (\A c \in Calls : c # h /\ c \in Actors)
      /\ UNCHANGED <<target, fresh, used, requested>>
  BY RelayAssumption DEF Actors, hostVars
<1>1. CASE LoadOrStore(h)
  <2> DEFINE o == IF entry[tok[h]] = NoOne THEN h ELSE entry[tok[h]]
  <2>1. /\ entry' = [entry EXCEPT ![tok[h]] = o] /\ obj' = [obj EXCEPT ![h] = o]
        /\ pc[h] # "idle" /\ Goto(h, "loaded") /\ UNCHANGED <<tok, claim, row>>
    BY <1>1 DEF LoadOrStore, handlers
  <2>2. tok[h] \in Tokens /\ "loaded" \in Labels
    BY <2>1 DEF Known, Labels
  <2>3. o \in Handlers
    BY <2>2 DEF PlaceTypes
  <2> HIDE DEF o
  <2>4. \A b \in Calls : obj'[b] = obj[b]
    BY <1>0, <2>1 DEF PlaceTypes
  <2>5. Known'
    BY <1>0, <2>1, <2>2, <2>4, HandlerKnown
  <2>6. pc' \in [Actors -> Labels]
    BY <1>0, <2>1, <2>2, OneGoes
  <2> QED BY <1>0, <2>1, <2>3, <2>5, <2>6 DEF PlaceTypes
<1>2. CASE \/ SetSide(h) \/ SaveSession(h) \/ StartPipe(h) \/ LookForPeer(h) \/ PeerArrived(h)
           \/ SessionDone(h) \/ LifetimeOver(h) \/ CloseNow(h)
  <2>1. pc[h] # "idle" /\ UNCHANGED <<tok, obj, entry, claim, row>>
    BY <1>2 DEF SetSide, SaveSession, StartPipe, LookForPeer, PeerArrived, SessionDone,
                LifetimeOver, CloseNow, StepTo, handlers
  <2>2. \E l \in Labels : Goto(h, l)
    <3>1. CASE SetSide(h)
      <4>1. \E l \in {"done", "joining", "saving"} : Goto(h, l)
        BY <3>1, Zenon DEF SetSide
      <4> QED BY <4>1 DEF Labels
    <3>2. CASE SaveSession(h) \/ StartPipe(h) \/ CloseNow(h)
      BY <3>2 DEF SaveSession, StartPipe, CloseNow, Labels
    <3>3. CASE LookForPeer(h)
      BY <3>3 DEF LookForPeer, Labels
    <3>4. CASE PeerArrived(h) \/ SessionDone(h) \/ LifetimeOver(h)
      BY <3>4 DEF PeerArrived, SessionDone, LifetimeOver, StepTo, Labels
    <3> QED BY <1>2, <3>1, <3>2, <3>3, <3>4
  <2>3. PICK l \in Labels : Goto(h, l)
    BY <2>2
  <2>4. Known' /\ pc' \in [Actors -> Labels]
    BY <1>0, <2>1, <2>3, HandlerKnown, OneGoes
  <2> QED BY <1>0, <2>1, <2>4 DEF PlaceTypes
<1>3. CASE Unregister(h)
  <2> DEFINE o == entry[tok[h]]
  <2>1. pc[h] # "idle" /\ UNCHANGED <<tok, entry, row>>
    BY <1>3 DEF Unregister, handlers
  <2>2. tok[h] \in Tokens /\ o \in Handlers \cup {NoOne} /\ "closing" \in Labels
    BY <2>1 DEF Known, PlaceTypes, Labels
  <2>3. \/ Goto(h, "closing") /\ UNCHANGED <<claim, obj>>
        \/ o # NoOne /\ Claim(h, o, tok[h], "closing") /\ obj' = [obj EXCEPT ![h] = o]
    BY <1>3 DEF Unregister
  <2>4. /\ claim' \in [Actors -> [tok : Tokens \cup {NoOne}, started : BOOLEAN, conns : SUBSET Handlers]]
        /\ \E l \in Labels : Goto(h, l)
    <3>1. CASE Goto(h, "closing") /\ UNCHANGED <<claim, obj>>
      BY <2>2, <3>1 DEF PlaceTypes
    <3>2. CASE o # NoOne /\ Claim(h, o, tok[h], "closing")
      <4>1. o \in Handlers
        BY <2>2, <3>2
      <4> HIDE DEF o
      <4> QED BY <1>0, <2>2, <3>2, <4>1, ClaimTypes
    <3> QED BY <2>3, <3>1, <3>2
  <2> HIDE DEF o
  <2>5. obj' \in [Actors -> Handlers \cup {NoOne}] /\ \A b \in Calls : obj'[b] = obj[b]
    BY <1>0, <2>2, <2>3 DEF PlaceTypes
  <2>6. PICK l \in Labels : Goto(h, l)
    BY <2>4
  <2>7. Known' /\ pc' \in [Actors -> Labels]
    BY <1>0, <2>1, <2>5, <2>6, HandlerKnown, OneGoes
  <2> QED BY <1>0, <2>1, <2>4, <2>5, <2>7 DEF PlaceTypes
<1>4. CASE ReleaseDrop(h) \/ ReleaseForget(h) \/ ReleaseRow(h) \/ ReleaseEnd(h, "closing")
  <2>1. "closing" \in Labels
    BY DEF Labels
  <2>2. /\ PlaceTypes' /\ UNCHANGED <<tok, obj>> /\ pc[h] # "idle"
        /\ \E l \in Labels : Goto(h, l)
    BY <1>0, <1>4, <2>1, ReleaseTypes
  <2>3. PICK l \in Labels : Goto(h, l)
    BY <2>2
  <2> QED BY <1>0, <2>2, <2>3, HandlerKnown
<1> QED BY <1>1, <1>2, <1>3, <1>4 DEF HandlerStep

LEMMA PipePlaces ==
    ASSUME PlaceTypes, Known, NEW o \in Handlers, PipeStep(o), UNCHANGED hostVars
    PROVE  PlaceTypes' /\ Known'
<1>1. UNCHANGED <<pc, tok, obj, claim, target, fresh, used, requested>>
  BY DEF PipeStep, PipeStops, CopierCloses, PipeDrop, PipeForget, PipeRow, PipeCloses, PipeEnd,
         handlers, hostVars
<1>2. entry' \in [Tokens -> Handlers \cup {NoOne}]
  <2>1. entry' = entry \/ entry' = [entry EXCEPT ![tok[o]] = NoOne]
    BY DEF PipeStep, PipeStops, CopierCloses, PipeDrop, PipeForget, PipeRow, PipeCloses, PipeEnd
  <2> QED BY <2>1 DEF PlaceTypes
<1>3. row' = row \/ row' = NoRow
  BY DEF PipeStep, PipeStops, CopierCloses, PipeDrop, PipeForget, PipeRow, PipeCloses, PipeEnd, EndRow
<1>4. /\ row' \in [tok : Tokens \cup {NoOne}, user : Users \cup {NoOne}, old : BOOLEAN]
      /\ row' = NoRow \/ row'.tok \in Tokens
  BY <1>3, RowTypes
<1> QED BY <1>1, <1>2, <1>4 DEF PlaceTypes, Known

LEMMA CallPlaces ==
    ASSUME TInv, PlaceTypes, Known, NEW c \in Calls,
           (\E u \in Users, t \in Tokens : Create(c, u, t)) \/ Find(c) \/ CallStep(c)
    PROVE  PlaceTypes' /\ Known'
<1>0. c \in Actors /\ AfterEnd(c) \in {"done", "requesting"} /\ AfterEnd(c) \in Labels
      /\ (AfterEnd(c) = "requesting" => fresh[c] \in Tokens)
  BY DEF Actors, AfterEnd, Labels, PlaceTypes
<1>1. ASSUME NEW u \in Users, NEW t \in Tokens, Create(c, u, t)
      PROVE  PlaceTypes' /\ Known'
  <2> DEFINE l == IF row.tok = NoOne THEN "requesting" ELSE "replacing"
  <2>1. /\ row' = [tok |-> t, user |-> u, old |-> FALSE]
        /\ target' = [target EXCEPT ![c] = row.tok] /\ fresh' = [fresh EXCEPT ![c] = t]
        /\ used' = used \cup {t} /\ Goto(c, l)
        /\ UNCHANGED <<tok, obj, entry, claim, requested>>
    BY <1>1 DEF Create, relayRest, handlers
  <2>2. l \in Labels /\ l \in {"requesting", "replacing"} /\ (l = "replacing" => row.tok \in Tokens)
    BY DEF Labels, PlaceTypes
  <2> HIDE DEF l
  <2>3. /\ row' \in [tok : Tokens \cup {NoOne}, user : Users \cup {NoOne}, old : BOOLEAN]
        /\ row'.tok \in Tokens
    BY <2>1
  <2>4. /\ target' \in [Calls -> Tokens \cup {NoOne}] /\ fresh' \in [Calls -> Tokens \cup {NoOne}]
        /\ target'[c] = row.tok /\ fresh'[c] = t
        /\ \A b \in Calls \ {c} : target'[b] = target[b] /\ fresh'[b] = fresh[b] /\ obj'[b] = obj[b]
    BY <2>1 DEF PlaceTypes
  <2>5. Known'
    BY <2>1, <2>2, <2>4, CallKnown
  <2>6. pc' \in [Actors -> Labels]
    BY <1>0, <2>1, <2>2, OneGoes
  <2> QED BY <2>1, <2>3, <2>4, <2>5, <2>6 DEF PlaceTypes
<1>2. CASE Find(c)
  <2>1. /\ row # NoRow /\ target' = [target EXCEPT ![c] = row.tok] /\ Goto(c, "found")
        /\ UNCHANGED <<tok, obj, entry, claim, row, fresh, used, requested>>
    BY <1>2 DEF Find, relayRest, handlers
  <2>2. row.tok \in Tokens /\ "found" \in Labels
    BY <2>1 DEF PlaceTypes, Labels
  <2>3. /\ target' \in [Calls -> Tokens \cup {NoOne}] /\ target'[c] = row.tok
        /\ \A b \in Calls \ {c} : target'[b] = target[b] /\ fresh'[b] = fresh[b] /\ obj'[b] = obj[b]
    BY <2>1 DEF PlaceTypes
  <2>4. Known' /\ pc' \in [Actors -> Labels]
    BY <1>0, <2>1, <2>2, <2>3, CallKnown, OneGoes
  <2> QED BY <2>1, <2>3, <2>4 DEF PlaceTypes
<1>3. CASE Request(c)
  <2>1. /\ pc[c] = "requesting" /\ requested' = requested \cup {fresh[c]} /\ Goto(c, "done")
        /\ UNCHANGED <<tok, obj, entry, claim, row, target, fresh, used>>
    BY <1>3 DEF Request, relayRest, handlers
  <2>2. fresh[c] \in Tokens /\ "done" \in Labels
    BY <2>1 DEF Known, Labels
  <2>3. Known' /\ pc' \in [Actors -> Labels]
    BY <1>0, <2>1, <2>2, CallKnown, OneGoes
  <2> QED BY <2>1, <2>2, <2>3 DEF PlaceTypes
<1>4. CASE RequestFails(c) \/ DeleteRow(c)
  <2>1. /\ row' = row \/ row' = NoRow
        /\ UNCHANGED <<tok, obj, entry, claim, target, fresh, used, requested>>
    BY <1>4 DEF RequestFails, DeleteRow, relayRest, handlers, hostVars
  <2>2. \/ Goto(c, "done")
        \/ pc[c] = "found" /\ Goto(c, "deleted")
    BY <1>4 DEF RequestFails, DeleteRow
  <2>3. /\ row' \in [tok : Tokens \cup {NoOne}, user : Users \cup {NoOne}, old : BOOLEAN]
        /\ row' = NoRow \/ row'.tok \in Tokens
    BY <2>1, RowTypes
  <2>4. PICK l \in Labels : Goto(c, l) /\ (l = "done" \/ (l = "deleted" /\ pc[c] = "found"))
    BY <2>2 DEF Labels
  <2>5. l = "deleted" => target[c] \in Tokens
    BY <2>4 DEF Known
  <2>6. Known' /\ pc' \in [Actors -> Labels]
    BY <1>0, <2>1, <2>4, <2>5, CallKnown, OneGoes
  <2> QED BY <2>1, <2>3, <2>6 DEF PlaceTypes
<1>5. CASE End(c)
  <2> DEFINE o == entry[target[c]]
  <2>1. /\ pc[c] \in {"deleted", "replacing"} /\ UNCHANGED <<tok, entry, claim, row>>
        /\ UNCHANGED <<target, fresh, used, requested>>
    BY <1>5 DEF End, EndMark, handlers, hostVars
  <2>2. o \in Handlers \cup {NoOne}
    BY <2>1 DEF Known, PlaceTypes
  <2>3. \/ Goto(c, AfterEnd(c)) /\ obj' = obj
        \/ /\ o # NoOne /\ obj' = [obj EXCEPT ![c] = o]
           /\ Goto(c, IF Piping(o) THEN AfterEnd(c) ELSE "releasing")
    BY <1>5, Zenon DEF End, EndMark
  <2> HIDE DEF o
  <2>4. /\ obj' \in [Actors -> Handlers \cup {NoOne}]
        /\ \A b \in Calls \ {c} : obj'[b] = obj[b]
    BY <1>0, <2>2, <2>3 DEF PlaceTypes, Actors
  <2>5. PICK l \in Labels : /\ Goto(c, l) /\ l \in {AfterEnd(c), "releasing"}
                            /\ (l = "releasing" => obj'[c] \in Handlers)
    <3>1. "releasing" \in Labels
      BY DEF Labels
    <3>2. CASE Goto(c, AfterEnd(c))
      BY <1>0, <3>2
    <3>3. CASE o # NoOne /\ obj' = [obj EXCEPT ![c] = o] /\ Goto(c, "releasing")
      <4>1. obj'[c] \in Handlers
        BY <1>0, <2>2, <3>3 DEF PlaceTypes
      <4> QED BY <3>1, <3>3, <4>1
    <3> QED BY <2>3, <3>2, <3>3
  <2>6. Known' /\ pc' \in [Actors -> Labels]
    BY <1>0, <2>1, <2>4, <2>5, CallKnown, OneGoes
  <2> QED BY <2>1, <2>4, <2>6 DEF PlaceTypes
<1>6. CASE EndRelease(c, target[c], AfterEnd(c)) /\ UNCHANGED hostVars
  <2>1. /\ pc[c] = "releasing" /\ Claim(c, obj[c], target[c], AfterEnd(c))
        /\ UNCHANGED <<tok, obj, entry, row, target, fresh, used, requested>>
    BY <1>6 DEF EndRelease, handlers, hostVars
  <2>2. obj[c] \in Handlers
    BY <2>1 DEF Known
  <2>3. /\ claim' \in [Actors -> [tok : Tokens \cup {NoOne}, started : BOOLEAN, conns : SUBSET Handlers]]
        /\ \E l \in {AfterEnd(c), "dropping"} : l \in Labels /\ Goto(c, l)
    <3>1. target[c] \in Tokens \cup {NoOne}
      BY DEF PlaceTypes
    <3> QED BY <1>0, <2>1, <2>2, <3>1, ClaimTypes
  <2>4. PICK l \in Labels : Goto(c, l) /\ l \in {AfterEnd(c), "dropping"}
    BY <2>3
  <2>5. Known' /\ pc' \in [Actors -> Labels]
    BY <1>0, <2>1, <2>4, CallKnown, OneGoes
  <2> QED BY <2>1, <2>3, <2>5 DEF PlaceTypes
<1>7. CASE /\ ReleaseDrop(c) \/ ReleaseForget(c) \/ ReleaseRow(c) \/ ReleaseEnd(c, AfterEnd(c))
           /\ UNCHANGED hostVars
  <2>1. UNCHANGED <<target, fresh, used, requested>>
    BY <1>7 DEF hostVars
  <2>2. /\ PlaceTypes' /\ UNCHANGED <<tok, obj>>
        /\ \E l \in {"forgetting", "ending_row", "closing_sides", AfterEnd(c)} : l \in Labels /\ Goto(c, l)
    BY <1>0, <1>7, <2>1, ReleaseTypes
  <2>3. PICK l \in Labels : Goto(c, l) /\ l \in {"forgetting", "ending_row", "closing_sides", AfterEnd(c)}
    BY <2>2
  <2>4. Known'
    BY <1>0, <2>1, <2>2, <2>3, CallKnown
  <2> QED BY <2>2, <2>4
<1> QED BY <1>1, <1>2, <1>3, <1>4, <1>5, <1>6, <1>7 DEF CallStep, CallReleases

LEMMA NextPlaces ==
    ASSUME TInv, PlaceTypes, Known, [Next]_vars
    PROVE  PlaceTypes' /\ Known'
<1>1. ASSUME NEW h \in Handlers, UNCHANGED hostVars, NEW sd \in Sides, NEW t \in requested, Validate(h, t, sd)
      PROVE  PlaceTypes' /\ Known'
  <2>1. /\ tok' = [tok EXCEPT ![h] = t] /\ Goto(h, "validated")
        /\ UNCHANGED <<obj, entry, claim, row, target, fresh, used, requested>>
    BY <1>1 DEF Validate, hostVars
  <2>2. h \in Actors /\ (\A c \in Calls : c # h /\ c \in Actors) /\ "validated" \in Labels /\ t \in Tokens
    BY RelayAssumption DEF Actors, Labels, PlaceTypes
  <2>3. /\ pc' \in [Actors -> Labels] /\ \A b \in Actors \ {h} : pc'[b] = pc[b]
    BY <2>1, <2>2, OneGoes
  <2>4. tok' \in [Handlers -> Tokens \cup {NoOne}] /\ tok'[h] = t /\ \A g \in Handlers \ {h} : tok'[g] = tok[g]
    BY <2>1, <2>2 DEF PlaceTypes
  <2>5. Known'
    BY <2>1, <2>2, <2>3, <2>4 DEF Known, Actors
  <2> QED BY <2>1, <2>3, <2>4, <2>5 DEF PlaceTypes
<1>2. ASSUME NEW h \in Handlers, UNCHANGED hostVars, PeerTimeout(h) \/ PingFails(h) \/ Hangup(h)
      PROVE  PlaceTypes' /\ Known'
  <2>1. UNCHANGED <<tok, obj, entry, claim, row, target, fresh, used, requested>>
    BY <1>2 DEF PeerTimeout, PingFails, Hangup, StepTo, handlers, hostVars
  <2>2. CASE UNCHANGED pc
    BY <2>1, <2>2 DEF PlaceTypes, Known
  <2>3. CASE pc[h] # "idle" /\ Goto(h, "leaving")
    <3>1. "leaving" \in Labels /\ h \in Actors
      BY DEF Labels, Actors
    <3>2. Known' /\ pc' \in [Actors -> Labels]
      BY <2>1, <2>3, <3>1, HandlerKnown, OneGoes
    <3> QED BY <2>1, <3>2 DEF PlaceTypes
  <2> QED BY <1>2, <2>2, <2>3 DEF PeerTimeout, PingFails, Hangup, StepTo
<1>3. CASE RelayNext
  BY <1>1, <1>2, <1>3, HandlerPlaces, PipePlaces DEF RelayNext
<1>4. CASE \E c \in Calls : \/ \E u \in Users, t \in Tokens : Create(c, u, t)
                            \/ Find(c) \/ CallStep(c)
  BY <1>4, CallPlaces
<1>5. CASE SweepRead \/ SweepDelete \/ Age \/ Shutdown \/ UNCHANGED vars
  <2>1. UNCHANGED <<pc, tok, obj, entry, claim, target, fresh, used, requested>>
    BY <1>5 DEF SweepRead, SweepDelete, Age, Shutdown, relayVars, relayRest, handlers, hostVars, vars
  <2>2. /\ row' \in [tok : Tokens \cup {NoOne}, user : Users \cup {NoOne}, old : BOOLEAN]
        /\ row' = NoRow \/ row'.tok \in Tokens
    <3>1. row' = row \/ row' = NoRow \/ (row # NoRow /\ row' = [row EXCEPT !.old = TRUE])
      BY <1>5 DEF SweepRead, SweepDelete, Age, Shutdown, relayVars, vars
    <3> QED BY <3>1, RowTypes
  <2> QED BY <2>1, <2>2 DEF PlaceTypes, Known
<1>6. CASE Crash
  <2>1. /\ pc' = [a \in Actors |-> IF pc[a] = "idle" THEN "idle" ELSE "done"]
        /\ entry' = [t \in Tokens |-> NoOne] /\ claim' = [a \in Actors |-> NoClaim]
        /\ UNCHANGED <<tok, obj, row, target, fresh, used, requested>>
    BY <1>6 DEF Crash, handlers
  <2>2. NoClaim \in [tok : Tokens \cup {NoOne}, started : BOOLEAN, conns : SUBSET Handlers]
    BY DEF NoClaim
  <2>3. pc' \in [Actors -> Labels]
    BY <2>1 DEF Labels
  <2>4. Known'
    BY <2>1 DEF Known, Actors
  <2> QED BY <2>1, <2>2, <2>3, <2>4 DEF PlaceTypes
<1> QED BY <1>3, <1>4, <1>5, <1>6 DEF Next

-----------------------------------------------------------------------------
(* The count *)

\* What a release under way relies on is left as it was.
SameReleases ==
    \A a \in Actors :
        /\ pc'[a] = "dropping" <=> pc[a] = "dropping"
        /\ pc[a] = "dropping" => obj'[a] = obj[a] /\ claim'[a] = claim[a]

\* A step that starts a pipe, moves one on or marks a session books nothing in or out.
LEMMA NothingBooked ==
    ASSUME HostInv, SameReleases, count' = count,
           \A o \in Handlers :
             /\ sess'[o].started = sess[o].started /\ sess'[o].released = sess[o].released
             /\ sess'[o].agent = sess[o].agent /\ sess'[o].browser = sess[o].browser
             /\ pipe'[o] \in {"none", "copying", "dropping"} => pipe[o] \in {"none", "copying", "dropping"}
             /\ pipe'[o] # "none" => Piping(o) \/ sess[o].agent # NoOne
    PROVE  Claims' /\ Sided' /\ Covered'
<1>0. Claims /\ Sided /\ Covered /\ count \in Int
  BY DEF HostInv, PlaceTypes, Covered
<1>1. Claims'
  BY <1>0 DEF Claims, SameReleases
<1>2. Sided'
  BY <1>0 DEF Sided, Piping
<1>3. OwedSet' \subseteq OwedSet
  <2>1. \A o \in Handlers : Returning(o)' => Returning(o)
    BY DEF Returning, SameReleases
  <2>2. \A o \in Handlers : Owed(o)' => Owed(o)
    BY <2>1 DEF Owed
  <2> QED BY <2>2 DEF OwedSet
<1>4. Covered'
  <2>1. OwedSet \in SUBSET Handlers /\ OwedSet' \in SUBSET Handlers
    BY DEF OwedSet
  <2> QED BY <1>0, <1>3, <2>1, CountFollows DEF Covered
<1> QED BY <1>1, <1>2, <1>4

\* A step of one actor that is not giving a count back leaves the releases alone.
LEMMA OthersRelease ==
    ASSUME PlaceTypes, NEW a \in Actors, pc[a] # "dropping",
           NEW l \in Labels, l # "dropping", Goto(a, l),
           \A b \in Actors \ {a} : obj'[b] = obj[b] /\ claim'[b] = claim[b]
    PROVE  SameReleases
  BY OneGoes DEF SameReleases

\* The session a side joins is counted once (Relay.Register, markStarted).
LEMMA SetSideBooks ==
    ASSUME HostInv, NEW h \in Handlers, SetSide(h)
    PROVE  Claims' /\ Sided' /\ Covered'
<1> DEFINE o == obj[h]
<1>0. /\ TInv /\ PlaceTypes /\ Claims /\ Sided /\ Covered /\ count \in Int /\ h \in Actors
      /\ sess \in [Handlers -> Session] /\ side[h] \in {"agent", "browser"}
  BY DEF HostInv, PlaceTypes, Covered, Actors, TInv, SessionTypes, Sides
<1>1. /\ pc[h] # "dropping" /\ UNCHANGED <<obj, pipe, claim>>
      /\ \E l \in {"done", "joining", "saving"} : Goto(h, l)
  <2>1. \E l \in {"done", "joining", "saving"} : Goto(h, l)
    BY Zenon DEF SetSide
  <2> QED BY <2>1 DEF SetSide
<1>2. SameReleases
  <2>1. PICK l \in Labels : Goto(h, l) /\ l # "dropping"
    BY <1>1 DEF Labels
  <2> QED BY <1>0, <1>1, <2>1, OthersRelease
<1>3. \/ UNCHANGED <<sess, count>>
      \/ /\ sess' = [sess EXCEPT ![o] = [sess[o] EXCEPT ![side[h]] = h, !.started = TRUE]]
         /\ count' = IF sess[o].started THEN count ELSE count + 1
  BY Zenon DEF SetSide
<1>4. CASE UNCHANGED <<sess, count>>
  BY <1>1, <1>2, <1>4, NothingBooked DEF Piping
<1>5. CASE /\ sess' = [sess EXCEPT ![o] = [sess[o] EXCEPT ![side[h]] = h, !.started = TRUE]]
           /\ count' = IF sess[o].started THEN count ELSE count + 1
  <2>1. CASE o \notin Handlers
    <3>1. sess' = sess /\ count' >= count /\ count' \in Int
      <4>1. sess' = sess
        BY <1>0, <1>5, <2>1
      <4>2. count' = count \/ count' = count + 1
        BY <1>5
      <4> QED BY <1>0, <4>1, <4>2
    <3>2. Claims' /\ Sided'
      BY <1>0, <1>1, <1>2, <3>1 DEF Claims, Sided, SameReleases, Piping
    <3>3. OwedSet' \subseteq OwedSet
      BY <1>1, <1>2, <3>1 DEF OwedSet, Owed, Returning, SameReleases
    <3>4. OwedSet \in SUBSET Handlers /\ OwedSet' \in SUBSET Handlers
      BY DEF OwedSet
    <3>5. count >= Cardinality(OwedSet')
      BY <1>0, <3>3, <3>4, CountFollows DEF Covered
    <3>6. Cardinality(OwedSet') \in Int
      BY <3>4, RelayAssumption, FS_Subset, FS_CardinalityType
    <3>7. Covered'
      BY <1>0, <3>1, <3>5, <3>6 DEF Covered
    <3> QED BY <3>2, <3>7
  <2>2. CASE o \in Handlers
    <3>1. /\ sess'[o].started /\ sess'[o].released = sess[o].released
          /\ \A x \in Handlers \ {o} : sess'[x] = sess[x]
      <4>1. sess[o] \in Session
        BY <1>0, <2>2
      <4>2. CASE side[h] = "agent"
        BY <1>0, <1>5, <2>2, <4>1, <4>2 DEF Session
      <4>3. CASE side[h] = "browser"
        BY <1>0, <1>5, <2>2, <4>1, <4>3 DEF Session
      <4> QED BY <1>0, <4>2, <4>3
    <3> HIDE DEF o
    <3>2. Claims'
      BY <1>0, <1>2, <3>1 DEF Claims, SameReleases
    <3>3. Sided'
      BY <1>0, <1>1, <3>1 DEF Sided, Piping
    <3>4. \A x \in Handlers : Returning(x)' => Returning(x)
      BY <1>2 DEF Returning, SameReleases
    <3>5. \A x \in Handlers : Owed(x)' => Owed(x) \/ (x = o /\ ~sess[o].started)
      BY <1>1, <3>1, <3>4 DEF Owed
    <3>6. OwedSet' \subseteq OwedSet \cup {o} /\ (sess[o].started => OwedSet' \subseteq OwedSet)
      BY <3>5 DEF OwedSet
    <3>7. OwedSet \in SUBSET Handlers /\ OwedSet' \in SUBSET Handlers
      BY DEF OwedSet
    <3>8. count + 1 >= Cardinality(OwedSet') /\ (sess[o].started => count >= Cardinality(OwedSet'))
      BY <1>0, <2>2, <3>6, <3>7, CountFollows DEF Covered
    <3>9. Covered'
      <4>1. CASE sess[o].started
        <5>1. count' = count
          BY <1>5, <4>1 DEF o
        <5> QED BY <1>0, <3>8, <4>1, <5>1 DEF Covered
      <4>2. CASE ~sess[o].started
        <5>1. count' = count + 1
          BY <1>5, <4>2 DEF o
        <5> QED BY <1>0, <3>8, <5>1 DEF Covered
      <4> QED BY <4>1, <4>2
    <3> QED BY <3>2, <3>3, <3>9
  <2> QED BY <2>1, <2>2
<1> QED BY <1>3, <1>4, <1>5

\* A claim takes over what is owed (Relay.release, under the lock).
LEMMA ClaimBooks ==
    ASSUME HostInv, NEW a \in Actors, pc[a] # "dropping", NEW o \in Handlers, NEW t,
           NEW otherwise \in Labels, otherwise # "dropping", Claim(a, o, t, otherwise),
           UNCHANGED <<pipe, count>>,
           obj' = [obj EXCEPT ![a] = o]
    PROVE  Claims' /\ Sided' /\ Covered'
<1>0. /\ TInv /\ PlaceTypes /\ Claims /\ Sided /\ Covered /\ count \in Int
      /\ sess \in [Handlers -> Session]
      /\ obj'[a] = o /\ \A b \in Actors \ {a} : obj'[b] = obj[b]
  BY DEF HostInv, PlaceTypes, Covered, TInv, SessionTypes
<1>1. CASE UNCHANGED <<sess, claim>> /\ Goto(a, otherwise)
  <2>1. SameReleases
    BY <1>0, <1>1, OthersRelease
  <2> QED BY <1>1, <2>1, NothingBooked DEF Piping
<1>2. CASE /\ ~Piping(o) /\ ~sess[o].released /\ Set(o, "released") /\ Goto(a, "dropping")
           /\ claim' = [claim EXCEPT ![a] = [tok |-> t, started |-> sess[o].started, conns |-> SidesOf(o)]]
  <2>1. /\ sess'[o].released /\ \A x \in Handlers \ {o} : sess'[x] = sess[x]
        /\ sess'[o].started = sess[o].started /\ sess'[o].agent = sess[o].agent
        /\ sess'[o].browser = sess[o].browser
    <3>1. sess' = [sess EXCEPT ![o] = [sess[o] EXCEPT !["released"] = TRUE]] /\ sess[o] \in Session
      BY <1>0, <1>2 DEF Set
    <3> QED BY <1>0, <3>1 DEF Session
  <2>2. /\ pc'[a] = "dropping" /\ \A b \in Actors \ {a} : pc'[b] = pc[b]
    BY <1>0, <1>2, OneGoes DEF Labels
  <2>3. claim'[a].started = sess[o].started /\ \A b \in Actors \ {a} : claim'[b] = claim[b]
    BY <1>0, <1>2 DEF PlaceTypes
  <2>4. \A b \in Actors \ {a} : pc[b] = "dropping" => obj[b] # o
    BY <1>0, <1>2 DEF Claims
  <2>5. Claims'
    <3>1. \A b \in Actors : pc'[b] = "dropping" =>
             /\ obj'[b] \in Handlers /\ sess'[obj'[b]].released
             /\ claim'[b].started => sess'[obj'[b]].started
      BY <1>0, <2>1, <2>2, <2>3, <2>4 DEF Claims
    <3>2. \A b, c \in Actors : pc'[b] = "dropping" /\ pc'[c] = "dropping" /\ obj'[b] = obj'[c] => b = c
      BY <1>0, <2>2, <2>4 DEF Claims
    <3> QED BY <3>1, <3>2 DEF Claims
  <2>6. Sided'
    BY <1>0, <2>1 DEF Sided, Piping
  <2>7. \A x \in Handlers \ {o} : Returning(x)' => Returning(x)
    BY <1>0, <2>2, <2>3 DEF Returning
  <2>8. \A x \in Handlers : Owed(x)' => Owed(x)
    BY <1>2, <2>1, <2>7 DEF Owed
  <2>9. /\ OwedSet' \subseteq OwedSet
        /\ OwedSet \in SUBSET Handlers /\ OwedSet' \in SUBSET Handlers
    BY <2>8 DEF OwedSet
  <2>10. Covered'
    BY <1>0, <2>9, CountFollows DEF Covered
  <2> QED BY <2>5, <2>6, <2>10
<1> QED BY <1>1, <1>2 DEF Claim

\* A release gives back the count its claim captured, once (Relay.release).
LEMMA DropBooks ==
    ASSUME HostInv, NEW a \in Actors, ReleaseDrop(a)
    PROVE  Claims' /\ Sided' /\ Covered'
<1>0. /\ TInv /\ PlaceTypes /\ Claims /\ Sided /\ Covered /\ count \in Int
  BY DEF HostInv, PlaceTypes, Covered, TInv, SessionTypes
<1>1. /\ pc[a] = "dropping" /\ Goto(a, "forgetting") /\ UNCHANGED <<obj, claim, sess, pipe>>
      /\ count' = IF claim[a].started THEN count - 1 ELSE count
  BY DEF ReleaseDrop
<1>2. /\ pc'[a] = "forgetting" /\ \A b \in Actors \ {a} : pc'[b] = pc[b]
  BY <1>0, <1>1, OneGoes DEF Labels
<1>3. PICK o \in Handlers : o = obj[a] /\ sess[o].released /\ (claim[a].started => sess[o].started)
  BY <1>0, <1>1 DEF Claims
<1>4. pipe[o] = "none"
  BY <1>0, <1>3 DEF TInv, OneTeardown, Piping
<1>5. \A b \in Actors \ {a} : pc[b] = "dropping" => obj[b] # o
  BY <1>0, <1>1, <1>3 DEF Claims
<1>6. Claims'
  BY <1>0, <1>1, <1>2 DEF Claims
<1>7. Sided'
  BY <1>0, <1>1 DEF Sided, Piping
<1>8. /\ \A x \in Handlers : Returning(x)' => Returning(x)
      /\ ~Returning(o)'
  BY <1>1, <1>2, <1>3, <1>5 DEF Returning
<1>9. /\ \A x \in Handlers : Owed(x)' => Owed(x) /\ x # o
      /\ claim[a].started => Owed(o)
  <2>1. claim[a].started => Returning(o)
    BY <1>1, <1>3 DEF Returning
  <2> QED BY <1>1, <1>3, <1>4, <1>8, <2>1 DEF Owed
<1>10. /\ OwedSet' \subseteq OwedSet \ {o} /\ (claim[a].started => o \in OwedSet)
       /\ OwedSet \in SUBSET Handlers /\ OwedSet' \in SUBSET Handlers
  BY <1>3, <1>9 DEF OwedSet
<1>11. count >= Cardinality(OwedSet') /\ (claim[a].started => count - 1 >= Cardinality(OwedSet'))
  BY <1>0, <1>10, CountFollows DEF Covered
<1>12. Covered'
  BY <1>0, <1>1, <1>11 DEF Covered
<1> QED BY <1>6, <1>7, <1>12

\* A pipe gives back its session's count (Relay.pipe).
LEMMA PipeBooks ==
    ASSUME HostInv, NEW o \in Handlers, PipeDrop(o)
    PROVE  Claims' /\ Sided' /\ Covered'
<1>0. /\ TInv /\ PlaceTypes /\ Claims /\ Sided /\ Covered /\ count \in Int
      /\ pipe \in [Handlers -> PipeStages]
  BY DEF HostInv, PlaceTypes, Covered, TInv, SessionTypes
<1>1. /\ pipe[o] = "dropping" /\ pipe' = [pipe EXCEPT ![o] = "forgetting"]
      /\ count' = count - 1 /\ UNCHANGED <<pc, obj, claim, sess>>
  BY DEF PipeDrop, PipeTo
<1>2. sess[o].started /\ ~sess[o].released
  BY <1>0, <1>1 DEF Sided, TInv, OneTeardown, Piping
<1>3. pipe'[o] = "forgetting" /\ \A x \in Handlers \ {o} : pipe'[x] = pipe[x]
  BY <1>0, <1>1
<1>4. Claims'
  BY <1>0, <1>1 DEF Claims
<1>5. Sided'
  BY <1>0, <1>1, <1>2, <1>3 DEF Sided, Piping
<1>6. \A x \in Handlers : Returning(x)' <=> Returning(x)
  BY <1>1 DEF Returning
<1>7. Owed(o) /\ \A x \in Handlers : Owed(x)' => Owed(x) /\ x # o
  BY <1>1, <1>2, <1>3, <1>6 DEF Owed
<1>8. /\ OwedSet' \subseteq OwedSet \ {o} /\ o \in OwedSet
      /\ OwedSet \in SUBSET Handlers /\ OwedSet' \in SUBSET Handlers
  BY <1>7 DEF OwedSet
<1>9. count - 1 >= Cardinality(OwedSet')
  BY <1>0, <1>8, CountFollows DEF Covered
<1>10. Covered'
  BY <1>0, <1>1, <1>9 DEF Covered
<1> QED BY <1>4, <1>5, <1>10


\* Every step of the system keeps the count right.
LEMMA NextBooks ==
    ASSUME HostInv, [Next]_vars
    PROVE  Claims' /\ Sided' /\ Covered'
<1>0. /\ TInv /\ PlaceTypes /\ Known /\ sess \in [Handlers -> Session] /\ pipe \in [Handlers -> PipeStages]
      /\ \A h \in Handlers : h \in Actors
      /\ \A c \in Calls : c \in Actors
  BY DEF HostInv, TInv, SessionTypes, Actors
<1>1. ASSUME NEW a \in Actors, pc[a] # "dropping", NEW l \in Labels, l # "dropping", Goto(a, l),
             \A b \in Actors \ {a} : obj'[b] = obj[b], UNCHANGED <<sess, pipe, claim, count>>
      PROVE  Claims' /\ Sided' /\ Covered'
  <2>1. SameReleases
    BY <1>0, <1>1, OthersRelease
  <2> QED BY <1>1, <2>1, NothingBooked DEF Piping
<1>2. ASSUME UNCHANGED <<pc, obj, claim, sess, count>>,
             \A o \in Handlers :
               /\ pipe'[o] \in {"none", "copying", "dropping"} => pipe[o] \in {"none", "copying", "dropping"}
               /\ pipe'[o] # "none" => Piping(o)
      PROVE  Claims' /\ Sided' /\ Covered'
  BY <1>2, NothingBooked DEF SameReleases
<1>3. ASSUME NEW h \in Handlers, \/ \E sd \in Sides, t \in requested : Validate(h, t, sd)
                                 \/ LoadOrStore(h) \/ SaveSession(h) \/ LookForPeer(h)
                                 \/ PeerArrived(h) \/ SessionDone(h) \/ LifetimeOver(h) \/ CloseNow(h)
                                 \/ PeerTimeout(h) \/ PingFails(h)
      PROVE  Claims' /\ Sided' /\ Covered'
  <2>1. pc[h] # "dropping" /\ UNCHANGED <<sess, pipe, claim, count>>
    BY <1>3 DEF Validate, LoadOrStore, SaveSession, LookForPeer, PeerArrived, SessionDone,
                LifetimeOver, CloseNow, PeerTimeout, PingFails, StepTo
  <2>2. obj' = obj \/ \E o : obj' = [obj EXCEPT ![h] = o]
    BY <1>3 DEF Validate, LoadOrStore, SaveSession, LookForPeer, PeerArrived, SessionDone,
                LifetimeOver, CloseNow, PeerTimeout, PingFails, StepTo
  <2>3. \E l \in {"validated", "loaded", "joining", "leaving", "waiting", "parked", "done"} : Goto(h, l)
    BY <1>3 DEF Validate, LoadOrStore, SaveSession, LookForPeer, PeerArrived, SessionDone,
                LifetimeOver, CloseNow, PeerTimeout, PingFails, StepTo
  <2>4. PICK l \in Labels : l # "dropping" /\ Goto(h, l)
    BY <2>3 DEF Labels
  <2>5. \A b \in Actors \ {h} : obj'[b] = obj[b]
    BY <1>0, <2>2 DEF PlaceTypes
  <2> QED BY <1>0, <1>1, <2>1, <2>4, <2>5
<1>4. ASSUME NEW h \in Handlers, StartPipe(h)
      PROVE  Claims' /\ Sided' /\ Covered'
  <2>1. /\ pc[h] # "dropping" /\ Goto(h, "registered") /\ UNCHANGED <<obj, claim, sess, count>>
        /\ pipe' = pipe \/ (CanPipe(obj[h]) /\ pipe' = [pipe EXCEPT ![obj[h]] = "copying"])
    BY <1>4 DEF StartPipe
  <2>2. SameReleases
    <3>1. "registered" \in Labels /\ "registered" # "dropping"
      BY DEF Labels
    <3> QED BY <1>0, <2>1, <3>1, OthersRelease
  <2>3. \A o \in Handlers :
          /\ pipe'[o] \in {"none", "copying", "dropping"} => pipe[o] \in {"none", "copying", "dropping"}
          /\ pipe'[o] # "none" => Piping(o) \/ sess[o].agent # NoOne
    BY <1>0, <2>1 DEF CanPipe, Piping
  <2> QED BY <2>1, <2>2, <2>3, NothingBooked
<1>5. ASSUME NEW h \in Handlers, Unregister(h)
      PROVE  Claims' /\ Sided' /\ Covered'
  <2> DEFINE o == entry[tok[h]]
  <2>1. pc[h] = "leaving" /\ UNCHANGED <<pipe, count>> /\ "closing" \in Labels /\ "closing" # "dropping"
    BY <1>5 DEF Unregister, Labels
  <2>2. \/ Goto(h, "closing") /\ UNCHANGED <<sess, claim, obj>>
        \/ o # NoOne /\ Claim(h, o, tok[h], "closing") /\ obj' = [obj EXCEPT ![h] = o]
    BY <1>5 DEF Unregister
  <2>3. o \in Handlers \cup {NoOne}
    BY <1>0, <2>1 DEF Known, PlaceTypes
  <2>4. CASE Goto(h, "closing") /\ UNCHANGED <<sess, claim, obj>>
    BY <1>0, <1>1, <2>1, <2>4
  <2>5. CASE o # NoOne /\ Claim(h, o, tok[h], "closing") /\ obj' = [obj EXCEPT ![h] = o]
    <3>1. PICK x \in Handlers : x = o
      BY <2>3, <2>5
    <3>2. Claim(h, x, tok[h], "closing") /\ obj' = [obj EXCEPT ![h] = x]
      BY <2>5, <3>1
    <3> HIDE DEF o
    <3> QED BY <1>0, <2>1, <3>2, ClaimBooks
  <2> QED BY <2>2, <2>4, <2>5
<1>6. ASSUME NEW a \in Actors, NEW after \in Labels, after # "dropping",
             ReleaseForget(a) \/ ReleaseRow(a) \/ ReleaseEnd(a, after)
      PROVE  Claims' /\ Sided' /\ Covered'
  <2>1. pc[a] # "dropping" /\ UNCHANGED <<obj, pipe, count>>
    BY <1>6 DEF ReleaseForget, ReleaseRow, ReleaseEnd
  <2>2. \E l \in {"ending_row", "closing_sides", after} : Goto(a, l)
    BY <1>6 DEF ReleaseForget, ReleaseRow, ReleaseEnd
  <2>3. PICK l \in Labels : l # "dropping" /\ Goto(a, l)
    BY <1>6, <2>2 DEF Labels
  <2>4. claim' = claim \/ claim' = [claim EXCEPT ![a] = NoClaim]
    BY <1>6 DEF ReleaseForget, ReleaseRow, ReleaseEnd
  <2>5. SameReleases
    <3>1. \A b \in Actors \ {a} : obj'[b] = obj[b] /\ claim'[b] = claim[b]
      BY <1>0, <2>1, <2>4 DEF PlaceTypes
    <3> QED BY <1>0, <2>1, <2>3, <3>1, OthersRelease
  <2>6. sess' = sess \/ sess' = [sess EXCEPT ![obj[a]] = [sess[obj[a]] EXCEPT !["done"] = TRUE]]
    BY <1>6 DEF ReleaseForget, ReleaseRow, ReleaseEnd, Set
  <2>7. \A o \in Handlers :
          /\ sess'[o].started = sess[o].started /\ sess'[o].released = sess[o].released
          /\ sess'[o].agent = sess[o].agent /\ sess'[o].browser = sess[o].browser
    BY <1>0, <2>6 DEF Session
  <2> QED BY <2>1, <2>5, <2>7, NothingBooked DEF Piping
<1>7. ASSUME NEW h \in Handlers, HandlerStep(h)
      PROVE  Claims' /\ Sided' /\ Covered'
  <2>1. h \in Actors /\ "closing" \in Labels /\ "closing" # "dropping"
    BY DEF Actors, Labels
  <2>2. CASE SetSide(h)
    BY <2>2, SetSideBooks
  <2>3. CASE ReleaseDrop(h)
    BY <2>1, <2>3, DropBooks
  <2>4. CASE ReleaseForget(h) \/ ReleaseRow(h) \/ ReleaseEnd(h, "closing")
    BY <1>6, <2>1, <2>4
  <2> QED BY <1>3, <1>4, <1>5, <1>7, <2>2, <2>3, <2>4 DEF HandlerStep
<1>8. ASSUME NEW o \in Handlers, PipeStep(o)
      PROVE  Claims' /\ Sided' /\ Covered'
  <2>1. CASE PipeDrop(o)
    BY <2>1, PipeBooks
  <2>2. CASE PipeStops(o) \/ CopierCloses(o) \/ PipeForget(o) \/ PipeRow(o) \/ PipeCloses(o)
    <3>1. UNCHANGED <<pc, obj, claim, sess, count>>
      BY <2>2 DEF PipeStops, CopierCloses, PipeForget, PipeRow, PipeCloses
    <3>2. \/ pipe' = pipe
          \/ pipe[o] = "copying" /\ pipe' = [pipe EXCEPT ![o] = "dropping"]
          \/ /\ pipe[o] # "none"
             /\ \E p \in {"ending_row", "closing_sides", "draining"} : pipe' = [pipe EXCEPT ![o] = p]
      BY <2>2 DEF PipeStops, CopierCloses, PipeForget, PipeRow, PipeCloses, PipeTo
    <3>3. \A x \in Handlers :
            /\ pipe'[x] \in {"none", "copying", "dropping"} => pipe[x] \in {"none", "copying", "dropping"}
            /\ pipe'[x] # "none" => Piping(x)
      BY <1>0, <3>2 DEF Piping
    <3> QED BY <1>2, <3>1, <3>3
  <2>3. CASE PipeEnd(o)
    <3>1. /\ pipe[o] = "draining" /\ pipe' = [pipe EXCEPT ![o] = "over"]
          /\ sess' = [sess EXCEPT ![o] = [sess[o] EXCEPT !["done"] = TRUE]]
          /\ UNCHANGED <<pc, obj, claim, count>>
      BY <2>3 DEF PipeEnd, PipeTo, Set
    <3>2. \A x \in Handlers :
          /\ sess'[x].started = sess[x].started /\ sess'[x].released = sess[x].released
          /\ sess'[x].agent = sess[x].agent /\ sess'[x].browser = sess[x].browser
      BY <1>0, <3>1 DEF Session
    <3>3. \A x \in Handlers :
            /\ pipe'[x] \in {"none", "copying", "dropping"} => pipe[x] \in {"none", "copying", "dropping"}
            /\ pipe'[x] # "none" => Piping(x)
      BY <1>0, <3>1 DEF Piping
    <3>4. SameReleases
      BY <3>1 DEF SameReleases
    <3> QED BY <3>1, <3>2, <3>3, <3>4, NothingBooked
  <2> QED BY <1>8, <2>1, <2>2, <2>3 DEF PipeStep
<1>9. ASSUME NEW c \in Calls, \/ \E u \in Users, t \in Tokens : Create(c, u, t)
                              \/ Find(c) \/ Request(c) \/ RequestFails(c) \/ DeleteRow(c)
      PROVE  Claims' /\ Sided' /\ Covered'
  <2>1. pc[c] # "dropping" /\ UNCHANGED <<sess, pipe, claim, count, obj>>
    BY <1>9 DEF Create, Find, Request, RequestFails, DeleteRow, relayRest
  <2>2. \E l \in {"requesting", "replacing", "found", "done", "deleted"} : Goto(c, l)
    BY <1>9 DEF Create, Find, Request, RequestFails, DeleteRow
  <2>3. PICK l \in Labels : l # "dropping" /\ Goto(c, l)
    BY <2>2 DEF Labels
  <2> QED BY <1>0, <1>1, <2>1, <2>3
<1>10. ASSUME NEW c \in Calls, End(c)
       PROVE  Claims' /\ Sided' /\ Covered'
  <2> DEFINE o == entry[target[c]]
  <2>1. pc[c] # "dropping" /\ UNCHANGED <<pipe, claim, count>>
    BY <1>10 DEF End, EndMark
  <2>2. \/ sess' = sess /\ obj' = obj
        \/ /\ sess' = [sess EXCEPT ![o] = [sess[o] EXCEPT !.ended = TRUE, !.cancelled = Piping(o)]]
           /\ obj' = [obj EXCEPT ![c] = o]
    BY <1>10, Zenon DEF End, EndMark
  <2>3. \E l \in {AfterEnd(c), "releasing"} : Goto(c, l)
    BY <1>10, Zenon DEF End, EndMark
  <2>4. PICK l \in Labels : l # "dropping" /\ Goto(c, l)
    BY <2>3 DEF AfterEnd, Labels
  <2>5. SameReleases
    <3>1. \A b \in Actors \ {c} : obj'[b] = obj[b] /\ claim'[b] = claim[b]
      BY <1>0, <2>1, <2>2 DEF PlaceTypes
    <3> QED BY <1>0, <2>1, <2>4, <3>1, OthersRelease
  <2>6. \A x \in Handlers :
          /\ sess'[x].started = sess[x].started /\ sess'[x].released = sess[x].released
          /\ sess'[x].agent = sess[x].agent /\ sess'[x].browser = sess[x].browser
    <3> DEFINE r == [sess[o] EXCEPT !.ended = TRUE, !.cancelled = Piping(o)]
    <3>1. o \in Handlers => /\ r.started = sess[o].started /\ r.released = sess[o].released
                            /\ r.agent = sess[o].agent /\ r.browser = sess[o].browser
      <4>1. SUFFICES ASSUME o \in Handlers
                     PROVE  /\ r.started = sess[o].started /\ r.released = sess[o].released
                            /\ r.agent = sess[o].agent /\ r.browser = sess[o].browser
        OBVIOUS
      <4>2. sess[o] \in Session
        BY <1>0, <4>1
      <4> QED BY <4>2 DEF Session
    <3>2. sess' = sess \/ sess' = [sess EXCEPT ![o] = r]
      BY <2>2
    <3> HIDE DEF r, o
    <3> QED BY <1>0, <3>1, <3>2
  <2> QED BY <2>1, <2>5, <2>6, NothingBooked DEF Piping
<1>11. ASSUME NEW c \in Calls, EndRelease(c, target[c], AfterEnd(c))
       PROVE  Claims' /\ Sided' /\ Covered'
  <2>1. /\ pc[c] = "releasing" /\ Claim(c, obj[c], target[c], AfterEnd(c))
        /\ UNCHANGED <<obj, pipe, count>>
    BY <1>11 DEF EndRelease
  <2>2. AfterEnd(c) \in Labels /\ AfterEnd(c) # "dropping"
    BY DEF AfterEnd, Labels
  <2>3. PICK x \in Handlers : x = obj[c]
    BY <1>0, <2>1 DEF Known
  <2>4. obj' = [obj EXCEPT ![c] = x]
    BY <1>0, <2>1, <2>3 DEF PlaceTypes
  <2> QED BY <1>0, <2>1, <2>2, <2>3, <2>4, ClaimBooks
<1>12. ASSUME NEW c \in Calls, \/ \E u \in Users, t \in Tokens : Create(c, u, t)
                               \/ Find(c) \/ CallStep(c)
       PROVE  Claims' /\ Sided' /\ Covered'
  <2>1. AfterEnd(c) \in Labels /\ AfterEnd(c) # "dropping"
    BY DEF AfterEnd, Labels
  <2>2. CASE ReleaseDrop(c)
    BY <1>0, <2>2, DropBooks
  <2>3. CASE ReleaseForget(c) \/ ReleaseRow(c) \/ ReleaseEnd(c, AfterEnd(c))
    BY <1>0, <1>6, <2>1, <2>3
  <2> QED BY <1>9, <1>10, <1>11, <1>12, <2>2, <2>3 DEF CallStep, CallReleases
<1>13. CASE SweepRead \/ SweepDelete \/ Age \/ Shutdown \/ UNCHANGED vars
  <2>1. UNCHANGED <<pc, obj, claim, sess, pipe, count>>
    BY <1>13 DEF SweepRead, SweepDelete, Age, Shutdown, relayVars, relayRest, vars
  <2> QED BY <1>2, <2>1 DEF Piping
<1>14. CASE Crash
  <2>1. /\ pc' = [a \in Actors |-> IF pc[a] = "idle" THEN "idle" ELSE "done"] /\ count' = 0
        /\ sess' = [o \in Handlers |-> NewSession] /\ pipe' = [o \in Handlers |-> "none"]
    BY <1>14 DEF Crash
  <2>2. OwedSet' = {}
    BY <2>1 DEF OwedSet, Owed, NewSession
  <2>3. Covered'
    BY <2>1, <2>2, FS_EmptySet DEF Covered
  <2> QED BY <2>1, <2>3 DEF Claims, Sided, Piping, NewSession
<1>15. CASE RelayNext
  <2>1. ASSUME NEW h \in Handlers, Hangup(h)
        PROVE  Claims' /\ Sided' /\ Covered'
    <3>1. UNCHANGED <<pc, obj, claim, sess, pipe, count>>
      BY <2>1 DEF Hangup
    <3> QED BY <1>2, <3>1 DEF Piping
  <2> QED BY <1>3, <1>7, <1>8, <1>15, <2>1 DEF RelayNext
<1> QED BY <1>12, <1>13, <1>14, <1>15 DEF Next

-----------------------------------------------------------------------------
(***************************************************************************)
(* The relay's count is at least the number of its live sessions, with any *)
(* number of handlers and calls and across a crash: WaitForDrain reports a *)
(* drained relay only when no session is live (relay.go, Register, release *)
(* and pipe).                                                              *)
(***************************************************************************)
THEOREM CountCoversLiveHolds == Spec => []CountCoversLive
<1>1. Init => HostInv
  <2> SUFFICES ASSUME Init PROVE HostInv
    OBVIOUS
  <2>1. TInv
    BY DEF Init, RelayInit, TInv, SessionTypes, OneTeardown, Sides, NewSession, Session,
           PipeStages, Piping
  <2>2. PlaceTypes
    <3>1. /\ NoClaim \in [tok : Tokens \cup {NoOne}, started : BOOLEAN, conns : SUBSET Handlers]
          /\ NoRow \in [tok : Tokens \cup {NoOne}, user : Users \cup {NoOne}, old : BOOLEAN]
          /\ "idle" \in Labels
      BY DEF NoClaim, NoRow, Labels
    <3> QED BY <3>1 DEF Init, RelayInit, PlaceTypes
  <2>3. Known /\ Claims
    BY DEF Init, RelayInit, Known, Claims, Actors
  <2>4. Sided
    BY DEF Init, RelayInit, Sided, NewSession, Piping
  <2>5. Covered
    <3>1. OwedSet = {} /\ count = 0
      BY DEF Init, RelayInit, OwedSet, Owed, NewSession
    <3> QED BY <3>1, FS_EmptySet DEF Covered
  <2> QED BY <2>1, <2>2, <2>3, <2>4, <2>5 DEF HostInv
<1>2. HostInv /\ [Next]_vars => HostInv'
  <2> SUFFICES ASSUME HostInv, [Next]_vars PROVE HostInv'
    OBVIOUS
  <2>1. TInv /\ PlaceTypes /\ Known
    BY DEF HostInv
  <2>2. TInv'
    BY <2>1, NextIsSessionStep, SessionStepKeeps
  <2>3. PlaceTypes' /\ Known'
    BY <2>1, NextPlaces
  <2> QED BY <2>2, <2>3, NextBooks DEF HostInv
<1>3. HostInv => CountCoversLive
  <2> SUFFICES ASSUME HostInv PROVE CountCoversLive
    OBVIOUS
  <2> DEFINE L == {o \in Handlers : Live(o)}
  <2>1. L \subseteq OwedSet
    BY DEF Live, OwedSet, Owed, Returning
  <2>2. L \in SUBSET Handlers /\ OwedSet \in SUBSET Handlers /\ count \in Int /\ count >= Cardinality(OwedSet)
    BY DEF OwedSet, HostInv, Covered
  <2> HIDE DEF L
  <2>3. count >= Cardinality(L)
    BY <2>1, <2>2, CountFollows
  <2> QED BY <2>3 DEF CountCoversLive, L
<1> QED BY <1>1, <1>2, <1>3, PTL DEF Spec
=============================================================================
