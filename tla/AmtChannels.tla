---------------------------- MODULE AmtChannels -----------------------------
(***************************************************************************)
(* One CIRA connection of an Intel AMT device (amt/transport): the message *)
(* loop, which alone reads the connection, and the WSMAN requests that     *)
(* open a channel each, read it and close it beside the loop.  A request   *)
(* is named as its channel.  Steps are cut where the code releases a lock, *)
(* and joined where no other step could come between to any effect.        *)
(* Data is a number of bytes; each direction of a channel keeps its order, *)
(* and the wire may break the bytes into messages anywhere.  The device is *)
(* external: it answers or not, and sends no more than its window.         *)
(***************************************************************************)
EXTENDS Naturals

CONSTANTS
    Window,      \* DefaultWindowSize
    Requests,    \* calls of wsman Client.Do, each with a channel of its own
    Inbound      \* channels the device opens

ChannelIds == Requests \cup Inbound

VARIABLES
    pc,          \* where a request is in Do, OpenChannel, Read and Close
    closer,      \* where the close on the end of its context is
    due,         \* the adjust Read has still to write
    opening, channels, closed,      \* Conn
    reply,       \* the one-slot channel of an open
    ended, inbox, unacked, ready,   \* Channel: err, inbox, unacked, ready
    loop, answered, answer,         \* the message loop, and the open it answers
    toEnd, toRefuse,                \* what Conn.Close has still to end and refuse
    net,                            \* the connection is up
    dev, credit,                    \* external: the device's channels, what it may send
    down, adjust, closeDown,        \* external: on the way to the device
    up, bytes, closeUp              \* external: on the way to the server

requestVars == <<pc, closer, due>>
connVars == <<opening, channels, closed>>
chanVars == <<ended, inbox, unacked, ready>>
loopVars == <<loop, answered, answer, toEnd, toRefuse>>
deviceVars == <<dev, credit>>
downVars == <<down, adjust, closeDown>>
upVars == <<up, bytes, closeUp>>
amtVars == <<requestVars, connVars, reply, chanVars, loopVars, net, deviceVars,
             downVars, upVars>>

Exchange == {"writing", "reading", "adjusting", "parked"}
Closing == {"ending", "forgetting", "telling"}
Places == {"idle", "asking", "waiting", "giving_up", "draining", "done"}
            \cup Exchange \cup Closing

AmtTypeOK ==
    /\ pc \in [Requests -> Places]
    /\ closer \in [Requests -> Closing \cup {"off", "done"}]
    /\ due \in [Requests -> Nat]
    /\ opening \subseteq Requests /\ channels \subseteq ChannelIds /\ closed \in BOOLEAN
    /\ reply \in [Requests -> {"none", "chan", "err"}]
    /\ ended \in [ChannelIds -> BOOLEAN] /\ ready \in [ChannelIds -> BOOLEAN]
    /\ inbox \in [ChannelIds -> Nat] /\ unacked \in [ChannelIds -> Nat]
    /\ loop \in {"reading", "answering", "closing", "ending", "done"}
    /\ answered \in Requests /\ answer \in {"chan", "err"}
    /\ toEnd \subseteq ChannelIds /\ toRefuse \subseteq Requests
    /\ net \in BOOLEAN
    /\ dev \in [ChannelIds -> {"none", "asked", "open", "closed"}]
    /\ credit \in [ChannelIds -> Nat]
    /\ down \in [ChannelIds -> {"none", "open", "confirm"}]
    /\ adjust \in [ChannelIds -> Nat] /\ closeDown \in [ChannelIds -> BOOLEAN]
    /\ up \in [ChannelIds -> {"none", "open", "confirm", "failure"}]
    /\ bytes \in [ChannelIds -> Nat] /\ closeUp \in [ChannelIds -> BOOLEAN]

AmtInit ==
    /\ pc = [r \in Requests |-> "idle"] /\ closer = [r \in Requests |-> "off"]
    /\ due = [r \in Requests |-> 0]
    /\ opening = {} /\ channels = {} /\ closed = FALSE
    /\ reply = [r \in Requests |-> "none"]
    /\ ended = [c \in ChannelIds |-> FALSE] /\ ready = [c \in ChannelIds |-> FALSE]
    /\ inbox = [c \in ChannelIds |-> 0] /\ unacked = [c \in ChannelIds |-> 0]
    /\ loop = "reading" /\ answered \in Requests /\ answer = "err"
    /\ toEnd = {} /\ toRefuse = {} /\ net = TRUE
    /\ dev = [c \in ChannelIds |-> "none"] /\ credit = [c \in ChannelIds |-> 0]
    /\ down = [c \in ChannelIds |-> "none"] /\ adjust = [c \in ChannelIds |-> 0]
    /\ closeDown = [c \in ChannelIds |-> FALSE]
    /\ up = [c \in ChannelIds |-> "none"] /\ bytes = [c \in ChannelIds |-> 0]
    /\ closeUp = [c \in ChannelIds |-> FALSE]

\* A write to a connection that is gone is lost; the writer may not notice.
WriteAdjust(c, n) ==
    adjust' = IF net THEN [adjust EXCEPT ![c] = @ + n] ELSE adjust
WriteChannelClose(c) ==
    closeDown' = IF net THEN [closeDown EXCEPT ![c] = TRUE] ELSE closeDown
WriteMessage(c, m) ==
    down' = IF net THEN [down EXCEPT ![c] = m] ELSE down

\* Half the window taken is due back at once.
AdjustDue(n) == IF n < Window \div 2 THEN 0 ELSE n
StillUnacked(n) == IF n < Window \div 2 THEN n ELSE 0

\* The channel ends for its reader: the first reason stays, and the reader wakes.
EndChannel(c) ==
    /\ ended' = [ended EXCEPT ![c] = TRUE]
    /\ ready' = IF ended[c] THEN ready ELSE [ready EXCEPT ![c] = TRUE]

Goto(r, p) == pc' = [pc EXCEPT ![r] = p]

-----------------------------------------------------------------------------
(* A request: OpenChannel and abandonOpen *)

OpenChannel(r) ==
    /\ pc[r] = "idle"
    /\ IF closed THEN Goto(r, "done") /\ UNCHANGED opening
                 ELSE Goto(r, "asking") /\ opening' = opening \cup {r}
    /\ UNCHANGED <<closer, due, channels, closed, reply, chanVars, loopVars, net,
                   deviceVars, downVars, upVars>>

WriteOpen(r) ==
    /\ pc[r] = "asking"
    /\ WriteMessage(r, "open")
    /\ \/ Goto(r, "waiting")
       \/ ~net /\ Goto(r, "giving_up")
    /\ UNCHANGED <<closer, due, connVars, reply, chanVars, loopVars, net, deviceVars,
                   adjust, closeDown, upVars>>

\* The answer came; the timeout may still win when both are there.
TakeReply(r) ==
    /\ pc[r] = "waiting" /\ reply[r] # "none"
    /\ reply' = [reply EXCEPT ![r] = "none"]
    /\ Goto(r, IF reply[r] = "chan" THEN "writing" ELSE "done")
    /\ UNCHANGED <<closer, due, connVars, chanVars, loopVars, net, deviceVars,
                   downVars, upVars>>

OpenTimesOut(r) ==
    /\ pc[r] = "waiting"
    /\ Goto(r, "giving_up")
    /\ UNCHANGED <<closer, due, connVars, reply, chanVars, loopVars, net, deviceVars,
                   downVars, upVars>>

AbandonOpen(r) ==
    /\ pc[r] = "giving_up"
    /\ Goto(r, "draining") /\ opening' = opening \ {r}
    /\ UNCHANGED <<closer, due, channels, closed, reply, chanVars, loopVars, net,
                   deviceVars, downVars, upVars>>

\* What the loop has put into the slot by now is closed; it does not wait for more.
AbandonDrains(r) ==
    /\ pc[r] = "draining"
    /\ reply' = [reply EXCEPT ![r] = "none"]
    /\ Goto(r, IF reply[r] = "chan" THEN "ending" ELSE "done")
    /\ UNCHANGED <<closer, due, connVars, chanVars, loopVars, net, deviceVars,
                   downVars, upVars>>

-----------------------------------------------------------------------------
(* A request: the exchange, Read and Write *)

Write(r) ==
    /\ pc[r] = "writing"
    /\ \/ ~ended[r] /\ Goto(r, "reading")
       \/ (ended[r] \/ ~net) /\ Goto(r, "ending")
    /\ UNCHANGED <<closer, due, connVars, reply, chanVars, loopVars, net, deviceVars,
                   downVars, upVars>>

\* An ended channel gives what is left and reopens nothing.
ReadTakes(r, n) ==
    /\ pc[r] = "reading" /\ n \in 1..inbox[r]
    /\ Goto(r, "adjusting")
    /\ inbox' = [inbox EXCEPT ![r] = @ - n]
    /\ IF ended[r]
       THEN UNCHANGED <<unacked, due>>
       ELSE /\ unacked' = [unacked EXCEPT ![r] = StillUnacked(@ + n)]
            /\ due' = [due EXCEPT ![r] = AdjustDue(unacked[r] + n)]
    /\ UNCHANGED <<closer, connVars, reply, ended, ready, loopVars, net, deviceVars,
                   downVars, upVars>>

\* The response may need more, ask for another request, or be complete.
ReopenWindow(r) ==
    /\ pc[r] = "adjusting"
    /\ WriteAdjust(r, due[r]) /\ due' = [due EXCEPT ![r] = 0]
    /\ \E p \in {"reading", "writing", "ending"} : Goto(r, p)
    /\ UNCHANGED <<closer, connVars, reply, chanVars, loopVars, net, deviceVars, down,
                   closeDown, upVars>>

ReadEnds(r) ==
    /\ pc[r] = "reading" /\ inbox[r] = 0 /\ ended[r]
    /\ Goto(r, "ending")
    /\ UNCHANGED <<closer, due, connVars, reply, chanVars, loopVars, net, deviceVars,
                   downVars, upVars>>

ReadParks(r) ==
    /\ pc[r] = "reading" /\ inbox[r] = 0 /\ ~ended[r]
    /\ Goto(r, "parked")
    /\ UNCHANGED <<closer, due, connVars, reply, chanVars, loopVars, net, deviceVars,
                   downVars, upVars>>

ReadWakes(r) ==
    /\ pc[r] = "parked" /\ ready[r]
    /\ ready' = [ready EXCEPT ![r] = FALSE] /\ Goto(r, "reading")
    /\ UNCHANGED <<closer, due, connVars, reply, ended, inbox, unacked, loopVars, net,
                   deviceVars, downVars, upVars>>

-----------------------------------------------------------------------------
(* Channel.Close, by the request itself or by the end of its context *)

Request == "request"
Context == "context"
At(r, who) == IF who = Request THEN pc[r] ELSE closer[r]
Move(r, who, p) ==
    /\ pc' = IF who = Request THEN [pc EXCEPT ![r] = p] ELSE pc
    /\ closer' = IF who = Context THEN [closer EXCEPT ![r] = p] ELSE closer

ContextEnds(r) ==
    /\ pc[r] \in Exchange /\ closer[r] = "off"
    /\ Move(r, Context, "ending")
    /\ UNCHANGED <<due, connVars, reply, chanVars, loopVars, net, deviceVars, downVars,
                   upVars>>

\* Only the call that ended the channel goes on.
CloseEnds(r, who) ==
    /\ At(r, who) = "ending"
    /\ EndChannel(r)
    /\ Move(r, who, IF ended[r] THEN "done" ELSE "forgetting")
    /\ UNCHANGED <<due, connVars, reply, inbox, unacked, loopVars, net, deviceVars,
                   downVars, upVars>>

CloseForgets(r, who) ==
    /\ At(r, who) = "forgetting"
    /\ channels' = channels \ {r} /\ Move(r, who, "telling")
    /\ UNCHANGED <<due, opening, closed, reply, chanVars, loopVars, net, deviceVars,
                   downVars, upVars>>

CloseTells(r, who) ==
    /\ At(r, who) = "telling"
    /\ WriteChannelClose(r) /\ Move(r, who, "done")
    /\ UNCHANGED <<due, connVars, reply, chanVars, loopVars, net, deviceVars, down,
                   adjust, upVars>>

-----------------------------------------------------------------------------
(* The message loop *)

\* A confirm is matched to its open under the lock, and answered after it; one
\* that nobody waits for is closed.
ConfirmOpen(r) ==
    /\ loop = "reading" /\ up[r] = "confirm"
    /\ up' = [up EXCEPT ![r] = "none"] /\ opening' = opening \ {r}
    /\ IF r \in opening
       THEN /\ channels' = channels \cup {r}
            /\ loop' = "answering" /\ answered' = r /\ answer' = "chan"
            /\ UNCHANGED closeDown
       ELSE WriteChannelClose(r) /\ UNCHANGED <<channels, loop, answered, answer>>
    /\ UNCHANGED <<requestVars, closed, reply, chanVars, toEnd, toRefuse, net,
                   deviceVars, down, adjust, bytes, closeUp>>

RefuseOpen(r) ==
    /\ loop = "reading" /\ up[r] = "failure"
    /\ up' = [up EXCEPT ![r] = "none"] /\ opening' = opening \ {r}
    /\ IF r \in opening
       THEN loop' = "answering" /\ answered' = r /\ answer' = "err"
       ELSE UNCHANGED <<loop, answered, answer>>
    /\ UNCHANGED <<requestVars, channels, closed, reply, chanVars, toEnd, toRefuse, net,
                   deviceVars, downVars, bytes, closeUp>>

\* The send waits for the slot of the open to be empty.
Answer ==
    /\ loop = "answering" /\ reply[answered] = "none"
    /\ reply' = [reply EXCEPT ![answered] = answer] /\ loop' = "reading"
    /\ UNCHANGED <<requestVars, connVars, chanVars, answered, answer, toEnd, toRefuse,
                   net, deviceVars, downVars, upVars>>

HandleChannelOpen(c) ==
    /\ loop = "reading" /\ up[c] = "open"
    /\ up' = [up EXCEPT ![c] = "none"]
    /\ channels' = channels \cup {c} /\ WriteMessage(c, "confirm")
    /\ UNCHANGED <<requestVars, opening, closed, reply, chanVars, loopVars, net,
                   deviceVars, adjust, closeDown, bytes, closeUp>>

Overrun(c, n) == inbox[c] + n > Window

\* deliver: a channel nobody reads acknowledges on arrival, an ended one drops.
HandleChannelData(c, n) ==
    /\ loop = "reading" /\ up[c] = "none" /\ n \in 1..bytes[c]
    /\ bytes' = [bytes EXCEPT ![c] = @ - n]
    /\ \/ /\ c \in channels \cap Inbound
          /\ unacked' = [unacked EXCEPT ![c] = StillUnacked(@ + n)]
          /\ WriteAdjust(c, AdjustDue(unacked[c] + n))
          /\ UNCHANGED <<channels, ended, inbox, ready, closeDown>>
       \/ /\ c \in channels \ Inbound /\ ~ended[c] /\ ~Overrun(c, n)
          /\ inbox' = [inbox EXCEPT ![c] = @ + n]
          /\ ready' = [ready EXCEPT ![c] = TRUE]
          /\ UNCHANGED <<channels, ended, unacked, adjust, closeDown>>
       \/ /\ c \in channels \ Inbound /\ ~ended[c] /\ Overrun(c, n)
          /\ EndChannel(c) /\ channels' = channels \ {c} /\ WriteChannelClose(c)
          /\ UNCHANGED <<inbox, unacked, adjust>>
       \/ /\ c \notin channels \/ (c \notin Inbound /\ ended[c])
          /\ UNCHANGED <<channels, chanVars, adjust, closeDown>>
    /\ UNCHANGED <<requestVars, opening, closed, reply, loopVars, net, deviceVars, down,
                   up, closeUp>>

HandleChannelClose(c) ==
    /\ loop = "reading" /\ up[c] = "none" /\ bytes[c] = 0 /\ closeUp[c]
    /\ closeUp' = [closeUp EXCEPT ![c] = FALSE]
    /\ IF c \in channels
       THEN channels' = channels \ {c} /\ EndChannel(c) /\ WriteChannelClose(c)
       ELSE UNCHANGED <<channels, ended, ready, closeDown>>
    /\ UNCHANGED <<requestVars, opening, closed, reply, inbox, unacked, loopVars, net,
                   deviceVars, down, adjust, up, bytes>>

\* A disconnect, a read error, 90 seconds without a message, or a shutdown.
LoopEnds ==
    /\ loop = "reading" /\ loop' = "closing"
    /\ UNCHANGED <<requestVars, connVars, reply, chanVars, answered, answer, toEnd,
                   toRefuse, net, deviceVars, downVars, upVars>>

\* Conn.Close takes both maps under the lock, and works through them after it.
Close ==
    /\ loop = "closing" /\ loop' = "ending"
    /\ closed' = TRUE /\ channels' = {} /\ opening' = {}
    /\ toEnd' = channels /\ toRefuse' = opening
    /\ UNCHANGED <<requestVars, reply, chanVars, answered, answer, net, deviceVars,
                   downVars, upVars>>

CloseEndsChannel(c) ==
    /\ loop = "ending" /\ c \in toEnd
    /\ toEnd' = toEnd \ {c} /\ EndChannel(c)
    /\ UNCHANGED <<requestVars, connVars, reply, inbox, unacked, loop, answered, answer,
                   toRefuse, net, deviceVars, downVars, upVars>>

CloseRefuses(r) ==
    /\ loop = "ending" /\ toEnd = {} /\ r \in toRefuse /\ reply[r] = "none"
    /\ toRefuse' = toRefuse \ {r} /\ reply' = [reply EXCEPT ![r] = "err"]
    /\ UNCHANGED <<requestVars, connVars, chanVars, loop, answered, answer, toEnd, net,
                   deviceVars, downVars, upVars>>

CloseNet ==
    /\ loop = "ending" /\ toEnd = {} /\ toRefuse = {}
    /\ loop' = "done" /\ net' = FALSE
    /\ UNCHANGED <<requestVars, connVars, reply, chanVars, answered, answer, toEnd,
                   toRefuse, deviceVars, downVars, upVars>>

-----------------------------------------------------------------------------
(* The device and the network, external *)

deviceOnly == <<requestVars, connVars, reply, chanVars, loopVars>>

\* An open is confirmed with the window the server named, refused, or never answered.
DeviceAnswers(r) ==
    /\ net /\ down[r] = "open" /\ down' = [down EXCEPT ![r] = "none"]
    /\ \/ /\ dev' = [dev EXCEPT ![r] = "open"] /\ credit' = [credit EXCEPT ![r] = Window]
          /\ up' = [up EXCEPT ![r] = "confirm"]
       \/ up' = [up EXCEPT ![r] = "failure"] /\ UNCHANGED deviceVars
       \/ UNCHANGED <<deviceVars, up>>
    /\ UNCHANGED <<deviceOnly, net, adjust, closeDown, bytes, closeUp>>

DeviceOpens(c) ==
    /\ net /\ dev[c] = "none"
    /\ dev' = [dev EXCEPT ![c] = "asked"] /\ up' = [up EXCEPT ![c] = "open"]
    /\ UNCHANGED <<deviceOnly, net, credit, downVars, bytes, closeUp>>

DeviceConfirmed(c) ==
    /\ net /\ down[c] = "confirm" /\ down' = [down EXCEPT ![c] = "none"]
    /\ dev' = [dev EXCEPT ![c] = "open"] /\ credit' = [credit EXCEPT ![c] = Window]
    /\ UNCHANGED <<deviceOnly, net, adjust, closeDown, upVars>>

DeviceSends(c, n) ==
    /\ net /\ dev[c] = "open" /\ n \in 1..credit[c]
    /\ credit' = [credit EXCEPT ![c] = @ - n] /\ bytes' = [bytes EXCEPT ![c] = @ + n]
    /\ UNCHANGED <<deviceOnly, net, dev, downVars, up, closeUp>>

DeviceAdjusts(c) ==
    /\ net /\ down[c] = "none" /\ adjust[c] > 0
    /\ adjust' = [adjust EXCEPT ![c] = 0]
    /\ credit' = [credit EXCEPT ![c] = IF dev[c] = "open" THEN @ + adjust[c] ELSE @]
    /\ UNCHANGED <<deviceOnly, net, dev, down, closeDown, upVars>>

DeviceCloses(c) ==
    /\ net /\ dev[c] = "open" /\ dev' = [dev EXCEPT ![c] = "closed"]
    /\ closeUp' = [closeUp EXCEPT ![c] = TRUE]
    /\ UNCHANGED <<deviceOnly, net, credit, downVars, up, bytes>>

DeviceTold(c) ==
    /\ net /\ down[c] = "none" /\ closeDown[c]
    /\ closeDown' = [closeDown EXCEPT ![c] = FALSE]
    /\ IF dev[c] = "open"
       THEN dev' = [dev EXCEPT ![c] = "closed"] /\ closeUp' = [closeUp EXCEPT ![c] = TRUE]
       ELSE UNCHANGED <<dev, closeUp>>
    /\ UNCHANGED <<deviceOnly, net, credit, down, adjust, up, bytes>>

NetFails ==
    /\ net /\ net' = FALSE
    /\ UNCHANGED <<deviceOnly, deviceVars, downVars, upVars>>

-----------------------------------------------------------------------------
RequestStep(r) ==
    \/ OpenChannel(r) \/ WriteOpen(r) \/ TakeReply(r) \/ OpenTimesOut(r)
    \/ AbandonOpen(r) \/ AbandonDrains(r)
    \/ Write(r) \/ \E n \in 1..inbox[r] : ReadTakes(r, n)
    \/ ReopenWindow(r) \/ ReadEnds(r) \/ ReadParks(r) \/ ReadWakes(r)
    \/ ContextEnds(r)
    \/ \E who \in {Request, Context} :
         CloseEnds(r, who) \/ CloseForgets(r, who) \/ CloseTells(r, who)

LoopStep ==
    \/ \E r \in Requests : ConfirmOpen(r) \/ RefuseOpen(r) \/ CloseRefuses(r)
    \/ \E c \in Inbound : HandleChannelOpen(c)
    \/ \E c \in ChannelIds : \/ \E n \in 1..bytes[c] : HandleChannelData(c, n)
                           \/ HandleChannelClose(c) \/ CloseEndsChannel(c)
    \/ Answer \/ LoopEnds \/ Close \/ CloseNet

DeviceStep ==
    \/ \E r \in Requests : DeviceAnswers(r)
    \/ \E c \in Inbound : DeviceOpens(c) \/ DeviceConfirmed(c)
    \/ \E c \in ChannelIds : \/ \E n \in 1..credit[c] : DeviceSends(c, n)
                           \/ DeviceAdjusts(c) \/ DeviceCloses(c) \/ DeviceTold(c)
    \/ NetFails

AmtNext == (\E r \in Requests : RequestStep(r)) \/ LoopStep \/ DeviceStep

AmtSpec == AmtInit /\ [][AmtNext]_amtVars

-----------------------------------------------------------------------------
\* A device that keeps to its window never has its channel closed for overrunning
\* it, whatever is read, acknowledged late or lost meanwhile (deliver, takeAdjust).
NeverOverrun ==
    \A c \in ChannelIds : bytes[c] > 0 => ~Overrun(c, bytes[c])

\* No wake-up is lost: a request asleep in Read has nothing to read and its channel
\* has not ended, or its wake-up is there, although both may come between the
\* release of the lock and the wait (Read, signal).
NoLostWakeup ==
    \A r \in Requests : pc[r] = "parked" /\ (inbox[r] > 0 \/ ended[r]) => ready[r]

\* The message loop, on which the keep-alives of every request depend, never waits
\* for a request: the slot it answers into is empty (confirmOpen, refuseOpen, Close).
LoopNeverWaits ==
    /\ loop = "answering" => reply[answered] = "none"
    /\ loop = "ending" => \A r \in toRefuse : reply[r] = "none"

\* The device keeps no channel that the server does not, unless a close is on its
\* way or about to be written (confirmOpen's comment): whichever of the request, its
\* context, the loop and a late confirm came first.
CloseComing(c) ==
    \/ closeDown[c]
    \/ c \in Requests /\ (pc[c] = "telling" \/ closer[c] = "telling")
DeviceKeepsNone ==
    \A c \in ChannelIds :
        dev[c] = "open" /\ net /\ ~closed =>
            up[c] = "confirm" \/ c \in channels \/ CloseComing(c)

\* What abandonOpen says of itself (mps_conn.go:128), "a channel the loop opened in
\* the meantime is closed": a request that is over leaves no channel open.  It does
\* not hold: the loop may have taken the open off the map and not have answered yet.
AbandonCloses ==
    \A r \in Requests :
        pc[r] = "done" /\ loop = "reading" /\ r \in channels => ended[r]
=============================================================================
