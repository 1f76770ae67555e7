------------------------------ MODULE Handoff ------------------------------
(***************************************************************************)
(* The hand-off of a remote session between the server's relay and the     *)
(* direct link: one state machine on each side (handoff.rs on the host,    *)
(* handoff.ts in the browser), driven by the host's session core (core.rs) *)
(* and the browser's session channel (session-channel.ts).                 *)
(*                                                                         *)
(* A frame is what the two sides tell apart: its slot (the link channel it *)
(* rides), its place in the slot's stream and its length in bytes.  The    *)
(* relay and each link channel are ordered logs with a read position; what *)
(* a link loses is what its reader never reads before it leaves.           *)
(* Deadlines are armed flags whose expiry may come at any later step.      *)
(***************************************************************************)
EXTENDS Integers, Sequences, SequencesExt

CONSTANTS
    Layout,        \* "shared" or "separate": the channels the browser opens
    Window,        \* WINDOW_BYTES
    TypingWindow,  \* TYPING_WINDOW_BYTES
    MaxLinkFrame,  \* MAX_LINK_FRAME, the slack of the held limit
    Sizes,         \* the frame lengths the lanes admit
    Quota          \* bound: frames a side takes for a slot

Sides == {"host", "browser"}
Other(s) == IF s = "host" THEN "browser" ELSE "host"

Channels == {"typing", "screen", "files"}

\* Handoff::slot, under the layout both sides of the session open.
Slot(c) == IF Layout = "separate" THEN c ELSE "typing"
Slots == {Slot(c) : c \in Channels}

Paths == {"relay", "link", "holding", "ended"}
Counts == [Slots -> Nat]
NoCounts == [sl \in Slots |-> -1]    \* peer_fallback = None

ASSUME HandoffAssumption ==
    /\ Layout \in {"shared", "separate"}
    /\ Window \in Nat \ {0} /\ TypingWindow \in Nat \ {0}
    /\ MaxLinkFrame \in Nat \ {0}
    /\ Sizes \subseteq Nat \ {0}
    /\ Quota \in [Sides -> [Channels -> Nat]]

\* The lanes cap a frame far below the slack of the held limit (INTERACTIVE_FRAME_CAP and
\* BULK_FRAME_CAP against MAX_LINK_FRAME): one frame too many on each of three channels fits.
ASSUME FrameCapAssumption == \A len \in Sizes : 3 * (len - 1) <= MaxLinkFrame

VARIABLES
    path,          \* where the side sends session frames
    attempted, switched, leftLink,
    budget,        \* the attempt budget is armed
    kept,          \* per slot: numbered frames the peer has not confirmed
    nextNumber,    \* per slot: number of the next link frame
    held,          \* per slot: link frames ahead of the peer's switch notice
    delivered,     \* per slot: link frames handed to the features
    unacked,       \* per slot: bytes delivered since the last confirmation
    ackDue,        \* first_unacked is set
    peerSwitched, peerFallback,
    over,          \* the side's session has ended
    offer,         \* the browser's offer: "none", "making" or "made"
    linkStarted,   \* the host took the offer and started its link
    linkDown,      \* the link was cut or a side closed it
    relay, read,   \* what a side wrote to the relay; how much of its peer's it read
    link, linkRead,
    sent,          \* history, per slot: frames taken from the lanes
    base,          \* history, per slot: frames taken before the side switched
    inbox          \* history, per slot: places of the frames handed to the features

flags == <<path, attempted, switched, leftLink, budget, over>>
sending == <<kept, nextNumber, sent, base>>
receiving == <<held, delivered, unacked, ackDue, inbox>>
peer == <<peerSwitched, peerFallback>>
setup == <<offer, linkStarted, linkDown>>
wires == <<relay, read, link, linkRead>>
vars == <<flags, sending, receiving, peer, setup, wires>>

-----------------------------------------------------------------------------
(* Messages *)

FrameMsg(sl, id, len) == [kind |-> "frame", slot |-> sl, id |-> id, len |-> len]
SwitchMsg == [kind |-> "switch"]
FallbackMsgOffByOne(c) == [kind |-> "fallback", counts |-> [sl \in Slots |-> c[sl] - 1]]
FallbackMsg(c) == [kind |-> "fallback", counts |-> c]
AckMsg(c) == [kind |-> "ack", counts |-> c]
OfferMsg == [kind |-> "offer"]
RefusedMsg == [kind |-> "refused"]

Frames == [kind : {"frame"}, slot : Slots, id : Nat, len : Sizes]
RelayMsgs == Frames \cup {SwitchMsg, OfferMsg, RefusedMsg}
                    \cup [kind : {"fallback"}, counts : Counts]
LinkMsgs == Frames \cup [kind : {"ack"}, counts : Counts]
Kept == [n : Nat, frame : Frames]

\* The running sums of a sequence of lengths: Sums(w)[k] is that of the first k.
Sums(w) == LET upTo[k \in 0..Len(w)] == IF k = 0 THEN 0 ELSE upTo[k - 1] + w[k] IN upTo
Total(w) == Sums(w)[Len(w)]

\* The bytes of a sequence of frames: heldBytes, and unconfirmed of the kept ones.
Bytes(q) == Total([i \in 1..Len(q) |-> q[i].len])
Unconfirmed(s, sl) == Total([i \in 1..Len(kept[s][sl]) |-> kept[s][sl][i].frame.len])
HeldBytes(s) == LET b(sl) == IF sl \in Slots THEN Bytes(held[s][sl]) ELSE 0
                IN  b("typing") + b("screen") + b("files")

\* Handoff::window under the side's layout, which is shared until its link opens.
WindowOf(s, sl) ==
    IF sl = "typing" /\ Layout = "separate" /\ switched[s] THEN TypingWindow ELSE Window

HeldLimitOneWindow == Window + TypingWindow + MaxLinkFrame
HeldLimit == 2 * Window + TypingWindow + MaxLinkFrame

AboveOrAt(q, r) ==
    LET later == {i \in 1..Len(q) : q[i].n >= r}
    IN  IF later = {} THEN <<>> ELSE SubSeq(q, Min(later), Len(q))
AboveNext(q, r) ==
    LET later == {i \in 1..Len(q) : q[i].n > r + 1}
    IN  IF later = {} THEN <<>> ELSE SubSeq(q, Min(later), Len(q))

\* What is left of the kept frames once those at the front numbered up to r are
\* popped; numbers ascend, so these are also the ones resend filters by n > r.
Above(q, r) ==
    LET later == {i \in 1..Len(q) : q[i].n > r}
    IN  IF later = {} THEN <<>> ELSE SubSeq(q, Min(later), Len(q))

-----------------------------------------------------------------------------
Init ==
    /\ path = [s \in Sides |-> "relay"]
    /\ attempted = [s \in Sides |-> FALSE]
    /\ switched = [s \in Sides |-> FALSE]
    /\ leftLink = [s \in Sides |-> FALSE]
    /\ budget = [s \in Sides |-> FALSE]
    /\ over = [s \in Sides |-> FALSE]
    /\ kept = [s \in Sides |-> [sl \in Slots |-> <<>>]]
    /\ nextNumber = [s \in Sides |-> [sl \in Slots |-> 1]]
    /\ sent = [s \in Sides |-> [sl \in Slots |-> 0]]
    /\ base = [s \in Sides |-> [sl \in Slots |-> 0]]
    /\ held = [s \in Sides |-> [sl \in Slots |-> <<>>]]
    /\ delivered = [s \in Sides |-> [sl \in Slots |-> 0]]
    /\ unacked = [s \in Sides |-> [sl \in Slots |-> 0]]
    /\ ackDue = [s \in Sides |-> FALSE]
    /\ inbox = [s \in Sides |-> [sl \in Slots |-> <<>>]]
    /\ peerSwitched = [s \in Sides |-> FALSE]
    /\ peerFallback = [s \in Sides |-> NoCounts]
    /\ offer = "none" /\ linkStarted = FALSE /\ linkDown = FALSE
    /\ relay = [s \in Sides |-> <<>>]
    /\ read = [s \in Sides |-> 0]
    /\ link = [s \in Sides |-> [sl \in Slots |-> <<>>]]
    /\ linkRead = [s \in Sides |-> [sl \in Slots |-> 0]]

\* peer_switched hands over everything held before its caller goes on: until
\* then the side does nothing else.
Flushing(s) == peerSwitched[s] /\ \E sl \in Slots : held[s][sl] # <<>>
Running(s) == ~over[s] /\ ~Flushing(s)

ToRelay(s, msgs) == relay' = [relay EXCEPT ![s] = @ \o msgs]
ToLink(s, sl, m) == link' = [link EXCEPT ![s][sl] = Append(@, m)]
HandOver(s, f) == inbox' = [inbox EXCEPT ![s][f.slot] = Append(@, f.id)]

-----------------------------------------------------------------------------
(* Sending *)

\* Handoff::can_take.
CanTake(s, sl) ==
    \/ path[s] = "relay"
    \/ path[s] = "link" /\ Unconfirmed(s, sl) < WindowOf(s, sl)

\* Core::take and SessionChannel.pump with Handoff::send: the next frame of a lane.
Send(s, c, len) ==
    LET sl == Slot(c)
        f  == FrameMsg(sl, sent[s][sl] + 1, len)
    IN  /\ Running(s) /\ CanTake(s, sl) /\ sent[s][sl] < Quota[s][sl]
        /\ sent' = [sent EXCEPT ![s][sl] = @ + 1]
        /\ \/ /\ path[s] = "relay"
              /\ ToRelay(s, <<f>>)
              /\ base' = [base EXCEPT ![s][sl] = IF switched[s] THEN @ ELSE @ + 1]
              /\ UNCHANGED <<kept, nextNumber, link>>
           \/ /\ path[s] = "link"
              /\ kept' = [kept EXCEPT ![s][sl] =
                            Append(@, [n |-> nextNumber[s][sl], frame |-> f])]
              /\ nextNumber' = [nextNumber EXCEPT ![s][sl] = @ + 1]
              /\ ToLink(s, sl, f)
              /\ UNCHANGED <<relay, base>>
        /\ UNCHANGED <<flags, receiving, peer, setup, read, linkRead>>

-----------------------------------------------------------------------------
(* Leaving the link *)

ResentAll(s, received) ==
    LET again(sl) == IF sl \notin Slots THEN <<>>
                     ELSE [i \in 1..Len(kept[s][sl]) |-> kept[s][sl][i].frame]
    IN  again("typing") \o again("screen") \o again("files")
ResentOffByOne(s, received) ==
    LET again(sl) ==
            IF sl \notin Slots THEN <<>>
            ELSE LET q == Above(kept[s][sl], received[sl] + 1)
                 IN  [i \in 1..Len(q) |-> q[i].frame]
    IN  again("typing") \o again("screen") \o again("files")

\* The kept copies a fall-back re-sends, channel by channel in Channel::ALL order.
Resent(s, received) ==
    LET again(sl) ==
            IF sl \notin Slots THEN <<>>
            ELSE LET q == Above(kept[s][sl], received[sl])
                 IN  [i \in 1..Len(q) |-> q[i].frame]
    IN  again("typing") \o again("screen") \o again("files")

\* Handoff::resend after the messages `first`: back on the relay, nothing kept.
ResendAfter(s, first, received) ==
    /\ ToRelay(s, first \o Resent(s, received))
    /\ kept' = [kept EXCEPT ![s] = [sl \in Slots |-> <<>>]]
    /\ path' = [path EXCEPT ![s] = "relay"]

\* The host's link exists once it took the offer, the browser's from its attempt on.
HasLink(s) == IF s = "host" THEN linkStarted ELSE attempted[s]

\* Handoff::leave, with `notice` what is known of the peer's fall-back.  The
\* notice of this side's own fall-back goes out first; a side that was on the
\* link re-sends at once when the peer's counts are known and holds otherwise.
Leave(s, notice) ==
    /\ leftLink' = [leftLink EXCEPT ![s] = TRUE]
    /\ attempted' = [attempted EXCEPT ![s] = TRUE]
    /\ budget' = [budget EXCEPT ![s] = FALSE]
    /\ held' = [held EXCEPT ![s] = [sl \in Slots |-> <<>>]]
    /\ unacked' = [unacked EXCEPT ![s] = [sl \in Slots |-> 0]]
    /\ ackDue' = [ackDue EXCEPT ![s] = FALSE]
    /\ linkDown' = (linkDown \/ HasLink(s))
    /\ LET fallback == <<FallbackMsg(delivered[s])>>
       IN  \/ /\ path[s] = "link" /\ notice # NoCounts
              /\ ResendAfter(s, fallback, notice)
           \/ /\ path[s] = "link" /\ notice = NoCounts
              /\ path' = [path EXCEPT ![s] = "holding"]
              /\ ToRelay(s, fallback)
              /\ UNCHANGED kept
           \/ /\ path[s] # "link"
              /\ ToRelay(s, fallback)
              /\ UNCHANGED <<path, kept>>
    /\ UNCHANGED <<switched, over, nextNumber, sent, base, delivered, inbox,
                   offer, linkStarted>>

\* A Lost or Failed event of the host's link, SessionChannel.lose: any time the
\* side has a link.
LinkLost(s) ==
    /\ Running(s) /\ HasLink(s) /\ ~leftLink[s]
    /\ Leave(s, peerFallback[s])
    /\ UNCHANGED <<peer, read, link, linkRead>>

-----------------------------------------------------------------------------
(* Setting the link up *)

AttemptUnarmed ==
    /\ Running("browser") /\ ~attempted["browser"] /\ offer = "none"
    /\ attempted' = [attempted EXCEPT !["browser"] = TRUE]
    /\ offer' = "making"
    /\ UNCHANGED <<path, switched, leftLink, budget, over, sending, receiving, peer,
                   linkStarted, linkDown, wires>>

\* SessionChannel.attempt with begin_attempt, once the relay is open.
Attempt ==
    /\ Running("browser") /\ ~attempted["browser"] /\ offer = "none"
    /\ attempted' = [attempted EXCEPT !["browser"] = TRUE]
    /\ budget' = [budget EXCEPT !["browser"] = TRUE]
    /\ offer' = "making"
    /\ UNCHANGED <<path, switched, leftLink, over, sending, receiving, peer,
                   linkStarted, linkDown, wires>>

\* The offer's promise resolves; nothing is assumed of a connection closed meanwhile.
MakeOffer ==
    /\ Running("browser") /\ offer = "making"
    /\ offer' = "made"
    /\ ToRelay("browser", <<OfferMsg>>)
    /\ UNCHANGED <<flags, sending, receiving, peer, linkStarted, linkDown,
                   read, link, linkRead>>

LinkOpenStillArmed(s) ==
    /\ Running(s) /\ linkStarted
    /\ ~switched[s] /\ ~leftLink[s] /\ path[s] = "relay"
    /\ switched' = [switched EXCEPT ![s] = TRUE]
    /\ path' = [path EXCEPT ![s] = "link"]
    /\ budget' = budget
    /\ ToRelay(s, <<SwitchMsg>>)
    /\ UNCHANGED <<attempted, leftLink, over, sending, receiving, peer, setup,
                   read, link, linkRead>>
LinkOpenAfterLeaving(s) ==
    /\ Running(s) /\ linkStarted
    /\ ~switched[s] /\ path[s] = "relay"
    /\ switched' = [switched EXCEPT ![s] = TRUE]
    /\ path' = [path EXCEPT ![s] = "link"]
    /\ budget' = [budget EXCEPT ![s] = @ /\ ~peerSwitched[s]]
    /\ ToRelay(s, <<SwitchMsg>>)
    /\ UNCHANGED <<attempted, leftLink, over, sending, receiving, peer, setup,
                   read, link, linkRead>>

\* The side's link is open with every channel of the layout: Handoff::link_open.
\* The event may have waited in the side's queue while the link went down.
LinkOpen(s) ==
    /\ Running(s) /\ linkStarted
    /\ ~switched[s] /\ ~leftLink[s] /\ path[s] = "relay"
    /\ switched' = [switched EXCEPT ![s] = TRUE]
    /\ path' = [path EXCEPT ![s] = "link"]
    /\ budget' = [budget EXCEPT ![s] = @ /\ ~peerSwitched[s]]
    /\ ToRelay(s, <<SwitchMsg>>)
    /\ UNCHANGED <<attempted, leftLink, over, sending, receiving, peer, setup,
                   read, link, linkRead>>

-----------------------------------------------------------------------------
(* Frames from the relay: Handoff::from_relay *)

Unread(s) == read[s] < Len(relay[Other(s)])
NextRelay(s) == relay[Other(s)][read[s] + 1]
ReadRelay(s, kind) ==
    /\ Running(s) /\ Unread(s) /\ NextRelay(s).kind = kind
    /\ read' = [read EXCEPT ![s] = @ + 1]

RelayFrame(s) ==
    /\ ReadRelay(s, "frame")
    /\ HandOver(s, NextRelay(s))
    /\ UNCHANGED <<flags, sending, held, delivered, unacked, ackDue, peer, setup,
                   relay, link, linkRead>>

\* peer_switched: what is held is handed over before anything else (DeliverHeld).
RelaySwitch(s) ==
    /\ ReadRelay(s, "switch")
    /\ IF peerSwitched[s] \/ leftLink[s]
       THEN UNCHANGED <<peerSwitched, budget>>
       ELSE /\ peerSwitched' = [peerSwitched EXCEPT ![s] = TRUE]
            /\ budget' = [budget EXCEPT ![s] = @ /\ ~switched[s]]
    /\ UNCHANGED <<path, attempted, switched, leftLink, over, sending, receiving,
                   peerFallback, setup, relay, link, linkRead>>

\* peer_fell_back.
RelayFallback(s) ==
    LET received == NextRelay(s).counts
    IN  /\ ReadRelay(s, "fallback")
        /\ peerFallback' = [peerFallback EXCEPT ![s] = received]
        /\ \/ /\ ~leftLink[s]
              /\ Leave(s, received)
           \/ /\ leftLink[s] /\ path[s] = "holding"
              /\ ResendAfter(s, <<>>, received)
              /\ UNCHANGED <<attempted, switched, leftLink, budget, over,
                             nextNumber, sent, base, receiving, setup>>
           \/ /\ leftLink[s] /\ path[s] # "holding"
              /\ UNCHANGED <<flags, sending, receiving, setup, relay>>
        /\ UNCHANGED <<peerSwitched, link, linkRead>>

\* Core::on_signal of DirectOffer: a second attempt is refused.
RelayOffer ==
    /\ ReadRelay("host", "offer")
    /\ \/ /\ attempted["host"]
          /\ ToRelay("host", <<RefusedMsg>>)
          /\ UNCHANGED <<attempted, budget, linkStarted>>
       \/ /\ ~attempted["host"]
          /\ attempted' = [attempted EXCEPT !["host"] = TRUE]
          /\ budget' = [budget EXCEPT !["host"] = TRUE]
          /\ linkStarted' = TRUE
          /\ UNCHANGED relay
    /\ UNCHANGED <<path, switched, leftLink, over, sending, receiving, peer, offer,
                   linkDown, link, linkRead>>

\* SessionChannel.signal of DirectRefused: the link is lost.
RelayRefused ==
    /\ ReadRelay("browser", "refused")
    /\ IF leftLink["browser"]
       THEN UNCHANGED <<flags, sending, receiving, setup, relay>>
       ELSE Leave("browser", peerFallback["browser"])
    /\ UNCHANGED <<peer, link, linkRead>>

-----------------------------------------------------------------------------
(* Frames from the link: Handoff::from_link, link_frame *)

NextLink(s, sl) == link[Other(s)][sl][linkRead[s][sl] + 1]
ReadLink(s, sl) ==
    /\ Running(s) /\ ~leftLink[s]
    /\ linkRead[s][sl] < Len(link[Other(s)][sl])
    /\ linkRead' = [linkRead EXCEPT ![s][sl] = @ + 1]

\* confirmed: everything the peer counts as delivered is let go.
LinkAck(s) ==
    /\ ReadLink(s, "typing") /\ NextLink(s, "typing").kind = "ack"
    /\ LET received == NextLink(s, "typing").counts
       IN  kept' = [kept EXCEPT ![s] = [sl \in Slots |-> Above(@[sl], received[sl])]]
    /\ UNCHANGED <<flags, nextNumber, sent, base, receiving, peer, setup,
                   relay, read, link>>

\* confirm: one confirmation with every slot's count, on the typing channel.
Confirm(s, counts) ==
    /\ unacked' = [unacked EXCEPT ![s] = [sl \in Slots |-> 0]]
    /\ ackDue' = [ackDue EXCEPT ![s] = FALSE]
    /\ ToLink(s, "typing", AckMsg(counts))

\* deliver_link: the frame is counted and handed over; a quarter of a window
\* confirms at once.
DeliverLink(s, f) ==
    LET sl == f.slot
        counts == [delivered[s] EXCEPT ![sl] = @ + 1]
        bytes == unacked[s][sl] + f.len
    IN  /\ delivered' = [delivered EXCEPT ![s] = counts]
        /\ HandOver(s, f)
        /\ \/ /\ bytes >= WindowOf(s, sl) \div 4
              /\ Confirm(s, counts)
           \/ /\ bytes < WindowOf(s, sl) \div 4
              /\ unacked' = [unacked EXCEPT ![s][sl] = bytes]
              /\ ackDue' = [ackDue EXCEPT ![s] = TRUE]
              /\ UNCHANGED link

\* A frame ahead of the peer's switch notice is held, up to the held limit.
LinkAhead(s, sl) ==
    /\ ReadLink(s, sl) /\ NextLink(s, sl).kind = "frame" /\ ~peerSwitched[s]
    /\ IF HeldBytes(s) + NextLink(s, sl).len > HeldLimit
       THEN Leave(s, peerFallback[s])
       ELSE /\ held' = [held EXCEPT ![s][sl] = Append(@, NextLink(s, sl))]
            /\ UNCHANGED <<flags, sending, delivered, unacked, ackDue, inbox, setup, relay>>
    /\ UNCHANGED <<peer, read, link>>

LinkFrame(s, sl) ==
    /\ ReadLink(s, sl) /\ NextLink(s, sl).kind = "frame" /\ peerSwitched[s]
    /\ DeliverLink(s, NextLink(s, sl))
    /\ UNCHANGED <<flags, sending, held, peer, setup, relay, read>>

\* The loop of peer_switched over the slots, one held frame at a time.
DeliverHeld(s) ==
    /\ ~over[s] /\ Flushing(s)
    /\ LET sl == IF held[s]["typing"] # <<>> THEN "typing"
                 ELSE IF held[s]["screen"] # <<>> THEN "screen" ELSE "files"
       IN  /\ DeliverLink(s, Head(held[s][sl]))
           /\ held' = [held EXCEPT ![s][sl] = Tail(@)]
    /\ UNCHANGED <<flags, sending, peer, setup, relay, read, linkRead>>

-----------------------------------------------------------------------------
(* Timers: Handoff::tick, whose three parts run in this order when due together *)

TickAck(s) ==
    /\ Running(s) /\ ackDue[s]
    /\ Confirm(s, delivered[s])
    /\ UNCHANGED <<flags, sending, held, delivered, inbox, peer, setup,
                   relay, read, linkRead>>

\* note_direct disarms the budget, so one that is due always leaves.
TickBudget(s) ==
    /\ Running(s) /\ budget[s]
    /\ Leave(s, peerFallback[s])
    /\ UNCHANGED <<peer, read, link, linkRead>>

\* The peer stayed silent: the session ends, and with it the relay and the link.
TickHolding(s) ==
    /\ Running(s) /\ path[s] = "holding"
    /\ path' = [path EXCEPT ![s] = "ended"]
    /\ over' = [over EXCEPT ![s] = TRUE]
    /\ UNCHANGED <<attempted, switched, leftLink, budget, sending, receiving, peer,
                   setup, wires>>

\* The session is closed on this side, or its relay connection is gone.
Close(s) ==
    /\ Running(s)
    /\ over' = [over EXCEPT ![s] = TRUE]
    /\ linkDown' = (linkDown \/ HasLink(s))
    /\ UNCHANGED <<path, attempted, switched, leftLink, budget, sending, receiving,
                   peer, offer, linkStarted, wires>>

\* The network cuts the link under both sides.
LinkCut ==
    /\ linkStarted /\ ~linkDown
    /\ linkDown' = TRUE
    /\ UNCHANGED <<flags, sending, receiving, peer, offer, linkStarted, wires>>

-----------------------------------------------------------------------------
FromRelay(s) ==
    \/ RelayFrame(s) \/ RelaySwitch(s) \/ RelayFallback(s)
    \/ s = "host" /\ RelayOffer
    \/ s = "browser" /\ RelayRefused

FromLink(s) ==
    \/ LinkAck(s)
    \/ \E sl \in Slots : LinkAhead(s, sl) \/ LinkFrame(s, sl)

Next ==
    \/ Attempt \/ MakeOffer \/ LinkCut
    \/ \E s \in Sides :
          \/ \E c \in Channels, len \in Sizes : Send(s, c, len)
          \/ LinkOpen(s) \/ LinkLost(s)
          \/ FromRelay(s) \/ FromLink(s) \/ DeliverHeld(s)
          \/ TickAck(s) \/ TickBudget(s) \/ TickHolding(s)
          \/ Close(s)

Spec == Init /\ [][Next]_vars
-----------------------------------------------------------------------------
(* Properties *)

\* Every variable has its type; a count that is -1 is one the peer never sent.
TypeOK ==
    /\ path \in [Sides -> Paths]
    /\ attempted \in [Sides -> BOOLEAN] /\ switched \in [Sides -> BOOLEAN]
    /\ leftLink \in [Sides -> BOOLEAN] /\ budget \in [Sides -> BOOLEAN]
    /\ over \in [Sides -> BOOLEAN]
    /\ kept \in [Sides -> [Slots -> Seq(Kept)]]
    /\ nextNumber \in [Sides -> Counts]
    /\ sent \in [Sides -> Counts] /\ base \in [Sides -> Counts]
    /\ held \in [Sides -> [Slots -> Seq(Frames)]]
    /\ delivered \in [Sides -> Counts] /\ unacked \in [Sides -> Counts]
    /\ ackDue \in [Sides -> BOOLEAN]
    /\ inbox \in [Sides -> [Slots -> Seq(Nat)]]
    /\ peerSwitched \in [Sides -> BOOLEAN]
    /\ peerFallback \in [Sides -> Counts \cup {NoCounts}]
    /\ offer \in {"none", "making", "made"}
    /\ linkStarted \in BOOLEAN /\ linkDown \in BOOLEAN
    /\ relay \in [Sides -> Seq(RelayMsgs)] /\ read \in [Sides -> Nat]
    /\ link \in [Sides -> [Slots -> Seq(LinkMsgs)]] /\ linkRead \in [Sides -> Counts]

\* On each slot every frame arrives exactly once and in order, whatever the
\* path changes (handoff.rs, module comment; ADR-127): what the features were
\* handed is the first frames the peer took, each at its place.
InOrderOnce ==
    \A s \in Sides, sl \in Slots :
        /\ Len(inbox[s][sl]) <= sent[Other(s)][sl]
        /\ \A i \in 1..Len(inbox[s][sl]) : inbox[s][sl][i] = i

\* The hand-off implements the stream the features were promised.
Stream == INSTANCE SessionStream
StreamSpec == Stream!Spec

\* An honest peer is never taken for one that overruns: frames held ahead of
\* the switch notice stay within the limit that makes a side leave, although
\* each window may be overshot by one frame (can_take, link_frame).
HeldWithinLimit ==
    \A s \in Sides, sl \in Slots :
        (/\ Running(s) /\ ~leftLink[s] /\ ~peerSwitched[s]
         /\ linkRead[s][sl] < Len(link[Other(s)][sl])
         /\ NextLink(s, sl).kind = "frame")
            => HeldBytes(s) + NextLink(s, sl).len <= HeldLimit

\* The attempt's timer never takes down a link that carries both directions
\* (note_direct disarms it on whichever notice comes second).
BudgetNeverDropsDirect ==
    \A s \in Sides : budget[s] => ~(switched[s] /\ peerSwitched[s])

\* A copy is let go only when its frame was handed over at the peer, and a side
\* holding frames still has every one of them the peer has not counted: what
\* the peer's notice will ask for is there (confirmed, resend).
KeptCoversLoss ==
    \A s \in Sides, sl \in Slots :
        path[s] \in {"link", "holding"} =>
            \A n \in (delivered[Other(s)][sl] + 1)..(nextNumber[s][sl] - 1) :
                \E i \in 1..Len(kept[s][sl]) : kept[s][sl][i].n = n

\* A session changes path at most twice (ADR-127): onto the link only from the
\* relay and only once, off the link to hold or to the relay, and from holding
\* only back to the relay or to the end.
PathStep(s) ==
    path'[s] # path[s] =>
        \/ path[s] = "relay" /\ path'[s] = "link" /\ ~switched[s] /\ ~leftLink[s]
        \/ path[s] = "link" /\ path'[s] \in {"holding", "relay"} /\ leftLink'[s]
        \/ path[s] = "holding" /\ path'[s] \in {"relay", "ended"}
PathMovesTwice == [][\A s \in Sides : PathStep(s)]_vars

-----------------------------------------------------------------------------
(* Fairness: the core reads its relay and its link while they carry bytes, a  *)
(* deadline passes, a cut link is noticed (the host's silence checks, the     *)
(* browser's ICE state), and a closed relay closes the peer's.                *)
Fairness ==
    \A s \in Sides :
        /\ WF_vars(FromRelay(s))
        /\ WF_vars(~linkDown /\ LinkAck(s))
        /\ \A sl \in Slots : WF_vars(~linkDown /\ (LinkAhead(s, sl) \/ LinkFrame(s, sl)))
        /\ WF_vars(DeliverHeld(s))
        /\ WF_vars(TickAck(s)) /\ WF_vars(TickBudget(s)) /\ WF_vars(TickHolding(s))
        /\ WF_vars(linkDown /\ LinkLost(s))
        /\ WF_vars(over[Other(s)] /\ Close(s))

FairSpec == Spec /\ Fairness

\* Every frame a side took is handed over at its peer, or the session ends: no
\* frame is stranded on a link that was left or behind a notice that never comes.
NothingStranded ==
    \A s \in Sides, sl \in Slots : \A k \in 1..Quota[s][sl] :
        sent[s][sl] >= k ~> (Len(inbox[Other(s)][sl]) >= k \/ over["host"])

\* An attempt settles: both directions on the link, or the link left, or the
\* session over (begin_attempt, tick).
AttemptSettles ==
    \A s \in Sides :
        attempted[s] ~> (leftLink[s] \/ (switched[s] /\ peerSwitched[s]) \/ over[s])
=============================================================================
