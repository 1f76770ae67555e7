--------------------------- MODULE HandoffProofs ---------------------------
(***************************************************************************)
(* The hand-off between relay and direct link, for every number of frames, *)
(* both layouts of channels and any limits: types and bounds first, then   *)
(* the sender's half of IInv, the receiver's half, and the whole; last the *)
(* sums of lengths and the bytes held ahead of the switch notice.          *)
(***************************************************************************)
EXTENDS HandoffInvariant, TLAPS, WellFoundedInduction, SequenceTheorems

\* A session has two sides, each the other's peer.
LEMMA OtherSide == \A s \in Sides : Other(s) \in Sides /\ Other(s) # s /\ Other(Other(s)) = s
BY DEF Sides, Other

\* Under either layout the typing channel is open and every channel's frames ride an
\* open one (Handoff::slot).
LEMMA SlotsAreChannels == Slots \subseteq Channels /\ "typing" \in Slots /\ (\A c \in Channels : Slot(c) \in Slots)
BY HandoffAssumption DEF Slots, Slot, Channels

\* A non-empty set of naturals has a least element, which Min chooses.
LEMMA LeastElement ==
    ASSUME NEW T, T \subseteq Nat, T # {}
    PROVE  Min(T) \in T /\ \A y \in T : Min(T) <= y
<1> DEFINE R == {ss \in Nat \X Nat : ss[1] < ss[2]}
<1>1. IsWellFoundedOn(R, Nat)
  BY NatLessThanWellFounded DEF OpToRel
<1>2. \A x, y \in Nat : x < y => <<x, y>> \in R
  OBVIOUS
<1> HIDE DEF R
<1>3. PICK x \in T : \A y \in T : ~(<<y, x>> \in R)
  BY <1>1, WFMin, Zenon
<1>4. \A y \in T : ~(y < x)
  BY <1>2, <1>3, Zenon
<1>5. \A y \in T : x <= y
  BY <1>4
<1> QED BY <1>5 DEF Min

\* Popping confirmed copies leaves a sequence of copies (Handoff::confirmed).
LEMMA AboveType ==
    ASSUME NEW q \in Seq(Kept), NEW r \in Int
    PROVE  Above(q, r) \in Seq(Kept)
<1> DEFINE later == {i \in 1..Len(q) : q[i].n > r}
<1>1. CASE later = {}
  BY <1>1 DEF Above
<1>2. CASE later # {}
  <2>1. Min(later) \in later
    <3>1. later \subseteq Nat
      OBVIOUS
    <3> HIDE DEF later
    <3> QED BY <1>2, <3>1, LeastElement
  <2> HIDE DEF later
  <2>2. Min(later) \in 1..Len(q)
    BY <2>1 DEF later
  <2>3. Above(q, r) = SubSeq(q, Min(later), Len(q))
    BY <1>2 DEF Above, later
  <2> QED BY <2>2, <2>3, SubSeqProperties
<1> QED BY <1>1, <1>2

\* What a fall-back re-sends is a sequence of session frames (Handoff::resend).
LEMMA ResentType ==
    ASSUME TypeOK, NEW s \in Sides, NEW received \in Counts
    PROVE  Resent(s, received) \in Seq(Frames) /\ Resent(s, received) \in Seq(RelayMsgs)
<1> DEFINE again(sl) == IF sl \notin Slots THEN <<>>
                        ELSE LET q == Above(kept[s][sl], received[sl])
                             IN  [i \in 1..Len(q) |-> q[i].frame]
<1>1. ASSUME NEW sl
      PROVE  again(sl) \in Seq(Frames)
  <2>1. CASE sl \notin Slots
    BY <2>1
  <2>2. CASE sl \in Slots
    <3> DEFINE q == Above(kept[s][sl], received[sl])
    <3>1. kept[s][sl] \in Seq(Kept) /\ received[sl] \in Int
      BY <2>2 DEF TypeOK, Counts
    <3>2. q \in Seq(Kept)
      BY <3>1, AboveType
    <3> HIDE DEF q
    <3>3. \A i \in 1..Len(q) : q[i].frame \in Frames
      <4>1. \A i \in 1..Len(q) : q[i] \in Kept
        BY <3>2
      <4>2. \A k \in Kept : k.frame \in Frames
        BY DEF Kept
      <4> QED BY <4>1, <4>2
    <3>4. [i \in 1..Len(q) |-> q[i].frame] \in Seq(Frames)
      BY <3>2, <3>3
    <3> QED BY <2>2, <3>4 DEF q
  <2> QED BY <2>1, <2>2
<1> HIDE DEF again
<1>2. again("typing") \o again("screen") \o again("files") \in Seq(Frames)
  BY <1>1
<1>3. Frames \subseteq RelayMsgs
  BY DEF RelayMsgs
<1>4. \A q \in Seq(Frames) : q \in Seq(RelayMsgs)
  BY <1>3
<1>5. Resent(s, received) \in Seq(Frames)
  BY <1>2 DEF Resent, again
<1> QED BY <1>4, <1>5

\* A new hand-off is well typed (Handoff::new).
LEMMA InitType == Init => TypeOK
<1> SUFFICES ASSUME Init PROVE TypeOK
  OBVIOUS
<1>1. NoCounts \in Counts \cup {NoCounts}
  OBVIOUS
<1>2. 0 \in Nat /\ 1 \in Nat /\ "relay" \in Paths
  BY DEF Paths
<1>3. /\ path \in [Sides -> Paths] /\ attempted \in [Sides -> BOOLEAN]
      /\ switched \in [Sides -> BOOLEAN] /\ leftLink \in [Sides -> BOOLEAN]
      /\ budget \in [Sides -> BOOLEAN] /\ over \in [Sides -> BOOLEAN]
      /\ ackDue \in [Sides -> BOOLEAN] /\ peerSwitched \in [Sides -> BOOLEAN]
      /\ peerFallback \in [Sides -> Counts \cup {NoCounts}]
  BY <1>1, <1>2 DEF Init
<1>4. /\ kept \in [Sides -> [Slots -> Seq(Kept)]] /\ held \in [Sides -> [Slots -> Seq(Frames)]]
      /\ inbox \in [Sides -> [Slots -> Seq(Nat)]] /\ link \in [Sides -> [Slots -> Seq(LinkMsgs)]]
      /\ relay \in [Sides -> Seq(RelayMsgs)]
  BY DEF Init
<1>5. /\ nextNumber \in [Sides -> Counts] /\ sent \in [Sides -> Counts]
      /\ base \in [Sides -> Counts] /\ delivered \in [Sides -> Counts]
      /\ unacked \in [Sides -> Counts] /\ linkRead \in [Sides -> Counts]
      /\ read \in [Sides -> Nat]
  BY <1>2 DEF Init, Counts
<1> QED BY <1>3, <1>4, <1>5 DEF Init, TypeOK

\* What the readers of the two paths may conclude from a message's kind.
LEMMA RelayKinds ==
    /\ \A m \in RelayMsgs : m.kind = "frame" => m \in Frames
    /\ \A m \in RelayMsgs : m.kind = "fallback" => m.counts \in Counts
    /\ \A m \in LinkMsgs : m.kind = "frame" => m \in Frames
    /\ \A m \in LinkMsgs : m.kind = "ack" => m.counts \in Counts
    /\ \A m \in Frames : m.slot \in Slots /\ m.id \in Nat /\ m.len \in Sizes /\ m.kind = "frame"
BY DEF RelayMsgs, LinkMsgs, Frames, SwitchMsg, OfferMsg, RefusedMsg

\* Every message a side writes is one its peer can read.
LEMMA MessageTypes ==
    /\ SwitchMsg \in RelayMsgs /\ OfferMsg \in RelayMsgs /\ RefusedMsg \in RelayMsgs
    /\ \A c \in Counts : FallbackMsg(c) \in RelayMsgs /\ AckMsg(c) \in LinkMsgs
    /\ \A f \in Frames : f \in RelayMsgs /\ f \in LinkMsgs
    /\ \A sl \in Slots, id \in Nat, len \in Sizes : FrameMsg(sl, id, len) \in Frames
BY DEF RelayMsgs, LinkMsgs, Frames, FallbackMsg, AckMsg, FrameMsg

\* While a side hands over held frames, the slot the loop of peer_switched is at has one.
LEMMA HeldSlot ==
    ASSUME TypeOK, NEW s \in Sides, Flushing(s)
    PROVE  LET sl == IF held[s]["typing"] # <<>> THEN "typing"
                     ELSE IF held[s]["screen"] # <<>> THEN "screen" ELSE "files"
           IN  sl \in Slots /\ held[s][sl] # <<>>
<1>1. CASE Layout = "separate"
  BY <1>1 DEF Flushing, Slots, Slot, Channels
<1>2. CASE Layout = "shared"
  BY <1>2 DEF Flushing, Slots, Slot, Channels
<1> QED BY <1>1, <1>2, HandoffAssumption

\* Leaving the link keeps every variable in its type (Handoff::leave).
LEMMA LeaveType ==
    ASSUME TypeOK, NEW s \in Sides, NEW notice \in Counts \cup {NoCounts}, Leave(s, notice)
    PROVE  /\ path' \in [Sides -> Paths] /\ attempted' \in [Sides -> BOOLEAN]
           /\ switched' \in [Sides -> BOOLEAN] /\ leftLink' \in [Sides -> BOOLEAN]
           /\ budget' \in [Sides -> BOOLEAN] /\ over' \in [Sides -> BOOLEAN]
           /\ kept' \in [Sides -> [Slots -> Seq(Kept)]]
           /\ nextNumber' \in [Sides -> Counts] /\ sent' \in [Sides -> Counts]
           /\ base' \in [Sides -> Counts]
           /\ held' \in [Sides -> [Slots -> Seq(Frames)]]
           /\ delivered' \in [Sides -> Counts] /\ unacked' \in [Sides -> Counts]
           /\ ackDue' \in [Sides -> BOOLEAN]
           /\ inbox' \in [Sides -> [Slots -> Seq(Nat)]]
           /\ offer' \in {"none", "making", "made"}
           /\ linkStarted' \in BOOLEAN /\ linkDown' \in BOOLEAN
           /\ relay' \in [Sides -> Seq(RelayMsgs)]
<1> USE DEF TypeOK
<1>1. /\ attempted' \in [Sides -> BOOLEAN] /\ switched' \in [Sides -> BOOLEAN]
      /\ leftLink' \in [Sides -> BOOLEAN] /\ budget' \in [Sides -> BOOLEAN]
      /\ over' \in [Sides -> BOOLEAN] /\ ackDue' \in [Sides -> BOOLEAN]
      /\ offer' \in {"none", "making", "made"} /\ linkStarted' \in BOOLEAN
  BY DEF Leave
<1>2. linkDown' \in BOOLEAN
  BY DEF Leave, HasLink
<1>3. /\ nextNumber' \in [Sides -> Counts] /\ sent' \in [Sides -> Counts]
      /\ base' \in [Sides -> Counts] /\ delivered' \in [Sides -> Counts]
      /\ inbox' \in [Sides -> [Slots -> Seq(Nat)]]
      /\ held' \in [Sides -> [Slots -> Seq(Frames)]] /\ unacked' \in [Sides -> Counts]
  BY DEF Leave, Counts
<1>4. delivered[s] \in Counts /\ FallbackMsg(delivered[s]) \in RelayMsgs
  BY MessageTypes
<1>5. CASE path[s] = "link" /\ notice # NoCounts
  <2>1. Resent(s, notice) \in Seq(RelayMsgs)
    BY <1>5, ResentType
  <2>2. relay' = [relay EXCEPT ![s] = @ \o (<<FallbackMsg(delivered[s])>> \o Resent(s, notice))]
    BY <1>5 DEF Leave, ResendAfter, ToRelay
  <2>3. /\ kept' = [kept EXCEPT ![s] = [sl \in Slots |-> <<>>]]
        /\ path' = [path EXCEPT ![s] = "relay"]
    BY <1>5 DEF Leave, ResendAfter
  <2>4. relay' \in [Sides -> Seq(RelayMsgs)]
    BY <1>4, <2>1, <2>2
  <2>5. path' \in [Sides -> Paths] /\ kept' \in [Sides -> [Slots -> Seq(Kept)]]
    BY <2>3 DEF Paths
  <2> QED BY <1>1, <1>2, <1>3, <2>4, <2>5
<1>6. CASE ~(path[s] = "link" /\ notice # NoCounts)
  <2>1. relay' = [relay EXCEPT ![s] = @ \o <<FallbackMsg(delivered[s])>>]
    BY <1>6 DEF Leave, ToRelay
  <2>2. kept' = kept /\ (path' = path \/ path' = [path EXCEPT ![s] = "holding"])
    BY <1>6 DEF Leave
  <2>3. relay' \in [Sides -> Seq(RelayMsgs)]
    BY <1>4, <2>1
  <2>4. path' \in [Sides -> Paths] /\ kept' \in [Sides -> [Slots -> Seq(Kept)]]
    BY <2>2 DEF Paths
  <2> QED BY <1>1, <1>2, <1>3, <2>3, <2>4
<1> QED BY <1>5, <1>6

\* Every step keeps every variable in its type.
LEMMA NextType == TypeOK /\ [Next]_vars => TypeOK'
<1> SUFFICES ASSUME TypeOK, [Next]_vars PROVE TypeOK'
  OBVIOUS
<1> USE DEF TypeOK
<1>1. ASSUME NEW s \in Sides, NEW c \in Channels, NEW len \in Sizes, Send(s, c, len)
      PROVE  TypeOK'
  <2> DEFINE sl == Slot(c)
             f == FrameMsg(sl, sent[s][sl] + 1, len)
  <2>1. sl \in Slots /\ sent[s] \in Counts /\ sent[s][sl] \in Nat /\ f \in Frames
    <3>1. sl \in Slots /\ sent[s] \in Counts
      BY SlotsAreChannels
    <3> HIDE DEF sl
    <3>2. sent[s][sl] \in Nat /\ sent[s][sl] + 1 \in Nat
      BY <3>1 DEF Counts
    <3> QED BY <3>1, <3>2, MessageTypes
  <2>2. f \in RelayMsgs /\ f \in LinkMsgs
    BY <2>1, MessageTypes
  <2> HIDE DEF f, sl
  <2>3. sent' \in [Sides -> Counts]
    BY <1>1, <2>1 DEF Send, sl, Counts
  <2>4. CASE path[s] = "relay"
    <3>1. /\ relay' = [relay EXCEPT ![s] = @ \o <<f>>]
          /\ base' = [base EXCEPT ![s][sl] = IF switched[s] THEN @ ELSE @ + 1]
          /\ UNCHANGED <<kept, nextNumber, link>>
      BY <1>1, <2>4 DEF Send, ToRelay, f, sl
    <3>2. relay' \in [Sides -> Seq(RelayMsgs)]
      BY <2>2, <3>1
    <3>3. base' \in [Sides -> Counts]
      BY <2>1, <3>1 DEF Counts
    <3> QED BY <1>1, <2>3, <3>1, <3>2, <3>3 DEF Send, flags, receiving, peer, setup
  <2>5. CASE path[s] = "link"
    <3>1. /\ kept' = [kept EXCEPT ![s][sl] = Append(@, [n |-> nextNumber[s][sl], frame |-> f])]
          /\ nextNumber' = [nextNumber EXCEPT ![s][sl] = @ + 1]
          /\ link' = [link EXCEPT ![s][sl] = Append(@, f)]
          /\ UNCHANGED <<relay, base>>
      BY <1>1, <2>5 DEF Send, ToLink, f, sl
    <3>2. link' \in [Sides -> [Slots -> Seq(LinkMsgs)]]
      BY <2>1, <2>2, <3>1
    <3>3. nextNumber' \in [Sides -> Counts]
      BY <2>1, <3>1, SMTT(30) DEF Counts
    <3>4. [n |-> nextNumber[s][sl], frame |-> f] \in Kept
      BY <2>1 DEF Kept, Counts
    <3>5. kept' \in [Sides -> [Slots -> Seq(Kept)]]
      BY <2>1, <3>1, <3>4
    <3> QED BY <1>1, <2>3, <3>1, <3>2, <3>3, <3>5 DEF Send, flags, receiving, peer, setup
  <2> QED BY <1>1, <2>4, <2>5 DEF Send, CanTake
<1>2. ASSUME Attempt PROVE TypeOK'
  BY <1>2 DEF Attempt, sending, receiving, peer, wires
<1>3. ASSUME MakeOffer PROVE TypeOK'
  <2>1. "browser" \in Sides
    BY DEF Sides
  <2>2. relay' = [relay EXCEPT !["browser"] = @ \o <<OfferMsg>>] /\ offer' = "made"
    BY <1>3 DEF MakeOffer, ToRelay
  <2>3. relay' \in [Sides -> Seq(RelayMsgs)]
    BY <2>1, <2>2, MessageTypes
  <2> QED BY <1>3, <2>2, <2>3 DEF MakeOffer, flags, sending, receiving, peer
<1>4. ASSUME NEW s \in Sides, LinkOpen(s) PROVE TypeOK'
  BY <1>4, MessageTypes DEF LinkOpen, ToRelay, sending, receiving, peer, setup, Paths
<1>5. ASSUME NEW s \in Sides, LinkLost(s) PROVE TypeOK'
  <2>1. peerFallback[s] \in Counts \cup {NoCounts}
    OBVIOUS
  <2> QED BY <1>5, <2>1, LeaveType DEF LinkLost, peer
<1>6. ASSUME NEW s \in Sides, TickBudget(s) PROVE TypeOK'
  <2>1. peerFallback[s] \in Counts \cup {NoCounts}
    OBVIOUS
  <2> QED BY <1>6, <2>1, LeaveType DEF TickBudget, peer
<1>7. ASSUME NEW s \in Sides, TickHolding(s) PROVE TypeOK'
  BY <1>7 DEF TickHolding, sending, receiving, peer, setup, wires, Paths
<1>8. ASSUME NEW s \in Sides, Close(s) PROVE TypeOK'
  <2>1. linkDown' \in BOOLEAN
    BY <1>8 DEF Close, HasLink
  <2>2. over' \in [Sides -> BOOLEAN]
    BY <1>8 DEF Close
  <2>3. UNCHANGED <<path, attempted, switched, leftLink, budget, sending, receiving,
                    peer, offer, linkStarted, wires>>
    BY <1>8 DEF Close
  <2> QED BY <2>1, <2>2, <2>3 DEF sending, receiving, peer, wires
<1>9. ASSUME LinkCut PROVE TypeOK'
  BY <1>9 DEF LinkCut, flags, sending, receiving, peer, wires
<1>10. ASSUME NEW s \in Sides, NEW k, ReadRelay(s, k)
       PROVE  /\ read' \in [Sides -> Nat]
              /\ NextRelay(s) \in RelayMsgs
              /\ NextRelay(s).kind = k
  <2>1. Other(s) \in Sides /\ relay[Other(s)] \in Seq(RelayMsgs)
    BY OtherSide
  <2>2. read[s] \in Nat /\ read[s] < Len(relay[Other(s)])
    BY <1>10 DEF ReadRelay, Unread
  <2> QED BY <1>10, <2>1, <2>2 DEF ReadRelay, NextRelay
<1>11. ASSUME NEW s \in Sides, RelayFrame(s) PROVE TypeOK'
  <2>1. ReadRelay(s, "frame") /\ NextRelay(s) \in Frames
    BY <1>10, <1>11, RelayKinds DEF RelayFrame
  <2>2. inbox' \in [Sides -> [Slots -> Seq(Nat)]]
    BY <1>11, <2>1, RelayKinds DEF RelayFrame, HandOver
  <2> QED BY <1>10, <1>11, <2>1, <2>2 DEF RelayFrame, flags, sending, peer, setup
<1>12. ASSUME NEW s \in Sides, RelaySwitch(s) PROVE TypeOK'
  <2>1. read' \in [Sides -> Nat]
    BY <1>10, <1>12 DEF RelaySwitch
  <2>2. peerSwitched' \in [Sides -> BOOLEAN] /\ budget' \in [Sides -> BOOLEAN]
    BY <1>12 DEF RelaySwitch
  <2> QED BY <1>12, <2>1, <2>2 DEF RelaySwitch, sending, receiving, setup
<1>13. ASSUME NEW s \in Sides, RelayFallback(s) PROVE TypeOK'
  <2> DEFINE received == NextRelay(s).counts
  <2>1. ReadRelay(s, "fallback") /\ read' \in [Sides -> Nat]
    BY <1>10, <1>13 DEF RelayFallback
  <2>2. received \in Counts
    BY <1>10, <2>1, RelayKinds
  <2> HIDE DEF received
  <2>3. peerFallback' \in [Sides -> Counts \cup {NoCounts}] /\ UNCHANGED <<peerSwitched, link, linkRead>>
    BY <1>13, <2>2 DEF RelayFallback, received
  <2>4. CASE ~leftLink[s]
    <3>1. Leave(s, received)
      BY <1>13, <2>4 DEF RelayFallback, received
    <3> QED BY <2>1, <2>2, <2>3, <3>1, LeaveType
  <2>5. CASE leftLink[s] /\ path[s] = "holding"
    <3>1. Resent(s, received) \in Seq(RelayMsgs) /\ relay[s] \in Seq(RelayMsgs)
      BY <2>2, ResentType
    <3>2. /\ relay' = [relay EXCEPT ![s] = @ \o (<<>> \o Resent(s, received))]
          /\ kept' = [kept EXCEPT ![s] = [sl \in Slots |-> <<>>]]
          /\ path' = [path EXCEPT ![s] = "relay"]
      BY <1>13, <2>5 DEF RelayFallback, ResendAfter, ToRelay, received
    <3>3. relay' \in [Sides -> Seq(RelayMsgs)]
      BY <3>1, <3>2
    <3>4. path' \in [Sides -> Paths] /\ kept' \in [Sides -> [Slots -> Seq(Kept)]]
      BY <3>2 DEF Paths
    <3>5. UNCHANGED <<attempted, switched, leftLink, budget, over, nextNumber, sent, base,
                      receiving, setup>>
      BY <1>13, <2>5 DEF RelayFallback
    <3> QED BY <2>1, <2>3, <3>3, <3>4, <3>5 DEF receiving, setup
  <2>6. CASE leftLink[s] /\ path[s] # "holding"
    <3>1. UNCHANGED <<flags, sending, receiving, setup, relay>>
      BY <1>13, <2>6 DEF RelayFallback
    <3> QED BY <2>1, <2>3, <3>1 DEF flags, sending, receiving, setup
  <2> QED BY <2>4, <2>5, <2>6
<1>14. ASSUME RelayOffer PROVE TypeOK'
  <2>1. "host" \in Sides
    BY DEF Sides
  <2>2. read' \in [Sides -> Nat]
    BY <1>10, <1>14, <2>1 DEF RelayOffer
  <2>3. /\ relay' \in [Sides -> Seq(RelayMsgs)] /\ attempted' \in [Sides -> BOOLEAN]
        /\ budget' \in [Sides -> BOOLEAN] /\ linkStarted' \in BOOLEAN
    <3>1. CASE attempted["host"]
      <4>1. /\ relay' = [relay EXCEPT !["host"] = @ \o <<RefusedMsg>>]
            /\ UNCHANGED <<attempted, budget, linkStarted>>
        BY <1>14, <3>1 DEF RelayOffer, ToRelay
      <4> QED BY <2>1, <4>1, MessageTypes
    <3>2. CASE ~attempted["host"]
      <4>1. /\ attempted' = [attempted EXCEPT !["host"] = TRUE]
            /\ budget' = [budget EXCEPT !["host"] = TRUE]
            /\ linkStarted' = TRUE /\ relay' = relay
        BY <1>14, <3>2 DEF RelayOffer
      <4> QED BY <2>1, <4>1
    <3> QED BY <3>1, <3>2
  <2> QED BY <1>14, <2>2, <2>3 DEF RelayOffer, sending, receiving, peer
<1>15. ASSUME RelayRefused PROVE TypeOK'
  <2>1. "browser" \in Sides
    BY DEF Sides
  <2>2. read' \in [Sides -> Nat]
    BY <1>10, <1>15, <2>1 DEF RelayRefused
  <2>3. CASE leftLink["browser"]
    BY <1>15, <2>2, <2>3 DEF RelayRefused, flags, sending, receiving, setup, peer
  <2>4. CASE ~leftLink["browser"]
    <3>1. Leave("browser", peerFallback["browser"]) /\ UNCHANGED <<peer, link, linkRead>>
      BY <1>15, <2>4 DEF RelayRefused
    <3>2. peerFallback["browser"] \in Counts \cup {NoCounts}
      BY <2>1
    <3> QED BY <2>1, <2>2, <3>1, <3>2, LeaveType DEF peer
  <2> QED BY <2>3, <2>4
<1>16. ASSUME NEW s \in Sides, NEW sl \in Slots, ReadLink(s, sl)
       PROVE  linkRead' \in [Sides -> Counts] /\ NextLink(s, sl) \in LinkMsgs
  <2>1. Other(s) \in Sides /\ link[Other(s)][sl] \in Seq(LinkMsgs)
    BY OtherSide
  <2>2. linkRead[s] \in Counts /\ linkRead[s][sl] \in Nat
    BY DEF Counts
  <2>3. NextLink(s, sl) \in LinkMsgs
    BY <1>16, <2>1, <2>2 DEF ReadLink, NextLink
  <2>4. linkRead' = [linkRead EXCEPT ![s][sl] = @ + 1]
    BY <1>16 DEF ReadLink
  <2>5. linkRead' \in [Sides -> Counts]
    BY <2>2, <2>4 DEF Counts
  <2> QED BY <2>3, <2>5
<1>17. ASSUME NEW s \in Sides, LinkAck(s) PROVE TypeOK'
  <2> DEFINE received == NextLink(s, "typing").counts
  <2>1. ReadLink(s, "typing") /\ linkRead' \in [Sides -> Counts] /\ received \in Counts
    BY <1>16, <1>17, RelayKinds, SlotsAreChannels DEF LinkAck
  <2> HIDE DEF received
  <2>2. kept' = [kept EXCEPT ![s] = [sl \in Slots |-> Above(@[sl], received[sl])]]
    BY <1>17 DEF LinkAck, received
  <2>3. \A sl \in Slots : Above(kept[s][sl], received[sl]) \in Seq(Kept)
    BY <2>1, AboveType DEF Counts
  <2>4. kept' \in [Sides -> [Slots -> Seq(Kept)]]
    BY <2>2, <2>3
  <2> QED BY <1>17, <2>1, <2>4 DEF LinkAck, flags, receiving, peer, setup
<1>18. ASSUME NEW s \in Sides, NEW counts \in Counts, Confirm(s, counts)
       PROVE  /\ unacked' \in [Sides -> Counts] /\ ackDue' \in [Sides -> BOOLEAN]
              /\ link' \in [Sides -> [Slots -> Seq(LinkMsgs)]]
  <2>1. "typing" \in Slots /\ AckMsg(counts) \in LinkMsgs
    BY SlotsAreChannels, MessageTypes
  <2>2. link' \in [Sides -> [Slots -> Seq(LinkMsgs)]]
    BY <1>18, <2>1 DEF Confirm, ToLink
  <2> QED BY <1>18, <2>2 DEF Confirm, Counts
<1>19. ASSUME NEW s \in Sides, TickAck(s) PROVE TypeOK'
  <2>1. delivered[s] \in Counts
    OBVIOUS
  <2>2. /\ unacked' \in [Sides -> Counts] /\ ackDue' \in [Sides -> BOOLEAN]
        /\ link' \in [Sides -> [Slots -> Seq(LinkMsgs)]]
    BY <1>18, <1>19, <2>1 DEF TickAck
  <2> QED BY <1>19, <2>2 DEF TickAck, flags, sending, peer, setup
<1>20. ASSUME NEW s \in Sides, NEW f \in Frames, DeliverLink(s, f)
       PROVE  /\ delivered' \in [Sides -> Counts] /\ unacked' \in [Sides -> Counts]
              /\ ackDue' \in [Sides -> BOOLEAN]
              /\ inbox' \in [Sides -> [Slots -> Seq(Nat)]]
              /\ link' \in [Sides -> [Slots -> Seq(LinkMsgs)]]
  <2> DEFINE counts == [delivered[s] EXCEPT ![f.slot] = @ + 1]
  <2>1. f.slot \in Slots /\ f.id \in Nat /\ f.len \in Nat
    BY RelayKinds, HandoffAssumption
  <2>2. counts \in Counts
    BY <2>1, SMTT(30) DEF Counts
  <2>3. delivered' \in [Sides -> Counts]
    BY <1>20, <2>2 DEF DeliverLink
  <2>4. inbox' \in [Sides -> [Slots -> Seq(Nat)]]
    BY <1>20, <2>1 DEF DeliverLink, HandOver
  <2>5. unacked[s][f.slot] \in Nat
    BY <2>1 DEF Counts
  <2> HIDE DEF counts
  <2>6. CASE Confirm(s, counts)
    BY <1>18, <2>2, <2>3, <2>4, <2>6
  <2>7. CASE ~Confirm(s, counts)
    <3>1. /\ unacked' = [unacked EXCEPT ![s][f.slot] = unacked[s][f.slot] + f.len]
          /\ ackDue' = [ackDue EXCEPT ![s] = TRUE] /\ UNCHANGED link
      BY <1>20, <2>7 DEF DeliverLink, counts
    <3> DEFINE n == unacked[s][f.slot] + f.len
    <3>2. n \in Nat /\ unacked' = [unacked EXCEPT ![s][f.slot] = n]
      BY <2>1, <2>5, <3>1
    <3> HIDE DEF n
    <3>3. unacked \in [Sides -> [Slots -> Nat]]
      BY DEF Counts
    <3>4. unacked' \in [Sides -> [Slots -> Nat]]
      BY <2>1, <3>2, <3>3
    <3> QED BY <2>3, <2>4, <3>1, <3>4 DEF Counts
  <2> QED BY <2>6, <2>7
<1>21. ASSUME NEW s \in Sides, NEW sl \in Slots, LinkAhead(s, sl) PROVE TypeOK'
  <2>1. linkRead' \in [Sides -> Counts] /\ NextLink(s, sl) \in Frames
    BY <1>16, <1>21, RelayKinds DEF LinkAhead
  <2>2. UNCHANGED <<peer, read, link>>
    BY <1>21 DEF LinkAhead
  <2>3. CASE HeldBytes(s) + NextLink(s, sl).len > HeldLimit
    <3>1. Leave(s, peerFallback[s]) /\ peerFallback[s] \in Counts \cup {NoCounts}
      BY <1>21, <2>3 DEF LinkAhead
    <3> QED BY <2>1, <2>2, <3>1, LeaveType DEF peer
  <2>4. CASE ~(HeldBytes(s) + NextLink(s, sl).len > HeldLimit)
    <3>1. /\ held' = [held EXCEPT ![s][sl] = Append(@, NextLink(s, sl))]
          /\ UNCHANGED <<flags, sending, delivered, unacked, ackDue, inbox, setup, relay>>
      BY <1>21, <2>4 DEF LinkAhead
    <3>2. held' \in [Sides -> [Slots -> Seq(Frames)]]
      BY <2>1, <3>1
    <3> QED BY <2>1, <2>2, <3>1, <3>2 DEF flags, sending, setup, peer
  <2> QED BY <2>3, <2>4
<1>22. ASSUME NEW s \in Sides, NEW sl \in Slots, LinkFrame(s, sl) PROVE TypeOK'
  <2>1. linkRead' \in [Sides -> Counts] /\ NextLink(s, sl) \in Frames
    BY <1>16, <1>22, RelayKinds DEF LinkFrame
  <2>2. DeliverLink(s, NextLink(s, sl)) /\ UNCHANGED <<flags, sending, held, peer, setup, relay, read>>
    BY <1>22 DEF LinkFrame
  <2> QED BY <1>20, <2>1, <2>2 DEF flags, sending, peer, setup
<1>23. ASSUME NEW s \in Sides, DeliverHeld(s) PROVE TypeOK'
  <2> DEFINE sl == IF held[s]["typing"] # <<>> THEN "typing"
                   ELSE IF held[s]["screen"] # <<>> THEN "screen" ELSE "files"
  <2>1. sl \in Slots /\ held[s][sl] # <<>>
    BY <1>23, HeldSlot DEF DeliverHeld
  <2>2. /\ DeliverLink(s, Head(held[s][sl])) /\ held' = [held EXCEPT ![s][sl] = Tail(@)]
        /\ UNCHANGED <<flags, sending, peer, setup, relay, read, linkRead>>
    BY <1>23 DEF DeliverHeld
  <2> HIDE DEF sl
  <2>3. Head(held[s][sl]) \in Frames /\ held' \in [Sides -> [Slots -> Seq(Frames)]]
    BY <2>1, <2>2
  <2> QED BY <1>20, <2>2, <2>3 DEF flags, sending, peer, setup
<1>24. CASE UNCHANGED vars
  BY <1>24 DEF vars, flags, sending, receiving, peer, setup, wires
<1>25. CASE Next
  BY <1>25, <1>1, <1>2, <1>3, <1>4, <1>5, <1>6, <1>7, <1>8, <1>9, <1>11, <1>12, <1>13, <1>14,
     <1>15, <1>17, <1>19, <1>21, <1>22, <1>23 DEF Next, FromRelay, FromLink
<1> QED BY <1>24, <1>25

\* Every variable keeps its type along every behaviour of the two sides.
THEOREM TypeCorrect == Spec => []TypeOK
BY InitType, NextType, PTL DEF Spec

\* Leaving takes a side off the link, to hold or to the relay, and never onto it.
LEMMA LeavePath ==
    ASSUME TypeOK, NEW s \in Sides, NEW notice, Leave(s, notice)
    PROVE  \A t \in Sides : PathStep(t)
<1> TAKE t \in Sides
<1>1. CASE t # s
  <2>1. path'[t] = path[t]
    BY <1>1 DEF Leave, ResendAfter, TypeOK
  <2> QED BY <2>1 DEF PathStep
<1>2. CASE t = s
  <2>1. leftLink'[s]
    BY DEF Leave, TypeOK
  <2>2. path'[s] = path[s] \/ (path[s] = "link" /\ path'[s] \in {"holding", "relay"})
    BY DEF Leave, ResendAfter, TypeOK
  <2> QED BY <1>2, <2>1, <2>2 DEF PathStep
<1> QED BY <1>1, <1>2

\* A session changes path at most twice, for every value of the constants: onto the link
\* once, off it for good (link_open, leave, peer_fell_back, tick).
THEOREM PathMovesTwiceHolds == Spec => PathMovesTwice
<1>1. TypeOK /\ [Next]_vars => [\A s \in Sides : PathStep(s)]_vars
  <2> SUFFICES ASSUME TypeOK, Next PROVE \A s \in Sides : PathStep(s)
    OBVIOUS
  <2>1. CASE path' = path
    BY <2>1 DEF PathStep
  <2>2. ASSUME NEW s \in Sides, NEW notice, Leave(s, notice)
        PROVE  \A t \in Sides : PathStep(t)
    BY <2>2, LeavePath
  <2>3. ASSUME NEW s \in Sides, LinkOpen(s)
        PROVE  \A t \in Sides : PathStep(t)
    BY <2>3 DEF LinkOpen, PathStep, TypeOK
  <2>4. ASSUME NEW s \in Sides, TickHolding(s)
        PROVE  \A t \in Sides : PathStep(t)
    BY <2>4 DEF TickHolding, PathStep, TypeOK
  <2>5. ASSUME NEW s \in Sides, RelayFallback(s)
        PROVE  \A t \in Sides : PathStep(t)
    <3>1. PICK r : r = NextRelay(s).counts
      OBVIOUS
    <3>2. CASE Leave(s, r)
      BY <3>2, LeavePath
    <3>3. CASE ~Leave(s, r)
      <4>1. path' = path \/ (path[s] = "holding" /\ path' = [path EXCEPT ![s] = "relay"])
        BY <2>5, <3>1, <3>3 DEF RelayFallback, ResendAfter, flags
      <4> QED BY <4>1 DEF PathStep, TypeOK
    <3> QED BY <3>2, <3>3
  <2>6. ASSUME NEW s \in Sides, Leave(s, peerFallback[s])
        PROVE  \A t \in Sides : PathStep(t)
    <3>1. PICK r : r = peerFallback[s]
      OBVIOUS
    <3> QED BY <2>6, <3>1, LeavePath
  <2>7. ASSUME NEW s \in Sides, LinkLost(s) \/ TickBudget(s) \/ (s = "browser" /\ RelayRefused)
               \/ \E sl \in Slots : LinkAhead(s, sl)
        PROVE  \A t \in Sides : PathStep(t)
    BY <2>1, <2>6, <2>7 DEF LinkLost, TickBudget, RelayRefused, LinkAhead, flags
  <2>8. CASE Attempt \/ MakeOffer \/ LinkCut
    BY <2>1, <2>8 DEF Attempt, MakeOffer, LinkCut, flags
  <2>9. ASSUME NEW s \in Sides,
               \/ \E c \in Channels, len \in Sizes : Send(s, c, len)
               \/ RelayFrame(s) \/ RelaySwitch(s) \/ RelayOffer
               \/ LinkAck(s) \/ \E sl \in Slots : LinkFrame(s, sl)
               \/ DeliverHeld(s) \/ TickAck(s) \/ Close(s)
        PROVE  \A t \in Sides : PathStep(t)
    BY <2>1, <2>9 DEF Send, RelayFrame, RelaySwitch, RelayOffer, LinkAck, LinkFrame, DeliverHeld,
                      TickAck, Close, flags
  <2> QED BY <2>3, <2>4, <2>5, <2>7, <2>8, <2>9 DEF Next, FromRelay, FromLink
<1>2. Spec => []TypeOK
  BY TypeCorrect
<1> QED BY <1>1, <1>2, PTL DEF Spec, PathMovesTwice

\* What makes the budget safe: a link that opened was offered and taken, so both sides have
\* made their one attempt and neither arms its budget again.
AttemptOnce ==
    /\ offer # "none" => attempted["browser"]
    /\ \A i \in 1..Len(relay["browser"]) : relay["browser"][i].kind = "offer" => offer # "none"
    /\ linkStarted => offer # "none" /\ attempted["host"]
    /\ \A s \in Sides : switched[s] => linkStarted

\* A step that starts no link and arms no budget; the browser writes q, which holds no offer.
Calm(q) ==
    /\ attempted' = attempted \/ \E s \in Sides : attempted' = [attempted EXCEPT ![s] = TRUE]
    /\ offer' = offer /\ linkStarted' = linkStarted
    /\ q \in Seq(RelayMsgs) /\ \A i \in 1..Len(q) : q[i].kind # "offer"
    /\ relay'["browser"] = relay["browser"] \o q
    /\ \A s \in Sides : /\ switched'[s] => linkStarted
                        /\ budget'[s] => budget[s] /\ ~(switched'[s] /\ peerSwitched'[s])

\* Such a step keeps both.
LEMMA CalmStep ==
    ASSUME TypeOK, AttemptOnce, BudgetNeverDropsDirect, NEW q, Calm(q)
    PROVE  AttemptOnce' /\ BudgetNeverDropsDirect'
<1> USE DEF Calm
<1>1. relay["browser"] \in Seq(RelayMsgs)
  BY DEF TypeOK, Sides
<1>2. \A i \in 1..Len(relay'["browser"]) : relay'["browser"][i].kind = "offer" => offer' # "none"
  <2> TAKE i \in 1..Len(relay'["browser"])
  <2>1. CASE i \in 1..Len(relay["browser"])
    BY <1>1, <2>1 DEF AttemptOnce
  <2>2. CASE i \notin 1..Len(relay["browser"])
    <3>1. i - Len(relay["browser"]) \in 1..Len(q) /\ relay'["browser"][i] = q[i - Len(relay["browser"])]
      BY <1>1, <2>2
    <3> QED BY <3>1
  <2> QED BY <2>1, <2>2
<1>3. /\ attempted["browser"] => attempted'["browser"]
      /\ attempted["host"] => attempted'["host"]
  BY DEF TypeOK, Sides
<1> QED BY <1>2, <1>3 DEF AttemptOnce, BudgetNeverDropsDirect

\* A step that leaves the flags of both sides alone, or only clears a budget.
LEMMA StillCalm ==
    ASSUME TypeOK, AttemptOnce, BudgetNeverDropsDirect,
           attempted' = attempted \/ \E s \in Sides : attempted' = [attempted EXCEPT ![s] = TRUE],
           UNCHANGED <<switched, peerSwitched, offer, linkStarted>>,
           budget' = budget \/ \E s \in Sides : budget' = [budget EXCEPT ![s] = FALSE],
           NEW q, q \in Seq(RelayMsgs), \A i \in 1..Len(q) : q[i].kind # "offer",
           relay'["browser"] = relay["browser"] \o q
    PROVE  AttemptOnce' /\ BudgetNeverDropsDirect'
<1>1. \A s \in Sides : budget'[s] => budget[s]
  BY DEF TypeOK
<1>2. \A s \in Sides : /\ switched'[s] => linkStarted
                       /\ budget'[s] => budget[s] /\ ~(switched'[s] /\ peerSwitched'[s])
  BY <1>1 DEF AttemptOnce, BudgetNeverDropsDirect
<1>3. Calm(q)
  BY <1>2 DEF Calm
<1> QED BY <1>3, CalmStep

\* Leaving the link arms nothing.
LEMMA LeaveCalm ==
    ASSUME TypeOK, AttemptOnce, BudgetNeverDropsDirect, NEW s \in Sides,
           NEW notice \in Counts \cup {NoCounts}, Leave(s, notice), peerSwitched' = peerSwitched
    PROVE  AttemptOnce' /\ BudgetNeverDropsDirect'
<1>1. PICK m : m = FallbackMsg(delivered[s])
  OBVIOUS
<1>2. m \in RelayMsgs /\ m.kind = "fallback"
  <2>1. delivered[s] \in Counts
    BY DEF TypeOK
  <2> QED BY <1>1, <2>1, MessageTypes DEF FallbackMsg
<1>3. PICK q \in Seq(RelayMsgs) : /\ \A i \in 1..Len(q) : q[i].kind # "offer"
                                  /\ relay' = [relay EXCEPT ![s] = @ \o q]
  <2>1. CASE path[s] = "link" /\ notice # NoCounts
    <3>1. PICK r : r = Resent(s, notice)
      OBVIOUS
    <3>2. r \in Seq(Frames) /\ r \in Seq(RelayMsgs)
      BY <2>1, <3>1, ResentType
    <3>3. relay' = [relay EXCEPT ![s] = @ \o (<<m>> \o r)]
      BY <1>1, <2>1, <3>1 DEF Leave, ResendAfter, ToRelay
    <3>4. \A i \in 1..Len(<<m>> \o r) : (<<m>> \o r)[i].kind # "offer"
      <4> TAKE i \in 1..Len(<<m>> \o r)
      <4>1. CASE i = 1
        BY <1>2, <3>2, <4>1
      <4>2. CASE i # 1
        <5>1. i - 1 \in 1..Len(r) /\ (<<m>> \o r)[i] = r[i - 1]
          BY <3>2, <4>2
        <5>2. r[i - 1] \in Frames
          BY <3>2, <5>1
        <5> QED BY <5>1, <5>2, RelayKinds
      <4> QED BY <4>1, <4>2
    <3>5. <<m>> \o r \in Seq(RelayMsgs)
      BY <1>2, <3>2
    <3> QED BY <3>3, <3>4, <3>5
  <2>2. CASE ~(path[s] = "link" /\ notice # NoCounts)
    <3>1. relay' = [relay EXCEPT ![s] = @ \o <<m>>]
      BY <1>1, <2>2 DEF Leave, ToRelay
    <3>2. <<m>> \in Seq(RelayMsgs) /\ \A i \in 1..Len(<<m>>) : <<m>>[i].kind # "offer"
      BY <1>2
    <3> QED BY <3>1, <3>2
  <2> QED BY <2>1, <2>2
<1>4. /\ attempted' = [attempted EXCEPT ![s] = TRUE] /\ budget' = [budget EXCEPT ![s] = FALSE]
      /\ UNCHANGED <<switched, offer, linkStarted>>
  BY DEF Leave
<1>5. CASE s = "browser"
  <2>1. relay'["browser"] = relay["browser"] \o q
    BY <1>3, <1>5 DEF TypeOK
  <2> QED BY <1>3, <1>4, <2>1, StillCalm
<1>6. CASE s # "browser"
  <2>1. relay["browser"] \in Seq(RelayMsgs) /\ relay'["browser"] = relay["browser"]
    BY <1>3, <1>6 DEF TypeOK, Sides
  <2>2. relay'["browser"] = relay["browser"] \o <<>> /\ <<>> \in Seq(RelayMsgs) /\ \A i \in 1..Len(<<>>) : <<>>[i].kind # "offer"
    BY <2>1
  <2> QED BY <1>4, <2>2, StillCalm
<1> QED BY <1>5, <1>6

\* A step under which the browser writes nothing to the relay.
LEMMA WordlessCalm ==
    ASSUME TypeOK, AttemptOnce, BudgetNeverDropsDirect,
           attempted' = attempted,
           UNCHANGED <<switched, peerSwitched, budget, offer, linkStarted>>,
           relay'["browser"] = relay["browser"]
    PROVE  AttemptOnce' /\ BudgetNeverDropsDirect'
<1>1. relay["browser"] \in Seq(RelayMsgs)
  BY DEF TypeOK, Sides
<1>2. /\ relay'["browser"] = relay["browser"] \o <<>> /\ <<>> \in Seq(RelayMsgs)
      /\ \A i \in 1..Len(<<>>) : <<>>[i].kind # "offer"
  BY <1>1
<1> QED BY <1>2, StillCalm

\* Every step keeps the budget away from a link that carries both directions.
LEMMA BudgetStep ==
    TypeOK /\ AttemptOnce /\ BudgetNeverDropsDirect /\ [Next]_vars => AttemptOnce' /\ BudgetNeverDropsDirect'
<1> SUFFICES ASSUME TypeOK, AttemptOnce, BudgetNeverDropsDirect, [Next]_vars
             PROVE  AttemptOnce' /\ BudgetNeverDropsDirect'
  OBVIOUS
<1> DEFINE Both == AttemptOnce' /\ BudgetNeverDropsDirect'
<1>0. "browser" \in Sides /\ "host" \in Sides /\ Other("host") = "browser" /\ relay["browser"] \in Seq(RelayMsgs)
  BY DEF Sides, Other, TypeOK
<1>1. CASE Attempt
  <2>1. /\ ~attempted["browser"] /\ offer = "none" /\ offer' = "making"
        /\ attempted' = [attempted EXCEPT !["browser"] = TRUE]
        /\ budget' = [budget EXCEPT !["browser"] = TRUE]
        /\ UNCHANGED <<switched, peerSwitched, linkStarted, relay>>
    BY <1>1 DEF Attempt, peer, wires
  <2>2. ~linkStarted /\ ~switched["browser"] /\ ~switched["host"]
    BY <1>0, <2>1 DEF AttemptOnce
  <2>3. attempted'["browser"] /\ ~linkStarted' /\ \A s \in Sides : ~switched'[s]
    BY <1>0, <2>1, <2>2 DEF TypeOK, Sides
  <2> QED BY <2>1, <2>3 DEF AttemptOnce, BudgetNeverDropsDirect
<1>2. CASE MakeOffer
  <2>1. /\ offer = "making" /\ offer' = "made"
        /\ UNCHANGED <<attempted, budget, switched, peerSwitched, linkStarted>>
    BY <1>2 DEF MakeOffer, flags, peer
  <2> QED BY <2>1 DEF AttemptOnce, BudgetNeverDropsDirect
<1>3. CASE RelayOffer
  <2>1. CASE attempted["host"]
    <3>1. /\ UNCHANGED <<attempted, budget, switched, peerSwitched, offer, linkStarted>>
          /\ relay' = [relay EXCEPT !["host"] = @ \o <<RefusedMsg>>]
      BY <1>3, <2>1 DEF RelayOffer, ToRelay, peer
    <3>2. relay'["browser"] = relay["browser"]
      BY <1>0, <3>1 DEF TypeOK
    <3> QED BY <3>1, <3>2, WordlessCalm
  <2>2. CASE ~attempted["host"]
    <3>1. /\ attempted' = [attempted EXCEPT !["host"] = TRUE] /\ linkStarted' = TRUE
          /\ UNCHANGED <<switched, peerSwitched, offer, relay>>
          /\ read["host"] < Len(relay["browser"]) /\ relay["browser"][read["host"] + 1].kind = "offer"
      BY <1>0, <1>3, <2>2 DEF RelayOffer, ReadRelay, Unread, NextRelay, peer
    <3>2. read["host"] + 1 \in 1..Len(relay["browser"])
      BY <1>0, <3>1 DEF TypeOK
    <3>3. offer # "none" /\ \A s \in Sides : ~switched[s]
      BY <2>2, <3>1, <3>2 DEF AttemptOnce
    <3>4. attempted'["host"] /\ attempted'["browser"] = attempted["browser"]
      BY <1>0, <3>1 DEF TypeOK
    <3> QED BY <3>1, <3>3, <3>4 DEF AttemptOnce, BudgetNeverDropsDirect
  <2> QED BY <2>1, <2>2
<1>4. ASSUME NEW s \in Sides, LinkOpen(s)
      PROVE  Both
  <2>1. /\ linkStarted /\ switched' = [switched EXCEPT ![s] = TRUE]
        /\ budget' = [budget EXCEPT ![s] = @ /\ ~peerSwitched[s]]
        /\ relay' = [relay EXCEPT ![s] = @ \o <<SwitchMsg>>]
        /\ UNCHANGED <<attempted, peerSwitched, offer, linkStarted>>
    BY <1>4 DEF LinkOpen, ToRelay, peer, setup
  <2>2. PICK q \in Seq(RelayMsgs) : /\ relay'["browser"] = relay["browser"] \o q
                                    /\ \A i \in 1..Len(q) : q[i].kind # "offer"
    <3>1. CASE s = "browser"
      <4>1. <<SwitchMsg>> \in Seq(RelayMsgs) /\ \A i \in 1..Len(<<SwitchMsg>>) : <<SwitchMsg>>[i].kind # "offer"
        BY MessageTypes DEF SwitchMsg
      <4>2. relay'["browser"] = relay["browser"] \o <<SwitchMsg>>
        BY <2>1, <3>1 DEF TypeOK
      <4> QED BY <4>1, <4>2
    <3>2. CASE s # "browser"
      <4>1. relay'["browser"] = relay["browser"] \o <<>>
        BY <1>0, <2>1, <3>2 DEF TypeOK
      <4>2. <<>> \in Seq(RelayMsgs) /\ \A i \in 1..Len(<<>>) : <<>>[i].kind # "offer"
        OBVIOUS
      <4> QED BY <4>1, <4>2
    <3> QED BY <3>1, <3>2
  <2>3. \A t \in Sides : budget'[t] => budget[t] /\ ~(switched'[t] /\ peerSwitched'[t])
    <3> TAKE t \in Sides
    <3>1. CASE t = s
      <4>1. budget'[s] = (budget[s] /\ ~peerSwitched[s])
        BY <2>1 DEF TypeOK
      <4> QED BY <2>1, <3>1, <4>1
    <3>2. CASE t # s
      <4>1. budget'[t] = budget[t] /\ switched'[t] = switched[t]
        BY <2>1, <3>2 DEF TypeOK
      <4> QED BY <2>1, <4>1 DEF BudgetNeverDropsDirect
    <3> QED BY <3>1, <3>2
  <2>4. Calm(q)
    BY <2>1, <2>2, <2>3 DEF Calm
  <2> QED BY <2>4, CalmStep
<1>5. ASSUME NEW s \in Sides, RelaySwitch(s)
      PROVE  Both
  <2>1. UNCHANGED <<attempted, switched, offer, linkStarted, relay>>
    BY <1>5 DEF RelaySwitch, setup
  <2>2. \A t \in Sides : budget'[t] => budget[t] /\ ~(switched'[t] /\ peerSwitched'[t])
    <3> TAKE t \in Sides
    <3>1. CASE peerSwitched' = peerSwitched /\ budget' = budget
      BY <2>1, <3>1 DEF BudgetNeverDropsDirect
    <3>2. CASE ~(peerSwitched' = peerSwitched /\ budget' = budget)
      <4>1. /\ peerSwitched' = [peerSwitched EXCEPT ![s] = TRUE]
            /\ budget' = [budget EXCEPT ![s] = @ /\ ~switched[s]]
        BY <1>5, <3>2 DEF RelaySwitch
      <4>2. CASE t = s
        <5>1. budget'[s] = (budget[s] /\ ~switched[s])
          BY <4>1 DEF TypeOK
        <5> QED BY <2>1, <4>2, <5>1
      <4>3. CASE t # s
        <5>1. budget'[t] = budget[t] /\ peerSwitched'[t] = peerSwitched[t]
          BY <4>1, <4>3 DEF TypeOK
        <5> QED BY <2>1, <5>1 DEF BudgetNeverDropsDirect
      <4> QED BY <4>2, <4>3
    <3> QED BY <3>1, <3>2
  <2>3. relay'["browser"] = relay["browser"] \o <<>> /\ <<>> \in Seq(RelayMsgs) /\ \A i \in 1..Len(<<>>) : <<>>[i].kind # "offer"
    BY <1>0, <2>1
  <2>4. Calm(<<>>)
    BY <2>1, <2>2, <2>3 DEF Calm, AttemptOnce
  <2> QED BY <2>4, CalmStep
<1>6. ASSUME NEW s \in Sides, NEW c \in Channels, NEW len \in Sizes, Send(s, c, len)
      PROVE  Both
  <2>1. UNCHANGED <<attempted, switched, budget, peerSwitched, offer, linkStarted>>
    BY <1>6 DEF Send, flags, peer, setup
  <2>2. PICK f : f = FrameMsg(Slot(c), sent[s][Slot(c)] + 1, len)
    OBVIOUS
  <2>3. f \in RelayMsgs /\ f.kind # "offer"
    <3>1. Slot(c) \in Slots
      BY SlotsAreChannels
    <3>2. sent[s][Slot(c)] + 1 \in Nat
      BY <3>1 DEF TypeOK, Counts
    <3> QED BY <2>2, <3>1, <3>2, MessageTypes DEF FrameMsg
  <2>4. relay' = relay \/ relay' = [relay EXCEPT ![s] = @ \o <<f>>]
    BY <1>6, <2>2 DEF Send, ToRelay
  <2>5. CASE relay'["browser"] = relay["browser"]
    BY <2>1, <2>5, WordlessCalm
  <2>6. CASE relay'["browser"] # relay["browser"]
    <3>1. relay'["browser"] = relay["browser"] \o <<f>>
      BY <1>0, <2>4, <2>6, ZenonT(40) DEF TypeOK
    <3>2. <<f>> \in Seq(RelayMsgs) /\ \A i \in 1..Len(<<f>>) : <<f>>[i].kind # "offer"
      BY <2>3
    <3> QED BY <2>1, <3>1, <3>2, StillCalm
  <2> QED BY <2>5, <2>6
<1>7. ASSUME NEW s \in Sides, Leave(s, peerFallback[s]), peerSwitched' = peerSwitched
      PROVE  Both
  <2>1. PICK r \in Counts \cup {NoCounts} : r = peerFallback[s]
    BY DEF TypeOK
  <2> QED BY <1>7, <2>1, LeaveCalm
<1>8. ASSUME NEW s \in Sides, RelayFallback(s)
      PROVE  Both
  <2>1. PICK r : r = NextRelay(s).counts
    OBVIOUS
  <2>2. r \in Counts
    <3>1. /\ read[s] < Len(relay[Other(s)]) /\ read[s] \in Nat /\ relay[Other(s)] \in Seq(RelayMsgs)
          /\ NextRelay(s).kind = "fallback"
      BY <1>8, OtherSide DEF RelayFallback, ReadRelay, Unread, TypeOK
    <3>2. NextRelay(s) \in RelayMsgs
      BY <3>1 DEF NextRelay
    <3> QED BY <2>1, <3>1, <3>2, RelayKinds
  <2>3. peerSwitched' = peerSwitched
    BY <1>8 DEF RelayFallback
  <2>4. CASE Leave(s, r)
    BY <2>2, <2>3, <2>4, LeaveCalm
  <2>5. CASE ~Leave(s, r)
    <3>1. /\ UNCHANGED <<attempted, switched, budget, offer, linkStarted>>
          /\ relay' = relay \/ relay' = [relay EXCEPT ![s] = @ \o (<<>> \o Resent(s, r))]
      BY <1>8, <2>1, <2>5 DEF RelayFallback, ResendAfter, ToRelay, flags, setup
    <3>2. PICK q : q = Resent(s, r)
      OBVIOUS
    <3>3. q \in Seq(Frames) /\ q \in Seq(RelayMsgs)
      BY <2>2, <3>2, ResentType
    <3>4. <<>> \o q = q /\ \A i \in 1..Len(q) : q[i] \in Frames
      BY <3>3
    <3>5. \A i \in 1..Len(q) : q[i].kind # "offer"
      BY <3>4, RelayKinds
    <3>6. CASE relay'["browser"] = relay["browser"]
      BY <2>3, <3>1, <3>6, WordlessCalm
    <3>7. CASE relay'["browser"] # relay["browser"]
      <4>1. relay'["browser"] = relay["browser"] \o q
        BY <1>0, <3>1, <3>2, <3>4, <3>7 DEF TypeOK
      <4> QED BY <2>3, <3>1, <3>3, <3>5, <4>1, StillCalm
    <3> QED BY <3>6, <3>7
  <2> QED BY <2>4, <2>5
<1>9. ASSUME NEW s \in Sides, LinkLost(s) \/ TickBudget(s) \/ (s = "browser" /\ RelayRefused)
             \/ \E sl \in Slots : LinkAhead(s, sl)
      PROVE  Both
  <2>1. CASE Leave(s, peerFallback[s])
    <3>1. peerSwitched' = peerSwitched
      BY <1>9 DEF LinkLost, TickBudget, RelayRefused, LinkAhead, peer
    <3> QED BY <1>7, <2>1, <3>1
  <2>2. CASE ~Leave(s, peerFallback[s])
    <3>1. UNCHANGED <<attempted, switched, budget, peerSwitched, offer, linkStarted, relay>>
      BY <1>9, <2>2 DEF LinkLost, TickBudget, RelayRefused, LinkAhead, flags, peer, setup
    <3> QED BY <3>1, WordlessCalm
  <2> QED BY <2>1, <2>2
<1>10. ASSUME NEW s \in Sides,
              \/ RelayFrame(s) \/ LinkAck(s) \/ \E sl \in Slots : LinkFrame(s, sl)
              \/ DeliverHeld(s) \/ TickAck(s) \/ TickHolding(s) \/ Close(s)
       PROVE  Both
  <2>1. UNCHANGED <<attempted, switched, budget, peerSwitched, offer, linkStarted, relay>>
    BY <1>10 DEF RelayFrame, LinkAck, LinkFrame, DeliverHeld, TickAck, TickHolding, Close, flags, peer, setup, wires
  <2> QED BY <2>1, WordlessCalm
<1>11. CASE LinkCut \/ UNCHANGED vars
  <2>1. UNCHANGED <<attempted, switched, budget, peerSwitched, offer, linkStarted, relay>>
    BY <1>11 DEF LinkCut, vars, flags, peer, setup, wires
  <2> QED BY <2>1, WordlessCalm
<1> QED BY <1>1, <1>2, <1>3, <1>4, <1>5, <1>6, <1>8, <1>9, <1>10, <1>11 DEF Next, FromRelay, FromLink

\* The attempt's timer never takes down a link that carries both directions, for every
\* value of the constants (begin_attempt, note_direct).
THEOREM BudgetNeverDropsDirectHolds == Spec => []BudgetNeverDropsDirect
<1>1. Init => AttemptOnce /\ BudgetNeverDropsDirect
  BY DEF Init, AttemptOnce, BudgetNeverDropsDirect, Sides
<1> QED BY <1>1, InitType, NextType, BudgetStep, PTL DEF Spec

-----------------------------------------------------------------------------
(***************************************************************************)
(* Exactly once and in order: every step of the two sides preserves IInv,  *)
(* and IInv gives InOrderOnce.                                             *)
(***************************************************************************)

\* A relay that grows by no frame of the slot, and whose reader passes over none,
\* keeps its shape for that slot.
LEMMA RelayStep ==
    ASSUME TypeOK, TypeOK', NEW s \in Sides, NEW sl \in Slots,
           RelayShape(s, sl), read[Other(s)] <= Len(relay[s]),
           NEW q \in Seq(RelayMsgs), \A i \in 1..Len(q) : ~FrameOf(q[i], sl),
           relay'[s] = relay[s] \o q,
           read'[Other(s)] >= read[Other(s)],
           \A i \in (read[Other(s)] + 1)..read'[Other(s)] : ~FrameOf(relay[s][i], sl),
           Got(s, sl)' = Got(s, sl), LastOnRelay(s, sl)' = LastOnRelay(s, sl)
    PROVE  RelayShape(s, sl)'
<1> DEFINE p == Other(s)
<1>1. /\ p \in Sides /\ read[p] \in Nat /\ read'[p] \in Nat
      /\ relay[s] \in Seq(RelayMsgs) /\ relay'[s] \in Seq(RelayMsgs)
  BY OtherSide DEF TypeOK
<1> HIDE DEF p
<1>2. /\ Len(relay'[s]) = Len(relay[s]) + Len(q)
      /\ \A i \in 1..Len(relay[s]) : relay'[s][i] = relay[s][i]
      /\ \A i \in (Len(relay[s]) + 1)..Len(relay'[s]) : ~FrameOf(relay'[s][i], sl)
  BY <1>1
<1>3. \A i \in UnreadRelay(s)' : FrameOf(relay'[s][i], sl) =>
          i \in UnreadRelay(s) /\ relay'[s][i] = relay[s][i]
  BY <1>1, <1>2 DEF UnreadRelay, p
<1>4. \A i \in UnreadRelay(s) : FrameOf(relay[s][i], sl) =>
          i \in UnreadRelay(s)' /\ relay'[s][i] = relay[s][i]
  BY <1>1, <1>2 DEF UnreadRelay, p
<1>5. \A i \in UnreadRelay(s)' : FrameOf(relay'[s][i], sl) =>
          Got(s, sl)' < relay'[s][i].id /\ relay'[s][i].id <= LastOnRelay(s, sl)'
  <2> SUFFICES ASSUME NEW i \in UnreadRelay(s)', FrameOf(relay'[s][i], sl)
               PROVE  Got(s, sl)' < relay'[s][i].id /\ relay'[s][i].id <= LastOnRelay(s, sl)'
    BY DEF FrameOf
  <2>1. i \in UnreadRelay(s) /\ relay'[s][i] = relay[s][i]
    BY <1>3
  <2>2. Got(s, sl) < relay[s][i].id /\ relay[s][i].id <= LastOnRelay(s, sl)
    BY <2>1 DEF RelayShape
  <2> QED BY <2>1, <2>2
<1>6. \A i, j \in UnreadRelay(s)' :
          (i < j /\ FrameOf(relay'[s][i], sl) /\ FrameOf(relay'[s][j], sl)) =>
              relay'[s][i].id < relay'[s][j].id
  BY <1>3 DEF RelayShape
<1>7. \A k \in (Got(s, sl)' + 1)..LastOnRelay(s, sl)' :
          \E i \in UnreadRelay(s)' : FrameOf(relay'[s][i], sl) /\ relay'[s][i].id = k
  <2> SUFFICES ASSUME NEW k \in (Got(s, sl) + 1)..LastOnRelay(s, sl)
               PROVE  \E i \in UnreadRelay(s)' : FrameOf(relay'[s][i], sl) /\ relay'[s][i].id = k
    OBVIOUS
  <2>1. PICK i \in UnreadRelay(s) : FrameOf(relay[s][i], sl) /\ relay[s][i].id = k
    BY DEF RelayShape
  <2>2. i \in UnreadRelay(s)' /\ relay'[s][i] = relay[s][i]
    BY <1>4, <2>1
  <2> QED BY <2>1, <2>2
<1> QED BY <1>5, <1>6, <1>7 DEF RelayShape, FrameOf

\* A relay that grows by no switch notice, and by frames only once the peer left the
\* link, keeps the frames on the right side of the notice.
LEMMA SwitchStep ==
    ASSUME TypeOK, TypeOK', NEW s \in Sides, SwitchShape(s), read[Other(s)] <= Len(relay[s]),
           NEW q \in Seq(RelayMsgs),
           \A i \in 1..Len(q) : q[i].kind # "switch" /\ (~leftLink'[Other(s)] => q[i].kind # "frame"),
           relay'[s] = relay[s] \o q,
           read'[Other(s)] >= read[Other(s)],
           leftLink[Other(s)] => leftLink'[Other(s)], switched[s] => switched'[s]
    PROVE  SwitchShape(s)'
<1> DEFINE p == Other(s)
<1>1. /\ p \in Sides /\ read[p] \in Nat /\ read'[p] \in Nat
      /\ relay[s] \in Seq(RelayMsgs) /\ relay'[s] \in Seq(RelayMsgs)
  BY OtherSide DEF TypeOK
<1> HIDE DEF p
<1>2. /\ Len(relay'[s]) = Len(relay[s]) + Len(q)
      /\ \A i \in 1..Len(relay[s]) : relay'[s][i] = relay[s][i]
      /\ \A i \in (Len(relay[s]) + 1)..Len(relay'[s]) :
            relay'[s][i].kind # "switch" /\ (~leftLink'[p] => relay'[s][i].kind # "frame")
  BY <1>1 DEF p
<1>3. \A i \in UnreadRelay(s)' : \/ i \in UnreadRelay(s) /\ relay'[s][i] = relay[s][i]
                                 \/ i \in (Len(relay[s]) + 1)..Len(relay'[s])
  BY <1>1, <1>2 DEF UnreadRelay, p
<1> QED BY <1>2, <1>3 DEF SwitchShape, p

\* The same for one channel of the link: it grows by confirmations only, and its
\* reader passes over no frame.
LEMMA LinkStep ==
    ASSUME TypeOK, TypeOK', NEW s \in Sides, NEW sl \in Slots,
           LinkShape(s, sl), linkRead[Other(s)][sl] <= Len(link[s][sl]),
           NEW q \in Seq(LinkMsgs), \A i \in 1..Len(q) : q[i].kind # "frame",
           link'[s][sl] = link[s][sl] \o q,
           ~leftLink'[Other(s)] =>
              /\ linkRead'[Other(s)][sl] >= linkRead[Other(s)][sl]
              /\ \A i \in (linkRead[Other(s)][sl] + 1)..linkRead'[Other(s)][sl] :
                    link[s][sl][i].kind # "frame"
              /\ TakenOff(s, sl)' = TakenOff(s, sl) /\ LastOnLink(s, sl)' = LastOnLink(s, sl),
           leftLink[Other(s)] => leftLink'[Other(s)], switched[s] => switched'[s]
    PROVE  LinkShape(s, sl)'
<1> DEFINE p == Other(s)
<1>1. /\ p \in Sides /\ linkRead[p][sl] \in Nat /\ linkRead'[p][sl] \in Nat
      /\ link[s][sl] \in Seq(LinkMsgs) /\ link'[s][sl] \in Seq(LinkMsgs)
  BY OtherSide DEF TypeOK, Counts
<1> HIDE DEF p
<1>2. /\ Len(link'[s][sl]) = Len(link[s][sl]) + Len(q)
      /\ \A i \in 1..Len(link[s][sl]) : link'[s][sl][i] = link[s][sl][i]
      /\ \A i \in (Len(link[s][sl]) + 1)..Len(link'[s][sl]) : link'[s][sl][i].kind # "frame"
  BY <1>1, SMTT(30)
<1>3. \A i \in 1..Len(link'[s][sl]) : link'[s][sl][i].kind = "frame" =>
          switched'[s] /\ link'[s][sl][i].slot = sl
  BY <1>1, <1>2 DEF LinkShape
<1>4. CASE leftLink'[p]
  BY <1>3, <1>4 DEF LinkShape, p
<1>5. CASE ~leftLink'[p]
  <2>1. \A i \in UnreadLink(s, sl)' : link'[s][sl][i].kind = "frame" =>
            i \in UnreadLink(s, sl) /\ link'[s][sl][i] = link[s][sl][i]
    BY <1>1, <1>2, <1>5, SMTT(30) DEF UnreadLink, p
  <2>2. \A i \in UnreadLink(s, sl) : link[s][sl][i].kind = "frame" =>
            i \in UnreadLink(s, sl)' /\ link'[s][sl][i] = link[s][sl][i]
    BY <1>1, <1>2, <1>5, SMTT(30) DEF UnreadLink, p
  <2>3. ~leftLink[p] /\ TakenOff(s, sl)' = TakenOff(s, sl) /\ LastOnLink(s, sl)' = LastOnLink(s, sl)
    BY <1>5 DEF p
  <2>4. \A i \in UnreadLink(s, sl)' : link'[s][sl][i].kind = "frame" =>
            TakenOff(s, sl)' < link'[s][sl][i].id /\ link'[s][sl][i].id <= LastOnLink(s, sl)'
    <3> SUFFICES ASSUME NEW i \in UnreadLink(s, sl)', link'[s][sl][i].kind = "frame"
                 PROVE  TakenOff(s, sl)' < link'[s][sl][i].id /\ link'[s][sl][i].id <= LastOnLink(s, sl)'
      OBVIOUS
    <3>1. i \in UnreadLink(s, sl) /\ link'[s][sl][i] = link[s][sl][i]
      BY <2>1
    <3>2. TakenOff(s, sl) < link[s][sl][i].id /\ link[s][sl][i].id <= LastOnLink(s, sl)
      BY <2>3, <3>1 DEF LinkShape, p
    <3> QED BY <2>3, <3>1, <3>2
  <2>5. \A i, j \in UnreadLink(s, sl)' :
            (i < j /\ link'[s][sl][i].kind = "frame" /\ link'[s][sl][j].kind = "frame") =>
                link'[s][sl][i].id < link'[s][sl][j].id
    BY <2>1, <2>3, ZenonT(40) DEF LinkShape, p
  <2>6. \A k \in (TakenOff(s, sl)' + 1)..LastOnLink(s, sl)' :
            \E i \in UnreadLink(s, sl)' : link'[s][sl][i].kind = "frame" /\ link'[s][sl][i].id = k
    <3> SUFFICES ASSUME NEW k \in (TakenOff(s, sl) + 1)..LastOnLink(s, sl)
                 PROVE  \E i \in UnreadLink(s, sl)' : link'[s][sl][i].kind = "frame" /\ link'[s][sl][i].id = k
      BY <2>3
    <3>1. PICK i \in UnreadLink(s, sl) : link[s][sl][i].kind = "frame" /\ link[s][sl][i].id = k
      BY <2>3 DEF LinkShape, p
    <3>2. i \in UnreadLink(s, sl)' /\ link'[s][sl][i] = link[s][sl][i]
      BY <2>2, <3>1
    <3> QED BY <3>1, <3>2
  <2>7. TakenOff(s, sl)' <= LastOnLink(s, sl)'
    BY <2>3 DEF LinkShape, p
  <2> QED BY <1>3, <2>4, <2>5, <2>6, <2>7 DEF LinkShape
<1> QED BY <1>4, <1>5

\* The types of the state one direction of a session is made of.
LEMMA DirectionTypes ==
    ASSUME TypeOK, NEW s \in Sides, NEW sl \in Slots
    PROVE  /\ Other(s) \in Sides
           /\ read[Other(s)] \in Nat /\ relay[s] \in Seq(RelayMsgs)
           /\ linkRead[Other(s)][sl] \in Nat /\ link[s][sl] \in Seq(LinkMsgs)
           /\ sent[s][sl] \in Nat /\ base[s][sl] \in Nat /\ nextNumber[s][sl] \in Nat
           /\ kept[s][sl] \in Seq(Kept)
           /\ delivered[Other(s)][sl] \in Nat /\ delivered[s][sl] \in Nat
           /\ held[Other(s)][sl] \in Seq(Frames)
           /\ inbox[Other(s)][sl] \in Seq(Nat)
           /\ Got(s, sl) \in Nat /\ LastOnRelay(s, sl) \in Nat
           /\ LastOnLink(s, sl) \in Int /\ TakenOff(s, sl) \in Nat
<1>1. Other(s) \in Sides
  BY OtherSide
<1> DEFINE p == Other(s)
<1> HIDE DEF p
<1>2. p \in Sides
  BY <1>1 DEF p
<1>3. /\ read[p] \in Nat /\ relay[s] \in Seq(RelayMsgs)
      /\ linkRead[p][sl] \in Nat /\ link[s][sl] \in Seq(LinkMsgs)
      /\ sent[s][sl] \in Nat /\ base[s][sl] \in Nat /\ nextNumber[s][sl] \in Nat
  BY <1>2 DEF TypeOK, Counts
<1>4. /\ kept[s][sl] \in Seq(Kept)
      /\ delivered[p][sl] \in Nat /\ delivered[s][sl] \in Nat
      /\ held[p][sl] \in Seq(Frames) /\ inbox[p][sl] \in Seq(Nat)
  BY <1>2 DEF TypeOK, Counts
<1>5. Got(s, sl) \in Nat
  BY <1>4 DEF Got, p
<1>6. LastOnRelay(s, sl) \in Nat
  BY <1>3 DEF LastOnRelay
<1>7. LastOnLink(s, sl) \in Int
  BY <1>3 DEF LastOnLink
<1>8. TakenOff(s, sl) \in Nat
  <2>1. Len(held[p][sl]) \in Nat
    BY <1>4
  <2> DEFINE h == Len(held[p][sl])
             d == delivered[p][sl]
             b == base[s][sl]
  <2>2. h \in Nat /\ d \in Nat /\ b \in Nat
    BY <1>3, <1>4, <2>1
  <2> HIDE DEF h, d, b
  <2>3. b + d + h \in Nat
    BY <2>2
  <2> QED BY <2>3 DEF TakenOff, p, h, d, b
<1> QED BY <1>1, <1>3, <1>4, <1>5, <1>6, <1>7, <1>8 DEF p

\* A step that moves no session frame in the direction from s to its peer: the relay and
\* the link grow by the notices q and lq, a notice may be read, the peer may leave.
Quiet(s, q, lq) ==
    /\ q \in Seq(RelayMsgs) /\ relay'[s] = relay[s] \o q
    /\ \A i \in 1..Len(q) : q[i].kind # "frame" /\ q[i].kind # "switch"
    /\ read'[Other(s)] >= read[Other(s)] /\ read'[Other(s)] <= Len(relay[s])
    /\ \A i \in (read[Other(s)] + 1)..read'[Other(s)] : relay[s][i].kind # "frame"
    /\ lq \in [Slots -> Seq(LinkMsgs)]
    /\ \A sl \in Slots : /\ \A i \in 1..Len(lq[sl]) : lq[sl][i].kind # "frame"
                         /\ link'[s][sl] = link[s][sl] \o lq[sl]
    /\ \A sl \in Slots :
          /\ linkRead'[Other(s)][sl] <= Len(link[s][sl])
          /\ ~leftLink'[Other(s)] =>
                /\ linkRead'[Other(s)][sl] >= linkRead[Other(s)][sl]
                /\ \A i \in (linkRead[Other(s)][sl] + 1)..linkRead'[Other(s)][sl] :
                      link[s][sl][i].kind # "frame"
    /\ (path'[s] = "relay") <=> (path[s] = "relay")
    /\ switched'[s] = switched[s] /\ base'[s] = base[s] /\ sent'[s] = sent[s]
    /\ nextNumber'[s] = nextNumber[s]
    /\ path[s] = "relay" => kept'[s] = kept[s]
    /\ inbox'[Other(s)] = inbox[Other(s)] /\ delivered'[Other(s)] = delivered[Other(s)]
    /\ \/ held'[Other(s)] = held[Other(s)]
       \/ leftLink'[Other(s)] /\ held'[Other(s)] = [sl \in Slots |-> <<>>]
    /\ leftLink[Other(s)] => leftLink'[Other(s)]
    /\ leftLink'[Other(s)] => (leftLink[Other(s)] \/ held'[Other(s)] = [sl \in Slots |-> <<>>])
    /\ peerSwitched'[Other(s)] = peerSwitched[Other(s)]
    /\ PathShape(s)' /\ NoticeShape(s)' /\ \A sl \in Slots : KeptShape(s, sl)'

\* Such a step keeps the direction's invariant.
LEMMA DirectionStep ==
    ASSUME TypeOK, TypeOK', NEW s \in Sides, Direction(s), NEW q, NEW lq, Quiet(s, q, lq)
    PROVE  Direction(s)'
<1> USE DEF Quiet
<1> DEFINE p == Other(s)
<1> HIDE DEF p
<1>1. ReadBounds(s)'
  <2>1. read'[p] <= Len(relay'[s])
    <3>1. relay[s] \in Seq(RelayMsgs) /\ relay'[s] \in Seq(RelayMsgs) /\ read'[p] \in Nat
      BY OtherSide DEF TypeOK, p
    <3> QED BY <3>1 DEF p
  <2>2. ASSUME NEW sl \in Slots PROVE linkRead'[p][sl] <= Len(link'[s][sl])
    <3>1. link[s][sl] \in Seq(LinkMsgs) /\ lq[sl] \in Seq(LinkMsgs) /\ linkRead'[p][sl] \in Nat
      BY OtherSide DEF TypeOK, p, Counts
    <3>2. link'[s][sl] = link[s][sl] \o lq[sl] /\ linkRead'[p][sl] <= Len(link[s][sl])
      BY DEF p
    <3>3. Len(link[s][sl] \o lq[sl]) = Len(link[s][sl]) + Len(lq[sl]) /\ Len(lq[sl]) >= 0
      BY <3>1
    <3> QED BY <3>1, <3>2, <3>3
  <2> QED BY <2>1, <2>2 DEF ReadBounds, p
<1>2. ASSUME NEW sl \in Slots
      PROVE  /\ Got(s, sl)' = Got(s, sl) /\ LastOnRelay(s, sl)' = LastOnRelay(s, sl)
             /\ LastOnLink(s, sl)' = LastOnLink(s, sl)
             /\ ~leftLink'[p] => TakenOff(s, sl)' = TakenOff(s, sl)
  <2>1. Got(s, sl)' = Got(s, sl)
    BY DEF Got
  <2>2. LastOnRelay(s, sl)' = LastOnRelay(s, sl)
    BY DEF LastOnRelay
  <2>3. LastOnLink(s, sl)' = LastOnLink(s, sl)
    BY DEF LastOnLink
  <2>4. ~leftLink'[p] => TakenOff(s, sl)' = TakenOff(s, sl)
    BY DEF TakenOff, p
  <2> QED BY <2>1, <2>2, <2>3, <2>4
<1>3. ASSUME NEW sl \in Slots PROVE RelayShape(s, sl)'
  <2>1. RelayShape(s, sl) /\ read[Other(s)] <= Len(relay[s])
    BY DEF Direction, ReadBounds
  <2>2. /\ \A i \in 1..Len(q) : ~FrameOf(q[i], sl)
        /\ \A i \in (read[Other(s)] + 1)..read'[Other(s)] : ~FrameOf(relay[s][i], sl)
    BY DEF FrameOf
  <2> QED BY <1>2, <2>1, <2>2, RelayStep
<1>4. ASSUME NEW sl \in Slots PROVE LinkShape(s, sl)'
  <2>1. LinkShape(s, sl) /\ linkRead[Other(s)][sl] <= Len(link[s][sl])
    BY DEF Direction, ReadBounds
  <2>2. lq[sl] \in Seq(LinkMsgs)
    OBVIOUS
  <2> QED BY <1>2, <2>1, <2>2, LinkStep DEF p
<1>5. ASSUME NEW sl \in Slots PROVE Numbering(s, sl)'
  <2>1. Numbering(s, sl)
    BY DEF Direction
  <2>2. path[s] = "relay" => kept'[s][sl] = <<>>
    BY <2>1 DEF Numbering
  <2> QED BY <1>2, <2>1, <2>2 DEF Numbering
<1>6. ASSUME NEW sl \in Slots PROVE InboxShape(s, sl)'
  <2>1. InboxShape(s, sl)
    BY DEF Direction
  <2> QED BY <1>2, <2>1 DEF InboxShape
<1>7. ASSUME NEW sl \in Slots PROVE HeldShape(s, sl)'
  <2>1. HeldShape(s, sl)
    BY DEF Direction
  <2>2. CASE held'[p] = [t \in Slots |-> <<>>]
    BY <2>2 DEF HeldShape, p
  <2>3. CASE held'[p] # [t \in Slots |-> <<>>]
    <3>1. held'[p] = held[p] /\ (leftLink'[p] => leftLink[p])
      BY <2>3 DEF p
    <3> QED BY <2>1, <3>1 DEF HeldShape, p
  <2> QED BY <2>2, <2>3
<1>8. SwitchShape(s)'
  <2>1. SwitchShape(s) /\ read[Other(s)] <= Len(relay[s])
    BY DEF Direction, ReadBounds
  <2> QED BY <2>1, SwitchStep
<1> QED BY <1>1, <1>3, <1>4, <1>5, <1>6, <1>7, <1>8 DEF Direction

\* The invariant of a direction reads nothing else.
SameDirection(s) ==
    /\ read'[Other(s)] = read[Other(s)] /\ relay'[s] = relay[s]
    /\ linkRead'[Other(s)] = linkRead[Other(s)] /\ link'[s] = link[s]
    /\ path'[s] = path[s] /\ switched'[s] = switched[s]
    /\ leftLink'[s] = leftLink[s] /\ leftLink'[Other(s)] = leftLink[Other(s)]
    /\ peerSwitched'[Other(s)] = peerSwitched[Other(s)]
    /\ peerFallback'[Other(s)] = peerFallback[Other(s)]
    /\ nextNumber'[s] = nextNumber[s] /\ sent'[s] = sent[s] /\ base'[s] = base[s]
    /\ kept'[s] = kept[s] /\ held'[Other(s)] = held[Other(s)]
    /\ delivered'[s] = delivered[s] /\ delivered'[Other(s)] = delivered[Other(s)]
    /\ inbox'[Other(s)] = inbox[Other(s)]

\* A step that changes nothing of a direction keeps its invariant.
LEMMA DirectionSame ==
    ASSUME NEW s \in Sides, Direction(s), SameDirection(s)
    PROVE  Direction(s)'
<1> USE DEF SameDirection
<1>1. ReadBounds(s)' /\ PathShape(s)' /\ SwitchShape(s)'
  BY DEF Direction, ReadBounds, PathShape, SwitchShape, UnreadRelay
<1>2. NoticeShape(s)'
  BY DEF Direction, NoticeShape
<1>3. ASSUME NEW sl \in Slots
      PROVE  /\ Got(s, sl)' = Got(s, sl) /\ LastOnRelay(s, sl)' = LastOnRelay(s, sl)
             /\ LastOnLink(s, sl)' = LastOnLink(s, sl) /\ TakenOff(s, sl)' = TakenOff(s, sl)
             /\ Confirmed(s, sl)' = Confirmed(s, sl)
             /\ UnreadRelay(s)' = UnreadRelay(s) /\ UnreadLink(s, sl)' = UnreadLink(s, sl)
  BY DEF Got, LastOnRelay, LastOnLink, TakenOff, Confirmed, UnreadRelay, UnreadLink
<1>4. ASSUME NEW sl \in Slots
      PROVE  Numbering(s, sl)' /\ KeptShape(s, sl)' /\ InboxShape(s, sl)' /\ HeldShape(s, sl)'
  BY <1>3 DEF Direction, Numbering, KeptShape, InboxShape, HeldShape
<1>5. ASSUME NEW sl \in Slots
      PROVE  RelayShape(s, sl)' /\ LinkShape(s, sl)'
  <2>1. RelayShape(s, sl) /\ LinkShape(s, sl)
    BY DEF Direction
  <2> QED BY <1>3, <2>1 DEF RelayShape, LinkShape
<1> QED BY <1>1, <1>2, <1>4, <1>5 DEF Direction

\* The invariant is that of the two directions of any side.
LEMMA BothDirections ==
    ASSUME NEW s \in Sides
    PROVE  /\ IInv => Direction(s) /\ Direction(Other(s))
           /\ Direction(s)' /\ Direction(Other(s))' => IInv'
BY DEF IInv, Sides, Other

\* A frame taken for the relay is the next of its slot's stream there.
LEMMA SendOnRelay ==
    ASSUME TypeOK, TypeOK', NEW s \in Sides, Direction(s),
           NEW c \in Channels, NEW len \in Sizes, Send(s, c, len), path[s] = "relay"
    PROVE  Direction(s)'
<1> DEFINE p == Other(s)
           sl == Slot(c)
           f == FrameMsg(sl, sent[s][sl] + 1, len)
<1>1. sl \in Slots /\ f.kind = "frame" /\ f.slot = sl /\ f.id = sent[s][sl] + 1 /\ f \in RelayMsgs
  <2>1. sl \in Slots
    BY SlotsAreChannels
  <2> HIDE DEF sl
  <2>2. sent[s][sl] + 1 \in Nat
    BY <2>1, DirectionTypes
  <2>3. f \in RelayMsgs
    BY <2>1, <2>2, MessageTypes
  <2> QED BY <2>1, <2>3 DEF FrameMsg
<1>2. /\ sent' = [sent EXCEPT ![s][sl] = @ + 1]
      /\ relay' = [relay EXCEPT ![s] = @ \o <<f>>]
      /\ base' = [base EXCEPT ![s][sl] = IF switched[s] THEN @ ELSE @ + 1]
      /\ UNCHANGED <<kept, nextNumber, link, flags, receiving, peer, read, linkRead>>
  BY DEF Send, ToRelay
<1> HIDE DEF sl, f
<1>3. /\ relay'[s] = relay[s] \o <<f>>
      /\ sent'[s][sl] = sent[s][sl] + 1
      /\ base'[s][sl] = IF switched[s] THEN base[s][sl] ELSE base[s][sl] + 1
      /\ \A t \in Slots : t # sl => sent'[s][t] = sent[s][t] /\ base'[s][t] = base[s][t]
  <2>1. relay'[s] = relay[s] \o <<f>>
    BY <1>2 DEF TypeOK
  <2>2. sent'[s] = [sent[s] EXCEPT ![sl] = sent[s][sl] + 1] /\ sent[s] \in [Slots -> Nat]
    BY <1>2 DEF TypeOK, Counts
  <2>3. /\ base'[s] = [base[s] EXCEPT ![sl] = IF switched[s] THEN base[s][sl] ELSE base[s][sl] + 1]
        /\ base[s] \in [Slots -> Nat]
    BY <1>2 DEF TypeOK, Counts
  <2> QED BY <1>1, <2>1, <2>2, <2>3
<1>4. UNCHANGED <<path, switched, leftLink, kept, nextNumber, link, held, delivered, inbox,
                  peerSwitched, peerFallback, read, linkRead>>
  BY <1>2 DEF flags, receiving, peer
<1>5. <<f>> \in Seq(RelayMsgs) /\ Len(<<f>>) = 1 /\ <<f>>[1] = f
  BY <1>1
<1>6. /\ relay[s] \in Seq(RelayMsgs) /\ Len(relay'[s]) = Len(relay[s]) + 1
      /\ \A i \in 1..Len(relay[s]) : relay'[s][i] = relay[s][i]
      /\ relay'[s][Len(relay[s]) + 1] = f
  BY <1>1, <1>3 DEF TypeOK
<1>7. /\ ReadBounds(s) /\ PathShape(s) /\ SwitchShape(s) /\ NoticeShape(s)
      /\ \A t \in Slots : /\ Numbering(s, t) /\ KeptShape(s, t) /\ InboxShape(s, t)
                          /\ HeldShape(s, t) /\ RelayShape(s, t) /\ LinkShape(s, t)
  BY DEF Direction
<1>8. switched[s] => leftLink[p]
  BY <1>7 DEF PathShape, p
<1>9. \A t \in Slots : Got(s, t)' = Got(s, t) /\ LastOnRelay(s, t)' = sent'[s][t]
                       /\ LastOnRelay(s, t) = sent[s][t]
  BY <1>4 DEF Got, LastOnRelay
<1>10. read[p] \in Nat /\ p \in Sides
  BY <1>1, DirectionTypes DEF p
<1>11. ReadBounds(s)'
  BY <1>4, <1>6, <1>7, <1>10 DEF ReadBounds, p
<1>12. PathShape(s)'
  BY <1>4, <1>7 DEF PathShape
<1>13. SwitchShape(s)'
  <2>1. UnreadRelay(s)' \subseteq UnreadRelay(s) \cup {Len(relay[s]) + 1}
    BY <1>4, <1>6, <1>10 DEF UnreadRelay, p
  <2>2. \A i \in UnreadRelay(s) : i \in 1..Len(relay[s])
    BY <1>6, <1>10 DEF UnreadRelay, p
  <2>3. \A i \in UnreadRelay(s)' : relay'[s][i].kind = "switch" =>
            i \in UnreadRelay(s) /\ relay[s][i].kind = "switch"
    BY <1>1, <1>6, <2>1, <2>2
  <2> QED BY <1>4, <1>7, <1>8, <2>3 DEF SwitchShape, p
<1>14. NoticeShape(s)'
  <2>1. \A i \in 1..Len(relay'[s]) : relay'[s][i].kind = "fallback" =>
            i \in 1..Len(relay[s]) /\ relay'[s][i] = relay[s][i]
    BY <1>1, <1>6
  <2> QED BY <1>4, <1>7, <2>1 DEF NoticeShape
<1>15. ASSUME NEW t \in Slots, t # sl
       PROVE  RelayShape(s, t)'
  <2>1. \A i \in 1..Len(<<f>>) : ~FrameOf(<<f>>[i], t)
    BY <1>1, <1>5, <1>15 DEF FrameOf
  <2>2. Got(s, t)' = Got(s, t) /\ LastOnRelay(s, t)' = LastOnRelay(s, t)
    BY <1>3, <1>9, <1>15
  <2>3. /\ read'[p] >= read[p] /\ read[p] <= Len(relay[s])
        /\ \A i \in (read[p] + 1)..read'[p] : ~FrameOf(relay[s][i], t)
    BY <1>4, <1>7, <1>10 DEF ReadBounds, p
  <2> QED BY <1>3, <1>5, <1>7, <2>1, <2>2, <2>3, RelayStep DEF p
<1>16. RelayShape(s, sl)'
  <2> DEFINE last == Len(relay[s]) + 1
  <2>1. /\ UnreadRelay(s)' = UnreadRelay(s) \cup {last} /\ last \notin UnreadRelay(s)
        /\ \A i \in UnreadRelay(s) : i \in 1..Len(relay[s]) /\ i < last
    BY <1>4, <1>6, <1>7, <1>10 DEF UnreadRelay, ReadBounds, p
  <2>2. \A i \in UnreadRelay(s) : relay'[s][i] = relay[s][i]
    BY <1>6, <2>1
  <2>3. Got(s, sl) \in Nat /\ sent[s][sl] \in Nat /\ Got(s, sl) <= sent[s][sl]
    BY <1>1, <1>7, DirectionTypes DEF InboxShape
  <2>4. FrameOf(f, sl) /\ relay'[s][last] = f /\ f.id = sent[s][sl] + 1
    BY <1>1, <1>6 DEF FrameOf
  <2>5. Got(s, sl)' = Got(s, sl) /\ LastOnRelay(s, sl)' = sent[s][sl] + 1 /\ LastOnRelay(s, sl) = sent[s][sl]
    BY <1>1, <1>3, <1>9
  <2>6. \A i \in UnreadRelay(s) : FrameOf(relay[s][i], sl) =>
            relay[s][i].id \in Nat /\ Got(s, sl) < relay[s][i].id /\ relay[s][i].id <= sent[s][sl]
    <3>1. \A i \in UnreadRelay(s) : relay[s][i] \in RelayMsgs
      BY <1>6, <2>1
    <3> QED BY <1>1, <1>7, <2>5, <3>1, RelayKinds DEF RelayShape, FrameOf
  <2> HIDE DEF last
  <2>7. \A i \in UnreadRelay(s)' : FrameOf(relay'[s][i], sl) =>
            Got(s, sl)' < relay'[s][i].id /\ relay'[s][i].id <= LastOnRelay(s, sl)'
    <3> SUFFICES ASSUME NEW i \in UnreadRelay(s)', FrameOf(relay'[s][i], sl)
                 PROVE  Got(s, sl) < relay'[s][i].id /\ relay'[s][i].id <= sent[s][sl] + 1
      BY <2>5 DEF FrameOf
    <3>1. CASE i = last
      BY <2>3, <2>4, <3>1
    <3>2. CASE i \in UnreadRelay(s)
      BY <2>2, <2>3, <2>6, <3>2
    <3> QED BY <2>1, <3>1, <3>2
  <2>8. \A i, j \in UnreadRelay(s)' :
            (i < j /\ FrameOf(relay'[s][i], sl) /\ FrameOf(relay'[s][j], sl)) =>
                relay'[s][i].id < relay'[s][j].id
    <3> SUFFICES ASSUME NEW i \in UnreadRelay(s)', NEW j \in UnreadRelay(s)', i < j,
                        FrameOf(relay'[s][i], sl), FrameOf(relay'[s][j], sl)
                 PROVE  relay'[s][i].id < relay'[s][j].id
      BY DEF FrameOf
    <3>1. i \in UnreadRelay(s)
      BY <1>6, <2>1 DEF last
    <3>2. CASE j = last
      BY <2>2, <2>3, <2>4, <2>6, <3>1, <3>2
    <3>3. CASE j # last
      BY <1>1, <1>7, <2>1, <2>2, <3>1, <3>3 DEF RelayShape
    <3> QED BY <3>2, <3>3
  <2>9. \A k \in (Got(s, sl)' + 1)..LastOnRelay(s, sl)' :
            \E i \in UnreadRelay(s)' : FrameOf(relay'[s][i], sl) /\ relay'[s][i].id = k
    <3> SUFFICES ASSUME NEW k \in (Got(s, sl) + 1)..(sent[s][sl] + 1)
                 PROVE  \E i \in UnreadRelay(s)' : FrameOf(relay'[s][i], sl) /\ relay'[s][i].id = k
      BY <2>5
    <3>1. CASE k = sent[s][sl] + 1
      BY <2>1, <2>4, <3>1
    <3>2. CASE k # sent[s][sl] + 1
      <4>1. k \in (Got(s, sl) + 1)..LastOnRelay(s, sl)
        BY <2>3, <2>5, <3>2
      <4>2. PICK i \in UnreadRelay(s) : FrameOf(relay[s][i], sl) /\ relay[s][i].id = k
        BY <1>1, <1>7, <4>1 DEF RelayShape
      <4> QED BY <2>1, <2>2, <4>2
    <3> QED BY <3>1, <3>2
  <2> QED BY <2>7, <2>8, <2>9 DEF RelayShape, FrameOf
<1>17. ASSUME NEW t \in Slots
       PROVE  Numbering(s, t)' /\ KeptShape(s, t)' /\ InboxShape(s, t)' /\ HeldShape(s, t)'
  <2>1. /\ sent[s][t] \in Nat /\ base[s][t] \in Nat /\ Got(s, t) \in Nat
        /\ Numbering(s, t) /\ InboxShape(s, t) /\ HeldShape(s, t)
    BY <1>7, DirectionTypes
  <2>2. sent'[s][t] >= sent[s][t] /\ (switched[s] => base'[s][t] = base[s][t])
        /\ (~switched[s] => base'[s][t] = sent'[s][t])
    BY <1>1, <1>3, <2>1 DEF Numbering
  <2>3. Numbering(s, t)' /\ KeptShape(s, t)'
    BY <1>4, <2>1, <2>2 DEF Numbering, KeptShape
  <2>4. InboxShape(s, t)'
    <3>1. Got(s, t)' <= sent'[s][t]
      <4>1. sent'[s][t] \in Nat
        BY <1>3, <2>1
      <4> QED BY <1>9, <2>1, <2>2, <4>1 DEF InboxShape
    <3> QED BY <1>4, <1>9, <2>1, <3>1 DEF InboxShape
  <2>5. HeldShape(s, t)'
    BY <1>4, <2>1, <2>2 DEF HeldShape
  <2> QED BY <2>3, <2>4, <2>5
<1>18. ASSUME NEW t \in Slots
       PROVE  LinkShape(s, t)'
  <2>1. CASE switched[s]
    BY <1>4, <1>7, <1>8, <2>1 DEF LinkShape, p
  <2>2. CASE ~switched[s]
    <3>1. /\ base'[s][t] \in Nat /\ nextNumber[s][t] = 1 /\ held[p][t] = <<>>
          /\ delivered[p][t] = 0
      BY <1>3, <1>7, <1>10, <2>2, DirectionTypes DEF Numbering, HeldShape, InboxShape, PathShape, p, TypeOK, Counts
    <3>2. TakenOff(s, t)' = base'[s][t] /\ LastOnLink(s, t)' = base'[s][t]
      <4>1. TakenOff(s, t)' = base'[s][t] + delivered'[p][t] + Len(held'[p][t])
        BY DEF TakenOff, p
      <4>2. delivered'[p][t] = 0 /\ held'[p][t] = <<>> /\ nextNumber'[s][t] = 1 /\ Len(<<>>) = 0
        BY <1>4, <3>1
      <4>3. LastOnLink(s, t)' = base'[s][t] + nextNumber'[s][t] - 1
        BY DEF LastOnLink
      <4> QED BY <3>1, <4>1, <4>2, <4>3
    <3>3. \A i \in 1..Len(link'[s][t]) : link'[s][t][i].kind # "frame"
      BY <1>4, <1>7, <2>2 DEF LinkShape
    <3>4. \A i \in UnreadLink(s, t)' : i \in 1..Len(link'[s][t])
      <4>1. linkRead[p][t] \in Nat /\ Len(link[s][t]) \in Nat
        BY DirectionTypes DEF p
      <4> QED BY <1>4, <4>1 DEF UnreadLink, p
    <3> QED BY <3>1, <3>2, <3>3, <3>4 DEF LinkShape
  <2> QED BY <2>1, <2>2
<1> QED BY <1>11, <1>12, <1>13, <1>14, <1>15, <1>16, <1>17, <1>18 DEF Direction

\* A frame taken for the link is the next of its slot's stream there, and its copy the
\* next kept.
LEMMA SendOnLink ==
    ASSUME TypeOK, TypeOK', NEW s \in Sides, Direction(s),
           NEW c \in Channels, NEW len \in Sizes, Send(s, c, len), path[s] = "link"
    PROVE  Direction(s)'
<1> DEFINE p == Other(s)
           sl == Slot(c)
           f == FrameMsg(sl, sent[s][sl] + 1, len)
           k == [n |-> nextNumber[s][sl], frame |-> f]
<1>1. sl \in Slots /\ f.kind = "frame" /\ f.slot = sl /\ f.id = sent[s][sl] + 1 /\ f \in LinkMsgs /\ k \in Kept
  <2>1. sl \in Slots
    BY SlotsAreChannels
  <2> HIDE DEF sl
  <2>2. sent[s][sl] + 1 \in Nat /\ nextNumber[s][sl] \in Nat
    BY <2>1, DirectionTypes
  <2>3. f \in Frames /\ f \in LinkMsgs
    BY <2>1, <2>2, MessageTypes
  <2> QED BY <2>1, <2>2, <2>3 DEF FrameMsg, Kept
<1>2. /\ sent' = [sent EXCEPT ![s][sl] = @ + 1]
      /\ nextNumber' = [nextNumber EXCEPT ![s][sl] = @ + 1]
      /\ kept' = [kept EXCEPT ![s][sl] = Append(@, k)]
      /\ link' = [link EXCEPT ![s][sl] = Append(@, f)]
      /\ UNCHANGED <<base, relay, flags, receiving, peer, read, linkRead>>
  BY DEF Send, ToLink
<1> HIDE DEF sl, f
<1>3. /\ sent'[s][sl] = sent[s][sl] + 1 /\ nextNumber'[s][sl] = nextNumber[s][sl] + 1
      /\ kept'[s][sl] = Append(kept[s][sl], k)
      /\ link'[s][sl] = Append(link[s][sl], f)
      /\ \A t \in Slots : t # sl => /\ sent'[s][t] = sent[s][t] /\ nextNumber'[s][t] = nextNumber[s][t]
                                    /\ kept'[s][t] = kept[s][t] /\ link'[s][t] = link[s][t]
  <2> HIDE DEF k
  <2>1. sent'[s] = [sent[s] EXCEPT ![sl] = sent[s][sl] + 1] /\ sent[s] \in [Slots -> Nat]
    BY <1>2 DEF TypeOK, Counts
  <2>2. /\ nextNumber'[s] = [nextNumber[s] EXCEPT ![sl] = nextNumber[s][sl] + 1]
        /\ nextNumber[s] \in [Slots -> Nat]
    BY <1>2 DEF TypeOK, Counts
  <2>3. /\ kept'[s] = [kept[s] EXCEPT ![sl] = Append(kept[s][sl], k)] /\ kept[s] \in [Slots -> Seq(Kept)]
        /\ link'[s] = [link[s] EXCEPT ![sl] = Append(link[s][sl], f)] /\ link[s] \in [Slots -> Seq(LinkMsgs)]
    BY <1>2 DEF TypeOK
  <2> QED BY <1>1, <2>1, <2>2, <2>3
<1>4. UNCHANGED <<path, switched, leftLink, base, relay, held, delivered, inbox,
                  peerSwitched, peerFallback, read, linkRead>>
  BY <1>2 DEF flags, receiving, peer
<1>5. /\ ReadBounds(s) /\ PathShape(s) /\ SwitchShape(s) /\ NoticeShape(s)
      /\ \A t \in Slots : /\ Numbering(s, t) /\ KeptShape(s, t) /\ InboxShape(s, t)
                          /\ HeldShape(s, t) /\ RelayShape(s, t) /\ LinkShape(s, t)
  BY DEF Direction
<1>6. /\ link[s][sl] \in Seq(LinkMsgs) /\ Len(link'[s][sl]) = Len(link[s][sl]) + 1
      /\ \A i \in 1..Len(link[s][sl]) : link'[s][sl][i] = link[s][sl][i]
      /\ link'[s][sl][Len(link[s][sl]) + 1] = f
  BY <1>1, <1>3, SMTT(30) DEF TypeOK
<1>7. p \in Sides /\ linkRead[p][sl] \in Nat /\ Len(link[s][sl]) \in Nat
  BY <1>1, DirectionTypes DEF p
<1>8. \A t \in Slots : Got(s, t)' = Got(s, t) /\ TakenOff(s, t)' = TakenOff(s, t)
                       /\ LastOnRelay(s, t)' = LastOnRelay(s, t) /\ LastOnRelay(s, t) = base[s][t]
  BY <1>4 DEF Got, LastOnRelay, TakenOff
<1>9. \A t \in Slots : /\ LastOnLink(s, t)' = base[s][t] + nextNumber'[s][t] - 1
                       /\ LastOnLink(s, t) = base[s][t] + nextNumber[s][t] - 1
                       /\ sent[s][t] = LastOnLink(s, t)
  BY <1>4, <1>5 DEF LastOnLink, Numbering
<1>10. \A t \in Slots : sent'[s][t] = LastOnLink(s, t)' /\ nextNumber'[s][t] >= 1
                        /\ sent'[s][t] >= sent[s][t]
  <2> SUFFICES ASSUME NEW t \in Slots
               PROVE  sent'[s][t] = LastOnLink(s, t)' /\ nextNumber'[s][t] >= 1 /\ sent'[s][t] >= sent[s][t]
    OBVIOUS
  <2>1. base[s][t] \in Nat /\ nextNumber[s][t] \in Nat /\ sent[s][t] \in Nat /\ nextNumber[s][t] >= 1
    BY <1>5, DirectionTypes DEF Numbering
  <2>2. LastOnLink(s, t)' = base[s][t] + nextNumber'[s][t] - 1 /\ sent[s][t] = base[s][t] + nextNumber[s][t] - 1
    BY <1>9
  <2>3. CASE t = sl
    <3>1. sent'[s][t] = sent[s][t] + 1 /\ nextNumber'[s][t] = nextNumber[s][t] + 1
      BY <1>3, <2>3
    <3> QED BY <2>1, <2>2, <3>1
  <2>4. CASE t # sl
    BY <1>3, <2>1, <2>2, <2>4
  <2> QED BY <2>3, <2>4
<1>11. ReadBounds(s)'
  <2>1. read'[p] <= Len(relay'[s])
    BY <1>4, <1>5 DEF ReadBounds, p
  <2>2. ASSUME NEW t \in Slots PROVE linkRead'[p][t] <= Len(link'[s][t])
    <3>1. linkRead[p][t] <= Len(link[s][t]) /\ linkRead'[p][t] = linkRead[p][t]
      BY <1>4, <1>5 DEF ReadBounds, p
    <3>2. CASE t = sl
      <4> DEFINE l == Len(link[s][sl])
                 n == linkRead[p][sl]
      <4>1. l \in Nat /\ n \in Nat /\ n <= l /\ linkRead'[p][t] = n /\ Len(link'[s][t]) = l + 1
        BY <1>6, <1>7, <3>1, <3>2
      <4> HIDE DEF l, n
      <4> QED BY <4>1
    <3>3. CASE t # sl
      BY <1>3, <3>1, <3>3
    <3> QED BY <3>2, <3>3
  <2> QED BY <2>1, <2>2 DEF ReadBounds, p
<1>12. PathShape(s)' /\ SwitchShape(s)'
  BY <1>4, <1>5 DEF PathShape, SwitchShape, UnreadRelay
<1>13. NoticeShape(s)'
  <2>1. \A i \in 1..Len(link'[s]["typing"]) : link'[s]["typing"][i].kind = "ack" =>
            i \in 1..Len(link[s]["typing"]) /\ link'[s]["typing"][i] = link[s]["typing"][i]
    <3>1. CASE sl = "typing"
      <4> TAKE i \in 1..Len(link'[s]["typing"])
      <4> HAVE link'[s]["typing"][i].kind = "ack"
      <4> DEFINE l == Len(link[s][sl])
      <4>1. l \in Nat /\ i \in 1..(l + 1)
        BY <1>6, <1>7, <3>1
      <4>2. i # l + 1
        BY <1>1, <1>6, <3>1
      <4>3. i \in 1..l
        <5> HIDE DEF l
        <5> QED BY <4>1, <4>2
      <4> QED BY <1>6, <3>1, <4>3
    <3>2. CASE sl # "typing"
      BY <1>3, <3>2, SlotsAreChannels
    <3> QED BY <3>1, <3>2
  <2> QED BY <1>4, <1>5, <2>1 DEF NoticeShape
<1>14. ASSUME NEW t \in Slots
       PROVE  Numbering(s, t)' /\ InboxShape(s, t)' /\ HeldShape(s, t)' /\ RelayShape(s, t)'
  <2>1. Numbering(s, t)'
    BY <1>4, <1>5, <1>10 DEF Numbering, PathShape
  <2>2. InboxShape(s, t)'
    <3>1. Got(s, t)' <= sent'[s][t]
      <4>1. Got(s, t) \in Nat /\ sent[s][t] \in Nat /\ Got(s, t) <= sent[s][t]
        BY <1>5, DirectionTypes DEF InboxShape
      <4>2. sent'[s][t] \in Nat
        BY DEF TypeOK, Counts
      <4> QED BY <1>8, <1>10, <4>1, <4>2
    <3> QED BY <1>4, <1>5, <1>8, <3>1 DEF InboxShape
  <2>3. HeldShape(s, t)'
    BY <1>4, <1>5 DEF HeldShape
  <2>4. RelayShape(s, t)'
    BY <1>4, <1>5, <1>8 DEF RelayShape, UnreadRelay
  <2> QED BY <2>1, <2>2, <2>3, <2>4
<1>15. ASSUME NEW t \in Slots, t # sl
       PROVE  KeptShape(s, t)' /\ LinkShape(s, t)'
  <2>1. /\ kept'[s][t] = kept[s][t] /\ link'[s][t] = link[s][t] /\ nextNumber'[s][t] = nextNumber[s][t]
        /\ LastOnLink(s, t)' = LastOnLink(s, t) /\ UnreadLink(s, t)' = UnreadLink(s, t)
    BY <1>3, <1>4, <1>9, <1>15 DEF UnreadLink
  <2>2. KeptShape(s, t)'
    BY <1>4, <1>5, <2>1 DEF KeptShape, Confirmed
  <2>3. LinkShape(s, t)'
    BY <1>4, <1>5, <1>8, <2>1 DEF LinkShape
  <2> QED BY <2>2, <2>3
<1>16. KeptShape(s, sl)'
  <2> DEFINE m == Len(kept[s][sl])
             n == nextNumber[s][sl]
             b == base[s][sl]
  <2>1. /\ m \in Nat /\ n \in Nat /\ b \in Nat /\ kept[s][sl] \in Seq(Kept)
        /\ n >= 1 /\ sent[s][sl] = b + n - 1
    BY <1>1, <1>5, <1>9, DirectionTypes DEF Numbering
  <2>2. /\ m <= n - 1 /\ Confirmed(s, sl) = n - 1 - m
        /\ Confirmed(s, sl) <= delivered[p][sl]
        /\ \A i \in 1..m :
              /\ kept[s][sl][i].n = Confirmed(s, sl) + i /\ kept[s][sl][i].frame.slot = sl
              /\ kept[s][sl][i].frame.id = b + Confirmed(s, sl) + i
    BY <1>1, <1>5 DEF KeptShape, Confirmed, p
  <2>3. /\ Len(kept'[s][sl]) = m + 1
        /\ \A i \in 1..m : kept'[s][sl][i] = kept[s][sl][i]
        /\ kept'[s][sl][m + 1] = k
    BY <1>1, <1>3, <2>1
  <2>4. k.n = n /\ k.frame.slot = sl /\ k.frame.id = b + n
    BY <1>1, <2>1
  <2> HIDE DEF k, m, n, b
  <2>5. Confirmed(s, sl)' = Confirmed(s, sl) /\ nextNumber'[s][sl] = n + 1
    <3>1. nextNumber'[s][sl] = n + 1
      BY <1>3 DEF n
    <3>2. Confirmed(s, sl)' = nextNumber'[s][sl] - 1 - Len(kept'[s][sl])
      BY DEF Confirmed
    <3> QED BY <2>1, <2>2, <2>3, <3>1, <3>2
  <2>6. ASSUME NEW i \in 1..(m + 1)
        PROVE  /\ kept'[s][sl][i].n = Confirmed(s, sl) + i /\ kept'[s][sl][i].frame.slot = sl
               /\ kept'[s][sl][i].frame.id = b + Confirmed(s, sl) + i
    <3>1. CASE i = m + 1
      BY <2>1, <2>2, <2>3, <2>4, <3>1
    <3>2. CASE i # m + 1
      <4>1. i \in 1..m
        BY <2>1, <3>2
      <4> QED BY <2>2, <2>3, <4>1
    <3> QED BY <3>1, <3>2
  <2>7. m + 1 <= nextNumber'[s][sl] - 1
    BY <2>1, <2>2, <2>5
  <2> QED BY <1>4, <2>2, <2>3, <2>5, <2>6, <2>7 DEF KeptShape, b, p
<1>17. LinkShape(s, sl)'
  <2> DEFINE last == Len(link[s][sl]) + 1
             off == TakenOff(s, sl)
             top == LastOnLink(s, sl)
  <2>1. /\ UnreadLink(s, sl)' = UnreadLink(s, sl) \cup {last} /\ last \notin UnreadLink(s, sl)
        /\ \A i \in UnreadLink(s, sl) : i \in 1..Len(link[s][sl]) /\ i < last
        /\ 1..Len(link'[s][sl]) = 1..Len(link[s][sl]) \cup {last}
    <3>1. linkRead[p][sl] <= Len(link[s][sl]) /\ linkRead'[p][sl] = linkRead[p][sl]
      BY <1>1, <1>4, <1>5 DEF ReadBounds, p
    <3>2. /\ UnreadLink(s, sl) = (linkRead[p][sl] + 1)..Len(link[s][sl])
          /\ UnreadLink(s, sl)' = (linkRead[p][sl] + 1)..(Len(link[s][sl]) + 1)
      BY <1>6, <3>1 DEF UnreadLink, p
    <3> DEFINE l == Len(link[s][sl])
               n == linkRead[p][sl]
    <3>3. l \in Nat /\ n \in Nat /\ n <= l /\ last = l + 1 /\ Len(link'[s][sl]) = l + 1
          /\ UnreadLink(s, sl) = (n + 1)..l /\ UnreadLink(s, sl)' = (n + 1)..(l + 1)
      BY <1>6, <1>7, <3>1, <3>2
    <3> HIDE DEF l, n, last
    <3>4. /\ (n + 1)..(l + 1) = ((n + 1)..l) \cup {l + 1} /\ 1..(l + 1) = (1..l) \cup {l + 1}
          /\ \A i \in (n + 1)..l : i \in 1..l /\ i < l + 1
      BY <3>3
    <3> QED BY <3>3, <3>4 DEF l
  <2>2. /\ off \in Nat /\ top \in Int /\ TakenOff(s, sl)' = off /\ LastOnLink(s, sl)' = top + 1
        /\ link'[s][sl][last] = f /\ f.id = top + 1
    <3>1. off \in Nat /\ top \in Int /\ sent[s][sl] \in Nat
      BY <1>1, DirectionTypes
    <3>2. TakenOff(s, sl)' = off /\ LastOnLink(s, sl)' = sent[s][sl] + 1 /\ top = sent[s][sl]
      BY <1>1, <1>3, <1>8, <1>9, <1>10
    <3> QED BY <1>1, <1>6, <3>1, <3>2
  <2> HIDE DEF last, off, top
  <2>3. \A i \in 1..Len(link'[s][sl]) : link'[s][sl][i].kind = "frame" =>
            switched'[s] /\ link'[s][sl][i].slot = sl
    <3>1. switched'[s]
      BY <1>4, <1>5 DEF PathShape
    <3>2. \A i \in 1..Len(link[s][sl]) : link[s][sl][i].kind = "frame" => link[s][sl][i].slot = sl
      BY <1>1, <1>5 DEF LinkShape
    <3> QED BY <1>1, <1>6, <2>1, <2>2, <3>1, <3>2, ZenonT(40)
  <2>4. CASE leftLink[p]
    BY <1>4, <2>3, <2>4 DEF LinkShape, p
  <2>5. CASE ~leftLink[p]
    <3>1. off <= top
      BY <1>1, <1>5, <2>5 DEF LinkShape, off, top, p
    <3>2. \A i \in UnreadLink(s, sl) : link[s][sl][i].kind = "frame" =>
              link[s][sl][i].id \in Nat /\ off < link[s][sl][i].id /\ link[s][sl][i].id <= top
      <4>1. \A i \in UnreadLink(s, sl) : link[s][sl][i] \in LinkMsgs
        BY <1>6, <2>1
      <4> QED BY <1>1, <1>5, <2>5, <4>1, RelayKinds DEF LinkShape, off, top, p
    <3>3. \A i \in UnreadLink(s, sl)' : link'[s][sl][i].kind = "frame" =>
              off < link'[s][sl][i].id /\ link'[s][sl][i].id <= top + 1
      <4> SUFFICES ASSUME NEW i \in UnreadLink(s, sl)', link'[s][sl][i].kind = "frame"
                   PROVE  off < link'[s][sl][i].id /\ link'[s][sl][i].id <= top + 1
        OBVIOUS
      <4>1. CASE i = last
        BY <2>2, <3>1, <4>1
      <4>2. CASE i \in UnreadLink(s, sl)
        <5>1. link'[s][sl][i] = link[s][sl][i]
          BY <1>6, <2>1, <4>2
        <5> QED BY <2>2, <3>2, <4>2, <5>1
      <4> QED BY <2>1, <4>1, <4>2
    <3>4. \A i, j \in UnreadLink(s, sl)' :
              (i < j /\ link'[s][sl][i].kind = "frame" /\ link'[s][sl][j].kind = "frame") =>
                  link'[s][sl][i].id < link'[s][sl][j].id
      <4> SUFFICES ASSUME NEW i \in UnreadLink(s, sl)', NEW j \in UnreadLink(s, sl)', i < j,
                          link'[s][sl][i].kind = "frame", link'[s][sl][j].kind = "frame"
                   PROVE  link'[s][sl][i].id < link'[s][sl][j].id
        OBVIOUS
      <4>1. i \in UnreadLink(s, sl) /\ link'[s][sl][i] = link[s][sl][i]
        BY <1>6, <1>7, <2>1, SMTT(30) DEF last
      <4>2. CASE j = last
        BY <2>2, <3>2, <4>1, <4>2
      <4>3. CASE j # last
        <5>1. j \in UnreadLink(s, sl) /\ link'[s][sl][j] = link[s][sl][j]
          BY <1>6, <2>1, <4>3
        <5> QED BY <1>1, <1>5, <2>5, <4>1, <5>1 DEF LinkShape, p
      <4> QED BY <4>2, <4>3
    <3>5. \A n \in (off + 1)..(top + 1) :
              \E i \in UnreadLink(s, sl)' : link'[s][sl][i].kind = "frame" /\ link'[s][sl][i].id = n
      <4> SUFFICES ASSUME NEW n \in (off + 1)..(top + 1)
                   PROVE  \E i \in UnreadLink(s, sl)' : link'[s][sl][i].kind = "frame" /\ link'[s][sl][i].id = n
        OBVIOUS
      <4>1. CASE n = top + 1
        BY <1>1, <2>1, <2>2, <4>1
      <4>2. CASE n # top + 1
        <5>1. n \in (off + 1)..top
          BY <2>2, <4>2
        <5>2. PICK i \in UnreadLink(s, sl) : link[s][sl][i].kind = "frame" /\ link[s][sl][i].id = n
          BY <1>1, <1>5, <2>5, <5>1 DEF LinkShape, off, top, p
        <5> QED BY <1>6, <2>1, <5>2
      <4> QED BY <4>1, <4>2
    <3>6. off <= top + 1
      BY <2>2, <3>1
    <3> QED BY <2>2, <2>3, <3>3, <3>4, <3>5, <3>6 DEF LinkShape
  <2> QED BY <2>4, <2>5
<1> QED BY <1>11, <1>12, <1>13, <1>14, <1>15, <1>16, <1>17 DEF Direction

\* The side's switch notice closes what it put on the relay and opens the link at number 1.
LEMMA LinkOpenSender ==
    ASSUME TypeOK, TypeOK', NEW s \in Sides, Direction(s), LinkOpen(s)
    PROVE  Direction(s)'
<1> DEFINE p == Other(s)
<1>1. /\ ~switched[s] /\ ~leftLink[s] /\ path[s] = "relay"
      /\ switched'[s] /\ path'[s] = "link"
      /\ relay'[s] = relay[s] \o <<SwitchMsg>>
      /\ UNCHANGED <<leftLink, kept, nextNumber, sent, base, link, held, delivered, inbox,
                     peerSwitched, peerFallback, read, linkRead>>
  BY DEF LinkOpen, ToRelay, TypeOK, sending, receiving, peer
<1>2. /\ ReadBounds(s) /\ PathShape(s) /\ SwitchShape(s) /\ NoticeShape(s)
      /\ \A t \in Slots : /\ Numbering(s, t) /\ KeptShape(s, t) /\ InboxShape(s, t)
                          /\ HeldShape(s, t) /\ RelayShape(s, t) /\ LinkShape(s, t)
  BY DEF Direction
<1>3. <<SwitchMsg>> \in Seq(RelayMsgs) /\ Len(<<SwitchMsg>>) = 1 /\ <<SwitchMsg>>[1].kind = "switch"
  BY MessageTypes DEF SwitchMsg
<1>4. /\ relay[s] \in Seq(RelayMsgs) /\ Len(relay'[s]) = Len(relay[s]) + 1
      /\ \A i \in 1..Len(relay[s]) : relay'[s][i] = relay[s][i]
      /\ relay'[s][Len(relay[s]) + 1].kind = "switch"
  BY <1>1, <1>3 DEF TypeOK
<1>5. read[p] \in Nat /\ p \in Sides
  BY DirectionTypes, SlotsAreChannels DEF p
<1>6. ~peerSwitched[p]
  BY <1>1, <1>2 DEF PathShape, p
<1>7. ASSUME NEW t \in Slots
      PROVE  /\ base[s][t] \in Nat /\ base[s][t] = sent[s][t] /\ nextNumber[s][t] = 1
             /\ kept[s][t] = <<>> /\ held[p][t] = <<>> /\ delivered[p][t] = 0
             /\ Got(s, t) <= base[s][t]
  BY <1>1, <1>2, <1>6, DirectionTypes DEF Numbering, InboxShape, HeldShape, p
<1>8. ReadBounds(s)'
  BY <1>1, <1>2, <1>4, <1>5 DEF ReadBounds, p
<1>9. PathShape(s)'
  BY <1>1 DEF PathShape
<1>10. SwitchShape(s)'
  <2>1. UnreadRelay(s)' \subseteq UnreadRelay(s) \cup {Len(relay[s]) + 1}
    BY <1>1, <1>4, <1>5 DEF UnreadRelay, p
  <2>2. \A i \in UnreadRelay(s) : i \in 1..Len(relay[s])
    BY <1>4, <1>5 DEF UnreadRelay, p
  <2>3. \A i \in UnreadRelay(s)' : relay'[s][i].kind = "switch" => i = Len(relay[s]) + 1
    BY <1>1, <1>2, <1>4, <2>1, <2>2 DEF SwitchShape
  <2>4. \A j \in UnreadRelay(s)' : ~(j > Len(relay[s]) + 1)
    BY <1>4, <2>1, <2>2
  <2> QED BY <1>1, <2>3, <2>4 DEF SwitchShape
<1>11. NoticeShape(s)'
  <2>1. \A i \in 1..Len(relay'[s]) : relay'[s][i].kind = "fallback" =>
            i \in 1..Len(relay[s]) /\ relay'[s][i] = relay[s][i]
    BY <1>4
  <2> QED BY <1>1, <1>2, <2>1 DEF NoticeShape
<1>12. ASSUME NEW t \in Slots
       PROVE  RelayShape(s, t)'
  <2>1. \A i \in 1..Len(<<SwitchMsg>>) : ~FrameOf(<<SwitchMsg>>[i], t)
    BY <1>3 DEF FrameOf
  <2>2. Got(s, t)' = Got(s, t) /\ LastOnRelay(s, t)' = LastOnRelay(s, t)
    BY <1>1, <1>7 DEF Got, LastOnRelay
  <2>3. /\ read'[p] >= read[p] /\ read[p] <= Len(relay[s])
        /\ \A i \in (read[p] + 1)..read'[p] : ~FrameOf(relay[s][i], t)
    BY <1>1, <1>2, <1>5 DEF ReadBounds, p
  <2> QED BY <1>1, <1>2, <1>3, <2>1, <2>2, <2>3, RelayStep DEF p
<1>13. ASSUME NEW t \in Slots
       PROVE  Numbering(s, t)' /\ KeptShape(s, t)' /\ InboxShape(s, t)' /\ HeldShape(s, t)'
  <2>1. Numbering(s, t)'
    <3>1. LastOnLink(s, t)' = base[s][t] + nextNumber[s][t] - 1
      BY <1>1 DEF LastOnLink
    <3>2. nextNumber[s][t] >= 1 /\ sent[s][t] = base[s][t] + nextNumber[s][t] - 1
      BY <1>7
    <3> QED BY <1>1, <3>1, <3>2 DEF Numbering
  <2>2. KeptShape(s, t)'
    <3>1. Confirmed(s, t)' = 0 /\ Len(kept'[s][t]) = 0
      BY <1>1, <1>7 DEF Confirmed
    <3>2. 0 <= nextNumber'[s][t] - 1 /\ Confirmed(s, t)' <= delivered'[p][t]
      BY <1>1, <1>7, <3>1
    <3> QED BY <3>1, <3>2 DEF KeptShape, p
  <2>3. InboxShape(s, t)'
    BY <1>1, <1>2, <1>6, <1>7 DEF InboxShape, Got, p
  <2>4. HeldShape(s, t)'
    BY <1>1, <1>7 DEF HeldShape, p
  <2> QED BY <2>1, <2>2, <2>3, <2>4
<1>14. ASSUME NEW t \in Slots
       PROVE  LinkShape(s, t)'
  <2>1. \A i \in 1..Len(link[s][t]) : link[s][t][i].kind # "frame"
    BY <1>1, <1>2 DEF LinkShape
  <2>2. UnreadLink(s, t)' = UnreadLink(s, t) /\ \A i \in UnreadLink(s, t) : i \in 1..Len(link[s][t])
    <3>1. linkRead[p][t] \in Nat /\ Len(link[s][t]) \in Nat
      BY DirectionTypes DEF p
    <3> QED BY <1>1, <3>1 DEF UnreadLink, p
  <2>3. TakenOff(s, t)' = TakenOff(s, t) /\ LastOnLink(s, t)' = LastOnLink(s, t)
    BY <1>1 DEF TakenOff, LastOnLink
  <2> QED BY <1>1, <1>2, <2>1, <2>2, <2>3 DEF LinkShape
<1> QED BY <1>8, <1>9, <1>10, <1>11, <1>12, <1>13, <1>14 DEF Direction

\* Of copies with consecutive numbers, popping those up to r leaves a suffix.
LEMMA AboveSuffix ==
    ASSUME NEW q \in Seq(Kept), NEW r \in Nat, NEW b \in Nat,
           \A i \in 1..Len(q) : q[i].n = b + i
    PROVE  \E d \in 0..Len(q) :
               /\ Len(Above(q, r)) = Len(q) - d
               /\ \A i \in 1..(Len(q) - d) : Above(q, r)[i] = q[d + i]
               /\ d = 0 \/ b + d <= r
               /\ d = Len(q) \/ b + d >= r
<1> DEFINE later == {i \in 1..Len(q) : q[i].n > r}
<1>0. Len(q) \in Nat
  OBVIOUS
<1>1. CASE later = {}
  <2>1. Above(q, r) = <<>>
    BY <1>1 DEF Above
  <2>2. \A i \in 1..Len(q) : b + i <= r
    BY <1>1
  <2>3. Len(q) = 0 \/ b + Len(q) <= r
    BY <1>0, <2>2
  <2> HIDE DEF later
  <2>4. Len(q) \in 0..Len(q) /\ Len(Above(q, r)) = Len(q) - Len(q)
        /\ \A i \in 1..(Len(q) - Len(q)) : Above(q, r)[i] = q[Len(q) + i]
    BY <1>0, <2>1
  <2> QED BY <2>3, <2>4
<1>2. CASE later # {}
  <2>1. later \subseteq Nat
    OBVIOUS
  <2>2. \A i \in 1..Len(q) : i \in later <=> b + i > r
    OBVIOUS
  <2>3. Above(q, r) = SubSeq(q, Min(later), Len(q))
    BY <1>2 DEF Above
  <2>4. later \subseteq 1..Len(q)
    OBVIOUS
  <2> HIDE DEF later
  <2>5. Min(later) \in later /\ \A y \in later : Min(later) <= y
    BY <1>2, <2>1, LeastElement
  <2> DEFINE m == Min(later)
  <2>6. m \in 1..Len(q) /\ b + m > r /\ \A y \in later : m <= y
    BY <2>2, <2>4, <2>5
  <2> HIDE DEF m
  <2>7. m - 1 \in 0..Len(q)
    BY <1>0, <2>6
  <2>8. m - 1 = 0 \/ b + (m - 1) <= r
    <3>1. CASE m = 1
      BY <3>1
    <3>2. CASE m # 1
      <4>1. m - 1 \in 1..Len(q) /\ ~(m <= m - 1)
        BY <1>0, <2>6, <3>2
      <4>2. m - 1 \notin later
        BY <2>6, <4>1
      <4>3. ~(b + (m - 1) > r)
        BY <2>2, <4>1, <4>2
      <4> QED BY <2>6, <4>3
    <3> QED BY <3>1, <3>2
  <2>9. b + (m - 1) >= r
    BY <2>6
  <2>10. /\ Len(Above(q, r)) = Len(q) - (m - 1)
         /\ \A i \in 1..(Len(q) - (m - 1)) : Above(q, r)[i] = q[(m - 1) + i]
    <3>1. Above(q, r) = SubSeq(q, m, Len(q))
      BY <2>3 DEF m
    <3> QED BY <1>0, <2>6, <3>1
  <2> QED BY <2>7, <2>8, <2>9, <2>10
<1> QED BY <1>1, <1>2

\* The frames of a slot in a sequence are, in order, those after lo up to hi.
Covers(X, sl, lo, hi) ==
    /\ \A i \in 1..Len(X) : FrameOf(X[i], sl) => lo < X[i].id /\ X[i].id <= hi
    /\ \A i, j \in 1..Len(X) :
          (i < j /\ FrameOf(X[i], sl) /\ FrameOf(X[j], sl)) => X[i].id < X[j].id
    /\ \A n \in (lo + 1)..hi : \E i \in 1..Len(X) : FrameOf(X[i], sl) /\ X[i].id = n

\* Messages that are not frames of the slot may surround the sequence.
LEMMA CoversAmong ==
    ASSUME NEW X \in Seq(RelayMsgs), NEW Y \in Seq(RelayMsgs), NEW sl, NEW lo \in Int, NEW hi \in Int,
           Covers(X, sl, lo, hi), \A i \in 1..Len(Y) : ~FrameOf(Y[i], sl)
    PROVE  Covers(X \o Y, sl, lo, hi) /\ Covers(Y \o X, sl, lo, hi)
<1> USE DEF Covers
<1>1. Covers(X \o Y, sl, lo, hi)
  <2> DEFINE Z == X \o Y
  <2>1. /\ Len(Z) = Len(X) + Len(Y) /\ \A i \in 1..Len(X) : Z[i] = X[i] /\ i \in 1..Len(Z)
        /\ \A i \in 1..Len(Z) : i \in 1..Len(X) \/ (i > Len(X) /\ ~FrameOf(Z[i], sl))
    OBVIOUS
  <2> HIDE DEF Z
  <2>2. \A i \in 1..Len(Z) : FrameOf(Z[i], sl) => i \in 1..Len(X) /\ Z[i] = X[i]
    BY <2>1
  <2>3. \A n \in (lo + 1)..hi : \E i \in 1..Len(Z) : FrameOf(Z[i], sl) /\ Z[i].id = n
    <3> TAKE n \in (lo + 1)..hi
    <3>1. PICK i \in 1..Len(X) : FrameOf(X[i], sl) /\ X[i].id = n
      OBVIOUS
    <3> QED BY <2>1, <3>1
  <2>4. /\ \A i \in 1..Len(Z) : FrameOf(Z[i], sl) => lo < Z[i].id /\ Z[i].id <= hi
        /\ \A i, j \in 1..Len(Z) :
              (i < j /\ FrameOf(Z[i], sl) /\ FrameOf(Z[j], sl)) => Z[i].id < Z[j].id
    BY <2>2
  <2> QED BY <2>3, <2>4 DEF Z
<1>2. Covers(Y \o X, sl, lo, hi)
  <2> DEFINE Z == Y \o X
             m == Len(Y)
  <2>1. /\ m \in Nat /\ Len(X) \in Nat /\ Len(Z) = m + Len(X)
        /\ \A i \in 1..Len(X) : Z[m + i] = X[i]
        /\ \A i \in 1..m : ~FrameOf(Z[i], sl)
    OBVIOUS
  <2> HIDE DEF Z, m
  <2>2. \A i \in 1..Len(Z) : FrameOf(Z[i], sl) => i - m \in 1..Len(X) /\ Z[i] = X[i - m]
    <3> TAKE i \in 1..Len(Z)
    <3>1. CASE i \in 1..m
      BY <2>1, <3>1 DEF FrameOf
    <3>2. CASE i \notin 1..m
      <4>1. i - m \in 1..Len(X) /\ m + (i - m) = i
        BY <2>1, <3>2
      <4>2. Z[m + (i - m)] = X[i - m]
        BY <2>1, <4>1
      <4> QED BY <4>1, <4>2
    <3> QED BY <3>1, <3>2
  <2>3. \A n \in (lo + 1)..hi : \E i \in 1..Len(Z) : FrameOf(Z[i], sl) /\ Z[i].id = n
    <3> TAKE n \in (lo + 1)..hi
    <3>1. PICK i \in 1..Len(X) : FrameOf(X[i], sl) /\ X[i].id = n
      OBVIOUS
    <3>2. m + i \in 1..Len(Z)
      BY <2>1
    <3> QED BY <2>1, <3>1, <3>2
  <2>4. \A i \in 1..Len(Z) : FrameOf(Z[i], sl) => lo < Z[i].id /\ Z[i].id <= hi
    BY <2>2
  <2>5. \A i, j \in 1..Len(Z) :
            (i < j /\ FrameOf(Z[i], sl) /\ FrameOf(Z[j], sl)) => Z[i].id < Z[j].id
    <3> SUFFICES ASSUME NEW i \in 1..Len(Z), NEW j \in 1..Len(Z), i < j, FrameOf(Z[i], sl), FrameOf(Z[j], sl)
                 PROVE  Z[i].id < Z[j].id
      BY DEF FrameOf
    <3>1. i - m < j - m
      BY <2>1
    <3> QED BY <2>2, <3>1
  <2> QED BY <2>3, <2>4, <2>5 DEF Z
<1> QED BY <1>1, <1>2

\* The copies of one slot that a fall-back re-sends.
Again(s, received, sl) ==
    IF sl \notin Slots THEN <<>>
    ELSE LET q == Above(kept[s][sl], received[sl]) IN [i \in 1..Len(q) |-> q[i].frame]

\* They are the frames of the slot's stream that the peer has not counted.
LEMMA AgainCovers ==
    ASSUME TypeOK, NEW s \in Sides, Direction(s), path[s] # "relay",
           NEW sl \in Slots
    PROVE  /\ Again(s, delivered[Other(s)], sl) \in Seq(RelayMsgs)
           /\ \A i \in 1..Len(Again(s, delivered[Other(s)], sl)) :
                 FrameOf(Again(s, delivered[Other(s)], sl)[i], sl)
           /\ Covers(Again(s, delivered[Other(s)], sl), sl,
                     base[s][sl] + delivered[Other(s)][sl], sent[s][sl])
<1> DEFINE p == Other(s)
           q == kept[s][sl]
           r == delivered[p][sl]
           b == base[s][sl]
           c == Confirmed(s, sl)
           A == Again(s, delivered[p], sl)
           last == nextNumber[s][sl] - 1
<1>1. /\ q \in Seq(Kept) /\ Len(q) \in Nat /\ r \in Nat /\ b \in Nat /\ last \in Int
      /\ Len(q) <= last /\ c = last - Len(q) /\ c <= r /\ sent[s][sl] = b + last
      /\ \A i \in 1..Len(q) : q[i].n = c + i /\ q[i].frame.slot = sl /\ q[i].frame.id = b + c + i
  <2>1. KeptShape(s, sl) /\ Numbering(s, sl)
    BY DEF Direction
  <2>2. q \in Seq(Kept) /\ r \in Nat /\ b \in Nat /\ nextNumber[s][sl] \in Nat
    BY DirectionTypes
  <2>3. sent[s][sl] = b + nextNumber[s][sl] - 1
    BY <2>1 DEF Numbering, LastOnLink
  <2> QED BY <2>1, <2>2, <2>3 DEF KeptShape, Confirmed
<1>2. A = [i \in 1..Len(Above(q, r)) |-> Above(q, r)[i].frame]
  BY DEF Again
<1> HIDE DEF q, r, b, c, A, last
<1>3. Above(q, r) \in Seq(Kept)
  <2>1. r \in Int
    BY <1>1
  <2> QED BY <1>1, <2>1, AboveType
<1>4. c \in Nat /\ r \in Nat /\ b \in Nat /\ Len(q) \in Nat /\ c <= r
  BY <1>1
<1>5. PICK d \in 0..Len(q) :
          /\ Len(Above(q, r)) = Len(q) - d
          /\ \A i \in 1..(Len(q) - d) : Above(q, r)[i] = q[d + i]
          /\ d = 0 \/ c + d <= r
          /\ d = Len(q) \/ c + d >= r
  BY <1>1, <1>4, AboveSuffix, ZenonT(40)
<1> DEFINE L == Len(q) - d
<1>6. /\ L \in Nat /\ Len(A) = L
      /\ \A i \in 1..L : d + i \in 1..Len(q) /\ A[i] = q[d + i].frame
  <2> DEFINE l == Len(q)
  <2>1. l \in Nat /\ d \in 0..l /\ L = l - d
    BY <1>4
  <2>2. Len(Above(q, r)) = L /\ \A i \in 1..L : Above(q, r)[i] = q[d + i]
    BY <1>5
  <2> HIDE DEF l, L
  <2>3. L \in Nat /\ \A i \in 1..L : d + i \in 1..l
    BY <2>1
  <2>4. A = [i \in 1..L |-> Above(q, r)[i].frame]
    BY <1>2, <2>2
  <2>5. Len(A) = L /\ \A i \in 1..L : A[i] = Above(q, r)[i].frame
    BY <2>3, <2>4
  <2> QED BY <2>2, <2>3, <2>5 DEF l
<1>7. \A i \in 1..L : A[i] \in Frames /\ A[i].slot = sl /\ A[i].id = b + c + (d + i)
  <2> TAKE i \in 1..L
  <2>a. d + i \in 1..Len(q) /\ A[i] = q[d + i].frame
    BY <1>6
  <2> DEFINE k == d + i
  <2>b. k \in 1..Len(q)
    BY <2>a
  <2>c. q \in Seq(Kept)
    BY <1>1
  <2>d. q[k] \in Kept
    <3> HIDE DEF k
    <3> QED BY <2>b, <2>c
  <2>1. q[d + i] \in Kept /\ A[i] = q[d + i].frame
    BY <2>a, <2>d
  <2> QED BY <1>1, <1>6, <2>1 DEF Kept
<1>8. A \in Seq(RelayMsgs)
  <2>1. A = [i \in 1..L |-> A[i]]
    BY <1>2, <1>5
  <2>2. \A i \in 1..L : A[i] \in RelayMsgs
    BY <1>7, MessageTypes
  <2> QED BY <1>6, <2>1, <2>2
<1>9. \A i \in 1..L : FrameOf(A[i], sl)
  BY <1>7, RelayKinds DEF FrameOf
<1> HIDE DEF L
<1>10. CASE L = 0
  <2>1. d = Len(q)
    BY <1>1, <1>10 DEF L
  <2>2. c + Len(q) <= r
    BY <1>1, <1>4, <1>5, <2>1
  <2>3. sent[s][sl] <= b + r
    BY <1>1, <1>4, <2>2
  <2>4. (b + r + 1)..sent[s][sl] = {} /\ 1..Len(A) = {}
    BY <1>1, <1>6, <1>10, <2>3
  <2>5. Covers(A, sl, b + r, sent[s][sl])
    BY <2>4 DEF Covers
  <2> QED BY <1>6, <1>8, <1>9, <2>5 DEF A, b, r, p
<1>11. CASE L # 0
  <2>0. d \in Nat /\ d # Len(q) /\ L = Len(q) - d /\ sent[s][sl] = b + (c + Len(q))
    <3>1. last = c + Len(q)
      BY <1>1
    <3> QED BY <1>1, <1>11, <3>1 DEF L
  <2>1. c + d = r
    <3>1. c + d >= r
      BY <1>5, <2>0
    <3>2. CASE d = 0
      BY <1>4, <3>1, <3>2
    <3>3. CASE d # 0
      <4>1. c + d <= r
        BY <1>5, <3>3
      <4> QED BY <1>4, <2>0, <3>1, <4>1
    <3> QED BY <3>2, <3>3
  <2>2. \A i \in 1..L : A[i].id = b + r + i
    <3> TAKE i \in 1..L
    <3>1. A[i].id = b + c + (d + i)
      BY <1>7
    <3> QED BY <1>4, <2>0, <2>1, <3>1
  <2>3. sent[s][sl] = b + r + L
    BY <1>4, <2>0, <2>1
  <2>4. \A i \in 1..Len(A) : FrameOf(A[i], sl) => b + r < A[i].id /\ A[i].id <= sent[s][sl]
    BY <1>1, <1>6, <2>2, <2>3, SMTT(30)
  <2>5. \A i, j \in 1..Len(A) : (i < j /\ FrameOf(A[i], sl) /\ FrameOf(A[j], sl)) => A[i].id < A[j].id
    BY <1>1, <1>6, <2>2
  <2>6. \A n \in (b + r + 1)..sent[s][sl] : \E i \in 1..Len(A) : FrameOf(A[i], sl) /\ A[i].id = n
    <3> TAKE n \in (b + r + 1)..sent[s][sl]
    <3>1. n - (b + r) \in 1..L /\ b + r + (n - (b + r)) = n
      BY <1>1, <1>6, <2>3
    <3> QED BY <1>6, <1>9, <2>2, <3>1
  <2>7. Covers(A, sl, b + r, sent[s][sl])
    BY <2>4, <2>5, <2>6 DEF Covers
  <2> QED BY <1>6, <1>8, <1>9, <2>7 DEF A, b, r, p
<1> QED BY <1>10, <1>11

\* A fall-back re-sends, on every slot, the frames the peer has not counted.
LEMMA ResentCovers ==
    ASSUME TypeOK, NEW s \in Sides, Direction(s), path[s] # "relay"
    PROVE  /\ Resent(s, delivered[Other(s)]) \in Seq(RelayMsgs)
           /\ \A i \in 1..Len(Resent(s, delivered[Other(s)])) :
                 Resent(s, delivered[Other(s)])[i].kind = "frame"
           /\ \A sl \in Slots : Covers(Resent(s, delivered[Other(s)]), sl,
                                       base[s][sl] + delivered[Other(s)][sl], sent[s][sl])
<1> DEFINE r == delivered[Other(s)]
           A(sl) == Again(s, r, sl)
           T == A("typing")
           S == A("screen")
           F == A("files")
           lo(sl) == base[s][sl] + r[sl]
<1>1. Resent(s, r) = T \o S \o F
  BY DEF Resent, Again
<1>2. ASSUME NEW sl \in Channels
      PROVE  /\ A(sl) \in Seq(RelayMsgs)
             /\ \A i \in 1..Len(A(sl)) : FrameOf(A(sl)[i], sl)
             /\ sl \in Slots => Covers(A(sl), sl, lo(sl), sent[s][sl])
  <2>1. CASE sl \in Slots
    BY <2>1, AgainCovers
  <2>2. CASE sl \notin Slots
    BY <2>2 DEF Again
  <2> QED BY <2>1, <2>2
<1>3. \A sl \in Slots : lo(sl) \in Int /\ sent[s][sl] \in Int
  BY DirectionTypes
<1> HIDE DEF A, r, lo
<1>4. /\ T \in Seq(RelayMsgs) /\ S \in Seq(RelayMsgs) /\ F \in Seq(RelayMsgs)
      /\ \A i \in 1..Len(T) : FrameOf(T[i], "typing")
      /\ \A i \in 1..Len(S) : FrameOf(S[i], "screen")
      /\ \A i \in 1..Len(F) : FrameOf(F[i], "files")
  <2>1. "typing" \in Channels /\ "screen" \in Channels /\ "files" \in Channels
    BY DEF Channels
  <2> QED BY <1>2, <2>1
<1>5. /\ "typing" \in Slots => Covers(T, "typing", lo("typing"), sent[s]["typing"])
      /\ "screen" \in Slots => Covers(S, "screen", lo("screen"), sent[s]["screen"])
      /\ "files" \in Slots => Covers(F, "files", lo("files"), sent[s]["files"])
  <2>1. "typing" \in Channels /\ "screen" \in Channels /\ "files" \in Channels
    BY DEF Channels
  <2> QED BY <1>2, <2>1
<1> HIDE DEF T, S, F
<1>6. T \o S \in Seq(RelayMsgs) /\ T \o S \o F \in Seq(RelayMsgs)
  BY <1>4
<1>7. /\ \A i \in 1..Len(T \o S) : FrameOf((T \o S)[i], "typing") \/ FrameOf((T \o S)[i], "screen")
      /\ \A i \in 1..Len(T \o S \o F) : (T \o S \o F)[i].kind = "frame"
  <2>1. \A i \in 1..Len(T \o S) : (i \in 1..Len(T) /\ (T \o S)[i] = T[i])
                                  \/ (\E j \in 1..Len(S) : (T \o S)[i] = S[j])
    <3> TAKE i \in 1..Len(T \o S)
    <3>1. CASE i <= Len(T)
      BY <1>4, <3>1
    <3>2. CASE ~(i <= Len(T))
      <4>1. i - Len(T) \in 1..Len(S) /\ (T \o S)[i] = S[i - Len(T)]
        BY <1>4, <3>2
      <4> QED BY <4>1
    <3> QED BY <3>1, <3>2
  <2>2. \A i \in 1..Len(T \o S) : FrameOf((T \o S)[i], "typing") \/ FrameOf((T \o S)[i], "screen")
    BY <1>4, <2>1
  <2> DEFINE X == T \o S
  <2>3. X \in Seq(RelayMsgs) /\ \A i \in 1..Len(X) : X[i].kind = "frame"
    BY <1>6, <2>2 DEF FrameOf
  <2> HIDE DEF X
  <2>4. \A i \in 1..Len(X \o F) : (X \o F)[i].kind = "frame"
    <3> TAKE i \in 1..Len(X \o F)
    <3>1. CASE i <= Len(X)
      BY <1>4, <2>3, <3>1
    <3>2. CASE ~(i <= Len(X))
      <4>1. i - Len(X) \in 1..Len(F) /\ (X \o F)[i] = F[i - Len(X)]
        BY <1>4, <2>3, <3>2
      <4> QED BY <1>4, <4>1 DEF FrameOf
    <3> QED BY <3>1, <3>2
  <2> QED BY <2>2, <2>4 DEF X
<1>8. ASSUME NEW sl \in Slots
      PROVE  Covers(T \o S \o F, sl, lo(sl), sent[s][sl])
  <2>1. lo(sl) \in Int /\ sent[s][sl] \in Int
    BY <1>3
  <2>2. CASE sl = "typing"
    <3>1. /\ \A i \in 1..Len(S) : ~FrameOf(S[i], sl)
          /\ \A i \in 1..Len(F) : ~FrameOf(F[i], sl)
      BY <1>4, <2>2 DEF FrameOf
    <3>2. Covers(T \o S, sl, lo(sl), sent[s][sl])
      BY <1>4, <1>5, <2>1, <2>2, <3>1, CoversAmong
    <3> QED BY <1>4, <1>6, <2>1, <3>1, <3>2, CoversAmong
  <2>3. CASE sl = "screen"
    <3>1. /\ \A i \in 1..Len(T) : ~FrameOf(T[i], sl)
          /\ \A i \in 1..Len(F) : ~FrameOf(F[i], sl)
      BY <1>4, <2>3 DEF FrameOf
    <3>2. Covers(T \o S, sl, lo(sl), sent[s][sl])
      BY <1>4, <1>5, <2>1, <2>3, <3>1, CoversAmong
    <3> QED BY <1>4, <1>6, <2>1, <3>1, <3>2, CoversAmong
  <2>4. CASE sl = "files"
    <3>1. \A i \in 1..Len(T \o S) : ~FrameOf((T \o S)[i], sl)
      BY <1>7, <2>4 DEF FrameOf
    <3> QED BY <1>4, <1>5, <1>6, <2>1, <2>4, <3>1, CoversAmong
  <2> QED BY <2>2, <2>3, <2>4, SlotsAreChannels DEF Channels
<1> QED BY <1>1, <1>6, <1>7, <1>8 DEF r, lo

\* What was unread on the relay followed by what a fall-back adds to it.
LEMMA RelayGrows ==
    ASSUME TypeOK, TypeOK', NEW s \in Sides, NEW sl \in Slots,
           RelayShape(s, sl), read[Other(s)] <= Len(relay[s]),
           NEW q \in Seq(RelayMsgs), NEW lo \in Nat, NEW hi \in Int, Covers(q, sl, lo, hi),
           relay'[s] = relay[s] \o q, read'[Other(s)] = read[Other(s)],
           Got(s, sl)' = Got(s, sl), LastOnRelay(s, sl)' = hi,
           \/ LastOnRelay(s, sl) = lo /\ Got(s, sl) <= lo /\ lo <= hi
           \/ LastOnRelay(s, sl) <= Got(s, sl) /\ Got(s, sl) = lo
    PROVE  RelayShape(s, sl)'
<1> DEFINE p == Other(s)
           m == Len(relay[s])
           g == Got(s, sl)
           top == LastOnRelay(s, sl)
           U == UnreadRelay(s)
           V == (m + 1)..(m + Len(q))
<1>1. /\ read[p] \in Nat /\ m \in Nat /\ relay[s] \in Seq(RelayMsgs) /\ g \in Nat /\ top \in Nat
      /\ Len(q) \in Nat
  BY DirectionTypes
<1>2. /\ \A i \in 1..m : relay'[s][i] = relay[s][i]
      /\ \A i \in 1..Len(q) : relay'[s][m + i] = q[i]
      /\ Len(relay'[s]) = m + Len(q)
  <2>1. PICK w \in Seq(RelayMsgs) : w = relay[s]
    BY <1>1
  <2>2. /\ \A i \in 1..Len(w) : (w \o q)[i] = w[i]
        /\ \A i \in 1..Len(q) : (w \o q)[Len(w) + i] = q[i]
        /\ Len(w \o q) = Len(w) + Len(q)
    <3> HIDE <1>1
    <3> QED OBVIOUS
  <2> QED BY <2>1, <2>2
<1>3. /\ U = (read[p] + 1)..m
      /\ UnreadRelay(s)' = (read[p] + 1)..(m + Len(q))
  BY <1>2 DEF UnreadRelay
<1> HIDE DEF p, m, g, top, U, V
<1>4. UnreadRelay(s)' = U \cup V /\ (\A i \in U : i \in 1..m) /\ (\A i \in U, j \in V : i < j)
  <2>1. read[p] <= m
    BY DEF p, m
  <2> QED BY <1>1, <1>3, <2>1 DEF V
<1>5. \A i \in V : i - m \in 1..Len(q) /\ relay'[s][i] = q[i - m]
  <2> TAKE i \in V
  <2>1. i - m \in 1..Len(q) /\ m + (i - m) = i
    BY <1>1 DEF V
  <2> QED BY <1>2, <2>1
<1>6. /\ \A i \in U : relay[s][i] \in RelayMsgs /\ (FrameOf(relay[s][i], sl) => g < relay[s][i].id /\ relay[s][i].id <= top)
      /\ \A i \in 1..Len(q) : q[i] \in RelayMsgs /\ (FrameOf(q[i], sl) => lo < q[i].id /\ q[i].id <= hi)
  <2>1. \A i \in U : relay[s][i] \in RelayMsgs
    BY <1>1, <1>4 DEF m
  <2> QED BY <2>1 DEF RelayShape, Covers, g, top, U
<1>7. \A x \in RelayMsgs : FrameOf(x, sl) => x.id \in Nat
  BY RelayKinds DEF FrameOf
<1>8. /\ \A i \in U : FrameOf(relay[s][i], sl) => relay[s][i].id <= lo /\ g < relay[s][i].id /\ relay[s][i].id <= hi
      /\ g <= lo
  <2>1. CASE top = lo /\ g <= lo /\ lo <= hi
    <3>1. ASSUME NEW i \in U, FrameOf(relay[s][i], sl)
          PROVE  relay[s][i].id <= lo /\ g < relay[s][i].id /\ relay[s][i].id <= hi
      <4>1. relay[s][i].id \in Nat /\ relay[s][i].id <= lo /\ g < relay[s][i].id
        BY <1>6, <1>7, <2>1, <3>1
      <4> QED BY <2>1, <4>1
    <3> QED BY <2>1, <3>1
  <2>2. CASE top <= g /\ g = lo
    BY <1>1, <1>6, <1>7, <2>2
  <2> QED BY <2>1, <2>2 DEF top, g
<1>9. \A i \in UnreadRelay(s)' : FrameOf(relay'[s][i], sl) => g < relay'[s][i].id /\ relay'[s][i].id <= hi
  <2> SUFFICES ASSUME NEW i \in UnreadRelay(s)', FrameOf(relay'[s][i], sl)
               PROVE  g < relay'[s][i].id /\ relay'[s][i].id <= hi
    BY DEF FrameOf
  <2>1. CASE i \in U
    BY <1>2, <1>4, <1>8, <2>1
  <2>2. CASE i \in V
    <3>1. /\ relay'[s][i] \in RelayMsgs /\ lo < relay'[s][i].id /\ relay'[s][i].id <= hi
          /\ relay'[s][i].id \in Nat
      BY <1>5, <1>6, <1>7, <2>2
    <3> DEFINE x == relay'[s][i].id
    <3>2. x \in Nat /\ lo < x /\ x <= hi
      BY <3>1
    <3> HIDE DEF x
    <3>3. g < x
      BY <1>1, <1>8, <3>2
    <3> QED BY <3>2, <3>3 DEF x
  <2> QED BY <1>4, <2>1, <2>2
<1>10. \A i, j \in UnreadRelay(s)' :
           (i < j /\ FrameOf(relay'[s][i], sl) /\ FrameOf(relay'[s][j], sl)) =>
               relay'[s][i].id < relay'[s][j].id
  <2> SUFFICES ASSUME NEW i \in UnreadRelay(s)', NEW j \in UnreadRelay(s)', i < j,
                      FrameOf(relay'[s][i], sl), FrameOf(relay'[s][j], sl)
               PROVE  relay'[s][i].id < relay'[s][j].id
    BY DEF FrameOf
  <2>1. CASE i \in U /\ j \in U
    <3>1. relay'[s][i] = relay[s][i] /\ relay'[s][j] = relay[s][j]
      BY <1>2, <1>4, <2>1
    <3> QED BY <2>1, <3>1 DEF RelayShape, U
  <2>2. CASE i \in U /\ j \in V
    <3>1. relay'[s][i].id \in Nat /\ relay'[s][i].id <= lo
      BY <1>2, <1>4, <1>6, <1>7, <1>8, <2>2
    <3>2. relay'[s][j].id \in Nat /\ lo < relay'[s][j].id
      BY <1>5, <1>6, <1>7, <2>2
    <3> DEFINE x == relay'[s][i].id
               y == relay'[s][j].id
    <3>3. x \in Nat /\ x <= lo /\ y \in Nat /\ lo < y
      BY <3>1, <3>2
    <3> HIDE DEF x, y
    <3>4. x < y
      BY <3>3
    <3> QED BY <3>4 DEF x, y
  <2>3. CASE i \in V /\ j \in V
    <3>1. i - m < j - m
      BY <1>1, <2>3 DEF V
    <3>2. i - m \in 1..Len(q) /\ j - m \in 1..Len(q) /\ relay'[s][i] = q[i - m] /\ relay'[s][j] = q[j - m]
      BY <1>5, <2>3
    <3> QED BY <3>1, <3>2 DEF Covers
  <2>4. CASE i \in V /\ j \in U
    <3>1. j < i
      BY <1>4, <2>4
    <3>2. i \in Int /\ j \in Int
      BY <1>1, <1>4, <2>4 DEF V
    <3> QED BY <3>1, <3>2
  <2> QED BY <1>4, <2>1, <2>2, <2>3, <2>4
<1>11. \A n \in (g + 1)..hi : \E i \in UnreadRelay(s)' : FrameOf(relay'[s][i], sl) /\ relay'[s][i].id = n
  <2> TAKE n \in (g + 1)..hi
  <2>1. CASE n > lo
    <3>1. n \in (lo + 1)..hi
      BY <1>1, <2>1
    <3>2. PICK i \in 1..Len(q) : FrameOf(q[i], sl) /\ q[i].id = n
      BY <3>1 DEF Covers
    <3>3. m + i \in V
      BY <1>1 DEF V
    <3>4. relay'[s][m + i] = q[i]
      BY <1>2
    <3> QED BY <1>4, <3>2, <3>3, <3>4
  <2>2. CASE ~(n > lo)
    <3>1. n \in (g + 1)..top
      BY <1>1, <2>2 DEF top, g
    <3>2. PICK i \in U : FrameOf(relay[s][i], sl) /\ relay[s][i].id = n
      BY <3>1 DEF RelayShape, U, top, g
    <3> QED BY <1>2, <1>4, <3>2
  <2> QED BY <2>1, <2>2
<1> QED BY <1>9, <1>10, <1>11 DEF RelayShape, FrameOf, g

\* A side that falls back with its peer's final counts puts exactly the missing frames
\* on the relay, after its own notice when it has not sent one yet.
LEMMA ResendStep ==
    ASSUME TypeOK, TypeOK', NEW s \in Sides, Direction(s), path[s] # "relay",
           leftLink[Other(s)], leftLink'[s], leftLink'[Other(s)],
           NEW first \in Seq(RelayMsgs),
           \A i \in 1..Len(first) : /\ first[i].kind # "frame" /\ first[i].kind # "switch"
                                    /\ first[i].kind = "fallback" => first[i].counts = delivered[s],
           relay'[s] = relay[s] \o (first \o Resent(s, delivered[Other(s)])),
           path'[s] = "relay", kept'[s] = [sl \in Slots |-> <<>>],
           switched'[s] = switched[s], base'[s] = base[s], sent'[s] = sent[s],
           nextNumber'[s] = nextNumber[s], link'[s] = link[s], delivered'[s] = delivered[s],
           read'[Other(s)] = read[Other(s)], linkRead'[Other(s)] = linkRead[Other(s)],
           delivered'[Other(s)] = delivered[Other(s)], held'[Other(s)] = held[Other(s)],
           inbox'[Other(s)] = inbox[Other(s)],
           peerSwitched'[Other(s)] = peerSwitched[Other(s)],
           peerFallback'[Other(s)] = peerFallback[Other(s)]
    PROVE  Direction(s)'
<1> DEFINE p == Other(s)
           R == Resent(s, delivered[p])
           q == first \o R
<1>1. /\ ReadBounds(s) /\ PathShape(s) /\ SwitchShape(s) /\ NoticeShape(s)
      /\ \A t \in Slots : /\ Numbering(s, t) /\ KeptShape(s, t) /\ InboxShape(s, t)
                          /\ HeldShape(s, t) /\ RelayShape(s, t) /\ LinkShape(s, t)
  BY DEF Direction
<1>2. /\ R \in Seq(RelayMsgs) /\ \A i \in 1..Len(R) : R[i].kind = "frame"
      /\ \A t \in Slots : Covers(R, t, base[s][t] + delivered[p][t], sent[s][t])
  BY ResentCovers
<1>3. switched[s]
  <2>1. path[s] \in Paths
    BY DEF TypeOK
  <2> QED BY <1>1, <2>1 DEF PathShape, Paths
<1> HIDE DEF R, p
<1>4. q \in Seq(RelayMsgs) /\ Len(q) = Len(first) + Len(R)
      /\ \A i \in 1..Len(q) : q[i].kind # "switch" /\ (q[i].kind = "fallback" => q[i].counts = delivered[s])
  <2>1. q \in Seq(RelayMsgs) /\ Len(q) = Len(first) + Len(R)
    BY <1>2
  <2>2. ASSUME NEW i \in 1..Len(q)
        PROVE  q[i].kind # "switch" /\ (q[i].kind = "fallback" => q[i].counts = delivered[s])
    <3>1. CASE i <= Len(first)
      <4>1. i \in 1..Len(first) /\ q[i] = first[i]
        BY <1>2, <2>1, <3>1
      <4> QED BY <4>1
    <3>2. CASE ~(i <= Len(first))
      <4>1. i - Len(first) \in 1..Len(R) /\ q[i] = R[i - Len(first)]
        BY <1>2, <2>1, <3>2
      <4> QED BY <1>2, <4>1
    <3> QED BY <3>1, <3>2
  <2> QED BY <2>1, <2>2
<1>5. relay'[s] = relay[s] \o q
  BY DEF R, p
<1>6. \A t \in Slots : Covers(q, t, base[s][t] + delivered[p][t], sent[s][t])
  <2> TAKE t \in Slots
  <2>1. \A i \in 1..Len(first) : ~FrameOf(first[i], t)
    BY DEF FrameOf
  <2>2. base[s][t] + delivered[p][t] \in Int /\ sent[s][t] \in Int
    <3>1. base[s][t] \in Nat /\ delivered[p][t] \in Nat /\ sent[s][t] \in Nat
      BY DirectionTypes DEF p
    <3> QED BY <3>1
  <2> QED BY <1>2, <2>1, <2>2, CoversAmong
<1> HIDE DEF q
<1>7. /\ relay[s] \in Seq(RelayMsgs) /\ Len(relay'[s]) = Len(relay[s]) + Len(q)
      /\ \A i \in 1..Len(relay[s]) : relay'[s][i] = relay[s][i]
      /\ \A i \in 1..Len(q) : relay'[s][Len(relay[s]) + i] = q[i]
      /\ Len(relay[s]) \in Nat /\ Len(q) \in Nat
  <2> DEFINE y == relay[s]
             z == y \o q
  <2>1. y \in Seq(RelayMsgs) /\ q \in Seq(RelayMsgs)
    BY <1>4 DEF TypeOK
  <2>2. relay'[s] = z
    BY <1>5
  <2> HIDE DEF y
  <2>3. /\ Len(z) = Len(y) + Len(q) /\ Len(y) \in Nat /\ Len(q) \in Nat
        /\ \A i \in 1..Len(y) : z[i] = y[i]
        /\ \A i \in 1..Len(q) : z[Len(y) + i] = q[i]
    BY <2>1
  <2> HIDE DEF z
  <2> QED BY <2>1, <2>2, <2>3 DEF y
<1>8. read[p] \in Nat /\ p \in Sides
  BY DirectionTypes, SlotsAreChannels DEF p
<1>9. ReadBounds(s)'
  <2>1. read[p] <= Len(relay[s]) /\ \A sl \in Slots : linkRead[p][sl] <= Len(link[s][sl])
    BY <1>1 DEF ReadBounds, p
  <2>2. read[p] <= Len(relay'[s])
    BY <1>7, <1>8, <2>1
  <2> QED BY <2>1, <2>2 DEF ReadBounds, p
<1>10. PathShape(s)'
  BY <1>1 DEF PathShape
<1>11. SwitchShape(s)'
  BY <1>3 DEF SwitchShape
<1>12. NoticeShape(s)'
  <2>1. ASSUME NEW i \in 1..Len(relay'[s]), relay'[s][i].kind = "fallback"
        PROVE  relay'[s][i].counts = delivered[s]
    <3>1. CASE i <= Len(relay[s])
      <4>1. i \in 1..Len(relay[s])
        BY <1>7, <3>1
      <4>2. relay'[s][i] = relay[s][i]
        BY <1>7, <4>1
      <4> QED BY <1>1, <2>1, <4>1, <4>2 DEF NoticeShape
    <3>2. CASE ~(i <= Len(relay[s]))
      <4>1. i - Len(relay[s]) \in 1..Len(q) /\ relay'[s][i] = q[i - Len(relay[s])]
        <5>1. i - Len(relay[s]) \in 1..Len(q) /\ Len(relay[s]) + (i - Len(relay[s])) = i
          BY <1>7, <3>2
        <5> QED BY <1>7, <5>1
      <4> QED BY <1>4, <2>1, <4>1
    <3> QED BY <3>1, <3>2
  <2>2. /\ \A i \in 1..Len(link[s]["typing"]) : link[s]["typing"][i].kind = "ack" =>
              \A sl \in Slots : link[s]["typing"][i].counts[sl] <= delivered[s][sl]
        /\ peerFallback[p] # NoCounts => peerFallback[p] = delivered[s]
    BY <1>1 DEF NoticeShape, p
  <2> QED BY <2>1, <2>2 DEF NoticeShape, p
<1>13. ASSUME NEW t \in Slots
       PROVE  RelayShape(s, t)'
  <2> DEFINE g == Got(s, t)
             b == base[s][t]
             d == delivered[p][t]
             hi == sent[s][t]
  <2>1. g \in Nat /\ b \in Nat /\ d \in Nat /\ hi \in Nat /\ nextNumber[s][t] \in Nat
    BY DirectionTypes DEF p
  <2>2. /\ LastOnRelay(s, t) = b /\ LastOnRelay(s, t)' = hi /\ Got(s, t)' = g
        /\ hi = b + nextNumber[s][t] - 1 /\ nextNumber[s][t] >= 1
        /\ IF peerSwitched[p] THEN g = b + d ELSE g <= b /\ d = 0
    BY <1>1 DEF LastOnRelay, Got, Numbering, LastOnLink, InboxShape, p
  <2> HIDE DEF g, b, d, hi
  <2>3. b + d \in Nat /\ hi \in Int /\ b <= hi
    BY <2>1, <2>2
  <2>4. \/ LastOnRelay(s, t) = b + d /\ g <= b + d /\ b + d <= hi
        \/ LastOnRelay(s, t) <= g /\ g = b + d
    BY <2>1, <2>2, <2>3
  <2>5. Covers(q, t, b + d, hi)
    BY <1>6 DEF b, d, hi
  <2>6. RelayShape(s, t) /\ read[p] <= Len(relay[s])
    BY <1>1 DEF ReadBounds, p
  <2> QED BY <1>4, <1>5, <2>2, <2>3, <2>4, <2>5, <2>6, RelayGrows DEF g, p
<1>14. ASSUME NEW t \in Slots
       PROVE  /\ Numbering(s, t)' /\ KeptShape(s, t)' /\ InboxShape(s, t)' /\ HeldShape(s, t)'
              /\ LinkShape(s, t)'
  <2>1. Numbering(s, t)' /\ KeptShape(s, t)'
    BY <1>1, <1>3 DEF Numbering, KeptShape
  <2>2. InboxShape(s, t)'
    BY <1>1 DEF InboxShape, Got
  <2>3. HeldShape(s, t)' /\ LinkShape(s, t)'
    BY <1>1 DEF HeldShape, LinkShape
  <2> QED BY <2>1, <2>2, <2>3
<1> QED BY <1>9, <1>10, <1>11, <1>12, <1>13, <1>14 DEF Direction

-----------------------------------------------------------------------------
(***************************************************************************)
(* What a side receives: each frame it takes off the relay or the link is  *)
(* the next one of its slot's stream.  With the sender's half this makes   *)
(* IInv inductive, and IInv gives InOrderOnce.                             *)
(***************************************************************************)

\* The messages at the positions D carry, in order, the places after lo up to hi.
InLine(D, id, lo, hi) ==
    /\ D \subseteq Nat /\ lo \in Int /\ hi \in Int
    /\ \A i \in D : id[i] \in Int /\ lo < id[i] /\ id[i] <= hi
    /\ \A i, j \in D : i < j => id[i] < id[j]
    /\ \A k \in (lo + 1)..hi : \E i \in D : id[i] = k

\* The first of them carries lo + 1, and the others the places after it.
LEMMA NextInLine ==
    ASSUME NEW D, NEW id, NEW f \in D, \A i \in D : f <= i,
           NEW lo, NEW hi, InLine(D, id, lo, hi)
    PROVE  id[f] = lo + 1 /\ lo + 1 <= hi /\ InLine(D \ {f}, id, lo + 1, hi)
<1> USE DEF InLine
<1>1. \A i \in D : i # f => id[f] < id[i]
  OBVIOUS
<1>2. lo < id[f] /\ id[f] <= hi /\ id[f] \in Int
  OBVIOUS
<1>3. PICK i \in D : id[i] = lo + 1
  <2>1. lo + 1 \in (lo + 1)..hi
    BY <1>2
  <2> QED BY <2>1
<1>4. id[f] = lo + 1
  <2>1. CASE i = f
    BY <1>3, <2>1
  <2>2. CASE i # f
    <3>1. id[f] < lo + 1
      BY <1>1, <1>3, <2>2
    <3> QED BY <1>2, <3>1
  <2> QED BY <2>1, <2>2
<1>5. \A j \in D \ {f} : id[j] \in Int /\ lo + 1 < id[j] /\ id[j] <= hi
  BY <1>1, <1>4
<1>6. \A k \in (lo + 1 + 1)..hi : \E j \in D \ {f} : id[j] = k
  <2> TAKE k \in (lo + 1 + 1)..hi
  <2>1. k \in (lo + 1)..hi /\ k # lo + 1
    OBVIOUS
  <2>2. PICK j \in D : id[j] = k
    BY <2>1
  <2> QED BY <1>4, <2>1, <2>2
<1> QED BY <1>2, <1>4, <1>5, <1>6

\* The next frame on the relay is the next of its slot's stream.
LEMMA RelayFrameStep ==
    ASSUME TypeOK, TypeOK', NEW s \in Sides, Direction(s), RelayFrame(Other(s)),
           NEW sl, sl = NextRelay(Other(s)).slot
    PROVE  Direction(s)'
<1> DEFINE p == Other(s)
           n == read[p] + 1
           f == relay[s][n]
<1>1. p \in Sides /\ Other(p) = s /\ read[p] \in Nat /\ relay[s] \in Seq(RelayMsgs)
  BY OtherSide DEF TypeOK
<1>2. /\ read[p] < Len(relay[s]) /\ f.kind = "frame" /\ f.slot = sl /\ read' = [read EXCEPT ![p] = @ + 1]
      /\ inbox' = [inbox EXCEPT ![p][sl] = Append(@, f.id)]
      /\ UNCHANGED <<path, switched, leftLink, kept, nextNumber, sent, base, held, delivered,
                     peerSwitched, peerFallback, relay, link, linkRead>>
  BY <1>1 DEF RelayFrame, ReadRelay, Unread, NextRelay, HandOver, flags, sending, peer
<1>3. n \in 1..Len(relay[s]) /\ f \in Frames /\ sl \in Slots /\ f.id \in Nat /\ read'[p] = n
  <2>1. n \in 1..Len(relay[s])
    BY <1>1, <1>2
  <2>2. f \in RelayMsgs
    BY <1>1, <2>1
  <2>3. read'[p] = n
    BY <1>1, <1>2 DEF TypeOK
  <2> QED BY <1>2, <2>1, <2>2, <2>3, RelayKinds
<1>4. /\ inbox'[p][sl] = Append(inbox[p][sl], f.id)
      /\ \A t \in Slots : t # sl => inbox'[p][t] = inbox[p][t]
  <2>1. inbox[p] \in [Slots -> Seq(Nat)] /\ inbox'[p] = [inbox[p] EXCEPT ![sl] = Append(inbox[p][sl], f.id)]
    BY <1>1, <1>2 DEF TypeOK
  <2> QED BY <1>3, <2>1
<1>5. /\ ReadBounds(s) /\ PathShape(s) /\ SwitchShape(s) /\ NoticeShape(s)
      /\ \A t \in Slots : /\ Numbering(s, t) /\ KeptShape(s, t) /\ InboxShape(s, t)
                          /\ HeldShape(s, t) /\ RelayShape(s, t) /\ LinkShape(s, t)
  BY DEF Direction
<1>6. /\ UnreadRelay(s) = n..Len(relay[s]) /\ UnreadRelay(s)' = (n + 1)..Len(relay[s])
  BY <1>2, <1>3 DEF UnreadRelay
<1> HIDE DEF f, n, p
<1>7. n \in UnreadRelay(s) /\ UnreadRelay(s)' = UnreadRelay(s) \ {n} /\ \A i \in UnreadRelay(s) : n <= i
  BY <1>1, <1>3, <1>6 DEF n
<1>8. UnreadRelay(s) \subseteq Nat /\ \A i \in UnreadRelay(s) : i \in 1..Len(relay[s]) /\ relay[s][i] \in RelayMsgs
  <2>1. \A i \in UnreadRelay(s) : i \in 1..Len(relay[s])
    BY <1>1, <1>3, <1>6 DEF n
  <2> QED BY <1>1, <2>1
<1> DEFINE D == {i \in UnreadRelay(s) : FrameOf(relay[s][i], sl)}
           id == [i \in D |-> relay[s][i].id]
           lo == Got(s, sl)
           hi == LastOnRelay(s, sl)
<1>9. n \in D /\ \A i \in D : n <= i
  BY <1>2, <1>7 DEF FrameOf, f
<1>10. InLine(D, id, lo, hi)
  <2>1. \A i \in D : relay[s][i].id \in Int
    BY <1>8, RelayKinds DEF FrameOf
  <2>2. lo \in Int /\ hi \in Int
    BY <1>3, DirectionTypes
  <2>3. /\ \A i \in D : lo < id[i] /\ id[i] <= hi
        /\ \A i, j \in D : i < j => id[i] < id[j]
        /\ \A k \in (lo + 1)..hi : \E i \in D : id[i] = k
    BY <1>3, <1>5 DEF RelayShape
  <2> QED BY <1>8, <2>1, <2>2, <2>3 DEF InLine
<1> HIDE DEF D, id, lo, hi
<1>11. id[n] = lo + 1 /\ lo + 1 <= hi /\ InLine(D \ {n}, id, lo + 1, hi)
  BY <1>9, <1>10, NextInLine
<1>12. f.id = lo + 1 /\ lo + 1 <= hi /\ lo \in Nat
  BY <1>3, <1>9, <1>11, DirectionTypes DEF id, f, lo
<1>13. Got(s, sl)' = lo + 1 /\ \A t \in Slots : t # sl => Got(s, t)' = Got(s, t)
  <2>1. Len(inbox'[p][sl]) = Len(inbox[p][sl]) + 1
    BY <1>1, <1>3, <1>4 DEF TypeOK
  <2> QED BY <1>4, <2>1 DEF Got, lo, p
<1>14. \A t \in Slots : LastOnRelay(s, t)' = LastOnRelay(s, t)
  BY <1>2 DEF LastOnRelay
<1>15. RelayShape(s, sl)'
  <2>1. \A i \in UnreadRelay(s)' : FrameOf(relay'[s][i], sl) =>
            i \in D \ {n} /\ id[i] = relay'[s][i].id
    BY <1>2, <1>7 DEF D, id
  <2>2. \A i \in D \ {n} : i \in UnreadRelay(s)' /\ FrameOf(relay'[s][i], sl) /\ id[i] = relay'[s][i].id
    BY <1>2, <1>7 DEF D, id
  <2>3. LastOnRelay(s, sl)' = hi
    BY <1>3, <1>14 DEF hi
  <2>5. \A i \in UnreadRelay(s)' : FrameOf(relay'[s][i], sl) =>
            lo + 1 < relay'[s][i].id /\ relay'[s][i].id <= hi
    BY <1>11, <2>1 DEF InLine
  <2>6. \A i, j \in UnreadRelay(s)' : (i < j /\ FrameOf(relay'[s][i], sl) /\ FrameOf(relay'[s][j], sl)) =>
            relay'[s][i].id < relay'[s][j].id
    BY <1>11, <2>1 DEF InLine
  <2>7. \A k \in (lo + 1 + 1)..hi : \E i \in UnreadRelay(s)' : FrameOf(relay'[s][i], sl) /\ relay'[s][i].id = k
    BY <1>11, <2>2 DEF InLine
  <2> QED BY <1>13, <2>3, <2>5, <2>6, <2>7 DEF RelayShape, FrameOf
<1>16. ASSUME NEW t \in Slots, t # sl
       PROVE  RelayShape(s, t)'
  <2>1. <<>> \in Seq(RelayMsgs) /\ Len(<<>>) = 0 /\ relay'[s] = relay[s] \o <<>>
    BY <1>1, <1>2
  <2>2. ASSUME NEW i \in (read[p] + 1)..read'[p] PROVE ~FrameOf(relay[s][i], t)
    <3>1. i = n
      BY <1>1, <1>3, <2>2 DEF n
    <3> QED BY <1>2, <1>16, <3>1 DEF FrameOf, f
  <2>3. read'[p] >= read[p] /\ read[p] <= Len(relay[s])
    BY <1>1, <1>2, <1>3 DEF n
  <2>4. \A i \in 1..Len(<<>>) : ~FrameOf(<<>>[i], t)
    BY <2>1
  <2> HIDE DEF p
  <2> QED BY <1>5, <1>13, <1>14, <1>16, <2>1, <2>2, <2>3, <2>4, RelayStep DEF p
<1>17. SwitchShape(s)'
  BY <1>2, <1>5, <1>7 DEF SwitchShape, p
<1>18. ReadBounds(s)' /\ PathShape(s)' /\ NoticeShape(s)'
  <2>1. ReadBounds(s)'
    BY <1>2, <1>3, <1>5 DEF ReadBounds, p, n
  <2> QED BY <1>2, <1>5, <2>1 DEF PathShape, NoticeShape
<1>19. ASSUME NEW t \in Slots
       PROVE  Numbering(s, t)' /\ KeptShape(s, t)' /\ HeldShape(s, t)' /\ LinkShape(s, t)'
  <2>1. Numbering(s, t)' /\ KeptShape(s, t)' /\ HeldShape(s, t)'
    BY <1>2, <1>5 DEF Numbering, KeptShape, HeldShape, LastOnLink, Confirmed
  <2>2. LinkShape(s, t)'
    BY <1>2, <1>5 DEF LinkShape, UnreadLink, TakenOff, LastOnLink
  <2> QED BY <2>1, <2>2
<1>20. ASSUME NEW t \in Slots, t # sl
       PROVE  InboxShape(s, t)'
  BY <1>2, <1>4, <1>5, <1>13, <1>20 DEF InboxShape, p
<1>21. InboxShape(s, sl)'
  <2>1. /\ lo + 1 <= sent[s][sl]
        /\ path[s] # "relay" => lo + 1 <= base[s][sl] /\ ~peerSwitched[p]
    <3>1. /\ base[s][sl] \in Nat /\ sent[s][sl] \in Nat /\ nextNumber[s][sl] \in Nat
          /\ delivered[p][sl] \in Nat
      BY <1>3, DirectionTypes DEF p
    <3>2. CASE path[s] = "relay"
      BY <1>12, <3>2 DEF hi, LastOnRelay
    <3>3. CASE path[s] # "relay"
      <4>1. hi = base[s][sl] /\ sent[s][sl] = base[s][sl] + nextNumber[s][sl] - 1 /\ nextNumber[s][sl] >= 1
        BY <1>3, <1>5, <3>3 DEF hi, LastOnRelay, Numbering, LastOnLink
      <4>2. peerSwitched[p] => lo = base[s][sl] + delivered[p][sl]
        BY <1>3, <1>5, <3>3 DEF InboxShape, lo, p
      <4> QED BY <1>12, <3>1, <4>1, <4>2
    <3> QED BY <3>2, <3>3
  <2>2. \A i \in 1..(lo + 1) : inbox'[p][sl][i] = i
    <3>1. \A i \in 1..lo : inbox[p][sl][i] = i
      BY <1>3, <1>5 DEF InboxShape, lo, p
    <3>2. inbox[p][sl] \in Seq(Nat) /\ Len(inbox[p][sl]) = lo
      BY <1>1, <1>3 DEF TypeOK, Got, lo, p
    <3>3. \A i \in 1..lo : inbox'[p][sl][i] = inbox[p][sl][i]
      BY <1>3, <1>4, <3>2
    <3>4. inbox'[p][sl][lo + 1] = lo + 1
      BY <1>3, <1>4, <1>12, <3>2
    <3> QED BY <1>12, <3>1, <3>3, <3>4
  <2>3. ~peerSwitched[p] => delivered[p][sl] = 0
    BY <1>3, <1>5 DEF InboxShape, p
  <2> QED BY <1>2, <1>13, <2>1, <2>2, <2>3 DEF InboxShape, p
<1> QED BY <1>15, <1>16, <1>17, <1>18, <1>19, <1>20, <1>21 DEF Direction

\* The switch notice: everything put on the relay before it has been handed over.
LEMMA RelaySwitchStep ==
    ASSUME TypeOK, TypeOK', NEW s \in Sides, Direction(s), RelaySwitch(Other(s))
    PROVE  Direction(s)'
<1> DEFINE p == Other(s)
           n == read[p] + 1
<1>1. p \in Sides /\ Other(p) = s /\ read[p] \in Nat /\ relay[s] \in Seq(RelayMsgs)
  BY OtherSide DEF TypeOK
<1>2. /\ read[p] < Len(relay[s]) /\ relay[s][n].kind = "switch" /\ read' = [read EXCEPT ![p] = @ + 1]
      /\ UNCHANGED <<path, switched, leftLink, kept, nextNumber, sent, base, held, delivered, inbox,
                     peerFallback, relay, link, linkRead>>
      /\ IF peerSwitched[p] \/ leftLink[p] THEN peerSwitched' = peerSwitched
         ELSE peerSwitched' = [peerSwitched EXCEPT ![p] = TRUE]
  BY <1>1 DEF RelaySwitch, ReadRelay, Unread, NextRelay, sending, receiving
<1>3. n \in 1..Len(relay[s]) /\ read'[p] = n
  BY <1>1, <1>2 DEF TypeOK
<1>4. /\ ReadBounds(s) /\ PathShape(s) /\ SwitchShape(s) /\ NoticeShape(s)
      /\ \A t \in Slots : /\ Numbering(s, t) /\ KeptShape(s, t) /\ InboxShape(s, t)
                          /\ HeldShape(s, t) /\ RelayShape(s, t) /\ LinkShape(s, t)
  BY DEF Direction
<1>5. UnreadRelay(s) = n..Len(relay[s]) /\ UnreadRelay(s)' = (n + 1)..Len(relay[s])
  BY <1>2, <1>3 DEF UnreadRelay
<1> HIDE DEF n, p
<1>6. n \in UnreadRelay(s) /\ UnreadRelay(s)' = UnreadRelay(s) \ {n} /\ \A i \in UnreadRelay(s) : n <= i /\ i \in Nat
  BY <1>3, <1>5
<1>7. switched[s] /\ (~leftLink[p] => \A j \in UnreadRelay(s) : relay[s][j].kind # "frame")
  BY <1>2, <1>4, <1>6 DEF SwitchShape, p
<1>8. ~leftLink[p] => path[s] # "relay"
  BY <1>4, <1>7 DEF PathShape, p
<1>9. ReadBounds(s)'
  BY <1>2, <1>3, <1>4 DEF ReadBounds, p
<1>10. PathShape(s)'
  BY <1>2, <1>4, <1>7 DEF PathShape
<1>11. SwitchShape(s)'
  BY <1>2, <1>4, <1>6 DEF SwitchShape
<1>12. NoticeShape(s)'
  BY <1>2, <1>4 DEF NoticeShape
<1>13. ASSUME NEW t \in Slots
       PROVE  RelayShape(s, t)'
  <2>1. Got(s, t)' = Got(s, t) /\ LastOnRelay(s, t)' = LastOnRelay(s, t)
    BY <1>2 DEF Got, LastOnRelay
  <2>2. ~FrameOf(relay[s][n], t)
    BY <1>2 DEF FrameOf
  <2>3. RelayShape(s, t)
    BY <1>4
  <2> QED BY <1>2, <1>6, <2>1, <2>2, <2>3 DEF RelayShape
<1>14. ASSUME NEW t \in Slots
       PROVE  Numbering(s, t)' /\ KeptShape(s, t)' /\ HeldShape(s, t)' /\ LinkShape(s, t)'
  <2>1. Numbering(s, t)' /\ KeptShape(s, t)' /\ HeldShape(s, t)'
    BY <1>2, <1>4 DEF Numbering, KeptShape, HeldShape, LastOnLink, Confirmed
  <2>2. LinkShape(s, t)'
    <3>1. /\ UnreadLink(s, t)' = UnreadLink(s, t) /\ TakenOff(s, t)' = TakenOff(s, t)
          /\ LastOnLink(s, t)' = LastOnLink(s, t)
      BY <1>2 DEF UnreadLink, TakenOff, LastOnLink
    <3>2. LinkShape(s, t)
      BY <1>4
    <3> QED BY <1>2, <3>1, <3>2 DEF LinkShape
  <2> QED BY <2>1, <2>2
<1>15. ASSUME NEW t \in Slots
       PROVE  InboxShape(s, t)'
  <2>1. CASE peerSwitched[p] \/ leftLink[p]
    BY <1>2, <1>4, <2>1 DEF InboxShape, Got
  <2>2. CASE ~(peerSwitched[p] \/ leftLink[p])
    <3>1. Got(s, t) \in Nat /\ base[s][t] \in Nat /\ delivered[p][t] = 0 /\ Got(s, t) <= base[s][t]
      BY <1>4, <1>8, <2>2, DirectionTypes DEF InboxShape, p
    <3>2. (Got(s, t) + 1)..base[s][t] = {}
      <4>1. LastOnRelay(s, t) = base[s][t]
        BY <1>8, <2>2 DEF LastOnRelay
      <4>2. \A i \in UnreadRelay(s) : ~FrameOf(relay[s][i], t)
        BY <1>7, <2>2 DEF FrameOf
      <4> QED BY <1>4, <4>1, <4>2 DEF RelayShape
    <3>3. Got(s, t) = base[s][t] + delivered[p][t]
      <4>1. ~(Got(s, t) + 1 <= base[s][t])
        BY <3>1, <3>2
      <4> QED BY <3>1, <4>1
    <3>4. peerSwitched'[p]
      BY <1>1, <1>2, <2>2 DEF TypeOK
    <3> QED BY <1>2, <1>4, <3>3, <3>4 DEF InboxShape, Got, p
  <2> QED BY <2>1, <2>2
<1> QED BY <1>9, <1>10, <1>11, <1>12, <1>13, <1>14, <1>15 DEF Direction

\* While the peer is on the link and has the notice, it has handed over what was put on
\* the relay and what it counts as delivered, and the sender is not back on the relay.
LEMMA OnLink ==
    ASSUME TypeOK, NEW s \in Sides, Direction(s), peerSwitched[Other(s)], ~leftLink[Other(s)]
    PROVE  /\ path[s] # "relay" /\ switched[s]
           /\ \A t \in Slots : /\ Got(s, t) = base[s][t] + delivered[Other(s)][t]
                               /\ sent[s][t] = LastOnLink(s, t)
                               /\ LastOnRelay(s, t) = base[s][t]
<1>1. PathShape(s) /\ \A t \in Slots : InboxShape(s, t) /\ Numbering(s, t)
  BY DEF Direction
<1>2. switched[s] /\ path[s] # "relay"
  BY <1>1 DEF PathShape
<1> QED BY <1>1, <1>2 DEF InboxShape, Numbering, LastOnRelay

\* A link frame is handed over: it is the next of its slot's stream.
LEMMA DeliveredStep ==
    ASSUME TypeOK, TypeOK', NEW s \in Sides, Direction(s), NEW sl \in Slots, NEW id \in Nat,
           peerSwitched[Other(s)], ~leftLink[Other(s)],
           id = base[s][sl] + delivered[Other(s)][sl] + 1, id <= sent[s][sl],
           delivered'[Other(s)] = [delivered[Other(s)] EXCEPT ![sl] = @ + 1],
           inbox'[Other(s)] = [inbox[Other(s)] EXCEPT ![sl] = Append(@, id)],
           path'[s] = path[s], switched'[s] = switched[s],
           leftLink'[s] = leftLink[s], leftLink'[Other(s)] = leftLink[Other(s)],
           kept'[s] = kept[s], nextNumber'[s] = nextNumber[s], sent'[s] = sent[s], base'[s] = base[s],
           peerSwitched'[Other(s)] = peerSwitched[Other(s)],
           peerFallback'[Other(s)] = peerFallback[Other(s)],
           relay'[s] = relay[s], read'[Other(s)] = read[Other(s)], link'[s] = link[s],
           delivered'[s] = delivered[s]
    PROVE  /\ PathShape(s)' /\ SwitchShape(s)' /\ NoticeShape(s)'
           /\ \A t \in Slots : /\ Numbering(s, t)' /\ KeptShape(s, t)' /\ InboxShape(s, t)'
                               /\ RelayShape(s, t)'
<1> DEFINE p == Other(s)
<1>1. /\ PathShape(s) /\ SwitchShape(s) /\ NoticeShape(s)
      /\ \A t \in Slots : /\ Numbering(s, t) /\ KeptShape(s, t) /\ InboxShape(s, t) /\ RelayShape(s, t)
  BY DEF Direction
<1>2. /\ path[s] # "relay" /\ switched[s]
      /\ \A t \in Slots : /\ Got(s, t) = base[s][t] + delivered[p][t]
                          /\ sent[s][t] = LastOnLink(s, t) /\ LastOnRelay(s, t) = base[s][t]
  BY OnLink
<1>3. p \in Sides /\ delivered[p] \in [Slots -> Nat] /\ inbox[p] \in [Slots -> Seq(Nat)]
  BY OtherSide DEF TypeOK, Counts
<1> HIDE DEF p
<1>4. /\ delivered'[p][sl] = delivered[p][sl] + 1 /\ inbox'[p][sl] = Append(inbox[p][sl], id)
      /\ \A t \in Slots : t # sl => delivered'[p][t] = delivered[p][t] /\ inbox'[p][t] = inbox[p][t]
  BY <1>3 DEF p
<1>5. PathShape(s)' /\ SwitchShape(s)' /\ NoticeShape(s)'
  BY <1>1 DEF PathShape, SwitchShape, NoticeShape, UnreadRelay
<1>6. \A t \in Slots : Numbering(s, t)'
  BY <1>1 DEF Numbering, LastOnLink
<1>7. ASSUME NEW t \in Slots
      PROVE  /\ delivered[p][t] \in Nat /\ delivered'[p][t] \in Nat /\ delivered'[p][t] >= delivered[p][t]
             /\ Got(s, t)' = base[s][t] + delivered'[p][t] /\ base[s][t] \in Nat /\ Got(s, t) \in Nat
             /\ \A i \in 1..Got(s, t)' : inbox'[p][t][i] = i
             /\ Got(s, t)' <= sent[s][t]
  <2>1. /\ delivered[p][t] \in Nat /\ base[s][t] \in Nat /\ Got(s, t) \in Nat
        /\ Got(s, t) = base[s][t] + delivered[p][t] /\ Len(inbox[p][t]) = Got(s, t)
        /\ inbox[p][t] \in Seq(Nat) /\ Got(s, t) <= sent[s][t]
        /\ \A i \in 1..Got(s, t) : inbox[p][t][i] = i
    BY <1>1, <1>2, <1>3, DirectionTypes DEF Got, InboxShape, p
  <2>2. Got(s, t)' = Len(inbox'[p][t])
    BY DEF Got, p
  <2>3. CASE t = sl
    <3>1. Len(inbox'[p][t]) = Got(s, t) + 1 /\ id = Got(s, t) + 1
      <4>1. Len(inbox'[p][t]) = Len(inbox[p][t]) + 1
        BY <1>4, <2>1, <2>3
      <4>2. id = base[s][t] + delivered[p][t] + 1
        BY <2>3 DEF p
      <4> QED BY <2>1, <4>1, <4>2
    <3>2. \A i \in 1..(Got(s, t) + 1) : inbox'[p][t][i] = i
      <4>1. \A i \in 1..Got(s, t) : inbox'[p][t][i] = inbox[p][t][i]
        BY <1>4, <2>1, <2>3, SMTT(30)
      <4>2. inbox'[p][t][Got(s, t) + 1] = id
        BY <1>4, <2>1, <2>3
      <4> TAKE i \in 1..(Got(s, t) + 1)
      <4>3. CASE i = Got(s, t) + 1
        BY <3>1, <4>2, <4>3
      <4>4. CASE i # Got(s, t) + 1
        <5>1. i \in 1..Got(s, t)
          BY <2>1, <4>4
        <5> QED BY <2>1, <4>1, <5>1
      <4> QED BY <4>3, <4>4
    <3>3. delivered'[p][t] = delivered[p][t] + 1 /\ id <= sent[s][t]
      BY <1>4, <2>3
    <3> QED BY <2>1, <2>2, <3>1, <3>2, <3>3, SMTT(30)
  <2>4. CASE t # sl
    BY <1>4, <2>1, <2>2, <2>4, SMTT(30)
  <2> QED BY <2>3, <2>4
<1>8. ASSUME NEW t \in Slots
      PROVE  KeptShape(s, t)' /\ InboxShape(s, t)' /\ RelayShape(s, t)'
  <2>1. KeptShape(s, t)'
    <3>1. KeptShape(s, t) /\ Confirmed(s, t)' = Confirmed(s, t) /\ Confirmed(s, t) \in Int
      <4>1. nextNumber[s][t] \in Nat /\ kept[s][t] \in Seq(Kept)
        BY DirectionTypes
      <4>2. Len(kept[s][t]) \in Nat
        BY <4>1
      <4>3. Confirmed(s, t) \in Int
        <5> DEFINE x == nextNumber[s][t]
                   y == Len(kept[s][t])
        <5>1. Confirmed(s, t) = x - 1 - y
          BY DEF Confirmed
        <5>2. x \in Nat /\ y \in Nat
          BY <4>1, <4>2
        <5> HIDE DEF x, y
        <5> QED BY <5>1, <5>2
      <4>4. Confirmed(s, t)' = Confirmed(s, t)
        BY DEF Confirmed
      <4> QED BY <1>1, <4>3, <4>4
    <3>2. Confirmed(s, t) <= delivered'[p][t]
      BY <1>2, <1>7, <3>1 DEF KeptShape, p
    <3> QED BY <1>2, <3>1, <3>2 DEF KeptShape, p
  <2>2. InboxShape(s, t)'
    BY <1>7 DEF InboxShape, p
  <2>3. RelayShape(s, t)'
    <3>1. LastOnRelay(s, t)' = base[s][t]
      BY <1>2 DEF LastOnRelay
    <3>2. \A i \in UnreadRelay(s)' : ~FrameOf(relay'[s][i], t)
      <4> SUFFICES ASSUME NEW i \in UnreadRelay(s), FrameOf(relay[s][i], t)
                   PROVE  FALSE
        BY DEF UnreadRelay
      <4>1. Got(s, t) < relay[s][i].id /\ relay[s][i].id <= base[s][t]
        BY <1>1, <1>2 DEF RelayShape
      <4>2. relay[s][i].id \in Nat
        <5>1. relay[s][i] \in RelayMsgs
          <6>1. relay[s] \in Seq(RelayMsgs) /\ read[p] \in Nat
            BY <1>3 DEF TypeOK
          <6>2. i \in 1..Len(relay[s])
            BY <6>1 DEF UnreadRelay, p
          <6> QED BY <6>1, <6>2
        <5> QED BY <5>1, RelayKinds DEF FrameOf
      <4>3. Got(s, t) = base[s][t] + delivered[p][t]
        BY <1>2
      <4> QED BY <1>7, <4>1, <4>2, <4>3
    <3>3. (Got(s, t)' + 1)..base[s][t] = {}
      BY <1>7
    <3> QED BY <3>1, <3>2, <3>3 DEF RelayShape
  <2> QED BY <2>1, <2>2, <2>3
<1> QED BY <1>5, <1>6, <1>8

\* One more frame is taken off a channel of the link, from its position n.
LEMMA LinkTaken ==
    ASSUME TypeOK, TypeOK', NEW s \in Sides, Direction(s), NEW sl \in Slots,
           ~leftLink[Other(s)], leftLink'[Other(s)] = leftLink[Other(s)],
           linkRead[Other(s)][sl] < Len(link[s][sl]),
           link[s][sl][linkRead[Other(s)][sl] + 1].kind = "frame",
           linkRead'[Other(s)][sl] = linkRead[Other(s)][sl] + 1,
           link'[s] = link[s], switched'[s] = switched[s], base'[s] = base[s],
           nextNumber'[s] = nextNumber[s]
    PROVE  /\ switched[s]
           /\ link[s][sl][linkRead[Other(s)][sl] + 1] \in Frames
           /\ link[s][sl][linkRead[Other(s)][sl] + 1].slot = sl
           /\ link[s][sl][linkRead[Other(s)][sl] + 1].id = TakenOff(s, sl) + 1
           /\ TakenOff(s, sl) + 1 <= LastOnLink(s, sl)
           /\ TakenOff(s, sl)' = TakenOff(s, sl) + 1 => LinkShape(s, sl)'
<1> DEFINE p == Other(s)
           n == linkRead[p][sl] + 1
           q == link[s][sl]
<1>1. linkRead[p][sl] \in Nat /\ q \in Seq(LinkMsgs) /\ TakenOff(s, sl) \in Nat /\ LastOnLink(s, sl) \in Int
  BY DirectionTypes
<1>2. LinkShape(s, sl)
  BY DEF Direction
<1>3. UnreadLink(s, sl) = n..Len(q) /\ UnreadLink(s, sl)' = (n + 1)..Len(q)
  BY DEF UnreadLink
<1>4. n \in 1..Len(q) /\ n \in Nat /\ Len(q) \in Nat
  BY <1>1, SMTT(30)
<1> HIDE DEF n
<1>5. /\ n \in UnreadLink(s, sl) /\ UnreadLink(s, sl)' = UnreadLink(s, sl) \ {n}
      /\ \A i \in UnreadLink(s, sl) : n <= i /\ i \in 1..Len(q) /\ i \in Nat
  BY <1>3, <1>4
<1>6. q[n].kind = "frame" /\ q[n] \in LinkMsgs
  BY <1>1, <1>4 DEF n, p
<1>7. switched[s] /\ q[n].slot = sl /\ q[n] \in Frames
  BY <1>2, <1>4, <1>6, RelayKinds DEF LinkShape
<1> DEFINE D == {i \in UnreadLink(s, sl) : q[i].kind = "frame"}
           id == [i \in D |-> q[i].id]
           lo == TakenOff(s, sl)
           hi == LastOnLink(s, sl)
<1>8. n \in D /\ \A i \in D : n <= i
  BY <1>5, <1>6
<1>9. InLine(D, id, lo, hi)
  <2>1. \A i \in D : q[i].id \in Int
    BY <1>1, <1>5, RelayKinds
  <2>2. /\ \A i \in D : lo < id[i] /\ id[i] <= hi
        /\ \A i, j \in D : i < j => id[i] < id[j]
        /\ \A k \in (lo + 1)..hi : \E i \in D : id[i] = k
    BY <1>2 DEF LinkShape
  <2>3. D \subseteq Nat /\ lo \in Int /\ hi \in Int /\ \A i \in D : id[i] \in Int
    BY <1>1, <1>5, <2>1
  <2> HIDE DEF D, id, lo, hi
  <2> QED BY <2>2, <2>3 DEF InLine
<1>10. D \ {n} = {i \in UnreadLink(s, sl)' : q[i].kind = "frame"} /\ \A i \in D : id[i] = q[i].id
  BY <1>5
<1> HIDE DEF D, id, lo, hi
<1>11. id[n] = lo + 1 /\ lo + 1 <= hi /\ InLine(D \ {n}, id, lo + 1, hi)
  BY <1>8, <1>9, NextInLine
<1>12. ASSUME TakenOff(s, sl)' = lo + 1
       PROVE  LinkShape(s, sl)'
  <2>1. LastOnLink(s, sl)' = hi /\ link'[s][sl] = q
    BY DEF LastOnLink, hi
  <2>2. \A i \in 1..Len(q) : q[i].kind = "frame" => switched'[s] /\ q[i].slot = sl
    BY <1>2 DEF LinkShape
  <2> HIDE DEF q
  <2>3. /\ \A i \in UnreadLink(s, sl)' : q[i].kind = "frame" => lo + 1 < q[i].id /\ q[i].id <= hi
        /\ \A i, j \in UnreadLink(s, sl)' :
              (i < j /\ q[i].kind = "frame" /\ q[j].kind = "frame") => q[i].id < q[j].id
    BY <1>10, <1>11 DEF InLine
  <2>4. \A k \in (lo + 1 + 1)..hi : \E i \in UnreadLink(s, sl)' : q[i].kind = "frame" /\ q[i].id = k
    <3> TAKE k \in (lo + 1 + 1)..hi
    <3>1. PICK i \in D \ {n} : id[i] = k
      BY <1>11 DEF InLine
    <3> QED BY <1>10, <3>1
  <2> QED BY <1>11, <1>12, <2>1, <2>2, <2>3, <2>4 DEF LinkShape
<1>13. q[n].id = lo + 1
  BY <1>8, <1>10, <1>11
<1> QED BY <1>7, <1>11, <1>12, <1>13 DEF lo, hi, n, p

\* A frame ahead of the notice joins the held ones.
LEMMA HoldStep ==
    ASSUME TypeOK, TypeOK', NEW s \in Sides, Direction(s), NEW sl \in Slots,
           LinkAhead(Other(s), sl), leftLink'[Other(s)] = leftLink[Other(s)]
    PROVE  Direction(s)'
<1> DEFINE p == Other(s)
           f == link[s][sl][linkRead[p][sl] + 1]
<1>1. p \in Sides /\ Other(p) = s
  BY OtherSide
<1>2. /\ ~leftLink[p] /\ ~peerSwitched[p] /\ f.kind = "frame"
      /\ linkRead[p][sl] < Len(link[s][sl]) /\ linkRead' = [linkRead EXCEPT ![p][sl] = @ + 1]
      /\ UNCHANGED <<peerSwitched, peerFallback, read, link>>
  BY <1>1 DEF LinkAhead, ReadLink, NextLink, peer
<1>3. /\ held' = [held EXCEPT ![p][sl] = Append(@, f)]
      /\ UNCHANGED <<path, switched, leftLink, kept, nextNumber, sent, base, delivered, inbox, relay>>
  <2>1. ~Leave(p, peerFallback[p])
    <3>1. leftLink[p] = FALSE
      BY <1>1, <1>2 DEF TypeOK
    <3>2. leftLink' = [leftLink EXCEPT ![p] = TRUE] => leftLink'[p]
      BY <1>1 DEF TypeOK
    <3> QED BY <3>1, <3>2 DEF Leave
  <2> QED BY <1>1, <2>1 DEF LinkAhead, NextLink, flags, sending
<1>4. /\ linkRead'[p][sl] = linkRead[p][sl] + 1 /\ held'[p][sl] = Append(held[p][sl], f)
      /\ \A t \in Slots : t # sl => linkRead'[p][t] = linkRead[p][t] /\ held'[p][t] = held[p][t]
  <2> HIDE DEF f
  <2>1. linkRead[p] \in [Slots -> Nat] /\ held[p] \in [Slots -> Seq(Frames)]
    BY <1>1 DEF TypeOK, Counts
  <2>2. /\ linkRead'[p] = [linkRead[p] EXCEPT ![sl] = linkRead[p][sl] + 1]
        /\ held'[p] = [held[p] EXCEPT ![sl] = Append(held[p][sl], f)]
    BY <1>1, <1>2, <1>3 DEF TypeOK
  <2> QED BY <2>1, <2>2
<1>5. /\ switched[s] /\ f \in Frames /\ f.slot = sl /\ f.id = TakenOff(s, sl) + 1
      /\ TakenOff(s, sl)' = TakenOff(s, sl) + 1 => LinkShape(s, sl)'
  BY <1>2, <1>3, <1>4, LinkTaken
<1>6. /\ ReadBounds(s) /\ PathShape(s) /\ SwitchShape(s) /\ NoticeShape(s)
      /\ \A t \in Slots : /\ Numbering(s, t) /\ KeptShape(s, t) /\ InboxShape(s, t)
                          /\ HeldShape(s, t) /\ RelayShape(s, t) /\ LinkShape(s, t)
  BY DEF Direction
<1> HIDE DEF f, p
<1>7. /\ held[p][sl] \in Seq(Frames) /\ Len(held'[p][sl]) = Len(held[p][sl]) + 1 /\ Len(held[p][sl]) \in Nat
      /\ \A i \in 1..Len(held[p][sl]) : held'[p][sl][i] = held[p][sl][i]
      /\ held'[p][sl][Len(held[p][sl]) + 1] = f
  <2>1. held[p][sl] \in Seq(Frames)
    BY DirectionTypes DEF p
  <2> QED BY <1>4, <1>5, <2>1
<1>8. TakenOff(s, sl)' = TakenOff(s, sl) + 1
  <2> DEFINE b == base[s][sl]
             d == delivered[p][sl]
             h == Len(held[p][sl])
  <2>1. b \in Nat /\ d \in Nat /\ h \in Nat
    BY <1>7, DirectionTypes DEF p
  <2>2. TakenOff(s, sl) = b + d + h
    BY DEF TakenOff, p
  <2>3. TakenOff(s, sl)' = b + d + (h + 1)
    <3>1. Len(held'[p][sl]) = h + 1
      BY <1>7
    <3> QED BY <1>3, <3>1 DEF TakenOff, p
  <2> HIDE DEF b, d, h
  <2> QED BY <2>1, <2>2, <2>3
<1>9. LinkShape(s, sl)'
  BY <1>5, <1>8
<1>10. ASSUME NEW t \in Slots, t # sl
       PROVE  LinkShape(s, t)' /\ HeldShape(s, t)'
  <2>1. /\ UnreadLink(s, t)' = UnreadLink(s, t) /\ TakenOff(s, t)' = TakenOff(s, t)
        /\ LastOnLink(s, t)' = LastOnLink(s, t)
    BY <1>2, <1>3, <1>4, <1>10 DEF UnreadLink, TakenOff, LastOnLink, p
  <2>2. LinkShape(s, t) /\ HeldShape(s, t)
    BY <1>6
  <2>3. LinkShape(s, t)'
    BY <1>2, <1>3, <2>1, <2>2 DEF LinkShape
  <2>4. HeldShape(s, t)'
    BY <1>3, <1>4, <1>10, <2>2 DEF HeldShape, p
  <2> QED BY <2>3, <2>4
<1>11. HeldShape(s, sl)'
  <2> DEFINE b == base[s][sl]
             d == delivered[p][sl]
             h == Len(held[p][sl])
  <2>1. b \in Nat /\ d \in Nat /\ h \in Nat
    BY <1>7, DirectionTypes DEF p
  <2>2. f.id = b + d + h + 1
    BY <1>5 DEF TakenOff, p
  <2>3. \A i \in 1..h : held[p][sl][i].slot = sl /\ held[p][sl][i].id = b + d + i
    BY <1>6 DEF HeldShape, p
  <2>4. ASSUME NEW i \in 1..(h + 1)
        PROVE  held'[p][sl][i].slot = sl /\ held'[p][sl][i].id = b + d + i
    <3>1. CASE i = h + 1
      <4>1. held'[p][sl][i] = f
        BY <1>7, <3>1
      <4>2. f.id = b + d + i
        BY <2>1, <2>2, <3>1
      <4> QED BY <1>5, <4>1, <4>2
    <3>2. CASE i # h + 1
      <4>1. i \in 1..h
        BY <2>1, <3>2
      <4> QED BY <1>7, <2>3, <4>1
    <3> QED BY <3>1, <3>2
  <2>5. Len(held'[p][sl]) = h + 1
    BY <1>7
  <2> QED BY <1>2, <1>3, <1>5, <2>4, <2>5 DEF HeldShape, p
<1>12. ReadBounds(s)'
  <2>1. linkRead[p][sl] + 1 <= Len(link[s][sl])
    BY <1>2, DirectionTypes DEF p
  <2> QED BY <1>2, <1>3, <1>4, <1>6, <2>1 DEF ReadBounds, p
<1>13. PathShape(s)' /\ SwitchShape(s)' /\ NoticeShape(s)'
  BY <1>2, <1>3, <1>6 DEF PathShape, SwitchShape, NoticeShape, UnreadRelay
<1>14. ASSUME NEW t \in Slots
       PROVE  Numbering(s, t)' /\ KeptShape(s, t)' /\ InboxShape(s, t)' /\ RelayShape(s, t)'
  <2>1. Numbering(s, t)' /\ KeptShape(s, t)'
    BY <1>3, <1>6 DEF Numbering, KeptShape, LastOnLink, Confirmed
  <2>2. InboxShape(s, t)'
    BY <1>2, <1>3, <1>6 DEF InboxShape, Got
  <2>3. RelayShape(s, t)'
    <3>1. Got(s, t)' = Got(s, t) /\ LastOnRelay(s, t)' = LastOnRelay(s, t) /\ UnreadRelay(s)' = UnreadRelay(s)
      BY <1>2, <1>3 DEF Got, LastOnRelay, UnreadRelay
    <3> QED BY <1>3, <1>6, <3>1 DEF RelayShape
  <2> QED BY <2>1, <2>2, <2>3
<1> QED BY <1>9, <1>10, <1>11, <1>12, <1>13, <1>14 DEF Direction

\* A frame of the slot being handed over at the receiving side, and what that writes:
\* the side's own counts and inbox, and perhaps a confirmation of these counts on its
\* typing channel.
Handing(s, sl, f) == f \in Frames /\ f.slot = sl /\ DeliverLink(Other(s), f)
Handed(s, sl, f) ==
    /\ delivered'[Other(s)] = [delivered[Other(s)] EXCEPT ![sl] = @ + 1]
    /\ inbox'[Other(s)] = [inbox[Other(s)] EXCEPT ![sl] = Append(@, f.id)]
    /\ delivered'[s] = delivered[s] /\ inbox'[s] = inbox[s] /\ link'[s] = link[s]
    /\ \/ link'[Other(s)] = link[Other(s)]
       \/ link'[Other(s)] = [link[Other(s)] EXCEPT !["typing"] = Append(@, AckMsg(delivered'[Other(s)]))]

\* Handing a link frame over writes nothing else.
LEMMA DeliverLinkWrites ==
    ASSUME TypeOK, NEW s \in Sides, NEW sl \in Slots, NEW f, Handing(s, sl, f)
    PROVE  Handed(s, sl, f)
<1> DEFINE p == Other(s)
           counts == [delivered[p] EXCEPT ![sl] = @ + 1]
<1>1. p \in Sides /\ p # s
  BY OtherSide
<1>2. /\ delivered' = [delivered EXCEPT ![p] = counts]
      /\ inbox' = [inbox EXCEPT ![p][sl] = Append(@, f.id)]
      /\ \/ link' = link
         \/ link' = [link EXCEPT ![p]["typing"] = Append(@, AckMsg(counts))]
  BY DEF Handing, DeliverLink, HandOver, Confirm, ToLink
<1> HIDE DEF p, counts
<1>3. delivered'[p] = counts /\ delivered'[s] = delivered[s]
  BY <1>1, <1>2 DEF TypeOK
<1>4. inbox'[p] = [inbox[p] EXCEPT ![sl] = Append(@, f.id)] /\ inbox'[s] = inbox[s]
  BY <1>1, <1>2 DEF TypeOK
<1>5. /\ link'[s] = link[s]
      /\ link'[p] = link[p] \/ link'[p] = [link[p] EXCEPT !["typing"] = Append(@, AckMsg(counts))]
  BY <1>1, <1>2 DEF TypeOK
<1> QED BY <1>3, <1>4, <1>5 DEF Handed, p, counts

\* A frame read from the link after the notice is handed over in order.
LEMMA LinkFrameStep ==
    ASSUME TypeOK, TypeOK', NEW s \in Sides, Direction(s), NEW sl \in Slots, LinkFrame(Other(s), sl)
    PROVE  Direction(s)'
<1> DEFINE p == Other(s)
           f == link[s][sl][linkRead[p][sl] + 1]
<1>1. p \in Sides /\ Other(p) = s
  BY OtherSide
<1>2. /\ ~leftLink[p] /\ peerSwitched[p] /\ f.kind = "frame" /\ ~Flushing(p)
      /\ linkRead[p][sl] < Len(link[s][sl]) /\ linkRead' = [linkRead EXCEPT ![p][sl] = @ + 1]
      /\ DeliverLink(p, f)
      /\ UNCHANGED <<path, switched, leftLink, kept, nextNumber, sent, base, held,
                     peerSwitched, peerFallback, relay, read>>
  BY <1>1 DEF LinkFrame, ReadLink, NextLink, Running, flags, sending, peer
<1>3. \A t \in Slots : held[p][t] = <<>>
  BY <1>2 DEF Flushing
<1>4. linkRead'[p][sl] = linkRead[p][sl] + 1 /\ \A t \in Slots : t # sl => linkRead'[p][t] = linkRead[p][t]
  <2>1. linkRead[p] \in [Slots -> Nat] /\ linkRead'[p] = [linkRead[p] EXCEPT ![sl] = linkRead[p][sl] + 1]
    BY <1>1, <1>2 DEF TypeOK, Counts
  <2> QED BY <2>1
<1>5. f \in Frames
  <2>1. linkRead[p][sl] + 1 \in 1..Len(link[s][sl]) /\ link[s][sl] \in Seq(LinkMsgs)
    BY <1>2, DirectionTypes
  <2> QED BY <1>2, <2>1, RelayKinds
<1>6. f.slot = sl
  <2>1. linkRead[p][sl] + 1 \in 1..Len(link[s][sl])
    BY <1>2, DirectionTypes
  <2> QED BY <1>2, <2>1 DEF Direction, LinkShape
<1>7. /\ delivered'[p] = [delivered[p] EXCEPT ![sl] = @ + 1]
      /\ inbox'[p] = [inbox[p] EXCEPT ![sl] = Append(@, f.id)]
      /\ delivered'[s] = delivered[s] /\ link'[s] = link[s]
  <2>1. PICK g \in Frames : g = f
    BY <1>5
  <2>2. Handing(s, sl, g)
    BY <1>2, <1>6, <2>1 DEF Handing
  <2>3. Handed(s, sl, g)
    BY <2>2, DeliverLinkWrites
  <2> QED BY <2>1, <2>3 DEF Handed
<1>8. /\ switched[s] /\ f.id = TakenOff(s, sl) + 1 /\ TakenOff(s, sl) + 1 <= LastOnLink(s, sl)
      /\ TakenOff(s, sl)' = TakenOff(s, sl) + 1 => LinkShape(s, sl)'
  BY <1>2, <1>4, <1>7, LinkTaken
<1>9. f.id \in Nat
  BY <1>5, RelayKinds
<1> HIDE DEF f, p
<1>10. /\ \A t \in Slots : /\ base[s][t] \in Nat /\ delivered[p][t] \in Nat
                           /\ TakenOff(s, t) = base[s][t] + delivered[p][t]
                           /\ TakenOff(s, t)' = base[s][t] + delivered'[p][t]
       /\ delivered'[p][sl] = delivered[p][sl] + 1
       /\ \A t \in Slots : t # sl => delivered'[p][t] = delivered[p][t]
  <2>1. delivered[p] \in [Slots -> Nat] /\ delivered'[p] \in [Slots -> Nat]
    BY <1>1 DEF TypeOK, Counts
  <2>2. ASSUME NEW t \in Slots
        PROVE  /\ base[s][t] \in Nat /\ delivered[p][t] \in Nat /\ delivered'[p][t] \in Nat
               /\ TakenOff(s, t) = base[s][t] + delivered[p][t] + 0
               /\ TakenOff(s, t)' = base[s][t] + delivered'[p][t] + 0
    <3>1. held[p][t] = <<>> /\ held'[p][t] = <<>> /\ Len(<<>>) = 0 /\ base'[s][t] = base[s][t]
      BY <1>2, <1>3
    <3>2. base[s][t] \in Nat
      BY DirectionTypes
    <3>3. /\ TakenOff(s, t) = base[s][t] + delivered[p][t] + Len(held[p][t])
          /\ TakenOff(s, t)' = base'[s][t] + delivered'[p][t] + Len(held'[p][t])
      BY DEF TakenOff, p
    <3> QED BY <2>1, <3>1, <3>2, <3>3
  <2>3. /\ delivered'[p][sl] = delivered[p][sl] + 1
        /\ \A t \in Slots : t # sl => delivered'[p][t] = delivered[p][t]
    BY <1>7, <2>1
  <2>4. \A t \in Slots : /\ base[s][t] + delivered[p][t] + 0 = base[s][t] + delivered[p][t]
                         /\ base[s][t] + delivered'[p][t] + 0 = base[s][t] + delivered'[p][t]
    BY <2>2
  <2> QED BY <2>2, <2>3, <2>4
<1>11. f.id = base[s][sl] + delivered[p][sl] + 1 /\ f.id <= sent[s][sl]
  <2>1. sent[s][sl] = LastOnLink(s, sl)
    BY <1>2, OnLink DEF p
  <2> QED BY <1>8, <1>10, <2>1
<1>12. /\ PathShape(s)' /\ SwitchShape(s)' /\ NoticeShape(s)'
       /\ \A t \in Slots : Numbering(s, t)' /\ KeptShape(s, t)' /\ InboxShape(s, t)' /\ RelayShape(s, t)'
  BY <1>2, <1>7, <1>9, <1>11, DeliveredStep DEF p
<1>13. /\ ReadBounds(s) /\ \A t \in Slots : HeldShape(s, t) /\ LinkShape(s, t)
  BY DEF Direction
<1>14. ReadBounds(s)'
  <2>1. linkRead[p][sl] + 1 <= Len(link[s][sl])
    BY <1>2, DirectionTypes DEF p
  <2> QED BY <1>2, <1>4, <1>7, <1>13, <2>1 DEF ReadBounds, p
<1>15. \A t \in Slots : HeldShape(s, t)'
  BY <1>2, <1>3 DEF HeldShape, p
<1>16. LinkShape(s, sl)'
  <2> DEFINE b == base[s][sl]
             d == delivered[p][sl]
             e == delivered'[p][sl]
  <2>0. /\ b \in Nat /\ d \in Nat /\ e = d + 1
        /\ TakenOff(s, sl) = b + d /\ TakenOff(s, sl)' = b + e
    BY <1>10
  <2> HIDE DEF b, d, e
  <2>1. TakenOff(s, sl)' = TakenOff(s, sl) + 1
    BY <2>0
  <2> QED BY <1>8, <2>1
<1>17. ASSUME NEW t \in Slots, t # sl
       PROVE  LinkShape(s, t)'
  <2>1. /\ UnreadLink(s, t)' = UnreadLink(s, t) /\ TakenOff(s, t)' = TakenOff(s, t)
        /\ LastOnLink(s, t)' = LastOnLink(s, t)
    BY <1>2, <1>4, <1>7, <1>10, <1>17 DEF UnreadLink, LastOnLink, p
  <2> QED BY <1>2, <1>7, <1>13, <2>1 DEF LinkShape
<1> QED BY <1>12, <1>14, <1>15, <1>16, <1>17 DEF Direction

\* A held frame is handed over in order.
LEMMA DeliverHeldStep ==
    ASSUME TypeOK, TypeOK', NEW s \in Sides, Direction(s), NEW sl \in Slots,
           held[Other(s)][sl] # <<>>, peerSwitched[Other(s)],
           DeliverLink(Other(s), Head(held[Other(s)][sl])),
           held' = [held EXCEPT ![Other(s)][sl] = Tail(@)],
           UNCHANGED <<path, switched, leftLink, kept, nextNumber, sent, base,
                       peerSwitched, peerFallback, relay, read, linkRead>>
    PROVE  Direction(s)'
<1> DEFINE p == Other(s)
           q == held[p][sl]
           f == Head(q)
           b == base[s][sl]
           d == delivered[p][sl]
<1>1. p \in Sides /\ Other(p) = s
  BY OtherSide
<1>2. q \in Seq(Frames) /\ b \in Nat /\ d \in Nat
  BY DirectionTypes
<1> HIDE DEF p, q, b, d
<1>3. Len(q) \in Nat /\ Len(q) >= 1 /\ f = q[1] /\ f \in Frames /\ Tail(q) \in Seq(Frames)
      /\ Len(Tail(q)) = Len(q) - 1 /\ \A i \in 1..(Len(q) - 1) : Tail(q)[i] = q[i + 1]
  <2>1. q # <<>>
    BY DEF q, p
  <2> QED BY <1>2, <2>1
<1>4. /\ ReadBounds(s) /\ \A t \in Slots : HeldShape(s, t) /\ LinkShape(s, t)
  BY DEF Direction
<1>5. ~leftLink[p] /\ \A i \in 1..Len(q) : q[i].slot = sl /\ q[i].id = b + d + i
  <2>1. q # <<>>
    BY DEF q, p
  <2> QED BY <1>4, <2>1 DEF HeldShape, p, q, b, d
<1>6. f.slot = sl /\ f.id = b + d + 1 /\ f.id \in Nat
  BY <1>2, <1>3, <1>5
<1>7. /\ delivered'[p] = [delivered[p] EXCEPT ![sl] = @ + 1]
      /\ inbox'[p] = [inbox[p] EXCEPT ![sl] = Append(@, f.id)]
      /\ delivered'[s] = delivered[s] /\ link'[s] = link[s]
  <2>1. PICK g \in Frames : g = f
    BY <1>3
  <2>2. Handing(s, sl, g)
    BY <1>6, <2>1 DEF Handing, q, p
  <2>3. Handed(s, sl, g)
    BY <2>2, DeliverLinkWrites
  <2> HIDE DEF f
  <2> QED BY <2>1, <2>3 DEF Handed, p
<1>8. /\ held'[p][sl] = Tail(q) /\ delivered'[p][sl] = d + 1
      /\ \A t \in Slots : t # sl => held'[p][t] = held[p][t] /\ delivered'[p][t] = delivered[p][t]
  <2>1. held[p] \in [Slots -> Seq(Frames)] /\ held'[p] = [held[p] EXCEPT ![sl] = Tail(held[p][sl])]
    BY <1>1 DEF TypeOK, p
  <2>2. delivered[p] \in [Slots -> Nat]
    BY <1>1 DEF TypeOK, Counts
  <2>3. held'[p][sl] = Tail(q) /\ \A t \in Slots : t # sl => held'[p][t] = held[p][t]
    BY <2>1 DEF q
  <2>4. delivered'[p][sl] = d + 1 /\ \A t \in Slots : t # sl => delivered'[p][t] = delivered[p][t]
    BY <1>7, <2>2 DEF d
  <2> QED BY <2>3, <2>4
<1> HIDE DEF f
<1>9. f.id <= sent[s][sl]
  <2>1. sent[s][sl] = LastOnLink(s, sl) /\ LastOnLink(s, sl) \in Int
    BY <1>5, OnLink, DirectionTypes DEF p
  <2>2. TakenOff(s, sl) = b + d + Len(q) /\ TakenOff(s, sl) <= LastOnLink(s, sl)
    BY <1>4, <1>5 DEF TakenOff, LinkShape, p, q, b, d
  <2> QED BY <1>2, <1>3, <1>6, <2>1, <2>2
<1>10. /\ PathShape(s)' /\ SwitchShape(s)' /\ NoticeShape(s)'
       /\ \A t \in Slots : Numbering(s, t)' /\ KeptShape(s, t)' /\ InboxShape(s, t)' /\ RelayShape(s, t)'
  <2>1. f.id = base[s][sl] + delivered[p][sl] + 1
    BY <1>6 DEF b, d
  <2> QED BY <1>5, <1>6, <1>7, <1>9, <2>1, DeliveredStep DEF p
<1>11. ReadBounds(s)'
  BY <1>4, <1>7 DEF ReadBounds
<1>12. HeldShape(s, sl)'
  <2>1. \A i \in 1..Len(Tail(q)) : Tail(q)[i].slot = sl /\ Tail(q)[i].id = b + (d + 1) + i
    <3> TAKE i \in 1..Len(Tail(q))
    <3>1. i + 1 \in 1..Len(q) /\ Tail(q)[i] = q[i + 1]
      BY <1>3
    <3>2. q[i + 1].slot = sl /\ q[i + 1].id = b + d + (i + 1)
      BY <1>5, <3>1
    <3>3. b + d + (i + 1) = b + (d + 1) + i
      BY <1>2
    <3> QED BY <3>1, <3>2, <3>3
  <2>2. ~leftLink'[p] /\ switched'[s]
    BY <1>5, OnLink DEF p
  <2> HIDE DEF q
  <2> QED BY <1>8, <2>1, <2>2 DEF HeldShape, p, b
<1>13. ASSUME NEW t \in Slots, t # sl
       PROVE  HeldShape(s, t)'
  BY <1>4, <1>8, <1>13 DEF HeldShape, p
<1>14. ASSUME NEW t \in Slots
       PROVE  LinkShape(s, t)'
  <2>1. TakenOff(s, t)' = TakenOff(s, t)
    <3>1. CASE t = sl
      <4>1. /\ TakenOff(s, t) = b + d + Len(q)
            /\ TakenOff(s, t)' = b + delivered'[p][sl] + Len(held'[p][sl])
        BY <3>1 DEF TakenOff, p, q, b, d
      <4>2. delivered'[p][sl] = d + 1 /\ Len(held'[p][sl]) = Len(q) - 1
        BY <1>3, <1>8
      <4>3. PICK h \in Nat : h = Len(q) /\ h >= 1
        BY <1>3
      <4>4. b + d + h = b + (d + 1) + (h - 1)
        BY <1>2, <4>3
      <4> QED BY <4>1, <4>2, <4>3, <4>4
    <3>2. CASE t # sl
      BY <1>8, <3>2 DEF TakenOff, p
    <3> QED BY <3>1, <3>2
  <2>2. UnreadLink(s, t)' = UnreadLink(s, t) /\ LastOnLink(s, t)' = LastOnLink(s, t)
    BY <1>7 DEF UnreadLink, LastOnLink
  <2> QED BY <1>4, <1>7, <2>1, <2>2 DEF LinkShape
<1> QED BY <1>10, <1>11, <1>12, <1>13, <1>14 DEF Direction

-----------------------------------------------------------------------------
(***************************************************************************)
(* Every step of the hand-off keeps IInv, so on each slot every frame      *)
(* arrives exactly once and in order whatever the path changes.  A step is *)
(* taken by one side: it is a sender's turn in the direction that starts   *)
(* there and a receiver's turn in the other direction.                     *)
(***************************************************************************)

\* A receiver's turn in the direction from s: the peer reads a notice, reads the link or
\* leaves it, and hands nothing over; s does nothing.
PeerTurn(s) ==
    /\ relay'[s] = relay[s] /\ link'[s] = link[s]
    /\ path'[s] = path[s] /\ switched'[s] = switched[s] /\ leftLink'[s] = leftLink[s]
    /\ kept'[s] = kept[s] /\ nextNumber'[s] = nextNumber[s]
    /\ sent'[s] = sent[s] /\ base'[s] = base[s] /\ delivered'[s] = delivered[s]
    /\ inbox'[Other(s)] = inbox[Other(s)] /\ delivered'[Other(s)] = delivered[Other(s)]
    /\ peerSwitched'[Other(s)] = peerSwitched[Other(s)]
    /\ \/ read'[Other(s)] = read[Other(s)]
       \/ /\ read[Other(s)] < Len(relay[s]) /\ read'[Other(s)] = read[Other(s)] + 1
          /\ relay[s][read[Other(s)] + 1].kind # "frame"
    /\ \A sl \in Slots :
          \/ linkRead'[Other(s)][sl] = linkRead[Other(s)][sl]
          \/ /\ linkRead[Other(s)][sl] < Len(link[s][sl])
             /\ linkRead'[Other(s)][sl] = linkRead[Other(s)][sl] + 1
             /\ leftLink'[Other(s)] \/ link[s][sl][linkRead[Other(s)][sl] + 1].kind # "frame"
    /\ \/ leftLink'[Other(s)] = leftLink[Other(s)] /\ held'[Other(s)] = held[Other(s)]
       \/ leftLink'[Other(s)] /\ held'[Other(s)] = [sl \in Slots |-> <<>>]
    /\ \/ peerFallback'[Other(s)] = peerFallback[Other(s)]
       \/ leftLink[s] /\ peerFallback'[Other(s)] = delivered[s]

\* A receiver's turn keeps the direction's invariant.
LEMMA PeerTurnStep ==
    ASSUME TypeOK, TypeOK', NEW s \in Sides, Direction(s), PeerTurn(s)
    PROVE  Direction(s)'
<1> DEFINE p == Other(s)
           lq == [sl \in Slots |-> <<>>]
<1>1. /\ ReadBounds(s) /\ PathShape(s) /\ NoticeShape(s) /\ \A sl \in Slots : KeptShape(s, sl)
      /\ \A sl \in Slots : HeldShape(s, sl)
  BY DEF Direction
<1>2. p \in Sides /\ read[p] \in Nat /\ read'[p] \in Nat /\ relay[s] \in Seq(RelayMsgs)
  BY OtherSide DEF TypeOK
<1>3. PathShape(s)'
  BY <1>1 DEF PeerTurn, PathShape
<1>4. NoticeShape(s)'
  BY <1>1 DEF PeerTurn, NoticeShape
<1>5. ASSUME NEW sl \in Slots PROVE KeptShape(s, sl)'
  BY <1>1 DEF PeerTurn, KeptShape, Confirmed
<1>6. relay'[s] = relay[s] \o <<>> /\ <<>> \in Seq(RelayMsgs)
  BY <1>2 DEF PeerTurn
<1>7. lq \in [Slots -> Seq(LinkMsgs)]
  OBVIOUS
<1>8. ASSUME NEW sl \in Slots
      PROVE  /\ \A i \in 1..Len(lq[sl]) : lq[sl][i].kind # "frame"
             /\ link'[s][sl] = link[s][sl] \o lq[sl]
  <2>1. link[s][sl] \in Seq(LinkMsgs) /\ lq[sl] = <<>>
    BY DirectionTypes
  <2> QED BY <2>1 DEF PeerTurn
<1>9. /\ read'[p] >= read[p] /\ read'[p] <= Len(relay[s])
      /\ \A i \in (read[p] + 1)..read'[p] : relay[s][i].kind # "frame"
  BY <1>1, <1>2 DEF PeerTurn, ReadBounds
<1>10. ASSUME NEW sl \in Slots
       PROVE  /\ linkRead'[p][sl] <= Len(link[s][sl])
              /\ ~leftLink'[p] =>
                    /\ linkRead'[p][sl] >= linkRead[p][sl]
                    /\ \A i \in (linkRead[p][sl] + 1)..linkRead'[p][sl] : link[s][sl][i].kind # "frame"
  <2>1. linkRead[p][sl] \in Nat /\ Len(link[s][sl]) \in Nat
    BY DirectionTypes
  <2> QED BY <1>1, <2>1 DEF PeerTurn, ReadBounds
<1>11. /\ leftLink[p] => leftLink'[p]
       /\ leftLink'[p] => (leftLink[p] \/ held'[p] = [sl \in Slots |-> <<>>])
       /\ held'[p] = held[p] \/ (leftLink'[p] /\ held'[p] = [sl \in Slots |-> <<>>])
  BY DEF PeerTurn
<1>12. \A i \in 1..Len(<<>>) : <<>>[i].kind # "frame" /\ <<>>[i].kind # "switch"
  OBVIOUS
<1> HIDE DEF lq
<1>13. Quiet(s, <<>>, lq)
  BY <1>3, <1>4, <1>5, <1>6, <1>7, <1>8, <1>9, <1>10, <1>11, <1>12 DEF PeerTurn, Quiet
<1> QED BY <1>13, DirectionStep

\* A sender's turn in the direction from s that sends no session frame: s writes the
\* notices q to the relay and lq to the link, may hold or leave, may let copies go; its
\* peer does nothing.  A side that has left delivers no more link frames.
OwnTurn(s, q, lq) ==
    /\ q \in Seq(RelayMsgs) /\ relay'[s] = relay[s] \o q
    /\ \A i \in 1..Len(q) :
          /\ q[i].kind # "frame" /\ q[i].kind # "switch"
          /\ q[i].kind = "fallback" => leftLink'[s] /\ q[i].counts = delivered'[s]
    /\ lq \in [Slots -> Seq(LinkMsgs)]
    /\ \A sl \in Slots :
          /\ link'[s][sl] = link[s][sl] \o lq[sl]
          /\ \A i \in 1..Len(lq[sl]) :
                /\ lq[sl][i].kind # "frame"
                /\ lq[sl][i].kind = "ack" => \A t \in Slots : lq[sl][i].counts[t] <= delivered'[s][t]
    /\ read'[Other(s)] = read[Other(s)] /\ linkRead'[Other(s)] = linkRead[Other(s)]
    /\ held'[Other(s)] = held[Other(s)] /\ delivered'[Other(s)] = delivered[Other(s)]
    /\ inbox'[Other(s)] = inbox[Other(s)] /\ leftLink'[Other(s)] = leftLink[Other(s)]
    /\ peerSwitched'[Other(s)] = peerSwitched[Other(s)]
    /\ peerFallback'[Other(s)] = peerFallback[Other(s)]
    /\ switched'[s] = switched[s] /\ base'[s] = base[s] /\ sent'[s] = sent[s]
    /\ nextNumber'[s] = nextNumber[s]
    /\ \A t \in Slots : delivered'[s][t] >= delivered[s][t]
    /\ leftLink[s] => leftLink'[s] /\ delivered'[s] = delivered[s]
    /\ \/ path'[s] = path[s] /\ leftLink'[s] = leftLink[s]
       \/ path[s] # "link" /\ path'[s] = path[s] /\ leftLink'[s]
       \/ path[s] = "link" /\ path'[s] = "holding" /\ leftLink'[s]
       \/ path[s] = "holding" /\ path'[s] = "ended" /\ leftLink'[s] = leftLink[s]
    /\ \/ kept'[s] = kept[s]
       \/ path[s] # "relay" /\ path'[s] # "relay" /\ \A sl \in Slots : KeptShape(s, sl)'

\* A sender's turn keeps the direction's invariant.
LEMMA OwnTurnStep ==
    ASSUME TypeOK, TypeOK', NEW s \in Sides, Direction(s), NEW q, NEW lq, OwnTurn(s, q, lq)
    PROVE  Direction(s)'
<1> DEFINE p == Other(s)
<1>1. /\ ReadBounds(s) /\ PathShape(s) /\ NoticeShape(s) /\ \A sl \in Slots : KeptShape(s, sl)
      /\ \A sl \in Slots : Numbering(s, sl)
  BY DEF Direction
<1>2. p \in Sides /\ read[p] \in Nat /\ relay[s] \in Seq(RelayMsgs) /\ q \in Seq(RelayMsgs)
      /\ relay'[s] = relay[s] \o q
  BY OtherSide DEF TypeOK, OwnTurn
<1>3. PathShape(s)'
  BY <1>1 DEF OwnTurn, PathShape
<1>4. NoticeShape(s)'
  <2>1. ASSUME NEW i \in 1..Len(link'[s]["typing"]), link'[s]["typing"][i].kind = "ack", NEW t \in Slots
        PROVE  link'[s]["typing"][i].counts[t] <= delivered'[s][t]
    <3> DEFINE A == link[s]["typing"]
               B == lq["typing"]
    <3>1. /\ A \in Seq(LinkMsgs) /\ B \in Seq(LinkMsgs) /\ link'[s]["typing"] = A \o B
      BY SlotsAreChannels, DirectionTypes DEF OwnTurn
    <3>2. delivered[s][t] \in Nat /\ delivered'[s][t] \in Nat /\ delivered'[s][t] >= delivered[s][t]
      BY DEF OwnTurn, TypeOK, Counts
    <3>3. \A j \in 1..Len(A) : A[j].kind = "ack" => A[j].counts[t] <= delivered[s][t] /\ A[j].counts[t] \in Nat
      <4> TAKE j \in 1..Len(A)
      <4> HAVE A[j].kind = "ack"
      <4>1. A[j] \in LinkMsgs
        BY <3>1
      <4>2. A[j].counts \in Counts
        BY <4>1, RelayKinds
      <4>3. A[j].counts[t] \in Nat
        BY <4>2 DEF Counts
      <4> QED BY <1>1, <4>3 DEF NoticeShape
    <3>4. \A j \in 1..Len(B) : B[j].kind = "ack" => B[j].counts[t] <= delivered'[s][t]
      BY SlotsAreChannels DEF OwnTurn
    <3> HIDE DEF A, B
    <3>5. i \in 1..(Len(A) + Len(B)) /\ (A \o B)[i].kind = "ack"
      BY <2>1, <3>1
    <3>6. CASE i \in 1..Len(A)
      <4>1. (A \o B)[i] = A[i]
        BY <3>1, <3>6
      <4>2. A[i].counts[t] <= delivered[s][t] /\ A[i].counts[t] \in Nat
        BY <3>3, <3>5, <3>6, <4>1
      <4>3. A[i].counts[t] <= delivered'[s][t]
        BY <3>2, <4>2
      <4> QED BY <3>1, <4>1, <4>3
    <3>7. CASE i \notin 1..Len(A)
      <4>1. i - Len(A) \in 1..Len(B) /\ (A \o B)[i] = B[i - Len(A)]
        BY <3>1, <3>5, <3>7
      <4> QED BY <3>1, <3>4, <3>5, <4>1
    <3> QED BY <3>6, <3>7
  <2>2. ASSUME NEW i \in 1..Len(relay'[s]), relay'[s][i].kind = "fallback"
        PROVE  leftLink'[s] /\ relay'[s][i].counts = delivered'[s]
    <3>1. /\ \A j \in 1..Len(relay[s]) : relay[s][j].kind = "fallback" =>
                leftLink[s] /\ relay[s][j].counts = delivered[s]
          /\ leftLink[s] => leftLink'[s] /\ delivered'[s] = delivered[s]
          /\ \A j \in 1..Len(q) : q[j].kind = "fallback" => leftLink'[s] /\ q[j].counts = delivered'[s]
      BY <1>1 DEF NoticeShape, OwnTurn
    <3>2. CASE i \in 1..Len(relay[s])
      BY <1>2, <2>2, <3>1, <3>2
    <3>3. CASE i \notin 1..Len(relay[s])
      <4>1. i - Len(relay[s]) \in 1..Len(q) /\ relay'[s][i] = q[i - Len(relay[s])]
        BY <1>2, <3>3
      <4> QED BY <2>2, <3>1, <4>1
    <3> QED BY <3>2, <3>3
  <2>3. peerFallback'[p] # NoCounts => leftLink'[s] /\ peerFallback'[p] = delivered'[s]
    BY <1>1 DEF NoticeShape, OwnTurn
  <2> QED BY <2>1, <2>2, <2>3 DEF NoticeShape
<1>5. (path'[s] = "relay") <=> (path[s] = "relay")
  BY DEF OwnTurn
<1>6. ASSUME NEW sl \in Slots PROVE KeptShape(s, sl)'
  <2>1. CASE kept'[s] = kept[s]
    BY <1>1, <1>5, <2>1 DEF OwnTurn, KeptShape, Confirmed
  <2>2. CASE kept'[s] # kept[s]
    BY <2>2 DEF OwnTurn
  <2> QED BY <2>1, <2>2
<1>7. /\ read'[p] >= read[p] /\ read'[p] <= Len(relay[s])
      /\ \A i \in (read[p] + 1)..read'[p] : relay[s][i].kind # "frame"
  BY <1>1, <1>2 DEF OwnTurn, ReadBounds
<1>8. ASSUME NEW sl \in Slots
      PROVE  /\ linkRead'[p][sl] <= Len(link[s][sl]) /\ linkRead'[p][sl] >= linkRead[p][sl]
             /\ \A i \in (linkRead[p][sl] + 1)..linkRead'[p][sl] : link[s][sl][i].kind # "frame"
  <2>1. linkRead[p][sl] \in Nat /\ Len(link[s][sl]) \in Nat
    BY DirectionTypes
  <2> QED BY <1>1, <2>1 DEF OwnTurn, ReadBounds
<1>9. Quiet(s, q, lq)
  BY <1>3, <1>4, <1>5, <1>6, <1>7, <1>8 DEF OwnTurn, Quiet
<1> QED BY <1>9, DirectionStep

\* The two directions of one side's turn.
LEMMA TurnKeeps ==
    ASSUME TypeOK, TypeOK', IInv, NEW s \in Sides, Direction(s)', PeerTurn(Other(s))
    PROVE  IInv'
<1>1. Other(s) \in Sides /\ Direction(Other(s))
  BY OtherSide DEF IInv
<1>2. Direction(Other(s))'
  BY <1>1, PeerTurnStep
<1> QED BY <1>2, BothDirections

\* A side that writes no notice and keeps its path and its copies.
LEMMA SilentTurn ==
    ASSUME TypeOK, TypeOK', IInv, NEW s \in Sides, SameDirection(s), PeerTurn(Other(s))
    PROVE  IInv'
<1>1. Direction(s)'
  BY DirectionSame DEF IInv
<1> QED BY <1>1, TurnKeeps

\* Sending a frame keeps the invariant (Core::take, SessionChannel.pump).
LEMMA SendKeeps ==
    ASSUME TypeOK, TypeOK', IInv, NEW s \in Sides, NEW c \in Channels, NEW len \in Sizes, Send(s, c, len)
    PROVE  IInv'
<1>1. Direction(s)'
  <2>1. Direction(s) /\ (path[s] = "relay" \/ path[s] = "link")
    BY DEF IInv, Send
  <2> QED BY <2>1, SendOnRelay, SendOnLink
<1>2. PeerTurn(Other(s))
  <2> DEFINE o == Other(s)
  <2>1. o \in Sides /\ Other(o) = s /\ o # s
    BY OtherSide
  <2> HIDE DEF o
  <2>2. PeerTurn(o)
    BY <2>1, SMTT(30) DEF Send, PeerTurn, ToRelay, ToLink, TypeOK, flags, receiving, peer
  <2> QED BY <2>2 DEF o
<1> QED BY <1>1, <1>2, TurnKeeps

\* Switching to the link keeps the invariant (Handoff::link_open).
LEMMA LinkOpenKeeps ==
    ASSUME TypeOK, TypeOK', IInv, NEW s \in Sides, LinkOpen(s)
    PROVE  IInv'
<1>1. Direction(s)'
  BY LinkOpenSender DEF IInv
<1>2. PeerTurn(Other(s))
  <2> DEFINE o == Other(s)
  <2>1. o \in Sides /\ Other(o) = s /\ o # s
    BY OtherSide
  <2> HIDE DEF o
  <2>2. PeerTurn(o)
    BY <2>1 DEF LinkOpen, PeerTurn, ToRelay, TypeOK, sending, receiving, peer
  <2> QED BY <2>2 DEF o
<1> QED BY <1>1, <1>2, TurnKeeps

\* Starting an attempt, a cut of the network and a closed session touch no stream.
LEMMA SetupKeeps ==
    ASSUME TypeOK, TypeOK', IInv,
           UNCHANGED <<path, switched, leftLink, sending, held, delivered, inbox, peer, wires>>
    PROVE  IInv'
<1>1. "host" \in Sides
  BY DEF Sides
<1>2. \A s \in Sides : SameDirection(s) /\ PeerTurn(s)
  BY OtherSide DEF SameDirection, PeerTurn, sending, peer, wires
<1> QED BY <1>1, <1>2, OtherSide, SilentTurn

\* Nothing written to the link.
NoLinkNotices == [sl \in Slots |-> <<>>]

\* A link that stays the same grew by nothing.
LEMMA NoLinkWrites ==
    ASSUME TypeOK, NEW s \in Sides, link'[s] = link[s]
    PROVE  /\ NoLinkNotices \in [Slots -> Seq(LinkMsgs)]
           /\ \A sl \in Slots :
                 /\ link'[s][sl] = link[s][sl] \o NoLinkNotices[sl]
                 /\ Len(NoLinkNotices[sl]) = 0
<1>1. NoLinkNotices \in [Slots -> Seq(LinkMsgs)] /\ \A sl \in Slots : NoLinkNotices[sl] = <<>>
  BY DEF NoLinkNotices
<1>2. ASSUME NEW sl \in Slots PROVE link'[s][sl] = link[s][sl] \o NoLinkNotices[sl]
  <2>1. link[s][sl] \in Seq(LinkMsgs)
    BY DirectionTypes
  <2> QED BY <1>1, <2>1
<1> QED BY <1>1, <1>2

\* A sender's turn that writes only to the relay, at most one notice.
RelayTurn(s, q) ==
    /\ q \in Seq(RelayMsgs) /\ Len(q) <= 1 /\ relay'[s] = relay[s] \o q
    /\ Len(q) = 1 => /\ q[1].kind # "frame" /\ q[1].kind # "switch"
                     /\ q[1].kind = "fallback" => leftLink'[s] /\ q[1].counts = delivered[s]
    /\ link'[s] = link[s]
    /\ read'[Other(s)] = read[Other(s)] /\ linkRead'[Other(s)] = linkRead[Other(s)]
    /\ held'[Other(s)] = held[Other(s)] /\ delivered'[Other(s)] = delivered[Other(s)]
    /\ inbox'[Other(s)] = inbox[Other(s)] /\ leftLink'[Other(s)] = leftLink[Other(s)]
    /\ peerSwitched'[Other(s)] = peerSwitched[Other(s)]
    /\ peerFallback'[Other(s)] = peerFallback[Other(s)]
    /\ switched'[s] = switched[s] /\ base'[s] = base[s] /\ sent'[s] = sent[s]
    /\ nextNumber'[s] = nextNumber[s] /\ delivered'[s] = delivered[s] /\ kept'[s] = kept[s]
    /\ \/ path'[s] = path[s] /\ leftLink'[s] = leftLink[s]
       \/ path[s] # "link" /\ path'[s] = path[s] /\ leftLink'[s]
       \/ path[s] = "link" /\ path'[s] = "holding" /\ leftLink'[s]
       \/ path[s] = "holding" /\ path'[s] = "ended" /\ leftLink'[s] = leftLink[s]

\* It keeps the direction's invariant.
LEMMA RelayTurnStep ==
    ASSUME TypeOK, TypeOK', NEW s \in Sides, Direction(s), NEW q, RelayTurn(s, q)
    PROVE  Direction(s)'
<1>1. /\ NoLinkNotices \in [Slots -> Seq(LinkMsgs)]
      /\ \A sl \in Slots :
            /\ link'[s][sl] = link[s][sl] \o NoLinkNotices[sl]
            /\ \A i \in 1..Len(NoLinkNotices[sl]) :
                  /\ NoLinkNotices[sl][i].kind # "frame"
                  /\ NoLinkNotices[sl][i].kind = "ack" =>
                        \A t \in Slots : NoLinkNotices[sl][i].counts[t] <= delivered'[s][t]
  <2>1. link'[s] = link[s]
    BY DEF RelayTurn
  <2>2. /\ NoLinkNotices \in [Slots -> Seq(LinkMsgs)]
        /\ \A sl \in Slots : /\ link'[s][sl] = link[s][sl] \o NoLinkNotices[sl]
                             /\ Len(NoLinkNotices[sl]) = 0
    BY <2>1, NoLinkWrites
  <2>3. 1..0 = {}
    OBVIOUS
  <2> QED BY <2>2, <2>3
<1>2. \A i \in 1..Len(q) :
          /\ q[i].kind # "frame" /\ q[i].kind # "switch"
          /\ q[i].kind = "fallback" => leftLink'[s] /\ q[i].counts = delivered'[s]
  <2> TAKE i \in 1..Len(q)
  <2>1. Len(q) \in Nat /\ Len(q) <= 1
    BY DEF RelayTurn
  <2> DEFINE l == Len(q)
  <2>2. l \in Nat /\ l <= 1 /\ i \in 1..l
    BY <2>1
  <2> HIDE DEF l
  <2>3. i = 1 /\ l = 1
    BY <2>2
  <2> QED BY <2>3 DEF RelayTurn, l
<1>3. \A t \in Slots : delivered'[s][t] >= delivered[s][t]
  <2> TAKE t \in Slots
  <2>1. delivered[s][t] \in Nat /\ delivered'[s][t] = delivered[s][t]
    BY DirectionTypes DEF RelayTurn
  <2> QED BY <2>1
<1>4. leftLink[s] => leftLink'[s] /\ delivered'[s] = delivered[s]
  BY DEF RelayTurn
<1>5. OwnTurn(s, q, NoLinkNotices)
  BY <1>1, <1>2, <1>3, <1>4 DEF OwnTurn, RelayTurn
<1> QED BY <1>5, OwnTurnStep

\* The browser's offer, the host's refusal and the end of holding keep the invariant.
LEMMA MakeOfferKeeps ==
    ASSUME TypeOK, TypeOK', IInv, MakeOffer
    PROVE  IInv'
<1> DEFINE s == "browser"
           o == "host"
           q == <<OfferMsg>>
<1>1. s \in Sides /\ Other(s) = o /\ Other(o) = s /\ s # o /\ o \in Sides
  BY DEF Sides, Other
<1>2. q \in Seq(RelayMsgs) /\ Len(q) = 1 /\ q[1].kind = "offer"
  BY MessageTypes DEF OfferMsg
<1> HIDE DEF s, o, q
<1>3. /\ relay' = [relay EXCEPT ![s] = @ \o q]
      /\ UNCHANGED <<path, switched, leftLink, sending, held, delivered, inbox, peer, read, link, linkRead>>
  BY DEF MakeOffer, ToRelay, flags, receiving, s, q
<1>4. RelayTurn(s, q)
  BY <1>1, <1>2, <1>3 DEF RelayTurn, TypeOK, sending, peer
<1>5. PeerTurn(o)
  BY <1>1, <1>3 DEF PeerTurn, TypeOK, sending, peer
<1>6. Direction(s)'
  BY <1>1, <1>4, RelayTurnStep DEF IInv
<1> QED BY <1>1, <1>5, <1>6, TurnKeeps

LEMMA RelayOfferKeeps ==
    ASSUME TypeOK, TypeOK', IInv, RelayOffer
    PROVE  IInv'
<1> DEFINE s == "host"
           o == "browser"
<1>1. s \in Sides /\ Other(s) = o /\ Other(o) = s /\ s # o /\ o \in Sides
  BY DEF Sides, Other
<1>2. PICK q \in {<<>>, <<RefusedMsg>>} : relay' = [relay EXCEPT ![s] = @ \o q]
  <2>1. CASE relay' = relay
    <3>1. relay[s] \in Seq(RelayMsgs)
      BY <1>1 DEF TypeOK
    <3>2. relay[s] \o <<>> = relay[s]
      BY <3>1
    <3>3. relay' = [relay EXCEPT ![s] = @ \o <<>>]
      BY <2>1, <3>2 DEF TypeOK
    <3> QED BY <3>3
  <2>2. CASE relay' # relay
    BY <2>2 DEF RelayOffer, ToRelay
  <2> QED BY <2>1, <2>2
<1>3. q \in Seq(RelayMsgs) /\ Len(q) <= 1 /\ (Len(q) = 1 => q[1].kind = "refused")
  <2>1. CASE q = <<>>
    BY <2>1
  <2>2. CASE q = <<RefusedMsg>>
    <3>1. RefusedMsg \in RelayMsgs /\ RefusedMsg.kind = "refused"
      BY MessageTypes DEF RefusedMsg
    <3> QED BY <2>2, <3>1
  <2> QED BY <2>1, <2>2
<1> HIDE DEF s, o
<1>4. /\ read' = [read EXCEPT ![s] = @ + 1] /\ read[s] < Len(relay[o]) /\ relay[o][read[s] + 1].kind = "offer"
      /\ UNCHANGED <<path, switched, leftLink, sending, held, delivered, inbox, peer, link, linkRead>>
  BY <1>1 DEF RelayOffer, ReadRelay, Unread, NextRelay, receiving, s
<1>5. RelayTurn(s, q)
  BY <1>1, <1>2, <1>3, <1>4 DEF RelayTurn, TypeOK, sending, peer
<1>6. PeerTurn(o)
  BY <1>1, <1>2, <1>4 DEF PeerTurn, TypeOK, sending, peer
<1>7. Direction(s)'
  BY <1>1, <1>5, RelayTurnStep DEF IInv
<1> QED BY <1>1, <1>6, <1>7, TurnKeeps

LEMMA TickHoldingKeeps ==
    ASSUME TypeOK, TypeOK', IInv, NEW s \in Sides, TickHolding(s)
    PROVE  IInv'
<1> DEFINE o == Other(s)
<1>1. o \in Sides /\ Other(o) = s /\ o # s /\ Other(s) = o
  BY OtherSide
<1> HIDE DEF o
<1>2. path[s] = "holding" /\ path' = [path EXCEPT ![s] = "ended"]
      /\ UNCHANGED <<switched, leftLink, sending, held, delivered, inbox, peer, wires>>
  BY DEF TickHolding, receiving
<1>3. relay'[s] = relay[s] \o <<>> /\ <<>> \in Seq(RelayMsgs)
  <2>1. relay[s] \in Seq(RelayMsgs)
    BY DEF TypeOK
  <2> QED BY <1>2, <2>1 DEF wires
<1>4. RelayTurn(s, <<>>)
  BY <1>1, <1>2, <1>3 DEF RelayTurn, TypeOK, sending, peer, wires
<1>5. PeerTurn(o)
  BY <1>1, <1>2 DEF PeerTurn, TypeOK, sending, peer, wires
<1>6. Direction(s)'
  BY <1>4, RelayTurnStep DEF IInv
<1> QED BY <1>1, <1>5, <1>6, TurnKeeps

\* A sender's turn that may write a confirmation of its own deliveries to the link.
AckTurn(s) ==
    /\ \/ link'[s] = link[s]
       \/ link'[s] = [link[s] EXCEPT !["typing"] = Append(@, AckMsg(delivered'[s]))]
    /\ relay'[s] = relay[s]
    /\ read'[Other(s)] = read[Other(s)] /\ linkRead'[Other(s)] = linkRead[Other(s)]
    /\ held'[Other(s)] = held[Other(s)] /\ delivered'[Other(s)] = delivered[Other(s)]
    /\ inbox'[Other(s)] = inbox[Other(s)] /\ leftLink'[Other(s)] = leftLink[Other(s)]
    /\ peerSwitched'[Other(s)] = peerSwitched[Other(s)]
    /\ peerFallback'[Other(s)] = peerFallback[Other(s)]
    /\ switched'[s] = switched[s] /\ base'[s] = base[s] /\ sent'[s] = sent[s]
    /\ nextNumber'[s] = nextNumber[s] /\ kept'[s] = kept[s]
    /\ path'[s] = path[s] /\ leftLink'[s] = leftLink[s]
    /\ \A t \in Slots : delivered'[s][t] >= delivered[s][t]
    /\ leftLink[s] => delivered'[s] = delivered[s]

\* It keeps the direction's invariant (confirm).
LEMMA AckTurnStep ==
    ASSUME TypeOK, TypeOK', NEW s \in Sides, Direction(s), AckTurn(s)
    PROVE  Direction(s)'
<1> DEFINE Ack(m, t) == IF t = "typing" THEN <<m>> ELSE <<>>
<1>1. relay'[s] = relay[s] \o <<>> /\ <<>> \in Seq(RelayMsgs) /\ \A i \in 1..Len(<<>>) : FALSE
  <2>1. relay[s] \in Seq(RelayMsgs)
    BY DEF TypeOK
  <2> QED BY <2>1 DEF AckTurn
<1>2. \E lq \in [Slots -> Seq(LinkMsgs)] : \A sl \in Slots :
          /\ link'[s][sl] = link[s][sl] \o lq[sl]
          /\ \A i \in 1..Len(lq[sl]) :
                /\ lq[sl][i].kind # "frame"
                /\ lq[sl][i].kind = "ack" => \A t \in Slots : lq[sl][i].counts[t] <= delivered'[s][t]
  <2>1. CASE link'[s] = link[s]
    <3>1. /\ NoLinkNotices \in [Slots -> Seq(LinkMsgs)]
          /\ \A sl \in Slots : /\ link'[s][sl] = link[s][sl] \o NoLinkNotices[sl]
                               /\ Len(NoLinkNotices[sl]) = 0
      BY <2>1, NoLinkWrites
    <3>2. 1..0 = {}
      OBVIOUS
    <3> QED BY <3>1, <3>2
  <2>2. CASE link'[s] = [link[s] EXCEPT !["typing"] = Append(@, AckMsg(delivered'[s]))]
    <3>1. PICK m \in LinkMsgs : /\ link'[s] = [link[s] EXCEPT !["typing"] = Append(@, m)]
                                /\ m.kind = "ack" /\ m.counts = delivered'[s]
      <4>1. delivered'[s] \in Counts
        BY DEF TypeOK
      <4>2. AckMsg(delivered'[s]) \in LinkMsgs
        BY <4>1, MessageTypes
      <4> QED BY <2>2, <4>2 DEF AckMsg
    <3> DEFINE lq == [t \in Slots |-> Ack(m, t)]
    <3>2. lq \in [Slots -> Seq(LinkMsgs)]
      OBVIOUS
    <3>3. link[s] \in [Slots -> Seq(LinkMsgs)]
      BY DEF TypeOK
    <3>4. ASSUME NEW sl \in Slots
          PROVE  /\ link'[s][sl] = link[s][sl] \o lq[sl]
                 /\ \A i \in 1..Len(lq[sl]) : lq[sl][i] = m
      <4>1. CASE sl = "typing"
        BY <3>1, <3>3, <4>1
      <4>2. CASE sl # "typing"
        BY <3>1, <3>3, <4>2
      <4> QED BY <4>1, <4>2
    <3>5. \A t \in Slots : delivered'[s][t] <= delivered'[s][t]
      <4> TAKE t \in Slots
      <4>1. delivered'[s][t] \in Nat
        BY DEF TypeOK, Counts
      <4> QED BY <4>1
    <3>6. /\ m.kind # "frame" /\ \A t \in Slots : m.counts[t] <= delivered'[s][t]
      BY <3>1, <3>5
    <3> HIDE DEF lq
    <3> QED BY <3>2, <3>4, <3>6
  <2> QED BY <2>1, <2>2 DEF AckTurn
<1>3. PICK lq \in [Slots -> Seq(LinkMsgs)] : \A sl \in Slots :
          /\ link'[s][sl] = link[s][sl] \o lq[sl]
          /\ \A i \in 1..Len(lq[sl]) :
                /\ lq[sl][i].kind # "frame"
                /\ lq[sl][i].kind = "ack" => \A t \in Slots : lq[sl][i].counts[t] <= delivered'[s][t]
  BY <1>2
<1>4. OwnTurn(s, <<>>, lq)
  BY <1>1, <1>3 DEF OwnTurn, AckTurn
<1> QED BY <1>4, OwnTurnStep

\* A confirmation that is due keeps the invariant (Handoff::tick).
LEMMA TickAckKeeps ==
    ASSUME TypeOK, TypeOK', IInv, NEW s \in Sides, TickAck(s)
    PROVE  IInv'
<1> DEFINE o == Other(s)
<1>1. o \in Sides /\ Other(o) = s /\ o # s /\ Other(s) = o
  BY OtherSide
<1> HIDE DEF o
<1>2. /\ link' = [link EXCEPT ![s]["typing"] = Append(@, AckMsg(delivered[s]))]
      /\ UNCHANGED <<path, switched, leftLink, sending, held, delivered, inbox, peer, relay, read, linkRead>>
  BY DEF TickAck, Confirm, ToLink, flags
<1>3. /\ link'[s] = [link[s] EXCEPT !["typing"] = Append(@, AckMsg(delivered'[s]))]
      /\ link'[o] = link[o]
  BY <1>1, <1>2 DEF TypeOK
<1>4. \A t \in Slots : delivered'[s][t] >= delivered[s][t]
  <2> TAKE t \in Slots
  <2>1. delivered[s][t] \in Nat /\ delivered'[s][t] = delivered[s][t]
    BY <1>2, DirectionTypes
  <2> QED BY <2>1
<1>5. AckTurn(s)
  BY <1>1, <1>2, <1>3, <1>4 DEF AckTurn, sending, peer
<1>6. PeerTurn(o)
  BY <1>1, <1>2, <1>3 DEF PeerTurn, sending, peer
<1>7. Direction(s)'
  BY <1>5, AckTurnStep DEF IInv
<1> QED BY <1>1, <1>6, <1>7, TurnKeeps

\* The side that hands a link frame over takes a confirming turn in its own direction.
LEMMA HandedAck ==
    ASSUME TypeOK, TypeOK', NEW s \in Sides, ~leftLink[s], NEW sl \in Slots, NEW f, Handed(Other(s), sl, f),
           UNCHANGED <<path, switched, leftLink, sending, peer, relay, read>>,
           held'[Other(s)] = held[Other(s)], linkRead'[Other(s)] = linkRead[Other(s)]
    PROVE  AckTurn(s)
<1> DEFINE o == Other(s)
<1>1. o \in Sides /\ Other(o) = s /\ o # s /\ Other(s) = o
  BY OtherSide
<1>2. delivered[s] \in [Slots -> Nat]
  BY DEF TypeOK, Counts
<1>3. /\ delivered'[s] = [delivered[s] EXCEPT ![sl] = @ + 1]
      /\ delivered'[o] = delivered[o] /\ inbox'[o] = inbox[o]
      /\ \/ link'[s] = link[s]
         \/ link'[s] = [link[s] EXCEPT !["typing"] = Append(@, AckMsg(delivered'[s]))]
  BY <1>1 DEF Handed
<1>4. \A t \in Slots : delivered'[s][t] >= delivered[s][t]
  BY <1>2, <1>3
<1> HIDE DEF o
<1> QED BY <1>1, <1>3, <1>4 DEF AckTurn, sending, peer, o

\* Handing over a frame read from the link keeps the invariant (deliver_link).
LEMMA LinkFrameKeeps ==
    ASSUME TypeOK, TypeOK', IInv, NEW s \in Sides, NEW sl \in Slots, LinkFrame(s, sl)
    PROVE  IInv'
<1> DEFINE o == Other(s)
<1>1. o \in Sides /\ Other(o) = s /\ o # s /\ Other(s) = o /\ Direction(s) /\ Direction(o)
  BY OtherSide DEF IInv
<1> HIDE DEF o
<1>2. LinkFrame(Other(o), sl)
  BY <1>1
<1>3. Direction(o)'
  BY <1>1, <1>2, LinkFrameStep
<1>4. /\ ~leftLink[s] /\ linkRead[s][sl] < Len(link[o][sl]) /\ link[o][sl][linkRead[s][sl] + 1].kind = "frame"
      /\ linkRead' = [linkRead EXCEPT ![s][sl] = @ + 1]
      /\ DeliverLink(s, link[o][sl][linkRead[s][sl] + 1])
      /\ UNCHANGED <<path, switched, leftLink, sending, held, peer, relay, read>>
  BY <1>1 DEF LinkFrame, ReadLink, NextLink, flags
<1>5. PICK f : f = link[o][sl][linkRead[s][sl] + 1]
  OBVIOUS
<1>6. f \in Frames /\ f.slot = sl
  <2>1. linkRead[s][sl] + 1 \in 1..Len(link[o][sl]) /\ link[o][sl] \in Seq(LinkMsgs)
    BY <1>1, <1>4, DirectionTypes, SMTT(30)
  <2>2. f \in LinkMsgs
    BY <1>5, <2>1
  <2>3. LinkShape(o, sl)
    BY <1>1 DEF Direction
  <2> QED BY <1>4, <1>5, <2>1, <2>2, <2>3, RelayKinds DEF LinkShape
<1>7. Handing(o, sl, f)
  BY <1>1, <1>4, <1>5, <1>6 DEF Handing
<1>8. Handed(Other(s), sl, f)
  BY <1>1, <1>7, DeliverLinkWrites
<1>9. held'[Other(s)] = held[Other(s)] /\ linkRead'[Other(s)] = linkRead[Other(s)]
  BY <1>1, <1>4 DEF TypeOK
<1>10. AckTurn(s)
  BY <1>4, <1>8, <1>9, HandedAck
<1>11. Direction(s)'
  BY <1>1, <1>10, AckTurnStep
<1> QED BY <1>1, <1>3, <1>11, BothDirections

\* Handing over a held frame keeps the invariant (peer_switched).
LEMMA DeliverHeldKeeps ==
    ASSUME TypeOK, TypeOK', IInv, NEW s \in Sides, DeliverHeld(s)
    PROVE  IInv'
<1> DEFINE o == Other(s)
<1>1. o \in Sides /\ Other(o) = s /\ o # s /\ Other(s) = o /\ Direction(s) /\ Direction(o)
  BY OtherSide DEF IInv
<1> HIDE DEF o
<1>2. PICK sl \in Slots : /\ held[s][sl] # <<>> /\ peerSwitched[s]
                          /\ DeliverLink(s, Head(held[s][sl]))
                          /\ held' = [held EXCEPT ![s][sl] = Tail(@)]
  <2>1. Flushing(s)
    BY DEF DeliverHeld
  <2> DEFINE t == IF held[s]["typing"] # <<>> THEN "typing"
                  ELSE IF held[s]["screen"] # <<>> THEN "screen" ELSE "files"
  <2>2. t \in Slots /\ held[s][t] # <<>>
    BY <2>1, HeldSlot
  <2>3. DeliverLink(s, Head(held[s][t])) /\ held' = [held EXCEPT ![s][t] = Tail(@)]
    BY DEF DeliverHeld
  <2> HIDE DEF t
  <2> QED BY <2>1, <2>2, <2>3 DEF Flushing
<1>3. UNCHANGED <<path, switched, leftLink, sending, peer, relay, read, linkRead>>
  BY DEF DeliverHeld, flags
<1>4. Direction(o)'
  <2>1. /\ held[Other(o)][sl] # <<>> /\ peerSwitched[Other(o)]
        /\ DeliverLink(Other(o), Head(held[Other(o)][sl]))
        /\ held' = [held EXCEPT ![Other(o)][sl] = Tail(@)]
    BY <1>1, <1>2
  <2> QED BY <1>1, <1>3, <2>1, DeliverHeldStep DEF sending, peer
<1>5. PICK f : f = Head(held[s][sl])
  OBVIOUS
<1>6. ~leftLink[s] /\ f \in Frames /\ f.slot = sl
  <2>1. held[s][sl] \in Seq(Frames) /\ held[s][sl] # <<>>
    BY <1>2 DEF TypeOK
  <2>2. f = held[s][sl][1] /\ f \in Frames /\ 1 \in 1..Len(held[s][sl])
    BY <1>5, <2>1
  <2>3. HeldShape(o, sl)
    BY <1>1 DEF Direction
  <2> QED BY <1>1, <1>2, <2>2, <2>3 DEF HeldShape
<1>7. Handing(o, sl, f)
  BY <1>1, <1>2, <1>5, <1>6 DEF Handing
<1>8. Handed(Other(s), sl, f)
  BY <1>1, <1>7, DeliverLinkWrites
<1>9. held'[Other(s)] = held[Other(s)] /\ linkRead'[Other(s)] = linkRead[Other(s)]
  BY <1>1, <1>2, <1>3 DEF TypeOK
<1>10. AckTurn(s)
  BY <1>3, <1>6, <1>8, <1>9, HandedAck
<1>11. Direction(s)'
  BY <1>1, <1>10, AckTurnStep
<1> QED BY <1>1, <1>4, <1>11, BothDirections

\* Reading a session frame or the switch notice from the relay keeps the invariant.
LEMMA FromRelayKeeps ==
    ASSUME TypeOK, TypeOK', IInv, NEW s \in Sides, RelayFrame(s) \/ RelaySwitch(s)
    PROVE  IInv'
<1> DEFINE o == Other(s)
<1>1. o \in Sides /\ Other(o) = s /\ o # s /\ Other(s) = o /\ Direction(s) /\ Direction(o)
  BY OtherSide DEF IInv
<1> HIDE DEF o
<1>2. Direction(o)'
  <2>1. CASE RelayFrame(s)
    <3>1. PICK sl : sl = NextRelay(s).slot
      OBVIOUS
    <3> QED BY <1>1, <2>1, <3>1, RelayFrameStep
  <2>2. CASE RelaySwitch(s)
    BY <1>1, <2>2, RelaySwitchStep
  <2> QED BY <2>1, <2>2
<1>3. SameDirection(s)
  <2>1. CASE RelayFrame(s)
    BY <1>1, <2>1 DEF RelayFrame, ReadRelay, HandOver, SameDirection, TypeOK, flags, sending, peer
  <2>2. CASE RelaySwitch(s)
    BY <1>1, <2>2 DEF RelaySwitch, ReadRelay, SameDirection, TypeOK, sending, receiving
  <2> QED BY <2>1, <2>2
<1>4. Direction(s)'
  BY <1>1, <1>3, DirectionSame
<1> QED BY <1>1, <1>2, <1>4, BothDirections

\* Holding a frame that came ahead of the notice keeps the invariant (link_frame).
LEMMA HoldKeeps ==
    ASSUME TypeOK, TypeOK', IInv, NEW s \in Sides, NEW sl \in Slots, LinkAhead(s, sl),
           leftLink'[s] = leftLink[s]
    PROVE  IInv'
<1> DEFINE o == Other(s)
<1>1. o \in Sides /\ Other(o) = s /\ o # s /\ Other(s) = o /\ Direction(s) /\ Direction(o)
  BY OtherSide DEF IInv
<1> HIDE DEF o
<1>2. Direction(o)'
  BY <1>1, HoldStep
<1>3. ~Leave(s, peerFallback[s])
  BY DEF LinkAhead, ReadLink, Leave, TypeOK
<1>4. SameDirection(s)
  BY <1>1, <1>3 DEF LinkAhead, ReadLink, SameDirection, TypeOK, flags, sending, peer
<1>5. Direction(s)'
  BY <1>1, <1>4, DirectionSame
<1> QED BY <1>1, <1>2, <1>5, BothDirections

\* Letting confirmed copies go leaves the copies of everything the peer has not counted.
LEMMA LetGo ==
    ASSUME TypeOK, TypeOK', NEW s \in Sides, NEW sl \in Slots, path[s] # "relay", KeptShape(s, sl),
           NEW r \in Nat, r <= delivered[Other(s)][sl], kept'[s][sl] = Above(kept[s][sl], r),
           base'[s] = base[s], nextNumber'[s] = nextNumber[s],
           delivered'[Other(s)] = delivered[Other(s)]
    PROVE  KeptShape(s, sl)'
<1> DEFINE q == kept[s][sl]
           c == Confirmed(s, sl)
           n == nextNumber[s][sl]
           b == base[s][sl]
           l == Len(q)
           e == delivered[Other(s)][sl]
<1>1. q \in Seq(Kept) /\ n \in Nat /\ b \in Nat /\ e \in Nat /\ l \in Nat
  BY DirectionTypes
<1>2. /\ c = n - 1 - l /\ l <= n - 1 /\ c <= e /\ r <= e
      /\ \A i \in 1..l : q[i].n = c + i /\ q[i].frame.slot = sl /\ q[i].frame.id = b + c + i
  BY DEF KeptShape, Confirmed
<1>3. kept'[s][sl] = Above(q, r) /\ Confirmed(s, sl)' = n - 1 - Len(Above(q, r))
  BY DEF Confirmed
<1> HIDE DEF q, c, n, b, e
<1>4. c \in Nat
  <2> HIDE DEF l
  <2> QED BY <1>1, <1>2
<1>5. PICK d \in 0..l : /\ Len(Above(q, r)) = l - d
                        /\ \A i \in 1..(l - d) : Above(q, r)[i] = q[d + i]
                        /\ d = 0 \/ c + d <= r
  BY <1>1, <1>2, <1>4, AboveSuffix
<1> HIDE DEF l
<1>6. /\ d \in Nat /\ d <= l
      /\ n - 1 - (l - d) = c + d /\ l - d <= n - 1 /\ c + d <= e
  <2>1. d \in 0..l /\ (d = 0 \/ c + d <= r)
    BY <1>5
  <2>2. c = n - 1 - l /\ l <= n - 1 /\ c <= e /\ r <= e
    BY <1>2
  <2>3. d \in Nat /\ d <= l
    BY <1>1, <2>1
  <2>4. c + d <= e
    BY <1>1, <1>4, <2>1, <2>2, <2>3
  <2> QED BY <1>1, <2>2, <2>3, <2>4
<1>7. ASSUME NEW i \in 1..(l - d)
      PROVE  /\ Above(q, r)[i].n = c + d + i /\ Above(q, r)[i].frame.slot = sl
             /\ Above(q, r)[i].frame.id = b + (c + d) + i
  <2>0. d \in Nat /\ d <= l
    BY <1>6
  <2>1. d + i \in 1..l /\ c + (d + i) = c + d + i /\ b + c + (d + i) = b + (c + d) + i
    BY <1>1, <1>4, <2>0
  <2>2. Above(q, r)[i] = q[d + i]
    BY <1>5
  <2> QED BY <1>2, <2>1, <2>2
<1>8. /\ Len(kept'[s][sl]) = l - d /\ Confirmed(s, sl)' = c + d
      /\ nextNumber'[s][sl] = n /\ base'[s][sl] = b /\ delivered'[Other(s)][sl] = e
  BY <1>3, <1>5, <1>6 DEF n, b, e
<1> QED BY <1>3, <1>6, <1>7, <1>8 DEF KeptShape

\* Reading a confirmation keeps the invariant (confirmed).
LEMMA LinkAckKeeps ==
    ASSUME TypeOK, TypeOK', IInv, NEW s \in Sides, LinkAck(s)
    PROVE  IInv'
<1> DEFINE o == Other(s)
<1>1. o \in Sides /\ Other(o) = s /\ o # s /\ Other(s) = o /\ Direction(s) /\ Direction(o)
  BY OtherSide DEF IInv
<1> HIDE DEF o
<1> DEFINE m == link[o]["typing"][linkRead[s]["typing"] + 1]
<1>2. /\ ~leftLink[s] /\ linkRead[s]["typing"] < Len(link[o]["typing"]) /\ m.kind = "ack"
      /\ linkRead' = [linkRead EXCEPT ![s]["typing"] = @ + 1]
      /\ kept' = [kept EXCEPT ![s] = [sl \in Slots |-> Above(@[sl], m.counts[sl])]]
      /\ UNCHANGED <<path, switched, leftLink, nextNumber, sent, base, held, delivered, inbox, peer,
                     relay, read, link>>
  BY <1>1 DEF LinkAck, ReadLink, NextLink, flags, receiving
<1>3. linkRead[s]["typing"] + 1 \in 1..Len(link[o]["typing"]) /\ link[o]["typing"] \in Seq(LinkMsgs)
  <2>1. linkRead[Other(o)]["typing"] \in Nat /\ link[o]["typing"] \in Seq(LinkMsgs)
    BY <1>1, DirectionTypes, SlotsAreChannels
  <2>2. linkRead[s]["typing"] \in Nat /\ Len(link[o]["typing"]) \in Nat
    BY <1>1, <2>1
  <2> QED BY <1>2, <2>1, <2>2
<1>4. m.counts \in Counts /\ \A t \in Slots : m.counts[t] <= delivered[o][t]
  <2>1. m \in LinkMsgs
    BY <1>3
  <2>2. NoticeShape(o)
    BY <1>1 DEF Direction
  <2> QED BY <1>2, <1>3, <2>1, <2>2, RelayKinds DEF NoticeShape
<1>5. PICK r \in Counts : r = m.counts
  BY <1>4
<1>6. /\ \A t \in Slots : r[t] \in Nat /\ r[t] <= delivered[o][t]
      /\ \A t \in Slots : kept'[s][t] = Above(kept[s][t], r[t])
      /\ kept'[o] = kept[o]
  <2>1. kept'[s] = [sl \in Slots |-> Above(kept[s][sl], m.counts[sl])] /\ kept'[o] = kept[o]
    BY <1>1, <1>2 DEF TypeOK
  <2> QED BY <1>4, <1>5, <2>1 DEF Counts
<1>7. linkRead'[s]["typing"] = linkRead[s]["typing"] + 1 /\ linkRead'[o] = linkRead[o]
      /\ \A t \in Slots : t # "typing" => linkRead'[s][t] = linkRead[s][t]
  <2>1. linkRead[s] \in [Slots -> Nat] /\ linkRead'[o] = linkRead[o]
        /\ linkRead'[s] = [linkRead[s] EXCEPT !["typing"] = linkRead[s]["typing"] + 1]
    BY <1>1, <1>2 DEF TypeOK, Counts
  <2> QED BY <2>1, SlotsAreChannels
<1>8. \/ kept'[s] = kept[s]
      \/ path[s] # "relay" /\ path'[s] # "relay" /\ \A t \in Slots : KeptShape(s, t)'
  <2>1. CASE path[s] = "relay"
    <3>1. ASSUME NEW t \in Slots PROVE kept'[s][t] = kept[s][t]
      <4>1. kept[s][t] = <<>>
        BY <1>1, <2>1 DEF Direction, Numbering
      <4>2. Above(<<>>, r[t]) = <<>>
        BY DEF Above
      <4> QED BY <1>6, <4>1, <4>2
    <3>2. kept[s] \in [Slots -> Seq(Kept)] /\ kept'[s] \in [Slots -> Seq(Kept)]
      BY DEF TypeOK
    <3> QED BY <3>1, <3>2
  <2>2. CASE path[s] # "relay"
    <3>1. ASSUME NEW t \in Slots PROVE KeptShape(s, t)'
      <4>1. KeptShape(s, t)
        BY <1>1 DEF Direction
      <4> QED BY <1>1, <1>2, <1>6, <2>2, <4>1, LetGo
    <3> QED BY <1>2, <2>2, <3>1
  <2> QED BY <2>1, <2>2
<1> HIDE DEF m
<1>9. relay'[s] = relay[s] \o <<>> /\ <<>> \in Seq(RelayMsgs) /\ \A i \in 1..Len(<<>>) : FALSE
  <2>1. relay[s] \in Seq(RelayMsgs)
    BY DEF TypeOK
  <2> QED BY <1>2, <2>1
<1>10. /\ NoLinkNotices \in [Slots -> Seq(LinkMsgs)]
       /\ \A sl \in Slots : /\ link'[s][sl] = link[s][sl] \o NoLinkNotices[sl]
                            /\ \A i \in 1..Len(NoLinkNotices[sl]) : FALSE
  <2>1. link'[s] = link[s] /\ 1..0 = {}
    BY <1>2
  <2> QED BY <2>1, NoLinkWrites
<1>11. \A t \in Slots : delivered'[s][t] >= delivered[s][t]
  <2> TAKE t \in Slots
  <2>1. delivered[s][t] \in Nat /\ delivered'[s][t] = delivered[s][t]
    BY <1>2, DirectionTypes
  <2> QED BY <2>1
<1>12. OwnTurn(s, <<>>, NoLinkNotices)
  BY <1>1, <1>2, <1>7, <1>8, <1>9, <1>10, <1>11 DEF OwnTurn, peer
<1>13. PeerTurn(o)
  BY <1>1, <1>2, <1>6, <1>7 DEF PeerTurn, peer, m
<1>14. Direction(s)'
  BY <1>1, <1>12, OwnTurnStep
<1> QED BY <1>1, <1>13, <1>14, TurnKeeps

\* What a side that leaves the link may read in the same step: a notice on the relay, a
\* frame of the link that is passed over.
LeaveReads(s) ==
    /\ link' = link /\ peerSwitched' = peerSwitched
    /\ peerFallback'[Other(s)] = peerFallback[Other(s)]
    /\ \/ peerFallback'[s] = peerFallback[s]
       \/ leftLink[Other(s)] /\ peerFallback'[s] = delivered[Other(s)]
    /\ read'[Other(s)] = read[Other(s)] /\ linkRead'[Other(s)] = linkRead[Other(s)]
    /\ \/ read'[s] = read[s]
       \/ /\ read[s] < Len(relay[Other(s)]) /\ read'[s] = read[s] + 1
          /\ relay[Other(s)][read[s] + 1].kind # "frame"
    /\ \A sl \in Slots :
          \/ linkRead'[s][sl] = linkRead[s][sl]
          \/ linkRead[s][sl] < Len(link[Other(s)][sl]) /\ linkRead'[s][sl] = linkRead[s][sl] + 1

\* A side re-sends after what it wrote first.
Resending(s, first) ==
    /\ first \in Seq(RelayMsgs) /\ Len(first) <= 1
    /\ Len(first) = 1 => first[1].kind = "fallback" /\ first[1].counts = delivered[s]
    /\ relay'[s] = relay[s] \o (first \o Resent(s, delivered[Other(s)]))
    /\ path[s] # "relay" /\ path'[s] = "relay" /\ kept'[s] = [sl \in Slots |-> <<>>]
    /\ leftLink[Other(s)] /\ leftLink'[s] /\ leftLink'[Other(s)]
    /\ switched'[s] = switched[s] /\ base'[s] = base[s] /\ sent'[s] = sent[s]
    /\ nextNumber'[s] = nextNumber[s] /\ link'[s] = link[s] /\ delivered'[s] = delivered[s]
    /\ read'[Other(s)] = read[Other(s)] /\ linkRead'[Other(s)] = linkRead[Other(s)]
    /\ delivered'[Other(s)] = delivered[Other(s)] /\ held'[Other(s)] = held[Other(s)]
    /\ inbox'[Other(s)] = inbox[Other(s)]
    /\ peerSwitched'[Other(s)] = peerSwitched[Other(s)]
    /\ peerFallback'[Other(s)] = peerFallback[Other(s)]

\* Re-sending keeps the direction's invariant.
LEMMA ResendingStep ==
    ASSUME TypeOK, TypeOK', NEW s \in Sides, Direction(s), NEW first, Resending(s, first)
    PROVE  Direction(s)'
<1>1. \A i \in 1..Len(first) : /\ first[i].kind # "frame" /\ first[i].kind # "switch"
                               /\ first[i].kind = "fallback" => first[i].counts = delivered[s]
  <2> TAKE i \in 1..Len(first)
  <2> DEFINE l == Len(first)
  <2>1. l \in Nat /\ l <= 1 /\ i \in 1..l
    BY DEF Resending
  <2> HIDE DEF l
  <2>2. i = 1 /\ l = 1
    BY <2>1
  <2> QED BY <2>2 DEF Resending, l
<1>2. first \in Seq(RelayMsgs)
  BY DEF Resending
<1> QED BY <1>1, <1>2, ResendStep DEF Resending

\* Leaving the link keeps the invariant (Handoff::leave), given that a notice known of the
\* peer carries the peer's final counts.
LEMMA LeaveKeeps ==
    ASSUME TypeOK, TypeOK', IInv, NEW s \in Sides, NEW notice, Leave(s, notice), LeaveReads(s),
           notice = NoCounts \/ (leftLink[Other(s)] /\ notice = delivered[Other(s)])
    PROVE  IInv'
<1> DEFINE o == Other(s)
<1>1. o \in Sides /\ Other(o) = s /\ o # s /\ Other(s) = o /\ Direction(s) /\ Direction(o)
  BY OtherSide DEF IInv
<1> HIDE DEF o
<1>2. /\ leftLink' = [leftLink EXCEPT ![s] = TRUE]
      /\ held' = [held EXCEPT ![s] = [sl \in Slots |-> <<>>]]
      /\ UNCHANGED <<switched, nextNumber, sent, base, delivered, inbox>>
  BY DEF Leave
<1>3. /\ leftLink'[s] /\ leftLink'[o] = leftLink[o]
      /\ held'[s] = [sl \in Slots |-> <<>>] /\ held'[o] = held[o]
  BY <1>1, <1>2 DEF TypeOK
<1>4. PICK m : m = FallbackMsg(delivered[s])
  OBVIOUS
<1>5. m \in RelayMsgs /\ m.kind = "fallback" /\ m.counts = delivered[s]
  <2>1. delivered[s] \in Counts
    BY DEF TypeOK
  <2> QED BY <1>4, <2>1, MessageTypes DEF FallbackMsg
<1>6. <<m>> \in Seq(RelayMsgs) /\ Len(<<m>>) = 1 /\ <<m>>[1] = m
  BY <1>5
<1>7. Direction(s)' /\ path'[o] = path[o] /\ kept'[o] = kept[o] /\ relay'[o] = relay[o]
  <2>1. CASE path[s] = "link" /\ notice # NoCounts
    <3>1. ResendAfter(s, <<m>>, notice)
      BY <1>4, <2>1 DEF Leave
    <3>2. /\ relay' = [relay EXCEPT ![s] = @ \o (<<m>> \o Resent(s, notice))]
          /\ kept' = [kept EXCEPT ![s] = [sl \in Slots |-> <<>>]]
          /\ path' = [path EXCEPT ![s] = "relay"]
      BY <3>1 DEF ResendAfter, ToRelay
    <3>3. notice = delivered[o] /\ leftLink[o]
      BY <1>1, <2>1
    <3>4. /\ relay'[s] = relay[s] \o (<<m>> \o Resent(s, delivered[o]))
          /\ kept'[s] = [sl \in Slots |-> <<>>] /\ path'[s] = "relay"
          /\ path'[o] = path[o] /\ kept'[o] = kept[o] /\ relay'[o] = relay[o]
      BY <1>1, <3>2, <3>3 DEF TypeOK
    <3>5. Resending(s, <<m>>)
      BY <1>1, <1>2, <1>3, <1>5, <1>6, <2>1, <3>3, <3>4 DEF Resending, LeaveReads
    <3>6. Direction(s)'
      BY <1>1, <3>5, ResendingStep
    <3> QED BY <3>4, <3>6
  <2>2. CASE path[s] # "link" \/ notice = NoCounts
    <3>1. /\ relay' = [relay EXCEPT ![s] = @ \o <<m>>] /\ kept' = kept
          /\ \/ path[s] = "link" /\ path' = [path EXCEPT ![s] = "holding"]
             \/ path[s] # "link" /\ path' = path
      BY <1>4, <2>2 DEF Leave, ToRelay
    <3>2. /\ relay'[s] = relay[s] \o <<m>> /\ kept'[s] = kept[s]
          /\ \/ path[s] = "link" /\ path'[s] = "holding"
             \/ path[s] # "link" /\ path'[s] = path[s]
          /\ path'[o] = path[o] /\ kept'[o] = kept[o] /\ relay'[o] = relay[o]
      BY <1>1, <3>1 DEF TypeOK
    <3> DEFINE q == <<m>>
    <3>3. /\ q \in Seq(RelayMsgs) /\ Len(q) <= 1 /\ Len(q) = 1
          /\ q[1].kind = "fallback" /\ q[1].counts = delivered[s]
          /\ relay'[s] = relay[s] \o q
      BY <1>5, <1>6, <3>2
    <3> HIDE DEF q
    <3>4. RelayTurn(s, q)
      BY <1>1, <1>2, <1>3, <3>2, <3>3 DEF RelayTurn, LeaveReads
    <3>5. Direction(s)'
      BY <1>1, <3>4, RelayTurnStep
    <3> QED BY <3>2, <3>5
  <2> QED BY <2>1, <2>2
<1>8. PeerTurn(o)
  BY <1>1, <1>2, <1>3, <1>7 DEF PeerTurn, LeaveReads
<1> QED BY <1>1, <1>7, <1>8, TurnKeeps

\* Every leave that acts on what the side knows of its peer keeps the invariant: a lost
\* link, the budget, a refusal, and a frame too many ahead of the notice.
LEMMA KnownLeaveKeeps ==
    ASSUME TypeOK, TypeOK', IInv, NEW s \in Sides, Leave(s, peerFallback[s]), LeaveReads(s)
    PROVE  IInv'
<1>1. PICK notice : notice = peerFallback[s]
  OBVIOUS
<1>2. notice = NoCounts \/ (leftLink[Other(s)] /\ notice = delivered[Other(s)])
  <2>1. NoticeShape(Other(s)) /\ Other(Other(s)) = s
    BY OtherSide DEF IInv, Direction
  <2> QED BY <1>1, <2>1 DEF NoticeShape
<1>3. Leave(s, notice)
  BY <1>1
<1> QED BY <1>2, <1>3, LeaveKeeps

LEMMA LostKeeps ==
    ASSUME TypeOK, TypeOK', IInv, NEW s \in Sides, LinkLost(s) \/ TickBudget(s)
    PROVE  IInv'
<1>1. Leave(s, peerFallback[s]) /\ UNCHANGED <<peer, read, link, linkRead>>
  BY DEF LinkLost, TickBudget
<1>2. LeaveReads(s)
  BY <1>1 DEF LeaveReads, peer
<1> QED BY <1>1, <1>2, KnownLeaveKeeps

LEMMA RefusedKeeps ==
    ASSUME TypeOK, TypeOK', IInv, RelayRefused
    PROVE  IInv'
<1> DEFINE s == "browser"
           o == "host"
<1>1. s \in Sides /\ Other(s) = o /\ Other(o) = s /\ s # o /\ o \in Sides
  BY DEF Sides, Other
<1>2. /\ read' = [read EXCEPT ![s] = @ + 1] /\ read[s] < Len(relay[o]) /\ relay[o][read[s] + 1].kind = "refused"
      /\ UNCHANGED <<peer, link, linkRead>>
      /\ IF leftLink[s] THEN UNCHANGED <<flags, sending, receiving, setup, relay>>
         ELSE Leave(s, peerFallback[s])
  BY <1>1 DEF RelayRefused, ReadRelay, Unread, NextRelay
<1> HIDE DEF s, o
<1>3. read'[s] = read[s] + 1 /\ read'[o] = read[o]
  BY <1>1, <1>2 DEF TypeOK
<1>4. CASE leftLink[s]
  <2>1. SameDirection(s)
    BY <1>1, <1>2, <1>3, <1>4 DEF SameDirection, flags, sending, receiving, peer
  <2>2. PeerTurn(o)
    BY <1>1, <1>2, <1>3, <1>4 DEF PeerTurn, flags, sending, receiving, peer
  <2> QED BY <1>1, <2>1, <2>2, SilentTurn
<1>5. CASE ~leftLink[s]
  <2>1. LeaveReads(s)
    BY <1>1, <1>2, <1>3 DEF LeaveReads, peer
  <2> QED BY <1>1, <1>2, <1>5, <2>1, KnownLeaveKeeps
<1> QED BY <1>4, <1>5

LEMMA AheadKeeps ==
    ASSUME TypeOK, TypeOK', IInv, NEW s \in Sides, NEW sl \in Slots, LinkAhead(s, sl)
    PROVE  IInv'
<1> DEFINE o == Other(s)
<1>1. o \in Sides /\ Other(o) = s /\ o # s /\ Other(s) = o
  BY OtherSide
<1> HIDE DEF o
<1>2. CASE leftLink' = leftLink
  BY <1>2, HoldKeeps
<1>3. CASE leftLink' # leftLink
  <2>1. /\ Leave(s, peerFallback[s]) /\ UNCHANGED <<peer, read, link>>
        /\ linkRead[s][sl] < Len(link[o][sl]) /\ linkRead' = [linkRead EXCEPT ![s][sl] = @ + 1]
    BY <1>1, <1>3 DEF LinkAhead, ReadLink, flags
  <2>2. linkRead'[s][sl] = linkRead[s][sl] + 1 /\ linkRead'[o] = linkRead[o]
        /\ \A t \in Slots : t # sl => linkRead'[s][t] = linkRead[s][t]
    <3>1. linkRead[s] \in [Slots -> Nat] /\ linkRead'[o] = linkRead[o]
          /\ linkRead'[s] = [linkRead[s] EXCEPT ![sl] = linkRead[s][sl] + 1]
      BY <1>1, <2>1 DEF TypeOK, Counts
    <3> QED BY <3>1
  <2>3. LeaveReads(s)
    BY <1>1, <2>1, <2>2 DEF LeaveReads, peer
  <2> QED BY <2>1, <2>3, KnownLeaveKeeps
<1> QED BY <1>2, <1>3

\* Reading the peer's fall-back notice keeps the invariant (peer_fell_back).
LEMMA FallbackKeeps ==
    ASSUME TypeOK, TypeOK', IInv, NEW s \in Sides, RelayFallback(s)
    PROVE  IInv'
<1> DEFINE o == Other(s)
<1>1. o \in Sides /\ Other(o) = s /\ o # s /\ Other(s) = o /\ Direction(s) /\ Direction(o)
  BY OtherSide DEF IInv
<1> HIDE DEF o
<1>2. PICK r : r = relay[o][read[s] + 1].counts
  OBVIOUS
<1>3. /\ read' = [read EXCEPT ![s] = @ + 1] /\ read[s] < Len(relay[o]) /\ relay[o][read[s] + 1].kind = "fallback"
      /\ peerFallback' = [peerFallback EXCEPT ![s] = r] /\ UNCHANGED <<peerSwitched, link, linkRead>>
      /\ \/ ~leftLink[s] /\ Leave(s, r)
         \/ /\ leftLink[s] /\ path[s] = "holding" /\ ResendAfter(s, <<>>, r)
            /\ UNCHANGED <<switched, leftLink, nextNumber, sent, base, held, delivered, inbox>>
         \/ /\ leftLink[s] /\ path[s] # "holding"
            /\ UNCHANGED <<path, switched, leftLink, sending, held, delivered, inbox, relay>>
  BY <1>1, <1>2 DEF RelayFallback, ReadRelay, Unread, NextRelay, flags, receiving
<1>4. leftLink[o] /\ r = delivered[o]
  <2>1. read[s] + 1 \in 1..Len(relay[o])
    BY <1>1, <1>3 DEF TypeOK
  <2>2. NoticeShape(o)
    BY <1>1 DEF Direction
  <2> QED BY <1>2, <1>3, <2>1, <2>2 DEF NoticeShape
<1>5. /\ read'[s] = read[s] + 1 /\ read'[o] = read[o]
      /\ peerFallback'[s] = delivered[o] /\ peerFallback'[o] = peerFallback[o]
  BY <1>1, <1>3, <1>4 DEF TypeOK
<1>6. CASE ~leftLink[s]
  <2>1. LeaveReads(s)
    BY <1>1, <1>3, <1>4, <1>5 DEF LeaveReads
  <2> QED BY <1>1, <1>3, <1>4, <1>6, <2>1, LeaveKeeps
<1>7. CASE leftLink[s] /\ path[s] = "holding"
  <2>1. /\ relay' = [relay EXCEPT ![s] = @ \o (<<>> \o Resent(s, r))]
        /\ kept' = [kept EXCEPT ![s] = [sl \in Slots |-> <<>>]]
        /\ path' = [path EXCEPT ![s] = "relay"]
        /\ UNCHANGED <<switched, leftLink, nextNumber, sent, base, held, delivered, inbox>>
    BY <1>3, <1>7 DEF ResendAfter, ToRelay
  <2>2. /\ relay'[s] = relay[s] \o (<<>> \o Resent(s, delivered[o]))
        /\ kept'[s] = [sl \in Slots |-> <<>>] /\ path'[s] = "relay"
        /\ path'[o] = path[o] /\ kept'[o] = kept[o] /\ relay'[o] = relay[o]
    BY <1>1, <1>4, <2>1 DEF TypeOK
  <2>3. Resending(s, <<>>)
    <3>1. <<>> \in Seq(RelayMsgs) /\ Len(<<>>) <= 1 /\ Len(<<>>) # 1
      OBVIOUS
    <3> QED BY <1>1, <1>3, <1>4, <1>5, <1>7, <2>1, <2>2, <3>1 DEF Resending
  <2>4. Direction(s)'
    BY <1>1, <2>3, ResendingStep
  <2>5. PeerTurn(o)
    BY <1>1, <1>3, <1>4, <1>5, <2>1, <2>2 DEF PeerTurn
  <2> QED BY <1>1, <2>4, <2>5, TurnKeeps
<1>8. CASE leftLink[s] /\ path[s] # "holding"
  <2>1. UNCHANGED <<path, switched, leftLink, sending, held, delivered, inbox, relay>>
    BY <1>3, <1>8
  <2>2. SameDirection(s)
    BY <1>1, <1>3, <1>5, <2>1 DEF SameDirection, sending
  <2>3. PeerTurn(o)
    BY <1>1, <1>3, <1>4, <1>5, <2>1 DEF PeerTurn, sending
  <2> QED BY <1>1, <2>2, <2>3, SilentTurn
<1> QED BY <1>6, <1>7, <1>8

\* Before the first step nothing was sent, kept or written.
LEMMA InitIInv == Init => IInv
<1> SUFFICES ASSUME Init, NEW s \in Sides PROVE Direction(s)
  BY DEF IInv
<1> DEFINE p == Other(s)
<1>1. p \in Sides
  BY OtherSide
<1> HIDE DEF p
<1>2. /\ path[s] = "relay" /\ ~switched[s] /\ ~peerSwitched[p] /\ ~leftLink[p]
      /\ relay[s] = <<>> /\ read[p] = 0 /\ peerFallback[p] = NoCounts
      /\ \A t \in Slots : /\ kept[s][t] = <<>> /\ nextNumber[s][t] = 1 /\ sent[s][t] = 0 /\ base[s][t] = 0
                          /\ held[p][t] = <<>> /\ delivered[p][t] = 0 /\ inbox[p][t] = <<>>
                          /\ link[s][t] = <<>> /\ linkRead[p][t] = 0
  BY <1>1 DEF Init
<1>3. Len(<<>>) = 0 /\ 1..0 = {} /\ (0 + 1)..0 = {}
  OBVIOUS
<1>4. UnreadRelay(s) = {} /\ \A t \in Slots : UnreadLink(s, t) = {}
  BY <1>2, <1>3 DEF UnreadRelay, UnreadLink, p
<1>5. ReadBounds(s) /\ PathShape(s) /\ SwitchShape(s) /\ NoticeShape(s)
  BY <1>2, <1>3, <1>4, SlotsAreChannels DEF ReadBounds, PathShape, SwitchShape, NoticeShape, p
<1>6. ASSUME NEW t \in Slots
      PROVE  Numbering(s, t) /\ KeptShape(s, t) /\ InboxShape(s, t) /\ HeldShape(s, t)
  BY <1>2, <1>3 DEF Numbering, KeptShape, InboxShape, HeldShape, Got, p
<1>7. ASSUME NEW t \in Slots
      PROVE  RelayShape(s, t) /\ LinkShape(s, t)
  <2>1. Got(s, t) = 0 /\ LastOnRelay(s, t) = 0 /\ LastOnLink(s, t) = 0 /\ TakenOff(s, t) = 0
    BY <1>2, <1>3 DEF Got, LastOnRelay, LastOnLink, TakenOff, p
  <2> QED BY <1>2, <1>3, <1>4, <2>1 DEF RelayShape, LinkShape
<1> QED BY <1>5, <1>6, <1>7 DEF Direction

\* Every step keeps the invariant.
LEMMA NextIInv == TypeOK /\ IInv /\ [Next]_vars => IInv'
<1> SUFFICES ASSUME TypeOK, IInv, [Next]_vars PROVE IInv'
  OBVIOUS
<1>1. TypeOK'
  BY NextType
<1>2. CASE Attempt \/ LinkCut \/ UNCHANGED vars
  <2>1. UNCHANGED <<path, switched, leftLink, sending, held, delivered, inbox, peer, wires>>
    BY <1>2 DEF Attempt, LinkCut, vars, flags, receiving
  <2> QED BY <1>1, <2>1, SetupKeeps
<1>3. CASE MakeOffer
  BY <1>1, <1>3, MakeOfferKeeps
<1>4. ASSUME NEW s \in Sides, NEW c \in Channels, NEW len \in Sizes, Send(s, c, len)
      PROVE  IInv'
  BY <1>1, <1>4, SendKeeps
<1>5. ASSUME NEW s \in Sides, LinkOpen(s) \/ LinkLost(s) \/ TickBudget(s)
      PROVE  IInv'
  BY <1>1, <1>5, LinkOpenKeeps, LostKeeps
<1>6. ASSUME NEW s \in Sides, FromRelay(s)
      PROVE  IInv'
  BY <1>1, <1>6, FromRelayKeeps, FallbackKeeps, RelayOfferKeeps, RefusedKeeps DEF FromRelay
<1>7. ASSUME NEW s \in Sides, FromLink(s)
      PROVE  IInv'
  BY <1>1, <1>7, LinkAckKeeps, AheadKeeps, LinkFrameKeeps DEF FromLink
<1>8. ASSUME NEW s \in Sides, DeliverHeld(s) \/ TickAck(s) \/ TickHolding(s)
      PROVE  IInv'
  BY <1>1, <1>8, DeliverHeldKeeps, TickAckKeeps, TickHoldingKeeps
<1>9. ASSUME NEW s \in Sides, Close(s)
      PROVE  IInv'
  <2>1. UNCHANGED <<path, switched, leftLink, sending, held, delivered, inbox, peer, wires>>
    BY <1>9 DEF Close, receiving
  <2> QED BY <1>1, <2>1, SetupKeeps
<1> QED BY <1>2, <1>3, <1>4, <1>5, <1>6, <1>7, <1>8, <1>9 DEF Next

\* The invariant gives the stream's promise, and the copies a fall-back will ask for.
LEMMA IInvGives == TypeOK /\ IInv => InOrderOnce /\ KeptCoversLoss
<1> SUFFICES ASSUME TypeOK, IInv PROVE InOrderOnce /\ KeptCoversLoss
  OBVIOUS
<1>1. InOrderOnce
  <2> SUFFICES ASSUME NEW s \in Sides, NEW sl \in Slots
               PROVE  /\ Len(inbox[s][sl]) <= sent[Other(s)][sl]
                      /\ \A i \in 1..Len(inbox[s][sl]) : inbox[s][sl][i] = i
    BY DEF InOrderOnce
  <2>1. Other(s) \in Sides /\ Other(Other(s)) = s
    BY OtherSide
  <2>2. InboxShape(Other(s), sl)
    BY <2>1 DEF IInv, Direction
  <2> QED BY <2>1, <2>2 DEF InboxShape, Got
<1>2. KeptCoversLoss
  <2> SUFFICES ASSUME NEW s \in Sides, NEW sl \in Slots, path[s] \in {"link", "holding"},
                      NEW n \in (delivered[Other(s)][sl] + 1)..(nextNumber[s][sl] - 1)
               PROVE  \E i \in 1..Len(kept[s][sl]) : kept[s][sl][i].n = n
    BY DEF KeptCoversLoss
  <2> DEFINE c == Confirmed(s, sl)
             l == Len(kept[s][sl])
             e == delivered[Other(s)][sl]
             m == nextNumber[s][sl]
  <2>1. KeptShape(s, sl)
    BY DEF IInv, Direction
  <2>2. /\ c = m - 1 - l /\ l <= m - 1 /\ c <= e
        /\ \A i \in 1..l : kept[s][sl][i].n = c + i
    BY <2>1 DEF KeptShape, Confirmed
  <2>3. l \in Nat /\ e \in Nat /\ m \in Nat /\ n \in (e + 1)..(m - 1)
    BY DirectionTypes
  <2> HIDE DEF c, l, e, m
  <2>4. n - c \in 1..l /\ c + (n - c) = n
    BY <2>2, <2>3
  <2> QED BY <2>2, <2>4 DEF l
<1> QED BY <1>1, <1>2

\* Whatever the windows, sizes, layout and quotas, and whatever losses, notices and timers
\* come in between: on each slot the features are handed the peer's first frames, each once
\* and in its place.
THEOREM InOrderOnceHolds == Spec => []InOrderOnce
<1>1. Init => TypeOK /\ IInv
  BY InitType, InitIInv
<1>2. TypeOK /\ IInv /\ [Next]_vars => (TypeOK /\ IInv)'
  BY NextType, NextIInv
<1>3. TypeOK /\ IInv => InOrderOnce
  BY IInvGives
<1> QED BY <1>1, <1>2, <1>3, PTL DEF Spec

\* A side that may have to re-send still keeps a copy of every frame its peer has not
\* counted (confirmed, resend).
THEOREM KeptCoversLossHolds == Spec => []KeptCoversLoss
<1>1. Init => TypeOK /\ IInv
  BY InitType, InitIInv
<1>2. TypeOK /\ IInv /\ [Next]_vars => (TypeOK /\ IInv)'
  BY NextType, NextIInv
<1>3. TypeOK /\ IInv => KeptCoversLoss
  BY IInvGives
<1> QED BY <1>1, <1>2, <1>3, PTL DEF Spec

\* A frame handed over, with the invariant after it, is a reception of the stream: the
\* only place the invariant leaves it is the next one.
LEMMA HandOverReceives ==
    ASSUME TypeOK, TypeOK', IInv', NEW s \in Sides, NEW f \in Frames, HandOver(s, f), sent' = sent
    PROVE  Stream!Next
<1> DEFINE o == Other(s)
           q == inbox[s][f.slot]
<1>1. o \in Sides /\ Other(o) = s /\ f.slot \in Slots /\ f.id \in Nat
  BY OtherSide, RelayKinds
<1>2. PICK sl \in Slots : sl = f.slot
  BY <1>1
<1>3. q \in Seq(Nat) /\ inbox'[s][sl] = Append(q, f.id)
  <2>1. inbox[s] \in [Slots -> Seq(Nat)] /\ inbox' = [inbox EXCEPT ![s][sl] = Append(@, f.id)]
    BY <1>2 DEF TypeOK, HandOver
  <2> QED BY <1>2, <2>1 DEF TypeOK
<1> HIDE DEF o
<1>4. InboxShape(o, sl)'
  BY <1>1 DEF IInv, Direction
<1>5. /\ Len(inbox'[s][sl]) <= sent'[o][sl]
      /\ \A i \in 1..Len(inbox'[s][sl]) : inbox'[s][sl][i] = i
  BY <1>1, <1>4 DEF InboxShape, Got
<1> HIDE DEF q
<1>6. Len(q) \in Nat /\ Len(Append(q, f.id)) = Len(q) + 1 /\ Append(q, f.id)[Len(q) + 1] = f.id
  BY <1>1, <1>3
<1>7. f.id = Len(q) + 1
  <2>1. Len(q) + 1 \in 1..(Len(q) + 1)
    BY <1>6
  <2> QED BY <1>3, <1>5, <1>6, <2>1
<1>8. Len(q) < sent[o][sl]
  <2> DEFINE l == Len(q)
             m == sent[o][sl]
  <2>1. l \in Nat /\ m \in Nat /\ l + 1 <= m
    BY <1>1, <1>3, <1>5, <1>6, DirectionTypes
  <2> HIDE DEF l, m
  <2>2. l < m
    BY <2>1
  <2> QED BY <2>2 DEF l, m
<1>9. Stream!Receive(s, sl)
  <2>1. inbox' = [inbox EXCEPT ![s][sl] = Append(@, Len(@) + 1)]
    BY <1>2, <1>7 DEF HandOver, q
  <2> QED BY <1>2, <1>8, <2>1 DEF Stream!Receive, q, o
<1> QED BY <1>9 DEF Stream!Next

\* Every step of the hand-off is a step of the stream, or none.
LEMMA StepStream == TypeOK /\ IInv /\ [Next]_vars => [Stream!Next]_(Stream!vars)
<1> SUFFICES ASSUME TypeOK, IInv, [Next]_vars, ~(sent' = sent /\ inbox' = inbox) PROVE Stream!Next
  BY DEF Stream!vars
<1>1. TypeOK' /\ IInv'
  BY NextType, NextIInv
<1>2. ASSUME NEW s \in Sides, NEW c \in Channels, NEW len \in Sizes, Send(s, c, len)
      PROVE  Stream!Next
  <2>1. Slot(c) \in Slots
    BY SlotsAreChannels
  <2>2. Stream!Send(s, Slot(c))
    BY <1>2 DEF Send, Stream!Send, receiving
  <2> QED BY <2>1, <2>2 DEF Stream!Next
<1>3. ASSUME NEW s \in Sides, RelayFrame(s)
      PROVE  Stream!Next
  <2>1. PICK f : f = NextRelay(s)
    OBVIOUS
  <2>2. HandOver(s, f) /\ sent' = sent /\ f.kind = "frame"
    BY <1>3, <2>1 DEF RelayFrame, ReadRelay, sending
  <2>3. f \in RelayMsgs
    <3>1. /\ relay[Other(s)] \in Seq(RelayMsgs) /\ read[s] \in Nat /\ read[s] < Len(relay[Other(s)])
      BY <1>3, OtherSide DEF RelayFrame, ReadRelay, Unread, TypeOK
    <3> QED BY <2>1, <3>1 DEF NextRelay
  <2>4. f \in Frames
    BY <2>2, <2>3, RelayKinds
  <2> QED BY <1>1, <2>2, <2>4, HandOverReceives
<1>4. ASSUME NEW s \in Sides, NEW sl \in Slots, LinkFrame(s, sl)
      PROVE  Stream!Next
  <2>1. PICK f : f = NextLink(s, sl)
    OBVIOUS
  <2>2. HandOver(s, f) /\ sent' = sent /\ f.kind = "frame"
    BY <1>4, <2>1 DEF LinkFrame, DeliverLink, sending
  <2>3. f \in LinkMsgs
    <3>1. /\ link[Other(s)][sl] \in Seq(LinkMsgs) /\ linkRead[s][sl] \in Nat
          /\ linkRead[s][sl] < Len(link[Other(s)][sl])
      BY <1>4, OtherSide DEF LinkFrame, ReadLink, TypeOK, Counts
    <3> QED BY <2>1, <3>1 DEF NextLink
  <2>4. f \in Frames
    BY <2>2, <2>3, RelayKinds
  <2> QED BY <1>1, <2>2, <2>4, HandOverReceives
<1>5. ASSUME NEW s \in Sides, DeliverHeld(s)
      PROVE  Stream!Next
  <2> DEFINE t == IF held[s]["typing"] # <<>> THEN "typing"
                  ELSE IF held[s]["screen"] # <<>> THEN "screen" ELSE "files"
  <2>1. t \in Slots /\ held[s][t] # <<>>
    BY <1>5, HeldSlot DEF DeliverHeld
  <2>2. PICK f : f = Head(held[s][t])
    OBVIOUS
  <2>3. HandOver(s, f) /\ sent' = sent
    BY <1>5, <2>2 DEF DeliverHeld, DeliverLink, sending
  <2> HIDE DEF t
  <2>4. f \in Frames
    <3>1. held[s][t] \in Seq(Frames)
      BY <2>1 DEF TypeOK
    <3> QED BY <2>1, <2>2, <3>1
  <2> QED BY <1>1, <2>3, <2>4, HandOverReceives
<1>6. CASE Attempt \/ MakeOffer \/ LinkCut \/ UNCHANGED vars
  BY <1>6 DEF Attempt, MakeOffer, LinkCut, vars, sending, receiving
<1>7. ASSUME NEW s \in Sides, LinkOpen(s) \/ LinkLost(s) \/ TickAck(s) \/ TickBudget(s) \/ TickHolding(s) \/ Close(s)
      PROVE  FALSE
  BY <1>7 DEF LinkOpen, LinkLost, TickAck, TickBudget, TickHolding, Close, Leave, sending, receiving
<1>8. ASSUME NEW s \in Sides, RelaySwitch(s) \/ RelayFallback(s) \/ RelayOffer \/ RelayRefused
      PROVE  FALSE
  BY <1>8 DEF RelaySwitch, RelayFallback, RelayOffer, RelayRefused, Leave, sending, receiving
<1>9. ASSUME NEW s \in Sides, NEW sl \in Slots, LinkAck(s) \/ LinkAhead(s, sl)
      PROVE  FALSE
  BY <1>9 DEF LinkAck, LinkAhead, Leave, sending, receiving
<1> QED BY <1>2, <1>3, <1>4, <1>5, <1>6, <1>7, <1>8, <1>9, SlotsAreChannels DEF Next, FromRelay, FromLink

\* The hand-off implements the stream the features were promised, for every layout, window,
\* size and quota.
THEOREM StreamImplemented == Spec => StreamSpec
<1>1. Init => TypeOK /\ IInv
  BY InitType, InitIInv
<1>2. TypeOK /\ IInv /\ [Next]_vars => (TypeOK /\ IInv)'
  BY NextType, NextIInv
<1>3. Init => Stream!Init
  BY DEF Init, Stream!Init
<1>4. TypeOK /\ IInv /\ [Next]_vars => [Stream!Next]_(Stream!vars)
  BY StepStream
<1> QED BY <1>1, <1>2, <1>3, <1>4, PTL DEF Spec, StreamSpec, Stream!Spec
-----------------------------------------------------------------------------
(* Sums of lengths *)

\* f is the running sums of the first n lengths of w.
IsSums(f, w, n) ==
    /\ f \in [0..n -> Nat] /\ f[0] = 0
    /\ \A k \in 1..n : f[k] = f[k - 1] + w[k]

\* Running sums exist up to every length.
LEMMA SumsExist ==
    ASSUME NEW w \in Seq(Nat), NEW n \in 0..Len(w)
    PROVE  \E f : IsSums(f, w, n)
<1> DEFINE T == {k \in 0..Len(w) : ~\E f : IsSums(f, w, k)}
<1> SUFFICES ASSUME T # {} PROVE FALSE
  OBVIOUS
<1> DEFINE m == Min(T)
<1>0. Len(w) \in Nat
  OBVIOUS
<1>1. m \in T /\ \A y \in T : m <= y
  <2>1. T \subseteq Nat
    OBVIOUS
  <2> HIDE DEF T
  <2> QED BY <2>1, LeastElement
<1> HIDE DEF m
<1>2. m \in 0..Len(w) /\ ~\E f : IsSums(f, w, m)
  BY <1>1
<1>3. m # 0
  <2>1. IsSums([k \in 0..0 |-> 0], w, 0)
    BY DEF IsSums
  <2> QED BY <1>2, <2>1
<1>4. m - 1 \in 0..Len(w) /\ m \in 1..Len(w) /\ ~(m <= m - 1)
  BY <1>0, <1>2, <1>3
<1>5. PICK f : IsSums(f, w, m - 1)
  BY <1>1, <1>4, Zenon
<1> DEFINE g == [k \in 0..m |-> IF k = m THEN f[m - 1] + w[m] ELSE f[k]]
<1>6. w[m] \in Nat
  BY <1>4
<1>7. m \in Nat /\ m >= 1 /\ f \in [0..(m - 1) -> Nat] /\ f[0] = 0 /\ \A k \in 1..(m - 1) : f[k] = f[k - 1] + w[k]
  BY <1>4, <1>5, <1>0 DEF IsSums
<1> HIDE DEF T
<1>8. g \in [0..m -> Nat]
  BY <1>6, <1>7
<1>9. g[0] = 0
  BY <1>7
<1>10. ASSUME NEW k \in 1..m PROVE g[k] = g[k - 1] + w[k]
  BY <1>7
<1>11. IsSums(g, w, m)
  <2> HIDE DEF g
  <2> QED BY <1>8, <1>9, <1>10 DEF IsSums
<1> QED BY <1>2, <1>11

\* v and w begin with the same n lengths.
SameStart(v, w, n) == n <= Len(v) /\ n <= Len(w) /\ \A k \in 1..n : v[k] = w[k]

\* Running sums of the same lengths agree.
LEMMA SumsAgree ==
    ASSUME NEW v \in Seq(Nat), NEW w \in Seq(Nat), NEW n \in Nat, SameStart(v, w, n),
           NEW f, NEW g, IsSums(f, v, Len(v)), IsSums(g, w, Len(w))
    PROVE  \A k \in 0..n : f[k] = g[k]
<1> USE DEF SameStart
<1> DEFINE T == {k \in 0..n : f[k] # g[k]}
<1> SUFFICES ASSUME T # {} PROVE FALSE
  OBVIOUS
<1> DEFINE m == Min(T)
<1>1. m \in T /\ \A y \in T : m <= y
  <2>1. T \subseteq Nat
    OBVIOUS
  <2> HIDE DEF T
  <2> QED BY <2>1, LeastElement
<1> HIDE DEF m
<1>2. m \in 0..n /\ f[m] # g[m]
  BY <1>1
<1>3. m # 0
  BY <1>2 DEF IsSums
<1>4. m \in 1..n /\ m - 1 \in 0..n /\ m - 1 \notin T
  BY <1>1, <1>2, <1>3
<1>5. f[m - 1] = g[m - 1] /\ v[m] = w[m]
  BY <1>4
<1>6. m \in 1..Len(v) /\ m \in 1..Len(w)
  BY <1>4
<1>7. f[m] = f[m - 1] + v[m] /\ g[m] = g[m - 1] + w[m]
  BY <1>6 DEF IsSums
<1> QED BY <1>2, <1>5, <1>7

\* Sums adds the lengths up (Sending::unconfirmed, Receiving::held_bytes).
LEMMA SumsAre ==
    ASSUME NEW w \in Seq(Nat)
    PROVE  IsSums(Sums(w), w, Len(w))
<1> DEFINE Eq(f) == f = [k \in 0..Len(w) |-> IF k = 0 THEN 0 ELSE f[k - 1] + w[k]]
<1>1. Len(w) \in Nat /\ \A k \in 1..Len(w) : w[k] \in Nat
  OBVIOUS
<1>2. PICK f : IsSums(f, w, Len(w))
  BY <1>1, SumsExist
<1>3. Eq(f)
  BY <1>1, <1>2 DEF IsSums
<1>4. Sums(w) = CHOOSE g : Eq(g)
  BY Zenon DEF Sums
<1> HIDE DEF Eq
<1>5. Eq(Sums(w))
  BY <1>3, <1>4, Zenon
<1> DEFINE h == Sums(w)
<1>6. h = [k \in 0..Len(w) |-> IF k = 0 THEN 0 ELSE h[k - 1] + w[k]]
  BY <1>5 DEF Eq
<1> HIDE DEF h
<1>7. h[0] = 0 /\ \A k \in 1..Len(w) : h[k] = h[k - 1] + w[k]
  BY <1>1, <1>6
<1>8. \A k \in 0..Len(w) : h[k] \in Nat
  <2> DEFINE T == {k \in 0..Len(w) : h[k] \notin Nat}
  <2> SUFFICES ASSUME T # {} PROVE FALSE
    OBVIOUS
  <2> DEFINE m == Min(T)
  <2>1. m \in T /\ \A y \in T : m <= y
    <3>1. T \subseteq Nat
      OBVIOUS
    <3> HIDE DEF T
    <3> QED BY <3>1, LeastElement
  <2> HIDE DEF m
  <2>2. m \in 0..Len(w) /\ h[m] \notin Nat
    BY <2>1
  <2>3. m # 0
    BY <1>7, <2>2
  <2>4. m \in 1..Len(w) /\ m - 1 \in 0..Len(w) /\ m - 1 \notin T
    BY <1>1, <2>1, <2>2, <2>3
  <2>5. h[m - 1] \in Nat /\ w[m] \in Nat /\ h[m] = h[m - 1] + w[m]
    BY <1>1, <1>7, <2>4
  <2> QED BY <2>2, <2>5
<1>9. DOMAIN h = 0..Len(w) /\ h = [k \in DOMAIN h |-> h[k]]
  BY <1>6
<1>10. h \in [0..Len(w) -> Nat]
  BY <1>8, <1>9
<1>11. IsSums(h, w, Len(w))
  BY <1>7, <1>10 DEF IsSums
<1> QED BY <1>11 DEF h

\* A length at the end leaves the sums before it as they are and adds itself to the total.
LEMMA SumsGrow ==
    ASSUME NEW w \in Seq(Nat), NEW x \in Nat
    PROVE  /\ \A k \in 0..Len(w) : Sums(Append(w, x))[k] = Sums(w)[k]
           /\ Total(Append(w, x)) = Total(w) + x
<1>1. PICK v : v = Append(w, x)
  OBVIOUS
<1>2. /\ v \in Seq(Nat) /\ Len(v) = Len(w) + 1 /\ v[Len(v)] = x /\ Len(w) \in Nat
      /\ \A k \in 1..Len(w) : v[k] = w[k]
  BY <1>1
<1>3. IsSums(Sums(v), v, Len(v)) /\ IsSums(Sums(w), w, Len(w))
  BY <1>2, SumsAre
<1>4. Len(w) <= Len(v) /\ Len(w) <= Len(w) /\ Len(v) \in 1..Len(v) /\ Len(v) - 1 = Len(w) /\ Len(w) \in 0..Len(w)
  BY <1>2
<1>5. \A k \in 0..Len(w) : Sums(v)[k] = Sums(w)[k]
  <2>1. PICK f, g : f = Sums(v) /\ g = Sums(w)
    OBVIOUS
  <2>2. IsSums(f, v, Len(v)) /\ IsSums(g, w, Len(w))
    BY <1>3, <2>1
  <2>3. \A k \in 0..Len(w) : f[k] = g[k]
    <3>1. PICK n \in Nat : n = Len(w)
      BY <1>2
    <3>2. SameStart(v, w, n)
      BY <1>2, <1>4, <3>1 DEF SameStart
    <3>3. \A k \in 0..n : f[k] = g[k]
      BY <1>2, <2>2, <3>2, SumsAgree
    <3> QED BY <3>1, <3>3
  <2> QED BY <2>1, <2>3
<1>6. Sums(v)[Len(v)] = Sums(v)[Len(v) - 1] + v[Len(v)]
  BY <1>3, <1>4 DEF IsSums
<1>7. Total(v) = Total(w) + x
  BY <1>2, <1>4, <1>5, <1>6 DEF Total
<1> QED BY <1>1, <1>5, <1>7

\* Sums never decrease along the sequence.
LEMMA SumsAscend ==
    ASSUME NEW w \in Seq(Nat), NEW j \in 0..Len(w), NEW k \in 0..Len(w), j <= k
    PROVE  Sums(w)[j] <= Sums(w)[k]
<1> DEFINE T == {i \in 0..Len(w) : j <= i /\ ~(Sums(w)[j] <= Sums(w)[i])}
<1> SUFFICES ASSUME T # {} PROVE FALSE
  OBVIOUS
<1> DEFINE m == Min(T)
<1>1. m \in T /\ \A y \in T : m <= y
  <2>1. T \subseteq Nat
    OBVIOUS
  <2> HIDE DEF T
  <2> QED BY <2>1, LeastElement
<1> HIDE DEF m
<1>2. IsSums(Sums(w), w, Len(w)) /\ Len(w) \in Nat /\ \A i \in 1..Len(w) : w[i] \in Nat
  BY SumsAre
<1>3. PICK f : f = Sums(w)
  OBVIOUS
<1>4. /\ f \in [0..Len(w) -> Nat]
      /\ \A i \in 1..Len(w) : f[i] = f[i - 1] + w[i]
  BY <1>2, <1>3 DEF IsSums
<1>5. m \in 0..Len(w) /\ j <= m /\ ~(f[j] <= f[m])
  BY <1>1, <1>3
<1>6. f[j] \in Nat
  BY <1>4
<1>10. m # j
  BY <1>5, <1>6
<1>7. m \in 1..Len(w) /\ m - 1 \in 0..Len(w) /\ j <= m - 1 /\ ~(m <= m - 1)
  BY <1>2, <1>5, <1>10
<1>8. f[j] <= f[m - 1]
  BY <1>1, <1>3, <1>7, Zenon
<1>9. f[m] = f[m - 1] + w[m] /\ w[m] \in Nat /\ f[m - 1] \in Nat
  BY <1>2, <1>4, <1>7
<1> QED BY <1>5, <1>6, <1>8, <1>9

-----------------------------------------------------------------------------
(* The bytes held, kept and on the link *)

\* The lengths of frames and of kept copies, and the weights of what is on a link.
Lens(q) == [i \in 1..Len(q) |-> q[i].len]
KeptLens(q) == [i \in 1..Len(q) |-> q[i].frame.len]
Weights(q) == [i \in 1..Len(q) |-> Weight(q[i])]

\* Frames have a length, and what is on a link has a weight.
LEMMA LensTypes ==
    /\ \A q \in Seq(Frames) : Lens(q) \in Seq(Nat) /\ Len(Lens(q)) = Len(q)
    /\ \A q \in Seq(Kept) : KeptLens(q) \in Seq(Nat) /\ Len(KeptLens(q)) = Len(q)
    /\ \A q \in Seq(LinkMsgs) : Weights(q) \in Seq(Nat) /\ Len(Weights(q)) = Len(q)
<1>1. \A f \in Frames : f.len \in Nat
  BY HandoffAssumption DEF Frames
<1>2. \A e \in Kept : e.frame.len \in Nat
  BY <1>1 DEF Kept
<1>3. \A m \in LinkMsgs : Weight(m) \in Nat
  BY <1>1 DEF LinkMsgs, Weight
<1>4. ASSUME NEW q \in Seq(Frames) PROVE Lens(q) \in Seq(Nat) /\ Len(Lens(q)) = Len(q)
  <2>1. \A i \in 1..Len(q) : q[i].len \in Nat
    BY <1>1
  <2> QED BY <2>1 DEF Lens
<1>5. ASSUME NEW q \in Seq(Kept) PROVE KeptLens(q) \in Seq(Nat) /\ Len(KeptLens(q)) = Len(q)
  <2>1. \A i \in 1..Len(q) : q[i].frame.len \in Nat
    BY <1>2
  <2> QED BY <2>1 DEF KeptLens
<1>6. ASSUME NEW q \in Seq(LinkMsgs) PROVE Weights(q) \in Seq(Nat) /\ Len(Weights(q)) = Len(q)
  <2>1. \A i \in 1..Len(q) : Weight(q[i]) \in Nat
    BY <1>3
  <2> QED BY <2>1 DEF Weights
<1> QED BY <1>4, <1>5, <1>6

\* What is appended has its length at the end.
LEMMA LensAppend ==
    /\ \A q \in Seq(Frames), f \in Frames : Lens(Append(q, f)) = Append(Lens(q), f.len)
    /\ \A q \in Seq(Kept), e \in Kept : KeptLens(Append(q, e)) = Append(KeptLens(q), e.frame.len)
    /\ \A q \in Seq(LinkMsgs), m \in LinkMsgs : Weights(Append(q, m)) = Append(Weights(q), Weight(m))
<1>1. ASSUME NEW q \in Seq(Frames), NEW f \in Frames PROVE Lens(Append(q, f)) = Append(Lens(q), f.len)
  BY LensTypes DEF Lens
<1>2. ASSUME NEW q \in Seq(Kept), NEW e \in Kept PROVE KeptLens(Append(q, e)) = Append(KeptLens(q), e.frame.len)
  BY LensTypes DEF KeptLens
<1>3. ASSUME NEW q \in Seq(LinkMsgs), NEW m \in LinkMsgs PROVE Weights(Append(q, m)) = Append(Weights(q), Weight(m))
  BY LensTypes DEF Weights
<1> QED BY <1>1, <1>2, <1>3

\* A frame held is its length more held.
LEMMA BytesGrow ==
    ASSUME NEW q \in Seq(Frames), NEW f \in Frames
    PROVE  Bytes(q) \in Nat /\ Bytes(Append(q, f)) = Bytes(q) + f.len
<1>1. Lens(q) \in Seq(Nat) /\ f.len \in Nat /\ Lens(Append(q, f)) = Append(Lens(q), f.len)
  BY LensTypes, LensAppend, HandoffAssumption DEF Frames
<1>2. Bytes(q) = Total(Lens(q)) /\ Bytes(Append(q, f)) = Total(Lens(Append(q, f)))
  BY DEF Bytes, Lens
<1>3. Total(Lens(q)) \in Nat
  <2>1. IsSums(Sums(Lens(q)), Lens(q), Len(Lens(q))) /\ Len(Lens(q)) \in 0..Len(Lens(q))
    BY <1>1, SumsAre
  <2> QED BY <2>1 DEF IsSums, Total
<1> QED BY <1>1, <1>2, <1>3, SumsGrow

\* A copy kept is its frame's length more unconfirmed.
LEMMA KeptGrow ==
    ASSUME NEW q \in Seq(Kept), NEW e \in Kept
    PROVE  Total(KeptLens(Append(q, e))) = Total(KeptLens(q)) + e.frame.len
<1>1. KeptLens(q) \in Seq(Nat) /\ e.frame.len \in Nat
  BY LensTypes, HandoffAssumption DEF Kept, Frames
<1> QED BY <1>1, LensAppend, SumsGrow

\* A log that grows keeps its sums; the new total has the weight of what was added.
LEMMA LogGrow ==
    ASSUME NEW q \in Seq(LinkMsgs), NEW m \in LinkMsgs
    PROVE  /\ \A k \in 0..Len(q) : Sums(Weights(Append(q, m)))[k] = Sums(Weights(q))[k]
           /\ Total(Weights(Append(q, m))) = Total(Weights(q)) + Weight(m)
<1>1. Weights(q) \in Seq(Nat) /\ Len(Weights(q)) = Len(q)
  BY LensTypes
<1>2. Weight(m) \in Nat
  BY HandoffAssumption DEF LinkMsgs, Frames, Weight
<1>3. Weights(Append(q, m)) = Append(Weights(q), Weight(m))
  BY LensAppend
<1> QED BY <1>1, <1>2, <1>3, SumsGrow

\* Reading on in a log adds the weight of what is read.
LEMMA LogRead ==
    ASSUME NEW q \in Seq(LinkMsgs), NEW k \in Nat, k < Len(q)
    PROVE  /\ Sums(Weights(q))[k] \in Nat /\ Sums(Weights(q))[k + 1] \in Nat /\ Total(Weights(q)) \in Nat
           /\ Sums(Weights(q))[k + 1] = Sums(Weights(q))[k] + Weight(q[k + 1])
           /\ Sums(Weights(q))[k + 1] <= Total(Weights(q))
<1>1. PICK w : w = Weights(q)
  OBVIOUS
<1>2. w \in Seq(Nat) /\ Len(w) = Len(q)
  BY <1>1, LensTypes
<1>3. k + 1 \in 1..Len(w) /\ k \in 0..Len(w) /\ k + 1 \in 0..Len(w) /\ Len(w) \in 0..Len(w)
      /\ k + 1 <= Len(w) /\ (k + 1) - 1 = k /\ k + 1 \in 1..Len(q)
  BY <1>2
<1>4. w[k + 1] = Weight(q[k + 1])
  BY <1>1, <1>3 DEF Weights
<1>5. IsSums(Sums(w), w, Len(w)) /\ Sums(w)[k + 1] <= Sums(w)[Len(w)]
  BY <1>2, <1>3, SumsAre, SumsAscend
<1>6. Sums(w)[k + 1] = Sums(w)[k] + w[k + 1]
  BY <1>3, <1>5 DEF IsSums
<1>7. Sums(w)[k] \in Nat /\ Sums(w)[k + 1] \in Nat /\ Sums(w)[Len(w)] \in Nat
  BY <1>3, <1>5 DEF IsSums
<1> QED BY <1>1, <1>4, <1>5, <1>6, <1>7 DEF Total

-----------------------------------------------------------------------------
(* Held frames stay within the limit *)

\* A slot's sums are those of the weights on its log, the unconfirmed bytes those of its copies.
LEMMA WireIs ==
    ASSUME NEW s, NEW sl
    PROVE  /\ WireSums(s, sl) = Sums(Weights(link[s][sl]))
           /\ Unconfirmed(s, sl) = Total(KeptLens(kept[s][sl]))
<1>1. WireSums(s, sl) = Sums(Weights(link[s][sl]))
  BY DEF WireSums, Weights
<1>2. Unconfirmed(s, sl) = Total(KeptLens(kept[s][sl]))
  BY DEF Unconfirmed, KeptLens
<1> QED BY <1>1, <1>2

\* The last of the sums is the total.
LEMMA LogTotal ==
    ASSUME NEW q \in Seq(LinkMsgs)
    PROVE  Sums(Weights(q))[Len(q)] = Total(Weights(q)) /\ Total(Weights(q)) \in Nat
<1>1. PICK w : w = Weights(q)
  OBVIOUS
<1>2. w \in Seq(Nat) /\ Len(w) = Len(q)
  BY <1>1, LensTypes
<1>3. IsSums(Sums(w), w, Len(w)) /\ Len(w) \in 0..Len(w)
  BY <1>2, SumsAre
<1>4. Sums(w)[Len(w)] \in Nat
  BY <1>3 DEF IsSums
<1> QED BY <1>1, <1>2, <1>4 DEF Total

\* A side's window is a number of bytes.
LEMMA WindowTypes == \A s \in Sides, sl \in Slots : WindowOf(s, sl) \in Nat
BY HandoffAssumption DEF WindowOf

\* What s may write to the link without sending a frame.
LinkQuiet(s, sl) ==
    \/ link'[s][sl] = link[s][sl]
    \/ \E m \in LinkMsgs : m.kind = "ack" /\ link'[s][sl] = Append(link[s][sl], m)

\* What its peer may read there: nothing, a confirmation, or a frame that it holds.
Reads(s, sl) ==
    \/ /\ linkRead'[Other(s)][sl] = linkRead[Other(s)][sl]
       /\ held'[Other(s)][sl] = held[Other(s)][sl]
    \/ /\ linkRead[Other(s)][sl] < Len(link[s][sl])
       /\ linkRead'[Other(s)][sl] = linkRead[Other(s)][sl] + 1
       /\ \/ /\ link[s][sl][linkRead[Other(s)][sl] + 1].kind # "frame"
             /\ held'[Other(s)][sl] = held[Other(s)][sl]
          \/ /\ link[s][sl][linkRead[Other(s)][sl] + 1].kind = "frame"
             /\ held'[Other(s)][sl] = Append(held[Other(s)][sl], link[s][sl][linkRead[Other(s)][sl] + 1])

\* A step in which s sends no frame on the link and does not open it.
QuietStep(s, sl) ==
    /\ LinkQuiet(s, sl)
    /\ switched'[s] = switched[s]
    /\ ~peerSwitched'[Other(s)] =>
          /\ ~peerSwitched[Other(s)]
          /\ path'[s] = "link" => path[s] = "link" /\ kept'[s][sl] = kept[s][sl]
          /\ ~leftLink'[Other(s)] => ~leftLink[Other(s)] /\ Reads(s, sl)

\* Such a step leaves the bytes on the link as they are.
LEMMA WireQuiet ==
    ASSUME TypeOK, TypeOK', NEW s \in Sides, NEW sl \in Slots, LinkQuiet(s, sl)
    PROVE  /\ \A k \in 0..Len(link[s][sl]) : WireSums(s, sl)'[k] = WireSums(s, sl)[k]
           /\ WireBytes(s, sl)' = WireBytes(s, sl)
<1>1. link[s][sl] \in Seq(LinkMsgs)
  BY DirectionTypes
<1>2. /\ WireSums(s, sl) = Sums(Weights(link[s][sl]))
      /\ WireSums(s, sl)' = Sums(Weights(link'[s][sl]))
  BY DEF WireSums, Weights
<1>3. /\ WireBytes(s, sl) = Total(Weights(link[s][sl])) /\ WireBytes(s, sl) \in Nat
      /\ WireBytes(s, sl)' = Total(Weights(link'[s][sl]))
  <2>1. link'[s][sl] \in Seq(LinkMsgs)
    BY DEF TypeOK
  <2> QED BY <1>1, <1>2, <2>1, LogTotal DEF WireBytes
<1>4. CASE link'[s][sl] = link[s][sl]
  BY <1>2, <1>3, <1>4
<1>5. ASSUME NEW m \in LinkMsgs, m.kind = "ack", link'[s][sl] = Append(link[s][sl], m)
      PROVE  /\ \A k \in 0..Len(link[s][sl]) : WireSums(s, sl)'[k] = WireSums(s, sl)[k]
             /\ WireBytes(s, sl)' = WireBytes(s, sl)
  <2>1. Weight(m) = 0
    BY <1>5 DEF Weight
  <2>2. PICK q \in Seq(LinkMsgs) : q = link[s][sl]
    BY <1>1
  <2>3. /\ \A k \in 0..Len(q) : Sums(Weights(Append(q, m)))[k] = Sums(Weights(q))[k]
        /\ Total(Weights(Append(q, m))) = Total(Weights(q)) + 0
    BY <2>1, LogGrow
  <2> QED BY <1>2, <1>3, <1>5, <2>2, <2>3
<1> QED BY <1>4, <1>5 DEF LinkQuiet

\* A quiet step keeps the books of the direction: a confirmation weighs nothing, and what the
\* peer takes off the link it holds.
LEMMA QuietKeeps ==
    ASSUME TypeOK, TypeOK', NEW s \in Sides, NEW sl \in Slots, ReadBounds(s), Within(s, sl),
           QuietStep(s, sl)
    PROVE  Within(s, sl)'
<1> DEFINE o == Other(s)
<1>1. /\ o \in Sides /\ link[s][sl] \in Seq(LinkMsgs) /\ linkRead[o][sl] \in Nat
      /\ held[o][sl] \in Seq(Frames)
  BY DirectionTypes
<1>2. /\ \A k \in 0..Len(link[s][sl]) : WireSums(s, sl)'[k] = WireSums(s, sl)[k]
      /\ WireBytes(s, sl)' = WireBytes(s, sl)
  BY WireQuiet DEF QuietStep
<1>3. WindowOf(s, sl)' = WindowOf(s, sl) /\ switched'[s] = switched[s]
  BY DEF QuietStep, WindowOf
<1>4. ~switched'[s] => WireBytes(s, sl)' = 0
  BY <1>2, <1>3 DEF Within
<1>5. ASSUME ~peerSwitched'[o]
      PROVE  /\ path'[s] = "link" => Unconfirmed(s, sl)' = WireBytes(s, sl)'
             /\ 3 * WireBytes(s, sl)' <= 3 * WindowOf(s, sl)' + MaxLinkFrame
  <2>1. ~peerSwitched[o] /\ (path'[s] = "link" => path[s] = "link" /\ kept'[s][sl] = kept[s][sl])
    BY <1>5 DEF QuietStep
  <2>2. /\ path[s] = "link" => Unconfirmed(s, sl) = WireBytes(s, sl)
        /\ 3 * WireBytes(s, sl) <= 3 * WindowOf(s, sl) + MaxLinkFrame
    BY <2>1 DEF Within
  <2>3. path'[s] = "link" => Unconfirmed(s, sl)' = Unconfirmed(s, sl)
    BY <2>1 DEF Unconfirmed
  <2> QED BY <1>2, <1>3, <2>1, <2>2, <2>3
<1>6. ASSUME ~peerSwitched'[o], ~leftLink'[o]
      PROVE  Bytes(held'[o][sl]) = WireSums(s, sl)'[linkRead'[o][sl]]
  <2>1. ~peerSwitched[o] /\ ~leftLink[o] /\ Reads(s, sl)
    BY <1>6 DEF QuietStep
  <2>2. Bytes(held[o][sl]) = WireSums(s, sl)[linkRead[o][sl]]
    BY <2>1 DEF Within
  <2>3. linkRead[o][sl] \in 0..Len(link[s][sl]) /\ linkRead'[o][sl] \in 0..Len(link[s][sl])
    <3>1. linkRead[o][sl] <= Len(link[s][sl])
      BY DEF ReadBounds
    <3>2. Len(link[s][sl]) \in Nat
      BY <1>1
    <3> QED BY <1>1, <2>1, <3>1, <3>2 DEF Reads
  <2>4. CASE linkRead'[o][sl] = linkRead[o][sl] /\ held'[o][sl] = held[o][sl]
    BY <1>2, <2>2, <2>3, <2>4
  <2>5. CASE linkRead[o][sl] < Len(link[s][sl]) /\ linkRead'[o][sl] = linkRead[o][sl] + 1
    <3>1. PICK q \in Seq(LinkMsgs), k \in Nat : q = link[s][sl] /\ k = linkRead[o][sl]
      BY <1>1
    <3>2. /\ Sums(Weights(q))[k] \in Nat
          /\ Sums(Weights(q))[k + 1] = Sums(Weights(q))[k] + Weight(q[k + 1])
      BY <2>5, <3>1, LogRead
    <3>3. WireSums(s, sl)'[k + 1] = Sums(Weights(q))[k + 1] /\ Bytes(held[o][sl]) = Sums(Weights(q))[k]
      BY <1>2, <2>2, <2>3, <2>5, <3>1, WireIs
    <3>4. CASE q[k + 1].kind # "frame" /\ held'[o][sl] = held[o][sl]
      <4>1. Weight(q[k + 1]) = 0
        BY <3>4 DEF Weight
      <4> QED BY <2>5, <3>1, <3>2, <3>3, <3>4, <4>1
    <3>5. CASE q[k + 1].kind = "frame" /\ held'[o][sl] = Append(held[o][sl], q[k + 1])
      <4>1. k + 1 \in 1..Len(q)
        BY <2>5, <3>1
      <4>2. q[k + 1] \in Frames /\ Weight(q[k + 1]) = q[k + 1].len
        <5>1. q[k + 1] \in LinkMsgs
          BY <4>1
        <5> QED BY <3>5, <5>1 DEF LinkMsgs, Weight
      <4>3. Bytes(Append(held[o][sl], q[k + 1])) = Bytes(held[o][sl]) + q[k + 1].len
        BY <1>1, <4>2, BytesGrow
      <4> QED BY <2>5, <3>1, <3>2, <3>3, <3>5, <4>2, <4>3
    <3> QED BY <2>1, <2>4, <2>5, <3>1, <3>4, <3>5 DEF Reads
  <2> QED BY <2>1, <2>4, <2>5 DEF Reads
<1>7. Bytes(held[Other(s)][sl])' = Bytes(held'[Other(s)][sl])
  OBVIOUS
<1> QED BY <1>4, <1>5, <1>6, <1>7 DEF Within

\* A frame sent on the link is a frame more on it and a copy more kept; as the window was not
\* full, it goes past the window by less than its length (can_take).
LEMMA SendWithin ==
    ASSUME TypeOK, TypeOK', NEW s \in Sides, NEW sl \in Slots, Within(s, sl), ReadBounds(s), PathShape(s),
           NEW e \in Kept, path[s] = "link", Unconfirmed(s, sl) < WindowOf(s, sl),
           link'[s][sl] = Append(link[s][sl], e.frame), kept'[s][sl] = Append(kept[s][sl], e),
           UNCHANGED <<path, switched, leftLink, peerSwitched, held, linkRead>>
    PROVE  Within(s, sl)'
<1> DEFINE o == Other(s)
<1>1. /\ o \in Sides /\ link[s][sl] \in Seq(LinkMsgs) /\ linkRead[o][sl] \in Nat
      /\ kept[s][sl] \in Seq(Kept)
  BY DirectionTypes
<1>2. PICK f : f = e.frame
  OBVIOUS
<1>3. /\ f \in LinkMsgs /\ f \in Frames /\ Weight(f) = f.len /\ f.len \in Nat
      /\ 3 * (f.len - 1) <= MaxLinkFrame
  <2>1. f \in Frames
    BY <1>2 DEF Kept
  <2>2. f.kind = "frame" /\ f.len \in Sizes
    BY <2>1 DEF Frames
  <2> QED BY <2>1, <2>2, HandoffAssumption, FrameCapAssumption DEF LinkMsgs, Weight
<1>4. PICK q \in Seq(LinkMsgs) : q = link[s][sl]
  BY <1>1
<1>5. link'[s][sl] = Append(q, f) /\ Append(q, f) \in Seq(LinkMsgs)
  BY <1>2, <1>3, <1>4
<1>6. /\ WireSums(s, sl) = Sums(Weights(q)) /\ WireSums(s, sl)' = Sums(Weights(Append(q, f)))
      /\ WireBytes(s, sl) = Total(Weights(q)) /\ WireBytes(s, sl)' = Total(Weights(Append(q, f)))
  <2>1. WireSums(s, sl) = Sums(Weights(q)) /\ WireSums(s, sl)' = Sums(Weights(Append(q, f)))
    BY <1>4, <1>5 DEF WireSums, Weights
  <2> QED BY <1>4, <1>5, <2>1, LogTotal DEF WireBytes
<1>7. /\ \A k \in 0..Len(q) : WireSums(s, sl)'[k] = WireSums(s, sl)[k]
      /\ WireBytes(s, sl)' = WireBytes(s, sl) + f.len /\ WireBytes(s, sl) \in Nat
  BY <1>3, <1>6, LogGrow, LogTotal
<1>8. Unconfirmed(s, sl)' = Unconfirmed(s, sl) + f.len
  <2>1. Unconfirmed(s, sl) = Total(KeptLens(kept[s][sl])) /\ Unconfirmed(s, sl)' = Total(KeptLens(kept'[s][sl]))
    BY DEF Unconfirmed, KeptLens
  <2> QED BY <1>1, <1>2, <2>1, KeptGrow
<1>9. switched'[s] /\ WindowOf(s, sl)' = WindowOf(s, sl) /\ WindowOf(s, sl) \in Nat
  BY WindowTypes DEF PathShape, WindowOf
<1>10. ASSUME ~peerSwitched'[o]
       PROVE  /\ Unconfirmed(s, sl)' = WireBytes(s, sl)'
              /\ 3 * WireBytes(s, sl)' <= 3 * WindowOf(s, sl)' + MaxLinkFrame
  <2>1. Unconfirmed(s, sl) = WireBytes(s, sl)
    BY <1>10 DEF Within
  <2>2. WireBytes(s, sl) + 1 <= WindowOf(s, sl)
    BY <1>7, <1>9, <2>1
  <2>3. MaxLinkFrame \in Nat
    BY HandoffAssumption
  <2> QED BY <1>3, <1>7, <1>8, <1>9, <2>1, <2>2, <2>3
<1>11. ASSUME ~peerSwitched'[o], ~leftLink'[o]
       PROVE  Bytes(held'[o][sl]) = WireSums(s, sl)'[linkRead'[o][sl]]
  <2>1. Bytes(held[o][sl]) = WireSums(s, sl)[linkRead[o][sl]]
    BY <1>11 DEF Within
  <2>2. linkRead[o][sl] <= Len(q) /\ Len(q) \in Nat
    BY <1>4 DEF ReadBounds
  <2>3. linkRead[o][sl] \in 0..Len(q)
    BY <1>1, <2>2
  <2> QED BY <1>7, <2>1, <2>3
<1>12. Bytes(held[Other(s)][sl])' = Bytes(held'[Other(s)][sl])
  OBVIOUS
<1> QED BY <1>9, <1>10, <1>11, <1>12 DEF Within

\* Opening the link finds nothing kept and no frame on it, and may change the window.
LEMMA OpenWithin ==
    ASSUME TypeOK, TypeOK', NEW s \in Sides, NEW sl \in Slots, Within(s, sl), Numbering(s, sl),
           path[s] = "relay", ~switched[s], switched'[s],
           UNCHANGED <<kept, link, leftLink, peerSwitched, held, linkRead>>
    PROVE  Within(s, sl)'
<1>1. WireBytes(s, sl)' = 0 /\ WireSums(s, sl)' = WireSums(s, sl)
  BY DEF Within, WireBytes, WireSums
<1>2. Unconfirmed(s, sl)' = 0
  <2>1. kept'[s][sl] = <<>> /\ kept'[s][sl] \in Seq(Kept)
    BY DEF Numbering, TypeOK
  <2>2. Unconfirmed(s, sl)' = Total(KeptLens(kept'[s][sl]))
    BY DEF Unconfirmed, KeptLens
  <2>3. PICK w : w = KeptLens(kept'[s][sl])
    OBVIOUS
  <2>4. w \in Seq(Nat) /\ Len(w) = 0
    BY <2>1, <2>3, LensTypes
  <2>5. IsSums(Sums(w), w, 0)
    BY <2>4, SumsAre
  <2> QED BY <2>2, <2>3, <2>4, <2>5 DEF IsSums, Total
<1>3. WindowOf(s, sl)' \in Nat /\ MaxLinkFrame \in Nat
  BY HandoffAssumption DEF WindowOf
<1>4. 3 * WireBytes(s, sl)' <= 3 * WindowOf(s, sl)' + MaxLinkFrame
  BY <1>1, <1>3
<1>5. ~peerSwitched'[Other(s)] /\ ~leftLink'[Other(s)] =>
          Bytes(held[Other(s)][sl])' = WireSums(s, sl)'[linkRead'[Other(s)][sl]]
  BY <1>1 DEF Within
<1> QED BY <1>1, <1>2, <1>4, <1>5 DEF Within

\* Nothing confirmed, nothing let go: while the peer has delivered nothing, its confirmations
\* leave every copy where it is.
LEMMA NoneLetGo ==
    ASSUME NEW q \in Seq(Kept), NEW b \in Nat, \A i \in 1..Len(q) : q[i].n = b + i
    PROVE  Above(q, 0) = q
<1>1. PICK d \in 0..Len(q) : /\ Len(Above(q, 0)) = Len(q) - d
                             /\ \A i \in 1..(Len(q) - d) : Above(q, 0)[i] = q[d + i]
                             /\ d = 0 \/ b + d <= 0
  BY AboveSuffix
<1>2. d = 0 /\ Len(q) \in Nat
  BY <1>1
<1>3. Above(q, 0) \in Seq(Kept)
  BY AboveType
<1>4. Len(Above(q, 0)) = Len(q) /\ \A i \in 1..Len(q) : Above(q, 0)[i] = q[i]
  BY <1>1, <1>2
<1> QED BY <1>3, <1>4

\* A step that leaves the link's logs alone, and moves what it holds, reads or keeps only of a
\* side that leaves.
LinkCalm ==
    /\ UNCHANGED <<link, switched>>
    /\ \A s \in Sides :
          /\ path'[s] = "link" => path[s] = "link" /\ kept'[s] = kept[s]
          /\ peerSwitched[s] => peerSwitched'[s]
          /\ leftLink[s] => leftLink'[s]
          /\ ~leftLink'[s] => held'[s] = held[s] /\ linkRead'[s] = linkRead[s]

\* Such a step keeps the windows' books.
LEMMA LinkCalmKeeps ==
    ASSUME TypeOK, TypeOK', IInv, WindowInv, LinkCalm
    PROVE  WindowInv'
<1> SUFFICES ASSUME NEW s \in Sides, NEW sl \in Slots PROVE Within(s, sl)'
  BY DEF WindowInv
<1>1. Within(s, sl) /\ ReadBounds(s) /\ Other(s) \in Sides
  BY OtherSide DEF WindowInv, IInv, Direction
<1>2. QuietStep(s, sl)
  BY <1>1 DEF LinkCalm, QuietStep, LinkQuiet, Reads
<1> QED BY <1>1, <1>2, QuietKeeps

\* Leaving is calm: nothing is numbered, and the books of a side that left are closed.
LEMMA LeaveLinkCalm ==
    ASSUME TypeOK, TypeOK', NEW s \in Sides, NEW notice, Leave(s, notice),
           UNCHANGED <<link, peerSwitched>>, linkRead'[Other(s)] = linkRead[Other(s)]
    PROVE  LinkCalm
<1>1. PICK o : o = Other(s)
  OBVIOUS
<1>2. o \in Sides /\ o # s /\ \A t \in Sides : t = s \/ t = o
  BY <1>1 DEF Sides, Other
<1>3. /\ leftLink' = [leftLink EXCEPT ![s] = TRUE]
      /\ held' = [held EXCEPT ![s] = [sl \in Slots |-> <<>>]]
      /\ switched' = switched
  BY DEF Leave
<1>4. /\ \/ path' = [path EXCEPT ![s] = "relay"] /\ kept' = [kept EXCEPT ![s] = [sl \in Slots |-> <<>>]]
         \/ path' = [path EXCEPT ![s] = "holding"] /\ kept' = kept
         \/ path[s] # "link" /\ path' = path /\ kept' = kept
  BY DEF Leave, ResendAfter
<1>5. leftLink'[s] /\ leftLink'[o] = leftLink[o] /\ held'[o] = held[o]
  BY <1>2, <1>3 DEF TypeOK
<1>6. path'[s] # "link" /\ path'[o] = path[o] /\ kept'[o] = kept[o]
  BY <1>2, <1>4 DEF TypeOK
<1>7. ASSUME NEW t \in Sides
      PROVE  /\ path'[t] = "link" => path[t] = "link" /\ kept'[t] = kept[t]
             /\ leftLink[t] => leftLink'[t]
             /\ ~leftLink'[t] => held'[t] = held[t] /\ linkRead'[t] = linkRead[t]
  <2>1. CASE t = s
    BY <1>5, <1>6, <2>1
  <2>2. CASE t = o
    BY <1>1, <1>5, <1>6, <2>2
  <2> QED BY <1>2, <2>1, <2>2
<1>8. \A t \in Sides : peerSwitched[t] => peerSwitched'[t]
  OBVIOUS
<1> QED BY <1>3, <1>7, <1>8 DEF LinkCalm

\* So are the messages from the relay.
LEMMA RelayLinkCalm ==
    ASSUME TypeOK, TypeOK', NEW s \in Sides,
           \/ RelayFrame(s) \/ RelaySwitch(s) \/ RelayFallback(s)
           \/ s = "host" /\ RelayOffer
           \/ s = "browser" /\ RelayRefused
    PROVE  LinkCalm
<1>1. CASE RelayFrame(s) \/ (s = "host" /\ RelayOffer)
  <2>1. UNCHANGED <<path, switched, leftLink, kept, held, peerSwitched, link, linkRead>>
    BY <1>1 DEF RelayFrame, RelayOffer, flags, sending, receiving, peer
  <2> QED BY <2>1 DEF LinkCalm
<1>2. CASE RelaySwitch(s)
  <2>1. UNCHANGED <<path, switched, leftLink, kept, held, link, linkRead>>
    BY <1>2 DEF RelaySwitch, sending, receiving
  <2>2. peerSwitched' = peerSwitched \/ peerSwitched' = [peerSwitched EXCEPT ![s] = TRUE]
    BY <1>2 DEF RelaySwitch
  <2>3. \A t \in Sides : peerSwitched[t] => peerSwitched'[t]
    BY <2>2 DEF TypeOK
  <2> QED BY <2>1, <2>3 DEF LinkCalm
<1>3. CASE RelayFallback(s)
  <2>1. UNCHANGED <<peerSwitched, link, linkRead>>
    BY <1>3 DEF RelayFallback
  <2>2. CASE Leave(s, NextRelay(s).counts)
    <3>1. PICK notice : notice = NextRelay(s).counts
      OBVIOUS
    <3>2. Leave(s, notice)
      BY <2>2, <3>1
    <3> QED BY <2>1, <3>2, LeaveLinkCalm
  <2>3. CASE leftLink[s] /\ path[s] = "holding"
    <3>1. /\ UNCHANGED <<switched, leftLink, held>>
          /\ kept' = [kept EXCEPT ![s] = [sl \in Slots |-> <<>>]]
          /\ path' = [path EXCEPT ![s] = "relay"]
      BY <1>3, <2>3 DEF RelayFallback, ResendAfter, receiving
    <3>2. \A t \in Sides : path'[t] = "link" => path[t] = "link" /\ kept'[t] = kept[t]
      BY <3>1 DEF TypeOK
    <3> QED BY <2>1, <3>1, <3>2 DEF LinkCalm
  <2>4. CASE leftLink[s] /\ path[s] # "holding"
    <3>1. UNCHANGED <<path, switched, leftLink, held, kept>>
      BY <1>3, <2>4 DEF RelayFallback, flags, sending, receiving
    <3> QED BY <2>1, <3>1 DEF LinkCalm
  <2> QED BY <1>3, <2>2, <2>3, <2>4 DEF RelayFallback
<1>4. CASE s = "browser" /\ RelayRefused
  <2>1. UNCHANGED <<peerSwitched, link, linkRead>>
    BY <1>4 DEF RelayRefused, peer
  <2>2. CASE Leave(s, peerFallback[s])
    <3>1. PICK notice : notice = peerFallback[s]
      OBVIOUS
    <3>2. Leave(s, notice)
      BY <2>2, <3>1
    <3> QED BY <2>1, <3>2, LeaveLinkCalm
  <2>3. CASE leftLink[s]
    <3>1. UNCHANGED <<path, switched, leftLink, held, kept>>
      BY <1>4, <2>3 DEF RelayRefused, flags, sending, receiving
    <3> QED BY <2>1, <3>1 DEF LinkCalm
  <2> QED BY <1>4, <2>2, <2>3 DEF RelayRefused
<1> QED BY <1>1, <1>2, <1>3, <1>4

\* So are a lost link, the deadlines and a close.
LEMMA OwnLinkCalm ==
    ASSUME TypeOK, TypeOK', NEW s \in Sides, LinkLost(s) \/ TickBudget(s) \/ TickHolding(s) \/ Close(s)
    PROVE  LinkCalm
<1>1. CASE LinkLost(s) \/ TickBudget(s)
  <2>1. Leave(s, peerFallback[s]) /\ UNCHANGED <<peerSwitched, link, linkRead>>
    BY <1>1 DEF LinkLost, TickBudget, peer
  <2>2. PICK notice : notice = peerFallback[s]
    OBVIOUS
  <2>3. Leave(s, notice)
    BY <2>1, <2>2
  <2> QED BY <2>1, <2>3, LeaveLinkCalm
<1>2. CASE TickHolding(s)
  <2>1. /\ UNCHANGED <<switched, leftLink, kept, held, peerSwitched, link, linkRead>>
        /\ path' = [path EXCEPT ![s] = "ended"]
    BY <1>2 DEF TickHolding, sending, receiving, peer, wires
  <2>2. \A t \in Sides : path'[t] = "link" => path[t] = "link"
    BY <2>1 DEF TypeOK
  <2> QED BY <2>1, <2>2 DEF LinkCalm
<1>3. CASE Close(s)
  <2>1. UNCHANGED <<path, switched, leftLink, kept, held, peerSwitched, link, linkRead>>
    BY <1>3 DEF Close, sending, receiving, peer, wires
  <2> QED BY <2>1 DEF LinkCalm
<1> QED BY <1>1, <1>2, <1>3

\* At most one confirmation of t is written to the link.
Confirms(t) ==
    \/ link' = link
    \/ \E c \in Counts : link' = [link EXCEPT ![t]["typing"] = Append(@, AckMsg(c))]

\* It weighs nothing.
LEMMA ConfirmsQuiet ==
    ASSUME TypeOK, NEW t \in Sides, Confirms(t), NEW s \in Sides, NEW sl \in Slots
    PROVE  LinkQuiet(s, sl)
<1>1. CASE link' = link
  BY <1>1 DEF LinkQuiet
<1>2. ASSUME NEW c \in Counts, link' = [link EXCEPT ![t]["typing"] = Append(@, AckMsg(c))]
      PROVE  LinkQuiet(s, sl)
  <2>1. PICK m : m = AckMsg(c)
    OBVIOUS
  <2>2. m \in LinkMsgs /\ m.kind = "ack"
    BY <2>1 DEF AckMsg, LinkMsgs
  <2>3. link[s] \in [Slots -> Seq(LinkMsgs)] /\ link[t] \in [Slots -> Seq(LinkMsgs)] /\ "typing" \in Slots
    BY SlotsAreChannels DEF TypeOK
  <2>4. \/ link'[s] = link[s]
        \/ link'[s] = [link[s] EXCEPT !["typing"] = Append(link[s]["typing"], m)]
    BY <1>2, <2>1 DEF TypeOK
  <2>5. link'[s][sl] = link[s][sl] \/ link'[s][sl] = Append(link[s][sl], m)
    BY <2>3, <2>4
  <2> QED BY <2>2, <2>5 DEF LinkQuiet
<1> QED BY <1>1, <1>2 DEF Confirms

\* A step of t that confirms, and reads or hands over only behind the switch notice.
LEMMA ConfirmKeeps ==
    ASSUME TypeOK, TypeOK', IInv, WindowInv, NEW t \in Sides, Confirms(t),
           UNCHANGED <<path, switched, leftLink, kept, peerSwitched>>,
           held'[Other(t)] = held[Other(t)], linkRead'[Other(t)] = linkRead[Other(t)],
           peerSwitched[t] \/ (held' = held /\ linkRead' = linkRead)
    PROVE  WindowInv'
<1> SUFFICES ASSUME NEW s \in Sides, NEW sl \in Slots PROVE Within(s, sl)'
  BY DEF WindowInv
<1>1. Within(s, sl) /\ ReadBounds(s)
  BY DEF WindowInv, IInv, Direction
<1>2. LinkQuiet(s, sl)
  BY ConfirmsQuiet
<1>3. Other(s) = t \/ Other(s) = Other(t)
  BY DEF Sides, Other
<1>4. ~peerSwitched'[Other(s)] => Reads(s, sl)
  BY <1>3 DEF Reads
<1>5. QuietStep(s, sl)
  BY <1>2, <1>4 DEF QuietStep
<1> QED BY <1>1, <1>5, QuietKeeps

\* Handing a frame over confirms at most.
LEMMA DeliverConfirms ==
    ASSUME TypeOK, NEW t \in Sides, NEW f, f.slot \in Slots, DeliverLink(t, f)
    PROVE  Confirms(t)
<1>1. PICK c : c = [delivered[t] EXCEPT ![f.slot] = @ + 1]
  OBVIOUS
<1>2. link' = link \/ link' = [link EXCEPT ![t]["typing"] = Append(@, AckMsg(c))]
  BY <1>1 DEF DeliverLink, Confirm, ToLink
<1>3. c \in Counts
  <2>1. delivered[t] \in [Slots -> Nat]
    BY DEF TypeOK, Counts
  <2> QED BY <1>1, <2>1 DEF Counts
<1> QED BY <1>2, <1>3 DEF Confirms

\* The confirmation of the timer, and the two ways of handing a link frame over.
LEMMA TickAckWithin ==
    ASSUME TypeOK, TypeOK', IInv, WindowInv, NEW t \in Sides, TickAck(t)
    PROVE  WindowInv'
<1>1. /\ UNCHANGED <<path, switched, leftLink, kept, peerSwitched, held, linkRead>>
      /\ link' = [link EXCEPT ![t]["typing"] = Append(@, AckMsg(delivered[t]))]
  BY DEF TickAck, Confirm, ToLink, flags, sending, peer
<1>2. delivered[t] \in Counts
  BY DEF TypeOK
<1>3. Confirms(t)
  BY <1>1, <1>2 DEF Confirms
<1> QED BY <1>1, <1>3, ConfirmKeeps

LEMMA LinkFrameWithin ==
    ASSUME TypeOK, TypeOK', IInv, WindowInv, NEW t \in Sides, NEW sl \in Slots, LinkFrame(t, sl)
    PROVE  WindowInv'
<1>1. Other(t) \in Sides /\ Other(t) # t /\ Other(Other(t)) = t
  BY OtherSide
<1>2. PICK f : f = NextLink(t, sl)
  OBVIOUS
<1>3. /\ UNCHANGED <<path, switched, leftLink, kept, peerSwitched, held>>
      /\ linkRead' = [linkRead EXCEPT ![t][sl] = @ + 1] /\ peerSwitched[t]
      /\ linkRead[t][sl] < Len(link[Other(t)][sl])
      /\ f.kind = "frame" /\ DeliverLink(t, f)
  BY <1>2 DEF LinkFrame, ReadLink, flags, sending, peer
<1>4. f.slot \in Slots
  <2>1. linkRead[t][sl] \in Nat /\ link[Other(t)][sl] \in Seq(LinkMsgs)
    BY <1>1 DEF TypeOK, Counts
  <2>2. linkRead[t][sl] + 1 \in 1..Len(link[Other(t)][sl])
    BY <1>3, <2>1
  <2>3. f \in LinkMsgs
    BY <1>2, <2>1, <2>2 DEF NextLink
  <2> QED BY <1>3, <2>3 DEF LinkMsgs, Frames
<1>5. Confirms(t)
  BY <1>3, <1>4, DeliverConfirms
<1>6. linkRead'[Other(t)] = linkRead[Other(t)]
  BY <1>1, <1>3 DEF TypeOK
<1> QED BY <1>3, <1>5, <1>6, ConfirmKeeps

LEMMA DeliverHeldWithin ==
    ASSUME TypeOK, TypeOK', IInv, WindowInv, NEW t \in Sides, DeliverHeld(t)
    PROVE  WindowInv'
<1>1. Other(t) \in Sides /\ Other(t) # t
  BY OtherSide
<1>2. Flushing(t) /\ UNCHANGED <<path, switched, leftLink, kept, peerSwitched, linkRead>>
  BY DEF DeliverHeld, flags, sending, peer
<1> DEFINE x == IF held[t]["typing"] # <<>> THEN "typing"
                ELSE IF held[t]["screen"] # <<>> THEN "screen" ELSE "files"
<1>3. x \in Slots /\ held[t][x] # <<>>
  BY <1>2, HeldSlot
<1>4. DeliverLink(t, Head(held[t][x])) /\ held' = [held EXCEPT ![t][x] = Tail(@)]
  BY DEF DeliverHeld
<1> HIDE DEF x
<1>5. PICK f : f = Head(held[t][x])
  OBVIOUS
<1>6. f \in Frames /\ f.slot \in Slots
  <2>1. held[t][x] \in Seq(Frames)
    BY <1>3 DEF TypeOK
  <2>2. f \in Frames
    BY <1>3, <1>5, <2>1
  <2> QED BY <2>2 DEF Frames
<1>7. DeliverLink(t, f)
  BY <1>4, <1>5
<1>8. Confirms(t)
  BY <1>6, <1>7, DeliverConfirms
<1>9. held'[Other(t)] = held[Other(t)]
  BY <1>1, <1>4 DEF TypeOK
<1> QED BY <1>2, <1>8, <1>9, ConfirmKeeps DEF Flushing

\* Reading a confirmation lets nothing go before the switch notice was read: it counts nothing.
LEMMA LinkAckWithin ==
    ASSUME TypeOK, TypeOK', IInv, WindowInv, NEW t \in Sides, LinkAck(t)
    PROVE  WindowInv'
<1> DEFINE o == Other(t)
<1>1. o \in Sides /\ Other(o) = t /\ o # t /\ Other(t) = o /\ Direction(t) /\ Direction(o)
  BY OtherSide DEF IInv
<1> HIDE DEF o
<1>2. "typing" \in Slots
  BY SlotsAreChannels
<1>3. PICK m : m = link[o]["typing"][linkRead[t]["typing"] + 1]
  OBVIOUS
<1>4. /\ linkRead[t]["typing"] < Len(link[o]["typing"]) /\ m.kind = "ack"
      /\ linkRead' = [linkRead EXCEPT ![t]["typing"] = @ + 1]
      /\ kept' = [kept EXCEPT ![t] = [sl \in Slots |-> Above(@[sl], m.counts[sl])]]
      /\ UNCHANGED <<path, switched, leftLink, held, peerSwitched, link>>
  BY <1>1, <1>3 DEF LinkAck, ReadLink, NextLink, flags, receiving, peer
<1>5. linkRead[t]["typing"] + 1 \in 1..Len(link[o]["typing"]) /\ link[o]["typing"] \in Seq(LinkMsgs)
  <2>1. linkRead[t]["typing"] \in Nat /\ link[o]["typing"] \in Seq(LinkMsgs)
    BY <1>1, <1>2 DEF TypeOK, Counts
  <2>2. Len(link[o]["typing"]) \in Nat
    BY <2>1
  <2> QED BY <1>4, <2>1, <2>2
<1>6. \A sl \in Slots : m.counts[sl] \in Nat /\ m.counts[sl] <= delivered[o][sl]
  <2>1. m \in LinkMsgs
    BY <1>3, <1>5
  <2>2. m.counts \in Counts
    BY <1>4, <2>1, RelayKinds
  <2>3. NoticeShape(o)
    BY <1>1 DEF Direction
  <2> QED BY <1>3, <1>4, <1>5, <2>2, <2>3 DEF NoticeShape, Counts
<1>7. /\ linkRead'[o] = linkRead[o] /\ kept'[o] = kept[o]
      /\ linkRead'[t] = [linkRead[t] EXCEPT !["typing"] = @ + 1] /\ linkRead[t] \in [Slots -> Nat]
      /\ kept'[t] = [sl \in Slots |-> Above(kept[t][sl], m.counts[sl])]
  BY <1>1, <1>4 DEF TypeOK, Counts
<1>8. ASSUME NEW sl \in Slots PROVE QuietStep(t, sl)
  <2>1. ASSUME ~peerSwitched[o], path[t] = "link" PROVE kept'[t][sl] = kept[t][sl]
    <3>1. InboxShape(t, sl) /\ KeptShape(t, sl)
      BY <1>1 DEF Direction
    <3>2. delivered[o][sl] = 0
      BY <1>1, <2>1, <3>1 DEF InboxShape
    <3>3. m.counts[sl] = 0
      BY <1>6, <3>2
    <3>4. PICK q \in Seq(Kept) : q = kept[t][sl]
      BY DirectionTypes
    <3>9. PICK b : b = Confirmed(t, sl)
      OBVIOUS
    <3>5. nextNumber[t][sl] \in Nat
      BY DirectionTypes
    <3>6. /\ Len(q) <= nextNumber[t][sl] - 1 /\ b = nextNumber[t][sl] - 1 - Len(q)
          /\ \A i \in 1..Len(q) : q[i].n = b + i
      BY <2>1, <3>1, <3>4, <3>9 DEF KeptShape, Confirmed
    <3>7. b \in Nat
      BY <3>5, <3>6
    <3>8. Above(q, 0) = q
      BY <3>6, <3>7, NoneLetGo
    <3> QED BY <1>7, <3>3, <3>4, <3>8
  <2> QED BY <1>1, <1>4, <1>7, <2>1 DEF QuietStep, LinkQuiet, Reads
<1>9. ASSUME NEW sl \in Slots PROVE QuietStep(o, sl)
  <2>1. CASE sl = "typing"
    <3>1. linkRead'[t][sl] = linkRead[t][sl] + 1 /\ link[o][sl][linkRead[t][sl] + 1].kind # "frame"
      <4>1. linkRead'[t][sl] = linkRead[t][sl] + 1
        BY <1>2, <1>7, <2>1
      <4>2. m.kind # "frame" /\ m = link[o][sl][linkRead[t][sl] + 1]
        BY <1>3, <1>4, <2>1
      <4> QED BY <4>1, <4>2
    <3>2. Reads(o, sl)
      BY <1>1, <1>4, <2>1, <3>1 DEF Reads
    <3> QED BY <1>1, <1>4, <1>7, <3>2 DEF QuietStep, LinkQuiet
  <2>2. CASE sl # "typing"
    <3>1. linkRead'[t][sl] = linkRead[t][sl]
      BY <1>7, <2>2
    <3> QED BY <1>1, <1>4, <1>7, <3>1 DEF QuietStep, LinkQuiet, Reads
  <2> QED BY <2>1, <2>2
<1>10. ASSUME NEW s \in Sides, NEW sl \in Slots PROVE Within(s, sl)'
  <2>1. s = t \/ s = o
    BY <1>1 DEF Sides, Other
  <2>2. QuietStep(s, sl)
    BY <1>8, <1>9, <2>1
  <2>3. Within(s, sl) /\ ReadBounds(s)
    BY DEF WindowInv, IInv, Direction
  <2> QED BY <2>2, <2>3, QuietKeeps
<1> QED BY <1>10 DEF WindowInv

\* A frame ahead of the notice is held, or makes the side leave.
LEMMA AheadWithin ==
    ASSUME TypeOK, TypeOK', IInv, WindowInv, NEW t \in Sides, NEW x \in Slots, LinkAhead(t, x)
    PROVE  WindowInv'
<1> DEFINE o == Other(t)
<1>1. o \in Sides /\ Other(o) = t /\ o # t /\ Other(t) = o
  BY OtherSide
<1> HIDE DEF o
<1>2. PICK f : f = link[o][x][linkRead[t][x] + 1]
  OBVIOUS
<1>3. /\ linkRead[t][x] < Len(link[o][x]) /\ f.kind = "frame"
      /\ linkRead' = [linkRead EXCEPT ![t][x] = @ + 1]
      /\ UNCHANGED <<peerSwitched, link>>
  BY <1>1, <1>2 DEF LinkAhead, ReadLink, NextLink, peer
<1>4. /\ linkRead'[o] = linkRead[o] /\ linkRead[t] \in [Slots -> Nat]
      /\ linkRead'[t] = [linkRead[t] EXCEPT ![x] = linkRead[t][x] + 1]
  BY <1>1, <1>3 DEF TypeOK, Counts
<1>5. CASE Leave(t, peerFallback[t])
  <2>1. PICK notice : notice = peerFallback[t]
    OBVIOUS
  <2>2. Leave(t, notice)
    BY <1>5, <2>1
  <2>3. LinkCalm
    BY <1>1, <1>3, <1>4, <2>2, LeaveLinkCalm
  <2> QED BY <2>3, LinkCalmKeeps
<1>6. CASE ~Leave(t, peerFallback[t])
  <2>1. /\ held' = [held EXCEPT ![t][x] = Append(@, f)]
        /\ UNCHANGED <<path, switched, leftLink, kept>>
    BY <1>1, <1>2, <1>6 DEF LinkAhead, NextLink, flags, sending
  <2>2. /\ held'[o] = held[o] /\ held[t] \in [Slots -> Seq(Frames)]
        /\ held'[t] = [held[t] EXCEPT ![x] = Append(held[t][x], f)]
    BY <1>1, <2>1 DEF TypeOK
  <2>3. ASSUME NEW sl \in Slots PROVE QuietStep(t, sl)
    BY <1>1, <1>3, <1>4, <2>1, <2>2 DEF QuietStep, LinkQuiet, Reads
  <2>4. ASSUME NEW sl \in Slots PROVE QuietStep(o, sl)
    <3>1. CASE sl = x
      <4>1. linkRead'[t][sl] = linkRead[t][sl] + 1 /\ held'[t][sl] = Append(held[t][sl], f)
        BY <1>4, <2>2, <3>1
      <4>2. Reads(o, sl)
        BY <1>1, <1>2, <1>3, <3>1, <4>1 DEF Reads
      <4> QED BY <1>1, <1>3, <2>1, <4>2 DEF QuietStep, LinkQuiet
    <3>2. CASE sl # x
      <4>1. linkRead'[t][sl] = linkRead[t][sl] /\ held'[t][sl] = held[t][sl]
        BY <1>4, <2>2, <3>2
      <4> QED BY <1>1, <1>3, <2>1, <4>1 DEF QuietStep, LinkQuiet, Reads
    <3> QED BY <3>1, <3>2
  <2>5. ASSUME NEW s \in Sides, NEW sl \in Slots PROVE Within(s, sl)'
    <3>1. s = t \/ s = o
      BY <1>1 DEF Sides, Other
    <3>2. QuietStep(s, sl)
      BY <2>3, <2>4, <3>1
    <3>3. Within(s, sl) /\ ReadBounds(s)
      BY DEF WindowInv, IInv, Direction
    <3> QED BY <3>2, <3>3, QuietKeeps
  <2> QED BY <2>5 DEF WindowInv
<1> QED BY <1>5, <1>6

\* A frame is sent on the link only while its window is not full.
LEMMA SendKeepsWithin ==
    ASSUME TypeOK, TypeOK', IInv, WindowInv, NEW t \in Sides, NEW c \in Channels, NEW len \in Sizes,
           Send(t, c, len)
    PROVE  WindowInv'
<1> DEFINE x == Slot(c)
           f == FrameMsg(x, sent[t][x] + 1, len)
           e == [n |-> nextNumber[t][x], frame |-> f]
<1>1. x \in Slots /\ f \in Frames /\ e \in Kept /\ e.frame = f
  <2>1. x \in Slots
    BY SlotsAreChannels
  <2> HIDE DEF x
  <2>2. sent[t][x] + 1 \in Nat /\ nextNumber[t][x] \in Nat
    BY <2>1, DirectionTypes
  <2>3. f \in Frames
    BY <2>1, <2>2, MessageTypes
  <2> HIDE DEF f
  <2> QED BY <2>1, <2>2, <2>3 DEF Kept
<1>2. CASE path[t] = "relay"
  <2>1. UNCHANGED <<path, switched, leftLink, kept, held, peerSwitched, link, linkRead>>
    BY <1>2 DEF Send, flags, receiving, peer
  <2>2. LinkCalm
    BY <2>1 DEF LinkCalm
  <2> QED BY <2>2, LinkCalmKeeps
<1>3. CASE path[t] = "link"
  <2>1. /\ kept' = [kept EXCEPT ![t][x] = Append(@, e)] /\ link' = [link EXCEPT ![t][x] = Append(@, f)]
        /\ Unconfirmed(t, x) < WindowOf(t, x)
        /\ UNCHANGED <<path, switched, leftLink, peerSwitched, held, linkRead>>
    BY <1>3 DEF Send, CanTake, ToLink, flags, receiving, peer
  <2> HIDE DEF x, f, e
  <2>2. PICK g \in Kept : g = e /\ g.frame = f
    BY <1>1
  <2>3. /\ kept'[t] = [kept[t] EXCEPT ![x] = Append(kept[t][x], g)] /\ kept[t] \in [Slots -> Seq(Kept)]
        /\ link'[t] = [link[t] EXCEPT ![x] = Append(link[t][x], g.frame)] /\ link[t] \in [Slots -> Seq(LinkMsgs)]
    BY <2>1, <2>2 DEF TypeOK
  <2>4. \A s \in Sides : s # t => kept'[s] = kept[s] /\ link'[s] = link[s]
    BY <2>1 DEF TypeOK
  <2>5. ASSUME NEW s \in Sides, NEW sl \in Slots PROVE Within(s, sl)'
    <3>1. Within(s, sl) /\ ReadBounds(s) /\ PathShape(s)
      BY DEF WindowInv, IInv, Direction
    <3>2. CASE s = t /\ sl = x
      <4>1. link'[t][x] = Append(link[t][x], g.frame) /\ kept'[t][x] = Append(kept[t][x], g)
        BY <1>1, <2>3
      <4> QED BY <1>3, <2>1, <3>1, <3>2, <4>1, SendWithin
    <3>3. CASE s # t \/ sl # x
      <4>1. kept'[s][sl] = kept[s][sl] /\ link'[s][sl] = link[s][sl]
        BY <2>3, <2>4, <3>3
      <4>2. QuietStep(s, sl)
        BY <2>1, <4>1 DEF QuietStep, LinkQuiet, Reads
      <4> QED BY <3>1, <4>2, QuietKeeps
    <3> QED BY <3>2, <3>3
  <2> QED BY <2>5 DEF WindowInv
<1> QED BY <1>2, <1>3 DEF Send, CanTake

\* Opening the link.
LEMMA OpenKeepsWithin ==
    ASSUME TypeOK, TypeOK', IInv, WindowInv, NEW t \in Sides, LinkOpen(t)
    PROVE  WindowInv'
<1>1. /\ path[t] = "relay" /\ ~switched[t]
      /\ switched' = [switched EXCEPT ![t] = TRUE] /\ path' = [path EXCEPT ![t] = "link"]
      /\ UNCHANGED <<kept, link, leftLink, peerSwitched, held, linkRead>>
  BY DEF LinkOpen, sending, receiving, peer
<1>2. switched'[t] /\ \A s \in Sides : s # t => switched'[s] = switched[s] /\ path'[s] = path[s]
  BY <1>1 DEF TypeOK
<1>3. ASSUME NEW s \in Sides, NEW sl \in Slots PROVE Within(s, sl)'
  <2>1. Within(s, sl) /\ ReadBounds(s) /\ Numbering(s, sl)
    BY DEF WindowInv, IInv, Direction
  <2>2. CASE s = t
    BY <1>1, <1>2, <2>1, <2>2, OpenWithin
  <2>3. CASE s # t
    <3>1. QuietStep(s, sl)
      BY <1>1, <1>2, <2>3 DEF QuietStep, LinkQuiet, Reads
    <3> QED BY <2>1, <3>1, QuietKeeps
  <2> QED BY <2>2, <2>3
<1> QED BY <1>3 DEF WindowInv

\* A new hand-off has nothing on the link.
LEMMA InitWithin == Init => WindowInv
<1> SUFFICES ASSUME Init, NEW s \in Sides, NEW sl \in Slots PROVE Within(s, sl)
  BY DEF WindowInv
<1>1. Other(s) \in Sides
  BY OtherSide
<1>2. /\ link[s][sl] = <<>> /\ held[Other(s)][sl] = <<>> /\ linkRead[Other(s)][sl] = 0
      /\ path[s] = "relay"
  BY <1>1 DEF Init
<1>3. PICK q \in Seq(LinkMsgs) : q = link[s][sl]
  BY InitType, DirectionTypes
<1>4. PICK r \in Seq(Frames) : r = held[Other(s)][sl]
  BY InitType, DirectionTypes
<1>5. Len(q) = 0 /\ Len(r) = 0
  BY <1>2, <1>3, <1>4
<1>6. PICK v, w : v = Weights(q) /\ w = Lens(r)
  OBVIOUS
<1>7. v \in Seq(Nat) /\ Len(v) = 0 /\ w \in Seq(Nat) /\ Len(w) = 0
  BY <1>5, <1>6, LensTypes
<1>8. IsSums(Sums(v), v, 0) /\ IsSums(Sums(w), w, 0)
  BY <1>7, SumsAre
<1>9. WireSums(s, sl)[0] = 0 /\ WireBytes(s, sl) = 0
  <2>1. WireSums(s, sl) = Sums(v)
    BY <1>3, <1>6, WireIs
  <2> QED BY <1>3, <1>5, <1>8, <2>1 DEF IsSums, WireBytes
<1>10. Bytes(held[Other(s)][sl]) = 0
  <2>1. Bytes(r) = Total(w)
    BY <1>6 DEF Bytes, Lens
  <2> QED BY <1>4, <1>7, <1>8, <2>1 DEF IsSums, Total
<1>11. 3 * WireBytes(s, sl) <= 3 * WindowOf(s, sl) + MaxLinkFrame
  <2>1. WindowOf(s, sl) \in Nat /\ MaxLinkFrame \in Nat
    BY WindowTypes, HandoffAssumption
  <2> QED BY <1>9, <2>1
<1> QED BY <1>2, <1>9, <1>10, <1>11 DEF Within

\* Every step keeps the windows' books.
LEMMA NextWithin == TypeOK /\ IInv /\ WindowInv /\ [Next]_vars => WindowInv'
<1> SUFFICES ASSUME TypeOK, IInv, WindowInv, [Next]_vars PROVE WindowInv'
  OBVIOUS
<1>1. TypeOK'
  BY NextType
<1>2. CASE Attempt \/ MakeOffer \/ LinkCut \/ UNCHANGED vars
  <2>1. UNCHANGED <<path, switched, leftLink, kept, held, peerSwitched, link, linkRead>>
    BY <1>2 DEF Attempt, MakeOffer, LinkCut, vars, flags, sending, receiving, peer, wires
  <2>2. LinkCalm
    BY <2>1 DEF LinkCalm
  <2> QED BY <1>1, <2>2, LinkCalmKeeps
<1>3. ASSUME NEW s \in Sides, NEW c \in Channels, NEW len \in Sizes, Send(s, c, len)
      PROVE  WindowInv'
  BY <1>1, <1>3, SendKeepsWithin
<1>4. ASSUME NEW s \in Sides, LinkLost(s) \/ TickBudget(s) \/ TickHolding(s) \/ Close(s)
      PROVE  WindowInv'
  <2>1. LinkCalm
    BY <1>1, <1>4, OwnLinkCalm
  <2> QED BY <1>1, <2>1, LinkCalmKeeps
<1>5. ASSUME NEW s \in Sides, FromRelay(s)
      PROVE  WindowInv'
  <2>1. LinkCalm
    BY <1>1, <1>5, RelayLinkCalm DEF FromRelay
  <2> QED BY <1>1, <2>1, LinkCalmKeeps
<1>6. ASSUME NEW s \in Sides, FromLink(s)
      PROVE  WindowInv'
  BY <1>1, <1>6, LinkAckWithin, AheadWithin, LinkFrameWithin DEF FromLink
<1>7. ASSUME NEW s \in Sides, LinkOpen(s) \/ DeliverHeld(s) \/ TickAck(s)
      PROVE  WindowInv'
  BY <1>1, <1>7, OpenKeepsWithin, DeliverHeldWithin, TickAckWithin
<1> QED BY <1>2, <1>3, <1>4, <1>5, <1>6, <1>7 DEF Next

\* What p holds of a slot, with the frame it would read next, is at most what was put there.
LEMMA HeldOfSlot ==
    ASSUME TypeOK, NEW p \in Sides, NEW sl \in Slots, ~peerSwitched[p], ~leftLink[p],
           Within(Other(p), sl), ReadBounds(Other(p))
    PROVE  /\ Bytes(held[p][sl]) \in Nat /\ WireBytes(Other(p), sl) \in Nat
           /\ Bytes(held[p][sl]) <= WireBytes(Other(p), sl)
           /\ linkRead[p][sl] < Len(link[Other(p)][sl]) /\ NextLink(p, sl).kind = "frame" =>
                 Bytes(held[p][sl]) + NextLink(p, sl).len <= WireBytes(Other(p), sl)
<1>1. PICK s : s = Other(p)
  OBVIOUS
<1>2. s \in Sides /\ Other(s) = p
  BY <1>1, OtherSide
<1>3. PICK q \in Seq(LinkMsgs) : q = link[s][sl]
  BY <1>2, DirectionTypes
<1>4. PICK k \in Nat : k = linkRead[p][sl]
  BY DEF TypeOK, Counts
<1>5. k <= Len(q) /\ Len(q) \in Nat
  BY <1>1, <1>2, <1>3, <1>4 DEF ReadBounds
<1>6. Bytes(held[p][sl]) = Sums(Weights(q))[k]
  BY <1>1, <1>2, <1>3, <1>4, WireIs DEF Within
<1>7. WireBytes(s, sl) = Total(Weights(q)) /\ WireBytes(s, sl) \in Nat
  BY <1>3, LogTotal, WireIs DEF WireBytes
<1>8. CASE k = Len(q)
  <2>1. Sums(Weights(q))[k] = Total(Weights(q))
    BY <1>8, LogTotal
  <2> QED BY <1>1, <1>3, <1>4, <1>6, <1>7, <1>8, <2>1
<1>9. CASE k < Len(q)
  <2>1. /\ Sums(Weights(q))[k] \in Nat /\ Sums(Weights(q))[k + 1] \in Nat
        /\ Sums(Weights(q))[k + 1] = Sums(Weights(q))[k] + Weight(q[k + 1])
        /\ Sums(Weights(q))[k + 1] <= Total(Weights(q))
    BY <1>9, LogRead
  <2>2. q[k + 1] \in LinkMsgs
    BY <1>5, <1>9
  <2>3. Weight(q[k + 1]) \in Nat
    BY <2>2, HandoffAssumption DEF LinkMsgs, Frames, Weight
  <2>4. NextLink(p, sl) = q[k + 1]
    BY <1>1, <1>3, <1>4 DEF NextLink
  <2>5. NextLink(p, sl).kind = "frame" => Weight(q[k + 1]) = NextLink(p, sl).len
    BY <2>4 DEF Weight
  <2> QED BY <1>1, <1>6, <1>7, <2>1, <2>3, <2>5
<1> QED BY <1>5, <1>8, <1>9

\* The windows of the three channels and one frame each past them are the held limit.
LEMMA WithinGives == TypeOK /\ IInv /\ WindowInv => HeldWithinLimit
<1> SUFFICES ASSUME TypeOK, IInv, WindowInv, NEW p \in Sides, NEW x \in Slots,
                    ~leftLink[p], ~peerSwitched[p],
                    linkRead[p][x] < Len(link[Other(p)][x]), NextLink(p, x).kind = "frame"
             PROVE  HeldBytes(p) + NextLink(p, x).len <= HeldLimit
  BY DEF HeldWithinLimit
<1>1. PICK s \in Sides : s = Other(p)
  BY OtherSide
<1>2. PICK l : l = NextLink(p, x).len
  OBVIOUS
<1>3. ASSUME NEW sl \in Slots
      PROVE  /\ Bytes(held[p][sl]) \in Nat /\ WireBytes(s, sl) \in Nat
             /\ Bytes(held[p][sl]) <= WireBytes(s, sl)
             /\ sl = x => Bytes(held[p][sl]) + l <= WireBytes(s, sl)
             /\ 3 * WireBytes(s, sl) <= 3 * WindowOf(s, sl) + MaxLinkFrame
             /\ ~switched[s] => WireBytes(s, sl) = 0
  <2>1. Within(s, sl) /\ ReadBounds(s) /\ Other(s) = p
    BY <1>1, OtherSide DEF WindowInv, IInv, Direction
  <2>2. /\ 3 * WireBytes(s, sl) <= 3 * WindowOf(s, sl) + MaxLinkFrame
        /\ ~switched[s] => WireBytes(s, sl) = 0
    BY <2>1 DEF Within
  <2> QED BY <1>1, <1>2, <2>1, <2>2, HeldOfSlot
<1>4. Window \in Nat /\ TypingWindow \in Nat /\ MaxLinkFrame \in Nat
  BY HandoffAssumption
<1>5. l \in Nat
  <2>1. linkRead[p][x] \in Nat /\ link[s][x] \in Seq(LinkMsgs) /\ Len(link[s][x]) \in Nat
    BY DEF TypeOK, Counts
  <2>2. linkRead[p][x] + 1 \in 1..Len(link[s][x])
    BY <1>1, <2>1
  <2>3. NextLink(p, x) \in LinkMsgs
    BY <1>1, <2>1, <2>2 DEF NextLink
  <2> QED BY <1>2, <2>3, HandoffAssumption DEF LinkMsgs, Frames
<1>6. CASE Layout = "shared"
  <2>1. Slots = {"typing"} /\ x = "typing"
    BY <1>6 DEF Slots, Slot, Channels
  <2>2. HeldBytes(p) = Bytes(held[p]["typing"]) + 0 + 0
    BY <2>1 DEF HeldBytes
  <2>3. WindowOf(s, "typing") = Window
    BY <1>6 DEF WindowOf
  <2>4. PICK b, w : b = Bytes(held[p]["typing"]) /\ w = WireBytes(s, "typing")
    OBVIOUS
  <2>5. b \in Nat /\ w \in Nat /\ b + l <= w /\ 3 * w <= 3 * Window + MaxLinkFrame
    BY <1>3, <2>1, <2>3, <2>4
  <2>6. b + l <= 2 * Window + TypingWindow + MaxLinkFrame
    BY <1>4, <1>5, <2>5
  <2> QED BY <1>2, <2>2, <2>4, <2>5, <2>6 DEF HeldLimit
<1>7. CASE Layout = "separate"
  <2>1. Slots = {"typing", "screen", "files"}
    BY <1>7 DEF Slots, Slot, Channels
  <2>2. HeldBytes(p) = Bytes(held[p]["typing"]) + Bytes(held[p]["screen"]) + Bytes(held[p]["files"])
    BY <2>1 DEF HeldBytes
  <2>3. WindowOf(s, "screen") = Window /\ WindowOf(s, "files") = Window
    BY DEF WindowOf
  <2>4. switched[s] => WindowOf(s, "typing") = TypingWindow
    BY <1>7 DEF WindowOf
  <2>5. PICK bt, bs, bf : /\ bt = Bytes(held[p]["typing"]) /\ bs = Bytes(held[p]["screen"])
                          /\ bf = Bytes(held[p]["files"])
    OBVIOUS
  <2>6. PICK wt, ws, wf : /\ wt = WireBytes(s, "typing") /\ ws = WireBytes(s, "screen")
                          /\ wf = WireBytes(s, "files")
    OBVIOUS
  <2>7. bt \in Nat /\ bs \in Nat /\ bf \in Nat /\ wt \in Nat /\ ws \in Nat /\ wf \in Nat
    BY <1>3, <2>1, <2>5, <2>6
  <2>8. bt <= wt /\ bs <= ws /\ bf <= wf /\ (bt + l <= wt \/ bs + l <= ws \/ bf + l <= wf)
    BY <1>3, <2>1, <2>5, <2>6
  <2>9. 3 * ws <= 3 * Window + MaxLinkFrame /\ 3 * wf <= 3 * Window + MaxLinkFrame
    BY <1>3, <2>1, <2>3, <2>6
  <2>10. 3 * wt <= 3 * TypingWindow + MaxLinkFrame
    <3>1. CASE switched[s]
      BY <1>3, <2>1, <2>4, <2>6, <3>1
    <3>2. CASE ~switched[s]
      <4>1. wt = 0
        BY <1>3, <2>1, <2>6, <3>2
      <4> QED BY <1>4, <4>1
    <3> QED BY <3>1, <3>2
  <2>11. bt + bs + bf + l <= wt + ws + wf
    BY <1>5, <2>7, <2>8
  <2>12. wt + ws + wf <= 2 * Window + TypingWindow + MaxLinkFrame
    BY <1>4, <2>7, <2>9, <2>10
  <2>13. (bt + bs + bf) + l <= 2 * Window + TypingWindow + MaxLinkFrame
    BY <1>4, <1>5, <2>7, <2>11, <2>12
  <2>14. HeldBytes(p) = bt + bs + bf
    BY <2>2, <2>5
  <2> QED BY <1>2, <2>13, <2>14 DEF HeldLimit
<1> QED BY <1>6, <1>7, HandoffAssumption

\* Frames held ahead of the switch notice stay within the limit that makes a side leave, for
\* every window, layout and number of frames, when no frame is longer than a third of the
\* limit's slack (can_take, link_frame).
THEOREM HeldWithinLimitHolds == Spec => []HeldWithinLimit
<1>1. Init => TypeOK /\ IInv /\ WindowInv
  BY InitType, InitIInv, InitWithin
<1>2. TypeOK /\ IInv /\ WindowInv /\ [Next]_vars => (TypeOK /\ IInv /\ WindowInv)'
  BY NextType, NextIInv, NextWithin
<1>3. TypeOK /\ IInv /\ WindowInv => HeldWithinLimit
  BY WithinGives
<1> QED BY <1>1, <1>2, <1>3, PTL DEF Spec
=============================================================================
