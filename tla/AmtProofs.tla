----------------------------- MODULE AmtProofs ------------------------------
(***************************************************************************)
(* The channels of a CIRA connection, for every window and every number of *)
(* requests and of channels the device opens.                              *)
(***************************************************************************)
EXTENDS AmtChannels, TLAPS

\* The window is positive, and a request's channel is not one the device opened.
Sensible == Window \in Nat \ {0} /\ Requests \cap Inbound = {}

\* The window of a channel, in all the places where a part of it may be.
DueOf(c) == IF c \in Requests THEN due[c] ELSE 0
Given(c) == credit[c] + bytes[c] + inbox[c] + unacked[c] + adjust[c] + DueOf(c)

\* The message that gives the device a channel comes once.
Young == {"none", "asked"}
Messages ==
    /\ \A c \in ChannelIds : down[c] # "none" => dev[c] \in Young
    /\ \A c \in Inbound : /\ up[c] = "open" => dev[c] = "asked" /\ down[c] = "none"
                          /\ dev[c] = "none" => down[c] = "none"
    /\ \A r \in Requests :
         pc[r] \in {"idle", "asking"} => dev[r] = "none" /\ down[r] = "none"

\* A channel the device does not have yet has no window, any other at most one.
Books ==
    \A c \in ChannelIds : Given(c) <= Window /\ (dev[c] \in Young => Given(c) = 0)

\* An open is answered once: it is on the map, or in the loop's hands, or answered.
SlotEmpty ==
    /\ \A r \in Requests : pc[r] = "idle" => reply[r] = "none"
    /\ \A r \in opening : reply[r] = "none" /\ pc[r] # "idle"
    /\ loop = "answering" =>
         answered \notin opening /\ reply[answered] = "none" /\ pc[answered] # "idle"
    /\ loop = "ending" =>
         \A r \in toRefuse : r \notin opening /\ reply[r] = "none" /\ pc[r] # "idle"

\* A close from the device is its last word; a channel it opened stays until then.
LastWord ==
    /\ \A c \in ChannelIds : closeUp[c] = TRUE => dev[c] = "closed"
    /\ \A c \in Inbound : down[c] = "confirm" /\ closed = FALSE => c \in channels

AmtInv ==
    /\ AmtTypeOK /\ Messages /\ Books /\ NoLostWakeup /\ SlotEmpty /\ LastWord
    /\ DeviceKeepsNone

USE DEF ChannelIds, Exchange, Closing, Places, requestVars, connVars, chanVars, loopVars,
        deviceVars, downVars, upVars, deviceOnly, Request, Context

\* What is due and what stays unacknowledged are what was taken.
LEMMA AdjustSplits ==
    ASSUME NEW n \in Nat, Window \in Nat
    PROVE  AdjustDue(n) \in Nat /\ StillUnacked(n) \in Nat /\ AdjustDue(n) + StillUnacked(n) = n
BY DEF AdjustDue, StillUnacked

\* Every step of a request keeps the types.
LEMMA RequestTypes ==
    ASSUME Sensible, AmtTypeOK, NEW r \in Requests, RequestStep(r)
    PROVE  AmtTypeOK'
<1> USE DEF AmtTypeOK, Goto, WriteMessage, WriteAdjust, WriteChannelClose
<1>1. CASE OpenChannel(r)
    BY <1>1 DEF OpenChannel
<1>2. CASE WriteOpen(r)
    BY <1>2 DEF WriteOpen
<1>3. CASE TakeReply(r)
    BY <1>3 DEF TakeReply
<1>4. CASE OpenTimesOut(r)
    BY <1>4 DEF OpenTimesOut
<1>5. CASE AbandonOpen(r)
    BY <1>5 DEF AbandonOpen
<1>6. CASE AbandonDrains(r)
    BY <1>6 DEF AbandonDrains
<1>7. CASE Write(r)
  <2>1. pc' = [pc EXCEPT ![r] = "reading"] \/ pc' = [pc EXCEPT ![r] = "ending"]
    BY <1>7, Zenon DEF Write
  <2> QED
    BY <1>7, <2>1 DEF Write
<1>8. CASE \E n \in 1..inbox[r] : ReadTakes(r, n)
  <2>1. PICK n \in 1..inbox[r] : ReadTakes(r, n)
    BY <1>8
  <2>2. AdjustDue(unacked[r] + n) \in Nat /\ StillUnacked(unacked[r] + n) \in Nat
    <3>1. unacked[r] + n \in Nat
      BY <2>1
    <3> QED
      BY <3>1, AdjustSplits DEF Sensible
  <2> QED
    BY <2>1, <2>2 DEF ReadTakes
<1>9. CASE ReopenWindow(r)
    BY <1>9 DEF ReopenWindow
<1>10. CASE ReadEnds(r)
    BY <1>10 DEF ReadEnds
<1>11. CASE ReadParks(r)
    BY <1>11 DEF ReadParks
<1>12. CASE ReadWakes(r)
    BY <1>12 DEF ReadWakes
<1>13. CASE ContextEnds(r)
    BY <1>13 DEF ContextEnds, Move
<1>14. CASE \E who \in {Request, Context} :
              CloseEnds(r, who) \/ CloseForgets(r, who) \/ CloseTells(r, who)
  <2>1. PICK who \in {Request, Context} :
              CloseEnds(r, who) \/ CloseForgets(r, who) \/ CloseTells(r, who)
    BY <1>14
  <2>2. CASE CloseEnds(r, who)
    BY <2>2 DEF CloseEnds, EndChannel, Move
  <2>3. CASE CloseForgets(r, who)
    BY <2>3 DEF CloseForgets, Move
  <2>4. CASE CloseTells(r, who)
    BY <2>4 DEF CloseTells, Move
  <2> QED
    BY <2>1, <2>2, <2>3, <2>4
<1> QED
    BY <1>1, <1>2, <1>3, <1>4, <1>5, <1>6, <1>7, <1>8, <1>9, <1>10, <1>11, <1>12,
       <1>13, <1>14 DEF RequestStep

\* Every step of the loop keeps the types.
LEMMA LoopTypes ==
    ASSUME Sensible, AmtTypeOK, LoopStep
    PROVE  AmtTypeOK'
<1> USE DEF AmtTypeOK, Goto, WriteMessage, WriteAdjust, WriteChannelClose, EndChannel
<1>1. CASE \E r \in Requests : ConfirmOpen(r)
  <2>1. PICK r \in Requests : ConfirmOpen(r)
    BY <1>1
  <2>2. CASE r \in opening
    BY <2>1, <2>2 DEF ConfirmOpen
  <2>3. CASE r \notin opening
    BY <2>1, <2>3 DEF ConfirmOpen
  <2> QED
    BY <2>2, <2>3
<1>2. CASE \E r \in Requests : RefuseOpen(r)
    BY <1>2 DEF RefuseOpen
<1>3. CASE \E r \in Requests : CloseRefuses(r)
    BY <1>3 DEF CloseRefuses
<1>4. CASE \E c \in Inbound : HandleChannelOpen(c)
    BY <1>4 DEF HandleChannelOpen
<1>5. CASE \E c \in ChannelIds : \E n \in 1..bytes[c] : HandleChannelData(c, n)
  <2>1. PICK c \in ChannelIds : \E n \in 1..bytes[c] : HandleChannelData(c, n)
    BY <1>5
  <2>2. PICK n \in 1..bytes[c] : HandleChannelData(c, n)
    BY <2>1
  <2>3. AdjustDue(unacked[c] + n) \in Nat /\ StillUnacked(unacked[c] + n) \in Nat
    <3>1. unacked[c] + n \in Nat
      BY <2>2
    <3> QED
      BY <3>1, AdjustSplits DEF Sensible
  <2>4. /\ unacked' \in [ChannelIds -> Nat] /\ adjust' \in [ChannelIds -> Nat]
        /\ inbox' \in [ChannelIds -> Nat] /\ bytes' \in [ChannelIds -> Nat]
    BY <2>2, <2>3 DEF HandleChannelData
  <2>5. /\ ended' \in [ChannelIds -> BOOLEAN] /\ ready' \in [ChannelIds -> BOOLEAN]
        /\ closeDown' \in [ChannelIds -> BOOLEAN] /\ channels' \subseteq ChannelIds
    <3>1. channels' = channels \/ channels' = channels \ {c}
      BY <2>2, Zenon DEF HandleChannelData
    <3>2. closeDown' = closeDown \/ closeDown' = [closeDown EXCEPT ![c] = TRUE]
      BY <2>2, Zenon DEF HandleChannelData
    <3>3. /\ ended' = ended \/ ended' = [ended EXCEPT ![c] = TRUE]
          /\ ready' = ready \/ ready' = [ready EXCEPT ![c] = TRUE]
      BY <2>2, Zenon DEF HandleChannelData, chanVars
    <3> QED
      BY <3>1, <3>2, <3>3, ZenonT(60)
  <2> QED
    BY <2>2, <2>4, <2>5 DEF HandleChannelData
<1>6. CASE \E c \in ChannelIds : HandleChannelClose(c)
  <2>1. PICK c \in ChannelIds : HandleChannelClose(c)
    BY <1>6
  <2>2. CASE c \in channels
    BY <2>1, <2>2, ZenonT(60) DEF HandleChannelClose
  <2>3. CASE c \notin channels
    BY <2>1, <2>3 DEF HandleChannelClose
  <2> QED
    BY <2>2, <2>3
<1>7. CASE \E c \in ChannelIds : CloseEndsChannel(c)
    BY <1>7 DEF CloseEndsChannel
<1>8. CASE Answer
    BY <1>8 DEF Answer
<1>9. CASE LoopEnds
    BY <1>9 DEF LoopEnds
<1>10. CASE Close
    BY <1>10 DEF Close
<1>11. CASE CloseNet
    BY <1>11 DEF CloseNet
<1> QED
    BY <1>1, <1>2, <1>3, <1>4, <1>5, <1>6, <1>7, <1>8, <1>9, <1>10, <1>11 DEF LoopStep

\* Every step of the device and of the network keeps the types.
LEMMA DeviceTypes ==
    ASSUME Sensible, AmtTypeOK, DeviceStep
    PROVE  AmtTypeOK'
<1> USE DEF AmtTypeOK, Sensible
<1>1. CASE \E r \in Requests : DeviceAnswers(r)
    BY <1>1 DEF DeviceAnswers
<1>2. CASE \E c \in Inbound : DeviceOpens(c)
    BY <1>2 DEF DeviceOpens
<1>3. CASE \E c \in Inbound : DeviceConfirmed(c)
    BY <1>3 DEF DeviceConfirmed
<1>4. CASE \E c \in ChannelIds : \E n \in 1..credit[c] : DeviceSends(c, n)
  <2>1. PICK c \in ChannelIds : \E n \in 1..credit[c] : DeviceSends(c, n)
    BY <1>4
  <2>2. PICK n \in 1..credit[c] : DeviceSends(c, n)
    BY <2>1
  <2> QED
    BY <2>2 DEF DeviceSends
<1>5. CASE \E c \in ChannelIds : DeviceAdjusts(c)
    BY <1>5 DEF DeviceAdjusts
<1>6. CASE \E c \in ChannelIds : DeviceCloses(c)
    BY <1>6 DEF DeviceCloses
<1>7. CASE \E c \in ChannelIds : DeviceTold(c)
  <2>1. PICK c \in ChannelIds : DeviceTold(c)
    BY <1>7
  <2>2. CASE dev[c] = "open"
    BY <2>1, <2>2, ZenonT(60) DEF DeviceTold
  <2>3. CASE dev[c] # "open"
    BY <2>1, <2>3 DEF DeviceTold
  <2> QED
    BY <2>2, <2>3
<1>8. CASE NetFails
    BY <1>8 DEF NetFails
<1> QED
    BY <1>1, <1>2, <1>3, <1>4, <1>5, <1>6, <1>7, <1>8 DEF DeviceStep

\* A step leaves a channel's window alone or loses some of it, or gives the device
\* its channel.
Moves(c) ==
    \/ Given(c)' <= Given(c) /\ (dev'[c] \in Young => dev[c] \in Young)
    \/ Given(c)' = Window /\ dev'[c] = "open"

LEMMA SumsAreNat ==
    ASSUME AmtTypeOK, NEW c \in ChannelIds
    PROVE  Given(c) \in Nat /\ DueOf(c) \in Nat
BY DEF AmtTypeOK, Given, DueOf

LEMMA BooksByMoves ==
    ASSUME Sensible, AmtTypeOK, AmtTypeOK', Books, \A c \in ChannelIds : Moves(c)
    PROVE  Books'
<1> SUFFICES ASSUME NEW c \in ChannelIds
             PROVE  Given(c)' <= Window /\ (dev'[c] \in Young => Given(c)' = 0)
    BY DEF Books
<1>1. Given(c) \in Nat /\ Given(c)' \in Nat
    BY SumsAreNat DEF AmtTypeOK, Given, DueOf
<1>2. Moves(c) /\ Given(c) <= Window /\ (dev[c] \in Young => Given(c) = 0)
    BY DEF Books
<1> QED
    BY <1>1, <1>2 DEF Moves, Young, Sensible

LEMMA StillMoves ==
    ASSUME AmtTypeOK, UNCHANGED <<credit, bytes, inbox, unacked, adjust, due, dev>>
    PROVE  \A c \in ChannelIds : Moves(c)
<1>1. ASSUME NEW c \in ChannelIds PROVE Given(c)' = Given(c)
    BY DEF Given, DueOf
<1> QED
    BY <1>1, SumsAreNat DEF Moves

LEMMA RequestMoves ==
    ASSUME Sensible, AmtTypeOK, NEW r \in Requests, RequestStep(r)
    PROVE  \A c \in ChannelIds : Moves(c)
<1>1. CASE \E n \in 1..inbox[r] : ReadTakes(r, n)
  <2>1. PICK n \in 1..inbox[r] : ReadTakes(r, n)
    BY <1>1
  <2>2. n \in Nat /\ inbox[r] \in Nat /\ n <= inbox[r] /\ unacked[r] \in Nat /\ due[r] \in Nat
    BY <2>1 DEF AmtTypeOK
  <2>3. /\ AdjustDue(unacked[r] + n) \in Nat /\ StillUnacked(unacked[r] + n) \in Nat
        /\ AdjustDue(unacked[r] + n) + StillUnacked(unacked[r] + n) = unacked[r] + n
    <3>1. unacked[r] + n \in Nat
      BY <2>2
    <3> QED
      BY <3>1, AdjustSplits DEF Sensible
  <2>4. SUFFICES ASSUME NEW c \in ChannelIds
                 PROVE  Given(c)' <= Given(c) /\ dev' = dev
    BY DEF Moves
  <2>5. dev' = dev /\ credit' = credit /\ bytes' = bytes /\ adjust' = adjust
    BY <2>1 DEF ReadTakes
  <2>6. CASE c # r
    <3>1. inbox'[c] = inbox[c] /\ unacked'[c] = unacked[c] /\ DueOf(c)' = DueOf(c)
      BY <2>1, <2>6 DEF ReadTakes, DueOf, AmtTypeOK
    <3> QED
      BY <3>1, <2>5, SumsAreNat DEF Given
  <2>7. CASE c = r /\ ended[r]
    <3>1. inbox'[c] = inbox[c] - n /\ unacked'[c] = unacked[c] /\ DueOf(c)' = DueOf(c)
      BY <2>1, <2>7 DEF ReadTakes, DueOf, AmtTypeOK
    <3> QED
      BY <3>1, <2>2, <2>5, <2>7, SumsAreNat DEF Given, AmtTypeOK
  <2>8. CASE c = r /\ ~ended[r]
    <3>1. /\ inbox'[c] = inbox[c] - n /\ unacked'[c] = StillUnacked(unacked[r] + n)
          /\ DueOf(c)' = AdjustDue(unacked[r] + n) /\ DueOf(c) = due[r]
      BY <2>1, <2>8 DEF ReadTakes, DueOf, AmtTypeOK
    <3> QED
      BY <3>1, <2>2, <2>3, <2>5, <2>8 DEF Given, AmtTypeOK
  <2> QED
    BY <2>5, <2>6, <2>7, <2>8
<1>2. CASE ReopenWindow(r)
  <2>1. SUFFICES ASSUME NEW c \in ChannelIds
                 PROVE  Given(c)' <= Given(c) /\ dev' = dev
    BY DEF Moves
  <2>2. /\ dev' = dev /\ credit' = credit /\ bytes' = bytes /\ inbox' = inbox
        /\ unacked' = unacked
    BY <1>2 DEF ReopenWindow
  <2>3. CASE c # r
    <3>1. adjust'[c] = adjust[c] /\ DueOf(c)' = DueOf(c)
      BY <1>2, <2>3 DEF ReopenWindow, WriteAdjust, DueOf, AmtTypeOK
    <3> QED
      BY <3>1, <2>2, SumsAreNat DEF Given
  <2>4. CASE c = r
    <3>1. /\ adjust'[c] = adjust[c] + due[r] \/ adjust'[c] = adjust[c]
          /\ DueOf(c)' = 0 /\ DueOf(c) = due[r]
      BY <1>2, <2>4 DEF ReopenWindow, WriteAdjust, DueOf, AmtTypeOK
    <3> QED
      BY <3>1, <2>2, <2>4 DEF Given, AmtTypeOK
  <2> QED
    BY <2>2, <2>3, <2>4
<1>3. ASSUME ~ReopenWindow(r), ~\E n \in 1..inbox[r] : ReadTakes(r, n)
      PROVE  UNCHANGED <<credit, bytes, inbox, unacked, adjust, due, dev>>
    BY <1>3 DEF RequestStep, OpenChannel, WriteOpen, TakeReply, OpenTimesOut, AbandonOpen,
                AbandonDrains, Write, ReadEnds, ReadParks, ReadWakes, ContextEnds,
                CloseEnds, CloseForgets, CloseTells
<1> QED
    BY <1>1, <1>2, <1>3, StillMoves

LEMMA LoopMoves ==
    ASSUME Sensible, AmtTypeOK, LoopStep
    PROVE  \A c \in ChannelIds : Moves(c)
<1>1. CASE \E d \in ChannelIds : \E n \in 1..bytes[d] : HandleChannelData(d, n)
  <2>1. PICK d \in ChannelIds : \E n \in 1..bytes[d] : HandleChannelData(d, n)
    BY <1>1
  <2>2. PICK n \in 1..bytes[d] : HandleChannelData(d, n)
    BY <2>1
  <2>3. /\ n \in Nat /\ bytes[d] \in Nat /\ n <= bytes[d] /\ unacked[d] \in Nat
        /\ inbox[d] \in Nat /\ adjust[d] \in Nat
    BY <2>2 DEF AmtTypeOK
  <2>4. /\ AdjustDue(unacked[d] + n) \in Nat /\ StillUnacked(unacked[d] + n) \in Nat
        /\ AdjustDue(unacked[d] + n) + StillUnacked(unacked[d] + n) = unacked[d] + n
    <3>1. unacked[d] + n \in Nat
      BY <2>3
    <3> QED
      BY <3>1, AdjustSplits DEF Sensible
  <2>5. SUFFICES ASSUME NEW c \in ChannelIds
                 PROVE  Given(c)' <= Given(c) /\ dev' = dev
    BY DEF Moves
  <2>6. dev' = dev /\ credit' = credit /\ due' = due /\ DueOf(c)' = DueOf(c)
    BY <2>2 DEF HandleChannelData, DueOf
  <2>7. CASE c # d
    <3>1. /\ bytes'[c] = bytes[c] /\ inbox'[c] = inbox[c] /\ unacked'[c] = unacked[c]
          /\ adjust'[c] = adjust[c]
      BY <2>2, <2>7 DEF HandleChannelData, WriteAdjust, AmtTypeOK
    <3> QED
      BY <3>1, <2>6, SumsAreNat DEF Given
  <2>8. CASE c = d
    <3>1. bytes'[c] = bytes[c] - n
      BY <2>2, <2>8 DEF HandleChannelData, AmtTypeOK
    <3>2. \/ /\ inbox'[c] = inbox[c] /\ unacked'[c] = StillUnacked(unacked[d] + n)
             /\ \/ adjust'[c] = adjust[c] + AdjustDue(unacked[d] + n)
                \/ adjust'[c] = adjust[c]
          \/ inbox'[c] = inbox[c] + n /\ unacked'[c] = unacked[c] /\ adjust'[c] = adjust[c]
          \/ inbox'[c] = inbox[c] /\ unacked'[c] = unacked[c] /\ adjust'[c] = adjust[c]
      BY <2>2, <2>8 DEF HandleChannelData, WriteAdjust, AmtTypeOK
    <3> QED
      BY <3>1, <3>2, <2>3, <2>4, <2>6, <2>8, SumsAreNat DEF Given, AmtTypeOK
  <2> QED
    BY <2>6, <2>7, <2>8
<1>2. ASSUME ~\E c \in ChannelIds : \E n \in 1..bytes[c] : HandleChannelData(c, n)
      PROVE  UNCHANGED <<credit, bytes, inbox, unacked, adjust, due, dev>>
    BY <1>2 DEF LoopStep, ConfirmOpen, RefuseOpen, CloseRefuses, HandleChannelOpen,
                HandleChannelClose, CloseEndsChannel, Answer, LoopEnds, Close, CloseNet
<1> QED
    BY <1>1, <1>2, StillMoves

LEMMA DeviceMoves ==
    ASSUME Sensible, AmtTypeOK, Messages, Books, DeviceStep
    PROVE  \A c \in ChannelIds : Moves(c)
<1>1. ASSUME NEW d \in ChannelIds, dev[d] \in Young, dev' = [dev EXCEPT ![d] = "open"],
             credit' = [credit EXCEPT ![d] = Window],
             UNCHANGED <<bytes, inbox, unacked, adjust, due>>
      PROVE  \A c \in ChannelIds : Moves(c)
  <2> TAKE c \in ChannelIds
  <2>1. CASE c # d
    <3>1. Given(c)' = Given(c) /\ dev'[c] = dev[c]
      BY <1>1, <2>1 DEF Given, DueOf, AmtTypeOK
    <3> QED
      BY <3>1, SumsAreNat DEF Moves
  <2>2. CASE c = d
    <3>1. Given(c) = 0
      BY <1>1, <2>2 DEF Books
    <3>2. /\ credit[c] \in Nat /\ bytes[c] \in Nat /\ inbox[c] \in Nat
          /\ unacked[c] \in Nat /\ adjust[c] \in Nat /\ DueOf(c) \in Nat
      BY SumsAreNat DEF AmtTypeOK
    <3>3. DueOf(c)' = DueOf(c) /\ credit'[c] = Window /\ dev'[c] = "open"
      BY <1>1, <2>2 DEF DueOf, AmtTypeOK
    <3> QED
      <4> DEFINE rest == bytes[c] + inbox[c] + unacked[c] + adjust[c] + DueOf(c)
      <4>1. rest \in Nat /\ Given(c) = credit[c] + rest
        BY <3>2 DEF Given
      <4>2. rest = 0
        <5> HIDE DEF rest
        <5> QED
          BY <3>1, <3>2, <4>1
      <4>3. Given(c)' = Window + rest
        BY <1>1, <3>2, <3>3 DEF Given, Sensible
      <4> QED
        BY <3>3, <4>2, <4>3 DEF Moves, Sensible
  <2> QED
    BY <2>1, <2>2
<1>2. CASE \E r \in Requests : DeviceAnswers(r)
  <2>1. PICK r \in Requests : DeviceAnswers(r)
    BY <1>2
  <2>2. dev[r] \in Young
    BY <2>1 DEF DeviceAnswers, Messages
  <2>3. \/ dev' = [dev EXCEPT ![r] = "open"] /\ credit' = [credit EXCEPT ![r] = Window]
        \/ dev' = dev /\ credit' = credit
    BY <2>1 DEF DeviceAnswers
  <2>4. UNCHANGED <<bytes, inbox, unacked, adjust, due>>
    BY <2>1 DEF DeviceAnswers
  <2> QED
    BY <2>2, <2>3, <2>4, <1>1, StillMoves
<1>3. CASE \E d \in Inbound : DeviceConfirmed(d)
  <2>1. PICK d \in Inbound : DeviceConfirmed(d)
    BY <1>3
  <2>2. dev[d] \in Young
    BY <2>1 DEF DeviceConfirmed, Messages
  <2> QED
    BY <2>1, <2>2, <1>1 DEF DeviceConfirmed
<1>4. CASE \E d \in ChannelIds : \E n \in 1..credit[d] : DeviceSends(d, n)
  <2>1. PICK d \in ChannelIds : \E n \in 1..credit[d] : DeviceSends(d, n)
    BY <1>4
  <2>2. PICK n \in 1..credit[d] : DeviceSends(d, n)
    BY <2>1
  <2>3. SUFFICES ASSUME NEW c \in ChannelIds PROVE Given(c)' = Given(c) /\ dev' = dev
    BY SumsAreNat DEF Moves
  <2>4. /\ UNCHANGED <<dev, inbox, unacked, adjust, due>> /\ DueOf(c)' = DueOf(c)
    BY <2>2 DEF DeviceSends, DueOf
  <2>5. CASE c # d
    BY <2>2, <2>4, <2>5 DEF DeviceSends, Given, AmtTypeOK
  <2>6. CASE c = d
    <3>1. credit'[c] = credit[c] - n /\ bytes'[c] = bytes[c] + n
      BY <2>2, <2>6 DEF DeviceSends, AmtTypeOK
    <3> QED
      BY <2>2, <3>1, <2>4, <2>6, SumsAreNat DEF Given, AmtTypeOK
  <2> QED
    BY <2>4, <2>5, <2>6
<1>5. CASE \E d \in ChannelIds : DeviceAdjusts(d)
  <2>1. PICK d \in ChannelIds : DeviceAdjusts(d)
    BY <1>5
  <2>2. SUFFICES ASSUME NEW c \in ChannelIds PROVE Given(c)' <= Given(c) /\ dev' = dev
    BY DEF Moves
  <2>3. /\ UNCHANGED <<dev, inbox, unacked, bytes, due>> /\ DueOf(c)' = DueOf(c)
    BY <2>1 DEF DeviceAdjusts, DueOf
  <2>4. CASE c # d
    <3>1. adjust'[c] = adjust[c] /\ credit'[c] = credit[c]
      BY <2>1, <2>4 DEF DeviceAdjusts, AmtTypeOK
    <3> QED
      BY <3>1, <2>3, SumsAreNat DEF Given
  <2>5. CASE c = d
    <3>1. adjust'[c] = 0 /\ (credit'[c] = credit[c] \/ credit'[c] = credit[c] + adjust[c])
      BY <2>1, <2>5 DEF DeviceAdjusts, AmtTypeOK
    <3> QED
      BY <3>1, <2>3, SumsAreNat DEF Given, AmtTypeOK
  <2> QED
    BY <2>3, <2>4, <2>5
<1>6. ASSUME NEW d \in ChannelIds, DeviceOpens(d) \/ DeviceCloses(d) \/ DeviceTold(d)
      PROVE  \A c \in ChannelIds : Moves(c)
  <2>1. UNCHANGED <<credit, bytes, inbox, unacked, adjust, due>>
    BY <1>6 DEF DeviceOpens, DeviceCloses, DeviceTold
  <2> TAKE c \in ChannelIds
  <2>2. Given(c)' = Given(c)
    BY <2>1 DEF Given, DueOf
  <2>3. dev'[c] \in Young => dev[c] \in Young
    BY <1>6 DEF DeviceOpens, DeviceCloses, DeviceTold, Young, AmtTypeOK
  <2> QED
    BY <2>2, <2>3, SumsAreNat DEF Moves
<1>7. CASE NetFails
    BY <1>7, StillMoves DEF NetFails
<1> QED
    BY <1>2, <1>3, <1>4, <1>5, <1>6, <1>7 DEF DeviceStep

-----------------------------------------------------------------------------
\* A step of a request, as far as the messages go: it writes its open once.
LEMMA RequestMessages ==
    ASSUME Sensible, AmtTypeOK, Messages, NEW r \in Requests, RequestStep(r)
    PROVE  Messages'
<1> USE DEF Messages, AmtTypeOK
<1>1. dev' = dev /\ up' = up
    BY DEF RequestStep, OpenChannel, WriteOpen, TakeReply, OpenTimesOut, AbandonOpen,
           AbandonDrains, Write, ReadTakes, ReopenWindow, ReadEnds, ReadParks, ReadWakes,
           ContextEnds, CloseEnds, CloseForgets, CloseTells
<1>2. CASE WriteOpen(r)
  <2>1. \A c \in ChannelIds : down'[c] = down[c] \/ (c = r /\ dev[c] = "none")
    BY <1>2 DEF WriteOpen, WriteMessage
  <2>3. r \notin Inbound
    BY DEF Sensible
  <2>2. \A q \in Requests : pc'[q] \in {"idle", "asking"} => q # r /\ pc'[q] = pc[q]
    BY <1>2 DEF WriteOpen, Goto
  <2> QED
    BY <1>1, <2>1, <2>2, <2>3 DEF Young
<1>3. CASE ~WriteOpen(r)
  <2>1. down' = down
    BY <1>3 DEF RequestStep, OpenChannel, TakeReply, OpenTimesOut, AbandonOpen,
           AbandonDrains, Write, ReadTakes, ReopenWindow, ReadEnds, ReadParks, ReadWakes,
           ContextEnds, CloseEnds, CloseForgets, CloseTells
  <2>2. \A q \in Requests : pc'[q] \in {"idle", "asking"} => pc[q] \in {"idle", "asking"}
    BY <1>3 DEF RequestStep, OpenChannel, TakeReply, OpenTimesOut, AbandonOpen,
           AbandonDrains, Write, ReadTakes, ReopenWindow, ReadEnds, ReadParks, ReadWakes,
           ContextEnds, CloseEnds, CloseForgets, CloseTells, Goto, Move
  <2> QED
    BY <1>1, <2>1, <2>2
<1> QED
    BY <1>2, <1>3

LEMMA LoopMessages ==
    ASSUME Sensible, AmtTypeOK, Messages, LoopStep
    PROVE  Messages'
<1> USE DEF Messages, AmtTypeOK
<1>1. dev' = dev /\ pc' = pc
    BY DEF LoopStep, ConfirmOpen, RefuseOpen, CloseRefuses, HandleChannelOpen,
           HandleChannelData, HandleChannelClose, CloseEndsChannel, Answer, LoopEnds,
           Close, CloseNet
<1>2. \A c \in ChannelIds : up'[c] = up[c] \/ up'[c] = "none"
    BY DEF LoopStep, ConfirmOpen, RefuseOpen, CloseRefuses, HandleChannelOpen,
           HandleChannelData, HandleChannelClose, CloseEndsChannel, Answer, LoopEnds,
           Close, CloseNet
<1>3. \A c \in ChannelIds :
        down'[c] = down[c] \/ (c \in Inbound /\ dev[c] = "asked" /\ up'[c] = "none")
    BY DEF LoopStep, ConfirmOpen, RefuseOpen, CloseRefuses, HandleChannelOpen,
           HandleChannelData, HandleChannelClose, CloseEndsChannel, Answer, LoopEnds,
           Close, CloseNet, WriteMessage
<1>4. \A r \in Requests : r \notin Inbound
    BY DEF Sensible
<1> QED
    BY <1>1, <1>2, <1>3, <1>4 DEF Young

LEMMA DeviceMessages ==
    ASSUME Sensible, AmtTypeOK, Messages, DeviceStep
    PROVE  Messages'
<1> USE DEF Messages, AmtTypeOK, Young
<1>1. pc' = pc
    BY DEF DeviceStep, DeviceAnswers, DeviceOpens, DeviceConfirmed, DeviceSends,
           DeviceAdjusts, DeviceCloses, DeviceTold, NetFails
<1>2. CASE \E r \in Requests : DeviceAnswers(r)
  <2>1. PICK r \in Requests : DeviceAnswers(r)
    BY <1>2
  <2>2. down[r] = "open" /\ down' = [down EXCEPT ![r] = "none"]
    BY <2>1 DEF DeviceAnswers
  <2>3. \A c \in ChannelIds : c # r => dev'[c] = dev[c] /\ up'[c] = up[c]
    BY <2>1 DEF DeviceAnswers
  <2> QED
    BY <1>1, <2>2, <2>3 DEF Sensible
<1>3. CASE \E c \in Inbound : DeviceOpens(c) \/ DeviceConfirmed(c)
    BY <1>1, <1>3 DEF DeviceOpens, DeviceConfirmed, Sensible
<1>4. CASE \E c \in ChannelIds : DeviceCloses(c) \/ DeviceTold(c)
    BY <1>1, <1>4 DEF DeviceCloses, DeviceTold
<1>5. CASE \/ \E c \in ChannelIds : (\E n \in 1..credit[c] : DeviceSends(c, n)) \/ DeviceAdjusts(c)
           \/ NetFails
    BY <1>1, <1>5 DEF DeviceSends, DeviceAdjusts, NetFails
<1> QED
    BY <1>2, <1>3, <1>4, <1>5 DEF DeviceStep

-----------------------------------------------------------------------------
\* Ending a channel or delivering to it leaves its reader awake or woken.
Woken(q) ==
    pc'[q] = "parked" =>
        \/ ready'[q]
        \/ pc[q] = "parked" /\ inbox'[q] = inbox[q] /\ ended'[q] = ended[q] /\ ready'[q] = ready[q]
        \/ inbox'[q] = 0 /\ ~ended'[q]

LEMMA WakeupByWoken ==
    ASSUME AmtTypeOK, AmtTypeOK', NoLostWakeup, \A q \in Requests : Woken(q)
    PROVE  NoLostWakeup'
<1> SUFFICES ASSUME NEW q \in Requests, pc'[q] = "parked", inbox'[q] > 0 \/ ended'[q]
             PROVE  ready'[q]
    BY DEF NoLostWakeup
<1>1. Woken(q) /\ (pc[q] = "parked" /\ (inbox[q] > 0 \/ ended[q]) => ready[q])
    BY Zenon DEF NoLostWakeup
<1>2. inbox'[q] > 0 => inbox'[q] # 0
    BY DEF AmtTypeOK
<1> QED
    BY <1>1, <1>2, Zenon DEF Woken

LEMMA EndWakes ==
    ASSUME AmtTypeOK, NEW c \in ChannelIds, EndChannel(c), inbox' = inbox, pc' = pc
    PROVE  \A q \in Requests : Woken(q)
<1> TAKE q \in Requests
<1>1. CASE q = c /\ ~ended[c]
    BY <1>1 DEF EndChannel, AmtTypeOK, Woken
<1>2. CASE q = c /\ ended[c]
  <2>1. ended'[q] = ended[q] /\ ready' = ready
    BY <1>2 DEF EndChannel, AmtTypeOK
  <2> QED
    BY <2>1, Zenon DEF Woken
<1>3. CASE q # c
  <2>1. ended'[q] = ended[q] /\ ready'[q] = ready[q]
    BY <1>3 DEF EndChannel, AmtTypeOK
  <2> QED
    BY <2>1, Zenon DEF Woken
<1> QED
    BY <1>1, <1>2, <1>3

LEMMA RequestWakes ==
    ASSUME AmtTypeOK, NEW r \in Requests, RequestStep(r)
    PROVE  \A q \in Requests : Woken(q)
<1> TAKE q \in Requests
<1>1. CASE q # r
  <2>1. pc'[q] = pc[q]
    BY <1>1 DEF AmtTypeOK, RequestStep, OpenChannel, WriteOpen, TakeReply, OpenTimesOut,
           AbandonOpen, AbandonDrains, Write, ReadTakes, ReopenWindow, ReadEnds, ReadParks,
           ReadWakes, ContextEnds, CloseEnds, CloseForgets, CloseTells, Goto, Move
  <2>2. inbox'[q] = inbox[q] /\ ended'[q] = ended[q] /\ ready'[q] = ready[q]
    BY <1>1 DEF AmtTypeOK, RequestStep, OpenChannel, WriteOpen, TakeReply, OpenTimesOut,
           AbandonOpen, AbandonDrains, Write, ReadTakes, ReopenWindow, ReadEnds, ReadParks,
           ReadWakes, ContextEnds, CloseEnds, CloseForgets, CloseTells, EndChannel
  <2> QED
    BY <2>1, <2>2, Zenon DEF Woken
<1>2. CASE q = r /\ ReadParks(r)
    BY <1>2 DEF ReadParks, AmtTypeOK, Woken
<1>3. CASE q = r /\ \E who \in {Request, Context} : CloseEnds(r, who)
  <2>1. PICK who \in {Request, Context} : CloseEnds(r, who)
    BY <1>3
  <2>2. CASE who = Request
    BY <1>3, <2>1, <2>2 DEF CloseEnds, At, Move, AmtTypeOK, Woken
  <2>3. CASE who = Context
    <3>1. pc' = pc /\ inbox' = inbox /\ EndChannel(r)
      BY <2>1, <2>3 DEF CloseEnds, Move
    <3> QED
      BY <3>1, EndWakes
  <2> QED
    BY <2>2, <2>3
<1>4. CASE q = r /\ ~ReadParks(r) /\ ~\E who \in {Request, Context} : CloseEnds(r, who)
  <2>1. pc'[q] # "parked" \/ (pc'[q] = pc[q] /\ inbox' = inbox /\ ended' = ended /\ ready' = ready)
    BY <1>4 DEF AmtTypeOK, RequestStep, OpenChannel, WriteOpen, TakeReply, OpenTimesOut,
           AbandonOpen, AbandonDrains, Write, ReadTakes, ReopenWindow, ReadEnds,
           ReadWakes, ContextEnds, CloseForgets, CloseTells, Goto, Move, At
  <2> QED
    BY <2>1, Zenon DEF Woken
<1> QED
    BY <1>1, <1>2, <1>3, <1>4

LEMMA LoopWakes ==
    ASSUME Sensible, AmtTypeOK, LoopStep
    PROVE  \A q \in Requests : Woken(q)
<1>0. pc' = pc
    BY DEF LoopStep, ConfirmOpen, RefuseOpen, CloseRefuses, HandleChannelOpen,
           HandleChannelData, HandleChannelClose, CloseEndsChannel, Answer, LoopEnds,
           Close, CloseNet
<1>1. ASSUME inbox' = inbox, ended' = ended, ready' = ready
      PROVE  \A q \in Requests : Woken(q)
    BY <1>0, <1>1, Zenon DEF Woken
<1>2. CASE \E c \in ChannelIds : \E n \in 1..bytes[c] : HandleChannelData(c, n)
  <2>1. PICK c \in ChannelIds : \E n \in 1..bytes[c] : HandleChannelData(c, n)
    BY <1>2
  <2>2. PICK n \in 1..bytes[c] : HandleChannelData(c, n)
    BY <2>1
  <2>3. \/ inbox' = inbox /\ ended' = ended /\ ready' = ready
        \/ inbox' = inbox /\ EndChannel(c)
        \/ /\ inbox' = [inbox EXCEPT ![c] = @ + n] /\ ended' = ended
           /\ ready' = [ready EXCEPT ![c] = TRUE]
    BY <2>2, Zenon DEF HandleChannelData
  <2>4. CASE inbox' = inbox /\ EndChannel(c)
    BY <1>0, <2>4, EndWakes
  <2>5. CASE /\ inbox' = [inbox EXCEPT ![c] = @ + n] /\ ended' = ended
             /\ ready' = [ready EXCEPT ![c] = TRUE]
    <3> TAKE q \in Requests
    <3>1. q = c => ready'[q]
      BY <2>5 DEF AmtTypeOK
    <3>2. q # c => inbox'[q] = inbox[q] /\ ready'[q] = ready[q]
      BY <2>5 DEF AmtTypeOK
    <3> QED
      BY <1>0, <2>5, <3>1, <3>2, Zenon DEF Woken
  <2> QED
    BY <2>3, <2>4, <2>5, <1>1
<1>3. CASE \E c \in ChannelIds : HandleChannelClose(c) \/ CloseEndsChannel(c)
  <2>1. PICK c \in ChannelIds : HandleChannelClose(c) \/ CloseEndsChannel(c)
    BY <1>3
  <2>2. inbox' = inbox /\ (EndChannel(c) \/ (ended' = ended /\ ready' = ready))
    BY <2>1, Zenon DEF HandleChannelClose, CloseEndsChannel
  <2> QED
    BY <1>0, <1>1, <2>2, EndWakes
<1>4. CASE /\ ~\E c \in ChannelIds : \E n \in 1..bytes[c] : HandleChannelData(c, n)
           /\ ~\E c \in ChannelIds : HandleChannelClose(c) \/ CloseEndsChannel(c)
  <2>1. inbox' = inbox /\ ended' = ended /\ ready' = ready
    BY <1>4 DEF LoopStep, ConfirmOpen, RefuseOpen, CloseRefuses, HandleChannelOpen,
                Answer, LoopEnds, Close, CloseNet
  <2> QED
    BY <1>1, <2>1
<1> QED
    BY <1>2, <1>3, <1>4

LEMMA DeviceWakes ==
    ASSUME AmtTypeOK, DeviceStep
    PROVE  \A q \in Requests : Woken(q)
<1>1. pc' = pc /\ inbox' = inbox /\ ended' = ended /\ ready' = ready
    BY DEF DeviceStep, DeviceAnswers, DeviceOpens, DeviceConfirmed, DeviceSends,
           DeviceAdjusts, DeviceCloses, DeviceTold, NetFails
<1> QED
    BY <1>1, Zenon DEF Woken

-----------------------------------------------------------------------------
\* A request leaves the slots of others alone, empties its own, and puts its open on
\* the map once.
LEMMA RequestSlots ==
    ASSUME AmtTypeOK, SlotEmpty, NEW r \in Requests, RequestStep(r)
    PROVE  SlotEmpty'
<1>1. loop' = loop /\ answered' = answered /\ toRefuse' = toRefuse
    BY DEF RequestStep, OpenChannel, WriteOpen, TakeReply, OpenTimesOut, AbandonOpen,
           AbandonDrains, Write, ReadTakes, ReopenWindow, ReadEnds, ReadParks, ReadWakes,
           ContextEnds, CloseEnds, CloseForgets, CloseTells
<1>2. \A q \in Requests : reply'[q] = reply[q] \/ reply'[q] = "none"
    BY DEF AmtTypeOK, RequestStep, OpenChannel, WriteOpen, TakeReply, OpenTimesOut, AbandonOpen,
           AbandonDrains, Write, ReadTakes, ReopenWindow, ReadEnds, ReadParks, ReadWakes,
           ContextEnds, CloseEnds, CloseForgets, CloseTells
<1>3. \A q \in Requests : pc[q] # "idle" => pc'[q] # "idle"
    BY DEF AmtTypeOK, RequestStep, OpenChannel, WriteOpen, TakeReply, OpenTimesOut, AbandonOpen,
           AbandonDrains, Write, ReadTakes, ReopenWindow, ReadEnds, ReadParks, ReadWakes,
           ContextEnds, CloseEnds, CloseForgets, CloseTells, Goto, Move
<1>4. CASE OpenChannel(r)
  <2>1. opening' \subseteq opening \cup {r} /\ pc[r] = "idle" /\ pc'[r] # "idle" /\ reply' = reply
    BY <1>4 DEF OpenChannel, Goto, AmtTypeOK
  <2> QED
    BY <1>1, <1>3, <2>1 DEF SlotEmpty, AmtTypeOK
<1>5. CASE ~OpenChannel(r)
  <2>1. opening' \subseteq opening
    BY <1>5 DEF RequestStep, OpenChannel, WriteOpen, TakeReply, OpenTimesOut, AbandonOpen,
           AbandonDrains, Write, ReadTakes, ReopenWindow, ReadEnds, ReadParks, ReadWakes,
           ContextEnds, CloseEnds, CloseForgets, CloseTells
  <2> QED
    BY <1>1, <1>2, <1>3, <2>1 DEF SlotEmpty, AmtTypeOK
<1> QED
    BY <1>4, <1>5

LEMMA LoopSlots ==
    ASSUME AmtTypeOK, SlotEmpty, LoopStep
    PROVE  SlotEmpty'
<1> USE DEF SlotEmpty, AmtTypeOK
<1>1. pc' = pc
    BY DEF LoopStep, ConfirmOpen, RefuseOpen, CloseRefuses, HandleChannelOpen,
           HandleChannelData, HandleChannelClose, CloseEndsChannel, Answer, LoopEnds,
           Close, CloseNet
<1>2. CASE \E r \in Requests : ConfirmOpen(r) \/ RefuseOpen(r)
  <2>1. PICK r \in Requests : ConfirmOpen(r) \/ RefuseOpen(r)
    BY <1>2
  <2>2. /\ loop = "reading" /\ opening' = opening \ {r} /\ reply' = reply
        /\ \/ r \in opening /\ loop' = "answering" /\ answered' = r
           \/ loop' = loop
    BY <2>1, Zenon DEF ConfirmOpen, RefuseOpen
  <2> QED
    BY <1>1, <2>2
<1>3. CASE \E r \in Requests : CloseRefuses(r)
    BY <1>1, <1>3 DEF CloseRefuses
<1>4. CASE Answer
    BY <1>1, <1>4 DEF Answer
<1>5. CASE Close
    BY <1>1, <1>5 DEF Close
<1>6. CASE LoopEnds \/ CloseNet
    BY <1>1, <1>6 DEF LoopEnds, CloseNet
<1>7. ASSUME \/ \E c \in Inbound : HandleChannelOpen(c)
             \/ \E c \in ChannelIds : \/ \E n \in 1..bytes[c] : HandleChannelData(c, n)
                                      \/ HandleChannelClose(c) \/ CloseEndsChannel(c)
      PROVE  SlotEmpty'
  <2>1. UNCHANGED <<opening, reply, loop, answered, toRefuse>>
    BY <1>7 DEF HandleChannelOpen, HandleChannelData, HandleChannelClose, CloseEndsChannel
  <2> QED
    BY <1>1, <2>1
<1> QED
    BY <1>2, <1>3, <1>4, <1>5, <1>6, <1>7 DEF LoopStep

-----------------------------------------------------------------------------
\* What the device has, the server has or closes: the steps of a request.
LEMMA RequestSides ==
    ASSUME Sensible, AmtTypeOK, LastWord, DeviceKeepsNone, NEW r \in Requests, RequestStep(r)
    PROVE  LastWord' /\ DeviceKeepsNone'
<1> USE DEF AmtTypeOK
<1>1. UNCHANGED <<dev, up, net, closed, closeUp>>
    BY DEF RequestStep, OpenChannel, WriteOpen, TakeReply, OpenTimesOut, AbandonOpen,
           AbandonDrains, Write, ReadTakes, ReopenWindow, ReadEnds, ReadParks, ReadWakes,
           ContextEnds, CloseEnds, CloseForgets, CloseTells
<1>2. \A c \in ChannelIds : c \in channels => c \in channels' \/ (c = r /\
         (pc'[r] = "telling" \/ closer'[r] = "telling"))
    BY DEF RequestStep, OpenChannel, WriteOpen, TakeReply, OpenTimesOut, AbandonOpen,
           AbandonDrains, Write, ReadTakes, ReopenWindow, ReadEnds, ReadParks, ReadWakes,
           ContextEnds, CloseEnds, CloseForgets, CloseTells, Move
<1>3. \A c \in Inbound : down'[c] = down[c] /\ (c \in channels => c \in channels')
    BY DEF RequestStep, OpenChannel, WriteOpen, TakeReply, OpenTimesOut, AbandonOpen,
           AbandonDrains, Write, ReadTakes, ReopenWindow, ReadEnds, ReadParks, ReadWakes,
           ContextEnds, CloseEnds, CloseForgets, CloseTells, WriteMessage, Sensible
<1>4. \A c \in ChannelIds : closeDown[c] => closeDown'[c]
    BY DEF RequestStep, OpenChannel, WriteOpen, TakeReply, OpenTimesOut, AbandonOpen,
           AbandonDrains, Write, ReadTakes, ReopenWindow, ReadEnds, ReadParks, ReadWakes,
           ContextEnds, CloseEnds, CloseForgets, CloseTells, WriteChannelClose
<1>5. ASSUME NEW q \in Requests, pc[q] = "telling" \/ closer[q] = "telling", net
      PROVE  pc'[q] = "telling" \/ closer'[q] = "telling" \/ closeDown'[q]
  <2>1. CASE \E who \in {Request, Context} : CloseTells(r, who)
    <3>1. closeDown' = [closeDown EXCEPT ![r] = TRUE]
      BY <1>5, <2>1, Zenon DEF CloseTells, WriteChannelClose
    <3>2. q # r => pc'[q] = pc[q] /\ closer'[q] = closer[q]
      BY <2>1 DEF CloseTells, Move
    <3> QED
      BY <1>5, <3>1, <3>2
  <2>2. CASE ~\E who \in {Request, Context} : CloseTells(r, who)
    <3>1. CASE \E who \in {Request, Context} : CloseEnds(r, who) \/ CloseForgets(r, who)
      <4>1. PICK who \in {Request, Context} : CloseEnds(r, who) \/ CloseForgets(r, who)
        BY <3>1
      <4>2. At(r, who) # "telling" /\ \E p : Move(r, who, p)
        BY <4>1 DEF CloseEnds, CloseForgets
      <4>3. CASE who = Request
        BY <1>5, <4>2, <4>3 DEF At, Move, Request, Context
      <4>4. CASE who = Context
        BY <1>5, <4>2, <4>4 DEF At, Move, Request, Context
      <4> QED
        BY <4>3, <4>4
    <3>2. CASE ContextEnds(r)
      BY <1>5, <3>2 DEF ContextEnds, Move, Request, Context
    <3>3. CASE ~ContextEnds(r) /\ ~\E who \in {Request, Context} :
                 CloseEnds(r, who) \/ CloseForgets(r, who)
      <4>1. closer' = closer /\ pc[r] # "telling" /\ \E p : Goto(r, p)
        BY <2>2, <3>3 DEF RequestStep, OpenChannel, WriteOpen, TakeReply, OpenTimesOut,
           AbandonOpen, AbandonDrains, Write, ReadTakes, ReopenWindow, ReadEnds,
           ReadParks, ReadWakes
      <4> QED
        BY <1>5, <4>1 DEF Goto
    <3> QED
      BY <3>1, <3>2, <3>3
  <2> QED
    BY <2>1, <2>2
<1>6. \A c \in ChannelIds : CloseComing(c) /\ net => CloseComing(c)'
    BY <1>4, <1>5, Zenon DEF CloseComing
<1>7. LastWord'
    BY <1>1, <1>3 DEF LastWord
<1>8. ASSUME NEW c \in ChannelIds, dev'[c] = "open", net', ~closed'
      PROVE  up'[c] = "confirm" \/ c \in channels' \/ CloseComing(c)'
  <2>1. dev[c] = "open" /\ net /\ ~closed
    BY <1>1, <1>8, Zenon
  <2>2. up[c] = "confirm" \/ c \in channels \/ CloseComing(c)
    BY <2>1, Zenon DEF DeviceKeepsNone
  <2>3. c \in channels => c \in channels' \/ CloseComing(c)'
    BY <1>2, Zenon DEF CloseComing
  <2> QED
    BY <1>1, <1>6, <2>1, <2>2, <2>3, Zenon
<1> QED
    BY <1>7, <1>8, Zenon DEF DeviceKeepsNone

\* The steps of the loop: a channel that leaves the map is closed.
LEMMA LoopSides ==
    ASSUME Sensible, AmtTypeOK, LastWord, DeviceKeepsNone, Messages, LoopStep
    PROVE  LastWord' /\ DeviceKeepsNone'
<1> USE DEF AmtTypeOK
<1>1. UNCHANGED <<dev, pc, closer>>
    BY DEF LoopStep, ConfirmOpen, RefuseOpen, CloseRefuses, HandleChannelOpen,
           HandleChannelData, HandleChannelClose, CloseEndsChannel, Answer, LoopEnds,
           Close, CloseNet
<1>2. \A c \in ChannelIds : closeDown[c] => closeDown'[c]
    BY DEF LoopStep, ConfirmOpen, RefuseOpen, CloseRefuses, HandleChannelOpen,
           HandleChannelData, HandleChannelClose, CloseEndsChannel, Answer, LoopEnds,
           Close, CloseNet, WriteChannelClose
<1>3. \A c \in ChannelIds : CloseComing(c) => CloseComing(c)'
    BY <1>1, <1>2, Zenon DEF CloseComing
<1>4. \A c \in ChannelIds : closeUp'[c] = TRUE => closeUp[c] = TRUE
    BY DEF LoopStep, ConfirmOpen, RefuseOpen, CloseRefuses, HandleChannelOpen,
           HandleChannelData, HandleChannelClose, CloseEndsChannel, Answer, LoopEnds,
           Close, CloseNet
<1>5. ASSUME NEW c \in ChannelIds, c \in channels, net', ~closed'
      PROVE  c \in channels' \/ closeDown'[c]
  <2>1. CASE \E d \in ChannelIds : \/ \E n \in 1..bytes[d] : HandleChannelData(d, n)
                                   \/ HandleChannelClose(d)
    <3>1. PICK d \in ChannelIds : \/ \E n \in 1..bytes[d] : HandleChannelData(d, n)
                                  \/ HandleChannelClose(d)
      BY <2>1
    <3>2. net' = net
      BY <3>1 DEF HandleChannelData, HandleChannelClose
    <3>3. channels' = channels \/ (channels' = channels \ {d} /\ WriteChannelClose(d))
      BY <3>1, Zenon DEF HandleChannelData, HandleChannelClose
    <3>4. WriteChannelClose(d) => closeDown' = [closeDown EXCEPT ![d] = TRUE]
      BY <1>5, <3>2, Zenon DEF WriteChannelClose
    <3> QED
      BY <1>5, <3>3, <3>4
  <2>2. CASE ~\E d \in ChannelIds : \/ \E n \in 1..bytes[d] : HandleChannelData(d, n)
                                    \/ HandleChannelClose(d)
    <3>1. channels \subseteq channels' \/ closed' = TRUE
      BY <2>2 DEF LoopStep, ConfirmOpen, RefuseOpen, CloseRefuses, HandleChannelOpen,
         CloseEndsChannel, Answer, LoopEnds, Close, CloseNet
    <3> QED
      BY <1>5, <3>1
  <2> QED
    BY <2>1, <2>2
<1>6. ASSUME NEW c \in ChannelIds, up[c] = "confirm", net'
      PROVE  up'[c] = "confirm" \/ c \in channels' \/ closeDown'[c]
  <2>1. CASE \E r \in Requests : ConfirmOpen(r)
    <3>1. PICK r \in Requests : ConfirmOpen(r)
      BY <2>1
    <3>2. net' = net /\ (c # r => up'[c] = up[c])
      BY <3>1 DEF ConfirmOpen
    <3>3. r \in channels' \/ WriteChannelClose(r)
      <4>1. CASE r \in opening
        BY <3>1, <4>1 DEF ConfirmOpen
      <4>2. CASE r \notin opening
        BY <3>1, <4>2, Zenon DEF ConfirmOpen
      <4> QED
        BY <4>1, <4>2
    <3>4. WriteChannelClose(r) => closeDown' = [closeDown EXCEPT ![r] = TRUE]
      BY <1>6, <3>2, Zenon DEF WriteChannelClose
    <3> QED
      BY <1>6, <3>2, <3>3, <3>4
  <2>2. CASE ~\E r \in Requests : ConfirmOpen(r)
    <3>1. CASE \E d \in ChannelIds : up[d] # "confirm" /\ up' = [up EXCEPT ![d] = "none"]
      BY <1>6, <3>1
    <3>2. CASE up' = up
      BY <1>6, <3>2
    <3>3. ASSUME NEW r \in Requests, RefuseOpen(r)
          PROVE  up[r] # "confirm" /\ up' = [up EXCEPT ![r] = "none"]
      BY <3>3 DEF RefuseOpen
    <3>4. ASSUME NEW d \in Inbound, HandleChannelOpen(d)
          PROVE  up[d] # "confirm" /\ up' = [up EXCEPT ![d] = "none"]
      BY <3>4 DEF HandleChannelOpen
    <3>5. ASSUME NEW d \in ChannelIds, \/ \E n \in 1..bytes[d] : HandleChannelData(d, n)
                                      \/ HandleChannelClose(d) \/ CloseEndsChannel(d)
          PROVE  up' = up
      BY <3>5, Zenon DEF HandleChannelData, HandleChannelClose, CloseEndsChannel, upVars
    <3>6. ASSUME NEW r \in Requests, CloseRefuses(r)
          PROVE  up' = up
      BY <3>6 DEF CloseRefuses
    <3>7. Answer \/ LoopEnds \/ Close \/ CloseNet => up' = up
      BY DEF Answer, LoopEnds, Close, CloseNet
    <3> QED
      BY <2>2, <3>1, <3>2, <3>3, <3>4, <3>5, <3>6, <3>7 DEF LoopStep, ChannelIds
  <2> QED
    BY <2>1, <2>2
<1>7. (net' => net) /\ (~closed' => ~closed)
    BY DEF LoopStep, ConfirmOpen, RefuseOpen, CloseRefuses, HandleChannelOpen,
           HandleChannelData, HandleChannelClose, CloseEndsChannel, Answer, LoopEnds,
           Close, CloseNet
<1>8. \A c \in Inbound : down'[c] = "confirm" /\ closed' = FALSE => c \in channels'
  <2>1. ASSUME NEW c \in Inbound, down[c] = "confirm", closed' = FALSE
        PROVE  c \in channels'
    <3>1. c \in channels /\ dev[c] # "closed"
      BY <1>7, <2>1 DEF LastWord, Messages, Young
    <3>2. closeUp[c] = FALSE
      BY <3>1 DEF LastWord
    <3> QED
      BY <2>1, <3>1, <3>2 DEF LoopStep, ConfirmOpen, RefuseOpen, CloseRefuses,
         HandleChannelOpen, HandleChannelData, HandleChannelClose, CloseEndsChannel, Answer,
         LoopEnds, Close, CloseNet
  <2>2. \A c \in Inbound : down'[c] = down[c] \/ c \in channels'
    BY DEF LoopStep, ConfirmOpen, RefuseOpen, CloseRefuses, HandleChannelOpen,
           HandleChannelData, HandleChannelClose, CloseEndsChannel, Answer, LoopEnds,
           Close, CloseNet, WriteMessage
  <2> QED
    BY <2>1, <2>2
<1>9. LastWord'
    BY <1>1, <1>4, <1>8 DEF LastWord
<1>10. ASSUME NEW c \in ChannelIds, dev'[c] = "open", net', ~closed'
       PROVE  up'[c] = "confirm" \/ c \in channels' \/ CloseComing(c)'
  <2>1. up[c] = "confirm" \/ c \in channels \/ CloseComing(c)
    BY <1>1, <1>7, <1>10, Zenon DEF DeviceKeepsNone
  <2> QED
    BY <1>3, <1>5, <1>6, <1>10, <2>1, Zenon DEF CloseComing
<1> QED
    BY <1>9, <1>10, Zenon DEF DeviceKeepsNone

\* The steps of the device: it gets a channel with a confirm on its way to the server,
\* or one the server has.
LEMMA DeviceSides ==
    ASSUME Sensible, AmtTypeOK, LastWord, DeviceKeepsNone, Messages, DeviceStep
    PROVE  LastWord' /\ DeviceKeepsNone'
<1> USE DEF AmtTypeOK
<1>1. UNCHANGED <<pc, closer, channels, closed>>
    BY DEF DeviceStep, DeviceAnswers, DeviceOpens, DeviceConfirmed, DeviceSends,
           DeviceAdjusts, DeviceCloses, DeviceTold, NetFails
<1>2. \A c \in ChannelIds : up[c] = "confirm" => up'[c] = "confirm" \/ dev'[c] # "open"
    BY DEF DeviceStep, DeviceAnswers, DeviceOpens, DeviceConfirmed, DeviceSends,
           DeviceAdjusts, DeviceCloses, DeviceTold, NetFails, Messages, Sensible, Young
<1>3. \A c \in ChannelIds : closeDown[c] => closeDown'[c] \/ dev'[c] # "open"
    BY DEF DeviceStep, DeviceAnswers, DeviceOpens, DeviceConfirmed, DeviceSends,
           DeviceAdjusts, DeviceCloses, DeviceTold, NetFails
<1>4. \A c \in ChannelIds : dev'[c] = "open" =>
        dev[c] = "open" \/ up'[c] = "confirm" \/ (c \in Inbound /\ down[c] = "confirm")
    BY DEF DeviceStep, DeviceAnswers, DeviceOpens, DeviceConfirmed, DeviceSends,
           DeviceAdjusts, DeviceCloses, DeviceTold, NetFails
<1>5. net' => net
    BY DEF DeviceStep, DeviceAnswers, DeviceOpens, DeviceConfirmed, DeviceSends,
           DeviceAdjusts, DeviceCloses, DeviceTold, NetFails
<1>6. \A c \in ChannelIds : dev[c] = "closed" => dev'[c] = "closed"
    BY DEF DeviceStep, DeviceAnswers, DeviceOpens, DeviceConfirmed, DeviceSends,
           DeviceAdjusts, DeviceCloses, DeviceTold, NetFails, Messages, Young
<1>7. \A c \in ChannelIds : closeUp'[c] = TRUE => closeUp[c] = TRUE \/ dev'[c] = "closed"
    BY DEF DeviceStep, DeviceAnswers, DeviceOpens, DeviceConfirmed, DeviceSends,
           DeviceAdjusts, DeviceCloses, DeviceTold, NetFails
<1>8. \A c \in Inbound : down'[c] = "confirm" => down[c] = "confirm"
    BY DEF DeviceStep, DeviceAnswers, DeviceOpens, DeviceConfirmed, DeviceSends,
           DeviceAdjusts, DeviceCloses, DeviceTold, NetFails
<1>9. LastWord'
    BY <1>1, <1>6, <1>7, <1>8 DEF LastWord
<1>10. ASSUME NEW c \in ChannelIds, dev'[c] = "open", net', ~closed'
       PROVE  up'[c] = "confirm" \/ c \in channels' \/ CloseComing(c)'
  <2>1. CASE dev[c] = "open"
    <3>1. up[c] = "confirm" \/ c \in channels \/ CloseComing(c)
      BY <1>1, <1>5, <1>10, <2>1, Zenon DEF DeviceKeepsNone
    <3> QED
      BY <1>1, <1>2, <1>3, <1>10, <3>1, Zenon DEF CloseComing
  <2>2. CASE c \in Inbound /\ down[c] = "confirm"
    <3>1. closed = FALSE
      BY <1>1, <1>10
    <3> QED
      BY <1>1, <2>2, <3>1 DEF LastWord
  <2> QED
    BY <1>4, <1>10, <2>1, <2>2
<1> QED
    BY <1>9, <1>10, Zenon DEF DeviceKeepsNone

-----------------------------------------------------------------------------
LEMMA AmtInvInit == ASSUME Sensible, AmtInit PROVE AmtInv
<1> USE DEF AmtInit
<1>1. AmtTypeOK
    BY DEF AmtTypeOK
<1>2. Messages /\ SlotEmpty /\ LastWord
    BY DEF Messages, SlotEmpty, LastWord, Young
<1>3. Books
    BY DEF Books, Given, DueOf, Sensible
<1>4. NoLostWakeup /\ DeviceKeepsNone
    BY DEF NoLostWakeup, DeviceKeepsNone
<1> QED
    BY <1>1, <1>2, <1>3, <1>4 DEF AmtInv

LEMMA AmtInvKept == ASSUME Sensible, AmtInv, [AmtNext]_amtVars PROVE AmtInv'
<1> USE DEF AmtInv
<1>1. ASSUME NEW r \in Requests, RequestStep(r) PROVE AmtInv'
  <2>1. AmtTypeOK' /\ Messages' /\ SlotEmpty'
    BY <1>1, RequestTypes, RequestMessages, RequestSlots
  <2>2. Books' /\ NoLostWakeup'
    BY <1>1, <2>1, RequestMoves, BooksByMoves, RequestWakes, WakeupByWoken
  <2>3. LastWord' /\ DeviceKeepsNone'
    BY <1>1, RequestSides
  <2> QED
    BY <2>1, <2>2, <2>3
<1>2. CASE LoopStep
  <2>1. AmtTypeOK' /\ Messages' /\ SlotEmpty'
    BY <1>2, LoopTypes, LoopMessages, LoopSlots
  <2>2. Books' /\ NoLostWakeup'
    BY <1>2, <2>1, LoopMoves, BooksByMoves, LoopWakes, WakeupByWoken
  <2>3. LastWord' /\ DeviceKeepsNone'
    BY <1>2, LoopSides
  <2> QED
    BY <2>1, <2>2, <2>3
<1>3. CASE DeviceStep
  <2>1. AmtTypeOK' /\ Messages'
    BY <1>3, DeviceTypes, DeviceMessages
  <2>2. SlotEmpty'
    <3>1. UNCHANGED <<pc, opening, reply, loop, answered, toRefuse>>
      BY <1>3 DEF DeviceStep, DeviceAnswers, DeviceOpens, DeviceConfirmed, DeviceSends,
           DeviceAdjusts, DeviceCloses, DeviceTold, NetFails
    <3> QED
      BY <3>1 DEF SlotEmpty
  <2>3. Books' /\ NoLostWakeup'
    BY <1>3, <2>1, DeviceMoves, BooksByMoves, DeviceWakes, WakeupByWoken
  <2>4. LastWord' /\ DeviceKeepsNone'
    BY <1>3, DeviceSides
  <2> QED
    BY <2>1, <2>2, <2>3, <2>4
<1>4. CASE UNCHANGED amtVars
  <2>1. /\ UNCHANGED <<pc, closer, due, opening, channels, closed, reply, ended, inbox>>
        /\ UNCHANGED <<unacked, ready, loop, answered, answer, toEnd, toRefuse, net, dev>>
        /\ UNCHANGED <<credit, down, adjust, closeDown, up, bytes, closeUp>>
    BY <1>4 DEF amtVars
  <2>2. AmtTypeOK' /\ Messages' /\ SlotEmpty' /\ LastWord'
    BY <2>1 DEF AmtTypeOK, Messages, SlotEmpty, LastWord
  <2>3. Books'
    BY <2>1, <2>2, StillMoves, BooksByMoves
  <2>4. NoLostWakeup' /\ DeviceKeepsNone'
    BY <2>1, Zenon DEF NoLostWakeup, DeviceKeepsNone, CloseComing
  <2> QED
    BY <2>2, <2>3, <2>4
<1> QED
    BY <1>1, <1>2, <1>3, <1>4 DEF AmtNext

LEMMA AmtInvGives ==
    ASSUME Sensible, AmtInv
    PROVE  NeverOverrun /\ LoopNeverWaits
<1>1. ASSUME NEW c \in ChannelIds PROVE ~Overrun(c, bytes[c])
  <2>1. /\ credit[c] \in Nat /\ bytes[c] \in Nat /\ inbox[c] \in Nat
        /\ unacked[c] \in Nat /\ adjust[c] \in Nat /\ DueOf(c) \in Nat
    BY SumsAreNat DEF AmtInv, AmtTypeOK
  <2>2. Given(c) <= Window
    BY DEF AmtInv, Books
  <2> QED
    BY <2>1, <2>2 DEF Given, Overrun, Sensible
<1>2. LoopNeverWaits
    BY DEF AmtInv, SlotEmpty, LoopNeverWaits
<1> QED
    BY <1>1, <1>2 DEF NeverOverrun

LEMMA AmtInvHolds == ASSUME Sensible PROVE AmtSpec => []AmtInv
<1>1. AmtInit => AmtInv
    BY AmtInvInit
<1>2. AmtInv /\ [AmtNext]_amtVars => AmtInv'
    BY AmtInvKept
<1> QED
    BY <1>1, <1>2, PTL DEF AmtSpec

\* A device that keeps to its window never has a channel closed for overrunning it
\* (mps_channel.go, deliver), for every window and any number of channels.
THEOREM NeverOverrunHolds == ASSUME Sensible PROVE AmtSpec => []NeverOverrun
<1>1. AmtInv => NeverOverrun
    BY AmtInvGives
<1> QED
    BY <1>1, AmtInvHolds, PTL

\* A request asleep in Read has its wake-up whenever there is something to wake for
\* (mps_channel.go, Read and signal).
THEOREM NoLostWakeupHolds == ASSUME Sensible PROVE AmtSpec => []NoLostWakeup
<1>1. AmtInv => NoLostWakeup
    BY DEF AmtInv
<1> QED
    BY <1>1, AmtInvHolds, PTL

\* The message loop never waits for a request (mps_conn.go, confirmOpen and Close).
THEOREM LoopNeverWaitsHolds == ASSUME Sensible PROVE AmtSpec => []LoopNeverWaits
<1>1. AmtInv => LoopNeverWaits
    BY AmtInvGives
<1> QED
    BY <1>1, AmtInvHolds, PTL

\* The device keeps no channel that the server does not, but for a close on its way
\* (mps_conn.go, confirmOpen and Close).
THEOREM DeviceKeepsNoneHolds == ASSUME Sensible PROVE AmtSpec => []DeviceKeepsNone
<1>1. AmtInv => DeviceKeepsNone
    BY DEF AmtInv
<1> QED
    BY <1>1, AmtInvHolds, PTL
=============================================================================
