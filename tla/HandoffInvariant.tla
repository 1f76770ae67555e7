-------------------------- MODULE HandoffInvariant --------------------------
(***************************************************************************)
(* The inductive invariant behind InOrderOnce.  It is stated for one       *)
(* direction, from a side s to its peer p = Other(s), and one slot:        *)
(*  - what s put on the relay and p has not read is, in order, exactly the *)
(*    frames after the last one handed over, up to the last s put there;   *)
(*  - what s put on the link and p has not read is, in order, exactly the  *)
(*    frames after those delivered and held, up to the last s numbered;    *)
(*  - link number n is the stream's frame base + n, and the copies s keeps *)
(*    are the last numbers, back at least to the peer's delivered count;   *)
(*  - the switch notice divides the relay's frames from the link's, and a  *)
(*    fall-back notice carries a count that no longer changes.             *)
(***************************************************************************)
EXTENDS Handoff

UnreadRelay(s) == (read[Other(s)] + 1)..Len(relay[s])
UnreadLink(s, sl) == (linkRead[Other(s)][sl] + 1)..Len(link[s][sl])

FrameOf(m, sl) == m.kind = "frame" /\ m.slot = sl

Got(s, sl) == Len(inbox[Other(s)][sl])
LastOnRelay(s, sl) == IF path[s] = "relay" THEN sent[s][sl] ELSE base[s][sl]
LastOnLink(s, sl) == base[s][sl] + nextNumber[s][sl] - 1
TakenOff(s, sl) == base[s][sl] + delivered[Other(s)][sl] + Len(held[Other(s)][sl])
Confirmed(s, sl) == nextNumber[s][sl] - 1 - Len(kept[s][sl])

\* Reading positions stay inside what was written.
ReadBounds(s) ==
    /\ read[Other(s)] <= Len(relay[s])
    /\ \A sl \in Slots : linkRead[Other(s)][sl] <= Len(link[s][sl])

\* The sender's path, numbering and switching agree.
PathShape(s) ==
    /\ path[s] = "link" => switched[s] /\ ~leftLink[s]
    /\ path[s] \in {"holding", "ended"} => switched[s] /\ leftLink[s]
    /\ (switched[s] /\ path[s] = "relay") => leftLink[s] /\ leftLink[Other(s)]
    /\ peerSwitched[Other(s)] => switched[s]

Numbering(s, sl) ==
    /\ nextNumber[s][sl] >= 1
    /\ ~switched[s] => base[s][sl] = sent[s][sl] /\ nextNumber[s][sl] = 1
    /\ path[s] # "relay" => sent[s][sl] = LastOnLink(s, sl)
    /\ path[s] = "relay" => kept[s][sl] = <<>>

KeptShape(s, sl) ==
    path[s] # "relay" =>
        /\ Len(kept[s][sl]) <= nextNumber[s][sl] - 1
        /\ Confirmed(s, sl) <= delivered[Other(s)][sl]
        /\ \A i \in 1..Len(kept[s][sl]) :
              /\ kept[s][sl][i].n = Confirmed(s, sl) + i
              /\ kept[s][sl][i].frame.slot = sl
              /\ kept[s][sl][i].frame.id = base[s][sl] + Confirmed(s, sl) + i

\* The frames p handed over are the stream's first ones.
InboxShape(s, sl) ==
    /\ Got(s, sl) <= sent[s][sl]
    /\ \A i \in 1..Got(s, sl) : inbox[Other(s)][sl][i] = i
    /\ ~peerSwitched[Other(s)] => delivered[Other(s)][sl] = 0
    /\ path[s] # "relay" =>
          IF peerSwitched[Other(s)]
          THEN Got(s, sl) = base[s][sl] + delivered[Other(s)][sl]
          ELSE Got(s, sl) <= base[s][sl]

HeldShape(s, sl) ==
    /\ (leftLink[Other(s)] \/ ~switched[s]) => held[Other(s)][sl] = <<>>
    /\ \A i \in 1..Len(held[Other(s)][sl]) :
          /\ held[Other(s)][sl][i].slot = sl
          /\ held[Other(s)][sl][i].id = base[s][sl] + delivered[Other(s)][sl] + i

RelayShape(s, sl) ==
    /\ \A i \in UnreadRelay(s) : FrameOf(relay[s][i], sl) =>
          Got(s, sl) < relay[s][i].id /\ relay[s][i].id <= LastOnRelay(s, sl)
    /\ \A i, j \in UnreadRelay(s) :
          (i < j /\ FrameOf(relay[s][i], sl) /\ FrameOf(relay[s][j], sl)) =>
              relay[s][i].id < relay[s][j].id
    /\ \A k \in (Got(s, sl) + 1)..LastOnRelay(s, sl) :
          \E i \in UnreadRelay(s) : FrameOf(relay[s][i], sl) /\ relay[s][i].id = k

SwitchShape(s) ==
    \A i \in UnreadRelay(s) : relay[s][i].kind = "switch" =>
        /\ switched[s]
        /\ ~leftLink[Other(s)] =>
              \A j \in UnreadRelay(s) : j > i => relay[s][j].kind # "frame"

LinkShape(s, sl) ==
    /\ \A i \in 1..Len(link[s][sl]) : link[s][sl][i].kind = "frame" =>
          switched[s] /\ link[s][sl][i].slot = sl
    /\ ~leftLink[Other(s)] =>
          /\ TakenOff(s, sl) <= LastOnLink(s, sl)
          /\ \A i \in UnreadLink(s, sl) : link[s][sl][i].kind = "frame" =>
                TakenOff(s, sl) < link[s][sl][i].id /\ link[s][sl][i].id <= LastOnLink(s, sl)
          /\ \A i, j \in UnreadLink(s, sl) :
                (i < j /\ link[s][sl][i].kind = "frame" /\ link[s][sl][j].kind = "frame") =>
                    link[s][sl][i].id < link[s][sl][j].id
          /\ \A k \in (TakenOff(s, sl) + 1)..LastOnLink(s, sl) :
                \E i \in UnreadLink(s, sl) :
                    link[s][sl][i].kind = "frame" /\ link[s][sl][i].id = k

\* Confirmations never count more than was delivered, fall-back notices exactly that.
NoticeShape(s) ==
    /\ \A i \in 1..Len(link[s]["typing"]) : link[s]["typing"][i].kind = "ack" =>
          \A sl \in Slots : link[s]["typing"][i].counts[sl] <= delivered[s][sl]
    /\ \A i \in 1..Len(relay[s]) : relay[s][i].kind = "fallback" =>
          leftLink[s] /\ relay[s][i].counts = delivered[s]
    /\ peerFallback[Other(s)] # NoCounts =>
          leftLink[s] /\ peerFallback[Other(s)] = delivered[s]

Direction(s) ==
    /\ ReadBounds(s) /\ PathShape(s) /\ SwitchShape(s) /\ NoticeShape(s)
    /\ \A sl \in Slots :
          /\ Numbering(s, sl) /\ KeptShape(s, sl) /\ InboxShape(s, sl) /\ HeldShape(s, sl)
          /\ RelayShape(s, sl) /\ LinkShape(s, sl)

\* The invariant whose preservation proves InOrderOnce.
IInv == \A s \in Sides : Direction(s)

-----------------------------------------------------------------------------
\* The bytes of frames on a slot of the link, summed along its log; a confirmation has none.
Weight(m) == IF m.kind = "frame" THEN m.len ELSE 0
WireSums(s, sl) == Sums([i \in 1..Len(link[s][sl]) |-> Weight(link[s][sl][i])])
WireBytes(s, sl) == WireSums(s, sl)[Len(link[s][sl])]

\* Until p has read the switch notice nothing is confirmed: s has all it put on the link still
\* unconfirmed, which is its window and less than one frame, and p holds all it took off.
Within(s, sl) ==
    /\ ~switched[s] => WireBytes(s, sl) = 0
    /\ ~peerSwitched[Other(s)] =>
          /\ path[s] = "link" => Unconfirmed(s, sl) = WireBytes(s, sl)
          /\ 3 * WireBytes(s, sl) <= 3 * WindowOf(s, sl) + MaxLinkFrame
          /\ ~leftLink[Other(s)] =>
                Bytes(held[Other(s)][sl]) = WireSums(s, sl)[linkRead[Other(s)][sl]]

\* The invariant that, with IInv, proves HeldWithinLimit.
WindowInv == \A s \in Sides, sl \in Slots : Within(s, sl)
=============================================================================
