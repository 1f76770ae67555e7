--------------------------- MODULE SessionStream ---------------------------
(***************************************************************************)
(* What a session promises its features whatever path its frames take: on  *)
(* each slot, what one side sends its peer receives exactly once and in    *)
(* order, until the session ends.                                          *)
(***************************************************************************)
EXTENDS Naturals, Sequences

CONSTANTS Sides, Slots, Other(_)

VARIABLES
    sent,    \* per side and slot: frames taken for sending
    inbox    \* per side and slot: places of the frames received, in order

vars == <<sent, inbox>>

UpTo(n) == [i \in 1..n |-> i]

Init ==
    /\ sent = [s \in Sides |-> [sl \in Slots |-> 0]]
    /\ inbox = [s \in Sides |-> [sl \in Slots |-> <<>>]]

Send(s, sl) ==
    /\ sent' = [sent EXCEPT ![s][sl] = @ + 1]
    /\ UNCHANGED inbox

\* The next frame the peer sent on the slot, and no other, is handed over.
Receive(s, sl) ==
    /\ Len(inbox[s][sl]) < sent[Other(s)][sl]
    /\ inbox' = [inbox EXCEPT ![s][sl] = Append(@, Len(@) + 1)]
    /\ UNCHANGED sent

Next == \E s \in Sides, sl \in Slots : Send(s, sl) \/ Receive(s, sl)

Spec == Init /\ [][Next]_vars
=============================================================================
