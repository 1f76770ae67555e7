----------------------------- MODULE MCHandoff -----------------------------
(* The hand-off on small instances: how many frames each side sends on a slot. *)
EXTENDS HandoffInvariant

Quotas(host, browser) == [s \in Sides |-> IF s = "host" THEN host ELSE browser]
PerSlot(t, s, f) == [c \in Channels |-> IF c = "typing" THEN t ELSE IF c = "screen" THEN s ELSE f]

\* One shared slot, two frames each way.
BothWays == Quotas(PerSlot(2, 0, 0), PerSlot(2, 0, 0))
\* Two keystrokes and one reply.
OneReply == Quotas(PerSlot(1, 0, 0), PerSlot(2, 0, 0))
\* The host fills every window of three slots.
FullWindows == Quotas(PerSlot(1, 2, 2), PerSlot(0, 0, 0))
=============================================================================
