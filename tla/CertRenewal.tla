---------------------------- MODULE CertRenewal -----------------------------
(***************************************************************************)
(* The certificates of one device on the server: the ledger in the         *)
(* database and its index in memory (certledger), admission against it     *)
(* (admission.go, server_connection.go), renewal over a live connection    *)
(* (renewal.go, renewal_sweep.go, devicecert), pruning, and restarts.      *)
(* A certificate is its place in the order of Entry.later; 1 is the one    *)
(* the device enrolled with.                                               *)
(***************************************************************************)
EXTENDS Naturals, Sequences

CONSTANTS
    Links,        \* connections, each used once
    MaxCert,      \* bound: certificates issued for the device
    PerDay,       \* renewalsPerDay
    MaxKeys,      \* bound: requests the machine makes
    Copies,       \* whether a copy of an older key may connect too
    MaxBoots      \* bound: restarts of the server

ASSUME RenewalAssumption ==
    MaxCert \in Nat \ {0} /\ PerDay \in Nat /\ MaxKeys \in Nat /\ Copies \in BOOLEAN /\ MaxBoots \in Nat

Certs == 1..MaxCert
Free == "free"

VARIABLES
    rows,      \* device_certificates
    rowSeen,   \* rows with first_seen_at
    index,     \* Store.byPrint
    seen,      \* entries of the index with Seen
    writing,   \* sightings that persistSeen has still to write
    machine,   \* the certificate the machine has saved
    mine,      \* the connection the machine is on, or Free
    pending,   \* the key of the machine's outstanding request, 0 for none
    keys,      \* keys it has generated
    stage,     \* where accept, and the handler of a renewal, are
    down,      \* connections that are closed; their handler finishes its message
    cert,      \* AgentConn.certFP
    copied,    \* connections made with a copy of an older key
    doomed,    \* the certificates a connection is about to close the others of
    offer,     \* connections with an offer outstanding
    asking,    \* the key of the request a connection's handler works on
    issued,    \* renewalState.issued, 0 for none
    toAgent,   \* frames on their way to the machine, in order
    toServer,  \* and back
    inFlight,  \* the connection in renewals.inFlight, or Free
    today,     \* renewals issued in the rolling day
    buried,    \* certificates up to this one are expired past the grace
    pruning,   \* the rows a prune under way deletes
    dead,      \* history: certificates a later one superseded on disk
    boots

ledgerVars == <<rows, rowSeen, index, seen, writing, dead>>
linkVars == <<stage, down, cert, copied, doomed, offer, asking, issued, toAgent, toServer, inFlight>>
machineVars == <<machine, mine, pending, keys>>
upkeepVars == <<today, buried, pruning, boots>>
renewalVars == <<ledgerVars, linkVars, machineVars, upkeepVars>>

Stages == {"idle", "admitted", "marked", "joining", "live", "checked", "signing", "recorded", "installed"}

RenewalTypeOK ==
    /\ rows \subseteq Certs /\ rowSeen \subseteq rows
    /\ index \subseteq Certs /\ seen \subseteq index /\ writing \subseteq Certs
    /\ machine \in Certs /\ mine \in Links \cup {Free}
    /\ keys \in 0..MaxKeys /\ pending \in 0..keys
    /\ stage \in [Links -> Stages]
    /\ cert \in [Links -> Certs \cup {0}]
    /\ copied \subseteq Links /\ offer \subseteq Links /\ down \subseteq Links
    /\ doomed \in [Links -> SUBSET Certs]
    /\ issued \in [Links -> Certs \cup {0}] /\ asking \in [Links -> 0..MaxKeys]
    /\ \A c \in Links : Len(toAgent[c]) + Len(toServer[c]) <= 4 * MaxKeys
    /\ inFlight \in Links \cup {Free}
    /\ today \in 0..MaxCert /\ buried \in 0..MaxCert
    /\ pruning \subseteq Certs /\ dead \subseteq Certs /\ boots \in 0..MaxBoots

RenewalInit ==
    /\ rows = {1} /\ rowSeen = {} /\ index = {1} /\ seen = {} /\ writing = {}
    /\ machine = 1 /\ mine = Free /\ pending = 0 /\ keys = 0
    /\ stage = [c \in Links |-> "idle"]
    /\ cert = [c \in Links |-> 0]
    /\ copied = {} /\ offer = {} /\ down = {}
    /\ doomed = [c \in Links |-> {}]
    /\ issued = [c \in Links |-> 0] /\ asking = [c \in Links |-> 0]
    /\ toAgent = [c \in Links |-> <<>>] /\ toServer = [c \in Links |-> <<>>]
    /\ inFlight = Free /\ today = 0 /\ buried = 0
    /\ pruning = {} /\ dead = {} /\ boots = 0

\* supersededLocked: a later certificate has been seen.
Superseded(k) == \E j \in seen : j > k

\* admit: not too old, on the ledger, not superseded.
Admissible(k) == k > buried /\ k \in index /\ ~Superseded(k)

\* The connections eachLiveConn visits.
Joined == {c \in Links : stage[c] \in {"live", "checked", "signing", "recorded", "installed"}}

\* A connection whose next message can be read.
Reading(c) == stage[c] = "live" /\ c \notin down

StageFrom(c, from, to) == stage[c] = from /\ stage' = [stage EXCEPT ![c] = to]

\* What makes certificates superseded on disk, for the history.
DeadBy(S) == dead' = dead \cup {k \in Certs : \E j \in S : j > k}

-----------------------------------------------------------------------------
(* accept *)

\* The machine opens a connection, and is on no other any more; a copy of an
\* older key may connect too.
Admit(c, k) ==
    /\ Admissible(k)
    /\ StageFrom(c, "idle", "admitted")
    /\ cert' = [cert EXCEPT ![c] = k]
    /\ \/ k = machine /\ mine' = c /\ UNCHANGED copied
       \/ Copies /\ k < machine /\ copied' = copied \cup {c} /\ UNCHANGED mine
    /\ UNCHANGED <<ledgerVars, machine, pending, keys, down, doomed, offer, asking, issued,
                   toAgent, toServer, inFlight, upkeepVars>>

\* MarkSeen: current in memory at once, on disk behind the caller.
MarkSeen(c) ==
    /\ StageFrom(c, "admitted", "marked")
    /\ IF cert[c] \in index \ seen
       THEN /\ seen' = seen \cup {cert[c]}
            /\ writing' = writing \cup {cert[c]}
            /\ doomed' = [doomed EXCEPT ![c] = {k \in index : k < cert[c]}]
       ELSE UNCHANGED <<seen, writing, doomed>>
    /\ UNCHANGED <<rows, rowSeen, index, dead, machineVars, down, cert, copied, offer, asking,
                   issued, toAgent, toServer, inFlight, upkeepVars>>

\* closeSuperseded: one walk over the registered connections, before the
\* connection joins them or after a renewal was installed on it.
CloseSuperseded(c) ==
    /\ \/ StageFrom(c, "marked", "joining")
       \/ StageFrom(c, "installed", "live")
    /\ down' = down \cup {o \in Joined : cert[o] \in doomed[c]}
    /\ doomed' = [doomed EXCEPT ![c] = {}]
    /\ UNCHANGED <<ledgerVars, machineVars, cert, copied, offer, asking, issued, toAgent,
                   toServer, inFlight, upkeepVars>>

\* registerConn, or serveRestricted for an expired certificate.
Join(c) ==
    /\ StageFrom(c, "joining", "live")
    /\ UNCHANGED <<ledgerVars, machineVars, down, cert, copied, doomed, offer, asking, issued,
                   toAgent, toServer, inFlight, upkeepVars>>

\* A connection ends: lost, replaced, or a restricted one at its limit.
Leave(c) ==
    /\ c \in Joined \ down
    /\ down' = down \cup {c}
    /\ UNCHANGED <<ledgerVars, machineVars, stage, cert, copied, doomed, offer, asking, issued,
                   toAgent, toServer, inFlight, upkeepVars>>

\* persistSeen, which may fail and is then only logged.
PersistSeen(k) ==
    /\ k \in writing
    /\ writing' = writing \ {k}
    /\ \/ /\ rowSeen' = rowSeen \cup ({k} \cap rows)
          /\ DeadBy({k} \cap rows)
       \/ UNCHANGED <<rowSeen, dead>>
    /\ UNCHANGED <<rows, index, seen, machineVars, linkVars, upkeepVars>>

-----------------------------------------------------------------------------
(* Renewal *)

\* offerRenewal, at registration or by the sweep; an offer lapses by being made
\* again.
OfferRenewal(c) ==
    /\ Reading(c) /\ c \notin copied /\ Len(toAgent[c]) < MaxKeys
    /\ offer' = offer \cup {c}
    /\ toAgent' = [toAgent EXCEPT ![c] = Append(@, [type |-> "RenewCertificate"])]
    /\ UNCHANGED <<ledgerVars, machineVars, stage, down, cert, copied, doomed, asking, issued,
                   toServer, inFlight, upkeepVars>>

\* renewFor up to the allowance: takeOffer, requestMismatch, deviceRefusal.  A
\* refusal, which an offer grown old gets too, only consumes the offer.
CheckRequest(c) ==
    /\ Reading(c) /\ toServer[c] # <<>>
    /\ Head(toServer[c]).type = "CertificateSigningRequest"
    /\ toServer' = [toServer EXCEPT ![c] = Tail(@)]
    /\ offer' = offer \ {c}
    /\ \/ /\ c \in offer /\ ~Superseded(cert[c]) /\ today < PerDay
          /\ asking' = [asking EXCEPT ![c] = Head(toServer[c]).key]
          /\ StageFrom(c, "live", "checked")
       \/ UNCHANGED <<stage, asking>>
    /\ UNCHANGED <<ledgerVars, machineVars, down, cert, copied, doomed, issued, toAgent,
                   inFlight, upkeepVars>>

\* The in-flight guard, LoadOrStore: a second request is refused.
EnterFlight(c) ==
    /\ IF inFlight = Free
       THEN inFlight' = c /\ StageFrom(c, "checked", "signing")
       ELSE StageFrom(c, "checked", "live") /\ UNCHANGED inFlight
    /\ UNCHANGED <<ledgerVars, machineVars, down, cert, copied, doomed, offer, asking, issued,
                   toAgent, toServer, upkeepVars>>

\* Issue: signed and inserted; a failed insert refuses the request.
RecordRow(c) ==
    /\ \/ \E k \in Certs :
            /\ k - 1 \in rows /\ \A j \in rows : j < k
            /\ rows' = rows \cup {k} /\ today' = today + 1
            /\ issued' = [issued EXCEPT ![c] = k]
            /\ StageFrom(c, "signing", "recorded")
            /\ UNCHANGED inFlight
       \/ /\ StageFrom(c, "signing", "live")
          /\ inFlight' = Free
          /\ UNCHANGED <<rows, today, issued>>
    /\ UNCHANGED <<rowSeen, index, seen, writing, dead, machineVars, down, cert, copied, doomed,
                   offer, asking, toAgent, toServer, buried, pruning, boots>>

\* Mutant: a certificate supersedes the others once it is issued.
IndexAndSendCurrent(c) ==
    /\ StageFrom(c, "recorded", "live")
    /\ index' = index \cup {issued[c]}
    /\ seen' = seen \cup {issued[c]}
    /\ inFlight' = Free
    /\ toAgent' = [toAgent EXCEPT ![c] = Append(@,
         [type |-> "CertificateIssued", cert |-> issued[c], key |-> asking[c]])]
    /\ UNCHANGED <<rows, rowSeen, writing, dead, machineVars, down, cert, copied, doomed,
                   offer, asking, issued, toServer, upkeepVars>>

\* The index, the end of the flight, and the answer.
IndexAndSend(c) ==
    /\ StageFrom(c, "recorded", "live")
    /\ index' = index \cup {issued[c]}
    /\ inFlight' = Free
    /\ toAgent' = [toAgent EXCEPT ![c] = Append(@,
         [type |-> "CertificateIssued", cert |-> issued[c], key |-> asking[c]])]
    /\ UNCHANGED <<rows, rowSeen, seen, writing, dead, machineVars, down, cert, copied, doomed,
                   offer, asking, issued, toServer, upkeepVars>>

\* The machine reads a frame of the connection it is on.
AgentReads(c) ==
    /\ c = mine /\ c \notin down /\ toAgent[c] # <<>>
    /\ toAgent' = [toAgent EXCEPT ![c] = Tail(@)]

\* Renewal::request: a new key takes the place of one still pending.
AgentRequests(c) ==
    /\ AgentReads(c) /\ Head(toAgent[c]).type = "RenewCertificate"
    /\ keys < MaxKeys /\ keys' = keys + 1 /\ pending' = keys'
    /\ toServer' = [toServer EXCEPT ![c] =
         Append(@, [type |-> "CertificateSigningRequest", key |-> keys'])]
    /\ UNCHANGED <<ledgerVars, machine, mine, stage, down, cert, copied, doomed, offer, asking,
                   issued, inFlight, upkeepVars>>

\* Renewal::issued and save: only the certificate of the pending key, which may
\* have waited too long.
AgentInstalls(c) ==
    /\ AgentReads(c) /\ Head(toAgent[c]).type = "CertificateIssued"
    /\ pending' = 0
    /\ \/ /\ Head(toAgent[c]).key = pending
          /\ machine' = Head(toAgent[c]).cert
          /\ toServer' = [toServer EXCEPT ![c] = Append(@, [type |-> "CertificateInstalled"])]
       \/ UNCHANGED <<machine, toServer>>
    /\ UNCHANGED <<ledgerVars, mine, keys, stage, down, cert, copied, doomed, offer, asking,
                   issued, inFlight, upkeepVars>>

\* handleCertificateInstalled: MarkInstalled, in memory and then on disk, where
\* it may fail; the connection takes the new certificate and closes the others.
HandleInstalled(c) ==
    /\ Reading(c) /\ toServer[c] # <<>> /\ Head(toServer[c]).type = "CertificateInstalled"
    /\ toServer' = [toServer EXCEPT ![c] = Tail(@)]
    /\ issued' = [issued EXCEPT ![c] = 0]
    /\ IF issued[c] = 0
       THEN UNCHANGED <<ledgerVars, stage, cert, doomed>>
       ELSE /\ cert' = [cert EXCEPT ![c] = issued[c]]
            /\ seen' = seen \cup ({issued[c]} \cap index)
            /\ doomed' = [doomed EXCEPT ![c] =
                 IF issued[c] \in index \ seen THEN {k \in index : k < issued[c]} ELSE {}]
            /\ stage' = [stage EXCEPT ![c] = "installed"]
            /\ \/ /\ issued[c] \in index \ seen
                  /\ rowSeen' = rowSeen \cup ({issued[c]} \cap rows)
                  /\ DeadBy({issued[c]} \cap rows)
               \/ UNCHANGED <<rowSeen, dead>>
            /\ UNCHANGED <<rows, index, writing>>
    /\ UNCHANGED <<machineVars, down, copied, offer, asking, toAgent, inFlight, upkeepVars>>

-----------------------------------------------------------------------------
(* Time, upkeep and restarts *)

NextDay ==
    /\ today # 0 /\ today' = 0
    /\ UNCHANGED <<ledgerVars, linkVars, machineVars, buried, pruning, boots>>

\* Certificates expire in the order they were issued.
Expire ==
    /\ buried < MaxCert /\ buried' = buried + 1
    /\ UNCHANGED <<ledgerVars, linkVars, machineVars, today, pruning, boots>>

\* Prune, first under the read lock and later in the database and the index.
ChoosePrune ==
    /\ pruning = {}
    /\ pruning' = {k \in index : k <= buried /\ Superseded(k)}
    /\ UNCHANGED <<ledgerVars, linkVars, machineVars, today, buried, boots>>

Prune ==
    /\ pruning # {} /\ pruning' = {}
    /\ \E gone \in SUBSET pruning :
         /\ rows' = rows \ gone /\ rowSeen' = rowSeen \ gone
         /\ IF gone = pruning
            THEN index' = index \ gone /\ seen' = seen \ gone
            ELSE UNCHANGED <<index, seen>>   \* a delete failed: nothing is forgotten
    /\ UNCHANGED <<writing, dead, linkVars, machineVars, today, buried, boots>>

\* Mutant: Warm does not read first_seen_at.
RebootUnseen ==
    /\ boots < MaxBoots /\ boots' = boots + 1
    /\ index' = rows /\ seen' = {} /\ writing' = {}
    /\ stage' = [c \in Links |-> IF stage[c] = "idle" THEN "idle" ELSE "live"]
    /\ down' = {c \in Links : stage[c] # "idle"}
    /\ doomed' = [c \in Links |-> {}]
    /\ offer' = {} /\ inFlight' = Free /\ pruning' = {}
    /\ issued' = [c \in Links |-> 0] /\ asking' = [c \in Links |-> 0]
    /\ toAgent' = [c \in Links |-> <<>>] /\ toServer' = [c \in Links |-> <<>>]
    /\ UNCHANGED <<rows, rowSeen, dead, cert, copied, machineVars, today, buried>>

\* The process ends and Warm reads the table.
Reboot ==
    /\ boots < MaxBoots /\ boots' = boots + 1
    /\ index' = rows /\ seen' = rowSeen /\ writing' = {}
    /\ stage' = [c \in Links |-> IF stage[c] = "idle" THEN "idle" ELSE "live"]
    /\ down' = {c \in Links : stage[c] # "idle"}
    /\ doomed' = [c \in Links |-> {}]
    /\ offer' = {} /\ inFlight' = Free /\ pruning' = {}
    /\ issued' = [c \in Links |-> 0] /\ asking' = [c \in Links |-> 0]
    /\ toAgent' = [c \in Links |-> <<>>] /\ toServer' = [c \in Links |-> <<>>]
    /\ UNCHANGED <<rows, rowSeen, dead, cert, copied, machineVars, today, buried>>

RenewalNext ==
    \/ \E c \in Links, k \in Certs : Admit(c, k)
    \/ \E c \in Links :
         \/ MarkSeen(c) \/ CloseSuperseded(c) \/ Join(c) \/ Leave(c)
         \/ OfferRenewal(c) \/ CheckRequest(c) \/ EnterFlight(c)
         \/ RecordRow(c) \/ IndexAndSend(c) \/ HandleInstalled(c)
         \/ AgentRequests(c) \/ AgentInstalls(c)
    \/ \E k \in Certs : PersistSeen(k)
    \/ NextDay \/ Expire \/ ChoosePrune \/ Prune \/ Reboot

RenewalSpec == RenewalInit /\ [][RenewalNext]_renewalVars

-----------------------------------------------------------------------------
(* Properties *)

\* The machine can always connect with the certificate it has saved, until that
\* is past the grace: whatever answer or notice was lost, write failed, row was
\* pruned or restart came in between, its certificate is on the ledger and no
\* later one is current (Record before sending, see only once installed, Prune).
NeverLockedOut == machine > buried => Admissible(machine)

\* Once a later certificate is current on disk, an earlier one is refused for
\* good, across prunes and restarts (Superseded, Prune, Warm).
NoComeback == \A k \in dead : ~Admissible(k)

\* ADR-128: "it supersedes every earlier one at once: any live connection still on
\* a superseded certificate is closed with code 5", once the walk is over.
SupersededIsClosed ==
    \A c \in Joined \ down :
        Superseded(cert[c]) => \E o \in Links : cert[c] \in doomed[o]

\* ADR-128: "A device gets at most three issuances in a rolling day".
RenewalsWithinDay == today <= PerDay
=============================================================================
