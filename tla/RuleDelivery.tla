---------------------------- MODULE RuleDelivery ----------------------------
(***************************************************************************)
(* How a change to one alert rule of one customer reaches the machines:    *)
(* the rollout row the administrators edit (handlers_rules_rollout.go,     *)
(* postgres_rollout.go), the refresh that pushes it to the connected       *)
(* machines, the push each registration makes (alert_rules.go), and the    *)
(* ruleset a machine runs.  A push reads the row and sends later, and      *)
(* nothing orders two pushes to one connection.                            *)
(***************************************************************************)
EXTENDS Naturals, Sequences, FiniteSets

CONSTANTS
    Conns, DeviceOf,
    Edits, KindOf,   \* the administrators' requests: stop, resume, on, off
    ReadFails        \* whether a read of the database may fail

Kinds == {"stop", "resume", "on", "off"}

ASSUME RulesAssumption ==
    /\ IsFiniteSet(Conns) /\ IsFiniteSet(Edits) /\ Conns \cap Edits = {}
    /\ KindOf \in [Edits -> Kinds]
    /\ ReadFails \in BOOLEAN

Devices == {DeviceOf[c] : c \in Conns}
Rows == [on : BOOLEAN, kill : BOOLEAN]

VARIABLES
    row,       \* the rollout row of the rule: enabled and kill
    edit,      \* where a request is: new, read, refreshing, done
    seen,      \* the row a PutRuleRollout read
    todo,      \* connections a refresh has still to push to
    link,      \* new, open (in the registry), live (registered) or lost
    given,     \* connections whose organization is known from a push
    pushes,    \* pushes between their read and their send
    pipe,      \* rulesets on their way to the machine: whether the rule is in them
    runs,      \* whether the machine runs the rule
    excused    \* history: connections with overlapping or failed pushes

rulesVars == <<row, edit, seen, todo, link, given, pushes, pipe, runs, excused>>

Pushers == Conns \cup Edits
Push(by, to, rule, org) == [by |-> by, to |-> to, rule |-> rule, org |-> org, noted |-> FALSE]

RulesTypeOK ==
    /\ row \in Rows
    /\ edit \in [Edits -> {"new", "read", "refreshing", "done"}]
    /\ seen \in [Edits -> Rows]
    /\ todo \in [Edits -> SUBSET Conns]
    /\ link \in [Conns -> {"new", "open", "live", "lost"}]
    /\ given \subseteq Conns /\ excused \subseteq Conns
    /\ pushes \subseteq [by : Pushers, to : Conns, rule : BOOLEAN, org : BOOLEAN, noted : BOOLEAN]
    /\ pipe \in [Conns -> Seq(BOOLEAN)]
    /\ runs \in [Devices -> BOOLEAN]

\* DefaultRollout: what applies without a stored row.
DefaultRollout == [on |-> TRUE, kill |-> FALSE]

Delivers(r) == r.on /\ ~r.kill

RulesInit ==
    /\ row = DefaultRollout
    /\ edit = [e \in Edits |-> "new"]
    /\ seen = [e \in Edits |-> DefaultRollout]
    /\ todo = [e \in Edits |-> {}]
    /\ link = [c \in Conns |-> "new"]
    /\ given = {} /\ pushes = {} /\ excused = {}
    /\ pipe = [c \in Conns |-> <<>>]
    /\ runs = [d \in Devices |-> FALSE]

-----------------------------------------------------------------------------
(* pushAlertRules: read the place of the machine and its rules, then send *)

PushesTo(c) == {p \in pushes : p.to = c}

\* RulesFor at the machine's place: the rules as the row has them now.
PushRead(by, c) ==
    /\ pushes' = pushes \cup {Push(by, c, Delivers(row), TRUE)}
    /\ excused' = IF PushesTo(c) = {} THEN excused ELSE excused \cup {c}

\* settingsScope fails: the machine counts as one without a customer, and
\* RulesFor takes the catalogue as shipped.
PushUnplaced(by, c) ==
    /\ ReadFails
    /\ pushes' = pushes \cup {Push(by, c, Delivers(DefaultRollout), FALSE)}
    /\ excused' = excused \cup {c}

\* An unreadable row is an error: nothing is sent.
PushUnread(c) ==
    /\ ReadFails
    /\ excused' = excused \cup {c}
    /\ UNCHANGED pushes

StartPush(by, c) == PushRead(by, c) \/ PushUnplaced(by, c) \/ PushUnread(c)

RememberRuleset(p) ==
    /\ p \in pushes /\ ~p.noted
    /\ pushes' = (pushes \ {p}) \cup {[p EXCEPT !.noted = TRUE]}
    /\ given' = IF p.org THEN given \cup {p.to} ELSE given \ {p.to}
    /\ UNCHANGED <<row, edit, seen, todo, link, pipe, runs, excused>>

SendPushAlertRules(p) ==
    /\ p \in pushes /\ p.noted
    /\ pushes' = pushes \ {p}
    /\ pipe' = IF link[p.to] = "lost" THEN pipe ELSE [pipe EXCEPT ![p.to] = Append(@, p.rule)]
    /\ UNCHANGED <<row, edit, seen, todo, link, given, runs, excused>>

-----------------------------------------------------------------------------
(* Connections and machines *)

Older(c) == {o \in Conns : DeviceOf[o] = DeviceOf[c] /\ link[o] \in {"open", "live"}}

\* accept: the registry holds the connection before its registration arrives.
Open(c) ==
    /\ link[c] = "new" /\ Older(c) = {}
    /\ link' = [link EXCEPT ![c] = "open"]
    /\ UNCHANGED <<row, edit, seen, todo, given, pushes, pipe, runs, excused>>

Register(c) ==
    /\ link[c] = "open"
    /\ link' = [link EXCEPT ![c] = "live"]
    /\ StartPush(c, c)
    /\ UNCHANGED <<row, edit, seen, todo, given, pipe, runs>>

Lose(c) ==
    /\ link[c] \in {"open", "live"}
    /\ link' = [link EXCEPT ![c] = "lost"]
    /\ pipe' = [pipe EXCEPT ![c] = <<>>]
    /\ UNCHANGED <<row, edit, seen, todo, given, pushes, runs, excused>>

\* install_rules: the ruleset replaces the one before.
InstallRules(c) ==
    /\ pipe[c] # <<>>
    /\ runs' = [runs EXCEPT ![DeviceOf[c]] = Head(pipe[c])]
    /\ pipe' = [pipe EXCEPT ![c] = Tail(@)]
    /\ UNCHANGED <<row, edit, seen, todo, link, given, pushes, excused>>

-----------------------------------------------------------------------------
(* The administrators *)

Connected == {c \in Conns : link[c] \in {"open", "live"}}

EditTo(e, from, to) == edit[e] = from /\ edit' = [edit EXCEPT ![e] = to]

\* Mutant: a stop is stored and not pushed.
StopRuleUndelivered(e) ==
    /\ KindOf[e] \in {"stop", "resume"}
    /\ EditTo(e, "new", "refreshing")
    /\ row' = [row EXCEPT !.kill = (KindOf[e] = "stop")]
    /\ UNCHANGED todo
    /\ UNCHANGED <<seen, link, given, pushes, pipe, runs, excused>>

\* applyStop writes the kill flag alone; deliverRuleChange lists the machines.
StopRule(e) ==
    /\ KindOf[e] \in {"stop", "resume"}
    /\ EditTo(e, "new", "refreshing")
    /\ row' = [row EXCEPT !.kill = (KindOf[e] = "stop")]
    /\ todo' = [todo EXCEPT ![e] = Connected]
    /\ UNCHANGED <<seen, link, given, pushes, pipe, runs, excused>>

\* pacedRollout: a failed read counts as a customer without a row.
PacedRollout(e) ==
    /\ KindOf[e] \in {"on", "off"}
    /\ EditTo(e, "new", "read")
    /\ \E r \in {row} \cup (IF ReadFails THEN {DefaultRollout} ELSE {}) :
        seen' = [seen EXCEPT ![e] = [r EXCEPT !.on = (KindOf[e] = "on")]]
    /\ UNCHANGED <<row, todo, link, given, pushes, pipe, runs, excused>>

\* UpsertRollout writes every field of what was read, the kill flag included.
UpsertRollout(e) ==
    /\ EditTo(e, "read", "refreshing")
    /\ row' = seen[e]
    /\ todo' = [todo EXCEPT ![e] = Connected]
    /\ UNCHANGED <<seen, link, given, pushes, pipe, runs, excused>>

\* refreshRules, one connection at a time: one without an organization is skipped.
RefreshSkip(e, c) ==
    /\ edit[e] = "refreshing" /\ c \in todo[e] /\ {p \in pushes : p.by = e} = {}
    /\ c \notin given
    /\ todo' = [todo EXCEPT ![e] = @ \ {c}]
    /\ excused' = IF link[c] = "live" THEN excused \cup {c} ELSE excused
    /\ UNCHANGED <<row, edit, seen, link, given, pushes, pipe, runs>>

RefreshPush(e, c) ==
    /\ edit[e] = "refreshing" /\ c \in todo[e] /\ {p \in pushes : p.by = e} = {}
    /\ c \in given
    /\ todo' = [todo EXCEPT ![e] = @ \ {c}]
    /\ StartPush(e, c)
    /\ UNCHANGED <<row, edit, seen, link, given, pipe, runs>>

Refreshed(e) ==
    /\ todo[e] = {} /\ {p \in pushes : p.by = e} = {}
    /\ EditTo(e, "refreshing", "done")
    /\ UNCHANGED <<row, seen, todo, link, given, pushes, pipe, runs, excused>>

-----------------------------------------------------------------------------
EditStep(e) ==
    \/ UpsertRollout(e) \/ Refreshed(e)
    \/ \E c \in Conns : RefreshSkip(e, c) \/ RefreshPush(e, c)

PushStep(by) == \E p \in pushes : p.by = by /\ (RememberRuleset(p) \/ SendPushAlertRules(p))

RulesNext ==
    \/ \E c \in Conns : Open(c) \/ Register(c) \/ Lose(c) \/ InstallRules(c)
    \/ \E e \in Edits : StopRule(e) \/ PacedRollout(e) \/ EditStep(e)
    \/ \E by \in Pushers : PushStep(by)

RulesFairness ==
    /\ \A c \in Conns : WF_rulesVars(InstallRules(c)) /\ WF_rulesVars(Register(c))
    /\ \A e \in Edits : WF_rulesVars(EditStep(e))
    /\ \A by \in Pushers : WF_rulesVars(PushStep(by))

RulesSpec == RulesInit /\ [][RulesNext]_rulesVars /\ RulesFairness

-----------------------------------------------------------------------------
(* Properties *)

(***************************************************************************)
(* A connected machine ends up with the rules as the customer's row has    *)
(* them, whatever edits and registrations happened, except on a connection *)
(* where two pushes overlapped, a refresh passed over a registration that  *)
(* had already read the row, or a read failed (deliverRuleChange,          *)
(* refreshRules, pushAlertRules).                                          *)
(***************************************************************************)
MachinesCatchUp ==
    \A c \in Conns :
        <>[](link[c] # "live" \/ c \in excused \/ runs[DeviceOf[c]] = Delivers(row))

(***************************************************************************)
(* "pacedRollout applies the operator's settings to the stored state,      *)
(* leaving the stop and the reach" (handlers_rules_rollout.go:50).         *)
(***************************************************************************)
PutLeavesStop == [][\A e \in Edits : UpsertRollout(e) => row'.kill = row.kill]_rulesVars

(***************************************************************************)
(* "an unreadable store is an error, so the agent keeps its current rules  *)
(* and never receives defaults that ignore customer settings"              *)
(* (alert_rules_catalogue.go:72): a machine is not sent a rule that was    *)
(* stopped before its connection was opened and ever since.                *)
(***************************************************************************)
NeverDefaults ==
    [][\A by \in Pushers, c \in Conns :
        ~Delivers(row) => Push(by, c, TRUE, FALSE) \notin pushes' \ pushes]_rulesVars
=============================================================================
