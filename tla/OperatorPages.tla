---------------------------- MODULE OperatorPages ----------------------------
(***************************************************************************)
(* The catalog of operators: OperatorList, OperatorView and OperatorNew,   *)
(* with actions/operators.ts, reducers/operators.ts and the requests of    *)
(* shared/Operators.ts that subscribe to an operator.  The effects of a    *)
(* render are part of the step that caused it.                             *)
(***************************************************************************)
EXTENDS Naturals, FiniteSets

CONSTANTS NoOp,
          Ops,       \* operators
          Wide,      \* those whose default channel supports all namespaces
          Namespaces,
          Global,    \* the namespace "operators", one of them
          MaxMoves,  \* bound: what the user does
          MaxErrors  \* bound: requests that fail

VARIABLES
    store,  \* state.operators
    ui,     \* the page, its URL, the namespace, and the form
    calls,  \* requests in flight
    past    \* bounds, history, and the cluster

ConstantsAssumption ==
    NoOp \notin Ops /\ Global \in Namespaces /\ Namespaces # {Global} /\ MaxErrors \in Nat

vars == <<store, ui, calls, past>>

\* An operator has two channels, and one of them supports all namespaces.
Channels        == {"default", "other"}
global(op, ch)  == (op \in Wide) = (ch = "default")
Subscriptions   == [ns : Namespaces, op : Ops]

NoErrors == [operator |-> "no", subscriptions |-> "no"]
InitialState(olm) == [fetching |-> {}, olm |-> olm, operators |-> {}, operator |-> NoOp,
                      subscriptions |-> {}, errors |-> NoErrors]

NoForm == [channel |-> "no", mode |-> FALSE]

Init ==
    /\ store = InitialState(FALSE)
    /\ ui = [page |-> "other", op |-> NoOp, form |-> NoForm,
             ns |-> CHOOSE n \in Namespaces : n # Global]
    /\ calls = {}
    /\ \E ss \in SUBSET Subscriptions : Cardinality(ss) <= 1 /\
          past = [subscriptions |-> ss,
                  groups |-> [n \in Namespaces |-> IF n = Global \/ \E s \in ss : s.ns = n THEN 1 ELSE 0],
                  moves |-> 0, errors |-> 0, stray |-> FALSE, old |-> FALSE]

-----------------------------------------------------------------------------
(* reducers/operators.ts *)

Fetching(s, e)              == [s EXCEPT !.fetching = @ \cup {e}]
Fetched(s, e)               == [s EXCEPT !.fetching = @ \ {e}]
OLMStillFetching(s)         == [s EXCEPT !.olm = TRUE]   \* (mutant)
OLMInstalled(s)             == [Fetched(s, "OLM") EXCEPT !.olm = TRUE]
errorOLMCheck(s)            == [Fetched(s, "OLM") EXCEPT !.errors.operator = "fetch"]
receiveOperators(s)         == [Fetched(s, "operator") EXCEPT !.operators = Ops]
receiveOperator(s, op)      == [Fetched(s, "operator") EXCEPT !.operator = op]
errorOperators(s)           == [Fetched(s, "operator") EXCEPT !.operator = NoOp, !.errors.operator = "fetch"]
receiveSubscriptions(s, ss) == [Fetched(s, "subscriptions") EXCEPT !.subscriptions = ss]
errorSubscriptionList(s)    == [Fetched(s, "subscriptions") EXCEPT !.errors.subscriptions = "fetch"]
errorOperatorCreate(s)      == [Fetched(s, "operator") EXCEPT !.errors.operator = "create"]
LocationChange(s)           == [s EXCEPT !.errors = NoErrors]
setNamespaceState(s)        == InitialState(s.olm)

-----------------------------------------------------------------------------
(* The pages *)

Call(kind, op, ns) == [kind |-> kind, op |-> op, ns |-> ns, url |-> op, first |-> {},
                       channel |-> "no", calm |-> TRUE]

\* What the effects of a page ask for when it is mounted, when its operator or the
\* namespace changes: it is flagged, and requested.
CSVOf(s, u) == IF s.operator # NoOp THEN {Call("csv", s.operator, u.ns)} ELSE {}
Asks(s, u) ==
    CASE u.page = "list" ->
            {Call("olm", NoOp, u.ns)} \cup
               (IF s.olm THEN {Call("operators", NoOp, u.ns), Call("subscriptions", NoOp, u.ns)}
                         ELSE {})
      [] u.page = "view" ->
            {Call("operator", u.op, u.ns), Call("subscriptions", NoOp, u.ns)} \cup CSVOf(s, u)
      [] u.page = "new"  -> {Call("operator", u.op, u.ns)}
      [] OTHER           -> {}

FlagOf(kind) == CASE kind = "olm" -> "OLM"
                  [] kind \in {"operators", "operator"} -> "operator"
                  [] kind = "subscriptions" -> "subscriptions"
                  [] kind = "csv" -> "csv"

\* The form starts with the default channel of the operator of the store.
DefaultForm(op) == [channel |-> "default", mode |-> global(op, "default")]

Opened(s, u, cs, p) ==
    LET asks == Asks(s, u)
    IN /\ store' = [s EXCEPT !.fetching = @ \cup {FlagOf(c.kind) : c \in asks}]
       /\ ui' = [u EXCEPT !.form = IF u.page = "new" /\ s.operator # NoOp
                                   THEN DefaultForm(s.operator) ELSE u.form]
       /\ calls' = cs \cup asks
       /\ past' = [p EXCEPT !.stray = FALSE]

Move  == past.moves < MaxMoves
Count == [past EXCEPT !.moves = @ + 1]

OpenPage(page, op) ==
    /\ Move /\ <<page, op>> # <<ui.page, ui.op>>
    /\ op = NoOp <=> page = "list"
    /\ Opened(LocationChange(store),
              [ui EXCEPT !.page = page, !.op = op, !.form = NoForm], calls, Count)

changeContext(ns) ==
    /\ Move /\ ns # ui.ns /\ ui.page # "other"
    /\ Opened(LocationChange(setNamespaceState(store)), [ui EXCEPT !.ns = ns], calls, Count)

\* There is a form, whose Deploy is not disabled.
HasForm == /\ ui.page = "new" /\ store.errors.operator = "no"
           /\ store.fetching = {} /\ store.operator # NoOp /\ ui.form.channel # "no"

disableInstall == ui.ns = Global /\ ~global(store.operator, ui.form.channel)

\* (mutant) The mode is kept.
selectOnlyChannel(ch) == [ui.form EXCEPT !.channel = ch]

WithChannel(ch) == [channel |-> ch, mode |-> global(store.operator, ch)]

selectChannel(ch) ==
    /\ Move /\ HasForm /\ ch # ui.form.channel
    /\ ui' = [ui EXCEPT !.form = WithChannel(ch)]
    /\ past' = Count
    /\ UNCHANGED <<store, calls>>

setInstallationMode(mode) ==
    /\ Move /\ HasForm /\ mode # ui.form.mode
    /\ mode => global(store.operator, ui.form.channel)
    /\ ui' = [ui EXCEPT !.form.mode = mode]
    /\ past' = Count
    /\ UNCHANGED <<store, calls>>

Reading == \E c \in calls : c.kind = "operator"

\* handleDeploy; createOperator begins with the operator groups but in "operators".
handleDeploy ==
    /\ Move /\ HasForm /\ ~disableInstall
    /\ store' = Fetching(store, "operator")
    /\ LET ns == IF ui.form.mode THEN Global ELSE ui.ns
       IN calls' = calls \cup
             {[Call(IF ns = Global THEN "subscribe" ELSE "groups", store.operator, ns)
                 EXCEPT !.url = ui.op, !.channel = ui.form.channel,
                        !.calm = ~Reading /\ ~past.stray]}
    /\ past' = Count
    /\ UNCHANGED ui

-----------------------------------------------------------------------------
(* Answers *)

\* A render that sees OLM, or an operator, for the first time has effects of its own.
Answer(c, s, cs, p) ==
    LET new  == s.operator # NoOp /\ c.kind = "operator"
        asks == (IF new /\ ui.page = "view" THEN CSVOf(s, ui) ELSE {})
                 \cup (IF s.olm # store.olm THEN Asks(s, ui) \ Asks(store, ui) ELSE {})
    IN /\ store' = [s EXCEPT !.fetching = @ \cup {FlagOf(d.kind) : d \in asks}]
       /\ ui' = [ui EXCEPT !.form = IF new /\ ui.page = "new" THEN DefaultForm(s.operator) ELSE @]
       /\ calls' = (calls \ {c}) \cup cs \cup asks
       /\ past' = p

\* An answer for a page or a namespace that was left.
Strays(c) == [past EXCEPT !.stray = @ \/ c.ns # ui.ns \/ (c.op # NoOp /\ c.op # ui.op)
                                      \/ (c.kind = "operator") # (ui.page \in {"view", "new"})]

OLMAnswered(c) ==
    /\ c.kind = "olm"
    /\ Answer(c, OLMInstalled(store), {}, past)

OperatorsAnswered(c) ==
    \/ c.kind = "operators" /\ Answer(c, receiveOperators(store), {}, past)
    \/ c.kind = "operator" /\ Answer(c, receiveOperator(store, c.op), {}, Strays(c))
    \/ c.kind = "csv" /\ Answer(c, Fetched(store, "csv"), {}, past)

In(ns) == {s \in past.subscriptions : s.ns = ns}

\* Those of "operators" first, then those of the namespace if it is another.
listSubscriptions(c) ==
    \/ /\ c.kind = "subscriptions" /\ c.ns # Global
       /\ Answer(c, store, {[c EXCEPT !.kind = "more", !.first = In(Global)]}, past)
    \/ /\ c.kind = "subscriptions" /\ c.ns = Global
       /\ Answer(c, receiveSubscriptions(store, In(Global)), {}, Strays(c))
    \/ /\ c.kind = "more"
       /\ Answer(c, receiveSubscriptions(store, c.first \cup In(c.ns)), {}, Strays(c))

\* (mutant) The group is left to somebody else.
assumeOperatorGroup(c) == "subscribe"

\* createOperatorGroupIfNotExists: what follows on the list of operator groups.
createOperatorGroupIfNotExists(c) == IF past.groups[c.ns] > 0 THEN "subscribe" ELSE "group"

GroupsAnswered(c) ==
    \/ /\ c.kind = "groups"
       /\ Answer(c, store, {[c EXCEPT !.kind = createOperatorGroupIfNotExists(c)]}, past)
    \/ /\ c.kind = "group"
       /\ Answer(c, store, {[c EXCEPT !.kind = "subscribe"]}, [past EXCEPT !.groups[c.ns] = @ + 1])

\* It is created, and the list is opened wherever the user is.
Subscribed(c) ==
    /\ c.kind = "subscribe" /\ [ns |-> c.ns, op |-> c.op] \notin past.subscriptions
    /\ Opened(LocationChange(Fetched(store, "operator")),
              [ui EXCEPT !.page = "list", !.op = NoOp, !.form = NoForm], calls \ {c},
              [past EXCEPT !.subscriptions = @ \cup {[ns |-> c.ns, op |-> c.op]},
                           !.old = @ \/ \E d \in calls : d.kind = "more"])

CallFails(c) ==
    LET exists == c.kind = "subscribe" /\ [ns |-> c.ns, op |-> c.op] \in past.subscriptions
        creates == c.kind \in {"groups", "group", "subscribe"}
    IN /\ exists \/ past.errors < MaxErrors
       /\ Answer(c, CASE c.kind = "olm"                      -> errorOLMCheck(store)
                      [] c.kind \in {"operators", "operator"} -> errorOperators(store)
                      [] c.kind = "csv"                      -> Fetched(store, "csv")
                      [] c.kind \in {"subscriptions", "more"} -> errorSubscriptionList(store)
                      [] creates                             -> errorOperatorCreate(store),
                 {}, [Strays(c) EXCEPT !.errors = IF exists THEN @ ELSE @ + 1])

Next ==
    \/ handleDeploy
    \/ \E page \in {"list", "view", "new"}, op \in Ops \cup {NoOp} : OpenPage(page, op)
    \/ \E ns \in Namespaces : changeContext(ns)
    \/ \E ch \in Channels : selectChannel(ch)
    \/ \E mode \in BOOLEAN : setInstallationMode(mode)
    \/ \E c \in calls : \/ OLMAnswered(c) \/ OperatorsAnswered(c) \/ listSubscriptions(c)
                        \/ GroupsAnswered(c) \/ Subscribed(c) \/ CallFails(c)

Spec == Init /\ [][Next]_vars

-----------------------------------------------------------------------------
(* Properties *)

\* Every variable keeps its type.
TypeOK ==
    /\ store.fetching \subseteq {"OLM", "operator", "subscriptions", "csv"}
    /\ store.operator \in Ops \cup {NoOp} /\ store.subscriptions \subseteq Subscriptions
    /\ ui.form.channel \in Channels \cup {"no"} /\ ui.ns \in Namespaces
    /\ past.groups \in [Namespaces -> Nat] /\ past.errors <= MaxErrors

\* The operator that is subscribed to is that of the page, unless its answer is awaited or
\* another came late; and only a channel that supports it is subscribed to for all
\* namespaces, whatever the order of choices, operators and namespaces
\* (disableInstall, selectChannel and handleDeploy of OperatorNew).
SubscribesAsShown ==
    \A c \in calls : c.kind \in {"groups", "group", "subscribe"} =>
        /\ c.calm => c.op = c.url
        /\ c.ns = Global => global(c.op, c.channel)

\* No subscription is created in a namespace without an operator group
\* (createOperatorGroupIfNotExists).
GroupFirst == \A s \in past.subscriptions : past.groups[s.ns] > 0

\* When nothing is in flight nothing is loading, and a page shows its operator, or an error
\* that it has, with the subscriptions there are, unless a late answer was about another
\* or a list was read while one was created.
PageSettles ==
    calls = {} =>
        /\ store.fetching = {}
        /\ ui.page \in {"view", "new"} /\ ~past.stray =>
              store.errors.operator # "no" \/ store.operator = ui.op
        /\ ui.page \in {"list", "view"} /\ ~past.stray /\ ~past.old /\ store.olm /\ store.errors = NoErrors =>
              store.subscriptions = In(Global) \cup In(ui.ns)

\* createOperatorGroupIfNotExists: "An operatorgroup already exists, do nothing".
OneGroup == \A n \in Namespaces : past.groups[n] <= 1
=============================================================================
