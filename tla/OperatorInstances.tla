-------------------------- MODULE OperatorInstances --------------------------
(***************************************************************************)
(* The pages of the instances of an operator: OperatorInstance (view),     *)
(* OperatorInstanceForm (new), OperatorInstanceUpdateForm (update) with    *)
(* OperatorInstanceFormBody, and the list of resources of AppList; with    *)
(* actions/operators.ts and reducers/operators.ts.  There is one operator  *)
(* and one kind.  The effects of a render are part of the step that        *)
(* caused it.                                                              *)
(***************************************************************************)
EXTENDS Naturals, FiniteSets

CONSTANTS NoRes, Blank,
          Instances,  \* names
          Existing,   \* those there are at first
          MaxMoves,   \* bound: pages the user opens, and edits
          MaxSends,   \* bound: operations
          MaxErrors   \* bound: requests that fail

VARIABLES
    store,  \* state.operators
    ui,     \* the page, its URL, and the state of its components
    calls,  \* requests in flight
    past    \* bounds, history, and the cluster

vars == <<store, ui, calls, past>>

\* What an instance is: not there, deployed, changed by others, edited by the user, the
\* example, the example as the user edited it.
Specs   == 0..5
Body    == [of : Instances, spec : Specs]

ConstantsAssumption ==
    /\ Instances # {} /\ NoRes \notin Instances /\ MaxErrors \in Nat
    /\ NoRes \notin Body /\ Blank \notin Body
Example == [of |-> CHOOSE i \in Instances : TRUE, spec |-> 4]

Edited(i, v) == [of |-> i, spec |-> IF v.spec \in {4, 5} THEN 5 ELSE 3]

NoPage == [page |-> "other", inst |-> NoRes, crd |-> FALSE, default |-> Blank, current |-> Blank,
           values |-> Blank, typed |-> FALSE, dialog |-> "closed"]

Init ==
    /\ store = [fetching |-> {}, csv |-> FALSE, resource |-> NoRes, resources |-> {},
                errors |-> [csv |-> "no", resource |-> "no"]]
    /\ ui = NoPage
    /\ calls = {}
    /\ past = [cluster |-> [i \in Instances |-> IF i \in Existing THEN 1 ELSE 0],
               moves |-> 0, sends |-> 0, errors |-> 0, stray |-> FALSE]

-----------------------------------------------------------------------------
(* reducers/operators.ts: of the flags of isFetchingElem, those that are set *)

Fetching(s, e)                == [s EXCEPT !.fetching = @ \cup {e}]
StillFetching(s, e)           == s   \* (mutant) an answer does not end the spinner
Fetched(s, e)                 == [s EXCEPT !.fetching = @ \ {e}]
receiveCSV(s)                 == [Fetched(s, "csv") EXCEPT !.csv = TRUE]
errorCSVs(s)                  == [Fetched(s, "csv") EXCEPT !.csv = FALSE, !.errors.csv = "fetch"]
receiveCustomResources(s, is) == [Fetched(s, "resource") EXCEPT !.resources = is]
errorCustomResource(s)        == [Fetched(s, "resource") EXCEPT !.resource = NoRes,
                                                               !.errors.resource = "fetch"]
LocationChange(s)             == [s EXCEPT !.errors = [csv |-> "no", resource |-> "no"]]

receiveCustomResource(s, r) == [Fetched(s, "resource") EXCEPT !.resource = r]

\* (mutant) Like a request that failed to read it.
errorForgets(s, op) ==
    [Fetched(s, "resource") EXCEPT !.errors.resource = op, !.resource = NoRes]

errorResource(s, op) == [Fetched(s, "resource") EXCEPT !.errors.resource = op]

-----------------------------------------------------------------------------
(* Components *)

\* There is a form body, even if it is a spinner.
HasForm(s, u) ==
    \/ /\ u.page = "update" /\ s.errors.resource # "fetch"
       /\ s.fetching # {} \/ s.resource # NoRes
    \/ /\ u.page = "new" /\ s.errors.csv = "no"
       /\ s.fetching # {} \/ u.crd

\* The effects: parseCSV on a new csv, the text of a new resource, and the values of the
\* form when one of the two texts it starts from has changed, or when it is mounted.
Effects(s, u, csv, res) ==
    LET new == csv /\ s.csv /\ u.page \in {"view", "new", "update"}
        v   == [u EXCEPT !.crd = @ \/ new,
                         !.default = IF new /\ u.page # "view" THEN Example ELSE @,
                         !.current = IF res /\ s.resource # NoRes /\ u.page = "update"
                                     THEN s.resource ELSE @]
        start == IF v.current # Blank THEN v.current ELSE v.default
    IN CASE ~HasForm(s, v) -> [v EXCEPT !.values = Blank]
         [] HasForm(s, v) /\ (\/ v.values = Blank
                              \/ <<v.default, v.current>> # <<u.default, u.current>>) ->
               [v EXCEPT !.values = start]
         [] OTHER -> v

\* n tells the requests of one page from those of another.
Call(kind, i) ==
    [kind |-> kind, inst |-> i, body |-> Blank, url |-> i, calm |-> TRUE, n |-> past.moves]

\* A page is opened, with what its first effect asks for: getResource and getCSV of an
\* instance, the csv of the form of a new one, getResources of the list.
Opened(s0, page, i, cs, p) ==
    LET s1 == LocationChange(s0)
        s  == CASE page \in {"view", "update"} -> Fetching(Fetching(s1, "resource"), "csv")
                [] page = "new"                -> Fetching(s1, "csv")
                [] page = "list"               -> Fetching(Fetching(s1, "resource"), "csv")
        stays == page = ui.page /\ page = "view"
        u  == [NoPage EXCEPT !.page = page, !.inst = i, !.crd = stays /\ ui.crd,
                             !.dialog = IF stays THEN ui.dialog ELSE "closed"]
    IN /\ store' = s
       /\ ui' = Effects(s, u, TRUE, TRUE)
       /\ calls' = cs \cup (CASE page \in {"view", "update"} -> {Call("rcsv", i), Call("csv", i)}
                              [] page = "new"                -> {Call("csv", NoRes)}
                              [] page = "list"               -> {Call("csvs", NoRes)})
       /\ past' = [p EXCEPT !.stray = FALSE]

-----------------------------------------------------------------------------
(* The user *)

Move  == past.moves < MaxMoves
Count == [past EXCEPT !.moves = @ + 1]
Sends == past.sends < MaxSends /\ past' = [past EXCEPT !.sends = @ + 1]
Reading == \E c \in calls : c.kind \in {"rcsv", "res"}

\* By a link of the list, by Update, or by the address.
OpenPage(page, i) ==
    /\ Move /\ <<ui.page, ui.inst>> # <<page, i>>
    /\ page = "update" => ui.page = "view" /\ ui.inst = i
    /\ i = NoRes <=> page \in {"list", "new"}
    /\ Opened(store, page, i, calls, Count)

handleValuesChange(i) ==
    /\ Move /\ HasForm(store, ui) /\ store.fetching = {} /\ ui.values # Blank
    /\ ui.page = "update" => i = ui.values.of
    /\ ui' = [ui EXCEPT !.values = Edited(i, ui.values), !.typed = calls = {}]
    /\ past' = Count
    /\ UNCHANGED <<store, calls>>

restoreDefaultValues ==
    /\ Move /\ HasForm(store, ui) /\ store.fetching = {} /\ ui.default # Blank
    /\ ui' = [ui EXCEPT !.values = ui.default, !.typed = FALSE]
    /\ past' = Count
    /\ UNCHANGED <<store, calls>>

\* parseAndDeploy and handleDeploy of the two forms.  A name or a page that is wrong is
\* the server's to refuse.
handleDeploy ==
    /\ Sends /\ HasForm(store, ui) /\ store.fetching = {} /\ ui.values # Blank
    /\ ui.page = "new" => ui.crd /\ store.csv
    /\ store' = Fetching(store, "resource")
    /\ calls' = calls \cup
          {[Call(IF ui.page = "new" THEN "create" ELSE "update",
                 IF ui.page = "new" THEN ui.values.of ELSE ui.inst)
               EXCEPT !.body = ui.values, !.url = ui.inst, !.calm = ~Reading /\ ~past.stray]}
    /\ UNCHANGED ui

\* The header, with the button that opens the dialog, is there while the rest is loading.
\* Without a crd or a resource handleDeleteClick throws, and the dialog goes on loading.
handleDeleteClick ==
    /\ Sends /\ ui.page = "view" /\ store.errors.resource # "fetch" /\ ui.dialog = "closed"
    /\ IF ui.crd /\ store.resource # NoRes
       THEN /\ store' = Fetching(store, "resource")
            /\ calls' = calls \cup {[Call("delete", store.resource.of) EXCEPT !.url = ui.inst,
                                                           !.calm = ~Reading /\ ~past.stray]}
            /\ ui' = [ui EXCEPT !.dialog = "deleting"]
       ELSE /\ ui' = [ui EXCEPT !.dialog = "broken"]
            /\ UNCHANGED <<store, calls>>

-----------------------------------------------------------------------------
(* Answers *)

Answer(c, s, csv, res, cs, p) ==
    /\ store' = s
    /\ ui' = Effects(s, ui, csv, res)
    /\ calls' = (calls \ {c}) \cup cs
    /\ past' = p

\* The answer of a request for an instance that the page is no longer about, and the
\* failure of an operation of a page that was left.
Strays(c) ==
    LET page == CASE c.kind = "create" -> {"new"}
                  [] c.kind = "update" -> {"update"}
                  [] c.kind = "delete" -> {"view"}
                  [] OTHER             -> {"view", "update"}
    IN [past EXCEPT !.stray = @ \/ (ui.page \in {"view", "update"}
                                      /\ (ui.page \notin page \/ c.url # ui.inst))]

\* getCSV, by itself or as the first step of getResource.
CSVAnswered(c) ==
    /\ c.kind \in {"csv", "rcsv"}
    /\ Answer(c, receiveCSV(store), TRUE, FALSE,
              IF c.kind = "rcsv" THEN {Call("res", c.inst)} ELSE {}, past)

ResourceAnswered(c) ==
    /\ c.kind = "res" /\ past.cluster[c.inst] # 0
    /\ Answer(c, receiveCustomResource(store, [of |-> c.inst, spec |-> past.cluster[c.inst]]),
              FALSE, TRUE, {}, Strays(c))

\* getResources: receiveCSVs, then the resources of its kind.
ListAnswered(c) ==
    \/ /\ c.kind = "csvs"
       /\ Answer(c, Fetched(store, "csv"), FALSE, FALSE, {Call("items", NoRes)}, past)
    \/ /\ c.kind = "items"
       /\ Answer(c, receiveCustomResources(store, {i \in Instances : past.cluster[i] # 0}),
                 FALSE, FALSE, {}, past)

\* It is created or updated; then the page of the instance is opened, wherever the user is.
Deployed(c) ==
    /\ \/ c.kind = "create" /\ past.cluster[c.inst] = 0
       \/ c.kind = "update" /\ past.cluster[c.inst] # 0 /\ c.body.of = c.inst
    /\ Opened(Fetched(store, "resource"), "view", c.inst, calls \ {c},
              [past EXCEPT !.cluster[c.inst] = c.body.spec])

\* ... and the list, when it is deleted.
Deleted(c) ==
    /\ c.kind = "delete" /\ past.cluster[c.inst] # 0
    /\ Opened(Fetched(store, "resource"), "list", NoRes, calls \ {c},
              [past EXCEPT !.cluster[c.inst] = 0])

Impossible(c) ==
    \/ c.kind \in {"res", "delete"} /\ past.cluster[c.inst] = 0
    \/ c.kind = "create" /\ past.cluster[c.inst] # 0
    \/ c.kind = "update" /\ (past.cluster[c.inst] = 0 \/ c.body.of # c.inst)

\* A request fails, of itself or for what the cluster holds.
CallFails(c) ==
    LET p == [Strays(c) EXCEPT !.errors = IF Impossible(c) THEN @ ELSE @ + 1]
    IN /\ Impossible(c) \/ past.errors < MaxErrors
       /\ \/ /\ c.kind = "csv"
             /\ Answer(c, errorCSVs(store), TRUE, FALSE, {}, p)
          \/ /\ c.kind = "rcsv"
             /\ Answer(c, errorCustomResource(errorCSVs(store)), TRUE, TRUE, {}, p)
          \/ /\ c.kind = "res"
             /\ Answer(c, errorCustomResource(store), FALSE, TRUE, {}, p)
          \/ /\ c.kind = "csvs"    \* then it has no resources
             /\ Answer(c, receiveCustomResources(errorCSVs(store), {}), TRUE, FALSE, {}, p)
          \/ /\ c.kind = "items"   \* those of the other kinds
             /\ Answer(c, receiveCustomResources(errorCustomResource(store), {}), FALSE, TRUE, {}, p)
          \/ /\ c.kind \in {"create", "update"}
             /\ Answer(c, errorResource(store, c.kind), FALSE, FALSE, {}, p)
          \/ /\ c.kind = "delete"
             /\ store' = errorResource(store, "delete")
             /\ ui' = [ui EXCEPT !.dialog = IF @ = "deleting" THEN "closed" ELSE @]
             /\ calls' = calls \ {c}
             /\ past' = p

\* Somebody else, or the operator itself.
ResourceChanges(i) ==
    /\ past.cluster[i] = 1
    /\ past' = [past EXCEPT !.cluster[i] = 2]
    /\ UNCHANGED <<store, ui, calls>>

Next ==
    \/ restoreDefaultValues \/ handleDeploy \/ handleDeleteClick
    \/ \E page \in {"view", "update", "new", "list"}, i \in Instances \cup {NoRes} : OpenPage(page, i)
    \/ \E i \in Instances : handleValuesChange(i) \/ ResourceChanges(i)
    \/ \E c \in calls : \/ CSVAnswered(c) \/ ResourceAnswered(c) \/ ListAnswered(c)
                        \/ Deployed(c) \/ Deleted(c) \/ CallFails(c)

Spec == Init /\ [][Next]_vars

-----------------------------------------------------------------------------
(* Properties *)

\* Every variable keeps its type.
TypeOK ==
    /\ store.fetching \subseteq {"csv", "resource"} /\ store.resources \subseteq Instances
    /\ store.resource \in Body \cup {NoRes}
    /\ {ui.default, ui.current, ui.values} \subseteq Body \cup {Blank}
    /\ past.cluster \in [Instances -> Specs] /\ past.errors <= MaxErrors
    /\ \A c \in calls : c.inst \in Instances \cup {NoRes}

\* What is sent for the instance of a page is about that instance, unless its resource is
\* still awaited, or a late answer put another in its place: the store has one resource
\* for all pages (handleDeleteClick of OperatorInstance, OperatorInstanceUpdateForm).  The
\* example, which Restore Defaults puts in the form of an update, has a name of its own,
\* and keeps it when it is edited.
ActsOnUrlInstance ==
    \A c \in calls :
        /\ c.kind = "delete" /\ c.calm => c.inst = c.url
        /\ c.kind = "update" /\ c.calm => c.body.of = c.url \/ c.body \in {Example, Edited(Example.of, Example)}

\* What the user typed while nothing was in flight stays in the form through deployments
\* that fail (OperatorInstanceFormBody, mounted under isFetching).
EditsKept == ui.typed => HasForm(store, ui) /\ ui.values.spec \in {3, 5}

\* When nothing is in flight nothing is loading, and the page shows its instance or an
\* error, unless a late answer, or a failure, was about something else.
PageSettles ==
    calls = {} =>
        /\ store.fetching = {}
        /\ ui.dialog # "deleting"
        /\ ui.page \in {"view", "update"} /\ ~past.stray =>
              \/ store.errors.resource # "no"
              \/ store.resource # NoRes /\ store.resource.of = ui.inst
        /\ ui.page = "list" /\ past.errors = 0 =>
              store.resources = {i \in Instances : past.cluster[i] # 0}
=============================================================================
