----------------------------- MODULE ValuesForm -----------------------------
(***************************************************************************)
(* The values of a package, as the forms edit them: DeploymentFormBody     *)
(* with its visual editor (BasicDeploymentForm and the inputs of Params)   *)
(* and its YAML editor, inside DeploymentForm or UpgradeForm.  A values    *)
(* file is a function from parameters, without those left out it is Empty. *)
(* An input of the visual editor waits for a debounce and then records its *)
(* value in unsavedChangesMap; saveAllChanges puts the map into the values.*)
(***************************************************************************)
EXTENDS Naturals, Sequences

CONSTANTS Debounced,   \* parameters with a TextParam or a SliderParam
          Immediate,   \* parameters with a BooleanParam
          ArrayParam,  \* the parameter with an ArrayParam
          Values,      \* what can be typed
          Unset,       \* a parameter that a values file does not have
          Nothing,     \* no entry in unsavedChangesMap, no timer, no request
          Versions,
          Default,     \* Default[v]: the package's values of a version
          Deployed,    \* the version that is installed, of the upgrade form
          Applied,     \* ... and the values it was installed with
          MaxMoves     \* bound: what the user does

Params == Debounced \cup Immediate \cup {ArrayParam}
Empty  == [p \in Params |-> Unset]

\* A parameter has one kind of input; what is typed, or given, is something.
ConstantsAssumption ==
    /\ Debounced \cap Immediate = {} /\ ArrayParam \notin Debounced \cup Immediate
    /\ {Nothing, Unset} \cap (Values \cup Seq(Values)) = {} /\ Nothing # Unset
    /\ Deployed \in Versions
    /\ \A values \in {Default[v] : v \in Versions} \cup {Applied} :
          values = [p \in Params |-> values[p]] /\ \A p \in Params : values[p] # Nothing

VARIABLES
    store,  \* the selected version, and what was sent to the server
    ui,     \* the forms
    calls,  \* calls[p]: the value that waits in the debounce of p's input
    past    \* bounds and history

vars == <<store, ui, calls, past>>

-----------------------------------------------------------------------------
(* What the parent container makes of the package's values *)

\* (mutant) The modifications of the release are forgotten.
NoModifications == {}

\* UpgradeForm: what the installed release changed, of its package's values.  None are
\* found when these are empty.
Modifications == IF Default[Deployed] = Empty \/ Applied = Empty THEN {}
                 ELSE {p \in Params : Applied[p] # Default[Deployed][p]}

applyModifications(mods, values) == [p \in Params |-> IF p \in mods THEN Applied[p] ELSE values[p]]

\* appValues of a new form, and of one that was not modified when the version changes.
FreshValues(event, v) ==
    IF event = "install" THEN Default[v]
    ELSE IF Default[v] # Empty THEN applyModifications(Modifications, Default[v])
    ELSE IF Default[Deployed] # Empty /\ Applied # Empty THEN Applied
    ELSE Empty

-----------------------------------------------------------------------------
(* DeploymentFormBody, as a part of ui.  Its nodes are parsed from values that are
   not empty. *)

SetValues(u, values) == [u EXCEPT !.values = values, !.nodes = IF values = Empty THEN @ ELSE values]

\* Inputs are mounted anew whenever the table is rendered; an ArrayParam starts
\* with no items, whatever the values are.
Rendered(u) == [u EXCEPT !.items = <<>>]

NoChanges == [p \in Params |-> Nothing]

\* The changes of the map are put into the values.  Without its other half this is also
\* the mutant of saveAllChanges that does not mark the values as modified by the user.
saveUnmarked(u) ==
    IF u.unsaved = NoChanges THEN u
    ELSE Rendered([SetValues(u, [p \in Params |-> IF u.unsaved[p] # Nothing THEN u.unsaved[p]
                                                                            ELSE u.nodes[p]])
                   EXCEPT !.unsaved = NoChanges])

saveAllChanges(u) ==
    [saveUnmarked(u) EXCEPT !.valuesModified = @ \/ u.unsaved # NoChanges]

\* The table shows the defaults again; unsavedChangesMap stays.
restoreDefaultValues(u, v) == Rendered(SetValues(u, Default[v]))

NewBody(u, values) ==
    [event |-> u.event, page |-> "form", tab |-> "visual", values |-> values, nodes |-> values,
     valuesModified |-> FALSE, unsaved |-> NoChanges, items |-> <<>>]

Init ==
    /\ \E event \in {"install", "upgrade"} :
          ui = NewBody([event |-> event], FreshValues(event, Deployed))
    /\ store = [version |-> Deployed, sent |-> Nothing]
    /\ calls = NoChanges
    /\ past = [moves |-> 0, wanted |-> NoChanges, spoiled |-> {}, base |-> Deployed]

-----------------------------------------------------------------------------
(* The inputs of the visual editor *)

Move == ui.page = "form" /\ past.moves < MaxMoves

\* TextParam and SliderParam.
onChange(p, x) ==
    /\ Move /\ ui.tab = "visual" /\ p \in Debounced
    /\ calls' = [calls EXCEPT ![p] = x]
    /\ past' = [past EXCEPT !.moves = @ + 1, !.wanted[p] = x]
    /\ UNCHANGED <<store, ui>>

\* BooleanParam has no debounce.
onToggle(p, x) ==
    /\ Move /\ ui.tab = "visual" /\ p \in Immediate
    /\ ui' = [ui EXCEPT !.unsaved[p] = x]
    /\ past' = [past EXCEPT !.moves = @ + 1, !.wanted[p] = x]
    /\ UNCHANGED <<store, calls>>

\* ArrayParam: an item is added, or changed.
onChangeArrayItem(x) ==
    /\ Move /\ ui.tab = "visual"
    /\ \E items \in {Append(ui.items, x)} \cup
                    {[ui.items EXCEPT ![i] = x] : i \in 1..Len(ui.items)} :
          /\ ui' = [ui EXCEPT !.items = items]
          /\ calls' = [calls EXCEPT ![ArrayParam] = items]
          /\ past' = [past EXCEPT !.moves = @ + 1, !.wanted[ArrayParam] = items]
    /\ UNCHANGED store

\* ... and deleted, which is not told to the form.
onDeleteArrayItem ==
    /\ Move /\ ui.tab = "visual" /\ ui.items # <<>>
    /\ LET items == SubSeq(ui.items, 1, Len(ui.items) - 1)
       IN /\ ui' = [ui EXCEPT !.items = items]
          /\ past' = [past EXCEPT !.moves = @ + 1, !.wanted[ArrayParam] = items,
                                  !.spoiled = @ \cup {ArrayParam}]
    /\ UNCHANGED <<store, calls>>

\* 500 ms later: handleTableChange, whatever is shown by now.
DebounceEnds(p) ==
    /\ calls[p] # Nothing
    /\ ui' = IF ui.page = "form" THEN [ui EXCEPT !.unsaved[p] = calls[p]] ELSE ui
    /\ calls' = [calls EXCEPT ![p] = Nothing]
    /\ UNCHANGED <<store, past>>

-----------------------------------------------------------------------------
(* The buttons and tabs *)

InDebounce == {p \in Params : calls[p] # Nothing}
Unsaved    == {p \in Params : ui.unsaved[p] # Nothing}

\* The link that saves, and the pages and the search of the table.
Save ==
    /\ Move
    /\ ui' = Rendered(saveAllChanges(ui))
    /\ past' = [past EXCEPT !.moves = @ + 1, !.spoiled = @ \cup InDebounce]
    /\ UNCHANGED <<store, calls>>

\* The tab of the YAML editor saves; that of the visual editor renders the table anew.
SwitchTab(tab) ==
    /\ Move /\ tab # ui.tab
    /\ ui' = IF tab = "yaml" THEN [saveAllChanges(ui) EXCEPT !.tab = tab]
                             ELSE Rendered([ui EXCEPT !.tab = tab])
    /\ past' = [past EXCEPT !.moves = @ + 1, !.spoiled = @ \cup InDebounce]
    /\ UNCHANGED <<store, calls>>

handleYAMLEditorChange(p, x) ==
    /\ Move /\ ui.tab = "yaml"
    /\ ui' = [SetValues(ui, [ui.values EXCEPT ![p] = x]) EXCEPT !.valuesModified = TRUE]
    /\ past' = [past EXCEPT !.moves = @ + 1, !.wanted[p] = x]
    /\ UNCHANGED <<store, calls>>

Restore ==
    /\ Move
    /\ ui' = restoreDefaultValues(ui, store.version)
    /\ past' = [past EXCEPT !.moves = @ + 1, !.base = store.version,
                            !.wanted = IF ui.event = "install" /\ ~ui.valuesModified
                                       THEN NoChanges ELSE Default[store.version],
                            !.spoiled = @ \cup InDebounce \cup Unsaved]
    /\ UNCHANGED <<store, calls>>

\* Another version is chosen, and answered.  DeploymentForm stays mounted and keeps what
\* was modified; AppUpgrade shows a spinner in the place of UpgradeForm, which loses all.
SelectVersion(v) ==
    /\ Move /\ v # store.version
    /\ store' = [store EXCEPT !.version = v]
    /\ ui' = IF ui.event = "upgrade" THEN NewBody(ui, FreshValues("upgrade", v))
             ELSE IF ui.valuesModified THEN Rendered(ui)
             ELSE Rendered(SetValues(ui, FreshValues("install", v)))
    /\ past' = IF ui.event = "upgrade"
               THEN [past EXCEPT !.moves = @ + 1, !.wanted = NoChanges, !.base = v,
                                 !.spoiled = InDebounce]
               ELSE [past EXCEPT !.moves = @ + 1, !.base = IF ui.valuesModified THEN @ ELSE v]
    /\ UNCHANGED calls

\* All is saved, and submitted with the next render.
handleDeployClick ==
    /\ Move
    /\ ui' = [saveAllChanges(ui) EXCEPT !.page = "deploying"]
    /\ store' = [store EXCEPT !.sent = ui'.values]
    /\ past' = [past EXCEPT !.moves = @ + 1, !.spoiled = @ \cup InDebounce]
    /\ UNCHANGED calls

\* The form is shown again with its values; a new DeploymentFormBody parses them.
DeployFails ==
    /\ ui.page = "deploying"
    /\ ui' = [NewBody(ui, ui.values) EXCEPT !.valuesModified = ui.valuesModified]
    /\ store' = [store EXCEPT !.sent = Nothing]
    /\ UNCHANGED <<calls, past>>

-----------------------------------------------------------------------------
Next == \/ \E p \in Params : DebounceEnds(p)
        \/ \E p \in Params, x \in Values :
              onChange(p, x) \/ onToggle(p, x) \/ handleYAMLEditorChange(p, x)
        \/ \E x \in Values : onChangeArrayItem(x)
        \/ \E tab \in {"visual", "yaml"} : SwitchTab(tab)
        \/ \E v \in Versions : SelectVersion(v)
        \/ Save \/ onDeleteArrayItem \/ Restore \/ handleDeployClick \/ DeployFails

Spec == Init /\ [][Next]_vars

-----------------------------------------------------------------------------
(* Properties *)

\* Every variable keeps its type.
TypeOK ==
    /\ store.version \in Versions /\ ui.page \in {"form", "deploying"}
    /\ \A values \in {ui.values, ui.nodes, ui.unsaved, calls, past.wanted} : DOMAIN values = Params
    /\ ui.valuesModified \in BOOLEAN /\ ui.items \in Seq(Values)

Sent == store.sent # Nothing

\* The nodes of the table follow the values, unless these became empty
\* (DeploymentFormBody.tsx:128).
Fresh == Default[past.base] # Empty

\* What the user last entered for a parameter, in either editor, is what is sent, if no
\* debounce was cut short by a save, no item of an array was deleted, and no change was
\* unsaved when the defaults were restored.
SendsEdits ==
    Sent /\ Fresh =>
        \A p \in Params \ past.spoiled : past.wanted[p] # Nothing => store.sent[p] = past.wanted[p]

\* ... and without the exceptions: "The unsaved changes will automatically be applied
\* before deploying" (DeploymentFormBody.tsx:381)
SendsAllEdits ==
    Sent => \A p \in Params : past.wanted[p] # Nothing => store.sent[p] = past.wanted[p]

\* A parameter the user did not touch has the value that it has in the version the form
\* showed when he changed the first, and the one the release was installed with if this
\* was another than its package's.
KeepsTheRest ==
    Sent /\ Fresh => \A p \in Params : past.wanted[p] = Nothing /\ p \notin past.spoiled =>
                          store.sent[p] = FreshValues(ui.event, past.base)[p]
=============================================================================
