---------------------------- MODULE Repositories ----------------------------
(***************************************************************************)
(* The page of package repositories (components/Config/PkgRepoList:        *)
(* PkgRepoList, PkgRepoControl, PkgRepoButton), with actions/repos.ts and  *)
(* reducers/repos.ts.  The fields of its form are the matter of RepoForm;  *)
(* here it is what it is filled with: the one repoDetail of the store.     *)
(***************************************************************************)
EXTENDS Naturals, FiniteSets

CONSTANTS NoRepo,
          Names,      \* of repositories
          Namespaces, \* the user may select
          Global,     \* helmGlobalNamespace, one of them
          All,        \* the namespace ""
          MaxMoves,   \* bound: what the user does
          MaxErrors   \* bound: requests that fail

VARIABLES
    store,  \* state.repos
    ui,     \* the browser: the current namespace, and the state of the page
    calls,  \* requests in flight
    past    \* bounds, history, and the cluster

vars  == <<store, ui, calls, past>>
Repos == [name : Names, ns : Namespaces]
Empty == [r \in Repos |-> 0]

ConstantsAssumption ==
    NoRepo \notin Repos /\ (\E n \in Namespaces : n # Global) /\ MaxErrors \in Nat

\* What getPackageRepositorySummaries answers: "" stands for every namespace.
Stored(ns) == [r \in Repos |-> IF r \in past.repos /\ ns \in {All, r.ns} THEN 1 ELSE 0]

NoModal == [of |-> "none", repo |-> NoRepo]

Init ==
    /\ store = [isFetching |-> FALSE, errors |-> {}, detail |-> NoRepo, list |-> Empty]
    /\ ui = [open |-> FALSE, ns |-> CHOOSE n \in Namespaces : n # Global, allNS |-> FALSE,
             modal |-> NoModal]
    /\ calls = {}
    /\ \E rs \in SUBSET Repos : Cardinality(rs) <= 2 /\
          past = [repos |-> rs, moves |-> 0, errors |-> 0, strange |-> FALSE, mixed |-> FALSE]

-----------------------------------------------------------------------------
(* reducers/repos.ts: list counts how often a repository is in reposSummaries *)

\* (mutant) The summaries do not end the spinner.
receiveStillFetching(s, l)  == [s EXCEPT !.errors = {}, !.list = l]

requestRepoSummaries(s)     == [s EXCEPT !.isFetching = TRUE]
addOrUpdateRepo(s)          == [s EXCEPT !.isFetching = TRUE]
requestReposPermissions(s)  == [s EXCEPT !.isFetching = TRUE]
receiveReposPermissions(s)  == [s EXCEPT !.isFetching = FALSE, !.errors = {}]
receiveRepoSummaries(s, l)  == [s EXCEPT !.isFetching = FALSE, !.errors = {}, !.list = l]
requestRepoDetail(s)        == [s EXCEPT !.detail = NoRepo, !.errors = {}]
receiveRepoDetail(s, r)     == [s EXCEPT !.isFetching = FALSE, !.errors = {}, !.detail = r]
addedRepo(s, r)             == [s EXCEPT !.isFetching = FALSE, !.list[r] = @ + 1]
repoUpdated(s)              == [s EXCEPT !.isFetching = FALSE]
errorRepos(s, op)           == [s EXCEPT !.isFetching = FALSE, !.errors = (@ \cap {"fetch"}) \cup {op}]
LocationChange(s)           == [s EXCEPT !.isFetching = FALSE, !.errors = {}]

\* uniqBy(_, "packageRepoRef.identifier"), an identifier being a name: those of the
\* namespace come first, and of others of one name any may.
UniqBy(mine, all) ==
    {l \in [Repos -> {0, 1}] :
        /\ \A r \in Repos : mine[r] = 1 => l[r] = 1
        /\ \A r \in Repos : l[r] = 1 => mine[r] = 1 \/ all[r] = 1
        /\ \A r, q \in Repos : l[r] = 1 /\ l[q] = 1 /\ r.name = q.name => r = q
        /\ \A r \in Repos : all[r] = 1 => \E q \in Repos : q.name = r.name /\ l[q] = 1}

-----------------------------------------------------------------------------
(* The page *)

Shown(u)   == IF u.allNS THEN All ELSE u.ns
Request(kind, ns, r) == [kind |-> kind, ns |-> ns, repo |-> r, first |-> Empty, as |-> NoModal]

\* refetchRepos, as the render with namespace ns made it; fetchRepoSummaries.
refetchRepos(ns) ==
    {IF ns \in {All, Global} THEN Request("list", All, NoRepo) ELSE Request("first", ns, NoRepo)}

\* What is unmounted with the list takes its dialogs with it; that of the header stays.
Keep(s, u) == IF (s.isFetching \/ "fetch" \in s.errors) /\ u.modal.of \in {"edit", "delete"}
              THEN [u EXCEPT !.modal = NoModal] ELSE u

Move  == past.moves < MaxMoves
Count == [past EXCEPT !.moves = @ + 1]

\* The effects of a page that shows namespace ns, mounted or not.
Fetched(s, u, p) ==
    LET s1 == requestReposPermissions(requestRepoSummaries(s))
    IN /\ store' = s1
       /\ ui' = Keep(s1, u)
       /\ calls' = calls \cup refetchRepos(Shown(u)) \cup {Request("permissions", Shown(u), NoRepo)}
       /\ past' = p

OpenPage == Move /\ ~ui.open /\ Fetched(store, [ui EXCEPT !.open = TRUE, !.allNS = FALSE], Count)

Leave ==
    /\ Move /\ ui.open
    /\ ui' = [ui EXCEPT !.open = FALSE, !.modal = NoModal]
    /\ past' = Count
    /\ UNCHANGED <<store, calls>>

\* Change Context, in the header.
changeContext(ns) ==
    /\ Move /\ ui.open /\ ns # ui.ns
    /\ LET u == [ui EXCEPT !.ns = ns]
       IN IF ui.allNS
          THEN /\ store' = LocationChange(store)
               /\ ui' = u
               /\ past' = Count
               /\ UNCHANGED calls
          ELSE Fetched(LocationChange(store), u, Count)

toggleListAllNS ==
    /\ Move /\ ui.open
    /\ Fetched(LocationChange(store), [ui EXCEPT !.allNS = ~@], Count)

\* The list, when it is there, with the buttons of a repository.
Listed(r) == /\ ui.open /\ ~store.isFetching /\ "fetch" \notin store.errors /\ store.list[r] > 0
             /\ r.ns = Global \/ Shown(ui) \in {All, r.ns}

openModal(m) ==
    /\ Move /\ ui.open /\ ui.modal = NoModal
    /\ m.of \in {"edit", "delete"} => Listed(m.repo)
    /\ store' = IF m.of = "delete" THEN store ELSE requestRepoDetail(store)
    /\ ui' = [ui EXCEPT !.modal = m]
    /\ calls' = calls \cup (IF m.of = "edit" THEN {Request("detail", m.repo.ns, m.repo)} ELSE {})
    /\ past' = [Count EXCEPT !.strange = FALSE]

closeModal ==
    /\ Move /\ ui.modal # NoModal
    /\ ui' = [ui EXCEPT !.modal = NoModal]
    /\ past' = Count
    /\ UNCHANGED <<store, calls>>

\* The button of a repository that is not ready.
Refresh(r) ==
    /\ Move /\ Listed(r) /\ ui.modal = NoModal
    /\ store' = requestRepoSummaries(store)
    /\ ui' = ui
    /\ calls' = calls \cup refetchRepos(Shown(ui))
    /\ past' = Count

-----------------------------------------------------------------------------
(* Operations *)

\* What the form sends: the name of the detail it was filled with, in the namespace of the
\* repository it was opened for unless that detail is of a global one.
Target(m) == [name |-> store.detail.name,
              ns   |-> IF store.detail.ns = Global THEN Global ELSE m.repo.ns]

Send(op, r, m) == {[Request(op, Shown(ui), r) EXCEPT !.as = m]}

updateRepo ==
    /\ Move /\ ui.modal.of = "edit" /\ store.detail # NoRepo
    /\ store' = addOrUpdateRepo(store)
    /\ ui' = Keep(store', ui)
    /\ calls' = calls \cup Send("update", Target(ui.modal), [ui.modal EXCEPT !.of =
                                   IF past.strange THEN "strange" ELSE "edit"])
    /\ past' = Count

\* The user names one that is new, in the namespace or globally.
addRepo(r) ==
    /\ Move /\ ui.modal.of = "add" /\ store.detail = NoRepo /\ ~store.isFetching
    /\ r \notin past.repos /\ r.ns \in {ui.ns, Global}
    /\ \A c \in calls : c.kind # "add"
    /\ store' = addOrUpdateRepo(store)
    /\ ui' = Keep(store', ui)
    /\ calls' = calls \cup Send("add", r, ui.modal)
    /\ past' = Count

deleteRepo ==
    /\ Move /\ ui.modal.of = "delete"
    /\ calls' = calls \cup Send("delete", ui.modal.repo, ui.modal)
    /\ past' = Count
    /\ UNCHANGED <<store, ui>>

-----------------------------------------------------------------------------
(* Answers *)

Operations == {"add", "added", "update", "delete"}
Mixed      == \E c \in calls : c.kind \in Operations
Reading    == \E c \in calls : c.kind = "second"

Answer(c, s, u, cs, p) ==
    /\ store' = s
    /\ ui' = Keep(s, u)
    /\ calls' = (calls \ {c}) \cup cs
    /\ past' = p

\* The list of a namespace, whose global repositories are asked for next, with "".
FirstAnswered(c) ==
    /\ c.kind = "first"
    /\ Answer(c, requestRepoSummaries(store), ui,
              {[Request("second", c.ns, NoRepo) EXCEPT !.first = Stored(c.ns)]},
              [past EXCEPT !.mixed = @ \/ Mixed])

ListAnswered(c) ==
    /\ c.kind \in {"list", "second"}
    /\ \E l \in IF c.kind = "list" THEN {Stored(All)} ELSE UniqBy(c.first, Stored(All)) :
          Answer(c, receiveRepoSummaries(store, l), ui, {}, [past EXCEPT !.mixed = @ \/ Mixed])

PermissionsAnswered(c) ==
    /\ c.kind = "permissions"
    /\ Answer(c, receiveReposPermissions(store), ui, {}, past)

\* Whichever form is open is filled with it.
DetailAnswered(c) ==
    /\ c.kind = "detail" /\ c.repo \in past.repos
    /\ Answer(c, receiveRepoDetail(store, c.repo), ui, {},
              [past EXCEPT !.strange = @ \/ ui.modal.repo # c.repo])

\* It is added, then its detail is asked for.
AddAnswered(c) ==
    /\ c.kind = "add" /\ c.repo \notin past.repos
    /\ Answer(c, store, ui, {[c EXCEPT !.kind = "added"]}, 
              [past EXCEPT !.repos = @ \cup {c.repo}, !.mixed = @ \/ Reading])

Added(c) ==
    /\ c.kind = "added" /\ c.repo \in past.repos
    /\ Answer(c, addedRepo(store, c.repo), [ui EXCEPT !.modal = IF @ = c.as THEN NoModal ELSE @],
              {}, past)

Updated(c) ==
    /\ c.kind = "update" /\ c.repo \in past.repos
    /\ Answer(c, repoUpdated(store), ui, {}, past)

\* The list is fetched again as it was when the button was rendered.
Deleted(c) ==
    /\ c.kind = "delete"
    /\ LET s == requestRepoSummaries(store)
       IN Answer(c, s, [ui EXCEPT !.modal = IF @ = c.as THEN NoModal ELSE @], refetchRepos(c.ns),
                 [past EXCEPT !.repos = @ \ {c.repo}, !.mixed = @ \/ Reading])

OpOf(c) == CASE c.kind \in {"add", "added"} -> "create"
             [] c.kind = "update" -> "update"
             [] c.kind = "delete" -> "delete"
             [] OTHER             -> "fetch"

\* A request fails: of itself, or since its repository is gone.
CallFails(c) ==
    LET gone == c.repo # NoRepo /\ c.repo \notin past.repos /\ c.kind \notin {"add", "delete"}
    IN /\ gone \/ past.errors < MaxErrors
       /\ Answer(c, errorRepos(store, OpOf(c)),
                 IF c.kind = "delete" /\ ui.modal = c.as THEN [ui EXCEPT !.modal = NoModal] ELSE ui, {},
                 [past EXCEPT !.errors = IF gone THEN @ ELSE @ + 1,
                              !.mixed = @ \/ c.kind = "added"])

Modals == {[of |-> "add", repo |-> NoRepo]} \cup [of : {"edit", "delete"}, repo : Repos]

User == \/ OpenPage \/ Leave \/ toggleListAllNS \/ closeModal \/ updateRepo \/ deleteRepo
        \/ \E ns \in Namespaces : changeContext(ns)
        \/ \E m \in Modals : openModal(m)
        \/ \E r \in Repos : addRepo(r) \/ Refresh(r)

Answered(c) == \/ FirstAnswered(c) \/ ListAnswered(c) \/ PermissionsAnswered(c) \/ DetailAnswered(c)
               \/ AddAnswered(c) \/ Added(c) \/ Updated(c) \/ Deleted(c) \/ CallFails(c)

Next == User \/ \E c \in calls : Answered(c)
Spec == Init /\ [][Next]_vars

-----------------------------------------------------------------------------
(* Properties *)

\* Every variable keeps its type.
TypeOK ==
    /\ store.isFetching \in BOOLEAN /\ store.errors \subseteq {"fetch", "create", "update", "delete"}
    /\ \A e, f \in store.errors \ {"fetch"} : e = f
    /\ store.list \in [Repos -> Nat] /\ store.detail \in Repos \cup {NoRepo}
    /\ ui.ns \in Namespaces /\ ui.modal \in Modals \cup {NoModal}
    /\ past.repos \subseteq Repos /\ past.errors <= MaxErrors

\* The form updates the repository that it was opened for, whichever was open before: the
\* detail of another can only come from an answer that is late (PkgRepoButton.tsx:40).
UpdatesWhatWasOpened ==
    \A c \in calls : c.kind = "update" /\ c.as.of = "edit" => c.repo = c.as.repo

\* The global repositories, and those of the namespace.
Visible(l) == {r \in Repos : l[r] > 0 /\ (r.ns = Global \/ Shown(ui) \in {All, r.ns})}
Alone(r)   == \A q \in past.repos : q.name = r.name => q = r

\* When everything is answered the page is not loading, and lists once each repository
\* that exists and is to be shown, and no other, whichever namespace the last answer was
\* for: but for names that occur twice (actions/repos.ts:109), for a list that was read
\* while something was added, and for what failed.
ListIsCurrent ==
    (ui.open /\ calls = {} /\ ~past.mixed /\ past.errors = 0) =>
        /\ ~store.isFetching
        /\ \A r \in Repos : store.list[r] <= 1
        /\ \A r \in past.repos : Alone(r) /\ r \in Visible(Stored(All)) => r \in Visible(store.list)
        /\ Visible(store.list) \subseteq past.repos

\* "shows an error updating a repo" (PkgRepoForm.test.tsx:209): the form that shows it is there.
UpdateErrorShown == "update" \in store.errors /\ ui.open => ui.modal.of \in {"edit", "add"}
=============================================================================
