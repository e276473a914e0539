------------------------------- MODULE Session -------------------------------
(***************************************************************************)
(* The session of the dashboard and its context: actions/auth.ts,          *)
(* actions/namespace.ts and getConfig, their reducers, hooks/push.tsx,     *)
(* shared/Auth.ts and shared/Namespace.ts, LoginForm,                      *)
(* RequireAuthentication, Header, ContextSelector and the routes, whose    *)
(* pages all name a context.  Users log in with a token, or with           *)
(* OIDC by a cookie of the auth proxy.  The effects of a render, and the   *)
(* redirections of the router, are part of the step that caused it.        *)
(***************************************************************************)
EXTENDS Naturals

CONSTANTS Nobody, NoNS,
          Users,        \* each with one token, or one cookie
          Default,      \* the cluster "default"
          Clusters,     \* those of the configuration
          First,        \* the first of them
          Namespaces,
          Access,       \* the namespaces of a user in a cluster, at first
          Home,         \* the namespace a token is of, or NoNS
          MaxMoves,     \* bound: what the user does, reloads, and tokens that expire
          MaxTurns      \* bound: of these, changes of the URL of a page and namespaces to create

\* A user is none that is not there, and has some namespaces in each cluster.
AllClusters == Clusters \cup {Default}
ConstantsAssumption ==
    /\ Nobody \notin Users /\ NoNS \notin Namespaces /\ First \in Clusters
    /\ Access \in [Users -> [AllClusters -> SUBSET Namespaces]]
    /\ Home \in [Users -> Namespaces \cup {NoNS}]

VARIABLES
    store,  \* state.auth, state.clusters and config.loaded
    ui,     \* the page, the localStorage and the ContextSelector
    calls,  \* requests in flight
    past    \* bounds, history, and the server's: who may log in, and has which namespaces

vars == <<store, ui, calls, past>>
OIDC == past.oidc    \* authProxyEnabled, with an oauthLoginURI

\* What is known of a cluster: "listed" if its namespaces are an array, and (history) "named" if
\* the namespace is one that a URL put there.  Unlisted is what the reducers make of nothing.
NoList   == [ns |-> NoNS, list |-> {}, error |-> FALSE, listed |-> TRUE, named |-> FALSE]
Unlisted == [NoList EXCEPT !.listed = FALSE]

\* initialState of reducers/cluster.ts, as the token of the page load makes it.
InitialClusters(home) == [c \in {Default} |-> [NoList EXCEPT !.ns = home]]
HomeOf(who)           == IF who = Nobody THEN NoNS ELSE Home[who]

\* A page that was loaded: what is in memory is new, the localStorage is not.
LoadedStore(storage) ==
    [authenticated |-> storage.token # Nobody, authenticating |-> FALSE, expired |-> FALSE,
     error |-> FALSE, config |-> FALSE, current |-> Default,
     clusters |-> InitialClusters(HomeOf(storage.token))]
LoadedPage(storage) ==
    [page |-> "loading", storage |-> storage, initial |-> HomeOf(storage.token),
     seen |-> <<FALSE, Default>>]
Getting == {[kind |-> "config", cluster |-> Default, ns |-> NoNS, who |-> Nobody]}

NoStorage == [token |-> Nobody, oidc |-> FALSE, stored |-> [c \in AllClusters |-> NoNS]]

Init ==
    /\ store = LoadedStore(NoStorage) /\ ui = LoadedPage(NoStorage) /\ calls = Getting
    /\ \E oidc \in BOOLEAN :
          past = [oidc |-> oidc, valid |-> Users, cookie |-> Nobody, access |-> Access,
                  moves |-> 0, turns |-> 0, late |-> FALSE]

Kind(kind, c, ns, who) == [kind |-> kind, cluster |-> c, ns |-> ns, who |-> who]

\* Whose token, or cookie, a request carries, and whether the server accepts it.
Who(u)       == IF OIDC THEN past.cookie ELSE u.storage.token
Accepted(who) == who \in past.valid

-----------------------------------------------------------------------------
(* Reducers *)

\* (mutant) The login does not end.
stillAuthenticating(s, b) == [s EXCEPT !.authenticated = b]

setAuthenticated(s, b) == [s EXCEPT !.authenticated = b, !.authenticating = FALSE]
authenticating(s)      == [s EXCEPT !.authenticated = FALSE, !.authenticating = TRUE]

\* (mutant) The login goes on.
errorGoesOn(s) == [s EXCEPT !.error = TRUE]

authenticationError(s) == [s EXCEPT !.error = TRUE, !.authenticating = FALSE]

\* (mutant) The clusters stay as they are.
keepClusters(s, home) == s

clearClusters(s, home) == [s EXCEPT !.clusters = InitialClusters(home)]

receiveConfig(s) == [s EXCEPT !.config = TRUE, !.current = First,
                              !.clusters = [c \in Clusters |-> NoList]]

\* What is known of a cluster, and what of it is put into the state.
Known(s, c)  == IF c \in DOMAIN s.clusters THEN s.clusters[c] ELSE Unlisted
Put(s, c, e) ==
    [s EXCEPT !.clusters = [k \in DOMAIN @ \cup {c} |-> IF k = c THEN e ELSE @[k]]]

\* The new cluster starts with what is known of the one before.
setNamespaceState(s, c, ns) ==
    [Put(s, c, [Known(s, s.current) EXCEPT !.ns = ns, !.error = FALSE, !.named = FALSE])
        EXCEPT !.current = c]

\* LOCATION_CHANGE: the context is that of the URL, whatever it is.
locationChange(s, c, ns) ==
    [Put(s, c, [Known(s, c) EXCEPT !.ns = ns, !.named = @ \/ Known(s, c).ns # ns])
        EXCEPT !.current = c]

\* getCurrentNamespace
CurrentNamespace(now, stored, home, list) ==
    IF now # NoNS THEN {now}
    ELSE IF stored \in list THEN {stored}
    ELSE IF home \in list THEN {home}
    ELSE list \cup (IF list = {} THEN {NoNS} ELSE {})

receiveNamespaces(s, c, list, ns) ==
    Put(s, c, [Known(s, c) EXCEPT !.ns = ns, !.list = list, !.error = FALSE, !.listed = TRUE])

errorNamespaces(s, c) == Put(s, c, [Known(s, c) EXCEPT !.error = TRUE])

receiveNamespaceExists(s, c, ns) ==
    IF ns \in Known(s, c).list THEN s
    ELSE Put(s, c, [Known(s, c) EXCEPT !.list = @ \cup {ns}, !.error = FALSE])

-----------------------------------------------------------------------------
(* What follows every change *)

\* The header shows ContextSelector to one who has a context.
Nav(s) == s.authenticated /\ s.clusters[s.current].ns # NoNS

\* The header reads the entry of the current cluster, and ContextSelector begins with its
\* namespaces; both are outside of the error boundary.
Crashed(s) ==
    s.config /\ \/ s.current \notin DOMAIN s.clusters
                \/ Nav(s) /\ ~(store.config /\ Nav(store)) /\ ~s.clusters[s.current].listed

\* RequireAuthentication, LoginForm and the redirection of "/".
PageOf(s, page) ==
    IF Crashed(s) THEN "crashed"
    ELSE CASE page = "app" /\ ~s.authenticated /\ ~s.expired -> "login"
           [] page = "root" /\ ~s.authenticated              -> "login"
           [] page \in {"login", "root"} /\ s.authenticated  ->
                 IF s.clusters[s.current].ns = NoNS THEN "root" ELSE "app"
           [] OTHER                                          -> page

\* fetchNamespaces and canCreate when the user or the cluster is new to the header, and
\* checkNamespaceExists of what ContextSelector shows.
Effects(s, u) ==
    LET who == Who(u)
    IN (IF s.authenticated /\ <<s.authenticated, s.current>> # u.seen
        THEN {Kind("namespaces", s.current, NoNS, who)} ELSE {})
       \cup (IF Nav(s) /\ (\/ ~store.authenticated \/ store.current # s.current \/ ~store.config
                           \/ store.clusters[store.current].ns # s.clusters[s.current].ns)
             THEN {Kind("exists", s.current, s.clusters[s.current].ns, who)} ELSE {})

\* The form to log in looks for a cookie when it is shown.
Checks(page, u) ==
    IF page = "login" /\ u.page # "login" /\ OIDC
    THEN {Kind("cookie", Default, NoNS, past.cookie)} ELSE {}

Step(s, u, cs, p) ==
    LET page == PageOf(s, u.page)
        asks == Checks(page, u)
        t    == IF asks # {} THEN authenticating(s) ELSE s
    IN /\ store' = t
       /\ ui' = [u EXCEPT !.page = page, !.seen = <<t.authenticated, t.current>>]
       /\ calls' = IF page = "crashed" THEN {} ELSE cs \cup asks \cup Effects(t, u)
       /\ past' = p

\* A page of the browser that is not the dashboard.
SignedOut(u, p) ==
    /\ store' = [store EXCEPT !.authenticated = FALSE]
    /\ ui' = [u EXCEPT !.page = "signedout", !.storage.oidc = FALSE,
                       !.storage.stored = NoStorage.stored]
    /\ calls' = {}
    /\ past' = [p EXCEPT !.cookie = Nobody]

Move  == past.moves < MaxMoves
Count == [past EXCEPT !.moves = @ + 1]
Live  == ui.page \in {"login", "root", "app"}

-----------------------------------------------------------------------------
(* Logging in and out *)

\* A valid token, or one that is not.
authenticate(u) ==
    /\ Move /\ ~OIDC /\ ui.page = "login" /\ ~store.authenticating
    /\ Step(authenticating(store), ui, calls \cup {Kind("validate", store.current, NoNS, u)}, Count)

\* setAuthToken, and the page that asked for the login.
ValidateAnswered(c) ==
    /\ c.kind = "validate"
    /\ IF Accepted(c.who)
       THEN Step(setAuthenticated(store, TRUE),
                 [ui EXCEPT !.storage.token = c.who, !.storage.oidc = FALSE], calls \ {c}, past)
       ELSE Step(authenticationError(store), ui, calls \ {c}, past)

\* oauthLoginURI: the auth proxy sets the cookie, and loads the dashboard.
LoginByProxy(u) ==
    /\ Move /\ OIDC /\ ui.page \in {"login", "signedout"} /\ ~store.authenticating
    /\ store' = LoadedStore(ui.storage) /\ ui' = LoadedPage(ui.storage) /\ calls' = Getting
    /\ past' = [Count EXCEPT !.cookie = u, !.valid = @ \cup {u}]

\* checkCookieAuthentication
CookieAnswered(c) ==
    /\ c.kind = "cookie"
    /\ IF Accepted(c.who)
       THEN Step([setAuthenticated(store, TRUE) EXCEPT !.expired = FALSE],
                 [ui EXCEPT !.storage.oidc = TRUE], calls \ {c}, past)
       ELSE Step(setAuthenticated(store, FALSE), ui, calls \ {c}, past)

\* Without OIDC: the token, the state and the stored namespaces go.
Cleared(s, u) == clearClusters(setAuthenticated(s, FALSE), u.initial)

\* (mutant) unsetAuthToken is not called.
ForgottenOnlyNS(u) == [u EXCEPT !.storage.stored = NoStorage.stored]

Forgotten(u) == [u EXCEPT !.storage.token = Nobody, !.storage.stored = NoStorage.stored]

logout ==
    /\ Move /\ ui.page = "app" /\ store.authenticated
    /\ IF ui.storage.oidc
       THEN SignedOut(ui, Count)
       ELSE Step(Cleared(store, ui), Forgotten(ui), calls, Count)

\* logoutByAuthenticationError: logout, then expireSession, that no more finds the mark of
\* OIDC and logs out like one of a token.  What the state changes then loses the way to the
\* sign-out page, or does not (the comment of logout).
LoggedOut(c) ==
    LET p == [past EXCEPT !.late = @ \/ c.who # Who(ui)]
        u == [Forgotten(ui) EXCEPT !.storage.oidc = FALSE]
    IN \/ ui.storage.oidc /\ SignedOut(ui, p)
       \/ Step(authenticationError(Cleared(store, ui)), u, calls \ {c}, p)

Load ==
    /\ Move /\ ui.page # "loading"
    /\ store' = LoadedStore(ui.storage) /\ ui' = LoadedPage(ui.storage) /\ calls' = Getting
    /\ past' = Count

\* Layout and Header are mounted.
ConfigAnswered(c) ==
    /\ c.kind = "config"
    /\ \E page \in {"root", "app"} :
          Step(receiveConfig(store), [ui EXCEPT !.page = page, !.seen = <<FALSE, Default>>],
               calls \ {c}, past)

-----------------------------------------------------------------------------
(* The context *)

Late(c) == past.late \/ c.who # Who(ui)

\* A reducer that finds no entry throws, and the action takes it for an error of the request.
NamespacesAnswered(c) ==
    /\ c.kind = "namespaces" /\ Accepted(c.who)
    /\ LET list == past.access[c.who][c.cluster]
           p    == [past EXCEPT !.late = Late(c)]
       IN IF list = {} \/ c.cluster \notin DOMAIN store.clusters
          THEN Step(errorNamespaces(store, c.cluster), ui, calls \ {c}, p)
          ELSE \E ns \in CurrentNamespace(store.clusters[c.cluster].ns, ui.storage.stored[c.cluster],
                                          HomeOf(ui.storage.token), list) :
                  Step(receiveNamespaces(store, c.cluster, list, ns), ui, calls \ {c}, p)

\* A namespace that the user has not is not there, or is forbidden him.
ExistsAnswered(c) ==
    /\ c.kind = "exists" /\ Accepted(c.who)
    /\ LET p   == [past EXCEPT !.late = Late(c)]
           has == c.ns \in past.access[c.who][c.cluster]
       IN \/ /\ has /\ Known(store, c.cluster).listed
             /\ Step(receiveNamespaceExists(store, c.cluster, c.ns), ui, calls \ {c}, p)
          \/ /\ ~has \/ ~Known(store, c.cluster).listed
             /\ Step(errorNamespaces(store, c.cluster), ui, calls \ {c}, p)
          \/ ~has /\ Step(store, ui, calls \ {c}, p)

\* fetchNamespaces of a cluster that is looked at in ContextSelector, which reads its array.
selectCluster(c) ==
    /\ Move /\ ui.page = "app" /\ Nav(store)
    /\ c \in DOMAIN store.clusters
    /\ IF store.clusters[c].listed
       THEN Step(store, ui, calls \cup {Kind("namespaces", c, NoNS, Who(ui))}, Count)
       ELSE Step(store, [ui EXCEPT !.page = "crashed"], {}, Count)

\* setNamespace, and the path of the page.  Until its own list is fetched a cluster offers that
\* of the cluster before; and it offers the namespace that it has, listed or not.
changeContext(c, ns) ==
    /\ Move /\ ui.page = "app" /\ Nav(store)
    /\ c \in DOMAIN store.clusters /\ store.clusters[c].list # {}
    /\ ns \in store.clusters[c].list \cup {store.clusters[c].ns}
    /\ <<c, ns>> # <<store.current, store.clusters[store.current].ns>>
    /\ Step(setNamespaceState(store, c, ns), [ui EXCEPT !.storage.stored[c] = ns], calls,
            [Count EXCEPT !.late = @ \/ (Who(ui) # Nobody /\ ns \notin past.access[Who(ui)][c])])

\* usePush tells of every URL of a page but its first.  Typed in, in a link or of the history,
\* it may be of any context: no more than its pages name is known of it here.
LocationChanged(c, ns) ==
    /\ Move /\ past.turns < MaxTurns /\ ui.page = "app" /\ store.authenticated
    /\ Step(locationChange(store, c, ns), ui, calls, [Count EXCEPT !.turns = @ + 1])

\* createNamespace, in the cluster that is looked at in ContextSelector.
createNamespace(c, ns) ==
    /\ Move /\ past.turns < MaxTurns /\ ui.page = "app" /\ Nav(store)
    /\ c \in DOMAIN store.clusters /\ store.clusters[c].listed
    /\ Step(store, ui, calls \cup {Kind("create", c, ns, Who(ui))},
            [Count EXCEPT !.turns = @ + 1])

\* The namespace is there, the list is asked for and the context changes to the new one; or it
\* was there, or may not be created.  A list that was on its way may be older than it, which
\* counts as late.
CreateAnswered(c) ==
    /\ c.kind = "create" /\ Accepted(c.who)
    /\ \/ /\ c.ns \notin past.access[c.who][c.cluster]
          /\ Step(setNamespaceState(store, c.cluster, c.ns),
                  [ui EXCEPT !.page = "app", !.storage.stored[c.cluster] = c.ns],
                  (calls \ {c}) \cup {Kind("namespaces", c.cluster, NoNS, Who(ui))},
                  [past EXCEPT !.access[c.who][c.cluster] = @ \cup {c.ns},
                               !.late = Late(c) \/ \E d \in calls : d.kind = "namespaces"])
       \/ Step(errorNamespaces(store, c.cluster), ui, calls \ {c},
               [past EXCEPT !.late = Late(c)])

\* Any other request of a page.
Request ==
    /\ Move /\ ui.page = "app" /\ store.authenticated
    /\ Step(store, ui, calls \cup {Kind("data", store.current, NoNS, Who(ui))}, Count)

RequestAnswered(c) ==
    /\ c.kind = "data" /\ Accepted(c.who)
    /\ Step(store, ui, calls \ {c}, past)

\* handleErrorAction of an UnauthorizedNetworkError, whoever it was for.
Refused(c) ==
    /\ c.kind \in {"namespaces", "exists", "create", "data"} /\ ~Accepted(c.who)
    /\ Live /\ LoggedOut(c)

\* A token, or a session of the proxy, is no more accepted.
Expire(u) ==
    /\ Move /\ u \in past.valid
    /\ past' = [Count EXCEPT !.valid = @ \ {u}]
    /\ UNCHANGED <<store, ui, calls>>

Answered(c) == \/ ConfigAnswered(c) \/ ValidateAnswered(c) \/ CookieAnswered(c)
               \/ NamespacesAnswered(c) \/ ExistsAnswered(c) \/ CreateAnswered(c)
               \/ RequestAnswered(c) \/ Refused(c)

Next ==
    \/ logout \/ Load \/ Request
    \/ \E u \in Users : authenticate(u) \/ LoginByProxy(u) \/ Expire(u)
    \/ \E c \in AllClusters :
          \/ selectCluster(c)
          \/ \E ns \in Namespaces : changeContext(c, ns) \/ LocationChanged(c, ns)
                                      \/ createNamespace(c, ns)
    \/ \E c \in calls : Answered(c)

Spec == Init /\ [][Next]_vars

-----------------------------------------------------------------------------
(* Properties *)

\* Every variable keeps its type.
TypeOK ==
    /\ ~(store.authenticated /\ store.authenticating)
    /\ store.current \in AllClusters /\ DOMAIN store.clusters \subseteq AllClusters
    /\ \A c \in DOMAIN store.clusters : store.clusters[c].ns \in Namespaces \cup {NoNS}
    /\ ui.page \in {"loading", "login", "root", "app", "signedout", "crashed"}
    /\ ui.storage.token \in Users \cup {Nobody}
    /\ past.valid \subseteq Users /\ past.cookie \in Users \cup {Nobody}

\* The state says that somebody is logged in exactly when the token that requests would
\* carry is there, through reloads, refusals of late requests and new logins (the
\* localStorage of shared/Auth.ts, and logout of actions/auth.ts).
SessionIsItsToken ==
    ~OIDC /\ Live => store.authenticated = (ui.storage.token # Nobody) \/ store.authenticating

\* When everything is answered the list of the context is that of the user in the current
\* cluster, though namespaces are created and URLs name other clusters, and its namespace is in
\* it; or is that of the token the page was loaded with (getCurrentNamespace keeps it, has the
\* user access or not), or one that a URL put there, which nothing checks (reducers/cluster.ts,
\* LOCATION_CHANGE); who has no namespace is told.  Unless a request of somebody else was
\* answered late, a list is older than a namespace that was created, or the namespace was
\* chosen from the list of another cluster (reducers/cluster.ts).
ContextIsOwn ==
    LET now == store.clusters[store.current]
        has == past.access[Who(ui)][store.current]
    IN ui.page = "app" /\ store.authenticated /\ calls = {} /\ ~past.late =>
          IF has = {} THEN now.error
          ELSE /\ now.list = has /\ now.ns # NoNS
               /\ now.ns \in has \cup {ui.initial} \/ now.named

\* When everything is answered nobody waits for the login, nor for the context but one who
\* has no namespace (LoginForm, rootNamespacedRedirect of Routes); unless a request of
\* somebody else was answered late: it ends the login that goes on, another may begin beside
\* it, and of two that succeed the second fetches no namespaces.
SessionSettles ==
    calls = {} /\ Live =>
        /\ ~store.authenticating
        /\ ui.page = "root" /\ ~past.late => past.access[Who(ui)][store.current] = {}

\* The session is that of its token, its context one that its user has, and neither the
\* login nor the context is waited for in vain.
SessionHolds == SessionIsItsToken /\ ContextIsOwn /\ SessionSettles

\* clearClusters "returns to the initial state" (cluster.test.ts:113), where the current
\* cluster is one of the clusters.
CurrentClusterKnown == store.current \in DOMAIN store.clusters
=============================================================================
