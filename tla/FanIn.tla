-------------------------------- MODULE FanIn --------------------------------
(***************************************************************************)
(* The listing of packages by the core API (core/packages/v1alpha1):       *)
(* GetAvailablePackageSummaries and GetInstalledPackageSummaries of        *)
(* packages.go, and the fan-in of packages_fan_in.go behind both.          *)
(*                                                                         *)
(* A client asks for page after page.  For each page a goroutine per       *)
(* plugin asks its plugin for its own pages and sends their packages down  *)
(* an unbuffered channel; one goroutine, the merger, holds the next        *)
(* package of each plugin and sends the least by name to the handler,      *)
(* with a map of how far each plugin is, that it keeps writing to; the     *)
(* map becomes the token of the next page.                                 *)
(*                                                                         *)
(* A package is a record of its name, a number that stands for its place   *)
(* in the alphabet, and the repository, or the namespace, it is in.  Of a  *)
(* page that was answered only the packages remain: the goroutines that it *)
(* left blocked touch nothing any more.                                    *)
(***************************************************************************)
EXTENDS Integers, Sequences, FiniteSets, Functions

CONSTANTS Catalogs,  \* sequences of plugins: the kind of each and its packages
          PageSizes, \* page sizes a client may ask for
          MaxErrors, \* bound: errors of plugins
          MaxListed  \* bound: a client that was given more asks for no other page

Kinds == {"helm", "flux"}
ASSUME CatalogsAssumption ==
    \A c \in Catalogs :
        /\ c \in Seq([kind : Kinds, packages : SUBSET [name : Nat, repo : Nat]]) /\ c # <<>>
        /\ \A p \in DOMAIN c : IsFiniteSet(c[p].packages)
ASSUME BoundsAssumption == PageSizes \subseteq Nat /\ {MaxErrors, MaxListed} \subseteq Nat

CompleteToken == -1
None == [package |-> "none"]

VARIABLES
    catalog, pageSize, api, \* what there is, and what the client asks for
    token,   \* the client's page token: how far each plugin it names is
    hpc, pkgs, got,         \* the handler: where it is, its page, has it got a package
    offsets, \* pluginPageOffsets: the map that merger and handler share
    mpc, turn, next, out, numSent, \* the merger
    ppc, page, offset, more,       \* each plugin's goroutine
    errors,  \* how much of the bound is used
    (* History variables, read by no guard: *)
    listed,  \* what the client has been given, page after page
    failed   \* a plugin's error has reached the handler

fixed   == <<catalog, pageSize, api>>
handler == <<hpc, pkgs, got>>
merger  == <<offsets, mpc, turn, next, out, numSent>>
plugins == <<ppc, page, offset, more>>
vars == <<fixed, token, handler, merger, plugins, errors, listed, failed>>

Plugins == DOMAIN catalog
Offset(map, p) == IF p \in DOMAIN map THEN map[p] ELSE 0

\* A bit more than its share is asked of each plugin.
PluginPageSize ==
    IF Len(catalog) > 1 THEN pageSize \div (Len(catalog) - 1) ELSE pageSize

Init ==
    /\ catalog \in Catalogs /\ pageSize \in PageSizes /\ api \in {"available", "installed"}
    /\ token = <<>>
    /\ hpc = "idle" /\ pkgs = <<>> /\ got = FALSE
    /\ offsets = <<>> /\ mpc = "closed" /\ turn = 1 /\ out = None /\ numSent = 0
    /\ next = [p \in Plugins |-> None]
    /\ ppc = [p \in Plugins |-> "closed"]
    /\ page = [p \in Plugins |-> <<>>]
    /\ offset = [p \in Plugins |-> 0]
    /\ more = [p \in Plugins |-> FALSE]
    /\ errors = 0 /\ listed = <<>> /\ failed = FALSE

-----------------------------------------------------------------------------
(* What the plugins answer *)

\* The orders in which a plugin may go through its packages.  The helm plugin asks
\* for them by name.  The flux plugin lists the releases of the cluster, which come
\* by namespace and name; of the charts that one can install it has a Go map by
\* repository, which it ranges over in any order, and over the charts of each.
InOrder(kind, s) ==
    \A i, j \in DOMAIN s : i < j =>
        IF kind = "helm" THEN s[i].name <= s[j].name
        ELSE /\ s[i].repo = s[j].repo => s[i].name <= s[j].name
             /\ IF api = "installed" THEN s[i].repo <= s[j].repo
                ELSE \A k \in i..j : s[i].repo = s[j].repo => s[k].repo = s[i].repo

Listings(p) ==
    {s \in [1..Cardinality(catalog[p].packages) -> catalog[p].packages] :
        IsInjective(s) /\ InOrder(catalog[p].kind, s)}

Upto(n, m) == IF n < m THEN n ELSE m

\* A page of what is listed from an offset on; without a page size all there is,
\* and then the flux plugin does not look at the offset.
PageOf(p, s, from) ==
    IF PluginPageSize > 0 THEN SubSeq(s, from + 1, Upto(from + PluginPageSize, Len(s)))
    ELSE IF catalog[p].kind = "flux" THEN s
    ELSE SubSeq(s, from + 1, Len(s))

-----------------------------------------------------------------------------
(* A plugin's goroutine (sendAvailablePackageSummariesForPlugin) *)

\* A full page may have a next one.
Fetch(p) ==
    /\ ppc[p] = "fetch"
    /\ \E s \in Listings(p) :
          LET r == PageOf(p, s, offset[p]) IN
          /\ page' = [page EXCEPT ![p] = r]
          /\ more' = [more EXCEPT ![p] = PluginPageSize > 0 /\ Len(r) = PluginPageSize]
          /\ ppc' = [ppc EXCEPT ![p] = IF r = <<>> THEN "closed" ELSE "send"]
    /\ UNCHANGED <<fixed, token, handler, merger, offset, errors, listed, failed>>

FetchFails(p) ==
    /\ ppc[p] = "fetch"
    /\ errors < MaxErrors /\ errors' = errors + 1
    /\ ppc' = [ppc EXCEPT ![p] = "error"]
    /\ UNCHANGED <<fixed, token, handler, merger, page, offset, more, listed, failed>>

\* After a package went down the channel: the next of the page, the next page, or
\* the end of the channel.
AfterSend(p) ==
    /\ page' = [page EXCEPT ![p] = Tail(@)]
    /\ offset' = [offset EXCEPT ![p] = @ + 1]
    /\ ppc' = [ppc EXCEPT ![p] = IF Len(page[p]) > 1 THEN "send"
                                 ELSE IF more[p] THEN "fetch" ELSE "closed"]

-----------------------------------------------------------------------------
(* The merger (fanInAvailablePackageSummaries) *)

\* It goes through the channels in turn, and waits at each for a package if it
\* has none of that plugin: at turn there is a channel to read from.
Reads(p) == mpc = "populate" /\ p = turn /\ next[p] = None

SetOffset(p, n) ==
    offsets' = [q \in DOMAIN offsets \cup {p} |-> IF q = p THEN n ELSE offsets[q]]

Pass ==
    /\ mpc = "populate" /\ turn \in Plugins /\ next[turn] # None
    /\ turn' = turn + 1
    /\ UNCHANGED <<fixed, token, handler, offsets, mpc, next, out, numSent, plugins,
                   errors, listed, failed>>

\* (mutant) The offset moves when the package is read, not when it is sent.
ReadPackageAndCount(p) ==
    /\ Reads(p) /\ ppc[p] = "send"
    /\ AfterSend(p)
    /\ next' = [next EXCEPT ![p] = [package |-> Head(page[p]), offset |-> offset[p] + 1]]
    /\ SetOffset(p, offset[p] + 1)
    /\ turn' = turn + 1
    /\ UNCHANGED <<fixed, token, handler, mpc, out, numSent, more, errors, listed, failed>>

ReadPackage(p) ==
    /\ Reads(p) /\ ppc[p] = "send"
    /\ AfterSend(p)
    /\ next' = [next EXCEPT ![p] = [package |-> Head(page[p]), offset |-> offset[p] + 1]]
    /\ turn' = turn + 1
    /\ UNCHANGED <<fixed, token, handler, offsets, mpc, out, numSent, more, errors, listed, failed>>

ReadError(p) ==
    /\ Reads(p) /\ ppc[p] = "error"
    /\ ppc' = [ppc EXCEPT ![p] = "closed"]
    /\ mpc' = "sendError"
    /\ UNCHANGED <<fixed, token, handler, offsets, turn, next, out, numSent, page, offset, more,
                   errors, listed, failed>>

ReadClosed(p) ==
    /\ Reads(p) /\ ppc[p] = "closed"
    /\ SetOffset(p, CompleteToken)
    /\ turn' = turn + 1
    /\ UNCHANGED <<fixed, token, handler, mpc, next, out, numSent, plugins, errors, listed, failed>>

Ready == {p \in Plugins : next[p] # None}

\* (mutant) The first plugin that has a package, whatever its name.
ChooseFirst(p) ==
    /\ mpc = "populate" /\ turn \notin Plugins
    /\ p \in Ready /\ \A q \in Ready : p <= q
    /\ SetOffset(p, next[p].offset)
    /\ out' = [plugin |-> p, package |-> next[p].package]
    /\ mpc' = "send"
    /\ UNCHANGED <<fixed, token, handler, turn, next, numSent, plugins, errors, listed, failed>>

\* The least name, and of equal ones that of the first plugin.
Choose(p) ==
    /\ mpc = "populate" /\ turn \notin Plugins
    /\ p \in Ready
    /\ \A q \in Ready : \/ next[p].package.name < next[q].package.name
                        \/ next[p].package.name = next[q].package.name /\ p <= q
    /\ SetOffset(p, next[p].offset)
    /\ out' = [plugin |-> p, package |-> next[p].package]
    /\ mpc' = "send"
    /\ UNCHANGED <<fixed, token, handler, turn, next, numSent, plugins, errors, listed, failed>>

\* (mutant) The channel of a page without packages stays open.
NothingLeftButSent ==
    /\ mpc = "populate" /\ turn \notin Plugins /\ Ready = {} /\ numSent > 0
    /\ mpc' = "closed"
    /\ UNCHANGED <<fixed, token, handler, offsets, turn, next, out, numSent, plugins,
                   errors, listed, failed>>

NothingLeft ==
    /\ mpc = "populate" /\ turn \notin Plugins /\ Ready = {}
    /\ mpc' = "closed"
    /\ UNCHANGED <<fixed, token, handler, offsets, turn, next, out, numSent, plugins,
                   errors, listed, failed>>

\* (mutant) One package more than was asked for.
AfterDeliveryLate ==
    /\ next' = [next EXCEPT ![out.plugin] = None]
    /\ numSent' = numSent + 1
    /\ mpc' = IF numSent = pageSize THEN "closed" ELSE "populate"
    /\ turn' = 1 /\ out' = None

AfterDelivery ==
    /\ next' = [next EXCEPT ![out.plugin] = None]
    /\ numSent' = numSent + 1
    /\ mpc' = IF numSent + 1 = pageSize THEN "closed" ELSE "populate"
    /\ turn' = 1 /\ out' = None

-----------------------------------------------------------------------------
(* The handler (packages.go) and its client *)

\* A plugin that the token has as complete is not asked again.
Starts(p) == IF Offset(token, p) = CompleteToken THEN "closed" ELSE "fetch"

\* The client asks for the first page, or the one its token names.
Request ==
    /\ Len(listed) <= MaxListed
    /\ hpc = "idle" /\ hpc' = "collect"
    /\ pkgs' = <<>> /\ got' = FALSE
    /\ offsets' = token
    /\ mpc' = "populate" /\ turn' = 1 /\ out' = None /\ numSent' = 0
    /\ next' = [p \in Plugins |-> None]
    /\ ppc' = [p \in Plugins |-> Starts(p)]
    /\ page' = [p \in Plugins |-> <<>>]
    /\ offset' = [p \in Plugins |-> Offset(token, p)]
    /\ more' = [p \in Plugins |-> FALSE]
    /\ UNCHANGED <<fixed, token, errors, listed, failed>>

\* The merger's send and the handler's receive are one step.
Receive ==
    /\ hpc = "collect" /\ mpc = "send"
    /\ pkgs' = Append(pkgs, out) /\ got' = TRUE
    /\ hpc' = IF pageSize > 0 /\ Len(pkgs) + 1 >= pageSize THEN "finish" ELSE "collect"
    /\ AfterDelivery
    /\ UNCHANGED <<fixed, token, offsets, plugins, errors, listed, failed>>

\* GetInstalledPackageSummaries returns the plugin's error; its twin returns err,
\* which is nil, and no response.
ReceiveError ==
    /\ hpc = "collect" /\ mpc = "sendError" /\ mpc' = "closed"
    /\ hpc' = IF api = "installed" THEN "error" ELSE "nil"
    /\ failed' = TRUE
    /\ UNCHANGED <<fixed, token, pkgs, got, offsets, turn, next, out, numSent, plugins,
                   errors, listed>>

ReceiveClosed ==
    /\ hpc = "collect" /\ hpc' = "finish"
    /\ mpc = "closed"
    /\ UNCHANGED <<fixed, token, pkgs, got, merger, plugins, errors, listed, failed>>

\* The map is looked at through the last package that was received, and there is
\* a next page if any plugin in it is not complete.
Finish ==
    LET goesOn == got /\ \E p \in DOMAIN offsets : offsets[p] # CompleteToken IN
    /\ hpc = "finish" /\ hpc' = IF goesOn THEN "idle" ELSE "done"
    /\ token' = IF goesOn THEN offsets ELSE <<>>
    /\ listed' = listed \o pkgs
    /\ UNCHANGED <<fixed, pkgs, got, merger, plugins, errors, failed>>

-----------------------------------------------------------------------------
PluginStep(p) == Fetch(p) \/ FetchFails(p)
MergerStep ==
    \/ Pass \/ NothingLeft
    \/ \E p \in Plugins : ReadPackage(p) \/ ReadError(p) \/ ReadClosed(p) \/ Choose(p)
HandlerStep == Receive \/ ReceiveError \/ ReceiveClosed \/ Finish

Next == (\E p \in Plugins : PluginStep(p)) \/ MergerStep \/ HandlerStep \/ Request

Spec == Init /\ [][Next]_vars

\* Goroutines run, plugins answer, and the client wants all the pages.
FairSpec ==
    /\ Spec
    /\ WF_vars(\E p \in Plugins : PluginStep(p))
    /\ WF_vars(MergerStep) /\ WF_vars(HandlerStep) /\ WF_vars(Request)

-----------------------------------------------------------------------------
(* Properties *)

Items == {[plugin |-> p, package |-> k] : p \in Plugins, k \in UNION {catalog[q].packages : q \in Plugins}}
AllItems == {i \in Items : i.package \in catalog[i.plugin].packages}
Heads == {None} \cup [package : UNION {catalog[q].packages : q \in Plugins}, offset : Nat]

\* Every variable keeps its type.
TypeOK ==
    /\ catalog \in Catalogs /\ pageSize \in PageSizes /\ api \in {"available", "installed"}
    /\ DOMAIN token \subseteq Plugins /\ \A p \in DOMAIN token : token[p] \in Nat \cup {CompleteToken}
    /\ hpc \in {"idle", "collect", "finish", "done", "error", "nil"}
    /\ pkgs \in Seq(AllItems) /\ got \in BOOLEAN
    /\ DOMAIN offsets \subseteq Plugins
    /\ \A p \in DOMAIN offsets : offsets[p] \in Nat \cup {CompleteToken}
    /\ mpc \in {"populate", "send", "sendError", "closed"}
    /\ turn \in 1..Len(catalog) + 1
    /\ numSent \in Nat
    /\ next \in [Plugins -> Heads] /\ out \in AllItems \cup {None}
    /\ ppc \in [Plugins -> {"fetch", "send", "error", "closed"}]
    /\ page \in [Plugins -> Seq({i.package : i \in AllItems})]
    /\ offset \in [Plugins -> Nat \cup {CompleteToken}] /\ more \in [Plugins -> BOOLEAN]
    /\ \A p \in Plugins : offset[p] = CompleteToken => ppc[p] = "closed"
    /\ errors \in Nat /\ listed \in Seq(AllItems) /\ failed \in BOOLEAN

\* A token says how many packages of each plugin the client has been given: none
\* of those that the merger had read and not sent are counted, or skipped.
TokenTellsProgress ==
    hpc = "idle" => \A p \in Plugins :
        Offset(token, p) # CompleteToken =>
            Offset(token, p) = Cardinality({i \in DOMAIN listed : listed[i].plugin = p})

\* A plugin that goes on from the offset it is given.  The flux plugin, asked for all it
\* has because the page size was divided down to 0, begins again at every page.
GoesOn(p) == catalog[p].kind = "flux" => PluginPageSize > 0 \/ pageSize = 0

\* One that lists its packages in the same order each time besides.
Honest(p) == Cardinality(Listings(p)) = 1 /\ GoesOn(p)

\* "The next request the begins each plugin where it left off for the last": page
\* after page every package is listed, and once, if the plugins are honest.
EachListedOnce ==
    (\A p \in Plugins : Honest(p)) =>
        /\ IsInjective(listed)
        /\ hpc = "done" => Range(listed) = AllItems

ByName(p) ==
    \A s \in Listings(p) : \A i, j \in DOMAIN s : i < j => s[i].name <= s[j].name

\* "merge those results, sending the next result": the pages are in the order of
\* the names, as if there were one plugin, if each plugin's own listing is.
NamesInOrder ==
    (\A p \in Plugins : Honest(p) /\ ByName(p)) =>
        \A i, j \in DOMAIN listed :
            i < j => listed[i].package.name <= listed[j].package.name

\* The handler reads the map of offsets when the merger has stopped writing to it.
MapAtRest == hpc = "finish" => mpc = "closed"

\* The client comes to the last page, or a plugin fails, of which it is told by an error;
\* but that of the available packages gives it neither a response nor an error.  This is
\* so if every plugin goes on from its offset: otherwise there may be no last page.
PagingEnds ==
    (\A p \in Plugins : GoesOn(p)) ~>
        \/ hpc = "done" /\ ~failed
        \/ hpc = "error" /\ failed
        \/ hpc = "nil" /\ failed /\ api = "available"

-----------------------------------------------------------------------------
(* What comments and tests in the source say *)

\* "it will be possible that this returns duplicates or missing data if data is
\* added or removed between paginated requests": no data is, here.
ListedOnce == IsInjective(listed)

\* "The next request the begins each plugin where it left off for the last": of plugins
\* that always list in one order, nothing is listed a second time.
LeftOffThere == (\A p \in Plugins : Cardinality(Listings(p)) = 1) => IsInjective(listed)

\* The test "it should fail when calling the core GetAvailablePackageSummaries
\* operation when the plugin returns a 404 for the api call".
ErrorsReported == failed => hpc = "error"
=============================================================================
