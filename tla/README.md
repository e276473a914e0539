# Kubeapps in TLA+

TLA+ models of Kubeapps where goroutines, queues, caches, requests and answers meet, TLC
configurations that check them on small instances, and TLAPS proofs of what the queue, the two
caches of the flux plugin, the fan-in of the core API, the controller, the asset-syncer's Jobs, the
dashboard's session and its pages promise. Paths are relative to `src/`;
`flux/` stands for `src/cmd/kubeapps-apis/plugins/fluxv2/packages/v1alpha1/`, `dash/` for
`src/dashboard/src/`.

- [The system](#the-system)
- [The modules](#the-modules), [the runs](#the-runs), [the proofs](#the-proofs)
- [Where code and comments differ](#where-code-and-comments-differ)
- [What is left out](#what-is-left-out), [the plan](#the-plan)

## The system

Kubeapps is an API server for packages (`cmd/kubeapps-apis`) with plugins for Helm and Flux, a
controller and a job that fill its database, two proxies in Rust, and a dashboard.

| Component | State it keeps | What is hard | Module |
|---|---|---|---|
| flux: rate limiting queue (`flux/cache/rate_limiting_queue.go`) | queue, dirty, processing and expected sets, failure counts, a delaying heap, one condition variable | producers, workers and waiters share one mutex and one condition; Reset takes keys away from under all of them | RateLimitingQueue, WorkQueue, ItemLifecycle |
| flux: chart cache (`flux/cache/chart_cache.go`) | the queue, a store of what to do per key, redis, an RWMutex | store and queue are updated in separate steps; a deletion lists redis and the store one after the other; resyncs, failures | ChartCache |
| flux: repository cache (`flux/cache/watcher_cache.go`) with the hooks of `repo.go`, `oci_repo.go` | the queue, redis, an RWMutex, a watch with a resource version | the worker takes no lock; readers wait for it with the read lock held, a resync with the write lock; watches break off; the process panics and restarts with an old redis | WatcherCache |
| core packages API (`core/packages/v1alpha1`) | per request a goroutine and a channel per plugin, a map of offsets; per client a page token | pages of a merged list are cut from lists that are paged themselves; a plugin fails halfway | FanIn |
| apprepository-controller | work queue, informer caches; CronJobs, Jobs, finalizers | informer and worker act on old, shared, changing copies; errors are not retried | AppRepoController |
| asset-syncer | tables of PostgreSQL, a checksum per repository | jobs beside each other, jobs that die halfway, deletions | AssetSyncer |
| dashboard: pages of packages (`dash/components/Catalog`, `PackageHeader`, `DeploymentForm`) | the store's slice of available packages, page state, timers, requests on their way | answers carry no name, come in any order and are never cancelled; effects see the values of their render | AvailablePackages, Catalog, PackagePages, ValuesForm |
| dashboard: installed applications (`AppList`, `AppView`, `AppUpgrade`) | one selected application, whoever asked; streams of resources | moves between pages, late answers, streams nobody closes | InstalledPages, AppResources |
| dashboard: repositories (`components/Config/PkgRepoList`) | lists, one detail, a form with some thirty inputs that affect one another | two lists merged, modals that unmount, what an update sends of what it was not given | Repositories, RepoForm |
| dashboard: operators | one operator, one instance, four errors | pages share them; a subscription takes several requests | OperatorPages, OperatorInstances |
| dashboard: session (`actions/auth.ts`, `namespace.ts`, `hooks/push.tsx`) | token, clusters, namespaces, the location | logins, refusals and answers of an earlier session; URLs that name another context | Session |
| dashboard: API (`dash/shared`, `dash/gen`) | none | a field that has another number at the other end, an error that ends no session | Messages, ApiCalls |
| flux operations on objects, helm, resources and repositories plugins, pinniped-proxy, oci-catalog, shared packages, deployment | Kubernetes objects; a credential cache | several objects per operation; expiry | not modelled, see [below](#what-is-left-out) |

How they meet: events of the Kubernetes API server reach the repository cache through a watch; its
hooks call the chart cache, its resync calls that cache's OnResync before it flushes the redis both
share. The core API calls the plugins' handlers, in a goroutine each for the two listings. The helm
plugin lists what the asset-syncer's Jobs wrote, which the apprepository-controller starts. The
dashboard's components dispatch actions, whose answers go through reducers into one store that all
pages read.

What makes them correct, in words; the properties say it exactly:

- *queue*: a key is with one worker at a time, nothing asked for is lost, a waiter gets its answer
  from a synchronization that began after it asked, nobody sleeps through a wake-up;
- *chart cache*: redis ends as the last request for a chart wanted it; a deleted repository leaves no
  charts; Get returns the chart; a resync has the cache for itself;
- *repository cache*: after any changes, lost watches, failed resyncs and crashes the entries agree
  with the cluster; a resync ends with all that is ready; readers are answered, and with a value;
- *listing*: over all pages each package comes once and in order; the token says how far each plugin
  is; paging ends;
- *controller and Jobs*: an AppRepository has its CronJob and was synchronized, of a deleted one
  nothing remains; the charts in the database are those its checksum stands for;
- *pages*: what is shown is what the URL and the filters ask for, an operation acts on what its page
  was opened for, a form sends what it shows, and nothing stays loading when all is answered;
- *session*: it is that of its token, its context one its user has, unless a URL named it; a refusal ends it;
- *API*: a message means the same at both ends.

`PROJECT.json` lists the hazards of this code at their lines, with the properties that watch them.

## The modules

| Module | Models |
|---|---|
| `RateLimitingQueue` | the methods of the queue as operators on a record, one critical section of the mutex each |
| `WorkQueue` | the queue with producers, workers, waiters, Reset and ShutDown |
| `ItemLifecycle` | abstract: the life of a key as the users of a queue see it; `WorkQueue` implements it |
| `ChartCache`, `WatcherCache` | the two caches; both INSTANCE `RateLimitingQueue` |
| `FanIn` | the two listings of the core API, plugins, and the clients that page through them |
| `AppRepoController` | one AppRepository with its informers, queue, worker, CronJob and clean-up |
| `AssetSyncer` | the Jobs of one Helm repository and its tables |
| `AvailablePackages` | the reducer of the packages that can be installed, one operator per action |
| `Catalog`, `PackagePages` | the catalog; the pages of a package and of its installation; both INSTANCE the reducer |
| `ValuesForm` | the body of the form that installs or upgrades: visual editor, YAML, debounce, unsaved changes |
| `InstalledPages`, `AppResources` | list, page and upgrade of applications; the resources of one, and the streams that watch them |
| `Repositories`, `RepoForm` | the page of repositories; its form, from the detail of a repository to the request |
| `OperatorPages`, `OperatorInstances` | operators and subscriptions; the resources they manage |
| `Session` | login, logout, OIDC, clusters, namespaces, routes |
| `Messages`, `ApiCalls` | the generated field tables; what builds a request, what its answer or error becomes |
| `Cluster` | a composition of eight parts: the pages on resources, repositories and operators, the form, the session, the controller and the Jobs; a behaviour is one of the part it starts with |
| `Packages` | the same of four: the catalog, the pages of a package, the form of values, and the installed applications |
| `MC*` | symmetry and values for TLC; `MCCluster` and `MCPackages` assume `ConstantsAssumption` of what they extend, and `MCPackages` has the calls of the API as a fifth part |
| `WorkQueueProofs`, `ChartCacheProofs`, `WatcherCacheProofs`, `FanInProofs`, `ControllerProofs`, `SessionProofs`, `ClusterProofs`, `PackagesProofs` | the theorems; those on the Jobs are in `ClusterProofs` |

**Steps of the server.** A step is what happens between two points where another goroutine can be
noticed: one critical section, one call to redis, the API server or a registry, one operation on the
store. So `processNextWorkItem` of the chart cache is `GetItem`, `RLock`, `CheckProcessing`,
`ReadEntry`, `Delete` or `Download` and `Set`, `Forget`, `Clean`, `Done`, with `Retry` and `GiveUp` on
its error path: a deferred `Done` and `RUnlock` are steps like any other. A goroutine that `Wait`s is
in `q.waiting` until a `Broadcast`. History variables (the last group of each module, `past` in the
newer ones) are read by no guard, but for the bounds in them.

**Steps of the dashboard.** JavaScript runs one callback at a time: a step is what a user does, an
answer, or a timer, with the dispatches, the render and the effects that follow from it before the
next callback. In `Catalog`, where effects of one render see values that the next has already
replaced, `Render` is a step of its own. `store` is the Redux store's part, `ui` the state of the
mounted components and the location, `calls` the requests on their way, which answer in any order,
or fail. The requests of a page outlive it: `Forsake` marks those of a page that is left, and an answer
to one of them is `Late` where it writes over what the page shown now asked for.

**RateLimitingQueue.** `q.queue`, `dirty`, `processing`, `expected` and `shuttingDown` are the fields
of `Type`; `waiting` is the condition variable, `delayed` client-go's heap, `requeues` the counts of
the rate limiter. `Reset` is two operators, because the code empties the queue under the mutex and
replaces the rate limiter after it; the heap survives both.

**ItemLifecycle.** A key is `wanted` or not, and a worker is `working` on one or none; `Request`, `Begin`,
`End`, `Reset` and `ShutDown`. `WorkQueue` maps `wanted` to the keys in the queue and those that wait
for the Done of the worker on them, `working` to the keys of the workers between their Get and their
Done. After a Reset a key that a worker was on is `loose`, and may be handed out once too often.

**ChartCache.** `store[k]` is the entry in the processing store, `redis` the keys there. A tarball
never changes under its key, so a key has no value. Producers are the hooks of the repository cache.
Errors are disjuncts of the steps that may fail. `processing.Delete(key)` (line 244) always fails, so
`Clean` leaves the store alone; `CleanAsMeant`, a mutant, would break other properties.

**WatcherCache.** A repository has a status and a digest. That of an HTTP repository shows in its
object; that of an OCI repository changes in a registry nobody watches. `events[k]` counts events on
their way (the worker reads the object, not the event). `spc` follows syncAndStartWatchLoop through
bootstrap, resync, watch, and a second attempt that fails into `Panic`; a `Crash` or a panic leads to
`Restart`, which keeps the cluster and redis only. `GetMultiple` is as many `Get`s; its goroutines
are the `pop[k]` of the resync.

**FanIn.** A package is its name, as a number, and its repository. `ppc`, `page`, `offset` are the
goroutine of each plugin, `next` and `offsets` the merger's `nextItems` and map; the channels are
unbuffered. Plugins answer as the helm and the flux plugin do: from an offset on, up to a page, in any
order their code allows (`InOrder`); asked for a page of size 0 the flux plugin lists from the beginning,
whatever the offset, so that a client may be given more than there is. `Request` stops one who was given
more than `MaxListed`.

**AppRepoController.** `store.versions` are the versions of the object as the API server had them; a
cached copy, a notification and the worker's object are indexes into it, so that an old copy stays
one, and an `Update` succeeds for the last only. `touched` are the copies whose finalizers the
controller changed in place, which the informer's goroutine and the worker share. `Restart` is a crash
with the list that follows; `Deliver` may skip versions, as after a broken watch.

**AssetSyncer.** A chart is a number in the order of the IDs, an index the versions of each. A Job is
`Start`, `LastChecksum`, then for the shallow and the full pass `ListCharts`, `Sync` per chart, and
`ImportFiles` beside `RemoveMissingCharts`; then `UpdateLastCheck`. It may `Die` anywhere and starts
again. Rows go with the rows they refer to (ON DELETE CASCADE).

**Messages and ApiCalls.** A field table is a function from names to numbers, types and cases of a
oneof, taken from the generated classes; `Encode` and `Decode` are what the library does with it. A
call is made with its arguments either given or empty, understood by the numbers, and answered or
refused. Its `caller` matters where the actions differ: `findPackageInRepo` (`dash/actions/repos.ts:272`)
asks for the detail of a repository outside of its try, so that an error is handled by nobody; the property
names it. The custom detail of a repository is encoded apart (`buildEncodedCustomDetail`): for helm anew,
from the fields that the form has; for flux not at all, so that the server gets the class and no provider.
A rollback that a plugin does not support is not sent, and is shown as an error.

**RepoForm.** The form is mounted as `Fresh`; the effect on the detail of a repository writes over it
what the detail has (`LoadBasic`), and over the fields of a plugin only if the detail has a custom one
(`Custom`, `LoadHelm`; `PkgRepoForm.tsx:293`). A repository without credentials for images, filter or
list of OCI repositories has none (`helm/.../repositories.go:279`), and whether it was validated when it
was added is stored nowhere. So an update asks for a validation of a repository without a custom detail,
whose form keeps the switch as it was mounted, and of no other, whatever the user chose when it was added;
`KeepsUntouched` says exactly that.

**Session.** `store.clusters[c]` is what the state knows of a cluster. `LocationChanged` is `usePush`:
any change of the URL within a page, to any cluster and namespace of the configuration or not, puts both
into the context (`dash/reducers/cluster.ts:132`), unchecked. A cluster that the configuration has not gets
an entry without a list there (`Unlisted`): the reducers that read the list throw, which their actions take
for an error of the request, and ContextSelector, which is outside of the error boundary, takes the page
down with it when it is mounted (`Crashed`). `named` is the history of that: `ContextIsOwn` excepts a
namespace that a URL put there. `createNamespace` is the request, `CreateAnswered` what follows it: the
list is asked for again, and the context changes to the new namespace, wherever the user is by now.

## The runs

| Run | Instance | What it shows |
|---|---|---|
| `queue_safety` | 2 workers, 1 waiter, 2 keys, a Reset, a ShutDown | the queue implements `ItemLifecycle`; shape, exclusion, wake-ups, counts and waiters |
| `chart_safety` | 2 charts, 2 workers, 1 producer, any 3 of 2 operations, a resync, a fault | `RequestsHonoured`, `DeletionOverlooksNone`, `ResyncExcludesWorkers` |
| `chart_liveness` | 1 chart, 2 workers, a reader, a producer, an operation, a resync, a fault | `ReaderGetsChart`, `ReadersReturn`, `EverythingSettles` |
| `repo_safety` | 1 HTTP repository with 2 contents, a reader, any 4 of 3 changes, a lost watch, 3 faults, a crash | `CacheConverges`, `ResyncPopulates`, `ReaderGetsValue`, `NoReaderDropped` |
| `repo_liveness` | 1 OCI repository, any 2 of changes, a lost watch, faults, a crash | `EverythingSettles`, `ReadersReturn` for the readers that force a refresh |
| `fan_in` | 1 plugin with 3 packages; 2 plugins of either kind with every subset of 3 packages in 2 repositories; 3 plugins, the third of either kind; page sizes 0 to 3; an error | `TokenTellsProgress`, `EachListedOnce`, `NamesInOrder`, `PagingEnds` |
| `packages` | 2 filters with three pages and one, 2 packages with 2 versions, 3 parameters with 3 versions, 2 applications; 3 to 5 moves, an error; every method of the API with each case of its messages | `CatalogIsRight`, `FormsSend`, `ActsOnUrl`, `PagesSettle`, `PagesLoad`, `CallsMean` |
| `cluster` | 2 applications with streams; a repository's name in 3 namespaces; the form with details of one feature besides the plain ones, every choice in it, 5 edits; 2 instances, 2 operators; 3 users, 2 clusters, 5 moves, of which one may be a change of the URL or a namespace to create; an AppRepository with 3 operations, a break, a crash, a refusal; 2 Jobs, 2 indexes, 3 starts, an error, a clean-up | `ResourcesAreCurrent`, `RequestsMatchPages`, `RepoFormSends`, `ListsSettle`, `SessionHolds`, `ControllerConverges`, `ChecksumTells` |
| `chart_store`, `fan_in_order`, `repo_form_header`, `app_refs_error` | as small as they get | findings, [below](#where-code-and-comments-differ) |

**Bounds.** `MaxAdds`, `MaxResets`, `MaxOps`, `MaxResyncs`, `MaxFaults`, `MaxChanges`, `MaxCrashes`,
`MaxErrors`, `MaxMoves`, `MaxTurns`, `MaxCalls`, `MaxStarts`, `MaxListed` bound what comes from outside and is unlimited in the
code; `MaxEvents` bounds a sum, so that every mixture of a few is explored rather than one large one.
`MaxRetries` (1) and `MaxAttempts` (2) stand for the code's 5 and 2 or more: a key is retried at least
once and given up at last. Two keys are enough for the queue, whose methods treat keys alike and one
at a time; two workers are those of the chart cache; the repository cache has one. Three events let a
request come while a worker is busy with an older one and a resync or a fault come in between. On the
pages three moves are: to a page, away while it asks, and to another of its kind; of three pages of a
list one is neither first nor last; two packages,
applications or operators are the one shown and the one whose answer is late. The controller needs a
creation, a deletion and a creation again; a Job one that finished before it and one that dies
beside it; of the session's users one has the namespace of his token, one has not, and one has a token
of none, and five moves are two logins with a logout, and one of what may come between. Symmetry is used in safety runs only. `CHECK_DEADLOCK FALSE` is in every configuration:
when the bounds are used up, all goroutines wait for work, and a user may stop anywhere.

**Fairness.** Weak fairness of each started goroutine (the Go scheduler is fair to runnable
goroutines), of the delaying queue's timer, of the delivery of watch events, and of a resync that
wants the lock (Go's RWMutex lets a waiting writer overtake new readers, which the models have as a
guard). Nothing is assumed of calls from outside, of failures or of success: a download may fail each
time, and the key is then given up. In `FanIn` the client goes on asking for pages, which is what
paging means. Of the dashboard: React renders what changed, a request is answered or fails, a timer
elapses, and in the catalog the end of the list is scrolled into view while there is more.

**Exceptions.** A property names the cases where it does not hold, in history variables, each with
its reason in the comment: `tainted`, `excused`, `unlucky`, `stranded`, `dropped`, `past`. They are as small as
TLC allowed: each was added for a trace. Those of the controller and the Jobs are the findings of the
[list below](#where-code-and-comments-differ) that nothing in the code repairs.

## The proofs

All theorems hold for any sets of keys, workers, waiters, readers, producers, plugins, Jobs, users,
packages, values, applications, repositories, instances or operators and any bounds. The assumptions are the named ASSUMEs
of the modules (`NoKey` is no key, no worker is a waiter, bounds are numbers, and the like), which TLC
evaluates in their runs. The parts of `Cluster` are instances, so theirs are definitions, hypotheses of
the theorems, and `MCCluster` assumes them: `IndexesAssumption` of `AssetSyncer` (the repository starts
with some index, and each is another than the one before), `NoneAssumption` of `AppRepoController` (None
is no spec), and a `ConstantsAssumption` of each of the others: the types of the session's constants, and
that Nobody is no user; that what stands for no application, repository, operator, instance or detail is
none; that there is a namespace besides the global one, and an instance; and that `MaxErrors` is a number.
Those of `Packages` are likewise hypotheses, assumed by `MCPackages`: the server has a sequence of pages for
each query; versions of packages are numbers of which one is the latest; a parameter has one kind of input,
and what is typed or given is something; the deployed version is one; and what stands for nothing is none of
the rest.

**The queue** (`WorkQueueProofs`): `TypeCorrect`, `QueueWellShaped`, `WorkersExclusive`,
`NothingIsLost`, `ProcessingIsWorkedOn`, `NobodySleepsOn`, `CountedIsRetried`, `WaitersAreServed`: all
that `queue_safety` checks. `ShapeInv` is inductive: `QueueShape` and `OneWorkerPerItem` need each
other, and the link between them, that a key a worker holds, and that is not tainted, is in
`processing`. The lemmas on the operators (`AddKeeps`, `GetKeeps`, `DoneKeeps`, ...) say what each
method does to the shape; the step lemma has one case per action and cites them. `WakeInv` adds that
the condition of a parked goroutine has not changed since the last Broadcast; `CountedComesBack` that
a counted key is delayed, dirty, or with a worker that has its decision still to take; `ServedInv` why
a waiter that was not served goes on waiting.

**The refinement** (`WorkQueueProofs`): `QueueImplementsLifecycle`, that `WorkQueue` implements
`ItemLifecycle`. Initial states map to initial states; `AddWants`, `GetWants` and `DoneWants` say what
the operators do to the set of wanted keys, and each action maps to a step of the key it is about or
to a stutter. Besides `ShapeInv` it needs `IdleHasNone`: a worker that waits holds no key.

**The chart cache** (`ChartCacheProofs`): `TypeCorrect`, `ResyncIsAlone`, `RequestsAreHonoured`,
`ReadersGetTheirChart`, `DeletionsOverlookNone`. `LockInv` is the RWMutex: who is at which label holds which lock, so that a
resync past its Lock is alone. `ShapeInv` is the queue's, carried over to its use here. `HonourInv`
says why a chart whose redis is not as last requested will be: its key is dirty, delayed, in a
producer's hands or in those of a worker that has yet to read the entry, or that read the last one.
`ReadInv` follows a reader from its request to its second look into redis. That a deletion overlooks
nothing is true of one producer (`OneProducer`, a hypothesis: the hooks of the repository cache run in
its one worker, `flux/cache/watcher_cache.go:170`) and of several it is not. `OverlookInv` says where a
chart that is in redis or in the store is: it was marked, or asked for since; or it is in the lists of
the deletion, or in the list that is still to be taken; or a resync is about to flush it. A worker
moves charts from the store to redis between the two lists, in the one direction that is safe because
redis is listed first and the store keeps its entries: `BusyInv`, that what a worker is downloading has
an entry.

**The repository cache** (`WatcherCacheProofs`): `TypeCorrect`, `ReadersAreKept`,
`ReadersGetTheirValue`, `CacheAgrees`, `ResyncsPopulate`. `LockInv` as above: a reader parked on the
queue holds the read lock, unless it refreshes an OCI repository, so no resync empties the queue under
it. `ReadInv` (`Promised`) is what a waiting reader is promised: the entry is there, or its key comes
back, or a worker is on course to write it. `ConvergeInv` says why an entry that disagrees with the
cluster is only for now: an event is in the air, a key queued, a worker informed by the current
object, or the resync has the repository still ahead; `PutInv` is that of a worker between its last
look and its write, `PastInv` that of the history variables. `PopulateInv` follows a resync from its
list to its last goroutine.

**The fan-in** (`FanInProofs`): `TypeCorrect`, `TokensTellProgress`, `MapsRest`, `PagesListEachOnce`,
`PagesInOrder`. `ProgressInv` relates each plugin's offset to what its client was given (`Told`), what
the merger holds back (`InMap`) and what is in the channel (`InChannel`); the map of offsets is read by
the handler only once the merger stopped. `OrderInv` goes on from there, for plugins that keep to one
order (`Honest`, which the properties name): what the client was given of a plugin is the beginning of
its order, each package once (`Right`), what its goroutine and the merger hold is what comes next, and
a plugin whose offset is CompleteToken was given whole. `SortedInv` adds that nothing still to come has
a name before one that was given, which is why the merger's choice of the least head is enough.

**The controller** (`ControllerProofs`): `ControllerTypes`, `ControllerSettles`. The versions of the
object are a sequence, and `Fresh` are the last of them that have the spec there is now: whoever holds a
fresh one does the right thing. `NotesInv` says that while a cached copy is fresh and something older is
still handed to the handler, a notification that turns from the older to the fresh comes after it, and
is one that queues the key; `CourseInv` that a key is queued, delayed or with such a notification on its
way, or that the worker is on the right course, or its last one was right and the CronJob is there; and
that a deletion is on its way to the clean-up. `TouchedInv` is about the copies that two goroutines share:
what was not given a finalizer is taken to have one only by the worker that is giving it. All this holds
until something excused happens; types (`Typed`) always do.

**The Jobs** (`ClusterProofs`, section "The Jobs of the asset-syncer"): `ClusterJobs`. `SyncInv`: as long as nothing excused
happened, Jobs that run at a time have one index and none has died (`SynApart`); the stored checksum is of
a repository that is there or is being written by a Job (`SynStands`), or the repository moved on and a Job
that will change it runs (`SynMovedOn`); and each Job has done what its pass and its `todo` say (`SynJobHas`:
charts it has gone by are written, or will be by its full pass or by another Job; what is not in its
index is gone, or in the list of what it removes). Rows that go with the rows they refer to are why
files need a conjunct of their own.

**The session** (`SessionProofs`): `SessionTypes`, `SessionIsKept`. Every action ends in `Step`, which
adds the effects of a render, so the proof has one lemma for it (`StepKeeps`: what is `Ready` for a step
leaves `Inv`) and one for each action, that it gives its step what it needs. `LoginOK` ties the login
state to the token, or to the cookie, and to a request that will end it; `ContextKnown` says that the
namespaces of the current cluster are asked for, by the user who is logged in, or are there, or that
there are none and he is told; `NamespacesOwn` whose namespace a cluster can have; `OneLogin` that two
logins at a time are only after a late refusal. The last three are given up once `past.late` is true.

**The cluster** (`ClusterProofs`): `ClusterSession`, `ClusterController` and `ClusterJobs` say of a
behaviour of `Cluster` what the last three paragraphs are about; `ClusterTypes`, `ClusterResources`,
`ClusterRequests`, `ClusterLists` and `ClusterRepoForm` are those of the pages. A page is a few actions of
its user and one per answer, so that each of their invariants has a lemma per action; what makes them
long is that an answer comes to whatever page is there.

- *Resources* (`ResInv`): each stream has an id of its own; what is shown of an application, whose watch
  never broke, came through an open stream that has brought nothing since (`ResSource`), and a page that
  watches one shows something or has a stream that is behind (`ResWatched`). A status that is older than
  the application has a stream that will ask for it, or a request on its way (`ResTold`); what is selected,
  and the requests that count as the page's own, are of its application (`ResOfPage`, `ResMine`).
- *Repositories* (`RepInv`): the form of an update has the repository it was opened for (`RepFilled`); the
  page has the right list or asks for it (`RepListed`), where one that was added is missing until its
  detail is there (`RepRight`); the half of a list that waits for its other half is what its namespace has
  (`RepHalves`), and what is loading is asked for.
- *Instances* (`InsInv`): what is loaded is of the URL, or there is an error, or it is asked for, or an
  answer strayed (`InsAbout`); the values of a form are of the instance that is loaded, or the example's
  (`InsValues`); while something typed is unsent there is a form, and nothing on its way that could take it
  away (`InsEdits`); the list is what is there, or asked for (`InsLists`).
- *Operators* (`OpInv`): each flag has a request that will clear it (`OpAwaits`); what subscribes is for the
  operator of its page and has its group, and half a list is that of "operators" (`OpCallsOK`); the page has
  its operator and the subscriptions, or asks for them, or says why not (`OpShows`, `OpLists`); all
  namespaces are chosen only where they are supported (`OpForm`).
- *Form* (`FrmInv`): which inputs agree with the detail depends on the areas that were edited since
  (`FrmForm`, with `past.touched`), which every input and the effects after it keep (`FrmField`,
  `FrmSettle`); a method and a provider are not both chosen; what was sent is computed from the form as it is
  (`FrmSent`), so that the rest is a computation (`FrmRequestAuth`, `FrmRequestTls`).

**The pages about packages** (`PackagesProofs`): `PackagesTypes`, `PackagesCatalog`, `PackagesForms`,
`PackagesActs`, `PackagesSettle`. The slice of the store that three of the parts share has lemmas of its own,
one per action of its reducer, for any sets of items, details and values (`SliceReceives`, `SliceResets`, ...);
`PkgReducers`, `InsReducers` and `CatReducers` say that the instances of the reducer are that one.

- *Pages of a package* (`PkgInv`): a page's own requests are for what its URL names (`PkgOwn`), and what is
  selected is of that package, or nothing, and the very version unless a request for it is on its way
  (`PkgSelected`); the values are those of the detail that is selected.
- *Installed applications* (`InsInv`): each spinner has a request that will end it (`InsWaits`); the
  application and the list are those of the page, or asked for (`InsSelected`, `InsListed`); the form of an
  upgrade has versions only once it has the package, which is what the block of `UpgradeForm.tsx:71` waits for
  (`InsForm`).
- *Form of values* (`ValsInv`): an edit is in one of three places, and where it is in several the one that a
  save takes last has it as it was last made: waiting for its timer, in the map of unsaved changes, in the
  values (`ValsLatest`, `ValsKeeps`). What makes it inductive: a switch never waits (`ValsWaits`), the YAML
  editor opens on saved values (`ValsTab`), and a form that is not marked as modified has its edits still
  before the save (`ValsUnmarked`), so that a change of version loses none that was saved.
- *Catalog* (`CatInv`): `CatBlank` is the list of a catalog that has not rendered; `CatQuery` that what is
  listed and what is asked for is of the query last rendered; `CatAsks` that there is one request at a time
  whose answer is not ignored. `CatFirst` and `CatReach` follow the pages: the first is there or will be asked
  for, and there is a page m up to which all are there, such that nothing on its way is further on than the
  next one, and the last is m or later when the list is finished. `PackagesCatalog` is for any number of
  pages; m is chosen anew by each answer.

Met when these were to be proved, and changed:

- the list of repositories needs no exception for an answer that is late: whichever namespace the last
  answer was for, the list is that of the page when all is answered, so `past.late` is gone and
  `ListIsCurrent` says more; how often a list has a repository is bounded by the requests only, so its
  type is a number and no longer one up to 3;
- a list of three pages has a behaviour that one of two has not: a new query may begin with a page that is not
  its first, and omit one ([below](#where-code-and-comments-differ)); `Skipped` excepts it, and `packages` has
  three pages;
- who restores the defaults of an instance and edits them then sends the example's name, which three
  moves did not reach: an edit keeps the name (`Edited`), and `ActsOnUrlInstance` excepts it;
- the details that the form can load were combinations of a few fields: now each field is free but for what
  the two plugins cannot have (`Details`); TLC loads those with one feature, the theorem is about all.

So the safety properties of all passing runs are proved but one. Type invariants of `ChartCache`, `FanIn`,
`AppRepoController` and `Session` are theorems of their own or part of `ClusterTypes`. Only model-checked: liveness
(`ReadersReturn`, `EverythingSettles`, `PagingEnds`, `PagesLoad`), which rests on fairness and ENABLED, out of
the prover's reach; and `CallsMean`, which is about finite tables without a parameter, read by recursive
operators: TLC enumerates every call, case and answer there is, so that nothing is left for a proof to add.

How to check them: `tlapm` on each `*Proofs` module, `ClusterProofs` (about a quarter of an hour) and
`PackagesProofs` being the longest. Leaves that took more than a second name their prover with a time of
its own (`SMTT(60)`, `ZenonT(120)`), so that a slow or busy machine proves them too; most are about one field
of a large record, where Zenon does what the SMT encoding does not.

## Where code and comments differ

A run that TLC refutes (PROJECT.json, `findings`):

1. the store of the chart cache keeps its entries for ever (`flux/cache/chart_cache.go:244`);
2. pages of the flux plugin are cut from a Go map, and repeat and omit packages (`flux/chart.go:235`);
3. an authorization header entered for a repository is sent by no request
   (`dash/shared/PackageRepositoriesService.ts:130`);
4. an error of the request for an application's references is shown to nobody
   (`dash/components/AppView/AppView.tsx:213`).

Stated as a property of a module, refuted by TLC when it is checked, and in no run:

- `CurrentClusterKnown` (`Session`): logging out in a cluster that is not "default" leaves a current
  cluster that is none of the clusters (`dash/reducers/cluster.test.ts:113`);
- `WatchesClosed` (`AppResources`): the streams of a page that was left go on (`AppView.test.tsx:612`);
- `ReloadedCleanly` (`Catalog`): the answer to a request of a catalog that was left fills the next one
  (`Catalog.tsx:120`);
- `BlockRunsOnce` (`InstalledPages`): the block of `UpgradeForm.tsx:71` may run twice;
- `OneGroup` (`OperatorPages`, with 5 moves): who subscribes to a second operator before the groups were
  listed for the first makes two OperatorGroups;
- `UpdateErrorShown` (`Repositories`): the error of an update is unmounted (`PkgRepoForm.test.tsx:209`);
- `NoEntryForDeleted`, `IndexErrorsRetried` (`WatcherCache`): a resync may leave the entry of a deleted
  repository (`flux/cache/watcher_cache.go:621`), a failed download of an index is not retried (615);
- `ErrorsReported` (`FanIn`): an error of a plugin while the available packages are listed reaches the
  client neither as an error nor as a response (`core/packages/v1alpha1/packages.go:75`), although a test
  says that it should fail; what the test compares is skipped while there is no error
  (`packages_test.go:265`, 292). `PagingEnds` says which listing ends how;
- `LeftOffThere` (`FanIn`, with three plugins, the third flux, and pages of one package): the plugins' page
  size is 0 (`packages_fan_in.go:23`), for which the flux plugin begins again at every page, and the paging
  has no end (53-54 says "where it left off"); `PagingEnds` is for plugins that go on (`GoesOn`);
- `SendsProvider` (`RepoForm`): the authentication provider of a flux repository does not reach the server,
  as the custom detail is put into Any.value as an object, not encoded
  (`dash/shared/PackageRepositoriesService.ts:333` against 284-286);
- `SendsAllEdits` (`ValuesForm`): Deploy within the 500 ms of a debounce leaves the edit out
  (`DeploymentFormBody.tsx:381`).

Met while modelling; the properties above name them as exceptions, or the models simply do them.

*Flux plugin and core.* `ShutDown` does not drain the queue (`rate_limiting_queue.go:217` against
259-261). `Done` of a key that a Reset dropped queues it again (249). Reset empties neither the heap
(94-97) nor wakes those parked (375-388). Two workers can be on one chart if one stalls between Get and
RLock while a resync passes (`chart_cache.go:210-216` against 47-49). An import of a repository without
charts purges nothing (373). An error of DEL is ignored (442); Get can return neither bytes nor an
error (560). An entry of a deleted repository can stay after a resync (`watcher_cache.go:621`); a
failed download of an index is not retried, though a comment says so (615). The charts of a repository
are fetched after its checksum was read (`repo.go:661`), and queued before its entry is written (628).
A reader may see what the previous process left in redis before the first Lock of the bootstrap. A reader
that was parked when a resync emptied the queue is woken by nobody, and one that polls the failures of a key
on which two workers are may poll for ever (`ReadersReturn` of `ChartCache` names both).

*Controller.* A failed synchronization is not queued again, though two comments say so
(`controller.go:249`, `355`): a CronJob that the lister had not yet is created twice, and the change is
lost. The clean-up runs in the informer's goroutine, so a worker may create the CronJob or a Job after
it (514 says "to avoid re-syncing"). A repository that is deleted before its finalizer is set, and is in
another namespace, leaves its CronJob for ever; so does a refused deletion of the CronJob, as the
finalizer is removed anyway (483). A CronJob without an owner is never made again. A failed Update
leaves the informer's copy changed in place; so does generateJobSpec the pod template, which the next
Update writes back. The branch of DeleteFunc that queues (560) is never taken.

*Asset-syncer.* A changed filter has no effect until the index changes, as the checksum is that of the
index (`utils.go:153`, `sync.go:91`). A Helm repository that becomes empty keeps its charts
(`utils.go:266`). Files that could not be had are not tried again once the checksum is stored
(`sync.go:169`). Two Jobs at a first synchronization: the second may put back the shallow charts after
the first stored the checksum, and if it dies they stay. A Job that dies halfway, in a repository that
then goes back to what it was, leaves a mixture under the old checksum. A deletion during a Job leaves
a part of the repository. The worker of an OCI repository dereferences nil when no version of a new
chart can be pulled (692-718). Early returns leave goroutines blocked (`sync.go:141`).

*Catalog and forms of values.* Array parameters start empty, and their onDelete does not reach the
values; Restore Defaults keeps unsavedChangesMap; what the visual editor shows is stale once the values
are empty; selecting a version in an upgrade drops the edits. A filter that is changed while a page is
loading may leave the page's state of the request before (`Catalog.tsx:120-122`). The effect that asks for a
new query still has `localNextPageToken` of the query before (`Catalog.tsx:167`, while line 124 resets it for the
next render), although a comment says that it "is no longer used for calculating pagination" (94-96): who
scrolled to a third page and changes the filters while it is loading has the third page of the new list asked
for after the first, once the 1.5 s are over; the second never is, and the list ends as if it were complete.

*Installed applications.* An error of fetching is never cleared by a retry; a late answer is shown under
another application's URL, and Delete and Rollback act on it; the end of a deletion or an upgrade moves
the user away from wherever he is; a failure of the versions leaves a spinner; a rollback is offered to
revision -1; UpgradeForm may run the block of 71-72 twice; the error handler of a stream is never called.

*Repositories.* A late detail fills the form of another repository; the list is refetched in the
namespace of the render; a list read during an addition has it twice; the modal of an update is
unmounted by isFetching, and with it the error and the edits (`PkgRepoForm.test.tsx:209`); a repository
of the same name in another namespace is dropped (`actions/repos.ts:109`). Proxy options are never
sent; a custom CA is not sent with a user-managed secret, nor the reverse; a pull secret stays when its
input is hidden; an update resets node selector and tolerations; a provider stays when the storage
changes to helm; the filter of an OCI repository is shown and not sent; an update of an ordinary
repository asks for a validation, and of one with a custom detail for none, whatever was chosen when it was
added.

*Operators.* isOLMInstalled is never reset; two subscriptions at once make two OperatorGroups;
the form submits without preventDefault; an error of creation replaces the form. Delete is offered
while an instance is loading and acts on the one before; errors of operations and of fetching share
fields and are never cleared; Restore Defaults of an update puts the example's name,
which an edit keeps.

*Session and API.* Found when the session was to be proved: after a logout and a login of somebody else
the context is the namespace of the token that the page was loaded with, although the user has no access
to it, and no error is shown (`reducers/cluster.ts:112` puts it back, `getCurrentNamespace` keeps what
there is, receiveNamespaces clears the error); a late refusal ends a login that goes on, so that another
may begin beside it, and of two that succeed the second fetches no namespaces. With OIDC a session that was refused is never marked expired; a late refusal of an
old session ends the new one; setNamespaceState copies the list of the cluster before; a user without
namespaces waits for ever; the namespace of a deep link is ignored until the location changes, and is then
the context, whether the user has access to it or not (`reducers/cluster.ts:132`): so one who logs in where
another has logged out is returned to the other's URL, and at the next change of it is in the other's
namespace. A URL of a cluster that is not configured takes the header down when it is next mounted. Errors of
GetAvailablePackageMetadatas and GetPackageRepositoryPermissions are not converted, so that a refusal
ends no session; nor is it caught what findPackageInRepo asks first (`actions/repos.ts:272`); canI answers
false and errors of a stream are dropped.

## What is left out

In the modelled components: formats of keys, tokens and texts, logging, test hooks, Shutdown of the
caches, the pool that bounds populateWith's goroutines, the contents of tarballs; SCAN is one step. The
sanity check of FanIn's token (218) cannot fail with the repository's plugins. In the dashboard: layout,
tables, tooltips, sorting and search boxes that only hide what is there, validation by the browser, and
the methods of `Secret.ts`, which nobody calls; going from the upgrade of one application to that of
another by the history, without a page between. Of the controller: what is in a Job, events. Of the
Jobs: OCI registries, filters and icons.

Not modelled: the flux plugin's operations on releases, repositories and secrets and the helm plugin's
(several objects per request, each with its own error: what stays behind is stated by no code or
document, so that a property would be an invention); the resources plugin, the plugins API and the
shared Go packages (they pass on what another service answers, or compute a value); pinniped-proxy
(I/O around a cache in which a credential may be fetched twice at a time, which is harmless);
oci-catalog (one loop of requests); generated code that nothing imports; deployment, documentation, tests.

## The plan

Done: the queue, its abstract specification and their proofs; both caches with their proofs; the
fan-in with its proofs; the dashboard's pages, session and API; the controller and the Jobs; and the proofs
of the session, the controller, the Jobs, the pages of `Cluster` and those of `Packages`. What would come next:

1. **FluxCaches**: both caches over one redis; the hazard is an entry without its charts, or charts
   without an entry, after a crash or an error between the two (`flux/repo.go:628`).
