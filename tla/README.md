# Verification of NCache HybridCache

TLA+ specifications, TLC model-checking runs and TLAPS proofs for
`NCache.Microsoft.Extensions.Caching.Hybrid.Opensource`, the NCache implementation of
`Microsoft.Extensions.Caching.Hybrid.HybridCache`: an in-process cache (L1) on every
application node, one distributed NCache cluster (L2) behind them, a topic that keeps the
L1s in step, invalidation by tag, and protection against cache stampedes.

Paths below are relative to `src/`; `HC`, `TK`, `UT` are
`NCache.Microsoft.Extensions.Caching.Hybrid.Opensource/Implementation/NCacheHybridCache.cs`,
`.../TagKeeper.cs` and `.../NCacheHybridCacheUtils.cs`; `Test Cases` and `API Ref` are
`.../Docs/Test Cases.txt` and `.../Docs/Public API Reference.txt`; `CP` and `NS` are
`CachePlaygroundService.cs` and `NotificationService.cs` in `HybridCachePlayground.Web/Services`,
and `UN` and `JV` are
`HybridCachePlayground.Web/wwwroot/lib/jquery-validation-unobtrusive/jquery.validate.unobtrusive.js`
and `.../wwwroot/lib/jquery-validation/dist/jquery.validate.js`.

## 1. Inventory

| Component | State | Operations | Modelled by |
|---|---|---|---|
| Two-level cache (`NCacheHybridCache`) | `_memoryCache`, `_distributedCache`, `_topic`, `_identifier` | `SetAsync`, `RemoveAsync` (one, many), `GetOrCreateAsync`, `PublishCacheUpdate`, `SyncL1Callback` | `HybridCacheSync` |
| Stampede protection | `_reqLocks`: key to `SemaphoreSlim(1, 1)` | the middle of `GetOrCreateAsync` | `StampedeLock`, `SingleFlight` |
| Tag invalidation (`TagKeeper`) | `_tagInvalidationTimes`, `_globalInvalidationTimestamp`, sentinel items in L2 | `MarkTagInvalidAsync` (one, many), `SetWildCard`, `SyncL1TagFromL2`, `SyncWildCardFromL2`, `IsItemInvalidatedAsync`; `RemoveByTagAsync` and the Tag and WildCard messages of HC | `TagKeeper` |
| Items and tags together | creation stamps, expirations, sentinels | the operations above, where they meet | `HybridCache` |
| Construction and disposal | the fields above | constructor, `Dispose` | `Init`, `Restart` of `HybridCacheSync`; `Disposal` |
| Items, messages | `NCacheHybridCacheItem`, `NCacheHybridCacheMessage` | construction, `GetValue`, JSON | as values and records |
| Names (`NCacheHybridCacheUtils`) | none | validation, sentinel keys, clock | the wildcard test and the clock, in `TagKeeper` |
| Options, dependency injection | settings | one validity test, registration | no |
| `CachePlaygroundService` | `_metadata`, `_keyRegistry`, `_tagRegistry`, three counters | one per cache operation, stampede and concurrent-GET tests, pruning, statistics | `Playground` (no tag registry) |
| `NotificationService` | a queue of at most 100 notifications | `NotifyAsync`, `MarkAllRead` | `Playground` |
| Forms and their client-side validation | rules, validators and marks on the page | `parse`, `parseElement`, the adapters, `onError`, `onSuccess`, `onReset` (UN), the handlers and rules of jQuery Validate (JV), the POST answers | `FormValidation` |
| `DebugToolsService`, controllers, models, views, other scripts | none | HTTP, presentation | no |

### How the components interact

* `SetAsync` writes L2, publishes an `Update` message, then writes L1 (HC:1022-1136).
  `RemoveAsync` removes from L1, then from L2, then publishes `Remove` (HC:829-916).
  `GetOrCreateAsync` reads L1, reads L2 and fills L1 from it, and otherwise takes the key's
  semaphore, looks again, runs the factory, writes L2, publishes, writes L1 (HC:479-815).
* `SyncL1Callback` (HC:198-320) drops messages that carry the node's own identifier. For
  `Remove` it removes the keys from L1. For `Update` it reads the keys from L2 in bulk and
  inserts what it finds into L1. For `Tag` and `WildCard` it has TagKeeper read the sentinel.
* Every entry a read finds is put to `TagKeeper.IsItemInvalidatedAsync`. It compares the
  item's creation time with the wildcard's stamp and those of the item's tags, and asks L2
  for the tags it has no entry for.
* `Dispose` (HC:1143-1168) closes the subscription, TagKeeper and both caches, then the semaphores
  it finds in `_reqLocks`, while calls may be under way.
* The playground's services are singletons that concurrent HTTP requests use: each request calls
  the library and then brings its own listing, registries and counters up to date.
* The playground's form views load `_ValidationScriptsPartial`: the server renders its data
  annotations as `data-val` attributes, the unobtrusive script makes rules of them, jQuery
  Validate adds rules for the HTML attributes of number fields and checks both, and the server
  binds what is posted, checks the annotations again and, for a concurrency, a limit of its own.
* Messages carry names, never values. L2 is the only place where nodes agree.

### What is hard here

* Every operation is a chain of separate accesses to L1, L2, the topic and TagKeeper, and runs
  as a task of its own: other calls and the callback come between any two of them.
* The callback acts on what it read, not on what is there when it writes (HC:251-273, TK:180).
* Nothing is atomic over L2 and the topic: each can fail or the node can stop in between;
  some failures are thrown, some are logged and swallowed.
* Semaphores leave their dictionary while callers still wait for them (HC:803-809).
* Invalidation stamps are taken, stored in the dictionary and sent to L2 in separate
  steps, and the dictionary holds *tasks* that may be running or may have thrown.
* The two copies of one value have creation stamps and lifetimes of their own, and so has the
  sentinel that invalidates them (HC:1064, HC:1104, TK:82).
* The playground's services change four things per request with no lock around them.
* Two scripts and the server each keep a part of what a form shows, and the bounds of a number are
  told three times (`data-val`, HTML attributes, controller).

`PROJECT.json` lists these hazards line by line under `hazards`, with the properties
that watch them.

### What makes each component correct

* Synchronisation: a local entry differs from L2 only while a message that repairs it is under
  way, except after events that can be named; a node that only follows converges.
* Stampede protection: one caller per semaphore, releases that fit, no second factory and no
  second answer without a reason, every caller ends.
* Tags: no item older than every invalidation of its tag is returned as valid after
  `RemoveByTagAsync`; no item is invalid without an invalidation that covers it; calls and
  callbacks that block on tasks of others end; a failed invalidation stays on its own node.
* Items and tags: what a node knows to be invalidated is invalid there in either level, however
  late a copy arrives; a sentinel lives as long as what it invalidates.
* Disposal: it strands only callers queued behind one that is still inside or has failed to
  release; nothing disposed of stays listed.
* Playground: listing, registry and counters agree with the cache when nobody overlaps, and come
  back to agreement after an overlap; the newest notifications are kept.
* Forms: what is shown is what the last check found; browser and server agree, but for what can
  be named.

## 2. The modules

### HybridCacheSync

`L1[n]`, `L2`, `inbox[n]` (messages the topic has still to deliver), `held[n]` (what the
callback of `n` has read from L2 and not yet inserted), and for each call `pc`, `home`, `req`,
`seen`. One action per access to a cache or the topic:

| Code | Actions |
|---|---|
| `SetAsync` | `SetL2`, `PublishCacheUpdate` / `PublishFails`, `SetL1` |
| `RemoveAsync` | `RemoveL1`, `RemoveL2`, `PublishCacheUpdate` / `PublishFails` |
| `GetOrCreateAsync` | `GetL1`, `GetL2`, `FillL1`, `Recheck`, `PutL2`, `PublishCacheUpdate` / `PublishFails`, `PutL1` |
| `SyncL1Callback` (Update, Remove) | `CallbackRemove`, `CallbackRead`, `CallbackInsert`, `CallbackFails` |
| expiration, eviction, process restart | `ExpireL1`, `ExpireL2`, `Restart` |

The flags of `HybridCacheEntryFlags` guard the same branches as in the code. That includes the
difference between `SetAsync`, which tests only the write flag of a level, and
`GetOrCreateAsync`, where either flag of a level keeps a created value out of it.

`settled[n][k]` is an auxiliary variable: it is FALSE exactly after the events that the
protocol does not repair. They are listed here because they are what a user of the library has
to know:

1. the node's own call changed L2 and has not (yet) brought its own L1 in line;
2. the node's own call put into L1 something that L2 no longer holds, or did so under a
   callback that is about to overwrite it with something else;
3. a publication failed or its node stopped before it (the other nodes never hear of it);
4. the callback's read of L2 threw;
5. an L2 entry expired while L1 had a copy.

A later change of L2 by another node settles the entry again (`SettledAfterL2Change`); so does
a restart, with an empty L1. The variable never guards an action.

Abstractions. Every call writes a value of its own, so that any stale entry shows. TagKeeper's
verdict on an entry that was found is a free choice (valid, invalid, or, when L2 fails, an
exception), and so is the moment at which the semaphore lets a caller in: the model has more
behaviours than the code, never fewer. Null and empty keys, which the code rejects before
anything happens, and the type test of `GetValue` are left out: stored values have the type
asked for. No order of delivery is assumed between messages.

### StampedeLock and SingleFlight

`StampedeLock` is one key on one node: `entry` is what `_reqLocks` holds for the key, `sem[c]`
the semaphore caller `c` got, `count` the `CurrentCount` of each. A semaphore is named after
its maker, since each caller makes one at most; several are alive at a time because `TryRemove`
removes by key. `l1` and `l2` are the key's entries, which stay here; `Disposal` lets them go at any
moment (its `Expire` stands for expiration, removal and invalidation by tag alike). `Factory` covers a factory that throws and an
insert into L2 that throws after it: in both cases no cache is written and the finally
block follows.

`SingleFlight` is the abstract promise: one runner at a time while nothing is cached, its value
is cached, everybody is answered with the cached value. `Flight` in `StampedeLock` is the
refinement mapping: the value is that of L1, or of L2 until L1 is written; the runner is the
caller between its second look and its write to L2.

### Disposal

`Disposal` extends `StampedeLock` with the steps of `Dispose` (`DisposeLocal`,
`DisposeDistributed`, `ListSemaphores`, `DisposeSemaphore`, `ClearLocks`; closing the topic and
TagKeeper changes nothing a caller of this key sees) and takes the wait apart as `SemaphoreSlim` does
it: `Enter` takes a free semaphore, `Join` enters its queue, `HandOn` is a release that wakes
a waiter, `GiveBack` one that finds none. On a closed cache a step throws (`Throw`); on a disposed
semaphore `WaitAsync` and `Release` throw (`WaitThrows`, `ReleaseThrows`), the latter before
`TryRemove`. What is external here - that a disposed `ICache` throws, that a disposed semaphore
wakes nobody in its queue - is the documented behaviour of those classes; the code relies on it.
`CacheStep` and `DictionaryStep` are the steps of `StampedeLock` as they are.

### TagKeeper

`sentinel` holds the sentinels of L2 (`MinValue`, that is -1, when there is none, as `GetTagFromL2`
answers with `long.MinValue`); `times[n]` is the dictionary of node `n` and, at `Wildcard`, its
field `_globalInvalidationTimestamp`. An entry is a stamp, `Pending` (a task that reads L2
and has not ended), `Faulted` (such a task that threw) or `Unknown`. `pc[n][c]` is the progress
of call `c` on its own node, or of its topic message on another; a subscription runs one
callback at a time.

| Code | Actions |
|---|---|
| `MarkTagInvalidAsync`, one tag or many | `Stamps`, `SetTime`, `SendToL2`, `Publish` |
| `SetWildCard` | `Stamps`, `SetTime`, `ListTags`, `RemoveSentinels`, `ClearTimes`, `TakeWildcard`, `SendToL2`, `Return`, `Publish` |
| `SyncL1TagFromL2`, `SyncWildCardFromL2`, and their tasks | `ReadAhead`, `StoreRead`, `FinishRead`, `ClearTimes`, `AwaitWildcard` |
| callback, Tag and WildCard messages | `Receive`, then the sync actions |
| `IsItemInvalidatedAsync` | `Look`, sync actions, `Compare`, `Scan`, `Search`, `WriteFound` |
| clock, sentinel expiration | `Tick`, `ExpireSentinel` |

`before[c]` is history: which calls had ended where when `c` started.

`SetWildCard` reads its field three times: when it has stamped it, when it sends it (TK:124) and when
it returns (TK:127). By then a callback or a check may have put a read of L2 there. `Return` waits
for that read, and if it threw, the call fails ("unsaid") with its sentinel in L2 and nothing published.

Abstractions. All nodes share one clock. A reader that meets an unfinished read waits until the
*entry* is settled, not that very task; the two differ only if the entry is replaced
meanwhile, and then the code would go on with the older answer. An item is created at any
time before its check starts, and has the same creation time on each level (`HybridCache` has
one for each).
`TagKeeper.Dispose`, which clears the dictionary of a node that stops, is left out.

### HybridCache

One key whose items carry one tag, where the two halves meet. An item is its writer, its creation
stamp and the time it expires; `known[n]` is the tag's stamp in the dictionary of `n`,
`fetched[n]` what an Update callback has read and not yet inserted.

| Code | Actions |
|---|---|
| `SetAsync` | `StampL2`, `PutL2`, `PutL1` (which stamps its own item) |
| `GetOrCreateAsync` | `ReadL1`, `ReadL2`, `Fill`, `Recheck`, then those of `SetAsync` |
| `RemoveByTagAsync` | `StampTag`, `MarkTag`, `SendTag` |
| `SyncL1Callback` | `Fetch` and `Insert` (Update), `SyncTag` (Tag) |
| clock, expirations, a node started anew | `Tick`, `Restart` |

`told[n]` is history: the invalidations that `n` has run or handled since it started.
`before[c]` is history: what had returned when invalidation `c` began.

Abstractions. No flags, faults or wildcard, which the modules of each half have; a read and its
verdict are one step, and so are a write of L2 and its message; the semaphore excludes nobody,
which only adds behaviours. `SentinelsAreReadInTime` assumes that the topic is faster than an
expiration: a Tag message handled after its sentinel has gone would store `long.MinValue` over
the node's stamp (TK:180, TK:157) and validate what was invalid.

### Playground

The two stateful services, for one key with one tag. A request has a kind (one per operation of
`ICachePlaygroundService`, `notify`, `markAllRead`) and goes through a step per access to the
cache, `_metadata`, `_keyRegistry`, a counter or the queue; `RegisterRead` and `RegisterWrite`
are the two halves of `AddOrUpdate` and of the `TimesSet++` in it (CP:659). The cache is its
contract: a call is one step and may throw, its entry may go at any time (`ExpireCached`) and another
may come that this service has not listed (`OtherEntry`: another instance's, by a callback, or one from
L2; one may be there from the start). A listed entry may expire while the cache still has its own
(`ExpireListed`): a copy that was taken from L2 begins a life of its own in L1 (HC:604-614, CP:54-56),
and `PruneExpired` (CP:620) then takes a cached key off the list. `MarkAllRead` (NS:72-76) marks one by
one (`MarkRead`) what was in the queue when it began (`Enumerate`), while others fill and trim it.

`history` records what has spoiled the listing, the counters or the count of registrations since
they last agreed: `alone` is FALSE after updates of the key that overlapped, `exact` after a reset
that overlapped a call, `serial` after registrations that overlapped; `known` is FALSE after an entry
has come that nobody listed (`OtherEntry`, `BulkSetAsync` on a cached key, a call or test that throws
half-way) or has outlived its listing.

### FormValidation

One page with one form, from its load over edits, submits and resets to the server's answer. The
script is third-party code that the playground vendors and every one of its form views loads; the
module is here because it is the one part of the repository, besides the library and the services,
that keeps state over a sequence of events. Handlers run one at a time, so each is one
action: `Parse` (UN:177-255, with `RulesOf` and the adapters), `OnReset` (UN:102-125), `Type`,
`Tick`, `FocusOut` and `Submit` (the handlers of jQuery Validate, with `Check`, `OnError`,
`OnSuccess`, `ShowLabel`), `Fill` (a value put in by a script of the page) and `Answer`, which renders
a page again.

`Rules` is what `$(element).rules()` merges (JV:192-199): the static rules, made of the `data-val`
attributes, over those of the HTML attributes. The pages give every number field a type and a min and
max of its own, and for the two concurrencies that max is the controller's limit
(`StampedeMaxConcurrency`), not the annotation's (Stampede.cshtml:47-48). `ServerAccepts` binds the value,
to an int or, for a blank text, to null, and then checks annotations and limit. A form
is one of three kinds by what its POST answers: a redirect to a new form unless refused, always the
view with what was posted, or always a redirect, as `BulkRemove` and `BulkRemoveByTag` do. The
textareas of these two are *plain*: they carry no `data-val` attributes (Remove.cshtml:92,
RemoveByTag.cshtml:109), so an empty one is posted, and refused without a message beside it.

A text is its length; a number is counted in halves, so that odd ones stand for decimal texts.
`verdict` is history: what the last check of an input, by script or server, found wrong.

Abstractions. The rules after `required` have no order: of those that fail, the message of some
one is shown. Left out are negative numbers and exponents, which both sides refuse alike; ranges with one
end, which no model has; the summary; the range sliders, which have no name, except
for the values they put into a number field (any number field here may have one); the hidden template
index; a list of nothing but separators, which counts as a blank text. No page has a reset button:
`OnReset` is the browser's reset event, for which the script has a handler.

### Proof modules and MC modules

`HybridCacheSyncProofs`, `StampedeLockProofs`, `DisposalProofs`, `TagKeeperProofs`,
`TagInvalidationProofs` (which extends the one before), `HybridCacheProofs`, `PlaygroundProofs` and
`FormValidationProofs` hold the theorems; the modules named `MC...` the requests, flags, workloads,
declarations and symmetry sets of the runs. The operators commented as *mutants* in the component modules are plausible bugs:
`PROJECT.json` pairs each checked property with one that it must detect, and no specification
uses them.

## 3. The runs

| Run | Bounds | Checks | Shows |
|---|---|---|---|
| `sync_nodes` | 2 nodes, 2 keys, 3 calls, no faults, default flags, bulk removal | `TypeOK`, `StaleIsAnnounced`, `RemovalIsAnnounced`, `FollowersConverge` | the synchronisation protocol under all interleavings and orders of delivery |
| `sync_faults` | 2 nodes, 1 key, 2 calls, all faults, eleven requests with their flags | `StaleIsAnnounced`, `EventuallyFresh` | nothing outside the list above loses track, and what is tracked becomes fresh |
| `lock_flight` | 4 default callers, cancelled waits | `TypeOK`, `NoSemaphoreLeft`, `RunsAgainOnlyAfterThrow`, `SameAnswer`, `FlightSpec`, `EveryCallEnds` | default calls are a single flight, and the only leak is that of a cancelled maker |
| `lock_mixed` | 3 callers of different flags, throws, cancelled waits, expiration, `Dispose` at any moment | `ComposedTypeOK`, `SemaphoreExcludes`, `ReleaseFits`, `StrandedBehindHolder`, `NoDisposedIsListed`, `NothingLeftListed`, `EveryCallSettles` | semaphores stay sound though the dictionary loses them and `Dispose` takes them; who may be stranded |
| `tag_marks` | 2 nodes just started, 1 tag, 3 calls, clock to 2, lost messages, failing L2 | `InvalidationHolds`, `FailureStaysHome` | an invalidation that returned holds on every node, one that failed on its own at most |
| `tag_wildcard` | 2 nodes, 1 tag, 3 calls of which one is a wildcard and one a check, clock to 2, lost messages | `OnlyMarkedIsInvalid`, `InvalidationHolds`, `WildcardHolds` | the wildcard with concurrent invalidations and checks |
| `tag_live` | 2 nodes, 2 tags, 2 calls, bulks, clock at 1, all faults | `TypeOK`, `EveryCallEnds` | calls and callbacks end |
| `cache_tags` | 2 nodes, 3 calls (a writer, an invalidation, a reader that may write), clock to 3, L1 expiration 1, L2 expiration 2 or 3, 1 restart | `TypeOK`, `InvalidatedIsNotServed`, `SentinelOutlives` | stamps and lifetimes of two copies and a sentinel |
| `playground` | 2 requests at a time, 3 in all (5 for notifications), five loads, a test of 2 calls, 2 notifications kept | `TypeOK`, `ListingAgrees`, `CountersAddUp`, `RegistrationsCounted`, `NewestKept`, `TrimmingEnds` | the services under overlapping requests |
| `forms` | a key and one of four other inputs, or two plain ones; three kinds of form; lengths to 3, numbers to 3 in halves | `TypeOK`, `ShownIsFound`, `BoxAgreesWithInput`, `LetThroughIsAccepted`, `NoStricterThanServer` | what a form shows and lets through |
| `sync_same` | 2 nodes with one call each, 1 key | `AllL1SameAfterSync` (violated) | see section 5 |
| `lock_concurrent` | 3 default callers, throws | `NoConcurrentFactories` (violated) | see section 5 |

Why the bounds are enough. Two nodes give a caller and a follower; a third adds another
follower, and followers do not interact except through L2. Three calls give two writers and a
late reader, or two writers of one node and one of another. Two keys are what tells a bulk
message from a single one. Two clock values give "created before", "at" and "after" a stamp
(0 and 1 have meanings of their own in TagKeeper); `tag_live` needs no order of stamps to
exercise the waiting, and keeps the clock at 1. `tag_wildcard` keeps to the choices of calls
(`WildcardInit`) with a wildcard and a check among them: without the one `tag_marks` is its
run, without the other nothing is found invalid. Four callers are what it takes for two
semaphores of one key to have a holder and a waiter each; with `Dispose`, three do, one each
inside, in the queue and on its way. In `cache_tags` the clock passes every expiration once, so
that an item, its copies and the sentinel go in every order the code allows, and one restart tells a
node that knows the tag from one that has to ask; what two invalidations of a tag do to each
other is the question of the tag runs, and the theorems of `HybridCacheProofs` have any number. In `playground` two overlapping requests are
what spoils listing, counters and registrations, and a third shows what comes after; five
requests fill a store of two, let two of them trim it, and one trim twice or mark what is there. The
loads keep apart what shares no state, and divide the kinds of update so that every one meets sets,
removals and prunings. In `forms` the two inputs show that a check touches its
own input only, and the values reach below, inside and above every range, with the decimals between;
the limit of the concurrency is below its annotation's maximum, as in the playground's settings. The theorems of
section 4 remove the bounds for all safety properties.

Symmetry is used in safety runs only, over nodes, calls and (where no request names one key in
particular) keys.

Deadlock is checked wherever the model knows what its end looks like: a state in which nothing can
happen must be one in which all calls have ended and nothing is left to deliver (`Quiet`,
`AllEnded`, `AllSettled`). `cache_tags` and `playground` really stop, when the bounded calls,
requests and clock are used up, and say `CHECK_DEADLOCK FALSE`.

### Fairness

`FairSpec` asks for weak fairness of each call's steps, of each node's callback (in TagKeeper:
of each callback's steps) and of each read of L2 that was started. A task that has been started
is scheduled by the .NET thread pool until it ends, and NCache's topic keeps delivering while a
subscriber lives. `ComposedFairSpec` adds that a `Dispose` that has begun goes on - nobody has
to begin it - and asks for nothing from a caller in a queue but what `HandOn` does for it.
`FairSpec` of `Playground` is about the only loop among the services, that of `NotifyAsync`.
`EveryCallEnds` of TagKeeper is `[]<>Quiet`: whatever was started, reads included, comes to rest. Nothing is assumed of callers (`Start`), expiration, restarts, cancellation
or the clock. Weak fairness is enough for the semaphore since each caller takes it once.
Thread-pool starvation by the code's blocking `.Result` is not modelled: a thread is
assumed to be found.

### What the properties leave out, on purpose

* `FollowersConverge` is about a node whose calls leave the key alone, without faults.
* `InvalidationHolds` excludes expiring sentinels (`SentinelOutlives` is about those), items
  younger than some invalidation of the tag, since a newer stamp may be overwritten by an older, and
  tags first invalidated before every wildcard had returned (`WildcardsFirst`): a wildcard takes
  sentinels away, and a message of the tag handled meanwhile leaves its node with `MinValue`,
  which outlasts even an invalidation begun later if that one's message is lost (section 5).
* `WildcardHolds` is about nodes that have synchronised the wildcard before: on a node that
  has just started the first check may lose it (section 5).
* `InvalidatedIsNotServed` leaves out the writer's own L1 copy if an invalidation took its stamp
  after the write began and before that copy was stamped: the copy is younger than L2's and stays valid
  on that node (HC:1104).
* `SentinelOutlives` is about items whose expiration is the configuration's or shorter. A longer one
  outlives the sentinel, and nodes started after that serve the item again (TK:80-82).
* `FailureStaysHome` is about calls that fail before they have written L2. A wildcard that fails at
  its return has its sentinel there already (section 5).
* `ListingAgrees`, `CountersAddUp` and `RegistrationsCounted` promise nothing while requests
  overlap, for the code has no lock; they say that the first update or reset without an overlap
  mends the first two, and that `TimesSet` never counts too much. What `ListingAgrees` says of a cached
  key also excludes (`known`) an entry that nobody listed and one that has outlived its listing
  (section 5), until a set or a removal that is alone; that a key is active if and only if it is listed
  holds all the same.
* `LetThroughIsAccepted` excludes blank texts, decimal numbers and plain inputs (section 5), and
  `NoStricterThanServer` number fields that hold no number, which the browser posts as empty.
* `RunsAgainOnlyAfterThrow`, `SameAnswer` and `FlightSpec` are about default flags, and about
  entries that stay while the calls run: `StampedeLock` has no expiration.

## 4. What is proved

TLAPS checks these theorems for every value of the constants that satisfies
`ConstantsAssumption`: any sets of nodes, keys, calls, tags, flags and faults. Every safety property
of the passing runs is among them.

`HybridCacheSyncProofs`
* `TypeCorrect`: `Spec => []TypeOK`.
* `StaleAnnounced`: `Spec => [](StaleIsAnnounced /\ RemovalIsAnnounced)`. The invariant is
  `TypeOK /\ RemovalSteps /\ Coherence`. `RemovalSteps` says that only a Remove reaches
  `removeL2`, so that a key that leaves L2 has a Remove message coming. `Coherence` joins the two
  properties per node and key: neither is inductive alone, because a callback that reads an absent
  key leaves the local entry where it is, and only the pending Remove saves the first property.
* `RemovalAnnounced`: `Spec => []RemovalIsAnnounced`, from `StaleAnnounced`.
* `FollowersFollow`: `Spec => []FollowersConverge`, from `StaleAnnounced` and the invariant
  that without faults an untouched entry stays settled.

`StampedeLockProofs`
* `TypeCorrect`, and `LockSafe`: exclusion per semaphore and releases that fit, for all
  flags and faults. The invariant counts: a semaphore's count is 1 exactly when it was made
  and nobody is between its `WaitAsync` and its `Release`.
* `ReleasesFit`: `Spec => []ReleaseFits`, from `LockSafe`.
* `SecondRunsAfterThrow`: `Spec => []RunsAgainOnlyAfterThrow`, from the next.
* `SingleFlightHolds`: `RunsAgainOnlyAfterThrow` and `SameAnswer`. The invariant says that
  as long as no factory has thrown, whoever released has left a value in L1, so that a
  newcomer with a new semaphore finds it on its second look.
* `ImplementsSingleFlight`: initial states map to initial states and every step to a step of
  `SingleFlight` or a stutter, under default flags and factories that do not throw.
* `OnlyCancelledLeaves`: `Spec => []NoSemaphoreLeft`. The invariant says that the maker of the
  semaphore in the dictionary either has still to take an entry out, or was cancelled while it
  waited; once every caller has ended only the second is left.

`DisposalProofs`
* `ComposedTypeCorrect`, `DisposalLockSafe` (exclusion and fitting releases), `NoDisposedListed`
  and `StrandedWaitBehindHolder`, for `ComposedSpec`. The invariant is that of `StampedeLock`
  (`LockInv`, whose step lemmas are used again), `QueueInv` and `DisposeInv`. `QueueInv`: whoever
  is in a queue has met a count of zero, and a semaphore at zero has somebody past it, or one that
  has failed to release it. Neither half follows from the other: a release that hands the
  semaphore on leaves the count at zero. `DisposeInv`: what `Dispose` has listed or disposed of was made
  before, so a caller that makes a semaphore later makes another one.
* `OnlyCancelledStayListed`: `ComposedSpec => []NothingLeftListed`. `EntryInv` restates the invariant
  of `OnlyCancelledLeaves` for a dictionary that `Dispose` may empty: the maker of a semaphore that is
  listed and not disposed of has still to take an entry out, or was cancelled while it waited.
* `QueueImplementsSingleFlight`: `InUseSpec => FlightSpec` under default flags and factories that do
  not throw, where `InUseSpec` is `ComposedSpec` without the steps of `Dispose` and the loss of
  entries. The other steps are steps of `StampedeLock` or of the queue alone, except `HandOn`, which
  gives the semaphore back and lets another caller in at once: neither the runner nor an answer
  changes, so it is a stutter of `SingleFlight`. The result does not depend on which waiter is woken.

`TagKeeperProofs`
* `TypeCorrect`: `Spec => []TypeOK`; in particular only stamps ever reach L2.
* `NothingInvalidWithoutCause`: `Spec => []OnlyMarkedIsInvalid`, whatever fails. The invariant is
  `TypeOK /\ StampsPast /\ Control /\ Provenance`. `Provenance` says that every stamp in L2, in a
  dictionary or in a task's hands was taken by an invalidation of that tag (or of
  the wildcard) before; `Control` says what a task has in hand when it writes, that checks
  write only their own node, that a refused bulk never takes a stamp, and that the wildcard field
  is never empty; `StampsPast` keeps every stamp behind the clock.

`HybridCacheProofs`
* `TypeCorrect`: `Spec => []TypeOK`.
* `InvalidatedNotServed`: `Spec => []InvalidatedIsNotServed`, and `SentinelsOutlive`:
  `Spec => []SentinelOutlives`, for any nodes, calls, expirations, clock and number of restarts. The
  invariant joins six parts. `Copies` says where an item may come from: every item in L2, in a
  hand, in a callback or in L1 has the stamp its writer took for L2, or is the writer's own.
  `Provenance` says that known stamps are stamps of invalidations, `Announced` that a sentinel
  is there for every Tag message under way and that a node that was told knows a stamp,
  `Lifetimes` that a sentinel lasts for the configuration's expiration from its invalidation's
  stamp on unless a later one has replaced it. With the precondition "older than all
  invalidations" any known stamp is enough to find the item invalid. `SentinelsAreReadInTime`, a
  guard of `Tick`, is the assumption both rest on.

`TagInvalidationProofs`
* `OlderItemsAreInvalid`: `Spec => []InvalidationHolds`, `OlderItemsFallToWildcard`:
  `Spec => []WildcardHolds`, and `FailedInvalidationStaysHome`: `Spec => []FailureStaysHome`. The
  invariant adds three parts to that of `TagKeeperProofs`. `Places` says which steps a call can be at
  on its own node and which on another, when it has its stamp, and that what has been seen to end has
  ended. `Origins` says of every stamp of L2 that an invalidation of that key has taken
  it, and that one of the same node has brought its own to L2; of a stamp in a dictionary or in a
  task's hands that it is from L2 or from the node itself. `FailureStaysHome` follows. `KeptInv` is
  about the keys whose sentinel nobody takes away (tags with `WildcardsFirst`, and the wildcard on
  nodes that have synchronised it): once an invalidation has reached L2 the sentinel stays, no node
  has `MinValue` for such a tag, and a read is only begun when there is a sentinel to find. `FailureStaysHome` allows for one case more than calls that return: a
  wildcard that is between `SendToL2` and `Return`, or has failed at `Return`, has its sentinel in L2;
  the run that checks the property, `tag_marks`, has no wildcard, so this part is the theorem's alone. Two more
  invariants, `PastTag` and `PastField`, follow a check from its start: it has the tag still
  to look at, or to ask L2 about, or has found the item invalid, or the item is too young.

`PlaygroundProofs`
* `TypeCorrect`: `Spec => []TypeOK`. The invariant also says of every request which parts of its
  record its step gives a meaning to.
* `NewestStayKept`: `Spec => []NewestKept`. Whoever is about to dequeue has seen an entry too many, but
  maybe the same one as others. `StoreInv` bounds the store from below by `MaxEntries + 1` less the
  requests, plus those that are about to dequeue: each of them may still take one. That what is unread
  is newer than what is read rests on every `MarkAllRead` going from the oldest on.
* `RegistrationsAreCounted`: `Spec => []RegistrationsCounted`. While registrations have not
  overlapped, the one that is between its read and its write has read the present count.
* `CountersAreRight`: `Spec => []CountersAddUp`. The invariant is a balance over any finite set of
  requests: what is counted, plus what the requests under way have still to count, is what was
  answered; while a reset is under way there is nothing to balance.
* `ListingDoesNotMislead`: `Spec => []ListingAgrees`. `Progress` says of each step of an update
  what already agrees, if it is the only update under way and none has overlapped it; what is cached
  is only bound by it while `known` holds.

`FormValidationProofs`
* `TypeCorrect`, `MessagesAreFindings` (`ShownIsFound`) and `BoxesFollowInputs`
  (`BoxAgreesWithInput`). The invariant is `Parsed /\ Filled /\ Shown /\ Passed`. `Parsed`: the
  validator's rules are those of the declarations and, once the page is parsed, cover every input
  that declares anything. `Shown` joins both properties with what the first needs: an input shown
  to be wrong has rules, so that the next check or reset can take the mark away. That no check answers
  "unknown" for an input that declares anything rests on `__dummy__` (`CheckFinds`).
* `FewAreBounced` (`LetThroughIsAccepted`) and `ScriptIsNotStricter` (`NoStricterThanServer`), by
  comparing the rules of an arbitrary declaration, static and of attributes, with the server's checks
  (`RefusedIsFailing`, `FailingIsRefused`). These two also rest on `DeclsAssumption`, which says what
  the models and pages have in common: every number has bounds, only numbers have a limit, a checkbox
  has no more than the implicit `required`, a text with bounds is required, and what is plain is a text
  with neither bounds nor an element for messages. The limit and the bounds are any numbers: that the
  limit is below the annotation's maximum is not assumed.

Only model-checked: liveness (`EventuallyFresh`, both `EveryCallEnds`, `EveryCallSettles`,
`TrimmingEnds`), which is out of the prover's reach.

## 5. Disagreements between the code and its documents

Checked by a run of its own:

* `sync_same`: two nodes set one key, once each. A's call is over. B's callback has read A's value from L2
  (HC:249) when B's own `SetAsync` writes L2, publishes and inserts its value into L1 (HC:1114); then the
  callback inserts what it has read (HC:263). B drops its own message (HC:210) and keeps A's value, A
  takes B's. As short is the other race: A's callback brings B's newer value before A's
  own insert at HC:1114, which replaces it by the older one. Test Cases:249 (MN-009) expects all L1
  caches to have the same value after sync.
* `lock_concurrent`: after a factory has thrown, its caller releases the semaphore and takes it
  out of the dictionary (HC:803-809); a waiter enters with it, a newcomer with a new one, and both
  run their factories, against the remarks at HC:462-463.

Met while modelling, each seen with TLC or by reading, without a run in the project:

* The callback of an earlier invalidation has read the old sentinel before, and stores it
  after, the node's own newer stamp (TK:180); the node ignores its own message and keeps the old
  one. Test Cases:250 (MN-010) expects all nodes to report the item invalid.
* The first check after start-up replaces the wildcard field by what it read from L2, and
  `SetWildCard`, which reads the field again (TK:124), sends that. Test Cases:170 (TAG-013)
  expects the global timestamp in L2.
* `SetWildCard` reads the field a third time when it returns (TK:127). If a callback has put a read of L2
  there that threw, `RemoveByTagAsync` throws, its wildcard's sentinel stays in L2 and no message is
  published: nodes that read the wildcard from L2 later know of it, the others do not.
* `Dispose` clears `_reqLocks` "to prevent memory leaks" (HC:1157), and callers in the queue of a
  semaphore it disposes of are never woken: their tasks stay for good.
* `RemoveAsync` is called atomic in API Ref:233; a fill of L1 with what was read from L2 before
  (HC:614) puts the removed entry back into the L1 of the removing node, which ignores its own
  message.
* Two invalidations of a tag may reach L2 in the other order than they took their stamps, and
  the older stamp stays (TK:239); Test Cases:162 (TAG-006) expects the latest.
  `InvalidationHolds` and `HybridCache` are stated for items older than both.
* `SetWildCard` removes tag sentinels, newer ones included (TK:117); Test Cases:175 (TAG-018)
  expects them to stay.
* A Tag message that is handled while a wildcard has removed its sentinel stores `long.MinValue` on the
  node (TK:180), even after the tag has been invalidated again: the node takes the tag's items for
  valid until the next message of the tag. `WildcardsFirst` leaves this out.
* API Ref:386 admits the wildcard among the tags of a bulk `RemoveByTagAsync`;
  `ValidateTagNames` (UT:101) refuses it.
* A caller cancelled while it waits (HC:661 stands before the `try`) leaves a semaphore it
  made in the dictionary, against the comment at HC:807; `NoSemaphoreLeft` states what remains.
* With `DisableLocalCacheWrite` every waiting caller runs its factory, since only L1 is looked
  at again (HC:672); Test Cases:93 (GET-048) expects one invocation.
* In `GetOrCreateAsync` a read flag alone also suppresses the write of its level (HC:738, 762),
  unlike API Ref:531 and 546.
* Tag sentinels expire with the distributed expiration (TK:80-82), against TAG-007.
* On a node started anew, an Update callback that has read an item before its tag was invalidated
  may insert it afterwards, with a lifetime of its own and without a look at its tags (HC:249-263);
  once the sentinel has expired the node serves it.
* `BulkSetAsync` calls `GetOrCreateAsync` and lists the JSON it has generated even if the cache kept
  an older entry (CP:112-137). `RemoveByTagAsync` leaves its entries listed until they expire.
  `PruneExpired` may remove an entry that was set again since it was listed (CP:620-622), and one that
  the cache still serves: a copy that was filled from L2, or came by a callback, lives for its own two
  minutes in L1 (CP:54-56) beyond the end of the listed entry. A
  stampede or concurrent-GET test counts one miss however often its factory ran (CP:358-367).
  Two requests that trim the notifications at once may leave fewer than `MaxEntries` (NS:30);
  the application itself never calls `NotifyAsync`.
* UN:182-185 says of `skipAttach` the opposite of what it does. A reset
  leaves a message's text in place and changes its class only (UN:119-125). jQuery Validate
  takes a blank text for a value where the server's `[Required]` does not, and a decimal as "1.5" for a
  number within bounds (JV:1468) where the server binds an int. The textareas of the bulk removals go
  through empty; the server refuses them and redirects, `BulkRemove` without a word (`Controllers/CacheController.cs`:168-172).

## 6. Not modelled, and why

* Options, dependency injection: no state after start-up.
* `GetValue`'s type test and JSON: data, not control; values have the type asked for.
* Playground controllers, views, other scripts: presentation. `DebugToolsService`,
  `LogFilePathProvider`, `RandomDataFactory`: no protocol of their own. `site.js` is a comment.
* In `Playground`: the registry of tags and the counts per key, kept like what is modelled.
* In `FormValidation`: the summary, the remote and file adapters, `equalto`, `password`, ranges with
  one bound - no form of the playground uses them; hidden and nameless inputs, with which nothing is
  ever wrong.
* Expiration as a duration, except in `HybridCache`: elsewhere it is the loss of an entry at any
  time.

## 7. Plan

Done: every component of the library (`HybridCacheSync`, `StampedeLock` with `SingleFlight`,
`Disposal`, `TagKeeper`, `HybridCache`), the playground's services and forms, their runs, and the
proofs of section 4.

Next, in this order:

1. An abstract specification of the local cache as a set of copies of L2 (absent, current or
   announced), implemented by `HybridCacheSync`.
2. `HybridCache` with lost messages and failing L2 accesses, and with the wildcard.
