------------------------------ MODULE Playground ------------------------------
(***************************************************************************)
(* The two stateful services of the playground, CachePlaygroundService and *)
(* NotificationService: singletons that concurrent HTTP requests use.  The *)
(* first keeps, beside the cache, a listing of its entries (_metadata), a  *)
(* registry of keys and counters; every request changes the cache and then *)
(* these, one after the other, with no lock around them.                   *)
(*                                                                         *)
(* Abstractions.  One key, with one tag and default flags.  The cache is   *)
(* its contract on this instance: a call is one step and may throw, an     *)
(* entry may go at any time, and one may come that this service has not    *)
(* stored.  An item is the number of the request that made it, 0 for one   *)
(* that the service has not listed.  Left out are the registry of tags,    *)
(* which is kept like that of keys, the counts per key, and texts.         *)
(***************************************************************************)
EXTENDS Integers, FiniteSets, Sequences, Functions

CONSTANTS
    Requests,       \* the requests under way at a time
    Loads,          \* what the requests of a behaviour ask for, and how many
                    \* there are (a bound)
    Concurrency,    \* calls of a stampede test or concurrent GET test
    MaxEntries,     \* notifications kept
    None            \* no entry

(* What requests ask for, and the step each begins with. *)
FirstStep == [set |-> "setCache", get |-> "getCache", bulkSet |-> "fetch", test |-> "race",
              evictAndTest |-> "removeCache", remove |-> "removeCache",
              removeByTag |-> "invalidate", prune |-> "list", getKeyRegistry |-> "snapshot",
              reset |-> "resetHits", notify |-> "enqueue", markAllRead |-> "enumerate"]

ASSUME ConstantsAssumption ==
    /\ IsFiniteSet(Requests)
    /\ \A load \in Loads : load.kinds \subseteq DOMAIN FirstStep /\ load.max \in Nat
    /\ {Concurrency, MaxEntries} \subseteq Nat \ {0}
    /\ None \notin Nat /\ None \notin [value : Nat, expired : BOOLEAN]

VARIABLES
    request,    \* kind and next step of each, its item, what it has read from a
                \* registry or the queue, a test's localFactoryHits and answers
    cached,     \* the cache's entry
    metadata,   \* _metadata[key]: value and IsExpired
    registry,   \* _keyRegistry[key]: IsCurrentlyActive, TimesSet (0: no entry)
    count,      \* _hits, _misses, _factoryInvocations
    store,      \* the queue of notifications
    isRead,     \* those marked read
    history     \* the load; numbers of requests, notifications, registrations, counted
                \* answers; how far all is read; that no overlap has spoiled the
                \* listing (alone), the counters (exact), TimesSet (serial); and
                \* that the listing knows what the cache has (known)

vars == <<request, cached, metadata, registry, count, store, isRead, history>>

-----------------------------------------------------------------------------
(* Requests. *)

Updates == {"set", "get", "bulkSet", "test", "evictAndTest", "remove", "prune", "getKeyRegistry"}
Counting == {"get", "bulkSet", "test", "evictAndTest"}
Tests == {"test", "evictAndTest"}

UnderWay(ks) == {r \in Requests : request[r].step # "idle" /\ request[r].kind \in ks}

At(r, s) == request[r].step = s

Go(r, s) == request' = [request EXCEPT ![r].step = s]

NoRequest == [kind |-> "none", step |-> "idle", item |-> 0, seen |-> 0, runs |-> 0, answers |-> 0]

End(r) == request' = [request EXCEPT ![r] = NoRequest]

Arrive(r, k) ==
    /\ At(r, "idle")
    /\ k \in history.load.kinds /\ history.made < history.load.max
    /\ request' = [request EXCEPT ![r] = [NoRequest EXCEPT !.kind = k, !.step = FirstStep[k],
                                                           !.item = history.made + 1]]
    /\ history' = [history EXCEPT
           !.made = @ + 1,
           !.alone = @ /\ (k \in Updates => UnderWay(Updates) = {}),
           !.exact = @ /\ (k = "reset" => UnderWay(Counting) = {})
                       /\ (k \in Counting => UnderWay({"reset"}) = {})]
    /\ UNCHANGED <<cached, metadata, registry, count, store, isRead>>

(* An update that nobody overlaps puts listing and cache in agreement. *)
Settle(r) == history' = [history EXCEPT !.alone = @ \/ UnderWay(Updates) = {r},
                                        !.known = @ \/ UnderWay(Updates) = {r}]

RunFactory(r) ==
    /\ cached = None /\ cached' = request[r].item
    /\ count' = [count EXCEPT !.factories = @ + 1]

(* The cache's call throws, or the factory, and the request ends: the      *)
(* other calls of a test first.  Their factories may have run, and the     *)
(* item may be in the cache although nobody lists it.                      *)
Throw(r) ==
    /\ request[r].step \in {"setCache", "getCache", "fetch", "race", "removeCache", "invalidate"}
    /\ End(r)
    /\ \E ran \in 0..Concurrency :
        /\ ran > 0 => \/ At(r, "race") /\ ran <= Concurrency - request[r].answers
                      \/ request[r].step \in {"getCache", "fetch"} /\ ran = 1
        /\ count' = [count EXCEPT !.factories = @ + ran]
        /\ cached' = cached \/ (cached' = 0 /\ (ran > 0 \/ At(r, "setCache")))
    /\ history' = [history EXCEPT !.known = @ /\ cached' = cached /\ request[r].runs = 0]
    /\ UNCHANGED <<metadata, registry, store, isRead>>

-----------------------------------------------------------------------------
(* SetAsync, BulkSetAsync, GetOrCreateAsync and the tests: the cache. *)

SetCache(r) ==
    /\ At(r, "setCache") /\ Go(r, "track")
    /\ cached' = request[r].item
    /\ Settle(r)
    /\ UNCHANGED <<metadata, registry, count, store, isRead>>

(* BulkSetAsync lists its own item whether or not the cache has taken it.  *)
Fetch(r) ==
    /\ At(r, "fetch") /\ Go(r, "track")
    /\ RunFactory(r) \/ (cached # None /\ UNCHANGED <<cached, count>>)
    /\ history' = [history EXCEPT !.known = @ /\ cached = None]
    /\ UNCHANGED <<metadata, registry, store, isRead>>

Answered(n) == history' = [history EXCEPT !.answered = @ + n]

Hit(r) ==
    /\ At(r, "getCache") /\ cached # None /\ Go(r, "countHit")
    /\ Answered(1)
    /\ UNCHANGED <<cached, metadata, registry, count, store, isRead>>

Miss(r) ==
    /\ At(r, "getCache") /\ RunFactory(r) /\ Go(r, "countMiss")
    /\ Answered(1)
    /\ UNCHANGED <<metadata, registry, store, isRead>>

(* The flag DisableUnderlyingData: no factory and no value. *)
MissWithoutFactory(r) ==
    /\ At(r, "getCache") /\ cached = None /\ Go(r, "countNull")
    /\ history' = [history EXCEPT !.answered = @ + 1, !.nulls = @ + 1]
    /\ UNCHANGED <<cached, metadata, registry, count, store, isRead>>

(* One of the calls of a test. *)
Race(r) ==
    /\ At(r, "race")
    /\ RunFactory(r) \/ (cached # None /\ UNCHANGED <<cached, count>>)
    /\ LET runs == request[r].runs + (IF cached = None THEN 1 ELSE 0)
           answers == request[r].answers + 1
           next == IF answers < Concurrency THEN "race" ELSE
                   IF runs > 0 THEN "track" ELSE "countTest"
       IN  /\ request' = [request EXCEPT ![r].runs = runs, ![r].answers = answers, ![r].step = next]
           /\ IF next = "race" THEN UNCHANGED history ELSE Answered(answers)
    /\ UNCHANGED <<metadata, registry, store, isRead>>

-----------------------------------------------------------------------------
(* The counters. *)

CountHit(r) ==
    /\ At(r, "countHit") /\ End(r)
    /\ count' = [count EXCEPT !.hits = @ + 1]
    /\ UNCHANGED <<cached, metadata, registry, store, isRead, history>>

CountMiss(r) ==
    /\ \/ At(r, "countMiss") /\ Go(r, "track")
       \/ At(r, "countNull") /\ End(r)
    /\ count' = [count EXCEPT !.misses = @ + 1]
    /\ UNCHANGED <<cached, metadata, registry, store, isRead, history>>

(* Mutant: a miss for every run of the factory, a hit for every other call *)
(* than the one that has missed.                                           *)
CountTestByRuns(r) ==
    /\ At(r, "countTest") /\ End(r)
    /\ count' = [count EXCEPT
           !.misses = @ + request[r].runs,
           !.hits = @ + Concurrency - (IF request[r].runs > 0 THEN 1 ELSE 0)]
    /\ UNCHANGED <<cached, metadata, registry, store, isRead, history>>

(* However often the factory has run, a test counts one miss. *)
CountTest(r) ==
    /\ At(r, "countTest") /\ End(r)
    /\ LET missed == IF request[r].runs > 0 THEN 1 ELSE 0
       IN  count' = [count EXCEPT !.misses = @ + missed, !.hits = @ + Concurrency - missed]
    /\ UNCHANGED <<cached, metadata, registry, store, isRead, history>>

(* ResetStatistics: three exchanges. *)
ResetStatistics(r) ==
    /\ \/ /\ At(r, "resetHits") /\ Go(r, "resetMisses")
          /\ count' = [count EXCEPT !.hits = 0]
          /\ history' = [history EXCEPT !.answered = 0, !.nulls = 0,
                                        !.exact = @ \/ UnderWay(Counting) = {}]
       \/ /\ At(r, "resetMisses") /\ Go(r, "resetFactories")
          /\ count' = [count EXCEPT !.misses = 0]
          /\ UNCHANGED history
       \/ /\ At(r, "resetFactories") /\ End(r)
          /\ count' = [count EXCEPT !.factories = 0]
          /\ UNCHANGED history
    /\ UNCHANGED <<cached, metadata, registry, store, isRead>>

-----------------------------------------------------------------------------
(* The listing and the registry. *)

Track(r) ==
    /\ At(r, "track") /\ Go(r, "register")
    /\ metadata' = [value |-> request[r].item, expired |-> FALSE]
    /\ UNCHANGED <<cached, registry, count, store, isRead, history>>

(* RegisterKey: AddOrUpdate looks the key up ... *)
RegisterRead(r) ==
    /\ At(r, "register")
    /\ request' = [request EXCEPT ![r].seen = registry.timesSet, ![r].step = "addOrUpdate"]
    /\ history' = [history EXCEPT !.serial = @ /\ \A q \in Requests : ~At(q, "addOrUpdate")]
    /\ UNCHANGED <<cached, metadata, registry, count, store, isRead>>

(* Mutant: _keyRegistry[key] = new ... *)
RegisterNew(r) ==
    /\ At(r, "addOrUpdate")
    /\ IF request[r].kind \in Tests THEN Go(r, "countTest") ELSE End(r)
    /\ registry' = [active |-> TRUE, timesSet |-> 1]
    /\ history' = [history EXCEPT !.registered = @ + 1]
    /\ UNCHANGED <<cached, metadata, count, store, isRead>>

(* ... and adds it, or looks again if another has, or updates the entry,   *)
(* whose TimesSet++ is a read and a write.                                 *)
RegisterWrite(r) ==
    /\ At(r, "addOrUpdate")
    /\ IF request[r].seen = 0 /\ registry.timesSet # 0
       THEN Go(r, "register") /\ UNCHANGED <<registry, history>>
       ELSE /\ IF request[r].kind \in Tests THEN Go(r, "countTest") ELSE End(r)
            /\ registry' = [active |-> TRUE, timesSet |-> request[r].seen + 1]
            /\ history' = [history EXCEPT !.registered = @ + 1]
    /\ UNCHANGED <<cached, metadata, count, store, isRead>>

(* RemoveAsync, and the eviction before a test. *)
RemoveCache(r) ==
    /\ At(r, "removeCache") /\ Go(r, "untrack")
    /\ cached' = None
    /\ Settle(r)
    /\ UNCHANGED <<metadata, registry, count, store, isRead>>

(* Mutant: the listing forgets nothing. *)
UntrackNothing(r) ==
    /\ At(r, "untrack") /\ Go(r, "deactivate")
    /\ UNCHANGED <<cached, metadata, registry, count, store, isRead, history>>

Untrack(r) ==
    /\ At(r, "untrack") /\ Go(r, "deactivate")
    /\ metadata' = None
    /\ UNCHANGED <<cached, registry, count, store, isRead, history>>

Deactivate(r) ==
    /\ At(r, "deactivate")
    /\ IF request[r].kind = "evictAndTest" THEN Go(r, "race") ELSE End(r)
    /\ registry' = [registry EXCEPT !.active = FALSE]
    /\ UNCHANGED <<cached, metadata, count, store, isRead, history>>

(* RemoveByTagAsync leaves the listing alone. *)
Invalidate(r) ==
    /\ At(r, "invalidate") /\ End(r)
    /\ cached' = None
    /\ UNCHANGED <<metadata, registry, count, store, isRead, history>>

(* PruneExpired lists the keys whose entries have expired, and removes     *)
(* them whatever their entries have become since.                          *)
ListExpired(r) ==
    /\ At(r, "list")
    /\ IF metadata # None /\ metadata.expired THEN Go(r, "untrack") ELSE End(r)
    /\ UNCHANGED <<cached, metadata, registry, count, store, isRead, history>>

(* Mutant: entries for all listed keys. *)
RecomputeListed(r) ==
    /\ At(r, "recompute") /\ End(r)
    /\ registry' = [registry EXCEPT !.active = (request[r].seen = 1)]
    /\ UNCHANGED <<cached, metadata, count, store, isRead, history>>

(* GetKeyRegistry: IsCurrentlyActive from the keys listed a moment ago. *)
Snapshot(r) ==
    /\ At(r, "snapshot")
    /\ request' = [request EXCEPT ![r].seen = IF metadata = None THEN 0 ELSE 1,
                                  ![r].step = "recompute"]
    /\ UNCHANGED <<cached, metadata, registry, count, store, isRead, history>>

Recompute(r) ==
    /\ At(r, "recompute") /\ End(r)
    /\ registry' = [registry EXCEPT !.active = IF registry.timesSet = 0 THEN @ ELSE request[r].seen = 1]
    /\ UNCHANGED <<cached, metadata, count, store, isRead, history>>

-----------------------------------------------------------------------------
(* Notifications. *)

Enqueue(r) ==
    /\ At(r, "enqueue") /\ Go(r, "trim")
    /\ history' = [history EXCEPT !.sent = @ + 1]
    /\ store' = Append(store, history'.sent)
    /\ UNCHANGED <<cached, metadata, registry, count, isRead>>

(* Mutant: one entry less. *)
TrimBelow(r) ==
    /\ At(r, "trim")
    /\ IF Len(store) >= MaxEntries THEN Go(r, "dequeue") ELSE End(r)
    /\ UNCHANGED <<cached, metadata, registry, count, store, isRead, history>>

(* The loop's test ... *)
Trim(r) ==
    /\ At(r, "trim")
    /\ IF Len(store) > MaxEntries THEN Go(r, "dequeue") ELSE End(r)
    /\ UNCHANGED <<cached, metadata, registry, count, store, isRead, history>>

(* Mutant: TryPeek. *)
Peek(r) ==
    /\ At(r, "dequeue") /\ Go(r, "trim")
    /\ UNCHANGED <<cached, metadata, registry, count, store, isRead, history>>

(* ... and its body, before which others may have trimmed the queue. *)
Dequeue(r) ==
    /\ At(r, "dequeue") /\ Go(r, "trim")
    /\ store' = IF store = <<>> THEN store ELSE Tail(store)
    /\ UNCHANGED <<cached, metadata, registry, count, isRead, history>>

NotifyAsync(r) == Enqueue(r) \/ Trim(r) \/ Dequeue(r)

(* MarkAllRead enumerates the queue of the moment at which it starts ... *)
Enumerate(r) ==
    /\ At(r, "enumerate")
    /\ request' = [request EXCEPT ![r].seen = history.sent, ![r].step = "markRead"]
    /\ UNCHANGED <<cached, metadata, registry, count, store, isRead, history>>

(* ... and marks it one by one, from the oldest. *)
MarkRead(r) ==
    /\ At(r, "markRead")
    /\ LET unread == {n \in Range(store) : n <= request[r].seen} \ isRead
       IN  \/ /\ unread = {} /\ End(r)
              /\ history' = [history EXCEPT !.read = IF @ > request[r].seen THEN @
                                                                            ELSE request[r].seen]
              /\ UNCHANGED isRead
           \/ \E n \in unread :
              /\ \A m \in unread : n <= m
              /\ isRead' = isRead \cup {n}
              /\ UNCHANGED <<request, history>>
    /\ UNCHANGED <<cached, metadata, registry, count, store>>

-----------------------------------------------------------------------------
(* The cache loses its entry: expiration, eviction, another node. *)
ExpireCached ==
    /\ cached # None /\ cached' = None
    /\ UNCHANGED <<request, metadata, registry, count, store, isRead, history>>

(* An entry comes that this service has not listed: that of another        *)
(* instance, or of a call here that has failed or been overtaken.          *)
OtherEntry ==
    /\ cached' = 0
    /\ history' = [history EXCEPT !.known = FALSE]
    /\ UNCHANGED <<request, metadata, registry, count, store, isRead>>

(* A listed entry expires.  The cache may still have its own: a copy that  *)
(* was taken from L2 begins a new life in L1.                              *)
ExpireListed ==
    /\ metadata # None /\ ~metadata.expired
    /\ metadata' = [metadata EXCEPT !.expired = TRUE]
    /\ history' = [history EXCEPT !.known = @ /\ cached = None]
    /\ UNCHANGED <<request, cached, registry, count, store, isRead>>

(* The cache may have kept an entry from before this instance was started. *)
Init ==
    /\ request = [r \in Requests |-> NoRequest]
    /\ cached \in {None, 0} /\ metadata = None
    /\ registry = [active |-> FALSE, timesSet |-> 0]
    /\ count = [hits |-> 0, misses |-> 0, factories |-> 0]
    /\ store = <<>> /\ isRead = {}
    /\ \E load \in Loads :
        history = [load |-> load, made |-> 0, sent |-> 0, registered |-> 0, answered |-> 0,
                   nulls |-> 0, read |-> 0, alone |-> TRUE, exact |-> TRUE, serial |-> TRUE,
                   known |-> (cached = None)]

Step(r) ==
    \/ SetCache(r) \/ Fetch(r) \/ Hit(r) \/ Miss(r) \/ MissWithoutFactory(r) \/ Race(r) \/ Throw(r)
    \/ CountHit(r) \/ CountMiss(r) \/ CountTest(r) \/ ResetStatistics(r)
    \/ Track(r) \/ RegisterRead(r) \/ RegisterWrite(r) \/ RemoveCache(r) \/ Untrack(r)
    \/ Deactivate(r) \/ Invalidate(r) \/ ListExpired(r) \/ Snapshot(r) \/ Recompute(r)
    \/ NotifyAsync(r) \/ Enumerate(r) \/ MarkRead(r)

Next ==
    \/ \E r \in Requests : Step(r) \/ \E k \in DOMAIN FirstStep : Arrive(r, k)
    \/ ExpireCached \/ OtherEntry \/ ExpireListed

Spec == Init /\ [][Next]_vars

(* A request goes on until it has answered.  Only NotifyAsync has a loop.  *)
FairSpec == Spec /\ \A r \in Requests : WF_vars(NotifyAsync(r))

-----------------------------------------------------------------------------
(* Properties. *)

Quiet == UnderWay(DOMAIN FirstStep) = {}

TypeOK ==
    /\ \A r \in Requests :
        /\ request[r].kind \in history.load.kinds \cup {"none"}
        /\ request[r].kind = "none" <=> request[r].step = "idle"
        /\ request[r].runs \in 0..request[r].answers /\ request[r].answers \in 0..Concurrency
    /\ cached \in 0..history.made \cup {None}
    /\ metadata \in [value : 1..history.made, expired : BOOLEAN] \cup {None}
    /\ registry \in [active : BOOLEAN, timesSet : 0..history.registered]
    /\ registry.active => registry.timesSet > 0
    /\ \A c \in DOMAIN count : count[c] \in Nat
    /\ isRead \subseteq 1..history.sent

(* The page that lists the entries does not mislead, as long as no two     *)
(* updates of the key have overlapped since the last that was alone.  The  *)
(* key is active if and only if it is listed.  What the cache has is       *)
(* listed, with its value, unless an entry has come that nobody listed or  *)
(* has outlived its listing.                                               *)
ListingAgrees ==
    Quiet /\ history.alone =>
        /\ history.known /\ cached # None => metadata # None /\ metadata.value = cached
        /\ registry.active <=> metadata # None

(* Hits and misses are together the answers given, tests included, and     *)
(* every miss but those without a factory is one of its runs: when no      *)
(* reset has overlapped a call since the last that was alone.              *)
CountersAddUp ==
    Quiet /\ history.exact =>
        /\ count.hits + count.misses = history.answered
        /\ count.misses <= count.factories + history.nulls

(* A key that was registered is counted, once per registration, unless two *)
(* registrations have overlapped; and never more often.                    *)
RegistrationsCounted ==
    /\ registry.timesSet <= history.registered
    /\ history.registered > 0 => registry.timesSet > 0
    /\ history.serial => registry.timesSet = history.registered

(* The store holds the newest notifications, in order: at most MaxEntries  *)
(* of them when nobody trims, and, since every request under way may have  *)
(* seen the same entry too many, at least MaxEntries less the others.      *)
(* What is unread there is newer than what is read, and than every         *)
(* MarkAllRead that has ended.                                             *)
NewestKept ==
    LET fewest == MaxEntries + 1 - Cardinality(Requests)
    IN  /\ \A i \in DOMAIN store : store[i] = history.sent - Len(store) + i
        /\ Len(store) >= fewest \/ Len(store) = history.sent
        /\ UnderWay({"notify"}) = {} => Len(store) <= MaxEntries
        /\ \A n \in Range(store) \ isRead :
            n > history.read /\ \A m \in Range(store) \cap isRead : m < n

(* The loop that trims the queue ends although others fill and trim it.    *)
TrimmingEnds == []<>(UnderWay({"notify"}) = {})

=============================================================================
