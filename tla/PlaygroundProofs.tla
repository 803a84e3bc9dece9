--------------------------- MODULE PlaygroundProofs ---------------------------
(***************************************************************************)
(* What the services of the playground promise, for any requests, loads,   *)
(* length of a test and size of the queue: types, the queue of             *)
(* notifications (NewestKept), the registry (RegistrationsCounted), the    *)
(* counters (CountersAddUp) and the listing (ListingAgrees).               *)
(*                                                                         *)
(* Each has an invariant of its own beside the types.  Those of the        *)
(* counters and of the listing say what a request has still to do, and     *)
(* speak only of the behaviours that history calls exact and alone.        *)
(***************************************************************************)
EXTENDS Playground, FiniteSetTheorems, SequenceTheorems, TLAPS

-----------------------------------------------------------------------------
(* Types. *)

(* The steps of each kind of request. *)
Registering == {"track", "register", "addOrUpdate"}
Removing == {"removeCache", "untrack", "deactivate"}

StepsOf == [none |-> {"idle"},
            set |-> {"setCache"} \cup Registering,
            get |-> {"getCache", "countHit", "countMiss", "countNull"} \cup Registering,
            bulkSet |-> {"fetch"} \cup Registering,
            test |-> {"race", "countTest"} \cup Registering,
            evictAndTest |-> {"race", "countTest"} \cup Registering \cup Removing,
            remove |-> Removing,
            removeByTag |-> {"invalidate"},
            prune |-> {"list", "untrack", "deactivate"},
            getKeyRegistry |-> {"snapshot", "recompute"},
            reset |-> {"resetHits", "resetMisses", "resetFactories"},
            notify |-> {"enqueue", "trim", "dequeue"},
            markAllRead |-> {"enumerate", "markRead"}]

Steps == UNION {StepsOf[k] : k \in DOMAIN StepsOf}

RequestType == [kind : DOMAIN StepsOf, step : Steps, item : Nat, seen : Nat,
                runs : Nat, answers : Nat]

HistoryTypes ==
    /\ DOMAIN history = {"load", "made", "sent", "registered", "answered", "nulls",
                         "read", "alone", "exact", "serial", "known"}
    /\ history.load \in Loads /\ history.made \in Nat /\ history.sent \in Nat
    /\ history.registered \in Nat /\ history.answered \in Nat /\ history.nulls \in Nat
    /\ history.read \in Nat

Types ==
    /\ count \in [hits : Nat, misses : Nat, factories : Nat]
    /\ store \in Seq(Nat)
    /\ HistoryTypes

(* A request that is under way: only tests have answers of their own, and  *)
(* these begin with the race.                                              *)
Formed(q, h) ==
    /\ q.kind \in h.load.kinds \cup {"none"}
    /\ q.kind \in DOMAIN StepsOf /\ q.step \in StepsOf[q.kind]
    /\ q.step # "idle" => q.item \in 1..h.made
    /\ q.runs \in 0..q.answers /\ q.answers \in 0..Concurrency
    /\ q.kind \notin Tests \/ q.step \in Removing => q.answers = 0
    /\ q.step = "race" => q.answers < Concurrency
    /\ q.step = "addOrUpdate" => q.seen <= h.registered

(* The store holds what was sent last, in order. *)
InOrder ==
    /\ Len(store) <= history.sent
    /\ \A i \in DOMAIN store : store[i] = history.sent - Len(store) + i

Kept ==
    /\ cached \in 0..history.made \cup {None}
    /\ metadata \in [value : 1..history.made, expired : BOOLEAN] \cup {None}
    /\ registry \in [active : BOOLEAN, timesSet : 0..history.registered]
    /\ registry.active => registry.timesSet > 0
    /\ isRead \subseteq 1..history.sent

Requested ==
    /\ request \in [Requests -> RequestType]
    /\ \A r \in Requests : Formed(request[r], history)

TypeInv == Types /\ Requested /\ InOrder /\ Kept

-----------------------------------------------------------------------------
(* The queue and the registry. *)

Dequeuing == {r \in Requests : At(r, "dequeue")}

(* Whoever is about to take an entry has seen one too many. *)
StoreInv ==
    /\ \/ Dequeuing = {} /\ Len(store) = history.sent
       \/ Len(store) >= MaxEntries + 1 - Cardinality(Requests) + Cardinality(Dequeuing)
    /\ Len(store) > MaxEntries => \E r \in Requests : At(r, "trim") \/ At(r, "dequeue")

(* What a MarkAllRead has seen is read from the oldest on. *)
ReadInv ==
    /\ history.read <= history.sent
    /\ \A r \in Requests : At(r, "markRead") => request[r].seen <= history.sent
    /\ \A n \in Range(store) \ isRead :
        n > history.read /\ \A m \in Range(store) \cap isRead : m < n

(* As long as registrations follow each other, what one has read is true.  *)
RegistryInv ==
    /\ history.registered > 0 => registry.timesSet > 0
    /\ history.serial =>
        /\ registry.timesSet = history.registered
        /\ \A r \in Requests : At(r, "addOrUpdate") => request[r].seen = registry.timesSet
        /\ \A r, q \in Requests : At(r, "addOrUpdate") /\ At(q, "addOrUpdate") => r = q

-----------------------------------------------------------------------------
(* The counters. *)

(* Answered and not yet counted: calls, and whole tests. *)
CallsToCount == {r \in Requests : request[r].step \in {"countHit", "countMiss", "countNull"}}
TestsToCount ==
    {r \in Requests : /\ request[r].kind \in Tests
                      /\ request[r].step \in Registering \cup {"countTest"}}

(* The misses to count: a test has one from the first run of its factory. *)
MissesToCount ==
    {r \in Requests : \/ request[r].step \in {"countMiss", "countNull"}
                      \/ request[r].kind \in Tests /\ request[r].runs > 0}

Balanced ==
    /\ count.hits + count.misses + Cardinality(CallsToCount)
           + Concurrency * Cardinality(TestsToCount) = history.answered
    /\ count.misses + Cardinality(MissesToCount) <= count.factories + history.nulls

(* The hits have been reset, and something is left to reset. *)
Resetting == {r \in Requests : request[r].step \in {"resetMisses", "resetFactories"}}

CountInv ==
    history.exact =>
        /\ UnderWay(Counting) = {} \/ UnderWay({"reset"}) = {}
        /\ Resetting = {} => Balanced
        /\ Resetting # {} =>
            /\ count.hits = 0 /\ history.answered = 0 /\ history.nulls = 0
            /\ count.misses = 0 \/ \E r \in Requests : At(r, "resetMisses")

-----------------------------------------------------------------------------
(* The listing. *)

(* Listing, registry and cache agree; what the listing calls expired is no *)
(* longer in the cache.  What is said of the cache is said as long as the  *)
(* listing knows what it has.                                              *)
Matched == registry.active <=> metadata # None

Agree ==
    /\ history.known /\ cached # None =>
          metadata # None /\ metadata.value = cached /\ ~metadata.expired
    /\ Matched

Stored(r) == history.known => cached \in {request[r].item, None}

Listed(r) ==
    /\ metadata # None /\ metadata.value = request[r].item
    /\ history.known /\ metadata.expired => cached = None

(* What is true at each step of the only update under way. *)
Progress(r) ==
    LET s == request[r].step
    IN  /\ s \in {"setCache", "getCache", "fetch", "list", "snapshot", "recompute", "removeCache",
                  "countHit", "countNull", "countTest"} => Agree
        /\ s = "race" => Matched /\ IF request[r].runs = 0 THEN Agree ELSE Stored(r)
        /\ s = "recompute" => (request[r].seen = 1 <=> metadata # None)
        /\ s \in {"countMiss", "track"} => Stored(r)
        /\ s \in {"register", "addOrUpdate"} => Stored(r) /\ Listed(r)
        /\ s \in {"untrack", "deactivate"} => (history.known => cached = None)
        /\ s = "deactivate" => metadata = None

ListingInv ==
    history.alone =>
        /\ \A r, q \in UnderWay(Updates) : r = q
        /\ UnderWay(Updates) = {} => Agree
        /\ \A r \in UnderWay(Updates) : Progress(r)

-----------------------------------------------------------------------------
(* Types: proofs. *)

LEMMA KindCases ==
    ASSUME NEW k \in DOMAIN StepsOf
    PROVE  \/ k = "none" /\ StepsOf[k] = {"idle"}
           \/ k = "set" /\ StepsOf[k] = {"setCache"} \cup Registering
           \/ k = "get" /\ StepsOf[k] = {"getCache", "countHit", "countMiss", "countNull"}
                                            \cup Registering
           \/ k = "bulkSet" /\ StepsOf[k] = {"fetch"} \cup Registering
           \/ k = "test" /\ StepsOf[k] = {"race", "countTest"} \cup Registering
           \/ k = "evictAndTest" /\ StepsOf[k] = {"race", "countTest"} \cup Registering
                                                     \cup Removing
           \/ k = "remove" /\ StepsOf[k] = Removing
           \/ k = "removeByTag" /\ StepsOf[k] = {"invalidate"}
           \/ k = "prune" /\ StepsOf[k] = {"list", "untrack", "deactivate"}
           \/ k = "getKeyRegistry" /\ StepsOf[k] = {"snapshot", "recompute"}
           \/ k = "reset" /\ StepsOf[k] = {"resetHits", "resetMisses", "resetFactories"}
           \/ k = "notify" /\ StepsOf[k] = {"enqueue", "trim", "dequeue"}
           \/ k = "markAllRead" /\ StepsOf[k] = {"enumerate", "markRead"}
  BY DEF StepsOf

(* A request of kind k may go from one step to the next. *)
LEMMA StepTo ==
    ASSUME NEW k \in DOMAIN StepsOf
    PROVE  /\ "setCache" \in StepsOf[k] \/ "fetch" \in StepsOf[k] \/ "countMiss" \in StepsOf[k]
                => "track" \in StepsOf[k]
           /\ "getCache" \in StepsOf[k]
                => {"countHit", "countMiss", "countNull"} \subseteq StepsOf[k]
           /\ "race" \in StepsOf[k] => {"race", "track", "countTest"} \subseteq StepsOf[k]
           /\ "resetHits" \in StepsOf[k] => "resetMisses" \in StepsOf[k]
           /\ "resetMisses" \in StepsOf[k] => "resetFactories" \in StepsOf[k]
           /\ "track" \in StepsOf[k] => "register" \in StepsOf[k]
           /\ "register" \in StepsOf[k] => "addOrUpdate" \in StepsOf[k]
           /\ "addOrUpdate" \in StepsOf[k] => "register" \in StepsOf[k]
           /\ "addOrUpdate" \in StepsOf[k] /\ k \in Tests => "countTest" \in StepsOf[k]
           /\ "removeCache" \in StepsOf[k] => "untrack" \in StepsOf[k]
           /\ "untrack" \in StepsOf[k] => "deactivate" \in StepsOf[k]
           /\ k = "evictAndTest" => "race" \in StepsOf[k]
           /\ "list" \in StepsOf[k] => "untrack" \in StepsOf[k]
           /\ "snapshot" \in StepsOf[k] => "recompute" \in StepsOf[k]
           /\ "enqueue" \in StepsOf[k] => "trim" \in StepsOf[k]
           /\ "trim" \in StepsOf[k] <=> "dequeue" \in StepsOf[k]
           /\ "enumerate" \in StepsOf[k] => "markRead" \in StepsOf[k]
           /\ "idle" \in StepsOf[k] <=> k = "none"
  BY KindCases DEF Registering, Removing, Tests

LEMMA FirstSteps ==
    ASSUME NEW k \in DOMAIN FirstStep
    PROVE  /\ k \in DOMAIN StepsOf /\ FirstStep[k] \in StepsOf[k]
           /\ k # "none" /\ FirstStep[k] # "idle"
           /\ FirstStep[k] \notin {"addOrUpdate", "trim", "dequeue", "countHit", "countMiss",
                                   "countNull", "countTest", "resetMisses", "resetFactories",
                                   "track", "register", "recompute", "untrack", "deactivate"}
<1>1. \/ k = "set" /\ FirstStep[k] = "setCache"
      \/ k = "get" /\ FirstStep[k] = "getCache"
      \/ k = "bulkSet" /\ FirstStep[k] = "fetch"
      \/ k = "test" /\ FirstStep[k] = "race"
      \/ k = "evictAndTest" /\ FirstStep[k] = "removeCache"
      \/ k = "remove" /\ FirstStep[k] = "removeCache"
      \/ k = "removeByTag" /\ FirstStep[k] = "invalidate"
      \/ k = "prune" /\ FirstStep[k] = "list"
      \/ k = "getKeyRegistry" /\ FirstStep[k] = "snapshot"
      \/ k = "reset" /\ FirstStep[k] = "resetHits"
      \/ k = "notify" /\ FirstStep[k] = "enqueue"
      \/ k = "markAllRead" /\ FirstStep[k] = "enumerate"
  BY DEF FirstStep
<1>2. k \in DOMAIN StepsOf
  BY <1>1 DEF StepsOf
<1>3. FirstStep[k] \in StepsOf[k]
  BY <1>1, <1>2, KindCases DEF Removing
<1>4. k # "none" /\ FirstStep[k] # "idle"
  BY <1>1
<1> QED  BY <1>1, <1>2, <1>3, <1>4

(* A step of a request may add to the numbers of history. *)
Later ==
    /\ HistoryTypes'
    /\ history'.load = history.load /\ history'.made >= history.made
    /\ history'.registered >= history.registered

LEMMA FormedLater ==
    ASSUME NEW q, q.seen \in Nat, Types, Later, Formed(q, history)
    PROVE  Formed(q, history')
<1>1. /\ history.made \in Nat /\ history'.made \in Nat /\ history.made <= history'.made
      /\ history.registered \in Nat /\ history'.registered \in Nat
      /\ history.registered <= history'.registered /\ history'.load = history.load
  BY DEF Types, HistoryTypes, Later
<1>2. q.kind \in history'.load.kinds \cup {"none"}
  BY <1>1 DEF Formed
<1>3. q.step # "idle" => q.item \in 1..history'.made
  BY <1>1 DEF Formed
<1>4. q.step = "addOrUpdate" => q.seen <= history'.registered
  BY <1>1 DEF Formed
<1> QED  BY <1>2, <1>3, <1>4 DEF Formed

LEMMA RequestMoves ==
    ASSUME Requested, Types, Later, NEW r \in Requests,
           NEW x \in RequestType,
           request' = [request EXCEPT ![r] = x],
           Formed(x, history')
    PROVE  Requested'
<1>1. request' \in [Requests -> RequestType]
  BY DEF Requested
<1>2. ASSUME NEW q \in Requests PROVE Formed(request'[q], history')
  <2>1. CASE q = r
    BY <2>1 DEF Requested
  <2>2. CASE q # r
    <3>1. request'[q] = request[q]  BY <2>2 DEF Requested
    <3> QED  BY <3>1, FormedLater DEF Requested, RequestType
  <2> QED  BY <2>1, <2>2
<1> QED  BY <1>1, <1>2 DEF Requested

LEMMA RequestStays ==
    ASSUME Requested, Types, Later, UNCHANGED request
    PROVE  Requested'
  BY FormedLater DEF Requested, RequestType

(* The request goes on. *)
LEMMA RequestGoes ==
    ASSUME Requested, Types, Later, NEW r \in Requests, NEW s,
           Go(r, s), s \in StepsOf[request[r].kind], ~At(r, "idle"),
           s # "addOrUpdate", s \in {"race"} \cup Removing => request[r].answers = 0
    PROVE  Requested'
<1> DEFINE x == [request[r] EXCEPT !.step = s]
<1>1. s \in Steps
  BY DEF Steps, Requested, Formed
<1>2. x \in RequestType
  BY <1>1 DEF Requested, RequestType
<1>3. Formed(request[r], history')
  BY FormedLater DEF Requested, RequestType
<1>4. s # "idle" /\ request[r].step # "idle"
  <2>1. request[r].kind \in DOMAIN StepsOf /\ request[r].step \in StepsOf[request[r].kind]
    BY DEF Requested, Formed
  <2> QED  BY <2>1, StepTo, KindCases DEF At
<1>5. Formed(x, history')
  BY <1>3, <1>4, ConstantsAssumption DEF Requested, Formed
<1>6. request' = [request EXCEPT ![r] = x]
  BY DEF Go, Requested
<1> QED  BY <1>2, <1>5, <1>6, RequestMoves

LEMMA RequestEnds ==
    ASSUME Requested, Types, Later, NEW r \in Requests, End(r)
    PROVE  Requested'
<1>1. /\ "none" \in DOMAIN StepsOf /\ StepsOf["none"] = {"idle"}
      /\ "idle" \in Steps
  BY DEF StepsOf, Steps
<1>2. NoRequest \in RequestType
  BY <1>1 DEF NoRequest, RequestType
<1>3. Formed(NoRequest, history')
  BY <1>1, ConstantsAssumption DEF NoRequest, Formed, Tests, Removing
<1> QED  BY <1>2, <1>3, RequestMoves DEF End

LEMMA KeptMoves ==
    ASSUME Kept, Types, Later, history'.sent >= history.sent,
           cached' = cached \/ cached' \in 0..history'.made \cup {None},
           \/ metadata' = metadata
           \/ metadata' \in [value : 1..history'.made, expired : BOOLEAN]
                                \cup {None},
           \/ registry' = registry
           \/ /\ registry' \in [active : BOOLEAN, timesSet : 0..history'.registered]
              /\ registry'.active => registry'.timesSet > 0,
           isRead' = isRead \/ isRead' \subseteq 1..history'.sent
    PROVE  Kept'
<1>1. /\ history.made \in Nat /\ history'.made \in Nat /\ history.made <= history'.made
      /\ history.registered \in Nat /\ history'.registered \in Nat
      /\ history.registered <= history'.registered
      /\ history.sent \in Nat /\ history'.sent \in Nat /\ history.sent <= history'.sent
  BY DEF Types, HistoryTypes, Later
<1>2. cached' \in 0..history'.made \cup {None}
  BY <1>1 DEF Kept
<1>3. metadata' \in [value : 1..history'.made, expired : BOOLEAN] \cup {None}
  BY <1>1 DEF Kept
<1>4. registry' \in [active : BOOLEAN, timesSet : 0..history'.registered]
  BY <1>1 DEF Kept
<1>5. registry'.active => registry'.timesSet > 0
  BY <1>1 DEF Kept
<1>6. isRead' \subseteq 1..history'.sent
  <2>1. 1..history.sent \subseteq 1..history'.sent
    BY <1>1
  <2> QED  BY <2>1 DEF Kept
<1> QED  BY <1>2, <1>3, <1>4, <1>5, <1>6 DEF Kept

(* Steps that leave the notifications alone. *)
LEMMA TypesMove ==
    ASSUME Types, InOrder, Later, UNCHANGED store, history'.sent = history.sent,
           count' = count \/ count' \in [hits : Nat, misses : Nat, factories : Nat]
    PROVE  Types' /\ InOrder'
  BY DEF Types, HistoryTypes, InOrder, Later

LEMMA HistoryStays ==
    ASSUME Types, UNCHANGED history
    PROVE  Later /\ history'.sent = history.sent
  BY DEF Types, HistoryTypes, Later

LEMMA RequestFacts ==
    ASSUME Requested, Types, NEW r \in Requests
    PROVE  /\ request[r].kind \in DOMAIN StepsOf
           /\ request[r].step \in StepsOf[request[r].kind]
           /\ request[r] \in RequestType
           /\ request[r].kind = "none" <=> At(r, "idle")
           /\ ~At(r, "idle") => request[r].item \in 1..history.made
           /\ request[r].runs \in Nat /\ request[r].answers \in Nat /\ Concurrency \in Nat \ {0}
           /\ request[r].runs <= request[r].answers /\ request[r].answers <= Concurrency
           /\ request[r].kind \notin Tests \/ request[r].step \in Removing
                => request[r].answers = 0 /\ request[r].runs = 0
           /\ At(r, "race") => request[r].answers < Concurrency
           /\ At(r, "addOrUpdate") => request[r].seen <= history.registered
           /\ history.made \in Nat /\ history.registered \in Nat /\ history.sent \in Nat
<1>1. request[r].kind \in DOMAIN StepsOf /\ request[r].step \in StepsOf[request[r].kind]
  BY DEF Requested, Formed
<1>2. request[r].kind = "none" <=> At(r, "idle")
  BY <1>1, StepTo, KindCases DEF At
<1> QED
  BY <1>1, <1>2, ConstantsAssumption DEF Requested, Formed, Types, HistoryTypes, RequestType, At

(* A step that goes on, leaves the notifications alone and stores only     *)
(* what its item allows.                                                   *)
LEMMA Goes ==
    ASSUME TypeInv, NEW r \in Requests, NEW s, Go(r, s), s \in StepsOf[request[r].kind],
           ~At(r, "idle"), s # "addOrUpdate", s \in {"race"} \cup Removing => request[r].answers = 0,
           Later, history'.sent = history.sent, UNCHANGED <<store, isRead>>,
           count' = count \/ count' \in [hits : Nat, misses : Nat, factories : Nat],
           cached' = cached \/ cached' \in {request[r].item, None},
           metadata' = metadata \/ metadata' = None
              \/ metadata' \in [value : {request[r].item}, expired : BOOLEAN],
           \/ registry' = registry
           \/ /\ registry' \in [active : BOOLEAN, timesSet : 0..history'.registered]
              /\ registry'.active => registry'.timesSet > 0
    PROVE  TypeInv'
<1>1. request[r].item \in 1..history'.made
  <2>1. request[r].item \in 1..history.made
    BY RequestFacts DEF TypeInv
  <2>2. history.made \in Nat /\ history'.made \in Nat /\ history.made <= history'.made
    BY DEF TypeInv, Types, HistoryTypes, Later
  <2> QED  BY <2>1, <2>2
<1>2. Requested'
  BY RequestGoes DEF TypeInv
<1>3. Types' /\ InOrder'
  BY TypesMove DEF TypeInv
<1>4. history.sent \in Nat
  BY DEF TypeInv, Types, HistoryTypes
<1>5. Kept'
  <2>1. cached' = cached \/ cached' \in 0..history'.made \cup {None}
    BY <1>1
  <2>2. \/ metadata' = metadata
        \/ metadata' \in [value : 1..history'.made, expired : BOOLEAN]
                             \cup {None}
    BY <1>1
  <2> QED  BY <2>1, <2>2, <1>4, KeptMoves DEF TypeInv
<1> QED  BY <1>2, <1>3, <1>5 DEF TypeInv

LEMMA Ends ==
    ASSUME TypeInv, NEW r \in Requests, End(r),
           Later, history'.sent = history.sent, UNCHANGED <<store, metadata>>,
           count' = count \/ count' \in [hits : Nat, misses : Nat, factories : Nat],
           cached' = cached \/ cached' \in {0, None},
           \/ registry' = registry
           \/ /\ registry' \in [active : BOOLEAN, timesSet : 0..history'.registered]
              /\ registry'.active => registry'.timesSet > 0,
           isRead' = isRead \/ isRead' \subseteq 1..history'.sent
    PROVE  TypeInv'
<1>1. Requested'
  BY RequestEnds DEF TypeInv
<1>2. Types' /\ InOrder'
  BY TypesMove DEF TypeInv
<1>3. history.sent \in Nat
  BY DEF TypeInv, Types, HistoryTypes
<1>4. Kept'
  <2>1. cached' = cached \/ cached' \in 0..history'.made \cup {None}
    BY DEF Later, HistoryTypes
  <2> QED  BY <1>3, <2>1, KeptMoves DEF TypeInv
<1> QED  BY <1>1, <1>2, <1>4 DEF TypeInv

LEMMA TailInOrder ==
    ASSUME InOrder, store \in Seq(Nat), history.sent \in Nat, store # <<>>,
           store' = Tail(store), UNCHANGED history
    PROVE  InOrder'
<1>1. /\ store' \in Seq(Nat) /\ Len(store') = Len(store) - 1 /\ Len(store) \in Nat
      /\ \A i \in 1..Len(store') : store'[i] = store[i + 1]
  OBVIOUS
<1>2. DOMAIN store' = 1..(Len(store) - 1) /\ DOMAIN store = 1..Len(store)
  BY <1>1
<1>3. Len(store') <= history'.sent
  BY <1>1 DEF InOrder
<1>4. ASSUME NEW i \in 1..(Len(store) - 1)
      PROVE  store'[i] = history.sent - (Len(store) - 1) + i
  <2>1. i \in Int /\ i + 1 \in DOMAIN store /\ store'[i] = store[i + 1]
    BY <1>1, <1>2
  <2>2. store[i + 1] = history.sent - Len(store) + (i + 1)
    BY <2>1 DEF InOrder
  <2>3. \A a, l, j \in Int : a - l + (j + 1) = a - (l - 1) + j
    OBVIOUS
  <2>4. history.sent \in Int /\ Len(store) \in Int
    BY <1>1
  <2> QED  BY <2>1, <2>2, <2>3, <2>4
<1> QED  BY <1>1, <1>2, <1>3, <1>4 DEF InOrder

(* A MarkAllRead marks the oldest that it has seen and not yet read, or    *)
(* there is none and it ends.                                              *)
LEMMA Marks ==
    ASSUME NEW r \in Requests, MarkRead(r)
    PROVE  /\ At(r, "markRead") /\ UNCHANGED <<cached, metadata, registry, count, store>>
           /\ \/ /\ \A n \in Range(store) \ isRead : ~(n <= request[r].seen)
                 /\ End(r) /\ UNCHANGED isRead
                 /\ \E n \in {history.read, request[r].seen} : history' = [history EXCEPT !.read = n]
              \/ /\ UNCHANGED <<request, history>>
                 /\ \E n \in Range(store) \ isRead :
                    /\ n <= request[r].seen /\ isRead' = isRead \cup {n}
                    /\ \A m \in Range(store) \ isRead : m <= request[r].seen => n <= m
  BY DEF MarkRead

LEMMA ReadingIsLater ==
    ASSUME Types, NEW n \in Nat, history' = [history EXCEPT !.read = n]
    PROVE  Later /\ history'.sent = history.sent
  BY DEF Types, HistoryTypes, Later

(* Every step of a request keeps the types. *)
LEMMA StepTypes ==
    ASSUME TypeInv, NEW r \in Requests, Step(r)
    PROVE  TypeInv'
<1> USE StepTo, RequestFacts
<1> DEFINE K == request[r].kind
<1>a. Types /\ Requested /\ InOrder /\ Kept
  BY DEF TypeInv
<1>b. /\ K \in DOMAIN StepsOf /\ request[r].step \in StepsOf[K] /\ request[r].item \in Nat
      /\ count \in [hits : Nat, misses : Nat, factories : Nat]
      /\ count.factories + 1 \in Nat /\ count.misses + 1 \in Nat /\ count.hits + 1 \in Nat
  BY <1>a DEF RequestType, Types
<1>0. UNCHANGED history => Later /\ history'.sent = history.sent
  BY <1>a, HistoryStays
<1>1. CASE SetCache(r)
  <2>1. Later /\ history'.sent = history.sent
    BY <1>1, <1>a DEF SetCache, Settle, Types, HistoryTypes, Later
  <2> QED  BY <1>1, <1>a, <1>b, <2>1, Goes DEF SetCache, At, Removing
<1>2. CASE Fetch(r)
  <2>1. Later /\ history'.sent = history.sent
    BY <1>2, <1>a DEF Fetch, Types, HistoryTypes, Later
  <2>2. cached' = cached \/ cached' \in {request[r].item, None}
    BY <1>2 DEF Fetch, RunFactory
  <2>3. count' = count \/ count' \in [hits : Nat, misses : Nat, factories : Nat]
    BY <1>2, <1>b DEF Fetch, RunFactory
  <2> QED  BY <1>2, <1>a, <1>b, <2>1, <2>2, <2>3, Goes DEF Fetch, At, Removing
<1>3. CASE Hit(r)
  <2>1. Later /\ history'.sent = history.sent
    BY <1>3, <1>a DEF Hit, Answered, Types, HistoryTypes, Later
  <2> QED  BY <1>3, <1>a, <1>b, <2>1, Goes DEF Hit, At, Removing
<1>4. CASE Miss(r)
  <2>1. Later /\ history'.sent = history.sent
    BY <1>4, <1>a DEF Miss, Answered, Types, HistoryTypes, Later
  <2>2. cached' \in {request[r].item, None}
    BY <1>4 DEF Miss, RunFactory
  <2>3. count' \in [hits : Nat, misses : Nat, factories : Nat]
    BY <1>4, <1>b DEF Miss, RunFactory
  <2> QED  BY <1>4, <1>a, <1>b, <2>1, <2>2, <2>3, Goes DEF Miss, At, Removing
<1>5. CASE MissWithoutFactory(r)
  <2>1. Later /\ history'.sent = history.sent
    BY <1>5, <1>a DEF MissWithoutFactory, Types, HistoryTypes, Later
  <2> QED  BY <1>5, <1>a, <1>b, <2>1, Goes DEF MissWithoutFactory, At, Removing
<1>6. CASE Race(r)
  <2> DEFINE runs == request[r].runs + (IF cached = None THEN 1 ELSE 0)
             answers == request[r].answers + 1
             next == IF answers < Concurrency THEN "race" ELSE
                     IF runs > 0 THEN "track" ELSE "countTest"
             x == [request[r] EXCEPT !.runs = runs, !.answers = answers, !.step = next]
  <2>1. /\ request' = [request EXCEPT ![r].runs = runs, ![r].answers = answers, ![r].step = next]
        /\ history' = history \/ history' = [history EXCEPT !.answered = @ + answers]
        /\ UNCHANGED <<metadata, registry, store, isRead>>
        /\ At(r, "race")
    BY <1>6 DEF Race, Answered
  <2>2. request' = [request EXCEPT ![r] = x]
    BY <2>1, <1>a DEF Requested
  <2>3. /\ runs \in Nat /\ answers \in 1..Concurrency /\ runs <= answers
        /\ K \in Tests /\ next \in StepsOf[K] /\ next \notin Removing \cup {"addOrUpdate", "idle"}
        /\ next = "race" => answers < Concurrency
    <3>1. /\ request[r].runs \in Nat /\ request[r].answers \in Nat /\ Concurrency \in Nat
          /\ request[r].runs <= request[r].answers /\ request[r].answers < Concurrency
      BY <1>a, <2>1
    <3>2. K \in Tests
      BY <2>1, <1>b, KindCases DEF At, Tests, Registering, Removing
    <3>3. next \in StepsOf[K]
      BY <2>1, <1>b DEF At
    <3>4. runs \in Nat /\ answers \in 1..Concurrency /\ runs <= answers
      BY <3>1
    <3> HIDE DEF runs, answers
    <3>5. next \notin Removing \cup {"addOrUpdate", "idle"} /\ (next = "race" => answers < Concurrency)
      BY DEF Removing
    <3> QED  BY <3>2, <3>3, <3>4, <3>5
  <2> HIDE DEF runs, next, answers
  <2>4. Later /\ history'.sent = history.sent
    <3>1. CASE history' = [history EXCEPT !.answered = @ + answers]
      <4>1. history.answered + answers \in Nat
        BY <2>3, <1>a, ConstantsAssumption DEF Types, HistoryTypes
      <4> QED  BY <3>1, <4>1, <1>a DEF Types, HistoryTypes, Later
    <3> QED  BY <2>1, <3>1, <1>0
  <2>5. x \in RequestType
    <3>1. next \in Steps
      BY <2>3, <1>b DEF Steps
    <3>2. answers \in Nat /\ runs \in Nat
      BY <2>3, ConstantsAssumption
    <3>3. request[r] \in RequestType
      BY <1>a
    <3> QED  BY <3>1, <3>2, <3>3 DEF RequestType
  <2>6. Formed(request[r], history')
    BY <1>a, <2>4, FormedLater DEF Requested, RequestType
  <2>7. Formed(x, history')
    BY <2>1, <2>3, <2>6, <1>a DEF Formed, At, RequestType
  <2>8. cached' = cached \/ cached' \in 0..history'.made \cup {None}
    BY <1>6, <1>a, <2>1, <2>4 DEF Race, RunFactory, At, Later, HistoryTypes
  <2>9. count' = count \/ count' \in [hits : Nat, misses : Nat, factories : Nat]
    BY <1>6, <1>b DEF Race, RunFactory
  <2>10. Requested' /\ Types' /\ InOrder'
    BY <1>a, <2>1, <2>2, <2>4, <2>5, <2>7, <2>9, RequestMoves, TypesMove
  <2>11. Kept'
    BY <1>a, <2>1, <2>4, <2>8, KeptMoves DEF Types, HistoryTypes
  <2> QED  BY <2>10, <2>11 DEF TypeInv
<1>7. CASE Throw(r)
  <2>1. Later /\ history'.sent = history.sent
    BY <1>7, <1>a DEF Throw, Types, HistoryTypes, Later
  <2>2. count' = count \/ count' \in [hits : Nat, misses : Nat, factories : Nat]
    BY <1>7, <1>b DEF Throw
  <2> QED  BY <1>7, <1>a, <1>b, <2>1, <2>2, Ends DEF Throw
<1>8. CASE CountHit(r)
  <2>1. count' \in [hits : Nat, misses : Nat, factories : Nat]
    BY <1>8, <1>b DEF CountHit
  <2> QED  BY <1>8, <1>a, <1>b, <1>0, <2>1, Ends DEF CountHit
<1>9. CASE CountMiss(r)
  <2>1. count' \in [hits : Nat, misses : Nat, factories : Nat]
    BY <1>9, <1>b DEF CountMiss
  <2>2. CASE Go(r, "track") /\ At(r, "countMiss")
    BY <1>9, <1>a, <1>b, <1>0, <2>1, <2>2, Goes DEF CountMiss, At, Removing
  <2>3. CASE End(r)
    BY <1>9, <1>a, <1>b, <1>0, <2>1, <2>3, Ends DEF CountMiss
  <2> QED  BY <1>9, <2>2, <2>3 DEF CountMiss
<1>10. CASE CountTest(r)
  <2> DEFINE missed == IF request[r].runs > 0 THEN 1 ELSE 0
  <2>0. missed \in 0..1 /\ Concurrency \in Nat \ {0}
    BY <1>a
  <2>1. count' \in [hits : Nat, misses : Nat, factories : Nat]
    <3>1. count' = [count EXCEPT !.misses = @ + missed, !.hits = @ + Concurrency - missed]
      BY <1>10 DEF CountTest
    <3> HIDE DEF missed
    <3>2. count.misses + missed \in Nat /\ count.hits + Concurrency - missed \in Nat
      BY <2>0, <1>b
    <3> QED  BY <3>1, <3>2, <1>b
  <2> QED  BY <1>10, <1>a, <1>b, <1>0, <2>1, Ends DEF CountTest
<1>11. CASE ResetStatistics(r)
  <2>1. count' \in [hits : Nat, misses : Nat, factories : Nat]
    BY <1>11, <1>b DEF ResetStatistics
  <2>2. Later /\ history'.sent = history.sent
    <3>1. \/ UNCHANGED history
          \/ history' = [history EXCEPT !.answered = 0, !.nulls = 0,
                                        !.exact = @ \/ UnderWay(Counting) = {}]
      BY <1>11 DEF ResetStatistics
    <3>2. CASE history' = [history EXCEPT !.answered = 0, !.nulls = 0,
                                          !.exact = @ \/ UnderWay(Counting) = {}]
      BY <3>2, <1>a DEF Types, HistoryTypes, Later
    <3> QED  BY <1>0, <3>1, <3>2
  <2>3. CASE Go(r, "resetMisses") /\ At(r, "resetHits")
    BY <1>11, <1>a, <1>b, <2>1, <2>2, <2>3, Goes DEF ResetStatistics, At, Removing
  <2>4. CASE Go(r, "resetFactories") /\ At(r, "resetMisses")
    BY <1>11, <1>a, <1>b, <2>1, <2>2, <2>4, Goes DEF ResetStatistics, At, Removing
  <2>5. CASE End(r)
    BY <1>11, <1>a, <1>b, <2>1, <2>2, <2>5, Ends DEF ResetStatistics
  <2> QED  BY <1>11, <2>3, <2>4, <2>5 DEF ResetStatistics
<1>12. CASE Track(r)
  <2>1. metadata' \in [value : {request[r].item}, expired : BOOLEAN]
    BY <1>12 DEF Track
  <2> QED  BY <1>12, <1>a, <1>b, <1>0, <2>1, Goes DEF Track, At, Removing
<1>13. CASE RegisterRead(r)
  <2> DEFINE x == request'[r]
  <2>1. Later /\ history'.sent = history.sent
    BY <1>13, <1>a DEF RegisterRead, Types, HistoryTypes, Later
  <2>2. x = [request[r] EXCEPT !.seen = registry.timesSet, !.step = "addOrUpdate"]
    BY <1>13, <1>a DEF RegisterRead, Requested, RequestType
  <2>3. registry.timesSet \in 0..history.registered
    BY <1>a DEF Kept
  <2>4. "addOrUpdate" \in StepsOf[K] /\ "addOrUpdate" \in Steps
    BY <1>13, <1>a, <1>b DEF RegisterRead, At, Steps
  <2>5. x \in RequestType
    <3>1. registry.timesSet \in Nat
      BY <2>3, <1>a DEF Types, HistoryTypes
    <3> HIDE DEF x
    <3> QED  BY <2>2, <3>1, <2>4, <1>a DEF RequestType
  <2>6. Formed(request[r], history')
    BY <1>a, <2>1, FormedLater DEF Requested, RequestType
  <2>7. Formed(x, history')
    BY <2>1, <2>2, <2>3, <2>4, <2>6, <1>13, <1>a DEF Formed, Later, RegisterRead, At, RequestType,
                                               Removing
  <2>8. request' = [request EXCEPT ![r] = x]
    BY <1>13, <1>a DEF RegisterRead, Requested
  <2>9. UNCHANGED <<cached, metadata, registry, count, store, isRead>>
    BY <1>13 DEF RegisterRead
  <2>10. Requested' /\ Types' /\ InOrder'
    BY <1>a, <2>1, <2>5, <2>7, <2>8, <2>9, RequestMoves, TypesMove
  <2>11. Kept'
    BY <1>a, <2>1, <2>9, KeptMoves
  <2> QED  BY <2>10, <2>11 DEF TypeInv
<1>14. CASE RegisterWrite(r)
  <2>1. Later /\ history'.sent = history.sent
    <3>1. UNCHANGED history \/ history' = [history EXCEPT !.registered = @ + 1]
      BY <1>14 DEF RegisterWrite
    <3>2. CASE history' = [history EXCEPT !.registered = @ + 1]
      BY <3>2, <1>a DEF Types, HistoryTypes, Later
    <3> QED  BY <3>1, <3>2, <1>0
  <2>2. CASE Go(r, "register") /\ UNCHANGED registry
    BY <1>14, <1>a, <1>b, <2>1, <2>2, Goes DEF RegisterWrite, At, Removing
  <2>3. CASE /\ registry' = [active |-> TRUE, timesSet |-> request[r].seen + 1]
             /\ history'.registered = history.registered + 1
    <3>1. /\ registry' \in [active : BOOLEAN, timesSet : 0..history'.registered]
          /\ registry'.active => registry'.timesSet > 0
      BY <1>14, <1>a, <2>3 DEF RequestType, RegisterWrite
    <3>2. CASE Go(r, "countTest") /\ K \in Tests
      BY <1>14, <1>a, <1>b, <2>1, <3>1, <3>2, Goes DEF RegisterWrite, At, Removing
    <3>3. CASE End(r)
      BY <1>14, <1>a, <1>b, <2>1, <3>1, <3>3, Ends DEF RegisterWrite
    <3>4. UNCHANGED registry \/ (Go(r, "countTest") /\ K \in Tests) \/ End(r)
      BY <1>14 DEF RegisterWrite
    <3> QED  BY <1>14, <2>2, <3>2, <3>3, <3>4 DEF RegisterWrite
  <2> QED  BY <1>14, <1>a, <2>2, <2>3 DEF RegisterWrite, Types, HistoryTypes
<1>15. CASE RemoveCache(r)
  <2>1. Later /\ history'.sent = history.sent
    BY <1>15, <1>a DEF RemoveCache, Settle, Types, HistoryTypes, Later
  <2> QED  BY <1>15, <1>a, <1>b, <2>1, Goes DEF RemoveCache, At, Removing
<1>16. CASE Untrack(r)
  BY <1>16, <1>a, <1>b, <1>0, Goes DEF Untrack, At, Removing
<1>17. CASE Deactivate(r)
  <2>1. /\ registry' \in [active : BOOLEAN, timesSet : 0..history'.registered]
        /\ registry'.active => registry'.timesSet > 0
    BY <1>17, <1>a DEF Deactivate, Kept
  <2>2. CASE Go(r, "race") /\ K = "evictAndTest"
    BY <1>17, <1>a, <1>b, <1>0, <2>1, <2>2, Goes DEF Deactivate, At, Removing
  <2>3. CASE End(r)
    BY <1>17, <1>a, <1>b, <1>0, <2>1, <2>3, Ends DEF Deactivate
  <2> QED  BY <1>17, <2>2, <2>3 DEF Deactivate
<1>18. CASE Invalidate(r)
  BY <1>18, <1>a, <1>b, <1>0, Ends DEF Invalidate
<1>19. CASE ListExpired(r)
  <2>1. CASE Go(r, "untrack")
    <3>1. K = "prune"
      BY <1>19, <1>b, KindCases DEF ListExpired, At, Registering, Removing
    <3> QED  BY <1>19, <1>a, <1>b, <1>0, <2>1, <3>1, Goes DEF ListExpired, At, Tests
  <2>2. CASE End(r)
    BY <1>19, <1>a, <1>b, <1>0, <2>2, Ends DEF ListExpired
  <2> QED  BY <1>19, <2>1, <2>2 DEF ListExpired
<1>20. CASE Snapshot(r)
  <2> DEFINE x == request'[r]
  <2>2. x = [request[r] EXCEPT !.seen = IF metadata = None THEN 0 ELSE 1, !.step = "recompute"]
    BY <1>20, <1>a DEF Snapshot, Requested, RequestType
  <2>4. "recompute" \in StepsOf[K] /\ "recompute" \in Steps
    BY <1>20, <1>a, <1>b DEF Snapshot, At, Steps
  <2>5. x \in RequestType
    <3>1. (IF metadata = None THEN 0 ELSE 1) \in Nat
      OBVIOUS
    <3> HIDE DEF x
    <3> QED  BY <2>2, <3>1, <2>4, <1>a DEF RequestType
  <2>7. Formed(x, history')
    BY <2>2, <2>4, <1>20, <1>a DEF Formed, Snapshot, At, RequestType, Removing, Requested
  <2>8. request' = [request EXCEPT ![r] = x]
    BY <1>20, <1>a DEF Snapshot, Requested
  <2>9. UNCHANGED <<cached, metadata, registry, count, store, isRead, history>>
    BY <1>20 DEF Snapshot
  <2>10. Requested' /\ Types' /\ InOrder'
    BY <1>a, <1>0, <2>5, <2>7, <2>8, <2>9, RequestMoves, TypesMove
  <2>11. Kept'
    BY <1>a, <2>9 DEF Kept
  <2> QED  BY <2>10, <2>11 DEF TypeInv
<1>21. CASE Recompute(r)
  <2>1. /\ registry' \in [active : BOOLEAN, timesSet : 0..history'.registered]
        /\ registry'.active => registry'.timesSet > 0
    <3>1. registry \in [active : BOOLEAN, timesSet : 0..history.registered]
          /\ (registry.active => registry.timesSet > 0) /\ history.registered \in Nat
          /\ UNCHANGED history
      BY <1>21, <1>a DEF Recompute, Kept, Types, HistoryTypes
    <3>2. CASE registry.timesSet = 0
      BY <1>21, <3>1, <3>2 DEF Recompute
    <3>3. CASE registry.timesSet # 0
      <4>1. registry' = [registry EXCEPT !.active = (request[r].seen = 1)]
        BY <1>21, <3>3 DEF Recompute
      <4>2. registry.timesSet > 0
        BY <3>1, <3>3
      <4> QED  BY <3>1, <4>1, <4>2
    <3> QED  BY <3>2, <3>3
  <2> QED  BY <1>21, <1>a, <1>b, <1>0, <2>1, Ends DEF Recompute
<1>22. CASE NotifyAsync(r)
  <2>1. CASE Enqueue(r)
    <3>1. history' = [history EXCEPT !.sent = @ + 1]
      BY <2>1 DEF Enqueue
    <3>2. Later /\ history'.sent = history.sent + 1 /\ history'.sent \in Nat
      BY <3>1, <1>a DEF Types, HistoryTypes, Later
    <3>3. Requested'
      BY <2>1, <1>a, <1>b, <3>2, RequestGoes DEF Enqueue, At, Removing
    <3>4. Kept'
      BY <2>1, <1>a, <3>2, KeptMoves DEF Enqueue, Types, HistoryTypes
    <3>5. store' = Append(store, history.sent + 1)
      BY <2>1, <3>2 DEF Enqueue
    <3>6. Types' /\ InOrder'
      <4>1. store' \in Seq(Nat) /\ Len(store') = Len(store) + 1
        BY <3>2, <3>5, <1>a DEF Types
      <4>2. Types'
        BY <2>1, <1>a, <3>2, <4>1 DEF Types, HistoryTypes, Later, Enqueue
      <4>3. \A i \in 1..Len(store) : store'[i] = store[i]
        BY <3>5, <1>a DEF Types
      <4>4. store'[Len(store) + 1] = history.sent + 1
        BY <3>5, <1>a DEF Types
      <4>5. DOMAIN store' = 1..(Len(store) + 1) /\ DOMAIN store = 1..Len(store)
        BY <4>1, <1>a DEF Types
      <4>6. Len(store) \in Nat /\ history.sent \in Nat
        BY <1>a DEF Types, HistoryTypes
      <4>7. InOrder'
        <5>1. Len(store') <= history'.sent
          BY <4>1, <4>6, <3>2, <1>a DEF InOrder
        <5>2. ASSUME NEW i \in 1..(Len(store) + 1)
              PROVE  store'[i] = history'.sent - Len(store') + i
          <6>1. CASE i \in 1..Len(store)
            <7>1. store'[i] = store[i] /\ i \in DOMAIN store /\ i \in Int
              BY <6>1, <4>3, <4>5
            <7>2. store[i] = history.sent - Len(store) + i
              BY <7>1, <1>a DEF InOrder
            <7>3. history.sent - Len(store) + i = (history.sent + 1) - (Len(store) + 1) + i
              BY <7>1, <4>6
            <7>4. Len(store') = Len(store) + 1 /\ history'.sent = history.sent + 1
              BY <4>1, <3>2
            <7> HIDE <3>2
            <7> QED  BY <7>1, <7>2, <7>3, <7>4
          <6>2. CASE i = Len(store) + 1
            BY <6>2, <4>1, <4>4, <4>6, <3>2
          <6> QED  BY <6>1, <6>2, <4>6
        <5> QED  BY <5>1, <5>2, <4>5 DEF InOrder
      <4> QED  BY <4>2, <4>7
    <3> QED  BY <3>3, <3>4, <3>6 DEF TypeInv
  <2>2. CASE Trim(r)
    <3>1. CASE Go(r, "dequeue")
      BY <2>2, <3>1, <1>a, <1>b, <1>0, Goes DEF Trim, At, Removing
    <3>2. CASE End(r)
      BY <2>2, <3>2, <1>a, <1>b, <1>0, Ends DEF Trim
    <3> QED  BY <2>2, <3>1, <3>2 DEF Trim
  <2>3. CASE Dequeue(r)
    <3>1. Requested'
      BY <2>3, <1>a, <1>b, <1>0, RequestGoes DEF Dequeue, At, Removing
    <3>2. Kept'
      BY <2>3, <1>a DEF Dequeue, Kept
    <3>3. CASE store = <<>>
      BY <3>1, <3>2, <3>3, <2>3, <1>a DEF Dequeue, Types, HistoryTypes, InOrder, TypeInv
    <3>4. CASE store # <<>>
      <4>1. store' = Tail(store) /\ UNCHANGED <<count, history>>
        BY <2>3, <3>4 DEF Dequeue
      <4>2. /\ store \in Seq(Nat) /\ store' \in Seq(Nat) /\ Len(store') = Len(store) - 1
            /\ \A i \in 1..Len(store') : store'[i] = store[i + 1]
        BY <4>1, <3>4, <1>a DEF Types
      <4>3. Types'
        BY <4>1, <4>2, <1>a DEF Types, HistoryTypes
      <4>4. DOMAIN store' = 1..(Len(store) - 1) /\ DOMAIN store = 1..Len(store)
        BY <4>2
      <4>5. Len(store) \in Nat /\ history.sent \in Nat
        BY <1>a DEF Types, HistoryTypes
      <4>6. InOrder'
        BY <3>4, <4>1, <1>a, TailInOrder DEF Types, HistoryTypes
      <4> QED  BY <3>1, <3>2, <4>3, <4>6 DEF TypeInv
    <3> QED  BY <3>3, <3>4
  <2> QED  BY <1>22, <2>1, <2>2, <2>3 DEF NotifyAsync
<1>23. CASE Enumerate(r)
  <2> DEFINE x == request'[r]
  <2>2. x = [request[r] EXCEPT !.seen = history.sent, !.step = "markRead"]
    BY <1>23, <1>a DEF Enumerate, Requested, RequestType
  <2>4. "markRead" \in StepsOf[K] /\ "markRead" \in Steps
    BY <1>23, <1>a, <1>b DEF Enumerate, At, Steps
  <2>5. x \in RequestType
    BY <2>2, <2>4, <1>a DEF RequestType
  <2>7. Formed(x, history')
    BY <2>2, <2>4, <1>23, <1>a DEF Formed, Enumerate, At, RequestType, Removing, Requested
  <2>8. request' = [request EXCEPT ![r] = x]
    BY <1>23, <1>a DEF Enumerate, Requested
  <2>9. UNCHANGED <<cached, metadata, registry, count, store, isRead, history>>
    BY <1>23 DEF Enumerate
  <2>10. Requested' /\ Types' /\ InOrder'
    BY <1>a, <1>0, <2>5, <2>7, <2>8, <2>9, RequestMoves, TypesMove
  <2>11. Kept'
    BY <1>a, <2>9 DEF Kept
  <2> QED  BY <2>10, <2>11 DEF TypeInv
<1>24. CASE MarkRead(r)
  <2>1. \A i \in DOMAIN store : store[i] \in 1..history.sent
    BY <1>a DEF InOrder, Types, HistoryTypes
  <2>2. /\ Later /\ history'.sent = history.sent
        /\ UNCHANGED <<cached, metadata, registry, count, store>>
    <3>1. request[r].seen \in Nat
      BY <1>a DEF RequestType
    <3>2. CASE \E n \in {history.read, request[r].seen} : history' = [history EXCEPT !.read = n]
      <4>1. PICK n \in {history.read, request[r].seen} : history' = [history EXCEPT !.read = n]
        BY <3>2
      <4>2. n \in Nat
        BY <1>a, <3>1 DEF Types, HistoryTypes
      <4>3. Later /\ history'.sent = history.sent
        BY <1>a, <4>1, <4>2, ReadingIsLater
      <4> QED  BY <4>3, <1>24, Marks
    <3> QED  BY <1>24, <1>0, <3>2, Marks
  <2>3. isRead' \subseteq 1..history'.sent
    BY <1>24, <1>a, <2>1, <2>2, Marks DEF Kept, Range
  <2>4. CASE End(r) /\ UNCHANGED isRead
    BY <1>24, <1>a, <1>b, <2>2, <2>3, <2>4, Ends
  <2>5. CASE UNCHANGED <<request, history>>
    <3>1. Requested' /\ Types' /\ InOrder'
      BY <1>a, <2>2, <2>5, RequestStays, TypesMove
    <3>2. Kept'
      BY <1>a, <2>2, <2>3, <2>5 DEF Kept
    <3> QED  BY <3>1, <3>2 DEF TypeInv
  <2> QED  BY <1>24, <2>4, <2>5, Marks
<1> QED
  BY <1>1, <1>2, <1>3, <1>4, <1>5, <1>6, <1>7, <1>8, <1>9, <1>10, <1>11, <1>12, <1>13, <1>14,
     <1>15, <1>16, <1>17, <1>18, <1>19, <1>20, <1>21, <1>22, <1>23, <1>24 DEF Step

LEMMA ArriveTypes ==
    ASSUME TypeInv, NEW r \in Requests, NEW k \in DOMAIN FirstStep, Arrive(r, k)
    PROVE  TypeInv'
<1> DEFINE x == [NoRequest EXCEPT !.kind = k, !.step = FirstStep[k], !.item = history.made + 1]
<1>a. Types /\ Requested /\ InOrder /\ Kept
  BY DEF TypeInv
<1>1. history.made \in Nat /\ history'.made = history.made + 1
  BY <1>a DEF Arrive, Types, HistoryTypes
<1>2. Later /\ history'.sent = history.sent
  BY <1>a DEF Arrive, Types, HistoryTypes, Later
<1>3. k \in DOMAIN StepsOf /\ FirstStep[k] \in StepsOf[k] /\ FirstStep[k] \in Steps
  BY FirstSteps DEF Steps
<1>4. /\ x.kind = k /\ x.step = FirstStep[k] /\ x.item = history.made + 1 /\ x.seen = 0
      /\ x.runs = 0 /\ x.answers = 0 /\ x \in RequestType
  <2>1. NoRequest \in [kind : {"none"}, step : {"idle"}, item : {0}, seen : {0}, runs : {0},
                       answers : {0}]
    BY DEF NoRequest
  <2>2. history.made + 1 \in Nat
    BY <1>1
  <2>3. x \in [kind : {k}, step : {FirstStep[k]}, item : {history.made + 1}, seen : {0},
               runs : {0}, answers : {0}]
    BY <2>1
  <2> HIDE DEF x
  <2> QED  BY <2>2, <2>3, <1>3 DEF RequestType
<1>5. request' = [request EXCEPT ![r] = x]
  BY DEF Arrive
<1>6. k \in history'.load.kinds
  BY <1>2 DEF Arrive, Later
<1> HIDE DEF x
<1>7. Formed(x, history')
  <2>1. x.item \in 1..history'.made
    BY <1>1, <1>4
  <2>2. x.step # "addOrUpdate"
    BY <1>4, FirstSteps
  <2> QED  BY <1>3, <1>4, <1>6, <2>1, <2>2, ConstantsAssumption DEF Formed
<1>8. Requested'
  BY <1>a, <1>2, <1>4, <1>5, <1>7, RequestMoves
<1>9. UNCHANGED <<cached, metadata, registry, count, store, isRead>>
  BY DEF Arrive
<1>10. Types' /\ InOrder'
  BY <1>a, <1>2, <1>9, TypesMove
<1>11. Kept'
  BY <1>a, <1>2, <1>9, KeptMoves DEF Types, HistoryTypes
<1> QED  BY <1>8, <1>10, <1>11 DEF TypeInv

LEMMA ExpireTypes ==
    ASSUME TypeInv, ExpireCached \/ OtherEntry \/ ExpireListed
    PROVE  TypeInv'
<1>a. Types /\ Requested /\ InOrder /\ Kept
  BY DEF TypeInv
<1>1. Later /\ history'.sent = history.sent
  <2>1. CASE ExpireCached
    BY <2>1, <1>a, HistoryStays DEF ExpireCached
  <2>2. CASE ExpireListed
    BY <2>2, <1>a DEF ExpireListed, Types, HistoryTypes, Later
  <2>3. CASE OtherEntry
    BY <2>3, <1>a DEF OtherEntry, Types, HistoryTypes, Later
  <2> QED  BY <2>1, <2>2, <2>3
<1>2. /\ UNCHANGED <<request, registry, count, store, isRead>>
      /\ cached' = cached \/ cached' \in {0, None}
  BY DEF ExpireCached, OtherEntry, ExpireListed
<1>3. \/ metadata' = metadata
      \/ metadata' \in [value : 1..history'.made, expired : BOOLEAN] \cup {None}
  <2>1. CASE ExpireListed
    <3>1. metadata \in [value : 1..history.made, expired : BOOLEAN]
      BY <2>1, <1>a DEF ExpireListed, Kept
    <3>2. metadata' = [metadata EXCEPT !.expired = TRUE]
      BY <2>1 DEF ExpireListed
    <3>3. metadata.value \in 1..history'.made
      <4>1. metadata.value \in 1..history.made
        BY <3>1
      <4>2. history.made \in Nat /\ history'.made \in Nat /\ history.made <= history'.made
        BY <1>a, <1>1 DEF Later, Types, HistoryTypes
      <4> QED  BY <4>1, <4>2
    <3> QED  BY <3>1, <3>2, <3>3
  <2> QED  BY <2>1 DEF ExpireCached, OtherEntry
<1>4. Requested'
  BY <1>a, <1>1, <1>2, RequestStays
<1>5. Types' /\ InOrder'
  BY <1>a, <1>1, <1>2, TypesMove
<1>6. Kept'
  <2>1. cached' = cached \/ cached' \in 0..history'.made \cup {None}
    BY <1>1, <1>2 DEF Later, HistoryTypes
  <2>2. history'.sent >= history.sent
    BY <1>a, <1>1 DEF Types, HistoryTypes
  <2> QED  BY <1>a, <1>1, <1>2, <1>3, <2>1, <2>2, KeptMoves
<1> QED  BY <1>4, <1>5, <1>6 DEF TypeInv

LEMMA InitTypes == Init => TypeInv
<1> SUFFICES ASSUME Init PROVE TypeInv
  OBVIOUS
<1>1. HistoryTypes
  BY DEF Init, HistoryTypes
<1>2. Types
  BY <1>1 DEF Init, Types
<1>3. Requested
  <2>1. /\ "none" \in DOMAIN StepsOf /\ StepsOf["none"] = {"idle"}
        /\ "idle" \in Steps
    BY DEF StepsOf, Steps
  <2>2. NoRequest \in RequestType
    BY <2>1 DEF NoRequest, RequestType
  <2>3. Formed(NoRequest, history)
    BY <2>1, ConstantsAssumption DEF NoRequest, Formed, Tests, Removing
  <2> QED  BY <2>2, <2>3 DEF Init, Requested
<1>4. InOrder
  BY <1>1 DEF Init, InOrder, HistoryTypes
<1>5. Kept
  BY <1>1 DEF Init, Kept, HistoryTypes
<1> QED  BY <1>2, <1>3, <1>4, <1>5 DEF TypeInv

LEMMA NextTypes == TypeInv /\ [Next]_vars => TypeInv'
<1> SUFFICES ASSUME TypeInv, [Next]_vars PROVE TypeInv'
  OBVIOUS
<1>1. CASE UNCHANGED vars
  BY <1>1 DEF vars, TypeInv, Types, HistoryTypes, Requested, InOrder, Kept
<1>2. ASSUME NEW r \in Requests, Step(r) PROVE TypeInv'
  BY <1>2, StepTypes
<1>3. ASSUME NEW r \in Requests, NEW k \in DOMAIN FirstStep, Arrive(r, k) PROVE TypeInv'
  BY <1>3, ArriveTypes
<1>4. CASE ExpireCached \/ OtherEntry \/ ExpireListed
  BY <1>4, ExpireTypes
<1> QED  BY <1>1, <1>2, <1>3, <1>4 DEF Next

(* Every variable keeps its type: an item is that of a request that was    *)
(* made, TimesSet never exceeds the registrations, a key is active only if *)
(* it was registered, and a test has no more runs than answers.            *)
THEOREM TypeCorrect == Spec => []TypeOK
<1>1. TypeInv => TypeOK
  <2> SUFFICES ASSUME TypeInv PROVE TypeOK
    OBVIOUS
  <2>1. ASSUME NEW r \in Requests
        PROVE  /\ request[r].kind \in history.load.kinds \cup {"none"}
               /\ request[r].kind = "none" <=> request[r].step = "idle"
               /\ request[r].runs \in 0..request[r].answers /\ request[r].answers \in 0..Concurrency
    BY RequestFacts DEF TypeInv, Requested, Formed, At
  <2>2. \A c \in DOMAIN count : count[c] \in Nat
    BY DEF TypeInv, Types
  <2> QED  BY <2>1, <2>2 DEF TypeInv, Kept, TypeOK
<1> QED  BY <1>1, InitTypes, NextTypes, PTL DEF Spec

-----------------------------------------------------------------------------
(* The queue: proofs. *)

(* A step of a request leaves the other requests alone. *)
LEMMA OneMoves ==
    ASSUME Requested, NEW r \in Requests, Step(r)
    PROVE  request' = [request EXCEPT ![r] = request'[r]]
<1> SUFFICES \E x : request' = [request EXCEPT ![r] = x]
  BY DEF Requested
<1>1. CASE SetCache(r)
  BY <1>1 DEF SetCache, Go, End, Requested
<1>2. CASE Fetch(r)
  BY <1>2 DEF Fetch, Go, End, Requested
<1>3. CASE Hit(r)
  BY <1>3 DEF Hit, Go, End, Requested
<1>4. CASE Miss(r)
  BY <1>4 DEF Miss, Go, End, Requested
<1>5. CASE MissWithoutFactory(r)
  BY <1>5 DEF MissWithoutFactory, Go, End, Requested
<1>6. CASE Race(r)
  BY <1>6 DEF Race, Go, End, Requested
<1>7. CASE Throw(r)
  BY <1>7 DEF Throw, Go, End, Requested
<1>8. CASE CountHit(r)
  BY <1>8 DEF CountHit, Go, End, Requested
<1>9. CASE CountMiss(r)
  BY <1>9 DEF CountMiss, Go, End, Requested
<1>10. CASE CountTest(r)
  BY <1>10 DEF CountTest, Go, End, Requested
<1>11. CASE ResetStatistics(r)
  BY <1>11 DEF ResetStatistics, Go, End, Requested
<1>12. CASE Track(r)
  BY <1>12 DEF Track, Go, End, Requested
<1>13. CASE RegisterRead(r)
  BY <1>13 DEF RegisterRead, Go, End, Requested
<1>14. CASE RegisterWrite(r)
  BY <1>14 DEF RegisterWrite, Go, End, Requested
<1>15. CASE RemoveCache(r)
  BY <1>15 DEF RemoveCache, Go, End, Requested
<1>16. CASE Untrack(r)
  BY <1>16 DEF Untrack, Go, End, Requested
<1>17. CASE Deactivate(r)
  BY <1>17 DEF Deactivate, Go, End, Requested
<1>18. CASE Invalidate(r)
  BY <1>18 DEF Invalidate, Go, End, Requested
<1>19. CASE ListExpired(r)
  BY <1>19 DEF ListExpired, Go, End, Requested
<1>20. CASE Snapshot(r)
  BY <1>20 DEF Snapshot, Go, End, Requested
<1>21. CASE Recompute(r)
  BY <1>21 DEF Recompute, Go, End, Requested
<1>22. CASE NotifyAsync(r)
  BY <1>22 DEF NotifyAsync, Enqueue, Trim, Dequeue, Go, End, Requested
<1>23. CASE Enumerate(r)
  BY <1>23 DEF Enumerate, Go, End, Requested
<1>24. CASE MarkRead(r)
  BY <1>24 DEF MarkRead, Go, End, Requested
<1> QED
  BY <1>1, <1>2, <1>3, <1>4, <1>5, <1>6, <1>7, <1>8, <1>9, <1>10, <1>11, <1>12, <1>13, <1>14, <1>15, <1>16, <1>17, <1>18, <1>19, <1>20, <1>21, <1>22, <1>23, <1>24 DEF Step

LEMMA GoStep ==
    ASSUME Requested, NEW r \in Requests, NEW s, Go(r, s)
    PROVE  /\ request'[r].step = s
           /\ request'[r].kind = request[r].kind /\ request'[r].item = request[r].item
           /\ request'[r].seen = request[r].seen /\ request'[r].runs = request[r].runs
  BY DEF Go, Requested, RequestType

LEMMA EndStep ==
    ASSUME Requested, NEW r \in Requests, End(r)
    PROVE  request'[r].step = "idle" /\ request'[r].kind = "none" /\ request'[r].runs = 0
  BY DEF End, NoRequest, Requested

(* Who does not notify has nothing to do with the queue. *)
LEMMA AwayFromQueue ==
    ASSUME Requested, HistoryTypes, NEW r \in Requests, Step(r), ~NotifyAsync(r)
    PROVE  /\ UNCHANGED store /\ history'.sent = history.sent
           /\ request[r].step \notin {"trim", "dequeue"}
           /\ request'[r].step \notin {"trim", "dequeue"}
<1> USE GoStep, EndStep DEF At, HistoryTypes
<1>1. CASE SetCache(r)
  BY <1>1 DEF SetCache, Settle
<1>2. CASE Fetch(r)
  BY <1>2 DEF Fetch
<1>3. CASE Hit(r)
  BY <1>3 DEF Hit, Answered
<1>4. CASE Miss(r)
  BY <1>4 DEF Miss, Answered
<1>5. CASE MissWithoutFactory(r)
  BY <1>5 DEF MissWithoutFactory
<1>6. CASE Race(r)
  BY <1>6 DEF Race, Answered, Requested
<1>7. CASE Throw(r)
  BY <1>7 DEF Throw
<1>8. CASE CountHit(r)
  BY <1>8 DEF CountHit
<1>9. CASE CountMiss(r)
  BY <1>9 DEF CountMiss
<1>10. CASE CountTest(r)
  BY <1>10 DEF CountTest
<1>11. CASE ResetStatistics(r)
  <2>1. UNCHANGED store /\ history'.sent = history.sent
    <3>1. CASE UNCHANGED history
      BY <1>11, <3>1 DEF ResetStatistics
    <3>2. CASE history' = [history EXCEPT !.answered = 0, !.nulls = 0,
                                          !.exact = @ \/ UnderWay(Counting) = {}]
      BY <1>11, <3>2 DEF ResetStatistics
    <3> QED  BY <1>11, <3>1, <3>2 DEF ResetStatistics
  <2> QED  BY <1>11, <2>1 DEF ResetStatistics
<1>12. CASE Track(r)
  BY <1>12 DEF Track
<1>13. CASE RegisterRead(r)
  BY <1>13 DEF RegisterRead, Requested
<1>14. CASE RegisterWrite(r)
  BY <1>14 DEF RegisterWrite
<1>15. CASE RemoveCache(r)
  BY <1>15 DEF RemoveCache, Settle
<1>16. CASE Untrack(r)
  BY <1>16 DEF Untrack
<1>17. CASE Deactivate(r)
  BY <1>17 DEF Deactivate
<1>18. CASE Invalidate(r)
  BY <1>18 DEF Invalidate
<1>19. CASE ListExpired(r)
  BY <1>19 DEF ListExpired
<1>20. CASE Snapshot(r)
  BY <1>20 DEF Snapshot, Requested
<1>21. CASE Recompute(r)
  BY <1>21 DEF Recompute
<1>22. CASE Enumerate(r)
  BY <1>22 DEF Enumerate, Requested
<1>23. CASE MarkRead(r)
  BY <1>23 DEF MarkRead
<1> QED
  BY <1>1, <1>2, <1>3, <1>4, <1>5, <1>6, <1>7, <1>8, <1>9, <1>10, <1>11, <1>12, <1>13, <1>14, <1>15, <1>16, <1>17, <1>18, <1>19, <1>20, <1>21, <1>22, <1>23 DEF Step

LEMMA QueueStays ==
    ASSUME StoreInv, UNCHANGED store, history'.sent = history.sent,
           \A q \in Requests : \A s \in {"trim", "dequeue"} : At(q, s)' <=> At(q, s)
    PROVE  StoreInv'
<1>1. Dequeuing' = Dequeuing
  BY DEF Dequeuing
<1> QED  BY <1>1 DEF StoreInv

LEMMA StepStore ==
    ASSUME TypeInv, StoreInv, NEW r \in Requests, Step(r)
    PROVE  StoreInv'
<1>a. Requested /\ HistoryTypes /\ store \in Seq(Nat) /\ Len(store) \in Nat /\ Len(store) >= 0
  BY DEF TypeInv, Types
<1>b. \A q \in Requests \ {r} : request'[q] = request[q]
  BY <1>a, OneMoves DEF Requested
<1>c. /\ IsFiniteSet(Dequeuing) /\ Dequeuing \subseteq Requests
      /\ Cardinality(Dequeuing) \in Nat /\ Cardinality(Requests) \in Nat
      /\ MaxEntries \in Nat \ {0} /\ history.sent \in Nat
  BY <1>a, FS_Subset, FS_CardinalityType, ConstantsAssumption DEF Dequeuing, HistoryTypes
<1>1. CASE ~NotifyAsync(r)
  BY <1>1, <1>a, <1>b, AwayFromQueue, QueueStays DEF At
<1>2. CASE Enqueue(r)
  <2>1. request'[r].step = "trim" /\ request[r].step = "enqueue"
    BY <1>2, <1>a, GoStep DEF Enqueue, At
  <2>2. Dequeuing' = Dequeuing
    BY <2>1, <1>b DEF Dequeuing, At
  <2>3. Len(store') = Len(store) + 1 /\ history'.sent = history.sent + 1
    BY <1>2, <1>a DEF Enqueue, HistoryTypes
  <2> QED  BY <2>1, <2>2, <2>3, <1>a, <1>c DEF StoreInv, At
<1>3. CASE Trim(r) /\ Len(store) > MaxEntries
  <2>1. request'[r].step = "dequeue" /\ request[r].step = "trim"
    BY <1>3, <1>a, GoStep DEF Trim, At
  <2>2. Dequeuing' = Dequeuing \cup {r} /\ r \notin Dequeuing
    BY <2>1, <1>b DEF Dequeuing, At
  <2>3. Cardinality(Dequeuing') = Cardinality(Dequeuing) + 1
    BY <2>2, <1>c, FS_AddElement
  <2>4. Cardinality(Dequeuing') <= Cardinality(Requests)
    <3>1. Dequeuing' \subseteq Requests
      BY <2>2, <1>c
    <3> QED  BY <3>1, FS_Subset, ConstantsAssumption
  <2>5. UNCHANGED store
    BY <1>3 DEF Trim
  <2> QED  BY <1>3, <2>1, <2>3, <2>4, <2>5, <1>a, <1>c DEF StoreInv, At
<1>4. CASE Trim(r) /\ ~(Len(store) > MaxEntries)
  <2>1. request'[r].step = "idle" /\ request[r].step = "trim"
    BY <1>4, <1>a, EndStep DEF Trim, At
  <2>2. Dequeuing' = Dequeuing
    BY <2>1, <1>b DEF Dequeuing, At
  <2>3. UNCHANGED <<store, history>>
    BY <1>4 DEF Trim
  <2> QED  BY <1>4, <2>2, <2>3 DEF StoreInv
<1>5. CASE Dequeue(r)
  <2>1. request'[r].step = "trim" /\ request[r].step = "dequeue"
    BY <1>5, <1>a, GoStep DEF Dequeue, At
  <2>2. Dequeuing' = Dequeuing \ {r} /\ r \in Dequeuing
    BY <2>1, <1>b DEF Dequeuing, At
  <2>3. Cardinality(Dequeuing') = Cardinality(Dequeuing) - 1
    BY <2>2, <1>c, FS_RemoveElement
  <2>4. Len(store') >= Len(store) - 1 /\ Len(store') \in Nat
    BY <1>5, <1>a DEF Dequeue
  <2>5. Len(store) >= MaxEntries + 1 - Cardinality(Requests) + Cardinality(Dequeuing)
    BY <2>2 DEF StoreInv
  <2> QED  BY <2>1, <2>3, <2>4, <2>5, <1>a, <1>c DEF StoreInv, At
<1> QED  BY <1>1, <1>2, <1>3, <1>4, <1>5 DEF NotifyAsync

LEMMA NextStore == TypeInv /\ StoreInv /\ [Next]_vars => StoreInv'
<1> SUFFICES ASSUME TypeInv, StoreInv, [Next]_vars PROVE StoreInv'
  OBVIOUS
<1>a. Requested /\ HistoryTypes
  BY DEF TypeInv, Types
<1>1. CASE UNCHANGED vars
  BY <1>1, QueueStays DEF vars, At
<1>2. ASSUME NEW r \in Requests, Step(r) PROVE StoreInv'
  BY <1>2, StepStore
<1>3. ASSUME NEW r \in Requests, NEW k \in DOMAIN FirstStep, Arrive(r, k) PROVE StoreInv'
  <2>1. /\ \A q \in Requests \ {r} : request'[q] = request[q]
        /\ request[r].step = "idle" /\ request'[r].step = FirstStep[k]
    BY <1>3, <1>a DEF Arrive, At, Requested, NoRequest
  <2>2. UNCHANGED store /\ history'.sent = history.sent
    BY <1>3, <1>a DEF Arrive, HistoryTypes
  <2> QED  BY <2>1, <2>2, FirstSteps, QueueStays DEF At
<1>4. CASE ExpireCached \/ OtherEntry \/ ExpireListed
  <2>1. UNCHANGED <<store, request>> /\ history'.sent = history.sent
    BY <1>4, <1>a DEF ExpireCached, OtherEntry, ExpireListed, HistoryTypes
  <2> QED  BY <2>1, QueueStays DEF At
<1> QED  BY <1>1, <1>2, <1>3, <1>4 DEF Next

LEMMA InitStore == Init => StoreInv
<1> SUFFICES ASSUME Init PROVE StoreInv
  OBVIOUS
<1>1. Dequeuing = {} /\ Len(store) = 0 /\ history.sent = 0
  BY DEF Init, Dequeuing, At, NoRequest
<1> QED  BY <1>1, ConstantsAssumption DEF StoreInv

LEMMA StoredWereSent ==
    ASSUME TypeInv
    PROVE  /\ Range(store) \subseteq 1..history.sent /\ isRead \subseteq 1..history.sent
           /\ history.sent \in Nat /\ history.read \in Nat
           /\ \A r \in Requests : request[r].seen \in Nat
<1>1. history.sent \in Nat /\ Len(store) \in Nat /\ DOMAIN store = 1..Len(store)
  BY DEF TypeInv, Types, HistoryTypes
<1>2. \A i \in DOMAIN store : store[i] \in 1..history.sent
  BY <1>1 DEF TypeInv, InOrder
<1> QED  BY <1>1, <1>2 DEF Range, TypeInv, Kept, Types, HistoryTypes, Requested, RequestType

LEMMA ReadStays ==
    ASSUME TypeInv, ReadInv, UNCHANGED isRead, history'.read = history.read,
           Range(store)' \subseteq Range(store), history'.sent = history.sent,
           \A r \in Requests : At(r, "markRead")' =>
               request'[r].seen <= history.sent
    PROVE  ReadInv'
  BY DEF ReadInv

(* Requests that neither notify nor read have nothing to do with either. *)
LEMMA AwayFromReading ==
    ASSUME Requested, HistoryTypes, NEW r \in Requests, Step(r), ~NotifyAsync(r), ~Enumerate(r),
           ~MarkRead(r)
    PROVE  /\ UNCHANGED isRead /\ history'.read = history.read
           /\ request'[r].step # "markRead"
<1> USE GoStep, EndStep DEF At, HistoryTypes
<1>1. CASE SetCache(r)
  BY <1>1 DEF SetCache, Settle
<1>2. CASE Fetch(r)
  BY <1>2 DEF Fetch
<1>3. CASE Hit(r)
  BY <1>3 DEF Hit, Answered
<1>4. CASE Miss(r)
  BY <1>4 DEF Miss, Answered
<1>5. CASE MissWithoutFactory(r)
  BY <1>5 DEF MissWithoutFactory
<1>6. CASE Race(r)
  BY <1>6 DEF Race, Answered, Requested
<1>7. CASE Throw(r)
  BY <1>7 DEF Throw
<1>8. CASE CountHit(r)
  BY <1>8 DEF CountHit
<1>9. CASE CountMiss(r)
  BY <1>9 DEF CountMiss
<1>10. CASE CountTest(r)
  BY <1>10 DEF CountTest
<1>11. CASE ResetStatistics(r)
  <2>1. UNCHANGED isRead /\ history'.read = history.read
    <3>1. CASE UNCHANGED history
      BY <1>11, <3>1 DEF ResetStatistics
    <3>2. CASE history' = [history EXCEPT !.answered = 0, !.nulls = 0,
                                          !.exact = @ \/ UnderWay(Counting) = {}]
      BY <1>11, <3>2 DEF ResetStatistics
    <3> QED  BY <1>11, <3>1, <3>2 DEF ResetStatistics
  <2> QED  BY <1>11, <2>1 DEF ResetStatistics
<1>12. CASE Track(r)
  BY <1>12 DEF Track
<1>13. CASE RegisterRead(r)
  BY <1>13 DEF RegisterRead, Requested
<1>14. CASE RegisterWrite(r)
  BY <1>14 DEF RegisterWrite
<1>15. CASE RemoveCache(r)
  BY <1>15 DEF RemoveCache, Settle
<1>16. CASE Untrack(r)
  BY <1>16 DEF Untrack
<1>17. CASE Deactivate(r)
  BY <1>17 DEF Deactivate
<1>18. CASE Invalidate(r)
  BY <1>18 DEF Invalidate
<1>19. CASE ListExpired(r)
  BY <1>19 DEF ListExpired
<1>20. CASE Snapshot(r)
  BY <1>20 DEF Snapshot, Requested
<1>21. CASE Recompute(r)
  BY <1>21 DEF Recompute
<1> QED
  BY <1>1, <1>2, <1>3, <1>4, <1>5, <1>6, <1>7, <1>8, <1>9, <1>10, <1>11, <1>12, <1>13, <1>14, <1>15, <1>16, <1>17, <1>18, <1>19, <1>20, <1>21 DEF Step

LEMMA StepRead ==
    ASSUME TypeInv, ReadInv, NEW r \in Requests, Step(r)
    PROVE  ReadInv'
<1>a. Requested /\ HistoryTypes /\ store \in Seq(Nat)
  BY DEF TypeInv, Types
<1>b. \A q \in Requests \ {r} : request'[q] = request[q]
  BY <1>a, OneMoves DEF Requested
<1>c. /\ Range(store) \subseteq 1..history.sent /\ isRead \subseteq 1..history.sent
      /\ history.sent \in Nat /\ history.read \in Nat /\ request[r].seen \in Nat
  BY StoredWereSent
<1>d. ASSUME At(r, "markRead")' => At(r, "markRead") /\ request'[r].seen = request[r].seen
      PROVE  \A q \in Requests : At(q, "markRead")' => request'[q].seen <= history.sent
  BY <1>b, <1>d DEF ReadInv, At
<1>1. CASE ~NotifyAsync(r) /\ ~Enumerate(r) /\ ~MarkRead(r)
  <2>1. ~At(r, "markRead")' /\ UNCHANGED <<isRead, store>> /\ history'.read = history.read
        /\ history'.sent = history.sent
    BY <1>1, <1>a, AwayFromReading, AwayFromQueue DEF At
  <2> QED  BY <2>1, <1>d, ReadStays
<1>2. CASE Enqueue(r)
  <2>1. ~At(r, "markRead")' /\ UNCHANGED isRead /\ history'.sent = history.sent + 1
        /\ history'.read = history.read /\ store' = Append(store, history.sent + 1)
    BY <1>2, <1>a, GoStep DEF Enqueue, At, HistoryTypes
  <2>2. Range(store)' \subseteq Range(store) \cup {history.sent + 1}
    BY <2>1, <1>a DEF Range
  <2>3. \A q \in Requests : At(q, "markRead")' => request'[q].seen <= history'.sent
    BY <2>1, <1>d, <1>c, <1>b, StoredWereSent DEF At
  <2>4. ASSUME NEW n \in (Range(store) \ isRead)'
        PROVE  n > history.read /\ \A m \in (Range(store) \cap isRead)' : m < n
    <3>1. \A m \in (Range(store) \cap isRead)' : m \in Range(store) \cap isRead
      BY <2>1, <2>2, <1>c
    <3>2. CASE n \in Range(store)
      BY <2>1, <2>4, <3>1, <3>2 DEF ReadInv
    <3>3. CASE n = history.sent + 1
      BY <3>1, <3>3, <1>c DEF ReadInv
    <3> QED  BY <2>2, <2>4, <3>2, <3>3
  <2> QED  BY <2>1, <2>3, <2>4, <1>c DEF ReadInv
<1>3. CASE Trim(r)
  <2>1. ~At(r, "markRead")' /\ UNCHANGED <<isRead, store, history>>
    BY <1>3, <1>a, GoStep, EndStep DEF Trim, At
  <2> QED  BY <2>1, <1>d, ReadStays
<1>4. CASE Dequeue(r)
  <2>1. ~At(r, "markRead")' /\ UNCHANGED <<isRead, history>>
        /\ store' = IF store = <<>> THEN store ELSE Tail(store)
    BY <1>4, <1>a, GoStep DEF Dequeue, At
  <2>2. Range(store)' \subseteq Range(store)
    BY <2>1, <1>a DEF Range
  <2> QED  BY <2>1, <2>2, <1>d, ReadStays
<1>5. CASE Enumerate(r)
  <2>1. request'[r].seen = history.sent /\ UNCHANGED <<isRead, store, history>>
    BY <1>5, <1>a DEF Enumerate, Requested, RequestType
  <2>2. \A q \in Requests : At(q, "markRead")' => request'[q].seen <= history.sent
    BY <2>1, <1>b, <1>c DEF ReadInv, At
  <2> QED  BY <2>1, <2>2, ReadStays
<1>6. CASE MarkRead(r)
  <2>1. UNCHANGED store /\ At(r, "markRead") /\ request[r].seen <= history.sent
    BY <1>6, Marks DEF ReadInv
  <2>2. CASE /\ \A n \in Range(store) \ isRead : ~(n <= request[r].seen)
             /\ End(r) /\ UNCHANGED isRead
             /\ \E k \in {history.read, request[r].seen} : history' = [history EXCEPT !.read = k]
    <3>1. history'.read \in {history.read, request[r].seen} /\ history'.sent = history.sent
      BY <2>2, <1>a DEF HistoryTypes
    <3>2. \A q \in Requests : At(q, "markRead")' => request'[q].seen <= history'.sent
      BY <2>2, <3>1, <1>d, <1>a, EndStep DEF At
    <3>3. \A n \in Range(store) \ isRead : n > history'.read
      BY <2>2, <3>1, <1>c DEF ReadInv
    <3> QED  BY <2>1, <2>2, <3>1, <3>2, <3>3 DEF ReadInv
  <2>3. CASE /\ UNCHANGED <<request, history>>
             /\ \E n \in Range(store) \ isRead :
                /\ n <= request[r].seen /\ isRead' = isRead \cup {n}
                /\ \A m \in Range(store) \ isRead : m <= request[r].seen => n <= m
    <3>1. PICK n \in Range(store) \ isRead :
                /\ n <= request[r].seen /\ isRead' = isRead \cup {n}
                /\ \A m \in Range(store) \ isRead : m <= request[r].seen => n <= m
      BY <2>3
    <3>2. ASSUME NEW k \in Range(store) \ isRead, k # n, NEW m \in Range(store) \cap isRead'
          PROVE  k > history.read /\ m < k
      <4>1. CASE m = n
        BY <3>1, <3>2, <4>1, <1>c DEF ReadInv
      <4>2. CASE m # n
        BY <3>1, <3>2, <4>2 DEF ReadInv
      <4> QED  BY <4>1, <4>2
    <3> QED  BY <2>1, <2>3, <3>1, <3>2 DEF ReadInv, At
  <2> QED  BY <1>6, <2>2, <2>3, Marks
<1> QED  BY <1>1, <1>2, <1>3, <1>4, <1>5, <1>6 DEF NotifyAsync

LEMMA NextRead == TypeInv /\ ReadInv /\ [Next]_vars => ReadInv'
<1> SUFFICES ASSUME TypeInv, ReadInv, [Next]_vars PROVE ReadInv'
  OBVIOUS
<1>a. Requested /\ HistoryTypes
  BY DEF TypeInv, Types
<1>1. CASE UNCHANGED vars
  BY <1>1 DEF vars, ReadInv, At
<1>2. ASSUME NEW r \in Requests, Step(r) PROVE ReadInv'
  BY <1>2, StepRead
<1>3. ASSUME NEW r \in Requests, NEW k \in DOMAIN FirstStep, Arrive(r, k) PROVE ReadInv'
  <2>1. /\ \A q \in Requests \ {r} : request'[q] = request[q]
        /\ request'[r].step = FirstStep[k] /\ FirstStep[k] # "markRead"
    BY <1>3, <1>a DEF Arrive, Requested, NoRequest, FirstStep
  <2>2. UNCHANGED <<store, isRead>> /\ history'.sent = history.sent /\ history'.read = history.read
    BY <1>3, <1>a DEF Arrive, HistoryTypes
  <2>3. \A q \in Requests : At(q, "markRead")' => request'[q].seen <= history.sent
    BY <2>1 DEF ReadInv, At
  <2> QED  BY <2>2, <2>3, ReadStays
<1>4. CASE ExpireCached \/ OtherEntry \/ ExpireListed
  <2>1. /\ UNCHANGED <<store, isRead, request>> /\ history'.sent = history.sent
        /\ history'.read = history.read
    BY <1>4, <1>a DEF ExpireCached, OtherEntry, ExpireListed, HistoryTypes
  <2>2. \A q \in Requests : At(q, "markRead")' => request'[q].seen <= history.sent
    BY <2>1 DEF ReadInv, At
  <2> QED  BY <2>1, <2>2, ReadStays
<1> QED  BY <1>1, <1>2, <1>3, <1>4 DEF Next

LEMMA InitRead == Init => ReadInv
<1> SUFFICES ASSUME Init PROVE ReadInv
  OBVIOUS
<1>1. Range(store) = {} /\ history.sent = 0 /\ history.read = 0
  BY DEF Init, Range
<1>2. \A r \in Requests : ~At(r, "markRead")
  BY DEF Init, NoRequest, At
<1> QED  BY <1>1, <1>2 DEF ReadInv

(* Requests that fill and trim the queue at the same time keep the newest  *)
(* notifications in order: never more than MaxEntries when none is at it,  *)
(* and never fewer than MaxEntries less the other requests, since each may *)
(* take an entry for the same one too many.  However MarkAllReads overlap  *)
(* with these, what is unread is newer than what is read and than every    *)
(* MarkAllRead that has ended.                                             *)
THEOREM NewestStayKept == Spec => []NewestKept
<1>1. TypeInv /\ StoreInv /\ ReadInv => NewestKept
  <2> SUFFICES ASSUME TypeInv, StoreInv, ReadInv PROVE NewestKept
    OBVIOUS
  <2>1. /\ IsFiniteSet(Dequeuing) /\ Cardinality(Dequeuing) \in Nat
        /\ Cardinality(Requests) \in Nat /\ MaxEntries \in Nat /\ Len(store) \in Nat
    BY FS_Subset, FS_CardinalityType, ConstantsAssumption DEF Dequeuing, TypeInv, Types
  <2>2. UnderWay({"notify"}) = {} => Len(store) <= MaxEntries
    <3>1. ASSUME NEW r \in Requests, At(r, "trim") \/ At(r, "dequeue")
          PROVE  r \in UnderWay({"notify"})
      <4>1. request[r].kind = "notify"
        BY <3>1, RequestFacts, KindCases DEF TypeInv, At, Registering, Removing
      <4> QED  BY <3>1, <4>1 DEF UnderWay, At
    <3> QED  BY <2>1, <3>1 DEF StoreInv
  <2>3. Len(store) >= MaxEntries + 1 - Cardinality(Requests) \/ Len(store) = history.sent
    BY <2>1, ConstantsAssumption, FS_CardinalityType DEF StoreInv
  <2> QED  BY <2>2, <2>3 DEF NewestKept, ReadInv, TypeInv, InOrder
<1> QED  BY <1>1, InitTypes, NextTypes, InitStore, NextStore, InitRead, NextRead, PTL DEF Spec

-----------------------------------------------------------------------------
(* The registry: proofs. *)

(* Who does not register has nothing to do with TimesSet. *)
LEMMA AwayFromRegistry ==
    ASSUME Requested, HistoryTypes, Kept, NEW r \in Requests, Step(r),
           ~RegisterRead(r), ~RegisterWrite(r)
    PROVE  /\ registry'.timesSet = registry.timesSet
           /\ history'.registered = history.registered /\ history'.serial = history.serial
           /\ ~At(r, "addOrUpdate")'
<1> USE GoStep, EndStep DEF At, HistoryTypes
<1>1. CASE SetCache(r)
  BY <1>1 DEF SetCache, Settle
<1>2. CASE Fetch(r)
  BY <1>2 DEF Fetch
<1>3. CASE Hit(r)
  BY <1>3 DEF Hit, Answered
<1>4. CASE Miss(r)
  BY <1>4 DEF Miss, Answered
<1>5. CASE MissWithoutFactory(r)
  BY <1>5 DEF MissWithoutFactory
<1>6. CASE Race(r)
  BY <1>6 DEF Race, Answered, Requested
<1>7. CASE Throw(r)
  BY <1>7 DEF Throw
<1>8. CASE CountHit(r)
  BY <1>8 DEF CountHit
<1>9. CASE CountMiss(r)
  BY <1>9 DEF CountMiss
<1>10. CASE CountTest(r)
  BY <1>10 DEF CountTest
<1>11. CASE ResetStatistics(r)
  <2>1. history'.registered = history.registered /\ history'.serial = history.serial
    <3>1. CASE UNCHANGED history
      BY <3>1
    <3>2. CASE history' = [history EXCEPT !.answered = 0, !.nulls = 0,
                                          !.exact = @ \/ UnderWay(Counting) = {}]
      BY <3>2
    <3> QED  BY <1>11, <3>1, <3>2 DEF ResetStatistics
  <2> QED  BY <1>11, <2>1 DEF ResetStatistics
<1>12. CASE Track(r)
  BY <1>12 DEF Track
<1>13. CASE RemoveCache(r)
  BY <1>13 DEF RemoveCache, Settle
<1>14. CASE Untrack(r)
  BY <1>14 DEF Untrack
<1>15. CASE Deactivate(r)
  BY <1>15 DEF Deactivate, Kept
<1>16. CASE Invalidate(r)
  BY <1>16 DEF Invalidate
<1>17. CASE ListExpired(r)
  BY <1>17 DEF ListExpired
<1>18. CASE Snapshot(r)
  BY <1>18 DEF Snapshot, Requested
<1>19. CASE Recompute(r)
  BY <1>19 DEF Recompute, Kept
<1>20. CASE NotifyAsync(r)
  BY <1>20 DEF NotifyAsync, Enqueue, Trim, Dequeue
<1>21. CASE Enumerate(r)
  BY <1>21 DEF Enumerate, Requested
<1>22. CASE MarkRead(r)
  BY <1>22 DEF MarkRead
<1> QED
  BY <1>1, <1>2, <1>3, <1>4, <1>5, <1>6, <1>7, <1>8, <1>9, <1>10, <1>11, <1>12, <1>13, <1>14, <1>15, <1>16, <1>17, <1>18, <1>19, <1>20, <1>21, <1>22 DEF Step

LEMMA RegistryStays ==
    ASSUME RegistryInv, registry'.timesSet = registry.timesSet,
           history'.registered = history.registered, history'.serial = history.serial,
           \A q \in Requests : At(q, "addOrUpdate")' =>
               At(q, "addOrUpdate") /\ request'[q] = request[q]
    PROVE  RegistryInv'
  BY DEF RegistryInv, At

LEMMA StepRegistry ==
    ASSUME TypeInv, RegistryInv, NEW r \in Requests, Step(r)
    PROVE  RegistryInv'
<1>a. Requested /\ HistoryTypes /\ Kept
  BY DEF TypeInv, Types
<1>b. \A q \in Requests \ {r} : request'[q] = request[q]
  BY <1>a, OneMoves DEF Requested
<1>c. /\ registry.timesSet \in Nat /\ history.registered \in Nat
      /\ request[r].seen \in Nat
  BY <1>a DEF Kept, HistoryTypes, Requested, RequestType
<1>1. CASE ~RegisterRead(r) /\ ~RegisterWrite(r)
  BY <1>1, <1>a, <1>b, AwayFromRegistry, RegistryStays DEF At
<1>2. CASE RegisterRead(r)
  <2>1. /\ request'[r].seen = registry.timesSet /\ UNCHANGED registry
        /\ history'.registered = history.registered
    BY <1>2, <1>a DEF RegisterRead, Requested, RequestType, HistoryTypes
  <2>2. history'.serial = (history.serial /\ \A q \in Requests : ~At(q, "addOrUpdate"))
    BY <1>2, <1>a DEF RegisterRead, HistoryTypes
  <2>3. CASE history'.serial
    <3>1. history.serial /\ \A q \in Requests : ~At(q, "addOrUpdate")
      BY <2>2, <2>3
    <3>2. \A q \in Requests : At(q, "addOrUpdate")' => q = r
      BY <3>1, <1>b DEF At
    <3> QED  BY <2>1, <3>1, <3>2 DEF RegistryInv
  <2> QED  BY <2>1, <2>3 DEF RegistryInv
<1>3. CASE RegisterWrite(r)
  <2>1. ~At(r, "addOrUpdate")' /\ At(r, "addOrUpdate")
    BY <1>3, <1>a, GoStep, EndStep DEF RegisterWrite, At
  <2>2. CASE UNCHANGED <<registry, history>>
    BY <2>1, <2>2, <1>b, RegistryStays DEF At
  <2>3. CASE /\ registry' = [active |-> TRUE, timesSet |-> request[r].seen + 1]
             /\ history' = [history EXCEPT !.registered = @ + 1]
    <3>1. /\ registry'.timesSet = request[r].seen + 1 /\ history'.serial = history.serial
          /\ history'.registered = history.registered + 1
      BY <2>3, <1>a DEF HistoryTypes
    <3>2. registry'.timesSet > 0
      BY <3>1, <1>c
    <3>3. CASE history.serial
      <4>1. \A q \in Requests : ~At(q, "addOrUpdate")'
        BY <2>1, <3>3, <1>b DEF RegistryInv, At
      <4>2. registry'.timesSet = history'.registered
        BY <2>1, <3>1, <3>3 DEF RegistryInv
      <4> QED  BY <3>2, <4>1, <4>2 DEF RegistryInv
    <3> QED  BY <3>1, <3>2, <3>3 DEF RegistryInv
  <2> QED  BY <1>3, <2>2, <2>3 DEF RegisterWrite
<1> QED  BY <1>1, <1>2, <1>3

LEMMA NextRegistry == TypeInv /\ RegistryInv /\ [Next]_vars => RegistryInv'
<1> SUFFICES ASSUME TypeInv, RegistryInv, [Next]_vars PROVE RegistryInv'
  OBVIOUS
<1>a. Requested /\ HistoryTypes
  BY DEF TypeInv, Types
<1>1. CASE UNCHANGED vars
  BY <1>1, RegistryStays DEF vars, At
<1>2. ASSUME NEW r \in Requests, Step(r) PROVE RegistryInv'
  BY <1>2, StepRegistry
<1>3. ASSUME NEW r \in Requests, NEW k \in DOMAIN FirstStep, Arrive(r, k) PROVE RegistryInv'
  <2>1. /\ \A q \in Requests \ {r} : request'[q] = request[q]
        /\ request'[r].step = FirstStep[k] /\ UNCHANGED registry
    BY <1>3, <1>a DEF Arrive, Requested, NoRequest
  <2>2. history'.registered = history.registered /\ history'.serial = history.serial
    BY <1>3, <1>a DEF Arrive, HistoryTypes
  <2> QED  BY <2>1, <2>2, FirstSteps, RegistryStays DEF At
<1>4. CASE ExpireCached \/ OtherEntry \/ ExpireListed
  <2>1. /\ UNCHANGED <<registry, request>> /\ history'.registered = history.registered
        /\ history'.serial = history.serial
    BY <1>4, <1>a DEF ExpireCached, OtherEntry, ExpireListed, HistoryTypes
  <2> QED  BY <2>1, RegistryStays DEF At
<1> QED  BY <1>1, <1>2, <1>3, <1>4 DEF Next

LEMMA InitRegistry == Init => RegistryInv
<1> SUFFICES ASSUME Init PROVE RegistryInv
  OBVIOUS
<1>1. registry.timesSet = 0 /\ history.registered = 0
  BY DEF Init
<1>2. \A r \in Requests : ~At(r, "addOrUpdate")
  BY DEF Init, At, NoRequest
<1> QED  BY <1>1, <1>2 DEF RegistryInv

(* Concurrent registrations of a key never count it too often nor lose it, *)
(* and miss one only if two have overlapped.                               *)
THEOREM RegistrationsAreCounted == Spec => []RegistrationsCounted
<1>1. TypeInv /\ RegistryInv => RegistrationsCounted
  BY DEF TypeInv, Kept, Types, HistoryTypes, RegistryInv, RegistrationsCounted
<1> QED  BY <1>1, InitTypes, NextTypes, InitRegistry, NextRegistry, PTL DEF Spec

-----------------------------------------------------------------------------
(* The counters: proofs. *)

(* Which requests reach a step. *)
LEMMA StepKinds ==
    ASSUME Requested, Types, NEW r \in Requests
    PROVE  LET s == request[r].step
               k == request[r].kind
           IN  /\ s = "setCache" => k = "set"
               /\ s = "fetch" => k = "bulkSet"
               /\ s \in {"getCache", "countHit", "countMiss", "countNull"} => k = "get"
               /\ s \in {"race", "countTest"} => k \in Tests
               /\ s \in Registering => k \in {"set", "get", "bulkSet"} \cup Tests
               /\ s = "removeCache" => k \in {"evictAndTest", "remove"}
               /\ s \in {"untrack", "deactivate"} => k \in {"evictAndTest", "remove", "prune"}
               /\ s = "invalidate" => k = "removeByTag"
               /\ s = "list" => k = "prune"
               /\ s \in {"snapshot", "recompute"} => k = "getKeyRegistry"
               /\ s \in {"resetHits", "resetMisses", "resetFactories"} <=> k = "reset"
               /\ s \in {"enqueue", "trim", "dequeue"} => k = "notify"
               /\ s \in {"enumerate", "markRead"} => k = "markAllRead"
  BY RequestFacts, KindCases DEF Registering, Removing, Tests

(* A set of requests from which at most r is taken, or to which it is added. *)
LEMMA CardMoves ==
    ASSUME NEW S, NEW T, NEW r \in Requests, S \subseteq Requests, T \subseteq Requests,
           \A q \in Requests \ {r} : q \in T <=> q \in S
    PROVE  /\ Cardinality(S) \in Nat /\ Cardinality(T) \in Nat
           /\ r \in S /\ r \in T => Cardinality(T) = Cardinality(S)
           /\ r \notin S /\ r \notin T => Cardinality(T) = Cardinality(S)
           /\ r \notin S /\ r \in T => Cardinality(T) = Cardinality(S) + 1
           /\ r \in S /\ r \notin T => Cardinality(T) = Cardinality(S) - 1
<1>1. /\ IsFiniteSet(S) /\ Cardinality(S) \in Nat
      /\ IsFiniteSet(T) /\ Cardinality(T) \in Nat
  BY FS_Subset, FS_CardinalityType, ConstantsAssumption
<1>2. (r \in S <=> r \in T) => T = S
  OBVIOUS
<1>3. r \notin S /\ r \in T => T = S \cup {r}
  OBVIOUS
<1>4. r \in S /\ r \notin T => T = S \ {r}
  OBVIOUS
<1> QED  BY <1>1, <1>2, <1>3, <1>4, FS_AddElement, FS_RemoveElement

(* What a step has to do with the counters, and what that leaves to count. *)
Calls(q) == q.step \in {"countHit", "countMiss", "countNull"}
AllCalls(q) == q.kind \in Tests /\ q.step \in Registering \cup {"countTest"}
Missed(q) == q.step \in {"countMiss", "countNull"} \/ (q.kind \in Tests /\ q.runs > 0)

(* A number that goes from m to n, as one member comes or goes. *)
Moves(m, n, before, after) ==
    /\ m \in Nat /\ n \in Nat
    /\ (before <=> after) => n = m
    /\ ~before /\ after => n = m + 1
    /\ before /\ ~after => n = m - 1

LEMMA CountsMove ==
    ASSUME Requested, Types, NEW r \in Requests,
           \A q \in Requests \ {r} : request'[q] = request[q]
    PROVE  LET x == request[r]
               y == request'[r]
           IN  /\ Moves(Cardinality(CallsToCount), Cardinality(CallsToCount'), Calls(x), Calls(y))
               /\ Moves(Cardinality(TestsToCount), Cardinality(TestsToCount'),
                        AllCalls(x), AllCalls(y))
               /\ Moves(Cardinality(MissesToCount), Cardinality(MissesToCount'),
                        Missed(x), Missed(y))
<1>1. /\ CallsToCount = {q \in Requests : Calls(request[q])}
      /\ CallsToCount' = {q \in Requests : Calls(request'[q])}
  BY DEF CallsToCount, Calls
<1>2. /\ TestsToCount = {q \in Requests : AllCalls(request[q])}
      /\ TestsToCount' = {q \in Requests : AllCalls(request'[q])}
  BY DEF TestsToCount, AllCalls
<1>3. /\ MissesToCount = {q \in Requests : Missed(request[q])}
      /\ MissesToCount' = {q \in Requests : Missed(request'[q])}
  BY DEF MissesToCount, Missed
<1>4. Moves(Cardinality(CallsToCount), Cardinality(CallsToCount'),
            Calls(request[r]), Calls(request'[r]))
  <2>1. \A q \in Requests : (q \in CallsToCount <=> Calls(request[q])) /\ (q \in CallsToCount' <=> Calls(request'[q]))
    BY <1>1
  <2>2. CallsToCount \subseteq Requests /\ CallsToCount' \subseteq Requests
    BY <1>1
  <2>3. \A q \in Requests \ {r} : q \in CallsToCount' <=> q \in CallsToCount
    BY <2>1
  <2> HIDE <1>1
  <2> QED  BY <2>1, <2>2, <2>3, CardMoves DEF Moves
<1>5. Moves(Cardinality(TestsToCount), Cardinality(TestsToCount'),
            AllCalls(request[r]), AllCalls(request'[r]))
  <2>1. \A q \in Requests : (q \in TestsToCount <=> AllCalls(request[q])) /\ (q \in TestsToCount' <=> AllCalls(request'[q]))
    BY <1>2
  <2>2. TestsToCount \subseteq Requests /\ TestsToCount' \subseteq Requests
    BY <1>2
  <2>3. \A q \in Requests \ {r} : q \in TestsToCount' <=> q \in TestsToCount
    BY <2>1
  <2> HIDE <1>2
  <2> QED  BY <2>1, <2>2, <2>3, CardMoves DEF Moves
<1>6. Moves(Cardinality(MissesToCount), Cardinality(MissesToCount'),
            Missed(request[r]), Missed(request'[r]))
  <2>1. \A q \in Requests : (q \in MissesToCount <=> Missed(request[q])) /\ (q \in MissesToCount' <=> Missed(request'[q]))
    BY <1>3
  <2>2. MissesToCount \subseteq Requests /\ MissesToCount' \subseteq Requests
    BY <1>3
  <2>3. \A q \in Requests \ {r} : q \in MissesToCount' <=> q \in MissesToCount
    BY <2>1
  <2> HIDE <1>3
  <2> QED  BY <2>1, <2>2, <2>3, CardMoves DEF Moves
<1> QED  BY <1>4, <1>5, <1>6

Uncounted ==
    /\ UNCHANGED count
    /\ history'.answered = history.answered /\ history'.nulls = history.nulls
    /\ history'.exact = history.exact

Aside(r) ==
    /\ Uncounted
    /\ Calls(request'[r]) <=> Calls(request[r])
    /\ AllCalls(request'[r]) <=> AllCalls(request[r])
    /\ Missed(request'[r]) <=> Missed(request[r])

LEMMA HistoryAside ==
    ASSUME HistoryTypes, UNCHANGED count,
           \/ UNCHANGED history
           \/ \E n : history' = [history EXCEPT !.registered = n]
           \/ \E n : history' = [history EXCEPT !.sent = n]
           \/ \E n : history' = [history EXCEPT !.read = n]
           \/ \E a, k : history' = [history EXCEPT !.alone = a, !.known = k]
    PROVE  Uncounted
  BY DEF HistoryTypes, Uncounted

(* A request that goes on, or ends, with nothing to count before or after. *)
LEMMA GoAside ==
    ASSUME NEW r \in Requests, Uncounted,
           request'[r].kind = request[r].kind, request'[r].runs = request[r].runs,
           ~Calls(request[r]), ~Calls(request'[r]),
           request[r].kind \in Tests =>
               (request'[r].step \in Registering \cup {"countTest"}
                    <=> request[r].step \in Registering \cup {"countTest"})
    PROVE  Aside(r)
  BY DEF Aside, Calls, AllCalls, Missed

LEMMA EndAside ==
    ASSUME Requested, NEW r \in Requests, Uncounted, End(r),
           ~Calls(request[r]), request[r].kind \notin Tests
    PROVE  Aside(r)
<1>1. request'[r].step = "idle" /\ request'[r].kind = "none" /\ request'[r].runs = 0
  BY EndStep
<1> QED  BY <1>1 DEF Aside, Calls, AllCalls, Missed, Tests

LEMMA RegisterAside ==
    ASSUME Requested, Types, NEW r \in Requests, RegisterWrite(r)
    PROVE  Aside(r)
<1>1. Uncounted
  <2>1. UNCHANGED history \/ \E n : history' = [history EXCEPT !.registered = n]
    BY DEF RegisterWrite
  <2> QED  BY <2>1, HistoryAside DEF RegisterWrite, Types
<1>2. request[r].step = "addOrUpdate" /\ request[r].kind \in DOMAIN StepsOf
  BY RequestFacts DEF RegisterWrite, At
<1>3. \/ Go(r, "register")
      \/ Go(r, "countTest") /\ request[r].kind \in Tests
      \/ End(r) /\ request[r].kind \notin Tests
  BY DEF RegisterWrite
<1>4. CASE Go(r, "register")
  <2>1. /\ request'[r].step = "register" /\ request'[r].kind = request[r].kind
        /\ request'[r].runs = request[r].runs
    BY <1>4, GoStep
  <2> QED  BY <1>1, <1>2, <2>1 DEF Aside, Calls, AllCalls, Missed, Registering
<1>5. CASE Go(r, "countTest") /\ request[r].kind \in Tests
  <2>1. /\ request'[r].step = "countTest" /\ request'[r].kind = request[r].kind
        /\ request'[r].runs = request[r].runs
    BY <1>5, GoStep
  <2> QED  BY <1>1, <1>2, <2>1 DEF Aside, Calls, AllCalls, Missed, Registering
<1>6. CASE End(r) /\ request[r].kind \notin Tests
  <2>1. request'[r].step = "idle" /\ request'[r].kind = "none" /\ request'[r].runs = 0
    BY <1>6, EndStep
  <2> QED  BY <1>1, <1>2, <1>6, <2>1 DEF Aside, Calls, AllCalls, Missed, Registering, Tests
<1> QED  BY <1>3, <1>4, <1>5, <1>6

LEMMA EnqueueAside ==
    ASSUME Requested, Types, NEW r \in Requests, Enqueue(r)
    PROVE  Aside(r)
<1>1. Uncounted
  <2>1. \E n : history' = [history EXCEPT !.sent = n]
    BY DEF Enqueue
  <2> QED  BY <2>1, HistoryAside DEF Enqueue, Types
<1>2. /\ request[r].step = "enqueue" /\ request'[r].step = "trim"
      /\ request'[r].kind = request[r].kind /\ request'[r].runs = request[r].runs
  BY GoStep DEF Enqueue, At
<1> QED  BY <1>1, <1>2 DEF Aside, Calls, AllCalls, Missed, Registering

LEMMA CountersAside ==
    ASSUME Requested, Types, NEW r \in Requests,
           \/ SetCache(r) \/ Track(r) \/ RegisterRead(r) \/ RegisterWrite(r)
           \/ RemoveCache(r) \/ Untrack(r) \/ Deactivate(r) \/ Invalidate(r)
           \/ ListExpired(r) \/ Snapshot(r) \/ Recompute(r) \/ NotifyAsync(r)
           \/ Enumerate(r) \/ MarkRead(r)
    PROVE  Aside(r)
<1>0. HistoryTypes
  BY DEF Types
<1>1. CASE SetCache(r)
  <2>1. Uncounted
    BY <1>1, <1>0, HistoryAside DEF SetCache, Settle
  <2>2. request[r].step = "setCache" /\ Go(r, "track")
    BY <1>1 DEF SetCache, At
  <2>3. /\ request'[r].step = "track" /\ request'[r].kind = request[r].kind
        /\ request'[r].runs = request[r].runs
    BY <2>2, GoStep
  <2> QED  BY <2>1, <2>2, <2>3, GoAside, StepKinds DEF Calls, Registering, Tests
<1>2. CASE Track(r)
  <2>1. Uncounted
    BY <1>2, <1>0, HistoryAside DEF Track
  <2>2. request[r].step = "track" /\ Go(r, "register")
    BY <1>2 DEF Track, At
  <2>3. /\ request'[r].step = "register" /\ request'[r].kind = request[r].kind
        /\ request'[r].runs = request[r].runs
    BY <2>2, GoStep
  <2> QED  BY <2>1, <2>2, <2>3, GoAside, StepKinds DEF Calls, Registering, Tests
<1>3. CASE RegisterRead(r)
  <2>1. Uncounted
    BY <1>3, <1>0 DEF RegisterRead, Uncounted, HistoryTypes
  <2>2. request[r].step = "register"
    BY <1>3 DEF RegisterRead, At
  <2>3. /\ request'[r].step = "addOrUpdate" /\ request'[r].kind = request[r].kind
        /\ request'[r].runs = request[r].runs
    BY <1>3 DEF RegisterRead, Requested, RequestType
  <2> QED  BY <2>1, <2>2, <2>3, GoAside, StepKinds DEF Calls, Registering, Tests
<1>4. CASE RegisterWrite(r)
  BY <1>4, RegisterAside
<1>5. CASE RemoveCache(r)
  <2>1. Uncounted
    BY <1>5, <1>0, HistoryAside DEF RemoveCache, Settle
  <2>2. request[r].step = "removeCache" /\ Go(r, "untrack")
    BY <1>5 DEF RemoveCache, At
  <2>3. /\ request'[r].step = "untrack" /\ request'[r].kind = request[r].kind
        /\ request'[r].runs = request[r].runs
    BY <2>2, GoStep
  <2> QED  BY <2>1, <2>2, <2>3, GoAside, StepKinds DEF Calls, Registering, Tests
<1>6. CASE Untrack(r)
  <2>1. Uncounted
    BY <1>6, <1>0, HistoryAside DEF Untrack
  <2>2. request[r].step = "untrack" /\ Go(r, "deactivate")
    BY <1>6 DEF Untrack, At
  <2>3. /\ request'[r].step = "deactivate" /\ request'[r].kind = request[r].kind
        /\ request'[r].runs = request[r].runs
    BY <2>2, GoStep
  <2> QED  BY <2>1, <2>2, <2>3, GoAside, StepKinds DEF Calls, Registering, Tests
<1>7. CASE Deactivate(r)
  <2>1. Uncounted
    BY <1>7, <1>0, HistoryAside DEF Deactivate
  <2>2. request[r].step = "deactivate" /\ (Go(r, "race") \/ (End(r) /\ request[r].kind # "evictAndTest"))
    BY <1>7 DEF Deactivate, At
  <2>3. CASE Go(r, "race")
    <3>1. /\ request'[r].step = "race" /\ request'[r].kind = request[r].kind
          /\ request'[r].runs = request[r].runs
      BY <2>3, GoStep
    <3> QED  BY <2>1, <2>2, <3>1, GoAside, StepKinds DEF Calls, Registering, Tests
  <2>4. CASE End(r) /\ request[r].kind # "evictAndTest"
    BY <2>1, <2>2, <2>4, EndAside, StepKinds DEF Calls, Tests
  <2> QED  BY <2>2, <2>3, <2>4
<1>8. CASE Invalidate(r)
  <2>1. Uncounted
    BY <1>8, <1>0, HistoryAside DEF Invalidate
  <2>2. request[r].step = "invalidate" /\ End(r)
    BY <1>8 DEF Invalidate, At
  <2> QED  BY <2>1, <2>2, EndAside, StepKinds DEF Calls, Tests
<1>9. CASE ListExpired(r)
  <2>1. Uncounted
    BY <1>9, <1>0, HistoryAside DEF ListExpired
  <2>2. request[r].step = "list" /\ (Go(r, "untrack") \/ End(r))
    BY <1>9 DEF ListExpired, At
  <2>3. CASE Go(r, "untrack")
    <3>1. /\ request'[r].step = "untrack" /\ request'[r].kind = request[r].kind
          /\ request'[r].runs = request[r].runs
      BY <2>3, GoStep
    <3> QED  BY <2>1, <2>2, <3>1, GoAside, StepKinds DEF Calls, Registering, Tests
  <2>4. CASE End(r)
    BY <2>1, <2>2, <2>4, EndAside, StepKinds DEF Calls, Tests
  <2> QED  BY <2>2, <2>3, <2>4
<1>10. CASE Snapshot(r)
  <2>1. Uncounted
    BY <1>10, <1>0, HistoryAside DEF Snapshot
  <2>2. request[r].step = "snapshot"
    BY <1>10 DEF Snapshot, At
  <2>3. /\ request'[r].step = "recompute" /\ request'[r].kind = request[r].kind
        /\ request'[r].runs = request[r].runs
    BY <1>10 DEF Snapshot, Requested, RequestType
  <2> QED  BY <2>1, <2>2, <2>3, GoAside, StepKinds DEF Calls, Registering, Tests
<1>11. CASE Recompute(r)
  <2>1. Uncounted
    BY <1>11, <1>0, HistoryAside DEF Recompute
  <2>2. request[r].step = "recompute" /\ End(r)
    BY <1>11 DEF Recompute, At
  <2> QED  BY <2>1, <2>2, EndAside, StepKinds DEF Calls, Tests
<1>12. CASE NotifyAsync(r)
  <2>1. CASE Enqueue(r)
    BY <2>1, EnqueueAside
  <2>2. CASE Trim(r)
    <3>1. Uncounted
      BY <2>2, <1>0, HistoryAside DEF Trim
    <3>2. request[r].step = "trim" /\ (Go(r, "dequeue") \/ End(r))
      BY <2>2 DEF Trim, At
    <3>3. CASE Go(r, "dequeue")
      <4>1. /\ request'[r].step = "dequeue" /\ request'[r].kind = request[r].kind
            /\ request'[r].runs = request[r].runs
        BY <3>3, GoStep
      <4> QED  BY <3>1, <3>2, <4>1, GoAside, StepKinds DEF Calls, Registering, Tests
    <3>4. CASE End(r)
      BY <3>1, <3>2, <3>4, EndAside, StepKinds DEF Calls, Tests
    <3> QED  BY <3>2, <3>3, <3>4
  <2>3. CASE Dequeue(r)
    <3>1. Uncounted
      BY <2>3, <1>0, HistoryAside DEF Dequeue
    <3>2. request[r].step = "dequeue" /\ Go(r, "trim")
      BY <2>3 DEF Dequeue, At
    <3>3. /\ request'[r].step = "trim" /\ request'[r].kind = request[r].kind
          /\ request'[r].runs = request[r].runs
      BY <3>2, GoStep
    <3> QED  BY <3>1, <3>2, <3>3, GoAside, StepKinds DEF Calls, Registering, Tests
  <2> QED  BY <1>12, <2>1, <2>2, <2>3 DEF NotifyAsync
<1>13. CASE Enumerate(r)
  <2>1. Uncounted
    BY <1>13, <1>0, HistoryAside DEF Enumerate
  <2>2. request[r].step = "enumerate"
    BY <1>13 DEF Enumerate, At
  <2>3. /\ request'[r].step = "markRead" /\ request'[r].kind = request[r].kind
        /\ request'[r].runs = request[r].runs
    BY <1>13 DEF Enumerate, Requested, RequestType
  <2> QED  BY <2>1, <2>2, <2>3, GoAside, StepKinds DEF Calls, Registering, Tests
<1>14. CASE MarkRead(r)
  <2>1. Uncounted
    BY <1>14, <1>0, HistoryAside DEF MarkRead
  <2>2. request[r].step = "markRead" /\ (End(r) \/ UNCHANGED request)
    BY <1>14 DEF MarkRead, At
  <2>3. CASE End(r)
    BY <2>1, <2>2, <2>3, EndAside, StepKinds DEF Calls, Tests
  <2>4. CASE UNCHANGED request
    BY <2>1, <2>4 DEF Aside
  <2> QED  BY <2>2, <2>3, <2>4
<1> QED
  BY <1>1, <1>2, <1>3, <1>4, <1>5, <1>6, <1>7, <1>8, <1>9, <1>10, <1>11, <1>12, <1>13, <1>14

LEMMA MoveByOne ==
    ASSUME NEW m \in Nat, NEW n \in Nat, n = m + 1 \/ n = m - 1
    PROVE  n - m <= 1
  OBVIOUS

Answers(h, m, c, t, a) == h + m + c + Concurrency * t = a

LEMMA AnswersMove ==
    ASSUME NEW h \in Int, NEW m \in Int, NEW c \in Int, NEW t \in Int, NEW a \in Int,
           NEW hh \in Int, NEW mm \in Int, NEW cc \in Int, NEW tt \in Int, NEW aa \in Int,
           Answers(h, m, c, t, a),
           \/ tt = t /\ hh + mm + cc - aa = h + m + c - a
           \/ tt = t + 1 /\ hh + mm + cc + Concurrency - aa = h + m + c - a
           \/ tt = t - 1 /\ hh + mm + cc - Concurrency - aa = h + m + c - a
    PROVE  Answers(hh, mm, cc, tt, aa)
<1>0. Concurrency \in Int
  BY ConstantsAssumption
<1>1. /\ Concurrency * (t + 1) = Concurrency * t + Concurrency
      /\ Concurrency * (t - 1) = Concurrency * t - Concurrency
      /\ Concurrency * t \in Int /\ Concurrency * tt \in Int
  BY <1>0
<1>3. CASE tt = t
  BY <1>0, <1>1, <1>3 DEF Answers
<1>4. CASE tt = t + 1 /\ hh + mm + cc + Concurrency - aa = h + m + c - a
  BY <1>0, <1>1, <1>4 DEF Answers
<1>5. CASE tt = t - 1 /\ hh + mm + cc - Concurrency - aa = h + m + c - a
  BY <1>0, <1>1, <1>5 DEF Answers
<1> QED  BY <1>3, <1>4, <1>5

LEMMA StepBalanced ==
    ASSUME TypeInv, Balanced, NEW r \in Requests, Step(r), ~ResetStatistics(r)
    PROVE  Balanced'
<1> DEFINE x == request[r]
           y == request'[r]
           c == Cardinality(CallsToCount)
           t == Cardinality(TestsToCount)
           e == Cardinality(MissesToCount)
           hits == count.hits
           misses == count.misses
           factories == count.factories
           answered == history.answered
           nulls == history.nulls
<1>a. Requested /\ Types /\ HistoryTypes
  BY DEF TypeInv, Types
<1>b. \A q \in Requests \ {r} : request'[q] = request[q]
  BY <1>a, OneMoves DEF Requested
<1>c. /\ Moves(c, c', Calls(x), Calls(y)) /\ Moves(t, t', AllCalls(x), AllCalls(y))
      /\ Moves(e, e', Missed(x), Missed(y))
  BY <1>a, <1>b, CountsMove
<1>d. /\ {hits, misses, factories, answered, nulls} \subseteq Nat
      /\ {hits', misses', factories', answered', nulls'} \subseteq Nat
      /\ {c, t, e, c', t', e'} \subseteq Nat /\ Concurrency \in Nat \ {0}
  BY <1>a, <1>c, NextTypes, ConstantsAssumption DEF Next, TypeInv, Types, HistoryTypes, Moves
<1>e. /\ x.kind \in DOMAIN StepsOf /\ x.runs \in Nat /\ x.answers \in Nat
      /\ DOMAIN count = {"hits", "misses", "factories"}
  BY <1>a, RequestFacts DEF Types
<1>f. Answers(hits, misses, c, t, answered) /\ misses + e <= factories + nulls
  BY DEF Balanced, Answers
<1> HIDE DEF c, t, e
<1>g. ASSUME \/ t' = t /\ hits' + misses' + c' - answered' = hits + misses + c - answered
             \/ /\ t' = t + 1
                /\ hits' + misses' + c' + Concurrency - answered' = hits + misses + c - answered
             \/ /\ t' = t - 1
                /\ hits' + misses' + c' - Concurrency - answered' = hits + misses + c - answered,
             misses' + e' - factories' - nulls' <= misses + e - factories - nulls
      PROVE  Balanced'
  <2>1. Answers(hits', misses', c', t', answered')
    BY <1>d, <1>f, <1>g, AnswersMove
  <2>2. misses' + e' <= factories' + nulls'
    BY <1>d, <1>f, <1>g
  <2> QED  BY <2>1, <2>2 DEF Balanced, Answers, c, t, e
<1> HIDE DEF hits, misses, factories, answered, nulls
<1>1. CASE Aside(r)
  <2>1. /\ hits' = hits /\ misses' = misses /\ factories' = factories /\ answered' = answered
        /\ nulls' = nulls
    BY <1>1 DEF Aside, Uncounted, hits, misses, factories, answered, nulls
  <2>2. c' = c /\ t' = t /\ e' = e
    BY <1>1, <1>c DEF Aside, Uncounted, Moves
  <2> QED  BY <2>1, <2>2, <1>d, <1>g
<1> USE DEF At
<1>2. CASE Fetch(r)
  <2>1. ~Calls(x) /\ ~Calls(y) /\ ~AllCalls(x) /\ ~AllCalls(y) /\ ~Missed(x) /\ ~Missed(y)
    BY <1>2, <1>a, StepKinds, GoStep DEF Fetch, Calls, AllCalls, Missed, Tests, Registering
  <2>2. /\ hits' = hits /\ misses' = misses /\ answered' = answered /\ nulls' = nulls
        /\ factories' = factories \/ factories' = factories + 1
    BY <1>2, <1>e, <1>a DEF Fetch, RunFactory, hits, misses, factories, answered, nulls, HistoryTypes
  <2>3. c' = c /\ t' = t /\ e' = e
    BY <2>1, <1>c DEF Moves
  <2> QED  BY <2>2, <2>3, <1>d, <1>g
<1>3. CASE Hit(r)
  <2>1. ~Calls(x) /\ Calls(y) /\ ~AllCalls(x) /\ ~AllCalls(y) /\ ~Missed(x) /\ ~Missed(y)
    BY <1>3, <1>a, StepKinds, GoStep DEF Hit, Calls, AllCalls, Missed, Tests, Registering
  <2>2. /\ hits' = hits /\ misses' = misses /\ answered' = answered + 1 /\ nulls' = nulls
        /\ factories' = factories
    BY <1>3, <1>a DEF Hit, Answered, hits, misses, factories, answered, nulls, HistoryTypes
  <2>3. c' = c + 1 /\ t' = t /\ e' = e
    BY <2>1, <1>c DEF Moves
  <2> QED  BY <2>2, <2>3, <1>d, <1>g
<1>4. CASE Miss(r)
  <2>1. ~Calls(x) /\ Calls(y) /\ ~AllCalls(x) /\ ~AllCalls(y) /\ ~Missed(x) /\ Missed(y)
    BY <1>4, <1>a, StepKinds, GoStep DEF Miss, Calls, AllCalls, Missed, Tests, Registering
  <2>2. /\ hits' = hits /\ misses' = misses /\ answered' = answered + 1 /\ nulls' = nulls
        /\ factories' = factories + 1
    BY <1>4, <1>a, <1>e DEF Miss, RunFactory, Answered, hits, misses, factories, answered, nulls,
                            HistoryTypes
  <2>3. c' = c + 1 /\ t' = t /\ e' = e + 1
    BY <2>1, <1>c DEF Moves
  <2> QED  BY <2>2, <2>3, <1>d, <1>g
<1>5. CASE MissWithoutFactory(r)
  <2>1. ~Calls(x) /\ Calls(y) /\ ~AllCalls(x) /\ ~AllCalls(y) /\ ~Missed(x) /\ Missed(y)
    BY <1>5, <1>a, StepKinds, GoStep DEF MissWithoutFactory, Calls, AllCalls, Missed, Tests,
                                         Registering
  <2>2. /\ hits' = hits /\ misses' = misses /\ answered' = answered + 1 /\ nulls' = nulls + 1
        /\ factories' = factories
    BY <1>5, <1>a DEF MissWithoutFactory, hits, misses, factories, answered, nulls, HistoryTypes
  <2>3. c' = c + 1 /\ t' = t /\ e' = e + 1
    BY <2>1, <1>c DEF Moves
  <2> QED  BY <2>2, <2>3, <1>d, <1>g
<1>6. CASE Race(r)
  <2> DEFINE d == IF cached = None THEN 1 ELSE 0
  <2>1. /\ x.step = "race" /\ x.kind \in Tests /\ x.answers < Concurrency
        /\ y.kind = x.kind /\ y.runs = x.runs + d /\ y.answers = x.answers + 1
        /\ y.step = IF y.answers < Concurrency THEN "race" ELSE
                    IF y.runs > 0 THEN "track" ELSE "countTest"
        /\ d \in 0..1
    BY <1>6, <1>a, StepKinds, RequestFacts DEF Race, Requested, RequestType
  <2>2. /\ hits' = hits /\ misses' = misses /\ nulls' = nulls /\ factories' = factories + d
        /\ answered' = IF y.step = "race" THEN answered ELSE answered + y.answers
    <3>1. UNCHANGED history \/ history' = [history EXCEPT !.answered = @ + y.answers]
      BY <1>6, <2>1 DEF Race, Answered
    <3>2. /\ y.step = "race" => UNCHANGED history
          /\ y.step # "race" => history' = [history EXCEPT !.answered = @ + y.answers]
      BY <1>6, <2>1, <1>a DEF Race, Answered, Requested, RequestType
    <3>3. IF cached = None THEN count' = [count EXCEPT !.factories = @ + 1] ELSE UNCHANGED count
      BY <1>6 DEF Race, RunFactory
    <3>4. factories \in Int
      BY <1>d
    <3> QED
      BY <3>2, <3>3, <3>4, <1>a, <1>e DEF hits, misses, factories, answered, nulls, HistoryTypes
  <2>3. ~Calls(x) /\ ~Calls(y) /\ ~AllCalls(x)
    BY <2>1 DEF Calls, AllCalls, Registering
  <2>4. (Missed(x) <=> x.runs > 0) /\ (Missed(y) <=> x.runs + d > 0)
    BY <2>1 DEF Missed
  <2>5. c' = c /\ misses' + e' - factories' - nulls' <= misses + e - factories - nulls
    <3>1. c' = c
      BY <2>3, <1>c DEF Moves
    <3>2. e' - e <= d
      <4>1. d \in 0..1 /\ x.runs \in Nat
        BY <2>1, <1>a, RequestFacts
      <4>2. e \in Nat /\ e' \in Nat
        BY <1>c DEF Moves
      <4>3. CASE Missed(x) <=> Missed(y)
        <5>1. e' = e
          BY <1>c, <4>3 DEF Moves
        <5> QED  BY <4>1, <4>2, <5>1
      <4>4. CASE ~(Missed(x) <=> Missed(y))
        <5>1. d = 1
          <6> HIDE DEF d
          <6> QED  BY <4>1, <4>4, <2>4
        <5>2. e' = e + 1 \/ e' = e - 1
          BY <1>c, <4>4 DEF Moves
        <5>3. e' - e <= 1
          BY <4>2, <5>2, MoveByOne
        <5> HIDE DEF d
        <5> QED  BY <5>1, <5>3
      <4> QED  BY <4>3, <4>4
    <3> HIDE DEF d
    <3> QED  BY <3>1, <3>2, <2>1, <2>2, <1>d
  <2>6. CASE y.step = "race"
    <3>1. ~AllCalls(y)
      BY <2>6 DEF AllCalls, Registering
    <3>2. t' = t
      BY <3>1, <2>3, <1>c DEF Moves
    <3> QED  BY <3>2, <2>2, <2>5, <2>6, <1>d, <1>g
  <2>7. CASE y.step # "race"
    <3>1. AllCalls(y) /\ y.answers = Concurrency
      BY <2>1, <2>7, <1>d, <1>e DEF AllCalls, Registering
    <3>2. t' = t + 1
      BY <3>1, <2>3, <1>c DEF Moves
    <3> QED  BY <3>1, <3>2, <2>2, <2>5, <2>7, <1>d, <1>g
  <2> QED  BY <2>6, <2>7
<1>7. CASE Throw(r)
  <2>1. ~Calls(x) /\ ~Calls(y) /\ ~AllCalls(x) /\ ~AllCalls(y) /\ ~Missed(y)
    BY <1>7, <1>a, EndStep DEF Throw, Calls, AllCalls, Missed, Tests, Registering
  <2>2. /\ hits' = hits /\ misses' = misses /\ answered' = answered /\ nulls' = nulls
        /\ factories' >= factories /\ factories' \in Int
    <3>1. PICK ran \in 0..Concurrency : count' = [count EXCEPT !.factories = @ + ran]
      BY <1>7 DEF Throw
    <3>2. ran \in Nat /\ factories \in Int
      BY <1>d, <3>1, ConstantsAssumption
    <3> QED  BY <1>7, <3>1, <3>2, <1>e, <1>a
               DEF Throw, hits, misses, factories, answered, nulls, HistoryTypes
  <2>3. c' = c /\ t' = t /\ (e' = e \/ e' = e - 1)
    BY <2>1, <1>c DEF Moves
  <2> QED  BY <2>2, <2>3, <1>d, <1>g
<1>8. CASE CountHit(r)
  <2>1. Calls(x) /\ ~Calls(y) /\ ~AllCalls(x) /\ ~AllCalls(y) /\ ~Missed(x) /\ ~Missed(y)
    BY <1>8, <1>a, StepKinds, EndStep DEF CountHit, Calls, AllCalls, Missed, Tests, Registering
  <2>2. /\ hits' = hits + 1 /\ misses' = misses /\ answered' = answered /\ nulls' = nulls
        /\ factories' = factories
    BY <1>8, <1>e, <1>a DEF CountHit, hits, misses, factories, answered, nulls
  <2>3. c' = c - 1 /\ t' = t /\ e' = e
    BY <2>1, <1>c DEF Moves
  <2> QED  BY <2>2, <2>3, <1>d, <1>g
<1>9. CASE CountMiss(r)
  <2>1. Calls(x) /\ ~Calls(y) /\ ~AllCalls(x) /\ ~AllCalls(y) /\ Missed(x) /\ ~Missed(y)
    BY <1>9, <1>a, StepKinds, GoStep, EndStep
       DEF CountMiss, Calls, AllCalls, Missed, Tests, Registering
  <2>2. /\ hits' = hits /\ misses' = misses + 1 /\ answered' = answered /\ nulls' = nulls
        /\ factories' = factories
    BY <1>9, <1>e, <1>a DEF CountMiss, hits, misses, factories, answered, nulls
  <2>3. c' = c - 1 /\ t' = t /\ e' = e - 1
    BY <2>1, <1>c DEF Moves
  <2> QED  BY <2>2, <2>3, <1>d, <1>g
<1>10. CASE CountTest(r)
  <2> DEFINE missed == IF x.runs > 0 THEN 1 ELSE 0
  <2>1. ~Calls(x) /\ ~Calls(y) /\ AllCalls(x) /\ ~AllCalls(y) /\ ~Missed(y)
    BY <1>10, <1>a, StepKinds, EndStep DEF CountTest, Calls, AllCalls, Missed, Tests, Registering
  <2>2. Missed(x) <=> x.runs > 0
    BY <1>10, <1>a, StepKinds DEF CountTest, Missed
  <2>3. /\ hits' = hits + Concurrency - missed /\ misses' = misses + missed
        /\ answered' = answered /\ nulls' = nulls /\ factories' = factories
    BY <1>10, <1>e, <1>a DEF CountTest, hits, misses, factories, answered, nulls
  <2>4. missed \in 0..1 /\ e' = e - missed /\ c' = c /\ t' = t - 1
    BY <2>1, <2>2, <1>c, <1>d DEF Moves
  <2> HIDE DEF missed
  <2> QED  BY <2>3, <2>4, <1>d, <1>g
<1> QED
  BY <1>1, <1>2, <1>3, <1>4, <1>5, <1>6, <1>7, <1>8, <1>9, <1>10, <1>a, CountersAside DEF Step

(* A step goes on as the same kind of request, or ends it. *)
LEMMA KindStays ==
    ASSUME Requested, NEW r \in Requests, Step(r)
    PROVE  \/ request'[r].kind = request[r].kind /\ ~At(r, "idle")
           \/ request'[r].kind = "none"
<1> USE GoStep, EndStep DEF At
<1>1. CASE ResetStatistics(r)
  BY <1>1 DEF ResetStatistics
<1>2. CASE SetCache(r)
  BY <1>2 DEF SetCache
<1>3. CASE Fetch(r)
  BY <1>3 DEF Fetch
<1>4. CASE Hit(r)
  BY <1>4 DEF Hit
<1>5. CASE Miss(r)
  BY <1>5 DEF Miss
<1>6. CASE MissWithoutFactory(r)
  BY <1>6 DEF MissWithoutFactory
<1>7. CASE Race(r)
  BY <1>7 DEF Race, Requested, RequestType
<1>8. CASE Throw(r)
  BY <1>8 DEF Throw
<1>9. CASE CountHit(r)
  BY <1>9 DEF CountHit
<1>10. CASE CountMiss(r)
  BY <1>10 DEF CountMiss
<1>11. CASE CountTest(r)
  BY <1>11 DEF CountTest
<1>12. CASE Track(r)
  BY <1>12 DEF Track
<1>13. CASE RegisterRead(r)
  BY <1>13 DEF RegisterRead, Requested, RequestType
<1>14. CASE RegisterWrite(r)
  BY <1>14 DEF RegisterWrite
<1>15. CASE RemoveCache(r)
  BY <1>15 DEF RemoveCache
<1>16. CASE Untrack(r)
  BY <1>16 DEF Untrack
<1>17. CASE Deactivate(r)
  BY <1>17 DEF Deactivate
<1>18. CASE Invalidate(r)
  BY <1>18 DEF Invalidate
<1>19. CASE ListExpired(r)
  BY <1>19 DEF ListExpired
<1>20. CASE Snapshot(r)
  BY <1>20 DEF Snapshot, Requested, RequestType
<1>21. CASE Recompute(r)
  BY <1>21 DEF Recompute
<1>22. CASE NotifyAsync(r)
  BY <1>22 DEF NotifyAsync, Enqueue, Trim, Dequeue
<1>23. CASE Enumerate(r)
  BY <1>23 DEF Enumerate, Requested, RequestType
<1>24. CASE MarkRead(r)
  BY <1>24 DEF MarkRead
<1> QED
  BY <1>1, <1>2, <1>3, <1>4, <1>5, <1>6, <1>7, <1>8, <1>9, <1>10, <1>11, <1>12, <1>13, <1>14, <1>15, <1>16, <1>17, <1>18, <1>19, <1>20, <1>21, <1>22, <1>23, <1>24 DEF Step

(* A step that resets nothing neither starts counting nor does it change   *)
(* the counters while nobody is counting.                                  *)
LEMMA NoReset ==
    ASSUME TypeInv, NEW r \in Requests, Step(r), ~ResetStatistics(r)
    PROVE  /\ ~At(r, "resetHits") /\ ~At(r, "resetMisses") /\ ~At(r, "resetFactories")
           /\ history'.exact = history.exact
           /\ request[r].kind \notin Counting =>
               /\ count'.hits = count.hits /\ count'.misses = count.misses
               /\ history'.answered = history.answered /\ history'.nulls = history.nulls
<1>a. Requested /\ Types /\ HistoryTypes
  BY DEF TypeInv, Types
<1>0. CASE /\ Aside(r) /\ ~At(r, "resetHits") /\ ~At(r, "resetMisses")
           /\ ~At(r, "resetFactories")
  BY <1>0 DEF Aside, Uncounted
<1> USE StepKinds DEF At, HistoryTypes, Counting, Tests
<1>1. CASE SetCache(r)
  BY <1>1, <1>0, <1>a, CountersAside DEF SetCache
<1>2. CASE Fetch(r)
  BY <1>2, <1>a DEF Fetch
<1>3. CASE Hit(r)
  BY <1>3, <1>a DEF Hit, Answered
<1>4. CASE Miss(r)
  BY <1>4, <1>a DEF Miss, Answered
<1>5. CASE MissWithoutFactory(r)
  BY <1>5, <1>a DEF MissWithoutFactory
<1>6. CASE Race(r)
  BY <1>6, <1>a DEF Race, Answered
<1>7. CASE Throw(r)
  BY <1>7, <1>a DEF Throw, Types
<1>8. CASE CountHit(r)
  BY <1>8, <1>a DEF CountHit
<1>9. CASE CountMiss(r)
  BY <1>9, <1>a DEF CountMiss
<1>10. CASE CountTest(r)
  BY <1>10, <1>a DEF CountTest
<1>11. CASE Track(r)
  BY <1>11, <1>0, <1>a, CountersAside DEF Track
<1>12. CASE RegisterRead(r)
  BY <1>12, <1>0, <1>a, CountersAside DEF RegisterRead
<1>13. CASE RegisterWrite(r)
  BY <1>13, <1>0, <1>a, CountersAside DEF RegisterWrite
<1>14. CASE RemoveCache(r)
  BY <1>14, <1>0, <1>a, CountersAside DEF RemoveCache
<1>15. CASE Untrack(r)
  BY <1>15, <1>0, <1>a, CountersAside DEF Untrack
<1>16. CASE Deactivate(r)
  BY <1>16, <1>0, <1>a, CountersAside DEF Deactivate
<1>17. CASE Invalidate(r)
  BY <1>17, <1>0, <1>a, CountersAside DEF Invalidate
<1>18. CASE ListExpired(r)
  BY <1>18, <1>0, <1>a, CountersAside DEF ListExpired
<1>19. CASE Snapshot(r)
  BY <1>19, <1>0, <1>a, CountersAside DEF Snapshot
<1>20. CASE Recompute(r)
  BY <1>20, <1>0, <1>a, CountersAside DEF Recompute
<1>21. CASE NotifyAsync(r)
  BY <1>21, <1>0, <1>a, CountersAside DEF NotifyAsync, Enqueue, Trim, Dequeue
<1>22. CASE Enumerate(r)
  BY <1>22, <1>0, <1>a, CountersAside DEF Enumerate
<1>23. CASE MarkRead(r)
  BY <1>23, <1>0, <1>a, CountersAside DEF MarkRead
<1> QED
  BY <1>1, <1>2, <1>3, <1>4, <1>5, <1>6, <1>7, <1>8, <1>9, <1>10, <1>11, <1>12, <1>13, <1>14, <1>15, <1>16, <1>17, <1>18, <1>19, <1>20, <1>21, <1>22, <1>23 DEF Step

(* Who has something left to count is counting. *)
LEMMA WhoCounts ==
    ASSUME NEW x, NEW h, Formed(x, h), Calls(x) \/ AllCalls(x) \/ Missed(x)
    PROVE  x.kind \in Counting /\ x.step # "idle"
  BY KindCases DEF Formed, Calls, AllCalls, Missed, Counting, Tests, Registering, Removing

LEMMA NobodyCounts ==
    ASSUME Requested, UnderWay(Counting) = {}
    PROVE  CallsToCount = {} /\ TestsToCount = {} /\ MissesToCount = {}
<1>1. \A q \in Requests : ~(Calls(request[q]) \/ AllCalls(request[q]) \/ Missed(request[q]))
  BY WhoCounts DEF Requested, UnderWay
<1> QED  BY <1>1 DEF CallsToCount, TestsToCount, MissesToCount, Calls, AllCalls, Missed

LEMMA StepCount ==
    ASSUME TypeInv, CountInv, NEW r \in Requests, Step(r)
    PROVE  CountInv'
<1>a. Requested /\ Types /\ HistoryTypes
  BY DEF TypeInv, Types
<1>b. \A q \in Requests \ {r} : request'[q] = request[q]
  BY <1>a, OneMoves DEF Requested
<1>c. UnderWay(Counting)' \subseteq UnderWay(Counting) /\ UnderWay({"reset"})' \subseteq UnderWay({"reset"})
  <2>1. request'[r].kind \in Counting \cup {"reset"} => request'[r].kind = request[r].kind /\ ~At(r, "idle")
    BY <1>a, KindStays DEF Counting
  <2> QED  BY <2>1, <1>b DEF UnderWay, At
<1>d. \A q \in Requests :
          /\ request[q].step \in {"resetHits", "resetMisses", "resetFactories"} => q \in UnderWay({"reset"})
          /\ Calls(request[q]) \/ AllCalls(request[q]) => q \in UnderWay(Counting)
  BY <1>a, StepKinds DEF UnderWay, Calls, AllCalls, Counting, Tests, Registering
<1>1. CASE ~ResetStatistics(r)
  <2>1. Resetting' = Resetting /\ \A q \in Requests : At(q, "resetMisses")' <=> At(q, "resetMisses")
    <3>1. ~At(r, "resetMisses")' /\ ~At(r, "resetFactories")'
      <4>1. request[r].kind # "reset"
        BY <1>1, <1>a, NoReset, StepKinds DEF At
      <4>2. request'[r].kind # "reset"
        BY <4>1, <1>a, KindStays
      <4>3. request'[r].kind \in DOMAIN StepsOf /\ request'[r].step \in StepsOf[request'[r].kind]
        BY NextTypes DEF Next, TypeInv, Requested, Formed
      <4> QED  BY <4>2, <4>3, KindCases DEF At, Registering, Removing
    <3> QED  BY <1>1, <1>b, <3>1, NoReset DEF Resetting, At
  <2>2. history'.exact = history.exact
    BY <1>1, NoReset
  <2>3. CASE history.exact /\ Resetting = {}
    BY <2>1, <2>2, <2>3, <1>1, <1>c, StepBalanced DEF CountInv
  <2>4. CASE history.exact /\ Resetting # {}
    <3>1. UnderWay(Counting) = {}
      BY <2>4, <1>d DEF Resetting, CountInv
    <3>2. request[r].kind \notin Counting \/ At(r, "idle")
      BY <3>1 DEF UnderWay, At
    <3>3. request[r].kind \notin Counting
      BY <3>2, <1>a, RequestFacts DEF Counting, Tests
    <3>4. /\ count'.hits = count.hits /\ count'.misses = count.misses
          /\ history'.answered = history.answered /\ history'.nulls = history.nulls
      BY <3>3, <1>1, NoReset
    <3> QED  BY <2>1, <2>4, <3>1, <3>4, <1>c DEF CountInv
  <2> QED  BY <2>2, <2>3, <2>4 DEF CountInv
<1>2. CASE ResetStatistics(r)
  <2>1. UnderWay(Counting)' = UnderWay(Counting)
    <3>1. request'[r].kind \notin Counting /\ request[r].kind \notin Counting
      BY <1>2, <1>a, StepKinds, GoStep, EndStep DEF ResetStatistics, Counting, At
    <3> QED  BY <3>1, <1>b DEF UnderWay
  <2>2. r \in UnderWay({"reset"})
    BY <1>2, <1>d DEF ResetStatistics, At
  <2>3. CASE At(r, "resetHits")
    <3>1. /\ count' = [count EXCEPT !.hits = 0] /\ Go(r, "resetMisses")
          /\ history' = [history EXCEPT !.answered = 0, !.nulls = 0,
                                        !.exact = @ \/ UnderWay(Counting) = {}]
      BY <1>2, <2>3 DEF ResetStatistics, At
    <3>2. At(r, "resetMisses")' /\ r \in Resetting'
      BY <3>1, <1>a, GoStep DEF At, Resetting
    <3>3. /\ count'.hits = 0 /\ history'.answered = 0 /\ history'.nulls = 0
          /\ history'.exact = (history.exact \/ UnderWay(Counting) = {})
      BY <3>1, <1>a DEF Types, HistoryTypes
    <3>4. history'.exact => UnderWay(Counting) = {}
      BY <3>3, <2>2 DEF CountInv
    <3> QED  BY <2>1, <3>2, <3>3, <3>4 DEF CountInv
  <2>4. CASE At(r, "resetMisses")
    <3>1. count' = [count EXCEPT !.misses = 0] /\ Go(r, "resetFactories") /\ UNCHANGED history
      BY <1>2, <2>4 DEF ResetStatistics, At
    <3>2. r \in Resetting' /\ r \in Resetting
      BY <3>1, <2>4, <1>a, GoStep DEF At, Resetting
    <3>3. count'.hits = count.hits /\ count'.misses = 0
      BY <3>1, <1>a DEF Types
    <3>4. history.exact => UnderWay(Counting) = {}
      BY <2>2 DEF CountInv
    <3> QED  BY <2>1, <3>1, <3>2, <3>3, <3>4 DEF CountInv
  <2>5. CASE At(r, "resetFactories")
    <3>1. count' = [count EXCEPT !.factories = 0] /\ End(r) /\ UNCHANGED history
      BY <1>2, <2>5 DEF ResetStatistics, At
    <3>2. request'[r].step = "idle" /\ r \in Resetting /\ r \notin Resetting'
      BY <3>1, <2>5, <1>a, EndStep DEF At, Resetting
    <3>3. count'.hits = count.hits /\ count'.misses = count.misses /\ count'.factories = 0
      BY <3>1, <1>a DEF Types
    <3>4. history.exact => UnderWay(Counting) = {}
      BY <2>2 DEF CountInv
    <3>5. \A q \in Requests : At(q, "resetMisses")' <=> At(q, "resetMisses")
      BY <3>2, <2>5, <1>b DEF At
    <3>6. CASE history.exact /\ Resetting' = {}
      <4>1. /\ count.hits = 0 /\ history.answered = 0 /\ history.nulls = 0
            /\ count.misses = 0 \/ \E q \in Requests : At(q, "resetMisses")
        BY <3>2, <3>6 DEF CountInv
      <4>2. count.misses = 0
        BY <4>1, <3>5, <3>6 DEF Resetting, At
      <4>3. CallsToCount' = {} /\ TestsToCount' = {} /\ MissesToCount' = {}
        <5>1. Requested'
          BY NextTypes DEF Next, TypeInv
        <5>2. UnderWay(Counting)' = {}
          BY <2>1, <3>4, <3>6
        <5>3. \A q \in Requests :
                  ~(Calls(request'[q]) \/ AllCalls(request'[q]) \/ Missed(request'[q]))
          BY <5>1, <5>2, WhoCounts DEF Requested, UnderWay
        <5> QED  BY <5>3 DEF CallsToCount, TestsToCount, MissesToCount, Calls, AllCalls, Missed
      <4>4. Cardinality({}) = 0 /\ Concurrency * 0 = 0
        BY FS_EmptySet, ConstantsAssumption
      <4>5. Balanced'
        BY <4>1, <4>2, <4>3, <4>4, <3>1, <3>3 DEF Balanced
      <4> QED  BY <4>5, <3>4, <3>6, <2>1 DEF CountInv
    <3>7. CASE history.exact /\ Resetting' # {}
      BY <3>1, <3>2, <3>3, <3>4, <3>5, <3>7, <2>1 DEF CountInv
    <3> QED  BY <3>1, <3>6, <3>7 DEF CountInv
  <2> QED  BY <1>2, <2>3, <2>4, <2>5 DEF ResetStatistics
<1> QED  BY <1>1, <1>2

LEMMA NextCount == TypeInv /\ CountInv /\ [Next]_vars => CountInv'
<1> SUFFICES ASSUME TypeInv, CountInv, [Next]_vars PROVE CountInv'
  OBVIOUS
<1>a. Requested /\ HistoryTypes /\ Types
  BY DEF TypeInv, Types
<1>0. ASSUME UNCHANGED <<request, count>>, history'.answered = history.answered,
             history'.nulls = history.nulls, history'.exact = history.exact
      PROVE  CountInv'
  <2>1. /\ UnderWay(Counting)' = UnderWay(Counting) /\ UnderWay({"reset"})' = UnderWay({"reset"})
        /\ Resetting' = Resetting /\ CallsToCount' = CallsToCount
        /\ TestsToCount' = TestsToCount /\ MissesToCount' = MissesToCount
    BY <1>0 DEF UnderWay, Resetting, CallsToCount, TestsToCount, MissesToCount
  <2>2. Balanced' <=> Balanced
    BY <1>0, <2>1 DEF Balanced
  <2> QED  BY <1>0, <2>1, <2>2 DEF CountInv, At
<1>1. CASE UNCHANGED vars
  BY <1>0, <1>1 DEF vars
<1>2. ASSUME NEW r \in Requests, Step(r) PROVE CountInv'
  BY <1>2, StepCount
<1>3. ASSUME NEW r \in Requests, NEW k \in DOMAIN FirstStep, Arrive(r, k) PROVE CountInv'
  <2> DEFINE y == request'[r]
  <2>1. /\ \A q \in Requests \ {r} : request'[q] = request[q]
        /\ At(r, "idle") /\ y.kind = k /\ y.step = FirstStep[k] /\ y.runs = 0
        /\ UNCHANGED count
    BY <1>3, <1>a DEF Arrive, Requested, NoRequest
  <2>2. /\ history'.answered = history.answered /\ history'.nulls = history.nulls
        /\ history'.exact = (/\ history.exact
                             /\ k = "reset" => UnderWay(Counting) = {}
                             /\ k \in Counting => UnderWay({"reset"}) = {})
    BY <1>3, <1>a DEF Arrive, HistoryTypes
  <2>3. /\ ~Calls(request[r]) /\ ~AllCalls(request[r]) /\ ~Missed(request[r])
        /\ ~Calls(y) /\ ~AllCalls(y) /\ ~Missed(y)
    <3>1. request[r].kind = "none"
      BY <2>1, <1>a, RequestFacts
    <3>2. y.step \notin {"countHit", "countMiss", "countNull", "countTest"} \cup Registering
      BY <2>1, FirstSteps DEF Registering
    <3> QED  BY <2>1, <3>1, <3>2 DEF At, Calls, AllCalls, Missed, Registering, Tests
  <2>4. CallsToCount' = CallsToCount /\ TestsToCount' = TestsToCount /\ MissesToCount' = MissesToCount
    BY <2>1, <2>3 DEF CallsToCount, TestsToCount, MissesToCount, Calls, AllCalls, Missed
  <2>5. Balanced' <=> Balanced
    BY <2>1, <2>2, <2>4 DEF Balanced
  <2>6. /\ Resetting' = Resetting
        /\ \A q \in Requests : At(q, "resetMisses")' <=> At(q, "resetMisses")
    BY <2>1, FirstSteps DEF Resetting, At
  <2>7. CASE history'.exact
    <3>1. /\ history.exact /\ (k = "reset" => UnderWay(Counting) = {})
          /\ (k \in Counting => UnderWay({"reset"}) = {})
      BY <2>2, <2>7
    <3>2. UnderWay(Counting)' = {} \/ UnderWay({"reset"})' = {}
      <4>1. /\ k \notin Counting => UnderWay(Counting)' = UnderWay(Counting)
            /\ k # "reset" => UnderWay({"reset"})' = UnderWay({"reset"})
        BY <2>1 DEF UnderWay, At
      <4>2. "reset" \notin Counting
        BY DEF Counting
      <4> QED  BY <3>1, <4>1, <4>2 DEF CountInv
    <3> QED  BY <2>1, <2>2, <2>5, <2>6, <3>1, <3>2 DEF CountInv
  <2> QED  BY <2>7 DEF CountInv
<1>4. CASE ExpireCached \/ OtherEntry \/ ExpireListed
  <2>1. /\ UNCHANGED <<request, count>> /\ history'.answered = history.answered
        /\ history'.nulls = history.nulls /\ history'.exact = history.exact
    BY <1>4, <1>a DEF ExpireCached, OtherEntry, ExpireListed, HistoryTypes
  <2> QED  BY <1>0, <2>1
<1> QED  BY <1>1, <1>2, <1>3, <1>4 DEF Next

LEMMA InitCount == Init => CountInv
<1> SUFFICES ASSUME Init PROVE CountInv
  OBVIOUS
<1>1. /\ UnderWay(Counting) = {} /\ Resetting = {} /\ CallsToCount = {} /\ TestsToCount = {}
      /\ MissesToCount = {}
  BY DEF Init, NoRequest, UnderWay, Resetting, CallsToCount, TestsToCount, MissesToCount, Tests
<1>2. /\ count.hits = 0 /\ count.misses = 0 /\ count.factories = 0 /\ history.answered = 0
      /\ history.nulls = 0
  BY DEF Init
<1>3. Cardinality({}) = 0 /\ Concurrency * 0 = 0
  BY FS_EmptySet, ConstantsAssumption
<1> QED  BY <1>1, <1>2, <1>3 DEF CountInv, Balanced

(* Once all is quiet, the hits and misses are the answers given, and the   *)
(* misses are no more than the factory's runs and the answers without one: *)
(* whatever requests, tests, failures and resets were at it, as long as no *)
(* reset has overlapped a call since the last that was alone.              *)
THEOREM CountersAreRight == Spec => []CountersAddUp
<1>1. TypeInv /\ CountInv => CountersAddUp
  <2> SUFFICES ASSUME TypeInv, CountInv, Quiet, history.exact
               PROVE  /\ count.hits + count.misses = history.answered
                      /\ count.misses <= count.factories + history.nulls
    BY DEF CountersAddUp
  <2>1. Requested /\ Types
    BY DEF TypeInv
  <2>2. \A q \in Requests : request[q].step = "idle"
    <3>1. ASSUME NEW q \in Requests, request[q].step # "idle" PROVE request[q].kind \in DOMAIN FirstStep
      BY <3>1, <2>1, RequestFacts, KindCases DEF FirstStep, At
    <3> QED  BY <3>1 DEF Quiet, UnderWay
  <2>3. Resetting = {} /\ UnderWay(Counting) = {}
    BY <2>2 DEF Resetting, UnderWay
  <2>4. CallsToCount = {} /\ TestsToCount = {} /\ MissesToCount = {}
    BY <2>1, <2>3, NobodyCounts
  <2>5. Cardinality({}) = 0 /\ Concurrency * 0 = 0
    BY FS_EmptySet, ConstantsAssumption
  <2> QED  BY <2>1, <2>3, <2>4, <2>5 DEF CountInv, Balanced, Types, HistoryTypes
<1> QED  BY <1>1, InitTypes, NextTypes, InitCount, NextCount, PTL DEF Spec

-----------------------------------------------------------------------------
(* The listing: proofs. *)

(* As far as the listing knows, the cache loses its entry or nothing, or,  *)
(* once it has, a listed entry expires.                                    *)
Forgets ==
    /\ UNCHANGED registry
    /\ history'.known => history.known /\ (cached' = cached \/ cached' = None)
    /\ \/ metadata' = metadata
       \/ /\ metadata # None /\ metadata' # None /\ metadata'.value = metadata.value
          /\ history'.known => cached' = None

LEMMA ForgettingAgrees ==
    ASSUME Forgets, Agree
    PROVE  Agree'
  BY DEF Forgets, Agree, Matched

LEMMA ForgettingIsProgress ==
    ASSUME Forgets, NEW r \in Requests, Progress(r), request'[r] = request[r]
    PROVE  Progress(r)'
<1>1. Agree => Agree'
  BY ForgettingAgrees
<1>2. (Stored(r) => Stored(r)') /\ (Listed(r) => Listed(r)')
  BY DEF Forgets, Stored, Listed
<1>3. /\ metadata' # None <=> metadata # None
      /\ (history.known => cached = None) => (history'.known => cached' = None)
      /\ Matched' <=> Matched
  BY DEF Forgets, Matched
<1> QED  BY <1>1, <1>2, <1>3 DEF Progress

(* Nothing the updates do is disturbed. *)
LEMMA ForgettingListing ==
    ASSUME ListingInv, Forgets, history'.alone => history.alone,
           UnderWay(Updates)' = UnderWay(Updates),
           \A q \in UnderWay(Updates) : request'[q] = request[q]
    PROVE  ListingInv'
<1>1. UnderWay(Updates) \subseteq Requests
  BY DEF UnderWay
<1> QED  BY <1>1, ForgettingAgrees, ForgettingIsProgress DEF ListingInv

(* The step of an update, which is the only one. *)
LEMMA UpdateListing ==
    ASSUME TypeInv, NEW r \in Requests, Step(r), request[r].kind \in Updates,
           history'.alone, history.alone => Progress(r)
    PROVE  IF At(r, "idle")' THEN Agree' ELSE Progress(r)'
<1> DEFINE x == request[r]
           y == request'[r]
<1> USE DEF At
<1>a. Requested /\ Types /\ HistoryTypes /\ Kept
  BY DEF TypeInv, Types
<1>b. x.item \in Nat /\ x.runs \in Nat /\ x.answers \in Nat
  BY <1>a, RequestFacts DEF RequestType
<1>c. metadata # None => metadata \in [value : 1..history.made, expired : BOOLEAN]
  BY <1>a DEF Kept
<1>1. CASE SetCache(r)
  <2>1. y.step = "track" /\ y.item = x.item /\ cached' = x.item
    BY <1>1, <1>a, GoStep DEF SetCache
  <2> QED  BY <2>1 DEF Progress, Stored
<1>2. CASE RemoveCache(r)
  <2>1. y.step = "untrack" /\ cached' = None
    BY <1>2, <1>a, GoStep DEF RemoveCache
  <2> QED  BY <2>1 DEF Progress
<1>3. CASE Fetch(r)
  <2>1. y.step = "track" /\ y.item = x.item
    BY <1>3, <1>a, GoStep DEF Fetch
  <2>2. history'.known => cached = None
    BY <1>3, <1>a DEF Fetch, HistoryTypes
  <2>3. cached = None => cached' = x.item
    BY <1>3 DEF Fetch, RunFactory
  <2> QED  BY <2>1, <2>2, <2>3 DEF Progress, Stored
<1>4. CASE Hit(r)
  <2>1. /\ history.alone /\ y.step = "countHit" /\ history'.known = history.known
        /\ UNCHANGED <<cached, metadata, registry>>
    BY <1>4, <1>a, GoStep DEF Hit, Answered, HistoryTypes
  <2>2. Agree
    BY <1>4, <2>1 DEF Hit, Progress
  <2> QED  BY <2>1, <2>2 DEF Progress, Agree, Matched
<1>5. CASE Miss(r)
  <2>1. y.step = "countMiss" /\ y.item = x.item /\ cached' = x.item
    BY <1>5, <1>a, GoStep DEF Miss, RunFactory
  <2> QED  BY <2>1 DEF Progress, Stored
<1>6. CASE MissWithoutFactory(r)
  <2>1. /\ history.alone /\ y.step = "countNull" /\ history'.known = history.known
        /\ UNCHANGED <<cached, metadata, registry>>
    BY <1>6, <1>a, GoStep DEF MissWithoutFactory, HistoryTypes
  <2>2. Agree
    BY <1>6, <2>1 DEF MissWithoutFactory, Progress
  <2> QED  BY <2>1, <2>2 DEF Progress, Agree, Matched
<1>7. CASE Race(r)
  <2> DEFINE d == IF cached = None THEN 1 ELSE 0
  <2>1. /\ x.step = "race" /\ y.item = x.item /\ y.runs = x.runs + d
        /\ y.step = IF y.answers < Concurrency THEN "race" ELSE
                    IF y.runs > 0 THEN "track" ELSE "countTest"
    BY <1>7, <1>a DEF Race, Requested, RequestType
  <2>2. history.alone /\ history'.known = history.known /\ UNCHANGED <<metadata, registry>>
    <3>1. UNCHANGED history \/ \E n : history' = [history EXCEPT !.answered = @ + n]
      BY <1>7 DEF Race, Answered
    <3> QED  BY <3>1, <1>7, <1>a DEF Race, HistoryTypes
  <2>3. IF cached = None THEN cached' = x.item ELSE cached' = cached
    BY <1>7 DEF Race, RunFactory
  <2>a. Matched /\ Matched'
    BY <2>1, <2>2 DEF Progress, Matched
  <2>4. CASE cached = None
    <3>1. y.runs > 0 /\ y.runs # 0
      BY <2>1, <2>4, <1>b
    <3> QED  BY <2>1, <2>3, <2>4, <2>a, <3>1 DEF Progress, Stored
  <2>5. CASE cached # None /\ x.runs = 0
    <3>1. Agree /\ y.runs = 0
      BY <2>1, <2>2, <2>5 DEF Progress
    <3>2. Agree'
      BY <2>2, <2>3, <2>5, <2>a, <3>1 DEF Agree
    <3> QED  BY <2>1, <2>a, <3>1, <3>2 DEF Progress
  <2>6. CASE cached # None /\ x.runs # 0
    <3>1. y.runs > 0 /\ y.runs # 0
      BY <2>1, <2>6, <1>b
    <3>2. Stored(r) /\ Stored(r)'
      BY <2>1, <2>2, <2>3, <2>6 DEF Progress, Stored
    <3> QED  BY <2>1, <2>a, <3>1, <3>2 DEF Progress
  <2> QED  BY <2>4, <2>5, <2>6
<1>8. CASE Throw(r)
  <2>1. /\ history.alone /\ y.step = "idle" /\ UNCHANGED <<metadata, registry>>
        /\ history'.known => history.known /\ cached' = cached /\ x.runs = 0
    BY <1>8, <1>a, EndStep DEF Throw, HistoryTypes
  <2>2. Matched /\ (x.runs = 0 => Agree)
    BY <1>8, <1>a, <2>1, StepKinds DEF Throw, Progress, Updates, Agree
  <2> QED  BY <2>1, <2>2 DEF Agree, Matched
<1>9. CASE CountHit(r)
  <2>1. history.alone /\ y.step = "idle" /\ UNCHANGED <<cached, metadata, registry, history>>
    BY <1>9, <1>a, EndStep DEF CountHit
  <2>2. Agree
    BY <1>9, <2>1 DEF CountHit, Progress
  <2> QED  BY <2>1, <2>2 DEF Agree, Matched
<1>10. CASE CountMiss(r)
  <2>1. history.alone /\ UNCHANGED <<cached, metadata, registry, history>>
    BY <1>10 DEF CountMiss
  <2>2. CASE At(r, "countMiss") /\ Go(r, "track")
    <3>1. y.step = "track" /\ y.item = x.item
      BY <2>2, <1>a, GoStep
    <3> QED  BY <2>1, <2>2, <3>1 DEF Progress, Stored
  <2>3. CASE At(r, "countNull") /\ End(r)
    <3>1. y.step = "idle" /\ Agree
      BY <2>1, <2>3, <1>a, EndStep DEF Progress
    <3> QED  BY <2>1, <3>1 DEF Agree, Matched
  <2> QED  BY <1>10, <2>2, <2>3 DEF CountMiss
<1>11. CASE CountTest(r)
  <2>1. history.alone /\ y.step = "idle" /\ UNCHANGED <<cached, metadata, registry, history>>
    BY <1>11, <1>a, EndStep DEF CountTest
  <2>2. Agree
    BY <1>11, <2>1 DEF CountTest, Progress
  <2> QED  BY <2>1, <2>2 DEF Agree, Matched
<1>12. CASE Track(r)
  <2>1. /\ history.alone /\ y.step = "register" /\ y.item = x.item /\ UNCHANGED <<cached, history>>
        /\ metadata' = [value |-> x.item, expired |-> FALSE]
    BY <1>12, <1>a, GoStep DEF Track
  <2>2. metadata' # None /\ metadata'.value = x.item /\ ~metadata'.expired
    <3>1. metadata' \in [value : Nat, expired : BOOLEAN]
      BY <2>1, <1>b
    <3> QED  BY <2>1, <3>1, ConstantsAssumption
  <2>3. Stored(r)
    BY <1>12, <2>1 DEF Track, Progress
  <2> QED  BY <2>1, <2>2, <2>3 DEF Progress, Stored, Listed
<1>13. CASE RegisterRead(r)
  <2>1. history.alone /\ y.step = "addOrUpdate" /\ y.item = x.item /\ UNCHANGED <<cached, metadata>>
        /\ history'.known = history.known
    BY <1>13, <1>a DEF RegisterRead, Requested, RequestType, HistoryTypes
  <2>2. Stored(r) /\ Listed(r)
    BY <1>13, <2>1 DEF RegisterRead, Progress
  <2> QED  BY <2>1, <2>2 DEF Progress, Stored, Listed
<1>14. CASE RegisterWrite(r)
  <2>1. history.alone /\ history'.known = history.known /\ UNCHANGED <<cached, metadata>>
    BY <1>14, <1>a DEF RegisterWrite, HistoryTypes
  <2>2. Stored(r) /\ Listed(r)
    BY <1>14, <2>1 DEF RegisterWrite, Progress
  <2>3. CASE Go(r, "register")
    <3>1. y.step = "register" /\ y.item = x.item
      BY <2>3, <1>a, GoStep
    <3> QED  BY <2>1, <2>2, <3>1 DEF Progress, Stored, Listed
  <2>4. CASE ~Go(r, "register")
    <3>1. registry'.active /\ (Go(r, "countTest") \/ End(r))
      BY <1>14, <2>4 DEF RegisterWrite
    <3>2. y.step = "countTest" \/ y.step = "idle"
      BY <3>1, <1>a, GoStep, EndStep
    <3>3. Agree'
      BY <2>1, <2>2, <3>1 DEF Agree, Matched, Stored, Listed
    <3> QED  BY <3>2, <3>3 DEF Progress
  <2> QED  BY <2>3, <2>4
<1>15. CASE Untrack(r)
  <2>1. history.alone /\ y.step = "deactivate" /\ UNCHANGED <<cached, history>> /\ metadata' = None
    BY <1>15, <1>a, GoStep DEF Untrack
  <2>2. history.known => cached = None
    BY <1>15, <2>1 DEF Untrack, Progress
  <2> QED  BY <2>1, <2>2 DEF Progress
<1>16. CASE Deactivate(r)
  <2>1. history.alone /\ UNCHANGED <<cached, metadata, history>> /\ ~registry'.active
    BY <1>16, <1>a DEF Deactivate, Kept
  <2>2. (history.known => cached = None) /\ metadata = None
    BY <1>16, <2>1 DEF Deactivate, Progress
  <2>3. Agree'
    BY <2>1, <2>2 DEF Agree, Matched
  <2>4. \/ y.step = "idle"
        \/ y.step = "race" /\ y.runs = 0
    <3>1. x.runs = 0
      BY <1>16, <1>a, RequestFacts DEF Deactivate, Removing
    <3> QED  BY <1>16, <1>a, <3>1, GoStep, EndStep DEF Deactivate
  <2> QED  BY <2>3, <2>4 DEF Progress, Agree
<1>17. CASE ListExpired(r)
  <2>1. history.alone /\ UNCHANGED <<cached, metadata, registry, history>>
    BY <1>17 DEF ListExpired
  <2>2. Agree
    BY <1>17, <2>1 DEF ListExpired, Progress
  <2>3. CASE metadata # None /\ metadata.expired
    <3>1. y.step = "untrack" /\ (history.known => cached = None)
      BY <1>17, <1>a, <2>2, <2>3, GoStep DEF ListExpired, Agree
    <3> QED  BY <2>1, <3>1 DEF Progress
  <2>4. CASE ~(metadata # None /\ metadata.expired)
    <3>1. y.step = "idle"
      BY <1>17, <1>a, <2>4, EndStep DEF ListExpired
    <3> QED  BY <2>1, <2>2, <3>1 DEF Agree, Matched
  <2> QED  BY <2>3, <2>4
<1>18. CASE Snapshot(r)
  <2>1. /\ history.alone /\ UNCHANGED <<cached, metadata, registry, history>> /\ y.step = "recompute"
        /\ y.seen = IF metadata = None THEN 0 ELSE 1
    BY <1>18, <1>a DEF Snapshot, Requested, RequestType
  <2>2. Agree
    BY <1>18, <2>1 DEF Snapshot, Progress
  <2> QED  BY <2>1, <2>2 DEF Progress, Agree, Matched
<1>19. CASE Recompute(r)
  <2>1. history.alone /\ UNCHANGED <<cached, metadata, history>> /\ y.step = "idle"
    BY <1>19, <1>a, EndStep DEF Recompute
  <2>2. Agree /\ (x.seen = 1 <=> metadata # None)
    BY <1>19, <2>1 DEF Recompute, Progress
  <2>3. registry'.active <=> metadata # None
    <3>1. DOMAIN registry = {"active", "timesSet"}
      BY <1>a DEF Kept
    <3>2. CASE registry.timesSet = 0
      <4>1. registry'.active = registry.active
        BY <1>19, <3>1, <3>2 DEF Recompute
      <4> QED  BY <4>1, <2>2 DEF Agree, Matched
    <3>3. CASE registry.timesSet # 0
      <4>1. registry'.active = (x.seen = 1)
        BY <1>19, <3>1, <3>3 DEF Recompute
      <4> QED  BY <4>1, <2>2
    <3> QED  BY <3>2, <3>3
  <2> QED  BY <2>1, <2>2, <2>3 DEF Agree, Matched
<1>20. ~Invalidate(r) /\ ~NotifyAsync(r) /\ ~Enumerate(r) /\ ~MarkRead(r) /\ ~ResetStatistics(r)
  BY <1>a, StepKinds DEF Updates, Invalidate, NotifyAsync, Enqueue, Trim, Dequeue, Enumerate,
                         MarkRead, ResetStatistics
<1> QED
  BY <1>1, <1>2, <1>3, <1>4, <1>5, <1>6, <1>7, <1>8, <1>9, <1>10, <1>11, <1>12, <1>13, <1>14,
     <1>15, <1>16, <1>17, <1>18, <1>19, <1>20 DEF Step

(* Only an update that nobody overlaps brings agreement. *)
LEMMA AgreementIsNoGift ==
    ASSUME HistoryTypes, NEW r \in Requests, Step(r), ~SetCache(r), ~RemoveCache(r), history'.alone
    PROVE  history.alone
<1> USE DEF HistoryTypes
<1>1. CASE Fetch(r)
  BY <1>1 DEF Fetch
<1>2. CASE Hit(r)
  BY <1>2 DEF Hit, Answered
<1>3. CASE Miss(r)
  BY <1>3 DEF Miss, Answered
<1>4. CASE MissWithoutFactory(r)
  BY <1>4 DEF MissWithoutFactory
<1>5. CASE Race(r)
  BY <1>5 DEF Race, Answered
<1>6. CASE Throw(r)
  BY <1>6 DEF Throw
<1>7. CASE CountHit(r)
  BY <1>7 DEF CountHit
<1>8. CASE CountMiss(r)
  BY <1>8 DEF CountMiss
<1>9. CASE CountTest(r)
  BY <1>9 DEF CountTest
<1>10. CASE ResetStatistics(r)
  BY <1>10 DEF ResetStatistics
<1>11. CASE Track(r)
  BY <1>11 DEF Track
<1>12. CASE RegisterRead(r)
  BY <1>12 DEF RegisterRead
<1>13. CASE RegisterWrite(r)
  BY <1>13 DEF RegisterWrite
<1>14. CASE Untrack(r)
  BY <1>14 DEF Untrack
<1>15. CASE Deactivate(r)
  BY <1>15 DEF Deactivate
<1>16. CASE Invalidate(r)
  BY <1>16 DEF Invalidate
<1>17. CASE ListExpired(r)
  BY <1>17 DEF ListExpired
<1>18. CASE Snapshot(r)
  BY <1>18 DEF Snapshot
<1>19. CASE Recompute(r)
  BY <1>19 DEF Recompute
<1>20. CASE NotifyAsync(r)
  BY <1>20 DEF NotifyAsync, Enqueue, Trim, Dequeue
<1>21. CASE Enumerate(r)
  BY <1>21 DEF Enumerate
<1>22. CASE MarkRead(r)
  BY <1>22 DEF MarkRead
<1> QED
  BY <1>1, <1>2, <1>3, <1>4, <1>5, <1>6, <1>7, <1>8, <1>9, <1>10, <1>11, <1>12, <1>13, <1>14, <1>15, <1>16, <1>17, <1>18, <1>19, <1>20, <1>21, <1>22 DEF Step

LEMMA StepListing ==
    ASSUME TypeInv, ListingInv, NEW r \in Requests, Step(r)
    PROVE  ListingInv'
<1>a. Requested /\ Types /\ HistoryTypes
  BY DEF TypeInv, Types
<1>b. \A q \in Requests \ {r} : request'[q] = request[q]
  BY <1>a, OneMoves DEF Requested
<1>c. ~At(r, "idle") /\ request[r].kind # "none"
  <2>1. ~At(r, "idle")
    BY DEF Step, SetCache, Fetch, Hit, Miss, MissWithoutFactory, Race, Throw, CountHit, CountMiss,
           CountTest, ResetStatistics, Track, RegisterRead, RegisterWrite, RemoveCache, Untrack,
           Deactivate, Invalidate, ListExpired, Snapshot, Recompute, NotifyAsync, Enqueue, Trim,
           Dequeue, Enumerate, MarkRead, At
  <2> QED  BY <2>1, <1>a, RequestFacts
<1>1. CASE request[r].kind \in Updates
  <2>1. r \in UnderWay(Updates)
    BY <1>1, <1>c DEF UnderWay, At
  <2>2. UnderWay(Updates)' \subseteq UnderWay(Updates)
    <3>1. ASSUME NEW q \in UnderWay(Updates)', q # r PROVE q \in UnderWay(Updates)
      BY <3>1, <1>b DEF UnderWay
    <3> QED  BY <3>1, <2>1 DEF UnderWay
  <2>3. CASE history'.alone
    <3>1. history.alone \/ UnderWay(Updates) = {r}
      <4>1. CASE history' = [history EXCEPT !.alone = @ \/ UnderWay(Updates) = {r},
                                          !.known = @ \/ UnderWay(Updates) = {r}]
        BY <4>1, <2>3, <1>a DEF HistoryTypes
      <4>2. CASE ~SetCache(r) /\ ~RemoveCache(r)
        BY <4>2, <2>3, <1>a, AgreementIsNoGift
      <4> QED  BY <4>1, <4>2 DEF SetCache, RemoveCache, Settle
    <3>2. UnderWay(Updates) = {r}
      BY <3>1, <2>1 DEF ListingInv
    <3>3. history.alone => Progress(r)
      BY <2>1 DEF ListingInv
    <3>4. IF At(r, "idle")' THEN Agree' ELSE Progress(r)'
      BY <1>1, <2>3, <3>3, UpdateListing
    <3>5. UnderWay(Updates)' \subseteq {r}
      BY <2>2, <3>2
    <3>6. UnderWay(Updates)' = {} <=> At(r, "idle")'
      <4>1. request'[r].kind \in DOMAIN StepsOf /\ request'[r].step \in StepsOf[request'[r].kind]
        BY NextTypes DEF Next, TypeInv, Requested, Formed
      <4>2. request'[r].kind = "none" => request'[r].step = "idle"
        BY <4>1, KindCases
      <4>3. request'[r].step # "idle" => request'[r].kind \in Updates
        BY <4>2, <1>1, <1>a, KindStays
      <4> QED  BY <4>3, <3>5 DEF UnderWay, At
    <3> QED  BY <3>4, <3>5, <3>6 DEF ListingInv
  <2> QED  BY <2>3 DEF ListingInv
<1>2. CASE request[r].kind \notin Updates
  <2>1. UnderWay(Updates)' = UnderWay(Updates)
    <3>1. request'[r].kind \notin Updates
      BY <1>2, <1>a, KindStays DEF Updates
    <3> QED  BY <1>2, <3>1, <1>b DEF UnderWay
  <2>2. \A q \in UnderWay(Updates) : request'[q] = request[q]
    BY <1>2, <1>b DEF UnderWay
  <2>3. Forgets /\ (history'.alone => history.alone)
    <3>1. CASE Invalidate(r)
      BY <3>1 DEF Invalidate, Forgets
    <3>2. CASE Throw(r)
      BY <3>2, <1>a DEF Throw, Forgets, HistoryTypes
    <3>3. CASE ResetStatistics(r)
      BY <3>3, <1>a DEF ResetStatistics, Forgets, HistoryTypes
    <3>4. CASE NotifyAsync(r)
      BY <3>4, <1>a DEF NotifyAsync, Enqueue, Trim, Dequeue, Forgets, HistoryTypes
    <3>5. CASE Enumerate(r) \/ MarkRead(r)
      BY <3>5, <1>a, Marks DEF Enumerate, Forgets, HistoryTypes
    <3>6. \/ Invalidate(r) \/ Throw(r) \/ ResetStatistics(r) \/ NotifyAsync(r)
          \/ Enumerate(r) \/ MarkRead(r)
      BY <1>2, <1>a, StepKinds
         DEF Step, SetCache, Fetch, Hit, Miss, MissWithoutFactory, Race, CountHit, CountMiss,
             CountTest, Track, RegisterRead, RegisterWrite, RemoveCache, Untrack,
             Deactivate, ListExpired, Snapshot, Recompute, At, Updates, Tests, Registering
    <3> QED  BY <3>1, <3>2, <3>3, <3>4, <3>5, <3>6
  <2> QED  BY <2>1, <2>2, <2>3, ForgettingListing
<1> QED  BY <1>1, <1>2

LEMMA NextListing == TypeInv /\ ListingInv /\ [Next]_vars => ListingInv'
<1> SUFFICES ASSUME TypeInv, ListingInv, [Next]_vars PROVE ListingInv'
  OBVIOUS
<1>a. Requested /\ HistoryTypes /\ Types /\ Kept
  BY DEF TypeInv, Types
<1>0. ASSUME Forgets, history'.alone => history.alone, UNCHANGED request PROVE ListingInv'
  <2>1. UnderWay(Updates)' = UnderWay(Updates)
    BY <1>0 DEF UnderWay
  <2> QED  BY <1>0, <2>1, ForgettingListing
<1>1. CASE UNCHANGED vars
  BY <1>0, <1>1 DEF vars, Forgets
<1>2. ASSUME NEW r \in Requests, Step(r) PROVE ListingInv'
  BY <1>2, StepListing
<1>3. ASSUME NEW r \in Requests, NEW k \in DOMAIN FirstStep, Arrive(r, k) PROVE ListingInv'
  <2>1. /\ \A q \in Requests \ {r} : request'[q] = request[q]
        /\ At(r, "idle") /\ request'[r].kind = k /\ request'[r].step = FirstStep[k]
        /\ request'[r].runs = 0 /\ UNCHANGED <<cached, metadata, registry>>
    BY <1>3, <1>a DEF Arrive, Requested, NoRequest
  <2>2. /\ history'.alone = (history.alone /\ (k \in Updates => UnderWay(Updates) = {}))
        /\ history'.known = history.known
    BY <1>3, <1>a DEF Arrive, HistoryTypes
  <2>3. CASE k \notin Updates
    <3>1. UnderWay(Updates)' = UnderWay(Updates) /\ r \notin UnderWay(Updates)
      BY <2>1, <2>3 DEF UnderWay, At
    <3>2. \A q \in UnderWay(Updates) : request'[q] = request[q]
      BY <2>1, <3>1 DEF UnderWay
    <3>3. Forgets /\ (history'.alone => history.alone)
      BY <2>1, <2>2 DEF Forgets
    <3> QED  BY <3>1, <3>2, <3>3, ForgettingListing
  <2>4. CASE k \in Updates /\ history'.alone
    <3>1. UnderWay(Updates) = {} /\ Agree
      BY <2>2, <2>4 DEF ListingInv
    <3>2. UnderWay(Updates)' = {r}
      BY <2>1, <2>4, <3>1, FirstSteps DEF UnderWay
    <3>3. Agree'
      BY <2>1, <2>2, <3>1 DEF Agree, Matched
    <3>4. request'[r].step \notin {"recompute", "countMiss", "track", "register", "addOrUpdate",
                                   "untrack", "deactivate"}
      BY <2>1, FirstSteps
    <3>5. Progress(r)'
      BY <2>1, <3>3, <3>4 DEF Progress, Agree
    <3> QED  BY <3>2, <3>5 DEF ListingInv
  <2> QED  BY <2>3, <2>4 DEF ListingInv
<1>4. CASE ExpireCached \/ OtherEntry
  BY <1>0, <1>4, <1>a DEF ExpireCached, OtherEntry, Forgets, HistoryTypes
<1>5. CASE ExpireListed
  <2>1. /\ history'.alone = history.alone
        /\ history'.known => history.known /\ cached' = None
    BY <1>5, <1>a DEF ExpireListed, HistoryTypes
  <2>2. metadata \in [value : 0..history.made, expired : BOOLEAN] /\ metadata # None
    BY <1>5, <1>a DEF ExpireListed, Kept, HistoryTypes
  <2>3. metadata' = [metadata EXCEPT !.expired = TRUE]
    BY <1>5 DEF ExpireListed
  <2>4. metadata'.value = metadata.value
    BY <2>2, <2>3
  <2>5. metadata' # None
    <3>1. metadata.value \in Nat
      BY <2>2, <1>a DEF HistoryTypes
    <3>2. metadata' \in [value : Nat, expired : BOOLEAN]
      BY <2>2, <2>3, <3>1
    <3> QED  BY <3>2, ConstantsAssumption
  <2>6. Forgets /\ UNCHANGED request
    BY <1>5, <2>1, <2>2, <2>4, <2>5 DEF ExpireListed, Forgets
  <2> QED  BY <1>0, <2>1, <2>6
<1> QED  BY <1>1, <1>2, <1>3, <1>4, <1>5 DEF Next

LEMMA InitListing == Init => ListingInv
<1> SUFFICES ASSUME Init PROVE ListingInv
  OBVIOUS
<1>1. UnderWay(Updates) = {}
  BY DEF Init, NoRequest, UnderWay
<1>2. Agree
  <2>1. history.known => cached = None
    <3>1. PICK load \in Loads :
        history = [load |-> load, made |-> 0, sent |-> 0, registered |-> 0, answered |-> 0,
                   nulls |-> 0, read |-> 0, alone |-> TRUE, exact |-> TRUE, serial |-> TRUE,
                   known |-> (cached = None)]
      BY DEF Init
    <3>2. history.known <=> cached = None
      BY <3>1
    <3> QED  BY <3>2
  <2>2. metadata = None /\ ~registry.active
    BY DEF Init
  <2> QED  BY <2>1, <2>2 DEF Agree, Matched
<1> QED  BY <1>1, <1>2 DEF ListingInv

(* The page that lists the entries does not mislead once all is quiet, as  *)
(* long as no two updates of the key have overlapped since the last that   *)
(* was alone: sets, gets, tests, removals, prunings, expirations, failures *)
(* and recomputations leave a key active if and only if it is listed, and  *)
(* what the cache has listed with its value, but for an entry that nobody  *)
(* listed or that has outlived its listing.                                *)
THEOREM ListingDoesNotMislead == Spec => []ListingAgrees
<1>1. TypeInv /\ ListingInv => ListingAgrees
  <2> SUFFICES ASSUME TypeInv, ListingInv, Quiet, history.alone PROVE Agree
    BY DEF ListingAgrees, Agree, Matched
  <2>1. UnderWay(Updates) = {}
    BY DEF Quiet, UnderWay, Updates, FirstStep
  <2> QED  BY <2>1 DEF ListingInv
<1> QED  BY <1>1, InitTypes, NextTypes, InitListing, NextListing, PTL DEF Spec

=============================================================================
