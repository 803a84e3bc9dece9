----------------------------- MODULE HybridCache -----------------------------
(***************************************************************************)
(* The two levels and the tags together: one key, whose items carry one    *)
(* tag, written by SetAsync and GetOrCreateAsync, and invalidated by       *)
(* RemoveByTagAsync while items, their copies and the sentinel of the tag  *)
(* expire, and nodes are started anew.  HybridCacheSync and TagKeeper have *)
(* each half in more detail; here are the stamps and the lifetimes that    *)
(* only meet when both run.                                                *)
(*                                                                         *)
(* Abstractions.  One clock for all nodes.  No entry flags, faults or      *)
(* wildcard.  A read and IsItemInvalidatedAsync are one step, and so are a *)
(* write of L2 and its message.  The semaphore of GetOrCreateAsync, which  *)
(* StampedeLock has, excludes nobody here.                                 *)
(***************************************************************************)
EXTENDS Integers

CONSTANTS
    Nodes,
    Calls,          \* calls, each made at most once
    Workloads,      \* what the calls ask for
    DistributedCacheExpiration,  \* of the configuration, as the next
    LocalCacheExpiration,
    Expirations,    \* what a call may give its L2 item instead
    MaxTime,        \* bound on the clock
    MaxRestarts,    \* bound on the nodes started anew
    None,           \* no entry
    Unknown         \* the tag has no entry in a node's dictionary

(* A sentinel that is not in L2 reads as long.MinValue. *)
MinValue == -1
Stamp == 1..MaxTime
Item == [by: Calls, stamp: Stamp, until: Nat]
Sentinel == [stamp: Stamp, until: Nat]

ASSUME ConstantsAssumption ==
    /\ Workloads \subseteq [Calls -> {"Set", "GetOrCreate", "RemoveByTag"}]
    /\ DistributedCacheExpiration \in Nat \ {0}
    /\ LocalCacheExpiration \in Nat \ {0}
    /\ Expirations \subseteq Nat \ {0}
    /\ MaxTime \in Nat \ {0}
    /\ MaxRestarts \in Nat
    /\ None \notin Item /\ None \notin Sentinel
    /\ Unknown \notin Stamp \cup {MinValue}

VARIABLES
    now,        \* the clock
    l1,         \* per node: the key's item in the local cache
    l2,         \* the key's item in the distributed cache
    sentinel,   \* the tag's stamp in the distributed cache
    known,      \* per node: the tag's stamp in _tagInvalidationTimes
    inbox,      \* per node: the messages to be handled
    fetched,    \* per node: what an Update callback has read and not yet inserted
    pc, home, op,   \* the next step of a call, its node, what it asks for
    hand,       \* the item a call has in hand
    stamp,      \* the time an invalidation took, or the creation of a write's L2 item
    before,     \* history: the calls that had ended when this invalidation began
    told,       \* history, per node: the invalidations it ran or handled
    restarts

vars == <<now, l1, l2, sentinel, known, inbox, fetched, pc, home, op, hand, stamp,
          before, told, restarts>>
caches == <<l1, l2, sentinel, known, inbox, fetched>>
history == <<before, told, restarts>>
calls == <<home, op>>

Message == [type: {"Update", "Tag"}, call: Calls]

Steps == {"idle", "readL2", "fill", "recheck", "stampL2", "putL2", "putL1",
          "mark", "send", "done", "lost"}

TypeOK ==
    /\ now \in Stamp
    /\ l1 \in [Nodes -> Item \cup {None}]
    /\ l2 \in Item \cup {None}
    /\ sentinel \in Sentinel \cup {None}
    /\ known \in [Nodes -> Stamp \cup {Unknown, MinValue}]
    /\ inbox \in [Nodes -> SUBSET Message]
    /\ fetched \in [Nodes -> Item \cup {None}]
    /\ pc \in [Calls -> Steps]
    /\ home \in [Calls -> Nodes]
    /\ op \in Workloads
    /\ hand \in [Calls -> Item \cup {None}]
    /\ stamp \in [Calls -> Stamp \cup {0}]
    /\ before \in [Calls -> SUBSET Calls]
    /\ told \in [Nodes -> SUBSET Calls]
    /\ restarts \in 0..MaxRestarts

Init ==
    /\ now = 1
    /\ l1 = [n \in Nodes |-> None] /\ l2 = None /\ sentinel = None
    /\ known = [n \in Nodes |-> Unknown]
    /\ inbox = [n \in Nodes |-> {}] /\ fetched = [n \in Nodes |-> None]
    /\ pc = [c \in Calls |-> "idle"]
    /\ home \in [Calls -> Nodes] /\ op \in Workloads
    /\ hand = [c \in Calls |-> None]
    /\ stamp = [c \in Calls |-> 0]
    /\ before = [c \in Calls |-> {}]
    /\ told = [n \in Nodes |-> {}]
    /\ restarts = 0

At(c, step) == pc[c] = step
Goto(c, step) == pc' = [pc EXCEPT ![c] = step]
Hold(c, item) == hand' = [hand EXCEPT ![c] = item]
Send(c, type) ==
    inbox' = [n \in Nodes |-> IF n = home[c] THEN inbox[n]
                              ELSE inbox[n] \cup {[type |-> type, call |-> c]}]

(* What the node's local cache makes of an item: a lifetime of its own. *)
Localized(item) == [item EXCEPT !.until = now + LocalCacheExpiration]

-----------------------------------------------------------------------------
(* IsItemInvalidatedAsync: a stamp that is looked up is remembered. *)
Known(n) == IF known[n] = Unknown /\ sentinel # None THEN sentinel.stamp ELSE known[n]
Invalid(n, item) == Known(n) # Unknown /\ Known(n) >= item.stamp
Remember(n) == known' = [known EXCEPT ![n] = Known(n)]

(* A call runs from its first step on. *)
Start(c, asks) ==
    /\ At(c, "idle")
    /\ op[c] = asks
    /\ before' = IF asks = "RemoveByTag"
                  THEN [before EXCEPT ![c] = {d \in Calls : At(d, "done")}] ELSE before
    /\ UNCHANGED <<told, restarts>>

-----------------------------------------------------------------------------
(* SetAsync, and GetOrCreateAsync from the factory's value on. *)

(* NCacheHybridCacheItem takes the time when it is made: here for L2 ... *)
StampL2(c) ==
    /\ \/ At(c, "stampL2") /\ UNCHANGED history
       \/ Start(c, "Set")
    /\ \E e \in Expirations \cup {DistributedCacheExpiration} :
           Hold(c, [by |-> c, stamp |-> now, until |-> e])
    /\ stamp' = [stamp EXCEPT ![c] = now]
    /\ Goto(c, "putL2")
    /\ UNCHANGED <<now, caches, calls>>

(* ... which is inserted and announced ... *)
PutL2(c) ==
    /\ At(c, "putL2")
    /\ l2' = [hand[c] EXCEPT !.until = now + hand[c].until]
    /\ Send(c, "Update")
    /\ Hold(c, None)
    /\ Goto(c, "putL1")
    /\ UNCHANGED <<now, l1, sentinel, known, fetched, calls, stamp, history>>

(* Mutant: the item for L1 is made without its time. *)
PutL1Unstamped(c) ==
    /\ At(c, "putL1")
    /\ l1' = [l1 EXCEPT ![home[c]] = Localized([by |-> c, stamp |-> 0, until |-> 0])]
    /\ Goto(c, "done")
    /\ UNCHANGED <<now, l2, sentinel, known, inbox, fetched, calls, hand, stamp, history>>

(* ... and here for L1, whose item may so be younger. *)
PutL1(c) ==
    /\ At(c, "putL1")
    /\ l1' = [l1 EXCEPT ![home[c]] = Localized([by |-> c, stamp |-> now, until |-> 0])]
    /\ Goto(c, "done")
    /\ UNCHANGED <<now, l2, sentinel, known, inbox, fetched, calls, hand, stamp, history>>

-----------------------------------------------------------------------------
(* GetOrCreateAsync, up to the factory. *)

(* An item is read and checked: a valid one is returned, from L2 by way of *)
(* the step that fills L1.                                                 *)
Read(c, item, valid, otherwise) ==
    /\ IF item # None THEN Remember(home[c]) ELSE UNCHANGED known
    /\ IF item = None \/ Invalid(home[c], item)
       THEN Goto(c, otherwise) /\ UNCHANGED hand
       ELSE Goto(c, valid) /\ Hold(c, IF valid = "fill" THEN item ELSE None)
    /\ UNCHANGED <<now, l1, l2, sentinel, inbox, fetched, calls, stamp>>

ReadL1(c) ==
    /\ Start(c, "GetOrCreate")
    /\ Read(c, l1[home[c]], "done", "readL2")

ReadL2(c) ==
    /\ At(c, "readL2") /\ UNCHANGED history
    /\ Read(c, l2, "fill", "recheck")

(* L1 again, with the semaphore; then the factory runs. *)
Recheck(c) ==
    /\ At(c, "recheck") /\ UNCHANGED history
    /\ Read(c, l1[home[c]], "done", "stampL2")

(* Mutant: the copy is given a stamp of its own, as SetAsync does. *)
FillStamped(c) ==
    /\ At(c, "fill")
    /\ l1' = [l1 EXCEPT ![home[c]] = [Localized(hand[c]) EXCEPT !.stamp = now]]
    /\ Hold(c, None)
    /\ Goto(c, "done")
    /\ UNCHANGED <<now, l2, sentinel, known, inbox, fetched, calls, stamp, history>>

(* The copy of L1 keeps the stamp of L2's item, but not its lifetime. *)
Fill(c) ==
    /\ At(c, "fill")
    /\ l1' = [l1 EXCEPT ![home[c]] = Localized(hand[c])]
    /\ Hold(c, None)
    /\ Goto(c, "done")
    /\ UNCHANGED <<now, l2, sentinel, known, inbox, fetched, calls, stamp, history>>

-----------------------------------------------------------------------------
(* RemoveByTagAsync: MarkTagInvalidAsync and PublishTagInvalidation. *)

StampTag(c) ==
    /\ Start(c, "RemoveByTag")
    /\ stamp' = [stamp EXCEPT ![c] = now]
    /\ Goto(c, "mark")
    /\ UNCHANGED <<now, caches, calls, hand>>

MarkTag(c) ==
    /\ At(c, "mark")
    /\ known' = [known EXCEPT ![home[c]] = stamp[c]]
    /\ Goto(c, "send")
    /\ UNCHANGED <<now, l1, l2, sentinel, inbox, fetched, calls, hand, stamp, history>>

(* Mutant: the sentinel gets the expiration of the local cache. *)
SendTagLocally(c) ==
    /\ At(c, "send")
    /\ sentinel' = [stamp |-> stamp[c], until |-> now + LocalCacheExpiration]
    /\ Send(c, "Tag")
    /\ told' = [told EXCEPT ![home[c]] = @ \cup {c}]
    /\ Goto(c, "done")
    /\ UNCHANGED <<now, l1, l2, known, fetched, calls, hand, stamp, before, restarts>>

(* SendTagToL2Async, whose _sentinelExpiration is DistributedCacheExpiration, *)
(* and PublishTagInvalidation.                                                *)
SendTag(c) ==
    /\ At(c, "send")
    /\ sentinel' = [stamp |-> stamp[c], until |-> now + DistributedCacheExpiration]
    /\ Send(c, "Tag")
    /\ told' = [told EXCEPT ![home[c]] = @ \cup {c}]
    /\ Goto(c, "done")
    /\ UNCHANGED <<now, l1, l2, known, fetched, calls, hand, stamp, before, restarts>>

-----------------------------------------------------------------------------
(* SyncL1Callback: a subscription runs one at a time. *)

Forget(n, m) == inbox' = [inbox EXCEPT ![n] = @ \ {m}]

(* An Update: the item is read, whatever its tags ... *)
Fetch(n, m) ==
    /\ m \in inbox[n] /\ m.type = "Update"
    /\ fetched[n] = None
    /\ Forget(n, m)
    /\ fetched' = [fetched EXCEPT ![n] = l2]
    /\ UNCHANGED <<now, l1, l2, sentinel, known, calls, pc, hand, stamp, history>>

(* ... and inserted with a lifetime of its own. *)
Insert(n) ==
    /\ fetched[n] # None
    /\ l1' = [l1 EXCEPT ![n] = Localized(fetched[n])]
    /\ fetched' = [fetched EXCEPT ![n] = None]
    /\ UNCHANGED <<now, l2, sentinel, known, inbox, calls, pc, hand, stamp, history>>

(* A Tag message: SyncL1TagFromL2. *)
SyncTag(n, m) ==
    /\ m \in inbox[n] /\ m.type = "Tag"
    /\ fetched[n] = None
    /\ Forget(n, m)
    /\ known' = [known EXCEPT ![n] = IF sentinel = None THEN MinValue ELSE sentinel.stamp]
    /\ told' = [told EXCEPT ![n] = @ \cup {m.call}]
    /\ UNCHANGED <<now, l1, l2, sentinel, fetched, calls, pc, hand, stamp, before, restarts>>

-----------------------------------------------------------------------------
(* Assumed of the topic: a Tag message is handled before the sentinel      *)
(* expires, which would have it read as long.MinValue.                     *)
SentinelsAreReadInTime ==
    sentinel # None /\ sentinel.until <= now + 1 =>
        \A n \in Nodes : \A m \in inbox[n] : m.type # "Tag"

Expire(entry) == IF entry # None /\ entry.until <= now + 1 THEN None ELSE entry

Tick ==
    /\ now < MaxTime
    /\ SentinelsAreReadInTime
    /\ now' = now + 1
    /\ l1' = [n \in Nodes |-> Expire(l1[n])]
    /\ l2' = Expire(l2)
    /\ sentinel' = Expire(sentinel)
    /\ UNCHANGED <<known, inbox, fetched, calls, pc, hand, stamp, history>>

(* The process of a node is replaced: its memory, its subscription and the *)
(* calls that run there are gone.                                          *)
Restart(n) ==
    /\ restarts < MaxRestarts
    /\ restarts' = restarts + 1
    /\ l1' = [l1 EXCEPT ![n] = None]
    /\ known' = [known EXCEPT ![n] = Unknown]
    /\ inbox' = [inbox EXCEPT ![n] = {}]
    /\ fetched' = [fetched EXCEPT ![n] = None]
    /\ told' = [told EXCEPT ![n] = {}]
    /\ pc' = [c \in Calls |-> IF home[c] = n /\ pc[c] \notin {"idle", "done"}
                              THEN "lost" ELSE pc[c]]
    /\ hand' = [c \in Calls |-> IF home[c] = n THEN None ELSE hand[c]]
    /\ UNCHANGED <<now, l2, sentinel, calls, stamp, before>>

WriteStep(c) == StampL2(c) \/ PutL2(c) \/ PutL1(c)
ReadStep(c) == ReadL1(c) \/ ReadL2(c) \/ Fill(c) \/ Recheck(c)
TagStep(c) == StampTag(c) \/ MarkTag(c) \/ SendTag(c)
CallbackStep(n) == Insert(n) \/ \E m \in inbox[n] : Fetch(n, m) \/ SyncTag(n, m)

Next ==
    \/ \E c \in Calls : WriteStep(c) \/ ReadStep(c) \/ TagStep(c)
    \/ \E n \in Nodes : CallbackStep(n) \/ Restart(n)
    \/ Tick

Spec == Init /\ [][Next]_vars

-----------------------------------------------------------------------------
(* Properties. *)

Removals == {c \in Calls : op[c] = "RemoveByTag"}

(* Created no later than all invalidations so far: TagKeeper's finding, an *)
(* older invalidation may overwrite the stamp of a newer one.              *)
OlderThanAll(ts) == \A e \in Removals : stamp[e] # 0 => ts <= stamp[e]

(* "Causing future cache lookups to treat associated entries as            *)
(* invalidated" (NCacheHybridCache.cs): once a node has run                *)
(* RemoveByTagAsync, or handled its message, it finds all values invalid   *)
(* that were stamped for L2 no later - in either level, by whatever way    *)
(* and however late they came there - but for one case: the writer's own   *)
(* copy, stamped after an invalidation that began before the write had     *)
(* returned, for it is stamped after the one of L2.                        *)
InvalidatedIsNotServed ==
    \A n \in Nodes : \A c \in told[n], item \in {l1[n], l2} \ {None} :
        /\ stamp[item.by] <= stamp[c]
        /\ OlderThanAll(stamp[item.by])
        => \/ Invalid(n, item)
           \/ /\ n = home[item.by] /\ item = l1[n]
              /\ \E e \in Removals : /\ stamp[e] # 0 /\ stamp[e] < item.stamp
                                     /\ item.by \notin before[e]

(* The sentinel outlives the items it invalidates, if those are not given  *)
(* longer expirations than the configuration's: as long as one is in L2, a *)
(* node that has not to handle the message any more - one started since,   *)
(* too - finds it invalid.                                                 *)
SentinelOutlives ==
    \A c \in Removals, n \in Nodes :
        /\ At(c, "done") /\ [type |-> "Tag", call |-> c] \notin inbox[n]
        /\ l2 # None /\ OlderThanAll(l2.stamp)
        /\ l2.until <= stamp[c] + DistributedCacheExpiration
        => Invalid(n, l2)

=============================================================================
