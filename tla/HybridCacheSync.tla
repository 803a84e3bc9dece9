--------------------------- MODULE HybridCacheSync ---------------------------
(***************************************************************************)
(* The two cache levels of NCacheHybridCache and the topic that keeps the  *)
(* local caches of several application nodes in step.                      *)
(*                                                                         *)
(* L1[n] is the in-process cache of node n, L2 the distributed cache all   *)
(* nodes share.  A call of the public API runs as a task of its node and   *)
(* interleaves with every other call and with the topic callbacks between  *)
(* any two accesses to a cache or to the topic.                            *)
(*                                                                         *)
(* Abstractions.  Every call writes a value of its own (the call itself),  *)
(* so that any stale entry shows.  The verdict of TagKeeper on an entry    *)
(* that was found is a free choice.  The per-key semaphore is left out: a  *)
(* caller may pass it at any time (module StampedeLock has the semaphore). *)
(* Expiration is the spontaneous loss of an entry.                         *)
(***************************************************************************)
EXTENDS Naturals

CONSTANTS
    Nodes,      \* the application instances, one NCacheHybridCache each
    Keys,       \* cache keys
    Calls,      \* calls of the public API, each made at most once
    Requests,   \* what a call may ask for
    Absent,     \* no entry
    Initial,    \* an entry the distributed cache held before the nodes started
    Faults      \* the faults the environment may inject

FlagNames == {"LocalRead", "LocalWrite", "DistributedRead", "DistributedWrite",
              "UnderlyingData"}

DisableLocalCache == {"LocalRead", "LocalWrite"}
DisableDistributedCache == {"DistributedRead", "DistributedWrite"}

RequestType == [op: {"Set", "Remove", "GetOrCreate"}, keys: SUBSET Keys,
                flags: SUBSET FlagNames]

FaultNames == {"publish", "distributed", "expire", "crash"}

ASSUME ConstantsAssumption ==
    /\ Requests \subseteq RequestType
    /\ Faults \subseteq FaultNames
    /\ Initial \notin Calls
    /\ Absent \notin Calls \cup {Initial}

Values == Calls \cup {Initial}
Entry == Values \cup {Absent}
Message == [id: Calls, type: {"Update", "Remove"}, keys: SUBSET Keys]

Running == {"setL2", "setL1", "removeL1", "removeL2", "getL1", "getL2", "fill",
            "recheck", "putL2", "putL1", "publish"}
Ended == {"done", "failed"}

VARIABLES
    L1,       \* the local cache of every node
    L2,       \* the distributed cache
    inbox,    \* messages of other nodes the topic has still to deliver to a node
    held,     \* the entries an Update callback has read and not yet inserted
    pc,       \* the next step of a call
    home,     \* the node a call runs on
    req,      \* the request of a call
    seen,     \* the L2 entry a GetOrCreateAsync is about to put into L1
    settled   \* auxiliary: nothing a topic message will not repair has
              \* happened to this entry (see SettledAfterL2Change)

vars == <<L1, L2, inbox, held, pc, home, req, seen, settled>>

NothingHeld == [k \in Keys |-> Absent]

(* The callback thread of n is not in the middle of an Update message. *)
CallbackIdle(n) == held[n] = NothingHeld

KeysOf(c) == req[c].keys
FlagsOf(c) == req[c].flags

TypeOK ==
    /\ L1 \in [Nodes -> [Keys -> Entry]]
    /\ L2 \in [Keys -> Entry]
    /\ inbox \in [Nodes -> SUBSET Message]
    /\ held \in [Nodes -> [Keys -> Entry]]
    /\ pc \in [Calls -> {"idle"} \cup Running \cup Ended]
    /\ home \in [Calls -> Nodes]
    /\ req \in [Calls -> Requests]
    /\ seen \in [Calls -> Entry]
    /\ settled \in [Nodes -> [Keys -> BOOLEAN]]

Init ==
    /\ L1 = [n \in Nodes |-> NothingHeld]
    /\ L2 \in [Keys -> {Absent, Initial}]
    /\ inbox = [n \in Nodes |-> {}]
    /\ held = [n \in Nodes |-> NothingHeld]
    /\ pc = [c \in Calls |-> "idle"]
    /\ home \in [Calls -> Nodes]
    /\ req \in [Calls -> Requests]
    /\ seen = [c \in Calls |-> Absent]
    /\ settled = [n \in Nodes |-> [k \in Keys |-> TRUE]]

Goto(c, step) == pc' = [pc EXCEPT ![c] = step]

(***************************************************************************)
(* The auxiliary variable.  A change of L2 by another node is going to be  *)
(* published to n, so n is settled again whatever happened before.  Its    *)
(* own change is not: its L1 must be brought in line by the call itself.   *)
(***************************************************************************)
SettledAfterL2Change(c, v) ==
    [n \in Nodes |-> [k \in Keys |->
        IF k \notin KeysOf(c) THEN settled[n][k]
        ELSE \/ n # home[c]
             \/ v = Absent /\ L1[n][k] = Absent /\ held[n][k] = Absent]]

(* An entry a call puts into its own L1 is up to date if L2 still holds it *)
(* and no callback is about to overwrite it with something older.          *)
SettledAfterInsert(c, v) ==
    [n \in Nodes |-> [k \in Keys |->
        IF n # home[c] \/ k \notin KeysOf(c) THEN settled[n][k]
        ELSE v = L2[k] /\ (settled[n][k] \/ held[n][k] \in {Absent, v})]]

(* The other nodes never hear of the changes of the calls in C. *)
SettledAfterLoss(C) ==
    [n \in Nodes |-> [k \in Keys |->
        settled[n][k] /\ \A c \in C : n = home[c] \/ k \notin KeysOf(c)]]

-----------------------------------------------------------------------------
(* Steps the operations share. *)

(* Insert into, or removal from, the distributed cache. *)
ChangeL2(c, v) ==
    /\ L2' = [k \in Keys |-> IF k \in KeysOf(c) THEN v ELSE L2[k]]
    /\ settled' = SettledAfterL2Change(c, v)

(* Insert into, or removal from, the local cache of the call's node. *)
ChangeL1(c, v) ==
    L1' = [L1 EXCEPT ![home[c]] =
              [k \in Keys |-> IF k \in KeysOf(c) THEN v ELSE L1[home[c]][k]]]

InsertL1(c, v) ==
    /\ ChangeL1(c, v)
    /\ settled' = SettledAfterInsert(c, v)

(* A call of the distributed cache throws. *)
DistributedFault == "distributed" \in Faults

(***************************************************************************)
(* PublishCacheUpdate.  The node's own copy of the message is dropped by   *)
(* the identifier test of SyncL1Callback, so it never enters an inbox.  An *)
(* exception of the topic is logged and swallowed: the call goes on.       *)
(***************************************************************************)
AfterPublish(c) ==
    CASE req[c].op = "Remove" -> "done"
      [] req[c].op = "Set" -> "setL1"
      [] req[c].op = "GetOrCreate" -> "putL1"

(* Mutants: a message type the callback does not know; a removal           *)
(* announced as an update.                                                 *)
PublishAs(c, type) ==
    /\ pc[c] = "publish"
    /\ Goto(c, AfterPublish(c))
    /\ inbox' = [n \in Nodes |-> IF n = home[c] THEN inbox[n]
                    ELSE inbox[n] \cup {[id |-> c, keys |-> KeysOf(c), type |-> type]}]
    /\ UNCHANGED <<L1, L2, held, home, req, seen, settled>>

PublishOperation(c) == PublishAs(c, req[c].op)
PublishUpdate(c) == PublishAs(c, "Update")

PublishCacheUpdate(c) ==
    /\ pc[c] = "publish"
    /\ Goto(c, AfterPublish(c))
    /\ LET m == [id |-> c, keys |-> KeysOf(c),
                 type |-> IF req[c].op = "Remove" THEN "Remove" ELSE "Update"]
       IN  inbox' = [n \in Nodes |->
                        IF n = home[c] THEN inbox[n] ELSE inbox[n] \cup {m}]
    /\ UNCHANGED <<L1, L2, held, home, req, seen, settled>>

PublishFails(c) ==
    /\ "publish" \in Faults
    /\ pc[c] = "publish"
    /\ Goto(c, AfterPublish(c))
    /\ settled' = SettledAfterLoss({c})
    /\ UNCHANGED <<L1, L2, inbox, held, home, req, seen>>

-----------------------------------------------------------------------------
(* SetAsync: L2 and its message first, then L1; a failure of L2 is logged  *)
(* and L1 is written all the same.                                         *)

SetL2(c) ==
    /\ pc[c] = "setL2"
    /\ IF "DistributedWrite" \in FlagsOf(c)
       THEN Goto(c, "setL1") /\ UNCHANGED <<L2, settled>>
       ELSE \/ Goto(c, "publish") /\ ChangeL2(c, c)
            \/ DistributedFault /\ Goto(c, "setL1") /\ UNCHANGED <<L2, settled>>
    /\ UNCHANGED <<L1, inbox, held, home, req, seen>>

SetL1(c) ==
    /\ pc[c] = "setL1"
    /\ Goto(c, "done")
    /\ IF "LocalWrite" \in FlagsOf(c) THEN UNCHANGED <<L1, settled>>
                                      ELSE InsertL1(c, c)
    /\ UNCHANGED <<L2, inbox, held, home, req, seen>>

-----------------------------------------------------------------------------
(* RemoveAsync, of one key or of many: L1, then L2, then the message; a    *)
(* failure of L2 is thrown to the caller, with L1 already removed.         *)

RemoveL1(c) ==
    /\ pc[c] = "removeL1"
    /\ Goto(c, "removeL2")
    /\ ChangeL1(c, Absent)
    /\ UNCHANGED <<L2, inbox, held, home, req, seen, settled>>

RemoveL2(c) ==
    /\ pc[c] = "removeL2"
    /\ \/ Goto(c, "publish") /\ ChangeL2(c, Absent)
       \/ DistributedFault /\ Goto(c, "failed") /\ UNCHANGED <<L2, settled>>
    /\ UNCHANGED <<L1, inbox, held, home, req, seen>>

-----------------------------------------------------------------------------
(* GetOrCreateAsync, of one key. *)

Disables(c, names) == FlagsOf(c) \cap names # {}

(* Both reads disabled: the factory runs, or not, and nothing is cached. *)
Uncached(c) == {"LocalRead", "DistributedRead"} \subseteq FlagsOf(c)

(* The cache holds the key.  TagKeeper then finds the entry valid or not,  *)
(* or fails when it looks up a tag in L2.                                  *)
Holds(cache, c) == \E k \in KeysOf(c) : cache[k] # Absent

GetL1(c) ==
    /\ pc[c] = "getL1"
    /\ \/ Uncached(c) /\ Goto(c, "done")
       \/ "LocalRead" \notin FlagsOf(c) /\ Holds(L1[home[c]], c) /\ Goto(c, "done")
       \/ ~Uncached(c) /\ Goto(c, "getL2")
       \/ /\ DistributedFault /\ "LocalRead" \notin FlagsOf(c)
          /\ Holds(L1[home[c]], c) /\ Goto(c, "failed")
    /\ UNCHANGED <<L1, L2, inbox, held, home, req, seen, settled>>

(* A valid L2 entry is returned, by way of L1 unless a local flag is set;  *)
(* a fill is a later step and inserts what was read here.                  *)
GetL2(c) ==
    /\ pc[c] = "getL2"
    /\ \/ /\ "DistributedRead" \notin FlagsOf(c)
          /\ \E k \in KeysOf(c) : L2[k] # Absent /\ seen' = [seen EXCEPT ![c] = L2[k]]
          /\ Goto(c, IF Disables(c, DisableLocalCache) THEN "done" ELSE "fill")
       \/ /\ Goto(c, IF "UnderlyingData" \in FlagsOf(c) THEN "done" ELSE "recheck")
          /\ UNCHANGED seen
       \/ /\ DistributedFault /\ "DistributedRead" \notin FlagsOf(c)
          /\ Goto(c, "failed")
          /\ UNCHANGED seen
    /\ UNCHANGED <<L1, L2, inbox, held, home, req, settled>>

FillL1(c) ==
    /\ pc[c] = "fill"
    /\ Goto(c, "done")
    /\ InsertL1(c, seen[c])
    /\ UNCHANGED <<L2, inbox, held, home, req, seen>>

(* Past the semaphore: look again, in L1 or, if that is not read, in L2;   *)
(* then run the factory, which may throw.                                  *)
Recheck(c) ==
    /\ pc[c] = "recheck"
    /\ \/ /\ IF "LocalRead" \in FlagsOf(c) THEN Holds(L2, c)
                                           ELSE Holds(L1[home[c]], c)
          /\ Goto(c, "done")
       \/ Goto(c, "putL2")
       \/ Goto(c, "failed")
    /\ UNCHANGED <<L1, L2, inbox, held, home, req, seen, settled>>

(* Here, unlike in SetAsync, either flag of a level keeps the value out of *)
(* it, and a failure of L2 ends the call before L1 is written.             *)
(* Mutant: a created value is not announced. *)
PutL2Silently(c) ==
    /\ pc[c] = "putL2"
    /\ Goto(c, "putL1")
    /\ IF Disables(c, DisableDistributedCache) THEN UNCHANGED <<L2, settled>>
                                               ELSE ChangeL2(c, c)
    /\ UNCHANGED <<L1, inbox, held, home, req, seen>>

PutL2(c) ==
    /\ pc[c] = "putL2"
    /\ IF Disables(c, DisableDistributedCache)
       THEN Goto(c, "putL1") /\ UNCHANGED <<L2, settled>>
       ELSE \/ Goto(c, "publish") /\ ChangeL2(c, c)
            \/ DistributedFault /\ Goto(c, "failed") /\ UNCHANGED <<L2, settled>>
    /\ UNCHANGED <<L1, inbox, held, home, req, seen>>

PutL1(c) ==
    /\ pc[c] = "putL1"
    /\ Goto(c, "done")
    /\ IF Disables(c, DisableLocalCache) THEN UNCHANGED <<L1, settled>>
                                         ELSE InsertL1(c, c)
    /\ UNCHANGED <<L2, inbox, held, home, req, seen>>

-----------------------------------------------------------------------------
(* Calls. *)

FirstStep(c) ==
    CASE req[c].op = "Set" -> "setL2"
      [] req[c].op = "Remove" -> "removeL1"
      [] req[c].op = "GetOrCreate" -> "getL1"

Start(c) ==
    /\ pc[c] = "idle"
    /\ Goto(c, FirstStep(c))
    /\ UNCHANGED <<L1, L2, inbox, held, home, req, seen, settled>>

CallStep(c) ==
    \/ PublishCacheUpdate(c) \/ PublishFails(c)
    \/ SetL2(c) \/ SetL1(c)
    \/ RemoveL1(c) \/ RemoveL2(c)
    \/ GetL1(c) \/ GetL2(c) \/ FillL1(c) \/ Recheck(c) \/ PutL2(c) \/ PutL1(c)

-----------------------------------------------------------------------------
(* SyncL1Callback.  A subscription runs one callback at a time; no order   *)
(* of delivery is assumed.                                                 *)

Receive(n, m) ==
    /\ CallbackIdle(n)
    /\ m \in inbox[n]
    /\ inbox' = [inbox EXCEPT ![n] = @ \ {m}]

(* Mutant: only one key of a bulk removal leaves L1. *)
CallbackRemoveOne(n, m) ==
    /\ Receive(n, m)
    /\ m.type = "Remove"
    /\ \E k \in m.keys : L1' = [L1 EXCEPT ![n][k] = Absent]
    /\ UNCHANGED <<L2, held, pc, home, req, seen, settled>>

CallbackRemove(n, m) ==
    /\ Receive(n, m)
    /\ m.type = "Remove"
    /\ L1' = [L1 EXCEPT ![n] = [k \in Keys |-> IF k \in m.keys THEN Absent ELSE L1[n][k]]]
    /\ UNCHANGED <<L2, held, pc, home, req, seen, settled>>

(* An Update carries no value: the callback reads L2 in bulk; keys that    *)
(* are not there stay out of it, and their L1 entries stay as they are.    *)
(* Mutant: the callback drops the message unread. *)
CallbackDrops(n, m) ==
    /\ Receive(n, m)
    /\ m.type = "Update"
    /\ held' = [held EXCEPT ![n] = NothingHeld]
    /\ UNCHANGED <<L1, L2, pc, home, req, seen, settled>>

CallbackRead(n, m) ==
    /\ Receive(n, m)
    /\ m.type = "Update"
    /\ held' = [held EXCEPT ![n] = [k \in Keys |-> IF k \in m.keys THEN L2[k] ELSE Absent]]
    /\ UNCHANGED <<L1, L2, pc, home, req, seen, settled>>

CallbackInsert(n) ==
    /\ ~CallbackIdle(n)
    /\ L1' = [L1 EXCEPT ![n] =
                 [k \in Keys |-> IF held[n][k] # Absent THEN held[n][k] ELSE L1[n][k]]]
    /\ held' = [held EXCEPT ![n] = NothingHeld]
    /\ UNCHANGED <<L2, inbox, pc, home, req, seen, settled>>

(* The read throws: the exception is logged and the message is gone. *)
CallbackFails(n, m) ==
    /\ DistributedFault
    /\ Receive(n, m)
    /\ m.type = "Update"
    /\ settled' = [settled EXCEPT ![n] =
                      [k \in Keys |-> settled[n][k] /\ k \notin m.keys]]
    /\ UNCHANGED <<L1, L2, held, pc, home, req, seen>>

Callback(n) ==
    \/ CallbackInsert(n)
    \/ \E m \in inbox[n] : CallbackRemove(n, m) \/ CallbackRead(n, m) \/ CallbackFails(n, m)

-----------------------------------------------------------------------------
(* The environment. *)

(* An L1 entry expires, or the local cache evicts it. *)
ExpireL1(n, k) ==
    /\ L1[n][k] # Absent
    /\ L1' = [L1 EXCEPT ![n][k] = Absent]
    /\ UNCHANGED <<L2, inbox, held, pc, home, req, seen, settled>>

(* An L2 entry expires: no node is told. *)
ExpireL2(k) ==
    /\ "expire" \in Faults
    /\ L2[k] # Absent
    /\ L2' = [L2 EXCEPT ![k] = Absent]
    /\ settled' = [n \in Nodes |-> [settled[n] EXCEPT ![k] =
                      @ /\ L1[n][k] = Absent /\ held[n][k] = Absent]]
    /\ UNCHANGED <<L1, inbox, held, pc, home, req, seen>>

(* A node stops: its L1, its subscription and its running calls are gone;  *)
(* it starts again with an empty L1 and a new subscription.                *)
Restart(n) ==
    /\ "crash" \in Faults
    /\ LET dead == {c \in Calls : home[c] = n /\ pc[c] \in Running}
       IN  /\ pc' = [c \in Calls |-> IF c \in dead THEN "failed" ELSE pc[c]]
           /\ settled' = [SettledAfterLoss({c \in dead : pc[c] = "publish"})
                              EXCEPT ![n] = [k \in Keys |-> TRUE]]
    /\ L1' = [L1 EXCEPT ![n] = NothingHeld]
    /\ inbox' = [inbox EXCEPT ![n] = {}]
    /\ held' = [held EXCEPT ![n] = NothingHeld]
    /\ UNCHANGED <<L2, home, req, seen>>

Environment ==
    \/ \E n \in Nodes : Restart(n) \/ \E k \in Keys : ExpireL1(n, k)
    \/ \E k \in Keys : ExpireL2(k)

(* Every call has ended and nothing is left to deliver. *)
Quiet ==
    /\ \A c \in Calls : pc[c] \in Ended \cup {"idle"}
    /\ \A n \in Nodes : inbox[n] = {} /\ CallbackIdle(n)

Next ==
    \/ \E c \in Calls : Start(c) \/ CallStep(c)
    \/ \E n \in Nodes : Callback(n)
    \/ Environment
    \/ Quiet /\ UNCHANGED vars

Spec == Init /\ [][Next]_vars

(* A task that was started runs on, and the topic delivers.  Whether an    *)
(* application makes a call, and whether an entry expires, is up to them.  *)
Fairness ==
    /\ \A c \in Calls : WF_vars(CallStep(c))
    /\ \A n \in Nodes : WF_vars(Callback(n))

FairSpec == Spec /\ Fairness

-----------------------------------------------------------------------------
(* Properties. *)

(* A message about k is on its way to n, or about to be published. *)
Announced(n, k, types) ==
    \/ \E m \in inbox[n] : k \in m.keys /\ m.type \in types
    \/ \E c \in Calls : /\ pc[c] = "publish" /\ home[c] # n /\ k \in KeysOf(c)
                        /\ IF req[c].op = "Remove" THEN "Remove" \in types
                                                   ELSE "Update" \in types

(* An entry of a local cache that is not the one of L2 is stale: it has a  *)
(* message coming that repairs it, or its node has a callback that is      *)
(* about to write the current entry over it - unless the node itself lost  *)
(* track in one of the ways `settled` lists.  Publishing before the change *)
(* of L2, forgetting a key of a bulk removal, or a callback that inserts   *)
(* without reading L2 again would each break it.                           *)
StaleIsAnnounced ==
    \A n \in Nodes, k \in Keys :
        settled[n][k] =>
            \/ Announced(n, k, {"Update", "Remove"})
            \/ IF held[n][k] # Absent THEN held[n][k] = L2[k]
                                      ELSE L1[n][k] \in {Absent, L2[k]}

(* A key that is in no L2 any more survives in a local cache, or in the    *)
(* hands of a callback, only as long as a Remove message is under way: an  *)
(* Update message could not take it out, because the callback leaves the   *)
(* keys it does not find in L2 alone.                                      *)
RemovalIsAnnounced ==
    \A n \in Nodes, k \in Keys :
        settled[n][k] /\ L2[k] = Absent =>
            \/ Announced(n, k, {"Remove"})
            \/ L1[n][k] = Absent /\ held[n][k] = Absent

(* No call of node n has asked for k yet. *)
Untouched(n, k) ==
    \A c \in Calls : home[c] = n /\ k \in KeysOf(c) => pc[c] = "idle"

(* Nothing about k is under way to n. *)
Drained(n, k) ==
    /\ ~Announced(n, k, {"Update", "Remove"})
    /\ held[n][k] = Absent

(* A node whose own calls leave a key alone follows the other nodes: when  *)
(* the messages about the key have been handled, its local cache has the   *)
(* entry of L2 or none, whatever the other nodes did, and in which order   *)
(* their messages came (cross-node synchronisation of SyncL1Callback).     *)
FollowersConverge ==
    Faults = {} =>
        \A n \in Nodes, k \in Keys :
            Untouched(n, k) /\ Drained(n, k) => L1[n][k] \in {Absent, L2[k]}

(* Once the application stops calling, every settled entry of a local      *)
(* cache becomes and stays the entry of L2, or is gone.                    *)
EventuallyFresh ==
    \A n \in Nodes, k \in Keys :
        <>[](settled[n][k] => L1[n][k] \in {Absent, L2[k]})

(* "L1 caches eventually consistent after Pub/Sub propagation -> All L1    *)
(* caches have same value after sync" (Docs/Test Cases.txt, MN-009).       *)
AllL1SameAfterSync ==
    Quiet => \A n1, n2 \in Nodes, k \in Keys :
                 \/ Absent \in {L1[n1][k], L1[n2][k]}
                 \/ L1[n1][k] = L1[n2][k]

=============================================================================
