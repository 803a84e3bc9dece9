------------------------------ MODULE TagKeeper ------------------------------
(***************************************************************************)
(* Invalidation by tag.  RemoveByTagAsync stamps a tag with the time; a    *)
(* cached item is invalid if a tag it carries, or the wildcard, is stamped *)
(* no earlier than the item was created.  The stamps are kept by the       *)
(* TagKeeper of every node, and as sentinel items in the distributed       *)
(* cache, where TagKeepers look up the tags they do not know.              *)
(*                                                                         *)
(* A call runs on its node home[c], and its topic message is handled by    *)
(* the callback of each other node: pc[n][c] is the progress of call c, or *)
(* of its message, on node n.  Tasks interleave between any two accesses   *)
(* to the dictionary, the wildcard field, L2 and the topic.                *)
(*                                                                         *)
(* Abstractions.  One clock for all nodes.  A reader that meets a read of  *)
(* L2 still running waits until the entry, not the very task, is settled.  *)
(***************************************************************************)
EXTENDS Integers

CONSTANTS
    Nodes,
    Tags,
    Wildcard,   \* the tag "*"
    Calls,      \* calls, each made at most once
    Requests,   \* what a call may ask for
    MaxTime,    \* bound on the clock
    Unsynced,   \* the nodes have just been started, and know no wildcard stamp
    Unknown,    \* no entry in the dictionary
    Pending,    \* a read of L2 that is still running
    Faulted,    \* a read of L2 that threw
    Faults      \* the faults the environment may inject

Sentinels == Tags \cup {Wildcard}
RequestType == [op: {"RemoveByTag", "RemoveByTags", "Check"}, tags: SUBSET Sentinels]

(* A sentinel that is not in L2 reads as long.MinValue. *)
MinValue == -1
Stamp == MinValue..MaxTime

ASSUME ConstantsAssumption ==
    /\ Wildcard \notin Tags
    /\ MaxTime \in Nat \ {0}
    /\ Unsynced \in BOOLEAN
    /\ Unknown \notin Stamp /\ Pending \notin Stamp /\ Faulted \notin Stamp
    /\ Unknown # Pending /\ Unknown # Faulted /\ Pending # Faulted
    /\ Requests \subseteq RequestType
    /\ \A r \in Requests :
        /\ r.op = "Check" => Wildcard \notin r.tags
        /\ r.op = "RemoveByTag" => \E k \in Sentinels : r.tags = {k}
        /\ r.op = "RemoveByTags" => r.tags # {}
    /\ Faults \subseteq {"distributed", "publish", "expire"}

Running == {"stamp", "set", "unset", "clear", "take", "send", "return", "publish",
            "look", "sync", "await", "compare", "scan", "write"}

(* A wildcard is unsaid if its call failed with its sentinel in L2. *)
Ended == {"done", "failed", "unsaid"}

VARIABLES
    now,        \* the clock, in milliseconds
    sentinel,   \* the sentinels of L2
    times,      \* per node: _tagInvalidationTimes and, for the wildcard,
                \* _globalInvalidationTimestamp
    pc,         \* per node: the next step of a call, or of its message
    home,       \* the node a call runs on
    req,        \* the request of a call
    left,       \* per node: what the loop of a call or message has still to do
    hand,       \* per node: the stamps a call or message has in hand
    stamp,      \* the time an invalidation took; when the item of a check was created
    invalid,    \* the verdict of a check
    before      \* history: where which calls had ended when this one started

vars == <<now, sentinel, times, pc, home, req, left, hand, stamp, invalid, before>>

EmptyHand == [k \in Sentinels |-> Unknown]

TypeOK ==
    /\ now \in 1..MaxTime
    /\ sentinel \in [Sentinels -> Stamp]
    /\ times \in [Nodes -> [Sentinels -> Stamp \cup {Unknown, Pending, Faulted}]]
    /\ pc \in [Nodes -> [Calls -> {"idle", "inbox"} \cup Running \cup Ended]]
    /\ home \in [Calls -> Nodes]
    /\ req \in [Calls -> Requests]
    /\ left \in [Nodes -> [Calls -> SUBSET Sentinels]]
    /\ hand \in [Nodes -> [Calls -> [Sentinels -> Stamp \cup {Unknown, Pending, Faulted}]]]
    /\ stamp \in [Calls -> 0..MaxTime]
    /\ invalid \in [Calls -> BOOLEAN]
    /\ before \in [Calls -> SUBSET (Nodes \X Calls)]

Init ==
    /\ now = 1
    /\ sentinel = [k \in Sentinels |-> MinValue]
    /\ times = [n \in Nodes |-> [k \in Sentinels |->
                   IF k # Wildcard THEN Unknown ELSE IF Unsynced THEN 0 ELSE MinValue]]
    /\ pc = [n \in Nodes |-> [c \in Calls |-> "idle"]]
    /\ home \in [Calls -> Nodes]
    /\ req \in [Calls -> Requests]
    /\ left = [n \in Nodes |-> [c \in Calls |-> {}]]
    /\ hand = [n \in Nodes |-> [c \in Calls |-> EmptyHand]]
    /\ stamp = [c \in Calls |-> 0]
    /\ invalid = [c \in Calls |-> FALSE]
    /\ before = [c \in Calls |-> {}]

TagsOf(c) == req[c].tags
IsCheck(c) == req[c].op = "Check"
IsWildcard(c) == req[c].op = "RemoveByTag" /\ TagsOf(c) = {Wildcard}
Marks(c) == ~IsCheck(c) /\ ~IsWildcard(c)

At(n, c, step) == pc[n][c] = step
Goto(n, c, step) == pc' = [pc EXCEPT ![n][c] = step]
Loop(n, c, keys) == left' = [left EXCEPT ![n][c] = keys]
Hold(n, c, f) == hand' = [hand EXCEPT ![n][c] = f]
Assign(n, k, v) == times' = [times EXCEPT ![n][k] = v]

(* Mutant: a read of a missing sentinel never answers. *)
ReadsOnlyFound(k) == {sentinel[k]} \ {MinValue}

(* What a read of sentinel k may come to. *)
Reads(k) == {sentinel[k]} \cup (IF "distributed" \in Faults THEN {Faulted} ELSE {})
DistributedFault == "distributed" \in Faults

-----------------------------------------------------------------------------
(* MarkTagInvalidAsync, of one tag or many, and SetWildCard. *)

Stamps(n, c) ==
    /\ At(n, c, "stamp")
    /\ Goto(n, c, "set")
    /\ stamp' = [stamp EXCEPT ![c] = now]
    /\ Hold(n, c, [k \in Sentinels |-> IF k \in TagsOf(c) THEN now ELSE Unknown])
    /\ Loop(n, c, TagsOf(c))
    /\ UNCHANGED <<now, sentinel, times, home, req, invalid, before>>

(* The tag's entry in the dictionary, or the wildcard field. *)
SetTime(n, c, k) ==
    /\ At(n, c, "set")
    /\ k \in left[n][c]
    /\ Loop(n, c, left[n][c] \ {k})
    /\ Assign(n, k, hand[n][c][k])
    /\ Goto(n, c, IF left[n][c] # {k} THEN "set" ELSE IF IsWildcard(c) THEN "unset" ELSE "send")
    /\ UNCHANGED <<now, sentinel, home, req, hand, stamp, invalid, before>>

(* The tags with an entry are listed, then their sentinels leave L2. *)
ListTags(n, c) ==
    /\ At(n, c, "unset")
    /\ left[n][c] = {}
    /\ LET known == {t \in Tags : times[n][t] # Unknown}
       IN  Loop(n, c, known) /\ Goto(n, c, IF known = {} THEN "take" ELSE "unset")
    /\ UNCHANGED <<now, sentinel, times, home, req, hand, stamp, invalid, before>>

RemoveSentinels(n, c) ==
    /\ At(n, c, "unset")
    /\ left[n][c] # {}
    /\ Loop(n, c, {})
    /\ \/ /\ sentinel' = [k \in Sentinels |->
                             IF k \in left[n][c] THEN MinValue ELSE sentinel[k]]
          /\ Goto(n, c, "clear")
       \/ DistributedFault /\ UNCHANGED sentinel /\ Goto(n, c, "failed")
    /\ UNCHANGED <<now, times, home, req, hand, stamp, invalid, before>>

(* Mutant: the tags' times are reset, not removed. *)
ResetTimes(n, c) ==
    /\ At(n, c, "clear")
    /\ times' = [times EXCEPT ![n] =
                    [k \in Sentinels |-> IF k \in Tags THEN MinValue ELSE times[n][k]]]
    /\ Goto(n, c, IF IsWildcard(c) /\ n = home[c] THEN "take" ELSE "await")
    /\ UNCHANGED <<now, sentinel, home, req, left, hand, stamp, invalid, before>>

(* _tagInvalidationTimes.Clear(), here and in SyncWildCardFromL2. *)
ClearTimes(n, c) ==
    /\ At(n, c, "clear")
    /\ times' = [times EXCEPT ![n] =
                    [k \in Sentinels |-> IF k \in Tags THEN Unknown ELSE times[n][k]]]
    /\ Goto(n, c, IF IsWildcard(c) /\ n = home[c] THEN "take" ELSE "await")
    /\ UNCHANGED <<now, sentinel, home, req, left, hand, stamp, invalid, before>>

(* Mutants: the clock is read a second time; a faulted task is not minded. *)
TakeNow(n, c) ==
    /\ At(n, c, "take")
    /\ Goto(n, c, "send")
    /\ Hold(n, c, [EmptyHand EXCEPT ![Wildcard] = now])
    /\ UNCHANGED <<now, sentinel, times, home, req, left, stamp, invalid, before>>

TakeAnything(n, c) ==
    /\ At(n, c, "take")
    /\ Goto(n, c, "send")
    /\ Hold(n, c, [EmptyHand EXCEPT ![Wildcard] = times[n][Wildcard]])
    /\ UNCHANGED <<now, sentinel, times, home, req, left, stamp, invalid, before>>

(* The wildcard sentinel gets what the field holds by now. *)
TakeWildcard(n, c) ==
    /\ At(n, c, "take")
    /\ times[n][Wildcard] # Pending
    /\ IF times[n][Wildcard] = Faulted
       THEN Goto(n, c, "failed") /\ UNCHANGED hand
       ELSE Goto(n, c, "send") /\ Hold(n, c, [EmptyHand EXCEPT ![Wildcard] = times[n][Wildcard]])
    /\ UNCHANGED <<now, sentinel, times, home, req, left, stamp, invalid, before>>

(* Mutant: the sentinels reach L2, and the call fails all the same. *)
SendThenFail(n, c) ==
    /\ At(n, c, "send")
    /\ sentinel' = [k \in Sentinels |->
                       IF k \in TagsOf(c) THEN hand[n][c][k] ELSE sentinel[k]]
    /\ Goto(n, c, IF DistributedFault THEN "failed" ELSE IF IsWildcard(c) THEN "return" ELSE "publish")
    /\ UNCHANGED <<now, times, home, req, left, hand, stamp, invalid, before>>

SendToL2(n, c) ==
    /\ At(n, c, "send")
    /\ \/ /\ sentinel' = [k \in Sentinels |->
                             IF k \in TagsOf(c) THEN hand[n][c][k] ELSE sentinel[k]]
          /\ Goto(n, c, IF IsWildcard(c) THEN "return" ELSE "publish")
       \/ DistributedFault /\ UNCHANGED sentinel /\ Goto(n, c, "failed")
    /\ UNCHANGED <<now, times, home, req, left, hand, stamp, invalid, before>>

(* SetWildCard returns the result of the task the field holds by now,      *)
(* which may be a callback's read of L2: it waits for it, or fails.        *)
Return(n, c) ==
    /\ At(n, c, "return")
    /\ times[n][Wildcard] # Pending
    /\ Goto(n, c, IF times[n][Wildcard] = Faulted THEN "unsaid" ELSE "publish")
    /\ UNCHANGED <<now, sentinel, times, home, req, left, hand, stamp, invalid, before>>

(* PublishTagInvalidation: a failure is logged and swallowed. *)
Publish(n, c) ==
    /\ At(n, c, "publish")
    /\ \/ pc' = [m \in Nodes |-> [pc[m] EXCEPT ![c] = IF m = n THEN "done" ELSE "inbox"]]
       \/ "publish" \in Faults /\ Goto(n, c, "done")
    /\ UNCHANGED <<now, sentinel, times, home, req, left, hand, stamp, invalid, before>>

-----------------------------------------------------------------------------
(* The callback of a Tag or WildCard message, and what it shares with      *)
(* IsItemInvalidatedAsync: SyncL1TagFromL2 and SyncWildCardFromL2.         *)

(* A subscription runs one callback at a time. *)
Receive(n, c) ==
    /\ At(n, c, "inbox")
    /\ \A d \in Calls : home[d] # n => pc[n][d] \notin Running
    /\ Goto(n, c, "sync")
    /\ Loop(n, c, TagsOf(c))
    /\ UNCHANGED <<now, sentinel, times, home, req, hand, stamp, invalid, before>>

(* The task that reads the sentinel may be done before it is stored ...    *)
ReadAhead(n, c, k) ==
    /\ At(n, c, "sync")
    /\ k \in left[n][c]
    /\ hand[n][c] = EmptyHand
    /\ \E v \in Reads(k) : Hold(n, c, [EmptyHand EXCEPT ![k] = v])
    /\ UNCHANGED <<now, sentinel, times, pc, home, req, left, stamp, invalid, before>>

(* ... or is stored while it runs. *)
StoreRead(n, c, k) ==
    /\ At(n, c, "sync")
    /\ k \in left[n][c]
    /\ hand[n][c] = EmptyHand \/ hand[n][c][k] # Unknown
    /\ Assign(n, k, IF hand[n][c][k] = Unknown THEN Pending ELSE hand[n][c][k])
    /\ Hold(n, c, EmptyHand)
    /\ Loop(n, c, left[n][c] \ {k})
    /\ Goto(n, c, IF k = Wildcard THEN "clear" ELSE IF left[n][c] = {k} THEN "done" ELSE "sync")
    /\ UNCHANGED <<now, sentinel, home, req, stamp, invalid, before>>

FinishRead(n, k) ==
    /\ times[n][k] = Pending
    /\ \E v \in Reads(k) : Assign(n, k, v)
    /\ UNCHANGED <<now, sentinel, pc, home, req, left, hand, stamp, invalid, before>>

AwaitWildcard(n, c) ==
    /\ At(n, c, "await")
    /\ times[n][Wildcard] # Pending
    /\ Goto(n, c, IF times[n][Wildcard] = Faulted THEN "failed"
                  ELSE IF IsCheck(c) THEN "compare" ELSE "done")
    /\ UNCHANGED <<now, sentinel, times, home, req, left, hand, stamp, invalid, before>>

-----------------------------------------------------------------------------
(* IsItemInvalidatedAsync. *)

Look(n, c) ==
    /\ At(n, c, "look")
    /\ times[n][Wildcard] # Pending
    /\ \/ times[n][Wildcard] = Faulted /\ Goto(n, c, "failed") /\ UNCHANGED left
       \/ times[n][Wildcard] = 0 /\ Goto(n, c, "sync") /\ Loop(n, c, {Wildcard})
       \/ times[n][Wildcard] \notin {0, Faulted} /\ Goto(n, c, "compare") /\ UNCHANGED left
    /\ UNCHANGED <<now, sentinel, times, home, req, hand, stamp, invalid, before>>

Verdict(c, b) == invalid' = [invalid EXCEPT ![c] = b]

(* Mutant: > for >=. *)
CoversOlder(c, v) == v \in Stamp /\ v > stamp[c]

(* The item of check c is no younger than stamp v. *)
Covers(c, v) == v \in Stamp /\ v >= stamp[c]

Compare(n, c) ==
    /\ At(n, c, "compare")
    /\ times[n][Wildcard] # Pending
    /\ Goto(n, c, IF times[n][Wildcard] = Faulted THEN "failed"
                  ELSE IF Covers(c, times[n][Wildcard]) THEN "done" ELSE "scan")
    /\ Verdict(c, Covers(c, times[n][Wildcard]))
    /\ Loop(n, c, TagsOf(c))
    /\ UNCHANGED <<now, sentinel, times, home, req, hand, stamp, before>>

(* One tag of the item: a tag with no entry is put on the search list. *)
Scan(n, c, t) ==
    /\ At(n, c, "scan")
    /\ t \in left[n][c]
    /\ times[n][t] # Pending
    /\ Loop(n, c, left[n][c] \ {t})
    /\ Hold(n, c, [hand[n][c] EXCEPT ![t] = IF times[n][t] = Unknown THEN Pending ELSE Unknown])
    /\ Goto(n, c, IF times[n][t] = Faulted THEN "failed"
                  ELSE IF Covers(c, times[n][t]) THEN "done" ELSE "scan")
    /\ Verdict(c, Covers(c, times[n][t]))
    /\ UNCHANGED <<now, sentinel, times, home, req, stamp, before>>

(* Mutant: a tag with no sentinel is remembered as never invalidated. *)
SearchAndRemember(n, c) ==
    /\ At(n, c, "scan")
    /\ left[n][c] = {}
    /\ LET wanted == {t \in Tags : hand[n][c][t] = Pending}
       IN  /\ Loop(n, c, wanted)
           /\ Hold(n, c, [k \in Sentinels |-> IF k \in wanted THEN sentinel[k] ELSE Unknown])
           /\ Goto(n, c, IF wanted = {} THEN "done" ELSE "write")
    /\ UNCHANGED <<now, sentinel, times, home, req, stamp, invalid, before>>

(* GetBulk returns the sentinels it finds. *)
Search(n, c) ==
    /\ At(n, c, "scan")
    /\ left[n][c] = {}
    /\ LET found == {t \in Tags : hand[n][c][t] = Pending /\ sentinel[t] # MinValue}
       IN  \/ /\ Loop(n, c, found)
              /\ Hold(n, c, [k \in Sentinels |-> IF k \in found THEN sentinel[k] ELSE Unknown])
              /\ Goto(n, c, IF found = {} THEN "done" ELSE "write")
           \/ /\ DistributedFault
              /\ Pending \in {hand[n][c][t] : t \in Tags}
              /\ Goto(n, c, "failed")
              /\ UNCHANGED <<left, hand>>
    /\ UNCHANGED <<now, sentinel, times, home, req, stamp, invalid, before>>

(* What was found goes into the dictionary, whatever is there by now. *)
WriteFound(n, c, t) ==
    /\ At(n, c, "write")
    /\ t \in left[n][c]
    /\ Loop(n, c, left[n][c] \ {t})
    /\ Assign(n, t, hand[n][c][t])
    /\ Verdict(c, invalid[c] \/ Covers(c, hand[n][c][t]))
    /\ Goto(n, c, IF left[n][c] = {t} THEN "done" ELSE "write")
    /\ UNCHANGED <<now, sentinel, home, req, hand, stamp, before>>

-----------------------------------------------------------------------------
(* A bulk request with the wildcard is refused by ValidateTagNames; the    *)
(* item of a check was created at any time before.                         *)
Start(c) ==
    /\ At(home[c], c, "idle")
    /\ Goto(home[c], c, IF IsCheck(c) THEN "look"
                        ELSE IF Marks(c) /\ Wildcard \in TagsOf(c) THEN "failed" ELSE "stamp")
    /\ IF IsCheck(c) THEN \E ts \in 1..now : stamp' = [stamp EXCEPT ![c] = ts]
                     ELSE UNCHANGED stamp
    /\ before' = [before EXCEPT ![c] = {a \in Nodes \X Calls : pc[a[1]][a[2]] = "done"}]
    /\ UNCHANGED <<now, sentinel, times, home, req, left, hand, invalid>>

Tick ==
    /\ now < MaxTime
    /\ now' = now + 1
    /\ UNCHANGED <<sentinel, times, pc, home, req, left, hand, stamp, invalid, before>>

(* A sentinel expires with the distributed entries. *)
ExpireSentinel(k) ==
    /\ "expire" \in Faults
    /\ sentinel[k] # MinValue
    /\ sentinel' = [sentinel EXCEPT ![k] = MinValue]
    /\ UNCHANGED <<now, times, pc, home, req, left, hand, stamp, invalid, before>>

RemoveStep(n, c) ==
    \/ Stamps(n, c) \/ ListTags(n, c) \/ RemoveSentinels(n, c)
    \/ TakeWildcard(n, c) \/ SendToL2(n, c) \/ Return(n, c) \/ Publish(n, c)
    \/ \E k \in Sentinels : SetTime(n, c, k)

SyncStep(n, c) ==
    \/ Receive(n, c) \/ ClearTimes(n, c) \/ AwaitWildcard(n, c)
    \/ \E k \in Sentinels : ReadAhead(n, c, k) \/ StoreRead(n, c, k)

CheckStep(n, c) ==
    \/ Look(n, c) \/ Compare(n, c) \/ Search(n, c)
    \/ \E t \in Tags : Scan(n, c, t) \/ WriteFound(n, c, t)

Step(n, c) == RemoveStep(n, c) \/ SyncStep(n, c) \/ CheckStep(n, c)

(* Nothing runs and nothing is left to deliver. *)
Quiet ==
    \A n \in Nodes :
        /\ \A c \in Calls : pc[n][c] \in Ended \cup {"idle"}
        /\ \A k \in Sentinels : times[n][k] # Pending

Next ==
    \/ \E c \in Calls : Start(c)
    \/ \E n \in Nodes, c \in Calls : Step(n, c)
    \/ \E n \in Nodes, k \in Sentinels : FinishRead(n, k)
    \/ \E k \in Sentinels : ExpireSentinel(k)
    \/ Tick
    \/ Quiet /\ UNCHANGED vars

Spec == Init /\ [][Next]_vars

(* A task that was started runs on, and the topic delivers. *)
FairSpec ==
    /\ Spec
    /\ \A n \in Nodes, c \in Calls : WF_vars(Step(n, c))
    /\ \A n \in Nodes, k \in Sentinels : WF_vars(FinishRead(n, k))

-----------------------------------------------------------------------------
(* Properties. *)

Checked(d) == IsCheck(d) /\ At(home[d], d, "done")

(* "Verify items without the invalidated tag remain valid" (Docs/Test      *)
(* Cases.txt, TAG-005): an item is found invalid only if an invalidation   *)
(* of one of its tags, or of all, took a stamp no earlier than its         *)
(* creation - whatever was read, overwritten, cleared or lost on the way.  *)
OnlyMarkedIsInvalid ==
    \A d \in Calls : IsCheck(d) /\ invalid[d] =>
        \E c \in Calls : /\ ~IsCheck(c) /\ stamp[c] >= stamp[d]
                        /\ \/ IsWildcard(c)
                           \/ TagsOf(c) \cap TagsOf(d) # {}

MarksOf(t) == {c \in Calls : Marks(c) /\ t \in TagsOf(c)}
Wildcards == {c \in Calls : IsWildcard(c)}

(* The item of check d is older than all invalidations of C so far. *)
OlderThanAll(d, C) == \A e \in C : stamp[e] # 0 => stamp[d] <= stamp[e]

(* Since the tag is first invalidated, no wildcard is under way: all that  *)
(* took a stamp had returned before an invalidation of the tag began.      *)
WildcardsFirst(t) ==
    \A w \in Wildcards, a \in MarksOf(t) :
        stamp[w] # 0 /\ stamp[a] # 0 => <<home[w], w>> \in before[a]

(* Once RemoveByTagAsync has returned, no node, old or new, takes an item  *)
(* older than all invalidations of the tag for valid, in whatever order    *)
(* concurrent invalidations reached L2 and the dictionaries.  A wildcard   *)
(* takes sentinels away, newer ones included, and a message of the tag     *)
(* that is handled meanwhile leaves its node with MinValue, which even an  *)
(* invalidation begun later does not mend if its message is lost: the tags *)
(* first invalidated when all wildcards had returned are safe from it.     *)
InvalidationHolds ==
    "expire" \notin Faults =>
        \A t \in Tags : \A c \in MarksOf(t), d \in Calls :
            /\ WildcardsFirst(t) /\ <<home[c], c>> \in before[d]
            /\ Checked(d) /\ t \in TagsOf(d) /\ OlderThanAll(d, MarksOf(t))
            => invalid[d]

(* The same for the wildcard, on its own node and on the nodes that have   *)
(* handled its message, if those had synchronised the wildcard before: at  *)
(* start-up the first check may overwrite the field with what it read.     *)
WildcardHolds ==
    "expire" \notin Faults /\ ~Unsynced =>
        \A c \in Wildcards, d \in Calls :
            /\ <<home[d], c>> \in before[d]
            /\ Checked(d) /\ OlderThanAll(d, Wildcards)
            => invalid[d]

(* MarkTagInvalidAsync stamps its own dictionary before it writes L2: when *)
(* L2 fails, the call throws, and yet its own node finds items invalid.    *)
(* But no other node does, unless an invalidation of that tag on the same  *)
(* node has brought a stamp to L2 - and that may be a wildcard that fails  *)
(* all the same: when the field holds a read of L2 that threw, SetWildCard *)
(* throws at its return statement, after its sentinel is written.          *)
FailureStaysHome ==
    \A d \in Calls : IsCheck(d) /\ invalid[d] =>
        \E k \in TagsOf(d) \cup {Wildcard}, c \in Calls :
            /\ ~IsCheck(c) /\ k \in TagsOf(c) /\ stamp[c] >= stamp[d]
            /\ \/ home[c] = home[d]
               \/ \E e \in Calls : /\ ~IsCheck(e) /\ k \in TagsOf(e) /\ home[e] = home[c]
                                   /\ \/ pc[home[e]][e] \in {"publish", "done"}
                                      \/ IsWildcard(e) /\ pc[home[e]][e] \in {"return", "unsaid"}

(* Calls and callbacks end, although they block on tasks that read L2, and *)
(* which others may have started: all of them, and the reads, come to rest.*)
EveryCallEnds == []<>Quiet

=============================================================================
