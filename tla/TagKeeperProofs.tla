--------------------------- MODULE TagKeeperProofs ---------------------------
(***************************************************************************)
(* Theorems about TagKeeper, for any nodes, tags, calls, requests, bound   *)
(* on the clock and faults.                                                *)
(*                                                                         *)
(* No stamp comes from nowhere: whatever is in L2, in a dictionary or in   *)
(* the hands of a task was once taken by an invalidation of that tag       *)
(* (Provenance).  The rest of the invariant is what this needs of the      *)
(* control flow: what a task has in hand when it writes, and that checks   *)
(* and refused bulks never reach the steps of an invalidation.             *)
(***************************************************************************)
EXTENDS TagKeeper, TLAPS

(* An invalidation of k has taken stamp v or a later one. *)
Caused(k, v) == \E e \in Calls : ~IsCheck(e) /\ k \in TagsOf(e) /\ stamp[e] >= v

(* A stamp of k has a cause; 0 and MinValue are not stamps of anything. *)
Founded(k, v) == v \in Stamp /\ v >= 1 => Caused(k, v)

Provenance ==
    \A k \in Sentinels :
        /\ Founded(k, sentinel[k])
        /\ \A n \in Nodes : /\ Founded(k, times[n][k])
                            /\ \A c \in Calls : Founded(k, hand[n][c][k])

(* Stamps are taken from the clock. *)
StampsPast == \A c \in Calls : stamp[c] <= now

CheckSteps == {"idle", "look", "sync", "clear", "await", "compare", "scan", "write",
               "done", "failed"}

(* A check runs on its own node, and has no verdict before it starts. *)
ChecksAtHome ==
    \A c \in Calls : IsCheck(c) =>
        /\ \A n \in Nodes : pc[n][c] \in CheckSteps /\ (n # home[c] => pc[n][c] = "idle")
        /\ IF pc[home[c]][c] = "idle" THEN ~invalid[c] ELSE stamp[c] >= 1

(* A bulk with the wildcard never takes a stamp. *)
RefusedBulks ==
    \A c \in Calls : req[c].op = "RemoveByTags" /\ Wildcard \in TagsOf(c) =>
        stamp[c] = 0 /\ \A n \in Nodes : pc[n][c] \in {"idle", "failed"}

(* What task c on node n is about to write is a stamp of its own tags. *)
InHand(n, c) ==
    /\ pc[n][c] \in {"unset", "take"} => IsWildcard(c)
    /\ pc[n][c] \in {"set", "scan", "write"} => left[n][c] \subseteq TagsOf(c)
    /\ pc[n][c] \in {"set", "send"} => \A k \in TagsOf(c) : hand[n][c][k] \in Stamp
    /\ \A t \in Tags : hand[n][c][t] = Pending => t \in TagsOf(c)

AllInHand == \A n \in Nodes, c \in Calls : InHand(n, c)

WildcardKnown == \A n \in Nodes : times[n][Wildcard] # Unknown

Control == ChecksAtHome /\ RefusedBulks /\ AllInHand /\ WildcardKnown

IInv == TypeOK /\ StampsPast /\ Control /\ Provenance
Value == Stamp \cup {Unknown, Pending, Faulted}

-----------------------------------------------------------------------------
(* Types. *)

LEMMA RequestFacts ==
    ASSUME TypeOK, NEW c \in Calls
    PROVE  /\ req[c].op \in {"RemoveByTag", "RemoveByTags", "Check"}
           /\ TagsOf(c) \subseteq Sentinels
           /\ IsCheck(c) => Wildcard \notin TagsOf(c)
           /\ IsWildcard(c) => ~IsCheck(c) /\ TagsOf(c) = {Wildcard}
           /\ req[c].op = "RemoveByTag" /\ Wildcard \in TagsOf(c) => IsWildcard(c)
<1>1. req[c] \in Requests /\ req[c] \in RequestType
    BY ConstantsAssumption DEF TypeOK
<1> QED
    BY <1>1, ConstantsAssumption DEF RequestType, TagsOf, IsCheck, IsWildcard

LEMMA StampFacts ==
    /\ MinValue \in Stamp /\ 0 \in Stamp /\ Stamp \subseteq Int
    /\ \A t \in 0..MaxTime : t \in Stamp
    /\ Unknown \notin Stamp /\ Pending \notin Stamp /\ Faulted \notin Stamp
    /\ Unknown # Pending /\ Unknown # Faulted /\ Pending # Faulted
BY ConstantsAssumption DEF Stamp, MinValue

LEMMA InitTypeOK == Init => TypeOK
<1> SUFFICES ASSUME Init PROVE TypeOK
    OBVIOUS
<1>1. EmptyHand \in [Sentinels -> Value]
    BY DEF EmptyHand, Value
<1>2. times \in [Nodes -> [Sentinels -> Value]]
    BY StampFacts DEF Init, Value
<1>3. now \in 1..MaxTime
    BY ConstantsAssumption DEF Init
<1> QED
    BY <1>1, <1>2, <1>3, StampFacts, ConstantsAssumption DEF Init, TypeOK, Value

LEMMA GotoType ==
    ASSUME TypeOK, NEW n \in Nodes, NEW c \in Calls,
           NEW s \in {"idle", "inbox"} \cup Running \cup Ended, Goto(n, c, s)
    PROVE  pc' \in [Nodes -> [Calls -> {"idle", "inbox"} \cup Running \cup Ended]]
BY DEF TypeOK, Goto

LEMMA LoopType ==
    ASSUME TypeOK, NEW n \in Nodes, NEW c \in Calls,
           NEW S \in SUBSET Sentinels, Loop(n, c, S)
    PROVE  left' \in [Nodes -> [Calls -> SUBSET Sentinels]]
BY DEF TypeOK, Loop

LEMMA HoldType ==
    ASSUME TypeOK, NEW n \in Nodes, NEW c \in Calls,
           NEW f \in [Sentinels -> Value], Hold(n, c, f)
    PROVE  hand' \in [Nodes -> [Calls -> [Sentinels -> Value]]]
BY DEF TypeOK, Hold, Value

LEMMA AssignType ==
    ASSUME TypeOK, NEW n \in Nodes, NEW k \in Sentinels, NEW v \in Value, Assign(n, k, v)
    PROVE  times' \in [Nodes -> [Sentinels -> Value]]
BY DEF TypeOK, Assign, Value

LEMMA RemoveStepTypeOK ==
    ASSUME TypeOK, AllInHand, WildcardKnown, NEW n \in Nodes, NEW c \in Calls, RemoveStep(n, c)
    PROVE  TypeOK'
<1> USE RequestFacts DEF Running, Ended
<1>t. /\ hand[n][c] \in [Sentinels -> Value] /\ times[n] \in [Sentinels -> Value]
      /\ now \in Stamp /\ now \in 0..MaxTime /\ InHand(n, c)
    BY StampFacts DEF TypeOK, Value, AllInHand
<1>1. CASE Stamps(n, c)
    <2>1. [k \in Sentinels |-> IF k \in TagsOf(c) THEN now ELSE Unknown] \in [Sentinels -> Value]
        BY <1>t DEF Value
    <2>2. hand' \in [Nodes -> [Calls -> [Sentinels -> Value]]]
        BY <1>1, <2>1, HoldType DEF Stamps
    <2>3. left' \in [Nodes -> [Calls -> SUBSET Sentinels]]
        BY <1>1, LoopType DEF Stamps
    <2>4. pc' \in [Nodes -> [Calls -> {"idle", "inbox"} \cup Running \cup Ended]]
        BY <1>1, GotoType DEF Stamps
    <2> QED
        BY <1>1, <1>t, <2>2, <2>3, <2>4 DEF Stamps, TypeOK, Value
<1>2. ASSUME NEW k \in Sentinels, SetTime(n, c, k)
      PROVE  TypeOK'
    <2>1. times' \in [Nodes -> [Sentinels -> Value]]
        BY <1>2, <1>t, AssignType DEF SetTime
    <2>2. left' \in [Nodes -> [Calls -> SUBSET Sentinels]]
        BY <1>2, LoopType DEF SetTime, TypeOK
    <2>3. pc' \in [Nodes -> [Calls -> {"idle", "inbox"} \cup Running \cup Ended]]
        BY <1>2, GotoType DEF SetTime
    <2> QED
        BY <1>2, <2>1, <2>2, <2>3 DEF SetTime, TypeOK, Value
<1>3. CASE ListTags(n, c)
    <2>1. left' \in [Nodes -> [Calls -> SUBSET Sentinels]]
        BY <1>3, LoopType DEF ListTags, Sentinels
    <2>2. pc' \in [Nodes -> [Calls -> {"idle", "inbox"} \cup Running \cup Ended]]
        BY <1>3, GotoType DEF ListTags
    <2> QED
        BY <1>3, <2>1, <2>2 DEF ListTags, TypeOK
<1>4. CASE RemoveSentinels(n, c)
    <2>1. sentinel' \in [Sentinels -> Stamp]
        BY <1>4, StampFacts DEF RemoveSentinels, TypeOK
    <2>2. left' \in [Nodes -> [Calls -> SUBSET Sentinels]]
        BY <1>4, LoopType DEF RemoveSentinels
    <2>3. pc' \in [Nodes -> [Calls -> {"idle", "inbox"} \cup Running \cup Ended]]
        BY <1>4, GotoType DEF RemoveSentinels
    <2> QED
        BY <1>4, <2>1, <2>2, <2>3 DEF RemoveSentinels, TypeOK
<1>5. CASE TakeWildcard(n, c)
    <2>1. [EmptyHand EXCEPT ![Wildcard] = times[n][Wildcard]] \in [Sentinels -> Value]
        BY <1>t DEF EmptyHand, Sentinels, Value
    <2>2. hand' \in [Nodes -> [Calls -> [Sentinels -> Value]]]
        BY <1>5, <2>1, HoldType DEF TakeWildcard, TypeOK, Value
    <2>3. pc' \in [Nodes -> [Calls -> {"idle", "inbox"} \cup Running \cup Ended]]
        BY <1>5, GotoType DEF TakeWildcard
    <2> QED
        BY <1>5, <2>2, <2>3 DEF TakeWildcard, TypeOK, Value
<1>6. CASE SendToL2(n, c)
    <2>1. sentinel' \in [Sentinels -> Stamp]
        BY <1>6, <1>t DEF SendToL2, InHand, At, TypeOK
    <2>2. pc' \in [Nodes -> [Calls -> {"idle", "inbox"} \cup Running \cup Ended]]
        BY <1>6, GotoType DEF SendToL2
    <2> QED
        BY <1>6, <2>1, <2>2 DEF SendToL2, TypeOK
<1>7. CASE Publish(n, c)
    <2>1. pc' \in [Nodes -> [Calls -> {"idle", "inbox"} \cup Running \cup Ended]]
        <3>1. CASE Goto(n, c, "done")
            BY <3>1, GotoType
        <3>2. CASE pc' = [m \in Nodes |-> [pc[m] EXCEPT ![c] = IF m = n THEN "done" ELSE "inbox"]]
            <4>1. ASSUME NEW m \in Nodes
                  PROVE  pc'[m] \in [Calls -> {"idle", "inbox"} \cup Running \cup Ended]
                BY <3>2 DEF TypeOK
            <4> QED
                BY <3>2, <4>1
        <3> QED
            BY <1>7, <3>1, <3>2 DEF Publish
    <2> QED
        BY <1>7, <2>1 DEF Publish, TypeOK
<1>8. CASE Return(n, c)
    <2>1. pc' \in [Nodes -> [Calls -> {"idle", "inbox"} \cup Running \cup Ended]]
        BY <1>8, GotoType DEF Return
    <2> QED
        BY <1>8, <2>1 DEF Return, TypeOK
<1> QED
    BY <1>1, <1>2, <1>3, <1>4, <1>5, <1>6, <1>7, <1>8 DEF RemoveStep

LEMMA SyncStepTypeOK ==
    ASSUME TypeOK, NEW n \in Nodes, NEW c \in Calls, SyncStep(n, c)
    PROVE  TypeOK'
<1> USE RequestFacts DEF Running, Ended
<1>t. /\ hand[n][c] \in [Sentinels -> Value] /\ times[n] \in [Sentinels -> Value]
      /\ left[n][c] \subseteq Sentinels /\ EmptyHand \in [Sentinels -> Value]
      /\ \A k \in Sentinels : Reads(k) \subseteq Value
    BY DEF TypeOK, Value, EmptyHand, Reads
<1>1. CASE Receive(n, c)
    <2>1. left' \in [Nodes -> [Calls -> SUBSET Sentinels]]
        BY <1>1, LoopType DEF Receive
    <2>2. pc' \in [Nodes -> [Calls -> {"idle", "inbox"} \cup Running \cup Ended]]
        BY <1>1, GotoType DEF Receive
    <2> QED
        BY <1>1, <2>1, <2>2 DEF Receive, TypeOK
<1>2. CASE ClearTimes(n, c)
    <2>1. times' \in [Nodes -> [Sentinels -> Value]]
        BY <1>2, <1>t DEF ClearTimes, TypeOK, Value
    <2>2. pc' \in [Nodes -> [Calls -> {"idle", "inbox"} \cup Running \cup Ended]]
        BY <1>2, GotoType DEF ClearTimes
    <2> QED
        BY <1>2, <2>1, <2>2 DEF ClearTimes, TypeOK, Value
<1>3. CASE AwaitWildcard(n, c)
    <2>1. pc' \in [Nodes -> [Calls -> {"idle", "inbox"} \cup Running \cup Ended]]
        BY <1>3, GotoType DEF AwaitWildcard
    <2> QED
        BY <1>3, <2>1 DEF AwaitWildcard, TypeOK
<1>4. ASSUME NEW k \in Sentinels, ReadAhead(n, c, k)
      PROVE  TypeOK'
    <2>1. PICK v \in Reads(k) : Hold(n, c, [EmptyHand EXCEPT ![k] = v])
        BY <1>4 DEF ReadAhead
    <2>2. [EmptyHand EXCEPT ![k] = v] \in [Sentinels -> Value]
        BY <1>t, <2>1
    <2>3. hand' \in [Nodes -> [Calls -> [Sentinels -> Value]]]
        BY <2>1, <2>2, HoldType
    <2> QED
        BY <1>4, <2>3 DEF ReadAhead, TypeOK, Value
<1>5. ASSUME NEW k \in Sentinels, StoreRead(n, c, k)
      PROVE  TypeOK'
    <2>1. times' \in [Nodes -> [Sentinels -> Value]]
        <3>1. (IF hand[n][c][k] = Unknown THEN Pending ELSE hand[n][c][k]) \in Value
            BY <1>t DEF Value
        <3> QED
            BY <1>5, <3>1, AssignType DEF StoreRead
    <2>2. hand' \in [Nodes -> [Calls -> [Sentinels -> Value]]]
        BY <1>5, <1>t, HoldType DEF StoreRead
    <2>3. left' \in [Nodes -> [Calls -> SUBSET Sentinels]]
        BY <1>5, <1>t, LoopType DEF StoreRead
    <2>4. pc' \in [Nodes -> [Calls -> {"idle", "inbox"} \cup Running \cup Ended]]
        BY <1>5, GotoType DEF StoreRead
    <2> QED
        BY <1>5, <2>1, <2>2, <2>3, <2>4 DEF StoreRead, TypeOK, Value
<1> QED
    BY <1>1, <1>2, <1>3, <1>4, <1>5 DEF SyncStep

LEMMA CheckStepTypeOK ==
    ASSUME TypeOK, NEW n \in Nodes, NEW c \in Calls, CheckStep(n, c)
    PROVE  TypeOK'
<1> USE RequestFacts DEF Running, Ended
<1>t. /\ hand[n][c] \in [Sentinels -> Value] /\ times[n] \in [Sentinels -> Value]
      /\ left[n][c] \subseteq Sentinels
    BY DEF TypeOK, Value
<1>s. Tags \subseteq Sentinels /\ Wildcard \in Sentinels
    BY DEF Sentinels
<1>v. ASSUME NEW b \in BOOLEAN, Verdict(c, b)
      PROVE  invalid' \in [Calls -> BOOLEAN]
    BY <1>v DEF Verdict, TypeOK
<1>c. \A v : Covers(c, v) \in BOOLEAN
    BY DEF Covers
<1>1. CASE Look(n, c)
    <2>1. left' \in [Nodes -> [Calls -> SUBSET Sentinels]]
        BY <1>1, <1>s, LoopType DEF Look, TypeOK
    <2>2. pc' \in [Nodes -> [Calls -> {"idle", "inbox"} \cup Running \cup Ended]]
        BY <1>1, GotoType DEF Look
    <2> QED
        BY <1>1, <2>1, <2>2 DEF Look, TypeOK
<1>2. CASE Compare(n, c)
    <2>1. left' \in [Nodes -> [Calls -> SUBSET Sentinels]]
        BY <1>2, <1>t, <1>s, LoopType DEF Compare
    <2>2. pc' \in [Nodes -> [Calls -> {"idle", "inbox"} \cup Running \cup Ended]]
        BY <1>2, GotoType DEF Compare
    <2>3. invalid' \in [Calls -> BOOLEAN]
        BY <1>2, <1>v, <1>c DEF Compare
    <2> QED
        BY <1>2, <2>1, <2>2, <2>3 DEF Compare, TypeOK
<1>3. CASE Search(n, c)
    <2> DEFINE found == {t \in Tags : hand[n][c][t] = Pending /\ sentinel[t] # MinValue}
               f == [k \in Sentinels |-> IF k \in found THEN sentinel[k] ELSE Unknown]
    <2>1. f \in [Sentinels -> Value]
        BY DEF TypeOK, Value
    <2>2. \/ /\ Loop(n, c, found) /\ Hold(n, c, f)
             /\ Goto(n, c, IF found = {} THEN "done" ELSE "write")
          \/ Goto(n, c, "failed") /\ UNCHANGED <<left, hand>>
        BY <1>3 DEF Search
    <2>3. hand' \in [Nodes -> [Calls -> [Sentinels -> Value]]]
        BY <2>1, <2>2, HoldType DEF TypeOK, Value
    <2>4. left' \in [Nodes -> [Calls -> SUBSET Sentinels]]
        BY <1>t, <1>s, <2>2, LoopType DEF TypeOK
    <2>5. pc' \in [Nodes -> [Calls -> {"idle", "inbox"} \cup Running \cup Ended]]
        BY <2>2, GotoType
    <2> QED
        BY <1>3, <2>3, <2>4, <2>5 DEF Search, TypeOK, Value
<1>4. ASSUME NEW t \in Tags, Scan(n, c, t)
      PROVE  TypeOK'
    <2>1. hand' \in [Nodes -> [Calls -> [Sentinels -> Value]]]
        BY <1>4, <1>t, <1>s, HoldType DEF Scan, Value
    <2>2. left' \in [Nodes -> [Calls -> SUBSET Sentinels]]
        BY <1>4, <1>t, <1>s, LoopType DEF Scan
    <2>3. pc' \in [Nodes -> [Calls -> {"idle", "inbox"} \cup Running \cup Ended]]
        BY <1>4, GotoType DEF Scan
    <2>4. invalid' \in [Calls -> BOOLEAN]
        BY <1>4, <1>v, <1>c DEF Scan
    <2> QED
        BY <1>4, <2>1, <2>2, <2>3, <2>4 DEF Scan, TypeOK, Value
<1>5. ASSUME NEW t \in Tags, WriteFound(n, c, t)
      PROVE  TypeOK'
    <2>1. times' \in [Nodes -> [Sentinels -> Value]]
        BY <1>5, <1>t, <1>s, AssignType DEF WriteFound
    <2>2. left' \in [Nodes -> [Calls -> SUBSET Sentinels]]
        BY <1>5, <1>t, <1>s, LoopType DEF WriteFound
    <2>3. pc' \in [Nodes -> [Calls -> {"idle", "inbox"} \cup Running \cup Ended]]
        BY <1>5, GotoType DEF WriteFound
    <2>4. invalid' \in [Calls -> BOOLEAN]
        BY <1>5, <1>v DEF WriteFound, TypeOK
    <2> QED
        BY <1>5, <2>1, <2>2, <2>3, <2>4 DEF WriteFound, TypeOK, Value
<1> QED
    BY <1>1, <1>2, <1>3, <1>4, <1>5 DEF CheckStep

(* The steps that are no task's: Start, FinishRead, Tick, ExpireSentinel. *)
LEMMA OtherStepTypeOK ==
    ASSUME TypeOK,
           \/ \E c \in Calls : Start(c)
           \/ \E n \in Nodes, k \in Sentinels : FinishRead(n, k)
           \/ Tick \/ \E k \in Sentinels : ExpireSentinel(k)
           \/ UNCHANGED vars
    PROVE  TypeOK'
<1>1. ASSUME NEW c \in Calls, Start(c)
      PROVE  TypeOK'
    <2>1. home[c] \in Nodes
        BY DEF TypeOK
    <2>2. pc' \in [Nodes -> [Calls -> {"idle", "inbox"} \cup Running \cup Ended]]
        BY <1>1, <2>1, GotoType DEF Start, Running, Ended
    <2>3. stamp' \in [Calls -> 0..MaxTime]
        <3>1. CASE UNCHANGED stamp
            BY <3>1 DEF TypeOK
        <3>2. ASSUME NEW ts \in 1..now, stamp' = [stamp EXCEPT ![c] = ts]
              PROVE  stamp' \in [Calls -> 0..MaxTime]
            <4>1. ts \in 0..MaxTime
                BY ConstantsAssumption DEF TypeOK
            <4> QED
                BY <3>2, <4>1 DEF TypeOK
        <3> QED
            BY <1>1, <3>1, <3>2 DEF Start
    <2>4. before' \in [Calls -> SUBSET (Nodes \X Calls)]
        BY <1>1 DEF Start, TypeOK
    <2> QED
        BY <1>1, <2>2, <2>3, <2>4 DEF Start, TypeOK
<1>2. ASSUME NEW n \in Nodes, NEW k \in Sentinels, FinishRead(n, k)
      PROVE  TypeOK'
    <2>1. times' \in [Nodes -> [Sentinels -> Value]]
        <3>1. Reads(k) \subseteq Value
            BY DEF Reads, TypeOK, Value
        <3> QED
            BY <1>2, <3>1, AssignType DEF FinishRead
    <2> QED
        BY <1>2, <2>1 DEF FinishRead, TypeOK, Value
<1>3. CASE Tick
    BY <1>3, ConstantsAssumption DEF Tick, TypeOK
<1>4. ASSUME NEW k \in Sentinels, ExpireSentinel(k)
      PROVE  TypeOK'
    BY <1>4, StampFacts DEF ExpireSentinel, TypeOK
<1>5. CASE UNCHANGED vars
    BY <1>5 DEF vars, TypeOK
<1> QED
    BY <1>1, <1>2, <1>3, <1>4, <1>5

LEMMA NextTypeOK == TypeOK /\ AllInHand /\ WildcardKnown /\ [Next]_vars => TypeOK'
BY RemoveStepTypeOK, SyncStepTypeOK, CheckStepTypeOK, OtherStepTypeOK DEF Next, Step

-----------------------------------------------------------------------------
(* Control. *)

(* What the updates of one task leave alone. *)
LEMMA Updates ==
    ASSUME TypeOK, NEW n \in Nodes, NEW c \in Calls
    PROVE  /\ \A s : Goto(n, c, s) =>
                  /\ pc'[n][c] = s
                  /\ \A m \in Nodes, d \in Calls : m # n \/ d # c => pc'[m][d] = pc[m][d]
           /\ \A S : Loop(n, c, S) =>
                  /\ left'[n][c] = S
                  /\ \A m \in Nodes, d \in Calls : m # n \/ d # c => left'[m][d] = left[m][d]
           /\ \A f : Hold(n, c, f) =>
                  /\ hand'[n][c] = f
                  /\ \A m \in Nodes, d \in Calls : m # n \/ d # c => hand'[m][d] = hand[m][d]
<1>1. ASSUME NEW s, Goto(n, c, s)
      PROVE  /\ pc'[n][c] = s
             /\ \A m \in Nodes, d \in Calls : m # n \/ d # c => pc'[m][d] = pc[m][d]
    BY <1>1 DEF Goto, TypeOK
<1>2. ASSUME NEW S, Loop(n, c, S)
      PROVE  /\ left'[n][c] = S
             /\ \A m \in Nodes, d \in Calls : m # n \/ d # c => left'[m][d] = left[m][d]
    BY <1>2 DEF Loop, TypeOK
<1>3. ASSUME NEW f, Hold(n, c, f)
      PROVE  /\ hand'[n][c] = f
             /\ \A m \in Nodes, d \in Calls : m # n \/ d # c => hand'[m][d] = hand[m][d]
    BY <1>3 DEF Hold, TypeOK
<1> QED
    BY <1>1, <1>2, <1>3

LEMMA AssignUpdate ==
    ASSUME TypeOK, NEW n \in Nodes, NEW k \in Sentinels, NEW v, Assign(n, k, v)
    PROVE  /\ times'[n][k] = v
           /\ \A m \in Nodes, j \in Sentinels : m # n \/ j # k => times'[m][j] = times[m][j]
BY DEF Assign, TypeOK

(* Another task is left alone, but for a message that reaches its node. *)
LEMMA Frame ==
    ASSUME TypeOK, NEW n \in Nodes, NEW c \in Calls, Step(n, c),
           NEW m \in Nodes, NEW d \in Calls, m # n \/ d # c
    PROVE  /\ \/ pc'[m][d] = pc[m][d]
              \/ d = c /\ pc[n][c] = "publish" /\ pc'[m][d] = "inbox"
           /\ left'[m][d] = left[m][d]
           /\ hand'[m][d] = hand[m][d]
<1> USE Updates DEF At
<1>1. CASE Stamps(n, c)
    BY <1>1 DEF Stamps
<1>2. ASSUME NEW k \in Sentinels, SetTime(n, c, k) \/ ReadAhead(n, c, k) \/ StoreRead(n, c, k)
      PROVE  pc'[m][d] = pc[m][d] /\ left'[m][d] = left[m][d] /\ hand'[m][d] = hand[m][d]
    <2>1. CASE SetTime(n, c, k)
        BY <2>1 DEF SetTime
    <2>2. CASE ReadAhead(n, c, k)
        BY <2>2 DEF ReadAhead
    <2>3. CASE StoreRead(n, c, k)
        BY <2>3 DEF StoreRead
    <2> QED
        BY <1>2, <2>1, <2>2, <2>3
<1>3. CASE \/ ListTags(n, c) \/ RemoveSentinels(n, c) \/ TakeWildcard(n, c)
           \/ SendToL2(n, c) \/ Return(n, c)
    BY <1>3 DEF ListTags, RemoveSentinels, TakeWildcard, SendToL2, Return
<1>4. CASE Publish(n, c)
    <2>1. CASE Goto(n, c, "done")
        BY <1>4, <2>1 DEF Publish
    <2>2. CASE pc' = [x \in Nodes |-> [pc[x] EXCEPT ![c] = IF x = n THEN "done" ELSE "inbox"]]
        <3>1. pc'[m] = [pc[m] EXCEPT ![c] = IF m = n THEN "done" ELSE "inbox"]
            BY <2>2
        <3>2. pc'[m][d] = IF d # c THEN pc[m][d] ELSE IF m = n THEN "done" ELSE "inbox"
            BY <3>1 DEF TypeOK
        <3> QED
            BY <1>4, <3>2 DEF Publish
    <2> QED
        BY <1>4, <2>1, <2>2 DEF Publish
<1>5. CASE Receive(n, c) \/ ClearTimes(n, c) \/ AwaitWildcard(n, c)
    BY <1>5 DEF Receive, ClearTimes, AwaitWildcard
<1>6. CASE Look(n, c) \/ Compare(n, c) \/ Search(n, c)
    BY <1>6 DEF Look, Compare, Search
<1>7. ASSUME NEW t \in Tags, Scan(n, c, t) \/ WriteFound(n, c, t)
      PROVE  pc'[m][d] = pc[m][d] /\ left'[m][d] = left[m][d] /\ hand'[m][d] = hand[m][d]
    BY <1>7 DEF Scan, WriteFound
<1> QED
    BY <1>1, <1>2, <1>3, <1>4, <1>5, <1>6, <1>7 DEF Step, RemoveStep, SyncStep, CheckStep

(* Each step hands on what the next one needs. *)
LEMMA OwnInHand ==
    ASSUME TypeOK, AllInHand, WildcardKnown, NEW n \in Nodes, NEW c \in Calls, Step(n, c)
    PROVE  InHand(n, c)'
<1> USE Updates DEF At
<1>i. InHand(n, c) /\ hand[n][c] \in [Sentinels -> Value] /\ times[n] \in [Sentinels -> Value]
    BY DEF AllInHand, TypeOK, Value
<1>s. Tags \subseteq Sentinels /\ TagsOf(c) \subseteq Sentinels /\ Wildcard \in Sentinels
    BY RequestFacts DEF Sentinels
<1>e. \A t \in Sentinels : EmptyHand[t] = Unknown
    BY DEF EmptyHand
<1>r. UNCHANGED req
    BY DEF Step, RemoveStep, SyncStep, CheckStep, Stamps, SetTime, ListTags, RemoveSentinels,
           TakeWildcard, SendToL2, Return, Publish, Receive, ClearTimes, AwaitWildcard, ReadAhead,
           StoreRead, Look, Compare, Search, Scan, WriteFound
<1>u. UNCHANGED TagsOf(c) /\ UNCHANGED IsWildcard(c)
    BY <1>r DEF TagsOf, IsWildcard
<1>1. CASE Stamps(n, c)
    <2>1. /\ pc'[n][c] = "set" /\ left'[n][c] = TagsOf(c)
          /\ \A k \in Sentinels : hand'[n][c][k] = IF k \in TagsOf(c) THEN now ELSE Unknown
        BY <1>1 DEF Stamps
    <2>2. now \in Stamp
        BY StampFacts DEF TypeOK
    <2> QED
        BY <1>s, <1>u, <2>1, <2>2, StampFacts DEF InHand
<1>2. ASSUME NEW k \in Sentinels, SetTime(n, c, k)
      PROVE  InHand(n, c)'
    <2>1. /\ pc[n][c] = "set" /\ hand' = hand /\ left'[n][c] = left[n][c] \ {k}
          /\ pc'[n][c] = IF left[n][c] # {k} THEN "set" ELSE IF IsWildcard(c) THEN "unset" ELSE "send"
        BY <1>2 DEF SetTime
    <2> QED
        BY <1>i, <1>u, <2>1 DEF InHand
<1>3. CASE ListTags(n, c)
    <2>1. /\ pc[n][c] = "unset" /\ pc'[n][c] \in {"unset", "take"} /\ hand' = hand
        BY <1>3 DEF ListTags
    <2> QED
        BY <1>i, <1>u, <2>1 DEF InHand
<1>4. CASE RemoveSentinels(n, c)
    <2>1. pc'[n][c] \in {"clear", "failed"} /\ hand' = hand
        BY <1>4 DEF RemoveSentinels
    <2> QED
        BY <1>i, <1>u, <2>1 DEF InHand
<1>5. CASE TakeWildcard(n, c)
    <2>1. pc[n][c] = "take" /\ TagsOf(c) = {Wildcard}
        BY <1>5, <1>i DEF TakeWildcard, InHand, IsWildcard
    <2>2. CASE Goto(n, c, "failed") /\ UNCHANGED hand
        BY <1>i, <1>u, <2>2 DEF InHand
    <2>3. CASE times[n][Wildcard] # Faulted
        <3>1. /\ pc'[n][c] = "send"
              /\ hand'[n][c] = [EmptyHand EXCEPT ![Wildcard] = times[n][Wildcard]]
            BY <1>5, <2>3 DEF TakeWildcard
        <3>2. times[n][Wildcard] \in Stamp
            BY <1>5, <1>i, <1>s, <2>3 DEF TakeWildcard, WildcardKnown, Value
        <3>3. hand'[n][c][Wildcard] = times[n][Wildcard]
            BY <1>s, <3>1 DEF EmptyHand
        <3>4. \A t \in Tags : hand'[n][c][t] # Pending
            BY <1>s, <3>1, ConstantsAssumption DEF EmptyHand
        <3> QED
            BY <1>u, <2>1, <3>1, <3>2, <3>3, <3>4 DEF InHand
    <2> QED
        BY <1>5, <2>2, <2>3 DEF TakeWildcard
<1>6. CASE SendToL2(n, c)
    <2>1. pc'[n][c] \in {"return", "publish", "failed"} /\ hand' = hand
        BY <1>6 DEF SendToL2
    <2> QED
        BY <1>i, <1>u, <2>1 DEF InHand
<1>7. CASE Publish(n, c)
    <2>1. pc'[n][c] = "done" /\ hand' = hand
        <3>1. CASE pc' = [m \in Nodes |-> [pc[m] EXCEPT ![c] = IF m = n THEN "done" ELSE "inbox"]]
            BY <1>7, <3>1 DEF Publish, TypeOK
        <3> QED
            BY <1>7, <3>1 DEF Publish
    <2> QED
        BY <1>i, <1>u, <2>1 DEF InHand
<1>8. CASE Receive(n, c)
    <2>1. pc'[n][c] = "sync" /\ hand' = hand
        BY <1>8 DEF Receive
    <2> QED
        BY <1>i, <1>u, <2>1 DEF InHand
<1>9. CASE ClearTimes(n, c)
    <2>1. /\ pc'[n][c] = (IF IsWildcard(c) /\ n = home[c] THEN "take" ELSE "await")
          /\ hand' = hand
        BY <1>9 DEF ClearTimes
    <2> QED
        BY <1>i, <1>u, <2>1 DEF InHand
<1>10. CASE AwaitWildcard(n, c)
    <2>1. pc'[n][c] \in {"failed", "compare", "done"} /\ hand' = hand
        BY <1>10 DEF AwaitWildcard
    <2> QED
        BY <1>i, <1>u, <2>1 DEF InHand
<1>11. ASSUME NEW k \in Sentinels, ReadAhead(n, c, k)
       PROVE  InHand(n, c)'
    <2>1. PICK v \in Reads(k) : Hold(n, c, [EmptyHand EXCEPT ![k] = v])
        BY <1>11 DEF ReadAhead
    <2>2. pc'[n][c] = "sync" /\ hand'[n][c] = [EmptyHand EXCEPT ![k] = v]
        BY <1>11, <2>1 DEF ReadAhead
    <2>3. v # Pending
        BY <2>1, StampFacts DEF Reads, TypeOK
    <2>4. \A t \in Tags : hand'[n][c][t] # Pending
        BY <1>s, <1>e, <2>2, <2>3, StampFacts DEF EmptyHand
    <2> QED
        BY <1>u, <2>2, <2>4 DEF InHand
<1>12. ASSUME NEW k \in Sentinels, StoreRead(n, c, k)
       PROVE  InHand(n, c)'
    <2>1. pc'[n][c] \in {"clear", "done", "sync"} /\ hand'[n][c] = EmptyHand
        BY <1>12 DEF StoreRead
    <2> QED
        BY <1>s, <1>e, <1>u, <2>1, StampFacts DEF InHand
<1>13. CASE Look(n, c)
    <2>1. pc'[n][c] \in {"failed", "sync", "compare"} /\ hand' = hand
        BY <1>13 DEF Look
    <2> QED
        BY <1>i, <1>u, <2>1 DEF InHand
<1>14. CASE Compare(n, c)
    <2>1. /\ pc'[n][c] \in {"failed", "done", "scan"} /\ hand' = hand
          /\ left'[n][c] = TagsOf(c)
        BY <1>14 DEF Compare
    <2> QED
        BY <1>i, <1>u, <2>1 DEF InHand
<1>15. CASE Search(n, c)
    <2> DEFINE found == {t \in Tags : hand[n][c][t] = Pending /\ sentinel[t] # MinValue}
               f == [k \in Sentinels |-> IF k \in found THEN sentinel[k] ELSE Unknown]
    <2>1. CASE Goto(n, c, "failed") /\ UNCHANGED hand
        BY <1>i, <1>u, <2>1 DEF InHand
    <2>2. CASE /\ Loop(n, c, found) /\ Hold(n, c, f)
               /\ Goto(n, c, IF found = {} THEN "done" ELSE "write")
        <3>1. left'[n][c] = found /\ hand'[n][c] = f /\ pc'[n][c] \in {"done", "write"}
            BY <2>2
        <3>2. found \subseteq TagsOf(c)
            BY <1>i DEF InHand
        <3>3. \A t \in Tags : f[t] # Pending
            BY <1>s, StampFacts DEF TypeOK
        <3> QED
            BY <1>u, <3>1, <3>2, <3>3 DEF InHand
    <2> QED
        BY <1>15, <2>1, <2>2 DEF Search
<1>16. ASSUME NEW t \in Tags, Scan(n, c, t)
       PROVE  InHand(n, c)'
    <2>1. /\ pc[n][c] = "scan" /\ pc'[n][c] \in {"failed", "done", "scan"}
          /\ t \in left[n][c] /\ left'[n][c] = left[n][c] \ {t}
          /\ hand'[n][c] = [hand[n][c] EXCEPT ![t] =
                               IF times[n][t] = Unknown THEN Pending ELSE Unknown]
        BY <1>16 DEF Scan
    <2>2. t \in TagsOf(c)
        BY <1>i, <2>1 DEF InHand
    <2>3. \A u \in Tags : u # t => hand'[n][c][u] = hand[n][c][u]
        BY <1>i, <1>s, <2>1
    <2> QED
        BY <1>i, <1>u, <2>1, <2>2, <2>3 DEF InHand
<1>17. ASSUME NEW t \in Tags, WriteFound(n, c, t)
       PROVE  InHand(n, c)'
    <2>1. /\ pc[n][c] = "write" /\ pc'[n][c] \in {"done", "write"}
          /\ left'[n][c] = left[n][c] \ {t} /\ hand' = hand
        BY <1>17 DEF WriteFound
    <2> QED
        BY <1>i, <1>u, <2>1 DEF InHand
<1>18. CASE Return(n, c)
    <2>1. pc'[n][c] \in {"unsaid", "publish"} /\ hand' = hand
        BY <1>18 DEF Return
    <2> QED
        BY <1>i, <1>u, <2>1 DEF InHand
<1> QED
    BY <1>1, <1>2, <1>3, <1>4, <1>5, <1>6, <1>7, <1>8, <1>9, <1>10, <1>11, <1>12, <1>13, <1>14,
       <1>15, <1>16, <1>17, <1>18
    DEF Step, RemoveStep, SyncStep, CheckStep

(* Which step of a task changes what. *)
LEMMA Changes ==
    ASSUME NEW n \in Nodes, NEW c \in Calls, Step(n, c)
    PROVE  /\ UNCHANGED <<now, home, req>>
           /\ UNCHANGED stamp \/ Stamps(n, c)
           /\ UNCHANGED sentinel \/ RemoveSentinels(n, c) \/ SendToL2(n, c)
           /\ \/ UNCHANGED times \/ ClearTimes(n, c)
              \/ \E k \in Sentinels : SetTime(n, c, k) \/ StoreRead(n, c, k)
              \/ \E t \in Tags : WriteFound(n, c, t)
           /\ \/ UNCHANGED invalid \/ Compare(n, c)
              \/ \E t \in Tags : Scan(n, c, t) \/ WriteFound(n, c, t)
<1>1. CASE RemoveStep(n, c)
    <2>1. CASE \E k \in Sentinels : SetTime(n, c, k)
        BY <2>1 DEF SetTime
    <2>2. CASE \/ Stamps(n, c) \/ ListTags(n, c) \/ TakeWildcard(n, c) \/ Return(n, c)
               \/ Publish(n, c)
        BY <2>2 DEF Stamps, ListTags, TakeWildcard, Return, Publish
    <2>3. CASE RemoveSentinels(n, c) \/ SendToL2(n, c)
        BY <2>3 DEF RemoveSentinels, SendToL2
    <2> QED
        BY <1>1, <2>1, <2>2, <2>3 DEF RemoveStep
<1>2. CASE SyncStep(n, c)
    <2>1. CASE \E k \in Sentinels : StoreRead(n, c, k)
        BY <2>1 DEF StoreRead
    <2>2. CASE \E k \in Sentinels : ReadAhead(n, c, k)
        BY <2>2 DEF ReadAhead
    <2>3. CASE Receive(n, c) \/ ClearTimes(n, c) \/ AwaitWildcard(n, c)
        BY <2>3 DEF Receive, ClearTimes, AwaitWildcard
    <2> QED
        BY <1>2, <2>1, <2>2, <2>3 DEF SyncStep
<1>3. CASE CheckStep(n, c)
    <2>1. CASE \E t \in Tags : Scan(n, c, t)
        BY <2>1 DEF Scan
    <2>2. CASE \E t \in Tags : WriteFound(n, c, t)
        BY <2>2 DEF WriteFound
    <2>3. CASE Look(n, c) \/ Compare(n, c) \/ Search(n, c)
        BY <2>3 DEF Look, Compare, Search
    <2> QED
        BY <1>3, <2>1, <2>2, <2>3 DEF CheckStep
<1> QED
    BY <1>1, <1>2, <1>3 DEF Step

LEMMA Unchanging ==
    ASSUME [Next]_vars
    PROVE  UNCHANGED <<home, req>>
BY Changes DEF Next, vars, Start, FinishRead, Tick, ExpireSentinel

LEMMA NextAllInHand == TypeOK /\ AllInHand /\ WildcardKnown /\ [Next]_vars => AllInHand'
<1> SUFFICES ASSUME TypeOK, AllInHand, WildcardKnown, [Next]_vars,
                    NEW m \in Nodes, NEW d \in Calls
             PROVE  InHand(m, d)'
    BY DEF AllInHand
<1>0. InHand(m, d) /\ UNCHANGED TagsOf(d) /\ UNCHANGED IsWildcard(d)
    BY Unchanging DEF AllInHand, TagsOf, IsWildcard
<1>1. ASSUME NEW n \in Nodes, NEW c \in Calls, Step(n, c)
      PROVE  InHand(m, d)'
    <2>1. CASE m = n /\ d = c
        BY <1>1, <2>1, OwnInHand
    <2>2. CASE m # n \/ d # c
        <3>1. /\ pc'[m][d] = pc[m][d] \/ pc'[m][d] = "inbox"
              /\ left'[m][d] = left[m][d] /\ hand'[m][d] = hand[m][d]
            BY <1>1, <2>2, Frame
        <3> QED
            BY <1>0, <3>1 DEF InHand
    <2> QED
        BY <2>1, <2>2
<1>2. ASSUME NEW c \in Calls, Start(c)
      PROVE  InHand(m, d)'
    <2>1. home[c] \in Nodes
        BY DEF TypeOK
    <2>2. pc'[m][d] \in {pc[m][d], "look", "failed", "stamp"} /\ UNCHANGED <<left, hand>>
        BY <1>2, <2>1, Updates DEF Start
    <2> QED
        BY <1>0, <2>2 DEF InHand
<1>3. CASE UNCHANGED <<pc, left, hand>>
    BY <1>0, <1>3 DEF InHand
<1> QED
    BY <1>1, <1>2, <1>3 DEF Next, FinishRead, Tick, ExpireSentinel, vars

LEMMA NextWildcardKnown == TypeOK /\ AllInHand /\ WildcardKnown /\ [Next]_vars => WildcardKnown'
<1> SUFFICES ASSUME TypeOK, AllInHand, WildcardKnown, [Next]_vars, NEW m \in Nodes
             PROVE  times'[m][Wildcard] # Unknown
    BY DEF WildcardKnown
<1>w. Wildcard \in Sentinels /\ Wildcard \notin Tags /\ Tags \subseteq Sentinels
      /\ times[m][Wildcard] # Unknown
    BY ConstantsAssumption DEF Sentinels, WildcardKnown
<1>a. ASSUME NEW n \in Nodes, NEW k \in Sentinels, NEW v, Assign(n, k, v),
             k # Wildcard \/ v # Unknown
      PROVE  times'[m][Wildcard] # Unknown
    BY <1>a, <1>w, AssignUpdate
<1>1. ASSUME NEW n \in Nodes, NEW c \in Calls, NEW k \in Sentinels, SetTime(n, c, k)
      PROVE  times'[m][Wildcard] # Unknown
    <2>1. hand[n][c][k] \in Stamp
        BY <1>1 DEF AllInHand, InHand, SetTime, At
    <2> QED
        BY <1>1, <1>a, <2>1, StampFacts DEF SetTime
<1>2. ASSUME NEW n \in Nodes, NEW c \in Calls, NEW k \in Sentinels, StoreRead(n, c, k)
      PROVE  times'[m][Wildcard] # Unknown
    BY <1>2, <1>a, StampFacts DEF StoreRead
<1>3. ASSUME NEW n \in Nodes, NEW k \in Sentinels, FinishRead(n, k)
      PROVE  times'[m][Wildcard] # Unknown
    <2>1. PICK v \in Reads(k) : Assign(n, k, v)
        BY <1>3 DEF FinishRead
    <2>2. v # Unknown
        BY <2>1, StampFacts DEF Reads, TypeOK
    <2> QED
        BY <1>a, <2>1, <2>2
<1>4. ASSUME NEW n \in Nodes, NEW c \in Calls, ClearTimes(n, c)
      PROVE  times'[m][Wildcard] # Unknown
    BY <1>4, <1>w DEF ClearTimes, TypeOK
<1>5. ASSUME NEW n \in Nodes, NEW c \in Calls, NEW t \in Tags, WriteFound(n, c, t)
      PROVE  times'[m][Wildcard] # Unknown
    BY <1>5, <1>a, <1>w DEF WriteFound
<1>6. CASE UNCHANGED times
    BY <1>6, <1>w
<1> QED
    BY <1>1, <1>2, <1>3, <1>4, <1>5, <1>6, Changes DEF Next, vars, Start, Tick, ExpireSentinel

LEMMA NextStampsPast == TypeOK /\ StampsPast /\ [Next]_vars => StampsPast'
<1> SUFFICES ASSUME TypeOK, StampsPast, [Next]_vars, NEW d \in Calls
             PROVE  stamp'[d] <= now'
    BY DEF StampsPast
<1>0. stamp[d] <= now /\ stamp[d] \in Int /\ now \in Int
    BY ConstantsAssumption DEF StampsPast, TypeOK
<1>1. ASSUME NEW c \in Calls, NEW ts \in 0..now, stamp' = [stamp EXCEPT ![c] = ts], now' = now
      PROVE  stamp'[d] <= now'
    BY <1>0, <1>1 DEF TypeOK
<1>2. ASSUME NEW n \in Nodes, NEW c \in Calls, Stamps(n, c)
      PROVE  stamp'[d] <= now'
    <2>1. now \in 0..now
        BY DEF TypeOK
    <2> QED
        BY <1>1, <1>2, <2>1 DEF Stamps
<1>3. ASSUME NEW c \in Calls, Start(c)
      PROVE  stamp'[d] <= now'
    <2>1. CASE UNCHANGED stamp
        BY <1>0, <1>3, <2>1 DEF Start
    <2>2. ASSUME NEW ts \in 1..now, stamp' = [stamp EXCEPT ![c] = ts]
          PROVE  stamp'[d] <= now'
        <3>1. ts \in 0..now /\ now' = now
            BY <1>0, <1>3 DEF Start
        <3> QED
            BY <1>1, <2>2, <3>1
    <2> QED
        BY <1>3, <2>1, <2>2 DEF Start
<1>4. CASE Tick
    BY <1>0, <1>4 DEF Tick
<1>5. CASE UNCHANGED <<stamp, now>>
    BY <1>0, <1>5
<1> QED
    BY <1>2, <1>3, <1>4, <1>5, Changes DEF Next, vars, FinishRead, ExpireSentinel

(* The steps of a check lead to steps of a check. *)
LEMMA ChecksStay ==
    ASSUME TypeOK, NEW n \in Nodes, NEW c \in Calls, Step(n, c),
           IsCheck(c), pc[n][c] \in CheckSteps
    PROVE  pc'[n][c] \in CheckSteps \ {"idle"} /\ pc[n][c] # "idle" /\ pc[n][c] # "publish"
<1> USE Updates DEF At, CheckSteps
<1>w. ~IsWildcard(c)
    BY RequestFacts
<1>1. CASE RemoveStep(n, c)
    BY <1>1 DEF RemoveStep, Stamps, SetTime, ListTags, RemoveSentinels, TakeWildcard, SendToL2, Return,
        Publish
<1>2. CASE SyncStep(n, c)
    <2>1. CASE Receive(n, c) \/ ClearTimes(n, c) \/ AwaitWildcard(n, c)
        BY <1>w, <2>1 DEF Receive, ClearTimes, AwaitWildcard
    <2>2. ASSUME NEW k \in Sentinels, ReadAhead(n, c, k)
          PROVE  pc'[n][c] = "sync" /\ pc[n][c] = "sync"
        BY <2>2 DEF ReadAhead
    <2>3. ASSUME NEW k \in Sentinels, StoreRead(n, c, k)
          PROVE  pc'[n][c] \in {"clear", "done", "sync"} /\ pc[n][c] = "sync"
        BY <2>3 DEF StoreRead
    <2> QED
        BY <1>2, <2>1, <2>2, <2>3 DEF SyncStep
<1>3. CASE CheckStep(n, c)
    <2>1. CASE Look(n, c) \/ Compare(n, c)
        BY <2>1 DEF Look, Compare
    <2>2. CASE Search(n, c)
        BY <2>2 DEF Search
    <2>3. ASSUME NEW t \in Tags, Scan(n, c, t)
          PROVE  pc'[n][c] \in {"failed", "done", "scan"} /\ pc[n][c] = "scan"
        BY <2>3 DEF Scan
    <2>4. ASSUME NEW t \in Tags, WriteFound(n, c, t)
          PROVE  pc'[n][c] \in {"done", "write"} /\ pc[n][c] = "write"
        BY <2>4 DEF WriteFound
    <2> QED
        BY <1>3, <2>1, <2>2, <2>3, <2>4 DEF CheckStep
<1> QED
    BY <1>1, <1>2, <1>3 DEF Step

(* An ended or idle task takes no step. *)
LEMMA StepRuns ==
    ASSUME NEW n \in Nodes, NEW c \in Calls, Step(n, c)
    PROVE  pc[n][c] \notin {"idle", "failed"}
<1>1. CASE RemoveStep(n, c)
    BY <1>1 DEF At, RemoveStep, Stamps, SetTime, ListTags, RemoveSentinels, TakeWildcard,
        SendToL2, Return, Publish
<1>2. CASE SyncStep(n, c)
    BY <1>2 DEF At, SyncStep, Receive, ClearTimes, AwaitWildcard, ReadAhead, StoreRead
<1>3. CASE CheckStep(n, c)
    BY <1>3 DEF At, CheckStep, Look, Compare, Search, Scan, WriteFound
<1> QED
    BY <1>1, <1>2, <1>3 DEF Step

(* A task changes the verdict and the stamp of its own call only. *)
LEMMA OwnVerdict ==
    ASSUME TypeOK, NEW n \in Nodes, NEW c \in Calls, Step(n, c), NEW d \in Calls, d # c
    PROVE  invalid'[d] = invalid[d] /\ stamp'[d] = stamp[d]
<1>1. ASSUME NEW b, Verdict(c, b)
      PROVE  invalid'[d] = invalid[d]
    BY <1>1 DEF Verdict, TypeOK
<1>2. invalid'[d] = invalid[d]
    BY <1>1, Changes DEF Compare, Scan, WriteFound
<1>3. stamp'[d] = stamp[d]
    BY Changes DEF Stamps, TypeOK
<1> QED
    BY <1>2, <1>3

LEMMA NextChecksAtHome == TypeOK /\ ChecksAtHome /\ [Next]_vars => ChecksAtHome'
<1> DEFINE AtHome(d) ==
        /\ \A m \in Nodes : pc[m][d] \in CheckSteps /\ (m # home[d] => pc[m][d] = "idle")
        /\ IF pc[home[d]][d] = "idle" THEN ~invalid[d] ELSE stamp[d] >= 1
<1> SUFFICES ASSUME TypeOK, ChecksAtHome, [Next]_vars, NEW d \in Calls, IsCheck(d)
             PROVE  AtHome(d)'
    BY Unchanging DEF ChecksAtHome, IsCheck
<1>0. /\ AtHome(d) /\ UNCHANGED home /\ home[d] \in Nodes
      /\ stamp[d] \in Int
    BY Unchanging DEF ChecksAtHome, TypeOK
<1>1. ASSUME NEW n \in Nodes, NEW c \in Calls, Step(n, c)
      PROVE  AtHome(d)'
    <2>1. CASE c # d
        BY <1>0, <1>1, <2>1, Frame, OwnVerdict
    <2>2. CASE c = d
        <3>1. /\ pc'[n][d] \in CheckSteps \ {"idle"}
              /\ pc[n][d] # "idle" /\ pc[n][d] # "publish"
            BY <1>0, <1>1, <2>2, ChecksStay
        <3>2. n = home[d]
            BY <1>0, <3>1
        <3>3. \A m \in Nodes : m # n => pc'[m][d] = pc[m][d]
            BY <1>1, <2>2, <3>1, Frame
        <3>4. stamp'[d] = stamp[d]
            <4>1. ~Stamps(n, d)
                BY <1>0 DEF Stamps, At, CheckSteps
            <4> QED
                BY <1>1, <2>2, <4>1, Changes
        <3> QED
            BY <1>0, <3>1, <3>2, <3>3, <3>4
    <2> QED
        BY <2>1, <2>2
<1>2. ASSUME NEW c \in Calls, Start(c)
      PROVE  AtHome(d)'
    <2>1. home[c] \in Nodes /\ UNCHANGED invalid
        BY <1>2 DEF Start, TypeOK
    <2>2. CASE c # d
        <3>1. \A m \in Nodes : pc'[m][d] = pc[m][d]
            BY <1>2, <2>1, <2>2, Updates DEF Start
        <3>2. stamp'[d] = stamp[d]
            BY <1>2, <2>2 DEF Start, TypeOK
        <3> QED
            BY <1>0, <2>1, <3>1, <3>2
    <2>3. CASE c = d
        <3>1. /\ pc'[home[d]][d] = "look"
              /\ \A m \in Nodes : m # home[d] => pc'[m][d] = pc[m][d]
            BY <1>2, <2>1, <2>3, Updates DEF Start
        <3>2. PICK ts \in 1..now : stamp' = [stamp EXCEPT ![d] = ts]
            BY <1>2, <2>3 DEF Start
        <3>3. stamp'[d] >= 1
            BY <3>2 DEF TypeOK
        <3> QED
            BY <1>0, <3>1, <3>3 DEF CheckSteps
    <2> QED
        BY <2>2, <2>3
<1>3. CASE UNCHANGED <<pc, invalid, stamp>>
    BY <1>0, <1>3
<1> QED
    BY <1>1, <1>2, <1>3 DEF Next, vars, FinishRead, Tick, ExpireSentinel

LEMMA NextRefusedBulks == TypeOK /\ RefusedBulks /\ [Next]_vars => RefusedBulks'
<1> SUFFICES ASSUME TypeOK, RefusedBulks, [Next]_vars,
                    NEW d \in Calls, req[d].op = "RemoveByTags", Wildcard \in TagsOf(d)
             PROVE  stamp'[d] = 0 /\ \A m \in Nodes : pc'[m][d] \in {"idle", "failed"}
    BY Unchanging DEF RefusedBulks, TagsOf
<1>0. stamp[d] = 0 /\ \A m \in Nodes : pc[m][d] \in {"idle", "failed"}
    BY DEF RefusedBulks
<1>1. ASSUME NEW n \in Nodes, NEW c \in Calls, Step(n, c)
      PROVE  stamp'[d] = 0 /\ \A m \in Nodes : pc'[m][d] \in {"idle", "failed"}
    <2>1. d # c
        BY <1>0, <1>1, StepRuns
    <2> QED
        BY <1>0, <1>1, <2>1, Frame, OwnVerdict
<1>2. ASSUME NEW c \in Calls, Start(c)
      PROVE  stamp'[d] = 0 /\ \A m \in Nodes : pc'[m][d] \in {"idle", "failed"}
    <2>1. home[c] \in Nodes
        BY DEF TypeOK
    <2>2. CASE c # d
        <3>1. \A m \in Nodes : pc'[m][d] = pc[m][d]
            BY <1>2, <2>1, <2>2, Updates DEF Start
        <3>2. stamp'[d] = stamp[d]
            BY <1>2, <2>2 DEF Start, TypeOK
        <3> QED
            BY <1>0, <3>1, <3>2
    <2>3. CASE c = d
        <3>1. Goto(home[d], d, "failed") /\ UNCHANGED stamp
            BY <1>2, <2>3 DEF Start, IsCheck, Marks, IsWildcard
        <3> QED
            BY <1>0, <2>1, <2>3, <3>1, Updates
    <2> QED
        BY <2>2, <2>3
<1>3. CASE UNCHANGED <<pc, stamp>>
    BY <1>0, <1>3
<1> QED
    BY <1>1, <1>2, <1>3 DEF Next, vars, FinishRead, Tick, ExpireSentinel

-----------------------------------------------------------------------------
(* Provenance. *)

(* An invalidation that has taken a stamp keeps it, or takes a later one. *)
LEMMA StampGrows ==
    ASSUME TypeOK, StampsPast, [Next]_vars, NEW e \in Calls, ~IsCheck(e)
    PROVE  stamp'[e] >= stamp[e] /\ stamp[e] \in Int /\ stamp'[e] \in Int
<1>1. stamp[e] \in Int /\ stamp[e] <= now /\ now \in Int
    BY ConstantsAssumption DEF TypeOK, StampsPast
<1>2. ASSUME NEW n \in Nodes, NEW c \in Calls, Step(n, c)
      PROVE  stamp'[e] \in {stamp[e], now}
    BY <1>2, Changes DEF Stamps, TypeOK
<1>3. ASSUME NEW c \in Calls, Start(c)
      PROVE  stamp'[e] = stamp[e]
    BY <1>3 DEF Start, TypeOK
<1>4. stamp'[e] \in {stamp[e], now}
    BY <1>2, <1>3 DEF Next, vars, FinishRead, Tick, ExpireSentinel
<1> QED
    BY <1>1, <1>4

(* So a cause is never lost. *)
LEMMA CausedStays ==
    ASSUME TypeOK, StampsPast, [Next]_vars, NEW k \in Sentinels, NEW v \in Int,
           Caused(k, v)
    PROVE  Caused(k, v)'
<1>1. PICK e \in Calls : ~IsCheck(e) /\ k \in TagsOf(e) /\ stamp[e] >= v
    BY DEF Caused
<1>2. ~IsCheck(e)' /\ (k \in TagsOf(e))'
    BY <1>1, Unchanging DEF IsCheck, TagsOf
<1>3. stamp'[e] >= stamp[e] /\ stamp[e] \in Int /\ stamp'[e] \in Int
    BY <1>1, StampGrows
<1> QED
    BY <1>1, <1>2, <1>3 DEF Caused

LEMMA FoundedStays ==
    ASSUME TypeOK, StampsPast, [Next]_vars, NEW k \in Sentinels, NEW v,
           Founded(k, v)
    PROVE  Founded(k, v)'
BY CausedStays, StampFacts DEF Founded

(* What a read of a sentinel comes to has the sentinel's cause. *)
LEMMA ReadsFounded ==
    ASSUME Provenance, NEW k \in Sentinels, NEW v \in Reads(k)
    PROVE  Founded(k, v)
BY StampFacts DEF Provenance, Reads, Founded

LEMMA NextProvenance ==
    ASSUME TypeOK, StampsPast, ChecksAtHome, AllInHand, Provenance, [Next]_vars
    PROVE  Provenance'
<1>0. \A k \in Sentinels :
        /\ Founded(k, sentinel[k])
        /\ \A n \in Nodes : /\ Founded(k, times[n][k])
                            /\ \A c \in Calls : Founded(k, hand[n][c][k])
    BY DEF Provenance
<1>f. \A k \in Sentinels : \A v : Founded(k, v) => Founded(k, v)'
    BY FoundedStays
<1>n. \A k, v : v \notin Stamp \/ v \in {0, MinValue} => Founded(k, v)'
    BY DEF Founded, MinValue
<1>1. ASSUME NEW k \in Sentinels
      PROVE  Founded(k, sentinel[k])'
    <2>1. ASSUME NEW n \in Nodes, NEW c \in Calls, Step(n, c)
          PROVE  Founded(k, sentinel[k])'
        <3>1. sentinel'[k] \in {sentinel[k], hand[n][c][k], MinValue}
            <4>1. CASE RemoveSentinels(n, c)
                BY <4>1 DEF RemoveSentinels, TypeOK
            <4>2. CASE SendToL2(n, c)
                BY <4>2 DEF SendToL2, TypeOK
            <4> QED
                BY <2>1, <4>1, <4>2, Changes
        <3> QED
            BY <1>0, <1>f, <1>n, <3>1 DEF Founded, Caused, IsCheck, TagsOf
    <2>2. ASSUME NEW j \in Sentinels, ExpireSentinel(j)
          PROVE  Founded(k, sentinel[k])'
        <3>1. sentinel'[k] \in {sentinel[k], MinValue}
            BY <2>2 DEF ExpireSentinel, TypeOK
        <3> QED
            BY <1>0, <1>f, <1>n, <3>1 DEF Founded, Caused, IsCheck, TagsOf
    <2>3. CASE UNCHANGED sentinel
        BY <1>0, <1>f, <2>3 DEF Founded, Caused, IsCheck, TagsOf
    <2> QED
        BY <2>1, <2>2, <2>3 DEF Next, vars, Start, FinishRead, Tick
<1>2. ASSUME NEW k \in Sentinels, NEW n \in Nodes
      PROVE  Founded(k, times[n][k])'
    <2>a. ASSUME NEW m \in Nodes, NEW j \in Sentinels, NEW v, Assign(m, j, v)
          PROVE  times'[n][k] \in {times[n][k]} \cup (IF m = n /\ j = k THEN {v} ELSE {})
        BY <2>a, AssignUpdate
    <2>1. ASSUME NEW m \in Nodes, NEW c \in Calls, Step(m, c)
          PROVE  times'[n][k] \in {times[n][k], hand[m][c][k], Pending, Unknown}
        <3>1. CASE \E j \in Sentinels : SetTime(m, c, j)
            BY <2>a, <3>1 DEF SetTime
        <3>2. CASE \E j \in Sentinels : StoreRead(m, c, j)
            BY <2>a, <3>2 DEF StoreRead
        <3>3. CASE \E t \in Tags : WriteFound(m, c, t)
            BY <2>a, <3>3 DEF WriteFound, Sentinels
        <3>4. CASE ClearTimes(m, c)
            BY <3>4 DEF ClearTimes, TypeOK
        <3> QED
            BY <2>1, <3>1, <3>2, <3>3, <3>4, Changes
    <2>2. ASSUME NEW m \in Nodes, NEW c \in Calls, Step(m, c)
          PROVE  Founded(k, times[n][k])'
        BY <1>0, <1>f, <1>n, <2>1, <2>2, StampFacts DEF Founded, Caused, IsCheck, TagsOf
    <2>3. ASSUME NEW m \in Nodes, NEW j \in Sentinels, FinishRead(m, j)
          PROVE  Founded(k, times[n][k])'
        <3>1. PICK v \in Reads(j) : Assign(m, j, v)
            BY <2>3 DEF FinishRead
        <3>2. times'[n][k] = times[n][k] \/ (j = k /\ times'[n][k] = v)
            BY <2>a, <3>1
        <3>3. j = k => Founded(k, v)
            BY <3>1, ReadsFounded
        <3> QED
            BY <1>0, <1>f, <3>2, <3>3 DEF Founded, Caused, IsCheck, TagsOf
    <2>4. CASE UNCHANGED times
        BY <1>0, <1>f, <2>4 DEF Founded, Caused, IsCheck, TagsOf
    <2> QED
        BY <2>2, <2>3, <2>4 DEF Next, vars, Start, Tick, ExpireSentinel
<1>3. ASSUME NEW k \in Sentinels, NEW n \in Nodes, NEW c \in Calls
      PROVE  Founded(k, hand[n][c][k])'
    <2>1. CASE hand'[n][c] = hand[n][c]
        BY <1>0, <1>f, <2>1 DEF Founded, Caused, IsCheck, TagsOf
    <2>2. ASSUME Step(n, c)
          PROVE  Founded(k, hand[n][c][k])'
        <3>0. \A v : hand'[n][c][k] = v /\ Founded(k, v)' => Founded(k, hand[n][c][k])'
            BY DEF Founded, Caused, IsCheck, TagsOf
        <3>e. EmptyHand[k] = Unknown /\ Founded(k, Unknown)' /\ Founded(k, Pending)'
            BY <1>n, StampFacts DEF EmptyHand
        <3>1. CASE Stamps(n, c)
            <4>1. /\ hand'[n][c][k] = IF k \in TagsOf(c) THEN now ELSE Unknown
                  /\ stamp'[c] = now /\ pc[n][c] = "stamp"
                BY <3>1, Updates DEF Stamps, At, TypeOK
            <4>2. ~IsCheck(c)
                BY <4>1 DEF ChecksAtHome, CheckSteps
            <4>3. k \in TagsOf(c) => Founded(k, now)'
                <5>1. now' = now /\ req' = req /\ now \in Int
                    BY <3>1 DEF Stamps, TypeOK
                <5>2. stamp'[c] >= now'
                    BY <4>1, <5>1
                <5> QED
                    BY <4>2, <5>1, <5>2 DEF Founded, Caused, IsCheck, TagsOf
            <4> QED
                BY <3>0, <3>e, <3>1, <4>1, <4>3 DEF Stamps
        <3>2. CASE TakeWildcard(n, c)
            <4>1. CASE Hold(n, c, [EmptyHand EXCEPT ![Wildcard] = times[n][Wildcard]])
                <5>1. hand'[n][c] = [EmptyHand EXCEPT ![Wildcard] = times[n][Wildcard]]
                    BY <4>1, Updates
                <5>2. hand'[n][c][k] = IF k = Wildcard THEN times[n][k] ELSE Unknown
                    BY <5>1 DEF EmptyHand
                <5> QED
                    BY <1>0, <1>f, <3>0, <3>e, <5>2
            <4> QED
                BY <2>1, <3>2, <4>1 DEF TakeWildcard
        <3>3. ASSUME NEW j \in Sentinels, ReadAhead(n, c, j)
              PROVE  Founded(k, hand[n][c][k])'
            <4>1. PICK v \in Reads(j) : Hold(n, c, [EmptyHand EXCEPT ![j] = v])
                BY <3>3 DEF ReadAhead
            <4>2. hand'[n][c] = [EmptyHand EXCEPT ![j] = v]
                BY <4>1, Updates
            <4>3. hand'[n][c][k] = IF k = j THEN v ELSE Unknown
                BY <4>2 DEF EmptyHand
            <4>4. k = j => Founded(k, v)
                BY <4>1, ReadsFounded
            <4> QED
                BY <1>f, <3>0, <3>e, <4>3, <4>4
        <3>4. ASSUME NEW j \in Sentinels, StoreRead(n, c, j)
              PROVE  Founded(k, hand[n][c][k])'
            <4>1. hand'[n][c] = EmptyHand
                BY <3>4, Updates DEF StoreRead
            <4> QED
                BY <3>0, <3>e, <4>1
        <3>5. ASSUME NEW t \in Tags, Scan(n, c, t)
              PROVE  Founded(k, hand[n][c][k])'
            <4>1. hand'[n][c] = [hand[n][c] EXCEPT ![t] =
                                    IF times[n][t] = Unknown THEN Pending ELSE Unknown]
                BY <3>5, Updates DEF Scan
            <4>2. hand'[n][c][k] \in {hand[n][c][k], Pending, Unknown}
                BY <4>1 DEF TypeOK
            <4> QED
                BY <1>0, <1>f, <3>0, <3>e, <4>2
        <3>6. CASE Search(n, c)
            <4> DEFINE found == {t \in Tags : hand[n][c][t] = Pending /\ sentinel[t] # MinValue}
                       f == [j \in Sentinels |-> IF j \in found THEN sentinel[j] ELSE Unknown]
            <4>1. CASE Hold(n, c, f)
                <5>1. hand'[n][c] = f
                    BY <4>1, Updates
                <5>2. hand'[n][c][k] \in {sentinel[k], Unknown}
                    BY <5>1
                <5> QED
                    BY <1>0, <1>f, <3>0, <3>e, <5>2
            <4> QED
                BY <2>1, <3>6, <4>1 DEF Search
        <3>7. CASE UNCHANGED hand
            BY <2>1, <3>7
        <3>8. \/ UNCHANGED hand \/ Stamps(n, c) \/ TakeWildcard(n, c) \/ Search(n, c)
              \/ \E j \in Sentinels : ReadAhead(n, c, j) \/ StoreRead(n, c, j)
              \/ \E t \in Tags : Scan(n, c, t)
            <4>1. CASE RemoveStep(n, c)
                BY <4>1 DEF RemoveStep, SetTime, ListTags, RemoveSentinels, SendToL2, Return, Publish
            <4>2. CASE SyncStep(n, c)
                BY <4>2 DEF SyncStep, Receive, ClearTimes, AwaitWildcard
            <4>3. CASE CheckStep(n, c)
                BY <4>3 DEF CheckStep, Look, Compare, WriteFound
            <4> QED
                BY <2>2, <4>1, <4>2, <4>3 DEF Step
        <3> QED
            BY <3>1, <3>2, <3>3, <3>4, <3>5, <3>6, <3>7, <3>8
    <2>3. ASSUME NEW m \in Nodes, NEW d \in Calls, Step(m, d), m # n \/ d # c
          PROVE  hand'[n][c] = hand[n][c]
        BY <2>3, Frame
    <2> QED
        BY <2>1, <2>2, <2>3 DEF Next, vars, Start, FinishRead, Tick, ExpireSentinel
<1> QED
    <2> SUFFICES ASSUME NEW k \in Sentinels
                 PROVE  /\ Founded(k, sentinel[k])'
                        /\ \A n \in Nodes : /\ Founded(k, times[n][k])'
                                            /\ \A c \in Calls : Founded(k, hand[n][c][k])'
        BY DEF Provenance
    <2> QED
        BY <1>1, <1>2, <1>3

-----------------------------------------------------------------------------
(* The theorems. *)

LEMMA InitIInv == Init => IInv
<1> SUFFICES ASSUME Init PROVE IInv
    OBVIOUS
<1>1. TypeOK
    BY InitTypeOK
<1>2. StampsPast
    BY <1>1 DEF Init, StampsPast
<1>3. ChecksAtHome
    BY <1>1 DEF Init, ChecksAtHome, CheckSteps, TypeOK
<1>4. RefusedBulks
    BY DEF Init, RefusedBulks
<1>5. AllInHand
    BY StampFacts DEF Init, AllInHand, InHand, EmptyHand, Sentinels
<1>6. WildcardKnown
    BY StampFacts DEF Init, WildcardKnown, Sentinels
<1>7. Provenance
    BY StampFacts DEF Init, Provenance, Founded, EmptyHand, MinValue
<1> QED
    BY <1>1, <1>2, <1>3, <1>4, <1>5, <1>6, <1>7 DEF IInv, Control

LEMMA NextIInv == IInv /\ [Next]_vars => IInv'
BY NextTypeOK, NextStampsPast, NextChecksAtHome, NextRefusedBulks, NextAllInHand,
   NextWildcardKnown, NextProvenance DEF IInv, Control

(* The variables keep their types; in particular only stamps reach L2, and *)
(* never a task that is still running or has thrown (SendTagToL2Async).    *)
THEOREM TypeCorrect == Spec => []TypeOK
<1>1. IInv => TypeOK
    BY DEF IInv
<1> QED
    BY <1>1, InitIInv, NextIInv, PTL DEF Spec

(* A verdict comes from a stamp with a cause, read for a tag of the item   *)
(* or for the wildcard.                                                    *)
LEMMA NextOnlyMarked ==
    ASSUME IInv, OnlyMarkedIsInvalid, [Next]_vars
    PROVE  OnlyMarkedIsInvalid'
<1> DEFINE Marked(d) ==
        \E c \in Calls : /\ ~IsCheck(c) /\ stamp[c] >= stamp[d]
                         /\ IsWildcard(c) \/ TagsOf(c) \cap TagsOf(d) # {}
<1> SUFFICES ASSUME NEW d \in Calls, IsCheck(d)', invalid'[d]
             PROVE  Marked(d)'
    BY DEF OnlyMarkedIsInvalid
<1> USE DEF IInv, Control
<1>0. UNCHANGED <<home, req>> /\ IInv'
    BY Unchanging, NextIInv
<1>c. IsCheck(d)
    BY <1>0 DEF IsCheck
<1>t. ASSUME stamp'[d] = stamp[d], stamp[d] >= 1,
             NEW k \in Sentinels, NEW v, Founded(k, v), Covers(d, v),
             k = Wildcard \/ k \in TagsOf(d)
      PROVE  Marked(d)'
    <2>1. v \in Stamp /\ v \in Int /\ v >= stamp[d] /\ stamp[d] \in Int
        BY <1>t, StampFacts DEF Covers, TypeOK
    <2>2. Caused(k, v)'
        BY <1>t, <2>1, CausedStays DEF Founded
    <2>3. PICK e \in Calls : ~IsCheck(e)' /\ k \in TagsOf(e)' /\ stamp'[e] >= v
        BY <2>2 DEF Caused
    <2>4. stamp'[e] \in Int /\ stamp'[e] >= stamp'[d] /\ stamp'[e] # 0
        BY <1>0, <1>t, <2>1, <2>3 DEF TypeOK
    <2>5. CASE k \in TagsOf(d)
        BY <1>0, <2>3, <2>4, <2>5 DEF TagsOf
    <2>6. CASE k = Wildcard
        <3>1. req[e].op \in {"RemoveByTag", "RemoveByTags"} /\ Wildcard \in TagsOf(e)
            BY <1>0, <2>3, <2>6, RequestFacts DEF IsCheck, TagsOf
        <3>2. req[e].op # "RemoveByTags"
            BY <1>0, <2>4, <3>1 DEF RefusedBulks, TagsOf
        <3>3. IsWildcard(e)
            BY <3>1, <3>2, RequestFacts
        <3> QED
            BY <1>0, <2>3, <2>4, <3>3 DEF IsWildcard, TagsOf
    <2> QED
        BY <1>t, <2>5, <2>6
<1>1. CASE invalid[d] /\ stamp'[d] = stamp[d]
    <2>1. PICK c \in Calls : /\ ~IsCheck(c) /\ stamp[c] >= stamp[d]
                             /\ IsWildcard(c) \/ TagsOf(c) \cap TagsOf(d) # {}
        BY <1>c, <1>1 DEF OnlyMarkedIsInvalid
    <2>2. stamp'[c] >= stamp[c] /\ stamp[c] \in Int /\ stamp'[c] \in Int
        BY <2>1, StampGrows
    <2>3. stamp[d] \in Int
        BY DEF TypeOK
    <2> QED
        BY <1>0, <1>1, <2>1, <2>2, <2>3 DEF IsCheck, IsWildcard, TagsOf
<1>2. ASSUME NEW n \in Nodes, NEW c \in Calls, Step(n, c)
      PROVE  Marked(d)'
    <2>1. CASE c # d
        BY <1>1, <1>2, <2>1, OwnVerdict
    <2>2. CASE c = d
        <3>1. pc[n][d] \in CheckSteps \ {"idle"} /\ pc[n][d] # "stamp"
            BY <1>c, <1>2, <2>2, StepRuns DEF ChecksAtHome, CheckSteps
        <3>2. n = home[d] /\ stamp[d] >= 1
            BY <1>c, <3>1 DEF ChecksAtHome
        <3>3. stamp'[d] = stamp[d]
            BY <1>2, <2>2, <3>1, Changes DEF Stamps, At
        <3>v. ASSUME NEW b, Verdict(d, b)
              PROVE  b
            BY <3>v DEF Verdict, TypeOK
        <3>4. CASE invalid[d]
            BY <1>1, <3>3, <3>4
        <3>5. CASE Compare(n, d)
            <4>1. Covers(d, times[n][Wildcard])
                BY <3>5, <3>v DEF Compare
            <4>2. Wildcard \in Sentinels /\ Founded(Wildcard, times[n][Wildcard])
                BY DEF Sentinels, Provenance
            <4> QED
                BY <1>t, <3>2, <3>3, <4>1, <4>2
        <3>6. ASSUME NEW t \in Tags, Scan(n, d, t)
              PROVE  Marked(d)'
            <4>1. Covers(d, times[n][t]) /\ t \in left[n][d] /\ pc[n][d] = "scan"
                BY <3>6, <3>v DEF Scan, At
            <4>2. t \in TagsOf(d) /\ t \in Sentinels /\ Founded(t, times[n][t])
                BY <4>1 DEF AllInHand, InHand, Provenance, Sentinels
            <4> QED
                BY <1>t, <3>2, <3>3, <4>1, <4>2
        <3>7. ASSUME NEW t \in Tags, WriteFound(n, d, t), ~invalid[d]
              PROVE  Marked(d)'
            <4>1. Covers(d, hand[n][d][t]) /\ t \in left[n][d] /\ pc[n][d] = "write"
                BY <3>7, <3>v DEF WriteFound, At
            <4>2. t \in TagsOf(d) /\ t \in Sentinels /\ Founded(t, hand[n][d][t])
                BY <4>1 DEF AllInHand, InHand, Provenance, Sentinels
            <4> QED
                BY <1>t, <3>2, <3>3, <4>1, <4>2
        <3> QED
            BY <1>2, <2>2, <3>4, <3>5, <3>6, <3>7, Changes
    <2> QED
        BY <2>1, <2>2
<1>3. ASSUME NEW c \in Calls, Start(c)
      PROVE  Marked(d)'
    <2>1. invalid[d]
        BY <1>3 DEF Start
    <2>2. c # d
        BY <1>c, <1>3, <2>1 DEF ChecksAtHome, Start, At
    <2>3. stamp'[d] = stamp[d]
        BY <1>3, <2>2 DEF Start, TypeOK
    <2> QED
        BY <1>1, <2>1, <2>3
<1>4. CASE UNCHANGED <<invalid, stamp>>
    BY <1>1, <1>4
<1> QED
    BY <1>2, <1>3, <1>4 DEF Next, vars, FinishRead, Tick, ExpireSentinel

(* Whatever is lost, late, overwritten or expired, a check takes an item   *)
(* for invalid only because of an invalidation of one of its tags, or of   *)
(* all, at or after its creation (IsItemInvalidatedAsync).                 *)
THEOREM NothingInvalidWithoutCause == Spec => []OnlyMarkedIsInvalid
<1>1. Init => OnlyMarkedIsInvalid
    BY DEF Init, OnlyMarkedIsInvalid
<1>2. IInv /\ OnlyMarkedIsInvalid /\ [Next]_vars => OnlyMarkedIsInvalid'
    BY NextOnlyMarked
<1> QED
    BY <1>1, <1>2, InitIInv, NextIInv, PTL DEF Spec

=============================================================================
