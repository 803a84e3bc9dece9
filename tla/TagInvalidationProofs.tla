------------------------ MODULE TagInvalidationProofs ------------------------
(***************************************************************************)
(* What an invalidation by tag promises, for any nodes, tags, calls,       *)
(* requests and bound on the clock: that it holds once it has returned     *)
(* (InvalidationHolds, WildcardHolds), and that one which could not reach  *)
(* the distributed cache stays on its node (FailureStaysHome).             *)
(*                                                                         *)
(* The invariant has three parts: where the tasks of a call are (Places),  *)
(* which invalidation a stamp comes from and how far that one is           *)
(* (Origins), and that a sentinel, once sent, is not found missing         *)
(* (KeptInv).  The verdicts follow from these.                             *)
(***************************************************************************)
EXTENDS TagKeeperProofs

-----------------------------------------------------------------------------
(* Where the tasks are. *)

AtHomeSteps == {"idle", "stamp", "set", "unset", "clear", "take", "send", "return",
                "publish", "done", "failed", "unsaid"}
AwaySteps == {"idle", "inbox", "sync", "clear", "await", "done", "failed"}

(* An invalidation runs on its own node.  Its messages, on the others, are *)
(* sent when it ends.                                                      *)
Place(n, c) ==
    /\ ~IsCheck(c) => pc[n][c] \in (IF n = home[c] THEN AtHomeSteps ELSE AwaySteps)
    /\ n # home[c] /\ pc[n][c] # "idle" => pc[home[c]][c] = "done"
    /\ pc[n][c] \in {"clear", "await"} => IsCheck(c) \/ IsWildcard(c)
    /\ pc[n][c] \in {"return", "unsaid"} => IsWildcard(c)

(* The stamp is taken once. *)
Stage(c) ==
    IF pc[home[c]][c] \in {"idle", "stamp"} THEN stamp[c] = 0
    ELSE pc[home[c]][c] # "failed" => stamp[c] >= 1

(* What is left to a loop of task c on node n. *)
LoopInv(n, c) ==
    /\ pc[n][c] = "unset" => left[n][c] \subseteq Tags
    /\ pc[n][c] = "sync" => left[n][c] \subseteq (IF IsCheck(c) THEN {Wildcard} ELSE TagsOf(c))
    /\ pc[n][c] = "write" => \A t \in left[n][c] : hand[n][c][t] \in Stamp

(* What had ended before a call has ended. *)
BeforeDone == \A d \in Calls : \A a \in before[d] : pc[a[1]][a[2]] = "done"

Places ==
    /\ \A n \in Nodes, c \in Calls : Place(n, c) /\ LoopInv(n, c)
    /\ \A c \in Calls : ~IsCheck(c) => Stage(c)
    /\ BeforeDone

-----------------------------------------------------------------------------
(* Where the stamps come from. *)

Invalidates(c, k) == ~IsCheck(c) /\ k \in TagsOf(c)

(* The call has written L2. *)
Wrote == {"return", "publish", "done", "unsaid"}

(* A call of node m has brought its stamp of k to L2. *)
Brought(k, m) ==
    \E e \in Calls : Invalidates(e, k) /\ home[e] = m /\ pc[m][e] \in Wrote

(* v is the very stamp of an invalidation of k, and was brought to L2 ...  *)
FromL2(k, v) ==
    v \in Stamp /\ v >= 1 =>
        \E c \in Calls : Invalidates(c, k) /\ stamp[c] = v /\ Brought(k, home[c])

(* ... or is that of a call on node n itself. *)
From(n, k, v) ==
    v \in Stamp /\ v >= 1 =>
        \E c \in Calls : /\ Invalidates(c, k) /\ stamp[c] = v
                         /\ home[c] = n \/ Brought(k, home[c])

Origins ==
    \A k \in Sentinels :
        /\ FromL2(k, sentinel[k])
        /\ \A n \in Nodes : /\ From(n, k, times[n][k])
                            /\ \A c \in Calls : From(n, k, hand[n][c][k])

-----------------------------------------------------------------------------
(* What is kept.  All wildcards so far have returned before the first      *)
(* invalidation of t began.                                                *)

Sent(k) == \E m \in Nodes : Brought(k, m)

(* The sentinels that nobody removes once they are sent, of keys for which *)
(* no node starts with 0.                                                  *)
Kept(k) ==
    /\ "expire" \notin Faults
    /\ IF k \in Tags THEN WildcardsFirst(k) ELSE ~Unsynced

(* The steps up to which a wildcard or its message has not set the field.  *)
NotYetSet == {"idle", "stamp", "set", "inbox", "sync"}

KeptInv ==
    \A k \in Sentinels : Kept(k) =>
        /\ sentinel[k] # 0
        /\ Sent(k) => sentinel[k] # MinValue
        /\ \A n \in Nodes :
            /\ times[n][k] # 0
            /\ times[n][k] = Pending => Sent(k)
            /\ times[n][k] = MinValue =>
                k = Wildcard /\ \A c \in Wildcards : pc[n][c] \in NotYetSet
            /\ \A c \in Calls : /\ hand[n][c][k] \notin {0, MinValue}
                                /\ k = Wildcard /\ IsCheck(c) => pc[n][c] # "sync"

JInv == IInv /\ Places /\ Origins /\ KeptInv

-----------------------------------------------------------------------------
(* The verdicts.  A check that began after a wildcard had set the field of *)
(* its node, and that got past the field, has a younger item.              *)
PastField ==
    "expire" \notin Faults /\ ~Unsynced =>
        \A c \in Wildcards, d \in Calls :
            /\ IsCheck(d) /\ <<home[d], c>> \in before[d]
            /\ \/ At(home[d], d, "scan") \/ At(home[d], d, "write")
               \/ Checked(d) /\ ~invalid[d]
            => ~OlderThanAll(d, Wildcards)

(* A check has a tag still to look at, or at L2, or knows the answer.      *)
Outstanding(d, t) ==
    LET n == home[d]
    IN  \/ pc[n][d] = "scan" /\ (t \in left[n][d] \/ hand[n][d][t] = Pending)
        \/ pc[n][d] = "write" /\ (t \in left[n][d] \/ invalid[d])
        \/ pc[n][d] \notin {"scan", "write"} /\ (pc[n][d] = "done" => invalid[d])

PastTag ==
    \A t \in Tags : Kept(t) =>
        \A c \in MarksOf(t), d \in Calls :
            /\ IsCheck(d) /\ t \in TagsOf(d) /\ <<home[c], c>> \in before[d]
            => Outstanding(d, t) \/ ~OlderThanAll(d, MarksOf(t))

-----------------------------------------------------------------------------
(* The steps of a task, told by where it is before and after. *)
Move(n, c) ==
    \/ pc[n][c] = "stamp" /\ pc'[n][c] = "set"
    \/ pc[n][c] = "set" /\ pc'[n][c] \in {"set", "send"}
    \/ pc[n][c] = "set" /\ pc'[n][c] = "unset" /\ IsWildcard(c) /\ left'[n][c] = {}
    \/ pc[n][c] = "unset" /\ pc'[n][c] \in {"unset", "take", "clear", "failed"}
    \/ pc[n][c] = "clear" /\ pc'[n][c] = (IF IsWildcard(c) /\ n = home[c] THEN "take" ELSE "await")
    \/ pc[n][c] = "take" /\ pc'[n][c] \in {"failed", "send"}
    \/ pc[n][c] = "send" /\ pc'[n][c] = (IF IsWildcard(c) THEN "return" ELSE "publish")
    \/ pc[n][c] = "send" /\ pc'[n][c] = "failed"
    \/ pc[n][c] = "return" /\ pc'[n][c] \in {"unsaid", "publish"}
    \/ pc[n][c] = "publish" /\ pc'[n][c] = "done"
    \/ pc[n][c] = "inbox" /\ pc'[n][c] = "sync"
    \/ pc[n][c] = "sync" /\ pc'[n][c] \in {"sync", "done"}
    \/ pc[n][c] = "sync" /\ pc'[n][c] = "clear" /\ Wildcard \in left[n][c]
    \/ pc[n][c] = "await" /\ pc'[n][c] \in {"failed", IF IsCheck(c) THEN "compare" ELSE "done"}
    \/ pc[n][c] = "look" /\ pc'[n][c] \in {"failed", "sync", "compare"}
    \/ pc[n][c] = "compare" /\ pc'[n][c] \in {"failed", "done", "scan"}
    \/ pc[n][c] = "scan" /\ pc'[n][c] \in {"failed", "done", "scan", "write"}
    \/ pc[n][c] = "write" /\ pc'[n][c] \in {"done", "write"}

LEMMA Moves ==
    ASSUME TypeOK, NEW n \in Nodes, NEW c \in Calls, Step(n, c)
    PROVE  Move(n, c)
<1> USE Updates DEF At
<1>1. CASE RemoveStep(n, c)
  <2>1. CASE \/ Stamps(n, c) \/ TakeWildcard(n, c) \/ SendToL2(n, c) \/ RemoveSentinels(n, c)
             \/ Return(n, c)
      BY <2>1 DEF Stamps, TakeWildcard, SendToL2, RemoveSentinels, Return, Move
  <2>2. CASE ListTags(n, c)
      BY <2>2 DEF ListTags, Move
  <2>3. CASE Publish(n, c)
    <3>1. pc[n][c] = "publish" /\ pc'[n][c] = "done"
        BY <2>3 DEF Publish, TypeOK
    <3> QED
        BY <3>1 DEF Move
  <2>4. ASSUME NEW k \in Sentinels, SetTime(n, c, k)
        PROVE  Move(n, c)
    <3>1. /\ pc[n][c] = "set" /\ left'[n][c] = left[n][c] \ {k}
          /\ pc'[n][c] = IF left[n][c] # {k} THEN "set" ELSE IF IsWildcard(c) THEN "unset" ELSE "send"
        BY <2>4 DEF SetTime
    <3> QED
        BY <3>1 DEF Move
  <2> QED
      BY <1>1, <2>1, <2>2, <2>3, <2>4 DEF RemoveStep
<1>2. CASE SyncStep(n, c)
  <2>1. CASE Receive(n, c)
      BY <2>1 DEF Receive, Move
  <2>2. CASE ClearTimes(n, c)
      BY <2>2 DEF ClearTimes, Move
  <2>3. CASE AwaitWildcard(n, c)
      BY <2>3 DEF AwaitWildcard, Move
  <2>4. ASSUME NEW k \in Sentinels, ReadAhead(n, c, k)
        PROVE  Move(n, c)
      BY <2>4 DEF ReadAhead, Move
  <2>5. ASSUME NEW k \in Sentinels, StoreRead(n, c, k)
        PROVE  Move(n, c)
      BY <2>5 DEF StoreRead, Move
  <2> QED
      BY <1>2, <2>1, <2>2, <2>3, <2>4, <2>5 DEF SyncStep
<1>3. CASE CheckStep(n, c)
  <2>1. CASE Look(n, c)
      BY <2>1 DEF Look, Move
  <2>2. CASE Compare(n, c)
      BY <2>2 DEF Compare, Move
  <2>3. CASE Search(n, c)
      BY <2>3 DEF Search, Move
  <2>4. ASSUME NEW t \in Tags, Scan(n, c, t)
        PROVE  Move(n, c)
      BY <2>4 DEF Scan, Move
  <2>5. ASSUME NEW t \in Tags, WriteFound(n, c, t)
        PROVE  Move(n, c)
      BY <2>5 DEF WriteFound, Move
  <2> QED
      BY <1>3, <2>1, <2>2, <2>3, <2>4, <2>5 DEF CheckStep
<1> QED
    BY <1>1, <1>2, <1>3 DEF Step

LEMMA MoveFrom ==
    ASSUME NEW n \in Nodes, NEW c \in Calls, Move(n, c)
    PROVE  /\ pc[n][c] \notin {"idle", "done", "failed", "unsaid"}
           /\ pc'[n][c] \notin {"idle", "stamp"}
BY DEF Move

(* Start: only the call's own place is another. *)
LEMMA Starts ==
    ASSUME TypeOK, NEW c \in Calls, Start(c)
    PROVE  /\ home[c] \in Nodes /\ pc[home[c]][c] = "idle"
           /\ pc'[home[c]][c] = IF IsCheck(c) THEN "look"
                                ELSE IF Marks(c) /\ Wildcard \in TagsOf(c) THEN "failed" ELSE "stamp"
           /\ \A m \in Nodes, d \in Calls : m # home[c] \/ d # c => pc'[m][d] = pc[m][d]
           /\ \A d \in Calls : d # c \/ ~IsCheck(c) => stamp'[d] = stamp[d]
           /\ before'[c] = {a \in Nodes \X Calls : pc[a[1]][a[2]] = "done"}
           /\ \A d \in Calls : d # c => before'[d] = before[d]
           /\ UNCHANGED <<now, sentinel, times, home, req, left, hand, invalid>>
<1>1. home[c] \in Nodes
    BY DEF TypeOK
<1> QED
    BY <1>1, Updates DEF Start, At, TypeOK

(* A message reaches a node only when its call ends. *)
LEMMA Delivery ==
    ASSUME TypeOK, ChecksAtHome, \A m \in Nodes, d \in Calls : Place(m, d),
           NEW n \in Nodes, NEW c \in Calls, Step(n, c), NEW m \in Nodes, m # n
    PROVE  /\ pc'[m][c] = pc[m][c] \/ (pc[m][c] = "idle" /\ pc'[m][c] = "inbox" /\ pc[n][c] = "publish")
           /\ pc[n][c] = "publish" => n = home[c] /\ ~IsCheck(c)
           /\ IsCheck(c) => n = home[c]
<1> USE DEF CheckSteps
<1>1. pc[n][c] # "idle" /\ pc[n][c] # "done"
    BY Moves, MoveFrom
<1>2. IsCheck(c) => pc[n][c] # "publish" /\ n = home[c]
    BY <1>1 DEF ChecksAtHome
<1>3. pc[n][c] = "publish" => n = home[c] /\ ~IsCheck(c)
    BY <1>2 DEF Place, AwaySteps
<1>4. pc[n][c] = "publish" => pc[m][c] = "idle"
    BY <1>3 DEF Place
<1> QED
    BY <1>2, <1>3, <1>4, Frame

LEMMA NextPlace ==
    ASSUME IInv, Places, [Next]_vars, NEW m \in Nodes, NEW d \in Calls
    PROVE  Place(m, d)'
<1> USE DEF IInv, Control
<1>0. /\ \A x \in Nodes : Place(x, d)
      /\ home[d] \in Nodes
      /\ UNCHANGED <<home[d], IsCheck(d), IsWildcard(d)>>
    BY Unchanging DEF Places, IsCheck, IsWildcard, TagsOf, TypeOK
<1>1. ASSUME NEW n \in Nodes, Step(n, d)
      PROVE  Place(m, d)'
  <2>0. Move(n, d) /\ pc[n][d] \notin {"idle", "done"}
      BY <1>1, Moves, MoveFrom
  <2>1. \A x \in Nodes : x # n =>
            /\ \/ pc'[x][d] = pc[x][d]
               \/ pc[x][d] = "idle" /\ pc'[x][d] = "inbox" /\ pc[n][d] = "publish"
            /\ pc[n][d] = "publish" => n = home[d] /\ ~IsCheck(d)
            /\ IsCheck(d) => n = home[d]
      BY <1>1, Delivery DEF Places
  <2>2. CASE m = n
    <3>1. m # home[d] => pc[home[d]][d] = "done" /\ pc'[home[d]][d] = "done"
        BY <1>0, <2>0, <2>1, <2>2 DEF Place
    <3>2. ~IsCheck(d) => pc'[m][d] \in (IF m = home[d] THEN AtHomeSteps ELSE AwaySteps)
        BY <1>0, <2>0, <2>2 DEF Place, Move, AtHomeSteps, AwaySteps
    <3>3. pc'[m][d] = "await" => IsCheck(d) \/ IsWildcard(d)
        BY <1>0, <2>0, <2>2 DEF Place, Move
    <3>4. pc'[m][d] = "clear" => IsCheck(d) \/ IsWildcard(d)
      <4>1. CASE pc[m][d] = "unset"
          BY <4>1 DEF AllInHand, InHand
      <4>2. CASE pc[m][d] = "sync" /\ Wildcard \in left[m][d] /\ ~IsCheck(d)
        <5>1. Wildcard \in TagsOf(d) /\ req[d].op # "RemoveByTags"
            BY <4>2 DEF Places, LoopInv, RefusedBulks
        <5> QED
            BY <5>1, RequestFacts DEF IsCheck
      <4> QED
          BY <2>0, <2>2, <4>1, <4>2 DEF Move
    <3>5. pc'[m][d] \in {"return", "unsaid"} => IsWildcard(d)
        BY <1>0, <2>0, <2>2 DEF Place, Move
    <3> QED
        BY <1>0, <3>1, <3>2, <3>3, <3>4, <3>5 DEF Place
  <2>3. CASE m # n /\ pc'[m][d] = pc[m][d]
    <3>1. m # home[d] /\ pc[m][d] # "idle" => pc'[home[d]][d] = "done"
      <4> SUFFICES ASSUME m # home[d], pc[m][d] # "idle"
                   PROVE  pc'[home[d]][d] = "done"
          OBVIOUS
      <4>1. pc[home[d]][d] = "done" /\ n # home[d]
          BY <1>0, <2>0 DEF Place
      <4> QED
          BY <1>0, <2>1, <4>1
    <3> QED
        BY <1>0, <2>3, <3>1 DEF Place
  <2>4. CASE m # n /\ pc'[m][d] = "inbox" /\ pc[n][d] = "publish"
      BY <1>0, <2>0, <2>1, <2>4 DEF Place, Move, AwaySteps
  <2> QED
      BY <2>1, <2>2, <2>3, <2>4
<1>2. ASSUME NEW n \in Nodes, NEW c \in Calls, Step(n, c), c # d
      PROVE  Place(m, d)'
    BY <1>0, <1>2, Frame DEF Place
<1>3. ASSUME Start(d)
      PROVE  Place(m, d)'
    BY <1>0, <1>3, Starts DEF Place, AtHomeSteps
<1>4. ASSUME NEW c \in Calls, Start(c), c # d
      PROVE  Place(m, d)'
    BY <1>0, <1>4, Starts DEF Place
<1>5. CASE UNCHANGED pc
    BY <1>0, <1>5 DEF Place
<1> QED
    BY <1>1, <1>2, <1>3, <1>4, <1>5 DEF Next, vars, FinishRead, Tick, ExpireSentinel

LEMMA DoneStays ==
    ASSUME IInv, Places, [Next]_vars, NEW m \in Nodes, NEW d \in Calls, pc[m][d] = "done"
    PROVE  pc'[m][d] = "done"
<1> USE DEF IInv, Control
<1>1. ASSUME NEW n \in Nodes, NEW c \in Calls, Step(n, c)
      PROVE  pc'[m][d] = "done"
  <2>1. m # n \/ d # c
      BY <1>1, Moves, MoveFrom
  <2>2. CASE d # c
      BY <1>1, <2>2, Frame
  <2>3. CASE d = c /\ m # n
      BY <1>1, <2>3, Delivery DEF Places
  <2> QED
      BY <2>1, <2>2, <2>3
<1>2. ASSUME NEW c \in Calls, Start(c)
      PROVE  pc'[m][d] = "done"
    BY <1>2, Starts
<1> QED
    BY <1>1, <1>2 DEF Next, vars, FinishRead, Tick, ExpireSentinel

LEMMA OwnLoopInv ==
    ASSUME IInv, Places, NEW n \in Nodes, NEW c \in Calls, Step(n, c)
    PROVE  LoopInv(n, c)'
<1> USE Updates DEF At, IInv, Control
<1>0. /\ LoopInv(n, c) /\ Place(n, c) /\ Move(n, c)
      /\ UNCHANGED <<IsCheck(c), TagsOf(c)>>
      /\ IsCheck(c) => pc[n][c] \in CheckSteps
    BY Moves, Changes DEF Places, IsCheck, TagsOf, ChecksAtHome
<1>1. CASE pc'[n][c] = "unset"
  <2>1. \/ ListTags(n, c) /\ left'[n][c] \subseteq Tags
        \/ pc[n][c] = "set" /\ left'[n][c] = {}
    <3>1. CASE pc[n][c] = "unset"
      <4>1. ListTags(n, c) \/ RemoveSentinels(n, c)
          BY <3>1 DEF Step, RemoveStep, SyncStep, CheckStep, Stamps, SetTime, TakeWildcard, SendToL2, Return,
              Publish, Receive, ClearTimes, AwaitWildcard, ReadAhead, StoreRead, Look, Compare,
              Search, Scan, WriteFound
      <4> QED
          BY <1>1, <4>1 DEF ListTags, RemoveSentinels
    <3> QED
        BY <1>0, <1>1, <3>1 DEF Move
  <2> QED
      BY <1>1, <2>1 DEF LoopInv
<1>2. CASE pc'[n][c] = "sync"
  <2>1. pc[n][c] \in {"inbox", "sync", "look"}
      BY <1>0, <1>2 DEF Move
  <2>2. \/ Receive(n, c) \/ Look(n, c)
        \/ \E k \in Sentinels : ReadAhead(n, c, k) \/ StoreRead(n, c, k)
      BY <2>1 DEF Step, RemoveStep, SyncStep, CheckStep, Stamps, SetTime, ListTags, RemoveSentinels,
          TakeWildcard, SendToL2, Return, Publish, ClearTimes, AwaitWildcard, Compare, Search, Scan,
          WriteFound
  <2>3. CASE Receive(n, c)
      BY <1>0, <1>2, <2>3 DEF Receive, LoopInv, CheckSteps
  <2>4. CASE Look(n, c)
      BY <1>0, <1>2, <2>4 DEF Look, LoopInv, Place, AtHomeSteps, AwaySteps
  <2>5. ASSUME NEW k \in Sentinels, ReadAhead(n, c, k)
        PROVE  left'[n][c] \subseteq left[n][c] /\ pc[n][c] = "sync"
      BY <2>5 DEF ReadAhead
  <2>6. ASSUME NEW k \in Sentinels, StoreRead(n, c, k)
        PROVE  left'[n][c] \subseteq left[n][c] /\ pc[n][c] = "sync"
      BY <2>6 DEF StoreRead
  <2> QED
      BY <1>0, <1>2, <2>2, <2>3, <2>4, <2>5, <2>6 DEF LoopInv
<1>3. CASE pc'[n][c] = "write"
  <2>1. pc[n][c] \in {"scan", "write"}
      BY <1>0, <1>3 DEF Move
  <2>2. Search(n, c) \/ \E t \in Tags : Scan(n, c, t) \/ WriteFound(n, c, t)
      BY <2>1 DEF Step, RemoveStep, SyncStep, CheckStep, Stamps, SetTime, ListTags, RemoveSentinels,
          TakeWildcard, SendToL2, Return, Publish, Receive, ClearTimes, AwaitWildcard, ReadAhead, StoreRead,
          Look, Compare
  <2>3. CASE Search(n, c)
    <3> DEFINE found == {t \in Tags : hand[n][c][t] = Pending /\ sentinel[t] # MinValue}
               f == [k \in Sentinels |-> IF k \in found THEN sentinel[k] ELSE Unknown]
    <3>1. Loop(n, c, found) /\ Hold(n, c, f)
        BY <1>3, <2>3 DEF Search
    <3>2. left'[n][c] = found /\ hand'[n][c] = f
        BY <3>1
    <3>3. \A t \in found : f[t] \in Stamp
        BY DEF TypeOK, Sentinels
    <3> QED
        BY <1>3, <3>2, <3>3 DEF LoopInv
  <2>4. ASSUME NEW t \in Tags, Scan(n, c, t)
        PROVE  FALSE
      BY <1>3, <2>4 DEF Scan
  <2>5. ASSUME NEW t \in Tags, WriteFound(n, c, t)
        PROVE  LoopInv(n, c)'
    <3>1. pc[n][c] = "write" /\ hand' = hand /\ left'[n][c] \subseteq left[n][c]
        BY <2>5 DEF WriteFound
    <3> QED
        BY <1>0, <1>3, <3>1 DEF LoopInv
  <2> QED
      BY <2>2, <2>3, <2>4, <2>5
<1> QED
    BY <1>1, <1>2, <1>3 DEF LoopInv

(* What had ended when a call started is noted then, and only then. *)
LEMMA StepKeepsBefore ==
    ASSUME NEW n \in Nodes, NEW c \in Calls, Step(n, c)
    PROVE  before' = before
BY DEF Step, RemoveStep, SyncStep, CheckStep, Stamps, SetTime, ListTags, RemoveSentinels, TakeWildcard,
    SendToL2, Return, Publish, Receive, ClearTimes, AwaitWildcard, ReadAhead, StoreRead, Look, Compare,
    Search, Scan, WriteFound

LEMMA BeforeKept ==
    ASSUME [Next]_vars
    PROVE  before' = before \/ \E c \in Calls : Start(c)
BY StepKeepsBefore DEF Next, vars, FinishRead, Tick, ExpireSentinel

LEMMA NextPlaces == IInv /\ Places /\ [Next]_vars => Places'
<1> SUFFICES ASSUME IInv, Places, [Next]_vars
             PROVE  Places'
    OBVIOUS
<1> USE DEF IInv, Control
<1>1. ASSUME NEW m \in Nodes, NEW d \in Calls
      PROVE  LoopInv(m, d)'
  <2>0. LoopInv(m, d) /\ UNCHANGED <<IsCheck(d), TagsOf(d)>>
      BY Unchanging DEF Places, IsCheck, TagsOf
  <2>1. ASSUME NEW n \in Nodes, NEW c \in Calls, Step(n, c), m # n \/ d # c
        PROVE  LoopInv(m, d)'
      BY <2>0, <2>1, Frame DEF LoopInv
  <2>2. ASSUME NEW c \in Calls, Start(c)
        PROVE  LoopInv(m, d)'
    <3>1. pc'[m][d] \in {pc[m][d], "look", "failed", "stamp"} /\ UNCHANGED <<left, hand>>
        BY <2>2, Starts
    <3> QED
        BY <2>0, <3>1 DEF LoopInv
  <2>3. CASE UNCHANGED <<pc, left, hand>>
      BY <2>0, <2>3 DEF LoopInv
  <2> QED
      BY <2>1, <2>2, <2>3, OwnLoopInv DEF Next, vars, FinishRead, Tick, ExpireSentinel
<1>2. ASSUME NEW d \in Calls, ~IsCheck(d)
      PROVE  Stage(d)'
  <2>0. Stage(d) /\ home[d] \in Nodes /\ UNCHANGED home /\ now >= 1
      BY <1>2, Unchanging DEF Places, TypeOK
  <2>1. ASSUME NEW n \in Nodes, NEW c \in Calls, Step(n, c)
        PROVE  Stage(d)'
    <3>1. CASE c = d /\ n = home[d]
      <4>1. Move(n, d)
          BY <2>1, <3>1, Moves
      <4>2. CASE pc[n][d] = "stamp"
        <5>1. Stamps(n, d)
            BY <2>1, <3>1, <4>2 DEF At, Step, RemoveStep, SyncStep, CheckStep, SetTime, ListTags,
                RemoveSentinels, TakeWildcard, SendToL2, Return, Publish, Receive, ClearTimes,
                AwaitWildcard, ReadAhead, StoreRead, Look, Compare, Search, Scan, WriteFound
        <5>2. stamp'[d] = now /\ pc'[n][d] = "set"
            BY <5>1, Updates DEF Stamps, TypeOK
        <5> QED
            BY <2>0, <3>1, <5>2 DEF Stage
      <4>3. CASE pc[n][d] # "stamp"
        <5>1. stamp'[d] = stamp[d]
            BY <2>1, <3>1, <4>3, Changes DEF Stamps, At
        <5>2. pc[n][d] \notin {"idle", "stamp", "failed"} /\ pc'[n][d] \notin {"idle", "stamp"}
            BY <4>1, <4>3, MoveFrom
        <5> QED
            BY <2>0, <3>1, <5>1, <5>2 DEF Stage
      <4> QED
          BY <4>2, <4>3
    <3>2. CASE c = d /\ n # home[d]
      <4>1. pc'[home[d]][d] = pc[home[d]][d]
        <5>1. Move(n, d) /\ Place(n, d)
            BY <2>1, <3>2, Moves DEF Places
        <5>2. pc[home[d]][d] = "done"
            BY <3>2, <5>1, MoveFrom DEF Place
        <5> QED
            BY <2>0, <5>2, DoneStays
      <4>2. ~Stamps(n, d)
          BY <1>2, <3>2 DEF Places, Place, AwaySteps, Stamps, At
      <4>3. stamp'[d] = stamp[d]
          BY <2>1, <3>2, <4>2, Changes
      <4> QED
          BY <2>0, <4>1, <4>3 DEF Stage
    <3>3. CASE c # d
        BY <2>0, <2>1, <3>3, Frame, OwnVerdict DEF Stage
    <3> QED
        BY <3>1, <3>2, <3>3
  <2>2. ASSUME NEW c \in Calls, Start(c)
        PROVE  Stage(d)'
    <3>1. stamp'[d] = stamp[d]
        BY <1>2, <2>2, Starts
    <3>2. \/ pc'[home[d]][d] = pc[home[d]][d]
          \/ pc[home[d]][d] = "idle" /\ pc'[home[d]][d] \in {"failed", "stamp"}
        BY <1>2, <2>0, <2>2, Starts
    <3> QED
        BY <2>0, <3>1, <3>2 DEF Stage
  <2>3. CASE UNCHANGED <<pc, stamp>>
      BY <2>0, <2>3 DEF Stage
  <2> QED
      BY <2>1, <2>2, <2>3 DEF Next, vars, FinishRead, Tick, ExpireSentinel
<1>3. BeforeDone'
  <2> SUFFICES ASSUME NEW d \in Calls, NEW a \in before'[d]
               PROVE  pc'[a[1]][a[2]] = "done"
      BY DEF BeforeDone
  <2>1. a \in before[d] \/ (a \in Nodes \X Calls /\ pc[a[1]][a[2]] = "done")
      BY Starts, BeforeKept
  <2>2. a[1] \in Nodes /\ a[2] \in Calls /\ pc[a[1]][a[2]] = "done"
      BY <2>1 DEF Places, BeforeDone, TypeOK
  <2> QED
      BY <2>2, DoneStays
<1>4. \A c \in Calls : (~IsCheck(c))' => ~IsCheck(c)
    BY Unchanging DEF IsCheck
<1> QED
    BY <1>1, <1>2, <1>3, <1>4, NextPlace DEF Places

-----------------------------------------------------------------------------
(* What a step puts into the dictionary and the wildcard field, ... *)
LEMMA TimesTaken ==
    ASSUME TypeOK, NEW m \in Nodes, NEW c \in Calls, Step(m, c), NEW n \in Nodes, NEW k \in Sentinels
    PROVE  \/ times'[n][k] = times[n][k]
           \/ m = n /\ k \in Tags /\ times'[n][k] = Unknown
           \/ m = n /\ SetTime(n, c, k) /\ times'[n][k] = hand[n][c][k]
           \/ /\ m = n /\ StoreRead(n, c, k)
              /\ times'[n][k] = IF hand[n][c][k] = Unknown THEN Pending ELSE hand[n][c][k]
           \/ m = n /\ k \in Tags /\ WriteFound(n, c, k) /\ times'[n][k] = hand[n][c][k]
<1>a. ASSUME NEW j \in Sentinels, NEW v, Assign(m, j, v)
      PROVE  times'[n][k] = times[n][k] \/ (m = n /\ j = k /\ times'[n][k] = v)
    BY <1>a, AssignUpdate
<1>1. ASSUME NEW j \in Sentinels, SetTime(m, c, j)
      PROVE  times'[n][k] = times[n][k] \/ (m = n /\ j = k /\ times'[n][k] = hand[n][c][k])
    BY <1>a, <1>1 DEF SetTime
<1>2. ASSUME NEW j \in Sentinels, StoreRead(m, c, j)
      PROVE  \/ times'[n][k] = times[n][k]
             \/ /\ m = n /\ j = k
                /\ times'[n][k] = IF hand[n][c][k] = Unknown THEN Pending ELSE hand[n][c][k]
    BY <1>a, <1>2 DEF StoreRead
<1>3. ASSUME NEW t \in Tags, WriteFound(m, c, t)
      PROVE  times'[n][k] = times[n][k] \/ (m = n /\ t = k /\ times'[n][k] = hand[n][c][k])
    BY <1>a, <1>3 DEF WriteFound, Sentinels
<1>4. ASSUME ClearTimes(m, c)
      PROVE  times'[n][k] = times[n][k] \/ (m = n /\ k \in Tags /\ times'[n][k] = Unknown)
    BY <1>4 DEF ClearTimes, TypeOK
<1> QED
    BY <1>1, <1>2, <1>3, <1>4, Changes

(* ... and what a task takes in hand. *)
LEMMA HandTaken ==
    ASSUME TypeOK, NEW n \in Nodes, NEW c \in Calls, Step(n, c), NEW k \in Sentinels
    PROVE  \/ hand'[n][c][k] \in {hand[n][c][k], Unknown, Pending}
           \/ Stamps(n, c) /\ k \in TagsOf(c) /\ hand'[n][c][k] = now
           \/ TakeWildcard(n, c) /\ k = Wildcard /\ hand'[n][c][k] = times[n][k]
           \/ ReadAhead(n, c, k) /\ hand'[n][c][k] \in Reads(k)
           \/ k \in Tags /\ sentinel[k] # MinValue /\ hand'[n][c][k] = sentinel[k]
<1> DEFINE Goal ==
        \/ hand'[n][c][k] \in {hand[n][c][k], Unknown, Pending}
        \/ Stamps(n, c) /\ k \in TagsOf(c) /\ hand'[n][c][k] = now
        \/ TakeWildcard(n, c) /\ k = Wildcard /\ hand'[n][c][k] = times[n][k]
        \/ ReadAhead(n, c, k) /\ hand'[n][c][k] \in Reads(k)
        \/ k \in Tags /\ sentinel[k] # MinValue /\ hand'[n][c][k] = sentinel[k]
<1>e. EmptyHand[k] = Unknown
    BY DEF EmptyHand
<1>1. CASE Stamps(n, c)
  <2>1. hand'[n][c] = [j \in Sentinels |-> IF j \in TagsOf(c) THEN now ELSE Unknown]
      BY <1>1, Updates DEF Stamps
  <2> QED
      BY <1>1, <2>1
<1>2. CASE TakeWildcard(n, c)
  <2>1. CASE UNCHANGED hand
      BY <2>1
  <2>2. CASE Hold(n, c, [EmptyHand EXCEPT ![Wildcard] = times[n][Wildcard]])
    <3>1. hand'[n][c] = [EmptyHand EXCEPT ![Wildcard] = times[n][Wildcard]]
        BY <2>2, Updates
    <3>2. hand'[n][c][k] = IF k = Wildcard THEN times[n][k] ELSE Unknown
        BY <3>1 DEF EmptyHand
    <3> QED
        BY <1>2, <3>2
  <2> QED
      BY <1>2, <2>1, <2>2 DEF TakeWildcard
<1>3. ASSUME NEW j \in Sentinels, ReadAhead(n, c, j)
      PROVE  Goal
  <2>1. PICK v \in Reads(j) : Hold(n, c, [EmptyHand EXCEPT ![j] = v])
      BY <1>3 DEF ReadAhead
  <2>2. hand'[n][c] = [EmptyHand EXCEPT ![j] = v]
      BY <2>1, Updates
  <2>3. hand'[n][c][k] = IF k = j THEN v ELSE Unknown
      BY <2>2 DEF EmptyHand
  <2> QED
      BY <1>3, <2>1, <2>3
<1>4. ASSUME NEW j \in Sentinels, StoreRead(n, c, j)
      PROVE  Goal
  <2>1. hand'[n][c] = EmptyHand
      BY <1>4, Updates DEF StoreRead
  <2> QED
      BY <1>e, <2>1
<1>5. ASSUME NEW t \in Tags, Scan(n, c, t)
      PROVE  Goal
  <2>1. hand'[n][c] = [hand[n][c] EXCEPT ![t] = IF times[n][t] = Unknown THEN Pending ELSE Unknown]
      BY <1>5, Updates DEF Scan
  <2> QED
      BY <2>1 DEF TypeOK
<1>6. CASE Search(n, c)
  <2> DEFINE found == {t \in Tags : hand[n][c][t] = Pending /\ sentinel[t] # MinValue}
             f == [j \in Sentinels |-> IF j \in found THEN sentinel[j] ELSE Unknown]
  <2>1. CASE Hold(n, c, f)
    <3>1. hand'[n][c] = f
        BY <2>1, Updates
    <3> QED
        BY <3>1
  <2>2. CASE UNCHANGED hand
      BY <2>2
  <2> QED
      BY <1>6, <2>1, <2>2 DEF Search
<1>7. \/ UNCHANGED hand \/ Stamps(n, c) \/ TakeWildcard(n, c) \/ Search(n, c)
      \/ \E j \in Sentinels : ReadAhead(n, c, j) \/ StoreRead(n, c, j)
      \/ \E t \in Tags : Scan(n, c, t)
  <2>1. CASE RemoveStep(n, c)
      BY <2>1 DEF RemoveStep, SetTime, ListTags, RemoveSentinels, SendToL2, Return, Publish
  <2>2. CASE SyncStep(n, c)
      BY <2>2 DEF SyncStep, Receive, ClearTimes, AwaitWildcard
  <2>3. CASE CheckStep(n, c)
      BY <2>3 DEF CheckStep, Look, Compare, WriteFound
  <2> QED
      BY <2>1, <2>2, <2>3 DEF Step
<1>8. CASE UNCHANGED hand
    BY <1>8
<1> QED
    BY <1>1, <1>2, <1>3, <1>4, <1>5, <1>6, <1>7, <1>8

-----------------------------------------------------------------------------
(* Origins: what is known of a stamp stays true. *)
LEMMA StampKept ==
    ASSUME IInv, Places, [Next]_vars, NEW c \in Calls, ~IsCheck(c), stamp[c] # 0
    PROVE  stamp'[c] = stamp[c]
<1> USE DEF IInv, Control
<1>1. ASSUME NEW n \in Nodes, Stamps(n, c)
      PROVE  FALSE
    BY <1>1 DEF Places, Place, Stage, AwaySteps, Stamps, At
<1>2. ASSUME NEW n \in Nodes, NEW d \in Calls, Step(n, d)
      PROVE  stamp'[c] = stamp[c]
    BY <1>1, <1>2, Changes, OwnVerdict
<1>3. ASSUME NEW d \in Calls, Start(d)
      PROVE  stamp'[c] = stamp[c]
    BY <1>3, Starts
<1> QED
    BY <1>2, <1>3 DEF Next, vars, FinishRead, Tick, ExpireSentinel

LEMMA BroughtStays ==
    ASSUME IInv, Places, [Next]_vars, NEW k, NEW m \in Nodes, Brought(k, m)
    PROVE  Brought(k, m)'
<1> USE DEF IInv, Control, Wrote
<1>1. PICK e \in Calls : Invalidates(e, k) /\ home[e] = m /\ pc[m][e] \in Wrote
    BY DEF Brought
<1>2. Invalidates(e, k)' /\ home'[e] = m
    BY <1>1, Unchanging DEF Invalidates, IsCheck, TagsOf
<1>3. pc'[m][e] \in Wrote
  <2>1. ASSUME NEW n \in Nodes, NEW c \in Calls, Step(n, c)
        PROVE  pc'[m][e] \in Wrote
    <3>1. CASE m = n /\ e = c
        BY <1>1, <2>1, <3>1, Moves DEF Move
    <3>2. CASE e # c
        BY <1>1, <2>1, <3>2, Frame
    <3>3. CASE e = c /\ m # n
        BY <1>1, <2>1, <3>3, Delivery DEF Places
    <3> QED
        BY <3>1, <3>2, <3>3
  <2>2. ASSUME NEW c \in Calls, Start(c)
        PROVE  pc'[m][e] \in Wrote
      BY <1>1, <2>2, Starts
  <2> QED
      BY <1>1, <2>1, <2>2 DEF Next, vars, FinishRead, Tick, ExpireSentinel
<1> QED
    BY <1>2, <1>3 DEF Brought

LEMMA FromStays ==
    ASSUME IInv, Places, [Next]_vars, NEW k, NEW v
    PROVE  /\ FromL2(k, v) => FromL2(k, v)'
           /\ \A n \in Nodes : From(n, k, v) => From(n, k, v)'
           /\ \A n \in Nodes : FromL2(k, v) => From(n, k, v)'
<1> USE DEF IInv, Control
<1>1. ASSUME NEW c \in Calls, Invalidates(c, k), stamp[c] = v, v >= 1
      PROVE  /\ Invalidates(c, k)' /\ stamp'[c] = v
             /\ home'[c] = home[c] /\ (Brought(k, home[c]) => Brought(k, home[c])')
  <2>1. ~IsCheck(c) /\ stamp[c] # 0 /\ home[c] \in Nodes
      BY <1>1 DEF Invalidates, TypeOK
  <2>2. stamp'[c] = v
      BY <1>1, <2>1, StampKept
  <2>3. home'[c] = home[c] /\ Invalidates(c, k)'
      BY <1>1, Unchanging DEF Invalidates, IsCheck, TagsOf
  <2>4. Brought(k, home[c]) => Brought(k, home[c])'
      BY <2>1, <2>3, BroughtStays DEF Brought
  <2> QED
      BY <2>2, <2>3, <2>4
<1> QED
    BY <1>1 DEF FromL2, From

LEMMA NextOrigins ==
    ASSUME IInv, Places, Origins, [Next]_vars
    PROVE  Origins'
<1> USE DEF IInv, Control
<1>0. \A k \in Sentinels :
        /\ FromL2(k, sentinel[k])
        /\ \A n \in Nodes : /\ From(n, k, times[n][k])
                            /\ \A c \in Calls : From(n, k, hand[n][c][k])
    BY DEF Origins
<1>f. /\ \A k, v : FromL2(k, v) => FromL2(k, v)'
      /\ \A k, v : \A n \in Nodes : From(n, k, v) \/ FromL2(k, v) => From(n, k, v)'
    BY FromStays
<1>n. /\ \A k, v : v \notin Stamp \/ v \in {0, MinValue} => FromL2(k, v)'
      /\ \A n, k, v : v \notin Stamp \/ v \in {0, MinValue} => From(n, k, v)'
    BY DEF From, FromL2, MinValue
<1>r. \A k \in Sentinels : \A v \in Reads(k) : FromL2(k, v)
    BY <1>0, StampFacts DEF Reads, FromL2
<1>1. ASSUME NEW k \in Sentinels
      PROVE  FromL2(k, sentinel[k])'
  <2>e. \A v : sentinel'[k] = v /\ FromL2(k, v)' => FromL2(k, sentinel[k])'
      BY DEF FromL2, Brought, Invalidates, IsCheck, TagsOf
  <2>1. ASSUME NEW n \in Nodes, NEW c \in Calls, RemoveSentinels(n, c)
        PROVE  FromL2(k, sentinel[k])'
    <3>1. sentinel'[k] \in {sentinel[k], MinValue}
        BY <2>1 DEF RemoveSentinels, TypeOK
    <3> QED
        BY <1>0, <1>f, <1>n, <2>e, <3>1
  <2>2. ASSUME NEW n \in Nodes, NEW c \in Calls, SendToL2(n, c)
        PROVE  FromL2(k, sentinel[k])'
    <3>1. CASE sentinel'[k] = sentinel[k]
        BY <1>0, <1>f, <2>e, <3>1
    <3>2. CASE sentinel'[k] # sentinel[k]
      <4>1. sentinel'[k] = hand[n][c][k] /\ k \in TagsOf(c)
            /\ Goto(n, c, IF IsWildcard(c) THEN "return" ELSE "publish")
          BY <2>2, <3>2 DEF SendToL2, TypeOK
      <4>2. pc'[n][c] \in Wrote /\ pc[n][c] = "send"
          BY <2>2, <4>1, Updates DEF SendToL2, At, Wrote
      <4>3. ~IsCheck(c) /\ n = home[c]
          BY <4>2 DEF Places, Place, AwaySteps, ChecksAtHome, CheckSteps
      <4>4. Brought(k, n)'
          BY <4>1, <4>2, <4>3, Unchanging DEF Brought, Invalidates, IsCheck, TagsOf
      <4>5. PICK v : v = hand[n][c][k]
          OBVIOUS
      <4>6. From(n, k, v)'
          BY <1>0, <1>f, <4>5
      <4>7. FromL2(k, v)'
          BY <4>4, <4>6 DEF From, FromL2
      <4> QED
          BY <2>e, <4>1, <4>5, <4>7
    <3> QED
        BY <3>1, <3>2
  <2>3. ASSUME NEW j \in Sentinels, ExpireSentinel(j)
        PROVE  FromL2(k, sentinel[k])'
    <3>1. sentinel'[k] \in {sentinel[k], MinValue}
        BY <2>3 DEF ExpireSentinel, TypeOK
    <3> QED
        BY <1>0, <1>f, <1>n, <2>e, <3>1
  <2>4. CASE UNCHANGED sentinel
      BY <1>0, <1>f, <2>e, <2>4
  <2> QED
      BY <2>1, <2>2, <2>3, <2>4, Changes DEF Next, vars, Start, FinishRead, Tick
<1>2. ASSUME NEW k \in Sentinels, NEW n \in Nodes
      PROVE  From(n, k, times[n][k])'
  <2>e. \A v : times'[n][k] = v /\ From(n, k, v)' => From(n, k, times[n][k])'
      BY DEF From, Brought, Invalidates, IsCheck, TagsOf
  <2>a. ASSUME NEW m \in Nodes, NEW j \in Sentinels, NEW v, Assign(m, j, v)
        PROVE  times'[n][k] = times[n][k] \/ (m = n /\ j = k /\ times'[n][k] = v)
      BY <2>a, AssignUpdate
  <2>1. ASSUME NEW m \in Nodes, NEW c \in Calls, Step(m, c)
        PROVE  \/ times'[n][k] \in {times[n][k], Pending, Unknown}
               \/ m = n /\ times'[n][k] = hand[n][c][k]
      BY <2>1, TimesTaken
  <2>2. ASSUME NEW m \in Nodes, NEW c \in Calls, Step(m, c)
        PROVE  From(n, k, times[n][k])'
    <3>1. From(n, k, times[n][k])' \/ times'[n][k] \in {Pending, Unknown}
        BY <1>0, <1>f, <2>1, <2>2, <2>e
    <3> QED
        BY <1>n, <2>e, <3>1, StampFacts
  <2>3. ASSUME NEW m \in Nodes, NEW j \in Sentinels, FinishRead(m, j)
        PROVE  From(n, k, times[n][k])'
    <3>1. PICK v \in Reads(j) : Assign(m, j, v)
        BY <2>3 DEF FinishRead
    <3>2. times'[n][k] = times[n][k] \/ (j = k /\ times'[n][k] = v)
        BY <2>a, <3>1
    <3>3. j = k => FromL2(k, v)
        BY <1>r, <3>1
    <3> QED
        BY <1>0, <1>f, <2>e, <3>2, <3>3
  <2>4. CASE UNCHANGED times
      BY <1>0, <1>f, <2>e, <2>4
  <2> QED
      BY <2>2, <2>3, <2>4 DEF Next, vars, Start, Tick, ExpireSentinel
<1>3. ASSUME NEW k \in Sentinels, NEW n \in Nodes, NEW c \in Calls
      PROVE  From(n, k, hand[n][c][k])'
  <2>e. \A v : hand'[n][c][k] = v /\ From(n, k, v)' => From(n, k, hand[n][c][k])'
      BY DEF From, Brought, Invalidates, IsCheck, TagsOf
  <2>u. EmptyHand[k] = Unknown /\ From(n, k, Unknown)' /\ From(n, k, Pending)'
      BY <1>n, StampFacts DEF EmptyHand
  <2>1. CASE hand'[n][c] = hand[n][c]
      BY <1>0, <1>f, <2>e, <2>1
  <2>2. ASSUME Step(n, c)
        PROVE  From(n, k, hand[n][c][k])'
    <3>1. CASE hand'[n][c][k] \in {hand[n][c][k], Unknown, Pending}
        BY <1>0, <1>f, <2>e, <2>u, <3>1
    <3>2. CASE Stamps(n, c) /\ k \in TagsOf(c) /\ hand'[n][c][k] = now
      <4>1. stamp'[c] = now /\ now' = now /\ pc[n][c] = "stamp"
          BY <3>2 DEF Stamps, At, TypeOK
      <4>2. ~IsCheck(c) /\ n = home[c]
          BY <4>1 DEF Places, Place, AwaySteps, ChecksAtHome, CheckSteps
      <4>3. From(n, k, now)'
          BY <3>2, <4>1, <4>2, Unchanging DEF From, Invalidates, IsCheck, TagsOf
      <4> QED
          BY <2>e, <3>2, <4>1, <4>3
    <3>3. CASE hand'[n][c][k] = times[n][k]
        BY <1>0, <1>f, <2>e, <3>3
    <3>4. CASE hand'[n][c][k] \in Reads(k) \cup {sentinel[k]}
        BY <1>0, <1>f, <1>r, <2>e, <3>4
    <3> QED
        BY <2>2, <3>1, <3>2, <3>3, <3>4, HandTaken
  <2>3. ASSUME NEW m \in Nodes, NEW d \in Calls, Step(m, d), m # n \/ d # c
        PROVE  hand'[n][c] = hand[n][c]
      BY <2>3, Frame
  <2> QED
      BY <2>1, <2>2, <2>3 DEF Next, vars, Start, FinishRead, Tick, ExpireSentinel
<1> QED
    <2> SUFFICES ASSUME NEW k \in Sentinels
                 PROVE  /\ FromL2(k, sentinel[k])'
                        /\ \A n \in Nodes : /\ From(n, k, times[n][k])'
                                            /\ \A c \in Calls : From(n, k, hand[n][c][k])'
        BY DEF Origins
    <2> QED
        BY <1>1, <1>2, <1>3

-----------------------------------------------------------------------------
(* What is kept. *)
LEMMA KeptEarlier ==
    ASSUME IInv, Places, [Next]_vars, NEW k \in Sentinels, Kept(k)'
    PROVE  Kept(k)
<1> USE DEF IInv, Control
<1> SUFFICES ASSUME k \in Tags, NEW w \in Wildcards, NEW a \in MarksOf(k), stamp[w] # 0, stamp[a] # 0
             PROVE  <<home[w], w>> \in before[a]
    BY DEF Kept, WildcardsFirst
<1>1. w \in Calls /\ a \in Calls /\ ~IsCheck(a) /\ ~IsCheck(w)
    BY RequestFacts DEF Wildcards, MarksOf, Marks
<1>2. stamp'[w] # 0 /\ stamp'[a] # 0
    BY <1>1, StampKept
<1>3. (w \in Wildcards)' /\ (a \in MarksOf(k))'
    BY Unchanging DEF Wildcards, MarksOf, Marks, IsWildcard, IsCheck, TagsOf
<1>4. <<home[w], w>> \in before'[a]
    BY <1>2, <1>3, Unchanging DEF Kept, WildcardsFirst
<1>5. ~Start(a)
    BY <1>1 DEF Start, At, Places, Stage
<1> QED
    BY <1>1, <1>4, <1>5, BeforeKept, Starts

LEMMA BroughtStamped ==
    ASSUME TypeOK, Places, NEW k \in Sentinels, Sent(k)
    PROVE  \E e \in Calls : Invalidates(e, k) /\ stamp[e] >= 1
<1>1. PICK e \in Calls : Invalidates(e, k) /\ pc[home[e]][e] \in Wrote
    BY DEF Sent, Brought
<1> QED
    BY <1>1 DEF Places, Stage, Invalidates, Wrote

LEMMA SentStays ==
    ASSUME IInv, Places, [Next]_vars, NEW k \in Sentinels, Sent(k)
    PROVE  Sent(k)'
BY BroughtStays DEF Sent, Brought

(* A wildcard that is removing sentinels has not returned, and so removes  *)
(* none that was sent.                                                     *)
LEMMA NoneRemoved ==
    ASSUME IInv, Places, NEW k \in Sentinels, Kept(k), Sent(k),
           NEW n \in Nodes, NEW c \in Calls, RemoveSentinels(n, c)
    PROVE  k \notin left[n][c]
<1> USE DEF IInv, Control
<1>1. pc[n][c] = "unset"
    BY DEF RemoveSentinels, At
<1>2. IsWildcard(c) /\ ~IsCheck(c) /\ left[n][c] \subseteq Tags
    BY <1>1, RequestFacts DEF AllInHand, InHand, Places, LoopInv
<1>3. n = home[c] /\ stamp[c] >= 1
    BY <1>1, <1>2 DEF Places, Place, AwaySteps, Stage
<1>4. PICK a \in Calls : Invalidates(a, k) /\ stamp[a] >= 1
    BY BroughtStamped
<1>5. ASSUME k \in Tags
      PROVE  FALSE
  <2>1. a \in MarksOf(k)
      BY <1>4, <1>5, ConstantsAssumption DEF MarksOf, Marks, Invalidates, IsWildcard
  <2>2. <<n, c>> \in before[a]
      BY <1>2, <1>3, <1>4, <1>5, <2>1 DEF Kept, WildcardsFirst, Wildcards
  <2> QED
      BY <1>1, <2>2 DEF Places, BeforeDone
<1> QED
    BY <1>2, <1>5

(* Who reads a sentinel that is kept has been told that it was sent. *)
LEMMA SyncSent ==
    ASSUME IInv, Places, KeptInv, NEW k \in Sentinels, Kept(k),
           NEW n \in Nodes, NEW c \in Calls, pc[n][c] = "sync", k \in left[n][c]
    PROVE  Sent(k)
<1>1. ~IsCheck(c)
    BY DEF Places, LoopInv, KeptInv
<1>2. k \in TagsOf(c) /\ n # home[c] /\ pc[home[c]][c] = "done" /\ home[c] \in Nodes
    BY <1>1 DEF Places, LoopInv, Place, AtHomeSteps, IInv, TypeOK
<1> QED
    BY <1>1, <1>2 DEF Sent, Brought, Invalidates, Wrote

(* A wildcard leaves the steps before the field is set by setting it. *)
LEMMA FieldSet ==
    ASSUME IInv, Places, NEW n \in Nodes, NEW c \in Wildcards, Step(n, c),
           pc[n][c] \in NotYetSet, pc'[n][c] \notin NotYetSet
    PROVE  times'[n][Wildcard] \in {Pending, hand[n][c][Wildcard]}
<1> USE DEF IInv, Control, NotYetSet
<1>0. c \in Calls /\ TagsOf(c) = {Wildcard} /\ ~IsCheck(c) /\ Wildcard \in Sentinels
    BY RequestFacts DEF Wildcards, Sentinels
<1>1. pc[n][c] \in {"set", "sync"} /\ left[n][c] \subseteq {Wildcard}
    BY <1>0, Moves DEF Move, AllInHand, InHand, Places, LoopInv
<1>2. \E k \in Sentinels : SetTime(n, c, k) \/ StoreRead(n, c, k) \/ ReadAhead(n, c, k)
    BY <1>1 DEF At, Step, RemoveStep, SyncStep, CheckStep, Stamps, ListTags, RemoveSentinels,
        TakeWildcard, SendToL2, Return, Publish, Receive, ClearTimes, AwaitWildcard, Look, Compare,
        Search, Scan, WriteFound
<1>3. ASSUME NEW k \in Sentinels, SetTime(n, c, k)
      PROVE  times'[n][Wildcard] \in {Pending, hand[n][c][Wildcard]}
    BY <1>1, <1>3, AssignUpdate DEF SetTime
<1>4. ASSUME NEW k \in Sentinels, StoreRead(n, c, k)
      PROVE  times'[n][Wildcard] \in {Pending, hand[n][c][Wildcard]}
    BY <1>1, <1>4, AssignUpdate DEF StoreRead
<1>5. ASSUME NEW k \in Sentinels, ReadAhead(n, c, k)
      PROVE  FALSE
    BY <1>5 DEF ReadAhead, At
<1> QED
    BY <1>2, <1>3, <1>4, <1>5

(* The first of a key to be published has just written its sentinel. *)
LEMMA NewlySent ==
    ASSUME IInv, Places, NEW n \in Nodes, NEW c \in Calls, Step(n, c),
           NEW k \in Sentinels, ~Sent(k), Sent(k)'
    PROVE  sentinel'[k] = hand[n][c][k]
<1> USE DEF IInv, Control
<1>1. PICK e \in Calls : /\ Invalidates(e, k) /\ home[e] \in Nodes
                         /\ pc'[home[e]][e] \in Wrote
                         /\ pc[home[e]][e] \notin Wrote
  <2>1. UNCHANGED <<home, req>>
      BY Changes
  <2> QED
      BY <2>1 DEF Sent, Brought, Invalidates, IsCheck, TagsOf
<1>2. e = c /\ n = home[c]
    BY <1>1, Frame, Delivery DEF Places, Wrote
<1>3. pc[n][c] = "send" /\ pc'[n][c] # "failed"
  <2>1. Move(n, c) /\ pc[n][c] \in AtHomeSteps
      BY <1>1, <1>2, Moves DEF Places, Place, Invalidates
  <2> QED
      BY <1>1, <1>2, <2>1 DEF Move, AtHomeSteps, Wrote
<1>4. SendToL2(n, c)
    BY <1>3 DEF At, Step, RemoveStep, SyncStep, CheckStep, Stamps, SetTime, ListTags,
        RemoveSentinels, TakeWildcard, Return, Publish, Receive, ClearTimes, AwaitWildcard, ReadAhead,
        StoreRead, Look, Compare, Search, Scan, WriteFound
<1>5. ~Goto(n, c, "failed")
    BY <1>3, Updates
<1> QED
    BY <1>1, <1>2, <1>4, <1>5 DEF SendToL2, Invalidates

KeptAt(n, k) ==
    /\ times[n][k] # 0
    /\ times[n][k] = Pending => Sent(k)
    /\ times[n][k] = MinValue =>
        k = Wildcard /\ \A c \in Wildcards : pc[n][c] \in NotYetSet

LEMMA NextKeptSentinel ==
    ASSUME IInv, Places, KeptInv, [Next]_vars, NEW k \in Sentinels, Kept(k)'
    PROVE  sentinel'[k] # 0 /\ (Sent(k)' => sentinel'[k] # MinValue)
<1> USE DEF IInv, Control
<1>0. /\ Kept(k) /\ sentinel[k] # 0 /\ (Sent(k) => sentinel[k] # MinValue)
      /\ \A n \in Nodes, c \in Calls : hand[n][c][k] \notin {0, MinValue}
    BY KeptEarlier DEF KeptInv
<1>1. ASSUME NEW n \in Nodes, NEW c \in Calls, Step(n, c)
      PROVE  sentinel'[k] # 0 /\ (Sent(k)' => sentinel'[k] # MinValue)
  <2>1. \/ sentinel'[k] = sentinel[k] \/ sentinel'[k] = hand[n][c][k]
        \/ RemoveSentinels(n, c) /\ k \in left[n][c] /\ sentinel'[k] = MinValue
    <3>1. CASE RemoveSentinels(n, c)
        BY <3>1 DEF RemoveSentinels, TypeOK
    <3>2. CASE SendToL2(n, c)
        BY <3>2 DEF SendToL2, TypeOK
    <3> QED
        BY <1>1, <3>1, <3>2, Changes
  <2>2. CASE Sent(k)
      BY <1>0, <2>1, <2>2, NoneRemoved DEF MinValue
  <2>3. CASE ~Sent(k)
      BY <1>0, <1>1, <2>1, <2>3, NewlySent DEF MinValue
  <2> QED
      BY <2>2, <2>3
<1>2. ASSUME UNCHANGED <<sentinel, pc>>
      PROVE  sentinel'[k] # 0 /\ (Sent(k)' => sentinel'[k] # MinValue)
    BY <1>0, <1>2, Unchanging DEF Sent, Brought, Invalidates, IsCheck, TagsOf
<1>3. ASSUME NEW c \in Calls, Start(c)
      PROVE  sentinel'[k] # 0 /\ (Sent(k)' => sentinel'[k] # MinValue)
  <2>1. Sent(k)' => Sent(k)
    <3>1. \A n \in Nodes, d \in Calls : pc'[n][d] \in Wrote => pc'[n][d] = pc[n][d]
        BY <1>3, Starts DEF Wrote
    <3> QED
        BY <3>1, Unchanging DEF Sent, Brought, Invalidates, IsCheck, TagsOf
  <2> QED
      BY <1>0, <1>3, <2>1 DEF Start
<1>4. ASSUME NEW j \in Sentinels, ExpireSentinel(j)
      PROVE  FALSE
    BY <1>0, <1>4 DEF ExpireSentinel, Kept
<1> QED
    BY <1>1, <1>2, <1>3, <1>4 DEF Next, vars, FinishRead, Tick

LEMMA NextKeptAt ==
    ASSUME IInv, Places, KeptInv, [Next]_vars, NEW k \in Sentinels, Kept(k)', NEW n \in Nodes
    PROVE  KeptAt(n, k)'
<1> USE DEF IInv, Control
<1>0. /\ Kept(k) /\ sentinel[k] # 0 /\ (Sent(k) => sentinel[k] # MinValue /\ Sent(k)')
      /\ \A m \in Nodes, c \in Calls : hand[m][c][k] \notin {0, MinValue}
      /\ KeptAt(n, k) /\ UNCHANGED Wildcards
    BY KeptEarlier, SentStays, Unchanging DEF KeptInv, KeptAt, Wildcards, IsWildcard, TagsOf
<1>s. 0 \in Stamp /\ MinValue \in Stamp /\ MinValue # 0
    BY StampFacts DEF MinValue
<1>1. ASSUME NEW m \in Nodes, NEW c \in Calls, Step(m, c)
      PROVE  KeptAt(n, k)'
  <2>1. CASE times'[n][k] = times[n][k]
    <3>1. ASSUME times[n][k] = MinValue, NEW d \in Wildcards
          PROVE  pc'[n][d] \in NotYetSet
      <4>0. k = Wildcard /\ pc[n][d] \in NotYetSet /\ d \in Calls
          BY <1>0, <3>1 DEF KeptAt, Wildcards
      <4>1. CASE m = n /\ d = c
          BY <1>0, <1>1, <1>s, <2>1, <3>1, <4>0, <4>1, FieldSet, StampFacts
      <4>2. CASE m # n \/ d # c
          BY <1>1, <4>0, <4>2, Frame DEF NotYetSet
      <4> QED
          BY <4>1, <4>2
    <3> QED
        BY <1>0, <2>1, <3>1 DEF KeptAt
  <2>2. CASE k \in Tags /\ times'[n][k] = Unknown
      BY <1>s, <2>2, StampFacts DEF KeptAt
  <2>3. CASE times'[n][k] = hand[n][c][k] /\ hand[n][c][k] \in Stamp
      BY <1>0, <2>3, StampFacts DEF KeptAt
  <2>4. CASE m = n /\ StoreRead(n, c, k) /\ times'[n][k] \in {Pending, hand[n][c][k]}
    <3>1. pc[n][c] = "sync" /\ k \in left[n][c]
        BY <2>4 DEF StoreRead, At
    <3>2. Sent(k)'
        BY <1>0, <3>1, SyncSent
    <3> QED
        BY <1>0, <1>s, <2>4, <3>2, StampFacts DEF KeptAt
  <2>5. m = n /\ SetTime(n, c, k) => hand[n][c][k] \in Stamp
      BY DEF AllInHand, InHand, SetTime, At
  <2>6. m = n /\ k \in Tags /\ WriteFound(n, c, k) => hand[n][c][k] \in Stamp
      BY DEF Places, LoopInv, WriteFound, At
  <2> QED
      BY <1>1, <2>1, <2>2, <2>3, <2>4, <2>5, <2>6, TimesTaken
<1>2. ASSUME NEW m \in Nodes, NEW j \in Sentinels, FinishRead(m, j)
      PROVE  KeptAt(n, k)'
  <2>1. PICK v \in Reads(j) : Assign(m, j, v) /\ times[m][j] = Pending /\ pc' = pc
      BY <1>2 DEF FinishRead
  <2>2. CASE m = n /\ j = k
    <3>1. times'[n][k] = v /\ v \in {sentinel[k], Faulted}
        BY <2>1, <2>2, AssignUpdate DEF Reads
    <3>2. v \notin {0, MinValue, Pending}
        BY <1>0, <1>s, <2>1, <2>2, <3>1, StampFacts DEF KeptAt, TypeOK
    <3> QED
        BY <3>1, <3>2 DEF KeptAt
  <2>3. CASE m # n \/ j # k
      BY <1>0, <2>1, <2>3, AssignUpdate DEF KeptAt
  <2> QED
      BY <2>2, <2>3
<1>3. ASSUME NEW c \in Calls, Start(c)
      PROVE  KeptAt(n, k)'
  <2>1. \A d \in Wildcards : pc[n][d] \in NotYetSet => pc'[n][d] \in NotYetSet
      BY <1>3, Starts, RequestFacts DEF NotYetSet, Wildcards, Marks
  <2> QED
      BY <1>0, <1>3, <2>1, Starts DEF KeptAt
<1>4. CASE UNCHANGED <<times, pc>>
    BY <1>0, <1>4 DEF KeptAt
<1> QED
    BY <1>1, <1>2, <1>3, <1>4 DEF Next, vars, Tick, ExpireSentinel

LEMMA NextKept == IInv /\ Places /\ KeptInv /\ [Next]_vars => KeptInv'
<1> SUFFICES ASSUME IInv, Places, KeptInv, [Next]_vars, NEW k \in Sentinels, Kept(k)'
             PROVE  /\ sentinel'[k] # 0
                    /\ Sent(k)' => sentinel'[k] # MinValue
                    /\ \A n \in Nodes :
                        /\ KeptAt(n, k)'
                        /\ \A c \in Calls : /\ hand'[n][c][k] \notin {0, MinValue}
                                            /\ k = Wildcard /\ IsCheck(c)' => pc'[n][c] # "sync"
    BY DEF KeptInv, KeptAt
<1> USE DEF IInv, Control
<1>0. /\ Kept(k) /\ sentinel[k] # 0 /\ (Sent(k) => sentinel[k] # MinValue)
      /\ \A n \in Nodes :
           /\ KeptAt(n, k)
           /\ \A c \in Calls : /\ hand[n][c][k] \notin {0, MinValue}
                               /\ k = Wildcard /\ IsCheck(c) => pc[n][c] # "sync"
    BY KeptEarlier DEF KeptInv, KeptAt
<1>s. 0 \in Stamp /\ MinValue \in Stamp /\ MinValue # 0
    BY StampFacts DEF MinValue
<1>1. ASSUME NEW n \in Nodes, NEW c \in Calls
      PROVE  hand'[n][c][k] \notin {0, MinValue}
  <2>1. ASSUME Step(n, c)
        PROVE  hand'[n][c][k] \notin {0, MinValue}
    <3>1. now \notin {0, MinValue}
        BY DEF TypeOK, MinValue
    <3>2. CASE TakeWildcard(n, c) /\ k = Wildcard /\ hand'[n][c][k] = times[n][k]
      <4>1. pc[n][c] = "take" /\ c \in Wildcards
          BY <3>2 DEF TakeWildcard, At, AllInHand, InHand, Wildcards
      <4> QED
          BY <1>0, <3>2, <4>1 DEF KeptAt, NotYetSet
    <3>3. CASE ReadAhead(n, c, k) /\ hand'[n][c][k] \in Reads(k)
      <4>1. Sent(k)
          BY <1>0, <3>3, SyncSent DEF ReadAhead, At
      <4> QED
          BY <1>0, <1>s, <3>3, <4>1, StampFacts DEF Reads
    <3>4. CASE k \in Tags /\ sentinel[k] # MinValue /\ hand'[n][c][k] = sentinel[k]
        BY <1>0, <3>4
    <3> QED
        BY <1>0, <1>s, <2>1, <3>1, <3>2, <3>3, <3>4, HandTaken, StampFacts
  <2>2. ASSUME NEW m \in Nodes, NEW d \in Calls, Step(m, d), m # n \/ d # c
        PROVE  hand'[n][c] = hand[n][c]
      BY <2>2, Frame
  <2> QED
      BY <1>0, <2>1, <2>2 DEF Next, vars, Start, FinishRead, Tick, ExpireSentinel
<1>2. ASSUME NEW n \in Nodes, NEW c \in Calls, k = Wildcard, IsCheck(c)
      PROVE  pc'[n][c] # "sync"
  <2>1. ASSUME Step(n, c), pc'[n][c] = "sync"
        PROVE  FALSE
    <3>1. Move(n, c) /\ pc[n][c] \in CheckSteps
        BY <1>2, <2>1, Moves DEF ChecksAtHome
    <3>2. pc[n][c] = "look"
        BY <1>0, <1>2, <2>1, <3>1 DEF Move, CheckSteps
    <3>3. Look(n, c)
        BY <2>1, <3>2 DEF At, Step, RemoveStep, SyncStep, CheckStep, Stamps, SetTime, ListTags,
            RemoveSentinels, TakeWildcard, SendToL2, Return, Publish, Receive, ClearTimes,
            AwaitWildcard, ReadAhead, StoreRead, Compare, Search, Scan, WriteFound
    <3>4. times[n][Wildcard] # 0
        BY <1>0, <1>2 DEF KeptAt
    <3> QED
        BY <2>1, <3>3, <3>4, Updates DEF Look
  <2>2. ASSUME NEW m \in Nodes, NEW d \in Calls, Step(m, d), m # n \/ d # c
        PROVE  pc'[n][c] # "sync"
      BY <1>0, <1>2, <2>2, Frame
  <2>3. ASSUME NEW d \in Calls, Start(d)
        PROVE  pc'[n][c] # "sync"
      BY <1>0, <1>2, <2>3, Starts
  <2> QED
      BY <1>0, <1>2, <2>1, <2>2, <2>3 DEF Next, vars, FinishRead, Tick, ExpireSentinel
<1>3. \A c \in Calls : IsCheck(c)' => IsCheck(c)
    BY Unchanging DEF IsCheck
<1> QED
    BY <1>1, <1>2, <1>3, NextKeptSentinel, NextKeptAt

-----------------------------------------------------------------------------
(* The invariant. *)
LEMMA InitJInv == Init => JInv
<1> SUFFICES ASSUME Init PROVE JInv
    OBVIOUS
<1>1. IInv
    BY InitIInv
<1>2. \A n \in Nodes, c \in Calls : pc[n][c] = "idle" /\ home[c] \in Nodes /\ stamp[c] = 0
    BY <1>1 DEF Init, IInv, TypeOK
<1>3. Places
    BY <1>2 DEF Init, Places, Place, LoopInv, Stage, BeforeDone, AtHomeSteps, AwaySteps
<1>4. Origins
    BY StampFacts DEF Init, Origins, From, FromL2, EmptyHand, MinValue
<1>5. ASSUME NEW k \in Sentinels
      PROVE  ~Sent(k)
    BY <1>2 DEF Sent, Brought, Wrote
<1>6. KeptInv
  <2>1. \A n \in Nodes, k \in Sentinels :
            times[n][k] = IF k # Wildcard THEN Unknown ELSE IF Unsynced THEN 0 ELSE MinValue
      BY DEF Init
  <2>2. \A k \in Sentinels : sentinel[k] = MinValue /\ (k # Wildcard => k \in Tags)
      BY DEF Init, Sentinels
  <2>3. \A n \in Nodes, c \in Calls, k \in Sentinels : hand[n][c][k] = Unknown
      BY DEF Init, EmptyHand
  <2>4. MinValue # 0 /\ Wildcard \notin Tags
      BY ConstantsAssumption DEF MinValue
  <2>5. \A c \in Wildcards : c \in Calls
      BY DEF Wildcards
  <2> QED
      BY <1>2, <1>5, <2>1, <2>2, <2>3, <2>4, <2>5, StampFacts DEF KeptInv, Kept, NotYetSet
<1> QED
    BY <1>1, <1>3, <1>4, <1>6 DEF JInv

LEMMA NextJInv == JInv /\ [Next]_vars => JInv'
BY NextIInv, NextPlaces, NextOrigins, NextKept DEF JInv

LEMMA JInvHolds == Spec => []JInv
BY InitJInv, NextJInv, PTL DEF Spec

-----------------------------------------------------------------------------
(* The invalidations whose stamps the entry of k holds. *)
InvalidationsOf(k) == IF k \in Tags THEN MarksOf(k) ELSE Wildcards

LEMMA StampedOf ==
    ASSUME IInv, NEW k \in Sentinels, NEW e \in Calls, Invalidates(e, k), stamp[e] # 0
    PROVE  e \in InvalidationsOf(k)
<1>1. CASE k \in Tags
    BY <1>1, ConstantsAssumption DEF InvalidationsOf, MarksOf, Marks, Invalidates, IsWildcard
<1>2. CASE k = Wildcard
  <2>1. req[e].op = "RemoveByTag"
      BY <1>2, RequestFacts DEF IInv, Control, RefusedBulks, Invalidates, IsCheck
  <2>2. IsWildcard(e)
      BY <1>2, <2>1, RequestFacts DEF IInv, Invalidates
  <2> QED
      BY <1>2, <2>2, ConstantsAssumption DEF InvalidationsOf, Wildcards
<1> QED
    BY <1>1, <1>2 DEF Sentinels

(* The stamp of any of them covers an item that is older than all.         *)
LEMMA OlderIsCovered ==
    ASSUME IInv, NEW n \in Nodes, NEW k \in Sentinels, NEW v \in Stamp \ {0, MinValue}, From(n, k, v),
           NEW d \in Calls, OlderThanAll(d, InvalidationsOf(k))
    PROVE  Covers(d, v)
<1>1. v >= 1
    BY ConstantsAssumption DEF Stamp, MinValue
<1>2. PICK e \in Calls : Invalidates(e, k) /\ stamp[e] = v
    BY <1>1 DEF From
<1>3. stamp[e] # 0 /\ stamp[e] \in Int /\ stamp[d] \in Int
    BY <1>1, <1>2 DEF IInv, TypeOK
<1>4. stamp[d] <= stamp[e]
    BY <1>2, <1>3, StampedOf DEF OlderThanAll
<1> QED
    BY <1>2, <1>3, <1>4 DEF Covers

LEMMA CheckStampKept ==
    ASSUME IInv, [Next]_vars, NEW d \in Calls, IsCheck(d), pc[home[d]][d] # "idle"
    PROVE  stamp'[d] = stamp[d]
<1> USE DEF IInv, Control
<1>1. ASSUME NEW n \in Nodes, NEW c \in Calls, Step(n, c)
      PROVE  stamp'[d] = stamp[d]
  <2>1. ~Stamps(n, d)
      BY DEF Stamps, At, ChecksAtHome, CheckSteps
  <2> QED
      BY <1>1, <2>1, Changes, OwnVerdict
<1>2. ASSUME NEW c \in Calls, Start(c)
      PROVE  stamp'[d] = stamp[d]
    BY <1>2, Starts
<1> QED
    BY <1>1, <1>2 DEF Next, vars, FinishRead, Tick, ExpireSentinel

(* More invalidations only make it harder to be older than all.            *)
LEMMA OlderBefore ==
    ASSUME IInv, Places, [Next]_vars, NEW k \in Sentinels, NEW d \in Calls,
           IsCheck(d), pc[home[d]][d] # "idle", OlderThanAll(d, InvalidationsOf(k))'
    PROVE  OlderThanAll(d, InvalidationsOf(k))
<1> SUFFICES ASSUME NEW e \in InvalidationsOf(k), stamp[e] # 0
             PROVE  stamp[d] <= stamp[e]
    BY DEF OlderThanAll
<1>1. e \in Calls /\ ~IsCheck(e)
    BY RequestFacts DEF InvalidationsOf, MarksOf, Marks, Wildcards, IInv
<1>2. stamp'[e] = stamp[e] /\ stamp'[d] = stamp[d]
    BY <1>1, StampKept, CheckStampKept
<1>3. InvalidationsOf(k)' = InvalidationsOf(k)
    BY Unchanging DEF InvalidationsOf, MarksOf, Marks, Wildcards, IsWildcard, IsCheck, TagsOf
<1> QED
    BY <1>2, <1>3 DEF OlderThanAll

(* The tasks of others leave a check as it is. *)
LEMMA CheckFrame ==
    ASSUME IInv, Places, [Next]_vars, NEW d \in Calls, IsCheck(d)
    PROVE  \/ Step(home[d], d)
           \/ Start(d)
           \/ UNCHANGED <<pc[home[d]][d], left[home[d]][d], hand[home[d]][d], invalid[d], before[d]>>
<1> USE DEF IInv, Control
<1>0. home[d] \in Nodes /\ UNCHANGED home
    BY Unchanging DEF TypeOK
<1>1. ASSUME NEW n \in Nodes, NEW c \in Calls, Step(n, c), c # d
      PROVE  UNCHANGED <<pc[home[d]][d], left[home[d]][d], hand[home[d]][d], invalid[d], before[d]>>
    BY <1>0, <1>1, Frame, OwnVerdict, StepKeepsBefore
<1>2. ASSUME NEW n \in Nodes, Step(n, d)
      PROVE  n = home[d]
    BY <1>2, Moves, MoveFrom DEF ChecksAtHome
<1>3. ASSUME NEW c \in Calls, Start(c), c # d
      PROVE  UNCHANGED <<pc[home[d]][d], left[home[d]][d], hand[home[d]][d], invalid[d], before[d]>>
    BY <1>0, <1>3, Starts
<1> QED
    BY <1>1, <1>2, <1>3 DEF Next, vars, FinishRead, Tick, ExpireSentinel

-----------------------------------------------------------------------------
(* The verdicts. *)
LEMMA NextPastField == JInv /\ PastField /\ [Next]_vars => PastField'
<1> SUFFICES ASSUME JInv, PastField, [Next]_vars, "expire" \notin Faults, ~Unsynced,
                    NEW c \in Wildcards', NEW d \in Calls, IsCheck(d)',
                    (<<home[d], c>> \in before[d])',
                    \/ At(home[d], d, "scan")' \/ At(home[d], d, "write")'
                    \/ Checked(d)' /\ ~invalid'[d],
                    OlderThanAll(d, Wildcards)'
             PROVE  FALSE
    BY DEF PastField
<1> USE DEF JInv, IInv, Control
<1> DEFINE n == home[d]
<1>0. /\ n \in Nodes /\ IsCheck(d) /\ c \in Wildcards /\ c \in Calls /\ UNCHANGED <<home, IsCheck(d)>>
      /\ Wildcard \in Sentinels /\ Wildcard \notin Tags
    BY Unchanging, ConstantsAssumption DEF TypeOK, IsCheck, Wildcards, IsWildcard, TagsOf, Sentinels
<1>1. pc'[n][d] \in {"scan", "write"} \/ (pc'[n][d] = "done" /\ ~invalid'[d])
    BY <1>0 DEF At, Checked
<1>2. ~Start(d)
    BY <1>0, <1>1, Starts
<1>o. pc[n][d] # "idle" => OlderThanAll(d, Wildcards)
  <2>1. InvalidationsOf(Wildcard) = Wildcards /\ InvalidationsOf(Wildcard)' = Wildcards'
      BY <1>0 DEF InvalidationsOf
  <2> QED
      BY <1>0, <2>1, OlderBefore DEF OlderThanAll
<1>3. CASE Step(n, d)
  <2>0. Move(n, d) /\ pc[n][d] \notin {"idle", "done"} /\ before' = before
      BY <1>0, <1>3, Moves, MoveFrom, StepKeepsBefore
  <2>1. <<n, c>> \in before[d] /\ pc[n][c] = "done" /\ OlderThanAll(d, Wildcards)
      BY <1>0, <1>o, <2>0 DEF Places, BeforeDone
  <2>2. pc[n][d] \notin {"scan", "write"}
      BY <1>0, <2>1 DEF PastField, At
  <2>3. pc[n][d] \in CheckSteps \ {"sync"}
      BY <1>0 DEF ChecksAtHome, KeptInv, Kept
  <2>4. pc[n][d] = "compare"
      BY <1>0, <1>1, <2>0, <2>2, <2>3 DEF Move, CheckSteps
  <2>5. Compare(n, d)
      BY <1>3, <2>4 DEF At, Step, RemoveStep, SyncStep, CheckStep, Stamps, SetTime, ListTags,
          RemoveSentinels, TakeWildcard, SendToL2, Return, Publish, Receive, ClearTimes, AwaitWildcard,
          ReadAhead, StoreRead, Look, Search, Scan, WriteFound
  <2>6. times[n][Wildcard] \in Stamp \ {0, MinValue}
    <3>1. times[n][Wildcard] # Faulted
        BY <1>0, <1>1, <2>5, Updates DEF Compare
    <3>2. times[n][Wildcard] \notin {0, MinValue}
        BY <1>0, <2>1 DEF KeptInv, Kept, NotYetSet
    <3>3. times[n][Wildcard] \in Value
        BY <1>0 DEF TypeOK, Value
    <3> QED
        BY <1>0, <2>5, <3>1, <3>2, <3>3 DEF Value, Compare, WildcardKnown
  <2>7. Covers(d, times[n][Wildcard])
    <3>1. From(n, Wildcard, times[n][Wildcard]) /\ OlderThanAll(d, InvalidationsOf(Wildcard))
        BY <1>0, <2>1 DEF Origins, InvalidationsOf
    <3> QED
        BY <1>0, <2>6, <3>1, OlderIsCovered
  <2>8. pc'[n][d] = "done" /\ invalid'[d] = Covers(d, times[n][Wildcard])
      BY <1>0, <2>5, <2>6, <2>7, StampFacts, Updates DEF Compare, Verdict, TypeOK
  <2> QED
      BY <1>1, <2>7, <2>8
<1>4. CASE UNCHANGED <<pc[n][d], left[n][d], hand[n][d], invalid[d], before[d]>>
  <2>1. <<n, c>> \in before[d] /\ (pc[n][d] \in {"scan", "write"} \/ (pc[n][d] = "done" /\ ~invalid[d]))
      BY <1>0, <1>1, <1>4
  <2> QED
      BY <1>0, <1>o, <2>1 DEF PastField, At, Checked
<1> QED
    BY <1>0, <1>2, <1>3, <1>4, CheckFrame

(* Each step of a check on a tag it carries. *)
LEMMA TagStep ==
    ASSUME JInv, NEW t \in Tags, Kept(t), Sent(t),
           NEW d \in Calls, IsCheck(d), t \in TagsOf(d), OlderThanAll(d, MarksOf(t)),
           Outstanding(d, t), Step(home[d], d)
    PROVE  Outstanding(d, t)'
<1> USE DEF JInv, IInv, Control
<1> DEFINE n == home[d]
<1>n. n \in Nodes /\ t \in Sentinels /\ UNCHANGED home
    BY Changes DEF TypeOK, Sentinels
<1>0. /\ n \in Nodes /\ t \in Sentinels /\ UNCHANGED home
      /\ times[n][t] \in Value /\ hand[n][d] \in [Sentinels -> Value]
      /\ ~IsWildcard(d)
    BY <1>n, RequestFacts DEF TypeOK, Value
<1>v. ASSUME NEW v \in Stamp \ {0, MinValue}, From(n, t, v)
      PROVE  Covers(d, v)
  <2>1. OlderThanAll(d, InvalidationsOf(t))
      BY DEF InvalidationsOf
  <2> QED
      BY <1>0, <1>v, <2>1, OlderIsCovered
<1>w. \A b : Verdict(d, b) => invalid'[d] = b
    BY DEF Verdict, TypeOK
<1>o. ASSUME \/ pc'[n][d] \notin {"scan", "write", "done"}
             \/ pc'[n][d] = "done" /\ invalid'[d]
             \/ pc'[n][d] = "scan" /\ (t \in left'[n][d] \/ hand'[n][d][t] = Pending)
             \/ pc'[n][d] = "write" /\ (t \in left'[n][d] \/ invalid'[d])
      PROVE  Outstanding(d, t)'
    BY <1>0, <1>o DEF Outstanding
<1>1. pc[n][d] \in CheckSteps
    BY <1>0 DEF ChecksAtHome
<1>2. CASE RemoveStep(n, d)
    BY <1>1, <1>2 DEF RemoveStep, At, CheckSteps, Stamps, SetTime, ListTags, RemoveSentinels,
        TakeWildcard, SendToL2, Return, Publish
<1>3. CASE SyncStep(n, d)
  <2>1. CASE Receive(n, d) \/ ClearTimes(n, d) \/ AwaitWildcard(n, d)
      BY <1>0, <1>o, <2>1, Updates DEF Receive, ClearTimes, AwaitWildcard
  <2>2. ASSUME NEW k \in Sentinels, ReadAhead(n, d, k)
        PROVE  Outstanding(d, t)'
      BY <1>0, <1>o, <2>2, Updates DEF ReadAhead, At
  <2>3. ASSUME NEW k \in Sentinels, StoreRead(n, d, k)
        PROVE  Outstanding(d, t)'
    <3>1. k = Wildcard
        BY <1>0, <2>3 DEF StoreRead, At, Places, LoopInv
    <3> QED
        BY <1>0, <1>o, <2>3, <3>1, Updates DEF StoreRead
  <2> QED
      BY <1>3, <2>1, <2>2, <2>3 DEF SyncStep
<1>4. CASE Look(n, d)
    BY <1>0, <1>o, <1>4, Updates DEF Look
<1>5. CASE Compare(n, d)
  <2>1. /\ left'[n][d] = TagsOf(d) /\ invalid'[d] = Covers(d, times[n][Wildcard])
        /\ pc'[n][d] = IF times[n][Wildcard] = Faulted THEN "failed"
                       ELSE IF Covers(d, times[n][Wildcard]) THEN "done" ELSE "scan"
      BY <1>0, <1>5, <1>w, Updates DEF Compare
  <2> QED
      BY <1>o, <2>1
<1>6. CASE Search(n, d)
  <2> DEFINE found == {u \in Tags : hand[n][d][u] = Pending /\ sentinel[u] # MinValue}
  <2>1. pc[n][d] = "scan" /\ left[n][d] = {}
      BY <1>6 DEF Search, At
  <2>2. hand[n][d][t] = Pending /\ sentinel[t] # MinValue
      BY <1>0, <2>1 DEF Outstanding, KeptInv
  <2>3. CASE Loop(n, d, found) /\ Goto(n, d, IF found = {} THEN "done" ELSE "write")
    <3>1. t \in found
        BY <2>2
    <3>2. t \in left'[n][d] /\ pc'[n][d] = "write"
        BY <1>0, <2>3, <3>1, Updates
    <3> QED
        BY <1>o, <3>2
  <2>4. CASE Goto(n, d, "failed")
      BY <1>0, <1>o, <2>4, Updates
  <2> QED
      BY <1>6, <2>3, <2>4 DEF Search
<1>7. ASSUME NEW u \in Tags, Scan(n, d, u)
      PROVE  Outstanding(d, t)'
  <2>1. /\ pc[n][d] = "scan" /\ times[n][u] # Pending
        /\ left'[n][d] = left[n][d] \ {u}
        /\ hand'[n][d] = [hand[n][d] EXCEPT ![u] = IF times[n][u] = Unknown THEN Pending ELSE Unknown]
        /\ pc'[n][d] = IF times[n][u] = Faulted THEN "failed"
                       ELSE IF Covers(d, times[n][u]) THEN "done" ELSE "scan"
        /\ invalid'[d] = Covers(d, times[n][u])
      BY <1>0, <1>7, <1>w, Updates DEF Scan, At
  <2>2. CASE u # t
    <3>1. hand'[n][d][t] = hand[n][d][t]
        BY <1>0, <2>1, <2>2
    <3>2. t \in left[n][d] \/ hand[n][d][t] = Pending
        BY <2>1 DEF Outstanding
    <3> QED
        BY <1>o, <2>1, <2>2, <3>1, <3>2
  <2>3. CASE u = t /\ times[n][t] = Unknown
    <3>1. hand'[n][d][t] = Pending
        BY <1>0, <2>1, <2>3
    <3>2. ~Covers(d, times[n][t])
        BY <2>3, StampFacts DEF Covers
    <3> QED
        BY <1>o, <2>1, <2>3, <3>1, <3>2, StampFacts
  <2>4. CASE u = t /\ times[n][t] = Faulted
      BY <1>o, <2>1, <2>4
  <2>5. CASE u = t /\ times[n][t] \in Stamp
    <3>1. times[n][t] \notin {0, MinValue} /\ From(n, t, times[n][t])
        BY <1>0, ConstantsAssumption DEF KeptInv, Origins
    <3>2. Covers(d, times[n][t]) /\ times[n][t] # Faulted
        BY <1>v, <2>5, <3>1, StampFacts
    <3> QED
        BY <1>o, <2>1, <2>5, <3>2
  <2> QED
      BY <1>0, <2>1, <2>2, <2>3, <2>4, <2>5 DEF Value
<1>8. ASSUME NEW u \in Tags, WriteFound(n, d, u)
      PROVE  Outstanding(d, t)'
  <2>1. /\ pc[n][d] = "write" /\ u \in left[n][d]
        /\ left'[n][d] = left[n][d] \ {u}
        /\ pc'[n][d] = IF left[n][d] = {u} THEN "done" ELSE "write"
        /\ invalid'[d] = (invalid[d] \/ Covers(d, hand[n][d][u]))
      BY <1>0, <1>8, <1>w, Updates DEF WriteFound, At
  <2>2. t \in left[n][d] \/ invalid[d]
      BY <2>1 DEF Outstanding
  <2>3. CASE u # t
      BY <1>o, <2>1, <2>2, <2>3
  <2>4. CASE u = t
    <3>1. hand[n][d][t] \in Stamp /\ hand[n][d][t] \notin {0, MinValue} /\ From(n, t, hand[n][d][t])
        BY <1>0, <2>1, <2>4 DEF Places, LoopInv, KeptInv, Origins
    <3>2. Covers(d, hand[n][d][t])
        BY <1>v, <3>1
    <3> QED
        BY <1>o, <2>1, <2>4, <3>2
  <2> QED
      BY <2>3, <2>4
<1> QED
    BY <1>2, <1>3, <1>4, <1>5, <1>6, <1>7, <1>8 DEF Step, CheckStep

LEMMA NextPastTag == JInv /\ PastTag /\ [Next]_vars => PastTag'
<1> SUFFICES ASSUME JInv, PastTag, [Next]_vars, NEW t \in Tags, Kept(t)',
                    NEW c \in MarksOf(t)', NEW d \in Calls, IsCheck(d)', (t \in TagsOf(d))',
                    (<<home[c], c>> \in before[d])', OlderThanAll(d, MarksOf(t))'
             PROVE  Outstanding(d, t)'
    BY DEF PastTag
<1> USE DEF JInv, IInv, Control
<1>0. /\ home[d] \in Nodes /\ t \in Sentinels /\ IsCheck(d) /\ t \in TagsOf(d)
      /\ c \in MarksOf(t) /\ c \in Calls /\ home[c] \in Nodes /\ UNCHANGED home
    BY Unchanging DEF TypeOK, IsCheck, MarksOf, Marks, IsWildcard, TagsOf, Sentinels
<1>k. Kept(t)
    BY <1>0, KeptEarlier
<1>o. pc[home[d]][d] # "idle" => OlderThanAll(d, MarksOf(t))
  <2>1. InvalidationsOf(t) = MarksOf(t) /\ InvalidationsOf(t)' = MarksOf(t)'
      BY DEF InvalidationsOf
  <2> QED
      BY <1>0, <2>1, OlderBefore DEF OlderThanAll
<1>1. CASE Step(home[d], d)
  <2>0. pc[home[d]][d] # "idle" /\ before' = before
      BY <1>0, <1>1, Moves, MoveFrom, StepKeepsBefore
  <2>1. <<home[c], c>> \in before[d] /\ OlderThanAll(d, MarksOf(t))
      BY <1>0, <1>o, <2>0
  <2>2. Outstanding(d, t)
      BY <1>0, <1>k, <2>1 DEF PastTag
  <2>3. Sent(t)
    <3>1. pc[home[c]][c] = "done" /\ Invalidates(c, t)
        BY <1>0, <2>1 DEF Places, BeforeDone, MarksOf, Marks, Invalidates
    <3> QED
        BY <1>0, <3>1 DEF Sent, Brought, Wrote
  <2> QED
      BY <1>0, <1>1, <1>k, <2>1, <2>2, <2>3, TagStep
<1>2. CASE Start(d)
    BY <1>0, <1>2, Starts DEF Outstanding
<1>3. CASE UNCHANGED <<pc[home[d]][d], left[home[d]][d], hand[home[d]][d], invalid[d], before[d]>>
  <2>1. CASE pc[home[d]][d] = "idle"
      BY <1>0, <1>3, <2>1 DEF Outstanding
  <2>2. CASE pc[home[d]][d] # "idle"
    <3>1. Outstanding(d, t)
        BY <1>0, <1>3, <1>k, <1>o, <2>2 DEF PastTag
    <3> QED
        BY <1>0, <1>3, <3>1 DEF Outstanding
  <2> QED
      BY <2>1, <2>2
<1> QED
    BY <1>0, <1>1, <1>2, <1>3, CheckFrame

(* A verdict comes from a stamp of the node of the check, or from L2. *)
HomeCause(d) ==
    \E k \in TagsOf(d) \cup {Wildcard}, c \in Calls :
        /\ Invalidates(c, k) /\ stamp[c] >= stamp[d]
        /\ home[c] = home[d] \/ Brought(k, home[c])

LEMMA NextFailure ==
    ASSUME JInv, [Next]_vars, \A d \in Calls : IsCheck(d) /\ invalid[d] => HomeCause(d),
           NEW d \in Calls, IsCheck(d)', invalid'[d]
    PROVE  HomeCause(d)'
<1> USE DEF JInv, IInv, Control
<1> DEFINE n == home[d]
<1>0. n \in Nodes /\ IsCheck(d) /\ UNCHANGED <<home, TagsOf(d)>>
    BY Unchanging DEF TypeOK, IsCheck, TagsOf
<1>c. ASSUME pc[n][d] # "idle", NEW k \in TagsOf(d) \cup {Wildcard}, NEW c \in Calls,
             Invalidates(c, k), stamp[c] >= stamp[d], home[c] = home[d] \/ Brought(k, home[c])
      PROVE  HomeCause(d)'
  <2>1. stamp[d] >= 1 /\ stamp[d] \in Int /\ stamp[c] \in Int /\ home[c] \in Nodes
      BY <1>0, <1>c DEF ChecksAtHome, TypeOK
  <2>2. stamp'[c] = stamp[c] /\ stamp'[d] = stamp[d]
      BY <1>0, <1>c, <2>1, StampKept, CheckStampKept DEF Invalidates
  <2>3. Brought(k, home[c]) => Brought(k, home[c])'
      BY <1>0, <2>1, BroughtStays DEF Brought
  <2>4. Invalidates(c, k)'
      BY <1>c, Unchanging DEF Invalidates, IsCheck, TagsOf
  <2> QED
      BY <1>0, <1>c, <2>2, <2>3, <2>4 DEF HomeCause
<1>v. ASSUME pc[n][d] # "idle", NEW k \in TagsOf(d) \cup {Wildcard}, NEW v, From(n, k, v), Covers(d, v)
      PROVE  HomeCause(d)'
  <2>1. v \in Stamp /\ v >= stamp[d] /\ stamp[d] >= 1 /\ v \in Int /\ stamp[d] \in Int
      BY <1>0, <1>v, StampFacts DEF Covers, ChecksAtHome, TypeOK
  <2>2. PICK c \in Calls : Invalidates(c, k) /\ stamp[c] = v /\ (home[c] = n \/ Brought(k, home[c]))
      BY <1>v, <2>1 DEF From
  <2> QED
      BY <1>c, <1>v, <2>1, <2>2
<1>1. CASE invalid[d]
  <2>1. pc[n][d] # "idle"
      BY <1>0, <1>1 DEF ChecksAtHome
  <2>2. PICK k \in TagsOf(d) \cup {Wildcard}, c \in Calls :
            /\ Invalidates(c, k) /\ stamp[c] >= stamp[d]
            /\ home[c] = home[d] \/ Brought(k, home[c])
      BY <1>0, <1>1 DEF HomeCause
  <2> QED
      BY <1>c, <2>1, <2>2
<1>2. CASE Step(n, d) /\ ~invalid[d]
  <2>0. pc[n][d] # "idle" /\ TagsOf(d) \subseteq Sentinels /\ Wildcard \in Sentinels
      BY <1>0, <1>2, StepRuns, RequestFacts DEF Sentinels
  <2>w. ASSUME NEW b, Verdict(d, b)
        PROVE  b
      BY <2>w DEF Verdict, TypeOK
  <2>1. CASE Compare(n, d)
    <3>1. Covers(d, times[n][Wildcard]) /\ From(n, Wildcard, times[n][Wildcard])
        BY <1>0, <2>0, <2>1, <2>w DEF Compare, Origins
    <3> QED
        BY <1>v, <2>0, <3>1
  <2>2. ASSUME NEW t \in Tags, Scan(n, d, t)
        PROVE  HomeCause(d)'
    <3>1. Covers(d, times[n][t]) /\ t \in left[n][d] /\ pc[n][d] = "scan"
        BY <2>2, <2>w DEF Scan, At
    <3>2. t \in TagsOf(d) /\ From(n, t, times[n][t])
        BY <1>0, <2>0, <3>1 DEF AllInHand, InHand, Origins
    <3> QED
        BY <1>v, <2>0, <3>1, <3>2
  <2>3. ASSUME NEW t \in Tags, WriteFound(n, d, t)
        PROVE  HomeCause(d)'
    <3>1. Covers(d, hand[n][d][t]) /\ t \in left[n][d] /\ pc[n][d] = "write"
        BY <1>2, <2>3, <2>w DEF WriteFound, At
    <3>2. t \in TagsOf(d) /\ From(n, t, hand[n][d][t])
        BY <1>0, <2>0, <3>1 DEF AllInHand, InHand, Origins
    <3> QED
        BY <1>v, <2>0, <3>1, <3>2
  <2>4. invalid' # invalid
      BY <1>2
  <2> QED
      BY <1>0, <1>2, <2>1, <2>2, <2>3, <2>4, Changes
<1>3. Start(d) => UNCHANGED invalid
    BY DEF Start
<1> QED
    BY <1>0, <1>1, <1>2, <1>3, CheckFrame

-----------------------------------------------------------------------------
(* Once RemoveByTagAsync has returned, every node takes an item older than *)
(* all invalidations of the tag for invalid, in whatever order concurrent  *)
(* ones reached L2 and the dictionaries (MarkTagInvalidAsync,              *)
(* IsItemInvalidatedAsync, SyncL1TagFromL2).                               *)
THEOREM OlderItemsAreInvalid == Spec => []InvalidationHolds
<1>1. Init => PastTag
    BY InitIInv DEF Init, PastTag, Outstanding, IInv, TypeOK
<1>2. JInv /\ PastTag => InvalidationHolds
  <2> SUFFICES ASSUME JInv, PastTag, "expire" \notin Faults,
                      NEW t \in Tags, NEW c \in MarksOf(t), NEW d \in Calls, WildcardsFirst(t),
                      <<home[c], c>> \in before[d], Checked(d), t \in TagsOf(d),
                      OlderThanAll(d, MarksOf(t))
               PROVE  invalid[d]
      BY DEF InvalidationHolds
  <2>1. Outstanding(d, t)
      BY DEF PastTag, Kept, Checked
  <2> QED
      BY <2>1 DEF Outstanding, Checked, At
<1> QED
    BY <1>1, <1>2, NextPastTag, InitJInv, NextJInv, PTL DEF Spec

(* The same for the wildcard, on its node and on those that have handled   *)
(* its message (SetWildCard, SyncWildCardFromL2).                          *)
THEOREM OlderItemsFallToWildcard == Spec => []WildcardHolds
<1>1. Init => PastField
    BY InitIInv DEF Init, PastField, Checked, At, IInv, TypeOK
<1>2. PastField => WildcardHolds
    BY DEF PastField, WildcardHolds, Checked, At
<1> QED
    BY <1>1, <1>2, NextPastField, InitJInv, NextJInv, PTL DEF Spec

(* An invalidation that failed before its write to L2 is seen on its own   *)
(* node alone, unless another of that tag, from that node, has brought a   *)
(* stamp to L2.  One that failed after it, which only a wildcard can       *)
(* (SetWildCard's return statement), is seen wherever L2 is read.          *)
THEOREM FailedInvalidationStaysHome == Spec => []FailureStaysHome
<1> DEFINE HomeCauses == \A d \in Calls : IsCheck(d) /\ invalid[d] => HomeCause(d)
<1>1. Init => HomeCauses
    BY DEF Init
<1>2. JInv /\ HomeCauses /\ [Next]_vars => HomeCauses'
  <2> SUFFICES ASSUME JInv, HomeCauses, [Next]_vars, NEW d \in Calls, IsCheck(d)', invalid'[d]
               PROVE  HomeCause(d)'
      OBVIOUS
  <2> QED
      BY NextFailure
<1>3. JInv /\ HomeCauses => FailureStaysHome
  <2>1. JInv => \A e \in Calls : pc[home[e]][e] \in Wrote =>
            \/ pc[home[e]][e] \in {"publish", "done"}
            \/ IsWildcard(e) /\ pc[home[e]][e] \in {"return", "unsaid"}
      BY DEF JInv, IInv, TypeOK, Places, Place, Wrote
  <2> QED
      BY <2>1 DEF HomeCause, FailureStaysHome, Brought, Invalidates
<1> HIDE DEF HomeCauses
<1> QED
    BY <1>1, <1>2, <1>3, InitJInv, NextJInv, PTL DEF Spec

=============================================================================
