-------------------------- MODULE HybridCacheProofs --------------------------
(***************************************************************************)
(* Proofs about HybridCache: what RemoveByTagAsync invalidates is not      *)
(* served, and the sentinel outlives what it invalidates, for any nodes,   *)
(* calls, expirations and number of restarts.                              *)
(***************************************************************************)
EXTENDS HybridCache, TLAPS

-----------------------------------------------------------------------------
(* The inductive invariant. *)

(* Where a call is, and what it has in hand there. *)
Control ==
    \A c \in Calls :
        /\ stamp[c] <= now
        /\ pc[c] = "idle" => stamp[c] = 0
        /\ pc[c] \in {"mark", "send"} => stamp[c] # 0
        /\ pc[c] \in {"putL2", "fill"} => hand[c] # None
        /\ pc[c] = "putL2" => hand[c].by = c /\ hand[c].until > 0
        /\ IF c \in Removals THEN pc[c] \in {"idle", "mark", "send", "done", "lost"}
                             ELSE pc[c] \notin {"mark", "send"}

(* A stamp that is known, or kept in L2, was taken by an invalidation. *)
Taken(v) == \E e \in Removals : stamp[e] = v

Provenance ==
    /\ sentinel # None => Taken(sentinel.stamp)
    /\ \A n \in Nodes : known[n] # Unknown => Taken(known[n])

(* The sentinel is there for every Tag message under way, and so a node    *)
(* that has run or handled an invalidation knows a stamp.                  *)
Announced ==
    /\ \A n \in Nodes :
           /\ \A m \in inbox[n] : m.type = "Tag" => sentinel # None
           /\ told[n] # {} => known[n] # Unknown
    /\ \A c \in Calls : pc[c] = "send" => known[home[c]] # Unknown

(* An item of L2, or a copy of one, has the stamp its writer took for L2. *)
Copied(item) ==
    /\ item.by \notin Removals
    /\ pc[item.by] \in {"putL2", "putL1", "done", "lost"}
    /\ item.stamp = stamp[item.by]

(* An item its writer made for L1 may be younger, but not than the         *)
(* invalidations that began after the write had returned.                  *)
Own(n, item) ==
    /\ item.by \notin Removals
    /\ pc[item.by] = "done" /\ home[item.by] = n
    /\ item.stamp <= now
    /\ \A e \in Removals : stamp[e] # 0 /\ item.by \in before[e] => item.stamp <= stamp[e]

Copies ==
    /\ l2 # None => Copied(l2)
    /\ \A c \in Calls : hand[c] # None => Copied(hand[c])
    /\ \A n \in Nodes : /\ fetched[n] # None => Copied(fetched[n])
                        /\ l1[n] # None => Copied(l1[n]) \/ Own(n, l1[n])
    /\ \A e \in Calls : \A d \in before[e] : pc[d] = "done"

(* How long the item of L2 and the sentinel of an invalidation that has    *)
(* returned are there.                                                     *)
Lifetimes ==
    /\ l2 # None => l2.until > now
    /\ \A c \in Removals :
           pc[c] = "done" =>
               \/ stamp[c] + DistributedCacheExpiration <= now
               \/ sentinel # None /\ sentinel.until >= stamp[c] + DistributedCacheExpiration

IInv == TypeOK /\ Control /\ Provenance /\ Announced /\ Copies /\ Lifetimes

-----------------------------------------------------------------------------
LEMMA InitIInv == Init => IInv
BY ConstantsAssumption
   DEF Init, IInv, TypeOK, Steps, Stamp, Item, Sentinel, Message, Control, Provenance, Taken,
       Announced, Copies, Lifetimes, Removals

LEMMA NextIInv == IInv /\ [Next]_vars => IInv'
<1> SUFFICES ASSUME IInv, [Next]_vars
             PROVE  IInv'
    OBVIOUS
<1> USE ConstantsAssumption DEF IInv, TypeOK, Control, Stamp, Steps, At, Goto, Hold,
        caches, history, calls, Removals
<1>1. ASSUME NEW c \in Calls, StampL2(c)
      PROVE  IInv'
  <2>1. TypeOK'
      BY <1>1 DEF StampL2, Start, Item
  <2>2. Control'
      BY <1>1 DEF StampL2, Start, Control, Item
  <2>3. Provenance'
      BY <1>1 DEF StampL2, Start, Provenance, Taken, Item, Sentinel
  <2>4. Announced'
      BY <1>1 DEF StampL2, Start, Announced, Message
  <2>5. Copies'
      BY <1>1 DEF StampL2, Start, Copies, Copied, Own, Item
  <2>6. Lifetimes'
      BY <1>1 DEF StampL2, Start, Lifetimes, Item, Sentinel
  <2> QED BY <2>1, <2>2, <2>3, <2>4, <2>5, <2>6 DEF IInv
<1>2. ASSUME NEW c \in Calls, PutL2(c)
      PROVE  IInv'
  <2>1. TypeOK'
      BY <1>2 DEF PutL2, Send, TypeOK, Item, Sentinel, Message
  <2>2. Control'
      BY <1>2 DEF PutL2, Send, Control, Item
  <2>3. Provenance'
      BY <1>2 DEF PutL2, Send, Provenance, Taken, Item, Sentinel
  <2>4. Announced'
      BY <1>2 DEF PutL2, Send, Announced, Message
  <2>5. Copies'
      BY <1>2 DEF PutL2, Send, Copies, Copied, Own, Item
  <2>6. Lifetimes'
      BY <1>2 DEF PutL2, Send, Lifetimes, Item, Sentinel
  <2> QED BY <2>1, <2>2, <2>3, <2>4, <2>5, <2>6 DEF IInv
<1>3. ASSUME NEW c \in Calls, PutL1(c)
      PROVE  IInv'
  <2>1. TypeOK'
      BY <1>3 DEF PutL1, Localized, TypeOK, Item, Sentinel, Message
  <2>2. Control'
      BY <1>3 DEF PutL1, Localized, Control, Item
  <2>3. Provenance'
      BY <1>3 DEF PutL1, Localized, Provenance, Taken, Item, Sentinel
  <2>4. Announced'
      BY <1>3 DEF PutL1, Localized, Announced, Message
  <2>5. Copies'
      <3>1. pc[c] = "putL1" /\ pc' = [pc EXCEPT ![c] = "done"] /\ c \notin Removals
          BY <1>3 DEF PutL1
      <3>2. \A item \in Item : Copied(item) => Copied(item)'
          BY <1>3, <3>1 DEF PutL1, Copied, Item
      <3>3. \A n \in Nodes, item \in Item : Own(n, item) => Own(n, item)'
          BY <1>3, <3>1 DEF PutL1, Own, Item
      <3>4. \A item : item = Localized([by |-> c, stamp |-> now, until |-> 0])
                          => Own(home[c], item)'
          BY <1>3, <3>1 DEF PutL1, Own, Localized, Copies
      <3> QED
          BY <1>3, <3>1, <3>2, <3>3, <3>4 DEF PutL1, Copies
  <2>6. Lifetimes'
      BY <1>3 DEF PutL1, Localized, Lifetimes, Item, Sentinel
  <2> QED BY <2>1, <2>2, <2>3, <2>4, <2>5, <2>6 DEF IInv
<1>4. ASSUME NEW c \in Calls, ReadL1(c) \/ ReadL2(c) \/ Recheck(c)
      PROVE  IInv'
  <2>1. PICK item \in {l1[home[c]], l2}, valid \in {"done", "fill"},
             otherwise \in {"readL2", "recheck", "stampL2"} :
             Read(c, item, valid, otherwise) /\ (valid = "fill" => item = l2)
      BY <1>4 DEF ReadL1, ReadL2, Recheck
  <2>2. /\ c \notin Removals /\ pc[c] \in {"idle", "readL2", "recheck"}
        /\ UNCHANGED history
      BY <1>4 DEF ReadL1, ReadL2, Recheck, Start
  <2>3. TypeOK'
      BY <2>1, <2>2 DEF Read, Remember, Known, Sentinel
  <2>4. Control'
      BY <2>1, <2>2 DEF Read, Remember, Known, Control, Item
  <2>5. Provenance'
      BY <2>1, <2>2 DEF Read, Remember, Known, Provenance, Taken, Item, Sentinel
  <2>6. Announced'
      BY <2>1, <2>2 DEF Read, Remember, Known, Announced, Message
  <2>7. Copies'
    <3>1. \A it \in Item : Copied(it) => Copied(it)'
        BY <2>1, <2>2 DEF Read, Copied, Item
    <3>2. \A n \in Nodes, it \in Item : Own(n, it) => Own(n, it)'
        BY <2>1, <2>2 DEF Read, Own, Item
    <3> QED
        BY <2>1, <2>2, <3>1, <3>2 DEF Read, Copies
  <2>8. Lifetimes'
      BY <2>1, <2>2 DEF Read, Remember, Known, Lifetimes, Item, Sentinel
  <2> QED BY <2>3, <2>4, <2>5, <2>6, <2>7, <2>8 DEF IInv
<1>5. ASSUME NEW c \in Calls, Fill(c)
      PROVE  IInv'
  <2>1. TypeOK'
      BY <1>5 DEF Fill, Localized, TypeOK, Item, Sentinel, Message
  <2>2. Control'
      BY <1>5 DEF Fill, Localized, Control, Item
  <2>3. Provenance'
      BY <1>5 DEF Fill, Localized, Provenance, Taken, Item, Sentinel
  <2>4. Announced'
      BY <1>5 DEF Fill, Localized, Announced, Message
  <2>5. Copies'
      BY <1>5 DEF Fill, Localized, Copies, Copied, Own, Item
  <2>6. Lifetimes'
      BY <1>5 DEF Fill, Localized, Lifetimes, Item, Sentinel
  <2> QED BY <2>1, <2>2, <2>3, <2>4, <2>5, <2>6 DEF IInv
<1>6. ASSUME NEW c \in Calls, StampTag(c)
      PROVE  IInv'
  <2>1. TypeOK'
      BY <1>6 DEF StampTag, Start, TypeOK, Item, Sentinel, Message
  <2>2. Control'
      BY <1>6 DEF StampTag, Start, Control, Item
  <2>3. Provenance'
      <3>1. stamp[c] = 0 /\ \A e \in Calls \ {c} : stamp'[e] = stamp[e]
          BY <1>6 DEF StampTag, Start
      <3>2. \A v : v # 0 /\ Taken(v) => Taken(v)'
          BY <1>6, <3>1 DEF StampTag, Start, Taken
      <3> QED
          BY <1>6, <3>2 DEF StampTag, Provenance, Sentinel, MinValue
  <2>4. Announced'
      BY <1>6 DEF StampTag, Start, Announced, Message
  <2>5. Copies'
      BY <1>6 DEF StampTag, Start, Copies, Copied, Own, Item
  <2>6. Lifetimes'
      BY <1>6 DEF StampTag, Start, Lifetimes, Item, Sentinel
  <2> QED BY <2>1, <2>2, <2>3, <2>4, <2>5, <2>6 DEF IInv
<1>7. ASSUME NEW c \in Calls, MarkTag(c)
      PROVE  IInv'
  <2>1. TypeOK'
      BY <1>7 DEF MarkTag, TypeOK, Item, Sentinel, Message
  <2>2. Control'
      BY <1>7 DEF MarkTag, Control, Item
  <2>3. Provenance'
      BY <1>7 DEF MarkTag, Provenance, Taken, Item, Sentinel
  <2>4. Announced'
      BY <1>7 DEF MarkTag, Announced, Message
  <2>5. Copies'
      BY <1>7 DEF MarkTag, Copies, Copied, Own, Item
  <2>6. Lifetimes'
      BY <1>7 DEF MarkTag, Lifetimes, Item, Sentinel
  <2> QED BY <2>1, <2>2, <2>3, <2>4, <2>5, <2>6 DEF IInv
<1>8. ASSUME NEW c \in Calls, SendTag(c)
      PROVE  IInv'
  <2>1. TypeOK'
      BY <1>8 DEF SendTag, Send, TypeOK, Item, Sentinel, Message
  <2>2. Control'
      BY <1>8 DEF SendTag, Send, Control, Item
  <2>3. Provenance'
      BY <1>8 DEF SendTag, Send, Provenance, Taken, Item, Sentinel
  <2>4. Announced'
      BY <1>8 DEF SendTag, Send, Announced, Message, Sentinel
  <2>5. Copies'
      BY <1>8 DEF SendTag, Send, Copies, Copied, Own, Item
  <2>6. Lifetimes'
      BY <1>8 DEF SendTag, Send, Lifetimes, Item, Sentinel
  <2> QED BY <2>1, <2>2, <2>3, <2>4, <2>5, <2>6 DEF IInv
<1>9. ASSUME NEW n \in Nodes, Insert(n)
      PROVE  IInv'
  <2>1. TypeOK'
      BY <1>9 DEF Insert, Localized, TypeOK, Item, Sentinel, Message
  <2>2. Control'
      BY <1>9 DEF Insert, Localized, Control, Item
  <2>3. Provenance'
      BY <1>9 DEF Insert, Localized, Provenance, Taken, Item, Sentinel
  <2>4. Announced'
      BY <1>9 DEF Insert, Localized, Announced, Message
  <2>5. Copies'
      BY <1>9 DEF Insert, Localized, Copies, Copied, Own, Item
  <2>6. Lifetimes'
      BY <1>9 DEF Insert, Localized, Lifetimes, Item, Sentinel
  <2> QED BY <2>1, <2>2, <2>3, <2>4, <2>5, <2>6 DEF IInv
<1>10. ASSUME NEW n \in Nodes, NEW m \in inbox[n], Fetch(n, m)
      PROVE  IInv'
  <2>1. TypeOK'
      BY <1>10 DEF Fetch, Forget, TypeOK, Item, Sentinel, Message
  <2>2. Control'
      BY <1>10 DEF Fetch, Forget, Control, Item
  <2>3. Provenance'
      BY <1>10 DEF Fetch, Forget, Provenance, Taken, Item, Sentinel
  <2>4. Announced'
      BY <1>10 DEF Fetch, Forget, Announced, Message
  <2>5. Copies'
      BY <1>10 DEF Fetch, Forget, Copies, Copied, Own, Item
  <2>6. Lifetimes'
      BY <1>10 DEF Fetch, Forget, Lifetimes, Item, Sentinel
  <2> QED BY <2>1, <2>2, <2>3, <2>4, <2>5, <2>6 DEF IInv
<1>11. ASSUME NEW n \in Nodes, NEW m \in inbox[n], SyncTag(n, m)
      PROVE  IInv'
  <2>1. TypeOK'
      BY <1>11 DEF SyncTag, Forget, TypeOK, Item, Sentinel, Message
  <2>2. Control'
      BY <1>11 DEF SyncTag, Forget, Control, Item
  <2>3. Provenance'
      BY <1>11 DEF SyncTag, Forget, Provenance, Taken, Announced, Sentinel
  <2>4. Announced'
      BY <1>11 DEF SyncTag, Forget, Announced, Message, Sentinel, MinValue
  <2>5. Copies'
      BY <1>11 DEF SyncTag, Forget, Copies, Copied, Own, Item
  <2>6. Lifetimes'
      BY <1>11 DEF SyncTag, Forget, Lifetimes, Item, Sentinel
  <2> QED BY <2>1, <2>2, <2>3, <2>4, <2>5, <2>6 DEF IInv
<1>12. ASSUME NEW n \in Nodes, Restart(n)
      PROVE  IInv'
  <2>1. TypeOK'
      BY <1>12 DEF Restart, TypeOK, Item, Sentinel, Message
  <2>2. Control'
      BY <1>12 DEF Restart, Control, Item
  <2>3. Provenance'
      BY <1>12 DEF Restart, Provenance, Taken, Item, Sentinel
  <2>4. Announced'
      BY <1>12 DEF Restart, Announced, Message
  <2>5. Copies'
      BY <1>12 DEF Restart, Copies, Copied, Own, Item
  <2>6. Lifetimes'
      BY <1>12 DEF Restart, Lifetimes, Item, Sentinel
  <2> QED BY <2>1, <2>2, <2>3, <2>4, <2>5, <2>6 DEF IInv
<1>13. ASSUME Tick
      PROVE  IInv'
  <2>1. TypeOK'
      BY <1>13 DEF Tick, Expire, SentinelsAreReadInTime, TypeOK, Item, Sentinel, Message
  <2>2. Control'
      BY <1>13 DEF Tick, Expire, SentinelsAreReadInTime, Control, Item
  <2>3. Provenance'
      BY <1>13 DEF Tick, Expire, SentinelsAreReadInTime, Provenance, Taken, Item, Sentinel
  <2>4. Announced'
      BY <1>13 DEF Tick, Expire, SentinelsAreReadInTime, Announced, Message
  <2>5. Copies'
      BY <1>13 DEF Tick, Expire, SentinelsAreReadInTime, Copies, Copied, Own, Item
  <2>6. Lifetimes'
      BY <1>13 DEF Tick, Expire, SentinelsAreReadInTime, Lifetimes, Item, Sentinel
  <2> QED BY <2>1, <2>2, <2>3, <2>4, <2>5, <2>6 DEF IInv
<1>14. CASE UNCHANGED vars
    BY <1>14 DEF vars, Provenance, Taken, Announced, Copies, Copied, Own, Lifetimes, Message
<1> QED
    BY <1>1, <1>2, <1>3, <1>4, <1>5, <1>6, <1>7, <1>8, <1>9, <1>10, <1>11, <1>12, <1>13, <1>14
    DEF Next, WriteStep, ReadStep, TagStep, CallbackStep

-----------------------------------------------------------------------------
(* The variables have their types. *)
THEOREM TypeCorrect == Spec => []TypeOK
<1>1. IInv => TypeOK
    BY DEF IInv
<1> QED
    BY <1>1, InitIInv, NextIInv, PTL DEF Spec

(* Once a node has run RemoveByTagAsync or handled its message, an item    *)
(* stamped for L2 no later is invalid there, or is the writer's own copy,  *)
(* stamped while an invalidation was under way.                            *)
THEOREM InvalidatedNotServed == Spec => []InvalidatedIsNotServed
<1>1. IInv => InvalidatedIsNotServed
  <2> SUFFICES ASSUME IInv, NEW n \in Nodes, NEW c \in told[n], NEW item \in {l1[n], l2} \ {None},
                      OlderThanAll(stamp[item.by]), ~Invalid(n, item)
               PROVE  /\ n = home[item.by] /\ item = l1[n]
                      /\ \E e \in Removals : /\ stamp[e] # 0 /\ stamp[e] < item.stamp
                                             /\ item.by \notin before[e]
      BY DEF InvalidatedIsNotServed
  <2>1. known[n] \in Stamp /\ item \in Item
      BY DEF IInv, TypeOK, Announced, Provenance, Taken, Stamp, Removals, MinValue
  <2>2. PICK e \in Removals : stamp[e] = known[n]
      BY <2>1, ConstantsAssumption DEF IInv, Provenance, Taken
  <2>3. stamp[item.by] <= stamp[e] /\ stamp[e] < item.stamp /\ stamp[e] # 0
      BY <2>1, <2>2, ConstantsAssumption DEF OlderThanAll, Invalid, Known, Stamp, Item
  <2>4. ~Copied(item)
      BY <2>1, <2>3, ConstantsAssumption DEF Copied, IInv, TypeOK, Stamp, Item, Removals
  <2>5. item = l1[n] /\ Own(n, item)
      BY <2>4 DEF IInv, Copies
  <2> QED
      BY <2>1, <2>3, <2>5 DEF Own, Item, Stamp, IInv, TypeOK, Removals
<1> QED
    BY <1>1, InitIInv, NextIInv, PTL DEF Spec

(* As long as L2 has an item that an invalidation before has covered and   *)
(* that was not given a longer expiration than the sentinel, every node    *)
(* without the message still to handle finds it invalid.                   *)
THEOREM SentinelsOutlive == Spec => []SentinelOutlives
<1>1. IInv => SentinelOutlives
  <2> SUFFICES ASSUME IInv, NEW c \in Removals, NEW n \in Nodes, At(c, "done"), l2 # None,
                      OlderThanAll(l2.stamp), l2.until <= stamp[c] + DistributedCacheExpiration
               PROVE  Invalid(n, l2)
      BY DEF SentinelOutlives
  <2>1. sentinel # None
      BY ConstantsAssumption DEF IInv, TypeOK, Lifetimes, At, Item, Stamp, Removals
  <2>2. Known(n) \in Stamp
      BY <2>1, ConstantsAssumption
      DEF IInv, TypeOK, Provenance, Taken, Known, Sentinel, Stamp, Removals, MinValue
  <2>3. Taken(Known(n))
      BY <2>1 DEF IInv, Provenance, Known
  <2>4. PICK e \in Removals : stamp[e] = Known(n)
      BY <2>3 DEF Taken
  <2> QED
      BY <2>2, <2>4, ConstantsAssumption DEF OlderThanAll, Invalid, Stamp
<1> QED
    BY <1>1, InitIInv, NextIInv, PTL DEF Spec

=============================================================================
