----------------------- MODULE HybridCacheSyncProofs ------------------------
(***************************************************************************)
(* Proofs about HybridCacheSync, for every set of nodes, keys and calls    *)
(* and every choice of faults.                                             *)
(***************************************************************************)
EXTENDS HybridCacheSync, TLAPS

LEMMA ItemTypes ==
    /\ Absent \in Entry /\ Initial \in Values /\ Values \subseteq Entry
    /\ Calls \subseteq Values /\ Absent \notin Values
    /\ NothingHeld \in [Keys -> Entry]
BY ConstantsAssumption DEF Entry, Values, NothingHeld

LEMMA RequestTypes ==
    ASSUME TypeOK, NEW c \in Calls
    PROVE  /\ req[c].op \in {"Set", "Remove", "GetOrCreate"}
           /\ KeysOf(c) \subseteq Keys
           /\ home[c] \in Nodes
           /\ FirstStep(c) \in Running \ {"publish"}
           /\ AfterPublish(c) \in (Running \cup Ended) \ {"publish"}
BY ConstantsAssumption
   DEF TypeOK, RequestType, KeysOf, FirstStep, AfterPublish, Running, Ended

LEMMA SettledTypes ==
    ASSUME TypeOK, NEW c \in Calls, NEW v, NEW C \in SUBSET Calls
    PROVE  /\ SettledAfterL2Change(c, v) \in [Nodes -> [Keys -> BOOLEAN]]
           /\ SettledAfterInsert(c, v) \in [Nodes -> [Keys -> BOOLEAN]]
           /\ SettledAfterLoss(C) \in [Nodes -> [Keys -> BOOLEAN]]
BY DEF TypeOK, SettledAfterL2Change, SettledAfterInsert, SettledAfterLoss

-----------------------------------------------------------------------------
(* Type correctness: every cache holds entries, every message is one some  *)
(* call published, and a call is at one of the steps of its operation.     *)

LEMMA InitTypeOK == Init => TypeOK
<1> SUFFICES ASSUME Init PROVE TypeOK
    OBVIOUS
<1>1. L2 \in [Keys -> Entry]
    BY ItemTypes DEF Init
<1> QED
    BY <1>1, ItemTypes DEF Init, TypeOK

LEMMA CallStepTypeOK ==
    ASSUME TypeOK, NEW c \in Calls, Start(c) \/ CallStep(c)
    PROVE  TypeOK'
<1> USE DEF Goto
<1>0. /\ c \in Entry /\ Absent \in Entry /\ seen[c] \in Entry
      /\ \A v \in Entry : ChangeL2(c, v) => /\ L2' \in [Keys -> Entry]
                                            /\ settled' \in [Nodes -> [Keys -> BOOLEAN]]
      /\ \A v \in Entry : ChangeL1(c, v) => L1' \in [Nodes -> [Keys -> Entry]]
      /\ \A v \in Entry : InsertL1(c, v) => /\ L1' \in [Nodes -> [Keys -> Entry]]
                                            /\ settled' \in [Nodes -> [Keys -> BOOLEAN]]
    <2>1. c \in Entry /\ Absent \in Entry /\ seen[c] \in Entry
        BY ItemTypes DEF TypeOK
    <2>2. ASSUME NEW v \in Entry, ChangeL2(c, v)
          PROVE  L2' \in [Keys -> Entry] /\ settled' \in [Nodes -> [Keys -> BOOLEAN]]
        BY <2>2, SettledTypes DEF ChangeL2, TypeOK
    <2>3. ASSUME NEW v \in Entry, ChangeL1(c, v)
          PROVE  L1' \in [Nodes -> [Keys -> Entry]]
        BY <2>3, RequestTypes DEF ChangeL1, TypeOK
    <2>4. ASSUME NEW v \in Entry, InsertL1(c, v)
          PROVE  L1' \in [Nodes -> [Keys -> Entry]] /\ settled' \in [Nodes -> [Keys -> BOOLEAN]]
        BY <2>3, <2>4, SettledTypes DEF InsertL1
    <2> QED BY <2>1, <2>2, <2>3, <2>4
<1>1. CASE Start(c)
    BY <1>1, RequestTypes DEF Start, TypeOK
<1>2. CASE PublishCacheUpdate(c)
    <2> DEFINE m == [id |-> c, keys |-> KeysOf(c),
                     type |-> IF req[c].op = "Remove" THEN "Remove" ELSE "Update"]
    <2>1. m \in Message
        BY RequestTypes DEF Message
    <2>2. inbox' = [n \in Nodes |-> IF n = home[c] THEN inbox[n] ELSE inbox[n] \cup {m}]
        BY <1>2 DEF PublishCacheUpdate
    <2> HIDE DEF m
    <2>3. inbox' \in [Nodes -> SUBSET Message]
        BY <2>1, <2>2 DEF TypeOK
    <2> QED
        BY <1>2, <2>3, RequestTypes DEF PublishCacheUpdate, TypeOK
<1>3. CASE PublishFails(c)
    BY <1>3, SettledTypes, RequestTypes DEF PublishFails, TypeOK
<1>4. CASE SetL2(c)
    BY <1>4, <1>0 DEF SetL2, TypeOK, Running
<1>5. CASE SetL1(c)
    BY <1>5, <1>0 DEF SetL1, TypeOK, Ended
<1>6. CASE RemoveL1(c)
    BY <1>6, <1>0 DEF RemoveL1, TypeOK, Running
<1>7. CASE RemoveL2(c)
    BY <1>7, <1>0 DEF RemoveL2, TypeOK, Running, Ended
<1>8. CASE GetL1(c)
    BY <1>8 DEF GetL1, TypeOK, Running, Ended
<1>9. CASE GetL2(c)
    <2>1. seen' \in [Calls -> Entry]
        BY <1>9, RequestTypes DEF GetL2, TypeOK
    <2>2. pc' \in [Calls -> {"idle"} \cup Running \cup Ended]
        BY <1>9 DEF GetL2, TypeOK, Running, Ended
    <2> QED
        BY <1>9, <2>1, <2>2 DEF GetL2, TypeOK
<1>10. CASE FillL1(c)
    BY <1>10, <1>0 DEF FillL1, TypeOK, Ended
<1>11. CASE Recheck(c)
    BY <1>11 DEF Recheck, TypeOK, Running, Ended
<1>12. CASE PutL2(c)
    BY <1>12, <1>0 DEF PutL2, TypeOK, Running, Ended
<1>13. CASE PutL1(c)
    BY <1>13, <1>0 DEF PutL1, TypeOK, Ended
<1> QED
    BY <1>1, <1>2, <1>3, <1>4, <1>5, <1>6, <1>7, <1>8, <1>9, <1>10, <1>11, <1>12, <1>13
    DEF CallStep

LEMMA CallbackTypeOK ==
    ASSUME TypeOK, NEW n \in Nodes, Callback(n)
    PROVE  TypeOK'
<1>1. CASE CallbackInsert(n)
    BY <1>1, ItemTypes DEF CallbackInsert, TypeOK
<1>2. ASSUME NEW m \in inbox[n], CallbackRemove(n, m)
      PROVE  TypeOK'
    BY <1>2, ItemTypes DEF CallbackRemove, Receive, TypeOK
<1>3. ASSUME NEW m \in inbox[n], CallbackRead(n, m)
      PROVE  TypeOK'
    BY <1>3, ItemTypes DEF CallbackRead, Receive, TypeOK
<1>4. ASSUME NEW m \in inbox[n], CallbackFails(n, m)
      PROVE  TypeOK'
    BY <1>4 DEF CallbackFails, Receive, TypeOK
<1> QED
    BY <1>1, <1>2, <1>3, <1>4 DEF Callback

LEMMA EnvironmentTypeOK ==
    ASSUME TypeOK, Environment
    PROVE  TypeOK'
<1>1. ASSUME NEW n \in Nodes, Restart(n)
      PROVE  TypeOK'
    <2> DEFINE dead == {c \in Calls : home[c] = n /\ pc[c] \in Running}
               lost == {c \in dead : pc[c] = "publish"}
    <2>1. SettledAfterLoss(lost) \in [Nodes -> [Keys -> BOOLEAN]]
        BY DEF SettledAfterLoss, TypeOK
    <2>2. settled' = [SettledAfterLoss(lost) EXCEPT ![n] = [k \in Keys |-> TRUE]]
        BY <1>1 DEF Restart
    <2>3. settled' \in [Nodes -> [Keys -> BOOLEAN]]
        BY <2>1, <2>2
    <2>4. pc' \in [Calls -> {"idle"} \cup Running \cup Ended]
        BY <1>1 DEF Restart, TypeOK, Ended
    <2> QED
        BY <1>1, <2>3, <2>4, ItemTypes DEF Restart, TypeOK
<1>2. ASSUME NEW n \in Nodes, NEW k \in Keys, ExpireL1(n, k)
      PROVE  TypeOK'
    BY <1>2, ItemTypes DEF ExpireL1, TypeOK
<1>3. ASSUME NEW k \in Keys, ExpireL2(k)
      PROVE  TypeOK'
    BY <1>3, ItemTypes DEF ExpireL2, TypeOK
<1> QED
    BY <1>1, <1>2, <1>3 DEF Environment

LEMMA NextTypeOK == TypeOK /\ [Next]_vars => TypeOK'
<1> SUFFICES ASSUME TypeOK, [Next]_vars PROVE TypeOK'
    OBVIOUS
<1>1. CASE UNCHANGED vars
    BY <1>1 DEF vars, TypeOK
<1> QED
    BY <1>1, CallStepTypeOK, CallbackTypeOK, EnvironmentTypeOK DEF Next

(* Every variable keeps its type. *)
THEOREM TypeCorrect == Spec => []TypeOK
BY InitTypeOK, NextTypeOK, PTL DEF Spec

-----------------------------------------------------------------------------
(* Coherence.  RemovalIsAnnounced is what makes StaleIsAnnounced inductive:  *)
(* an Update message that finds nothing in L2 repairs nothing, so a Remove   *)
(* message must still be on its way.                                         *)

Both == {"Update", "Remove"}

Current(n, k) ==
    IF held[n][k] # Absent THEN held[n][k] = L2[k] ELSE L1[n][k] \in {Absent, L2[k]}

Coherent(n, k) ==
    settled[n][k] =>
        /\ Announced(n, k, Both) \/ Current(n, k)
        /\ L2[k] = Absent => \/ Announced(n, k, {"Remove"})
                             \/ L1[n][k] = Absent /\ held[n][k] = Absent

Coherence == \A n \in Nodes, k \in Keys : Coherent(n, k)

LEMMA CoherenceMeans == Coherence <=> StaleIsAnnounced /\ RemovalIsAnnounced
BY DEF Coherence, Coherent, Current, Both, StaleIsAnnounced, RemovalIsAnnounced

(* A Remove message is a message. *)
LEMMA AnnouncedWeaken ==
    ASSUME NEW n, NEW k, Announced(n, k, {"Remove"})
    PROVE  Announced(n, k, Both)
BY DEF Announced, Both

(* A step of a call that has nothing left to publish takes no announcement *)
(* away.                                                                   *)
LEMMA AnnouncedKept ==
    ASSUME TypeOK, NEW c \in Calls, NEW n, NEW k, NEW T,
           pc[c] # "publish", NEW s, Goto(c, s), UNCHANGED <<inbox, home, req>>,
           Announced(n, k, T)
    PROVE  Announced(n, k, T)'
<1>1. \A d \in Calls : pc[d] = "publish" => pc'[d] = "publish"
    BY DEF TypeOK, Goto
<1> QED
    BY <1>1 DEF Announced, KeysOf

(* A call that has changed L2 and is about to publish announces its keys   *)
(* to every other node.                                                    *)
LEMMA AnnouncedByChange ==
    ASSUME TypeOK, NEW c \in Calls, NEW n \in Nodes \ {home[c]}, NEW k \in KeysOf(c),
           Goto(c, "publish"), UNCHANGED <<home, req>>
    PROVE  /\ req[c].op = "Remove" => Announced(n, k, {"Remove"})'
           /\ Announced(n, k, Both)'
<1>1. pc'[c] = "publish" /\ home'[c] # n /\ k \in KeysOf(c)' /\ req'[c] = req[c]
    BY DEF TypeOK, Goto, KeysOf
<1> QED
    BY <1>1 DEF Announced, Both

(* No cache, inbox or callback changes and nothing is left to publish. *)
LEMMA CoherentKept ==
    ASSUME TypeOK, NEW c \in Calls, NEW n \in Nodes, NEW k \in Keys,
           pc[c] # "publish", NEW s, Goto(c, s),
           UNCHANGED <<inbox, home, req, held>>,
           L1'[n][k] = L1[n][k], L2'[k] = L2[k], settled'[n][k] = settled[n][k],
           Coherent(n, k)
    PROVE  Coherent(n, k)'
<1>1. Announced(n, k, Both) => Announced(n, k, Both)'
    BY AnnouncedKept
<1>2. Announced(n, k, {"Remove"}) => Announced(n, k, {"Remove"})'
    BY AnnouncedKept
<1> QED
    BY <1>1, <1>2 DEF Coherent, Current

(* A call changes L2 to v, Absent being what a removal leaves. *)
LEMMA CoherentChangeL2 ==
    ASSUME TypeOK, NEW c \in Calls, NEW n \in Nodes, NEW k \in Keys, NEW v \in Entry,
           v = Absent => req[c].op = "Remove",
           pc[c] # "publish", Goto(c, "publish"), ChangeL2(c, v),
           UNCHANGED <<L1, inbox, home, req, held>>,
           Coherent(n, k)
    PROVE  Coherent(n, k)'
<1>1. CASE k \notin KeysOf(c)
    <2>1. L2'[k] = L2[k] /\ settled'[n][k] = settled[n][k]
        BY <1>1 DEF ChangeL2, SettledAfterL2Change
    <2> QED
        BY <2>1, CoherentKept
<1>2. CASE k \in KeysOf(c) /\ n = home[c]
    <2>1. settled'[n][k] => v = Absent /\ L1[n][k] = Absent /\ held[n][k] = Absent
        BY <1>2 DEF ChangeL2, SettledAfterL2Change
    <2> QED
        BY <2>1 DEF Coherent, Current
<1>3. CASE k \in KeysOf(c) /\ n # home[c]
    <2>1. Announced(n, k, Both)' /\ (v = Absent => Announced(n, k, {"Remove"})')
        BY <1>3, AnnouncedByChange
    <2>2. L2'[k] = v
        BY <1>3 DEF ChangeL2
    <2> QED
        BY <2>1, <2>2 DEF Coherent
<1> QED
    BY <1>1, <1>2, <1>3

(* A call inserts v into the L1 of its node. *)
LEMMA CoherentInsertL1 ==
    ASSUME TypeOK, NEW c \in Calls, NEW n \in Nodes, NEW k \in Keys, NEW v \in Entry,
           pc[c] # "publish", NEW s, Goto(c, s), InsertL1(c, v),
           UNCHANGED <<L2, inbox, home, req, held>>,
           Coherent(n, k)
    PROVE  Coherent(n, k)'
<1>1. CASE n # home[c] \/ k \notin KeysOf(c)
    <2>1. L1'[n][k] = L1[n][k] /\ settled'[n][k] = settled[n][k]
        BY <1>1, RequestTypes DEF InsertL1, ChangeL1, SettledAfterInsert, TypeOK
    <2> QED
        BY <2>1, CoherentKept
<1>2. CASE n = home[c] /\ k \in KeysOf(c)
    <2>1. L1'[n][k] = v
        BY <1>2, RequestTypes DEF InsertL1, ChangeL1, TypeOK
    <2>2. settled'[n][k] => v = L2[k] /\ (settled[n][k] \/ held[n][k] \in {Absent, v})
        BY <1>2 DEF InsertL1, SettledAfterInsert
    <2>3. Announced(n, k, Both) => Announced(n, k, Both)'
        BY AnnouncedKept
    <2>4. Announced(n, k, {"Remove"}) => Announced(n, k, {"Remove"})'
        BY AnnouncedKept
    <2> QED
        BY <2>1, <2>2, <2>3, <2>4 DEF Coherent, Current
<1> QED
    BY <1>1, <1>2

(* Only a removal is at a step of RemoveAsync. *)
RemovalSteps ==
    \A c \in Calls : pc[c] \in {"removeL1", "removeL2"} => req[c].op = "Remove"

LEMMA NextRemovalSteps == TypeOK /\ RemovalSteps /\ [Next]_vars => RemovalSteps'
<1> SUFFICES ASSUME TypeOK, RemovalSteps, [Next]_vars PROVE RemovalSteps'
    OBVIOUS
<1>1. req' = req
    BY DEF Next, CallStep, Callback, Environment, vars, Start, PublishCacheUpdate,
           PublishFails, SetL2, SetL1, RemoveL1, RemoveL2, GetL1, GetL2, FillL1,
           Recheck, PutL2, PutL1, CallbackInsert, CallbackRemove, CallbackRead,
           CallbackFails, Restart, ExpireL1, ExpireL2
<1>2. ASSUME NEW c \in Calls, Start(c) \/ CallStep(c)
      PROVE  RemovalSteps'
    <2>1. PICK s : /\ pc' = [pc EXCEPT ![c] = s]
                   /\ s = "removeL1" => req[c].op = "Remove"
                   /\ s = "removeL2" => pc[c] = "removeL1"
        <3>1. CASE Start(c)
            <4>1. /\ pc' = [pc EXCEPT ![c] = FirstStep(c)]
                  /\ FirstStep(c) = "removeL1" => req[c].op = "Remove"
                  /\ FirstStep(c) # "removeL2"
                BY <3>1, RequestTypes DEF Start, Goto, FirstStep
            <4> QED
                BY <4>1
        <3>2. CASE CallStep(c)
            BY <3>2, RequestTypes
            DEF CallStep, Goto, PublishCacheUpdate, PublishFails, SetL2, SetL1, RemoveL1,
                RemoveL2, GetL1, GetL2, FillL1, Recheck, PutL2, PutL1, AfterPublish
        <3> QED
            BY <1>2, <3>1, <3>2
    <2> QED
        BY <1>1, <2>1 DEF RemovalSteps, TypeOK
<1>3. ASSUME NEW n \in Nodes, Restart(n)
      PROVE  RemovalSteps'
    BY <1>1, <1>3 DEF RemovalSteps, Restart
<1>4. CASE pc' = pc
    BY <1>1, <1>4 DEF RemovalSteps
<1>5. \/ \E c \in Calls : Start(c) \/ CallStep(c)
      \/ \E n \in Nodes : Restart(n)
      \/ pc' = pc
    BY DEF Next, Callback, Environment, vars, CallbackInsert, CallbackRemove,
           CallbackRead, CallbackFails, ExpireL1, ExpireL2
<1> QED
    BY <1>2, <1>3, <1>4, <1>5

LEMMA InitCoherence == Init => Coherence
BY DEF Init, Coherence, Coherent, Current, NothingHeld

LEMMA CallStepCoherence ==
    ASSUME TypeOK, RemovalSteps, Coherence, NEW c \in Calls, Start(c) \/ CallStep(c)
    PROVE  Coherence'
<1> SUFFICES ASSUME NEW n \in Nodes, NEW k \in Keys PROVE Coherent(n, k)'
    BY DEF Coherence
<1>0. Coherent(n, k)
    BY DEF Coherence
<1> DEFINE Local == /\ L1'[n][k] = L1[n][k] /\ L2'[k] = L2[k]
                    /\ settled'[n][k] = settled[n][k]
<1>a. c \in Entry /\ c # Absent /\ Absent \in Entry /\ seen[c] \in Entry
    BY ItemTypes DEF TypeOK
<1>1. CASE Start(c)
    BY <1>0, <1>1, CoherentKept DEF Start
<1>2. CASE PublishCacheUpdate(c)
    <2> DEFINE m == [id |-> c, keys |-> KeysOf(c),
                     type |-> IF req[c].op = "Remove" THEN "Remove" ELSE "Update"]
    <2>1. /\ inbox'[n] = IF n = home[c] THEN inbox[n] ELSE inbox[n] \cup {m}
          /\ UNCHANGED <<L1, L2, held, home, req, settled>>
        BY <1>2 DEF PublishCacheUpdate
    <2>2. \A d \in Calls : pc[d] = "publish" => pc'[d] = "publish" \/ d = c
        BY <1>2 DEF PublishCacheUpdate, Goto, TypeOK
    <2>3. ASSUME NEW T, Announced(n, k, T)
          PROVE  Announced(n, k, T)'
        <3>1. CASE \E x \in inbox[n] : k \in x.keys /\ x.type \in T
            BY <2>1, <3>1 DEF Announced
        <3>2. ASSUME NEW d \in Calls, pc[d] = "publish", home[d] # n, k \in KeysOf(d),
                     IF req[d].op = "Remove" THEN "Remove" \in T ELSE "Update" \in T
              PROVE  Announced(n, k, T)'
            <4>1. CASE d = c
                <5>1. m \in inbox'[n] /\ k \in m.keys /\ m.type \in T
                    BY <2>1, <3>2, <4>1
                <5> QED
                    BY <5>1 DEF Announced
            <4>2. CASE d # c
                BY <2>1, <2>2, <3>2, <4>2 DEF Announced, KeysOf
            <4> QED
                BY <4>1, <4>2
        <3> QED
            BY <2>3, <3>1, <3>2 DEF Announced
    <2> QED
        BY <1>0, <2>1, <2>3 DEF Coherent, Current
<1>3. CASE PublishFails(c)
    <2>1. UNCHANGED <<L1, L2, inbox, held, home, req>> /\ Goto(c, AfterPublish(c))
        BY <1>3 DEF PublishFails
    <2>2. settled'[n][k] => settled[n][k] /\ (n = home[c] \/ k \notin KeysOf(c))
        BY <1>3 DEF PublishFails, SettledAfterLoss
    <2>3. ASSUME NEW T, Announced(n, k, T), n = home[c] \/ k \notin KeysOf(c)
          PROVE  Announced(n, k, T)'
        <3>1. \A d \in Calls : pc[d] = "publish" => pc'[d] = "publish" \/ d = c
            BY <2>1 DEF Goto, TypeOK
        <3> QED
            BY <2>1, <2>3, <3>1 DEF Announced, KeysOf
    <2> QED
        BY <1>0, <2>1, <2>2, <2>3 DEF Coherent, Current
<1>4. CASE SetL2(c)
    <2>1. pc[c] # "publish" /\ UNCHANGED <<L1, inbox, held, home, req>>
        BY <1>4 DEF SetL2
    <2>2. \/ Goto(c, "setL1") /\ UNCHANGED <<L2, settled>>
          \/ Goto(c, "publish") /\ ChangeL2(c, c)
        BY <1>4 DEF SetL2
    <2> QED
        BY <1>0, <1>a, <2>1, <2>2, CoherentKept, CoherentChangeL2
<1>5. CASE SetL1(c)
    <2>1. /\ pc[c] # "publish" /\ Goto(c, "done")
          /\ UNCHANGED <<L2, inbox, held, home, req>>
          /\ UNCHANGED <<L1, settled>> \/ InsertL1(c, c)
        BY <1>5 DEF SetL1
    <2> QED
        BY <1>0, <1>a, <2>1, CoherentKept, CoherentInsertL1
<1>6. CASE RemoveL1(c)
    <2>1. /\ pc[c] # "publish" /\ Goto(c, "removeL2") /\ ChangeL1(c, Absent)
          /\ UNCHANGED <<L2, inbox, held, home, req, settled>>
        BY <1>6 DEF RemoveL1
    <2>2. L1'[n][k] \in {Absent, L1[n][k]}
        BY <2>1, RequestTypes DEF ChangeL1, TypeOK
    <2>3. /\ Announced(n, k, Both) => Announced(n, k, Both)'
          /\ Announced(n, k, {"Remove"}) => Announced(n, k, {"Remove"})'
        BY <2>1, AnnouncedKept
    <2> QED
        BY <1>0, <2>1, <2>2, <2>3 DEF Coherent, Current
<1>7. CASE RemoveL2(c)
    <2>1. pc[c] # "publish" /\ UNCHANGED <<L1, inbox, held, home, req>>
        BY <1>7 DEF RemoveL2
    <2>2. \/ Goto(c, "failed") /\ UNCHANGED <<L2, settled>>
          \/ Goto(c, "publish") /\ ChangeL2(c, Absent)
        BY <1>7 DEF RemoveL2
    <2>3. req[c].op = "Remove"
        BY <1>7 DEF RemovalSteps, RemoveL2
    <2> QED
        BY <1>0, <1>a, <2>1, <2>2, <2>3, CoherentKept, CoherentChangeL2
<1>8. CASE GetL1(c)
    BY <1>0, <1>8, CoherentKept DEF GetL1
<1>9. CASE GetL2(c)
    BY <1>0, <1>9, CoherentKept DEF GetL2
<1>10. CASE FillL1(c)
    BY <1>0, <1>a, <1>10, CoherentInsertL1 DEF FillL1
<1>11. CASE Recheck(c)
    BY <1>0, <1>11, CoherentKept DEF Recheck
<1>12. CASE PutL2(c)
    <2>1. pc[c] # "publish" /\ UNCHANGED <<L1, inbox, held, home, req>>
        BY <1>12 DEF PutL2
    <2>2. \/ \E s \in {"putL1", "failed"} : Goto(c, s) /\ UNCHANGED <<L2, settled>>
          \/ Goto(c, "publish") /\ ChangeL2(c, c)
        BY <1>12 DEF PutL2
    <2> QED
        BY <1>0, <1>a, <2>1, <2>2, CoherentKept, CoherentChangeL2
<1>13. CASE PutL1(c)
    <2>1. /\ pc[c] # "publish" /\ Goto(c, "done")
          /\ UNCHANGED <<L2, inbox, held, home, req>>
          /\ UNCHANGED <<L1, settled>> \/ InsertL1(c, c)
        BY <1>13 DEF PutL1
    <2> QED
        BY <1>0, <1>a, <2>1, CoherentKept, CoherentInsertL1
<1> QED
    BY <1>1, <1>2, <1>3, <1>4, <1>5, <1>6, <1>7, <1>8, <1>9, <1>10, <1>11, <1>12, <1>13
    DEF CallStep

LEMMA CallbackCoherence ==
    ASSUME TypeOK, Coherence, NEW x \in Nodes, Callback(x)
    PROVE  Coherence'
<1> SUFFICES ASSUME NEW n \in Nodes, NEW k \in Keys PROVE Coherent(n, k)'
    BY DEF Coherence
<1>0. Coherent(n, k)
    BY DEF Coherence
<1>1. CASE CallbackInsert(x)
    <2>1. UNCHANGED <<L2, inbox, pc, home, req, settled>>
        BY <1>1 DEF CallbackInsert
    <2>2. \A T : Announced(n, k, T) => Announced(n, k, T)'
        BY <2>1 DEF Announced, KeysOf
    <2>3. CASE n # x
        BY <1>0, <1>1, <2>1, <2>2, <2>3 DEF CallbackInsert, Coherent, Current, TypeOK
    <2>4. CASE n = x
        <3>1. /\ L1'[n][k] = IF held[n][k] # Absent THEN held[n][k] ELSE L1[n][k]
              /\ held'[n][k] = Absent
            BY <1>1, <2>4 DEF CallbackInsert, NothingHeld, TypeOK
        <3> QED
            BY <1>0, <2>1, <2>2, <3>1 DEF Coherent, Current
    <2> QED
        BY <2>3, <2>4
<1>2. ASSUME NEW m \in inbox[x], Receive(x, m),
             UNCHANGED <<L2, pc, home, req>>
      PROVE  /\ n = x => held[n][k] = Absent
             /\ \A T : Announced(n, k, T) /\ (n = x /\ k \in m.keys => m.type \notin T)
                           => Announced(n, k, T)'
    <2>1. n = x => held[n][k] = Absent
        BY <1>2 DEF Receive, CallbackIdle, NothingHeld
    <2>2. inbox'[n] = IF n = x THEN inbox[n] \ {m} ELSE inbox[n]
        BY <1>2 DEF Receive, TypeOK
    <2> QED
        BY <1>2, <2>1, <2>2 DEF Announced, KeysOf
<1>3. ASSUME NEW m \in inbox[x], CallbackRemove(x, m)
      PROVE  Coherent(n, k)'
    <2>1. /\ Receive(x, m) /\ UNCHANGED <<L2, held, pc, home, req, settled>>
          /\ L1'[n][k] = IF n = x /\ k \in m.keys THEN Absent ELSE L1[n][k]
        BY <1>3 DEF CallbackRemove, TypeOK
    <2>2. CASE n = x /\ k \in m.keys
        BY <1>2, <2>1, <2>2 DEF Coherent, Current
    <2>3. CASE ~(n = x /\ k \in m.keys)
        BY <1>0, <1>2, <2>1, <2>3 DEF Coherent, Current
    <2> QED
        BY <2>2, <2>3
<1>4. ASSUME NEW m \in inbox[x], CallbackRead(x, m)
      PROVE  Coherent(n, k)'
    <2>1. /\ Receive(x, m) /\ UNCHANGED <<L1, L2, pc, home, req, settled>>
          /\ held'[n][k] = IF n # x THEN held[n][k]
                           ELSE IF k \in m.keys THEN L2[k] ELSE Absent
          /\ m.type \notin {"Remove"}
        BY <1>4 DEF CallbackRead, TypeOK
    <2>2. Announced(n, k, {"Remove"}) => Announced(n, k, {"Remove"})'
        BY <1>2, <2>1
    <2>3. CASE n = x /\ k \in m.keys
        <3>1. CASE L2[k] = Absent
            BY <1>0, <2>1, <2>2, <2>3, <3>1, AnnouncedWeaken DEF Coherent, Current, Announced, Both
        <3>2. CASE L2[k] # Absent
            BY <2>1, <2>3, <3>2 DEF Coherent, Current
        <3> QED
            BY <3>1, <3>2
    <2>4. CASE ~(n = x /\ k \in m.keys)
        <3>1. Announced(n, k, Both) => Announced(n, k, Both)'
            BY <1>2, <2>1, <2>4
        <3>2. held'[n][k] = held[n][k]
            BY <1>2, <2>1, <2>4
        <3> QED
            BY <1>0, <2>1, <2>2, <3>1, <3>2 DEF Coherent, Current
    <2> QED
        BY <2>3, <2>4
<1>5. ASSUME NEW m \in inbox[x], CallbackFails(x, m)
      PROVE  Coherent(n, k)'
    <2>1. /\ Receive(x, m) /\ UNCHANGED <<L1, L2, held, pc, home, req>>
          /\ settled'[n][k] => settled[n][k] /\ ~(n = x /\ k \in m.keys)
        BY <1>5 DEF CallbackFails, TypeOK
    <2> QED
        BY <1>0, <1>2, <2>1 DEF Coherent, Current
<1> QED
    BY <1>1, <1>3, <1>4, <1>5 DEF Callback

LEMMA EnvironmentCoherence ==
    ASSUME TypeOK, Coherence, Environment
    PROVE  Coherence'
<1> SUFFICES ASSUME NEW n \in Nodes, NEW k \in Keys PROVE Coherent(n, k)'
    BY DEF Coherence
<1>0. Coherent(n, k)
    BY DEF Coherence
<1>1. ASSUME NEW x \in Nodes, NEW y \in Keys, ExpireL1(x, y)
      PROVE  Coherent(n, k)'
    <2>1. /\ UNCHANGED <<L2, inbox, held, pc, home, req, settled>>
          /\ L1'[n][k] \in {Absent, L1[n][k]}
        BY <1>1 DEF ExpireL1, TypeOK
    <2>2. \A T : Announced(n, k, T) => Announced(n, k, T)'
        BY <2>1 DEF Announced, KeysOf
    <2> QED
        BY <1>0, <2>1, <2>2 DEF Coherent, Current
<1>2. ASSUME NEW y \in Keys, ExpireL2(y)
      PROVE  Coherent(n, k)'
    <2>1. /\ UNCHANGED <<L1, inbox, held, pc, home, req>>
          /\ k # y => L2'[k] = L2[k] /\ settled'[n][k] = settled[n][k]
          /\ k = y /\ settled'[n][k] => L1[n][k] = Absent /\ held[n][k] = Absent
        BY <1>2 DEF ExpireL2, TypeOK
    <2>2. \A T : Announced(n, k, T) => Announced(n, k, T)'
        BY <2>1 DEF Announced, KeysOf
    <2> QED
        BY <1>0, <2>1, <2>2 DEF Coherent, Current
<1>3. ASSUME NEW x \in Nodes, Restart(x)
      PROVE  Coherent(n, k)'
    <2> DEFINE dead == {c \in Calls : home[c] = x /\ pc[c] \in Running}
               lost == {c \in dead : pc[c] = "publish"}
    <2>1. /\ L1' = [L1 EXCEPT ![x] = NothingHeld]
          /\ inbox' = [inbox EXCEPT ![x] = {}]
          /\ held' = [held EXCEPT ![x] = NothingHeld]
          /\ UNCHANGED <<L2, home, req>>
          /\ pc' = [c \in Calls |-> IF c \in dead THEN "failed" ELSE pc[c]]
          /\ settled' = [SettledAfterLoss(lost) EXCEPT ![x] = [j \in Keys |-> TRUE]]
        BY <1>3 DEF Restart
    <2>2. CASE n = x
        <3>1. L1'[n][k] = Absent /\ held'[n][k] = Absent
            BY <2>1, <2>2 DEF NothingHeld, TypeOK
        <3> QED
            BY <3>1 DEF Coherent, Current
    <2>3. CASE n # x
        <3>1. L1'[n] = L1[n] /\ held'[n] = held[n] /\ inbox'[n] = inbox[n]
            BY <2>1, <2>3 DEF TypeOK
        <3>2. settled'[n][k] => /\ settled[n][k]
                                /\ \A c \in lost : n = home[c] \/ k \notin KeysOf(c)
            BY <2>1, <2>3 DEF SettledAfterLoss
        <3>3. ASSUME settled'[n][k], NEW T, Announced(n, k, T)
              PROVE  Announced(n, k, T)'
            <4>1. \A c \in Calls : pc[c] = "publish" /\ home[c] # n /\ k \in KeysOf(c)
                                      => pc'[c] = "publish"
                BY <2>1, <3>2, <3>3 DEF Running
            <4> QED
                BY <2>1, <3>1, <3>3, <4>1 DEF Announced, KeysOf
        <3> QED
            BY <1>0, <2>1, <3>1, <3>2, <3>3 DEF Coherent, Current
    <2> QED
        BY <2>2, <2>3
<1> QED
    BY <1>1, <1>2, <1>3 DEF Environment

LEMMA StutterCoherence ==
    ASSUME Coherence, UNCHANGED vars
    PROVE  Coherence'
BY DEF vars, Coherence, Coherent, Current, Announced, KeysOf

(* Whatever the interleaving, the order of delivery and the faults, a      *)
(* local cache is only ever stale with a message on its way, or after one  *)
(* of the events that `settled` names (SyncL1Callback, PublishCacheUpdate).*)
THEOREM StaleAnnounced == Spec => [](StaleIsAnnounced /\ RemovalIsAnnounced)
<1> DEFINE IInv == TypeOK /\ RemovalSteps /\ Coherence
<1>1. Init => IInv
    BY InitTypeOK, InitCoherence DEF Init, RemovalSteps
<1>2. IInv /\ [Next]_vars => IInv'
    <2> SUFFICES ASSUME IInv, [Next]_vars PROVE IInv'
        OBVIOUS
    <2>1. TypeOK' /\ RemovalSteps'
        BY NextTypeOK, NextRemovalSteps
    <2>2. Coherence'
        BY CallStepCoherence, CallbackCoherence, EnvironmentCoherence, StutterCoherence
        DEF Next
    <2> QED
        BY <2>1, <2>2
<1>3. IInv => StaleIsAnnounced /\ RemovalIsAnnounced
    BY CoherenceMeans
<1> QED
    BY <1>1, <1>2, <1>3, PTL DEF Spec

(* The half of it that a callback cannot repair by reading L2: a settled   *)
(* local entry of a key that has left L2 has a Remove message on its way   *)
(* (SyncL1Callback inserts what it finds, and removes nothing otherwise).  *)
THEOREM RemovalAnnounced == Spec => []RemovalIsAnnounced
BY StaleAnnounced, PTL

-----------------------------------------------------------------------------
(* Followers.  Without faults a node whose calls leave a key alone never   *)
(* loses track of it, so coherence applies to it unconditionally.          *)

Follows == Faults = {} => \A n \in Nodes, k \in Keys : Untouched(n, k) => settled[n][k]

LEMMA NextFollows == TypeOK /\ Follows /\ [Next]_vars => Follows'
<1> SUFFICES ASSUME TypeOK, Follows, [Next]_vars, Faults = {},
                    NEW n \in Nodes, NEW k \in Keys, Untouched(n, k)'
             PROVE  settled'[n][k]
    BY DEF Follows
<1>1. UNCHANGED <<home, req>>
    BY DEF Next, CallStep, Callback, Environment, vars, Start, PublishCacheUpdate,
           PublishFails, SetL2, SetL1, RemoveL1, RemoveL2, GetL1, GetL2, FillL1,
           Recheck, PutL2, PutL1, CallbackInsert, CallbackRemove, CallbackRead,
           CallbackFails, Restart, ExpireL1, ExpireL2
<1>2. ASSUME NEW c \in Calls, Start(c) \/ CallStep(c)
      PROVE  settled'[n][k]
    <2>1. PICK s : Goto(c, s) /\ s # "idle"
        <3>1. CASE Start(c)
            BY <3>1, RequestTypes DEF Start, Running
        <3>2. CASE CallStep(c)
            <4>1. AfterPublish(c) # "idle"
                BY RequestTypes DEF Running, Ended
            <4> QED
                BY <3>2, <4>1 DEF CallStep, PublishCacheUpdate, PublishFails, SetL2, SetL1,
                    RemoveL1, RemoveL2, GetL1, GetL2, FillL1, Recheck, PutL2, PutL1
        <3> QED
            BY <1>2, <3>1, <3>2
    <2>2. home[c] # n \/ k \notin KeysOf(c)
        BY <1>1, <2>1 DEF Untouched, Goto, KeysOf, TypeOK
    <2>3. Untouched(n, k)
        <3>1. \A d \in Calls : pc'[d] = "idle" => pc[d] = "idle"
            BY <2>1 DEF Goto, TypeOK
        <3> QED
            BY <1>1, <3>1 DEF Untouched, KeysOf
    <2>4. settled[n][k]
        BY <2>3 DEF Follows
    <2>5. ASSUME NEW v, ChangeL2(c, v)
          PROVE  settled'[n][k]
        BY <2>2, <2>4, <2>5 DEF ChangeL2, SettledAfterL2Change
    <2>6. ASSUME NEW v, InsertL1(c, v)
          PROVE  settled'[n][k]
        BY <2>2, <2>4, <2>6 DEF InsertL1, SettledAfterInsert
    <2> QED
        BY <1>2, <2>4, <2>5, <2>6 DEF Start, CallStep, PublishCacheUpdate, PublishFails, SetL2,
            SetL1, RemoveL1, RemoveL2, GetL1, GetL2, FillL1, Recheck, PutL2, PutL1
<1>3. CASE UNCHANGED <<pc, settled>>
    BY <1>1, <1>3 DEF Follows, Untouched, KeysOf
<1> QED
    BY <1>2, <1>3 DEF Next, Callback, Environment, vars, CallbackInsert, CallbackRemove,
        CallbackRead, CallbackFails, DistributedFault, Restart, ExpireL1, ExpireL2

(* A node that only listens to a key converges to L2 on it when the        *)
(* messages have been handled, for any number of nodes, keys and calls.    *)
THEOREM FollowersFollow == Spec => []FollowersConverge
<1> DEFINE IInv == TypeOK /\ Follows
<1>1. Init => IInv
    BY InitTypeOK DEF Init, Follows
<1>2. IInv /\ [Next]_vars => IInv'
    BY NextTypeOK, NextFollows
<1>3. IInv /\ StaleIsAnnounced => FollowersConverge
    BY DEF Follows, StaleIsAnnounced, FollowersConverge, Drained
<1> QED
    BY <1>1, <1>2, <1>3, StaleAnnounced, PTL DEF Spec

=============================================================================
