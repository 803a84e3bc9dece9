------------------------- MODULE StampedeLockProofs -------------------------
(* Proofs about StampedeLock, for any number of callers. *)
EXTENDS StampedeLock, TLAPS

(***************************************************************************)
(* The inductive invariant of the locking.  A semaphore is known by the    *)
(* caller that made it, so a caller still on its way to the dictionary has *)
(* made none and nobody can hold, wait for or look up one of that name;    *)
(* and a semaphore somebody is past has a count of zero.                   *)
(***************************************************************************)
BeforeLock == {"readL1", "readL2", "fill", "lock"}

LockInv ==
    /\ entry # NoLock => sem[entry] = entry
    /\ \A c \in Callers : sem[c] # NoLock => sem[sem[c]] = sem[c]
    /\ \A c \in Callers : pc[c] \in BeforeLock => sem[c] = NoLock
    /\ \A c \in Callers : pc[c] = "wait" \/ InSection(c) => sem[c] # NoLock
    /\ \A c \in Callers : InSection(c) => count[sem[c]] = 0
    /\ SemaphoreExcludes

LEMMA InitLock == Init => TypeOK /\ LockInv
BY ConstantsAssumption
   DEF Init, TypeOK, LockInv, SemaphoreExcludes, InSection, Section, Step, Value, BeforeLock

LEMMA NextType == TypeOK /\ LockInv /\ [Next]_vars => TypeOK'
<1> SUFFICES ASSUME TypeOK, LockInv, [Next]_vars PROVE TypeOK'
    OBVIOUS
<1> USE DEF TypeOK, Goto, Return, Step, Section, Ended, Value
<1>1. ASSUME NEW c \in Callers, ReadL1(c) PROVE TypeOK'
    BY <1>1 DEF ReadL1
<1>2. ASSUME NEW c \in Callers, ReadL2(c) PROVE TypeOK'
    BY <1>2 DEF ReadL2
<1>3. ASSUME NEW c \in Callers, Fill(c) PROVE TypeOK'
    BY <1>3 DEF Fill
<1>4. ASSUME NEW c \in Callers, GetOrAdd(c) PROVE TypeOK'
    BY <1>4 DEF GetOrAdd
<1>5. ASSUME NEW c \in Callers, WaitAsync(c) PROVE TypeOK'
    <2>1. sem[c] \in Callers /\ count[sem[c]] = 1
        BY <1>5 DEF WaitAsync, LockInv
    <2> QED
        BY <1>5, <2>1 DEF WaitAsync
<1>6. ASSUME NEW c \in Callers, CancelWait(c) PROVE TypeOK'
    BY <1>6 DEF CancelWait
<1>7. ASSUME NEW c \in Callers, Recheck(c) PROVE TypeOK'
    BY <1>7 DEF Recheck, Again
<1>8. ASSUME NEW c \in Callers, Factory(c) PROVE TypeOK'
    BY <1>8 DEF Factory
<1>9. ASSUME NEW c \in Callers, PutL2(c) PROVE TypeOK'
    BY <1>9 DEF PutL2
<1>10. ASSUME NEW c \in Callers, PutL1(c) PROVE TypeOK'
    BY <1>10 DEF PutL1
<1>11. ASSUME NEW c \in Callers, Release(c) PROVE TypeOK'
    <2>1. sem[c] \in Callers /\ count[sem[c]] = 0
        BY <1>11 DEF Release, LockInv, InSection
    <2> QED
        BY <1>11, <2>1 DEF Release
<1>12. ASSUME NEW c \in Callers, TryRemove(c) PROVE TypeOK'
    BY <1>12 DEF TryRemove
<1>13. ASSUME UNCHANGED vars PROVE TypeOK'
    BY <1>13 DEF vars
<1> QED
    BY <1>1, <1>2, <1>3, <1>4, <1>5, <1>6, <1>7, <1>8, <1>9, <1>10, <1>11, <1>12, <1>13
    DEF Next, CallerStep, RunStep

(* A step that neither enters nor leaves a section, nor touches the locks. *)
LEMMA LockKept ==
    ASSUME TypeOK, LockInv, NEW c \in Callers, NEW s, Goto(c, s),
           UNCHANGED <<entry, sem, count>>,
           s \in BeforeLock => pc[c] \in BeforeLock,
           s = "wait" => pc[c] = "wait",
           s \in Section => pc[c] \in Section
    PROVE  LockInv'
<1>1. \A x \in Callers : /\ InSection(x)' => InSection(x)
                         /\ pc'[x] \in BeforeLock => pc[x] \in BeforeLock
                         /\ pc'[x] = "wait" => pc[x] = "wait"
    BY DEF Goto, TypeOK, InSection
<1>2. SemaphoreExcludes'
    BY <1>1 DEF LockInv, SemaphoreExcludes
<1> QED
    BY <1>1, <1>2 DEF LockInv

LEMMA NextLock == TypeOK /\ LockInv /\ [Next]_vars => LockInv'
<1> SUFFICES ASSUME TypeOK, LockInv, [Next]_vars PROVE LockInv'
    OBVIOUS
<1>1. ASSUME NEW c \in Callers,
             ReadL1(c) \/ ReadL2(c) \/ Fill(c) \/ CancelWait(c) \/ Recheck(c)
                 \/ Factory(c) \/ PutL2(c) \/ PutL1(c)
      PROVE  LockInv'
    <2>1. PICK s : /\ Goto(c, s) /\ UNCHANGED <<entry, sem, count>>
                   /\ s \in BeforeLock => pc[c] \in BeforeLock
                   /\ s = "wait" => pc[c] = "wait"
                   /\ s \in Section => pc[c] \in Section
        BY <1>1 DEF ReadL1, ReadL2, Fill, CancelWait, Recheck, Factory, PutL2, PutL1,
                    BeforeLock, Section
    <2> QED
        BY <2>1, LockKept
<1>2. ASSUME NEW c \in Callers, GetOrAdd(c)
      PROVE  LockInv'
    <2>1. /\ pc' = [pc EXCEPT ![c] = "wait"] /\ pc[c] \in BeforeLock /\ pc[c] \notin Section
        BY <1>2 DEF GetOrAdd, Goto, BeforeLock, Section
    <2>2. \A x \in Callers : (InSection(x)' => InSection(x)) /\ (InSection(x) => x # c)
        BY <2>1 DEF InSection, TypeOK, Section
    <2>3. sem[c] = NoLock /\ \A x \in Callers : sem[x] # c
        BY <2>1, ConstantsAssumption DEF LockInv
    <2>4. \A x \in Callers : x # c => pc'[x] = pc[x]
        BY <2>1 DEF TypeOK
    <2>5. CASE entry = NoLock
        <3>1. /\ entry' = c /\ count' = [count EXCEPT ![c] = 1] /\ sem' = [sem EXCEPT ![c] = c]
            BY <1>2, <2>5 DEF GetOrAdd
        <3>2. sem'[c] = c /\ \A x \in Callers : x # c => sem'[x] = sem[x]
            BY <3>1 DEF TypeOK
        <3>3. \A x \in Callers : x # c => count'[x] = count[x]
            BY <3>1 DEF TypeOK
        <3>4. c # NoLock
            BY ConstantsAssumption
        <3>5. SemaphoreExcludes'
            BY <2>2, <3>2 DEF LockInv, SemaphoreExcludes
        <3>6. \A x \in Callers : sem'[x] # NoLock => sem'[sem'[x]] = sem'[x]
            BY <2>3, <3>2 DEF LockInv, TypeOK
        <3>7. \A x \in Callers : InSection(x)' => count'[sem'[x]] = 0
            BY <2>2, <2>3, <3>2, <3>3 DEF LockInv, TypeOK
        <3>8. \A x \in Callers : pc'[x] \in BeforeLock => sem'[x] = NoLock
            BY <2>1, <2>4, <3>2 DEF LockInv, TypeOK, BeforeLock
        <3>9. \A x \in Callers : pc'[x] = "wait" \/ InSection(x)' => sem'[x] # NoLock
            BY <2>4, <3>2, <3>4 DEF LockInv, InSection
        <3> QED
            BY <3>1, <3>2, <3>5, <3>6, <3>7, <3>8, <3>9 DEF LockInv
    <2>6. CASE entry # NoLock
        <3>1. entry' = entry /\ count' = count /\ sem' = [sem EXCEPT ![c] = entry]
            BY <1>2, <2>6 DEF GetOrAdd
        <3>2. sem'[c] = entry /\ \A x \in Callers : x # c => sem'[x] = sem[x]
            BY <3>1 DEF TypeOK
        <3>3. entry \in Callers /\ entry # c /\ sem[entry] = entry
            BY <2>3, <2>6 DEF TypeOK, LockInv
        <3>4. SemaphoreExcludes'
            BY <2>2, <3>2 DEF LockInv, SemaphoreExcludes
        <3>5. \A x \in Callers : sem'[x] # NoLock => sem'[sem'[x]] = sem'[x]
            BY <2>3, <3>2, <3>3 DEF LockInv, TypeOK
        <3>6. \A x \in Callers : InSection(x)' => count'[sem'[x]] = 0
            BY <2>2, <3>1, <3>2 DEF LockInv
        <3>7. \A x \in Callers : pc'[x] \in BeforeLock => sem'[x] = NoLock
            BY <2>1, <2>4, <3>2 DEF LockInv, TypeOK, BeforeLock
        <3>8. \A x \in Callers : pc'[x] = "wait" \/ InSection(x)' => sem'[x] # NoLock
            BY <2>4, <2>6, <3>2 DEF LockInv, InSection
        <3> QED
            BY <3>1, <3>2, <3>3, <3>4, <3>5, <3>6, <3>7, <3>8 DEF LockInv
    <2> QED
        BY <2>5, <2>6
<1>3. ASSUME NEW c \in Callers, WaitAsync(c)
      PROVE  LockInv'
    <2>1. /\ pc[c] = "wait" /\ pc' = [pc EXCEPT ![c] = "recheck"]
          /\ count[sem[c]] > 0 /\ count' = [count EXCEPT ![sem[c]] = @ - 1]
          /\ sem' = sem /\ entry' = entry
        BY <1>3 DEF WaitAsync, Goto
    <2>2. sem[c] \in Callers /\ count[sem[c]] = 1
        BY <2>1 DEF LockInv, TypeOK
    <2>3. count'[sem[c]] = 0 /\ \A x \in Callers : x # sem[c] => count'[x] = count[x]
        BY <2>1, <2>2 DEF TypeOK
    <2>4. \A x \in Callers : x # c => pc'[x] = pc[x]
        BY <2>1 DEF TypeOK
    <2>5. pc'[c] = "recheck"
        BY <2>1 DEF TypeOK
    <2>6. \A x \in Callers : InSection(x) => sem[x] # sem[c]
        BY <2>2 DEF LockInv
    <2>7. SemaphoreExcludes'
        BY <2>1, <2>4, <2>6 DEF LockInv, SemaphoreExcludes, InSection
    <2>8. \A x \in Callers : InSection(x)' => count'[sem'[x]] = 0
        BY <2>1, <2>3, <2>4 DEF LockInv, InSection, TypeOK
    <2>9. \A x \in Callers : pc'[x] \in BeforeLock => sem'[x] = NoLock
        BY <2>1, <2>4, <2>5 DEF LockInv, BeforeLock
    <2>10. \A x \in Callers : pc'[x] = "wait" \/ InSection(x)' => sem'[x] # NoLock
        BY <2>1, <2>4 DEF LockInv, InSection
    <2> QED
        BY <2>1, <2>7, <2>8, <2>9, <2>10 DEF LockInv
<1>4. ASSUME NEW c \in Callers, Release(c)
      PROVE  LockInv'
    <2>1. /\ pc[c] = "release" /\ pc' = [pc EXCEPT ![c] = "remove"]
          /\ count' = [count EXCEPT ![sem[c]] = @ + 1]
          /\ sem' = sem /\ entry' = entry
        BY <1>4 DEF Release, Goto
    <2>2. InSection(c)
        BY <2>1 DEF InSection, Section
    <2>3. \A x \in Callers : InSection(x)' => x # c /\ InSection(x)
        BY <2>1 DEF InSection, Section, TypeOK
    <2>4. \A x \in Callers : x # c => pc'[x] = pc[x]
        BY <2>1 DEF TypeOK
    <2>5. pc'[c] = "remove"
        BY <2>1 DEF TypeOK
    <2>6. SemaphoreExcludes'
        BY <2>1, <2>3 DEF LockInv, SemaphoreExcludes
    <2>7. \A x \in Callers : InSection(x)' => count'[sem'[x]] = 0
        BY <2>1, <2>2, <2>3 DEF LockInv, SemaphoreExcludes, TypeOK
    <2>8. \A x \in Callers : pc'[x] \in BeforeLock => sem'[x] = NoLock
        BY <2>1, <2>4, <2>5 DEF LockInv, BeforeLock
    <2>9. \A x \in Callers : pc'[x] = "wait" \/ InSection(x)' => sem'[x] # NoLock
        BY <2>1, <2>3, <2>4, <2>5 DEF LockInv
    <2> QED
        BY <2>1, <2>6, <2>7, <2>8, <2>9 DEF LockInv
<1>5. ASSUME NEW c \in Callers, TryRemove(c)
      PROVE  LockInv'
    <2>1. /\ pc[c] = "remove" /\ entry' = NoLock /\ UNCHANGED <<sem, count>>
          /\ pc' = [pc EXCEPT ![c] = IF c \in thrown THEN "failed" ELSE "done"]
        BY <1>5 DEF TryRemove, Goto
    <2>2. \A x \in Callers : /\ InSection(x)' => InSection(x)
                             /\ pc'[x] \in BeforeLock => pc[x] \in BeforeLock
                             /\ pc'[x] = "wait" => pc[x] = "wait"
        BY <2>1 DEF InSection, Section, BeforeLock, TypeOK
    <2> QED
        BY <2>1, <2>2 DEF LockInv, SemaphoreExcludes
<1>6. CASE UNCHANGED <<pc, entry, sem, count>>
    BY <1>6 DEF LockInv, SemaphoreExcludes, InSection
<1> QED
    BY <1>1, <1>2, <1>3, <1>4, <1>5, <1>6 DEF Next, CallerStep, RunStep, vars

(* Every variable keeps its type; no count leaves {0, 1}. *)
THEOREM TypeCorrect == Spec => []TypeOK
<1>1. TypeOK /\ LockInv /\ [Next]_vars => (TypeOK /\ LockInv)'
    BY NextType, NextLock
<1> QED
    BY <1>1, InitLock, PTL DEF Spec

(* SemaphoreSlim(1, 1) excludes, and the finally block releases what it    *)
(* holds and no more, for any number of callers, with or without flags,    *)
(* throwing factories and cancelled waits.                                 *)
THEOREM LockSafe == Spec => [](SemaphoreExcludes /\ ReleaseFits)
<1>1. TypeOK /\ LockInv /\ [Next]_vars => (TypeOK /\ LockInv)'
    BY NextType, NextLock
<1>2. LockInv => SemaphoreExcludes /\ ReleaseFits
    BY DEF LockInv, ReleaseFits, InSection, Section
<1> QED
    BY <1>1, <1>2, InitLock, PTL DEF Spec

(* Release never throws SemaphoreFullException out of the finally block.   *)
THEOREM ReleasesFit == Spec => []ReleaseFits
BY LockSafe, PTL

-----------------------------------------------------------------------------
(* What is left in the dictionary.  The maker of the semaphore that is     *)
(* there has still to take an entry out, unless its wait was cancelled.    *)
OwedBy(e) ==
    \/ pc[e] \in Section \cup {"wait", "remove"}
    \/ pc[e] = "failed" /\ e \notin thrown

DebtInv ==
    /\ entry # NoLock => OwedBy(entry)
    /\ \A c \in thrown : pc[c] \in {"release", "remove", "failed"}

LEMMA NextDebt == TypeOK /\ DebtInv /\ [Next]_vars => DebtInv'
<1> SUFFICES ASSUME TypeOK, DebtInv, [Next]_vars PROVE DebtInv'
    OBVIOUS
<1> USE DEF DebtInv, OwedBy, Section, Goto, TypeOK
<1>1. ASSUME NEW c \in Callers, NEW s, Goto(c, s), UNCHANGED <<entry, thrown>>,
             c \in thrown => s \in {"release", "remove", "failed"},
             \/ s \in Section \cup {"wait", "remove"}
             \/ pc[c] \notin Section \cup {"wait", "remove", "failed"}
             \/ s = "failed" /\ c \notin thrown
      PROVE  DebtInv'
    BY <1>1
<1>2. ASSUME NEW c \in Callers, ReadL1(c) \/ ReadL2(c) \/ Fill(c)
      PROVE  DebtInv'
    <2>1. c \notin thrown /\ UNCHANGED <<entry, thrown>>
        BY <1>2 DEF ReadL1, ReadL2, Fill
    <2>2. \E s : Goto(c, s) /\ pc[c] \notin Section \cup {"wait", "remove", "failed"}
        BY <1>2 DEF ReadL1, ReadL2, Fill
    <2> QED
        BY <1>1, <2>1, <2>2
<1>3. ASSUME NEW c \in Callers, GetOrAdd(c)
      PROVE  DebtInv'
    <2>1. /\ pc[c] = "lock" /\ Goto(c, "wait") /\ UNCHANGED thrown
          /\ entry' = c \/ entry' = entry
        BY <1>3 DEF GetOrAdd
    <2>2. pc'[c] = "wait" /\ \A x \in Callers : x # c => pc'[x] = pc[x]
        BY <2>1
    <2> QED
        BY <2>1, <2>2
<1>4. ASSUME NEW c \in Callers, WaitAsync(c) \/ CancelWait(c)
      PROVE  DebtInv'
    <2>1. c \notin thrown /\ UNCHANGED <<entry, thrown>>
        BY <1>4 DEF WaitAsync, CancelWait
    <2>2. Goto(c, "recheck") \/ Goto(c, "failed")
        BY <1>4 DEF WaitAsync, CancelWait
    <2> QED
        BY <1>1, <2>1, <2>2
<1>5. ASSUME NEW c \in Callers, Recheck(c) \/ PutL2(c) \/ PutL1(c) \/ Release(c)
      PROVE  DebtInv'
    <2>1. UNCHANGED <<entry, thrown>>
        BY <1>5 DEF Recheck, PutL2, PutL1, Release
    <2>2. \E s \in Section \cup {"remove"} :
              Goto(c, s) /\ (c \in thrown => s \in {"release", "remove", "failed"})
        BY <1>5 DEF Recheck, PutL2, PutL1, Release
    <2> QED
        BY <1>1, <2>1, <2>2
<1>6. ASSUME NEW c \in Callers, Factory(c)
      PROVE  DebtInv'
    <2>1. pc[c] = "factory" /\ UNCHANGED entry
        BY <1>6 DEF Factory
    <2>2. CASE Goto(c, "putL2") /\ UNCHANGED thrown
        BY <1>1, <2>1, <2>2
    <2>3. CASE Goto(c, "release") /\ thrown' = thrown \cup {c}
        BY <2>1, <2>3
    <2> QED
        BY <1>6, <2>2, <2>3 DEF Factory
<1>7. ASSUME NEW c \in Callers, TryRemove(c)
      PROVE  DebtInv'
    BY <1>7 DEF TryRemove
<1>8. CASE UNCHANGED <<pc, entry, thrown>>
    BY <1>8
<1> QED
    BY <1>2, <1>3, <1>4, <1>5, <1>6, <1>7, <1>8 DEF Next, CallerStep, RunStep, vars

(* When everybody has ended, the dictionary is empty unless the maker of   *)
(* the semaphore it holds was cancelled while it waited for it, although   *)
(* every other caller takes out whatever it finds there (TryRemove).       *)
THEOREM OnlyCancelledLeaves == Spec => []NoSemaphoreLeft
<1>1. TypeOK /\ LockInv /\ [Next]_vars => (TypeOK /\ LockInv)'
    BY NextType, NextLock
<1>2. Init => DebtInv
    BY DEF Init, DebtInv
<1>3. TypeOK /\ DebtInv => NoSemaphoreLeft
    BY DEF TypeOK, DebtInv, OwedBy, NoSemaphoreLeft, AllEnded, Ended, Section
<1> QED
    BY <1>1, <1>2, <1>3, InitLock, NextDebt, PTL DEF Spec

-----------------------------------------------------------------------------
(***************************************************************************)
(* The single flight.  Until L1 holds a value nobody has left a section,   *)
(* so the dictionary has kept one semaphore, everybody waits for that one, *)
(* and the only runner is past it.                                         *)
(***************************************************************************)
Cached == IF l1 # NoValue THEN l1 ELSE l2

AllAtOneLock ==
    /\ \A c \in Callers : pc[c] \notin {"release", "remove"}
    /\ \A c \in Callers : pc[c] = "wait" \/ InSection(c) => sem[c] = entry
    /\ \A c \in runs : pc[c] \in {"factory", "putL2", "putL1"}

FlightInv ==
    /\ \A c, d \in runs : c = d
    /\ l1 # NoValue \/ AllAtOneLock
    /\ \A c \in Callers : pc[c] \in {"factory", "putL2"} => l1 = NoValue /\ l2 = NoValue
    /\ \A c \in Callers : pc[c] \in {"factory", "putL2", "putL1"} => c \in runs
    /\ \A c \in Callers : pc[c] = "putL1" => l2 = c
    /\ l1 # NoValue /\ l2 # NoValue => l1 = l2
    /\ \A c \in Callers : result[c] \in {NoValue, Cached}
    /\ Cached \in Callers => Cached \in runs
    /\ Cached = Initial =>
           \A c \in Callers : \/ pc[c] \in {"readL1", "fill", "done"}
                              \/ pc[c] = "readL2" /\ l2 = Initial
    /\ \A c \in Callers : pc[c] = "fill" => result[c] # NoValue

OnceInv == DefaultFlagged /\ thrown = {} => FlightInv

LEMMA InitOnce == Init => OnceInv
BY ConstantsAssumption
   DEF Init, OnceInv, FlightInv, AllAtOneLock, Cached, InSection, Section

LEMMA NextFlight ==
    ASSUME TypeOK, LockInv, FlightInv, DefaultFlagged, thrown' = {}, [Next]_vars
    PROVE  FlightInv'
<1> USE DEF Goto, Return, TypeOK, Cached
<1>0. /\ \A c \in Callers : Flags[c] = {} /\ ~Disables(c, LocalFlags)
                            /\ ~Disables(c, DistributedFlags) /\ Again(c) = l1
      /\ NoValue \notin Value /\ Initial \notin Callers /\ NoLock \notin Callers
    BY ConstantsAssumption DEF DefaultFlagged, Disables, Again, Value
<1>1. ASSUME NEW c \in Callers, ReadL1(c) PROVE FlightInv'
    <2>1. AllAtOneLock => AllAtOneLock'
        BY <1>1 DEF ReadL1, AllAtOneLock, InSection, Section
    <2> QED
        BY <1>0, <1>1, <2>1 DEF ReadL1, FlightInv
<1>2. ASSUME NEW c \in Callers, ReadL2(c) PROVE FlightInv'
    <2>1. AllAtOneLock => AllAtOneLock'
        BY <1>0, <1>2 DEF ReadL2, AllAtOneLock, InSection, Section
    <2>2. pc[c] = "readL2" /\ UNCHANGED <<l1, l2, runs>>
        BY <1>2 DEF ReadL2
    <2>3. CASE l2 # NoValue
        <3>1. pc' = [pc EXCEPT ![c] = "fill"] /\ result' = [result EXCEPT ![c] = l2]
            BY <1>0, <1>2, <2>3 DEF ReadL2
        <3>2. Cached' = Cached /\ Cached = l2
            BY <2>2, <2>3 DEF FlightInv
        <3> QED
            BY <2>1, <2>2, <2>3, <3>1, <3>2 DEF FlightInv
    <2>4. CASE l2 = NoValue
        <3>1. pc' = [pc EXCEPT ![c] = "lock"] /\ result' = result
            BY <1>0, <1>2, <2>4 DEF ReadL2
        <3>2. Cached' = Cached /\ (Cached = Initial => FALSE)
            BY <1>0, <2>2, <2>4, ConstantsAssumption DEF FlightInv
        <3> QED
            BY <2>1, <2>2, <3>1, <3>2 DEF FlightInv
    <2> QED
        BY <2>3, <2>4
<1>3. ASSUME NEW c \in Callers, Fill(c) PROVE FlightInv'
    <2>1. /\ l1' = result[c] /\ result[c] = Cached /\ result[c] # NoValue
          /\ pc[c] = "fill" /\ pc' = [pc EXCEPT ![c] = "done"]
          /\ UNCHANGED <<entry, sem, count, l2, result, runs>>
        BY <1>3 DEF Fill, FlightInv
    <2>2. Cached' = Cached /\ l1' # NoValue
        BY <2>1
    <2>3. \A x \in Callers : x # c => pc'[x] = pc[x] /\ pc[x] \notin {"factory", "putL2"}
        BY <2>1 DEF FlightInv
    <2>4. pc'[c] = "done"
        BY <2>1
    <2>5. l1' # NoValue /\ l2' # NoValue => l1' = l2'
        BY <2>1 DEF FlightInv
    <2> QED
        BY <2>1, <2>2, <2>3, <2>4, <2>5 DEF FlightInv
<1>4. ASSUME NEW c \in Callers, GetOrAdd(c) PROVE FlightInv'
    <2>1. AllAtOneLock => AllAtOneLock'
        <3>1. CASE entry = NoLock
            BY <1>4, <3>1 DEF GetOrAdd, AllAtOneLock, InSection, Section, LockInv
        <3>2. CASE entry # NoLock
            BY <1>4, <3>2 DEF GetOrAdd, AllAtOneLock, InSection, Section
        <3> QED
            BY <3>1, <3>2
    <2> QED
        BY <1>0, <1>4, <2>1 DEF GetOrAdd, FlightInv
<1>5. ASSUME NEW c \in Callers, WaitAsync(c) PROVE FlightInv'
    <2>1. AllAtOneLock => AllAtOneLock'
        BY <1>5 DEF WaitAsync, AllAtOneLock, InSection, Section
    <2> QED
        BY <1>0, <1>5, <2>1 DEF WaitAsync, FlightInv
<1>6. ASSUME NEW c \in Callers, CancelWait(c) PROVE FlightInv'
    <2>1. AllAtOneLock => AllAtOneLock'
        BY <1>6 DEF CancelWait, AllAtOneLock, InSection, Section
    <2> QED
        BY <1>0, <1>6, <2>1 DEF CancelWait, FlightInv
<1>7. ASSUME NEW c \in Callers, Recheck(c) PROVE FlightInv'
    <2>1. CASE l1 # NoValue
        BY <1>0, <1>7, <2>1 DEF Recheck, FlightInv
    <2>2. CASE l1 = NoValue
        <3>1. /\ pc[c] = "recheck" /\ pc' = [pc EXCEPT ![c] = "factory"]
              /\ runs' = runs \cup {c}
              /\ UNCHANGED <<entry, sem, count, l1, l2, result, thrown>>
            BY <1>0, <1>7, <2>2 DEF Recheck
        <3>2. InSection(c) /\ AllAtOneLock
            BY <2>2, <3>1 DEF InSection, Section, FlightInv
        <3>3. runs = {}
            <4> SUFFICES ASSUME NEW d \in runs PROVE FALSE
                OBVIOUS
            <4>1. d \in Callers /\ InSection(d) /\ pc[d] # "recheck"
                BY <3>2 DEF AllAtOneLock, InSection, Section
            <4>2. sem[d] = sem[c]
                BY <3>2, <4>1 DEF AllAtOneLock
            <4> QED
                BY <3>1, <3>2, <4>1, <4>2 DEF LockInv, SemaphoreExcludes
        <3>4. l2 = NoValue
            BY <2>2, <3>1, <3>3 DEF FlightInv, Value
        <3>5. AllAtOneLock'
            BY <3>1, <3>2, <3>3 DEF AllAtOneLock, InSection, Section
        <3> QED
            BY <1>0, <2>2, <3>1, <3>3, <3>4, <3>5 DEF FlightInv
    <2> QED
        BY <2>1, <2>2
<1>8. ASSUME NEW c \in Callers, Factory(c) PROVE FlightInv'
    <2>1. pc[c] = "factory" /\ pc' = [pc EXCEPT ![c] = "putL2"]
          /\ UNCHANGED <<entry, sem, count, l1, l2, result, runs>>
        BY <1>8 DEF Factory
    <2>2. AllAtOneLock => AllAtOneLock'
        BY <2>1 DEF AllAtOneLock, InSection, Section
    <2> QED
        BY <1>0, <2>1, <2>2 DEF FlightInv
<1>9. ASSUME NEW c \in Callers, PutL2(c) PROVE FlightInv'
    <2>1. pc[c] = "putL2" /\ pc' = [pc EXCEPT ![c] = "putL1"] /\ l2' = c
          /\ UNCHANGED <<entry, sem, count, l1, result, runs>>
        BY <1>0, <1>9 DEF PutL2
    <2>2. AllAtOneLock => AllAtOneLock'
        BY <2>1 DEF AllAtOneLock, InSection, Section
    <2>3. l1 = NoValue /\ l2 = NoValue /\ c \in runs
        BY <2>1 DEF FlightInv
    <2>4. \A x \in Callers : x # c => pc'[x] \notin {"factory", "putL2", "putL1"}
        BY <2>1, <2>3 DEF FlightInv
    <2> QED
        BY <1>0, <2>1, <2>2, <2>3, <2>4 DEF FlightInv
<1>10. ASSUME NEW c \in Callers, PutL1(c) PROVE FlightInv'
    <2>1. pc[c] = "putL1" /\ pc' = [pc EXCEPT ![c] = "release"] /\ l1' = c
          /\ result' = [result EXCEPT ![c] = c]
          /\ UNCHANGED <<entry, sem, count, l2, runs>>
        BY <1>0, <1>10 DEF PutL1
    <2>2. l2 = c /\ l1 \in {NoValue, c} /\ c \in runs
        BY <1>0, <2>1 DEF FlightInv, Value
    <2>3. \A x \in Callers : x # c => pc'[x] \notin {"factory", "putL2", "putL1"}
        BY <2>1, <2>2 DEF FlightInv
    <2> QED
        BY <1>0, <2>1, <2>2, <2>3 DEF FlightInv, Value
<1>11. ASSUME NEW c \in Callers, Release(c) PROVE FlightInv'
    BY <1>0, <1>11 DEF Release, FlightInv, AllAtOneLock
<1>12. ASSUME NEW c \in Callers, TryRemove(c) PROVE FlightInv'
    BY <1>0, <1>12 DEF TryRemove, FlightInv, AllAtOneLock
<1>13. ASSUME UNCHANGED vars PROVE FlightInv'
    BY <1>13 DEF vars, FlightInv, AllAtOneLock, InSection
<1> QED
    BY <1>1, <1>2, <1>3, <1>4, <1>5, <1>6, <1>7, <1>8, <1>9, <1>10, <1>11, <1>12, <1>13
    DEF Next, CallerStep, RunStep, DefaultFlagged

LEMMA NextOnce == TypeOK /\ LockInv /\ OnceInv /\ [Next]_vars => OnceInv'
<1> SUFFICES ASSUME TypeOK, LockInv, OnceInv, [Next]_vars, DefaultFlagged, thrown' = {}
             PROVE  FlightInv'
    BY DEF OnceInv, DefaultFlagged
<1>1. thrown = {}
    BY DEF Next, CallerStep, RunStep, vars, ReadL1, ReadL2, Fill, GetOrAdd, WaitAsync,
           CancelWait, Recheck, Factory, PutL2, PutL1, Release, TryRemove
<1> QED
    BY <1>1, NextFlight DEF OnceInv

(* For any number of callers with default flags: a factory runs a second   *)
(* time only after one has thrown, and until one has thrown every caller   *)
(* is given the same value (GetOrCreateAsync).                             *)
THEOREM SingleFlightHolds == Spec => [](RunsAgainOnlyAfterThrow /\ SameAnswer)
<1> DEFINE IInv == TypeOK /\ LockInv /\ OnceInv
<1>1. IInv /\ [Next]_vars => IInv'
    BY NextType, NextLock, NextOnce
<1>2. IInv => RunsAgainOnlyAfterThrow /\ SameAnswer
    BY DEF OnceInv, FlightInv, RunsAgainOnlyAfterThrow, SameAnswer
<1>3. Init => IInv
    BY InitLock, InitOnce
<1> QED
    BY <1>1, <1>2, <1>3, PTL DEF Spec

(* With default flags two factories have run only if one has thrown: the   *)
(* second look of GetOrCreateAsync sees to it.                             *)
THEOREM SecondRunsAfterThrow == Spec => []RunsAgainOnlyAfterThrow
BY SingleFlightHolds, PTL

-----------------------------------------------------------------------------
(***************************************************************************)
(* Refinement.  A caller runs when its second look fails, caches when it   *)
(* writes L2, and is answered when it takes a value out of a cache or has  *)
(* written its own to L1; every other step is invisible.                   *)
(***************************************************************************)
Runner == {c \in Callers : pc[c] \in {"factory", "putL2"}}

FlightStep ==
    \/ \E c \in Callers : Flight!Run(c) \/ Flight!Cache(c) \/ Flight!Answer(c)
    \/ UNCHANGED <<Cached, Runner, result>>

LEMMA CallerRefines ==
    ASSUME TypeOK, LockInv, FlightInv, FlightInv', DefaultFlagged, ~FactoryThrows,
           NEW c \in Callers, CallerStep(c)
    PROVE  FlightStep
<1> USE DEF Goto, Return, TypeOK
<1>0. /\ \A x \in Callers : Flags[x] = {} /\ ~Disables(x, LocalFlags)
                            /\ ~Disables(x, DistributedFlags) /\ Again(x) = l1
      /\ NoValue \notin Value /\ Initial \notin Callers
    BY ConstantsAssumption DEF DefaultFlagged, Disables, Again, Value
<1>1. ASSUME NEW s, pc' = [pc EXCEPT ![c] = s], pc[c] \notin {"factory", "putL2"},
             s \notin {"factory", "putL2"}
      PROVE  Runner' = Runner
    BY <1>1 DEF Runner
(* A caller that takes v, the cached value, is answered, if not before. *)
<1>2. ASSUME NEW v, v = Cached, v # NoValue, result' = [result EXCEPT ![c] = v],
             UNCHANGED <<l1, l2>>, Runner' = Runner
      PROVE  FlightStep
    <2>1. result[c] \in {NoValue, Cached}
        BY DEF FlightInv
    <2>2. CASE result[c] = Cached
        <3>1. result' = result
            BY <1>2, <2>2
        <3> QED
            BY <1>2, <3>1 DEF FlightStep, Cached
    <2>3. CASE result[c] = NoValue
        BY <1>2, <2>3 DEF FlightStep, Flight!Answer, Cached, Runner
    <2> QED
        BY <2>1, <2>2, <2>3
<1>3. CASE GetOrAdd(c) \/ WaitAsync(c) \/ CancelWait(c) \/ Release(c) \/ TryRemove(c)
    <2>1. UNCHANGED <<l1, l2, result>>
        BY <1>3 DEF GetOrAdd, WaitAsync, CancelWait, Release, TryRemove
    <2>2. PICK s : /\ pc' = [pc EXCEPT ![c] = s] /\ pc[c] \notin {"factory", "putL2"}
                   /\ s \notin {"factory", "putL2"}
        BY <1>3 DEF GetOrAdd, WaitAsync, CancelWait, Release, TryRemove
    <2> QED
        BY <1>1, <2>1, <2>2 DEF FlightStep, Cached
<1>4. CASE ReadL1(c)
    <2>1. CASE l1 # NoValue
        BY <1>0, <1>1, <1>2, <1>4, <2>1 DEF ReadL1, Cached
    <2>2. CASE l1 = NoValue
        BY <1>1, <1>4, <2>2 DEF ReadL1, FlightStep, Cached
    <2> QED
        BY <2>1, <2>2
<1>5. CASE ReadL2(c)
    <2>1. CASE l2 # NoValue
        <3>1. Cached = l2
            BY <2>1 DEF FlightInv, Cached
        <3> QED
            BY <1>0, <1>1, <1>2, <1>5, <2>1, <3>1 DEF ReadL2
    <2>2. CASE l2 = NoValue
        BY <1>0, <1>1, <1>5, <2>2 DEF ReadL2, FlightStep, Cached
    <2> QED
        BY <2>1, <2>2
<1>6. CASE Fill(c)
    <2>1. Cached' = Cached
        BY <1>6 DEF Fill, FlightInv, Cached
    <2>2. Runner' = Runner
        <3>1. pc[c] = "fill" /\ pc' = [pc EXCEPT ![c] = "done"]
            BY <1>6 DEF Fill
        <3> QED
            BY <3>1 DEF Runner
    <2> QED
        BY <1>6, <2>1, <2>2 DEF Fill, FlightStep
<1>7. CASE Recheck(c)
    <2>1. CASE l1 # NoValue
        BY <1>0, <1>1, <1>2, <1>7, <2>1 DEF Recheck, Cached
    <2>2. CASE l1 = NoValue
        <3>1. /\ pc[c] = "recheck" /\ pc' = [pc EXCEPT ![c] = "factory"]
              /\ UNCHANGED <<l1, l2, result>>
            BY <1>0, <1>7, <2>2 DEF Recheck
        <3>2. pc'[c] = "factory" /\ \A x \in Callers : x # c => pc'[x] = pc[x]
            BY <3>1
        <3>3. l2 = NoValue
            BY <3>1, <3>2 DEF FlightInv
        <3>4. Runner' = {c} /\ Runner = {}
            BY <3>1, <3>2 DEF Runner, FlightInv
        <3> QED
            BY <2>2, <3>1, <3>3, <3>4 DEF FlightStep, Flight!Run, Cached, Runner
    <2> QED
        BY <2>1, <2>2
<1>8. CASE Factory(c)
    <2>1. pc[c] = "factory" /\ pc' = [pc EXCEPT ![c] = "putL2"] /\ UNCHANGED <<l1, l2, result>>
        BY <1>8 DEF Factory
    <2>2. Runner' = Runner
        BY <2>1 DEF Runner
    <2> QED
        BY <2>1, <2>2 DEF FlightStep, Cached
<1>9. CASE PutL2(c)
    <2>1. /\ pc[c] = "putL2" /\ pc' = [pc EXCEPT ![c] = "putL1"] /\ l2' = c
          /\ UNCHANGED <<l1, result>>
        BY <1>0, <1>9 DEF PutL2
    <2>2. l1 = NoValue
        BY <2>1 DEF FlightInv
    <2>3. Runner = {c} /\ Runner' = {}
        BY <2>1 DEF Runner, FlightInv
    <2> QED
        BY <2>1, <2>2, <2>3 DEF FlightStep, Flight!Cache, Cached, Runner
<1>10. CASE PutL1(c)
    <2>1. /\ pc[c] = "putL1" /\ pc' = [pc EXCEPT ![c] = "release"] /\ l1' = c
          /\ result' = [result EXCEPT ![c] = c] /\ l2' = l2
        BY <1>0, <1>10 DEF PutL1
    <2>2. l2 = c /\ c # NoValue
        BY <1>0, <2>1 DEF FlightInv, Value
    <2>3. Cached = c /\ Cached' = c
        BY <2>1, <2>2 DEF FlightInv, Cached
    <2>4. Runner' = Runner
        BY <2>1 DEF Runner
    <2>5. result[c] \in {NoValue, c}
        BY <2>3 DEF FlightInv
    <2>6. CASE result[c] = c
        <3>1. result' = result
            BY <2>1, <2>6
        <3> QED
            BY <2>3, <2>4, <3>1 DEF FlightStep
    <2>7. CASE result[c] = NoValue
        BY <2>1, <2>2, <2>3, <2>4, <2>7 DEF FlightStep, Flight!Answer, Cached, Runner
    <2> QED
        BY <2>5, <2>6, <2>7
<1> QED
    BY <1>3, <1>4, <1>5, <1>6, <1>7, <1>8, <1>9, <1>10 DEF CallerStep, RunStep

(* With default flags and factories that do not throw, GetOrCreateAsync    *)
(* with its dictionary of semaphores implements a single flight, for any   *)
(* number of callers.                                                      *)
THEOREM ImplementsSingleFlight ==
    ASSUME DefaultFlagged, ~FactoryThrows
    PROVE  Spec => FlightSpec
<1> DEFINE IInv == TypeOK /\ LockInv /\ thrown = {} /\ FlightInv
<1>1. Init => IInv /\ Flight!Init
    <2>1. Init => IInv
        BY InitLock, InitOnce DEF OnceInv, Init
    <2>2. Init => Flight!Init
        BY DEF Init, Flight!Init
    <2> QED
        BY <2>1, <2>2
<1>2. IInv /\ [Next]_vars => IInv'
    <2> SUFFICES ASSUME IInv, [Next]_vars PROVE IInv'
        OBVIOUS
    <2>1. thrown' = {}
        BY DEF Next, CallerStep, RunStep, vars, ReadL1, ReadL2, Fill, GetOrAdd, WaitAsync,
               CancelWait, Recheck, Factory, PutL2, PutL1, Release, TryRemove
    <2> QED
        BY <2>1, NextType, NextLock, NextFlight
<1>3. IInv /\ IInv' /\ [Next]_vars => [Flight!Next]_(Flight!vars)
    <2> SUFFICES ASSUME IInv, IInv', [Next]_vars
                 PROVE  [Flight!Next]_(Flight!vars)
        OBVIOUS
    <2>1. FlightStep
        <3>1. CASE UNCHANGED vars
            BY <3>1 DEF FlightStep, Cached, Runner, vars
        <3>2. ASSUME NEW c \in Callers, CallerStep(c) PROVE FlightStep
            BY <3>2, CallerRefines
        <3> QED
            BY <3>1, <3>2 DEF Next, DefaultFlagged
    <2> QED
        BY <2>1 DEF FlightStep, Flight!Next, Flight!vars, Cached, Runner
<1> QED
    BY <1>1, <1>2, <1>3, PTL DEF Spec, FlightSpec, Flight!Spec

=============================================================================
