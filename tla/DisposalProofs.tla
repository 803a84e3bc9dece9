---------------------------- MODULE DisposalProofs ----------------------------
(* Proofs about Disposal, for any number of callers: what StampedeLock     *)
(* promises of a semaphore survives Dispose, the queue of SemaphoreSlim    *)
(* and the exceptions of what was closed.                                  *)
EXTENDS Disposal, StampedeLockProofs

-----------------------------------------------------------------------------
(* The inductive invariant: LockInv, and what is known of the queues and   *)
(* of the semaphores that Dispose has listed or disposed of.               *)

(* Somebody is past the semaphore, or has failed to release it. *)
Held(s) == \E d \in Callers : sem[d] = s /\ (InSection(d) \/ pc[d] = "failed")

QueueInv ==
    /\ \A q \in queued : count[sem[q]] = 0
    /\ \A s \in Callers : sem[s] = s /\ count[s] = 0 => Held(s)

DisposeInv ==
    /\ \A s \in listed \cup disposed : sem[s] = s
    /\ phase \in {"open", "local", "distributed"} => listed = {} /\ disposed = {}
    /\ phase = "closed" => listed = {} /\ entry \notin disposed

DInv == ComposedTypeOK /\ LockInv /\ QueueInv /\ DisposeInv

LEMMA InitDInv == ComposedInit => DInv
<1> SUFFICES ASSUME ComposedInit
             PROVE  DInv
    OBVIOUS
<1>1. TypeOK /\ LockInv
    BY InitLock DEF ComposedInit
<1>2. \A s \in Callers : sem[s] # s
    BY ConstantsAssumption DEF ComposedInit, Init
<1>3. QueueInv
    BY <1>2 DEF ComposedInit, QueueInv
<1> QED
    BY <1>1, <1>3 DEF ComposedInit, DInv, ComposedTypeOK, DisposeInv, Phase

(* What a step of StampedeLock, or one that takes its caller out, leaves. *)
BaseStep(c) ==
    \/ ReadL1(c) \/ ReadL2(c) \/ Fill(c) \/ Recheck(c) \/ Factory(c) \/ PutL2(c) \/ PutL1(c)
    \/ GetOrAdd(c) \/ TryRemove(c) \/ CancelWait(c)

LEMMA BaseStepKeeps ==
    ASSUME DInv, NEW c \in Callers, BaseStep(c), c \in queued => CancelWait(c),
           queued' = queued \ {c}, UNCHANGED disposeVars
    PROVE  DInv'
<1> USE DEF DInv
<1>1. TypeOK' /\ LockInv'
    BY NextType, NextLock DEF BaseStep, Next, CallerStep, RunStep, ComposedTypeOK
<1>2. \A x \in Callers \ {c} : pc'[x] = pc[x] /\ sem'[x] = sem[x] /\ count'[x] = count[x]
    BY DEF BaseStep, ReadL1, ReadL2, Fill, Recheck, Factory, PutL2, PutL1, GetOrAdd, TryRemove,
           CancelWait, Goto, TypeOK, ComposedTypeOK
<1>3. \/ sem'[c] = sem[c] /\ count'[c] = count[c]
      \/ /\ sem[c] = NoLock /\ pc[c] = "lock" /\ pc'[c] = "wait"
         /\ sem'[c] = c => count'[c] = 1
    BY DEF BaseStep, ReadL1, ReadL2, Fill, Recheck, Factory, PutL2, PutL1, GetOrAdd, TryRemove,
           CancelWait, Goto, TypeOK, ComposedTypeOK, LockInv, BeforeLock
<1>4. InSection(c) => InSection(c)' 
    BY DEF BaseStep, ReadL1, ReadL2, Fill, Recheck, Factory, PutL2, PutL1, GetOrAdd, TryRemove,
           CancelWait, Goto, TypeOK, ComposedTypeOK, InSection, Section
<1>5. pc[c] # "failed"
    BY DEF BaseStep, ReadL1, ReadL2, Fill, Recheck, Factory, PutL2, PutL1, GetOrAdd, TryRemove,
           CancelWait
<1>6. entry' # entry => entry' = NoLock \/ (entry' = c /\ sem[c] = NoLock)
    BY DEF BaseStep, ReadL1, ReadL2, Fill, Recheck, Factory, PutL2, PutL1, GetOrAdd, TryRemove,
           CancelWait, LockInv, BeforeLock
<1>7. ComposedTypeOK'
    BY <1>1, <1>2 DEF ComposedTypeOK, disposeVars
<1>8. QueueInv'
  <2>1. ASSUME NEW q \in queued'
        PROVE  count'[sem'[q]] = 0
    <3>1. q \in queued /\ q \in Callers /\ sem'[q] = sem[q] /\ pc[q] = "wait"
        BY <1>2 DEF ComposedTypeOK
    <3>2. sem[q] \in Callers /\ sem[sem[q]] = sem[q] /\ sem[q] # NoLock
        BY <3>1 DEF LockInv, ComposedTypeOK, TypeOK
    <3> QED
        BY <1>2, <1>3, <3>1, <3>2 DEF QueueInv
  <2>2. ASSUME NEW s \in Callers, sem'[s] = s, count'[s] = 0
        PROVE  Held(s)'
    <3>1. sem[s] = s /\ count[s] = 0
        BY <1>2, <1>3, <2>2
    <3>2. PICK d \in Callers : sem[d] = s /\ (InSection(d) \/ pc[d] = "failed")
        BY <3>1 DEF QueueInv, Held
    <3>3. sem'[d] = s /\ (InSection(d)' \/ pc'[d] = "failed")
        BY <1>2, <1>3, <1>4, <1>5, <3>2, ConstantsAssumption DEF InSection
    <3> QED
        BY <3>3 DEF Held
  <2> QED
      BY <2>1, <2>2 DEF QueueInv
<1>9. DisposeInv'
  <2>1. \A s \in listed \cup disposed : s \in Callers /\ sem[s] = s /\ sem'[s] = s
      BY <1>2, <1>3, ConstantsAssumption DEF DisposeInv, ComposedTypeOK
  <2>2. phase = "closed" => entry' \notin disposed
      BY <1>6, <2>1, ConstantsAssumption DEF DisposeInv
  <2> QED
      BY <2>1, <2>2 DEF DisposeInv, disposeVars
<1> QED
    BY <1>1, <1>7, <1>8, <1>9

(* A caller fails on what was closed or disposed of. *)
LEMMA FailureKeeps ==
    ASSUME DInv, NEW c \in Callers, c \notin queued, NEW s \in {"failed", "release"}, Goto(c, s),
           s = "release" => pc[c] \in Section, thrown' \in SUBSET Callers,
           UNCHANGED <<entry, sem, count, l1, l2, result, runs, disposeVars, queued>>
    PROVE  DInv'
<1> USE DEF DInv
<1>1. TypeOK' /\ ComposedTypeOK'
    BY DEF TypeOK, ComposedTypeOK, Goto, Step, Section, disposeVars
<1>2. LockInv'
    BY LockKept DEF ComposedTypeOK, BeforeLock, Section
<1>3. QueueInv' /\ DisposeInv'
    BY DEF QueueInv, Held, DisposeInv, disposeVars, Goto, InSection, Section, ComposedTypeOK, TypeOK
<1> QED
    BY <1>1, <1>2, <1>3

LEMMA NextDInv == DInv /\ [ComposedNext]_allVars => DInv'
<1> SUFFICES ASSUME DInv, [ComposedNext]_allVars
             PROVE  DInv'
    OBVIOUS
<1> USE DEF DInv
<1>1. ASSUME NEW c \in Callers, CacheStep(c) \/ DictionaryStep(c)
      PROVE  DInv'
  <2>1. BaseStep(c) /\ c \notin queued /\ queued' = queued \ {c} /\ UNCHANGED disposeVars
      BY <1>1 DEF CacheStep, DictionaryStep, BaseStep, ReadL1, ReadL2, Fill, Recheck, Factory,
                  PutL2, PutL1, GetOrAdd, TryRemove, ComposedTypeOK
  <2> QED
      BY <2>1, BaseStepKeeps
<1>2. ASSUME NEW c \in Callers, Cancel(c)
      PROVE  DInv'
    BY <1>2, BaseStepKeeps DEF Cancel, BaseStep
<1>3. ASSUME NEW c \in Callers, Throw(c)
      PROVE  DInv'
  <2>1. c \notin queued
      BY <1>3 DEF Throw, MeetsClosed, UsesLocal, UsesDistributed, ComposedTypeOK
  <2> QED
      BY <1>3, <2>1, FailureKeeps DEF Throw, ComposedTypeOK, TypeOK
<1>4. ASSUME NEW c \in Callers, WaitThrows(c) \/ ReleaseThrows(c)
      PROVE  DInv'
  <2>1. c \notin queued
      BY <1>4 DEF WaitThrows, ReleaseThrows, Arrives, ComposedTypeOK
  <2> QED
      BY <1>4, <2>1, FailureKeeps DEF WaitThrows, ReleaseThrows, ComposedTypeOK, TypeOK
<1>5. ASSUME NEW c \in Callers, Enter(c)
      PROVE  DInv'
  <2>1. TypeOK' /\ LockInv'
      BY <1>5, NextType, NextLock DEF Enter, Next, CallerStep, RunStep, ComposedTypeOK
  <2>2. /\ pc[c] = "wait" /\ c \notin queued /\ count[sem[c]] # 0
        /\ pc' = [pc EXCEPT ![c] = "recheck"] /\ count' = [count EXCEPT ![sem[c]] = @ - 1]
        /\ UNCHANGED <<sem, entry, queued, disposeVars>>
      BY <1>5 DEF Enter, Arrives, WaitAsync, Goto, ComposedTypeOK, TypeOK
  <2>3. \A q \in queued : q \in Callers /\ sem[q] # sem[c] /\ count'[sem[q]] = count[sem[q]]
      BY <2>2 DEF QueueInv, ComposedTypeOK, TypeOK, LockInv
  <2>4. QueueInv'
      BY <2>2, <2>3 DEF QueueInv, Held, InSection, Section, ComposedTypeOK, TypeOK
  <2>5. ComposedTypeOK' /\ DisposeInv'
      BY <2>1, <2>2 DEF ComposedTypeOK, DisposeInv, disposeVars, TypeOK
  <2> QED
      BY <2>1, <2>4, <2>5
<1>6. ASSUME NEW c \in Callers, Join(c)
      PROVE  DInv'
    BY <1>6 DEF Join, Arrives, vars, disposeVars, ComposedTypeOK, TypeOK, LockInv, SemaphoreExcludes,
                InSection, QueueInv, Held, DisposeInv
<1>7. ASSUME NEW c \in Callers, GiveBack(c)
      PROVE  DInv'
  <2>1. TypeOK' /\ LockInv'
      BY <1>7, NextType, NextLock DEF GiveBack, Next, CallerStep, RunStep, ComposedTypeOK
  <2>2. /\ pc[c] = "release" /\ \A q \in queued : sem[q] # sem[c]
        /\ pc' = [pc EXCEPT ![c] = "remove"] /\ count' = [count EXCEPT ![sem[c]] = @ + 1]
        /\ UNCHANGED <<sem, entry, queued, disposeVars>>
      BY <1>7 DEF GiveBack, Queue, Release, Goto
  <2>3. QueueInv'
      BY <2>2 DEF QueueInv, Held, InSection, Section, ComposedTypeOK, TypeOK
  <2>4. ComposedTypeOK' /\ DisposeInv'
      BY <2>1, <2>2 DEF ComposedTypeOK, DisposeInv, disposeVars, TypeOK
  <2> QED
      BY <2>1, <2>3, <2>4
<1>8. ASSUME NEW c \in Callers, HandOn(c)
      PROVE  DInv'
  <2>1. PICK d \in queued : /\ sem[d] = sem[c] /\ queued' = queued \ {d}
                            /\ pc' = [pc EXCEPT ![c] = "remove", ![d] = "recheck"]
      BY <1>8 DEF HandOn, Queue
  <2>2. /\ pc[c] = "release" /\ pc[d] = "wait" /\ d \in Callers /\ c # d
        /\ UNCHANGED <<entry, sem, count, l1, l2, result, runs, thrown, disposeVars>>
      BY <1>8, <2>1 DEF HandOn, ComposedTypeOK
  <2>3. /\ pc'[c] = "remove" /\ pc'[d] = "recheck"
        /\ \A x \in Callers \ {c, d} : pc'[x] = pc[x]
      BY <2>1, <2>2 DEF ComposedTypeOK, TypeOK
  <2>4. ComposedTypeOK'
      BY <2>1, <2>2, <2>3 DEF ComposedTypeOK, TypeOK, disposeVars, Step, Section
  <2>5. \A x \in Callers : InSection(x)' => x = d \/ (InSection(x) /\ x # c)
      BY <2>3 DEF InSection, Section
  <2>6. InSection(c) /\ InSection(d)'
      BY <2>2, <2>3 DEF InSection, Section
  <2>7. SemaphoreExcludes'
      BY <2>1, <2>2, <2>5, <2>6 DEF LockInv, SemaphoreExcludes
  <2>8. LockInv'
    <3>1. \A x \in Callers : pc'[x] \in BeforeLock => pc[x] \in BeforeLock
        BY <2>3 DEF BeforeLock
    <3>2. \A x \in Callers : pc'[x] = "wait" \/ InSection(x)' => pc[x] = "wait" \/ InSection(x)
        BY <2>2, <2>3, <2>5
    <3>3. \A x \in Callers : InSection(x)' => count[sem[x]] = 0
        BY <2>1, <2>2, <2>5, <2>6 DEF LockInv
    <3> QED
        BY <2>2, <2>7, <3>1, <3>2, <3>3 DEF LockInv
  <2>9. QueueInv'
    <3>1. ASSUME NEW s \in Callers, sem[s] = s, count[s] = 0
          PROVE  Held(s)'
      <4>1. PICK x \in Callers : sem[x] = s /\ (InSection(x) \/ pc[x] = "failed")
          BY <3>1 DEF QueueInv, Held
      <4>2. CASE x = c
          BY <2>1, <2>2, <2>6, <4>1, <4>2 DEF Held
      <4>3. CASE x # c
          BY <2>2, <2>3, <4>1, <4>3 DEF Held, InSection, Section
      <4> QED
          BY <4>2, <4>3
    <3> QED
        BY <2>1, <2>2, <3>1 DEF QueueInv
  <2>10. DisposeInv'
      BY <2>2 DEF DisposeInv, disposeVars
  <2> QED
      BY <2>4, <2>8, <2>9, <2>10
<1>9. ASSUME DisposeStep
      PROVE  DInv'
  <2>1. TypeOK' /\ LockInv' /\ ComposedTypeOK'
      BY <1>9, ConstantsAssumption
      DEF DisposeStep, DisposeLocal, DisposeDistributed, ListSemaphores, DisposeSemaphore,
          ClearLocks, vars, ComposedTypeOK, TypeOK, LockInv, Phase, SemaphoreExcludes, InSection
  <2>2. QueueInv'
      BY <1>9 DEF DisposeStep, DisposeLocal, DisposeDistributed, ListSemaphores, DisposeSemaphore,
          ClearLocks, vars, QueueInv, Held, InSection
  <2>3. DisposeInv'
      BY <1>9, ConstantsAssumption
      DEF DisposeStep, DisposeLocal, DisposeDistributed, ListSemaphores, DisposeSemaphore,
          ClearLocks, vars, DisposeInv, LockInv, ComposedTypeOK
  <2> QED
      BY <2>1, <2>2, <2>3
<1>10. CASE UNCHANGED <<pc, entry, sem, count, result, runs, thrown, disposeVars, queued>>
            /\ TypeOK'
    BY <1>10 DEF ComposedTypeOK, LockInv, SemaphoreExcludes, QueueInv, Held, DisposeInv,
                 InSection, disposeVars
<1>11. Expire => DInv'
    BY <1>10 DEF Expire, TypeOK, ComposedTypeOK
<1>12. UNCHANGED allVars => DInv'
    BY <1>10 DEF allVars, vars, ComposedTypeOK, TypeOK
<1> QED
    BY <1>1, <1>2, <1>3, <1>4, <1>5, <1>6, <1>7, <1>8, <1>9, <1>11, <1>12
    DEF ComposedNext, ComposedRunStep

LEMMA DInvHolds == ComposedSpec => []DInv
BY InitDInv, NextDInv, PTL DEF ComposedSpec

-----------------------------------------------------------------------------
(* Dispose, queues and exceptions included, every variable keeps its type. *)
THEOREM ComposedTypeCorrect == ComposedSpec => []ComposedTypeOK
BY DInvHolds, PTL DEF DInv

(* While Dispose goes on, a semaphore still admits one caller at a time,   *)
(* and a release fits, whether it hands the semaphore on or gives it back. *)
THEOREM DisposalLockSafe == ComposedSpec => [](SemaphoreExcludes /\ ReleaseFits)
<1>1. DInv => SemaphoreExcludes /\ ReleaseFits
    BY DEF DInv, LockInv, ReleaseFits, InSection, Section
<1> QED
    BY <1>1, DInvHolds, PTL

(* A caller that Dispose leaves waiting for good waits behind another one  *)
(* that is inside, or has failed to release the semaphore.                 *)
THEOREM StrandedWaitBehindHolder == ComposedSpec => []StrandedBehindHolder
<1>1. DInv => StrandedBehindHolder
  <2> SUFFICES ASSUME DInv, NEW c \in Callers, Stranded(c)
               PROVE  /\ count[sem[c]] = 0
                      /\ \E d \in Callers : sem[d] = sem[c] /\ (InSection(d) \/ pc[d] = "failed")
      BY DEF StrandedBehindHolder
  <2>1. sem[c] \in Callers /\ sem[sem[c]] = sem[c] /\ count[sem[c]] = 0
      BY DEF DInv, Stranded, ComposedTypeOK, TypeOK, LockInv, QueueInv
  <2> QED
      BY <2>1 DEF DInv, QueueInv, Held
<1> QED
    BY <1>1, DInvHolds, PTL

(* What _reqLocks lists after Dispose was never disposed of: new calls are *)
(* not given a semaphore that throws.                                      *)
THEOREM NoDisposedListed == ComposedSpec => []NoDisposedIsListed
<1>1. DInv => NoDisposedIsListed
    BY DEF DInv, DisposeInv, NoDisposedIsListed
<1> QED
    BY <1>1, DInvHolds, PTL

-----------------------------------------------------------------------------
(* What is left in the dictionary.  The maker of a listed semaphore that   *)
(* still works has the removal before it, or was cancelled in the queue: a *)
(* caller whose factory or cache threw, too, goes through the finally      *)
(* block, which only a disposed semaphore cuts short.                      *)
Owing(c) == pc[c] \in {"wait", "remove"} \cup Section

EntryInv ==
    /\ \A c \in thrown : pc[c] \in {"release", "remove", "failed"}
    /\ entry # NoLock /\ entry \notin disposed =>
        Owing(entry) \/ (pc[entry] = "failed" /\ entry \notin thrown)

LEMMA InitEntry == ComposedInit => EntryInv
BY DEF ComposedInit, Init, EntryInv

LEMMA NextEntry == DInv /\ EntryInv /\ [ComposedNext]_allVars => EntryInv'
<1> SUFFICES ASSUME DInv, EntryInv, [ComposedNext]_allVars
             PROVE  EntryInv'
    OBVIOUS
<1>1. /\ TypeOK /\ (entry # NoLock => sem[entry] = entry)
      /\ \A c \in Callers : pc[c] \in BeforeLock => sem[c] = NoLock
    BY DEF DInv, ComposedTypeOK, LockInv
<1>2. ASSUME NEW c \in Callers, CacheStep(c)
      PROVE  EntryInv'
  <2>1. UNCHANGED <<entry, sem, disposed>>
      BY <1>2 DEF CacheStep, ReadL1, ReadL2, Fill, Recheck, Factory, PutL2, PutL1, disposeVars
  <2>2. \A x \in Callers \ {c} : pc'[x] = pc[x]
      BY <1>1, <1>2 DEF CacheStep, ReadL1, ReadL2, Fill, Recheck, Factory, PutL2, PutL1, Goto, TypeOK
  <2>3. \/ pc[c] \in BeforeLock /\ thrown' = thrown
        \/ /\ pc[c] \in Section \ {"release"} /\ pc'[c] \in Section
           /\ thrown' = thrown \/ (thrown' = thrown \cup {c} /\ pc'[c] = "release")
      BY <1>1, <1>2 DEF CacheStep, ReadL1, ReadL2, Fill, Recheck, Factory, PutL2, PutL1, Goto, TypeOK,
                        BeforeLock, Section
  <2>4. CASE pc[c] \in BeforeLock /\ thrown' = thrown
    <3>1. c \notin thrown /\ (entry # NoLock => entry # c)
        BY <1>1, <2>4, ConstantsAssumption DEF EntryInv, BeforeLock
    <3> QED
        BY <1>1, <2>1, <2>2, <2>4, <3>1 DEF EntryInv, Owing, TypeOK
  <2>5. CASE pc[c] \in Section \ {"release"} /\ pc'[c] \in Section
    <3>1. c \notin thrown
        BY <2>5 DEF EntryInv, Section
    <3> QED
        BY <1>1, <2>1, <2>2, <2>3, <2>5, <3>1 DEF EntryInv, Owing, TypeOK, BeforeLock, Section
  <2> QED
      BY <2>3, <2>4, <2>5
<1>3. ASSUME NEW c \in Callers, DictionaryStep(c)
      PROVE  EntryInv'
    BY <1>1, <1>3, ConstantsAssumption
    DEF DictionaryStep, GetOrAdd, TryRemove, Goto, TypeOK, EntryInv, Owing, Section, disposeVars,
        BeforeLock
<1>4. ASSUME NEW c \in Callers, Throw(c)
      PROVE  EntryInv'
  <2>1. /\ UNCHANGED <<entry, disposed>>
        /\ pc[c] \in BeforeLock \/ pc[c] \in Section
      BY <1>4 DEF Throw, MeetsClosed, UsesLocal, UsesDistributed, disposeVars, BeforeLock, Section
  <2>2. CASE pc[c] \in Section
      BY <1>1, <1>4, <2>1, <2>2 DEF Throw, Goto, EntryInv, Owing, Section, TypeOK
  <2>3. CASE pc[c] \notin Section
    <3>1. c \notin thrown /\ (entry # NoLock => entry # c)
        BY <1>1, <2>1, <2>3, ConstantsAssumption DEF EntryInv, BeforeLock
    <3> QED
        BY <1>1, <1>4, <2>1, <2>3, <3>1 DEF Throw, Goto, EntryInv, Owing, TypeOK
  <2> QED
      BY <2>2, <2>3
<1>5. ASSUME NEW c \in Callers, Cancel(c) \/ Enter(c)
      PROVE  EntryInv'
    BY <1>1, <1>5 DEF Cancel, CancelWait, Enter, WaitAsync, Goto, TypeOK, EntryInv, Owing, Section,
                      disposeVars
<1>6. ASSUME NEW c \in Callers, GiveBack(c)
      PROVE  EntryInv'
    BY <1>1, <1>6 DEF GiveBack, Release, Goto, TypeOK, EntryInv, Owing, disposeVars
<1>7. ASSUME NEW c \in Callers, WaitThrows(c) \/ ReleaseThrows(c)
      PROVE  EntryInv'
  <2>1. /\ sem[c] \in disposed /\ pc[c] \in {"wait", "release"}
        /\ UNCHANGED <<entry, thrown, disposed>>
        /\ pc' = [pc EXCEPT ![c] = "failed"]
      BY <1>7 DEF WaitThrows, ReleaseThrows, Arrives, Goto, disposeVars
  <2> QED
      BY <1>1, <2>1 DEF TypeOK, EntryInv, Owing
<1>8. ASSUME NEW c \in Callers, HandOn(c)
      PROVE  EntryInv'
  <2>1. PICK d \in queued : /\ pc[d] = "wait" /\ pc[c] = "release"
                            /\ pc' = [pc EXCEPT ![c] = "remove", ![d] = "recheck"]
                            /\ UNCHANGED <<entry, thrown, disposed>>
      BY <1>8 DEF HandOn, Queue, DInv, ComposedTypeOK, disposeVars
  <2> QED
      BY <1>1, <2>1 DEF TypeOK, EntryInv, Owing, Section
<1>9. CASE DisposeStep
    BY <1>1, <1>9 DEF DisposeStep, DisposeLocal, DisposeDistributed, ListSemaphores, DisposeSemaphore,
        ClearLocks, vars, EntryInv, Owing
<1>10. CASE UNCHANGED <<pc, entry, thrown, disposed>>
    BY <1>10 DEF EntryInv, Owing
<1> QED
    BY <1>2, <1>3, <1>4, <1>5, <1>6, <1>7, <1>8, <1>9, <1>10
    DEF ComposedNext, ComposedRunStep, Join, Expire, allVars, vars, disposeVars

(* When everybody has ended, or waits for what was disposed of, only a     *)
(* caller cancelled in the queue has left its semaphore in _reqLocks: not  *)
(* one whose release or cache threw because of Dispose.                    *)
THEOREM OnlyCancelledStayListed == ComposedSpec => []NothingLeftListed
<1>1. DInv /\ EntryInv => NothingLeftListed
  <2> SUFFICES ASSUME DInv, EntryInv, AllSettled, phase \in {"open", "closed"}, entry # NoLock
               PROVE  pc[entry] = "failed" /\ entry \notin thrown
      BY DEF NothingLeftListed
  <2>1. entry \in Callers /\ sem[entry] = entry /\ entry \notin disposed
      BY DEF DInv, ComposedTypeOK, TypeOK, LockInv, DisposeInv
  <2>2. pc[entry] \in Ended
      BY <2>1 DEF AllSettled, Stranded
  <2> QED
      BY <2>1, <2>2 DEF EntryInv, Owing, Ended, Section
<1> QED
    BY <1>1, InitEntry, NextEntry, InitDInv, NextDInv, PTL DEF ComposedSpec

-----------------------------------------------------------------------------
(* The single flight, with the queues of SemaphoreSlim in their place.     *)

(* Calls on a cache that is in use: nobody disposes of it, and its entries *)
(* stay while the calls run.                                               *)
InUseNext ==
    \/ \E c \in Callers : ComposedRunStep(c) \/ Cancel(c)
    \/ AllSettled /\ UNCHANGED allVars

InUseSpec == ComposedInit /\ [][InUseNext]_allVars

(* A caller that is woken takes the semaphore over, which takes two steps  *)
(* in StampedeLock: but neither a runner nor an answer sees to that.       *)
LEMMA HandOnInFlight ==
    ASSUME ComposedTypeOK, FlightInv, NEW c \in Callers, HandOn(c)
    PROVE  FlightInv' /\ FlightStep
<1>1. PICK d \in Queue(sem[c]) :
         /\ pc[c] = "release" /\ pc' = [pc EXCEPT ![c] = "remove", ![d] = "recheck"]
         /\ UNCHANGED <<entry, sem, count, l1, l2, result, runs, thrown>>
    BY DEF HandOn
<1>2. \A x \in Callers : pc'[x] = pc[x] \/ pc'[x] \in {"remove", "recheck"}
    BY <1>1 DEF ComposedTypeOK, TypeOK
<1>3. Cached' = Cached /\ l1 # NoValue /\ Cached # Initial
    BY <1>1 DEF FlightInv, AllAtOneLock, Cached
<1>4. FlightInv'
    BY <1>1, <1>2, <1>3 DEF FlightInv
<1>5. Runner' = Runner
    <2>1. pc[d] = "wait"
        BY <1>1 DEF Queue, ComposedTypeOK
    <2> QED
        BY <1>1, <2>1 DEF ComposedTypeOK, TypeOK, Runner
<1> QED
    BY <1>1, <1>3, <1>4, <1>5 DEF FlightStep

(* While the cache is in use every other step is one of StampedeLock, or   *)
(* of the queue alone.                                                     *)
LEMMA InUseSteps ==
    ASSUME DInv, phase = "open", [InUseNext]_allVars
    PROVE  /\ [ComposedNext]_allVars /\ phase' = "open"
           /\ \/ UNCHANGED vars
              \/ \E c \in Callers : CallerStep(c) \/ HandOn(c)
<1>1. disposed = {}
    BY DEF DInv, DisposeInv
<1>2. CASE UNCHANGED allVars
    BY <1>2 DEF allVars, disposeVars
<1>3. ASSUME NEW c \in Callers, ComposedRunStep(c) \/ Cancel(c)
      PROVE  /\ phase' = "open"
             /\ UNCHANGED vars \/ CallerStep(c) \/ HandOn(c)
    <2>1. ~MeetsClosed(c)
        BY DEF MeetsClosed
    <2>2. ~Throw(c) /\ ~WaitThrows(c) /\ ~ReleaseThrows(c)
        BY <1>1, <2>1 DEF Throw, WaitThrows, ReleaseThrows
    <2>3. CASE CacheStep(c) \/ DictionaryStep(c)
        BY <2>3 DEF CacheStep, DictionaryStep, CallerStep, RunStep, disposeVars
    <2>4. CASE Enter(c) \/ GiveBack(c) \/ Cancel(c)
        BY <2>4 DEF Enter, GiveBack, Cancel, CallerStep, RunStep, disposeVars
    <2>5. CASE Join(c) \/ HandOn(c)
        BY <2>5 DEF Join, HandOn, disposeVars
    <2> QED
        BY <1>3, <2>2, <2>3, <2>4, <2>5 DEF ComposedRunStep
<1> QED
    BY <1>2, <1>3 DEF InUseNext, ComposedNext, allVars

(* With default flags and factories that do not throw, calls on a cache in *)
(* use are a single flight whichever waiter a release wakes.               *)
THEOREM QueueImplementsSingleFlight ==
    ASSUME DefaultFlagged, ~FactoryThrows
    PROVE  InUseSpec => FlightSpec
<1> DEFINE IInv == DInv /\ phase = "open" /\ thrown = {} /\ FlightInv
<1>1. ComposedInit => IInv /\ Flight!Init
    <2> SUFFICES ASSUME ComposedInit PROVE IInv /\ Flight!Init
        OBVIOUS
    <2>1. DInv /\ phase = "open" /\ thrown = {} /\ FlightInv
        BY InitDInv, InitOnce DEF ComposedInit, Init, OnceInv
    <2> QED
        BY <2>1 DEF ComposedInit, Init, Flight!Init
<1>2. IInv /\ [InUseNext]_allVars => IInv' /\ [Flight!Next]_(Flight!vars)
    <2> SUFFICES ASSUME IInv, [InUseNext]_allVars PROVE IInv' /\ [Flight!Next]_(Flight!vars)
        OBVIOUS
    <2>1. TypeOK /\ LockInv /\ ComposedTypeOK
        BY DEF DInv, ComposedTypeOK
    <2>2. DInv' /\ phase' = "open"
        BY InUseSteps, NextDInv
    <2>3. CASE UNCHANGED vars
        <3>1. FlightInv' /\ thrown' = {}
            BY <2>1, <2>3, NextFlight DEF vars
        <3> QED
            BY <2>2, <2>3, <3>1 DEF vars, FlightStep, Flight!vars
    <2>4. ASSUME NEW c \in Callers, CallerStep(c)
          PROVE  IInv' /\ FlightStep
        <3>1. thrown' = {}
            BY <2>4 DEF CallerStep, RunStep, ReadL1, ReadL2, Fill, GetOrAdd, WaitAsync,
                   CancelWait, Recheck, Factory, PutL2, PutL1, Release, TryRemove
        <3>2. FlightInv'
            BY <2>1, <2>4, <3>1, NextFlight DEF Next
        <3> QED
            BY <2>1, <2>2, <2>4, <3>1, <3>2, CallerRefines
    <2>5. ASSUME NEW c \in Callers, HandOn(c)
          PROVE  IInv' /\ FlightStep
        <3>1. thrown' = {}
            BY <2>5 DEF HandOn
        <3> QED
            BY <2>1, <2>2, <2>5, <3>1, HandOnInFlight
    <2>6. FlightStep => [Flight!Next]_(Flight!vars)
        BY DEF FlightStep, Flight!Next, Flight!vars, Cached, Runner
    <2> QED
        BY <2>3, <2>4, <2>5, <2>6, InUseSteps
<1> QED
    BY <1>1, <1>2, PTL DEF InUseSpec, FlightSpec, Flight!Spec

=============================================================================
