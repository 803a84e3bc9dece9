---------------------------- MODULE StampedeLock ----------------------------
(***************************************************************************)
(* The locking of GetOrCreateAsync: concurrent callers of one key on one   *)
(* node, the dictionary _reqLocks that maps the key to a SemaphoreSlim,    *)
(* and the second look into the cache once the semaphore is held.          *)
(*                                                                         *)
(* A caller that finds no semaphore in the dictionary makes one, named     *)
(* here after its maker.  After its release a caller takes whatever        *)
(* semaphore the dictionary then holds for the key out of it, so several   *)
(* semaphores of one key can be alive at a time.                           *)
(*                                                                         *)
(* Here nothing is lost from a cache; Disposal lets entries expire.        *)
(***************************************************************************)
EXTENDS Naturals

CONSTANTS
    Callers,        \* calls of GetOrCreateAsync for the key, one each
    Flags,          \* the flags of each call
    NoLock,         \* no semaphore
    NoValue,        \* no entry in a cache, no result of a call
    Initial,        \* a value cached before
    FactoryThrows,  \* a factory may throw
    MayCancel       \* a caller may cancel while it waits

FlagNames == {"LocalRead", "LocalWrite", "DistributedRead", "DistributedWrite",
              "UnderlyingData"}

ASSUME ConstantsAssumption ==
    /\ Flags \in [Callers -> SUBSET FlagNames]
    /\ \A c \in Callers : ~({"LocalRead", "DistributedRead"} \subseteq Flags[c])
    /\ NoLock \notin Callers
    /\ Initial \notin Callers
    /\ NoValue \notin Callers \cup {Initial}
    /\ FactoryThrows \in BOOLEAN /\ MayCancel \in BOOLEAN

Value == Callers \cup {Initial}

(* The steps at which a caller holds its semaphore. *)
Section == {"recheck", "factory", "putL2", "putL1", "release"}
Step == {"readL1", "readL2", "fill", "lock", "wait", "remove", "done", "failed"} \cup Section
Ended == {"done", "failed"}

VARIABLES
    pc,         \* the next step of a caller
    entry,      \* the semaphore _reqLocks holds for the key
    sem,        \* the semaphore a caller got from _reqLocks
    count,      \* CurrentCount of a semaphore
    l1, l2,     \* the entry of the key in the local and the distributed cache
    result,     \* what a call returns, or has read or made to return
    runs,       \* history: the callers that invoked their factory
    thrown      \* history: the callers whose factory threw

vars == <<pc, entry, sem, count, l1, l2, result, runs, thrown>>

TypeOK ==
    /\ pc \in [Callers -> Step]
    /\ entry \in Callers \cup {NoLock}
    /\ sem \in [Callers -> Callers \cup {NoLock}]
    /\ count \in [Callers -> {0, 1}]
    /\ l1 \in Value \cup {NoValue}
    /\ l2 \in Value \cup {NoValue}
    /\ result \in [Callers -> Value \cup {NoValue}]
    /\ runs \in SUBSET Callers
    /\ thrown \in SUBSET Callers

Init ==
    /\ pc = [c \in Callers |-> "readL1"]
    /\ entry = NoLock
    /\ sem = [c \in Callers |-> NoLock]
    /\ count = [c \in Callers |-> 0]
    /\ l1 \in {NoValue, Initial}
    /\ l2 \in {NoValue, Initial}
    /\ result = [c \in Callers |-> NoValue]
    /\ runs = {}
    /\ thrown = {}

Goto(c, step) == pc' = [pc EXCEPT ![c] = step]
Return(c, v) == result' = [result EXCEPT ![c] = v]

Disables(c, names) == Flags[c] \cap names # {}
LocalFlags == {"LocalRead", "LocalWrite"}
DistributedFlags == {"DistributedRead", "DistributedWrite"}

ReadL1(c) ==
    /\ pc[c] = "readL1"
    /\ IF "LocalRead" \notin Flags[c] /\ l1 # NoValue
       THEN Goto(c, "done") /\ Return(c, l1)
       ELSE Goto(c, "readL2") /\ UNCHANGED result
    /\ UNCHANGED <<entry, sem, count, l1, l2, runs, thrown>>

ReadL2(c) ==
    /\ pc[c] = "readL2"
    /\ IF "DistributedRead" \notin Flags[c] /\ l2 # NoValue
       THEN /\ Goto(c, IF Disables(c, LocalFlags) THEN "done" ELSE "fill")
            /\ Return(c, l2)
       ELSE /\ Goto(c, IF "UnderlyingData" \in Flags[c] THEN "done" ELSE "lock")
            /\ UNCHANGED result
    /\ UNCHANGED <<entry, sem, count, l1, l2, runs, thrown>>

Fill(c) ==
    /\ pc[c] = "fill"
    /\ l1' = result[c]
    /\ Goto(c, "done")
    /\ UNCHANGED <<entry, sem, count, l2, result, runs, thrown>>

(* _reqLocks.GetOrAdd(key, _ => new SemaphoreSlim(1, 1)) *)
GetOrAdd(c) ==
    /\ pc[c] = "lock"
    /\ Goto(c, "wait")
    /\ IF entry = NoLock
       THEN /\ entry' = c
            /\ count' = [count EXCEPT ![c] = 1]
            /\ sem' = [sem EXCEPT ![c] = c]
       ELSE /\ sem' = [sem EXCEPT ![c] = entry]
            /\ UNCHANGED <<entry, count>>
    /\ UNCHANGED <<l1, l2, result, runs, thrown>>

(* semaphore.WaitAsync(cancellationToken) *)
(* Mutant: the semaphore admits everybody. *)
WaitForNobody(c) ==
    /\ pc[c] = "wait"
    /\ Goto(c, "recheck")
    /\ UNCHANGED <<entry, sem, count, l1, l2, result, runs, thrown>>

WaitAsync(c) ==
    /\ pc[c] = "wait"
    /\ count[sem[c]] > 0
    /\ count' = [count EXCEPT ![sem[c]] = @ - 1]
    /\ Goto(c, "recheck")
    /\ UNCHANGED <<entry, sem, l1, l2, result, runs, thrown>>

(* The wait stands before the try block: a cancelled caller neither        *)
(* releases the semaphore nor takes it out of the dictionary.              *)
CancelWait(c) ==
    /\ MayCancel
    /\ pc[c] = "wait"
    /\ Goto(c, "failed")
    /\ UNCHANGED <<entry, sem, count, l1, l2, result, runs, thrown>>

(* Only the first level a caller may read is looked at again. *)
Again(c) == IF "LocalRead" \in Flags[c] THEN l2 ELSE l1

(* Mutant: no second look. *)
RunAnyway(c) ==
    /\ pc[c] = "recheck"
    /\ Goto(c, "factory") /\ runs' = runs \cup {c}
    /\ UNCHANGED <<entry, sem, count, l1, l2, result, thrown>>

(* Mutant: a hit returns past the finally block. *)
ReturnAtOnce(c) ==
    /\ pc[c] = "recheck"
    /\ IF Again(c) # NoValue
       THEN Goto(c, "done") /\ Return(c, Again(c)) /\ UNCHANGED runs
       ELSE Goto(c, "factory") /\ runs' = runs \cup {c} /\ UNCHANGED result
    /\ UNCHANGED <<entry, sem, count, l1, l2, thrown>>

Recheck(c) ==
    /\ pc[c] = "recheck"
    /\ IF Again(c) # NoValue
       THEN Goto(c, "release") /\ Return(c, Again(c)) /\ UNCHANGED runs
       ELSE Goto(c, "factory") /\ runs' = runs \cup {c} /\ UNCHANGED result
    /\ UNCHANGED <<entry, sem, count, l1, l2, thrown>>

(* The factory, or the insert into L2 after it, throws: nothing reaches    *)
(* a cache, and the finally block follows.                                 *)
Factory(c) ==
    /\ pc[c] = "factory"
    /\ \/ Goto(c, "putL2") /\ UNCHANGED thrown
       \/ FactoryThrows /\ Goto(c, "release") /\ thrown' = thrown \cup {c}
    /\ UNCHANGED <<entry, sem, count, l1, l2, result, runs>>

PutL2(c) ==
    /\ pc[c] = "putL2"
    /\ Goto(c, "putL1")
    /\ l2' = IF Disables(c, DistributedFlags) THEN l2 ELSE c
    /\ UNCHANGED <<entry, sem, count, l1, result, runs, thrown>>

PutL1(c) ==
    /\ pc[c] = "putL1"
    /\ Goto(c, "release")
    /\ l1' = IF Disables(c, LocalFlags) THEN l1 ELSE c
    /\ Return(c, c)
    /\ UNCHANGED <<entry, sem, count, l2, runs, thrown>>

(* Mutant: the release is not in a finally block. *)
ReleaseUnlessThrown(c) ==
    /\ pc[c] = "release"
    /\ Goto(c, "remove")
    /\ count' = IF c \in thrown THEN count ELSE [count EXCEPT ![sem[c]] = @ + 1]
    /\ UNCHANGED <<entry, sem, l1, l2, result, runs, thrown>>

Release(c) ==
    /\ pc[c] = "release"
    /\ Goto(c, "remove")
    /\ count' = [count EXCEPT ![sem[c]] = @ + 1]
    /\ UNCHANGED <<entry, sem, l1, l2, result, runs, thrown>>

(* Mutant: a caller whose factory threw leaves the entry behind. *)
RemoveUnlessThrown(c) ==
    /\ pc[c] = "remove"
    /\ Goto(c, IF c \in thrown THEN "failed" ELSE "done")
    /\ entry' = IF c \in thrown THEN entry ELSE NoLock
    /\ UNCHANGED <<sem, count, l1, l2, result, runs, thrown>>

(* _reqLocks.TryRemove(key, out _): by key, whichever semaphore is there. *)
TryRemove(c) ==
    /\ pc[c] = "remove"
    /\ Goto(c, IF c \in thrown THEN "failed" ELSE "done")
    /\ entry' = NoLock
    /\ UNCHANGED <<sem, count, l1, l2, result, runs, thrown>>

RunStep(c) ==
    \/ ReadL1(c) \/ ReadL2(c) \/ Fill(c)
    \/ GetOrAdd(c) \/ WaitAsync(c)
    \/ Recheck(c) \/ Factory(c) \/ PutL2(c) \/ PutL1(c)
    \/ Release(c) \/ TryRemove(c)

CallerStep(c) == RunStep(c) \/ CancelWait(c)

AllEnded == \A c \in Callers : pc[c] \in Ended

Next ==
    \/ \E c \in Callers : CallerStep(c)
    \/ AllEnded /\ UNCHANGED vars

Spec == Init /\ [][Next]_vars

(* A task runs on unless it waits for a semaphore that is taken; nobody    *)
(* has to cancel.                                                          *)
FairSpec == Spec /\ \A c \in Callers : WF_vars(RunStep(c))

-----------------------------------------------------------------------------
(* Properties. *)

InSection(c) == pc[c] \in Section

(* Two callers that share a semaphore are never both past it, although     *)
(* others of the same key may be past another one.                         *)
SemaphoreExcludes ==
    \A c, d \in Callers : InSection(c) /\ InSection(d) /\ sem[c] = sem[d] => c = d

(* A release never takes a semaphore over its maximum count of one, which  *)
(* would throw a SemaphoreFullException out of the finally block.          *)
ReleaseFits == \A c \in Callers : pc[c] = "release" => count[sem[c]] = 0

DefaultFlagged == \A c \in Callers : Flags[c] = {}

(* With default flags, a second factory runs only after one has thrown, as *)
(* long as entries stay: the second look into L1, and writing L1 before    *)
(* the release, make up for the dictionary losing semaphores in use.       *)
RunsAgainOnlyAfterThrow ==
    DefaultFlagged /\ thrown = {} => \A c, d \in runs : c = d

(* "Verify subsequent requests wait for first factory to complete and use  *)
(* cached result -> All N requests return same value" (Docs/Test Cases.txt,*)
(* GET-049), as long as no factory throws.                                 *)
SameAnswer ==
    DefaultFlagged /\ thrown = {} =>
        \A c, d \in Callers : NoValue \in {result[c], result[d]} \/ result[c] = result[d]

(* "Remove the semaphore from the dictionary to prevent memory leaks"      *)
(* (NCacheHybridCache.cs:807): nobody left, nothing left - except that the *)
(* maker of a semaphore who is cancelled while it waits leaves it behind.  *)
NoSemaphoreLeft ==
    AllEnded /\ entry # NoLock => pc[entry] = "failed" /\ entry \notin thrown

(* Every caller ends: nobody waits for a semaphore nobody will release. *)
EveryCallEnds == \A c \in Callers : <>(pc[c] \in Ended)

(* "Uses semaphore-based locking per key to prevent concurrent factory     *)
(* invocations for the same key" (Docs/Public API Reference.txt).          *)
NoConcurrentFactories ==
    \A c, d \in Callers : pc[c] = "factory" /\ pc[d] = "factory" => c = d

(* With default flags and no throwing factory, callers see a single        *)
(* flight: the cached value is that of L1, or of L2 until L1 is written.   *)
Flight == INSTANCE SingleFlight WITH
    value <- IF l1 # NoValue THEN l1 ELSE l2,
    runner <- {c \in Callers : pc[c] \in {"factory", "putL2"}},
    answer <- result

FlightSpec == Flight!Spec

=============================================================================
