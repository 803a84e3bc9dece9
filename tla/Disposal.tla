------------------------------- MODULE Disposal -------------------------------
(***************************************************************************)
(* Dispose of NCacheHybridCache, run while calls of GetOrCreateAsync are   *)
(* under way on the node: StampedeLock, composed with the steps of Dispose.*)
(*                                                                         *)
(* Dispose closes both caches, then disposes of the semaphores that        *)
(* _reqLocks lists, and empties it.  Nothing holds calls back meanwhile:   *)
(* what they do on a closed cache or a disposed semaphore throws, except   *)
(* that a caller in the queue of a semaphore is never heard of again.      *)
(*                                                                         *)
(* The wait of StampedeLock is taken apart here as SemaphoreSlim does it:  *)
(* WaitAsync takes a free semaphore or joins a queue, and Release hands    *)
(* the semaphore to a caller in the queue.                                 *)
(***************************************************************************)
EXTENDS StampedeLock

VARIABLES
    phase,      \* how far Dispose has come
    listed,     \* the semaphores Dispose has found in _reqLocks
    disposed,   \* the semaphores that were disposed of
    queued      \* the callers in the queues of semaphores

disposeVars == <<phase, listed, disposed>>
allVars == <<vars, disposeVars, queued>>

Phase == {"open", "local", "distributed", "semaphores", "closed"}

ComposedTypeOK ==
    /\ TypeOK
    /\ phase \in Phase
    /\ listed \in SUBSET Callers
    /\ disposed \in SUBSET Callers
    /\ queued \in SUBSET {c \in Callers : pc[c] = "wait"}

ComposedInit ==
    /\ Init
    /\ phase = "open"
    /\ listed = {}
    /\ disposed = {}
    /\ queued = {}

-----------------------------------------------------------------------------
(* Dispose. *)

DisposeLocal ==
    /\ phase = "open"
    /\ phase' = "local"
    /\ UNCHANGED <<vars, listed, disposed, queued>>

DisposeDistributed ==
    /\ phase = "local"
    /\ phase' = "distributed"
    /\ UNCHANGED <<vars, listed, disposed, queued>>

(* foreach over _reqLocks.Values, which is a copy. *)
ListSemaphores ==
    /\ phase = "distributed"
    /\ phase' = "semaphores"
    /\ listed' = {entry} \ {NoLock}
    /\ UNCHANGED <<vars, disposed, queued>>

DisposeSemaphore ==
    /\ phase = "semaphores"
    /\ disposed' = disposed \cup listed
    /\ listed' = {}
    /\ listed # {}
    /\ UNCHANGED <<vars, phase, queued>>

(* Mutant: the dictionary is left as it is. *)
LeaveLocks ==
    /\ phase = "semaphores" /\ listed = {}
    /\ phase' = "closed"
    /\ UNCHANGED <<vars, listed, disposed, queued>>

ClearLocks ==
    /\ phase = "semaphores" /\ listed = {}
    /\ phase' = "closed"
    /\ entry' = NoLock
    /\ UNCHANGED <<pc, sem, count, l1, l2, result, runs, thrown, listed, disposed, queued>>

DisposeStep ==
    DisposeLocal \/ DisposeDistributed \/ ListSemaphores \/ DisposeSemaphore \/ ClearLocks

-----------------------------------------------------------------------------
(* Calls. *)

(* The cache the next step of a caller uses, if any. *)
UsesLocal(c) ==
    \/ pc[c] \in {"readL1", "recheck"} /\ "LocalRead" \notin Flags[c]
    \/ pc[c] = "fill"
    \/ pc[c] = "putL1" /\ ~Disables(c, LocalFlags)

UsesDistributed(c) ==
    \/ pc[c] = "readL2" /\ "DistributedRead" \notin Flags[c]
    \/ pc[c] = "recheck" /\ "LocalRead" \in Flags[c]
    \/ pc[c] = "putL2" /\ ~Disables(c, DistributedFlags)

MeetsClosed(c) ==
    \/ phase # "open" /\ UsesLocal(c)
    \/ phase \notin {"open", "local"} /\ UsesDistributed(c)

(* A closed cache throws: into the finally block, or out of the call. *)
Throw(c) ==
    /\ MeetsClosed(c)
    /\ IF pc[c] \in Section
       THEN Goto(c, "release") /\ thrown' = thrown \cup {c}
       ELSE Goto(c, "failed") /\ UNCHANGED thrown
    /\ UNCHANGED <<entry, sem, count, l1, l2, result, runs, disposeVars, queued>>

CacheStep(c) ==
    /\ ~MeetsClosed(c)
    /\ \/ ReadL1(c) \/ ReadL2(c) \/ Fill(c)
       \/ Recheck(c) \/ Factory(c) \/ PutL2(c) \/ PutL1(c)
    /\ UNCHANGED <<disposeVars, queued>>

DictionaryStep(c) ==
    /\ GetOrAdd(c) \/ TryRemove(c)
    /\ UNCHANGED <<disposeVars, queued>>

(* WaitAsync. *)
Arrives(c) == pc[c] = "wait" /\ c \notin queued

Enter(c) ==
    /\ Arrives(c)
    /\ sem[c] \notin disposed
    /\ WaitAsync(c)
    /\ UNCHANGED <<disposeVars, queued>>

Join(c) ==
    /\ Arrives(c)
    /\ sem[c] \notin disposed
    /\ count[sem[c]] = 0
    /\ queued' = queued \cup {c}
    /\ UNCHANGED <<vars, disposeVars>>

WaitThrows(c) ==
    /\ Arrives(c)
    /\ sem[c] \in disposed
    /\ Goto(c, "failed")
    /\ UNCHANGED <<entry, sem, count, l1, l2, result, runs, thrown, disposeVars, queued>>

Cancel(c) ==
    /\ CancelWait(c)
    /\ queued' = queued \ {c}
    /\ UNCHANGED disposeVars

(* Release. *)
Queue(s) == {c \in queued : sem[c] = s}

(* Mutant: the release is not in a finally block. *)
GiveBackUnlessThrown(c) ==
    /\ sem[c] \notin disposed
    /\ Queue(sem[c]) = {}
    /\ ReleaseUnlessThrown(c)
    /\ UNCHANGED <<disposeVars, queued>>

GiveBack(c) ==
    /\ sem[c] \notin disposed
    /\ Queue(sem[c]) = {}
    /\ Release(c)
    /\ UNCHANGED <<disposeVars, queued>>

HandOn(c) ==
    /\ pc[c] = "release"
    /\ sem[c] \notin disposed
    /\ \E d \in Queue(sem[c]) :
        /\ pc' = [pc EXCEPT ![c] = "remove", ![d] = "recheck"]
        /\ queued' = queued \ {d}
    /\ UNCHANGED <<entry, sem, count, l1, l2, result, runs, thrown, disposeVars>>

(* Mutant: the exception is swallowed. *)
ReleaseSwallows(c) ==
    /\ pc[c] = "release"
    /\ sem[c] \in disposed
    /\ Goto(c, "remove")
    /\ UNCHANGED <<entry, sem, count, l1, l2, result, runs, thrown, disposeVars, queued>>

(* The exception leaves the finally block before TryRemove. *)
ReleaseThrows(c) ==
    /\ pc[c] = "release"
    /\ sem[c] \in disposed
    /\ Goto(c, "failed")
    /\ UNCHANGED <<entry, sem, count, l1, l2, result, runs, thrown, disposeVars, queued>>

(* An entry expires, is removed, or its tag is invalidated. *)
Expire ==
    /\ \/ l1 # NoValue /\ l1' = NoValue /\ UNCHANGED l2
       \/ l2 # NoValue /\ l2' = NoValue /\ UNCHANGED l1
    /\ UNCHANGED <<pc, entry, sem, count, result, runs, thrown, disposeVars, queued>>

ComposedRunStep(c) ==
    \/ Throw(c) \/ CacheStep(c) \/ DictionaryStep(c)
    \/ Enter(c) \/ Join(c) \/ WaitThrows(c)
    \/ GiveBack(c) \/ HandOn(c) \/ ReleaseThrows(c)

Stranded(c) == c \in queued /\ sem[c] \in disposed

AllSettled == \A c \in Callers : pc[c] \in Ended \/ Stranded(c)

ComposedNext ==
    \/ \E c \in Callers : ComposedRunStep(c) \/ Cancel(c)
    \/ DisposeStep
    \/ Expire
    \/ AllSettled /\ UNCHANGED allVars

ComposedSpec == ComposedInit /\ [][ComposedNext]_allVars

(* Calls run on; Dispose, once called, does too. *)
ComposedFairSpec ==
    /\ ComposedSpec
    /\ \A c \in Callers : WF_allVars(ComposedRunStep(c))
    /\ WF_allVars(phase # "open" /\ DisposeStep)

-----------------------------------------------------------------------------
(* Properties. *)

(* Dispose strands nobody but callers in the queue of a semaphore that is  *)
(* in use, whose holder is still inside or has failed to release it.       *)
StrandedBehindHolder ==
    \A c \in Callers : Stranded(c) =>
        /\ count[sem[c]] = 0
        /\ \E d \in Callers : sem[d] = sem[c] /\ (InSection(d) \/ pc[d] = "failed")

(* After Dispose nobody is given a semaphore that was disposed of, although *)
(* calls of before take out, and calls of later put in, semaphores.         *)
NoDisposedIsListed == phase = "closed" => entry \notin disposed

(* "Dispose all semaphores in the _reqLocks dictionary to free resources   *)
(* and prevent memory leaks" (NCacheHybridCache.cs:1157): calls that       *)
(* outlive Dispose, and whose Release throws before TryRemove, still leave *)
(* no semaphore listed - but for the maker cancelled while it waits.       *)
NothingLeftListed ==
    AllSettled /\ phase \in {"open", "closed"} /\ entry # NoLock =>
        pc[entry] = "failed" /\ entry \notin thrown

(* Every caller ends, unless it waits for a semaphore that Dispose took.   *)
EveryCallSettles == \A c \in Callers : <>(pc[c] \in Ended \/ Stranded(c))

=============================================================================
