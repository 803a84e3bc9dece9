----------------------------- MODULE MCTagKeeper -----------------------------
(* Instances of TagKeeper for TLC. *)
EXTENDS TagKeeper, TLC

CONSTANTS c1, c2, c3, n1, n2, t1, t2

RemoveByTag(k) == [op |-> "RemoveByTag", tags |-> {k}]
RemoveByTags(ks) == [op |-> "RemoveByTags", tags |-> ks]
Check(ts) == [op |-> "Check", tags |-> ts]

(* Invalidations of one tag, and checks of its items. *)
TagRequests == {RemoveByTag(t1), Check({t1})}

(* The wildcard as well. *)
WildcardRequests == {RemoveByTag(Wildcard), RemoveByTag(t1), Check({t1})}

(* Many tags at once, and a bulk that is refused. *)
BulkRequests ==
    {RemoveByTag(Wildcard), RemoveByTags({t1, t2}), RemoveByTags({t1, Wildcard}),
     Check({t1})}

(* Runs in which a wildcard meets a check: without either the wildcard has *)
(* no say, and what two invalidations do to each other has its own run.    *)
WildcardInit == Init /\ Wildcards # {} /\ \E d \in Calls : IsCheck(d)

WildcardSpec == WildcardInit /\ [][Next]_vars

Symmetry == Permutations(Nodes) \cup Permutations(Calls)
=============================================================================
