------------------------- MODULE MCHybridCacheSync --------------------------
(* Instances of HybridCacheSync for TLC. *)
EXTENDS HybridCacheSync, FiniteSets, TLC

CONSTANTS c1, c2, c3, n1, n2, n3, k1, k2

Ask(op, keys, flags) == [op |-> op, keys |-> keys, flags |-> flags]

(* The flags of HybridCacheEntryFlags that change a path of the code. *)
FlagRequests ==
    {Ask("Remove", {k1}, {}), Ask("GetOrCreate", {k1}, {})}
    \cup {Ask("Set", {k1}, f) : f \in {{}, {"LocalWrite"}, {"DistributedWrite"}}}
    \cup {Ask("GetOrCreate", {k1}, f) :
              f \in {{"LocalRead"}, {"LocalWrite"}, {"DistributedRead"},
                     {"DistributedWrite"}, {"UnderlyingData"},
                     {"LocalRead", "DistributedRead"}}}

(* Two keys and a removal of both. *)
BulkRequests ==
    {Ask("Remove", {k1, k2}, {})}
    \cup {Ask(op, {k}, {}) : op \in {"Set", "GetOrCreate"}, k \in {k1, k2}}

WriteRequests == {Ask("Set", {k1}, {})}

(* The calls run on different nodes. *)
ApartInit == Init /\ \A c, d \in Calls : home[c] = home[d] => c = d

ApartSpec == ApartInit /\ [][Next]_vars

Symmetry == Permutations(Nodes) \cup Permutations(Calls)
KeySymmetry == Symmetry \cup Permutations(Keys)
=============================================================================
