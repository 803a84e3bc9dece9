---------------------------- MODULE MCHybridCache ----------------------------
(* Model checking of HybridCache. *)
EXTENDS HybridCache, TLC

CONSTANTS a, b, c

(* One call writes, one invalidates, and one reads and may write too.      *)
WriteRemoveRead ==
    {w \in [Calls -> {"Set", "GetOrCreate", "RemoveByTag"}] :
        <<w[a], w[b], w[c]>> = <<"Set", "RemoveByTag", "GetOrCreate">>}

NodeSymmetry == Permutations(Nodes)

=============================================================================
