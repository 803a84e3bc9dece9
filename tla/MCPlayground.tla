---------------------------- MODULE MCPlayground ----------------------------
(* Instances of Playground for TLC. *)
EXTENDS Playground

(* Three loads for the listing, one for the counters, one for              *)
(* notifications, which share no state with the others.                    *)
FiveLoads ==
    {[kinds |-> {"set", "get", "remove", "prune", "getKeyRegistry"}, max |-> 3],
     [kinds |-> {"set", "evictAndTest", "prune"}, max |-> 3],
     [kinds |-> {"set", "bulkSet", "removeByTag", "prune"}, max |-> 3],
     [kinds |-> {"get", "test", "reset"}, max |-> 3],
     [kinds |-> {"notify", "markAllRead"}, max |-> 5]}
=============================================================================
