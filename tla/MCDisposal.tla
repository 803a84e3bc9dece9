----------------------------- MODULE MCDisposal -----------------------------
(* Instances of Disposal for TLC. *)
EXTENDS Disposal, TLC

CONSTANTS a, b, c

(* Every caller with different flags. *)
MixedFlags ==
    (a :> {"LocalRead"}) @@ (b :> {"DistributedRead"})
    @@ (c :> {"DistributedWrite", "LocalWrite"})
=============================================================================
