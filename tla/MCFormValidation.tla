-------------------------- MODULE MCFormValidation --------------------------
(* Instances of FormValidation for TLC. *)
EXTENDS FormValidation

CONSTANTS f1, f2

Input(kind, checks, min, max, initial) ==
    [kind |-> kind, checks |-> checks, min |-> min, max |-> max, initial |-> initial,
     limit |-> NoLimit, span |-> TRUE, plain |-> FALSE]

(* Keys: Set's, and the others', one of which has a name from the start. *)
KeyDecls ==
    {Input("text", {"required", "bounds"}, 1, 2, Empty),
     Input("text", {"required"}, 0, 0, 1)}

(* The plain inputs of the bulk forms. *)
BulkDecls ==
    {[Input("text", {"required"}, 0, 0, Empty) EXCEPT !.plain = TRUE, !.span = FALSE]}

(* The other inputs, with small bounds: tags; an expiration from 1 to 2    *)
(* that may be left out; a concurrency from 1 to 3 with a limit of 2; a    *)
(* flag.                                                                   *)
OtherDecls ==
    {[Input("text", {}, 0, 0, Empty) EXCEPT !.span = FALSE],
     Input("number", {"bounds"}, 2, 4, Empty),
     [Input("number", {"required", "bounds"}, 2, 6, 2) EXCEPT !.limit = 4],
     [Input("checkbox", {"required"}, 0, 0, 0) EXCEPT !.span = FALSE]}

PageDecls == KeyDecls \cup BulkDecls \cup OtherDecls

(* A form has a key and one other input, or plain inputs alone. *)
PageInit ==
    /\ Init
    /\ form # "bulk" => decl[f1] \in KeyDecls /\ decl[f2] \in OtherDecls

PageSpec == PageInit /\ [][Next]_vars
=============================================================================
