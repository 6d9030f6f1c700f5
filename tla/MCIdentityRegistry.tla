------------------------- MODULE MCIdentityRegistry -------------------------
(* An instance of IdentityRegistry for TLC: two accounts recover documents. *)
EXTENDS IdentityRegistry

OneMetadata == {[entries |-> 1, key_len |-> 1, value_len |-> 1]}
=============================================================================
