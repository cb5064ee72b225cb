------------------------------ MODULE MCIdentity ------------------------------
(* Small instances of Identity for TLC: two requests at once in every part. *)
EXTENDS Identity, TLC

CONSTANTS u1, u2

\* the two settings that matter for a session, each with the other one off
MCSettings == {[single |-> TRUE, confirm |-> FALSE], [single |-> FALSE, confirm |-> TRUE]}
\* two users with two tokens to come, or one user with three
MCPasts == {[users |-> {u2}, tokens |-> {}], [users |-> {}, tokens |-> {1}]}
\* the clients of the parts are the same set
ServedAlike == Permutations(Clients)
=============================================================================
