-------------------------- MODULE MCSubscriptions ---------------------------
(***************************************************************************)
(* Two listeners move among three scopes on one client, with a limit of    *)
(* two subscriptions on a socket.                                          *)
(***************************************************************************)
EXTENDS Subscriptions

CONSTANTS a, b, c,  \* scopes
          l1, l2    \* listeners

MCScopes == {a, b, c}
MCListeners == {l1, l2}
Symmetric == Permutations(MCScopes) \cup Permutations(MCListeners)
=============================================================================
