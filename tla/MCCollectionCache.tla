------------------------- MODULE MCCollectionCache --------------------------
(***************************************************************************)
(* Two scopes of one connection, a cache of one, three collection objects  *)
(* and one API call.                                                       *)
(***************************************************************************)
EXTENDS CollectionCache

CONSTANTS o1, o2, o3, call, todos, projects, url

MCObjects == {o1, o2, o3}
MCCalls == {call}
MCHolders == MCObjects \cup MCCalls
MCScopes == {todos, projects}
MCConnectionOf == [s \in MCScopes |-> url]
=============================================================================
