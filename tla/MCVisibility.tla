---------------------------- MODULE MCVisibility ----------------------------
(***************************************************************************)
(* Two todos, a member row that is missing or has one of two levels, and   *)
(* rules that read the level, the todo, or both.                           *)
(***************************************************************************)
EXTENDS Visibility, Predicates

CONSTANTS k1, k2  \* keys

MCKeys == {k1, k2}
Symmetric == Permutations(MCKeys)

MCTodos == {[a |-> Number(1)], [a |-> Number(2)]}
MCMembers == {[level |-> Number(1)], [level |-> Number(2)]}

A == RowRef("a")
Level == ReferenceRef("member", "level")

Access(read, write) == [read |-> read, write |-> write]
MCAccessRules ==
  {Access(Func("lte", <<A, Level>>), Val(True)),
   Access(Func("or", <<Func("eq", <<Level, Val(Number(2))>>),
                       Func("not_eq", <<A, Val(Number(2))>>)>>), NoRule),
   Access(Func("eq", <<Level, Val(Number(1))>>), Val(True))}
MCSyncModes == {"eager", "on-demand"}
=============================================================================
