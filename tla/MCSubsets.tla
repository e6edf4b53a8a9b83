----------------------------- MODULE MCSubsets -----------------------------
(* Small instances of Subsets: two live queries, two overlapping subsets,  *)
(* and rows that are written, moved between the subsets and deleted.       *)
EXTENDS Subsets

CONSTANTS h1, h2

MCAccepts == "open" :> {"open"} @@ "all" :> {"open", "done"}

(* The live queries share a subset, or each has its own.                   *)
MCShared == h1 :> {"open"} @@ h2 :> {"open", "all"}
MCSeparate == h1 :> {"open"} @@ h2 :> {"all"}

Write(value) == [key |-> 1, value |-> value]

MCBatches == {<<Write("open")>>, <<Write("done")>>, <<Write(Gone)>>}
=============================================================================
