----------------------------- MODULE MCFileStore -----------------------------
(* FileStore with a node of two File variables and a neighbour that has the   *)
(* same names.                                                                *)
EXTENDS FileStore, TLC

CONSTANTS s1, s2

MCCwd == [n \in Nodes |-> n]
MCOwners == {[s \in Slots |-> "n1"], (s1 :> "n1" @@ s2 :> "n2")}
MCFiles == {<<"d", "x">>, <<"d", "y">>}
MCFolders == {<<"d">>}
MCMaxLen == [n \in Nodes |-> IF n = "n1" THEN 2 ELSE 0]
MCSymmetry == Permutations(Slots)
=============================================================================
