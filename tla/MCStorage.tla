------------------------------ MODULE MCStorage ------------------------------
(* Instances of the context store for TLC.                                 *)
EXTENDS StorageAtomic, TLC
Keep == [title |-> Unset, done |-> Unset]
Rename(title) == [Keep EXCEPT !.title = title]
MarkDone == [Keep EXCEPT !.done = TRUE]

RenameOrMark == {Rename(t) : t \in Titles} \union {MarkDone}
MarkOnly == {MarkDone}

ReadWrite == {"create", "get", "update", "delete"}
WithoutUpdate == {"create", "get", "delete"}

Symmetry == Permutations(Tasks) \union Permutations(Ids) \union Permutations(Procs)
=============================================================================
