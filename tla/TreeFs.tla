-------------------------------- MODULE TreeFs --------------------------------
(***************************************************************************)
(* What VirtualFs promises: a tree of directories and files with the calls *)
(* of a POSIX file system, each of which happens at once or not at all.    *)
(***************************************************************************)
EXTENDS Naturals, Sequences, SequencesExt

CONSTANTS Paths, Contents, Dir

VARIABLE tree       \* what is at each path where there is something

Parent(p) == SubSeq(p, 1, Len(p) - 1)
Above(p)  == Prefixes(p) \ {p}
Below(p)  == {q \in DOMAIN tree : IsPrefix(p, q)}

IsDir(p)  == p \in DOMAIN tree /\ tree[p] = Dir
IsFile(p) == p \in DOMAIN tree /\ tree[p] # Dir

\* mkdir -p: the directories of S that are missing, added to what t holds.
WithDirs(t, S) == [q \in DOMAIN t \cup S |-> IF q \in DOMAIN t THEN t[q] ELSE Dir]

Init == tree = <<>> \/ tree = [q \in {<<>>} |-> Dir]

Put(p, c) ==
    /\ ~IsDir(p)
    /\ \A q \in Above(p) : ~IsFile(q)
    /\ tree' = [WithDirs(tree, Prefixes(p)) EXCEPT ![p] = c]

MakeDir(p) ==
    /\ p \notin DOMAIN tree
    /\ \A q \in Above(p) : ~IsFile(q)
    /\ tree' = WithDirs(tree, Prefixes(p))

\* A file, or a directory with nothing below it.
Delete(p) ==
    /\ Below(p) = {p}
    /\ tree' = Restrict(tree, DOMAIN tree \ {p})

Empty(p) ==
    /\ IsDir(p)
    /\ tree' = Restrict(tree, DOMAIN tree \ (Below(p) \ {<<>>}))

\* All of a subtree is found at its new place, and nothing else moves.
Move(p, q) ==
    /\ p \in DOMAIN tree
    /\ q \notin DOMAIN tree
    /\ IsDir(Parent(q))
    /\ ~IsPrefix(p, q)
    /\ LET Old(r) == IF IsPrefix(q, r) THEN p \o SubSeq(r, Len(q) + 1, Len(r)) ELSE r
           New(r) == q \o SubSeq(r, Len(p) + 1, Len(r))
       IN tree' = [r \in (DOMAIN tree \ Below(p)) \cup {New(r) : r \in Below(p)}
                        |-> tree[Old(r)]]

\* Calls that change nothing, failed ones included, are stuttering steps.
Next ==
    /\ tree' # tree
    /\ \E p \in Paths :
          \/ \E c \in Contents : Put(p, c)
          \/ MakeDir(p) \/ Delete(p) \/ Empty(p)
          \/ \E q \in Paths : Move(p, q)

Spec == Init /\ [][Next]_tree

\* Everything but the root is in a directory.
IsTree == \A p \in DOMAIN tree : Len(p) > 0 => IsDir(Parent(p))

=============================================================================
