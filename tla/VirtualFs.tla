------------------------------- MODULE VirtualFs -------------------------------
(***************************************************************************)
(* VirtualFs (tpt-av-test-mock/src/filesystem.rs): a flat map from cleaned *)
(* paths to entries.  Nothing but the order of the checks in each call     *)
(* keeps it a tree.                                                        *)
(*                                                                         *)
(* A path is the sequence of its components, the root is <<>>.  A name is  *)
(* its rank in the order BTreeMap sorts by.  The raw paths callers pass in *)
(* also have "." and ".." components; <<>> stands for blank text.          *)
(***************************************************************************)
EXTENDS Integers, Sequences, SequencesExt

CONSTANTS
    Names,          \* names a component can have
    Contents,       \* what a file can hold
    Raws,           \* raw paths the callers pass in
    MaxDepth,       \* bound: components of a cleaned path
    Avoided         \* calls no caller makes where they are Reckless

Dot == 0
Up  == -1

ASSUME VirtualFsAssumption ==
    /\ Names \subseteq Nat \ {0}
    /\ Raws \subseteq Seq(Names \cup {Dot, Up})
    /\ MaxDepth \in Nat /\ \A raw \in Raws : Len(raw) <= MaxDepth
    /\ "dir" \notin Contents
    /\ Avoided \subseteq {"write_file", "create_dir", "rename"}

VARIABLES
    entries,        \* the map
    ret             \* how the last call returned

vars == <<entries, ret>>

Dir     == "dir"
Root    == <<>>
Invalid == <<Up>>

Paths == BoundedSeq(Names, MaxDepth)

IsDir(p)  == p \in DOMAIN entries /\ entries[p] = Dir
IsFile(p) == p \in DOMAIN entries /\ entries[p] # Dir
Within(p) == {q \in DOMAIN entries : IsPrefix(p, q)}
Parent(p) == SubSeq(p, 1, Len(p) - 1)
Above(p)  == Prefixes(p) \ {p}

-----------------------------------------------------------------------------
(* normalize *)

Component(cleaned, c) ==
    IF cleaned = Invalid \/ c = Dot THEN cleaned
    ELSE IF c # Up THEN Append(cleaned, c)
    ELSE IF cleaned = Root THEN Invalid
    ELSE Front(cleaned)

Normalize(raw) == IF raw = <<>> THEN Invalid ELSE FoldLeft(Component, Root, raw)

-----------------------------------------------------------------------------
(* The calls.  Each takes cleaned paths; Call adds what they share. *)

\* BTreeMap: insert, entry(..).or_insert for every path of S, and remove.
Insert(es, p, e) == [q \in DOMAIN es \cup {p} |-> IF q = p THEN e ELSE es[q]]
OrDirs(es, S)    == [q \in DOMAIN es \cup S |-> IF q \in DOMAIN es THEN es[q] ELSE Dir]
Without(es, S)   == Restrict(es, DOMAIN es \ S)

Returns(r) == ret' = r
Refuses(r) == ret' = r /\ UNCHANGED entries

\* Mutant of WriteFile: the parents are not looked at.
WriteFileAnywhere(p, c) ==
    /\ entries' = Insert(OrDirs(entries, Prefixes(p)), p, c)
    /\ Returns("ok")

\* The ancestors are checked and created from the root down: those above a
\* file in the way have been created when the call fails.
WriteFile(p, c) ==
    LET files   == {q \in Above(p) : IsFile(q)}
        parents == OrDirs(entries, {q \in Above(p) : \A f \in files : Len(q) < Len(f)})
    IN \/ /\ files = {}
          /\ entries' = Insert(parents, p, c)
          /\ Returns("ok")
       \/ /\ files # {}
          /\ entries' = parents
          /\ Returns("NotADirectory")

\* The ancestors that are missing are created; one that is a file is left.
CreateDir(p) ==
    \/ /\ p \in DOMAIN entries
       /\ Refuses("AlreadyExists")
    \/ /\ p \notin DOMAIN entries
       /\ entries' = OrDirs(entries, Prefixes(p))
       /\ Returns("ok")

\* Mutant of RemoveFile: a directory that was taken out is not put back.
RemoveFileTakesDir(p) ==
    \/ p \notin DOMAIN entries /\ Refuses("NotFound")
    \/ /\ p \in DOMAIN entries
       /\ entries' = Without(entries, {p})
       /\ Returns(IF IsDir(p) THEN "IsADirectory" ELSE "ok")

\* A directory that was taken out is put back.
RemoveFile(p) ==
    \/ p \notin DOMAIN entries /\ Refuses("NotFound")
    \/ IsDir(p) /\ Refuses("IsADirectory")
    \/ /\ IsFile(p)
       /\ entries' = Without(entries, {p})
       /\ Returns("ok")

\* Mutant of ChildCount: only files count as children.
ChildCountFiles(p) == Cardinality({q \in Within(p) : IsFile(q)})

ChildCount(p) == Cardinality(Within(p) \ {p})

RemoveDir(p) ==
    \/ p \notin DOMAIN entries /\ Refuses("NotFound")
    \/ IsFile(p) /\ Refuses("NotADirectory")
    \/ IsDir(p) /\ ChildCount(p) > 0 /\ Refuses("DirectoryNotEmpty")
    \/ /\ IsDir(p) /\ ChildCount(p) = 0
       /\ entries' = Without(entries, {p})
       /\ Returns("ok")

RemoveDirAll(p) ==
    \/ IsFile(p) /\ Refuses("NotADirectory")
    \/ p \notin DOMAIN entries /\ Refuses("NotFound")
    \/ /\ IsDir(p)
       /\ entries' = Without(entries, Within(p) \ {Root})
       /\ Returns("ok")

\* The order of BTreeMap<PathBuf, _>: component by component.
Before(p, q) ==
    \/ IsStrictPrefix(p, q)
    \/ \E i \in DOMAIN p \cap DOMAIN q :
          p[i] < q[i] /\ \A j \in 1 .. i - 1 : p[j] = q[j]

Sorted(S) ==
    [k \in 1 .. Cardinality(S) |->
        CHOOSE p \in S : Cardinality({q \in S : Before(q, p)}) = k - 1]

\* One round of rename's loop.  `moved` holds copies, so what an earlier
\* round did to the map does not show in the entry that is inserted.
MoveEntry(from, to, es, p) ==
    Insert(Without(es, {p}), to \o SubSeq(p, Len(from) + 1, Len(p)), entries[p])

\* Mutant of Rename: what is below a directory stays behind.
RenameAlone(from, to) ==
    \/ from \notin DOMAIN entries /\ Refuses("NotFound")
    \/ from \in DOMAIN entries /\ to \in DOMAIN entries /\ Refuses("AlreadyExists")
    \/ /\ from \in DOMAIN entries /\ to \notin DOMAIN entries
       /\ entries' = MoveEntry(from, to, entries, from)
       /\ Returns("ok")

\* Neither the parent of `to` nor whether `to` is below `from` is checked.
Rename(from, to) ==
    \/ from \notin DOMAIN entries /\ Refuses("NotFound")
    \/ from \in DOMAIN entries /\ to \in DOMAIN entries /\ Refuses("AlreadyExists")
    \/ /\ from \in DOMAIN entries /\ to \notin DOMAIN entries
       /\ \A p \in Within(from) : Len(to) + Len(p) - Len(from) <= MaxDepth
       /\ entries' = FoldLeft(LAMBDA es, p : MoveEntry(from, to, es, p), entries,
                              Sorted(Within(from)))
       /\ Returns("ok")

-----------------------------------------------------------------------------
(* The queries *)

ReadFile(p) ==
    CASE IsFile(p) -> entries[p]
      [] IsDir(p)  -> "IsADirectory"
      [] OTHER     -> IF \E q \in Above(p) : IsFile(q)
                      THEN "NotADirectory" ELSE "NotFound"

\* The names directly below a directory.
ListDir(p) == {Last(q) : q \in {r \in Within(p) : Len(r) = Len(p) + 1}}

-----------------------------------------------------------------------------

Init ==
    /\ entries = <<>> \/ entries = [p \in {Root} |-> Dir]      \* default() or new()
    /\ ret = "ok"

\* The calls after which the map may no longer be a tree.
Reckless(call, p, q) ==
    \/ call = "write_file" /\ (p = Root \/ IsDir(p))
    \/ call = "create_dir" /\ \E r \in Above(p) : IsFile(r)
    \/ call = "rename" /\ p \in DOMAIN entries /\ q \notin DOMAIN entries
                       /\ (IsPrefix(p, q) \/ ~IsDir(Parent(q)))

\* A call on cleaned paths, or the `?` after a normalize that fails.
Call(call, p, q, Body) ==
    \/ Invalid \in {p, q} /\ Refuses("InvalidPath")
    \/ /\ Invalid \notin {p, q}
       /\ call \in Avoided => ~Reckless(call, p, q)
       /\ Body

Next ==
    \E raw \in Raws : LET p == Normalize(raw) IN
        \/ \E c \in Contents : Call("write_file", p, p, WriteFile(p, c))
        \/ Call("create_dir", p, p, CreateDir(p))
        \/ Call("remove_file", p, p, RemoveFile(p))
        \/ Call("remove_dir", p, p, RemoveDir(p))
        \/ Call("remove_dir_all", p, p, RemoveDirAll(p))
        \/ \E to \in Raws : LET q == Normalize(to) IN Call("rename", p, q, Rename(p, q))

Spec == Init /\ [][Next]_vars

-----------------------------------------------------------------------------
(* Properties *)

\* Everything there is can be found by listing directories from the root
\* down: paths() and a walk with list_dir agree.
WalkFindsAll ==
    LET level[n \in 0 .. MaxDepth] ==
            IF n = 0 THEN DOMAIN entries \cap {Root}
            ELSE UNION {{Append(p, x) : x \in ListDir(p)} : p \in {q \in level[n - 1] : IsDir(q)}}
    IN UNION {level[n] : n \in 0 .. MaxDepth} = DOMAIN entries

\* read_file fails as a walk from the root would: at the first component that
\* is missing, or that is a file and not the last.
ErrnoRight ==
    \A p \in Paths :
        LET stops == {k \in 0 .. Len(p) : ~IsDir(SubSeq(p, 1, k))}
            at    == SubSeq(p, 1, Min(stops))
        IN ReadFile(p) = IF stops = {} THEN "IsADirectory"
                         ELSE IF ~IsFile(at) THEN "NotFound"
                         ELSE IF at = p THEN entries[p]
                         ELSE "NotADirectory"

\* A call that fails has changed nothing.
FailuresChangeNothing == [][ret' # "ok" => UNCHANGED entries]_vars

\* The calls on the map implement those on a tree.
Tree == INSTANCE TreeFs WITH tree <- entries
ImplementsTreeFs == Tree!Spec

\* "like `mkdir -p` plus `open(.., "wb")`": a directory is not overwritten.
DirectoriesStay == [][\A p \in DOMAIN entries : IsDir(p) => ~IsFile(p)']_vars

=============================================================================
