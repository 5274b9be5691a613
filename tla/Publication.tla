---------------------------- MODULE Publication -----------------------------
(***************************************************************************)
(* What coresync.Sync promises to whoever uses the destination worktree:   *)
(* a call installs its whole release at one point, or leaves the tree as it*)
(* found it.  Only a call that was killed, or that reports that its        *)
(* rollback failed, may leave anything else, and then each file is the one *)
(* before the call or the one of the release.  What somebody else does to a*)
(* file meanwhile stays.                                                   *)
(***************************************************************************)
CONSTANTS
    Item,      \* the files of the tree
    Commit,    \* the releases that can be installed
    Release,   \* Commit -> the items of a release and their content
    Missing,   \* there is no such file
    Edited     \* content that is of no release

VARIABLES
    tree,      \* Item -> content
    call,      \* "idle", a commit while its call runs, "installed", or "lost"
    head       \* the tree that was installed last

vars == <<tree, call, head>>

Init == tree = [i \in Item |-> Missing] /\ call = "idle" /\ head = tree

Begin(c) == call \in {"idle", "lost"} /\ call' = c /\ UNCHANGED <<tree, head>>

Installed(c) == [i \in Item |-> IF i \in DOMAIN Release[c] THEN Release[c][i] ELSE tree[i]]
Install(c) == call = c /\ call' = "installed" /\ tree' = Installed(c) /\ head' = tree'

\* The call ends and leaves the tree as it is.
Return ==
    /\ call \in Commit \cup {"installed"} /\ call' \in {"idle", "lost"}
    /\ UNCHANGED <<tree, head>>

Lose(c) ==
    /\ call = c /\ call' = "lost"
    /\ \E new \in SUBSET Item : tree' = [i \in Item |-> IF i \in new THEN Installed(c)[i] ELSE tree[i]]
    /\ UNCHANGED head

\* Somebody else writes or deletes a file, or checks the worktree out again.
Edit(i) ==
    /\ \E x \in {Edited, Missing} : tree' = [tree EXCEPT ![i] = x]
    /\ UNCHANGED <<call, head>>
CheckOut == call \in {"idle", "lost"} /\ call' = "idle" /\ tree' = head /\ UNCHANGED head

Next ==
    \/ \E c \in Commit : Begin(c) \/ Install(c) \/ Lose(c)
    \/ \E i \in Item : Edit(i)
    \/ Return \/ CheckOut

Spec == Init /\ [][Next]_vars
=============================================================================
