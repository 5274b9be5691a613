------------------------------ MODULE CoreSync ------------------------------
(***************************************************************************)
(* coresync.Sync: copies the files of a release into a worktree and records*)
(* its provenance.  A call plans, opens and creates the parent directories,*)
(* stages every file beside its target, publishes them one by one with the *)
(* provenance last, validates the result and removes its artifacts; an     *)
(* error rolls back in the reverse order.  Any operation may fail, also    *)
(* during the rollback, the process may be killed, and somebody may edit a *)
(* destination between two steps.                                          *)
(*                                                                         *)
(* A file is its content: the code compares identity, content and mode,    *)
(* and an edit changes the content.  Destinations are numbered in the order*)
(* of their paths, the provenance file is the last; its content is the     *)
(* commit, which determines the digests.  A check and the operation it     *)
(* guards are one step, because a writer that hits the time between them is*)
(* outside the trust model of the package; nobody moves a directory either.*)
(***************************************************************************)
EXTENDS Integers, Sequences, FiniteSets

CONSTANTS
    Path,        \* the paths in order, each a sequence of names; provenance last
    Commit,      \* source commits
    Repository,  \* Commit -> source_repository of its manifest
    Manifest,    \* Commit -> destinations of the manifest and their content
    Missing,     \* there is no such file
    Edited,      \* content of no release
    MaxFaults,   \* bound: failures and kills
    MaxEdits     \* bound: edits by others

Item == 1..Len(Path)
Provenance == Len(Path)

ASSUME PathAssumption ==
    /\ Len(Path) \in Nat \ {0} /\ \A i \in Item : Len(Path[i]) \in Nat \ {0}
ASSUME ManifestAssumption ==
    /\ DOMAIN Manifest = Commit /\ DOMAIN Repository = Commit
    /\ \A c \in Commit : DOMAIN Manifest[c] \subseteq Item /\ DOMAIN Manifest[c] # {}
ASSUME BoundsAssumption == MaxFaults \in Nat /\ MaxEdits \in Nat

VARIABLES
    live,        \* Item -> content of the file
    dirs,        \* the directories that exist
    run,         \* where the call is, its commit and the errors so far
    todo,        \* items the present phase still has to visit
    previous,    \* Item -> snapshot of the managed file, or Missing
    staged,      \* items with a staged file
    backup,      \* items with a backup of the previous file
    published,   \* items whose staged file is at its target
    opened,      \* parent directories the call has opened
    created,     \* those of them it has created and not closed yet
    leaked,      \* items with an artifact that nobody will remove
    orphans,     \* directories that nobody will remove
    outcome,     \* how the last call ended; a refused one leaves a lost tree lost
    base, edits, \* history: tree and directories before the call, what others changed since
    head,        \* history: the tree that was installed last
    faults, edited

calls == <<run, todo, previous, staged, backup, published, opened, created>>
vars == <<live, dirs, calls, leaked, orphans, outcome, base, edits, head, faults, edited>>

Content == UNION {{Manifest[c][i] : i \in DOMAIN Manifest[c]} : c \in Commit}
File == Content \cup Commit \cup {Missing, Edited}

\* No release has a file that is missing or somebody else's edit.
ASSUME ContentAssumption == Missing # Edited /\ {Missing, Edited} \cap (Content \cup Commit) = {}

\* The directories above a path, without the root.
Above(i) == {SubSeq(Path[i], 1, n) : n \in 1..Len(Path[i]) - 1}
Directory == UNION {Above(i) : i \in Item}
Inside(d, p) == Len(d) < Len(p) /\ SubSeq(p, 1, Len(d)) = d

\* publications: the managed files and the provenance.
Release == [c \in Commit |-> [i \in DOMAIN Manifest[c] \cup {Provenance} |->
                                 IF i = Provenance THEN c ELSE Manifest[c][i]]]
Desired == Release[run.commit]
Parents(c) == UNION {Above(i) : i \in DOMAIN Release[c]}

Idle == [pc |-> "idle", commit |-> Missing, error |-> FALSE, broken |-> FALSE, untidy |-> FALSE]

CoreSyncTypeOK ==
    /\ live \in [Item -> File] /\ head \in [Item -> File]
    /\ base \in [files: [Item -> File], dirs: SUBSET Directory]
    /\ dirs \subseteq Directory /\ created \subseteq opened /\ opened \subseteq Directory
    /\ run \in [pc: {"idle", "open", "stage", "publish", "validate", "rollback", "cleanup", "close"},
                commit: Commit \cup {Missing}, error: BOOLEAN, broken: BOOLEAN, untidy: BOOLEAN]
    /\ todo \subseteq Item
    /\ previous \in [Item -> File]
    /\ staged \subseteq Item /\ backup \subseteq Item /\ published \subseteq Item
    /\ leaked \subseteq Item /\ orphans \subseteq Directory /\ edits \subseteq Item
    /\ outcome \in {"none", "refused", "ok", "installed_untidy", "rolled_back",
                    "rolled_back_untidy", "lost"}
    /\ faults \in 0..MaxFaults /\ edited \in 0..MaxEdits

Init ==
    /\ live = [i \in Item |-> Missing] /\ dirs = {}
    /\ run = Idle /\ todo = {}
    /\ previous = [i \in Item |-> Missing]
    /\ staged = {} /\ backup = {} /\ published = {} /\ opened = {} /\ created = {}
    /\ leaked = {} /\ orphans = {}
    /\ outcome = "none"
    /\ base = [files |-> live, dirs |-> dirs] /\ edits = {} /\ head = live
    /\ faults = 0 /\ edited = 0

-----------------------------------------------------------------------------
(* Planning, checking, verifying: reads of the worktree.                   *)

\* validatePathCollisions: a destination is neither the provenance file nor
\* above another one.
Collision(items) ==
    \/ Provenance \in items
    \/ \E i, j \in items \cup {Provenance} : Inside(Path[i], Path[j])

\* loadProvenance: whose files are managed; an edited file does not decode.
Managed == IF live[Provenance] \in Commit THEN DOMAIN Manifest[live[Provenance]] ELSE {}

\* Mutant: destinations that are no longer in the manifest are let go.
ManifestRefusedUnlessRemoved(c) ==
    \/ Collision(DOMAIN Manifest[c])
    \/ live[Provenance] = Edited
    \/ live[Provenance] \in Commit /\ Repository[live[Provenance]] # Repository[c]

\* The errors of Sync before it looks at a destination.
ManifestRefused(c) ==
    \/ Collision(DOMAIN Manifest[c])
    \/ live[Provenance] = Edited
    \/ /\ live[Provenance] \in Commit
       /\ \/ Repository[live[Provenance]] # Repository[c]
          \/ ~(Managed \subseteq DOMAIN Manifest[c])

\* There is a file where a directory is needed.
Blocked(d) == \E i \in Item : Path[i] = d /\ live[i] # Missing

\* A destination is free, or has the content its provenance says.
Refused(c) ==
    \/ ManifestRefused(c)
    \/ \E i \in DOMAIN Release[c] : Path[i] \in dirs \/ \E d \in Above(i) : Blocked(d)
    \/ \E i \in DOMAIN Manifest[c] :
           IF i \in Managed THEN live[i] # Manifest[live[Provenance]][i] ELSE live[i] # Missing

\* Sync with Options.Check.
Checks(c) ==
    /\ ~ManifestRefused(c)
    /\ \A i \in DOMAIN Manifest[c] : i \in Managed /\ live[i] = Manifest[c][i]
    /\ live[Provenance] = c

Verify ==
    /\ live[Provenance] \in Commit
    /\ \A i \in Managed : live[i] = Manifest[live[Provenance]][i]

-----------------------------------------------------------------------------
(* One call of Sync.                                                       *)

First == CHOOSE i \in todo : \A j \in todo : i <= j
Last == CHOOSE i \in todo : \A j \in todo : j <= i

Fault == faults < MaxFaults /\ faults' = faults + 1
Same == UNCHANGED <<base, head, edits, edited>>

\* The phase of the loop, or the next one when nothing is left to do.
Continue(rest, next, nextTodo) ==
    IF rest = {} THEN run' = [run EXCEPT !.pc = next] /\ todo' = nextTodo
                 ELSE todo' = rest /\ UNCHANGED run

Refuse(c) ==
    /\ run.pc = "idle" /\ Refused(c)
    /\ outcome' = IF outcome = "lost" THEN outcome ELSE "refused"
    /\ UNCHANGED <<live, dirs, calls, leaked, faults, orphans>> /\ Same

\* The plan: the snapshots of managed files and provenance.
Begin(c) ==
    /\ run.pc = "idle" /\ ~Refused(c)
    /\ run' = [Idle EXCEPT !.pc = IF Parents(c) = {} THEN "stage" ELSE "open", !.commit = c]
    /\ todo' = DOMAIN Release[c]
    /\ previous' = [i \in Item |-> IF i \in Managed \cup {Provenance} THEN live[i] ELSE Missing]
    /\ staged' = {} /\ backup' = {} /\ published' = {} /\ opened' = {} /\ created' = {}
    /\ leaked' = leaked \cup staged \cup backup
    /\ base' = [files |-> live, dirs |-> dirs] /\ edits' = {} /\ outcome' = "none"
    /\ UNCHANGED <<live, dirs, orphans, head, faults, edited>>

\* openStableDirectoryComponent, parents first.  A directory that was made but
\* could not be opened stays.
OpenDirectory(d) ==
    /\ run.pc = "open" /\ d \in Parents(run.commit) \ opened
    /\ \A e \in Parents(run.commit) \ opened : ~Inside(e, d)
    /\ \/ /\ ~Blocked(d)
          /\ dirs' = dirs \cup {d}
          /\ created' = IF d \in dirs THEN created ELSE created \cup {d}
          /\ opened' = opened \cup {d}
          /\ run' = [run EXCEPT !.pc = IF opened' = Parents(run.commit) THEN "stage" ELSE @]
          /\ UNCHANGED <<orphans, faults>>
       \/ /\ IF Blocked(d) THEN UNCHANGED faults ELSE Fault
          /\ run' = [run EXCEPT !.pc = "close", !.error = TRUE]
          /\ \/ UNCHANGED <<dirs, orphans>>
             \/ ~Blocked(d) /\ d \notin dirs /\ dirs' = dirs \cup {d} /\ orphans' = orphans \cup {d}
          /\ UNCHANGED <<opened, created>>
    /\ UNCHANGED <<live, todo, previous, staged, backup, published, leaked, outcome>> /\ Same

\* createStagedFile; a file that cannot be completed is removed again, and
\* nobody learns of it when that fails, too.
Stage ==
    /\ run.pc = "stage"
    /\ \/ /\ staged' = staged \cup {First}
          /\ Continue(todo \ {First}, "publish", DOMAIN Desired)
          /\ UNCHANGED <<leaked, faults>>
       \/ /\ Fault
          /\ run' = [run EXCEPT !.pc = "cleanup", !.error = TRUE] /\ todo' = DOMAIN Desired
          /\ leaked' \in {leaked, leaked \cup {First}}
          /\ UNCHANGED staged
    /\ UNCHANGED <<live, dirs, previous, backup, published, opened, created, outcome, orphans>> /\ Same

Fail == run' = [run EXCEPT !.pc = "rollback", !.error = TRUE] /\ todo' = DOMAIN Desired

\* publishStableItem.  A managed target still has its previous content; it is
\* linked to a backup and the staged file is renamed over it.  A new target is
\* linked, which fails where a file has appeared.
Publish ==
    LET i == First
    IN  /\ run.pc = "publish"
        /\ \/ /\ live[i] = previous[i]
              /\ live' = [live EXCEPT ![i] = Desired[i]]
              /\ IF previous[i] # Missing
                 THEN backup' = backup \cup {i} /\ staged' = staged \ {i}
                 ELSE UNCHANGED <<backup, staged>>
              /\ published' = published \cup {i}
              /\ Continue(todo \ {i}, "validate", {})
              /\ UNCHANGED faults
           \/ /\ live[i] # previous[i] /\ Fail
              /\ UNCHANGED <<live, backup, staged, published, faults>>
           \/ \* An operation fails, before or after the backup was made.
              /\ live[i] = previous[i] /\ Fault /\ Fail
              /\ \/ UNCHANGED backup
                 \/ previous[i] # Missing /\ backup' = backup \cup {i}
              /\ UNCHANGED <<live, staged, published>>
        /\ UNCHANGED <<dirs, previous, opened, created, leaked, outcome, orphans>> /\ Same

\* validatePublishedTransaction: every target is the published file.  From
\* here on the release is installed.
Validate ==
    /\ run.pc = "validate"
    /\ \/ /\ \A i \in DOMAIN Desired : live[i] = Desired[i]
          /\ run' = [run EXCEPT !.pc = "cleanup"] /\ todo' = DOMAIN Desired
          /\ head' = live
          /\ UNCHANGED faults
       \/ (\E i \in DOMAIN Desired : live[i] # Desired[i]) /\ Fail /\ UNCHANGED <<head, faults>>
       \/ Fault /\ Fail /\ UNCHANGED head
    /\ UNCHANGED <<live, dirs, previous, staged, backup, published, opened, created, leaked, outcome,
                   base, edits, edited, orphans>>

-----------------------------------------------------------------------------
(* Rollback, clean-up and return.                                          *)

\* rollbackStableItems, last item first.  A target that somebody else has
\* changed is retained, and so is the backup.
RollbackSafe(i) ==
    IF previous[i] # Missing
    THEN i \in backup => live[i] = IF i \in published THEN Desired[i] ELSE previous[i]
    ELSE i \in published => live[i] \in {Missing, Desired[i]}

\* Mutant: only what was there before is restored.
UndoneManaged(i) == IF previous[i] # Missing THEN [live EXCEPT ![i] = previous[i]] ELSE live
Undone(i) == [live EXCEPT ![i] = previous[i]]

\* Mutant: artifacts are removed whatever the rollback did.
AfterRollbackAlways(broken) == "cleanup"
AfterRollback(broken) == IF broken THEN "close" ELSE "cleanup"

Undo(i) ==
    /\ RollbackSafe(i)
    /\ live' = IF i \in published THEN Undone(i) ELSE live
    /\ backup' = backup \ {i} /\ published' = published \ {i}
    /\ UNCHANGED faults
    /\ todo' = todo \ {i} /\ UNCHANGED run

\* The error is collected, the other items are still rolled back.
Retain(i) ==
    /\ i \in published \cup backup
    /\ IF RollbackSafe(i) THEN Fault ELSE UNCHANGED faults
    /\ run' = [run EXCEPT !.broken = TRUE] /\ todo' = todo \ {i}
    /\ UNCHANGED <<live, backup, published>>

\* Mutant: a target that could not be rolled back is tried again.
RollbackRetries ==
    /\ run.pc = "rollback"
    /\ IF todo = {}
       THEN /\ run' = [run EXCEPT !.pc = AfterRollback(run.broken)]
            /\ todo' = IF run'.pc = "cleanup" THEN DOMAIN Desired ELSE {}
            /\ UNCHANGED <<live, backup, published, faults>>
       ELSE Undo(Last) \/ (~RollbackSafe(Last) /\ UNCHANGED vars)
    /\ UNCHANGED <<dirs, previous, staged, opened, created, leaked, outcome, orphans>> /\ Same

Rollback ==
    /\ run.pc = "rollback"
    /\ IF todo = {}
       THEN /\ run' = [run EXCEPT !.pc = AfterRollback(run.broken)]
            /\ todo' = IF run'.pc = "cleanup" THEN DOMAIN Desired ELSE {}
            /\ UNCHANGED <<live, backup, published, faults>>
       ELSE Undo(Last) \/ Retain(Last)
    /\ UNCHANGED <<dirs, previous, staged, opened, created, leaked, outcome, orphans>> /\ Same

\* removePublicationArtifacts: backup and staged file of each item; an artifact
\* that cannot be removed stays and is reported.
Cleanup ==
    LET i == First
    IN  /\ run.pc = "cleanup"
        /\ \/ /\ backup' = backup \ {i} /\ staged' = staged \ {i}
              /\ Continue(todo \ {i}, "close", {})
              /\ UNCHANGED faults
           \/ /\ Fault /\ i \in backup \cup staged
              /\ \/ backup' = backup \ {i} /\ UNCHANGED staged /\ i \in staged
                 \/ staged' = staged \ {i} /\ UNCHANGED backup /\ i \in backup
                 \/ UNCHANGED <<backup, staged>>
              /\ run' = [run EXCEPT !.untidy = TRUE, !.pc = IF todo = {i} THEN "close" ELSE @]
              /\ todo' = todo \ {i}
        /\ UNCHANGED <<live, dirs, previous, published, opened, created, leaked, outcome, orphans>> /\ Same

\* Something is in the directory.
Occupied(d) ==
    \/ \E i \in Item : Inside(d, Path[i]) /\ live[i] # Missing
    \/ \E e \in dirs : Inside(d, e)
    \/ \E i \in staged \cup backup \cup leaked : d \in Above(i) /\ Len(d) = Len(Path[i]) - 1

\* The directories the call created are removed when it failed and left no
\* artifact.  Mutant: only when it could not open all of them.
RemoveCreatedUnopened == run.error /\ opened # Parents(run.commit)
RemoveCreated == run.error /\ ~run.broken /\ ~run.untidy

\* closeStableDirectories, children first.
CloseDirectory(d) ==
    /\ run.pc = "close" /\ d \in created /\ \A e \in created : ~Inside(d, e)
    /\ \/ ~RemoveCreated /\ UNCHANGED <<dirs, outcome, faults>>
       \/ RemoveCreated /\ ~Occupied(d) /\ dirs' = dirs \ {d} /\ UNCHANGED <<outcome, faults>>
       \/ /\ RemoveCreated /\ UNCHANGED dirs /\ outcome' = "rolled_back_untidy"
          /\ IF Occupied(d) THEN UNCHANGED faults ELSE Fault
    /\ created' = created \ {d}
    /\ UNCHANGED <<live, run, todo, previous, staged, backup, published, opened, leaked, orphans>>
    /\ Same

\* The result; an error of closing a directory is reported, too.
Return ==
    /\ run.pc = "close" /\ created = {}
    /\ run' = [run EXCEPT !.pc = "idle"]
    /\ \E untidy \in {run.untidy \/ outcome # "none", TRUE} :
          /\ IF untidy = (run.untidy \/ outcome # "none") THEN UNCHANGED faults ELSE Fault
          /\ outcome' = IF run.broken THEN "lost"
                        ELSE IF run.error
                             THEN IF untidy THEN "rolled_back_untidy" ELSE "rolled_back"
                             ELSE IF untidy THEN "installed_untidy" ELSE "ok"
    /\ UNCHANGED <<live, dirs, todo, previous, staged, backup, published, opened, created, leaked, orphans>>
    /\ Same

\* The process is killed.
Kill ==
    /\ run.pc # "idle" /\ Fault
    /\ run' = [run EXCEPT !.pc = "idle"] /\ todo' = {}
    /\ outcome' = "lost"
    /\ UNCHANGED <<live, dirs, previous, staged, backup, published, opened, created, leaked, orphans>> /\ Same

-----------------------------------------------------------------------------
(* The worktree's other users.                                             *)

\* Somebody writes or deletes a destination.
Edit(i, x) ==
    /\ edited < MaxEdits /\ edited' = edited + 1
    /\ Above(i) \subseteq dirs /\ Path[i] \notin dirs /\ live[i] # x
    /\ live' = [live EXCEPT ![i] = x]
    /\ edits' = edits \cup {i}
    /\ UNCHANGED <<dirs, calls, leaked, outcome, base, head, faults, orphans>>

\* git checkout and clean: the tree that was installed last.
CheckOut ==
    /\ run.pc = "idle"
    /\ live' = head /\ dirs' = UNION {Above(i) : i \in {j \in Item : head[j] # Missing}}
    /\ staged' = {} /\ backup' = {} /\ published' = {} /\ opened' = {} /\ created' = {}
    /\ leaked' = {} /\ orphans' = {}
    /\ outcome' = "none" /\ edits' = {}
    /\ UNCHANGED <<run, todo, previous, base, head, faults, edited>>

Step ==
    \/ \E d \in Directory : OpenDirectory(d) \/ CloseDirectory(d)
    \/ Stage \/ Publish \/ Validate \/ Rollback \/ Cleanup \/ Return

Next ==
    \/ \E c \in Commit : Refuse(c) \/ Begin(c)
    \/ Step \/ Kill
    \/ \E i \in Item, x \in {Edited, Missing} : Edit(i, x)
    \/ CheckOut

Spec == Init /\ [][Next]_vars /\ WF_vars(Step)

-----------------------------------------------------------------------------
(* Properties.                                                             *)

Installed == run.pc \in {"cleanup", "close"} /\ ~run.error
Running == run.pc # "idle" /\ ~Installed

\* The call as its user sees it: until the release is installed, a file that is
\* published, and that nobody has touched since, counts as the one before it.
Before == [i \in Item |-> IF i \in published /\ live[i] = Desired[i] THEN previous[i] ELSE live[i]]

Tree == IF Running THEN Before ELSE live
CallState == IF Installed THEN "installed" ELSE IF Running THEN run.commit
             ELSE IF outcome = "lost" THEN "lost" ELSE "idle"

Abstract == INSTANCE Publication WITH tree <- Tree, call <- CallState

\* Sync installs a release at once or not at all, whatever fails on the way and
\* in the rollback, and overwrites no edit.
AllOrNothing == Abstract!Spec

\* As long as a release is not wholly there, in a running call and after one
\* that was killed or could not roll back, the previous content of every managed
\* file is at its place or in a backup, unless somebody else changed the file.
Recoverable ==
    LET mine == DOMAIN Desired \ edits
    IN  Running \/ outcome = "lost" =>
            \/ \A i \in mine : live[i] = Desired[i]
            \/ \A i \in mine : previous[i] # Missing => live[i] = previous[i] \/ i \in backup

\* A call that reports no trouble with its artifacts leaves none, and one that
\* rolled back leaves no directory of its own either, apart from what a failure
\* in the middle of creating it hides.
QuietMeansTidy ==
    /\ outcome \in {"ok", "rolled_back"} => staged = {} /\ backup = {}
    /\ outcome = "rolled_back" => dirs \subseteq base.dirs \cup orphans

\* What Sync has installed passes the check of the same release and Verify,
\* until somebody changes a file, and no file that was managed before is now
\* without provenance.
InstalledPassesCheck ==
    outcome \in {"ok", "installed_untidy"} /\ edits = {} =>
        /\ Checks(run.commit) /\ Verify
        /\ \A i \in Item : previous[i] # Missing => i \in Managed \cup {Provenance}

\* A call ends, with whatever failures it meets.
CallEnds == run.pc # "idle" ~> run.pc = "idle"
=============================================================================
