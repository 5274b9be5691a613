--------------------------- MODULE CoreSyncProofs ---------------------------
(***************************************************************************)
(* Sync installs a release at once or not at all and keeps what it replaces*)
(* until it is done, for every set of paths and releases, any number of    *)
(* failures, kills and edits, and every order of them.                     *)
(***************************************************************************)
EXTENDS CoreSync, TLAPS, WellFoundedInduction

-----------------------------------------------------------------------------
(* Releases and the order of items. *)

\* A set of items that is not empty has a least one.
LEMMA LeastItem ==
  ASSUME NEW S \in SUBSET Item, S # {}
  PROVE  \E i \in S : \A j \in S : i <= j
  <1> DEFINE R == {ss \in Nat \X Nat : ss[1] < ss[2]}
  <1>1. S \subseteq Nat BY DEF Item
  <1>2. IsWellFoundedOn(R, Nat) BY NatLessThanWellFounded DEF OpToRel
  <1> HIDE DEF R
  <1>3. \E i \in S : \A j \in S : ~(<<j, i>> \in R) BY <1>1, <1>2, WFMin
  <1> USE DEF R
  <1>4. \A i, j \in S : <<j, i>> \in R <=> j < i BY <1>1
  <1> HIDE DEF R
  <1>5. PICK i \in S : \A j \in S : ~(<<j, i>> \in R) BY <1>3
  <1>6. \A j \in S : i <= j
    <2> SUFFICES ASSUME NEW j \in S PROVE i <= j OBVIOUS
    <2>1. ~(j < i) BY <1>4, <1>5
    <2>2. i \in Nat /\ j \in Nat BY <1>1
    <2> QED BY <2>1, <2>2
  <1> QED BY <1>6

\* The loops take an item that is left.
LEMMA FirstIn ==
  ASSUME todo \subseteq Item, todo # {}
  PROVE  First \in todo
  BY LeastItem DEF First

\* The provenance file is an item, and a release has it and its manifest's.
LEMMA ReleaseFacts ==
  ASSUME NEW c \in Commit
  PROVE  /\ Provenance \in Item
         /\ DOMAIN Release[c] = DOMAIN Manifest[c] \cup {Provenance}
         /\ DOMAIN Release[c] \subseteq Item /\ DOMAIN Release[c] # {}
         /\ Release[c][Provenance] = c
         /\ \A i \in DOMAIN Manifest[c] : i # Provenance => Release[c][i] = Manifest[c][i]
         /\ \A i \in DOMAIN Release[c] : Release[c][i] \in File /\ Release[c][i] \notin {Missing, Edited}
  <1>1. Provenance \in Item BY PathAssumption DEF Provenance, Item
  <1>2. DOMAIN Manifest[c] \subseteq Item BY ManifestAssumption
  <1>3. Release[c] = [i \in DOMAIN Manifest[c] \cup {Provenance} |-> IF i = Provenance THEN c ELSE Manifest[c][i]]
    BY DEF Release
  <1>4. \A i \in DOMAIN Manifest[c] : Manifest[c][i] \in Content BY DEF Content
  <1>5. \A i \in DOMAIN Release[c] : Release[c][i] \in Content \cup Commit BY <1>3, <1>4
  <1>6. \A i \in DOMAIN Release[c] : Release[c][i] \in File /\ Release[c][i] \notin {Missing, Edited}
    BY <1>5, ContentAssumption DEF File
  <1> QED BY <1>1, <1>2, <1>3, <1>6

\* The null contents are contents, and not those of a release.
LEMMA NoFile == /\ Missing \in File /\ Edited \in File /\ Missing \notin Commit /\ Edited \notin Commit
                /\ Missing # Edited
  BY ContentAssumption DEF File

-----------------------------------------------------------------------------
(* The inductive invariant. *)

\* Only a call without a collision was begun.
CommitOK ==
    /\ run.pc # "idle" \/ outcome \in {"ok", "installed_untidy", "lost"} => run.commit \in Commit
    /\ run.commit \in Commit => ~Collision(DOMAIN Manifest[run.commit])

\* The loops have something to do.
TodoOK ==
    /\ run.pc # "idle" => todo \subseteq DOMAIN Desired
    /\ run.pc \in {"open", "stage", "publish", "cleanup"} => todo # {}

\* What the call has done so far, phase by phase.
PhaseOK ==
    /\ run.pc \in {"open", "stage", "publish"} => ~run.error /\ ~run.broken
    /\ run.pc \in {"open", "stage"} => published = {} /\ backup = {}
    /\ run.pc = "open" => staged = {}
    /\ run.pc = "publish" => published = DOMAIN Desired \ todo
    /\ run.pc = "validate" => ~run.error /\ ~run.broken
    /\ run.pc = "rollback" => run.error /\ (~run.broken => published \cup backup \subseteq todo)
    /\ run.pc \in {"cleanup", "close"} /\ run.error /\ ~run.broken => published = {}
    /\ run.pc = "cleanup" => ~run.broken
    /\ run.broken => run.error
    /\ run.pc # "idle" => /\ published \subseteq DOMAIN Desired /\ staged \cup backup \subseteq DOMAIN Desired
                          /\ run.pc # "close" => outcome = "none"
                          /\ outcome \in {"none", "rolled_back_untidy"}
    /\ run.pc \in {"open", "stage", "publish", "validate", "rollback"} => ~run.untidy

\* The files that were there before are files of the release.
PreviousOK == run.commit \in Commit => \A i \in Item : previous[i] # Missing => i \in DOMAIN Desired

\* While the release is not installed, a file that the call did not publish is
\* the previous one, and a managed one that it did is in a backup.
RunningOK ==
    Running =>
        /\ \A i \in DOMAIN Desired \ edits :
              live[i] = IF i \in published THEN Desired[i] ELSE previous[i]
        /\ \A i \in published : previous[i] # Missing => i \in backup

\* What is installed is there until somebody changes it.
InstalledOK ==
    Installed \/ outcome \in {"ok", "installed_untidy"}
        => \A i \in DOMAIN Desired \ edits : live[i] = Desired[i]

\* Artifacts are removed, or reported.
ArtifactsOK ==
    /\ run.pc = "cleanup" /\ ~run.untidy => staged \cup backup \subseteq todo
    /\ run.pc = "close" /\ ~run.untidy /\ ~run.broken => staged = {} /\ backup = {}
    /\ outcome \in {"ok", "rolled_back"} => staged = {} /\ backup = {}

\* Directories of the call are removed, or reported.
DirectoriesOK ==
    /\ run.pc # "idle" =>
          \/ dirs \subseteq base.dirs \cup orphans \cup created
          \/ run.pc = "close" /\ (~RemoveCreated \/ outcome # "none")
    /\ outcome = "rolled_back" => dirs \subseteq base.dirs \cup orphans

IInv ==
    /\ CoreSyncTypeOK /\ CommitOK /\ TodoOK /\ PhaseOK /\ PreviousOK
    /\ RunningOK /\ InstalledOK /\ ArtifactsOK /\ DirectoriesOK /\ Recoverable

-----------------------------------------------------------------------------
(* What the steps of a call have in common. *)

\* A call has a release, which is that of its next state, too.
LEMMA InCall ==
  ASSUME IInv, run.pc # "idle", run'.commit = run.commit, previous' = previous
  PROVE  /\ run.commit \in Commit
         /\ Desired' = Desired /\ DOMAIN Desired \subseteq Item /\ DOMAIN Desired # {}
         /\ \A i \in DOMAIN Desired : Desired[i] \in File
         /\ CommitOK' /\ PreviousOK'
  <1>1. run.commit \in Commit BY DEF IInv, CommitOK
  <1>2. Desired' = Desired BY DEF Desired
  <1>3. CommitOK' BY <1>1 DEF IInv, CommitOK, Collision
  <1>4. PreviousOK' BY <1>1, <1>2 DEF IInv, PreviousOK
  <1>5. /\ DOMAIN Desired \subseteq Item /\ DOMAIN Desired # {}
        /\ \A i \in DOMAIN Desired : Desired[i] \in File
    BY <1>1, ReleaseFacts DEF Desired
  <1> QED BY <1>1, <1>2, <1>3, <1>4, <1>5

\* A call that is not installed can be taken back.
LEMMA RunningRecoverable ==
  ASSUME RunningOK, Running \/ outcome # "lost"
  PROVE  Recoverable
  BY DEF RunningOK, Recoverable

\* The steps that neither touch a file of the worktree nor a backup.
LEMMA FilesKept ==
  ASSUME IInv, run.pc # "idle", Desired' = Desired, outcome' # "lost", Running, Running',
         UNCHANGED <<live, previous, published, edits>>, backup \subseteq backup'
  PROVE  RunningOK' /\ Recoverable'
  <1>1. RunningOK' BY DEF IInv, RunningOK
  <1>2. (RunningOK /\ (Running \/ outcome # "lost") => Recoverable)' BY RunningRecoverable, PTL
  <1> QED BY <1>1, <1>2

-----------------------------------------------------------------------------
(* Every step keeps the invariant. *)

\* A refused call touches nothing but its outcome.
LEMMA RefuseInv ==
  ASSUME IInv, NEW c \in Commit, Refuse(c)
  PROVE  IInv'
  <1> USE DEF IInv, Refuse, Same, calls
  <1>1. CoreSyncTypeOK' BY DEF CoreSyncTypeOK
  <1>2. Desired' = Desired BY DEF Desired
  <1>3. CommitOK' BY DEF CommitOK, Collision
  <1>4. TodoOK' /\ PhaseOK' /\ PreviousOK' /\ ArtifactsOK' BY <1>2 DEF TodoOK, PhaseOK, PreviousOK, ArtifactsOK
  <1>5. RunningOK' /\ InstalledOK' BY <1>2 DEF RunningOK, InstalledOK, Running, Installed
  <1>6. DirectoriesOK' BY DEF DirectoriesOK
  <1>7. Recoverable' BY <1>2 DEF Recoverable, Running
  <1> QED BY <1>1, <1>3, <1>4, <1>5, <1>6, <1>7

\* The plan of a call snapshots what is installed and what was before.
LEMMA BeginInv ==
  ASSUME IInv, NEW c \in Commit, Begin(c)
  PROVE  IInv'
  <1> USE DEF Begin
  <1>1. /\ run'.pc \in {"open", "stage"} /\ run'.commit = c /\ ~run'.error /\ ~run'.broken /\ ~run'.untidy
        /\ run' \in [pc: {"open", "stage"}, commit: Commit, error: BOOLEAN, broken: BOOLEAN, untidy: BOOLEAN]
    BY DEF Idle
  <1>2. Desired' = Release[c] BY <1>1 DEF Desired, Release
  <1>3. Managed \subseteq DOMAIN Manifest[c] /\ ~Collision(DOMAIN Manifest[c])
    BY DEF Refused, ManifestRefused, Managed
  <1>4. \A i \in DOMAIN Release[c] : previous'[i] = live[i]
    <2> SUFFICES ASSUME NEW i \in DOMAIN Release[c], i \notin Managed \cup {Provenance} PROVE live[i] = Missing
      BY ReleaseFacts
    <2> QED BY ReleaseFacts DEF Refused
  <1>5. \A i \in Item : previous'[i] # Missing => i \in DOMAIN Release[c] BY <1>3, ReleaseFacts
  <1>6. CoreSyncTypeOK'
    <2>1. previous' \in [Item -> File] BY NoFile DEF IInv, CoreSyncTypeOK
    <2>2. base' \in [files: [Item -> File], dirs: SUBSET Directory] BY DEF IInv, CoreSyncTypeOK
    <2> QED BY <1>1, <2>1, <2>2, ReleaseFacts DEF IInv, CoreSyncTypeOK
  <1>7. CommitOK' BY <1>1, <1>3 DEF CommitOK, Collision
  <1>8. TodoOK' BY <1>1, <1>2, ReleaseFacts DEF TodoOK
  <1>9. PhaseOK' /\ ArtifactsOK' BY <1>1 DEF PhaseOK, ArtifactsOK
  <1>10. PreviousOK' BY <1>2, <1>5 DEF PreviousOK
  <1>11. Running' BY <1>1 DEF Running, Installed
  <1>12. RunningOK' BY <1>2, <1>4 DEF RunningOK
  <1>13. InstalledOK' BY <1>11 DEF InstalledOK, Running
  <1>14. DirectoriesOK' BY DEF DirectoriesOK
  <1>15. Recoverable' BY <1>2, <1>4 DEF Recoverable
  <1> QED BY <1>6, <1>7, <1>8, <1>9, <1>10, <1>12, <1>13, <1>14, <1>15 DEF IInv

\* Directories are made before anything is staged in them.
LEMMA OpenDirectoryInv ==
  ASSUME IInv, NEW d \in Directory, OpenDirectory(d)
  PROVE  IInv'
  <1> USE DEF IInv
  <1>1. /\ run.pc = "open" /\ run'.commit = run.commit /\ previous' = previous
        /\ run'.broken = run.broken /\ run'.untidy = run.untidy
        /\ \/ run'.pc \in {"open", "stage"} /\ ~run'.error
           \/ run'.pc = "close" /\ run'.error
    BY DEF OpenDirectory, CoreSyncTypeOK, PhaseOK
  <1>2. UNCHANGED <<live, todo, staged, backup, published, edits, outcome, base>> BY DEF OpenDirectory, Same
  <1>3. CommitOK' /\ PreviousOK' /\ Desired' = Desired BY <1>1, InCall
  <1>4. CoreSyncTypeOK'
    <2>1. run' \in [pc: {"open", "stage", "close"}, commit: Commit \cup {Missing},
                    error: BOOLEAN, broken: BOOLEAN, untidy: BOOLEAN]
      BY <1>1 DEF OpenDirectory, CoreSyncTypeOK
    <2>2. faults' \in 0..MaxFaults BY BoundsAssumption DEF OpenDirectory, Fault, CoreSyncTypeOK
    <2>3. dirs' \subseteq Directory /\ created' \subseteq opened' /\ opened' \subseteq Directory /\ orphans' \subseteq Directory
      BY DEF OpenDirectory, CoreSyncTypeOK
    <2> QED BY <2>1, <2>2, <2>3 DEF OpenDirectory, CoreSyncTypeOK, Same
  <1>5. TodoOK' BY <1>1, <1>2, <1>3 DEF TodoOK
  <1>6. PhaseOK' BY <1>1, <1>2, <1>3 DEF PhaseOK
  <1>7. Running /\ Running' BY <1>1 DEF Running, Installed
  <1>8. outcome' = "none" BY <1>1, <1>2 DEF PhaseOK
  <1>9. RunningOK' /\ Recoverable' BY <1>1, <1>2, <1>3, <1>7, <1>8, FilesKept
  <1>10. InstalledOK' BY <1>7, <1>8 DEF InstalledOK, Running
  <1>11. ArtifactsOK' BY <1>1, <1>2, <1>8 DEF ArtifactsOK, PhaseOK
  <1>12. DirectoriesOK'
    <2>1. dirs' \subseteq base.dirs \cup orphans' \cup created'
      BY <1>1 DEF OpenDirectory, DirectoriesOK
    <2> QED BY <1>2, <1>8, <2>1 DEF DirectoriesOK
  <1> QED BY <1>3, <1>4, <1>5, <1>6, <1>9, <1>10, <1>11, <1>12

\* A staged file is an artifact of the running call, or is removed again.
LEMMA StageInv ==
  ASSUME IInv, Stage
  PROVE  IInv'
  <1> USE DEF IInv
  <1>1. /\ run.pc = "stage" /\ run'.commit = run.commit /\ previous' = previous
        /\ run'.broken = run.broken /\ run'.untidy = run.untidy
        /\ \/ run'.pc \in {"stage", "publish"} /\ ~run'.error
           \/ run'.pc = "cleanup" /\ run'.error
    BY DEF Stage, Continue, CoreSyncTypeOK, PhaseOK
  <1>2. UNCHANGED <<live, dirs, backup, published, edits, outcome, base, created, orphans>> BY DEF Stage, Same
  <1>3. /\ CommitOK' /\ PreviousOK' /\ Desired' = Desired
        /\ DOMAIN Desired \subseteq Item /\ DOMAIN Desired # {}
    BY <1>1, InCall
  <1>4. First \in todo /\ todo \subseteq DOMAIN Desired
    BY <1>1, <1>3, FirstIn DEF TodoOK
  <1>5. /\ todo' # {} /\ todo' \subseteq DOMAIN Desired
        /\ run'.pc \in {"publish", "cleanup"} => todo' = DOMAIN Desired
        /\ staged' \subseteq DOMAIN Desired
        /\ leaked' \subseteq Item
    BY <1>1, <1>3, <1>4 DEF Stage, Continue, PhaseOK, CoreSyncTypeOK
  <1>6. CoreSyncTypeOK'
    <2>1. run' \in [pc: {"stage", "publish", "cleanup"}, commit: Commit \cup {Missing},
                    error: BOOLEAN, broken: BOOLEAN, untidy: BOOLEAN]
      BY <1>1 DEF Stage, Continue, CoreSyncTypeOK
    <2>2. faults' \in 0..MaxFaults BY BoundsAssumption DEF Stage, Fault, CoreSyncTypeOK
    <2> QED BY <1>3, <1>5, <2>1, <2>2 DEF Stage, CoreSyncTypeOK, Same
  <1>7. TodoOK' BY <1>1, <1>3, <1>5 DEF TodoOK
  <1>8. outcome' = "none" BY <1>1, <1>2 DEF PhaseOK
  <1>9. PhaseOK' BY <1>1, <1>2, <1>3, <1>5, <1>8 DEF PhaseOK
  <1>10. Running /\ Running' BY <1>1 DEF Running, Installed
  <1>11. RunningOK' /\ Recoverable' BY <1>1, <1>2, <1>3, <1>8, <1>10, FilesKept
  <1>12. InstalledOK' BY <1>8, <1>10 DEF InstalledOK, Running
  <1>13. ArtifactsOK' BY <1>1, <1>2, <1>5, <1>8 DEF ArtifactsOK, PhaseOK
  <1>14. DirectoriesOK' BY <1>1, <1>2, <1>8 DEF DirectoriesOK
  <1> QED BY <1>3, <1>6, <1>7, <1>9, <1>11, <1>12, <1>13, <1>14

\* Publishing an item moves the old file to its backup, which stays until the
\* call is installed or rolled back.
LEMMA PublishInv ==
  ASSUME IInv, Publish
  PROVE  IInv'
  <1> USE DEF IInv
  <1>1. /\ run.pc = "publish" /\ run'.commit = run.commit /\ previous' = previous
        /\ run'.broken = run.broken /\ run'.untidy = run.untidy
        /\ \/ run'.pc \in {"publish", "validate"} /\ ~run'.error
           \/ run'.pc = "rollback" /\ run'.error
    BY DEF Publish, Continue, Fail, CoreSyncTypeOK, PhaseOK
  <1>2. UNCHANGED <<dirs, edits, outcome, base, created, orphans>> BY DEF Publish, Same
  <1>3. /\ CommitOK' /\ PreviousOK' /\ Desired' = Desired
        /\ DOMAIN Desired \subseteq Item /\ DOMAIN Desired # {}
        /\ \A i \in DOMAIN Desired : Desired[i] \in File
    BY <1>1, InCall
  <1>4. PICK i : i = First OBVIOUS
  <1>5. i \in todo /\ i \in DOMAIN Desired /\ i \in Item
    BY <1>1, <1>3, <1>4, FirstIn DEF TodoOK
  <1>6. /\ todo' \subseteq DOMAIN Desired
        /\ run'.pc = "publish" => todo' # {} /\ published' = DOMAIN Desired \ todo'
        /\ run'.pc = "rollback" => todo' = DOMAIN Desired
    <2>1. CASE published' = published \cup {i} /\ Continue(todo \ {i}, "validate", {})
      BY <1>1, <1>5, <2>1 DEF Continue, CoreSyncTypeOK, TodoOK, PhaseOK
    <2>2. CASE Fail BY <2>2 DEF Fail, CoreSyncTypeOK
    <2> QED BY <1>4, <2>1, <2>2 DEF Publish
  <1>7. staged' \cup backup' \subseteq DOMAIN Desired /\ published' \subseteq DOMAIN Desired
    BY <1>1, <1>4, <1>5 DEF Publish, PhaseOK
  <1>8. /\ \/ live' = live /\ published' = published
           \/ live' = [live EXCEPT ![i] = Desired[i]] /\ published' = published \cup {i}
        /\ backup \subseteq backup'
        /\ i \in published' => i \in published \/ previous[i] = Missing \/ i \in backup'
    BY <1>4 DEF Publish
  <1>9. CoreSyncTypeOK'
    <2>1. run' \in [pc: {"publish", "validate", "rollback"}, commit: Commit \cup {Missing},
                    error: BOOLEAN, broken: BOOLEAN, untidy: BOOLEAN]
      BY <1>1 DEF Publish, Continue, Fail, CoreSyncTypeOK
    <2>2. faults' \in 0..MaxFaults BY BoundsAssumption DEF Publish, Fault, CoreSyncTypeOK
    <2>3. live' \in [Item -> File] BY <1>3, <1>5, <1>8 DEF CoreSyncTypeOK
    <2> QED BY <1>3, <1>6, <1>7, <2>1, <2>2, <2>3 DEF Publish, CoreSyncTypeOK, Same
  <1>10. TodoOK' BY <1>1, <1>3, <1>6 DEF TodoOK
  <1>11. outcome' = "none" BY <1>1, <1>2 DEF PhaseOK
  <1>12. PhaseOK' BY <1>1, <1>2, <1>3, <1>6, <1>7, <1>11 DEF PhaseOK
  <1>13. Running /\ Running' BY <1>1 DEF Running, Installed
  <1>14. RunningOK'
    <2>1. ASSUME NEW j \in DOMAIN Desired \ edits
          PROVE  live'[j] = IF j \in published' THEN Desired[j] ELSE previous[j]
      BY <1>3, <1>5, <1>8, <1>13, <2>1 DEF RunningOK, CoreSyncTypeOK
    <2>2. ASSUME NEW j \in published', previous[j] # Missing
          PROVE  j \in backup'
      BY <1>8, <1>13, <2>2 DEF RunningOK
    <2> QED BY <1>1, <1>2, <1>3, <2>1, <2>2 DEF RunningOK
  <1>15. Recoverable'
    <2>1. (RunningOK /\ (Running \/ outcome # "lost") => Recoverable)' BY RunningRecoverable, PTL
    <2> QED BY <1>13, <1>14, <2>1
  <1>16. InstalledOK' BY <1>11, <1>13 DEF InstalledOK, Running
  <1>17. ArtifactsOK' BY <1>1, <1>11 DEF ArtifactsOK
  <1>18. DirectoriesOK' BY <1>1, <1>2, <1>11 DEF DirectoriesOK
  <1> QED BY <1>3, <1>9, <1>10, <1>12, <1>14, <1>15, <1>16, <1>17, <1>18

\* Validation finds every target published before the release is installed.
LEMMA ValidateInv ==
  ASSUME IInv, Validate
  PROVE  IInv'
  <1> USE DEF IInv
  <1>1. /\ run.pc = "validate" /\ run'.commit = run.commit /\ previous' = previous
        /\ run'.broken = run.broken /\ run'.untidy = run.untidy
        /\ \/ /\ run'.pc = "cleanup" /\ ~run'.error
              /\ \A i \in DOMAIN Desired : live[i] = Desired[i]
           \/ run'.pc = "rollback" /\ run'.error
        /\ todo' = DOMAIN Desired
    BY DEF Validate, Fail, CoreSyncTypeOK, PhaseOK
  <1>2. UNCHANGED <<live, dirs, staged, backup, published, edits, outcome, base, created, orphans>> BY DEF Validate
  <1>3. /\ CommitOK' /\ PreviousOK' /\ Desired' = Desired
        /\ DOMAIN Desired \subseteq Item /\ DOMAIN Desired # {}
    BY <1>1, InCall
  <1>4. CoreSyncTypeOK'
    <2>1. run' \in [pc: {"cleanup", "rollback"}, commit: Commit \cup {Missing},
                    error: BOOLEAN, broken: BOOLEAN, untidy: BOOLEAN]
      BY <1>1 DEF Validate, Fail, CoreSyncTypeOK
    <2>2. faults' \in 0..MaxFaults BY BoundsAssumption DEF Validate, Fault, CoreSyncTypeOK
    <2>3. head' \in [Item -> File] BY DEF Validate, CoreSyncTypeOK
    <2> QED BY <1>1, <1>3, <2>1, <2>2, <2>3 DEF Validate, CoreSyncTypeOK
  <1>5. TodoOK' BY <1>1, <1>3 DEF TodoOK
  <1>6. outcome' = "none" BY <1>1, <1>2 DEF PhaseOK
  <1>7. PhaseOK' BY <1>1, <1>2, <1>3, <1>6 DEF PhaseOK
  <1>8. Running BY <1>1 DEF Running, Installed
  <1>9. RunningOK' BY <1>1, <1>2, <1>3, <1>8 DEF RunningOK
  <1>10. Recoverable'
    <2>1. (RunningOK /\ (Running \/ outcome # "lost") => Recoverable)' BY RunningRecoverable, PTL
    <2> QED BY <1>6, <1>9, <2>1
  <1>11. InstalledOK' BY <1>1, <1>2, <1>3, <1>6 DEF InstalledOK, Installed
  <1>12. ArtifactsOK' BY <1>1, <1>2, <1>6 DEF ArtifactsOK, PhaseOK
  <1>13. DirectoriesOK' BY <1>1, <1>2, <1>6 DEF DirectoriesOK
  <1> QED BY <1>3, <1>4, <1>5, <1>7, <1>9, <1>10, <1>11, <1>12, <1>13

\* One item is put back, or retained.
LEMMA RollbackInv ==
  ASSUME IInv, Rollback
  PROVE  IInv'
  <1> USE DEF IInv
  <1>1. /\ run.pc = "rollback" /\ run.error /\ ~run.untidy /\ outcome = "none"
        /\ run'.commit = run.commit /\ previous' = previous
        /\ run'.error /\ run'.untidy = run.untidy
        /\ run' \in [pc: {"rollback", "cleanup", "close"}, commit: Commit \cup {Missing},
                     error: BOOLEAN, broken: BOOLEAN, untidy: BOOLEAN]
    BY DEF Rollback, Undo, Retain, AfterRollback, CoreSyncTypeOK, PhaseOK
  <1>2. UNCHANGED <<dirs, staged, edits, outcome, base, created, orphans>> BY DEF Rollback, Same
  <1>3. /\ CommitOK' /\ PreviousOK' /\ Desired' = Desired
        /\ DOMAIN Desired \subseteq Item /\ DOMAIN Desired # {}
    BY <1>1, InCall
  <1>4. PICK i : i = Last OBVIOUS
  <1>5. CASE todo # {} /\ Undo(i)
    <2>1. published' = published \ {i} /\ backup' = backup \ {i} /\ run' = run /\ todo' = todo \ {i}
      BY <1>5 DEF Undo
    <2>2. live' = IF i \in published THEN [live EXCEPT ![i] = previous[i]] ELSE live
      BY <1>5 DEF Undo, Undone
    <2>3. Running /\ Running' BY <1>1, <2>1 DEF Running, Installed
    <2>4. published \subseteq DOMAIN Desired /\ published \subseteq Item BY <1>1, <1>3 DEF PhaseOK
    <2>5. live' \in [Item -> File] BY <2>2, <2>4 DEF CoreSyncTypeOK
    <2>6. CoreSyncTypeOK' BY <1>2, <1>5, <2>1, <2>5 DEF Rollback, Undo, CoreSyncTypeOK, Same
    <2>7. TodoOK' BY <1>1, <1>3, <2>1 DEF TodoOK
    <2>8. PhaseOK' BY <1>1, <1>2, <1>3, <2>1 DEF PhaseOK
    <2>9. RunningOK'
      <3>1. ASSUME NEW j \in DOMAIN Desired \ edits
            PROVE  live'[j] = IF j \in published' THEN Desired[j] ELSE previous[j]
        BY <1>3, <2>1, <2>2, <2>3 DEF RunningOK, CoreSyncTypeOK
      <3>2. ASSUME NEW j \in published', previous[j] # Missing PROVE j \in backup'
        BY <2>1, <2>3, <3>2 DEF RunningOK
      <3> QED BY <1>1, <1>2, <1>3, <3>1, <3>2 DEF RunningOK
    <2>10. Recoverable'
      <3>1. (RunningOK /\ (Running \/ outcome # "lost") => Recoverable)' BY RunningRecoverable, PTL
      <3> QED BY <2>3, <2>9, <3>1
    <2>11. InstalledOK' BY <1>1, <1>2, <2>3 DEF InstalledOK, Running
    <2>12. ArtifactsOK' BY <1>1, <1>2, <2>1 DEF ArtifactsOK
    <2>13. DirectoriesOK' BY <1>1, <1>2, <2>1 DEF DirectoriesOK
    <2> QED BY <1>3, <2>6, <2>7, <2>8, <2>9, <2>10, <2>11, <2>12, <2>13
  <1>6. CASE (todo # {} /\ Retain(i)) \/ todo = {}
    <2>1. UNCHANGED <<live, backup, published>> BY <1>4, <1>6 DEF Rollback, Undo, Retain
    <2>2. \/ run'.pc = "rollback" /\ run'.broken /\ todo' = todo \ {i}
          \/ run'.pc = "close" /\ run.broken /\ run'.broken /\ todo' = {}
          \/ run'.pc = "cleanup" /\ todo' = DOMAIN Desired /\ todo = {} /\ ~run.broken /\ ~run'.broken
      <3>1. CASE todo # {} /\ Retain(i) BY <1>1, <3>1 DEF Retain, CoreSyncTypeOK
      <3>2. CASE todo = {} BY <1>1, <3>2 DEF Rollback, AfterRollback, CoreSyncTypeOK
      <3> QED BY <1>6, <3>1, <3>2
    <2>3. Running /\ Running' BY <1>1, <2>2 DEF Running, Installed
    <2>4. CoreSyncTypeOK'
      <3>1. faults' \in 0..MaxFaults BY <1>4, <1>6, BoundsAssumption DEF Rollback, Retain, Fault, CoreSyncTypeOK
      <3>2. todo' \subseteq Item BY <1>3, <2>2 DEF CoreSyncTypeOK
      <3> QED BY <1>1, <1>2, <2>1, <3>1, <3>2 DEF Rollback, CoreSyncTypeOK, Same
    <2>5. TodoOK' BY <1>1, <1>3, <2>2 DEF TodoOK
    <2>6. PhaseOK' BY <1>1, <1>2, <1>3, <2>1, <2>2 DEF PhaseOK
    <2>7. RunningOK' /\ Recoverable' BY <1>1, <1>2, <1>3, <2>1, <2>3, FilesKept
    <2>8. InstalledOK' BY <1>1, <1>2, <2>3 DEF InstalledOK, Running
    <2>9. ArtifactsOK' BY <1>1, <1>2, <2>1, <2>2 DEF ArtifactsOK, PhaseOK
    <2>10. DirectoriesOK' BY <1>1, <1>2 DEF DirectoriesOK
    <2> QED BY <1>3, <2>4, <2>5, <2>6, <2>7, <2>8, <2>9, <2>10
  <1> QED BY <1>4, <1>5, <1>6 DEF Rollback

\* Cleanup removes the artifacts of items, and reports the ones it cannot.
LEMMA CleanupInv ==
  ASSUME IInv, Cleanup
  PROVE  IInv'
  <1> USE DEF IInv
  <1>1. /\ run.pc = "cleanup" /\ ~run.broken /\ outcome = "none"
        /\ run'.commit = run.commit /\ previous' = previous
        /\ run'.error = run.error /\ run'.broken = run.broken
        /\ run' \in [pc: {"cleanup", "close"}, commit: Commit \cup {Missing},
                     error: BOOLEAN, broken: BOOLEAN, untidy: BOOLEAN]
    BY DEF Cleanup, Continue, CoreSyncTypeOK, PhaseOK
  <1>2. UNCHANGED <<live, dirs, published, edits, outcome, base, created, orphans>> BY DEF Cleanup, Same
  <1>3. /\ CommitOK' /\ PreviousOK' /\ Desired' = Desired
        /\ DOMAIN Desired \subseteq Item /\ DOMAIN Desired # {}
    BY <1>1, InCall
  <1>4. PICK i : i = First OBVIOUS
  <1>5. i \in todo BY <1>1, <1>3, <1>4, FirstIn DEF TodoOK
  <1>6. /\ todo' = todo \ {i}
        /\ run'.pc = "cleanup" => todo' # {}
        /\ run'.pc = "close" => todo' = {}
        /\ \/ run'.untidy
           \/ run'.untidy = run.untidy /\ staged' = staged \ {i} /\ backup' = backup \ {i}
        /\ staged' \subseteq staged /\ backup' \subseteq backup
    <2>1. CASE /\ backup' = backup \ {i} /\ staged' = staged \ {i}
               /\ Continue(todo \ {i}, "close", {})
      BY <1>1, <1>5, <2>1 DEF Continue, CoreSyncTypeOK
    <2>2. CASE /\ run' = [run EXCEPT !.untidy = TRUE, !.pc = IF todo = {i} THEN "close" ELSE @]
               /\ todo' = todo \ {i} /\ backup' \subseteq backup /\ staged' \subseteq staged
      BY <1>1, <1>5, <2>2 DEF CoreSyncTypeOK
    <2> QED BY <1>4, <2>1, <2>2 DEF Cleanup
  <1>7. CoreSyncTypeOK'
    <2>1. faults' \in 0..MaxFaults BY BoundsAssumption DEF Cleanup, Fault, CoreSyncTypeOK
    <2> QED BY <1>1, <1>2, <1>6, <2>1 DEF Cleanup, CoreSyncTypeOK, Same
  <1>8. TodoOK' BY <1>1, <1>3, <1>6 DEF TodoOK
  <1>9. PhaseOK' BY <1>1, <1>2, <1>3, <1>6 DEF PhaseOK
  <1>10. RunningOK'
    <2> SUFFICES ASSUME Running' PROVE RunningOK' BY DEF RunningOK
    <2>1. run.error /\ Running /\ published = {} BY <1>1 DEF Running, Installed, PhaseOK
    <2> QED BY <1>1, <1>2, <1>3, <2>1 DEF RunningOK
  <1>11. Recoverable'
    <2>1. (RunningOK /\ (Running \/ outcome # "lost") => Recoverable)' BY RunningRecoverable, PTL
    <2> QED BY <1>1, <1>2, <1>10, <2>1
  <1>12. InstalledOK' BY <1>1, <1>2, <1>3 DEF InstalledOK, Installed
  <1>13. ArtifactsOK' BY <1>1, <1>2, <1>6 DEF ArtifactsOK
  <1>14. DirectoriesOK' BY <1>1, <1>2 DEF DirectoriesOK
  <1> QED BY <1>3, <1>7, <1>8, <1>9, <1>10, <1>11, <1>12, <1>13, <1>14

\* A directory that the call made goes only when the call failed tidily.
LEMMA CloseDirectoryInv ==
  ASSUME IInv, NEW d \in Directory, CloseDirectory(d)
  PROVE  IInv'
  <1> USE DEF IInv
  <1>1. run.pc = "close" /\ run' = run /\ previous' = previous BY DEF CloseDirectory
  <1>2. UNCHANGED <<live, todo, staged, backup, published, edits, base, orphans>> BY DEF CloseDirectory, Same
  <1>3. CommitOK' /\ PreviousOK' /\ Desired' = Desired BY <1>1, InCall
  <1>4. /\ outcome' = outcome \/ outcome' = "rolled_back_untidy"
        /\ outcome \in {"none", "rolled_back_untidy"}
        /\ created' = created \ {d} /\ dirs' \subseteq dirs
    BY <1>1 DEF CloseDirectory, PhaseOK
  <1>5. CoreSyncTypeOK'
    <2>1. faults' \in 0..MaxFaults BY BoundsAssumption DEF CloseDirectory, Fault, CoreSyncTypeOK
    <2> QED BY <1>1, <1>2, <1>4, <2>1 DEF CloseDirectory, CoreSyncTypeOK, Same
  <1>6. TodoOK' /\ PhaseOK' /\ ArtifactsOK' BY <1>1, <1>2, <1>3, <1>4 DEF TodoOK, PhaseOK, ArtifactsOK
  <1>7. RunningOK' BY <1>1, <1>2, <1>3 DEF RunningOK, Running, Installed
  <1>8. Recoverable'
    <2>1. (RunningOK /\ (Running \/ outcome # "lost") => Recoverable)' BY RunningRecoverable, PTL
    <2> QED BY <1>4, <1>7, <2>1
  <1>9. InstalledOK' BY <1>1, <1>2, <1>3, <1>4 DEF InstalledOK, Installed
  <1>10. DirectoriesOK'
    <2>1. RemoveCreated' = RemoveCreated BY <1>1 DEF RemoveCreated
    <2>2. \/ dirs' \subseteq base.dirs \cup orphans \cup created'
          \/ ~RemoveCreated \/ outcome' # "none"
      BY <1>1, <1>4 DEF CloseDirectory, DirectoriesOK
    <2> QED BY <1>1, <1>2, <1>4, <2>1, <2>2 DEF DirectoriesOK
  <1> QED BY <1>3, <1>5, <1>6, <1>7, <1>8, <1>9, <1>10

\* A call returns with nothing left to do.
LEMMA ReturnInv ==
  ASSUME IInv, Return
  PROVE  IInv'
  <1> USE DEF IInv
  <1>1. /\ run.pc = "close" /\ created = {} /\ run'.pc = "idle"
        /\ run'.commit = run.commit /\ previous' = previous
        /\ run'.error = run.error /\ run'.broken = run.broken /\ run'.untidy = run.untidy
        /\ run' \in [pc: {"idle"}, commit: Commit \cup {Missing},
                     error: BOOLEAN, broken: BOOLEAN, untidy: BOOLEAN]
    BY DEF Return, CoreSyncTypeOK
  <1>2. UNCHANGED <<live, dirs, todo, staged, backup, published, edits, base, orphans, created, head, opened, leaked, edited>>
    BY DEF Return, Same
  <1>3. CommitOK' /\ PreviousOK' /\ Desired' = Desired BY <1>1, InCall
  <1>4. PICK untidy \in {run.untidy \/ outcome # "none", TRUE} :
          /\ faults' \in {faults, faults + 1} /\ (faults' # faults => faults < MaxFaults)
          /\ outcome' = IF run.broken THEN "lost"
                        ELSE IF run.error
                             THEN IF untidy THEN "rolled_back_untidy" ELSE "rolled_back"
                             ELSE IF untidy THEN "installed_untidy" ELSE "ok"
    BY DEF Return, Fault
  <1>5. CoreSyncTypeOK'
    <2>1. faults' \in 0..MaxFaults BY <1>4, BoundsAssumption DEF CoreSyncTypeOK
    <2> QED BY <1>1, <1>2, <1>4, <2>1 DEF CoreSyncTypeOK
  <1>6. TodoOK' /\ PhaseOK' BY <1>1 DEF TodoOK, PhaseOK
  <1>7. RunningOK' BY <1>1 DEF RunningOK, Running
  <1>8. InstalledOK'
    <2> SUFFICES ASSUME outcome' \in {"ok", "installed_untidy"} PROVE InstalledOK' BY <1>1 DEF InstalledOK, Installed
    <2>1. Installed BY <1>1, <1>4 DEF Installed
    <2> QED BY <1>2, <1>3, <2>1 DEF InstalledOK
  <1>9. Recoverable'
    <2> SUFFICES ASSUME outcome' = "lost" PROVE Recoverable' BY <1>1 DEF Recoverable, Running
    <2>1. Running BY <1>1, <1>4 DEF Running, Installed, PhaseOK
    <2> QED BY <1>1, <1>2, <1>3, <2>1 DEF Recoverable
  <1>10. ArtifactsOK' BY <1>1, <1>2, <1>4 DEF ArtifactsOK
  <1>11. DirectoriesOK'
    <2>1. outcome' = "rolled_back" => RemoveCreated /\ outcome = "none" BY <1>4 DEF RemoveCreated
    <2> QED BY <1>1, <1>2, <2>1 DEF DirectoriesOK
  <1> QED BY <1>3, <1>5, <1>6, <1>7, <1>8, <1>9, <1>10, <1>11

\* A kill at any step leaves files and artifacts as they are, and the call idle.
LEMMA KillInv ==
  ASSUME IInv, Kill
  PROVE  IInv'
  <1> USE DEF IInv
  <1>1. /\ run.pc # "idle" /\ run'.pc = "idle" /\ outcome' = "lost" /\ todo' = {}
        /\ run'.commit = run.commit /\ previous' = previous
        /\ run'.error = run.error /\ run'.broken = run.broken
        /\ run' \in [pc: {"idle"}, commit: Commit \cup {Missing},
                     error: BOOLEAN, broken: BOOLEAN, untidy: BOOLEAN]
    BY DEF Kill, CoreSyncTypeOK
  <1>2. UNCHANGED <<live, dirs, staged, backup, published, edits, base, orphans, created>> BY DEF Kill, Same
  <1>3. CommitOK' /\ PreviousOK' /\ Desired' = Desired BY <1>1, InCall
  <1>4. CoreSyncTypeOK'
    <2>1. faults' \in 0..MaxFaults BY BoundsAssumption DEF Kill, Fault, CoreSyncTypeOK
    <2> QED BY <1>1, <1>2, <2>1 DEF Kill, CoreSyncTypeOK, Same
  <1>5. TodoOK' /\ PhaseOK' /\ ArtifactsOK' /\ DirectoriesOK'
    BY <1>1 DEF TodoOK, PhaseOK, ArtifactsOK, DirectoriesOK
  <1>6. RunningOK' /\ InstalledOK' BY <1>1 DEF RunningOK, Running, InstalledOK, Installed
  <1>7. Recoverable'
    <2>1. CASE Running BY <1>1, <1>2, <1>3, <2>1 DEF Recoverable
    <2>2. CASE Installed BY <1>1, <1>2, <1>3, <2>2 DEF Recoverable, InstalledOK
    <2> QED BY <1>1, <2>1, <2>2 DEF Running
  <1> QED BY <1>3, <1>4, <1>5, <1>6, <1>7

\* An edit takes a file out of the call's hands.
LEMMA EditInv ==
  ASSUME IInv, NEW i \in Item, NEW x \in {Edited, Missing}, Edit(i, x)
  PROVE  IInv'
  <1> USE DEF IInv
  <1>1. /\ live' = [live EXCEPT ![i] = x] /\ edits' = edits \cup {i}
        /\ UNCHANGED <<dirs, calls, leaked, outcome, base, head, faults, orphans>>
    BY DEF Edit
  <1>2. \A j : j # i => live'[j] = live[j] BY <1>1 DEF CoreSyncTypeOK
  <1>3. Desired' = Desired /\ Running' = Running /\ Installed' = Installed
    BY <1>1 DEF calls, Desired, Running, Installed
  <1>4. CoreSyncTypeOK'
    <2>1. live' \in [Item -> File] BY <1>1, NoFile DEF CoreSyncTypeOK
    <2>2. edited' \in 0..MaxEdits BY BoundsAssumption DEF Edit, CoreSyncTypeOK
    <2> QED BY <1>1, <2>1, <2>2 DEF calls, CoreSyncTypeOK
  <1>5. CommitOK' BY <1>1 DEF calls, CommitOK, Collision
  <1>6. TodoOK' /\ PhaseOK' /\ PreviousOK' /\ ArtifactsOK'
    BY <1>1, <1>3 DEF calls, TodoOK, PhaseOK, PreviousOK, ArtifactsOK
  <1>7. RunningOK' BY <1>1, <1>2, <1>3 DEF calls, RunningOK
  <1>8. InstalledOK' BY <1>1, <1>2, <1>3 DEF calls, InstalledOK
  <1>9. DirectoriesOK' BY <1>1 DEF calls, DirectoriesOK, RemoveCreated
  <1>10. Recoverable' BY <1>1, <1>2, <1>3 DEF calls, Recoverable
  <1> QED BY <1>4, <1>5, <1>6, <1>7, <1>8, <1>9, <1>10

\* A checkout restores the tree that was installed last.
LEMMA CheckOutInv ==
  ASSUME IInv, CheckOut
  PROVE  IInv'
  <1> USE DEF IInv
  <1>1. run.pc = "idle" /\ run' = run /\ outcome' = "none" /\ UNCHANGED <<todo, previous>>
    BY DEF CheckOut
  <1>2. Desired' = Desired BY <1>1 DEF Desired
  <1>3. CoreSyncTypeOK'
    <2>1. dirs' \subseteq Directory BY DEF CheckOut, Directory
    <2> QED BY <2>1 DEF CheckOut, CoreSyncTypeOK
  <1>4. CommitOK' BY <1>1 DEF CommitOK, Collision
  <1>5. TodoOK' /\ PhaseOK' /\ PreviousOK' /\ ArtifactsOK' /\ DirectoriesOK'
    BY <1>1, <1>2 DEF TodoOK, PhaseOK, PreviousOK, ArtifactsOK, DirectoriesOK
  <1>6. RunningOK' /\ InstalledOK' /\ Recoverable'
    BY <1>1 DEF RunningOK, InstalledOK, Recoverable, Running, Installed
  <1> QED BY <1>3, <1>4, <1>5, <1>6

\* The clean checkout of the start satisfies the invariant.
LEMMA InitInv == Init => IInv
  <1> SUFFICES ASSUME Init PROVE IInv OBVIOUS
  <1> USE DEF Init
  <1>1. run.pc = "idle" /\ run.commit = Missing /\ ~run.broken /\ outcome = "none" BY DEF Idle
  <1>2. CoreSyncTypeOK BY BoundsAssumption, NoFile DEF CoreSyncTypeOK, Idle
  <1>3. CommitOK /\ PreviousOK BY <1>1, NoFile DEF CommitOK, PreviousOK
  <1>4. TodoOK /\ PhaseOK /\ ArtifactsOK /\ DirectoriesOK
    BY <1>1 DEF TodoOK, PhaseOK, ArtifactsOK, DirectoriesOK
  <1>5. RunningOK /\ InstalledOK /\ Recoverable
    BY <1>1 DEF RunningOK, InstalledOK, Recoverable, Running, Installed
  <1> QED BY <1>2, <1>3, <1>4, <1>5 DEF IInv

\* A step that changes no variable keeps the invariant.
LEMMA StutterInv == IInv /\ UNCHANGED vars => IInv'
  <1> SUFFICES ASSUME IInv, UNCHANGED vars PROVE IInv' OBVIOUS
  <1> USE DEF IInv, vars, calls
  <1>1. Desired' = Desired /\ Running' = Running /\ Installed' = Installed
    BY DEF Desired, Running, Installed
  <1>2. CoreSyncTypeOK' BY DEF CoreSyncTypeOK
  <1>3. CommitOK' BY DEF CommitOK, Collision
  <1>4. TodoOK' /\ PhaseOK' /\ PreviousOK' /\ ArtifactsOK'
    BY <1>1 DEF TodoOK, PhaseOK, PreviousOK, ArtifactsOK
  <1>5. RunningOK' /\ InstalledOK' /\ Recoverable' BY <1>1 DEF RunningOK, InstalledOK, Recoverable
  <1>6. DirectoriesOK' BY DEF DirectoriesOK, RemoveCreated
  <1> QED BY <1>2, <1>3, <1>4, <1>5, <1>6

\* The invariant is inductive.
LEMMA NextInv == IInv /\ [Next]_vars => IInv'
  BY StutterInv, RefuseInv, BeginInv, OpenDirectoryInv, CloseDirectoryInv, StageInv, PublishInv,
     ValidateInv, RollbackInv, CleanupInv, ReturnInv, KillInv, EditInv, CheckOutInv
  DEF Next, Step

\* The invariant holds in every reachable state.
THEOREM CoreSyncInvariant == Spec => []IInv
  BY InitInv, NextInv, PTL DEF Spec

\* Every variable of Sync keeps its type.
THEOREM CoreSyncTypeCorrect == Spec => []CoreSyncTypeOK
  <1>1. IInv => CoreSyncTypeOK BY DEF IInv
  <1> QED BY <1>1, CoreSyncInvariant, PTL

\* Whatever fails, in a running call and after one that was killed or could not
\* roll back, every managed file that the call replaced is at its place or in a
\* backup until the whole release is there (publishStableItem, rollbackStableItems).
THEOREM RecoverableHolds == Spec => []Recoverable
  <1>1. IInv => Recoverable BY DEF IInv
  <1> QED BY <1>1, CoreSyncInvariant, PTL

\* A call that reports no trouble leaves no artifact, and one that rolled back
\* no directory it created (removePublicationArtifacts, closeStableDirectories).
THEOREM QuietMeansTidyHolds == Spec => []QuietMeansTidy
  <1>1. IInv => QuietMeansTidy BY DEF IInv, ArtifactsOK, DirectoriesOK, QuietMeansTidy
  <1> QED BY <1>1, CoreSyncInvariant, PTL

\* What was installed passes the check of its release and Verify until somebody
\* edits it (Sync with Options.Check, Verify).
THEOREM InstalledPassesCheckHolds == Spec => []InstalledPassesCheck
  <1>1. IInv => InstalledPassesCheck
    <2> SUFFICES ASSUME IInv, outcome \in {"ok", "installed_untidy"}, edits = {}
                 PROVE  /\ Checks(run.commit) /\ Verify
                        /\ \A i \in Item : previous[i] # Missing => i \in Managed \cup {Provenance}
      BY DEF InstalledPassesCheck
    <2> DEFINE c == run.commit
    <2>1. c \in Commit /\ ~Collision(DOMAIN Manifest[c]) BY DEF IInv, CommitOK
    <2>2. Provenance \notin DOMAIN Manifest[c] BY <2>1 DEF Collision
    <2>3. \A i \in DOMAIN Release[c] : live[i] = Release[c][i] BY DEF IInv, InstalledOK, Desired
    <2>4. /\ DOMAIN Release[c] = DOMAIN Manifest[c] \cup {Provenance}
          /\ Release[c][Provenance] = c
          /\ \A i \in DOMAIN Manifest[c] : i # Provenance => Release[c][i] = Manifest[c][i]
      BY <2>1, ReleaseFacts
    <2>5. live[Provenance] = c /\ Managed = DOMAIN Manifest[c] BY <2>1, <2>3, <2>4 DEF Managed
    <2>6. \A i \in DOMAIN Manifest[c] : live[i] = Manifest[c][i] BY <2>2, <2>3, <2>4
    <2>7. ~ManifestRefused(c) BY <2>1, <2>5, NoFile DEF ManifestRefused
    <2>8. Checks(c) /\ Verify BY <2>1, <2>5, <2>6, <2>7 DEF Checks, Verify
    <2>9. \A i \in Item : previous[i] # Missing => i \in Managed \cup {Provenance}
      BY <2>1, <2>4, <2>5 DEF IInv, PreviousOK, Desired
    <2> QED BY <2>8, <2>9
  <1> QED BY <1>1, CoreSyncInvariant, PTL

-----------------------------------------------------------------------------
(* Every step is one of Publication, or none. *)

\* Until the release is installed, its files count as the previous ones.
LEMMA StutteredCall ==
  ASSUME run.pc # "idle", run'.pc # "idle", Installed' <=> Installed, Desired' = Desired,
         run'.commit = run.commit, UNCHANGED <<head, live, published, previous>>
  PROVE  UNCHANGED Abstract!vars
  <1>1. Running' <=> Running BY DEF Running
  <1>2. Before' = Before BY DEF Before
  <1>3. Tree' = Tree BY <1>1, <1>2 DEF Tree
  <1>4. CallState' = CallState BY <1>1 DEF CallState, Running
  <1> QED BY <1>3, <1>4 DEF Abstract!vars

\* What a call leaves when it ends without having installed its release: each
\* file it has published, or the previous one.
LEMMA CallLost ==
  ASSUME IInv, Running, run'.pc = "idle", outcome' = "lost", UNCHANGED <<live, head>>
  PROVE  \E c \in Commit : Abstract!Lose(c)
  <1> DEFINE c == run.commit
             new == {i \in published : live[i] = Desired[i]}
  <1>1. c \in Commit /\ published \subseteq DOMAIN Release[c] /\ new \in SUBSET Item
    BY ReleaseFacts DEF IInv, CommitOK, PhaseOK, Running, Desired
  <1>2. CallState = c /\ CallState' = "lost" BY DEF CallState, Running, Installed
  <1>3. Tree = Before /\ Tree' = live BY DEF Tree, Running
  <1>4. live = [i \in Item |-> IF i \in new THEN Abstract!Installed(c)[i] ELSE Tree[i]]
    <2>1. ASSUME NEW i \in new PROVE live[i] = Abstract!Installed(c)[i]
      BY <1>1 DEF Abstract!Installed, Desired
    <2>2. ASSUME NEW i \in Item, i \notin new PROVE live[i] = Tree[i]
      BY <1>3, <2>2 DEF Before
    <2>3. live \in [Item -> File] BY DEF IInv, CoreSyncTypeOK
    <2> HIDE DEF new
    <2> QED BY <2>1, <2>2, <2>3
  <1>5. Abstract!Lose(c)
    <2> HIDE DEF new
    <2> QED BY <1>1, <1>2, <1>3, <1>4 DEF Abstract!Lose
  <1> QED BY <1>1, <1>5

\* A refused call is invisible to Publication.
LEMMA RefuseRefines ==
  ASSUME IInv, NEW c \in Commit, Refuse(c)
  PROVE  UNCHANGED Abstract!vars
  <1>1. UNCHANGED <<live, calls, head>> BY DEF Refuse, Same
  <1>2. ~Running /\ ~Running' /\ ~Installed /\ ~Installed' BY <1>1 DEF Refuse, calls, Running, Installed
  <1>3. CallState' = CallState BY <1>2 DEF Refuse, CallState
  <1> QED BY <1>1, <1>2, <1>3 DEF Abstract!vars, Tree

\* A plan is the start of a publication.
LEMMA BeginRefines ==
  ASSUME IInv, NEW c \in Commit, Begin(c)
  PROVE  Abstract!Begin(c)
  <1>1. /\ ~Running /\ ~Installed /\ Running' /\ ~Installed' /\ run'.commit = c
    BY DEF Begin, Idle, Running, Installed
  <1>2. CallState \in {"idle", "lost"} /\ CallState' = c BY <1>1 DEF CallState
  <1>3. Before' = live'
    <2>1. live' \in [Item -> File] BY DEF IInv, CoreSyncTypeOK, Begin
    <2> QED BY <2>1 DEF Before, Begin
  <1>4. Tree' = Tree BY <1>1, <1>3 DEF Tree, Begin
  <1> QED BY <1>2, <1>4 DEF Abstract!Begin, Begin

\* Publishing an item is invisible to Publication until the release is valid.
LEMMA PublishRefines ==
  ASSUME IInv, Publish
  PROVE  UNCHANGED Abstract!vars
  <1>1. /\ run.pc = "publish" /\ run'.commit = run.commit /\ previous' = previous /\ head' = head
        /\ run'.pc \in {"publish", "validate", "rollback"}
    BY DEF Publish, Continue, Fail, IInv, CoreSyncTypeOK, Same
  <1>2. Desired' = Desired BY <1>1 DEF Desired
  <1>3. Running /\ Running' /\ ~Installed /\ ~Installed' BY <1>1 DEF Running, Installed
  <1>4. PICK i : i = First OBVIOUS
  <1>5. /\ \/ live' = live /\ published' = published
           \/ /\ live' = [live EXCEPT ![i] = Desired[i]] /\ published' = published \cup {i}
              /\ live[i] = previous[i]
    BY <1>4 DEF Publish
  <1>6. ASSUME NEW j \in Item
        PROVE  (IF j \in published' /\ live'[j] = Desired[j] THEN previous[j] ELSE live'[j])
             = (IF j \in published /\ live[j] = Desired[j] THEN previous[j] ELSE live[j])
    <2>1. live \in [Item -> File] BY DEF IInv, CoreSyncTypeOK
    <2> QED BY <1>5, <2>1
  <1>7. Before' = Before BY <1>1, <1>2, <1>6 DEF Before
  <1>8. Tree' = Tree /\ CallState' = CallState BY <1>1, <1>3, <1>7 DEF Tree, CallState
  <1> QED BY <1>1, <1>8 DEF Abstract!vars

\* The release is there at once when it has been validated.
LEMMA ValidateRefines ==
  ASSUME IInv, Validate
  PROVE  UNCHANGED Abstract!vars \/ \E c \in Commit : Abstract!Install(c)
  <1>1. /\ run.pc = "validate" /\ run'.commit = run.commit /\ ~run.error
        /\ UNCHANGED <<live, published, previous>>
    BY DEF Validate, Fail, IInv, CoreSyncTypeOK, PhaseOK
  <1>2. Desired' = Desired BY <1>1 DEF Desired
  <1>3. CASE Fail /\ head' = head
    <2>1. run'.pc = "rollback" BY <1>3 DEF Fail, IInv, CoreSyncTypeOK
    <2>2. ~Installed /\ ~Installed' BY <1>1, <2>1 DEF Installed
    <2> QED BY <1>1, <1>2, <1>3, <2>1, <2>2, StutteredCall
  <1>4. CASE /\ \A i \in DOMAIN Desired : live[i] = Desired[i]
             /\ run' = [run EXCEPT !.pc = "cleanup"] /\ head' = live
    <2> DEFINE c == run.commit
    <2>1. run'.pc = "cleanup" /\ ~run'.error BY <1>1, <1>4 DEF IInv, CoreSyncTypeOK
    <2>2. Running /\ ~Installed /\ Installed' /\ ~Running' BY <1>1, <2>1 DEF Running, Installed
    <2>3. CallState = c /\ CallState' = "installed" BY <2>2 DEF CallState
    <2>4. Tree = Before /\ Tree' = live BY <1>1, <2>2 DEF Tree
    <2>5. c \in Commit BY <1>1 DEF IInv, CommitOK
    <2>6. live = Abstract!Installed(c)
      <3>1. ASSUME NEW i \in Item
            PROVE  live[i] = IF i \in DOMAIN Release[c] THEN Release[c][i] ELSE Tree[i]
        <4>1. CASE i \in DOMAIN Release[c] BY <1>4, <4>1 DEF Desired
        <4>2. CASE i \notin DOMAIN Release[c]
          <5>1. i \notin published BY <1>1, <4>2 DEF IInv, PhaseOK, Desired
          <5> QED BY <2>4, <4>2, <5>1 DEF Before
        <4> QED BY <4>1, <4>2
      <3>2. live \in [Item -> File] BY DEF IInv, CoreSyncTypeOK
      <3> QED BY <3>1, <3>2 DEF Abstract!Installed
    <2>7. Abstract!Install(c) BY <1>4, <2>3, <2>4, <2>6 DEF Abstract!Install
    <2> QED BY <2>5, <2>7
  <1> QED BY <1>3, <1>4 DEF Validate

\* Rolling an item back is invisible to Publication.
LEMMA RollbackRefines ==
  ASSUME IInv, Rollback
  PROVE  UNCHANGED Abstract!vars
  <1>1. /\ run.pc = "rollback" /\ run.error /\ run'.error /\ run'.commit = run.commit
        /\ previous' = previous /\ head' = head
        /\ run'.pc \in {"rollback", "cleanup", "close"}
    BY DEF Rollback, Undo, Retain, AfterRollback, IInv, CoreSyncTypeOK, PhaseOK, Same
  <1>2. Desired' = Desired BY <1>1 DEF Desired
  <1>3. Running /\ Running' /\ ~Installed /\ ~Installed' BY <1>1 DEF Running, Installed
  <1>4. PICK i : i = Last OBVIOUS
  <1>5. CASE UNCHANGED <<live, published>> BY <1>1, <1>2, <1>3, <1>5, StutteredCall
  <1>6. CASE Undo(i)
    <2>1. RollbackSafe(i) /\ published' = published \ {i} BY <1>6 DEF Undo
    <2>2. live' = IF i \in published THEN [live EXCEPT ![i] = previous[i]] ELSE live
      BY <1>6 DEF Undo, Undone
    <2>3. i \in published => live[i] \in {previous[i], Desired[i]}
      BY <1>3, <2>1 DEF RollbackSafe, IInv, RunningOK
    <2>4. ASSUME NEW j \in Item
          PROVE  (IF j \in published' /\ live'[j] = Desired[j] THEN previous[j] ELSE live'[j])
               = (IF j \in published /\ live[j] = Desired[j] THEN previous[j] ELSE live[j])
      <3>1. live \in [Item -> File] BY DEF IInv, CoreSyncTypeOK
      <3> QED BY <2>1, <2>2, <2>3, <3>1
    <2>5. Before' = Before BY <1>1, <1>2, <2>4 DEF Before
    <2>6. Tree' = Tree /\ CallState' = CallState BY <1>1, <1>3, <2>5 DEF Tree, CallState
    <2> QED BY <1>1, <2>6 DEF Abstract!vars
  <1> QED BY <1>4, <1>5, <1>6 DEF Rollback, Retain

\* The result of a call ends its publication, or gives it up as lost when the
\* rollback failed.
LEMMA ReturnRefines ==
  ASSUME IInv, Return
  PROVE  Abstract!Return \/ \E c \in Commit : Abstract!Lose(c)
  <1>1. run.pc = "close" /\ run'.pc = "idle" /\ UNCHANGED <<live, head, published, previous>>
    BY DEF Return, IInv, CoreSyncTypeOK, Same
  <1>2. ~Running' /\ ~Installed' /\ Tree' = live BY <1>1 DEF Running, Installed, Tree
  <1>3. CASE run.broken
    <2>1. outcome' = "lost" BY <1>3 DEF Return
    <2>2. Running BY <1>1, <1>3 DEF IInv, PhaseOK, Running, Installed
    <2> QED BY <1>1, <2>1, <2>2, CallLost
  <1>4. CASE ~run.broken
    <2>1. CallState \in Commit \cup {"installed"}
      BY <1>1 DEF CallState, Running, Installed, IInv, CommitOK
    <2>2. CallState' \in {"idle", "lost"} BY <1>2 DEF CallState
    <2>3. Tree = live
      <3>1. CASE Installed BY <3>1 DEF Tree, Running
      <3>2. CASE ~Installed
        <4>1. published = {} BY <1>1, <1>4, <3>2 DEF Installed, IInv, PhaseOK
        <4>2. live \in [Item -> File] BY DEF IInv, CoreSyncTypeOK
        <4>3. Before = live BY <4>1, <4>2 DEF Before
        <4> QED BY <4>3 DEF Tree
      <3> QED BY <3>1, <3>2
    <2> QED BY <1>1, <1>2, <2>1, <2>2, <2>3 DEF Abstract!Return
  <1> QED BY <1>3, <1>4

\* A killed call leaves each file old or new: a publication that is lost, or one
\* that was installed.
LEMMA KillRefines ==
  ASSUME IInv, Kill
  PROVE  Abstract!Return \/ \E c \in Commit : Abstract!Lose(c)
  <1>1. run.pc # "idle" /\ run'.pc = "idle" /\ outcome' = "lost" /\ UNCHANGED <<live, head>>
    BY DEF Kill, IInv, CoreSyncTypeOK, Same
  <1>2. CASE Running BY <1>1, <1>2, CallLost
  <1>3. CASE Installed
    <2>1. CallState = "installed" /\ CallState' = "lost" BY <1>1, <1>3 DEF CallState, Installed, Running
    <2>2. Tree = live /\ Tree' = live BY <1>1, <1>3 DEF Tree, Running
    <2> QED BY <1>1, <2>1, <2>2 DEF Abstract!Return
  <1> QED BY <1>1, <1>2, <1>3 DEF Running

\* An edit is that of the tree: it is of no release.
LEMMA EditRefines ==
  ASSUME IInv, NEW i \in Item, NEW x \in {Edited, Missing}, Edit(i, x)
  PROVE  Abstract!Edit(i)
  <1>1. /\ live' = [live EXCEPT ![i] = x] /\ live \in [Item -> File]
        /\ UNCHANGED <<run, published, previous, outcome, head>>
    BY DEF Edit, calls, IInv, CoreSyncTypeOK
  <1>2. Desired' = Desired /\ Running' = Running /\ Installed' = Installed
    BY <1>1 DEF Desired, Running, Installed
  <1>3. CallState' = CallState BY <1>1, <1>2 DEF CallState
  <1>4. Tree' = [Tree EXCEPT ![i] = x]
    <2>1. CASE ~Running BY <1>1, <1>2, <2>1 DEF Tree
    <2>2. CASE Running
      <3>1. run.commit \in Commit /\ published \subseteq DOMAIN Desired
        BY <2>2 DEF Running, IInv, CommitOK, PhaseOK
      <3>2. i \in published => Desired[i] # x BY <3>1, ReleaseFacts DEF Desired
      <3>3. ASSUME NEW j \in Item
            PROVE  (IF j \in published /\ live'[j] = Desired[j] THEN previous[j] ELSE live'[j])
                 = [Before EXCEPT ![i] = x][j]
        BY <1>1, <3>2 DEF Before
      <3>4. Before' = [Before EXCEPT ![i] = x]
        <4>1. DOMAIN Before = Item BY DEF Before
        <4> QED BY <1>1, <1>2, <3>3, <4>1 DEF Before
      <3> QED BY <1>2, <2>2, <3>4 DEF Tree
    <2> QED BY <2>1, <2>2
  <1> QED BY <1>1, <1>3, <1>4 DEF Abstract!Edit

\* A checkout is Publication's checkout.
LEMMA CheckOutRefines ==
  ASSUME IInv, CheckOut
  PROVE  Abstract!CheckOut
  <1>1. ~Running /\ ~Installed /\ ~Running' /\ ~Installed' BY DEF CheckOut, Running, Installed
  <1> QED BY <1>1 DEF CheckOut, Abstract!CheckOut, Tree, CallState

\* Every step is one of Publication, or none.
LEMMA StepRefines ==
  ASSUME IInv, [Next]_vars
  PROVE  [Abstract!Next]_(Abstract!vars)
  <1>1. CASE UNCHANGED vars
    BY <1>1 DEF vars, calls, Abstract!vars, Tree, Before, Desired, CallState, Running, Installed
  <1>2. ASSUME NEW c \in Commit, Refuse(c) \/ Begin(c) PROVE [Abstract!Next]_(Abstract!vars)
    BY <1>2, RefuseRefines, BeginRefines DEF Abstract!Next
  <1>3. ASSUME NEW d \in Directory, OpenDirectory(d) PROVE UNCHANGED Abstract!vars
    <2>1. /\ run.pc = "open" /\ run'.commit = run.commit
          /\ run'.pc # "idle" /\ (run'.pc = "close" => run'.error)
          /\ run'.pc # "cleanup" /\ UNCHANGED <<live, published, previous, head>>
      BY <1>3 DEF OpenDirectory, IInv, CoreSyncTypeOK, Same
    <2> QED BY <2>1, StutteredCall DEF Installed, Desired
  <1>4. ASSUME NEW d \in Directory, CloseDirectory(d) PROVE UNCHANGED Abstract!vars
    <2>1. run.pc = "close" /\ run' = run /\ UNCHANGED <<live, published, previous, head>>
      BY <1>4 DEF CloseDirectory, Same
    <2> QED BY <2>1, StutteredCall DEF Installed, Desired
  <1>5. CASE Stage
    <2>1. /\ run.pc = "stage" /\ run'.commit = run.commit
          /\ run'.pc \in {"stage", "publish", "cleanup"} /\ (run'.pc = "cleanup" => run'.error)
          /\ UNCHANGED <<live, published, previous, head>>
      BY <1>5 DEF Stage, Continue, IInv, CoreSyncTypeOK, Same
    <2> QED BY <2>1, StutteredCall DEF Installed, Desired
  <1>6. CASE Cleanup
    <2>1. /\ run.pc = "cleanup" /\ run'.commit = run.commit /\ run'.error = run.error
          /\ run'.pc \in {"cleanup", "close"} /\ UNCHANGED <<live, published, previous, head>>
      BY <1>6 DEF Cleanup, Continue, IInv, CoreSyncTypeOK, Same
    <2> QED BY <2>1, StutteredCall DEF Installed, Desired
  <1>7. CASE Publish \/ Rollback BY <1>7, PublishRefines, RollbackRefines
  <1>8. CASE Validate BY <1>8, ValidateRefines DEF Abstract!Next
  <1>9. CASE Return \/ Kill BY <1>9, ReturnRefines, KillRefines DEF Abstract!Next
  <1>10. ASSUME NEW i \in Item, NEW x \in {Edited, Missing}, Edit(i, x) PROVE [Abstract!Next]_(Abstract!vars)
    BY <1>10, EditRefines DEF Abstract!Next
  <1>11. CASE CheckOut BY <1>11, CheckOutRefines DEF Abstract!Next
  <1> QED BY <1>1, <1>2, <1>3, <1>4, <1>5, <1>6, <1>7, <1>8, <1>9, <1>10, <1>11 DEF Next, Step

\* Sync installs a release at once or not at all: it implements Publication
\* (publishTransaction and everything it calls, whatever fails and whoever
\* edits the worktree meanwhile).
THEOREM SyncRefinesPublication == Spec => AllOrNothing
  <1>1. Init => Abstract!Init
    BY DEF Init, Idle, Abstract!Init, Tree, CallState, Running, Installed
  <1>2. IInv /\ [Next]_vars => [Abstract!Next]_(Abstract!vars) BY StepRefines
  <1> QED BY <1>1, <1>2, CoreSyncInvariant, PTL DEF Spec, AllOrNothing, Abstract!Spec
=============================================================================
