----------------------------- MODULE SourceTree -----------------------------
(***************************************************************************)
(* The portal's workspace as a source update sees it: a tree of files,     *)
(* each holding the content some package gave it, and the operations that  *)
(* a commit performs on that tree: take a rollback snapshot, copy one file *)
(* of the package, put the snapshot back, delete what the package lacks.   *)
(*                                                                         *)
(* A file is a member of File and its content is the version that wrote it *)
(* (Absent when there is no such file).  What the code decides by looking  *)
(* at a path is a set here: Protected for isProtectedApplyResidualPath,    *)
(* Managed for the roots that the orphan clean-up walks.                   *)
(***************************************************************************)
CONSTANTS
  Session,    \* apply attempts, each bringing one package
  Base,       \* the source installed before the first apply
  File,       \* relative paths of the workspace
  Absent,     \* the content of a path where there is no file
  Protected,  \* paths neither backed up nor deleted (data, logs, runtime)
  Managed     \* paths under the roots the orphan clean-up walks

\* What a file, or a build, can come from.
Version == Session \cup {Base}

ASSUME TreeAssumption ==
  /\ Protected \subseteq File
  /\ Managed \subseteq File
  /\ Base \notin Session
  /\ Absent \notin Version

Content == Version \cup {Absent}

Tree == [File -> Content]

(***************************************************************************)
(* A rollback snapshot: the files saved before the merge, with what they   *)
(* held, and the paths the merge is about to create.                       *)
(***************************************************************************)
Snapshot == [image: Tree, backedUp: SUBSET File, created: SUBSET File]

\* Mutant: the files the merge will create are not noted.
TakeSnapshotOfExisting(tree, list) ==
  [image    |-> tree,
   backedUp |-> {f \in list \ Protected : tree[f] # Absent},
   created  |-> {}]

\* createSourceRollbackSnapshot: a path of the merge list that exists is
\* saved, one that does not is noted as created; protected paths are neither.
TakeSnapshot(tree, list) ==
  [image    |-> tree,
   backedUp |-> {f \in list \ Protected : tree[f] # Absent},
   created  |-> {f \in list \ Protected : tree[f] = Absent}]

\* restoreApplyRollbackSnapshot: every saved file is written back and every
\* created one deleted; the paths in failed raised an error, which the code
\* collects without stopping.
Restore(tree, snap, failed) ==
  [f \in File |->
     IF f \in failed THEN tree[f]
     ELSE IF f \in snap.backedUp THEN snap.image[f]
     ELSE IF f \in snap.created THEN Absent
     ELSE tree[f]]

\* cleanupOrphanManagedFiles deletes the managed, unprotected files that the
\* package does not hold.
Orphans(list) == (Managed \ Protected) \ list
=============================================================================
