---------------------------- MODULE AtomicUpdate ----------------------------
(***************************************************************************)
(* What applying a source package promises, with everything of how it is   *)
(* done left out.  One apply at a time holds the right to change the       *)
(* workspace.  It ends in one of three ways: its whole package is          *)
(* installed in one step, the user cancels it, or it is given up; the last *)
(* two change no file.  Afterwards files that the installed package lacks  *)
(* are deleted one by one.                                                 *)
(*                                                                         *)
(* The promise holds until the first disturbance, which SourceApply names: *)
(* a session brought back from disk, the server stopping inside a commit,  *)
(* a file that could not be restored, a clean-up that met a later apply.   *)
(* From then on this specification asks for nothing.                       *)
(***************************************************************************)
CONSTANTS
  Session,  \* apply attempts, each bringing one package
  Base,     \* the source installed before the first apply
  File,     \* the paths an apply answers for
  Absent,   \* the content of a path where there is no file
  Managed,  \* paths that may be deleted when a package lacks them
  Pkg,      \* Pkg[s]: the files of the package of s
  NoOne     \* nobody holds the right to change the workspace

VARIABLES
  tree,       \* the workspace, as a failing commit would leave it
  installed,  \* the version installed last
  accepted,   \* the versions ever installed
  cancelled,  \* the sessions recorded as cancelled
  holder,     \* the session that may change the workspace, or NoOne
  sound       \* no disturbance so far

vars == <<tree, installed, accepted, cancelled, holder, sound>>

Init ==
  /\ tree = [f \in File |-> Base]
  /\ installed = Base
  /\ accepted = {Base}
  /\ cancelled = {}
  /\ holder = NoOne
  /\ sound = TRUE

\* A session is decided once: an answered one never comes back.
Begin(s) ==
  /\ holder = NoOne
  /\ s \notin accepted \cup cancelled
  /\ holder' = s
  /\ UNCHANGED <<tree, installed, accepted, cancelled, sound>>

GiveUp(s) ==
  /\ holder = s
  /\ holder' = NoOne
  /\ UNCHANGED <<tree, installed, accepted, cancelled, sound>>

Cancel(s) ==
  /\ holder = s
  /\ s \notin accepted
  /\ cancelled' = cancelled \cup {s}
  /\ holder' = NoOne
  /\ UNCHANGED <<tree, installed, accepted, sound>>

\* All files of the package appear at once.
Install(s) ==
  /\ holder = s
  /\ s \notin cancelled
  /\ tree' = [f \in File |-> IF f \in Pkg[s] THEN s ELSE tree[f]]
  /\ installed' = s
  /\ accepted' = accepted \cup {s}
  /\ holder' = NoOne
  /\ UNCHANGED <<cancelled, sound>>

\* No file of the installed package is ever trimmed.
Trim(f) ==
  /\ installed # Base
  /\ f \notin Pkg[installed]
  /\ tree' = [tree EXCEPT ![f] = Absent]
  /\ UNCHANGED <<installed, accepted, cancelled, holder, sound>>

Disturb == sound' = FALSE

Next ==
  \/ \E s \in Session : Begin(s) \/ GiveUp(s) \/ Cancel(s) \/ Install(s)
  \/ \E f \in Managed : Trim(f)
  \/ Disturb

Spec == Init /\ [][Next]_vars

-----------------------------------------------------------------------------
(* What follows from the promise *)

PackageOf(v) == IF v = Base THEN File ELSE Pkg[v]

\* The installed package is there whole; whatever else is there comes from a
\* package that was installed before it.
Whole ==
  sound =>
    /\ installed \in accepted
    /\ \A f \in File :
         IF f \in PackageOf(installed) THEN tree[f] = installed
         ELSE tree[f] \in accepted \cup {Absent}
=============================================================================
