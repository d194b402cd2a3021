-------------------------- MODULE CollectionPromise --------------------------
(***************************************************************************)
(* What the log collector promises about the directory it fills, with no   *)
(* groups, lists, filters or API calls: what is asked for is fixed at the  *)
(* start; files are only of what is in scope or comes along with something *)
(* already collected; a file that is there stays, or is replaced by one of *)
(* the same name; "ok" is reported only when nothing that is owed is       *)
(* missing.  What vanished or could not be read is lost, and not owed.     *)
(***************************************************************************)
CONSTANTS
  Object,
  File,       \* the name of an object's file: two objects may share one
  Leads       \* what comes along with an object: the claims of a pod, a claim's volume

VARIABLES
  wanted,     \* what was asked for and is promised
  scope,      \* what may be collected for its own sake
  bundle,     \* the objects that have files
  lost,       \* vanished, or hidden by a call that failed
  answer      \* none, or how the command ended

vars == <<wanted, scope, bundle, lost, answer>>

Init ==
  /\ scope \in SUBSET Object
  /\ wanted \in SUBSET scope
  /\ bundle = {}
  /\ lost = {}
  /\ answer = "none"

Along == UNION {Leads[o] : o \in bundle}
Files(objects) == {File[o] : o \in objects}

\* Files are written, none, one or several, and some objects get lost meanwhile.
Gather ==
  /\ answer = "none"
  /\ bundle' \in SUBSET Object
  /\ bundle' \ bundle \subseteq scope \cup Along
  /\ Files(bundle) \subseteq Files(bundle')
  /\ lost' \in SUBSET Object
  /\ lost \subseteq lost'
  /\ UNCHANGED <<wanted, scope>>

Collect == Gather /\ UNCHANGED answer

\* The collector finds out that it is on OpenShift, before it has written anything.
Widen ==
  /\ answer = "none"
  /\ bundle = {}
  /\ scope' \in SUBSET Object
  /\ scope \subseteq scope'
  /\ UNCHANGED <<wanted, bundle, lost, answer>>

Succeed ==
  /\ answer = "none"
  /\ \A o \in (wanted \cup Along) \ lost : File[o] \in Files(bundle)
  /\ answer' = "ok"
  /\ UNCHANGED <<wanted, scope, bundle, lost>>

\* The run may end at any point, in the middle of its files.
Fail ==
  /\ Gather
  /\ answer' \in {"failed", "panicked"}

Next == Collect \/ Widen \/ Succeed \/ Fail

Spec == Init /\ [][Next]_vars
=============================================================================
