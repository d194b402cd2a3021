---------------------------- MODULE CleanupPromise ----------------------------
(***************************************************************************)
(* What `preflight cleanup` promises, with no lists, finalizers or API     *)
(* calls: an invocation owes the deletion of every object in scope that    *)
(* was there when it began, and answers "success" only when all of them    *)
(* are on their way out or gone.  Condemned objects never come back.       *)
(***************************************************************************)
CONSTANTS
  Object,
  Scope,          \* the objects the command is for
  Initially       \* those that are there from the start

VARIABLES
  there,          \* exist and have not been deleted by anyone
  condemned,      \* deleted: terminating or gone
  owed,           \* what the current invocation has to have condemned
  answer          \* idle, running, or the answer of the last invocation

vars == <<there, condemned, owed, answer>>

Init ==
  /\ there = Initially
  /\ condemned = {}
  /\ owed = {}
  /\ answer = "idle"

Appear(o) ==
  /\ o \notin there \cup condemned
  /\ there' = there \cup {o}
  /\ UNCHANGED <<condemned, owed, answer>>

Condemn(o) ==
  /\ o \in there
  /\ there' = there \ {o}
  /\ condemned' = condemned \cup {o}
  /\ UNCHANGED <<owed, answer>>

Begin ==
  /\ answer = "idle"
  /\ answer' = "running"
  /\ owed' = Scope \cap there
  /\ UNCHANGED <<there, condemned>>

Succeed ==
  /\ answer = "running"
  /\ owed \cap there = {}
  /\ answer' = "success"
  /\ UNCHANGED <<there, condemned, owed>>

\* An invocation may fail, or die, at any point, even as it begins.
Fail ==
  /\ \/ answer = "running" /\ UNCHANGED owed
     \/ answer = "idle" /\ owed' = Scope \cap there
  /\ answer' = "failure"
  /\ UNCHANGED <<there, condemned>>

\* Only a failed invocation is repeated.
Again ==
  /\ answer = "failure"
  /\ answer' = "idle"
  /\ UNCHANGED <<there, condemned, owed>>

Next ==
  \/ \E o \in Object : Appear(o) \/ Condemn(o)
  \/ Begin
  \/ Succeed
  \/ Fail
  \/ Again

Spec == Init /\ [][Next]_vars
=============================================================================
