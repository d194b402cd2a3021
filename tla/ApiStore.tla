------------------------------ MODULE ApiStore ------------------------------
(***************************************************************************)
(* The Kubernetes API server, as tools/preflight uses it through           *)
(* controller-runtime: named objects that are created, acquire and lose    *)
(* finalizers, and disappear in two steps.  Nothing here is code of this   *)
(* repository; every operator is what one request, or one controller, does *)
(* to the stored object.                                                   *)
(*                                                                         *)
(* An object keeps its labels and its namespace for life, so they are a    *)
(* constant (Meta); an object whose name is reused is another Object.      *)
(***************************************************************************)
EXTENDS FiniteSets

CONSTANTS
  Object,       \* every object that exists at some time
  Finalizer,    \* the finalizers controllers put on objects
  Namespaces,   \* namespace names
  Uid,          \* values of the label preflight-run
  NoUid,        \* the label is absent
  Meta,         \* kind, namespace and labels of each object
  Preexisting   \* the objects that are there from the start

Kind == {"VolumeSnapshot", "PersistentVolumeClaim", "Pod", "Namespace"}

\* ns of a Namespace object is its own name; backup says that the name has
\* the prefix preflight-backup-ns-; trilio that it is labelled tvk-preflight.
MetaRecord == [kind : Kind, ns : Namespaces, trilio : BOOLEAN,
               run : Uid \cup {NoUid}, backup : BOOLEAN]

ASSUME StoreAssumption ==
  /\ Meta \in [Object -> MetaRecord]
  /\ Preexisting \subseteq Object
  /\ NoUid \notin Uid

VARIABLES
  phase,   \* where each object is in its life
  fins     \* metadata.finalizers of each object

storeVars == <<phase, fins>>

(***************************************************************************)
(* unborn      never created                                               *)
(* live        stored, no deletionTimestamp                                *)
(* draining    deletionTimestamp set; a pod in its grace period, or a      *)
(*             namespace that the namespace controller is still emptying   *)
(* finalizing  deletionTimestamp set; kept only by metadata.finalizers     *)
(* gone        no longer stored                                            *)
(***************************************************************************)
Phase == {"unborn", "live", "draining", "finalizing", "gone"}

StoreTypeOK ==
  /\ phase \in [Object -> Phase]
  /\ fins \in [Object -> SUBSET Finalizer]

Stored(o) == phase[o] \in {"live", "draining", "finalizing"}
Terminating(o) == phase[o] \in {"draining", "finalizing"}
Contents(n) == {o \in Object : Meta[o].kind # "Namespace" /\ Meta[o].ns = Meta[n].ns}

\* Admission puts kubernetes.io/pvc-protection on every claim.
BornWith(o) ==
  IF Meta[o].kind = "PersistentVolumeClaim" THEN (SUBSET Finalizer) \ {{}}
  ELSE SUBSET Finalizer

StoreInit ==
  /\ phase = [o \in Object |-> IF o \in Preexisting THEN "live" ELSE "unborn"]
  /\ fins \in [Object -> SUBSET Finalizer]
  /\ \A o \in Object : fins[o] \in IF o \in Preexisting THEN BornWith(o) ELSE {{}}

-----------------------------------------------------------------------------
(* Requests.                                                               *)

\* A scheduled pod gets its grace period, an unscheduled one does not; a
\* namespace always waits for its controller (spec.finalizers).
Graceful(o) ==
  IF Meta[o].kind = "Namespace" THEN {TRUE}
  ELSE IF Meta[o].kind = "Pod" THEN BOOLEAN
  ELSE {FALSE}

\* The phase a DELETE leaves behind: deleting what is already terminating
\* changes nothing.
DeletedPhase(o, graceful) ==
  IF phase[o] # "live" THEN phase[o]
  ELSE IF graceful THEN "draining"
  ELSE IF fins[o] = {} THEN "gone"
  ELSE "finalizing"

ApiDelete(o) ==
  /\ \E g \in Graceful(o) : phase' = [phase EXCEPT ![o] = DeletedPhase(o, g)]
  /\ UNCHANGED fins

\* Dropping finalizers removes an object that nothing else holds.
DropFinalizers(o, F) ==
  /\ fins' = [fins EXCEPT ![o] = @ \ F]
  /\ phase' = [phase EXCEPT ![o] = IF @ = "finalizing" /\ fins[o] \subseteq F
                                   THEN "gone" ELSE @]

-----------------------------------------------------------------------------
(* Everybody else: other runs, users and controllers.                      *)

\* Nothing can be created in a namespace that is going away.
NsAccepts(o) ==
  \A n \in Object :
     Meta[n].kind = "Namespace" /\ o \in Contents(n) => phase[n] = "live"

Create(o) ==
  /\ phase[o] = "unborn"
  /\ NsAccepts(o)
  /\ phase' = [phase EXCEPT ![o] = "live"]
  /\ \E F \in BornWith(o) : fins' = [fins EXCEPT ![o] = F]

\* The API server refuses new finalizers on a terminating object.
AddFinalizer(o, f) ==
  /\ phase[o] = "live"
  /\ f \notin fins[o]
  /\ fins' = [fins EXCEPT ![o] = @ \cup {f}]
  /\ UNCHANGED phase

\* The finalizer's owner has done its work.
OwnerRemoves(o, f) ==
  /\ Stored(o)
  /\ f \in fins[o]
  /\ DropFinalizers(o, {f})

OtherDelete(o) ==
  /\ phase[o] = "live"
  /\ ApiDelete(o)

\* The kubelet has stopped the pod; the namespace controller has emptied
\* the namespace.
Drained(o) ==
  /\ phase[o] = "draining"
  /\ Meta[o].kind = "Namespace" => \A c \in Contents(o) : ~Stored(c)
  /\ phase' = [phase EXCEPT ![o] = IF fins[o] = {} THEN "gone" ELSE "finalizing"]
  /\ UNCHANGED fins

\* The namespace controller deletes what a terminating namespace holds.
EmptyNamespace(n, o) ==
  /\ Meta[n].kind = "Namespace"
  /\ phase[n] = "draining"
  /\ o \in Contents(n)
  /\ OtherDelete(o)

Others ==
  \E o \in Object :
    \/ Create(o)
    \/ OtherDelete(o)
    \/ Drained(o)
    \/ \E f \in Finalizer : AddFinalizer(o, f) \/ OwnerRemoves(o, f)
=============================================================================
