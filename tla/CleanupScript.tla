------------------------------ MODULE CleanupScript ------------------------------
(***************************************************************************)
(* tools/cleanup/cleanup.sh: removes TrilioVault's custom resources, its   *)
(* manager and operator, and its CRDs from a cluster, as its options ask,  *)
(* while the operator's controllers go on and finalizers hold objects.     *)
(*                                                                         *)
(* Whatever is to go is removed in the same way: kubectl delete with five  *)
(* seconds of patience; if that reports an error, the finalizers are       *)
(* patched away and the object is looked for.  Each of these calls names   *)
(* its objects in one quoted argument, which is one name or is no name.    *)
(***************************************************************************)
EXTENDS Naturals, Sequences, FiniteSets

CONSTANTS
  Object,     \* [kind, ns, name, held, ours]: held by finalizers, matched by its grep
  Late,       \* those of them that are created while the script runs
  Ocp,        \* the cluster is OpenShift
  Arguments,  \* the command lines to look at, sequences of arguments
  MaxTrouble  \* bound: calls that fail without an object being the reason

\* The custom resources, in the order of the script's list, and those without namespace.
AllResources == <<"ClusterBackup", "Backup", "Target">>
Custom == {AllResources[n] : n \in DOMAIN AllResources}
NoNs == ""
OpenshiftNs == "openshift-operators"
Other == {"subscription", "clusterserviceversion", "triliovaultmanager", "cronjob",
          "manager release", "operator release"}
\* What Trilio's CRDs define, also what the list has not.  The other CRDs are of others.
Trilio == Custom \cup {"triliovaultmanager", "unlisted"}
Foreign == {"subscription", "clusterserviceversion", "stranger"}
Options == {"-n", "-c", "-t", "-r", "-h", "--other"}
IsOption(a) == a \in Options

ASSUME ScriptAssumption ==
  /\ \A o \in Object : /\ o.kind \in Trilio \cup Other \cup Foreign \cup {"crd"}
                       /\ o.kind = "crd" => /\ o.name \in Trilio \cup Foreign
                                            /\ o.ours <=> o.name \in Trilio
                       /\ o.kind = "ClusterBackup" => o.ns = NoNs
                       /\ o.kind \in {"subscription", "clusterserviceversion"} => o.ns = OpenshiftNs
                       /\ o.held \in BOOLEAN /\ o.ours \in BOOLEAN
                       /\ o.kind \in Trilio =>
                            \E c \in Object \ Late : c.kind = "crd" /\ c.name = o.kind
  /\ \A c, d \in Object : c.kind = "crd" /\ d.kind = "crd" /\ c.name = d.name => c = d
  /\ IsFiniteSet(Object)
  /\ Late \subseteq Object
  /\ Ocp \in BOOLEAN
  /\ Arguments \subseteq Seq(Options \cup Custom \cup {""})
  /\ MaxTrouble \in Nat

VARIABLES
  pc,        \* what the script does next
  args,      \* the arguments not yet read
  asked,     \* [silent, crd, tvm : BOOLEAN]: Non_interact, Delete_CRD, Delete_TVM
  resources, \* TVK_resources not yet visited, a sequence
  places,    \* namespaces of the loop in hand not yet visited
  place,     \* the namespace in hand
  batch,     \* objects of the loop in hand not yet visited
  target,    \* what the argument of delete, patch and get names
  back,      \* where the script goes on after the removal in hand
  failed,    \* CLEANUP_RUN_SUCCESS is, or will be, false
  exit,
  state,     \* of each object: "absent", "live", "terminating" or "gone"
  held,      \* objects with finalizers
  trouble,
  \* History, read by properties only:
  chosen,    \* the resources that were asked for
  unheard,   \* a call that reads failed, and the script went on
  refused,   \* objects whose removal was refused
  bunched    \* objects named together in one argument

vars == <<pc, args, asked, resources, places, place, batch, target, back, failed, exit, state, held,
          trouble, chosen, unheard, refused, bunched>>
options == <<args, asked, chosen>>
loops == <<resources, places, place, batch>>
cluster == <<state, held>>
history == <<unheard, refused, bunched>>
report == <<failed, exit>>

Init ==
  /\ pc = "options"
  /\ args \in Arguments
  /\ asked = [silent |-> FALSE, crd |-> FALSE, tvm |-> FALSE]
  /\ resources = <<>> /\ places = {} /\ place = NoNs /\ batch = {} /\ target = {}
  /\ back = "none" /\ failed = FALSE /\ exit = "none"
  /\ state = [o \in Object |-> IF o \in Late THEN "absent" ELSE "live"]
  /\ held = {o \in Object : o.held}
  /\ trouble = 0
  /\ chosen = {} /\ unheard = FALSE /\ refused = {} /\ bunched = {}

Trouble == trouble < MaxTrouble /\ trouble' = trouble + 1
There(o) == state[o] \in {"live", "terminating"}
Present(kind) == {o \in Object : o.kind = kind /\ There(o)}

-----------------------------------------------------------------------------
(* The options (214-286).                                                  *)

\* Mutant of Finish: the script ends without a status.
FinishSilently(verdict) == pc' = "done" /\ exit' = exit
Finish(verdict) == pc' = "done" /\ exit' = verdict

\* -r without a list is followed by nothing or by an option, which is read next.
Chosen ==
  IF Len(args) = 1 \/ IsOption(args[2]) THEN AllResources
  ELSE IF args[2] = "" THEN <<>> ELSE <<args[2]>>
Consumed ==
  IF args[1] = "-r" /\ Len(args) > 1 /\ ~IsOption(args[2]) THEN 2 ELSE 1

ReadOption ==
  /\ pc = "options"
  /\ args # <<>>
  /\ IF args[1] \notin {"-n", "-c", "-t", "-r"}
     THEN /\ Finish(IF args[1] = "-h" THEN "stopped" ELSE "failed")
          /\ UNCHANGED <<args, asked, resources, chosen>>
     ELSE /\ asked' = [silent |-> asked.silent \/ args[1] = "-n",
                       crd |-> asked.crd \/ args[1] = "-c", tvm |-> asked.tvm \/ args[1] = "-t"]
          /\ resources' = IF args[1] = "-r" THEN Chosen ELSE resources
          /\ chosen' = {resources'[n] : n \in DOMAIN resources'}
          /\ args' = SubSeq(args, Consumed + 1, Len(args))
          /\ UNCHANGED <<pc, exit>>
  /\ UNCHANGED <<places, place, batch, target, back, failed, cluster, trouble, history>>

\* What follows a part of the script: resources, manager and operator, CRDs.
\* Mutant of After: the CRDs come first.
AfterCrdsFirst(part) ==
  CASE part = "start"     -> IF asked.crd THEN "crds" ELSE "resources"
    [] part = "crds"      -> "resources"
    [] part = "resources" -> IF asked.tvm THEN "ocp" ELSE "report"
    [] OTHER              -> "report"
After(part) ==
  IF part = "start" THEN "resources"
  ELSE IF part = "resources" /\ asked.tvm THEN "ocp"
  ELSE IF part # "crds" /\ asked.crd THEN "crds" ELSE "report"

\* The user is asked, and may decline; then something must have been selected.
Start ==
  /\ pc = "options"
  /\ args = <<>>
  /\ \E yes \in {TRUE, asked.silent} :
       IF ~yes \/ (resources = <<>> /\ ~asked.tvm /\ ~asked.crd)
       THEN Finish("stopped") ELSE pc' = After("start") /\ UNCHANGED exit
  /\ UNCHANGED <<options, loops, target, back, failed, cluster, trouble, history>>

-----------------------------------------------------------------------------
(* One removal: delete, patch, get.                                        *)

Remove(S, next) == target' = S /\ back' = next /\ pc' = "delete"

\* A call names an object only if it names one.
Named == IF Cardinality(target) = 1 THEN target ELSE {}

\* What the API server does with a deletion; a CRD takes its instances along, and goes
\* when they have gone.
Instances(S) == {o \in Object : There(o) /\ \E c \in S : c.kind = "crd" /\ c.name = o.kind}
AfterDelete(S) ==
  [o \in Object |->
     IF ~There(o) \/ o \notin S \cup Instances(S) THEN state[o]
     ELSE IF o \in held \/ o.kind = "crd" THEN "terminating" ELSE "gone"]

\* An error leaves the object as it is; the script cannot tell why.
Delete ==
  /\ pc = "delete"
  /\ bunched' = IF Cardinality(target) > 1 THEN bunched \cup target ELSE bunched
  /\ \/ /\ \E o \in Named : There(o)
        /\ state' = AfterDelete(Named)
        /\ pc' = "wait"
        /\ UNCHANGED <<trouble, refused>>
     \/ /\ \A o \in Named : ~There(o)
        /\ pc' = "patch"
        /\ UNCHANGED <<state, trouble, refused>>
     \/ /\ Named # {} /\ Trouble
        /\ refused' = refused \cup Named
        /\ pc' = "patch"
        /\ UNCHANGED state
  /\ UNCHANGED <<options, loops, target, back, report, held, unheard>>

\* kubectl waits until the object has gone, or for five seconds.
Wait ==
  /\ pc = "wait"
  /\ pc' = IF \E o \in Named : There(o) THEN "patch" ELSE back
  /\ UNCHANGED <<options, loops, target, back, report, cluster, trouble, history>>

\* An object without finalizers goes if it was to be deleted, and lives on if not.
Patch ==
  /\ pc = "patch"
  /\ \/ /\ held' = held \ {o \in Named : There(o)}
        /\ state' = [o \in Object |->
             IF o \in Named /\ state[o] = "terminating" THEN "gone" ELSE state[o]]
        /\ UNCHANGED <<trouble, refused>>
     \/ /\ Named # {} /\ Trouble
        /\ refused' = refused \cup Named
        /\ UNCHANGED cluster
  /\ pc' = "look"
  /\ UNCHANGED <<options, loops, target, back, report, unheard, bunched>>

\* Only an object that kubectl get shows counts as not deleted.
\* Mutant of Failed: the status of the last removal is that of them all.
FailedLast(seen) == seen
Failed(seen) == failed \/ seen

\* Mutant of AfterLook: what is still there is tried again.
AgainAfterLook == IF \E o \in target : There(o) THEN "delete" ELSE back
AfterLook == back
Look ==
  /\ pc = "look"
  /\ \/ /\ failed' = Failed(\E o \in Named : There(o))
        /\ UNCHANGED <<trouble, unheard>>
     \/ /\ Trouble /\ unheard' = TRUE
        /\ failed' = Failed(FALSE)
  /\ pc' = AfterLook
  /\ UNCHANGED <<options, loops, target, back, exit, cluster, refused, bunched>>

-----------------------------------------------------------------------------
(* delete_tvk_res (19-52).                                                 *)

\* A listing tells what is there, or fails and tells nothing.
Listing(S, heard) ==
  \/ heard = S /\ UNCHANGED <<trouble, unheard>>
  \/ heard = {} /\ Trouble /\ unheard' = TRUE

\* The first column of the list of a kind without namespaces is the names.
FirstColumn(o) == IF o.ns = NoNs THEN o.name ELSE o.ns
NextResource ==
  /\ pc = "resources"
  /\ places = {} /\ batch = {}
  /\ IF resources = <<>>
     THEN /\ pc' = After("resources")
          /\ UNCHANGED <<resources, places, trouble, unheard>>
     ELSE /\ LET kind == Head(resources)
             IN \E heard \in SUBSET Present(kind) :
                  /\ Listing(Present(kind), heard)
                  /\ places' = {[kind |-> kind, ns |-> FirstColumn(o)] : o \in heard}
          /\ resources' = Tail(resources)
          /\ UNCHANGED pc
  /\ UNCHANGED <<options, place, batch, target, back, report, cluster, refused, bunched>>

\* kubectl ignores the namespace where there is none.
NextPlace ==
  /\ pc = "resources"
  /\ batch = {}
  /\ \E p \in places :
       /\ places' = places \ {p}
       /\ LET listed == {o \in Present(p.kind) : o.ns \in {p.ns, NoNs}}
          IN \E heard \in SUBSET listed : Listing(listed, heard) /\ batch' = heard
  /\ UNCHANGED <<pc, options, resources, place, target, back, report, cluster, refused, bunched>>

NextName ==
  /\ pc = "resources"
  /\ \E o \in batch : batch' = batch \ {o} /\ Remove({o}, "resources")
  /\ UNCHANGED <<options, resources, places, place, report, cluster, trouble, history>>

-----------------------------------------------------------------------------
(* delete_tvk_op (54-165).                                                 *)

\* triliovaultmanagers are listed without a grep (105).
Matched(o) == o.ours \/ o.kind = "triliovaultmanager"

\* Mutant of Ours: the names are not matched.
OursUnmatched(kind, ns) == {o \in Present(kind) : o.ns = ns}
Ours(kind, ns) == {o \in Present(kind) : o.ns = ns /\ Matched(o)}

\* No answer about openshift.io is taken for another cluster.
CheckOcp ==
  /\ pc = "ocp"
  /\ \E heard \in SUBSET {Ocp} :
       /\ Listing({Ocp}, heard)
       /\ pc' = IF TRUE \in heard THEN "subscription" ELSE "helm"
  /\ UNCHANGED <<options, loops, target, back, report, cluster, refused, bunched>>

\* Whatever a listing names goes into one argument; with nothing named there is
\* nothing to do, except for triliovaultmanager (105-119), where the calls fail.
Sweep(here, kind, ns, next) ==
  /\ pc = here
  /\ \E heard \in SUBSET Ours(kind, ns) :
       /\ Listing(Ours(kind, ns), heard)
       /\ IF heard = {} /\ kind # "triliovaultmanager"
          THEN pc' = next /\ UNCHANGED <<target, back>> ELSE Remove(heard, next)
  /\ UNCHANGED <<options, loops, report, cluster, refused, bunched>>

Subscription == Sweep("subscription", "subscription", OpenshiftNs, "csv")
Csv == Sweep("csv", "clusterserviceversion", OpenshiftNs, "helm")

Releases == {"manager release", "operator release"}

\* helm list -A
HelmList ==
  /\ pc = "helm"
  /\ LET spaces == {o.ns : o \in UNION {Present(k) : k \in Releases}}
     IN \E heard \in SUBSET spaces : Listing(spaces, heard) /\ places' = heard
  /\ pc' = "namespaces"
  /\ UNCHANGED <<options, resources, place, batch, target, back, report, cluster, refused, bunched>>

NextNamespace ==
  /\ pc = "namespaces"
  /\ IF places = {} THEN pc' = After("operator") /\ UNCHANGED <<places, place>>
     ELSE \E p \in places : place' = p /\ places' = places \ {p} /\ pc' = "manager"
  /\ UNCHANGED <<options, resources, batch, target, back, report, cluster, trouble, history>>

Manager == Sweep("manager", "triliovaultmanager", place, "uninstall manager")
Cron == Sweep("cronjob", "cronjob", place, "namespaces")

\* helm uninstall, of one release; several in one argument are none.
Uninstall(here, kind, next) ==
  /\ pc = here
  /\ \E heard \in SUBSET Ours(kind, place) :
       /\ \/ Listing(Ours(kind, place), heard) /\ UNCHANGED refused
          \/ heard = Ours(kind, place) /\ Trouble /\ refused' = refused \cup heard /\ UNCHANGED unheard
       /\ LET done == Cardinality(heard) = 1 /\ heard \cap refused' = {}
          IN /\ state' = [o \in Object |-> IF done /\ o \in heard THEN "gone" ELSE state[o]]
             /\ failed' = Failed(heard # {} /\ ~done)
       /\ bunched' = IF Cardinality(heard) > 1 THEN bunched \cup heard ELSE bunched
  /\ pc' = next
  /\ UNCHANGED <<options, loops, target, back, exit, held>>

UninstallManager == Uninstall("uninstall manager", "manager release", "uninstall operator")
UninstallOperator == Uninstall("uninstall operator", "operator release", "cronjob")

-----------------------------------------------------------------------------
(* delete_tvk_crd (167-191), and the report (325-331).                     *)

ListCrds ==
  /\ pc = "crds"
  /\ LET listed == {c \in Present("crd") : c.ours}
     IN \E heard \in SUBSET listed : Listing(listed, heard) /\ batch' = heard
  /\ pc' = "crd"
  /\ UNCHANGED <<options, resources, places, place, target, back, report, cluster, refused, bunched>>

NextCrd ==
  /\ pc = "crd"
  /\ IF batch = {} THEN pc' = After("crds") /\ UNCHANGED <<batch, target, back>>
     ELSE \E c \in batch : batch' = batch \ {c} /\ Remove({c}, "crd")
  /\ UNCHANGED <<options, resources, places, place, report, cluster, trouble, history>>

Report ==
  /\ pc = "report"
  /\ Finish(IF failed THEN "failed" ELSE "ok")
  /\ UNCHANGED <<options, loops, target, back, failed, cluster, trouble, history>>

Script ==
  \/ ReadOption \/ Start
  \/ Delete \/ Wait \/ Patch \/ Look
  \/ NextResource \/ NextPlace \/ NextName
  \/ CheckOcp \/ Subscription \/ Csv \/ HelmList \/ NextNamespace \/ Manager \/ UninstallManager
  \/ UninstallOperator \/ Cron
  \/ ListCrds \/ NextCrd \/ Report

-----------------------------------------------------------------------------
(* The cluster.                                                            *)

script == <<pc, options, loops, target, back, report, trouble, history>>

\* Controllers that run finish what is terminating; the API server finishes a CRD
\* without instances.
Controllers == Present("manager release") \cup Present("clusterserviceversion") # {}
Finalize(o) ==
  /\ state[o] = "terminating"
  /\ IF o.kind = "crd" THEN Instances({o}) = {} ELSE Controllers
  /\ state' = [state EXCEPT ![o] = "gone"]
  /\ UNCHANGED <<script, held>>

\* A scheduled backup, say.
Create(o) ==
  /\ state[o] = "absent"
  /\ \E c \in Object : c.kind = "crd" /\ c.name = o.kind /\ state[c] = "live"
  /\ state' = [state EXCEPT ![o] = "live"]
  /\ UNCHANGED <<script, held>>

Cluster == \E o \in Object : Finalize(o) \/ Create(o)

Next == Script \/ Cluster

\* Every call of the script returns: the waits for deletions are limited to five
\* seconds.  Nothing is assumed of the controllers.
Spec == Init /\ [][Next]_vars /\ WF_vars(Script)

-----------------------------------------------------------------------------
(* Properties.                                                             *)

TypeOK ==
  /\ pc \in {"options", "resources", "delete", "wait", "patch", "look", "ocp", "subscription", "csv",
             "helm", "namespaces", "manager", "uninstall manager", "uninstall operator", "cronjob",
             "crds", "crd", "report", "done"}
  /\ asked \in [silent : BOOLEAN, crd : BOOLEAN, tvm : BOOLEAN]
  /\ chosen \subseteq Custom
  /\ batch \subseteq Object /\ target \subseteq Object
  /\ failed \in BOOLEAN /\ exit \in {"none", "stopped", "ok", "failed"}
  /\ state \in [Object -> {"absent", "live", "terminating", "gone"}]
  /\ held \subseteq Object
  /\ trouble \in 0 .. MaxTrouble
  /\ (exit = "none") = (pc # "done")

\* What may be removed: the resources of -r; with -t what belongs to the operator, and
\* all managers of a namespace; with -c Trilio's CRDs, and whatever they define, also
\* managers, for which -t need not be given, and what no list of the script names.
Removable(o) ==
  \/ o.kind \in chosen
  \/ asked.tvm /\ o.kind \in Other /\ Matched(o)
  \/ asked.crd /\ (o.kind \in Trilio \/ (o.kind = "crd" /\ o.ours))

\* "Cleanup completed successfully!!" is true: what was asked for and was there when
\* the script began is gone, also what came to be terminating, unless a call that
\* lists or looks failed, or several names went into one argument, which is in
\* neither case noticed.  What helm does not list, and its namespace, is not asked for.
Followed(o) ==
  \/ o.kind \in chosen
  \/ asked.tvm /\ Matched(o) /\
       IF o.kind \in {"subscription", "clusterserviceversion"} THEN Ocp
       ELSE o.kind \in Other /\ \E r \in Object \ Late : r.kind \in Releases /\ r.ns = o.ns
  \/ asked.crd /\ o.kind = "crd" /\ o.ours
SuccessMeansGone ==
  exit = "ok" /\ ~unheard =>
    \A o \in Object \ Late : Followed(o) => state[o] = "gone" \/ o \in bunched

\* What nobody asked for keeps its state and its finalizers, somebody else's CRDs and
\* their instances included, and a script that was stopped, by the user or by its
\* options, has touched nothing.
NotAskedUntouched ==
  \A o \in Object :
    state[o] \in {"terminating", "gone"} \/ (o.held /\ o \notin held) =>
      Removable(o) /\ exit # "stopped"

\* An instance is left behind by its CRD, out of anyone's reach, only when finalizers
\* hold it that the script did not get to remove: it was not among what the script
\* removes before the CRDs, it came later, or a call for it failed or named others too.
OrphansExplained ==
  \A o \in Object, c \in Object :
    c.kind = "crd" /\ c.name = o.kind /\ state[c] = "gone" /\ There(o) =>
      /\ o \in held /\ state[o] = "terminating"
      /\ ~Followed(o) \/ o \in Late \/ unheard \/ o \in refused \/ o \in bunched

\* The script ends, also when nothing that it deletes ever goes, because each of its
\* loops runs over a list made once.
ScriptEnds == <>(pc = "done")
=============================================================================
