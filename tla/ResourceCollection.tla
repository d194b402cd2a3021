-------------------------- MODULE ResourceCollection --------------------------
(***************************************************************************)
(* What the log collector collects (tools/log-collector/log_collector.go:  *)
(* 108-270, 470-1018 and helper.go:72-415): the API groups are visited in  *)
(* the order of a Go map, each resource is listed and filtered, the objects*)
(* are written as YAML, and then the claims of the collected pods, their   *)
(* volumes and the events follow.  LogBundle has the pods' logs and the    *)
(* archive.                                                                *)
(*                                                                         *)
(* The cluster goes on while the collector reads it: objects vanish between*)
(* two calls, and a call that fails is in most places only a warning.      *)
(***************************************************************************)
EXTENDS Naturals, Sequences

CONSTANTS
  Resources,   \* what can be listed, a sequence of [gv, kind, namespaced]
  Object,      \* the objects of the cluster at the start
  Event,       \* [about : Object, nr : a number], the events of objects
  Settings,    \* [clustered, namespaces, gvks, selectors], what users may ask for
  Clusters,    \* [openshift : BOOLEAN, home : namespace with the trilio-label]
  MaxTrouble   \* bound: steps in which calls fail, and objects that vanish

Core == "v1"
Trilio == "triliovault.trilio.io/v1"
OcpConfig == "config.openshift.io/v1"
OcpOperator == "operator.openshift.io/v1"
Networking == "networking.k8s.io/v1"   \* NetworkPolicyAPIVersion
OCPConfigNs == "openshift-ingress-operator"
NoNs == ""       \* of a cluster-scoped object; in a list call: all namespaces
DefaultNs == "default"

nonLabeledResources ==
  {"ResourceQuota", "LimitRange", "VolumeSnapshot", "Node", "StorageClass", "VolumeSnapshotClass"}
excludeResources == {"Secret", "PackageManifest"}
TvkLabels == {"app.kubernetes.io/part-of"} \X
             {"k8s-triliovault", "k8s-triliovault-operator", "tvk-console-plugin"}

Resource == {Resources[i] : i \in DOMAIN Resources}
Groups == {r.gv : r \in Resource}
Kinds == {r.kind : r \in Resource}
Spaces == {o.ns : o \in Object} \cup {OCPConfigNs}
Names == {o.name : o \in Object}

\* labels: pairs of key and value.  ours: named as Trilio's (a CRD by its group,
\* a CSV or Subscription by its name), owned by Trilio's CSV or Subscription, or
\* labelled as its webhook.  claims: a pod's; pv: the volume of a claim.
\* holds: where it keeps an NFS server or a licence key, in its spec (a volume in
\* spec.nfs) or in an annotation that repeats the spec, as kubectl apply leaves it.
Parts == {"spec", "annotations"}
ASSUME CollectionAssumption ==
  /\ DOMAIN Resources \subseteq Nat
  /\ \A r \in Resource : r.namespaced \in BOOLEAN
  /\ \A r \in Resource : r.kind = "NetworkPolicy" => r.namespaced
  /\ \A q, r \in Resource : q.gv = r.gv /\ q.kind = r.kind => q = r
  /\ \A i, j \in DOMAIN Resources : Resources[i] = Resources[j] => i = j
  /\ \A o \in Object :
       /\ [gv |-> o.gv, kind |-> o.kind, namespaced |-> o.ns # NoNs] \in Resource
       /\ o.ours \in {"no", "named", "owned", "webhook"}
       /\ o.holds \subseteq Parts
       /\ o.kind \in {"Pod", "PersistentVolumeClaim", "PersistentVolume"} => o.gv = Core
       /\ o.kind \in {"Pod", "PersistentVolumeClaim"} => o.ns # NoNs
       /\ o.kind = "License" => o.gv = Trilio
       /\ o.kind # "Event"
       /\ o.kind \in {"Namespace", "PersistentVolume"} => o.ns = NoNs
  /\ \A o, p \in Object :
       o.gv = p.gv /\ o.kind = p.kind /\ o.ns = p.ns /\ o.name = p.name => o = p
  /\ \A e \in Event : e.about \in Object
  /\ \A s \in Settings : NoNs \notin s.namespaces /\ s.clustered \in BOOLEAN
  /\ \A c \in Clusters : c.openshift \in BOOLEAN
  /\ MaxTrouble \in Nat

VARIABLES
  pc,        \* what comes next
  settings,  \* what the user asked for
  cluster,   \* what the cluster is
  spaces,    \* l.Namespaces, which grows on OpenShift
  home,      \* l.InstallNamespace
  shift,     \* isOpenShift
  groups,    \* groups not yet visited
  left,      \* resources of the group in hand not yet visited, by number
  res,       \* the resource in hand, from its first list to its files
  found,     \* resObjects
  names,     \* resourceMapList: what the events are matched with, by kind
  pods,      \* collectedPods
  claims,    \* l.collectedPVCs
  volumes,   \* pvNames: volumes still to be fetched
  files,     \* the YAML files: [object, shows], the parts of holds that can be read in it
  notes,     \* the event files
  exit,      \* what the command reports
  present,   \* objects that are still there
  trouble,   \* steps in which calls failed, and objects that vanished
  \* History, read by properties only:
  filed,     \* objects that had a file at some time
  missed,    \* objects that a call would have returned, had it not failed
  unheard    \* the events could not be listed, in some namespace

vars == <<pc, settings, cluster, spaces, home, shift, groups, left, res, found, names, pods,
          claims, volumes, files, notes, exit, present, trouble, filed, missed, unheard>>
world == <<settings, cluster>>
view == <<spaces, home, shift>>
gathered == <<pods, claims, volumes>>

Clustered == settings.clustered
NoResource == [gv |-> "none", kind |-> "none", namespaced |-> FALSE]
Id(o) == <<o.ns, o.name>>
Of(r) == {o \in Object : o.gv = r.gv /\ o.kind = r.kind}

Init ==
  /\ pc = "namespaces"
  /\ settings \in Settings /\ cluster \in Clusters
  /\ spaces = settings.namespaces /\ home = NoNs /\ shift = FALSE
  /\ groups = {} /\ left = {} /\ res = NoResource /\ found = {}
  /\ names = [k \in Kinds |-> {}]
  /\ pods = {} /\ claims = {} /\ volumes = {}
  /\ files = {} /\ filed = {} /\ notes = {}
  /\ exit = "none"
  /\ present = Object
  /\ trouble = 0 /\ missed = {} /\ unheard = FALSE

Trouble == trouble < MaxTrouble /\ trouble' = trouble + 1
\* Mutant of Stop: the error is not returned.
StopSilently(verdict) == pc' = "done" /\ exit' = exit
Stop(verdict) == pc' = "done" /\ exit' = verdict

-----------------------------------------------------------------------------
(* Labels (helper.go:231-317).                                             *)

\* checkLabelExist, with each of the three labels in turn.
HasTvkLabel(o) == o.labels \cap TvkLabels # {}

\* labels.NewRequirement refuses a requirement that it does not understand.
Invalid(x) ==
  \/ x.operator \notin {"In", "NotIn", "Exists", "DoesNotExist"}
  \/ x.operator \in {"In", "NotIn"} /\ x.values = {}
  \/ x.operator \in {"Exists", "DoesNotExist"} /\ x.values # {}

Holds(x, labels) ==
  LET values == {l[2] : l \in {l \in labels : l[1] = x.key}}
  IN CASE x.operator = "In"           -> values \cap x.values # {}
       [] x.operator = "NotIn"        -> values \cap x.values = {}
       [] x.operator = "Exists"       -> values # {}
       [] x.operator = "DoesNotExist" -> values = {}
       [] OTHER                       -> FALSE

Satisfies(s, labels) ==
  s.labels \subseteq labels /\ \A i \in DOMAIN s.exprs : Holds(s.exprs[i], labels)

MatchLabelSelectors(labels) ==
  \E i \in DOMAIN settings.selectors : Satisfies(settings.selectors[i], labels)

\* The nil requirement that NewRequirement returned is asked for a match.
Panics(o) ==
  /\ o.labels # {} /\ ~HasTvkLabel(o)
  /\ \E i \in DOMAIN settings.selectors :
       /\ \A h \in 1 .. (i - 1) : ~Satisfies(settings.selectors[h], o.labels)
       /\ LET s == settings.selectors[i]
          IN /\ s.labels \subseteq o.labels
             /\ \E j \in DOMAIN s.exprs :
                  /\ Invalid(s.exprs[j])
                  /\ \A h \in 1 .. (j - 1) : Holds(s.exprs[h], o.labels)

\* filterTvkResourcesByLabel, for one object.
LabelMatched(o) == HasTvkLabel(o) \/ (o.labels # {} /\ MatchLabelSelectors(o.labels))

-----------------------------------------------------------------------------
(* Before the groups.                                                      *)

\* checkIfNamespacesExist.
CheckNamespaces ==
  /\ pc = "namespaces"
  /\ \A n \in spaces : \E o \in present : o.kind = "Namespace" /\ o.name = n
  /\ home' = cluster.home
  /\ pc' = "discover"
  /\ UNCHANGED <<world, spaces, shift, groups, left, res, found, names, gathered, files, filed, notes,
                 exit, present, trouble, missed, unheard>>

NamespaceUnknown ==
  /\ pc = "namespaces"
  /\ \/ Trouble /\ UNCHANGED home
     \/ /\ \E n \in spaces : ~\E o \in present : o.kind = "Namespace" /\ o.name = n
        /\ home' = cluster.home
        /\ UNCHANGED trouble
  /\ Stop("failed")
  /\ UNCHANGED <<world, spaces, shift, groups, left, res, found, names, gathered, files, filed, notes,
                 present, missed, unheard>>

\* getAPIResourceList: groups whose aggregated API fails are left out with a
\* warning.  The core group is not aggregated.
Discover ==
  /\ pc = "discover"
  /\ \E lost \in SUBSET (Groups \ {Core}) :
       /\ IF lost = {} THEN UNCHANGED trouble ELSE Trouble
       /\ groups' = Groups \ lost
       /\ missed' = missed \cup {o \in Object : o.gv \in lost}
  /\ pc' = "openshift"
  /\ UNCHANGED <<world, view, left, res, found, names, gathered, files, filed, notes, exit, present, unheard>>

DiscoverFails ==
  /\ pc = "discover"
  /\ Trouble
  /\ Stop("failed")
  /\ UNCHANGED <<world, view, groups, left, res, found, names, gathered, files, filed, notes, present,
                 missed, unheard>>

\* CheckIsOpenshift: only "not found" means no.
AskOpenShift ==
  /\ pc = "openshift"
  /\ \/ shift' = cluster.openshift /\ UNCHANGED trouble
     \/ shift' = TRUE /\ Trouble
  /\ pc' = "group"
  /\ UNCHANGED <<world, spaces, home, groups, left, res, found, names, gathered, files, filed, notes, exit,
                 present, missed, unheard>>

-----------------------------------------------------------------------------
(* One resource (filteringResources, filterResourceObjects and what they   *)
(* call).                                                                  *)

\* getResourceObjects: one call for every namespace, or one for all.
Calls(r, where) == IF r.namespaced /\ ~Clustered THEN where ELSE {NoNs}
Reaches(call, o) == call \in {o.ns, NoNs}
Answer(r, call) == {o \in Of(r) : Reaches(call, o)}

\* Calls that fail are passed over, with a warning at most.
Lists(r, where, failed, kept) ==
  LET asked == {o \in kept : \E c \in Calls(r, where) : Reaches(c, o)}
      heard == {o \in asked : \E c \in Calls(r, where) \ failed : Reaches(c, o)}
  IN /\ IF failed = {} THEN UNCHANGED trouble ELSE Trouble
     /\ found' = found \cup (heard \cap present)
     /\ missed' = missed \cup (asked \ heard)

\* Mutant of ApplicationClaim: once labels are given, Trilio's own claims have
\* to match them as well.
ApplicationClaimByLabel(o) ==
  \/ ~Clustered /\ settings.selectors = <<>>
  \/ o.labels # {} /\ settings.selectors # <<>> /\ MatchLabelSelectors(o.labels)
  \/ Clustered /\ settings.selectors = <<>>

\* filterApplicationPVCs, for one claim.
ApplicationClaim(o) ==
  \/ ~Clustered /\ settings.selectors = <<>>
  \/ HasTvkLabel(o)
  \/ o.labels # {} /\ settings.selectors # <<>> /\ MatchLabelSelectors(o.labels)
  \/ Clustered /\ settings.selectors = <<>>

IsClaim(r) == r.kind = "PersistentVolumeClaim"

\* Mutant of IsListed: the exclusion binds to the cluster-scoped kinds only.
IsListedUnexcluded(r) ==
  \/ r.kind \in nonLabeledResources
  \/ r.kind \in {"CustomResourceDefinition", "Namespace", "ClusterServiceVersion"}
  \/ IsClaim(r)
  \/ r.namespaced \/ (Clustered /\ r.kind \notin excludeResources)

\* The kinds that filterResourceObjects lists at all.
IsListed(r) ==
  \/ r.kind \in nonLabeledResources
  \/ r.kind \in {"CustomResourceDefinition", "Namespace", "ClusterServiceVersion"}
  \/ IsClaim(r)
  \/ (r.namespaced \/ Clustered) /\ r.kind \notin excludeResources

\* Whether labels decide.
IsLabelled(r) ==
  /\ IsListed(r)
  /\ r.kind \notin nonLabeledResources
  /\ r.kind \notin {"CustomResourceDefinition", "Namespace", "ClusterServiceVersion"}

Kept(r, o) ==
  CASE r.kind \in nonLabeledResources -> TRUE
    [] r.kind \in {"CustomResourceDefinition", "ClusterServiceVersion"} -> o.ours = "named"
    [] r.kind = "Namespace" -> Clustered \/ o.name \in spaces
    [] IsClaim(r) -> ApplicationClaim(o)
    [] OTHER -> LabelMatched(o)

\* The steps of a resource, in their order, and which of them it has.
IsAskedFor(r) == r \in settings.gvks
AfterOcp(r) == IF r.kind = "NetworkPolicy" THEN "policy" ELSE "write"
AfterGvk(r) == IF shift THEN "ocp" ELSE AfterOcp(r)
AfterFilter(r) == IF IsAskedFor(r) THEN "gvk" ELSE AfterGvk(r)

\* The next group, in the order of a Go map.
NextGroup ==
  /\ pc = "group"
  /\ \E g \in groups :
       /\ groups' = groups \ {g}
       /\ left' = {i \in DOMAIN Resources : Resources[i].gv = g}
       /\ pc' = IF g = Trilio THEN "trilio" ELSE "resource"
  /\ UNCHANGED <<world, view, res, found, names, gathered, files, filed, notes, exit, present, trouble,
                 missed, unheard>>

\* The resources of a group come in the server's order.
IsNext(i) == i \in left /\ \A j \in left : i <= j
Take(r) == \E i \in left : IsNext(i) /\ r = Resources[i] /\ left' = left \ {i}

\* The events resource is only remembered.
RememberEvents ==
  /\ pc = "resource"
  /\ \E r \in Resource : Take(r) /\ r.kind = "Event"
  /\ UNCHANGED <<world, view, pc, groups, res, found, names, gathered, files, filed, notes, exit, present,
                 trouble, missed, unheard>>

\* Objects of an answer whose labels cannot be judged.
Unjudged(r, calls) ==
  {o \in present : IsLabelled(r) /\ Panics(o) /\ \E c \in calls : o \in Answer(r, c)}

Filter ==
  /\ pc = "resource"
  /\ \E r \in Resource :
       /\ Take(r)
       /\ r.kind # "Event"
       /\ res' = r
       /\ IF IsListed(r)
          THEN \E failed \in SUBSET Calls(r, spaces) :
                 /\ Unjudged(r, Calls(r, spaces) \ failed) = {}
                 /\ Lists(r, spaces, failed, {o \in Of(r) : Kept(r, o)})
          ELSE UNCHANGED <<found, trouble, missed>>
       /\ pc' = AfterFilter(r)
  /\ UNCHANGED <<world, view, groups, names, gathered, files, filed, notes, exit, present, unheard>>

FilterPanics ==
  /\ pc = "resource"
  /\ \E r \in Resource : Take(r) /\ r.kind # "Event" /\ Unjudged(r, Calls(r, spaces)) # {}
  /\ Stop("panicked")
  /\ UNCHANGED <<world, view, groups, res, found, names, gathered, files, filed, notes, present,
                 trouble, missed, unheard>>

ListGvk ==
  /\ pc = "gvk"
  /\ \E failed \in SUBSET Calls(res, spaces) : Lists(res, spaces, failed, Of(res))
  /\ pc' = AfterGvk(res)
  /\ UNCHANGED <<world, view, groups, left, res, names, gathered, files, filed, notes, exit, present, unheard>>

\* What getOcpRelatedResources keeps.
OcpRelated(o) ==
  \/ o.ours = "named" /\ o.kind = "Subscription"
  \/ o.ours = "owned" /\ o.kind \notin excludeResources
  \/ o.ours = "webhook"
  \/ o.gv = OcpConfig /\ o.kind = "Ingress" /\ o.name = "cluster"
  \/ o.gv = OcpOperator /\ o.kind = "IngressController" /\ o.name = "default"

\* getOcpRelatedResources.  From here on, one more namespace is listed.
ListOcp ==
  /\ pc = "ocp"
  /\ spaces' = IF res.kind = "IngressController" /\ res.gv = OcpOperator
               THEN spaces \cup {OCPConfigNs} ELSE spaces
  /\ \E failed \in SUBSET Calls(res, spaces') :
       Lists(res, spaces', failed, {o \in Of(res) : OcpRelated(o)})
  /\ pc' = AfterOcp(res)
  /\ UNCHANGED <<world, home, shift, groups, left, res, names, gathered, files, filed, notes, exit, present,
                 unheard>>

\* Whatever the group in hand, the policies that are listed are those of networking.k8s.io.
\* (The plural that the path ends with is that of the resource in hand, taken to be the same.)
IsPolicy(o) == o.gv = Networking /\ o.kind = "NetworkPolicy"
Policies(ns) == {o \in Object : IsPolicy(o) /\ o.ns = ns}
ListPolicies ==
  /\ pc = "policy"
  /\ \E failed \in SUBSET Calls(res, spaces) : Lists(res, spaces, failed, Policies(home))
  /\ pc' = "write"
  /\ UNCHANGED <<world, view, groups, left, res, names, gathered, files, filed, notes, exit, present, unheard>>

-----------------------------------------------------------------------------
(* Files.                                                                  *)

Path(o) == <<o.kind, o.ns, o.name>>

\* Mutant of Yaml: volumes are laid bare only where they are fetched.
YamlAsItIs(o) == [object |-> o, shows |-> o.holds]

\* writeYaml: a volume loses the server and path of its spec, whichever way it came, and
\* nothing else.  Whatever other kinds hold (the volumes of a pod, a Target) stays.
Yaml(o) ==
  [object |-> o, shows |-> IF o.kind = "PersistentVolume" THEN o.holds \ {"spec"} ELSE o.holds]

\* Mutant of Put: objects of one kind and name share a file, whatever their namespaces.
PutAnywhere(yamls) ==
  files' = {f \in files : \A w \in yamls :
              <<f.object.kind, f.object.name>> # <<w.object.kind, w.object.name>>} \cup yamls

\* Files of the same name are replaced.
Put(yamls) ==
  files' = {f \in files : \A w \in yamls : Path(f.object) # Path(w.object)} \cup yamls
Yamls(objects) == {Yaml(o) : o \in objects}
Filed(objects) == filed' = filed \cup objects

\* The policies come last, and replace a file of the same name that another group has
\* just been given.
Lasting(objects) ==
  {o \in objects : \A p \in objects : Path(p) = Path(o) => p = o \/ o.gv = Networking}
VolumesOf(pvcs) == {o.pv : o \in pvcs} \ {NoNs}

\* Mutant of Write: a resource without objects erases the names of its kind.
WriteForgetting ==
  /\ pc = "write"
  /\ Put(Yamls(Lasting(found))) /\ Filed(found)
  /\ pods' = IF res.kind = "Pod" THEN pods \cup found ELSE pods
  /\ claims' = IF IsClaim(res) THEN claims \cup {Id(o) : o \in found} ELSE claims
  /\ volumes' = IF IsClaim(res) THEN VolumesOf(found) ELSE {}
  /\ names' = [names EXCEPT ![res.kind] = {Id(o) : o \in found}]
  /\ pc' = IF volumes' = {} THEN "resource" ELSE "volumes"
  /\ found' = {} /\ res' = NoResource
  /\ UNCHANGED <<world, view, groups, left, notes, exit, present, trouble, missed, unheard>>

\* writeObjectsAndLogs, and what is remembered of a resource.
Write ==
  /\ pc = "write"
  /\ Put(Yamls(Lasting(found))) /\ Filed(found)
  /\ pods' = IF res.kind = "Pod" THEN pods \cup found ELSE pods
  /\ claims' = IF IsClaim(res) THEN claims \cup {Id(o) : o \in found} ELSE claims
  /\ volumes' = IF IsClaim(res) THEN VolumesOf(found) ELSE {}
  /\ names' = IF found = {} THEN names ELSE [names EXCEPT ![res.kind] = {Id(o) : o \in found}]
  /\ pc' = IF volumes' = {} THEN "resource" ELSE "volumes"
  /\ found' = {} /\ res' = NoResource
  /\ UNCHANGED <<world, view, groups, left, notes, exit, present, trouble, missed, unheard>>

\* A file, or the logs of a pod, cannot be written.
WriteFails ==
  /\ pc = "write"
  /\ found # {}
  /\ Trouble
  /\ \E some \in SUBSET found : Put(Yamls(Lasting(some))) /\ Filed(some)
  /\ Stop("failed")
  /\ UNCHANGED <<world, view, groups, left, res, found, names, gathered, notes, present, missed, unheard>>

GroupDone ==
  /\ pc = "resource"
  /\ left = {}
  /\ pc' = "group"
  /\ UNCHANGED <<world, view, groups, left, res, found, names, gathered, files, filed, notes, exit, present,
                 trouble, missed, unheard>>

\* getTrilioGroupResources, a resource at a time: no filter, no names for the
\* events; a licence loses its key and
\* its annotations.
TrilioYaml(o) == [object |-> o, shows |-> IF o.kind = "License" THEN {} ELSE Yaml(o).shows]
Answers(r, failed) == UNION {Answer(r, c) : c \in Calls(r, spaces) \ failed}

CollectTrilio ==
  /\ pc = "trilio"
  /\ \E r \in Resource :
       /\ Take(r)
       /\ \E failed \in SUBSET Calls(r, spaces) :
            /\ IF failed = {} THEN UNCHANGED trouble ELSE Trouble
            /\ missed' = missed \cup (Answers(r, {}) \ Answers(r, failed))
            /\ Put({TrilioYaml(o) : o \in Answers(r, failed) \cap present})
            /\ Filed(Answers(r, failed) \cap present)
  /\ UNCHANGED <<world, view, pc, groups, res, found, names, gathered, notes, exit, present, unheard>>

CollectTrilioFails ==
  /\ pc = "trilio"
  /\ Trouble
  /\ \E r \in Resource :
       /\ Take(r)
       /\ \E some \in SUBSET (Answers(r, {}) \cap present) :
            Put({TrilioYaml(o) : o \in some}) /\ Filed(some)
  /\ Stop("failed")
  /\ UNCHANGED <<world, view, groups, res, found, names, gathered, notes, present, missed, unheard>>

TrilioDone ==
  /\ pc = "trilio"
  /\ left = {}
  /\ pc' = "group"
  /\ UNCHANGED <<world, view, groups, left, res, found, names, gathered, files, filed, notes, exit, present,
                 trouble, missed, unheard>>

-----------------------------------------------------------------------------
(* Volumes, the claims of pods, and events.                                *)

Claims == {o \in Object : o.kind = "PersistentVolumeClaim"}
Volumes == {o \in Object : o.kind = "PersistentVolume"}
Sought == {o \in Volumes : o.name \in volumes}

\* collectAndWritePVs.  A volume that is gone or forbidden is passed over.
GetVolumes ==
  /\ pc \in {"volumes", "podVolumes"}
  /\ \E refused \in SUBSET Sought :
       /\ IF refused = {} THEN UNCHANGED trouble ELSE Trouble
       /\ missed' = missed \cup refused
       /\ Put(Yamls((Sought \ refused) \cap present)) /\ Filed((Sought \ refused) \cap present)
  /\ volumes' = {}
  /\ pc' = IF pc = "volumes" THEN "resource" ELSE "events"
  /\ UNCHANGED <<world, view, groups, left, res, found, names, pods, claims, notes, exit, present, unheard>>

\* One GET or one write fails otherwise: the volumes that were got are not
\* written either, or some are.  A warning for the claims of a group; the end
\* for the claims of pods.
GetVolumesFails ==
  /\ pc \in {"volumes", "podVolumes"}
  /\ Trouble
  /\ missed' = missed \cup Sought
  /\ \E some \in SUBSET (Sought \cap present) : Put(Yamls(some)) /\ Filed(some)
  /\ volumes' = {}
  /\ IF pc = "volumes" THEN pc' = "resource" /\ UNCHANGED exit ELSE Stop("failed")
  /\ UNCHANGED <<world, view, groups, left, res, found, names, pods, claims, notes, present, unheard>>

\* getPVCsUsedByPods, without those that the groups brought.
ClaimsOf(ps) == {o \in Claims : \E p \in ps : p.ns = o.ns /\ o.name \in p.claims}
Unclaimed == {o \in ClaimsOf(pods) : Id(o) \notin claims}

\* collectApplicationPVCsFromPods, up to the files of the claims.
GetPodClaims ==
  /\ pc = "group"
  /\ groups = {}
  /\ \E failed \in SUBSET Unclaimed :
       LET got == (Unclaimed \ failed) \cap present
       IN /\ IF failed = {} THEN UNCHANGED trouble ELSE Trouble
          /\ missed' = missed \cup failed
          /\ Put(Yamls(got)) /\ Filed(got)
          /\ claims' = claims \cup {Id(o) : o \in got}
          /\ volumes' = VolumesOf(got)
  /\ pc' = IF volumes' = {} THEN "events" ELSE "podVolumes"
  /\ UNCHANGED <<world, view, groups, left, res, found, names, pods, notes, exit, present, unheard>>

PodClaimsFail ==
  /\ pc = "group"
  /\ groups = {}
  /\ Trouble
  /\ \E some \in SUBSET (Unclaimed \cap present) : Put(Yamls(some)) /\ Filed(some)
  /\ Stop("failed")
  /\ UNCHANGED <<world, view, groups, left, res, found, names, gathered, notes, present, missed, unheard>>

\* aggregateEvents: involvedObject of a cluster-scoped object has no namespace.
EventNs(o) == IF o.ns = NoNs THEN DefaultNs ELSE o.ns
EventPath(o) == <<EventNs(o), o.kind, o.name>>
Relevant(e) == e.about.gv = Trilio \/ <<EventNs(e.about), e.about.name>> \in names[e.about.kind]

\* writeEventsToFile: one file for an object; of several events the last stays.
OnePerFile(events) ==
  {some \in SUBSET events :
     /\ \A e, f \in some : EventPath(e.about) = EventPath(f.about) => e = f
     /\ \A e \in events : \E f \in some : EventPath(e.about) = EventPath(f.about)}

\* getResourceEvents; a list that fails is passed over.
GetEvents ==
  /\ pc = "events"
  /\ \E failed \in SUBSET (IF Clustered THEN {NoNs} ELSE spaces) :
       LET heard == {e \in Event : IF Clustered THEN failed = {} ELSE EventNs(e.about) \in spaces \ failed}
       IN /\ IF failed = {} THEN UNCHANGED trouble ELSE Trouble
          /\ unheard' = (failed # {})
          /\ notes' \in OnePerFile({e \in heard : Relevant(e)})
  /\ Stop("ok")
  /\ UNCHANGED <<world, view, groups, left, res, found, names, gathered, files, filed, present, missed>>

WriteEventsFails ==
  /\ pc = "events"
  /\ Trouble
  /\ \E some \in SUBSET {e \in Event : Relevant(e)} : notes' \in OnePerFile(some)
  /\ Stop("failed")
  /\ UNCHANGED <<world, view, groups, left, res, found, names, gathered, files, filed, present, missed, unheard>>

-----------------------------------------------------------------------------
(* The cluster.                                                            *)

Vanish ==
  /\ pc # "done"
  /\ Trouble
  /\ \E o \in present : present' = present \ {o}
  /\ UNCHANGED <<world, view, pc, groups, left, res, found, names, gathered, files, filed, notes, exit,
                 missed, unheard>>

Start == CheckNamespaces \/ NamespaceUnknown \/ Discover \/ DiscoverFails \/ AskOpenShift
Visit ==
  \/ NextGroup \/ RememberEvents \/ Filter \/ FilterPanics \/ ListGvk \/ ListOcp \/ ListPolicies
  \/ Write \/ WriteFails \/ GroupDone
VisitTrilio == CollectTrilio \/ CollectTrilioFails \/ TrilioDone
Follow ==
  \/ GetVolumes \/ GetVolumesFails \/ GetPodClaims \/ PodClaimsFail
  \/ GetEvents \/ WriteEventsFails

Next == Start \/ Visit \/ VisitTrilio \/ Follow \/ Vanish
Spec == Init /\ [][Next]_vars

-----------------------------------------------------------------------------
(* Properties.                                                             *)

\* What can come with a resource.
Comes(r) == Of(r) \cup (IF r.kind = "NetworkPolicy" THEN Policies(cluster.home) ELSE {})

TypeOK ==
  /\ pc \in {"namespaces", "discover", "openshift", "group", "resource", "gvk", "ocp", "policy",
             "write", "trilio", "volumes", "podVolumes", "events", "done"}
  /\ settings \in Settings /\ cluster \in Clusters
  /\ spaces \subseteq settings.namespaces \cup {OCPConfigNs}
  /\ home \in {NoNs, cluster.home} /\ shift \in BOOLEAN
  /\ groups \subseteq Groups /\ left \subseteq DOMAIN Resources /\ res \in Resource \cup {NoResource}
  /\ pc \in {"gvk", "ocp", "policy", "write"} => res \in Resource
  /\ found \subseteq Comes(res)
  /\ DOMAIN names = Kinds /\ \A k \in Kinds : names[k] \subseteq Spaces \X Names
  /\ pods \subseteq Object /\ claims \subseteq Spaces \X Names
  /\ volumes \subseteq {o.pv : o \in Object}
  /\ files \subseteq [object : Object, shows : SUBSET Parts] /\ filed \subseteq Object
  /\ notes \subseteq Event
  /\ exit \in {"none", "ok", "failed", "panicked"} /\ (exit = "none") = (pc # "done")
  /\ present \subseteq Object /\ trouble \in 0 .. MaxTrouble
  /\ missed \subseteq Object /\ unheard \in BOOLEAN

\* Which objects the documentation and the comments of the code promise, and
\* no more: whole kinds, Trilio's own, what the user's labels select (never objects
\* without labels, nor of the two kinds that are chosen by their names), and what
\* the user's kinds select.
ByName == {"CustomResourceDefinition", "ClusterServiceVersion"}
ByDefault(o) ==
  \/ o.gv = Trilio
  \/ o.kind \in nonLabeledResources
  \/ o.kind \in ByName /\ o.ours = "named"
  \/ o.kind = "Namespace" /\ (Clustered \/ o.name \in settings.namespaces)
  \/ o.kind = "PersistentVolumeClaim" /\ settings.selectors = <<>>
  \/ IsPolicy(o) /\ o.ns = cluster.home
ByLabel(o) ==
  /\ o.kind \notin excludeResources \cup ByName
  /\ o.ns # NoNs \/ Clustered
  /\ HasTvkLabel(o) \/ (o.labels # {} /\ MatchLabelSelectors(o.labels))
ByKind(o) == [gv |-> o.gv, kind |-> o.kind, namespaced |-> o.ns # NoNs] \in settings.gvks
Promised(o) == ByDefault(o) \/ ByLabel(o) \/ ByKind(o) \/ (cluster.openshift /\ OcpRelated(o))

InNamespaces(o) == Clustered \/ o.ns = NoNs \/ o.ns \in settings.namespaces
Collected == {f.object : f \in files}
PodsIn(objects) == {o \in objects : o.kind = "Pod"}
VolumesUsed(objects) == {v \in Volumes : v.name \in VolumesOf(objects \cap Claims)}

\* The files are named by kind, namespace and name: an object that had one has it still,
\* or lost it to an object of another group.
Overwritten(o) == o \in filed /\ \E c \in Collected : c.gv # o.gv /\ Path(c) = Path(o)

\* What the user may rely on when the collector reports success: everything
\* promised in the namespaces given, the claims of every pod that was collected
\* and the volumes of every claim that was collected are in the bundle, unless
\* they vanished, a call for them failed or they were overwritten.
CollectedComplete ==
  exit = "ok" =>
    \A o \in present \ missed :
      \/ Promised(o) /\ InNamespaces(o)
      \/ o \in ClaimsOf(PodsIn(Collected))
      \/ o \in VolumesUsed(Collected)
      => o \in Collected \/ Overwritten(o)

\* Nothing else gets into a bundle, however the run ends.  A cluster that could
\* not be asked whether it is OpenShift is taken for one; OpenShift's ingress
\* namespace is searched like those given.
MayBePromised(o) ==
  \/ Promised(o)
  \/ shift /\ (OcpRelated(o) \/ (o.kind = "Namespace" /\ o.name = OCPConfigNs))
Fit(o) == MayBePromised(o) /\ (InNamespaces(o) \/ (shift /\ o.ns = OCPConfigNs))
OnlyPromised ==
  \A o \in Collected :
    Fit(o) \/ o \in ClaimsOf(PodsIn(Collected)) \/ o \in VolumesUsed(Collected)

\* The collection, seen as a directory that fills.
Promise == INSTANCE CollectionPromise WITH
  File <- [o \in Object |-> Path(o)],
  Leads <- [o \in Object |-> ClaimsOf(PodsIn({o})) \cup VolumesUsed({o})],
  wanted <- {o \in Object : Promised(o) /\ InNamespaces(o)},
  scope <- {o \in Object : Fit(o)},
  bundle <- Collected,
  lost <- missed \cup (Object \ present),
  answer <- exit

\* Step by step the collector does what CollectionPromise allows: no file disappears,
\* nothing is written before it is known to be in scope or to belong to something
\* already collected, and a success that is reported is one.
DirectoryFills == Promise!Spec

\* As sanitizeNFSPV and getTrilioGroupResources say: the spec of a volume in a file names
\* no NFS server, and a licence in a file shows no key, whichever of the four ways they
\* came.  (Nothing is said of the annotations of volumes, nor of other kinds.)
SpecsBare ==
  \A f \in files :
    /\ f.object.kind = "PersistentVolume" => "spec" \notin f.shows
    /\ f.object.kind = "License" => f.shows = {}

\* Every event of a collected object that is listed is there, or another event of an object
\* of that kind, namespace and name was written over it; except where the object
\*   - has no namespace, and its events are said to be of the default one,
\*   - is a claim that came by way of a pod only,
\*   - shares its kind with collected objects of another group, which replaced its names, or
\*     is a policy that the resource of another group brings as well.
\* And every event file belongs to a file, if only by kind, name and namespace.
ByTheWay(o) ==
  o.kind = "PersistentVolumeClaim" /\ (~Promised(o) \/ ~InNamespaces(o) \/ o \in missed)
Doubly(o) == IsPolicy(o) /\ \E r \in Resource : r.kind = "NetworkPolicy" /\ r.gv # Networking
Replaced(o) == Doubly(o) \/ \E c \in Collected : c.kind = o.kind /\ c.gv # o.gv
Outwritten(e) == \E n \in notes : n # e /\ EventPath(n.about) = EventPath(e.about)
EventsExplained ==
  /\ exit = "ok" /\ ~unheard =>
       \A e \in Event :
         LET o == e.about
         IN o \in Collected /\ (Clustered \/ EventNs(o) \in spaces) =>
              \/ e \in notes \/ Outwritten(e)
              \/ o.gv # Trilio /\ (o.ns = NoNs \/ ByTheWay(o) \/ Replaced(o))
  /\ \A n \in notes :
       \/ n.about.gv = Trilio
       \/ \E c \in Collected : EventPath(c) = EventPath(n.about)
=============================================================================
