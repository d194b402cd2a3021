------------------------ MODULE CollectionComplete_proofs ------------------------
(***************************************************************************)
(* Proofs that the collection is complete: what is promised is in the      *)
(* bundle when the collector reports success, and so are its events.       *)
(***************************************************************************)
EXTENDS ResourceCollection_proofs, FiniteSetTheorems, WellFoundedInduction

USE CollectionAssumption

(***************************************************************************)
(* Where the loops over groups and resources are.                          *)
(***************************************************************************)

\* The resource that an object is listed with.
Source(o) == [gv |-> o.gv, kind |-> o.kind, namespaced |-> o.ns # NoNs]
Behind == {"podVolumes", "events"}

OrderInv ==
  /\ pc \in Behind \cup {"namespaces", "discover", "openshift", "group"} => left = {}
  /\ pc \in Behind => groups = {}
  /\ exit = "ok" => groups = {} /\ left = {} /\ found = {} /\ volumes = {}
  /\ \A i \in left : Resources[i].gv \notin groups
  /\ pc \in Inside => res.gv \notin groups /\ \A i \in left : Resources[i] # res
  /\ pc \notin {"namespaces", "discover", "openshift", "done"} => (cluster.openshift => shift)
  /\ settings.namespaces \subseteq spaces

LEMMA SourceFacts ==
  ASSUME NEW o \in Object
  PROVE  /\ Source(o) \in Resource
         /\ o \in Of(Source(o))
         /\ \E i \in DOMAIN Resources : Resources[i] = Source(o)
         /\ \A r \in Resource : o \in Of(r) => r = Source(o)
         /\ Source(o).gv = o.gv /\ Source(o).kind = o.kind
<1>1. Source(o) \in Resource /\ Source(o).gv = o.gv /\ Source(o).kind = o.kind
  BY DEF Source
<1>2. QED
  BY <1>1 DEF Of, Resource

\* A resource that is taken is not left.
LEMMA TakenFacts ==
  ASSUME Typed, NEW r, Take(r)
  PROVE  \E i \in left : r = Resources[i] /\ left' = left \ {i} /\ \A j \in left' : Resources[j] # r
<1>1. PICK i \in left : r = Resources[i] /\ left' = left \ {i}
  BY DEF Take
<1>2. \A j \in left' : Resources[j] # r
  BY <1>1 DEF Typed, TypeOK
<1>3. QED
  BY <1>1, <1>2

LEMMA OrderInit == Init => OrderInv
BY DEF Init, OrderInv, Behind, Inside

LEMMA OrderStart == ASSUME Inv, OrderInv, Start PROVE OrderInv'
<1>1. CASE CheckNamespaces
  BY <1>1 DEF CheckNamespaces, OrderInv, Behind, Inside, world, Inv, Typed, TypeOK
<1>2. CASE NamespaceUnknown
  BY <1>2 DEF NamespaceUnknown, Stop, OrderInv, Behind, Inside, world, gathered
<1>3. CASE Discover
  BY <1>3 DEF Discover, OrderInv, Behind, Inside, world, view, gathered, Inv, Typed, TypeOK
<1>4. CASE DiscoverFails
  BY <1>4 DEF DiscoverFails, Stop, OrderInv, Behind, Inside, world, view, gathered
<1>5. CASE AskOpenShift
  BY <1>5 DEF AskOpenShift, OrderInv, Behind, Inside, world, Inv, Typed, TypeOK
<1>6. QED
  BY <1>1, <1>2, <1>3, <1>4, <1>5 DEF Start

LEMMA OrderVisit == ASSUME Inv, OrderInv, Visit PROVE OrderInv'
<1>0. exit # "ok"
  BY DEF Visit, NextGroup, RememberEvents, Filter, FilterPanics, ListGvk, ListOcp, ListPolicies, Write,
         WriteFails, GroupDone, Inv, Typed, TypeOK
<1>1. CASE NextGroup
  BY <1>0, <1>1 DEF NextGroup, OrderInv, Behind, Inside, world, view
<1>2. CASE RememberEvents
  <2>1. left' \subseteq left
    BY <1>2, TakeFacts DEF RememberEvents, Inv
  <2>2. QED
    BY <1>0, <1>2, <2>1 DEF RememberEvents, OrderInv, Behind, Inside, world, view
<1>3. CASE Filter
  <2>1. PICK r \in Resource : Take(r) /\ res' = r /\ pc' = AfterFilter(r)
    BY <1>3 DEF Filter
  <2>2. PICK i \in left : r = Resources[i] /\ left' = left \ {i} /\ \A j \in left' : Resources[j] # r
    BY <2>1, TakenFacts DEF Inv
  <2>3. pc' \in Inside
    BY <2>1, AfterFacts
  <2>4. pc = "resource" /\ UNCHANGED <<world, view, groups, exit>>
    BY <1>3 DEF Filter
  <2>5. QED
    BY <1>0, <2>1, <2>2, <2>3, <2>4 DEF OrderInv, Behind, Inside, world, view
<1>4. CASE FilterPanics
  <2>1. left' \subseteq left
    BY <1>4, TakeFacts DEF FilterPanics, Inv
  <2>2. QED
    BY <1>0, <1>4, <2>1 DEF FilterPanics, Stop, OrderInv, Behind, Inside, world, view
<1>5. CASE ListGvk \/ ListOcp \/ ListPolicies
  <2>1. pc \in Inside /\ pc' \in Inside
    BY <1>5, AfterFacts DEF ListGvk, ListOcp, ListPolicies, Inside
  <2>2. UNCHANGED <<world, shift, groups, left, res, exit>> /\ spaces \subseteq spaces'
    BY <1>5 DEF ListGvk, ListOcp, ListPolicies, view
  <2>3. QED
    BY <1>0, <2>1, <2>2 DEF OrderInv, Behind, Inside, world
<1>6. CASE Write
  BY <1>0, <1>6 DEF Write, OrderInv, Behind, Inside, world, view
<1>7. CASE WriteFails
  BY <1>0, <1>7 DEF WriteFails, Stop, OrderInv, Behind, Inside, world, view
<1>8. CASE GroupDone
  BY <1>0, <1>8 DEF GroupDone, OrderInv, Behind, Inside, world, view
<1>9. QED
  BY <1>1, <1>2, <1>3, <1>4, <1>5, <1>6, <1>7, <1>8 DEF Visit

LEMMA OrderTrilio == ASSUME Inv, OrderInv, VisitTrilio PROVE OrderInv'
<1>0. exit # "ok"
  BY DEF VisitTrilio, CollectTrilio, CollectTrilioFails, TrilioDone, Inv, Typed, TypeOK
<1>1. CASE CollectTrilio \/ CollectTrilioFails
  <2>1. left' \subseteq left
    BY <1>1, TakeFacts DEF CollectTrilio, CollectTrilioFails, Inv
  <2>2. /\ pc = "trilio" /\ pc' \in {"trilio", "done"} /\ exit' # "ok"
        /\ UNCHANGED <<world, view, groups, res>>
    BY <1>0, <1>1 DEF CollectTrilio, CollectTrilioFails, Stop
  <2>3. QED
    BY <2>1, <2>2 DEF OrderInv, Behind, Inside, world, view
<1>2. CASE TrilioDone
  BY <1>0, <1>2 DEF TrilioDone, OrderInv, Behind, Inside, world, view
<1>3. QED
  BY <1>1, <1>2 DEF VisitTrilio

LEMMA OrderFollow == ASSUME Inv, OrderInv, Follow PROVE OrderInv'
<1>0. exit # "ok"
  BY DEF Follow, GetVolumes, GetVolumesFails, GetPodClaims, PodClaimsFail, GetEvents, WriteEventsFails,
         Inv, Typed, TypeOK
<1>1. CASE GetVolumes \/ GetVolumesFails
  BY <1>0, <1>1 DEF GetVolumes, GetVolumesFails, Stop, OrderInv, Behind, Inside, world, view
<1>2. CASE GetPodClaims \/ PodClaimsFail
  BY <1>0, <1>2 DEF GetPodClaims, PodClaimsFail, Stop, OrderInv, Behind, Inside, world, view
<1>3. CASE GetEvents \/ WriteEventsFails
  <2>1. found = {} /\ volumes = {}
    BY <1>3 DEF GetEvents, WriteEventsFails, Inv, Typed, PlaceInv, Inside
  <2>2. /\ pc = "events" /\ pc' = "done"
        /\ UNCHANGED <<world, view, groups, left, res, found, volumes>>
    BY <1>3 DEF GetEvents, WriteEventsFails, Stop, gathered
  <2>3. QED
    BY <2>1, <2>2 DEF OrderInv, Behind, Inside, world, view
<1>4. QED
  BY <1>1, <1>2, <1>3 DEF Follow

LEMMA OrderNext == Inv /\ OrderInv /\ [Next]_vars => OrderInv'
<1>1. ASSUME OrderInv, Vanish \/ UNCHANGED vars PROVE OrderInv'
  BY <1>1 DEF Vanish, vars, OrderInv, Behind, Inside, world, view, gathered
<1>2. QED
  BY <1>1, OrderStart, OrderVisit, OrderTrilio, OrderFollow DEF Next

\* A file by the name of an object's.  What had a file has such a one still.
HasFile(o) == \E c \in Collected : Path(c) = Path(o)
FiledInv == Collected \subseteq filed /\ \A o \in filed : o \in Object /\ HasFile(o)

(***************************************************************************)
(* What is promised and not yet in a file lies ahead.                      *)
(***************************************************************************)

Sound == exit \in {"none", "ok"}
Wanted(o) == o \in present \ missed /\ Promised(o) /\ InNamespaces(o)

\* A call for the resource in hand that the object is to come with is still to be made.
Asked(o) ==
  /\ res = Source(o)
  /\ \/ pc = "gvk" /\ res \in settings.gvks
     \/ pc \in {"gvk", "ocp"} /\ cluster.openshift /\ OcpRelated(o)
     \/ pc \in {"gvk", "ocp", "policy"} /\ IsPolicy(o) /\ o.ns = cluster.home
Ahead(o) ==
  \/ pc \in {"namespaces", "discover"}
  \/ o.gv \in groups
  \/ \E i \in left : Resources[i] = Source(o)
  \/ Asked(o)
Cared(o) == o \in filed \/ o \in found \/ Ahead(o)
DueInv == Sound => \A o \in Object : Wanted(o) => Cared(o)

\* Whoever takes a step has not reported anything yet.
LEMMA Running == ASSUME Typed, Next PROVE pc # "done" /\ exit = "none"
<1>1. pc # "done"
  BY DEF Next, Start, Visit, VisitTrilio, Follow, Vanish, CheckNamespaces, NamespaceUnknown, Discover,
         DiscoverFails, AskOpenShift, NextGroup, RememberEvents, Filter, FilterPanics, ListGvk, ListOcp,
         ListPolicies, Write, WriteFails, GroupDone, CollectTrilio, CollectTrilioFails, TrilioDone,
         GetVolumes, GetVolumesFails, GetPodClaims, PodClaimsFail, GetEvents, WriteEventsFails
<1>2. QED
  BY <1>1 DEF Typed, TypeOK

\* The world does not change, objects only vanish, and what was missed stays so.
LEMMA StepFacts ==
  ASSUME Typed, Next
  PROVE  UNCHANGED <<settings, cluster>> /\ present' \subseteq present /\ missed \subseteq missed'
<1>1. ASSUME Start PROVE UNCHANGED <<settings, cluster, present>> /\ missed \subseteq missed'
  BY <1>1 DEF Start, CheckNamespaces, NamespaceUnknown, Discover, DiscoverFails, AskOpenShift, world
<1>2. ASSUME Visit PROVE UNCHANGED <<settings, cluster, present>> /\ missed \subseteq missed'
  <2>1. CASE Filter
    BY <2>1 DEF Filter, Lists, world
  <2>2. CASE ListGvk \/ ListOcp \/ ListPolicies
    BY <2>2 DEF ListGvk, ListOcp, ListPolicies, Lists, world
  <2>3. CASE NextGroup \/ RememberEvents \/ FilterPanics \/ Write \/ WriteFails \/ GroupDone
    BY <2>3 DEF NextGroup, RememberEvents, FilterPanics, Write, WriteFails, GroupDone, world
  <2>4. QED
    BY <1>2, <2>1, <2>2, <2>3 DEF Visit
<1>3. ASSUME VisitTrilio PROVE UNCHANGED <<settings, cluster, present>> /\ missed \subseteq missed'
  BY <1>3 DEF VisitTrilio, CollectTrilio, CollectTrilioFails, TrilioDone, world
<1>4. ASSUME Follow PROVE UNCHANGED <<settings, cluster, present>> /\ missed \subseteq missed'
  BY <1>4 DEF Follow, GetVolumes, GetVolumesFails, GetPodClaims, PodClaimsFail, GetEvents,
              WriteEventsFails, world
<1>5. ASSUME Vanish
      PROVE  UNCHANGED <<settings, cluster>> /\ present' \subseteq present /\ missed \subseteq missed'
  BY <1>5 DEF Vanish, world
<1>6. QED
  BY <1>1, <1>2, <1>3, <1>4, <1>5 DEF Next

LEMMA WantedKept ==
  ASSUME Typed, Next, NEW o, Wanted(o)'
  PROVE  Wanted(o)
<1>1. UNCHANGED <<settings, cluster>> /\ present' \subseteq present /\ missed \subseteq missed'
  BY StepFacts
<1>2. Promised(o) /\ InNamespaces(o)
  BY <1>1 DEF Wanted, Promised, ByDefault, ByLabel, ByKind, InNamespaces, MatchLabelSelectors, Satisfies,
              Clustered
<1>3. QED
  BY <1>1, <1>2 DEF Wanted

\* Files are added, or replaced by files of the same name.
LEMMA HasFileKept ==
  ASSUME NEW o, HasFile(o), files' = files \/ \E written : Put(written)
  PROVE  HasFile(o)'
<1>1. PICK f \in files : Path(f.object) = Path(o)
  BY DEF HasFile, Collected
<1>2. \E g \in files' : Path(g.object) = Path(o)
  <2>1. CASE f \in files'
    BY <1>1, <2>1
  <2>2. CASE f \notin files'
    <3>1. PICK written : Put(written)
      BY <1>1, <2>2
    <3>2. PICK w \in written : Path(f.object) = Path(w.object)
      BY <1>1, <2>2, <3>1, PutFacts
    <3>3. w \in files'
      BY <3>1, PutFacts
    <3>4. QED
      BY <1>1, <3>2, <3>3
  <2>3. QED
    BY <2>1, <2>2
<1>3. QED
  BY <1>2 DEF HasFile, Collected, Path

LEMMA FilesStep ==
  ASSUME Typed, Next
  PROVE  files' = files \/ \E written : Put(written)
<1>1. CASE Start \/ Vanish
  BY <1>1 DEF Start, CheckNamespaces, NamespaceUnknown, Discover, DiscoverFails, AskOpenShift, Vanish
<1>2. CASE Visit
  BY <1>2 DEF Visit, NextGroup, RememberEvents, Filter, FilterPanics, ListGvk, ListOcp, ListPolicies,
              Write, WriteFails, GroupDone
<1>3. CASE VisitTrilio
  BY <1>3 DEF VisitTrilio, CollectTrilio, CollectTrilioFails, TrilioDone
<1>4. CASE Follow
  BY <1>4 DEF Follow, GetVolumes, GetVolumesFails, GetPodClaims, PodClaimsFail, GetEvents, WriteEventsFails
<1>5. QED
  BY <1>1, <1>2, <1>3, <1>4 DEF Next

\* What had a file once stays known.
LEMMA FiledKept == ASSUME Next PROVE filed \subseteq filed'
<1>1. CASE Start \/ Vanish
  BY <1>1 DEF Start, CheckNamespaces, NamespaceUnknown, Discover, DiscoverFails, AskOpenShift, Vanish
<1>2. CASE Visit
  BY <1>2 DEF Visit, NextGroup, RememberEvents, Filter, FilterPanics, ListGvk, ListOcp, ListPolicies,
              Write, WriteFails, GroupDone, Filed
<1>3. CASE VisitTrilio
  BY <1>3 DEF VisitTrilio, CollectTrilio, CollectTrilioFails, TrilioDone, Filed
<1>4. CASE Follow
  BY <1>4 DEF Follow, GetVolumes, GetVolumesFails, GetPodClaims, PodClaimsFail, GetEvents,
              WriteEventsFails, Filed
<1>5. QED
  BY <1>1, <1>2, <1>3, <1>4 DEF Next

\* The calls for a resource reach every object in the namespaces given.
LEMMA Answered ==
  ASSUME NEW o \in Object, InNamespaces(o), NEW where, settings.namespaces \subseteq where
  PROVE  o \in Of(Source(o)) /\ \E c \in Calls(Source(o), where) : Reaches(c, o)
<1>1. o \in Of(Source(o)) /\ Source(o).namespaced = (o.ns # NoNs)
  BY SourceFacts DEF Source
<1>2. CASE Clustered \/ o.ns = NoNs
  BY <1>1, <1>2 DEF Calls, Reaches
<1>3. CASE ~Clustered /\ o.ns # NoNs
  BY <1>1, <1>3 DEF Calls, Reaches, InNamespaces
<1>4. QED
  BY <1>2, <1>3

LEMMA Heard ==
  ASSUME NEW o \in Object, Wanted(o), NEW where, settings.namespaces \subseteq where, NEW failed, NEW kept,
         Lists(Source(o), where, failed, kept), o \in kept
  PROVE  o \in found' \/ o \in missed'
<1>1. \E c \in Calls(Source(o), where) : Reaches(c, o)
  BY Answered DEF Wanted
<1>2. QED
  BY <1>1 DEF Lists, Wanted

\* The filter keeps what is promised, or a later call will ask for it.
LEMMA PromisedKept ==
  ASSUME OrderInv, NEW o \in Object, Promised(o), o.gv # Trilio
  PROVE  \/ IsListed(Source(o)) /\ Kept(Source(o), o)
         \/ Source(o) \in settings.gvks
         \/ cluster.openshift /\ OcpRelated(o)
         \/ IsPolicy(o) /\ o.ns = cluster.home
<1>1. Source(o).kind = o.kind /\ Source(o).namespaced = (o.ns # NoNs)
  BY DEF Source
<1>2. CASE o.kind \in nonLabeledResources
  BY <1>1, <1>2 DEF IsListed, Kept, IsClaim, nonLabeledResources
<1>3. CASE o.kind \in ByName /\ o.ours = "named"
  BY <1>1, <1>3 DEF IsListed, Kept, IsClaim, ByName, nonLabeledResources
<1>4. CASE o.kind = "Namespace" /\ (Clustered \/ o.name \in settings.namespaces)
  BY <1>1, <1>4 DEF IsListed, Kept, IsClaim, OrderInv, nonLabeledResources
<1>5. CASE o.kind = "PersistentVolumeClaim" /\ (settings.selectors = <<>> \/ ByLabel(o))
  <2>1. MatchLabelSelectors(o.labels) => settings.selectors # <<>>
    BY DEF MatchLabelSelectors
  <2>2. ApplicationClaim(o)
    BY <1>5, <2>1 DEF ApplicationClaim, ByLabel
  <2>3. QED
    BY <1>1, <1>5, <2>2 DEF IsListed, Kept, IsClaim, nonLabeledResources
<1>6. CASE /\ ByLabel(o)
           /\ o.kind \notin nonLabeledResources \cup ByName
           /\ o.kind \notin {"Namespace", "PersistentVolumeClaim"}
  <2>1. LabelMatched(o) /\ (Source(o).namespaced \/ Clustered) /\ o.kind \notin excludeResources
    BY <1>1, <1>6 DEF ByLabel, LabelMatched
  <2>2. QED
    BY <1>1, <1>6, <2>1 DEF IsListed, Kept, IsClaim, ByName
<1>7. CASE ByLabel(o) /\ o.kind = "Namespace"
  BY <1>1, <1>7 DEF ByLabel, IsListed, Kept, IsClaim, nonLabeledResources
<1>8. CASE ByLabel(o) /\ o.kind \in ByName
  BY <1>8 DEF ByLabel
<1>9. ByKind(o) => Source(o) \in settings.gvks
  BY DEF ByKind, Source
<1>10. QED
  BY <1>2, <1>3, <1>4, <1>5, <1>6, <1>7, <1>8, <1>9 DEF Promised, ByDefault

LEMMA DueFilter ==
  ASSUME Inv, OrderInv, Filter, NEW o \in Object, Wanted(o), Cared(o), o \notin missed'
  PROVE  Cared(o)'
<1>1. PICK r \in Resource :
        /\ Take(r)
        /\ res' = r
        /\ IsListed(r) =>
             \E failed \in SUBSET Calls(r, spaces) :
               Lists(r, spaces, failed, {x \in Of(r) : Kept(r, x)})
        /\ pc' = AfterFilter(r)
  BY DEF Filter
<1>2. /\ pc = "resource" /\ found = {}
      /\ UNCHANGED <<settings, cluster, spaces, home, shift, groups, filed>>
  BY DEF Filter, Inv, Typed, PlaceInv, Inside, world, view
<1>3. PICK i \in left : r = Resources[i] /\ left' = left \ {i} /\ \A j \in left' : Resources[j] # r
  BY <1>1, TakenFacts DEF Inv
<1>4. CASE o \in filed
  BY <1>2, <1>4 DEF Cared
<1>5. CASE o.gv \in groups
  BY <1>2, <1>5 DEF Cared, Ahead
<1>6. CASE \E j \in left : Resources[j] = Source(o) /\ j # i
  BY <1>3, <1>6 DEF Cared, Ahead, Source
<1>7. CASE r = Source(o)
  <2>1. o.gv # Trilio
    <3>1. Source(o).gv = o.gv
      BY DEF Source
    <3>2. Resources[i].gv # Trilio
      BY <1>2 DEF Inv, GroupInv
    <3>3. r.gv # Trilio
      BY <1>3, <3>2
    <3>4. QED
      BY <1>7, <3>1, <3>3
  <2>2. shift \/ ~cluster.openshift
    BY <1>2 DEF OrderInv
  <2>3. CASE IsListed(r) /\ Kept(r, o)
    <3>1. o \in Of(r)
      BY <1>7, SourceFacts
    <3>2. PICK failed : Lists(r, spaces, failed, {x \in Of(r) : Kept(r, x)})
      BY <1>1, <2>3
    <3>3. o \in {x \in Of(r) : Kept(r, x)} /\ settings.namespaces \subseteq spaces
      BY <2>3, <3>1 DEF OrderInv
    <3>4. o \in found'
      BY <1>7, <3>2, <3>3, Heard
    <3>5. QED
      BY <3>4 DEF Cared
  <2>4. CASE r \in settings.gvks
    <3>1. pc' = "gvk"
      BY <1>1, <2>4 DEF AfterFilter, IsAskedFor
    <3>2. Asked(o)'
      BY <1>1, <1>2, <1>7, <2>4, <3>1 DEF Asked, Source
    <3>3. QED
      BY <3>2 DEF Cared, Ahead
  <2>5. CASE cluster.openshift /\ OcpRelated(o)
    <3>1. pc' \in {"gvk", "ocp"}
      BY <1>1, <2>2, <2>5 DEF AfterFilter, AfterGvk
    <3>2. Asked(o)'
      BY <1>1, <1>2, <1>7, <2>5, <3>1 DEF Asked, Source, OcpRelated
    <3>3. QED
      BY <3>2 DEF Cared, Ahead
  <2>6. CASE IsPolicy(o) /\ o.ns = cluster.home
    <3>1. r.kind = "NetworkPolicy"
      BY <1>7, <2>6, SourceFacts DEF IsPolicy
    <3>2. pc' \in {"gvk", "ocp", "policy"}
      BY <1>1, <3>1 DEF AfterFilter, AfterGvk, AfterOcp
    <3>3. Asked(o)'
      BY <1>1, <1>2, <1>7, <2>6, <3>2 DEF Asked, Source, IsPolicy
    <3>4. QED
      BY <3>3 DEF Cared, Ahead
  <2>7. QED
    BY <1>7, <2>1, <2>3, <2>4, <2>5, <2>6, PromisedKept DEF Wanted
<1>8. QED
  BY <1>2, <1>3, <1>4, <1>5, <1>6, <1>7 DEF Cared, Ahead, Asked

LEMMA DueList ==
  ASSUME Inv, OrderInv, ListGvk \/ ListOcp \/ ListPolicies, NEW o \in Object, Wanted(o), Cared(o), o \notin missed'
  PROVE  Cared(o)'
<1>1. /\ UNCHANGED <<settings, cluster, shift, home, groups, left, res, filed>>
      /\ found \subseteq found' /\ pc \in {"gvk", "ocp", "policy"} /\ res \in Resource
  BY DEF ListGvk, ListOcp, ListPolicies, Lists, world, view, Inv, Typed, PlaceInv, Inside
<1>2. CASE o \in filed
  BY <1>1, <1>2 DEF Cared
<1>3. CASE o \in found \/ o.gv \in groups \/ \E i \in left : Resources[i] = Source(o)
  BY <1>1, <1>3 DEF Cared, Ahead, Source
<1>4. CASE Asked(o)
  <2>1. res = Source(o) /\ o \in Of(res)
    BY <1>4, SourceFacts DEF Asked
  <2>2. CASE ListGvk
    <3>1. PICK failed : Lists(Source(o), spaces, failed, Of(res))
      BY <2>1, <2>2 DEF ListGvk
    <3>2. o \in found'
      BY <2>1, <3>1, Heard DEF OrderInv
    <3>3. QED
      BY <3>2 DEF Cared
  <2>3. CASE ListOcp
    <3>1. PICK failed : Lists(Source(o), spaces', failed, {x \in Of(res) : OcpRelated(x)})
      BY <2>1, <2>3 DEF ListOcp
    <3>2. settings.namespaces \subseteq spaces'
      BY <2>3 DEF ListOcp, OrderInv
    <3>3. CASE OcpRelated(o)
      <4>1. o \in {x \in Of(res) : OcpRelated(x)}
        BY <2>1, <3>3
      <4>2. o \in found'
        BY <3>1, <3>2, <4>1, Heard
      <4>3. QED
        BY <4>2 DEF Cared
    <3>4. CASE IsPolicy(o) /\ o.ns = cluster.home
      <4>1. res.kind = "NetworkPolicy"
        BY <2>1, <3>4, SourceFacts DEF IsPolicy
      <4>2. pc' = "policy"
        BY <2>3, <4>1 DEF ListOcp, AfterOcp
      <4>3. Asked(o)'
        BY <1>1, <2>1, <3>4, <4>2 DEF Asked, Source, IsPolicy
      <4>4. QED
        BY <4>3 DEF Cared, Ahead
    <3>5. pc = "ocp"
      BY <2>3 DEF ListOcp
    <3>6. QED
      BY <1>4, <3>3, <3>4, <3>5 DEF Asked
  <2>4. CASE ListPolicies
    <3>1. pc = "policy" /\ home = cluster.home
      BY <2>4 DEF ListPolicies, Inv, Typed, PlaceInv
    <3>2. PICK failed : Lists(Source(o), spaces, failed, Policies(home))
      BY <2>1, <2>4 DEF ListPolicies
    <3>3. o \in Policies(home)
      BY <1>4, <2>1, <3>1 DEF Asked, Policies
    <3>4. o \in found'
      BY <3>2, <3>3, Heard DEF OrderInv
    <3>5. QED
      BY <3>4 DEF Cared
  <2>5. QED
    BY <2>2, <2>3, <2>4
<1>5. QED
  BY <1>1, <1>2, <1>3, <1>4 DEF Cared, Ahead

LEMMA DueBetween ==
  ASSUME Inv, OrderInv, NextGroup \/ RememberEvents \/ GroupDone \/ TrilioDone, NEW o \in Object, Cared(o)
  PROVE  Cared(o)'
<1>1. /\ UNCHANGED <<settings, cluster, res, found, filed>> /\ pc \in {"group", "resource", "trilio"}
  BY DEF NextGroup, RememberEvents, GroupDone, TrilioDone, world
<1>2. CASE o \in filed
  BY <1>1, <1>2 DEF Cared
<1>3. CASE o \in found
  BY <1>1, <1>3 DEF Cared
<1>4. CASE o.gv \in groups
  <2>1. CASE NextGroup
    <3>1. PICK g \in groups : groups' = groups \ {g} /\ left' = {i \in DOMAIN Resources : Resources[i].gv = g}
      BY <2>1 DEF NextGroup
    <3>2. PICK i \in DOMAIN Resources : Resources[i] = Source(o)
      BY SourceFacts
    <3>3. CASE o.gv = g
      <4>1. Resources[i].gv = g
        BY <3>2, <3>3, SourceFacts
      <4>2. i \in left'
        BY <3>1, <4>1
      <4>3. QED
        BY <3>2, <4>2 DEF Cared, Ahead, Source
    <3>4. QED
      BY <1>4, <3>1, <3>3 DEF Cared, Ahead
  <2>2. CASE RememberEvents \/ GroupDone \/ TrilioDone
    BY <1>4, <2>2 DEF RememberEvents, GroupDone, TrilioDone, Cared, Ahead
  <2>3. QED
    BY <2>1, <2>2
<1>5. CASE \E i \in left : Resources[i] = Source(o)
  <2>1. CASE NextGroup
    BY <1>5, <2>1 DEF NextGroup, OrderInv
  <2>2. CASE RememberEvents
    <3>1. PICK r \in Resource : Take(r) /\ r.kind = "Event"
      BY <2>2 DEF RememberEvents
    <3>2. PICK i \in left : r = Resources[i] /\ left' = left \ {i}
      BY <3>1, TakenFacts DEF Inv
    <3>3. r # Source(o)
      <4>1. o.kind # "Event" /\ Source(o).kind = o.kind
        BY SourceFacts
      <4>2. QED
        BY <3>1, <4>1
    <3>4. PICK j \in left : Resources[j] = Source(o)
      BY <1>5
    <3>5. j \in left'
      BY <3>2, <3>3, <3>4
    <3>6. QED
      BY <3>4, <3>5 DEF Cared, Ahead, Source
  <2>3. CASE GroupDone \/ TrilioDone
    BY <1>5, <2>3 DEF GroupDone, TrilioDone
  <2>4. QED
    BY <2>1, <2>2, <2>3
<1>6. QED
  BY <1>1, <1>2, <1>3, <1>4, <1>5 DEF Cared, Ahead, Asked

LEMMA DueWrite ==
  ASSUME Inv, Write, NEW o \in Object, Cared(o)
  PROVE  Cared(o)'
<1>1. /\ pc = "write" /\ filed' = filed \cup found /\ UNCHANGED <<groups, left>>
  BY DEF Write, Filed, view
<1>2. CASE o \in filed \/ o \in found
  BY <1>1, <1>2 DEF Cared
<1>3. CASE o.gv \in groups \/ \E i \in left : Resources[i] = Source(o)
  BY <1>1, <1>3 DEF Cared, Ahead, Source
<1>4. QED
  BY <1>1, <1>2, <1>3 DEF Cared, Ahead, Asked

LEMMA DueTrilio ==
  ASSUME Inv, OrderInv, CollectTrilio, NEW o \in Object, Wanted(o), Cared(o), o \notin missed'
  PROVE  Cared(o)'
<1>0. PICK r \in Resource :
        /\ Take(r)
        /\ \E failed \in SUBSET Calls(r, spaces) :
             /\ missed' = missed \cup (Answers(r, {}) \ Answers(r, failed))
             /\ filed' = filed \cup (Answers(r, failed) \cap present)
  BY DEF CollectTrilio, Filed
<1>1. PICK failed \in SUBSET Calls(r, spaces) :
        /\ Take(r)
        /\ missed' = missed \cup (Answers(r, {}) \ Answers(r, failed))
        /\ filed' = filed \cup (Answers(r, failed) \cap present)
  BY <1>0
<1>2. pc = "trilio" /\ pc' = "trilio" /\ UNCHANGED <<groups, found>>
  BY DEF CollectTrilio
<1>3. PICK i \in left : r = Resources[i] /\ left' = left \ {i}
  BY <1>1, TakenFacts DEF Inv
<1>4. CASE o \in filed
  BY <1>1, <1>4 DEF Cared
<1>5. CASE o \in found \/ o.gv \in groups
  BY <1>2, <1>5 DEF Cared, Ahead
<1>6. CASE \E j \in left : Resources[j] = Source(o) /\ j # i
  BY <1>3, <1>6 DEF Cared, Ahead, Source
<1>7. CASE r = Source(o)
  <2>1. PICK c \in Calls(r, spaces) : o \in Answer(r, c)
    BY <1>7, Answered DEF OrderInv, Wanted, Answer
  <2>2. o \in Answers(r, {})
    BY <2>1 DEF Answers
  <2>3. o \in Answers(r, failed) \cap present
    BY <1>1, <2>2 DEF Wanted
  <2>4. QED
    BY <1>1, <2>3 DEF Cared
<1>8. QED
  BY <1>2, <1>3, <1>4, <1>5, <1>6, <1>7 DEF Cared, Ahead, Asked

LEMMA DueStart ==
  ASSUME Inv, Start, exit' = "none", NEW o \in Object, Cared(o), o \notin missed'
  PROVE  Cared(o)'
<1>1. CASE CheckNamespaces
  BY <1>1 DEF CheckNamespaces, Cared, Ahead
<1>2. CASE NamespaceUnknown \/ DiscoverFails
  BY <1>2 DEF NamespaceUnknown, DiscoverFails, Stop
<1>3. CASE Discover
  <2>1. PICK lost : groups' = Groups \ lost /\ missed' = missed \cup {x \in Object : x.gv \in lost}
    BY <1>3 DEF Discover
  <2>2. o.gv \in Groups
    BY SourceFacts DEF Groups
  <2>3. QED
    BY <2>1, <2>2 DEF Cared, Ahead
<1>4. CASE AskOpenShift
  <2>1. pc = "openshift" /\ UNCHANGED <<groups, left, found, filed>>
    BY <1>4 DEF AskOpenShift
  <2>2. QED
    BY <2>1 DEF Cared, Ahead, Asked, Source
<1>5. QED
  BY <1>1, <1>2, <1>3, <1>4 DEF Start

LEMMA DueFollow ==
  ASSUME Inv, Follow \/ Vanish, NEW o \in Object, Cared(o)
  PROVE  Cared(o)'
<1>1. UNCHANGED <<settings, cluster, groups, left, res, found>>
  BY DEF Follow, Vanish, GetVolumes, GetVolumesFails, GetPodClaims, PodClaimsFail, GetEvents,
         WriteEventsFails, world
<1>2. pc' = pc \/ pc \notin {"namespaces", "discover", "gvk", "ocp", "policy"}
  BY DEF Follow, Vanish, GetVolumes, GetVolumesFails, GetPodClaims, PodClaimsFail, GetEvents,
         WriteEventsFails
<1>3. filed \subseteq filed'
  BY FiledKept DEF Next
<1>4. QED
  BY <1>1, <1>2, <1>3 DEF Cared, Ahead, Asked, Source

LEMMA DueNext == Inv /\ OrderInv /\ DueInv /\ [Next]_vars => DueInv'
<1>1. ASSUME Inv, OrderInv, DueInv, Next PROVE DueInv'
  <2>1. SUFFICES ASSUME Sound', NEW o \in Object, Wanted(o)' PROVE Cared(o)'
    BY DEF DueInv
  <2>2. Wanted(o) /\ Cared(o) /\ o \notin missed' /\ exit = "none"
    BY <1>1, <2>1, WantedKept, Running DEF DueInv, Sound, Wanted, Inv
  <2>3. CASE Start
    <3>1. exit' = "none"
      BY <2>1, <2>2, <2>3 DEF Start, CheckNamespaces, NamespaceUnknown, Discover, DiscoverFails,
                              AskOpenShift, Stop, Sound
    <3>2. QED
      BY <1>1, <2>2, <2>3, <3>1, DueStart
  <2>4. CASE Visit
    <3>1. ~FilterPanics /\ ~WriteFails
      BY <2>1 DEF FilterPanics, WriteFails, Stop, Sound
    <3>2. QED
      BY <1>1, <2>2, <2>4, <3>1, DueBetween, DueFilter, DueList, DueWrite DEF Visit
  <2>5. CASE VisitTrilio
    <3>1. ~CollectTrilioFails
      BY <2>1 DEF CollectTrilioFails, Stop, Sound
    <3>2. QED
      BY <1>1, <2>2, <2>5, <3>1, DueBetween, DueTrilio DEF VisitTrilio
  <2>6. CASE Follow \/ Vanish
    BY <1>1, <2>2, <2>6, DueFollow
  <2>7. QED
    BY <1>1, <2>3, <2>4, <2>5, <2>6 DEF Next
<1>2. ASSUME DueInv, UNCHANGED vars PROVE DueInv'
  BY <1>2 DEF vars, DueInv, Sound, Wanted, Cared, Ahead, Asked, Source, Promised,
              ByDefault, ByLabel, ByKind, InNamespaces, MatchLabelSelectors, Satisfies, Clustered
<1>3. QED
  BY <1>1, <1>2

(***************************************************************************)
(* What comes by way of pods and claims.                                   *)
(***************************************************************************)

PodInv == PodsIn(Collected) \subseteq pods
ClaimInv == \A o \in Claims : Id(o) \in claims => o \in Collected
PodClaimInv ==
  pc \in Behind \cup {"done"} =>
    \A o \in ClaimsOf(PodsIn(Collected)) \cap (present \ missed) : o \in filed
VolumeInv == \A v \in VolumesUsed(Collected) \cap (present \ missed) : v \in filed \/ v.name \in volumes
WayInv == Sound => PodInv /\ ClaimInv /\ PodClaimInv /\ VolumeInv

\* Files of objects of the cluster.
LEMMA YamlGrows ==
  ASSUME Typed, NEW S, S \subseteq Object, Put(Yamls(S))
  PROVE  /\ Collected' \subseteq Collected \cup S /\ S \subseteq Collected'
         /\ \A o \in Collected : o.kind \in {"Pod", "PersistentVolumeClaim"} => o \in Collected'
<1>1. Yamls(S) \subseteq [object : Object, shows : SUBSET Parts] /\ \A w \in Yamls(S) : w.object \in S
  BY YamlFacts
<1>2. /\ Collected' \subseteq Collected \cup S
      /\ \A o \in Collected : o.kind \in {"Pod", "PersistentVolumeClaim"} => o \in Collected'
      /\ \A w \in Yamls(S) : w.object \in Collected'
  BY <1>1, CollectedGrows
<1>3. S \subseteq Collected'
  BY <1>2, YamlFacts
<1>4. QED
  BY <1>2, <1>3

LEMMA CoreKinds ==
  \A o \in Object : o.kind \in {"PersistentVolumeClaim", "PersistentVolume"} => o.gv = Core
OBVIOUS

\* Claims and volumes replace nothing but themselves.
LEMMA CoreGrows ==
  ASSUME Typed, NEW S, S \subseteq Claims \cup Volumes, Put(Yamls(S))
  PROVE  Collected' = Collected \cup S
<1>1. S \subseteq Object /\ \A o \in S : o.kind \in {"PersistentVolumeClaim", "PersistentVolume"}
  BY DEF Claims, Volumes
<1>2. ASSUME NEW o \in Collected PROVE o \in Collected'
  <2>1. PICK f \in files : f.object = o
    BY DEF Collected
  <2>2. CASE f \in files'
    BY <2>1, <2>2 DEF Collected
  <2>3. CASE f \notin files'
    <3>1. PICK w \in Yamls(S) : Path(f.object) = Path(w.object)
      BY <2>3, PutFacts
    <3>2. w.object \in S /\ o \in Object
      BY <1>1, <2>1, YamlFacts DEF Typed, TypeOK
    <3>3. o.kind = w.object.kind /\ o.ns = w.object.ns /\ o.name = w.object.name
      BY <2>1, <3>1 DEF Path
    <3>4. o.gv = Core /\ w.object.gv = Core /\ w.object \in Object
      <4>1. w.object \in Object /\ w.object.kind \in {"PersistentVolumeClaim", "PersistentVolume"}
        BY <1>1, <3>2
      <4>2. o.kind \in {"PersistentVolumeClaim", "PersistentVolume"}
        BY <3>3, <4>1
      <4>3. QED
        BY <3>2, <4>1, <4>2, CoreKinds
    <3>5. w.object = o
      BY <3>2, <3>3, <3>4
    <3>6. QED
      BY <1>1, <3>2, <3>5, YamlGrows
  <2>4. QED
    BY <2>2, <2>3
<1>3. QED
  BY <1>1, <1>2, YamlGrows

\* What a step writes of Trilio's own.
LEMMA TrilioGrows ==
  ASSUME Inv, CollectTrilio
  PROVE  \E S : /\ S \subseteq Object /\ \A o \in S : o.gv = Trilio
                /\ Put({TrilioYaml(o) : o \in S})
                /\ Collected' \subseteq Collected \cup S /\ S \subseteq Collected'
                /\ \A o \in Collected : o.kind \in {"Pod", "PersistentVolumeClaim"} => o \in Collected'
<1>0. PICK r \in Resource :
        Take(r) /\ \E failed \in SUBSET Calls(r, spaces) :
                     Put({TrilioYaml(o) : o \in Answers(r, failed) \cap present})
  BY DEF CollectTrilio
<1>1. PICK failed \in SUBSET Calls(r, spaces) :
        Take(r) /\ Put({TrilioYaml(o) : o \in Answers(r, failed) \cap present})
  BY <1>0
<1>2. DEFINE S == Answers(r, failed) \cap present
<1>3. r.gv = Trilio
  BY <1>1, TakeFacts DEF CollectTrilio, Inv, GroupInv
<1>4. S \subseteq Object /\ \A o \in S : o.gv = Trilio
  BY <1>3 DEF Answers, Answer, Of
<1>5. \A o \in S : TrilioYaml(o).object = o
  BY DEF TrilioYaml
<1>6. DEFINE W == {TrilioYaml(o) : o \in S}
<1>7. W \subseteq [object : Object, shows : SUBSET Parts] /\ \A w \in W : w.object \in S
  BY <1>4, TrilioFacts
<1>8. Put(W)
  BY <1>1
<1>9. \A o \in S : \E w \in W : w.object = o
  BY <1>5
<1>10. /\ Collected' \subseteq Collected \cup S
       /\ \A o \in Collected : o.kind \in {"Pod", "PersistentVolumeClaim"} => o \in Collected'
       /\ \A w \in W : w.object \in Collected'
  <2> HIDE DEF S, W
  <2>1. QED
    BY <1>4, <1>7, <1>8, CollectedGrows DEF Inv
<1>11. S \subseteq Collected'
  BY <1>9, <1>10
<1>12. QED
  BY <1>4, <1>8, <1>10, <1>11

\* Steps that write no file.
LEMMA WayKept ==
  ASSUME WayInv, UNCHANGED <<files, filed, pods, claims, volumes>>, present' \subseteq present,
         missed \subseteq missed', Sound, pc' \in Behind \cup {"done"} => pc \in Behind \cup {"done"}
  PROVE  WayInv'
<1>1. Collected' = Collected
  BY DEF Collected
<1>2. (PodInv /\ ClaimInv)'
  BY <1>1 DEF WayInv, PodInv, ClaimInv, PodsIn, Claims, Id
<1>3. PodClaimInv'
  BY <1>1 DEF WayInv, PodClaimInv, PodsIn, Claims, ClaimsOf
<1>4. VolumeInv'
  BY <1>1 DEF WayInv, VolumeInv, VolumesUsed, VolumesOf, Volumes, Claims
<1>5. QED
  BY <1>2, <1>3, <1>4 DEF WayInv

\* What a resource brings is of its kind, and each object of it leaves a file by its
\* name: its own or, where two groups share a kind, that of the policy.
LEMMA LastingFacts ==
  ASSUME Inv, pc = "write", NEW S, S \subseteq found
  PROVE  /\ Lasting(S) \subseteq S /\ S \subseteq Object
         /\ \A o \in S : o.kind = res.kind /\ (o.gv = res.gv \/ IsPolicy(o))
         /\ \A o \in S : \E q \in Lasting(S) : Path(q) = Path(o)
         /\ res.kind \in {"Pod", "PersistentVolumeClaim"} => Lasting(S) = S
<1>1. found \subseteq Comes(res)
  BY DEF Inv, Typed, TypeOK
<1>2. \A o \in Comes(res) : o.kind = res.kind /\ (o.gv = res.gv \/ IsPolicy(o))
  BY DEF Comes, Of, Policies, IsPolicy
<1>3. \A o \in S : o \in Object /\ o.kind = res.kind /\ (o.gv = res.gv \/ IsPolicy(o))
  BY <1>1, <1>2, ComesFacts
<1>4. ASSUME NEW o \in S, NEW q \in S, Path(q) = Path(o), q.gv = o.gv PROVE q = o
  <2>1. q.kind = o.kind /\ q.ns = o.ns /\ q.name = o.name
    BY <1>4 DEF Path
  <2>2. QED
    BY <1>3, <1>4, <2>1
<1>5. ASSUME NEW o \in S PROVE \E q \in Lasting(S) : Path(q) = Path(o)
  <2>1. CASE \E q \in S : Path(q) = Path(o) /\ q.gv = Networking
    BY <2>1 DEF Lasting
  <2>2. CASE \A q \in S : Path(q) = Path(o) => q.gv # Networking
    <3>1. \A q \in S : Path(q) = Path(o) => q.gv = res.gv
      BY <1>3, <2>2 DEF IsPolicy
    <3>2. \A q \in S : Path(q) = Path(o) => q = o
      BY <1>4, <3>1
    <3>3. QED
      BY <3>2 DEF Lasting
  <2>3. QED
    BY <2>1, <2>2
<1>6. ASSUME res.kind \in {"Pod", "PersistentVolumeClaim"} PROVE Lasting(S) = S
  <2>1. \A o \in S : o.gv = Core
    BY <1>3, <1>6
  <2>2. QED
    BY <1>4, <2>1 DEF Lasting
<1>7. QED
  BY <1>3, <1>5, <1>6 DEF Lasting

LEMMA WriteFacts ==
  ASSUME Inv, Write
  PROVE  /\ Put(Yamls(Lasting(found))) /\ filed' = filed \cup found
         /\ Collected' \subseteq Collected \cup found /\ Lasting(found) \subseteq Collected'
         /\ \A o \in Collected : o.kind \in {"Pod", "PersistentVolumeClaim"} => o \in Collected'
         /\ res.kind \in {"Pod", "PersistentVolumeClaim"} => found \subseteq Collected'
<1>1. pc = "write" /\ Put(Yamls(Lasting(found))) /\ filed' = filed \cup found
  BY DEF Write, Filed
<1>2. /\ Lasting(found) \subseteq found /\ found \subseteq Object
      /\ res.kind \in {"Pod", "PersistentVolumeClaim"} => Lasting(found) = found
  BY <1>1, LastingFacts
<1>3. Lasting(found) \subseteq Object
  BY <1>2
<1>4. QED
  BY <1>1, <1>2, <1>3, YamlGrows DEF Inv

LEMMA WayWrite == ASSUME Inv, WayInv, Write, Sound PROVE WayInv'
<1>1. /\ pc = "write" /\ UNCHANGED <<present, missed>> /\ volumes = {} /\ pc' \in {"resource", "volumes"}
      /\ pods' = (IF res.kind = "Pod" THEN pods \cup found ELSE pods)
      /\ claims' = (IF IsClaim(res) THEN claims \cup {Id(o) : o \in found} ELSE claims)
      /\ volumes' = (IF IsClaim(res) THEN VolumesOf(found) ELSE {})
  BY DEF Write, Inv, Typed, PlaceInv, Inside
<1>2. /\ Collected' \subseteq Collected \cup found /\ filed' = filed \cup found
      /\ res.kind \in {"Pod", "PersistentVolumeClaim"} => found \subseteq Collected'
      /\ \A o \in Collected : o.kind \in {"Pod", "PersistentVolumeClaim"} => o \in Collected'
  BY WriteFacts
<1>3. found \subseteq Object /\ \A o \in found : o.kind = res.kind
  BY <1>1, LastingFacts
<1>4. PodInv'
  <2>1. ASSUME NEW o \in PodsIn(Collected') PROVE o \in pods'
    BY <1>1, <1>2, <1>3 DEF PodsIn, WayInv, PodInv
  <2>2. QED
    BY <2>1 DEF PodInv, PodsIn
<1>5. ClaimInv'
  <2>1. ASSUME NEW o \in Claims, Id(o) \in claims' PROVE o \in Collected'
    <3>1. CASE Id(o) \in claims
      BY <1>2, <3>1 DEF WayInv, ClaimInv, Claims
    <3>2. CASE Id(o) \notin claims
      <4>1. PICK x \in found : Id(x) = Id(o) /\ IsClaim(res)
        BY <1>1, <2>1, <3>2
      <4>2. x.kind = o.kind /\ x.ns = o.ns /\ x.name = o.name /\ x \in Object /\ o \in Object
        BY <1>1, <1>3, <4>1 DEF IsClaim, Claims, Id
      <4>3. x.gv = o.gv
        BY <4>2 DEF Claims
      <4>4. x = o
        BY <4>2, <4>3
      <4>5. QED
        BY <1>2, <4>1, <4>4 DEF IsClaim
    <3>3. QED
      BY <3>1, <3>2
  <2>2. QED
    BY <2>1 DEF ClaimInv, Claims, Id
<1>6. VolumeInv'
  <2>1. ASSUME NEW v \in VolumesUsed(Collected'), v \in present \ missed
        PROVE  v \in filed' \/ v.name \in volumes'
    <3>1. PICK c \in Collected' \cap Claims : c.pv = v.name
      BY <2>1 DEF VolumesUsed, VolumesOf
    <3>2. CASE c \in found
      BY <1>1, <1>3, <2>1, <3>1, <3>2 DEF Claims, IsClaim, VolumesOf, VolumesUsed
    <3>3. CASE c \in Collected
      <4>1. v \in VolumesUsed(Collected)
        BY <2>1, <3>1, <3>3 DEF VolumesUsed, VolumesOf
      <4>2. v \in filed
        BY <1>1, <2>1, <4>1 DEF WayInv, VolumeInv
      <4>3. QED
        BY <1>2, <4>2
    <3>4. QED
      BY <1>2, <3>1, <3>2, <3>3
  <2>2. QED
    BY <1>1, <2>1 DEF VolumeInv, VolumesUsed, VolumesOf, Volumes, Claims
<1>7. QED
  BY <1>1, <1>4, <1>5, <1>6 DEF WayInv, PodClaimInv, Behind

LEMMA WayTrilio == ASSUME Inv, WayInv, CollectTrilio, Sound PROVE WayInv'
<1>1. /\ pc = "trilio" /\ pc' = "trilio" /\ UNCHANGED <<pods, claims, volumes, present>> /\ missed \subseteq missed'
      /\ filed \subseteq filed'
  BY DEF CollectTrilio, Filed, gathered
<1>2. PICK S : /\ S \subseteq Object /\ \A o \in S : o.gv = Trilio
               /\ Put({TrilioYaml(o) : o \in S})
               /\ Collected' \subseteq Collected \cup S
               /\ \A o \in Collected : o.kind \in {"Pod", "PersistentVolumeClaim"} => o \in Collected'
  BY TrilioGrows
<1>3. \A o \in S : o.kind \notin {"Pod", "PersistentVolumeClaim"}
  BY <1>2 DEF Trilio, Core
<1>4. PodsIn(Collected') \subseteq PodsIn(Collected) /\ Collected' \cap Claims = Collected \cap Claims
  BY <1>2, <1>3 DEF PodsIn, Claims
<1>5. PodInv'
  BY <1>1, <1>4 DEF WayInv, PodInv, PodsIn
<1>6. ClaimInv'
  <2>1. \A o \in Claims : Id(o) \in claims' => o \in Collected'
    BY <1>1, <1>4 DEF WayInv, ClaimInv
  <2>2. QED
    BY <2>1 DEF ClaimInv, Claims, Id
<1>7. VolumeInv'
  <2>1. VolumesUsed(Collected') = VolumesUsed(Collected)
    BY <1>4 DEF VolumesUsed
  <2>2. \A v \in VolumesUsed(Collected') \cap (present' \ missed') : v \in filed' \/ v.name \in volumes'
    BY <1>1, <1>2, <2>1 DEF WayInv, VolumeInv
  <2>3. QED
    BY <2>2 DEF VolumeInv, VolumesUsed, VolumesOf, Volumes, Claims
<1>8. QED
  BY <1>1, <1>5, <1>6, <1>7 DEF WayInv, PodClaimInv, Behind

\* The volumes of claims: each is written, missed or gone.
LEMMA WayVolumes ==
  ASSUME Inv, WayInv, GetVolumes \/ GetVolumesFails, Sound, Sound'
  PROVE  WayInv'
<1>1. /\ UNCHANGED <<pods, claims, present>> /\ missed \subseteq missed' /\ volumes' = {}
      /\ filed \subseteq filed' /\ pc \in {"volumes", "podVolumes"}
      /\ pc' \in Behind \cup {"done"} => pc \in Behind
  BY DEF GetVolumes, GetVolumesFails, Stop, Sound, Behind, Filed
<1>2. PICK S \in SUBSET Sought : Put(Yamls(S)) /\ S \subseteq filed' /\ \A v \in Sought : v \in S \/ v \in missed' \/ v \notin present
  <2>1. CASE GetVolumes
    <3>1. PICK refused \in SUBSET Sought :
            /\ missed' = missed \cup refused /\ Put(Yamls((Sought \ refused) \cap present))
            /\ Filed((Sought \ refused) \cap present)
      BY <2>1 DEF GetVolumes
    <3>2. QED
      BY <3>1 DEF Filed
  <2>2. CASE GetVolumesFails
    <3>1. PICK some \in SUBSET (Sought \cap present) : Put(Yamls(some)) /\ Filed(some)
      BY <2>2 DEF GetVolumesFails
    <3>2. missed' = missed \cup Sought
      BY <2>2 DEF GetVolumesFails
    <3>3. QED
      BY <3>1, <3>2 DEF Filed
  <2>3. QED
    BY <2>1, <2>2
<1>3. S \subseteq Volumes /\ S \subseteq Object
  BY <1>2 DEF Sought, Volumes
<1>4. Collected' = Collected \cup S
  BY <1>2, <1>3, CoreGrows DEF Inv
<1>5. PodsIn(Collected') = PodsIn(Collected) /\ Collected' \cap Claims = Collected \cap Claims
  BY <1>3, <1>4 DEF PodsIn, Claims, Volumes
<1>6. PodInv'
  BY <1>1, <1>5 DEF WayInv, PodInv, PodsIn
<1>7. ClaimInv'
  <2>1. \A o \in Claims : Id(o) \in claims' => o \in Collected'
    BY <1>1, <1>5 DEF WayInv, ClaimInv
  <2>2. QED
    BY <2>1 DEF ClaimInv, Claims, Id
<1>8. VolumeInv'
  <2>1. VolumesUsed(Collected') = VolumesUsed(Collected)
    BY <1>5 DEF VolumesUsed
  <2>2. ASSUME NEW v \in VolumesUsed(Collected'), v \in present' \ missed'
        PROVE  v \in filed'
    <3>1. v \in filed \/ v.name \in volumes
      BY <1>1, <2>1, <2>2 DEF WayInv, VolumeInv
    <3>2. v.name \in volumes => v \in S
      BY <1>1, <1>2, <2>2 DEF Sought, VolumesUsed
    <3>3. QED
      BY <1>1, <1>2, <3>1, <3>2
  <2>3. QED
    BY <2>2 DEF VolumeInv, VolumesUsed, VolumesOf, Volumes, Claims
<1>9. PodClaimInv'
  <2>1. ASSUME pc' \in Behind \cup {"done"},
               NEW o \in ClaimsOf(PodsIn(Collected')) \cap (present' \ missed')
        PROVE  o \in filed'
    <3>1. o \in filed
      BY <1>1, <1>5, <2>1 DEF WayInv, PodClaimInv
    <3>2. QED
      BY <1>1, <3>1
  <2>2. QED
    BY <2>1 DEF PodClaimInv, ClaimsOf, PodsIn, Claims
<1>10. QED
  BY <1>6, <1>7, <1>8, <1>9 DEF WayInv

\* The claims of pods: each is there from a group, written, missed or gone.
LEMMA WayPodClaims == ASSUME Inv, FiledInv, WayInv, GetPodClaims, Sound PROVE WayInv'
<1>1. PICK failed \in SUBSET Unclaimed :
        /\ missed' = missed \cup failed
        /\ Put(Yamls((Unclaimed \ failed) \cap present))
        /\ filed' = filed \cup ((Unclaimed \ failed) \cap present)
        /\ claims' = claims \cup {Id(o) : o \in (Unclaimed \ failed) \cap present}
        /\ volumes' = VolumesOf((Unclaimed \ failed) \cap present)
  BY DEF GetPodClaims, Filed
<1>2. DEFINE got == (Unclaimed \ failed) \cap present
<1>3. got \subseteq Claims /\ got \subseteq Object
  BY DEF Unclaimed, ClaimsOf, Claims
<1>4. UNCHANGED <<pods, present>> /\ volumes = {} /\ pc = "group"
  BY DEF GetPodClaims, Inv, Typed, PlaceInv
<1>5. Collected' = Collected \cup got
  BY <1>1, <1>3, CoreGrows DEF Inv
<1>6. PodsIn(Collected') = PodsIn(Collected)
  BY <1>3, <1>5 DEF PodsIn, Claims
<1>7. PodInv'
  BY <1>4, <1>6 DEF WayInv, PodInv, PodsIn
<1>8. ClaimInv'
  <2>1. ASSUME NEW o \in Claims, Id(o) \in claims' PROVE o \in Collected'
    <3>1. CASE Id(o) \in claims
      BY <1>5, <3>1 DEF WayInv, ClaimInv
    <3>2. CASE Id(o) \notin claims
      <4>1. PICK x \in got : Id(x) = Id(o)
        BY <1>1, <2>1, <3>2
      <4>2. x.kind = o.kind /\ x.ns = o.ns /\ x.name = o.name /\ x \in Object /\ o \in Object
        BY <1>3, <4>1 DEF Claims, Id
      <4>3. x.gv = o.gv
        BY <4>2 DEF Claims
      <4>4. x = o
        BY <4>2, <4>3
      <4>5. QED
        BY <1>5, <4>1, <4>4
    <3>3. QED
      BY <3>1, <3>2
  <2>2. QED
    BY <2>1 DEF ClaimInv, Claims, Id
<1>9. VolumeInv'
  <2>1. ASSUME NEW v \in VolumesUsed(Collected'), v \in present' \ missed'
        PROVE  v \in filed' \/ v.name \in volumes'
    <3>1. PICK c \in Collected' \cap Claims : c.pv = v.name /\ v.name # NoNs
      BY <2>1 DEF VolumesUsed, VolumesOf
    <3>2. CASE c \in got
      BY <1>1, <3>1, <3>2 DEF VolumesOf
    <3>3. CASE c \in Collected
      <4>1. v \in VolumesUsed(Collected)
        BY <2>1, <3>1, <3>3 DEF VolumesUsed, VolumesOf
      <4>2. v \in filed
        BY <1>1, <1>4, <2>1, <4>1 DEF WayInv, VolumeInv
      <4>3. QED
        BY <1>1, <4>2
    <3>4. QED
      BY <1>5, <3>1, <3>2, <3>3
  <2>2. QED
    BY <2>1 DEF VolumeInv, VolumesUsed, VolumesOf, Volumes, Claims
<1>10. PodClaimInv'
  <2>1. ASSUME NEW o \in ClaimsOf(PodsIn(Collected')) \cap (present' \ missed')
        PROVE  o \in filed'
    <3>1. o \in ClaimsOf(pods) /\ o \in Claims
      BY <1>6, <2>1 DEF ClaimsOf, WayInv, PodInv
    <3>2. CASE Id(o) \in claims
      <4>1. o \in Collected
        BY <3>1, <3>2 DEF WayInv, ClaimInv
      <4>2. o \in filed
        BY <4>1 DEF FiledInv
      <4>3. QED
        BY <1>1, <4>2
    <3>3. CASE Id(o) \notin claims
      <4>1. o \in got
        BY <1>1, <1>4, <2>1, <3>1, <3>3 DEF Unclaimed
      <4>2. QED
        BY <1>1, <4>1
    <3>4. QED
      BY <3>2, <3>3
  <2>2. QED
    BY <2>1 DEF PodClaimInv, ClaimsOf, PodsIn, Claims
<1>11. QED
  BY <1>7, <1>8, <1>9, <1>10 DEF WayInv

LEMMA WayNext == Inv /\ FiledInv /\ WayInv /\ [Next]_vars => WayInv'
<1>1. ASSUME Inv, FiledInv, WayInv, Next PROVE WayInv'
  <2>1. SUFFICES ASSUME Sound' PROVE WayInv'
    BY DEF WayInv
  <2>2. Sound /\ present' \subseteq present /\ missed \subseteq missed'
    BY <1>1, Running, StepFacts DEF Sound, Inv
  <2>3. CASE Start
    <3>1. /\ UNCHANGED <<files, filed, pods, claims, volumes>>
          /\ pc' \in Behind \cup {"done"} => pc \in Behind \cup {"done"}
      BY <2>1, <2>3 DEF Start, CheckNamespaces, NamespaceUnknown, Discover, DiscoverFails, AskOpenShift,
                        Stop, Sound, gathered, Behind
    <3>2. QED
      BY <1>1, <2>2, <3>1, WayKept
  <2>4. CASE Visit
    <3>1. CASE Write
      BY <1>1, <2>2, <3>1, WayWrite
    <3>2. CASE ~Write
      <4>1. UNCHANGED <<files, filed, pods, claims, volumes>> /\ pc' \notin Behind \cup {"done"}
        BY <2>1, <2>4, <3>2, AfterFacts
        DEF Visit, NextGroup, RememberEvents, Filter, FilterPanics, ListGvk, ListOcp, ListPolicies, WriteFails,
            GroupDone, Stop, Sound, gathered, Behind, Inside
      <4>2. QED
        BY <1>1, <2>2, <4>1, WayKept
    <3>3. QED
      BY <3>1, <3>2
  <2>5. CASE VisitTrilio
    <3>1. CASE CollectTrilio
      BY <1>1, <2>2, <3>1, WayTrilio
    <3>2. CASE CollectTrilioFails
      BY <2>1, <3>2 DEF CollectTrilioFails, Stop, Sound
    <3>3. CASE TrilioDone
      <4>1. UNCHANGED <<files, filed, pods, claims, volumes>> /\ pc' \notin Behind \cup {"done"}
        BY <3>3 DEF TrilioDone, gathered, Behind
      <4>2. QED
        BY <1>1, <2>2, <4>1, WayKept
    <3>4. QED
      BY <2>5, <3>1, <3>2, <3>3 DEF VisitTrilio
  <2>6. CASE Follow
    <3>1. CASE GetVolumes \/ GetVolumesFails
      BY <1>1, <2>1, <2>2, <3>1, WayVolumes
    <3>2. CASE GetPodClaims
      BY <1>1, <2>2, <3>2, WayPodClaims
    <3>3. CASE PodClaimsFail \/ WriteEventsFails
      BY <2>1, <3>3 DEF PodClaimsFail, WriteEventsFails, Stop, Sound
    <3>4. CASE GetEvents
      <4>1. UNCHANGED <<files, filed, pods, claims, volumes>> /\ pc \in Behind
        BY <3>4 DEF GetEvents, gathered, Behind
      <4>2. QED
        BY <1>1, <2>2, <4>1, WayKept
    <3>5. QED
      BY <2>6, <3>1, <3>2, <3>3, <3>4 DEF Follow
  <2>7. CASE Vanish
    <3>1. UNCHANGED <<files, filed, pods, claims, volumes, pc>>
      BY <2>7 DEF Vanish, gathered
    <3>2. QED
      BY <1>1, <2>2, <3>1, WayKept
  <2>8. QED
    BY <1>1, <2>3, <2>4, <2>5, <2>6, <2>7 DEF Next
<1>2. ASSUME WayInv, UNCHANGED vars PROVE WayInv'
  <2>1. CASE Sound
    <3>1. UNCHANGED <<files, filed, pods, claims, volumes, pc, present, missed>>
      BY <1>2 DEF vars
    <3>2. QED
      BY <1>2, <2>1, <3>1, WayKept
  <2>2. CASE ~Sound
    BY <1>2, <2>2 DEF vars, WayInv, Sound
  <2>3. QED
    BY <2>1, <2>2
<1>3. QED
  BY <1>1, <1>2

\* Objects are noted as filed when files by their names are written.
LEMMA FiledPut ==
  ASSUME FiledInv, NEW S, S \subseteq Object, NEW W, Put(W), Filed(S),
         \A w \in W : w.object \in S, \A o \in S : \E w \in W : Path(w.object) = Path(o)
  PROVE  FiledInv'
<1>1. filed' = filed \cup S
  BY DEF Filed
<1>2. Collected' \subseteq Collected \cup S
  BY PutFacts DEF Collected
<1>3. ASSUME NEW o \in filed PROVE HasFile(o)'
  BY HasFileKept DEF FiledInv
<1>4. ASSUME NEW o \in S PROVE HasFile(o)'
  <2>1. PICK w \in W : Path(w.object) = Path(o)
    OBVIOUS
  <2>2. w \in files'
    BY PutFacts
  <2>3. w.object \in Collected'
    BY <2>2 DEF Collected
  <2>4. QED
    BY <2>1, <2>3 DEF HasFile, Path
<1>5. QED
  BY <1>1, <1>2, <1>3, <1>4 DEF FiledInv

LEMMA FiledYamls ==
  ASSUME FiledInv, NEW S, S \subseteq Object, Put(Yamls(S)), Filed(S)
  PROVE  FiledInv'
<1>1. \A w \in Yamls(S) : w.object \in S
  BY YamlFacts
<1>2. \A o \in S : \E w \in Yamls(S) : Path(w.object) = Path(o)
  BY YamlFacts
<1>3. QED
  BY <1>1, <1>2, FiledPut

LEMMA FiledWrite == ASSUME Inv, FiledInv, Write \/ WriteFails PROVE FiledInv'
<1>1. PICK S \in SUBSET found : Put(Yamls(Lasting(S))) /\ Filed(S)
  BY DEF Write, WriteFails
<1>2. pc = "write"
  BY DEF Write, WriteFails
<1>3. /\ Lasting(S) \subseteq S /\ S \subseteq Object
      /\ \A o \in S : \E q \in Lasting(S) : Path(q) = Path(o)
  BY <1>2, LastingFacts
<1>4. Lasting(S) \subseteq Object
  BY <1>3
<1>5. \A w \in Yamls(Lasting(S)) : w.object \in S
  BY <1>3, <1>4, YamlFacts
<1>6. ASSUME NEW o \in S PROVE \E w \in Yamls(Lasting(S)) : Path(w.object) = Path(o)
  <2>1. PICK q \in Lasting(S) : Path(q) = Path(o)
    BY <1>3
  <2>2. PICK w \in Yamls(Lasting(S)) : w.object = q
    BY <1>4, <2>1, YamlFacts
  <2>3. QED
    BY <2>1, <2>2
<1>7. QED
  BY <1>1, <1>3, <1>5, <1>6, FiledPut

LEMMA FiledTrilio == ASSUME FiledInv, CollectTrilio \/ CollectTrilioFails PROVE FiledInv'
<1>1. \E S : S \subseteq Object /\ Put({TrilioYaml(o) : o \in S}) /\ Filed(S)
  <2>a. \A r, failed : Answers(r, failed) \subseteq Object
    BY DEF Answers, Answer, Of
  <2>1. CASE CollectTrilio
    <3>1. PICK r \in Resource :
            \E failed \in SUBSET Calls(r, spaces) :
              /\ Put({TrilioYaml(o) : o \in Answers(r, failed) \cap present})
              /\ Filed(Answers(r, failed) \cap present)
      BY <2>1 DEF CollectTrilio
    <3>2. \A failed : Answers(r, failed) \cap present \subseteq Object
      BY <2>a
    <3>3. QED
      BY <3>1, <3>2
  <2>2. CASE CollectTrilioFails
    <3>1. PICK r \in Resource :
            \E some \in SUBSET (Answers(r, {}) \cap present) :
              Put({TrilioYaml(o) : o \in some}) /\ Filed(some)
      BY <2>2 DEF CollectTrilioFails
    <3>2. Answers(r, {}) \cap present \subseteq Object
      BY <2>a
    <3>3. QED
      BY <3>1, <3>2
  <2>3. QED
    BY <2>1, <2>2
<1>2. PICK S : S \subseteq Object /\ Put({TrilioYaml(o) : o \in S}) /\ Filed(S)
  BY <1>1
<1>3. \A o \in S : TrilioYaml(o).object = o
  BY DEF TrilioYaml
<1>4. /\ \A w \in {TrilioYaml(o) : o \in S} : w.object \in S
      /\ \A o \in S : \E w \in {TrilioYaml(x) : x \in S} : Path(w.object) = Path(o)
  BY <1>3
<1>5. QED
  BY <1>2, <1>4, FiledPut

LEMMA FiledFollow ==
  ASSUME FiledInv, GetVolumes \/ GetVolumesFails \/ GetPodClaims \/ PodClaimsFail
  PROVE  FiledInv'
<1>1. Sought \subseteq Object /\ Unclaimed \subseteq Object
  BY DEF Sought, Volumes, Unclaimed, ClaimsOf, Claims
<1>2. \E S : S \subseteq Object /\ Put(Yamls(S)) /\ Filed(S)
  <2>1. CASE GetVolumes
    <3>1. PICK refused : /\ Put(Yamls((Sought \ refused) \cap present))
                         /\ Filed((Sought \ refused) \cap present)
      BY <2>1 DEF GetVolumes
    <3>2. (Sought \ refused) \cap present \subseteq Object
      BY <1>1
    <3>3. QED
      BY <3>1, <3>2
  <2>2. CASE GetVolumesFails
    <3>1. PICK some \in SUBSET (Sought \cap present) : Put(Yamls(some)) /\ Filed(some)
      BY <2>2 DEF GetVolumesFails
    <3>2. QED
      BY <1>1, <3>1
  <2>3. CASE GetPodClaims
    <3>1. PICK failed : /\ Put(Yamls((Unclaimed \ failed) \cap present))
                        /\ Filed((Unclaimed \ failed) \cap present)
      BY <2>3 DEF GetPodClaims
    <3>2. (Unclaimed \ failed) \cap present \subseteq Object
      BY <1>1
    <3>3. QED
      BY <3>1, <3>2
  <2>4. CASE PodClaimsFail
    <3>1. PICK some \in SUBSET (Unclaimed \cap present) : Put(Yamls(some)) /\ Filed(some)
      BY <2>4 DEF PodClaimsFail
    <3>2. QED
      BY <1>1, <3>1
  <2>5. QED
    BY <2>1, <2>2, <2>3, <2>4
<1>3. QED
  BY <1>2, FiledYamls

LEMMA FiledNext == Inv /\ FiledInv /\ [Next]_vars => FiledInv'
<1>1. ASSUME FiledInv, UNCHANGED <<files, filed>> PROVE FiledInv'
  BY <1>1 DEF FiledInv, HasFile, Collected, Path
<1>2. UNCHANGED vars \/ Start \/ Vanish => UNCHANGED <<files, filed>>
  BY DEF vars, Start, CheckNamespaces, NamespaceUnknown, Discover, DiscoverFails, AskOpenShift, Vanish
<1>3. Visit => Write \/ WriteFails \/ UNCHANGED <<files, filed>>
  BY DEF Visit, NextGroup, RememberEvents, Filter, FilterPanics, ListGvk, ListOcp, ListPolicies, GroupDone
<1>4. VisitTrilio => CollectTrilio \/ CollectTrilioFails \/ UNCHANGED <<files, filed>>
  BY DEF VisitTrilio, TrilioDone
<1>5. Follow => \/ GetVolumes \/ GetVolumesFails \/ GetPodClaims \/ PodClaimsFail
                \/ UNCHANGED <<files, filed>>
  BY DEF Follow, GetEvents, WriteEventsFails
<1>6. QED
  BY <1>1, <1>2, <1>3, <1>4, <1>5, FiledWrite, FiledTrilio, FiledFollow DEF Next

(***************************************************************************)
(* Everything promised is in the bundle.                                   *)
(***************************************************************************)

Complete == Inv /\ OrderInv /\ FiledInv /\ DueInv /\ WayInv

LEMMA CompleteInit == Init => Complete
<1> SUFFICES ASSUME Init PROVE Complete
  OBVIOUS
<1>1. pc = "namespaces" /\ files = {} /\ filed = {} /\ pods = {} /\ claims = {}
  BY DEF Init
<1>2. Collected = {}
  BY <1>1 DEF Collected
<1>3. DueInv
  BY <1>1 DEF DueInv, Cared, Ahead
<1>4. WayInv
  BY <1>1, <1>2 DEF WayInv, PodInv, ClaimInv, PodClaimInv, VolumeInv, PodsIn, VolumesUsed, VolumesOf, Behind
<1>5. FiledInv
  BY <1>1, <1>2 DEF FiledInv
<1>6. QED
  BY <1>3, <1>4, <1>5, InvInit, OrderInit DEF Complete

LEMMA CompleteNext == Complete /\ [Next]_vars => Complete'
BY InvNext, OrderNext, FiledNext, DueNext, WayNext DEF Complete

LEMMA CompleteAlways == Spec => []Complete
BY CompleteInit, CompleteNext, PTL DEF Spec

LEMMA CompleteMeans == Complete => CollectedComplete
<1>1. SUFFICES ASSUME Complete, exit = "ok", NEW o \in present \ missed,
                      \/ Promised(o) /\ InNamespaces(o)
                      \/ o \in ClaimsOf(PodsIn(Collected))
                      \/ o \in VolumesUsed(Collected)
               PROVE  o \in Collected \/ Overwritten(o)
  BY DEF CollectedComplete
<1>2. /\ o \in Object /\ Sound /\ pc = "done"
      /\ groups = {} /\ left = {} /\ found = {} /\ volumes = {}
  BY <1>1 DEF Complete, Inv, Typed, TypeOK, OrderInv, Sound
<1>3. o \in filed
  <2>1. CASE Promised(o) /\ InNamespaces(o)
    <3>1. Cared(o)
      BY <1>1, <1>2, <2>1 DEF Complete, DueInv, Wanted
    <3>2. QED
      BY <1>2, <3>1 DEF Cared, Ahead, Asked
  <2>2. CASE o \in ClaimsOf(PodsIn(Collected))
    BY <1>1, <1>2, <2>2 DEF Complete, WayInv, PodClaimInv
  <2>3. CASE o \in VolumesUsed(Collected)
    BY <1>1, <1>2, <2>3 DEF Complete, WayInv, VolumeInv
  <2>4. QED
    BY <1>1, <2>1, <2>2, <2>3
<1>4. PICK c \in Collected : Path(c) = Path(o)
  BY <1>1, <1>3 DEF Complete, FiledInv, HasFile
<1>5. CASE c.gv = o.gv
  <2>1. c \in Object
    BY <1>1 DEF Complete, FiledInv
  <2>2. c.kind = o.kind /\ c.ns = o.ns /\ c.name = o.name
    BY <1>4 DEF Path
  <2>3. QED
    BY <1>2, <1>5, <2>1, <2>2
<1>6. CASE c.gv # o.gv
  BY <1>3, <1>4, <1>6 DEF Overwritten
<1>7. QED
  BY <1>5, <1>6

\* Whatever order the groups are visited in, and however the namespaces grow on
\* the way: when doLogCollection succeeds, what the options select and has neither
\* vanished nor been missed by a failed call is in the bundle, as are the claims of
\* the pods and the volumes of the claims.  Only an object of another group, of the same
\* kind, namespace and name, can take its file away.
THEOREM PromisedIsCollected == Spec => []CollectedComplete
BY CompleteAlways, CompleteMeans, PTL

(***************************************************************************)
(* The collection as a directory that fills.                               *)
(***************************************************************************)

\* What is new among the collected objects was allowed before the step.
LEMMA NewAllowed ==
  ASSUME Inv, Next, NEW o \in Collected', o \notin Collected
  PROVE  o \in Object /\ Allowed(o)
<1>1. ASSUME files' = files PROVE FALSE
  BY <1>1 DEF Collected
<1>2. ASSUME NEW S, S \subseteq Object, Put(Yamls(S)), \A x \in S : Allowed(x)
      PROVE  o \in Object /\ Allowed(o)
  <2>1. Collected' \subseteq Collected \cup S
    BY <1>2, YamlGrows DEF Inv
  <2>2. QED
    BY <1>2, <2>1
<1>3. CASE Write \/ WriteFails
  <2>1. PICK S \in SUBSET found : Put(Yamls(S))
    <3>1. PICK S \in SUBSET found : Put(Yamls(Lasting(S)))
      BY <1>3 DEF Write, WriteFails
    <3>2. Lasting(S) \subseteq found
      BY DEF Lasting
    <3>3. QED
      BY <3>1, <3>2
  <2>2. S \subseteq Object /\ \A x \in S : Allowed(x)
    <3>1. found \subseteq Object /\ \A x \in found : Fit(x)
      BY ComesFacts DEF Inv, Typed, TypeOK, FileInv
    <3>2. QED
      BY <3>1 DEF Allowed
  <2>3. QED
    BY <1>2, <2>1, <2>2
<1>4. CASE CollectTrilio \/ CollectTrilioFails
  <2>1. PICK S \in SUBSET Object :
          Put({TrilioYaml(x) : x \in S}) /\ \A x \in S : Allowed(x)
    BY <1>4, TrilioWrites
  <2>2. DEFINE W == {TrilioYaml(x) : x \in S}
  <2>3. W \subseteq [object : Object, shows : SUBSET Parts] /\ \A w \in W : w.object \in S
    BY TrilioFacts
  <2>4. Put(W)
    BY <2>1
  <2>5. Collected' \subseteq Collected \cup S
    <3> HIDE DEF W
    <3>1. QED
      BY <2>3, <2>4, CollectedGrows DEF Inv
  <2>6. QED
    BY <2>1, <2>5
<1>5. CASE GetVolumes \/ GetVolumesFails
  <2>1. Sought \subseteq Object /\ \A x \in Sought : Allowed(x)
    BY DEF Sought, Volumes, Allowed, VolumesUsed, Inv, FileInv
  <2>2. PICK S : S \subseteq Sought /\ Put(Yamls(S))
    <3>1. CASE GetVolumes
      <4>1. PICK refused \in SUBSET Sought : Put(Yamls((Sought \ refused) \cap present))
        BY <3>1 DEF GetVolumes
      <4>2. QED
        BY <4>1
    <3>2. CASE GetVolumesFails
      <4>1. PICK some \in SUBSET (Sought \cap present) : Put(Yamls(some))
        BY <3>2 DEF GetVolumesFails
      <4>2. QED
        BY <4>1
    <3>3. QED
      BY <1>5, <3>1, <3>2
  <2>3. QED
    BY <1>2, <2>1, <2>2
<1>6. CASE GetPodClaims \/ PodClaimsFail
  <2>1. Unclaimed \subseteq Object /\ \A x \in Unclaimed : Allowed(x)
    BY DEF Unclaimed, ClaimsOf, Claims, Allowed, Inv, FileInv
  <2>2. PICK S : S \subseteq Unclaimed /\ Put(Yamls(S))
    <3>1. CASE GetPodClaims
      <4>1. PICK failed \in SUBSET Unclaimed : Put(Yamls((Unclaimed \ failed) \cap present))
        BY <3>1 DEF GetPodClaims
      <4>2. QED
        BY <4>1
    <3>2. CASE PodClaimsFail
      <4>1. PICK some \in SUBSET (Unclaimed \cap present) : Put(Yamls(some))
        BY <3>2 DEF PodClaimsFail
      <4>2. QED
        BY <4>1
    <3>3. QED
      BY <1>6, <3>1, <3>2
  <2>3. QED
    BY <1>2, <2>1, <2>2
<1>7. CASE Start \/ Vanish
  BY <1>1, <1>7 DEF Start, CheckNamespaces, NamespaceUnknown, Discover, DiscoverFails, AskOpenShift, Vanish
<1>8. CASE NextGroup \/ RememberEvents \/ Filter \/ FilterPanics \/ ListGvk \/ ListOcp \/ ListPolicies
             \/ GroupDone \/ TrilioDone
  BY <1>1, <1>8 DEF NextGroup, RememberEvents, Filter, FilterPanics, ListGvk, ListOcp, ListPolicies,
                    GroupDone, TrilioDone
<1>9. CASE GetEvents \/ WriteEventsFails
  BY <1>1, <1>9 DEF GetEvents, WriteEventsFails
<1>10. QED
  BY <1>3, <1>4, <1>5, <1>6, <1>7, <1>8, <1>9 DEF Next, Visit, VisitTrilio, Follow

\* The parts of the promise, as the collector sees them.
WantedNow == {o \in Object : Promised(o) /\ InNamespaces(o)}
ScopeNow == {o \in Object : Fit(o)}
LostNow == missed \cup (Object \ present)
FileOf == [o \in Object |-> Path(o)]
LeadsOf == [o \in Object |-> ClaimsOf(PodsIn({o})) \cup VolumesUsed({o})]

LEMMA AlongFacts ==
  ASSUME Typed
  PROVE  UNION {LeadsOf[o] : o \in Collected} =
           ClaimsOf(PodsIn(Collected)) \cup VolumesUsed(Collected)
<1>1. Collected \subseteq Object
  BY DEF Typed, TypeOK, Collected
<1>2. \A x : x \in ClaimsOf(PodsIn(Collected)) <=> \E o \in Collected : x \in ClaimsOf(PodsIn({o}))
  BY DEF ClaimsOf, PodsIn
<1>3. \A x : x \in VolumesUsed(Collected) <=> \E o \in Collected : x \in VolumesUsed({o})
  BY DEF VolumesUsed, VolumesOf
<1>4. \A o \in Collected : LeadsOf[o] = ClaimsOf(PodsIn({o})) \cup VolumesUsed({o})
  BY <1>1 DEF LeadsOf
<1>5. \A x : x \in UNION {LeadsOf[o] : o \in Collected} <=> \E o \in Collected : x \in LeadsOf[o]
  OBVIOUS
<1>6. ASSUME NEW x
      PROVE  x \in UNION {LeadsOf[o] : o \in Collected}
               <=> x \in ClaimsOf(PodsIn(Collected)) \/ x \in VolumesUsed(Collected)
  <2>1. x \in UNION {LeadsOf[o] : o \in Collected}
          <=> \E o \in Collected : x \in ClaimsOf(PodsIn({o})) \/ x \in VolumesUsed({o})
    <3>1. \A o \in Collected : x \in LeadsOf[o] <=> x \in ClaimsOf(PodsIn({o})) \/ x \in VolumesUsed({o})
      BY <1>4
    <3> HIDE DEF LeadsOf
    <3>2. QED
      BY <1>5, <3>1, Zenon
  <2>2. QED
    BY <1>2, <1>3, <2>1
<1>7. QED
  BY <1>6

\* A directory has a file by the name of an object's exactly when HasFile says so.
LEMMA NamesOfFiles ==
  ASSUME Typed, NEW o \in Object
  PROVE  FileOf[o] \in {FileOf[c] : c \in Collected} <=> HasFile(o)
<1>1. Collected \subseteq Object
  BY DEF Typed, TypeOK, Collected
<1>2. QED
  BY <1>1 DEF FileOf, HasFile

\* Every step gathers: it writes what is in scope or comes along, and removes nothing.
LEMMA StepGathers ==
  ASSUME Complete, Next
  PROVE  /\ exit = "none"
         /\ Collected' \in SUBSET Object
         /\ Collected' \ Collected \subseteq ScopeNow \cup UNION {LeadsOf[o] : o \in Collected}
         /\ {FileOf[o] : o \in Collected} \subseteq {FileOf[o] : o \in Collected'}
         /\ LostNow' \in SUBSET Object /\ LostNow \subseteq LostNow'
         /\ WantedNow' = WantedNow
<1>1. Inv /\ Typed /\ Typed'
  BY InvNext DEF Complete, Inv
<1>2. exit = "none"
  BY <1>1, Running
<1>3. Collected \subseteq Object /\ Collected' \subseteq Object
  BY <1>1 DEF Typed, TypeOK, Collected
<1>4. Collected' \ Collected \subseteq ScopeNow \cup UNION {LeadsOf[o] : o \in Collected}
  <2>1. ASSUME NEW o \in Collected', o \notin Collected
        PROVE  o \in ScopeNow \cup UNION {LeadsOf[x] : x \in Collected}
    <3>1. o \in Object /\ Allowed(o)
      BY <1>1, <2>1, NewAllowed
    <3>2. QED
      BY <1>1, <3>1, AlongFacts DEF Allowed, ScopeNow
  <2>2. QED
    BY <2>1
<1>5. {FileOf[o] : o \in Collected} \subseteq {FileOf[o] : o \in Collected'}
  <2>1. ASSUME NEW o \in Collected PROVE \E c \in Collected' : FileOf[c] = FileOf[o]
    <3>1. HasFile(o)
      BY DEF HasFile
    <3>2. HasFile(o)'
      BY <1>1, <3>1, FilesStep, HasFileKept
    <3>3. PICK c \in Collected' : Path(c) = Path(o)
      BY <3>2 DEF HasFile, Path
    <3>4. QED
      BY <1>3, <3>3 DEF FileOf
  <2>2. QED
    BY <2>1
<1>6. /\ UNCHANGED <<settings, cluster>> /\ present' \subseteq present /\ missed \subseteq missed'
  BY <1>1, StepFacts
<1>7. LostNow' \in SUBSET Object /\ LostNow \subseteq LostNow'
  BY <1>1, <1>6 DEF LostNow, Typed, TypeOK
<1>8. WantedNow' = WantedNow
  BY <1>6 DEF WantedNow, Promised, ByDefault, ByLabel, ByKind, InNamespaces, MatchLabelSelectors, Satisfies,
              Clustered
<1>9. QED
  BY <1>2, <1>3, <1>4, <1>5, <1>7, <1>8

\* Only the question for OpenShift changes the scope.
LEMMA ScopeStep ==
  ASSUME Complete, Next
  PROVE  \/ ScopeNow' = ScopeNow
         \/ /\ AskOpenShift
            /\ ScopeNow \subseteq ScopeNow' /\ Collected = {} /\ UNCHANGED <<files, missed, present, exit>>
<1>1. Inv /\ Typed
  BY DEF Complete, Inv
<1>2. UNCHANGED <<settings, cluster>>
  BY <1>1, StepFacts
<1>3. CASE shift' = shift
  BY <1>2, <1>3, FitKept DEF ScopeNow
<1>4. CASE AskOpenShift
  <2>1. Collected = {} /\ UNCHANGED <<files, missed, present, exit>>
    BY <1>1, <1>4 DEF AskOpenShift, Inv, GroupInv, Collected
  <2>2. ASSUME NEW o, Fit(o) PROVE Fit(o)' \/ shift
    BY <1>2, <2>2 DEF Fit, MayBePromised, Promised, ByDefault, ByLabel, ByKind, InNamespaces, MatchLabelSelectors,
                      Satisfies, Clustered
  <2>3. CASE shift
    <3>1. ~shift
      BY <1>1, <1>4 DEF AskOpenShift, Inv, GroupInv
    <3>2. QED
      BY <2>3, <3>1
  <2>4. QED
    BY <1>4, <2>1, <2>2, <2>3 DEF ScopeNow
<1>5. CASE ~AskOpenShift
  <2>1. shift' = shift
    BY <1>5 DEF Next, Start, Visit, VisitTrilio, Follow, Vanish, CheckNamespaces, NamespaceUnknown, Discover,
         DiscoverFails, NextGroup, RememberEvents, Filter, FilterPanics, ListGvk, ListOcp,
         ListPolicies, Write, WriteFails, GroupDone, CollectTrilio, CollectTrilioFails, TrilioDone,
         GetVolumes, GetVolumesFails, GetPodClaims, PodClaimsFail, GetEvents, WriteEventsFails, view
  <2>2. QED
    BY <1>3, <2>1
<1>6. QED
  BY <1>4, <1>5

LEMMA SuccessStep ==
  ASSUME Complete, Next, exit' = "ok"
  PROVE  /\ UNCHANGED <<files, missed, present>>
         /\ \A o \in (WantedNow \cup UNION {LeadsOf[x] : x \in Collected}) \ LostNow :
              FileOf[o] \in {FileOf[c] : c \in Collected}
<1>1. Inv /\ Typed /\ exit = "none"
  BY Running DEF Complete, Inv
<1>2. GetEvents
  BY <1>1 DEF Next, Start, Visit, VisitTrilio, Follow, Vanish, CheckNamespaces, NamespaceUnknown, Discover,
     DiscoverFails, AskOpenShift, NextGroup, RememberEvents, Filter, FilterPanics, ListGvk, ListOcp,
     ListPolicies, Write, WriteFails, GroupDone, CollectTrilio, CollectTrilioFails, TrilioDone,
     GetVolumes, GetVolumesFails, GetPodClaims, PodClaimsFail, GetEvents, WriteEventsFails, Stop
<1>3. UNCHANGED <<files, missed, present, settings, cluster>>
  BY <1>2 DEF GetEvents, world
<1>4. Complete'
  BY CompleteNext
<1>5. CollectedComplete'
  BY <1>4, CompleteMeans, PTL
<1>6. Collected' = Collected
  BY <1>3 DEF Collected
<1>7. ASSUME NEW o \in (WantedNow \cup UNION {LeadsOf[x] : x \in Collected}) \ LostNow
      PROVE  FileOf[o] \in {FileOf[c] : c \in Collected}
  <2>1. o \in WantedNow \/ o \in ClaimsOf(PodsIn(Collected)) \/ o \in VolumesUsed(Collected)
    BY <1>1, AlongFacts
  <2>2. o \in Object
    BY <2>1 DEF WantedNow, ClaimsOf, Claims, VolumesUsed, Volumes
  <2>3. o \in present \ missed
    BY <2>2 DEF LostNow
  <2>4. \/ Promised(o)' /\ InNamespaces(o)'
        \/ o \in ClaimsOf(PodsIn(Collected'))
        \/ o \in VolumesUsed(Collected')
    BY <1>3, <1>6, <2>1 DEF WantedNow, Promised, ByDefault, ByLabel, ByKind, InNamespaces, MatchLabelSelectors,
                            Satisfies, Clustered
  <2>5. o \in Collected' \/ Overwritten(o)'
    BY <1>3, <1>5, <2>3, <2>4 DEF CollectedComplete
  <2>6. HasFile(o)
    BY <1>6, <2>5 DEF HasFile, Overwritten, Path
  <2>7. QED
    BY <1>1, <2>2, <2>6, NamesOfFiles
<1>8. QED
  BY <1>3, <1>7

\* Call by call, the collector does what CollectionPromise allows, where a file is known
\* by its name: whose it is after replacements is the matter of PromisedIsCollected.
THEOREM CollectionImplements == Spec => DirectoryFills
<1>1. ASSUME Init PROVE Promise!Init
  <2>1. /\ exit = "none" /\ files = {} /\ missed = {} /\ present = Object
    BY <1>1 DEF Init
  <2>2. Collected = {} /\ LostNow = {}
    BY <2>1 DEF Collected, LostNow
  <2>3. WantedNow \in SUBSET ScopeNow /\ ScopeNow \in SUBSET Object
    BY DEF WantedNow, ScopeNow, Fit, MayBePromised
  <2>4. QED
    BY <2>1, <2>2, <2>3 DEF Promise!Init, WantedNow, ScopeNow, LostNow
<1>2. Complete /\ [Next]_vars => [Promise!Next]_(Promise!vars)
  <2> SUFFICES ASSUME Complete, [Next]_vars PROVE [Promise!Next]_(Promise!vars)
    OBVIOUS
  <2>1. CASE UNCHANGED vars
    <3>1. UNCHANGED <<Collected, WantedNow, ScopeNow, LostNow, exit>>
      BY <2>1 DEF vars, world, view, Collected, WantedNow, ScopeNow, LostNow, Fit, MayBePromised, Promised, ByDefault,
                  ByLabel, ByKind, InNamespaces, MatchLabelSelectors, Satisfies, Clustered
    <3>2. QED
      BY <3>1 DEF Promise!vars, WantedNow, ScopeNow, LostNow
  <2>2. CASE Next
    <3>1. /\ exit = "none" /\ exit' \in {"none", "ok", "failed", "panicked"}
      BY <2>2, InvNext, Running DEF Complete, Inv, Typed, TypeOK
    <3>2. CASE exit' = "ok"
      <4>1. UNCHANGED <<files, missed, present>>
        BY <2>2, <3>2, SuccessStep
      <4>2. Collected' = Collected /\ LostNow' = LostNow
        BY <4>1 DEF Collected, LostNow
      <4>3. ScopeNow' = ScopeNow
        BY <2>2, <3>1, <3>2, ScopeStep
      <4>4. WantedNow' = WantedNow
        BY <2>2, StepGathers
      <4>5. \A o \in (WantedNow \cup UNION {LeadsOf[x] : x \in Collected}) \ LostNow :
              FileOf[o] \in {FileOf[c] : c \in Collected}
        BY <2>2, <3>2, SuccessStep
      <4>6. Promise!Succeed
        BY <3>1, <3>2, <4>2, <4>3, <4>4, <4>5
        DEF Promise!Succeed, Promise!Along, Promise!Files, WantedNow, ScopeNow, LostNow, FileOf, LeadsOf
      <4>7. QED
        BY <4>6 DEF Promise!Next
    <3>3. CASE exit' # "ok" /\ ScopeNow' = ScopeNow
      <4>1. Promise!Gather
        BY <2>2, <3>3, StepGathers
        DEF Promise!Gather, Promise!Along, Promise!Files, WantedNow, ScopeNow, LostNow, FileOf, LeadsOf
      <4>2. QED
        BY <3>1, <3>3, <4>1 DEF Promise!Next, Promise!Collect, Promise!Fail
    <3>4. CASE exit' # "ok" /\ ScopeNow' # ScopeNow
      <4>1. /\ ScopeNow \subseteq ScopeNow' /\ Collected = {} /\ UNCHANGED <<files, missed, present, exit>>
        BY <2>2, <3>4, ScopeStep
      <4>2. Collected' = Collected /\ LostNow' = LostNow
        BY <4>1 DEF Collected, LostNow
      <4>3. WantedNow' = WantedNow /\ ScopeNow' \in SUBSET Object
        BY <2>2, StepGathers DEF ScopeNow
      <4>4. Promise!Widen
        BY <3>1, <4>1, <4>2, <4>3 DEF Promise!Widen, WantedNow, ScopeNow, LostNow
      <4>5. QED
        BY <4>4 DEF Promise!Next
    <3>5. QED
      BY <3>2, <3>3, <3>4
  <2>3. QED
    BY <2>1, <2>2
<1>3. QED
  BY CompleteAlways, <1>1, <1>2, PTL DEF Spec, DirectoryFills, Promise!Spec

(***************************************************************************)
(* The events of what was collected.                                       *)
(***************************************************************************)

NamesInv == \A k \in Kinds : \A id \in names[k] : \E c \in Collected : c.kind = k /\ Id(c) = id
Known(o) ==
  o.gv = Trilio \/ o.ns = NoNs \/ ByTheWay(o) \/ Replaced(o) \/ Id(o) \in names[o.kind]

\* The resource of what was collected is not visited again.
Fresh(o) ==
  o.gv # Trilio /\ o.ns # NoNs /\ ~Doubly(o) =>
    /\ o.gv \notin groups
    /\ \A i \in left : Resources[i] # Source(o)
    /\ pc \in Inside => res # Source(o)

EventInv ==
  /\ pc # "done" => notes = {} /\ NamesInv /\ \A o \in Collected : Known(o) /\ Fresh(o)
  /\ EventsExplained

\* What came by the way only, or is in two groups, stays so.
LEMMA ByTheWayKept ==
  ASSUME UNCHANGED <<settings, cluster>>, missed \subseteq missed', NEW o, ByTheWay(o)
  PROVE  ByTheWay(o)'
BY DEF ByTheWay, Promised, ByDefault, ByLabel, ByKind, InNamespaces, MatchLabelSelectors, Satisfies, Clustered

\* Steps that write no file.
LEMMA EventsKept ==
  ASSUME EventInv, pc # "done", UNCHANGED <<files, names>>, notes' = {}, exit' # "ok",
         UNCHANGED <<settings, cluster>>, missed \subseteq missed',
         pc' # "done" => \A o \in Collected : Fresh(o) => Fresh(o)'
  PROVE  EventInv'
<1>1. Collected' = Collected
  BY DEF Collected
<1>2. EventsExplained'
  BY DEF EventsExplained
<1>3. NamesInv'
  BY <1>1 DEF EventInv, NamesInv, Id
<1>4. \A o \in Collected' : Known(o)'
  BY <1>1, ByTheWayKept DEF EventInv, Known, Replaced, Doubly, Id
<1>5. pc' # "done" => \A o \in Collected' : Fresh(o)'
  BY <1>1 DEF EventInv
<1>6. QED
  BY <1>2, <1>3, <1>4, <1>5 DEF EventInv

LEMMA EventsStart == ASSUME Inv, EventInv, Start PROVE EventInv'
<1>1. /\ pc \in {"namespaces", "discover", "openshift"} /\ UNCHANGED <<files, names, notes>> /\ exit' # "ok"
  BY DEF Start, CheckNamespaces, NamespaceUnknown, Discover, DiscoverFails, AskOpenShift, Stop, Inv, Typed, TypeOK
<1>2. Collected = {} /\ notes' = {}
  BY <1>1 DEF Inv, GroupInv, EventInv, Collected
<1>3. UNCHANGED <<settings, cluster>> /\ missed \subseteq missed'
  BY StepFacts DEF Next, Inv
<1>4. QED
  BY <1>1, <1>2, <1>3, EventsKept

LEMMA EventsBetween ==
  ASSUME Inv, OrderInv, EventInv,
         NextGroup \/ RememberEvents \/ FilterPanics \/ GroupDone \/ TrilioDone \/ Vanish \/ DiscoverFails
  PROVE  EventInv'
<1>1. /\ pc # "done" /\ UNCHANGED <<files, names, notes, res>> /\ exit' # "ok"
  BY DEF NextGroup, RememberEvents, FilterPanics, GroupDone, TrilioDone, Vanish, DiscoverFails, Stop, Inv, Typed,
         TypeOK
<1>a. UNCHANGED <<settings, cluster>> /\ missed \subseteq missed'
  BY StepFacts DEF Next, Start, Visit, VisitTrilio, Inv
<1>2. CASE NextGroup
  <2>1. PICK g \in groups : groups' = groups \ {g} /\ left' = {i \in DOMAIN Resources : Resources[i].gv = g}
    BY <1>2 DEF NextGroup
  <2>2. pc' \notin Inside
    BY <1>2 DEF NextGroup, Inside
  <2>3. ASSUME NEW o \in Collected, Fresh(o) PROVE Fresh(o)'
    <3>1. ASSUME NEW i \in left', o.gv # Trilio, o.ns # NoNs, ~Doubly(o) PROVE Resources[i] # Source(o)
      <4>1. Resources[i].gv = g /\ o.gv # g
        BY <2>1, <2>3, <3>1 DEF Fresh
      <4>2. Source(o).gv = o.gv
        BY DEF Source
      <4>3. QED
        BY <4>1, <4>2
    <3>2. QED
      BY <2>1, <2>2, <2>3, <3>1 DEF Fresh, Doubly, Source
  <2>4. QED
    BY <1>1, <1>a, <2>3, EventsKept DEF EventInv
<1>3. CASE ~NextGroup
  <2>1. left' \subseteq left /\ groups' = groups /\ (pc' \in Inside => pc \in Inside)
    BY <1>3, TakeFacts DEF RememberEvents, FilterPanics, GroupDone, TrilioDone, Vanish, DiscoverFails, Stop, Inside,
                          view, Inv
  <2>2. \A o \in Collected : Fresh(o) => Fresh(o)'
    BY <1>1, <2>1 DEF Fresh, Doubly, Source
  <2>3. QED
    BY <1>1, <1>a, <2>2, EventsKept DEF EventInv
<1>4. QED
  BY <1>2, <1>3

LEMMA EventsList ==
  ASSUME Inv, EventInv, Filter \/ ListGvk \/ ListOcp \/ ListPolicies
  PROVE  EventInv'
<1>1. pc # "done" /\ UNCHANGED <<files, names, notes, groups>> /\ exit' # "ok"
  BY DEF Filter, ListGvk, ListOcp, ListPolicies, Inv, Typed, TypeOK
<1>a. UNCHANGED <<settings, cluster>> /\ missed \subseteq missed'
  BY StepFacts DEF Next, Visit, Inv
<1>2. CASE Filter
  <2>1. PICK r \in Resource : Take(r) /\ res' = r
    BY <1>2 DEF Filter
  <2>2. PICK i \in left : r = Resources[i] /\ left' = left \ {i}
    BY <2>1, TakenFacts DEF Inv
  <2>3. \A o \in Collected : Fresh(o) => Fresh(o)'
    BY <1>1, <2>1, <2>2 DEF Fresh, Doubly, Source
  <2>4. QED
    BY <1>1, <1>a, <2>3, EventsKept DEF EventInv
<1>3. CASE ListGvk \/ ListOcp \/ ListPolicies
  <2>1. UNCHANGED <<left, res>> /\ pc \in Inside
    BY <1>3 DEF ListGvk, ListOcp, ListPolicies, Inside
  <2>2. \A o \in Collected : Fresh(o) => Fresh(o)'
    BY <1>1, <2>1 DEF Fresh, Doubly, Source
  <2>3. QED
    BY <1>1, <1>a, <2>2, EventsKept DEF EventInv
<1>4. QED
  BY <1>2, <1>3

\* A run that ends without success lists no events.
LEMMA EventsEnd ==
  ASSUME pc' = "done", notes' = {}, exit' # "ok"
  PROVE  EventInv'
BY DEF EventInv, EventsExplained

\* Names of what was collected stay, because files are replaced by files of that name.
LEMMA NamesKept ==
  ASSUME NamesInv, NEW written, Put(written), NEW k \in Kinds, NEW id \in names[k]
  PROVE  \E c \in Collected' : c.kind = k /\ Id(c) = id
<1>1. PICK c \in Collected : c.kind = k /\ Id(c) = id
  BY DEF NamesInv
<1>2. HasFile(c)'
  <2>1. HasFile(c)
    BY DEF HasFile
  <2>2. QED
    BY <2>1, HasFileKept
<1>3. PICK d \in Collected' : Path(d) = Path(c)
  BY <1>2 DEF HasFile, Path
<1>4. d.kind = c.kind /\ d.ns = c.ns /\ d.name = c.name
  BY <1>3 DEF Path
<1>5. QED
  BY <1>1, <1>4 DEF Id

\* An object that was collected is there, or one that replaces it.
LEMMA KeptOrReplaced ==
  ASSUME NEW written, Put(written), NEW c \in Collected
  PROVE  c \in Collected' \/ \E w \in written : w.object \in Collected' /\ w.object.kind = c.kind
<1>1. PICK f \in files : f.object = c
  BY DEF Collected
<1>2. CASE f \in files'
  BY <1>1, <1>2 DEF Collected
<1>3. CASE f \notin files'
  <2>1. PICK w \in written : Path(f.object) = Path(w.object)
    BY <1>3, PutFacts
  <2>2. w.object \in Collected' /\ w.object.kind = c.kind
    BY <1>1, <2>1, PutFacts DEF Collected, Path
  <2>3. QED
    BY <2>2
<1>4. QED
  BY <1>2, <1>3

LEMMA SameResource ==
  ASSUME NEW o \in Object, NEW r \in Resource, r.gv = o.gv, r.kind = o.kind
  PROVE  r = Source(o)
<1>1. o \in Of(r)
  BY DEF Of
<1>2. QED
  BY <1>1, SourceFacts

LEMMA EventsWrite == ASSUME Inv, OrderInv, EventInv, Write PROVE EventInv'
<1>1. /\ pc = "write" /\ pc' \in {"resource", "volumes"} /\ Put(Yamls(Lasting(found)))
      /\ names' = IF found = {} THEN names ELSE [names EXCEPT ![res.kind] = {Id(o) : o \in found}]
      /\ UNCHANGED <<groups, left, notes, exit, settings, cluster, missed>>
  BY DEF Write, view, world
<1>2. /\ res \in Resource /\ exit = "none"
      /\ DOMAIN names = Kinds /\ res.kind \in Kinds /\ Collected \subseteq Object
  BY <1>1 DEF Inv, Typed, TypeOK, PlaceInv, Inside, Kinds, Collected
<1>3. Collected' \subseteq Collected \cup found /\ Lasting(found) \subseteq Collected'
  BY WriteFacts
<1>5. /\ Lasting(found) \subseteq found /\ found \subseteq Object
      /\ \A o \in found : o.kind = res.kind /\ (o.gv = res.gv \/ IsPolicy(o))
      /\ \A o \in found : \E q \in Lasting(found) : Path(q) = Path(o)
  BY <1>1, LastingFacts
<1>4. \A w \in Yamls(Lasting(found)) : w.object \in found
  <2>1. Lasting(found) \subseteq Object
    BY <1>5
  <2>2. QED
    BY <1>5, <2>1, YamlFacts
\* What was collected and is not exempt came with another resource.
<1>6. ASSUME NEW o \in Collected, o.kind = res.kind, o.gv # Trilio, o.ns # NoNs, ~Doubly(o)
      PROVE  o.gv # res.gv
  <2>1. res # Source(o)
    BY <1>1, <1>6 DEF EventInv, Fresh, Inside
  <2>2. QED
    BY <1>2, <1>6, <2>1, SameResource
<1>a. ASSUME NEW o \in Collected, o.kind = res.kind, o.gv # Trilio, o.ns # NoNs, ~Doubly(o), NEW w \in found
      PROVE  w.kind = o.kind /\ w.gv # o.gv
  <2>1. o.gv # res.gv
    BY <1>6, <1>a
  <2>2. w.kind = o.kind /\ (w.gv = res.gv \/ IsPolicy(w))
    BY <1>5, <1>a
  <2>3. IsPolicy(w) /\ o.gv = Networking => Doubly(o)
    BY <1>2, <1>a, <2>1, <2>2 DEF IsPolicy, Doubly
  <2>4. QED
    BY <1>a, <2>1, <2>2, <2>3 DEF IsPolicy
<1>7. NamesInv'
  <2>1. ASSUME NEW k \in Kinds, NEW id \in names'[k]
        PROVE  \E c \in Collected' : c.kind = k /\ Id(c) = id
    <3>1. CASE id \in names[k]
      BY <1>1, <3>1, NamesKept DEF EventInv
    <3>2. CASE id \notin names[k]
      <4>1. k = res.kind /\ id \in {Id(o) : o \in found}
        BY <1>1, <1>2, <2>1, <3>2
      <4>2. PICK o \in found : id = Id(o)
        BY <4>1
      <4>3. PICK q \in Lasting(found) : Path(q) = Path(o)
        BY <1>5, <4>2
      <4>4. Id(q) = Id(o) /\ q.kind = k
        BY <1>5, <4>1, <4>3 DEF Path, Id
      <4>5. QED
        BY <1>3, <4>2, <4>3, <4>4
    <3>3. QED
      BY <3>1, <3>2
  <2>2. QED
    BY <2>1 DEF NamesInv, Id
<1>8. ASSUME NEW o \in Collected' PROVE Known(o)'
  <2>1. CASE o \in found
    <3>1. Id(o) \in names'[o.kind]
      BY <1>1, <1>2, <1>5, <2>1
    <3>2. QED
      BY <3>1 DEF Known, Id
  <2>2. CASE o \in Collected /\ (o.gv = Trilio \/ o.ns = NoNs \/ ByTheWay(o) \/ Doubly(o))
    BY <1>1, <2>2, ByTheWayKept DEF Known, Replaced, Doubly
  <2>3. CASE /\ o \in Collected /\ o.gv # Trilio /\ o.ns # NoNs /\ ~Doubly(o)
             /\ Replaced(o)
    <3>1. PICK c \in Collected : c.kind = o.kind /\ c.gv # o.gv
      BY <2>3 DEF Replaced
    <3>2. \E d \in Collected' : d.kind = o.kind /\ d.gv # o.gv
      <4>1. CASE c \in Collected'
        BY <3>1, <4>1
      <4>2. CASE c \notin Collected'
        <5>1. PICK w \in Yamls(Lasting(found)) : w.object \in Collected' /\ w.object.kind = c.kind
          BY <1>1, <4>2, KeptOrReplaced
        <5>2. w.object \in found /\ o.kind = res.kind
          BY <1>4, <1>5, <3>1, <5>1
        <5>3. w.object.kind = o.kind /\ w.object.gv # o.gv
          BY <1>a, <2>3, <5>2
        <5>4. QED
          BY <5>1, <5>3
      <4>3. QED
        BY <4>1, <4>2
    <3>3. QED
      BY <3>2 DEF Known, Replaced, Doubly
  <2>4. CASE /\ o \in Collected /\ o.gv # Trilio /\ o.ns # NoNs /\ ~Doubly(o)
             /\ Id(o) \in names[o.kind]
    <3>1. CASE found = {} \/ o.kind # res.kind
      <4>1. Id(o) \in names'[o.kind]
        <5>1. o.kind \in Kinds
          BY <1>2, <2>4 DEF Kinds, Resource
        <5>2. QED
          BY <1>1, <1>2, <2>4, <3>1, <5>1
      <4>2. QED
        BY <4>1 DEF Known, Id
    <3>2. CASE found # {} /\ o.kind = res.kind
      <4>1. PICK w \in Lasting(found) : TRUE
        BY <1>5, <3>2
      <4>2. w \in Collected' /\ w.kind = o.kind /\ w.gv # o.gv
        BY <1>3, <1>5, <1>a, <2>4, <3>2, <4>1
      <4>3. QED
        BY <4>2 DEF Known, Replaced
    <3>3. QED
      BY <3>1, <3>2
  <2>5. QED
    BY <1>1, <1>3, <2>1, <2>2, <2>3, <2>4 DEF EventInv, Known
<1>9. ASSUME NEW o \in Collected' PROVE Fresh(o)'
  <2>1. CASE o \in Collected
    BY <1>1, <2>1 DEF EventInv, Fresh, Doubly, Inside, Source
  <2>2. CASE o \in found
    <3>1. CASE o.gv = res.gv
      <4>1. res = Source(o)
        BY <1>2, <1>5, <2>2, <3>1, SameResource
      <4>2. o.gv \notin groups /\ \A i \in left : Resources[i] # Source(o)
        BY <1>1, <2>2, <3>1, <4>1 DEF OrderInv, Inside
      <4>3. QED
        BY <1>1, <4>2 DEF Fresh, Inside, Source
    <3>2. CASE o.gv # res.gv
      <4>1. IsPolicy(o) /\ res.kind = "NetworkPolicy" /\ res.gv # Networking
        BY <1>5, <2>2, <3>2 DEF IsPolicy
      <4>2. QED
        BY <1>2, <4>1 DEF Fresh, Doubly
    <3>3. QED
      BY <3>1, <3>2
  <2>3. QED
    BY <1>3, <2>1, <2>2
<1>10. notes' = {} /\ exit' # "ok"
  BY <1>1, <1>2 DEF EventInv
<1>11. QED
  BY <1>7, <1>8, <1>9, <1>10 DEF EventInv, EventsExplained

LEMMA EventsTrilio == ASSUME Inv, EventInv, CollectTrilio PROVE EventInv'
<1>1. /\ pc = "trilio" /\ pc' = "trilio" /\ UNCHANGED <<groups, names, notes, exit>> /\ left' \subseteq left
      /\ exit = "none" /\ UNCHANGED <<settings, cluster>> /\ missed \subseteq missed'
  BY TakeFacts DEF CollectTrilio, world, Inv, Typed, TypeOK
<1>2. PICK S : /\ S \subseteq Object /\ \A o \in S : o.gv = Trilio
               /\ Put({TrilioYaml(o) : o \in S})
               /\ Collected' \subseteq Collected \cup S
  BY TrilioGrows
<1>3. \A w \in {TrilioYaml(o) : o \in S} : w.object \in S
  BY <1>2, TrilioFacts
<1>4. NamesInv'
  <2>1. \A k \in Kinds : \A id \in names[k] : \E c \in Collected' : c.kind = k /\ Id(c) = id
    BY <1>1, <1>2, NamesKept DEF EventInv
  <2>2. QED
    BY <1>1, <2>1 DEF NamesInv, Id
<1>5. ASSUME NEW o \in Collected' PROVE Known(o)' /\ Fresh(o)'
  <2>1. CASE o.gv = Trilio
    BY <2>1 DEF Known, Fresh
  <2>2. CASE o.gv # Trilio
    <3>1. o \in Collected /\ Known(o) /\ Fresh(o)
      BY <1>1, <1>2, <2>2 DEF EventInv
    <3>2. Fresh(o)'
      BY <1>1, <3>1 DEF Fresh, Doubly, Source, Inside
    <3>a. CASE Doubly(o)
      BY <3>2, <3>a DEF Known, Replaced, Doubly
    <3>3. CASE Replaced(o) /\ ~Doubly(o)
      <4>1. PICK c \in Collected : c.kind = o.kind /\ c.gv # o.gv
        BY <3>3 DEF Replaced
      <4>2. \E d \in Collected' : d.kind = o.kind /\ d.gv # o.gv
        <5>1. CASE c \in Collected'
          BY <4>1, <5>1
        <5>2. CASE c \notin Collected'
          <6>1. PICK w \in {TrilioYaml(x) : x \in S} : w.object \in Collected' /\ w.object.kind = c.kind
            BY <1>2, <5>2, KeptOrReplaced
          <6>2. w.object.gv = Trilio
            BY <1>2, <1>3, <6>1
          <6>3. QED
            BY <2>2, <4>1, <6>1, <6>2
        <5>3. QED
          BY <5>1, <5>2
      <4>3. QED
        BY <3>2, <4>2 DEF Known, Replaced
    <3>4. CASE ~Replaced(o)
      BY <1>1, <3>1, <3>2, <3>4, ByTheWayKept DEF Known, Id
    <3>5. QED
      BY <3>a, <3>3, <3>4
  <2>3. QED
    BY <2>1, <2>2
<1>6. notes' = {} /\ exit' # "ok"
  BY <1>1 DEF EventInv
<1>7. QED
  BY <1>4, <1>5, <1>6 DEF EventInv, EventsExplained

\* A claim that a pod leads to was collected before, or is exempt.
LEMMA ClaimByTheWay ==
  ASSUME Complete, GetPodClaims, NEW o \in Claims, o \in present, o \notin Collected
  PROVE  ByTheWay(o)'
<1>1. /\ pc = "group" /\ groups = {} /\ left = {} /\ found = {} /\ exit = "none"
      /\ UNCHANGED <<settings, cluster>> /\ missed \subseteq missed'
  BY DEF GetPodClaims, world, Complete, OrderInv, Inv, Typed, TypeOK, PlaceInv, Inside
<1>2. o \in Object /\ o.kind = "PersistentVolumeClaim" /\ o.gv = Core
  BY DEF Claims
<1>3. CASE ByTheWay(o)
  BY <1>1, <1>3, ByTheWayKept
<1>4. CASE ~ByTheWay(o)
  <2>1. Wanted(o)
    BY <1>2, <1>4 DEF ByTheWay, Wanted
  <2>2. o \in filed
    BY <1>1, <1>2, <2>1 DEF Complete, DueInv, Sound, Cared, Ahead, Asked
  <2>3. PICK c \in Collected : Path(c) = Path(o) /\ c \in Object
    BY <2>2 DEF Complete, FiledInv, HasFile
  <2>4. c.kind = o.kind /\ c.ns = o.ns /\ c.name = o.name
    BY <2>3 DEF Path
  <2>5. c = o
    BY <1>2, <2>3, <2>4
  <2>6. QED
    BY <2>3, <2>5
<1>5. QED
  BY <1>3, <1>4

\* Claims and volumes on the way are exempt and replace nothing.
LEMMA EventsWay ==
  ASSUME Complete, EventInv, GetVolumes \/ GetVolumesFails \/ GetPodClaims, pc' # "done"
  PROVE  EventInv'
<1>1. /\ pc \in {"volumes", "podVolumes", "group"} /\ pc' \notin Inside /\ exit = "none"
      /\ UNCHANGED <<groups, left, names, notes, exit, settings, cluster>> /\ missed \subseteq missed'
      /\ GetPodClaims => groups = {} /\ left = {}
  BY DEF GetVolumes, GetVolumesFails, GetPodClaims, Stop, Inside, world, Complete, OrderInv, Inv, Typed, TypeOK
<1>2. PICK S : /\ S \subseteq Volumes \/ (GetPodClaims /\ S \subseteq Claims \cap present)
               /\ Put(Yamls(S))
  <2>1. CASE GetVolumes
    <3>1. PICK refused : Put(Yamls((Sought \ refused) \cap present))
      BY <2>1 DEF GetVolumes
    <3>2. (Sought \ refused) \cap present \subseteq Volumes
      BY DEF Sought
    <3>3. QED
      BY <3>1, <3>2
  <2>2. CASE GetVolumesFails
    <3>1. PICK some \in SUBSET (Sought \cap present) : Put(Yamls(some))
      BY <2>2 DEF GetVolumesFails
    <3>2. some \subseteq Volumes
      BY <3>1 DEF Sought
    <3>3. QED
      BY <3>1, <3>2
  <2>3. CASE GetPodClaims
    <3>1. PICK failed : Put(Yamls((Unclaimed \ failed) \cap present))
      BY <2>3 DEF GetPodClaims
    <3>2. (Unclaimed \ failed) \cap present \subseteq Claims \cap present
      BY DEF Unclaimed, ClaimsOf
    <3>3. QED
      BY <2>3, <3>1, <3>2
  <2>4. QED
    BY <2>1, <2>2, <2>3
<1>3. Collected' = Collected \cup S
  BY <1>2, CoreGrows DEF Complete, Inv
<1>4. NamesInv'
  BY <1>1, <1>3 DEF EventInv, NamesInv, Id
<1>5. ASSUME NEW o \in Collected' PROVE Known(o)' /\ Fresh(o)'
  <2>1. CASE o \in S /\ o \notin Collected
    <3>1. CASE S \subseteq Volumes
      <4>1. o.ns = NoNs
        BY <2>1, <3>1 DEF Volumes
      <4>2. QED
        BY <4>1 DEF Known, Fresh
    <3>2. CASE GetPodClaims /\ S \subseteq Claims \cap present
      <4>1. ByTheWay(o)'
        BY <2>1, <3>2, ClaimByTheWay
      <4>2. groups' = {} /\ left' = {} /\ pc' \notin Inside
        BY <1>1, <3>2
      <4>3. QED
        BY <4>1, <4>2 DEF Known, Fresh
    <3>3. QED
      BY <1>2, <3>1, <3>2
  <2>2. CASE o \in Collected
    <3>1. Known(o) /\ Fresh(o)
      BY <1>1, <2>2 DEF EventInv
    <3>2. Known(o)'
      BY <1>1, <1>3, <3>1, ByTheWayKept DEF Known, Replaced, Doubly, Id
    <3>3. Fresh(o)'
      BY <1>1, <3>1 DEF Fresh, Doubly, Source
    <3>4. QED
      BY <3>2, <3>3
  <2>3. QED
    BY <1>3, <2>1, <2>2
<1>6. notes' = {} /\ exit' # "ok"
  BY <1>1 DEF EventInv
<1>7. QED
  BY <1>4, <1>5, <1>6 DEF EventInv, EventsExplained

LEMMA OnePerFileFacts ==
  ASSUME NEW events, NEW some \in OnePerFile(events)
  PROVE  /\ some \subseteq events
         /\ \A e \in events : \E f \in some : EventPath(e.about) = EventPath(f.about)
BY DEF OnePerFile

\* What an event file rests on.
LEMMA NoteExplained ==
  ASSUME NamesInv, NEW n \in Event, Relevant(n)
  PROVE  \/ n.about.gv = Trilio
         \/ \E c \in Collected : EventPath(c) = EventPath(n.about)
<1>1. CASE n.about.gv = Trilio
  BY <1>1
<1>2. CASE n.about.gv # Trilio
  <2>1. n.about \in Object /\ n.about.kind \in Kinds
    <3>1. n.about \in Object
      OBVIOUS
    <3>2. QED
      BY <3>1 DEF Kinds, Resource
  <2>2. PICK c \in Collected : c.kind = n.about.kind /\ Id(c) = <<EventNs(n.about), n.about.name>>
    BY <1>2, <2>1 DEF Relevant, NamesInv
  <2>3. c.ns = EventNs(n.about) /\ c.name = n.about.name
    BY <2>2 DEF Id
  <2>4. EventNs(n.about) # NoNs
    BY DEF EventNs, NoNs, DefaultNs
  <2>5. EventNs(c) = c.ns
    BY <2>3, <2>4 DEF EventNs
  <2>6. QED
    BY <2>2, <2>3, <2>5 DEF EventPath
<1>3. QED
  BY <1>1, <1>2

\* The events of a known object are matched, unless it is exempt.
LEMMA KnownRelevant ==
  ASSUME NEW e \in Event, Known(e.about),
         ~(e.about.gv # Trilio /\ (e.about.ns = NoNs \/ ByTheWay(e.about) \/ Replaced(e.about)))
  PROVE  Relevant(e)
<1>1. CASE e.about.gv = Trilio
  BY <1>1 DEF Relevant
<1>2. CASE e.about.gv # Trilio
  <2>1. e.about.ns # NoNs /\ Id(e.about) \in names[e.about.kind]
    BY <1>2 DEF Known
  <2>2. EventNs(e.about) = e.about.ns
    BY <2>1 DEF EventNs
  <2>3. QED
    BY <2>1, <2>2 DEF Relevant, Id
<1>3. QED
  BY <1>1, <1>2

LEMMA EventsListed == ASSUME Inv, EventInv, GetEvents \/ WriteEventsFails PROVE EventInv'
<1>1. /\ pc = "events" /\ pc' = "done"
      /\ UNCHANGED <<settings, cluster, spaces, files, missed>>
  BY DEF GetEvents, WriteEventsFails, Stop, world, view
<1>2. NamesInv /\ \A o \in Collected : Known(o)
  BY <1>1 DEF EventInv
<1>3. Collected' = Collected
  BY <1>1 DEF Collected
<1>4. \A n \in notes' : n \in Event /\ Relevant(n)
  <2>1. CASE GetEvents
    <3>1. PICK heard \in SUBSET Event : notes' \in OnePerFile({e \in heard : Relevant(e)})
      BY <2>1 DEF GetEvents
    <3>2. QED
      BY <3>1, OnePerFileFacts
  <2>2. CASE WriteEventsFails
    <3>1. PICK some \in SUBSET {e \in Event : Relevant(e)} : notes' \in OnePerFile(some)
      BY <2>2 DEF WriteEventsFails
    <3>2. notes' \subseteq some
      BY <3>1, OnePerFileFacts
    <3>3. QED
      BY <3>1, <3>2
  <2>3. QED
    BY <2>1, <2>2
<1>5. ASSUME NEW n \in notes'
      PROVE  n.about.gv = Trilio \/ \E c \in Collected' : EventPath(c) = EventPath(n.about)
  BY <1>2, <1>3, <1>4, NoteExplained
<1>6. ASSUME exit' = "ok", ~unheard', NEW e \in Event, e.about \in Collected,
             Clustered \/ EventNs(e.about) \in spaces
      PROVE  \/ e \in notes' \/ Outwritten(e)'
             \/ /\ e.about.gv # Trilio
                /\ e.about.ns = NoNs \/ ByTheWay(e.about) \/ Replaced(e.about)
  <2>1. GetEvents
    BY <1>6 DEF WriteEventsFails, Stop
  <2>2. PICK failed \in SUBSET (IF Clustered THEN {NoNs} ELSE spaces) :
          /\ unheard' = (failed # {})
          /\ notes' \in OnePerFile({x \in {h \in Event : IF Clustered THEN failed = {}
                                                          ELSE EventNs(h.about) \in spaces \ failed} : Relevant(x)})
    BY <2>1 DEF GetEvents
  <2>3. failed = {}
    BY <1>6, <2>2
  <2>4. CASE Relevant(e)
    <3>1. e \in {x \in {h \in Event : IF Clustered THEN failed = {}
                                      ELSE EventNs(h.about) \in spaces \ failed} : Relevant(x)}
      BY <1>6, <2>3, <2>4
    <3>2. \E f \in notes' : EventPath(e.about) = EventPath(f.about)
      BY <2>2, <3>1, OnePerFileFacts
    <3>3. QED
      BY <3>2 DEF Outwritten, EventPath, EventNs
  <2>5. CASE ~Relevant(e)
    BY <1>2, <1>6, <2>5, KnownRelevant
  <2>6. QED
    BY <2>4, <2>5
<1>7. EventsExplained'
  <2>1. \A o : (ByTheWay(o) => ByTheWay(o)') /\ (Replaced(o) => Replaced(o)')
    BY <1>1, <1>3, ByTheWayKept DEF Replaced, Doubly
  <2>2. QED
    BY <1>1, <1>3, <1>5, <1>6, <2>1 DEF EventsExplained, Clustered, EventNs, EventPath
<1>8. QED
  BY <1>1, <1>7 DEF EventInv

\* Steps that end the run without a success: nothing was noted before.
LEMMA EventsStop ==
  ASSUME Inv, EventInv,
         WriteFails \/ CollectTrilioFails \/ PodClaimsFail \/ (GetVolumesFails /\ pc' = "done")
  PROVE  EventInv'
<1>1. pc # "done" /\ pc' = "done" /\ UNCHANGED notes /\ exit' # "ok"
  BY DEF WriteFails, CollectTrilioFails, PodClaimsFail, GetVolumesFails, Stop
<1>2. notes' = {}
  BY <1>1 DEF EventInv
<1>3. QED
  BY <1>1, <1>2, EventsEnd

LEMMA EventInit == Init => EventInv
BY DEF Init, EventInv, EventsExplained, NamesInv, Collected

LEMMA EventNext == Complete /\ EventInv /\ [Next]_vars => EventInv'
<1>1. ASSUME EventInv, UNCHANGED vars PROVE EventInv'
  BY <1>1 DEF vars, world, view, gathered, EventInv, EventsExplained, NamesInv, Known, Fresh, Replaced, Doubly,
              ByTheWay, Promised, ByDefault, ByLabel, ByKind, InNamespaces, MatchLabelSelectors, Satisfies,
              Outwritten, Collected, Clustered, EventNs, EventPath, Id, Source
<1>2. ASSUME Inv, OrderInv, EventInv, Visit \/ VisitTrilio \/ Vanish PROVE EventInv'
  BY <1>2, EventsBetween, EventsList, EventsWrite, EventsTrilio, EventsStop DEF Visit, VisitTrilio
<1>3. ASSUME Complete, EventInv, Follow PROVE EventInv'
  <2>1. CASE GetVolumes \/ GetPodClaims
    <3>1. pc' # "done"
      BY <2>1 DEF GetVolumes, GetPodClaims
    <3>2. QED
      BY <1>3, <2>1, <3>1, EventsWay
  <2>2. QED
    BY <1>3, <2>1, EventsWay, EventsStop, EventsListed DEF Follow, Complete
<1>4. QED
  BY <1>1, <1>2, <1>3, EventsStart DEF Next, Complete

LEMMA EventAlways == Spec => []EventInv
BY CompleteAlways, EventInit, EventNext, PTL DEF Spec

\* When getResourceEvents has listed the events everywhere, each event of an object in a
\* file is in a file as well, or another event of an object by that kind, namespace and
\* name was written over it; save those that the code matches by a name it no longer has
\* or never had (of objects without a namespace, of claims that only a pod led to, of
\* kinds that two groups share).  And no event file is about an object that no file has.
THEOREM EventsAreCollected == Spec => []EventsExplained
<1>1. EventInv => EventsExplained
  BY DEF EventInv
<1>2. QED
  BY <1>1, EventAlways, PTL

(***************************************************************************)
(* The collection comes to an end: each of its steps lowers Rank in a      *)
(* well-founded order, and so does every object that vanishes meanwhile.   *)
(***************************************************************************)

\* What is left: parts of the command, groups, resources of the group in hand, calls for
\* the resource in hand, and what may still go wrong.
PartsLeft ==
  CASE pc = "namespaces" -> 5 [] pc = "discover" -> 4 [] pc = "openshift" -> 3
    [] pc \in Behind -> 1 [] pc = "done" -> 0 [] OTHER -> 2
CallsLeft ==
  CASE pc = "gvk" -> 6 [] pc = "ocp" -> 5 [] pc = "policy" -> 4 [] pc = "write" -> 3
    [] pc = "volumes" -> 2 [] pc \in {"resource", "trilio", "podVolumes"} -> 1 [] OTHER -> 0
Rank == <<PartsLeft, Cardinality(groups), Cardinality(left), CallsLeft, MaxTrouble - trouble>>

Ranks == [1 .. 5 -> Nat]
Order == LexProductOrdering(OpToRel(<, Nat), Nat, 5)
Nearer == <<Rank', Rank>> \in Order

LEMMA OrderEnds == IsWellFoundedOn(Order, Ranks)
BY NatLessThanWellFounded, WFLexProductOrdering, 5 \in Nat DEF Order, Ranks

\* Of two ranks, that one is lower which is lower where they first differ.
LEMMA Lower ==
  ASSUME NEW r \in Ranks, NEW s \in Ranks,
         NEW n \in 1 .. 5, r[n] < s[n], \A m \in 1 .. 5 : m < n => r[m] = s[m]
  PROVE  <<r, s>> \in Order
<1>1. <<r[n], s[n]>> \in OpToRel(<, Nat)
  BY DEF OpToRel, Ranks
<1>2. \A m \in 1 .. n - 1 : r[m] = s[m]
  OBVIOUS
<1>3. QED
  BY <1>1, <1>2 DEF Order, LexProductOrdering, Ranks

FewResources == IsFiniteSet(DOMAIN Resources)

LEMMA FewGroups == ASSUME FewResources PROVE IsFiniteSet(Groups)
<1> DEFINE groupOf == [i \in DOMAIN Resources |-> Resources[i].gv]
<1>1. groupOf \in [DOMAIN Resources -> Groups]
  BY DEF Groups, Resource
<1>2. \A g \in Groups : \E i \in DOMAIN Resources : groupOf[i] = g
  BY DEF Groups, Resource
<1>3. groupOf \in Surjection(DOMAIN Resources, Groups)
  BY <1>1, <1>2, Zenon DEF Surjection
<1>4. QED
  BY <1>3, FS_Surjection DEF FewResources

LEMMA FinitelyLeft ==
  ASSUME FewResources, Typed
  PROVE  IsFiniteSet(groups) /\ IsFiniteSet(left)
BY FewGroups, FS_Subset DEF FewResources, Typed, TypeOK

Ranked ==
  /\ Rank \in Ranks
  /\ Rank[1] = PartsLeft /\ Rank[2] = Cardinality(groups) /\ Rank[3] = Cardinality(left)
  /\ Rank[4] = CallsLeft /\ Rank[5] = MaxTrouble - trouble

LEMMA RankTyped == FewResources /\ Typed => Ranked
<1> SUFFICES ASSUME FewResources, Typed PROVE Ranked
  OBVIOUS
<1>1. PartsLeft \in Nat /\ CallsLeft \in Nat
  BY DEF PartsLeft, CallsLeft
<1>2. Cardinality(groups) \in Nat /\ Cardinality(left) \in Nat
  BY FinitelyLeft, FS_CardinalityType
<1>3. MaxTrouble - trouble \in Nat
  BY DEF Typed, TypeOK
<1>4. QED
  BY <1>1, <1>2, <1>3 DEF Ranked, Rank, Ranks

LEMMA RankTypedNext == FewResources /\ Typed' => Ranked'
<1>1. Typed' => (FewResources => Ranked)'
  BY RankTyped, PTL
<1>2. QED
  BY <1>1 DEF FewResources

\* The five ways to come nearer.
LEMMA PartNearer ==
  ASSUME FewResources, Typed, Typed', PartsLeft' < PartsLeft
  PROVE  Nearer
<1>1. Rank \in Ranks /\ Rank' \in Ranks /\ Rank'[1] < Rank[1]
  BY RankTyped, RankTypedNext DEF Ranked
<1>2. QED
  BY <1>1, Lower, 1 \in 1 .. 5 DEF Nearer

LEMMA GroupNearer ==
  ASSUME FewResources, Typed, Typed', PartsLeft' = PartsLeft, NEW g \in groups,
         groups' = groups \ {g}
  PROVE  Nearer
<1>1. Cardinality(groups') = Cardinality(groups) - 1
  BY FinitelyLeft, FS_RemoveElement
<1>2. Rank \in Ranks /\ Rank' \in Ranks
  BY RankTyped, RankTypedNext DEF Ranked
<1>3. Rank'[1] = Rank[1] /\ Rank'[2] < Rank[2]
  BY <1>1, <1>2, RankTyped, RankTypedNext DEF Ranked, Ranks
<1>4. QED
  BY <1>2, <1>3, Lower, 2 \in 1 .. 5 DEF Nearer

LEMMA ResourceNearer ==
  ASSUME FewResources, Typed, Typed', PartsLeft' = PartsLeft, groups' = groups, NEW r, Take(r)
  PROVE  Nearer
<1>1. PICK i \in left : left' = left \ {i}
  BY DEF Take
<1>2. Cardinality(left') = Cardinality(left) - 1
  BY <1>1, FinitelyLeft, FS_RemoveElement
<1>3. Rank \in Ranks /\ Rank' \in Ranks
  BY RankTyped, RankTypedNext DEF Ranked
<1>4. Rank'[1] = Rank[1] /\ Rank'[2] = Rank[2] /\ Rank'[3] < Rank[3]
  BY <1>2, <1>3, RankTyped, RankTypedNext DEF Ranked, Ranks
<1>5. QED
  BY <1>3, <1>4, Lower, 3 \in 1 .. 5 DEF Nearer

LEMMA CallNearer ==
  ASSUME FewResources, Typed, Typed', PartsLeft' = PartsLeft, groups' = groups, left' = left,
         CallsLeft' < CallsLeft
  PROVE  Nearer
<1>1. Rank \in Ranks /\ Rank' \in Ranks
  BY RankTyped, RankTypedNext DEF Ranked
<1>2. Rank'[1] = Rank[1] /\ Rank'[2] = Rank[2] /\ Rank'[3] = Rank[3] /\ Rank'[4] < Rank[4]
  BY RankTyped, RankTypedNext DEF Ranked
<1>3. QED
  BY <1>1, <1>2, Lower, 4 \in 1 .. 5 DEF Nearer

LEMMA TroubleNearer ==
  ASSUME FewResources, Typed, Typed', UNCHANGED <<pc, groups, left>>, Trouble
  PROVE  Nearer
<1>1. Rank \in Ranks /\ Rank' \in Ranks
  BY RankTyped, RankTypedNext DEF Ranked
<1>2. PartsLeft' = PartsLeft /\ CallsLeft' = CallsLeft /\ MaxTrouble - trouble' < MaxTrouble - trouble
  BY DEF PartsLeft, CallsLeft, Trouble, Typed, TypeOK
<1>3. /\ Rank'[1] = Rank[1] /\ Rank'[2] = Rank[2] /\ Rank'[3] = Rank[3] /\ Rank'[4] = Rank[4]
      /\ Rank'[5] < Rank[5]
  BY <1>2, RankTyped, RankTypedNext DEF Ranked
<1>4. QED
  BY <1>1, <1>3, Lower, 5 \in 1 .. 5 DEF Nearer

\* The command ends, however it does.
LEMMA EndNearer ==
  ASSUME FewResources, Typed, Typed', pc # "done", pc' = "done"
  PROVE  Nearer
<1>1. PartsLeft' = 0 /\ PartsLeft > 0
  BY DEF PartsLeft
<1>2. QED
  BY <1>1, PartNearer

LEMMA StartNearer == ASSUME FewResources, Typed, Typed', Start PROVE Nearer
<1>1. CASE CheckNamespaces \/ Discover \/ AskOpenShift
  <2>1. PartsLeft' < PartsLeft
    BY <1>1 DEF CheckNamespaces, Discover, AskOpenShift, PartsLeft, Behind
  <2>2. QED
    BY <2>1, PartNearer
<1>2. CASE NamespaceUnknown \/ DiscoverFails
  BY <1>2, EndNearer DEF NamespaceUnknown, DiscoverFails, Stop
<1>3. QED
  BY <1>1, <1>2 DEF Start

LEMMA ListNearer ==
  ASSUME FewResources, Typed, Typed', ListGvk \/ ListOcp \/ ListPolicies
  PROVE  Nearer
<1>1. UNCHANGED <<groups, left>>
  BY DEF ListGvk, ListOcp, ListPolicies
<1>2. \/ pc = "gvk" /\ pc' \in {"ocp", "policy", "write"}
      \/ pc = "ocp" /\ pc' \in {"policy", "write"}
      \/ pc = "policy" /\ pc' = "write"
  BY DEF ListGvk, ListOcp, ListPolicies, AfterGvk, AfterOcp
<1>3. PartsLeft' = PartsLeft /\ CallsLeft' < CallsLeft
  BY <1>2 DEF PartsLeft, CallsLeft, Behind
<1>4. QED
  BY <1>1, <1>3, CallNearer

LEMMA VisitNearer == ASSUME FewResources, Typed, Typed', Visit PROVE Nearer
<1>1. CASE NextGroup
  <2>1. PartsLeft' = PartsLeft
    BY <1>1 DEF NextGroup, PartsLeft, Behind
  <2>2. QED
    BY <1>1, <2>1, GroupNearer DEF NextGroup
<1>2. CASE RememberEvents
  <2>1. PartsLeft' = PartsLeft /\ groups' = groups
    BY <1>2 DEF RememberEvents, PartsLeft
  <2>2. QED
    BY <1>2, <2>1, ResourceNearer DEF RememberEvents
<1>3. CASE Filter
  <2>1. PICK r \in Resource : Take(r) /\ pc' = AfterFilter(r)
    BY <1>3 DEF Filter
  <2>2. pc = "resource" /\ pc' \in {"gvk", "ocp", "policy", "write"} /\ groups' = groups
    BY <1>3, <2>1 DEF Filter, AfterFilter, AfterGvk, AfterOcp
  <2>3. PartsLeft' = PartsLeft
    BY <2>2 DEF PartsLeft, Behind
  <2>4. QED
    BY <2>1, <2>2, <2>3, ResourceNearer
<1>4. CASE Write \/ GroupDone
  <2>1. /\ UNCHANGED <<groups, left>>
        /\ \/ pc = "write" /\ pc' \in {"resource", "volumes"}
           \/ pc = "resource" /\ pc' = "group"
    BY <1>4 DEF Write, GroupDone
  <2>2. PartsLeft' = PartsLeft /\ CallsLeft' < CallsLeft
    BY <2>1 DEF PartsLeft, CallsLeft, Behind
  <2>3. QED
    BY <2>1, <2>2, CallNearer
<1>5. CASE FilterPanics \/ WriteFails
  BY <1>5, EndNearer DEF FilterPanics, WriteFails, Stop
<1>6. QED
  BY <1>1, <1>2, <1>3, <1>4, <1>5, ListNearer DEF Visit

LEMMA TrilioNearer == ASSUME FewResources, Typed, Typed', VisitTrilio PROVE Nearer
<1>1. CASE CollectTrilio
  <2>1. PartsLeft' = PartsLeft /\ groups' = groups
    BY <1>1 DEF CollectTrilio, PartsLeft
  <2>2. QED
    BY <1>1, <2>1, ResourceNearer DEF CollectTrilio
<1>2. CASE CollectTrilioFails
  BY <1>2, EndNearer DEF CollectTrilioFails, Stop
<1>3. CASE TrilioDone
  <2>1. PartsLeft' = PartsLeft /\ CallsLeft' < CallsLeft
    BY <1>3 DEF TrilioDone, PartsLeft, CallsLeft, Behind
  <2>2. QED
    BY <1>3, <2>1, CallNearer DEF TrilioDone
<1>4. QED
  BY <1>1, <1>2, <1>3 DEF VisitTrilio

LEMMA FollowNearer == ASSUME FewResources, Typed, Typed', Follow PROVE Nearer
<1>1. CASE /\ GetVolumes \/ GetVolumesFails
           /\ pc' # "done"
  <2>1. /\ UNCHANGED <<groups, left>>
        /\ \/ pc = "volumes" /\ pc' = "resource"
           \/ pc = "podVolumes" /\ pc' = "events"
    BY <1>1 DEF GetVolumes, GetVolumesFails, Stop
  <2>2. PartsLeft' = PartsLeft /\ CallsLeft' < CallsLeft
    BY <2>1 DEF PartsLeft, CallsLeft, Behind
  <2>3. QED
    BY <2>1, <2>2, CallNearer
<1>2. CASE GetVolumesFails /\ pc' = "done"
  BY <1>2, EndNearer DEF GetVolumesFails
<1>3. CASE GetPodClaims
  <2>1. pc = "group" /\ pc' \in Behind
    BY <1>3 DEF GetPodClaims, Behind
  <2>2. PartsLeft' < PartsLeft
    BY <2>1 DEF PartsLeft, Behind
  <2>3. QED
    BY <2>2, PartNearer
<1>4. CASE PodClaimsFail \/ GetEvents \/ WriteEventsFails
  BY <1>4, EndNearer DEF PodClaimsFail, GetEvents, WriteEventsFails, Stop
<1>5. GetVolumes => pc' # "done"
  BY DEF GetVolumes
<1>6. QED
  BY <1>1, <1>2, <1>3, <1>4, <1>5 DEF Follow

LEMMA CollectionNearer == ASSUME FewResources, Typed, Typed', Next PROVE Nearer
<1>1. CASE Vanish
  BY <1>1, TroubleNearer DEF Vanish
<1>2. QED
  BY <1>1, StartNearer, VisitNearer, TrilioNearer, FollowNearer DEF Next

\* Where discovery tells of finitely many resources, the collection does not go on for
\* ever, in whatever order the groups come, whatever fails or vanishes, and although the
\* namespaces to search grow while they are searched.
THEOREM CollectionComesNearer ==
  ASSUME IsFiniteSet(DOMAIN Resources)
  PROVE  /\ IsWellFoundedOn(Order, Ranks)
         /\ Spec => [](Rank \in Ranks) /\ [][Nearer]_vars
<1>1. FewResources
  BY DEF FewResources
<1>2. Typed => Rank \in Ranks
  BY <1>1, RankTyped DEF Ranked
<1>3. Typed /\ Typed' /\ [Next]_vars => [Nearer]_vars
  BY <1>1, CollectionNearer
<1>4. Spec => [](Rank \in Ranks) /\ [][Nearer]_vars
  BY <1>2, <1>3, TypedAlways, PTL DEF Spec
<1>5. QED
  BY <1>4, OrderEnds
=============================================================================
