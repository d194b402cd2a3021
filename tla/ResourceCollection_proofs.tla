------------------------ MODULE ResourceCollection_proofs ------------------------
(***************************************************************************)
(* Proofs about the collection of objects, for any resources, objects,     *)
(* events, settings and number of faults.                                  *)
(***************************************************************************)
EXTENDS ResourceCollection, TLAPS

USE CollectionAssumption

(***************************************************************************)
(* The type of every variable.                                             *)
(***************************************************************************)

Inside == {"gvk", "ocp", "policy", "write"}

\* Where the collector is agrees with the resource and the objects in hand.
PlaceInv ==
  /\ pc \in Inside => res \in Resource
  /\ pc = "policy" => res.kind = "NetworkPolicy"
  /\ pc \notin {"namespaces", "done"} => home = cluster.home
  /\ found # {} => pc \in Inside \cup {"done"}
  /\ volumes # {} => pc \in {"volumes", "podVolumes", "done"}

Typed == TypeOK /\ PlaceInv

\* Places that a resource in hand goes to next.
LEMMA AfterFacts ==
  ASSUME NEW r
  PROVE  /\ AfterFilter(r) \in Inside
         /\ AfterGvk(r) \in Inside
         /\ AfterOcp(r) \in Inside
         /\ AfterFilter(r) = "gvk" => IsAskedFor(r)
         /\ AfterFilter(r) = "ocp" \/ AfterGvk(r) = "ocp" => shift
         /\ AfterFilter(r) = "policy" \/ AfterGvk(r) = "policy" \/ AfterOcp(r) = "policy" =>
              r.kind = "NetworkPolicy"
BY DEF AfterFilter, AfterGvk, AfterOcp, Inside

LEMMA ComesFacts ==
  \A r : Of(r) \subseteq Comes(r) /\ Comes(r) \subseteq Object
BY DEF Comes, Of, Policies

LEMMA ComesKept ==
  ASSUME UNCHANGED cluster
  PROVE  Comes(res)' = Comes(res')
BY DEF Comes, Of, Policies

LEMMA ListsFacts ==
  ASSUME Typed, NEW r \in Resource, NEW where, NEW failed, NEW kept, kept \subseteq Comes(r),
         Lists(r, where, failed, kept)
  PROVE  /\ found' \subseteq found \cup Comes(r)
         /\ missed' \subseteq Object
         /\ trouble' \in 0 .. MaxTrouble
         /\ \A o \in found' \ found : o \in kept /\ \E c \in Calls(r, where) : Reaches(c, o)
<1>1. kept \subseteq Object
  BY ComesFacts
<1>2. trouble' \in 0 .. MaxTrouble
  BY DEF Lists, Trouble, Typed, TypeOK
<1>3. QED
  BY <1>1, <1>2 DEF Lists, Typed, TypeOK

\* What is written is made of objects; files of the same name are replaced.
LEMMA PutFacts ==
  ASSUME NEW written, Put(written)
  PROVE  /\ files' \subseteq files \cup written
         /\ written \subseteq files'
         /\ \A f \in files \ files' : \E w \in written : Path(f.object) = Path(w.object)
BY DEF Put

LEMMA FiledTyped ==
  ASSUME Typed, NEW S, S \subseteq Object, Filed(S)
  PROVE  filed' \subseteq Object
BY DEF Filed, Typed, TypeOK

LEMMA YamlTyped ==
  ASSUME NEW o \in Object
  PROVE  /\ Yaml(o) \in [object : Object, shows : SUBSET Parts] /\ Yaml(o).object = o
         /\ Yaml(o).shows \in SUBSET Parts
<1>1. (IF o.kind = "PersistentVolume" THEN o.holds \ {"spec"} ELSE o.holds) \in SUBSET Parts
  OBVIOUS
<1>2. QED
  BY <1>1, Zenon DEF Yaml

LEMMA YamlFacts ==
  ASSUME NEW S, S \subseteq Object
  PROVE  /\ Yamls(S) \subseteq [object : Object, shows : SUBSET Parts]
         /\ \A w \in Yamls(S) : w.object \in S
         /\ \A o \in S : \E w \in Yamls(S) : w.object = o
BY YamlTyped DEF Yamls

LEMMA PutTyped ==
  ASSUME Typed, NEW S, S \subseteq Object, Put(Yamls(S))
  PROVE  files' \subseteq [object : Object, shows : SUBSET Parts]
BY YamlFacts, PutFacts DEF Typed, TypeOK

LEMMA TrilioFacts ==
  ASSUME NEW S, S \subseteq Object
  PROVE  /\ {TrilioYaml(o) : o \in S} \subseteq [object : Object, shows : SUBSET Parts]
         /\ \A w \in {TrilioYaml(o) : o \in S} : w.object \in S
<1>1. ASSUME NEW o \in Object
      PROVE  TrilioYaml(o) \in [object : Object, shows : SUBSET Parts] /\ TrilioYaml(o).object = o
  <2>1. (IF o.kind = "License" THEN {} ELSE Yaml(o).shows) \in SUBSET Parts
    BY YamlTyped
  <2>2. QED
    BY <2>1, Zenon DEF TrilioYaml
<1>2. QED
  BY <1>1

LEMMA IdFacts ==
  ASSUME NEW S, S \subseteq Object
  PROVE  {Id(o) : o \in S} \subseteq Spaces \X Names /\ VolumesOf(S) \subseteq {o.pv : o \in Object}
BY DEF Id, Spaces, Names, VolumesOf

\* Every step has at most one more trouble.
LEMMA TroubleFacts ==
  ASSUME Typed, trouble' = trouble \/ Trouble
  PROVE  trouble' \in 0 .. MaxTrouble
BY DEF Trouble, Typed, TypeOK

LEMMA StartTyped == ASSUME Typed, Start PROVE Typed'
<1>1. CASE CheckNamespaces
  BY <1>1 DEF CheckNamespaces, Typed, TypeOK, PlaceInv, Inside, world, gathered
<1>2. CASE NamespaceUnknown
  BY <1>2 DEF NamespaceUnknown, Stop, Trouble, Typed, TypeOK, PlaceInv, Inside, world, gathered
<1>3. CASE Discover
  BY <1>3 DEF Discover, Trouble, Typed, TypeOK, PlaceInv, Inside, world, view, gathered
<1>4. CASE DiscoverFails
  BY <1>4 DEF DiscoverFails, Stop, Trouble, Typed, TypeOK, PlaceInv, Inside, world, view, gathered
<1>5. CASE AskOpenShift
  <2>1. cluster.openshift \in BOOLEAN
    BY DEF Typed, TypeOK
  <2>2. shift' \in BOOLEAN
    BY <1>5, <2>1 DEF AskOpenShift
  <2>3. QED
    BY <1>5, <2>2 DEF AskOpenShift, Trouble, Typed, TypeOK, PlaceInv, Inside, world, gathered
<1>6. QED
  BY <1>1, <1>2, <1>3, <1>4, <1>5 DEF Start

\* The next resource of the group in hand.
LEMMA TakeFacts ==
  ASSUME Typed, NEW r, Take(r)
  PROVE  /\ left' \subseteq left
         /\ \E i \in left : r = Resources[i]
         /\ r \in Resource
BY DEF Take, Typed, TypeOK, Resource

\* A call that only adds to what was found of the resource in hand.
LEMMA MoreFound ==
  ASSUME Typed, res' \in Resource, pc' \in Inside, pc # "done", volumes = {}, exit' = exit,
         pc' = "policy" => res'.kind = "NetworkPolicy", pc \notin {"namespaces", "done"},
         found' \subseteq Comes(res'), missed' \subseteq Object, trouble' \in 0 .. MaxTrouble,
         left' \subseteq left, spaces' \subseteq settings.namespaces \cup {OCPConfigNs},
         UNCHANGED <<world, home, shift, groups, names, gathered, files, filed, notes, present, unheard>>
  PROVE  Typed'
<1>1. found' \subseteq Comes(res)'
  BY ComesKept DEF world
<1>2. QED
  BY <1>1 DEF Typed, TypeOK, PlaceInv, Inside, world, gathered

LEMMA FilterTyped == ASSUME Typed, Filter PROVE Typed'
<1>1. PICK r \in Resource :
        /\ Take(r)
        /\ res' = r
        /\ \/ \E failed \in SUBSET Calls(r, spaces) :
                Lists(r, spaces, failed, {o \in Of(r) : Kept(r, o)})
           \/ UNCHANGED <<found, trouble, missed>>
        /\ pc' = AfterFilter(r)
  BY DEF Filter
<1>2. pc = "resource" /\ found = {} /\ volumes = {}
  BY DEF Filter, Typed, PlaceInv, Inside
<1>3. found' \subseteq Comes(r) /\ missed' \subseteq Object /\ trouble' \in 0 .. MaxTrouble
  <2>1. {o \in Of(r) : Kept(r, o)} \subseteq Comes(r)
    BY ComesFacts
  <2>2. CASE \E failed \in SUBSET Calls(r, spaces) :
               Lists(r, spaces, failed, {o \in Of(r) : Kept(r, o)})
    BY <1>2, <2>1, <2>2, ListsFacts
  <2>3. QED
    BY <1>1, <1>2, <2>2 DEF Typed, TypeOK
<1>4. left' \subseteq left /\ pc' \in Inside /\ (pc' = "policy" => r.kind = "NetworkPolicy")
  BY <1>1, TakeFacts, AfterFacts
<1>5. QED
  BY <1>1, <1>2, <1>3, <1>4, MoreFound DEF Filter, Typed, TypeOK, view

LEMMA ListTyped == ASSUME Typed, ListGvk \/ ListOcp \/ ListPolicies PROVE Typed'
<1>1. /\ pc \in Inside /\ pc # "done" /\ res \in Resource /\ res' = res /\ volumes = {} /\ left' = left
      /\ UNCHANGED <<world, home, shift, groups, names, gathered, files, filed, notes, exit, present,
                     unheard>>
  BY DEF ListGvk, ListOcp, ListPolicies, Typed, PlaceInv, Inside, view
<1>2. spaces' \subseteq settings.namespaces \cup {OCPConfigNs}
  BY DEF ListGvk, ListOcp, ListPolicies, Typed, TypeOK, view
<1>3. pc' \in Inside /\ (pc' = "policy" => res.kind = "NetworkPolicy") /\ pc # "namespaces"
  BY AfterFacts DEF ListGvk, ListOcp, ListPolicies, Inside
<1>4. \E where, failed, kept : kept \subseteq Comes(res) /\ Lists(res, where, failed, kept)
  <2>1. CASE ListGvk
    BY <2>1, ComesFacts DEF ListGvk
  <2>2. CASE ListOcp
    <3>1. {o \in Of(res) : OcpRelated(o)} \subseteq Comes(res)
      BY ComesFacts
    <3>2. QED
      BY <2>2, <3>1 DEF ListOcp
  <2>3. CASE ListPolicies
    <3>1. Policies(home) \subseteq Comes(res)
      BY <1>1, <2>3 DEF ListPolicies, Comes, Typed, PlaceInv
    <3>2. QED
      BY <2>3, <3>1 DEF ListPolicies
  <2>4. QED
    BY <2>1, <2>2, <2>3
<1>5. found' \subseteq Comes(res) /\ missed' \subseteq Object /\ trouble' \in 0 .. MaxTrouble
  <2>1. found \subseteq Comes(res)
    BY DEF Typed, TypeOK
  <2>2. QED
    BY <1>1, <1>4, <2>1, ListsFacts
<1>6. QED
  BY <1>1, <1>2, <1>3, <1>5, MoreFound

LEMMA WriteTyped == ASSUME Typed, Write \/ WriteFails PROVE Typed'
<1>1. pc = "write" /\ res \in Resource /\ found \subseteq Object /\ pc # "done" /\ exit = "none"
  BY ComesFacts DEF Write, WriteFails, Typed, TypeOK, PlaceInv, Inside
<1>a. ASSUME NEW S, S \subseteq found PROVE Lasting(S) \subseteq Object
  BY <1>1, <1>a DEF Lasting
<1>2. CASE Write
  <2>1. files' \subseteq [object : Object, shows : SUBSET Parts] /\ filed' \subseteq Object
    BY <1>1, <1>2, <1>a, PutTyped, FiledTyped DEF Write
  <2>2. {Id(o) : o \in found} \subseteq Spaces \X Names /\ VolumesOf(found) \subseteq {o.pv : o \in Object}
    BY <1>1, IdFacts
  <2>3. pods' \subseteq Object /\ claims' \subseteq Spaces \X Names /\ volumes' \subseteq {o.pv : o \in Object}
    BY <1>1, <1>2, <2>2 DEF Write, Typed, TypeOK
  <2>4. DOMAIN names' = Kinds /\ \A k \in Kinds : names'[k] \subseteq Spaces \X Names
    BY <1>1, <1>2, <2>2 DEF Write, Typed, TypeOK
  <2>5. /\ pc' = (IF volumes' = {} THEN "resource" ELSE "volumes") /\ found' = {} /\ res' = NoResource
        /\ UNCHANGED <<world, view, groups, left, notes, exit, present, trouble, missed, unheard>>
    BY <1>2 DEF Write
  <2>6. QED
    BY <1>1, <2>1, <2>3, <2>4, <2>5 DEF Typed, TypeOK, PlaceInv, Inside, world, view
<1>3. CASE WriteFails
  <2>1. PICK some \in SUBSET found : Put(Yamls(Lasting(some))) /\ Filed(some)
    BY <1>3 DEF WriteFails
  <2>2. files' \subseteq [object : Object, shows : SUBSET Parts] /\ filed' \subseteq Object
    BY <1>1, <1>a, <2>1, PutTyped, FiledTyped
  <2>3. trouble' \in 0 .. MaxTrouble
    BY <1>3 DEF WriteFails, Trouble, Typed, TypeOK
  <2>4. QED
    BY <1>1, <1>3, <2>2, <2>3, ComesKept DEF WriteFails, Stop, Typed, TypeOK, PlaceInv, Inside, world, view, gathered
<1>4. QED
  BY <1>2, <1>3

\* Steps between resources and groups.
LEMMA BetweenTyped ==
  ASSUME Typed, NextGroup \/ RememberEvents \/ FilterPanics \/ GroupDone \/ TrilioDone
  PROVE  Typed'
<1>1. CASE NextGroup
  BY <1>1 DEF NextGroup, Typed, TypeOK, PlaceInv, Inside, world, view, gathered
<1>2. CASE RememberEvents
  BY <1>2, TakeFacts DEF RememberEvents, Typed, TypeOK, PlaceInv, Inside, world, view, gathered
<1>3. CASE FilterPanics
  BY <1>3, TakeFacts DEF FilterPanics, Stop, Typed, TypeOK, PlaceInv, Inside, world, view, gathered
<1>4. CASE GroupDone \/ TrilioDone
  BY <1>4 DEF GroupDone, TrilioDone, Typed, TypeOK, PlaceInv, Inside, world, view, gathered
<1>5. QED
  BY <1>1, <1>2, <1>3, <1>4

LEMMA TrilioTyped == ASSUME Typed, CollectTrilio \/ CollectTrilioFails PROVE Typed'
<1>1. pc = "trilio" /\ found = {} /\ volumes = {} /\ exit = "none"
  BY DEF CollectTrilio, CollectTrilioFails, Typed, TypeOK, PlaceInv, Inside
<1>2. left' \subseteq left
  BY TakeFacts DEF CollectTrilio, CollectTrilioFails
<1>3. ASSUME NEW r, NEW failed PROVE Answers(r, failed) \subseteq Object
  BY DEF Answers, Answer, Of
<1>4. files' \subseteq [object : Object, shows : SUBSET Parts] /\ filed' \subseteq Object
  <2>1. PICK S \in SUBSET Object : Put({TrilioYaml(o) : o \in S}) /\ Filed(S)
    <3>1. CASE CollectTrilio
      <4>1. PICK r \in Resource :
              \E failed \in SUBSET Calls(r, spaces) :
                /\ Put({TrilioYaml(o) : o \in Answers(r, failed) \cap present})
                /\ Filed(Answers(r, failed) \cap present)
        BY <3>1 DEF CollectTrilio
      <4>2. \A failed : Answers(r, failed) \cap present \subseteq Object
        BY <1>3
      <4>3. QED
        BY <4>1, <4>2
    <3>2. CASE CollectTrilioFails
      <4>1. PICK r \in Resource :
              \E some \in SUBSET (Answers(r, {}) \cap present) :
                Put({TrilioYaml(o) : o \in some}) /\ Filed(some)
        BY <3>2 DEF CollectTrilioFails
      <4>2. Answers(r, {}) \cap present \subseteq Object
        BY <1>3
      <4>3. QED
        BY <4>1, <4>2
    <3>3. QED
      BY <3>1, <3>2
  <2>2. QED
    BY <2>1, TrilioFacts, PutFacts, FiledTyped DEF Typed, TypeOK
<1>5. trouble' \in 0 .. MaxTrouble
  <2>1. trouble' = trouble \/ Trouble
    BY DEF CollectTrilio, CollectTrilioFails
  <2>2. QED
    BY <2>1, TroubleFacts
<1>6. missed' \subseteq Object
  <2>1. CASE CollectTrilio
    <3>1. PICK r \in Resource : \E failed \in SUBSET Calls(r, spaces) :
                              missed' = missed \cup (Answers(r, {}) \ Answers(r, failed))
      BY <2>1 DEF CollectTrilio
    <3>2. QED
      BY <1>3, <3>1 DEF Typed, TypeOK
  <2>2. CASE CollectTrilioFails
    BY <2>2 DEF CollectTrilioFails, Typed, TypeOK
  <2>3. QED
    BY <2>1, <2>2
<1>7. /\ (pc' = "trilio" /\ exit' = "none") \/ (pc' = "done" /\ exit' = "failed")
      /\ UNCHANGED <<world, view, groups, res, found, names, gathered, notes, present, unheard>>
  BY <1>1 DEF CollectTrilio, CollectTrilioFails, Stop
<1>8. QED
  BY <1>1, <1>2, <1>4, <1>5, <1>6, <1>7 DEF Typed, TypeOK, PlaceInv, Inside, world, view, gathered

LEMMA VolumesTyped == ASSUME Typed, GetVolumes \/ GetVolumesFails PROVE Typed'
<1>1. pc \in {"volumes", "podVolumes"} /\ found = {} /\ Sought \subseteq Object /\ exit = "none"
  BY DEF GetVolumes, GetVolumesFails, Typed, TypeOK, PlaceInv, Inside, Sought, Volumes
<1>2. PICK S \in SUBSET Object : Put(Yamls(S)) /\ Filed(S)
  <2>1. CASE GetVolumes
    <3>1. PICK refused \in SUBSET Sought :
            Put(Yamls((Sought \ refused) \cap present)) /\ Filed((Sought \ refused) \cap present)
      BY <2>1 DEF GetVolumes
    <3>2. (Sought \ refused) \cap present \subseteq Object
      BY <1>1
    <3>3. QED
      BY <3>1, <3>2
  <2>2. CASE GetVolumesFails
    <3>1. PICK some \in SUBSET (Sought \cap present) : Put(Yamls(some)) /\ Filed(some)
      BY <2>2 DEF GetVolumesFails
    <3>2. some \subseteq Object
      BY <1>1
    <3>3. QED
      BY <3>1, <3>2
  <2>3. QED
    BY <2>1, <2>2
<1>3. files' \subseteq [object : Object, shows : SUBSET Parts] /\ filed' \subseteq Object
  BY <1>2, PutTyped, FiledTyped
<1>4. trouble' \in 0 .. MaxTrouble /\ missed' \subseteq Object
  <2>1. trouble' = trouble \/ Trouble
    BY DEF GetVolumes, GetVolumesFails
  <2>2. missed' \subseteq missed \cup Sought
    BY DEF GetVolumes, GetVolumesFails
  <2>3. QED
    BY <1>1, <2>1, <2>2, TroubleFacts DEF Typed, TypeOK
<1>5. /\ (pc' \in {"resource", "events"} /\ exit' = "none") \/ (pc' = "done" /\ exit' = "failed")
      /\ volumes' = {}
      /\ UNCHANGED <<world, view, groups, left, res, found, names, pods, claims, notes, present, unheard>>
  BY <1>1 DEF GetVolumes, GetVolumesFails, Stop
<1>6. QED
  BY <1>1, <1>3, <1>4, <1>5 DEF Typed, TypeOK, PlaceInv, Inside, world, view

LEMMA PodClaimsTyped == ASSUME Typed, GetPodClaims \/ PodClaimsFail PROVE Typed'
<1>1. pc = "group" /\ found = {} /\ volumes = {} /\ Unclaimed \subseteq Object /\ exit = "none"
  BY DEF GetPodClaims, PodClaimsFail, Typed, TypeOK, PlaceInv, Inside, Unclaimed, ClaimsOf, Claims
<1>2. CASE GetPodClaims
  <2>1. PICK failed \in SUBSET Unclaimed :
          LET got == (Unclaimed \ failed) \cap present
          IN /\ IF failed = {} THEN UNCHANGED trouble ELSE Trouble
             /\ missed' = missed \cup failed
             /\ Put(Yamls(got)) /\ Filed(got)
             /\ claims' = claims \cup {Id(o) : o \in got}
             /\ volumes' = VolumesOf(got)
    BY <1>2 DEF GetPodClaims
  <2>2. (Unclaimed \ failed) \cap present \subseteq Object
    BY <1>1
  <2>3. files' \subseteq [object : Object, shows : SUBSET Parts] /\ filed' \subseteq Object
    BY <2>1, <2>2, PutTyped, FiledTyped
  <2>4. claims' \subseteq Spaces \X Names /\ volumes' \subseteq {o.pv : o \in Object}
    BY <2>1, <2>2, IdFacts DEF Typed, TypeOK
  <2>5. trouble' \in 0 .. MaxTrouble /\ missed' \subseteq Object
    BY <1>1, <2>1 DEF Trouble, Typed, TypeOK
  <2>6. /\ pc' = (IF volumes' = {} THEN "events" ELSE "podVolumes")
        /\ UNCHANGED <<world, view, groups, left, res, found, names, pods, notes, exit, present, unheard>>
    BY <1>2 DEF GetPodClaims
  <2>7. QED
    BY <1>1, <2>3, <2>4, <2>5, <2>6 DEF Typed, TypeOK, PlaceInv, Inside, world, view
<1>3. CASE PodClaimsFail
  <2>1. PICK some \in SUBSET (Unclaimed \cap present) : Put(Yamls(some)) /\ Filed(some)
    BY <1>3 DEF PodClaimsFail
  <2>2. some \subseteq Object
    BY <1>1
  <2>3. files' \subseteq [object : Object, shows : SUBSET Parts] /\ filed' \subseteq Object
    BY <2>1, <2>2, PutTyped, FiledTyped
  <2>4. trouble' \in 0 .. MaxTrouble
    BY <1>3 DEF PodClaimsFail, Trouble, Typed, TypeOK
  <2>5. QED
    BY <1>1, <1>3, <2>3, <2>4
    DEF PodClaimsFail, Stop, Typed, TypeOK, PlaceInv, Inside, world, view, gathered
<1>4. QED
  BY <1>2, <1>3

LEMMA EventsTyped == ASSUME Typed, GetEvents \/ WriteEventsFails PROVE Typed'
<1>1. notes' \subseteq Event
  BY DEF GetEvents, WriteEventsFails, OnePerFile
<1>2. trouble' \in 0 .. MaxTrouble /\ unheard' \in BOOLEAN
  <2>1. trouble' = trouble \/ Trouble
    BY DEF GetEvents, WriteEventsFails
  <2>2. CASE GetEvents
    <3>1. PICK failed : unheard' = (failed # {})
      BY <2>2 DEF GetEvents
    <3>2. QED
      BY <2>1, <3>1, TroubleFacts
  <2>3. CASE WriteEventsFails
    BY <2>1, <2>3, TroubleFacts DEF WriteEventsFails, Typed, TypeOK
  <2>4. QED
    BY <2>2, <2>3
<1>3. /\ pc = "events" /\ pc' = "done" /\ exit' \in {"ok", "failed"}
      /\ UNCHANGED <<world, view, groups, left, res, found, names, gathered, files, filed, present, missed>>
  BY DEF GetEvents, WriteEventsFails, Stop
<1>4. QED
  BY <1>1, <1>2, <1>3 DEF Typed, TypeOK, PlaceInv, Inside, world, view, gathered

LEMMA VanishTyped == ASSUME Typed, Vanish PROVE Typed'
BY ComesKept DEF Vanish, Trouble, Typed, TypeOK, PlaceInv, Inside, world, view, gathered

LEMMA TypedInit == Init => Typed
<1> SUFFICES ASSUME Init PROVE Typed
  OBVIOUS
<1>1. DOMAIN names = Kinds /\ \A k \in Kinds : names[k] = {}
  BY DEF Init
<1>2. /\ pc = "namespaces" /\ settings \in Settings /\ cluster \in Clusters
      /\ spaces = settings.namespaces /\ home = NoNs /\ shift = FALSE
      /\ groups = {} /\ left = {} /\ res = NoResource /\ found = {} /\ pods = {} /\ claims = {}
      /\ volumes = {} /\ files = {} /\ filed = {} /\ notes = {} /\ exit = "none" /\ present = Object
      /\ trouble = 0 /\ missed = {} /\ unheard = FALSE
  BY DEF Init
<1>3. PlaceInv
  BY <1>2 DEF PlaceInv, Inside
<1>4. (exit = "none") = (pc # "done") /\ trouble \in 0 .. MaxTrouble
  BY <1>2
<1>5. DOMAIN names = Kinds /\ \A k \in Kinds : names[k] \subseteq Spaces \X Names
  BY <1>1
<1>6. TypeOK
  BY <1>2, <1>4, <1>5 DEF TypeOK
<1>7. QED
  BY <1>3, <1>6 DEF Typed

LEMMA TypedNext == Typed /\ [Next]_vars => Typed'
<1>1. ASSUME Typed, UNCHANGED vars PROVE Typed'
  BY <1>1, ComesKept DEF vars, Typed, TypeOK, PlaceInv, Inside
<1>2. QED
  BY <1>1, StartTyped, FilterTyped, ListTyped, WriteTyped, BetweenTyped, TrilioTyped, VolumesTyped,
     PodClaimsTyped, EventsTyped, VanishTyped DEF Next, Visit, VisitTrilio, Follow

LEMMA TypedAlways == Spec => []Typed
BY TypedInit, TypedNext, PTL DEF Spec

(***************************************************************************)
(* What gets into the files.                                               *)
(***************************************************************************)

Searched == settings.namespaces \cup (IF shift THEN {OCPConfigNs} ELSE {})

\* Trilio's own group is collected by itself, and what a resource in hand is has
\* been looked at on the way to where the collector is.
GroupInv ==
  /\ pc \in Inside \cup {"resource", "volumes"} => \A i \in left : Resources[i].gv # Trilio
  /\ pc = "trilio" => \A i \in left : Resources[i].gv = Trilio
  /\ pc \in Inside => res.gv # Trilio
  /\ pc = "gvk" => res \in settings.gvks
  /\ pc = "ocp" => shift
  /\ spaces \subseteq Searched
  /\ pc \in {"namespaces", "discover", "openshift"} =>
       spaces = settings.namespaces /\ files = {} /\ found = {} /\ ~shift

\* An object may be there by itself, or by way of a pod or a claim.
Allowed(o) ==
  Fit(o) \/ o \in ClaimsOf(PodsIn(Collected)) \/ o \in VolumesUsed(Collected)

FileInv ==
  /\ \A o \in found : Fit(o) /\ (pc \in Inside => o.gv # Trilio)
  /\ \A o \in Collected : Allowed(o)
  /\ SpecsBare
  /\ pods \subseteq PodsIn(Collected)
  /\ volumes \subseteq VolumesOf(Collected \cap Claims)

Inv == Typed /\ GroupInv /\ FileInv

LEMMA FitKept ==
  ASSUME UNCHANGED <<settings, cluster, shift>>, NEW o
  PROVE  Fit(o)' <=> Fit(o)
BY DEF Fit, MayBePromised, Promised, ByDefault, ByLabel, ByKind, InNamespaces, MatchLabelSelectors,
       Satisfies, Clustered

\* An answer to the calls for a resource is in the namespaces that were searched.
LEMMA AnswerFits ==
  ASSUME Typed, NEW r \in Resource, NEW where, where \subseteq Searched,
         NEW c \in Calls(r, where), NEW o \in Comes(r), Reaches(c, o)
  PROVE  /\ InNamespaces(o) \/ (shift /\ o.ns = OCPConfigNs)
         /\ o \in Of(r) => r = [gv |-> o.gv, kind |-> o.kind, namespaced |-> o.ns # NoNs]
         /\ o \in Object
<1>1. o \in Object /\ (o \notin Of(r) => r.namespaced)
  BY DEF Comes, Of, Policies
<1>2. o \in Of(r) => r = [gv |-> o.gv, kind |-> o.kind, namespaced |-> o.ns # NoNs]
  BY DEF Of
<1>3. o \in Of(r) => r.namespaced = (o.ns # NoNs)
  BY <1>2
<1>4. NoNs \notin where
  BY DEF Typed, TypeOK, Searched, NoNs, OCPConfigNs
<1>5. CASE r.namespaced /\ ~Clustered
  <2>1. c \in where /\ o.ns = c
    BY <1>4, <1>5 DEF Calls, Reaches
  <2>2. QED
    BY <1>1, <1>2, <2>1 DEF Searched, InNamespaces
<1>6. CASE ~r.namespaced
  BY <1>1, <1>2, <1>3, <1>6 DEF InNamespaces
<1>7. CASE Clustered
  BY <1>1, <1>2, <1>7 DEF InNamespaces
<1>8. QED
  BY <1>5, <1>6, <1>7

\* What the filter keeps is promised.
LEMMA KeptFits ==
  ASSUME Typed, GroupInv, NEW r \in Resource, IsListed(r), NEW o \in Of(r), Kept(r, o),
         r = [gv |-> o.gv, kind |-> o.kind, namespaced |-> o.ns # NoNs]
  PROVE  MayBePromised(o)
<1>1. r.kind = o.kind /\ r.namespaced = (o.ns # NoNs) /\ o \in Object
  BY DEF Of
<1>2. CASE r.kind \in nonLabeledResources
  BY <1>1, <1>2 DEF MayBePromised, Promised, ByDefault
<1>3. CASE r.kind \in {"CustomResourceDefinition", "ClusterServiceVersion"} /\ r.kind \notin nonLabeledResources
  BY <1>1, <1>3 DEF MayBePromised, Promised, ByDefault, ByName, Kept, IsClaim
<1>4. CASE r.kind = "Namespace"
  <2>1. Clustered \/ o.name \in spaces
    BY <1>1, <1>4 DEF Kept, nonLabeledResources, IsClaim
  <2>2. QED
    BY <1>1, <1>4, <2>1 DEF MayBePromised, Promised, ByDefault, GroupInv, Searched
<1>5. CASE IsClaim(r)
  <2>1. ApplicationClaim(o)
    BY <1>1, <1>5 DEF Kept, nonLabeledResources, IsClaim
  <2>2. o.ns # NoNs /\ o.kind \notin excludeResources \cup ByName /\ o.kind = "PersistentVolumeClaim"
    BY <1>1, <1>5 DEF IsClaim, excludeResources, ByName
  <2>3. QED
    BY <2>1, <2>2 DEF ApplicationClaim, MayBePromised, Promised, ByDefault, ByLabel
<1>6. CASE /\ r.kind \notin nonLabeledResources
           /\ r.kind \notin {"CustomResourceDefinition", "ClusterServiceVersion", "Namespace"}
           /\ ~IsClaim(r)
  <2>1. LabelMatched(o)
    BY <1>6 DEF Kept
  <2>2. (r.namespaced \/ Clustered) /\ r.kind \notin excludeResources \cup ByName
    BY <1>6 DEF IsListed, ByName
  <2>3. QED
    BY <1>1, <2>1, <2>2 DEF LabelMatched, MayBePromised, Promised, ByLabel
<1>7. QED
  BY <1>2, <1>3, <1>4, <1>5, <1>6

\* The volumes and claims of what has been collected stay so while files are
\* only added, or replaced by files of the same pod, claim or volume.
LEMMA CollectedGrows ==
  ASSUME Typed, NEW S, S \subseteq Object, NEW written, written \subseteq [object : Object, shows : SUBSET Parts],
         \A w \in written : w.object \in S, Put(written)
  PROVE  /\ Collected' \subseteq Collected \cup S
         /\ \A o \in Collected : o.kind \in {"Pod", "PersistentVolumeClaim"} => o \in Collected'
         /\ PodsIn(Collected) \subseteq PodsIn(Collected')
         /\ Collected \cap Claims \subseteq Collected' \cap Claims
         /\ \A w \in written : w.object \in Collected'
<1>1. Collected' \subseteq Collected \cup S /\ \A w \in written : w.object \in Collected'
  BY PutFacts DEF Collected
<1>2. ASSUME NEW o \in Collected, o.kind \in {"Pod", "PersistentVolumeClaim"}
      PROVE  o \in Collected'
  <2>1. PICK f \in files : f.object = o
    BY DEF Collected
  <2>2. CASE f \in files'
    BY <2>1, <2>2 DEF Collected
  <2>3. CASE f \notin files'
    <3>1. PICK w \in written : Path(f.object) = Path(w.object)
      BY <2>3, PutFacts
    <3>2. o \in Object /\ w.object \in Object
      BY <2>1 DEF Typed, TypeOK
    <3>3. o.kind = w.object.kind /\ o.ns = w.object.ns /\ o.name = w.object.name
      BY <2>1, <3>1 DEF Path
    <3>4. o.gv = Core /\ w.object.gv = Core
      BY <1>2, <3>2, <3>3
    <3>5. w.object = o
      BY <3>2, <3>3, <3>4
    <3>6. QED
      BY <1>1, <3>5
  <2>4. QED
    BY <2>2, <2>3
<1>3. PodsIn(Collected) \subseteq PodsIn(Collected')
  BY <1>2 DEF PodsIn
<1>4. Collected \cap Claims \subseteq Collected' \cap Claims
  BY <1>2 DEF Claims
<1>5. QED
  BY <1>1, <1>2, <1>3, <1>4

\* Files that are allowed keep the promise.
Bare(f) ==
  /\ f.object.kind = "PersistentVolume" => "spec" \notin f.shows
  /\ f.object.kind = "License" => f.shows = {}

LEMMA PutKeeps ==
  ASSUME Inv, NEW S, S \subseteq Object, NEW written, written \subseteq [object : Object, shows : SUBSET Parts],
         \A w \in written : w.object \in S /\ Bare(w),
         Put(written), \A o \in S : Allowed(o), UNCHANGED <<settings, cluster, shift>>
  PROVE  /\ \A o \in Collected' : Allowed(o)'
         /\ SpecsBare'
         /\ PodsIn(Collected) \subseteq PodsIn(Collected)'
         /\ VolumesOf(Collected \cap Claims) \subseteq VolumesOf(Collected \cap Claims)'
         /\ \A w \in written : w.object \in Collected'
<1>1. /\ Collected' \subseteq Collected \cup S
      /\ PodsIn(Collected) \subseteq PodsIn(Collected')
      /\ Collected \cap Claims \subseteq Collected' \cap Claims
      /\ \A w \in written : w.object \in Collected'
  BY CollectedGrows DEF Inv
<1>2. VolumesOf(Collected \cap Claims) \subseteq VolumesOf(Collected' \cap Claims)
  BY <1>1 DEF VolumesOf
<1>3. ASSUME NEW o, Allowed(o) PROVE Allowed(o)'
  <2>1. CASE Fit(o)
    BY <2>1, FitKept DEF Allowed
  <2>2. CASE o \in ClaimsOf(PodsIn(Collected))
    <3>1. o \in ClaimsOf(PodsIn(Collected'))
      BY <1>1, <2>2 DEF ClaimsOf
    <3>2. QED
      BY <3>1 DEF Allowed, ClaimsOf, PodsIn, Claims
  <2>3. CASE o \in VolumesUsed(Collected)
    <3>1. o \in VolumesUsed(Collected')
      BY <1>2, <2>3 DEF VolumesUsed
    <3>2. QED
      BY <3>1 DEF Allowed, VolumesUsed, Volumes, Claims
  <2>4. QED
    BY <1>3, <2>1, <2>2, <2>3 DEF Allowed
<1>4. \A o \in Collected' : Allowed(o)'
  BY <1>1, <1>3 DEF Inv, FileInv
<1>5. SpecsBare'
  BY PutFacts DEF SpecsBare, Bare, Inv, FileInv
<1>6. PodsIn(Collected)' = PodsIn(Collected') /\ VolumesOf(Collected \cap Claims)' = VolumesOf(Collected' \cap Claims)
  BY DEF PodsIn, VolumesOf, Claims
<1>7. QED
  BY <1>1, <1>2, <1>4, <1>5, <1>6

\* The licences are Trilio's; of the rest only the volumes matter.
LEMMA YamlKeeps ==
  ASSUME NEW S, S \subseteq Object, \A o \in S : o.gv # Trilio
  PROVE  \A w \in Yamls(S) : w.object \in S /\ Bare(w)
<1>1. ASSUME NEW o \in S
      PROVE  Yaml(o).object = o /\ (o.kind = "PersistentVolume" => "spec" \notin Yaml(o).shows)
  BY Zenon DEF Yaml
<1>2. \A o \in S : o.kind # "License"
  OBVIOUS
<1>3. QED
  BY <1>1, <1>2 DEF Yamls, Bare

LEMMA FilesKept ==
  ASSUME Inv, UNCHANGED <<settings, cluster, shift, files, pods>>, volumes' \subseteq volumes,
         \A o \in found' : Fit(o) /\ (pc' \in Inside => o.gv # Trilio)
  PROVE  FileInv'
<1>1. Collected' = Collected
  BY DEF Collected
<1>2. ASSUME NEW o, Allowed(o) PROVE Allowed(o)'
  BY <1>1, <1>2, FitKept DEF Allowed, ClaimsOf, PodsIn, Claims, VolumesUsed, Volumes, VolumesOf
<1>3. \A o \in found' : Fit(o)' /\ (pc' \in Inside => o.gv # Trilio)
  BY FitKept
<1>4. SpecsBare'
  BY DEF SpecsBare, Inv, FileInv
<1>5. pods' \subseteq PodsIn(Collected)' /\ volumes' \subseteq VolumesOf(Collected \cap Claims)'
  BY <1>1 DEF Inv, FileInv, PodsIn, VolumesOf, Claims
<1>6. QED
  BY <1>1, <1>2, <1>3, <1>4, <1>5 DEF Inv, FileInv

LEMMA SearchedKept ==
  ASSUME UNCHANGED <<settings, shift>>
  PROVE  Searched' = Searched
BY DEF Searched

LEMMA StartInv == ASSUME Inv, Start PROVE Inv'
<1>1. Typed'
  BY StartTyped DEF Inv
<1>2. CASE ~AskOpenShift
  <2>1. /\ UNCHANGED <<settings, cluster, shift, files, pods, volumes, found, spaces>>
        /\ pc' \in {"discover", "openshift", "done"} /\ (pc' # "done" => home' = cluster.home)
        /\ pc \in {"namespaces", "discover"}
    BY <1>2 DEF Start, CheckNamespaces, NamespaceUnknown, Discover, DiscoverFails, Stop, world, view,
            gathered, Inv, GroupInv, Typed, PlaceInv
  <2>2. FileInv'
    BY <2>1, FilesKept DEF Inv, FileInv, Inside
  <2>3. GroupInv'
    BY <2>1, SearchedKept DEF Inv, GroupInv, Inside
  <2>4. QED
    BY <1>1, <2>2, <2>3 DEF Inv
<1>3. CASE AskOpenShift
  <2>1. /\ UNCHANGED <<settings, cluster, spaces, home, files, found, pods, volumes>>
        /\ pc = "openshift" /\ pc' = "group"
    BY <1>3 DEF AskOpenShift, world, gathered
  <2>2. spaces = settings.namespaces /\ files = {} /\ found = {} /\ home = cluster.home
    BY <2>1 DEF Inv, GroupInv, Typed, PlaceInv
  <2>3. Collected = {} /\ Collected' = {}
    BY <2>1, <2>2 DEF Collected
  <2>4. pods = {} /\ volumes = {}
    BY <2>3 DEF Inv, FileInv, PodsIn, VolumesOf
  <2>5. FileInv'
    BY <2>1, <2>2, <2>3, <2>4 DEF FileInv, SpecsBare
  <2>6. GroupInv'
    BY <2>1, <2>2 DEF GroupInv, Inside, Searched
  <2>7. QED
    BY <1>1, <2>5, <2>6 DEF Inv
<1>4. QED
  BY <1>2, <1>3

\* A call for a resource in hand that adds what fits.
LEMMA FoundMore ==
  ASSUME Inv, NEW r \in Resource, r.gv # Trilio, NEW where, where \subseteq Searched, NEW failed, NEW kept,
         kept \subseteq Comes(r), Lists(r, where, failed, kept),
         \A o \in kept :
           (o \in Of(r) => r = [gv |-> o.gv, kind |-> o.kind, namespaced |-> o.ns # NoNs]) => MayBePromised(o),
         UNCHANGED <<settings, cluster, shift, files, pods, volumes>>, pc \in Inside \/ found = {}
  PROVE  FileInv'
<1>1. ASSUME NEW o \in found', o \notin found PROVE Fit(o) /\ o.gv # Trilio
  <2>1. o \in kept /\ o \in Comes(r) /\ \E c \in Calls(r, where) : Reaches(c, o)
    BY <1>1, ListsFacts DEF Inv
  <2>2. o.gv # Trilio
    BY <2>1 DEF Comes, Of, Policies, IsPolicy, Networking, Trilio
  <2>3. QED
    BY <2>1, <2>2, AnswerFits DEF Inv, Fit
<1>2. ASSUME NEW o \in found PROVE Fit(o) /\ o.gv # Trilio
  BY <1>2 DEF Inv, FileInv
<1>3. QED
  BY <1>1, <1>2, FilesKept

LEMMA FilterInv == ASSUME Inv, Filter PROVE Inv'
<1>1. Typed'
  BY FilterTyped DEF Inv
<1>2. PICK r \in Resource :
        /\ Take(r)
        /\ res' = r
        /\ \/ /\ IsListed(r)
              /\ \E failed \in SUBSET Calls(r, spaces) :
                   Lists(r, spaces, failed, {o \in Of(r) : Kept(r, o)})
           \/ UNCHANGED <<found, trouble, missed>>
        /\ pc' = AfterFilter(r)
  BY DEF Filter
<1>3. /\ pc = "resource" /\ found = {}
      /\ UNCHANGED <<settings, cluster, spaces, home, shift, files, pods, claims, volumes>>
  BY DEF Filter, Inv, Typed, PlaceInv, Inside, world, view, gathered
<1>4. r.gv # Trilio /\ left' \subseteq left
  BY <1>2, <1>3, TakeFacts DEF Inv, GroupInv
<1>5. FileInv'
  <2>1. CASE /\ IsListed(r)
             /\ \E failed \in SUBSET Calls(r, spaces) :
                  Lists(r, spaces, failed, {o \in Of(r) : Kept(r, o)})
    <3>1. PICK failed \in SUBSET Calls(r, spaces) : Lists(r, spaces, failed, {o \in Of(r) : Kept(r, o)})
      BY <2>1
    <3>2. \A o \in {o \in Of(r) : Kept(r, o)} :
             (o \in Of(r) => r = [gv |-> o.gv, kind |-> o.kind, namespaced |-> o.ns # NoNs]) => MayBePromised(o)
      BY <2>1, KeptFits DEF Inv
    <3>3. {o \in Of(r) : Kept(r, o)} \subseteq Comes(r) /\ spaces \subseteq Searched
      BY ComesFacts DEF Inv, GroupInv
    <3>4. QED
      BY <1>3, <1>4, <3>1, <3>2, <3>3, FoundMore
  <2>2. CASE found' = found
    BY <1>3, <2>2, FilesKept
  <2>3. QED
    BY <1>2, <2>1, <2>2
<1>6. GroupInv'
  <2>1. pc' \in Inside /\ (pc' = "gvk" => IsAskedFor(r)) /\ (pc' = "ocp" => shift)
        /\ (pc' = "policy" => r.kind = "NetworkPolicy")
    BY <1>2, AfterFacts
  <2>2. QED
    BY <1>2, <1>3, <1>4, <2>1, SearchedKept DEF Inv, GroupInv, IsAskedFor, Inside
<1>7. QED
  BY <1>1, <1>5, <1>6 DEF Inv

LEMMA ListInv == ASSUME Inv, ListGvk \/ ListOcp \/ ListPolicies PROVE Inv'
<1>1. Typed'
  BY ListTyped DEF Inv
<1>2. /\ UNCHANGED <<settings, cluster, home, shift, files, pods, volumes, res, left>>
      /\ pc \in Inside /\ pc' \in Inside
      /\ (pc' = "policy" => res.kind = "NetworkPolicy") /\ (pc' = "ocp" => shift) /\ pc' # "gvk"
      /\ res \in Resource /\ res.gv # Trilio
  BY AfterFacts DEF ListGvk, ListOcp, ListPolicies, AfterGvk, AfterOcp, world, view, gathered, Inside,
     Inv, GroupInv, Typed, PlaceInv
<1>3. spaces' \subseteq Searched /\ spaces \subseteq Searched
  <2>1. CASE ListOcp
    BY <2>1 DEF ListOcp, Inv, GroupInv, Searched
  <2>2. CASE ListGvk \/ ListPolicies
    BY <2>2 DEF ListGvk, ListPolicies, view, Inv, GroupInv
  <2>3. QED
    BY <2>1, <2>2
<1>4. GroupInv'
  BY <1>2, <1>3, SearchedKept DEF Inv, GroupInv, Inside
<1>5. CASE ListGvk
  <2>1. PICK failed : Lists(res, spaces, failed, Of(res))
    BY <1>5 DEF ListGvk
  <2>2. res \in settings.gvks
    BY <1>5 DEF ListGvk, Inv, GroupInv
  <2>3. \A o \in Of(res) :
          (o \in Of(res) => res = [gv |-> o.gv, kind |-> o.kind, namespaced |-> o.ns # NoNs])
          => MayBePromised(o)
    BY <2>2 DEF MayBePromised, Promised, ByKind
  <2>4. FileInv'
    BY <1>2, <1>3, <2>1, <2>3, FoundMore, ComesFacts
  <2>5. QED
    BY <1>1, <1>4, <2>4 DEF Inv
<1>6. CASE ListOcp
  <2>1. PICK failed : Lists(res, spaces', failed, {o \in Of(res) : OcpRelated(o)})
    BY <1>6 DEF ListOcp
  <2>2. shift
    BY <1>6 DEF ListOcp, Inv, GroupInv
  <2>3. \A o \in {o \in Of(res) : OcpRelated(o)} : MayBePromised(o)
    BY <2>2 DEF MayBePromised
  <2>4. {o \in Of(res) : OcpRelated(o)} \subseteq Comes(res)
    BY ComesFacts
  <2>5. FileInv'
    BY <1>2, <1>3, <2>1, <2>3, <2>4, FoundMore
  <2>6. QED
    BY <1>1, <1>4, <2>5 DEF Inv
<1>7. CASE ListPolicies
  <2>1. PICK failed : Lists(res, spaces, failed, Policies(home))
    BY <1>7 DEF ListPolicies
  <2>2. res.kind = "NetworkPolicy" /\ home = cluster.home
    BY <1>7 DEF ListPolicies, Inv, Typed, PlaceInv
  <2>3. \A o \in Policies(home) : MayBePromised(o)
    BY <2>2 DEF MayBePromised, Promised, ByDefault, Policies
  <2>4. Policies(home) \subseteq Comes(res)
    BY <2>2 DEF Comes
  <2>5. FileInv'
    BY <1>2, <1>3, <2>1, <2>3, <2>4, FoundMore
  <2>6. QED
    BY <1>1, <1>4, <2>5 DEF Inv
<1>8. QED
  BY <1>5, <1>6, <1>7

LEMMA BetweenInv ==
  ASSUME Inv, NextGroup \/ RememberEvents \/ FilterPanics \/ GroupDone \/ TrilioDone
  PROVE  Inv'
<1>1. Typed'
  BY BetweenTyped DEF Inv
<1>2. /\ UNCHANGED <<settings, cluster, spaces, home, shift, files, pods, volumes, found>>
      /\ pc' \in {"trilio", "resource", "group", "done"}
      /\ pc \notin {"namespaces", "done"}
  BY DEF NextGroup, RememberEvents, FilterPanics, GroupDone, TrilioDone, Stop, world, view, gathered
<1>3. FileInv'
  BY <1>2, FilesKept DEF Inv, FileInv, Inside
<1>4. /\ pc' = "resource" => \A i \in left' : Resources[i].gv # Trilio
      /\ pc' = "trilio" => \A i \in left' : Resources[i].gv = Trilio
  <2>1. CASE NextGroup
    BY <2>1 DEF NextGroup
  <2>2. CASE RememberEvents
    BY <2>2, TakeFacts DEF RememberEvents, Inv, GroupInv
  <2>3. CASE FilterPanics \/ GroupDone \/ TrilioDone
    BY <2>3 DEF FilterPanics, GroupDone, TrilioDone, Stop
  <2>4. QED
    BY <2>1, <2>2, <2>3
<1>5. GroupInv'
  BY <1>2, <1>4, SearchedKept DEF Inv, GroupInv, Inside
<1>6. QED
  BY <1>1, <1>3, <1>5 DEF Inv

LEMMA WriteInv == ASSUME Inv, Write \/ WriteFails PROVE Inv'
<1>1. Typed'
  BY WriteTyped DEF Inv
<1>2. /\ UNCHANGED <<settings, cluster, spaces, home, shift, left>>
      /\ pc = "write" /\ pc' \in {"resource", "volumes", "done"}
      /\ found \subseteq Comes(res) /\ found' \subseteq found /\ found \subseteq Object
      /\ \A o \in found : o.kind = res.kind
  <2>1. found \subseteq Comes(res)
    BY DEF Inv, Typed, TypeOK
  <2>2. \A o \in Comes(res) : o.kind = res.kind
    BY DEF Comes, Of, Policies, IsPolicy
  <2>3. QED
    BY <2>1, <2>2, ComesFacts DEF Write, WriteFails, Stop, world, view
<1>3. GroupInv'
  BY <1>2, SearchedKept DEF Inv, GroupInv, Inside
<1>4. \A o \in found : Fit(o) /\ o.gv # Trilio
  BY <1>2 DEF Inv, FileInv, Inside
<1>l. \A S : Lasting(S) \subseteq S
  BY DEF Lasting
<1>5. ASSUME NEW S, S \subseteq found, Put(Yamls(S))
      PROVE  /\ \A o \in Collected' : Allowed(o)'
             /\ SpecsBare'
             /\ PodsIn(Collected) \subseteq PodsIn(Collected)'
             /\ VolumesOf(Collected \cap Claims) \subseteq VolumesOf(Collected \cap Claims)'
             /\ S \subseteq Collected'
  <2>1. S \subseteq Object /\ \A o \in S : Allowed(o) /\ o.gv # Trilio
    BY <1>2, <1>4, <1>5 DEF Allowed
  <2>2. Yamls(S) \subseteq [object : Object, shows : SUBSET Parts] /\ \A o \in S : \E w \in Yamls(S) : w.object = o
    BY <2>1, YamlFacts
  <2>3. \A w \in Yamls(S) : w.object \in S /\ Bare(w)
    BY <2>1, YamlKeeps
  <2>4. /\ \A o \in Collected' : Allowed(o)'
        /\ SpecsBare'
        /\ PodsIn(Collected) \subseteq PodsIn(Collected)'
        /\ VolumesOf(Collected \cap Claims) \subseteq VolumesOf(Collected \cap Claims)'
        /\ \A w \in Yamls(S) : w.object \in Collected'
    BY <1>2, <1>5, <2>1, <2>2, <2>3, PutKeeps
  <2>5. S \subseteq Collected'
    <3>1. \A o \in S : \E w \in Yamls(S) : w.object = o
      BY <2>2
    <3>2. \A w \in Yamls(S) : w.object \in Collected'
      BY <2>4
    <3>3. QED
      BY <3>1, <3>2
  <2>6. QED
    BY <2>4, <2>5
<1>6. \A o \in found' : Fit(o)' /\ (pc' \in Inside => o.gv # Trilio)
  BY <1>2, <1>4, FitKept
<1>7. CASE Write
  <2>1. Put(Yamls(Lasting(found))) /\ found' = {}
        /\ pods' = (IF res.kind = "Pod" THEN pods \cup found ELSE pods)
        /\ volumes' = (IF IsClaim(res) THEN VolumesOf(found) ELSE {})
    BY <1>7 DEF Write
  <2>2. Lasting(found) \subseteq Collected'
    BY <1>5, <1>l, <2>1
  <2>k. res.kind \in {"Pod", "PersistentVolumeClaim"} => found \subseteq Collected'
    <3>1. ASSUME res.kind \in {"Pod", "PersistentVolumeClaim"} PROVE Lasting(found) = found
      <4>1. \A o \in found : o \in Object /\ o.kind = res.kind /\ o.gv = Core
        BY <1>2, <3>1
      <4>2. ASSUME NEW o \in found, NEW q \in found, Path(q) = Path(o) PROVE q = o
        <5>1. q.ns = o.ns /\ q.name = o.name
          BY <4>2 DEF Path
        <5>2. QED
          BY <4>1, <5>1
      <4>3. QED
        BY <4>2 DEF Lasting
    <3>2. QED
      BY <2>2, <3>1
  <2>3. pods' \subseteq PodsIn(Collected)'
    BY <1>2, <1>5, <1>l, <2>1, <2>k DEF PodsIn, Inv, FileInv
  <2>4. volumes' \subseteq VolumesOf(Collected \cap Claims)'
    <3>1. IsClaim(res) => found \subseteq Collected' \cap Claims
      BY <1>2, <2>k DEF IsClaim, Claims
    <3>2. QED
      BY <2>1, <3>1 DEF VolumesOf, Claims
  <2>5. FileInv'
    BY <1>5, <1>l, <1>6, <2>1, <2>3, <2>4 DEF FileInv
  <2>6. QED
    BY <1>1, <1>3, <2>5 DEF Inv
<1>8. CASE WriteFails
  <2>1. PICK some \in SUBSET found : Put(Yamls(Lasting(some)))
    BY <1>8 DEF WriteFails
  <2>2. pods' = pods /\ volumes' = volumes
    BY <1>8 DEF WriteFails, gathered
  <2>3. FileInv'
    BY <1>5, <1>l, <1>6, <2>1, <2>2 DEF Inv, FileInv
  <2>4. QED
    BY <1>1, <1>3, <2>3 DEF Inv
<1>9. QED
  BY <1>7, <1>8

\* Whatever a step writes of Trilio's own group is allowed there.
LEMMA TrilioWrites ==
  ASSUME Inv, CollectTrilio \/ CollectTrilioFails
  PROVE  \E S \in SUBSET Object :
           /\ Put({TrilioYaml(o) : o \in S})
           /\ \A o \in S : o \in Object /\ o.gv = Trilio /\ Allowed(o)
<1>1. pc = "trilio"
  BY DEF CollectTrilio, CollectTrilioFails
<1>2. PICK r \in Resource, S \in SUBSET Object :
        /\ Take(r)
        /\ S \subseteq Answers(r, {})
        /\ Put({TrilioYaml(o) : o \in S})
  <2>a. \A r \in Resource : Answers(r, {}) \subseteq Object
    BY DEF Answers, Answer, Of
  <2>1. CASE CollectTrilio
    <3>1. PICK r \in Resource :
            /\ Take(r)
            /\ \E failed \in SUBSET Calls(r, spaces) :
                 Put({TrilioYaml(o) : o \in Answers(r, failed) \cap present})
      BY <2>1 DEF CollectTrilio
    <3>2. \A failed : Answers(r, failed) \cap present \subseteq Answers(r, {})
      BY DEF Answers
    <3>3. QED
      BY <2>a, <3>1, <3>2
  <2>2. CASE CollectTrilioFails
    <3>1. PICK r \in Resource :
            /\ Take(r)
            /\ \E some \in SUBSET (Answers(r, {}) \cap present) : Put({TrilioYaml(o) : o \in some})
      BY <2>2 DEF CollectTrilioFails
    <3>2. QED
      BY <2>a, <3>1
  <2>3. QED
    BY <2>1, <2>2
<1>3. r.gv = Trilio
  BY <1>1, <1>2, TakeFacts DEF Inv, GroupInv
<1>4. \A o \in S : o \in Object /\ o.gv = Trilio /\ Allowed(o)
  <2>1. ASSUME NEW o \in S
        PROVE  o \in Object /\ o.gv = Trilio /\ Allowed(o)
    <3>1. PICK c \in Calls(r, spaces) : o \in Answer(r, c)
      BY <1>2 DEF Answers
    <3>2. o \in Object /\ (InNamespaces(o) \/ (shift /\ o.ns = OCPConfigNs))
      BY <3>1, AnswerFits, ComesFacts DEF Inv, GroupInv, Answer
    <3>3. o.gv = Trilio
      BY <1>3, <3>1 DEF Answer, Of
    <3>4. QED
      BY <3>2, <3>3 DEF Allowed, Fit, MayBePromised, Promised, ByDefault
  <2>2. QED
    BY <2>1
<1>5. QED
  BY <1>2, <1>4

\* Trilio's own objects; only their licences hold something.
LEMMA TrilioInv == ASSUME Inv, CollectTrilio \/ CollectTrilioFails PROVE Inv'
<1>1. Typed'
  BY TrilioTyped DEF Inv
<1>2. /\ UNCHANGED <<settings, cluster, spaces, home, shift, pods, volumes, found>>
      /\ pc = "trilio" /\ pc' \in {"trilio", "done"}
      /\ left' \subseteq left
  BY TakeFacts DEF CollectTrilio, CollectTrilioFails, Stop, world, view, gathered, Inv
<1>3. GroupInv'
  BY <1>2, SearchedKept DEF Inv, GroupInv, Inside
<1>4. PICK S \in SUBSET Object :
        /\ Put({TrilioYaml(o) : o \in S})
        /\ \A o \in S : o \in Object /\ o.gv = Trilio /\ Allowed(o)
  BY TrilioWrites
<1>5. \A o \in S : o \in Object /\ o.gv = Trilio /\ Allowed(o)
  BY <1>4
<1>6. \A w \in {TrilioYaml(o) : o \in S} : w.object \in S /\ Bare(w)
  <2>1. ASSUME NEW o \in S
        PROVE  TrilioYaml(o).object = o /\ Bare(TrilioYaml(o))
    <3>1. o.kind # "PersistentVolume"
      BY <1>5 DEF Core, Trilio
    <3>2. TrilioYaml(o).object = o /\ (o.kind = "License" => TrilioYaml(o).shows = {})
      BY Zenon DEF TrilioYaml
    <3>3. QED
      BY <3>1, <3>2 DEF Bare
  <2>2. QED
    BY <2>1
<1>7. S \subseteq Object /\ {TrilioYaml(o) : o \in S} \subseteq [object : Object, shows : SUBSET Parts]
  BY <1>5, TrilioFacts
<1>8. /\ \A o \in Collected' : Allowed(o)'
      /\ SpecsBare'
      /\ PodsIn(Collected) \subseteq PodsIn(Collected)'
      /\ VolumesOf(Collected \cap Claims) \subseteq VolumesOf(Collected \cap Claims)'
  BY <1>2, <1>4, <1>5, <1>6, <1>7, PutKeeps
<1>9. FileInv'
  <2>1. \A o \in found' : Fit(o)' /\ (pc' \in Inside => o.gv # Trilio)
    BY <1>2, FitKept DEF Inv, FileInv, Inside
  <2>2. QED
    BY <1>2, <1>8, <2>1 DEF Inv, FileInv
<1>10. QED
  BY <1>1, <1>3, <1>9 DEF Inv

\* What came by way of a claim or a pod: claims and volumes, none of them Trilio's.
LEMMA WayKeeps ==
  ASSUME Inv, NEW S, S \subseteq Claims \cup Volumes, Put(Yamls(S)), \A o \in S : Allowed(o),
         UNCHANGED <<settings, cluster, shift>>
  PROVE  /\ \A o \in Collected' : Allowed(o)'
         /\ SpecsBare'
         /\ PodsIn(Collected) \subseteq PodsIn(Collected)'
         /\ VolumesOf(Collected \cap Claims) \subseteq VolumesOf(Collected \cap Claims)'
         /\ S \subseteq Collected'
<1>1. S \subseteq Object /\ \A o \in S : o.gv # Trilio
  BY DEF Claims, Volumes, Core, Trilio
<1>2. Yamls(S) \subseteq [object : Object, shows : SUBSET Parts] /\ \A o \in S : \E w \in Yamls(S) : w.object = o
  BY <1>1, YamlFacts
<1>3. \A w \in Yamls(S) : w.object \in S /\ Bare(w)
  BY <1>1, YamlKeeps
<1>4. /\ \A o \in Collected' : Allowed(o)'
      /\ SpecsBare'
      /\ PodsIn(Collected) \subseteq PodsIn(Collected)'
      /\ VolumesOf(Collected \cap Claims) \subseteq VolumesOf(Collected \cap Claims)'
      /\ \A w \in Yamls(S) : w.object \in Collected'
  BY <1>1, <1>2, <1>3, PutKeeps
<1>5. S \subseteq Collected'
  <2>1. \A o \in S : \E w \in Yamls(S) : w.object = o
    BY <1>2
  <2>2. \A w \in Yamls(S) : w.object \in Collected'
    BY <1>4
  <2>3. QED
    BY <2>1, <2>2
<1>6. QED
  BY <1>4, <1>5

LEMMA VolumesInv == ASSUME Inv, GetVolumes \/ GetVolumesFails PROVE Inv'
<1>1. Typed'
  BY VolumesTyped DEF Inv
<1>2. /\ UNCHANGED <<settings, cluster, spaces, home, shift, left, found, pods>>
      /\ pc \in {"volumes", "podVolumes"} /\ pc' \in {"resource", "events", "done"}
      /\ pc' = "resource" => pc = "volumes"
      /\ volumes' = {} /\ found = {}
  BY DEF GetVolumes, GetVolumesFails, Stop, world, view, Inv, Typed, PlaceInv, Inside
<1>3. GroupInv'
  BY <1>2, SearchedKept DEF Inv, GroupInv, Inside
<1>4. Sought \subseteq Volumes /\ \A o \in Sought : Allowed(o)
  BY DEF Sought, Allowed, VolumesUsed, Inv, FileInv
<1>5. PICK S : S \subseteq Sought /\ Put(Yamls(S))
  <2>1. CASE GetVolumes
    <3>1. PICK refused \in SUBSET Sought : Put(Yamls((Sought \ refused) \cap present))
      BY <2>1 DEF GetVolumes
    <3>2. QED
      BY <3>1
  <2>2. CASE GetVolumesFails
    <3>1. PICK some \in SUBSET (Sought \cap present) : Put(Yamls(some))
      BY <2>2 DEF GetVolumesFails
    <3>2. QED
      BY <3>1
  <2>3. QED
    BY <2>1, <2>2
<1>6. /\ \A o \in Collected' : Allowed(o)'
      /\ SpecsBare'
      /\ PodsIn(Collected) \subseteq PodsIn(Collected)'
  <2>1. S \subseteq Claims \cup Volumes /\ \A o \in S : Allowed(o)
    BY <1>4, <1>5
  <2>2. QED
    BY <1>2, <1>5, <2>1, WayKeeps
<1>7. FileInv'
  BY <1>2, <1>6 DEF Inv, FileInv
<1>8. QED
  BY <1>1, <1>3, <1>7 DEF Inv

LEMMA PodClaimsInv == ASSUME Inv, GetPodClaims \/ PodClaimsFail PROVE Inv'
<1>1. Typed'
  BY PodClaimsTyped DEF Inv
<1>2. /\ UNCHANGED <<settings, cluster, spaces, home, shift, left, found, pods>>
      /\ pc = "group" /\ pc' \in {"events", "podVolumes", "done"} /\ found = {}
  BY DEF GetPodClaims, PodClaimsFail, Stop, world, view, gathered, Inv, Typed, PlaceInv, Inside
<1>3. GroupInv'
  BY <1>2, SearchedKept DEF Inv, GroupInv, Inside
<1>4. Unclaimed \subseteq Claims /\ \A o \in Unclaimed : Allowed(o)
  BY DEF Unclaimed, ClaimsOf, Allowed, Inv, FileInv
<1>5. PICK S : /\ S \subseteq Unclaimed /\ Put(Yamls(S))
               /\ volumes' = VolumesOf(S) \/ volumes' = volumes
  <2>1. CASE GetPodClaims
    <3>1. PICK failed \in SUBSET Unclaimed :
            LET got == (Unclaimed \ failed) \cap present
            IN Put(Yamls(got)) /\ volumes' = VolumesOf(got)
      BY <2>1 DEF GetPodClaims
    <3>2. QED
      BY <3>1
  <2>2. CASE PodClaimsFail
    <3>1. PICK some \in SUBSET (Unclaimed \cap present) : Put(Yamls(some))
      BY <2>2 DEF PodClaimsFail
    <3>2. volumes' = volumes
      BY <2>2 DEF PodClaimsFail, gathered
    <3>3. QED
      BY <3>1, <3>2
  <2>3. QED
    BY <2>1, <2>2
<1>6. /\ \A o \in Collected' : Allowed(o)'
      /\ SpecsBare'
      /\ PodsIn(Collected) \subseteq PodsIn(Collected)'
      /\ VolumesOf(Collected \cap Claims) \subseteq VolumesOf(Collected \cap Claims)'
      /\ S \subseteq Collected'
  <2>1. S \subseteq Claims \cup Volumes /\ \A o \in S : Allowed(o)
    BY <1>4, <1>5
  <2>2. QED
    BY <1>2, <1>5, <2>1, WayKeeps
<1>7. volumes' \subseteq VolumesOf(Collected \cap Claims)'
  <2>1. S \subseteq Collected' \cap Claims
    BY <1>4, <1>5, <1>6
  <2>2. VolumesOf(S) \subseteq VolumesOf(Collected \cap Claims)'
    BY <2>1 DEF VolumesOf, Claims
  <2>3. QED
    BY <1>5, <1>6, <2>2 DEF Inv, FileInv
<1>8. FileInv'
  BY <1>2, <1>6, <1>7 DEF Inv, FileInv
<1>9. QED
  BY <1>1, <1>3, <1>8 DEF Inv

\* The steps that write nothing of an object.
LEMMA RestInv == ASSUME Inv, GetEvents \/ WriteEventsFails \/ Vanish PROVE Inv'
<1>1. Typed'
  BY EventsTyped, VanishTyped DEF Inv
<1>2. /\ UNCHANGED <<settings, cluster, spaces, home, shift, left, res, files, pods, volumes, found>>
      /\ pc' \in {pc, "done"}
  BY DEF GetEvents, WriteEventsFails, Vanish, Stop, world, view, gathered
<1>3. FileInv'
  BY <1>2, FilesKept DEF Inv, FileInv, Inside
<1>4. GroupInv'
  BY <1>2, SearchedKept DEF Inv, GroupInv, Inside
<1>5. QED
  BY <1>1, <1>3, <1>4 DEF Inv

LEMMA InvInit == Init => Inv
<1> SUFFICES ASSUME Init PROVE Inv
  OBVIOUS
<1>1. /\ pc = "namespaces" /\ spaces = settings.namespaces /\ shift = FALSE /\ left = {}
      /\ found = {} /\ pods = {} /\ volumes = {} /\ files = {}
  BY DEF Init
<1>2. Collected = {}
  BY <1>1 DEF Collected
<1>3. FileInv
  BY <1>1, <1>2 DEF FileInv, SpecsBare
<1>4. GroupInv
  BY <1>1 DEF GroupInv, Inside, Searched
<1>5. QED
  BY <1>3, <1>4, TypedInit DEF Inv

LEMMA InvNext == Inv /\ [Next]_vars => Inv'
<1>1. ASSUME Inv, UNCHANGED vars PROVE Inv'
  <2>1. UNCHANGED <<settings, cluster, spaces, home, shift, left, res, files, pods, volumes, found, pc>>
    BY <1>1 DEF vars
  <2>2. Typed'
    BY <1>1, TypedNext DEF Inv
  <2>3. FileInv'
    BY <1>1, <2>1, FilesKept DEF Inv, FileInv, Inside
  <2>4. GroupInv'
    BY <1>1, <2>1, SearchedKept DEF Inv, GroupInv, Inside
  <2>5. QED
    BY <2>2, <2>3, <2>4 DEF Inv
<1>2. QED
  BY <1>1, StartInv, FilterInv, ListInv, WriteInv, BetweenInv, TrilioInv, VolumesInv, PodClaimsInv,
     RestInv DEF Next, Visit, VisitTrilio, Follow

LEMMA InvAlways == Spec => []Inv
BY InvInit, InvNext, PTL DEF Spec

\* Every variable has its type: a resource in hand is one of the cluster's, and
\* what was found is of that resource.
THEOREM CollectTypeCorrect == Spec => []TypeOK
<1>1. Inv => TypeOK
  BY DEF Inv, Typed
<1>2. QED
  BY <1>1, InvAlways, PTL

\* filterResourceObjects, getOcpRelatedResources, getTrilioGroupResources and the
\* ways by pods and claims bring nothing into a bundle that was not promised.
THEOREM NothingUnpromised == Spec => []OnlyPromised
<1>1. Inv => OnlyPromised
  BY DEF Inv, FileInv, Allowed, OnlyPromised
<1>2. QED
  BY <1>1, InvAlways, PTL

\* Of the ways an object gets into a file, each takes out the server and path of a
\* volume's spec, and the key and the annotations of a licence.  It says nothing of a
\* volume's annotations and of other kinds, which writeYaml leaves as they are.
THEOREM NoSecretInSpecs == Spec => []SpecsBare
<1>1. Inv => SpecsBare
  BY DEF Inv, FileInv
<1>2. QED
  BY <1>1, InvAlways, PTL
=============================================================================
