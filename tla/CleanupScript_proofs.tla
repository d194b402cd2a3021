--------------------------- MODULE CleanupScript_proofs ---------------------------
(***************************************************************************)
(* Proofs about the removal script, for any cluster, command lines and     *)
(* number of failing calls.                                                *)
(***************************************************************************)
EXTENDS CleanupScript, FiniteSetTheorems, WellFoundedInduction, TLAPS

(***************************************************************************)
(* The type of every variable, and what is in hand where.                  *)
(***************************************************************************)

Removal == {"delete", "wait", "patch", "look"}
Backs == {"resources", "csv", "helm", "uninstall manager", "namespaces", "crd"}
OperatorParts == {"ocp", "subscription", "csv", "helm", "namespaces", "manager", "uninstall manager",
                  "uninstall operator", "cronjob"}
CrdParts == {"crds", "crd"}
Places == {"options", "resources", "report", "done"} \cup Removal \cup OperatorParts \cup CrdParts
Argument == Options \cup Custom \cup {""}

\* The part of the script, whether or not a removal is in hand.
Where == IF pc \in Removal THEN back ELSE pc

\* What a part removes.
Meant(part, o) ==
  CASE part = "resources" -> o.kind \in chosen
    [] part = "crd" -> o.kind = "crd" /\ o.ours
    [] OTHER -> o.kind \in Other /\ Matched(o)

FlowInv ==
  /\ args \in Seq(Argument)
  /\ resources \in Seq(chosen)
  /\ pc \in Removal => back \in Backs
  /\ Where \in OperatorParts => asked.tvm
  /\ Where \in CrdParts => asked.crd
  /\ Where \notin {"resources", "crd"} => batch = {}
  /\ Where = "options" => places = {}
  /\ Where = "resources" => \A p \in places : p.kind \in chosen
  /\ Where \in {"resources", "crd"} => \A o \in batch : Meant(Where, o)
  /\ pc \in Removal => \A o \in target : Meant(back, o)

Typed == TypeOK /\ FlowInv

LEMMA Kinds ==
  /\ Custom = {"ClusterBackup", "Backup", "Target"}
  /\ AllResources \in Seq(Custom)
  /\ \A r : r \in {AllResources[n] : n \in DOMAIN AllResources} <=> r \in Custom
<1>1. DOMAIN AllResources = 1 .. 3
  BY DEF AllResources
<1>2. Custom = {"ClusterBackup", "Backup", "Target"}
  BY <1>1 DEF Custom, AllResources
<1>3. AllResources \in Seq(Custom)
  BY <1>2 DEF AllResources
<1>4. QED
  BY <1>2, <1>3 DEF Custom

\* A sequence over the set of its own elements.
LEMMA OwnElements ==
  ASSUME NEW S, NEW s \in Seq(S)
  PROVE  s \in Seq({s[n] : n \in DOMAIN s}) /\ {s[n] : n \in DOMAIN s} \subseteq S
OBVIOUS

LEMMA Bound == MaxTrouble \in Nat
BY ScriptAssumption

LEMMA CommandLines == Arguments \subseteq Seq(Argument)
BY ScriptAssumption DEF Argument

LEMMA FiniteCluster == IsFiniteSet(Object)
BY ScriptAssumption

LEMMA Assumed ==
  /\ Late \subseteq Object
  /\ \A o \in Object : o.held \in BOOLEAN /\ (o.kind = "crd" /\ o.ours => o.name \in Trilio)
  /\ \A c, d \in Object : c.kind = "crd" /\ d.kind = "crd" /\ c.name = d.name => c = d
BY ScriptAssumption

LEMMA TroubleFacts ==
  ASSUME TypeOK, Trouble \/ UNCHANGED trouble
  PROVE  trouble' \in 0 .. MaxTrouble
<1>1. trouble \in 0 .. MaxTrouble
  BY DEF TypeOK
<1>2. QED
  BY <1>1, Bound DEF Trouble

LEMMA InitTyped == ASSUME Init PROVE Typed
<1>1. args \in Seq(Argument)
  BY CommandLines DEF Init
<1>2. TypeOK
  <2>1. trouble \in 0 .. MaxTrouble
    BY Bound DEF Init
  <2>2. QED
    BY <2>1, Assumed DEF Init, TypeOK
<1>3. QED
  BY <1>1, <1>2 DEF Init, Typed, FlowInv, Where, Removal, OperatorParts, CrdParts

LEMMA ReadOptionTyped == ASSUME Typed, ReadOption PROVE Typed'
<1>1. CASE args[1] \notin {"-n", "-c", "-t", "-r"}
  BY <1>1 DEF ReadOption, Finish, loops, report, cluster, history, Typed, TypeOK, FlowInv, Where,
              Removal, OperatorParts, CrdParts, Meant
<1>2. CASE args[1] \in {"-n", "-c", "-t", "-r"}
  <2>1. args \in Seq(Argument) /\ args # <<>> /\ Len(args) \in Nat /\ Len(args) >= 1
    BY DEF ReadOption, Typed, FlowInv
  <2>2. Consumed \in {1, 2} /\ Consumed <= Len(args)
    BY <2>1 DEF Consumed
  <2>3. args' \in Seq(Argument)
    <3>1. args' = SubSeq(args, Consumed + 1, Len(args))
      BY <1>2 DEF ReadOption
    <3>2. QED
      BY <2>1, <2>2, <3>1
  <2>4. Chosen \in Seq(Custom)
    <3>1. CASE Len(args) = 1 \/ IsOption(args[2])
      BY <3>1, Kinds DEF Chosen
    <3>2. CASE ~(Len(args) = 1 \/ IsOption(args[2]))
      <4>1. Len(args) >= 2 /\ args[2] \notin Options
        <5>1. Len(args) # 1 /\ args[2] \notin Options
          BY <3>2 DEF IsOption
        <5>2. \A n \in Nat : n # 1 /\ n >= 1 => n >= 2
          OBVIOUS
        <5>3. QED
          BY <2>1, <5>1, <5>2
      <4>2. args[2] \in Argument
        BY <2>1, <4>1
      <4>3. args[2] \in Custom \cup {""}
        BY <4>1, <4>2 DEF Argument
      <4>4. Chosen = IF args[2] = "" THEN <<>> ELSE <<args[2]>>
        BY <3>2 DEF Chosen
      <4>5. CASE args[2] = ""
        <5>1. \A S : <<>> \in Seq(S)
          OBVIOUS
        <5>2. Chosen = <<>>
          BY <4>4, <4>5, Zenon
        <5>3. QED
          BY <5>1, <5>2
      <4>6. CASE args[2] # ""
        <5>1. \A x \in Custom : <<x>> \in Seq(Custom)
          OBVIOUS
        <5>2. args[2] \in Custom /\ Chosen = <<args[2]>>
          BY <4>3, <4>4, <4>6
        <5>3. QED
          BY <5>1, <5>2
      <4>7. QED
        BY <4>5, <4>6
    <3>3. QED
      BY <3>1, <3>2
  <2>5. resources' \in Seq(Custom) /\ chosen' = {resources'[n] : n \in DOMAIN resources'}
    <3>1. chosen \subseteq Custom
      BY DEF Typed, TypeOK
    <3>2. resources \in Seq(Custom)
      BY <3>1 DEF Typed, FlowInv
    <3>3. QED
      BY <1>2, <2>4, <3>2 DEF ReadOption
  <2>6. resources' \in Seq(chosen') /\ chosen' \subseteq Custom
    BY <2>5, OwnElements
  <2>7. asked' \in [silent : BOOLEAN, crd : BOOLEAN, tvm : BOOLEAN]
    <3>1. asked' = [silent |-> asked.silent \/ args[1] = "-n",
                    crd |-> asked.crd \/ args[1] = "-c", tvm |-> asked.tvm \/ args[1] = "-t"]
      BY <1>2 DEF ReadOption
    <3>2. \A a, b : (a \/ b) \in BOOLEAN
      OBVIOUS
    <3>3. QED
      BY <3>1, <3>2, Zenon
  <2>8. /\ pc = "options" /\ pc' = "options"
        /\ UNCHANGED <<exit, places, place, batch, target, back, failed, cluster, trouble, history>>
    BY <1>2 DEF ReadOption
  <2>9. Where = "options" /\ Where' = "options"
    BY <2>8 DEF Where, Removal
  <2>10. TypeOK'
    BY <2>6, <2>7, <2>8 DEF Typed, TypeOK, cluster, history
  <2>11. FlowInv'
    BY <2>3, <2>6, <2>8, <2>9 DEF Typed, FlowInv, OperatorParts, CrdParts, Removal
  <2>12. QED
    BY <2>10, <2>11 DEF Typed
<1>3. QED
  BY <1>1, <1>2

LEMMA StartTyped == ASSUME Typed, Start PROVE Typed'
<1>1. After("start") = "resources"
  BY DEF After
<1>2. Where = "options" /\ batch = {} /\ places = {}
  BY DEF Start, Typed, FlowInv, Where, Removal
<1>3. UNCHANGED <<options, loops, target, back, failed, cluster, trouble, history>>
  BY DEF Start
<1>4. \/ pc' = "done" /\ exit' = "stopped"
      \/ pc' = "resources" /\ UNCHANGED exit
  BY <1>1 DEF Start, Finish
<1>5. exit = "none" /\ pc = "options"
  BY DEF Start, Typed, TypeOK
<1>6. TypeOK'
  BY <1>3, <1>4, <1>5 DEF Typed, TypeOK, options, loops, cluster, history
<1>7. FlowInv'
  BY <1>2, <1>3, <1>4 DEF Typed, FlowInv, Where, Removal, OperatorParts, CrdParts, options, loops, Meant
<1>8. QED
  BY <1>6, <1>7 DEF Typed

LEMMA ListingFacts ==
  ASSUME TypeOK, NEW S, NEW heard, Listing(S, heard)
  PROVE  /\ heard \subseteq S
         /\ trouble' \in 0 .. MaxTrouble
         /\ (heard = S /\ unheard' = unheard) \/ unheard'
<1>1. Trouble \/ UNCHANGED trouble
  BY DEF Listing
<1>2. trouble' \in 0 .. MaxTrouble
  BY <1>1, TroubleFacts
<1>3. heard \subseteq S /\ ((heard = S /\ unheard' = unheard) \/ unheard')
  BY Zenon DEF Listing
<1>4. QED
  BY <1>2, <1>3

LEMMA Following ==
  ASSUME NEW part
  PROVE  /\ After(part) \in {"resources", "ocp", "crds", "report"}
         /\ After(part) = "resources" <=> part = "start"
         /\ After(part) = "ocp" <=> part = "resources" /\ asked.tvm
         /\ After(part) = "crds" => asked.crd
         /\ After(part) = "report" /\ asked.crd => part = "crds"
BY DEF After

\* What the types of a step that is no option depend on.
LEMMA StepTypeOK ==
  ASSUME TypeOK, UNCHANGED options, pc' \in Places, batch' \subseteq Object, target' \subseteq Object,
         failed' \in BOOLEAN, state' \in [Object -> {"absent", "live", "terminating", "gone"}],
         held' \subseteq Object, trouble' \in 0 .. MaxTrouble, exit' \in {"none", "stopped", "ok", "failed"},
         (exit' = "none") <=> (pc' # "done")
  PROVE  TypeOK'
<1>1. (exit' = "none") = (pc' # "done")
  OBVIOUS
<1>2. chosen' \subseteq Custom /\ asked' \in [silent : BOOLEAN, crd : BOOLEAN, tvm : BOOLEAN]
  BY DEF TypeOK, options
<1>3. QED
  BY <1>1, <1>2 DEF TypeOK, Places, Removal, OperatorParts, CrdParts

\* The script in a removal, and on its way back from one.
LEMMA RemovalFlow ==
  ASSUME Typed, pc \in Removal, pc' \in Removal \cup {back}, UNCHANGED <<options, loops, target, back>>
  PROVE  /\ FlowInv'
         /\ pc' \in Places \ {"done", "options", "report"}
         /\ Where' = Where /\ Where = back /\ back \in Backs
<1>1. back \in Backs /\ Where = back
  BY DEF Typed, FlowInv, Where
<1>2. Where' = back
  BY <1>1 DEF Where, Backs, Removal
<1>3. pc' \in Places \ {"done", "options", "report"}
  BY <1>1 DEF Places, Backs, OperatorParts, CrdParts, Removal
<1>4. UNCHANGED <<args, resources, places, batch, chosen, asked, target, back>>
  BY DEF options, loops
<1>5. \A part, o : Meant(part, o)' <=> Meant(part, o)
  BY <1>4 DEF Meant
<1>6. FlowInv'
  BY <1>1, <1>2, <1>4, <1>5 DEF Typed, FlowInv
<1>7. QED
  BY <1>1, <1>2, <1>3, <1>6

LEMMA AfterDeleteType ==
  ASSUME TypeOK, NEW S
  PROVE  AfterDelete(S) \in [Object -> {"absent", "live", "terminating", "gone"}]
BY DEF AfterDelete, TypeOK

LEMMA DeleteTyped == ASSUME Typed, Delete PROVE Typed' /\ Where' = Where /\ Where = back
<1>1. pc \in Removal /\ pc' \in Removal
  BY DEF Delete, Removal
<1>2. UNCHANGED <<options, loops, target, back, report, held, unheard>>
  BY DEF Delete
<1>3. FlowInv' /\ pc' \in Places \ {"done"} /\ Where' = Where /\ Where = back
  BY <1>1, <1>2, RemovalFlow
<1>4. Trouble \/ UNCHANGED trouble
  BY DEF Delete
<1>5. trouble' \in 0 .. MaxTrouble
  BY <1>4, TroubleFacts DEF Typed
<1>6. state' \in [Object -> {"absent", "live", "terminating", "gone"}]
  <2>1. state' = state \/ state' = AfterDelete(Named)
    BY DEF Delete
  <2>2. AfterDelete(Named) \in [Object -> {"absent", "live", "terminating", "gone"}]
    BY AfterDeleteType DEF Typed
  <2>3. state \in [Object -> {"absent", "live", "terminating", "gone"}]
    BY DEF Typed, TypeOK
  <2>4. QED
    BY <2>1, <2>2, <2>3, Zenon
<1>7. pc # "done" /\ pc' # "done"
  BY <1>1 DEF Removal
<1>8. TypeOK'
  BY <1>2, <1>3, <1>5, <1>6, <1>7, StepTypeOK DEF Typed, TypeOK, loops, report
<1>9. QED
  BY <1>3, <1>8 DEF Typed

LEMMA WaitTyped == ASSUME Typed, Wait PROVE Typed' /\ Where' = Where /\ Where = back
<1>1. pc \in Removal /\ pc' \in Removal \cup {back}
  BY DEF Wait, Removal
<1>2. UNCHANGED <<options, loops, target, back, report, cluster, trouble, history>>
  BY DEF Wait
<1>3. FlowInv' /\ pc' \in Places \ {"done"} /\ Where' = Where /\ Where = back
  BY <1>1, <1>2, RemovalFlow
<1>4. pc # "done" /\ pc' # "done"
  BY <1>1, <1>3 DEF Removal
<1>5. TypeOK'
  BY <1>2, <1>3, <1>4, StepTypeOK DEF Typed, TypeOK, loops, report, cluster
<1>6. QED
  BY <1>3, <1>5 DEF Typed

LEMMA PatchTyped == ASSUME Typed, Patch PROVE Typed' /\ Where' = Where /\ Where = back
<1>1. pc \in Removal /\ pc' \in Removal
  BY DEF Patch, Removal
<1>2. UNCHANGED <<options, loops, target, back, report, unheard, bunched>>
  BY DEF Patch
<1>3. FlowInv' /\ pc' \in Places \ {"done"} /\ Where' = Where /\ Where = back
  BY <1>1, <1>2, RemovalFlow
<1>4. Trouble \/ UNCHANGED trouble
  BY DEF Patch
<1>5. trouble' \in 0 .. MaxTrouble
  BY <1>4, TroubleFacts DEF Typed
<1>6. held' \subseteq Object
  BY DEF Patch, cluster, Typed, TypeOK
<1>7. state' \in [Object -> {"absent", "live", "terminating", "gone"}]
  BY DEF Patch, cluster, Typed, TypeOK
<1>8. pc # "done" /\ pc' # "done"
  BY <1>1 DEF Removal
<1>9. TypeOK'
  BY <1>2, <1>3, <1>5, <1>6, <1>7, <1>8, StepTypeOK DEF Typed, TypeOK, loops, report
<1>10. QED
  BY <1>3, <1>9 DEF Typed

LEMMA LookTyped == ASSUME Typed, Look PROVE Typed' /\ Where' = Where /\ Where = back
<1>1. pc \in Removal /\ pc' \in Removal \cup {back}
  BY DEF Look, AfterLook, Removal
<1>2. UNCHANGED <<options, loops, target, back, exit, cluster, refused, bunched>>
  BY DEF Look
<1>3. FlowInv' /\ pc' \in Places \ {"done"} /\ Where' = Where /\ Where = back
  BY <1>1, <1>2, RemovalFlow
<1>4. Trouble \/ UNCHANGED trouble
  BY DEF Look
<1>5. trouble' \in 0 .. MaxTrouble
  BY <1>4, TroubleFacts DEF Typed
<1>6. failed' \in BOOLEAN
  <2>1. \A b, c : (b \/ c) \in BOOLEAN
    OBVIOUS
  <2>2. QED
    BY <2>1, Zenon DEF Look, Failed
<1>7. pc # "done" /\ pc' # "done"
  BY <1>1, <1>3 DEF Removal
<1>8. TypeOK'
  BY <1>2, <1>3, <1>5, <1>6, <1>7, StepTypeOK DEF Typed, TypeOK, loops, cluster
<1>9. QED
  BY <1>3, <1>8 DEF Typed

LEMMA NextResourceTyped == ASSUME Typed, NextResource PROVE Typed'
<1>1. /\ pc = "resources" /\ places = {} /\ batch = {}
      /\ UNCHANGED <<options, place, batch, target, back, report, cluster, refused, bunched>>
  BY DEF NextResource
<1>2. CASE resources = <<>>
  <2>1. pc' = After("resources") /\ UNCHANGED <<resources, places, trouble, unheard>>
    BY <1>2 DEF NextResource
  <2>2. pc' \in {"ocp", "crds", "report"} /\ (pc' = "ocp" => asked.tvm) /\ (pc' = "crds" => asked.crd)
    BY <2>1, Following, Zenon
  <2>3. TypeOK'
    BY <1>1, <2>1, <2>2, StepTypeOK DEF Typed, TypeOK, report, cluster, Places, OperatorParts, CrdParts
  <2>4. FlowInv'
    BY <1>1, <2>1, <2>2 DEF Typed, FlowInv, Where, Removal, OperatorParts, CrdParts, options
  <2>5. QED
    BY <2>3, <2>4 DEF Typed
<1>3. CASE resources # <<>>
  <2>1. resources \in Seq(chosen)
    BY DEF Typed, FlowInv
  <2>2. Head(resources) \in chosen /\ Tail(resources) \in Seq(chosen)
    BY <1>3, <2>1
  <2>3. PICK heard \in SUBSET Present(Head(resources)) :
          /\ Listing(Present(Head(resources)), heard)
          /\ places' = {[kind |-> Head(resources), ns |-> FirstColumn(o)] : o \in heard}
    BY <1>3 DEF NextResource
  <2>4. trouble' \in 0 .. MaxTrouble
    BY <2>3, ListingFacts DEF Typed
  <2>5. resources' = Tail(resources) /\ pc' = "resources"
    BY <1>1, <1>3 DEF NextResource
  <2>6. TypeOK'
    BY <1>1, <2>4, <2>5, StepTypeOK DEF Typed, TypeOK, report, cluster, Places
  <2>7. \A p \in places' : p.kind \in chosen
    BY <2>2, <2>3
  <2>8. FlowInv'
    BY <1>1, <2>2, <2>5, <2>7 DEF Typed, FlowInv, Where, Removal, OperatorParts, CrdParts, options
  <2>9. QED
    BY <2>6, <2>8 DEF Typed
<1>4. QED
  BY <1>2, <1>3

LEMMA NextPlaceTyped == ASSUME Typed, NextPlace PROVE Typed'
<1>1. /\ pc = "resources"
      /\ UNCHANGED <<pc, options, resources, place, target, back, report, cluster, refused, bunched>>
  BY DEF NextPlace
<1>2. PICK p \in places :
        /\ places' = places \ {p}
        /\ LET listed == {o \in Present(p.kind) : o.ns \in {p.ns, NoNs}}
           IN \E heard \in SUBSET listed : Listing(listed, heard) /\ batch' = heard
  BY DEF NextPlace
<1>3. trouble' \in 0 .. MaxTrouble /\ batch' \subseteq Present(p.kind)
  BY <1>2, ListingFacts DEF Typed
<1>4. p.kind \in chosen
  BY <1>1 DEF Typed, FlowInv, Where, Removal
<1>5. \A o \in batch' : o \in Object /\ o.kind \in chosen
  BY <1>3, <1>4 DEF Present
<1>6. TypeOK'
  BY <1>1, <1>3, <1>5, StepTypeOK DEF Typed, TypeOK, report, cluster, Places
<1>7. FlowInv'
  BY <1>1, <1>2, <1>5 DEF Typed, FlowInv, Where, Removal, OperatorParts, CrdParts, options, Meant
<1>8. QED
  BY <1>6, <1>7 DEF Typed

LEMMA NextNameTyped == ASSUME Typed, NextName PROVE Typed'
<1>1. /\ pc = "resources" /\ pc' = "delete" /\ back' = "resources"
      /\ UNCHANGED <<options, resources, places, place, report, cluster, trouble, history>>
  BY DEF NextName, Remove
<1>2. PICK o \in batch : batch' = batch \ {o} /\ target' = {o}
  BY DEF NextName, Remove
<1>3. TypeOK'
  BY <1>1, <1>2, StepTypeOK DEF Typed, TypeOK, report, cluster, Places, Removal
<1>4. \A x \in batch : x.kind \in chosen
  BY <1>1 DEF Typed, FlowInv, Where, Removal, Meant
<1>5. FlowInv'
  BY <1>1, <1>2, <1>4 DEF Typed, FlowInv, Where, Removal, OperatorParts, CrdParts, Backs, options, Meant
<1>6. QED
  BY <1>3, <1>5 DEF Typed

\* A step from one place of the operator's part to another place, which leaves the
\* objects in hand alone.
LEMMA OperatorFlow ==
  ASSUME Typed, pc \in OperatorParts, UNCHANGED <<options, resources, batch, target, back>>,
         pc' \in OperatorParts \/ (pc' = "crds" /\ asked.crd) \/ pc' = "report"
  PROVE  FlowInv' /\ pc' \in Places \ {"done"} /\ pc # "done"
<1>1. /\ Where = pc /\ Where' = pc' /\ pc' \in Places \ {"done"} /\ pc # "done"
      /\ pc \notin Removal /\ pc' \notin Removal /\ pc' \notin {"options", "resources", "crd"}
      /\ pc \notin {"resources", "crd"}
  BY DEF Where, Removal, OperatorParts, Places, CrdParts
<1>2. asked.tvm /\ batch = {}
  BY <1>1 DEF Typed, FlowInv
<1>3. pc' \in CrdParts => asked.crd
  BY DEF CrdParts, OperatorParts
<1>4. QED
  BY <1>1, <1>2, <1>3 DEF Typed, FlowInv, options

LEMMA CheckOcpTyped == ASSUME Typed, CheckOcp PROVE Typed'
<1>1. /\ pc = "ocp" /\ pc' \in {"subscription", "helm"}
      /\ UNCHANGED <<options, loops, target, back, report, cluster, refused, bunched>>
  BY DEF CheckOcp
<1>2. trouble' \in 0 .. MaxTrouble
  BY ListingFacts DEF CheckOcp, Typed
<1>3. FlowInv' /\ pc' \in Places \ {"done"} /\ pc # "done"
  BY <1>1, OperatorFlow DEF OperatorParts, loops
<1>4. TypeOK'
  BY <1>1, <1>2, <1>3, StepTypeOK DEF Typed, TypeOK, report, cluster, loops
<1>5. QED
  BY <1>3, <1>4 DEF Typed

LEMMA SweepTyped ==
  ASSUME Typed, NEW here \in OperatorParts, NEW kind \in Other, NEW ns,
         NEW next \in OperatorParts \cap Backs, Sweep(here, kind, ns, next)
  PROVE  Typed'
<1>1. pc = here /\ UNCHANGED <<options, loops, report, cluster, refused, bunched>>
  BY DEF Sweep
<1>2. PICK heard \in SUBSET Ours(kind, ns) :
        /\ Listing(Ours(kind, ns), heard)
        /\ IF heard = {} /\ kind # "triliovaultmanager"
           THEN pc' = next /\ UNCHANGED <<target, back>> ELSE Remove(heard, next)
  BY DEF Sweep
<1>3. trouble' \in 0 .. MaxTrouble
  BY <1>2, ListingFacts DEF Typed
<1>4. \A o \in heard : o \in Object /\ o.kind \in Other /\ Matched(o)
  BY DEF Ours, Present
<1>5. CASE heard = {} /\ kind # "triliovaultmanager"
  <2>1. pc' = next /\ UNCHANGED <<target, back>>
    BY <1>2, <1>5
  <2>2. FlowInv' /\ pc' \in Places \ {"done"} /\ pc # "done"
    BY <1>1, <2>1, OperatorFlow DEF loops
  <2>3. TypeOK'
    BY <1>1, <1>3, <2>1, <2>2, StepTypeOK DEF Typed, TypeOK, report, cluster, loops
  <2>4. QED
    BY <2>2, <2>3 DEF Typed
<1>6. CASE ~(heard = {} /\ kind # "triliovaultmanager")
  <2>1. pc' = "delete" /\ back' = next /\ target' = heard
    BY <1>2, <1>6 DEF Remove
  <2>2. pc # "done"
    BY <1>1 DEF OperatorParts
  <2>3. TypeOK'
    BY <1>1, <1>3, <1>4, <2>1, <2>2, StepTypeOK
    DEF Typed, TypeOK, report, cluster, loops, Places, Removal
  <2>4. asked.tvm /\ batch = {}
    BY <1>1 DEF Typed, FlowInv, Where, Removal, OperatorParts
  <2>5. Where' = next /\ next \notin {"options", "resources", "crd"} /\ next \notin CrdParts
    BY <2>1 DEF Where, Removal, OperatorParts, CrdParts
  <2>6. \A o \in target' : Meant(next, o)'
    BY <1>4, <2>1, <2>5 DEF Meant
  <2>7. FlowInv'
    BY <1>1, <2>1, <2>4, <2>5, <2>6 DEF Typed, FlowInv, options, loops
  <2>8. QED
    BY <2>3, <2>7 DEF Typed
<1>7. QED
  BY <1>5, <1>6

LEMMA HelmListTyped == ASSUME Typed, HelmList PROVE Typed'
<1>1. /\ pc = "helm" /\ pc' = "namespaces"
      /\ UNCHANGED <<options, resources, place, batch, target, back, report, cluster, refused, bunched>>
  BY DEF HelmList
<1>2. trouble' \in 0 .. MaxTrouble
  BY ListingFacts DEF HelmList, Typed
<1>3. FlowInv' /\ pc' \in Places \ {"done"} /\ pc # "done"
  BY <1>1, OperatorFlow DEF OperatorParts
<1>4. TypeOK'
  BY <1>1, <1>2, <1>3, StepTypeOK DEF Typed, TypeOK, report, cluster
<1>5. QED
  BY <1>3, <1>4 DEF Typed

LEMMA NextNamespaceTyped == ASSUME Typed, NextNamespace PROVE Typed'
<1>1. /\ pc = "namespaces"
      /\ UNCHANGED <<options, resources, batch, target, back, report, cluster, trouble, history>>
  BY DEF NextNamespace
<1>2. pc' = "manager" \/ pc' = After("operator")
  BY DEF NextNamespace
<1>3. After("operator") = "report" \/ (After("operator") = "crds" /\ asked.crd)
  BY DEF After
<1>4. FlowInv' /\ pc' \in Places \ {"done"} /\ pc # "done"
  BY <1>1, <1>2, <1>3, OperatorFlow DEF OperatorParts
<1>5. TypeOK'
  BY <1>1, <1>4, StepTypeOK DEF Typed, TypeOK, report, cluster
<1>6. QED
  BY <1>4, <1>5 DEF Typed

LEMMA UninstallTyped ==
  ASSUME Typed, NEW here \in OperatorParts, NEW kind, NEW next \in OperatorParts,
         Uninstall(here, kind, next)
  PROVE  Typed'
<1>1. pc = here /\ pc' = next /\ UNCHANGED <<options, loops, target, back, exit, held>>
  BY DEF Uninstall
<1>2. PICK heard \in SUBSET Ours(kind, place) :
        /\ \/ Listing(Ours(kind, place), heard) /\ UNCHANGED refused
           \/ heard = Ours(kind, place) /\ Trouble /\ refused' = refused \cup heard /\ UNCHANGED unheard
        /\ LET done == Cardinality(heard) = 1 /\ heard \cap refused' = {}
           IN /\ state' = [o \in Object |-> IF done /\ o \in heard THEN "gone" ELSE state[o]]
              /\ failed' = Failed(heard # {} /\ ~done)
  BY DEF Uninstall
<1>3. trouble' \in 0 .. MaxTrouble
  BY <1>2, ListingFacts, TroubleFacts DEF Typed
<1>4. failed' \in BOOLEAN
  <2>1. \A b, c : (b \/ c) \in BOOLEAN
    OBVIOUS
  <2>2. QED
    BY <1>2, <2>1, Zenon DEF Failed
<1>5. state' \in [Object -> {"absent", "live", "terminating", "gone"}]
  BY <1>2 DEF Typed, TypeOK
<1>6. FlowInv' /\ pc' \in Places \ {"done"} /\ pc # "done"
  BY <1>1, OperatorFlow DEF loops
<1>7. TypeOK'
  BY <1>1, <1>3, <1>4, <1>5, <1>6, StepTypeOK DEF Typed, TypeOK, loops
<1>8. QED
  BY <1>6, <1>7 DEF Typed

LEMMA ListCrdsTyped == ASSUME Typed, ListCrds PROVE Typed'
<1>1. /\ pc = "crds" /\ pc' = "crd"
      /\ UNCHANGED <<options, resources, places, place, target, back, report, cluster, refused, bunched>>
  BY DEF ListCrds
<1>2. trouble' \in 0 .. MaxTrouble /\ batch' \subseteq {c \in Present("crd") : c.ours}
  BY ListingFacts DEF ListCrds, Typed
<1>3. \A o \in batch' : o \in Object /\ o.kind = "crd" /\ o.ours
  BY <1>2 DEF Present
<1>4. TypeOK'
  BY <1>1, <1>2, <1>3, StepTypeOK DEF Typed, TypeOK, report, cluster, Places, CrdParts
<1>5. asked.crd
  BY <1>1 DEF Typed, FlowInv, Where, Removal, CrdParts
<1>6. FlowInv'
  BY <1>1, <1>3, <1>5 DEF Typed, FlowInv, Where, Removal, OperatorParts, CrdParts, options, Meant
<1>7. QED
  BY <1>4, <1>6 DEF Typed

LEMMA NextCrdTyped == ASSUME Typed, NextCrd PROVE Typed'
<1>1. pc = "crd" /\ UNCHANGED <<options, resources, places, place, report, cluster, trouble, history>>
  BY DEF NextCrd
<1>2. asked.crd /\ \A o \in batch : o.kind = "crd" /\ o.ours
  BY <1>1 DEF Typed, FlowInv, Where, Removal, CrdParts, Meant
<1>3. CASE batch = {}
  <2>1. pc' = "report" /\ UNCHANGED <<batch, target, back>>
    BY <1>3 DEF NextCrd, After
  <2>2. TypeOK'
    BY <1>1, <2>1, StepTypeOK DEF Typed, TypeOK, report, cluster, Places
  <2>3. FlowInv'
    BY <1>1, <1>3, <2>1 DEF Typed, FlowInv, Where, Removal, OperatorParts, CrdParts, options, Meant
  <2>4. QED
    BY <2>2, <2>3 DEF Typed
<1>4. CASE batch # {}
  <2>1. PICK c \in batch : batch' = batch \ {c} /\ target' = {c} /\ back' = "crd" /\ pc' = "delete"
    BY <1>4 DEF NextCrd, Remove
  <2>2. TypeOK'
    BY <1>1, <2>1, StepTypeOK DEF Typed, TypeOK, report, cluster, Places, Removal
  <2>3. FlowInv'
    BY <1>1, <1>2, <2>1
    DEF Typed, FlowInv, Where, Removal, OperatorParts, CrdParts, options, Meant, Backs
  <2>4. QED
    BY <2>2, <2>3 DEF Typed
<1>5. QED
  BY <1>3, <1>4

LEMMA ReportTyped == ASSUME Typed, Report PROVE Typed'
<1>1. /\ pc = "report" /\ pc' = "done" /\ exit' \in {"failed", "ok"}
      /\ UNCHANGED <<options, loops, target, back, failed, cluster, trouble, history>>
  BY DEF Report, Finish
<1>2. TypeOK'
  BY <1>1, StepTypeOK DEF Typed, TypeOK, loops, cluster, Places
<1>3. FlowInv'
  BY <1>1 DEF Typed, FlowInv, Where, Removal, OperatorParts, CrdParts, options, loops, Meant
<1>4. QED
  BY <1>2, <1>3 DEF Typed

LEMMA ClusterTyped == ASSUME Typed, Cluster PROVE Typed'
<1>1. PICK o \in Object : Finalize(o) \/ Create(o)
  BY DEF Cluster
<1>2. state' \in [Object -> {"absent", "live", "terminating", "gone"}]
  BY <1>1 DEF Finalize, Create, Typed, TypeOK
<1>3. UNCHANGED <<script, held>>
  BY <1>1 DEF Finalize, Create
<1>4. TypeOK'
  BY <1>2, <1>3 DEF Typed, TypeOK, script, options, loops, report
<1>5. FlowInv'
  BY <1>3 DEF Typed, FlowInv, Where, script, options, loops, Meant
<1>6. QED
  BY <1>4, <1>5 DEF Typed

LEMMA StutterTyped == ASSUME Typed, UNCHANGED vars PROVE Typed'
<1>1. TypeOK'
  BY DEF Typed, TypeOK, vars
<1>2. FlowInv'
  BY DEF Typed, FlowInv, Where, vars, Meant
<1>3. QED
  BY <1>1, <1>2 DEF Typed

LEMMA StepTyped == ASSUME Typed, [Next]_vars PROVE Typed'
<1>1. CASE ReadOption \/ Start
  BY <1>1, ReadOptionTyped, StartTyped
<1>2. CASE Delete \/ Wait \/ Patch \/ Look
  BY <1>2, DeleteTyped, WaitTyped, PatchTyped, LookTyped
<1>3. CASE NextResource \/ NextPlace \/ NextName
  BY <1>3, NextResourceTyped, NextPlaceTyped, NextNameTyped
<1>4. CASE Subscription \/ Csv
  BY <1>4, SweepTyped DEF Subscription, Csv, OperatorParts, Backs, Other
<1>5. CASE Manager \/ Cron
  BY <1>5, SweepTyped DEF Manager, Cron, OperatorParts, Backs, Other
<1>6. CASE CheckOcp \/ HelmList \/ NextNamespace
  BY <1>6, CheckOcpTyped, HelmListTyped, NextNamespaceTyped
<1>7. CASE UninstallManager \/ UninstallOperator
  BY <1>7, UninstallTyped DEF UninstallManager, UninstallOperator, OperatorParts
<1>8. CASE ListCrds \/ NextCrd \/ Report
  BY <1>8, ListCrdsTyped, NextCrdTyped, ReportTyped
<1>9. CASE Cluster
  BY <1>9, ClusterTyped
<1>10. CASE UNCHANGED vars
  BY <1>10, StutterTyped
<1>11. QED
  BY <1>1, <1>2, <1>3, <1>4, <1>5, <1>6, <1>7, <1>8, <1>9, <1>10 DEF Next, Script

\* The variables keep their types, and a removal in hand is of objects that the part
\* of the script it belongs to is about.
THEOREM RemovalTypeCorrect == Spec => []TypeOK
<1>1. Init => Typed
  BY InitTyped
<1>2. Typed /\ [Next]_vars => Typed'
  BY StepTyped
<1>3. Typed => TypeOK
  BY DEF Typed
<1>4. QED
  BY <1>1, <1>2, <1>3, PTL DEF Spec

(***************************************************************************)
(* What nobody asked for is not touched.                                   *)
(***************************************************************************)

Touched(o) == state[o] \in {"terminating", "gone"} \/ (o.held /\ o \notin held)
TouchInv == \A o \in Object : Touched(o) => Removable(o) /\ pc # "options" /\ exit # "stopped"

\* What a part of the script removes was asked for.
LEMMA MeantRemovable ==
  ASSUME Typed, NEW o, Where \in Backs, Meant(Where, o)
  PROVE  Removable(o)
<1>1. CASE Where = "resources"
  BY <1>1 DEF Meant, Removable
<1>2. CASE Where = "crd"
  BY <1>2 DEF Meant, Removable, Typed, FlowInv, CrdParts
<1>3. CASE Where \notin {"resources", "crd"}
  <2>1. Where \in OperatorParts /\ o.kind \in Other /\ Matched(o)
    BY <1>3 DEF Backs, OperatorParts, Meant
  <2>2. asked.tvm
    BY <2>1 DEF Typed, FlowInv
  <2>3. QED
    BY <2>1, <2>2 DEF Removable
<1>4. QED
  BY <1>1, <1>2, <1>3

LEMMA NamedFacts == Named \subseteq target
BY DEF Named

\* What a removal names, and the instances of a CRD that it names, were asked for.
LEMMA RemovalAsked ==
  ASSUME Typed, pc \in Removal
  PROVE  \A o \in Named \cup Instances(Named) : o \in Object /\ Removable(o)
<1>1. Where = back /\ back \in Backs /\ \A o \in target : Meant(back, o)
  BY DEF Typed, FlowInv, Where
<1>2. ASSUME NEW o \in Named PROVE o \in Object /\ Removable(o)
  BY <1>1, <1>2, NamedFacts, MeantRemovable DEF Typed, TypeOK
<1>3. ASSUME NEW o \in Instances(Named) PROVE o \in Object /\ Removable(o)
  <2>1. PICK c \in Named : c.kind = "crd" /\ c.name = o.kind
    BY <1>3 DEF Instances
  <2>2. c \in Object /\ Meant(back, c)
    BY <1>1, <2>1, NamedFacts DEF Typed, TypeOK
  <2>3. back = "crd"
    <3>1. "crd" \notin Custom /\ "crd" \notin Other /\ chosen \subseteq Custom
      BY Kinds DEF Other, Typed, TypeOK
    <3>2. QED
      BY <2>1, <2>2, <3>1 DEF Meant
  <2>4. asked.crd
    BY <1>1, <2>3 DEF Typed, FlowInv, CrdParts
  <2>5. o.kind \in Trilio /\ o \in Object
    BY <1>3, <2>1, <2>2, <2>3, Assumed DEF Instances, Meant
  <2>6. QED
    BY <2>4, <2>5 DEF Removable
<1>4. QED
  BY <1>2, <1>3

\* A step after the options that touches only what was asked for.
LEMMA StepTouch ==
  ASSUME TouchInv, UNCHANGED options, pc' # "options", exit' # "stopped",
         \A o \in Object : Touched(o)' => Touched(o) \/ Removable(o)
  PROVE  TouchInv'
<1>1. \A o : Removable(o)' <=> Removable(o)
  BY DEF Removable, options
<1>2. QED
  BY <1>1 DEF TouchInv

\* A step that touches nothing.
LEMMA SameTouch == ASSUME UNCHANGED cluster PROVE \A o \in Object : Touched(o)' => Touched(o)
BY DEF Touched, cluster

LEMMA TouchStep == ASSUME Typed, Typed', TouchInv, [Next]_vars PROVE TouchInv'
<1>u. pc # "done" => exit = "none"
  BY DEF Typed, TypeOK
<1>1. CASE ReadOption \/ Start
  <2>1. pc = "options" /\ UNCHANGED cluster
    BY <1>1 DEF ReadOption, Start
  <2>2. QED
    BY <2>1, SameTouch DEF TouchInv
<1>2. CASE Delete
  <2>1. pc \in Removal /\ pc' \in Removal /\ UNCHANGED <<options, exit, held>>
    BY <1>2 DEF Delete, Removal, report
  <2>2. state' = state \/ state' = AfterDelete(Named)
    BY <1>2 DEF Delete
  <2>3. \A o \in Object : Touched(o)' => Touched(o) \/ Removable(o)
    BY <2>1, <2>2, RemovalAsked DEF Touched, AfterDelete
  <2>4. QED
    BY <1>u, <2>1, <2>3, StepTouch DEF Removal
<1>3. CASE Patch
  <2>1. pc \in Removal /\ pc' \in Removal /\ UNCHANGED <<options, exit>>
    BY <1>3 DEF Patch, Removal, report
  <2>2. \/ UNCHANGED cluster
        \/ /\ held' = held \ {o \in Named : There(o)}
           /\ state' = [o \in Object |->
                IF o \in Named /\ state[o] = "terminating" THEN "gone" ELSE state[o]]
    BY <1>3 DEF Patch
  <2>3. \A o \in Object : Touched(o)' => Touched(o) \/ Removable(o)
    BY <2>1, <2>2, RemovalAsked DEF Touched, cluster
  <2>4. QED
    BY <1>u, <2>1, <2>3, StepTouch DEF Removal
<1>4. CASE Wait \/ Look
  <2>1. pc \in Removal /\ UNCHANGED <<options, exit, cluster>>
    BY <1>4 DEF Wait, Look, Removal, report
  <2>2. pc' # "options"
    BY <1>4, <2>1 DEF Wait, Look, AfterLook, Typed, FlowInv, Backs
  <2>3. QED
    BY <1>u, <2>1, <2>2, SameTouch, StepTouch DEF Removal
<1>5. CASE NextResource \/ NextPlace \/ NextName \/ CheckOcp \/ HelmList \/ NextNamespace
           \/ ListCrds \/ NextCrd
  <2>1. /\ UNCHANGED <<options, exit, cluster>>
        /\ pc \in {"resources", "ocp", "helm", "namespaces", "crds", "crd"}
    BY <1>5 DEF NextResource, NextPlace, NextName, CheckOcp, HelmList, NextNamespace, ListCrds,
                NextCrd, report
  <2>2. pc' # "options"
    BY <1>5, <2>1, Following DEF NextResource, NextPlace, NextName, CheckOcp, HelmList, NextNamespace,
                ListCrds, NextCrd, Remove
  <2>3. QED
    BY <1>u, <2>1, <2>2, SameTouch, StepTouch
<1>6. CASE Subscription \/ Csv \/ Manager \/ Cron
  <2>1. /\ UNCHANGED <<options, exit, cluster>>
        /\ pc \in {"subscription", "csv", "manager", "cronjob"}
    BY <1>6 DEF Subscription, Csv, Manager, Cron, Sweep, report
  <2>2. pc' # "options"
    BY <1>6 DEF Subscription, Csv, Manager, Cron, Sweep, Remove
  <2>3. QED
    BY <1>u, <2>1, <2>2, SameTouch, StepTouch
<1>7. ASSUME NEW here \in OperatorParts, NEW kind \in Other, NEW next \in OperatorParts,
             Uninstall(here, kind, next)
      PROVE  TouchInv'
  <2>1. pc = here /\ pc' = next /\ UNCHANGED <<options, exit, held>>
    BY <1>7 DEF Uninstall
  <2>2. PICK heard \in SUBSET Ours(kind, place) :
          \A o \in Object : state'[o] = state[o] \/ o \in heard
    BY <1>7 DEF Uninstall
  <2>3. asked.tvm
    BY <2>1 DEF Typed, FlowInv, Where, OperatorParts, Removal
  <2>4. \A o \in heard : Removable(o)
    BY <2>3, Zenon DEF Ours, Present, Removable
  <2>5. \A o \in Object : Touched(o)' => Touched(o) \/ Removable(o)
    BY <2>1, <2>2, <2>4 DEF Touched
  <2>6. QED
    BY <1>u, <2>1, <2>5, StepTouch DEF OperatorParts
<1>8. CASE UninstallManager \/ UninstallOperator
  BY <1>7, <1>8 DEF UninstallManager, UninstallOperator, OperatorParts, Other
<1>9. CASE Report
  <2>1. pc' # "options" /\ exit' # "stopped" /\ UNCHANGED <<options, cluster>>
    BY <1>9 DEF Report, Finish
  <2>2. QED
    BY <2>1, SameTouch, StepTouch
<1>10. CASE Cluster
  <2>1. UNCHANGED <<pc, exit, options, held>>
    BY <1>10 DEF Cluster, Finalize, Create, script, report
  <2>2. \A o \in Object : Touched(o)' => Touched(o)
    BY <1>10, <2>1 DEF Cluster, Finalize, Create, Touched, Typed, TypeOK
  <2>3. \A o : Removable(o)' <=> Removable(o)
    BY <2>1 DEF Removable, options
  <2>4. QED
    BY <2>1, <2>2, <2>3 DEF TouchInv
<1>11. CASE UNCHANGED vars
  <2>1. UNCHANGED <<pc, exit, options, cluster>>
    BY <1>11 DEF vars, options, cluster
  <2>2. \A o : Removable(o)' <=> Removable(o)
    BY <2>1 DEF Removable, options
  <2>3. QED
    BY <2>1, <2>2, SameTouch DEF TouchInv
<1>12. QED
  BY <1>1, <1>2, <1>3, <1>4, <1>5, <1>6, <1>8, <1>9, <1>10, <1>11 DEF Next, Script

LEMMA InitTouch == ASSUME Init PROVE TouchInv
BY DEF Init, TouchInv, Touched

\* Whatever fails, whatever comes and goes meanwhile, and whatever CRDs the cluster has:
\* what is being removed or has lost its finalizers was selected by an option, where -c
\* also selects every instance of every CRD of Trilio's, managers included, and a script
\* that was stopped has touched nothing.
THEOREM OnlyWhatWasAskedFor == Spec => []NotAskedUntouched
<1>1. Init => Typed /\ TouchInv
  BY InitTyped, InitTouch
<1>2. Typed /\ TouchInv /\ [Next]_vars => (Typed /\ TouchInv)'
  BY StepTyped, TouchStep
<1>3. TouchInv => NotAskedUntouched
  BY DEF TouchInv, NotAskedUntouched, Touched
<1>4. QED
  BY <1>1, <1>2, <1>3, PTL DEF Spec

(***************************************************************************)
(* What a step does to an object, and to what excuses the script.          *)
(***************************************************************************)

Quiet == NextResource \/ NextPlace \/ NextName \/ CheckOcp \/ HelmList \/ NextNamespace
         \/ ListCrds \/ NextCrd \/ Report
Sweeps == Subscription \/ Csv \/ Manager \/ Cron
Uninstalls == UninstallManager \/ UninstallOperator

\* An object moves on, and nothing that was there becomes absent.
Moved(o) ==
  \/ state'[o] = state[o]
  \/ There(o) /\ state'[o] \in {"terminating", "gone"}
  \/ state[o] = "absent" /\ state'[o] = "live"

LEMMA UninstallState ==
  ASSUME Typed, Uninstalls
  PROVE  \A o \in Object :
           state'[o] = state[o] \/ (state'[o] = "gone" /\ There(o) /\ o.kind \in Releases)
<1>1. ASSUME NEW here, NEW kind \in Releases, NEW next, Uninstall(here, kind, next)
      PROVE  \A o \in Object :
               state'[o] = state[o] \/ (state'[o] = "gone" /\ There(o) /\ o.kind \in Releases)
  <2>1. PICK heard \in SUBSET Ours(kind, place) :
          state' = [o \in Object |->
            IF (Cardinality(heard) = 1 /\ heard \cap refused' = {}) /\ o \in heard THEN "gone" ELSE state[o]]
    BY <1>1 DEF Uninstall
  <2>2. \A o \in heard : o.kind = kind /\ There(o)
    BY DEF Ours, Present
  <2>3. QED
    BY <2>1, <2>2
<1>2. QED
  BY <1>1 DEF Uninstalls, UninstallManager, UninstallOperator, Releases

LEMMA Moves == ASSUME Typed, [Next]_vars PROVE \A o \in Object : Moved(o)
<1>1. CASE UNCHANGED state
  BY <1>1 DEF Moved
<1>2. CASE Delete
  BY <1>1, <1>2 DEF Delete, AfterDelete, Moved
<1>3. CASE Patch
  BY <1>1, <1>3 DEF Patch, cluster, Moved, There
<1>4. CASE Uninstalls
  BY <1>4, UninstallState DEF Moved
<1>5. CASE Cluster
  BY <1>5 DEF Cluster, Finalize, Create, Moved, There, Typed, TypeOK
<1>6. CASE Quiet
  BY <1>1, <1>6 DEF Quiet, NextResource, NextPlace, NextName, CheckOcp, HelmList, NextNamespace,
                    ListCrds, NextCrd, Report, cluster
<1>7. CASE Sweeps
  BY <1>1, <1>7 DEF Sweeps, Subscription, Csv, Manager, Cron, Sweep, cluster
<1>8. CASE ReadOption \/ Start \/ Wait \/ Look \/ UNCHANGED vars
  BY <1>1, <1>8 DEF ReadOption, Start, Wait, Look, cluster, vars
<1>9. QED
  BY <1>2, <1>3, <1>4, <1>5, <1>6, <1>7, <1>8 DEF Next, Script, Quiet, Sweeps, Uninstalls

\* What was there when the script began is never absent.
SeenInv == \A o \in Object : state[o] = "absent" => o \in Late

LEMMA SeenStep == ASSUME Typed, SeenInv, [Next]_vars PROVE SeenInv'
BY Moves DEF SeenInv, Moved

\* Excuses stay, and what has gone does not come back.
Onward(o) ==
  /\ There(o)' => There(o)
  /\ unheard => unheard'
  /\ failed => failed'
  /\ o \in bunched => o \in bunched'
  /\ o \in refused => o \in refused'

LEMMA ListingOnward == ASSUME NEW S, NEW heard, Listing(S, heard) PROVE unheard => unheard'
BY DEF Listing

LEMMA Progress ==
  ASSUME Typed, SeenInv, [Next]_vars, NEW o \in Object \ Late
  PROVE  Onward(o)
<1>1. There(o)' => There(o)
  BY Moves DEF Moved, SeenInv, There
<1>2. CASE Quiet
  <2>1. UNCHANGED <<refused, bunched, failed>>
    BY <1>2 DEF Quiet, NextResource, NextPlace, NextName, CheckOcp, HelmList, NextNamespace,
                ListCrds, NextCrd, Report, report, history
  <2>2. unheard => unheard'
    BY <1>2, ListingOnward
    DEF Quiet, NextResource, NextPlace, NextName, CheckOcp, HelmList, NextNamespace,
        ListCrds, NextCrd, Report, history
  <2>3. QED
    BY <1>1, <2>1, <2>2 DEF Onward
<1>3. CASE Sweeps
  <2>1. UNCHANGED <<refused, bunched, failed>>
    BY <1>3 DEF Sweeps, Subscription, Csv, Manager, Cron, Sweep, report
  <2>2. unheard => unheard'
    BY <1>3, ListingOnward DEF Sweeps, Subscription, Csv, Manager, Cron, Sweep
  <2>3. QED
    BY <1>1, <2>1, <2>2 DEF Onward
<1>4. CASE Uninstalls
  <2>1. ASSUME NEW here, NEW kind, NEW next, Uninstall(here, kind, next)
        PROVE  Onward(o)
    <3>1. unheard => unheard'
      BY <2>1, ListingOnward DEF Uninstall
    <3>2. refused \subseteq refused' /\ bunched \subseteq bunched'
      BY <2>1 DEF Uninstall
    <3>3. failed => failed'
      BY <2>1, Zenon DEF Uninstall, Failed
    <3>4. QED
      BY <1>1, <3>1, <3>2, <3>3 DEF Onward
  <2>2. QED
    BY <1>4, <2>1 DEF Uninstalls, UninstallManager, UninstallOperator
<1>5. CASE Delete \/ Patch
  <2>1. UNCHANGED <<failed, unheard>> /\ refused \subseteq refused' /\ bunched \subseteq bunched'
    BY <1>5 DEF Delete, Patch, report
  <2>2. QED
    BY <1>1, <2>1 DEF Onward
<1>6. CASE Look
  <2>1. UNCHANGED <<refused, bunched>>
    BY <1>6 DEF Look
  <2>3. unheard => unheard'
    BY <1>6, Zenon DEF Look
  <2>2. failed => failed'
    BY <1>6, Zenon DEF Look, Failed
  <2>4. QED
    BY <1>1, <2>1, <2>2, <2>3 DEF Onward
<1>7. CASE ReadOption \/ Start \/ Wait \/ Cluster \/ UNCHANGED vars
  <2>1. UNCHANGED <<failed, history>>
    BY <1>7 DEF ReadOption, Start, Wait, Cluster, Finalize, Create, script, report, history, vars
  <2>2. QED
    BY <1>1, <2>1 DEF Onward, history
<1>8. QED
  BY <1>2, <1>3, <1>4, <1>5, <1>6, <1>7 DEF Next, Script, Quiet, Sweeps, Uninstalls

(***************************************************************************)
(* What is in hand, and what the calls of a removal have done to it.       *)
(***************************************************************************)

Before == {"options", "resources", "ocp", "subscription", "csv", "helm"}

HandInv ==
  /\ pc \in Removal => \A o \in target : o.kind \notin Releases
  /\ pc \in Removal /\ back \in {"resources", "crd"} => \E x : target = {x}
  /\ pc \in {"wait", "patch", "look"} /\ Cardinality(target) > 1 => target \subseteq bunched
  /\ \A o \in bunched : o.kind \in Other

CallInv ==
  /\ pc \in {"wait", "patch"} => \A o \in Named : state[o] # "live" \/ o \in refused \/ o \in Late
  /\ pc = "look" => \A o \in Named : ~There(o) \/ o \in refused \/ o \in Late

\* Releases stay until helm is asked to uninstall them.
ReleaseInv ==
  Where \in Before => \A r \in Object \ Late : r.kind \in Releases => state[r] = "live"

\* An object goes at once when no finalizers hold it.
HoldInv == \A o \in Object : state[o] = "terminating" /\ o.kind # "crd" => o \in held

\* The list that is gone through is that of the resources asked for.
AskedInv == Where = "options" => \A k \in chosen : \E n \in DOMAIN resources : resources[n] = k

CallsInv == SeenInv /\ HandInv /\ CallInv /\ ReleaseInv /\ HoldInv /\ AskedInv

LEMMA Single == ASSUME NEW x PROVE Cardinality({x}) = 1
BY FS_Singleton

LEMMA Disjoint ==
  /\ Custom \cap Other = {} /\ "crd" \notin Custom /\ "crd" \notin Other
  /\ Releases \subseteq Other /\ Custom \cap Releases = {}
  /\ Trilio \cap Releases = {} /\ "crd" \notin Trilio /\ Trilio = Custom \cup {"triliovaultmanager", "unlisted"}
BY Kinds DEF Other, Releases, Trilio

\* The CRDs that a removal names are Trilio's.
LEMMA NamedCrds ==
  ASSUME Typed, pc \in Removal, NEW c \in Named, c.kind = "crd"
  PROVE  back = "crd" /\ c.ours /\ c.name \in Trilio
<1>1. c \in Object /\ Meant(back, c)
  BY NamedFacts DEF Typed, TypeOK, FlowInv
<1>2. chosen \subseteq Custom
  BY DEF Typed, TypeOK
<1>3. back = "crd" /\ c.ours
  BY <1>1, <1>2, Disjoint DEF Meant
<1>4. QED
  BY <1>1, <1>3, Assumed

\* A step from a removal to another call of it, or out of it.
LEMMA RemovalSteps ==
  ASSUME Typed, Delete \/ Wait \/ Patch \/ Look
  PROVE  /\ pc \in Removal /\ Where' = Where /\ Where = back
         /\ UNCHANGED <<options, loops, target, back, asked, chosen, resources, places, place, batch>>
         /\ Named' = Named
         /\ pc' \in Removal \/ pc' = back
         /\ pc' \in Removal => pc' \in {"wait", "patch", "look"}
         /\ back \in Backs /\ Backs \cap Removal = {}
<1>1. Where' = Where /\ Where = back
  BY DeleteTyped, WaitTyped, PatchTyped, LookTyped
<1>2. pc \in Removal /\ UNCHANGED <<options, loops, target, back>>
  BY DEF Delete, Wait, Patch, Look, Removal
<1>3. pc' \in {"wait", "patch", "look"} \/ pc' = back
  BY DEF Delete, Wait, Patch, Look, AfterLook
<1>4. back \in Backs /\ Backs \cap Removal = {}
  BY <1>2 DEF Typed, FlowInv, Backs, Removal
<1>5. QED
  BY <1>1, <1>2, <1>3, <1>4 DEF Named, options, loops, Removal

\* A step outside of any removal, of the script's loops.
LEMMA LoopSteps ==
  ASSUME Typed, Quiet \/ Sweeps \/ Uninstalls
  PROVE  /\ pc \notin Removal /\ Where = pc /\ pc \notin {"options", "done"}
         /\ UNCHANGED options
         /\ \/ pc' = "delete" /\ Where' = back'
            \/ pc' \notin Removal /\ Where' = pc' /\ UNCHANGED <<target, back>>
<1>1. pc \notin Removal /\ Where = pc /\ pc \notin {"options", "done"}
  BY DEF Quiet, NextResource, NextPlace, NextName, CheckOcp, HelmList, NextNamespace, ListCrds, NextCrd,
         Report, Sweeps, Subscription, Csv, Manager, Cron, Sweep, Uninstalls, UninstallManager,
         UninstallOperator, Uninstall, Where, Removal
<1>2. CASE Quiet
  <2>1. UNCHANGED options
    BY <1>2 DEF Quiet, NextResource, NextPlace, NextName, CheckOcp, HelmList, NextNamespace,
                ListCrds, NextCrd, Report
  <2>2. CASE NextResource \/ NextNamespace \/ NextCrd
    <3>1. \A part : After(part) \in {"resources", "ocp", "crds", "report"}
      BY Following
    <3>2. QED
      BY <1>1, <2>1, <2>2, <3>1 DEF NextResource, NextNamespace, NextCrd, Remove, Where, Removal
  <2>3. CASE NextPlace \/ NextName \/ CheckOcp \/ HelmList \/ ListCrds \/ Report
    BY <1>1, <2>1, <2>3 DEF NextPlace, NextName, CheckOcp, HelmList, ListCrds, Report, Finish, Remove,
                            Where, Removal
  <2>4. QED
    BY <1>2, <2>2, <2>3 DEF Quiet
<1>3. CASE Sweeps
  BY <1>1, <1>3 DEF Sweeps, Subscription, Csv, Manager, Cron, Sweep, Remove, Where, Removal
<1>4. CASE Uninstalls
  BY <1>1, <1>4 DEF Uninstalls, UninstallManager, UninstallOperator, Uninstall, Where, Removal
<1>5. QED
  BY <1>2, <1>3, <1>4

\* What the script takes in hand.
LEMMA Taken ==
  ASSUME Typed, Quiet \/ Sweeps \/ Uninstalls, pc' = "delete"
  PROVE  /\ \A o \in target' : o.kind \notin Releases
         /\ back' \in {"resources", "crd"} => \E x : target' = {x}
<1>1. CASE NextName \/ NextCrd
  <2>1. PICK o \in batch : target' = {o}
    BY <1>1, Following DEF NextName, NextCrd, Remove
  <2>2. Meant(pc, o) /\ pc \in {"resources", "crd"}
    BY <1>1, <2>1 DEF NextName, NextCrd, Typed, FlowInv, Where, Removal
  <2>3. o.kind \in Custom \/ o.kind = "crd"
    BY <2>2 DEF Meant, Typed, TypeOK
  <2>4. QED
    BY <2>1, <2>3, Disjoint
<1>2. CASE Sweeps
  <2>1. ASSUME NEW here, NEW kind \in Other \ Releases, NEW ns, NEW next \in OperatorParts,
               Sweep(here, kind, ns, next)
        PROVE  (\A o \in target' : o.kind \notin Releases) /\ back' \notin {"resources", "crd"}
    <3>1. pc' # next /\ UNCHANGED loops
      BY <2>1 DEF OperatorParts, Sweep
    <3>2. PICK heard \in SUBSET Ours(kind, ns) : Remove(heard, next)
      BY <2>1, <3>1 DEF Sweep
    <3>3. QED
      BY <3>2 DEF Ours, Present, Remove, OperatorParts
  <2>2. QED
    BY <1>2, <2>1 DEF Sweeps, Subscription, Csv, Manager, Cron, OperatorParts, Other, Releases
<1>3. CASE Uninstalls
  BY <1>3 DEF Uninstalls, UninstallManager, UninstallOperator, Uninstall
<1>4. CASE Quiet /\ ~NextName /\ ~NextCrd
  <2>1. \A part : After(part) # "delete"
    BY DEF After
  <2>2. pc' # "delete"
    BY <1>4, <2>1 DEF Quiet, NextResource, NextPlace, CheckOcp, HelmList, NextNamespace, ListCrds,
                      Report, Finish
  <2>3. QED
    BY <2>2
<1>5. QED
  BY <1>1, <1>2, <1>3, <1>4 DEF Quiet

LEMMA HandStep == ASSUME Typed, HandInv, [Next]_vars PROVE HandInv'
<1>1. CASE Delete \/ Wait \/ Patch \/ Look
  <2>1. /\ pc \in Removal /\ UNCHANGED <<target, back>> /\ (pc' \in Removal => pc' # "delete")
        /\ \A o \in target : Meant(back, o)
    BY <1>1, RemovalSteps DEF Typed, FlowInv
  <2>2. CASE Delete
    <3>1. bunched' = IF Cardinality(target) > 1 THEN bunched \cup target ELSE bunched
      BY <2>2 DEF Delete
    <3>2. CASE Cardinality(target) > 1
      <4>1. back \notin {"resources", "crd"}
        <5>1. \A x : ~(Cardinality({x}) > 1)
          BY Single
        <5>2. QED
          BY <2>1, <3>2, <5>1 DEF HandInv
      <4>2. \A o \in target : o.kind \in Other
        BY <2>1, <4>1 DEF Meant
      <4>3. bunched' = bunched \cup target
        BY <3>1, <3>2
      <4>4. QED
        BY <2>1, <4>2, <4>3 DEF HandInv
    <3>3. CASE ~(Cardinality(target) > 1)
      <4>1. bunched' = bunched /\ target' = target
        BY <2>1, <3>1, <3>3
      <4>2. QED
        BY <2>1, <3>3, <4>1 DEF HandInv
    <3>4. QED
      BY <3>2, <3>3
  <2>3. CASE ~Delete
    <3>1. UNCHANGED bunched /\ pc \in {"wait", "patch", "look"}
      BY <1>1, <2>3 DEF Wait, Patch, Look, history
    <3>2. QED
      BY <2>1, <3>1 DEF HandInv
  <2>4. QED
    BY <2>2, <2>3
<1>2. CASE Quiet \/ Sweeps \/ Uninstalls
  <2>1. \A o \in bunched' : o.kind \in Other
    <3>1. CASE Quiet \/ Sweeps
      <4>1. UNCHANGED bunched
        BY <3>1 DEF Quiet, NextResource, NextPlace, NextName, CheckOcp, HelmList, NextNamespace, ListCrds,
             NextCrd, Report, Sweeps, Subscription, Csv, Manager, Cron, Sweep, history
      <4>2. QED
        BY <4>1 DEF HandInv
    <3>2. CASE Uninstalls
      <4>1. ASSUME NEW here, NEW kind \in Other, NEW next, Uninstall(here, kind, next)
            PROVE  \A o \in bunched' : o.kind \in Other
        <5>1. PICK heard \in SUBSET Ours(kind, place) : bunched' \subseteq bunched \cup heard
          BY <4>1 DEF Uninstall
        <5>2. QED
          BY <5>1 DEF HandInv, Ours, Present
      <4>2. QED
        BY <3>2, <4>1 DEF Uninstalls, UninstallManager, UninstallOperator, Other
    <3>3. QED
      BY <1>2, <3>1, <3>2
  <2>2. CASE pc' = "delete"
    BY <1>2, <2>1, <2>2, Taken DEF HandInv
  <2>3. CASE pc' # "delete"
    BY <1>2, <2>1, <2>3, LoopSteps DEF HandInv, Removal
  <2>4. QED
    BY <2>2, <2>3
<1>3. CASE ReadOption \/ Start
  <2>1. pc' \notin Removal /\ UNCHANGED bunched
    BY <1>3 DEF ReadOption, Start, Finish, After, history, Removal
  <2>2. QED
    BY <2>1 DEF HandInv, Removal
<1>4. CASE Cluster \/ UNCHANGED vars
  <2>1. UNCHANGED <<pc, target, back, bunched>>
    BY <1>4 DEF Cluster, Finalize, Create, script, history, vars
  <2>2. QED
    BY <2>1 DEF HandInv
<1>5. QED
  BY <1>1, <1>2, <1>3, <1>4 DEF Next, Script, Quiet, Sweeps, Uninstalls

\* What calls and controllers do to an object that is not new, when no deletion is asked.
LEMMA NotRevived ==
  ASSUME Typed, SeenInv, [Next]_vars, NEW o \in Object \ Late
  PROVE  /\ state[o] # "live" => state'[o] # "live"
         /\ ~There(o) => ~There(o)'
BY Moves DEF Moved, SeenInv, There

LEMMA CallStep == ASSUME Typed, SeenInv, CallInv, [Next]_vars PROVE CallInv'
<1>n. Named \subseteq Object
  BY NamedFacts DEF Typed, TypeOK
<1>m. \A o \in Object \ Late : Onward(o)
  BY Progress
<1>1. CASE Delete
  <2>1. Named' = Named /\ pc' \in {"wait", "patch"}
    BY <1>1, RemovalSteps DEF Delete
  <2>2. CASE (\E o \in Named : There(o)) /\ state' = AfterDelete(Named)
    <3>1. \A o \in Named : state'[o] # "live"
      BY <1>n, <2>2 DEF AfterDelete, There
    <3>2. QED
      BY <2>1, <3>1 DEF CallInv
  <2>3. CASE (\A o \in Named : ~There(o)) /\ UNCHANGED state
    BY <2>1, <2>3 DEF CallInv, There
  <2>4. CASE refused' = refused \cup Named
    BY <2>1, <2>4 DEF CallInv
  <2>5. QED
    BY <1>1, <2>2, <2>3, <2>4 DEF Delete
<1>2. CASE Wait
  <2>1. Named' = Named /\ pc = "wait" /\ UNCHANGED <<state, refused>>
    BY <1>2, RemovalSteps DEF Wait, cluster, history
  <2>2. pc' = "patch" \/ pc' \notin Removal
    BY <1>2, RemovalSteps DEF Wait
  <2>3. QED
    BY <2>1, <2>2 DEF CallInv, Removal
<1>3. CASE Patch
  <2>1. Named' = Named /\ pc = "patch" /\ pc' = "look"
    BY <1>3, RemovalSteps DEF Patch
  <2>2. CASE /\ UNCHANGED refused
             /\ state' = [o \in Object |->
                  IF o \in Named /\ state[o] = "terminating" THEN "gone" ELSE state[o]]
    BY <1>n, <2>1, <2>2 DEF CallInv, There
  <2>3. CASE refused' = refused \cup Named
    BY <2>1, <2>3 DEF CallInv
  <2>4. QED
    BY <1>3, <2>2, <2>3 DEF Patch
<1>4. CASE Look
  <2>1. pc' \notin Removal
    BY <1>4, RemovalSteps DEF Look, AfterLook
  <2>2. QED
    BY <2>1 DEF CallInv, Removal
<1>5. CASE Quiet \/ Sweeps \/ Uninstalls
  <2>1. pc' = "delete" \/ pc' \notin Removal
    BY <1>5, LoopSteps
  <2>2. QED
    BY <2>1 DEF CallInv, Removal
<1>6. CASE ReadOption \/ Start
  <2>1. pc' \notin Removal
    BY <1>6 DEF ReadOption, Start, Finish, After, Removal
  <2>2. QED
    BY <2>1 DEF CallInv, Removal
<1>7. CASE Cluster \/ UNCHANGED vars
  <2>1. UNCHANGED <<pc, target>>
    BY <1>7 DEF Cluster, Finalize, Create, script, vars
  <2>2. Named' = Named
    BY <2>1 DEF Named
  <2>3. \A o \in Object \ Late : (state[o] # "live" => state'[o] # "live") /\ (~There(o) => ~There(o)')
    BY NotRevived
  <2>4. \A o \in Object : o \in refused \ Late => o \in refused'
    BY <1>m DEF Onward
  <2>5. QED
    BY <1>n, <2>1, <2>2, <2>3, <2>4 DEF CallInv
<1>8. QED
  BY <1>1, <1>2, <1>3, <1>4, <1>5, <1>6, <1>7 DEF Next, Script, Quiet, Sweeps, Uninstalls

\* The script does not return to what comes before the loop over namespaces.
LEMMA NoReturn == ASSUME Typed, [Next]_vars PROVE Where' \in Before => Where \in Before
<1>1. CASE Delete \/ Wait \/ Patch \/ Look
  BY <1>1, RemovalSteps
<1>2. CASE NextNamespace \/ NextCrd
  <2>1. pc \notin Removal /\ pc' \notin Before
    BY <1>2 DEF NextNamespace, NextCrd, After, Before, Remove, Removal
  <2>2. CASE NextNamespace
    <3>1. pc' \notin Removal
      BY <2>2 DEF NextNamespace, After, Removal
    <3>2. QED
      BY <2>1, <3>1 DEF Where
  <2>3. CASE NextCrd
    <3>1. pc' = "report" \/ (pc' = "delete" /\ back' = "crd")
      BY <2>3 DEF NextCrd, After, Remove
    <3>2. QED
      BY <3>1 DEF Where, Before, Removal
  <2>4. QED
    BY <1>2, <2>2, <2>3
<1>3. CASE NextResource \/ NextPlace \/ NextName \/ CheckOcp \/ HelmList \/ Subscription \/ Csv
  BY <1>3 DEF NextResource, NextPlace, NextName, CheckOcp, HelmList, Subscription, Csv, Sweep, Where,
              Before, Removal
<1>4. CASE Manager \/ Cron \/ Uninstalls \/ ListCrds \/ Report
  BY <1>4 DEF Manager, Cron, Sweep, Remove, Uninstalls, UninstallManager, UninstallOperator, Uninstall,
              ListCrds, Report, Finish, Where, Before, Removal
<1>5. CASE ReadOption \/ Start
  BY <1>5 DEF ReadOption, Start, Where, Before, Removal
<1>6. CASE Cluster \/ UNCHANGED vars
  BY <1>6 DEF Cluster, Finalize, Create, script, vars, Where
<1>7. QED
  BY <1>1, <1>2, <1>3, <1>4, <1>5, <1>6 DEF Next, Script, Uninstalls

LEMMA ReleaseStep == ASSUME Typed, HandInv, ReleaseInv, [Next]_vars PROVE ReleaseInv'
<1>a. SUFFICES ASSUME Where' \in Before, NEW r \in Object \ Late, r.kind \in Releases
               PROVE  state'[r] = "live"
  BY DEF ReleaseInv
<1>b. Where \in Before /\ state[r] = "live"
  BY <1>a, NoReturn DEF ReleaseInv
<1>c. CASE UNCHANGED state
  BY <1>b, <1>c
<1>1. CASE Delete
  <2>1. pc \in Removal
    BY <1>1, RemovalSteps
  <2>2. r \notin Named
    BY <1>a, <2>1, NamedFacts DEF HandInv
  <2>3. r \notin Instances(Named)
    <3>1. \A c \in Named : c.kind = "crd" => c.name \in Trilio
      BY <2>1, NamedCrds
    <3>2. QED
      BY <1>a, <3>1, Disjoint DEF Instances
  <2>4. AfterDelete(Named)[r] = state[r]
    BY <2>2, <2>3 DEF AfterDelete
  <2>5. QED
    BY <1>1, <1>b, <1>c, <2>4 DEF Delete
<1>2. CASE Patch
  BY <1>2, <1>b, <1>c DEF Patch, cluster
<1>3. CASE Uninstalls
  <2>1. Where \in {"uninstall manager", "uninstall operator"}
    BY <1>3 DEF Uninstalls, UninstallManager, UninstallOperator, Uninstall, Where, Removal
  <2>2. QED
    BY <1>b, <2>1 DEF Before
<1>4. CASE Cluster
  BY <1>4, <1>b DEF Cluster, Finalize, Create, Typed, TypeOK
<1>5. CASE Quiet
  BY <1>5, <1>c DEF Quiet, NextResource, NextPlace, NextName, CheckOcp, HelmList, NextNamespace,
                    ListCrds, NextCrd, Report, cluster
<1>6. CASE Sweeps
  BY <1>6, <1>c DEF Sweeps, Subscription, Csv, Manager, Cron, Sweep, cluster
<1>7. CASE ReadOption \/ Start \/ Wait \/ Look \/ UNCHANGED vars
  BY <1>7, <1>c DEF ReadOption, Start, Wait, Look, cluster, vars
<1>8. QED
  BY <1>1, <1>2, <1>3, <1>4, <1>5, <1>6, <1>7 DEF Next, Script, Quiet, Sweeps, Uninstalls

LEMMA HoldStep == ASSUME Typed, HoldInv, [Next]_vars PROVE HoldInv'
<1>c. CASE UNCHANGED cluster
  BY <1>c DEF HoldInv, cluster
<1>1. CASE Delete
  <2>1. UNCHANGED held
    BY <1>1 DEF Delete
  <2>2. \A o \in Object : AfterDelete(Named)[o] = "terminating" /\ o.kind # "crd" => o \in held
    BY DEF AfterDelete, HoldInv
  <2>3. QED
    BY <1>1, <2>1, <2>2 DEF Delete, HoldInv
<1>2. CASE Patch
  <2>1. CASE UNCHANGED cluster
    BY <1>c, <2>1
  <2>2. CASE /\ held' = held \ {o \in Named : There(o)}
             /\ state' = [o \in Object |->
                  IF o \in Named /\ state[o] = "terminating" THEN "gone" ELSE state[o]]
    BY <2>2 DEF HoldInv
  <2>3. QED
    BY <1>2, <2>1, <2>2 DEF Patch
<1>3. CASE Uninstalls
  <2>1. \A o \in Object : state'[o] = state[o] \/ state'[o] = "gone"
    BY <1>3, UninstallState
  <2>2. UNCHANGED held
    BY <1>3 DEF Uninstalls, UninstallManager, UninstallOperator, Uninstall
  <2>3. QED
    BY <2>1, <2>2 DEF HoldInv
<1>4. CASE Cluster
  BY <1>4 DEF Cluster, Finalize, Create, HoldInv, Typed, TypeOK
<1>5. CASE Quiet
  BY <1>5, <1>c DEF Quiet, NextResource, NextPlace, NextName, CheckOcp, HelmList, NextNamespace,
                    ListCrds, NextCrd, Report
<1>6. CASE Sweeps
  BY <1>6, <1>c DEF Sweeps, Subscription, Csv, Manager, Cron, Sweep
<1>7. CASE ReadOption \/ Start \/ Wait \/ Look \/ UNCHANGED vars
  BY <1>7, <1>c DEF ReadOption, Start, Wait, Look, cluster, vars
<1>8. QED
  BY <1>1, <1>2, <1>3, <1>4, <1>5, <1>6, <1>7 DEF Next, Script, Quiet, Sweeps, Uninstalls

\* Only its options lead the script to its options.
LEMMA LaterPlace ==
  ASSUME Typed, Quiet \/ Sweeps \/ Uninstalls
  PROVE  Where' # "options"
<1>1. CASE Quiet
  <2>1. \A part : After(part) # "options"
    BY DEF After
  <2>2. CASE NextResource \/ NextNamespace \/ NextCrd
    <3>1. pc' # "options" /\ (pc' = "delete" => back' = "crd")
      BY <2>1, <2>2 DEF NextResource, NextNamespace, NextCrd, Remove, After
    <3>2. QED
      BY <1>1, <3>1, LoopSteps
  <2>3. CASE NextPlace \/ NextName \/ CheckOcp \/ HelmList \/ ListCrds \/ Report
    <3>1. pc' # "options" /\ (pc' = "delete" => back' = "resources")
      BY <2>3 DEF NextPlace, NextName, CheckOcp, HelmList, ListCrds, Report, Finish, Remove
    <3>2. QED
      BY <1>1, <3>1, LoopSteps
  <2>4. QED
    BY <1>1, <2>2, <2>3 DEF Quiet
<1>2. CASE Sweeps
  BY <1>2 DEF Sweeps, Subscription, Csv, Manager, Cron, Sweep, Remove, Where, Removal
<1>3. CASE Uninstalls
  BY <1>3 DEF Uninstalls, UninstallManager, UninstallOperator, Uninstall, Where, Removal
<1>4. QED
  BY <1>1, <1>2, <1>3

LEMMA AskedStep == ASSUME Typed, AskedInv, [Next]_vars PROVE AskedInv'
<1>1. CASE ReadOption
  <2>1. CASE args[1] \in {"-n", "-c", "-t", "-r"}
    <3>1. chosen' = {resources'[n] : n \in DOMAIN resources'}
      BY <1>1, <2>1 DEF ReadOption
    <3>2. QED
      BY <3>1 DEF AskedInv
  <2>2. CASE args[1] \notin {"-n", "-c", "-t", "-r"}
    <3>1. pc' = "done"
      BY <1>1, <2>2 DEF ReadOption, Finish
    <3>2. QED
      BY <3>1 DEF AskedInv, Where, Removal
  <2>3. QED
    BY <2>1, <2>2
<1>2. CASE Start
  <2>1. pc' \in {"done", "resources"}
    BY <1>2 DEF Start, Finish, After
  <2>2. QED
    BY <2>1 DEF AskedInv, Where, Removal
<1>3. CASE Delete \/ Wait \/ Patch \/ Look
  <2>1. Where' # "options"
    BY <1>3, RemovalSteps DEF Backs
  <2>2. QED
    BY <2>1 DEF AskedInv
<1>4. CASE Quiet \/ Sweeps \/ Uninstalls
  <2>1. Where' # "options"
    BY <1>4, LaterPlace
  <2>2. QED
    BY <2>1 DEF AskedInv
<1>5. CASE Cluster \/ UNCHANGED vars
  BY <1>5 DEF Cluster, Finalize, Create, script, options, loops, vars, AskedInv, Where
<1>6. QED
  BY <1>1, <1>2, <1>3, <1>4, <1>5 DEF Next, Script, Quiet, Sweeps, Uninstalls

(***************************************************************************)
(* What was asked for and is still there lies ahead of the script.         *)
(***************************************************************************)

Loop == {"namespaces", "manager", "uninstall manager", "uninstall operator", "cronjob"}

\* The places of the loop over namespaces that come before what removes a kind.
Stage(kind) ==
  IF kind = "triliovaultmanager" THEN {"manager"}
  ELSE IF kind = "manager release" THEN {"manager", "uninstall manager"}
  ELSE IF kind = "operator release" THEN {"manager", "uninstall manager", "uninstall operator"}
  ELSE {"manager", "uninstall manager", "uninstall operator", "cronjob"}

Queued(o) ==
  \/ \E n \in DOMAIN resources : resources[n] = o.kind
  \/ \E p \in places : p.kind = o.kind /\ o.ns \in {p.ns, NoNs}
  \/ o \in batch

Ahead(o) ==
  IF o.kind \in Custom THEN Where = "resources" /\ Queued(o)
  ELSE IF o.kind = "crd" THEN Where \notin {"crd", "report"} \/ (Where = "crd" /\ o \in batch)
  ELSE IF o.kind = "subscription" THEN Where \in {"resources", "ocp", "subscription"}
  ELSE IF o.kind = "clusterserviceversion" THEN Where \in {"resources", "ocp", "subscription", "csv"}
  ELSE Where \in Before \/ (Where \in Loop /\ (o.ns \in places \/ (place = o.ns /\ Where \in Stage(o.kind))))

InHand(o) == pc \in Removal /\ o \in target
Pending(o) == Where = "options" \/ InHand(o) \/ Ahead(o)

Due(o) ==
  /\ pc # "done" /\ ~unheard
  /\ Followed(o) /\ There(o) /\ o \notin bunched
  /\ o \notin refused \/ ~failed

DueInv == \A o \in Object \ Late : Due(o) => Pending(o)

LEMMA FollowedFacts ==
  ASSUME Typed, NEW o \in Object, Followed(o)
  PROVE  /\ o.kind \in Custom => o.kind \in chosen
         /\ o.kind = "crd" => asked.crd /\ o.ours
         /\ o.kind \in Other => asked.tvm /\ Matched(o)
         /\ o.kind \in {"subscription", "clusterserviceversion"} => Ocp
         /\ o.kind \in Other \ {"subscription", "clusterserviceversion"} =>
              \E r \in Object \ Late : r.kind \in Releases /\ r.ns = o.ns
         /\ o.kind \in Custom \cup Other \cup {"crd"}
<1>1. chosen \subseteq Custom
  BY DEF Typed, TypeOK
<1>2. {"subscription", "clusterserviceversion"} \subseteq Other
  BY DEF Other
<1>3. \/ o.kind \in chosen
      \/ asked.crd /\ o.kind = "crd" /\ o.ours
      \/ asked.tvm /\ Matched(o) /\ o.kind \in {"subscription", "clusterserviceversion"} /\ Ocp
      \/ /\ asked.tvm /\ Matched(o) /\ o.kind \in Other \ {"subscription", "clusterserviceversion"}
         /\ \E r \in Object \ Late : r.kind \in Releases /\ r.ns = o.ns
  BY Zenon DEF Followed
<1>4. CASE o.kind \in chosen
  BY <1>1, <1>4, Disjoint, <1>2
<1>5. CASE asked.crd /\ o.kind = "crd" /\ o.ours
  BY <1>1, <1>5, Disjoint, <1>2
<1>6. CASE asked.tvm /\ Matched(o) /\ o.kind \in {"subscription", "clusterserviceversion"} /\ Ocp
  BY <1>6, Disjoint, <1>2
<1>7. CASE /\ asked.tvm /\ Matched(o) /\ o.kind \in Other \ {"subscription", "clusterserviceversion"}
           /\ \E r \in Object \ Late : r.kind \in Releases /\ r.ns = o.ns
  BY <1>7, Disjoint
<1>8. QED
  BY <1>3, <1>4, <1>5, <1>6, <1>7

\* An object of a kind of the operator's part is none of the other two parts.
LEMMA KindCases ==
  ASSUME NEW o, o.kind \in Other
  PROVE  o.kind \notin Custom /\ o.kind # "crd"
BY Disjoint

\* What is due was due, unless the options are being read.
LEMMA DueBefore ==
  ASSUME Typed, SeenInv, [Next]_vars, UNCHANGED options, pc # "done", NEW o \in Object \ Late, Due(o)'
  PROVE  Due(o) /\ Followed(o) /\ ~unheard'
<1>1. Onward(o)
  BY Progress
<1>2. Followed(o)' => Followed(o)
  BY DEF Followed, Matched, options
<1>3. QED
  BY <1>1, <1>2 DEF Due, Onward

\* A call of a removal is about what it has in hand, or is about several objects.
LEMMA InCall ==
  ASSUME Typed, HandInv, pc \in {"wait", "patch", "look"}, NEW o \in target, o \notin bunched
  PROVE  o \in Named
<1>1. IsFiniteSet(target)
  BY FiniteCluster, FS_Subset DEF Typed, TypeOK
<1>2. Cardinality(target) \in Nat
  BY <1>1, FS_CardinalityType
<1>3. Cardinality(target) # 0
  BY <1>1, FS_EmptySet
<1>4. ~(Cardinality(target) > 1)
  BY DEF HandInv
<1>5. Cardinality(target) = 1
  BY <1>2, <1>3, <1>4
<1>6. QED
  BY <1>5 DEF Named

LEMMA RemovalDue ==
  ASSUME Typed, HandInv, CallInv, Delete \/ Wait \/ Patch \/ Look, NEW o \in Object \ Late,
         Due(o), Due(o)', Pending(o)
  PROVE  Pending(o)'
<1>1. /\ pc \in Removal /\ Where' = Where
      /\ UNCHANGED <<target, back, resources, places, place, batch>>
      /\ pc' \in Removal \/ pc' = back
  BY RemovalSteps
<1>2. CASE Where = "options" \/ Ahead(o)
  BY <1>1, <1>2 DEF Pending, Ahead, Queued
<1>3. CASE InHand(o)
  <2>1. CASE pc' \in Removal
    BY <1>1, <1>3, <2>1 DEF Pending, InHand
  <2>2. CASE pc' \notin Removal
    <3>1. Wait \/ Look
      BY <2>2 DEF Delete, Patch, Removal
    <3>2. o \in Named
      BY <1>3, <3>1, InCall DEF Due, InHand, Wait, Look
    <3>3. CASE Wait
      <4>1. ~There(o) /\ UNCHANGED state
        BY <2>2, <3>2, <3>3 DEF Wait, Removal, cluster
      <4>2. QED
        BY <4>1 DEF Due
    <3>4. CASE Look
      <4>1. UNCHANGED <<refused, state>>
        BY <3>4 DEF Look, cluster
      <4>2. o \in refused
        BY <3>2, <3>4 DEF CallInv, Look, Due
      <4>3. unheard' \/ failed'
        BY <3>2, <3>4, Zenon DEF Look, Failed, Due
      <4>4. QED
        BY <4>1, <4>2, <4>3 DEF Due
    <3>5. QED
      BY <3>1, <3>3, <3>4
  <2>3. QED
    BY <2>1, <2>2
<1>4. QED
  BY <1>2, <1>3 DEF Pending

LEMMA ResourceDue ==
  ASSUME Typed, NextResource \/ NextPlace \/ NextName, NEW o \in Object \ Late,
         Due(o), Due(o)', Followed(o), Pending(o), ~unheard'
  PROVE  Pending(o)'
<1>1. pc = "resources" /\ Where = "resources" /\ pc \notin Removal /\ There(o)
  BY DEF NextResource, NextPlace, NextName, Where, Removal, Due
<1>2. Ahead(o)
  BY <1>1 DEF Pending, InHand
<1>3. CASE NextResource /\ resources = <<>>
  <2>1. pc' = After("resources") /\ UNCHANGED batch /\ places = {} /\ batch = {}
    BY <1>3 DEF NextResource
  <2>2. o.kind \notin Custom
    BY <1>2, <1>3, <2>1 DEF Ahead, Queued
  <2>3. CASE o.kind = "crd"
    <3>1. pc' \in {"ocp", "crds"}
      BY <2>1, <2>3, FollowedFacts DEF After
    <3>2. QED
      BY <2>2, <2>3, <3>1 DEF Pending, Ahead, Where, Removal
  <2>4. CASE o.kind # "crd"
    <3>1. pc' = "ocp"
      BY <2>1, <2>2, <2>4, FollowedFacts DEF After
    <3>2. Where' = "ocp"
      BY <3>1 DEF Where, Removal
    <3>3. QED
      BY <2>2, <2>4, <3>2 DEF Pending, Ahead, Before
  <2>5. QED
    BY <2>3, <2>4
<1>4. CASE ~(NextResource /\ resources = <<>>) /\ o.kind \notin Custom
  <2>1. Where' = "resources"
    BY <1>1, <1>4 DEF NextResource, NextPlace, NextName, Remove, Where, Removal
  <2>2. QED
    BY <1>4, <2>1 DEF Pending, Ahead, Before
<1>5. CASE NextResource /\ resources # <<>> /\ o.kind \in Custom
  <2>1. PICK heard \in SUBSET Present(Head(resources)) :
          /\ Listing(Present(Head(resources)), heard)
          /\ places' = {[kind |-> Head(resources), ns |-> FirstColumn(x)] : x \in heard}
    BY <1>5 DEF NextResource
  <2>2. heard = Present(Head(resources))
    BY <2>1, Zenon DEF Listing
  <2>3. /\ pc' = "resources" /\ Where' = "resources" /\ resources' = Tail(resources)
        /\ places = {} /\ batch = {} /\ resources \in Seq(chosen)
    BY <1>1, <1>5 DEF NextResource, Where, Removal, Typed, FlowInv
  <2>4. PICK n \in DOMAIN resources : resources[n] = o.kind
    BY <1>2, <1>5, <2>3 DEF Ahead, Queued
  <2>5. CASE n = 1
    <3>1. Head(resources) = o.kind
      BY <1>5, <2>3, <2>4, <2>5
    <3>2. o \in heard
      BY <1>1, <2>2, <3>1 DEF Present
    <3>3. [kind |-> o.kind, ns |-> FirstColumn(o)] \in places'
      BY <2>1, <3>1, <3>2
    <3>4. o.ns \in {FirstColumn(o), NoNs}
      BY DEF FirstColumn
    <3>5. Queued(o)'
      BY <3>3, <3>4 DEF Queued
    <3>6. QED
      BY <1>5, <2>3, <3>5 DEF Pending, Ahead
  <2>6. CASE n # 1
    <3>1. n - 1 \in DOMAIN Tail(resources) /\ Tail(resources)[n - 1] = o.kind
      BY <1>5, <2>3, <2>4, <2>6
    <3>2. Queued(o)'
      BY <2>3, <3>1 DEF Queued
    <3>3. QED
      BY <1>5, <2>3, <3>2 DEF Pending, Ahead
  <2>7. QED
    BY <2>5, <2>6
<1>6. CASE NextPlace /\ o.kind \in Custom
  <2>1. Where' = "resources" /\ UNCHANGED resources /\ batch = {}
    BY <1>1, <1>6 DEF NextPlace, Where, Removal
  <2>2. PICK p \in places :
          /\ places' = places \ {p}
          /\ LET listed == {x \in Present(p.kind) : x.ns \in {p.ns, NoNs}}
             IN \E heard \in SUBSET listed : Listing(listed, heard) /\ batch' = heard
    BY <1>6 DEF NextPlace
  <2>3. batch' = {x \in Present(p.kind) : x.ns \in {p.ns, NoNs}}
    BY <2>2, Zenon DEF Listing
  <2>4. Queued(o)'
    <3>1. CASE p.kind = o.kind /\ o.ns \in {p.ns, NoNs}
      BY <1>1, <2>3, <3>1 DEF Queued, Present
    <3>2. CASE ~(p.kind = o.kind /\ o.ns \in {p.ns, NoNs})
      BY <1>2, <1>6, <2>1, <2>2, <3>2 DEF Queued, Ahead
    <3>3. QED
      BY <3>1, <3>2
  <2>5. QED
    BY <1>6, <2>1, <2>4 DEF Pending, Ahead
<1>7. CASE NextName /\ o.kind \in Custom
  <2>1. Where' = "resources" /\ UNCHANGED <<resources, places>> /\ pc' \in Removal
    BY <1>7 DEF NextName, Remove, Where, Removal
  <2>2. PICK x \in batch : batch' = batch \ {x} /\ target' = {x}
    BY <1>7 DEF NextName, Remove
  <2>3. InHand(o)' \/ Queued(o)'
    BY <1>2, <1>7, <2>1, <2>2 DEF InHand, Queued, Ahead
  <2>4. QED
    BY <1>7, <2>1, <2>3 DEF Pending, Ahead
<1>8. QED
  BY <1>3, <1>4, <1>5, <1>6, <1>7

\* In the operator's part nothing of the resources is due any more, and the CRDs are.
LEMMA OperatorDue ==
  ASSUME Typed, pc \in OperatorParts, NEW o \in Object \ Late, Due(o), Pending(o)
  PROVE  /\ Where = pc /\ o.kind \in Other \cup {"crd"} /\ Ahead(o)
         /\ o.kind \in Other => asked.tvm /\ Matched(o) /\ There(o) /\ o.kind # "crd" /\ o.kind \notin Custom
         /\ o.kind = "crd" => asked.crd /\ o.kind \notin Custom
<1>1. /\ Where = pc /\ pc \notin Removal /\ pc \notin {"options", "resources"}
  BY DEF Where, Removal, OperatorParts
<1>2. Ahead(o)
  BY <1>1 DEF Pending, InHand
<1>3. o.kind \notin Custom
  BY <1>1, <1>2 DEF Ahead
<1>4. Followed(o) /\ There(o)
  BY DEF Due
<1>5. QED
  BY <1>1, <1>2, <1>3, <1>4, FollowedFacts, Disjoint

\* From one place of the operator's part to another, the CRDs stay ahead.
LEMMA CrdAhead ==
  ASSUME NEW o, o.kind = "crd", o.kind \notin Custom, Where' \notin {"crd", "report"}
  PROVE  Pending(o)'
BY DEF Pending, Ahead

LEMMA CheckDue ==
  ASSUME Typed, CheckOcp, NEW o \in Object \ Late, Due(o), Followed(o), Pending(o), ~unheard'
  PROVE  Pending(o)'
<1>1. pc = "ocp" /\ pc \in OperatorParts /\ pc' \in {"subscription", "helm"} /\ Where' = pc'
  BY DEF CheckOcp, OperatorParts, Where, Removal
<1>2. CASE o.kind = "crd"
  BY <1>1, <1>2, OperatorDue, CrdAhead
<1>3. CASE o.kind \in {"subscription", "clusterserviceversion"}
  <2>1. Ocp
    BY <1>3, FollowedFacts
  <2>2. \E heard \in SUBSET {Ocp} : Listing({Ocp}, heard) /\ pc' = IF TRUE \in heard THEN "subscription" ELSE "helm"
    BY DEF CheckOcp
  <2>3. Ocp = TRUE
    BY <2>1, Assumed, ScriptAssumption
  <2>4. pc' = "subscription"
    BY <2>2, <2>3, Zenon DEF Listing
  <2>5. o.kind \notin Custom /\ o.kind # "crd"
    <3>1. o.kind \in Other
      BY <1>3 DEF Other
    <3>2. QED
      BY <3>1, KindCases
  <2>6. QED
    BY <1>1, <1>3, <2>4, <2>5 DEF Pending, Ahead
<1>4. CASE o.kind \in Other \ {"subscription", "clusterserviceversion"}
  BY <1>1, <1>4, KindCases DEF Pending, Ahead, Before
<1>5. QED
  BY <1>1, <1>2, <1>3, <1>4, OperatorDue DEF Other

\* What a sweep finds goes in hand.
LEMMA SweepDue ==
  ASSUME Typed, NEW here \in OperatorParts, NEW kind, NEW ns, NEW next \in OperatorParts,
         Sweep(here, kind, ns, next), ~unheard'
  PROVE  /\ pc = here /\ Where = here /\ Where' = next /\ UNCHANGED loops
         /\ \A o \in Object : There(o) /\ Matched(o) /\ o.kind = kind /\ o.ns = ns => InHand(o)'
<1>1. pc = here /\ Where = here /\ UNCHANGED loops
  BY DEF Sweep, Where, Removal, OperatorParts
<1>2. PICK heard \in SUBSET Ours(kind, ns) :
        /\ Listing(Ours(kind, ns), heard)
        /\ IF heard = {} /\ kind # "triliovaultmanager"
           THEN pc' = next /\ UNCHANGED <<target, back>> ELSE Remove(heard, next)
  BY DEF Sweep
<1>3. heard = Ours(kind, ns)
  BY <1>2, Zenon DEF Listing
<1>4. Where' = next
  BY <1>2 DEF Remove, Where, Removal, OperatorParts
<1>5. ASSUME NEW o \in Object, There(o), Matched(o), o.kind = kind, o.ns = ns PROVE InHand(o)'
  <2>1. o \in heard
    BY <1>3, <1>5 DEF Ours, Present
  <2>2. Remove(heard, next)
    BY <1>2, <2>1
  <2>3. QED
    BY <2>1, <2>2 DEF Remove, InHand, Removal
<1>6. QED
  BY <1>1, <1>4, <1>5

LEMMA SubscriptionDue ==
  ASSUME Typed, Subscription \/ Csv, NEW o \in Object \ Late, Due(o), Pending(o), ~unheard'
  PROVE  Pending(o)'
<1>1. /\ pc \in {"subscription", "csv"} /\ pc \in OperatorParts
      /\ Where' = IF pc = "subscription" THEN "csv" ELSE "helm"
      /\ \A x \in Object : /\ There(x) /\ Matched(x) /\ x.ns = OpenshiftNs
                           /\ x.kind = IF pc = "subscription" THEN "subscription" ELSE "clusterserviceversion"
                           => InHand(x)'
  BY SweepDue DEF Subscription, Csv, OperatorParts
<1>2. Where' \notin {"crd", "report"}
  BY <1>1
<1>3. Where = pc /\ o.kind \in Other \cup {"crd"} /\ Ahead(o)
  BY <1>1, OperatorDue
<1>4. CASE o.kind = "crd"
  BY <1>1, <1>2, <1>4, OperatorDue, CrdAhead
<1>5. CASE o.kind \in {"subscription", "clusterserviceversion"}
  <2>1. o.kind \in Other /\ o.ns = OpenshiftNs
    BY <1>5, ScriptAssumption DEF Other
  <2>2. There(o) /\ Matched(o) /\ o.kind \notin Custom /\ o.kind # "crd"
    BY <1>1, <2>1, OperatorDue
  <2>3. CASE o.kind = IF pc = "subscription" THEN "subscription" ELSE "clusterserviceversion"
    BY <1>1, <2>1, <2>2, <2>3 DEF Pending
  <2>4. CASE pc = "subscription" /\ o.kind = "clusterserviceversion"
    BY <1>1, <2>2, <2>4 DEF Pending, Ahead
  <2>5. CASE pc = "csv" /\ o.kind = "subscription"
    BY <1>3, <2>2, <2>5 DEF Ahead
  <2>6. QED
    BY <1>1, <1>5, <2>3, <2>4, <2>5
<1>6. CASE o.kind \in Other \ {"subscription", "clusterserviceversion"}
  BY <1>1, <1>6, KindCases DEF Pending, Ahead, Before
<1>7. QED
  BY <1>3, <1>4, <1>5, <1>6

LEMMA HelmDue ==
  ASSUME Typed, ReleaseInv, HelmList, NEW o \in Object \ Late, Due(o), Pending(o), ~unheard'
  PROVE  Pending(o)'
<1>1. pc = "helm" /\ pc \in OperatorParts /\ pc' = "namespaces" /\ Where' = "namespaces"
  BY DEF HelmList, OperatorParts, Where, Removal
<1>2. Where = pc /\ o.kind \in Other \cup {"crd"} /\ Ahead(o)
  BY <1>1, OperatorDue
<1>3. CASE o.kind = "crd"
  BY <1>1, <1>3, OperatorDue, CrdAhead
<1>4. CASE o.kind \in Other
  <2>1. o.kind \notin {"subscription", "clusterserviceversion"}
    BY <1>1, <1>2, <1>4, KindCases DEF Ahead
  <2>2. PICK r \in Object \ Late : r.kind \in Releases /\ r.ns = o.ns
    BY <1>4, <2>1, FollowedFacts DEF Due
  <2>3. state[r] = "live"
    BY <1>1, <1>2, <2>2 DEF ReleaseInv, Before
  <2>4. r \in UNION {Present(k) : k \in Releases}
    BY <2>2, <2>3 DEF Present, There
  <2>5. o.ns \in places'
    <3>1. PICK heard : /\ Listing({x.ns : x \in UNION {Present(k) : k \in Releases}}, heard)
                       /\ places' = heard
      BY DEF HelmList
    <3>2. places' = {x.ns : x \in UNION {Present(k) : k \in Releases}}
      BY <3>1, Zenon DEF Listing
    <3>3. QED
      BY <2>2, <2>4, <3>2
  <2>6. QED
    BY <1>1, <1>4, <2>1, <2>5, KindCases DEF Pending, Ahead, Loop
<1>5. QED
  BY <1>2, <1>3, <1>4

\* The loop over namespaces: what is due in it is a CRD, or is in a namespace in hand or
\* to come.
LEMMA LoopDue ==
  ASSUME Typed, pc \in Loop, NEW o \in Object \ Late, Due(o), Pending(o)
  PROVE  /\ Where = pc
         /\ o.kind = "crd" => asked.crd /\ o.kind \notin Custom
         /\ o.kind # "crd" =>
              /\ o.kind \in Other \ {"subscription", "clusterserviceversion"}
              /\ o.kind \notin Custom /\ Matched(o) /\ There(o)
              /\ o.ns \in places \/ (place = o.ns /\ pc \in Stage(o.kind))
<1>1. /\ pc \in OperatorParts /\ pc \notin Before
      /\ pc \notin {"resources", "ocp", "subscription", "csv"}
  BY DEF Loop, OperatorParts, Before
<1>2. Where = pc /\ o.kind \in Other \cup {"crd"} /\ Ahead(o)
  BY <1>1, OperatorDue
<1>3. CASE o.kind = "crd"
  BY <1>1, <1>3, OperatorDue
<1>4. CASE o.kind \in Other
  <2>1. o.kind \notin Custom /\ o.kind # "crd" /\ Matched(o) /\ There(o)
    BY <1>1, <1>4, OperatorDue
  <2>2. o.kind \notin {"subscription", "clusterserviceversion"}
    BY <1>1, <1>2, <2>1 DEF Ahead
  <2>3. QED
    BY <1>1, <1>2, <1>4, <2>1, <2>2 DEF Ahead
<1>5. QED
  BY <1>2, <1>3, <1>4

\* What is still to come in the loop.
LEMMA LoopAhead ==
  ASSUME NEW o, o.kind \in Other \ {"subscription", "clusterserviceversion"}, Where' \in Loop,
         o.ns \in places' \/ (place' = o.ns /\ Where' \in Stage(o.kind))
  PROVE  Pending(o)'
BY KindCases DEF Pending, Ahead

LEMMA NamespaceDue ==
  ASSUME Typed, NextNamespace, NEW o \in Object \ Late, Due(o), Pending(o)
  PROVE  Pending(o)'
<1>1. pc = "namespaces" /\ pc \in Loop /\ \A kind : pc \notin Stage(kind) /\ "manager" \in Stage(kind)
  BY DEF NextNamespace, Loop, Stage
<1>2. CASE places = {}
  <2>1. o.kind = "crd" /\ asked.crd /\ o.kind \notin Custom
    BY <1>1, <1>2, LoopDue
  <2>2. pc' = "crds"
    BY <1>2, <2>1 DEF NextNamespace, After
  <2>3. Where' = "crds"
    BY <2>2 DEF Where, Removal
  <2>4. QED
    BY <2>1, <2>3, CrdAhead
<1>3. CASE places # {}
  <2>1. PICK p \in places : place' = p /\ places' = places \ {p} /\ pc' = "manager"
    BY <1>3 DEF NextNamespace
  <2>2. Where' = "manager"
    BY <2>1 DEF Where, Removal
  <2>3. CASE o.kind = "crd"
    BY <1>1, <2>2, <2>3, LoopDue, CrdAhead
  <2>4. CASE o.kind # "crd"
    <3>1. o.ns \in places /\ o.kind \in Other \ {"subscription", "clusterserviceversion"}
      BY <1>1, <2>4, LoopDue
    <3>2. o.ns \in places' \/ (place' = o.ns /\ Where' \in Stage(o.kind))
      BY <1>1, <2>1, <2>2, <3>1
    <3>3. QED
      BY <2>2, <3>1, <3>2, LoopAhead DEF Loop
  <2>5. QED
    BY <2>3, <2>4
<1>4. QED
  BY <1>2, <1>3

LEMMA ManagerDue ==
  ASSUME Typed, Manager, NEW o \in Object \ Late, Due(o), Pending(o), ~unheard'
  PROVE  Pending(o)'
<1>1. /\ pc = "manager" /\ pc \in Loop /\ Where' = "uninstall manager" /\ UNCHANGED loops
      /\ \A x \in Object : There(x) /\ Matched(x) /\ x.kind = "triliovaultmanager" /\ x.ns = place => InHand(x)'
  BY SweepDue DEF Manager, OperatorParts, Loop
<1>2. CASE o.kind = "crd"
  BY <1>1, <1>2, LoopDue, CrdAhead
<1>3. CASE o.kind # "crd"
  <2>1. /\ o.kind \in Other \ {"subscription", "clusterserviceversion"} /\ Matched(o) /\ There(o)
        /\ o.ns \in places \/ place = o.ns
    BY <1>1, <1>3, LoopDue
  <2>2. CASE o.kind = "triliovaultmanager" /\ place = o.ns
    BY <1>1, <2>1, <2>2 DEF Pending
  <2>3. CASE ~(o.kind = "triliovaultmanager" /\ place = o.ns)
    <3>1. o.ns \in places' \/ (place' = o.ns /\ Where' \in Stage(o.kind))
      BY <1>1, <2>1, <2>3 DEF loops, Stage
    <3>2. QED
      BY <1>1, <2>1, <3>1, LoopAhead DEF Loop
  <2>4. QED
    BY <2>2, <2>3
<1>4. QED
  BY <1>2, <1>3

LEMMA CronDue ==
  ASSUME Typed, Cron, NEW o \in Object \ Late, Due(o), Pending(o), ~unheard'
  PROVE  Pending(o)'
<1>1. /\ pc = "cronjob" /\ pc \in Loop /\ Where' = "namespaces" /\ UNCHANGED loops
      /\ \A x \in Object : There(x) /\ Matched(x) /\ x.kind = "cronjob" /\ x.ns = place => InHand(x)'
  BY SweepDue DEF Cron, OperatorParts, Loop
<1>2. CASE o.kind = "crd"
  BY <1>1, <1>2, LoopDue, CrdAhead
<1>3. CASE o.kind # "crd"
  <2>1. /\ o.kind \in Other \ {"subscription", "clusterserviceversion"} /\ Matched(o) /\ There(o)
        /\ o.ns \in places \/ (place = o.ns /\ pc \in Stage(o.kind))
    BY <1>1, <1>3, LoopDue
  <2>2. CASE o.ns \in places
    <3>1. o.ns \in places'
      BY <1>1, <2>2 DEF loops
    <3>2. QED
      BY <1>1, <2>1, <3>1, LoopAhead DEF Loop
  <2>3. CASE place = o.ns /\ pc \in Stage(o.kind)
    <3>1. o.kind = "cronjob"
      BY <1>1, <2>1, <2>3 DEF Stage, Other
    <3>2. QED
      BY <1>1, <2>1, <2>3, <3>1 DEF Pending
  <2>4. QED
    BY <2>1, <2>2, <2>3
<1>4. QED
  BY <1>2, <1>3

\* helm uninstalls the release that is there, or several are bunched, or that shows.
LEMMA Uninstalled ==
  ASSUME Typed, NEW here, NEW kind, NEW next, Uninstall(here, kind, next), ~unheard',
         NEW o \in Object, There(o), Matched(o), o.kind = kind, o.ns = place
  PROVE  ~Due(o)'
<1>1. PICK heard \in SUBSET Ours(kind, place) :
        /\ \/ Listing(Ours(kind, place), heard) /\ UNCHANGED refused
           \/ heard = Ours(kind, place) /\ Trouble /\ refused' = refused \cup heard /\ UNCHANGED unheard
        /\ LET done == Cardinality(heard) = 1 /\ heard \cap refused' = {}
           IN /\ state' = [x \in Object |-> IF done /\ x \in heard THEN "gone" ELSE state[x]]
              /\ failed' = Failed(heard # {} /\ ~done)
        /\ bunched' = IF Cardinality(heard) > 1 THEN bunched \cup heard ELSE bunched
  BY DEF Uninstall
<1>2. heard = Ours(kind, place)
  BY <1>1, Zenon DEF Listing
<1>3. o \in heard
  BY <1>2 DEF Ours, Present
<1>4. IsFiniteSet(heard)
  BY <1>2, FiniteCluster, FS_Subset DEF Ours, Present
<1>5. Cardinality(heard) \in Nat /\ Cardinality(heard) # 0
  BY <1>3, <1>4, FS_CardinalityType, FS_EmptySet
<1>6. CASE Cardinality(heard) > 1
  <2>1. o \in bunched'
    BY <1>1, <1>3, <1>6
  <2>2. QED
    BY <2>1 DEF Due
<1>7. CASE Cardinality(heard) = 1
  <2>1. CASE heard \cap refused' = {}
    <3>1. state'[o] = "gone"
      BY <1>1, <1>3, <1>7, <2>1
    <3>2. QED
      BY <3>1 DEF Due, There
  <2>2. CASE heard \cap refused' # {}
    <3>1. \A x \in heard : x = o
      <4>1. PICK x : heard = {x}
        BY <1>4, <1>7, FS_Singleton
      <4>2. QED
        BY <1>3, <4>1
    <3>2. o \in refused'
      BY <2>2, <3>1
    <3>3. failed'
      BY <1>1, <1>3, <2>2, Zenon DEF Failed
    <3>4. QED
      BY <3>2, <3>3 DEF Due
  <2>3. QED
    BY <2>1, <2>2
<1>8. QED
  <2>1. Cardinality(heard) = 1 \/ Cardinality(heard) > 1
    BY <1>5
  <2>2. QED
    BY <1>6, <1>7, <2>1

LEMMA UninstallDue ==
  ASSUME Typed, UninstallManager \/ UninstallOperator, NEW o \in Object \ Late, Due(o), Due(o)', Pending(o),
         ~unheard'
  PROVE  Pending(o)'
<1>1. /\ pc \in {"uninstall manager", "uninstall operator"} /\ pc \in Loop /\ UNCHANGED loops
      /\ Where' = IF pc = "uninstall manager" THEN "uninstall operator" ELSE "cronjob"
  BY DEF UninstallManager, UninstallOperator, Uninstall, Loop, Where, Removal
<1>2. CASE o.kind = "crd"
  <2>1. Where' \notin {"crd", "report"}
    BY <1>1
  <2>2. QED
    BY <1>1, <1>2, <2>1, LoopDue, CrdAhead
<1>3. CASE o.kind # "crd"
  <2>1. /\ o.kind \in Other \ {"subscription", "clusterserviceversion"} /\ Matched(o) /\ There(o)
        /\ o.ns \in places \/ (place = o.ns /\ pc \in Stage(o.kind))
    BY <1>1, <1>3, LoopDue
  <2>2. Where' \in Loop
    BY <1>1 DEF Loop
  <2>3. CASE o.ns \in places
    <3>1. o.ns \in places'
      BY <1>1, <2>3 DEF loops
    <3>2. QED
      BY <2>1, <2>2, <3>1, LoopAhead
  <2>4. CASE place = o.ns /\ pc \in Stage(o.kind)
    <3>1. CASE UninstallManager
      <4>1. pc = "uninstall manager"
        BY <3>1 DEF UninstallManager, Uninstall
      <4>2. o.kind # "manager release"
        BY <2>1, <2>4, <3>1, Uninstalled DEF UninstallManager
      <4>3. place' = o.ns /\ Where' \in Stage(o.kind)
        BY <1>1, <2>4, <4>1, <4>2 DEF loops, Stage
      <4>4. QED
        BY <2>1, <2>2, <4>3, LoopAhead
    <3>2. CASE UninstallOperator
      <4>1. pc = "uninstall operator"
        BY <3>2 DEF UninstallOperator, Uninstall
      <4>2. o.kind # "operator release"
        BY <2>1, <2>4, <3>2, Uninstalled DEF UninstallOperator
      <4>3. place' = o.ns /\ Where' \in Stage(o.kind)
        BY <1>1, <2>4, <4>1, <4>2 DEF loops, Stage
      <4>4. QED
        BY <2>1, <2>2, <4>3, LoopAhead
    <3>3. QED
      BY <3>1, <3>2
  <2>5. QED
    BY <2>1, <2>3, <2>4
<1>4. QED
  BY <1>2, <1>3

\* In the CRDs' part only CRDs are due.
LEMMA CrdsDue ==
  ASSUME Typed, ListCrds \/ NextCrd, NEW o \in Object \ Late, Due(o), Pending(o), ~unheard'
  PROVE  Pending(o)'
<1>1. pc \in {"crds", "crd"} /\ Where = pc /\ pc \notin Removal
  BY DEF ListCrds, NextCrd, Where, Removal
<1>2. Ahead(o) /\ o.kind \in Custom \cup Other \cup {"crd"} /\ There(o)
  BY <1>1, FollowedFacts DEF Pending, InHand, Due
<1>3. o.kind = "crd" /\ o.kind \notin Custom
  <2>1. o.kind \notin Custom
    BY <1>1, <1>2 DEF Ahead
  <2>2. o.kind \notin Other
    BY <1>1, <1>2, <2>1, Disjoint DEF Ahead, Before, Loop
  <2>3. QED
    BY <1>2, <2>1, <2>2
<1>4. CASE ListCrds
  <2>1. pc' = "crd" /\ Where' = "crd"
    BY <1>4 DEF ListCrds, Where, Removal
  <2>2. batch' = {c \in Present("crd") : c.ours}
    BY <1>4, Zenon DEF ListCrds, Listing
  <2>3. o \in batch'
    BY <1>2, <1>3, <2>2, FollowedFacts DEF Present, Due
  <2>4. QED
    BY <1>3, <2>1, <2>3 DEF Pending, Ahead
<1>5. CASE NextCrd
  <2>1. o \in batch
    BY <1>1, <1>2, <1>3, <1>5 DEF Ahead, NextCrd
  <2>2. PICK c \in batch : batch' = batch \ {c} /\ target' = {c} /\ pc' = "delete" /\ back' = "crd"
    BY <1>5, <2>1 DEF NextCrd, Remove
  <2>3. Where' = "crd"
    BY <2>2 DEF Where, Removal
  <2>4. o = c \/ o \in batch'
    BY <2>1, <2>2
  <2>5. QED
    BY <1>3, <2>2, <2>3, <2>4 DEF Pending, Ahead, InHand, Removal
<1>6. QED
  BY <1>4, <1>5

LEMMA StartDue ==
  ASSUME Typed, AskedInv, Start, NEW o \in Object \ Late, Due(o)'
  PROVE  Pending(o)'
<1>1. /\ pc = "options" /\ Where = "options" /\ pc' = "resources" /\ Where' = "resources"
      /\ UNCHANGED <<chosen, asked, resources>>
  BY DEF Start, Finish, After, Due, Where, Removal, options, loops
<1>2. Followed(o)
  BY <1>1 DEF Due, Followed
<1>3. CASE o.kind \in Custom
  <2>1. \E n \in DOMAIN resources : resources[n] = o.kind
    BY <1>1, <1>2, <1>3, FollowedFacts DEF AskedInv
  <2>2. Queued(o)'
    BY <1>1, <2>1 DEF Queued
  <2>3. QED
    BY <1>1, <1>3, <2>2 DEF Pending, Ahead
<1>4. CASE o.kind \notin Custom
  BY <1>1, <1>4 DEF Pending, Ahead, Before
<1>5. QED
  BY <1>3, <1>4

LEMMA DueStep == ASSUME Typed, CallsInv, DueInv, [Next]_vars PROVE DueInv'
<1>a. SUFFICES ASSUME NEW o \in Object \ Late, Due(o)' PROVE Pending(o)'
  BY DEF DueInv
<1>b. ASSUME UNCHANGED options, pc # "done"
      PROVE  Due(o) /\ Pending(o) /\ Followed(o) /\ ~unheard'
  BY <1>a, <1>b, DueBefore DEF CallsInv, DueInv
<1>1. CASE ReadOption
  <2>1. pc' = "options"
    BY <1>1, <1>a DEF ReadOption, Finish, Due
  <2>2. QED
    BY <2>1 DEF Pending, Where, Removal
<1>2. CASE Start
  BY <1>2, <1>a, StartDue DEF CallsInv
<1>3. CASE Delete \/ Wait \/ Patch \/ Look
  <2>1. UNCHANGED options /\ pc # "done"
    BY <1>3, RemovalSteps DEF Removal
  <2>2. QED
    BY <1>3, <1>a, <1>b, <2>1, RemovalDue DEF CallsInv
<1>4. CASE NextResource \/ NextPlace \/ NextName
  <2>1. UNCHANGED options /\ pc # "done"
    BY <1>4, LoopSteps DEF Quiet
  <2>2. QED
    BY <1>4, <1>a, <1>b, <2>1, ResourceDue
<1>5. CASE CheckOcp \/ Subscription \/ Csv \/ HelmList
  <2>1. UNCHANGED options /\ pc # "done"
    BY <1>5, LoopSteps DEF Quiet, Sweeps
  <2>2. QED
    BY <1>5, <1>a, <1>b, <2>1, CheckDue, SubscriptionDue, HelmDue DEF CallsInv
<1>6. CASE NextNamespace \/ Manager \/ Cron \/ UninstallManager \/ UninstallOperator
  <2>1. UNCHANGED options /\ pc # "done"
    BY <1>6, LoopSteps DEF Quiet, Sweeps, Uninstalls
  <2>2. QED
    BY <1>6, <1>a, <1>b, <2>1, NamespaceDue, ManagerDue, CronDue, UninstallDue
<1>7. CASE ListCrds \/ NextCrd
  <2>1. UNCHANGED options /\ pc # "done"
    BY <1>7, LoopSteps DEF Quiet
  <2>2. QED
    BY <1>7, <1>a, <1>b, <2>1, CrdsDue
<1>8. CASE Report
  BY <1>8, <1>a DEF Report, Finish, Due
<1>9. CASE Cluster \/ UNCHANGED vars
  <2>1. UNCHANGED <<options, pc, resources, places, place, batch, target, back>>
    BY <1>9 DEF Cluster, Finalize, Create, script, loops, vars, options
  <2>2. pc # "done"
    BY <1>a, <2>1 DEF Due
  <2>3. Pending(o)
    BY <1>b, <2>1, <2>2
  <2>4. Where' = Where /\ (InHand(o) => InHand(o)') /\ (Queued(o) => Queued(o)')
    BY <2>1 DEF Where, InHand, Queued
  <2>5. QED
    BY <2>1, <2>3, <2>4 DEF Pending, Ahead
<1>10. QED
  BY <1>1, <1>2, <1>3, <1>4, <1>5, <1>6, <1>7, <1>8, <1>9 DEF Next, Script

(***************************************************************************)
(* What the script reports.                                                *)
(***************************************************************************)

\* At the end of a script that succeeds, nothing that was due is left.
GoneInv ==
  exit = "ok" /\ ~unheard =>
    \A o \in Object \ Late : Followed(o) => ~There(o) \/ o \in bunched

Promise == Typed /\ CallsInv /\ DueInv /\ GoneInv

LEMMA InitPromise == ASSUME Init PROVE Promise
<1>1. Typed
  BY InitTyped
<1>2. pc \notin Removal /\ Where = "options" /\ chosen = {} /\ bunched = {} /\ exit = "none"
  BY DEF Init, Where, Removal
<1>3. \A o \in Object : state[o] = IF o \in Late THEN "absent" ELSE "live"
  BY DEF Init
<1>4. SeenInv /\ HoldInv
  BY <1>3 DEF SeenInv, HoldInv
<1>5. HandInv /\ CallInv /\ AskedInv
  BY <1>2 DEF HandInv, CallInv, AskedInv, Removal
<1>6. ReleaseInv
  BY <1>3 DEF ReleaseInv
<1>7. DueInv
  BY <1>2 DEF DueInv, Pending
<1>8. GoneInv
  BY <1>2 DEF GoneInv
<1>9. QED
  BY <1>1, <1>4, <1>5, <1>6, <1>7, <1>8 DEF Promise, CallsInv

LEMMA CallsStep == ASSUME Typed, CallsInv, [Next]_vars PROVE CallsInv'
<1>1. SeenInv' /\ HandInv' /\ CallInv' /\ ReleaseInv' /\ HoldInv' /\ AskedInv'
  BY SeenStep, HandStep, CallStep, ReleaseStep, HoldStep, AskedStep DEF CallsInv
<1>2. QED
  BY <1>1 DEF CallsInv

\* Only the report says that the script succeeded.
LEMMA VerdictSteps ==
  ASSUME Typed, [Next]_vars, exit' = "ok"
  PROVE  \/ Report
         \/ exit = "ok" /\ UNCHANGED options
<1>1. CASE ReadOption \/ Start
  <2>1. pc = "options"
    BY <1>1 DEF ReadOption, Start
  <2>2. exit = "none"
    BY <2>1 DEF Typed, TypeOK
  <2>3. exit' \in {"none", "stopped", "failed"}
    BY <1>1, <2>2 DEF ReadOption, Start, Finish
  <2>4. QED
    BY <2>3
<1>2. CASE Delete \/ Wait \/ Patch \/ Look
  BY <1>2 DEF Delete, Wait, Patch, Look, report
<1>3. CASE NextResource \/ NextPlace \/ NextName \/ CheckOcp \/ HelmList \/ NextNamespace
           \/ ListCrds \/ NextCrd
  BY <1>3 DEF NextResource, NextPlace, NextName, CheckOcp, HelmList, NextNamespace, ListCrds, NextCrd,
              report
<1>4. CASE Sweeps
  BY <1>4 DEF Sweeps, Subscription, Csv, Manager, Cron, Sweep, report
<1>5. CASE Uninstalls
  BY <1>5 DEF Uninstalls, UninstallManager, UninstallOperator, Uninstall
<1>6. CASE Cluster \/ UNCHANGED vars
  BY <1>6 DEF Cluster, Finalize, Create, script, report, options, vars
<1>7. QED
  BY <1>1, <1>2, <1>3, <1>4, <1>5, <1>6 DEF Next, Script, Sweeps, Uninstalls

LEMMA GoneStep == ASSUME Promise, [Next]_vars PROVE GoneInv'
<1>a. SUFFICES ASSUME exit' = "ok", ~unheard', NEW o \in Object \ Late, Followed(o)',
                      There(o)', o \notin bunched'
               PROVE  FALSE
  BY DEF GoneInv
<1>b. Typed /\ SeenInv /\ DueInv
  BY DEF Promise, CallsInv
<1>c. Onward(o)
  BY <1>b, Progress
<1>d. There(o) /\ ~unheard /\ o \notin bunched
  BY <1>a, <1>c DEF Onward
<1>1. CASE exit = "ok" /\ UNCHANGED options
  <2>1. Followed(o)
    BY <1>a, <1>1 DEF Followed, options
  <2>2. QED
    BY <1>1, <1>d, <2>1 DEF Promise, GoneInv
<1>2. CASE Report
  <2>1. UNCHANGED options /\ pc = "report" /\ Where = "report" /\ pc \notin Removal
    BY <1>2 DEF Report, Where, Removal
  <2>2. ~failed
    BY <1>2, <1>a DEF Report, Finish
  <2>3. Followed(o)
    BY <1>a, <2>1 DEF Followed, options
  <2>4. Due(o)
    BY <1>d, <2>1, <2>2, <2>3 DEF Due
  <2>5. Ahead(o)
    BY <1>b, <2>1, <2>4 DEF DueInv, Pending, InHand
  <2>6. QED
    BY <2>1, <2>5 DEF Ahead, Before, Loop
<1>3. QED
  BY <1>1, <1>2, <1>a, <1>b, VerdictSteps

LEMMA PromiseStep == ASSUME Promise, [Next]_vars PROVE Promise'
<1>1. Typed' /\ CallsInv' /\ DueInv'
  BY StepTyped, CallsStep, DueStep DEF Promise
<1>2. QED
  BY <1>1, GoneStep DEF Promise

LEMMA PromiseKept == ASSUME Promise PROVE SuccessMeansGone
<1>1. SUFFICES ASSUME exit = "ok", ~unheard, NEW o \in Object \ Late, Followed(o)
               PROVE  state[o] = "gone" \/ o \in bunched
  BY DEF SuccessMeansGone
<1>2. ~There(o) \/ o \in bunched
  BY <1>1 DEF Promise, GoneInv
<1>3. state[o] \in {"absent", "live", "terminating", "gone"} /\ state[o] # "absent"
  BY DEF Promise, CallsInv, SeenInv, Typed, TypeOK
<1>4. QED
  BY <1>2, <1>3 DEF There

\* "Cleanup completed successfully!!": what was asked for and was there is gone, unless a
\* call that reads failed or several names went into one argument.  Everything that is
\* due lies ahead of the script, in one of its lists, in hand, or in a later part.
THEOREM SuccessIsTrue == Spec => []SuccessMeansGone
<1>1. Init => Promise
  BY InitPromise
<1>2. Promise /\ [Next]_vars => Promise'
  BY PromiseStep
<1>3. Promise => SuccessMeansGone
  BY PromiseKept
<1>4. QED
  BY <1>1, <1>2, <1>3, PTL DEF Spec

(***************************************************************************)
(* What a CRD leaves behind.                                               *)
(***************************************************************************)

Excused(o) == ~Followed(o) \/ o \in Late \/ unheard \/ o \in refused \/ o \in bunched

OrphanInv ==
  \A o \in Object, c \in Object :
    c.kind = "crd" /\ c.name = o.kind /\ state[c] \in {"terminating", "gone"} /\ There(o) =>
      o \in held /\ state[o] = "terminating" /\ Excused(o)

\* When CRDs are removed, what was asked for is gone or excused.
LEMMA ExcusedThen ==
  ASSUME Promise, Where = "crd", NEW o \in Object, o.kind # "crd", There(o), pc # "done",
         pc \in Removal => \A x \in target : x.kind = "crd"
  PROVE  Excused(o)
<1>1. SUFFICES ASSUME Followed(o), o \notin Late, ~unheard, o \notin refused, o \notin bunched
               PROVE  FALSE
  BY DEF Excused
<1>2. Pending(o)
  BY <1>1 DEF Promise, DueInv, Due
<1>3. ~InHand(o)
  BY DEF InHand
<1>4. QED
  BY <1>2, <1>3 DEF Pending, Ahead, Before, Loop

LEMMA ExcuseStays ==
  ASSUME Promise, [Next]_vars, NEW o \in Object, UNCHANGED options, Excused(o)
  PROVE  Excused(o)'
<1>1. CASE o \in Late
  BY <1>1 DEF Excused
<1>2. CASE o \notin Late
  <2>1. Onward(o)
    BY <1>2, Progress DEF Promise, CallsInv
  <2>2. QED
    BY <2>1 DEF Excused, Onward, Followed, Matched, options
<1>3. QED
  BY <1>1, <1>2

LEMMA OrphanDelete == ASSUME Promise, OrphanInv, Delete PROVE OrphanInv'
<1>1. pc \in Removal /\ Where = back /\ UNCHANGED <<options, held>>
  <2>1. pc \in Removal /\ Where = back /\ UNCHANGED options
    BY RemovalSteps DEF Promise
  <2>2. QED
    BY <2>1 DEF Delete
<1>x. \A o \in Object : Excused(o) => Excused(o)'
  BY <1>1, ExcuseStays DEF Next, Script
<1>2. CASE UNCHANGED state
  BY <1>1, <1>2, <1>x DEF OrphanInv, There
<1>3. CASE state' = AfterDelete(Named)
  <2>1. SUFFICES ASSUME NEW o \in Object, NEW c \in Object, c.kind = "crd", c.name = o.kind,
                        state'[c] \in {"terminating", "gone"}, There(o)'
                 PROVE  o \in held /\ state'[o] = "terminating" /\ Excused(o)
    BY <1>1, <1>x DEF OrphanInv
  <2>2. There(o) /\ (state[o] = "terminating" => state'[o] = "terminating")
    BY <1>3, <2>1 DEF AfterDelete, There
  <2>3. CASE state[c] \in {"terminating", "gone"}
    BY <2>1, <2>2, <2>3 DEF OrphanInv
  <2>4. CASE state[c] \notin {"terminating", "gone"}
    <3>1. c \in Named
      <4>1. c \notin Instances(Named)
        <5>1. \A d \in Named : d.kind = "crd" => d.name \in Trilio
          BY <1>1, NamedCrds DEF Promise
        <5>2. QED
          BY <2>1, <5>1, Disjoint DEF Instances
      <4>2. QED
        BY <1>3, <2>1, <2>4, <4>1 DEF AfterDelete
    <3>2. back = "crd" /\ o.kind # "crd"
      BY <1>1, <2>1, <3>1, NamedCrds, Disjoint DEF Promise
    <3>3. \A x \in target : x.kind = "crd"
      BY <1>1, <3>2 DEF Promise, Typed, FlowInv, Meant
    <3>4. Excused(o)
      BY <1>1, <2>2, <3>2, <3>3, ExcusedThen DEF Removal
    <3>5. o \in Instances(Named)
      BY <2>1, <2>2, <3>1 DEF Instances
    <3>6. state'[o] = IF o \in held THEN "terminating" ELSE "gone"
      BY <1>3, <2>2, <3>2, <3>5 DEF AfterDelete
    <3>7. QED
      BY <2>1, <3>4, <3>6 DEF There
  <2>5. QED
    BY <2>3, <2>4
<1>4. QED
  BY <1>2, <1>3 DEF Delete

LEMMA OrphanPatch == ASSUME Promise, OrphanInv, Patch PROVE OrphanInv'
<1>1. UNCHANGED options
  BY RemovalSteps DEF Promise
<1>x. \A o \in Object : Excused(o) => Excused(o)'
  BY <1>1, ExcuseStays DEF Next, Script
<1>2. CASE UNCHANGED cluster
  BY <1>2, <1>x DEF OrphanInv, There, cluster
<1>3. CASE /\ held' = held \ {o \in Named : There(o)}
           /\ state' = [o \in Object |->
                IF o \in Named /\ state[o] = "terminating" THEN "gone" ELSE state[o]]
  <2>1. SUFFICES ASSUME NEW o \in Object, NEW c \in Object, c.kind = "crd", c.name = o.kind,
                        state'[c] \in {"terminating", "gone"}, There(o)'
                 PROVE  o \in held' /\ state'[o] = "terminating" /\ Excused(o)
    BY <1>x DEF OrphanInv
  <2>2. state[c] \in {"terminating", "gone"} /\ There(o) /\ state'[o] = state[o]
    BY <1>3, <2>1 DEF There
  <2>3. o \in held /\ state[o] = "terminating" /\ Excused(o)
    BY <2>1, <2>2 DEF OrphanInv
  <2>4. o \notin Named
    BY <1>3, <2>2, <2>3
  <2>5. QED
    BY <1>3, <2>2, <2>3, <2>4
<1>4. QED
  BY <1>2, <1>3 DEF Patch

\* A step that asks for no deletion, and in which finalizers stay.
LEMMA OrphanOther ==
  ASSUME Promise, OrphanInv, [Next]_vars, UNCHANGED <<options, held>>,
         \A o \in Object : \/ state'[o] = state[o]
                           \/ state'[o] = "gone" /\ (o.kind = "crd" => state[o] = "terminating")
  PROVE  OrphanInv'
<1>x. \A o \in Object : Excused(o) => Excused(o)'
  BY ExcuseStays
<1>1. SUFFICES ASSUME NEW o \in Object, NEW c \in Object, c.kind = "crd", c.name = o.kind,
                      state'[c] \in {"terminating", "gone"}, There(o)'
               PROVE  o \in held /\ state'[o] = "terminating" /\ Excused(o)
  BY <1>x DEF OrphanInv
<1>2. There(o) /\ state'[o] = state[o] /\ state[c] \in {"terminating", "gone"}
  BY <1>1 DEF There
<1>3. QED
  BY <1>1, <1>2 DEF OrphanInv

LEMMA OrphanCreate == ASSUME Promise, OrphanInv, NEW n \in Object, Create(n) PROVE OrphanInv'
<1>1. /\ UNCHANGED <<options, held>> /\ state[n] = "absent" /\ state' = [state EXCEPT ![n] = "live"]
      /\ \E c \in Object : c.kind = "crd" /\ c.name = n.kind /\ state[c] = "live"
  BY DEF Create, script, options
<1>x. \A o \in Object : Excused(o) => Excused(o)'
  BY <1>1, ExcuseStays DEF Next, Cluster
<1>2. SUFFICES ASSUME NEW o \in Object, NEW c \in Object, c.kind = "crd", c.name = o.kind,
                      state'[c] \in {"terminating", "gone"}, There(o)'
               PROVE  o \in held /\ state'[o] = "terminating" /\ Excused(o)
  BY <1>1, <1>x DEF OrphanInv
<1>3. state[c] \in {"terminating", "gone"}
  BY <1>1, <1>2 DEF Promise, Typed, TypeOK
<1>4. o # n
  BY <1>1, <1>2, <1>3, Assumed
<1>5. state'[o] = state[o]
  BY <1>1, <1>4 DEF Promise, Typed, TypeOK
<1>6. QED
  BY <1>2, <1>3, <1>5 DEF OrphanInv, There

LEMMA OrphanStep == ASSUME Promise, TouchInv, OrphanInv, [Next]_vars PROVE OrphanInv'
<1>c. CASE UNCHANGED <<options, cluster>>
  BY <1>c, OrphanOther DEF cluster
<1>1. CASE Delete \/ Patch
  BY <1>1, OrphanDelete, OrphanPatch
<1>2. CASE ReadOption
  <2>1. pc = "options" /\ UNCHANGED state
    BY <1>2 DEF ReadOption, cluster
  <2>2. QED
    BY <2>1 DEF OrphanInv, TouchInv, Touched
<1>3. CASE Uninstalls
  <2>1. UNCHANGED <<options, held>>
    BY <1>3 DEF Uninstalls, UninstallManager, UninstallOperator, Uninstall, options
  <2>2. \A o \in Object : state'[o] = state[o] \/ (state'[o] = "gone" /\ o.kind # "crd")
    BY <1>3, UninstallState, Disjoint DEF Promise
  <2>3. QED
    BY <2>1, <2>2, OrphanOther
<1>4. CASE \E n \in Object : Create(n)
  BY <1>4, OrphanCreate
<1>5. CASE \E n \in Object : Finalize(n)
  <2>1. UNCHANGED <<options, held>>
    BY <1>5 DEF Finalize, script, options
  <2>2. \A o \in Object : state'[o] = state[o] \/ (state'[o] = "gone" /\ state[o] = "terminating")
    BY <1>5 DEF Finalize, Promise, Typed, TypeOK
  <2>3. QED
    BY <2>1, <2>2, OrphanOther
<1>6. CASE Quiet
  BY <1>6, <1>c DEF Quiet, NextResource, NextPlace, NextName, CheckOcp, HelmList, NextNamespace,
                    ListCrds, NextCrd, Report, options
<1>7. CASE Sweeps
  BY <1>7, <1>c DEF Sweeps, Subscription, Csv, Manager, Cron, Sweep, options
<1>8. CASE Start \/ Wait \/ Look \/ UNCHANGED vars
  BY <1>8, <1>c DEF Start, Wait, Look, options, cluster, vars
<1>9. QED
  BY <1>1, <1>2, <1>3, <1>4, <1>5, <1>6, <1>7, <1>8 DEF Next, Script, Quiet, Sweeps, Uninstalls, Cluster

LEMMA InitOrphan == ASSUME Init PROVE OrphanInv
BY DEF Init, OrphanInv

\* An instance whose CRD has gone was held by finalizers, and was not among what the
\* script removes before the CRDs, as a manager without -t, or came later, or had a call
\* for it fail or name others too: the CRDs come last, when all that was to be removed is
\* gone or has an excuse.
THEOREM CrdsComeLast == Spec => []OrphansExplained
<1>1. Init => Promise /\ TouchInv /\ OrphanInv
  BY InitPromise, InitTouch, InitOrphan
<1>2. Promise /\ TouchInv /\ OrphanInv /\ [Next]_vars => (Promise /\ TouchInv /\ OrphanInv)'
  BY PromiseStep, TouchStep, OrphanStep DEF Promise
<1>3. OrphanInv => OrphansExplained
  BY DEF OrphanInv, OrphansExplained, Excused
<1>4. QED
  BY <1>1, <1>2, <1>3, PTL DEF Spec

(***************************************************************************)
(* The script comes nearer to its end with every step.  That it takes a    *)
(* step whenever it can is fairness, and stays with TLC (ScriptEnds); that *)
(* there is no endless sequence of its steps is proved here: each of them  *)
(* lowers Rank in a well-founded order.                                    *)
(***************************************************************************)

\* What is left: parts of the script, arguments and resources, places and objects of the
\* loop in hand, steps for the namespace in hand, calls of the removal in hand.
PartsAt(w) ==
  IF w = "options" THEN 10 ELSE IF w = "resources" THEN 9 ELSE IF w = "ocp" THEN 8
  ELSE IF w = "subscription" THEN 7 ELSE IF w = "csv" THEN 6 ELSE IF w = "helm" THEN 5
  ELSE IF w \in Loop THEN 4 ELSE IF w = "crds" THEN 3 ELSE IF w = "crd" THEN 2
  ELSE IF w = "report" THEN 1 ELSE 0
StepsAt(w) ==
  IF w = "manager" THEN 4 ELSE IF w = "uninstall manager" THEN 3
  ELSE IF w = "uninstall operator" THEN 2 ELSE IF w = "cronjob" THEN 1 ELSE 0
PartsLeft == PartsAt(Where)
StepsLeft == StepsAt(Where)
CallsLeft ==
  CASE pc = "delete" -> 4 [] pc = "wait" -> 3 [] pc = "patch" -> 2 [] pc = "look" -> 1
    [] OTHER -> 0
Rank == <<PartsLeft, Len(args), Len(resources), Cardinality(places), Cardinality(batch),
          StepsLeft, CallsLeft>>

Ranks == [1 .. 7 -> Nat]
Order == LexProductOrdering(OpToRel(<, Nat), Nat, 7)
Nearer == <<Rank', Rank>> \in Order

LEMMA OrderEnds == IsWellFoundedOn(Order, Ranks)
BY NatLessThanWellFounded, WFLexProductOrdering, 7 \in Nat DEF Order, Ranks

\* A list of places names finitely many, since the cluster has finitely many objects.
FiniteInv == IsFiniteSet(places)

LEMMA FiniteImage ==
  ASSUME NEW S, IsFiniteSet(S), NEW f
  PROVE  IsFiniteSet({f[x] : x \in S})
<1>1. [x \in S |-> f[x]] \in Surjection(S, {f[x] : x \in S})
  BY DEF Surjection
<1>2. QED
  BY <1>1, FS_Surjection

LEMMA FiniteStep == ASSUME Typed, FiniteInv, [Next]_vars PROVE FiniteInv'
<1>1. CASE NextResource
  <2>1. CASE resources = <<>>
    BY <1>1, <2>1 DEF NextResource, FiniteInv
  <2>2. CASE resources # <<>>
    <3> DEFINE kind == Head(resources)
               f(S) == [o \in S |-> [kind |-> kind, ns |-> FirstColumn(o)]]
    <3>1. PICK heard \in SUBSET Present(kind) :
            places' = {[kind |-> kind, ns |-> FirstColumn(o)] : o \in heard}
      BY <1>1, <2>2 DEF NextResource
    <3>2. IsFiniteSet(heard)
      BY FiniteCluster, FS_Subset DEF Present
    <3>3. places' = {f(heard)[o] : o \in heard}
      BY <3>1
    <3>4. QED
      BY <3>2, <3>3, FiniteImage DEF FiniteInv
  <2>3. QED
    BY <2>1, <2>2
<1>2. CASE HelmList
  <2> DEFINE R == UNION {Present(k) : k \in Releases}
             f == [o \in R |-> o.ns]
  <2>1. places' \subseteq {o.ns : o \in R}
    BY <1>2 DEF HelmList
  <2>2. IsFiniteSet(R)
    <3>1. R \subseteq Object
      BY DEF Present
    <3>2. QED
      BY <3>1, FiniteCluster, FS_Subset
  <2>3. {o.ns : o \in R} = {f[o] : o \in R}
    OBVIOUS
  <2>4. IsFiniteSet({f[o] : o \in R})
    BY <2>2, FiniteImage
  <2>5. QED
    BY <2>1, <2>3, <2>4, FS_Subset DEF FiniteInv
<1>3. CASE NextPlace \/ NextNamespace
  <2>1. places' \subseteq places
    BY <1>3 DEF NextPlace, NextNamespace
  <2>2. QED
    BY <2>1, FS_Subset DEF FiniteInv
<1>4. CASE ReadOption \/ Start \/ Delete \/ Wait \/ Patch \/ Look \/ NextName \/ CheckOcp
  BY <1>4 DEF ReadOption, Start, Delete, Wait, Patch, Look, NextName, CheckOcp, loops, FiniteInv
<1>5. CASE Sweeps \/ Uninstalls
  BY <1>5 DEF Sweeps, Subscription, Csv, Manager, Cron, Sweep, Uninstalls, UninstallManager,
              UninstallOperator, Uninstall, loops, FiniteInv
<1>6. CASE ListCrds \/ NextCrd \/ Report
  BY <1>6 DEF ListCrds, NextCrd, Report, loops, FiniteInv
<1>7. CASE Cluster \/ UNCHANGED vars
  BY <1>7 DEF Cluster, Finalize, Create, script, loops, vars, FiniteInv
<1>8. QED
  BY <1>1, <1>2, <1>3, <1>4, <1>5, <1>6, <1>7 DEF Next, Script, Sweeps, Uninstalls

Measured == Typed /\ FiniteInv

Ranked ==
  /\ Rank \in Ranks
  /\ Rank[1] = PartsLeft /\ Rank[2] = Len(args) /\ Rank[3] = Len(resources)
  /\ Rank[4] = Cardinality(places) /\ Rank[5] = Cardinality(batch)
  /\ Rank[6] = StepsLeft /\ Rank[7] = CallsLeft

LEMMA RankTyped == Measured => Ranked
<1> SUFFICES ASSUME Measured PROVE Ranked
  OBVIOUS
<1>1. PartsLeft \in Nat /\ StepsLeft \in Nat /\ CallsLeft \in Nat
  BY DEF PartsLeft, StepsLeft, PartsAt, StepsAt, CallsLeft
<1>2. Len(args) \in Nat /\ Len(resources) \in Nat
  BY DEF Measured, Typed, FlowInv
<1>3. Cardinality(places) \in Nat /\ Cardinality(batch) \in Nat
  BY FiniteCluster, FS_Subset, FS_CardinalityType DEF Measured, FiniteInv, Typed, TypeOK
<1>4. QED
  BY <1>1, <1>2, <1>3 DEF Ranked, Rank, Ranks

LEMMA RankTypedNext == Measured' => Ranked'
BY RankTyped, PTL

\* Of two ranks, that one is lower which is lower where they first differ.
LEMMA Lower ==
  ASSUME Ranked, Ranked',
         NEW n \in 1 .. 7, Rank'[n] < Rank[n], \A m \in 1 .. 7 : m < n => Rank'[m] = Rank[m]
  PROVE  Nearer
<1>1. Rank \in Ranks /\ Rank' \in Ranks
  BY DEF Ranked
<1>2. <<Rank'[n], Rank[n]>> \in OpToRel(<, Nat)
  BY <1>1 DEF OpToRel, Ranks
<1>3. \A m \in 1 .. n - 1 : Rank'[m] = Rank[m]
  OBVIOUS
<1>4. QED
  BY <1>1, <1>2, <1>3 DEF Nearer, Order, LexProductOrdering, Ranks

\* The seven ways to come nearer.
SameLists == args' = args /\ resources' = resources

LEMMA PartNearer == ASSUME Measured, Measured', PartsLeft' < PartsLeft PROVE Nearer
<1>1. Ranked /\ Ranked' /\ Rank'[1] < Rank[1]
  BY RankTyped, RankTypedNext DEF Ranked
<1>2. QED
  BY <1>1, Lower, 1 \in 1 .. 7

LEMMA ArgumentNearer ==
  ASSUME Measured, Measured', PartsLeft' = PartsLeft, Len(args') < Len(args)
  PROVE  Nearer
<1>1. Ranked /\ Ranked' /\ Rank'[1] = Rank[1] /\ Rank'[2] < Rank[2]
  BY RankTyped, RankTypedNext DEF Ranked
<1>2. QED
  BY <1>1, Lower, 2 \in 1 .. 7

LEMMA ResourceNearer ==
  ASSUME Measured, Measured', PartsLeft' = PartsLeft, args' = args,
         Len(resources') < Len(resources)
  PROVE  Nearer
<1>1. Ranked /\ Ranked' /\ Rank'[1] = Rank[1] /\ Rank'[2] = Rank[2] /\ Rank'[3] < Rank[3]
  BY RankTyped, RankTypedNext DEF Ranked
<1>2. QED
  BY <1>1, Lower, 3 \in 1 .. 7

LEMMA Fewer ==
  ASSUME NEW S, IsFiniteSet(S), NEW x \in S
  PROVE  Cardinality(S \ {x}) < Cardinality(S)
<1>1. Cardinality(S) \in Nat /\ Cardinality(S \ {x}) = Cardinality(S) - 1
  BY FS_RemoveElement, FS_CardinalityType
<1>2. QED
  BY <1>1

LEMMA PlaceNearer ==
  ASSUME Measured, Measured', PartsLeft' = PartsLeft, SameLists,
         NEW p \in places, places' = places \ {p}
  PROVE  Nearer
<1>1. Cardinality(places') < Cardinality(places)
  BY Fewer DEF Measured, FiniteInv
<1>2. /\ Ranked /\ Ranked'
      /\ Rank'[1] = Rank[1] /\ Rank'[2] = Rank[2] /\ Rank'[3] = Rank[3] /\ Rank'[4] < Rank[4]
  BY <1>1, RankTyped, RankTypedNext DEF Ranked, SameLists
<1>3. QED
  BY <1>2, Lower, 4 \in 1 .. 7

LEMMA ObjectNearer ==
  ASSUME Measured, Measured', PartsLeft' = PartsLeft, SameLists, places' = places,
         NEW o \in batch, batch' = batch \ {o}
  PROVE  Nearer
<1>1. Cardinality(batch') < Cardinality(batch)
  BY Fewer, FiniteCluster, FS_Subset DEF Measured, Typed, TypeOK
<1>2. /\ Ranked /\ Ranked'
      /\ Rank'[1] = Rank[1] /\ Rank'[2] = Rank[2] /\ Rank'[3] = Rank[3] /\ Rank'[4] = Rank[4]
      /\ Rank'[5] < Rank[5]
  BY <1>1, RankTyped, RankTypedNext DEF Ranked, SameLists
<1>3. QED
  BY <1>2, Lower, 5 \in 1 .. 7

LEMMA StepNearer ==
  ASSUME Measured, Measured', PartsLeft' = PartsLeft, SameLists, UNCHANGED <<places, batch>>,
         StepsLeft' < StepsLeft
  PROVE  Nearer
<1>1. /\ Ranked /\ Ranked'
      /\ Rank'[1] = Rank[1] /\ Rank'[2] = Rank[2] /\ Rank'[3] = Rank[3] /\ Rank'[4] = Rank[4]
      /\ Rank'[5] = Rank[5] /\ Rank'[6] < Rank[6]
  BY RankTyped, RankTypedNext DEF Ranked, SameLists
<1>2. QED
  BY <1>1, Lower, 6 \in 1 .. 7

LEMMA CallNearer ==
  ASSUME Measured, Measured', Where' = Where, SameLists, UNCHANGED <<places, batch>>,
         CallsLeft' < CallsLeft
  PROVE  Nearer
<1>1. PartsLeft' = PartsLeft /\ StepsLeft' = StepsLeft
  BY DEF PartsLeft, StepsLeft
<1>2. /\ Ranked /\ Ranked'
      /\ Rank'[1] = Rank[1] /\ Rank'[2] = Rank[2] /\ Rank'[3] = Rank[3] /\ Rank'[4] = Rank[4]
      /\ Rank'[5] = Rank[5] /\ Rank'[6] = Rank[6] /\ Rank'[7] < Rank[7]
  BY <1>1, RankTyped, RankTypedNext DEF Ranked, SameLists
<1>3. QED
  BY <1>2, Lower, 7 \in 1 .. 7

LEMMA PartsTable ==
  /\ PartsAt("options") = 10 /\ PartsAt("resources") = 9 /\ PartsAt("ocp") = 8
  /\ PartsAt("subscription") = 7 /\ PartsAt("csv") = 6 /\ PartsAt("helm") = 5
  /\ \A w \in Loop : PartsAt(w) = 4
  /\ PartsAt("crds") = 3 /\ PartsAt("crd") = 2 /\ PartsAt("report") = 1 /\ PartsAt("done") = 0
BY DEF PartsAt, Loop

LEMMA StepsTable ==
  /\ StepsAt("manager") = 4 /\ StepsAt("uninstall manager") = 3
  /\ StepsAt("uninstall operator") = 2 /\ StepsAt("cronjob") = 1 /\ StepsAt("namespaces") = 0
BY DEF StepsAt

\* An option read is an argument less; one that is not known is the end.
LEMMA ReadOptionNearer == ASSUME Measured, Measured', ReadOption PROVE Nearer
<1>1. pc = "options" /\ Where = "options" /\ PartsLeft = 10
  BY PartsTable DEF ReadOption, Where, Removal, PartsLeft
<1>2. CASE args[1] \notin {"-n", "-c", "-t", "-r"}
  <2>1. pc' = "done"
    BY <1>2 DEF ReadOption, Finish
  <2>2. PartsLeft' = 0
    BY <2>1, PartsTable DEF PartsLeft, Where, Removal
  <2>3. QED
    BY <1>1, <2>2, PartNearer
<1>3. CASE args[1] \in {"-n", "-c", "-t", "-r"}
  <2>1. args \in Seq(Argument) /\ Len(args) \in Nat /\ Len(args) >= 1
    BY DEF ReadOption, Measured, Typed, FlowInv
  <2>2. Consumed \in {1, 2} /\ Consumed <= Len(args)
    BY <2>1 DEF Consumed
  <2>3. args' = SubSeq(args, Consumed + 1, Len(args)) /\ pc' = pc
    BY <1>3 DEF ReadOption
  <2>4. Len(args') = Len(args) - Consumed
    BY <2>1, <2>2, <2>3
  <2>5. Len(args') < Len(args)
    BY <2>1, <2>2, <2>4
  <2>6. PartsLeft' = PartsLeft
    BY <1>1, <2>3 DEF PartsLeft, Where, Removal
  <2>7. QED
    BY <2>5, <2>6, ArgumentNearer
<1>4. QED
  BY <1>2, <1>3

\* From one part to a later one.
LEMMA PartsDone ==
  ASSUME pc' \notin Removal,
         \/ pc' \in {"resources", "done"} /\ Where = "options"
         \/ pc' \in {"ocp", "crds", "report"} /\ Where = "resources"
         \/ pc' \in {"subscription", "helm"} /\ Where = "ocp"
         \/ pc' = "namespaces" /\ Where = "helm"
         \/ pc' \in {"crds", "report"} /\ Where = "namespaces"
         \/ pc' = "crd" /\ Where = "crds"
         \/ pc' = "report" /\ Where = "crd"
         \/ pc' = "done" /\ Where = "report"
  PROVE  PartsLeft' < PartsLeft
<1>1. Where' = pc'
  BY DEF Where
<1>2. PartsLeft' = PartsAt(pc') /\ PartsLeft = PartsAt(Where)
  BY <1>1 DEF PartsLeft
<1>3. PartsAt("namespaces") = 4
  BY PartsTable DEF Loop
<1>4. QED
  BY <1>2, <1>3, PartsTable

LEMMA Standing == pc \notin Removal => Where = pc
BY DEF Where

\* A part that is left for the next one.
LEMMA PartsNearer ==
  ASSUME Measured, Measured', Start \/ CheckOcp \/ HelmList \/ ListCrds \/ Report
  PROVE  Nearer
<1>1. CASE Start
  BY <1>1, Standing, PartsDone, PartNearer DEF Start, Finish, After, Removal
<1>2. CASE CheckOcp
  BY <1>2, Standing, PartsDone, PartNearer DEF CheckOcp, Removal
<1>3. CASE HelmList
  BY <1>3, Standing, PartsDone, PartNearer DEF HelmList, Removal
<1>4. CASE ListCrds
  BY <1>4, Standing, PartsDone, PartNearer DEF ListCrds, Removal
<1>5. CASE Report
  BY <1>5, Standing, PartsDone, PartNearer DEF Report, Finish, Removal
<1>6. QED
  BY <1>1, <1>2, <1>3, <1>4, <1>5

\* A removal is four calls at most, each made once.
LEMMA CallsNearer ==
  ASSUME Measured, Measured', Delete \/ Wait \/ Patch \/ Look
  PROVE  Nearer
<1>1. back \in Backs /\ back \notin Removal
  BY DEF Measured, Typed, FlowInv, Delete, Wait, Patch, Look, Backs, Removal
<1>2. SameLists /\ UNCHANGED <<places, batch, back>>
  BY DEF Delete, Wait, Patch, Look, SameLists, options, loops
<1>3. Where = back /\ Where' = back
  BY <1>1, <1>2 DEF Delete, Wait, Patch, Look, AfterLook, Where, Removal
<1>4. CallsLeft' < CallsLeft
  <2>1. CASE Delete
    BY <2>1 DEF Delete, CallsLeft
  <2>2. CASE Wait
    BY <1>1, <2>2 DEF Wait, CallsLeft, Removal
  <2>3. CASE Patch
    BY <2>3 DEF Patch, CallsLeft
  <2>4. CASE Look
    BY <1>1, <2>4 DEF Look, AfterLook, CallsLeft, Removal
  <2>5. QED
    BY <2>1, <2>2, <2>3, <2>4
<1>5. QED
  BY <1>2, <1>3, <1>4, CallNearer

\* The loops of delete_tvk_res: over a list, over the places of its head, over names.
LEMMA LoopsNearer ==
  ASSUME Measured, Measured', NextResource \/ NextPlace \/ NextName
  PROVE  Nearer
<1>1. pc = "resources" /\ Where = "resources"
  BY DEF NextResource, NextPlace, NextName, Where, Removal
<1>2. CASE NextResource /\ resources = <<>>
  BY <1>1, <1>2, PartsDone, PartNearer DEF NextResource, After, Removal
<1>3. CASE NextResource /\ resources # <<>>
  <2>1. pc' = "resources" /\ args' = args /\ resources' = Tail(resources)
    BY <1>3 DEF NextResource, options
  <2>2. Len(resources') < Len(resources)
    BY <1>3, <2>1 DEF Measured, Typed, FlowInv
  <2>3. PartsLeft' = PartsLeft
    BY <1>1, <2>1 DEF PartsLeft, Where, Removal
  <2>4. QED
    BY <2>1, <2>2, <2>3, ResourceNearer
<1>4. CASE NextPlace
  <2>1. PICK p \in places : places' = places \ {p}
    BY <1>4 DEF NextPlace
  <2>2. SameLists /\ pc' = "resources"
    BY <1>1, <1>4 DEF NextPlace, SameLists, options
  <2>3. PartsLeft' = PartsLeft
    BY <1>1, <2>2 DEF PartsLeft, Where, Removal
  <2>4. QED
    BY <2>1, <2>2, <2>3, PlaceNearer
<1>5. CASE NextName
  <2>1. PICK o \in batch : batch' = batch \ {o}
    BY <1>5 DEF NextName
  <2>2. SameLists /\ places' = places /\ Where' = "resources"
    BY <1>5 DEF NextName, Remove, SameLists, options, Where, Removal
  <2>3. PartsLeft' = PartsLeft
    BY <1>1, <2>2 DEF PartsLeft
  <2>4. QED
    BY <2>1, <2>2, <2>3, ObjectNearer
<1>6. QED
  BY <1>2, <1>3, <1>4, <1>5

LEMMA SweepGoes ==
  ASSUME NEW here, NEW kind, NEW ns, NEW next, next \notin Removal, Sweep(here, kind, ns, next)
  PROVE  pc = here /\ Where' = next /\ SameLists /\ UNCHANGED <<places, batch>>
BY DEF Sweep, Remove, Where, Removal, SameLists, options, loops

\* delete_tvk_op: what is listed is swept once, and each namespace is visited once.
LEMMA OperatorNearer ==
  ASSUME Measured, Measured', Sweeps \/ Uninstalls \/ NextNamespace
  PROVE  Nearer
<1>1. CASE Subscription \/ Csv
  <2>1. \/ Where = "subscription" /\ Where' = "csv"
        \/ Where = "csv" /\ Where' = "helm"
    BY <1>1, SweepGoes DEF Subscription, Csv, Where, Removal
  <2>2. PartsLeft' < PartsLeft
    BY <2>1, PartsTable DEF PartsLeft
  <2>3. QED
    BY <2>2, PartNearer
<1>2. CASE Manager \/ Cron
  <2>1. /\ \/ Where = "manager" /\ Where' = "uninstall manager"
           \/ Where = "cronjob" /\ Where' = "namespaces"
        /\ SameLists /\ UNCHANGED <<places, batch>>
    <3>1. CASE Manager
      BY <3>1, Standing DEF Manager, Sweep, Remove, Where, Removal, SameLists, options, loops
    <3>2. CASE Cron
      BY <3>2, Standing DEF Cron, Sweep, Remove, Where, Removal, SameLists, options, loops
    <3>3. QED
      BY <1>2, <3>1, <3>2
  <2>2. Where \in Loop /\ Where' \in Loop
    BY <2>1 DEF Loop
  <2>3. PartsLeft' = PartsLeft
    BY <2>2, PartsTable DEF PartsLeft
  <2>4. StepsLeft' < StepsLeft
    <3>1. CASE Where = "manager" /\ Where' = "uninstall manager"
      <4>1. StepsLeft = 4 /\ StepsLeft' = 3
        BY <3>1, StepsTable, Zenon DEF StepsLeft
      <4>2. QED
        BY <4>1
    <3>2. CASE Where = "cronjob" /\ Where' = "namespaces"
      <4>1. StepsLeft = 1 /\ StepsLeft' = 0
        BY <3>2, StepsTable, Zenon DEF StepsLeft
      <4>2. QED
        BY <4>1
    <3>3. QED
      BY <2>1, <3>1, <3>2
  <2>5. QED
    BY <2>1, <2>3, <2>4, StepNearer
<1>3. CASE Uninstalls
  <2>1. /\ \/ Where = "uninstall manager" /\ Where' = "uninstall operator"
           \/ Where = "uninstall operator" /\ Where' = "cronjob"
        /\ SameLists /\ UNCHANGED <<places, batch>>
    BY <1>3 DEF Uninstalls, UninstallManager, UninstallOperator, Uninstall, Where, Removal,
                SameLists, options, loops
  <2>2. Where \in Loop /\ Where' \in Loop
    BY <2>1 DEF Loop
  <2>3. PartsLeft' = PartsLeft
    BY <2>2, PartsTable DEF PartsLeft
  <2>4. StepsLeft' < StepsLeft
    <3>1. CASE Where = "uninstall manager" /\ Where' = "uninstall operator"
      <4>1. StepsLeft = 3 /\ StepsLeft' = 2
        BY <3>1, StepsTable, Zenon DEF StepsLeft
      <4>2. QED
        BY <4>1
    <3>2. CASE Where = "uninstall operator" /\ Where' = "cronjob"
      <4>1. StepsLeft = 2 /\ StepsLeft' = 1
        BY <3>2, StepsTable, Zenon DEF StepsLeft
      <4>2. QED
        BY <4>1
    <3>3. QED
      BY <2>1, <3>1, <3>2
  <2>5. QED
    BY <2>1, <2>3, <2>4, StepNearer
<1>4. CASE NextNamespace
  <2>1. pc = "namespaces" /\ Where = "namespaces" /\ SameLists
    BY <1>4 DEF NextNamespace, Where, Removal, SameLists, options
  <2>2. CASE places = {}
    BY <1>4, <2>1, <2>2, PartsDone, PartNearer DEF NextNamespace, After, Removal
  <2>3. CASE places # {}
    <3>1. PICK p \in places : places' = places \ {p}
      BY <1>4, <2>3 DEF NextNamespace
    <3>2. pc' = "manager"
      BY <1>4, <2>3 DEF NextNamespace
    <3>3. PartsLeft' = PartsLeft
      BY <2>1, <3>2, PartsTable DEF PartsLeft, Where, Removal, Loop
    <3>4. QED
      BY <2>1, <3>1, <3>3, PlaceNearer
  <2>4. QED
    BY <2>2, <2>3
<1>5. QED
  BY <1>1, <1>2, <1>3, <1>4 DEF Sweeps

LEMMA CrdNearer == ASSUME Measured, Measured', NextCrd PROVE Nearer
<1>1. pc = "crd" /\ Where = "crd" /\ SameLists /\ places' = places
  BY DEF NextCrd, Where, Removal, SameLists, options
<1>2. CASE batch = {}
  BY <1>1, <1>2, PartsDone, PartNearer DEF NextCrd, After, Removal
<1>3. CASE batch # {}
  <2>1. PICK c \in batch : batch' = batch \ {c}
    BY <1>3 DEF NextCrd
  <2>2. Where' = "crd"
    BY <1>3 DEF NextCrd, Remove, Where, Removal
  <2>3. PartsLeft' = PartsLeft
    BY <1>1, <2>2 DEF PartsLeft
  <2>4. QED
    BY <1>1, <2>1, <2>3, ObjectNearer
<1>4. QED
  BY <1>2, <1>3

LEMMA ScriptNearer == ASSUME Measured, Measured', Script PROVE Nearer
BY ReadOptionNearer, PartsNearer, CallsNearer, LoopsNearer, OperatorNearer, CrdNearer
DEF Script, Sweeps, Uninstalls

LEMMA ClusterKeeps == ASSUME Cluster \/ UNCHANGED vars PROVE UNCHANGED Rank
BY DEF Cluster, Finalize, Create, script, options, loops, vars, Rank, PartsLeft, StepsLeft,
       CallsLeft, Where

\* The script does not go on for ever, even when nothing that it deletes ever goes, and
\* whatever appears meanwhile: each of its steps lowers its rank, the cluster does not
\* touch it, and ranks cannot be lowered endlessly.
THEOREM ScriptComesNearer ==
  /\ IsWellFoundedOn(Order, Ranks)
  /\ Spec => [](Rank \in Ranks) /\ [][(Script => Nearer) /\ (Cluster => UNCHANGED Rank)]_vars
<1>1. Init => Measured
  BY InitTyped, FS_EmptySet DEF Init, Measured, FiniteInv
<1>2. Measured /\ [Next]_vars => Measured'
  BY StepTyped, FiniteStep DEF Measured
<1>3. Measured => Rank \in Ranks
  BY RankTyped DEF Ranked
<1>4. Measured /\ Measured' /\ [Next]_vars =>
        [(Script => Nearer) /\ (Cluster => UNCHANGED Rank)]_vars
  BY ScriptNearer, ClusterKeeps
<1>5. Spec => [](Rank \in Ranks) /\ [][(Script => Nearer) /\ (Cluster => UNCHANGED Rank)]_vars
  BY <1>1, <1>2, <1>3, <1>4, PTL DEF Spec
<1>6. QED
  BY <1>5, OrderEnds
=============================================================================
