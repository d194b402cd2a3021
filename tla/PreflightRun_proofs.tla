-------------------------- MODULE PreflightRun_proofs --------------------------
(***************************************************************************)
(* Proofs about `preflight run`, for any limit on waits and any number of  *)
(* faults.                                                                 *)
(***************************************************************************)
EXTENDS PreflightRun, FiniteSetTheorems, WellFoundedInduction, TLAPS

USE RunAssumption

(***************************************************************************)
(* The plan.                                                               *)
(***************************************************************************)

Options == [inCluster : BOOLEAN, cleanupOnFail : BOOLEAN, scope : {"cluster", "namespace"}]

LEMMA StagesFacts ==
  /\ Len(Stages) = 12
  /\ DOMAIN Stages = 1 .. 12
  /\ \A i, j \in 1 .. 12 : Stages[i] = Stages[j] => i = j
  /\ \A i \in 1 .. 12 : Stages[i] \in StageNames
BY DEF Stages, StageNames

LEMMA PlanFacts ==
  ASSUME NEW stage
  PROVE  /\ Len(Plan(stage)) \in 0 .. 8
         /\ DOMAIN Plan(stage) = 1 .. Len(Plan(stage))
         /\ \A i \in DOMAIN Plan(stage) : Plan(stage)[i] \in Resource
         /\ \A i \in DOMAIN Plan(stage) : Plan(stage)[i] \in Caps => stage = "capability"
         /\ Plan(stage) = <<>> => DOMAIN Plan(stage) = {}
         /\ Plan(stage) # <<>> => 1 \in DOMAIN Plan(stage)
<1>1. CASE stage = "capability"
  BY <1>1 DEF Plan, Resource, Caps
<1>2. CASE stage = "dns"
  BY <1>2 DEF Plan, Resource, Caps
<1>3. CASE stage = "volume" /\ opts.scope = "cluster"
  BY <1>3 DEF Plan, Resource, Caps
<1>4. CASE stage = "volume" /\ opts.scope # "cluster"
  BY <1>4 DEF Plan, Resource, Caps
<1>5. CASE stage \notin {"capability", "dns", "volume"}
  BY <1>5 DEF Plan
<1>6. QED
  BY <1>1, <1>2, <1>3, <1>4, <1>5

LEMMA CapabilityPlan ==
  /\ Len(Plan("capability")) = 3
  /\ \A i \in 1 .. 3 : Plan("capability")[i] \in Caps
BY DEF Plan, Caps

\* All of a run but the clone's content is reached by a cleanup of its
\* namespace, its capability pods only by one that does not go by UID.
LEMMA ReachFacts ==
  ASSUME opts \in Options, NEW byUid \in BOOLEAN,
         NEW r \in Resource, r # "cloneContent", byUid => r \notin Caps
  PROVE  r \in Reach("install", byUid)
<1>1. "ns" \in Resource /\ KindOf("ns") = "Namespace" /\ RunLabel("ns") = "uid"
  BY DEF Resource, KindOf, RunLabel, Caps
<1>2. byUid => RunLabel(r) = "uid"
  BY DEF RunLabel
<1>3. NsOf(r) = "backup" \/ NsOf(r) = "install" \/ r = "ns"
  BY DEF NsOf
<1>4. CASE NsOf(r) = "backup"
  BY <1>1, <1>4 DEF Reach
<1>5. CASE r = "ns"
  BY <1>1, <1>5 DEF Reach
<1>6. CASE NsOf(r) = "install" /\ r # "ns"
  <2>1. KindOf(r) \in {"VolumeSnapshot", "PersistentVolumeClaim", "Pod"}
    BY <1>6 DEF KindOf, Resource
  <2>2. QED
    BY <1>2, <1>6, <2>1 DEF Reach
<1>7. QED
  BY <1>3, <1>4, <1>5, <1>6

(***************************************************************************)
(* Where a step leaves the process: position, verdict and history, apart   *)
(* from the objects.                                                       *)
(***************************************************************************)

PlaceOK ==
  /\ pc \in {"check", "create", "poll", "exec", "await", "delete", "cleanup", "done"}
  /\ si \in DOMAIN Stages
  /\ ii \in 1 .. 8
  /\ polls \in 0 .. RetrySteps - 1
  /\ status \in BOOLEAN
  /\ storageOk \in BOOLEAN
  /\ exit \in {"none", "ok", "failed", "killed"}
  /\ passed \subseteq StageNames

ProcInv == opts \in Options /\ PlaceOK /\ ExitInv /\ StatusInv

AtStage == pc \notin {"cleanup", "done"}

LEMMA OverFacts ==
  ASSUME si \in DOMAIN Stages, AtStage
  PROVE  /\ Stage \in StageNames
         /\ Stage \notin Over
         /\ Over = {Stages[i] : i \in {j \in 1 .. 12 : j < si}}
         /\ si = Len(Stages) => Over \cup {Stage} = StageNames
BY StagesFacts DEF AtStage, Stage, Over, StageNames

\* The end of a stage whose check now counts as passed or not.
LEMMA NextStageInv ==
  ASSUME ProcInv, AtStage, opts' = opts, NEW v \in BOOLEAN, NextStage(v),
         status' = v, storageOk' \in BOOLEAN, ~storageOk' => ~v,
         passed' \subseteq passed \cup {Stage},
         v <=> Demanded \cap (Over \cup {Stage}) \subseteq passed'
  PROVE  ProcInv' /\ (pc' # "done" => Over' = Over \cup {Stage}) /\ ~InPlan'
<1> USE DEF ProcInv
<1>1. si \in 1 .. 12 /\ Len(Stages) = 12 /\ exit = "none"
  BY StagesFacts DEF PlaceOK, ExitInv, AtStage
<1>2. PlaceOK' /\ opts' \in Options /\ ~InPlan'
  BY <1>1, StagesFacts, OverFacts DEF NextStage, PlaceOK, InPlan
<1>3. ExitInv'
  BY <1>1, StagesFacts DEF NextStage, ExitInv, InPlan
<1>4. Demanded' = Demanded
  BY DEF Demanded
<1>5. CASE si < 12
  <2>1. pc' = "check" /\ si' = si + 1 /\ exit' = "none"
    BY <1>1, <1>5 DEF NextStage
  <2>2. Over' = Over \cup {Stage}
    BY <1>1, <2>1, OverFacts, StagesFacts DEF Over, Stage, PlaceOK
  <2>3. QED
    BY <1>2, <1>3, <1>4, <2>1, <2>2 DEF StatusInv, VerdictIsEarned, PlaceOK, AtStage
<1>6. CASE si = 12
  <2>1. si' = 12 /\ Over \cup {Stage} = StageNames
    BY <1>1, <1>6, OverFacts DEF NextStage, PlaceOK
  <2>2. Demanded \subseteq StageNames
    BY DEF Demanded
  <2>3. CASE pc' = "cleanup"
    <3>1. exit' = "none"
      BY <1>1, <1>6, <2>3 DEF NextStage
    <3>2. Over' = StageNames
      BY <2>1, <2>3, StagesFacts DEF Over, StageNames
    <3>3. QED
      BY <1>2, <1>3, <1>4, <2>1, <2>3, <3>1, <3>2
      DEF StatusInv, VerdictIsEarned, PlaceOK, AtStage
  <2>4. CASE pc' = "done"
    <3>1. exit' = "failed" /\ ~v
      BY <1>1, <1>6, <2>4 DEF NextStage
    <3>2. QED
      BY <1>2, <1>3, <1>4, <2>1, <2>2, <2>4, <3>1
      DEF StatusInv, VerdictIsEarned
  <2>5. QED
    BY <1>1, <1>6, <2>3, <2>4 DEF NextStage
<1>7. QED
  BY <1>1, <1>5, <1>6

LEMMA FailsInv ==
  ASSUME ProcInv, AtStage, opts' = opts, ~Skipped(Stage), Fails
  PROVE  ProcInv' /\ (pc' # "done" => Over' = Over \cup {Stage}) /\ ~InPlan' /\ passed' = passed
<1>1. Stage \in Demanded
  BY OverFacts DEF Demanded, Skipped, ProcInv, PlaceOK
<1>2. Stage \notin passed
  BY OverFacts DEF ProcInv, StatusInv, AtStage, PlaceOK
<1>3. storageOk' \in BOOLEAN
  BY DEF Fails, ProcInv, PlaceOK
<1>4. QED
  BY <1>1, <1>2, <1>3, NextStageInv DEF Fails

LEMMA SucceedsInv ==
  ASSUME ProcInv, AtStage, opts' = opts, Succeeds
  PROVE  ProcInv' /\ (pc' # "done" => Over' = Over \cup {Stage}) /\ ~InPlan'
         /\ passed' = passed \cup {Stage}
<1>1. status <=> Demanded \cap Over \subseteq passed
  BY DEF ProcInv, StatusInv, AtStage
<1>2. Stage \notin Over
  BY OverFacts DEF ProcInv, PlaceOK
<1>3. status <=> Demanded \cap (Over \cup {Stage}) \subseteq passed \cup {Stage}
  BY <1>1, <1>2
<1>4. status \in BOOLEAN /\ storageOk \in BOOLEAN /\ (~storageOk => ~status)
  BY DEF ProcInv, PlaceOK, StatusInv
<1>5. QED
  BY <1>3, <1>4, NextStageInv DEF Succeeds

LEMMA SkipInv ==
  ASSUME ProcInv, SkipStage
  PROVE  ProcInv' /\ (pc' # "done" => Over' = Over \cup {Stage}) /\ ~InPlan' /\ passed' = passed
<1>1. AtStage /\ opts' = opts /\ passed' = passed /\ storageOk' = storageOk /\ status' = status
  BY DEF SkipStage, AtStage, history
<1>2. status <=> Demanded \cap Over \subseteq passed
  BY <1>1 DEF ProcInv, StatusInv, AtStage
<1>3. status \in BOOLEAN /\ storageOk \in BOOLEAN /\ (~storageOk => ~status)
  BY DEF ProcInv, PlaceOK, StatusInv
<1>4. Stage \notin Demanded \/ ~status
  BY <1>3 DEF SkipStage, Skipped, Demanded
<1>5. status <=> Demanded \cap (Over \cup {Stage}) \subseteq passed
  BY <1>2, <1>4
<1>6. QED
  BY <1>1, <1>3, <1>5, NextStageInv DEF SkipStage

\* The next call of the same check.
LEMMA StayInv ==
  ASSUME ProcInv, AtStage, ~Skipped(Stage), opts' = opts, si' = si,
         UNCHANGED <<status, storageOk, exit, passed>>,
         pc' \in {"create", "poll", "exec", "await", "delete"},
         ii' \in DOMAIN Plan(Stage), polls' \in 0 .. RetrySteps - 1
  PROVE  ProcInv' /\ Over' = Over /\ InPlan'
<1>1. Stage' = Stage /\ Plan(Stage)' = Plan(Stage)
  BY DEF Stage, Plan
<1>2. Over' = Over /\ Demanded' = Demanded /\ InPlan'
  BY DEF Over, Demanded, AtStage, InPlan
<1>3. ii' \in 1 .. 8
  BY PlanFacts
<1>4. PlaceOK' /\ opts' \in Options
  BY <1>3 DEF PlaceOK, ProcInv
<1>5. ExitInv'
  BY <1>1, <1>2 DEF ExitInv, ProcInv, AtStage, Skipped, InPlan
<1>6. StatusInv'
  BY <1>2 DEF StatusInv, VerdictIsEarned, ProcInv, ExitInv, AtStage
<1>7. QED
  BY <1>2, <1>4, <1>5, <1>6 DEF ProcInv

\* What may follow a call inside a check.
Goes ==
  /\ ProcInv'
  /\ \/ Over' = Over /\ InPlan' /\ passed' = passed
     \/ /\ ~InPlan'
        /\ pc' # "done" => Over' = Over \cup {Stage}
        /\ passed' \subseteq passed \cup {Stage}

LEMMA InPlanFacts ==
  ASSUME ProcInv, InPlan
  PROVE  /\ AtStage
         /\ ~Skipped(Stage)
         /\ ii \in DOMAIN Plan(Stage)
         /\ Item \in Resource
         /\ Item \in Caps => Stage = "capability"
         /\ Stage = "capability" => Item \in Caps /\ "capability" \notin Over
         /\ Stage # "capability" => "capability" \in Over
         /\ "capability" \notin Over => "capability" \notin passed
<1>1. AtStage /\ ~Skipped(Stage) /\ ii \in DOMAIN Plan(Stage)
  BY DEF ProcInv, ExitInv, InPlan, AtStage
<1>2. Item \in Resource /\ (Item \in Caps => Stage = "capability")
  BY <1>1, PlanFacts DEF Item
<1>3. Stage = "capability" => Item \in Caps
  BY <1>1, CapabilityPlan, PlanFacts DEF Item
<1>4. Stage = "capability" => "capability" \notin Over
  BY <1>1, OverFacts DEF ProcInv, PlaceOK
<1>5. Stage # "capability" => "capability" \in Over
  <2>1. Stage \in {"capability", "dns", "volume"}
    BY <1>1 DEF Plan
  <2>2. Stage # "capability" => si \in 9 .. 12
    BY <2>1, StagesFacts DEF Stage, Stages, ProcInv, PlaceOK
  <2>3. Stages[8] = "capability"
    BY DEF Stages
  <2>4. QED
    BY <1>1, <2>2, <2>3, OverFacts DEF ProcInv, PlaceOK
<1>6. "capability" \notin Over => "capability" \notin passed
  BY <1>1 DEF ProcInv, StatusInv, AtStage
<1>7. QED
  BY <1>1, <1>2, <1>3, <1>4, <1>5, <1>6

LEMMA NextItemGoes ==
  ASSUME ProcInv, InPlan, opts' = opts, NextItem
  PROVE  Goes /\ (InPlan' => pc' = "create") /\ (~InPlan' => passed' = passed \cup {Stage})
<1>1. CASE ii < Len(Plan(Stage))
  <2>1. ii' \in DOMAIN Plan(Stage) /\ si' = si /\ pc' = "create" /\ polls' = 0
    BY <1>1, InPlanFacts, PlanFacts DEF NextItem
  <2>2. 0 \in 0 .. RetrySteps - 1
    OBVIOUS
  <2>3. UNCHANGED <<status, storageOk, exit, passed>>
    BY <1>1 DEF NextItem
  <2>4. QED
    BY <2>1, <2>2, <2>3, InPlanFacts, StayInv DEF Goes
<1>2. CASE ~(ii < Len(Plan(Stage)))
  BY <1>2, InPlanFacts, SucceedsInv DEF NextItem, Goes
<1>3. QED
  BY <1>1, <1>2

LEMMA FailsGoes ==
  ASSUME ProcInv, InPlan, opts' = opts, Fails
  PROVE  Goes /\ ~InPlan' /\ passed' = passed
BY InPlanFacts, FailsInv DEF Goes

\* Staying with the same item.
LEMMA SameItemGoes ==
  ASSUME ProcInv, InPlan, opts' = opts, UNCHANGED <<place, status, storageOk, exit, passed>>,
         pc' \in {"create", "poll", "exec", "await", "delete"}, polls' \in 0 .. RetrySteps - 1
  PROVE  Goes /\ InPlan' /\ Item' = Item
<1>1. ii' \in DOMAIN Plan(Stage) /\ si' = si /\ ii' = ii
  BY InPlanFacts DEF place
<1>2. Item' = Item
  BY <1>1 DEF Item, Stage, Plan
<1>3. QED
  BY <1>1, <1>2, InPlanFacts, StayInv DEF Goes

(***************************************************************************)
(* The objects.                                                            *)
(***************************************************************************)

WorldOK ==
  /\ present \subseteq Resource
  /\ late \subseteq Resource
  /\ inflight \subseteq Resource
  /\ undeleted \subseteq Resource
  /\ faults \in 0 .. MaxFaults
  /\ swept \subseteq {"uid", "all"}

Full == ProcInv /\ WorldOK /\ SweepInv /\ CapsInv

\* Nothing is swept while the run is under way.
LEMMA NotSwept ==
  ASSUME Full, pc # "done", swept' = swept
  PROVE  SweepInv'
BY DEF Full, SweepInv, LeftBehind

\* A call of another check, which leaves no more capability pods standing.
LEMMA CapsElsewhere ==
  ASSUME Full, InPlan, Goes, Stage # "capability", Standing' \subseteq Standing
  PROVE  CapsInv'
<1>1. "capability" \in Over
  BY InPlanFacts DEF Full
<1>2. pc' # "done" => "capability" \in Over'
  BY <1>1 DEF Goes
<1>3. "capability" \in passed' => "capability" \in passed
  BY DEF Goes
<1>4. \E r \in Resource : Standing' \subseteq {r}
  BY DEF Full, CapsInv
<1>5. "capability" \in passed => Standing = {}
  BY DEF Full, CapsInv
<1>6. QED
  BY <1>2, <1>3, <1>4, <1>5 DEF CapsInv

\* A call of the capability check that goes on with it ...
LEMMA CapsOn ==
  ASSUME Full, InPlan, Goes, Stage = "capability", InPlan',
         Standing' \subseteq IF pc' \in {"poll", "delete"} THEN {Item'} ELSE {},
         inflight' \cap Caps = {}
  PROVE  CapsInv'
<1>1. ProcInv' /\ passed' = passed
  BY DEF Goes
<1>2. "capability" \notin passed /\ "cap0" \in Resource
  BY InPlanFacts DEF Full, Resource, Caps
<1>3. Item' \in Resource
  <2>1. ii' \in DOMAIN Plan(Stage)'
    BY <1>1 DEF ProcInv, ExitInv
  <2>2. ASSUME NEW st, NEW i \in DOMAIN Plan(st)'
        PROVE  Plan(st)'[i] \in Resource
    BY <2>2 DEF Plan, Resource, Caps
  <2>3. QED
    BY <2>1, <2>2 DEF Item
<1>4. \E r \in Resource : Standing' \subseteq {r}
  BY <1>2, <1>3
<1>5. QED
  BY <1>1, <1>2, <1>4 DEF CapsInv

\* ... and one that ends it.
LEMMA CapsEnd ==
  ASSUME Full, InPlan, Goes, Stage = "capability", ~InPlan',
         Standing' \subseteq {Item}, passed' = passed \/ Standing' = {}
  PROVE  CapsInv'
<1>1. "capability" \notin passed /\ Item \in Resource
  BY InPlanFacts DEF Full
<1>2. pc' # "done" => "capability" \in Over'
  BY DEF Goes
<1>3. QED
  BY <1>1, <1>2 DEF CapsInv

\* What stands while a capability case is under way.
LEMMA CapsNow ==
  ASSUME Full, InPlan, Stage = "capability"
  PROVE  /\ Item \in Caps
         /\ Standing \subseteq IF pc \in {"poll", "delete"} THEN {Item} ELSE {}
         /\ inflight \cap Caps = {}
BY InPlanFacts DEF Full, CapsInv, AtStage

LEMMA CreateStep == ASSUME Full, Create PROVE Full'
<1>1. InPlan /\ opts' = opts /\ swept' = swept /\ pc # "done" /\ ProcInv /\ WorldOK
  BY DEF Create, InPlan, Full
<1>2. Item \in Resource /\ 0 \in 0 .. RetrySteps - 1
  BY <1>1, InPlanFacts
<1>3. CASE Waited(Item)
  <2>1. Goes /\ InPlan' /\ Item' = Item /\ pc' = "poll"
    <3>1. UNCHANGED <<place, status, storageOk, exit, passed>> /\ pc' = "poll" /\ polls' = polls
      BY <1>3 DEF Create
    <3>2. polls' \in 0 .. RetrySteps - 1
      BY <1>1, <3>1 DEF ProcInv, PlaceOK
    <3>3. QED
      BY <1>1, <3>1, <3>2, SameItemGoes
  <2>2. WorldOK'
    BY <1>1, <1>2 DEF Create, Store, NoFault, WorldOK
  <2>3. CASE Stage = "capability"
    <3>1. Standing' \subseteq {Item'} /\ inflight' \cap Caps = {}
      BY <1>1, <2>1, <2>3, CapsNow DEF Create, Store, Standing
    <3>2. QED
      BY <1>1, <2>1, <2>2, <2>3, <3>1, CapsOn, NotSwept DEF Full, Goes
  <2>4. CASE Stage # "capability"
    <3>1. Standing' \subseteq Standing
      BY <1>1, <2>4, InPlanFacts DEF Create, Store, Standing
    <3>2. QED
      BY <1>1, <2>1, <2>2, <2>4, <3>1, CapsElsewhere, NotSwept DEF Full, Goes
  <2>5. QED
    BY <2>3, <2>4
<1>4. CASE ~Waited(Item)
  <2>1. Goes
    BY <1>1, <1>4, NextItemGoes DEF Create
  <2>2. WorldOK'
    BY <1>1, <1>2 DEF Create, Store, NoFault, WorldOK
  <2>3. Stage # "capability"
    BY <1>1, <1>4, InPlanFacts DEF Waited, KindOf
  <2>4. Standing' \subseteq Standing
    BY <1>1, <2>3, InPlanFacts DEF Create, Store, Standing
  <2>5. QED
    BY <1>1, <2>1, <2>2, <2>3, <2>4, CapsElsewhere, NotSwept DEF Full, Goes
<1>5. QED
  BY <1>3, <1>4

\* Failing calls end the check; at most a CREATE is left in the air.
LEMMA FailingStep ==
  ASSUME Full, InPlan, Fails, opts' = opts, swept' = swept, undeleted' = undeleted,
         present' = present, WorldOK',
         \/ inflight' = inflight
         \/ pc = "create" /\ inflight' = inflight \cup {Item}
  PROVE  Full'
<1>1. Goes /\ ~InPlan' /\ passed' = passed
  BY FailsGoes DEF Full
<1>2. pc # "done"
  BY DEF InPlan
<1>3. CASE Stage = "capability"
  <2>1. Standing' \subseteq {Item}
    BY <1>3, CapsNow DEF Standing
  <2>2. QED
    BY <1>1, <1>2, <1>3, <2>1, CapsEnd, NotSwept DEF Full, Goes
<1>4. CASE Stage # "capability"
  <2>1. Standing' \subseteq Standing
    BY <1>4, InPlanFacts DEF Full, Standing
  <2>2. QED
    BY <1>1, <1>2, <1>4, <2>1, CapsElsewhere, NotSwept DEF Full, Goes
<1>5. QED
  BY <1>3, <1>4

LEMMA CreateFailsStep == ASSUME Full, CreateFails PROVE Full'
<1>1. InPlan /\ Item \in Resource
  BY InPlanFacts DEF CreateFails, InPlan, Full
<1>2. WorldOK'
  BY <1>1 DEF CreateFails, Fault, NoFault, Full, WorldOK
<1>3. inflight' = inflight \/ (pc = "create" /\ inflight' = inflight \cup {Item})
  BY DEF CreateFails
<1>4. QED
  BY <1>1, <1>2, <1>3, FailingStep DEF CreateFails

LEMMA SameWorld ==
  ASSUME Full, UNCHANGED <<world, undeleted, swept>>, Fault \/ NoFault
  PROVE  WorldOK' /\ Standing' = Standing /\ inflight' = inflight
BY DEF world, Fault, NoFault, Full, WorldOK, Standing

\* Calls that leave the objects alone and fail, succeed or go on.
LEMMA FailingCall ==
  ASSUME Full, InPlan, Fails, opts' = opts, UNCHANGED <<world, undeleted, swept>>,
         Fault \/ NoFault
  PROVE  Full'
BY SameWorld, FailingStep DEF world

LEMMA PollStep == ASSUME Full, Poll PROVE Full'
<1>1. InPlan /\ opts' = opts /\ swept' = swept /\ pc # "done" /\ pc = "poll" /\ ProcInv
  BY DEF Poll, InPlan, Full
<1>2. UNCHANGED <<world, undeleted, swept>> /\ (Fault \/ NoFault)
  BY DEF Poll
<1>3. WorldOK' /\ Standing' = Standing /\ inflight' = inflight /\ SweepInv'
  BY <1>1, <1>2, SameWorld, NotSwept
<1>4. ASSUME Goes, InPlan', Item' = Item, pc' \in {"poll", "delete", "exec"},
             pc' = "exec" => Item \notin Caps
      PROVE  Full'
  <2>1. CASE Stage = "capability"
    BY <1>1, <1>3, <1>4, <2>1, CapsNow, CapsOn DEF Full, Goes
  <2>2. CASE Stage # "capability"
    BY <1>1, <1>3, <1>4, <2>2, CapsElsewhere DEF Full, Goes
  <2>3. QED
    BY <2>1, <2>2
<1>5. CASE Fails
  BY <1>1, <1>2, <1>5, FailingCall
<1>6. CASE AfterReady(Item)
  <2>1. CASE Executed(Item) \/ DeletedWhenDone(Item)
    <3>1. UNCHANGED <<place, polls, status, storageOk, exit, passed>>
          /\ pc' = IF Executed(Item) THEN "exec" ELSE "delete"
      BY <1>6, <2>1 DEF AfterReady
    <3>2. polls' \in 0 .. RetrySteps - 1
      BY <1>1, <3>1 DEF ProcInv, PlaceOK
    <3>3. Goes /\ InPlan' /\ Item' = Item
      BY <1>1, <3>1, <3>2, SameItemGoes
    <3>4. pc' = "exec" => Item \notin Caps
      BY <3>1 DEF Executed, Commanded, Caps
    <3>5. QED
      BY <1>4, <3>1, <3>3, <3>4
  <2>2. CASE ~(Executed(Item) \/ DeletedWhenDone(Item))
    <3>1. Goes
      BY <1>1, <1>6, <2>2, NextItemGoes DEF AfterReady
    <3>2. Stage # "capability"
      BY <1>1, <2>2, InPlanFacts DEF DeletedWhenDone
    <3>3. QED
      BY <1>1, <1>3, <3>1, <3>2, CapsElsewhere DEF Full, Goes
  <2>3. QED
    BY <2>1, <2>2
<1>7. CASE /\ polls + 1 < RetrySteps
           /\ polls' = polls + 1
           /\ UNCHANGED <<pc, place, status, storageOk, exit, passed>>
  <2>1. polls' \in 0 .. RetrySteps - 1 /\ pc' = "poll"
    BY <1>1, <1>7 DEF ProcInv, PlaceOK
  <2>2. Goes /\ InPlan' /\ Item' = Item
    BY <1>1, <1>7, <2>1, SameItemGoes
  <2>3. QED
    BY <1>4, <2>1, <2>2
<1>8. QED
  BY <1>5, <1>6, <1>7 DEF Poll

LEMMA ExecStep == ASSUME Full, Exec PROVE Full'
<1>1. /\ InPlan /\ opts' = opts /\ swept' = swept /\ pc # "done" /\ pc = "exec" /\ ProcInv
      /\ UNCHANGED <<place, polls, status, storageOk, exit, passed>> /\ pc' = "await"
  BY DEF Exec, InPlan, Full
<1>2. WorldOK' /\ Standing' = Standing /\ inflight' = inflight /\ SweepInv'
  BY <1>1, SameWorld, NotSwept DEF Exec
<1>3. polls' \in 0 .. RetrySteps - 1
  BY <1>1 DEF ProcInv, PlaceOK
<1>4. Goes /\ InPlan' /\ Item' = Item
  BY <1>1, <1>3, SameItemGoes
<1>5. CASE Stage = "capability"
  BY <1>1, <1>2, <1>4, <1>5, CapsNow, CapsOn DEF Full, Goes
<1>6. CASE Stage # "capability"
  BY <1>1, <1>2, <1>4, <1>6, CapsElsewhere DEF Full, Goes
<1>7. QED
  BY <1>5, <1>6

LEMMA AnswerStep == ASSUME Full, Answer PROVE Full'
<1>1. InPlan /\ opts' = opts /\ swept' = swept /\ pc # "done" /\ pc = "await" /\ ProcInv
  BY DEF Answer, InPlan, Full
<1>2. UNCHANGED <<world, undeleted, swept>> /\ NoFault
  BY DEF Answer
<1>3. WorldOK' /\ Standing' = Standing /\ inflight' = inflight /\ SweepInv'
  BY <1>1, <1>2, SameWorld, NotSwept
<1>4. CASE /\ DeletedWhenDone(Item)
           /\ pc' = "delete" /\ UNCHANGED <<place, polls, status, storageOk, exit, passed>>
  <2>1. polls' \in 0 .. RetrySteps - 1
    BY <1>1, <1>4 DEF ProcInv, PlaceOK
  <2>2. Goes /\ InPlan' /\ Item' = Item
    BY <1>1, <1>4, <2>1, SameItemGoes
  <2>3. CASE Stage = "capability"
    <3>1. Standing' \subseteq {Item'} /\ inflight' \cap Caps = {}
      BY <1>1, <1>3, <2>2, <2>3, CapsNow
    <3>2. QED
      BY <1>1, <1>3, <1>4, <2>2, <2>3, <3>1, CapsOn DEF Full, Goes
  <2>4. CASE Stage # "capability"
    BY <1>1, <1>3, <2>2, <2>4, CapsElsewhere DEF Full, Goes
  <2>5. QED
    BY <2>3, <2>4
<1>5. CASE ~DeletedWhenDone(Item) /\ NextItem
  <2>1. Goes
    BY <1>1, <1>5, NextItemGoes
  <2>2. Stage # "capability"
    BY <1>1, <1>5, InPlanFacts DEF DeletedWhenDone
  <2>3. QED
    BY <1>1, <1>3, <2>1, <2>2, CapsElsewhere DEF Full, Goes
<1>6. CASE Fails
  BY <1>1, <1>2, <1>6, FailingCall
<1>7. QED
  BY <1>4, <1>5, <1>6 DEF Answer

\* The pod has been deleted, or the attempt is on record.
LEMMA DeleteStep ==
  ASSUME Full, DeletePod \/ DeletePodFails
  PROVE  Full'
<1>1. InPlan /\ opts' = opts /\ swept' = swept /\ pc # "done" /\ pc = "delete"
      /\ ProcInv /\ WorldOK /\ NextItem
  BY DEF DeletePod, DeletePodFails, InPlan, Full
<1>2. Goes /\ (InPlan' => pc' = "create") /\ (~InPlan' => passed' = passed \cup {Stage})
  BY <1>1, NextItemGoes
<1>3. Item \in Resource
  BY <1>1, InPlanFacts
<1>4. faults' \in 0 .. MaxFaults
  BY <1>1 DEF DeletePod, DeletePodFails, Fault, NoFault, WorldOK
<1>5. present' \subseteq present /\ late' = late /\ inflight' = inflight
      /\ undeleted' \subseteq undeleted \cup {Item} /\ undeleted \subseteq undeleted'
      /\ Item \notin present' \ undeleted'
  BY DEF DeletePod, DeletePodFails
<1>6. WorldOK' /\ SweepInv'
  BY <1>1, <1>3, <1>4, <1>5, NotSwept DEF WorldOK
<1>7. CASE Stage = "capability"
  <2>1. inflight' \cap Caps = {}
    BY <1>1, <1>5, <1>7, CapsNow
  <2>2. Standing' = {}
    BY <1>1, <1>5, <1>7, <2>1, CapsNow DEF Standing
  <2>3. CASE InPlan'
    BY <1>1, <1>2, <1>6, <1>7, <2>1, <2>2, <2>3, CapsOn DEF Full, Goes
  <2>4. CASE ~InPlan'
    BY <1>1, <1>2, <1>6, <1>7, <2>2, <2>4, CapsEnd DEF Full, Goes
  <2>5. QED
    BY <2>3, <2>4
<1>8. CASE Stage # "capability"
  <2>1. Standing' \subseteq Standing
    BY <1>5 DEF Standing
  <2>2. QED
    BY <1>1, <1>2, <1>6, <1>8, <2>1, CapsElsewhere DEF Full, Goes
<1>9. QED
  BY <1>7, <1>8

(***************************************************************************)
(* From check to check, the end of the run, and everybody else.            *)
(***************************************************************************)

\* A check that creates nothing leaves the capability pods as they are.
LEMMA CapsAside ==
  ASSUME Full, AtStage, ~InPlan, ProcInv', Standing' = Standing, inflight' = inflight,
         pc' \notin {"poll", "delete"},
         "capability" \in passed' => "capability" \in passed,
         pc' # "done" => Over \subseteq Over'
  PROVE  CapsInv'
<1>1. pc # "done" /\ pc \notin {"poll", "delete"}
  BY DEF AtStage, InPlan
<1>2. QED
  BY <1>1 DEF Full, CapsInv

LEMMA BetweenStep ==
  ASSUME Full, SkipStage \/ Check \/ StartPlan
  PROVE  Full'
<1>1. pc = "check" /\ AtStage /\ ~InPlan /\ pc # "done" /\ opts' = opts /\ swept' = swept
      /\ ProcInv /\ si \in DOMAIN Stages
  BY DEF SkipStage, Check, StartPlan, AtStage, InPlan, Full, ProcInv, PlaceOK, history
<1>2. UNCHANGED <<world, undeleted, swept>> /\ (Fault \/ NoFault)
  BY DEF SkipStage, Check, StartPlan, history
<1>3. WorldOK' /\ Standing' = Standing /\ inflight' = inflight /\ SweepInv'
  BY <1>1, <1>2, SameWorld, NotSwept
<1>4. CASE SkipStage
  <2>1. ProcInv' /\ (pc' # "done" => Over' = Over \cup {Stage}) /\ ~InPlan' /\ passed' = passed
    BY <1>1, <1>4, SkipInv
  <2>2. QED
    BY <1>1, <1>3, <2>1, CapsAside DEF InPlan, Full
<1>5. CASE Check /\ Succeeds
  <2>1. ProcInv' /\ (pc' # "done" => Over' = Over \cup {Stage}) /\ ~InPlan'
        /\ passed' = passed \cup {Stage}
    BY <1>1, <1>5, SucceedsInv
  <2>2. Stage # "capability"
    BY <1>5, CapabilityPlan, PlanFacts DEF Check
  <2>3. QED
    BY <1>1, <1>3, <2>1, <2>2, CapsAside DEF InPlan, Full
<1>6. CASE Check /\ Fails
  <2>1. ProcInv' /\ (pc' # "done" => Over' = Over \cup {Stage}) /\ ~InPlan' /\ passed' = passed
    BY <1>1, <1>6, FailsInv DEF Check
  <2>2. QED
    BY <1>1, <1>3, <2>1, CapsAside DEF InPlan, Full
<1>7. CASE StartPlan
  <2>1. pc' = "create" /\ si' = si /\ ii' = 1 /\ polls' = polls /\ ~Skipped(Stage)
        /\ UNCHANGED <<status, storageOk, exit, passed>>
    BY <1>7 DEF StartPlan, history
  <2>2. ii' \in DOMAIN Plan(Stage) /\ polls' \in 0 .. RetrySteps - 1
    BY <1>1, <1>7, <2>1, PlanFacts DEF StartPlan, ProcInv, PlaceOK
  <2>3. ProcInv' /\ Over' = Over
    BY <1>1, <2>1, <2>2, StayInv
  <2>4. QED
    BY <1>1, <1>3, <2>1, <2>3, CapsAside DEF Full
<1>8. QED
  BY <1>4, <1>5, <1>6, <1>7 DEF Check

LEMMA FailingCalls ==
  ASSUME Full, PollFails \/ ExecTimeout
  PROVE  Full'
<1>1. InPlan
  BY DEF PollFails, ExecTimeout, InPlan
<1>2. QED
  BY <1>1, FailingCall DEF PollFails, ExecTimeout

\* Nothing that only deletes objects disturbs the accounting of pods.
LEMMA CapsShrink ==
  ASSUME Full, Standing' \subseteq Standing, inflight' = inflight, passed' = passed,
         pc' = "done" \/ UNCHANGED <<opts, pc, place>>
  PROVE  CapsInv'
<1>1. CASE pc' = "done"
  BY <1>1 DEF Full, CapsInv
<1>2. CASE pc' # "done" /\ UNCHANGED <<opts, pc, place>>
  <2>1. Over' = Over /\ Item' = Item
    BY <1>2 DEF Over, Item, Stage, Plan, place
  <2>2. QED
    BY <1>2, <2>1 DEF Full, CapsInv
<1>3. QED
  BY <1>1, <1>2

LEMMA CleanupStep == ASSUME Full, Cleanup PROVE Full'
<1>1. opts' = opts /\ pc = "cleanup" /\ pc' = "done" /\ status' = status
      /\ UNCHANGED <<place, polls, storageOk, inflight, late, passed, undeleted>>
      /\ exit' = (IF status THEN "ok" ELSE "failed") /\ swept = {} /\ ProcInv
  BY DEF Cleanup, Full, SweepInv
<1>2. present' \subseteq present
  BY DEF Cleanup, SomeOf
<1>3. ProcInv'
  <2>1. Over = StageNames
    BY <1>1, StagesFacts DEF Over, StageNames
  <2>2. status <=> Demanded \subseteq passed
    BY <1>1, <2>1 DEF ProcInv, StatusInv, Demanded
  <2>3. VerdictIsEarned'
    BY <1>1, <2>2 DEF VerdictIsEarned, Demanded, ProcInv, PlaceOK
  <2>4. PlaceOK' /\ ExitInv'
    BY <1>1 DEF PlaceOK, ExitInv, InPlan, ProcInv, place
  <2>5. QED
    BY <1>1, <2>3, <2>4 DEF ProcInv, StatusInv
<1>4. WorldOK'
  <2>1. faults' \in 0 .. MaxFaults
    <3>1. Fault \/ NoFault
      BY DEF Cleanup
    <3>2. QED
      BY <3>1 DEF Fault, NoFault, Full, WorldOK
  <2>2. swept' \subseteq {"uid", "all"}
    BY <1>1 DEF Cleanup
  <2>3. QED
    BY <1>1, <1>2, <2>1, <2>2 DEF Full, WorldOK
<1>5. SweepInv'
  <2>1. CASE swept' = swept
    BY <1>1, <2>1 DEF SweepInv, LeftBehind
  <2>2. CASE present' = present \ Reach("install", TRUE) /\ swept' = {"uid"}
    <3>1. ASSUME NEW r \in present'
          PROVE  r = "cloneContent" \/ r \in Caps
      BY <1>1, <2>2, <3>1, ReachFacts DEF ProcInv, Full, WorldOK
    <3>2. QED
      BY <1>1, <2>2, <3>1 DEF SweepInv, LeftBehind
  <2>3. QED
    BY <1>1, <2>1, <2>2 DEF Cleanup
<1>6. CapsInv'
  BY <1>1, <1>2, CapsShrink DEF Standing
<1>7. QED
  BY <1>3, <1>4, <1>5, <1>6 DEF Full

\* The process does not move.
LEMMA ProcUnmoved ==
  ASSUME ProcInv, UNCHANGED <<opts, pc, place, polls, status, storageOk, exit, passed>>
  PROVE  ProcInv' /\ Over' = Over /\ Item' = Item
<1>1. UNCHANGED <<opts, pc, si, ii, polls, status, storageOk, exit, passed>>
  BY DEF place
<1>2. QED
  BY <1>1 DEF ProcInv, PlaceOK, ExitInv, StatusInv, VerdictIsEarned, Demanded, Over, InPlan,
              Item, Stage, Plan, Skipped

LEMMA KilledStep == ASSUME Full, Killed PROVE Full'
<1>1. opts' = opts /\ pc # "done" /\ pc' = "done" /\ exit' = "killed"
      /\ UNCHANGED <<place, polls, status, storageOk, passed, undeleted, swept,
                     present, late>>
      /\ Fault /\ ProcInv
  BY DEF Killed, Full, history
<1>2. ProcInv'
  BY <1>1 DEF ProcInv, PlaceOK, ExitInv, InPlan, StatusInv, VerdictIsEarned, Demanded, place
<1>3. SweepInv'
  BY <1>1, NotSwept
<1>4. CASE inflight' = inflight
  <2>1. WorldOK' /\ Standing' = Standing
    BY <1>1, <1>4 DEF Full, WorldOK, Fault, Standing
  <2>2. CapsInv'
    BY <1>1, <1>4, <2>1, CapsShrink
  <2>3. QED
    BY <1>2, <1>3, <2>1, <2>2 DEF Full
<1>5. CASE pc = "create" /\ inflight' = inflight \cup {Item}
  <2>1. InPlan /\ Item \in Resource
    BY <1>1, <1>5, InPlanFacts DEF InPlan
  <2>2. WorldOK'
    BY <1>1, <1>5, <2>1 DEF Full, WorldOK, Fault
  <2>3. CASE Stage = "capability"
    <3>1. Standing' \subseteq {Item} /\ "capability" \notin passed
      BY <1>1, <1>5, <2>1, <2>3, CapsNow, InPlanFacts DEF Standing
    <3>2. QED
      BY <1>1, <1>2, <1>3, <2>1, <2>2, <3>1 DEF Full, CapsInv
  <2>4. CASE Stage # "capability"
    <3>1. Standing' \subseteq Standing
      BY <1>1, <1>5, <2>1, <2>4, InPlanFacts DEF Standing
    <3>2. QED
      BY <1>1, <1>2, <1>3, <2>2, <3>1 DEF Full, CapsInv
  <2>5. QED
    BY <2>3, <2>4
<1>6. QED
  BY <1>4, <1>5 DEF Killed

LEMMA UserCleanupStep ==
  ASSUME Full, NEW ns \in {"install", "elsewhere"}, NEW byUid \in BOOLEAN, UserCleanup(ns, byUid)
  PROVE  Full'
<1>1. /\ pc = "done"
      /\ UNCHANGED <<opts, pc, place, polls, status, storageOk, inflight, exit, late,
                     passed, undeleted>>
      /\ ProcInv
  BY DEF UserCleanup, Full
<1>2. present' \subseteq present
  BY DEF UserCleanup, SomeOf
<1>3. ProcInv'
  BY <1>1, ProcUnmoved
<1>4. WorldOK'
  <2>1. faults' \in 0 .. MaxFaults
    BY DEF UserCleanup, Fault, NoFault, Full, WorldOK
  <2>2. swept' \subseteq {"uid", "all"}
    BY DEF UserCleanup, Full, WorldOK
  <2>3. QED
    BY <1>1, <1>2, <2>1, <2>2 DEF Full, WorldOK
<1>5. SweepInv'
  <2>1. CASE swept' = swept
    BY <1>1, <1>2, <2>1 DEF Full, SweepInv, LeftBehind
  <2>2. CASE /\ ns = "install"
             /\ present' = present \ Reach(ns, byUid)
             /\ swept' = swept \cup {IF byUid THEN "uid" ELSE "all"}
    <3>1. ASSUME NEW r \in present'
          PROVE  r = "cloneContent" \/ (r \in Caps /\ byUid)
      BY <2>2, <3>1, ReachFacts DEF ProcInv, Full, WorldOK
    <3>2. CASE byUid
      <4>1. swept' = swept \cup {"uid"}
        BY <2>2, <3>2
      <4>2. ASSUME NEW r \in present', r \in Caps, "all" \in swept, r # "cloneContent"
            PROVE  r \in late
        BY <1>2, <4>2 DEF Full, SweepInv, LeftBehind
      <4>3. QED
        BY <1>1, <3>1, <4>1, <4>2 DEF SweepInv, LeftBehind
    <3>3. CASE ~byUid
      BY <1>1, <3>1, <3>3 DEF SweepInv, LeftBehind
    <3>4. QED
      BY <3>2, <3>3
  <2>3. QED
    BY <2>1, <2>2 DEF UserCleanup
<1>6. CapsInv'
  BY <1>1, <1>2, CapsShrink DEF Standing
<1>7. QED
  BY <1>3, <1>4, <1>5, <1>6 DEF Full

LEMMA LandsStep == ASSUME Full, NEW r \in Resource, Lands(r) PROVE Full'
<1>1. /\ UNCHANGED <<opts, pc, place, polls, status, storageOk, exit, faults, passed,
                      undeleted, swept>>
      /\ inflight' = inflight \ {r} /\ r \in inflight
      /\ present' = present \cup {r}
      /\ late' = IF swept # {} THEN late \cup {r} ELSE late
      /\ ProcInv
  BY DEF Lands, Store, history, Full
<1>2. ProcInv' /\ Over' = Over /\ Item' = Item
  BY <1>1, ProcUnmoved
<1>3. WorldOK'
  BY <1>1 DEF Full, WorldOK
<1>4. SweepInv'
  BY <1>1 DEF Full, SweepInv, LeftBehind
<1>5. Standing' = Standing
  BY <1>1 DEF Standing
<1>6. CapsInv'
  BY <1>1, <1>2, <1>5 DEF Full, CapsInv
<1>7. QED
  BY <1>2, <1>3, <1>4, <1>6 DEF Full

LEMMA StreamStep == ASSUME Full, NEW r \in Commanded, Stream(r) PROVE Full'
<1>1. /\ UNCHANGED <<opts, pc, place, polls, status, storageOk, exit, passed>>
      /\ UNCHANGED <<world, undeleted, swept>>
      /\ Fault \/ NoFault
      /\ ProcInv
  BY DEF Stream, history, Full
<1>2. ProcInv' /\ Over' = Over /\ Item' = Item
  BY <1>1, ProcUnmoved
<1>3. WorldOK' /\ Standing' = Standing
  BY <1>1, SameWorld
<1>4. SweepInv' /\ CapsInv'
  BY <1>1, <1>2, <1>3, CapsShrink DEF Full, SweepInv, LeftBehind, world
<1>5. QED
  BY <1>2, <1>3, <1>4 DEF Full

LEMMA IntrusionStep == ASSUME Full, Intrusion PROVE Full'
<1>1. /\ UNCHANGED <<opts, pc, place, polls, status, storageOk, inflight, exit, late,
                      passed, undeleted, swept>>
      /\ pc # "done" /\ Fault /\ ProcInv
  BY DEF Intrusion, history, Full
<1>2. present' \subseteq present
  BY DEF Intrusion
<1>3. ProcInv'
  BY <1>1, ProcUnmoved
<1>4. WorldOK'
  BY <1>1, <1>2 DEF Fault, Full, WorldOK
<1>5. CapsInv'
  BY <1>1, <1>2, CapsShrink DEF Standing
<1>6. QED
  BY <1>1, <1>3, <1>4, <1>5, NotSwept DEF Full

LEMMA FullInit == Init => Full
<1> SUFFICES ASSUME Init PROVE Full
  OBVIOUS
<1>1. opts \in Options
  BY DEF Init, Options
<1>2. PlaceOK /\ ExitInv
  BY StagesFacts DEF Init, PlaceOK, ExitInv, InPlan
<1>3. StatusInv
  BY StagesFacts DEF Init, StatusInv, Over, VerdictIsEarned
<1>4. WorldOK /\ SweepInv
  BY DEF Init, WorldOK, SweepInv, LeftBehind
<1>5. "cap0" \in Resource /\ Standing = {}
  BY DEF Init, Standing, Resource, Caps
<1>6. CapsInv
  BY <1>5 DEF CapsInv, Init
<1>7. QED
  BY <1>1, <1>2, <1>3, <1>4, <1>6 DEF Full, ProcInv

LEMMA FullNext == Full /\ [Next]_vars => Full'
<1> SUFFICES ASSUME Full, [Next]_vars PROVE Full'
  OBVIOUS
<1>1. CASE Run
  BY <1>1, BetweenStep, CreateStep, CreateFailsStep, PollStep, FailingCalls, ExecStep,
     AnswerStep, DeleteStep, CleanupStep DEF Run
<1>2. CASE UNCHANGED vars
  <2>1. /\ UNCHANGED <<opts, pc, place, polls, status, storageOk, exit, passed>>
        /\ UNCHANGED <<present, inflight, late, undeleted, swept, faults>>
    BY <1>2 DEF vars, place
  <2>2. ProcInv' /\ Over' = Over /\ Item' = Item
    BY <2>1, ProcUnmoved DEF Full
  <2>3. WorldOK' /\ SweepInv' /\ CapsInv'
    BY <2>1, <2>2 DEF Full, WorldOK, SweepInv, LeftBehind, CapsInv, Standing
  <2>4. QED
    BY <2>2, <2>3 DEF Full
<1>3. QED
  BY <1>1, <1>2, KilledStep, UserCleanupStep, LandsStep, StreamStep, IntrusionStep DEF Next

LEMMA FullAlways == Spec => []Full
BY FullInit, FullNext, PTL DEF Spec

(***************************************************************************)
(* The commands in pods, on top of what always holds.                      *)
(***************************************************************************)

StreamsOK == streams \in [Commanded -> {"none", "running", "ok", "error", "heard", "failed"}]

\* A check with a command that has passed, or whose pod is being deleted, has
\* heard of the command's success.
HeardInv ==
  /\ \A r \in Commanded : StageOf(r) \in passed => streams[r] = "heard"
  /\ pc = "delete" /\ Item \in Commanded => streams[Item] = "heard"

StreamInv == StreamsOK /\ HeardInv

\* The command of a check that is under way has not passed yet, and the last
\* object of such a check is the pod of its command.
LEMMA CommandFacts ==
  ASSUME ProcInv, InPlan
  PROVE  /\ Item \in Commanded => StageOf(Item) = Stage
         /\ Stage \notin passed
         /\ \A r \in Commanded : ii = Len(Plan(Stage)) /\ StageOf(r) = Stage => Item = r
         /\ ii = Len(Plan(Stage)) => Waited(Item) /\ (Executed(Item) \/ DeletedWhenDone(Item))
<1>1. AtStage /\ ii \in DOMAIN Plan(Stage) /\ opts \in Options
  BY InPlanFacts DEF ProcInv
<1>2. Stage \notin passed
  BY <1>1, OverFacts DEF ProcInv, StatusInv, PlaceOK, AtStage
<1>3. CASE Stage = "capability"
  BY <1>1, <1>2, <1>3 DEF Plan, Item, Commanded, StageOf, Waited, KindOf, Caps, DeletedWhenDone
<1>4. CASE Stage = "dns"
  BY <1>1, <1>2, <1>4 DEF Plan, Item, Commanded, StageOf, Waited, KindOf, Executed
<1>5. CASE Stage = "volume" /\ opts.scope = "cluster"
  BY <1>1, <1>2, <1>5 DEF Plan, Item, Commanded, StageOf, Waited, KindOf, Executed
<1>6. CASE Stage = "volume" /\ opts.scope # "cluster"
  BY <1>1, <1>2, <1>6 DEF Plan, Item, Commanded, StageOf, Waited, KindOf, Executed
<1>7. QED
  BY <1>1, <1>3, <1>4, <1>5, <1>6 DEF Plan

LEMMA EndsPlace ==
  ASSUME Fails \/ Succeeds
  PROVE  pc' # "delete"
BY DEF Fails, Succeeds, NextStage

\* The next object, or the end of the check.
LEMMA NextItemPlace ==
  ASSUME ProcInv, InPlan, NextItem
  PROVE  /\ pc' # "delete"
         /\ passed' = passed \/ (ii = Len(Plan(Stage)) /\ passed' = passed \cup {Stage})
<1>1. ii \in 1 .. Len(Plan(Stage)) /\ Len(Plan(Stage)) \in Nat
  BY InPlanFacts, PlanFacts
<1>2. QED
  BY <1>1, EndsPlace DEF NextItem, Succeeds

\* Most steps leave the goroutines and the checks that have passed alone.
LEMMA Unheard ==
  ASSUME StreamInv, streams' = streams, passed' = passed,
         pc' # "delete" \/ UNCHANGED <<opts, pc, place>> \/ (Item' = Item /\ Item \notin Commanded)
  PROVE  StreamInv'
<1>1. CASE UNCHANGED <<opts, pc, place>>
  <2>1. Item' = Item
    BY <1>1 DEF Item, Stage, Plan, place
  <2>2. QED
    BY <1>1, <2>1 DEF StreamInv, StreamsOK, HeardInv
<1>2. CASE pc' # "delete" \/ (Item' = Item /\ Item \notin Commanded)
  BY <1>2 DEF StreamInv, StreamsOK, HeardInv
<1>3. QED
  BY <1>1, <1>2

\* An object without a command of its own is never the last of its check.
LEMMA NextItemUnheard ==
  ASSUME StreamInv, ProcInv, InPlan, NextItem, streams' = streams,
         ~Waited(Item) \/ ~(Executed(Item) \/ DeletedWhenDone(Item))
  PROVE  StreamInv'
BY NextItemPlace, CommandFacts, Unheard

LEMMA ExecHeard == ASSUME Full, StreamInv, Exec PROVE StreamInv'
<1>1. ProcInv /\ InPlan /\ passed' = passed /\ pc' = "await"
      /\ streams' = [streams EXCEPT ![Item] = "running"]
  BY DEF Exec, InPlan, Full
<1>2. \A r \in Commanded : StageOf(r) \in passed => r # Item
  BY <1>1, CommandFacts
<1>3. StreamsOK'
  BY <1>1 DEF StreamInv, StreamsOK
<1>4. QED
  BY <1>1, <1>2, <1>3 DEF StreamInv, StreamsOK, HeardInv

LEMMA StreamHeard ==
  ASSUME StreamInv, NEW r \in Commanded, Stream(r)
  PROVE  StreamInv'
<1>1. UNCHANGED <<opts, pc, place, passed>> /\ streams[r] = "running"
  BY DEF Stream, history
<1>2. PICK e \in {"ok", "error"} : streams' = [streams EXCEPT ![r] = e]
  BY DEF Stream
<1>3. Item' = Item
  BY <1>1 DEF Item, Stage, Plan, place
<1>4. StreamsOK'
  BY <1>2 DEF StreamInv, StreamsOK
<1>5. QED
  BY <1>1, <1>2, <1>3, <1>4 DEF StreamInv, StreamsOK, HeardInv

LEMMA AnswerHeard == ASSUME Full, StreamInv, Answer PROVE StreamInv'
<1>1. ProcInv /\ InPlan /\ opts' = opts
  BY DEF Answer, InPlan, Full
<1>2. CASE /\ streams[Item] = "ok"
           /\ streams' = [streams EXCEPT ![Item] = "heard"]
           /\ DeletedWhenDone(Item)
           /\ pc' = "delete" /\ UNCHANGED <<place, passed>>
  <2>1. Item' = Item
    BY <1>1, <1>2 DEF Item, Stage, Plan, place
  <2>2. QED
    BY <1>2, <2>1 DEF StreamInv, StreamsOK, HeardInv
<1>3. CASE /\ streams[Item] = "ok"
           /\ streams' = [streams EXCEPT ![Item] = "heard"]
           /\ NextItem
  <2>1. StreamsOK'
    BY <1>3 DEF StreamInv, StreamsOK
  <2>2. \A r \in Commanded : StageOf(r) \in passed' => StageOf(r) \in passed \/ r = Item
    BY <1>1, <1>3, NextItemPlace, CommandFacts
  <2>3. pc' # "delete"
    BY <1>1, <1>3, NextItemPlace
  <2>4. \A r \in Commanded : StageOf(r) \in passed' => streams'[r] = "heard"
    BY <1>3, <2>2 DEF StreamInv, StreamsOK, HeardInv
  <2>5. QED
    BY <2>1, <2>3, <2>4 DEF StreamInv, HeardInv
<1>4. CASE streams' = [streams EXCEPT ![Item] = "failed"] /\ Fails
  <2>1. passed' = passed /\ pc' # "delete"
    BY <1>4, EndsPlace DEF Fails
  <2>2. \A r \in Commanded : StageOf(r) \in passed => r # Item
    BY <1>1, CommandFacts
  <2>3. StreamsOK'
    BY <1>4 DEF StreamInv, StreamsOK
  <2>4. QED
    BY <1>4, <2>1, <2>2, <2>3 DEF StreamInv, StreamsOK, HeardInv
<1>5. QED
  BY <1>2, <1>3, <1>4 DEF Answer

\* The pod whose command has been heard of is deleted, or left with a warning.
LEMMA DeleteHeard ==
  ASSUME Full, StreamInv, DeletePod \/ DeletePodFails
  PROVE  StreamInv'
<1>1. ProcInv /\ InPlan /\ NextItem /\ streams' = streams /\ pc = "delete"
  BY DEF DeletePod, DeletePodFails, InPlan, Full
<1>2. \A r \in Commanded : StageOf(r) \in passed' => StageOf(r) \in passed \/ r = Item
  BY <1>1, NextItemPlace, CommandFacts
<1>3. pc' # "delete"
  BY <1>1, NextItemPlace
<1>4. QED
  BY <1>1, <1>2, <1>3 DEF StreamInv, StreamsOK, HeardInv

LEMMA PollHeard == ASSUME Full, StreamInv, Poll PROVE StreamInv'
<1>1. ProcInv /\ InPlan /\ opts' = opts /\ streams' = streams /\ pc = "poll"
  BY DEF Poll, InPlan, Full
<1>2. CASE Fails
  BY <1>1, <1>2, EndsPlace, Unheard DEF Fails
<1>3. CASE AfterReady(Item) /\ (Executed(Item) \/ DeletedWhenDone(Item))
  <2>1. UNCHANGED <<place, passed>> /\ pc' = (IF Executed(Item) THEN "exec" ELSE "delete")
    BY <1>3 DEF AfterReady
  <2>2. Item' = Item
    BY <1>1, <2>1 DEF Item, Stage, Plan, place
  <2>3. QED
    BY <1>1, <2>1, <2>2, Unheard DEF Executed
<1>4. CASE AfterReady(Item) /\ ~(Executed(Item) \/ DeletedWhenDone(Item))
  BY <1>1, <1>4, NextItemUnheard DEF AfterReady
<1>5. CASE UNCHANGED <<pc, place, passed>>
  BY <1>1, <1>5, Unheard
<1>6. QED
  BY <1>2, <1>3, <1>4, <1>5 DEF Poll

LEMMA CreateHeard == ASSUME Full, StreamInv, Create PROVE StreamInv'
<1>1. ProcInv /\ InPlan /\ streams' = streams
  BY DEF Create, InPlan, Full
<1>2. CASE Waited(Item)
  BY <1>1, <1>2, Unheard DEF Create
<1>3. CASE ~Waited(Item)
  BY <1>1, <1>3, NextItemUnheard DEF Create
<1>4. QED
  BY <1>2, <1>3

\* A check that creates nothing has no command.
LEMMA BetweenHeard ==
  ASSUME StreamInv, SkipStage \/ Check \/ StartPlan
  PROVE  StreamInv'
<1>1. CASE SkipStage
  BY <1>1, Unheard DEF SkipStage, NextStage, history
<1>2. CASE StartPlan
  BY <1>2, Unheard DEF StartPlan, history
<1>3. CASE Check /\ Fails
  BY <1>3, EndsPlace, Unheard DEF Check, Fails
<1>4. CASE Check /\ Succeeds
  <2>1. Stage \notin {"dns", "volume"}
    BY <1>4 DEF Check, Plan
  <2>2. \A r \in Commanded : StageOf(r) \in passed' => StageOf(r) \in passed
    BY <1>4, <2>1 DEF Succeeds, StageOf
  <2>3. streams' = streams /\ pc' # "delete"
    BY <1>4, EndsPlace DEF Check
  <2>4. QED
    BY <2>2, <2>3 DEF StreamInv, StreamsOK, HeardInv
<1>5. QED
  BY <1>1, <1>2, <1>3, <1>4 DEF Check

\* A call that fails, a cleanup, and what others do.
LEMMA OthersHeard ==
  ASSUME StreamInv,
         \/ CreateFails \/ PollFails \/ ExecTimeout \/ Cleanup \/ Killed \/ Intrusion
         \/ \E ns \in {"install", "elsewhere"}, byUid \in BOOLEAN : UserCleanup(ns, byUid)
         \/ \E r \in Resource : Lands(r)
  PROVE  StreamInv'
<1>1. streams' = streams
  BY DEF CreateFails, PollFails, ExecTimeout, Cleanup, Killed, Intrusion, UserCleanup, Lands
<1>2. CASE CreateFails \/ PollFails \/ ExecTimeout
  BY <1>1, <1>2, EndsPlace, Unheard DEF CreateFails, PollFails, ExecTimeout, Fails
<1>3. CASE Cleanup \/ Killed
  BY <1>1, <1>3, Unheard DEF Cleanup, Killed, history
<1>4. CASE \/ Intrusion
           \/ \E ns \in {"install", "elsewhere"}, byUid \in BOOLEAN : UserCleanup(ns, byUid)
           \/ \E r \in Resource : Lands(r)
  <2>1. UNCHANGED <<opts, pc, place, passed>>
    BY <1>4 DEF Intrusion, UserCleanup, Lands, history
  <2>2. QED
    BY <1>1, <2>1, Unheard
<1>5. QED
  BY <1>2, <1>3, <1>4

LEMMA HeardNext == Full /\ StreamInv /\ [Next]_vars => StreamInv'
<1> SUFFICES ASSUME Full, StreamInv, [Next]_vars PROVE StreamInv'
  OBVIOUS
<1>1. CASE UNCHANGED vars
  BY <1>1, Unheard DEF vars, place
<1>2. CASE Run
  BY <1>2, BetweenHeard, CreateHeard, PollHeard, ExecHeard, AnswerHeard, DeleteHeard,
     OthersHeard DEF Run
<1>3. QED
  BY <1>1, <1>2, StreamHeard, OthersHeard DEF Next

LEMMA HeardAlways == Spec => []StreamInv
<1>1. Init => StreamInv
  BY DEF Init, StreamInv, StreamsOK, HeardInv
<1>2. QED
  BY <1>1, HeardNext, FullAlways, PTL DEF Spec

(***************************************************************************)
(* The results.                                                            *)
(***************************************************************************)

\* Every variable keeps to its type.
THEOREM RunTypeCorrect == Spec => []TypeOK
<1>1. Full /\ StreamInv => TypeOK
  BY DEF Full, ProcInv, PlaceOK, WorldOK, TypeOK, Options, ExitInv, InPlan, StreamInv, StreamsOK
<1>2. QED
  BY <1>1, FullAlways, HeardAlways, PTL

\* The exit status says whether every check the run had to make has succeeded.
THEOREM VerdictEarned == Spec => []VerdictIsEarned
<1>1. Full => VerdictIsEarned
  BY DEF Full, ProcInv, StatusInv
<1>2. QED
  BY <1>1, FullAlways, PTL

\* After a successful cleanup nothing but the named leftovers is there.
THEOREM OnlyLeftovers == Spec => []LeftBehind
<1>1. Full => LeftBehind
  BY DEF Full, SweepInv
<1>2. QED
  BY <1>1, FullAlways, PTL

\* Capability pods never pile up, except those that cannot be deleted.
THEOREM CapabilityPodsOneByOne == Spec => []OneCapabilityPod
<1>1. ASSUME Full
      PROVE  Cardinality(Standing) <= 1
  <2>1. PICK r \in Resource : Standing \subseteq {r}
    BY <1>1 DEF Full, CapsInv
  <2>2. Standing = {} \/ Standing = {r}
    BY <2>1
  <2>3. Cardinality({}) = 0 /\ Cardinality({r}) = 1
    BY FS_EmptySet, FS_Singleton
  <2>4. QED
    BY <2>2, <2>3
<1>2. ASSUME Full, exit = "ok"
      PROVE  Standing = {}
  <2>1. Demanded \subseteq passed
    BY <1>2 DEF Full, ProcInv, StatusInv, VerdictIsEarned
  <2>2. "capability" \in Demanded
    <3>1. Stages[8] = "capability" /\ 8 \in DOMAIN Stages
      BY DEF Stages
    <3>2. "capability" \in StageNames
      BY <3>1 DEF StageNames
    <3>3. QED
      BY <3>2 DEF Demanded
  <2>3. QED
    BY <1>2, <2>1, <2>2 DEF Full, CapsInv
<1>3. Full => OneCapabilityPod
  BY <1>1, <1>2 DEF OneCapabilityPod
<1>4. QED
  BY <1>3, FullAlways, PTL

\* No check passes on a command whose success its own call has not received,
\* whatever the goroutines of commands given up still do.
THEOREM NoUnheardCommand == Spec => []CommandsAnswered
<1>1. ASSUME Full, exit = "ok"
      PROVE  \A r \in Commanded : StageOf(r) \in passed
  <2>1. Demanded \subseteq passed
    BY <1>1 DEF Full, ProcInv, StatusInv, VerdictIsEarned
  <2>2. Stages[10] = "dns" /\ Stages[12] = "volume" /\ {10, 12} \subseteq DOMAIN Stages
    BY DEF Stages
  <2>3. {"dns", "volume"} \subseteq StageNames
    BY <2>2 DEF StageNames
  <2>4. QED
    BY <2>1, <2>3 DEF Demanded, StageOf
<1>2. Full /\ StreamInv => CommandsAnswered
  BY <1>1 DEF StreamInv, HeardInv, CommandsAnswered
<1>3. QED
  BY <1>2, FullAlways, HeardAlways, PTL

(***************************************************************************)
(* The run comes nearer to its end with every step.  That it takes a step  *)
(* whenever it can is fairness, and stays with TLC (RunEnds); that there   *)
(* is no endless sequence of its steps is proved here: each of them lowers *)
(* Rank in a well-founded order.                                           *)
(***************************************************************************)

\* What is left to do: stages, objects of the stage, calls for the object, looks at it.
StagesLeft == IF pc = "done" THEN 0 ELSE IF pc = "cleanup" THEN 1 ELSE 2 + Len(Stages) - si
ItemsLeft ==
  IF ~AtStage THEN 0
  ELSE IF pc = "check" THEN Len(Plan(Stage)) + 1 ELSE Len(Plan(Stage)) + 1 - ii
CallsLeft ==
  CASE pc = "create" -> 5 [] pc = "poll" -> 4 [] pc = "exec" -> 3 [] pc = "await" -> 2
    [] pc = "delete" -> 1 [] OTHER -> 0
LooksLeft == RetrySteps - polls
Rank == <<StagesLeft, ItemsLeft, CallsLeft, LooksLeft>>

Ranks == [1 .. 4 -> Nat]
Order == LexProductOrdering(OpToRel(<, Nat), Nat, 4)
Nearer == <<Rank', Rank>> \in Order

LEMMA OrderEnds == IsWellFoundedOn(Order, Ranks)
BY NatLessThanWellFounded, WFLexProductOrdering, 4 \in Nat DEF Order, Ranks

\* Of two ranks, that one is lower which is lower where they first differ.
LEMMA Lower ==
  ASSUME NEW r \in Ranks, NEW s \in Ranks,
         NEW n \in 1 .. 4, r[n] < s[n], \A m \in 1 .. 4 : m < n => r[m] = s[m]
  PROVE  <<r, s>> \in Order
<1>1. <<r[n], s[n]>> \in OpToRel(<, Nat)
  BY DEF OpToRel, Ranks
<1>2. \A m \in 1 .. n - 1 : r[m] = s[m]
  OBVIOUS
<1>3. QED
  BY <1>1, <1>2 DEF Order, LexProductOrdering, Ranks

Ranked ==
  /\ Rank \in Ranks
  /\ Rank[1] = StagesLeft /\ Rank[2] = ItemsLeft /\ Rank[3] = CallsLeft /\ Rank[4] = LooksLeft

LEMMA RankTyped == ProcInv => Ranked
<1> SUFFICES ASSUME ProcInv PROVE Ranked
  OBVIOUS
<1>1. si \in 1 .. 12 /\ Len(Stages) = 12 /\ StagesLeft \in Nat
  BY StagesFacts DEF ProcInv, PlaceOK, StagesLeft
<1>2. ItemsLeft \in Nat
  <2>1. Len(Plan(Stage)) \in Nat /\ DOMAIN Plan(Stage) = 1 .. Len(Plan(Stage))
    BY PlanFacts
  <2>2. InPlan => ii \in DOMAIN Plan(Stage)
    BY DEF ProcInv, ExitInv
  <2>3. AtStage => pc = "check" \/ InPlan
    BY DEF AtStage, InPlan, ProcInv, PlaceOK
  <2>4. QED
    BY <2>1, <2>2, <2>3 DEF ItemsLeft
<1>3. CallsLeft \in Nat /\ LooksLeft \in Nat
  BY DEF CallsLeft, LooksLeft, ProcInv, PlaceOK
<1>4. QED
  BY <1>1, <1>2, <1>3 DEF Ranked, Rank, Ranks

LEMMA RankTypedNext == ProcInv' => Ranked'
BY RankTyped, PTL

\* The four ways to come nearer.
LEMMA StageNearer == ASSUME ProcInv, ProcInv', StagesLeft' < StagesLeft PROVE Nearer
<1>1. Rank \in Ranks /\ Rank' \in Ranks /\ Rank'[1] < Rank[1]
  BY RankTyped, RankTypedNext DEF Ranked
<1>2. QED
  BY <1>1, Lower, 1 \in 1 .. 4 DEF Nearer

LEMMA ItemNearer ==
  ASSUME ProcInv, ProcInv', StagesLeft' = StagesLeft, ItemsLeft' < ItemsLeft
  PROVE  Nearer
<1>1. Rank \in Ranks /\ Rank' \in Ranks /\ Rank'[1] = Rank[1] /\ Rank'[2] < Rank[2]
  BY RankTyped, RankTypedNext DEF Ranked
<1>2. QED
  BY <1>1, Lower, 2 \in 1 .. 4 DEF Nearer

LEMMA CallNearer ==
  ASSUME ProcInv, ProcInv', StagesLeft' = StagesLeft, ItemsLeft' = ItemsLeft,
         CallsLeft' < CallsLeft
  PROVE  Nearer
<1>1. /\ Rank \in Ranks /\ Rank' \in Ranks
      /\ Rank'[1] = Rank[1] /\ Rank'[2] = Rank[2] /\ Rank'[3] < Rank[3]
  BY RankTyped, RankTypedNext DEF Ranked
<1>2. QED
  BY <1>1, Lower, 3 \in 1 .. 4 DEF Nearer

LEMMA LookNearer ==
  ASSUME ProcInv, ProcInv', StagesLeft' = StagesLeft, ItemsLeft' = ItemsLeft,
         CallsLeft' = CallsLeft, LooksLeft' < LooksLeft
  PROVE  Nearer
<1>1. /\ Rank \in Ranks /\ Rank' \in Ranks
      /\ Rank'[1] = Rank[1] /\ Rank'[2] = Rank[2] /\ Rank'[3] = Rank[3] /\ Rank'[4] < Rank[4]
  BY RankTyped, RankTypedNext DEF Ranked
<1>2. QED
  BY <1>1, Lower, 4 \in 1 .. 4 DEF Nearer

\* A stage that ends, however it ends.
LEMMA EndsNearer ==
  ASSUME ProcInv, ProcInv', AtStage, NEW v, NextStage(v)
  PROVE  Nearer
<1>1. si \in 1 .. 12 /\ Len(Stages) = 12 /\ StagesLeft = 14 - si
  BY StagesFacts DEF ProcInv, PlaceOK, StagesLeft, AtStage
<1>2. CASE si < 12
  <2>1. pc' = "check" /\ si' = si + 1
    BY <1>1, <1>2 DEF NextStage
  <2>2. StagesLeft' = 14 - (si + 1)
    BY <1>1, <2>1 DEF StagesLeft
  <2>3. QED
    BY <1>1, <2>2, StageNearer
<1>3. CASE ~(si < 12)
  <2>1. pc' \in {"cleanup", "done"}
    BY <1>1, <1>3 DEF NextStage
  <2>2. StagesLeft' \in {0, 1} /\ StagesLeft >= 2
    BY <1>1, <2>1 DEF StagesLeft
  <2>3. StagesLeft' < StagesLeft
    BY <1>1, <2>2
  <2>4. QED
    BY <2>3, StageNearer
<1>4. QED
  BY <1>2, <1>3

LEMMA FailsNearer == ASSUME ProcInv, ProcInv', AtStage, Fails PROVE Nearer
BY EndsNearer DEF Fails

LEMMA SameStage ==
  ASSUME opts' = opts, si' = si
  PROVE  Stage' = Stage /\ Plan(Stage)' = Plan(Stage)
BY DEF Stage, Plan

LEMMA NextItemNearer ==
  ASSUME ProcInv, ProcInv', InPlan, opts' = opts, NextItem
  PROVE  Nearer
<1>1. AtStage /\ ii \in 1 .. Len(Plan(Stage)) /\ Len(Plan(Stage)) \in Nat
  BY InPlanFacts, PlanFacts
<1>2. CASE ii < Len(Plan(Stage))
  <2>1. ii' = ii + 1 /\ pc' = "create" /\ si' = si
    BY <1>2 DEF NextItem
  <2>2. StagesLeft' = StagesLeft
    BY <1>1, <2>1 DEF StagesLeft, AtStage
  <2>3. ItemsLeft' < ItemsLeft
    BY <1>1, <2>1, SameStage DEF ItemsLeft, AtStage, InPlan
  <2>4. QED
    BY <2>2, <2>3, ItemNearer
<1>3. CASE ~(ii < Len(Plan(Stage)))
  BY <1>1, <1>3, EndsNearer DEF NextItem, Succeeds
<1>4. QED
  BY <1>2, <1>3

\* The next call for the same object.
LEMMA SameItem ==
  ASSUME ProcInv, InPlan, opts' = opts, UNCHANGED place, InPlan'
  PROVE  StagesLeft' = StagesLeft /\ ItemsLeft' = ItemsLeft
BY SameStage DEF place, StagesLeft, ItemsLeft, InPlan, AtStage

LEMMA AfterReadyNearer ==
  ASSUME ProcInv, ProcInv', pc = "poll", opts' = opts, NEW r, AfterReady(r)
  PROVE  Nearer
<1>1. InPlan
  BY DEF InPlan
<1>2. CASE Executed(r) \/ DeletedWhenDone(r)
  <2>1. pc' \in {"exec", "delete"} /\ UNCHANGED place
    BY <1>2 DEF AfterReady
  <2>2. InPlan' /\ CallsLeft' < CallsLeft
    BY <2>1 DEF InPlan, CallsLeft
  <2>3. QED
    BY <1>1, <2>1, <2>2, SameItem, CallNearer
<1>3. CASE ~(Executed(r) \/ DeletedWhenDone(r))
  BY <1>1, <1>3, NextItemNearer DEF AfterReady
<1>4. QED
  BY <1>2, <1>3

LEMMA BetweenNearer ==
  ASSUME ProcInv, ProcInv', SkipStage \/ Check \/ StartPlan
  PROVE  Nearer
<1>1. CASE SkipStage \/ Check
  BY <1>1, EndsNearer DEF SkipStage, Check, Succeeds, Fails, AtStage
<1>2. CASE StartPlan
  <2>1. /\ pc = "check" /\ pc' = "create" /\ ii' = 1 /\ si' = si /\ opts' = opts
        /\ Len(Plan(Stage)) \in Nat
    BY <1>2, PlanFacts DEF StartPlan
  <2>2. StagesLeft' = StagesLeft
    BY <2>1 DEF StagesLeft
  <2>3. ItemsLeft' < ItemsLeft
    BY <2>1, SameStage DEF ItemsLeft, AtStage
  <2>4. QED
    BY <2>2, <2>3, ItemNearer
<1>3. QED
  BY <1>1, <1>2

LEMMA CreateNearer == ASSUME ProcInv, ProcInv', Create \/ CreateFails PROVE Nearer
<1>1. InPlan /\ AtStage /\ opts' = opts /\ pc = "create"
  BY DEF Create, CreateFails, InPlan, AtStage
<1>2. CASE CreateFails
  BY <1>1, <1>2, FailsNearer DEF CreateFails
<1>3. CASE Create /\ Waited(Item)
  <2>1. pc' = "poll" /\ UNCHANGED place
    BY <1>3 DEF Create
  <2>2. InPlan' /\ CallsLeft' < CallsLeft
    BY <1>1, <2>1 DEF InPlan, CallsLeft
  <2>3. QED
    BY <1>1, <2>1, <2>2, SameItem, CallNearer
<1>4. CASE Create /\ ~Waited(Item)
  BY <1>1, <1>4, NextItemNearer DEF Create
<1>5. QED
  BY <1>2, <1>3, <1>4

\* A wait that goes on has looked once more.
LEMMA PollNearer == ASSUME ProcInv, ProcInv', Poll \/ PollFails PROVE Nearer
<1>1. InPlan /\ AtStage /\ opts' = opts /\ pc = "poll"
  BY DEF Poll, PollFails, InPlan, AtStage
<1>2. CASE Fails
  BY <1>1, <1>2, FailsNearer
<1>3. CASE AfterReady(Item)
  BY <1>1, <1>3, AfterReadyNearer
<1>4. CASE polls' = polls + 1 /\ UNCHANGED <<pc, place>>
  <2>1. InPlan' /\ CallsLeft' = CallsLeft
    BY <1>1, <1>4 DEF InPlan, CallsLeft
  <2>2. LooksLeft' < LooksLeft
    BY <1>4 DEF LooksLeft, ProcInv, PlaceOK
  <2>3. QED
    BY <1>1, <1>4, <2>1, <2>2, SameItem, LookNearer
<1>5. QED
  BY <1>2, <1>3, <1>4 DEF Poll, PollFails

LEMMA CommandNearer == ASSUME ProcInv, ProcInv', Exec \/ Answer \/ ExecTimeout PROVE Nearer
<1>1. InPlan /\ AtStage /\ opts' = opts
  BY DEF Exec, Answer, ExecTimeout, InPlan, AtStage
<1>2. CASE Fails
  BY <1>1, <1>2, FailsNearer
<1>3. CASE NextItem
  BY <1>1, <1>3, NextItemNearer
<1>4. CASE \/ pc = "exec" /\ pc' = "await" /\ UNCHANGED place
           \/ pc = "await" /\ pc' = "delete" /\ UNCHANGED place
  <2>1. InPlan' /\ CallsLeft' < CallsLeft
    BY <1>4 DEF InPlan, CallsLeft
  <2>2. QED
    BY <1>1, <1>4, <2>1, SameItem, CallNearer
<1>5. QED
  BY <1>2, <1>3, <1>4 DEF Exec, Answer, ExecTimeout

LEMMA RunNearer == ASSUME ProcInv, ProcInv', Run PROVE Nearer
<1>1. CASE DeletePod \/ DeletePodFails
  BY <1>1, NextItemNearer DEF DeletePod, DeletePodFails, InPlan
<1>2. CASE Cleanup
  BY <1>2, StageNearer DEF Cleanup, StagesLeft
<1>3. QED
  BY <1>1, <1>2, BetweenNearer, CreateNearer, PollNearer, CommandNearer DEF Run

\* What others do leaves the run where it is, or ends it.
LEMMA OthersKeep ==
  ASSUME ProcInv, ProcInv', [Next]_vars
  PROVE  Nearer \/ UNCHANGED Rank
<1>1. CASE Killed
  <2>1. StagesLeft' = 0
    BY <1>1 DEF Killed, StagesLeft
  <2>2. StagesLeft > 0
    BY <1>1, StagesFacts DEF Killed, StagesLeft, ProcInv, PlaceOK
  <2>3. QED
    BY <2>1, <2>2, StageNearer
<1>2. CASE \/ \E r \in Commanded : Stream(r)
           \/ \E ns \in {"install", "elsewhere"}, byUid \in BOOLEAN : UserCleanup(ns, byUid)
           \/ \E r \in Resource : Lands(r)
           \/ Intrusion
           \/ UNCHANGED vars
  <2>1. UNCHANGED <<opts, pc, si, ii, polls>>
    BY <1>2 DEF Stream, UserCleanup, Lands, Intrusion, place, vars
  <2>2. Stage' = Stage /\ Plan(Stage)' = Plan(Stage)
    BY <2>1, SameStage
  <2>3. QED
    BY <2>1, <2>2 DEF Rank, StagesLeft, ItemsLeft, CallsLeft, LooksLeft, AtStage
<1>3. QED
  BY <1>1, <1>2, RunNearer DEF Next

\* No run goes on for ever, however long pods and snapshots take and whatever others
\* do meanwhile: each of its steps lowers its rank, nothing raises it, and ranks
\* cannot be lowered endlessly.
THEOREM RunComesNearer ==
  /\ IsWellFoundedOn(Order, Ranks)
  /\ Spec => [](Rank \in Ranks) /\ [][(Run => Nearer) /\ (Nearer \/ UNCHANGED Rank)]_vars
<1>1. Full => Rank \in Ranks
  BY RankTyped DEF Full, Ranked
<1>2. Full /\ Full' /\ [Next]_vars => [(Run => Nearer) /\ (Nearer \/ UNCHANGED Rank)]_vars
  BY RunNearer, OthersKeep DEF Full
<1>3. Spec => [](Rank \in Ranks) /\ [][(Run => Nearer) /\ (Nearer \/ UNCHANGED Rank)]_vars
  BY <1>1, <1>2, FullAlways, PTL DEF Spec
<1>4. QED
  BY <1>3, OrderEnds
=============================================================================
