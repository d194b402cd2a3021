----------------------- MODULE PreflightCleanup_proofs -----------------------
(***************************************************************************)
(* Proofs about `preflight cleanup`, for any set of objects and            *)
(* finalizers, any number of served snapshot versions and of faults.       *)
(***************************************************************************)
EXTENDS PreflightCleanup, FiniteSetTheorems, WellFoundedInduction, TLAPS

USE StoreAssumption, CleanupAssumption

(***************************************************************************)
(* What one step of anybody does to the store.                             *)
(***************************************************************************)

\* A condemned object stays condemned, a released one stays released.
StoreFrame ==
  /\ StoreTypeOK'
  /\ StoreInv'
  /\ \A o \in Object :
       /\ phase[o] # "unborn" => phase'[o] # "unborn"
       /\ phase[o] \notin {"unborn", "live"} => phase'[o] \notin {"unborn", "live"}
       /\ Released(o) => Released(o)'

LEMMA RoundsFacts ==
  /\ Len(Rounds) \in Nat
  /\ DOMAIN Rounds = 1 .. Len(Rounds)
  /\ \A i \in DOMAIN Rounds : Rounds[i] \in Kind
<1>1. [i \in 1 .. SnapVersions |-> "VolumeSnapshot"] \in Seq(Kind)
  BY DEF CleanupAssumption, Kind
<1>2. <<"PersistentVolumeClaim", "Pod", "Namespace">> \in Seq(Kind)
  BY DEF Kind
<1>3. Rounds \in Seq(Kind)
  BY <1>1, <1>2 DEF Rounds
<1>4. QED
  BY <1>3

LEMMA LenRounds == Len(Rounds) \in Nat
BY RoundsFacts

LEMMA UnchangedFrame ==
  ASSUME StoreTypeOK, StoreInv, UNCHANGED storeVars
  PROVE  StoreFrame
BY DEF StoreFrame, StoreTypeOK, StoreInv, storeVars, Released

LEMMA DeleteFrame ==
  ASSUME StoreTypeOK, StoreInv, NEW o \in Object, phase[o] # "unborn", ApiDelete(o)
  PROVE  StoreFrame /\ phase'[o] # "live"
<1>1. PICK g \in Graceful(o) : phase' = [phase EXCEPT ![o] = DeletedPhase(o, g)]
  BY DEF ApiDelete
<1>2. g \in BOOLEAN /\ (g => Meta[o].kind \in {"Pod", "Namespace"})
  BY DEF Graceful
<1>3. QED
  BY <1>1, <1>2 DEF ApiDelete, DeletedPhase, StoreFrame, StoreTypeOK, StoreInv, Phase, Released

LEMMA DropFrame ==
  ASSUME StoreTypeOK, StoreInv, NEW o \in Object, NEW F \in SUBSET Finalizer,
         Stored(o), DropFinalizers(o, F)
  PROVE  StoreFrame
BY DEF DropFinalizers, Stored, StoreFrame, StoreTypeOK, StoreInv, Phase, Released

LEMMA OthersFrame ==
  ASSUME StoreTypeOK, StoreInv, Others
  PROVE  StoreFrame
<1>1. PICK o \in Object :
         \/ Create(o)
         \/ OtherDelete(o)
         \/ Drained(o)
         \/ \E f \in Finalizer : AddFinalizer(o, f) \/ OwnerRemoves(o, f)
  BY DEF Others
<1>2. CASE Create(o)
  BY <1>2 DEF Create, BornWith, StoreFrame, StoreTypeOK, StoreInv, Phase, Released
<1>3. CASE OtherDelete(o)
  BY <1>3, DeleteFrame DEF OtherDelete
<1>4. CASE Drained(o)
  BY <1>4 DEF Drained, StoreFrame, StoreTypeOK, StoreInv, Phase, Released
<1>5. ASSUME NEW f \in Finalizer, AddFinalizer(o, f)
      PROVE  StoreFrame
  BY <1>5 DEF AddFinalizer, StoreFrame, StoreTypeOK, StoreInv, Phase, Released
<1>6. ASSUME NEW f \in Finalizer, OwnerRemoves(o, f)
      PROVE  StoreFrame
  BY <1>6, DropFrame DEF OwnerRemoves
<1>7. QED
  BY <1>1, <1>2, <1>3, <1>4, <1>5, <1>6

(***************************************************************************)
(* Every step preserves the type invariant and the inductive invariant.    *)
(***************************************************************************)

InvNext == TypeOK' /\ IInv'

LEMMA InitInv == Init => TypeOK /\ IInv
<1> SUFFICES ASSUME Init
             PROVE  TypeOK /\ IInv
  OBVIOUS
<1>1. StoreTypeOK /\ StoreInv
  BY DEF Init, StoreInit, BornWith, StoreTypeOK, StoreInv, Phase
<1>2. cur \in Object
  BY DEF Init
<1>3. gi \in 1 .. Len(Rounds) + 1
  BY LenRounds DEF Init
<1>4. faults \in 0 .. MaxFaults
  BY DEF Init
<1>5. TypeOK
  BY <1>1, <1>2, <1>3, <1>4 DEF Init, TypeOK
<1>6. LoopInv /\ DueInv /\ StripInv /\ CauseInv
  BY DEF Init, LoopInv, DueInv, StripInv, CauseInv, Running, InRound
<1>7. QED
  BY <1>1, <1>5, <1>6 DEF IInv

LEMMA GetGVKListInv ==
  ASSUME TypeOK, IInv, GetGVKList
  PROVE  InvNext
<1>1. StoreFrame
  BY UnchangedFrame DEF GetGVKList, TypeOK, IInv
<1>2. TypeOK'
  <2>1. gi' \in 1 .. Len(Rounds) + 1
    BY LenRounds DEF GetGVKList, NoFault, Fault, End, TypeOK, IInv, LoopInv, InRound
  <2>2. faults' \in 0 .. MaxFaults
    BY DEF GetGVKList, NoFault, Fault, End, TypeOK
  <2>3. QED
    BY <1>1, <2>1, <2>2 DEF GetGVKList, NoFault, Fault, End, TypeOK, StoreFrame
<1>3. LoopInv'
  <2>1. ASSUME NEW o \in Object, o \in due'
        PROVE  phase'[o] # "unborn" /\ InScope(o)
    BY <1>1, <2>1 DEF GetGVKList, StoreFrame
  <2>2. pending' = pending /\ seenFins' = seenFins /\ due' \subseteq Object
    BY DEF GetGVKList
  <2>3. \A o \in (pending \cup due \cup seenFins)' : phase'[o] # "unborn" /\ InScope(o)
    BY <1>1, <2>1, <2>2 DEF IInv, LoopInv, StoreFrame, TypeOK
  <2>4. CASE pc' = "list" /\ NoFault /\ UNCHANGED result
    <3>1. pending = {} /\ result = "none" /\ result' = "none"
      BY <2>4 DEF GetGVKList, IInv, LoopInv
    <3>2. QED
      BY <2>2, <2>3, <2>4, <3>1 DEF LoopInv, InRound
  <2>5. CASE End("failure")
    BY <2>3, <2>5 DEF GetGVKList, End, LoopInv, InRound
  <2>6. QED
    BY <2>4, <2>5 DEF GetGVKList
<1>4. DueInv'
  BY <1>1, RoundsFacts DEF GetGVKList, NoFault, Fault, End, TypeOK, IInv, LoopInv, DueInv, StoreFrame, Running, InRound, RoundAhead, InScope
<1>5. StripInv'
  BY <1>1 DEF GetGVKList, NoFault, Fault, End, TypeOK, IInv, LoopInv, StripInv, StoreFrame, Running, InRound
<1>6. CauseInv'
  BY <1>1 DEF GetGVKList, NoFault, Fault, End, TypeOK, IInv, LoopInv, CauseInv, StoreFrame, Running, InRound, Cause
<1>7. QED
  BY <1>1, <1>2, <1>3, <1>4, <1>5, <1>6 DEF InvNext, IInv, StoreFrame

LEMMA ListInv ==
  ASSUME TypeOK, IInv, List
  PROVE  InvNext
<1>1. StoreFrame
  BY UnchangedFrame DEF List, TypeOK, IInv
<1>2. TypeOK'
  <2>1. gi' \in 1 .. Len(Rounds) + 1
    BY LenRounds DEF List, NoFault, Listing, InScope, Stored, TypeOK, IInv, LoopInv, InRound
  <2>2. faults' \in 0 .. MaxFaults
    BY DEF List, NoFault, Listing, InScope, Stored, TypeOK
  <2>3. QED
    BY <1>1, <2>1, <2>2 DEF List, NoFault, Listing, InScope, Stored, TypeOK, StoreFrame
<1>3. LoopInv'
  BY <1>1, RoundsFacts DEF List, NoFault, Listing, InScope, Stored, TypeOK, IInv, LoopInv, StoreFrame, InRound
<1>4. DueInv'
  BY <1>1, RoundsFacts DEF List, NoFault, Listing, InScope, Stored, TypeOK, IInv, LoopInv, DueInv, StoreFrame, Running, InRound, RoundAhead
<1>5. StripInv'
  BY <1>1 DEF List, NoFault, Listing, InScope, Stored, TypeOK, IInv, LoopInv, StripInv, StoreFrame, Running, InRound
<1>6. CauseInv'
  BY <1>1 DEF List, NoFault, Listing, InScope, Stored, TypeOK, IInv, LoopInv, CauseInv, StoreFrame, Running, InRound, Cause
<1>7. QED
  BY <1>1, <1>2, <1>3, <1>4, <1>5, <1>6 DEF InvNext, IInv, StoreFrame

LEMMA ListFailsInv ==
  ASSUME TypeOK, IInv, ListFails
  PROVE  InvNext
<1>1. StoreFrame
  BY UnchangedFrame DEF ListFails, TypeOK, IInv
<1>2. TypeOK'
  <2>1. gi' \in 1 .. Len(Rounds) + 1
    BY LenRounds DEF ListFails, Fault, TypeOK, IInv, LoopInv, InRound
  <2>2. faults' \in 0 .. MaxFaults
    BY DEF ListFails, Fault, TypeOK
  <2>3. QED
    BY <1>1, <2>1, <2>2 DEF ListFails, Fault, TypeOK, StoreFrame
<1>3. LoopInv'
  BY <1>1, RoundsFacts DEF ListFails, Fault, TypeOK, IInv, LoopInv, StoreFrame, InRound
<1>4. DueInv'
  BY <1>1, RoundsFacts DEF ListFails, Fault, TypeOK, IInv, LoopInv, DueInv, StoreFrame, Running, InRound, RoundAhead
<1>5. StripInv'
  BY <1>1 DEF ListFails, Fault, TypeOK, IInv, LoopInv, StripInv, StoreFrame, Running, InRound
<1>6. CauseInv'
  BY <1>1 DEF ListFails, Fault, TypeOK, IInv, LoopInv, CauseInv, StoreFrame, Running, InRound, Cause
<1>7. QED
  BY <1>1, <1>2, <1>3, <1>4, <1>5, <1>6 DEF InvNext, IInv, StoreFrame

LEMMA NextRoundInv ==
  ASSUME TypeOK, IInv, NextRound
  PROVE  InvNext
<1>1. StoreFrame
  BY UnchangedFrame DEF NextRound, TypeOK, IInv
<1>2. TypeOK'
  <2>1. gi' \in 1 .. Len(Rounds) + 1
    BY LenRounds DEF NextRound, histVars, TypeOK, IInv, LoopInv, InRound
  <2>2. faults' \in 0 .. MaxFaults
    BY DEF NextRound, histVars, TypeOK
  <2>3. QED
    BY <1>1, <2>1, <2>2 DEF NextRound, histVars, TypeOK, StoreFrame
<1>3. LoopInv'
  BY <1>1, RoundsFacts DEF NextRound, histVars, TypeOK, IInv, LoopInv, StoreFrame, InRound
<1>4. DueInv'
  BY <1>1, RoundsFacts DEF NextRound, histVars, TypeOK, IInv, LoopInv, DueInv, StoreFrame, Running, InRound, RoundAhead
<1>5. StripInv'
  BY <1>1 DEF NextRound, histVars, TypeOK, IInv, LoopInv, StripInv, StoreFrame, Running, InRound
<1>6. CauseInv'
  BY <1>1 DEF NextRound, histVars, TypeOK, IInv, LoopInv, CauseInv, StoreFrame, Running, InRound, Cause
<1>7. QED
  BY <1>1, <1>2, <1>3, <1>4, <1>5, <1>6 DEF InvNext, IInv, StoreFrame

\* All the ways of being done with an item preserve the invariant.
LEMMA ItemDoneInv ==
  ASSUME TypeOK, IInv, StoreFrame, InRound,
         NEW o \in Object, o \in pending, NEW ok \in BOOLEAN, ItemDone(o, ok),
         faults' \in 0 .. MaxFaults, faulted' \in BOOLEAN, faulted => faulted',
         ok => phase'[o] # "live" /\ (o \in withFins => Released(o)'),
         ~ok => faulted' \/ (o \in seenFins /\ Cause(o)')
  PROVE  InvNext
<1>1. /\ pending' = pending \ {o}
      /\ pc' = "delete"
      /\ gi' = gi /\ withFins' = withFins /\ cur' = cur
      /\ result' = result /\ due' = due /\ seenFins' = seenFins
  BY DEF ItemDone
<1>2. allSuccess' \in BOOLEAN /\ (allSuccess' <=> (allSuccess /\ ok))
  BY DEF ItemDone, TypeOK
<1>3. TypeOK'
  BY <1>1, <1>2 DEF TypeOK, StoreFrame
<1>4. pc # "done" /\ pc # "start" /\ result = "none" /\ Running /\ Running' /\ InRound'
  BY <1>1 DEF InRound, IInv, LoopInv, Running
<1>5. LoopInv'
  BY <1>1, <1>4 DEF IInv, LoopInv, StoreFrame, InRound, TypeOK
<1>6. DueInv'
  <2>1. ASSUME allSuccess', NEW d \in due', phase'[d] = "live"
        PROVE  d \in pending' \/ RoundAhead(d)'
    <3>1. allSuccess /\ ok
      BY <1>2, <2>1
    <3>2. d # o
      BY <2>1, <3>1
    <3>3. phase[d] = "live"
      BY <1>1, <2>1 DEF StoreFrame, IInv, LoopInv, StoreTypeOK, Phase, TypeOK
    <3>4. d \in pending \/ RoundAhead(d)
      BY <1>1, <1>4, <2>1, <3>1, <3>3 DEF IInv, DueInv
    <3>5. CASE d \in pending
      BY <1>1, <3>2, <3>5
    <3>6. CASE RoundAhead(d)
      BY <1>1, <1>4, <3>6 DEF RoundAhead, InRound
    <3>7. QED
      BY <3>4, <3>5, <3>6
  <2>2. QED
    BY <1>1, <1>4, <2>1 DEF DueInv
<1>7. StripInv'
  <2>1. ASSUME allSuccess', NEW d \in seenFins'
        PROVE  Released(d)' \/ d \in (pending \cap withFins)'
    <3>1. allSuccess /\ ok /\ d \in Object
      BY <1>1, <1>2, <2>1 DEF TypeOK
    <3>2. Released(d) \/ d \in pending \cap withFins
      BY <1>1, <1>4, <2>1, <3>1 DEF IInv, StripInv
    <3>3. QED
      BY <1>1, <3>1, <3>2 DEF StoreFrame
  <2>2. QED
    BY <1>1, <1>4, <2>1 DEF StripInv
<1>8. CauseInv'
  <2>1. ASSUME ~faulted', ~allSuccess'
        PROVE  \E d \in seenFins' : Cause(d)'
    <3>1. ~faulted
      BY <2>1
    <3>2. CASE ok
      <4>1. PICK d \in seenFins : Cause(d)
        BY <1>2, <1>4, <2>1, <3>1, <3>2 DEF IInv, CauseInv
      <4>2. Cause(d)'
        BY <4>1 DEF Cause, StoreFrame, TypeOK
      <4>3. QED
        BY <1>1, <4>2
    <3>3. CASE ~ok
      BY <1>1, <2>1, <3>3
    <3>4. QED
      BY <3>2, <3>3
  <2>2. QED
    BY <1>1, <1>4, <2>1 DEF CauseInv
<1>9. QED
  BY <1>3, <1>5, <1>6, <1>7, <1>8 DEF InvNext, IInv, StoreFrame

LEMMA ReturnInv ==
  ASSUME TypeOK, IInv, Return
  PROVE  InvNext
<1>1. StoreFrame
  BY UnchangedFrame DEF Return, TypeOK, IInv
<1>2. TypeOK'
  <2>1. gi' \in 1 .. Len(Rounds) + 1
    BY LenRounds DEF Return, histVars, End, TypeOK, IInv, LoopInv, InRound
  <2>2. faults' \in 0 .. MaxFaults
    BY DEF Return, histVars, End, TypeOK
  <2>3. QED
    BY <1>1, <2>1, <2>2 DEF Return, histVars, End, TypeOK, StoreFrame
<1>3. LoopInv'
  BY <1>1, RoundsFacts DEF Return, histVars, End, TypeOK, IInv, LoopInv, StoreFrame, InRound
<1>4. DueInv'
  BY <1>1, RoundsFacts DEF Return, histVars, End, TypeOK, IInv, LoopInv, DueInv, StoreFrame, Running, InRound, RoundAhead
<1>5. StripInv'
  BY <1>1 DEF Return, histVars, End, TypeOK, IInv, LoopInv, StripInv, StoreFrame, Running, InRound
<1>6. CauseInv'
  BY <1>1 DEF Return, histVars, End, TypeOK, IInv, LoopInv, CauseInv, StoreFrame, Running, InRound, Cause
<1>7. QED
  BY <1>1, <1>2, <1>3, <1>4, <1>5, <1>6 DEF InvNext, IInv, StoreFrame

LEMMA CrashInv ==
  ASSUME TypeOK, IInv, Crash
  PROVE  InvNext
<1>1. StoreFrame
  BY UnchangedFrame DEF Crash, TypeOK, IInv
<1>2. TypeOK'
  <2>1. gi' \in 1 .. Len(Rounds) + 1
    BY LenRounds DEF Crash, Fault, End, TypeOK, IInv, LoopInv, InRound
  <2>2. faults' \in 0 .. MaxFaults
    BY DEF Crash, Fault, End, TypeOK
  <2>3. QED
    BY <1>1, <2>1, <2>2 DEF Crash, Fault, End, TypeOK, StoreFrame
<1>3. LoopInv'
  BY <1>1, RoundsFacts DEF Crash, Fault, End, TypeOK, IInv, LoopInv, StoreFrame, InRound
<1>4. DueInv'
  BY <1>1, RoundsFacts DEF Crash, Fault, End, TypeOK, IInv, LoopInv, DueInv, StoreFrame, Running, InRound, RoundAhead
<1>5. StripInv'
  BY <1>1 DEF Crash, Fault, End, TypeOK, IInv, LoopInv, StripInv, StoreFrame, Running, InRound
<1>6. CauseInv'
  BY <1>1 DEF Crash, Fault, End, TypeOK, IInv, LoopInv, CauseInv, StoreFrame, Running, InRound, Cause
<1>7. QED
  BY <1>1, <1>2, <1>3, <1>4, <1>5, <1>6 DEF InvNext, IInv, StoreFrame

LEMMA RerunInv ==
  ASSUME TypeOK, IInv, Rerun
  PROVE  InvNext
<1>1. StoreFrame
  BY UnchangedFrame DEF Rerun, TypeOK, IInv
<1>2. TypeOK'
  <2>1. gi' \in 1 .. Len(Rounds) + 1
    BY LenRounds DEF Rerun, TypeOK, IInv, LoopInv, InRound
  <2>2. faults' \in 0 .. MaxFaults
    BY DEF Rerun, TypeOK
  <2>3. QED
    BY <1>1, <2>1, <2>2 DEF Rerun, TypeOK, StoreFrame
<1>3. LoopInv'
  BY <1>1, RoundsFacts DEF Rerun, TypeOK, IInv, LoopInv, StoreFrame, InRound
<1>4. DueInv'
  BY <1>1, RoundsFacts DEF Rerun, TypeOK, IInv, LoopInv, DueInv, StoreFrame, Running, InRound, RoundAhead
<1>5. StripInv'
  BY <1>1 DEF Rerun, TypeOK, IInv, LoopInv, StripInv, StoreFrame, Running, InRound
<1>6. CauseInv'
  BY <1>1 DEF Rerun, TypeOK, IInv, LoopInv, CauseInv, StoreFrame, Running, InRound, Cause
<1>7. QED
  BY <1>1, <1>2, <1>3, <1>4, <1>5, <1>6 DEF InvNext, IInv, StoreFrame

\* DELETE was accepted: done with the item, or on to its finalizers.
LEMMA AfterDeleteInv ==
  ASSUME TypeOK, IInv, StoreFrame, pc = "delete", NEW o \in pending, NoFault,
         phase'[o] # "live", AfterDelete(o)
  PROVE  InvNext
<1>1. o \in Object /\ InRound
  BY DEF TypeOK, InRound
<1>2. CASE o \notin withFins
  <2>1. ItemDone(o, TRUE)
    BY <1>2 DEF AfterDelete
  <2>2. faults' \in 0 .. MaxFaults /\ faulted' \in BOOLEAN /\ (faulted => faulted')
    BY DEF NoFault, TypeOK
  <2>3. QED
    BY <1>1, <1>2, <2>1, <2>2, ItemDoneInv
<1>3. CASE o \in withFins
  <2>1. /\ pc' = "get" /\ cur' = o
        /\ UNCHANGED <<gi, pending, withFins, allSuccess, result, due, seenFins, faults, faulted>>
    BY <1>3 DEF AfterDelete, NoFault
  <2>2. TypeOK'
    BY <1>1, <2>1 DEF TypeOK, StoreFrame
  <2>3. LoopInv'
    BY <1>1, <1>3, <2>1 DEF IInv, LoopInv, StoreFrame, InRound, TypeOK
  <2>4. DueInv'
    BY <1>1, <2>1 DEF IInv, LoopInv, DueInv, StoreFrame, InRound, Running, RoundAhead, TypeOK
  <2>5. StripInv'
    BY <1>1, <2>1 DEF IInv, LoopInv, StripInv, StoreFrame, InRound, Running, TypeOK
  <2>6. CauseInv'
    BY <1>1, <2>1 DEF IInv, LoopInv, CauseInv, StoreFrame, Running, Cause, TypeOK
  <2>7. QED
    BY <2>2, <2>3, <2>4, <2>5, <2>6 DEF InvNext, IInv, StoreFrame
<1>4. QED
  BY <1>2, <1>3

\* A pending item that is no longer stored is gone, hence released.
LEMMA NotStored ==
  ASSUME TypeOK, IInv, NEW o \in pending, ~Stored(o)
  PROVE  phase[o] = "gone" /\ Released(o)
BY DEF TypeOK, IInv, LoopInv, StoreInv, StoreTypeOK, Phase, Stored, Released

LEMMA DeleteInv ==
  ASSUME TypeOK, IInv, NEW o \in Object, Delete(o)
  PROVE  InvNext
<1>1. pc = "delete" /\ o \in pending /\ NoFault /\ InRound
  BY DEF Delete, InRound
<1>2. faults' \in 0 .. MaxFaults /\ faulted' \in BOOLEAN /\ (faulted => faulted')
  BY <1>1 DEF NoFault, TypeOK
<1>3. CASE Stored(o) /\ ApiDelete(o) /\ AfterDelete(o)
  <2>1. StoreFrame /\ phase'[o] # "live"
    BY <1>3, DeleteFrame DEF Stored, TypeOK, IInv
  <2>2. QED
    BY <1>1, <1>3, <2>1, AfterDeleteInv
<1>4. CASE ~Stored(o) /\ ItemDone(o, TRUE) /\ UNCHANGED storeVars
  <2>1. StoreFrame
    BY <1>4, UnchangedFrame DEF TypeOK, IInv
  <2>2. phase'[o] # "live" /\ Released(o)'
    BY <1>1, <1>4, <2>1, NotStored DEF storeVars, StoreFrame
  <2>3. QED
    BY <1>1, <1>2, <1>4, <2>1, <2>2, ItemDoneInv
<1>5. QED
  BY <1>3, <1>4 DEF Delete

\* A failed call is counted, so any outcome of the item is accounted for.
LEMMA FaultInv ==
  ASSUME TypeOK, IInv, StoreFrame, InRound, NEW o \in pending, Fault, ItemDone(o, FALSE)
  PROVE  InvNext
<1>1. faults' \in 0 .. MaxFaults /\ faulted' = TRUE
  BY DEF Fault, TypeOK
<1>2. o \in Object
  BY DEF TypeOK
<1>3. QED
  BY <1>1, <1>2, ItemDoneInv

LEMMA DeleteFailsInv ==
  ASSUME TypeOK, IInv, NEW o \in Object, DeleteFails(o)
  PROVE  InvNext
<1>1. StoreFrame
  BY UnchangedFrame, DeleteFrame DEF DeleteFails, Stored, TypeOK, IInv
<1>2. QED
  BY <1>1, FaultInv DEF DeleteFails, InRound

LEMMA GetFailsInv ==
  ASSUME TypeOK, IInv, GetFails
  PROVE  InvNext
<1>1. StoreFrame
  BY UnchangedFrame DEF GetFails, TypeOK, IInv
<1>2. cur \in pending /\ InRound
  BY DEF GetFails, IInv, LoopInv, InRound
<1>3. QED
  BY <1>1, <1>2, FaultInv DEF GetFails

LEMMA PatchFailsInv ==
  ASSUME TypeOK, IInv, PatchFails
  PROVE  InvNext
<1>1. StoreFrame
  BY UnchangedFrame, DropFrame DEF PatchFails, TypeOK, IInv
<1>2. cur \in pending /\ InRound
  BY DEF PatchFails, IInv, LoopInv, InRound
<1>3. QED
  BY <1>1, <1>2, FaultInv DEF PatchFails

LEMMA GetLatestInv ==
  ASSUME TypeOK, IInv, GetLatest
  PROVE  InvNext
<1>1. StoreFrame
  BY UnchangedFrame DEF GetLatest, TypeOK, IInv
<1>. PICK c \in Object : c = cur
  BY DEF TypeOK
<1>2. /\ pc = "get" /\ c \in pending /\ c \in withFins /\ InRound
      /\ c \in seenFins /\ phase[c] # "live" /\ phase' = phase /\ fins' = fins
  BY DEF GetLatest, TypeOK, IInv, LoopInv, InRound, storeVars
<1>3. faults' \in 0 .. MaxFaults /\ faulted' \in BOOLEAN /\ (faulted => faulted')
  BY DEF GetLatest, NoFault, TypeOK
<1>4. CASE Meta[c].kind = "Namespace" /\ ItemDone(c, FALSE)
  <2>1. Cause(c)'
    BY <1>2, <1>4 DEF Cause, ItemDone
  <2>2. QED
    BY <1>1, <1>2, <1>3, <1>4, <2>1, ItemDoneInv DEF Cause
<1>5. CASE ~Stored(c) /\ ItemDone(c, TRUE)
  <2>1. Released(c)'
    BY <1>1, <1>2, <1>5, NotStored DEF StoreFrame, ItemDone
  <2>2. QED
    BY <1>1, <1>2, <1>3, <1>5, <2>1, ItemDoneInv
<1>6. CASE /\ Meta[c].kind # "Namespace"
           /\ pc' = "patch"
           /\ UNCHANGED <<gi, pending, withFins, cur, allSuccess, result, due, seenFins>>
  <2>1. TypeOK'
    BY <1>1, <1>3, <1>6 DEF TypeOK, StoreFrame
  <2>2. LoopInv'
    BY <1>1, <1>2, <1>6 DEF IInv, LoopInv, InRound, TypeOK
  <2>3. DueInv' /\ StripInv'
    BY <1>1, <1>2, <1>6 DEF IInv, DueInv, StripInv, InRound, Running, RoundAhead, Released
  <2>4. CauseInv'
    BY <1>1, <1>2, <1>6 DEF GetLatest, NoFault, IInv, CauseInv, Running, Cause, Released
  <2>5. QED
    BY <1>1, <2>1, <2>2, <2>3, <2>4 DEF InvNext, IInv, StoreFrame
<1>7. QED
  BY <1>4, <1>5, <1>6 DEF GetLatest

LEMMA PatchInv ==
  ASSUME TypeOK, IInv, Patch
  PROVE  InvNext
<1>. PICK c \in Object : c = cur
  BY DEF TypeOK
<1>1. /\ c \in pending /\ c \in seenFins /\ InRound
      /\ phase[c] # "live" /\ Meta[c].kind # "Namespace"
  BY DEF Patch, TypeOK, IInv, LoopInv, InRound
<1>2. faults' \in 0 .. MaxFaults /\ faulted' \in BOOLEAN /\ (faulted => faulted')
  BY DEF Patch, NoFault, TypeOK
<1>3. CASE Stored(c) /\ fins[c] # {} /\ DropFinalizers(c, Finalizer) /\ ItemDone(c, TRUE)
  <2>1. StoreFrame
    BY <1>1, <1>3, DropFrame DEF TypeOK, IInv
  <2>3. Released(c)'
    BY <1>1, <1>3 DEF DropFinalizers, Stored, Released, TypeOK, StoreTypeOK, Phase
  <2>4. QED
    BY <1>1, <1>2, <1>3, <2>1, <2>3, ItemDoneInv DEF Released
<1>4. CASE Stored(c) /\ fins[c] = {} /\ ItemDone(c, FALSE) /\ UNCHANGED storeVars
  <2>1. StoreFrame
    BY <1>4, UnchangedFrame DEF TypeOK, IInv
  <2>2. Cause(c)
    BY <1>1, <1>4 DEF Stored, Cause, Released, TypeOK, IInv, StoreInv
  <2>3. Cause(c)'
    BY <1>4, <2>2 DEF Cause, Released, storeVars, ItemDone
  <2>4. QED
    BY <1>1, <1>2, <1>4, <2>1, <2>3, ItemDoneInv
<1>5. CASE ~Stored(c) /\ ItemDone(c, TRUE) /\ UNCHANGED storeVars
  <2>1. StoreFrame
    BY <1>5, UnchangedFrame DEF TypeOK, IInv
  <2>2. Released(c)' /\ phase'[c] # "live"
    BY <1>1, <1>5, NotStored DEF storeVars, ItemDone, Released
  <2>3. QED
    BY <1>1, <1>2, <1>5, <2>1, <2>2, ItemDoneInv
<1>6. QED
  BY <1>3, <1>4, <1>5 DEF Patch

\* Steps of the others, and stuttering, leave the command's variables alone.
LEMMA QuietInv ==
  ASSUME TypeOK, IInv, StoreFrame, UNCHANGED <<procVars, faults, histVars>>
  PROVE  InvNext
<1>1. TypeOK'
  BY DEF TypeOK, StoreFrame, procVars, histVars
<1>2. LoopInv'
  BY DEF IInv, LoopInv, StoreFrame, InRound, TypeOK, procVars, histVars, StoreTypeOK, Phase
<1>3. DueInv'
  BY DEF IInv, LoopInv, DueInv, StoreFrame, InRound, Running, RoundAhead, TypeOK, procVars,
         histVars, StoreTypeOK, Phase
<1>4. StripInv'
  BY DEF IInv, StripInv, StoreFrame, InRound, Running, TypeOK, procVars, histVars
<1>5. CauseInv'
  BY DEF IInv, CauseInv, StoreFrame, Running, Cause, TypeOK, procVars, histVars
<1>6. QED
  BY <1>1, <1>2, <1>3, <1>4, <1>5 DEF InvNext, IInv, StoreFrame

LEMMA NextInv ==
  ASSUME TypeOK, IInv, [Next]_vars
  PROVE  InvNext
<1>1. CASE Command
  BY <1>1, GetGVKListInv, ListInv, ListFailsInv, NextRoundInv, DeleteInv, DeleteFailsInv,
     GetLatestInv, GetFailsInv, PatchInv, PatchFailsInv, ReturnInv DEF Command
<1>2. CASE OthersStep
  <2>1. StoreFrame
    BY <1>2, OthersFrame DEF OthersStep, TypeOK, IInv
  <2>2. QED
    BY <1>2, <2>1, QuietInv DEF OthersStep
<1>3. CASE UNCHANGED vars
  <2>1. StoreFrame
    BY <1>3, UnchangedFrame DEF vars, storeVars, TypeOK, IInv
  <2>2. QED
    BY <1>3, <2>1, QuietInv DEF vars, procVars, histVars
<1>4. QED
  BY <1>1, <1>2, <1>3, CrashInv, RerunInv DEF Next

(***************************************************************************)
(* The theorems.                                                           *)
(***************************************************************************)

LEMMA InvAlways == Spec => [](TypeOK /\ IInv)
<1>1. TypeOK /\ IInv /\ [Next]_vars => (TypeOK /\ IInv)'
  BY NextInv DEF InvNext
<1>2. QED
  BY InitInv, <1>1, PTL DEF Spec

\* The variables of the command and of the store keep their types.
THEOREM TypeCorrect == Spec => []TypeOK
BY InvAlways, PTL

\* cleanup.go:98: "All preflight resources cleaned" is only said when every
\* object due has been deleted.
THEOREM CondemnedOnSuccess == Spec => []SuccessMeansCondemned
<1>1. TypeOK /\ IInv => SuccessMeansCondemned
  BY DEF TypeOK, IInv, LoopInv, DueInv, SuccessMeansCondemned, StoreTypeOK, Phase, Terminating
<1>2. QED
  BY InvAlways, <1>1, PTL

\* helper.go:706-712: after a success nothing listed with finalizers is held by one.
THEOREM StrippedOnSuccess == Spec => []SuccessMeansStripped
<1>1. IInv => SuccessMeansStripped
  BY DEF IInv, StripInv, SuccessMeansStripped
<1>2. QED
  BY InvAlways, <1>1, PTL

\* helper.go:665-704: the only failures without a failed call are those of
\* removeFinalizer on a namespace and on a pod that lost its finalizers meanwhile.
THEOREM FailuresExplained == Spec => []FailureHasCause
<1>1. IInv => FailureHasCause
  BY DEF IInv, CauseInv, FailureHasCause
<1>2. QED
  BY InvAlways, <1>1, PTL

(***************************************************************************)
(* Action properties.                                                      *)
(***************************************************************************)

\* An object that a step of the command changes is one it listed; only an
\* object whose deletion was accepted loses finalizers.
LEMMA CommandTouches ==
  ASSUME TypeOK, IInv, Command, NEW o \in Object,
         phase'[o] # phase[o] \/ fins'[o] # fins[o]
  PROVE  InScope(o) /\ (fins'[o] # fins[o] => phase[o] # "live")
<1>1. CASE \E d \in Object : Delete(d) \/ DeleteFails(d)
  <2>1. PICK d \in pending : UNCHANGED storeVars \/ ApiDelete(d)
    BY <1>1 DEF Delete, DeleteFails
  <2>2. d = o /\ fins' = fins
    BY <2>1 DEF ApiDelete, storeVars, TypeOK, StoreTypeOK
  <2>3. QED
    BY <2>2 DEF IInv, LoopInv
<1>2. CASE Patch \/ PatchFails
  <2>1. UNCHANGED storeVars \/ DropFinalizers(cur, Finalizer)
    BY <1>2 DEF Patch, PatchFails
  <2>2. cur \in pending /\ phase[cur] # "live"
    BY <1>2 DEF Patch, PatchFails, IInv, LoopInv
  <2>3. cur = o
    BY <2>1 DEF DropFinalizers, storeVars, TypeOK, StoreTypeOK
  <2>4. QED
    BY <2>2, <2>3 DEF IInv, LoopInv
<1>3. CASE UNCHANGED storeVars
  BY <1>3 DEF storeVars
<1>4. QED
  BY <1>1, <1>2, <1>3 DEF Command, GetGVKList, List, ListFails, NextRound, GetLatest, GetFails, Return

LEMMA NextTouches ==
  ASSUME TypeOK, IInv, [Next]_vars, NEW o \in Object, procVars' # procVars,
         phase'[o] # phase[o] \/ fins'[o] # fins[o]
  PROVE  InScope(o) /\ (fins'[o] # fins[o] => phase[o] # "live")
<1>1. Command \/ Crash \/ Rerun
  BY DEF Next, OthersStep, vars, procVars
<1>2. ~Crash /\ ~Rerun
  BY DEF Crash, Rerun, storeVars
<1>3. QED
  BY <1>1, <1>2, CommandTouches

\* cleanup.go:51-65: labels and namespace in the List bound what is deleted
\* and stripped.
THEOREM OnlyScope == Spec => OnlyInScopeTouched
<1>1. TypeOK /\ IInv /\ [Next]_vars =>
        [\A o \in Object :
           procVars' # procVars /\ <<phase[o], fins[o]>>' # <<phase[o], fins[o]>>
             => InScope(o)]_vars
  BY NextTouches
<1>2. QED
  BY InvAlways, <1>1, PTL DEF Spec, OnlyInScopeTouched

\* helper.go:706-712: finalizers are removed only after DELETE was accepted.
THEOREM LiveKeep == Spec => LiveKeepFinalizers
<1>1. TypeOK /\ IInv /\ [Next]_vars =>
        [\A o \in Object :
           phase[o] = "live" /\ procVars' # procVars => fins'[o] = fins[o]]_vars
  BY NextTouches
<1>2. QED
  BY InvAlways, <1>1, PTL DEF Spec, LiveKeepFinalizers

(***************************************************************************)
(* The command implements CleanupPromise.                                  *)
(***************************************************************************)

\* What a step on the store is to the promise.
SameObjects == There' = There /\ Condemned' = Condemned
Appears(o) ==
  o \notin There \cup Condemned /\ There' = There \cup {o} /\ Condemned' = Condemned
IsCondemned(o) ==
  o \in There /\ There' = There \ {o} /\ Condemned' = Condemned \cup {o}
StoreImage == SameObjects \/ \E o \in Object : Appears(o) \/ IsCondemned(o)

\* When one object changes its phase, only its own membership can change.
LEMMA PhaseImage ==
  ASSUME StoreTypeOK, NEW o \in Object, NEW p \in Phase,
         phase' = [phase EXCEPT ![o] = p],
         \/ phase[o] = p
         \/ phase[o] = "unborn" /\ p = "live"
         \/ phase[o] # "unborn" /\ p \notin {"unborn", "live"}
  PROVE  StoreImage
<1>. DEFINE dead == {"draining", "finalizing", "gone"}
<1>1. /\ There = {x \in Object : phase[x] = "live"}
      /\ There' = {x \in Object : phase'[x] = "live"}
      /\ Condemned = {x \in Object : phase[x] \in dead}
      /\ Condemned' = {x \in Object : phase'[x] \in dead}
  BY DEF There, Condemned, Terminating
<1>2. phase'[o] = p /\ \A x \in Object \ {o} : phase'[x] = phase[x]
  BY DEF StoreTypeOK
<1>3. CASE phase[o] = p
  BY <1>1, <1>2, <1>3 DEF StoreImage, SameObjects
<1>4. CASE phase[o] = "unborn" /\ p = "live"
  BY <1>1, <1>2, <1>4 DEF StoreImage, Appears
<1>5. CASE phase[o] # "unborn" /\ p \notin {"unborn", "live"} /\ phase[o] = "live"
  <2>1. p \in dead
    BY <1>5 DEF Phase
  <2>2. IsCondemned(o)
    BY <1>1, <1>2, <1>5, <2>1 DEF IsCondemned
  <2>3. QED
    BY <2>2 DEF StoreImage
<1>6. CASE phase[o] # "unborn" /\ p \notin {"unborn", "live"} /\ phase[o] # "live"
  <2>1. p \in dead /\ phase[o] \in dead
    BY <1>6 DEF Phase, StoreTypeOK
  <2>2. QED
    BY <1>1, <1>2, <2>1 DEF StoreImage, SameObjects
<1>7. QED
  BY <1>3, <1>4, <1>5, <1>6

LEMMA UnchangedImage ==
  ASSUME phase' = phase
  PROVE  SameObjects
BY DEF SameObjects, There, Condemned, Terminating

LEMMA DeleteImage ==
  ASSUME StoreTypeOK, NEW o \in Object, phase[o] # "unborn", ApiDelete(o)
  PROVE  StoreImage
<1>1. PICK g \in Graceful(o) : phase' = [phase EXCEPT ![o] = DeletedPhase(o, g)]
  BY DEF ApiDelete
<1>2. DeletedPhase(o, g) \in Phase /\ DeletedPhase(o, g) # "unborn"
  BY DEF DeletedPhase, StoreTypeOK, Phase
<1>3. DeletedPhase(o, g) = phase[o] \/ DeletedPhase(o, g) # "live"
  BY DEF DeletedPhase
<1>4. QED
  BY <1>1, <1>2, <1>3, PhaseImage

LEMMA DropImage ==
  ASSUME StoreTypeOK, NEW o \in Object, NEW F, Stored(o), DropFinalizers(o, F)
  PROVE  StoreImage
<1>. DEFINE p == IF phase[o] = "finalizing" /\ fins[o] \subseteq F THEN "gone" ELSE phase[o]
<1>1. phase' = [phase EXCEPT ![o] = p]
  BY DEF DropFinalizers, StoreTypeOK
<1>2. p \in Phase /\ (p # phase[o] => p = "gone" /\ phase[o] = "finalizing")
  BY DEF StoreTypeOK, Phase
<1>. HIDE DEF p
<1>3. QED
  BY <1>1, <1>2, PhaseImage

LEMMA OthersImage ==
  ASSUME StoreTypeOK, Others
  PROVE  StoreImage
<1>1. PICK o \in Object :
         \/ Create(o)
         \/ OtherDelete(o)
         \/ Drained(o)
         \/ \E f \in Finalizer : AddFinalizer(o, f) \/ OwnerRemoves(o, f)
  BY DEF Others
<1>2. CASE Create(o)
  BY <1>2, PhaseImage DEF Create, Phase
<1>3. CASE OtherDelete(o)
  BY <1>3, DeleteImage DEF OtherDelete
<1>4. CASE Drained(o)
  <2>. DEFINE p == IF fins[o] = {} THEN "gone" ELSE "finalizing"
  <2>1. phase' = [phase EXCEPT ![o] = p] /\ phase[o] = "draining"
    BY <1>4 DEF Drained
  <2>2. p \in Phase /\ p \notin {"unborn", "live"}
    BY DEF Phase
  <2>. HIDE DEF p
  <2>3. QED
    BY <2>1, <2>2, PhaseImage
<1>5. ASSUME NEW f \in Finalizer, AddFinalizer(o, f)
      PROVE  StoreImage
  BY <1>5, UnchangedImage DEF AddFinalizer, StoreImage
<1>6. ASSUME NEW f \in Finalizer, OwnerRemoves(o, f)
      PROVE  StoreImage
  BY <1>6, DropImage DEF OwnerRemoves
<1>7. QED
  BY <1>1, <1>2, <1>3, <1>4, <1>5, <1>6

\* A store step that changes neither the answer nor what is owed.
LEMMA ImageNext ==
  ASSUME StoreImage, Answer' = Answer, due' = due
  PROVE  [Promise!Next]_(Promise!vars)
BY DEF StoreImage, SameObjects, Appears, IsCondemned, Promise!Next, Promise!vars,
       Promise!Appear, Promise!Condemn

\* Steps inside the loop: the command keeps running.
LEMMA LoopImage ==
  ASSUME TypeOK, IInv,
         \/ List \/ ListFails \/ NextRound \/ GetLatest \/ GetFails \/ Patch \/ PatchFails
         \/ \E o \in Object : Delete(o) \/ DeleteFails(o)
  PROVE  StoreImage /\ Answer' = Answer /\ due' = due
<1>1. due' = due /\ Answer = "running" /\ pc' \in {"list", "delete", "get", "patch"}
  BY DEF List, ListFails, NextRound, GetLatest, GetFails, Patch, PatchFails, Delete, DeleteFails,
         ItemDone, AfterDelete, Answer, histVars
<1>2. Answer' = "running"
  BY <1>1 DEF Answer
<1>3. CASE UNCHANGED storeVars
  BY <1>1, <1>2, <1>3, UnchangedImage DEF storeVars, StoreImage
<1>4. ASSUME NEW o \in Object, Stored(o), ApiDelete(o)
      PROVE  StoreImage
  BY <1>4, DeleteImage DEF Stored, TypeOK
<1>5. CASE Stored(cur) /\ DropFinalizers(cur, Finalizer)
  <2>1. PICK c \in Object : c = cur
    BY DEF TypeOK
  <2>2. Stored(c) /\ DropFinalizers(c, Finalizer)
    BY <1>5, <2>1 DEF DropFinalizers
  <2>3. QED
    BY <1>1, <1>2, <2>2, DropImage DEF TypeOK
<1>6. QED
  BY <1>1, <1>2, <1>3, <1>4, <1>5
     DEF List, ListFails, NextRound, GetLatest, GetFails, Patch, PatchFails, Delete, DeleteFails

\* Steps that end, begin or repeat an invocation leave the store alone.
LEMMA EndImage ==
  ASSUME TypeOK, IInv, GetGVKList \/ Return \/ Crash \/ Rerun
  PROVE  [Promise!Next]_(Promise!vars)
<1>1. SameObjects
  BY UnchangedImage DEF GetGVKList, Return, Crash, Rerun, storeVars
<1>2. CASE GetGVKList
  <2>1. due' = Scope \cap There
    BY <1>2 DEF GetGVKList, Scope, There
  <2>2. Answer = "idle" /\ Answer' \in {"running", "failure"}
    BY <1>2 DEF GetGVKList, End, Answer
  <2>3. QED
    BY <1>1, <2>1, <2>2 DEF SameObjects, Promise!Next, Promise!Begin, Promise!Fail
<1>3. CASE Return /\ allSuccess
  <2>1. Answer = "running" /\ Answer' = "success" /\ due' = due
    BY <1>3 DEF Return, End, Answer, histVars
  <2>2. ASSUME NEW d \in due
        PROVE  phase[d] # "live"
    BY <1>3 DEF Return, IInv, LoopInv, DueInv, Running, InRound, RoundAhead, TypeOK, Rounds
  <2>3. due \cap There = {}
    BY <2>2 DEF There
  <2>4. QED
    BY <1>1, <2>1, <2>3 DEF SameObjects, Promise!Next, Promise!Succeed
<1>4. CASE (Return /\ ~allSuccess) \/ Crash
  <2>1. Answer = "running" /\ Answer' = "failure" /\ due' = due
    BY <1>4 DEF Return, Crash, End, Answer, histVars, TypeOK
  <2>2. QED
    BY <1>1, <2>1 DEF SameObjects, Promise!Next, Promise!Fail
<1>5. CASE Rerun
  <2>1. Answer = "failure" /\ Answer' = "idle" /\ due' = due
    BY <1>5 DEF Rerun, Answer
  <2>2. QED
    BY <1>1, <2>1 DEF SameObjects, Promise!Next, Promise!Again
<1>6. QED
  BY <1>2, <1>3, <1>4, <1>5

\* Call by call, `preflight cleanup` does what CleanupPromise allows.
THEOREM Implements == Spec => PromiseKept
<1>1. Init => Promise!Init
  BY DEF Init, StoreInit, Promise!Init, There, Condemned, Terminating, Answer
<1>2. TypeOK /\ IInv /\ [Next]_vars => [Promise!Next]_(Promise!vars)
  <2> SUFFICES ASSUME TypeOK, IInv, [Next]_vars
               PROVE  [Promise!Next]_(Promise!vars)
    OBVIOUS
  <2>1. CASE Command
    BY <2>1, LoopImage, EndImage, ImageNext DEF Command
  <2>2. CASE OthersStep
    <3>1. StoreImage
      BY <2>2, OthersImage DEF OthersStep, TypeOK
    <3>2. Answer' = Answer /\ due' = due
      BY <2>2 DEF OthersStep, procVars, histVars, Answer
    <3>3. QED
      BY <3>1, <3>2, ImageNext
  <2>3. CASE UNCHANGED vars
    BY <2>3, UnchangedImage DEF vars, SameObjects, Answer, Promise!vars
  <2>4. QED
    BY <2>1, <2>2, <2>3, EndImage DEF Next
<1>3. QED
  BY InvAlways, <1>1, <1>2, PTL DEF Spec, PromiseKept, Promise!Spec

(***************************************************************************)
(* Repeating the command.  RetryConverges, that the repetitions succeed in *)
(* the end, needs fairness and stays with TLC; that they run out is proved *)
(* here.  Each invocation that fails is paid for: with a call that failed, *)
(* or with a pod that was released behind the command's back, and there    *)
(* are only so many of both; a pod once released is never listed with      *)
(* finalizers again.  A namespace with finalizers is another matter: every *)
(* invocation fails on it, and nothing is paid.                            *)
(***************************************************************************)

\* Pods that may still be released.
Standing == {o \in Object : Meta[o].kind = "Pod" /\ ~Released(o)}

\* The current invocation has been paid for, should it fail.
Paid == faulted \/ \E o \in seenFins : Meta[o].kind = "Pod" /\ Released(o)

Budget == MaxFaults - faults + Cardinality(Standing) + (IF Paid THEN 1 ELSE 0)
PartsLeft == IF pc = "start" THEN 2 ELSE IF pc = "done" THEN 0 ELSE 1
ListsLeft == 2 * (Len(Rounds) + 1 - gi) + (IF pc = "list" THEN 1 ELSE 0)
CallsLeft == IF pc = "delete" THEN 2 ELSE IF pc = "get" THEN 1 ELSE 0
Rank == <<Budget, PartsLeft, ListsLeft, Cardinality(pending), CallsLeft>>

Ranks == [1 .. 5 -> Nat]
Order == LexProductOrdering(OpToRel(<, Nat), Nat, 5)
Nearer == <<Rank', Rank>> \in Order

LEMMA OrderEnds == IsWellFoundedOn(Order, Ranks)
BY NatLessThanWellFounded, WFLexProductOrdering, 5 \in Nat DEF Order, Ranks

Measured == TypeOK /\ IInv /\ IsFiniteSet(Object)

Ranked ==
  /\ Rank \in Ranks
  /\ Rank[1] = Budget /\ Rank[2] = PartsLeft /\ Rank[3] = ListsLeft
  /\ Rank[4] = Cardinality(pending) /\ Rank[5] = CallsLeft

LEMMA RankTyped == Measured => Ranked
<1> SUFFICES ASSUME Measured PROVE Ranked
  OBVIOUS
<1>1. Cardinality(pending) \in Nat /\ Cardinality(Standing) \in Nat
  BY FS_Subset, FS_CardinalityType DEF Measured, TypeOK, Standing
<1>2. Budget \in Nat
  BY <1>1 DEF Budget, Measured, TypeOK
<1>3. PartsLeft \in Nat /\ ListsLeft \in Nat /\ CallsLeft \in Nat
  BY LenRounds DEF PartsLeft, ListsLeft, CallsLeft, Measured, TypeOK
<1>4. QED
  BY <1>1, <1>2, <1>3 DEF Ranked, Rank, Ranks

LEMMA RankTypedNext == Measured' => Ranked'
BY RankTyped, PTL

\* Of two ranks, that one is lower which is lower where they first differ.
LEMMA Lower ==
  ASSUME Ranked, Ranked',
         NEW n \in 1 .. 5, Rank'[n] < Rank[n], \A m \in 1 .. 5 : m < n => Rank'[m] = Rank[m]
  PROVE  Nearer
<1>1. Rank \in Ranks /\ Rank' \in Ranks
  BY DEF Ranked
<1>2. <<Rank'[n], Rank[n]>> \in OpToRel(<, Nat)
  BY <1>1 DEF OpToRel, Ranks
<1>3. \A m \in 1 .. n - 1 : Rank'[m] = Rank[m]
  OBVIOUS
<1>4. QED
  BY <1>1, <1>2, <1>3 DEF Nearer, Order, LexProductOrdering, Ranks

\* A step of the command, once the budget is known not to rise.
LEMMA StepNearer ==
  ASSUME Measured, Measured', Budget' <= Budget,
         \/ PartsLeft' < PartsLeft
         \/ PartsLeft' = PartsLeft /\ ListsLeft' < ListsLeft
         \/ /\ PartsLeft' = PartsLeft /\ ListsLeft' = ListsLeft
            /\ Cardinality(pending') < Cardinality(pending)
         \/ /\ PartsLeft' = PartsLeft /\ ListsLeft' = ListsLeft /\ pending' = pending
            /\ CallsLeft' < CallsLeft
  PROVE  Nearer
<1>1. Ranked /\ Ranked'
  BY RankTyped, RankTypedNext
<1>2. Budget \in Nat /\ Budget' \in Nat
  BY <1>1 DEF Ranked, Ranks
<1>3. CASE Budget' < Budget
  BY <1>1, <1>3, Lower, 1 \in 1 .. 5 DEF Ranked
<1>4. CASE Budget' = Budget /\ PartsLeft' < PartsLeft
  BY <1>1, <1>4, Lower, 2 \in 1 .. 5 DEF Ranked
<1>5. CASE Budget' = Budget /\ PartsLeft' = PartsLeft /\ ListsLeft' < ListsLeft
  BY <1>1, <1>5, Lower, 3 \in 1 .. 5 DEF Ranked
<1>6. CASE /\ Budget' = Budget /\ PartsLeft' = PartsLeft /\ ListsLeft' = ListsLeft
           /\ Cardinality(pending') < Cardinality(pending)
  BY <1>1, <1>6, Lower, 4 \in 1 .. 5 DEF Ranked
<1>7. CASE /\ Budget' = Budget /\ PartsLeft' = PartsLeft /\ ListsLeft' = ListsLeft
           /\ pending' = pending /\ CallsLeft' < CallsLeft
  BY <1>1, <1>7, Lower, 5 \in 1 .. 5 DEF Ranked
<1>8. Budget' < Budget \/ Budget' = Budget
  BY <1>2
<1>9. QED
  BY <1>3, <1>4, <1>5, <1>6, <1>7, <1>8

\* What is released stays released.
LEMMA NextFrame ==
  ASSUME TypeOK, IInv, [Next]_vars
  PROVE  StoreFrame
<1>1. CASE UNCHANGED storeVars
  BY <1>1, UnchangedFrame DEF TypeOK, IInv
<1>2. ASSUME NEW o \in Object, Stored(o), ApiDelete(o)
      PROVE  StoreFrame
  BY <1>2, DeleteFrame DEF Stored, TypeOK, IInv
<1>3. CASE Stored(cur) /\ DropFinalizers(cur, Finalizer)
  <2>1. PICK c \in Object : c = cur
    BY DEF TypeOK
  <2>2. Stored(c) /\ DropFinalizers(c, Finalizer)
    BY <1>3, <2>1 DEF DropFinalizers
  <2>3. QED
    BY <2>2, DropFrame DEF TypeOK, IInv
<1>4. CASE Command
  BY <1>1, <1>2, <1>3, <1>4
     DEF Command, GetGVKList, List, ListFails, NextRound, GetLatest, GetFails, Patch, PatchFails,
         Delete, DeleteFails, Return
<1>5. CASE OthersStep
  BY <1>5, OthersFrame DEF OthersStep, TypeOK, IInv
<1>6. QED
  BY <1>1, <1>4, <1>5 DEF Next, Crash, Rerun, vars, storeVars

\* During an invocation a call fails, or none does; what has been listed stays so.
LEMMA HistoryGoes ==
  ASSUME TypeOK, IInv, Command \/ Crash \/ OthersStep \/ UNCHANGED vars
  PROVE  /\ \/ faults' = faults /\ faulted' = faulted
            \/ faults < MaxFaults /\ faults' = faults + 1
         /\ seenFins \subseteq seenFins'
         /\ \A o \in seenFins' \ seenFins : ~Released(o)'
<1>1. CASE List
  <2>1. UNCHANGED <<fins, faults, faulted>> /\ seenFins' = seenFins \cup withFins'
    BY <1>1 DEF List, NoFault, storeVars
  <2>2. \A o \in withFins' : fins[o] # {}
    BY <1>1 DEF List
  <2>3. QED
    BY <2>1, <2>2 DEF Released
<1>2. CASE Command /\ ~List
  <2>1. seenFins' = seenFins
    BY <1>2 DEF Command, GetGVKList, ListFails, NextRound, GetLatest, GetFails, Patch, PatchFails,
                Delete, DeleteFails, Return, ItemDone, AfterDelete, histVars
  <2>2. NoFault \/ Fault
    BY <1>2 DEF Command, GetGVKList, ListFails, NextRound, GetLatest, GetFails, Patch, PatchFails,
                Delete, DeleteFails, Return, NoFault, histVars
  <2>3. QED
    BY <2>1, <2>2 DEF NoFault, Fault
<1>3. CASE Crash \/ OthersStep \/ UNCHANGED vars
  BY <1>3 DEF Crash, OthersStep, Fault, histVars, vars
<1>4. QED
  BY <1>1, <1>2, <1>3

LEMMA StandingShrinks ==
  ASSUME Measured, Measured', [Next]_vars
  PROVE  /\ Cardinality(Standing) \in Nat /\ Cardinality(Standing') \in Nat
         /\ Standing' \subseteq Standing /\ Cardinality(Standing') <= Cardinality(Standing)
         /\ Standing' # Standing => Cardinality(Standing') < Cardinality(Standing)
<1>1. Standing' \subseteq Standing
  BY NextFrame DEF Standing, StoreFrame, Measured
<1>2. IsFiniteSet(Standing)
  BY FS_Subset DEF Standing, Measured
<1>3. IsFiniteSet(Standing') /\ Cardinality(Standing') <= Cardinality(Standing)
      /\ (Cardinality(Standing') = Cardinality(Standing) => Standing' = Standing)
  BY <1>1, <1>2, FS_Subset
<1>4. Cardinality(Standing) \in Nat /\ Cardinality(Standing') \in Nat
  BY <1>2, <1>3, FS_CardinalityType
<1>5. QED
  BY <1>1, <1>3, <1>4

LEMMA Balance ==
  ASSUME NEW m \in Nat, NEW f \in Nat, NEW g \in Nat, NEW c \in Nat, NEW d \in Nat,
         NEW p \in 0 .. 1, NEW q \in 0 .. 1, d <= c,
         g = f + 1 \/ (g = f /\ (q <= p \/ d < c))
  PROVE  m - g + d + q <= m - f + c + p
OBVIOUS

\* An invocation is paid for at the expense of the rest of the budget.
LEMMA BudgetFalls ==
  ASSUME Measured, Measured', Command \/ Crash \/ OthersStep \/ UNCHANGED vars
  PROVE  Budget' <= Budget
<1>1. [Next]_vars
  BY DEF Next
<1>2. /\ \/ faults' = faults /\ faulted' = faulted
         \/ faults < MaxFaults /\ faults' = faults + 1
      /\ seenFins \subseteq seenFins'
      /\ \A o \in seenFins' \ seenFins : ~Released(o)'
  BY HistoryGoes DEF Measured
<1>3. ASSUME Paid', ~Paid, faults' = faults
      PROVE  Standing' # Standing
  <2>1. faulted' = faulted /\ ~faulted
    BY <1>2, <1>3 DEF Paid, Measured, TypeOK
  <2>2. PICK o \in seenFins' : Meta[o].kind = "Pod" /\ Released(o)'
    BY <1>3, <2>1 DEF Paid
  <2>3. o \in seenFins /\ o \in Object
    BY <1>2, <2>2 DEF Measured, TypeOK
  <2>4. o \in Standing /\ o \notin Standing'
    BY <1>3, <2>2, <2>3 DEF Paid, Standing
  <2>5. QED
    BY <2>4
<1>4. faults \in Nat /\ faults' \in Nat /\ MaxFaults \in Nat
  BY DEF Measured, TypeOK
<1> DEFINE c == Cardinality(Standing)
           d == Cardinality(Standing')
           p == IF Paid THEN 1 ELSE 0
           q == IF Paid' THEN 1 ELSE 0
<1>5. c \in Nat /\ d \in Nat /\ d <= c /\ (Standing' # Standing => d < c)
  BY <1>1, StandingShrinks
<1>6. p \in 0 .. 1 /\ q \in 0 .. 1
  OBVIOUS
<1>7. faults' = faults + 1 \/ (faults' = faults /\ (q <= p \/ d < c))
  BY <1>2, <1>3, <1>5
<1>8. Budget = MaxFaults - faults + c + p /\ Budget' = MaxFaults - faults' + d + q
  BY DEF Budget
<1> HIDE DEF c, d, p, q
<1>9. QED
  BY <1>4, <1>5, <1>6, <1>7, <1>8, Balance

\* One item less.
LEMMA ItemNearer ==
  ASSUME Measured, Measured', Budget' <= Budget, pc \in {"delete", "get", "patch"},
         NEW o \in pending, NEW ok, ItemDone(o, ok)
  PROVE  Nearer
<1>1. pc' = "delete" /\ gi' = gi /\ pending' = pending \ {o}
  BY DEF ItemDone
<1>2. PartsLeft' = PartsLeft /\ ListsLeft' = ListsLeft
  BY <1>1 DEF PartsLeft, ListsLeft
<1>3. IsFiniteSet(pending)
  BY FS_Subset DEF Measured, TypeOK
<1>4. Cardinality(pending) \in Nat /\ Cardinality(pending \ {o}) = Cardinality(pending) - 1
  BY <1>3, FS_RemoveElement, FS_CardinalityType
<1>5. Cardinality(pending') < Cardinality(pending)
  BY <1>1, <1>4
<1>6. QED
  BY <1>2, <1>5, StepNearer

LEMMA CommandNearer ==
  ASSUME Measured, Measured', Command \/ Crash
  PROVE  Nearer
<1>b. Budget' <= Budget
  BY BudgetFalls
<1>g. gi \in Nat /\ Len(Rounds) + 1 - gi \in Nat
  BY LenRounds DEF Measured, TypeOK
<1>1. CASE GetGVKList \/ Return \/ Crash
  <2>1. PartsLeft' < PartsLeft
    BY <1>1 DEF GetGVKList, Return, Crash, End, PartsLeft
  <2>2. QED
    BY <1>b, <2>1, StepNearer
<1>2. CASE List \/ ListFails \/ NextRound
  <2>1. PartsLeft' = PartsLeft
    BY <1>2 DEF List, ListFails, NextRound, PartsLeft
  <2>2. ListsLeft' < ListsLeft
    BY <1>2, <1>g, LenRounds DEF List, ListFails, NextRound, ListsLeft
  <2>3. QED
    BY <1>b, <2>1, <2>2, StepNearer
<1>3. ASSUME NEW o \in Object, Delete(o) \/ DeleteFails(o)
      PROVE  Nearer
  <2>1. pc = "delete" /\ o \in pending
    BY <1>3 DEF Delete, DeleteFails
  <2>2. CASE \E ok \in BOOLEAN : ItemDone(o, ok)
    BY <1>b, <2>1, <2>2, ItemNearer
  <2>3. CASE pc' = "get" /\ UNCHANGED <<gi, pending>>
    <3>1. PartsLeft' = PartsLeft /\ ListsLeft' = ListsLeft /\ CallsLeft' < CallsLeft
      BY <2>1, <2>3 DEF PartsLeft, ListsLeft, CallsLeft
    <3>2. QED
      BY <1>b, <2>3, <3>1, StepNearer
  <2>4. QED
    BY <1>3, <2>2, <2>3 DEF Delete, DeleteFails, AfterDelete
<1>4. CASE GetLatest \/ GetFails \/ Patch \/ PatchFails
  <2>1. pc \in {"get", "patch"} /\ cur \in pending
    BY <1>4 DEF GetLatest, GetFails, Patch, PatchFails, Measured, IInv, LoopInv
  <2>2. CASE \E ok \in BOOLEAN : ItemDone(cur, ok)
    <3>1. PICK c \in pending : c = cur
      BY <2>1
    <3>2. PICK ok \in BOOLEAN : ItemDone(c, ok)
      BY <2>2, <3>1 DEF ItemDone
    <3>3. QED
      BY <1>b, <2>1, <3>2, ItemNearer
  <2>3. CASE pc = "get" /\ pc' = "patch" /\ UNCHANGED <<gi, pending>>
    <3>1. PartsLeft' = PartsLeft /\ ListsLeft' = ListsLeft /\ CallsLeft' < CallsLeft
      BY <2>3 DEF PartsLeft, ListsLeft, CallsLeft
    <3>2. QED
      BY <1>b, <2>3, <3>1, StepNearer
  <2>4. QED
    BY <1>4, <2>2, <2>3 DEF GetLatest, GetFails, Patch, PatchFails
<1>5. QED
  BY <1>1, <1>2, <1>3, <1>4 DEF Command

\* An invocation that has failed was paid for, unless a namespace was in the way.
LEMMA RerunNearer ==
  ASSUME Measured, Measured', Rerun, ~\E o \in seenFins : Meta[o].kind = "Namespace"
  PROVE  Nearer
<1>1. Paid
  BY DEF Measured, IInv, LoopInv, CauseInv, Rerun, Paid, Cause, TypeOK
<1>2. ~Paid'
  BY DEF Rerun, Paid
<1>3. faults' = faults /\ Standing' = Standing
  BY DEF Rerun, storeVars, Standing, Released
<1>4. Cardinality(Standing) \in Nat /\ faults \in Nat /\ MaxFaults \in Nat
  BY FS_Subset, FS_CardinalityType DEF Measured, TypeOK, Standing
<1>5. Budget' < Budget
  BY <1>1, <1>2, <1>3, <1>4 DEF Budget
<1>6. Ranked /\ Ranked'
  BY RankTyped, RankTypedNext
<1>7. QED
  BY <1>5, <1>6, Lower, 1 \in 1 .. 5 DEF Ranked

\* Others cannot set the command back.
LEMMA OthersKeep ==
  ASSUME Measured, Measured', OthersStep \/ UNCHANGED vars
  PROVE  Nearer \/ UNCHANGED Rank
<1>1. Budget' <= Budget
  BY BudgetFalls
<1>2. UNCHANGED <<PartsLeft, ListsLeft, pending, CallsLeft>>
  BY DEF OthersStep, procVars, vars, PartsLeft, ListsLeft, CallsLeft
<1>3. Ranked /\ Ranked'
  BY RankTyped, RankTypedNext
<1>4. Budget \in Nat /\ Budget' \in Nat
  BY <1>3 DEF Ranked, Ranks
<1>5. CASE Budget' < Budget
  BY <1>3, <1>5, Lower, 1 \in 1 .. 5 DEF Ranked
<1>6. CASE Budget' = Budget
  BY <1>2, <1>6 DEF Rank
<1>7. QED
  BY <1>1, <1>4, <1>5, <1>6

\* Where finitely many objects ever exist, neither an invocation nor its repetitions go
\* on for ever, whatever others do: each step of the command lowers the rank, and so does
\* each new attempt, unless the one before listed a namespace with finalizers.
THEOREM RepetitionsRunOut ==
  ASSUME IsFiniteSet(Object)
  PROVE  /\ IsWellFoundedOn(Order, Ranks)
         /\ Spec => /\ [](Rank \in Ranks)
                    /\ [][/\ Command \/ Crash => Nearer
                          /\ Rerun => Nearer \/ \E o \in seenFins : Meta[o].kind = "Namespace"
                          /\ OthersStep => Nearer \/ UNCHANGED Rank]_vars
<1>1. TypeOK /\ IInv => Measured
  BY DEF Measured
<1>2. Measured => Rank \in Ranks
  BY RankTyped DEF Ranked
<1>3. Measured /\ Measured' /\ [Next]_vars =>
        [/\ Command \/ Crash => Nearer
         /\ Rerun => Nearer \/ \E o \in seenFins : Meta[o].kind = "Namespace"
         /\ OthersStep => Nearer \/ UNCHANGED Rank]_vars
  BY CommandNearer, RerunNearer, OthersKeep
<1>4. Spec => /\ [](Rank \in Ranks)
              /\ [][/\ Command \/ Crash => Nearer
                    /\ Rerun => Nearer \/ \E o \in seenFins : Meta[o].kind = "Namespace"
                    /\ OthersStep => Nearer \/ UNCHANGED Rank]_vars
  BY <1>1, <1>2, <1>3, InvAlways, PTL DEF Spec
<1>5. QED
  BY <1>4, OrderEnds
=============================================================================
