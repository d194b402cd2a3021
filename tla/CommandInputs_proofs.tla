--------------------------- MODULE CommandInputs_proofs ---------------------------
(***************************************************************************)
(* Proofs about the commands' options, for any inputs: which of file, flag *)
(* and default prevails, which scope, cluster and kinds result.            *)
(***************************************************************************)
EXTENDS CommandInputs, FiniteSetTheorems, WellFoundedInduction, TLAPS

(***************************************************************************)
(* Types, and which command is where.                                      *)
(***************************************************************************)

Route ==
  /\ pc \in {"common", "own", "validate"} => command \in Preflight
  /\ pc \in {"selector", "lists"} => command = "run"
  /\ pc \in {"scope", "collection", "kinds", "versions", "labels", "check"} => command = "collect"

Typed == TypeOK /\ input \in Input /\ Route

\* What the assumption says of the input in hand.
LEMMA Given ==
  ASSUME input \in Input
  PROVE  /\ command \in Commands
         /\ input.file \in [Option -> Value]
         /\ \A o \in Option : Flag(o) \in Value
         /\ \A l \in List : \A r \in DOMAIN input.lists[l] : input.lists[l][r] \in Nat
         /\ \A l \in List : DOMAIN input.lists[l] \subseteq Resource
         /\ \A l \in List : input.cliLists[l] \in [Resource -> Nat]
         /\ input.nulls \subseteq List
<1>1. \A o \in Option : Flag(o) \in Value
  BY CommandAssumption DEF Flag, Changed, Default, Value, Zero
<1>2. input.file \in [Option -> Value]
  <2>1. input.file \in [Option -> {Zero, "file", "odd"}]
    BY CommandAssumption
  <2>2. {Zero, "file", "odd"} \subseteq Value
    BY DEF Value
  <2>3. QED
    BY <2>1, <2>2
<1>3. QED
  BY <1>1, <1>2, CommandAssumption DEF command

LEMMA FromFlagsTyped ==
  ASSUME Typed, NEW fill, NEW override, FromFlags(fill, override)
  PROVE  opts' \in [Option -> Value]
BY Given DEF FromFlags, Typed, TypeOK

\* Ends keep the last conjunct of the type invariant, and so does going on.
LEMMA EndFacts ==
  ASSUME NEW verdict \in {"ready", "refused", "panicked"}, End(verdict)
  PROVE  pc' = "done" /\ exit' = verdict /\ exit' # "none"
BY DEF End

LEMMA InitTyped == ASSUME Init PROVE Typed
<1>1. opts \in [Option -> Value]
  BY DEF Init, Value
<1>2. quantities \in [List -> [Resource -> Nat]]
  BY DEF Init, DefaultQuantity
<1>3. QED
  BY <1>1, <1>2 DEF Init, Typed, TypeOK, Route

LEMMA ReadFileTyped == ASSUME Typed, ReadFile PROVE Typed'
<1>1. AfterFile \in {"scope", "common"} /\ (AfterFile = "scope") = (command = "collect")
  BY DEF AfterFile
<1>2. opts' \in [Option -> Value]
  BY Given DEF ReadFile, Typed, TypeOK
<1>3. quantities' \in [List -> [Resource -> Nat]]
  <2>1. CASE input.setting \in {"none", "refused"}
    BY <2>1 DEF ReadFile, Typed, TypeOK
  <2>2. CASE input.setting \notin {"none", "refused"}
    <3>1. quantities' = [l \in List |-> IF l \in input.nulls THEN Nothing
                                        ELSE Over(input.lists[l], quantities[l])]
      BY <2>2 DEF ReadFile
    <3>2. ASSUME NEW l \in List
          PROVE  Over(input.lists[l], quantities[l]) \in [Resource -> Nat]
      <4>1. quantities[l] \in [Resource -> Nat]
        BY DEF Typed, TypeOK
      <4>2. \A r \in DOMAIN input.lists[l] : input.lists[l][r] \in Nat
        BY Given DEF Typed
      <4>3. QED
        BY <4>1, <4>2 DEF Over
    <3>3. Nothing \in [Resource -> Nat]
      BY DEF Nothing
    <3>4. QED
      BY <3>1, <3>2, <3>3
  <2>3. QED
    BY <2>1, <2>2
<1>4. nil' \subseteq List
  BY Given DEF ReadFile, Typed, TypeOK
<1>5. \/ pc' = AfterFile /\ exit' = exit
      \/ pc' = "done" /\ exit' = "refused"
  BY DEF ReadFile, GoOn, End
<1>6. pc = "file" /\ exit = "none" /\ UNCHANGED <<input, clustered, target, served>>
  BY DEF ReadFile, Typed, TypeOK
<1>7. command \in Commands /\ command' = command
  BY <1>6, Given DEF command, Typed
<1>8. QED
  BY <1>1, <1>2, <1>3, <1>4, <1>5, <1>6, <1>7 DEF Typed, TypeOK, Route, Commands, Preflight

\* The steps of the preflight commands that follow.
LEMMA PreflightTyped ==
  ASSUME Typed, CommonFromFlags \/ OwnFromFlags \/ NodeSelector \/ Validate
  PROVE  Typed'
<1>1. opts' \in [Option -> Value]
  <2>1. CASE CommonFromFlags
    BY <2>1, Given DEF CommonFromFlags, Typed, TypeOK
  <2>2. CASE OwnFromFlags
    BY <2>2, Given DEF OwnFromFlags, Typed, TypeOK, Value
  <2>3. CASE NodeSelector
    BY <2>3, FromFlagsTyped DEF NodeSelector, Typed, TypeOK
  <2>4. CASE Validate
    BY <2>4 DEF Validate, Typed, TypeOK
  <2>5. QED
    BY <2>1, <2>2, <2>3, <2>4
<1>2. /\ exit = "none"
      /\ \/ pc = "common" /\ pc' = "own" /\ exit' = exit
         \/ pc = "own" /\ command = "run" /\ pc' = "selector" /\ exit' = exit
         \/ pc = "own" /\ pc' = "connect" /\ exit' = exit
         \/ pc = "selector" /\ pc' = "lists" /\ exit' = exit
         \/ pc' = "done" /\ exit' \in {"ready", "refused", "panicked"}
  BY DEF CommonFromFlags, OwnFromFlags, NodeSelector, Validate, GoOn, End, Typed, TypeOK
<1>3. UNCHANGED <<input, plain>>
  BY DEF CommonFromFlags, OwnFromFlags, NodeSelector, Validate
<1>4. command' = command
  BY <1>3 DEF command
<1>5. QED
  BY <1>1, <1>2, <1>3, <1>4 DEF Typed, TypeOK, Route, Preflight, plain

LEMMA ListsTyped == ASSUME Typed, ResourceLists PROVE Typed'
<1>1. \A l \in List : WithFlag(l) \in [Resource -> Nat]
  BY Given DEF WithFlag, Typed, TypeOK
<1>2. quantities' \in [List -> [Resource -> Nat]]
  BY <1>1 DEF ResourceLists, Typed, TypeOK
<1>3. /\ pc = "lists" /\ exit = "none"
      /\ UNCHANGED <<input, opts, nil, kinds, clustered, target, served>>
      /\ \/ pc' = "connect" /\ exit' = exit
         \/ pc' = "done" /\ exit' \in {"refused", "panicked"}
  BY DEF ResourceLists, GoOn, End, Typed, TypeOK
<1>4. QED
  BY <1>2, <1>3 DEF Typed, TypeOK, Route, command

LEMMA ConnectTyped == ASSUME Typed, Connect PROVE Typed'
<1>1. command \in Commands
  BY Given DEF Typed
<1>2. /\ pc = "connect" /\ exit = "none"
      /\ UNCHANGED <<input, opts, quantities, nil, kinds, clustered, served>>
      /\ target' \in Value \cup {"none", "fallback"}
      /\ \/ pc' = "collection" /\ command = "collect" /\ exit' = exit
         \/ pc' = "validate" /\ command # "collect" /\ exit' = exit
         \/ pc' = "done" /\ exit' = "refused"
  BY DEF Connect, GoOn, End, Typed, TypeOK
<1>3. QED
  BY <1>1, <1>2 DEF Typed, TypeOK, Route, command, Commands, Preflight

LEMMA CollectTyped ==
  ASSUME Typed, ScopeAndConfig \/ CollectionFromFlags \/ Kinds \/ Versions \/ Labels
                  \/ CheckCollection
  PROVE  Typed'
<1>1. opts' \in [Option -> Value]
  <2>1. CASE ScopeAndConfig \/ Labels
    BY <2>1, FromFlagsTyped DEF ScopeAndConfig, Labels, Typed, TypeOK
  <2>2. CASE CollectionFromFlags
    BY <2>2, Given DEF CollectionFromFlags, Typed, TypeOK
  <2>3. CASE Kinds \/ Versions \/ CheckCollection
    BY <2>3 DEF Kinds, Versions, CheckCollection, Typed, TypeOK
  <2>4. QED
    BY <2>1, <2>2, <2>3
<1>2. clustered' \in BOOLEAN
  BY DEF ScopeAndConfig, NobodyNames, CollectionFromFlags, Kinds, Versions, Labels,
         CheckCollection, plain, Typed, TypeOK
<1>3. UNCHANGED <<input, quantities, nil, target>>
  BY DEF ScopeAndConfig, CollectionFromFlags, Kinds, Versions, Labels, CheckCollection, plain
<1>4. ParseFailure \in {"none", "panicked", "refused"}
  BY DEF ParseFailure
<1>5. /\ exit = "none"
      /\ \/ pc = "scope" /\ pc' = "connect" /\ exit' = exit
         \/ pc = "collection" /\ pc' = "kinds" /\ exit' = exit
         \/ pc = "kinds" /\ pc' = "versions" /\ exit' = exit
         \/ pc = "versions" /\ pc' = "labels" /\ exit' = exit
         \/ pc = "labels" /\ pc' = "check" /\ exit' = exit
         \/ pc' = "done" /\ exit' \in {"ready", "refused", "panicked"}
  BY <1>4 DEF ScopeAndConfig, CollectionFromFlags, Kinds, Versions, Labels, CheckCollection,
              GoOn, End, Typed, TypeOK
<1>6. QED
  BY <1>1, <1>2, <1>3, <1>5 DEF Typed, TypeOK, Route, command

LEMMA StepTyped == ASSUME Typed, [Next]_vars PROVE Typed'
<1>1. CASE ReadFile
  BY <1>1, ReadFileTyped
<1>2. CASE CommonFromFlags \/ OwnFromFlags \/ NodeSelector \/ Validate
  BY <1>2, PreflightTyped
<1>3. CASE ResourceLists
  BY <1>3, ListsTyped
<1>4. CASE Connect
  BY <1>4, ConnectTyped
<1>5. CASE ScopeAndConfig \/ CollectionFromFlags \/ Kinds \/ Versions \/ Labels \/ CheckCollection
  BY <1>5, CollectTyped
<1>6. CASE UNCHANGED vars
  BY <1>6 DEF vars, Typed, TypeOK, Route, command
<1>7. QED
  BY <1>1, <1>2, <1>3, <1>4, <1>5, <1>6 DEF Next

\* Every variable of the commands' inputs keeps to its type, whatever is given.
THEOREM InputsTypeCorrect == Spec => []TypeOK
<1>1. Init => Typed
  BY InitTyped
<1>2. Typed /\ [Next]_vars => Typed'
  BY StepTyped
<1>3. Typed => TypeOK
  BY DEF Typed
<1>4. QED
  BY <1>1, <1>2, <1>3, PTL DEF Spec

(***************************************************************************)
(* Which of file, flag and default an option is taken from.                *)
(***************************************************************************)

\* The places at which an option has not met its flag yet.
Before(o) ==
  IF command = "collect"
  THEN CASE o = "kubeconfig" -> {"file", "scope"}
         [] o = "labels" -> {"file", "scope", "connect", "collection", "kinds", "versions", "labels"}
         [] OTHER -> {"file", "scope", "connect", "collection"}
  ELSE CASE o \in CommonOption(command) -> {"file", "common"}
         [] o = "nodeSelector" -> {"file", "common", "own", "selector"}
         [] OTHER -> {"file", "common", "own"}

\* The command is still at it, or about to start its work.
Going == pc # "done" \/ exit = "ready"

OptionInv ==
  /\ pc = "file" => opts = [o \in Option |-> Zero]
  /\ Going => \A o \in Used :
       opts[o] = IF pc \in Before(o) THEN IF pc = "file" THEN Zero ELSE FileSays(o)
                 ELSE Promised(o)

\* Quantities that the file leaves, before the flags.
FromFile(l, r) ==
  IF input.setting # "read" THEN DefaultQuantity[l][r]
  ELSE IF l \in input.nulls THEN 0
  ELSE IF r \in DOMAIN input.lists[l] THEN input.lists[l][r] ELSE DefaultQuantity[l][r]

QuantityInv ==
  /\ pc = "file" => quantities = DefaultQuantity
  /\ Going /\ command = "run" /\ pc # "file" =>
       \A l \in List, r \in Resource :
         quantities[l][r] =
           IF pc \in {"common", "own", "selector", "lists"} THEN FromFile(l, r) ELSE Quantity(l, r)

\* The scope is decided before the namespaces are taken from the flag.
ScopeInv ==
  Going /\ command = "collect" =>
    /\ pc \in {"scope", "connect", "collection"} =>
         opts["namespaces"] = FileSays("namespaces")
    /\ pc \notin {"file", "scope"} =>
         (clustered <=> (FileSays("namespaces") = Zero /\ Flag("namespaces") = Zero))
    /\ pc \notin {"file", "scope", "connect", "collection"} =>
         opts["namespaces"] =
           IF Changed("namespaces") \/ ~clustered THEN Flag("namespaces")
           ELSE FileSays("namespaces")

Connected == pc \notin {"file", "common", "own", "selector", "lists", "scope", "connect"}
Asked ==
  \/ target = Promised("kubeconfig") /\ target # Zero
  \/ target = "default" /\ command = "collect" /\ input.env
  \/ target = "fallback" /\ input.config = "empty"
  \/ target = "fallback" /\ command \in Preflight /\ Promised("kubeconfig") = Zero
TargetInv == Going /\ Connected => Asked

Inv == Typed /\ OptionInv /\ QuantityInv /\ ScopeInv /\ TargetInv

\* What is said of the input does not change.
LEMMA InputKept ==
  ASSUME input' = input
  PROVE  /\ command' = command /\ Used' = Used
         /\ \A o : Before(o)' = Before(o) /\ FileSays(o)' = FileSays(o)
                   /\ Promised(o)' = Promised(o) /\ Flag(o)' = Flag(o) /\ Changed(o)' = Changed(o)
         /\ \A l, r : FromFile(l, r)' = FromFile(l, r) /\ Quantity(l, r)' = Quantity(l, r)
<1>1. command' = command
  BY DEF command
<1>2. \A o : FileSays(o)' = FileSays(o) /\ Flag(o)' = Flag(o) /\ Changed(o)' = Changed(o)
              /\ Default(o)' = Default(o)
  BY <1>1 DEF FileSays, Flag, Changed, Default
<1>3. \A o : Promised(o)' = Promised(o)
  BY <1>2 DEF Promised, Changed
<1>4. Used' = Used /\ \A o : Before(o)' = Before(o)
  BY <1>1 DEF Used, Before
<1>5. \A l, r : FromFile(l, r)' = FromFile(l, r) /\ Quantity(l, r)' = Quantity(l, r)
  BY DEF FromFile, Quantity
<1>6. QED
  BY <1>1, <1>2, <1>3, <1>4, <1>5

\* The options of each command, and what a flag's rule makes of one.
LEMMA UsedOptions ==
  /\ command = "run" =>
       Used = {"namespace", "kubeconfig", "logLevel", "scope", "storageClass", "snapshotClass",
               "localRegistry", "imagePullSecret", "serviceAccount", "cleanupOnFailure",
               "nodeSelector", "pvcStorageRequest"}
  /\ command = "cleanup" => Used = {"namespace", "kubeconfig", "logLevel", "scope", "uid"}
  /\ command = "collect" => Used = {"kubeconfig", "logLevel", "keepSource", "labels"}
  /\ command \in Commands => Used \subseteq Option
<1>1. CASE command = "run"
  BY <1>1 DEF Used, CommonOption, OwnOption, Preflight, Commands, Option
<1>2. CASE command = "cleanup"
  BY <1>2 DEF Used, CommonOption, OwnOption, Preflight, Commands, Option
<1>3. CASE command = "collect"
  BY <1>3 DEF Used, CommonOption, OwnOption, Preflight, Commands, Option
<1>4. QED
  BY <1>1, <1>2, <1>3 DEF Commands

\* An option that takes the flag when it is given or when the file is silent is as promised.
LEMMA FillRule ==
  ASSUME NEW o, o # "pvcStorageRequest"
  PROVE  (IF Changed(o) \/ FileSays(o) = Zero THEN Flag(o) ELSE FileSays(o)) = Promised(o)
BY DEF Promised, Flag, Changed

\* So is one that takes the flag only when it is given, because its default is empty.
LEMMA OverrideRule ==
  ASSUME NEW o, o \notin {"namespace", "logLevel", "scope", "kubeconfig", "pvcStorageRequest"}
  PROVE  (IF Changed(o) THEN Flag(o) ELSE FileSays(o)) = Promised(o)
BY DEF Promised, Flag, Changed, Default, Zero

LEMMA InitInv == ASSUME Init PROVE Inv
<1>1. Typed
  BY InitTyped
<1>2. \A o \in Used : opts[o] = Zero /\ pc \in Before(o)
  <2>1. Used \subseteq Option
    BY UsedOptions, Given, <1>1 DEF Typed
  <2>2. \A o : pc \in Before(o)
    BY DEF Init, Before
  <2>3. QED
    BY <2>1, <2>2 DEF Init
<1>3. OptionInv
  BY <1>2 DEF Init, OptionInv
<1>4. QED
  BY <1>1, <1>3 DEF Inv, Init, QuantityInv, ScopeInv, TargetInv, Connected

LEMMA ReadFileInv == ASSUME Inv, ReadFile PROVE Inv'
<1>1. Typed' /\ Typed
  BY ReadFileTyped DEF Inv
<1>2. pc = "file" /\ exit = "none" /\ UNCHANGED <<input, clustered, target, served>>
  BY <1>1 DEF ReadFile, Typed, TypeOK
<1>3. /\ command' = command /\ Used' = Used /\ command \in Commands /\ Used \subseteq Option
      /\ "namespaces" \in Option
  BY <1>1, <1>2, InputKept, UsedOptions, Given DEF Typed, Option
<1>4. CASE pc' = "done" /\ exit' = "refused"
  BY <1>1, <1>4 DEF Inv, OptionInv, QuantityInv, ScopeInv, TargetInv, Going
<1>5. CASE pc' = AfterFile
  <2>1. pc' \in {"scope", "common"} /\ (pc' = "scope") = (command = "collect")
    BY <1>5 DEF AfterFile
  <2>2. input.setting \in {"none", "refused", "read"}
    BY <1>1, CommandAssumption DEF Typed
  <2>3. input.setting # "refused"
    BY <2>1 DEF ReadFile, End
  <2>4. \A o \in Option : opts'[o] = FileSays(o)
    <3>1. CASE input.setting = "none"
      BY <1>2, <3>1 DEF ReadFile, FileSays, Inv, OptionInv
    <3>2. CASE input.setting = "read"
      BY <3>2 DEF ReadFile, FileSays
    <3>3. QED
      BY <2>2, <2>3, <3>1, <3>2
  <2>5. \A o : pc' \in Before(o)
    <3>1. \A o : {"file", "scope"} \subseteq Before(o) \/ command # "collect"
      BY DEF Before
    <3>2. \A o : {"file", "common"} \subseteq Before(o) \/ command = "collect"
      BY DEF Before
    <3>3. QED
      BY <2>1, <3>1, <3>2
  <2>6. OptionInv'
    <3>1. \A o \in Used' : opts'[o] = FileSays(o)' /\ (pc \in Before(o))'
      BY <1>2, <1>3, <2>4, <2>5, InputKept
    <3>2. pc' # "file"
      BY <2>1
    <3>3. QED
      BY <3>1, <3>2 DEF OptionInv
  <2>7. \A l \in List, r \in Resource : quantities'[l][r] = FromFile(l, r)
    <3>1. quantities = DefaultQuantity
      BY <1>2 DEF Inv, QuantityInv
    <3>2. CASE input.setting = "none"
      BY <3>1, <3>2 DEF ReadFile, FromFile
    <3>3. CASE input.setting = "read"
      <4>1. quantities' = [l \in List |-> IF l \in input.nulls THEN Nothing
                                          ELSE Over(input.lists[l], quantities[l])]
        BY <3>3 DEF ReadFile
      <4>2. QED
        BY <3>1, <3>3, <4>1 DEF Over, Nothing, FromFile
    <3>4. QED
      BY <2>2, <2>3, <3>2, <3>3
  <2>8. QuantityInv'
    BY <1>2, <1>3, <2>1, <2>7, InputKept DEF QuantityInv
  <2>9. ScopeInv'
    BY <1>2, <1>3, <2>1, <2>4, InputKept DEF ScopeInv
  <2>10. TargetInv'
    BY <2>1 DEF TargetInv, Connected
  <2>11. QED
    BY <1>1, <2>6, <2>8, <2>9, <2>10 DEF Inv
<1>6. QED
  BY <1>4, <1>5 DEF ReadFile, GoOn, End

\* A step of which only the option's part of the invariant is to be shown.
LEMMA OwnFrame ==
  ASSUME Inv, Typed', OptionInv', UNCHANGED <<input, plain>>, pc \in {"common", "own", "selector"},
         pc' \in {"own", "selector", "lists", "connect"}, command = "run" => pc' # "connect"
  PROVE  Inv'
<1>1. exit = "none" /\ command' = command /\ command \in Preflight
  <2>1. exit = "none" /\ command' = command
    BY DEF Inv, Typed, TypeOK, command
  <2>2. command \in Preflight \/ command = "run"
    BY DEF Inv, Typed, Route
  <2>3. QED
    BY <2>1, <2>2 DEF Preflight
<1>2. QuantityInv'
  <2>1. CASE command = "run"
    BY <1>1, <2>1, InputKept DEF Inv, QuantityInv, plain, Going
  <2>2. CASE command # "run"
    BY <1>1, <2>2 DEF QuantityInv
  <2>3. QED
    BY <2>1, <2>2
<1>3. ScopeInv'
  BY <1>1 DEF ScopeInv, Preflight
<1>4. TargetInv'
  BY DEF TargetInv, Connected
<1>5. QED
  BY <1>2, <1>3, <1>4 DEF Inv

\* Facts about the options of the two preflight commands, in the form their steps need.
LEMMA PreflightOptions ==
  ASSUME command \in Preflight, NEW o \in Used
  PROVE  /\ o \in Option /\ o \notin {"inCluster", "namespaces"}
         /\ o \in CommonOption(command) <=> o \in {"namespace", "kubeconfig", "logLevel", "scope"}
         /\ o \in CommonOption(command) => Before(o) = {"file", "common"}
         /\ o = "nodeSelector" => Before(o) = {"file", "common", "own", "selector"}
         /\ o \notin CommonOption(command) /\ o # "nodeSelector" =>
              /\ Before(o) = {"file", "common", "own"}
              /\ o \in OwnOption(command) \/ (o = "pvcStorageRequest" /\ command = "run")
         /\ o \in OwnOption(command) => o \notin CommonOption(command) \cup {"nodeSelector", "pvcStorageRequest"}
         /\ o \in {"nodeSelector", "pvcStorageRequest"} => command = "run"
<1>1. CommonOption(command) = {"namespace", "kubeconfig", "logLevel", "scope"}
  BY DEF CommonOption
<1>2. command # "collect" /\ command \in Commands
  BY DEF Preflight, Commands
<1>3. CASE command = "run"
  <2>1. OwnOption(command) = {"storageClass", "snapshotClass", "localRegistry",
          "imagePullSecret", "serviceAccount", "cleanupOnFailure"}
    BY <1>3 DEF OwnOption
  <2>2. QED
    BY <1>1, <1>2, <1>3, <2>1, UsedOptions DEF Before
<1>4. CASE command = "cleanup"
  <2>1. OwnOption(command) = {"uid"}
    BY <1>4 DEF OwnOption
  <2>2. QED
    BY <1>1, <1>2, <1>4, <2>1, UsedOptions DEF Before
<1>5. QED
  BY <1>3, <1>4 DEF Preflight

LEMMA CommonInv == ASSUME Inv, CommonFromFlags PROVE Inv'
<1>1. /\ Typed' /\ Typed /\ pc = "common" /\ pc' = "own" /\ exit' = exit /\ command \in Preflight
      /\ UNCHANGED <<input, plain>>
  BY PreflightTyped DEF CommonFromFlags, GoOn, Inv, Typed, Route
<1>2. command' = command /\ Used' = Used
  BY <1>1, InputKept
<1>3. ASSUME NEW o \in Used
      PROVE  opts'[o] = IF pc' \in Before(o) THEN FileSays(o) ELSE Promised(o)
  <2>1. o \in Option /\ o # "inCluster"
    BY <1>1, PreflightOptions
  <2>2. opts[o] = FileSays(o)
    <3>1. pc \in Before(o)
      BY <1>1 DEF Before, Preflight
    <3>2. QED
      BY <1>1, <3>1 DEF Inv, OptionInv, Going
  <2>3. CASE o \in CommonOption(command)
    <3>1. opts'[o] = IF Changed(o) \/ FileSays(o) = Zero THEN Flag(o) ELSE FileSays(o)
      BY <2>1, <2>2, <2>3 DEF CommonFromFlags, Fill
    <3>2. o # "pvcStorageRequest" /\ Before(o) = {"file", "common"}
      BY <1>1, <2>3, PreflightOptions
    <3>3. QED
      BY <1>1, <3>1, <3>2, FillRule
  <2>4. CASE o \notin CommonOption(command)
    <3>1. opts'[o] = FileSays(o)
      BY <2>1, <2>2, <2>4 DEF CommonFromFlags
    <3>2. pc' \in Before(o)
      BY <1>1, <2>4, PreflightOptions
    <3>3. QED
      BY <3>1, <3>2
  <2>5. QED
    BY <2>3, <2>4
<1>4. OptionInv'
  <2>1. \A o \in Used' : opts'[o] = IF pc' \in Before(o)' THEN FileSays(o)' ELSE Promised(o)'
    BY <1>1, <1>2, <1>3, InputKept
  <2>2. QED
    BY <1>1, <2>1 DEF OptionInv
<1>5. QED
  BY <1>1, <1>4, OwnFrame

LEMMA OwnInv == ASSUME Inv, OwnFromFlags PROVE Inv'
<1>1. /\ Typed' /\ Typed /\ pc = "own" /\ command \in Preflight /\ exit = "none"
      /\ UNCHANGED <<input, plain>>
  BY PreflightTyped DEF OwnFromFlags, Inv, Typed, TypeOK, Route
<1>2. CASE pc' = "done" /\ exit' = "panicked"
  BY <1>1, <1>2 DEF Inv, OptionInv, QuantityInv, ScopeInv, TargetInv, Going
<1>3. CASE pc' # "done"
  <2>1. /\ opts' = [o \in Option |->
               CASE o \in OwnOption(command) /\ Override(o) -> Flag(o)
                 [] command = "run" /\ o = "pvcStorageRequest" ->
                      IF Changed(o) THEN Flag(o)
                      ELSE IF opts[o] = Zero THEN "default" ELSE opts[o]
                 [] OTHER -> opts[o]]
        /\ pc' = IF command = "run" THEN "selector" ELSE "connect"
        /\ exit' = exit
    BY <1>3 DEF OwnFromFlags, End, GoOn
  <2>2. command' = command /\ Used' = Used
    BY <1>1, InputKept
  <2>3. ASSUME NEW o \in Used
        PROVE  opts'[o] = IF pc' \in Before(o) THEN FileSays(o) ELSE Promised(o)
    <3>1. o \in Option /\ opts[o] = IF pc \in Before(o) THEN FileSays(o) ELSE Promised(o)
      BY <1>1, PreflightOptions DEF Inv, OptionInv, Going
    <3>2. CASE o \in OwnOption(command)
      <4>1. /\ Before(o) = {"file", "common", "own"}
            /\ o \notin {"namespace", "logLevel", "scope", "kubeconfig", "pvcStorageRequest"}
        BY <1>1, <3>2, PreflightOptions
      <4>2. opts'[o] = IF Changed(o) THEN Flag(o) ELSE FileSays(o)
        BY <1>1, <2>1, <3>1, <3>2, <4>1 DEF Override
      <4>3. QED
        BY <2>1, <4>1, <4>2, OverrideRule
    <3>3. CASE o = "pvcStorageRequest"
      <4>1. o \notin OwnOption(command) /\ command = "run" /\ Before(o) = {"file", "common", "own"}
        BY <1>1, <3>3, PreflightOptions
      <4>2. opts'[o] = IF Changed(o) THEN Flag(o)
                       ELSE IF FileSays(o) = Zero THEN "default" ELSE FileSays(o)
        BY <1>1, <2>1, <3>1, <3>3, <4>1
      <4>3. QED
        BY <2>1, <3>3, <4>1, <4>2 DEF Promised, Flag
    <3>4. CASE o \notin OwnOption(command) /\ o # "pvcStorageRequest"
      <4>1. opts'[o] = opts[o]
        BY <2>1, <3>1, <3>4
      <4>2. \/ Before(o) = {"file", "common"}
            \/ o = "nodeSelector" /\ command = "run" /\ Before(o) = {"file", "common", "own", "selector"}
        BY <1>1, <3>4, PreflightOptions
      <4>3. QED
        BY <1>1, <2>1, <3>1, <4>1, <4>2
    <3>5. QED
      BY <3>2, <3>3, <3>4
  <2>4. OptionInv'
    <3>1. \A o \in Used' : opts'[o] = IF pc' \in Before(o)' THEN FileSays(o)' ELSE Promised(o)'
      BY <1>1, <2>2, <2>3, InputKept
    <3>2. QED
      BY <2>1, <3>1 DEF OptionInv
  <2>5. QED
    BY <1>1, <2>1, <2>2, <2>4, OwnFrame
<1>4. QED
  BY <1>2, <1>3 DEF OwnFromFlags, End, GoOn

LEMMA SelectorInv == ASSUME Inv, NodeSelector PROVE Inv'
<1>1. /\ Typed' /\ Typed /\ pc = "selector" /\ command = "run" /\ exit = "none"
      /\ UNCHANGED <<input, plain>> /\ command \in Preflight
  BY PreflightTyped DEF NodeSelector, Inv, Typed, TypeOK, Route, Preflight
<1>2. CASE pc' = "done" /\ exit' = "refused"
  BY <1>1, <1>2 DEF Inv, OptionInv, QuantityInv, ScopeInv, TargetInv, Going
<1>3. CASE pc' # "done"
  <2>1. /\ opts' = [o \in Option |-> IF o = "nodeSelector" /\ Changed(o) THEN Flag(o) ELSE opts[o]]
        /\ pc' = "lists" /\ exit' = exit
    BY <1>3 DEF NodeSelector, End, GoOn, FromFlags, Override
  <2>2. command' = command /\ Used' = Used
    BY <1>1, InputKept
  <2>3. ASSUME NEW o \in Used PROVE opts'[o] = Promised(o) /\ pc' \notin Before(o)
    <3>1. o \in Option /\ opts[o] = IF pc \in Before(o) THEN FileSays(o) ELSE Promised(o)
      BY <1>1, PreflightOptions DEF Inv, OptionInv, Going
    <3>2. CASE o = "nodeSelector"
      <4>1. Before(o) = {"file", "common", "own", "selector"}
        BY <1>1, <3>2, PreflightOptions
      <4>2. opts'[o] = IF Changed(o) THEN Flag(o) ELSE FileSays(o)
        BY <1>1, <2>1, <3>1, <3>2, <4>1
      <4>3. QED
        BY <2>1, <3>2, <4>1, <4>2, OverrideRule
    <3>3. CASE o # "nodeSelector"
      <4>1. Before(o) \in {{"file", "common"}, {"file", "common", "own"}}
        BY <1>1, <3>3, PreflightOptions
      <4>2. QED
        BY <1>1, <2>1, <3>1, <3>3, <4>1
    <3>4. QED
      BY <3>2, <3>3
  <2>4. OptionInv'
    <3>1. \A o \in Used' : opts'[o] = Promised(o)' /\ (pc \notin Before(o))'
      BY <1>1, <2>2, <2>3, InputKept
    <3>2. QED
      BY <2>1, <3>1 DEF OptionInv
  <2>5. QED
    BY <1>1, <2>1, <2>4, OwnFrame
<1>4. QED
  BY <1>2, <1>3 DEF NodeSelector, End, GoOn

\* A step that leaves the options alone and none of them behind.
LEMMA OptionFrame ==
  ASSUME Inv, UNCHANGED <<input, opts>>, pc \notin {"file", "common", "done"}, pc' # "file",
         \A o \in Used : pc \in Before(o) <=> pc' \in Before(o)
  PROVE  OptionInv'
<1>1. \A o \in Used' : opts'[o] = IF pc' \in Before(o)' THEN FileSays(o)' ELSE Promised(o)'
  BY InputKept DEF Inv, OptionInv, Going
<1>2. QED
  BY <1>1 DEF OptionInv

LEMMA ListsInv == ASSUME Inv, ResourceLists PROVE Inv'
<1>1. /\ Typed' /\ Typed /\ pc = "lists" /\ command = "run" /\ exit = "none"
      /\ UNCHANGED <<input, opts, nil, kinds, clustered, target, served>> /\ command \in Preflight
  BY ListsTyped DEF ResourceLists, Inv, Typed, TypeOK, Route, Preflight
<1>2. CASE pc' = "done" /\ exit' \in {"refused", "panicked"}
  BY <1>1, <1>2 DEF Inv, OptionInv, QuantityInv, ScopeInv, TargetInv, Going
<1>3. CASE pc' # "done"
  <2>1. pc' = "connect" /\ quantities' = [l \in List |-> WithFlag(l)] /\ exit' = exit
    BY <1>3 DEF ResourceLists, End, GoOn
  <2>2. \A o \in Used : pc \notin Before(o) /\ pc' \notin Before(o)
    <3>1. \A o \in Used : Before(o) \in {{"file", "common"}, {"file", "common", "own"},
                                         {"file", "common", "own", "selector"}}
      BY <1>1, PreflightOptions
    <3>2. QED
      BY <1>1, <2>1, <3>1
  <2>3. OptionInv'
    BY <1>1, <2>1, <2>2, OptionFrame
  <2>4. \A l \in List, r \in Resource : quantities'[l][r] = Quantity(l, r)
    <3>1. \A l \in List, r \in Resource : quantities[l][r] = FromFile(l, r)
      BY <1>1 DEF Inv, QuantityInv, Going
    <3>2. QED
      BY <2>1, <3>1 DEF WithFlag, Named, Quantity, FromFile
  <2>5. QuantityInv'
    BY <1>1, <2>1, <2>4, InputKept DEF QuantityInv
  <2>6. QED
    BY <1>1, <2>1, <2>3, <2>5, InputKept DEF Inv, ScopeInv, TargetInv, Connected
<1>4. QED
  BY <1>2, <1>3 DEF ResourceLists, End, GoOn

LEMMA ConnectInv == ASSUME Inv, Connect PROVE Inv'
<1>1. /\ Typed' /\ Typed /\ pc = "connect" /\ exit = "none" /\ command \in Commands
      /\ UNCHANGED <<input, opts, quantities, nil, kinds, clustered, served>>
  BY ConnectTyped, Given DEF Connect, Inv, Typed, TypeOK
<1>2. CASE pc' = "done" /\ exit' = "refused"
  BY <1>1, <1>2 DEF Inv, OptionInv, QuantityInv, ScopeInv, TargetInv, Going
<1>3. CASE pc' # "done"
  <2>1. PICK t \in Value \cup {"fallback"} :
          /\ Reaches(t) /\ target' = t
          /\ pc' = IF command = "collect" THEN "collection" ELSE "validate"
    BY <1>3 DEF Connect, GoOn, End
  <2>2. \A o \in Used : pc \in Before(o) <=> pc' \in Before(o)
    <3>1. CASE command = "collect"
      BY <1>1, <2>1, <3>1 DEF Before
    <3>2. CASE command # "collect"
      BY <1>1, <2>1, <3>2 DEF Before
    <3>3. QED
      BY <3>1, <3>2
  <2>3. OptionInv'
    BY <1>1, <2>1, <2>2, OptionFrame
  <2>4. QuantityInv'
    BY <1>1, <2>1, InputKept DEF Inv, QuantityInv, Going
  <2>5. ScopeInv'
    BY <1>1, <2>1, InputKept DEF Inv, ScopeInv, Going
  <2>6. opts["kubeconfig"] = Promised("kubeconfig")
    <3>1. "kubeconfig" \in Used /\ pc \notin Before("kubeconfig")
      <4>1. CASE command = "collect"
        BY <1>1, <4>1, UsedOptions DEF Before
      <4>2. CASE command # "collect"
        BY <1>1, <4>2, UsedOptions DEF Before, CommonOption, Commands, Preflight
      <4>3. QED
        BY <4>1, <4>2
    <3>2. QED
      BY <1>1, <3>1 DEF Inv, OptionInv, Going
  <2>7. \/ t = Promised("kubeconfig") /\ t # Zero
        \/ t = "default" /\ command = "collect" /\ input.env
        \/ t = "fallback" /\ input.config = "empty"
        \/ t = "fallback" /\ command \in Preflight /\ Promised("kubeconfig") = Zero
    <3>1. CASE t = "fallback" /\ FallsBack
      <4>1. CASE Path = Zero
        BY <2>6, <3>1, <4>1 DEF FallsBack, Path
      <4>2. CASE Path # Zero
        BY <3>1, <4>2 DEF FallsBack
      <4>3. QED
        BY <4>1, <4>2
    <3>2. CASE t = Path /\ Path # Zero
      BY <2>6, <3>2 DEF Path
    <3>3. QED
      BY <2>1, <3>1, <3>2 DEF Reaches
  <2>8. TargetInv'
    BY <1>1, <2>1, <2>7, InputKept DEF TargetInv, Asked
  <2>9. QED
    BY <1>1, <2>3, <2>4, <2>5, <2>8 DEF Inv
<1>4. QED
  BY <1>2, <1>3 DEF Connect, GoOn, End

\* The steps after the connection: quantities and target have settled.
LEMMA LateFrame ==
  ASSUME Inv, Typed', OptionInv', ScopeInv', UNCHANGED <<input, quantities, target>>,
         pc \in {"validate", "collection", "kinds", "versions", "labels", "check"},
         pc' \in {"kinds", "versions", "labels", "check", "done"}
  PROVE  Inv'
<1>1. Going /\ Connected
  BY DEF Going, Connected
<1>2. Asked'
  BY <1>1, InputKept DEF Inv, TargetInv, Asked
<1>3. QuantityInv'
  BY <1>1, InputKept DEF Inv, QuantityInv
<1>4. QED
  BY <1>2, <1>3 DEF Inv, TargetInv

LEMMA ValidateInv == ASSUME Inv, Validate PROVE Inv'
<1>1. /\ Typed' /\ Typed /\ pc = "validate" /\ pc' = "done" /\ command \in Preflight /\ exit = "none"
      /\ UNCHANGED <<input, opts, plain>>
  BY PreflightTyped DEF Validate, End, Inv, Typed, TypeOK, Route
<1>2. \A o \in Used : pc \notin Before(o) /\ pc' \notin Before(o)
  <2>1. \A o \in Used : Before(o) \in {{"file", "common"}, {"file", "common", "own"},
                                       {"file", "common", "own", "selector"}}
    BY <1>1, PreflightOptions
  <2>2. QED
    BY <1>1, <2>1
<1>3. OptionInv'
  BY <1>1, <1>2, OptionFrame
<1>4. ScopeInv'
  BY <1>1, InputKept DEF ScopeInv, Preflight
<1>5. QED
  BY <1>1, <1>3, <1>4, LateFrame DEF plain

\* The log collector's four options, and where each meets its flag.
LEMMA CollectOptions ==
  ASSUME command = "collect", NEW o \in Used
  PROVE  /\ o \in {"kubeconfig", "logLevel", "keepSource", "labels"} /\ o \in Option
         /\ o = "kubeconfig" => Before(o) = {"file", "scope"}
         /\ o \in {"logLevel", "keepSource"} => Before(o) = {"file", "scope", "connect", "collection"}
         /\ o = "labels" =>
              Before(o) = {"file", "scope", "connect", "collection", "kinds", "versions", "labels"}
<1>1. command \in Commands
  BY DEF Commands
<1>2. QED
  BY <1>1, UsedOptions DEF Before

LEMMA CollectOwn == command = "collect" => OwnOption(command) = {"keepSource"}
BY DEF OwnOption

LEMMA ScopeStepInv == ASSUME Inv, ScopeAndConfig PROVE Inv'
<1>1. /\ Typed' /\ Typed /\ pc = "scope" /\ pc' = "connect" /\ exit' = exit /\ exit = "none"
      /\ command = "collect" /\ UNCHANGED <<input, quantities, nil, kinds, target, served>>
      /\ clustered' = NobodyNames
  BY CollectTyped DEF ScopeAndConfig, GoOn, Inv, Typed, TypeOK, Route
<1>2. command' = command /\ Used' = Used /\ "namespaces" \in Option
  BY <1>1, InputKept DEF Option
<1>3. opts' = [o \in Option |-> IF o = "kubeconfig" /\ Fill(o) THEN Flag(o) ELSE opts[o]]
  BY DEF ScopeAndConfig, FromFlags
<1>4. ASSUME NEW o \in Used
      PROVE  opts'[o] = IF pc' \in Before(o) THEN FileSays(o) ELSE Promised(o)
  <2>1. o \in Option /\ opts[o] = FileSays(o)
    BY <1>1, CollectOptions DEF Inv, OptionInv, Going
  <2>2. CASE o = "kubeconfig"
    <3>1. opts'[o] = IF Changed(o) \/ FileSays(o) = Zero THEN Flag(o) ELSE FileSays(o)
      BY <1>3, <2>1, <2>2 DEF Fill
    <3>2. Before(o) = {"file", "scope"}
      BY <1>1, <2>2, CollectOptions
    <3>3. QED
      BY <1>1, <2>2, <3>1, <3>2, FillRule
  <2>3. CASE o # "kubeconfig"
    BY <1>1, <1>3, <2>1, <2>3, CollectOptions
  <2>4. QED
    BY <2>2, <2>3
<1>5. OptionInv'
  <2>1. \A o \in Used' : opts'[o] = IF pc' \in Before(o)' THEN FileSays(o)' ELSE Promised(o)'
    BY <1>1, <1>2, <1>4, InputKept
  <2>2. QED
    BY <1>1, <1>2, <2>1 DEF OptionInv, Preflight
<1>6. opts["namespaces"] = FileSays("namespaces") /\ opts'["namespaces"] = FileSays("namespaces")
  BY <1>1, <1>2, <1>3 DEF Inv, ScopeInv, Going
<1>7. ScopeInv'
  BY <1>1, <1>2, <1>6, InputKept DEF ScopeInv, NobodyNames
<1>8. QED
  BY <1>1, <1>2, <1>5, <1>7 DEF Inv, QuantityInv, TargetInv, Connected

LEMMA CollectionInv == ASSUME Inv, CollectionFromFlags PROVE Inv'
<1>1. /\ Typed' /\ Typed /\ pc = "collection" /\ pc' = "kinds" /\ exit' = exit /\ exit = "none"
      /\ command = "collect" /\ UNCHANGED <<input, plain>>
  BY CollectTyped DEF CollectionFromFlags, GoOn, Inv, Typed, TypeOK, Route
<1>2. command' = command /\ Used' = Used /\ "namespaces" \in Option
      /\ OwnOption(command) = {"keepSource"}
  BY <1>1, InputKept, CollectOwn DEF Option
<1>3. opts' = [o \in Option |->
        IF \/ o = "logLevel" /\ Fill(o)
           \/ o = "namespaces" /\ (Changed(o) \/ ~clustered)
           \/ o = "keepSource" /\ Override(o)
        THEN Flag(o) ELSE opts[o]]
  BY DEF CollectionFromFlags
<1>4. ASSUME NEW o \in Used
      PROVE  opts'[o] = IF pc' \in Before(o) THEN FileSays(o) ELSE Promised(o)
  <2>1. o \in Option /\ opts[o] = IF pc \in Before(o) THEN FileSays(o) ELSE Promised(o)
    BY <1>1, CollectOptions DEF Inv, OptionInv, Going
  <2>2. CASE o = "logLevel"
    <3>1. Before(o) = {"file", "scope", "connect", "collection"}
      BY <1>1, <2>2, CollectOptions
    <3>2. opts'[o] = IF Changed(o) \/ FileSays(o) = Zero THEN Flag(o) ELSE FileSays(o)
      BY <1>1, <1>3, <2>1, <2>2, <3>1 DEF Fill
    <3>3. QED
      BY <1>1, <2>2, <3>1, <3>2, FillRule
  <2>3. CASE o = "keepSource"
    <3>1. Before(o) = {"file", "scope", "connect", "collection"}
      BY <1>1, <2>3, CollectOptions
    <3>2. opts'[o] = IF Changed(o) THEN Flag(o) ELSE FileSays(o)
      BY <1>1, <1>3, <2>1, <2>3, <3>1 DEF Override
    <3>3. QED
      BY <1>1, <2>3, <3>1, <3>2, OverrideRule
  <2>4. CASE o \in {"kubeconfig", "labels"}
    <3>1. opts'[o] = opts[o]
      BY <1>3, <2>1, <2>4
    <3>2. pc \in Before(o) <=> pc' \in Before(o)
      BY <1>1, <2>4, CollectOptions
    <3>3. QED
      BY <2>1, <3>1, <3>2
  <2>5. QED
    BY <1>1, <2>2, <2>3, <2>4, CollectOptions
<1>5. OptionInv'
  <2>1. \A o \in Used' : opts'[o] = IF pc' \in Before(o)' THEN FileSays(o)' ELSE Promised(o)'
    BY <1>1, <1>2, <1>4, InputKept
  <2>2. QED
    BY <1>1, <1>2, <2>1 DEF OptionInv, Preflight
<1>6. ScopeInv'
  <2>1. opts["namespaces"] = FileSays("namespaces")
    BY <1>1 DEF Inv, ScopeInv, Going
  <2>2. opts'["namespaces"] =
          IF Changed("namespaces") \/ ~clustered THEN Flag("namespaces") ELSE FileSays("namespaces")
    BY <1>2, <1>3, <2>1
  <2>3. clustered <=> (FileSays("namespaces") = Zero /\ Flag("namespaces") = Zero)
    BY <1>1 DEF Inv, ScopeInv, Going
  <2>4. clustered' = clustered
    BY <1>1 DEF plain
  <2>5. QED
    BY <1>1, <2>2, <2>3, <2>4, InputKept DEF ScopeInv
<1>7. QED
  BY <1>1, <1>5, <1>6, LateFrame DEF plain

\* Steps that leave options and scope alone.
LEMMA KindsInv == ASSUME Inv, Kinds \/ Versions \/ CheckCollection PROVE Inv'
<1>1. /\ Typed' /\ Typed /\ command = "collect" /\ exit = "none"
      /\ UNCHANGED <<input, opts, quantities, clustered, target>>
  BY CollectTyped DEF Kinds, Versions, CheckCollection, plain, Inv, Typed, TypeOK, Route
<1>2. \/ pc = "kinds" /\ pc' \in {"versions", "done"}
      \/ pc = "versions" /\ pc' \in {"labels", "done"}
      \/ pc = "check" /\ pc' = "done"
  BY DEF Kinds, Versions, CheckCollection, GoOn, End
<1>3. ScopeInv'
  BY <1>1, <1>2, InputKept DEF Inv, ScopeInv, Going
<1>4. CASE pc' = "done" /\ exit' # "ready"
  BY <1>1, <1>3, <1>4, <1>2 DEF Inv, OptionInv, QuantityInv, TargetInv, Going
<1>5. CASE ~(pc' = "done" /\ exit' # "ready")
  <2>1. \/ pc = "kinds" /\ pc' = "versions"
        \/ pc = "versions" /\ pc' = "labels"
        \/ pc = "check" /\ pc' = "done"
    <3>1. ParseFailure # "ready"
      BY DEF ParseFailure
    <3>2. pc = "kinds" /\ pc' = "done" => exit' # "ready"
      BY <3>1 DEF Kinds, Versions, CheckCollection, GoOn, End
    <3>3. pc = "versions" /\ pc' = "done" => exit' # "ready"
      BY DEF Kinds, Versions, CheckCollection, GoOn, End
    <3>4. QED
      BY <1>2, <1>5, <3>2, <3>3
  <2>2. \A o \in Used : pc \in Before(o) <=> pc' \in Before(o)
    <3>1. \A o \in Used : Before(o) \in
            {{"file", "scope"}, {"file", "scope", "connect", "collection"},
             {"file", "scope", "connect", "collection", "kinds", "versions", "labels"}}
      BY <1>1, CollectOptions
    <3>2. QED
      BY <2>1, <3>1
  <2>3. OptionInv'
    BY <1>1, <2>1, <2>2, OptionFrame
  <2>4. QED
    BY <1>1, <1>3, <2>1, <2>3, LateFrame
<1>6. QED
  BY <1>4, <1>5

LEMMA LabelsInv == ASSUME Inv, Labels PROVE Inv'
<1>1. /\ Typed' /\ Typed /\ pc = "labels" /\ command = "collect" /\ exit = "none"
      /\ UNCHANGED <<input, quantities, nil, clustered, target, served>>
  BY CollectTyped DEF Labels, Inv, Typed, TypeOK, Route
<1>2. CASE pc' = "done" /\ exit' = "refused"
  BY <1>1, <1>2 DEF Inv, OptionInv, QuantityInv, ScopeInv, TargetInv, Going
<1>3. CASE pc' # "done"
  <2>1. /\ pc' = "check" /\ exit' = exit
        /\ opts' = [o \in Option |-> IF o = "labels" /\ Changed(o) THEN Flag(o) ELSE opts[o]]
    BY <1>3 DEF Labels, FromFlags, Override, End, GoOn
  <2>2. command' = command /\ Used' = Used /\ "namespaces" \in Option
    BY <1>1, InputKept DEF Option
  <2>3. ASSUME NEW o \in Used PROVE opts'[o] = Promised(o) /\ pc' \notin Before(o)
    <3>1. o \in Option /\ opts[o] = IF pc \in Before(o) THEN FileSays(o) ELSE Promised(o)
      BY <1>1, CollectOptions DEF Inv, OptionInv, Going
    <3>2. pc' \notin Before(o) /\ (pc \in Before(o) <=> o = "labels")
      BY <1>1, <2>1, CollectOptions
    <3>3. CASE o = "labels"
      <4>1. opts'[o] = IF Changed(o) THEN Flag(o) ELSE FileSays(o)
        BY <2>1, <3>1, <3>2, <3>3
      <4>2. QED
        BY <3>2, <3>3, <4>1, OverrideRule
    <3>4. CASE o # "labels"
      BY <2>1, <3>1, <3>2, <3>4
    <3>5. QED
      BY <3>3, <3>4
  <2>4. OptionInv'
    <3>1. \A o \in Used' : opts'[o] = Promised(o)' /\ (pc \notin Before(o))'
      BY <1>1, <2>2, <2>3, InputKept
    <3>2. QED
      BY <1>1, <2>1, <2>2, <3>1 DEF OptionInv, Preflight
  <2>5. opts'["namespaces"] = opts["namespaces"]
    BY <2>1, <2>2
  <2>6. ScopeInv'
    BY <1>1, <2>1, <2>5, InputKept DEF Inv, ScopeInv, Going
  <2>7. QED
    BY <1>1, <2>1, <2>4, <2>6, LateFrame
<1>4. QED
  BY <1>2, <1>3 DEF Labels, End, GoOn

LEMMA StepInv == ASSUME Inv, [Next]_vars PROVE Inv'
<1>1. CASE UNCHANGED vars
  <2>1. UNCHANGED <<input, opts, quantities, clustered, target, pc, exit>>
    BY <1>1 DEF vars
  <2>2. Typed'
    BY <1>1, StepTyped DEF Inv
  <2>3. OptionInv'
    BY <2>1, InputKept DEF Inv, OptionInv, Going
  <2>4. QuantityInv'
    BY <2>1, InputKept DEF Inv, QuantityInv, Going
  <2>5. ScopeInv'
    BY <2>1, InputKept DEF Inv, ScopeInv, Going
  <2>6. TargetInv'
    BY <2>1, InputKept DEF Inv, TargetInv, Asked, Going, Connected
  <2>7. QED
    BY <2>2, <2>3, <2>4, <2>5, <2>6 DEF Inv
<1>2. QED
  BY <1>1, ReadFileInv, CommonInv, OwnInv, SelectorInv, ListsInv, ConnectInv, ValidateInv,
     ScopeStepInv, CollectionInv, KindsInv, LabelsInv DEF Next

LEMMA Invariant == Spec => []Inv
<1>1. Init => Inv
  BY InitInv
<1>2. Inv /\ [Next]_vars => Inv'
  BY StepInv
<1>3. QED
  BY <1>1, <1>2, PTL DEF Spec

\* The command line prevails over the file and the file over the default, for every
\* quantity and every option of Used with which a command starts its work: all but
\* inCluster, for which the code does not do so, and the namespaces of ScopeDecided.
THEOREM FlagsPrevail == Spec => []Precedence
<1>1. ASSUME Inv PROVE Precedence
  <2>1. SUFFICES ASSUME exit = "ready" PROVE Precedence
    BY DEF Precedence
  <2>2. Going /\ pc = "done"
    BY <1>1, <2>1 DEF Inv, Typed, TypeOK, Going
  <2>3. \A o : pc \notin Before(o)
    BY <2>2 DEF Before
  <2>4. \A o \in Used : opts[o] = Promised(o)
    BY <1>1, <2>2, <2>3 DEF Inv, OptionInv
  <2>5. QED
    BY <1>1, <2>2, <2>4 DEF Inv, OptionInv, QuantityInv, Precedence
<1>2. QED
  BY <1>1, Invariant, PTL

\* The log collector's scope is the cluster exactly when neither file nor flag names a
\* namespace, and then it holds no namespaces.
THEOREM ScopeIsDecided == Spec => []ScopeDecided
<1>1. ASSUME Inv PROVE ScopeDecided
  <2>1. SUFFICES ASSUME \/ pc \in {"kinds", "versions", "labels", "check"}
                        \/ command = "collect" /\ exit = "ready"
                 PROVE  ScopeDecided
    BY DEF ScopeDecided
  <2>2. /\ command = "collect" /\ Going
        /\ pc \notin {"file", "scope", "connect", "collection"}
    BY <1>1, <2>1 DEF Inv, Typed, TypeOK, Route, Going
  <2>3. clustered <=> (FileSays("namespaces") = Zero /\ Flag("namespaces") = Zero)
    BY <1>1, <2>2 DEF Inv, ScopeInv
  <2>4. opts["namespaces"] = IF Changed("namespaces") \/ ~clustered THEN Flag("namespaces")
                             ELSE FileSays("namespaces")
    BY <1>1, <2>2 DEF Inv, ScopeInv
  <2>5. QED
    BY <2>3, <2>4 DEF ScopeDecided, Contradiction
<1>2. QED
  BY <1>1, Invariant, PTL

\* The cluster is the one of the kubeconfig that precedence selects, unless that file is
\* empty or preflight has none.
THEOREM ClusterIsAsked == Spec => []TargetAsked
<1>1. ASSUME Inv PROVE TargetAsked
  <2>1. exit = "ready" => Going /\ Connected
    BY <1>1 DEF Inv, Typed, TypeOK, Going, Connected
  <2>2. QED
    BY <1>1, <2>1 DEF Inv, TargetInv, Asked, TargetAsked
<1>2. QED
  BY <1>1, Invariant, PTL

(***************************************************************************)
(* The kinds that the log collector looks for.                             *)
(***************************************************************************)

\* A set of numbers that is not empty has a least one.
LEMMA Least == ASSUME NEW T, T \subseteq Nat, T # {} PROVE \E m \in T : \A k \in T : m <= k
<1>1. PICK m \in T : \A k \in T : ~(<<k, m>> \in OpToRel(<, Nat))
  BY NatLessThanWellFounded, WFMin
<1>2. \A k \in T : k < m => <<k, m>> \in OpToRel(<, Nat)
  BY DEF OpToRel
<1>3. \A k \in T : k \in Nat /\ m \in Nat /\ (k < m \/ m <= k)
  OBVIOUS
<1>4. QED
  BY <1>1, <1>2, <1>3

\* The numbers of a set up to one of them: they number the set without gaps.
Place(S, n) == Cardinality({m \in S : m <= n})

LEMMA Ranked ==
  ASSUME NEW L \in Nat, NEW S, S \subseteq 1 .. L
  PROVE  /\ Cardinality(S) \in Nat /\ Cardinality(S) <= L
         /\ \A n \in S : Place(S, n) \in 1 .. Cardinality(S)
         /\ \A i \in 1 .. Cardinality(S) : \E n \in S : Place(S, n) = i
         /\ \A m, n \in S : Place(S, m) = Place(S, n) => m = n
<1> DEFINE C == Cardinality(S)
           UpTo(n) == {m \in S : m <= n}
<1>1. IsFiniteSet(1 .. L) /\ Cardinality(1 .. L) = L
  BY FS_Interval
<1>2. IsFiniteSet(S) /\ C <= L /\ C \in Nat
  BY <1>1, FS_Subset, FS_CardinalityType
<1>3. \A n \in S : /\ IsFiniteSet(UpTo(n)) /\ Cardinality(UpTo(n)) <= C /\ Cardinality(UpTo(n)) \in Nat
                   /\ Cardinality(UpTo(n)) # 0
  <2>1. SUFFICES ASSUME NEW n \in S
                 PROVE  /\ IsFiniteSet(UpTo(n)) /\ Cardinality(UpTo(n)) <= C /\ Cardinality(UpTo(n)) \in Nat
                        /\ Cardinality(UpTo(n)) # 0
    OBVIOUS
  <2>2. UpTo(n) \in SUBSET S /\ n \in UpTo(n)
    OBVIOUS
  <2>3. IsFiniteSet(UpTo(n)) /\ Cardinality(UpTo(n)) <= C
    BY <1>2, <2>2, FS_Subset
  <2>4. Cardinality(UpTo(n)) \in Nat /\ Cardinality(UpTo(n)) # 0
    BY <2>2, <2>3, FS_CardinalityType, FS_EmptySet
  <2>5. QED
    BY <2>3, <2>4
<1>4. ASSUME NEW m \in S, NEW n \in S, m < n PROVE Cardinality(UpTo(m)) # Cardinality(UpTo(n))
  <2>1. \A k \in S : k \in Nat
    OBVIOUS
  <2>2. \A k \in S : k <= m => k <= n
    BY <1>4, <2>1
  <2>3. UpTo(m) \subseteq UpTo(n)
    BY <2>2
  <2>4. n \in UpTo(n) /\ n \notin UpTo(m)
    BY <1>4, <2>1
  <2>5. QED
    BY <1>3, <2>3, <2>4, FS_Subset
<1>5. \A m, n \in S : Cardinality(UpTo(m)) = Cardinality(UpTo(n)) => m = n
  <2>1. \A m, n \in S : m < n \/ n < m \/ m = n
    OBVIOUS
  <2>2. QED
    BY <1>4, <2>1
<1> DEFINE f == [n \in S |-> Cardinality(UpTo(n))]
<1>6. f \in [S -> 1 .. C]
  BY <1>2, <1>3
<1>7. f \in Injection(S, 1 .. C)
  BY <1>5, <1>6 DEF Injection, IsInjective
<1>8. IsFiniteSet(1 .. C) /\ Cardinality(1 .. C) = C
  BY <1>2, FS_Interval
<1>9. f \in Surjection(S, 1 .. C)
  BY <1>2, <1>7, <1>8, FS_Injection
<1>10. \A i \in 1 .. C : \E n \in S : f[n] = i
  BY <1>9 DEF Surjection
<1>11. QED
  BY <1>2, <1>5, <1>6, <1>10 DEF Place

\* Removing duplicates: nothing is invented, nothing is lost, nothing is added.
LEMMA UniqueFacts ==
  ASSUME kinds \in Seq(GroupVersionKind)
  PROVE  \E C \in 0 .. Len(kinds) :
           /\ DOMAIN Unique = 1 .. C
           /\ \A i \in 1 .. C : \E n \in DOMAIN kinds : Unique[i] = kinds[n]
           /\ \A n \in DOMAIN kinds : \E i \in 1 .. C : Unique[i] = kinds[n]
<1> DEFINE first(n) == \A m \in 1 .. (n - 1) : kinds[m] # kinds[n]
           kept == {n \in DOMAIN kinds : first(n)}
           C == Cardinality(kept)
<1>1. Len(kinds) \in Nat /\ DOMAIN kinds = 1 .. Len(kinds) /\ kept \subseteq 1 .. Len(kinds)
  OBVIOUS
<1>2. /\ C \in Nat /\ C <= Len(kinds)
      /\ \A n \in kept : Place(kept, n) \in 1 .. C
      /\ \A i \in 1 .. C : \E n \in kept : Place(kept, n) = i
      /\ \A m, n \in kept : Place(kept, m) = Place(kept, n) => m = n
  <2> HIDE DEF kept
  <2>1. QED
    BY <1>1, Ranked
<1>3. Unique = [i \in 1 .. C |-> kinds[CHOOSE n \in kept : Place(kept, n) = i]]
  BY DEF Unique, Place
<1>4. ASSUME NEW n \in kept PROVE Unique[Place(kept, n)] = kinds[n]
  <2> HIDE DEF kept
  <2>1. (CHOOSE m \in kept : Place(kept, m) = Place(kept, n)) = n
    BY <1>2
  <2>2. QED
    BY <1>2, <1>3, <2>1
<1>5. ASSUME NEW n \in DOMAIN kinds PROVE \E m \in kept : kinds[m] = kinds[n]
  <2> DEFINE T == {m \in DOMAIN kinds : kinds[m] = kinds[n]}
  <2>1. T \subseteq Nat /\ n \in T
    BY <1>1
  <2>2. PICK m \in T : \A k \in T : m <= k
    <3> HIDE DEF T
    <3>1. QED
      BY <2>1, Least
  <2>3. m \in DOMAIN kinds /\ m \in Nat /\ kinds[m] = kinds[n]
    BY <1>1, <2>2
  <2>4. ASSUME NEW k \in 1 .. (m - 1) PROVE kinds[k] # kinds[m]
    <3>1. k \in DOMAIN kinds /\ k \in Nat /\ k < m
      BY <1>1, <2>3
    <3>2. k \notin T
      BY <2>2, <2>3, <3>1
    <3>3. QED
      BY <2>3, <3>1, <3>2
  <2>5. QED
    BY <2>3, <2>4
<1>6. \A i \in 1 .. C : \E n \in DOMAIN kinds : Unique[i] = kinds[n]
  <2>1. ASSUME NEW i \in 1 .. C PROVE \E n \in DOMAIN kinds : Unique[i] = kinds[n]
    <3>1. PICK n \in kept : Place(kept, n) = i
      BY <1>2
    <3>2. QED
      BY <1>1, <1>4, <3>1
  <2>2. QED
    BY <2>1
<1>7. \A n \in DOMAIN kinds : \E i \in 1 .. C : Unique[i] = kinds[n]
  <2> HIDE DEF kept
  <2>1. QED
    BY <1>2, <1>4, <1>5
<1>8. DOMAIN Unique = 1 .. C /\ C \in 0 .. Len(kinds)
  BY <1>1, <1>2, <1>3
<1>9. QED
  BY <1>6, <1>7, <1>8

\* The kinds of the file, and those that are asked for: the flag's list replaces it.
KindsOfFile == IF input.setting = "read" THEN input.kinds ELSE <<>>
AskedKinds == IF input.cliKindsGiven THEN input.cliKinds ELSE KindsOfFile

\* What KindsGetVersions says of a command that gets so far.
KindsDone ==
  /\ \A n \in DOMAIN AskedKinds : \E m \in DOMAIN kinds : kinds[m] = Fixed(AskedKinds[n], served)
  /\ \A n \in DOMAIN kinds : kinds[n].version = Zero => kinds[n].group \notin DOMAIN served
  /\ Len(kinds) <= Len(AskedKinds)

KindInv ==
  /\ pc = "file" => kinds = <<>>
  /\ Going /\ command = "collect" =>
       /\ pc \in {"scope", "connect", "collection", "kinds"} => kinds = KindsOfFile
       /\ pc \in {"versions", "labels"} => kinds = AskedKinds
       /\ pc = "labels" => \A g \in DOMAIN served : served[g] \in STRING \ {Zero}
       /\ pc \in {"check", "done"} => KindsDone

\* The lists in play are lists of kinds.
LEMMA AskedTyped ==
  ASSUME Typed
  PROVE  KindsOfFile \in Seq(GroupVersionKind) /\ AskedKinds \in Seq(GroupVersionKind)
<1>1. input.kinds \in Seq(GroupVersionKind) /\ input.cliKinds \in Seq(GroupVersionKind)
  BY CommandAssumption DEF Typed
<1>2. <<>> \in Seq(GroupVersionKind)
  OBVIOUS
<1>3. QED
  BY <1>1, <1>2 DEF KindsOfFile, AskedKinds

\* A version is filled in where the cluster tells one.
LEMMA FixedFacts ==
  ASSUME NEW k \in GroupVersionKind, NEW known, \A g \in DOMAIN known : known[g] \in STRING \ {Zero}
  PROVE  Fixed(k, known).version = Zero => Fixed(k, known).group \notin DOMAIN known
<1>1. CASE k.version = Zero /\ k.group \in DOMAIN known
  <2>1. Fixed(k, known) = [k EXCEPT !.version = known[k.group]]
    BY <1>1 DEF Fixed
  <2>2. Fixed(k, known).version = known[k.group]
    BY <2>1 DEF GroupVersionKind
  <2>3. QED
    BY <1>1, <2>2
<1>2. CASE ~(k.version = Zero /\ k.group \in DOMAIN known)
  BY <1>2 DEF Fixed
<1>3. QED
  BY <1>1, <1>2

LEMMA KindsKept ==
  ASSUME input' = input
  PROVE  KindsOfFile' = KindsOfFile /\ AskedKinds' = AskedKinds
BY DEF KindsOfFile, AskedKinds

\* The step that removes duplicates and fills in versions.
LEMMA LabelsKinds ==
  ASSUME Typed, KindInv, Labels, pc' # "done"
  PROVE  KindsDone'
<1>1. /\ pc = "labels" /\ exit = "none" /\ command = "collect" /\ Going
      /\ UNCHANGED <<input, served>>
      /\ kinds' = [n \in DOMAIN Unique |->
                     Fixed(Unique[n], IF NeedsPreferredVersion THEN served ELSE <<>>)]
  BY DEF Labels, End, Typed, TypeOK, Route, Going
<1>2. /\ kinds = AskedKinds /\ kinds \in Seq(GroupVersionKind)
      /\ \A g \in DOMAIN served : served[g] \in STRING \ {Zero}
  BY <1>1, AskedTyped DEF KindInv
<1>3. \A n \in DOMAIN kinds : kinds[n] \in GroupVersionKind
  BY <1>2
<1>4. PICK C \in 0 .. Len(kinds) :
        /\ DOMAIN Unique = 1 .. C
        /\ \A i \in 1 .. C : \E n \in DOMAIN kinds : Unique[i] = kinds[n]
        /\ \A n \in DOMAIN kinds : \E i \in 1 .. C : Unique[i] = kinds[n]
  BY <1>2, UniqueFacts
<1>5. ASSUME NEW i \in 1 .. C
      PROVE  kinds'[i] = Fixed(Unique[i], served) /\ Unique[i] \in GroupVersionKind
  <2>1. PICK n \in DOMAIN kinds : Unique[i] = kinds[n]
    BY <1>4
  <2>2. CASE NeedsPreferredVersion
    BY <1>1, <1>3, <1>4, <2>1, <2>2
  <2>3. CASE ~NeedsPreferredVersion
    <3>1. Unique[i].version # Zero
      BY <2>1, <2>3 DEF NeedsPreferredVersion
    <3>2. kinds'[i] = Fixed(Unique[i], <<>>)
      BY <1>1, <1>4, <2>3
    <3>3. QED
      BY <1>3, <2>1, <3>1, <3>2 DEF Fixed
  <2>4. QED
    BY <2>2, <2>3
<1>6. kinds' = [i \in 1 .. C |-> Fixed(Unique[i], served)] /\ DOMAIN kinds' = 1 .. C
  BY <1>1, <1>4, <1>5
<1>7. \A n \in DOMAIN AskedKinds' : \E m \in DOMAIN kinds' : kinds'[m] = Fixed(AskedKinds'[n], served')
  <2>1. AskedKinds' = kinds
    BY <1>1, <1>2, KindsKept
  <2>2. ASSUME NEW n \in DOMAIN kinds
        PROVE  \E m \in DOMAIN kinds' : kinds'[m] = Fixed(kinds[n], served)
    <3>1. PICK m \in 1 .. C : Unique[m] = kinds[n]
      BY <1>4
    <3>2. QED
      BY <1>5, <1>6, <3>1
  <2>3. served' = served
    BY <1>1
  <2>4. QED
    BY <2>1, <2>2, <2>3
<1>8. \A n \in DOMAIN kinds' : kinds'[n].version = Zero => kinds'[n].group \notin DOMAIN served'
  BY <1>1, <1>2, <1>5, <1>6, FixedFacts
<1>9. Len(kinds') <= Len(AskedKinds')
  <2>1. C \in Nat /\ Len(kinds') = C
    BY <1>6
  <2>2. QED
    BY <1>1, <1>2, <1>4, <2>1, KindsKept
<1>10. QED
  BY <1>7, <1>8, <1>9 DEF KindsDone, Fixed

LEMMA KindStep == ASSUME Typed, KindInv, [Next]_vars PROVE KindInv'
<1>1. Typed'
  BY StepTyped
<1>2. CASE pc' = "done" /\ exit' # "ready"
  BY <1>2 DEF KindInv, Going
<1>3. CASE command # "collect" /\ pc' # "file"
  <2>1. input' = input
    BY DEF Next, vars, ReadFile, CommonFromFlags, OwnFromFlags, NodeSelector, ResourceLists, Connect,
       Validate, ScopeAndConfig, CollectionFromFlags, Kinds, Versions, Labels, CheckCollection
  <2>2. QED
    BY <1>3, <2>1 DEF KindInv, command
<1>4. CASE ReadFile
  <2>1. /\ pc = "file" /\ input' = input
        /\ \/ pc' = AfterFile /\ kinds' = KindsOfFile /\ exit' = exit
           \/ pc' = "done" /\ exit' = "refused"
    <3>1. input.setting \in {"none", "refused", "read"}
      BY CommandAssumption DEF Typed
    <3>2. QED
      BY <1>4, <3>1 DEF ReadFile, KindInv, KindsOfFile, GoOn, End
  <2>2. pc' # "done" => pc' \in {"scope", "common"} /\ (pc' = "common" => command # "collect")
    BY <2>1 DEF AfterFile
  <2>3. CASE pc' # "done"
    BY <2>1, <2>2, <2>3, KindsKept DEF KindInv, command
  <2>4. pc' = "done" => exit' = "refused"
    BY <2>1 DEF AfterFile
  <2>5. QED
    BY <1>2, <2>3, <2>4
<1>5. CASE ScopeAndConfig \/ CollectionFromFlags \/ (Connect /\ command = "collect")
  <2>1. /\ pc \in {"scope", "connect", "collection"} /\ exit = "none"
        /\ UNCHANGED <<input, kinds>> /\ command = "collect"
        /\ \/ pc' \in {"connect", "collection", "kinds"}
           \/ pc' = "done" /\ exit' = "refused"
    BY <1>5 DEF ScopeAndConfig, CollectionFromFlags, Connect, plain, GoOn, End, Typed, TypeOK, Route
  <2>2. kinds = KindsOfFile
    BY <2>1 DEF KindInv, Going
  <2>3. QED
    BY <1>2, <2>1, <2>2, KindsKept DEF KindInv
<1>6. CASE Kinds
  <2>1. /\ pc = "kinds" /\ exit = "none" /\ UNCHANGED input /\ command = "collect"
        /\ \/ pc' = "versions" /\ kinds' = IF input.cliKindsGiven THEN input.cliKinds ELSE kinds
           \/ pc' = "done" /\ exit' # "ready"
    <3>1. ParseFailure # "ready"
      BY DEF ParseFailure
    <3>2. QED
      BY <1>6, <3>1 DEF Kinds, GoOn, End, Typed, TypeOK, Route
  <2>2. kinds = KindsOfFile
    BY <2>1 DEF KindInv, Going
  <2>3. QED
    BY <1>2, <2>1, <2>2, KindsKept DEF KindInv, AskedKinds
<1>7. CASE Versions
  <2>1. /\ pc = "versions" /\ exit = "none" /\ UNCHANGED <<input, kinds>> /\ command = "collect"
        /\ \/ pc' = "labels" /\ \E part \in SUBSET DOMAIN input.served :
                                    served' = [g \in part |-> input.served[g]]
           \/ pc' = "done" /\ exit' = "refused"
    BY <1>7 DEF Versions, GoOn, End, Typed, TypeOK, Route
  <2>2. kinds = AskedKinds
    BY <2>1 DEF KindInv, Going
  <2>3. \A g \in DOMAIN input.served : input.served[g] \in STRING \ {Zero}
    BY CommandAssumption DEF Typed
  <2>4. QED
    BY <1>2, <2>1, <2>2, <2>3, KindsKept DEF KindInv
<1>8. CASE Labels
  <2>1. pc' \in {"check", "done"} /\ (pc' = "done" => exit' = "refused")
    BY <1>8 DEF Labels, GoOn, End
  <2>2. QED
    BY <1>2, <1>8, <2>1, LabelsKinds DEF KindInv
<1>9. CASE CheckCollection
  <2>1. /\ pc = "check" /\ exit = "none" /\ pc' = "done" /\ UNCHANGED <<input, kinds, served>>
        /\ command = "collect"
    BY <1>9 DEF CheckCollection, plain, End, Typed, TypeOK, Route
  <2>2. KindsDone
    BY <2>1 DEF KindInv, Going
  <2>3. KindsDone'
    BY <2>1, <2>2, KindsKept DEF KindsDone, Fixed
  <2>4. QED
    BY <2>1, <2>3 DEF KindInv
<1>10. CASE UNCHANGED vars
  <2>1. UNCHANGED <<pc, input, kinds, served, exit>>
    BY <1>10 DEF vars
  <2>2. KindsDone' = KindsDone
    BY <2>1, KindsKept DEF KindsDone, Fixed
  <2>3. QED
    BY <2>1, <2>2, KindsKept DEF KindInv, Going, command
<1>11. CASE CommonFromFlags \/ OwnFromFlags \/ NodeSelector \/ ResourceLists \/ Validate
             \/ (Connect /\ command # "collect")
  <2>1. command # "collect" /\ pc' # "file"
    BY <1>11 DEF CommonFromFlags, OwnFromFlags, NodeSelector, ResourceLists, Validate, Connect,
       GoOn, End, Typed, Route, Preflight
  <2>2. QED
    BY <1>3, <2>1
<1>12. QED
  BY <1>4, <1>5, <1>6, <1>7, <1>8, <1>9, <1>10, <1>11 DEF Next

\* Every kind that is asked for is looked for, as it was given or with the version that the
\* cluster prefers, duplicates are looked for once, and a kind stays without a version only
\* when the cluster told none for its group.
THEOREM KindsAreComplete == Spec => []KindsGetVersions
<1>1. Init => Typed /\ KindInv
  BY InitTyped DEF Init, KindInv
<1>2. Typed /\ KindInv /\ [Next]_vars => Typed' /\ KindInv'
  BY StepTyped, KindStep
<1>3. Typed /\ KindInv => KindsGetVersions
  <2>1. SUFFICES ASSUME Typed, KindInv, exit = "ready", command = "collect"
                 PROVE  KindsGetVersions
    BY DEF KindsGetVersions
  <2>2. pc = "done" /\ Going
    BY <2>1 DEF Typed, TypeOK, Going
  <2>3. KindsDone
    BY <2>1, <2>2 DEF KindInv
  <2>4. QED
    BY <2>3 DEF KindsDone, KindsGetVersions, AskedKinds, KindsOfFile
<1>4. QED
  BY <1>1, <1>2, <1>3, PTL DEF Spec
=============================================================================
