------------------------------ MODULE CommandInputs ------------------------------
(***************************************************************************)
(* How the three commands find out what they are asked: tvk-preflight run  *)
(* and cleanup (cmd/preflight/cmd) and tvk-log-collector (cmd/log-         *)
(* collector/cmd).  Each reads a configuration file, lets the flags        *)
(* override it, fills in defaults, connects to a cluster (internal/        *)
(* kube_helper.go) and validates, in an order of its own.  PreflightRun,   *)
(* PreflightCleanup and ResourceCollection start where this ends.          *)
(*                                                                         *)
(* A value is one of a few tokens that say where it came from; "odd" is a  *)
(* text that its parser refuses.  Kinds' and groups' names are up to case. *)
(***************************************************************************)
EXTENDS Naturals, Sequences, FiniteSets

CONSTANTS
  Input,      \* what one command may be given, see CommandAssumption
  Unset       \* a flag that is not on the command line

Zero == ""    \* of a value: empty, or FALSE
Commands == {"run", "cleanup", "collect"}
Preflight == {"run", "cleanup"}

\* updateCommonInputsFromCLI's strings, and the log collector's two like them.
CommonOption(c) ==
  IF c \in Preflight THEN {"namespace", "kubeconfig", "logLevel", "scope"}
  ELSE {"kubeconfig", "logLevel"}

\* Options that only a flag on the command line replaces.
OwnOption(c) ==
  CASE c = "run" ->
         {"storageClass", "snapshotClass", "localRegistry", "imagePullSecret",
          "serviceAccount", "cleanupOnFailure"}
    [] c = "cleanup" -> {"uid"}
    [] OTHER -> {"keepSource"}

Option ==
  (UNION {CommonOption(c) \cup OwnOption(c) : c \in Commands})
    \cup {"inCluster", "pvcStorageRequest", "nodeSelector", "namespaces", "labels"}
Value == {Zero, "file", "flag", "default", "odd"}

Resource == {"cpu", "memory"}
List == {"requests", "limits"}
DefaultQuantity == [l \in List |-> [r \in Resource |-> IF l = "requests" THEN 1 ELSE 2]]
Nothing == [r \in Resource |-> 0]
GroupVersionKind == [group : STRING, version : STRING, kind : STRING, parts : Nat]

\* setting: the configuration file is absent, not accepted, or read; file, lists and
\* kinds are what it says, nulls its lists of quantities given as null.  flag, cliLists,
\* cliKinds: the command line, oddLists its lists that do not parse.  parts: of a kind
\* in the flag, split at the slashes.  env: KUBECONFIG is set.  config: the kubeconfig
\* file.
ASSUME CommandAssumption ==
  /\ Unset \notin Value
  /\ \A i \in Input :
       /\ i.command \in Commands
       /\ i.setting \in {"none", "refused", "read"}
       /\ i.file \in [Option -> {Zero, "file", "odd"}]
       /\ \A o \in Option : i.flag[o] \in {Unset, Zero, "flag", "odd"}
       /\ \A l \in List :
            /\ DOMAIN i.lists[l] \subseteq Resource
            /\ \A r \in DOMAIN i.lists[l] : i.lists[l][r] \in Nat
            /\ i.cliLists[l] \in [Resource -> Nat]
       /\ i.nulls \subseteq List /\ i.oddLists \subseteq List
       /\ i.kinds \in Seq(GroupVersionKind) /\ i.cliKinds \in Seq(GroupVersionKind)
       /\ \A k \in DOMAIN i.kinds : i.kinds[k].parts = 3
       /\ \A g \in DOMAIN i.served : i.served[g] \in STRING \ {Zero}
       /\ i.cliKindsGiven \in BOOLEAN
       /\ i.env \in BOOLEAN
       /\ i.config \in {"good", "empty", "unusable"}

VARIABLES
  pc,          \* what comes next
  input,       \* what the command is given
  opts,        \* cmdOps.Run, cmdOps.Cleanup or logCollector: the plain options
  quantities,  \* Requests and Limits of the pods
  nil,         \* those of the two that are a nil map
  kinds,       \* GroupVersionKinds
  clustered,   \* logCollector.Clustered
  target,      \* the configuration by which the cluster was reached
  served,      \* the preferred versions that the cluster has to offer, by group
  exit         \* how it ends: the command starts its work, refuses or panics

vars == <<pc, input, opts, quantities, nil, kinds, clustered, target, served, exit>>
plain == <<quantities, nil, kinds, clustered, target, served>>

Init ==
  /\ pc = "file"
  /\ input \in Input
  /\ opts = [o \in Option |-> Zero]
  /\ quantities = DefaultQuantity /\ nil = {}
  /\ kinds = <<>> /\ clustered = FALSE
  /\ target = "none" /\ served = <<>>
  /\ exit = "none"

command == input.command
Changed(o) == input.flag[o] # Unset
GoOn(next) == pc' = next /\ exit' = exit
End(verdict) == pc' = "done" /\ exit' = verdict

\* The variable behind a flag: what the command line says, or its default.
Default(o) ==
  CASE o \in {"namespace", "logLevel", "scope"} -> "default"
    [] o = "kubeconfig" -> IF input.env \/ command = "collect" THEN "default" ELSE Zero
    [] OTHER -> Zero
Flag(o) == IF Changed(o) THEN input.flag[o] ELSE Default(o)

\* The options of S take the flag's variable where the condition holds.
\* Mutant of Fill: the flag only fills what the file left empty.
FillEmptyOnly(o) == opts[o] = Zero
Fill(o) == Changed(o) \/ opts[o] = Zero
Override(o) == Changed(o)
FromFlags(fill, override) ==
  opts' = [o \in Option |-> IF (o \in fill /\ Fill(o)) \/ (o \in override /\ Override(o))
                            THEN Flag(o) ELSE opts[o]]

-----------------------------------------------------------------------------
(* The configuration file, over the default quantities.                    *)

AfterFile == IF command = "collect" THEN "scope" ELSE "common"

\* What the file does not mention keeps its value; a list of it is merged into the
\* default list, and null leaves no list at all.
Over(list, base) ==
  [r \in Resource |-> IF r \in DOMAIN list THEN list[r] ELSE base[r]]
ReadFile ==
  /\ pc = "file"
  /\ CASE input.setting = "none" ->
            /\ GoOn(AfterFile)
            /\ UNCHANGED <<opts, quantities, nil, kinds>>
       [] input.setting = "refused" ->
            /\ End("refused")
            /\ UNCHANGED <<opts, quantities, nil, kinds>>
       [] OTHER ->
            /\ GoOn(AfterFile)
            /\ opts' = input.file
            /\ quantities' = [l \in List |-> IF l \in input.nulls THEN Nothing
                                             ELSE Over(input.lists[l], quantities[l])]
            /\ nil' = input.nulls
            /\ kinds' = input.kinds
  /\ UNCHANGED <<input, clustered, target, served>>

-----------------------------------------------------------------------------
(* tvk-preflight run and cleanup.                                          *)

\* updateCommonInputsFromCLI: inCluster takes the flag's variable when it is set.
CommonFromFlags ==
  /\ pc = "common"
  /\ opts' = [o \in Option |->
       IF \/ o \in CommonOption(command) /\ Fill(o)
          \/ o = "inCluster" /\ (Changed(o) \/ opts[o] # Zero)
       THEN Flag(o) ELSE opts[o]]
  /\ GoOn("own")
  /\ UNCHANGED <<input, plain>>

\* The command's own options; a claim's size given as a flag must parse.
OwnFromFlags ==
  /\ pc = "own"
  /\ IF command = "run" /\ input.flag["pvcStorageRequest"] \in {Zero, "odd"}
     THEN End("panicked") /\ UNCHANGED opts
     ELSE /\ opts' = [o \in Option |->
               CASE o \in OwnOption(command) /\ Override(o) -> Flag(o)
                 [] command = "run" /\ o = "pvcStorageRequest" ->
                      IF Changed(o) THEN Flag(o)
                      ELSE IF opts[o] = Zero THEN "default" ELSE opts[o]
                 [] OTHER -> opts[o]]
          /\ GoOn(IF command = "run" THEN "selector" ELSE "connect")
  /\ UNCHANGED <<input, plain>>

\* updateNodeSelectorLabelsFromCLI: even the empty text does not parse.
NodeSelector ==
  /\ pc = "selector"
  /\ IF Flag("nodeSelector") \in {Zero, "odd"} /\ Changed("nodeSelector")
     THEN End("refused") /\ UNCHANGED opts
     ELSE FromFlags({}, {"nodeSelector"}) /\ GoOn("lists")
  /\ UNCHANGED <<input, plain>>

\* updateResReqFromCLI, for one list: the quantities of the flag that are not zero.
Named(l) == {r \in Resource : input.cliLists[l][r] # 0}
\* Mutant of WithFlag: the flag's list replaces the other one, zeros included.
WithFlagOnly(l) == IF Named(l) = {} THEN quantities[l] ELSE input.cliLists[l]
WithFlag(l) ==
  [r \in Resource |-> IF r \in Named(l) THEN input.cliLists[l][r] ELSE quantities[l][r]]

\* The requests first; assigning to a nil map panics.
ResourceLists ==
  /\ pc = "lists"
  /\ LET stop(l) == l \in input.oddLists \/ (l \in nil /\ Named(l) # {})
         verdict(l) == IF l \in input.oddLists THEN "refused" ELSE "panicked"
     IN IF \E l \in List : stop(l)
        THEN /\ End(verdict(IF stop("requests") THEN "requests" ELSE "limits"))
             /\ UNCHANGED quantities
        ELSE /\ quantities' = [l \in List |-> WithFlag(l)]
             /\ GoOn("connect")
  /\ UNCHANGED <<input, opts, nil, kinds, clustered, target, served>>

-----------------------------------------------------------------------------
(* The cluster: InitKubeEnv and InitializeKubeClients (kube_helper.go).    *)

\* The kubeconfig whose file is read; Zero: none.
Path ==
  IF opts["kubeconfig"] # Zero THEN opts["kubeconfig"]
  ELSE IF command = "collect" /\ input.env THEN "default" ELSE Zero

\* GetConfigOrDie finds a configuration of its own, or exits.
\* Mutant of FallsBack: a kubeconfig that cannot be used is passed over.
FallsBackAnyway == Path = Zero \/ input.config # "good"
FallsBack == IF Path = Zero THEN command \in Preflight ELSE input.config = "empty"
Reaches(t) == \/ t = "fallback" /\ FallsBack
              \/ t = Path /\ Path # Zero /\ input.config = "good"

\* Before it, setupLogger may fail to create the log file of a preflight command; a log
\* level that does not parse is only reported there.
Connect ==
  /\ pc = "connect"
  /\ \/ \E t \in Value \cup {"fallback"} :
          /\ Reaches(t)
          /\ target' = t
          /\ GoOn(IF command = "collect" THEN "collection" ELSE "validate")
     \/ End("refused") /\ UNCHANGED target
  /\ UNCHANGED <<input, opts, quantities, nil, kinds, clustered, served>>

-----------------------------------------------------------------------------
(* validateRunOptions and validateCleanupFields.                           *)

Fits == \A r \in Resource : quantities["requests"][r] <= quantities["limits"][r]

Valid ==
  /\ opts["namespace"] # Zero
  /\ IF command = "run"
     THEN /\ opts["storageClass"] # Zero
          /\ opts["imagePullSecret"] # Zero => opts["localRegistry"] # Zero
          /\ Fits
     ELSE opts["uid"] # "odd"        \* six letters, when given

Validate ==
  /\ pc = "validate"
  /\ End(IF Valid THEN "ready" ELSE "refused")
  /\ UNCHANGED <<input, opts, plain>>

-----------------------------------------------------------------------------
(* tvk-log-collector.                                                      *)

\* Mutant of NobodyNames: only the file's namespaces are looked at.
NobodyNamesFileOnly == opts["namespaces"] = Zero
NobodyNames == Flag("namespaces") = Zero /\ opts["namespaces"] = Zero

\* The scope, from both lists of namespaces, then the kubeconfig.
ScopeAndConfig ==
  /\ pc = "scope"
  /\ clustered' = NobodyNames
  /\ FromFlags({"kubeconfig"}, {})
  /\ GoOn("connect")
  /\ UNCHANGED <<input, quantities, nil, kinds, target, served>>

\* After the clients: a scope that is not the cluster takes the flag's namespaces.
CollectionFromFlags ==
  /\ pc = "collection"
  /\ opts' = [o \in Option |->
       IF \/ o = "logLevel" /\ Fill(o)
          \/ o = "namespaces" /\ (Changed(o) \/ ~clustered)
          \/ o = "keepSource" /\ Override(o)
       THEN Flag(o) ELSE opts[o]]
  /\ GoOn("kinds")
  /\ UNCHANGED <<input, plain>>

\* parseGVK: what becomes of the first kind in the flag that is not well formed.
WellFormed(k) == k.parts = 3 /\ k.kind # Zero
ParseFailure ==
  LET bad == {n \in DOMAIN input.cliKinds : ~WellFormed(input.cliKinds[n])}
  IN IF bad = {} THEN "none"
     ELSE LET first == CHOOSE n \in bad : \A m \in bad : n <= m
          IN IF input.cliKinds[first].parts < 3 THEN "panicked" ELSE "refused"

Kinds ==
  /\ pc = "kinds"
  /\ IF input.cliKindsGiven /\ ParseFailure # "none"
     THEN End(ParseFailure) /\ UNCHANGED kinds
     ELSE /\ kinds' = IF input.cliKindsGiven THEN input.cliKinds ELSE kinds
          /\ GoOn("versions")
  /\ UNCHANGED <<input, opts, quantities, nil, clustered, target, served>>

\* deDuplicateAndFixGVKs: a kind given twice is kept once, as it was given first.
\* Mutant of NeedsPreferredVersion: only the first kind is looked at.
FirstNeedsVersion == kinds # <<>> /\ kinds[1].version = Zero
NeedsPreferredVersion == \E n \in DOMAIN kinds : kinds[n].version = Zero
Unique ==
  LET first(n) == \A m \in 1 .. (n - 1) : kinds[m] # kinds[n]
      kept == {n \in DOMAIN kinds : first(n)}
      place(n) == Cardinality({m \in kept : m <= n})
  IN [i \in 1 .. Cardinality(kept) |-> kinds[CHOOSE n \in kept : place(n) = i]]

\* The version that the cluster prefers, for a kind given without one.
Fixed(k, known) ==
  IF k.version = Zero /\ k.group \in DOMAIN known
  THEN [k EXCEPT !.version = known[k.group]] ELSE k

\* ServerGroups is asked when a version is missing; when a group's discovery fails its
\* answer may miss groups, or be missing.  served: what it answers, or would have.
Versions ==
  /\ pc = "versions"
  /\ \/ /\ \E part \in SUBSET DOMAIN input.served :
             served' = [g \in part |-> input.served[g]]
        /\ GoOn("labels")
     \/ NeedsPreferredVersion /\ End("refused") /\ UNCHANGED served
  /\ UNCHANGED <<input, opts, quantities, nil, kinds, clustered, target>>

\* The kinds get their versions, then the labels of the flag replace the file's.
Labels ==
  /\ pc = "labels"
  /\ IF (\E n \in DOMAIN kinds : kinds[n].kind = Zero) \/ Flag("labels") = "odd"
     THEN End("refused") /\ UNCHANGED <<opts, kinds>>
     ELSE /\ kinds' = [n \in DOMAIN Unique |->
               Fixed(Unique[n], IF NeedsPreferredVersion THEN served ELSE <<>>)]
          /\ FromFlags({}, {"labels"})
          /\ GoOn("check")
  /\ UNCHANGED <<input, quantities, nil, clustered, target, served>>

\* preRun, after manageFileInputs.
Contradiction == opts["namespaces"] # Zero /\ clustered
CheckCollection ==
  /\ pc = "check"
  /\ End(IF opts["logLevel"] \in {Zero, "odd"} \/ Contradiction THEN "refused" ELSE "ready")
  /\ UNCHANGED <<input, opts, plain>>

Next ==
  \/ ReadFile \/ CommonFromFlags \/ OwnFromFlags \/ NodeSelector \/ ResourceLists
  \/ Connect \/ Validate
  \/ ScopeAndConfig \/ CollectionFromFlags \/ Kinds \/ Versions \/ Labels \/ CheckCollection

Spec == Init /\ [][Next]_vars

-----------------------------------------------------------------------------
(* Properties.                                                             *)

TypeOK ==
  /\ pc \in {"file", "common", "own", "selector", "lists", "connect", "validate", "scope",
             "collection", "kinds", "versions", "labels", "check", "done"}
  /\ opts \in [Option -> Value]
  /\ quantities \in [List -> [Resource -> Nat]]
  /\ nil \subseteq List
  /\ clustered \in BOOLEAN
  /\ target \in Value \cup {"none", "fallback"}
  /\ exit \in {"none", "ready", "refused", "panicked"}
  /\ (exit = "none") = (pc # "done")

FileSays(o) == IF input.setting = "read" THEN input.file[o] ELSE Zero
Used ==
  CommonOption(command) \cup OwnOption(command)
    \cup (CASE command = "run" -> {"nodeSelector", "pvcStorageRequest"}
            [] command = "collect" -> {"labels"}
            [] OTHER -> {})
Promised(o) ==
  IF Changed(o) THEN input.flag[o]
  ELSE IF FileSays(o) # Zero THEN FileSays(o)
  ELSE IF o = "pvcStorageRequest" THEN "default" ELSE Default(o)

\* What the pods ask for: the flag's quantity when it is not zero, else the file's, else
\* the default.
Quantity(l, r) ==
  IF input.cliLists[l][r] # 0 THEN input.cliLists[l][r]
  ELSE IF input.setting # "read" THEN DefaultQuantity[l][r]
  ELSE IF l \in input.nulls THEN 0
  ELSE IF r \in DOMAIN input.lists[l] THEN input.lists[l][r] ELSE DefaultQuantity[l][r]

\* The command line prevails over the file and the file over the default, for every
\* option and quantity of a command that starts its work, whichever of the helpers
\* handles it.  Nothing is said of two options: of the log collector's namespaces, which
\* ScopeDecided and FileNamespacesUsed are about, and of inCluster, see FileInClusterUsed.
Precedence ==
  exit = "ready" =>
    /\ \A o \in Used : opts[o] = Promised(o)
    /\ command = "run" => \A l \in List, r \in Resource : quantities[l][r] = Quantity(l, r)

\* The log collector never holds namespaces together with the scope of the cluster, so
\* that its check for the two cannot fire; it has the scope of the cluster exactly when
\* nobody named a namespace; and it uses the namespaces of the command line.
ScopeDecided ==
  pc \in {"kinds", "versions", "labels", "check"} \/ (command = "collect" /\ exit = "ready") =>
    /\ ~Contradiction
    /\ clustered <=> (FileSays("namespaces") = Zero /\ Flag("namespaces") = Zero)
    /\ Flag("namespaces") # Zero => opts["namespaces"] = Flag("namespaces")

\* The clients talk to the cluster of the kubeconfig that precedence selects; another
\* one is found only when that file is empty, or when preflight has none at all.
TargetAsked ==
  exit = "ready" =>
    \/ target = Promised("kubeconfig") /\ target # Zero
    \/ target = "default" /\ command = "collect" /\ input.env
    \/ target = "fallback" /\ input.config = "empty"
    \/ target = "fallback" /\ command \in Preflight /\ Promised("kubeconfig") = Zero

\* Every kind that was asked for is looked for, once as it was given, and has a version
\* unless the cluster did not tell one for its group.
KindsGetVersions ==
  exit = "ready" /\ command = "collect" =>
    LET asked == IF input.cliKindsGiven THEN input.cliKinds
                 ELSE IF input.setting = "read" THEN input.kinds ELSE <<>>
        at(k) == {n \in DOMAIN kinds : kinds[n] = Fixed(k, served)}
    IN /\ \A n \in DOMAIN asked : at(asked[n]) # {}
       /\ \A n \in DOMAIN kinds : kinds[n].version = Zero => kinds[n].group \notin DOMAIN served
       /\ Len(kinds) <= Len(asked)

\* The namespaces of the configuration file are used when no flag overrides them.
FileNamespacesUsed ==
  exit = "ready" /\ command = "collect" /\ ~Changed("namespaces") =>
    opts["namespaces"] = FileSays("namespaces")

\* So is the file's inCluster, of which the documentation says what it says of every
\* option of the file, that a flag can override it.
FileInClusterUsed ==
  exit = "ready" /\ command = "run" /\ ~Changed("inCluster") =>
    opts["inCluster"] = FileSays("inCluster")
=============================================================================
