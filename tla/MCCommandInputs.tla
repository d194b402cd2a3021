---------------------------- MODULE MCCommandInputs ----------------------------
(* What is given to the commands of CommandInputs: any two plain options      *)
(* together, any lists of quantities, any two kinds, any kubeconfig.          *)
EXTENDS CommandInputs

Silent == [l \in List |-> [r \in {} |-> 0]]
Basic(c) ==
  [command |-> c, setting |-> "read",
   file |-> [o \in Option |-> IF o = "storageClass" THEN "file" ELSE Zero],
   flag |-> [o \in Option |-> Unset],
   lists |-> Silent, nulls |-> {}, cliLists |-> [l \in List |-> Nothing], oddLists |-> {},
   kinds |-> <<>>, cliKinds |-> <<>>, cliKindsGiven |-> FALSE,
   served |-> [g \in {"apps"} |-> "v1"],
   env |-> TRUE, config |-> "good"]

Chosen(c) ==
  CASE c = "run" -> {"namespace", "logLevel", "inCluster", "storageClass", "localRegistry",
                     "imagePullSecret", "pvcStorageRequest", "nodeSelector"}
    [] c = "cleanup" -> {"namespace", "scope", "inCluster", "uid"}
    [] OTHER -> {"logLevel", "keepSource", "namespaces", "labels"}
Parsed == {"logLevel", "uid", "pvcStorageRequest", "nodeSelector", "labels"}

\* What file and command line may give for one option.
Given(o) ==
  {<<v, f>> : v \in {Zero, "file"} \cup (IF o \in {"logLevel", "uid"} THEN {"odd"} ELSE {}),
              f \in {Unset, Zero, "flag"} \cup (IF o \in Parsed THEN {"odd"} ELSE {})}
With(i, o, g) == [i EXCEPT !.file[o] = g[1], !.flag[o] = g[2]]

Plain ==
  UNION {UNION {{With(With(Basic(c), o, a), p, b) : a \in Given(o), b \in Given(p)} :
                  <<o, p>> \in Chosen(c) \X Chosen(c)} : c \in Commands}
Files ==
  {[Basic(c) EXCEPT !.setting = f, !.flag[o] = "flag"] :
     c \in Commands, f \in {"none", "refused"}, o \in {"storageClass", "namespaces"}}
Configs ==
  {[With(Basic(c), "kubeconfig", g) EXCEPT !.env = e, !.config = f] :
     c \in Commands, g \in Given("kubeconfig"), e \in BOOLEAN,
     f \in {"good", "empty", "unusable"}}

\* Quantities of one resource: the default request is 1, the default limit 2.
Mentions(r) == {[x \in {} |-> 0]} \cup {[x \in {r} |-> n] : n \in {0, 2, 3}}
OnCli(r) == {[Nothing EXCEPT ![r] = n] : n \in {0, 1, 3}}
AtMostOne == {{}, {"requests"}, {"limits"}}
Lists ==
  UNION {{[Basic("run") EXCEPT !.lists = [requests |-> fr, limits |-> fl], !.nulls = n,
                                !.cliLists = [requests |-> cr, limits |-> cl], !.oddLists = d] :
            fr \in Mentions(r), fl \in Mentions(r), cr \in OnCli(r), cl \in OnCli(r),
            n \in AtMostOne, d \in AtMostOne} : r \in Resource}

Kind(g, v, k, parts) == [group |-> g, version |-> v, kind |-> k, parts |-> parts]
Accepted ==
  {Kind("apps", Zero, "Deployment", 3), Kind("apps", "v1", "Deployment", 3),
   Kind("old", Zero, "Thing", 3), Kind("apps", Zero, Zero, 3)}
Typed == Accepted \cup {Kind("apps", "v1", "Deployment", 4), Kind("pod", Zero, Zero, 1)}
UpToTwo(S) == {<<>>} \cup {<<k>> : k \in S} \cup (S \X S)
KindLists ==
  {[Basic("collect") EXCEPT !.kinds = f, !.cliKinds = k, !.cliKindsGiven = given] :
     f \in UpToTwo(Accepted), k \in UpToTwo(Typed), given \in BOOLEAN}

MCInput == Plain \cup Files \cup Configs \cup Lists \cup KindLists
=============================================================================
