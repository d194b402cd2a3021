------------------------- MODULE MCResourceCollection -------------------------
(* A small cluster for ResourceCollection. *)
EXTENDS ResourceCollection

Res(gv, kind, namespaced) == [gv |-> gv, kind |-> kind, namespaced |-> namespaced]
Calico == "crd.projectcalico.org/v1"
Extensions == "apiextensions.k8s.io/v1"

MCResources ==
  <<Res(Core, "Pod", TRUE), Res(Core, "PersistentVolumeClaim", TRUE),
   Res(Core, "PersistentVolume", FALSE), Res(Core, "Secret", TRUE), Res(Core, "Namespace", FALSE),
   Res(Core, "Event", TRUE),
   Res(Extensions, "CustomResourceDefinition", FALSE),
   Res(Networking, "NetworkPolicy", TRUE), Res(Calico, "NetworkPolicy", TRUE),
   Res(OcpOperator, "IngressController", TRUE),
   Res(Trilio, "License", TRUE)>>

\* An object without anything special.
Plain(gv, kind, ns, name) ==
  [gv |-> gv, kind |-> kind, ns |-> ns, name |-> name, labels |-> {}, ours |-> "no",
   claims |-> {}, pv |-> NoNs, holds |-> {}]
Part == {<<"app.kubernetes.io/part-of", "k8s-triliovault">>}
Front == {<<"app", "front">>}

TvkPod == [Plain(Core, "Pod", "tvk", "web") EXCEPT !.labels = Part, !.claims = {"cache"}]
AppPod == [Plain(Core, "Pod", "app", "front") EXCEPT !.labels = Front, !.claims = {"cache"}]
Cache == [Plain(Core, "PersistentVolumeClaim", "tvk", "cache") EXCEPT !.labels = Part, !.pv = "v1"]
Data == [Plain(Core, "PersistentVolumeClaim", "app", "cache") EXCEPT !.pv = "v2"]
Nfs == [Plain(Core, "PersistentVolume", NoNs, "v1") EXCEPT !.labels = Front, !.holds = Parts]
Local == Plain(Core, "PersistentVolume", NoNs, "v2")
Token == [Plain(Core, "Secret", "tvk", "token") EXCEPT !.labels = Part]
Policy == Plain(Networking, "NetworkPolicy", "tvk", "deny")
\* The same name, in another group.
CalicoPolicy == [Plain(Calico, "NetworkPolicy", "tvk", "deny") EXCEPT !.labels = Part]
Controller == Plain(OcpOperator, "IngressController", OCPConfigNs, "default")
OcpPod == [Plain(Core, "Pod", OCPConfigNs, "ingress") EXCEPT !.labels = Part]
Licence == [Plain(Trilio, "License", "tvk", "licence") EXCEPT !.holds = Parts]
TvkCrd == [Plain(Extensions, "CustomResourceDefinition", NoNs, "licences") EXCEPT !.ours = "named"]
AppCrd == [Plain(Extensions, "CustomResourceDefinition", NoNs, "fronts") EXCEPT !.labels = Front]
Tvk == Plain(Core, "Namespace", NoNs, "tvk")
App == Plain(Core, "Namespace", NoNs, "app")

MCObject ==
  {TvkPod, AppPod, Cache, Data, Nfs, Local, Token, Policy, CalicoPolicy, Controller,
   OcpPod, Licence, TvkCrd, AppCrd, Tvk, App}
MCEvent ==
  {[about |-> o, nr |-> 1] :
     o \in {TvkPod, Cache, Data, Nfs, Token, Policy, CalicoPolicy, Licence, TvkCrd}}
  \cup {[about |-> TvkPod, nr |-> 2]}

Labelled(l) == [labels |-> l, exprs |-> <<>>]
Ask(namespaces, gvks, selectors) ==
  [clustered |-> namespaces = {}, namespaces |-> namespaces, gvks |-> gvks, selectors |-> selectors]
Expr(k, op, values) == [key |-> k, operator |-> op, values |-> values]
MCSettings ==
  {Ask({}, {}, <<>>),
   Ask({}, {}, <<Labelled(Front)>>),
   Ask({"tvk"}, {Res(Core, "Secret", TRUE)}, <<>>),
   Ask({"tvk", "app"}, {}, <<Labelled(Front)>>),
   Ask({"tvk", "app"}, {},
       <<[labels |-> {}, exprs |-> <<Expr("app", "Exists", {}), Expr("app", "in", {"front"})>>]>>),
   \* What the command makes of namespaces that only its configuration file gives.
   [clustered |-> FALSE, namespaces |-> {}, gvks |-> {}, selectors |-> <<>>]}
MCClusters == [openshift : BOOLEAN, home : {"tvk"}]
=============================================================================
