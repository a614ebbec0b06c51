----------------------- MODULE MCNFReconfigController -----------------------
(* Instances of NFReconfigController for TLC. *)
EXTENDS NFReconfigController

CONSTANTS regional, demoregional, edge, ip1, ip2

Entry(name, target, isNF, isConfig) ==
  [name |-> name, repo |-> name, target |-> target,
   nfDeployment |-> isNF, configRef |-> isConfig]

(* config/samples/cu-du-reconfig_v1_nfreconfig.yaml: the CU-CP in regional  *)
(* goes to demoregional; the DU and the CU-UP are both in edge.             *)
SampleClusterInfo ==
  <<Entry(regional, demoregional, TRUE, FALSE),
    Entry(edge, edge, FALSE, TRUE),
    Entry(edge, edge, FALSE, TRUE)>>

(* One dependent only. *)
SmallClusterInfo ==
  <<Entry(regional, demoregional, TRUE, FALSE),
    Entry(edge, edge, FALSE, TRUE)>>

(* One repository, the one of the target cluster, keeps the manifests of    *)
(* two clusters: the CU moves from edge to regional, where a CU-UP is that  *)
(* is listed before it.  The Application goes to the repository the CU was  *)
(* pushed to and the CU-UP is cloned from.                                  *)
PackedClusterInfo ==
  <<Entry(regional, None, FALSE, TRUE),
    [Entry(edge, regional, TRUE, FALSE) EXCEPT !.repo = regional]>>

(* The CU has no targetCluster. *)
UntargetedClusterInfo ==
  <<Entry(regional, None, TRUE, FALSE),
    Entry(edge, None, FALSE, TRUE)>>

SampleNames == {regional, demoregional, edge}

(* Manifests as a person wrote them. *)
HandWritten == {[ips |-> ip1, canonical |-> FALSE]}

(* Manifests that may be missing. *)
SomeMissing == HandWritten \union {[ips |-> Absent, canonical |-> FALSE]}

(* Manifests of which the controller has already put some in place.         *)
SomeInPlace == HandWritten \union {[ips |-> ip1, canonical |-> TRUE]}

(* Manifests that may be malformed as well, or as the controller left them  *)
(* in an earlier life.                                                      *)
AnyContents ==
  SomeMissing \union SomeInPlace \union {[ips |-> Broken, canonical |-> FALSE]}
=============================================================================
