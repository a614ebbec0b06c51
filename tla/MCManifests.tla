---------------------------- MODULE MCManifests ----------------------------
(* Instances of Manifests for TLC. *)
EXTENDS Manifests

AllIds == {"cucp", "n2", "n3", "n4", "chart", "smf"} \X {"ran", "lab", "core"}

Doc(id, shape) == [id |-> id, shape |-> shape, value |-> "old"]

CU == <<"cucp", "ran">>

N2 == <<"n2", "ran">>
N3 == <<"n3", "ran">>

(* N2 and N3 are named once and twice. *)
TwoNADs ==
  <<[nad |-> N3, host |-> "eth1"], [nad |-> N2, host |-> "eth2"],
    [nad |-> N3, host |-> "eth3"]>>

(* The manifest as every shape the helpers meet, the same name in another   *)
(* namespace, NADs sound and broken, a NAD nobody names, and bystanders.    *)
SampleDocuments ==
  {Doc(CU, shape) : shape \in {"direct", "nested", "malformed", "other"}}
    \union {Doc(<<"cucp", "lab">>, shape) : shape \in {"direct", "nested"}}
    \union {Doc(N2, "nad"), Doc(N2, "brokenNad"), Doc(N3, "nad"),
            Doc(<<"n4", "ran">>, "nad"), Doc(<<"chart", "ran">>, "invalid")}

File(docs) == [docs |-> docs, canonical |-> FALSE]

(* Three files of one document each. *)
SingleRepositories == [1 .. 3 -> {File(<<d>>) : d \in SampleDocuments}]

(* Two files of one or two documents, and one that is of no interest. *)
MultiRepositories ==
  {r \o <<File(<<Doc(<<"smf", "core">>, "direct")>>)>> :
     r \in [1 .. 2 -> {File(<<d>>) : d \in SampleDocuments}
                        \union {File(<<d, e>>) : d, e \in SampleDocuments}]}

AllRepositories == SingleRepositories \union MultiRepositories
=============================================================================
