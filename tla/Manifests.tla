------------------------------ MODULE Manifests ------------------------------
(***************************************************************************)
(* What a Reconcile does to the YAML files of a clone, document by          *)
(* document: the search for the manifest an element of clusterInfo names,   *)
(* the rewriting of the NADs and of the manifest, and the commit.           *)
(*                                                                         *)
(* NFReconfigController sees a file as one manifest.  Here a file is a      *)
(* sequence of documents, as the search reads it; the rewriting helpers     *)
(* read its first document only, and write back what they read.             *)
(***************************************************************************)
EXTENDS Integers, Sequences

CONSTANTS
  NumFiles,      \* number of YAML files, numbered in the order of WalkDir
  Ids,           \* <<name, namespace>> of documents
  Values,        \* addresses, or the master of a NAD
  Repositories,  \* what the repository may hold to begin with
  Manifest,      \* <<name, namespace>> the element of clusterInfo gives
  Interfaces,    \* spec.interfaces: records [nad, host]
  NewIPs,        \* the addresses of spec.interfaces
  MaxRuns        \* bound on the number of Reconciles

Paths == 1 .. NumFiles

(***************************************************************************)
(* A document is [id, shape, value]: its <<name, namespace>>, what there is *)
(* to rewrite in it, and the addresses or the master it holds.              *)
(*   "direct"     spec.interfaces                        (an NFDeployment) *)
(*   "nested"     spec.config.spec.interfaces            (a Config)        *)
(*   "nad"        kind NetworkAttachmentDefinition, spec.config is JSON    *)
(*   "brokenNad"  the same kind, spec.config is missing or not JSON        *)
(*   "malformed"  spec.interfaces with an element that is no named map     *)
(*   "other"      none of these                                            *)
(*   "invalid"    does not decode                                          *)
(* A file is [docs, canonical]; canonical: written by yaml.Marshal.         *)
(***************************************************************************)
Shapes == {"direct", "nested", "nad", "brokenNad", "malformed", "other", "invalid"}

Documents == [id: Ids, shape: Shapes, value: Values]

Types == {"NFDeployment", "ConfigRef"}

ASSUME NumFilesAssumption == NumFiles \in Nat
ASSUME RepositoriesAssumption ==
  Repositories \subseteq [Paths -> [docs: Seq(Documents), canonical: BOOLEAN]]
ASSUME InterfacesAssumption == Interfaces \in Seq([nad: Ids, host: Values])
ASSUME NewIPsAssumption == NewIPs \in Values

VARIABLES
  type,      \* typeResource: which handler's element it is
  original,  \* the repository before the first Reconcile
  repo,      \* the repository
  clone,     \* the working tree of the Reconcile in progress
  pc,        \* where that Reconcile is
  at,        \* the file the search for NADs is at
  matches,   \* files still to be rewritten
  commits,   \* number of commits pushed
  runs       \* number of Reconciles begun

vars == <<type, original, repo, clone, pc, at, matches, commits, runs>>

Init ==
  /\ type \in Types
  /\ original \in Repositories
  /\ repo = original
  /\ clone = original
  /\ pc = "idle"
  /\ at = 1
  /\ matches = {}
  /\ commits = 0
  /\ runs = 0

-----------------------------------------------------------------------------
(* Mutant: the namespace is not compared. *)
IsNamed_AnyNamespace(doc) == doc.id[1] = Manifest[1]

(* The kind of a document is not asked for. *)
IsNamed(doc) == doc.id = Manifest

Matching(tree) == {p \in Paths : \E d \in DOMAIN tree[p].docs : IsNamed(tree[p].docs[d])}

(* One document that does not decode, in any file, ends the Reconcile.      *)
Decodes(tree) ==
  \A p \in Paths : \A d \in DOMAIN tree[p].docs : tree[p].docs[d].shape # "invalid"

CheckRepoForMatchingManifests ==
  /\ pc = "idle"
  /\ runs < MaxRuns
  /\ runs' = runs + 1
  /\ clone' = repo
  /\ IF Decodes(repo) /\ Matching(repo) # {}
     THEN /\ matches' = Matching(repo)
          /\ pc' = IF type = "NFDeployment" THEN "nads" ELSE "update"
     ELSE UNCHANGED <<matches, pc>>
  /\ at' = 1
  /\ UNCHANGED <<type, original, repo, commits>>

(* All helpers write back one document, the one they read.                  *)
Rewritten(doc, value) ==
  [docs |-> <<[doc EXCEPT !.value = value]>>, canonical |-> TRUE]

(* The calls of UpdateNADMaster for a file: one for every document and      *)
(* interface that name the same NAD.                                        *)
MasterUpdates(docs) ==
  {u \in (DOMAIN docs) \X (DOMAIN Interfaces) :
     /\ docs[u[1]].shape \in {"nad", "brokenNad"}
     /\ docs[u[1]].id = Interfaces[u[2]].nad}

(* The calls are made document by document. *)
NotBefore(u, v) == u[1] > v[1] \/ (u[1] = v[1] /\ u[2] >= v[2])

(* Mutant: the first call stays in force. *)
NewMaster_First(updates) ==
  LET first == CHOOSE u \in updates : \A v \in updates : NotBefore(v, u)
  IN  Interfaces[first[2]].host

(* Every call sets the master of the file's first document.                 *)
NewMaster(updates) ==
  LET last == CHOOSE u \in updates : \A v \in updates : NotBefore(u, v)
  IN  Interfaces[last[2]].host

(* An error ends the search and is logged; the manifests are still         *)
(* rewritten, and what was rewritten so far is committed with them.         *)
FindMatchingNADs ==
  /\ pc = "nads"
  /\ \/ /\ at \in Paths
        /\ MasterUpdates(clone[at].docs) = {}
        /\ at' = at + 1
        /\ UNCHANGED <<clone, pc>>
     \/ /\ at \in Paths
        /\ MasterUpdates(clone[at].docs) # {}
        /\ Head(clone[at].docs).shape = "nad"
        /\ clone' = [clone EXCEPT ![at] =
             Rewritten(Head(@.docs), NewMaster(MasterUpdates(@.docs)))]
        /\ at' = at + 1
        /\ UNCHANGED pc
     \/ /\ at \in Paths
        /\ MasterUpdates(clone[at].docs) # {}
        /\ Head(clone[at].docs).shape # "nad"
        /\ pc' = "update"
        /\ UNCHANGED <<clone, at>>
     \/ /\ at \notin Paths
        /\ pc' = "update"
        /\ UNCHANGED <<clone, at>>
  /\ UNCHANGED <<type, original, repo, matches, commits, runs>>

(* The shape of document the handler's helper rewrites.                     *)
Rewritable == IF type = "NFDeployment" THEN "direct" ELSE "nested"

(* UpdateInterfaceIPsNFDeployment or UpdateInterfaceIPsConfigRefs.  The     *)
(* former's type assertions panic, and the clone is lost.                   *)
UpdateInterfaceIPs ==
  /\ pc = "update"
  /\ \E p \in matches :
       /\ \A q \in matches : p <= q
       /\ \/ /\ Head(clone[p].docs).shape = Rewritable
             /\ clone' = [clone EXCEPT ![p] = Rewritten(Head(@.docs), NewIPs)]
             /\ matches' = matches \ {p}
             /\ UNCHANGED pc
          \/ /\ Head(clone[p].docs).shape = "malformed"
             /\ type = "NFDeployment"
             /\ pc' = "idle"
             /\ matches' = {}
             /\ UNCHANGED clone
          \/ /\ Head(clone[p].docs).shape # Rewritable
             /\ ~ (Head(clone[p].docs).shape = "malformed" /\ type = "NFDeployment")
             /\ matches' = matches \ {p}
             /\ UNCHANGED <<clone, pc>>
  /\ UNCHANGED <<type, original, repo, at, commits, runs>>

(* Mutant: AllowEmptyCommits. *)
CommitAccepted_Empty == TRUE

(* Commit refuses a clean worktree. *)
CommitAccepted == clone # repo

CommitAndPush ==
  /\ pc = "update"
  /\ matches = {}
  /\ \/ /\ CommitAccepted
        /\ repo' = clone
        /\ commits' = commits + 1
     \/ /\ ~ CommitAccepted
        /\ UNCHANGED <<repo, commits>>
  /\ pc' = "idle"
  /\ UNCHANGED <<type, original, clone, at, matches, runs>>

Next ==
  \/ CheckRepoForMatchingManifests
  \/ FindMatchingNADs
  \/ UpdateInterfaceIPs
  \/ CommitAndPush

Spec == Init /\ [][Next]_vars

-----------------------------------------------------------------------------
SingleDocuments == \A p \in Paths : Len(original[p].docs) = 1

Document(p) == Head(original[p].docs)

NamedBy(doc) ==
  {i \in DOMAIN Interfaces :
     doc.shape \in {"nad", "brokenNad"} /\ doc.id = Interfaces[i].nad}

(* What a pushed file should be, said without the search: a NAD gets the    *)
(* host interface of the last interface that names it, unless a broken one  *)
(* came before; the manifest gets the addresses; the rest stays.            *)
Expected(p) ==
  LET doc == Document(p) IN
  IF /\ type = "NFDeployment"
     /\ doc.shape = "nad"
     /\ NamedBy(doc) # {}
     /\ \A q \in Paths : q < p /\ Document(q).shape = "brokenNad" => NamedBy(Document(q)) = {}
  THEN LET i == CHOOSE i \in NamedBy(doc) : \A j \in NamedBy(doc) : j <= i
       IN  Rewritten(doc, Interfaces[i].host)
  ELSE IF doc.id = Manifest /\ doc.shape = Rewritable
       THEN Rewritten(doc, NewIPs)
       ELSE original[p]

(* With one document in every file, what is pushed is what was asked for:   *)
(* every NAD has the master of its interface, the manifest has the new      *)
(* addresses, and nothing else is different.                                *)
RewritesAreExact ==
  SingleDocuments /\ commits > 0 => \A p \in Paths : repo[p] = Expected(p)

(* With one document in every file, a second Reconcile finds nothing left   *)
(* to change, which is what keeps a redelivered key from being carried out  *)
(* again.                                                                   *)
OneCommitIsEnough == SingleDocuments => commits <= 1

(* A file is changed only if one of its documents has the name and the      *)
(* namespace of the manifest, or is a NAD of one of the interfaces.         *)
BystandersKept ==
  \A p \in Paths : repo[p] # original[p] =>
    \E d \in DOMAIN original[p].docs :
      LET doc == original[p].docs[d] IN
      doc.id = Manifest \/ (type = "NFDeployment" /\ NamedBy(doc) # {})

(* "A file can have multiple docs": none of them is lost when one of them   *)
(* is rewritten.                                                            *)
EveryDocumentKept ==
  \A p \in Paths : \A d \in DOMAIN original[p].docs :
    \E k \in DOMAIN repo[p].docs : repo[p].docs[k].id = original[p].docs[d].id
=============================================================================
