-------------------------- MODULE Manifests_proofs --------------------------
(* Theorems about Manifests, for all repositories and any number of         *)
(* Reconciles.                                                              *)
EXTENDS Manifests, WellFoundedInduction, TLAPS

Files == [docs: Seq(Documents), canonical: BOOLEAN]

TypeInv ==
  /\ type \in Types
  /\ original \in [Paths -> Files]
  /\ repo \in [Paths -> Files]
  /\ clone \in [Paths -> Files]
  /\ pc \in {"idle", "nads", "update"}
  /\ pc = "nads" => type = "NFDeployment"
  /\ at \in Nat \ {0}
  /\ matches \subseteq Paths
  /\ \A p \in matches : clone[p].docs # <<>>
  /\ pc = "idle" => matches = {}
  /\ commits \in Nat

-----------------------------------------------------------------------------
(* Documents and files *)

LEMMA FirstDocument ==
  ASSUME NEW file \in Files, file.docs # <<>>
  PROVE  /\ 1 \in DOMAIN file.docs
         /\ Head(file.docs) = file.docs[1]
         /\ Head(file.docs) \in Documents
  <1> DEFINE D == Documents
  <1>1. file.docs \in Seq(D)
    BY DEF Files
  <1> HIDE DEF D
  <1>2. Head(file.docs) = file.docs[1] /\ Head(file.docs) \in D /\ 1 \in DOMAIN file.docs
    BY <1>1
  <1> QED BY <1>2 DEF D

LEMMA NamedDocument ==
  ASSUME NEW file \in Files, NEW d \in DOMAIN file.docs
  PROVE  file.docs # <<>> /\ file.docs[d] \in Documents
  <1> DEFINE D == Documents
  <1>1. file.docs \in Seq(D)
    BY DEF Files
  <1> HIDE DEF D
  <1>2. file.docs # <<>> /\ file.docs[d] \in D
    BY <1>1
  <1> QED BY <1>2 DEF D

(* A helper keeps the name and the shape of the document it writes back.    *)
LEMMA RewrittenFile ==
  ASSUME NEW doc \in Documents, NEW value \in Values
  PROVE  /\ Rewritten(doc, value) \in Files
         /\ DOMAIN Rewritten(doc, value).docs = {1}
         /\ Rewritten(doc, value).docs # <<>>
         /\ Head(Rewritten(doc, value).docs) = Rewritten(doc, value).docs[1]
         /\ Rewritten(doc, value).docs[1] \in Documents
         /\ Rewritten(doc, value).docs[1].id = doc.id
         /\ Rewritten(doc, value).docs[1].shape = doc.shape
         /\ \A w \in Values :
              Rewritten(Rewritten(doc, value).docs[1], w) = Rewritten(doc, w)
  <1> DEFINE new == [doc EXCEPT !.value = value]
  <1>1. /\ new \in Documents
        /\ new.id = doc.id
        /\ new.shape = doc.shape
        /\ \A w \in Values : [new EXCEPT !.value = w] = [doc EXCEPT !.value = w]
    BY DEF Documents
  <1> HIDE DEF new
  <1>2. <<new>> \in Seq(Documents) /\ DOMAIN <<new>> = {1} /\ <<new>> # <<>>
       /\ Head(<<new>>) = <<new>>[1] /\ <<new>>[1] = new
    BY <1>1
  <1>3. Rewritten(doc, value) = [docs |-> <<new>>, canonical |-> TRUE]
    BY DEF Rewritten, new
  <1> QED BY <1>1, <1>2, <1>3 DEF Rewritten, Files

LEMMA InterfaceTypes ==
  ASSUME NEW i \in DOMAIN Interfaces
  PROVE  i \in Nat /\ Interfaces[i].host \in Values
  <1> DEFINE R == [nad: Ids, host: Values]
  <1>1. Interfaces \in Seq(R)
    BY InterfacesAssumption
  <1> HIDE DEF R
  <1>2. i \in Nat /\ Interfaces[i] \in R
    BY <1>1
  <1> QED BY <1>2 DEF R

(* A set of positions of a sequence has a last one. *)
LEMMA LastOf ==
  ASSUME NEW n \in Nat, NEW I \in SUBSET (1 .. n), I # {}
  PROVE  \E i \in I : \A j \in I : j <= i
  <1> DEFINE T == {k \in Nat : \E i \in I : k = n - i}
  <1>1. T # {} /\ T \subseteq Nat
    <2>1. PICK i \in I : TRUE
      OBVIOUS
    <2>2. n - i \in T
      BY <2>1
    <2> QED BY <2>2
  <1>2. \E x \in T : \A y \in T : ~ (<<y, x>> \in OpToRel(<, Nat))
    <2> HIDE DEF T
    <2> QED BY <1>1, WFMin, NatLessThanWellFounded
  <1>3. PICK x \in T : \A y \in T : ~ (y < x)
    <2> HIDE DEF T
    <2>1. \A x, y \in T : y < x => <<y, x>> \in OpToRel(<, Nat)
      BY <1>1 DEF OpToRel
    <2> QED BY <1>2, <2>1
  <1>4. PICK i \in I : x = n - i
    BY <1>3
  <1>5. ASSUME NEW j \in I PROVE j <= i
    <2>1. n - j \in T
      OBVIOUS
    <2> QED BY <1>3, <1>4, <2>1
  <1> QED BY <1>4, <1>5

(* Of the calls of UpdateNADMaster, one is the last. *)
LEMMA LastCall ==
  ASSUME NEW file \in Files, MasterUpdates(file.docs) # {}
  PROVE  \E u \in MasterUpdates(file.docs) :
           \A v \in MasterUpdates(file.docs) : NotBefore(u, v)
  <1> DEFINE U == MasterUpdates(file.docs)
             m == Len(file.docs)
             n == Len(Interfaces)
             D == {d \in 1 .. m : \E i \in 1 .. n : <<d, i>> \in U}
  <1>1. /\ m \in Nat /\ DOMAIN file.docs = 1 .. m
        /\ n \in Nat /\ DOMAIN Interfaces = 1 .. n
    <2> DEFINE R == [nad: Ids, host: Values]
               E == Documents
    <2>1. file.docs \in Seq(E) /\ Interfaces \in Seq(R)
      BY InterfacesAssumption DEF Files
    <2> HIDE DEF R, E
    <2> QED BY <2>1
  <1>2. \A u \in U : u[1] \in 1 .. m /\ u[2] \in 1 .. n /\ u = <<u[1], u[2]>>
    BY <1>1 DEF MasterUpdates
  <1> HIDE DEF U, m, n
  <1>3. D \in SUBSET (1 .. m) /\ D # {}
    BY <1>2 DEF U
  <1>4. PICK d \in D : \A e \in D : e <= d
    BY <1>1, <1>3, LastOf
  <1> DEFINE I == {i \in 1 .. n : <<d, i>> \in U}
  <1>5. I \in SUBSET (1 .. n) /\ I # {}
    OBVIOUS
  <1>6. PICK i \in I : \A j \in I : j <= i
    BY <1>1, <1>5, LastOf
  <1>7. ASSUME NEW v \in U PROVE NotBefore(<<d, i>>, v)
    <2>1. v[1] \in 1 .. m /\ v[2] \in 1 .. n /\ v = <<v[1], v[2]>>
      BY <1>2
    <2>2. v[1] <= d
      BY <1>4, <2>1
    <2>3. v[1] = d => v[2] <= i
      BY <1>6, <2>1
    <2> QED BY <1>1, <2>1, <2>2, <2>3 DEF NotBefore
  <1> QED BY <1>7 DEF U

(* NewMaster is the host interface of that call. *)
LEMMA NewMasterOf ==
  ASSUME NEW file \in Files, MasterUpdates(file.docs) # {}
  PROVE  \E u \in MasterUpdates(file.docs) :
           /\ \A v \in MasterUpdates(file.docs) : NotBefore(u, v)
           /\ u[2] \in DOMAIN Interfaces
           /\ NewMaster(MasterUpdates(file.docs)) = Interfaces[u[2]].host
  <1> DEFINE U == MasterUpdates(file.docs)
             last == CHOOSE u \in U : \A v \in U : NotBefore(u, v)
  <1>1. last \in U /\ \A v \in U : NotBefore(last, v)
    <2> HIDE DEF U
    <2>1. \E u \in U : \A v \in U : NotBefore(u, v)
      BY LastCall DEF U
    <2> QED BY <2>1
  <1>2. last[2] \in DOMAIN Interfaces
    <2> HIDE DEF last
    <2> QED BY <1>1 DEF MasterUpdates
  <1> QED BY <1>1, <1>2 DEF NewMaster

LEMMA NewMasterType ==
  ASSUME NEW file \in Files, MasterUpdates(file.docs) # {}
  PROVE  NewMaster(MasterUpdates(file.docs)) \in Values
  BY NewMasterOf, InterfaceTypes

-----------------------------------------------------------------------------
(* Types *)

LEMMA TypeInit == Init => TypeInv
  BY RepositoriesAssumption DEF Init, TypeInv, Types, Files

LEMMA TypeNext ==
  ASSUME TypeInv, [Next]_vars
  PROVE  TypeInv'
  <1> USE DEF TypeInv
  <1>1. CASE CheckRepoForMatchingManifests
    <2>1. \A p \in Matching(repo) : repo[p].docs # <<>>
      BY NamedDocument DEF Matching
    <2> QED BY <1>1, <2>1 DEF CheckRepoForMatchingManifests, Matching, Types
  <1>2. CASE FindMatchingNADs
    <2>1. CASE /\ at \in Paths
               /\ MasterUpdates(clone[at].docs) # {}
               /\ clone' = [clone EXCEPT ![at] =
                    Rewritten(Head(@.docs), NewMaster(MasterUpdates(@.docs)))]
      <3> DEFINE new == Rewritten(Head(clone[at].docs), NewMaster(MasterUpdates(clone[at].docs)))
      <3>1. clone[at] \in Files /\ clone[at].docs # <<>>
        BY <2>1, NamedDocument DEF MasterUpdates
      <3>2. new \in Files /\ new.docs # <<>>
        BY <2>1, <3>1, FirstDocument, NewMasterType, RewrittenFile
      <3>3. clone' = [clone EXCEPT ![at] = new]
        BY <2>1
      <3> HIDE DEF new
      <3>4. matches' = matches
        BY <1>2 DEF FindMatchingNADs
      <3> QED BY <1>2, <2>1, <3>2, <3>3, <3>4 DEF FindMatchingNADs
    <2>2. CASE UNCHANGED clone
      BY <1>2, <2>2 DEF FindMatchingNADs
    <2> QED BY <1>2, <2>1, <2>2 DEF FindMatchingNADs
  <1>3. CASE UpdateInterfaceIPs
    <2>1. ASSUME NEW p \in matches,
                 clone' = [clone EXCEPT ![p] = Rewritten(Head(@.docs), NewIPs)]
          PROVE  clone' \in [Paths -> Files]
      <3>1. Rewritten(Head(clone[p].docs), NewIPs) \in Files
        BY <2>1, FirstDocument, RewrittenFile, NewIPsAssumption
      <3> QED BY <2>1, <3>1
    <2>2. CASE UNCHANGED clone
      BY <1>3, <2>2 DEF UpdateInterfaceIPs
    <2>3. CASE \E p \in matches :
                 /\ clone' = [clone EXCEPT ![p] = Rewritten(Head(@.docs), NewIPs)]
                 /\ matches' = matches \ {p}
      <3>1. clone' \in [Paths -> Files]
        BY <2>1, <2>3
      <3>2. \A p \in matches' : clone'[p] = clone[p]
        BY <2>3
      <3> QED BY <1>3, <2>3, <3>1, <3>2 DEF UpdateInterfaceIPs
    <2> QED BY <1>3, <2>2, <2>3 DEF UpdateInterfaceIPs
  <1>4. CASE CommitAndPush
    BY <1>4 DEF CommitAndPush
  <1>5. CASE UNCHANGED vars
    BY <1>5 DEF vars
  <1> QED BY <1>1, <1>2, <1>3, <1>4, <1>5 DEF Next

(* The types hold in every state. *)
THEOREM TypeCorrect == Spec => []TypeInv
  <1>1. TypeInv /\ [Next]_vars => TypeInv'
    BY TypeNext
  <1> QED BY TypeInit, <1>1, PTL DEF Spec

-----------------------------------------------------------------------------
(* Files nobody named *)

Touchable(p) ==
  \E d \in DOMAIN original[p].docs :
    LET doc == original[p].docs[d] IN
    doc.id = Manifest \/ (type = "NFDeployment" /\ NamedBy(doc) # {})

(* Every document of a file goes back to one that was in it.                *)
Descends(file, p) ==
  \A d \in DOMAIN file.docs : \E e \in DOMAIN original[p].docs :
    /\ file.docs[d].id = original[p].docs[e].id
    /\ file.docs[d].shape = original[p].docs[e].shape

Kept(tree) ==
  \A p \in Paths : Descends(tree[p], p) /\ (tree[p] # original[p] => Touchable(p))

BystanderInv ==
  /\ Kept(repo)
  /\ Kept(clone)
  /\ \A p \in matches : Touchable(p)

LEMMA RewrittenDescends ==
  ASSUME NEW p \in Paths, NEW file \in Files, file.docs # <<>>, Descends(file, p),
         NEW value \in Values
  PROVE  Descends(Rewritten(Head(file.docs), value), p)
  <1>1. /\ 1 \in DOMAIN file.docs /\ Head(file.docs) = file.docs[1]
        /\ Head(file.docs) \in Documents
    BY FirstDocument
  <1>2. PICK e \in DOMAIN original[p].docs :
          /\ file.docs[1].id = original[p].docs[e].id
          /\ file.docs[1].shape = original[p].docs[e].shape
    BY <1>1 DEF Descends
  <1> DEFINE new == Rewritten(Head(file.docs), value)
  <1>3. /\ DOMAIN new.docs = {1}
        /\ new.docs[1].id = file.docs[1].id
        /\ new.docs[1].shape = file.docs[1].shape
    BY <1>1, RewrittenFile
  <1> HIDE DEF new
  <1>4. Descends(new, p)
    BY <1>2, <1>3 DEF Descends
  <1> QED BY <1>4 DEF new

LEMMA NamedIsTouchable ==
  ASSUME TypeInv, Kept(clone), type = "NFDeployment",
         NEW p \in Paths, MasterUpdates(clone[p].docs) # {}
  PROVE  Touchable(p)
  <1>1. PICK u \in MasterUpdates(clone[p].docs) : TRUE
    OBVIOUS
  <1>2. /\ u[1] \in DOMAIN clone[p].docs /\ u[2] \in DOMAIN Interfaces
        /\ clone[p].docs[u[1]].shape \in {"nad", "brokenNad"}
        /\ clone[p].docs[u[1]].id = Interfaces[u[2]].nad
    BY <1>1 DEF MasterUpdates
  <1>3. PICK e \in DOMAIN original[p].docs :
          /\ clone[p].docs[u[1]].id = original[p].docs[e].id
          /\ clone[p].docs[u[1]].shape = original[p].docs[e].shape
    BY <1>2 DEF Kept, Descends
  <1>4. u[2] \in NamedBy(original[p].docs[e])
    BY <1>2, <1>3 DEF NamedBy
  <1> QED BY <1>3, <1>4 DEF Touchable

LEMMA BystanderNext ==
  ASSUME TypeInv, BystanderInv, [Next]_vars
  PROVE  BystanderInv'
  <1>1. \A p : UNCHANGED <<type, original>> /\ Touchable(p) => Touchable(p)'
    BY DEF Touchable, NamedBy
  <1>2. UNCHANGED <<type, original>>
    BY DEF Next, vars, CheckRepoForMatchingManifests, FindMatchingNADs,
           UpdateInterfaceIPs, CommitAndPush
  <1>3. \A p \in Paths : Touchable(p) => Touchable(p)'
    BY <1>1, <1>2
  <1>4. /\ repo' = repo \/ repo' = clone => Kept(repo)'
        /\ clone' = clone \/ clone' = repo => Kept(clone)'
    <2>1. CASE repo' = repo
      BY <1>2, <1>3, <2>1 DEF BystanderInv, Kept, Descends
    <2>2. CASE repo' = clone
      BY <1>2, <1>3, <2>2 DEF BystanderInv, Kept, Descends
    <2>3. CASE clone' = clone
      BY <1>2, <1>3, <2>3 DEF BystanderInv, Kept, Descends
    <2>4. CASE clone' = repo
      BY <1>2, <1>3, <2>4 DEF BystanderInv, Kept, Descends
    <2> QED BY <2>1, <2>2, <2>3, <2>4
  <1>5. ASSUME NEW p \in Paths, clone[p].docs # <<>>, NEW value \in Values, Touchable(p),
               clone' = [clone EXCEPT ![p] = Rewritten(Head(@.docs), value)]
        PROVE  Kept(clone)'
    <2> DEFINE new == Rewritten(Head(clone[p].docs), value)
    <2>1. Descends(new, p)
      BY <1>5, RewrittenDescends DEF TypeInv, BystanderInv, Kept
    <2>2. clone' = [clone EXCEPT ![p] = new]
      BY <1>5
    <2>3. clone \in [Paths -> Files]
      BY DEF TypeInv
    <2> HIDE DEF new
    <2>4. ASSUME NEW q \in Paths
          PROVE  Descends(clone[q], q)' /\ (clone'[q] # original'[q] => Touchable(q)')
      <3>1. CASE q = p
        BY <1>2, <1>3, <1>5, <2>1, <2>2, <2>3, <3>1 DEF Descends
      <3>2. CASE q # p
        BY <1>2, <1>3, <2>2, <2>3, <3>2 DEF BystanderInv, Kept, Descends
      <3> QED BY <3>1, <3>2
    <2> QED BY <2>4 DEF Kept
  <1>6. CASE UNCHANGED <<clone, repo>> /\ matches' \subseteq matches
    <2>1. Kept(repo)' /\ Kept(clone)'
      BY <1>4, <1>6
    <2> QED BY <1>3, <1>6, <2>1 DEF BystanderInv, TypeInv
  <1>7. CASE CheckRepoForMatchingManifests
    <2>1. Kept(repo)' /\ Kept(clone)'
      BY <1>4, <1>7 DEF CheckRepoForMatchingManifests
    <2>2. \A p \in Matching(repo) : Touchable(p)
      BY DEF Matching, IsNamed, BystanderInv, Kept, Descends, Touchable
    <2>3. \A p \in matches' : p \in matches \/ p \in Matching(repo)
      BY <1>7 DEF CheckRepoForMatchingManifests
    <2>4. \A p \in matches' : p \in Paths
      BY <2>3 DEF Matching, TypeInv
    <2> QED BY <1>3, <2>1, <2>2, <2>3, <2>4 DEF BystanderInv
  <1>8. CASE /\ FindMatchingNADs
             /\ at \in Paths
             /\ MasterUpdates(clone[at].docs) # {}
             /\ clone' = [clone EXCEPT ![at] =
                  Rewritten(Head(@.docs), NewMaster(MasterUpdates(@.docs)))]
    <2> DEFINE value == NewMaster(MasterUpdates(clone[at].docs))
    <2>1. clone[at] \in Files /\ clone[at].docs # <<>>
      BY <1>8, NamedDocument DEF MasterUpdates, TypeInv
    <2>2. value \in Values
      BY <1>8, <2>1, NewMasterType
    <2>3. Touchable(at)
      BY <1>8, NamedIsTouchable DEF FindMatchingNADs, TypeInv, BystanderInv
    <2>4. clone' = [clone EXCEPT ![at] = Rewritten(Head(@.docs), value)]
      BY <1>8
    <2> HIDE DEF value
    <2>5. Kept(clone)'
      BY <1>5, <1>8, <2>1, <2>2, <2>3, <2>4
    <2>6. UNCHANGED <<repo, matches>>
      BY <1>8 DEF FindMatchingNADs
    <2>7. Kept(repo)'
      BY <1>4, <2>6
    <2> QED BY <1>3, <2>5, <2>6, <2>7 DEF BystanderInv, TypeInv
  <1>9. ASSUME UpdateInterfaceIPs, NEW p \in matches, matches' = matches \ {p}, repo' = repo,
               clone' = [clone EXCEPT ![p] = Rewritten(Head(@.docs), NewIPs)]
        PROVE  BystanderInv'
    <2>1. p \in Paths /\ clone[p].docs # <<>> /\ Touchable(p)
      BY DEF TypeInv, BystanderInv
    <2>2. Kept(clone)'
      BY <1>5, <1>9, <2>1, NewIPsAssumption
    <2>3. Kept(repo)'
      BY <1>4, <1>9
    <2> QED BY <1>3, <1>9, <2>2, <2>3 DEF BystanderInv, TypeInv
  <1>10. CASE CommitAndPush
    <2>1. Kept(repo)' /\ Kept(clone)' /\ matches' = matches
      BY <1>4, <1>10 DEF CommitAndPush
    <2> QED BY <1>3, <2>1 DEF BystanderInv, TypeInv
  <1>11. CASE UpdateInterfaceIPs
    BY <1>6, <1>9, <1>11 DEF UpdateInterfaceIPs, TypeInv
  <1>12. CASE FindMatchingNADs
    BY <1>6, <1>8, <1>12 DEF FindMatchingNADs
  <1>13. CASE UNCHANGED vars
    BY <1>6, <1>13 DEF vars
  <1> QED BY <1>7, <1>10, <1>11, <1>12, <1>13 DEF Next

(* A file is changed only if it holds a manifest or a NAD that was asked    *)
(* for, whatever else it holds and whatever the other files do.             *)
THEOREM BystandersAreKept == Spec => []BystandersKept
  <1>1. Init => BystanderInv
    BY DEF Init, BystanderInv, Kept, Descends
  <1>2. TypeInv /\ BystanderInv /\ [Next]_vars => BystanderInv'
    BY BystanderNext
  <1>3. BystanderInv => BystandersKept
    BY DEF BystanderInv, Kept, Touchable, BystandersKept
  <1> QED BY TypeCorrect, <1>1, <1>2, <1>3, PTL DEF Spec

-----------------------------------------------------------------------------
(* Repositories with one document in every file *)

LastNamed(doc) == CHOOSE i \in NamedBy(doc) : \A j \in NamedBy(doc) : j <= i

(* No broken NAD in front of file n ends the search. *)
Unbroken(n) ==
  \A q \in Paths : q < n /\ Document(q).shape = "brokenNad" => NamedBy(Document(q)) = {}

NADFound(p) ==
  /\ type = "NFDeployment"
  /\ Document(p).shape = "nad"
  /\ NamedBy(Document(p)) # {}
  /\ Unbroken(p)

(* A file after the search for NADs, before the manifests are rewritten.    *)
Searched(p) ==
  IF NADFound(p) THEN Rewritten(Document(p), Interfaces[LastNamed(Document(p))].host)
  ELSE original[p]

IsTarget(p) == Document(p).id = Manifest /\ Document(p).shape = Rewritable

(* What a file can hold: the document it always held, with some value.      *)
Forms(p) == {original[p]} \union {Rewritten(Document(p), value) : value \in Values}

Named == {p \in Paths : Document(p).id = Manifest}

ExactInv ==
  /\ \A p \in Paths : repo[p] \in Forms(p) /\ clone[p] \in Forms(p)
  /\ matches \subseteq Named
  /\ pc = "nads" => matches = Named /\ Unbroken(at)
  /\ \/ /\ commits = 0
        /\ repo = original
        /\ pc = "nads" =>
             \A p \in Paths : clone[p] = IF p < at THEN Searched(p) ELSE original[p]
        /\ pc = "update" =>
             \A p \in Paths : clone[p] = IF p \in matches THEN Searched(p) ELSE Expected(p)
     \/ /\ commits = 1
        /\ \A p \in Paths : repo[p] = Expected(p)
        /\ pc # "idle" => \A p \in Paths : clone[p] = Expected(p)

LEMMA SingleDocument ==
  ASSUME TypeInv, SingleDocuments, NEW p \in Paths
  PROVE  /\ original[p].docs # <<>>
         /\ DOMAIN original[p].docs = {1}
         /\ Document(p) = original[p].docs[1]
         /\ Document(p) \in Documents
  <1> DEFINE D == Documents
             docs == original[p].docs
  <1>1. docs \in Seq(D) /\ Len(docs) = 1
    BY DEF TypeInv, Files, SingleDocuments
  <1> HIDE DEF D, docs
  <1>2. docs # <<>> /\ DOMAIN docs = {1} /\ Head(docs) = docs[1] /\ docs[1] \in D
    BY <1>1
  <1> QED BY <1>2 DEF D, docs, Document

(* The helpers find the same in every form of a file. *)
LEMMA FormOfFile ==
  ASSUME TypeInv, SingleDocuments, NEW p \in Paths, NEW file \in Forms(p)
  PROVE  /\ file \in Files
         /\ DOMAIN file.docs = {1}
         /\ Head(file.docs) = file.docs[1]
         /\ file.docs[1].id = Document(p).id
         /\ file.docs[1].shape = Document(p).shape
         /\ \A w \in Values : Rewritten(file.docs[1], w) = Rewritten(Document(p), w)
  <1>1. CASE file = original[p]
    BY <1>1, SingleDocument, FirstDocument DEF TypeInv
  <1>2. CASE \E value \in Values : file = Rewritten(Document(p), value)
    BY <1>2, SingleDocument, RewrittenFile
  <1> QED BY <1>1, <1>2 DEF Forms

LEMMA LastNamedIsLast ==
  ASSUME NEW doc, NamedBy(doc) # {}
  PROVE  /\ LastNamed(doc) \in NamedBy(doc)
         /\ \A j \in NamedBy(doc) : j <= LastNamed(doc)
         /\ LastNamed(doc) \in DOMAIN Interfaces
  <1> DEFINE I == NamedBy(doc)
             n == Len(Interfaces)
  <1>1. n \in Nat /\ DOMAIN Interfaces = 1 .. n
    <2> DEFINE R == [nad: Ids, host: Values]
    <2>1. Interfaces \in Seq(R)
      BY InterfacesAssumption
    <2> HIDE DEF R
    <2> QED BY <2>1
  <1>2. I \in SUBSET (1 .. n) /\ I \subseteq DOMAIN Interfaces
    BY <1>1 DEF NamedBy
  <1> HIDE DEF I, n
  <1>3. \E i \in I : \A j \in I : j <= i
    BY <1>1, <1>2, LastOf DEF I
  <1>4. LastNamed(doc) \in I /\ \A j \in I : j <= LastNamed(doc)
    BY <1>3 DEF LastNamed, I
  <1> QED BY <1>2, <1>4 DEF I

(* With one document in a file, its calls are those for the interfaces that *)
(* name it, and the last of these wins.                                     *)
LEMMA MasterOfSingle ==
  ASSUME TypeInv, SingleDocuments, NEW p \in Paths, NEW file \in Forms(p)
  PROVE  /\ MasterUpdates(file.docs) = {} <=> NamedBy(Document(p)) = {}
         /\ MasterUpdates(file.docs) # {} =>
              NewMaster(MasterUpdates(file.docs)) = Interfaces[LastNamed(Document(p))].host
  <1> DEFINE U == MasterUpdates(file.docs)
             I == NamedBy(Document(p))
  <1>1. /\ DOMAIN file.docs = {1}
        /\ file.docs[1].id = Document(p).id
        /\ file.docs[1].shape = Document(p).shape
        /\ file \in Files
    BY FormOfFile
  <1>2. \A i \in I : <<1, i>> \in U
    BY <1>1 DEF MasterUpdates, NamedBy
  <1>3. \A u \in U : u[1] = 1 /\ u[2] \in I
    BY <1>1 DEF MasterUpdates, NamedBy
  <1>4. \A i \in I : i \in Nat
    BY InterfaceTypes DEF NamedBy
  <1>5. ASSUME U # {} PROVE NewMaster(U) = Interfaces[LastNamed(Document(p))].host
    <2>1. PICK u \in U : /\ \A v \in U : NotBefore(u, v)
                         /\ NewMaster(U) = Interfaces[u[2]].host
      BY <1>1, <1>5, NewMasterOf
    <2>2. I # {}
      BY <1>3, <1>5
    <2> DEFINE last == LastNamed(Document(p))
    <2>3. last \in I /\ \A j \in I : j <= last
      BY <2>2, LastNamedIsLast
    <2> HIDE DEF U, I, last
    <2>4. <<1, last>> \in U
      BY <1>2, <2>3
    <2>5. u[2] <= last /\ u[2] \in Nat /\ last \in Nat
      BY <1>3, <1>4, <2>1, <2>3
    <2>6. u[2] >= last
      BY <1>3, <1>4, <2>1, <2>3, <2>4 DEF NotBefore
    <2>7. u[2] = last
      BY <2>5, <2>6
    <2> QED BY <2>1, <2>7 DEF last, U
  <1> QED BY <1>2, <1>3, <1>5

(* The cases of Expected, beside the search. *)
LEMMA ExpectedFile ==
  ASSUME NEW p \in Paths
  PROVE  /\ ~ IsTarget(p) => Expected(p) = Searched(p)
         /\ IsTarget(p) => Expected(p) = Rewritten(Document(p), NewIPs)
         /\ ~ NADFound(p) => Searched(p) = original[p]
         /\ NADFound(p) =>
              /\ Searched(p) = Rewritten(Document(p), Interfaces[LastNamed(Document(p))].host)
              /\ Expected(p) = Searched(p)
  <1>1. IsTarget(p) => ~ NADFound(p)
    BY DEF IsTarget, NADFound, Rewritable
  <1> QED BY <1>1 DEF IsTarget, Expected, Searched, NADFound, Unbroken, LastNamed

LEMMA ExpectedForms ==
  ASSUME NEW p \in Paths
  PROVE  Searched(p) \in Forms(p) /\ Expected(p) \in Forms(p)
  <1>1. Searched(p) \in Forms(p)
    BY LastNamedIsLast, InterfaceTypes DEF Searched, NADFound, Forms
  <1>2. Rewritten(Document(p), NewIPs) \in Forms(p)
    BY NewIPsAssumption DEF Forms
  <1> QED BY <1>1, <1>2, ExpectedFile

LEMMA ExactInit == Init /\ SingleDocuments => ExactInv
  BY DEF Init, ExactInv, Forms

(* original and type never change, and so does what is said of them alone.  *)
LEMMA Fixed ==
  ASSUME UNCHANGED <<type, original>>
  PROVE  /\ SingleDocuments' = SingleDocuments
         /\ Named' = Named
         /\ \A p : Document(p)' = Document(p)
         /\ \A p : Forms(p)' = Forms(p)
         /\ \A p : Expected(p)' = Expected(p)
         /\ \A p : Searched(p)' = Searched(p)
         /\ \A n : Unbroken(n)' = Unbroken(n)
  <1>1. \A p : Document(p)' = Document(p)
    BY DEF Document
  <1>2. \A n : Unbroken(n)' = Unbroken(n)
    BY <1>1 DEF Unbroken, NamedBy
  <1>3. \A p : NADFound(p)' = NADFound(p)
    BY <1>1, <1>2 DEF NADFound, NamedBy
  <1>4. \A doc : LastNamed(doc)' = LastNamed(doc)
    BY DEF LastNamed, NamedBy
  <1> QED
    BY <1>1, <1>2, <1>3
    DEF SingleDocuments, Named, Forms, Expected, Searched, Document, NamedBy, Rewritten,
        Rewritable, LastNamed, NADFound, Unbroken

LEMMA ExactCheck ==
  ASSUME TypeInv, SingleDocuments, ExactInv, CheckRepoForMatchingManifests
  PROVE  ExactInv'
  <1> USE DEF TypeInv
  <1>1. UNCHANGED <<type, original, repo, commits>> /\ clone' = repo /\ at' = 1
    BY DEF CheckRepoForMatchingManifests
  <1>2. Matching(repo) = Named
    BY FormOfFile DEF Matching, Named, IsNamed, ExactInv
  <1>3. /\ pc' = "idle" => matches' = {}
        /\ pc' # "idle" => matches' = Named
        /\ pc' = "nads" <=> pc' # "idle" /\ type = "NFDeployment"
        /\ pc' = "update" <=> pc' # "idle" /\ type # "NFDeployment"
    BY <1>2 DEF CheckRepoForMatchingManifests
  <1>4. \A p \in Paths : ~ (p < 1)
    BY DEF Paths
  <1>5. \A p \in Paths : type # "NFDeployment" => Searched(p) = original[p]
    BY DEF Searched, NADFound
  <1>6. \A p \in Paths : p \notin Named => Expected(p) = Searched(p)
    BY ExpectedFile DEF IsTarget, Named
  <1>7. Unbroken(1)
    BY <1>4 DEF Unbroken
  <1> QED BY <1>1, <1>3, <1>4, <1>5, <1>6, <1>7, Fixed DEF ExactInv

LEMMA ExactFind ==
  ASSUME TypeInv, SingleDocuments, ExactInv, FindMatchingNADs
  PROVE  ExactInv'
  <1> USE DEF TypeInv
  <1>1. /\ UNCHANGED <<type, original, repo, commits, matches>>
        /\ pc = "nads" /\ type = "NFDeployment" /\ matches = Named /\ Unbroken(at)
    BY DEF FindMatchingNADs, ExactInv
  <1>2. \A p \in Paths : p \notin Named => Expected(p) = Searched(p)
    BY ExpectedFile DEF IsTarget, Named
  <1>3. ASSUME at \in Paths, clone' = clone, pc' = pc, at' = at + 1,
               Document(at).shape = "brokenNad" => NamedBy(Document(at)) = {},
               ~ NADFound(at)
        PROVE  ExactInv'
    <2>1. Unbroken(at + 1)
      BY <1>1, <1>3 DEF Unbroken, Paths
    <2>2. Searched(at) = original[at]
      BY <1>3, ExpectedFile
    <2>3. \A p \in Paths : p < at + 1 <=> p < at \/ p = at
      BY DEF Paths
    <2> QED BY <1>1, <1>3, <2>1, <2>2, <2>3, Fixed DEF ExactInv
  <1>4. CASE /\ at \in Paths
             /\ MasterUpdates(clone[at].docs) = {}
             /\ at' = at + 1
             /\ UNCHANGED <<clone, pc>>
    <2>1. NamedBy(Document(at)) = {}
      BY <1>4, MasterOfSingle DEF ExactInv
    <2>2. ~ NADFound(at)
      BY <2>1 DEF NADFound
    <2> QED BY <1>3, <1>4, <2>1, <2>2
  <1>5. CASE /\ at \in Paths
             /\ MasterUpdates(clone[at].docs) # {}
             /\ Head(clone[at].docs).shape = "nad"
             /\ clone' = [clone EXCEPT ![at] =
                  Rewritten(Head(@.docs), NewMaster(MasterUpdates(@.docs)))]
             /\ at' = at + 1
             /\ UNCHANGED pc
    <2> DEFINE host == Interfaces[LastNamed(Document(at))].host
    <2>1. /\ NewMaster(MasterUpdates(clone[at].docs)) = host
          /\ NamedBy(Document(at)) # {}
      BY <1>5, MasterOfSingle DEF ExactInv
    <2>2. /\ Document(at).shape = "nad"
          /\ \A w \in Values : Rewritten(Head(clone[at].docs), w) = Rewritten(Document(at), w)
      BY <1>5, FormOfFile DEF ExactInv
    <2>3. host \in Values
      BY <2>1, LastNamedIsLast, InterfaceTypes
    <2>4. NADFound(at)
      BY <1>1, <2>1, <2>2 DEF NADFound
    <2>5. clone' = [clone EXCEPT ![at] = Searched(at)]
      BY <1>5, <2>1, <2>2, <2>3, <2>4, ExpectedFile
    <2>6. Unbroken(at + 1)
      BY <1>1, <1>5, <2>2 DEF Unbroken, Paths
    <2>7. \A p \in Paths : p < at + 1 <=> p < at \/ p = at
      BY DEF Paths
    <2>8. Searched(at) \in Forms(at) /\ Expected(at) = Searched(at)
      BY <1>5, <2>4, ExpectedForms, ExpectedFile
    <2> HIDE DEF host
    <2> QED BY <1>1, <1>5, <2>5, <2>6, <2>7, <2>8, Fixed DEF ExactInv
  <1>6. ASSUME clone' = clone, pc' = "update",
               \A p \in Paths : ~ (p < at) => Searched(p) = original[p]
        PROVE  ExactInv'
    BY <1>1, <1>2, <1>6, Fixed DEF ExactInv
  <1>7. CASE /\ at \in Paths
             /\ MasterUpdates(clone[at].docs) # {}
             /\ Head(clone[at].docs).shape # "nad"
             /\ pc' = "update"
             /\ UNCHANGED <<clone, at>>
    <2>1. NamedBy(Document(at)) # {}
      BY <1>7, MasterOfSingle DEF ExactInv
    <2>2. Document(at).shape = "brokenNad"
      BY <1>7, <2>1, FormOfFile DEF ExactInv, NamedBy
    <2>3. \A p \in Paths : ~ (p < at) => ~ NADFound(p)
      BY <1>7, <2>1, <2>2 DEF NADFound, Unbroken, Paths
    <2> QED BY <1>6, <1>7, <2>3, ExpectedFile
  <1>8. CASE at \notin Paths /\ pc' = "update" /\ UNCHANGED <<clone, at>>
    <2>1. \A p \in Paths : p < at
      BY <1>8, NumFilesAssumption DEF Paths
    <2> QED BY <1>6, <1>8, <2>1
  <1> QED BY <1>4, <1>5, <1>7, <1>8 DEF FindMatchingNADs

LEMMA ExactUpdate ==
  ASSUME TypeInv, SingleDocuments, ExactInv, UpdateInterfaceIPs
  PROVE  ExactInv'
  <1> USE DEF TypeInv
  <1>1. UNCHANGED <<type, original, repo, at, commits>> /\ pc = "update"
    BY DEF UpdateInterfaceIPs
  <1>2. \A p \in matches : /\ p \in Paths
                           /\ Head(clone[p].docs).shape = Document(p).shape
                           /\ Document(p).id = Manifest
    BY FormOfFile DEF ExactInv, Named
  <1>3. ASSUME NEW p \in matches,
               Head(clone[p].docs).shape = Rewritable,
               clone' = [clone EXCEPT ![p] = Rewritten(Head(@.docs), NewIPs)],
               matches' = matches \ {p},
               pc' = pc
        PROVE  ExactInv'
    <2>1. Expected(p) = Rewritten(Document(p), NewIPs)
      BY <1>2, <1>3, ExpectedFile DEF IsTarget
    <2>2. Rewritten(Head(clone[p].docs), NewIPs) = Rewritten(Document(p), NewIPs)
      BY <1>2, FormOfFile, NewIPsAssumption DEF ExactInv
    <2>3. clone' = [clone EXCEPT ![p] = Expected(p)]
      BY <1>3, <2>1, <2>2
    <2>4. Expected(p) \in Forms(p)
      BY <1>2, ExpectedForms
    <2> QED BY <1>1, <1>2, <1>3, <2>3, <2>4, Fixed DEF ExactInv
  <1>4. ASSUME NEW p \in matches,
               Head(clone[p].docs).shape # Rewritable,
               matches' = matches \ {p},
               UNCHANGED <<clone, pc>>
        PROVE  ExactInv'
    <2>1. Expected(p) = Searched(p)
      BY <1>2, <1>4, ExpectedFile DEF IsTarget
    <2> QED BY <1>1, <1>2, <1>4, <2>1, Fixed DEF ExactInv
  <1>5. ASSUME pc' = "idle", matches' = {}, clone' = clone
        PROVE  ExactInv'
    BY <1>1, <1>5, Fixed DEF ExactInv
  <1> QED BY <1>3, <1>4, <1>5 DEF UpdateInterfaceIPs

LEMMA ExactCommit ==
  ASSUME TypeInv, SingleDocuments, ExactInv, CommitAndPush
  PROVE  ExactInv'
  <1> USE DEF TypeInv
  <1>1. /\ UNCHANGED <<type, original, clone, at, matches>>
        /\ pc = "update" /\ matches = {} /\ pc' = "idle"
    BY DEF CommitAndPush
  <1>2. \A p \in Paths : clone[p] = Expected(p)
    BY <1>1 DEF ExactInv
  <1>3. CASE commits = 0 /\ CommitAccepted /\ repo' = clone /\ commits' = commits + 1
    BY <1>1, <1>2, <1>3, Fixed DEF ExactInv
  <1>4. CASE ~ CommitAccepted /\ UNCHANGED <<repo, commits>>
    BY <1>1, <1>4, Fixed DEF ExactInv
  <1>5. ASSUME commits = 1, CommitAccepted PROVE FALSE
    <2>1. \A p \in Paths : repo[p] = clone[p]
      BY <1>2, <1>5 DEF ExactInv
    <2>2. repo = clone
      BY <2>1
    <2> QED BY <1>5, <2>2 DEF CommitAccepted
  <1> QED BY <1>3, <1>4, <1>5 DEF CommitAndPush, ExactInv

LEMMA ExactNext ==
  ASSUME TypeInv, SingleDocuments => ExactInv, [Next]_vars
  PROVE  (SingleDocuments => ExactInv)'
  <1>1. UNCHANGED <<type, original>>
    BY DEF Next, vars, CheckRepoForMatchingManifests, FindMatchingNADs,
           UpdateInterfaceIPs, CommitAndPush
  <1> SUFFICES ASSUME SingleDocuments PROVE ExactInv'
    BY <1>1, Fixed
  <1>2. CASE UNCHANGED vars
    BY <1>1, <1>2, Fixed DEF vars, ExactInv
  <1> QED BY <1>2, ExactCheck, ExactFind, ExactUpdate, ExactCommit DEF Next

LEMMA Exact == Spec => [](SingleDocuments => ExactInv)
  <1>1. Init => (SingleDocuments => ExactInv)
    BY ExactInit
  <1>2. TypeInv /\ (SingleDocuments => ExactInv) /\ [Next]_vars => (SingleDocuments => ExactInv)'
    BY ExactNext
  <1> QED BY TypeCorrect, <1>1, <1>2, PTL DEF Spec

(* If every file holds one document, a commit carries what was asked for    *)
(* and nothing else, whatever NADs are broken and whichever manifests have  *)
(* nothing to rewrite.                                                      *)
THEOREM Exactness == Spec => []RewritesAreExact
  <1>1. (SingleDocuments => ExactInv) => RewritesAreExact
    BY DEF ExactInv, RewritesAreExact
  <1> QED BY Exact, <1>1, PTL

(* And no number of Reconciles makes a second commit. *)
THEOREM Idempotence == Spec => []OneCommitIsEnough
  <1>1. (SingleDocuments => ExactInv) => OneCommitIsEnough
    BY DEF ExactInv, OneCommitIsEnough
  <1> QED BY Exact, <1>1, PTL
=============================================================================
