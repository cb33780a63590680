------------------------- MODULE MemoryGraphProofs -------------------------
(***************************************************************************)
(* Proofs about MemoryGraph, for any clients, memories, tag nodes, names,  *)
(* spellings, labels and places of the code.                               *)
(***************************************************************************)
EXTENDS MemoryGraph, FiniteSetTheorems, FunctionTheorems, TLAPS

(***************************************************************************)
(* The inductive invariant.                                                *)
(***************************************************************************)
\* No two nodes have one name.  MERGE, the check before a rename and the
\* constraint tag_name_unique keep it so.
UniqueNames ==
    \A t, u \in TagNodes : tags[t] = tags[u] /\ tags[t] # Blank => t = u

\* A RenameTag between its transactions has two different names, neither empty.
RenamesSane ==
    \A c \in Clients : renaming[c] # Idle =>
        /\ renaming[c].old \in Names /\ renaming[c].new \in Names
        /\ renaming[c].old # renaming[c].new

IndInv == TypeOK /\ UniqueNames /\ RenamesSane

ReplyType == [op : Ops \cup {"none"}, code : Codes, n : Nat]

(***************************************************************************)
(* Operators of the model.                                                 *)
(***************************************************************************)
\* A reply that commits, or fails to say so, is a reply.
LEMMA CommittedType ==
    ASSUME NEW op \in Ops, NEW n \in Nat, Committed(op, n)
    PROVE  reply' \in ReplyType
BY DEF Committed, Reply, ReplyType, Codes

\* Any other reply is one, too.
LEMMA ReplyIsReply ==
    ASSUME NEW op \in Ops, NEW code \in Codes, Reply(op, code, 0)
    PROVE  reply' \in ReplyType
BY DEF Reply, ReplyType

\* Edges are pairs and triples of the nodes and labels they join.
LEMMA EdgeShapes ==
    ASSUME TypeOK
    PROVE  /\ tagged \subseteq mems \X TagNodes
           /\ \A e \in tagged : e = <<e[1], e[2]>> /\ e[1] \in mems /\ e[2] \in TagNodes
           /\ \A e \in relates : /\ e = <<e[1], e[2], e[3]>>
                                 /\ e[1] \in mems /\ e[2] \in Labels /\ e[3] \in mems
           /\ \A e \in refers : e = <<e[1], e[2]>> /\ e[1] \in mems /\ e[2] \in refs
BY DEF TypeOK

\* The memories that carry a tag are finitely many.
LEMMA CarriersFinite ==
    ASSUME TypeOK, NEW S
    PROVE  /\ Carriers(S) \subseteq mems
           /\ IsFiniteSet(mems) /\ IsFiniteSet(Carriers(S))
           /\ Cardinality(Carriers(S)) \in Nat
<1>1. mems \subseteq Mems /\ IsFiniteSet(Mems)
  BY GraphConstantsOK DEF TypeOK, GraphConstantsOK
<1>2. Carriers(S) \subseteq mems
  BY DEF Carriers
<1>3. IsFiniteSet(mems) /\ IsFiniteSet(Carriers(S))
  BY <1>1, <1>2, FS_Subset
<1> QED BY <1>2, <1>3, FS_CardinalityType

\* At most one node has a given name.
LEMMA NodeIsOne ==
    ASSUME UniqueNames, NEW a
    PROVE  /\ Node(a) \subseteq TagNodes
           /\ \A t \in Node(a) : tags[t] = a /\ a # Blank /\ Node(a) = {t}
BY DEF UniqueNames, Node

\* The known names are those of tag nodes.
LEMMA KnownNodes ==
    ASSUME TypeOK, NEW a
    PROVE  /\ Known \subseteq Names
           /\ a \in Known <=> Node(a) # {}
BY GraphConstantsOK DEF TypeOK, Known, Node, GraphConstantsOK

\* NormalizeTagName gives a name or nothing.
LEMMA NormType ==
    ASSUME NEW s \in Spellings
    PROVE  Norm[s] \in Names \cup {Blank}
BY GraphConstantsOK DEF GraphConstantsOK

\* NormalizeTags gives names.
LEMMA NormalizedType ==
    ASSUME NEW S \in SUBSET Spellings
    PROVE  Normalized(S) \subseteq Names
BY GraphConstantsOK DEF GraphConstantsOK, Normalized

\* MERGE gives each of the names a node, and no two nodes one name.
LEMMA MergeNodesOK ==
    ASSUME TypeOK, UniqueNames, NEW A \in SUBSET Names, MergeNodes(A)
    PROVE  /\ tags' \in [TagNodes -> Names \cup {Blank}]
           /\ UniqueNames'
           /\ \A t \in TagNodes : tags[t] # Blank => tags'[t] = tags[t]
           /\ \A a \in A : \E t \in TagNodes : tags'[t] = a
<1>1. tags \in [TagNodes -> Names \cup {Blank}] /\ Blank \notin Names
  BY GraphConstantsOK DEF TypeOK, GraphConstantsOK
<1>2. /\ tags' \in [TagNodes -> Names \cup {Blank}]
      /\ \A t \in TagNodes : tags[t] # Blank => tags'[t] = tags[t]
  BY DEF MergeNodes
<1>3. ASSUME NEW t \in TagNodes, NEW u \in TagNodes,
             tags'[t] = tags'[u], tags'[t] # Blank
      PROVE  t = u
  <2>1. CASE tags[t] # Blank /\ tags[u] # Blank
    BY <1>2, <1>3, <2>1 DEF UniqueNames
  <2>2. CASE tags[t] = Blank
    BY <1>3, <2>2 DEF MergeNodes
  <2>3. CASE tags[u] = Blank
    BY <1>3, <2>3 DEF MergeNodes
  <2> QED BY <2>1, <2>2, <2>3
<1>4. ASSUME NEW a \in A PROVE \E t \in TagNodes : tags'[t] = a
  <2>1. CASE a \in Known
    BY <1>1, <1>2, <2>1 DEF Known
  <2>2. CASE a \notin Known
    BY <2>2 DEF MergeNodes
  <2> QED BY <2>1, <2>2
<1> QED BY <1>2, <1>3, <1>4 DEF UniqueNames

(***************************************************************************)
(* Every action preserves the invariant.                                   *)
(***************************************************************************)
\* A reply alone disturbs nothing.
LEMMA ReplyOnlyOK ==
    ASSUME IndInv, UNCHANGED <<graph, renaming>>, reply' \in ReplyType
    PROVE  IndInv'
BY DEF IndInv, TypeOK, UniqueNames, RenamesSane, graph, ReplyType

\* MERGE makes a tag node only for a name that has none.
LEMMA AddMemoryOK ==
    ASSUME IndInv, NEW m \in Mems, NEW S \in SUBSET Spellings, AddMemory(m, S)
    PROVE  IndInv'
<1>1. Normalized(S) \subseteq Names /\ Blank \notin Names
  BY NormalizedType, GraphConstantsOK DEF GraphConstantsOK
<1>2. /\ tags' \in [TagNodes -> Names \cup {Blank}]
      /\ UniqueNames'
      /\ \A t \in TagNodes : tags[t] # Blank => tags'[t] = tags[t]
  BY <1>1, MergeNodesOK DEF AddMemory, IndInv
<1>3. reply' \in ReplyType
  BY CommittedType DEF AddMemory, Ops
<1>4. mems' \subseteq used' /\ used' \subseteq Mems /\ mems \subseteq mems'
  BY DEF AddMemory, IndInv, TypeOK
<1>5. ASSUME NEW e \in tagged'
      PROVE  e \in mems' \X TagNodes /\ tags'[e[2]] # Blank
  <2>1. CASE e \in tagged
    BY <1>2, <1>4, <2>1 DEF IndInv, TypeOK
  <2>2. CASE e \notin tagged
    <3>1. PICK t \in TagNodes : e = <<m, t>> /\ tags'[t] \in Normalized(S)
      BY <1>5, <2>2 DEF AddMemory
    <3> QED BY <1>1, <3>1 DEF AddMemory
  <2> QED BY <2>1, <2>2
<1>6. /\ relates' \subseteq mems' \X Labels \X mems'
      /\ refs' \subseteq Refs /\ refers' \subseteq mems' \X refs'
      /\ renaming' = renaming
  BY <1>4 DEF AddMemory, IndInv, TypeOK
<1>7. TypeOK'
  BY <1>2, <1>3, <1>4, <1>5, <1>6 DEF IndInv, TypeOK, ReplyType
<1>8. RenamesSane'
  BY <1>6 DEF IndInv, RenamesSane
<1> QED BY <1>2, <1>7, <1>8 DEF IndInv

\* Deleting detaches first.
LEMMA DeleteMemoryOK ==
    ASSUME IndInv, NEW m \in Mems, DeleteMemory(m)
    PROVE  IndInv'
<1>1. CASE m \notin mems
  <2>1. reply' \in ReplyType
    BY <1>1, ReplyIsReply DEF DeleteMemory, Ops, Codes
  <2> QED BY <1>1, <2>1, ReplyOnlyOK DEF DeleteMemory, graph
<1>2. CASE m \in mems
  <2>1. /\ mems' = mems \ {m} /\ UNCHANGED <<used, tags, refs, renaming>>
        /\ tagged' = {e \in tagged : e[1] # m}
        /\ relates' = {e \in relates : m \notin {e[1], e[3]}}
        /\ refers' = {e \in refers : e[1] # m}
    BY <1>2 DEF DeleteMemory
  <2>2. reply' \in ReplyType
    BY <1>2, CommittedType DEF DeleteMemory, Ops
  <2>3. \A e \in tagged' : e \in mems' \X TagNodes /\ tags'[e[2]] # Blank
    BY <2>1, EdgeShapes DEF IndInv, TypeOK
  <2>4. relates' \subseteq mems' \X Labels \X mems'
    BY <2>1, EdgeShapes DEF IndInv
  <2>5. refers' \subseteq mems' \X refs'
    BY <2>1, EdgeShapes DEF IndInv
  <2>6. TypeOK'
    BY <2>1, <2>2, <2>3, <2>4, <2>5 DEF IndInv, TypeOK, ReplyType
  <2> QED BY <2>1, <2>6 DEF IndInv, UniqueNames, RenamesSane
<1> QED BY <1>1, <1>2

\* A link joins memories that are there.
LEMMA LinkMemoriesOK ==
    ASSUME IndInv, NEW m \in Mems, NEW n \in Mems, NEW l \in Labels,
           LinkMemories(m, n, l)
    PROVE  IndInv'
<1>1. reply' \in ReplyType
  BY CommittedType, ReplyIsReply DEF LinkMemories, Ops, Codes
<1>2. relates' \subseteq mems' \X Labels \X mems'
  BY DEF LinkMemories, IndInv, TypeOK
<1> QED BY <1>1, <1>2
        DEF LinkMemories, IndInv, TypeOK, ReplyType, UniqueNames, RenamesSane

\* One link less.
LEMMA DeleteRelationshipOK ==
    ASSUME IndInv, NEW m \in Mems, NEW n \in Mems, NEW l \in Labels,
           DeleteRelationship(m, n, l)
    PROVE  IndInv'
<1>1. reply' \in ReplyType
  BY CommittedType, ReplyIsReply DEF DeleteRelationship, Ops, Codes
<1>2. relates' \subseteq mems' \X Labels \X mems'
  BY DEF DeleteRelationship, IndInv, TypeOK
<1> QED BY <1>1, <1>2
        DEF DeleteRelationship, IndInv, TypeOK, ReplyType, UniqueNames, RenamesSane

\* A code reference is added to a memory that is there.
LEMMA AddCodeRefOK ==
    ASSUME IndInv, NEW m \in Mems, NEW f \in Refs, AddCodeRef(m, f)
    PROVE  IndInv'
<1>1. reply' \in ReplyType
  BY CommittedType, ReplyIsReply DEF AddCodeRef, Ops, Codes
<1>2. refs' \subseteq Refs /\ refers' \subseteq mems' \X refs'
  BY DEF AddCodeRef, IndInv, TypeOK
<1> QED BY <1>1, <1>2
        DEF AddCodeRef, IndInv, TypeOK, ReplyType, UniqueNames, RenamesSane

\* When the nodes of one name go with their edges, all other edges keep a node.
LEMMA DropOK ==
    ASSUME IndInv, NEW a, UNCHANGED <<mems, used, relates, refs, refers, renaming>>,
           tags' = [t \in TagNodes |-> IF t \in Node(a) THEN Blank ELSE tags[t]],
           \A e \in tagged' : e \in mems \X TagNodes /\ e[2] \notin Node(a)
                              /\ tags[e[2]] # Blank,
           reply' \in ReplyType
    PROVE  IndInv'
<1>1. tags' \in [TagNodes -> Names \cup {Blank}]
  BY DEF IndInv, TypeOK
<1>2. UniqueNames'
  BY DEF IndInv, UniqueNames
<1>3. \A e \in tagged' : e \in mems' \X TagNodes /\ tags'[e[2]] # Blank
  OBVIOUS
<1>4. TypeOK'
  BY <1>1, <1>3 DEF IndInv, TypeOK, ReplyType
<1> QED BY <1>2, <1>4 DEF IndInv, RenamesSane

\* The node goes with its edges.
LEMMA DeleteTagOK ==
    ASSUME IndInv, NEW s \in Spellings, DeleteTag(s)
    PROVE  IndInv'
<1> DEFINE a == Norm[s]
<1>1. CASE Node(a) = {}
  <2>1. reply' \in ReplyType
    BY <1>1, ReplyIsReply DEF DeleteTag, Ops, Codes
  <2> QED BY <1>1, <2>1, ReplyOnlyOK DEF DeleteTag, graph
<1>2. CASE Node(a) # {}
  <2>1. reply' \in ReplyType
    BY <1>2, CommittedType, CarriersFinite DEF DeleteTag, Ops, IndInv
  <2>2. /\ tags' = [t \in TagNodes |-> IF t \in Node(a) THEN Blank ELSE tags[t]]
        /\ tagged' = {e \in tagged : e[2] \notin Node(a)}
        /\ UNCHANGED <<mems, used, relates, refs, refers, renaming>>
    BY <1>2 DEF DeleteTag, DropTag
  <2>3. \A e \in tagged' : /\ e \in mems \X TagNodes /\ e[2] \notin Node(a)
                           /\ tags[e[2]] # Blank
    BY <2>2 DEF IndInv, TypeOK
  <2> QED BY <2>1, <2>2, <2>3, DropOK
<1> QED BY <1>1, <1>2

\* RenameTag's first transaction changes nothing in the graph.
LEMMA RenameCheckOK ==
    ASSUME IndInv, NEW c \in Clients, NEW s \in Spellings, NEW d \in Spellings,
           RenameCheck(c, s, d)
    PROVE  IndInv'
<1> DEFINE old == Norm[s]
           new == Norm[d]
           refused == Blank \in {old, new} \/ old = new \/ new \in Known
<1>1. CASE refused
  <2>1. reply' \in ReplyType
    BY <1>1, ReplyIsReply DEF RenameCheck, Ops, Codes
  <2> QED BY <1>1, <2>1, ReplyOnlyOK DEF RenameCheck
<1>2. CASE ~refused
  <2>1. old \in Names /\ new \in Names /\ old # new
    BY <1>2, NormType
  <2>2. /\ renaming' = [renaming EXCEPT ![c] = [old |-> old, new |-> new]]
        /\ reply' = NoReply /\ UNCHANGED graph
    BY <1>2 DEF RenameCheck
  <2>3. renaming' \in [Clients -> [old : Names \cup {Blank}, new : Names \cup {Blank}]]
    BY <2>1, <2>2 DEF IndInv, TypeOK
  <2>4. RenamesSane'
    BY <2>1, <2>2 DEF IndInv, TypeOK, RenamesSane
  <2>5. TypeOK'
    BY <2>2, <2>3 DEF IndInv, TypeOK, graph, NoReply, Codes
  <2> QED BY <2>2, <2>4, <2>5 DEF IndInv, UniqueNames, graph
<1> QED BY <1>1, <1>2

\* A pending rename is over.
LEMMA RenameOver ==
    ASSUME IndInv, NEW c \in Clients, renaming' = [renaming EXCEPT ![c] = Idle]
    PROVE  /\ renaming' \in [Clients -> [old : Names \cup {Blank}, new : Names \cup {Blank}]]
           /\ RenamesSane'
<1>1. renaming' \in [Clients -> [old : Names \cup {Blank}, new : Names \cup {Blank}]]
  BY DEF IndInv, TypeOK, Idle
<1>2. \A b \in Clients : renaming'[b] # Idle => renaming'[b] = renaming[b]
  BY DEF IndInv, TypeOK
<1> QED BY <1>1, <1>2 DEF IndInv, RenamesSane

\* The constraint keeps names unique, whatever came in between.
LEMMA RenameCommitOK ==
    ASSUME IndInv, NEW c \in Clients, RenameCommit(c)
    PROVE  IndInv'
<1> DEFINE old == renaming[c].old
           new == renaming[c].new
<1>1. /\ renaming' \in [Clients -> [old : Names \cup {Blank}, new : Names \cup {Blank}]]
      /\ RenamesSane'
  BY RenameOver DEF RenameCommit
<1>2. reply' \in ReplyType
  BY CommittedType, ReplyIsReply, CarriersFinite DEF RenameCommit, Ops, Codes, IndInv
<1>3. old \in Names /\ new \in Names /\ old # new /\ Blank \notin Names
  BY GraphConstantsOK DEF RenameCommit, IndInv, RenamesSane, GraphConstantsOK
<1>4. UNCHANGED <<mems, used, tagged, relates, refs, refers>>
  BY DEF RenameCommit
<1>5. CASE UNCHANGED tags
  BY <1>1, <1>2, <1>4, <1>5 DEF IndInv, TypeOK, ReplyType, UniqueNames
<1>6. CASE /\ Node(new) = {}
           /\ tags' = [t \in TagNodes |-> IF t \in Node(old) THEN new ELSE tags[t]]
  <2>1. tags' \in [TagNodes -> Names \cup {Blank}]
    BY <1>3, <1>6 DEF IndInv, TypeOK
  <2>2. \A t \in TagNodes : tags[t] # Blank => tags'[t] # Blank
    BY <1>3, <1>6
  <2>3. \A e \in tagged' : e \in mems' \X TagNodes /\ tags'[e[2]] # Blank
    BY <1>4, <2>2 DEF IndInv, TypeOK
  <2>4. UniqueNames'
    <3>1. \A t \in TagNodes : tags[t] # new
      BY <1>3, <1>6 DEF Node
    <3>2. \A t, u \in Node(old) : t = u
      BY NodeIsOne DEF IndInv
    <3> QED BY <1>6, <3>1, <3>2 DEF IndInv, UniqueNames
  <2>5. TypeOK'
    BY <1>1, <1>2, <1>4, <2>1, <2>3 DEF IndInv, TypeOK, ReplyType
  <2> QED BY <1>1, <2>4, <2>5 DEF IndInv
<1> QED BY <1>5, <1>6 DEF RenameCommit

\* A failing rename changes nothing in the graph.
LEMMA RenameFailsOK ==
    ASSUME IndInv, NEW c \in Clients, RenameFails(c)
    PROVE  IndInv'
<1>1. /\ renaming' \in [Clients -> [old : Names \cup {Blank}, new : Names \cup {Blank}]]
      /\ RenamesSane'
  BY RenameOver DEF RenameFails
<1>2. reply' \in ReplyType
  BY ReplyIsReply DEF RenameFails, Ops, Codes
<1> QED BY <1>1, <1>2 DEF RenameFails, IndInv, TypeOK, ReplyType, UniqueNames, graph

\* The carriers of the source get the target before the source goes.
LEMMA MergeTagsOK ==
    ASSUME IndInv, NEW s \in Spellings, NEW d \in Spellings, MergeTags(s, d)
    PROVE  IndInv'
<1> DEFINE src == Norm[s]
           dst == Norm[d]
<1>1. reply' \in ReplyType
  BY CommittedType, ReplyIsReply, CarriersFinite DEF MergeTags, Ops, Codes, IndInv
<1>2. CASE UNCHANGED <<tags, tagged>>
  BY <1>1, <1>2, ReplyOnlyOK DEF MergeTags, graph
<1>3. CASE /\ src # dst
           /\ tags' = [t \in TagNodes |-> IF t \in Node(src) THEN Blank ELSE tags[t]]
           /\ tagged' = {e \in tagged : e[2] \notin Node(src)}
                            \cup (Carriers(Node(src)) \X Node(dst))
  <2>1. Node(dst) \subseteq TagNodes /\ Node(src) \cap Node(dst) = {}
    BY <1>3 DEF Node
  <2>2. ASSUME NEW e \in tagged'
        PROVE  /\ e \in mems \X TagNodes /\ e[2] \notin Node(src)
               /\ tags[e[2]] # Blank
    <3>1. CASE e \in tagged /\ e[2] \notin Node(src)
      BY <3>1 DEF IndInv, TypeOK
    <3>2. CASE e \in Carriers(Node(src)) \X Node(dst)
      BY <2>1, <3>2 DEF Carriers, Node
    <3> QED BY <1>3, <2>2, <3>1, <3>2
  <2>3. UNCHANGED <<mems, used, relates, refs, refers, renaming>>
    BY DEF MergeTags
  <2> QED BY <1>1, <1>3, <2>2, <2>3, DropOK
<1> QED BY <1>2, <1>3 DEF MergeTags

\* The empty graph satisfies the invariant.
LEMMA InitOK == ASSUME Init PROVE IndInv
<1>1. TypeOK
  BY DEF Init, TypeOK, NoReply, Idle, Codes
<1> QED BY <1>1 DEF Init, IndInv, UniqueNames, RenamesSane

\* Every step keeps the invariant.
LEMMA StepOK == ASSUME IndInv, [Next]_vars PROVE IndInv'
<1>1. CASE UNCHANGED vars
  BY <1>1 DEF vars, graph, IndInv, TypeOK, UniqueNames, RenamesSane
<1>2. ASSUME NEW op \in Ops, Refuse(op) \/ DbFails(op) PROVE IndInv'
  <2>1. reply' \in ReplyType
    BY <1>2, ReplyIsReply DEF Refuse, DbFails, Codes
  <2> QED BY <1>2, <2>1, ReplyOnlyOK DEF Refuse, DbFails
<1> QED BY <1>1, <1>2, AddMemoryOK, DeleteMemoryOK, LinkMemoriesOK, DeleteRelationshipOK,
           AddCodeRefOK, DeleteTagOK, RenameCheckOK, RenameCommitOK, RenameFailsOK,
           MergeTagsOK DEF Next

\* The invariant holds in every reachable state.
THEOREM Inductive == Spec => []IndInv
<1>1. Init => IndInv
  BY InitOK
<1>2. IndInv /\ [Next]_vars => IndInv'
  BY StepOK
<1> QED BY <1>1, <1>2, PTL DEF Spec

\* Every variable has its type, edges join nodes that are there, and no call but
\* add_memory brings a memory about.
THEOREM TypeCorrect == Spec => []TypeOK
<1>1. IndInv => TypeOK
  BY DEF IndInv
<1> QED BY <1>1, Inductive, PTL

(***************************************************************************)
(* What a step does to the names that memories carry.                      *)
(***************************************************************************)
\* In an invariant state, carrying a name is carrying the node of that name.
LEMMA CarrierHasTag ==
    ASSUME IndInv, NEW a \in Names
    PROVE  /\ Carriers(Node(a)) = {m \in mems : a \in TagsOf(m)}
           /\ \A m : TagsOf(m) \subseteq Known
           /\ \A m : m \notin mems => TagsOf(m) = {}
<1>1. Carriers(Node(a)) = {m \in mems : a \in TagsOf(m)}
  BY GraphConstantsOK DEF Carriers, Node, TagsOf, GraphConstantsOK
<1>2. ASSUME NEW m, NEW b \in TagsOf(m) PROVE b \in Known /\ m \in mems
  <2>1. PICK t \in TagNodes : <<m, t>> \in tagged /\ tags[t] = b
    BY <1>2 DEF TagsOf
  <2>2. <<m, t>> \in mems \X TagNodes /\ tags[t] # Blank
    BY <2>1 DEF IndInv, TypeOK
  <2> QED BY <2>1, <2>2 DEF Known
<1> QED BY <1>1, <1>2

\* Without its node, a name is no longer known and nobody carries it; nothing
\* else changes.
LEMMA DropIsDrop ==
    ASSUME IndInv, NEW a \in Names,
           tags' = [t \in TagNodes |-> IF t \in Node(a) THEN Blank ELSE tags[t]],
           tagged' = {e \in tagged : e[2] \notin Node(a)}
    PROVE  /\ Known' = Known \ {a}
           /\ \A m : TagsOf(m)' = TagsOf(m) \ {a}
<1>1. a # Blank
  BY GraphConstantsOK DEF GraphConstantsOK
<1>2. Known' = Known \ {a}
  BY <1>1 DEF Known, Node
<1>3. ASSUME NEW m PROVE TagsOf(m)' = TagsOf(m) \ {a}
  <2>1. \A t \in TagNodes : <<m, t>> \in tagged' <=> <<m, t>> \in tagged /\ t \notin Node(a)
    OBVIOUS
  <2>2. \A t \in TagNodes : t \notin Node(a) => tags'[t] = tags[t]
    OBVIOUS
  <2>3. \A t \in TagNodes : t \in Node(a) <=> tags[t] = a
    BY <1>1 DEF Node
  <2>4. \A n : n \in TagsOf(m) <=> \E t \in TagNodes : <<m, t>> \in tagged /\ tags[t] = n
    BY DEF TagsOf
  <2>5. \A n : n \in TagsOf(m)' <=> \E t \in TagNodes : <<m, t>> \in tagged' /\ tags'[t] = n
    BY DEF TagsOf
  <2>6. ASSUME NEW n \in TagsOf(m)' PROVE n \in TagsOf(m) \ {a}
    <3>1. PICK t \in TagNodes : <<m, t>> \in tagged' /\ tags'[t] = n
      BY <2>5
    <3>2. <<m, t>> \in tagged /\ t \notin Node(a)
      BY <2>1, <3>1
    <3>3. tags[t] = n /\ n # a
      BY <2>2, <2>3, <3>1, <3>2
    <3> QED BY <2>4, <3>2, <3>3
  <2>7. ASSUME NEW n \in TagsOf(m) \ {a} PROVE n \in TagsOf(m)'
    BY <2>1, <2>2, <2>3, <2>4, <2>5
  <2> QED BY <2>6, <2>7
<1> QED BY <1>2, <1>3

\* What a rename and a merge do alike: whoever carried a carries b.
Relabelled(a, b) ==
    /\ Known' = (Known \ {a}) \cup {b}
    /\ \A m : TagsOf(m)' = IF a \in TagsOf(m) THEN (TagsOf(m) \ {a}) \cup {b}
                           ELSE TagsOf(m)

\* A rename gives the carriers of a the name b.
LEMMA RenameRelabels ==
    ASSUME IndInv, NEW a \in Names, NEW b \in Names, a # b, Node(a) # {}, Node(b) = {},
           tags' = [t \in TagNodes |-> IF t \in Node(a) THEN b ELSE tags[t]],
           tagged' = tagged
    PROVE  Relabelled(a, b)
<1>1. a # Blank /\ b # Blank
  BY GraphConstantsOK DEF GraphConstantsOK
<1>2. \A t \in TagNodes : t \in Node(a) <=> tags[t] = a
  BY <1>1 DEF Node
<1>3. \A t \in TagNodes : tags'[t] = IF tags[t] = a THEN b ELSE tags[t]
  BY <1>2
<1>4. \E t \in TagNodes : tags[t] = a
  BY DEF Node
<1>5. \A t \in TagNodes : tags[t] # b
  BY <1>1 DEF Node
<1>6. Known' = (Known \ {a}) \cup {b}
  BY <1>1, <1>3, <1>4 DEF Known
<1>7. ASSUME NEW m
      PROVE  TagsOf(m)' = IF a \in TagsOf(m) THEN (TagsOf(m) \ {a}) \cup {b} ELSE TagsOf(m)
  BY <1>3, <1>5 DEF TagsOf
<1> QED BY <1>6, <1>7 DEF Relabelled

\* So does a merge, to those who had b as well.
LEMMA MergeRelabels ==
    ASSUME IndInv, NEW a \in Names, NEW b \in Names, a # b, Node(a) # {}, Node(b) # {},
           tags' = [t \in TagNodes |-> IF t \in Node(a) THEN Blank ELSE tags[t]],
           tagged' = {e \in tagged : e[2] \notin Node(a)} \cup (Carriers(Node(a)) \X Node(b))
    PROVE  Relabelled(a, b)
<1>1. a # Blank /\ b # Blank
  BY GraphConstantsOK DEF GraphConstantsOK
<1>2. \A t \in TagNodes : (t \in Node(a) <=> tags[t] = a) /\ (t \in Node(b) <=> tags[t] = b)
  BY <1>1 DEF Node
<1>3. \A t \in TagNodes : tags'[t] = IF tags[t] = a THEN Blank ELSE tags[t]
  BY <1>2
<1>4. PICK u \in TagNodes : tags[u] = b
  BY DEF Node
<1>5. Known' = (Known \ {a}) \cup {b}
  BY <1>1, <1>3, <1>4 DEF Known
<1>6. ASSUME NEW m
      PROVE  TagsOf(m)' = IF a \in TagsOf(m) THEN (TagsOf(m) \ {a}) \cup {b} ELSE TagsOf(m)
  <2>1. m \in Carriers(Node(a)) <=> a \in TagsOf(m)
    BY CarrierHasTag
  <2>2. \A t \in TagNodes :
            <<m, t>> \in tagged' <=> \/ <<m, t>> \in tagged /\ tags[t] # a
                                     \/ a \in TagsOf(m) /\ tags[t] = b
    BY <1>2, <2>1
  <2>3. \A x : x \in TagsOf(m)' <=> \E t \in TagNodes : <<m, t>> \in tagged' /\ tags'[t] = x
    BY DEF TagsOf
  <2>4. \A x : x \in TagsOf(m) <=> \E t \in TagNodes : <<m, t>> \in tagged /\ tags[t] = x
    BY DEF TagsOf
  <2>5. ASSUME NEW x \in TagsOf(m)'
        PROVE  x \in TagsOf(m) \ {a} \/ (a \in TagsOf(m) /\ x = b)
    <3>1. PICK t \in TagNodes : <<m, t>> \in tagged' /\ tags'[t] = x
      BY <2>3, <2>5
    <3>2. CASE <<m, t>> \in tagged /\ tags[t] # a
      BY <1>3, <2>4, <3>1, <3>2
    <3>3. CASE a \in TagsOf(m) /\ tags[t] = b
      BY <1>3, <3>1, <3>3
    <3> QED BY <2>2, <3>1, <3>2, <3>3
  <2>6. ASSUME NEW x \in TagsOf(m) \ {a} PROVE x \in TagsOf(m)'
    <3>1. PICK t \in TagNodes : <<m, t>> \in tagged /\ tags[t] = x
      BY <2>4
    <3> QED BY <1>3, <2>2, <2>3, <2>6, <3>1
  <2>7. a \in TagsOf(m) => b \in TagsOf(m)'
    BY <1>3, <1>4, <2>2, <2>3
  <2>8. b \in TagsOf(m) => b \in TagsOf(m)'
    BY <2>6
  <2> QED BY <2>5, <2>6, <2>7, <2>8, Zenon
<1> QED BY <1>5, <1>6 DEF Relabelled

\* A new memory carries the names it came with, and these become known.
LEMMA AddTags ==
    ASSUME IndInv, NEW m \in Mems, NEW S \in SUBSET Spellings, AddMemory(m, S)
    PROVE  /\ Known' = Known \cup Normalized(S)
           /\ TagsOf(m) = {} /\ TagsOf(m)' = Normalized(S)
           /\ \A n : n # m => TagsOf(n)' = TagsOf(n)
<1> DEFINE A == Normalized(S)
<1>1. A \subseteq Names /\ Blank \notin Names
  BY NormalizedType, GraphConstantsOK DEF GraphConstantsOK
<1>2. /\ tags' \in [TagNodes -> Names \cup {Blank}]
      /\ \A t \in TagNodes : tags[t] # Blank => tags'[t] = tags[t]
      /\ \A a \in A : \E t \in TagNodes : tags'[t] = a
  BY <1>1, MergeNodesOK DEF AddMemory, IndInv
<1>3. \A t \in TagNodes : tags[t] = Blank => tags'[t] \in A \cup {Blank}
  BY DEF AddMemory, MergeNodes
<1>4. Known' = Known \cup A
  <2>1. \A x : x \in Known <=> x # Blank /\ \E t \in TagNodes : tags[t] = x
    BY DEF Known
  <2>2. \A x : x \in Known' <=> x # Blank /\ \E t \in TagNodes : tags'[t] = x
    BY DEF Known
  <2> HIDE DEF A
  <2>3. \A x \in A : x # Blank
    BY <1>1
  <2> QED BY <1>2, <1>3, <2>1, <2>2, <2>3
<1>5. tagged' = tagged \cup {<<m, t>> : t \in {t \in TagNodes : tags'[t] \in A}}
  BY DEF AddMemory
<1>6. m \notin mems
  BY DEF AddMemory, IndInv, TypeOK
<1>7. \A t : <<m, t>> \notin tagged
  BY <1>6 DEF IndInv, TypeOK
<1>8. TagsOf(m) = {}
  BY <1>7 DEF TagsOf
<1>9. TagsOf(m)' = A
  <2>1. \A t \in TagNodes : <<m, t>> \in tagged' <=> tags'[t] \in A
    BY <1>5, <1>7
  <2> HIDE DEF A
  <2> QED BY <1>2, <2>1 DEF TagsOf
<1>10. ASSUME NEW n, n # m PROVE TagsOf(n)' = TagsOf(n)
  <2>1. \A t \in TagNodes : <<n, t>> \in tagged' <=> <<n, t>> \in tagged
    BY <1>5, <1>10
  <2>2. \A t \in TagNodes : <<n, t>> \in tagged => tags'[t] = tags[t]
    <3>1. \A t \in TagNodes : <<n, t>> \in tagged => tags[t] # Blank
      BY DEF IndInv, TypeOK
    <3> QED BY <1>2, <3>1
  <2> QED BY <2>1, <2>2 DEF TagsOf
<1> QED BY <1>4, <1>8, <1>9, <1>10

\* A deleted memory carries nothing, and the others keep what they carried.
LEMMA DeleteTags ==
    ASSUME IndInv, NEW m \in mems, DeleteMemory(m)
    PROVE  /\ Known' = Known
           /\ TagsOf(m)' = {}
           /\ \A n : n # m => TagsOf(n)' = TagsOf(n)
<1>1. tags' = tags /\ tagged' = {e \in tagged : e[1] # m}
  BY DEF DeleteMemory
<1>2. Known' = Known
  BY <1>1 DEF Known
<1>3. \A n, t : <<n, t>> \in tagged' <=> <<n, t>> \in tagged /\ n # m
  BY <1>1
<1> QED BY <1>1, <1>2, <1>3 DEF TagsOf

\* Names are the same while nodes and edges are.
LEMMA SameTags ==
    ASSUME UNCHANGED <<tags, tagged>>
    PROVE  Known' = Known /\ \A m : TagsOf(m)' = TagsOf(m)
BY DEF Known, TagsOf

(***************************************************************************)
(* Action properties.                                                      *)
(***************************************************************************)
\* A commit is answered OK with its count, or Internal.
LEMMA CommittedReply ==
    ASSUME NEW op, NEW n, Committed(op, n)
    PROVE  /\ reply'.op = op
           /\ \/ reply'.code = "OK" /\ reply'.n = n
              \/ reply'.code = "Internal"
BY DEF Committed, Reply

\* Another reply says what it says.
LEMMA UncommittedReply ==
    ASSUME NEW op, NEW code, Reply(op, code, 0)
    PROVE  reply'.op = op /\ reply'.code = code
BY DEF Reply

\* The tool that made the reply.
LEMMA WhoReplied ==
    /\ \A m, S : AddMemory(m, S) => reply'.op = "add_memory"
    /\ \A m : DeleteMemory(m) => reply'.op = "delete_memory"
    /\ \A m, n, l : LinkMemories(m, n, l) => reply'.op = "link_memories"
    /\ \A m, n, l : DeleteRelationship(m, n, l) => reply'.op = "delete_relationship"
    /\ \A m, f : AddCodeRef(m, f) => reply'.op = "add_code_ref"
    /\ \A s : DeleteTag(s) => reply'.op = "delete_tag"
    /\ \A c, s, d : RenameCheck(c, s, d) => /\ reply'.op \in {"update_tag", "none"}
                                            /\ UNCHANGED graph
                                            /\ reply'.op = "update_tag" =>
                                                   reply'.code = "InvalidArgument"
    /\ \A c : RenameCommit(c) => reply'.op = "update_tag"
    /\ \A s, d : MergeTags(s, d) => reply'.op = "merge_tags"
    /\ \A op : Refuse(op) => reply'.code = "InvalidArgument" /\ UNCHANGED graph
    /\ \A op : DbFails(op) => reply'.code = "Internal" /\ UNCHANGED graph
    /\ \A c : RenameFails(c) => reply'.code = "Internal" /\ UNCHANGED graph
<1>1. \A m, S : AddMemory(m, S) => reply'.op = "add_memory"
  BY CommittedReply DEF AddMemory
<1>2. \A m : DeleteMemory(m) => reply'.op = "delete_memory"
  BY CommittedReply, UncommittedReply DEF DeleteMemory
<1>3. \A m, n, l : LinkMemories(m, n, l) => reply'.op = "link_memories"
  BY CommittedReply, UncommittedReply DEF LinkMemories
<1>4. \A m, n, l : DeleteRelationship(m, n, l) => reply'.op = "delete_relationship"
  BY CommittedReply, UncommittedReply DEF DeleteRelationship
<1>5. \A m, f : AddCodeRef(m, f) => reply'.op = "add_code_ref"
  BY CommittedReply, UncommittedReply DEF AddCodeRef
<1>6. \A s : DeleteTag(s) => reply'.op = "delete_tag"
  BY CommittedReply, UncommittedReply DEF DeleteTag
<1>7. \A c, s, d : RenameCheck(c, s, d) => /\ reply'.op \in {"update_tag", "none"}
                                           /\ UNCHANGED graph
                                           /\ reply'.op = "update_tag" =>
                                                  reply'.code = "InvalidArgument"
  BY DEF RenameCheck, Reply, NoReply
<1>8. \A c : RenameCommit(c) => reply'.op = "update_tag"
  BY CommittedReply, UncommittedReply DEF RenameCommit
<1>9. \A s, d : MergeTags(s, d) => reply'.op = "merge_tags"
  BY CommittedReply, UncommittedReply DEF MergeTags
<1>10. /\ \A op : Refuse(op) => reply'.code = "InvalidArgument" /\ UNCHANGED graph
       /\ \A op : DbFails(op) => reply'.code = "Internal" /\ UNCHANGED graph
       /\ \A c : RenameFails(c) => reply'.code = "Internal" /\ UNCHANGED graph
  BY UncommittedReply DEF Refuse, DbFails, RenameFails
<1> QED BY <1>1, <1>2, <1>3, <1>4, <1>5, <1>6, <1>7, <1>8, <1>9, <1>10

\* The graph changes only where a transaction committed.
LEMMA NoEffectOnError ==
    ASSUME Next, reply'.code \notin {"OK", "Internal"}
    PROVE  UNCHANGED graph
<1>1. \A op, n : ~Committed(op, n)
  BY CommittedReply
<1>2. ASSUME NEW m \in Mems, NEW S \in SUBSET Spellings, AddMemory(m, S)
      PROVE  UNCHANGED graph
  BY <1>1, <1>2 DEF AddMemory
<1>3. ASSUME NEW m \in Mems, DeleteMemory(m) PROVE UNCHANGED graph
  BY <1>1, <1>3 DEF DeleteMemory, graph
<1>4. ASSUME NEW m \in Mems, NEW n \in Mems, NEW l \in Labels,
             LinkMemories(m, n, l) \/ DeleteRelationship(m, n, l)
      PROVE  UNCHANGED graph
  BY <1>1, <1>4 DEF LinkMemories, DeleteRelationship, graph
<1>5. ASSUME NEW m \in Mems, NEW f \in Refs, AddCodeRef(m, f) PROVE UNCHANGED graph
  BY <1>1, <1>5 DEF AddCodeRef, graph
<1>6. ASSUME NEW s \in Spellings, DeleteTag(s) PROVE UNCHANGED graph
  BY <1>1, <1>6 DEF DeleteTag, graph
<1>7. ASSUME NEW c \in Clients, RenameCommit(c) PROVE UNCHANGED graph
  BY <1>1, <1>7 DEF RenameCommit, graph
<1>8. ASSUME NEW s \in Spellings, NEW d \in Spellings, MergeTags(s, d)
      PROVE  UNCHANGED graph
  BY <1>1, <1>8 DEF MergeTags, graph
<1> QED BY <1>2, <1>3, <1>4, <1>5, <1>6, <1>7, <1>8, WhoReplied DEF Next

\* A reply that blames the caller's arguments left the graph as it was.
THEOREM ErrorsChangeNothing == Spec => ClientErrorsChangeNothing
<1>1. [Next]_vars =>
          [reply'.code \notin {"OK", "Internal"} => UNCHANGED graph]_vars
  BY NoEffectOnError
<1> QED BY <1>1, PTL DEF Spec, ClientErrorsChangeNothing

\* What may become of links and code references in a step.
LinkStep ==
    /\ \A e \in relates \ relates' :
           \/ {e[1], e[3]} \ mems' # {}
           \/ reply'.op = "delete_relationship" /\ relates \ relates' = {e}
    /\ \A e \in refers \ refers' : e[1] \notin mems'
    /\ reply'.op = "delete_relationship" /\ reply'.code = "OK"
           => relates \ relates' # {}

\* No step removes a link or code reference it should not, or says that it
\* removed a link when it did not.
LEMMA LinksStayStep == ASSUME IndInv, Next PROVE LinkStep
<1>1. ASSUME relates \subseteq relates', refers \subseteq refers',
             reply'.op # "delete_relationship" \/ reply'.code # "OK"
      PROVE  LinkStep
  BY <1>1 DEF LinkStep
<1>2. ASSUME UNCHANGED graph,
             reply'.op # "delete_relationship" \/ reply'.code # "OK"
      PROVE  LinkStep
  BY <1>1, <1>2 DEF graph
<1>3. ASSUME NEW m \in Mems, DeleteMemory(m) PROVE LinkStep
  <2>0. reply'.op = "delete_memory"
    BY <1>3, WhoReplied
  <2>1. CASE m \notin mems
    BY <1>1, <1>3, <2>0, <2>1 DEF DeleteMemory
  <2>2. CASE m \in mems
    <3>1. /\ mems' = mems \ {m}
          /\ relates' = {e \in relates : m \notin {e[1], e[3]}}
          /\ refers' = {e \in refers : e[1] # m}
      BY <1>3, <2>2 DEF DeleteMemory
    <3> QED BY <2>0, <3>1 DEF LinkStep
  <2> QED BY <2>1, <2>2
<1>4. ASSUME NEW m \in Mems, NEW n \in Mems, NEW l \in Labels,
             DeleteRelationship(m, n, l)
      PROVE  LinkStep
  <2>1. CASE <<m, l, n>> \notin relates
    <3>1. Reply("delete_relationship", "RelationshipNotFound", 0)
          /\ UNCHANGED <<relates, refers>>
      BY <1>4, <2>1 DEF DeleteRelationship
    <3> QED BY <1>1, <3>1, UncommittedReply
  <2>2. CASE <<m, l, n>> \in relates
    <3>1. relates' = relates \ {<<m, l, n>>} /\ refers' = refers
      BY <1>4, <2>2 DEF DeleteRelationship
    <3>2. relates \ relates' = {<<m, l, n>>}
      BY <2>2, <3>1
    <3>3. reply'.op = "delete_relationship"
      BY <1>4, WhoReplied
    <3> QED BY <3>1, <3>2, <3>3 DEF LinkStep
  <2> QED BY <2>1, <2>2
<1>5. ASSUME NEW m \in Mems, NEW S \in SUBSET Spellings, AddMemory(m, S) PROVE LinkStep
  BY <1>1, <1>5, WhoReplied DEF AddMemory
<1>6. ASSUME NEW m \in Mems, NEW n \in Mems, NEW l \in Labels, LinkMemories(m, n, l)
      PROVE  LinkStep
  BY <1>1, <1>6, WhoReplied DEF LinkMemories
<1>7. ASSUME NEW m \in Mems, NEW f \in Refs, AddCodeRef(m, f) PROVE LinkStep
  BY <1>1, <1>7, WhoReplied DEF AddCodeRef
<1>8. ASSUME NEW s \in Spellings, DeleteTag(s) PROVE LinkStep
  BY <1>1, <1>8, WhoReplied DEF DeleteTag
<1>9. ASSUME NEW c \in Clients, RenameCommit(c) PROVE LinkStep
  BY <1>1, <1>9, WhoReplied DEF RenameCommit
<1>10. ASSUME NEW s \in Spellings, NEW d \in Spellings, MergeTags(s, d) PROVE LinkStep
  BY <1>1, <1>10, WhoReplied DEF MergeTags
<1> QED BY <1>2, <1>3, <1>4, <1>5, <1>6, <1>7, <1>8, <1>9, <1>10, WhoReplied DEF Next

\* Links and code references go only with their memories, or one at a time
\* through delete_relationship, which is answered OK only if it removed one.
THEOREM LinksOnlyGoWhenTold == Spec => LinksStay
<1>1. IndInv /\ [Next]_vars => [LinkStep]_vars
  BY LinksStayStep
<1> QED BY <1>1, Inductive, PTL DEF Spec, LinksStay, LinkStep

(***************************************************************************)
(* The tag tools, in terms of names.                                       *)
(***************************************************************************)
\* delete_tag does nothing to the tags, or drops one name.
LEMMA DeleteTagEffect ==
    ASSUME IndInv, NEW s \in Spellings, DeleteTag(s)
    PROVE  \/ UNCHANGED <<tags, tagged>> /\ reply'.code # "OK"
           \/ \E a \in Names :
                  /\ a \in Known /\ Known' = Known \ {a}
                  /\ \A m : TagsOf(m)' = TagsOf(m) \ {a}
                  /\ reply'.code = "OK" => reply'.n = Cardinality(Carriers(Node(a)))
<1> DEFINE a == Norm[s]
<1>1. CASE Node(a) = {}
  BY <1>1, UncommittedReply DEF DeleteTag
<1>2. CASE Node(a) # {}
  <2>1. a \in Names
    BY <1>2, NormType DEF Node
  <2>2. a \in Known
    BY <1>2, KnownNodes DEF IndInv
  <2>3. /\ tags' = [t \in TagNodes |-> IF t \in Node(a) THEN Blank ELSE tags[t]]
        /\ tagged' = {e \in tagged : e[2] \notin Node(a)}
        /\ Committed("delete_tag", Cardinality(Carriers(Node(a))))
    BY <1>2 DEF DeleteTag, DropTag
  <2>4. Known' = Known \ {a} /\ \A m : TagsOf(m)' = TagsOf(m) \ {a}
    BY <2>1, <2>3, DropIsDrop
  <2>5. reply'.code = "OK" => reply'.n = Cardinality(Carriers(Node(a)))
    BY <2>3, CommittedReply
  <2> QED BY <2>1, <2>2, <2>4, <2>5
<1> QED BY <1>1, <1>2

\* update_tag hands a name over to a new one, merge_tags to an old one.
HandOver(a, b) ==
    /\ a # b /\ a \in Known
    /\ Relabelled(a, b)
    /\ reply'.code = "OK" => reply'.n = Cardinality(Carriers(Node(a)))

\* What RenameTag does to tags, and to the reply.
LEMMA RenameEffect ==
    ASSUME IndInv, NEW c \in Clients, RenameCommit(c)
    PROVE  \/ UNCHANGED <<tags, tagged>> /\ reply'.code # "OK"
           \/ \E a, b \in Names : b \notin Known /\ HandOver(a, b)
<1> DEFINE a == renaming[c].old
           b == renaming[c].new
<1>1. a \in Names /\ b \in Names /\ a # b
  BY DEF RenameCommit, IndInv, RenamesSane
<1>2. tagged' = tagged
  BY DEF RenameCommit
<1>3. CASE UNCHANGED tags /\ (Reply("update_tag", "TagNotFound", 0)
                              \/ Reply("update_tag", "Internal", 0))
  BY <1>2, <1>3, UncommittedReply
<1>4. CASE /\ Node(a) # {} /\ Node(b) = {}
           /\ tags' = [t \in TagNodes |-> IF t \in Node(a) THEN b ELSE tags[t]]
           /\ Committed("update_tag", Cardinality(Carriers(Node(a))))
  <2>1. a \in Known /\ b \notin Known
    BY <1>4, KnownNodes DEF IndInv
  <2>2. Relabelled(a, b)
    BY <1>1, <1>2, <1>4, RenameRelabels
  <2>3. reply'.code = "OK" => reply'.n = Cardinality(Carriers(Node(a)))
    BY <1>4, CommittedReply
  <2> QED BY <1>1, <2>1, <2>2, <2>3 DEF HandOver
<1> QED BY <1>3, <1>4 DEF RenameCommit

\* What MergeTags does to tags, and to the reply.
LEMMA MergeEffect ==
    ASSUME IndInv, NEW s \in Spellings, NEW d \in Spellings, MergeTags(s, d)
    PROVE  \/ UNCHANGED <<tags, tagged>> /\ reply'.code # "OK"
           \/ \E a, b \in Names : b \in Known /\ HandOver(a, b)
<1> DEFINE a == Norm[s]
           b == Norm[d]
<1>1. CASE UNCHANGED <<tags, tagged>> /\ (Reply("merge_tags", "InvalidArgument", 0)
                                          \/ Reply("merge_tags", "TagNotFound", 0))
  BY <1>1, UncommittedReply
<1>2. CASE /\ a # b /\ Node(a) # {} /\ Node(b) # {}
           /\ tags' = [t \in TagNodes |-> IF t \in Node(a) THEN Blank ELSE tags[t]]
           /\ tagged' = {e \in tagged : e[2] \notin Node(a)}
                            \cup (Carriers(Node(a)) \X Node(b))
           /\ Committed("merge_tags", Cardinality(Carriers(Node(a))))
  <2>1. a \in Names /\ b \in Names
    BY <1>2, NormType DEF Node
  <2>2. a \in Known /\ b \in Known
    BY <1>2, KnownNodes DEF IndInv
  <2>3. Relabelled(a, b)
    BY <1>2, <2>1, MergeRelabels
  <2>4. reply'.code = "OK" => reply'.n = Cardinality(Carriers(Node(a)))
    BY <1>2, CommittedReply
  <2> QED BY <1>2, <2>1, <2>2, <2>3, <2>4 DEF HandOver
<1> QED BY <1>1, <1>2 DEF MergeTags

\* The memories whose tags a drop or a hand-over changes are those that
\* carried the name.
Changed == {m \in mems : TagsOf(m)' # TagsOf(m)}

\* The memories whose tags change are the carriers of the tag.
LEMMA ChangedAreCarriers ==
    ASSUME IndInv, NEW a \in Names,
           \/ \A m : TagsOf(m)' = TagsOf(m) \ {a}
           \/ \E b : a # b /\ Relabelled(a, b)
    PROVE  Changed = Carriers(Node(a))
<1>1. ASSUME NEW m \in mems PROVE TagsOf(m)' # TagsOf(m) <=> a \in TagsOf(m)
  <2>1. CASE \A n : TagsOf(n)' = TagsOf(n) \ {a}
    BY <2>1
  <2>2. CASE \E b : a # b /\ Relabelled(a, b)
    BY <2>2 DEF Relabelled
  <2> QED BY <2>1, <2>2
<1>2. Carriers(Node(a)) = {m \in mems : a \in TagsOf(m)}
  BY CarrierHasTag
<1> QED BY <1>1, <1>2 DEF Changed

\* The count replied is the number of memories changed.
LEMMA AffectedStep ==
    ASSUME IndInv, Next, reply'.op \in {"delete_tag", "update_tag", "merge_tags"},
           reply'.code = "OK"
    PROVE  reply'.n = Cardinality(Changed)
<1>1. ASSUME NEW s \in Spellings, DeleteTag(s) PROVE reply'.n = Cardinality(Changed)
  BY <1>1, DeleteTagEffect, ChangedAreCarriers
<1>2. ASSUME NEW a \in Names, NEW b \in Names, HandOver(a, b)
      PROVE  reply'.n = Cardinality(Changed)
  BY <1>2, ChangedAreCarriers DEF HandOver
<1>3. ASSUME NEW c \in Clients, RenameCommit(c) PROVE reply'.n = Cardinality(Changed)
  BY <1>2, <1>3, RenameEffect
<1>4. ASSUME NEW s \in Spellings, NEW d \in Spellings, MergeTags(s, d)
      PROVE  reply'.n = Cardinality(Changed)
  BY <1>2, <1>4, MergeEffect
<1> QED BY <1>1, <1>3, <1>4, WhoReplied DEF Next

\* memories_affected is the number of memories whose tags the call changed.
THEOREM CountsAreTruthful == Spec => AffectedIsTruthful
<1>1. IndInv /\ [Next]_vars =>
          [ reply'.op \in {"delete_tag", "update_tag", "merge_tags"} /\ reply'.code = "OK"
            => reply'.n = Cardinality(Changed) ]_vars
  BY AffectedStep
<1> QED BY <1>1, Inductive, PTL DEF Spec, AffectedIsTruthful, Changed

\* The names in use are finitely many.
LEMMA KnownFinite == ASSUME IndInv PROVE IsFiniteSet(Known)
<1>1. IsFiniteSet(TagNodes) /\ tags \in [TagNodes -> Names \cup {Blank}]
  BY GraphConstantsOK DEF GraphConstantsOK, IndInv, TypeOK
<1>2. tags \in Surjection(TagNodes, Range(tags))
  BY <1>1, Fun_RangeProperties
<1>3. IsFiniteSet(Range(tags))
  BY <1>1, <1>2, FS_Surjection
<1>4. Known \subseteq Range(tags)
  BY <1>1 DEF Known, Range
<1> QED BY <1>3, <1>4, FS_Subset

\* Replacing one name by one that is not there keeps the number of names.
LEMMA ReplacedCardinality ==
    ASSUME NEW S, IsFiniteSet(S), NEW a \in S, NEW b, b \notin S
    PROVE  Cardinality((S \ {a}) \cup {b}) = Cardinality(S)
<1>1. IsFiniteSet(S \ {a}) /\ Cardinality(S \ {a}) = Cardinality(S) - 1
  BY FS_RemoveElement
<1>2. Cardinality((S \ {a}) \cup {b}) = Cardinality(S \ {a}) + 1
  BY <1>1, FS_AddElement
<1> QED BY <1>1, <1>2, FS_CardinalityType

NothingMerged ==
    /\ Cardinality(Known') = Cardinality(Known)
    /\ \A m \in mems : Cardinality(TagsOf(m)') = Cardinality(TagsOf(m))

\* A rename merges nothing.
LEMMA NeverMergesStep ==
    ASSUME IndInv, Next, reply'.op = "update_tag"
    PROVE  NothingMerged
<1>1. ASSUME UNCHANGED <<tags, tagged>> PROVE NothingMerged
  <2>1. Known' = Known /\ \A m : TagsOf(m)' = TagsOf(m)
    BY <1>1, SameTags
  <2> QED BY <2>1 DEF NothingMerged
<1>2. ASSUME NEW a \in Names, NEW b \in Names, b \notin Known, HandOver(a, b)
      PROVE  NothingMerged
  <2>1. a \in Known /\ Known' = (Known \ {a}) \cup {b}
    BY <1>2 DEF HandOver, Relabelled
  <2>2. Cardinality(Known') = Cardinality(Known)
    BY <1>2, <2>1, KnownFinite, ReplacedCardinality
  <2>3. ASSUME NEW m \in mems PROVE Cardinality(TagsOf(m)') = Cardinality(TagsOf(m))
    <3>1. CASE a \notin TagsOf(m)
      BY <1>2, <3>1 DEF HandOver, Relabelled
    <3>2. CASE a \in TagsOf(m)
      <4>1. TagsOf(m)' = (TagsOf(m) \ {a}) \cup {b}
        BY <1>2, <3>2 DEF HandOver, Relabelled
      <4>2. TagsOf(m) \subseteq Known
        BY CarrierHasTag, <1>2
      <4>3. IsFiniteSet(TagsOf(m)) /\ b \notin TagsOf(m)
        BY <1>2, <4>2, KnownFinite, FS_Subset
      <4> QED BY <3>2, <4>1, <4>3, ReplacedCardinality
    <3> QED BY <3>1, <3>2
  <2> QED BY <2>2, <2>3 DEF NothingMerged
<1>3. ASSUME NEW c \in Clients, RenameCommit(c) PROVE NothingMerged
  BY <1>1, <1>2, <1>3, RenameEffect
<1>4. ASSUME UNCHANGED graph PROVE NothingMerged
  BY <1>1, <1>4 DEF graph
<1> QED BY <1>3, <1>4, WhoReplied DEF Next

\* update_tag never folds one tag into another, whatever happens between its
\* two transactions.
THEOREM RenamesKeepTagsApart == Spec => RenameNeverMerges
<1>1. IndInv /\ [Next]_vars => [reply'.op = "update_tag" => NothingMerged]_vars
  BY NeverMergesStep
<1> QED BY <1>1, Inductive, PTL DEF Spec, RenameNeverMerges, NothingMerged

(***************************************************************************)
(* The reads.                                                              *)
(***************************************************************************)
\* A set is as large as one it is mapped onto one to one.
LEMMA SameSize ==
    ASSUME NEW S, NEW T, IsFiniteSet(S), NEW f \in [S -> T],
           \A x, y \in S : f[x] = f[y] => x = y,
           \A z \in T : \E x \in S : f[x] = z
    PROVE  Cardinality(T) = Cardinality(S)
<1>1. f \in Bijection(S, T)
  BY Fun_IsBij
<1>2. ExistsBijection(S, T)
  BY <1>1 DEF ExistsBijection
<1> QED BY <1>2, FS_Bijection

\* The count of a tag is the number of memories that show it.
LEMMA TagCount ==
    ASSUME IndInv, NEW a \in Names, a \in Known
    PROVE  Cardinality({e \in tagged : tags[e[2]] = a})
               = Cardinality({m \in mems : a \in TagsOf(m)})
<1> DEFINE S == {m \in mems : a \in TagsOf(m)}
           E == {e \in tagged : tags[e[2]] = a}
<1>1. PICK t \in TagNodes : tags[t] = a /\ a # Blank
  BY DEF Known
<1>2. \A u \in TagNodes : tags[u] = a <=> u = t
  BY <1>1 DEF IndInv, UniqueNames
<1>3. \A m : a \in TagsOf(m) <=> <<m, t>> \in tagged
  BY <1>2 DEF TagsOf
<1>4. S = {m \in mems : <<m, t>> \in tagged}
  BY <1>3
<1>5. E = {<<m, t>> : m \in S}
  <2>1. \A e \in tagged : e = <<e[1], e[2]>> /\ e[1] \in mems /\ e[2] \in TagNodes
    BY EdgeShapes DEF IndInv
  <2> QED BY <1>2, <1>4, <2>1
<1>6. IsFiniteSet(S)
  BY CarriersFinite, FS_Subset DEF IndInv
<1> HIDE DEF S, E
<1> DEFINE f == [m \in S |-> <<m, t>>]
<1>7. f \in [S -> E] /\ \A m \in S : f[m] = <<m, t>>
  BY <1>5
<1>8. \A m, n \in S : f[m] = f[n] => m = n
  BY <1>7
<1>9. \A e \in E : \E m \in S : f[m] = e
  BY <1>5, <1>7
<1> HIDE DEF f
<1>10. Cardinality(E) = Cardinality(S)
  BY <1>6, <1>7, <1>8, <1>9, SameSize
<1> QED BY <1>10 DEF S, E

\* The count of a label is the number of links that are shown with it.
LEMMA LabelCount ==
    ASSUME IndInv, NEW l
    PROVE  Cardinality({e \in relates : e[2] = l})
               = Cardinality({p \in mems \X mems : <<p[1], l, p[2]>> \in relates})
<1> DEFINE P == {p \in mems \X mems : <<p[1], l, p[2]>> \in relates}
           E == {e \in relates : e[2] = l}
<1>1. IsFiniteSet(mems \X mems)
  BY CarriersFinite, FS_Product DEF IndInv
<1>2. IsFiniteSet(P)
  BY <1>1, FS_Subset
<1>3. E = {<<p[1], l, p[2]>> : p \in P}
  <2>1. ASSUME NEW e \in E PROVE \E p \in P : e = <<p[1], l, p[2]>>
    <3>1. e = <<e[1], l, e[3]>> /\ e[1] \in mems /\ e[3] \in mems /\ e \in relates
      BY EdgeShapes DEF IndInv
    <3>2. <<e[1], e[3]>> \in P
      BY <3>1
    <3> QED BY <3>1, <3>2
  <2>2. \A p \in P : <<p[1], l, p[2]>> \in E
    OBVIOUS
  <2> QED BY <2>1, <2>2
<1>4. \A p, q \in P : <<p[1], l, p[2]>> = <<q[1], l, q[2]>> => p = q
  OBVIOUS
<1> HIDE DEF P, E
<1> DEFINE f == [p \in P |-> <<p[1], l, p[2]>>]
<1>5. f \in [P -> E] /\ \A p \in P : f[p] = <<p[1], l, p[2]>>
  BY <1>3
<1>6. \A p, q \in P : f[p] = f[q] => p = q
  BY <1>4, <1>5
<1>7. \A e \in E : \E p \in P : f[p] = e
  BY <1>3, <1>5
<1> HIDE DEF f
<1>8. Cardinality(E) = Cardinality(P)
  BY <1>2, <1>5, <1>6, <1>7, SameSize
<1> QED BY <1>8 DEF P, E

\* What get_memory shows, edge by edge.
LEMMA Shown ==
    ASSUME IndInv
    PROVE  /\ \A m : Detail(m).tags = TagsOf(m)
           /\ \A m, n, l : [id |-> n, label |-> l] \in Detail(m).outgoing
                               <=> <<m, l, n>> \in relates
           /\ \A m, n, l : [id |-> n, label |-> l] \in Detail(m).incoming
                               <=> <<n, l, m>> \in relates
           /\ \A m, f : f \in Detail(m).codeRefs <=> <<m, f>> \in refers
<1>1. \A m : /\ Detail(m).tags = TagsOf(m)
             /\ Detail(m).outgoing =
                    {[id |-> e[3], label |-> e[2]] : e \in {e \in relates : e[1] = m}}
             /\ Detail(m).incoming =
                    {[id |-> e[1], label |-> e[2]] : e \in {e \in relates : e[3] = m}}
             /\ Detail(m).codeRefs = {e[2] : e \in {e \in refers : e[1] = m}}
  BY DEF Detail
<1>2. \A m, n, l : [id |-> n, label |-> l] \in Detail(m).outgoing
                       <=> \E e \in relates : e[1] = m /\ e[3] = n /\ e[2] = l
  BY <1>1
<1>3. \A m, n, l : [id |-> n, label |-> l] \in Detail(m).incoming
                       <=> \E e \in relates : e[3] = m /\ e[1] = n /\ e[2] = l
  BY <1>1
<1>4. \A m, n, l : (\E e \in relates : e[1] = m /\ e[3] = n /\ e[2] = l)
                       <=> <<m, l, n>> \in relates
  BY EdgeShapes DEF IndInv
<1>5. \A m, f : f \in Detail(m).codeRefs <=> <<m, f>> \in refers
  BY <1>1, EdgeShapes DEF IndInv
<1> QED BY <1>1, <1>2, <1>3, <1>4, <1>5

\* In a graph with unique names and no dangling edge the reads agree.
LEMMA ReadsAgreeInv == ASSUME IndInv PROVE ReadsAgree
<1>1. \A r \in ListTags :
          /\ r.name \in Known
          /\ r.count = Cardinality({e \in tagged : tags[e[2]] = r.name})
          /\ r = [name |-> r.name, count |-> r.count]
  <2> SUFFICES ASSUME NEW r \in ListTags
               PROVE  /\ r.name \in Known
                      /\ r.count = Cardinality({e \in tagged : tags[e[2]] = r.name})
                      /\ r = [name |-> r.name, count |-> r.count]
    OBVIOUS
  <2>1. PICK a \in Known :
            r = [name |-> a, count |-> Cardinality({e \in tagged : tags[e[2]] = a})]
    BY DEF ListTags
  <2>2. r.name = a /\ r.count = Cardinality({e \in tagged : tags[e[2]] = a})
    BY <2>1
  <2> QED BY <2>1, <2>2
<1>2. ASSUME NEW r \in ListTags, NEW q \in ListTags, r.name = q.name PROVE r = q
  <2>1. r.count = q.count
    BY <1>1, <1>2
  <2>2. r = [name |-> r.name, count |-> r.count] /\ q = [name |-> r.name, count |-> r.count]
    BY <1>1, <1>2, <2>1, Zenon
  <2> QED BY <2>2
<1>3. ASSUME NEW a \in Names
      PROVE  LET shown == {m \in mems : a \in Detail(m).tags} IN
             /\ shown # {} => a \in {r.name : r \in ListTags}
             /\ \A r \in ListTags : r.name = a => r.count = Cardinality(shown)
  <2> DEFINE shown == {m \in mems : a \in Detail(m).tags}
  <2>1. shown = {m \in mems : a \in TagsOf(m)}
    BY Shown
  <2>2. ASSUME shown # {} PROVE a \in {r.name : r \in ListTags}
    <3>1. a \in Known
      BY <2>1, <2>2, CarrierHasTag
    <3>2. [name |-> a, count |-> Cardinality({e \in tagged : tags[e[2]] = a})] \in ListTags
      BY <3>1 DEF ListTags
    <3> QED BY <3>2
  <2>3. ASSUME NEW r \in ListTags, r.name = a PROVE r.count = Cardinality(shown)
    <3>1. a \in Known /\ r.count = Cardinality({e \in tagged : tags[e[2]] = a})
      BY <1>1, <2>3
    <3> QED BY <2>1, <3>1, TagCount
  <2> QED BY <2>2, <2>3
<1>4. \A m, n \in mems, l \in Labels :
          [id |-> n, label |-> l] \in Detail(m).outgoing
              <=> [id |-> m, label |-> l] \in Detail(n).incoming
  BY Shown
<1>5. ASSUME NEW r \in ListRelationships
      PROVE  r.count = Cardinality({p \in mems \X mems :
                 [id |-> p[2], label |-> r.label] \in Detail(p[1]).outgoing})
  <2>1. PICK l : r = [label |-> l, count |-> Cardinality({e \in relates : e[2] = l})]
    BY DEF ListRelationships
  <2>2. r.label = l /\ r.count = Cardinality({e \in relates : e[2] = l})
    BY <2>1
  <2>3. {p \in mems \X mems : [id |-> p[2], label |-> r.label] \in Detail(p[1]).outgoing}
            = {p \in mems \X mems : <<p[1], l, p[2]>> \in relates}
    BY <2>2, Shown
  <2> QED BY <2>2, <2>3, LabelCount
<1>6. \A f \in Refs :
          FindByCode(f.at) = {m \in mems : \E g \in Detail(m).codeRefs : g.at = f.at}
  <2>1. \A m, f : <<m, f>> \in refers => f \in refs
    BY DEF IndInv, TypeOK
  <2> QED BY <2>1, Shown DEF FindByCode
<1> QED BY <1>2, <1>3, <1>4, <1>5, <1>6 DEF ReadsAgree

\* The reads of one graph agree with each other.
THEOREM ReadsAlwaysAgree == Spec => []ReadsAgree
BY ReadsAgreeInv, Inductive, PTL

(***************************************************************************)
(* Refinement.                                                             *)
(***************************************************************************)
\* Steps that leave the names alone are steps of the book.
LEMMA SameBook ==
    ASSUME UNCHANGED <<tags, tagged>>, reply' \in ReplyType
    PROVE  Book!Nothing
<1>1. Known' = Known /\ \A m : TagsOf(m)' = TagsOf(m)
  BY SameTags
<1>2. [m \in Mems |-> TagsOf(m)]' = [m \in Mems |-> TagsOf(m)]
  BY <1>1
<1>3. reply'.op \in Ops \cup {"none"}
  BY DEF ReplyType
<1> QED BY <1>1, <1>2, <1>3 DEF Book!Nothing, Book!book

\* Every step is one of the abstract tag store.
LEMMA BookStep ==
    ASSUME IndInv, Next
    PROVE  Book!BookNext
<1> DEFINE has == [m \in Mems |-> TagsOf(m)]
<1>1. reply' \in ReplyType
  BY StepOK DEF IndInv, TypeOK, ReplyType
<1>2. ASSUME UNCHANGED <<tags, tagged>> PROVE Book!BookNext
  BY <1>1, <1>2, SameBook DEF Book!BookNext
<1>3. ASSUME NEW m \in Mems, NEW S \in SUBSET Spellings, AddMemory(m, S)
      PROVE  Book!BookNext
  <2>1. /\ Known' = Known \cup Normalized(S)
        /\ TagsOf(m) = {} /\ TagsOf(m)' = Normalized(S)
        /\ \A n : n # m => TagsOf(n)' = TagsOf(n)
    BY <1>3, AddTags
  <2>2. has' = [has EXCEPT ![m] = Normalized(S)]
    BY <2>1
  <2>3. reply'.op = "add_memory"
    BY <1>3, WhoReplied
  <2>4. Book!Tag(m, Normalized(S))
    BY <2>1, <2>2, <2>3 DEF Book!Tag
  <2>5. Normalized(S) \in SUBSET Names
    BY NormalizedType
  <2> QED BY <2>4, <2>5 DEF Book!BookNext
<1>4. ASSUME NEW m \in Mems, DeleteMemory(m) PROVE Book!BookNext
  <2>1. CASE m \notin mems
    BY <1>2, <1>4, <2>1 DEF DeleteMemory
  <2>2. CASE m \in mems
    <3>1. Known' = Known /\ TagsOf(m)' = {} /\ \A n : n # m => TagsOf(n)' = TagsOf(n)
      BY <1>4, <2>2, DeleteTags
    <3>2. has' = [has EXCEPT ![m] = {}]
      BY <3>1
    <3>3. reply'.op = "delete_memory"
      BY <1>4, WhoReplied
    <3>4. Book!Forget(m)
      BY <3>1, <3>2, <3>3 DEF Book!Forget
    <3> QED BY <3>4 DEF Book!BookNext
  <2> QED BY <2>1, <2>2
<1>5. ASSUME NEW s \in Spellings, DeleteTag(s) PROVE Book!BookNext
  <2>1. ASSUME NEW a \in Names, a \in Known, Known' = Known \ {a},
               \A m : TagsOf(m)' = TagsOf(m) \ {a}
        PROVE  Book!BookNext
    <3>1. has' = [m \in Mems |-> has[m] \ {a}]
      BY <2>1
    <3>2. reply'.op = "delete_tag"
      BY <1>5, WhoReplied
    <3>3. Book!Drop(a)
      BY <2>1, <3>1, <3>2 DEF Book!Drop
    <3> QED BY <3>3 DEF Book!BookNext
  <2> QED BY <1>2, <1>5, <2>1, DeleteTagEffect
<1>6. ASSUME NEW a \in Names, NEW b \in Names, HandOver(a, b),
             reply'.op = IF b \in Known THEN "merge_tags" ELSE "update_tag"
      PROVE  Book!BookNext
  <2>1. a # b /\ a \in Known /\ Known' = (Known \ {a}) \cup {b}
    BY <1>6 DEF HandOver, Relabelled
  <2>2. has' = [m \in Mems |-> IF a \in has[m] THEN (has[m] \ {a}) \cup {b} ELSE has[m]]
    BY <1>6 DEF HandOver, Relabelled
  <2>3. Book!Relabel(a, b)
    BY <1>6, <2>1, <2>2 DEF Book!Relabel
  <2> QED BY <2>1, <2>3 DEF Book!BookNext
<1>7. ASSUME NEW c \in Clients, RenameCommit(c) PROVE Book!BookNext
  BY <1>2, <1>6, <1>7, RenameEffect, WhoReplied
<1>8. ASSUME NEW s \in Spellings, NEW d \in Spellings, MergeTags(s, d)
      PROVE  Book!BookNext
  BY <1>2, <1>6, <1>8, MergeEffect, WhoReplied
<1>9. ASSUME NEW m \in Mems, NEW n \in Mems, NEW l \in Labels,
             LinkMemories(m, n, l) \/ DeleteRelationship(m, n, l)
      PROVE  Book!BookNext
  BY <1>2, <1>9 DEF LinkMemories, DeleteRelationship
<1>10. ASSUME NEW m \in Mems, NEW f \in Refs, AddCodeRef(m, f) PROVE Book!BookNext
  BY <1>2, <1>10 DEF AddCodeRef
<1>11. ASSUME UNCHANGED graph PROVE Book!BookNext
  BY <1>2, <1>11 DEF graph
<1> QED BY <1>3, <1>4, <1>5, <1>7, <1>8, <1>9, <1>10, <1>11, WhoReplied DEF Next

\* To its clients the graph is a book of tags: every step of it is one call of
\* the abstract tag store, or changes nothing there.
THEOREM RefinesTagBook == Spec => TagsAreABook
<1> DEFINE bookVars == <<<<Known, [m \in Mems |-> TagsOf(m)]>>, reply.op>>
<1>1. Init => Book!BookInit
  BY GraphConstantsOK DEF Init, Book!BookInit, Known, TagsOf, NoReply
<1>2. IndInv /\ [Next]_vars => [Book!BookNext]_bookVars
  <2>1. CASE UNCHANGED vars
    <3>1. Known' = Known /\ \A m : TagsOf(m)' = TagsOf(m)
      BY <2>1, SameTags DEF vars, graph
    <3>2. [m \in Mems |-> TagsOf(m)]' = [m \in Mems |-> TagsOf(m)]
      BY <3>1
    <3> QED BY <2>1, <3>1, <3>2 DEF vars
  <2> QED BY <2>1, BookStep
<1> QED BY <1>1, <1>2, Inductive, PTL DEF Spec, TagsAreABook, Book!BookSpec, Book!book
=============================================================================
