---------------------------- MODULE MemoryGraph ----------------------------
(***************************************************************************)
(* The graph in Neo4j and the tools that write it.                         *)
(*                                                                         *)
(* internal/memory/repository.go runs every operation as one ExecuteQuery, *)
(* that is one transaction, except RenameTag, which runs two.  A tool      *)
(* handler of internal/mcp/tools.go validates its arguments, makes the     *)
(* call and maps the error to a code.  Clients are concurrent requests (of *)
(* one instance or of several): an action is one transaction together with *)
(* the reply the handler makes of it.                                      *)
(*                                                                         *)
(* A transaction whose commit is not acknowledged leaves the client with   *)
(* an Internal error and the graph changed.  Contents, timestamps and      *)
(* embeddings are left out; the pool of embeddings is module Reembed.      *)
(***************************************************************************)
EXTENDS Naturals, FiniteSets

CONSTANTS
    Clients,    \* requests in flight
    Mems,       \* memory ids
    TagNodes,   \* identities of Tag nodes
    Names,      \* tag names as NormalizeTagName returns them
    Spellings,  \* tag names as clients write them
    Norm,       \* NormalizeTagName: each spelling's name, or Blank
    Blank,      \* the empty string
    Labels,     \* relationship labels
    Refs,       \* (repo, path, sha, line) tuples
    DbFaults    \* whether transactions may fail

ASSUME GraphConstantsOK ==
    /\ Blank \notin Names
    /\ Norm \in [Spellings -> Names \cup {Blank}]
    /\ DbFaults \in BOOLEAN
    /\ IsFiniteSet(Mems) /\ IsFiniteSet(TagNodes)   \* ids are of a fixed width

VARIABLES
    mems,       \* Memory nodes
    used,       \* ghost: ids minted so far
    tags,       \* Tag nodes: each node's name, Blank for a node not there
    tagged,     \* TAGGED_WITH edges
    relates,    \* RELATES_TO edges
    refs,       \* CodeRef nodes
    refers,     \* REFERENCES_CODE edges
    renaming,   \* each client's RenameTag between its two transactions
    reply       \* the reply made in the last step

graph == <<mems, used, tags, tagged, relates, refs, refers>>
vars == <<graph, renaming, reply>>

Idle == [old |-> Blank, new |-> Blank]

Ops == {"add_memory", "delete_memory", "link_memories", "delete_relationship",
        "add_code_ref", "delete_tag", "update_tag", "merge_tags"}

Codes == {"OK", "InvalidArgument", "MemoryNotFound", "TagNotFound",
          "RelationshipNotFound", "Internal"}

\* n is the memories_affected of the tag tools.
NoReply == [op |-> "none", code |-> "OK", n |-> 0]

Reply(op, code, n) == reply' = [op |-> op, code |-> code, n |-> n]

\* A committed transaction: acknowledged, or not.
Committed(op, n) ==
    \/ Reply(op, "OK", n)
    \/ DbFaults /\ Reply(op, "Internal", 0)

Init ==
    /\ mems = {} /\ used = {}
    /\ tags = [t \in TagNodes |-> Blank]
    /\ tagged = {} /\ relates = {} /\ refs = {} /\ refers = {}
    /\ renaming = [c \in Clients |-> Idle]
    /\ reply = NoReply

(***************************************************************************)
(* Queries.                                                                *)
(***************************************************************************)
Node(a) == {t \in TagNodes : tags[t] = a /\ a # Blank}

Known == {tags[t] : t \in TagNodes} \ {Blank}

Carriers(S) == {m \in mems : \E t \in S : <<m, t>> \in tagged}

TagsOf(m) == {tags[t] : t \in {t \in TagNodes : <<m, t>> \in tagged}}

\* Mutant of Detail: the incoming pattern has the outgoing one's direction.
DetailOneWay(m) ==
    [ tags     |-> TagsOf(m),
      outgoing |-> {[id |-> e[3], label |-> e[2]] : e \in {e \in relates : e[1] = m}},
      incoming |-> {[id |-> e[3], label |-> e[2]] : e \in {e \in relates : e[1] = m}},
      codeRefs |-> {e[2] : e \in {e \in refers : e[1] = m}} ]

\* get_memory.
Detail(m) ==
    [ tags     |-> TagsOf(m),
      outgoing |-> {[id |-> e[3], label |-> e[2]] : e \in {e \in relates : e[1] = m}},
      incoming |-> {[id |-> e[1], label |-> e[2]] : e \in {e \in relates : e[3] = m}},
      codeRefs |-> {e[2] : e \in {e \in refers : e[1] = m}} ]

\* list_tags: the edges are counted by the name of their tag.
ListTags ==
    {[name |-> a, count |-> Cardinality({e \in tagged : tags[e[2]] = a})] :
        a \in Known}

ListRelationships ==
    {[label |-> l, count |-> Cardinality({e \in relates : e[2] = l})] :
        l \in {e[2] : e \in relates}}

\* find_by_code: any sha and line of a place.
FindByCode(at) ==
    {m \in mems : \E f \in refs : f.at = at /\ <<m, f>> \in refers}

(***************************************************************************)
(* Memories, relationships and code references.                            *)
(***************************************************************************)
Normalized(S) == {Norm[s] : s \in S} \ {Blank}

\* MERGE (t:Tag {name: a}) for every a in A: names that no node carries get
\* a node of their own.
MergeNodes(A) ==
    /\ tags' \in [TagNodes -> Names \cup {Blank}]
    /\ \A t \in TagNodes :
           IF tags[t] # Blank THEN tags'[t] = tags[t]
           ELSE tags'[t] \in (A \ Known) \cup {Blank}
    /\ \A a \in A \ Known : \E t \in TagNodes : tags'[t] = a
    /\ \A t, u \in TagNodes :
           tags[t] = Blank /\ tags'[t] # Blank /\ tags'[t] = tags'[u] => t = u

AddMemory(m, S) ==
    /\ m \notin used
    /\ used' = used \cup {m}
    /\ mems' = mems \cup {m}
    /\ MergeNodes(Normalized(S))
    /\ tagged' = tagged \cup
           {<<m, t>> : t \in {t \in TagNodes : tags'[t] \in Normalized(S)}}
    /\ Committed("add_memory", 0)
    /\ UNCHANGED <<relates, refs, refers, renaming>>

\* DETACH DELETE m; Tag and CodeRef nodes stay.
DeleteMemory(m) ==
    /\ IF m \in mems
       THEN /\ mems' = mems \ {m}
            /\ tagged' = {e \in tagged : e[1] # m}
            /\ relates' = {e \in relates : m \notin {e[1], e[3]}}
            /\ refers' = {e \in refers : e[1] # m}
            /\ Committed("delete_memory", 0)
       ELSE /\ Reply("delete_memory", "MemoryNotFound", 0)
            /\ UNCHANGED <<mems, tagged, relates, refers>>
    /\ UNCHANGED <<used, tags, refs, renaming>>

\* Mutant of LinkMemories: the ends are merged too, not matched.
LinkMergesEnds(m, n, l) ==
    /\ mems' = mems \cup {m, n}
    /\ relates' = relates \cup {<<m, l, n>>}
    /\ Committed("link_memories", 0)
    /\ UNCHANGED <<used, tags, tagged, refs, refers, renaming>>

\* A MERGE on the whole pattern: links of other labels, and the link back,
\* are links of their own.
LinkMemories(m, n, l) ==
    /\ IF {m, n} \subseteq mems
       THEN /\ relates' = relates \cup {<<m, l, n>>}
            /\ Committed("link_memories", 0)
       ELSE /\ Reply("link_memories", "MemoryNotFound", 0)
            /\ UNCHANGED relates
    /\ UNCHANGED <<mems, used, tags, tagged, refs, refers, renaming>>

\* Mutant of DeleteRelationship: the pattern has no direction.
DeleteBothWays(m, n, l) ==
    /\ LET hit == relates \cap {<<m, l, n>>, <<n, l, m>>} IN
       IF hit # {}
       THEN /\ relates' = relates \ hit
            /\ Committed("delete_relationship", 0)
       ELSE /\ Reply("delete_relationship", "RelationshipNotFound", 0)
            /\ UNCHANGED relates
    /\ UNCHANGED <<mems, used, tags, tagged, refs, refers, renaming>>

DeleteRelationship(m, n, l) ==
    /\ IF <<m, l, n>> \in relates
       THEN /\ relates' = relates \ {<<m, l, n>>}
            /\ Committed("delete_relationship", 0)
       ELSE /\ Reply("delete_relationship", "RelationshipNotFound", 0)
            /\ UNCHANGED relates
    /\ UNCHANGED <<mems, used, tags, tagged, refs, refers, renaming>>

\* Mutant of AddCodeRef: the MERGE of the node comes before the MATCH.
AddCodeRefNodeFirst(m, f) ==
    /\ refs' = refs \cup {f}
    /\ IF m \in mems
       THEN /\ refers' = refers \cup {<<m, f>>}
            /\ Committed("add_code_ref", 0)
       ELSE /\ Reply("add_code_ref", "MemoryNotFound", 0)
            /\ UNCHANGED refers
    /\ UNCHANGED <<mems, used, tags, tagged, relates, renaming>>

\* MATCH the memory, then MERGE the node and the edge.
AddCodeRef(m, f) ==
    /\ IF m \in mems
       THEN /\ refs' = refs \cup {f}
            /\ refers' = refers \cup {<<m, f>>}
            /\ Committed("add_code_ref", 0)
       ELSE /\ Reply("add_code_ref", "MemoryNotFound", 0)
            /\ UNCHANGED <<refs, refers>>
    /\ UNCHANGED <<mems, used, tags, tagged, relates, renaming>>

(***************************************************************************)
(* Tags.                                                                   *)
(***************************************************************************)
\* DETACH DELETE t for the node t called a.
DropTag(a) ==
    /\ tags' = [t \in TagNodes |-> IF t \in Node(a) THEN Blank ELSE tags[t]]
    /\ tagged' = {e \in tagged : e[2] \notin Node(a)}

DeleteTag(s) ==
    LET a == Norm[s] IN
    /\ IF Node(a) # {}
       THEN /\ DropTag(a)
            /\ Committed("delete_tag", Cardinality(Carriers(Node(a))))
       ELSE /\ Reply("delete_tag",
                     IF a = Blank THEN "InvalidArgument" ELSE "TagNotFound", 0)
            /\ UNCHANGED <<tags, tagged>>
    /\ UNCHANGED <<mems, used, relates, refs, refers, renaming>>

\* RenameTag up to and including its first transaction, the exists-check.
RenameCheck(c, s, d) ==
    LET old == Norm[s]
        new == Norm[d]
        refused == Blank \in {old, new} \/ old = new \/ new \in Known
    IN
    /\ renaming[c] = Idle
    /\ IF refused
       THEN /\ Reply("update_tag", "InvalidArgument", 0)
            /\ UNCHANGED renaming
       ELSE /\ renaming' = [renaming EXCEPT ![c] = [old |-> old, new |-> new]]
            /\ reply' = NoReply
    /\ UNCHANGED graph

\* Mutant of RenameCommit: nothing keeps tag names unique.
RenameUnconstrained(c) ==
    LET old == renaming[c].old
        new == renaming[c].new
    IN
    /\ renaming[c] # Idle
    /\ renaming' = [renaming EXCEPT ![c] = Idle]
    /\ IF Node(old) # {}
       THEN /\ tags' = [t \in TagNodes |-> IF t \in Node(old) THEN new ELSE tags[t]]
            /\ Committed("update_tag", Cardinality(Carriers(Node(old))))
       ELSE /\ Reply("update_tag", "TagNotFound", 0)
            /\ UNCHANGED tags
    /\ UNCHANGED <<mems, used, tagged, relates, refs, refers>>

\* RenameTag's second transaction.  If the new name has been taken since the
\* check, the constraint tag_name_unique makes it fail.
RenameCommit(c) ==
    LET old == renaming[c].old
        new == renaming[c].new
    IN
    /\ renaming[c] # Idle
    /\ renaming' = [renaming EXCEPT ![c] = Idle]
    /\ \/ /\ Node(old) = {}
          /\ Reply("update_tag", "TagNotFound", 0)
          /\ UNCHANGED tags
       \/ /\ Node(old) # {} /\ Node(new) # {}
          /\ Reply("update_tag", "Internal", 0)
          /\ UNCHANGED tags
       \/ /\ Node(old) # {} /\ Node(new) = {}
          /\ tags' = [t \in TagNodes |-> IF t \in Node(old) THEN new ELSE tags[t]]
          /\ Committed("update_tag", Cardinality(Carriers(Node(old))))
    /\ UNCHANGED <<mems, used, tagged, relates, refs, refers>>

\* Mutant of MergeTags: the source goes before its carriers are collected.
MergeDeletesFirst(s, d) ==
    LET src == Norm[s]
        dst == Norm[d]
    IN
    /\ src # Blank /\ dst # Blank /\ src # dst
    /\ Node(src) # {} /\ Node(dst) # {}
    /\ DropTag(src)
    /\ Committed("merge_tags", Cardinality(Carriers(Node(src))))
    /\ UNCHANGED <<mems, used, relates, refs, refers, renaming>>

\* Mutant of MergeTags: memories are counted after the rewriting.
MergeCountsTarget(s, d) ==
    LET src == Norm[s]
        dst == Norm[d]
    IN
    /\ src # Blank /\ dst # Blank /\ src # dst
    /\ Node(src) # {} /\ Node(dst) # {}
    /\ tags' = [t \in TagNodes |-> IF t \in Node(src) THEN Blank ELSE tags[t]]
    /\ tagged' = {e \in tagged : e[2] \notin Node(src)}
                     \cup (Carriers(Node(src)) \X Node(dst))
    /\ Committed("merge_tags", Cardinality(Carriers(Node(src) \cup Node(dst))))
    /\ UNCHANGED <<mems, used, relates, refs, refers, renaming>>

\* Every carrier of src is tagged with dst, then src is detached and deleted.
MergeTags(s, d) ==
    LET src == Norm[s]
        dst == Norm[d]
    IN
    /\ \/ /\ Blank \in {src, dst} \/ src = dst
          /\ Reply("merge_tags", "InvalidArgument", 0)
          /\ UNCHANGED <<tags, tagged>>
       \/ /\ Blank \notin {src, dst} /\ src # dst
          /\ Node(src) = {} \/ Node(dst) = {}
          /\ Reply("merge_tags", "TagNotFound", 0)
          /\ UNCHANGED <<tags, tagged>>
       \/ /\ src # dst /\ Node(src) # {} /\ Node(dst) # {}
          /\ tags' = [t \in TagNodes |-> IF t \in Node(src) THEN Blank ELSE tags[t]]
          /\ tagged' = {e \in tagged : e[2] \notin Node(src)}
                           \cup (Carriers(Node(src)) \X Node(dst))
          /\ Committed("merge_tags", Cardinality(Carriers(Node(src))))
    /\ UNCHANGED <<mems, used, relates, refs, refers, renaming>>

(***************************************************************************)
(* Calls that reach no data.                                               *)
(***************************************************************************)
\* An argument is missing, or empty where the repository wants one.
Refuse(op) ==
    /\ Reply(op, "InvalidArgument", 0)
    /\ UNCHANGED <<graph, renaming>>

\* A transaction does not commit.
DbFails(op) ==
    /\ DbFaults
    /\ Reply(op, "Internal", 0)
    /\ UNCHANGED <<graph, renaming>>

\* The second transaction of a RenameTag does not commit.
RenameFails(c) ==
    /\ DbFaults
    /\ renaming[c] # Idle
    /\ renaming' = [renaming EXCEPT ![c] = Idle]
    /\ Reply("update_tag", "Internal", 0)
    /\ UNCHANGED graph

Next ==
    \/ \E m \in Mems, S \in SUBSET Spellings : AddMemory(m, S)
    \/ \E m \in Mems : DeleteMemory(m)
    \/ \E m, n \in Mems, l \in Labels : LinkMemories(m, n, l)
    \/ \E m, n \in Mems, l \in Labels : DeleteRelationship(m, n, l)
    \/ \E m \in Mems, f \in Refs : AddCodeRef(m, f)
    \/ \E s \in Spellings : DeleteTag(s)
    \/ \E c \in Clients, s, d \in Spellings : RenameCheck(c, s, d)
    \/ \E c \in Clients : RenameCommit(c)
    \/ \E c \in Clients : RenameFails(c)
    \/ \E s, d \in Spellings : MergeTags(s, d)
    \/ \E op \in Ops : Refuse(op)
    \/ \E op \in Ops : DbFails(op)

Spec == Init /\ [][Next]_vars

(***************************************************************************)
(* Properties.                                                             *)
(***************************************************************************)
\* Every variable has its type, edges join nodes that are there (Neo4j itself
\* sees to that; the model has to), and no call but add_memory brings a memory
\* about: the others match what they name and do not merge it.
TypeOK ==
    /\ mems \subseteq used /\ used \subseteq Mems
    /\ tags \in [TagNodes -> Names \cup {Blank}]
    /\ \A e \in tagged : e \in mems \X TagNodes /\ tags[e[2]] # Blank
    /\ relates \subseteq mems \X Labels \X mems
    /\ refs \subseteq Refs
    /\ refers \subseteq mems \X refs
    /\ renaming \in [Clients -> [old : Names \cup {Blank}, new : Names \cup {Blank}]]
    /\ reply \in [op : Ops \cup {"none"}, code : Codes, n : Nat]

\* list_tags has one row a name, and its count is the number of memories whose
\* get_memory shows the tag; the same edges are seen from both of their ends by
\* get_memory, and find_by_code finds exactly the memories whose get_memory
\* shows a reference to the place.  (Tag nodes with one name, or edges of
\* forgotten nodes, would make the reads disagree.)
ReadsAgree ==
    /\ \A r, q \in ListTags : r.name = q.name => r = q
    /\ \A a \in Names :
           LET shown == {m \in mems : a \in Detail(m).tags} IN
           /\ shown # {} => a \in {r.name : r \in ListTags}
           /\ \A r \in ListTags : r.name = a => r.count = Cardinality(shown)
    /\ \A m, n \in mems, l \in Labels :
           [id |-> n, label |-> l] \in Detail(m).outgoing
               <=> [id |-> m, label |-> l] \in Detail(n).incoming
    /\ \A r \in ListRelationships :
           r.count = Cardinality({p \in mems \X mems :
               [id |-> p[2], label |-> r.label] \in Detail(p[1]).outgoing})
    /\ \A f \in Refs :
           FindByCode(f.at) = {m \in mems : \E g \in Detail(m).codeRefs : g.at = f.at}

\* memories_affected of delete_tag, update_tag and merge_tags is the number of
\* memories whose tags the call changed.
AffectedIsTruthful ==
    [][ reply'.op \in {"delete_tag", "update_tag", "merge_tags"} /\ reply'.code = "OK"
        => reply'.n = Cardinality({m \in mems : TagsOf(m)' # TagsOf(m)}) ]_vars

\* A reply that blames the caller's arguments left the graph as it was.
ClientErrorsChangeNothing ==
    [][ reply'.code \notin {"OK", "Internal"} => UNCHANGED graph ]_vars

\* A relationship or a code reference goes only when one of its memories does,
\* or one at a time through delete_relationship, whatever other relationships
\* of other labels or of the other direction join the same memories; and a
\* delete_relationship that is answered OK has removed one, so that a second
\* one for the same relationship is not.
LinksStay ==
    [][ /\ \A e \in relates \ relates' :
               \/ {e[1], e[3]} \ mems' # {}
               \/ reply'.op = "delete_relationship" /\ relates \ relates' = {e}
        /\ \A e \in refers \ refers' : e[1] \notin mems'
        /\ reply'.op = "delete_relationship" /\ reply'.code = "OK"
               => relates \ relates' # {} ]_vars

\* update_tag never folds one tag into another, also when the new name appears
\* between its two transactions: no memory has fewer tags and no name is lost.
RenameNeverMerges ==
    [][ reply'.op = "update_tag" =>
        /\ Cardinality(Known') = Cardinality(Known)
        /\ \A m \in mems : Cardinality(TagsOf(m)') = Cardinality(TagsOf(m)) ]_vars

Book == INSTANCE TagBook WITH
            known <- Known,
            has <- [m \in Mems |-> TagsOf(m)],
            Tools <- Ops \cup {"none"},
            tool <- reply.op

\* To its clients the graph is a book of tags: add_memory tags one memory,
\* delete_memory and delete_tag take away only what they name, update_tag and
\* merge_tags hand a whole name over to another one, each in one step.  A call
\* that fails does all of it or nothing.
TagsAreABook == Book!BookSpec

\* README.md, update_tag: "Returns InvalidArgument if new_name already exists."
\* So, while the database works, update_tag never answers Internal.
RenameConflictIsInvalid == reply.op = "update_tag" => reply.code # "Internal"
=============================================================================
