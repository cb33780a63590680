------------------------------- MODULE Browse -------------------------------
(***************************************************************************)
(* The reading tools that need several queries for one answer: find_path   *)
(* and find_related (a second query tells a missing memory from an empty   *)
(* answer) and a client's walk through the pages of list_memories, over a  *)
(* graph that other calls change in between (internal/memory).             *)
(*                                                                         *)
(* Traversals ignore the direction of a RELATES_TO edge, so a link is the  *)
(* pair of its ends and a label.  Links of a memory to itself are left     *)
(* out: they bring no path nearer.                                         *)
(***************************************************************************)
EXTENDS Integers, Sequences, FiniteSets, SequencesExt

CONSTANTS
    MaxId,          \* bound: memories; ids are numbers in the order of minting
    Labels,         \* relationships
    PathBound,      \* 6: the largest max_hops of find_path
    RelatedBound,   \* 4: the largest hops of find_related
    Limits,         \* limits and page sizes asked for
    DefaultLimit,   \* what a limit that is not positive becomes: 20 in
                    \* find_related, 50 in list_memories
    MaxWrites       \* bound: writes of other calls

ASSUME BrowseConstantsOK ==
    /\ {MaxId, PathBound, RelatedBound, DefaultLimit} \subseteq Nat \ {0}
    /\ Limits \subseteq Int /\ MaxWrites \in Nat

VARIABLES
    live,       \* memories in the graph
    links,      \* RELATES_TO edges
    minted,     \* ids that are or were in the graph
    writes,     \* writes so far
    req,        \* the call or walk under way
    pc,         \* "idle", "query", "check", "walk" or "done"
    cursor,     \* the walk's after_id
    shown,      \* the walk's memories, in order
    reply,      \* what the call returned
    could,      \* ghost: the answers that have been right since the call came
    stayed,     \* ghost: the memories in the graph since then
    blind       \* ghost: the second query failed

graph == <<live, links, minted, writes>>
vars == <<graph, req, pc, cursor, shown, reply, could, stayed, blind>>

Ids == 1 .. MaxId
NoId == 0   \* the empty id
Pairs == {ends \in SUBSET Ids : Cardinality(ends) = 2}
AllLinks == [ends : Pairs, label : Labels]

\* An empty relationship filter lets every label through.
Filters == SUBSET Labels
Requests ==
    [tool : {"path"}, from : Ids \cup {NoId}, to : Ids \cup {NoId},
     hops : 0 .. PathBound + 1]
      \cup [tool : {"related"}, from : Ids \cup {NoId}, filter : Filters,
            hops : 0 .. RelatedBound + 1, limit : Limits]
      \cup [tool : {"list"}, limit : Limits]

LimitOf(r) == IF r.limit <= 0 THEN DefaultLimit ELSE r.limit

NoRequest == [tool |-> "none"]
NoAnswer == [kind |-> "none"]
NotFound == [kind |-> "MemoryNotFound"]
Invalid == [kind |-> "InvalidArgument"]
Internal == [kind |-> "Internal"]
NoRows == [m \in {} |-> 0]
Path(hops) == [kind |-> "path", hops |-> hops]
Related(distance) == [kind |-> "related", distance |-> distance]

(***************************************************************************)
(* Traversals.                                                             *)
(***************************************************************************)
Usable(filter) == {l \in links : filter = {} \/ l.label \in filter}

\* A walk along n usable links leads from a to b.  A pattern uses no link twice;
\* a shortest walk does not either.
Joined(a, b, filter, n) ==
    \E walk \in [0 .. n -> Ids] :
        /\ walk[0] = a /\ walk[n] = b
        /\ \A i \in 1 .. n : \E l \in Usable(filter) : l.ends = {walk[i - 1], walk[i]}

\* The distances, up to a bound, of the other memories reached from id.
Distances(id, filter, bound) ==
    LET Hops(m) == {n \in 1 .. bound : Joined(id, m, filter, n)}
    IN  [m \in {other \in Ids \ {id} : Hops(other) # {}} |->
            CHOOSE n \in Hops(m) : \A more \in Hops(m) : n <= more]

\* FindPath's first query: the length of a shortest path, or no row.
ShortestPath(r) ==
    LET d == Distances(r.from, {}, r.hops) IN
    IF {r.from, r.to} \subseteq live /\ r.to \in DOMAIN d THEN {d[r.to]} ELSE {}

\* FindRelated's query: the limit nearest, those of one distance in any order.
NearestRows(r) ==
    LET d == IF r.from \in live THEN Distances(r.from, r.filter, r.hops) ELSE NoRows
    IN  {chosen \in SUBSET DOMAIN d :
            /\ Cardinality(chosen) = (IF Cardinality(DOMAIN d) < LimitOf(r)
                                      THEN Cardinality(DOMAIN d) ELSE LimitOf(r))
            /\ \A m \in chosen : \A other \in DOMAIN d \ chosen : d[m] <= d[other]}

\* The rows of a choice, with their distances.
RowsOf(r, chosen) ==
    [m \in chosen |-> Distances(r.from, r.filter, r.hops)[m]]

\* Mutant of Missing: only two missing memories are missed.
MissingBoth(a, b) == a \notin live /\ b \notin live

\* endpointsExist.
Missing(a, b) == a \notin live \/ b \notin live

\* What is answered when no row came and nothing is missing.
NothingFound(r) == IF r.tool = "path" THEN Path(0 - 1) ELSE Related(NoRows)

OtherEnd(r) == IF r.tool = "path" THEN r.to ELSE r.from

\* The answers one atomic look at the graph would allow.
RightAnswers(r) ==
    IF r.tool = "list" THEN {}
    ELSE IF {r.from, OtherEnd(r)} \subseteq live
    THEN IF r.tool = "path"
         THEN IF ShortestPath(r) = {} THEN {NothingFound(r)}
              ELSE {Path(d) : d \in ShortestPath(r)}
         ELSE {Related(RowsOf(r, chosen)) : chosen \in NearestRows(r)}
    ELSE {NotFound}

Init ==
    /\ live \in SUBSET Ids
    /\ links \in SUBSET {l \in AllLinks : l.ends \subseteq live}
    /\ minted = live
    /\ writes = 0
    /\ req = NoRequest /\ pc = "idle" /\ cursor = NoId /\ shown = <<>>
    /\ reply = NoAnswer /\ could = {} /\ stayed = {} /\ blind = FALSE

(***************************************************************************)
(* Other calls, one transaction each.                                      *)
(***************************************************************************)
Witness ==
    /\ could' = could \cup RightAnswers(req)'
    /\ stayed' = stayed \cap live'

Write ==
    /\ pc \notin {"idle", "done"}
    /\ writes < MaxWrites /\ writes' = writes + 1
    /\ UNCHANGED <<req, pc, cursor, shown, reply, blind>>

\* Ids are minted before the commit: any of them may come next.
Add(m) ==
    /\ m \notin minted
    /\ live' = live \cup {m} /\ minted' = minted \cup {m}
    /\ UNCHANGED links
    /\ Write /\ Witness

Delete(m) ==
    /\ m \in live
    /\ live' = live \ {m}
    /\ links' = {l \in links : m \notin l.ends}
    /\ UNCHANGED minted
    /\ Write /\ Witness

\* Mutant of Link: the ends are merged too, not matched.
LinkMergesEnds(l) ==
    /\ l \notin links
    /\ live' = live \cup l.ends
    /\ links' = links \cup {l}
    /\ UNCHANGED minted
    /\ Write /\ Witness

Link(l) ==
    /\ l.ends \subseteq live /\ l \notin links
    /\ links' = links \cup {l}
    /\ UNCHANGED <<live, minted>>
    /\ Write /\ Witness

Unlink(l) ==
    /\ l \in links
    /\ links' = links \ {l}
    /\ UNCHANGED <<live, minted>>
    /\ Write /\ Witness

(***************************************************************************)
(* find_path and find_related.                                             *)
(***************************************************************************)
\* The arguments FindPath and FindRelated take; ListMemoriesPaged takes any.
Valid(r) == CASE r.tool = "path" -> /\ NoId \notin {r.from, r.to}
                                    /\ r.hops \in 1 .. PathBound
              [] r.tool = "related" -> /\ r.from # NoId
                                       /\ r.hops \in 1 .. RelatedBound
              [] OTHER -> TRUE

Return(answer) == pc' = "done" /\ reply' = answer

Begin(r) ==
    /\ pc = "idle"
    /\ req' = r
    /\ stayed' = live
    /\ \/ ~Valid(r) /\ Return(Invalid) /\ UNCHANGED could
       \/ /\ Valid(r)
          /\ pc' = IF r.tool = "list" THEN "walk" ELSE "query"
          /\ could' = RightAnswers(r)
          /\ UNCHANGED reply
    /\ UNCHANGED <<graph, cursor, shown, blind>>

\* shortestPath refuses a path from a memory to itself (the database's default).
PathQuery ==
    /\ pc = "query" /\ req.tool = "path"
    /\ \/ req.from = req.to /\ req.from \in live /\ Return(Internal)
       \/ \E d \in ShortestPath(req) : Return(Path(d))
       \/ /\ ShortestPath(req) = {} /\ ~(req.from = req.to /\ req.from \in live)
          /\ pc' = "check" /\ UNCHANGED reply
    /\ UNCHANGED <<graph, req, cursor, shown, could, stayed, blind>>

RelatedQuery ==
    /\ pc = "query" /\ req.tool = "related"
    /\ \E chosen \in NearestRows(req) :
           IF chosen = {} THEN pc' = "check" /\ UNCHANGED reply
           ELSE Return(Related(RowsOf(req, chosen)))
    /\ UNCHANGED <<graph, req, cursor, shown, could, stayed, blind>>

QueryFails ==
    /\ pc = "query"
    /\ Return(Internal)
    /\ UNCHANGED <<graph, req, cursor, shown, could, stayed, blind>>

\* The second query, in a transaction of its own.
Check ==
    /\ pc = "check"
    /\ Return(IF Missing(req.from, OtherEnd(req)) THEN NotFound ELSE NothingFound(req))
    /\ UNCHANGED <<graph, req, cursor, shown, could, stayed, blind>>

\* Its failure is taken for "nothing is missing".
CheckFails ==
    /\ pc = "check"
    /\ Return(NothingFound(req))
    /\ blind' = TRUE
    /\ UNCHANGED <<graph, req, cursor, shown, could, stayed>>

(***************************************************************************)
(* A client asks list_memories for page after page until next_after_id is  *)
(* empty; a page that fails it asks for again.                             *)
(***************************************************************************)
\* The first limit memories after the cursor, in the order of their ids.
IsPage(page, limit) ==
    LET ahead == {m \in live : m > cursor}
    IN  /\ page \in SeqOf(ahead, limit)
        /\ \A i, j \in DOMAIN page : i < j => page[i] < page[j]
        /\ \A m \in ahead \ Range(page) : Len(page) = limit /\ page[limit] < m

\* Mutant of NextAfterId: a full page is taken for the last one.
NextAfterIdOffByOne(page, limit) ==
    IF Len(page) > limit THEN page[Len(page)] ELSE NoId

NextAfterId(page, limit) == IF Len(page) = limit THEN page[Len(page)] ELSE NoId

NextPage ==
    /\ pc = "walk"
    /\ \E page \in SeqOf(live, LimitOf(req)) :
           /\ IsPage(page, LimitOf(req))
           /\ shown' = shown \o page
           /\ cursor' = NextAfterId(page, LimitOf(req))
    /\ pc' = IF cursor' = NoId THEN "done" ELSE "walk"
    /\ UNCHANGED <<graph, req, reply, could, stayed, blind>>

Next ==
    \/ \E m \in Ids : Add(m) \/ Delete(m)
    \/ \E l \in AllLinks : Link(l) \/ Unlink(l)
    \/ \E r \in Requests : Begin(r)
    \/ PathQuery \/ RelatedQuery \/ QueryFails \/ Check \/ CheckFails
    \/ NextPage

Spec == Init /\ [][Next]_vars

(***************************************************************************)
(* Properties.                                                             *)
(***************************************************************************)
\* Every variable has its type, links join memories that are there (Neo4j itself
\* sees to that), and none but add_memory brings a memory about.
TypeOK ==
    /\ live \subseteq minted /\ minted \subseteq Ids
    /\ links \subseteq {l \in AllLinks : l.ends \subseteq live}
    /\ writes \in 0 .. MaxWrites
    /\ req \in Requests \cup {NoRequest}
    /\ pc \in {"idle", "query", "check", "walk", "done"}
    /\ cursor \in Ids \cup {NoId}
    /\ shown \in Seq(Ids)
    /\ stayed \subseteq live
    /\ blind \in BOOLEAN

\* find_path and find_related read the graph twice, and other calls change it in
\* between; still their answer was the right one at some moment between call and
\* return: MemoryNotFound when an end was missing, "no path" or an empty list
\* when both were there unconnected, and the distances of a shortest path or of
\* the nearest neighbours otherwise.  The exception is a failing second query,
\* whose error FindPath and FindRelated drop.
AnswersWereTrue ==
    reply \notin {NoAnswer, Invalid, Internal} => reply \in could \/ blind

\* A client that walks all pages of list_memories is shown every memory that was
\* there from beginning to end of its walk, and none twice, whatever is added
\* and deleted meanwhile.  (A memory that appears meanwhile behind the cursor it
\* does not see: ids are minted before the commit.)
WalkComplete ==
    /\ IsInjective(shown)
    /\ req.tool = "list" /\ pc = "done" => stayed \subseteq Range(shown)
=============================================================================
