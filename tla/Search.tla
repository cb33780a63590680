------------------------------- MODULE Search -------------------------------
(***************************************************************************)
(* One call of search_memory or add_memory (internal/mcp/tools.go), with   *)
(* the Embed call it makes (module Voyage), the two queries of the         *)
(* repository and the fusion of their results (internal/search).           *)
(*                                                                         *)
(* The graph is changed by other calls all the time, so what a query finds *)
(* is chosen when it runs, each query for itself: the fulltext query a     *)
(* ranking of memories that match the query and carry the tags, the vector *)
(* query a ranking of the memories that have an embedding, of which some   *)
(* carry the tags and the first few are close enough to be suggested.      *)
(* main always passes an embedder, so the paths without one are left out,  *)
(* and so is the refusal of a mode that is none of the three.              *)
(***************************************************************************)
EXTENDS Voyage, FiniteSets

CONSTANTS
    MaxDoc,         \* bound: memories a query can find
    Limits,         \* limits asked for
    DefaultLimit,   \* 10: what a limit that is not positive becomes
    Factor,         \* 3: candidates of the vector query per hit asked for
    RankConstant,   \* 60: k of reciprocal rank fusion
    Suggest         \* 5: links suggested at most

ASSUME SearchConstantsOK ==
    /\ Limits \subseteq Nat
    /\ MaxTexts >= 1
    /\ {MaxDoc, DefaultLimit, Factor, RankConstant, Suggest} \subseteq Nat \ {0}

VARIABLES
    req,        \* what the call asks for
    text,       \* the fulltext query: "off", "query", "ok" or "failed"
    vector,     \* the embedding and vector query, see Vector stages below
    ft,         \* ghost rank: what the fulltext query could find; its hits
    knn,        \* ghosts near, tagged, close: what the vector query met; hits
    stored,     \* the embedding add_memory stored: see StoredAs
    reply       \* what the handler returned

searchVars == <<req, text, vector, ft, knn, stored, reply>>
allVars == <<vars, searchVars>>

Docs == 1 .. MaxDoc

\* The memory add_memory creates; its id was minted last.
Self == MaxDoc

\* All rankings of some of the memories.
Rankings == {s \in UNION {[1 .. n -> Docs] : n \in 0 .. MaxDoc} : IsInjective(s)}

Modes == {"fulltext", "semantic", "hybrid"}
NoRequest == [mode |-> "idle", limit |-> 0, suggest |-> FALSE]

\* "none" says that no embedding came, "empty" that an empty one did,
\* "embedded" that add_memory has one.
VectorStages == {"off", "embed", "none", "empty", "embedded", "query", "ok", "failed"}

NoReply == [status |-> "none", hits |-> <<>>, warning |-> FALSE]
Answer(hits, warning) ==
    reply' = [status |-> "answer", hits |-> hits, warning |-> warning]
ReplyError == reply' = [status |-> "error", hits |-> <<>>, warning |-> FALSE]

SearchInit ==
    /\ Init
    /\ req = NoRequest
    /\ text = "off" /\ vector = "off"
    /\ ft = [rank |-> <<>>, hits |-> <<>>]
    /\ knn = [near |-> <<>>, tagged |-> {}, close |-> 0, hits |-> <<>>]
    /\ stored = "no"
    /\ reply = NoReply

(***************************************************************************)
(* The pure parts.                                                         *)
(***************************************************************************)
Take(s, n) == SubSeq(s, 1, IF n < Len(s) THEN n ELSE Len(s))
Positive(limit) == IF limit <= 0 THEN DefaultLimit ELSE limit
Rank(s, d) == CHOOSE i \in DOMAIN s : s[i] = d

\* The members of a set in an order, given as the pairs of which one is before
\* the other.
Listed(docs, before) ==
    CHOOSE s \in [1 .. Cardinality(docs) -> docs] :
        Range(s) = docs /\ \A i, j \in DOMAIN s : i < j => <<s[i], s[j]>> \in before

\* Those of a ranking that are in a set, in the order of the ranking.
Select(s, docs) ==
    Listed(Range(s) \cap docs,
           {p \in Range(s) \X Range(s) : Rank(s, p[1]) < Rank(s, p[2])})

\* Mutant of Candidates: the tag filter gets no room.
CandidatesAsAsked(limit) == limit

\* candidateLimit of SearchSemantic.
Candidates(limit) == limit * Factor

\* SearchSemantic: the nearest candidates, those that carry the tags, the limit.
SearchSemantic(near, tagged, limit) ==
    Take(Select(Take(near, Candidates(Positive(limit))), tagged), Positive(limit))

SearchFulltext(rank, limit) == Take(rank, Positive(limit))

\* The denominators up to the n-th, multiplied, and a common multiple of those
\* there can be, so that scores are integers.
Product[n \in Nat] == IF n = 0 THEN 1 ELSE Product[n - 1] * (RankConstant + n)
Scale == Product[MaxDoc]

Contribution(list, d) ==
    IF d \in Range(list) THEN Scale \div (RankConstant + Rank(list, d)) ELSE 0

\* Mutant of Score: a memory that is known already is passed over.
ScoreOfFirstList(lists, d) ==
    LET found == {i \in DOMAIN lists : d \in Range(lists[i])} IN
    Contribution(lists[CHOOSE i \in found : \A j \in found : i <= j], d)

\* The sum of 1 / (k + rank) over the two lists, times Scale.
Score(lists, d) == Contribution(lists[1], d) + Contribution(lists[2], d)

\* Mutant of Fuse: what both lists have is listed twice.
FuseWithoutMerging(lists, limit) == Take(lists[1] \o lists[2], Positive(limit))

Fuse(lists, limit) ==
    LET docs == Range(lists[1]) \cup Range(lists[2])
        before == {p \in docs \X docs :
                      \/ Score(lists, p[1]) > Score(lists, p[2])
                      \/ Score(lists, p[1]) = Score(lists, p[2]) /\ p[1] < p[2]}
    IN  Take(Listed(docs, before), Positive(limit))

\* Mutant of SuggestionCandidates: the memory itself is forgotten.
SuggestionCandidatesExact == Suggest

\* add_memory asks for one more, since it may find the memory itself.
SuggestionCandidates == Suggest + 1

\* selectSuggestedLinks, close being how many of the ranking reach the
\* threshold: the hits come best first.
SelectSuggestedLinks(hits, near, close) ==
    Take(Select(hits, Range(Take(near, close)) \ {Self}), Suggest)

\* Mutant of Usable: an empty vector is stored as it is.
UsableIfAny(e, vecs) == e = "none" /\ vecs # <<>>

\* The switch of handleAddMemory.
Usable(e, vecs) == e = "none" /\ vecs # <<>> /\ vecs[1] # 0

\* NULL is found by a later scope=missing pass, an empty list is not.
StoredAs(e, vecs) ==
    IF ~Usable(e, vecs) THEN "null" ELSE IF vecs[1] = 0 THEN "empty" ELSE "vector"

(***************************************************************************)
(* The call.  A step is a blocking call of the handler, or of one of the   *)
(* two goroutines of a hybrid search, with what follows up to the next.    *)
(***************************************************************************)
BeginSearch(mode, limit) ==
    /\ req = NoRequest
    /\ req' = [mode |-> mode, limit |-> limit, suggest |-> FALSE]
    /\ text' = IF mode = "semantic" THEN "off" ELSE "query"
    /\ vector' = IF mode = "fulltext" THEN "off" ELSE "embed"
    /\ UNCHANGED <<vars, ft, knn, stored, reply>>

\* An empty query finds nothing in any mode.
BeginBlank(mode) ==
    /\ req = NoRequest
    /\ req' = [mode |-> mode, limit |-> DefaultLimit, suggest |-> FALSE]
    /\ Answer(<<>>, FALSE)
    /\ UNCHANGED <<vars, text, vector, ft, knn, stored>>

BeginAdd(suggest) ==
    /\ req = NoRequest
    /\ req' = [mode |-> "add", limit |-> Suggest, suggest |-> suggest]
    /\ vector' = "embed"
    /\ UNCHANGED <<vars, text, ft, knn, stored, reply>>

\* Embed runs: one text, and a key, which the configuration requires.
Embedding ==
    /\ vector = "embed"
    /\ Call(TRUE, 1) \/ Attempt
    /\ UNCHANGED searchVars

\* The context of the request ends.
ClientLeaves == vector = "embed" /\ Cancel /\ UNCHANGED searchVars

\* Embed has returned.  A semantic search without a vector turns to fulltext;
\* with an empty one it does not, and SearchSemantic finds nothing.
EmbedEndsSemantic ==
    /\ req.mode = "semantic" /\ vector = "embed" /\ pc = "done"
    /\ \/ /\ err # "none" \/ out = <<>>
          /\ vector' = "none" /\ text' = "query"
       \/ /\ err = "none" /\ out # <<>>
          /\ vector' = IF out[1] = 0 THEN "empty" ELSE "query"
          /\ UNCHANGED text
    /\ UNCHANGED <<vars, req, ft, knn, stored, reply>>

\* In a hybrid search an empty vector leaves semHits nil, like none.
EmbedEndsHybrid ==
    /\ req.mode = "hybrid" /\ vector = "embed" /\ pc = "done"
    /\ vector' = IF err = "none" /\ out # <<>> /\ out[1] # 0 THEN "query" ELSE "none"
    /\ UNCHANGED <<vars, req, text, ft, knn, stored, reply>>

EmbedEndsAdd ==
    /\ req.mode = "add" /\ vector = "embed" /\ pc = "done"
    /\ vector' = IF Usable(err, out) THEN "embedded" ELSE "none"
    /\ UNCHANGED <<vars, req, text, ft, knn, stored, reply>>

\* Repository.AddMemory; its failure may hide a commit.
Store ==
    /\ vector \in {"embedded", "none"} /\ req.mode = "add"
    /\ stored = "no" /\ reply = NoReply
    /\ stored' = StoredAs(err, out)
    /\ vector' = IF vector = "embedded" /\ req.suggest THEN "query" ELSE vector
    /\ UNCHANGED <<vars, req, text, ft, knn, reply>>

StoreFails(committed) ==
    /\ vector \in {"embedded", "none"} /\ req.mode = "add"
    /\ stored = "no" /\ reply = NoReply
    /\ stored' = IF committed THEN StoredAs(err, out) ELSE "no"
    /\ ReplyError
    /\ UNCHANGED <<vars, req, text, vector, ft, knn>>

\* A hybrid search asks each query for twice the limit.
Asked == CASE req.mode = "hybrid" -> 2 * req.limit
           [] req.mode = "add" -> SuggestionCandidates
           [] OTHER -> req.limit

FulltextReturns(rank) ==
    /\ text = "query"
    /\ text' = "ok"
    /\ ft' = [rank |-> rank, hits |-> SearchFulltext(rank, Asked)]
    /\ UNCHANGED <<vars, req, vector, knn, stored, reply>>

\* An error of one goroutine of the errgroup cancels the context of the other.
FulltextFails ==
    /\ text = "query"
    /\ text' = "failed"
    /\ cancelled' = (cancelled \/ vector = "embed")
    /\ UNCHANGED <<pc, texts, attempt, seen, out, err>>
    /\ UNCHANGED <<req, vector, ft, knn, stored, reply>>

\* add_memory filters by no tag and has a threshold; a search is the reverse.
VectorQueryReturns(near, tagged, close) ==
    /\ vector = "query"
    /\ IF req.mode = "add" THEN tagged = Docs ELSE close = 0
    /\ vector' = "ok"
    /\ knn' = [near |-> near, tagged |-> tagged, close |-> close,
               hits |-> SearchSemantic(near, tagged, Asked)]
    /\ UNCHANGED <<vars, req, text, ft, stored, reply>>

VectorQueryFails ==
    /\ vector = "query"
    /\ vector' = "failed"
    /\ UNCHANGED <<vars, req, text, ft, knn, stored, reply>>

RespondFulltext ==
    /\ req.mode = "fulltext" /\ reply = NoReply
    /\ \/ text = "ok" /\ Answer(ft.hits, FALSE)
       \/ text = "failed" /\ ReplyError
    /\ UNCHANGED <<vars, req, text, vector, ft, knn, stored>>

RespondSemantic ==
    /\ req.mode = "semantic" /\ reply = NoReply
    /\ \/ text = "ok" /\ Answer(ft.hits, TRUE)
       \/ vector = "empty" /\ Answer(<<>>, FALSE)
       \/ vector = "ok" /\ Answer(knn.hits, FALSE)
       \/ "failed" \in {text, vector} /\ ReplyError
    /\ UNCHANGED <<vars, req, text, vector, ft, knn, stored>>

\* Mutant of RespondHybrid: the goroutine returns the error of Embed.
RespondHybridEmbedFatal ==
    /\ req.mode = "hybrid" /\ reply = NoReply
    /\ text \in {"ok", "failed"} /\ vector \in {"none", "ok", "failed"}
    /\ \/ {text, vector} \cap {"failed", "none"} # {} /\ ReplyError
       \/ /\ text = "ok" /\ vector = "ok"
          /\ Answer(Fuse(<<ft.hits, knn.hits>>, req.limit), FALSE)
    /\ UNCHANGED <<vars, req, text, vector, ft, knn, stored>>

\* g.Wait and what follows.  The fallback cuts at the limit as it was asked,
\* so that a limit of 0 leaves nothing.
RespondHybrid ==
    /\ req.mode = "hybrid" /\ reply = NoReply
    /\ text \in {"ok", "failed"} /\ vector \in {"none", "ok", "failed"}
    /\ \/ "failed" \in {text, vector} /\ ReplyError
       \/ text = "ok" /\ vector = "none" /\ Answer(Take(ft.hits, req.limit), TRUE)
       \/ /\ text = "ok" /\ vector = "ok"
          /\ Answer(Fuse(<<ft.hits, knn.hits>>, req.limit), FALSE)
    /\ UNCHANGED <<vars, req, text, vector, ft, knn, stored>>

\* A failing query for suggestions leaves them out.
RespondAdd ==
    /\ req.mode = "add" /\ reply = NoReply /\ stored # "no"
    /\ \/ vector \in {"embedded", "none", "failed"} /\ Answer(<<>>, ~Usable(err, out))
       \/ /\ vector = "ok"
          /\ Answer(SelectSuggestedLinks(knn.hits, knn.near, knn.close), ~Usable(err, out))
    /\ UNCHANGED <<vars, req, text, vector, ft, knn, stored>>

Begin ==
    \/ \E mode \in Modes, limit \in Limits : BeginSearch(mode, limit)
    \/ \E mode \in Modes : BeginBlank(mode)
    \/ \E suggest \in BOOLEAN : BeginAdd(suggest)

\* The steps the server takes by itself once a call has come.
Serve ==
    \/ Embedding
    \/ EmbedEndsSemantic \/ EmbedEndsHybrid \/ EmbedEndsAdd
    \/ Store
    \/ \E committed \in BOOLEAN : StoreFails(committed)
    \/ \E rank \in Rankings : FulltextReturns(rank)
    \/ FulltextFails
    \/ \E near \in Rankings, tagged \in SUBSET Docs :
           \E close \in 0 .. Len(near) : VectorQueryReturns(near, tagged, close)
    \/ VectorQueryFails
    \/ RespondFulltext \/ RespondSemantic \/ RespondHybrid \/ RespondAdd

SearchNext == Begin \/ Serve \/ ClientLeaves

SearchSpec == SearchInit /\ [][SearchNext]_allVars

\* Calls of the driver return, requests to the service by their timeout, and
\* the goroutines of the process run.  Clients need not leave.
SearchFairSpec == SearchSpec /\ WF_allVars(Serve)

(***************************************************************************)
(* Properties.                                                             *)
(***************************************************************************)
\* Every variable has its type; hits are memories without repetition, those of a
\* hybrid search too, which joins two lists that may have the same ones.
SearchTypeOK ==
    /\ TypeOK
    /\ req.mode \in Modes \cup {"idle", "add"}
    /\ text \in {"off", "query", "ok", "failed"}
    /\ vector \in VectorStages
    /\ {ft.rank, ft.hits, knn.near, knn.hits, reply.hits} \subseteq Rankings
    /\ knn.tagged \subseteq Docs /\ knn.close \in 0 .. MaxDoc
    /\ stored \in {"no", "null", "empty", "vector"}
    /\ reply.status \in {"none", "answer", "error"}

\* A failing embedder never fails a search: semantic and hybrid searches end in
\* an error only if a query of the database failed; they carry the warning
\* exactly if no embedding came, and then give what fulltext found, up to the
\* limit.  (An embedding that came empty is the exception of semantic search; a
\* limit of 0, which the schema excludes, that of hybrid search.)
FallbackKeepsAnswer ==
    req.mode \in {"semantic", "hybrid"} =>
        /\ reply.status = "error" => "failed" \in {text, vector}
        /\ reply.status = "answer" /\ vector # "off" => (reply.warning <=> vector = "none")
        /\ reply.warning /\ req.limit > 0 => reply.hits = Take(ft.rank, req.limit)

\* A semantic search gives the nearest memories that carry the tags, in order,
\* up to the limit.  It loses one only behind Factor times as many as it was
\* asked for: what the candidate window promises, and all it promises.
SemanticNearest ==
    req.mode = "semantic" /\ vector = "ok" /\ reply.status = "answer" =>
        LET limit == Positive(req.limit)
            want == Take(Select(knn.near, knn.tagged), limit)
        IN  /\ IsPrefix(reply.hits, want)
            /\ reply.hits # want =>
                   Rank(knn.near, want[Len(reply.hits) + 1]) > Factor * limit

\* a comes before b in every list that has b.
Dominates(a, b) ==
    \A list \in {ft.hits, knn.hits} : b \in Range(list) =>
        a \in Range(list) /\ Rank(list, a) < Rank(list, b)

\* Two rankings are fused without contradicting what they agree on: a memory
\* that both queries (or the only one that knows the other memory) put first
\* comes first, is not the one cut off, and no memory is lost while there is
\* room.
FusionRespectsRanks ==
    req.mode = "hybrid" /\ reply.status = "answer" /\ vector = "ok" =>
        LET all == Range(ft.hits) \cup Range(knn.hits)
            hits == reply.hits
            limit == Positive(req.limit)
        IN  /\ Len(hits) = (IF limit < Cardinality(all) THEN limit ELSE Cardinality(all))
            /\ Range(hits) \subseteq all
            /\ \A b \in Range(hits) : \A a \in all :
                   Dominates(a, b) => a \in Range(hits) /\ Rank(hits, a) < Rank(hits, b)

\* add_memory suggests the nearest other memories that reach the threshold, as
\* many as there are up to Suggest, whether or not the new memory is found among
\* them (another request may have deleted it, and it may tie with a copy).
SuggestionsRight ==
    req.mode = "add" /\ reply.status = "answer" /\ vector = "ok" =>
        reply.hits = Take(Select(Take(knn.near, knn.close), Docs \ {Self}), Suggest)

\* A memory is never stored with an empty embedding, which no backfill would
\* find; and add_memory warns exactly if it stored none, however Embed ended.
StoredIsRecoverable ==
    /\ stored # "empty"
    /\ req.mode = "add" /\ reply.status = "answer" =>
           (reply.warning <=> stored = "null") /\ stored # "no"

\* Every call is answered, whatever the service and the database do.
SearchReturns == req # NoRequest ~> reply # NoReply
=============================================================================
