# A verification project for mindgraph-mcp

mindgraph-mcp is an MCP server that keeps a graph of memories in Neo4j and their
embeddings from Voyage AI. These TLA+ modules model the parts of it whose
correctness depends on order, failure and concurrency. TLC checks them on small
instances, and TLAPS proves the main results for every value of the constants.
`PROJECT.json` has the runs, the mutants that show each property can fail, and the
source lines of every definition.

## The system

| component | state | operations | hard behaviour | what makes it correct |
|---|---|---|---|---|
| Re-embedding (`internal/reembed`, its callers in `main.go` and `tools.go`) | per call: cursor, page, counters, `Failures`; in Neo4j: which memories have an embedding | `Run` (scope missing or all, cap), `runOne`, boot backfill | several passes at once over a pool that `add_memory` and `delete_memory` change; failing embedder or database; lost answers; restart | results add up, caps hold, success means done, nothing comes back to life, every pass ends |
| Memory graph (`internal/memory/repository.go`, `internal/mcp/tools.go`) | Memory, Tag and CodeRef nodes and their edges | 8 writing tools, reads | two-transaction rename; commits that are not acknowledged; calls about things deleted meanwhile | no edge lost or memory made by accident, reads agree, tag operations lose nothing, errors have no effect, counts are true |
| Voyage client (`internal/embeddings`) | attempts of one call | `Embed` | retries, cancellation, answers out of order or cut | retry policy, vectors at the place of their texts, termination |
| Search (`tools.go`, `internal/search`) | per call: two queries, one embedding | `search_memory`, `add_memory`'s embedding and suggested links | one half of a hybrid search fails, is slow or is cancelled by the other | falls back and says so, fusion and suggestions are right, an empty embedding is never stored |
| Traversal, listing (`repository.go`) | none; the client's cursor | `find_path`, `find_related`, `list_memories` | several queries for one answer over a changing graph | answers were true at some moment, no memory skipped or repeated |
| Server lifecycle (`cmd/server/main.go`, `Bootstrap`, `LoadFromEnv`) | attempts, schema, listener, contexts | connect, bootstrap, serve, shut down | backoff, permanent errors, shutdown while requests and backfill run, death at any moment | bounded attempts, no use before the schema is there, orderly end |
| Authentication, tool schemas, record decoding | none | | | not modelled: stateless or pure layout |

Tool handlers call the repository (one driver call is one transaction) and the
Voyage client. `main` starts the backfill in a goroutine, which shares
`reembed.Run` with the `reembed_memories` tool. All requests, passes and server
instances meet in one Neo4j database and share nothing else.

## Modules

**`Reembed`** models `reembed.Run`. `run[r]` holds the locals of one call: `pc`,
`cursor` (`afterID`), `batch` (`pending`), `todo` (what the `for` over `pending` has
still to reach), `vecs`, `gained` (`batchSucceeded`) and the `Result`. An action is
one blocking call with the bookkeeping up to the next: `FetchPage`, `FetchEmpty` and
`FetchFails` are the page query; `EmbedPage` and `EmbedFails` the `Embed` call;
`SkipItem` and `UpdateItem` an iteration of the loop; `NoProgress`, `LastPage` and
`NextPage` its end; `StopCancelled` and `StopAtCap` the tests at the top.
`ReadContent` to `UpdateOne` are `runOne`. `MintId`, `CommitAdd` and `AbortAdd` are
`add_memory`, split where the id exists and the node does not; `DeleteMemory` is
`delete_memory`; `Restart` is the death of the process and its next boot, which takes
the locals of every call with it and leaves the database. `UpdateEmbedding` matches a
memory and sets its vector, so that one that is gone stays gone. Ids are
numbers in the order of minting (UUIDv7). `IsPage` is what the two queries promise: a
page in id order for scope all, *any* rows up to the limit for scope missing, whose
query has no ORDER BY. Four ghosts serve the properties alone: `deleted`; a call's
`ok` and `start`, which its process takes with it; and `counted`, which remembers what
any call has ever counted as a success, through every restart.

**`MemoryLifecycle`** says what a memory may go through: it is born with or without
an embedding, gets one, is replaced by another one, and dies once.
`Reembed!MemoriesLiveOnce` is the refinement.

**`MemoryGraph`** models the writing tools. An action is one transaction together
with the reply the handler makes of it (`mapRepoError` is the set `Codes`);
`RenameTag` is `RenameCheck` and `RenameCommit` with anything in between. Tag nodes
have identities of their own, so that names are unique only because the code keeps
them so (`MERGE`, the pre-check and the constraint `tag_name_unique`). `Norm` is
`NormalizeTagName`. `Committed` allows a commit whose acknowledgement is lost.
`Detail`, `ListTags`, `ListRelationships` and `FindByCode` are the read queries
(`find_by_code` without its limit and order). Neo4j itself keeps edges from dangling; the
model shows that the actions do too, and that none but `add_memory` makes a memory.

**`TagBook`** is what the tag tools promise: a set of known names and the names each
memory carries, and for each tool what one call of it may do to them. `MemoryGraph!TagsAreABook` is the refinement.

**`Voyage`** models one `VoyageClient.Embed`: the loop of attempts, `shouldRetry`,
`decodeVoyageResp`, the select between backoff and context. `OutcomeFollowsPolicy` states
the policy of the code (`Retried`: transport errors, 5xx and 429); where comments state
another one is shown by `voyage_retries`.

**`Search`** models one `search_memory` or `add_memory` call. It EXTENDS `Voyage`,
whose variables are the state of the Embed call the handler makes; `Embedding` is a
step of it. `text` and `vector` say how far the fulltext query and the
embedding-and-vector query are. In a hybrid search they are the two goroutines of the
errgroup and run in any order; `FulltextFails` cancels the context of the other.
`EmbedEnds...` is what each mode makes of Embed's result, `Respond...` what the
handler returns once its queries are back. Since other calls change the graph, each
query finds a ranking chosen when it runs, which a ghost keeps: `ft.rank`, and
`knn.near` with the memories that carry the tags and those close enough to suggest.
`SearchSemantic`, `SearchFulltext`, `Fuse` and `SelectSuggestedLinks` are the code's
functions on rankings, made of three parts: `Listed` puts a set in an order (the ORDER BY
of a query, the sort of `Fuse`), `Select` keeps what passes a filter (WHERE, the tests in
a loop), `Take` cuts at a limit. Scores are integers: each 1/(k + rank) times a common multiple
of the denominators. Ties of equal sums are exact in the code too, since two floats
add up to the same sum in both orders.

**`Browse`** models the reading tools that need several queries: `PathQuery` or
`RelatedQuery` and then `Check` (`endpointsExist`), and a client that calls
`list_memories` until `next_after_id` is empty. Between any two queries `Add`,
`Delete`, `Link` and `Unlink` change the graph; ids come in any order, as they are
minted before the commit. `Distances` is the shortest walk (`Joined`) to each memory. The ghost `could` collects, at every state since the call,
the answers one atomic look at the graph would have allowed, and `stayed` the memories
that have been there throughout.

**`Server`** models the process: `phase` is where `main` is, `attempt` the loop of
`connectNeo4j`, `step` the loop of `Bootstrap`; `Shifted` is `base << n` of
`connectBackoff`. The goroutine of `ListenAndServe`
(`listener`), the backfill, the requests, signals and crashes take their steps in
between. `End` is the end of the process, after which only `schema` is left for the
next `Boot`.

`MCReembed` and `MCMemoryGraph` give those two modules' constants their values for TLC; the
other modules take theirs from the `.cfg`. `ReembedProofs`, `MemoryGraphProofs`,
`VoyageProofs`, `SearchProofs`, `BrowseProofs` and `ServerProofs` prove theorems about the
modules they are named for. `SearchLemmas` has the facts about rankings that
`SearchProofs` rests on, and `LeastNumber` those about natural numbers that several
share.

## Runs

| run | what it asks | bounds |
|---|---|---|
| `reembed_pass` | one pass of several pages, capped or not, over a changing pool: `ResultAddsUp`, `LimitRespected`, `AllVisitsOnce`, `SweepComplete`, `BackfillComplete` | page 2, 4 ids, of which 2 at the start, caps none and 3 |
| `reembed_concurrent` | backfill and a tool call of any scope with a restart in the middle of either: `TypeOK`, `SuccessIsDurable` (of what calls counted before the restart too), `MemoriesLiveOnce`, `EveryPassEnds` | page 1, 2 ids, 1 restart |
| `graph_tags` | the tag tools against `TagBook`, the counts they report, a rename that meets other calls | 2 memories, 3 names (one in two spellings, one blank spelling), 1 rename pending |
| `graph_links` | links and code references, deletions, failing transactions | 2 memories, 2 labels, 1 place in 2 commits, 1 tag |
| `voyage` | one call against every sequence of answers | 3 attempts, 2 texts, 3 items |
| `search` | a search or `add_memory` with its Embed call, every query failing or not: `SearchTypeOK`, `FallbackKeepsAnswer`, `SemanticNearest`, `FusionRespectsRanks`, `SuggestionsRight`, `StoredIsRecoverable`, `SearchReturns` | 3 memories, limits 0 (which means 2), 1 and 2, 2 candidates per hit, 1 suggestion, 2 attempts |
| `browse` | two-query answers and walks over a changing graph: `TypeOK`, `AnswersWereTrue`, `WalkComplete` | every graph of 3 memories and 2 labels, 2 hops, limits 0 (which means 2) and 1, ids that may be empty, 3 writes |
| `server` | boots, connections, shutdowns: `TypeOK`, `ConnectPolicy`, `SchemaBeforeUse`, `DriverOutlivesRequests`, `NothingHangs` | 5 attempts, backoff up to 4 s, 7 statements, 2 requests, 3 boots |

Why the bounds are enough. Two pages, the second of them full or short, and a cap
that cuts a page show every branch of the loop; two further ids let memories appear
before, behind and beyond the cursor. The properties that relate passes to each other
speak of one memory at a time, so two memories and two passes (one of them restarted)
give every pair of conflicting steps. Tag operations involve at most two names; the
third is there so that a rename has a name to go to while the two others exist. A
second pending rename changes the graph only as other calls do. Two memories, one of
which may be linked to itself and to the other in both directions under two labels,
are all that one deletion has to tell apart. Three attempts of Embed and five to
connect are the production values; `search` has two attempts, since it is about what
follows them. The backoff is capped at 4 s instead of 16 so that the cap is reached
(with five attempts the code never waits more than 8 s). With three memories and
limits of 1 and 2, lists are cut at the limit, at twice the limit and at the candidate
window, and ranks 1 to 3 in two lists give gains, losses and ties of fused scores. In
`browse` three memories make paths within and beyond the bound of hops, one of several
labels, and pages that are full, short and empty; three writes are enough to create
both ends of a path and link them between the two queries.

Deadlock checking is off except for `MemoryGraph`: a pass or call that is done, or a
server after its last boot, stops.

Four runs end in a violation: the code does not bear out a sentence of its comments
or documentation.

- `reembed_failures`: `Failures` can list memories that a later page embedded.
- `reembed_idorder`: id order is minting order, not creation order.
- `graph_rename_race`: `update_tag` answers `Internal` when the new name is created
  between its two transactions.
- `voyage_retries`: comments say that Embed retries transient failures, which are 5xx
  and network errors, and only these. It retries 429 too, and it does not retry a
  connection lost while the body of a 200 is read, since `shouldRetry` goes by the
  status. Either comment alone implies `RetriesPreferTransient`; the one trace of the
  run shows both deviations, a 429 repeated and then a cut body that ends the call with
  an attempt left.

Three behaviours are exceptions written into the properties, since nothing promises
the opposite clearly enough: a semantic search whose embedding comes back empty
answers no hits and no warning; the fallback of a hybrid search cuts at the limit as
asked, so that 0 (which the schema excludes, unchecked) leaves nothing; and when the
second query of `find_path` or `find_related` fails, a missing memory is answered as
"no path" or an empty list. A port that cannot be bound ends the process with status 0
(`Server!Leave`). A missing-scope pass that makes no progress on a full page stops with
an error that speaks of the database, also when no vector came and no update was tried;
what lies behind that page is left to a later pass, about which no property says more
than `EveryPassEnds`.

## Fairness

`EveryPassEnds` assumes that a call of `Run` that can take its next step takes it:
an `Embed` call makes at most three requests under a 30 s timeout each
(`voyage.go:36`), and calls of the Neo4j driver are assumed to return. Nothing is
assumed about the order of passes, nor that clients cancel, add or delete anything.
That ids are bounded (`MaxIds`) does assume that additions stop at some time: a pass
whose pool grows as fast as it works has no end to reach.
`EmbedReturns` assumes that the timeout and the backoff timer fire, not that the
caller's context ends; `SearchReturns` assumes the same, and that driver calls return
and goroutines run. `NothingHangs` assumes that `main` takes its next step, that its
timers fire and that its own driver calls return; it assumes nothing of requests, of
the backfill, of the listener or of clients. All other properties are safety properties and assume
nothing.

## Proofs

Every safety invariant and action property of the passing runs, and both refinements, are
proved for every value of the constants. The proofs assume the named ASSUMEs of the
modules and nothing else.

| module | theorems | assumptions on the constants |
|---|---|---|
| `ReembedProofs` | `TypeCorrect`, `ResultsAddUp`, `LimitsHold`, `SuccessesLast`, `AllOnce`, `SweepsComplete`, `BackfillsComplete`, `RefinesLifecycle` | `ConstantsOK`: the page size is positive, the bounds are naturals |
| `MemoryGraphProofs` | `TypeCorrect`, `ReadsAlwaysAgree`, `CountsAreTruthful`, `ErrorsChangeNothing`, `LinksOnlyGoWhenTold`, `RenamesKeepTagsApart`, `RefinesTagBook` | `GraphConstantsOK`: `Norm` gives a name or `Blank`, which is none; memories and tag nodes are finitely many (replies count them) |
| `VoyageProofs` | `EmbedTypeCorrect`, `PolicyIsFollowed`, `VectorsAreInPlace` | `VoyageConstantsOK`: at least one attempt |
| `SearchProofs` | `SearchTypeCorrect`, `FallbacksKeepAnswers`, `SemanticFindsNearest`, `FusionAgrees`, `SuggestionsAreRight`, `StoredStaysRecoverable` | `SearchConstantsOK`: the tuning constants are positive, limits are naturals, one text may be embedded |
| `BrowseProofs` | `TypeCorrect`, `AnswersAreTrue`, `WalksAreComplete` | `BrowseConstantsOK`: there are ids, the bounds of hops and the default limit are positive |
| `ServerProofs` | `TypeCorrect`, `ConnectsAsPromised`, `ServesTheWholeSchema`, `DriverStays` | `ServerConstantsOK`: at least one attempt, statement and second of backoff |

Each module proves an inductive invariant (`Inductive`, `EmbedInductive`,
`SearchInductive`) from one lemma per action, and the properties from it.

**Reembed.** The properties are not inductive: that a finished sweep has met everything
depends on what it had met when it was half way. The strengthening is `IndInv`, a
conjunction of the types, of a part `CallInv` for each call and of `StoreInv` for the
pool. The parts of `CallInv` say, for a call under way:

- `PageInv`: what has left `todo` is accounted for in `ok` or `failures`;
- `CountInv` and `CapInv`: the counters add up, and what is left of the page still
  fits under the cap (this is why `Room` has to shrink the page);
- `DurableInv`: what the call has counted is embedded or deleted, what was there at the
  start is live or deleted;
- `SweepInv`: what was there at the start is behind the cursor and accounted for, on
  the page, or beyond the page. It holds because a page takes the smallest ids;
- `BackfillInv`: a short page held all that was missing when it was read;
- `OnceInv`: what is accounted for lies behind the cursor or on the page, and its
  number is the counter's.

`StoreInv` says of the pool that all that was ever counted, by calls that died with
their process too, is embedded or deleted; `SuccessesLast` follows from it, and a restart
cannot disturb it, since it changes neither.

The parts take the store as parameters, so one lemma shows that a step of the store
(an addition, a deletion, another call's write) preserves them for every call, and
one lemma an action shows that a call's own step does.

**MemoryGraph.** The invariant is the types (edges join nodes that are there), `UniqueNames` (no two tag
nodes have one name) and `RenamesSane` (what `RenameCheck` let through is two different
names). `UniqueNames` is what everything hangs on: with it the node of a name is one node,
so that what the tools do to nodes and edges is what `TagBook` does to names. Of the two
things that keep it, `MERGE` and the constraint, the second is needed only because another
call may create the name between the two transactions of a rename. The action properties
follow from lemmas about what a rename and a merge do (`RenameEffect`, `MergeEffect`), the
refinement from `RenameRelabels` and `MergeRelabels`: both give the carriers of a name
another one.

**Voyage.** `LoopInv` says that until Embed returns all its requests met failures it
retries, one per attempt, and that there is room for another one. `DecodedMatch` shows
that of several items with one index the last is well defined and each vector lands at its
text's place. `VectorsMatchTexts` and `OutcomeFollowsPolicy` are inductive with it.

**Search.** `SearchInv` has, beside the types and `EmbedInv` of `VoyageProofs` (whose
lemmas apply as they are, since the call of Embed is part of the state): which queries a
mode makes (`ModeInv`; a semantic search runs fulltext only for want of a vector), that a
handler answers when nothing it started is under way (`DoneInv`), that what a query found
is what it could find, cut as it was asked (`ResultsInv`), and that what is stored is what
Embed's result makes of it (`StoredInv`). What is answered then is a matter of rankings,
for which `SearchLemmas` has:

- `ListExists` and `ListIsPrefix`: a finite set can be listed in a total order, in one way
  only, and a part of it that comes before the rest is listed first;
- `SemanticIs`: the candidate window loses nothing but what ranks behind it;
- `SuggestionsAre`: six candidates are enough for five suggestions, whether or not the new
  memory is among them;
- `FuseIs` with `ScoreFollowsRanks`: what ranks behind another memory wherever it was found
  has the lower score. It needs that each denominator divides `Scale` (`ScaleIsMultiple`),
  so that the integers compare as the fractions do.

**Browse.** `CallInv` says that while a call looks at the graph the ghost `could` has the
right answers of now, and that when the first query found no row, "nothing found" has been
right or a memory is still missing. It survives other calls because a memory that is added
comes without links. `WalkInv` says that what a walk has shown is ascending and ends at
the cursor, and that of what stayed nothing up to the cursor is missing.

**Server.** `TriesInv` ties the history of attempts to where `main` is, `WaitInv` is the
part of `ConnectPolicy` about waiting (`Backoff` at most doubles), `SchemaInv` says that
what this boot has executed exists and that `main` is past all of it when it serves, and
`DriverInv` that the listener is closed before requests are waited for.

`Shifted` and `Product` are recursive functions. That they are what their definitions say
is proved with `RecursionExists` of `LeastNumber`, and induction on them is over the set of
numbers for which a fact holds (`SetInduction`); the library's theorems take operators as
parameters, which the provers cannot instantiate.

Only model-checked: liveness (`EveryPassEnds`, `EmbedReturns`, `SearchReturns`,
`NothingHangs`), which is out of the prover's reach, and the four runs that end in a
violation.

## Assumptions and what is not modelled

- A transaction of one statement is atomic. Neo4j's isolation is read-committed;
  what can happen inside a single `MERGE` or `FOREACH` is not modelled, notably an
  `add_memory` that tags with the source of a `merge_tags` being executed.
- A write of a call that dies with its process has happened before the restart or
  not at all.
- Contents, timestamps and vector values are left out; an embedding is there or not.
- The waits of Embed's retries end; their lengths are left out.
- `Search` follows one call; `main` always passes an embedder, so the paths without one
  are left out. Score ties within one query are broken by the database.
- Neo4j refuses `shortestPath` from a memory to itself (its default), which `find_path`
  answers as `Internal`. Links of a memory to itself are left out of `Browse`: they
  bring no path nearer.
- A request of `Server` is one that authentication has let in; a failing
  `LoadFromEnv` is one step. What requests and the backfill do is in the other modules.
- The vector index keeps the dimensions it was created with; README.md:517 of the
  repository leaves changing them to the operator.
- Not modelled: authentication (a stateless comparison), tool schemas and record
  decoding (layout), `list_recent` (one query).

## Plan

Order of work; 1 to 9 are done.

1. `Reembed` with `MemoryLifecycle`, its runs and `ReembedProofs`.
2. `MemoryGraph` with `TagBook` and its runs.
3. `Voyage` and its run.
4. `Search` over `Voyage`.
5. `Browse`: traversal and listing.
6. `Server`.
7. `MemoryGraphProofs`, with `TagsAreABook` as a refinement theorem.
8. `ServerProofs` and `VoyageProofs`.
9. `BrowseProofs`, `SearchLemmas` and `SearchProofs`.
10. Possible next: that `Search` implements an abstract specification of one call (asked,
    answered once), and that the embedding `add_memory` stores is one of the births
    `MemoryLifecycle` allows.
