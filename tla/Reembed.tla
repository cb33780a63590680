------------------------------- MODULE Reembed -------------------------------
(***************************************************************************)
(* Re-embedding passes over the memory pool.                               *)
(*                                                                         *)
(* internal/reembed.Run is the one loop that both the boot-time backfill   *)
(* (cmd/server/main.go) and the reembed_memories tool execute, and any     *)
(* number of them run at once while add_memory and delete_memory change    *)
(* the pool.  Each call of Run is a member of Runs; one action is one      *)
(* blocking call of the loop (a page query, an Embed, an UpdateEmbedding)  *)
(* with the bookkeeping the code does before the next call.                *)
(*                                                                         *)
(* Memory ids are UUIDv7: their order is the order in which they were      *)
(* minted, so an id is the number of its minting and 0 is the empty        *)
(* cursor "".  The contents of texts and vectors are left out: nothing     *)
(* here depends on them, only on whether a vector came back.               *)
(***************************************************************************)
EXTENDS Naturals, FiniteSets

CONSTANTS
    Runs,           \* slots for concurrent calls of reembed.Run
    Boot,           \* the slot of the backfill goroutine that main starts;
                    \* outside Runs, that goroutine has already ended
    BatchSize,      \* opts.BatchSize, 128 in production
    SeedIds,        \* ids minted before the modelled period starts
    MaxIds,         \* bound: ids ever minted
    Limits,         \* values of the tool's "limit" argument; 0 means no cap
    Scopes,         \* scopes the tool is called with
    MaxCrashes      \* bound: process restarts

ASSUME ConstantsOK ==
    /\ BatchSize \in Nat \ {0}
    /\ SeedIds \in Nat /\ MaxIds \in Nat /\ SeedIds <= MaxIds
    /\ MaxCrashes \in Nat
    /\ Limits \subseteq Nat
    /\ Scopes \subseteq {"missing", "all", "one"}

VARIABLES
    minted,     \* how many ids uuid.NewV7 has handed out
    adding,     \* add_memory transactions in flight, [id, vec] records
    live,       \* ids of the Memory nodes in Neo4j
    embedded,   \* those of them whose embedding is not NULL
    deleted,    \* ghost: ids that were live once and are no more
    counted,    \* ghost: ids ever counted in the Succeeded of any Result,
                \* those of calls that died with their process included
    run,        \* the local state of each call of Run
    crashes     \* how many times the process has restarted

pool == <<minted, adding, live, embedded, deleted>>
vars == <<pool, counted, run, crashes>>

Ids == 1 .. MaxIds

(***************************************************************************)
(* The local state of one call.                                            *)
(***************************************************************************)
Pcs == {"idle", "fetch", "embed", "update", "content", "embedOne",
        "updateOne", "done"}

Errors == {"none", "cancelled", "fetch", "embed", "noProgress", "notFound",
           "noVector", "update"}

RunState ==
    [ pc        : Pcs,
      scope     : {"missing", "all", "one"},
      max       : Nat,          \* opts.Max
      cancelled : BOOLEAN,      \* ctx is done
      cursor    : Nat,          \* afterID
      n         : Nat,          \* the limit of the current page
      batch     : SUBSET Nat,   \* pending
      todo      : SUBSET Nat,   \* members of pending the loop has not reached
      vecs      : SUBSET Nat,   \* members of pending with a non-empty vector
      gained    : Nat,          \* batchSucceeded
      processed : Nat, succeeded : Nat, failed : Nat,
      failures  : SUBSET Nat,   \* ids listed in Result.Failures
      ok        : SUBSET Nat,   \* ghost: ids counted in Result.Succeeded
      start     : SUBSET Nat,   \* ghost: the pass's targets when it started
      err       : Errors ]      \* the error Run returned, once done

Idle ==
    [ pc |-> "idle", scope |-> "missing", max |-> 0, cancelled |-> FALSE,
      cursor |-> 0, n |-> 0, batch |-> {}, todo |-> {}, vecs |-> {},
      gained |-> 0, processed |-> 0, succeeded |-> 0, failed |-> 0,
      failures |-> {}, ok |-> {}, start |-> {}, err |-> "none" ]

Missing == live \ embedded

\* What a scope selects at this moment.
Targets(scope) == IF scope = "all" THEN live ELSE Missing

\* A fresh pass over a scope: Run up to the top of its loop.
Pass(scope, max) ==
    [Idle EXCEPT !.pc = "fetch", !.scope = scope, !.max = max,
                 !.start = Targets(scope)]

\* Run returns: its Result and error stay visible, its locals do not.
Return(s, e) == [s EXCEPT !.pc = "done", !.err = e, !.cursor = 0, !.n = 0,
                          !.vecs = {}, !.cancelled = FALSE]

Succeed(s, i) ==
    [s EXCEPT !.succeeded = @ + 1, !.ok = @ \cup {i}, !.gained = @ + 1]

Fail(s, i) == [s EXCEPT !.failed = @ + 1, !.failures = @ \cup {i}]

(***************************************************************************)
(* Initial state: some memories survive from earlier; the process has      *)
(* just connected and main has started the backfill goroutine.             *)
(***************************************************************************)
Booted == [r \in Runs |-> IF r = Boot THEN Pass("missing", 0) ELSE Idle]

Init ==
    /\ minted = SeedIds
    /\ adding = {}
    /\ live \in SUBSET (1 .. SeedIds)
    /\ embedded \in SUBSET live
    /\ deleted = (1 .. SeedIds) \ live
    /\ counted = {}
    /\ run = Booted
    /\ crashes = 0

(***************************************************************************)
(* add_memory and delete_memory, as far as the pool sees them.             *)
(***************************************************************************)
\* The handler has embedded the content (vec: a non-empty vector came back;
\* an error or an empty vector leaves the embedding NULL) and the repository
\* takes the next id; its transaction is not committed yet.
MintId(vec) ==
    /\ minted < MaxIds
    /\ minted' = minted + 1
    /\ adding' = adding \cup {[id |-> minted + 1, vec |-> vec]}
    /\ UNCHANGED <<live, embedded, deleted, counted, run, crashes>>

\* The CREATE commits; the client may or may not see the acknowledgement.
CommitAdd(a) ==
    /\ adding' = adding \ {a}
    /\ live' = live \cup {a.id}
    /\ embedded' = IF a.vec THEN embedded \cup {a.id} ELSE embedded
    /\ UNCHANGED <<minted, deleted, counted, run, crashes>>

\* The CREATE fails and rolls back; the id is never used again.
AbortAdd(a) ==
    /\ adding' = adding \ {a}
    /\ UNCHANGED <<minted, live, embedded, deleted, counted, run, crashes>>

DeleteMemory(i) ==
    /\ i \in live
    /\ live' = live \ {i}
    /\ embedded' = embedded \ {i}
    /\ deleted' = deleted \cup {i}
    /\ UNCHANGED <<minted, adding, counted, run, crashes>>

(***************************************************************************)
(* Starting and cancelling a call of Run.                                  *)
(***************************************************************************)
\* A local step of call r, which leaves the pool alone.
Step(r, s) == run' = [run EXCEPT ![r] = s] /\ UNCHANGED <<pool, counted, crashes>>

BeginPass(r, scope, max) ==
    /\ run[r].pc = "idle"
    /\ scope \in Scopes \ {"one"}
    /\ Step(r, Pass(scope, max))

BeginOne(r, i) ==
    /\ run[r].pc = "idle"
    /\ "one" \in Scopes
    /\ Step(r, [Idle EXCEPT !.pc = "content", !.scope = "one", !.batch = {i},
                            !.processed = 1])

\* The client goes away, or the server shuts down: ctx is done from here on.
Cancel(r) ==
    /\ run[r].pc \notin {"idle", "done"}
    /\ ~run[r].cancelled
    /\ Step(r, [run[r] EXCEPT !.cancelled = TRUE])

(***************************************************************************)
(* The top of the loop: context, cap, page.                                *)
(***************************************************************************)
AtCap(s) == s.max > 0 /\ s.processed >= s.max

\* Mutant: the page limit ignores what is left under the cap.
RoomOverCap(s) == BatchSize

\* The page limit: the batch size, or what is left under the cap.
Room(s) ==
    IF s.max > 0 /\ s.max - s.processed < BatchSize
    THEN s.max - s.processed
    ELSE BatchSize

\* Mutant: the cursor query uses id >= afterID.
CandidatesInclusive(s) ==
    IF s.scope = "all" THEN {i \in live : i >= s.cursor} ELSE Missing

Candidates(s) ==
    IF s.scope = "all" THEN {i \in live : i > s.cursor} ELSE Missing

\* Mutant: the scope=all query forgets its ORDER BY.
UnorderedPage(s, B, k) ==
    /\ B \subseteq Candidates(s)
    /\ Cardinality(B) <= k
    /\ Cardinality(B) < k => B = Candidates(s)

\* B is a page of at most k candidates.  ListAllForReembed orders by id;
\* MissingEmbeddings has a LIMIT but no ORDER BY, so any k rows will do.
IsPage(s, B, k) ==
    /\ B \subseteq Candidates(s)
    /\ Cardinality(B) <= k
    /\ Cardinality(B) < k => B = Candidates(s)
    /\ s.scope = "all" => \A i \in B : \A j \in Candidates(s) \ B : i < j

StopCancelled(r) ==
    /\ run[r].pc = "fetch"
    /\ run[r].cancelled
    /\ Step(r, Return(run[r], "cancelled"))

StopAtCap(r) ==
    /\ run[r].pc = "fetch"
    /\ AtCap(run[r])
    /\ Step(r, Return(run[r], "none"))

FetchFails(r) ==
    /\ run[r].pc = "fetch"
    /\ ~AtCap(run[r])
    /\ Step(r, Return(run[r], "fetch"))

FetchEmpty(r) ==
    /\ run[r].pc = "fetch" /\ ~run[r].cancelled
    /\ ~AtCap(run[r])
    /\ Candidates(run[r]) = {}
    /\ Step(r, Return(run[r], "none"))

FetchPage(r, B) ==
    /\ run[r].pc = "fetch" /\ ~run[r].cancelled
    /\ ~AtCap(run[r])
    /\ B # {}
    /\ IsPage(run[r], B, Room(run[r]))
    /\ Step(r, [run[r] EXCEPT !.pc = "embed", !.n = Room(run[r]), !.batch = B,
                              !.todo = B, !.gained = 0])

(***************************************************************************)
(* The Embed call on the page.                                             *)
(***************************************************************************)
\* The embedder answers; V are the entries that got a non-empty vector (it
\* may return fewer vectors than texts).
EmbedPage(r, V) ==
    /\ run[r].pc = "embed" /\ ~run[r].cancelled
    /\ V \subseteq run[r].batch
    /\ Step(r, [run[r] EXCEPT !.pc = "update", !.vecs = V])

\* Mutant: the failed page is listed but not counted as processed.
EmbedFailsUncounted(r) ==
    /\ run[r].pc = "embed"
    /\ LET s == run[r] IN
       Step(r, Return([s EXCEPT !.failed = @ + Cardinality(s.batch),
                                !.failures = @ \cup s.batch,
                                !.todo = {}], "embed"))

\* Mutant: a failing embedder is asked again instead of bailing out.
EmbedFailsAskAgain(r) ==
    /\ run[r].pc = "embed"
    /\ Step(r, [run[r] EXCEPT !.pc = "fetch"])

\* The embedder fails: the whole page is recorded as failed and Run returns.
EmbedFails(r) ==
    /\ run[r].pc = "embed"
    /\ LET s == run[r] IN
       Step(r, Return([s EXCEPT !.processed = @ + Cardinality(s.batch),
                                !.failed = @ + Cardinality(s.batch),
                                !.failures = @ \cup s.batch,
                                !.todo = {}], "embed"))

(***************************************************************************)
(* UpdateEmbedding: MATCH the node and SET its embedding, in one           *)
(* transaction.  It answers ok, not found (no row), or an error: the       *)
(* transaction did not run, or it committed and the answer was lost.       *)
(***************************************************************************)
\* Mutant: the query MERGEs the node, which creates one that is not there.
MergeEmbedding(s, i, out) ==
    \/ out = "ok" /\ ~s.cancelled
          /\ live' = live \cup {i} /\ embedded' = embedded \cup {i}
    \/ out = "error" /\ UNCHANGED <<live, embedded>>

UpdateEmbedding(s, i, out) ==
    /\ UNCHANGED live
    /\ \/ out = "ok" /\ ~s.cancelled /\ i \in live /\ embedded' = embedded \cup {i}
       \/ out = "notFound" /\ ~s.cancelled /\ i \notin live /\ UNCHANGED embedded
       \/ out = "error" /\ embedded' \in {embedded, embedded \cup ({i} \cap live)}

Outcomes == {"ok", "notFound", "error"}

\* The next entry of pending: in id order for scope all, unspecified for
\* scope missing.
IsNext(s, i) == i \in s.todo /\ (s.scope = "all" => \A j \in s.todo : i <= j)

Count(s, i) == [s EXCEPT !.processed = @ + 1, !.todo = @ \ {i}]

\* vecs[i] is absent or empty: no write is attempted.
SkipItem(r, i) ==
    /\ run[r].pc = "update"
    /\ IsNext(run[r], i) /\ i \notin run[r].vecs
    /\ Step(r, Fail(Count(run[r], i), i))

\* Mutant: an UpdateEmbedding error is logged, and the loop goes on counting.
UpdateItemErrorIgnored(r, i, out) ==
    /\ run[r].pc = "update"
    /\ IsNext(run[r], i) /\ i \in run[r].vecs
    /\ UpdateEmbedding(run[r], i, out)
    /\ run' = [run EXCEPT ![r] = Succeed(Count(@, i), i)]
    /\ counted' = counted \cup {i}
    /\ UNCHANGED <<minted, adding, deleted, crashes>>

UpdateItem(r, i, out) ==
    /\ run[r].pc = "update"
    /\ IsNext(run[r], i) /\ i \in run[r].vecs
    /\ UpdateEmbedding(run[r], i, out)
    /\ LET s == Count(run[r], i) IN
       run' = [run EXCEPT ![r] = IF out = "ok" THEN Succeed(s, i) ELSE Fail(s, i)]
    /\ counted' = IF out = "ok" THEN counted \cup {i} ELSE counted
    /\ UNCHANGED <<minted, adding, deleted, crashes>>

(***************************************************************************)
(* The bottom of the loop.                                                 *)
(***************************************************************************)
PageDone(r) == run[r].pc = "update" /\ run[r].todo = {}

\* Scope missing relies on rows leaving the NULL pool to advance.
Stalled(s) == s.scope = "missing" /\ s.gained = 0

\* Mutant: a full page is taken for the last one.
ShortPageOffByOne(s) == Cardinality(s.batch) <= s.n

\* A short page means there was nothing behind it.
ShortPage(s) == Cardinality(s.batch) < s.n

NoProgress(r) ==
    /\ PageDone(r)
    /\ Stalled(run[r])
    /\ Step(r, Return(run[r], "noProgress"))

LastPage(r) ==
    /\ PageDone(r)
    /\ ~Stalled(run[r])
    /\ ShortPage(run[r])
    /\ Step(r, Return(run[r], "none"))

\* Scope all moves its cursor to the last id of the page.
NextPage(r, last) ==
    /\ PageDone(r)
    /\ ~Stalled(run[r])
    /\ ~ShortPage(run[r])
    /\ last \in run[r].batch
    /\ \A i \in run[r].batch : i <= last
    /\ Step(r, [run[r] EXCEPT !.pc = "fetch", !.n = 0, !.batch = {}, !.vecs = {},
                              !.cursor = IF run[r].scope = "all" THEN last ELSE 0])

(***************************************************************************)
(* runOne: the id argument was given.  A call that cannot read the content *)
(* returns no Result at all.                                               *)
(***************************************************************************)
ReadContent(r) ==
    /\ run[r].pc = "content" /\ ~run[r].cancelled
    /\ run[r].batch \subseteq live
    /\ Step(r, [run[r] EXCEPT !.pc = "embedOne"])

ContentGone(r) ==
    /\ run[r].pc = "content" /\ ~run[r].cancelled
    /\ ~(run[r].batch \subseteq live)
    /\ Step(r, Return([Idle EXCEPT !.scope = "one"], "notFound"))

ContentFails(r) ==
    /\ run[r].pc = "content"
    /\ Step(r, Return([Idle EXCEPT !.scope = "one"], "fetch"))

EmbedOne(r) ==
    /\ run[r].pc = "embedOne" /\ ~run[r].cancelled
    /\ Step(r, [run[r] EXCEPT !.pc = "updateOne"])

\* An error, or an answer without a usable vector.
EmbedOneFails(r, e) ==
    /\ run[r].pc = "embedOne"
    /\ e = "noVector" => ~run[r].cancelled
    /\ \E i \in run[r].batch : Step(r, Return(Fail(run[r], i), e))

UpdateOne(r, i, out) ==
    /\ run[r].pc = "updateOne"
    /\ i \in run[r].batch
    /\ UpdateEmbedding(run[r], i, out)
    /\ run' = [run EXCEPT ![r] =
                 CASE out = "ok"       -> Return(Succeed(@, i), "none")
                   [] out = "notFound" -> Return(Fail(@, i), "notFound")
                   [] out = "error"    -> Return(Fail(@, i), "update")]
    /\ counted' = IF out = "ok" THEN counted \cup {i} ELSE counted
    /\ UNCHANGED <<minted, adding, deleted, crashes>>

(***************************************************************************)
(* The process dies and restarts: every call and every open transaction is *)
(* lost, the store is not, and main starts a new backfill.  The ghost      *)
(* counted outlives the calls: their callers, or the log, have seen it.    *)
(***************************************************************************)
Restart ==
    /\ crashes < MaxCrashes
    /\ crashes' = crashes + 1
    /\ adding' = {}
    /\ run' = [r \in Runs |-> IF r = Boot THEN Pass("missing", 0) ELSE Idle]
    /\ UNCHANGED <<minted, live, embedded, deleted, counted>>

(***************************************************************************)
(* The specification.                                                      *)
(***************************************************************************)
\* What one call of Run does by itself, given that its callees answer.
PassStep(r) ==
    \/ StopCancelled(r) \/ StopAtCap(r) \/ FetchFails(r) \/ FetchEmpty(r)
    \/ \E B \in SUBSET live : FetchPage(r, B)
    \/ \E V \in SUBSET run[r].batch : EmbedPage(r, V)
    \/ EmbedFails(r)
    \/ \E i \in run[r].todo : SkipItem(r, i)
    \/ \E i \in run[r].todo, out \in Outcomes : UpdateItem(r, i, out)
    \/ NoProgress(r) \/ LastPage(r)
    \/ \E last \in run[r].batch : NextPage(r, last)

OneStep(r) ==
    \/ ReadContent(r) \/ ContentGone(r) \/ ContentFails(r)
    \/ EmbedOne(r)
    \/ \E e \in {"embed", "noVector"} : EmbedOneFails(r, e)
    \/ \E i \in run[r].batch, out \in Outcomes : UpdateOne(r, i, out)

Tools ==
    \/ \E vec \in BOOLEAN : MintId(vec)
    \/ \E a \in adding : CommitAdd(a) \/ AbortAdd(a)
    \/ \E i \in live : DeleteMemory(i)
    \/ \E r \in Runs, scope \in Scopes, max \in Limits : BeginPass(r, scope, max)
    \/ \E r \in Runs, i \in Ids : BeginOne(r, i)

Next ==
    \/ Tools
    \/ \E r \in Runs : PassStep(r) \/ OneStep(r) \/ Cancel(r)
    \/ Restart

Spec == Init /\ [][Next]_vars

\* A goroutine that can run does: every call of the embedder returns in the
\* end (the http client's timeout, a bounded number of attempts), and so, it is
\* assumed, does every call of the driver.
FairSpec == Spec /\ \A r \in Runs : WF_vars(PassStep(r) \/ OneStep(r))

(***************************************************************************)
(* Properties.                                                             *)
(***************************************************************************)
\* Every variable has its type; a memory that is not live has no embedding and
\* a deleted one is not live again, whichever write of whichever pass was under
\* way when it was deleted.
TypeOK ==
    /\ minted \in Nat
    /\ adding \in SUBSET [id : 1 .. minted, vec : BOOLEAN]
    /\ live \in SUBSET (1 .. minted)
    /\ embedded \in SUBSET live
    /\ deleted \in SUBSET ((1 .. minted) \ live)
    /\ counted \in SUBSET (1 .. minted)
    /\ run \in [Runs -> RunState]
    /\ crashes \in Nat

\* "succeeded + failed always equals processed" (reembed.go:42), for every
\* Result the callers can see.
ResultAddsUp ==
    \A r \in Runs : run[r].pc = "done" =>
        run[r].processed = run[r].succeeded + run[r].failed

\* "Max memories to process in this call" (the tool's limit argument): the
\* cap holds although pages, not memories, are what the loop asks for.
LimitRespected ==
    \A r \in Runs : run[r].max > 0 => run[r].processed <= run[r].max

\* A memory counted as succeeded has its embedding from then on, until it is
\* deleted: whatever other passes, writes whose answer is lost and deletes do,
\* and also after the process that counted it has died.
SuccessIsDurable == counted \subseteq embedded \cup deleted

\* A scope=all pass visits no memory twice, whatever is added and deleted
\* while it scans: the memories it accounts for are as many as it counts.
AllVisitsOnce ==
    \A r \in Runs : run[r].scope = "all" =>
        /\ run[r].ok \cap run[r].failures = {}
        /\ run[r].processed = Cardinality(run[r].ok \cup run[r].failures)

\* A scope=all pass that returns without an error and below its cap has
\* accounted for every memory that was there when it started and still is.
SweepComplete ==
    \A r \in Runs :
        LET s == run[r] IN
        s.pc = "done" /\ s.err = "none" /\ s.scope = "all" /\ ~AtCap(s) =>
            s.start \ deleted \subseteq s.ok \cup s.failures

\* A scope=missing pass that returns without an error and below its cap
\* leaves none of its targets behind silently: each has its embedding, is
\* listed in Failures, or was deleted.
BackfillComplete ==
    \A r \in Runs :
        LET s == run[r] IN
        s.pc = "done" /\ s.err = "none" /\ s.scope = "missing" /\ ~AtCap(s) =>
            s.start \ deleted \subseteq embedded \cup s.failures

\* Every call of Run ends, or dies with its process.  (MaxIds is more than a
\* bound here: were memories without an embedding added for ever, a pass of
\* scope missing, which has no cursor, would always find another page.)
EveryPassEnds ==
    \A r \in Runs : run[r].pc # "idle" ~> run[r].pc \in {"done", "idle"}

(***************************************************************************)
(* Refinement: each memory lives the life MemoryLifecycle allows.          *)
(***************************************************************************)
StatusOf(i) ==
    IF i \in embedded THEN "embedded"
    ELSE IF i \in live THEN "plain"
    ELSE IF i \in deleted THEN "deleted"
    ELSE "unborn"

Lifecycle == INSTANCE MemoryLifecycle WITH status <- [i \in Ids |-> StatusOf(i)]

\* No interleaving of handlers, passes and restarts revives a deleted memory
\* or takes an embedding away: UpdateEmbedding is a MATCH, never a MERGE.
MemoriesLiveOnce == Lifecycle!LifeSpec

(***************************************************************************)
(* What comments of the code say that its behaviour does not bear out.     *)
(***************************************************************************)
\* reembed.go:41: Failures lists "memories that failed to re-embed".
FailuresStayFailed == \A r \in Runs : run[r].ok \cap run[r].failures = {}

\* repository.go:664: ids are time-ordered, so the id-cursor pagination is
\* "stable and creation-order": no memory is created behind one that exists.
CreatedInIdOrder ==
    [][\A i \in live' \ live : \A j \in live : j < i]_vars

(***************************************************************************)
(* The inductive invariant behind the safety properties.  Its parts speak  *)
(* of one call s and of the store it runs against: lv, em and de stand for *)
(* live, embedded and deleted.                                             *)
(***************************************************************************)
Seen(s) == s.ok \cup s.failures

OnPage(s) == s.pc \in {"embed", "update"}

Finished(s) == s.pc = "done" /\ s.err = "none" /\ ~AtCap(s)

\* Which part of Run a call is in, and what its page looks like there.
PageInv(s) ==
    /\ s.pc \in {"fetch", "embed", "update"} => s.scope \in {"missing", "all"}
    /\ s.pc \in {"content", "embedOne", "updateOne"} =>
          s.scope = "one" /\ s.succeeded = 0 /\ s.failed = 0 /\ s.processed = 1
    /\ OnPage(s) =>
          /\ IsFiniteSet(s.batch) /\ s.todo \subseteq s.batch
          /\ s.batch \ s.todo \subseteq Seen(s)
    /\ s.pc = "embed" => s.todo = s.batch

CountInv(s) ==
    s.scope # "one" \/ s.pc = "done" => s.processed = s.succeeded + s.failed

\* What is left of the page still fits under the cap.
CapInv(s) ==
    s.max > 0 =>
        /\ s.scope # "one"
        /\ s.processed + (IF OnPage(s) THEN Cardinality(s.todo) ELSE 0) <= s.max

DurableInv(s, lv, em, de) ==
    /\ s.ok \subseteq em \cup de
    /\ s.start \subseteq lv \cup de

\* The cursor splits the ids: behind it everything that was there at the
\* start is accounted for, and what the page misses lies beyond the page.
SweepInv(s, de) ==
    s.scope = "all" =>
        /\ s.pc = "fetch" =>
              \A i \in s.start \ de : i <= s.cursor => i \in Seen(s)
        /\ OnPage(s) =>
              \A i \in s.start \ de :
                  \/ i \in Seen(s) \cup s.todo
                  \/ ~ShortPage(s) /\ \A b \in s.batch : b < i
        /\ Finished(s) => s.start \ de \subseteq Seen(s)

BackfillInv(s, em, de) ==
    s.scope = "missing" =>
        /\ OnPage(s) /\ ShortPage(s) => s.start \subseteq de \cup em \cup s.batch
        /\ Finished(s) => s.start \ de \subseteq em \cup s.failures

\* A scope=all pass has seen nothing beyond its cursor but what it has ticked
\* off its current page.
OnceInv(s) ==
    s.scope = "all" =>
        /\ IsFiniteSet(s.ok) /\ IsFiniteSet(s.failures)
        /\ s.ok \cap s.failures = {}
        /\ s.processed = Cardinality(Seen(s))
        /\ s.pc = "fetch" => \A i \in Seen(s) : i <= s.cursor
        /\ OnPage(s) =>
              /\ \A i \in s.batch : i > s.cursor
              /\ \A i \in Seen(s) : i <= s.cursor \/ i \in s.batch \ s.todo

CallInv(s, lv, em, de) ==
    /\ PageInv(s) /\ CountInv(s) /\ CapInv(s) /\ DurableInv(s, lv, em, de)
    /\ SweepInv(s, de) /\ BackfillInv(s, em, de) /\ OnceInv(s)

\* What was counted is in the store, and an id in flight was never committed.
StoreInv ==
    /\ minted <= MaxIds
    /\ counted \subseteq embedded \cup deleted
    /\ \A a \in adding : a.id \notin live \cup deleted
    /\ \A a, b \in adding : a.id = b.id => a = b

IndInv ==
    /\ TypeOK
    /\ StoreInv
    /\ \A r \in Runs : CallInv(run[r], live, embedded, deleted)
==============================================================================
