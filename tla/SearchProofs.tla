---------------------------- MODULE SearchProofs ----------------------------
(***************************************************************************)
(* Proofs about Search, for any number of memories, any limits and any     *)
(* tuning: what the handlers of search_memory and add_memory answer.  What *)
(* the pure parts compute is in SearchLemmas, what Embed does in           *)
(* VoyageProofs.                                                           *)
(***************************************************************************)
EXTENDS SearchLemmas, VoyageProofs

(***************************************************************************)
(* The inductive invariant.                                                *)
(***************************************************************************)
\* Nothing has happened before a call comes.
IdleInv ==
    req = NoRequest => text = "off" /\ vector = "off" /\ reply = NoReply /\ stored = "no"

\* Which queries a mode makes: a semantic search turns to fulltext only for want
\* of a vector.
ModeInv ==
    /\ req.limit \in Nat
    /\ req.mode = "fulltext" => vector = "off"
    /\ req.mode = "add" => text = "off"
    /\ req.mode = "semantic" /\ text # "off" => vector = "none"

\* A handler answers when nothing it started is under way.
DoneInv == reply # NoReply => text # "query" /\ vector \notin {"embed", "query"}

\* What the queries found is what they could find, cut as they were asked.
ResultsInv ==
    /\ text = "ok" => ft.hits = SearchFulltext(ft.rank, Asked)
    /\ knn.close \in 0 .. Len(knn.near)
    /\ vector = "ok" => /\ knn.hits = SearchSemantic(knn.near, knn.tagged, Asked)
                        /\ req.mode = "add" => knn.tagged = Docs

\* Embed has returned before anything is stored.
StoredInv == stored # "no" => stored = StoredAs(err, out) /\ vector # "embed"

AnswersInv ==
    /\ FallbackKeepsAnswer
    /\ SemanticNearest
    /\ FusionRespectsRanks
    /\ SuggestionsRight
    /\ StoredIsRecoverable

SearchInv ==
    EmbedInv /\ SearchTypeOK /\ IdleInv /\ ModeInv /\ DoneInv /\ ResultsInv /\ StoredInv /\ AnswersInv

(***************************************************************************)
(* What the steps have in common.                                          *)
(***************************************************************************)
\* What the handlers cut and ask for are numbers.
LEMMA AskedIs ==
    ASSUME req.limit \in Nat
    PROVE  Asked \in Nat /\ Suggest \in Nat /\ SuggestionCandidates \in Nat
<1>1. Suggest \in Nat /\ SuggestionCandidates \in Nat
  BY SearchConstantsOK DEF SearchConstantsOK, SuggestionCandidates
<1> QED BY <1>1 DEF Asked

\* No ranking, and the first of one, are rankings.
LEMMA EmptyRanking == <<>> \in Rankings
<1>1. 0 \in 0 .. MaxDoc
  BY DocsFinite
<1>2. PICK s : s = <<>> /\ s \in [1 .. 0 -> Docs]
  <2>1. <<>> \in [1 .. 0 -> Docs]
    OBVIOUS
  <2> QED BY <2>1, Zenon
<1>3. \A i, j \in 1 .. 0 : s[i] = s[j] => i = j
  OBVIOUS
<1>4. s \in Rankings
  BY <1>1, <1>2, <1>3, IsRanking
<1> QED BY <1>2, <1>4

\* What add_memory stores for an embedding is never an empty list.
LEMMA StoredAsIs == \A e, vecs : StoredAs(e, vecs) \in {"null", "vector"}
BY DEF StoredAs, Usable

\* While nothing is answered the answers cannot be wrong.
LEMMA Unanswered ==
    ASSUME reply' = NoReply, stored' # "empty"
    PROVE  AnswersInv'
BY DEF AnswersInv, FallbackKeepsAnswer, SemanticNearest, FusionRespectsRanks, SuggestionsRight,
       StoredIsRecoverable, NoReply

(***************************************************************************)
(* A call comes.                                                           *)
(***************************************************************************)
\* search_memory is called.
LEMMA BeginSearchOK ==
    ASSUME SearchInv, NEW mode \in Modes, NEW limit \in Limits, BeginSearch(mode, limit)
    PROVE  SearchInv'
<1>1. EmbedInv'
  BY CancelledOK DEF SearchInv, BeginSearch, vars, EmbedInv, TypeOK
<1>2. SearchTypeOK'
  BY <1>1 DEF SearchInv, SearchTypeOK, BeginSearch, EmbedInv, VectorStages
<1>3. IdleInv' /\ ModeInv' /\ DoneInv' /\ StoredInv'
  <2>1. limit \in Nat /\ req' # NoRequest
    BY SearchConstantsOK DEF SearchConstantsOK, BeginSearch, NoRequest, Modes
  <2> QED BY <2>1 DEF SearchInv, IdleInv, ModeInv, DoneInv, StoredInv, BeginSearch, Modes
<1>4. ResultsInv'
  BY DEF SearchInv, ResultsInv, BeginSearch
<1>5. reply' = NoReply /\ stored' = "no"
  BY DEF SearchInv, IdleInv, BeginSearch
<1> QED BY <1>1, <1>2, <1>3, <1>4, <1>5, Unanswered DEF SearchInv

\* A blank query is answered at once.
LEMMA BeginBlankOK ==
    ASSUME SearchInv, NEW mode \in Modes, BeginBlank(mode)
    PROVE  SearchInv'
<1>1. EmbedInv'
  BY CancelledOK DEF SearchInv, BeginBlank, vars, EmbedInv, TypeOK
<1>2. SearchTypeOK'
  <2>1. reply'.hits \in Rankings /\ reply'.status = "answer"
    BY EmptyRanking DEF BeginBlank, Answer
  <2> QED BY <1>1, <2>1 DEF SearchInv, SearchTypeOK, BeginBlank, EmbedInv
<1>3. IdleInv' /\ ModeInv' /\ DoneInv' /\ StoredInv'
  <2>1. DefaultLimit \in Nat /\ req' # NoRequest
    BY SearchConstantsOK DEF SearchConstantsOK, BeginBlank, NoRequest, Modes
  <2> QED BY <2>1 DEF SearchInv, IdleInv, ModeInv, DoneInv, StoredInv, BeginBlank, Modes
<1>4. ResultsInv'
  BY DEF SearchInv, IdleInv, ResultsInv, BeginBlank
<1>5. AnswersInv'
  BY DEF SearchInv, IdleInv, AnswersInv, FallbackKeepsAnswer, SemanticNearest, FusionRespectsRanks,
         SuggestionsRight, StoredIsRecoverable, BeginBlank, Answer, Modes
<1> QED BY <1>1, <1>2, <1>3, <1>4, <1>5 DEF SearchInv

\* add_memory is called.
LEMMA BeginAddOK ==
    ASSUME SearchInv, NEW suggest \in BOOLEAN, BeginAdd(suggest)
    PROVE  SearchInv'
<1>1. EmbedInv'
  BY CancelledOK DEF SearchInv, BeginAdd, vars, EmbedInv, TypeOK
<1>2. SearchTypeOK'
  BY <1>1 DEF SearchInv, SearchTypeOK, BeginAdd, EmbedInv, VectorStages
<1>3. IdleInv' /\ ModeInv' /\ DoneInv' /\ StoredInv'
  <2>1. Suggest \in Nat /\ req' # NoRequest
    BY SearchConstantsOK DEF SearchConstantsOK, BeginAdd, NoRequest
  <2> QED BY <2>1 DEF SearchInv, IdleInv, ModeInv, DoneInv, StoredInv, BeginAdd
<1>4. ResultsInv'
  BY DEF SearchInv, IdleInv, ResultsInv, BeginAdd
<1>5. reply' = NoReply /\ stored' = "no"
  BY DEF SearchInv, IdleInv, BeginAdd
<1> QED BY <1>1, <1>2, <1>3, <1>4, <1>5, Unanswered DEF SearchInv

(***************************************************************************)
(* Embed runs and returns.                                                 *)
(***************************************************************************)
\* Nothing but the call of Embed moves, and nothing is stored yet.
LEMMA EmbeddingMoves ==
    ASSUME SearchInv, vector = "embed", EmbedInv', UNCHANGED searchVars
    PROVE  SearchInv'
<1>1. stored = "no" /\ reply = NoReply
  BY DEF SearchInv, StoredInv, DoneInv
<1>2. UNCHANGED <<req, text, vector, ft, knn, stored, reply>>
  BY DEF searchVars
<1>3. SearchTypeOK'
  BY <1>2 DEF SearchInv, SearchTypeOK, EmbedInv
<1>4. IdleInv' /\ ModeInv' /\ DoneInv' /\ StoredInv'
  BY <1>1, <1>2 DEF SearchInv, IdleInv, ModeInv, DoneInv, StoredInv
<1>5. ResultsInv'
  BY <1>2 DEF SearchInv, ResultsInv, Asked
<1>6. reply' = NoReply /\ stored' = "no"
  BY <1>1, <1>2
<1> QED BY <1>3, <1>4, <1>5, <1>6, Unanswered DEF SearchInv

\* Embed starts, or goes on: its own lemmas apply.
LEMMA EmbeddingOK ==
    ASSUME SearchInv, Embedding
    PROVE  SearchInv'
<1>1. 1 \in 0 .. MaxTexts
  BY VoyageConstantsOK, SearchConstantsOK DEF VoyageConstantsOK, SearchConstantsOK
<1>2. EmbedInv'
  BY <1>1, CallOK, AttemptOK DEF SearchInv, Embedding
<1> QED BY <1>2, EmbeddingMoves DEF Embedding

\* The caller's context ends.
LEMMA ClientLeavesOK ==
    ASSUME SearchInv, ClientLeaves
    PROVE  SearchInv'
<1>1. EmbedInv'
  BY CancelledOK DEF SearchInv, ClientLeaves, Cancel
<1> QED BY <1>1, EmbeddingMoves DEF ClientLeaves

\* A semantic search goes on with its vector or turns to fulltext.
LEMMA EmbedEndsSemanticOK ==
    ASSUME SearchInv, EmbedEndsSemantic
    PROVE  SearchInv'
<1>1. EmbedInv'
  BY CancelledOK DEF SearchInv, EmbedEndsSemantic, vars, EmbedInv, TypeOK
<1>2. text' \in {text, "query"} /\ vector' \in {"none", "empty", "query"}
  BY DEF EmbedEndsSemantic
<1>3. SearchTypeOK'
  BY <1>1, <1>2 DEF SearchInv, SearchTypeOK, EmbedEndsSemantic, EmbedInv, VectorStages
<1>4. reply' = NoReply /\ stored' = "no" /\ req' = req /\ req # NoRequest
  BY DEF SearchInv, IdleInv, DoneInv, StoredInv, EmbedEndsSemantic
<1>5. IdleInv' /\ ModeInv' /\ DoneInv' /\ StoredInv'
  BY <1>4 DEF SearchInv, IdleInv, ModeInv, DoneInv, StoredInv, EmbedEndsSemantic
<1>6. ResultsInv'
  BY <1>2 DEF SearchInv, ResultsInv, ModeInv, Asked, EmbedEndsSemantic
<1> QED BY <1>1, <1>3, <1>4, <1>5, <1>6, Unanswered DEF SearchInv

\* The vector half of a hybrid search goes on or is given up.
LEMMA EmbedEndsHybridOK ==
    ASSUME SearchInv, EmbedEndsHybrid
    PROVE  SearchInv'
<1>1. EmbedInv'
  BY CancelledOK DEF SearchInv, EmbedEndsHybrid, vars, EmbedInv, TypeOK
<1>2. vector' \in {"none", "query"}
  BY DEF EmbedEndsHybrid
<1>3. SearchTypeOK'
  BY <1>1, <1>2 DEF SearchInv, SearchTypeOK, EmbedEndsHybrid, EmbedInv, VectorStages
<1>4. reply' = NoReply /\ stored' = "no" /\ req' = req /\ req # NoRequest
  BY DEF SearchInv, IdleInv, DoneInv, StoredInv, EmbedEndsHybrid
<1>5. IdleInv' /\ ModeInv' /\ DoneInv' /\ StoredInv'
  BY <1>4 DEF SearchInv, IdleInv, ModeInv, DoneInv, StoredInv, EmbedEndsHybrid
<1>6. ResultsInv'
  BY <1>2 DEF SearchInv, ResultsInv, Asked, EmbedEndsHybrid
<1> QED BY <1>1, <1>3, <1>4, <1>5, <1>6, Unanswered DEF SearchInv

\* add_memory goes on, with a vector or without.
LEMMA EmbedEndsAddOK ==
    ASSUME SearchInv, EmbedEndsAdd
    PROVE  SearchInv'
<1>1. EmbedInv'
  BY CancelledOK DEF SearchInv, EmbedEndsAdd, vars, EmbedInv, TypeOK
<1>2. vector' \in {"none", "embedded"}
  BY DEF EmbedEndsAdd
<1>3. SearchTypeOK'
  BY <1>1, <1>2 DEF SearchInv, SearchTypeOK, EmbedEndsAdd, EmbedInv, VectorStages
<1>4. reply' = NoReply /\ stored' = "no" /\ req' = req /\ req # NoRequest
  BY DEF SearchInv, IdleInv, DoneInv, StoredInv, EmbedEndsAdd
<1>5. IdleInv' /\ ModeInv' /\ DoneInv' /\ StoredInv'
  BY <1>4 DEF SearchInv, IdleInv, ModeInv, DoneInv, StoredInv, EmbedEndsAdd
<1>6. ResultsInv'
  BY <1>2 DEF SearchInv, ResultsInv, Asked, EmbedEndsAdd
<1> QED BY <1>1, <1>3, <1>4, <1>5, <1>6, Unanswered DEF SearchInv

(***************************************************************************)
(* The memory is stored.                                                   *)
(***************************************************************************)
\* The memory is stored, with the vector or NULL.
LEMMA StoreOK ==
    ASSUME SearchInv, Store
    PROVE  SearchInv'
<1>1. EmbedInv'
  BY CancelledOK DEF SearchInv, Store, vars, EmbedInv, TypeOK
<1>2. stored' \in {"null", "vector"} /\ vector' \in {"embedded", "none", "query"}
  BY StoredAsIs DEF Store
<1>3. SearchTypeOK'
  BY <1>1, <1>2 DEF SearchInv, SearchTypeOK, Store, EmbedInv, VectorStages
<1>4. reply' = NoReply /\ req' = req /\ req # NoRequest
  BY DEF SearchInv, IdleInv, Store
<1>5. IdleInv' /\ ModeInv' /\ DoneInv'
  BY <1>4 DEF SearchInv, IdleInv, ModeInv, DoneInv, Store
<1>6. StoredInv'
  <2>1. UNCHANGED <<err, out>>
    BY DEF Store, vars
  <2>2. stored' = StoredAs(err, out)
    BY DEF Store
  <2> QED BY <1>2, <2>1, <2>2 DEF StoredInv
<1>7. ResultsInv'
  BY <1>2 DEF SearchInv, ResultsInv, Asked, Store
<1> QED BY <1>1, <1>2, <1>3, <1>4, <1>5, <1>6, <1>7, Unanswered DEF SearchInv

\* Storing fails, or only says so.
LEMMA StoreFailsOK ==
    ASSUME SearchInv, NEW committed \in BOOLEAN, StoreFails(committed)
    PROVE  SearchInv'
<1>1. EmbedInv'
  BY CancelledOK DEF SearchInv, StoreFails, vars, EmbedInv, TypeOK
<1>2. stored' \in {"no", "null", "vector"}
  BY StoredAsIs DEF StoreFails
<1>3. SearchTypeOK'
  <2>1. reply'.hits \in Rankings /\ reply'.status = "error"
    BY EmptyRanking DEF StoreFails, ReplyError
  <2> QED BY <1>1, <1>2, <2>1 DEF SearchInv, SearchTypeOK, StoreFails, EmbedInv
<1>4. req' = req /\ req # NoRequest
  BY DEF SearchInv, IdleInv, StoreFails
<1>5. IdleInv' /\ ModeInv' /\ DoneInv'
  BY <1>4 DEF SearchInv, IdleInv, ModeInv, DoneInv, StoreFails
<1>6. StoredInv'
  <2>1. UNCHANGED <<err, out>>
    BY DEF StoreFails, vars
  <2>2. stored' # "no" => stored' = StoredAs(err, out)
    BY DEF StoreFails
  <2> QED BY <2>1, <2>2 DEF StoredInv, StoreFails
<1>7. ResultsInv'
  BY DEF SearchInv, ResultsInv, Asked, StoreFails
<1>8. AnswersInv'
  BY <1>2 DEF AnswersInv, FallbackKeepsAnswer, SemanticNearest, FusionRespectsRanks,
              SuggestionsRight, StoredIsRecoverable, StoreFails, ReplyError
<1> QED BY <1>1, <1>3, <1>5, <1>6, <1>7, <1>8 DEF SearchInv

(***************************************************************************)
(* The queries return.                                                     *)
(***************************************************************************)
\* The fulltext query returns the first of what it could find.
LEMMA FulltextReturnsOK ==
    ASSUME SearchInv, NEW rank \in Rankings, FulltextReturns(rank)
    PROVE  SearchInv'
<1>1. EmbedInv'
  BY CancelledOK DEF SearchInv, FulltextReturns, vars, EmbedInv, TypeOK
<1>2. ft'.rank = rank /\ ft'.hits = SearchFulltext(rank, Asked) /\ Asked' = Asked
  BY DEF FulltextReturns, Asked
<1>3. ft'.hits \in Rankings
  BY <1>2, AskedIs, LimitIs, TakeIs DEF SearchInv, ModeInv, SearchFulltext
<1>4. SearchTypeOK'
  BY <1>1, <1>2, <1>3 DEF SearchInv, SearchTypeOK, FulltextReturns, EmbedInv
<1>5. reply' = NoReply /\ stored' = stored /\ stored # "empty" /\ req' = req /\ req # NoRequest
  BY DEF SearchInv, IdleInv, DoneInv, AnswersInv, StoredIsRecoverable, FulltextReturns
<1>6. IdleInv' /\ ModeInv' /\ DoneInv'
  BY <1>5 DEF SearchInv, IdleInv, ModeInv, DoneInv, FulltextReturns
<1>7. StoredInv'
  BY DEF SearchInv, StoredInv, FulltextReturns, vars
<1>8. ResultsInv'
  BY <1>2 DEF SearchInv, ResultsInv, FulltextReturns
<1> QED BY <1>1, <1>4, <1>5, <1>6, <1>7, <1>8, Unanswered DEF SearchInv

\* The fulltext query fails, and cancels the other half.
LEMMA FulltextFailsOK ==
    ASSUME SearchInv, FulltextFails
    PROVE  SearchInv'
<1>1. EmbedInv'
  BY CancelledOK DEF SearchInv, FulltextFails, EmbedInv, TypeOK
<1>2. SearchTypeOK'
  BY <1>1 DEF SearchInv, SearchTypeOK, FulltextFails, EmbedInv
<1>3. reply' = NoReply /\ stored' = stored /\ stored # "empty" /\ req' = req /\ req # NoRequest
  BY DEF SearchInv, IdleInv, DoneInv, AnswersInv, StoredIsRecoverable, FulltextFails
<1>4. IdleInv' /\ ModeInv' /\ DoneInv'
  BY <1>3 DEF SearchInv, IdleInv, ModeInv, DoneInv, FulltextFails
<1>5. StoredInv'
  BY DEF SearchInv, StoredInv, FulltextFails
<1>6. ResultsInv'
  BY DEF SearchInv, ResultsInv, Asked, FulltextFails
<1> QED BY <1>1, <1>2, <1>3, <1>4, <1>5, <1>6, Unanswered DEF SearchInv

\* The vector query returns tagged memories from its candidates.
LEMMA VectorQueryReturnsOK ==
    ASSUME SearchInv, NEW near \in Rankings, NEW tagged \in SUBSET Docs,
           NEW close \in 0 .. Len(near), VectorQueryReturns(near, tagged, close)
    PROVE  SearchInv'
<1>1. EmbedInv'
  BY CancelledOK DEF SearchInv, VectorQueryReturns, vars, EmbedInv, TypeOK
<1>2. /\ knn'.near = near /\ knn'.tagged = tagged /\ knn'.close = close
      /\ knn'.hits = SearchSemantic(near, tagged, Asked) /\ Asked' = Asked
      /\ req.mode = "add" => tagged = Docs
  BY DEF VectorQueryReturns, Asked
<1>3. knn'.hits \in Rankings
  BY <1>2, AskedIs, SemanticIs DEF SearchInv, ModeInv
<1>4. close \in 0 .. MaxDoc
  BY RankingIs, DocsFinite
<1>5. SearchTypeOK'
  BY <1>1, <1>2, <1>3, <1>4
     DEF SearchInv, SearchTypeOK, VectorQueryReturns, EmbedInv, VectorStages
<1>6. reply' = NoReply /\ stored' = stored /\ stored # "empty" /\ req' = req /\ req # NoRequest
  BY DEF SearchInv, IdleInv, DoneInv, AnswersInv, StoredIsRecoverable, VectorQueryReturns
<1>7. IdleInv' /\ ModeInv' /\ DoneInv'
  BY <1>6 DEF SearchInv, IdleInv, ModeInv, DoneInv, VectorQueryReturns
<1>8. StoredInv'
  BY DEF SearchInv, StoredInv, VectorQueryReturns, vars
<1>9. ResultsInv'
  BY <1>2 DEF SearchInv, ResultsInv, VectorQueryReturns
<1> QED BY <1>1, <1>5, <1>6, <1>7, <1>8, <1>9, Unanswered DEF SearchInv

\* The vector query fails.
LEMMA VectorQueryFailsOK ==
    ASSUME SearchInv, VectorQueryFails
    PROVE  SearchInv'
<1>1. EmbedInv'
  BY CancelledOK DEF SearchInv, VectorQueryFails, vars, EmbedInv, TypeOK
<1>2. SearchTypeOK'
  BY <1>1 DEF SearchInv, SearchTypeOK, VectorQueryFails, EmbedInv, VectorStages
<1>3. reply' = NoReply /\ stored' = stored /\ stored # "empty" /\ req' = req /\ req # NoRequest
  BY DEF SearchInv, IdleInv, DoneInv, AnswersInv, StoredIsRecoverable, VectorQueryFails
<1>4. IdleInv' /\ ModeInv' /\ DoneInv'
  BY <1>3 DEF SearchInv, IdleInv, ModeInv, DoneInv, VectorQueryFails
<1>5. StoredInv'
  BY DEF SearchInv, StoredInv, VectorQueryFails, vars
<1>6. ResultsInv'
  BY DEF SearchInv, ResultsInv, Asked, VectorQueryFails
<1> QED BY <1>1, <1>2, <1>3, <1>4, <1>5, <1>6, Unanswered DEF SearchInv

(***************************************************************************)
(* The handler answers.                                                    *)
(***************************************************************************)
\* An answer is right if it says the right things: nothing else changes.
LEMMA Answering ==
    ASSUME SearchInv, UNCHANGED <<vars, req, text, vector, ft, knn, stored>>,
           req # NoRequest, text # "query", vector \notin {"embed", "query"},
           reply'.hits \in Rankings, reply'.status \in {"answer", "error"},
           AnswersInv'
    PROVE  SearchInv'
<1>1. EmbedInv'
  BY CancelledOK DEF SearchInv, vars, EmbedInv, TypeOK
<1>2. SearchTypeOK'
  BY <1>1 DEF SearchInv, SearchTypeOK, EmbedInv
<1>3. IdleInv' /\ ModeInv' /\ DoneInv'
  BY DEF SearchInv, IdleInv, ModeInv, DoneInv
<1>4. StoredInv' /\ ResultsInv'
  BY DEF SearchInv, StoredInv, ResultsInv, Asked, vars
<1> QED BY <1>1, <1>2, <1>3, <1>4 DEF SearchInv

\* The rankings there are to answer with.
LEMMA HitsAre ==
    ASSUME SearchInv
    PROVE  /\ ft.rank \in Rankings /\ ft.hits \in Rankings
           /\ knn.near \in Rankings /\ knn.hits \in Rankings
           /\ knn.tagged \in SUBSET Docs /\ knn.close \in 0 .. Len(knn.near)
           /\ knn.close \in Nat /\ req.limit \in Nat /\ <<>> \in Rankings
<1>1. knn.close \in 0 .. MaxDoc /\ knn.close \in Nat
  BY DocsFinite DEF SearchInv, SearchTypeOK
<1> QED BY <1>1, EmptyRanking DEF SearchInv, SearchTypeOK, ModeInv, ResultsInv

\* A fulltext search gives its hits.
LEMMA RespondFulltextOK ==
    ASSUME SearchInv, RespondFulltext
    PROVE  SearchInv'
<1>1. req # NoRequest /\ text # "query" /\ vector \notin {"embed", "query"}
  BY DEF SearchInv, IdleInv, ModeInv, RespondFulltext
<1>2. reply'.hits \in Rankings /\ reply'.status \in {"answer", "error"}
  BY HitsAre DEF RespondFulltext, Answer, ReplyError
<1>3. stored' = stored /\ stored # "empty" /\ req' = req /\ req.mode = "fulltext"
  BY DEF SearchInv, AnswersInv, StoredIsRecoverable, RespondFulltext
<1>4. AnswersInv'
  BY <1>3 DEF AnswersInv, FallbackKeepsAnswer, SemanticNearest, FusionRespectsRanks,
              SuggestionsRight, StoredIsRecoverable
<1> QED BY <1>1, <1>2, <1>4, Answering DEF RespondFulltext

\* A semantic search gives its hits, or the fallback and a warning.
LEMMA RespondSemanticOK ==
    ASSUME SearchInv, RespondSemantic
    PROVE  SearchInv'
<1>1. req # NoRequest /\ text # "query" /\ vector \notin {"embed", "query"}
  BY DEF SearchInv, IdleInv, ModeInv, RespondSemantic
<1>2. reply'.hits \in Rankings /\ reply'.status \in {"answer", "error"}
  BY HitsAre DEF RespondSemantic, Answer, ReplyError
<1>3. /\ UNCHANGED <<req, text, vector, ft, knn, stored>>
      /\ stored # "empty" /\ req.mode = "semantic" /\ req.limit \in Nat
      /\ text # "off" => vector = "none"
  BY DEF SearchInv, ModeInv, AnswersInv, StoredIsRecoverable, RespondSemantic
<1>4. FallbackKeepsAnswer'
  <2>1. CASE text = "ok" /\ Answer(ft.hits, TRUE)
    <3>1. ft.hits = SearchFulltext(ft.rank, Asked)
      BY <2>1 DEF SearchInv, ResultsInv
    <3>2. req.limit > 0 => ft.hits = Take(ft.rank, req.limit)
      BY <1>3, <3>1 DEF SearchFulltext, Positive, Asked
    <3> QED BY <1>3, <2>1, <3>2 DEF FallbackKeepsAnswer, Answer
  <2>2. CASE vector = "empty" /\ Answer(<<>>, FALSE)
    BY <1>3, <2>2 DEF FallbackKeepsAnswer, Answer
  <2>3. CASE vector = "ok" /\ Answer(knn.hits, FALSE)
    BY <1>3, <2>3 DEF FallbackKeepsAnswer, Answer
  <2>4. CASE "failed" \in {text, vector} /\ ReplyError
    BY <1>3, <2>4 DEF FallbackKeepsAnswer, ReplyError
  <2> QED BY <2>1, <2>2, <2>3, <2>4 DEF RespondSemantic
<1>5. SemanticNearest'
  <2> SUFFICES ASSUME vector = "ok", reply'.status = "answer"
               PROVE  SemanticNearest'
    BY <1>3 DEF SemanticNearest
  <2>1. reply'.hits = knn.hits
    BY <1>3 DEF RespondSemantic, Answer, ReplyError
  <2>2. knn.hits = SearchSemantic(knn.near, knn.tagged, req.limit)
    BY <1>3 DEF SearchInv, ResultsInv, Asked
  <2> DEFINE want == Take(Select(knn.near, knn.tagged), Positive(req.limit))
  <2>3. /\ IsPrefix(knn.hits, want)
        /\ knn.hits # want =>
               Rank(knn.near, want[Len(knn.hits) + 1]) > Factor * Positive(req.limit)
    BY <2>2, HitsAre, SemanticIs
  <2> QED BY <1>3, <2>1, <2>3 DEF SemanticNearest
<1>6. FusionRespectsRanks' /\ SuggestionsRight' /\ StoredIsRecoverable'
  BY <1>3 DEF FusionRespectsRanks, SuggestionsRight, StoredIsRecoverable
<1>7. AnswersInv'
  BY <1>4, <1>5, <1>6 DEF AnswersInv
<1> QED BY <1>1, <1>2, <1>7, Answering DEF RespondSemantic

\* A hybrid search fuses two rankings, or gives the fallback and a warning.
LEMMA RespondHybridOK ==
    ASSUME SearchInv, RespondHybrid
    PROVE  SearchInv'
<1> DEFINE fused == Fuse(<<ft.hits, knn.hits>>, req.limit)
           all == Range(ft.hits) \cup Range(knn.hits)
<1>1. req # NoRequest /\ text # "query" /\ vector \notin {"embed", "query"}
  BY DEF SearchInv, IdleInv, RespondHybrid
<1>2. /\ fused \in Rankings
      /\ Len(fused) = IF Positive(req.limit) < Cardinality(all)
                      THEN Positive(req.limit) ELSE Cardinality(all)
      /\ Range(fused) \subseteq all
      /\ \A b \in Range(fused) : \A a \in all :
             Score(<<ft.hits, knn.hits>>, a) > Score(<<ft.hits, knn.hits>>, b)
                 => a \in Range(fused) /\ Rank(fused, a) < Rank(fused, b)
  <2>1. ft.hits \in Rankings /\ knn.hits \in Rankings /\ req.limit \in Nat
    BY HitsAre
  <2>2. PICK f \in Rankings, k \in Rankings, limit \in Nat :
            f = ft.hits /\ k = knn.hits /\ limit = req.limit
    BY <2>1
  <2>3. PICK hits, both : hits = Fuse(<<f, k>>, limit) /\ both = Range(f) \cup Range(k)
    OBVIOUS
  <2>4. /\ hits \in Rankings
        /\ Len(hits) = IF Positive(limit) < Cardinality(both)
                       THEN Positive(limit) ELSE Cardinality(both)
        /\ Range(hits) \subseteq both
        /\ \A b \in Range(hits) : \A a \in both :
               Score(<<f, k>>, a) > Score(<<f, k>>, b)
                   => a \in Range(hits) /\ Rank(hits, a) < Rank(hits, b)
    BY <2>3, FuseIs
  <2> QED BY <2>2, <2>3, <2>4
<1>3. reply'.hits \in Rankings /\ reply'.status \in {"answer", "error"}
  <2>1. Take(ft.hits, req.limit) \in Rankings
    BY HitsAre, TakeIs
  <2> QED BY <1>2, <2>1, HitsAre DEF RespondHybrid, Answer, ReplyError
<1>4. /\ UNCHANGED <<req, text, vector, ft, knn, stored>>
      /\ stored # "empty" /\ req.mode = "hybrid" /\ req.limit \in Nat
  BY DEF SearchInv, ModeInv, AnswersInv, StoredIsRecoverable, RespondHybrid
<1>5. FallbackKeepsAnswer'
  <2>1. CASE "failed" \in {text, vector} /\ ReplyError
    BY <1>4, <2>1 DEF FallbackKeepsAnswer, ReplyError
  <2>2. CASE text = "ok" /\ vector = "none" /\ Answer(Take(ft.hits, req.limit), TRUE)
    <3>1. ft.hits = SearchFulltext(ft.rank, 2 * req.limit)
      BY <1>4, <2>2 DEF SearchInv, ResultsInv, Asked
    <3>2. ASSUME req.limit > 0 PROVE Take(ft.hits, req.limit) = Take(ft.rank, req.limit)
      <4>1. Positive(2 * req.limit) = 2 * req.limit /\ 2 * req.limit \in Nat /\ req.limit <= 2 * req.limit
        BY <1>4, <3>2 DEF Positive
      <4>2. ft.hits = Take(ft.rank, 2 * req.limit)
        BY <3>1, <4>1 DEF SearchFulltext
      <4> QED BY <1>4, <4>1, <4>2, HitsAre, TakeTake
    <3> QED BY <1>4, <2>2, <3>2 DEF FallbackKeepsAnswer, Answer
  <2>3. CASE text = "ok" /\ vector = "ok" /\ Answer(fused, FALSE)
    BY <1>4, <2>3 DEF FallbackKeepsAnswer, Answer
  <2> QED BY <2>1, <2>2, <2>3 DEF RespondHybrid
<1>6. FusionRespectsRanks'
  <2> SUFFICES ASSUME vector = "ok", reply'.status = "answer"
               PROVE  FusionRespectsRanks'
    BY <1>4 DEF FusionRespectsRanks
  <2>1. reply'.hits = fused
    BY DEF RespondHybrid, Answer, ReplyError
  <2> HIDE DEF fused
  <2>2. ASSUME NEW b \in Range(fused), NEW a \in all, Dominates(a, b)
        PROVE  a \in Range(fused) /\ Rank(fused, a) < Rank(fused, b)
    <3>1. \A s \in {ft.hits, knn.hits} : b \in Range(s) => a \in Range(s) /\ Rank(s, a) < Rank(s, b)
      BY <2>2 DEF Dominates
    <3>2. b \in Range(ft.hits) \cup Range(knn.hits)
      BY <1>2
    <3>3. Score(<<ft.hits, knn.hits>>, a) > Score(<<ft.hits, knn.hits>>, b)
      BY <3>1, <3>2, HitsAre, ScoreFollowsRanks
    <3> QED BY <1>2, <3>3
  <2>3. \A a, b : Dominates(a, b)' <=> Dominates(a, b)
    BY <1>4 DEF Dominates
  <2> QED BY <1>2, <1>4, <2>1, <2>2, <2>3 DEF FusionRespectsRanks
<1>7. SemanticNearest' /\ SuggestionsRight' /\ StoredIsRecoverable'
  BY <1>4 DEF SemanticNearest, SuggestionsRight, StoredIsRecoverable
<1>8. AnswersInv'
  BY <1>5, <1>6, <1>7 DEF AnswersInv
<1> QED BY <1>1, <1>3, <1>8, Answering DEF RespondHybrid

\* add_memory suggests links and warns if no vector was stored.
LEMMA RespondAddOK ==
    ASSUME SearchInv, RespondAdd
    PROVE  SearchInv'
<1> DEFINE links == SelectSuggestedLinks(knn.hits, knn.near, knn.close)
           want == Take(Select(Take(knn.near, knn.close), Docs \ {Self}), Suggest)
<1>1. req # NoRequest /\ text # "query" /\ vector \notin {"embed", "query"}
  BY DEF SearchInv, IdleInv, ModeInv, RespondAdd
<1>2. vector = "ok" => links = want
  <2> SUFFICES ASSUME vector = "ok" PROVE links = want
    OBVIOUS
  <2>1. knn.hits = SearchSemantic(knn.near, Docs, SuggestionCandidates)
    BY DEF SearchInv, ResultsInv, Asked, RespondAdd
  <2> QED BY <2>1, HitsAre, SuggestionsAre
<1>3. reply'.hits \in Rankings /\ reply'.status = "answer"
  <2>1. Suggest \in Nat
    BY SearchConstantsOK DEF SearchConstantsOK
  <2>2. Take(knn.near, knn.close) \in Rankings
    BY HitsAre, TakeIs
  <2>3. want \in Rankings
    BY <2>1, <2>2, SelectIs, TakeIs
  <2> HIDE DEF want
  <2> QED BY <1>2, <2>3, HitsAre DEF RespondAdd, Answer
<1>4. /\ UNCHANGED <<req, text, vector, ft, knn, stored>>
      /\ stored # "empty" /\ req.mode = "add" /\ stored # "no"
      /\ stored = StoredAs(err, out)
  BY DEF SearchInv, AnswersInv, StoredInv, StoredIsRecoverable, RespondAdd
<1>5. SuggestionsRight'
  <2>1. vector = "ok" => reply'.hits = want
    BY <1>2 DEF RespondAdd, Answer
  <2> QED BY <1>4, <2>1 DEF SuggestionsRight
<1>6. StoredIsRecoverable'
  <2>1. reply'.warning = ~Usable(err, out)
    BY DEF RespondAdd, Answer
  <2>2. ~Usable(err, out) <=> stored = "null"
    BY <1>4 DEF StoredAs
  <2> QED BY <1>4, <2>1, <2>2 DEF StoredIsRecoverable
<1>7. FallbackKeepsAnswer' /\ SemanticNearest' /\ FusionRespectsRanks'
  BY <1>4 DEF FallbackKeepsAnswer, SemanticNearest, FusionRespectsRanks
<1>8. AnswersInv'
  BY <1>5, <1>6, <1>7 DEF AnswersInv
<1> QED BY <1>1, <1>3, <1>8, Answering DEF RespondAdd

(***************************************************************************)
(* The theorems.                                                           *)
(***************************************************************************)
\* The invariant holds before a call.
LEMMA SearchInitOK == SearchInit => SearchInv
<1> SUFFICES ASSUME SearchInit PROVE SearchInv
  OBVIOUS
<1>1. EmbedInv
  BY EmbedInitOK DEF SearchInit
<1>2. 0 \in 0 .. MaxDoc /\ Len(<<>>) = 0
  BY DocsFinite
<1>3. SearchTypeOK
  BY <1>1, <1>2, EmptyRanking
     DEF EmbedInv, SearchInit, SearchTypeOK, NoRequest, NoReply, VectorStages
<1>4. IdleInv /\ ModeInv /\ DoneInv /\ StoredInv
  BY DEF IdleInv, ModeInv, DoneInv, StoredInv, SearchInit, NoRequest
<1>5. ResultsInv
  BY <1>2 DEF ResultsInv, SearchInit
<1>6. AnswersInv
  BY DEF AnswersInv, FallbackKeepsAnswer, SemanticNearest, FusionRespectsRanks, SuggestionsRight,
         StoredIsRecoverable, SearchInit, NoReply
<1> QED BY <1>1, <1>3, <1>4, <1>5, <1>6 DEF SearchInv

\* Every step keeps the invariant.
LEMMA SearchStepOK == SearchInv /\ [SearchNext]_allVars => SearchInv'
<1> SUFFICES ASSUME SearchInv, [SearchNext]_allVars PROVE SearchInv'
  OBVIOUS
<1>1. CASE Begin
  BY <1>1, BeginSearchOK, BeginBlankOK, BeginAddOK DEF Begin
<1>2. CASE Serve
  BY <1>2, EmbeddingOK, EmbedEndsSemanticOK, EmbedEndsHybridOK, EmbedEndsAddOK, StoreOK,
     StoreFailsOK, FulltextReturnsOK, FulltextFailsOK, VectorQueryReturnsOK, VectorQueryFailsOK,
     RespondFulltextOK, RespondSemanticOK, RespondHybridOK, RespondAddOK DEF Serve
<1>3. CASE ClientLeaves
  BY <1>3, ClientLeavesOK
<1>4. CASE UNCHANGED allVars
  <2>1. UNCHANGED <<vars, req, text, vector, ft, knn, stored, reply>>
    BY <1>4 DEF allVars, searchVars
  <2>2. EmbedInv'
    BY <2>1, CancelledOK DEF SearchInv, vars, EmbedInv, TypeOK
  <2>3. SearchTypeOK'
    BY <2>1, <2>2 DEF SearchInv, SearchTypeOK, EmbedInv
  <2>4. IdleInv' /\ ModeInv' /\ DoneInv' /\ StoredInv' /\ ResultsInv'
    BY <2>1 DEF SearchInv, IdleInv, ModeInv, DoneInv, StoredInv, ResultsInv, Asked, vars
  <2>5. AnswersInv'
    BY <2>1 DEF SearchInv, AnswersInv, FallbackKeepsAnswer, SemanticNearest, FusionRespectsRanks,
                Dominates, SuggestionsRight, StoredIsRecoverable
  <2> QED BY <2>2, <2>3, <2>4, <2>5 DEF SearchInv
<1> QED BY <1>1, <1>2, <1>3, <1>4 DEF SearchNext

\* The invariant is inductive.
THEOREM SearchInductive == SearchSpec => []SearchInv
BY SearchInitOK, SearchStepOK, PTL DEF SearchSpec

\* Every variable keeps its type; no ranking names a memory twice.
THEOREM SearchTypeCorrect == SearchSpec => []SearchTypeOK
BY SearchInductive, PTL DEF SearchInv

\* An embedder that fails, however and whenever it does, never fails a search:
\* the searcher gets what fulltext search found, and is told.
THEOREM FallbacksKeepAnswers == SearchSpec => []FallbackKeepsAnswer
<1>1. SearchInv => FallbackKeepsAnswer
  BY DEF SearchInv, AnswersInv
<1> QED BY <1>1, SearchInductive, PTL

\* A semantic search answers the nearest tagged memories and may lose one only
\* behind as many candidates as its window holds, for any window and any limit.
THEOREM SemanticFindsNearest == SearchSpec => []SemanticNearest
<1>1. SearchInv => SemanticNearest
  BY DEF SearchInv, AnswersInv
<1> QED BY <1>1, SearchInductive, PTL

\* Reciprocal rank fusion never contradicts what its lists agree on, for any
\* rank constant, any lists and any limit.
THEOREM FusionAgrees == SearchSpec => []FusionRespectsRanks
<1>1. SearchInv => FusionRespectsRanks
  BY DEF SearchInv, AnswersInv
<1> QED BY <1>1, SearchInductive, PTL

\* add_memory suggests the nearest other memories over the threshold and misses
\* none for finding itself, for any number of suggestions.
THEOREM SuggestionsAreRight == SearchSpec => []SuggestionsRight
<1>1. SearchInv => SuggestionsRight
  BY DEF SearchInv, AnswersInv
<1> QED BY <1>1, SearchInductive, PTL

\* A memory stored without a vector is one a later backfill finds, and the
\* caller is told, however Embed ended.
THEOREM StoredStaysRecoverable == SearchSpec => []StoredIsRecoverable
<1>1. SearchInv => StoredIsRecoverable
  BY DEF SearchInv, AnswersInv
<1> QED BY <1>1, SearchInductive, PTL
=============================================================================
