---------------------------- MODULE BrowseProofs ----------------------------
(***************************************************************************)
(* Proofs about Browse, for any number of memories, labels and writes, any *)
(* bounds of hops and any limits.                                          *)
(***************************************************************************)
EXTENDS Browse, FiniteSetTheorems, SequenceTheorems, TLAPS

(***************************************************************************)
(* The inductive invariant.                                                *)
(***************************************************************************)
\* While a call looks at the graph, the ghost has the right answers of now; a
\* call that found no row may say so, unless something is missing now.
CallInv ==
    /\ pc = "idle" => req = NoRequest
    /\ pc \in {"query", "check"} => req.tool \in {"path", "related"} /\ RightAnswers(req) \subseteq could
    /\ pc = "check" => NothingFound(req) \in could \/ Missing(req.from, OtherEnd(req))
    /\ pc # "done" => reply = NoAnswer
    /\ AnswersWereTrue

\* What a walk has shown grows and ends at or before the cursor, and of what
\* stayed nothing is missing up to there.
WalkInv ==
    /\ \A i, j \in DOMAIN shown : i < j => shown[i] < shown[j]
    /\ pc \notin {"walk", "done"} => shown = <<>> /\ cursor = NoId
    /\ pc = "walk" =>
           /\ req.tool = "list"
           /\ \A i \in DOMAIN shown : shown[i] <= cursor
           /\ \A m \in stayed : m <= cursor => m \in Range(shown)
    /\ pc = "done" /\ req.tool = "list" => stayed \subseteq Range(shown)

IndInv == TypeOK /\ CallInv /\ WalkInv

(***************************************************************************)
(* Requests and answers.                                                   *)
(***************************************************************************)
\* What a request has, by its tool.
LEMMA RequestFields ==
    ASSUME NEW r \in Requests
    PROVE  /\ r.tool \in {"related", "list"} => LimitOf(r) \in Nat \ {0}
           /\ r.tool \in {"path", "related", "list"}
<1>1. ASSUME r.limit \in Limits PROVE LimitOf(r) \in Nat \ {0}
  <2>1. r.limit \in Int /\ DefaultLimit \in Nat \ {0}
    BY <1>1, BrowseConstantsOK DEF BrowseConstantsOK
  <2>2. CASE r.limit <= 0
    BY <2>1, <2>2 DEF LimitOf
  <2>3. CASE ~(r.limit <= 0)
    <3>1. LimitOf(r) = r.limit
      BY <2>3 DEF LimitOf
    <3> QED BY <2>1, <2>3, <3>1
  <2> QED BY <2>2, <2>3
<1>2. CASE r \in [tool : {"path"}, from : Ids \cup {NoId}, to : Ids \cup {NoId},
                 hops : 0 .. PathBound + 1]
  BY <1>2
<1>3. CASE r \in [tool : {"related"}, from : Ids \cup {NoId}, filter : Filters,
                 hops : 0 .. RelatedBound + 1, limit : Limits]
  BY <1>1, <1>3
<1>4. CASE r \in [tool : {"list"}, limit : Limits]
  BY <1>1, <1>4
<1> QED BY <1>2, <1>3, <1>4 DEF Requests

\* The right answers depend on the graph alone.
LEMMA SameGraph ==
    ASSUME UNCHANGED <<live, links, req>>
    PROVE  RightAnswers(req)' = RightAnswers(req)
BY DEF RightAnswers, OtherEnd, NothingFound, ShortestPath, NearestRows, RowsOf,
       Distances, Joined, Usable

\* No rows are no rows.
LEMMA NoRowsAreNone ==
    ASSUME NEW r
    PROVE  RowsOf(r, {}) = NoRows
BY DEF RowsOf, NoRows

\* A memory without links is reached from nowhere and reaches nothing, so that
\* a call about it finds nothing.
LEMMA NewIsUnlinked ==
    ASSUME req' = req, req \in Requests, req.tool \in {"path", "related"},
           {req.from, OtherEnd(req)} \subseteq live',
           NEW m \in {req.from, OtherEnd(req)}, \A l \in links' : m \notin l.ends
    PROVE  NothingFound(req) \in RightAnswers(req)'
<1>1. ASSUME NEW x, NEW filter, NEW n \in Nat \ {0}
      PROVE  ~Joined(m, x, filter, n)' /\ ~Joined(x, m, filter, n)'
  <2>1. 1 \in 1 .. n /\ n \in 1 .. n /\ 1 - 1 = 0
    OBVIOUS
  <2> QED BY <2>1 DEF Joined, Usable
<1>2. CASE req.tool = "path"
  <2>1. req.to \notin DOMAIN Distances(req.from, {}, req.hops)'
    BY <1>1, <1>2 DEF Distances, OtherEnd
  <2>2. ShortestPath(req)' = {}
    BY <2>1 DEF ShortestPath
  <2> QED BY <1>2, <2>2 DEF RightAnswers, OtherEnd, NothingFound
<1>3. CASE req.tool = "related"
  <2>1. DOMAIN Distances(req.from, req.filter, req.hops)' = {}
    BY <1>1, <1>3 DEF Distances, OtherEnd
  <2>2. Cardinality({}) = 0 /\ LimitOf(req) \in Nat \ {0}
    BY <1>3, FS_EmptySet, RequestFields
  <2>3. {} \in NearestRows(req)'
    BY <1>3, <2>1, <2>2 DEF NearestRows, OtherEnd
  <2>4. RowsOf(req, {})' = NoRows
    BY DEF RowsOf, NoRows
  <2> QED BY <1>3, <2>3, <2>4 DEF RightAnswers, OtherEnd, NothingFound
<1> QED BY <1>2, <1>3

(***************************************************************************)
(* Other calls.                                                            *)
(***************************************************************************)
\* What a write leaves alone, and what it adds to the ghosts.
LEMMA WriteKeeps ==
    ASSUME IndInv, Write, Witness, live' \subseteq Ids, minted' \subseteq Ids, live' \subseteq minted',
           links' \subseteq {l \in AllLinks : l.ends \subseteq live'},
           pc = "check" => NothingFound(req) \in could' \/ Missing(req.from, OtherEnd(req))'
    PROVE  IndInv'
<1>1. TypeOK'
  BY BrowseConstantsOK DEF IndInv, TypeOK, Write, Witness, BrowseConstantsOK
<1>2. CallInv'
  <2>1. RightAnswers(req)' \subseteq could' /\ could \subseteq could'
    BY DEF Witness
  <2>2. NothingFound(req)' = NothingFound(req)
    BY DEF NothingFound, Write
  <2>3. AnswersWereTrue'
    BY <2>1 DEF IndInv, CallInv, AnswersWereTrue, Write
  <2> QED BY <2>1, <2>2, <2>3 DEF IndInv, CallInv, Write
<1>3. WalkInv'
  BY DEF IndInv, WalkInv, Write, Witness
<1> QED BY <1>1, <1>2, <1>3 DEF IndInv

\* A memory comes, without links: if it was the missing one, that nothing is
\* found becomes right.
LEMMA AddOK ==
    ASSUME IndInv, NEW m \in Ids, Add(m)
    PROVE  IndInv'
<1>1. CASE pc = "check" /\ NothingFound(req) \notin could /\ ~Missing(req.from, OtherEnd(req))'
  <2>1. Missing(req.from, OtherEnd(req)) /\ req \in Requests /\ req.tool \in {"path", "related"}
    BY <1>1, RequestFields DEF IndInv, CallInv, TypeOK, NoRequest
  <2>2. req' = req /\ OtherEnd(req)' = OtherEnd(req)
    BY DEF Add, Write, OtherEnd
  <2>3. m \in {req.from, OtherEnd(req)} /\ {req.from, OtherEnd(req)} \subseteq live'
    BY <1>1, <2>1, <2>2 DEF Add, Missing
  <2>4. \A l \in links' : m \notin l.ends
    BY DEF Add, IndInv, TypeOK
  <2> QED BY <2>1, <2>2, <2>3, <2>4, NewIsUnlinked, WriteKeeps DEF Add, Witness, IndInv, TypeOK
<1>2. CASE pc = "check" => NothingFound(req) \in could \/ Missing(req.from, OtherEnd(req))'
  BY <1>2, WriteKeeps DEF Add, IndInv, TypeOK, Witness
<1> QED BY <1>1, <1>2

\* A deleted memory leaves what stayed.
LEMMA DeleteOK ==
    ASSUME IndInv, NEW m \in Ids, Delete(m)
    PROVE  IndInv'
<1>1. pc = "check" => NothingFound(req) \in could' \/ Missing(req.from, OtherEnd(req))'
  BY DEF IndInv, CallInv, Delete, Write, Witness, Missing, OtherEnd
<1> QED BY <1>1, WriteKeeps DEF Delete, IndInv, TypeOK

\* Another link.
LEMMA LinkOK ==
    ASSUME IndInv, NEW l \in AllLinks, Link(l)
    PROVE  IndInv'
<1>1. pc = "check" => NothingFound(req) \in could' \/ Missing(req.from, OtherEnd(req))'
  BY DEF IndInv, CallInv, Link, Write, Witness, Missing, OtherEnd
<1> QED BY <1>1, WriteKeeps DEF Link, IndInv, TypeOK

\* A link less.
LEMMA UnlinkOK ==
    ASSUME IndInv, NEW l \in AllLinks, Unlink(l)
    PROVE  IndInv'
<1>1. pc = "check" => NothingFound(req) \in could' \/ Missing(req.from, OtherEnd(req))'
  BY DEF IndInv, CallInv, Unlink, Write, Witness, Missing, OtherEnd
<1> QED BY <1>1, WriteKeeps DEF Unlink, IndInv, TypeOK

(***************************************************************************)
(* find_path and find_related.                                             *)
(***************************************************************************)
\* A call comes: what is right now is witnessed, all that lives may stay.
LEMMA BeginOK ==
    ASSUME IndInv, NEW r \in Requests, Begin(r)
    PROVE  IndInv'
<1>1. r.tool \in {"path", "related", "list"} /\ shown = <<>> /\ reply = NoAnswer
  BY RequestFields DEF IndInv, CallInv, WalkInv, Begin
<1>2. TypeOK'
  BY DEF IndInv, TypeOK, Begin, Return, graph
<1>3. CASE ~Valid(r)
  <2>1. pc' = "done" /\ reply' = Invalid /\ r.tool # "list"
    BY <1>3 DEF Begin, Return, Valid
  <2>2. CallInv'
    BY <2>1 DEF CallInv, AnswersWereTrue
  <2>3. WalkInv'
    BY <1>1, <2>1 DEF WalkInv, Begin
  <2> QED BY <1>2, <2>2, <2>3 DEF IndInv
<1>4. CASE Valid(r)
  <2>1. /\ pc' = IF r.tool = "list" THEN "walk" ELSE "query"
        /\ could' = RightAnswers(r) /\ reply' = NoAnswer
    BY <1>1, <1>4 DEF Begin
  <2>2. RightAnswers(req)' = RightAnswers(r)
    <3>1. req' = r /\ live' = live /\ links' = links
      BY DEF Begin, graph
    <3> QED BY <3>1 DEF RightAnswers, OtherEnd, NothingFound, ShortestPath, NearestRows,
                        RowsOf, Distances, Joined, Usable
  <2>3. CallInv'
    BY <1>1, <2>1, <2>2 DEF CallInv, AnswersWereTrue, Begin
  <2>4. WalkInv'
    <3>1. cursor' = NoId /\ \A m \in stayed' : m \in Nat \ {0}
      BY BrowseConstantsOK DEF IndInv, TypeOK, WalkInv, Begin, Ids, BrowseConstantsOK
    <3> QED BY <1>1, <2>1, <3>1 DEF WalkInv, Begin, NoId
  <2> QED BY <1>2, <2>3, <2>4 DEF IndInv
<1> QED BY <1>3, <1>4

\* A query that changes neither the graph nor the walk keeps everything but what
\* is said of its answer.
LEMMA QueryKeeps ==
    ASSUME IndInv, pc \in {"query", "check"}, pc' \in {"check", "done"},
           UNCHANGED <<graph, req, cursor, shown, could, stayed>>, blind' \in BOOLEAN,
           pc' = "check" => /\ reply' = NoAnswer
                            /\ NothingFound(req) \in could \/ Missing(req.from, OtherEnd(req)),
           pc' = "done" => reply' \in {Invalid, Internal} \/ reply' \in could \/ blind'
    PROVE  IndInv'
<1>1. TypeOK'
  BY DEF IndInv, TypeOK, graph
<1>2. CallInv'
  <2>1. RightAnswers(req)' = RightAnswers(req)
    BY SameGraph DEF graph
  <2>2. NothingFound(req)' = NothingFound(req) /\ Missing(req.from, OtherEnd(req))' = Missing(req.from, OtherEnd(req))
    BY DEF NothingFound, Missing, OtherEnd, graph
  <2> QED BY <2>1, <2>2 DEF IndInv, CallInv, AnswersWereTrue
<1>3. WalkInv'
  BY DEF IndInv, CallInv, WalkInv
<1> QED BY <1>1, <1>2, <1>3 DEF IndInv

\* FindPath's first query answers what is right now, or finds nothing.
LEMMA PathQueryOK ==
    ASSUME IndInv, PathQuery
    PROVE  IndInv'
<1>1. RightAnswers(req) \subseteq could /\ blind \in BOOLEAN /\ reply = NoAnswer
  BY DEF IndInv, CallInv, TypeOK, PathQuery
<1>2. CASE req.from = req.to /\ req.from \in live /\ Return(Internal)
  BY <1>1, <1>2, QueryKeeps DEF PathQuery, Return
<1>3. ASSUME NEW d \in ShortestPath(req), Return(Path(d)) PROVE IndInv'
  <2>1. Path(d) \in RightAnswers(req)
    <3>1. {req.from, req.to} \subseteq live
      BY <1>3 DEF ShortestPath
    <3> QED BY <1>3, <3>1 DEF RightAnswers, OtherEnd, PathQuery
  <2> QED BY <1>1, <1>3, <2>1, QueryKeeps DEF PathQuery, Return
<1>4. CASE ShortestPath(req) = {} /\ pc' = "check" /\ UNCHANGED reply
  <2>1. NothingFound(req) \in RightAnswers(req) \/ Missing(req.from, OtherEnd(req))
    BY <1>4 DEF RightAnswers, Missing, OtherEnd, PathQuery
  <2> QED BY <1>1, <1>4, <2>1, QueryKeeps DEF PathQuery
<1> QED BY <1>2, <1>3, <1>4 DEF PathQuery

\* FindRelated's first query answers what is right now, or finds nothing.
LEMMA RelatedQueryOK ==
    ASSUME IndInv, RelatedQuery
    PROVE  IndInv'
<1>1. RightAnswers(req) \subseteq could /\ blind \in BOOLEAN /\ reply = NoAnswer
  BY DEF IndInv, CallInv, TypeOK, RelatedQuery
<1>2. PICK chosen \in NearestRows(req) :
          IF chosen = {} THEN pc' = "check" /\ UNCHANGED reply
          ELSE Return(Related(RowsOf(req, chosen)))
  BY DEF RelatedQuery
<1>3. req.from \in live => Related(RowsOf(req, chosen)) \in RightAnswers(req)
  BY <1>2 DEF RightAnswers, OtherEnd, RelatedQuery
<1>4. CASE chosen = {}
  <2>1. Related(RowsOf(req, chosen)) = NothingFound(req)
    BY <1>4, NoRowsAreNone DEF NothingFound, RelatedQuery
  <2>2. NothingFound(req) \in could \/ Missing(req.from, OtherEnd(req))
    BY <1>1, <1>3, <2>1 DEF Missing
  <2> QED BY <1>1, <1>2, <1>4, <2>2, QueryKeeps DEF RelatedQuery
<1>5. CASE chosen # {}
  <2>1. req.from \in live
    BY <1>2, <1>5 DEF NearestRows, NoRows
  <2> QED BY <1>1, <1>2, <1>3, <1>5, <2>1, QueryKeeps DEF RelatedQuery, Return
<1> QED BY <1>4, <1>5

\* A failing query answers Internal.
LEMMA QueryFailsOK ==
    ASSUME IndInv, QueryFails
    PROVE  IndInv'
BY QueryKeeps DEF QueryFails, Return, IndInv, TypeOK

\* endpointsExist decides between not found and nothing found.
LEMMA CheckOK ==
    ASSUME IndInv, Check
    PROVE  IndInv'
<1>1. Missing(req.from, OtherEnd(req)) => NotFound \in RightAnswers(req)
  <2>1. req.tool # "list"
    BY DEF IndInv, CallInv, Check
  <2> QED BY <2>1 DEF Missing, RightAnswers
<1>2. reply' \in could
  BY <1>1 DEF IndInv, CallInv, Check, Return
<1> QED BY <1>2, QueryKeeps DEF Check, Return, IndInv, TypeOK

\* Its failure answers that nothing was found.
LEMMA CheckFailsOK ==
    ASSUME IndInv, CheckFails
    PROVE  IndInv'
BY QueryKeeps DEF CheckFails, Return, IndInv, TypeOK

(***************************************************************************)
(* The walk through list_memories.                                         *)
(***************************************************************************)
\* The next page goes on where the walk is.
LEMMA NextPageOK ==
    ASSUME IndInv, NextPage
    PROVE  IndInv'
<1>1. PICK page \in SeqOf(live, LimitOf(req)) :
          /\ IsPage(page, LimitOf(req))
          /\ shown' = shown \o page
          /\ cursor' = NextAfterId(page, LimitOf(req))
  BY DEF NextPage
<1>2. req \in Requests /\ req.tool = "list" /\ LimitOf(req) \in Nat \ {0}
  BY RequestFields DEF IndInv, TypeOK, WalkInv, NextPage, NoRequest
<1>3. live \subseteq Ids /\ Ids \subseteq Nat \ {0} /\ shown \in Seq(Ids) /\ cursor \in Nat
  BY BrowseConstantsOK DEF IndInv, TypeOK, Ids, NoId, BrowseConstantsOK
<1>4. \A i \in 1 .. Len(shown) : shown[i] <= cursor /\ shown[i] \in Nat
  <2>1. DOMAIN shown = 1 .. Len(shown)
    BY <1>3, LenProperties
  <2>2. \A i \in 1 .. Len(shown) : shown[i] \in Nat
    BY <1>3, ElementOfSeq
  <2> QED BY <2>1, <2>2 DEF IndInv, WalkInv, NextPage
<1> DEFINE ahead == {m \in live : m > cursor}
<1>5. /\ page \in Seq(ahead) /\ page \in Seq(Ids) /\ Len(page) \in 0 .. LimitOf(req)
      /\ DOMAIN page = 1 .. Len(page)
      /\ \A i \in 1 .. Len(page) : page[i] \in ahead
      /\ \A i, j \in 1 .. Len(page) : i < j => page[i] < page[j]
  <2>1. PICK n \in 0 .. LimitOf(req) : page \in [1 .. n -> ahead]
    BY <1>1 DEF IsPage, SeqOf
  <2>2. n \in Nat
    BY <1>2
  <2>3. page \in Seq(ahead) /\ Len(page) = n
    BY <2>1, <2>2
  <2>4. page \in Seq(Ids)
    <3>1. page \in [1 .. n -> Ids]
      BY <1>3, <2>1
    <3> QED BY <2>2, <3>1
  <2> QED BY <1>1, <2>1, <2>3, <2>4 DEF IsPage
<1>6. \A m \in ahead \ Range(page) : Len(page) = LimitOf(req) /\ page[LimitOf(req)] < m
  BY <1>1 DEF IsPage
<1> HIDE DEF ahead
<1>7. /\ shown' \in Seq(Ids) /\ Len(shown') = Len(shown) + Len(page)
      /\ \A i \in 1 .. Len(shown) : shown'[i] = shown[i]
      /\ \A i \in 1 .. Len(page) : shown'[Len(shown) + i] = page[i]
      /\ \A i \in 1 .. Len(shown') :
             i \in 1 .. Len(shown) \/ (i - Len(shown) \in 1 .. Len(page) /\ shown'[i] = page[i - Len(shown)])
  BY <1>1, <1>3, <1>5
<1>8. Range(shown) \cup Range(page) \subseteq Range(shown')
  <2>1. ASSUME NEW i \in 1 .. Len(page) PROVE page[i] \in Range(shown')
    <3>1. Len(shown) + i \in 1 .. Len(shown')
      BY <1>3, <1>5, <1>7
    <3> QED BY <1>7, <3>1 DEF Range
  <2>2. ASSUME NEW i \in 1 .. Len(shown) PROVE shown[i] \in Range(shown')
    <3>1. i \in 1 .. Len(shown')
      BY <1>3, <1>5, <1>7
    <3> QED BY <1>7, <3>1 DEF Range
  <2> QED BY <1>3, <1>5, <2>1, <2>2 DEF Range
<1>9. \A i, j \in DOMAIN shown' : i < j => shown'[i] < shown'[j]
  <2> SUFFICES ASSUME NEW i \in 1 .. Len(shown'), NEW j \in 1 .. Len(shown'), i < j
               PROVE  shown'[i] < shown'[j]
    BY <1>7
  <2>1. CASE j \in 1 .. Len(shown)
    <3>1. i \in 1 .. Len(shown)
      BY <1>3, <2>1
    <3> QED BY <1>3, <1>7, <2>1, <3>1 DEF IndInv, WalkInv
  <2>2. CASE j - Len(shown) \in 1 .. Len(page) /\ shown'[j] = page[j - Len(shown)]
    <3>1. shown'[j] \in ahead
      BY <1>5, <2>2
    <3>2. CASE i \in 1 .. Len(shown)
      <4>1. shown'[j] \in Nat /\ cursor < shown'[j]
        BY <1>3, <3>1 DEF ahead
      <4> QED BY <1>3, <1>7, <1>4, <3>2, <4>1
    <3>3. CASE i - Len(shown) \in 1 .. Len(page) /\ shown'[i] = page[i - Len(shown)]
      <4>1. i - Len(shown) < j - Len(shown)
        BY <1>3
      <4> QED BY <1>5, <2>2, <3>3, <4>1
    <3> QED BY <1>7, <3>2, <3>3
  <2> QED BY <1>7, <2>1, <2>2
<1>10. stayed \subseteq live /\ \A m \in stayed : m <= cursor => m \in Range(shown)
  BY DEF IndInv, TypeOK, WalkInv, NextPage
<1>11. ASSUME NEW m \in stayed, m \notin Range(shown')
       PROVE  Len(page) = LimitOf(req) /\ page[LimitOf(req)] < m
  BY <1>3, <1>6, <1>8, <1>10, <1>11 DEF ahead
<1>12. CallInv'
  BY DEF IndInv, CallInv, NextPage, AnswersWereTrue
<1>13. CASE Len(page) = LimitOf(req)
  <2>1. /\ cursor' = page[LimitOf(req)] /\ LimitOf(req) \in 1 .. Len(page)
        /\ cursor' \in ahead
    BY <1>1, <1>2, <1>5, <1>13 DEF NextAfterId
  <2>2. cursor' \in Ids /\ cursor' # NoId /\ cursor < cursor' /\ pc' = "walk"
    BY <1>3, <2>1 DEF ahead, NextPage, NoId
  <2>3. TypeOK'
    BY <1>7, <2>2 DEF IndInv, TypeOK, NextPage, graph
  <2>4. \A i \in DOMAIN shown' : shown'[i] <= cursor'
    <3> SUFFICES ASSUME NEW i \in 1 .. Len(shown') PROVE shown'[i] <= cursor'
      BY <1>7
    <3>1. CASE i \in 1 .. Len(shown)
      BY <1>3, <1>7, <1>4, <2>2, <3>1
    <3>2. CASE i - Len(shown) \in 1 .. Len(page) /\ shown'[i] = page[i - Len(shown)]
      <4>1. i - Len(shown) = LimitOf(req) \/ i - Len(shown) < LimitOf(req)
        BY <1>2, <1>3, <1>13, <3>2
      <4>2. page[i - Len(shown)] \in Nat /\ cursor' \in Nat
        BY <1>3, <1>5, <2>2, <3>2 DEF ahead
      <4> QED BY <1>5, <2>1, <3>2, <4>1, <4>2
    <3> QED BY <1>7, <3>1, <3>2
  <2>5. \A m \in stayed' : m <= cursor' => m \in Range(shown')
    BY <1>3, <1>10, <1>11, <2>1, <2>2 DEF NextPage
  <2>6. WalkInv'
    BY <1>2, <1>9, <2>2, <2>4, <2>5 DEF WalkInv, NextPage
  <2> QED BY <1>12, <2>3, <2>6 DEF IndInv
<1>14. CASE Len(page) # LimitOf(req)
  <2>1. cursor' = NoId /\ pc' = "done"
    BY <1>1, <1>14 DEF NextAfterId, NextPage
  <2>2. TypeOK'
    BY <1>7, <2>1 DEF IndInv, TypeOK, NextPage, graph
  <2>3. stayed' \subseteq Range(shown')
    BY <1>11, <1>14 DEF NextPage
  <2>4. WalkInv'
    BY <1>9, <2>1, <2>3 DEF WalkInv
  <2> QED BY <1>12, <2>2, <2>4 DEF IndInv
<1> QED BY <1>13, <1>14

(***************************************************************************)
(* The theorems.                                                           *)
(***************************************************************************)
\* The invariant holds in every initial graph.
LEMMA InitOK == Init => IndInv
<1> SUFFICES ASSUME Init PROVE IndInv
  OBVIOUS
<1>1. TypeOK
  <2>1. 0 \in 0 .. MaxWrites /\ <<>> \in Seq(Ids)
    BY BrowseConstantsOK DEF BrowseConstantsOK
  <2>2. links \subseteq {l \in AllLinks : l.ends \subseteq live}
    BY DEF Init
  <2> QED BY <2>1, <2>2 DEF Init, TypeOK
<1>2. CallInv /\ WalkInv
  BY DEF Init, CallInv, WalkInv, AnswersWereTrue
<1> QED BY <1>1, <1>2 DEF IndInv

\* Every step keeps the invariant.
LEMMA StepOK == IndInv /\ [Next]_vars => IndInv'
<1> SUFFICES ASSUME IndInv, [Next]_vars PROVE IndInv'
  OBVIOUS
<1>1. CASE UNCHANGED vars
  <2>1. RightAnswers(req)' = RightAnswers(req)
    BY <1>1, SameGraph DEF vars, graph
  <2>2. /\ NothingFound(req)' = NothingFound(req)
        /\ Missing(req.from, OtherEnd(req))' = Missing(req.from, OtherEnd(req))
    BY <1>1 DEF NothingFound, Missing, OtherEnd, vars, graph
  <2>3. CallInv'
    BY <1>1, <2>1, <2>2 DEF vars, IndInv, CallInv, AnswersWereTrue
  <2> QED BY <1>1, <2>3 DEF vars, graph, IndInv, TypeOK, WalkInv
<1>2. CASE \E m \in Ids : Add(m) \/ Delete(m)
  BY <1>2, AddOK, DeleteOK
<1>3. CASE \E l \in AllLinks : Link(l) \/ Unlink(l)
  BY <1>3, LinkOK, UnlinkOK
<1>4. CASE \E r \in Requests : Begin(r)
  BY <1>4, BeginOK
<1>5. CASE PathQuery \/ RelatedQuery \/ QueryFails \/ Check \/ CheckFails \/ NextPage
  BY <1>5, PathQueryOK, RelatedQueryOK, QueryFailsOK, CheckOK, CheckFailsOK, NextPageOK
<1> QED BY <1>1, <1>2, <1>3, <1>4, <1>5 DEF Next

\* The invariant holds in every reachable state.
THEOREM Inductive == Spec => []IndInv
BY InitOK, StepOK, PTL DEF Spec

\* Every variable keeps its type; in particular links join memories that are there,
\* and only add_memory brings those about.
THEOREM TypeCorrect == Spec => []TypeOK
BY Inductive, PTL DEF IndInv

\* FindPath and FindRelated answer what was right at some moment of the call,
\* whatever other calls did between their two queries, unless the second failed.
THEOREM AnswersAreTrue == Spec => []AnswersWereTrue
BY Inductive, PTL DEF IndInv, CallInv

\* A walk through the pages of list_memories shows each memory that stayed, and
\* none twice, with any page size and any number of memories.
THEOREM WalksAreComplete == Spec => []WalkComplete
<1>1. ASSUME IndInv PROVE WalkComplete
  <2>1. IsInjective(shown)
    <3> SUFFICES ASSUME NEW i \in DOMAIN shown, NEW j \in DOMAIN shown, shown[i] = shown[j]
                 PROVE  i = j
      BY DEF IsInjective
    <3>1. i \in Nat /\ j \in Nat /\ shown[i] \in Nat
      BY <1>1, BrowseConstantsOK DEF IndInv, TypeOK, Ids, BrowseConstantsOK
    <3>2. ~(i < j) /\ ~(j < i)
      BY <1>1, <3>1 DEF IndInv, WalkInv
    <3> QED BY <3>1, <3>2
  <2>2. req.tool = "list" /\ pc = "done" => stayed \subseteq Range(shown)
    BY <1>1 DEF IndInv, WalkInv
  <2> QED BY <2>1, <2>2 DEF WalkComplete
<1> QED BY <1>1, Inductive, PTL
=============================================================================
