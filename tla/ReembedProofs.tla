---------------------------- MODULE ReembedProofs ----------------------------
(***************************************************************************)
(* Proofs about Reembed, for any number of concurrent calls, any batch     *)
(* size and any bounds.                                                    *)
(***************************************************************************)
EXTENDS Reembed, FiniteSetTheorems, TLAPS

\* A call that is not running satisfies the call invariant over any store.
LEMMA IdleOK ==
    ASSUME NEW lv, NEW em, NEW de
    PROVE  Idle \in RunState /\ CallInv(Idle, lv, em, de)
<1>1. Idle \in RunState
  BY DEF Idle, RunState, Pcs, Errors
<1>2. CallInv(Idle, lv, em, de)
  BY DEF Idle, CallInv, PageInv, CountInv, CapInv, DurableInv, SweepInv,
         BackfillInv, OnceInv, OnPage, Finished, Seen
<1> QED BY <1>1, <1>2

\* A new pass, from any store whose ids are positive.
LEMMA PassOK ==
    ASSUME live \subseteq Nat \ {0}, NEW scope \in {"missing", "all"}, NEW max \in Nat
    PROVE  /\ Pass(scope, max) \in RunState
           /\ CallInv(Pass(scope, max), live, embedded, deleted)
<1> DEFINE s == Pass(scope, max)
<1>1. live \subseteq Nat \ {0}
  OBVIOUS
<1>2. s \in RunState
  <2>1. Targets(scope) \subseteq Nat
    BY <1>1 DEF Targets, Missing
  <2>2. Idle \in RunState
    BY IdleOK
  <2> QED BY <2>1 DEF Pass, Idle, RunState, Pcs, Errors
<1>3. /\ s.pc = "fetch" /\ s.scope = scope /\ s.max = max /\ s.cursor = 0
      /\ s.processed = 0 /\ s.succeeded = 0 /\ s.failed = 0 /\ s.err = "none"
      /\ s.ok = {} /\ s.failures = {} /\ s.start \subseteq live
  BY DEF Pass, Idle, Targets, Missing
<1> HIDE DEF s
<1>4. PageInv(s) /\ CountInv(s) /\ CapInv(s)
  BY <1>3 DEF PageInv, CountInv, CapInv, OnPage
<1>5. DurableInv(s, live, embedded, deleted)
  BY <1>3 DEF DurableInv
<1>6. SweepInv(s, deleted)
  <2>1. \A i \in s.start : ~(i <= s.cursor)
    <3>1. \A i \in live : i \in Nat /\ i # 0
      BY <1>1
    <3>2. \A i \in s.start : i \in Nat /\ i # 0
      BY <1>3, <3>1
    <3> QED BY <1>3, <3>2
  <2> QED BY <1>3, <2>1 DEF SweepInv, OnPage, Finished
<1>7. BackfillInv(s, embedded, deleted)
  BY <1>3 DEF BackfillInv, OnPage, Finished
<1>8. OnceInv(s)
  BY <1>3, FS_EmptySet DEF OnceInv, OnPage, Seen
<1> QED BY <1>2, <1>4, <1>5, <1>6, <1>7, <1>8 DEF s, CallInv

\* A call that does not move keeps its invariant while the store evolves:
\* memories are only added or marked deleted, embeddings only filled in.
LEMMA EvolveOK ==
    ASSUME NEW lv, NEW em, NEW de, NEW lv2, NEW em2, NEW de2,
           NEW s \in RunState, CallInv(s, lv, em, de),
           de \subseteq de2, em \cup de \subseteq em2 \cup de2,
           lv \cup de \subseteq lv2 \cup de2
    PROVE  CallInv(s, lv2, em2, de2)
<1>1. DurableInv(s, lv2, em2, de2)
  BY DEF CallInv, DurableInv
<1>2. SweepInv(s, de2)
  BY DEF CallInv, SweepInv
<1>3. BackfillInv(s, em2, de2)
  <2>1. s.start \subseteq de \cup em \cup s.batch =>
          s.start \subseteq de2 \cup em2 \cup s.batch
    OBVIOUS
  <2>2. s.start \ de \subseteq em \cup s.failures =>
          s.start \ de2 \subseteq em2 \cup s.failures
    OBVIOUS
  <2> QED BY <2>1, <2>2 DEF CallInv, BackfillInv
<1> QED BY <1>1, <1>2, <1>3 DEF CallInv

\* Run returns with an error, or because the cap is reached, from the top
\* of its loop.
LEMMA ReturnOK ==
    ASSUME NEW lv, NEW em, NEW de, NEW s \in RunState, CallInv(s, lv, em, de),
           NEW e \in Errors, s.pc = "fetch", e = "none" => AtCap(s)
    PROVE  Return(s, e) \in RunState /\ CallInv(Return(s, e), lv, em, de)
<1> DEFINE t == Return(s, e)
<1>1. t \in RunState
  BY DEF Return, RunState, Pcs
<1>2. /\ t.pc = "done" /\ t.err = e /\ t.scope = s.scope /\ t.max = s.max
      /\ t.processed = s.processed /\ t.succeeded = s.succeeded
      /\ t.failed = s.failed /\ t.ok = s.ok /\ t.failures = s.failures
      /\ t.start = s.start
  BY DEF Return, RunState
<1>3. ~Finished(t) /\ ~OnPage(t) /\ ~OnPage(s)
  BY <1>2 DEF Finished, AtCap, OnPage
<1>4. s.scope \in {"missing", "all"}
  BY DEF CallInv, PageInv
<1>5. PageInv(t) /\ CountInv(t) /\ CapInv(t)
  BY <1>2, <1>3, <1>4 DEF CallInv, PageInv, CountInv, CapInv
<1>6. DurableInv(t, lv, em, de) /\ SweepInv(t, de) /\ BackfillInv(t, em, de)
  BY <1>2, <1>3 DEF CallInv, DurableInv, SweepInv, BackfillInv
<1>7. OnceInv(t)
  BY <1>2, <1>3 DEF CallInv, OnceInv, Seen
<1> QED BY <1>1, <1>5, <1>6, <1>7 DEF CallInv

\* The page query finds nothing: the pass is over.
LEMMA FetchEmptyOK ==
    ASSUME NEW s \in RunState, CallInv(s, live, embedded, deleted),
           s.pc = "fetch", Candidates(s) = {}
    PROVE  /\ Return(s, "none") \in RunState
           /\ CallInv(Return(s, "none"), live, embedded, deleted)
<1> DEFINE t == Return(s, "none")
<1>1. t \in RunState
  BY DEF Return, RunState, Pcs, Errors
<1>2. /\ t.pc = "done" /\ t.err = "none" /\ t.scope = s.scope /\ t.max = s.max
      /\ t.processed = s.processed /\ t.succeeded = s.succeeded
      /\ t.failed = s.failed /\ t.ok = s.ok /\ t.failures = s.failures
      /\ t.start = s.start
  BY DEF Return, RunState
<1>3. ~OnPage(t) /\ ~OnPage(s)
  BY <1>2 DEF OnPage
<1>4. /\ s.scope \in {"missing", "all"} /\ s.start \subseteq live \cup deleted
      /\ s.start \subseteq Nat /\ s.cursor \in Nat
  BY DEF CallInv, PageInv, DurableInv, RunState
<1>5. PageInv(t) /\ CountInv(t) /\ CapInv(t) /\ DurableInv(t, live, embedded, deleted)
  BY <1>2, <1>3, <1>4 DEF CallInv, PageInv, CountInv, CapInv, DurableInv
<1>6. SweepInv(t, deleted)
  <2> SUFFICES ASSUME s.scope = "all", NEW i \in s.start \ deleted
               PROVE  i \in Seen(t)
    BY <1>2, <1>3 DEF SweepInv
  <2>1. i <= s.cursor
    BY <1>4 DEF Candidates
  <2> QED BY <1>2, <2>1 DEF CallInv, SweepInv, Seen
<1>7. BackfillInv(t, embedded, deleted)
  BY <1>2, <1>3, <1>4 DEF BackfillInv, Candidates, Missing
<1>8. OnceInv(t)
  BY <1>2, <1>3 DEF CallInv, OnceInv, Seen
<1> QED BY <1>1, <1>5, <1>6, <1>7, <1>8 DEF CallInv

\* The room under the cap is positive, and never more than what is left.
LEMMA RoomBounds ==
    ASSUME ConstantsOK, NEW s \in RunState, ~AtCap(s)
    PROVE  /\ Room(s) \in Nat \ {0}
           /\ s.max > 0 => s.processed + Room(s) <= s.max
<1>1. s.max \in Nat /\ s.processed \in Nat /\ BatchSize \in Nat \ {0}
  BY DEF RunState, ConstantsOK
<1> QED BY <1>1 DEF AtCap, Room

\* The page query returns a page.
LEMMA FetchPageOK ==
    ASSUME ConstantsOK, TypeOK, NEW s \in RunState,
           CallInv(s, live, embedded, deleted),
           s.pc = "fetch", ~AtCap(s), NEW B, IsPage(s, B, Room(s)),
           NEW t, t = [s EXCEPT !.pc = "embed", !.n = Room(s), !.batch = B,
                                !.todo = B, !.gained = 0]
    PROVE  t \in RunState /\ CallInv(t, live, embedded, deleted)
<1>1. /\ Room(s) \in Nat \ {0}
      /\ s.max > 0 => s.processed + Room(s) <= s.max
  BY RoomBounds
<1>2. live \subseteq 1 .. minted /\ minted \in Nat /\ B \subseteq live
  BY DEF TypeOK, IsPage, Candidates, Missing
<1>3. B \in SUBSET Nat
  BY <1>2
<1>4. IsFiniteSet(B) /\ Cardinality(B) \in Nat
  <2>1. B \in SUBSET Nat /\ \A b \in B : b <= minted
    BY <1>2, <1>3
  <2>2. IsFiniteSet(B)
    BY <1>2, <2>1, FS_BoundedSetOfNaturals
  <2> QED BY <2>2, FS_CardinalityType
<1>5. t \in RunState
  BY <1>1, <1>3 DEF RunState, Pcs
<1>6. /\ t.pc = "embed" /\ t.scope = s.scope /\ t.max = s.max
      /\ t.cursor = s.cursor /\ t.n = Room(s) /\ t.batch = B /\ t.todo = B
      /\ t.processed = s.processed /\ t.succeeded = s.succeeded
      /\ t.failed = s.failed /\ t.ok = s.ok /\ t.failures = s.failures
      /\ t.start = s.start
  BY DEF RunState
<1>7. OnPage(t) /\ ~Finished(t) /\ ~OnPage(s) /\ t.pc # "fetch"
  BY <1>6 DEF OnPage, Finished
<1>8. s.scope \in {"missing", "all"} /\ s.start \subseteq live \cup deleted
  BY DEF CallInv, PageInv, DurableInv
<1>9. PageInv(t) /\ CountInv(t) /\ DurableInv(t, live, embedded, deleted)
  BY <1>4, <1>6, <1>8 DEF CallInv, PageInv, CountInv, DurableInv, OnPage
<1>10. CapInv(t)
  <2>1. Cardinality(B) <= Room(s)
    BY DEF IsPage
  <2>2. s.max \in Nat /\ s.processed \in Nat
    BY DEF RunState
  <2> QED BY <1>1, <1>4, <1>6, <1>7, <1>8, <2>1, <2>2 DEF CapInv
<1>11. SweepInv(t, deleted)
  <2> SUFFICES ASSUME s.scope = "all", NEW i \in s.start \ deleted, i \notin Seen(s),
                      i \notin B
               PROVE  ~ShortPage(t) /\ \A b \in B : b < i
    BY <1>6, <1>7 DEF SweepInv, Seen
  <2>1. ~(i <= s.cursor)
    BY DEF CallInv, SweepInv
  <2>2. i \in Candidates(s)
    BY <1>2, <1>8, <2>1 DEF Candidates, RunState
  <2> QED BY <1>6, <2>2 DEF IsPage, ShortPage
<1>12. BackfillInv(t, embedded, deleted)
  BY <1>6, <1>7, <1>8 DEF BackfillInv, ShortPage, IsPage, Candidates, Missing
<1>13. OnceInv(t)
  <2>1. s.scope = "all" => \A i \in B : i > s.cursor
    BY DEF IsPage, Candidates
  <2> QED BY <1>6, <1>7, <2>1 DEF CallInv, OnceInv, Seen
<1> QED BY <1>5, <1>9, <1>10, <1>11, <1>12, <1>13 DEF CallInv

\* The embedder answered: which entries have a vector is now known.
LEMMA EmbedPageOK ==
    ASSUME NEW lv, NEW em, NEW de, NEW s \in RunState, CallInv(s, lv, em, de),
           s.pc = "embed", NEW V \in SUBSET s.batch,
           NEW t, t = [s EXCEPT !.pc = "update", !.vecs = V]
    PROVE  t \in RunState /\ CallInv(t, lv, em, de)
<1>1. t \in RunState
  BY DEF RunState, Pcs
<1>2. /\ t.pc = "update" /\ t.scope = s.scope /\ t.max = s.max
      /\ t.cursor = s.cursor /\ t.n = s.n /\ t.batch = s.batch
      /\ t.todo = s.todo /\ t.processed = s.processed
      /\ t.succeeded = s.succeeded /\ t.failed = s.failed /\ t.ok = s.ok
      /\ t.failures = s.failures /\ t.start = s.start
  BY DEF RunState
<1>3. OnPage(t) /\ OnPage(s) /\ ~Finished(t)
  BY <1>2 DEF OnPage, Finished
<1>4. PageInv(t) /\ CountInv(t) /\ CapInv(t) /\ DurableInv(t, lv, em, de)
  BY <1>2, <1>3 DEF CallInv, PageInv, CountInv, CapInv, DurableInv, Seen
<1>5. SweepInv(t, de) /\ BackfillInv(t, em, de)
  BY <1>2, <1>3 DEF CallInv, SweepInv, BackfillInv, Seen, ShortPage
<1>6. OnceInv(t)
  BY <1>2, <1>3 DEF CallInv, OnceInv, Seen
<1> QED BY <1>1, <1>4, <1>5, <1>6 DEF CallInv

\* The embedder failed: the whole page is recorded, and Run returns.
LEMMA EmbedFailsOK ==
    ASSUME NEW lv, NEW em, NEW de, NEW s \in RunState, CallInv(s, lv, em, de),
           s.pc = "embed",
           NEW t, t = Return([s EXCEPT !.processed = @ + Cardinality(s.batch),
                                       !.failed = @ + Cardinality(s.batch),
                                       !.failures = @ \cup s.batch,
                                       !.todo = {}], "embed")
    PROVE  t \in RunState /\ CallInv(t, lv, em, de)
<1>1. /\ OnPage(s) /\ s.todo = s.batch /\ IsFiniteSet(s.batch)
      /\ s.scope \in {"missing", "all"}
  BY DEF CallInv, PageInv, OnPage
<1> DEFINE k == Cardinality(s.batch)
<1>2. k \in Nat
  BY <1>1, FS_CardinalityType
<1>3. t \in RunState
  <2> DEFINE u == [s EXCEPT !.processed = @ + k, !.failed = @ + k,
                            !.failures = @ \cup s.batch, !.todo = {}]
  <2>1. s.processed + k \in Nat /\ s.failed + k \in Nat
    BY <1>2 DEF RunState
  <2>2. s.failures \cup s.batch \in SUBSET Nat
    BY DEF RunState
  <2>3. u \in RunState
    BY <2>1, <2>2 DEF RunState
  <2> HIDE DEF u
  <2>4. Return(u, "embed") \in RunState
    BY <2>3 DEF Return, RunState, Pcs, Errors
  <2> QED BY <2>4 DEF u
<1>4. /\ t.pc = "done" /\ t.err = "embed" /\ t.scope = s.scope
      /\ t.max = s.max /\ t.processed = s.processed + k
      /\ t.succeeded = s.succeeded /\ t.failed = s.failed + k
      /\ t.ok = s.ok /\ t.failures = s.failures \cup s.batch
      /\ t.start = s.start
  BY DEF Return, RunState
<1>5. ~OnPage(t) /\ ~Finished(t)
  BY <1>4 DEF OnPage, Finished
<1>6. s.processed \in Nat /\ s.succeeded \in Nat /\ s.failed \in Nat
  BY DEF RunState
<1>7. PageInv(t) /\ CountInv(t)
  BY <1>1, <1>2, <1>4, <1>5, <1>6 DEF CallInv, PageInv, CountInv
<1>8. CapInv(t)
  BY <1>1, <1>2, <1>4, <1>5, <1>6 DEF CallInv, CapInv
<1>9. DurableInv(t, lv, em, de) /\ SweepInv(t, de) /\ BackfillInv(t, em, de)
  BY <1>4, <1>5 DEF CallInv, DurableInv, SweepInv, BackfillInv
<1>10. OnceInv(t)
  <2> SUFFICES ASSUME s.scope = "all" PROVE OnceInv(t)
    BY <1>4 DEF OnceInv
  <2>1. /\ IsFiniteSet(s.ok) /\ IsFiniteSet(s.failures)
        /\ s.ok \cap s.failures = {} /\ s.processed = Cardinality(Seen(s))
        /\ \A i \in s.batch : i > s.cursor
        /\ \A i \in Seen(s) : i <= s.cursor
    BY <1>1 DEF CallInv, OnceInv
  <2>2. Seen(s) \cap s.batch = {} /\ s.ok \cap s.batch = {}
    BY <2>1 DEF Seen, RunState
  <2>3. IsFiniteSet(Seen(s)) /\ IsFiniteSet(s.failures \cup s.batch)
    BY <1>1, <2>1, FS_Union DEF Seen
  <2>4. Cardinality(Seen(s) \cup s.batch)
          = Cardinality(Seen(s)) + k - Cardinality(Seen(s) \cap s.batch)
    BY <1>1, <2>3, FS_Union
  <2>5. Cardinality(Seen(s) \cup s.batch) = s.processed + k
    <3>1. Cardinality(Seen(s) \cap s.batch) = 0
      BY <2>2, FS_EmptySet
    <3> QED BY <1>2, <1>6, <2>1, <2>4, <3>1
  <2>6. Seen(t) = Seen(s) \cup s.batch
    BY <1>4 DEF Seen
  <2> QED BY <1>4, <1>5, <2>1, <2>2, <2>3, <2>5, <2>6 DEF OnceInv
<1> QED BY <1>3, <1>7, <1>8, <1>9, <1>10 DEF CallInv

\* c is s after the loop has counted entry i.
Counted(c, s, i) ==
    /\ c \in RunState /\ c.processed = s.processed + 1
    /\ c.todo = s.todo \ {i} /\ c.pc = s.pc /\ c.scope = s.scope
    /\ c.max = s.max /\ c.cursor = s.cursor /\ c.n = s.n
    /\ c.batch = s.batch /\ c.succeeded = s.succeeded
    /\ c.failed = s.failed /\ c.failures = s.failures /\ c.ok = s.ok
    /\ c.start = s.start

\* Both branches of the update loop count the entry.
LEMMA CountOK == ASSUME NEW s \in RunState, NEW i PROVE Counted(Count(s, i), s, i)
<1>1. s.processed + 1 \in Nat /\ s.todo \ {i} \in SUBSET Nat
  BY DEF RunState
<1>2. Count(s, i) \in RunState
  BY <1>1 DEF Count, RunState
<1> QED BY <1>2 DEF Counted, Count, RunState

\* The update loop ticks off entry i: either its embedding is in the store
\* and it counts as succeeded, or it is recorded as failed.
LEMMA TickOK ==
    ASSUME NEW lv, NEW em, NEW de, NEW em2,
           NEW s \in RunState, CallInv(s, lv, em, de),
           s.pc = "update", NEW i \in s.todo, em \subseteq em2,
           NEW c, Counted(c, s, i), NEW t,
           \/ t = Succeed(c, i) /\ i \in em2
           \/ t = Fail(c, i)
    PROVE  t \in RunState /\ CallInv(t, lv, em2, de)
<1>1. /\ OnPage(s) /\ IsFiniteSet(s.batch) /\ s.todo \subseteq s.batch
      /\ s.batch \ s.todo \subseteq Seen(s) /\ s.scope \in {"missing", "all"}
  BY DEF CallInv, PageInv, OnPage
<1>2. i \in Nat /\ i \in s.batch
  BY <1>1 DEF RunState
<1> USE DEF Counted
<1>3. t \in RunState
  <2>1. /\ c.failures \cup {i} \in SUBSET Nat /\ c.ok \cup {i} \in SUBSET Nat
        /\ c.succeeded + 1 \in Nat /\ c.failed + 1 \in Nat /\ c.gained + 1 \in Nat
    BY <1>2 DEF RunState
  <2>2. Succeed(c, i) \in RunState
    BY <2>1 DEF Succeed, RunState
  <2>3. Fail(c, i) \in RunState
    BY <2>1 DEF Fail, RunState
  <2> QED BY <2>2, <2>3
<1>4. /\ t.pc = "update" /\ t.scope = s.scope /\ t.max = s.max
      /\ t.cursor = s.cursor /\ t.n = s.n /\ t.batch = s.batch
      /\ t.todo = s.todo \ {i} /\ t.start = s.start
      /\ t.processed = s.processed + 1
  BY DEF Succeed, Fail, RunState
<1>5. \/ /\ t.ok = s.ok \cup {i} /\ t.failures = s.failures /\ i \in em2
         /\ t.succeeded = s.succeeded + 1 /\ t.failed = s.failed
      \/ /\ t.ok = s.ok /\ t.failures = s.failures \cup {i}
         /\ t.succeeded = s.succeeded /\ t.failed = s.failed + 1
  <2>1. CASE t = Succeed(c, i) /\ i \in em2
    BY <2>1 DEF Succeed, RunState
  <2>2. CASE t = Fail(c, i)
    BY <2>2 DEF Fail, RunState
  <2> QED BY <2>1, <2>2
<1>6. OnPage(t) /\ ~Finished(t)
  BY <1>4 DEF OnPage, Finished
<1>7. Seen(t) = Seen(s) \cup {i}
  BY <1>5 DEF Seen
<1>8. PageInv(t)
  BY <1>1, <1>4, <1>6, <1>7 DEF PageInv
<1>9. CountInv(t)
  BY <1>1, <1>4, <1>5 DEF CallInv, CountInv, RunState
<1>10. CapInv(t)
  <2>1. IsFiniteSet(s.todo)
    BY <1>1, FS_Subset
  <2>2. /\ Cardinality(s.todo \ {i}) = Cardinality(s.todo) - 1
        /\ Cardinality(s.todo) \in Nat
    BY <2>1, FS_RemoveElement, FS_CardinalityType
  <2> QED BY <1>4, <1>6, <1>1, <2>2 DEF CallInv, CapInv, RunState
<1>11. DurableInv(t, lv, em2, de)
  BY <1>4, <1>5 DEF CallInv, DurableInv
<1>12. SweepInv(t, de)
  BY <1>1, <1>4, <1>6, <1>7 DEF CallInv, SweepInv, ShortPage
<1>13. BackfillInv(t, em2, de)
  BY <1>1, <1>4, <1>6 DEF CallInv, BackfillInv, ShortPage
<1>14. OnceInv(t)
  <2> SUFFICES ASSUME s.scope = "all" PROVE OnceInv(t)
    BY <1>4 DEF OnceInv
  <2>1. /\ IsFiniteSet(s.ok) /\ IsFiniteSet(s.failures)
        /\ s.ok \cap s.failures = {} /\ s.processed = Cardinality(Seen(s))
        /\ \A j \in s.batch : j > s.cursor
        /\ \A j \in Seen(s) : j <= s.cursor \/ j \in s.batch \ s.todo
    BY <1>1 DEF CallInv, OnceInv
  <2>2. i \notin Seen(s)
    BY <1>2, <2>1 DEF RunState
  <2>3. IsFiniteSet(Seen(s))
    BY <2>1, FS_Union DEF Seen
  <2>4. Cardinality(Seen(t)) = s.processed + 1
    BY <1>7, <2>1, <2>2, <2>3, FS_AddElement
  <2>5. IsFiniteSet(t.ok) /\ IsFiniteSet(t.failures)
    <3>1. IsFiniteSet(s.ok \cup {i}) /\ IsFiniteSet(s.failures \cup {i})
      BY <2>1, FS_AddElement
    <3> QED BY <1>5, <2>1, <3>1
  <2>6. t.ok \cap t.failures = {}
    BY <1>5, <2>1, <2>2 DEF Seen
  <2>7. \A j \in Seen(t) : j <= t.cursor \/ j \in t.batch \ t.todo
    BY <1>2, <1>4, <1>7, <2>1
  <2> QED BY <1>4, <1>6, <2>1, <2>4, <2>5, <2>6, <2>7 DEF OnceInv
<1> QED BY <1>3, <1>8, <1>9, <1>10, <1>11, <1>12, <1>13, <1>14 DEF CallInv

\* Run returns at the bottom of the loop: without progress, or after a
\* short page.
LEMMA ReturnAfterPageOK ==
    ASSUME NEW lv, NEW em, NEW de, NEW s \in RunState, CallInv(s, lv, em, de),
           s.pc = "update", s.todo = {}, NEW e \in Errors,
           e = "none" => ShortPage(s)
    PROVE  Return(s, e) \in RunState /\ CallInv(Return(s, e), lv, em, de)
<1> DEFINE t == Return(s, e)
<1>1. t \in RunState
  BY DEF Return, RunState, Pcs
<1>2. /\ t.pc = "done" /\ t.err = e /\ t.scope = s.scope /\ t.max = s.max
      /\ t.processed = s.processed /\ t.succeeded = s.succeeded
      /\ t.failed = s.failed /\ t.ok = s.ok /\ t.failures = s.failures
      /\ t.start = s.start
  BY DEF Return, RunState
<1>3. /\ OnPage(s) /\ s.scope \in {"missing", "all"}
      /\ s.batch \subseteq Seen(s)
      /\ s.ok \subseteq em \cup de /\ s.start \subseteq lv \cup de
  BY DEF CallInv, PageInv, DurableInv, OnPage
<1>4. ~OnPage(t) /\ t.pc = "done" /\ (Finished(t) => ShortPage(s))
  BY <1>2 DEF OnPage, Finished
<1>5. PageInv(t) /\ CountInv(t) /\ DurableInv(t, lv, em, de)
  BY <1>2, <1>3, <1>4 DEF CallInv, PageInv, CountInv, DurableInv
<1>6. CapInv(t)
  <2>1. Cardinality(s.todo) = 0
    BY FS_EmptySet
  <2> QED BY <1>2, <1>3, <1>4, <2>1 DEF CallInv, CapInv, RunState
<1>7. SweepInv(t, de)
  BY <1>2, <1>3, <1>4 DEF CallInv, SweepInv, Seen
<1>8. BackfillInv(t, em, de)
  <2> SUFFICES ASSUME s.scope = "missing", Finished(t), NEW i \in s.start \ de
               PROVE  i \in em \cup s.failures
    BY <1>2, <1>4 DEF BackfillInv
  <2>1. i \in em \cup s.batch
    BY <1>3, <1>4 DEF CallInv, BackfillInv
  <2> QED BY <1>3, <2>1 DEF Seen
<1>9. OnceInv(t)
  BY <1>2, <1>3, <1>4 DEF CallInv, OnceInv, Seen
<1> QED BY <1>1, <1>5, <1>6, <1>7, <1>8, <1>9 DEF CallInv

\* The loop goes round, its cursor on the last id of the page.
LEMMA NextPageOK ==
    ASSUME NEW lv, NEW em, NEW de, NEW s \in RunState, CallInv(s, lv, em, de),
           s.pc = "update", s.todo = {}, NEW last \in s.batch,
           \A i \in s.batch : i <= last,
           NEW t, t = [s EXCEPT !.pc = "fetch", !.n = 0, !.batch = {}, !.vecs = {},
                        !.cursor = IF s.scope = "all" THEN last ELSE 0]
    PROVE  t \in RunState /\ CallInv(t, lv, em, de)
<1>1. /\ OnPage(s) /\ s.scope \in {"missing", "all"} /\ s.batch \subseteq Seen(s)
      /\ s.batch \subseteq Nat /\ last \in Nat
  BY DEF CallInv, PageInv, OnPage, RunState
<1>2. t \in RunState
  <2>1. (IF s.scope = "all" THEN last ELSE 0) \in Nat
    BY <1>1
  <2> QED BY <2>1 DEF RunState, Pcs
<1>3. /\ t.pc = "fetch" /\ t.scope = s.scope /\ t.max = s.max
      /\ s.scope = "all" => t.cursor = last
      /\ t.processed = s.processed /\ t.succeeded = s.succeeded
      /\ t.failed = s.failed /\ t.ok = s.ok /\ t.failures = s.failures
      /\ t.start = s.start
  BY DEF RunState
<1>4. ~OnPage(t) /\ ~Finished(t)
  BY <1>3 DEF OnPage, Finished
<1>5. PageInv(t) /\ CountInv(t) /\ DurableInv(t, lv, em, de)
  BY <1>1, <1>3, <1>4 DEF CallInv, PageInv, CountInv, DurableInv
<1>6. CapInv(t)
  <2>1. Cardinality(s.todo) = 0
    BY FS_EmptySet
  <2> QED BY <1>1, <1>3, <1>4, <2>1 DEF CallInv, CapInv, RunState
<1>7. SweepInv(t, de)
  <2> SUFFICES ASSUME s.scope = "all", NEW i \in s.start \ de, i <= last
               PROVE  i \in Seen(s)
    BY <1>3, <1>4 DEF SweepInv, Seen
  <2>1. ~(last < i)
    BY <1>1 DEF RunState
  <2> QED BY <1>1, <2>1 DEF CallInv, SweepInv
<1>8. BackfillInv(t, em, de)
  BY <1>4 DEF BackfillInv
<1>9. OnceInv(t)
  <2> SUFFICES ASSUME s.scope = "all" PROVE OnceInv(t)
    BY <1>3 DEF OnceInv
  <2>1. \A i \in Seen(s) : i <= last
    BY <1>1 DEF CallInv, OnceInv, RunState, Seen
  <2> QED BY <1>1, <1>3, <1>4, <2>1 DEF CallInv, OnceInv, Seen
<1> QED BY <1>2, <1>5, <1>6, <1>7, <1>8, <1>9 DEF CallInv

\* A cancelled context changes what happens next, not what has happened.
LEMMA CancelOK ==
    ASSUME NEW lv, NEW em, NEW de, NEW s \in RunState, CallInv(s, lv, em, de),
           NEW t, t = [s EXCEPT !.cancelled = TRUE]
    PROVE  t \in RunState /\ CallInv(t, lv, em, de)
<1>1. t \in RunState
  BY DEF RunState
<1>2. /\ t.pc = s.pc /\ t.scope = s.scope /\ t.max = s.max
      /\ t.cursor = s.cursor /\ t.n = s.n /\ t.batch = s.batch
      /\ t.todo = s.todo /\ t.processed = s.processed
      /\ t.succeeded = s.succeeded /\ t.failed = s.failed /\ t.ok = s.ok
      /\ t.failures = s.failures /\ t.start = s.start /\ t.err = s.err
  BY DEF RunState
<1>3. /\ Finished(t) <=> Finished(s)
      /\ OnPage(t) <=> OnPage(s)
      /\ ShortPage(t) <=> ShortPage(s)
      /\ Seen(t) = Seen(s)
  BY <1>2 DEF Finished, AtCap, OnPage, ShortPage, Seen
<1>4. PageInv(t) /\ CountInv(t) /\ CapInv(t) /\ DurableInv(t, lv, em, de)
  BY <1>2, <1>3 DEF CallInv, PageInv, CountInv, CapInv, DurableInv
<1>5. SweepInv(t, de) /\ BackfillInv(t, em, de) /\ OnceInv(t)
  BY <1>2, <1>3 DEF CallInv, SweepInv, BackfillInv, OnceInv
<1> QED BY <1>1, <1>4, <1>5 DEF CallInv

(***************************************************************************)
(* runOne.                                                                 *)
(***************************************************************************)
\* What a single-memory call looks like until it returns.
Single(t) ==
    /\ t \in RunState
    /\ t.pc \in {"content", "embedOne", "updateOne"} /\ t.scope = "one"
    /\ t.max = 0 /\ t.processed = 1 /\ t.succeeded = 0 /\ t.failed = 0

\* A single-memory call that is on its way owes nothing but its counters.
LEMMA SingleOK ==
    ASSUME NEW lv, NEW em, NEW de, NEW t, Single(t), DurableInv(t, lv, em, de)
    PROVE  CallInv(t, lv, em, de)
<1>1. ~OnPage(t) /\ t.pc # "done"
  BY DEF Single, OnPage
<1>2. PageInv(t) /\ CountInv(t) /\ CapInv(t)
  BY <1>1 DEF Single, PageInv, CountInv, CapInv
<1>3. SweepInv(t, de) /\ BackfillInv(t, em, de) /\ OnceInv(t)
  BY DEF Single, SweepInv, BackfillInv, OnceInv
<1> QED BY <1>2, <1>3 DEF CallInv

\* A single-memory call returns: with no Result, or with one failure, or with
\* one success whose embedding is in the store.
LEMMA SingleDoneOK ==
    ASSUME NEW lv, NEW em, NEW de, NEW t \in RunState, t.pc = "done",
           t.scope = "one", t.max = 0, t.processed = t.succeeded + t.failed,
           DurableInv(t, lv, em, de)
    PROVE  CallInv(t, lv, em, de)
<1>1. PageInv(t) /\ CountInv(t) /\ CapInv(t)
  BY DEF PageInv, CountInv, CapInv, OnPage
<1>2. SweepInv(t, de) /\ BackfillInv(t, em, de) /\ OnceInv(t)
  BY DEF SweepInv, BackfillInv, OnceInv
<1> QED BY <1>1, <1>2 DEF CallInv

(***************************************************************************)
(* Preservation: steps of one call, then steps of the store, then Next.    *)
(***************************************************************************)
\* One call moves to s; the others stay, over a store in which embeddings
\* may only have been filled in, and what is counted now is among them.
LEMMA CallMoves ==
    ASSUME IndInv, NEW r \in Runs, NEW s \in RunState,
           run' = [run EXCEPT ![r] = s],
           UNCHANGED <<minted, adding, live, deleted, crashes>>,
           embedded \subseteq embedded', embedded' \subseteq live,
           counted' \subseteq embedded' \cup deleted,
           CallInv(s, live, embedded', deleted)
    PROVE  IndInv'
<1>1. /\ minted' = minted /\ adding' = adding /\ live' = live
      /\ deleted' = deleted /\ crashes' = crashes
  OBVIOUS
<1>2. run \in [Runs -> RunState] /\ run' \in [Runs -> RunState]
  BY DEF IndInv, TypeOK
<1>3. TypeOK'
  BY <1>1, <1>2 DEF IndInv, TypeOK
<1>4. StoreInv'
  BY <1>1 DEF IndInv, StoreInv
<1>5. ASSUME NEW q \in Runs PROVE CallInv(run'[q], live', embedded', deleted')
  <2>1. CASE q = r
    BY <1>1, <1>2, <2>1
  <2>2. CASE q # r
    <3>1. run'[q] = run[q] /\ run[q] \in RunState
      BY <1>2, <2>2
    <3>2. CallInv(run[q], live, embedded, deleted)
      BY DEF IndInv
    <3>3. CallInv(run[q], live, embedded', deleted)
      BY <3>1, <3>2, EvolveOK
    <3> QED BY <1>1, <3>1, <3>3
  <2> QED BY <2>1, <2>2
<1> QED BY <1>3, <1>4, <1>5 DEF IndInv

\* The same for a step that leaves the embeddings alone.
LEMMA CallSteps ==
    ASSUME IndInv, NEW r \in Runs, NEW s \in RunState, Step(r, s),
           CallInv(s, live, embedded, deleted)
    PROVE  IndInv'
<1>1. /\ run' = [run EXCEPT ![r] = s] /\ embedded' = embedded /\ counted' = counted
      /\ UNCHANGED <<minted, adding, live, deleted, crashes>>
  BY DEF Step, pool
<1>2. embedded \subseteq live /\ counted \subseteq embedded \cup deleted
  BY DEF IndInv, TypeOK, StoreInv
<1> QED BY <1>1, <1>2, CallMoves

\* No call moves while the store evolves.
LEMMA StoreMoves ==
    ASSUME IndInv, TypeOK', StoreInv', UNCHANGED run,
           deleted \subseteq deleted',
           embedded \cup deleted \subseteq embedded' \cup deleted',
           live \cup deleted \subseteq live' \cup deleted'
    PROVE  IndInv'
<1>1. ASSUME NEW q \in Runs PROVE CallInv(run'[q], live', embedded', deleted')
  <2>1. run'[q] = run[q] /\ run[q] \in RunState
    BY DEF IndInv, TypeOK
  <2>2. CallInv(run[q], live, embedded, deleted)
    BY DEF IndInv
  <2>3. CallInv(run[q], live', embedded', deleted')
    BY <2>1, <2>2, EvolveOK
  <2> QED BY <2>1, <2>3
<1> QED BY <1>1 DEF IndInv

\* The initial store is sane and its only call is the boot backfill.
LEMMA InitOK == Init => IndInv
<1> SUFFICES ASSUME Init PROVE IndInv
  OBVIOUS
<1>1. SeedIds \in Nat /\ MaxIds \in Nat /\ SeedIds <= MaxIds
  BY ConstantsOK DEF ConstantsOK
<1> DEFINE p == Pass("missing", 0)
<1>2. /\ minted \in Nat /\ live \in SUBSET (1 .. minted) /\ embedded \in SUBSET live
      /\ deleted \in SUBSET ((1 .. minted) \ live) /\ counted = {} /\ crashes \in Nat
      /\ adding \in SUBSET [id : 1 .. minted, vec : BOOLEAN]
  BY <1>1 DEF Init
<1>3. StoreInv
  BY <1>1 DEF Init, StoreInv
<1>4. p \in RunState /\ CallInv(p, live, embedded, deleted)
  <2>1. live \subseteq Nat \ {0}
    BY <1>2
  <2> QED BY <2>1, PassOK
<1>5. run = Booted
  BY DEF Init
<1>6. run \in [Runs -> RunState]
  BY <1>4, <1>5, IdleOK DEF Booted
<1>7. \A r \in Runs : CallInv(run[r], live, embedded, deleted)
  BY <1>4, <1>5, IdleOK DEF Booted
<1> QED BY <1>2, <1>3, <1>6, <1>7 DEF IndInv, TypeOK

\* A restart forgets every call and every open transaction.
LEMMA RestartOK == IndInv /\ Restart => IndInv'
<1> SUFFICES ASSUME IndInv, Restart PROVE IndInv'
  OBVIOUS
<1>1. TypeOK /\ StoreInv
  BY DEF IndInv
<1> DEFINE p == Pass("missing", 0)
<1>2. p \in RunState /\ CallInv(p, live, embedded, deleted)
  <2>1. live \subseteq Nat \ {0}
    BY <1>1 DEF TypeOK
  <2> QED BY <2>1, PassOK
<1>3. /\ run' = [r \in Runs |-> IF r = Boot THEN p ELSE Idle]
      /\ adding' = {} /\ crashes' = crashes + 1
      /\ minted' = minted /\ live' = live /\ embedded' = embedded
      /\ deleted' = deleted /\ counted' = counted
  BY DEF Restart
<1> HIDE DEF p
<1>4. run' \in [Runs -> RunState]
  BY <1>2, <1>3, IdleOK
<1>5. TypeOK'
  BY <1>1, <1>3, <1>4 DEF TypeOK
<1>6. StoreInv'
  BY <1>1, <1>3 DEF StoreInv
<1>7. \A r \in Runs : CallInv(run'[r], live, embedded, deleted)
  BY <1>2, <1>3, IdleOK
<1> QED BY <1>3, <1>5, <1>6, <1>7 DEF IndInv

\* Steps of the handlers that change the pool.
LEMMA StoreStepsOK ==
    ASSUME IndInv,
           \/ \E vec \in BOOLEAN : MintId(vec)
           \/ \E a \in adding : CommitAdd(a) \/ AbortAdd(a)
           \/ \E i \in live : DeleteMemory(i)
    PROVE  IndInv'
<1>1. TypeOK /\ StoreInv
  BY DEF IndInv
<1>2. /\ minted \in Nat /\ live \subseteq 1 .. minted /\ deleted \subseteq 1 .. minted
      /\ embedded \subseteq live /\ MaxIds \in Nat
      /\ \A a \in adding : a.id \in 1 .. minted /\ a \in [id : 1 .. minted, vec : BOOLEAN]
  BY <1>1, ConstantsOK DEF TypeOK, ConstantsOK
<1>3. ASSUME NEW vec \in BOOLEAN, MintId(vec) PROVE IndInv'
  <2> DEFINE a == [id |-> minted + 1, vec |-> vec]
  <2>1. /\ minted' = minted + 1 /\ minted < MaxIds /\ adding' = adding \cup {a}
        /\ live' = live /\ embedded' = embedded /\ deleted' = deleted
        /\ counted' = counted /\ run' = run /\ crashes' = crashes
    BY <1>3 DEF MintId
  <2>2. 1 .. minted \subseteq 1 .. minted' /\ minted' \in Nat /\ minted' <= MaxIds
    BY <1>2, <2>1
  <2>3. \A b \in adding' : b \in [id : 1 .. minted', vec : BOOLEAN]
    <3>1. a \in [id : 1 .. minted', vec : BOOLEAN]
      BY <1>2, <2>1
    <3>2. ASSUME NEW b \in adding PROVE b \in [id : 1 .. minted', vec : BOOLEAN]
      BY <1>2, <2>2
    <3> QED BY <2>1, <3>1, <3>2
  <2>4. TypeOK'
    BY <1>1, <2>1, <2>2, <2>3 DEF TypeOK
  <2>5. StoreInv'
    <3>1. \A b \in adding : b.id # a.id
      BY <1>2
    <3>2. a.id \notin live \cup deleted
      BY <1>2
    <3> QED BY <1>1, <2>1, <2>2, <3>1, <3>2 DEF StoreInv
  <2> QED BY <2>1, <2>4, <2>5, StoreMoves
<1>4. ASSUME NEW a \in adding, CommitAdd(a) PROVE IndInv'
  <2>1. /\ minted' = minted /\ adding' = adding \ {a} /\ live' = live \cup {a.id}
        /\ embedded' = (IF a.vec THEN embedded \cup {a.id} ELSE embedded)
        /\ deleted' = deleted /\ counted' = counted /\ run' = run
        /\ crashes' = crashes
    BY <1>4 DEF CommitAdd
  <2>2. TypeOK'
    BY <1>1, <1>2, <2>1 DEF TypeOK, StoreInv
  <2>3. StoreInv'
    BY <1>1, <2>1 DEF StoreInv
  <2> QED BY <2>1, <2>2, <2>3, StoreMoves
<1>5. ASSUME NEW a \in adding, AbortAdd(a) PROVE IndInv'
  <2>1. /\ minted' = minted /\ adding' = adding \ {a} /\ live' = live
        /\ embedded' = embedded /\ deleted' = deleted /\ run' = run
        /\ counted' = counted /\ crashes' = crashes
    BY <1>5 DEF AbortAdd
  <2>2. TypeOK' /\ StoreInv'
    BY <1>1, <2>1 DEF TypeOK, StoreInv
  <2> QED BY <2>1, <2>2, StoreMoves
<1>6. ASSUME NEW i \in live, DeleteMemory(i) PROVE IndInv'
  <2>1. /\ minted' = minted /\ adding' = adding /\ live' = live \ {i}
        /\ embedded' = embedded \ {i} /\ deleted' = deleted \cup {i}
        /\ counted' = counted /\ run' = run /\ crashes' = crashes
    BY <1>6 DEF DeleteMemory
  <2>2. TypeOK'
    BY <1>1, <1>2, <2>1 DEF TypeOK
  <2>3. StoreInv'
    BY <1>1, <2>1 DEF StoreInv
  <2> QED BY <2>1, <2>2, <2>3, StoreMoves
<1> QED BY <1>3, <1>4, <1>5, <1>6

\* Steps of Run's loop, one case per action.
LEMMA PassStepOK == ASSUME IndInv, NEW r \in Runs, PassStep(r) PROVE IndInv'
<1> DEFINE s == run[r]
<1>1. TypeOK /\ s \in RunState /\ CallInv(s, live, embedded, deleted)
  BY DEF IndInv, TypeOK
<1>2. /\ embedded \subseteq live /\ counted \subseteq embedded \cup deleted
      /\ ConstantsOK
  BY <1>1, ConstantsOK DEF IndInv, StoreInv, TypeOK
<1> HIDE DEF s
<1>3. CASE StopCancelled(r)
  <2>1. s.pc = "fetch" /\ Step(r, Return(s, "cancelled"))
    BY <1>3 DEF StopCancelled, s
  <2>2. "cancelled" \in Errors
    BY DEF Errors
  <2> QED BY <1>1, <2>1, <2>2, ReturnOK, CallSteps
<1>4. CASE StopAtCap(r)
  <2>1. s.pc = "fetch" /\ AtCap(s) /\ Step(r, Return(s, "none"))
    BY <1>4 DEF StopAtCap, s
  <2>2. "none" \in Errors
    BY DEF Errors
  <2> QED BY <1>1, <2>1, <2>2, ReturnOK, CallSteps
<1>5. CASE FetchFails(r)
  <2>1. s.pc = "fetch" /\ Step(r, Return(s, "fetch"))
    BY <1>5 DEF FetchFails, s
  <2>2. "fetch" \in Errors
    BY DEF Errors
  <2> QED BY <1>1, <2>1, <2>2, ReturnOK, CallSteps
<1>6. CASE FetchEmpty(r)
  <2>1. s.pc = "fetch" /\ Candidates(s) = {} /\ Step(r, Return(s, "none"))
    BY <1>6 DEF FetchEmpty, s
  <2> QED BY <1>1, <2>1, FetchEmptyOK, CallSteps
<1>7. ASSUME NEW B, FetchPage(r, B) PROVE IndInv'
  <2> DEFINE t == [s EXCEPT !.pc = "embed", !.n = Room(s), !.batch = B,
                            !.todo = B, !.gained = 0]
  <2>1. s.pc = "fetch" /\ ~AtCap(s) /\ IsPage(s, B, Room(s)) /\ Step(r, t)
    BY <1>7 DEF FetchPage, s
  <2>2. t \in RunState /\ CallInv(t, live, embedded, deleted)
    BY <1>1, <1>2, <2>1, FetchPageOK
  <2> HIDE DEF t
  <2> QED BY <2>1, <2>2, CallSteps
<1>8. ASSUME NEW V, EmbedPage(r, V) PROVE IndInv'
  <2> DEFINE t == [s EXCEPT !.pc = "update", !.vecs = V]
  <2>1. s.pc = "embed" /\ V \in SUBSET s.batch /\ Step(r, t)
    BY <1>8 DEF EmbedPage, s
  <2>2. t \in RunState /\ CallInv(t, live, embedded, deleted)
    BY <1>1, <2>1, EmbedPageOK
  <2> HIDE DEF t
  <2> QED BY <2>1, <2>2, CallSteps
<1>9. CASE EmbedFails(r)
  <2> DEFINE t == Return([s EXCEPT !.processed = @ + Cardinality(s.batch),
                                   !.failed = @ + Cardinality(s.batch),
                                   !.failures = @ \cup s.batch,
                                   !.todo = {}], "embed")
  <2>1. s.pc = "embed" /\ Step(r, t)
    BY <1>9 DEF EmbedFails, s
  <2>2. t \in RunState /\ CallInv(t, live, embedded, deleted)
    BY <1>1, <2>1, EmbedFailsOK
  <2> HIDE DEF t
  <2> QED BY <2>1, <2>2, CallSteps
<1>10. ASSUME NEW i, SkipItem(r, i) PROVE IndInv'
  <2> DEFINE c == Count(s, i)
             t == Fail(c, i)
  <2>1. s.pc = "update" /\ i \in s.todo /\ Step(r, t)
    BY <1>10 DEF SkipItem, IsNext, s
  <2>2. Counted(c, s, i)
    BY <1>1, CountOK
  <2> HIDE DEF c
  <2>3. t \in RunState /\ CallInv(t, live, embedded, deleted)
    BY <1>1, <2>1, <2>2, TickOK
  <2> QED BY <2>1, <2>3, CallSteps
<1>11. ASSUME NEW i, NEW out \in Outcomes, UpdateItem(r, i, out) PROVE IndInv'
  <2> DEFINE c == Count(s, i)
             t == IF out = "ok" THEN Succeed(c, i) ELSE Fail(c, i)
  <2>1. /\ s.pc = "update" /\ i \in s.todo
        /\ UpdateEmbedding(s, i, out) /\ run' = [run EXCEPT ![r] = t]
        /\ counted' = (IF out = "ok" THEN counted \cup {i} ELSE counted)
        /\ UNCHANGED <<minted, adding, deleted, crashes>>
    BY <1>11 DEF UpdateItem, IsNext, s
  <2>2. /\ embedded \subseteq embedded' /\ embedded' \subseteq live /\ live' = live
        /\ out = "ok" => i \in embedded'
        /\ counted' \subseteq embedded' \cup deleted
    BY <1>2, <2>1 DEF UpdateEmbedding
  <2>3. Counted(c, s, i)
    BY <1>1, CountOK
  <2> HIDE DEF c
  <2>4. (t = Succeed(c, i) /\ i \in embedded') \/ t = Fail(c, i)
    BY <2>2
  <2> HIDE DEF t
  <2>5. t \in RunState /\ CallInv(t, live, embedded', deleted)
    BY <1>1, <2>1, <2>2, <2>3, <2>4, TickOK
  <2> QED BY <2>1, <2>2, <2>5, CallMoves
<1>12. CASE NoProgress(r)
  <2>1. s.pc = "update" /\ s.todo = {} /\ Step(r, Return(s, "noProgress"))
    BY <1>12 DEF NoProgress, PageDone, s
  <2>2. "noProgress" \in Errors
    BY DEF Errors
  <2> QED BY <1>1, <2>1, <2>2, ReturnAfterPageOK, CallSteps
<1>13. CASE LastPage(r)
  <2>1. /\ s.pc = "update" /\ s.todo = {} /\ ShortPage(s)
        /\ Step(r, Return(s, "none"))
    BY <1>13 DEF LastPage, PageDone, s
  <2>2. "none" \in Errors
    BY DEF Errors
  <2> QED BY <1>1, <2>1, <2>2, ReturnAfterPageOK, CallSteps
<1>14. ASSUME NEW last, NextPage(r, last) PROVE IndInv'
  <2> DEFINE t == [s EXCEPT !.pc = "fetch", !.n = 0, !.batch = {}, !.vecs = {},
                     !.cursor = IF s.scope = "all" THEN last ELSE 0]
  <2>1. /\ s.pc = "update" /\ s.todo = {} /\ last \in s.batch
        /\ \A i \in s.batch : i <= last
        /\ Step(r, t)
    BY <1>14 DEF NextPage, PageDone, s
  <2>2. t \in RunState /\ CallInv(t, live, embedded, deleted)
    BY <1>1, <2>1, NextPageOK
  <2> HIDE DEF t
  <2> QED BY <2>1, <2>2, CallSteps
<1> QED BY <1>3, <1>4, <1>5, <1>6, <1>7, <1>8, <1>9, <1>10, <1>11, <1>12,
           <1>13, <1>14 DEF PassStep

\* Steps of a single-memory call.
LEMMA OneStepOK == ASSUME IndInv, NEW r \in Runs, OneStep(r) PROVE IndInv'
<1> DEFINE s == run[r]
<1>1. TypeOK /\ s \in RunState /\ CallInv(s, live, embedded, deleted)
  BY DEF IndInv, TypeOK
<1>2. embedded \subseteq live /\ counted \subseteq embedded \cup deleted
  BY <1>1 DEF IndInv, StoreInv, TypeOK
<1>3. DurableInv(s, live, embedded, deleted)
  BY <1>1 DEF CallInv
<1>4. s.pc \in {"content", "embedOne", "updateOne"} => Single(s)
  BY <1>1 DEF CallInv, PageInv, CapInv, Single, RunState
<1>5. ASSUME NEW e \in Errors, NEW t, t = Return([Idle EXCEPT !.scope = "one"], e),
             Step(r, t)
      PROVE IndInv'
  <2> DEFINE u == [Idle EXCEPT !.scope = "one"]
  <2>1. u \in RunState
    BY IdleOK DEF RunState
  <2>2. /\ u.max = 0 /\ u.processed = 0 /\ u.succeeded = 0 /\ u.failed = 0
        /\ u.ok = {} /\ u.start = {} /\ u.scope = "one"
    BY DEF Idle
  <2> HIDE DEF u
  <2>3. t = Return(u, e)
    BY <1>5 DEF u
  <2>4. t \in RunState
    BY <2>1, <2>3 DEF Return, RunState, Pcs
  <2>5. /\ t.max = 0 /\ t.processed = 0 /\ t.succeeded = 0 /\ t.failed = 0
        /\ t.ok = {} /\ t.start = {} /\ t.scope = "one" /\ t.pc = "done"
    BY <2>1, <2>2, <2>3 DEF Return, RunState
  <2>6. CallInv(t, live, embedded, deleted)
    <3>1. DurableInv(t, live, embedded, deleted)
      BY <2>5 DEF DurableInv
    <3> QED BY <2>4, <2>5, <3>1, SingleDoneOK
  <2> QED BY <1>5, <2>4, <2>6, CallSteps
<1> HIDE DEF s
<1>6. CASE ReadContent(r)
  <2> DEFINE t == [s EXCEPT !.pc = "embedOne"]
  <2>1. Single(s) /\ Step(r, t)
    BY <1>4, <1>6 DEF ReadContent, s
  <2>2. Single(t) /\ DurableInv(t, live, embedded, deleted)
    BY <1>3, <2>1 DEF Single, DurableInv, RunState, Pcs
  <2> HIDE DEF t
  <2>3. t \in RunState /\ CallInv(t, live, embedded, deleted)
    BY <2>2, SingleOK DEF Single
  <2> QED BY <2>1, <2>3, CallSteps
<1>7. CASE ContentGone(r)
  <2>1. "notFound" \in Errors
    BY DEF Errors
  <2> QED BY <1>5, <1>7, <2>1 DEF ContentGone
<1>8. CASE ContentFails(r)
  <2>1. "fetch" \in Errors
    BY DEF Errors
  <2> QED BY <1>5, <1>8, <2>1 DEF ContentFails
<1>9. CASE EmbedOne(r)
  <2> DEFINE t == [s EXCEPT !.pc = "updateOne"]
  <2>1. Single(s) /\ Step(r, t)
    BY <1>4, <1>9 DEF EmbedOne, s
  <2>2. Single(t) /\ DurableInv(t, live, embedded, deleted)
    BY <1>3, <2>1 DEF Single, DurableInv, RunState, Pcs
  <2> HIDE DEF t
  <2>3. t \in RunState /\ CallInv(t, live, embedded, deleted)
    BY <2>2, SingleOK DEF Single
  <2> QED BY <2>1, <2>3, CallSteps
<1>10. ASSUME Single(s), NEW i \in s.batch, NEW e \in Errors, NEW em2,
              embedded \subseteq em2,
              NEW u, u = Fail(s, i) \/ (u = Succeed(s, i) /\ i \in em2)
       PROVE  Return(u, e) \in RunState /\ CallInv(Return(u, e), live, em2, deleted)
  <2>1. i \in Nat /\ s \in RunState
    BY <1>1, <1>10 DEF RunState
  <2>2. /\ s.failures \cup {i} \in SUBSET Nat /\ s.ok \cup {i} \in SUBSET Nat
        /\ s.succeeded + 1 \in Nat /\ s.failed + 1 \in Nat /\ s.gained + 1 \in Nat
    BY <2>1 DEF RunState
  <2>3. Succeed(s, i) \in RunState /\ Fail(s, i) \in RunState
    BY <2>1, <2>2 DEF Succeed, Fail, RunState
  <2>4. u \in RunState
    BY <1>10, <2>3
  <2>5. /\ u.max = 0 /\ u.processed = u.succeeded + u.failed /\ u.scope = "one"
        /\ u.start = s.start
        /\ u.ok = s.ok \/ (u.ok = s.ok \cup {i} /\ i \in em2)
    <3>1. CASE u = Fail(s, i)
      BY <1>10, <2>1, <3>1 DEF Fail, Single, RunState
    <3>2. CASE u = Succeed(s, i) /\ i \in em2
      BY <1>10, <2>1, <3>2 DEF Succeed, Single, RunState
    <3> QED BY <1>10, <3>1, <3>2
  <2>6. DurableInv(u, live, em2, deleted)
    BY <1>3, <1>10, <2>5 DEF DurableInv
  <2> DEFINE t == Return(u, e)
  <2>7. t \in RunState
    BY <1>10, <2>4 DEF Return, RunState, Pcs
  <2>8. /\ t.max = 0 /\ t.processed = t.succeeded + t.failed /\ t.scope = "one"
        /\ t.start = u.start /\ t.ok = u.ok /\ t.pc = "done"
    BY <2>4, <2>5 DEF Return, RunState
  <2> HIDE DEF t
  <2>9. DurableInv(t, live, em2, deleted)
    BY <2>6, <2>8 DEF DurableInv
  <2>10. CallInv(t, live, em2, deleted)
    BY <2>7, <2>8, <2>9, SingleDoneOK
  <2> QED BY <2>7, <2>10 DEF t
<1>11. ASSUME NEW e \in {"embed", "noVector"}, EmbedOneFails(r, e) PROVE IndInv'
  <2>1. Single(s) /\ \E i \in s.batch : Step(r, Return(Fail(s, i), e))
    BY <1>4, <1>11 DEF EmbedOneFails, s
  <2>2. PICK i \in s.batch : Step(r, Return(Fail(s, i), e))
    BY <2>1
  <2>3. e \in Errors
    BY DEF Errors
  <2>4. /\ Return(Fail(s, i), e) \in RunState
        /\ CallInv(Return(Fail(s, i), e), live, embedded, deleted)
    BY <1>10, <2>1, <2>3
  <2> QED BY <2>2, <2>4, CallSteps
<1>12. ASSUME NEW i \in s.batch, NEW out \in Outcomes, UpdateOne(r, i, out)
       PROVE IndInv'
  <2>1. /\ Single(s) /\ UpdateEmbedding(s, i, out)
        /\ counted' = (IF out = "ok" THEN counted \cup {i} ELSE counted)
        /\ UNCHANGED <<minted, adding, deleted, crashes>>
        /\ run' = [run EXCEPT ![r] =
                     CASE out = "ok"       -> Return(Succeed(s, i), "none")
                       [] out = "notFound" -> Return(Fail(s, i), "notFound")
                       [] out = "error"    -> Return(Fail(s, i), "update")]
    BY <1>4, <1>12 DEF UpdateOne, s
  <2>2. /\ embedded \subseteq embedded' /\ embedded' \subseteq live /\ live' = live
        /\ out = "ok" => i \in embedded'
        /\ counted' \subseteq embedded' \cup deleted
    BY <1>2, <2>1 DEF UpdateEmbedding
  <2>3. \E u, e : /\ e \in Errors
                  /\ u = Fail(s, i) \/ (u = Succeed(s, i) /\ i \in embedded')
                  /\ run' = [run EXCEPT ![r] = Return(u, e)]
    <3>1. CASE out = "ok"
      <4>1. run' = [run EXCEPT ![r] = Return(Succeed(s, i), "none")]
        BY <2>1, <3>1
      <4> QED BY <2>2, <3>1, <4>1 DEF Errors
    <3>2. CASE out = "notFound"
      <4>1. run' = [run EXCEPT ![r] = Return(Fail(s, i), "notFound")]
        BY <2>1, <3>2
      <4> QED BY <4>1 DEF Errors
    <3>3. CASE out = "error"
      <4>1. run' = [run EXCEPT ![r] = Return(Fail(s, i), "update")]
        BY <2>1, <3>3
      <4> QED BY <4>1 DEF Errors
    <3> QED BY <3>1, <3>2, <3>3 DEF Outcomes
  <2>4. PICK u, e : /\ e \in Errors
                    /\ u = Fail(s, i) \/ (u = Succeed(s, i) /\ i \in embedded')
                    /\ run' = [run EXCEPT ![r] = Return(u, e)]
    BY <2>3
  <2>5. /\ Return(u, e) \in RunState
        /\ CallInv(Return(u, e), live, embedded', deleted)
    BY <1>10, <2>1, <2>2, <2>4
  <2> QED BY <2>1, <2>2, <2>4, <2>5, CallMoves
<1> QED BY <1>6, <1>7, <1>8, <1>9, <1>11, <1>12 DEF OneStep, s

\* Calls start, and their contexts end.
LEMMA BeginOK ==
    ASSUME IndInv, NEW r \in Runs,
           \/ \E scope \in Scopes, max \in Limits : BeginPass(r, scope, max)
           \/ \E i \in Ids : BeginOne(r, i)
           \/ Cancel(r)
    PROVE  IndInv'
<1>1. TypeOK /\ run[r] \in RunState /\ CallInv(run[r], live, embedded, deleted)
  BY DEF IndInv, TypeOK
<1>2. ASSUME NEW scope \in Scopes, NEW max \in Limits, BeginPass(r, scope, max)
      PROVE  IndInv'
  <2>1. scope \in {"missing", "all"} /\ max \in Nat /\ live \subseteq Nat \ {0}
    BY <1>1, <1>2, ConstantsOK DEF BeginPass, ConstantsOK, TypeOK
  <2>2. /\ Pass(scope, max) \in RunState
        /\ CallInv(Pass(scope, max), live, embedded, deleted)
    BY <2>1, PassOK
  <2> QED BY <1>2, <2>2, CallSteps DEF BeginPass
<1>3. ASSUME NEW i \in Ids, BeginOne(r, i) PROVE IndInv'
  <2> DEFINE t == [Idle EXCEPT !.pc = "content", !.scope = "one", !.batch = {i},
                               !.processed = 1]
  <2>1. i \in Nat /\ {i} \in SUBSET Nat
    BY ConstantsOK DEF Ids, ConstantsOK
  <2>2. t \in RunState
    BY <2>1, IdleOK DEF RunState, Pcs
  <2>3. /\ t.pc = "content" /\ t.scope = "one" /\ t.max = 0 /\ t.processed = 1
        /\ t.succeeded = 0 /\ t.failed = 0 /\ t.ok = {} /\ t.start = {}
    BY DEF Idle
  <2>4. Step(r, t)
    BY <1>3 DEF BeginOne
  <2> HIDE DEF t
  <2>5. Single(t) /\ DurableInv(t, live, embedded, deleted)
    BY <2>2, <2>3 DEF Single, DurableInv
  <2>6. CallInv(t, live, embedded, deleted)
    BY <2>5, SingleOK
  <2> QED BY <2>2, <2>4, <2>6, CallSteps
<1>4. CASE Cancel(r)
  <2> DEFINE t == [run[r] EXCEPT !.cancelled = TRUE]
  <2>1. Step(r, t)
    BY <1>4 DEF Cancel
  <2>2. t \in RunState /\ CallInv(t, live, embedded, deleted)
    BY <1>1, CancelOK
  <2> HIDE DEF t
  <2> QED BY <2>1, <2>2, CallSteps
<1> QED BY <1>2, <1>3, <1>4

\* Nothing changes.
LEMMA StutterOK == IndInv /\ UNCHANGED vars => IndInv'
<1> SUFFICES ASSUME IndInv, UNCHANGED vars PROVE IndInv'
  OBVIOUS
<1>1. /\ minted' = minted /\ adding' = adding /\ live' = live
      /\ embedded' = embedded /\ deleted' = deleted /\ counted' = counted
      /\ run' = run /\ crashes' = crashes
  BY DEF vars, pool
<1>2. TypeOK' /\ StoreInv'
  BY <1>1 DEF IndInv, TypeOK, StoreInv
<1> QED BY <1>1, <1>2 DEF IndInv

\* The invariant is inductive.
LEMMA NextOK == IndInv /\ [Next]_vars => IndInv'
<1> SUFFICES ASSUME IndInv, [Next]_vars PROVE IndInv'
  OBVIOUS
<1>1. ASSUME Tools PROVE IndInv'
  <2>1. CASE \E vec \in BOOLEAN : MintId(vec)
    BY <2>1, StoreStepsOK
  <2>2. CASE \E a \in adding : CommitAdd(a) \/ AbortAdd(a)
    BY <2>2, StoreStepsOK
  <2>3. CASE \E i \in live : DeleteMemory(i)
    BY <2>3, StoreStepsOK
  <2>4. CASE \E r \in Runs, scope \in Scopes, max \in Limits : BeginPass(r, scope, max)
    BY <2>4, BeginOK
  <2>5. CASE \E r \in Runs, i \in Ids : BeginOne(r, i)
    BY <2>5, BeginOK
  <2> QED BY <1>1, <2>1, <2>2, <2>3, <2>4, <2>5 DEF Tools
<1>2. ASSUME NEW r \in Runs, PassStep(r) \/ OneStep(r) \/ Cancel(r) PROVE IndInv'
  BY <1>2, PassStepOK, OneStepOK, BeginOK
<1>3. CASE Restart
  BY <1>3, RestartOK
<1>4. CASE UNCHANGED vars
  BY <1>4, StutterOK
<1> QED BY <1>1, <1>2, <1>3, <1>4 DEF Next

(***************************************************************************)
(* The theorems.                                                           *)
(***************************************************************************)
\* The inductive invariant holds in every reachable state.
THEOREM Inductive == Spec => []IndInv
<1>1. Init => IndInv
  BY InitOK
<1>2. IndInv /\ [Next]_vars => IndInv'
  BY NextOK
<1> QED BY <1>1, <1>2, PTL DEF Spec

\* Type correctness, for any constants.
THEOREM TypeCorrect == Spec => []TypeOK
<1>1. IndInv => TypeOK
  BY DEF IndInv
<1> QED BY <1>1, Inductive, PTL

\* Every Result a caller sees adds up (reembed.go:42), whichever way the
\* call ended.
THEOREM ResultsAddUp == Spec => []ResultAddsUp
<1>1. IndInv => ResultAddsUp
  BY DEF IndInv, CallInv, CountInv, ResultAddsUp
<1> QED BY <1>1, Inductive, PTL

\* No pass processes more than the limit it was given, at any batch size.
THEOREM LimitsHold == Spec => []LimitRespected
<1>1. ASSUME IndInv, NEW r \in Runs, run[r].max > 0
      PROVE  run[r].processed <= run[r].max
  <2>1. run[r] \in RunState /\ CallInv(run[r], live, embedded, deleted)
    BY <1>1 DEF IndInv, TypeOK
  <2>2. OnPage(run[r]) => Cardinality(run[r].todo) \in Nat
    <3>1. OnPage(run[r]) => IsFiniteSet(run[r].todo)
      BY <2>1, FS_Subset DEF CallInv, PageInv
    <3> QED BY <3>1, FS_CardinalityType
  <2>3. run[r].processed + (IF OnPage(run[r]) THEN Cardinality(run[r].todo) ELSE 0)
           <= run[r].max
    BY <1>1, <2>1 DEF CallInv, CapInv
  <2>4. run[r].processed \in Nat /\ run[r].max \in Nat
    BY <2>1 DEF RunState
  <2> QED BY <2>2, <2>3, <2>4
<1>2. IndInv => LimitRespected
  BY <1>1 DEF LimitRespected
<1> QED BY <1>2, Inductive, PTL

\* Every memory that any call ever counted as a success is in the store until it
\* is deleted; restarts, which forget the calls, do not forget what they counted.
THEOREM SuccessesLast == Spec => []SuccessIsDurable
<1>1. IndInv => SuccessIsDurable
  BY DEF IndInv, StoreInv, SuccessIsDurable
<1> QED BY <1>1, Inductive, PTL

\* A scope=all pass counts each memory once.
THEOREM AllOnce == Spec => []AllVisitsOnce
<1>1. IndInv => AllVisitsOnce
  BY DEF IndInv, CallInv, OnceInv, Seen, AllVisitsOnce
<1> QED BY <1>1, Inductive, PTL

\* A scope=all pass that ends well has accounted for all it started with.
THEOREM SweepsComplete == Spec => []SweepComplete
<1>1. IndInv => SweepComplete
  BY DEF IndInv, CallInv, SweepInv, Finished, Seen, SweepComplete
<1> QED BY <1>1, Inductive, PTL

\* A scope=missing pass that ends well leaves no target behind silently.
THEOREM BackfillsComplete == Spec => []BackfillComplete
<1>1. IndInv => BackfillComplete
  BY DEF IndInv, CallInv, BackfillInv, Finished, BackfillComplete
<1> QED BY <1>1, Inductive, PTL

(***************************************************************************)
(* Refinement of MemoryLifecycle.                                          *)
(***************************************************************************)
\* What any step may do to the pool: nothing, one creation, one deletion, or
\* one embedding filled in.
PoolStep ==
    \/ UNCHANGED <<live, embedded, deleted>>
    \/ \E a \in adding : CommitAdd(a)
    \/ \E i \in live : DeleteMemory(i)
    \/ \E i \in live : /\ embedded' = embedded \cup {i}
                       /\ UNCHANGED <<live, deleted>>

\* Every step is a step of the pool.
LEMMA NextIsPoolStep == ASSUME [Next]_vars PROVE PoolStep
<1>1. ASSUME NEW r, NEW s, Step(r, s) PROVE UNCHANGED <<live, embedded, deleted>>
  BY <1>1 DEF Step, pool
<1>2. ASSUME NEW s, NEW i, NEW out, UpdateEmbedding(s, i, out), UNCHANGED deleted
      PROVE  PoolStep
  <2>1. UNCHANGED <<live, deleted>>
    BY <1>2 DEF UpdateEmbedding
  <2>2. \/ UNCHANGED embedded
        \/ i \in live /\ embedded' = embedded \cup {i}
    BY <1>2 DEF UpdateEmbedding
  <2> QED BY <2>1, <2>2 DEF PoolStep
<1>3. CASE UNCHANGED vars
  BY <1>3 DEF vars, pool, PoolStep
<1>4. CASE Tools
  <2>1. CASE \E vec \in BOOLEAN : MintId(vec)
    BY <2>1 DEF MintId, PoolStep
  <2>2. CASE \E a \in adding : CommitAdd(a) \/ AbortAdd(a)
    BY <2>2 DEF AbortAdd, PoolStep
  <2>3. CASE \E i \in live : DeleteMemory(i)
    BY <2>3 DEF PoolStep
  <2>4. CASE \E r \in Runs, scope \in Scopes, max \in Limits : BeginPass(r, scope, max)
    BY <1>1, <2>4 DEF BeginPass, PoolStep
  <2>5. CASE \E r \in Runs, i \in Ids : BeginOne(r, i)
    BY <1>1, <2>5 DEF BeginOne, PoolStep
  <2> QED BY <1>4, <2>1, <2>2, <2>3, <2>4, <2>5 DEF Tools
<1>5. CASE \E r \in Runs : PassStep(r)
  <2> PICK r \in Runs : PassStep(r)
    BY <1>5
  <2>1. CASE \/ StopCancelled(r) \/ StopAtCap(r) \/ FetchFails(r)
             \/ FetchEmpty(r) \/ EmbedFails(r) \/ NoProgress(r) \/ LastPage(r)
    BY <1>1, <2>1 DEF StopCancelled, StopAtCap, FetchFails, FetchEmpty, EmbedFails,
                      NoProgress, LastPage, PoolStep
  <2>2. CASE \/ \E B \in SUBSET live : FetchPage(r, B)
             \/ \E V \in SUBSET run[r].batch : EmbedPage(r, V)
             \/ \E i \in run[r].todo : SkipItem(r, i)
             \/ \E last \in run[r].batch : NextPage(r, last)
    BY <1>1, <2>2 DEF FetchPage, EmbedPage, SkipItem, NextPage, PoolStep
  <2>3. CASE \E i \in run[r].todo, out \in Outcomes : UpdateItem(r, i, out)
    BY <1>2, <2>3 DEF UpdateItem
  <2> QED BY <2>1, <2>2, <2>3 DEF PassStep
<1>6. CASE \E r \in Runs : OneStep(r)
  <2> PICK r \in Runs : OneStep(r)
    BY <1>6
  <2>1. CASE \/ ReadContent(r) \/ ContentGone(r) \/ ContentFails(r) \/ EmbedOne(r)
             \/ \E e \in {"embed", "noVector"} : EmbedOneFails(r, e)
    BY <1>1, <2>1 DEF ReadContent, ContentGone, ContentFails, EmbedOne,
                      EmbedOneFails, PoolStep
  <2>2. CASE \E i \in run[r].batch, out \in Outcomes : UpdateOne(r, i, out)
    BY <1>2, <2>2 DEF UpdateOne
  <2> QED BY <2>1, <2>2 DEF OneStep
<1>7. CASE \E r \in Runs : Cancel(r)
  BY <1>1, <1>7 DEF Cancel, PoolStep
<1>8. CASE Restart
  BY <1>8 DEF Restart, PoolStep
<1> QED BY <1>3, <1>4, <1>5, <1>6, <1>7, <1>8 DEF Next

\* Every step of the pool is a step of the abstract lifecycle, or none.
LEMMA PoolStepRefines ==
    ASSUME IndInv, PoolStep
    PROVE  [Lifecycle!LifeNext]_([i \in Ids |-> StatusOf(i)])
<1> DEFINE st == [i \in Ids |-> StatusOf(i)]
<1>1. /\ live \subseteq 1 .. minted /\ embedded \subseteq live
      /\ minted \in Nat /\ MaxIds \in Nat /\ minted <= MaxIds
      /\ live \cap deleted = {}
      /\ \A a \in adding : a.id \in 1 .. minted /\ a.id \notin live \cup deleted
  BY ConstantsOK DEF IndInv, TypeOK, StoreInv, ConstantsOK
<1>2. live \subseteq Ids /\ \A a \in adding : a.id \in Ids
  BY <1>1 DEF Ids
<1>3. ASSUME NEW k \in Ids, NEW x, StatusOf(k)' = x,
             \A i \in Ids \ {k} : StatusOf(i)' = StatusOf(i)
      PROVE  st' = [st EXCEPT ![k] = x]
  BY <1>3
<1>4. CASE UNCHANGED <<live, embedded, deleted>>
  <2>1. st' = st
    BY <1>4 DEF StatusOf
  <2> QED BY <2>1
<1>5. ASSUME NEW a \in adding, CommitAdd(a) PROVE Lifecycle!LifeNext
  <2> DEFINE k == a.id
             x == IF a.vec THEN "embedded" ELSE "plain"
  <2>1. /\ live' = live \cup {k} /\ deleted' = deleted
        /\ embedded' = (IF a.vec THEN embedded \cup {k} ELSE embedded)
    BY <1>5 DEF CommitAdd
  <2>2. k \in Ids /\ k \notin live /\ k \notin deleted /\ k \notin embedded
    BY <1>1, <1>2
  <2>3. StatusOf(k) = "unborn" /\ StatusOf(k)' = x
    BY <2>1, <2>2 DEF StatusOf
  <2>4. \A i \in Ids \ {k} : StatusOf(i)' = StatusOf(i)
    BY <2>1 DEF StatusOf
  <2>5. st' = [st EXCEPT ![k] = x]
    BY <1>3, <2>2, <2>3, <2>4
  <2>6. st[k] = "unborn"
    BY <2>2, <2>3
  <2>7. Lifecycle!Create(k)
    BY <2>5, <2>6 DEF Lifecycle!Create, Lifecycle!Become
  <2> QED BY <2>2, <2>7 DEF Lifecycle!LifeNext
<1>6. ASSUME NEW k \in live, DeleteMemory(k) PROVE Lifecycle!LifeNext
  <2>1. /\ live' = live \ {k} /\ embedded' = embedded \ {k}
        /\ deleted' = deleted \cup {k}
    BY <1>6 DEF DeleteMemory
  <2>2. k \in Ids
    BY <1>2
  <2>3. StatusOf(k) \in {"plain", "embedded"} /\ StatusOf(k)' = "deleted"
    BY <2>1 DEF StatusOf
  <2>4. \A i \in Ids \ {k} : StatusOf(i)' = StatusOf(i)
    BY <2>1 DEF StatusOf
  <2>5. st' = [st EXCEPT ![k] = "deleted"]
    BY <1>3, <2>2, <2>3, <2>4
  <2>6. st[k] \in {"plain", "embedded"}
    BY <2>2, <2>3
  <2>7. Lifecycle!Remove(k)
    BY <2>5, <2>6 DEF Lifecycle!Remove, Lifecycle!Become
  <2> QED BY <2>2, <2>7 DEF Lifecycle!LifeNext
<1>7. ASSUME NEW k \in live, embedded' = embedded \cup {k}, UNCHANGED <<live, deleted>>
      PROVE  [Lifecycle!LifeNext]_st
  <2>1. k \in Ids /\ live' = live /\ deleted' = deleted
    BY <1>2, <1>7
  <2>2. CASE k \in embedded
    <3>1. embedded' = embedded
      BY <1>7, <2>2
    <3> QED BY <1>4, <2>1, <3>1
  <2>3. CASE k \notin embedded
    <3>1. StatusOf(k) = "plain" /\ StatusOf(k)' = "embedded"
      BY <1>7, <2>3 DEF StatusOf
    <3>2. \A i \in Ids \ {k} : StatusOf(i)' = StatusOf(i)
      BY <1>7, <2>1 DEF StatusOf
    <3>3. st' = [st EXCEPT ![k] = "embedded"]
      BY <1>3, <2>1, <3>1, <3>2
    <3>4. st[k] = "plain"
      BY <2>1, <3>1
    <3>5. Lifecycle!FillIn(k)
      BY <3>3, <3>4 DEF Lifecycle!FillIn, Lifecycle!Become
    <3> QED BY <2>1, <3>5 DEF Lifecycle!LifeNext
  <2> QED BY <2>2, <2>3
<1> QED BY <1>4, <1>5, <1>6, <1>7 DEF PoolStep

\* The detailed specification implements the abstract lifecycle: no deleted
\* memory comes back and no embedding is lost, whatever runs concurrently.
THEOREM RefinesLifecycle == Spec => MemoriesLiveOnce
<1>1. Init => Lifecycle!LifeInit
  BY DEF Lifecycle!LifeInit, Lifecycle!Status, StatusOf
<1>2. IndInv /\ [Next]_vars => [Lifecycle!LifeNext]_([i \in Ids |-> StatusOf(i)])
  BY NextIsPoolStep, PoolStepRefines
<1> QED BY <1>1, <1>2, Inductive, PTL
        DEF Spec, MemoriesLiveOnce, Lifecycle!LifeSpec
=============================================================================
