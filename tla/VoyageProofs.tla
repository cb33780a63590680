---------------------------- MODULE VoyageProofs ----------------------------
(***************************************************************************)
(* Proofs about Voyage, for any number of attempts, texts and items.       *)
(***************************************************************************)
EXTENDS Voyage, LeastNumber, TLAPS

(***************************************************************************)
(* decodeVoyageResp.                                                       *)
(***************************************************************************)
\* A response of items in range gives one place for each, which holds the vector
\* of its own text or none: of several claims the last is well defined.
LEMMA DecodedMatch ==
    ASSUME NEW items \in Items, InRange(items)
    PROVE  /\ DecodedVectors(items) \in Seq(0 .. MaxItems + 1)
           /\ \A i \in 1 .. Len(DecodedVectors(items)) : DecodedVectors(items)[i] \in {0, i}
<1>1. PICK n \in 0 .. MaxItems : items \in [1 .. n -> [index : (0 - 1) .. MaxItems, empty : BOOLEAN]]
  BY DEF Items
<1>2. MaxItems \in Nat /\ n \in Nat /\ n <= MaxItems /\ Len(items) = n
  BY <1>1, VoyageConstantsOK DEF VoyageConstantsOK
<1> DEFINE claims(i) == {k \in 1 .. Len(items) : items[k].index = i - 1}
           last(i) == CHOOSE k \in claims(i) : \A j \in claims(i) : j <= k
<1>3. ASSUME NEW i \in 1 .. n, claims(i) # {} PROVE Vector(items[last(i)]) \in {0, i}
  <2>1. claims(i) \subseteq 0 .. n
    BY <1>2
  <2>2. \E k \in claims(i) : \A j \in claims(i) : j <= k
    <3> HIDE DEF claims
    <3> QED BY <1>2, <1>3, <2>1, GreatestNatural
  <2>3. last(i) \in claims(i)
    BY <2>2
  <2>4. items[last(i)].index = i - 1
    BY <2>3
  <2> QED BY <2>4 DEF Vector
<1>4. \A i \in 1 .. n : DecodedVectors(items)[i] \in {0, i}
  BY <1>2, <1>3 DEF DecodedVectors
<1>5. DecodedVectors(items) \in [1 .. n -> 0 .. MaxItems + 1]
  <2>1. DOMAIN DecodedVectors(items) = 1 .. n
    BY <1>2 DEF DecodedVectors
  <2>2. \A i \in 1 .. n : {0, i} \subseteq 0 .. MaxItems + 1
    BY <1>2
  <2>3. DecodedVectors(items) = [i \in 1 .. n |-> DecodedVectors(items)[i]]
    BY <1>2 DEF DecodedVectors
  <2> HIDE DEF DecodedVectors
  <2> QED BY <1>4, <2>1, <2>2, <2>3
<1>6. DecodedVectors(items) \in Seq(0 .. MaxItems + 1) /\ Len(DecodedVectors(items)) = n
  BY <1>2, <1>5
<1> QED BY <1>4, <1>6

(***************************************************************************)
(* The inductive invariant.                                                *)
(***************************************************************************)
\* Until Embed returns, all its requests met transient failures and there is
\* room for another one.
LoopInv ==
    /\ pc # "done" => out = <<>> /\ err = "none"
    /\ pc = "start" => attempt = 0 /\ seen = <<>>
    /\ pc \in {"send", "wait"} =>
           /\ attempt < MaxRetries /\ Len(seen) = attempt /\ texts > 0
           /\ \A i \in 1 .. Len(seen) : seen[i] \in Retried

EmbedInv == TypeOK /\ LoopInv /\ OutcomeFollowsPolicy /\ VectorsMatchTexts

\* Embed enters its loop or returns at once.
LEMMA CallOK ==
    ASSUME EmbedInv, NEW key \in BOOLEAN, NEW n \in 0 .. MaxTexts, Call(key, n)
    PROVE  EmbedInv'
<1>1. TypeOK'
  BY DEF EmbedInv, TypeOK, Call, Return, LoopInv, Errors
<1>2. LoopInv'
  BY VoyageConstantsOK DEF EmbedInv, LoopInv, Call, Return, VoyageConstantsOK
<1>3. OutcomeFollowsPolicy' /\ VectorsMatchTexts'
  BY VoyageConstantsOK DEF EmbedInv, LoopInv, OutcomeFollowsPolicy, VectorsMatchTexts, Call, Return,
     VoyageConstantsOK, Answers, Retried
<1> QED BY <1>1, <1>2, <1>3 DEF EmbedInv

\* An attempt that fails in a way that passes is repeated, or is the last one.
LEMMA AgainOK ==
    ASSUME EmbedInv, pc = "send", NEW answer \in Retried, seen' = Append(seen, answer),
           Again, UNCHANGED <<texts, cancelled>>
    PROVE  EmbedInv'
<1>1. /\ attempt \in Nat /\ MaxRetries \in Nat /\ attempt < MaxRetries /\ Len(seen) = attempt
      /\ seen \in Seq(Answers) /\ answer \in Answers
      /\ \A i \in 1 .. Len(seen) : seen[i] \in Retried
  BY VoyageConstantsOK DEF EmbedInv, TypeOK, LoopInv, VoyageConstantsOK, Answers
<1>2. /\ seen' \in Seq(Answers) /\ Len(seen') = attempt' /\ attempt' = attempt + 1
      /\ \A i \in 1 .. Len(seen') : seen'[i] \in Retried
  BY <1>1 DEF Again
<1>3. CASE attempt' < MaxRetries
  <2>1. pc' = "wait" /\ UNCHANGED <<out, err>>
    BY <1>3 DEF Again
  <2>2. TypeOK'
    BY <1>1, <1>2, <1>3, <2>1 DEF EmbedInv, TypeOK
  <2>3. LoopInv'
    BY <1>2, <1>3, <2>1 DEF EmbedInv, LoopInv
  <2> QED BY <2>1, <2>2, <2>3 DEF EmbedInv, OutcomeFollowsPolicy, VectorsMatchTexts
<1>4. CASE ~(attempt' < MaxRetries)
  <2>1. attempt' = MaxRetries /\ pc' = "done" /\ out' = <<>> /\ err' = "exhausted"
    BY <1>1, <1>2, <1>4 DEF Again, Return
  <2>2. TypeOK'
    BY <1>1, <1>2, <2>1 DEF EmbedInv, TypeOK, Errors
  <2>3. LoopInv'
    BY <2>1 DEF LoopInv
  <2>4. OutcomeFollowsPolicy' /\ VectorsMatchTexts'
    BY <1>1, <1>2, <2>1 DEF OutcomeFollowsPolicy, VectorsMatchTexts, Answers, Retried
  <2> QED BY <2>2, <2>3, <2>4 DEF EmbedInv
<1> QED BY <1>3, <1>4

\* An answer that is not transient is the last.
LEMMA LastOK ==
    ASSUME EmbedInv, pc = "send", NEW answer \in Answers \ Retried, seen' = Append(seen, answer),
           UNCHANGED <<texts, attempt, cancelled>>, pc' = "done",
           out' \in Seq(0 .. MaxItems + 1), \A i \in 1 .. Len(out') : out'[i] \in {0, i},
           err' = IF answer = "vectors" THEN "none" ELSE answer
    PROVE  EmbedInv'
<1>1. /\ attempt \in Nat /\ MaxRetries \in Nat /\ attempt < MaxRetries /\ Len(seen) = attempt
      /\ seen \in Seq(Answers)
      /\ \A i \in 1 .. Len(seen) : seen[i] \in Retried
  BY VoyageConstantsOK DEF EmbedInv, TypeOK, LoopInv, VoyageConstantsOK
<1>2. /\ seen' \in Seq(Answers) /\ Len(seen') = attempt + 1 /\ seen'[attempt + 1] = answer
      /\ \A i \in 1 .. attempt : seen'[i] \in Retried
  BY <1>1
<1>3. TypeOK'
  BY <1>2 DEF EmbedInv, TypeOK, Errors
<1>4. LoopInv'
  BY DEF LoopInv
<1>5. OutcomeFollowsPolicy' /\ VectorsMatchTexts'
  BY <1>1, <1>2 DEF OutcomeFollowsPolicy, VectorsMatchTexts, Answers, Retried
<1> QED BY <1>3, <1>4, <1>5 DEF EmbedInv

\* No answer: the attempt may be repeated.
LEMMA TransportFailsOK ==
    ASSUME EmbedInv, TransportFails
    PROVE  EmbedInv'
BY AgainOK DEF TransportFails, Retried

\* An answer that is an error ends the call or is repeated.
LEMMA RejectedOK ==
    ASSUME EmbedInv, NEW answer \in {"4xx", "429", "5xx", "cut", "garbled"}, Rejected(answer)
    PROVE  EmbedInv'
<1>1. CASE ShouldRetry(answer)
  BY <1>1, AgainOK DEF Rejected, ShouldRetry, Retried
<1>2. CASE ~ShouldRetry(answer)
  <2>1. answer \in Answers \ Retried /\ answer # "vectors"
    BY <1>2 DEF ShouldRetry, Answers, Retried
  <2>2. pc' = "done" /\ out' = <<>> /\ err' = answer /\ UNCHANGED attempt
    BY <1>2 DEF Rejected, Return
  <2> QED BY <2>1, <2>2, LastOK DEF Rejected
<1> QED BY <1>1, <1>2

\* Vectors, or a body that is wrong, end the call.
LEMMA AnsweredOK ==
    ASSUME EmbedInv, NEW items \in Items, Answered(items)
    PROVE  EmbedInv'
<1>1. {"vectors", "garbled"} \subseteq Answers \ Retried
  BY DEF Answers, Retried
<1>2. CASE InRange(items)
  <2>1. seen' = Append(seen, "vectors") /\ pc' = "done" /\ out' = DecodedVectors(items) /\ err' = "none"
    BY <1>2 DEF Answered, Return
  <2>2. out' \in Seq(0 .. MaxItems + 1) /\ \A i \in 1 .. Len(out') : out'[i] \in {0, i}
    BY <1>2, <2>1, DecodedMatch
  <2> QED BY <1>1, <2>1, <2>2, LastOK DEF Answered
<1>3. CASE ~InRange(items)
  <2>1. seen' = Append(seen, "garbled") /\ pc' = "done" /\ out' = <<>> /\ err' = "garbled"
    BY <1>3 DEF Answered, Return
  <2> QED BY <1>1, <2>1, LastOK DEF Answered
<1> QED BY <1>2, <1>3

\* The backoff is over.
LEMMA WaitOverOK ==
    ASSUME EmbedInv, WaitOver
    PROVE  EmbedInv'
BY DEF EmbedInv, TypeOK, LoopInv, OutcomeFollowsPolicy, VectorsMatchTexts, WaitOver

\* The context ends during the backoff.
LEMMA WaitCancelledOK ==
    ASSUME EmbedInv, WaitCancelled
    PROVE  EmbedInv'
<1>1. TypeOK' /\ LoopInv'
  BY DEF EmbedInv, TypeOK, LoopInv, WaitCancelled, Return, Errors
<1>2. OutcomeFollowsPolicy' /\ VectorsMatchTexts'
  BY VoyageConstantsOK DEF EmbedInv, TypeOK, LoopInv, OutcomeFollowsPolicy, VectorsMatchTexts,
     WaitCancelled, Return, VoyageConstantsOK, Answers, Retried
<1> QED BY <1>1, <1>2 DEF EmbedInv

\* The context may end at any time.
LEMMA CancelledOK ==
    ASSUME EmbedInv, cancelled' \in BOOLEAN, cancelled => cancelled',
           UNCHANGED <<pc, texts, attempt, seen, out, err>>
    PROVE  EmbedInv'
BY DEF EmbedInv, TypeOK, LoopInv, OutcomeFollowsPolicy, VectorsMatchTexts

\* A step of the loop.
LEMMA AttemptOK ==
    ASSUME EmbedInv, Attempt
    PROVE  EmbedInv'
BY TransportFailsOK, RejectedOK, AnsweredOK, WaitOverOK, WaitCancelledOK DEF Attempt

(***************************************************************************)
(* The theorems.                                                           *)
(***************************************************************************)
\* The invariant holds before the call.
LEMMA EmbedInitOK == Init => EmbedInv
<1> SUFFICES ASSUME Init PROVE EmbedInv
  OBVIOUS
<1>1. TypeOK
  <2>1. 0 \in 0 .. MaxTexts /\ 0 \in 0 .. MaxRetries
    BY VoyageConstantsOK DEF VoyageConstantsOK
  <2>2. seen \in Seq(Answers) /\ out \in Seq(0 .. MaxItems + 1)
    BY DEF Init
  <2> QED BY <2>1, <2>2 DEF Init, TypeOK, Errors
<1>2. LoopInv /\ OutcomeFollowsPolicy /\ VectorsMatchTexts
  BY DEF Init, LoopInv, OutcomeFollowsPolicy, VectorsMatchTexts
<1> QED BY <1>1, <1>2 DEF EmbedInv

\* Every step keeps the invariant.
LEMMA EmbedStepOK == EmbedInv /\ [Next]_vars => EmbedInv'
<1> SUFFICES ASSUME EmbedInv, [Next]_vars PROVE EmbedInv'
  OBVIOUS
<1>1. CASE UNCHANGED vars
  BY <1>1, CancelledOK DEF vars, EmbedInv, TypeOK
<1>2. CASE EmbedStep
  BY <1>2, CallOK, AttemptOK DEF EmbedStep
<1>3. CASE Cancel
  BY <1>3, CancelledOK DEF Cancel
<1> QED BY <1>1, <1>2, <1>3 DEF Next

\* The invariant holds in every reachable state.
THEOREM EmbedInductive == Spec => []EmbedInv
BY EmbedInitOK, EmbedStepOK, PTL DEF Spec

\* Every variable keeps its type; no more than MaxRetries attempts fail.
THEOREM EmbedTypeCorrect == Spec => []TypeOK
BY EmbedInductive, PTL DEF EmbedInv

\* What Embed returns is what its retry policy makes of the history of its
\* requests, for any number of retries.
THEOREM PolicyIsFollowed == Spec => []OutcomeFollowsPolicy
BY EmbedInductive, PTL DEF EmbedInv

\* decodeVoyageResp puts each vector at the place of its text, in whatever
\* order, number or repetition the items come.
THEOREM VectorsAreInPlace == Spec => []VectorsMatchTexts
BY EmbedInductive, PTL DEF EmbedInv
=============================================================================
