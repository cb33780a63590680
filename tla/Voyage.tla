------------------------------- MODULE Voyage -------------------------------
(***************************************************************************)
(* One call of VoyageClient.Embed (internal/embeddings/voyage.go) against  *)
(* a service that answers, fails, loses the connection or is too late.     *)
(*                                                                         *)
(* A vector is the number of the text it embeds, and 0 is no vector (a nil *)
(* or empty slice).  The service labels its vectors truthfully, but it may *)
(* send them in any order, leave some out and repeat labels.  The waits    *)
(* between attempts are left out except that they end.                     *)
(***************************************************************************)
EXTENDS Integers, Sequences, SequencesExt

CONSTANTS
    MaxRetries,     \* c.maxRetries: attempts of one call
    MaxTexts,       \* bound: texts in one call
    MaxItems        \* bound: items in one response

ASSUME VoyageConstantsOK ==
    /\ MaxRetries \in Nat \ {0}
    /\ MaxTexts \in Nat /\ MaxItems \in Nat

VARIABLES
    pc,         \* "start", "send", "wait" or "done"
    texts,      \* how many texts to embed
    attempt,    \* attempts that have failed
    cancelled,  \* ctx is done
    seen,       \* ghost: what became of each request, in order
    out,        \* the vectors returned
    err         \* the error returned

vars == <<pc, texts, attempt, cancelled, seen, out, err>>

\* The failures after which Embed sends its request again.
Retried == {"transport", "429", "5xx"}

\* "cut" is a connection lost while the body of a 200 is read, "garbled" a
\* body that is not the JSON expected or has an index out of range.
Answers == Retried \cup {"4xx", "cut", "garbled", "vectors"}

Errors == {"none", "noKey", "cancelled", "exhausted"} \cup Answers

\* Indices count from 0; a response may hold one that no item of it has.
Items == UNION {[1 .. n -> [index : (0 - 1) .. MaxItems, empty : BOOLEAN]] :
                    n \in 0 .. MaxItems}

Vector(item) == IF item.empty THEN 0 ELSE item.index + 1

Init ==
    /\ pc = "start" /\ texts = 0 /\ attempt = 0 /\ cancelled = FALSE
    /\ seen = <<>> /\ out = <<>> /\ err = "none"

Return(vs, e) == pc' = "done" /\ out' = vs /\ err' = e

\* Mutant of DecodedVectors: items are taken in the order they come.
InOrderOfArrival(items) == [i \in 1 .. Len(items) |-> Vector(items[i])]

\* decodeVoyageResp's loop: an item goes where its index says, the last of
\* several with one index wins, and a place nobody claims stays nil.
DecodedVectors(items) ==
    [i \in 1 .. Len(items) |->
        LET claims == {k \in 1 .. Len(items) : items[k].index = i - 1} IN
        IF claims = {} THEN 0
        ELSE Vector(items[CHOOSE k \in claims : \A j \in claims : j <= k])]

InRange(items) == \A k \in 1 .. Len(items) : items[k].index \in 0 .. Len(items) - 1

\* Mutant of ShouldRetry: every error status is taken for a passing one.
RetryErrorStatus(answer) == answer \in {"4xx", "429", "5xx"}

\* shouldRetry, of the status of an answer that could not be decoded: a body cut
\* short or garbled came with a 200.
ShouldRetry(answer) == answer \in {"429", "5xx"}

\* Embed up to its loop.
Call(key, n) ==
    /\ pc = "start"
    /\ texts' = n
    /\ \/ ~key /\ Return(<<>>, "noKey")
       \/ key /\ n = 0 /\ Return(<<>>, "none")
       \/ key /\ n > 0 /\ pc' = "send" /\ UNCHANGED <<out, err>>
    /\ UNCHANGED <<attempt, cancelled, seen>>

\* Mutant of Again: one attempt too many.
AgainOnceMore ==
    /\ attempt' = attempt + 1
    /\ IF attempt' <= MaxRetries
       THEN pc' = "wait" /\ UNCHANGED <<out, err>>
       ELSE Return(<<>>, "exhausted")

\* The end of an attempt that may be repeated.
Again ==
    /\ attempt' = attempt + 1
    /\ IF attempt' < MaxRetries
       THEN pc' = "wait" /\ UNCHANGED <<out, err>>
       ELSE Return(<<>>, "exhausted")

\* httpClient.Do fails: no connection, the client's timeout, or ctx.
TransportFails ==
    /\ pc = "send"
    /\ seen' = Append(seen, "transport")
    /\ Again
    /\ UNCHANGED <<texts, cancelled>>

\* A response comes that decodeVoyageResp rejects.
Rejected(answer) ==
    /\ pc = "send"
    /\ seen' = Append(seen, answer)
    /\ IF ShouldRetry(answer) THEN Again
       ELSE Return(<<>>, answer) /\ UNCHANGED attempt
    /\ UNCHANGED <<texts, cancelled>>

\* A 200 with a body that parses.
Answered(items) ==
    /\ pc = "send"
    /\ IF InRange(items)
       THEN /\ seen' = Append(seen, "vectors")
            /\ Return(DecodedVectors(items), "none")
       ELSE /\ seen' = Append(seen, "garbled")
            /\ Return(<<>>, "garbled")
    /\ UNCHANGED <<texts, attempt, cancelled>>

\* Mutant of WaitOver: the select waits for ctx alone.
WaitForCaller ==
    /\ pc = "wait" /\ cancelled
    /\ pc' = "send"
    /\ UNCHANGED <<texts, attempt, cancelled, seen, out, err>>

\* time.After(backoff) is ready first.
WaitOver ==
    /\ pc = "wait"
    /\ pc' = "send"
    /\ UNCHANGED <<texts, attempt, cancelled, seen, out, err>>

\* ctx.Done() is ready first.
WaitCancelled ==
    /\ pc = "wait" /\ cancelled
    /\ Return(<<>>, "cancelled")
    /\ UNCHANGED <<texts, attempt, cancelled, seen>>

\* The caller's context ends.
Cancel ==
    /\ pc \in {"send", "wait"} /\ ~cancelled
    /\ cancelled' = TRUE
    /\ UNCHANGED <<pc, texts, attempt, seen, out, err>>

\* A step of a call under way.
Attempt ==
    \/ TransportFails
    \/ \E answer \in {"4xx", "429", "5xx", "cut", "garbled"} : Rejected(answer)
    \/ \E items \in Items : Answered(items)
    \/ WaitOver
    \/ WaitCancelled

EmbedStep ==
    \/ \E key \in BOOLEAN, n \in 0 .. MaxTexts : Call(key, n)
    \/ Attempt

Next == EmbedStep \/ Cancel

Spec == Init /\ [][Next]_vars

\* Every request ends by the http.Client's 30 s Timeout, which covers reading
\* the body, and every wait by its timer.
FairSpec == Spec /\ WF_vars(EmbedStep)

(***************************************************************************)
(* Properties.                                                             *)
(***************************************************************************)
\* Every variable has its type; no more than MaxRetries attempts fail.
TypeOK ==
    /\ pc \in {"start", "send", "wait", "done"}
    /\ texts \in 0 .. MaxTexts
    /\ attempt \in 0 .. MaxRetries
    /\ cancelled \in BOOLEAN
    /\ seen \in Seq(Answers)
    /\ out \in Seq(0 .. MaxItems + 1)
    /\ err \in Errors

\* What Embed returns is what the policy its code follows makes of the whole
\* history of its requests: all but the last met no answer, a 429 or a 5xx; a
\* call that gives up has made MaxRetries of them; one that fails at once met
\* another failure; and a success answers the last request.  (The comments have
\* another policy in mind: see RetriesPreferTransient.)
OutcomeFollowsPolicy ==
    pc = "done" =>
        LET n == Len(seen) IN
        /\ n <= MaxRetries
        /\ \A i \in 1 .. n - 1 : seen[i] \in Retried
        /\ (err = "exhausted") <=> (n = MaxRetries /\ seen[n] \in Retried)
        /\ err = "cancelled" => cancelled /\ n < MaxRetries
        /\ err \in Answers => seen[n] = err /\ err \notin Retried
        /\ err = "none" => texts = 0 \/ (n > 0 /\ seen[n] = "vectors")

\* A vector is returned at the place of its own text, whatever the order of the
\* items in the response: callers pair texts and vectors by position.
VectorsMatchTexts == \A i \in 1 .. Len(out) : out[i] \in {0, i}

\* Embed returns, whatever the service does.
EmbedReturns == pc = "send" ~> pc = "done"

(***************************************************************************)
(* What comments of the code say that its behaviour does not bear out.     *)
(***************************************************************************)
\* voyage.go:20: "transient errors (5xx / network)".  A body cut short is a
\* network failure too.
Transient == {"5xx", "transport", "cut"}

\* voyage.go:130, "Only retry on 5xx and transport errors", and embedder.go:17,
\* "retry transient failures and return a final error only after exhausting
\* retries": a call that has repeated a request for a failure that is not
\* transient will not, with attempts left, give up at one that is.
RetriesPreferTransient ==
    LET n == Len(seen) IN
    /\ pc = "done" /\ n \in 1 .. MaxRetries - 1
    /\ \E i \in 1 .. n - 1 : seen[i] \notin Transient
    => err \notin Transient
=============================================================================
