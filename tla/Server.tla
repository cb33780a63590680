------------------------------- MODULE Server -------------------------------
(***************************************************************************)
(* The life of one server process (cmd/server/main.go): configuration,     *)
(* connecting to Neo4j with backoff, schema bootstrap, serving next to the *)
(* boot backfill, and the way out; and the next boots after it.            *)
(*                                                                         *)
(* main, the goroutine of ListenAndServe, the backfill and the requests    *)
(* take their steps in any order.  The process may die at any time; the    *)
(* schema in the database is all that survives.                            *)
(***************************************************************************)
EXTENDS Integers, Sequences

CONSTANTS
    MaxAttempts,    \* 5: attempts to connect
    MaxBackoff,     \* 16: the longest wait between two of them, in seconds
    Statements,     \* 7: statements of Bootstrap
    Requests,       \* requests a client can have under way
    MaxBoots        \* bound: boots

ASSUME ServerConstantsOK ==
    /\ {MaxAttempts, MaxBackoff, Statements} \subseteq Nat \ {0}
    /\ MaxBoots \in Nat

VARIABLES
    phase,      \* where main is
    attempt,    \* attempt to connect, from 1
    tries,      \* ghost: how the attempts of this boot ended
    waited,     \* ghost: seconds of backoff in this boot
    step,       \* statements of Bootstrap this boot has executed
    schema,     \* statements whose constraint or index exists
    driver,     \* "none", "open" or "closed"
    listener,   \* "off", "starting", "open", "failed" or "shut"
    backfill,   \* "off", "running" or "over"
    ctxDone,    \* main's ctx is cancelled
    signalled,  \* a signal is in sigCh
    active,     \* requests under way
    timedOut,   \* ghost: Shutdown gave up on the requests
    exit,       \* "none", the exit status 0 or 1, or "killed"
    boots       \* boots so far

connecting == <<attempt, tries, waited>>
serving == <<listener, backfill, ctxDone, signalled, active, timedOut>>
vars == <<phase, connecting, step, schema, driver, serving, exit, boots>>

Startup == {"config", "connect", "backoff", "bootstrap", "start"}
Phases == Startup \cup {"serve", "drain", "close", "cancel", "over"}

Init ==
    /\ phase = "config" /\ attempt = 1 /\ tries = <<>> /\ waited = 0 /\ step = 0
    /\ driver = "none" /\ listener = "off" /\ backfill = "off"
    /\ ctxDone = FALSE /\ signalled = FALSE /\ active = {} /\ timedOut = FALSE
    /\ exit = "none" /\ schema = 0 /\ boots = 1

\* The process is gone, and with it all that runs in it.
End(status) ==
    /\ phase' = "over" /\ exit' = status
    /\ driver' = "none" /\ listener' = "off" /\ backfill' = "off"
    /\ active' = {} /\ ctxDone' = FALSE /\ signalled' = FALSE /\ timedOut' = FALSE

(***************************************************************************)
(* Start.                                                                  *)
(***************************************************************************)
\* config.LoadFromEnv: a variable is missing or malformed, or all is well.
LoadFromEnv(ok) ==
    /\ phase = "config"
    /\ \/ ok /\ phase' = "connect" /\ UNCHANGED <<driver, serving, exit>>
       \/ ~ok /\ End("1")
    /\ UNCHANGED <<connecting, step, schema, boots>>

\* One second, shifted left.
Shifted[n \in Nat] == IF n = 0 THEN 1 ELSE 2 * Shifted[n - 1]

\* connectBackoff.
Backoff(n) == IF Shifted[n - 1] > MaxBackoff THEN MaxBackoff ELSE Shifted[n - 1]

Connect ==
    /\ phase = "connect"
    /\ tries' = Append(tries, "ok")
    /\ driver' = "open" /\ phase' = "bootstrap"
    /\ UNCHANGED <<attempt, waited, step, schema, serving, exit, boots>>

\* Mutant of ConnectFails: bad credentials are retried.
ConnectFailsRetryAll(kind) ==
    /\ phase = "connect"
    /\ tries' = Append(tries, kind)
    /\ IF attempt = MaxAttempts THEN End("1")
       ELSE phase' = "backoff" /\ UNCHANGED <<driver, serving, exit>>
    /\ UNCHANGED <<attempt, waited, step, schema, boots>>

\* Mutant of ConnectFails: one attempt too many.
ConnectFailsOnceMore(kind) ==
    /\ phase = "connect"
    /\ tries' = Append(tries, kind)
    /\ IF kind = "permanent" \/ attempt > MaxAttempts THEN End("1")
       ELSE phase' = "backoff" /\ UNCHANGED <<driver, serving, exit>>
    /\ UNCHANGED <<attempt, waited, step, schema, boots>>

\* NewRepository fails; IsPermanentConnectError tells the kind.
ConnectFails(kind) ==
    /\ phase = "connect"
    /\ tries' = Append(tries, kind)
    /\ IF kind = "permanent" \/ attempt = MaxAttempts THEN End("1")
       ELSE phase' = "backoff" /\ UNCHANGED <<driver, serving, exit>>
    /\ UNCHANGED <<attempt, waited, step, schema, boots>>

\* Nothing cancels ctx yet, so the timer ends the wait.
BackoffOver ==
    /\ phase = "backoff"
    /\ phase' = "connect"
    /\ attempt' = attempt + 1 /\ waited' = waited + Backoff(attempt)
    /\ UNCHANGED <<tries, step, schema, driver, serving, exit, boots>>

\* Bootstrap executes its statements in turn; one whose constraint or index
\* exists changes nothing.
Applied == schema' = IF schema > step THEN schema ELSE step + 1

Bootstrap ==
    /\ phase = "bootstrap" /\ step < Statements
    /\ step' = step + 1
    /\ Applied
    /\ UNCHANGED <<phase, connecting, driver, serving, exit, boots>>

\* Mutant of BootstrapFails: the error is logged and the next statement tried.
BootstrapGoesOn(applied) ==
    /\ phase = "bootstrap" /\ step < Statements
    /\ step' = step + 1
    /\ IF applied THEN Applied ELSE UNCHANGED schema
    /\ UNCHANGED <<phase, connecting, driver, serving, exit, boots>>

\* A statement fails, perhaps after it was applied.
BootstrapFails(applied) ==
    /\ phase = "bootstrap" /\ step < Statements
    /\ IF applied THEN Applied ELSE UNCHANGED schema
    /\ End("1")
    /\ UNCHANGED <<connecting, step, boots>>

\* The goroutines of the backfill and of ListenAndServe are started.
Start ==
    /\ phase = "bootstrap" /\ step = Statements
    /\ phase' = "start" /\ backfill' = "running" /\ listener' = "starting"
    /\ UNCHANGED <<connecting, step, schema, driver, ctxDone, signalled, active>>
    /\ UNCHANGED <<timedOut, exit, boots>>

\* signal.Notify: until here a signal kills the process.
Notify ==
    /\ phase = "start"
    /\ phase' = "serve"
    /\ UNCHANGED <<connecting, step, schema, driver, serving, exit, boots>>

(***************************************************************************)
(* Serving.                                                                *)
(***************************************************************************)
\* ListenAndServe binds the port, unless Shutdown has come first, or fails,
\* then or later, and cancels ctx.
Listen ==
    /\ listener = "starting"
    /\ listener' = IF phase \in {"start", "serve"} THEN "open" ELSE "shut"
    /\ UNCHANGED <<phase, connecting, step, schema, driver, backfill, ctxDone>>
    /\ UNCHANGED <<signalled, active, timedOut, exit, boots>>

ListenFails ==
    /\ listener \in {"starting", "open"} /\ phase \in {"start", "serve"}
    /\ listener' = "failed" /\ ctxDone' = TRUE
    /\ UNCHANGED <<phase, connecting, step, schema, driver, backfill>>
    /\ UNCHANGED <<signalled, active, timedOut, exit, boots>>

\* An authorised request comes, and is answered in the end, well or badly.
Accept(r) ==
    /\ listener = "open" /\ r \notin active
    /\ active' = active \cup {r}
    /\ UNCHANGED <<phase, connecting, step, schema, driver, listener, backfill>>
    /\ UNCHANGED <<ctxDone, signalled, timedOut, exit, boots>>

Finish(r) ==
    /\ r \in active
    /\ active' = active \ {r}
    /\ UNCHANGED <<phase, connecting, step, schema, driver, listener, backfill>>
    /\ UNCHANGED <<ctxDone, signalled, timedOut, exit, boots>>

\* backfillMissingEmbeddings returns, for whatever reason; see Reembed.
BackfillReturns ==
    /\ backfill = "running"
    /\ backfill' = "over"
    /\ UNCHANGED <<phase, connecting, step, schema, driver, listener, ctxDone>>
    /\ UNCHANGED <<signalled, active, timedOut, exit, boots>>

(***************************************************************************)
(* The end.                                                                *)
(***************************************************************************)
\* SIGINT or SIGTERM.  sigCh holds one; once main has left its select it is
\* never read again.
Signal ==
    /\ phase # "over"
    /\ IF phase \in Startup THEN End("killed") ELSE
           /\ ~signalled /\ signalled' = TRUE
           /\ UNCHANGED <<phase, driver, listener, backfill, ctxDone, active>>
           /\ UNCHANGED <<timedOut, exit>>
    /\ UNCHANGED <<connecting, step, schema, boots>>

Crash ==
    /\ phase # "over"
    /\ End("killed")
    /\ UNCHANGED <<connecting, step, schema, boots>>

\* main leaves its select and calls Shutdown, which closes the listener first.
Shutdown ==
    /\ phase = "serve" /\ (signalled \/ ctxDone)
    /\ phase' = "drain"
    /\ listener' = IF listener = "open" THEN "shut" ELSE listener
    /\ UNCHANGED <<connecting, step, schema, driver, backfill, ctxDone>>
    /\ UNCHANGED <<signalled, active, timedOut, exit, boots>>

\* Mutant of Drained: Close instead of Shutdown.
DrainedAtOnce ==
    /\ phase = "drain"
    /\ phase' = "close"
    /\ UNCHANGED <<connecting, step, schema, driver, serving, exit, boots>>

Drained ==
    /\ phase = "drain" /\ active = {}
    /\ phase' = "close"
    /\ UNCHANGED <<connecting, step, schema, driver, serving, exit, boots>>

\* Mutant of DrainTimesOut: Shutdown has a context without a deadline.
DrainTimesOutNever ==
    /\ phase = "drain" /\ active = {}
    /\ phase' = "close" /\ timedOut' = TRUE
    /\ UNCHANGED <<connecting, step, schema, driver, listener, backfill>>
    /\ UNCHANGED <<ctxDone, signalled, active, exit, boots>>

\* shutdownCtx ends after ten seconds.
DrainTimesOut ==
    /\ phase = "drain" /\ active # {}
    /\ phase' = "close" /\ timedOut' = TRUE
    /\ UNCHANGED <<connecting, step, schema, driver, listener, backfill>>
    /\ UNCHANGED <<ctxDone, signalled, active, exit, boots>>

\* The deferred calls, last deferred first: the driver is closed ...
Close ==
    /\ phase = "close"
    /\ phase' = "cancel" /\ driver' = "closed"
    /\ UNCHANGED <<connecting, step, schema, serving, exit, boots>>

\* ... before ctx is cancelled, and main returns.
Leave ==
    /\ phase = "cancel"
    /\ End("0")
    /\ UNCHANGED <<connecting, step, schema, boots>>

Boot ==
    /\ phase = "over" /\ boots < MaxBoots
    /\ boots' = boots + 1
    /\ phase' = "config" /\ exit' = "none"
    /\ attempt' = 1 /\ tries' = <<>> /\ waited' = 0 /\ step' = 0
    /\ UNCHANGED <<schema, driver, serving>>

\* What main does once it can; an attempt to connect has a timeout, and the
\* driver gives up retrying a statement.
Main ==
    \/ \E ok \in BOOLEAN : LoadFromEnv(ok)
    \/ Connect
    \/ \E kind \in {"transient", "permanent"} : ConnectFails(kind)
    \/ BackoffOver
    \/ Bootstrap
    \/ \E applied \in BOOLEAN : BootstrapFails(applied)
    \/ Start \/ Notify
    \/ Shutdown \/ Drained \/ DrainTimesOut \/ Close \/ Leave

Next ==
    \/ Main
    \/ Listen \/ ListenFails
    \/ \E r \in Requests : Accept(r) \/ Finish(r)
    \/ BackfillReturns
    \/ Signal \/ Crash \/ Boot

Spec == Init /\ [][Next]_vars

\* main runs, its timers fire and its calls of the driver return.  Requests and
\* the backfill need not end, and the port need never be bound.
FairSpec == Spec /\ WF_vars(Main)

(***************************************************************************)
(* Properties.                                                             *)
(***************************************************************************)
\* Every variable has its type.
TypeOK ==
    /\ phase \in Phases
    /\ attempt \in 1 .. MaxAttempts
    /\ tries \in Seq({"ok", "transient", "permanent"})
    /\ waited \in Nat
    /\ step \in 0 .. Statements /\ schema \in 0 .. Statements
    /\ driver \in {"none", "open", "closed"}
    /\ listener \in {"off", "starting", "open", "failed", "shut"}
    /\ backfill \in {"off", "running", "over"}
    /\ {ctxDone, signalled, timedOut} \subseteq BOOLEAN
    /\ active \subseteq Requests
    /\ exit \in {"none", "0", "1", "killed"}
    /\ (phase = "over") = (exit # "none")
    /\ boots \in Nat

\* What connecting did, over its whole history: only transient failures were
\* followed by another attempt; there were MaxAttempts at most; the process
\* stopped with an error over a failure only if that was permanent or the last;
\* and each wait is between one second and MaxBackoff, and together they stay
\* within those that double from one second.
ConnectPolicy ==
    LET n == Len(tries)
    IN  /\ n <= MaxAttempts
        /\ \A i \in 1 .. n - 1 : tries[i] = "transient"
        /\ exit = "1" /\ n > 0 /\ tries[n] # "ok" =>
               tries[n] = "permanent" \/ n = MaxAttempts
        /\ phase = "backoff" => tries[n] = "transient"
        /\ attempt - 1 <= waited
        /\ waited <= (attempt - 1) * MaxBackoff /\ waited < Shifted[attempt - 1]

\* No request and no backfill meets a database without the whole schema, though
\* a boot may die half way through it and the next begin again: tag names, for
\* one, are kept unique by a constraint.
SchemaBeforeUse ==
    backfill = "running" \/ active # {} => schema = Statements

\* The driver is closed under a request only if Shutdown's ten seconds are over,
\* also if the port is bound late, while the process is being stopped already.
DriverOutlivesRequests ==
    driver # "open" /\ active # {} => timedOut

\* A boot comes to serving or to an exit, and a signal or a failing listener to
\* an exit, even if requests and backfill never end.
NothingHangs ==
    /\ phase \in Startup ~> phase \in {"serve", "over"}
    /\ (phase = "serve" /\ (signalled \/ ctxDone)) ~> phase = "over"
=============================================================================
