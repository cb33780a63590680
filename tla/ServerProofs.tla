---------------------------- MODULE ServerProofs ----------------------------
(***************************************************************************)
(* Proofs about Server, for any number of attempts, any longest backoff,   *)
(* any number of statements, requests and boots.                           *)
(***************************************************************************)
EXTENDS Server, LeastNumber, TLAPS

(***************************************************************************)
(* Shifted is what its definition says.  The library's theorems about      *)
(* recursive functions take the definition as a parameter, which the       *)
(* provers cannot instantiate, so it is proved here from SetInduction.     *)
(***************************************************************************)
\* Shifted is what its definition says: the function exists.
LEMMA ShiftedDoubles ==
    /\ Shifted \in [Nat -> Nat]
    /\ Shifted[0] = 1
    /\ \A n \in Nat : Shifted[n + 1] = 2 * Shifted[n]
<1> DEFINE Step(g) == [n \in Nat |-> IF n = 0 THEN 1 ELSE 2 * g[n - 1]]
           double == [n \in Nat |-> [m \in Nat |-> 2 * m]]
<1>1. double \in [Nat -> [Nat -> Nat]] /\ 1 \in Nat
  OBVIOUS
<1>2. PICK f \in [Nat -> Nat] : f[0] = 1 /\ \A n \in Nat \ {0} : f[n] = double[n][f[n - 1]]
  <2> HIDE DEF double
  <2> QED BY <1>1, RecursionExists
<1>3. ASSUME NEW n \in Nat \ {0} PROVE f[n] = 2 * f[n - 1]
  <2>1. f[n - 1] \in Nat /\ f[n] = double[n][f[n - 1]]
    BY <1>2
  <2>2. \A m \in Nat : double[n][m] = 2 * m
    OBVIOUS
  <2> HIDE DEF double
  <2> QED BY <2>1, <2>2
<1>4. f = Step(f)
  BY <1>2, <1>3
<1>5. Shifted = CHOOSE g : g = Step(g)
  BY DEF Shifted
<1>6. Shifted = Step(Shifted)
  BY <1>4, <1>5
<1>7. /\ Shifted[0] = 1
      /\ \A n \in Nat : n # 0 => Shifted[n] = 2 * Shifted[n - 1]
      /\ DOMAIN Shifted = Nat
  BY <1>6
<1>8. \A n \in Nat : Shifted[n + 1] = 2 * Shifted[n]
  BY <1>7
<1>9. {n \in Nat : Shifted[n] \in Nat} = Nat
  <2> DEFINE T == {n \in Nat : Shifted[n] \in Nat}
  <2>1. 0 \in T /\ \A n \in T : n + 1 \in T
    BY <1>7, <1>8
  <2>2. T \subseteq Nat
    OBVIOUS
  <2> HIDE DEF T
  <2>3. T = Nat
    BY <2>1, <2>2, SetInduction
  <2> QED BY <2>3 DEF T
<1>10. Shifted \in [Nat -> Nat]
  BY <1>6, <1>9
<1> QED BY <1>7, <1>8, <1>10

\* A wait is at least a second, and no longer than MaxBackoff or than it would
\* be without the cap.
LEMMA BackoffBounds ==
    ASSUME NEW n \in Nat \ {0}
    PROVE  /\ Backoff(n) \in Nat /\ 1 <= Backoff(n) /\ Backoff(n) <= MaxBackoff
           /\ Backoff(n) <= Shifted[n - 1]
           /\ Shifted[n] = 2 * Shifted[n - 1] /\ Shifted[n - 1] \in Nat
<1> DEFINE T == {k \in Nat : Shifted[k] >= 1}
<1>1. MaxBackoff \in Nat /\ MaxBackoff >= 1
  BY ServerConstantsOK DEF ServerConstantsOK
<1>2. 0 \in T /\ \A k \in T : k + 1 \in T
  BY ShiftedDoubles
<1>3. T \subseteq Nat
  OBVIOUS
<1> HIDE DEF T
<1>4. T = Nat
  BY <1>2, <1>3, SetInduction
<1>5. n - 1 \in Nat /\ (n - 1) + 1 = n
  OBVIOUS
<1>6. Shifted[n - 1] \in Nat /\ Shifted[n - 1] >= 1 /\ Shifted[n] = 2 * Shifted[n - 1]
  BY <1>4, <1>5, ShiftedDoubles DEF T
<1> QED BY <1>1, <1>6 DEF Backoff

(***************************************************************************)
(* The inductive invariant.                                                *)
(***************************************************************************)
Connected == {"bootstrap", "start", "serve", "drain", "close", "cancel"}
Serving == {"start", "serve", "drain", "close", "cancel"}

\* Every attempt but the last failed for a passing reason; where main is says
\* how the last one ended.
TriesInv ==
    LET n == Len(tries) IN
    /\ n \in {attempt - 1, attempt}
    /\ \A i \in 1 .. n - 1 : tries[i] = "transient"
    /\ phase \in {"config", "connect"} =>
           n = attempt - 1 /\ (n > 0 => tries[n] = "transient")
    /\ phase = "config" => n = 0
    /\ phase = "backoff" => n = attempt /\ attempt < MaxAttempts /\ tries[n] = "transient"
    /\ phase \in Connected => n = attempt /\ tries[n] = "ok"
    /\ exit = "1" /\ n > 0 /\ tries[n] # "ok" =>
           tries[n] = "permanent" \/ n = MaxAttempts

WaitInv ==
    /\ attempt - 1 <= waited
    /\ waited <= (attempt - 1) * MaxBackoff /\ waited < Shifted[attempt - 1]

\* What this boot has executed exists, and main serves only after all of it.
SchemaInv ==
    /\ step <= schema
    /\ phase \in Serving => step = Statements
    /\ backfill # "off" \/ listener # "off" \/ active # {} => phase \in Serving

\* The driver is there from connecting to the end; the listener is closed when
\* the requests are counted.
DriverInv ==
    /\ phase \in Connected \ {"cancel"} => driver = "open"
    /\ listener = "open" => phase \in {"start", "serve"}
    /\ phase \in {"close", "cancel"} /\ active # {} => timedOut

IndInv == TypeOK /\ TriesInv /\ WaitInv /\ SchemaInv /\ DriverInv

(***************************************************************************)
(* Every action preserves the invariant.                                   *)
(***************************************************************************)
\* The process ends without another attempt.
LEMMA EndOK ==
    ASSUME IndInv, NEW status \in {"0", "1", "killed"}, End(status),
           UNCHANGED <<attempt, waited, step, boots>>,
           schema' \in 0 .. Statements, schema <= schema',
           tries' \in Seq({"ok", "transient", "permanent"}),
           LET n == Len(tries') IN
               /\ n \in {attempt - 1, attempt}
               /\ \A i \in 1 .. n - 1 : tries'[i] = "transient"
               /\ status = "1" /\ n > 0 /\ tries'[n] # "ok" =>
                      tries'[n] = "permanent" \/ n = MaxAttempts
    PROVE  IndInv'
<1>1. TypeOK'
  BY DEF IndInv, TypeOK, End, Phases, Startup
<1>2. TriesInv'
  BY DEF End, TriesInv, Connected
<1>3. WaitInv'
  BY DEF IndInv, WaitInv
<1>4. SchemaInv' /\ DriverInv'
  BY DEF IndInv, TypeOK, End, SchemaInv, DriverInv, Serving, Connected
<1> QED BY <1>1, <1>2, <1>3, <1>4 DEF IndInv

\* A step that leaves the attempts alone keeps what is said of them, unless it
\* goes where more is said.
LEMMA ConnectingKept ==
    ASSUME IndInv, UNCHANGED <<connecting, exit>>,
           phase' = phase \/ (phase \in Connected /\ phase' \in Connected)
    PROVE  TriesInv' /\ WaitInv'
BY DEF IndInv, TriesInv, WaitInv, Connected, connecting

\* The configuration is read, or the process ends.
LEMMA LoadFromEnvOK ==
    ASSUME IndInv, NEW ok \in BOOLEAN, LoadFromEnv(ok)
    PROVE  IndInv'
<1>1. CASE phase' = "connect" /\ UNCHANGED <<driver, serving, exit>>
  <2>1. TypeOK'
    BY <1>1 DEF IndInv, TypeOK, LoadFromEnv, Phases, Startup, connecting, serving
  <2>2. TriesInv' /\ WaitInv'
    BY <1>1 DEF IndInv, TriesInv, WaitInv, LoadFromEnv, connecting, Connected
  <2>3. SchemaInv' /\ DriverInv'
    BY <1>1 DEF IndInv, SchemaInv, DriverInv, LoadFromEnv, serving, Serving, Connected
  <2> QED BY <2>1, <2>2, <2>3 DEF IndInv
<1>2. CASE End("1")
  <2>1. Len(tries) = 0 /\ attempt \in Nat
    BY DEF IndInv, TriesInv, TypeOK, LoadFromEnv
  <2> QED BY <1>2, <2>1, EndOK DEF IndInv, TypeOK, TriesInv, LoadFromEnv, connecting
<1> QED BY <1>1, <1>2 DEF LoadFromEnv

\* An attempt succeeds.
LEMMA ConnectOK ==
    ASSUME IndInv, Connect
    PROVE  IndInv'
<1>1. TypeOK'
  BY DEF IndInv, TypeOK, Connect, Phases, Startup, serving
<1>2. TriesInv'
  BY DEF IndInv, TypeOK, TriesInv, Connect, Connected
<1>3. WaitInv'
  BY DEF IndInv, WaitInv, Connect
<1>4. SchemaInv' /\ DriverInv'
  BY DEF IndInv, SchemaInv, DriverInv, Connect, serving, Serving, Connected
<1> QED BY <1>1, <1>2, <1>3, <1>4 DEF IndInv

\* An attempt fails: the loop goes on only for a passing reason, within the bound.
LEMMA ConnectFailsOK ==
    ASSUME IndInv, NEW kind \in {"transient", "permanent"}, ConnectFails(kind)
    PROVE  IndInv'
<1>1. /\ Len(tries') = attempt /\ tries'[attempt] = kind
      /\ tries' \in Seq({"ok", "transient", "permanent"})
      /\ \A i \in 1 .. attempt - 1 : tries'[i] = "transient"
  BY DEF IndInv, TypeOK, TriesInv, ConnectFails
<1>2. attempt \in 1 .. MaxAttempts /\ MaxAttempts \in Nat
  BY ServerConstantsOK DEF IndInv, TypeOK, ServerConstantsOK
<1>3. CASE kind = "permanent" \/ attempt = MaxAttempts
  <2>1. End("1")
    BY <1>3 DEF ConnectFails
  <2> QED BY <1>1, <1>2, <1>3, <2>1, EndOK DEF IndInv, TypeOK, ConnectFails
<1>4. CASE ~(kind = "permanent" \/ attempt = MaxAttempts)
  <2>1. phase' = "backoff" /\ UNCHANGED <<driver, serving, exit>>
    BY <1>4 DEF ConnectFails
  <2>2. TypeOK'
    BY <1>1, <2>1 DEF IndInv, TypeOK, ConnectFails, Phases, Startup, serving
  <2>3. TriesInv'
    BY <1>1, <1>2, <1>4, <2>1 DEF TriesInv, ConnectFails, Connected, IndInv, TypeOK
  <2>4. WaitInv'
    BY DEF IndInv, WaitInv, ConnectFails
  <2>5. SchemaInv' /\ DriverInv'
    BY <2>1 DEF IndInv, SchemaInv, DriverInv, ConnectFails, serving, Serving, Connected
  <2> QED BY <2>2, <2>3, <2>4, <2>5 DEF IndInv
<1> QED BY <1>3, <1>4

\* The wait adds what connectBackoff says.
LEMMA BackoffOverOK ==
    ASSUME IndInv, BackoffOver
    PROVE  IndInv'
<1>1. attempt \in Nat \ {0} /\ attempt < MaxAttempts /\ MaxAttempts \in Nat
  BY ServerConstantsOK DEF IndInv, TypeOK, TriesInv, BackoffOver, ServerConstantsOK
<1>2. /\ Backoff(attempt) \in Nat /\ 1 <= Backoff(attempt) /\ Backoff(attempt) <= MaxBackoff
      /\ Backoff(attempt) <= Shifted[attempt - 1]
      /\ Shifted[attempt] = 2 * Shifted[attempt - 1] /\ Shifted[attempt - 1] \in Nat
  BY <1>1, BackoffBounds
<1>3. MaxBackoff \in Nat /\ waited \in Nat
  BY ServerConstantsOK DEF ServerConstantsOK, IndInv, TypeOK
<1>4. TypeOK'
  BY <1>1, <1>2 DEF IndInv, TypeOK, BackoffOver, Phases, Startup, serving
<1>5. TriesInv'
  BY <1>1 DEF IndInv, TypeOK, TriesInv, BackoffOver, Connected
<1>6. WaitInv'
  <2>1. attempt' - 1 = attempt /\ waited' = waited + Backoff(attempt)
    BY <1>1 DEF BackoffOver
  <2>2. attempt * MaxBackoff = (attempt - 1) * MaxBackoff + MaxBackoff
    BY <1>1, <1>3
  <2>3. (attempt - 1) * MaxBackoff \in Nat
    BY <1>1, <1>3
  <2>4. attempt <= waited'
    BY <1>1, <1>2, <1>3, <2>1 DEF IndInv, WaitInv
  <2>5. waited' <= attempt * MaxBackoff
    BY <1>2, <1>3, <2>1, <2>2, <2>3 DEF IndInv, WaitInv
  <2>6. waited' < Shifted[attempt]
    BY <1>2, <1>3, <2>1 DEF IndInv, WaitInv
  <2> QED BY <2>1, <2>4, <2>5, <2>6 DEF WaitInv
<1>7. SchemaInv' /\ DriverInv'
  BY DEF IndInv, SchemaInv, DriverInv, BackoffOver, serving, Serving, Connected
<1> QED BY <1>4, <1>5, <1>6, <1>7 DEF IndInv

\* A statement makes sure that as many exist as this boot has executed.
LEMMA AppliedOK ==
    ASSUME IndInv, Applied, step < Statements
    PROVE  schema' \in 0 .. Statements /\ schema <= schema' /\ step + 1 <= schema'
BY ServerConstantsOK DEF IndInv, TypeOK, Applied, ServerConstantsOK

\* A statement more has been executed.
LEMMA BootstrapOK ==
    ASSUME IndInv, Bootstrap
    PROVE  IndInv'
<1>1. schema' \in 0 .. Statements /\ step + 1 <= schema'
  BY AppliedOK DEF Bootstrap
<1>2. TypeOK'
  BY <1>1, ServerConstantsOK DEF IndInv, TypeOK, Bootstrap, connecting, serving, ServerConstantsOK
<1>3. TriesInv' /\ WaitInv'
  BY ConnectingKept DEF Bootstrap
<1>4. SchemaInv' /\ DriverInv'
  BY <1>1 DEF IndInv, SchemaInv, DriverInv, Bootstrap, serving, Serving, Connected
<1> QED BY <1>2, <1>3, <1>4 DEF IndInv

\* A failing statement ends the process.
LEMMA BootstrapFailsOK ==
    ASSUME IndInv, NEW applied \in BOOLEAN, BootstrapFails(applied)
    PROVE  IndInv'
<1>1. schema' \in 0 .. Statements /\ schema <= schema'
  <2>1. CASE applied
    BY <2>1, AppliedOK DEF BootstrapFails
  <2>2. CASE ~applied
    BY <2>2 DEF BootstrapFails, IndInv, TypeOK
  <2> QED BY <2>1, <2>2
<1>2. Len(tries) = attempt /\ tries[Len(tries)] = "ok"
  BY DEF IndInv, TriesInv, BootstrapFails, Connected
<1> QED BY <1>1, <1>2, EndOK DEF IndInv, TypeOK, TriesInv, BootstrapFails, connecting

\* main goes on only behind the last statement.
LEMMA StartOK ==
    ASSUME IndInv, Start
    PROVE  IndInv'
<1>1. TypeOK'
  BY DEF IndInv, TypeOK, Start, Phases, Startup, connecting
<1>2. TriesInv' /\ WaitInv'
  BY ConnectingKept DEF Start, Connected
<1>3. SchemaInv' /\ DriverInv'
  BY DEF IndInv, SchemaInv, DriverInv, Start, Serving, Connected
<1> QED BY <1>1, <1>2, <1>3 DEF IndInv

\* Signals are caught from now on.
LEMMA NotifyOK ==
    ASSUME IndInv, Notify
    PROVE  IndInv'
<1>1. TypeOK'
  BY DEF IndInv, TypeOK, Notify, Phases, Startup, connecting, serving
<1>2. TriesInv' /\ WaitInv'
  BY ConnectingKept DEF Notify, connecting, Connected
<1>3. SchemaInv' /\ DriverInv'
  BY DEF IndInv, SchemaInv, DriverInv, Notify, connecting, serving, Serving, Connected
<1> QED BY <1>1, <1>2, <1>3 DEF IndInv

\* The port is bound.
LEMMA ListenOK ==
    ASSUME IndInv, Listen
    PROVE  IndInv'
<1>1. TypeOK'
  BY DEF IndInv, TypeOK, Listen, Phases, Startup, connecting, serving
<1>2. TriesInv' /\ WaitInv'
  BY ConnectingKept DEF Listen, connecting, Connected
<1>3. SchemaInv' /\ DriverInv'
  BY DEF IndInv, SchemaInv, DriverInv, Listen, connecting, serving, Serving, Connected
<1> QED BY <1>1, <1>2, <1>3 DEF IndInv

\* The port cannot be bound.
LEMMA ListenFailsOK ==
    ASSUME IndInv, ListenFails
    PROVE  IndInv'
<1>1. TypeOK'
  BY DEF IndInv, TypeOK, ListenFails, Phases, Startup, connecting, serving
<1>2. TriesInv' /\ WaitInv'
  BY ConnectingKept DEF ListenFails, connecting, Connected
<1>3. SchemaInv' /\ DriverInv'
  BY DEF IndInv, SchemaInv, DriverInv, ListenFails, connecting, serving, Serving, Connected
<1> QED BY <1>1, <1>2, <1>3 DEF IndInv

\* A request comes while the listener is open.
LEMMA AcceptOK ==
    ASSUME IndInv, NEW r \in Requests, Accept(r)
    PROVE  IndInv'
<1>1. TypeOK'
  BY DEF IndInv, TypeOK, Accept, Phases, Startup, connecting, serving
<1>2. TriesInv' /\ WaitInv'
  BY ConnectingKept DEF Accept, connecting, Connected
<1>3. SchemaInv' /\ DriverInv'
  BY DEF IndInv, SchemaInv, DriverInv, Accept, connecting, serving, Serving, Connected
<1> QED BY <1>1, <1>2, <1>3 DEF IndInv

\* A request ends.
LEMMA FinishOK ==
    ASSUME IndInv, NEW r \in Requests, Finish(r)
    PROVE  IndInv'
<1>1. TypeOK'
  BY DEF IndInv, TypeOK, Finish, Phases, Startup, connecting, serving
<1>2. TriesInv' /\ WaitInv'
  BY ConnectingKept DEF Finish, connecting, Connected
<1>3. SchemaInv' /\ DriverInv'
  BY DEF IndInv, SchemaInv, DriverInv, Finish, connecting, serving, Serving, Connected
<1> QED BY <1>1, <1>2, <1>3 DEF IndInv

\* The backfill ends.
LEMMA BackfillReturnsOK ==
    ASSUME IndInv, BackfillReturns
    PROVE  IndInv'
<1>1. TypeOK'
  BY DEF IndInv, TypeOK, BackfillReturns, Phases, Startup, connecting, serving
<1>2. TriesInv' /\ WaitInv'
  BY ConnectingKept DEF BackfillReturns, connecting, Connected
<1>3. SchemaInv' /\ DriverInv'
  BY DEF IndInv, SchemaInv, DriverInv, BackfillReturns, connecting, serving, Serving, Connected
<1> QED BY <1>1, <1>2, <1>3 DEF IndInv

\* The process is killed, whatever it was doing.
LEMMA KilledOK ==
    ASSUME IndInv, End("killed"), UNCHANGED <<connecting, step, schema, boots>>
    PROVE  IndInv'
BY EndOK DEF IndInv, TypeOK, TriesInv, connecting

\* A signal comes.
LEMMA SignalOK ==
    ASSUME IndInv, Signal
    PROVE  IndInv'
<1>1. CASE phase \in Startup
  BY <1>1, KilledOK DEF Signal
<1>2. CASE phase \notin Startup
  <2>1. TypeOK'
    BY <1>2 DEF IndInv, TypeOK, Signal, connecting
  <2>2. TriesInv' /\ WaitInv'
    BY <1>2, ConnectingKept DEF Signal
  <2>3. SchemaInv' /\ DriverInv'
    BY <1>2 DEF IndInv, SchemaInv, DriverInv, Signal, connecting, Serving, Connected
  <2> QED BY <2>1, <2>2, <2>3 DEF IndInv
<1> QED BY <1>1, <1>2

\* The process is killed.
LEMMA CrashOK ==
    ASSUME IndInv, Crash
    PROVE  IndInv'
BY KilledOK DEF Crash

\* Shutdown closes the listener first.
LEMMA ShutdownOK ==
    ASSUME IndInv, Shutdown
    PROVE  IndInv'
<1>1. TypeOK'
  BY DEF IndInv, TypeOK, Shutdown, Phases, Startup, connecting, serving
<1>2. TriesInv' /\ WaitInv'
  BY ConnectingKept DEF Shutdown, connecting, Connected
<1>3. SchemaInv' /\ DriverInv'
  BY DEF IndInv, SchemaInv, DriverInv, Shutdown, connecting, serving, Serving, Connected
<1> QED BY <1>1, <1>2, <1>3 DEF IndInv

\* No request is left.
LEMMA DrainedOK ==
    ASSUME IndInv, Drained
    PROVE  IndInv'
<1>1. TypeOK'
  BY DEF IndInv, TypeOK, Drained, Phases, Startup, connecting, serving
<1>2. TriesInv' /\ WaitInv'
  BY ConnectingKept DEF Drained, connecting, Connected
<1>3. SchemaInv' /\ DriverInv'
  BY DEF IndInv, SchemaInv, DriverInv, Drained, connecting, serving, Serving, Connected
<1> QED BY <1>1, <1>2, <1>3 DEF IndInv

\* Shutdown gives up waiting, and says so.
LEMMA DrainTimesOutOK ==
    ASSUME IndInv, DrainTimesOut
    PROVE  IndInv'
<1>1. TypeOK'
  BY DEF IndInv, TypeOK, DrainTimesOut, Phases, Startup, connecting, serving
<1>2. TriesInv' /\ WaitInv'
  BY ConnectingKept DEF DrainTimesOut, connecting, Connected
<1>3. SchemaInv' /\ DriverInv'
  BY DEF IndInv, SchemaInv, DriverInv, DrainTimesOut, connecting, serving, Serving, Connected
<1> QED BY <1>1, <1>2, <1>3 DEF IndInv

\* repo.Close comes after Shutdown.
LEMMA CloseOK ==
    ASSUME IndInv, Close
    PROVE  IndInv'
<1>1. TypeOK'
  BY DEF IndInv, TypeOK, Close, Phases, Startup, connecting, serving
<1>2. TriesInv' /\ WaitInv'
  BY ConnectingKept DEF Close, connecting, Connected
<1>3. SchemaInv' /\ DriverInv'
  BY DEF IndInv, SchemaInv, DriverInv, Close, connecting, serving, Serving, Connected
<1> QED BY <1>1, <1>2, <1>3 DEF IndInv

\* main returns.
LEMMA LeaveOK ==
    ASSUME IndInv, Leave
    PROVE  IndInv'
BY EndOK DEF IndInv, TypeOK, TriesInv, Leave, connecting

\* A new process finds the schema of the ones before.
LEMMA BootOK ==
    ASSUME IndInv, Boot
    PROVE  IndInv'
<1>1. TypeOK'
  BY ServerConstantsOK DEF IndInv, TypeOK, Boot, Phases, Startup, serving, ServerConstantsOK
<1>2. TriesInv'
  BY DEF TriesInv, Boot, Connected
<1>3. WaitInv'
  <2>1. attempt' - 1 = 0 /\ waited' = 0
    BY DEF Boot
  <2>2. 0 * MaxBackoff = 0 /\ Shifted[0] = 1
    BY ServerConstantsOK, ShiftedDoubles DEF ServerConstantsOK
  <2> QED BY <2>1, <2>2 DEF WaitInv
<1>4. SchemaInv' /\ DriverInv'
  BY DEF IndInv, TypeOK, SchemaInv, DriverInv, Boot, serving, Serving, Connected
<1> QED BY <1>1, <1>2, <1>3, <1>4 DEF IndInv

(***************************************************************************)
(* The theorems.                                                           *)
(***************************************************************************)
\* The invariant holds at the first boot.
LEMMA InitOK == Init => IndInv
<1> SUFFICES ASSUME Init PROVE IndInv
  OBVIOUS
<1>1. TypeOK
  <2>1. 1 \in 1 .. MaxAttempts /\ 0 \in 0 .. Statements
    BY ServerConstantsOK DEF ServerConstantsOK
  <2>2. {ctxDone, signalled, timedOut} \subseteq BOOLEAN /\ active \subseteq Requests
    BY DEF Init
  <2>3. tries \in Seq({"ok", "transient", "permanent"})
    BY DEF Init
  <2> QED BY <2>1, <2>2, <2>3 DEF Init, TypeOK, Phases, Startup
<1>2. TriesInv
  BY DEF Init, TriesInv, Connected
<1>3. WaitInv
  <2>1. attempt - 1 = 0 /\ waited = 0
    BY DEF Init
  <2>2. 0 * MaxBackoff = 0 /\ Shifted[0] = 1
    BY ServerConstantsOK, ShiftedDoubles DEF ServerConstantsOK
  <2> QED BY <2>1, <2>2 DEF WaitInv
<1>4. SchemaInv /\ DriverInv
  BY DEF Init, SchemaInv, DriverInv, Serving, Connected
<1> QED BY <1>1, <1>2, <1>3, <1>4 DEF IndInv

\* Every step keeps the invariant.
LEMMA StepOK == IndInv /\ [Next]_vars => IndInv'
<1> SUFFICES ASSUME IndInv, [Next]_vars PROVE IndInv'
  OBVIOUS
<1>1. CASE UNCHANGED vars
  BY <1>1 DEF vars, connecting, serving, IndInv, TypeOK, TriesInv, WaitInv, SchemaInv, DriverInv
<1>2. CASE Main
  BY <1>2, LoadFromEnvOK, ConnectOK, ConnectFailsOK, BackoffOverOK, BootstrapOK,
     BootstrapFailsOK, StartOK, NotifyOK, ShutdownOK, DrainedOK, DrainTimesOutOK,
     CloseOK, LeaveOK DEF Main
<1>3. CASE Listen \/ ListenFails \/ BackfillReturns
  BY <1>3, ListenOK, ListenFailsOK, BackfillReturnsOK
<1>4. CASE \E r \in Requests : Accept(r) \/ Finish(r)
  BY <1>4, AcceptOK, FinishOK
<1>5. CASE Signal \/ Crash \/ Boot
  BY <1>5, SignalOK, CrashOK, BootOK
<1> QED BY <1>1, <1>2, <1>3, <1>4, <1>5 DEF Next

\* The invariant holds in every reachable state.
THEOREM Inductive == Spec => []IndInv
BY InitOK, StepOK, PTL DEF Spec

\* Every variable keeps its type, over any number of boots.
THEOREM TypeCorrect == Spec => []TypeOK
BY Inductive, PTL DEF IndInv

\* connectWithBackoff retries only transient failures, at most MaxAttempts times,
\* and waits as long as connectBackoff promises, however many attempts there are.
THEOREM ConnectsAsPromised == Spec => []ConnectPolicy
<1>1. ASSUME IndInv PROVE ConnectPolicy
  <2>1. Len(tries) <= MaxAttempts
    BY <1>1, ServerConstantsOK DEF IndInv, TypeOK, TriesInv, ServerConstantsOK
  <2>2. WaitInv
    BY <1>1 DEF IndInv
  <2> QED BY <1>1, <2>1, <2>2 DEF IndInv, TriesInv, WaitInv, ConnectPolicy
<1> QED BY <1>1, Inductive, PTL

\* main serves no request and backfills nothing before all statements of
\* Bootstrap have been executed, in whatever boots.
THEOREM ServesTheWholeSchema == Spec => []SchemaBeforeUse
<1>1. IndInv => SchemaBeforeUse
  BY ServerConstantsOK DEF IndInv, TypeOK, SchemaInv, SchemaBeforeUse, ServerConstantsOK
<1> QED BY <1>1, Inductive, PTL

\* The deferred repo.Close comes under a request only after Shutdown has waited
\* in vain.
THEOREM DriverStays == Spec => []DriverOutlivesRequests
<1>1. IndInv => DriverOutlivesRequests
  BY DEF IndInv, TypeOK, SchemaInv, DriverInv, DriverOutlivesRequests, Serving, Connected
<1> QED BY <1>1, Inductive, PTL
=============================================================================
