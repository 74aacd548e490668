----------------------------- MODULE ProviderRun -----------------------------
(***************************************************************************)
(* The sessions a run of the program holds in vCenter: the one of the      *)
(* client, from govmomi.NewClient to the deferred Logout, and those of the *)
(* automation API that a deployment or an attachment of tags opens next to *)
(* it.  A run ends with a configuration that is not complete, a start that *)
(* fails, an error of the Omni client, a signal or a kill, and is started  *)
(* again.  EnsureSession is one step here; module Session has its calls.   *)
(*                                                                         *)
(* govmomi's keep-alive handler is external: from a Login that goes through*)
(* it to a Logout or a ping that fails, it pings every Interval ticks.     *)
(* vCenter ends a session after IdleLimit ticks without a call.            *)
(***************************************************************************)
EXTENDS Naturals, FiniteSets

CONSTANTS
  Settings,   \* flags, and fields of the configuration file, the program requires
  Workers,    \* workers of machine requests
  Interval,   \* ticks between two pings
  IdleLimit,  \* ticks a session may be idle
  MaxRuns,    \* bound: starts of the program
  MaxFaults   \* bound: calls that fail, sessions vCenter ends

ASSUME WorkersAssumption == IsFiniteSet(Workers)
ASSUME TimesAssumption == Interval \in Nat /\ IdleLimit \in Nat /\ Interval < IdleLimit
ASSUME BoundsAssumption == MaxRuns \in Nat /\ MaxFaults \in Nat

VARIABLES
  pc,         \* where the program is
  signalled,  \* the context of the command is cancelled
  session,    \* the session of the client
  ticker,     \* the keep-alive handler pings
  due,        \* ticks to the next ping
  idle,       \* ticks since the last call of the session
  broken,     \* since the last login a call of the keep-alive has failed
  rest,       \* workers with a session of the automation API
  left,       \* sessions left behind so far
  cut,        \* sessions that were cut off by a signal, a kill or a call that failed
  runs,       \* starts so far
  faults      \* faults so far

keepAlive == <<ticker, due, idle, broken>>
tally == <<left, cut>>
vars == <<pc, signalled, session, keepAlive, rest, tally, runs, faults>>

\* first: of NewClient; again: of a later login; idled: vCenter has ended it.
Live == {"first", "again"}

One(condition) == IF condition THEN 1 ELSE 0

\* Sessions of this run that are open.
Open == One(session \in Live) + Cardinality(rest)

\* Type correctness.
TypeOK ==
  /\ pc \in {"down", "connect", "verify", "run", "logout"}
  /\ signalled \in BOOLEAN
  /\ session \in Live \union {"none", "idled"}
  /\ ticker \in BOOLEAN /\ broken \in BOOLEAN
  /\ due \in 0..Interval
  /\ idle \in 0..IdleLimit
  /\ rest \subseteq Workers
  /\ left \in Nat /\ cut \in Nat
  /\ runs \in 0..MaxRuns
  /\ faults \in 0..MaxFaults

Init ==
  /\ pc = "down"
  /\ signalled = FALSE
  /\ session = "none"
  /\ ticker = FALSE /\ due = 0 /\ idle = 0 /\ broken = FALSE
  /\ rest = {}
  /\ left = 0 /\ cut = 0
  /\ runs = 0
  /\ faults = 0

Fault == faults < MaxFaults /\ faults' = faults + 1

NoTicker == ticker' = FALSE /\ due' = 0

\* The process is over, and its handler with it.
Down ==
  /\ pc' = "down"
  /\ signalled' = FALSE
  /\ session' = "none"
  /\ NoTicker /\ idle' = 0 /\ broken' = FALSE

-----------------------------------------------------------------------------
(***************************************************************************)
(* Start.                                                                  *)
(***************************************************************************)

\* Flags and file are checked before vCenter is called.
Configure(given) ==
  /\ pc = "down"
  /\ runs < MaxRuns
  /\ runs' = runs + 1
  /\ pc' = IF given = Settings THEN "connect" ELSE "down"
  /\ UNCHANGED <<signalled, session, keepAlive, rest, tally, faults>>

\* The login of NewClient: there is no handler yet.
Connect ==
  /\ pc = "connect" /\ ~signalled
  /\ pc' = "verify"
  /\ session' = "first"
  /\ UNCHANGED <<signalled, keepAlive, rest, tally, runs, faults>>

ConnectFails ==
  /\ pc = "connect"
  /\ (signalled /\ UNCHANGED faults) \/ Fault
  /\ Down
  /\ UNCHANGED <<rest, tally, runs>>

\* UserSession answers without an error whether there is a session or not.
Verify ==
  /\ pc = "verify" /\ ~signalled
  /\ pc' = "run"
  /\ UNCHANGED <<signalled, session, keepAlive, rest, tally, runs, faults>>

\* Faulty variant of VerifyFails: it returns before Logout is deferred.
VerifyFailsUndeferred ==
  /\ pc = "verify"
  /\ (signalled /\ UNCHANGED faults) \/ Fault
  /\ left' = left + One(session \in Live)
  /\ Down
  /\ UNCHANGED <<cut, rest, runs>>

VerifyFails ==
  /\ pc = "verify"
  /\ (signalled /\ UNCHANGED faults) \/ Fault
  /\ pc' = "logout"
  /\ UNCHANGED <<signalled, session, keepAlive, rest, tally, runs>>

-----------------------------------------------------------------------------
(***************************************************************************)
(* The session of the client.                                              *)
(***************************************************************************)

SessionActive ==
  /\ pc = "run" /\ ~signalled
  /\ session \in Live
  /\ idle' = 0
  /\ UNCHANGED <<pc, signalled, session, ticker, due, broken, rest, tally, runs, faults>>

\* Faulty variant of LoggedIn: the login does not go through the handler.
LoggedInDirectly ==
  /\ session' = "again"
  /\ idle' = 0 /\ broken' = FALSE
  /\ NoTicker

\* Faulty variant of LoggedIn: the handler has twice the interval.
LoggedInSlow ==
  /\ session' = "again"
  /\ idle' = 0 /\ broken' = FALSE
  /\ ticker' = TRUE /\ due' = 2 * Interval

\* A login through the handler.
LoggedIn ==
  /\ session' = "again"
  /\ idle' = 0 /\ broken' = FALSE
  /\ ticker' = TRUE /\ due' = Interval

Relogin ==
  /\ pc = "run" /\ ~signalled
  /\ session \notin Live
  /\ LoggedIn
  /\ UNCHANGED <<pc, signalled, rest, tally, runs, faults>>

\* The check fails over a session that is active: it is ended and replaced, or
\* the login fails as well; or Logout stops the handler and fails, and the login
\* over the active session is refused.
CheckFails ==
  /\ pc = "run" /\ ~signalled
  /\ session \in Live
  /\ Fault
  /\ \/ LoggedIn
     \/ session' = "none" /\ idle' = 0 /\ broken' = TRUE /\ NoTicker
     \/ broken' = TRUE /\ NoTicker /\ UNCHANGED <<session, idle>>
  /\ UNCHANGED <<pc, signalled, rest, tally, runs>>

\* Every call of ensureSession fails; the handler stops before the Logout.
EnsureCancelled ==
  /\ pc = "run" /\ signalled
  /\ NoTicker /\ broken' = TRUE
  /\ UNCHANGED <<pc, signalled, session, idle, rest, tally, runs, faults>>

Tick ==
  /\ session \in Live
  /\ idle < IdleLimit
  /\ ticker => due > 0
  /\ idle' = idle + 1
  /\ due' = IF ticker THEN due - 1 ELSE due
  /\ UNCHANGED <<pc, signalled, session, ticker, broken, rest, tally, runs, faults>>

\* The ping does not use the context of the command.
Ping ==
  /\ ticker /\ due = 0
  /\ IF session \in Live
     THEN idle' = 0 /\ due' = Interval /\ UNCHANGED <<ticker, broken>>
     ELSE NoTicker /\ broken' = TRUE /\ UNCHANGED idle
  /\ UNCHANGED <<pc, signalled, session, rest, tally, runs, faults>>

\* The handler gives up; nothing starts it again before the next login.
PingFails ==
  /\ ticker /\ due = 0
  /\ Fault
  /\ NoTicker /\ broken' = TRUE
  /\ UNCHANGED <<pc, signalled, session, idle, rest, tally, runs>>

IdleOut ==
  /\ session \in Live
  /\ idle = IdleLimit
  /\ session' = "idled"
  /\ UNCHANGED <<pc, signalled, keepAlive, rest, tally, runs, faults>>

\* vCenter is restarted.
Ended ==
  /\ session \in Live
  /\ Fault
  /\ session' = "none"
  /\ UNCHANGED <<pc, signalled, keepAlive, rest, tally, runs>>

-----------------------------------------------------------------------------
(***************************************************************************)
(* The sessions of the automation API.                                     *)
(***************************************************************************)

RestLogin(w) ==
  /\ pc = "run" /\ ~signalled
  /\ w \notin rest
  /\ rest' = rest \union {w}
  /\ UNCHANGED <<pc, signalled, session, keepAlive, tally, runs, faults>>

\* Deferred: whatever the operation came to.
RestLogout(w) ==
  /\ pc = "run"
  /\ w \in rest
  /\ rest' = rest \ {w}
  /\ left' = left + One(signalled)
  /\ UNCHANGED <<pc, signalled, session, keepAlive, cut, runs, faults>>

RestLogoutFails(w) ==
  /\ pc = "run" /\ ~signalled
  /\ w \in rest
  /\ Fault
  /\ rest' = rest \ {w}
  /\ left' = left + 1 /\ cut' = cut + 1
  /\ UNCHANGED <<pc, signalled, session, keepAlive, runs>>

-----------------------------------------------------------------------------
(***************************************************************************)
(* The end.                                                                *)
(***************************************************************************)

Signal ==
  /\ pc # "down"
  /\ ~signalled
  /\ signalled' = TRUE
  /\ cut' = cut + Open
  /\ UNCHANGED <<pc, session, keepAlive, rest, left, runs, faults>>

\* Run returns and has cancelled what the workers were doing.
RunReturns ==
  /\ pc = "run"
  /\ pc' = "logout"
  /\ (signalled /\ UNCHANGED faults) \/ Fault
  /\ rest' = {}
  /\ left' = left + Cardinality(rest)
  /\ cut' = IF signalled THEN cut ELSE cut + Cardinality(rest)
  /\ UNCHANGED <<signalled, session, keepAlive, runs>>

\* The deferred Logout has the context of the command.
Logout ==
  /\ pc = "logout"
  /\ left' = left + One(signalled /\ session \in Live)
  /\ Down
  /\ UNCHANGED <<rest, cut, runs, faults>>

LogoutFails ==
  /\ pc = "logout" /\ ~signalled
  /\ session \in Live
  /\ Fault
  /\ left' = left + 1 /\ cut' = cut + 1
  /\ Down
  /\ UNCHANGED <<rest, runs>>

Kill ==
  /\ pc # "down"
  /\ Fault
  /\ left' = left + Open
  /\ cut' = IF signalled THEN cut ELSE cut + Open
  /\ rest' = {}
  /\ Down
  /\ UNCHANGED runs

Finished == pc = "down" /\ runs = MaxRuns /\ UNCHANGED vars

Start == (\E given \in SUBSET Settings : Configure(given)) \/ Connect \/ ConnectFails \/ Verify \/ VerifyFails
Client ==
  \/ SessionActive \/ Relogin \/ CheckFails \/ EnsureCancelled
  \/ Tick \/ Ping \/ PingFails \/ IdleOut \/ Ended
Automation == \E w \in Workers : RestLogin(w) \/ RestLogout(w) \/ RestLogoutFails(w)
End == Signal \/ RunReturns \/ Logout \/ LogoutFails \/ Kill

Next == Start \/ Client \/ Automation \/ End \/ Finished

Spec == Init /\ [][Next]_vars
-----------------------------------------------------------------------------

\* The program logs out of whatever it logged in to, also when its start fails
\* half way: the sessions it leaves behind over all its runs are those open when
\* a signal or a kill came, or whose Logout failed.
LeftOnlyWhenCut == left + (IF signalled THEN Open ELSE 0) <= cut

\* A session that ensureSession has opened does not idle out while the program
\* runs, unless a call of the keep-alive failed since.
KeptAlive == [][session = "again" /\ session' = "idled" => broken]_vars
=============================================================================
