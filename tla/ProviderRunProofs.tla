-------------------------- MODULE ProviderRunProofs --------------------------
(***************************************************************************)
(* Theorems of ProviderRun, for every number of workers, runs and faults   *)
(* and for every interval that is shorter than the idle limit.             *)
(***************************************************************************)
EXTENDS ProviderRun, FiniteSetTheorems, TLAPS

\* A session that is kept alive has been idle for as long as the ping is due to
\* come, at most.
Kept == session = "again" /\ ~broken => ticker /\ idle + due <= Interval

\* What was counted as cut off covers what is left and what still will be.
Accounted == LeftOnlyWhenCut

IInv == TypeOK /\ Kept /\ Accounted

\* TypeOK in two parts, one for each of the provers.
Flags == signalled \in BOOLEAN /\ ticker \in BOOLEAN /\ broken \in BOOLEAN
Others ==
  /\ pc \in {"down", "connect", "verify", "run", "logout"}
  /\ session \in Live \union {"none", "idled"}
  /\ due \in 0..Interval
  /\ idle \in 0..IdleLimit
  /\ rest \subseteq Workers
  /\ left \in Nat /\ cut \in Nat
  /\ runs \in 0..MaxRuns
  /\ faults \in 0..MaxFaults

\* The parts are the whole.
LEMMA TypeParts == TypeOK <=> Flags /\ Others
  BY Zenon DEF TypeOK, Flags, Others

\* The workers with a session can be counted.
LEMMA RestCounted ==
  ASSUME NEW S, S \subseteq Workers
  PROVE  IsFiniteSet(S) /\ Cardinality(S) \in Nat
  BY WorkersAssumption, FS_Subset, FS_CardinalityType

\* One worker less is one session less.
LEMMA RestRemoved ==
  ASSUME NEW S, S \subseteq Workers, NEW w \in S
  PROVE  Cardinality(S \ {w}) = Cardinality(S) - 1
  BY RestCounted, FS_RemoveElement

\* Initial states are typed.
LEMMA InitTyped == Init => TypeOK
  <1>1. Init => Flags BY Zenon DEF Init, Flags
  <1>2. Init => Others BY TimesAssumption, BoundsAssumption DEF Init, Others, Live
  <1> QED BY <1>1, <1>2, TypeParts

\* A flag is left alone or set to a constant.
LEMMA NextFlags == Flags /\ [Next]_vars => Flags'
  <1> SUFFICES ASSUME Flags, [Next]_vars PROVE Flags' OBVIOUS
  <1> USE DEF Flags, keepAlive, tally
  <1>1. CASE Start
    BY <1>1, Zenon DEF Start, Configure, Connect, ConnectFails, Verify, VerifyFails, Down, NoTicker
  <1>2. CASE Client
    <2>1. CASE Ping BY <2>1, Zenon DEF Ping, NoTicker
    <2>2. CASE CheckFails BY <2>2, Zenon DEF CheckFails, LoggedIn, NoTicker
    <2>3. CASE ~Ping /\ ~CheckFails
      BY <1>2, <2>3, Zenon DEF Client, SessionActive, Relogin, EnsureCancelled, Tick, PingFails,
                               IdleOut, Ended, LoggedIn, NoTicker
    <2> QED BY <2>1, <2>2, <2>3
  <1>3. CASE Automation BY <1>3, Zenon DEF Automation, RestLogin, RestLogout, RestLogoutFails
  <1>4. CASE End
    BY <1>4, Zenon DEF End, Signal, RunReturns, Logout, LogoutFails, Kill, Down, NoTicker
  <1>5. CASE Finished \/ UNCHANGED vars BY <1>5, Zenon DEF Finished, vars
  <1> QED BY <1>1, <1>2, <1>3, <1>4, <1>5 DEF Next

\* Steps of the start keep the types.
LEMMA StartTyped == Others /\ Start => Others'
  <1> SUFFICES ASSUME Others, Start PROVE Others' OBVIOUS
  <1> USE TimesAssumption, BoundsAssumption DEF Others, Live, keepAlive, tally
  <1>1. CASE \E given \in SUBSET Settings : Configure(given) BY <1>1 DEF Configure
  <1>2. CASE Connect BY <1>2 DEF Connect
  <1>3. CASE ConnectFails BY <1>3 DEF ConnectFails, Down, NoTicker, Fault
  <1>4. CASE Verify BY <1>4 DEF Verify
  <1>5. CASE VerifyFails BY <1>5 DEF VerifyFails, Fault
  <1> QED BY <1>1, <1>2, <1>3, <1>4, <1>5 DEF Start

\* Steps of the client and of time keep the types.
LEMMA ClientTyped == Others /\ Client => Others'
  <1> SUFFICES ASSUME Others, Client PROVE Others' OBVIOUS
  <1> USE TimesAssumption, BoundsAssumption DEF Others, Live, keepAlive, tally
  <1>1. CASE SessionActive BY <1>1 DEF SessionActive
  <1>2. CASE Relogin BY <1>2 DEF Relogin, LoggedIn
  <1>3. CASE CheckFails BY <1>3 DEF CheckFails, LoggedIn, NoTicker, Fault
  <1>4. CASE EnsureCancelled BY <1>4 DEF EnsureCancelled, NoTicker
  <1>5. CASE Tick BY <1>5 DEF Tick
  <1>6. CASE Ping
    <2>1. due' \in {0, Interval} /\ idle' \in {0, idle} BY <1>6 DEF Ping, NoTicker
    <2> QED BY <1>6, <2>1 DEF Ping
  <1>7. CASE PingFails BY <1>7 DEF PingFails, NoTicker, Fault
  <1>8. CASE IdleOut BY <1>8 DEF IdleOut
  <1>9. CASE Ended BY <1>9 DEF Ended, Fault
  <1> QED BY <1>1, <1>2, <1>3, <1>4, <1>5, <1>6, <1>7, <1>8, <1>9 DEF Client

\* Steps of the automation API keep the types.
LEMMA AutomationTyped == Others /\ Automation => Others'
  <1> SUFFICES ASSUME Others, NEW w \in Workers,
                      RestLogin(w) \/ RestLogout(w) \/ RestLogoutFails(w)
               PROVE  Others'
    BY DEF Automation
  <1> USE TimesAssumption, BoundsAssumption DEF Others, Live, keepAlive, tally
  <1>1. CASE RestLogin(w) BY <1>1 DEF RestLogin
  <1>2. CASE RestLogout(w) BY <1>2 DEF RestLogout, One
  <1>3. CASE RestLogoutFails(w) BY <1>3 DEF RestLogoutFails, Fault
  <1> QED BY <1>1, <1>2, <1>3

\* Steps of the end keep the types.
LEMMA EndTyped == Others /\ End => Others'
  <1> SUFFICES ASSUME Others, End PROVE Others' OBVIOUS
  <1> USE TimesAssumption, BoundsAssumption DEF Others, Live, keepAlive, tally
  <1> Cardinality(rest) \in Nat /\ Open \in Nat BY RestCounted DEF Open, One
  <1>1. CASE Signal BY <1>1 DEF Signal
  <1>2. CASE RunReturns BY <1>2 DEF RunReturns, Fault
  <1>3. CASE Logout BY <1>3 DEF Logout, Down, NoTicker, One
  <1>4. CASE LogoutFails BY <1>4 DEF LogoutFails, Down, NoTicker, Fault
  <1>5. CASE Kill BY <1>5 DEF Kill, Down, NoTicker, Fault
  <1> QED BY <1>1, <1>2, <1>3, <1>4, <1>5 DEF End

\* Every step keeps the types.
LEMMA NextTyped == TypeOK /\ [Next]_vars => TypeOK'
  <1> SUFFICES ASSUME Flags, Others, [Next]_vars PROVE TypeOK' BY TypeParts
  <1>1. Flags' BY NextFlags
  <1>2. Others'
    <2>1. CASE UNCHANGED vars BY <2>1 DEF Others, vars, keepAlive, tally
    <2>2. CASE Finished BY <2>1, <2>2 DEF Finished
    <2> QED BY <2>1, <2>2, StartTyped, ClientTyped, AutomationTyped, EndTyped DEF Next
  <1> QED BY <1>1, <1>2, TypeParts DEF TypeOK, Flags, Others

\* The interval is counted from the last ping: calls only make the session less
\* idle, and time takes from one what it adds to the other.
LEMMA NextKept == TypeOK /\ Kept /\ [Next]_vars => Kept'
  <1> SUFFICES ASSUME TypeOK, Kept, [Next]_vars PROVE Kept' OBVIOUS
  <1> USE TimesAssumption DEF Kept, keepAlive
  <1>1. CASE Start
    BY <1>1 DEF Start, Configure, Connect, ConnectFails, Verify, VerifyFails, Down, NoTicker
  <1>2. CASE Client
    <2> USE DEF TypeOK
    <2>1. CASE SessionActive BY <2>1 DEF SessionActive
    <2>2. CASE Relogin BY <2>2 DEF Relogin, LoggedIn
    <2>3. CASE CheckFails BY <2>3 DEF CheckFails, LoggedIn, NoTicker
    <2>4. CASE EnsureCancelled BY <2>4 DEF EnsureCancelled, NoTicker
    <2>5. CASE Tick BY <2>5 DEF Tick
    <2>6. CASE Ping BY <2>6 DEF Ping, NoTicker
    <2>7. CASE PingFails BY <2>7 DEF PingFails, NoTicker
    <2>8. CASE IdleOut BY <2>8 DEF IdleOut
    <2>9. CASE Ended BY <2>9 DEF Ended
    <2> QED BY <1>2, <2>1, <2>2, <2>3, <2>4, <2>5, <2>6, <2>7, <2>8, <2>9 DEF Client
  <1>3. CASE Automation BY <1>3 DEF Automation, RestLogin, RestLogout, RestLogoutFails
  <1>4. CASE End
    BY <1>4 DEF End, Signal, RunReturns, Logout, LogoutFails, Kill, Down, NoTicker
  <1>5. CASE Finished \/ UNCHANGED vars BY <1>5 DEF Finished, vars
  <1> QED BY <1>1, <1>2, <1>3, <1>4, <1>5 DEF Next

\* The account: what a signal or a kill finds open is counted as cut off, and
\* after a signal nothing is opened any more.
LEMMA NextAccounted == TypeOK /\ Accounted /\ [Next]_vars => Accounted'
  <1> SUFFICES ASSUME TypeOK, Accounted, [Next]_vars PROVE Accounted' OBVIOUS
  <1> USE DEF Accounted, LeftOnlyWhenCut, Open, One, keepAlive, tally
  <1>t. /\ left \in Nat /\ cut \in Nat /\ signalled \in BOOLEAN
        /\ rest \subseteq Workers /\ Cardinality(rest) \in Nat
    BY RestCounted DEF TypeOK
  <1>1. CASE Start
    BY <1>t, <1>1 DEF Start, Configure, Connect, ConnectFails, Verify, VerifyFails, Down
  <1>2. CASE Client
    BY <1>t, <1>2 DEF Client, SessionActive, Relogin, CheckFails, EnsureCancelled, Tick, Ping,
                      PingFails, IdleOut, Ended, LoggedIn, Live
  <1>3. CASE Automation
    <2> PICK w \in Workers : RestLogin(w) \/ RestLogout(w) \/ RestLogoutFails(w)
      BY <1>3 DEF Automation
    <2>1. CASE RestLogin(w) BY <1>t, <2>1 DEF RestLogin
    <2>2. CASE RestLogout(w)
      <3>1. Cardinality(rest') = Cardinality(rest) - 1 BY <1>t, <2>2, RestRemoved DEF RestLogout
      <3> QED BY <1>t, <2>2, <3>1 DEF RestLogout
    <2>3. CASE RestLogoutFails(w) BY <1>t, <2>3 DEF RestLogoutFails
    <2> QED BY <2>1, <2>2, <2>3
  <1>4. CASE End
    <2>0. Cardinality({}) = 0 BY FS_EmptySet
    <2>1. CASE Signal BY <1>t, <2>1 DEF Signal
    <2>2. CASE RunReturns BY <1>t, <2>0, <2>2 DEF RunReturns
    <2>3. CASE Logout BY <1>t, <2>3 DEF Logout, Down
    <2>4. CASE LogoutFails BY <1>t, <2>4 DEF LogoutFails, Down
    <2>5. CASE Kill BY <1>t, <2>5 DEF Kill, Down
    <2> QED BY <1>4, <2>1, <2>2, <2>3, <2>4, <2>5 DEF End
  <1>5. CASE Finished \/ UNCHANGED vars BY <1>5 DEF Finished, vars
  <1> QED BY <1>1, <1>2, <1>3, <1>4, <1>5 DEF Next

\* The inductive invariant.
THEOREM Invariance == Spec => []IInv
  <1>1. Init => IInv
    BY InitTyped DEF Init, IInv, Kept, Accounted, LeftOnlyWhenCut
  <1>2. IInv /\ [Next]_vars => IInv' BY NextTyped, NextKept, NextAccounted DEF IInv
  <1> QED BY <1>1, <1>2, PTL DEF Spec

\* A run of the program is at one of its stages and its counters within bounds.
THEOREM TypeCorrect == Spec => []TypeOK
  <1>1. IInv => TypeOK BY DEF IInv
  <1> QED BY <1>1, Invariance, PTL

\* main.go:113, tags.go:115, content_library.go:46: the program logs out of what
\* it logged in to but for what a signal, a kill or a failed Logout cuts off.
THEOREM LoggedOut == Spec => []LeftOnlyWhenCut
  <1>1. IInv => LeftOnlyWhenCut BY DEF IInv, Accounted
  <1> QED BY <1>1, Invariance, PTL

\* main.go:125: the session of a login through the handler does not idle out
\* while the pings get through.
THEOREM PingsKeep == Spec => KeptAlive
  <1>1. IInv /\ [Next]_vars => [session = "again" /\ session' = "idled" => broken]_vars
    <2> SUFFICES ASSUME IInv, Next, session = "again", session' = "idled", ~broken PROVE FALSE
      BY DEF vars, keepAlive, tally
    <2>1. idle <= Interval /\ idle \in Nat /\ due \in Nat
      BY TimesAssumption DEF IInv, Kept, TypeOK
    <2>2. CASE IdleOut BY <2>1, <2>2, TimesAssumption DEF IdleOut
    <2>3. session' # "idled" \/ session' = session \/ IdleOut
      BY DEF Next, Start, Client, Automation, End, Finished, vars, Configure, Connect, ConnectFails,
             Verify, VerifyFails, Down, SessionActive, Relogin, CheckFails, LoggedIn,
             EnsureCancelled, Tick, Ping, PingFails, Ended, RestLogin, RestLogout,
             RestLogoutFails, Signal, RunReturns, Logout, LogoutFails, Kill
    <2> QED BY <2>2, <2>3
  <1> QED BY <1>1, Invariance, PTL DEF Spec, KeptAlive
=============================================================================
