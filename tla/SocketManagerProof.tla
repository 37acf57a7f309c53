------------------------- MODULE SocketManagerProof -------------------------
(***************************************************************************)
(* What the socket manager guarantees for any number of callers, features, *)
(* events and tokens.  IndInv is inductive; the properties follow from it, *)
(* and so does the refinement of ConnectionService.                        *)
(***************************************************************************)
EXTENDS SocketManager, TLAPS

\* Nothing has happened to a socket.
Untouched(s) ==
    /\ net[s] = "off"
    /\ s \notin internal \cup guard
    /\ awaiting[s] = {}
    /\ \A f \in Features : s \notin listening[f]

\* Only the current socket is alive; the first is replaced before the manager
\* is published, by a fallback that has no fallback handler itself.
SocketsInv ==
    /\ current = "msgpack" => Untouched("plain")
    /\ current = "plain" => /\ Untouched("msgpack")
                            /\ guard = {}
                            /\ boot \in {"init", "failed"}
    /\ boot \in {"start", "absent"} => Untouched("msgpack") /\ ~registered
    /\ boot = "published" => guard = {}

\* The handlers are registered together, on the current socket, from the start
\* of init to disconnect; init waits on the first socket only.
HandlersInv ==
    /\ registered <=> current \in internal
    /\ registered => Connection \in tracked
    /\ boot \in {"init", "failed"} => registered
    /\ Boot \in awaiting[current] => boot = "init" /\ current = "msgpack"

\* The calls exist once the manager is published.
CallsInv ==
    /\ boot # "published" =>
         promise = None /\ \A c \in Callers : call[c] \notin Waiting
    /\ CallersShareOneAttempt

\* Features attach once the manager is published.
ListenersInv ==
    /\ boot # "published" => \A f \in Features : listening[f] = {}
    /\ ListenersAreTracked

IndInv ==
    /\ TypeOK
    /\ SocketsInv
    /\ HandlersInv
    /\ ConnectedIsTrue
    /\ CallsInv
    /\ ListenersInv

-----------------------------------------------------------------------------

\* The handlers' and callers' names are told apart.
LEMMA Names ==
    /\ Boot # Fallback
    /\ None \notin Callers /\ Boot \notin Callers /\ Fallback \notin Callers
    /\ None # Boot /\ None # Fallback
    /\ \A f \in Features : EventOf[f] \in Events /\ EventOf[f] # Connection
BY ConstantsAssumption DEF ConstantsAssumption, Boot, Fallback

\* At the start nothing is connected, registered or waited for.
LEMMA InitInv == Init => IndInv
<1> SUFFICES ASSUME Init PROVE IndInv
  OBVIOUS
<1> USE Names DEF Init, Sockets, Waiting
<1>1. TypeOK
  BY DEF TypeOK
<1>2. SocketsInv /\ HandlersInv /\ ConnectedIsTrue
  BY DEF SocketsInv, Untouched, HandlersInv, ConnectedIsTrue
<1>3. CallsInv /\ ListenersInv
  BY DEF CallsInv, CallersShareOneAttempt, ListenersInv, ListenersAreTracked
<1> QED BY <1>1, <1>2, <1>3 DEF IndInv

\* A session event changes tokens only.
LEMMA SessionKeeps ==
    ASSUME IndInv,
           \/ \E t \in Tokens : SignedIn(t) \/ TokenRefreshed(t)
           \/ SignedOut
    PROVE  IndInv'
<1> USE DEF sessionVars, flags, handlers, calls, features
<1> DEFINE TokensTyped ==
        /\ session' \in Tokens \cup {None}
        /\ token' \in Tokens \cup {None}
        /\ auth' \in [Sockets -> Tokens \cup {None}]
<1>1. UNCHANGED <<boot, current, net, flags, fallback, handlers, awaiting,
                  calls, features>>
  BY DEF SignedIn, TokenRefreshed, SignedOut
<1>2. TokensTyped
  <2>1. CASE SignedOut
    BY <2>1 DEF SignedOut, IndInv, TypeOK
  <2>2. ASSUME NEW t \in Tokens, SignedIn(t) \/ TokenRefreshed(t)
        PROVE  TokensTyped
    BY <2>2 DEF SignedIn, TokenRefreshed, IndInv, TypeOK
  <2> QED BY <2>1, <2>2
<1>3. TypeOK'
  BY <1>1, <1>2 DEF IndInv, TypeOK
<1> QED
  BY <1>1, <1>3 DEF IndInv, SocketsInv, Untouched, HandlersInv,
    ConnectedIsTrue, CallsInv, CallersShareOneAttempt, ListenersInv,
    ListenersAreTracked

\* Boot registers the handlers on a socket that nothing has touched.
LEMMA BootKeeps ==
    ASSUME IndInv, BootWithoutSession \/ BootWithSession
    PROVE  IndInv'
<1> USE Names DEF sessionVars, flags, handlers, calls, features, Sockets,
    Waiting
<1>1. CASE BootWithoutSession
  BY <1>1 DEF BootWithoutSession, IndInv, TypeOK, SocketsInv, Untouched,
    HandlersInv, ConnectedIsTrue, CallsInv, CallersShareOneAttempt,
    ListenersInv, ListenersAreTracked
<1>2. CASE BootWithSession
  <2> USE <1>2 DEF BootWithSession, Connecting
  <2>0. current = "msgpack"
    BY DEF IndInv, TypeOK, SocketsInv
  <2>1. TypeOK'
    BY DEF IndInv, TypeOK
  <2>2. SocketsInv'
    BY <2>0 DEF IndInv, TypeOK, SocketsInv, Untouched
  <2>3. HandlersInv'
    BY <2>0 DEF IndInv, TypeOK, HandlersInv
  <2>4. ConnectedIsTrue'
    BY <2>0 DEF IndInv, TypeOK, ConnectedIsTrue, SocketsInv, Untouched
  <2>5. CallsInv' /\ ListenersInv'
    BY DEF IndInv, TypeOK, CallsInv, CallersShareOneAttempt, ListenersInv,
      ListenersAreTracked
  <2> QED BY <2>1, <2>2, <2>3, <2>4, <2>5 DEF IndInv
<1> QED BY <1>1, <1>2

\* disconnect leaves no listener and no flag; calls stay with their timers.
LEMMA DisconnectKeeps ==
    ASSUME IndInv, Disconnect
    PROVE  IndInv'
<1> USE Names DEF Disconnect, sessionVars, flags, handlers, calls, features,
    Sockets, Waiting, Silenced
<1>1. TypeOK'
  BY DEF IndInv, TypeOK
<1>2. SocketsInv'
  BY DEF IndInv, TypeOK, SocketsInv, Untouched
<1>3. HandlersInv'
  BY DEF IndInv, TypeOK, HandlersInv
<1>4. ConnectedIsTrue'
  BY DEF IndInv, TypeOK, ConnectedIsTrue
<1>5. CallsInv'
  BY DEF IndInv, TypeOK, CallsInv, CallersShareOneAttempt
<1>6. ListenersInv'
  BY DEF IndInv, TypeOK, ListenersInv, ListenersAreTracked
<1> QED BY <1>1, <1>2, <1>3, <1>4, <1>5, <1>6 DEF IndInv

\* Only the current socket can be trying or open.
LEMMA OneSocketAlive ==
    ASSUME IndInv, NEW s \in Sockets, net[s] # "off"
    PROVE  s = current
BY DEF IndInv, TypeOK, SocketsInv, Untouched, Sockets

\* The current socket connects: whoever waited is answered, and with ok
\* exactly if the manager is registered.
LEMMA OpensKeeps ==
    ASSUME IndInv, NEW s \in Sockets, Opens(s)
    PROVE  IndInv'
<1> USE Names DEF sessionVars, flags, handlers, calls, features, Sockets,
    Waiting
<1>0. s = current
  BY OneSocketAlive DEF Opens
<1>1. TypeOK'
  BY <1>0 DEF IndInv, TypeOK, Opens, Attach, Answered, Answer,
    GuardAfterConnect
<1>2. SocketsInv'
  <2>1. /\ s \in internal => guard' = {}
        /\ s \notin internal => guard' = guard
    <3>1. guard \ {current} = {}
      BY DEF IndInv, TypeOK, SocketsInv, Untouched
    <3> QED BY <3>1 DEF Opens, GuardAfterConnect
  <2>2. boot' = "published" => guard' = {}
    BY <1>0, <2>1 DEF IndInv, TypeOK, SocketsInv, HandlersInv, Opens
  <2> QED
    BY <1>0, <2>1, <2>2 DEF IndInv, TypeOK, SocketsInv, Untouched,
      HandlersInv, Opens, Attach, GuardAfterConnect
<1>3. HandlersInv'
  BY <1>0 DEF IndInv, TypeOK, HandlersInv, Opens, Attach
<1>4. ConnectedIsTrue'
  BY <1>0 DEF IndInv, TypeOK, HandlersInv, ConnectedIsTrue, Opens
<1>5. CallsInv'
  <2>1. CASE promise = None
    BY <1>0, <2>1 DEF IndInv, TypeOK, CallsInv, CallersShareOneAttempt, Opens
  <2>2. CASE promise # None
    BY <1>0, <2>2 DEF IndInv, TypeOK, CallsInv, CallersShareOneAttempt, Opens,
      Answered, Answer
  <2> QED BY <2>1, <2>2
<1>6. ListenersInv'
  BY <1>0 DEF IndInv, TypeOK, ListenersInv, ListenersAreTracked, Opens, Attach
<1> QED BY <1>1, <1>2, <1>3, <1>4, <1>5, <1>6 DEF IndInv

\* A socket that stops being open or trying is still the current one, and the
\* manager hears of it as long as it is registered.
LEMMA TransportKeeps ==
    ASSUME IndInv, NEW s \in Sockets, Drops(s) \/ Exhausts(s) \/ Refused(s)
    PROVE  IndInv'
<1> USE Names DEF Drops, Exhausts, Refused, sessionVars, flags, handlers,
    calls, features, Sockets, Waiting
<1>0. s = current
  BY OneSocketAlive
<1>a. \E state \in {"trying", "spent", "off"} :
         net' = [net EXCEPT ![s] = state]
  OBVIOUS
<1>b. connected' \in BOOLEAN /\ (connected' => connected /\ net[s] # "open")
  <2>1. connected => s \in internal
    BY <1>0 DEF IndInv, HandlersInv, ConnectedIsTrue
  <2>2. connected => net[s] = "open"
    BY <1>0 DEF IndInv, ConnectedIsTrue
  <2>3. CASE Drops(s)
    BY <2>1, <2>3
  <2>4. CASE Exhausts(s) \/ Refused(s)
    BY <2>2, <2>4 DEF IndInv, TypeOK
  <2> QED BY <2>3, <2>4
<1>1. TypeOK'
  <2>1. net' \in [Sockets -> {"off", "trying", "spent", "open"}]
    BY <1>a DEF IndInv, TypeOK
  <2> QED BY <1>b, <2>1 DEF IndInv, TypeOK
<1>2. SocketsInv'
  BY <1>0 DEF IndInv, TypeOK, SocketsInv, Untouched
<1>3. HandlersInv'
  BY DEF IndInv, TypeOK, HandlersInv
<1>4. ConnectedIsTrue'
  <2>1. ~connected'
    BY <1>0, <1>b DEF IndInv, ConnectedIsTrue
  <2>2. net'[current] # "open"
    BY <1>0, <1>a DEF IndInv, TypeOK
  <2> QED BY <2>1, <2>2 DEF ConnectedIsTrue
<1>5. CallsInv'
  BY DEF IndInv, TypeOK, CallsInv, CallersShareOneAttempt
<1>6. ListenersInv'
  BY DEF IndInv, TypeOK, ListenersInv, ListenersAreTracked
<1> QED BY <1>1, <1>2, <1>3, <1>4, <1>5, <1>6 DEF IndInv

\* The fallback replaces the first socket, before the manager is published.
LEMMA FallbackKeeps ==
    ASSUME IndInv, MountFallback
    PROVE  IndInv'
<1> USE Names DEF MountFallback, sessionVars, flags, handlers, calls, features,
    Sockets, Waiting
<1>0. /\ current = "msgpack" /\ registered /\ Connection \in tracked
      /\ boot \in {"init", "failed"} /\ promise = None
  BY DEF IndInv, TypeOK, SocketsInv, Untouched, HandlersInv, CallsInv
<1>1. TypeOK'
  BY <1>0 DEF IndInv, TypeOK, Silenced, AwaitingAfterOff
<1>2. SocketsInv'
  BY <1>0 DEF IndInv, TypeOK, SocketsInv, Untouched, Silenced,
    AwaitingAfterOff, ListenersInv
<1>3. HandlersInv'
  BY <1>0 DEF IndInv, TypeOK, HandlersInv
<1>4. ConnectedIsTrue'
  BY <1>0 DEF IndInv, TypeOK, ConnectedIsTrue
<1>5. CallsInv'
  BY <1>0 DEF IndInv, TypeOK, CallsInv, CallersShareOneAttempt
<1>6. ListenersInv'
  BY <1>0 DEF IndInv, TypeOK, ListenersInv, ListenersAreTracked, Silenced
<1> QED BY <1>1, <1>2, <1>3, <1>4, <1>5, <1>6 DEF IndInv

\* A timer ends one wait: of init, of the fallback, or of the calls that share
\* a promise.
LEMMA TimersKeep ==
    ASSUME IndInv, Timers
    PROVE  IndInv'
<1> USE Names DEF sessionVars, flags, handlers, calls, features, Sockets,
    Waiting
<1>1. CASE InitTimesOut \/ FallbackTimesOut
  <2> USE <1>1 DEF InitTimesOut, FallbackTimesOut, GiveUp
  <2>0. /\ awaiting' \in [Sockets -> SUBSET (Callers \cup {Boot, Fallback})]
        /\ \A s \in Sockets : awaiting[s] = {} => awaiting'[s] = {}
    BY DEF IndInv, TypeOK
  <2>1. TypeOK'
    BY <2>0 DEF IndInv, TypeOK
  <2>2. SocketsInv'
    <3>1. \A s \in Sockets : Untouched(s) => Untouched(s)'
      BY <2>0 DEF Untouched
    <3>2. CASE InitTimesOut
      BY <3>1, <3>2 DEF IndInv, TypeOK, SocketsInv
    <3>3. CASE FallbackTimesOut
      BY <3>1, <3>3 DEF IndInv, TypeOK, SocketsInv
    <3> QED BY <3>2, <3>3
  <2>3. HandlersInv' /\ ConnectedIsTrue'
    BY DEF IndInv, TypeOK, HandlersInv, ConnectedIsTrue
  <2>4. CallsInv'
    BY DEF IndInv, TypeOK, CallsInv, CallersShareOneAttempt
  <2>5. ListenersInv'
    BY DEF IndInv, TypeOK, ListenersInv, ListenersAreTracked
  <2> QED BY <2>1, <2>2, <2>3, <2>4, <2>5 DEF IndInv
<1>2. ASSUME NEW c \in Callers, WaitTimesOut(c)
      PROVE  IndInv'
  <2> USE <1>2 DEF WaitTimesOut, Answered
  <2>1. promise = c /\ boot = "published"
    BY DEF IndInv, TypeOK, CallsInv, CallersShareOneAttempt
  <2>2. TypeOK'
    BY DEF IndInv, TypeOK
  <2>3. SocketsInv'
    BY DEF IndInv, TypeOK, SocketsInv, Untouched
  <2>4. HandlersInv' /\ ConnectedIsTrue'
    BY DEF IndInv, TypeOK, HandlersInv, ConnectedIsTrue
  <2>5. CallsInv'
    BY <2>1 DEF IndInv, TypeOK, CallsInv, CallersShareOneAttempt
  <2>6. ListenersInv'
    BY DEF IndInv, TypeOK, ListenersInv, ListenersAreTracked
  <2> QED BY <2>2, <2>3, <2>4, <2>5, <2>6 DEF IndInv
<1> QED BY <1>1, <1>2 DEF Timers

\* A call that is made returns at once, joins the pending one, or starts it.
LEMMA CallsKeep ==
    ASSUME IndInv, NEW c \in Callers,
           WaitConnected(c) \/ WaitShared(c) \/ WaitFirst(c)
    PROVE  IndInv'
<1> USE Names DEF WaitConnected, WaitShared, WaitFirst, CanCall, Connecting,
    sessionVars, flags, handlers, calls, features, Sockets, Waiting
<1>0. current = "msgpack"
  BY DEF IndInv, TypeOK, SocketsInv
<1>1. TypeOK'
  <2>1. call' \in [Callers -> {"idle", "ok", "error", "waiting", "joined"}]
    BY DEF IndInv, TypeOK
  <2>2. net' \in [Sockets -> {"off", "trying", "spent", "open"}]
    BY DEF IndInv, TypeOK
  <2>3. awaiting' \in [Sockets -> SUBSET (Callers \cup {Boot, Fallback})]
    BY DEF IndInv, TypeOK
  <2> QED BY <2>1, <2>2, <2>3 DEF IndInv, TypeOK
<1>2. SocketsInv'
  BY <1>0 DEF IndInv, TypeOK, SocketsInv, Untouched
<1>3. HandlersInv'
  BY DEF IndInv, TypeOK, HandlersInv
<1>4. ConnectedIsTrue'
  BY <1>0 DEF IndInv, TypeOK, ConnectedIsTrue
<1>5. CallsInv'
  BY DEF IndInv, TypeOK, CallsInv, CallersShareOneAttempt
<1>6. ListenersInv'
  BY DEF IndInv, TypeOK, ListenersInv, ListenersAreTracked
<1> QED BY <1>1, <1>2, <1>3, <1>4, <1>5, <1>6 DEF IndInv

\* A feature attaches to, or leaves, the published manager's socket.
LEMMA FeaturesKeep ==
    ASSUME IndInv, NEW f \in Features, MountFeature(f) \/ UnmountFeature(f)
    PROVE  IndInv'
<1> USE Names DEF MountFeature, UnmountFeature, TrackedAfterOff, Attach,
    sessionVars, flags, handlers, calls, features, Sockets, Waiting
<1>0. /\ listening' \in [Features -> SUBSET Sockets]
      /\ \A g \in Features : listening'[g] \subseteq listening[g] \cup {current}
      /\ tracked' \subseteq Events \cup {Connection}
      /\ Connection \in tracked => Connection \in tracked'
      /\ mounted' \subseteq Features
  BY DEF IndInv, TypeOK
<1>1. TypeOK'
  <2>1. UNCHANGED <<sessionVars, boot, current, net, flags, fallback, internal,
                    guard, awaiting, calls>>
    OBVIOUS
  <2> HIDE DEF MountFeature, UnmountFeature
  <2> QED BY <1>0, <2>1 DEF IndInv, TypeOK
<1>2. SocketsInv'
  <2>1. CASE boot = "published"
    <3>1. current = "msgpack"
      BY <2>1 DEF IndInv, TypeOK, SocketsInv
    <3>2. Untouched("plain") => Untouched("plain")'
      BY <1>0, <3>1 DEF Untouched
    <3> QED BY <2>1, <3>1, <3>2 DEF IndInv, SocketsInv
  <2>2. CASE boot # "published"
    BY <2>2 DEF IndInv, SocketsInv, Untouched
  <2> QED BY <2>1, <2>2
<1>3. HandlersInv'
  BY <1>0 DEF IndInv, TypeOK, HandlersInv
<1>4. ConnectedIsTrue'
  BY DEF IndInv, TypeOK, ConnectedIsTrue
<1>5. CallsInv'
  BY DEF IndInv, TypeOK, CallsInv, CallersShareOneAttempt
<1>6. ListenersInv'
  BY DEF IndInv, TypeOK, SocketsInv, Untouched, ListenersInv,
    ListenersAreTracked
<1> QED BY <1>1, <1>2, <1>3, <1>4, <1>5, <1>6 DEF IndInv

\* A step that changes nothing keeps everything.
LEMMA StutterKeeps == IndInv /\ UNCHANGED vars => IndInv'
BY DEF vars, sessionVars, flags, handlers, calls, features, IndInv, TypeOK,
    SocketsInv, Untouched, HandlersInv, ConnectedIsTrue, CallsInv,
    CallersShareOneAttempt, ListenersInv, ListenersAreTracked

\* Every step keeps the invariant.
LEMMA NextKeeps == IndInv /\ [Next]_vars => IndInv'
<1> SUFFICES ASSUME IndInv, [Next]_vars PROVE IndInv'
  OBVIOUS
<1>1. CASE Session
  BY <1>1, SessionKeeps, BootKeeps, DisconnectKeeps DEF Session
<1>2. CASE Transport
  BY <1>2, OpensKeeps, TransportKeeps, FallbackKeeps DEF Transport
<1>3. CASE Timers
  BY <1>3, TimersKeep
<1>4. CASE Users
  BY <1>4, CallsKeep, FeaturesKeep DEF Users
<1>5. CASE UNCHANGED vars
  BY <1>5, StutterKeeps
<1> QED BY <1>1, <1>2, <1>3, <1>4, <1>5 DEF Next

\* The invariant holds in every behaviour.
THEOREM Invariance == Spec => []IndInv
<1>1. Init => IndInv
  BY InitInv
<1>2. IndInv /\ [Next]_vars => IndInv'
  BY NextKeeps
<1> QED BY <1>1, <1>2, PTL DEF Spec

-----------------------------------------------------------------------------

\* The state of the manager always has its type.
THEOREM TypeCorrect == Spec => []TypeOK
<1>1. IndInv => TypeOK
  BY DEF IndInv
<1> QED BY <1>1, Invariance, PTL

\* isConnected is true exactly of an open socket the manager is registered on.
THEOREM ConnectedTruthful == Spec => []ConnectedIsTrue
<1>1. IndInv => ConnectedIsTrue
  BY DEF IndInv
<1> QED BY <1>1, Invariance, PTL

\* A replaced socket is closed and has no listener left.
THEOREM ReplacedSilent == Spec => []ReplacedSocketIsDead
<1>1. IndInv => ReplacedSocketIsDead
  BY DEF IndInv, TypeOK, SocketsInv, Untouched, ReplacedSocketIsDead, Sockets
<1> QED BY <1>1, Invariance, PTL

\* No socket is replaced once the features use the manager.
THEOREM StableInUse == Spec => []NeverReplacedInUse
<1>1. IndInv => NeverReplacedInUse
  BY DEF IndInv, TypeOK, SocketsInv, NeverReplacedInUse, Sockets
<1> QED BY <1>1, Invariance, PTL

\* Calls that overlap share one attempt, and none outlives the connection.
THEOREM CallersShare == Spec => []CallersShareOneAttempt
<1>1. IndInv => CallersShareOneAttempt
  BY DEF IndInv, CallsInv
<1> QED BY <1>1, Invariance, PTL

\* disconnect can find every listener in _trackedEvents.
THEOREM ListenersTracked == Spec => []ListenersAreTracked
<1>1. IndInv => ListenersAreTracked
  BY DEF IndInv, ListenersInv
<1> QED BY <1>1, Invariance, PTL

\* A token goes into the manager and into the handshake of the socket in use
\* together: at init, at a refresh, and when the fallback takes over.
THEOREM HandshakeCurrent == Spec => []HandshakeHasToken
<1>1. Init => HandshakeHasToken
  BY DEF Init, HandshakeHasToken
<1>2. IndInv /\ HandshakeHasToken /\ [Next]_vars => HandshakeHasToken'
  <2> SUFFICES ASSUME IndInv, HandshakeHasToken, [Next]_vars
               PROVE  HandshakeHasToken'
    OBVIOUS
  <2> USE DEF HandshakeHasToken, sessionVars, flags
  <2>1. CASE Session
    BY <2>1 DEF Session, BootWithoutSession, BootWithSession, SignedIn,
      SignedOut, TokenRefreshed, Disconnect, IndInv, TypeOK
  <2>2. CASE Transport
    <3>1. ASSUME NEW s \in Sockets, Opens(s) \/ Drops(s) \/ Exhausts(s) \/ Refused(s)
          PROVE  HandshakeHasToken'
      <4>1. boot' \in {"init", "published"} => boot \in {"init", "published"}
        BY <3>1 DEF Opens, Drops, Exhausts, Refused, IndInv, TypeOK, HandlersInv,
          SocketsInv, Untouched, Sockets
      <4>2. UNCHANGED <<token, auth, current>>
        BY <3>1 DEF Opens, Drops, Exhausts, Refused
      <4> QED BY <4>1, <4>2
    <3>2. CASE MountFallback
      BY <3>2 DEF MountFallback, IndInv, TypeOK, Sockets
    <3> QED BY <2>2, <3>1, <3>2 DEF Transport
  <2>3. CASE Timers
    BY <2>3 DEF Timers, InitTimesOut, FallbackTimesOut, WaitTimesOut, GiveUp
  <2>4. CASE Users
    BY <2>4 DEF Users, WaitConnected, WaitShared, WaitFirst, MountFeature,
      UnmountFeature
  <2>5. CASE UNCHANGED vars
    BY <2>5 DEF vars
  <2> QED BY <2>1, <2>2, <2>3, <2>4, <2>5 DEF Next
<1> QED BY <1>1, <1>2, Invariance, PTL DEF Spec

\* Every answer of waitForConnection agrees with the connection of that moment.
THEOREM HonestAnswers == Spec => AnswersAreHonest
<1> DEFINE Honest(c) ==
        /\ call[c] # "ok" /\ call'[c] = "ok" => connected'
        /\ call[c] # "error" /\ call'[c] = "error" => ~connected'
<1>1. ASSUME IndInv, [Next]_vars, NEW c \in Callers
      PROVE  Honest(c)
  <2> USE <1>1 DEF sessionVars, flags, handlers, calls, features, Waiting
  <2>1. CASE UNCHANGED call
    BY <2>1
  <2>2. ASSUME NEW s \in Sockets, Opens(s)
        PROVE  Honest(c)
    BY <2>2 DEF Opens, Answered, Answer, IndInv, TypeOK
  <2>3. CASE MountFallback
    BY <2>3 DEF MountFallback, Answered
  <2>4. ASSUME NEW d \in Callers, WaitTimesOut(d)
        PROVE  Honest(c)
    BY <2>4 DEF WaitTimesOut, Answered, IndInv, TypeOK, CallsInv,
      CallersShareOneAttempt
  <2>5. ASSUME NEW d \in Callers,
               WaitConnected(d) \/ WaitShared(d) \/ WaitFirst(d)
        PROVE  Honest(c)
    BY <2>5 DEF WaitConnected, WaitShared, WaitFirst, IndInv, TypeOK
  <2>6. CASE Session
    BY <2>1, <2>6 DEF Session, BootWithoutSession, BootWithSession, SignedIn,
      SignedOut, TokenRefreshed, Disconnect
  <2>7. CASE Transport
    BY <2>1, <2>2, <2>3, <2>7 DEF Transport, Drops, Exhausts, Refused
  <2>8. CASE Timers
    BY <2>1, <2>4, <2>8 DEF Timers, InitTimesOut, FallbackTimesOut
  <2>9. CASE Users
    BY <2>1, <2>5, <2>9 DEF Users, MountFeature, UnmountFeature
  <2>10. CASE UNCHANGED vars
    BY <2>1, <2>10 DEF vars
  <2> QED BY <2>6, <2>7, <2>8, <2>9, <2>10 DEF Next
<1>2. IndInv /\ [Next]_vars => [\A c \in Callers : Honest(c)]_vars
  BY <1>1
<1> QED BY <1>2, Invariance, PTL DEF Spec, AnswersAreHonest

-----------------------------------------------------------------------------
(* The manager implements ConnectionService: every step of it is a step of *)
(* the service, or one that the features do not see.                       *)

\* The two variables of the service that are expressions here.
ServiceUp == connected /\ boot = "published"
ServiceCall ==
    [c \in Callers |-> IF call[c] = "joined" THEN "waiting" ELSE call[c]]

SeenStep == [Service!Next]_(Service!vars)
Unseen == UNCHANGED <<ServicePhase, ServiceUp, ServiceCall>>

\* A step that changes none of the three is a stuttering step of the service.
LEMMA UnseenStep == Unseen => SeenStep
BY DEF Unseen, SeenStep, Service!vars, ServiceUp, ServiceCall

\* The three depend on four variables of the manager.
LEMMA FourVariables ==
    UNCHANGED <<boot, registered, connected, call>> => Unseen
BY DEF Unseen, ServicePhase, ServiceUp, ServiceCall

\* Those who wait for the service are the calls that wait or have joined.
LEMMA WhoWaits ==
    ASSUME NEW c \in Callers
    PROVE  c \in Service!Pending <=> call[c] \in Waiting
BY DEF Service!Pending, Waiting

\* The promise's owner and those who share it are all who wait.
LEMMA AnsweredSettles ==
    ASSUME IndInv, promise # None, NEW answer \in {"ok", "error"},
           call' = Answered(promise, answer)
    PROVE  /\ Service!Settle(answer)
           /\ Service!Pending # {}
<1> USE Names DEF Waiting
<1>1. promise \in Callers /\ call[promise] = "waiting"
  BY DEF IndInv, TypeOK, CallsInv, CallersShareOneAttempt
<1>2. \A c \in Callers : call[c] \in Waiting <=> c = promise \/ call[c] = "joined"
  BY <1>1 DEF IndInv, TypeOK, CallsInv, CallersShareOneAttempt
<1>3. \A c \in Callers :
        call'[c] = IF call[c] \in Waiting THEN answer ELSE call[c]
  BY <1>2 DEF Answered
<1>4. ServiceCall' = [c \in Callers |->
                        IF c \in Service!Pending THEN answer ELSE ServiceCall[c]]
  <2>1. \A c \in Callers : ServiceCall'[c] =
            IF c \in Service!Pending THEN answer ELSE ServiceCall[c]
    BY <1>3, WhoWaits DEF ServiceCall
  <2> QED BY <2>1 DEF ServiceCall
<1>5. Service!Settle(answer)
  BY <1>4 DEF Service!Settle, ServiceCall
<1> QED BY <1>1, <1>5, WhoWaits

\* When nobody has a promise nobody waits, and any answer reaches nobody.
LEMMA NobodySettles ==
    ASSUME IndInv, promise = None, UNCHANGED call
    PROVE  Service!Settle("ok")
<1> USE Names DEF Waiting
<1>1. \A c \in Callers : c \notin Service!Pending
  BY WhoWaits DEF IndInv, TypeOK, CallsInv, CallersShareOneAttempt
<1> QED BY <1>1 DEF Service!Settle

\* The opening of a socket brings the service up, at the start or again; if
\* the manager has been disconnected, those who wait get an error.
LEMMA OpensServes ==
    ASSUME IndInv, IndInv', NEW s \in Sockets, Opens(s)
    PROVE  SeenStep
<1> USE Names
<1>0. s = current /\ net'[current] = "open" /\ UNCHANGED <<current, registered>>
  BY OneSocketAlive DEF Opens, IndInv, TypeOK
<1>1. connected' = registered
  BY <1>0 DEF IndInv, TypeOK, ConnectedIsTrue
<1>2. ~connected
  BY <1>0 DEF IndInv, ConnectedIsTrue, Opens
<1>3. promise # None => promise \in awaiting[s]
  BY <1>0 DEF IndInv, CallsInv, CallersShareOneAttempt
<1>4. promise = None => promise \notin awaiting[s]
  BY DEF IndInv, TypeOK
<1>5. CASE Boot \in awaiting[s]
  <2>1. boot = "init" /\ boot' = "published" /\ registered
    BY <1>0, <1>5 DEF Opens, IndInv, HandlersInv
  <2>2. UNCHANGED call
    BY <2>1, <1>4 DEF Opens, IndInv, CallsInv, calls
  <2>3. Service!Serves
    BY <1>0, <1>1, <2>1, <2>2 DEF Service!Serves, ServicePhase
  <2> QED BY <2>3 DEF SeenStep, Service!Next
<1>6. CASE Boot \notin awaiting[s] /\ boot # "published"
  <2>1. UNCHANGED <<boot, call>>
    BY <1>4, <1>6 DEF Opens, IndInv, CallsInv, calls
  <2>2. Unseen
    BY <1>6, <2>1 DEF Unseen, ServicePhase, ServiceUp, ServiceCall
  <2> QED BY <2>2, UnseenStep
<1>7. CASE boot = "published" /\ registered
  <2>1. boot' = "published" /\ connected' = TRUE /\ registered'
    BY <1>0, <1>1, <1>7 DEF Opens, IndInv, TypeOK
  <2>2. Service!Settle("ok")
    <3>1. CASE promise = None
      BY <1>4, <3>1, NobodySettles DEF Opens, calls
    <3>2. CASE promise # None
      BY <1>3, <2>1, <3>2, AnsweredSettles DEF Opens, Answer
    <3> QED BY <3>1, <3>2
  <2>3. Service!GoesUp
    BY <1>2, <1>7, <2>1, <2>2 DEF Service!GoesUp, ServicePhase
  <2> QED BY <2>3 DEF SeenStep, Service!Next
<1>8. CASE Boot \notin awaiting[s] /\ boot = "published" /\ ~registered
  <2>1. boot' = "published" /\ connected' = FALSE /\ ~registered'
    BY <1>0, <1>1, <1>8 DEF Opens, IndInv, TypeOK
  <2>2. CASE promise = None
    <3>1. UNCHANGED <<boot, registered, connected, call>>
      BY <1>2, <1>4, <1>8, <2>1, <2>2 DEF Opens, calls, IndInv, TypeOK
    <3> QED BY <3>1, FourVariables, UnseenStep
  <2>3. CASE promise # None
    <3>1. Service!Settle("error") /\ Service!Pending # {}
      BY <1>3, <2>1, <2>3, AnsweredSettles DEF Opens, Answer
    <3>2. Service!GivesUp
      BY <1>2, <1>8, <2>1, <3>1 DEF Service!GivesUp, ServicePhase
    <3> QED BY <3>2 DEF SeenStep, Service!Next
  <2> QED BY <2>2, <2>3
<1> QED BY <1>5, <1>6, <1>7, <1>8 DEF IndInv, TypeOK

\* The loss of the socket takes the service down, if it was up.
LEMMA DropsGoesDown ==
    ASSUME IndInv, NEW s \in Sockets, Drops(s)
    PROVE  SeenStep
<1>0. s = current
  BY OneSocketAlive DEF Drops
<1>1. UNCHANGED <<boot, registered, call>> /\ connected' \in BOOLEAN
  BY DEF Drops, calls, IndInv, TypeOK
<1>2. UNCHANGED <<ServicePhase, ServiceCall>>
  BY <1>1 DEF ServicePhase, ServiceCall
<1>3. connected => ~connected'
  BY <1>0 DEF Drops, IndInv, TypeOK, HandlersInv, ConnectedIsTrue
<1>4. CASE ServiceUp
  <2>1. ServiceUp' = FALSE
    BY <1>3, <1>4 DEF ServiceUp
  <2>2. Service!GoesDown
    BY <1>2, <1>4, <2>1 DEF Service!GoesDown, ServiceUp, ServiceCall
  <2> QED BY <2>2 DEF SeenStep, Service!Next
<1>5. CASE ~ServiceUp
  <2>1. connected' => connected
    BY DEF Drops, IndInv, TypeOK
  <2>2. UNCHANGED ServiceUp
    BY <1>1, <1>5, <2>1 DEF ServiceUp
  <2> QED BY <1>2, <2>2, UnseenStep DEF Unseen
<1> QED BY <1>4, <1>5

\* disconnect closes the service; a second one is not seen.
LEMMA DisconnectCloses ==
    ASSUME IndInv, Disconnect
    PROVE  SeenStep
<1>1. /\ boot = "published" /\ boot' = "published"
      /\ registered' = FALSE /\ connected' = FALSE
      /\ UNCHANGED call
  BY DEF Disconnect, calls
<1>2. CASE registered
  <2>1. Service!Closes
    BY <1>1, <1>2 DEF Service!Closes, ServicePhase
  <2> QED BY <2>1 DEF SeenStep, Service!Next
<1>3. CASE ~registered
  <2>1. connected = FALSE /\ registered = FALSE
    BY <1>3 DEF IndInv, TypeOK, ConnectedIsTrue
  <2> QED BY <1>1, <2>1, FourVariables, UnseenStep
<1> QED BY <1>2, <1>3

\* A timer of waitForConnection fires while the service is down: all who
\* share its promise get the error.
LEMMA TimeoutGivesUp ==
    ASSUME IndInv, NEW c \in Callers, WaitTimesOut(c)
    PROVE  SeenStep
<1> USE Names
<1>1. promise = c /\ promise # None /\ ~connected
  BY DEF WaitTimesOut, IndInv, CallsInv, CallersShareOneAttempt, Waiting
<1>2. Service!Settle("error") /\ Service!Pending # {}
  BY <1>1, AnsweredSettles DEF WaitTimesOut
<1>3. UNCHANGED <<boot, registered, connected>>
  BY DEF WaitTimesOut, flags
<1>4. Service!GivesUp
  BY <1>1, <1>2, <1>3 DEF Service!GivesUp, ServicePhase
<1> QED BY <1>4 DEF SeenStep, Service!Next

\* A call is a call of the service, whether it starts an attempt or joins.
LEMMA CallAsks ==
    ASSUME IndInv, NEW c \in Callers,
           WaitConnected(c) \/ WaitShared(c) \/ WaitFirst(c)
    PROVE  SeenStep
<1>1. /\ boot = "published" /\ call[c] \notin Waiting
      /\ UNCHANGED <<boot, registered, connected>>
  BY DEF WaitConnected, WaitShared, WaitFirst, CanCall, flags
<1>2. c \notin Service!Pending
  BY <1>1, WhoWaits
<1>3. ServiceCall' =
        [ServiceCall EXCEPT ![c] = IF connected THEN "ok" ELSE "waiting"]
  BY DEF WaitConnected, WaitShared, WaitFirst, ServiceCall, IndInv, TypeOK
<1>4. Service!Ask(c)
  BY <1>1, <1>2, <1>3 DEF Service!Ask, ServicePhase, ServiceCall
<1> QED BY <1>4 DEF SeenStep, Service!Next

\* The fallback is mounted before anybody can call, so it is not seen.
LEMMA FallbackUnseen ==
    ASSUME IndInv, MountFallback
    PROVE  SeenStep
<1>1. boot # "published" /\ promise = None /\ UNCHANGED <<boot, call>>
  BY DEF MountFallback, IndInv, TypeOK, SocketsInv, Untouched, CallsInv, Sockets
<1>2. Unseen
  BY <1>1 DEF Unseen, ServicePhase, ServiceUp, ServiceCall
<1> QED BY <1>2, UnseenStep

\* What happens before the manager is published is not seen.
LEMMA BootUnseen ==
    ASSUME IndInv, BootWithoutSession \/ BootWithSession \/ InitTimesOut
    PROVE  SeenStep
<1>1. boot # "published" /\ boot' # "published" /\ UNCHANGED call
  BY DEF BootWithoutSession, BootWithSession, InitTimesOut, calls
<1>2. Unseen
  BY <1>1 DEF Unseen, ServicePhase, ServiceUp, ServiceCall
<1> QED BY <1>2, UnseenStep

\* Every step of the manager is a step of the service, or unseen.
LEMMA NextSeen ==
    ASSUME IndInv, IndInv', [Next]_vars
    PROVE  SeenStep
<1> USE DEF sessionVars, flags, handlers, calls, features
<1>1. CASE UNCHANGED <<boot, registered, connected, call>>
  BY <1>1, FourVariables, UnseenStep
<1>2. CASE Session
  <2>1. ASSUME NEW t \in Tokens, SignedIn(t) \/ TokenRefreshed(t)
        PROVE  SeenStep
    BY <1>1, <2>1 DEF SignedIn, TokenRefreshed
  <2>2. CASE SignedOut
    BY <1>1, <2>2 DEF SignedOut
  <2> QED BY <1>2, <2>1, <2>2, BootUnseen, DisconnectCloses DEF Session
<1>3. CASE Transport
  <2>1. ASSUME NEW s \in Sockets, Exhausts(s) \/ Refused(s)
        PROVE  SeenStep
    BY <1>1, <2>1 DEF Exhausts, Refused
  <2> QED
    BY <1>3, <2>1, OpensServes, DropsGoesDown, FallbackUnseen DEF Transport
<1>4. CASE Timers
  <2>1. CASE FallbackTimesOut
    BY <1>1, <2>1 DEF FallbackTimesOut
  <2> QED BY <1>4, <2>1, BootUnseen, TimeoutGivesUp DEF Timers
<1>5. CASE Users
  <2>1. ASSUME NEW f \in Features, MountFeature(f) \/ UnmountFeature(f)
        PROVE  SeenStep
    BY <1>1, <2>1 DEF MountFeature, UnmountFeature
  <2> QED BY <1>5, <2>1, CallAsks DEF Users
<1>6. CASE UNCHANGED vars
  BY <1>1, <1>6 DEF vars
<1> QED BY <1>2, <1>3, <1>4, <1>5, <1>6 DEF Next

\* The manager implements the service that its features rely on.
THEOREM ImplementsService == Spec => KeepsService
<1>1. Init => Service!Init
  BY DEF Init, Service!Init, ServicePhase
<1>2. IndInv /\ IndInv' /\ [Next]_vars => [Service!Next]_(Service!vars)
  BY NextSeen DEF SeenStep
<1> QED BY <1>1, <1>2, Invariance, PTL DEF Spec, KeepsService, Service!Spec

\* After disconnect the page is never connected again: the service it was
\* closed in is the only one there is (boot runs once, init once).
THEOREM ClosedStaysClosed == Spec => Service!ClosedForGood
<1> DEFINE Down == ServicePhase = "closed" => ~ServiceUp
<1> USE DEF ServiceUp
<1>1. Service!Init => Down
  BY DEF Service!Init
<1>2. Down /\ [Service!Next]_(Service!vars) => Down'
  BY DEF Service!Next, Service!vars, Service!Serves, Service!GoesUp,
    Service!GoesDown, Service!Closes, Service!GivesUp, Service!Ask
<1>3. Down /\ [Service!Next]_(Service!vars) =>
        [ServicePhase = "closed" => ServicePhase' = "closed" /\ ~ServiceUp']_(Service!vars)
  BY DEF Service!Next, Service!vars, Service!Serves, Service!GoesUp,
    Service!GoesDown, Service!Closes, Service!GivesUp, Service!Ask
<1>4. Spec => Service!Init /\ [][Service!Next]_(Service!vars)
  BY ImplementsService DEF KeepsService, Service!Spec
<1>5. Service!Init /\ [][Service!Next]_(Service!vars) =>
        [][ServicePhase = "closed" => ServicePhase' = "closed" /\ ~ServiceUp']_(Service!vars)
  BY <1>1, <1>2, <1>3, PTL
<1> QED BY <1>4, <1>5 DEF Service!ClosedForGood
=============================================================================
