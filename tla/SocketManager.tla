--------------------------- MODULE SocketManager ---------------------------
(***************************************************************************)
(* The one Socket.io connection of the page: the SocketManager class       *)
(* (socket-manager.ts) as main.ts boots it, as the features use it         *)
(* (waitForConnection, on, off) and as the session's life drives it        *)
(* (composables/use-app-logic.ts).                                         *)
(*                                                                         *)
(* The manager starts on a socket that speaks msgpack and may replace it,  *)
(* once, by one with the default parser.  A socket is                      *)
(*     "off"     closed: never opened, disconnected, or refused,           *)
(*     "trying"  connecting, or reconnecting after a transport failure,    *)
(*     "spent"   out of reconnection attempts (socket.active is still      *)
(*               true: the library clears it only for "off"),              *)
(*     "open"    connected.                                                *)
(* A JavaScript task, with the promise continuations it releases, is one   *)
(* step.  _isFallbackPending is true only inside such a step and is left   *)
(* out.                                                                    *)
(***************************************************************************)

CONSTANTS
    Callers,        \* calls of waitForConnection that may overlap
    Features,       \* composables that listen to the socket while mounted
    Events,         \* the events they listen to
    EventOf,        \* the event of each feature
    Tokens,         \* access tokens
    None            \* no session, no pending promise

Boot == "init"              \* the caller of connect inside init
Fallback == "fallback"      \* the one inside _mountFallbackSocket
Connection == "connection"  \* connect, disconnect and connect_error

ASSUME ConstantsAssumption ==
    /\ EventOf \in [Features -> Events]
    /\ Connection \notin Events
    /\ None \notin Callers \cup Tokens \cup {Boot, Fallback}
    /\ {Boot, Fallback} \cap Callers = {}

VARIABLES
    session,        \* the access token of the session, or None
    boot,           \* where _initializeAsyncDependencies has got to
    token,          \* _currentAuthToken
    auth,           \* socket.auth.token, by socket
    current,        \* _socketRef
    net,            \* the state of each socket
    connected,      \* _isConnectedInternal
    connecting,     \* _isConnectingInternal
    registered,     \* _internalHandlersRegistered
    fallback,       \* where _mountFallbackSocket has got to
    internal,       \* sockets that have _onConnect, _onDisconnect
    guard,          \* sockets that have _fallbackErrorHandler
    tracked,        \* _trackedEvents
    awaiting,       \* by socket: whose once('connect') listener it has
    promise,        \* the caller that made _connectingPromise, or None
    call,           \* each call of waitForConnection
    mounted,        \* features whose component is mounted
    listening       \* by feature: sockets that have its listener

sessionVars == <<session, token, auth>>
flags == <<connected, connecting, registered>>
calls == <<promise, call>>
features == <<mounted, listening>>
handlers == <<internal, guard, tracked>>
vars == <<sessionVars, boot, current, net, flags, fallback, handlers,
          awaiting, calls, features>>

Sockets == {"msgpack", "plain"}
Waiting == {"waiting", "joined"}

TypeOK ==
    /\ session \in Tokens \cup {None}
    /\ boot \in {"start", "absent", "init", "failed", "published"}
    /\ token \in Tokens \cup {None}
    /\ auth \in [Sockets -> Tokens \cup {None}]
    /\ current \in Sockets
    /\ net \in [Sockets -> {"off", "trying", "spent", "open"}]
    /\ connected \in BOOLEAN
    /\ connecting \in BOOLEAN
    /\ registered \in BOOLEAN
    /\ fallback \in {"none", "waiting", "ok", "failed"}
    /\ internal \subseteq Sockets
    /\ guard \subseteq Sockets
    /\ tracked \subseteq Events \cup {Connection}
    /\ awaiting \in [Sockets -> SUBSET (Callers \cup {Boot, Fallback})]
    /\ promise \in Callers \cup {None}
    /\ call \in [Callers -> {"idle", "ok", "error"} \cup Waiting]
    /\ mounted \subseteq Features
    /\ listening \in [Features -> SUBSET Sockets]

-----------------------------------------------------------------------------
(* Parts of the handlers.                                                  *)

\* socket.connect(): nothing to do on an open socket or a trying one.
Connecting(state) == IF state = "open" THEN "open" ELSE "trying"

\* The promise of `owner' settles: so do the calls that share it.
Answered(owner, answer) ==
    [c \in Callers |->
        IF c = owner \/ call[c] = "joined" THEN answer ELSE call[c]]

\* What a call reports when its promise resolves: it looks at the flag again.
AnswerUnchecked(isConnected) == "ok"
Answer(isConnected) == IF isConnected THEN "ok" ELSE "error"

\* _onConnect, where socket s has it, takes the fallback handler away.
GuardKept(s) == guard
GuardAfterConnect(s) == IF s \in internal THEN guard \ {current} ELSE guard

\* The fallback takes every listener of the tracked events off the old
\* socket, those of init and of pending calls included.
AwaitingKept == awaiting[current]
AwaitingAfterOff == IF Connection \in tracked THEN {} ELSE awaiting[current]

\* The watchers of the features in `fs' attach their listeners to `current'.
Attach(fs) ==
    /\ listening' = [f \in Features |->
            IF f \in fs THEN listening[f] \cup {current} ELSE listening[f]]
    /\ tracked' = tracked \cup {EventOf[f] : f \in fs}

\* socket.off(event), for each event in `es', on the current socket.
Silenced(es) ==
    [f \in Features |->
        IF EventOf[f] \in es THEN listening[f] \ {current} ELSE listening[f]]

\* What performConnection leaves when its timer fires.
GiveUp(who) ==
    /\ awaiting' = [awaiting EXCEPT ![current] = @ \ {who}]
    /\ connecting' = FALSE

-----------------------------------------------------------------------------
(* Boot, and the life of a session.                                        *)

Init ==
    /\ session \in Tokens \cup {None}
    /\ boot = "start"
    /\ token = None
    /\ auth = [s \in Sockets |-> None]
    /\ current = "msgpack"
    /\ net = [s \in Sockets |-> "off"]
    /\ connected = FALSE /\ connecting = FALSE /\ registered = FALSE
    /\ fallback = "none"
    /\ internal = {} /\ guard = {} /\ tracked = {}
    /\ awaiting = [s \in Sockets |-> {}]
    /\ promise = None
    /\ call = [c \in Callers |-> "idle"]
    /\ mounted = {}
    /\ listening = [f \in Features |-> {}]

\* getSession finds no session: the page goes on without a manager.
BootWithoutSession ==
    /\ boot = "start"
    /\ session = None
    /\ boot' = "absent"
    /\ UNCHANGED <<sessionVars, current, net, flags, fallback, handlers,
                   awaiting, calls, features>>

\* getSession finds one: the manager is made and init runs to its await.
BootWithSession ==
    /\ boot = "start"
    /\ session # None
    /\ boot' = "init"
    /\ token' = session
    /\ auth' = [auth EXCEPT ![current] = session]
    /\ connecting' = TRUE
    /\ registered' = TRUE
    /\ internal' = internal \cup {current}
    /\ guard' = guard \cup {current}
    /\ tracked' = tracked \cup {Connection}
    /\ awaiting' = [awaiting EXCEPT ![current] = @ \cup {Boot}]
    /\ net' = [net EXCEPT ![current] = Connecting(@)]
    /\ UNCHANGED <<session, current, connected, fallback, calls, features>>

\* A login in this page: the event only sets the session.
SignedIn(t) ==
    /\ session = None
    /\ session' = t
    /\ UNCHANGED <<boot, token, auth, current, net, flags, fallback, handlers,
                   awaiting, calls, features>>

SignedOut ==
    /\ session # None
    /\ session' = None
    /\ UNCHANGED <<boot, token, auth, current, net, flags, fallback, handlers,
                   awaiting, calls, features>>

\* The fault of a manager that only keeps the token for a later handshake.
TokenRefreshedUnsent(t) ==
    /\ session \notin {None, t}
    /\ session' = t
    /\ token' = IF boot = "published" THEN t ELSE token
    /\ UNCHANGED <<boot, auth, current, net, flags, fallback, handlers, awaiting,
                   calls, features>>

\* Supabase has a new token; the app hands it to the manager it knows.
TokenRefreshed(t) ==
    /\ session \notin {None, t}
    /\ session' = t
    /\ IF boot = "published"
       THEN /\ token' = t
            /\ auth' = [auth EXCEPT ![current] = t]
       ELSE UNCHANGED <<token, auth>>
    /\ UNCHANGED <<boot, current, net, flags, fallback, handlers, awaiting,
                   calls, features>>

\* Logout, or a beforeunload.  The listeners of pending calls stay.
Disconnect ==
    /\ boot = "published"
    /\ guard' = guard \ {current}
    /\ internal' = internal \ {current}
    /\ listening' = Silenced(tracked)
    /\ tracked' = {}
    /\ registered' = FALSE
    /\ connected' = FALSE
    /\ net' = [net EXCEPT ![current] = "off"]
    /\ UNCHANGED <<sessionVars, boot, current, connecting, fallback, awaiting,
                   calls, mounted>>

-----------------------------------------------------------------------------
(* The transport.                                                          *)

\* Socket s connects: _onConnect, if s still has it, then those who wait.
\* If init is among them, main.ts publishes the manager and the mounted
\* features attach to it.
Opens(s) ==
    /\ net[s] = "trying"
    /\ net' = [net EXCEPT ![s] = "open"]
    /\ connected' = (connected \/ s \in internal)
    /\ guard' = GuardAfterConnect(s)
    /\ awaiting' = [awaiting EXCEPT ![s] = {}]
    /\ connecting' = (connecting /\ awaiting[s] \cap {Boot, Fallback} = {})
    /\ fallback' = IF Fallback \in awaiting[s] THEN "ok" ELSE fallback
    /\ IF Boot \in awaiting[s]
       THEN boot' = "published" /\ Attach(mounted)
       ELSE UNCHANGED <<boot, listening, tracked>>
    /\ IF promise \in awaiting[s]
       THEN /\ call' = Answered(promise, Answer(connected'))
            /\ promise' = None
       ELSE UNCHANGED calls
    /\ UNCHANGED <<sessionVars, current, registered, internal, mounted>>

\* The fault of a manager that missed the disconnect event.
DropsUnheard(s) ==
    /\ net[s] = "open"
    /\ \E state \in {"trying", "off"} : net' = [net EXCEPT ![s] = state]
    /\ UNCHANGED <<sessionVars, boot, current, flags, fallback, handlers,
                   awaiting, calls, features>>

\* An open socket loses its transport, and tries again, or is closed by the
\* server, and does not.
Drops(s) ==
    /\ net[s] = "open"
    /\ \E state \in {"trying", "off"} : net' = [net EXCEPT ![s] = state]
    /\ connected' = (connected /\ s \notin internal)
    /\ UNCHANGED <<sessionVars, boot, current, connecting, registered, fallback,
                   handlers, awaiting, calls, features>>

\* The last reconnection attempt fails: active stays true, no fallback.
Exhausts(s) ==
    /\ net[s] = "trying"
    /\ net' = [net EXCEPT ![s] = "spent"]
    /\ UNCHANGED <<sessionVars, boot, current, flags, fallback, handlers,
                   awaiting, calls, features>>

\* The server refuses the connection: active is false in connect_error.
Refused(s) ==
    /\ net[s] = "trying"
    /\ s \notin guard
    /\ net' = [net EXCEPT ![s] = "off"]
    /\ UNCHANGED <<sessionVars, boot, current, flags, fallback, handlers,
                   awaiting, calls, features>>

\* The same where the fallback handler listens: the socket is replaced.
MountFallback ==
    /\ net[current] = "trying"
    /\ current \in guard
    /\ call' = IF promise = None THEN call ELSE Answered(promise, "error")
    /\ promise' = None
    /\ guard' = {}
    /\ internal' = (internal \ {current}) \cup {"plain"}
    /\ listening' = Silenced(tracked)
    /\ awaiting' = [awaiting EXCEPT
            ![current] = AwaitingAfterOff,
            !["plain"] = {Fallback}]
    /\ tracked' = {Connection}
    /\ connected' = FALSE
    /\ connecting' = TRUE
    /\ registered' = TRUE
    /\ net' = [net EXCEPT ![current] = "off", !["plain"] = "trying"]
    /\ auth' = [auth EXCEPT !["plain"] = token]
    /\ current' = "plain"
    /\ fallback' = "waiting"
    /\ UNCHANGED <<session, token, boot, mounted>>

-----------------------------------------------------------------------------
(* The timers of performConnection.                                        *)

\* The fault of a fallback that stopped the timer of init.
InitTimesOutIfListening ==
    /\ boot = "init"
    /\ Boot \in awaiting[current]
    /\ GiveUp(Boot)
    /\ boot' = "failed"
    /\ UNCHANGED <<sessionVars, current, net, connected, registered, fallback,
                   handlers, calls, features>>

InitTimesOut ==
    /\ boot = "init"
    /\ GiveUp(Boot)
    /\ boot' = "failed"
    /\ UNCHANGED <<sessionVars, current, net, connected, registered, fallback,
                   handlers, calls, features>>

FallbackTimesOut ==
    /\ fallback = "waiting"
    /\ GiveUp(Fallback)
    /\ fallback' = "failed"
    /\ UNCHANGED <<sessionVars, boot, current, net, connected, registered,
                   handlers, calls, features>>

-----------------------------------------------------------------------------
(* The features.                                                           *)

CanCall(c) == boot = "published" /\ call[c] \notin Waiting

WaitConnected(c) ==
    /\ CanCall(c)
    /\ connected
    /\ call' = [call EXCEPT ![c] = "ok"]
    /\ UNCHANGED <<sessionVars, boot, current, net, flags, fallback, handlers,
                   awaiting, promise, features>>

WaitShared(c) ==
    /\ CanCall(c)
    /\ ~connected
    /\ promise # None
    /\ call' = [call EXCEPT ![c] = "joined"]
    /\ UNCHANGED <<sessionVars, boot, current, net, flags, fallback, handlers,
                   awaiting, promise, features>>

WaitFirst(c) ==
    /\ CanCall(c)
    /\ ~connected
    /\ promise = None
    /\ call' = [call EXCEPT ![c] = "waiting"]
    /\ promise' = c
    /\ awaiting' = [awaiting EXCEPT ![current] = @ \cup {c}]
    /\ net' = [net EXCEPT ![current] = Connecting(@)]
    /\ UNCHANGED <<sessionVars, boot, current, flags, fallback, handlers,
                   features>>

\* The fault of a call that left its promise behind.
WaitTimesOutKeepsPromise(c) ==
    /\ call[c] = "waiting"
    /\ call' = Answered(c, "error")
    /\ awaiting' = [awaiting EXCEPT ![current] = @ \ {c}]
    /\ UNCHANGED <<sessionVars, boot, current, net, flags, fallback, handlers,
                   promise, features>>

WaitTimesOut(c) ==
    /\ call[c] = "waiting"
    /\ call' = Answered(c, "error")
    /\ promise' = IF promise = c THEN None ELSE promise
    /\ awaiting' = [awaiting EXCEPT ![current] = @ \ {c}]
    /\ UNCHANGED <<sessionVars, boot, current, net, flags, fallback, handlers,
                   features>>

\* A feature's component appears: its watcher attaches to the manager there is.
MountFeature(f) ==
    /\ f \notin mounted
    /\ mounted' = mounted \cup {f}
    /\ IF boot = "published"
       THEN Attach({f})
       ELSE UNCHANGED <<listening, tracked>>
    /\ UNCHANGED <<sessionVars, boot, current, net, flags, fallback, internal,
                   guard, awaiting, calls>>

\* off(event, handler): the event stays tracked while others listen to it.
Untracked(f) == tracked \ {EventOf[f]}
TrackedAfterOff(f) ==
    IF \E g \in Features \ {f} :
            EventOf[g] = EventOf[f] /\ current \in listening[g]
    THEN tracked
    ELSE tracked \ {EventOf[f]}

\* It disappears and takes its own handler off.
UnmountFeature(f) ==
    /\ f \in mounted
    /\ mounted' = mounted \ {f}
    /\ IF boot = "published"
       THEN /\ listening' = [listening EXCEPT ![f] = @ \ {current}]
            /\ tracked' = TrackedAfterOff(f)
       ELSE UNCHANGED <<listening, tracked>>
    /\ UNCHANGED <<sessionVars, boot, current, net, flags, fallback, internal,
                   guard, awaiting, calls>>

-----------------------------------------------------------------------------

Session ==
    \/ BootWithoutSession
    \/ BootWithSession
    \/ \E t \in Tokens : SignedIn(t) \/ TokenRefreshed(t)
    \/ SignedOut
    \/ Disconnect

Transport ==
    \/ \E s \in Sockets : Opens(s) \/ Drops(s) \/ Exhausts(s) \/ Refused(s)
    \/ MountFallback

Timers ==
    \/ InitTimesOut
    \/ FallbackTimesOut
    \/ \E c \in Callers : WaitTimesOut(c)

Users ==
    \/ \E c \in Callers : WaitConnected(c) \/ WaitShared(c) \/ WaitFirst(c)
    \/ \E f \in Features : MountFeature(f) \/ UnmountFeature(f)

Next == Session \/ Transport \/ Timers \/ Users

Spec == Init /\ [][Next]_vars

\* The event loop fires every timer in the end; nothing is assumed of the
\* transport, the server or the user.
FairSpec ==
    /\ Spec
    /\ WF_vars(InitTimesOut)
    /\ WF_vars(FallbackTimesOut)
    /\ \A c \in Callers : WF_vars(WaitTimesOut(c))

-----------------------------------------------------------------------------
(* Properties.                                                             *)

\* isConnected, which every emit is guarded by, tells the truth in both
\* directions: it is never true of a socket that is not open, and the manager
\* never misses the opening of the socket it is registered on.
ConnectedIsTrue ==
    /\ connected => registered /\ net[current] = "open"
    /\ registered /\ net[current] = "open" => connected

\* Once the socket has been replaced, the old one is silent: it stays closed
\* and no handler, of the manager or of a feature, can be called by it.
ReplacedSocketIsDead ==
    \A s \in Sockets \ {current} :
        /\ net[s] = "off"
        /\ s \notin internal \cup guard
        /\ awaiting[s] = {}
        /\ \A f \in Features : s \notin listening[f]

\* The socket is never replaced under the features: by the time main.ts
\* publishes the manager, _onConnect has taken the fallback handler away, so
\* listeners that are attached once stay on the socket that is in use.
NeverReplacedInUse ==
    boot = "published" => current = "msgpack" /\ guard = {}

\* Overlapping calls of waitForConnection share one attempt, whose listener
\* and timer exist, so that all of them are answered; and nobody is left
\* waiting while the manager is connected.
CallersShareOneAttempt ==
    /\ promise # None => call[promise] = "waiting"
                         /\ promise \in awaiting[current]
    /\ \A c \in Callers :
        /\ call[c] = "waiting" => promise = c
        /\ call[c] = "joined" => promise # None
        /\ call[c] \in Waiting => ~connected

\* _trackedEvents covers every listener of a feature, although off removes an
\* event that another feature may still listen to: else disconnect, which goes
\* by that set, would leave listeners behind.
ListenersAreTracked ==
    \A f \in Features :
        /\ current \in listening[f] => EventOf[f] \in tracked
        /\ f \notin mounted => listening[f] = {}

\* waitForConnection answers ok only if the manager is connected at that
\* moment, and an error only if it is not.
AnswersAreHonest ==
    [][\A c \in Callers :
        /\ call[c] # "ok" /\ call'[c] = "ok" => connected'
        /\ call[c] # "error" /\ call'[c] = "error" => ~connected']_vars

\* The manager as the features know it: a published manager serves until
\* disconnect, whether a promise is a call's own or shared is not seen.
ServicePhase ==
    IF boot # "published" THEN "starting"
    ELSE IF registered THEN "serving" ELSE "closed"

Service == INSTANCE ConnectionService WITH
    phase <- ServicePhase,
    up <- connected /\ boot = "published",
    call <- [c \in Callers |-> IF call[c] = "joined" THEN "waiting" ELSE call[c]]

\* Whatever happens to its sockets, promises and timers, the manager offers
\* the features of the page nothing but what ConnectionService promises.
KeepsService == Service!Spec

\* The handshake of the socket in use carries the manager's token, also after
\* the fallback has replaced the socket; a refresh reaches both.
HandshakeHasToken ==
    boot \in {"init", "published"} => auth[current] = token

\* init ends, whatever the network does: also when the fallback has replaced
\* the socket that init was waiting for.
InitSettles == boot = "init" ~> boot \in {"failed", "published"}

\* Claimed by docs/HTTP.md: disconnect removes the internal handlers "without
\* disturbing app-registered handlers".
AppHandlersStay ==
    boot = "published" =>
        \A f \in mounted : current \in listening[f]

=============================================================================
