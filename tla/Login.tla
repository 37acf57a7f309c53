-------------------------------- MODULE Login --------------------------------
(***************************************************************************)
(* The login page inside the editor (src/views/LoginView.vue), the         *)
(* messages it exchanges with the extension                                *)
(* (src/services/vs-code-auth-gateway.ts,                                  *)
(* src/composables/use-vs-code-auth.ts) and the session they lead to.      *)
(*                                                                         *)
(* The extension's messages carry no request id: whoever listens takes     *)
(* them.  A visit of the page may go on after the page was left, as its    *)
(* listeners and its awaits do.                                            *)
(***************************************************************************)
CONSTANTS
    Visit,      \* slots of visits of the login page
    Session,    \* sessions, told apart by their tokens
    None

ASSUME LoginAssumption == None \notin Visit /\ None \notin Session

VARIABLES
    session,    \* what the Supabase client holds
    here,       \* the visit that is mounted
    restore,    \* by visit: the stored session it asked for on mount
    login,      \* by visit: what isLoading stands for
    pending,    \* isRequestPending, one flag for all visits
    held,       \* the session the extension keeps
    issued,     \* the sessions there have been
    queries,    \* auth.getSession not yet answered
    requests,   \* auth.login not yet answered
    crossed     \* another was under way when the last attempt began

page == <<here, restore, login, pending, crossed>>
extension == <<held, queries, requests>>
vars == <<session, issued, page, extension>>

RestoreState == [stage : {"no", "waiting", "setting"}, session : Session \cup {None}]
LoginState ==
    [stage : {"no", "email", "waiting", "setting", "direct"}, session : Session \cup {None}]
Idle == [stage |-> "no", session |-> None]

\* Something is under way for this visit, whether it is mounted or not.
Active(v) == restore[v].stage # "no" \/ login[v].stage # "no"
Busy == \E v \in Visit : Active(v)

Init ==
    /\ session \in Session \cup {None}
    /\ held \in Session \cup {None}
    /\ issued = {session, held} \ {None}
    /\ here = None
    /\ restore = [v \in Visit |-> Idle]
    /\ login = [v \in Visit |-> Idle]
    /\ pending = FALSE
    /\ queries = {} /\ requests = {}
    /\ crossed = FALSE

-----------------------------------------------------------------------------
(* Visits                                                                  *)

\* The route guard shows the login page only without a session; on mount it
\* asks the extension for the session it has stored.
Mount(v) ==
    /\ here = None /\ session = None
    /\ ~Active(v)
    /\ here' = v
    /\ restore' = [restore EXCEPT ![v].stage = "waiting"]
    /\ queries' = queries \cup {v}
    /\ crossed' = (Busy \/ requests # {})
    /\ UNCHANGED <<session, issued, login, pending, held, requests>>

\* To the password page: the timers go with the scope, nothing else does.
Leave ==
    /\ here # None
    /\ here' = None
    /\ UNCHANGED <<session, issued, restore, login, pending, extension, crossed>>

\* signOut; that of the extension's session is the extension's affair.
Logout ==
    /\ session # None
    /\ session' = None
    /\ UNCHANGED <<issued, page, extension>>

\* The page is loaded anew; what the extension was asked stays asked.
Reload ==
    /\ here' = None
    /\ restore' = [v \in Visit |-> Idle]
    /\ login' = [v \in Visit |-> Idle]
    /\ pending' = FALSE
    /\ crossed' = FALSE
    /\ UNCHANGED <<session, issued, extension>>

-----------------------------------------------------------------------------
(* What the user starts                                                    *)

CanStart(v) == here = v /\ login[v].stage = "no"

StartEmail(v) ==
    /\ CanStart(v)
    /\ login' = [login EXCEPT ![v].stage = "email"]
    /\ crossed' = Busy
    /\ UNCHANGED <<session, issued, here, restore, pending, extension>>

\* A request is under way already: on with a login past the extension.
Refuse(v) ==
    /\ login' = [login EXCEPT ![v].stage = "direct"]
    /\ UNCHANGED <<pending, requests>>

Ask(v) ==
    /\ pending' = TRUE
    /\ login' = [login EXCEPT ![v].stage = "waiting"]
    /\ requests' = requests \cup {v}

\* Mutant: the flag belongs to the visit.
StartOAuthAnew(v) ==
    /\ CanStart(v)
    /\ Ask(v)
    /\ crossed' = Busy
    /\ UNCHANGED <<session, issued, here, restore, held, queries>>

StartOAuth(v) ==
    /\ CanStart(v)
    /\ IF pending THEN Refuse(v) ELSE Ask(v)
    /\ crossed' = Busy
    /\ UNCHANGED <<session, issued, here, restore, held, queries>>

-----------------------------------------------------------------------------
(* The extension.  A message goes to every listener there is.              *)

\* getSession of the gateway takes any auth.session, also one without a
\* session; the login takes only what carries one.
Deliver(s) ==
    /\ restore' = [v \in Visit |->
           IF restore[v].stage # "waiting" THEN restore[v]
           ELSE IF s = None THEN Idle ELSE [stage |-> "setting", session |-> s]]
    /\ IF s = None
       THEN UNCHANGED <<login, pending>>
       ELSE /\ login' = [v \in Visit |->
                   IF login[v].stage # "waiting" THEN login[v]
                   ELSE [stage |-> "setting", session |-> s]]
            /\ pending' = FALSE

HostAnswers(v) ==
    /\ v \in queries
    /\ queries' = queries \ {v}
    /\ Deliver(held)
    /\ UNCHANGED <<session, issued, here, held, requests, crossed>>

\* The user has logged in with the provider.
HostGrants(v, s) ==
    /\ v \in requests
    /\ s \in Session \ issued
    /\ requests' = requests \ {v}
    /\ held' = s
    /\ issued' = issued \cup {s}
    /\ Deliver(s)
    /\ UNCHANGED <<session, here, queries, crossed>>

\* auth.error, which only a login hears.
HostRefuses(v) ==
    /\ v \in requests
    /\ requests' = requests \ {v}
    /\ login' = [w \in Visit |-> IF login[w].stage = "waiting"
                                 THEN [login[w] EXCEPT !.stage = "direct"] ELSE login[w]]
    /\ pending' = FALSE
    /\ UNCHANGED <<session, issued, here, restore, held, queries, crossed>>

-----------------------------------------------------------------------------
(* What the page's timers and the Supabase client do                       *)

\* Mutant: an extension that does not answer loses its session.
RestoreTimesOutClearing(v) ==
    /\ here = v
    /\ restore[v].stage = "waiting"
    /\ restore' = [restore EXCEPT ![v] = Idle]
    /\ held' = None
    /\ UNCHANGED <<session, issued, here, login, pending, queries, requests, crossed>>

RestoreTimesOut(v) ==
    /\ here = v
    /\ restore[v].stage = "waiting"
    /\ restore' = [restore EXCEPT ![v] = Idle]
    /\ UNCHANGED <<session, issued, here, login, pending, extension, crossed>>

\* Mutant: a request made while another visit has one gets no timer.
LoginTimesOutOfFirst(v) ==
    /\ here = v
    /\ login[v].stage = "waiting"
    /\ \A w \in Visit \ {v} : ~Active(w)
    /\ login' = [login EXCEPT ![v].stage = "direct"]
    /\ pending' = FALSE
    /\ UNCHANGED <<session, issued, here, restore, extension, crossed>>

LoginTimesOut(v) ==
    /\ here = v
    /\ login[v].stage = "waiting"
    /\ login' = [login EXCEPT ![v].stage = "direct"]
    /\ pending' = FALSE
    /\ UNCHANGED <<session, issued, here, restore, extension, crossed>>

\* setSession succeeds and the page goes to the chat, from wherever it is.
Enter(s) ==
    /\ session' = s
    /\ here' = None

RestoreSucceeds(v) ==
    /\ restore[v].stage = "setting"
    /\ restore' = [restore EXCEPT ![v] = Idle]
    /\ Enter(restore[v].session)
    /\ UNCHANGED <<issued, login, pending, extension, crossed>>

\* Whatever the error was the extension is told to forget its session.  A
\* refresh that fails also ends the session of the Supabase client.
RestoreFails(v) ==
    /\ restore[v].stage = "setting"
    /\ restore' = [restore EXCEPT ![v] = Idle]
    /\ session' \in {session, None}
    /\ held' = None
    /\ UNCHANGED <<issued, here, login, pending, queries, requests, crossed>>

LoginSucceeds(v) ==
    /\ login[v].stage = "setting"
    /\ login' = [login EXCEPT ![v] = Idle]
    /\ Enter(login[v].session)
    /\ UNCHANGED <<issued, restore, pending, extension, crossed>>

LoginFails(v) ==
    /\ login[v].stage = "setting"
    /\ login' = [login EXCEPT ![v] = Idle]
    /\ session' \in {session, None}
    /\ UNCHANGED <<issued, here, restore, pending, extension, crossed>>

EmailSucceeds(v, s) ==
    /\ login[v].stage = "email"
    /\ s \in Session \ issued
    /\ issued' = issued \cup {s}
    /\ login' = [login EXCEPT ![v] = Idle]
    /\ Enter(s)
    /\ UNCHANGED <<restore, pending, extension, crossed>>

\* Refused, or an account that is still to be confirmed.
EmailFails(v) ==
    /\ login[v].stage = "email"
    /\ login' = [login EXCEPT ![v] = Idle]
    /\ UNCHANGED <<session, issued, here, restore, pending, extension, crossed>>

\* The provider's page does not open inside the editor, or asks to.
DirectEnds(v) ==
    /\ login[v].stage = "direct"
    /\ login' = [login EXCEPT ![v] = Idle]
    /\ UNCHANGED <<session, issued, here, restore, pending, extension, crossed>>

LoginMoves(v) ==
    \/ LoginTimesOut(v) \/ LoginSucceeds(v) \/ LoginFails(v)
    \/ EmailFails(v) \/ DirectEnds(v)
    \/ \E s \in Session : EmailSucceeds(v, s)

RestoreMoves(v) == RestoreTimesOut(v) \/ RestoreSucceeds(v) \/ RestoreFails(v)

Next ==
    \/ \E v \in Visit :
           \/ Mount(v) \/ StartEmail(v) \/ StartOAuth(v)
           \/ HostAnswers(v) \/ HostRefuses(v)
           \/ LoginMoves(v) \/ RestoreMoves(v)
    \/ \E v \in Visit, s \in Session : HostGrants(v, s)
    \/ Leave \/ Logout \/ Reload

\* The page's timers fire and the Supabase client's requests come to an end;
\* the extension and the user need do nothing.
Spec ==
    /\ Init /\ [][Next]_vars
    /\ \A v \in Visit : WF_vars(LoginMoves(v)) /\ WF_vars(RestoreMoves(v))

-----------------------------------------------------------------------------
(* What the login promises                                                 *)

TypeOK ==
    /\ session \in Session \cup {None}
    /\ here \in Visit \cup {None}
    /\ restore \in [Visit -> RestoreState]
    /\ login \in [Visit -> LoginState]
    /\ pending \in BOOLEAN
    /\ held \in Session \cup {None}
    /\ issued \subseteq Session
    /\ queries \subseteq Visit /\ requests \subseteq Visit
    /\ crossed \in BOOLEAN

\* One login at a time waits for the extension, over all visits, and the
\* shared flag says whether there is one: it is never left set behind a
\* request that has ended.
OneLoginWaits ==
    /\ pending <=> \E v \in Visit : login[v].stage = "waiting"
    /\ \A v, w \in Visit :
           login[v].stage = "waiting" /\ login[w].stage = "waiting" => v = w

\* The extension is told to forget its session only when it was this session
\* that could not be set, unless attempts crossed: a login may then have put a
\* new one in its place.
ForgetsOnlyWhatFailed ==
    [][held # None /\ held' = None =>
           \/ crossed
           \/ \E v \in Visit : restore[v].stage = "setting" /\ restore[v].session = held]_vars

\* A login and the wait for a stored session come to an end unless their page
\* is left: the timer is then cancelled, and the extension need not answer.
LoadingEnds ==
    \A v \in Visit :
        /\ login[v].stage # "no" ~> (login[v].stage = "no" \/ here # v)
        /\ restore[v].stage # "no" ~> (restore[v].stage = "no" \/ here # v)
=============================================================================
