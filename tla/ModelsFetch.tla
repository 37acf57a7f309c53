---------------------------- MODULE ModelsFetch ----------------------------
(***************************************************************************)
(* The list of models (src/composables/use-models-socket.ts): one list and *)
(* one fetch promise for the whole page, a handler of models:updated that  *)
(* all components share, and a timer per fetch that belongs to the         *)
(* component on whose behalf it was asked.                                 *)
(*                                                                         *)
(* The server's list is a version number; an answer carries the version    *)
(* that the server read, and answers may overtake each other.              *)
(***************************************************************************)
EXTENDS Naturals

CONSTANTS
    User,        \* instances of components that call useModelsSocket
    MaxFetches,  \* bound on the calls of initializeModels that do fetch
    MaxVersion,  \* bound on the changes of the server's list
    Page,        \* the scope of a timer that nothing unmounts (main.ts)
    Refusal,     \* an answer without a list
    None

ASSUME ModelsAssumption == /\ MaxVersion \in Nat
                           /\ MaxFetches \in Nat
                           /\ None \notin User \cup Nat \cup {"ok", "failed"}
                           /\ Refusal \notin Nat \cup {None}
                           /\ Page \notin User

Version == 0..MaxVersion
Fetch == 1..MaxFetches

VARIABLES
    published,       \* main.ts has set the injected manager
    life,            \* by user: "new", "mounted" or "gone"
    handlerScope,    \* whose timers the handler of models:updated uses
    listening,       \* the handler is on the socket
    fetch,           \* the fetches
    fetchPromise,    \* the fetch that a further caller would await
    isLoadingModels, modelsError,
    models,          \* the version shown, None before the first answer
    catalog,         \* the server's version
    pushes,          \* versions whose models:updated is on its way
    heard,           \* the newest version the handler was told of
    lastEnd,         \* how the call that ended last ended
    overlapped       \* two fetches have been under way together

vars == <<published, life, handlerScope, listening, fetch, fetchPromise,
          isLoadingModels, modelsError, models, catalog, pushes, heard,
          lastEnd, overlapped>>

page   == <<published, life, handlerScope, listening>>
server == <<catalog, pushes>>
shown  == <<fetchPromise, isLoadingModels, modelsError, models, lastEnd>>

FetchState ==
    [stage: {"unused", "connecting", "asked", "ended"},
     scope: User \cup {Page},
     timer: {"off", "armed", "dropped"},
     since: Version,
     reply: Version \cup {None, Refusal}]

Unused == [stage |-> "unused", scope |-> Page, timer |-> "off",
           since |-> 0, reply |-> None]

UnderWay(f) == fetch[f].stage \in {"connecting", "asked"}
Quiet == \A f \in Fetch : ~UnderWay(f)
Mounted == {u \in User : life[u] = "mounted"}

Init ==
    /\ published = FALSE
    /\ life = [u \in User |-> "new"]
    /\ handlerScope = None
    /\ listening = FALSE
    /\ fetch = [f \in Fetch |-> Unused]
    /\ fetchPromise = None
    /\ isLoadingModels = FALSE
    /\ modelsError = FALSE
    /\ models = None
    /\ catalog = 0
    /\ pushes = {}
    /\ heard = 0
    /\ lastEnd = None
    /\ overlapped = FALSE

-----------------------------------------------------------------------------
(* Fetching                                                                *)

\* initializeModels with no promise to await: every caller of the page is the
\* first (main.ts) or has just dropped the promise.
Begin(f, scope) ==
    /\ \A g \in Fetch : fetch[g].stage = "unused" <=> g >= f
    /\ fetch' = [fetch EXCEPT ![f] = [Unused EXCEPT !.stage = "connecting",
                                                    !.scope = scope,
                                                    !.since = catalog]]
    /\ fetchPromise' = f
    /\ isLoadingModels' = TRUE
    /\ modelsError' = FALSE
    /\ overlapped' = (overlapped \/ ~Quiet)
    /\ UNCHANGED <<models, lastEnd>>

\* Mutant: the promise is kept.
EndKeepsPromise(f, result) ==
    /\ fetch' = [fetch EXCEPT ![f].stage = "ended", ![f].timer = "off"]
    /\ fetchPromise' = IF fetchPromise = None THEN f ELSE fetchPromise
    /\ isLoadingModels' = FALSE
    /\ modelsError' = (result = "failed")
    /\ lastEnd' = result
    /\ UNCHANGED <<page, server, heard, overlapped>>

\* Mutant: a success leaves the error of an earlier fetch.
EndKeepsError(f, result) ==
    /\ fetch' = [fetch EXCEPT ![f].stage = "ended", ![f].timer = "off"]
    /\ fetchPromise' = None
    /\ isLoadingModels' = FALSE
    /\ modelsError' = (modelsError \/ result = "failed")
    /\ lastEnd' = result
    /\ UNCHANGED <<page, server, heard, overlapped>>

\* What follows the await of the promise, whichever the promise is by then.
End(f, result) ==
    /\ fetch' = [fetch EXCEPT ![f].stage = "ended", ![f].timer = "off"]
    /\ fetchPromise' = None
    /\ isLoadingModels' = FALSE
    /\ modelsError' = (result = "failed")
    /\ lastEnd' = result
    /\ UNCHANGED <<page, server, heard, overlapped>>

\* Mutant: no timer.
ConnectedUntimed(f) ==
    /\ fetch[f].stage = "connecting"
    /\ fetch' = [fetch EXCEPT ![f].stage = "asked"]
    /\ UNCHANGED <<page, server, shown, heard, overlapped>>

Connected(f) ==
    /\ fetch[f].stage = "connecting"
    /\ fetch' = [fetch EXCEPT ![f].stage = "asked", ![f].timer = "armed"]
    /\ UNCHANGED <<page, server, shown, heard, overlapped>>

Unreachable(f) ==
    /\ fetch[f].stage = "connecting"
    /\ End(f, "failed")
    /\ UNCHANGED models

\* The server reads its list, or refuses; the answer may take its time.
ServerAnswers(f) ==
    /\ fetch[f].stage = "asked"
    /\ fetch[f].reply = None
    /\ \E r \in {catalog, Refusal} : fetch' = [fetch EXCEPT ![f].reply = r]
    /\ UNCHANGED <<page, server, shown, heard, overlapped>>

\* Mutant: a list that was loaded is not loaded again.
SucceedsOnce(f) ==
    /\ fetch[f].stage = "asked"
    /\ fetch[f].reply \in Version
    /\ models' = IF models = None THEN fetch[f].reply ELSE models
    /\ End(f, "ok")

Succeeds(f) ==
    /\ fetch[f].stage = "asked"
    /\ fetch[f].reply \in Version
    /\ models' = fetch[f].reply
    /\ End(f, "ok")

IsRefused(f) ==
    /\ fetch[f].stage = "asked"
    /\ fetch[f].reply = Refusal
    /\ End(f, "failed")
    /\ UNCHANGED models

TimesOut(f) ==
    /\ fetch[f].stage = "asked"
    /\ fetch[f].timer = "armed"
    /\ End(f, "failed")
    /\ UNCHANGED models

-----------------------------------------------------------------------------
(* The page                                                                *)

\* main.ts publishes the manager and fetches; the watchers of the mounted
\* components attach the handler, which is made for the first of them.
Boot(f) ==
    /\ ~published
    /\ published' = TRUE
    /\ Begin(f, Page)
    /\ listening' = (Mounted # {})
    /\ IF Mounted = {} THEN UNCHANGED handlerScope
                       ELSE handlerScope' \in Mounted
    /\ UNCHANGED <<life, server, heard>>

Mount(u) ==
    /\ life[u] = "new"
    /\ life' = [life EXCEPT ![u] = "mounted"]
    /\ listening' = published
    /\ handlerScope' = IF published /\ handlerScope = None THEN u ELSE handlerScope
    /\ UNCHANGED <<published, fetch, shown, server, heard, overlapped>>

\* The scope's timers are cancelled, the shared handler goes off the socket.
Unmount(u) ==
    /\ life[u] = "mounted"
    /\ life' = [life EXCEPT ![u] = "gone"]
    /\ listening' = FALSE
    /\ fetch' = [f \in Fetch |->
                    IF fetch[f].scope = u /\ fetch[f].timer = "armed"
                    THEN [fetch[f] EXCEPT !.timer = "dropped"] ELSE fetch[f]]
    /\ UNCHANGED <<published, handlerScope, shown, server, heard, overlapped>>

Reload(u, f) ==
    /\ published
    /\ life[u] = "mounted"
    /\ Begin(f, u)
    /\ UNCHANGED <<page, server, heard>>

ReloadTooEarly(u) ==
    /\ ~published
    /\ life[u] = "mounted"
    /\ modelsError' = TRUE
    /\ lastEnd' = "failed"
    /\ UNCHANGED <<page, server, fetch, fetchPromise, isLoadingModels, models, heard,
                   overlapped>>

ServerUpdates ==
    /\ catalog < MaxVersion
    /\ catalog' = catalog + 1
    /\ pushes' = pushes \cup {catalog + 1}
    /\ UNCHANGED <<page, fetch, shown, heard, overlapped>>

\* Mutant: the handler awaits the running fetch if there is one.
HearUpdateJoins(f) ==
    /\ listening
    /\ \E v \in pushes : /\ pushes' = pushes \ {v}
                         /\ heard' = IF v > heard THEN v ELSE heard
    /\ IF fetchPromise = None THEN Begin(f, handlerScope)
                              ELSE UNCHANGED <<fetch, shown, overlapped>>
    /\ UNCHANGED <<page, catalog>>

\* The handler of models:updated drops the promise and fetches.
HearUpdate(f) ==
    /\ listening
    /\ \E v \in pushes : /\ pushes' = pushes \ {v}
                         /\ heard' = IF v > heard THEN v ELSE heard
    /\ Begin(f, handlerScope)
    /\ UNCHANGED <<page, catalog>>

MissUpdate ==
    /\ ~listening
    /\ \E v \in pushes : pushes' = pushes \ {v}
    /\ UNCHANGED <<page, fetch, shown, catalog, heard, overlapped>>

Next ==
    \/ \E f \in Fetch :
          \/ Boot(f)
          \/ HearUpdate(f)
          \/ Connected(f)
          \/ Unreachable(f)
          \/ ServerAnswers(f)
          \/ Succeeds(f)
          \/ IsRefused(f)
          \/ TimesOut(f)
          \/ \E u \in User : Reload(u, f)
    \/ \E u \in User : Mount(u) \/ Unmount(u) \/ ReloadTooEarly(u)
    \/ ServerUpdates
    \/ MissUpdate

\* waitForConnection settles (SocketManager) and armed timers go off; the
\* server may never answer.
Fairness ==
    \A f \in Fetch : /\ WF_vars(Connected(f) \/ Unreachable(f))
                     /\ WF_vars(TimesOut(f))

Spec == Init /\ [][Next]_vars /\ Fairness

-----------------------------------------------------------------------------
(* Properties                                                              *)

TypeOK ==
    /\ published \in BOOLEAN
    /\ life \in [User -> {"new", "mounted", "gone"}]
    /\ handlerScope \in User \cup {None}
    /\ listening \in BOOLEAN
    /\ fetch \in [Fetch -> FetchState]
    /\ fetchPromise \in Fetch \cup {None}
    /\ isLoadingModels \in BOOLEAN
    /\ modelsError \in BOOLEAN
    /\ models \in Version \cup {None}
    /\ catalog \in Version
    /\ pushes \subseteq Version
    /\ heard \in Version
    /\ lastEnd \in {None, "ok", "failed"}
    /\ overlapped \in BOOLEAN

\* A component that asks for the list is never handed the promise of a fetch
\* that has ended, and a spinner is only shown while a fetch is under way: the
\* end of one fetch may clear what belongs to another, never leave it behind.
PromiseIsRunning ==
    /\ fetchPromise # None => UnderWay(fetchPromise)
    /\ isLoadingModels => \E f \in Fetch : UnderWay(f)

\* An update that was heard is never served by a fetch asked before it: some
\* fetch was begun at the version the update told of, or a later one.
UpdateIsFollowed ==
    heard > 0 => \E f \in Fetch : fetch[f].stage # "unused" /\ fetch[f].since >= heard

\* As long as no two fetches have been under way together, the list at rest is
\* the one the last heard update announced, or newer, unless an error is shown.
\* (With overlapping fetches it may be older: answers overtake each other.)
FreshUnlessOverlapped ==
    (Quiet /\ ~overlapped /\ ~modelsError /\ lastEnd # None) =>
        /\ models # None
        /\ models >= heard

\* At rest, the error shown tells how the fetch that ended last went.
ErrorIsOfLastFetch == Quiet => (modelsError <=> lastEnd = "failed")

\* Every fetch ends, unless the component that asked was unmounted first: its
\* timer is cancelled and only the server's answer can end the fetch.
FetchEnds ==
    \A f \in Fetch : UnderWay(f) ~> (~UnderWay(f) \/ fetch[f].timer = "dropped")

=============================================================================
