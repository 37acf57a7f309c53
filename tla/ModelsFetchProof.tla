-------------------------- MODULE ModelsFetchProof --------------------------
(***************************************************************************)
(* Proofs about the list of models, for any number of components, fetches  *)
(* and changes of the server's list.                                       *)
(***************************************************************************)
EXTENDS ModelsFetch, TLAPS

\* Versions travel one way: what is announced, heard, asked from or answered
\* is never newer than the server's list, and an answer never older than the
\* fetch it answers.
VersionsInOrder ==
    /\ \A v \in pushes : v <= catalog
    /\ heard <= catalog
    /\ \A f \in Fetch : /\ fetch[f].since <= catalog
                        /\ fetch[f].reply \in Version => fetch[f].since <= fetch[f].reply

\* While no two fetches have overlapped, the only one under way was begun
\* after the last update that was heard, and what the last successful one
\* left is as new.
AloneIsFresh ==
    ~overlapped =>
        /\ \A f, g \in Fetch : UnderWay(f) /\ UnderWay(g) => f = g
        /\ \A f \in Fetch : UnderWay(f) => heard <= fetch[f].since
        /\ (Quiet /\ lastEnd = "ok") => (models # None /\ models >= heard)
        /\ (Quiet /\ lastEnd = None) => heard = 0

\* A handler that listens has a scope for the timers of its fetches.
HandlerMade == listening => handlerScope # None

IndInv ==
    /\ TypeOK
    /\ HandlerMade
    /\ VersionsInOrder
    /\ PromiseIsRunning
    /\ UpdateIsFollowed
    /\ ErrorIsOfLastFetch
    /\ AloneIsFresh

-----------------------------------------------------------------------------
(* The initial state                                                       *)

LEMMA InitKeeps == Init => IndInv
<1> SUFFICES ASSUME Init PROVE IndInv
    OBVIOUS
<1> USE ModelsAssumption DEF Init, Version, Fetch
<1>1. /\ Unused \in FetchState
      /\ Unused.stage = "unused" /\ Unused.since = 0 /\ Unused.reply = None
    BY DEF Unused, FetchState
<1>0. /\ fetch \in [Fetch -> FetchState]
      /\ \A f \in Fetch : fetch[f] = Unused
    BY <1>1
<1>2. TypeOK
    <2>1. life \in [User -> {"new", "mounted", "gone"}]
        OBVIOUS
    <2>2. catalog \in Version /\ heard \in Version /\ pushes \subseteq Version
        OBVIOUS
    <2> QED
        BY <1>0, <2>1, <2>2 DEF TypeOK
<1>3. VersionsInOrder
    BY <1>0, <1>1 DEF VersionsInOrder
<1>4. Quiet
    BY <1>0, <1>1 DEF Quiet, UnderWay
<1>5. AloneIsFresh
    BY <1>4 DEF AloneIsFresh, Quiet, UnderWay
<1> QED
    BY <1>2, <1>3, <1>5 DEF IndInv, HandlerMade, PromiseIsRunning, UpdateIsFollowed,
       ErrorIsOfLastFetch

-----------------------------------------------------------------------------
(* A fetch begins: what the caller of Begin may change besides             *)

LEMMA BeginKeeps ==
    ASSUME IndInv, NEW f \in Fetch, NEW scope \in User \cup {Page},
           Begin(f, scope),
           published' \in BOOLEAN, listening' \in BOOLEAN,
           life' \in [User -> {"new", "mounted", "gone"}],
           handlerScope' \in User \cup {None}, HandlerMade',
           catalog' = catalog, pushes' \subseteq pushes,
           heard' \in Version, heard' <= catalog
    PROVE  IndInv'
<1> USE ModelsAssumption DEF Version
<1> DEFINE new == [Unused EXCEPT !.stage = "connecting", !.scope = scope, !.since = catalog]
<1>1. TypeOK /\ VersionsInOrder /\ AloneIsFresh
    BY DEF IndInv
<1>2. /\ fetch[f].stage = "unused"
      /\ fetch' = [fetch EXCEPT ![f] = new]
      /\ fetchPromise' = f /\ isLoadingModels' = TRUE /\ modelsError' = FALSE
      /\ overlapped' = (overlapped \/ ~Quiet)
      /\ models' = models /\ lastEnd' = lastEnd
    BY DEF Begin, Fetch
<1>3. new \in FetchState /\ new.stage = "connecting" /\ new.since = catalog /\ new.reply = None
    BY <1>1 DEF FetchState, Unused, TypeOK
<1> HIDE DEF new
<1>4. fetch' \in [Fetch -> FetchState]
    BY <1>1, <1>2, <1>3 DEF TypeOK
<1>5. fetch'[f] = new /\ \A g \in Fetch : g # f => fetch'[g] = fetch[g]
    BY <1>1, <1>2 DEF TypeOK
<1>6. TypeOK'
    BY <1>1, <1>2, <1>4 DEF TypeOK
<1>7. VersionsInOrder'
    BY <1>1, <1>2, <1>3, <1>5 DEF VersionsInOrder, TypeOK, FetchState
<1>8. UnderWay(f)'
    BY <1>5, <1>3 DEF UnderWay
<1>9. PromiseIsRunning' /\ ErrorIsOfLastFetch'
    BY <1>2, <1>8 DEF PromiseIsRunning, ErrorIsOfLastFetch, Quiet
<1>10. UpdateIsFollowed'
    BY <1>3, <1>5, <1>1 DEF UpdateIsFollowed, TypeOK
<1>11. AloneIsFresh'
    <2> SUFFICES ASSUME ~overlapped' PROVE AloneIsFresh'
        BY DEF AloneIsFresh
    <2>1. \A g \in Fetch : g # f => ~UnderWay(g)'
        BY <1>2, <1>5 DEF Quiet, UnderWay
    <2>2. ~Quiet'
        BY <1>8 DEF Quiet
    <2>3. heard' <= fetch'[f].since
        BY <1>3, <1>5
    <2> QED
        BY <2>1, <2>2, <2>3 DEF AloneIsFresh
<1> QED
    BY <1>6, <1>7, <1>9, <1>10, <1>11 DEF IndInv

-----------------------------------------------------------------------------
(* A fetch ends                                                            *)

LEMMA EndKeeps ==
    ASSUME IndInv, NEW f \in Fetch, NEW result \in {"ok", "failed"},
           UnderWay(f), End(f, result),
           \/ result = "failed" /\ models' = models
           \/ result = "ok" /\ fetch[f].reply \in Version /\ models' = fetch[f].reply
    PROVE  IndInv'
<1> USE ModelsAssumption DEF Version
<1>1. TypeOK /\ VersionsInOrder /\ AloneIsFresh /\ HandlerMade /\ UpdateIsFollowed
    BY DEF IndInv
<1>2. /\ fetch' = [fetch EXCEPT ![f].stage = "ended", ![f].timer = "off"]
      /\ fetchPromise' = None /\ isLoadingModels' = FALSE
      /\ modelsError' = (result = "failed") /\ lastEnd' = result
      /\ UNCHANGED <<published, life, handlerScope, listening, catalog, pushes, heard, overlapped>>
    BY DEF End, page, server
<1>3. fetch[f] \in FetchState
    BY <1>1 DEF TypeOK
<1>4. /\ fetch'[f] = [fetch[f] EXCEPT !.stage = "ended", !.timer = "off"]
      /\ \A g \in Fetch : g # f => fetch'[g] = fetch[g]
    BY <1>1, <1>2 DEF TypeOK
<1>5. /\ fetch'[f] \in FetchState
      /\ fetch'[f].stage = "ended"
      /\ fetch'[f].since = fetch[f].since
      /\ fetch'[f].reply = fetch[f].reply
    BY <1>3, <1>4 DEF FetchState
<1>6. fetch' \in [Fetch -> FetchState]
    BY <1>1, <1>2, <1>4, <1>5 DEF TypeOK
<1>7. TypeOK'
    <2>1. models' \in Version \cup {None}
        BY <1>1 DEF TypeOK
    <2> QED
        BY <1>1, <1>2, <1>6, <2>1 DEF TypeOK
<1>8. VersionsInOrder'
    BY <1>1, <1>2, <1>4, <1>5 DEF VersionsInOrder
<1>9. isLoadingModels' = FALSE /\ fetchPromise' = None
    BY <1>2
<1>10. PromiseIsRunning'
    BY <1>9 DEF PromiseIsRunning
<1>11. ErrorIsOfLastFetch'
    BY <1>2 DEF ErrorIsOfLastFetch
<1>12. UpdateIsFollowed'
    BY <1>1, <1>2, <1>4, <1>5 DEF UpdateIsFollowed
<1>13. AloneIsFresh'
    <2> SUFFICES ASSUME ~overlapped' PROVE AloneIsFresh'
        BY DEF AloneIsFresh
    <2>1. /\ ~overlapped
          /\ \A g \in Fetch : UnderWay(g) => g = f
          /\ heard <= fetch[f].since
        BY <1>1, <1>2 DEF AloneIsFresh
    <2>2. \A g \in Fetch : ~UnderWay(g)'
        BY <1>4, <1>5, <2>1 DEF UnderWay
    <2>3. lastEnd' = "ok" => (models' # None /\ models' >= heard')
        BY <1>1, <1>2, <2>1 DEF VersionsInOrder, TypeOK, FetchState
    <2> QED
        BY <1>2, <2>2, <2>3, ModelsAssumption DEF AloneIsFresh
<1>14. HandlerMade'
    BY <1>1, <1>2 DEF HandlerMade
<1> QED
    BY <1>7, <1>8, <1>10, <1>11, <1>12, <1>13, <1>14 DEF IndInv

-----------------------------------------------------------------------------
(* A fetch goes on, or its timer is dropped: neither its beginning, nor    *)
(* whether it is under way, changes.                                       *)

LEMMA FetchGoesOn ==
    ASSUME IndInv,
           fetch' \in [Fetch -> FetchState],
           \A f \in Fetch :
              /\ UnderWay(f)' <=> UnderWay(f)
              /\ fetch'[f].stage = "unused" <=> fetch[f].stage = "unused"
              /\ fetch'[f].since = fetch[f].since
              /\ fetch'[f].reply \in Version => fetch[f].since <= fetch'[f].reply,
           published' \in BOOLEAN, listening' \in BOOLEAN,
           life' \in [User -> {"new", "mounted", "gone"}],
           handlerScope' \in User \cup {None}, HandlerMade',
           catalog' \in Version, catalog <= catalog',
           pushes' \subseteq pushes \cup {catalog'},
           UNCHANGED <<shown, heard, overlapped>>
    PROVE  IndInv'
<1> USE ModelsAssumption DEF Version, shown
<1>1. TypeOK /\ VersionsInOrder /\ AloneIsFresh /\ UpdateIsFollowed /\ PromiseIsRunning
      /\ ErrorIsOfLastFetch
    BY DEF IndInv
<1>2. Quiet' <=> Quiet
    BY DEF Quiet
<1>3. TypeOK'
    BY <1>1 DEF TypeOK
<1>4. VersionsInOrder'
    BY <1>1 DEF VersionsInOrder, TypeOK, FetchState
<1>5. PromiseIsRunning' /\ ErrorIsOfLastFetch'
    BY <1>1, <1>2 DEF PromiseIsRunning, ErrorIsOfLastFetch, TypeOK
<1>6. UpdateIsFollowed'
    BY <1>1 DEF UpdateIsFollowed
<1>7. AloneIsFresh'
    BY <1>1, <1>2 DEF AloneIsFresh
<1> QED
    BY <1>3, <1>4, <1>5, <1>6, <1>7 DEF IndInv

-----------------------------------------------------------------------------
(* Every step                                                              *)

LEMMA StepKeeps == IndInv /\ [Next]_vars => IndInv'
<1> SUFFICES ASSUME IndInv, [Next]_vars PROVE IndInv'
    OBVIOUS
<1> USE ModelsAssumption DEF Version
<1>1. TypeOK /\ VersionsInOrder /\ HandlerMade
    BY DEF IndInv
<1>2. \A f \in Fetch : fetch[f] \in FetchState
    BY <1>1 DEF TypeOK
<1>3. ASSUME NEW f \in Fetch, Boot(f) PROVE IndInv'
    <2>1. handlerScope' \in User \cup {None} /\ (listening' => handlerScope' # None)
        BY <1>1, <1>3 DEF Boot, Mounted, TypeOK
    <2> QED
        BY <1>1, <1>3, <2>1, BeginKeeps DEF Boot, TypeOK, HandlerMade, server, VersionsInOrder
<1>4. ASSUME NEW f \in Fetch, HearUpdate(f) PROVE IndInv'
    <2>1. handlerScope \in User
        BY <1>1, <1>4 DEF HearUpdate, HandlerMade, TypeOK
    <2>2. pushes' \subseteq pushes /\ heard' \in Version /\ heard' <= catalog
        BY <1>1, <1>4 DEF HearUpdate, TypeOK, VersionsInOrder
    <2> QED
        BY <1>1, <1>4, <2>1, <2>2, BeginKeeps DEF HearUpdate, TypeOK, HandlerMade, page
<1>5. ASSUME NEW u \in User, NEW f \in Fetch, Reload(u, f) PROVE IndInv'
    BY <1>1, <1>5, BeginKeeps DEF Reload, TypeOK, HandlerMade, page, server, VersionsInOrder
<1>6. ASSUME NEW f \in Fetch, Unreachable(f) PROVE IndInv'
    <2>1. UnderWay(f)
        BY <1>6 DEF Unreachable, UnderWay
    <2> QED
        BY <1>6, <2>1, EndKeeps DEF Unreachable
<1>7. ASSUME NEW f \in Fetch, Succeeds(f) PROVE IndInv'
    <2>1. UnderWay(f)
        BY <1>7 DEF Succeeds, UnderWay
    <2> QED
        BY <1>7, <2>1, EndKeeps DEF Succeeds
<1>8. ASSUME NEW f \in Fetch, IsRefused(f) PROVE IndInv'
    <2>1. UnderWay(f)
        BY <1>8 DEF IsRefused, UnderWay
    <2> QED
        BY <1>8, <2>1, EndKeeps DEF IsRefused
<1>9. ASSUME NEW f \in Fetch, TimesOut(f) PROVE IndInv'
    <2>1. UnderWay(f)
        BY <1>9 DEF TimesOut, UnderWay
    <2> QED
        BY <1>9, <2>1, EndKeeps DEF TimesOut
<1>10. ASSUME NEW f \in Fetch, Connected(f) PROVE IndInv'
    <2> DEFINE next == [fetch[f] EXCEPT !.stage = "asked", !.timer = "armed"]
    <2>1. fetch' = [fetch EXCEPT ![f] = next] /\ fetch[f].stage = "connecting"
        BY <1>1, <1>10 DEF Connected, TypeOK
    <2>2. /\ next \in FetchState /\ next.stage = "asked"
          /\ next.since = fetch[f].since /\ next.reply = fetch[f].reply
        BY <1>2 DEF FetchState
    <2> HIDE DEF next
    <2>3. fetch' \in [Fetch -> FetchState] /\ fetch'[f] = next
          /\ \A g \in Fetch : g # f => fetch'[g] = fetch[g]
        BY <1>1, <2>1, <2>2 DEF TypeOK
    <2>4. \A g \in Fetch :
              /\ UnderWay(g)' <=> UnderWay(g)
              /\ fetch'[g].stage = "unused" <=> fetch[g].stage = "unused"
              /\ fetch'[g].since = fetch[g].since
              /\ fetch'[g].reply \in Version => fetch[g].since <= fetch'[g].reply
        BY <1>1, <2>1, <2>2, <2>3 DEF UnderWay, VersionsInOrder
    <2> QED
        BY <1>1, <1>10, <2>3, <2>4, FetchGoesOn DEF Connected, TypeOK, HandlerMade, page, server
<1>11. ASSUME NEW f \in Fetch, ServerAnswers(f) PROVE IndInv'
    <2>0. PICK r \in {catalog, Refusal} : fetch' = [fetch EXCEPT ![f].reply = r]
        BY <1>11 DEF ServerAnswers
    <2> DEFINE next == [fetch[f] EXCEPT !.reply = r]
    <2>1. fetch' = [fetch EXCEPT ![f] = next]
        BY <1>1, <2>0 DEF TypeOK
    <2>2. /\ next \in FetchState /\ next.stage = fetch[f].stage
          /\ next.since = fetch[f].since /\ next.reply = r
        BY <1>1, <1>2 DEF FetchState, TypeOK
    <2> HIDE DEF next
    <2>3. fetch' \in [Fetch -> FetchState] /\ fetch'[f] = next
          /\ \A g \in Fetch : g # f => fetch'[g] = fetch[g]
        BY <1>1, <2>1, <2>2 DEF TypeOK
    <2>4. \A g \in Fetch :
              /\ UnderWay(g)' <=> UnderWay(g)
              /\ fetch'[g].stage = "unused" <=> fetch[g].stage = "unused"
              /\ fetch'[g].since = fetch[g].since
              /\ fetch'[g].reply \in Version => fetch[g].since <= fetch'[g].reply
        BY <1>1, <2>0, <2>2, <2>3 DEF UnderWay, VersionsInOrder
    <2> QED
        BY <1>1, <1>11, <2>3, <2>4, FetchGoesOn DEF ServerAnswers, TypeOK, HandlerMade, page, server
<1>12. ASSUME NEW u \in User, Unmount(u) PROVE IndInv'
    <2>1. /\ fetch' \in [Fetch -> FetchState]
          /\ \A g \in Fetch :
                /\ fetch'[g].stage = fetch[g].stage
                /\ fetch'[g].since = fetch[g].since
                /\ fetch'[g].reply = fetch[g].reply
        <3>1. \A g \in Fetch :
                 /\ [fetch[g] EXCEPT !.timer = "dropped"] \in FetchState
                 /\ [fetch[g] EXCEPT !.timer = "dropped"].stage = fetch[g].stage
                 /\ [fetch[g] EXCEPT !.timer = "dropped"].since = fetch[g].since
                 /\ [fetch[g] EXCEPT !.timer = "dropped"].reply = fetch[g].reply
            BY <1>2 DEF FetchState
        <3> QED
            BY <1>2, <1>12, <3>1 DEF Unmount
    <2>2. \A g \in Fetch :
              /\ UnderWay(g)' <=> UnderWay(g)
              /\ fetch'[g].stage = "unused" <=> fetch[g].stage = "unused"
              /\ fetch'[g].since = fetch[g].since
              /\ fetch'[g].reply \in Version => fetch[g].since <= fetch'[g].reply
        BY <1>1, <2>1 DEF UnderWay, VersionsInOrder
    <2>3. life' \in [User -> {"new", "mounted", "gone"}]
        BY <1>1, <1>12 DEF Unmount, TypeOK
    <2>4. /\ published' = published /\ handlerScope' = handlerScope /\ listening' = FALSE
          /\ catalog' = catalog /\ pushes' = pushes
          /\ UNCHANGED <<shown, heard, overlapped>>
        BY <1>12 DEF Unmount, server
    <2>5. published' \in BOOLEAN /\ handlerScope' \in User \cup {None}
        BY <1>1, <2>4 DEF TypeOK
    <2>7. listening' \in BOOLEAN /\ HandlerMade'
        BY <2>4 DEF HandlerMade
    <2>8. catalog' \in Version /\ catalog <= catalog'
        BY <1>1, <2>4 DEF TypeOK
    <2>9. pushes' \subseteq pushes \cup {catalog'}
        BY <2>4
    <2>6. fetch' \in [Fetch -> FetchState]
        BY <2>1
    <2> QED
        BY <2>2, <2>3, <2>4, <2>5, <2>6, <2>7, <2>8, <2>9, FetchGoesOn
<1>13. ASSUME UNCHANGED fetch
       PROVE  /\ fetch' \in [Fetch -> FetchState]
              /\ \A g \in Fetch :
                    /\ UnderWay(g)' <=> UnderWay(g)
                    /\ fetch'[g].stage = "unused" <=> fetch[g].stage = "unused"
                    /\ fetch'[g].since = fetch[g].since
                    /\ fetch'[g].reply \in Version => fetch[g].since <= fetch'[g].reply
    BY <1>1, <1>13 DEF UnderWay, TypeOK, VersionsInOrder
<1>14. ASSUME NEW u \in User, Mount(u) PROVE IndInv'
    <2>1. life' \in [User -> {"new", "mounted", "gone"}]
          /\ handlerScope' \in User \cup {None} /\ (listening' => handlerScope' # None)
        BY <1>1, <1>14 DEF Mount, TypeOK
    <2> QED
        BY <1>1, <1>13, <1>14, <2>1, FetchGoesOn DEF Mount, TypeOK, HandlerMade, server
<1>18. ASSUME NEW u \in User, ReloadTooEarly(u) PROVE IndInv'
    <2>1. /\ modelsError' = TRUE /\ lastEnd' = "failed"
          /\ UNCHANGED <<published, life, handlerScope, listening, catalog, pushes, fetch,
                         fetchPromise, isLoadingModels, models, heard, overlapped>>
        BY <1>18 DEF ReloadTooEarly, page, server
    <2>2. TypeOK' /\ VersionsInOrder' /\ HandlerMade'
        BY <1>1, <2>1 DEF TypeOK, VersionsInOrder, HandlerMade
    <2>3. PromiseIsRunning' /\ UpdateIsFollowed'
        BY <2>1 DEF IndInv, PromiseIsRunning, UpdateIsFollowed, UnderWay
    <2>4. AloneIsFresh'
        BY <2>1 DEF IndInv, AloneIsFresh, Quiet, UnderWay
    <2>5. ErrorIsOfLastFetch'
        BY <2>1 DEF ErrorIsOfLastFetch
    <2> QED
        BY <2>2, <2>3, <2>4, <2>5 DEF IndInv
<1>15. CASE ServerUpdates
    BY <1>1, <1>13, <1>15, FetchGoesOn DEF ServerUpdates, TypeOK, HandlerMade, page
<1>16. CASE MissUpdate
    BY <1>1, <1>13, <1>16, FetchGoesOn DEF MissUpdate, TypeOK, HandlerMade, page
<1>17. CASE UNCHANGED vars
    BY <1>1, <1>13, <1>17, FetchGoesOn DEF vars, shown, TypeOK, HandlerMade
<1> QED
    BY <1>3, <1>4, <1>5, <1>6, <1>7, <1>8, <1>9, <1>10, <1>11, <1>12, <1>14, <1>15,
       <1>16, <1>17, <1>18 DEF Next

-----------------------------------------------------------------------------
(* The theorems                                                            *)

LEMMA Invariance == Spec => []IndInv
    BY InitKeeps, StepKeeps, PTL DEF Spec

\* Type correctness of the fetches and of what the page shows.
THEOREM ModelsTypeCorrect == Spec => []TypeOK
    BY Invariance, PTL DEF IndInv

\* No caller is handed a promise of a fetch that has ended (initializeModels).
THEOREM PromiseRuns == Spec => []PromiseIsRunning
    BY Invariance, PTL DEF IndInv

\* Every update that was heard has a fetch asked after it.
THEOREM UpdatesFollowed == Spec => []UpdateIsFollowed
    BY Invariance, PTL DEF IndInv

\* At rest the error shown is the one of the fetch that ended last.
THEOREM ErrorTold == Spec => []ErrorIsOfLastFetch
    BY Invariance, PTL DEF IndInv

\* Unless fetches overlapped, the list at rest is as new as the last update.
THEOREM FreshAlone == Spec => []FreshUnlessOverlapped
<1>1. IndInv => FreshUnlessOverlapped
    BY ModelsAssumption DEF IndInv, FreshUnlessOverlapped, AloneIsFresh, ErrorIsOfLastFetch,
       TypeOK
<1> QED
    BY <1>1, Invariance, PTL

-----------------------------------------------------------------------------
(* The list never goes back to an older one, unless fetches overlapped     *)

\* What is shown and what is answered are not newer than the server's list,
\* and what is shown is not newer than the fetch under way was asked from.
ShownInOrder ==
    /\ models \in Version => models <= catalog
    /\ \A f \in Fetch : fetch[f].reply \in Version => fetch[f].reply <= catalog
    /\ ~overlapped /\ models \in Version =>
           \A f \in Fetch : UnderWay(f) => models <= fetch[f].since

\* A list that replaces another is as new, or newer: an answer can only bring
\* an older list if it crossed that of another fetch.
NeverStaler ==
    [][~overlapped' /\ models \in Version => models' \in Version /\ models' >= models]_vars

\* How a step changes one fetch and what is shown.
LEMMA FetchMoves ==
    ASSUME IndInv, [Next]_vars
    PROVE  \/ \E f \in Fetch, scope \in User \cup {Page, None} :
                  Begin(f, scope) /\ UNCHANGED catalog
           \/ \E f \in Fetch : \E result \in {"ok", "failed"} :
                  /\ UnderWay(f) /\ End(f, result)
                  /\ \/ models' = models
                     \/ fetch[f].reply \in Version /\ models' = fetch[f].reply
           \/ /\ \A f \in Fetch :
                    /\ UnderWay(f)' <=> UnderWay(f)
                    /\ fetch'[f].since = fetch[f].since
                    /\ fetch'[f].reply \in {fetch[f].reply, catalog, Refusal}
              /\ catalog' \in {catalog, catalog + 1}
              /\ UNCHANGED <<models, overlapped>>
<1> DEFINE Goes ==
        \A f \in Fetch :
            /\ UnderWay(f)' <=> UnderWay(f)
            /\ fetch'[f].since = fetch[f].since
            /\ fetch'[f].reply \in {fetch[f].reply, catalog, Refusal}
<1>0. fetch \in [Fetch -> FetchState] /\ handlerScope \in User \cup {None}
    BY DEF IndInv, TypeOK
<1>1. ASSUME NEW f \in Fetch, Boot(f) \/ HearUpdate(f) \/ \E u \in User : Reload(u, f)
      PROVE  /\ \E scope \in User \cup {Page, None} : Begin(f, scope)
             /\ UNCHANGED catalog
    BY <1>0, <1>1 DEF Boot, HearUpdate, Reload, server
<1>2. ASSUME NEW f \in Fetch, Unreachable(f) \/ Succeeds(f) \/ IsRefused(f) \/ TimesOut(f)
      PROVE  \E result \in {"ok", "failed"} :
                /\ UnderWay(f) /\ End(f, result)
                /\ \/ models' = models
                   \/ fetch[f].reply \in Version /\ models' = fetch[f].reply
    BY <1>2 DEF Unreachable, Succeeds, IsRefused, TimesOut, UnderWay
<1>3. ASSUME NEW f \in Fetch, Connected(f)
      PROVE  Goes /\ UNCHANGED <<catalog, models, overlapped>>
    <2>1. fetch' = [fetch EXCEPT ![f] = [fetch[f] EXCEPT !.stage = "asked", !.timer = "armed"]]
        BY <1>0, <1>3 DEF Connected
    <2>2. fetch[f].stage = "connecting"
        BY <1>3 DEF Connected
    <2>3. Goes
        BY <1>0, <2>1, <2>2 DEF UnderWay, FetchState
    <2> QED
        BY <1>3, <2>3 DEF Connected, server, shown
<1>4. ASSUME NEW f \in Fetch, ServerAnswers(f)
      PROVE  Goes /\ UNCHANGED <<catalog, models, overlapped>>
    <2>1. PICK r \in {catalog, Refusal} :
              fetch' = [fetch EXCEPT ![f] = [fetch[f] EXCEPT !.reply = r]]
        BY <1>0, <1>4 DEF ServerAnswers
    <2>2. Goes
        BY <1>0, <2>1 DEF UnderWay, FetchState
    <2> QED
        BY <1>4, <2>2 DEF ServerAnswers, server, shown
<1>5. ASSUME NEW u \in User, Unmount(u)
      PROVE  Goes /\ UNCHANGED <<catalog, models, overlapped>>
    <2>1. Goes
        BY <1>0, <1>5 DEF Unmount, UnderWay, FetchState
    <2> QED
        BY <1>5, <2>1 DEF Unmount, server, shown
<1>6. UNCHANGED fetch => Goes
    BY DEF UnderWay
<1>7. ASSUME \/ \E u \in User : Mount(u) \/ ReloadTooEarly(u)
             \/ MissUpdate \/ UNCHANGED vars
      PROVE  Goes /\ UNCHANGED <<catalog, models, overlapped>>
    BY <1>6, <1>7 DEF Mount, ReloadTooEarly, MissUpdate, vars, server, shown
<1>8. CASE ServerUpdates
    BY <1>6, <1>8 DEF ServerUpdates, shown
<1> QED
    BY <1>1, <1>2, <1>3, <1>4, <1>5, <1>7, <1>8 DEF Next

LEMMA ShownKept == IndInv /\ ShownInOrder /\ [Next]_vars => ShownInOrder'
<1> SUFFICES ASSUME IndInv, ShownInOrder, [Next]_vars PROVE ShownInOrder'
    OBVIOUS
<1> USE ModelsAssumption DEF Version
<1>0. /\ fetch \in [Fetch -> FetchState] /\ catalog \in Version
      /\ models \in Version \cup {None} /\ overlapped \in BOOLEAN
    BY DEF IndInv, TypeOK
<1>1. ASSUME NEW f \in Fetch, NEW scope, Begin(f, scope), UNCHANGED catalog
      PROVE  ShownInOrder'
    <2> DEFINE new == [Unused EXCEPT !.stage = "connecting", !.scope = scope, !.since = catalog]
    <2>1. /\ fetch' = [fetch EXCEPT ![f] = new]
          /\ overlapped' = (overlapped \/ ~Quiet) /\ UNCHANGED models
        BY <1>1 DEF Begin
    <2>2. new.since = catalog /\ new.reply = None
        BY DEF Unused
    <2> HIDE DEF new
    <2>3. fetch'[f] = new /\ \A g \in Fetch : g # f => fetch'[g] = fetch[g]
        BY <1>0, <2>1
    <2>4. ~overlapped' => \A g \in Fetch : g # f => ~UnderWay(g)'
        BY <2>1, <2>3 DEF Quiet, UnderWay
    <2> QED
        BY <1>0, <1>1, <2>1, <2>2, <2>3, <2>4 DEF ShownInOrder
<1>2. ASSUME NEW f \in Fetch, NEW result \in {"ok", "failed"}, UnderWay(f), End(f, result),
             \/ models' = models
             \/ fetch[f].reply \in Version /\ models' = fetch[f].reply
      PROVE  ShownInOrder'
    <2>1. /\ fetch' = [fetch EXCEPT ![f] =
                          [fetch[f] EXCEPT !.stage = "ended", !.timer = "off"]]
          /\ UNCHANGED <<catalog, overlapped>>
        BY <1>0, <1>2 DEF End, server
    <2>2. /\ \A g \in Fetch : fetch'[g].reply = fetch[g].reply
          /\ \A g \in Fetch : g # f => fetch'[g] = fetch[g]
          /\ ~UnderWay(f)'
        BY <1>0, <2>1 DEF FetchState, UnderWay
    <2>3. ~overlapped => \A g \in Fetch : ~UnderWay(g)'
        BY <1>2, <2>2 DEF IndInv, AloneIsFresh, UnderWay
    <2>4. models' \in Version => models' <= catalog'
        BY <1>0, <1>2, <2>1 DEF ShownInOrder
    <2> QED
        BY <2>1, <2>2, <2>3, <2>4 DEF ShownInOrder
<1>3. ASSUME \A f \in Fetch :
                 /\ UnderWay(f)' <=> UnderWay(f)
                 /\ fetch'[f].since = fetch[f].since
                 /\ fetch'[f].reply \in {fetch[f].reply, catalog, Refusal},
             catalog' \in {catalog, catalog + 1},
             UNCHANGED <<models, overlapped>>
      PROVE  ShownInOrder'
    <2>1. catalog' >= catalog
        BY <1>0, <1>3
    <2>2. \A f \in Fetch : fetch'[f].reply \in Version => fetch'[f].reply <= catalog'
        BY <1>0, <1>3, <2>1 DEF ShownInOrder
    <2> QED
        BY <1>0, <1>3, <2>1, <2>2 DEF ShownInOrder
<1> QED
    BY <1>1, <1>2, <1>3, FetchMoves

\* Unless two fetches were under way together, what the page shows is only
\* ever replaced by a list that is as new: models:updated never goes back.
THEOREM ListNeverGoesBack == Spec => NeverStaler
<1>1. Init => ShownInOrder
    BY ModelsAssumption DEF Init, ShownInOrder, Unused, UnderWay, Version
<1>2. ASSUME IndInv, ShownInOrder, [Next]_vars, ~overlapped', models \in Version
      PROVE  models' \in Version /\ models' >= models
    <2> USE ModelsAssumption DEF Version
    <2>1. ASSUME NEW f \in Fetch, NEW scope, Begin(f, scope)
          PROVE  UNCHANGED models
        BY <2>1 DEF Begin
    <2>2. ASSUME NEW f \in Fetch, NEW result \in {"ok", "failed"}, UnderWay(f),
                 End(f, result), fetch[f].reply \in Version, models' = fetch[f].reply
          PROVE  models' \in Version /\ models' >= models
        <3>1. ~overlapped
            BY <1>2, <2>2 DEF End
        <3>2. models <= fetch[f].since
            BY <1>2, <2>2, <3>1 DEF ShownInOrder
        <3>3. fetch[f].since <= fetch[f].reply /\ fetch[f].since \in Version
            BY <1>2, <2>2 DEF IndInv, VersionsInOrder, TypeOK, FetchState
        <3> QED
            BY <1>2, <2>2, <3>2, <3>3
    <2>3. UNCHANGED models \/ (models' \in Version /\ models' >= models)
        BY <1>2, <2>1, <2>2, FetchMoves
    <2> QED
        BY <1>2, <2>3
<1>3. Spec => []ShownInOrder
    BY <1>1, ShownKept, Invariance, PTL DEF Spec
<1>4. IndInv /\ ShownInOrder /\ [Next]_vars =>
        [~overlapped' /\ models \in Version => models' \in Version /\ models' >= models]_vars
    BY <1>2
<1> QED
    BY <1>3, <1>4, Invariance, PTL DEF Spec, NeverStaler

-----------------------------------------------------------------------------
(* Every fetch has something that ends it                                  *)

\* A fetch whose request is out has its timer, unless the component it was
\* asked for has been unmounted; nothing else takes a timer away.
TimersKept ==
    \A f \in Fetch :
        /\ fetch[f].stage # "asked" => fetch[f].timer # "armed"
        /\ fetch[f].stage = "asked" =>
              \/ fetch[f].timer = "armed"
              \/ /\ fetch[f].timer = "dropped"
                 /\ fetch[f].scope \in User
                 /\ life[fetch[f].scope] = "gone"

LEMMA TimersStay == IndInv /\ TimersKept /\ [Next]_vars => TimersKept'
<1> SUFFICES ASSUME IndInv, TimersKept, [Next]_vars PROVE TimersKept'
    OBVIOUS
<1>0. fetch \in [Fetch -> FetchState] /\ life \in [User -> {"new", "mounted", "gone"}]
    BY DEF IndInv, TypeOK
<1>a. ASSUME NEW f \in Fetch, NEW new, new.stage # "asked" => new.timer # "armed",
             new.stage = "asked" => new.timer = "armed",
             fetch' = [fetch EXCEPT ![f] = new], UNCHANGED life
      PROVE  TimersKept'
    <2>1. fetch'[f] = new /\ \A g \in Fetch : g # f => fetch'[g] = fetch[g]
        BY <1>0, <1>a
    <2> QED
        BY <1>a, <2>1 DEF TimersKept
<1>b. ASSUME UNCHANGED fetch, \A u \in User : life[u] = "gone" => life'[u] = "gone"
      PROVE  TimersKept'
    BY <1>b DEF TimersKept
<1>1. ASSUME NEW f \in Fetch, Boot(f) \/ HearUpdate(f) \/ \E u \in User : Reload(u, f)
      PROVE  TimersKept'
    <2>1. UNCHANGED life /\ \E scope : Begin(f, scope)
        BY <1>1 DEF Boot, HearUpdate, Reload, page
    <2>2. PICK scope : fetch' = [fetch EXCEPT ![f] =
              [Unused EXCEPT !.stage = "connecting", !.scope = scope, !.since = catalog]]
        BY <2>1 DEF Begin
    <2> DEFINE new ==
            [Unused EXCEPT !.stage = "connecting", !.scope = scope, !.since = catalog]
    <2>3. new.stage = "connecting" /\ new.timer = "off"
        BY DEF Unused
    <2> HIDE DEF new
    <2> QED
        BY <1>a, <2>1, <2>2, <2>3 DEF new
<1>2. ASSUME NEW f \in Fetch, NEW result, End(f, result)
      PROVE  TimersKept'
    <2> DEFINE new == [fetch[f] EXCEPT !.stage = "ended", !.timer = "off"]
    <2>1. fetch' = [fetch EXCEPT ![f] = new] /\ UNCHANGED life
        BY <1>0, <1>2 DEF End, page
    <2>2. new.stage = "ended" /\ new.timer = "off"
        BY <1>0 DEF FetchState
    <2> HIDE DEF new
    <2> QED
        BY <1>a, <2>1, <2>2
<1>3. ASSUME NEW f \in Fetch, Connected(f)
      PROVE  TimersKept'
    <2> DEFINE new == [fetch[f] EXCEPT !.stage = "asked", !.timer = "armed"]
    <2>1. fetch' = [fetch EXCEPT ![f] = new] /\ UNCHANGED life
        BY <1>0, <1>3 DEF Connected, page
    <2>2. new.stage = "asked" /\ new.timer = "armed"
        BY <1>0 DEF FetchState
    <2> HIDE DEF new
    <2> QED
        BY <1>a, <2>1, <2>2
<1>4. ASSUME NEW f \in Fetch, ServerAnswers(f)
      PROVE  TimersKept'
    <2>1. PICK r : fetch' = [fetch EXCEPT ![f] = [fetch[f] EXCEPT !.reply = r]]
        BY <1>0, <1>4 DEF ServerAnswers
    <2>2. \A g \in Fetch : /\ fetch'[g].stage = fetch[g].stage
                           /\ fetch'[g].timer = fetch[g].timer
                           /\ fetch'[g].scope = fetch[g].scope
        BY <1>0, <2>1 DEF FetchState
    <2>3. UNCHANGED life
        BY <1>4 DEF ServerAnswers, page
    <2> QED
        BY <2>2, <2>3 DEF TimersKept
<1>5. ASSUME NEW u \in User, Unmount(u)
      PROVE  TimersKept'
    <2>1. life' = [life EXCEPT ![u] = "gone"]
        BY <1>5 DEF Unmount
    <2>2. \A g \in Fetch :
              /\ fetch'[g].stage = fetch[g].stage
              /\ fetch'[g].scope = fetch[g].scope
              /\ fetch'[g].timer = fetch[g].timer
                 \/ /\ fetch'[g].timer = "dropped" /\ fetch[g].timer = "armed"
                    /\ fetch[g].scope = u
        BY <1>0, <1>5 DEF Unmount, FetchState
    <2>3. life'[u] = "gone" /\ \A w \in User : life[w] = "gone" => life'[w] = "gone"
        BY <1>0, <2>1
    <2> QED
        BY <2>2, <2>3 DEF TimersKept
<1>6. ASSUME NEW u \in User, Mount(u)
      PROVE  TimersKept'
    <2>1. \A w \in User : life[w] = "gone" => life'[w] = "gone"
        BY <1>0, <1>6 DEF Mount
    <2> QED
        BY <1>b, <1>6, <2>1 DEF Mount
<1>7. CASE \/ \E u \in User : ReloadTooEarly(u)
           \/ ServerUpdates \/ MissUpdate \/ UNCHANGED vars
    BY <1>b, <1>7 DEF ReloadTooEarly, ServerUpdates, MissUpdate, vars, page
<1> QED
    BY <1>1, <1>2, <1>3, <1>4, <1>5, <1>6, <1>7 DEF Next, Unreachable, Succeeds, IsRefused,
       TimesOut

\* A request for models is never out without a timer while its component is
\* there: what FetchEnds rests on, whatever the server does.
THEOREM TimersGuardFetches == Spec => []TimersKept
<1>1. Init => TimersKept
    BY DEF Init, TimersKept, Unused
<1> QED
    BY <1>1, TimersStay, Invariance, PTL DEF Spec
=============================================================================
