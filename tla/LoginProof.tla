------------------------------ MODULE LoginProof ------------------------------
(***************************************************************************)
(* Proofs about the login page, for any number of visits and sessions.     *)
(***************************************************************************)
EXTENDS Login, TLAPS

\* While nothing has crossed there is one attempt, and if it is to restore the
\* extension's session no login can replace that session in the meantime.
Alone ==
    /\ \A v, w \in Visit : Active(v) /\ Active(w) => v = w
    /\ \A v \in Visit : restore[v].stage = "no" \/ login[v].stage = "no"
    /\ \A v \in Visit : restore[v].stage # "no" => requests = {}
    /\ \A v \in Visit : restore[v].stage = "setting" => restore[v].session = held

IndInv == TypeOK /\ OneLoginWaits /\ (~crossed => Alone)

LEMMA Records ==
    /\ Idle \in RestoreState /\ Idle \in LoginState
    /\ Idle.stage = "no" /\ Idle.session = None
BY DEF Idle, RestoreState, LoginState

LEMMA LoginStage ==
    ASSUME NEW r \in LoginState, NEW x \in {"no", "email", "waiting", "setting", "direct"}
    PROVE  [r EXCEPT !.stage = x] \in LoginState
BY DEF LoginState

LEMMA RestoreStage ==
    ASSUME NEW r \in RestoreState, NEW x \in {"no", "waiting", "setting"}
    PROVE  [r EXCEPT !.stage = x] \in RestoreState
BY DEF RestoreState

LEMMA Given ==
    ASSUME NEW s \in Session \cup {None}
    PROVE  /\ [stage |-> "setting", session |-> s] \in LoginState
           /\ [stage |-> "setting", session |-> s] \in RestoreState
BY DEF LoginState, RestoreState

LEMMA DeliverTyped ==
    ASSUME TypeOK, NEW s \in Session \cup {None}, Deliver(s)
    PROVE  /\ restore' \in [Visit -> RestoreState]
           /\ login' \in [Visit -> LoginState]
           /\ pending' \in BOOLEAN
<1>1. restore' \in [Visit -> RestoreState]
    BY Records, Given DEF Deliver, TypeOK
<1>2. login' \in [Visit -> LoginState] /\ pending' \in BOOLEAN
    <2>1. CASE s = None
        BY <2>1 DEF Deliver, TypeOK
    <2>2. CASE s # None
        BY <2>2, Given DEF Deliver, TypeOK
    <2> QED
        BY <2>1, <2>2
<1> QED
    BY <1>1, <1>2

LEMMA NextIs ==
    ASSUME [Next]_vars
    PROVE  \/ \E v \in Visit : Mount(v)
           \/ \E v \in Visit : StartEmail(v)
           \/ \E v \in Visit : StartOAuth(v)
           \/ \E v \in Visit : HostAnswers(v)
           \/ \E v \in Visit : HostRefuses(v)
           \/ \E v \in Visit, s \in Session : HostGrants(v, s)
           \/ \E v \in Visit : LoginTimesOut(v)
           \/ \E v \in Visit : LoginSucceeds(v)
           \/ \E v \in Visit : LoginFails(v)
           \/ \E v \in Visit : EmailFails(v)
           \/ \E v \in Visit : DirectEnds(v)
           \/ \E v \in Visit, s \in Session : EmailSucceeds(v, s)
           \/ \E v \in Visit : RestoreTimesOut(v)
           \/ \E v \in Visit : RestoreSucceeds(v)
           \/ \E v \in Visit : RestoreFails(v)
           \/ Leave
           \/ Logout
           \/ Reload
           \/ UNCHANGED vars
BY DEF Next, LoginMoves, RestoreMoves

LEMMA InitKeeps == Init => IndInv
BY Records DEF Init, IndInv, TypeOK, OneLoginWaits, Alone, Active, Idle

LEMMA TypesKept == IndInv /\ [Next]_vars => TypeOK'
<1> SUFFICES ASSUME IndInv, [Next]_vars PROVE TypeOK'
    OBVIOUS
<1>a. TypeOK
    BY DEF IndInv
<1>1. CASE \E v \in Visit : Mount(v)
    <2>1. PICK v \in Visit : Mount(v)
        BY <1>1
    <2>2. restore' \in [Visit -> RestoreState]
        BY <1>a, <2>1, RestoreStage DEF Mount, TypeOK
    <2>3. crossed' \in BOOLEAN
        BY <2>1 DEF Mount, Busy
    <2> QED
        BY <1>a, <2>1, <2>2, <2>3 DEF Mount, TypeOK
<1>2. CASE \E v \in Visit : StartEmail(v)
    <2>1. PICK v \in Visit : StartEmail(v)
        BY <1>2
    <2>2. login' \in [Visit -> LoginState]
        BY <1>a, <2>1, LoginStage DEF StartEmail, TypeOK
    <2>3. crossed' \in BOOLEAN
        BY <2>1 DEF StartEmail, Busy
    <2> QED
        BY <1>a, <2>1, <2>2, <2>3 DEF StartEmail, TypeOK, extension
<1>3. CASE \E v \in Visit : StartOAuth(v)
    <2>1. PICK v \in Visit : StartOAuth(v)
        BY <1>3
    <2>2. login' \in [Visit -> LoginState]
        <3>1. \/ login' = [login EXCEPT ![v].stage = "direct"]
              \/ login' = [login EXCEPT ![v].stage = "waiting"]
            BY <2>1 DEF StartOAuth, Refuse, Ask
        <3>2. /\ [login[v] EXCEPT !.stage = "direct"] \in LoginState
              /\ [login[v] EXCEPT !.stage = "waiting"] \in LoginState
            BY <1>a, LoginStage DEF TypeOK
        <3> QED
            BY <1>a, <3>1, <3>2 DEF TypeOK
    <2>3. crossed' \in BOOLEAN
        BY <2>1 DEF StartOAuth, Busy
    <2>4. pending' \in BOOLEAN /\ requests' \subseteq Visit
        BY <1>a, <2>1 DEF StartOAuth, Refuse, Ask, TypeOK
    <2> QED
        BY <1>a, <2>1, <2>2, <2>3, <2>4 DEF StartOAuth, TypeOK
<1>4. CASE \E v \in Visit : HostAnswers(v)
    <2>1. PICK v \in Visit : HostAnswers(v)
        BY <1>4
    <2> QED
        BY <1>a, <2>1, DeliverTyped DEF HostAnswers, TypeOK
<1>5. CASE \E v \in Visit : HostRefuses(v)
    <2>1. PICK v \in Visit : HostRefuses(v)
        BY <1>5
    <2>2. login' \in [Visit -> LoginState]
        BY <1>a, <2>1, LoginStage DEF HostRefuses, TypeOK
    <2> QED
        BY <1>a, <2>1, <2>2 DEF HostRefuses, TypeOK
<1>6. CASE \E v \in Visit, s \in Session : HostGrants(v, s)
    <2>1. PICK v \in Visit, s \in Session : HostGrants(v, s)
        BY <1>6
    <2> QED
        BY <1>a, <2>1, DeliverTyped DEF HostGrants, TypeOK
<1>7. CASE \E v \in Visit : LoginTimesOut(v)
    <2>1. PICK v \in Visit : LoginTimesOut(v)
        BY <1>7
    <2>2. login' \in [Visit -> LoginState]
        BY <1>a, <2>1, LoginStage DEF LoginTimesOut, TypeOK
    <2> QED
        BY <1>a, <2>1, <2>2 DEF LoginTimesOut, TypeOK, extension
<1>8. CASE \E v \in Visit : LoginSucceeds(v)
    BY <1>a, <1>8, Records, LoginAssumption DEF LoginSucceeds, Enter, TypeOK,
       RestoreState, LoginState, page, extension
<1>9. CASE \E v \in Visit : LoginFails(v)
    BY <1>a, <1>9, Records, LoginAssumption DEF LoginFails, TypeOK, RestoreState,
       LoginState, page, extension
<1>10. CASE \E v \in Visit : EmailFails(v)
    BY <1>a, <1>10, Records, LoginAssumption DEF EmailFails, TypeOK, RestoreState,
       LoginState, page, extension
<1>11. CASE \E v \in Visit : DirectEnds(v)
    BY <1>a, <1>11, Records, LoginAssumption DEF DirectEnds, TypeOK, RestoreState,
       LoginState, page, extension
<1>12. CASE \E v \in Visit, s \in Session : EmailSucceeds(v, s)
    BY <1>a, <1>12, Records, LoginAssumption DEF EmailSucceeds, Enter, TypeOK,
       RestoreState, LoginState, page, extension
<1>13. CASE \E v \in Visit : RestoreTimesOut(v)
    BY <1>a, <1>13, Records, LoginAssumption DEF RestoreTimesOut, TypeOK, RestoreState,
       LoginState, page, extension
<1>14. CASE \E v \in Visit : RestoreSucceeds(v)
    BY <1>a, <1>14, Records, LoginAssumption DEF RestoreSucceeds, Enter, TypeOK,
       RestoreState, LoginState, page, extension
<1>15. CASE \E v \in Visit : RestoreFails(v)
    BY <1>a, <1>15, Records, LoginAssumption DEF RestoreFails, TypeOK, RestoreState,
       LoginState, page, extension
<1>16. CASE Leave
    BY <1>a, <1>16, Records, LoginAssumption DEF Leave, TypeOK, RestoreState, LoginState,
       page, extension
<1>17. CASE Logout
    BY <1>a, <1>17, Records, LoginAssumption DEF Logout, TypeOK, RestoreState,
       LoginState, page, extension
<1>18. CASE Reload
    BY <1>a, <1>18, Records, LoginAssumption DEF Reload, TypeOK, RestoreState,
       LoginState, page, extension
<1>19. CASE UNCHANGED vars
    BY <1>a, <1>19 DEF vars, TypeOK, RestoreState, LoginState, page, extension
<1> QED
    BY <1>1, <1>2, <1>3, <1>4, <1>5, <1>6, <1>7, <1>8, <1>9, <1>10, <1>11, <1>12, <1>13,
       <1>14, <1>15, <1>16, <1>17, <1>18, <1>19, NextIs

LEMMA FlagKept == IndInv /\ [Next]_vars => OneLoginWaits'
<1> SUFFICES ASSUME IndInv, [Next]_vars PROVE OneLoginWaits'
    OBVIOUS
<1>a. TypeOK /\ OneLoginWaits
    BY DEF IndInv
<1>1. CASE \E v \in Visit : Mount(v)
    BY <1>a, <1>1, Records, LoginAssumption DEF Mount, TypeOK, RestoreState, LoginState,
       OneLoginWaits, Idle, page, extension
<1>2. CASE \E v \in Visit : StartEmail(v)
    BY <1>a, <1>2, Records, LoginAssumption DEF StartEmail, CanStart, TypeOK,
       RestoreState, LoginState, OneLoginWaits, Idle, page, extension
<1>3. CASE \E v \in Visit : StartOAuth(v)
    BY <1>a, <1>3, Records, LoginAssumption DEF StartOAuth, CanStart, Refuse, Ask,
       TypeOK, RestoreState, LoginState, OneLoginWaits, Idle, page, extension
<1>4. CASE \E v \in Visit : HostAnswers(v)
    BY <1>a, <1>4, Records, LoginAssumption DEF HostAnswers, Deliver, TypeOK,
       RestoreState, LoginState, OneLoginWaits, Idle, page, extension
<1>5. CASE \E v \in Visit : HostRefuses(v)
    BY <1>a, <1>5, Records, LoginAssumption DEF HostRefuses, TypeOK, RestoreState,
       LoginState, OneLoginWaits, Idle, page, extension
<1>6. CASE \E v \in Visit, s \in Session : HostGrants(v, s)
    BY <1>a, <1>6, Records, LoginAssumption DEF HostGrants, Deliver, TypeOK,
       RestoreState, LoginState, OneLoginWaits, Idle, page, extension
<1>7. CASE \E v \in Visit : LoginTimesOut(v)
    BY <1>a, <1>7, Records, LoginAssumption DEF LoginTimesOut, TypeOK, RestoreState,
       LoginState, OneLoginWaits, Idle, page, extension
<1>8. CASE \E v \in Visit : LoginSucceeds(v)
    BY <1>a, <1>8, Records, LoginAssumption DEF LoginSucceeds, Enter, TypeOK,
       RestoreState, LoginState, OneLoginWaits, Idle, page, extension
<1>9. CASE \E v \in Visit : LoginFails(v)
    BY <1>a, <1>9, Records, LoginAssumption DEF LoginFails, TypeOK, RestoreState,
       LoginState, OneLoginWaits, Idle, page, extension
<1>10. CASE \E v \in Visit : EmailFails(v)
    BY <1>a, <1>10, Records, LoginAssumption DEF EmailFails, TypeOK, RestoreState,
       LoginState, OneLoginWaits, Idle, page, extension
<1>11. CASE \E v \in Visit : DirectEnds(v)
    BY <1>a, <1>11, Records, LoginAssumption DEF DirectEnds, TypeOK, RestoreState,
       LoginState, OneLoginWaits, Idle, page, extension
<1>12. CASE \E v \in Visit, s \in Session : EmailSucceeds(v, s)
    BY <1>a, <1>12, Records, LoginAssumption DEF EmailSucceeds, Enter, TypeOK,
       RestoreState, LoginState, OneLoginWaits, Idle, page, extension
<1>13. CASE \E v \in Visit : RestoreTimesOut(v)
    BY <1>a, <1>13, Records, LoginAssumption DEF RestoreTimesOut, TypeOK, RestoreState,
       LoginState, OneLoginWaits, Idle, page, extension
<1>14. CASE \E v \in Visit : RestoreSucceeds(v)
    BY <1>a, <1>14, Records, LoginAssumption DEF RestoreSucceeds, Enter, TypeOK,
       RestoreState, LoginState, OneLoginWaits, Idle, page, extension
<1>15. CASE \E v \in Visit : RestoreFails(v)
    BY <1>a, <1>15, Records, LoginAssumption DEF RestoreFails, TypeOK, RestoreState,
       LoginState, OneLoginWaits, Idle, page, extension
<1>16. CASE Leave
    BY <1>a, <1>16, Records, LoginAssumption DEF Leave, TypeOK, RestoreState, LoginState,
       OneLoginWaits, Idle, page, extension
<1>17. CASE Logout
    BY <1>a, <1>17, Records, LoginAssumption DEF Logout, TypeOK, RestoreState,
       LoginState, OneLoginWaits, Idle, page, extension
<1>18. CASE Reload
    BY <1>a, <1>18, Records, LoginAssumption DEF Reload, TypeOK, RestoreState,
       LoginState, OneLoginWaits, Idle, page, extension
<1>19. CASE UNCHANGED vars
    BY <1>a, <1>19 DEF vars, TypeOK, RestoreState, LoginState, OneLoginWaits, Idle, page,
       extension
<1> QED
    BY <1>1, <1>2, <1>3, <1>4, <1>5, <1>6, <1>7, <1>8, <1>9, <1>10, <1>11, <1>12, <1>13,
       <1>14, <1>15, <1>16, <1>17, <1>18, <1>19, NextIs

LEMMA AloneKept == IndInv /\ [Next]_vars => (~crossed => Alone)'
<1> SUFFICES ASSUME IndInv, [Next]_vars PROVE (~crossed => Alone)'
    OBVIOUS
<1>a. TypeOK /\ (~crossed => Alone)
    BY DEF IndInv
<1>1. CASE \E v \in Visit : Mount(v)
    <2>1. PICK v \in Visit : Mount(v)
        BY <1>1
    <2>2. SUFFICES ASSUME ~crossed' PROVE Alone'
        OBVIOUS
    <2>3. ~Busy /\ requests = {}
        BY <2>1, <2>2 DEF Mount
    <2>4. \A w \in Visit : login[w].stage = "no" /\ restore[w].stage = "no"
        BY <2>3 DEF Busy, Active
    <2>5. \A w \in Visit : restore'[w].stage = IF w = v THEN "waiting" ELSE "no"
        BY <1>a, <2>1, <2>4 DEF Mount, TypeOK, RestoreState
    <2> QED
        BY <2>1, <2>3, <2>4, <2>5 DEF Mount, Alone, Active
<1>2. CASE \E v \in Visit : StartEmail(v)
    BY <1>a, <1>2, Records, LoginAssumption DEF StartEmail, CanStart, TypeOK,
       RestoreState, LoginState, Alone, Active, Busy, Idle, page, extension
<1>3. CASE \E v \in Visit : StartOAuth(v)
    BY <1>a, <1>3, Records, LoginAssumption DEF StartOAuth, CanStart, Refuse, Ask,
       TypeOK, RestoreState, LoginState, Alone, Active, Busy, Idle, page, extension
<1>4. CASE \E v \in Visit : HostAnswers(v)
    BY <1>a, <1>4, Records, LoginAssumption DEF HostAnswers, Deliver, TypeOK,
       RestoreState, LoginState, Alone, Active, Busy, Idle, page, extension
<1>5. CASE \E v \in Visit : HostRefuses(v)
    BY <1>a, <1>5, Records, LoginAssumption DEF HostRefuses, TypeOK, RestoreState,
       LoginState, Alone, Active, Busy, Idle, page, extension
<1>6. CASE \E v \in Visit, s \in Session : HostGrants(v, s)
    BY <1>a, <1>6, Records, LoginAssumption DEF HostGrants, Deliver, TypeOK,
       RestoreState, LoginState, Alone, Active, Busy, Idle, page, extension
<1>7. CASE \E v \in Visit : LoginTimesOut(v)
    BY <1>a, <1>7, Records, LoginAssumption DEF LoginTimesOut, TypeOK, RestoreState,
       LoginState, Alone, Active, Busy, Idle, page, extension
<1>8. CASE \E v \in Visit : LoginSucceeds(v)
    BY <1>a, <1>8, Records, LoginAssumption DEF LoginSucceeds, Enter, TypeOK,
       RestoreState, LoginState, Alone, Active, Busy, Idle, page, extension
<1>9. CASE \E v \in Visit : LoginFails(v)
    BY <1>a, <1>9, Records, LoginAssumption DEF LoginFails, TypeOK, RestoreState,
       LoginState, Alone, Active, Busy, Idle, page, extension
<1>10. CASE \E v \in Visit : EmailFails(v)
    BY <1>a, <1>10, Records, LoginAssumption DEF EmailFails, TypeOK, RestoreState,
       LoginState, Alone, Active, Busy, Idle, page, extension
<1>11. CASE \E v \in Visit : DirectEnds(v)
    BY <1>a, <1>11, Records, LoginAssumption DEF DirectEnds, TypeOK, RestoreState,
       LoginState, Alone, Active, Busy, Idle, page, extension
<1>12. CASE \E v \in Visit, s \in Session : EmailSucceeds(v, s)
    BY <1>a, <1>12, Records, LoginAssumption DEF EmailSucceeds, Enter, TypeOK,
       RestoreState, LoginState, Alone, Active, Busy, Idle, page, extension
<1>13. CASE \E v \in Visit : RestoreTimesOut(v)
    BY <1>a, <1>13, Records, LoginAssumption DEF RestoreTimesOut, TypeOK, RestoreState,
       LoginState, Alone, Active, Busy, Idle, page, extension
<1>14. CASE \E v \in Visit : RestoreSucceeds(v)
    BY <1>a, <1>14, Records, LoginAssumption DEF RestoreSucceeds, Enter, TypeOK,
       RestoreState, LoginState, Alone, Active, Busy, Idle, page, extension
<1>15. CASE \E v \in Visit : RestoreFails(v)
    BY <1>a, <1>15, Records, LoginAssumption DEF RestoreFails, TypeOK, RestoreState,
       LoginState, Alone, Active, Busy, Idle, page, extension
<1>16. CASE Leave
    BY <1>a, <1>16, Records, LoginAssumption DEF Leave, TypeOK, RestoreState, LoginState,
       Alone, Active, Busy, Idle, page, extension
<1>17. CASE Logout
    BY <1>a, <1>17, Records, LoginAssumption DEF Logout, TypeOK, RestoreState,
       LoginState, Alone, Active, Busy, Idle, page, extension
<1>18. CASE Reload
    BY <1>a, <1>18, Records, LoginAssumption DEF Reload, TypeOK, RestoreState,
       LoginState, Alone, Active, Busy, Idle, page, extension
<1>19. CASE UNCHANGED vars
    BY <1>a, <1>19 DEF vars, TypeOK, RestoreState, LoginState, Alone, Active, Busy, Idle,
       page, extension
<1> QED
    BY <1>1, <1>2, <1>3, <1>4, <1>5, <1>6, <1>7, <1>8, <1>9, <1>10, <1>11, <1>12, <1>13,
       <1>14, <1>15, <1>16, <1>17, <1>18, <1>19, NextIs

LEMMA StepKeeps == IndInv /\ [Next]_vars => IndInv'
BY TypesKept, FlagKept, AloneKept DEF IndInv

LEMMA Always == Spec => []IndInv
BY InitKeeps, StepKeeps, PTL DEF Spec

-----------------------------------------------------------------------------
(* The theorems                                                            *)

\* TypeOK for any number of visits and sessions.
THEOREM LoginTypeCorrect == Spec => []TypeOK
<1>1. IndInv => TypeOK
    BY DEF IndInv
<1> QED
    BY <1>1, Always, PTL

\* isRequestPending (use-vs-code-auth.ts) is one flag for all visits: it is
\* set exactly while one of them waits for the extension, and never two do.
THEOREM OneLogin == Spec => []OneLoginWaits
<1>1. IndInv => OneLoginWaits
    BY DEF IndInv
<1> QED
    BY <1>1, Always, PTL

\* clearStoredSession discards the session that could not be set, and no
\* other, unless attempts crossed.

LEMMA ForgetStep ==
    ASSUME IndInv, [Next]_vars, held # None, held' = None, ~crossed
    PROVE  \E v \in Visit : restore[v].stage = "setting" /\ restore[v].session = held
<1>a. TypeOK /\ Alone /\ None \notin Session
    BY LoginAssumption DEF IndInv
<1>1. CASE \E v \in Visit : Mount(v)
    BY <1>a, <1>1 DEF Mount, page, extension
<1>2. CASE \E v \in Visit : StartEmail(v)
    BY <1>a, <1>2 DEF StartEmail, CanStart, page, extension
<1>3. CASE \E v \in Visit : StartOAuth(v)
    BY <1>a, <1>3 DEF StartOAuth, CanStart, Refuse, Ask, page, extension
<1>4. CASE \E v \in Visit : HostAnswers(v)
    BY <1>a, <1>4 DEF HostAnswers, Deliver, page, extension
<1>5. CASE \E v \in Visit : HostRefuses(v)
    BY <1>a, <1>5 DEF HostRefuses, page, extension
<1>6. CASE \E v \in Visit, s \in Session : HostGrants(v, s)
    BY <1>a, <1>6 DEF HostGrants, Deliver, page, extension
<1>7. CASE \E v \in Visit : LoginTimesOut(v)
    BY <1>a, <1>7 DEF LoginTimesOut, page, extension
<1>8. CASE \E v \in Visit : LoginSucceeds(v)
    BY <1>a, <1>8 DEF LoginSucceeds, Enter, page, extension
<1>9. CASE \E v \in Visit : LoginFails(v)
    BY <1>a, <1>9 DEF LoginFails, page, extension
<1>10. CASE \E v \in Visit : EmailFails(v)
    BY <1>a, <1>10 DEF EmailFails, page, extension
<1>11. CASE \E v \in Visit : DirectEnds(v)
    BY <1>a, <1>11 DEF DirectEnds, page, extension
<1>12. CASE \E v \in Visit, s \in Session : EmailSucceeds(v, s)
    BY <1>a, <1>12 DEF EmailSucceeds, Enter, page, extension
<1>13. CASE \E v \in Visit : RestoreTimesOut(v)
    BY <1>a, <1>13 DEF RestoreTimesOut, page, extension
<1>14. CASE \E v \in Visit : RestoreSucceeds(v)
    BY <1>a, <1>14 DEF RestoreSucceeds, Enter, page, extension
<1>15. CASE \E v \in Visit : RestoreFails(v)
    <2>1. PICK v \in Visit : RestoreFails(v)
        BY <1>15
    <2> QED
        BY <1>a, <2>1 DEF RestoreFails, Alone
<1>16. CASE Leave
    BY <1>a, <1>16 DEF Leave, page, extension
<1>17. CASE Logout
    BY <1>a, <1>17 DEF Logout, page, extension
<1>18. CASE Reload
    BY <1>a, <1>18 DEF Reload, page, extension
<1>19. CASE UNCHANGED vars
    BY <1>a, <1>19 DEF vars, page, extension
<1> QED
    BY <1>1, <1>2, <1>3, <1>4, <1>5, <1>6, <1>7, <1>8, <1>9, <1>10, <1>11, <1>12, <1>13,
       <1>14, <1>15, <1>16, <1>17, <1>18, <1>19, NextIs

\* auth.clearStoredSession (use-vs-code-auth.ts) is sent only where the session that could
\* not be set is the extension's own, unless attempts crossed.
THEOREM ForgetsRight == Spec => ForgetsOnlyWhatFailed
<1>1. IndInv /\ [Next]_vars =>
          [held # None /\ held' = None =>
              \/ crossed
              \/ \E v \in Visit : restore[v].stage = "setting"
                                   /\ restore[v].session = held]_vars
    BY ForgetStep
<1> QED
    BY <1>1, Always, PTL DEF Spec, ForgetsOnlyWhatFailed

=============================================================================
