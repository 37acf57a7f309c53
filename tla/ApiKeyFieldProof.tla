--------------------------- MODULE ApiKeyFieldProof ---------------------------
(***************************************************************************)
(* Proofs about one API key of the settings page, for any number of keys,  *)
(* checks and saves.                                                       *)
(***************************************************************************)
EXTENDS ApiKeyField, SequenceTheorems, TLAPS

\* A page that is not open shows nothing and owns no check.
ClosedIsBare ==
    page # "open" => /\ ~typed /\ status = "idle" /\ timer = None
                     /\ \A c \in Check : ~checks[c].mine

\* A save has a key exactly while it is under way.
SavesHaveKeys == \A s \in Save : saves[s].key = None <=> saves[s].stage = "idle"

\* What a save has looked at is still so, if it is the only one.
LooksHold ==
    \A s \in Save :
        /\ saves[s].stage = "updating" => rows # <<>>
        /\ saves[s].stage = "adding" /\ (~raced \/ ~overlapped) => rows = <<>>

\* One save at a time, as long as none was started during another.
SavesAlone ==
    ~raced \/ ~overlapped =>
        \A s, r \in Save : saves[s].key # None /\ saves[r].key # None => s = r

\* While nothing has overlapped there is one activity, and it is about the key
\* in the field.
OneThingAtATime ==
    ~overlapped =>
        /\ \A c, d \in Check : checks[c].key # None /\ checks[d].key # None => c = d
        /\ ~(Checking /\ Saving)
        /\ \A c \in Check : checks[c].mine => checks[c].key = value
        /\ Checking => status # "valid"

\* A key shown as valid is being saved, or has been.
ValidIsOnItsWay ==
    ~overlapped /\ ~unsaved /\ status = "valid" =>
        /\ value \in accepted
        /\ \A s \in Save : saves[s].key # None => saves[s].key = value
        /\ ~Saving \/ (\E s \in Save : saves[s].stage = "stored")
               => rows # <<>> /\ rows[1] = value

\* A free slot belongs to no page.
FreeIsNotMine == \A c \in Check : checks[c].key = None => ~checks[c].mine

Shape ==
    /\ TypeOK
    /\ ClosedIsBare
    /\ SavesHaveKeys
    /\ FreeIsNotMine

IndInv ==
    /\ Shape
    /\ OnlyCheckedKeysSaved
    /\ SpinnerIsForThisKey
    /\ TypedIsJudged
    /\ LooksHold
    /\ SavesAlone
    /\ OneThingAtATime
    /\ ValidIsOnItsWay
    /\ OneRow

LEMMA NextIs ==
    ASSUME [Next]_vars
    PROVE  \/ OpenPage \/ Load \/ ClosePage
           \/ \E k \in Key \cup {Empty} : handleApiKeyInput(k)
           \/ TypeElsewhere \/ TimerDropsCall \/ FailsFormat
           \/ \E c \in Check : StartCheck(c)
           \/ \E c \in Check : CheckRejects(c)
           \/ \E c \in Check, s \in Save : CheckAccepts(c, s)
           \/ \E c \in Check : CheckAcceptsInVain(c)
           \/ \E s \in Save : Look(s)
           \/ \E s \in Save : Add(s)
           \/ \E s \in Save : Update(s)
           \/ \E s \in Save : SaveSucceeds(s)
           \/ \E s \in Save : SaveFails(s)
           \/ UNCHANGED vars
BY DEF Next

-----------------------------------------------------------------------------
(* Records and rows                                                        *)

LEMMA FreeSlots ==
    /\ NoCheck \in CheckState /\ NoCheck.key = None /\ NoCheck.mine = FALSE
    /\ NoSave \in SaveState /\ NoSave.key = None /\ NoSave.stage = "idle"
BY DEF NoCheck, CheckState, NoSave, SaveState

LEMMA FirstRow ==
    ASSUME rows \in Seq(Key)
    PROVE  /\ rows # <<>> <=> 1 \in 1..Len(rows)
           /\ Len(rows) \in Nat
           /\ \A n \in 1..Len(rows) : rows[n] \in Key
<1>1. rows = <<>> <=> Len(rows) = 0
    BY EmptySeq
<1>2. Len(rows) \in Nat
    OBVIOUS
<1> QED
    BY <1>1, <1>2

LEMMA Added ==
    ASSUME rows \in Seq(Key), NEW k \in Key
    PROVE  /\ Append(rows, k) \in Seq(Key)
           /\ Append(rows, k) # <<>>
           /\ rows = <<>> => Append(rows, k)[1] = k /\ Len(Append(rows, k)) = 1
           /\ \A n \in 1..Len(Append(rows, k)) :
                  Append(rows, k)[n] = k \/ \E m \in 1..Len(rows) : Append(rows, k)[n] = rows[m]
<1>1. Append(rows, k) \in Seq(Key) /\ Len(Append(rows, k)) = Len(rows) + 1
    OBVIOUS
<1>2. Append(rows, k) # <<>>
    BY <1>1, EmptySeq
<1>3. \A n \in 1..Len(Append(rows, k)) :
          Append(rows, k)[n] = k \/ \E m \in 1..Len(rows) : Append(rows, k)[n] = rows[m]
    BY <1>1
<1>4. rows = <<>> => Append(rows, k)[1] = k /\ Len(Append(rows, k)) = 1
    BY <1>1
<1> QED
    BY <1>1, <1>2, <1>3, <1>4

LEMMA Updated ==
    ASSUME rows \in Seq(Key), rows # <<>>, NEW k \in Key
    PROVE  /\ [rows EXCEPT ![1] = k] \in Seq(Key)
           /\ [rows EXCEPT ![1] = k] # <<>>
           /\ [rows EXCEPT ![1] = k][1] = k
           /\ Len([rows EXCEPT ![1] = k]) = Len(rows)
           /\ \A n \in 1..Len(rows) : [rows EXCEPT ![1] = k][n] \in {k, rows[n]}
<1>1. 1 \in 1..Len(rows)
    BY FirstRow
<1>2. [rows EXCEPT ![1] = k] \in Seq(Key) /\ Len([rows EXCEPT ![1] = k]) = Len(rows)
    BY <1>1
<1>3. [rows EXCEPT ![1] = k] # <<>>
    BY <1>1, <1>2, EmptySeq
<1> QED
    BY <1>1, <1>2, <1>3

-----------------------------------------------------------------------------
(* The initial state                                                       *)

LEMMA InitKeeps == Init => IndInv
<1> SUFFICES ASSUME Init PROVE IndInv
    OBVIOUS
<1>1. TypeOK
    BY FreeSlots, EmptySeq DEF Init, TypeOK, Status
<1>2. \A s \in Save : saves[s].key = None /\ saves[s].stage = "idle"
    BY FreeSlots DEF Init
<1>3. \A c \in Check : checks[c].key = None /\ ~checks[c].mine
    BY FreeSlots DEF Init
<1>4. Shape
    BY <1>1, <1>2, <1>3 DEF Init, Shape, ClosedIsBare, SavesHaveKeys, FreeIsNotMine
<1>5. OnlyCheckedKeysSaved /\ OneRow
    BY <1>2 DEF Init, OnlyCheckedKeysSaved, OneRow
<1>6. SpinnerIsForThisKey /\ TypedIsJudged
    BY DEF Init, SpinnerIsForThisKey, TypedIsJudged
<1>7. LooksHold /\ SavesAlone /\ OneThingAtATime /\ ValidIsOnItsWay
    BY <1>2, <1>3
    DEF Init, LooksHold, SavesAlone, OneThingAtATime, ValidIsOnItsWay, Checking,
       Saving
<1> QED
    BY <1>4, <1>5, <1>6, <1>7 DEF IndInv

-----------------------------------------------------------------------------
(* Each part of the invariant is kept                                      *)

LEMMA TypesKept == IndInv /\ [Next]_vars => TypeOK'
<1> SUFFICES ASSUME IndInv, [Next]_vars PROVE TypeOK'
    OBVIOUS
<1>a. TypeOK /\ SavesHaveKeys /\ LooksHold /\ ClosedIsBare
    BY DEF IndInv, Shape
<1>1. CASE OpenPage
    BY <1>a, <1>1, FreeSlots, FirstRow DEF OpenPage, Overlaps, TypeOK, CheckState,
       SaveState, Status, field, store, history
<1>2. CASE Load
    BY <1>a, <1>2, FreeSlots, FirstRow DEF Load, TypeOK, CheckState, SaveState, Status,
       field, store, history
<1>3. CASE ClosePage
    BY <1>a, <1>3, FreeSlots, FirstRow DEF ClosePage, TypeOK, CheckState, SaveState,
       Status, field, store, history
<1>4. CASE \E k \in Key \cup {Empty} : handleApiKeyInput(k)
    BY <1>a, <1>4, FreeSlots, FirstRow DEF handleApiKeyInput, Overlaps, TypeOK,
       CheckState, SaveState, Status, field, store, history
<1>5. CASE TypeElsewhere
    BY <1>a, <1>5, FreeSlots, FirstRow DEF TypeElsewhere, TypeOK, CheckState, SaveState,
       Status, field, store, history
<1>6. CASE TimerDropsCall
    BY <1>a, <1>6, FreeSlots, FirstRow DEF TimerDropsCall, TypeOK, CheckState, SaveState,
       Status, field, store, history
<1>7. CASE FailsFormat
    BY <1>a, <1>7, FreeSlots, FirstRow DEF FailsFormat, TypeOK, CheckState, SaveState,
       Status, field, store, history
<1>8. CASE \E c \in Check : StartCheck(c)
    BY <1>a, <1>8, FreeSlots, FirstRow DEF StartCheck, Overlaps, TypeOK, CheckState,
       SaveState, Status, field, store, history
<1>9. CASE \E c \in Check : CheckRejects(c)
    BY <1>a, <1>9, FreeSlots, FirstRow DEF CheckRejects, Judge, TypeOK, CheckState,
       SaveState, Status, field, store, history
<1>10. CASE \E c \in Check, s \in Save : CheckAccepts(c, s)
    <2>1. PICK c \in Check, s \in Save : CheckAccepts(c, s)
        BY <1>10
    <2>2. checks[c].key \in Key
        BY <1>a, <2>1 DEF CheckAccepts, Judge, TypeOK, CheckState
    <2>3. checks' \in [Check -> CheckState] /\ saves' \in [Save -> SaveState]
        BY <1>a, <2>1, <2>2, FreeSlots DEF CheckAccepts, Judge, TypeOK, SaveState
    <2> QED
        BY <1>a, <2>1, <2>2, <2>3 DEF CheckAccepts, Judge, TypeOK, Status
<1>11. CASE \E c \in Check : CheckAcceptsInVain(c)
    BY <1>a, <1>11, FreeSlots, KeyAssumption DEF CheckAcceptsInVain, Judge, TypeOK,
       CheckState, SaveState, Status, field, store, history
<1>12. CASE \E s \in Save : Look(s)
    BY <1>a, <1>12, FreeSlots, FirstRow DEF Look, To, TypeOK, CheckState, SaveState,
       Status, field, store, history
<1>13. CASE \E s \in Save : Add(s)
    <2>1. PICK s \in Save : Add(s)
        BY <1>13
    <2>2. saves[s].key \in Key
        BY <1>a, <2>1 DEF Add, TypeOK, SaveState, SavesHaveKeys
    <2> QED
        BY <1>a, <2>1, <2>2, FreeSlots, Added
        DEF Add, To, Ends, TypeOK, SaveState, field, store, history
<1>14. CASE \E s \in Save : Update(s)
    <2>1. PICK s \in Save : Update(s)
        BY <1>14
    <2>2. saves[s].key \in Key /\ rows # <<>>
        BY <1>a, <2>1 DEF Update, TypeOK, SaveState, SavesHaveKeys, LooksHold
    <2> QED
        BY <1>a, <2>1, <2>2, FreeSlots, Updated
        DEF Update, To, Ends, TypeOK, SaveState, field, store, history
<1>15. CASE \E s \in Save : SaveSucceeds(s)
    BY <1>a, <1>15, FreeSlots, FirstRow DEF SaveSucceeds, Ends, TypeOK, CheckState,
       SaveState, Status, field, store, history
<1>16. CASE \E s \in Save : SaveFails(s)
    BY <1>a, <1>16, FreeSlots, FirstRow DEF SaveFails, To, Ends, TypeOK, CheckState,
       SaveState, Status, field, store, history
<1>17. CASE UNCHANGED vars
    BY <1>a, <1>17 DEF vars, TypeOK, CheckState, SaveState, Status, field, store, history
<1> QED
    BY <1>1, <1>2, <1>3, <1>4, <1>5, <1>6, <1>7, <1>8, <1>9, <1>10, <1>11, <1>12, <1>13,
       <1>14, <1>15, <1>16, <1>17, NextIs

LEMMA ClosedKept == IndInv /\ [Next]_vars => ClosedIsBare'
<1> SUFFICES ASSUME IndInv, [Next]_vars PROVE ClosedIsBare'
    OBVIOUS
<1>a. TypeOK /\ ClosedIsBare /\ FreeIsNotMine
    BY DEF IndInv, Shape
<1>1. CASE OpenPage
    BY <1>a, <1>1, FreeSlots, KeyAssumption DEF OpenPage, Overlaps, TypeOK, CheckState,
       ClosedIsBare, FreeIsNotMine, field, store, history
<1>2. CASE Load
    BY <1>a, <1>2, FreeSlots, KeyAssumption DEF Load, TypeOK, CheckState, ClosedIsBare,
       FreeIsNotMine, field, store, history
<1>3. CASE ClosePage
    BY <1>a, <1>3, FreeSlots, KeyAssumption DEF ClosePage, TypeOK, CheckState,
       ClosedIsBare, FreeIsNotMine, field, store, history
<1>4. CASE \E k \in Key \cup {Empty} : handleApiKeyInput(k)
    BY <1>a, <1>4, FreeSlots, KeyAssumption DEF handleApiKeyInput, Overlaps, TypeOK,
       CheckState, ClosedIsBare, FreeIsNotMine, field, store, history
<1>5. CASE TypeElsewhere
    BY <1>a, <1>5, FreeSlots, KeyAssumption DEF TypeElsewhere, TypeOK, CheckState,
       ClosedIsBare, FreeIsNotMine, field, store, history
<1>6. CASE TimerDropsCall
    BY <1>a, <1>6, FreeSlots, KeyAssumption DEF TimerDropsCall, TypeOK, CheckState,
       ClosedIsBare, FreeIsNotMine, field, store, history
<1>7. CASE FailsFormat
    BY <1>a, <1>7, FreeSlots, KeyAssumption DEF FailsFormat, TypeOK, CheckState,
       ClosedIsBare, FreeIsNotMine, field, store, history
<1>8. CASE \E c \in Check : StartCheck(c)
    BY <1>a, <1>8, FreeSlots, KeyAssumption DEF StartCheck, Overlaps, TypeOK, CheckState,
       ClosedIsBare, FreeIsNotMine, field, store, history
<1>9. CASE \E c \in Check : CheckRejects(c)
    BY <1>a, <1>9, FreeSlots, KeyAssumption DEF CheckRejects, Judge, TypeOK, CheckState,
       ClosedIsBare, FreeIsNotMine, field, store, history
<1>10. CASE \E c \in Check, s \in Save : CheckAccepts(c, s)
    BY <1>a, <1>10, FreeSlots, KeyAssumption DEF CheckAccepts, Judge, TypeOK, CheckState,
       ClosedIsBare, FreeIsNotMine, field, store, history
<1>11. CASE \E c \in Check : CheckAcceptsInVain(c)
    BY <1>a, <1>11, FreeSlots, KeyAssumption DEF CheckAcceptsInVain, Judge, TypeOK,
       CheckState, ClosedIsBare, FreeIsNotMine, field, store, history, Status, SaveState
<1>12. CASE \E s \in Save : Look(s)
    BY <1>a, <1>12, FreeSlots, KeyAssumption DEF Look, To, TypeOK, CheckState,
       ClosedIsBare, FreeIsNotMine, field, store, history
<1>13. CASE \E s \in Save : Add(s)
    BY <1>a, <1>13, FreeSlots, KeyAssumption DEF Add, To, TypeOK, CheckState,
       ClosedIsBare, FreeIsNotMine, field, store, history
<1>14. CASE \E s \in Save : Update(s)
    BY <1>a, <1>14, FreeSlots, KeyAssumption DEF Update, To, TypeOK, CheckState,
       ClosedIsBare, FreeIsNotMine, field, store, history
<1>15. CASE \E s \in Save : SaveSucceeds(s)
    BY <1>a, <1>15, FreeSlots, KeyAssumption DEF SaveSucceeds, Ends, TypeOK, CheckState,
       ClosedIsBare, FreeIsNotMine, field, store, history
<1>16. CASE \E s \in Save : SaveFails(s)
    BY <1>a, <1>16, FreeSlots, KeyAssumption DEF SaveFails, To, Ends, TypeOK, CheckState,
       ClosedIsBare, FreeIsNotMine, field, store, history
<1>17. CASE UNCHANGED vars
    BY <1>a, <1>17 DEF vars, TypeOK, CheckState, ClosedIsBare, FreeIsNotMine, field,
       store, history
<1> QED
    BY <1>1, <1>2, <1>3, <1>4, <1>5, <1>6, <1>7, <1>8, <1>9, <1>10, <1>11, <1>12, <1>13,
       <1>14, <1>15, <1>16, <1>17, NextIs

LEMMA SaveKeysKept == IndInv /\ [Next]_vars => SavesHaveKeys'
<1> SUFFICES ASSUME IndInv, [Next]_vars PROVE SavesHaveKeys'
    OBVIOUS
<1>a. TypeOK /\ SavesHaveKeys
    BY DEF IndInv, Shape
<1>1. CASE OpenPage
    BY <1>a, <1>1, FreeSlots, KeyAssumption DEF OpenPage, Overlaps, TypeOK, CheckState,
       SaveState, SavesHaveKeys, field, store, history
<1>2. CASE Load
    BY <1>a, <1>2, FreeSlots, KeyAssumption DEF Load, TypeOK, CheckState, SaveState,
       SavesHaveKeys, field, store, history
<1>3. CASE ClosePage
    BY <1>a, <1>3, FreeSlots, KeyAssumption DEF ClosePage, TypeOK, CheckState, SaveState,
       SavesHaveKeys, field, store, history
<1>4. CASE \E k \in Key \cup {Empty} : handleApiKeyInput(k)
    BY <1>a, <1>4, FreeSlots, KeyAssumption DEF handleApiKeyInput, Overlaps, TypeOK,
       CheckState, SaveState, SavesHaveKeys, field, store, history
<1>5. CASE TypeElsewhere
    BY <1>a, <1>5, FreeSlots, KeyAssumption DEF TypeElsewhere, TypeOK, CheckState,
       SaveState, SavesHaveKeys, field, store, history
<1>6. CASE TimerDropsCall
    BY <1>a, <1>6, FreeSlots, KeyAssumption DEF TimerDropsCall, TypeOK, CheckState,
       SaveState, SavesHaveKeys, field, store, history
<1>7. CASE FailsFormat
    BY <1>a, <1>7, FreeSlots, KeyAssumption DEF FailsFormat, TypeOK, CheckState,
       SaveState, SavesHaveKeys, field, store, history
<1>8. CASE \E c \in Check : StartCheck(c)
    BY <1>a, <1>8, FreeSlots, KeyAssumption DEF StartCheck, Overlaps, TypeOK, CheckState,
       SaveState, SavesHaveKeys, field, store, history
<1>9. CASE \E c \in Check : CheckRejects(c)
    BY <1>a, <1>9, FreeSlots, KeyAssumption DEF CheckRejects, Judge, TypeOK, CheckState,
       SaveState, SavesHaveKeys, field, store, history
<1>10. CASE \E c \in Check, s \in Save : CheckAccepts(c, s)
    BY <1>a, <1>10, FreeSlots, KeyAssumption DEF CheckAccepts, Judge, TypeOK, CheckState,
       SaveState, SavesHaveKeys, field, store, history
<1>11. CASE \E c \in Check : CheckAcceptsInVain(c)
    BY <1>a, <1>11, FreeSlots, KeyAssumption DEF CheckAcceptsInVain, Judge, TypeOK,
       CheckState, SaveState, SavesHaveKeys, field, store, history, Status
<1>12. CASE \E s \in Save : Look(s)
    BY <1>a, <1>12, FreeSlots, KeyAssumption DEF Look, To, TypeOK, CheckState, SaveState,
       SavesHaveKeys, field, store, history
<1>13. CASE \E s \in Save : Add(s)
    BY <1>a, <1>13, FreeSlots, KeyAssumption DEF Add, To, TypeOK, CheckState, SaveState,
       SavesHaveKeys, field, store, history
<1>14. CASE \E s \in Save : Update(s)
    BY <1>a, <1>14, FreeSlots, KeyAssumption DEF Update, To, TypeOK, CheckState,
       SaveState, SavesHaveKeys, field, store, history
<1>15. CASE \E s \in Save : SaveSucceeds(s)
    BY <1>a, <1>15, FreeSlots, KeyAssumption DEF SaveSucceeds, Ends, TypeOK, CheckState,
       SaveState, SavesHaveKeys, field, store, history
<1>16. CASE \E s \in Save : SaveFails(s)
    BY <1>a, <1>16, FreeSlots, KeyAssumption DEF SaveFails, To, Ends, TypeOK, CheckState,
       SaveState, SavesHaveKeys, field, store, history
<1>17. CASE UNCHANGED vars
    BY <1>a, <1>17 DEF vars, TypeOK, CheckState, SaveState, SavesHaveKeys, field, store,
       history
<1> QED
    BY <1>1, <1>2, <1>3, <1>4, <1>5, <1>6, <1>7, <1>8, <1>9, <1>10, <1>11, <1>12, <1>13,
       <1>14, <1>15, <1>16, <1>17, NextIs

LEMMA FreeKept == IndInv /\ [Next]_vars => FreeIsNotMine'
<1> SUFFICES ASSUME IndInv, [Next]_vars PROVE FreeIsNotMine'
    OBVIOUS
<1>a. TypeOK /\ FreeIsNotMine
    BY DEF IndInv, Shape
<1>1. CASE OpenPage
    BY <1>a, <1>1, FreeSlots, KeyAssumption DEF OpenPage, Overlaps, TypeOK, CheckState,
       FreeIsNotMine, field, store, history
<1>2. CASE Load
    BY <1>a, <1>2, FreeSlots, KeyAssumption DEF Load, TypeOK, CheckState, FreeIsNotMine,
       field, store, history
<1>3. CASE ClosePage
    BY <1>a, <1>3, FreeSlots, KeyAssumption DEF ClosePage, TypeOK, CheckState,
       FreeIsNotMine, field, store, history
<1>4. CASE \E k \in Key \cup {Empty} : handleApiKeyInput(k)
    BY <1>a, <1>4, FreeSlots, KeyAssumption DEF handleApiKeyInput, Overlaps, TypeOK,
       CheckState, FreeIsNotMine, field, store, history
<1>5. CASE TypeElsewhere
    BY <1>a, <1>5, FreeSlots, KeyAssumption DEF TypeElsewhere, TypeOK, CheckState,
       FreeIsNotMine, field, store, history
<1>6. CASE TimerDropsCall
    BY <1>a, <1>6, FreeSlots, KeyAssumption DEF TimerDropsCall, TypeOK, CheckState,
       FreeIsNotMine, field, store, history
<1>7. CASE FailsFormat
    BY <1>a, <1>7, FreeSlots, KeyAssumption DEF FailsFormat, TypeOK, CheckState,
       FreeIsNotMine, field, store, history
<1>8. CASE \E c \in Check : StartCheck(c)
    BY <1>a, <1>8, FreeSlots, KeyAssumption DEF StartCheck, Overlaps, TypeOK, CheckState,
       FreeIsNotMine, field, store, history
<1>9. CASE \E c \in Check : CheckRejects(c)
    BY <1>a, <1>9, FreeSlots, KeyAssumption DEF CheckRejects, Judge, TypeOK, CheckState,
       FreeIsNotMine, field, store, history
<1>10. CASE \E c \in Check, s \in Save : CheckAccepts(c, s)
    BY <1>a, <1>10, FreeSlots, KeyAssumption DEF CheckAccepts, Judge, TypeOK, CheckState,
       FreeIsNotMine, field, store, history
<1>11. CASE \E c \in Check : CheckAcceptsInVain(c)
    BY <1>a, <1>11, FreeSlots, KeyAssumption DEF CheckAcceptsInVain, Judge, TypeOK,
       CheckState, FreeIsNotMine, field, store, history, Status, SaveState
<1>12. CASE \E s \in Save : Look(s)
    BY <1>a, <1>12, FreeSlots, KeyAssumption DEF Look, To, TypeOK, CheckState,
       FreeIsNotMine, field, store, history
<1>13. CASE \E s \in Save : Add(s)
    BY <1>a, <1>13, FreeSlots, KeyAssumption DEF Add, To, TypeOK, CheckState,
       FreeIsNotMine, field, store, history
<1>14. CASE \E s \in Save : Update(s)
    BY <1>a, <1>14, FreeSlots, KeyAssumption DEF Update, To, TypeOK, CheckState,
       FreeIsNotMine, field, store, history
<1>15. CASE \E s \in Save : SaveSucceeds(s)
    BY <1>a, <1>15, FreeSlots, KeyAssumption DEF SaveSucceeds, Ends, TypeOK, CheckState,
       FreeIsNotMine, field, store, history
<1>16. CASE \E s \in Save : SaveFails(s)
    BY <1>a, <1>16, FreeSlots, KeyAssumption DEF SaveFails, To, Ends, TypeOK, CheckState,
       FreeIsNotMine, field, store, history
<1>17. CASE UNCHANGED vars
    BY <1>a, <1>17 DEF vars, TypeOK, CheckState, FreeIsNotMine, field, store, history
<1> QED
    BY <1>1, <1>2, <1>3, <1>4, <1>5, <1>6, <1>7, <1>8, <1>9, <1>10, <1>11, <1>12, <1>13,
       <1>14, <1>15, <1>16, <1>17, NextIs

LEMMA CheckedKept == IndInv /\ [Next]_vars => OnlyCheckedKeysSaved'
<1> SUFFICES ASSUME IndInv, [Next]_vars PROVE OnlyCheckedKeysSaved'
    OBVIOUS
<1>a. TypeOK /\ SavesHaveKeys /\ LooksHold /\ OnlyCheckedKeysSaved
    BY DEF IndInv, Shape
<1>1. CASE OpenPage
    BY <1>a, <1>1, FreeSlots DEF OpenPage, Overlaps, TypeOK, CheckState, SaveState,
       OnlyCheckedKeysSaved, field, store, history
<1>2. CASE Load
    BY <1>a, <1>2, FreeSlots DEF Load, TypeOK, CheckState, SaveState,
       OnlyCheckedKeysSaved, field, store, history
<1>3. CASE ClosePage
    BY <1>a, <1>3, FreeSlots DEF ClosePage, TypeOK, CheckState, SaveState,
       OnlyCheckedKeysSaved, field, store, history
<1>4. CASE \E k \in Key \cup {Empty} : handleApiKeyInput(k)
    BY <1>a, <1>4, FreeSlots DEF handleApiKeyInput, Overlaps, TypeOK, CheckState,
       SaveState, OnlyCheckedKeysSaved, field, store, history
<1>5. CASE TypeElsewhere
    BY <1>a, <1>5, FreeSlots DEF TypeElsewhere, TypeOK, CheckState, SaveState,
       OnlyCheckedKeysSaved, field, store, history
<1>6. CASE TimerDropsCall
    BY <1>a, <1>6, FreeSlots DEF TimerDropsCall, TypeOK, CheckState, SaveState,
       OnlyCheckedKeysSaved, field, store, history
<1>7. CASE FailsFormat
    BY <1>a, <1>7, FreeSlots DEF FailsFormat, TypeOK, CheckState, SaveState,
       OnlyCheckedKeysSaved, field, store, history
<1>8. CASE \E c \in Check : StartCheck(c)
    BY <1>a, <1>8, FreeSlots DEF StartCheck, Overlaps, TypeOK, CheckState, SaveState,
       OnlyCheckedKeysSaved, field, store, history
<1>9. CASE \E c \in Check : CheckRejects(c)
    BY <1>a, <1>9, FreeSlots DEF CheckRejects, Judge, TypeOK, CheckState, SaveState,
       OnlyCheckedKeysSaved, field, store, history
<1>10. CASE \E c \in Check, s \in Save : CheckAccepts(c, s)
    BY <1>a, <1>10, FreeSlots DEF CheckAccepts, Judge, TypeOK, CheckState, SaveState,
       OnlyCheckedKeysSaved, field, store, history
<1>11. CASE \E c \in Check : CheckAcceptsInVain(c)
    BY <1>a, <1>11, FreeSlots, KeyAssumption DEF CheckAcceptsInVain, Judge, TypeOK,
       CheckState, SaveState, OnlyCheckedKeysSaved, field, store, history, Status
<1>12. CASE \E s \in Save : Look(s)
    BY <1>a, <1>12, FreeSlots DEF Look, To, TypeOK, CheckState, SaveState,
       OnlyCheckedKeysSaved, field, store, history
<1>13. CASE \E s \in Save : Add(s)
    <2>1. PICK s \in Save : Add(s)
        BY <1>13
    <2>2. saves[s].key \in Key /\ saves[s].key \in accepted
        BY <1>a, <2>1 DEF Add, TypeOK, SaveState, SavesHaveKeys, OnlyCheckedKeysSaved, LooksHold
    <2>3. \A n \in 1..Len(rows') : rows'[n] \in accepted
        BY <1>a, <2>1, <2>2, Added DEF Add, TypeOK, OnlyCheckedKeysSaved
    <2>4. \A r \in Save : saves'[r].key # None => saves'[r].key = saves[r].key
        BY <1>a, <2>1, FreeSlots DEF Add, To, Ends, TypeOK, SaveState
    <2> QED
        BY <1>a, <2>1, <2>3, <2>4 DEF Add, OnlyCheckedKeysSaved, history
<1>14. CASE \E s \in Save : Update(s)
    <2>1. PICK s \in Save : Update(s)
        BY <1>14
    <2>2. saves[s].key \in Key /\ saves[s].key \in accepted /\ rows # <<>>
        BY <1>a, <2>1 DEF Update, TypeOK, SaveState, SavesHaveKeys, OnlyCheckedKeysSaved,
           LooksHold
    <2>3. \A n \in 1..Len(rows') : rows'[n] \in accepted
        BY <1>a, <2>1, <2>2, Updated DEF Update, TypeOK, OnlyCheckedKeysSaved
    <2>4. \A r \in Save : saves'[r].key # None => saves'[r].key = saves[r].key
        BY <1>a, <2>1, FreeSlots DEF Update, To, Ends, TypeOK, SaveState
    <2> QED
        BY <1>a, <2>1, <2>3, <2>4 DEF Update, OnlyCheckedKeysSaved, history
<1>15. CASE \E s \in Save : SaveSucceeds(s)
    BY <1>a, <1>15, FreeSlots DEF SaveSucceeds, Ends, TypeOK, CheckState, SaveState,
       OnlyCheckedKeysSaved, field, store, history
<1>16. CASE \E s \in Save : SaveFails(s)
    BY <1>a, <1>16, FreeSlots DEF SaveFails, To, Ends, TypeOK, CheckState, SaveState,
       OnlyCheckedKeysSaved, field, store, history
<1>17. CASE UNCHANGED vars
    BY <1>a, <1>17 DEF vars, TypeOK, CheckState, SaveState, OnlyCheckedKeysSaved, field,
       store, history
<1> QED
    BY <1>1, <1>2, <1>3, <1>4, <1>5, <1>6, <1>7, <1>8, <1>9, <1>10, <1>11, <1>12, <1>13,
       <1>14, <1>15, <1>16, <1>17, NextIs

LEMMA SpinnerKept == IndInv /\ [Next]_vars => SpinnerIsForThisKey'
<1> SUFFICES ASSUME IndInv, [Next]_vars PROVE SpinnerIsForThisKey'
    OBVIOUS
<1>a. TypeOK /\ ClosedIsBare /\ SpinnerIsForThisKey
    BY DEF IndInv, Shape
<1>1. CASE OpenPage
    BY <1>a, <1>1, FreeSlots, KeyAssumption DEF OpenPage, Overlaps, TypeOK, CheckState,
       ClosedIsBare, SpinnerIsForThisKey, field, store, history
<1>2. CASE Load
    BY <1>a, <1>2, FreeSlots, KeyAssumption DEF Load, TypeOK, CheckState, ClosedIsBare,
       SpinnerIsForThisKey, field, store, history
<1>3. CASE ClosePage
    BY <1>a, <1>3, FreeSlots, KeyAssumption DEF ClosePage, TypeOK, CheckState,
       ClosedIsBare, SpinnerIsForThisKey, field, store, history
<1>4. CASE \E k \in Key \cup {Empty} : handleApiKeyInput(k)
    BY <1>a, <1>4, FreeSlots, KeyAssumption DEF handleApiKeyInput, Overlaps, TypeOK,
       CheckState, ClosedIsBare, SpinnerIsForThisKey, field, store, history
<1>5. CASE TypeElsewhere
    BY <1>a, <1>5, FreeSlots, KeyAssumption DEF TypeElsewhere, TypeOK, CheckState,
       ClosedIsBare, SpinnerIsForThisKey, field, store, history
<1>6. CASE TimerDropsCall
    BY <1>a, <1>6, FreeSlots, KeyAssumption DEF TimerDropsCall, TypeOK, CheckState,
       ClosedIsBare, SpinnerIsForThisKey, field, store, history
<1>7. CASE FailsFormat
    BY <1>a, <1>7, FreeSlots, KeyAssumption DEF FailsFormat, TypeOK, CheckState,
       ClosedIsBare, SpinnerIsForThisKey, field, store, history
<1>8. CASE \E c \in Check : StartCheck(c)
    BY <1>a, <1>8, FreeSlots, KeyAssumption DEF StartCheck, Overlaps, TypeOK, CheckState,
       ClosedIsBare, SpinnerIsForThisKey, field, store, history
<1>9. CASE \E c \in Check : CheckRejects(c)
    BY <1>a, <1>9, FreeSlots, KeyAssumption DEF CheckRejects, Judge, TypeOK, CheckState,
       ClosedIsBare, SpinnerIsForThisKey, field, store, history
<1>10. CASE \E c \in Check, s \in Save : CheckAccepts(c, s)
    BY <1>a, <1>10, FreeSlots, KeyAssumption DEF CheckAccepts, Judge, TypeOK, CheckState,
       ClosedIsBare, SpinnerIsForThisKey, field, store, history
<1>11. CASE \E c \in Check : CheckAcceptsInVain(c)
    BY <1>a, <1>11, FreeSlots, KeyAssumption DEF CheckAcceptsInVain, Judge, TypeOK,
       CheckState, ClosedIsBare, SpinnerIsForThisKey, field, store, history, Status,
       SaveState
<1>12. CASE \E s \in Save : Look(s)
    BY <1>a, <1>12, FreeSlots, KeyAssumption DEF Look, To, TypeOK, CheckState,
       ClosedIsBare, SpinnerIsForThisKey, field, store, history
<1>13. CASE \E s \in Save : Add(s)
    BY <1>a, <1>13, FreeSlots, KeyAssumption DEF Add, To, TypeOK, CheckState,
       ClosedIsBare, SpinnerIsForThisKey, field, store, history
<1>14. CASE \E s \in Save : Update(s)
    BY <1>a, <1>14, FreeSlots, KeyAssumption DEF Update, To, TypeOK, CheckState,
       ClosedIsBare, SpinnerIsForThisKey, field, store, history
<1>15. CASE \E s \in Save : SaveSucceeds(s)
    BY <1>a, <1>15, FreeSlots, KeyAssumption DEF SaveSucceeds, Ends, TypeOK, CheckState,
       ClosedIsBare, SpinnerIsForThisKey, field, store, history
<1>16. CASE \E s \in Save : SaveFails(s)
    BY <1>a, <1>16, FreeSlots, KeyAssumption DEF SaveFails, To, Ends, TypeOK, CheckState,
       ClosedIsBare, SpinnerIsForThisKey, field, store, history
<1>17. CASE UNCHANGED vars
    BY <1>a, <1>17 DEF vars, TypeOK, CheckState, ClosedIsBare, SpinnerIsForThisKey,
       field, store, history
<1> QED
    BY <1>1, <1>2, <1>3, <1>4, <1>5, <1>6, <1>7, <1>8, <1>9, <1>10, <1>11, <1>12, <1>13,
       <1>14, <1>15, <1>16, <1>17, NextIs

LEMMA TypedKept == IndInv /\ [Next]_vars => TypedIsJudged'
<1> SUFFICES ASSUME IndInv, [Next]_vars PROVE TypedIsJudged'
    OBVIOUS
<1>a. TypeOK /\ ClosedIsBare /\ TypedIsJudged
    BY DEF IndInv, Shape
<1>1. CASE OpenPage
    BY <1>a, <1>1, FreeSlots, KeyAssumption DEF OpenPage, Overlaps, TypeOK, CheckState,
       ClosedIsBare, TypedIsJudged, field, store, history
<1>2. CASE Load
    BY <1>a, <1>2, FreeSlots, KeyAssumption DEF Load, TypeOK, CheckState, ClosedIsBare,
       TypedIsJudged, field, store, history
<1>3. CASE ClosePage
    BY <1>a, <1>3, FreeSlots, KeyAssumption DEF ClosePage, TypeOK, CheckState,
       ClosedIsBare, TypedIsJudged, field, store, history
<1>4. CASE \E k \in Key \cup {Empty} : handleApiKeyInput(k)
    BY <1>a, <1>4, FreeSlots, KeyAssumption DEF handleApiKeyInput, Overlaps, TypeOK,
       CheckState, ClosedIsBare, TypedIsJudged, field, store, history
<1>5. CASE TypeElsewhere
    BY <1>a, <1>5, FreeSlots, KeyAssumption DEF TypeElsewhere, TypeOK, CheckState,
       ClosedIsBare, TypedIsJudged, field, store, history
<1>6. CASE TimerDropsCall
    BY <1>a, <1>6, FreeSlots, KeyAssumption DEF TimerDropsCall, TypeOK, CheckState,
       ClosedIsBare, TypedIsJudged, field, store, history
<1>7. CASE FailsFormat
    BY <1>a, <1>7, FreeSlots, KeyAssumption DEF FailsFormat, TypeOK, CheckState,
       ClosedIsBare, TypedIsJudged, field, store, history
<1>8. CASE \E c \in Check : StartCheck(c)
    BY <1>a, <1>8, FreeSlots, KeyAssumption DEF StartCheck, Overlaps, TypeOK, CheckState,
       ClosedIsBare, TypedIsJudged, field, store, history
<1>9. CASE \E c \in Check : CheckRejects(c)
    BY <1>a, <1>9, FreeSlots, KeyAssumption DEF CheckRejects, Judge, TypeOK, CheckState,
       ClosedIsBare, TypedIsJudged, field, store, history
<1>10. CASE \E c \in Check, s \in Save : CheckAccepts(c, s)
    BY <1>a, <1>10, FreeSlots, KeyAssumption DEF CheckAccepts, Judge, TypeOK, CheckState,
       ClosedIsBare, TypedIsJudged, field, store, history
<1>11. CASE \E c \in Check : CheckAcceptsInVain(c)
    BY <1>a, <1>11, FreeSlots, KeyAssumption DEF CheckAcceptsInVain, Judge, TypeOK,
       CheckState, ClosedIsBare, TypedIsJudged, field, store, history, Status, SaveState
<1>12. CASE \E s \in Save : Look(s)
    BY <1>a, <1>12, FreeSlots, KeyAssumption DEF Look, To, TypeOK, CheckState,
       ClosedIsBare, TypedIsJudged, field, store, history
<1>13. CASE \E s \in Save : Add(s)
    BY <1>a, <1>13, FreeSlots, KeyAssumption DEF Add, To, TypeOK, CheckState,
       ClosedIsBare, TypedIsJudged, field, store, history
<1>14. CASE \E s \in Save : Update(s)
    BY <1>a, <1>14, FreeSlots, KeyAssumption DEF Update, To, TypeOK, CheckState,
       ClosedIsBare, TypedIsJudged, field, store, history
<1>15. CASE \E s \in Save : SaveSucceeds(s)
    BY <1>a, <1>15, FreeSlots, KeyAssumption DEF SaveSucceeds, Ends, TypeOK, CheckState,
       ClosedIsBare, TypedIsJudged, field, store, history
<1>16. CASE \E s \in Save : SaveFails(s)
    BY <1>a, <1>16, FreeSlots, KeyAssumption DEF SaveFails, To, Ends, TypeOK, CheckState,
       ClosedIsBare, TypedIsJudged, field, store, history
<1>17. CASE UNCHANGED vars
    BY <1>a, <1>17 DEF vars, TypeOK, CheckState, ClosedIsBare, TypedIsJudged, field,
       store, history
<1> QED
    BY <1>1, <1>2, <1>3, <1>4, <1>5, <1>6, <1>7, <1>8, <1>9, <1>10, <1>11, <1>12, <1>13,
       <1>14, <1>15, <1>16, <1>17, NextIs

LEMMA LooksKept == IndInv /\ [Next]_vars => LooksHold'
<1> SUFFICES ASSUME IndInv, [Next]_vars PROVE LooksHold'
    OBVIOUS
<1>a. TypeOK /\ SavesHaveKeys /\ LooksHold /\ SavesAlone
    BY DEF IndInv, Shape
<1>1. CASE OpenPage
    BY <1>a, <1>1, FreeSlots, KeyAssumption DEF OpenPage, Overlaps, TypeOK, SaveState,
       SavesHaveKeys, LooksHold, SavesAlone, Quiet, Saving, field, store, history
<1>2. CASE Load
    BY <1>a, <1>2, FreeSlots, KeyAssumption DEF Load, TypeOK, SaveState, SavesHaveKeys,
       LooksHold, SavesAlone, Quiet, Saving, field, store, history
<1>3. CASE ClosePage
    BY <1>a, <1>3, FreeSlots, KeyAssumption DEF ClosePage, TypeOK, SaveState,
       SavesHaveKeys, LooksHold, SavesAlone, Quiet, Saving, field, store, history
<1>4. CASE \E k \in Key \cup {Empty} : handleApiKeyInput(k)
    BY <1>a, <1>4, FreeSlots, KeyAssumption DEF handleApiKeyInput, Overlaps, TypeOK,
       SaveState, SavesHaveKeys, LooksHold, SavesAlone, Quiet, Saving, field, store, history
<1>5. CASE TypeElsewhere
    BY <1>a, <1>5, FreeSlots, KeyAssumption DEF TypeElsewhere, TypeOK, SaveState,
       SavesHaveKeys, LooksHold, SavesAlone, Quiet, Saving, field, store, history
<1>6. CASE TimerDropsCall
    BY <1>a, <1>6, FreeSlots, KeyAssumption DEF TimerDropsCall, TypeOK, SaveState,
       SavesHaveKeys, LooksHold, SavesAlone, Quiet, Saving, field, store, history
<1>7. CASE FailsFormat
    BY <1>a, <1>7, FreeSlots, KeyAssumption DEF FailsFormat, TypeOK, SaveState,
       SavesHaveKeys, LooksHold, SavesAlone, Quiet, Saving, field, store, history
<1>8. CASE \E c \in Check : StartCheck(c)
    BY <1>a, <1>8, FreeSlots, KeyAssumption DEF StartCheck, Overlaps, TypeOK, SaveState,
       SavesHaveKeys, LooksHold, SavesAlone, Quiet, Saving, field, store, history
<1>9. CASE \E c \in Check : CheckRejects(c)
    BY <1>a, <1>9, FreeSlots, KeyAssumption DEF CheckRejects, Judge, TypeOK, SaveState,
       SavesHaveKeys, LooksHold, SavesAlone, Quiet, Saving, field, store, history
<1>10. CASE \E c \in Check, s \in Save : CheckAccepts(c, s)
    BY <1>a, <1>10, FreeSlots, KeyAssumption DEF CheckAccepts, Judge, TypeOK, SaveState,
       SavesHaveKeys, LooksHold, SavesAlone, Quiet, Saving, field, store, history
<1>11. CASE \E c \in Check : CheckAcceptsInVain(c)
    BY <1>a, <1>11, FreeSlots, KeyAssumption DEF CheckAcceptsInVain, Judge, TypeOK,
       SaveState, SavesHaveKeys, LooksHold, SavesAlone, Quiet, Saving, field, store,
       history, Status, CheckState
<1>12. CASE \E s \in Save : Look(s)
    BY <1>a, <1>12, FreeSlots, KeyAssumption DEF Look, To, TypeOK, SaveState,
       SavesHaveKeys, LooksHold, SavesAlone, Quiet, Saving, field, store, history
<1>13. CASE \E s \in Save : Add(s)
    <2>1. PICK s \in Save : Add(s)
        BY <1>13
    <2>2. saves[s].key \in Key
        BY <1>a, <2>1 DEF Add, TypeOK, SaveState, SavesHaveKeys
    <2> QED
        BY <1>a, <2>1, <2>2, FreeSlots, Added
        DEF Add, To, Ends, TypeOK, SaveState, SavesHaveKeys, LooksHold, SavesAlone, field,
           store, history
<1>14. CASE \E s \in Save : Update(s)
    <2>1. PICK s \in Save : Update(s)
        BY <1>14
    <2>2. saves[s].key \in Key /\ rows # <<>>
        BY <1>a, <2>1 DEF Update, TypeOK, SaveState, SavesHaveKeys, LooksHold
    <2> QED
        BY <1>a, <2>1, <2>2, FreeSlots, Updated
        DEF Update, To, Ends, TypeOK, SaveState, SavesHaveKeys, LooksHold, SavesAlone, field,
           store, history
<1>15. CASE \E s \in Save : SaveSucceeds(s)
    BY <1>a, <1>15, FreeSlots, KeyAssumption DEF SaveSucceeds, Ends, TypeOK, SaveState,
       SavesHaveKeys, LooksHold, SavesAlone, Quiet, Saving, field, store, history
<1>16. CASE \E s \in Save : SaveFails(s)
    BY <1>a, <1>16, FreeSlots, KeyAssumption DEF SaveFails, To, Ends, TypeOK, SaveState,
       SavesHaveKeys, LooksHold, SavesAlone, Quiet, Saving, field, store, history
<1>17. CASE UNCHANGED vars
    BY <1>a, <1>17 DEF vars, TypeOK, SaveState, SavesHaveKeys, LooksHold, SavesAlone,
       Quiet, Saving, field, store, history
<1> QED
    BY <1>1, <1>2, <1>3, <1>4, <1>5, <1>6, <1>7, <1>8, <1>9, <1>10, <1>11, <1>12, <1>13,
       <1>14, <1>15, <1>16, <1>17, NextIs

LEMMA AloneKept == IndInv /\ [Next]_vars => SavesAlone'
<1> SUFFICES ASSUME IndInv, [Next]_vars PROVE SavesAlone'
    OBVIOUS
<1>a. TypeOK /\ SavesHaveKeys /\ SavesAlone
    BY DEF IndInv, Shape
<1>1. CASE OpenPage
    BY <1>a, <1>1, FreeSlots, KeyAssumption DEF OpenPage, Overlaps, TypeOK, SaveState,
       SavesHaveKeys, SavesAlone, Quiet, Saving, field, store, history
<1>2. CASE Load
    BY <1>a, <1>2, FreeSlots, KeyAssumption DEF Load, TypeOK, SaveState, SavesHaveKeys,
       SavesAlone, Quiet, Saving, field, store, history
<1>3. CASE ClosePage
    BY <1>a, <1>3, FreeSlots, KeyAssumption DEF ClosePage, TypeOK, SaveState,
       SavesHaveKeys, SavesAlone, Quiet, Saving, field, store, history
<1>4. CASE \E k \in Key \cup {Empty} : handleApiKeyInput(k)
    BY <1>a, <1>4, FreeSlots, KeyAssumption DEF handleApiKeyInput, Overlaps, TypeOK,
       SaveState, SavesHaveKeys, SavesAlone, Quiet, Saving, field, store, history
<1>5. CASE TypeElsewhere
    BY <1>a, <1>5, FreeSlots, KeyAssumption DEF TypeElsewhere, TypeOK, SaveState,
       SavesHaveKeys, SavesAlone, Quiet, Saving, field, store, history
<1>6. CASE TimerDropsCall
    BY <1>a, <1>6, FreeSlots, KeyAssumption DEF TimerDropsCall, TypeOK, SaveState,
       SavesHaveKeys, SavesAlone, Quiet, Saving, field, store, history
<1>7. CASE FailsFormat
    BY <1>a, <1>7, FreeSlots, KeyAssumption DEF FailsFormat, TypeOK, SaveState,
       SavesHaveKeys, SavesAlone, Quiet, Saving, field, store, history
<1>8. CASE \E c \in Check : StartCheck(c)
    BY <1>a, <1>8, FreeSlots, KeyAssumption DEF StartCheck, Overlaps, TypeOK, SaveState,
       SavesHaveKeys, SavesAlone, Quiet, Saving, field, store, history
<1>9. CASE \E c \in Check : CheckRejects(c)
    BY <1>a, <1>9, FreeSlots, KeyAssumption DEF CheckRejects, Judge, TypeOK, SaveState,
       SavesHaveKeys, SavesAlone, Quiet, Saving, field, store, history
<1>10. CASE \E c \in Check, s \in Save : CheckAccepts(c, s)
    <2>1. PICK c \in Check, s \in Save : CheckAccepts(c, s)
        BY <1>10
    <2> QED
        BY <1>a, <2>1, FreeSlots DEF CheckAccepts, Judge, TypeOK, SaveState, SavesAlone, Saving
<1>11. CASE \E c \in Check : CheckAcceptsInVain(c)
    BY <1>a, <1>11, FreeSlots, KeyAssumption DEF CheckAcceptsInVain, Judge, TypeOK,
       SaveState, SavesAlone, Saving, field, store, history, Status, CheckState
<1>12. CASE \E s \in Save : Look(s)
    BY <1>a, <1>12, FreeSlots, KeyAssumption DEF Look, To, TypeOK, SaveState,
       SavesHaveKeys, SavesAlone, Quiet, Saving, field, store, history
<1>13. CASE \E s \in Save : Add(s)
    BY <1>a, <1>13, FreeSlots, KeyAssumption DEF Add, To, TypeOK, SaveState,
       SavesHaveKeys, SavesAlone, Quiet, Saving, field, store, history
<1>14. CASE \E s \in Save : Update(s)
    BY <1>a, <1>14, FreeSlots, KeyAssumption DEF Update, To, TypeOK, SaveState,
       SavesHaveKeys, SavesAlone, Quiet, Saving, field, store, history
<1>15. CASE \E s \in Save : SaveSucceeds(s)
    BY <1>a, <1>15, FreeSlots, KeyAssumption DEF SaveSucceeds, Ends, TypeOK, SaveState,
       SavesHaveKeys, SavesAlone, Quiet, Saving, field, store, history
<1>16. CASE \E s \in Save : SaveFails(s)
    BY <1>a, <1>16, FreeSlots, KeyAssumption DEF SaveFails, To, Ends, TypeOK, SaveState,
       SavesHaveKeys, SavesAlone, Quiet, Saving, field, store, history
<1>17. CASE UNCHANGED vars
    BY <1>a, <1>17 DEF vars, TypeOK, SaveState, SavesHaveKeys, SavesAlone, Quiet, Saving,
       field, store, history
<1> QED
    BY <1>1, <1>2, <1>3, <1>4, <1>5, <1>6, <1>7, <1>8, <1>9, <1>10, <1>11, <1>12, <1>13,
       <1>14, <1>15, <1>16, <1>17, NextIs

LEMMA OneThingKept == IndInv /\ [Next]_vars => OneThingAtATime'
<1> SUFFICES ASSUME IndInv, [Next]_vars PROVE OneThingAtATime'
    OBVIOUS
<1>a. TypeOK /\ ClosedIsBare /\ SavesHaveKeys /\ FreeIsNotMine /\ OneThingAtATime
    BY DEF IndInv, Shape
<1>1. CASE OpenPage
    BY <1>a, <1>1, FreeSlots, KeyAssumption DEF OpenPage, Overlaps, TypeOK, CheckState,
       SaveState, ClosedIsBare, SavesHaveKeys, FreeIsNotMine, OneThingAtATime, Quiet,
       Checking, Saving, field, store, history
<1>2. CASE Load
    BY <1>a, <1>2, FreeSlots, KeyAssumption DEF Load, TypeOK, CheckState, SaveState,
       ClosedIsBare, SavesHaveKeys, FreeIsNotMine, OneThingAtATime, Quiet, Checking,
       Saving, field, store, history
<1>3. CASE ClosePage
    BY <1>a, <1>3, FreeSlots, KeyAssumption DEF ClosePage, TypeOK, CheckState, SaveState,
       ClosedIsBare, SavesHaveKeys, FreeIsNotMine, OneThingAtATime, Quiet, Checking,
       Saving, field, store, history
<1>4. CASE \E k \in Key \cup {Empty} : handleApiKeyInput(k)
    BY <1>a, <1>4, FreeSlots, KeyAssumption DEF handleApiKeyInput, Overlaps, TypeOK,
       CheckState, SaveState, ClosedIsBare, SavesHaveKeys, FreeIsNotMine,
       OneThingAtATime, Quiet, Checking, Saving, field, store, history
<1>5. CASE TypeElsewhere
    BY <1>a, <1>5, FreeSlots, KeyAssumption DEF TypeElsewhere, TypeOK, CheckState,
       SaveState, ClosedIsBare, SavesHaveKeys, FreeIsNotMine, OneThingAtATime, Quiet,
       Checking, Saving, field, store, history
<1>6. CASE TimerDropsCall
    BY <1>a, <1>6, FreeSlots, KeyAssumption DEF TimerDropsCall, TypeOK, CheckState,
       SaveState, ClosedIsBare, SavesHaveKeys, FreeIsNotMine, OneThingAtATime, Quiet,
       Checking, Saving, field, store, history
<1>7. CASE FailsFormat
    BY <1>a, <1>7, FreeSlots, KeyAssumption DEF FailsFormat, TypeOK, CheckState,
       SaveState, ClosedIsBare, SavesHaveKeys, FreeIsNotMine, OneThingAtATime, Quiet,
       Checking, Saving, field, store, history
<1>8. CASE \E c \in Check : StartCheck(c)
    <2>1. PICK c \in Check : StartCheck(c)
        BY <1>8
    <2> QED
        BY <1>a, <2>1, FreeSlots DEF StartCheck, Overlaps, TypeOK, CheckState, FreeIsNotMine,
           OneThingAtATime, Quiet, Checking, Saving, store
<1>9. CASE \E c \in Check : CheckRejects(c)
    BY <1>a, <1>9, FreeSlots, KeyAssumption DEF CheckRejects, Judge, TypeOK, CheckState,
       SaveState, ClosedIsBare, SavesHaveKeys, FreeIsNotMine, OneThingAtATime, Quiet,
       Checking, Saving, field, store, history
<1>10. CASE \E c \in Check, s \in Save : CheckAccepts(c, s)
    BY <1>a, <1>10, FreeSlots, KeyAssumption DEF CheckAccepts, Judge, TypeOK, CheckState,
       SaveState, ClosedIsBare, SavesHaveKeys, FreeIsNotMine, OneThingAtATime, Quiet,
       Checking, Saving, field, store, history
<1>11. CASE \E c \in Check : CheckAcceptsInVain(c)
    BY <1>a, <1>11, FreeSlots, KeyAssumption DEF CheckAcceptsInVain, Judge, TypeOK,
       CheckState, SaveState, ClosedIsBare, SavesHaveKeys, FreeIsNotMine,
       OneThingAtATime, Quiet, Checking, Saving, field, store, history, Status
<1>12. CASE \E s \in Save : Look(s)
    BY <1>a, <1>12, FreeSlots, KeyAssumption DEF Look, To, TypeOK, CheckState, SaveState,
       ClosedIsBare, SavesHaveKeys, FreeIsNotMine, OneThingAtATime, Quiet, Checking,
       Saving, field, store, history
<1>13. CASE \E s \in Save : Add(s)
    BY <1>a, <1>13, FreeSlots, KeyAssumption DEF Add, To, TypeOK, CheckState, SaveState,
       ClosedIsBare, SavesHaveKeys, FreeIsNotMine, OneThingAtATime, Quiet, Checking,
       Saving, field, store, history
<1>14. CASE \E s \in Save : Update(s)
    BY <1>a, <1>14, FreeSlots, KeyAssumption DEF Update, To, TypeOK, CheckState,
       SaveState, ClosedIsBare, SavesHaveKeys, FreeIsNotMine, OneThingAtATime, Quiet,
       Checking, Saving, field, store, history
<1>15. CASE \E s \in Save : SaveSucceeds(s)
    BY <1>a, <1>15, FreeSlots, KeyAssumption DEF SaveSucceeds, Ends, TypeOK, CheckState,
       SaveState, ClosedIsBare, SavesHaveKeys, FreeIsNotMine, OneThingAtATime, Quiet,
       Checking, Saving, field, store, history
<1>16. CASE \E s \in Save : SaveFails(s)
    BY <1>a, <1>16, FreeSlots, KeyAssumption DEF SaveFails, To, Ends, TypeOK, CheckState,
       SaveState, ClosedIsBare, SavesHaveKeys, FreeIsNotMine, OneThingAtATime, Quiet,
       Checking, Saving, field, store, history
<1>17. CASE UNCHANGED vars
    BY <1>a, <1>17 DEF vars, TypeOK, CheckState, SaveState, ClosedIsBare, SavesHaveKeys,
       FreeIsNotMine, OneThingAtATime, Quiet, Checking, Saving, field, store, history
<1> QED
    BY <1>1, <1>2, <1>3, <1>4, <1>5, <1>6, <1>7, <1>8, <1>9, <1>10, <1>11, <1>12, <1>13,
       <1>14, <1>15, <1>16, <1>17, NextIs

LEMMA OnItsWayKept == IndInv /\ [Next]_vars => ValidIsOnItsWay'
<1> SUFFICES ASSUME IndInv, [Next]_vars PROVE ValidIsOnItsWay'
    OBVIOUS
<1>a. /\ TypeOK /\ ClosedIsBare /\ SavesHaveKeys /\ FreeIsNotMine /\ LooksHold
      /\ SavesAlone /\ OneThingAtATime /\ ValidIsOnItsWay
    BY DEF IndInv, Shape
<1>1. CASE OpenPage
    BY <1>a, <1>1, FreeSlots, KeyAssumption DEF OpenPage, Overlaps, TypeOK, CheckState,
       SaveState, ClosedIsBare, SavesHaveKeys, SavesAlone, FreeIsNotMine,
       OneThingAtATime, ValidIsOnItsWay, Quiet, Checking, Saving, field, store, history
<1>2. CASE Load
    BY <1>a, <1>2, FreeSlots, KeyAssumption DEF Load, TypeOK, CheckState, SaveState,
       ClosedIsBare, SavesHaveKeys, SavesAlone, FreeIsNotMine, OneThingAtATime,
       ValidIsOnItsWay, Quiet, Checking, Saving, field, store, history
<1>3. CASE ClosePage
    BY <1>a, <1>3, FreeSlots, KeyAssumption DEF ClosePage, TypeOK, CheckState, SaveState,
       ClosedIsBare, SavesHaveKeys, SavesAlone, FreeIsNotMine, OneThingAtATime,
       ValidIsOnItsWay, Quiet, Checking, Saving, field, store, history
<1>4. CASE \E k \in Key \cup {Empty} : handleApiKeyInput(k)
    BY <1>a, <1>4, FreeSlots, KeyAssumption DEF handleApiKeyInput, Overlaps, TypeOK,
       CheckState, SaveState, ClosedIsBare, SavesHaveKeys, SavesAlone, FreeIsNotMine,
       OneThingAtATime, ValidIsOnItsWay, Quiet, Checking, Saving, field, store, history
<1>5. CASE TypeElsewhere
    BY <1>a, <1>5, FreeSlots, KeyAssumption DEF TypeElsewhere, TypeOK, CheckState,
       SaveState, ClosedIsBare, SavesHaveKeys, SavesAlone, FreeIsNotMine,
       OneThingAtATime, ValidIsOnItsWay, Quiet, Checking, Saving, field, store, history
<1>6. CASE TimerDropsCall
    BY <1>a, <1>6, FreeSlots, KeyAssumption DEF TimerDropsCall, TypeOK, CheckState,
       SaveState, ClosedIsBare, SavesHaveKeys, SavesAlone, FreeIsNotMine,
       OneThingAtATime, ValidIsOnItsWay, Quiet, Checking, Saving, field, store, history
<1>7. CASE FailsFormat
    BY <1>a, <1>7, FreeSlots, KeyAssumption DEF FailsFormat, TypeOK, CheckState,
       SaveState, ClosedIsBare, SavesHaveKeys, SavesAlone, FreeIsNotMine,
       OneThingAtATime, ValidIsOnItsWay, Quiet, Checking, Saving, field, store, history
<1>8. CASE \E c \in Check : StartCheck(c)
    BY <1>a, <1>8, FreeSlots, KeyAssumption DEF StartCheck, Overlaps, TypeOK, CheckState,
       SaveState, ClosedIsBare, SavesHaveKeys, SavesAlone, FreeIsNotMine,
       OneThingAtATime, ValidIsOnItsWay, Quiet, Checking, Saving, field, store, history
<1>9. CASE \E c \in Check : CheckRejects(c)
    BY <1>a, <1>9, FreeSlots, KeyAssumption DEF CheckRejects, Judge, TypeOK, CheckState,
       SaveState, ClosedIsBare, SavesHaveKeys, SavesAlone, FreeIsNotMine,
       OneThingAtATime, ValidIsOnItsWay, Quiet, Checking, Saving, field, store, history
<1>10. CASE \E c \in Check, s \in Save : CheckAccepts(c, s)
    BY <1>a, <1>10, FreeSlots, KeyAssumption DEF CheckAccepts, Judge, TypeOK, CheckState,
       SaveState, ClosedIsBare, SavesHaveKeys, SavesAlone, FreeIsNotMine,
       OneThingAtATime, ValidIsOnItsWay, Quiet, Checking, Saving, field, store, history
<1>11. CASE \E c \in Check : CheckAcceptsInVain(c)
    BY <1>a, <1>11, FreeSlots, KeyAssumption DEF CheckAcceptsInVain, Judge, TypeOK,
       CheckState, SaveState, ClosedIsBare, SavesHaveKeys, SavesAlone, FreeIsNotMine,
       OneThingAtATime, ValidIsOnItsWay, Quiet, Checking, Saving, field, store, history,
       Status
<1>12. CASE \E s \in Save : Look(s)
    BY <1>a, <1>12, FreeSlots, KeyAssumption DEF Look, To, TypeOK, CheckState, SaveState,
       ClosedIsBare, SavesHaveKeys, SavesAlone, FreeIsNotMine, OneThingAtATime,
       ValidIsOnItsWay, Quiet, Checking, Saving, field, store, history
<1>13. CASE \E s \in Save : Add(s)
    <2>1. PICK s \in Save : Add(s)
        BY <1>13
    <2>2. saves[s].key \in Key
        BY <1>a, <2>1 DEF Add, TypeOK, SaveState, SavesHaveKeys
    <2> QED
        BY <1>a, <2>1, <2>2, FreeSlots, Added
        DEF Add, To, Ends, TypeOK, SaveState, SavesHaveKeys, LooksHold, SavesAlone,
           ValidIsOnItsWay, Saving, field, store, history
<1>14. CASE \E s \in Save : Update(s)
    <2>1. PICK s \in Save : Update(s)
        BY <1>14
    <2>2. saves[s].key \in Key /\ rows # <<>>
        BY <1>a, <2>1 DEF Update, TypeOK, SaveState, SavesHaveKeys, LooksHold
    <2> QED
        BY <1>a, <2>1, <2>2, FreeSlots, Updated
        DEF Update, To, Ends, TypeOK, SaveState, SavesHaveKeys, LooksHold, SavesAlone,
           ValidIsOnItsWay, Saving, field, store, history
<1>15. CASE \E s \in Save : SaveSucceeds(s)
    BY <1>a, <1>15, FreeSlots, KeyAssumption DEF SaveSucceeds, Ends, TypeOK, CheckState,
       SaveState, ClosedIsBare, SavesHaveKeys, SavesAlone, FreeIsNotMine,
       OneThingAtATime, ValidIsOnItsWay, Quiet, Checking, Saving, field, store, history
<1>16. CASE \E s \in Save : SaveFails(s)
    BY <1>a, <1>16, FreeSlots, KeyAssumption DEF SaveFails, To, Ends, TypeOK, CheckState,
       SaveState, ClosedIsBare, SavesHaveKeys, SavesAlone, FreeIsNotMine,
       OneThingAtATime, ValidIsOnItsWay, Quiet, Checking, Saving, field, store, history
<1>17. CASE UNCHANGED vars
    BY <1>a, <1>17 DEF vars, TypeOK, CheckState, SaveState, ClosedIsBare, SavesHaveKeys,
       SavesAlone, FreeIsNotMine, OneThingAtATime, ValidIsOnItsWay, Quiet, Checking,
       Saving, field, store, history
<1> QED
    BY <1>1, <1>2, <1>3, <1>4, <1>5, <1>6, <1>7, <1>8, <1>9, <1>10, <1>11, <1>12, <1>13,
       <1>14, <1>15, <1>16, <1>17, NextIs

LEMMA RowsKept == IndInv /\ [Next]_vars => OneRow'
<1> SUFFICES ASSUME IndInv, [Next]_vars PROVE OneRow'
    OBVIOUS
<1>a. TypeOK /\ SavesHaveKeys /\ LooksHold /\ OneRow
    BY DEF IndInv, Shape
<1>1. CASE OpenPage
    BY <1>a, <1>1 DEF OpenPage, Overlaps, OneRow, Judge, field, store, history
<1>2. CASE Load
    BY <1>a, <1>2 DEF Load, OneRow, Judge, field, store, history
<1>3. CASE ClosePage
    BY <1>a, <1>3 DEF ClosePage, OneRow, Judge, field, store, history
<1>4. CASE \E k \in Key \cup {Empty} : handleApiKeyInput(k)
    BY <1>a, <1>4 DEF handleApiKeyInput, Overlaps, OneRow, Judge, field, store, history
<1>5. CASE TypeElsewhere
    BY <1>a, <1>5 DEF TypeElsewhere, OneRow, Judge, field, store, history
<1>6. CASE TimerDropsCall
    BY <1>a, <1>6 DEF TimerDropsCall, OneRow, Judge, field, store, history
<1>7. CASE FailsFormat
    BY <1>a, <1>7 DEF FailsFormat, OneRow, Judge, field, store, history
<1>8. CASE \E c \in Check : StartCheck(c)
    BY <1>a, <1>8 DEF StartCheck, Overlaps, OneRow, Judge, field, store, history
<1>9. CASE \E c \in Check : CheckRejects(c)
    BY <1>a, <1>9 DEF CheckRejects, Judge, OneRow, Judge, field, store, history
<1>10. CASE \E c \in Check, s \in Save : CheckAccepts(c, s)
    BY <1>a, <1>10 DEF CheckAccepts, Judge, OneRow, Judge, field, store, history
<1>11. CASE \E c \in Check : CheckAcceptsInVain(c)
    BY <1>a, <1>11, FreeSlots, KeyAssumption DEF CheckAcceptsInVain, Judge, OneRow,
       field, store, history, Status, CheckState, TypeOK, SaveState
<1>12. CASE \E s \in Save : Look(s)
    BY <1>a, <1>12 DEF Look, To, OneRow, Judge, field, store, history
<1>13. CASE \E s \in Save : Add(s)
    <2>1. PICK s \in Save : Add(s)
        BY <1>13
    <2>2. saves[s].key \in Key
        BY <1>a, <2>1 DEF Add, TypeOK, SaveState, SavesHaveKeys
    <2> QED
        BY <1>a, <2>1, <2>2, FreeSlots, Added
        DEF Add, To, Ends, LooksHold, OneRow, history
<1>14. CASE \E s \in Save : Update(s)
    <2>1. PICK s \in Save : Update(s)
        BY <1>14
    <2>2. saves[s].key \in Key /\ rows # <<>>
        BY <1>a, <2>1 DEF Update, TypeOK, SaveState, SavesHaveKeys, LooksHold
    <2> QED
        BY <1>a, <2>1, <2>2, FreeSlots, Updated
        DEF Update, To, Ends, LooksHold, OneRow, history
<1>15. CASE \E s \in Save : SaveSucceeds(s)
    BY <1>a, <1>15 DEF SaveSucceeds, Ends, OneRow, Judge, field, store, history
<1>16. CASE \E s \in Save : SaveFails(s)
    BY <1>a, <1>16 DEF SaveFails, To, Ends, OneRow, Judge, field, store, history
<1>17. CASE UNCHANGED vars
    BY <1>a, <1>17 DEF vars, OneRow, Judge, field, store, history
<1> QED
    BY <1>1, <1>2, <1>3, <1>4, <1>5, <1>6, <1>7, <1>8, <1>9, <1>10, <1>11, <1>12, <1>13,
       <1>14, <1>15, <1>16, <1>17, NextIs

LEMMA StepKeeps == IndInv /\ [Next]_vars => IndInv'
BY TypesKept, ClosedKept, SaveKeysKept, FreeKept, CheckedKept, SpinnerKept, TypedKept, LooksKept,
   AloneKept, OneThingKept, OnItsWayKept, RowsKept
   DEF IndInv, Shape

LEMMA Always == Spec => []IndInv
BY InitKeeps, StepKeeps, PTL DEF Spec

-----------------------------------------------------------------------------
(* The theorems                                                            *)

\* TypeOK holds for any number of keys, checks and saves (the refs of
\* useApiKeyManagement and the rows of localSetting).
THEOREM KeysTypeCorrect == Spec => []TypeOK
<1>1. IndInv => TypeOK
    BY DEF IndInv, Shape
<1> QED
    BY <1>1, Always, PTL

\* validateAndSaveApiKey saves the key it was given, not the one in the field:
\* no key that was not accepted is ever stored or on its way there.
THEOREM NoUncheckedKey == Spec => []OnlyCheckedKeysSaved
<1>1. IndInv => OnlyCheckedKeysSaved
    BY DEF IndInv
<1> QED
    BY <1>1, Always, PTL

\* An edit takes the spinner off (handleApiKeyInput), so that a spinner stands
\* for a check of the key that is in the field.
THEOREM SpinnerHonest == Spec => []SpinnerIsForThisKey
<1>1. IndInv => SpinnerIsForThisKey
    BY DEF IndInv
<1> QED
    BY <1>1, Always, PTL

\* The debounced call of a typed key is ahead until it is judged, unless the
\* shared timer went to another field.
THEOREM NoKeyForgotten == Spec => []TypedIsJudged
<1>1. IndInv => TypedIsJudged
    BY DEF IndInv
<1> QED
    BY <1>1, Always, PTL

\* Where no two activities overlapped and the save did not fail, a key shown as
\* valid is the stored one (validateAndSaveApiKey and upsertSetting).
THEOREM ShownValidIsStored == Spec => []ValidIsSaved
<1>1. IndInv => ValidIsSaved
    BY DEF IndInv, ValidIsOnItsWay, ValidIsSaved, Quiet
<1> QED
    BY <1>1, Always, PTL

\* upsertSetting of the page's database adds a second row only if two upserts
\* were under way together.
THEOREM RowsUnique == Spec => []OneRow
<1>1. IndInv => OneRow
    BY DEF IndInv
<1> QED
    BY <1>1, Always, PTL

=============================================================================
