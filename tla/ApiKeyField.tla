----------------------------- MODULE ApiKeyField -----------------------------
(***************************************************************************)
(* One API key on the settings page: the field and its check               *)
(* (src/composables/use-api-key-management.ts, src/api-key-validator.ts)   *)
(* and the way of the key to the store (src/views/SettingsView.vue,        *)
(* src/composables/use-settings.ts and the two repositories: the server's, *)
(* or the page's own database when the app works offline).                 *)
(*                                                                         *)
(* The server's repository reaches nothing: settingsSocket is the          *)
(* SocketManager (socket-manager.ts:80-90), on which emitWithTimeout       *)
(* (emit-with-timeout.ts:50-53) throws.  Online every load and every save  *)
(* fails before the next event; only the page's own database has rows.     *)
(*                                                                         *)
(* The fields of the other providers share one thing with this one, the    *)
(* debounce timer; typing there is TypeElsewhere.  A page that was left    *)
(* stops its timer, its checks and saves go on.                            *)
(***************************************************************************)
EXTENDS Naturals, Sequences

CONSTANTS
    Key,      \* what may be typed
    Check,    \* slots of the validations under way
    Save,     \* slots of the upserts of the database under way
    Empty, None

ASSUME KeyAssumption == Empty \notin Key /\ None \notin Key \cup {Empty}

VARIABLES
    offline,     \* isOfflineMode
    page,        \* the settings page: closed, loading or open
    value,       \* of the field
    status,      \* of the field
    timer,       \* the key the debounced call carries; Empty: another field's
    checks,      \* the validations under way
    saves,       \* the upserts under way
    rows,        \* the rows of this key in the store
    accepted,    \* keys a validation has accepted
    typed,       \* the value was typed on this page, not loaded
    displaced,   \* its debounced call was replaced by another field's
    overlapped,  \* since all was quiet: the field was edited during a check, or
                 \* two checks or saves were under way together
    raced,       \* two saves have been under way together
    unsaved      \* the last save failed

vars == <<offline, page, value, status, timer, checks, saves, rows, accepted,
          typed, displaced, overlapped, raced, unsaved>>
field   == <<page, value, status, timer, typed, displaced>>
store   == <<offline, rows>>
history == <<accepted, overlapped, raced, unsaved>>

Status == {"idle", "validating", "valid", "invalid"}

\* A validation: its key, and whether its page is the one shown.
CheckState == [key: Key \cup {None}, mine: BOOLEAN]
NoCheck == [key |-> None, mine |-> FALSE]

SaveState == [key: Key \cup {None},
              stage: {"idle", "looking", "adding", "updating", "stored"}]
NoSave == [key |-> None, stage |-> "idle"]

Checking == \E c \in Check : checks[c].key # None
Saving == \E s \in Save : saves[s].key # None
Quiet == ~Checking /\ ~Saving

Init ==
    /\ offline \in BOOLEAN
    /\ page = "closed"
    /\ value = Empty
    /\ status = "idle"
    /\ timer = None
    /\ checks = [c \in Check |-> NoCheck]
    /\ saves = [s \in Save |-> NoSave]
    /\ rows = <<>>
    /\ accepted = {}
    /\ typed = FALSE
    /\ displaced = FALSE
    /\ overlapped = FALSE
    /\ raced = FALSE
    /\ unsaved = FALSE

\* What is under way when something begins makes the outcome a matter of order.
Overlaps ==
    /\ overlapped' = ~Quiet
    /\ UNCHANGED raced

-----------------------------------------------------------------------------
(* The page                                                                *)

OpenPage ==
    /\ page = "closed"
    /\ page' = "loading"
    /\ Overlaps
    /\ UNCHANGED <<store, value, status, timer, checks, saves, accepted, typed, displaced,
                   unsaved>>

\* The rows are read, or, on an error and always online, none: the page opens
\* all the same.
Load ==
    /\ page = "loading"
    /\ page' = "open"
    /\ \/ value' = IF rows = <<>> THEN Empty ELSE rows[1]
       \/ value' = Empty
    /\ UNCHANGED <<store, status, timer, checks, saves, history, typed, displaced>>

ClosePage ==
    /\ page # "closed"
    /\ page' = "closed"
    /\ value' = Empty
    /\ status' = "idle"
    /\ timer' = None
    /\ typed' = FALSE
    /\ displaced' = FALSE
    /\ checks' = [c \in Check |-> [checks[c] EXCEPT !.mine = FALSE]]
    /\ UNCHANGED <<store, saves, history>>

-----------------------------------------------------------------------------
(* The field                                                               *)

\* Mutant: only the first character typed starts the timer.
TypeOnce(k) ==
    /\ page = "open"
    /\ value' = k
    /\ status' = "idle"
    /\ timer' = IF k # Empty /\ timer \notin Key THEN k ELSE timer
    /\ typed' = TRUE
    /\ displaced' = FALSE
    /\ Overlaps
    /\ UNCHANGED <<store, page, checks, saves, accepted, unsaved>>

handleApiKeyInput(k) ==
    /\ page = "open"
    /\ value' = k
    /\ status' = "idle"
    /\ timer' = IF k = Empty THEN timer ELSE k
    /\ typed' = TRUE
    /\ displaced' = FALSE
    /\ Overlaps
    /\ UNCHANGED <<store, page, checks, saves, accepted, unsaved>>

TypeElsewhere ==
    /\ page = "open"
    /\ timer' = Empty
    /\ displaced' = (displaced \/ (timer = value /\ value # Empty))
    /\ UNCHANGED <<store, page, value, status, checks, saves, history, typed>>

\* The call belongs to another field, or to what the field held before.
TimerDropsCall ==
    /\ timer # None
    /\ timer # value \/ value = Empty
    /\ timer' = None
    /\ UNCHANGED <<store, page, value, status, checks, saves, history, typed, displaced>>

\* validateSetting turns the key down.
FailsFormat ==
    /\ timer = value /\ value # Empty
    /\ timer' = None
    /\ status' = "invalid"
    /\ UNCHANGED <<store, page, value, checks, saves, history, typed, displaced>>

StartCheck(c) ==
    /\ timer = value /\ value # Empty
    /\ checks[c].key = None
    /\ timer' = None
    /\ status' = "validating"
    /\ checks' = [checks EXCEPT ![c] = [key |-> value, mine |-> TRUE]]
    /\ Overlaps
    /\ UNCHANGED <<store, page, value, saves, accepted, typed, displaced, unsaved>>

\* The verdict is shown in the field as it is now, if its page is shown.
Judge(c, verdict) ==
    /\ checks[c].key # None
    /\ checks' = [checks EXCEPT ![c] = NoCheck]
    /\ status' = IF checks[c].mine THEN verdict ELSE status
    /\ UNCHANGED <<offline, rows, page, value, timer, typed, displaced>>

\* Mutant: the spinner stays when the socket does not connect.
CheckRejectsSilently(c) ==
    /\ checks[c].key # None
    /\ checks' = [checks EXCEPT ![c] = NoCheck]
    /\ UNCHANGED <<store, field, saves, history>>

\* A refusal, an error, no connection, or the time is up.
CheckRejects(c) ==
    /\ Judge(c, "invalid")
    /\ UNCHANGED <<saves, history>>

\* Mutant: the key saved is the one in the field.
CheckAcceptsField(c, s) ==
    /\ offline
    /\ saves[s].key = None
    /\ Judge(c, "valid")
    /\ accepted' = accepted \cup {checks[c].key}
    /\ saves' = [saves EXCEPT ![s] = [key |-> IF value # Empty THEN value ELSE checks[c].key,
                                      stage |-> "looking"]]
    /\ overlapped' = (overlapped \/ Saving)
    /\ raced' = (raced \/ Saving)
    /\ unsaved' = FALSE

\* The key that was checked is saved, whatever the field holds by now.
CheckAccepts(c, s) ==
    /\ offline
    /\ saves[s].key = None
    /\ Judge(c, "valid")
    /\ accepted' = accepted \cup {checks[c].key}
    /\ saves' = [saves EXCEPT ![s] = [key |-> checks[c].key, stage |-> "looking"]]
    /\ overlapped' = (overlapped \/ Saving)
    /\ raced' = (raced \/ Saving)
    /\ unsaved' = FALSE

\* Online the upsert fails at once; the field says valid all the same.
CheckAcceptsInVain(c) ==
    /\ ~offline
    /\ Judge(c, "valid")
    /\ accepted' = accepted \cup {checks[c].key}
    /\ unsaved' = TRUE
    /\ UNCHANGED <<saves, overlapped, raced>>

-----------------------------------------------------------------------------
(* The store                                                               *)

To(s, stage) == saves' = [saves EXCEPT ![s].stage = stage]
Ends(s) == saves' = [saves EXCEPT ![s] = NoSave]

\* Mutant: the row is always added.
LookAdds(s) ==
    /\ saves[s].stage = "looking"
    /\ To(s, "adding")
    /\ UNCHANGED <<store, field, checks, history>>

Look(s) ==
    /\ saves[s].stage = "looking"
    /\ To(s, IF rows = <<>> THEN "adding" ELSE "updating")
    /\ UNCHANGED <<store, field, checks, history>>

Add(s) ==
    /\ saves[s].stage = "adding"
    /\ rows' = Append(rows, saves[s].key)
    /\ To(s, "stored")
    /\ UNCHANGED <<offline, field, checks, history>>

\* Mutant: the row updated is the last.
UpdateLast(s) ==
    /\ saves[s].stage = "updating"
    /\ rows' = [rows EXCEPT ![Len(rows)] = saves[s].key]
    /\ To(s, "stored")
    /\ UNCHANGED <<offline, field, checks, history>>

\* The first row of the key is the one found and updated.
Update(s) ==
    /\ saves[s].stage = "updating"
    /\ rows' = [rows EXCEPT ![1] = saves[s].key]
    /\ To(s, "stored")
    /\ UNCHANGED <<offline, field, checks, history>>

SaveSucceeds(s) ==
    /\ saves[s].stage = "stored"
    /\ Ends(s)
    /\ UNCHANGED <<store, field, checks, history>>

\* The database refuses.
SaveFails(s) ==
    /\ saves[s].stage \in {"looking", "adding", "updating"}
    /\ Ends(s)
    /\ unsaved' = TRUE
    /\ UNCHANGED <<store, field, checks, accepted, overlapped, raced>>

Next ==
    \/ OpenPage \/ Load \/ ClosePage
    \/ \E k \in Key \cup {Empty} : handleApiKeyInput(k)
    \/ TypeElsewhere \/ TimerDropsCall \/ FailsFormat
    \/ \E c \in Check : \/ StartCheck(c)
                        \/ CheckRejects(c)
                        \/ CheckAcceptsInVain(c)
                        \/ \E s \in Save : CheckAccepts(c, s)
    \/ \E s \in Save : \/ Look(s) \/ Add(s) \/ Update(s)
                       \/ SaveSucceeds(s) \/ SaveFails(s)

Spec == Init /\ [][Next]_vars

-----------------------------------------------------------------------------
(* What the settings page promises                                         *)

\* The variables have their types.
TypeOK ==
    /\ offline \in BOOLEAN
    /\ page \in {"closed", "loading", "open"}
    /\ value \in Key \cup {Empty}
    /\ status \in Status
    /\ timer \in Key \cup {Empty, None}
    /\ checks \in [Check -> CheckState]
    /\ saves \in [Save -> SaveState]
    /\ rows \in Seq(Key)
    /\ accepted \subseteq Key
    /\ typed \in BOOLEAN /\ displaced \in BOOLEAN
    /\ overlapped \in BOOLEAN /\ raced \in BOOLEAN /\ unsaved \in BOOLEAN

\* No key reaches the store, or the way to it, that a validation has not
\* accepted, however field, checks and saves interleave (docs/AUTH.md:61: "API
\* keys are never stored without validation").
OnlyCheckedKeysSaved ==
    /\ \A n \in 1..Len(rows) : rows[n] \in accepted
    /\ \A s \in Save : saves[s].key # None => saves[s].key \in accepted

\* The spinner of the field stands for a check of the key that is in it.
SpinnerIsForThisKey ==
    status = "validating" =>
        \E c \in Check : checks[c].mine /\ checks[c].key = value

\* A key that was typed and is not judged has its call ahead of it, unless
\* another field took the timer.
TypedIsJudged ==
    typed /\ value # Empty /\ status = "idle" => timer = value \/ displaced

\* Where nothing overlapped and no save failed, a key that is shown as valid
\* was accepted and is the one the next page will load.  This is about the
\* database: online every save fails, and a key shown as valid is not stored.
ValidIsSaved ==
    Quiet /\ ~overlapped /\ ~unsaved /\ status = "valid" =>
        value \in accepted /\ rows # <<>> /\ rows[1] = value

\* A key never gets a second row, which the first would shadow, unless two saves
\* were under way together: look and add are not one transaction.
OneRow == Len(rows) <= 1 \/ raced

=============================================================================
