---------------------------- MODULE Conversations ----------------------------
(***************************************************************************)
(* The conversations and the two views that show them: the list and its    *)
(* shared creation (src/stores/conversation/use-conversation-list-state.ts),*)
(* the chat's current conversation and the store's messages                *)
(* (src/composables/use-chat.ts, use-chat-history.ts,                      *)
(* src/stores/conversation/use-message-management.ts), and the history's   *)
(* selection and deletions (src/composables/use-history.ts).               *)
(*                                                                         *)
(* One view is mounted at a time, and each visit has a new one.  What a    *)
(* view began goes on when it is left, with the view's own references: its *)
(* currentConversationId no longer follows that of the next visit.         *)
(*                                                                         *)
(* A read of the database is one step with the continuation that awaits    *)
(* it.  Loads that are under way together may end in any order.  Of a send *)
(* there is the user's row; the answer is the subject of ChatStream.       *)
(***************************************************************************)
EXTENDS Naturals, FiniteSets

CONSTANTS
    Conv,     \* the keys conversations will get
    Msg,      \* the keys messages will get
    Load,     \* slots of the loads of messages, for each view
    MaxLeft,  \* a view is left with so many things under way
    Here,     \* the reference of the view on the screen
    None

ASSUME ConvAssumption ==
    None \notin Conv \cup Msg /\ Here \notin Conv \cup {None} /\ MaxLeft \in Nat

VARIABLES
    stored,         \* the conversation table
    born,           \* the keys it has handed out
    kept,           \* the message table
    home,           \* the conversation of each message written
    conversations,  \* the list of the store
    view,           \* the view on the screen
    inits,          \* the runs of initializeChat
    initializing,   \* initializePromise of the store, for the history
    creation,       \* creationPromise and who awaits it
    deleting,       \* the deletions under way
    current,        \* currentConversationId, which outlives view and page
    messages,       \* how often a message is in the store's list
    loads,          \* the chat's loads of messages
    send,           \* the send under way
    selected,       \* selectedConversationId
    shown,          \* selectedConversationMessages
    picks,          \* the history's loads of messages
    mine,           \* the deletions this visit of the history began
    crossed,        \* the chat's list: a load failed, or crossed another, a write
                    \* or what a view that was left does elsewhere
    overtaken,      \* the history's: a load was under way when the next began
    unlisted,       \* the list was not loaded, or something was taken back since
    lost            \* conversations a chat was on, or sent to, when they were gone

database == <<stored, born, kept, home>>
opening  == <<view, inits, initializing>>
list     == <<conversations, opening, creation, deleting, unlisted>>
chat     == <<current, messages, loads, send, crossed>>
history  == <<selected, shown, picks, mine, overtaken>>
vars     == <<database, list, chat, history, lost>>

View == {"chat", "history", "other"}

\* A view that is left keeps the conversation it was on.
Ref == Conv \cup {None, Here}
InitState == [stage: {"listing", "picking"}, at: Ref]
On(at) == IF at = Here THEN current ELSE at

\* "left": the new chat was asked for in a view that was left since.
Caller == {"new", "send", "left"}
CreationState == [stage: {"idle", "adding", "listing", "removing"},
                  conv: Conv \cup {None}, callers: SUBSET Caller]
NoCreation == [stage |-> "idle", conv |-> None, callers |-> {}]

\* A load that began after a write was requested sees it; one that began
\* before it does not.
LoadState == [conv: Conv \cup {None}, late: BOOLEAN]
NoLoad == [conv |-> None, late |-> FALSE]

SendState == [stage: {"idle", "creating", "preparing", "writing", "stored"},
              at: Ref, msg: Msg \cup {None}]
NoSend == [stage |-> "idle", at |-> None, msg |-> None]

Of(c) == {m \in kept : home[m] = c}
Listing(ms) == [m \in Msg |-> IF m \in ms THEN 1 ELSE 0]
Loading == \E l \in Load : loads[l].conv # None
Picking == \E l \in Load : picks[l].conv # None
Writing == send.stage \in {"writing", "stored"}

\* What goes on when the view is left; a send that waits for its conversation
\* counts with the creation.
UnderWay ==
    Cardinality(inits) + Cardinality({c \in Conv : deleting[c] # "no"})
        + Cardinality({l \in Load : loads[l].conv # None})
        + Cardinality({s \in {creation.stage} : s # "idle"})
        + Cardinality({s \in {send.stage} : s \notin {"idle", "creating"}})

Init ==
    /\ stored \in SUBSET Conv
    /\ born = stored
    /\ home \in [Msg -> stored \cup {None}]
    /\ kept = {m \in Msg : home[m] # None}
    /\ conversations = {}
    /\ view = "other"
    /\ inits = {}
    /\ initializing = FALSE
    /\ creation = NoCreation
    /\ deleting = [c \in Conv |-> "no"]
    /\ current \in stored \cup {None}
    /\ messages = Listing({})
    /\ loads = [l \in Load |-> NoLoad]
    /\ send = NoSend
    /\ selected = None
    /\ shown = {}
    /\ picks = [l \in Load |-> NoLoad]
    /\ mine = {}
    /\ crossed = TRUE
    /\ overtaken = FALSE
    /\ unlisted = TRUE
    /\ lost = {}

-----------------------------------------------------------------------------
(* The list                                                                *)

ListLoaded ==
    /\ conversations' = stored
    /\ unlisted' = FALSE

ListFails ==
    /\ unlisted' = TRUE
    /\ UNCHANGED conversations

\* loadConversations of initializeChat, which goes on only if it succeeds.
ChatListed(i) ==
    /\ i.stage = "listing"
    /\ \/ ListLoaded /\ inits' = (inits \ {i}) \cup {[i EXCEPT !.stage = "picking"]}
       \/ ListFails /\ inits' = inits \ {i}
    /\ UNCHANGED <<database, view, initializing, creation, deleting, chat, history>>

HistoryListed ==
    /\ initializing
    /\ initializing' = FALSE
    /\ ListLoaded \/ ListFails
    /\ UNCHANGED <<database, view, inits, creation, deleting, chat, history>>

\* The view on the screen is unmounted and that of v mounted.
GoTo(v) ==
    /\ v # view
    /\ UnderWay <= MaxLeft
    /\ view' = v
    /\ inits' = {[i EXCEPT !.at = On(@)] : i \in inits}
                    \cup {[stage |-> "listing", at |-> Here] : n \in {v} \cap {"chat"}}
    /\ initializing' = (initializing \/ v = "history")
    /\ creation' = [creation EXCEPT !.callers = IF "new" \in @
                                               THEN (@ \ {"new"}) \cup {"left"} ELSE @]
    /\ send' = [send EXCEPT !.at = On(@)]
    /\ selected' = None
    /\ shown' = {}
    /\ picks' = [l \in Load |-> NoLoad]
    /\ mine' = {}
    /\ overtaken' = FALSE
    /\ UNCHANGED <<database, conversations, deleting, unlisted, current, messages, loads,
                   crossed>>

-----------------------------------------------------------------------------
(* The chat                                                                *)

\* loadMessagesForCurrentConversation; the list is reliable again if it is that
\* of the view on the screen and nothing else is under way.
StartLoad(l, c) ==
    /\ loads[l].conv = None
    /\ loads' = [loads EXCEPT ![l] = [conv |-> c, late |-> Writing]]
    /\ crossed' = (Loading \/ Writing \/ c # current' \/ send'.at \notin {Here, None, c})

\* The latest of the listed conversations, if none was remembered.
Latest(i) == IF On(i.at) = None /\ conversations # {} THEN conversations ELSE {On(i.at)}

ChatPicks(i, l) ==
    /\ i.stage = "picking"
    /\ inits' = inits \ {i}
    /\ UNCHANGED send
    /\ \E c \in Latest(i) :
          /\ current' = IF i.at = Here THEN c ELSE current
          /\ IF c = None
             THEN /\ messages' = Listing({})
                  /\ crossed' = (crossed \/ current # None)
                  /\ UNCHANGED loads
             ELSE /\ StartLoad(l, c)
                  /\ UNCHANGED messages
    /\ UNCHANGED <<database, conversations, view, initializing, creation, deleting, unlisted,
                   history>>

\* Mutant: the rows are put behind what is listed.
MessagesLoadedBehind(l) ==
    /\ loads[l].conv # None
    /\ loads' = [loads EXCEPT ![l] = NoLoad]
    /\ messages' = [m \in Msg |-> IF m \in Of(loads[l].conv) /\ messages[m] < 2
                                  THEN messages[m] + 1 ELSE messages[m]]
    /\ UNCHANGED <<database, list, current, send, history, crossed>>

MessagesLoaded(l) ==
    /\ loads[l].conv # None
    /\ loads' = [loads EXCEPT ![l] = NoLoad]
    /\ messages' = Listing(Of(loads[l].conv))
    /\ UNCHANGED <<database, list, current, send, history, crossed>>

MessagesFail(l) ==
    /\ loads[l].conv # None
    /\ loads' = [loads EXCEPT ![l] = NoLoad]
    /\ messages' = Listing({})
    /\ crossed' = TRUE
    /\ UNCHANGED <<database, list, current, send, history>>

\* createConversation: who comes while a creation is under way shares it.
AskFor(caller) ==
    creation' = IF creation.stage = "idle"
                THEN [stage |-> "adding", conv |-> None, callers |-> {caller}]
                ELSE [creation EXCEPT !.callers = @ \cup {caller}]

\* The header's button, by way of the route.
NewChat ==
    /\ view = "chat"
    /\ "new" \notin creation.callers
    /\ AskFor("new")
    /\ UNCHANGED <<database, conversations, opening, deleting, unlisted, chat, history>>

\* ensureConversation.
StartSend ==
    /\ view = "chat"
    /\ send.stage = "idle"
    /\ IF current = None
       THEN AskFor("send") /\ send' = [send EXCEPT !.stage = "creating", !.at = Here]
       ELSE UNCHANGED creation /\ send' = [send EXCEPT !.stage = "preparing", !.at = Here]
    /\ UNCHANGED <<database, conversations, opening, deleting, unlisted, current, messages,
                   loads, crossed, history>>

CreationAdds(c) ==
    /\ creation.stage = "adding"
    /\ c \notin born
    /\ stored' = stored \cup {c}
    /\ born' = born \cup {c}
    /\ creation' = [creation EXCEPT !.stage = "listing", !.conv = c]
    /\ UNCHANGED <<kept, home, conversations, opening, deleting, unlisted, chat, history>>

\* Every caller is told that there is no conversation.
CreationEnds ==
    /\ creation' = NoCreation
    /\ send' = IF "send" \in creation.callers THEN NoSend ELSE send

CreationAddFails ==
    /\ creation.stage = "adding"
    /\ CreationEnds
    /\ UNCHANGED <<database, conversations, opening, deleting, unlisted, current, messages,
                   loads, crossed, history>>

\* A send goes on with the conversation that was created for it.
Created ==
    /\ creation' = NoCreation
    /\ send' = IF "send" \in creation.callers
               THEN [send EXCEPT !.stage = "preparing",
                                 !.at = IF @ = Here THEN Here ELSE creation.conv]
               ELSE send
    /\ messages' = Listing({})

AskedHere == "new" \in creation.callers \/ ("send" \in creation.callers /\ send.at = Here)

\* Mutant: the callers get the id, but the list is not loaded again.
CreationUnlisted(l) ==
    /\ creation.stage = "listing"
    /\ AskedHere
    /\ Created
    /\ current' = creation.conv
    /\ StartLoad(l, creation.conv)
    /\ UNCHANGED <<database, conversations, opening, deleting, unlisted, history>>

\* The new conversation is in the list that was read: it becomes the current
\* one of every caller.
CreationListed(l) ==
    /\ creation.stage = "listing"
    /\ creation.conv \in stored
    /\ AskedHere
    /\ ListLoaded
    /\ Created
    /\ current' = creation.conv
    /\ StartLoad(l, creation.conv)
    /\ UNCHANGED <<database, opening, deleting, history>>

\* All callers have left: the list is emptied, and filled for one of them, under
\* whoever is on the screen now.
CreationListedLate(l) ==
    /\ creation.stage = "listing"
    /\ creation.conv \in stored
    /\ ~AskedHere
    /\ ListLoaded
    /\ Created
    /\ UNCHANGED current
    /\ IF "left" \in creation.callers
       THEN StartLoad(l, creation.conv)
       ELSE crossed' = TRUE /\ UNCHANGED loads
    /\ UNCHANGED <<database, opening, deleting, history>>

\* The list cannot be read, or the conversation has been deleted from it.
CreationNotListed ==
    /\ creation.stage = "listing"
    /\ creation' = [creation EXCEPT !.stage = "removing"]
    /\ \/ ListFails
       \/ creation.conv \notin stored /\ ListLoaded
    /\ UNCHANGED <<database, opening, deleting, chat, history>>

\* Its row is deleted again; who has listed it in between still shows it.
CreationRemoves ==
    /\ creation.stage = "removing"
    /\ stored' \in {stored, stored \ {creation.conv}}
    /\ unlisted' = TRUE
    /\ CreationEnds
    /\ UNCHANGED <<born, kept, home, conversations, opening, deleting, current, messages,
                   loads, crossed, history>>

\* The conversation is looked up when the context is ready, not before, and is
\* that of the view the send was made in.
SendPrepared(m) ==
    /\ send.stage = "preparing"
    /\ home[m] = None
    /\ send' = [stage |-> "writing", at |-> On(send.at), msg |-> m]
    /\ UNCHANGED <<database, list, current, messages, loads, crossed, history>>

\* IndexedDB executes requests in the order they were made.
SendWrites ==
    /\ send.stage = "writing"
    /\ \A l \in Load : loads[l].conv = None \/ loads[l].late
    /\ kept' = kept \cup {send.msg}
    /\ home' = [home EXCEPT ![send.msg] = send.at]
    /\ send' = [send EXCEPT !.stage = "stored"]
    /\ UNCHANGED <<stored, born, list, current, messages, loads, crossed, history>>

SendFails ==
    /\ send.stage = "writing"
    /\ send' = NoSend
    /\ UNCHANGED <<database, list, current, messages, loads, crossed, history>>

\* Pushed to the list as it is by now.
SendPushes ==
    /\ send.stage = "stored"
    /\ messages' = [messages EXCEPT ![send.msg] = @ + 1]
    /\ send' = NoSend
    /\ UNCHANGED <<database, list, current, loads, crossed, history>>

-----------------------------------------------------------------------------
(* The history                                                             *)

\* Mutant: a conversation is selected when its messages have come.
SelectLate(c, l) ==
    /\ view = "history"
    /\ c \in conversations \ {selected}
    /\ picks[l].conv = None
    /\ picks' = [picks EXCEPT ![l] = [conv |-> c, late |-> FALSE]]
    /\ overtaken' = Picking
    /\ UNCHANGED <<database, list, chat, selected, shown, mine>>

switchToConversation(c, l) ==
    /\ view = "history"
    /\ c \in conversations \ {selected}
    /\ picks[l].conv = None
    /\ selected' = c
    /\ picks' = [picks EXCEPT ![l] = [conv |-> c, late |-> FALSE]]
    /\ overtaken' = Picking
    /\ UNCHANGED <<database, list, chat, shown, mine>>

SelectionLoaded(l) ==
    /\ picks[l].conv # None
    /\ picks' = [picks EXCEPT ![l] = NoLoad]
    /\ shown' \in {Of(picks[l].conv), {}}        \* the load may fail
    /\ UNCHANGED <<database, list, chat, selected, mine, overtaken>>

handleDeleteConversation(c) ==
    /\ view = "history"
    /\ c \in conversations
    /\ deleting[c] = "no"
    /\ deleting' = [deleting EXCEPT ![c] = "committing"]
    /\ mine' = mine \cup {c}
    /\ UNCHANGED <<database, conversations, opening, creation, unlisted, chat, selected, shown,
                   picks, overtaken>>

\* Mutant: the rows of the conversation stay.
DeleteCommitsRowOnly(c) ==
    /\ deleting[c] = "committing"
    /\ stored' = stored \ {c}
    /\ deleting' = [deleting EXCEPT ![c] = "listing"]
    /\ UNCHANGED <<born, kept, home, conversations, opening, creation, unlisted, chat, history>>

\* One transaction: the messages and the conversation.
DeleteCommits(c) ==
    /\ deleting[c] = "committing"
    /\ stored' = stored \ {c}
    /\ kept' = kept \ Of(c)
    /\ deleting' = [deleting EXCEPT ![c] = "listing"]
    /\ UNCHANGED <<born, home, conversations, opening, creation, unlisted, chat, history>>

DeleteFails(c) ==
    /\ deleting[c] = "committing"
    /\ deleting' = [deleting EXCEPT ![c] = "no"]
    /\ mine' = mine \ {c}
    /\ UNCHANGED <<database, conversations, opening, creation, unlisted, chat, selected, shown,
                   picks, overtaken>>

\* The selection of this visit is dropped if it is the deleted conversation by
\* now; that of a later visit, and the chat's current conversation, are not.
DeleteListed(c) ==
    /\ deleting[c] = "listing"
    /\ deleting' = [deleting EXCEPT ![c] = "no"]
    /\ mine' = mine \ {c}
    /\ ListLoaded
    /\ IF selected = c /\ c \in mine
       THEN selected' = None /\ shown' = {} /\ overtaken' = (overtaken \/ Picking)
       ELSE UNCHANGED <<selected, shown, overtaken>>
    /\ UNCHANGED <<database, opening, creation, chat, picks>>

DeleteNotListed(c) ==
    /\ deleting[c] = "listing"
    /\ deleting' = [deleting EXCEPT ![c] = "no"]
    /\ mine' = mine \ {c}
    /\ ListFails
    /\ UNCHANGED <<database, opening, creation, chat, selected, shown, picks, overtaken>>

\* deleteMessage of either view: each drops it from its own list, and the
\* store's list follows both.
DeleteMessage(m, v) ==
    /\ m \in kept
    /\ v = view
    /\ IF v = "chat" THEN messages[m] > 0 ELSE m \in shown
    /\ kept' = kept \ {m}
    /\ messages' = [messages EXCEPT ![m] = IF @ > 0 THEN @ - 1 ELSE 0]
    /\ shown' = IF v = "history" THEN shown \ {m} ELSE shown
    /\ UNCHANGED <<stored, born, home, list, current, loads, send, crossed, selected, picks,
                   mine, overtaken>>

-----------------------------------------------------------------------------
\* The page is reloaded: the database and the current conversation remain.
Reload ==
    /\ view # "other"
    /\ conversations' = {}
    /\ view' = "other"
    /\ inits' = {}
    /\ initializing' = FALSE
    /\ creation' = NoCreation
    /\ deleting' = [c \in Conv |-> "no"]
    /\ unlisted' = TRUE
    /\ messages' = Listing({})
    /\ loads' = [l \in Load |-> NoLoad]
    /\ send' = NoSend
    /\ crossed' = TRUE
    /\ selected' = None
    /\ shown' = {}
    /\ picks' = [l \in Load |-> NoLoad]
    /\ mine' = {}
    /\ overtaken' = FALSE
    /\ UNCHANGED <<database, current>>

ChatStep ==
    \/ \E i \in inits : ChatListed(i) \/ \E l \in Load : ChatPicks(i, l)
    \/ \E l \in Load : \/ MessagesLoaded(l) \/ MessagesFail(l)
                       \/ CreationListed(l) \/ CreationListedLate(l)
    \/ NewChat \/ StartSend
    \/ \E c \in Conv : CreationAdds(c)
    \/ CreationAddFails \/ CreationNotListed \/ CreationRemoves
    \/ \E m \in Msg : SendPrepared(m)
    \/ SendWrites \/ SendFails \/ SendPushes

HistoryStep ==
    \/ HistoryListed
    \/ \E c \in Conv, l \in Load : switchToConversation(c, l)
    \/ \E l \in Load : SelectionLoaded(l)
    \/ \E c \in Conv : \/ handleDeleteConversation(c) \/ DeleteCommits(c) \/ DeleteFails(c)
                       \/ DeleteListed(c) \/ DeleteNotListed(c)

Step ==
    \/ \E v \in View : GoTo(v)
    \/ ChatStep \/ HistoryStep
    \/ \E m \in Msg, v \in {"chat", "history"} : DeleteMessage(m, v)
    \/ Reload

\* The chat, and a send that goes on, stay on a conversation that the history
\* has deleted.
Loses == lost' = lost \cup ({current', send'.at} \cap (Conv \ stored'))

Next == Step /\ Loses

Spec == Init /\ [][Next]_vars

-----------------------------------------------------------------------------
(* What the views promise                                                  *)

\* The variables have their types; a message is never listed three times.
TypeOK ==
    /\ stored \subseteq born /\ born \subseteq Conv
    /\ kept \subseteq Msg
    /\ home \in [Msg -> Conv \cup {None}]
    /\ conversations \subseteq Conv
    /\ view \in View
    /\ inits \subseteq InitState
    /\ initializing \in BOOLEAN
    /\ creation \in CreationState
    /\ deleting \in [Conv -> {"no", "committing", "listing"}]
    /\ current \in Conv \cup {None}
    /\ messages \in [Msg -> 0..2]
    /\ loads \in [Load -> LoadState]
    /\ send \in SendState
    /\ selected \in Conv \cup {None}
    /\ shown \subseteq Msg
    /\ picks \in [Load -> LoadState]
    /\ mine \subseteq Conv
    /\ crossed \in BOOLEAN /\ overtaken \in BOOLEAN /\ unlisted \in BOOLEAN
    /\ lost \subseteq Conv

\* The chat lists the messages of its conversation, each once, and misses none
\* that is stored, also while what other visits began goes on: unless a load
\* failed, or crossed another, a write, or what a view that was left goes on to
\* do with a conversation the chat is not on.
ChatShowsItsConversation ==
    ~crossed /\ ~Loading =>
        /\ \A m \in Msg : messages[m] > 0 => messages[m] = 1 /\ home[m] = current
        /\ \A m \in Of(current) : messages[m] = 1 \/ send.msg = m

\* Unless a selection overtook the load of the one before, the history shows
\* messages of the selected conversation only, and none if none is selected.
HistoryShowsSelection ==
    ~overtaken /\ ~Picking => \A m \in shown : home[m] = selected

\* When nothing is being created, deleted or listed the list is what is stored,
\* unless a load of it failed or a creation was taken back.
ListFollowsStore ==
    /\ ~unlisted
    /\ creation.stage = "idle"
    /\ \A c \in Conv : deleting[c] = "no"
    => conversations = stored

\* A message outlives its conversation only where the chat was still on the
\* deleted one: a deletion takes every message with it.
OrphansOnlyOfCurrent == \A m \in kept : home[m] \in stored \cup lost

=============================================================================
