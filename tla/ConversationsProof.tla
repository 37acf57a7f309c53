-------------------------- MODULE ConversationsProof --------------------------
(***************************************************************************)
(* Proofs about the conversations and their two views, for any number of   *)
(* conversations, messages and loads, and that the database underneath     *)
(* implements ConversationTable.                                           *)
(***************************************************************************)
EXTENDS Conversations, TLAPS

\* Keys come from the tables: a message not written is nowhere, and nothing
\* names a conversation that was never handed out.
KeysAreWritten ==
    /\ \A m \in Msg : home[m] = None => m \notin kept /\ m \notin shown /\ messages[m] = 0
    /\ \A m \in Msg : home[m] \in born \cup {None}
    /\ current \in born \cup {None}
    /\ send.at \in born \cup {None, Here}
    /\ \A i \in inits : i.at \in born \cup {None, Here}
    /\ conversations \subseteq born

\* A send has its key and its conversation while it writes; it has written
\* nothing before it is stored.
SendShape ==
    /\ Writing => send.msg \in Msg /\ send.at \in Conv
    /\ ~Writing => send.msg = None
    /\ send.stage = "writing" => home[send.msg] = None
    /\ send.stage = "stored" => home[send.msg] = send.at /\ messages[send.msg] <= 1
    /\ send.stage = "preparing" => On(send.at) \in Conv
    /\ send.stage = "idle" => send.at = None

CreationShape ==
    /\ creation.stage \in {"idle", "adding"} => creation.conv = None
    /\ creation.stage \in {"listing", "removing"} => creation.conv \in born
    /\ send.stage = "creating" <=> "send" \in creation.callers
    /\ creation.stage = "idle" => creation.callers = {}

Shape == TypeOK /\ KeysAreWritten /\ SendShape /\ CreationShape

\* While nothing has crossed, there is one load, of the current conversation,
\* and a send goes there too, also one of a view that was left: its row, while
\* it is being written, is not listed yet.
OneLoad ==
    /\ \A l \in Load : loads[l].conv # None =>
           loads[l].conv = current /\ ~loads[l].late /\ send.stage # "stored"
    /\ \A k, l \in Load : loads[k].conv # None /\ loads[l].conv # None => k = l
    /\ send.at \in {Here, None, current}
    /\ send.stage = "stored" => messages[send.msg] = 0

ChatInOrder == ~crossed => OneLoad

\* The same of the history.
OnePick ==
    /\ \A l \in Load : picks[l].conv # None => picks[l].conv = selected
    /\ \A k, l \in Load : picks[k].conv # None /\ picks[l].conv # None => k = l

HistoryInOrder == ~overtaken => OnePick

\* The list differs from the table by what is being created or deleted.
ListLagsBehind ==
    ~unlisted =>
        /\ \A c \in stored \ conversations :
               creation.conv = c /\ creation.stage \in {"listing", "removing"}
        /\ \A c \in conversations \ stored : deleting[c] = "listing"

\* A conversation that is still being created has messages, and sends, only if
\* a chat has picked it from the list; the next visit is then on it too.
NewbornIsCurrent ==
    creation.stage \in {"listing", "removing"} =>
        /\ \A m \in kept : home[m] = creation.conv => current = creation.conv
        /\ send.at = creation.conv => current = creation.conv

IndInv ==
    /\ Shape
    /\ ChatInOrder
    /\ ChatShowsItsConversation
    /\ HistoryInOrder
    /\ HistoryShowsSelection
    /\ ListLagsBehind
    /\ NewbornIsCurrent
    /\ OrphansOnlyOfCurrent


LEMMA NextIs ==
    ASSUME [Next]_vars
    PROVE  \/ \E v \in View : GoTo(v)
           \/ \E i \in inits : ChatListed(i)
           \/ HistoryListed
           \/ \E i \in inits, l \in Load : ChatPicks(i, l)
           \/ \E l \in Load : MessagesLoaded(l)
           \/ \E l \in Load : MessagesFail(l)
           \/ \E l \in Load : CreationListed(l)
           \/ \E l \in Load : CreationListedLate(l)
           \/ NewChat
           \/ StartSend
           \/ \E c \in Conv : CreationAdds(c)
           \/ CreationAddFails
           \/ CreationNotListed
           \/ CreationRemoves
           \/ \E m \in Msg : SendPrepared(m)
           \/ SendWrites
           \/ SendFails
           \/ SendPushes
           \/ \E c \in Conv, l \in Load : switchToConversation(c, l)
           \/ \E l \in Load : SelectionLoaded(l)
           \/ \E c \in Conv : handleDeleteConversation(c)
           \/ \E c \in Conv : DeleteCommits(c)
           \/ \E c \in Conv : DeleteFails(c)
           \/ \E c \in Conv : DeleteListed(c)
           \/ \E c \in Conv : DeleteNotListed(c)
           \/ \E m \in Msg, v \in {"chat", "history"} : DeleteMessage(m, v)
           \/ Reload
           \/ UNCHANGED vars
BY DEF Next, Step, ChatStep, HistoryStep

LEMMA LosesStep == ASSUME Next PROVE Loses
BY DEF Next

LEMMA LostGrows == ASSUME TypeOK, [Next]_vars PROVE lost' \subseteq Conv
BY DEF Next, Loses, vars, TypeOK

-----------------------------------------------------------------------------
(* Records and the initial state                                           *)

LEMMA Records ==
    /\ NoCreation \in CreationState /\ NoCreation.stage = "idle" /\ NoCreation.conv = None
    /\ NoCreation.callers = {}
    /\ NoLoad \in LoadState /\ NoLoad.conv = None
    /\ NoSend \in SendState /\ NoSend.stage = "idle" /\ NoSend.at = None /\ NoSend.msg = None
BY DEF NoCreation, CreationState, NoLoad, LoadState, NoSend, SendState, Ref

LEMMA Listed ==
    ASSUME NEW ms
    PROVE  /\ Listing(ms) \in [Msg -> 0..2] /\ \A m \in Msg : Listing(ms)[m] <= 1
           /\ \A m \in Msg : Listing(ms)[m] = IF m \in ms THEN 1 ELSE 0
BY DEF Listing

LEMMA Refs ==
    ASSUME TypeOK, NEW a \in Ref
    PROVE  On(a) \in Ref /\ On(a) \in Conv \cup {None} /\ On(a) # Here
BY ConvAssumption DEF On, Ref, TypeOK

\* A send begins with the reference of its view, and asks for a conversation if
\* there is none.
LEMMA SendBegins ==
    ASSUME TypeOK, SendShape, StartSend
    PROVE  /\ send' \in SendState /\ send'.at = Here /\ send'.msg = None
           /\ \/ current = None /\ AskFor("send") /\ send'.stage = "creating"
              \/ current # None /\ UNCHANGED creation /\ send'.stage = "preparing"
           /\ send.stage = "idle" /\ send.msg = None
           /\ UNCHANGED <<database, conversations, view, inits, initializing, deleting,
                          unlisted, current, messages, loads, crossed, history>>
<1>1. send \in SendState /\ send.stage = "idle" /\ send.msg = None
    BY DEF TypeOK, StartSend, SendShape, Writing
<1>2. \/ current = None /\ AskFor("send") /\ send' = [send EXCEPT !.stage = "creating", !.at = Here]
      \/ /\ current # None /\ UNCHANGED creation
         /\ send' = [send EXCEPT !.stage = "preparing", !.at = Here]
    BY DEF StartSend
<1>3. UNCHANGED <<database, conversations, view, inits, initializing, deleting,
                 unlisted, current, messages, loads, crossed, history>>
    BY DEF StartSend, opening
<1> QED
    BY <1>1, <1>2, <1>3 DEF SendState, Ref

LEMMA InitKeeps == Init => IndInv
<1> SUFFICES ASSUME Init PROVE IndInv
    OBVIOUS
<1>1. TypeOK
    BY Records, Listed DEF Init, TypeOK, View
<1>2. \A m \in Msg : messages[m] = 0
    BY Listed DEF Init
<1>3. KeysAreWritten
    BY <1>2, Records DEF Init, KeysAreWritten
<1>4. SendShape /\ CreationShape
    BY Records DEF Init, SendShape, CreationShape, Writing
<1>5. ChatInOrder /\ ChatShowsItsConversation
    BY DEF Init, ChatInOrder, OneLoad, ChatShowsItsConversation
<1>6. HistoryInOrder /\ HistoryShowsSelection
    BY Records DEF Init, HistoryInOrder, OnePick, HistoryShowsSelection
<1>7. ListLagsBehind /\ NewbornIsCurrent
    BY Records DEF Init, ListLagsBehind, NewbornIsCurrent
<1>8. OrphansOnlyOfCurrent
    BY DEF Init, OrphansOnlyOfCurrent
<1> QED
    BY <1>1, <1>3, <1>4, <1>5, <1>6, <1>7, <1>8 DEF IndInv, Shape

-----------------------------------------------------------------------------
(* Each part of the invariant is kept                                      *)

-----------------------------------------------------------------------------
(* Each part of the invariant is kept                                      *)

LEMMA TypesKept == IndInv /\ [Next]_vars => TypeOK'
<1> SUFFICES ASSUME IndInv, [Next]_vars PROVE TypeOK'
    OBVIOUS
<1>a. TypeOK /\ KeysAreWritten /\ SendShape /\ CreationShape
    BY DEF IndInv, Shape
<1>b. lost' \subseteq Conv
    BY <1>a, LostGrows
<1>c. stored \subseteq Conv /\ \A c : Of(c) \subseteq Msg
    BY <1>a DEF TypeOK, Of
<1>1. CASE \E v \in View : GoTo(v)
    <2>1. PICK v \in View : GoTo(v)
        BY <1>1
    <2>2. inits' \subseteq InitState
        <3> SUFFICES ASSUME NEW j \in inits' PROVE j \in InitState
            OBVIOUS
        <3>1. \/ j = [stage |-> "listing", at |-> Here]
              \/ \E i \in inits : j = [i EXCEPT !.at = On(i.at)]
            BY <2>1 DEF GoTo
        <3>2. CASE j = [stage |-> "listing", at |-> Here]
            BY <3>2 DEF InitState, Ref
        <3>3. CASE \E i \in inits : j = [i EXCEPT !.at = On(i.at)]
            <4>1. PICK i \in inits : j = [i EXCEPT !.at = On(i.at)]
                BY <3>3
            <4>2. i \in InitState /\ i.at \in Ref
                BY <1>a DEF TypeOK, InitState
            <4> QED
                BY <1>a, <4>1, <4>2, Refs DEF InitState
        <3> QED
            BY <3>1, <3>2, <3>3
    <2>3. send' \in SendState
        <3>1. send \in SendState /\ send.at \in Ref
            BY <1>a DEF TypeOK, SendState
        <3> QED
            BY <1>a, <2>1, <3>1, Refs DEF GoTo, SendState
    <2>4. creation' \in CreationState
        <3>1. creation \in CreationState /\ creation.callers \subseteq Caller
            BY <1>a DEF TypeOK, CreationState
        <3> QED
            BY <2>1, <3>1 DEF GoTo, CreationState, Caller
    <2>5. view' \in View /\ initializing' \in BOOLEAN
        BY <1>a, <2>1 DEF GoTo, TypeOK
    <2> QED
        BY <1>a, <1>b, <2>1, <2>2, <2>3, <2>4, <2>5, Records DEF GoTo, TypeOK, database
<1>2. CASE \E i \in inits : ChatListed(i)
    <2>1. PICK i \in inits : ChatListed(i)
        BY <1>2
    <2>2. [i EXCEPT !.stage = "picking"] \in InitState
        BY <1>a DEF TypeOK, InitState
    <2>3. /\ inits' \subseteq InitState
          /\ conversations' \subseteq Conv /\ unlisted' \in BOOLEAN
        BY <1>a, <1>c, <2>1, <2>2 DEF ChatListed, ListLoaded, ListFails, TypeOK
    <2> QED
        BY <1>a, <1>b, <2>1, <2>3 DEF ChatListed, TypeOK, database, chat, history
<1>3. CASE HistoryListed
    <2>1. conversations' \subseteq Conv /\ unlisted' \in BOOLEAN
        BY <1>a, <1>c, <1>3 DEF HistoryListed, ListLoaded, ListFails, TypeOK
    <2> QED
        BY <1>a, <1>b, <1>3, <2>1 DEF HistoryListed, TypeOK, database, chat, history
<1>4. CASE \E i \in inits, l \in Load : ChatPicks(i, l)
    <2>1. PICK i \in inits, l \in Load : ChatPicks(i, l)
        BY <1>4
    <2>2. PICK c \in Latest(i) :
             /\ current' = IF i.at = Here THEN c ELSE current
             /\ IF c = None
                THEN /\ messages' = Listing({})
                     /\ crossed' = (crossed \/ current # None)
                     /\ UNCHANGED loads
                ELSE /\ StartLoad(l, c)
                     /\ UNCHANGED messages
        BY <2>1 DEF ChatPicks
    <2>3. c \in Conv \cup {None} /\ current' \in Conv \cup {None}
        <3>1. On(i.at) \in Conv \cup {None}
            BY <1>a, Refs DEF TypeOK, InitState
        <3> QED
            BY <1>a, <2>2, <3>1 DEF Latest, TypeOK
    <2>4. /\ loads' \in [Load -> LoadState] /\ crossed' \in BOOLEAN
          /\ messages' \in [Msg -> 0..2]
        <3>1. CASE c = None
            BY <1>a, <2>2, <3>1, Listed DEF TypeOK
        <3>2. CASE c # None
            <4>1. Writing \in BOOLEAN
                BY DEF Writing
            <4>2. [conv |-> c, late |-> Writing] \in LoadState
                BY <2>3, <4>1 DEF LoadState
            <4> QED
                BY <1>a, <2>2, <3>2, <4>2 DEF StartLoad, Loading, Writing, TypeOK
        <3> QED
            BY <3>1, <3>2
    <2>5. inits' \subseteq InitState
        BY <1>a, <2>1 DEF ChatPicks, TypeOK
    <2> QED
        BY <1>a, <1>b, <2>1, <2>3, <2>4, <2>5 DEF ChatPicks, TypeOK, database, history
<1>5. CASE \E l \in Load : MessagesLoaded(l)
    BY <1>a, <1>5, Records, Listed, ConvAssumption, <1>b, <1>c DEF MessagesLoaded,
       TypeOK, CreationState, LoadState, SendState, Ref, Caller, SendShape,
       CreationShape, Writing, Loading, Picking, database, opening, list, chat, history
<1>6. CASE \E l \in Load : MessagesFail(l)
    BY <1>a, <1>6, Records, Listed, ConvAssumption, <1>b, <1>c DEF MessagesFail, TypeOK,
       CreationState, LoadState, SendState, Ref, Caller, SendShape, CreationShape,
       Writing, Loading, Picking, database, opening, list, chat, history
<1>7. CASE \E l \in Load : CreationListed(l)
    <2>1. PICK l \in Load : CreationListed(l)
        BY <1>7
    <2>2. creation.conv \in Conv
        BY <1>c, <2>1 DEF CreationListed
    <2>3. Writing \in BOOLEAN /\ [conv |-> creation.conv, late |-> Writing] \in LoadState
        BY <2>2 DEF Writing, LoadState
    <2>4. loads' \in [Load -> LoadState] /\ crossed' \in BOOLEAN
        BY <1>a, <2>1, <2>3 DEF CreationListed, StartLoad, Loading, Writing, TypeOK
    <2>5. conversations' \subseteq Conv /\ unlisted' \in BOOLEAN
        BY <1>c, <2>1 DEF CreationListed, ListLoaded
    <2>6. send' \in SendState
        BY <1>a, <2>1, <2>2 DEF CreationListed, Created, TypeOK, SendState, Ref
    <2>7. creation' \in CreationState /\ messages' \in [Msg -> 0..2]
        BY <2>1, Records, Listed DEF CreationListed, Created
    <2> QED
        BY <1>a, <1>b, <2>1, <2>2, <2>4, <2>5, <2>6, <2>7
           DEF CreationListed, TypeOK, database, opening, history
<1>8. CASE \E l \in Load : CreationListedLate(l)
    <2>1. PICK l \in Load : CreationListedLate(l)
        BY <1>8
    <2>2. creation.conv \in Conv
        BY <1>c, <2>1 DEF CreationListedLate
    <2>3. Writing \in BOOLEAN /\ [conv |-> creation.conv, late |-> Writing] \in LoadState
        BY <2>2 DEF Writing, LoadState
    <2>4. loads' \in [Load -> LoadState] /\ crossed' \in BOOLEAN
        BY <1>a, <2>1, <2>3 DEF CreationListedLate, StartLoad, Loading, Writing, TypeOK
    <2>5. conversations' \subseteq Conv /\ unlisted' \in BOOLEAN
        BY <1>c, <2>1 DEF CreationListedLate, ListLoaded
    <2>6. send' \in SendState
        BY <1>a, <2>1, <2>2 DEF CreationListedLate, Created, TypeOK, SendState, Ref
    <2>7. creation' \in CreationState /\ messages' \in [Msg -> 0..2]
        BY <2>1, Records, Listed DEF CreationListedLate, Created
    <2> QED
        BY <1>a, <1>b, <2>1, <2>2, <2>4, <2>5, <2>6, <2>7
           DEF CreationListedLate, TypeOK, database, opening, history
<1>9. CASE NewChat
    BY <1>a, <1>9, Records, Listed, ConvAssumption, <1>b, <1>c DEF NewChat, AskFor,
       TypeOK, CreationState, LoadState, SendState, Ref, Caller, SendShape,
       CreationShape, Writing, Loading, Picking, database, opening, list, chat, history
<1>10. CASE StartSend
    <2>1. creation' \in CreationState
        BY <1>a, <1>10, SendBegins DEF AskFor, TypeOK, CreationState, Caller
    <2> QED
        BY <1>a, <1>b, <1>10, <2>1, SendBegins DEF TypeOK, database, history
<1>11. CASE \E c \in Conv : CreationAdds(c)
    <2>1. PICK c \in Conv : CreationAdds(c)
        BY <1>11
    <2>2. stored' \subseteq born' /\ born' \subseteq Conv
        BY <1>a, <2>1 DEF CreationAdds, TypeOK
    <2>3. creation' \in CreationState
        BY <1>a, <2>1 DEF CreationAdds, TypeOK, CreationState
    <2> QED
        BY <1>a, <1>b, <2>1, <2>2, <2>3 DEF CreationAdds, TypeOK, opening, chat, history
<1>12. CASE CreationAddFails
    BY <1>a, <1>12, Records, Listed, ConvAssumption, <1>b, <1>c DEF CreationAddFails,
       CreationEnds, TypeOK, CreationState, LoadState, SendState, Ref, Caller,
       SendShape, CreationShape, Writing, Loading, Picking, database, opening, list,
       chat, history
<1>13. CASE CreationNotListed
    BY <1>a, <1>13, Records, Listed, ConvAssumption, <1>b, <1>c DEF CreationNotListed,
       ListLoaded, ListFails, TypeOK, CreationState, LoadState, SendState, Ref, Caller,
       SendShape, CreationShape, Writing, Loading, Picking, database, opening, list,
       chat, history
<1>14. CASE CreationRemoves
    BY <1>a, <1>14, Records, Listed, ConvAssumption, <1>b, <1>c DEF CreationRemoves,
       CreationEnds, TypeOK, CreationState, LoadState, SendState, Ref, Caller,
       SendShape, CreationShape, Writing, Loading, Picking, database, opening, list,
       chat, history
<1>15. CASE \E m \in Msg : SendPrepared(m)
    <2>1. PICK m \in Msg : SendPrepared(m)
        BY <1>15
    <2>2. send.at \in Ref /\ On(send.at) \in Ref
        BY <1>a, Refs DEF TypeOK, SendState
    <2>3. send' \in SendState
        BY <2>1, <2>2 DEF SendPrepared, SendState
    <2> QED
        BY <1>a, <1>b, <2>1, <2>3 DEF SendPrepared, TypeOK, database, list, opening, history
<1>16. CASE SendWrites
    BY <1>a, <1>16, Records, Listed, ConvAssumption, <1>b, <1>c DEF SendWrites, TypeOK,
       CreationState, LoadState, SendState, Ref, Caller, SendShape, CreationShape,
       Writing, Loading, Picking, database, opening, list, chat, history
<1>17. CASE SendFails
    BY <1>a, <1>17, Records, Listed, ConvAssumption, <1>b, <1>c DEF SendFails, TypeOK,
       CreationState, LoadState, SendState, Ref, Caller, SendShape, CreationShape,
       Writing, Loading, Picking, database, opening, list, chat, history
<1>18. CASE SendPushes
    BY <1>a, <1>18, Records, Listed, ConvAssumption, <1>b, <1>c DEF SendPushes, TypeOK,
       CreationState, LoadState, SendState, Ref, Caller, SendShape, CreationShape,
       Writing, Loading, Picking, database, opening, list, chat, history
<1>19. CASE \E c \in Conv, l \in Load : switchToConversation(c, l)
    BY <1>a, <1>19, Records, Listed, ConvAssumption, <1>b, <1>c DEF
       switchToConversation, TypeOK, CreationState, LoadState, SendState, Ref, Caller,
       SendShape, CreationShape, Writing, Loading, Picking, database, opening, list,
       chat, history
<1>20. CASE \E l \in Load : SelectionLoaded(l)
    BY <1>a, <1>20, Records, Listed, ConvAssumption, <1>b, <1>c DEF SelectionLoaded,
       TypeOK, CreationState, LoadState, SendState, Ref, Caller, SendShape,
       CreationShape, Writing, Loading, Picking, database, opening, list, chat, history
<1>21. CASE \E c \in Conv : handleDeleteConversation(c)
    BY <1>a, <1>21, Records, Listed, ConvAssumption, <1>b, <1>c DEF
       handleDeleteConversation, TypeOK, CreationState, LoadState, SendState, Ref,
       Caller, SendShape, CreationShape, Writing, Loading, Picking, database, opening,
       list, chat, history
<1>22. CASE \E c \in Conv : DeleteCommits(c)
    BY <1>a, <1>22, Records, Listed, ConvAssumption, <1>b, <1>c DEF DeleteCommits,
       TypeOK, CreationState, LoadState, SendState, Ref, Caller, SendShape,
       CreationShape, Writing, Loading, Picking, database, opening, list, chat, history
<1>23. CASE \E c \in Conv : DeleteFails(c)
    BY <1>a, <1>23, Records, Listed, ConvAssumption, <1>b, <1>c DEF DeleteFails, TypeOK,
       CreationState, LoadState, SendState, Ref, Caller, SendShape, CreationShape,
       Writing, Loading, Picking, database, opening, list, chat, history
<1>24. CASE \E c \in Conv : DeleteListed(c)
    <2>1. PICK c \in Conv : DeleteListed(c)
        BY <1>24
    <2>2. conversations' \subseteq Conv /\ unlisted' \in BOOLEAN /\ mine' \subseteq Conv
        BY <1>a, <1>c, <2>1 DEF DeleteListed, ListLoaded, TypeOK
    <2>3. deleting' \in [Conv -> {"no", "committing", "listing"}]
        BY <1>a, <2>1 DEF DeleteListed, TypeOK
    <2>4. /\ selected' \in Conv \cup {None} /\ shown' \subseteq Msg
          /\ overtaken' \in BOOLEAN
        <3>1. CASE selected = c /\ c \in mine
            <4>1. selected' = None /\ shown' = {} /\ overtaken' = (overtaken \/ Picking)
                BY <2>1, <3>1 DEF DeleteListed
            <4> QED
                BY <1>a, <4>1 DEF TypeOK, Picking
        <3>2. CASE ~(selected = c /\ c \in mine)
            BY <1>a, <2>1, <3>2 DEF DeleteListed, TypeOK
        <3> QED
            BY <3>1, <3>2
    <2> QED
        BY <1>a, <1>b, <2>1, <2>2, <2>3, <2>4 DEF DeleteListed, TypeOK, database, opening, chat
<1>25. CASE \E c \in Conv : DeleteNotListed(c)
    BY <1>a, <1>25, Records, Listed, ConvAssumption, <1>b, <1>c DEF DeleteNotListed,
       ListFails, TypeOK, CreationState, LoadState, SendState, Ref, Caller, SendShape,
       CreationShape, Writing, Loading, Picking, database, opening, list, chat, history
<1>26. CASE \E m \in Msg, v \in {"chat", "history"} : DeleteMessage(m, v)
    BY <1>a, <1>26, Records, Listed, ConvAssumption, <1>b, <1>c DEF DeleteMessage,
       TypeOK, CreationState, LoadState, SendState, Ref, Caller, SendShape,
       CreationShape, Writing, Loading, Picking, database, opening, list, chat, history
<1>27. CASE Reload
    <2>1. /\ loads' = [l \in Load |-> NoLoad] /\ picks' = [l \in Load |-> NoLoad]
          /\ deleting' = [c \in Conv |-> "no"] /\ messages' = Listing({})
          /\ send' = NoSend /\ creation' = NoCreation
          /\ view' = "other" /\ inits' = {} /\ initializing' = FALSE
          /\ conversations' = {} /\ unlisted' = TRUE /\ crossed' = TRUE
          /\ selected' = None /\ shown' = {} /\ mine' = {} /\ overtaken' = FALSE
          /\ UNCHANGED <<stored, born, kept, home, current>>
        BY <1>27 DEF Reload, database
    <2>2. /\ loads' \in [Load -> LoadState] /\ picks' \in [Load -> LoadState]
          /\ deleting' \in [Conv -> {"no", "committing", "listing"}]
          /\ messages' \in [Msg -> 0..2]
        BY <2>1, Records, Listed
    <2> QED
        BY <1>a, <1>b, <2>1, <2>2, Records DEF TypeOK, View
<1>28. CASE UNCHANGED vars
    BY <1>a, <1>28, <1>b, <1>c DEF vars, TypeOK, database, opening, list, chat, history
<1> QED
    BY NextIs, <1>1, <1>2, <1>3, <1>4, <1>5, <1>6, <1>7, <1>8, <1>9, <1>10, <1>11,
       <1>12, <1>13, <1>14, <1>15, <1>16, <1>17, <1>18, <1>19, <1>20, <1>21, <1>22,
       <1>23, <1>24, <1>25, <1>26, <1>27, <1>28

LEMMA KeysKept == IndInv /\ [Next]_vars => KeysAreWritten'
<1> SUFFICES ASSUME IndInv, [Next]_vars PROVE KeysAreWritten'
    OBVIOUS
<1>a. TypeOK /\ KeysAreWritten /\ SendShape /\ CreationShape
    BY DEF IndInv, Shape
<1>0. \/ \E v \in View : GoTo(v)
      \/ \E i \in inits : ChatListed(i)
      \/ HistoryListed
      \/ \E i \in inits, l \in Load : ChatPicks(i, l)
      \/ \E l \in Load : MessagesLoaded(l)
      \/ \E l \in Load : MessagesFail(l)
      \/ \E l \in Load : CreationListed(l)
      \/ \E l \in Load : CreationListedLate(l)
      \/ StartSend
      \/ \E c \in Conv : CreationAdds(c)
      \/ CreationAddFails
      \/ CreationNotListed
      \/ CreationRemoves
      \/ \E m \in Msg : SendPrepared(m)
      \/ SendWrites
      \/ SendFails
      \/ SendPushes
      \/ \E l \in Load : SelectionLoaded(l)
      \/ \E c \in Conv : DeleteCommits(c)
      \/ \E c \in Conv : DeleteListed(c)
      \/ \E c \in Conv : DeleteNotListed(c)
      \/ \E m \in Msg, v \in {"chat", "history"} : DeleteMessage(m, v)
      \/ Reload
      \/ UNCHANGED <<born, kept, home, current, conversations, inits, messages, shown, send>>
    BY NextIs DEF NewChat, switchToConversation, handleDeleteConversation, DeleteFails,
       vars, database, opening, list, chat, history
<1>1. CASE \E v \in View : GoTo(v)
    BY <1>a, <1>1, Records, Listed, ConvAssumption DEF GoTo, On, TypeOK, CreationState,
       SendState, LoadState, InitState, Ref, KeysAreWritten, SendShape, CreationShape,
       Writing, Of, database, opening, list, chat, history
<1>2. CASE \E i \in inits : ChatListed(i)
    BY <1>a, <1>2, Records, Listed, ConvAssumption DEF ChatListed, ListLoaded,
       ListFails, TypeOK, CreationState, SendState, LoadState, InitState, Ref,
       KeysAreWritten, SendShape, CreationShape, Writing, Of, database, opening, list,
       chat, history
<1>3. CASE HistoryListed
    BY <1>a, <1>3, Records, Listed, ConvAssumption DEF HistoryListed, ListLoaded,
       ListFails, TypeOK, CreationState, SendState, LoadState, InitState, Ref,
       KeysAreWritten, SendShape, CreationShape, Writing, Of, database, opening, list,
       chat, history
<1>4. CASE \E i \in inits, l \in Load : ChatPicks(i, l)
    BY <1>a, <1>4, Records, Listed, ConvAssumption DEF ChatPicks, Latest, On, StartLoad,
       TypeOK, CreationState, SendState, LoadState, InitState, Ref, KeysAreWritten,
       SendShape, CreationShape, Writing, Of, database, opening, list, chat, history
<1>5. CASE \E l \in Load : MessagesLoaded(l)
    BY <1>a, <1>5, Records, Listed, ConvAssumption DEF MessagesLoaded, TypeOK,
       CreationState, SendState, LoadState, InitState, Ref, KeysAreWritten, SendShape,
       CreationShape, Writing, Of, database, opening, list, chat, history
<1>6. CASE \E l \in Load : MessagesFail(l)
    BY <1>a, <1>6, Records, Listed, ConvAssumption DEF MessagesFail, TypeOK,
       CreationState, SendState, LoadState, InitState, Ref, KeysAreWritten, SendShape,
       CreationShape, Writing, Of, database, opening, list, chat, history
<1>7. CASE \E l \in Load : CreationListed(l)
    BY <1>a, <1>7, Records, Listed, ConvAssumption DEF CreationListed, ListLoaded,
       Created, StartLoad, TypeOK, CreationState, SendState, LoadState, InitState, Ref,
       KeysAreWritten, SendShape, CreationShape, Writing, Of, database, opening, list,
       chat, history
<1>8. CASE \E l \in Load : CreationListedLate(l)
    BY <1>a, <1>8, Records, Listed, ConvAssumption DEF CreationListedLate, ListLoaded,
       Created, StartLoad, TypeOK, CreationState, SendState, LoadState, InitState, Ref,
       KeysAreWritten, SendShape, CreationShape, Writing, Of, database, opening, list,
       chat, history
<1>9. CASE StartSend
    BY <1>a, <1>9, SendBegins DEF KeysAreWritten, database, history
<1>10. CASE \E c \in Conv : CreationAdds(c)
    BY <1>a, <1>10, Records, Listed, ConvAssumption DEF CreationAdds, TypeOK,
       CreationState, SendState, LoadState, InitState, Ref, KeysAreWritten, SendShape,
       CreationShape, Writing, Of, database, opening, list, chat, history
<1>11. CASE CreationAddFails
    BY <1>a, <1>11, Records, Listed, ConvAssumption DEF CreationAddFails, CreationEnds,
       TypeOK, CreationState, SendState, LoadState, InitState, Ref, KeysAreWritten,
       SendShape, CreationShape, Writing, Of, database, opening, list, chat, history
<1>12. CASE CreationNotListed
    BY <1>a, <1>12, Records, Listed, ConvAssumption DEF CreationNotListed, ListLoaded,
       ListFails, TypeOK, CreationState, SendState, LoadState, InitState, Ref,
       KeysAreWritten, SendShape, CreationShape, Writing, Of, database, opening, list,
       chat, history
<1>13. CASE CreationRemoves
    BY <1>a, <1>13, Records, Listed, ConvAssumption DEF CreationRemoves, CreationEnds,
       TypeOK, CreationState, SendState, LoadState, InitState, Ref, KeysAreWritten,
       SendShape, CreationShape, Writing, Of, database, opening, list, chat, history
<1>14. CASE \E m \in Msg : SendPrepared(m)
    BY <1>a, <1>14, Records, Listed, ConvAssumption DEF SendPrepared, On, TypeOK,
       CreationState, SendState, LoadState, InitState, Ref, KeysAreWritten, SendShape,
       CreationShape, Writing, Of, database, opening, list, chat, history
<1>15. CASE SendWrites
    BY <1>a, <1>15, Records, Listed, ConvAssumption DEF SendWrites, TypeOK,
       CreationState, SendState, LoadState, InitState, Ref, KeysAreWritten, SendShape,
       CreationShape, Writing, Of, database, opening, list, chat, history
<1>16. CASE SendFails
    BY <1>a, <1>16, Records, Listed, ConvAssumption DEF SendFails, TypeOK,
       CreationState, SendState, LoadState, InitState, Ref, KeysAreWritten, SendShape,
       CreationShape, Writing, Of, database, opening, list, chat, history
<1>17. CASE SendPushes
    BY <1>a, <1>17, Records, Listed, ConvAssumption DEF SendPushes, TypeOK,
       CreationState, SendState, LoadState, InitState, Ref, KeysAreWritten, SendShape,
       CreationShape, Writing, Of, database, opening, list, chat, history
<1>18. CASE \E l \in Load : SelectionLoaded(l)
    BY <1>a, <1>18, Records, Listed, ConvAssumption DEF SelectionLoaded, TypeOK,
       CreationState, SendState, LoadState, InitState, Ref, KeysAreWritten, SendShape,
       CreationShape, Writing, Of, database, opening, list, chat, history
<1>19. CASE \E c \in Conv : DeleteCommits(c)
    BY <1>a, <1>19, Records, Listed, ConvAssumption DEF DeleteCommits, TypeOK,
       CreationState, SendState, LoadState, InitState, Ref, KeysAreWritten, SendShape,
       CreationShape, Writing, Of, database, opening, list, chat, history
<1>20. CASE \E c \in Conv : DeleteListed(c)
    BY <1>a, <1>20, Records, Listed, ConvAssumption DEF DeleteListed, ListLoaded,
       TypeOK, CreationState, SendState, LoadState, InitState, Ref, KeysAreWritten,
       SendShape, CreationShape, Writing, Of, database, opening, list, chat, history
<1>21. CASE \E c \in Conv : DeleteNotListed(c)
    BY <1>a, <1>21, Records, Listed, ConvAssumption DEF DeleteNotListed, ListFails,
       TypeOK, CreationState, SendState, LoadState, InitState, Ref, KeysAreWritten,
       SendShape, CreationShape, Writing, Of, database, opening, list, chat, history
<1>22. CASE \E m \in Msg, v \in {"chat", "history"} : DeleteMessage(m, v)
    BY <1>a, <1>22, Records, Listed, ConvAssumption DEF DeleteMessage, TypeOK,
       CreationState, SendState, LoadState, InitState, Ref, KeysAreWritten, SendShape,
       CreationShape, Writing, Of, database, opening, list, chat, history
<1>23. CASE Reload
    BY <1>a, <1>23, Records, Listed, ConvAssumption DEF Reload, TypeOK, CreationState,
       SendState, LoadState, InitState, Ref, KeysAreWritten, SendShape, CreationShape,
       Writing, Of, database, opening, list, chat, history
<1>24. CASE UNCHANGED <<born, kept, home, current, conversations, inits, messages, shown, send>>
    BY <1>a, <1>24 DEF KeysAreWritten
<1> QED
    BY <1>0, <1>1, <1>2, <1>3, <1>4, <1>5, <1>6, <1>7, <1>8, <1>9, <1>10, <1>11, <1>12,
       <1>13, <1>14, <1>15, <1>16, <1>17, <1>18, <1>19, <1>20, <1>21, <1>22, <1>23,
       <1>24

LEMMA SendKept == IndInv /\ [Next]_vars => SendShape'
<1> SUFFICES ASSUME IndInv, [Next]_vars PROVE SendShape'
    OBVIOUS
<1>a. TypeOK /\ KeysAreWritten /\ SendShape /\ CreationShape
    BY DEF IndInv, Shape
<1>0. \/ \E v \in View : GoTo(v)
      \/ \E i \in inits, l \in Load : ChatPicks(i, l)
      \/ \E l \in Load : MessagesLoaded(l)
      \/ \E l \in Load : MessagesFail(l)
      \/ \E l \in Load : CreationListed(l)
      \/ \E l \in Load : CreationListedLate(l)
      \/ StartSend
      \/ CreationAddFails
      \/ CreationRemoves
      \/ \E m \in Msg : SendPrepared(m)
      \/ SendWrites
      \/ SendFails
      \/ SendPushes
      \/ \E m \in Msg, v \in {"chat", "history"} : DeleteMessage(m, v)
      \/ Reload
      \/ UNCHANGED <<home, current, messages, send>>
    BY NextIs DEF ChatListed, HistoryListed, NewChat, CreationAdds, CreationNotListed,
       switchToConversation, SelectionLoaded, handleDeleteConversation, DeleteCommits,
       DeleteFails, DeleteListed, DeleteNotListed, vars, database, opening, list, chat,
       history
<1>1. CASE \E v \in View : GoTo(v)
    BY <1>a, <1>1, Records, Listed, ConvAssumption DEF GoTo, On, TypeOK, CreationState,
       SendState, LoadState, InitState, Ref, KeysAreWritten, SendShape, CreationShape,
       Writing, Of, On, database, opening, list, chat, history
<1>2. CASE \E i \in inits, l \in Load : ChatPicks(i, l)
    BY <1>a, <1>2, Records, Listed, ConvAssumption DEF ChatPicks, Latest, On, StartLoad,
       TypeOK, CreationState, SendState, LoadState, InitState, Ref, KeysAreWritten,
       SendShape, CreationShape, Writing, Of, On, database, opening, list, chat, history
<1>3. CASE \E l \in Load : MessagesLoaded(l)
    BY <1>a, <1>3, Records, Listed, ConvAssumption DEF MessagesLoaded, TypeOK,
       CreationState, SendState, LoadState, InitState, Ref, KeysAreWritten, SendShape,
       CreationShape, Writing, Of, On, database, opening, list, chat, history
<1>4. CASE \E l \in Load : MessagesFail(l)
    BY <1>a, <1>4, Records, Listed, ConvAssumption DEF MessagesFail, TypeOK,
       CreationState, SendState, LoadState, InitState, Ref, KeysAreWritten, SendShape,
       CreationShape, Writing, Of, On, database, opening, list, chat, history
<1>5. CASE \E l \in Load : CreationListed(l)
    BY <1>a, <1>5, Records, Listed, ConvAssumption DEF CreationListed, ListLoaded,
       Created, StartLoad, TypeOK, CreationState, SendState, LoadState, InitState, Ref,
       KeysAreWritten, SendShape, CreationShape, Writing, Of, On, database, opening,
       list, chat, history
<1>6. CASE \E l \in Load : CreationListedLate(l)
    <2>1. PICK l \in Load : CreationListedLate(l)
        BY <1>6
    <2>2. creation.conv \in Conv /\ UNCHANGED <<current, home>>
        BY <1>a, <2>1 DEF CreationListedLate, TypeOK, database
    <2>3. CASE "send" \in creation.callers
        <3>1. send.at # Here /\ send.stage = "creating" /\ send \in SendState
            BY <1>a, <2>1, <2>3 DEF CreationListedLate, AskedHere, CreationShape, TypeOK
        <3>2. send' = [send EXCEPT !.stage = "preparing", !.at = creation.conv]
            BY <2>1, <2>3, <3>1 DEF CreationListedLate, Created
        <3> QED
            BY <1>a, <2>2, <3>1, <3>2, ConvAssumption DEF SendShape, SendState, Writing, On
    <2>4. CASE "send" \notin creation.callers
        <3>1. UNCHANGED send /\ send.stage # "creating"
            BY <1>a, <2>1, <2>4 DEF CreationListedLate, Created, CreationShape
        <3>2. \A m \in Msg : messages'[m] <= 1
            BY <2>1, Listed DEF CreationListedLate, Created
        <3> QED
            BY <1>a, <2>2, <3>1, <3>2 DEF SendShape, Writing, On
    <2> QED
        BY <2>3, <2>4
<1>7. CASE StartSend
    BY <1>a, <1>7, SendBegins DEF SendShape, Writing, On, TypeOK, database
<1>8. CASE CreationAddFails
    BY <1>a, <1>8, Records, Listed, ConvAssumption DEF CreationAddFails, CreationEnds,
       TypeOK, CreationState, SendState, LoadState, InitState, Ref, KeysAreWritten,
       SendShape, CreationShape, Writing, Of, On, database, opening, list, chat, history
<1>9. CASE CreationRemoves
    BY <1>a, <1>9, Records, Listed, ConvAssumption DEF CreationRemoves, CreationEnds,
       TypeOK, CreationState, SendState, LoadState, InitState, Ref, KeysAreWritten,
       SendShape, CreationShape, Writing, Of, On, database, opening, list, chat, history
<1>10. CASE \E m \in Msg : SendPrepared(m)
    BY <1>a, <1>10, Records, Listed, ConvAssumption DEF SendPrepared, On, TypeOK,
       CreationState, SendState, LoadState, InitState, Ref, KeysAreWritten, SendShape,
       CreationShape, Writing, Of, On, database, opening, list, chat, history
<1>11. CASE SendWrites
    BY <1>a, <1>11, Records, Listed, ConvAssumption DEF SendWrites, TypeOK,
       CreationState, SendState, LoadState, InitState, Ref, KeysAreWritten, SendShape,
       CreationShape, Writing, Of, On, database, opening, list, chat, history
<1>12. CASE SendFails
    BY <1>a, <1>12, Records, Listed, ConvAssumption DEF SendFails, TypeOK,
       CreationState, SendState, LoadState, InitState, Ref, KeysAreWritten, SendShape,
       CreationShape, Writing, Of, On, database, opening, list, chat, history
<1>13. CASE SendPushes
    BY <1>a, <1>13, Records, Listed, ConvAssumption DEF SendPushes, TypeOK,
       CreationState, SendState, LoadState, InitState, Ref, KeysAreWritten, SendShape,
       CreationShape, Writing, Of, On, database, opening, list, chat, history
<1>14. CASE \E m \in Msg, v \in {"chat", "history"} : DeleteMessage(m, v)
    BY <1>a, <1>14, Records, Listed, ConvAssumption DEF DeleteMessage, TypeOK,
       CreationState, SendState, LoadState, InitState, Ref, KeysAreWritten, SendShape,
       CreationShape, Writing, Of, On, database, opening, list, chat, history
<1>15. CASE Reload
    BY <1>a, <1>15, Records, Listed, ConvAssumption DEF Reload, TypeOK, CreationState,
       SendState, LoadState, InitState, Ref, KeysAreWritten, SendShape, CreationShape,
       Writing, Of, On, database, opening, list, chat, history
<1>16. CASE UNCHANGED <<home, current, messages, send>>
    BY <1>a, <1>16 DEF SendShape, Writing, On
<1> QED
    BY <1>0, <1>1, <1>2, <1>3, <1>4, <1>5, <1>6, <1>7, <1>8, <1>9, <1>10, <1>11, <1>12,
       <1>13, <1>14, <1>15, <1>16

LEMMA CreationKept == IndInv /\ [Next]_vars => CreationShape'
<1> SUFFICES ASSUME IndInv, [Next]_vars PROVE CreationShape'
    OBVIOUS
<1>a. TypeOK /\ SendShape /\ CreationShape
    BY DEF IndInv, Shape
<1>0. \/ \E v \in View : GoTo(v)
      \/ \E l \in Load : CreationListed(l)
      \/ \E l \in Load : CreationListedLate(l)
      \/ NewChat
      \/ StartSend
      \/ \E c \in Conv : CreationAdds(c)
      \/ CreationAddFails
      \/ CreationNotListed
      \/ CreationRemoves
      \/ \E m \in Msg : SendPrepared(m)
      \/ SendWrites
      \/ SendFails
      \/ SendPushes
      \/ Reload
      \/ UNCHANGED <<born, creation, send>>
    BY NextIs DEF ChatListed, HistoryListed, ChatPicks, MessagesLoaded, MessagesFail,
       switchToConversation, SelectionLoaded, handleDeleteConversation, DeleteCommits,
       DeleteFails, DeleteListed, DeleteNotListed, DeleteMessage, vars, database,
       opening, list, chat, history
<1>1. CASE \E v \in View : GoTo(v)
    BY <1>a, <1>1, Records, Listed, ConvAssumption DEF GoTo, On, TypeOK, CreationState,
       SendState, Caller, CreationShape, SendShape, Writing, database, opening, list,
       chat, history
<1>2. CASE \E l \in Load : CreationListed(l)
    BY <1>a, <1>2, Records, Listed, ConvAssumption DEF CreationListed, ListLoaded,
       Created, StartLoad, TypeOK, CreationState, SendState, Caller, CreationShape,
       SendShape, Writing, database, opening, list, chat, history
<1>3. CASE \E l \in Load : CreationListedLate(l)
    BY <1>a, <1>3, Records, Listed, ConvAssumption DEF CreationListedLate, ListLoaded,
       Created, StartLoad, TypeOK, CreationState, SendState, Caller, CreationShape,
       SendShape, Writing, database, opening, list, chat, history
<1>4. CASE NewChat
    BY <1>a, <1>4, Records, Listed, ConvAssumption DEF NewChat, AskFor, TypeOK,
       CreationState, SendState, Caller, CreationShape, SendShape, Writing, database,
       opening, list, chat, history
<1>5. CASE StartSend
    <2>1. CASE current = None /\ AskFor("send") /\ send'.stage = "creating"
        BY <1>a, <1>5, <2>1, SendBegins DEF AskFor, CreationShape, CreationState, TypeOK, database
    <2>2. CASE UNCHANGED creation /\ send'.stage = "preparing"
        BY <1>a, <1>5, <2>2, SendBegins DEF CreationShape, database
    <2> QED
        BY <1>a, <1>5, <2>1, <2>2, SendBegins
<1>6. CASE \E c \in Conv : CreationAdds(c)
    BY <1>a, <1>6, Records, Listed, ConvAssumption DEF CreationAdds, TypeOK,
       CreationState, SendState, Caller, CreationShape, SendShape, Writing, database,
       opening, list, chat, history
<1>7. CASE CreationAddFails
    BY <1>a, <1>7, Records, Listed, ConvAssumption DEF CreationAddFails, CreationEnds,
       TypeOK, CreationState, SendState, Caller, CreationShape, SendShape, Writing,
       database, opening, list, chat, history
<1>8. CASE CreationNotListed
    BY <1>a, <1>8, Records, Listed, ConvAssumption DEF CreationNotListed, ListLoaded,
       ListFails, TypeOK, CreationState, SendState, Caller, CreationShape, SendShape,
       Writing, database, opening, list, chat, history
<1>9. CASE CreationRemoves
    BY <1>a, <1>9, Records, Listed, ConvAssumption DEF CreationRemoves, CreationEnds,
       TypeOK, CreationState, SendState, Caller, CreationShape, SendShape, Writing,
       database, opening, list, chat, history
<1>10. CASE \E m \in Msg : SendPrepared(m)
    BY <1>a, <1>10, Records, Listed, ConvAssumption DEF SendPrepared, On, TypeOK,
       CreationState, SendState, Caller, CreationShape, SendShape, Writing, database,
       opening, list, chat, history
<1>11. CASE SendWrites
    BY <1>a, <1>11, Records, Listed, ConvAssumption DEF SendWrites, TypeOK,
       CreationState, SendState, Caller, CreationShape, SendShape, Writing, database,
       opening, list, chat, history
<1>12. CASE SendFails
    BY <1>a, <1>12, Records, Listed, ConvAssumption DEF SendFails, TypeOK,
       CreationState, SendState, Caller, CreationShape, SendShape, Writing, database,
       opening, list, chat, history
<1>13. CASE SendPushes
    BY <1>a, <1>13, Records, Listed, ConvAssumption DEF SendPushes, TypeOK,
       CreationState, SendState, Caller, CreationShape, SendShape, Writing, database,
       opening, list, chat, history
<1>14. CASE Reload
    BY <1>a, <1>14, Records, Listed, ConvAssumption DEF Reload, TypeOK, CreationState,
       SendState, Caller, CreationShape, SendShape, Writing, database, opening, list,
       chat, history
<1>15. CASE UNCHANGED <<born, creation, send>>
    BY <1>a, <1>15 DEF CreationShape
<1> QED
    BY <1>0, <1>1, <1>2, <1>3, <1>4, <1>5, <1>6, <1>7, <1>8, <1>9, <1>10, <1>11, <1>12,
       <1>13, <1>14, <1>15

LEMMA OrderKept == IndInv /\ [Next]_vars => ChatInOrder'
<1> SUFFICES ASSUME IndInv, [Next]_vars PROVE ChatInOrder'
    OBVIOUS
<1>a. TypeOK /\ KeysAreWritten /\ SendShape /\ CreationShape /\ ChatInOrder
    BY DEF IndInv, Shape
<1>0. \/ \E v \in View : GoTo(v)
      \/ \E i \in inits, l \in Load : ChatPicks(i, l)
      \/ \E l \in Load : MessagesLoaded(l)
      \/ \E l \in Load : MessagesFail(l)
      \/ \E l \in Load : CreationListed(l)
      \/ \E l \in Load : CreationListedLate(l)
      \/ StartSend
      \/ CreationAddFails
      \/ CreationRemoves
      \/ \E m \in Msg : SendPrepared(m)
      \/ SendWrites
      \/ SendFails
      \/ SendPushes
      \/ \E m \in Msg, v \in {"chat", "history"} : DeleteMessage(m, v)
      \/ Reload
      \/ UNCHANGED <<current, messages, loads, send, crossed>>
    BY NextIs DEF ChatListed, HistoryListed, NewChat, CreationAdds, CreationNotListed,
       switchToConversation, SelectionLoaded, handleDeleteConversation, DeleteCommits,
       DeleteFails, DeleteListed, DeleteNotListed, vars, database, opening, list, chat,
       history
<1>1. CASE \E v \in View : GoTo(v)
    BY <1>a, <1>1, Records, Listed, ConvAssumption DEF GoTo, On, TypeOK, LoadState,
       SendState, Ref, KeysAreWritten, SendShape, CreationShape, ChatInOrder, OneLoad,
       Writing, Loading, database, opening, list, chat, history
<1>2. CASE \E i \in inits, l \in Load : ChatPicks(i, l)
    <2>1. PICK i \in inits, l \in Load : ChatPicks(i, l)
        BY <1>2
    <2>2. PICK c \in Latest(i) :
             /\ current' = IF i.at = Here THEN c ELSE current
             /\ IF c = None
                THEN /\ messages' = Listing({})
                     /\ crossed' = (crossed \/ current # None)
                     /\ UNCHANGED loads
                ELSE /\ StartLoad(l, c)
                     /\ UNCHANGED messages
        BY <2>1 DEF ChatPicks
    <2>3. UNCHANGED send
        BY <2>1 DEF ChatPicks
    <2>4. SUFFICES ASSUME ~crossed' PROVE OneLoad'
        BY DEF ChatInOrder
    <2>5. CASE c = None
        <3>1. /\ ~crossed /\ current = None /\ messages' = Listing({})
              /\ UNCHANGED loads
            BY <2>2, <2>4, <2>5
        <3>2. current' = None
            BY <2>2, <2>5, <3>1
        <3>3. ~Writing
            BY <1>a, <3>1, ConvAssumption DEF ChatInOrder, OneLoad, SendShape
        <3> QED
            BY <1>a, <2>3, <3>1, <3>2, <3>3 DEF ChatInOrder, OneLoad, Writing
    <2>6. CASE c # None
        <3>1. StartLoad(l, c) /\ UNCHANGED messages
            BY <2>2, <2>6
        <3>2. ~Loading /\ ~Writing /\ c = current' /\ send'.at \in {Here, None, current'}
            BY <2>4, <3>1 DEF StartLoad
        <3>3. \A k \in Load : loads'[k].conv # None =>
                  k = l /\ loads'[k].conv = current' /\ ~loads'[k].late
            BY <1>a, <3>1, <3>2 DEF StartLoad, TypeOK, LoadState, Loading
        <3> QED
            BY <2>3, <3>2, <3>3 DEF OneLoad, Writing
    <2> QED
        BY <2>5, <2>6
<1>3. CASE \E l \in Load : MessagesLoaded(l)
    BY <1>a, <1>3, Records, Listed, ConvAssumption DEF MessagesLoaded, TypeOK,
       LoadState, SendState, Ref, KeysAreWritten, SendShape, CreationShape, ChatInOrder,
       OneLoad, Writing, Loading, database, opening, list, chat, history
<1>4. CASE \E l \in Load : MessagesFail(l)
    BY <1>a, <1>4, Records, Listed, ConvAssumption DEF MessagesFail, TypeOK, LoadState,
       SendState, Ref, KeysAreWritten, SendShape, CreationShape, ChatInOrder, OneLoad,
       Writing, Loading, database, opening, list, chat, history
<1>5. CASE \E l \in Load : CreationListed(l)
    <2>1. PICK l \in Load : CreationListed(l)
        BY <1>5
    <2>2. SUFFICES ASSUME ~crossed' PROVE OneLoad'
        BY DEF ChatInOrder
    <2>3. StartLoad(l, creation.conv)
        BY <2>1, <2>2 DEF CreationListed
    <2>4. /\ ~Loading /\ ~Writing /\ creation.conv = current'
          /\ send'.at \in {Here, None, current'}
        BY <2>2, <2>3 DEF StartLoad
    <2>5. \A k \in Load : loads'[k].conv # None =>
              k = l /\ loads'[k].conv = creation.conv /\ ~loads'[k].late
        BY <1>a, <2>3, <2>4 DEF StartLoad, TypeOK, LoadState, Loading
    <2>6. send'.stage \notin {"writing", "stored"}
        BY <1>a, <2>1, <2>4 DEF CreationListed, Created, TypeOK, SendState, Writing
    <2> QED
        BY <2>4, <2>5, <2>6 DEF OneLoad
<1>6. CASE \E l \in Load : CreationListedLate(l)
    <2>1. PICK l \in Load : CreationListedLate(l)
        BY <1>6
    <2>2. SUFFICES ASSUME ~crossed' PROVE OneLoad'
        BY DEF ChatInOrder
    <2>3. StartLoad(l, creation.conv)
        BY <2>1, <2>2 DEF CreationListedLate
    <2>4. /\ ~Loading /\ ~Writing /\ creation.conv = current'
          /\ send'.at \in {Here, None, current'}
        BY <2>2, <2>3 DEF StartLoad
    <2>5. \A k \in Load : loads'[k].conv # None =>
              k = l /\ loads'[k].conv = creation.conv /\ ~loads'[k].late
        BY <1>a, <2>3, <2>4 DEF StartLoad, TypeOK, LoadState, Loading
    <2>6. send'.stage \notin {"writing", "stored"}
        BY <1>a, <2>1, <2>4 DEF CreationListedLate, Created, TypeOK, SendState, Writing
    <2> QED
        BY <2>4, <2>5, <2>6 DEF OneLoad
<1>7. CASE StartSend
    <2>1. send.stage = "idle" /\ send'.stage \in {"creating", "preparing"} /\ send'.at = Here
        BY <1>a, <1>7, SendBegins
    <2> QED
        BY <1>a, <1>7, <2>1, SendBegins DEF ChatInOrder, OneLoad
<1>8. CASE CreationAddFails
    BY <1>a, <1>8, Records, Listed, ConvAssumption DEF CreationAddFails, CreationEnds,
       TypeOK, LoadState, SendState, Ref, KeysAreWritten, SendShape, CreationShape,
       ChatInOrder, OneLoad, Writing, Loading, database, opening, list, chat, history
<1>9. CASE CreationRemoves
    BY <1>a, <1>9, Records, Listed, ConvAssumption DEF CreationRemoves, CreationEnds,
       TypeOK, LoadState, SendState, Ref, KeysAreWritten, SendShape, CreationShape,
       ChatInOrder, OneLoad, Writing, Loading, database, opening, list, chat, history
<1>10. CASE \E m \in Msg : SendPrepared(m)
    BY <1>a, <1>10, Records, Listed, ConvAssumption DEF SendPrepared, On, TypeOK,
       LoadState, SendState, Ref, KeysAreWritten, SendShape, CreationShape, ChatInOrder,
       OneLoad, Writing, Loading, database, opening, list, chat, history
<1>11. CASE SendWrites
    BY <1>a, <1>11, Records, Listed, ConvAssumption DEF SendWrites, TypeOK, LoadState,
       SendState, Ref, KeysAreWritten, SendShape, CreationShape, ChatInOrder, OneLoad,
       Writing, Loading, database, opening, list, chat, history
<1>12. CASE SendFails
    BY <1>a, <1>12, Records, Listed, ConvAssumption DEF SendFails, TypeOK, LoadState,
       SendState, Ref, KeysAreWritten, SendShape, CreationShape, ChatInOrder, OneLoad,
       Writing, Loading, database, opening, list, chat, history
<1>13. CASE SendPushes
    BY <1>a, <1>13, Records, Listed, ConvAssumption DEF SendPushes, TypeOK, LoadState,
       SendState, Ref, KeysAreWritten, SendShape, CreationShape, ChatInOrder, OneLoad,
       Writing, Loading, database, opening, list, chat, history
<1>14. CASE \E m \in Msg, v \in {"chat", "history"} : DeleteMessage(m, v)
    BY <1>a, <1>14, Records, Listed, ConvAssumption DEF DeleteMessage, TypeOK,
       LoadState, SendState, Ref, KeysAreWritten, SendShape, CreationShape, ChatInOrder,
       OneLoad, Writing, Loading, database, opening, list, chat, history
<1>15. CASE Reload
    BY <1>a, <1>15, Records, Listed, ConvAssumption DEF Reload, TypeOK, LoadState,
       SendState, Ref, KeysAreWritten, SendShape, CreationShape, ChatInOrder, OneLoad,
       Writing, Loading, database, opening, list, chat, history
<1>16. CASE UNCHANGED <<current, messages, loads, send, crossed>>
    BY <1>a, <1>16 DEF ChatInOrder, OneLoad
<1> QED
    BY <1>0, <1>1, <1>2, <1>3, <1>4, <1>5, <1>6, <1>7, <1>8, <1>9, <1>10, <1>11, <1>12,
       <1>13, <1>14, <1>15, <1>16

LEMMA ChatKept == IndInv /\ [Next]_vars => ChatShowsItsConversation'
<1> SUFFICES ASSUME IndInv, [Next]_vars PROVE ChatShowsItsConversation'
    OBVIOUS
<1>a. TypeOK /\ KeysAreWritten /\ SendShape /\ CreationShape
      /\ ChatInOrder /\ ChatShowsItsConversation
    BY DEF IndInv, Shape
<1>0. \/ \E v \in View : GoTo(v)
      \/ \E i \in inits, l \in Load : ChatPicks(i, l)
      \/ \E l \in Load : MessagesLoaded(l)
      \/ \E l \in Load : MessagesFail(l)
      \/ \E l \in Load : CreationListed(l)
      \/ \E l \in Load : CreationListedLate(l)
      \/ StartSend
      \/ CreationAddFails
      \/ CreationRemoves
      \/ \E m \in Msg : SendPrepared(m)
      \/ SendWrites
      \/ SendFails
      \/ SendPushes
      \/ \E c \in Conv : DeleteCommits(c)
      \/ \E m \in Msg, v \in {"chat", "history"} : DeleteMessage(m, v)
      \/ Reload
      \/ UNCHANGED <<kept, home, current, messages, loads, send, crossed>>
    BY NextIs DEF ChatListed, HistoryListed, NewChat, CreationAdds, CreationNotListed,
       switchToConversation, SelectionLoaded, handleDeleteConversation, DeleteFails,
       DeleteListed, DeleteNotListed, vars, database, opening, list, chat, history
<1>1. CASE \E v \in View : GoTo(v)
    BY <1>a, <1>1, Records, Listed, ConvAssumption DEF GoTo, On, TypeOK, LoadState,
       SendState, KeysAreWritten, SendShape, CreationShape, ChatInOrder, OneLoad,
       ChatShowsItsConversation, Writing, Loading, Of, database, opening, list, chat,
       history
<1>2. CASE \E i \in inits, l \in Load : ChatPicks(i, l)
    <2>1. PICK i \in inits, l \in Load : ChatPicks(i, l)
        BY <1>2
    <2>2. PICK c \in Latest(i) :
             /\ current' = IF i.at = Here THEN c ELSE current
             /\ IF c = None
                THEN /\ messages' = Listing({})
                     /\ crossed' = (crossed \/ current # None)
                     /\ UNCHANGED loads
                ELSE /\ StartLoad(l, c)
                     /\ UNCHANGED messages
        BY <2>1 DEF ChatPicks
    <2>3. UNCHANGED <<send, kept, home>>
        BY <2>1 DEF ChatPicks, database
    <2>4. CASE c = None
        <3>1. messages' = Listing({}) /\ (~crossed' => current' = None)
            BY <2>2, <2>4
        <3>2. \A m \in kept' : home'[m] # None
            BY <1>a, <2>3 DEF KeysAreWritten, TypeOK
        <3> QED
            BY <3>1, <3>2, Listed DEF ChatShowsItsConversation, Of
    <2>5. CASE c # None
        <3>1. loads'[l].conv # None
            BY <1>a, <2>2, <2>5 DEF StartLoad, TypeOK
        <3> QED
            BY <3>1 DEF ChatShowsItsConversation, Loading
    <2> QED
        BY <2>4, <2>5
<1>3. CASE \E l \in Load : MessagesLoaded(l)
    BY <1>a, <1>3, Records, Listed, ConvAssumption DEF MessagesLoaded, TypeOK,
       LoadState, SendState, KeysAreWritten, SendShape, CreationShape, ChatInOrder,
       OneLoad, ChatShowsItsConversation, Writing, Loading, Of, database, opening, list,
       chat, history
<1>4. CASE \E l \in Load : MessagesFail(l)
    BY <1>a, <1>4, Records, Listed, ConvAssumption DEF MessagesFail, TypeOK, LoadState,
       SendState, KeysAreWritten, SendShape, CreationShape, ChatInOrder, OneLoad,
       ChatShowsItsConversation, Writing, Loading, Of, database, opening, list, chat,
       history
<1>5. CASE \E l \in Load : CreationListed(l)
    BY <1>a, <1>5, Records, Listed, ConvAssumption DEF CreationListed, ListLoaded,
       Created, StartLoad, TypeOK, LoadState, SendState, KeysAreWritten, SendShape,
       CreationShape, ChatInOrder, OneLoad, ChatShowsItsConversation, Writing, Loading,
       Of, database, opening, list, chat, history
<1>6. CASE \E l \in Load : CreationListedLate(l)
    BY <1>a, <1>6, Records, Listed, ConvAssumption DEF CreationListedLate, ListLoaded,
       Created, StartLoad, TypeOK, LoadState, SendState, KeysAreWritten, SendShape,
       CreationShape, ChatInOrder, OneLoad, ChatShowsItsConversation, Writing, Loading,
       Of, database, opening, list, chat, history
<1>7. CASE StartSend
    BY <1>a, <1>7, Records, Listed, ConvAssumption DEF StartSend, AskFor, TypeOK,
       LoadState, SendState, KeysAreWritten, SendShape, CreationShape, ChatInOrder,
       OneLoad, ChatShowsItsConversation, Writing, Loading, Of, database, opening, list,
       chat, history
<1>8. CASE CreationAddFails
    BY <1>a, <1>8, Records, Listed, ConvAssumption DEF CreationAddFails, CreationEnds,
       TypeOK, LoadState, SendState, KeysAreWritten, SendShape, CreationShape,
       ChatInOrder, OneLoad, ChatShowsItsConversation, Writing, Loading, Of, database,
       opening, list, chat, history
<1>9. CASE CreationRemoves
    BY <1>a, <1>9, Records, Listed, ConvAssumption DEF CreationRemoves, CreationEnds,
       TypeOK, LoadState, SendState, KeysAreWritten, SendShape, CreationShape,
       ChatInOrder, OneLoad, ChatShowsItsConversation, Writing, Loading, Of, database,
       opening, list, chat, history
<1>10. CASE \E m \in Msg : SendPrepared(m)
    BY <1>a, <1>10, Records, Listed, ConvAssumption DEF SendPrepared, On, TypeOK,
       LoadState, SendState, KeysAreWritten, SendShape, CreationShape, ChatInOrder,
       OneLoad, ChatShowsItsConversation, Writing, Loading, Of, database, opening, list,
       chat, history
<1>11. CASE SendWrites
    BY <1>a, <1>11, Records, Listed, ConvAssumption DEF SendWrites, TypeOK, LoadState,
       SendState, KeysAreWritten, SendShape, CreationShape, ChatInOrder, OneLoad,
       ChatShowsItsConversation, Writing, Loading, Of, database, opening, list, chat,
       history
<1>12. CASE SendFails
    BY <1>a, <1>12, Records, Listed, ConvAssumption DEF SendFails, TypeOK, LoadState,
       SendState, KeysAreWritten, SendShape, CreationShape, ChatInOrder, OneLoad,
       ChatShowsItsConversation, Writing, Loading, Of, database, opening, list, chat,
       history
<1>13. CASE SendPushes
    BY <1>a, <1>13, Records, Listed, ConvAssumption DEF SendPushes, TypeOK, LoadState,
       SendState, KeysAreWritten, SendShape, CreationShape, ChatInOrder, OneLoad,
       ChatShowsItsConversation, Writing, Loading, Of, database, opening, list, chat,
       history
<1>14. CASE \E c \in Conv : DeleteCommits(c)
    BY <1>a, <1>14, Records, Listed, ConvAssumption DEF DeleteCommits, TypeOK,
       LoadState, SendState, KeysAreWritten, SendShape, CreationShape, ChatInOrder,
       OneLoad, ChatShowsItsConversation, Writing, Loading, Of, database, opening, list,
       chat, history
<1>15. CASE \E m \in Msg, v \in {"chat", "history"} : DeleteMessage(m, v)
    BY <1>a, <1>15, Records, Listed, ConvAssumption DEF DeleteMessage, TypeOK,
       LoadState, SendState, KeysAreWritten, SendShape, CreationShape, ChatInOrder,
       OneLoad, ChatShowsItsConversation, Writing, Loading, Of, database, opening, list,
       chat, history
<1>16. CASE Reload
    BY <1>a, <1>16, Records, Listed, ConvAssumption DEF Reload, TypeOK, LoadState,
       SendState, KeysAreWritten, SendShape, CreationShape, ChatInOrder, OneLoad,
       ChatShowsItsConversation, Writing, Loading, Of, database, opening, list, chat,
       history
<1>17. CASE UNCHANGED <<kept, home, current, messages, loads, send, crossed>>
    BY <1>a, <1>17 DEF ChatShowsItsConversation, Loading, Of
<1> QED
    BY <1>0, <1>1, <1>2, <1>3, <1>4, <1>5, <1>6, <1>7, <1>8, <1>9, <1>10, <1>11, <1>12,
       <1>13, <1>14, <1>15, <1>16, <1>17

LEMMA PicksKept == IndInv /\ [Next]_vars => HistoryInOrder'
<1> SUFFICES ASSUME IndInv, [Next]_vars PROVE HistoryInOrder'
    OBVIOUS
<1>a. TypeOK /\ HistoryInOrder
    BY DEF IndInv, Shape
<1>0. \/ \E v \in View : GoTo(v)
      \/ \E c \in Conv, l \in Load : switchToConversation(c, l)
      \/ \E l \in Load : SelectionLoaded(l)
      \/ \E c \in Conv : DeleteListed(c)
      \/ Reload
      \/ UNCHANGED <<selected, picks, overtaken>>
    BY NextIs DEF ChatListed, HistoryListed, ChatPicks, MessagesLoaded, MessagesFail,
       CreationListed, CreationListedLate, NewChat, StartSend, CreationAdds,
       CreationAddFails, CreationNotListed, CreationRemoves, SendPrepared, SendWrites,
       SendFails, SendPushes, handleDeleteConversation, DeleteCommits, DeleteFails,
       DeleteNotListed, DeleteMessage, vars, database, opening, list, chat, history
<1>1. CASE \E v \in View : GoTo(v)
    BY <1>a, <1>1, Records, Listed, ConvAssumption DEF GoTo, On, TypeOK, LoadState,
       HistoryInOrder, OnePick, Picking, database, opening, list, chat, history
<1>2. CASE \E c \in Conv, l \in Load : switchToConversation(c, l)
    BY <1>a, <1>2, Records, Listed, ConvAssumption DEF switchToConversation, TypeOK,
       LoadState, HistoryInOrder, OnePick, Picking, database, opening, list, chat,
       history
<1>3. CASE \E l \in Load : SelectionLoaded(l)
    BY <1>a, <1>3, Records, Listed, ConvAssumption DEF SelectionLoaded, TypeOK,
       LoadState, HistoryInOrder, OnePick, Picking, database, opening, list, chat,
       history
<1>4. CASE \E c \in Conv : DeleteListed(c)
    <2>1. PICK c \in Conv : DeleteListed(c)
        BY <1>4
    <2>2. UNCHANGED picks
        BY <2>1 DEF DeleteListed
    <2>3. CASE selected = c /\ c \in mine
        <3>1. overtaken' = (overtaken \/ Picking)
            BY <2>1, <2>3 DEF DeleteListed
        <3>2. ~overtaken' => \A l \in Load : picks'[l].conv = None
            BY <2>2, <3>1 DEF Picking
        <3> QED
            BY <3>2 DEF HistoryInOrder, OnePick
    <2>4. CASE ~(selected = c /\ c \in mine)
        <3>1. UNCHANGED <<selected, overtaken>>
            BY <2>1, <2>4 DEF DeleteListed
        <3> QED
            BY <1>a, <2>2, <3>1 DEF HistoryInOrder, OnePick
    <2> QED
        BY <2>3, <2>4
<1>5. CASE Reload
    BY <1>a, <1>5, Records, Listed, ConvAssumption DEF Reload, TypeOK, LoadState,
       HistoryInOrder, OnePick, Picking, database, opening, list, chat, history
<1>6. CASE UNCHANGED <<selected, picks, overtaken>>
    BY <1>a, <1>6 DEF HistoryInOrder, OnePick
<1> QED
    BY <1>0, <1>1, <1>2, <1>3, <1>4, <1>5, <1>6

LEMMA HistoryKept == IndInv /\ [Next]_vars => HistoryShowsSelection'
<1> SUFFICES ASSUME IndInv, [Next]_vars PROVE HistoryShowsSelection'
    OBVIOUS
<1>a. TypeOK /\ KeysAreWritten /\ SendShape /\ HistoryInOrder /\ HistoryShowsSelection
    BY DEF IndInv, Shape
<1>0. \/ \E v \in View : GoTo(v)
      \/ SendWrites
      \/ \E c \in Conv, l \in Load : switchToConversation(c, l)
      \/ \E l \in Load : SelectionLoaded(l)
      \/ \E c \in Conv : DeleteListed(c)
      \/ \E m \in Msg, v \in {"chat", "history"} : DeleteMessage(m, v)
      \/ Reload
      \/ UNCHANGED <<home, selected, shown, picks, overtaken>>
    BY NextIs DEF ChatListed, HistoryListed, ChatPicks, MessagesLoaded, MessagesFail,
       CreationListed, CreationListedLate, NewChat, StartSend, CreationAdds,
       CreationAddFails, CreationNotListed, CreationRemoves, SendPrepared, SendFails,
       SendPushes, handleDeleteConversation, DeleteCommits, DeleteFails,
       DeleteNotListed, vars, database, opening, list, chat, history
<1>1. CASE \E v \in View : GoTo(v)
    BY <1>a, <1>1, Records, Listed, ConvAssumption DEF GoTo, On, TypeOK, LoadState,
       SendState, KeysAreWritten, SendShape, HistoryInOrder, OnePick,
       HistoryShowsSelection, Writing, Picking, Of, database, opening, list, chat,
       history
<1>2. CASE SendWrites
    BY <1>a, <1>2, Records, Listed, ConvAssumption DEF SendWrites, TypeOK, LoadState,
       SendState, KeysAreWritten, SendShape, HistoryInOrder, OnePick,
       HistoryShowsSelection, Writing, Picking, Of, database, opening, list, chat,
       history
<1>3. CASE \E c \in Conv, l \in Load : switchToConversation(c, l)
    BY <1>a, <1>3, Records, Listed, ConvAssumption DEF switchToConversation, TypeOK,
       LoadState, SendState, KeysAreWritten, SendShape, HistoryInOrder, OnePick,
       HistoryShowsSelection, Writing, Picking, Of, database, opening, list, chat,
       history
<1>4. CASE \E l \in Load : SelectionLoaded(l)
    BY <1>a, <1>4, Records, Listed, ConvAssumption DEF SelectionLoaded, TypeOK,
       LoadState, SendState, KeysAreWritten, SendShape, HistoryInOrder, OnePick,
       HistoryShowsSelection, Writing, Picking, Of, database, opening, list, chat,
       history
<1>5. CASE \E c \in Conv : DeleteListed(c)
    BY <1>a, <1>5, Records, Listed, ConvAssumption DEF DeleteListed, ListLoaded, TypeOK,
       LoadState, SendState, KeysAreWritten, SendShape, HistoryInOrder, OnePick,
       HistoryShowsSelection, Writing, Picking, Of, database, opening, list, chat,
       history
<1>6. CASE \E m \in Msg, v \in {"chat", "history"} : DeleteMessage(m, v)
    BY <1>a, <1>6, Records, Listed, ConvAssumption DEF DeleteMessage, TypeOK, LoadState,
       SendState, KeysAreWritten, SendShape, HistoryInOrder, OnePick,
       HistoryShowsSelection, Writing, Picking, Of, database, opening, list, chat,
       history
<1>7. CASE Reload
    BY <1>a, <1>7, Records, Listed, ConvAssumption DEF Reload, TypeOK, LoadState,
       SendState, KeysAreWritten, SendShape, HistoryInOrder, OnePick,
       HistoryShowsSelection, Writing, Picking, Of, database, opening, list, chat,
       history
<1>8. CASE UNCHANGED <<home, selected, shown, picks, overtaken>>
    BY <1>a, <1>8 DEF HistoryShowsSelection, Picking
<1> QED
    BY <1>0, <1>1, <1>2, <1>3, <1>4, <1>5, <1>6, <1>7, <1>8

LEMMA ListKept == IndInv /\ [Next]_vars => ListLagsBehind'
<1> SUFFICES ASSUME IndInv, [Next]_vars PROVE ListLagsBehind'
    OBVIOUS
<1>a. TypeOK /\ KeysAreWritten /\ CreationShape /\ ListLagsBehind
    BY DEF IndInv, Shape
<1>0. \/ \E v \in View : GoTo(v)
      \/ \E i \in inits : ChatListed(i)
      \/ HistoryListed
      \/ \E l \in Load : CreationListed(l)
      \/ \E l \in Load : CreationListedLate(l)
      \/ NewChat
      \/ StartSend
      \/ \E c \in Conv : CreationAdds(c)
      \/ CreationAddFails
      \/ CreationNotListed
      \/ CreationRemoves
      \/ \E c \in Conv : handleDeleteConversation(c)
      \/ \E c \in Conv : DeleteCommits(c)
      \/ \E c \in Conv : DeleteFails(c)
      \/ \E c \in Conv : DeleteListed(c)
      \/ \E c \in Conv : DeleteNotListed(c)
      \/ Reload
      \/ UNCHANGED <<stored, conversations, creation, deleting, unlisted>>
    BY NextIs DEF ChatPicks, MessagesLoaded, MessagesFail, SendPrepared, SendWrites,
       SendFails, SendPushes, switchToConversation, SelectionLoaded, DeleteMessage,
       vars, database, opening, list, chat, history
<1>1. CASE \E v \in View : GoTo(v)
    BY <1>a, <1>1, Records, Listed, ConvAssumption DEF GoTo, On, TypeOK, CreationState,
       KeysAreWritten, CreationShape, ListLagsBehind, database, opening, list, chat,
       history
<1>2. CASE \E i \in inits : ChatListed(i)
    BY <1>a, <1>2, Records, Listed, ConvAssumption DEF ChatListed, ListLoaded,
       ListFails, TypeOK, CreationState, KeysAreWritten, CreationShape, ListLagsBehind,
       database, opening, list, chat, history
<1>3. CASE HistoryListed
    BY <1>a, <1>3, Records, Listed, ConvAssumption DEF HistoryListed, ListLoaded,
       ListFails, TypeOK, CreationState, KeysAreWritten, CreationShape, ListLagsBehind,
       database, opening, list, chat, history
<1>4. CASE \E l \in Load : CreationListed(l)
    BY <1>a, <1>4, Records, Listed, ConvAssumption DEF CreationListed, ListLoaded,
       Created, StartLoad, TypeOK, CreationState, KeysAreWritten, CreationShape,
       ListLagsBehind, database, opening, list, chat, history
<1>5. CASE \E l \in Load : CreationListedLate(l)
    BY <1>a, <1>5, Records, Listed, ConvAssumption DEF CreationListedLate, ListLoaded,
       Created, StartLoad, TypeOK, CreationState, KeysAreWritten, CreationShape,
       ListLagsBehind, database, opening, list, chat, history
<1>6. CASE NewChat
    BY <1>a, <1>6, Records, Listed, ConvAssumption DEF NewChat, AskFor, TypeOK,
       CreationState, KeysAreWritten, CreationShape, ListLagsBehind, database, opening,
       list, chat, history
<1>7. CASE StartSend
    BY <1>a, <1>7, Records, Listed, ConvAssumption DEF StartSend, AskFor, TypeOK,
       CreationState, KeysAreWritten, CreationShape, ListLagsBehind, database, opening,
       list, chat, history
<1>8. CASE \E c \in Conv : CreationAdds(c)
    BY <1>a, <1>8, Records, Listed, ConvAssumption DEF CreationAdds, TypeOK,
       CreationState, KeysAreWritten, CreationShape, ListLagsBehind, database, opening,
       list, chat, history
<1>9. CASE CreationAddFails
    BY <1>a, <1>9, Records, Listed, ConvAssumption DEF CreationAddFails, CreationEnds,
       TypeOK, CreationState, KeysAreWritten, CreationShape, ListLagsBehind, database,
       opening, list, chat, history
<1>10. CASE CreationNotListed
    BY <1>a, <1>10, Records, Listed, ConvAssumption DEF CreationNotListed, ListLoaded,
       ListFails, TypeOK, CreationState, KeysAreWritten, CreationShape, ListLagsBehind,
       database, opening, list, chat, history
<1>11. CASE CreationRemoves
    BY <1>a, <1>11, Records, Listed, ConvAssumption DEF CreationRemoves, CreationEnds,
       TypeOK, CreationState, KeysAreWritten, CreationShape, ListLagsBehind, database,
       opening, list, chat, history
<1>12. CASE \E c \in Conv : handleDeleteConversation(c)
    BY <1>a, <1>12, Records, Listed, ConvAssumption DEF handleDeleteConversation,
       TypeOK, CreationState, KeysAreWritten, CreationShape, ListLagsBehind, database,
       opening, list, chat, history
<1>13. CASE \E c \in Conv : DeleteCommits(c)
    BY <1>a, <1>13, Records, Listed, ConvAssumption DEF DeleteCommits, TypeOK,
       CreationState, KeysAreWritten, CreationShape, ListLagsBehind, database, opening,
       list, chat, history
<1>14. CASE \E c \in Conv : DeleteFails(c)
    BY <1>a, <1>14, Records, Listed, ConvAssumption DEF DeleteFails, TypeOK,
       CreationState, KeysAreWritten, CreationShape, ListLagsBehind, database, opening,
       list, chat, history
<1>15. CASE \E c \in Conv : DeleteListed(c)
    BY <1>a, <1>15, Records, Listed, ConvAssumption DEF DeleteListed, ListLoaded,
       TypeOK, CreationState, KeysAreWritten, CreationShape, ListLagsBehind, database,
       opening, list, chat, history
<1>16. CASE \E c \in Conv : DeleteNotListed(c)
    BY <1>a, <1>16, Records, Listed, ConvAssumption DEF DeleteNotListed, ListFails,
       TypeOK, CreationState, KeysAreWritten, CreationShape, ListLagsBehind, database,
       opening, list, chat, history
<1>17. CASE Reload
    BY <1>a, <1>17, Records, Listed, ConvAssumption DEF Reload, TypeOK, CreationState,
       KeysAreWritten, CreationShape, ListLagsBehind, database, opening, list, chat,
       history
<1>18. CASE UNCHANGED <<stored, conversations, creation, deleting, unlisted>>
    BY <1>a, <1>18 DEF ListLagsBehind
<1> QED
    BY <1>0, <1>1, <1>2, <1>3, <1>4, <1>5, <1>6, <1>7, <1>8, <1>9, <1>10, <1>11, <1>12,
       <1>13, <1>14, <1>15, <1>16, <1>17, <1>18

LEMMA NewbornKept == IndInv /\ [Next]_vars => NewbornIsCurrent'
<1> SUFFICES ASSUME IndInv, [Next]_vars PROVE NewbornIsCurrent'
    OBVIOUS
<1>a. TypeOK /\ KeysAreWritten /\ SendShape /\ CreationShape /\ NewbornIsCurrent
    BY DEF IndInv, Shape
<1>0. \/ \E v \in View : GoTo(v)
      \/ \E i \in inits, l \in Load : ChatPicks(i, l)
      \/ \E l \in Load : CreationListed(l)
      \/ \E l \in Load : CreationListedLate(l)
      \/ NewChat
      \/ StartSend
      \/ \E c \in Conv : CreationAdds(c)
      \/ CreationAddFails
      \/ CreationNotListed
      \/ CreationRemoves
      \/ \E m \in Msg : SendPrepared(m)
      \/ SendWrites
      \/ SendFails
      \/ SendPushes
      \/ \E c \in Conv : DeleteCommits(c)
      \/ \E m \in Msg, v \in {"chat", "history"} : DeleteMessage(m, v)
      \/ Reload
      \/ UNCHANGED <<kept, home, current, creation, send>>
    BY NextIs DEF ChatListed, HistoryListed, MessagesLoaded, MessagesFail,
       switchToConversation, SelectionLoaded, handleDeleteConversation, DeleteFails,
       DeleteListed, DeleteNotListed, vars, database, opening, list, chat, history
<1>1. CASE \E v \in View : GoTo(v)
    BY <1>a, <1>1, Records, Listed, ConvAssumption DEF GoTo, On, TypeOK, CreationState,
       SendState, KeysAreWritten, SendShape, CreationShape, NewbornIsCurrent, Writing,
       Of, database, opening, list, chat, history
<1>2. CASE \E i \in inits, l \in Load : ChatPicks(i, l)
    BY <1>a, <1>2, Records, Listed, ConvAssumption DEF ChatPicks, Latest, On, StartLoad,
       TypeOK, CreationState, SendState, KeysAreWritten, SendShape, CreationShape,
       NewbornIsCurrent, Writing, Of, database, opening, list, chat, history
<1>3. CASE \E l \in Load : CreationListed(l)
    BY <1>a, <1>3, Records, Listed, ConvAssumption DEF CreationListed, ListLoaded,
       Created, StartLoad, TypeOK, CreationState, SendState, KeysAreWritten, SendShape,
       CreationShape, NewbornIsCurrent, Writing, Of, database, opening, list, chat,
       history
<1>4. CASE \E l \in Load : CreationListedLate(l)
    BY <1>a, <1>4, Records, Listed, ConvAssumption DEF CreationListedLate, ListLoaded,
       Created, StartLoad, TypeOK, CreationState, SendState, KeysAreWritten, SendShape,
       CreationShape, NewbornIsCurrent, Writing, Of, database, opening, list, chat,
       history
<1>5. CASE NewChat
    BY <1>a, <1>5, Records, Listed, ConvAssumption DEF NewChat, AskFor, TypeOK,
       CreationState, SendState, KeysAreWritten, SendShape, CreationShape,
       NewbornIsCurrent, Writing, Of, database, opening, list, chat, history
<1>6. CASE StartSend
    BY <1>a, <1>6, SendBegins, ConvAssumption DEF AskFor, TypeOK, CreationState, CreationShape,
       NewbornIsCurrent, database
<1>7. CASE \E c \in Conv : CreationAdds(c)
    BY <1>a, <1>7, Records, Listed, ConvAssumption DEF CreationAdds, TypeOK,
       CreationState, SendState, KeysAreWritten, SendShape, CreationShape,
       NewbornIsCurrent, Writing, Of, database, opening, list, chat, history
<1>8. CASE CreationAddFails
    BY <1>a, <1>8, Records, Listed, ConvAssumption DEF CreationAddFails, CreationEnds,
       TypeOK, CreationState, SendState, KeysAreWritten, SendShape, CreationShape,
       NewbornIsCurrent, Writing, Of, database, opening, list, chat, history
<1>9. CASE CreationNotListed
    BY <1>a, <1>9, Records, Listed, ConvAssumption DEF CreationNotListed, ListLoaded,
       ListFails, TypeOK, CreationState, SendState, KeysAreWritten, SendShape,
       CreationShape, NewbornIsCurrent, Writing, Of, database, opening, list, chat,
       history
<1>10. CASE CreationRemoves
    BY <1>a, <1>10, Records, Listed, ConvAssumption DEF CreationRemoves, CreationEnds,
       TypeOK, CreationState, SendState, KeysAreWritten, SendShape, CreationShape,
       NewbornIsCurrent, Writing, Of, database, opening, list, chat, history
<1>11. CASE \E m \in Msg : SendPrepared(m)
    BY <1>a, <1>11, Records, Listed, ConvAssumption DEF SendPrepared, On, TypeOK,
       CreationState, SendState, KeysAreWritten, SendShape, CreationShape,
       NewbornIsCurrent, Writing, Of, database, opening, list, chat, history
<1>12. CASE SendWrites
    BY <1>a, <1>12, Records, Listed, ConvAssumption DEF SendWrites, TypeOK,
       CreationState, SendState, KeysAreWritten, SendShape, CreationShape,
       NewbornIsCurrent, Writing, Of, database, opening, list, chat, history
<1>13. CASE SendFails
    BY <1>a, <1>13, Records, Listed, ConvAssumption DEF SendFails, TypeOK,
       CreationState, SendState, KeysAreWritten, SendShape, CreationShape,
       NewbornIsCurrent, Writing, Of, database, opening, list, chat, history
<1>14. CASE SendPushes
    BY <1>a, <1>14, Records, Listed, ConvAssumption DEF SendPushes, TypeOK,
       CreationState, SendState, KeysAreWritten, SendShape, CreationShape,
       NewbornIsCurrent, Writing, Of, database, opening, list, chat, history
<1>15. CASE \E c \in Conv : DeleteCommits(c)
    BY <1>a, <1>15, Records, Listed, ConvAssumption DEF DeleteCommits, TypeOK,
       CreationState, SendState, KeysAreWritten, SendShape, CreationShape,
       NewbornIsCurrent, Writing, Of, database, opening, list, chat, history
<1>16. CASE \E m \in Msg, v \in {"chat", "history"} : DeleteMessage(m, v)
    BY <1>a, <1>16, Records, Listed, ConvAssumption DEF DeleteMessage, TypeOK,
       CreationState, SendState, KeysAreWritten, SendShape, CreationShape,
       NewbornIsCurrent, Writing, Of, database, opening, list, chat, history
<1>17. CASE Reload
    BY <1>a, <1>17, Records, Listed, ConvAssumption DEF Reload, TypeOK, CreationState,
       SendState, KeysAreWritten, SendShape, CreationShape, NewbornIsCurrent, Writing,
       Of, database, opening, list, chat, history
<1>18. CASE UNCHANGED <<kept, home, current, creation, send>>
    BY <1>a, <1>18 DEF NewbornIsCurrent
<1> QED
    BY <1>0, <1>1, <1>2, <1>3, <1>4, <1>5, <1>6, <1>7, <1>8, <1>9, <1>10, <1>11, <1>12,
       <1>13, <1>14, <1>15, <1>16, <1>17, <1>18

LEMMA OrphansKept == IndInv /\ Next => OrphansOnlyOfCurrent'
<1> SUFFICES ASSUME IndInv, Next PROVE OrphansOnlyOfCurrent'
    OBVIOUS
<1>a. TypeOK /\ KeysAreWritten /\ SendShape /\ CreationShape
      /\ NewbornIsCurrent /\ OrphansOnlyOfCurrent
    BY DEF IndInv, Shape
<1>b. /\ lost \subseteq lost'
      /\ \A c \in Conv \ stored' : c = current' \/ c = send'.at => c \in lost'
    BY LosesStep DEF Loses
<1>0. \/ \E c \in Conv : CreationAdds(c)
      \/ CreationRemoves
      \/ SendWrites
      \/ \E c \in Conv : DeleteCommits(c)
      \/ \E m \in Msg, v \in {"chat", "history"} : DeleteMessage(m, v)
      \/ UNCHANGED <<stored, kept, home>>
    BY NextIs DEF GoTo, ChatListed, HistoryListed, ChatPicks, MessagesLoaded,
       MessagesFail, CreationListed, CreationListedLate, NewChat, StartSend,
       CreationAddFails, CreationNotListed, SendPrepared, SendFails, SendPushes,
       switchToConversation, SelectionLoaded, handleDeleteConversation, DeleteFails,
       DeleteListed, DeleteNotListed, Reload, vars, database, opening, list, chat,
       history
<1>1. CASE \E c \in Conv : CreationAdds(c)
    BY <1>a, <1>1, Records, Listed, ConvAssumption, <1>b DEF CreationAdds, TypeOK,
       KeysAreWritten, SendShape, CreationShape, NewbornIsCurrent, OrphansOnlyOfCurrent,
       Writing, Of, database, opening, list, chat, history
<1>2. CASE CreationRemoves
    BY <1>a, <1>2, Records, Listed, ConvAssumption, <1>b DEF CreationRemoves,
       CreationEnds, TypeOK, KeysAreWritten, SendShape, CreationShape, NewbornIsCurrent,
       OrphansOnlyOfCurrent, Writing, Of, database, opening, list, chat, history
<1>3. CASE SendWrites
    BY <1>a, <1>3, Records, Listed, ConvAssumption, <1>b DEF SendWrites, TypeOK,
       KeysAreWritten, SendShape, CreationShape, NewbornIsCurrent, OrphansOnlyOfCurrent,
       Writing, Of, database, opening, list, chat, history
<1>4. CASE \E c \in Conv : DeleteCommits(c)
    BY <1>a, <1>4, Records, Listed, ConvAssumption, <1>b DEF DeleteCommits, TypeOK,
       KeysAreWritten, SendShape, CreationShape, NewbornIsCurrent, OrphansOnlyOfCurrent,
       Writing, Of, database, opening, list, chat, history
<1>5. CASE \E m \in Msg, v \in {"chat", "history"} : DeleteMessage(m, v)
    BY <1>a, <1>5, Records, Listed, ConvAssumption, <1>b DEF DeleteMessage, TypeOK,
       KeysAreWritten, SendShape, CreationShape, NewbornIsCurrent, OrphansOnlyOfCurrent,
       Writing, Of, database, opening, list, chat, history
<1>6. CASE UNCHANGED <<stored, kept, home>>
    BY <1>a, <1>6, <1>b DEF OrphansOnlyOfCurrent
<1> QED
    BY <1>0, <1>1, <1>2, <1>3, <1>4, <1>5, <1>6

LEMMA StepKeeps == IndInv /\ [Next]_vars => IndInv'
<1> SUFFICES ASSUME IndInv, [Next]_vars PROVE IndInv'
    OBVIOUS
<1>1. OrphansOnlyOfCurrent'
    <2>1. CASE Next
        BY <2>1, OrphansKept
    <2>2. CASE UNCHANGED vars
        BY <2>2 DEF vars, database, IndInv, OrphansOnlyOfCurrent
    <2> QED
        BY <2>1, <2>2
<1> QED
    BY <1>1, TypesKept, KeysKept, SendKept, CreationKept, OrderKept, ChatKept, PicksKept,
       HistoryKept, ListKept, NewbornKept DEF IndInv, Shape

LEMMA Always == Spec => []IndInv
BY InitKeeps, StepKeeps, PTL DEF Spec

-----------------------------------------------------------------------------
(* The theorems                                                            *)

\* TypeOK for any number of conversations, messages and loads; in particular
\* the store's list (use-message-management.ts) holds a message twice at most.
THEOREM ConversationsTypeCorrect == Spec => []TypeOK
<1>1. IndInv => TypeOK
    BY DEF IndInv, Shape
<1> QED
    BY <1>1, Always, PTL

\* loadMessages and the pushes of createUserMessage keep the chat's list to the
\* current conversation, through visits that are left with any of it under way,
\* unless they cross each other or what such a visit does elsewhere.
THEOREM ChatShowsItsOwn == Spec => []ChatShowsItsConversation
<1>1. IndInv => ChatShowsItsConversation
    BY DEF IndInv
<1> QED
    BY <1>1, Always, PTL

\* switchToConversation, its load and handleDeleteConversation keep the
\* history's messages to the selected conversation, unless one overtakes one.
THEOREM HistoryShowsItsOwn == Spec => []HistoryShowsSelection
<1>1. IndInv => HistoryShowsSelection
    BY DEF IndInv
<1> QED
    BY <1>1, Always, PTL

\* createConversation and deleteConversation leave the list equal to the table
\* unless a load of the list failed or a creation was taken back.
THEOREM ListFollows == Spec => []ListFollowsStore
<1>1. IndInv => ListFollowsStore
    <2> SUFFICES ASSUME IndInv, ~unlisted, creation.stage = "idle",
                        \A c \in Conv : deleting[c] = "no"
                 PROVE  conversations = stored
        BY DEF ListFollowsStore
    <2>1. ListLagsBehind /\ stored \subseteq Conv /\ conversations \subseteq Conv
        BY DEF IndInv, Shape, TypeOK
    <2> QED
        BY <2>1 DEF ListLagsBehind
<1> QED
    BY <1>1, Always, PTL

\* deleteConversationWithMessage takes the messages along: one that has no
\* conversation was written by a chat that was still on it.
THEOREM OrphansExplained == Spec => []OrphansOnlyOfCurrent
<1>1. IndInv => OrphansOnlyOfCurrent
    BY DEF IndInv
<1> QED
    BY <1>1, Always, PTL

-----------------------------------------------------------------------------
(* The database keeps to ConversationTable: every step is a step of the    *)
(* table, or one that does not touch it.                                   *)

StateOf(c) ==
    IF c \in stored THEN "stored" ELSE IF c \in born THEN "deleted" ELSE "unborn"
RowOf(m) ==
    IF m \in kept THEN "stored" ELSE IF home[m] # None THEN "deleted" ELSE "unborn"

Table == INSTANCE ConversationTable WITH
    state <- [c \in Conv |-> StateOf(c)],
    row <- [m \in Msg |-> RowOf(m)]

TableStep == [Table!Next]_(Table!vars)

\* Most steps leave the database alone.
LEMMA DatabaseStays == UNCHANGED database => TableStep
BY DEF TableStep, Table!vars, database, StateOf, RowOf

\* A new conversation.
LEMMA CreationIsAdd ==
    ASSUME IndInv, NEW c \in Conv, CreationAdds(c)
    PROVE  TableStep
<1>1. /\ c \notin born /\ stored' = stored \cup {c} /\ born' = born \cup {c}
      /\ UNCHANGED <<kept, home>>
    BY DEF CreationAdds
<1>2. stored \subseteq born
    BY DEF IndInv, Shape, TypeOK
<1>3. [d \in Conv |-> StateOf(d)]' = [[d \in Conv |-> StateOf(d)] EXCEPT ![c] = "stored"]
    BY <1>1, <1>2 DEF StateOf
<1>4. [m \in Msg |-> RowOf(m)]' = [m \in Msg |-> RowOf(m)]
    BY <1>1 DEF RowOf
<1>5. StateOf(c) = "unborn"
    BY <1>1, <1>2 DEF StateOf
<1>6. Table!Add(c)
    BY <1>1, <1>3, <1>4, <1>5 DEF Table!Add
<1> QED
    BY <1>6 DEF TableStep, Table!Next

\* A creation that is taken back, if it has not been deleted meanwhile.
LEMMA RemovalIsTakeBack ==
    ASSUME IndInv, CreationRemoves
    PROVE  TableStep
<1> DEFINE c == creation.conv
<1>1. c \in born /\ c \in Conv /\ stored \subseteq born
    BY DEF IndInv, Shape, TypeOK, CreationShape, CreationRemoves
<1>2. stored' \in {stored, stored \ {c}} /\ UNCHANGED <<born, kept, home>>
    BY DEF CreationRemoves
<1>3. CASE stored' = stored
    BY <1>2, <1>3, DatabaseStays DEF database
<1>4. CASE c \in stored /\ stored' = stored \ {c}
    <2>1. [d \in Conv |-> StateOf(d)]' = [[d \in Conv |-> StateOf(d)] EXCEPT ![c] = "deleted"]
        BY <1>1, <1>2, <1>4 DEF StateOf
    <2>2. [m \in Msg |-> RowOf(m)]' = [m \in Msg |-> RowOf(m)]
        BY <1>2 DEF RowOf
    <2>3. Table!TakeBack(c)
        BY <1>1, <1>2, <1>4, <2>1, <2>2 DEF Table!TakeBack, StateOf
    <2> QED
        BY <1>1, <2>3 DEF TableStep, Table!Next
<1>5. c \notin stored => stored \ {c} = stored
    OBVIOUS
<1> QED
    BY <1>2, <1>3, <1>4, <1>5

\* The user's row is written under a fresh key, to a conversation that has
\* been stored, even if it has been deleted since.
LEMMA SendIsWrite ==
    ASSUME IndInv, SendWrites
    PROVE  TableStep
<1> DEFINE m == send.msg
           c == send.at
<1>1. m \in Msg /\ c \in Conv /\ c \in born /\ home[m] = None /\ m \notin kept
    <2>1. send.stage = "writing" /\ KeysAreWritten /\ SendShape
        BY DEF SendWrites, IndInv, Shape
    <2>2. m \in Msg /\ c \in Conv /\ home[m] = None
        BY <2>1 DEF SendShape, Writing
    <2>3. c \in born
        BY <2>1, <2>2, ConvAssumption DEF KeysAreWritten
    <2>4. m \notin kept
        BY <2>1, <2>2 DEF KeysAreWritten
    <2> QED
        BY <2>2, <2>3, <2>4
<1>2. /\ kept' = kept \cup {m} /\ home' = [home EXCEPT ![m] = c]
      /\ UNCHANGED <<stored, born>>
    BY DEF SendWrites
<1>3. home \in [Msg -> Conv \cup {None}]
    BY DEF IndInv, Shape, TypeOK
<1> HIDE DEF m, c
<1>4. [n \in Msg |-> RowOf(n)]' = [[n \in Msg |-> RowOf(n)] EXCEPT ![m] = "stored"]
    BY <1>1, <1>2, <1>3 DEF RowOf
<1>5. [d \in Conv |-> StateOf(d)]' = [d \in Conv |-> StateOf(d)]
    BY <1>2 DEF StateOf
<1>6. RowOf(m) = "unborn" /\ StateOf(c) # "unborn"
    BY <1>1 DEF RowOf, StateOf
<1>7. Table!Write(m, c)
    BY <1>1, <1>2, <1>4, <1>5, <1>6 DEF Table!Write
<1> QED
    BY <1>1, <1>7 DEF TableStep, Table!Next

\* A deletion takes all messages of the conversation, also those of one that
\* has gone already; of one that was never stored there are none.
LEMMA CommitIsDelete ==
    ASSUME IndInv, NEW c \in Conv, DeleteCommits(c)
    PROVE  TableStep
<1>1. /\ stored' = stored \ {c} /\ kept' = kept \ Of(c)
      /\ UNCHANGED <<born, home>>
    BY DEF DeleteCommits
<1>2. /\ stored \subseteq born /\ kept \subseteq Msg
      /\ \A m \in Msg : home[m] \in born \cup {None}
      /\ \A m \in Msg : home[m] = None => m \notin kept
    BY DEF IndInv, Shape, TypeOK, KeysAreWritten
<1>3. CASE c \in born
    <2>1. [d \in Conv |-> StateOf(d)]' = [[d \in Conv |-> StateOf(d)] EXCEPT ![c] = "deleted"]
        BY <1>1, <1>2, <1>3 DEF StateOf
    <2>2. \A m \in Msg : RowOf(m)' = IF RowOf(m) = "stored" /\ home[m] = c
                                     THEN "deleted" ELSE RowOf(m)
        BY <1>1, <1>2, ConvAssumption DEF RowOf, Of
    <2>3. [m \in Msg |-> RowOf(m)]' =
            [m \in Msg |-> IF [n \in Msg |-> RowOf(n)][m] = "stored" /\ home[m] = c
                           THEN "deleted" ELSE [n \in Msg |-> RowOf(n)][m]]
        BY <2>2
    <2>4. Table!Delete(c)
        BY <1>1, <1>3, <2>1, <2>3 DEF Table!Delete, StateOf
    <2> QED
        BY <2>4 DEF TableStep, Table!Next
<1>4. CASE c \notin born
    <2>1. Of(c) = {} /\ c \notin stored
        BY <1>2, <1>4, ConvAssumption DEF Of
    <2> QED
        BY <1>1, <2>1, DatabaseStays DEF database
<1> QED
    BY <1>3, <1>4

\* A single message that is deleted.
LEMMA DropIsDeleteMessage ==
    ASSUME IndInv, NEW m \in Msg, NEW v, DeleteMessage(m, v)
    PROVE  TableStep
<1>1. m \in kept /\ kept' = kept \ {m} /\ UNCHANGED <<stored, born, home>>
    BY DEF DeleteMessage
<1>2. home[m] # None
    BY <1>1 DEF IndInv, Shape, KeysAreWritten
<1>3. [n \in Msg |-> RowOf(n)]' = [[n \in Msg |-> RowOf(n)] EXCEPT ![m] = "deleted"]
    BY <1>1, <1>2 DEF RowOf
<1>4. [d \in Conv |-> StateOf(d)]' = [d \in Conv |-> StateOf(d)]
    BY <1>1 DEF StateOf
<1>5. Table!DeleteMessage(m)
    BY <1>1, <1>3, <1>4 DEF Table!DeleteMessage, RowOf
<1> QED
    BY <1>5 DEF TableStep, Table!Next

LEMMA NextIsTableStep == IndInv /\ [Next]_vars => TableStep
<1> SUFFICES ASSUME IndInv, [Next]_vars PROVE TableStep
    OBVIOUS
<1>1. \/ \E c \in Conv : CreationAdds(c)
      \/ CreationRemoves
      \/ SendWrites
      \/ \E c \in Conv : DeleteCommits(c)
      \/ \E m \in Msg, v \in {"chat", "history"} : DeleteMessage(m, v)
      \/ UNCHANGED database
    BY NextIs DEF GoTo, ChatListed, HistoryListed, ChatPicks, MessagesLoaded,
       MessagesFail, CreationListed, CreationListedLate, NewChat, StartSend,
       CreationAddFails, CreationNotListed, SendPrepared, SendFails, SendPushes,
       switchToConversation, SelectionLoaded, handleDeleteConversation, DeleteFails,
       DeleteListed, DeleteNotListed, Reload, vars
<1> QED
    BY <1>1, CreationIsAdd, RemovalIsTakeBack, SendIsWrite, CommitIsDelete,
       DropIsDeleteMessage, DatabaseStays

\* Whatever the views do, and whenever the page is reloaded, the database goes
\* through the life cycle of ConversationTable: keys are used once, messages
\* stay where they were written, and a deletion takes all of them.
THEOREM ImplementsTable == Spec => Table!Spec
<1>1. Init => Table!Init
    BY DEF Init, Table!Init, StateOf, RowOf
<1>2. IndInv /\ [Next]_vars => [Table!Next]_(Table!vars)
    BY NextIsTableStep DEF TableStep
<1> QED
    BY <1>1, <1>2, Always, PTL DEF Spec, Table!Spec
=============================================================================
