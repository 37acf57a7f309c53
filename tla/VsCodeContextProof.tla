-------------------------- MODULE VsCodeContextProof --------------------------
(***************************************************************************)
(* Proofs about the VS Code context, for any number of files, pins, texts, *)
(* requests and chat actions.                                              *)
(***************************************************************************)
EXTENDS VsCodeContext, TLAPS

\* A send whose revision has not moved attaches what is pinned now.
UnmovedIsPinned ==
    \A s \in Send :
        sends[s].text # Empty /\ ~sends[s].moved
            => Contents(pinned) = sends[s].locked

IndInv ==
    /\ TypeOK
    /\ PinsAgree
    /\ PreviewIsOfLatest
    /\ TextIsPreviewed
    /\ UnmovedIsPinned

LEMMA IndInvIs ==
    ASSUME IndInv
    PROVE  TypeOK /\ PinsAgree /\ PreviewIsOfLatest /\ TextIsPreviewed /\ UnmovedIsPinned
BY DEF IndInv

-----------------------------------------------------------------------------
(* The initial state                                                       *)

LEMMA IdleTyped == Idle \in SendState
BY DEF Idle, SendState, Stage, Prompt

LEMMA InitKeeps == Init => IndInv
<1> SUFFICES ASSUME Init PROVE IndInv
    OBVIOUS
<1>1. TypeOK
    BY IdleTyped DEF Init, TypeOK, Prompt
<1>2. PinsAgree
    BY DEF Init, PinsAgree, Index, Full
<1>3. PreviewIsOfLatest /\ TextIsPreviewed
    BY DEF Init, PreviewIsOfLatest, TextIsPreviewed
<1>4. UnmovedIsPinned
    BY DEF Init, UnmovedIsPinned, Idle
<1> QED
    BY <1>1, <1>2, <1>3, <1>4 DEF IndInv

-----------------------------------------------------------------------------
(* Changing the pins                                                       *)

LEMMA ContentsTyped == ASSUME pinned \subseteq Entry PROVE Contents(pinned) \in SUBSET Content
BY DEF Contents, Content, Entry

LEMMA MovedTyped ==
    ASSUME NEW states \in [Send -> SendState]
    PROVE  /\ Moved(states) \in [Send -> SendState]
           /\ \A s \in Send : /\ Moved(states)[s].stage = states[s].stage
                              /\ Moved(states)[s].text = states[s].text
                              /\ Moved(states)[s].text # Empty => Moved(states)[s].moved
<1>1. \A s \in Send : [states[s] EXCEPT !.moved = (states[s].text # Empty)] \in SendState
    BY DEF SendState
<1> QED
    BY <1>1 DEF Moved, SendState

LEMMA AddKeeps ==
    ASSUME TypeOK, PinsAgree, NEW id \in Id, NEW p \in Path, NEW mode \in {"full", "snippet"},
           Fresh(id), upsertPinnedEntry(id, p, mode)
    PROVE  /\ pinned' \subseteq Entry
           /\ idsByPath' \in [Path -> SUBSET Id]
           /\ \A e, f \in pinned' : e.id = f.id => e = f
           /\ idsByPath' = Index(pinned')
           /\ Full(pinned') = IF mode = "full" THEN Full(pinned) \cup {p} ELSE Full(pinned)
           /\ sends' = Moved(sends)
<1> DEFINE new == [id |-> id, path |-> p, mode |-> mode]
<1>1. new \in Entry /\ new.id = id /\ new.path = p /\ new.mode = mode
    BY DEF Entry
<1>2. pinned' = pinned \cup {new} /\ idsByPath' = [idsByPath EXCEPT ![p] = @ \cup {id}]
    BY DEF upsertPinnedEntry
<1>3. \A e \in pinned : e.id # id
    BY DEF Fresh
<1> HIDE DEF new
<1>4. pinned' \subseteq Entry /\ \A e, f \in pinned' : e.id = f.id => e = f
    BY <1>1, <1>2, <1>3 DEF TypeOK, PinsAgree
<1>5. \A q \in Path : Index(pinned')[q] = IF q = p THEN Index(pinned)[q] \cup {id} ELSE Index(pinned)[q]
    BY <1>1, <1>2 DEF Index
<1>6. idsByPath' = Index(pinned')
    BY <1>2, <1>5 DEF TypeOK, PinsAgree, Index
<1>7. Full(pinned') = IF mode = "full" THEN Full(pinned) \cup {p} ELSE Full(pinned)
    BY <1>1, <1>2 DEF Full
<1>8. idsByPath' \in [Path -> SUBSET Id]
    BY <1>2 DEF TypeOK
<1> QED
    BY <1>2, <1>4, <1>6, <1>7, <1>8 DEF upsertPinnedEntry, bumpContextRevision

LEMMA UnpinKeeps ==
    ASSUME TypeOK, PinsAgree, NEW p \in Path, unpinLocal(p)
    PROVE  /\ pinned' \subseteq Entry /\ pinnedPaths' \subseteq Path
           /\ idsByPath' \in [Path -> SUBSET Id]
           /\ PinsAgree'
           /\ sends' = Moved(sends)
<1>1. \A e \in pinned : e.id \in Index(pinned)[p] <=> e.path = p
    BY DEF PinsAgree, Index, TypeOK, Entry
<1>2. pinned' = {e \in pinned : e.path # p}
    BY <1>1 DEF unpinLocal, PinsAgree
<1>3. \A q \in Path : Index(pinned')[q] = IF q = p THEN {} ELSE Index(pinned)[q]
    BY <1>2 DEF Index
<1>4. idsByPath' = Index(pinned')
    BY <1>3 DEF TypeOK, PinsAgree, Index, unpinLocal
<1>5. Full(pinned') = Full(pinned) \ {p}
    BY <1>2 DEF Full
<1> QED
    BY <1>2, <1>4, <1>5 DEF PinsAgree, TypeOK, unpinLocal, bumpContextRevision

LEMMA PinKeeps ==
    ASSUME TypeOK, PinsAgree, NEW p \in Path, pinFullFileLocal(p) \/ pinSnippetLocal(p)
    PROVE  /\ pinned' \subseteq Entry /\ pinnedPaths' \subseteq Path
           /\ idsByPath' \in [Path -> SUBSET Id]
           /\ PinsAgree'
           /\ sends' = Moved(sends)
<1>1. CASE pinFullFileLocal(p)
    <2>1. PICK id \in Id : Fresh(id) /\ upsertPinnedEntry(id, p, "full")
        BY <1>1 DEF pinFullFileLocal
    <2>2. pinnedPaths' = pinnedPaths \cup {p}
        BY <1>1 DEF pinFullFileLocal
    <2> QED
        BY <2>1, <2>2, AddKeeps DEF PinsAgree, TypeOK
<1>2. CASE pinSnippetLocal(p)
    <2>1. PICK id \in Id : Fresh(id) /\ upsertPinnedEntry(id, p, "snippet")
        BY <1>2 DEF pinSnippetLocal
    <2>2. pinnedPaths' = pinnedPaths
        BY <1>2 DEF pinSnippetLocal
    <2> QED
        BY <2>1, <2>2, AddKeeps DEF PinsAgree, TypeOK
<1> QED
    BY <1>1, <1>2

LEMMA SnapshotKeeps ==
    ASSUME NEW entries \in SUBSET Entry, applySnapshot(entries)
    PROVE  /\ pinned' \subseteq Entry /\ pinnedPaths' \subseteq Path
           /\ idsByPath' \in [Path -> SUBSET Id]
           /\ PinsAgree'
           /\ sends' = Moved(sends)
BY DEF applySnapshot, PinsAgree, Index, Full, Entry, bumpContextRevision

LEMMA ClearKeeps ==
    ASSUME clearAllState
    PROVE  /\ pinned' \subseteq Entry /\ pinnedPaths' \subseteq Path
           /\ idsByPath' \in [Path -> SUBSET Id]
           /\ PinsAgree'
BY DEF clearAllState, PinsAgree, Index, Full

LEMMA WatchSees ==
    ASSUME Watch, UNCHANGED <<open, lastPreview>>, TextIsPreviewed
    PROVE  TextIsPreviewed'
<1> SUFFICES ASSUME open', ~due', ~isChatStreaming', ~busy' PROVE lastPreview' = text'
    BY DEF TextIsPreviewed
<1>1. ~due /\ <<text, isChatStreaming, busy>>' = <<text, isChatStreaming, busy>>
    BY DEF Watch
<1>2. text' = text /\ busy' = busy /\ isChatStreaming' = isChatStreaming
    BY <1>1
<1>3. ~isChatStreaming /\ ~busy
    BY <1>2
<1> QED
    BY <1>1, <1>2, <1>3 DEF TextIsPreviewed

LEMMA WatchTyped == ASSUME Watch, due \in BOOLEAN PROVE due' \in BOOLEAN
BY DEF Watch

-----------------------------------------------------------------------------
(* Each part of the invariant is kept                                      *)

LEMMA TypesKept == IndInv /\ [Next]_vars => TypeOK'
<1> SUFFICES ASSUME IndInv, [Next]_vars PROVE TypeOK'
    OBVIOUS
<1>a. TypeOK /\ PinsAgree
    BY DEF IndInv
<1>1. CASE \E p \in Path : toggleLocked(p)
    <2>1. PICK p \in Path : toggleLocked(p)
        BY <1>1
    <2>2. unpinLocal(p) \/ pinFullFileLocal(p)
        BY <2>1 DEF toggleLocked
    <2> QED
        BY <1>a, <2>1, <2>2, PinKeeps, UnpinKeeps, MovedTyped, WatchTyped
        DEF toggleLocked, TypeOK, answers, asking, view
<1>2. CASE \E p \in Path : ReceivePin(p)
    <2>1. PICK p \in Path : ReceivePin(p)
        BY <1>2
    <2> QED
        BY <1>a, <2>1, PinKeeps, MovedTyped, WatchTyped DEF ReceivePin, TypeOK, answers, asking, view
<1>3. CASE \E p \in Path : removePinned(p)
    <2>1. PICK p \in Path : removePinned(p)
        BY <1>3
    <2> QED
        BY <1>a, <2>1, UnpinKeeps, MovedTyped, WatchTyped DEF removePinned, TypeOK, answers, asking, view
<1>4. CASE \E p \in Path : removeSuggested(p)
    BY <1>a, <1>4, MovedTyped, WatchTyped
    DEF removeSuggested, bumpContextRevision, TypeOK, Suggestion, pins, asking, view
<1>5. CASE \E entries \in SUBSET Entry : applySnapshot(entries)
    <2>1. PICK entries \in SUBSET Entry : applySnapshot(entries)
        BY <1>5
    <2> QED
        BY <1>a, <2>1, SnapshotKeeps, MovedTyped, WatchTyped DEF applySnapshot, TypeOK, answers, asking, view
<1>6. CASE clearAllContext
    <2>1. clearAllState /\ sends' = Moved(sends) /\ Watch
        BY <1>6 DEF clearAllContext, bumpContextRevision
    <2> QED
        BY <1>a, <1>6, <2>1, ClearKeeps, MovedTyped, WatchTyped
        DEF clearAllContext, clearAllState, TypeOK, asking, view
<1>7. CASE \E t \in Prompt : Type(t)
    BY <1>a, <1>7, WatchTyped DEF Type, TypeOK, pins, answers, asking, view
<1>8. CASE LoadMessages
    BY <1>a, <1>8, WatchTyped DEF LoadMessages, TypeOK, pins, answers, asking, view
<1>9. CASE PreviewSkips
    BY <1>a, <1>9 DEF PreviewSkips, TypeOK, Prompt, pins, answers, asking, view
<1>10. CASE Preview
    BY <1>a, <1>10 DEF Preview, PreviewDue, refreshSuggestions, TypeOK, Prompt, pins, view
<1>11. CASE \E t \in Prompt : LeftPreview(t)
    BY <1>a, <1>11 DEF LeftPreview, refreshSuggestions, TypeOK, Prompt, pins, view
<1>12. CASE \E r \in Request, files \in SUBSET Path : SuggestionsArrive(r, files)
    <2>1. PICK r \in Request, files \in SUBSET Path : SuggestionsArrive(r, files)
        BY <1>12
    <2>2. requests[r] \in Text /\ requests' \in [Request -> Text \cup {None}]
        BY <1>a, <2>1 DEF SuggestionsArrive, TypeOK
    <2>3. Unpinned(files, requests[r]) \subseteq Suggestion
        BY <2>2 DEF Unpinned, Suggestion
    <2> QED
        BY <1>a, <2>1, <2>2, <2>3 DEF SuggestionsArrive, TypeOK, pins, view
<1>13. CASE \E r \in Request : SuggestionsFail(r)
    BY <1>a, <1>13 DEF SuggestionsFail, TypeOK, Prompt, pins, answers, asking, view
<1>14. CASE \E s \in Send : handleSendMessage(s)
    <2>1. PICK s \in Send : handleSendMessage(s)
        BY <1>14
    <2> DEFINE new == [stage |-> "storing", text |-> text, locked |-> Contents(pinned),
                       moved |-> FALSE, here |-> TRUE]
    <2>2. new \in SendState
        BY <1>a, ContentsTyped DEF TypeOK, SendState, Stage, Prompt
    <2>3. sends' = [sends EXCEPT ![s] = new]
        BY <2>1 DEF handleSendMessage
    <2> HIDE DEF new
    <2>4. sends' \in [Send -> SendState]
        BY <1>a, <2>2, <2>3 DEF TypeOK
    <2>5. text' \in Prompt
        BY <2>1 DEF handleSendMessage, Prompt
    <2> QED
        BY <1>a, <2>1, <2>4, <2>5, WatchTyped DEF handleSendMessage, TypeOK, pins, answers, asking, view
<1>15. CASE \E s \in Send : Regenerate(s)
    <2>1. PICK s \in Send : Regenerate(s)
        BY <1>15
    <2>2. [Idle EXCEPT !.stage = "storing"] \in SendState
        BY <1>a, IdleTyped, ContentsTyped DEF TypeOK, SendState, Stage, Prompt, Idle
    <2>3. sends' = [sends EXCEPT ![s] = [Idle EXCEPT !.stage = "storing"]]
        BY <1>a, <2>1 DEF Regenerate, Proceed, Idle
    <2> QED
        BY <1>a, <2>1, <2>2, <2>3, WatchTyped DEF Regenerate, Proceed, TypeOK, pins, answers, asking, view, SendState
<1>16. CASE Mount
    BY <1>a, <1>16 DEF Mount, TypeOK, pins, answers, asking, view
<1>23. CASE Leave
    <2>1. sends' \in [Send -> SendState]
        BY <1>a, <1>23 DEF Leave, TypeOK, SendState
    <2>2. leftover' \subseteq Prompt
        BY <1>a, <1>23 DEF Leave, TypeOK
    <2> QED
        BY <1>a, <1>23, <2>1, <2>2 DEF Leave, TypeOK, Prompt, pins
<1>17. CASE \E s \in Send : StartStreaming(s)
    <2>1. PICK s \in Send : StartStreaming(s)
        BY <1>17
    <2>2. [sends[s] EXCEPT !.stage = "streaming"] \in SendState
        BY <1>a, IdleTyped, ContentsTyped DEF TypeOK, SendState, Stage, Prompt, Idle
    <2>3. sends' = [sends EXCEPT ![s] = [sends[s] EXCEPT !.stage = "streaming"]]
        BY <1>a, <2>1 DEF StartStreaming, Proceed, Idle
    <2> QED
        BY <1>a, <2>1, <2>2, <2>3, WatchTyped DEF StartStreaming, Proceed, TypeOK, pins, answers, asking, view, SendState
<1>18. CASE \E s \in Send : StopStreaming(s)
    <2>1. PICK s \in Send : StopStreaming(s)
        BY <1>18
    <2>2. [sends[s] EXCEPT !.stage = "closing"] \in SendState
        BY <1>a, IdleTyped, ContentsTyped DEF TypeOK, SendState, Stage, Prompt, Idle
    <2>3. sends' = [sends EXCEPT ![s] = [sends[s] EXCEPT !.stage = "closing"]]
        BY <1>a, <2>1 DEF StopStreaming, Proceed, Idle
    <2> QED
        BY <1>a, <2>1, <2>2, <2>3, WatchTyped DEF StopStreaming, Proceed, TypeOK, pins, answers, asking, view, SendState
<1>19. CASE \E s \in Send : RegenerateEnds(s)
    <2>1. PICK s \in Send : RegenerateEnds(s)
        BY <1>19
    <2>2. Idle \in SendState
        BY <1>a, IdleTyped, ContentsTyped DEF TypeOK, SendState, Stage, Prompt, Idle
    <2>3. sends' = [sends EXCEPT ![s] = Idle]
        BY <1>a, <2>1 DEF RegenerateEnds, Proceed, Idle
    <2> QED
        BY <1>a, <2>1, <2>2, <2>3, WatchTyped DEF RegenerateEnds, Proceed, TypeOK, pins, answers, asking, view, SendState
<1>20. CASE \E s \in Send : SendFails(s)
    <2>1. PICK s \in Send : SendFails(s)
        BY <1>20
    <2>2. Idle \in SendState
        BY <1>a, IdleTyped, ContentsTyped DEF TypeOK, SendState, Stage, Prompt, Idle
    <2>3. sends' = [sends EXCEPT ![s] = Idle]
        BY <1>a, <2>1 DEF SendFails, Proceed, Idle
    <2> QED
        BY <1>a, <2>1, <2>2, <2>3, WatchTyped DEF SendFails, Proceed, TypeOK, pins, answers, asking, view, SendState
<1>21. CASE \E s \in Send : SendSucceeds(s)
    <2>1. PICK s \in Send : SendSucceeds(s)
        BY <1>21
    <2>2. [sends EXCEPT ![s] = Idle] \in [Send -> SendState]
        BY <1>a, IdleTyped DEF TypeOK
    <2>3. sends' \in [Send -> SendState] /\ due' \in BOOLEAN
        BY <1>a, <2>1, <2>2, MovedTyped, WatchTyped DEF SendSucceeds, TypeOK
    <2>4. CASE clearAllState
        BY <1>a, <2>1, <2>3, <2>4, ClearKeeps DEF SendSucceeds, clearAllState, TypeOK, asking, view
    <2>5. CASE UNCHANGED <<pins, suggested, contextError>>
        BY <1>a, <2>1, <2>3, <2>5 DEF SendSucceeds, TypeOK, pins, asking, view
    <2> QED
        BY <2>1, <2>4, <2>5 DEF SendSucceeds
<1>22. CASE UNCHANGED vars
    BY <1>a, <1>22 DEF vars, pins, answers, asking, view, TypeOK
<1> QED
    BY <1>1, <1>2, <1>3, <1>4, <1>5, <1>6, <1>7, <1>8, <1>9, <1>10, <1>11, <1>12, <1>13,
       <1>14, <1>15, <1>16, <1>17, <1>18, <1>19, <1>20, <1>21, <1>22, <1>23 DEF Next

LEMMA PinsKept == IndInv /\ [Next]_vars => PinsAgree'
<1> SUFFICES ASSUME IndInv, [Next]_vars PROVE PinsAgree'
    OBVIOUS
<1>a. TypeOK /\ PinsAgree
    BY DEF IndInv
<1>1. CASE \E p \in Path : toggleLocked(p)
    <2>1. PICK p \in Path : unpinLocal(p) \/ pinFullFileLocal(p)
        BY <1>1 DEF toggleLocked
    <2> QED
        BY <1>a, <2>1, PinKeeps, UnpinKeeps
<1>2. CASE \E p \in Path : ReceivePin(p)
    BY <1>a, <1>2, PinKeeps DEF ReceivePin
<1>3. CASE \E p \in Path : removePinned(p)
    BY <1>a, <1>3, UnpinKeeps DEF removePinned
<1>4. CASE \E p \in Path : removeSuggested(p)
    BY <1>a, <1>4 DEF removeSuggested, pins, PinsAgree
<1>5. CASE \E entries \in SUBSET Entry : applySnapshot(entries)
    BY <1>5, SnapshotKeeps
<1>6. CASE clearAllContext
    BY <1>6, ClearKeeps DEF clearAllContext
<1>7. CASE \E t \in Prompt : Type(t)
    BY <1>a, <1>7 DEF Type, pins, PinsAgree
<1>8. CASE LoadMessages
    BY <1>a, <1>8 DEF LoadMessages, pins, PinsAgree
<1>9. CASE PreviewSkips
    BY <1>a, <1>9 DEF PreviewSkips, pins, PinsAgree
<1>10. CASE Preview
    BY <1>a, <1>10 DEF Preview, pins, PinsAgree
<1>11. CASE \E t \in Prompt : LeftPreview(t)
    BY <1>a, <1>11 DEF LeftPreview, pins, PinsAgree
<1>12. CASE \E r \in Request, files \in SUBSET Path : SuggestionsArrive(r, files)
    BY <1>a, <1>12 DEF SuggestionsArrive, pins, PinsAgree
<1>13. CASE \E r \in Request : SuggestionsFail(r)
    BY <1>a, <1>13 DEF SuggestionsFail, pins, PinsAgree
<1>14. CASE \E s \in Send : handleSendMessage(s)
    BY <1>a, <1>14 DEF handleSendMessage, pins, PinsAgree
<1>15. CASE \E s \in Send : Regenerate(s)
    BY <1>a, <1>15 DEF Regenerate, pins, PinsAgree
<1>16. CASE Mount
    BY <1>a, <1>16 DEF Mount, pins, PinsAgree
<1>23. CASE Leave
    BY <1>a, <1>23 DEF Leave, pins, PinsAgree
<1>17. CASE \E s \in Send : StartStreaming(s)
    BY <1>a, <1>17 DEF StartStreaming, Proceed, pins, PinsAgree
<1>18. CASE \E s \in Send : StopStreaming(s)
    BY <1>a, <1>18 DEF StopStreaming, Proceed, pins, PinsAgree
<1>19. CASE \E s \in Send : RegenerateEnds(s)
    BY <1>a, <1>19 DEF RegenerateEnds, pins, PinsAgree
<1>20. CASE \E s \in Send : SendFails(s)
    BY <1>a, <1>20 DEF SendFails, pins, PinsAgree
<1>21. CASE \E s \in Send : SendSucceeds(s)
    <2>1. clearAllState \/ UNCHANGED pins
        BY <1>21 DEF SendSucceeds
    <2> QED
        BY <1>a, <2>1, ClearKeeps DEF pins, PinsAgree
<1>22. CASE UNCHANGED vars
    BY <1>a, <1>22 DEF vars, pins, PinsAgree
<1> QED
    BY <1>1, <1>2, <1>3, <1>4, <1>5, <1>6, <1>7, <1>8, <1>9, <1>10, <1>11, <1>12, <1>13,
       <1>14, <1>15, <1>16, <1>17, <1>18, <1>19, <1>20, <1>21, <1>22, <1>23 DEF Next

LEMMA PreviewKept == IndInv /\ [Next]_vars => PreviewIsOfLatest'
<1> SUFFICES ASSUME IndInv, [Next]_vars PROVE PreviewIsOfLatest'
    OBVIOUS
<1>a. TypeOK /\ PreviewIsOfLatest
    BY DEF IndInv
<1>1. CASE \E p \in Path : toggleLocked(p)
    BY <1>a, <1>1 DEF toggleLocked, answers, asking, view, PreviewIsOfLatest
<1>2. CASE \E p \in Path : ReceivePin(p)
    BY <1>a, <1>2 DEF ReceivePin, answers, asking, view, PreviewIsOfLatest
<1>3. CASE \E p \in Path : removePinned(p)
    BY <1>a, <1>3 DEF removePinned, answers, asking, view, PreviewIsOfLatest
<1>4. CASE \E p \in Path : removeSuggested(p)
    BY <1>a, <1>4 DEF removeSuggested, answers, asking, view, PreviewIsOfLatest
<1>5. CASE \E entries \in SUBSET Entry : applySnapshot(entries)
    BY <1>a, <1>5 DEF applySnapshot, answers, asking, view, PreviewIsOfLatest
<1>6. CASE clearAllContext
    BY <1>a, <1>6 DEF clearAllContext, clearAllState, answers, asking, view, PreviewIsOfLatest
<1>7. CASE \E t \in Prompt : Type(t)
    BY <1>a, <1>7 DEF Type, answers, asking, view, PreviewIsOfLatest
<1>8. CASE LoadMessages
    BY <1>a, <1>8 DEF LoadMessages, answers, asking, view, PreviewIsOfLatest
<1>9. CASE PreviewSkips
    BY <1>a, <1>9 DEF PreviewSkips, answers, asking, view, PreviewIsOfLatest
<1>10. CASE Preview
    BY <1>a, <1>10, ContextAssumption
    DEF Preview, PreviewDue, refreshSuggestions, PreviewIsOfLatest, TypeOK, Prompt
<1>11. CASE \E t \in Prompt : LeftPreview(t)
    BY <1>a, <1>11, ContextAssumption
    DEF LeftPreview, refreshSuggestions, PreviewIsOfLatest, TypeOK, Prompt
<1>12. CASE \E r \in Request, files \in SUBSET Path : SuggestionsArrive(r, files)
    BY <1>a, <1>12, ContextAssumption
    DEF SuggestionsArrive, Unpinned, view, PreviewIsOfLatest, TypeOK, Prompt
<1>13. CASE \E r \in Request : SuggestionsFail(r)
    BY <1>a, <1>13, ContextAssumption
    DEF SuggestionsFail, view, PreviewIsOfLatest, TypeOK, Prompt
<1>14. CASE \E s \in Send : handleSendMessage(s)
    BY <1>a, <1>14 DEF handleSendMessage, answers, asking, view, PreviewIsOfLatest
<1>15. CASE \E s \in Send : Regenerate(s)
    BY <1>a, <1>15 DEF Regenerate, answers, asking, view, PreviewIsOfLatest
<1>16. CASE Mount
    BY <1>a, <1>16 DEF Mount, answers, asking, PreviewIsOfLatest
<1>23. CASE Leave
    BY <1>a, <1>23 DEF Leave, PreviewIsOfLatest
<1>17. CASE \E s \in Send : StartStreaming(s)
    BY <1>a, <1>17 DEF StartStreaming, Proceed, answers, asking, view, PreviewIsOfLatest
<1>18. CASE \E s \in Send : StopStreaming(s)
    BY <1>a, <1>18 DEF StopStreaming, Proceed, answers, asking, view, PreviewIsOfLatest
<1>19. CASE \E s \in Send : RegenerateEnds(s)
    BY <1>a, <1>19 DEF RegenerateEnds, answers, asking, view, PreviewIsOfLatest
<1>20. CASE \E s \in Send : SendFails(s)
    BY <1>a, <1>20 DEF SendFails, answers, asking, view, PreviewIsOfLatest
<1>21. CASE \E s \in Send : SendSucceeds(s)
    BY <1>a, <1>21 DEF SendSucceeds, clearAllState, answers, asking, view, PreviewIsOfLatest
<1>22. CASE UNCHANGED vars
    BY <1>a, <1>22 DEF vars, answers, asking, view, PreviewIsOfLatest
<1> QED
    BY <1>1, <1>2, <1>3, <1>4, <1>5, <1>6, <1>7, <1>8, <1>9, <1>10, <1>11, <1>12, <1>13,
       <1>14, <1>15, <1>16, <1>17, <1>18, <1>19, <1>20, <1>21, <1>22, <1>23 DEF Next

LEMMA TextKept == IndInv /\ [Next]_vars => TextIsPreviewed'
<1> SUFFICES ASSUME IndInv, [Next]_vars PROVE TextIsPreviewed'
    OBVIOUS
<1>a. TypeOK /\ TextIsPreviewed
    BY DEF IndInv
<1>1. CASE \E p \in Path : toggleLocked(p)
    <2>1. Watch /\ UNCHANGED <<open, lastPreview>>
        BY <1>1 DEF toggleLocked, view
    <2> QED
        BY <1>a, <2>1, WatchSees
<1>2. CASE \E p \in Path : ReceivePin(p)
    <2>1. Watch /\ UNCHANGED <<open, lastPreview>>
        BY <1>2 DEF ReceivePin, view
    <2> QED
        BY <1>a, <2>1, WatchSees
<1>3. CASE \E p \in Path : removePinned(p)
    <2>1. Watch /\ UNCHANGED <<open, lastPreview>>
        BY <1>3 DEF removePinned, view
    <2> QED
        BY <1>a, <2>1, WatchSees
<1>4. CASE \E p \in Path : removeSuggested(p)
    <2>1. Watch /\ UNCHANGED <<open, lastPreview>>
        BY <1>4 DEF removeSuggested, view
    <2> QED
        BY <1>a, <2>1, WatchSees
<1>5. CASE \E entries \in SUBSET Entry : applySnapshot(entries)
    <2>1. Watch /\ UNCHANGED <<open, lastPreview>>
        BY <1>5 DEF applySnapshot, view
    <2> QED
        BY <1>a, <2>1, WatchSees
<1>6. CASE clearAllContext
    <2>1. Watch /\ UNCHANGED <<open, lastPreview>>
        BY <1>6 DEF clearAllContext, view
    <2> QED
        BY <1>a, <2>1, WatchSees
<1>7. CASE \E t \in Prompt : Type(t)
    <2>1. Watch /\ UNCHANGED <<open, lastPreview>>
        BY <1>7 DEF Type, view
    <2> QED
        BY <1>a, <2>1, WatchSees
<1>8. CASE LoadMessages
    <2>1. Watch /\ UNCHANGED <<open, lastPreview>>
        BY <1>8 DEF LoadMessages, view
    <2> QED
        BY <1>a, <2>1, WatchSees
<1>9. CASE PreviewSkips
    BY <1>a, <1>9 DEF PreviewSkips, PreviewDue, TextIsPreviewed, isChatStreaming, view
<1>10. CASE Preview
    BY <1>a, <1>10 DEF Preview, PreviewDue, TextIsPreviewed, isChatStreaming, view
<1>11. CASE \E t \in Prompt : LeftPreview(t)
    BY <1>a, <1>11 DEF LeftPreview, PreviewDue, TextIsPreviewed, isChatStreaming, view
<1>12. CASE \E r \in Request, files \in SUBSET Path : SuggestionsArrive(r, files)
    BY <1>a, <1>12 DEF SuggestionsArrive, PreviewDue, TextIsPreviewed, isChatStreaming, view
<1>13. CASE \E r \in Request : SuggestionsFail(r)
    BY <1>a, <1>13 DEF SuggestionsFail, PreviewDue, TextIsPreviewed, isChatStreaming, view
<1>14. CASE \E s \in Send : handleSendMessage(s)
    <2>1. Watch /\ UNCHANGED <<open, lastPreview>>
        BY <1>14 DEF handleSendMessage, view
    <2> QED
        BY <1>a, <2>1, WatchSees
<1>15. CASE \E s \in Send : Regenerate(s)
    <2>1. Watch /\ UNCHANGED <<open, lastPreview>>
        BY <1>15 DEF Regenerate, view
    <2> QED
        BY <1>a, <2>1, WatchSees
<1>16. CASE Mount
    BY <1>16 DEF Mount, TextIsPreviewed
<1>23. CASE Leave
    BY <1>23 DEF Leave, TextIsPreviewed
<1>17. CASE \E s \in Send : StartStreaming(s)
    <2>1. Watch /\ UNCHANGED <<open, lastPreview>>
        BY <1>17 DEF StartStreaming, Proceed, view
    <2> QED
        BY <1>a, <2>1, WatchSees
<1>18. CASE \E s \in Send : StopStreaming(s)
    <2>1. Watch /\ UNCHANGED <<open, lastPreview>>
        BY <1>18 DEF StopStreaming, Proceed, view
    <2> QED
        BY <1>a, <2>1, WatchSees
<1>19. CASE \E s \in Send : RegenerateEnds(s)
    <2>1. Watch /\ UNCHANGED <<open, lastPreview>>
        BY <1>19 DEF RegenerateEnds, view
    <2> QED
        BY <1>a, <2>1, WatchSees
<1>20. CASE \E s \in Send : SendFails(s)
    <2>1. Watch /\ UNCHANGED <<open, lastPreview>>
        BY <1>20 DEF SendFails, view
    <2> QED
        BY <1>a, <2>1, WatchSees
<1>21. CASE \E s \in Send : SendSucceeds(s)
    <2>1. Watch /\ UNCHANGED <<open, lastPreview>>
        BY <1>21 DEF SendSucceeds, view
    <2> QED
        BY <1>a, <2>1, WatchSees
<1>22. CASE UNCHANGED vars
    BY <1>a, <1>22 DEF vars, TextIsPreviewed, isChatStreaming, view
<1> QED
    BY <1>1, <1>2, <1>3, <1>4, <1>5, <1>6, <1>7, <1>8, <1>9, <1>10, <1>11, <1>12, <1>13,
       <1>14, <1>15, <1>16, <1>17, <1>18, <1>19, <1>20, <1>21, <1>22, <1>23 DEF Next

LEMMA PinnedKept == IndInv /\ [Next]_vars => UnmovedIsPinned'
<1> SUFFICES ASSUME IndInv, [Next]_vars PROVE UnmovedIsPinned'
    OBVIOUS
<1>a. TypeOK /\ PinsAgree /\ UnmovedIsPinned
    BY DEF IndInv
<1>1. CASE \E p \in Path : toggleLocked(p)
    <2>1. sends' = Moved(sends)
        BY <1>a, <1>1, PinKeeps, UnpinKeeps DEF toggleLocked, bumpContextRevision
    <2> QED
        BY <1>a, <2>1, MovedTyped DEF TypeOK, UnmovedIsPinned
<1>2. CASE \E p \in Path : ReceivePin(p)
    <2>1. sends' = Moved(sends)
        BY <1>a, <1>2, PinKeeps DEF ReceivePin, bumpContextRevision
    <2> QED
        BY <1>a, <2>1, MovedTyped DEF TypeOK, UnmovedIsPinned
<1>3. CASE \E p \in Path : removePinned(p)
    <2>1. sends' = Moved(sends)
        BY <1>a, <1>3, UnpinKeeps DEF removePinned, bumpContextRevision
    <2> QED
        BY <1>a, <2>1, MovedTyped DEF TypeOK, UnmovedIsPinned
<1>4. CASE \E p \in Path : removeSuggested(p)
    <2>1. sends' = Moved(sends)
        BY <1>a, <1>4 DEF removeSuggested, bumpContextRevision
    <2> QED
        BY <1>a, <2>1, MovedTyped DEF TypeOK, UnmovedIsPinned
<1>5. CASE \E entries \in SUBSET Entry : applySnapshot(entries)
    <2>1. sends' = Moved(sends)
        BY <1>a, <1>5 DEF applySnapshot, bumpContextRevision
    <2> QED
        BY <1>a, <2>1, MovedTyped DEF TypeOK, UnmovedIsPinned
<1>6. CASE clearAllContext
    <2>1. sends' = Moved(sends)
        BY <1>a, <1>6 DEF clearAllContext, bumpContextRevision
    <2> QED
        BY <1>a, <2>1, MovedTyped DEF TypeOK, UnmovedIsPinned
<1>7. CASE \E t \in Prompt : Type(t)
    BY <1>a, <1>7 DEF Type, pins, TypeOK, SendState, UnmovedIsPinned
<1>8. CASE LoadMessages
    BY <1>a, <1>8 DEF LoadMessages, pins, TypeOK, SendState, UnmovedIsPinned
<1>9. CASE PreviewSkips
    BY <1>a, <1>9 DEF PreviewSkips, pins, TypeOK, SendState, UnmovedIsPinned
<1>10. CASE Preview
    BY <1>a, <1>10 DEF Preview, pins, TypeOK, SendState, UnmovedIsPinned
<1>11. CASE \E t \in Prompt : LeftPreview(t)
    BY <1>a, <1>11 DEF LeftPreview, pins, TypeOK, SendState, UnmovedIsPinned
<1>12. CASE \E r \in Request, files \in SUBSET Path : SuggestionsArrive(r, files)
    BY <1>a, <1>12 DEF SuggestionsArrive, pins, TypeOK, SendState, UnmovedIsPinned
<1>13. CASE \E r \in Request : SuggestionsFail(r)
    BY <1>a, <1>13 DEF SuggestionsFail, pins, TypeOK, SendState, UnmovedIsPinned
<1>14. CASE \E s \in Send : handleSendMessage(s)
    BY <1>a, <1>14 DEF handleSendMessage, pins, TypeOK, SendState, UnmovedIsPinned
<1>15. CASE \E s \in Send : Regenerate(s)
    BY <1>a, <1>15 DEF Regenerate, Idle, pins, TypeOK, SendState, UnmovedIsPinned
<1>16. CASE Mount
    BY <1>a, <1>16 DEF Mount, pins, UnmovedIsPinned
<1>23. CASE Leave
    BY <1>a, <1>23 DEF Leave, pins, TypeOK, SendState, UnmovedIsPinned
<1>17. CASE \E s \in Send : StartStreaming(s)
    BY <1>a, <1>17 DEF StartStreaming, Proceed, pins, TypeOK, SendState, UnmovedIsPinned
<1>18. CASE \E s \in Send : StopStreaming(s)
    BY <1>a, <1>18 DEF StopStreaming, Proceed, pins, TypeOK, SendState, UnmovedIsPinned
<1>19. CASE \E s \in Send : RegenerateEnds(s)
    BY <1>a, <1>19 DEF RegenerateEnds, Idle, pins, TypeOK, SendState, UnmovedIsPinned
<1>20. CASE \E s \in Send : SendFails(s)
    BY <1>a, <1>20 DEF SendFails, Idle, pins, TypeOK, SendState, UnmovedIsPinned
<1>21. CASE \E s \in Send : SendSucceeds(s)
    <2>1. PICK s \in Send : SendSucceeds(s)
        BY <1>21
    <2>2. [sends EXCEPT ![s] = Idle] \in [Send -> SendState]
        BY <1>a, IdleTyped DEF TypeOK
    <2>3. CASE sends' = Moved([sends EXCEPT ![s] = Idle])
        BY <2>2, <2>3, MovedTyped DEF UnmovedIsPinned
    <2>4. CASE sends' = [sends EXCEPT ![s] = Idle] /\ pinned' = pinned
        BY <1>a, <2>4 DEF TypeOK, UnmovedIsPinned, Idle
    <2> QED
        BY <2>1, <2>3, <2>4 DEF SendSucceeds, pins
<1>22. CASE UNCHANGED vars
    BY <1>a, <1>22 DEF vars, pins, TypeOK, SendState, UnmovedIsPinned
<1> QED
    BY <1>1, <1>2, <1>3, <1>4, <1>5, <1>6, <1>7, <1>8, <1>9, <1>10, <1>11, <1>12, <1>13,
       <1>14, <1>15, <1>16, <1>17, <1>18, <1>19, <1>20, <1>21, <1>22, <1>23 DEF Next

LEMMA StepKeeps == IndInv /\ [Next]_vars => IndInv'
BY TypesKept, PinsKept, PreviewKept, TextKept, PinnedKept DEF IndInv

\* The inductive invariant holds.
LEMMA Invariance == Spec => []IndInv
BY InitKeeps, StepKeeps, PTL DEF Spec

-----------------------------------------------------------------------------
(* The theorems                                                            *)

\* The variables have their types: what the store keeps of pins, requests and
\* sends is well formed whatever the extension says.
THEOREM ContextTypeCorrect == Spec => []TypeOK
<1>1. IndInv => TypeOK
    BY DEF IndInv
<1> QED
    BY <1>1, Invariance, PTL

\* The entries, the index by path and the list of locked files agree, whatever
\* toggles, pins, snapshots, removals and clearings follow each other.
THEOREM PinsConsistent == Spec => []PinsAgree
<1>1. IndInv => PinsAgree
    BY DEF IndInv
<1> QED
    BY <1>1, Invariance, PTL

\* The spinner stands for the last question and what is shown is its answer,
\* however many requests overtake each other and whichever view asked.
THEOREM PreviewOfLatest == Spec => []PreviewIsOfLatest
<1>1. IndInv => PreviewIsOfLatest
    BY DEF IndInv
<1> QED
    BY <1>1, Invariance, PTL

\* A text typed or restored while the view was busy is previewed afterwards.
THEOREM TextNotForgotten == Spec => []TextIsPreviewed
<1>1. IndInv => TextIsPreviewed
    BY DEF IndInv
<1> QED
    BY <1>1, Invariance, PTL

\* A send that clears the context discards only the pins it took along.
THEOREM SendSparesLaterPins == Spec => ClearsOnlyWhatItSent
<1>1. ASSUME IndInv, [Next]_vars, NEW s \in Send,
             sends[s].stage = "closing", sends'[s].stage = "idle", pinned' # pinned
      PROVE  Contents(pinned) = sends[s].locked
    <2>1. TypeOK /\ UnmovedIsPinned
        BY <1>1 DEF IndInv
    <2>2. sends' # Moved(sends)
        BY <1>1, <2>1, MovedTyped DEF TypeOK
    <2>3. \E t \in Send : SendSucceeds(t)
        BY <1>1, <2>1, <2>2, PinKeeps, UnpinKeeps, SnapshotKeeps DEF IndInv, Next, vars, pins,
           toggleLocked, ReceivePin, removePinned, removeSuggested, clearAllContext,
           bumpContextRevision, Mount, Leave, Type, LoadMessages, PreviewSkips, Preview,
           LeftPreview, SuggestionsArrive, SuggestionsFail, handleSendMessage,
           Regenerate, StartStreaming, StopStreaming, Proceed, RegenerateEnds, SendFails
    <2>4. PICK t \in Send : SendSucceeds(t)
        BY <2>3
    <2>5. ~sends[t].moved /\ sends[t].text # Empty
        BY <1>1, <2>4 DEF SendSucceeds, pins
    <2>6. [sends EXCEPT ![t] = Idle] \in [Send -> SendState]
        BY <2>1, IdleTyped DEF TypeOK
    <2>7. sends' = Moved([sends EXCEPT ![t] = Idle])
        BY <2>4, <2>5 DEF SendSucceeds
    <2>8. t # s => sends'[s].stage = sends[s].stage
        BY <2>1, <2>6, <2>7, MovedTyped DEF TypeOK
    <2>9. t = s
        BY <1>1, <2>8
    <2> QED
        BY <1>1, <2>1, <2>5, <2>9 DEF UnmovedIsPinned
<1>2. IndInv /\ [Next]_vars =>
        [\A s \in Send :
            sends[s].stage = "closing" /\ sends'[s].stage = "idle" /\ pinned' # pinned
                => Contents(pinned) = sends[s].locked]_vars
    BY <1>1
<1> QED
    BY <1>2, Invariance, PTL DEF Spec, ClearsOnlyWhatItSent

-----------------------------------------------------------------------------
(* When the user stops, the previews run out                               *)

\* How far a chat action is from its end.
Left(stage) ==
    IF stage = "storing" THEN 3
    ELSE IF stage = "streaming" THEN 2
    ELSE IF stage = "closing" THEN 1
    ELSE 0

Forward == \E s \in Send : Left(sends'[s].stage) < Left(sends[s].stage)

\* While the user does nothing, whatever the extension says, chat actions only
\* get nearer to their end; the text changes, or the watch becomes due, only
\* with one that does; no view is left, and a request uses up a watch that was
\* due or the debounce of a view that was left.  There are as many of both as the
\* user began, so only so many requests follow.
PreviewsRunOut ==
    [][~UserActs =>
          /\ \A s \in Send : Left(sends'[s].stage) <= Left(sends[s].stage)
          /\ text' # text \/ (due' /\ ~due) => Forward
          /\ leftover' \subseteq leftover
          /\ \A r \in Request : requests[r] = None /\ requests'[r] # None
                                => (due /\ ~due') \/ leftover' # leftover]_vars

StagesStay == \A s \in Send : sends'[s].stage = sends[s].stage

\* A change of the pins moves no chat action, and does not set the watch off.
LEMMA PinsSetNothingOff ==
    ASSUME IndInv, StagesStay, UNCHANGED view, Watch
    PROVE  due' = due
<1>1. isChatStreaming' = isChatStreaming
    BY DEF StagesStay, isChatStreaming
<1> QED
    BY <1>1 DEF Watch, IndInv, TypeOK, view

LEMMA BumpMovesNone ==
    ASSUME IndInv, bumpContextRevision
    PROVE  StagesStay
BY MovedTyped DEF bumpContextRevision, StagesStay, IndInv, TypeOK

\* One chat action goes on, the others stay.
LEMMA OneGoesOn ==
    ASSUME IndInv, NEW s \in Send, NEW state \in SendState,
           sends' = [sends EXCEPT ![s] = state] \/
               sends' = Moved([sends EXCEPT ![s] = state]),
           Left(state.stage) < Left(sends[s].stage)
    PROVE  /\ \A t \in Send : Left(sends'[t].stage) <= Left(sends[t].stage)
           /\ Forward
<1>1. sends \in [Send -> SendState] /\ [sends EXCEPT ![s] = state] \in [Send -> SendState]
    BY DEF IndInv, TypeOK
<1>2. /\ sends'[s].stage = state.stage
      /\ \A t \in Send : t # s => sends'[t].stage = sends[t].stage
    BY <1>1, MovedTyped
<1>3. \A t \in Send : Left(sends[t].stage) \in Nat /\ Left(sends'[t].stage) \in Nat
    BY DEF Left
<1> QED
    BY <1>2, <1>3 DEF Forward

\* A step that is not the user's.
LEMMA QuietStep ==
    ASSUME IndInv, [Next]_vars, ~UserActs
    PROVE  \/ StagesStay /\ UNCHANGED <<text, leftover>> /\ (due' => due)
              /\ \A r \in Request : requests'[r] # None => requests[r] # None
           \/ StagesStay /\ UNCHANGED <<text, leftover>> /\ due /\ ~due'
           \/ StagesStay /\ UNCHANGED <<text, due>>
              /\ leftover' \subseteq leftover /\ leftover' # leftover
           \/ /\ \A s \in Send : Left(sends'[s].stage) <= Left(sends[s].stage)
              /\ Forward /\ UNCHANGED <<requests, leftover>>
<1> DEFINE Goes == /\ \A s \in Send : Left(sends'[s].stage) <= Left(sends[s].stage)
                   /\ Forward /\ UNCHANGED <<requests, leftover>>
           Rests == /\ StagesStay /\ UNCHANGED <<text, leftover>> /\ (due' => due)
                    /\ \A r \in Request : requests'[r] # None => requests[r] # None
<1>0. sends \in [Send -> SendState] /\ requests \in [Request -> Text \cup {None}]
    BY DEF IndInv, TypeOK
<1>1. ASSUME \/ \E p \in Path : toggleLocked(p) \/ ReceivePin(p) \/ removePinned(p)
             \/ \E entries \in SUBSET Entry : applySnapshot(entries)
      PROVE  Rests
    <2>1. bumpContextRevision /\ Watch /\ UNCHANGED <<view, requests>>
        BY <1>1 DEF toggleLocked, ReceivePin, removePinned, applySnapshot, unpinLocal,
           pinFullFileLocal, pinSnippetLocal, upsertPinnedEntry, answers, asking
    <2> QED
        BY <2>1, BumpMovesNone, PinsSetNothingOff DEF view
<1>2. ASSUME clearAllContext \/ \E p \in Path : removeSuggested(p)
      PROVE  Rests
    <2>1. bumpContextRevision /\ Watch /\ UNCHANGED <<view, requests>>
        BY <1>2 DEF clearAllContext, removeSuggested, asking
    <2> QED
        BY <2>1, BumpMovesNone, PinsSetNothingOff DEF view
<1>3. UNCHANGED sends => StagesStay
    BY DEF StagesStay
<1>4. ASSUME PreviewSkips \/ UNCHANGED vars
      PROVE  Rests
    BY <1>3, <1>4 DEF PreviewSkips, vars, answers, asking, view
<1>5. ASSUME NEW r \in Request,
             SuggestionsFail(r) \/ \E files \in SUBSET Path : SuggestionsArrive(r, files)
      PROVE  Rests
    BY <1>0, <1>3, <1>5 DEF SuggestionsFail, SuggestionsArrive, view
<1>6. ASSUME Preview
      PROVE  StagesStay /\ UNCHANGED <<text, leftover>> /\ due /\ ~due'
    BY <1>3, <1>6 DEF Preview, PreviewDue
<1>7. ASSUME NEW t \in Prompt, LeftPreview(t)
      PROVE  StagesStay /\ UNCHANGED <<text, due>>
             /\ leftover' \subseteq leftover /\ leftover' # leftover
    BY <1>3, <1>7 DEF LeftPreview
<1>8. ASSUME NEW s \in Send, StartStreaming(s) \/ StopStreaming(s)
      PROVE  Goes
    <2>1. PICK from, to \in Stage :
              /\ sends[s].stage = from
              /\ sends' = [sends EXCEPT ![s] = [sends[s] EXCEPT !.stage = to]]
              /\ Left(to) < Left(from)
              /\ UNCHANGED <<requests, leftover>>
        BY <1>0, <1>8 DEF StartStreaming, StopStreaming, Proceed, Left, answers, asking,
           view, Stage
    <2> DEFINE state == [sends[s] EXCEPT !.stage = to]
    <2>2. state \in SendState /\ state.stage = to
        BY <1>0 DEF SendState
    <2> HIDE DEF state
    <2>3. sends' = [sends EXCEPT ![s] = state]
        BY <2>1 DEF state
    <2> QED
        BY <2>1, <2>2, <2>3, OneGoesOn
<1>9. ASSUME NEW s \in Send, RegenerateEnds(s) \/ SendFails(s) \/ SendSucceeds(s)
      PROVE  Goes
    <2>1. /\ sends[s].stage \in {"storing", "closing"}
          /\ \/ sends' = [sends EXCEPT ![s] = Idle]
             \/ sends' = Moved([sends EXCEPT ![s] = Idle])
          /\ UNCHANGED <<requests, leftover>>
        BY <1>9 DEF RegenerateEnds, SendFails, SendSucceeds, answers, asking, view
    <2>2. Left(Idle.stage) < Left(sends[s].stage)
        BY <2>1 DEF Left, Idle
    <2> QED
        BY <2>1, <2>2, IdleTyped, OneGoesOn
<1> QED
    BY <1>1, <1>2, <1>4, <1>5, <1>6, <1>7, <1>8, <1>9 DEF Next, UserActs

\* The safety half of PreviewSettles: without the user there is an end to the
\* requests for suggestions.
THEOREM PreviewsEnd == Spec => PreviewsRunOut
<1> DEFINE RunsOut ==
        /\ \A s \in Send : Left(sends'[s].stage) <= Left(sends[s].stage)
        /\ text' # text \/ (due' /\ ~due) => Forward
        /\ leftover' \subseteq leftover
        /\ \A r \in Request : requests[r] = None /\ requests'[r] # None
                              => (due /\ ~due') \/ leftover' # leftover
<1>1. ASSUME IndInv, [Next]_vars, ~UserActs
      PROVE  RunsOut
    <2>1. StagesStay => \A s \in Send : Left(sends'[s].stage) <= Left(sends[s].stage)
        BY DEF StagesStay, Left
    <2> QED
        BY <1>1, <2>1, QuietStep
<1>2. IndInv /\ [Next]_vars => [~UserActs => RunsOut]_vars
    BY <1>1
<1> QED
    BY <1>2, Invariance, PTL DEF Spec, PreviewsRunOut
=============================================================================
