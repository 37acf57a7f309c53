---------------------------- MODULE VsCodeContext ----------------------------
(***************************************************************************)
(* What the user attaches to a message in VS Code: the pins and their      *)
(* index (src/vs-code/context-state.ts), the store that changes them and   *)
(* asks the extension for suggestions                                      *)
(* (src/stores/use-vs-code-context-store.ts), and the chat view, which     *)
(* previews the text being typed (src/composables/use-chat.ts) and clears  *)
(* the context after a send (src/composables/use-chat-actions.ts).         *)
(*                                                                         *)
(* The store lives as long as the page; the view is unmounted when the     *)
(* user goes to another page and mounted anew, with an empty composer and  *)
(* nothing previewed, on the way back.  A view that is left stops          *)
(* watching, but a debounce already running still fires, and its sends go  *)
(* on.                                                                     *)
(*                                                                         *)
(* The extension may say anything at any time.  A request's number is the  *)
(* slot it uses while it is under way; the answer of a request that timed  *)
(* out finds no resolver and changes nothing.  contextRevision is only     *)
(* ever compared with its value when a send began, so a send keeps whether *)
(* it has moved.                                                           *)
(***************************************************************************)
EXTENDS Naturals

CONSTANTS
    Path,      \* files
    Id,        \* ids of pins, those made here and the extension's
    Text,      \* what the user may type
    Request,   \* slots of the requests for suggestions
    Send,      \* slots of the chat actions that prepare a request
    Empty,     \* the empty text
    None

ASSUME ContextAssumption == Empty \notin Text /\ None \notin Request \cup Text \cup {Empty}

Prompt == Text \cup {Empty}
Content == [path: Path, mode: {"full", "snippet"}]
Suggestion == [path: Path, query: Text]
Entry == [id: Id, path: Path, mode: {"full", "snippet"}]

VARIABLES
    pinned,        \* pinnedById
    idsByPath,     \* pinnedIdsByPath
    pinnedPaths,
    suggested,     \* suggestedByPath, each path with the query it answers
    asked,         \* the query of the last call of refreshSuggestions
    askedHere,     \* that call was made by the view on the screen
    latest,        \* the request of latestSuggestionSequence while under way
    requests,      \* the query of each request under way
    isLoadingContext,
    contextError,
    open,          \* a chat view is mounted
    text,          \* its currentMessage
    lastPreview,   \* its lastPreviewText
    due,           \* its debounced watch is to run
    busy,          \* its isLoadingConversations or isLoadingMessages
    leftover,      \* what the debounces of the views left have yet to ask
    sends          \* the sends, edits and rewrites under way

pins    == <<pinned, idsByPath, pinnedPaths>>
asking  == <<asked, askedHere, latest, requests, isLoadingContext>>
answers == <<suggested, asking, contextError>>
view    == <<open, text, lastPreview, busy, leftover>>
vars == <<pins, answers, view, due, sends>>

Stage == {"idle", "storing", "streaming", "closing"}

\* A send: its text (Empty: an edit or a rewrite, which clears nothing), the
\* pins it attaches, whether contextRevision has moved since it read them,
\* whether the view it was made in is still the one on the screen.
SendState ==
    [stage: Stage, text: Prompt, locked: SUBSET Content, moved: BOOLEAN, here: BOOLEAN]
Idle == [stage |-> "idle", text |-> Empty, locked |-> {}, moved |-> FALSE, here |-> FALSE]

Contents(entries) == {[path |-> e.path, mode |-> e.mode] : e \in entries}
Full(entries) == {e.path : e \in {f \in entries : f.mode = "full"}}
Index(entries) == [p \in Path |-> {e.id : e \in {f \in entries : f.path = p}}]

isChatStreaming == \E s \in Send : sends[s].stage = "streaming"

\* The first chat view, which creates the store, has just been mounted.
Init ==
    /\ pinned = {}
    /\ idsByPath = [p \in Path |-> {}]
    /\ pinnedPaths = {}
    /\ suggested = {}
    /\ asked = Empty
    /\ askedHere = FALSE
    /\ latest = None
    /\ requests = [r \in Request |-> None]
    /\ isLoadingContext = FALSE
    /\ contextError = FALSE
    /\ open = TRUE
    /\ text = Empty
    /\ lastPreview = Empty
    /\ due = TRUE
    /\ busy = TRUE
    /\ leftover = {}
    /\ sends = [s \in Send |-> Idle]

\* Mutant: the watch does not list isChatStreaming.
WatchTextOnly == due' = (due \/ (open /\ <<text, busy>>' # <<text, busy>>))

\* Each action ends with the watch on the text and on what holds the preview up.
Watch ==
    due' = (due \/ (open /\ <<text, isChatStreaming, busy>>' # <<text, isChatStreaming, busy>>))

-----------------------------------------------------------------------------
(* The pins                                                                *)

Moved(states) == [s \in Send |->
                     [states[s] EXCEPT !.moved = (states[s].text # Empty)]]

bumpContextRevision == sends' = Moved(sends)

\* A pin made here has an id of its own.
Fresh(id) == id \in Id /\ \A e \in pinned : e.id # id

upsertPinnedEntry(id, p, mode) ==
    /\ pinned' = pinned \cup {[id |-> id, path |-> p, mode |-> mode]}
    /\ idsByPath' = [idsByPath EXCEPT ![p] = @ \cup {id}]
    /\ bumpContextRevision

pinFullFileLocal(p) ==
    /\ \E id \in Id : Fresh(id) /\ upsertPinnedEntry(id, p, "full")
    /\ pinnedPaths' = pinnedPaths \cup {p}

pinSnippetLocal(p) ==
    /\ \E id \in Id : Fresh(id) /\ upsertPinnedEntry(id, p, "snippet")
    /\ UNCHANGED pinnedPaths

\* Mutant: the path leaves the index, its entries stay.
unpinIndexOnly(p) ==
    /\ pinnedPaths' = pinnedPaths \ {p}
    /\ idsByPath' = [idsByPath EXCEPT ![p] = {}]
    /\ bumpContextRevision
    /\ UNCHANGED pinned

unpinLocal(p) ==
    /\ pinnedPaths' = pinnedPaths \ {p}
    /\ pinned' = {e \in pinned : e.id \notin idsByPath[p]}
    /\ idsByPath' = [idsByPath EXCEPT ![p] = {}]
    /\ bumpContextRevision

toggleLocked(p) ==
    /\ open
    /\ IF idsByPath[p] # {} THEN unpinLocal(p) ELSE pinFullFileLocal(p)
    /\ UNCHANGED <<answers, view>>
    /\ Watch

ReceivePin(p) ==
    /\ pinFullFileLocal(p) \/ pinSnippetLocal(p)
    /\ UNCHANGED <<answers, view>>
    /\ Watch

\* Mutant: a snapshot does not count as a change.
SnapshotUnrevised(entries) ==
    /\ \A e, f \in entries : e.id = f.id => e = f
    /\ pinned' = entries
    /\ idsByPath' = Index(entries)
    /\ pinnedPaths' = Full(entries)
    /\ UNCHANGED <<answers, view, sends>>
    /\ Watch

applySnapshot(entries) ==
    /\ \A e, f \in entries : e.id = f.id => e = f
    /\ pinned' = entries
    /\ idsByPath' = Index(entries)
    /\ pinnedPaths' = Full(entries)
    /\ bumpContextRevision
    /\ UNCHANGED <<answers, view>>
    /\ Watch

removePinned(p) ==
    /\ open
    /\ \E e \in pinned : e.path = p
    /\ unpinLocal(p)
    /\ UNCHANGED <<answers, view>>
    /\ Watch

removeSuggested(p) ==
    /\ open
    /\ \E i \in suggested : i.path = p
    /\ idsByPath[p] = {}
    /\ suggested' = {i \in suggested : i.path # p}
    /\ bumpContextRevision
    /\ UNCHANGED <<pins, asking, contextError, view>>
    /\ Watch

clearAllState ==
    /\ pinned' = {}
    /\ idsByPath' = [p \in Path |-> {}]
    /\ pinnedPaths' = {}
    /\ suggested' = {}
    /\ contextError' = FALSE

clearAllContext ==
    /\ open
    /\ clearAllState
    /\ bumpContextRevision
    /\ UNCHANGED <<asking, view>>
    /\ Watch

-----------------------------------------------------------------------------
(* The view                                                                *)

\* A new view: nothing typed, nothing previewed, its first load under way.
Mount ==
    /\ ~open
    /\ open' = TRUE
    /\ busy' = TRUE
    /\ due' = TRUE
    /\ UNCHANGED <<pins, answers, text, lastPreview, leftover, sends>>

PreviewDue == open /\ due /\ ~isChatStreaming /\ ~busy /\ text # lastPreview

\* The view goes with what it holds.  Its debounce is not cancelled.
Leave ==
    /\ open
    /\ open' = FALSE
    /\ leftover' = leftover \cup {t \in {text} : PreviewDue}
    /\ text' = Empty
    /\ lastPreview' = Empty
    /\ due' = FALSE
    /\ busy' = FALSE
    /\ askedHere' = FALSE
    /\ sends' = [s \in Send |-> [sends[s] EXCEPT !.here = FALSE]]
    /\ UNCHANGED <<pins, suggested, asked, latest, requests, isLoadingContext, contextError>>

Type(t) ==
    /\ open
    /\ t # text
    /\ text' = t
    /\ UNCHANGED <<pins, answers, open, lastPreview, busy, leftover, sends>>
    /\ Watch

\* The load of a conversation begins or ends.
LoadMessages ==
    /\ open
    /\ busy' = ~busy
    /\ UNCHANGED <<pins, answers, open, text, lastPreview, leftover, sends>>
    /\ Watch

-----------------------------------------------------------------------------
(* The suggestions                                                         *)

\* The store asks for what belongs to query, and for nothing when it is empty.
refreshSuggestions(query) ==
    /\ asked' = query
    /\ contextError' = FALSE
    /\ \/ /\ query = Empty
          /\ latest' = None
          /\ suggested' = {}
          /\ isLoadingContext' = FALSE
          /\ UNCHANGED requests
       \/ /\ query # Empty
          /\ isLoadingContext' = TRUE
          /\ UNCHANGED suggested
          /\ \E r \in Request :
                /\ requests[r] = None
                /\ latest' = r
                /\ requests' = [requests EXCEPT ![r] = query]

\* The debounced watch finds nothing to do.
PreviewSkips ==
    /\ due
    /\ ~PreviewDue
    /\ due' = FALSE
    /\ UNCHANGED <<pins, answers, view, sends>>

Preview ==
    /\ PreviewDue
    /\ refreshSuggestions(text)
    /\ due' = FALSE
    /\ lastPreview' = text
    /\ askedHere' = TRUE
    /\ UNCHANGED <<pins, open, text, busy, leftover, sends>>

\* The debounce of a view that was left.
LeftPreview(t) ==
    /\ t \in leftover
    /\ leftover' = leftover \ {t}
    /\ refreshSuggestions(t)
    /\ askedHere' = FALSE
    /\ UNCHANGED <<pins, open, text, lastPreview, due, busy, sends>>

\* What of an answer is not pinned when it arrives.
Unpinned(files, query) ==
    {[path |-> p, query |-> query] : p \in files \ (pinnedPaths \cup {e.path : e \in pinned})}

\* Mutant: whatever request answers is shown.
SuggestionsUnnumbered(r, files) ==
    /\ requests[r] # None
    /\ requests' = [requests EXCEPT ![r] = None]
    /\ suggested' = Unpinned(files, requests[r])
    /\ IF r = latest
       THEN latest' = None /\ isLoadingContext' = FALSE
       ELSE UNCHANGED <<latest, isLoadingContext>>
    /\ UNCHANGED <<pins, asked, askedHere, contextError, view, due, sends>>

SuggestionsArrive(r, files) ==
    /\ requests[r] # None
    /\ requests' = [requests EXCEPT ![r] = None]
    /\ IF r = latest
       THEN /\ suggested' = Unpinned(files, requests[r])
            /\ latest' = None
            /\ isLoadingContext' = FALSE
       ELSE UNCHANGED <<suggested, latest, isLoadingContext>>
    /\ UNCHANGED <<pins, asked, askedHere, contextError, view, due, sends>>

\* Mutant: an error leaves the spinner.
SuggestionsFailLoading(r) ==
    /\ requests[r] # None
    /\ requests' = [requests EXCEPT ![r] = None]
    /\ IF r = latest
       THEN /\ suggested' = {}
            /\ contextError' = TRUE
            /\ latest' = None
       ELSE UNCHANGED <<suggested, contextError, latest>>
    /\ UNCHANGED <<pins, asked, askedHere, isLoadingContext, view, due, sends>>

\* An error, or the time is up.
SuggestionsFail(r) ==
    /\ requests[r] # None
    /\ requests' = [requests EXCEPT ![r] = None]
    /\ IF r = latest
       THEN /\ suggested' = {}
            /\ contextError' = TRUE
            /\ latest' = None
            /\ isLoadingContext' = FALSE
       ELSE UNCHANGED <<suggested, contextError, latest, isLoadingContext>>
    /\ UNCHANGED <<pins, asked, askedHere, view, due, sends>>

-----------------------------------------------------------------------------
(* The sends                                                               *)

handleSendMessage(s) ==
    /\ open
    /\ sends[s].stage = "idle"
    /\ text # Empty
    /\ ~isChatStreaming
    /\ sends' = [sends EXCEPT ![s] = [stage |-> "storing", text |-> text,
                                      locked |-> Contents(pinned), moved |-> FALSE,
                                      here |-> TRUE]]
    /\ text' = Empty
    /\ UNCHANGED <<pins, answers, open, lastPreview, busy, leftover>>
    /\ Watch

\* An edit or a rewrite.
Regenerate(s) ==
    /\ open
    /\ sends[s].stage = "idle"
    /\ sends' = [sends EXCEPT ![s] = [Idle EXCEPT !.stage = "storing"]]
    /\ UNCHANGED <<pins, answers, view>>
    /\ Watch

\* The request goes out and the answer streams; it ends.
Proceed(s, from, to) ==
    /\ sends[s].stage = from
    /\ sends' = [sends EXCEPT ![s].stage = to]
    /\ UNCHANGED <<pins, answers, view>>
    /\ Watch

StartStreaming(s) == Proceed(s, "storing", "streaming")
StopStreaming(s) == Proceed(s, "streaming", "closing")

RegenerateEnds(s) ==
    /\ sends[s].stage \in {"storing", "closing"}
    /\ sends[s].text = Empty
    /\ sends' = [sends EXCEPT ![s] = Idle]
    /\ UNCHANGED <<pins, answers, view>>
    /\ Watch

\* The message comes back to its own composer, over what was typed meanwhile.
SendFails(s) ==
    /\ sends[s].stage \in {"storing", "closing"}
    /\ sends[s].text # Empty
    /\ text' = IF sends[s].here THEN sends[s].text ELSE text
    /\ sends' = [sends EXCEPT ![s] = Idle]
    /\ UNCHANGED <<pins, answers, open, lastPreview, busy, leftover>>
    /\ Watch

SendSucceeds(s) ==
    /\ sends[s].stage = "closing"
    /\ sends[s].text # Empty
    /\ IF sends[s].moved
       THEN /\ sends' = [sends EXCEPT ![s] = Idle]
            /\ UNCHANGED <<pins, suggested, contextError>>
       ELSE /\ clearAllState
            /\ sends' = Moved([sends EXCEPT ![s] = Idle])
    /\ UNCHANGED <<asking, view>>
    /\ Watch

Next ==
    \/ \E p \in Path : \/ toggleLocked(p)
                       \/ ReceivePin(p)
                       \/ removePinned(p)
                       \/ removeSuggested(p)
    \/ \E entries \in SUBSET Entry : applySnapshot(entries)
    \/ clearAllContext
    \/ Mount
    \/ Leave
    \/ \E t \in Prompt : Type(t) \/ LeftPreview(t)
    \/ LoadMessages
    \/ PreviewSkips
    \/ Preview
    \/ \E r \in Request : \/ \E files \in SUBSET Path : SuggestionsArrive(r, files)
                          \/ SuggestionsFail(r)
    \/ \E s \in Send : \/ handleSendMessage(s)
                       \/ Regenerate(s)
                       \/ StartStreaming(s)
                       \/ StopStreaming(s)
                       \/ RegenerateEnds(s)
                       \/ SendFails(s)
                       \/ SendSucceeds(s)

\* The timers of the watches and of the requests fire.
Fairness ==
    /\ WF_vars(PreviewSkips \/ Preview)
    /\ WF_vars(\E t \in Prompt : LeftPreview(t))
    /\ \A r \in Request : WF_vars(SuggestionsFail(r))

Spec == Init /\ [][Next]_vars /\ Fairness

-----------------------------------------------------------------------------
(* What the context promises                                               *)

\* The variables have their types.
TypeOK ==
    /\ pinned \subseteq Entry
    /\ idsByPath \in [Path -> SUBSET Id]
    /\ pinnedPaths \subseteq Path
    /\ suggested \subseteq Suggestion
    /\ asked \in Prompt
    /\ askedHere \in BOOLEAN
    /\ latest \in Request \cup {None}
    /\ requests \in [Request -> Text \cup {None}]
    /\ isLoadingContext \in BOOLEAN
    /\ contextError \in BOOLEAN
    /\ open \in BOOLEAN
    /\ text \in Prompt
    /\ lastPreview \in Prompt
    /\ due \in BOOLEAN
    /\ busy \in BOOLEAN
    /\ leftover \subseteq Prompt
    /\ sends \in [Send -> SendState]

\* The three records of what is pinned agree: the entries themselves, the index
\* by which a path is shown as locked and is unlocked, and the list of locked
\* files by which suggestions are filtered.  (src/vs-code/context-state.ts
\* keeps them apart, four operations change them.)
PinsAgree ==
    /\ \A e, f \in pinned : e.id = f.id => e = f
    /\ idsByPath = Index(pinned)
    /\ pinnedPaths = Full(pinned)

\* Requests may overtake each other, and views come and go over one store: the
\* spinner stands for the last question the store was asked, and once it has
\* ended what is shown is that question's answer, or its error and nothing else.
\* It is the question of the view on the screen if that one asked last; a view
\* mounted anew finds what the one before it left.
PreviewIsOfLatest ==
    /\ isLoadingContext <=> latest # None
    /\ latest # None => requests[latest] = asked
    /\ ~isLoadingContext => \A i \in suggested : i.query = asked
    /\ contextError => ~isLoadingContext /\ suggested = {}
    /\ askedHere => open /\ asked = lastPreview

\* A text typed, or restored, while the view was streaming or loading is not
\* forgotten: with nothing in the way and no watch due, the text in the
\* composer is the one that was previewed.
TextIsPreviewed ==
    open /\ ~due /\ ~isChatStreaming /\ ~busy => lastPreview = text

\* What a send clears is what it took along: never a pin made, or received from
\* the extension, while it was under way.
ClearsOnlyWhatItSent ==
    [][\A s \in Send :
          sends[s].stage = "closing" /\ sends'[s].stage = "idle" /\ pinned' # pinned
              => Contents(pinned) = sends[s].locked]_vars

UserActs ==
    \/ Mount \/ Leave \/ LoadMessages
    \/ \E t \in Prompt : Type(t)
    \/ \E s \in Send : handleSendMessage(s) \/ Regenerate(s)

\* When the user stops, in the view or away from it, the spinner stops, and a
\* view that does not stream or load for good has previewed its composer.
PreviewSettles ==
    <>[][~UserActs]_vars
        => <>[](/\ ~isLoadingContext
                /\ open => isChatStreaming \/ busy \/ lastPreview = text)

=============================================================================
