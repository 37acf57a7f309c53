---------------------------- MODULE PromptLibrary ----------------------------
(***************************************************************************)
(* The prompts (src/composables/use-prompts-socket.ts) as the prompts view *)
(* uses them (src/views/PromptsView.vue, src/components/PromptEditor.vue): *)
(* a list that the server's pushes change, and an editor whose draft is    *)
(* made from the list.                                                     *)
(*                                                                         *)
(* No request of this view reaches the server.  promptsSocket is the       *)
(* SocketManager (socket-manager.ts:80-90), which has no method timeout:   *)
(* emitWithTimeout (emit-with-timeout.ts:50-53) throws in its promise, and *)
(* each fetch, save and deletion fails as soon as the promises that it     *)
(* made have run.  Several pushes of one payload run as promises too, so   *)
(* one may come in between; what the user does may not.                    *)
(*                                                                         *)
(* The server's prompts are the history of its commits; a prompt's content *)
(* is the number of the commit that wrote it, 0 where there is none, 1 for *)
(* what is there at the start.  One commit sends one push, in order.       *)
(***************************************************************************)
EXTENDS Naturals

CONSTANTS
    Id,          \* prompts
    Initially,   \* those there at the start
    MaxCommits,  \* bound on the server's commits, the first library included
    None

ASSUME PromptAssumption == /\ MaxCommits \in Nat \ {0}
                           /\ Initially \subseteq Id
                           /\ None \notin Id

Commit == 0..MaxCommits
Library == [Id -> Commit]

VARIABLES
    history, commits,   \* the server's prompts after each of its commits
    online,             \* the connection stands
    attached,           \* the handlers are on the socket
    hooked,             \* the view's onMounted has run
    heard,              \* pushes delivered, or lost
    lost,               \* those that were sent while nobody listened
    fetches,            \* calls of fetchAllPrompts under way
    list,               \* prompts
    isLoading, error,
    selected,           \* the view's selectedPromptId
    isCreating,
    draft,              \* the editor's localPrompt
    isSaving, isDeleting

vars == <<history, commits, online, attached, hooked, heard, lost, fetches, list,
          isLoading, error, selected, isCreating, draft, isSaving, isDeleting>>

server == <<history, commits>>
wire   == <<online, attached, hooked>>
pushes == <<heard, lost>>
feed   == <<fetches, isLoading, error>>
view   == <<selected, isCreating>>
busy   == <<isSaving, isDeleting>>

Draft == [of: Id \cup {None}, base: Commit, dirty: BOOLEAN]

NoDraft == [of |-> None, base |-> 0, dirty |-> FALSE]

Shown == selected # None /\ list[selected] # 0

EditorOpen == ~isLoading /\ (Shown \/ isCreating)

\* No promise of a failed request is still to run: the next event may come.
Settled == fetches = 0 /\ ~isSaving /\ ~isDeleting

Init ==
    /\ history = [n \in Commit |->
                     [i \in Id |-> IF n = 1 /\ i \in Initially THEN 1 ELSE 0]]
    /\ commits = 1
    /\ online = TRUE
    /\ attached = FALSE
    /\ hooked = FALSE
    /\ heard = 1
    /\ lost = {}
    /\ fetches = 0
    /\ list = [i \in Id |-> 0]
    /\ isLoading = FALSE
    /\ error = FALSE
    /\ selected = None
    /\ isCreating = FALSE
    /\ draft = NoDraft
    /\ isSaving = FALSE
    /\ isDeleting = FALSE

-----------------------------------------------------------------------------
(* The editor                                                              *)

\* Mutant: the watch compares the prompt's id, not the prompt.
WatchDraftById(replaced) ==
    draft' = IF ~EditorOpen' THEN NoDraft
             ELSE IF /\ EditorOpen /\ view' = view /\ Shown' = Shown
                  THEN draft
             ELSE IF Shown' THEN [of |-> selected', base |-> list'[selected'],
                                  dirty |-> FALSE]
             ELSE NoDraft

\* Each action ends with the watch on [prompt, isCreating]: the draft is made
\* anew when the editor opens, another prompt is shown or the shown prompt is
\* one of those the action replaced.
WatchDraft(replaced) ==
    draft' = IF ~EditorOpen' THEN NoDraft
             ELSE IF /\ EditorOpen /\ view' = view /\ Shown' = Shown
                     /\ ~(Shown /\ selected \in replaced)
                  THEN draft
             ELSE IF Shown' THEN [of |-> selected', base |-> list'[selected'],
                                  dirty |-> FALSE]
             ELSE NoDraft

-----------------------------------------------------------------------------
(* Fetching                                                                *)

\* fetchAllPromptsOnce up to its request.  The spinner takes the editor away.
Begin ==
    /\ fetches' = fetches + 1
    /\ isLoading' = TRUE
    /\ error' = FALSE

\* Mutant: only the caller of fetchAllPrompts is told.
FetchFailsUntold ==
    /\ fetches > 0
    /\ fetches' = fetches - 1
    /\ isLoading' = FALSE
    /\ UNCHANGED <<server, wire, pushes, list, error, view, busy>>
    /\ WatchDraft({})

\* The request has thrown.  A TypeError is no RateLimitError: retryWithBackoff
\* does not try again.
FetchFails ==
    /\ fetches > 0
    /\ fetches' = fetches - 1
    /\ isLoading' = FALSE
    /\ error' = TRUE
    /\ UNCHANGED <<server, wire, pushes, list, view, busy>>
    /\ WatchDraft({})

-----------------------------------------------------------------------------
(* The composable's life: the watch on the socket, the view's onMounted    *)

Attach ==
    /\ ~attached
    /\ attached' = TRUE
    /\ Begin
    /\ UNCHANGED <<server, online, hooked, pushes, list, view, busy>>
    /\ WatchDraft({})

MountHook ==
    /\ attached
    /\ ~hooked
    /\ hooked' = TRUE
    /\ Begin
    /\ UNCHANGED <<server, online, attached, pushes, list, view, busy>>
    /\ WatchDraft({})

MountHookTooEarly ==
    /\ ~attached
    /\ ~hooked
    /\ hooked' = TRUE
    /\ error' = TRUE
    /\ UNCHANGED <<server, online, attached, pushes, fetches, list, isLoading, view,
                   draft, busy>>

-----------------------------------------------------------------------------
(* The connection and the pushes                                           *)

NextIsPush ==
    /\ online
    /\ attached
    /\ heard < commits
    /\ heard' = heard + 1
    /\ UNCHANGED lost

Before == history[heard]
After == history[heard + 1]

HearCreated ==
    /\ NextIsPush
    /\ \E i \in Id :
          /\ Before[i] = 0 /\ After[i] # 0
          /\ list' = IF list[i] # 0 THEN list ELSE [list EXCEPT ![i] = After[i]]
    /\ UNCHANGED <<server, wire, feed, view, busy>>
    /\ WatchDraft({})

\* Mutant: every update makes a new list of new objects.
HearUpdatedAnew ==
    /\ NextIsPush
    /\ \E i \in Id :
          /\ Before[i] # 0 /\ After[i] \notin {0, Before[i]}
          /\ list[i] # 0
          /\ list' = [list EXCEPT ![i] = After[i]]
    /\ UNCHANGED <<server, wire, feed, view, busy>>
    /\ WatchDraft(Id)

HearUpdated ==
    /\ NextIsPush
    /\ \E i \in Id :
          /\ Before[i] # 0 /\ After[i] \notin {0, Before[i]}
          /\ list[i] # 0
          /\ list' = [list EXCEPT ![i] = After[i]]
    /\ UNCHANGED <<server, wire, feed, view, busy>>
    /\ WatchDraft({i \in Id : Before[i] # After[i]})

\* An update of a prompt that is not in the list: the list is fetched, in vain.
HearUpdatedUnknown ==
    /\ NextIsPush
    /\ \E i \in Id : /\ Before[i] # 0 /\ After[i] \notin {0, Before[i]}
                     /\ list[i] = 0
    /\ Begin
    /\ UNCHANGED <<server, wire, list, view, busy>>
    /\ WatchDraft({})

\* Mutant: the deletion of the prompt that is being edited waits for the user.
HearDeletedKeepsSelected ==
    /\ NextIsPush
    /\ \E i \in Id :
          /\ Before[i] # 0 /\ After[i] = 0
          /\ list' = IF i = selected THEN list ELSE [list EXCEPT ![i] = 0]
    /\ UNCHANGED <<server, wire, feed, view, busy>>
    /\ WatchDraft({})

HearDeleted ==
    /\ NextIsPush
    /\ \E i \in Id :
          /\ Before[i] # 0 /\ After[i] = 0
          /\ list' = [list EXCEPT ![i] = 0]
    /\ UNCHANGED <<server, wire, feed, view, busy>>
    /\ WatchDraft({})

\* Nobody listens: pushes are not sent again.
MissPushes ==
    /\ ~(online /\ attached)
    /\ heard < commits
    /\ heard' = commits
    /\ lost' = lost \cup (heard + 1)..commits
    /\ UNCHANGED <<server, wire, feed, list, view, draft, busy>>

\* Whatever was under way on the connection is lost with it.
Drops ==
    /\ online
    /\ online' = FALSE
    /\ heard' = commits
    /\ lost' = lost \cup (heard + 1)..commits
    /\ UNCHANGED <<server, attached, hooked, feed, list, view, draft, busy>>

\* The socket object is the same: the watch does not run, nothing is fetched.
Reconnects ==
    /\ ~online
    /\ heard = commits
    /\ online' = TRUE
    /\ UNCHANGED <<server, attached, hooked, pushes, feed, list, view, draft, busy>>

-----------------------------------------------------------------------------
(* The server's prompts: only other devices change them                    *)

Writes(i, content) ==
    /\ commits < MaxCommits
    /\ commits' = commits + 1
    /\ history' = [history EXCEPT ![commits + 1] = [history[commits] EXCEPT ![i] = content]]

Unborn(i) == \A n \in Commit : history[n][i] = 0
Alive(i) == history[commits][i] # 0

OtherDevice ==
    /\ \E i \in Id : \/ (Unborn(i) \/ Alive(i)) /\ Writes(i, commits + 1)
                     \/ Alive(i) /\ Writes(i, 0)
    /\ UNCHANGED <<wire, pushes, feed, list, view, draft, busy>>

-----------------------------------------------------------------------------
(* The user                                                                *)

Select(i) ==
    /\ hooked
    /\ Settled
    /\ list[i] # 0
    /\ isCreating' = FALSE
    /\ \/ selected' = i
       \/ selected' = None          \* a premium prompt, without the plan
    /\ UNCHANGED <<server, wire, pushes, feed, list, busy>>
    /\ WatchDraft({})

NewPrompt ==
    /\ hooked
    /\ Settled
    /\ isCreating' = TRUE
    /\ selected' = None
    /\ UNCHANGED <<server, wire, pushes, feed, list, busy>>
    /\ WatchDraft({})

Edit ==
    /\ Settled
    /\ EditorOpen
    /\ draft' = [draft EXCEPT !.dirty = TRUE]
    /\ UNCHANGED <<server, wire, pushes, feed, list, view, busy>>

Save ==
    /\ Settled
    /\ EditorOpen
    /\ draft.dirty
    /\ isSaving' = TRUE
    /\ UNCHANGED <<server, wire, pushes, feed, list, view, draft, isDeleting>>

\* Mutant: isSaving is only reset by a success.
SaveFailsSaving ==
    /\ isSaving
    /\ UNCHANGED vars

\* createPrompt and updatePrompt fail alike, with a toast: the editor stays as
\* it is, and nothing is fetched.
SaveFails ==
    /\ isSaving
    /\ isSaving' = FALSE
    /\ UNCHANGED <<server, wire, pushes, feed, list, view, draft, isDeleting>>

Delete ==
    /\ Settled
    /\ Shown
    /\ ~isCreating
    /\ isDeleting' = TRUE
    /\ UNCHANGED <<server, wire, pushes, feed, list, view, draft, isSaving>>

DeleteFails ==
    /\ isDeleting
    /\ isDeleting' = FALSE
    /\ UNCHANGED <<server, wire, pushes, feed, list, view, draft, isSaving>>

-----------------------------------------------------------------------------
Next ==
    \/ Attach
    \/ MountHook
    \/ MountHookTooEarly
    \/ FetchFails
    \/ HearCreated
    \/ HearUpdated
    \/ HearUpdatedUnknown
    \/ HearDeleted
    \/ MissPushes
    \/ Drops
    \/ Reconnects
    \/ OtherDevice
    \/ \E i \in Id : Select(i)
    \/ NewPrompt
    \/ Edit
    \/ Save
    \/ SaveFails
    \/ Delete
    \/ DeleteFails

\* A rejected promise is handed on before the next event.
Fairness ==
    /\ WF_vars(FetchFails)
    /\ WF_vars(SaveFails)
    /\ WF_vars(DeleteFails)

Spec == Init /\ [][Next]_vars /\ Fairness

-----------------------------------------------------------------------------
(* Properties                                                              *)

TypeOK ==
    /\ history \in [Commit -> Library]
    /\ commits \in Commit
    /\ online \in BOOLEAN
    /\ attached \in BOOLEAN
    /\ hooked \in BOOLEAN
    /\ heard \in Commit
    /\ lost \subseteq Commit
    /\ fetches \in Nat
    /\ list \in Library
    /\ isLoading \in BOOLEAN
    /\ error \in BOOLEAN
    /\ selected \in Id \cup {None}
    /\ isCreating \in BOOLEAN
    /\ draft \in Draft
    /\ isSaving \in BOOLEAN
    /\ isDeleting \in BOOLEAN

\* The commits on prompt i whose pushes were delivered here.
Told(i) == {n \in 2..heard : n \notin lost /\ history[n][i] # history[n - 1][i]}

\* The list is what the delivered pushes tell, whatever was lost before the
\* handlers were attached or with the connection: a prompt is listed if its
\* creation was told and its deletion was not, as the last push about it left
\* it.  A prompt older than the page is never listed.
ListIsAsTold ==
    \A i \in Id :
        IF \E n \in Told(i) : history[n - 1][i] = 0
        THEN \E n \in Told(i) : /\ \A m \in Told(i) : m <= n
                                /\ list[i] = history[n][i]
        ELSE list[i] = 0

\* What the open editor holds was made from the list's present version of the
\* selected prompt: a save never goes to another prompt, and never overwrites a
\* change that this page has already heard of.
DraftFollowsList ==
    /\ isCreating => selected = None
    /\ EditorOpen => IF Shown THEN draft.of = selected /\ draft.base = list[selected]
                              ELSE draft.of = None

\* The spinner stands for a fetch, and when all fetches have ended their failure
\* is told by the composable, however they overlapped.  (PromptsView does not
\* show it; the chat's instance of the composable does.)
FailureIsTold ==
    /\ isLoading => fetches > 0
    /\ fetches = 0 /\ (attached \/ hooked) => error

\* Unsaved edits stay through pushes about other prompts, through saves and
\* deletions that fail and through changes of the connection: only the user, a
\* change of the edited prompt itself or a fetch takes them.
EditsAreKept ==
    [][(/\ EditorOpen /\ draft.dirty
        /\ view' = view /\ ~isLoading'
        /\ Shown => list'[selected] = list[selected])
       => draft' = draft]_vars

\* The spinner goes, and so does what disables the inputs and both buttons.
NothingHangs ==
    (isLoading \/ isSaving \/ isDeleting) ~> ~(isLoading \/ isSaving \/ isDeleting)


=============================================================================
