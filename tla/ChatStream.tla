----------------------------- MODULE ChatStream -----------------------------
(***************************************************************************)
(* The life of an assistant answer in the webview: from the composer       *)
(* (composables/use-chat-actions.ts) through the conversation store        *)
(* (stores/use-conversation-store.ts and stores/conversation/), the socket *)
(* layer (composables/use-chat-socket.ts, stores/use-chat-socket-store.ts, *)
(* retry.ts) to the row IndexedDB keeps, with the recovery of streams that *)
(* an earlier page, or another view, left open.                            *)
(*                                                                         *)
(* One conversation is followed; `shown' says whether its messages are the *)
(* ones in the store's `messages' list.  User rows, titles, reasoning and  *)
(* the text of a chunk are left out: a row is empty, partial or full.      *)
(*                                                                         *)
(* An IndexedDB operation is one step with the code that awaits it, and    *)
(* may fail wherever the code looks at the result.  The deletions and flag *)
(* updates that the code starts without waiting for them are kept in       *)
(* `deleting' and `marks' until they commit or fail.                       *)
(***************************************************************************)
EXTENDS Naturals

CONSTANTS
    Msg,            \* assistant message ids (the auto-increment key)
    Op,             \* runs of handleSendMessage, resend, rewriteWithModel
    Kinds,          \* which of "send", "resend", "rewrite" a run may be
    MaxAttempts,    \* maxRetries of retryWithBackoff (5 in the code)
    MaxEnv,         \* bound: user, page and navigation events in a behaviour
    None,           \* no message, no handler
    Recovery        \* the handlers resumeInterruptedStreams registers

ASSUME ConstantsAssumption ==
    /\ Kinds \subseteq {"send", "resend", "rewrite"}
    /\ MaxAttempts \in Nat \ {0}
    /\ MaxEnv \in Nat
    /\ None \notin Msg \cup Op
    /\ Recovery \notin Op \cup {None}

VARIABLES
    db,                     \* the message table
    created,                \* ids the key generator has given out
    mem,                    \* the store's `messages' list
    messageState,           \* the chat socket store, by message id
    streamingAssistantId,   \* that variable of each mounted ChatView
    op,                     \* the promises in flight
    tracker,                \* is the run's completion tracker still open?
    server,                 \* the server's side of each run's last request
    timers,                 \* one second recovery timers that saw no chunk
    marks,                  \* markMessageStreamingComplete calls in flight
    deleting,               \* deleteMessage calls in flight
    view,                   \* number of the mounted (or last) ChatView
    phase,                  \* which view the page shows
    shown,                  \* is this conversation the loaded one?
    env,                    \* events left of the budget MaxEnv
    leftOpen                \* history: rows given up while they may be open

vars == <<db, created, mem, messageState, streamingAssistantId, op, tracker,
          server, timers, marks, deleting, view, phase, shown, env, leftOpen>>

-----------------------------------------------------------------------------
(* Types.                                                                  *)

Contents == {"none", "empty", "partial", "full"}
Row == [streaming : BOOLEAN, content : Contents]
NoRow == [streaming |-> FALSE, content |-> "none"]
NewRow == [streaming |-> TRUE, content |-> "empty"]
FinalRow == [streaming |-> FALSE, content |-> "full"]
IsRow(r) == r.content # "none"
NoRows == [m \in Msg |-> NoRow]

MessageState ==
    [handlers : Op \cup {Recovery, None},   \* None: the map has no entry
     onError : Op \cup {None},
     isStreaming : BOOLEAN]
NoState == [handlers |-> None, onError |-> None, isStreaming |-> FALSE]

Ended == {"done", "failed", "lost"}
Pcs == {"idle", "preparing", "creating", "connecting", "live", "resolved",
        "refreshing", "failing"} \cup Ended
Run == [pc : Pcs, kind : {"send", "resend", "rewrite"}, msg : Msg \cup {None},
        attempt : 0..MaxAttempts, view : 0..MaxEnv, before : SUBSET Msg]
IdleRun == [pc |-> "idle", kind |-> "send", msg |-> None, attempt |-> 0,
            view |-> 0, before |-> {}]

TypeOK ==
    /\ db \in [Msg -> Row]
    /\ created \subseteq Msg
    /\ mem \in [Msg -> Row]
    /\ messageState \in [Msg -> MessageState]
    /\ streamingAssistantId \in [0..MaxEnv -> Msg \cup {None}]
    /\ op \in [Op -> Run]
    /\ tracker \in [Op -> BOOLEAN]
    /\ server \in [Op -> {"none", "sent", "generating", "over"}]
    /\ timers \in [Msg -> SUBSET {"attached", "detached"}]
    /\ marks \subseteq Msg
    /\ deleting \subseteq Msg
    /\ view \in 0..MaxEnv
    /\ phase \in {"off", "mounted", "chat", "history"}
    /\ shown \in BOOLEAN
    /\ env \in 0..MaxEnv
    /\ leftOpen \subseteq Msg

Init ==
    /\ db = NoRows
    /\ created = {}
    /\ mem = NoRows
    /\ messageState = [m \in Msg |-> NoState]
    /\ streamingAssistantId = [v \in 0..MaxEnv |-> None]
    /\ op = [o \in Op |-> IdleRun]
    /\ tracker = [o \in Op |-> FALSE]
    /\ server = [o \in Op |-> "none"]
    /\ timers = [m \in Msg |-> {}]
    /\ marks = {}
    /\ deleting = {}
    /\ view = 0
    /\ phase = "chat"
    /\ shown = TRUE
    /\ env = MaxEnv
    /\ leftOpen = {}

-----------------------------------------------------------------------------
(* What several handlers share.                                            *)

HasState(m) == messageState[m].handlers # None
StreamingMessageIds == {m \in Msg : messageState[m].isStreaming}
IsChatStreaming == StreamingMessageIds # {}
ChatMounted == phase \in {"mounted", "chat"}
Event == env > 0 /\ env' = env - 1

\* messages.value[index] = { ...current, ... }: nothing when the row is not
\* in the list.
Patch(rows, m, row) == IF IsRow(rows[m]) THEN [rows EXCEPT ![m] = row] ELSE rows
Quiet(row) == [row EXCEPT !.streaming = FALSE]

\* refreshMessageById: the listed row becomes the stored one, if both exist.
Refreshed(list, table, m) ==
    IF IsRow(table[m]) THEN Patch(list, m, table[m]) ELSE list

\* ... unless the read fails, which is only logged.
ReadBack(table, m) == mem' \in {mem, Refreshed(mem, table, m)}

\* The row cleanupStreamingMessage deletes for a run of handleSendMessage;
\* the other two callers pass no such handler.
CleanupTarget(o) ==
    IF op[o].kind = "send"
    THEN {streamingAssistantId[op[o].view]} \ {None} ELSE {}

\* cleanupStreamingMessage clears the listed row's flag and starts to delete.
Cleanup(targets) ==
    /\ mem' = [m \in Msg |-> IF m \in targets THEN Quiet(mem[m]) ELSE mem[m]]
    /\ deleting' = deleting \cup targets

\* The promise of sendChatSocket is rejected: sendWithHistory calls onError
\* and, for a row it created itself, starts to delete that row.
StreamFails(o) ==
    /\ op' = [op EXCEPT ![o].pc = "failing"]
    /\ mem' = [m \in Msg |-> IF m \in CleanupTarget(o) THEN Quiet(mem[m])
                                                       ELSE mem[m]]
    /\ deleting' = deleting \cup CleanupTarget(o)
                   \cup (IF op[o].kind = "rewrite" THEN {} ELSE {op[o].msg})

\* The recovery's handlers for m are about to be dropped.
Unattended(m) == IF messageState[m].handlers = Recovery THEN {m} ELSE {}

\* The answers a send that starts now must not touch: those an earlier send
\* has completed.
AnswersCompleted ==
    {op[p].msg : p \in {q \in Op : op[q].pc = "done" /\ op[q].kind # "rewrite"}}

-----------------------------------------------------------------------------
(* Sending: composer and conversation store.                               *)

\* handleSendMessage up to `await prepareChatRequest()': the composer must
\* not be streaming.
SendStart(o) ==
    /\ op[o].pc = "idle" /\ "send" \in Kinds
    /\ ChatMounted /\ shown /\ ~IsChatStreaming
    /\ op' = [op EXCEPT ![o].pc = "preparing", ![o].kind = "send",
                        ![o].view = view]
    /\ UNCHANGED <<db, created, mem, messageState, streamingAssistantId,
                   tracker, server, timers, marks, deleting, view, phase,
                   shown, env, leftOpen>>

\* Variant for checking: SendPrepared without the reset of
\* streamingAssistantId.
SendPreparedKeepsId(o) ==
    /\ op[o].pc = "preparing"
    /\ op' = [op EXCEPT ![o].pc = "creating", ![o].before = AnswersCompleted]
    /\ UNCHANGED <<db, created, mem, messageState, streamingAssistantId,
                   tracker, server, timers, marks, deleting, view, phase,
                   shown, env, leftOpen>>

\* The context is ready: streamingAssistantId is forgotten and the user's
\* message is stored.
SendPrepared(o) ==
    /\ op[o].pc = "preparing"
    /\ streamingAssistantId' = [streamingAssistantId EXCEPT ![op[o].view] = None]
    /\ op' = [op EXCEPT ![o].pc = "creating", ![o].before = AnswersCompleted]
    /\ UNCHANGED <<db, created, mem, messageState, tracker, server, timers,
                   marks, deleting, view, phase, shown, env, leftOpen>>

\* handleEditMessage of a user message that has no answer yet:
\* resendFromMessage will create one.
ResendStart(o) ==
    /\ op[o].pc = "idle" /\ "resend" \in Kinds
    /\ ChatMounted /\ shown
    /\ op' = [op EXCEPT ![o].pc = "creating", ![o].kind = "resend",
                        ![o].view = view]
    /\ UNCHANGED <<db, created, mem, messageState, streamingAssistantId,
                   tracker, server, timers, marks, deleting, view, phase,
                   shown, env, leftOpen>>

\* createNewAssistantStreamingMessage: the new row is pushed to the list,
\* whichever conversation the list holds by now.  IndexedDB keeps the order
\* of the writes: the answer of a run that has resolved is stored first.
CreateRow(o, m) ==
    /\ op[o].pc = "creating" /\ op[o].kind # "rewrite"
    /\ \A p \in Op : op[p].pc # "resolved"
    /\ m \notin created
    /\ created' = created \cup {m}
    /\ db' = [db EXCEPT ![m] = NewRow]
    /\ mem' = [mem EXCEPT ![m] = NewRow]
    /\ op' = [op EXCEPT ![o].pc = "connecting", ![o].msg = m]
    /\ UNCHANGED <<messageState, streamingAssistantId, tracker, server, timers,
                   marks, deleting, view, phase, shown, env, leftOpen>>

\* createUserMessage or createNewAssistantStreamingMessage fails: the error
\* path of handleSendMessage cleans up.
CreateFails(o) ==
    /\ op[o].pc = "creating" /\ op[o].kind # "rewrite"
    /\ op' = [op EXCEPT ![o].pc = "failed"]
    /\ Cleanup(CleanupTarget(o))
    /\ UNCHANGED <<db, created, messageState, streamingAssistantId, tracker,
                   server, timers, marks, view, phase, shown, env, leftOpen>>

\* rewriteWithModel, and resendFromMessage with an existing answer, of any
\* listed message, a streaming one included.
RewriteStart(o, m) ==
    /\ op[o].pc = "idle" /\ "rewrite" \in Kinds
    /\ ChatMounted /\ IsRow(mem[m])
    /\ op' = [op EXCEPT ![o].pc = "creating", ![o].kind = "rewrite",
                        ![o].msg = m, ![o].view = view]
    /\ UNCHANGED <<db, created, mem, messageState, streamingAssistantId,
                   tracker, server, timers, marks, deleting, view, phase,
                   shown, env, leftOpen>>

\* resetExistingAssistantStreamingMessage empties the stored row before it
\* looks for the listed one; without that one the run ends there.
ResetRow(o) ==
    LET m == op[o].msg IN
    /\ op[o].pc = "creating" /\ op[o].kind = "rewrite"
    /\ db' = Patch(db, m, NewRow)
    /\ mem' = Patch(mem, m, NewRow)
    /\ op' = [op EXCEPT ![o].pc = IF IsRow(mem[m]) THEN "connecting" ELSE "failed"]
    /\ leftOpen' = IF IsRow(mem[m]) THEN leftOpen \ {m} ELSE leftOpen \cup {m}
    /\ UNCHANGED <<created, messageState, streamingAssistantId, tracker, server,
                   timers, marks, deleting, view, phase, shown, env>>

\* ... or its write fails, and the rewrite ends with its refresh.
ResetFails(o) ==
    /\ op[o].pc = "creating" /\ op[o].kind = "rewrite"
    /\ ReadBack(db, op[o].msg)
    /\ op' = [op EXCEPT ![o].pc = "failed"]
    /\ UNCHANGED <<db, created, messageState, streamingAssistantId, tracker,
                   server, timers, marks, deleting, view, phase, shown, env,
                   leftOpen>>

-----------------------------------------------------------------------------
(* The socket layer: one attempt of a send, and the server's answers.      *)

\* attemptToSendMessage once the socket is connected: the timer is armed,
\* the handlers are registered, the request is emitted.
Connect(o) ==
    /\ op[o].pc = "connecting"
    /\ op' = [op EXCEPT ![o].pc = "live", ![o].attempt = @ + 1]
    /\ tracker' = [tracker EXCEPT ![o] = TRUE]
    /\ messageState' = [messageState EXCEPT ![op[o].msg] =
           [handlers |-> o, onError |-> o, isStreaming |-> TRUE]]
    /\ server' = [server EXCEPT ![o] = "sent"]
    /\ UNCHANGED <<db, created, mem, streamingAssistantId, timers, marks,
                   deleting, view, phase, shown, env, leftOpen>>

\* waitForConnection gives an error.
ConnectFails(o) ==
    /\ op[o].pc = "connecting"
    /\ StreamFails(o)
    /\ UNCHANGED <<db, created, messageState, streamingAssistantId, tracker,
                   server, timers, marks, view, phase, shown, env, leftOpen>>

\* The handlers are registered but emit finds the socket closed: finishError.
EmitFails(o) ==
    /\ op[o].pc = "connecting"
    /\ messageState' = [messageState EXCEPT ![op[o].msg] = NoState]
    /\ StreamFails(o)
    /\ UNCHANGED <<db, created, streamingAssistantId, tracker, server, timers,
                   marks, view, phase, shown, env, leftOpen>>

\* The server (external) acknowledges the request and starts to answer.
Accept(o) ==
    /\ server[o] = "sent"
    /\ server' = [server EXCEPT ![o] = "generating"]
    /\ UNCHANGED <<db, created, mem, messageState, streamingAssistantId, op,
                   tracker, timers, marks, deleting, view, phase, shown, env,
                   leftOpen>>

\* A negative acknowledgement reaches an open tracker, which drops the
\* message's state, and rejects a promise that is still pending.
Reject(o) ==
    /\ server[o] = "sent"
    /\ server' = [server EXCEPT ![o] = "over"]
    /\ tracker[o]
    /\ tracker' = [tracker EXCEPT ![o] = FALSE]
    /\ messageState' = [messageState EXCEPT ![op[o].msg] = NoState]
    /\ IF op[o].pc = "live" THEN StreamFails(o)
                            ELSE UNCHANGED <<op, mem, deleting>>
    /\ leftOpen' = leftOpen \cup Unattended(op[o].msg)
    /\ UNCHANGED <<db, created, streamingAssistantId, timers, marks, view,
                   phase, shown, env>>

\* ... of the rate limiter: retryWithBackoff tries again, MaxAttempts times.
RateLimit(o) ==
    /\ server[o] = "sent"
    /\ server' = [server EXCEPT ![o] = "over"]
    /\ tracker[o] /\ op[o].pc = "live" /\ op[o].attempt < MaxAttempts
    /\ tracker' = [tracker EXCEPT ![o] = FALSE]
    /\ messageState' = [messageState EXCEPT ![op[o].msg] = NoState]
    /\ op' = [op EXCEPT ![o].pc = "connecting"]
    /\ UNCHANGED <<db, created, mem, streamingAssistantId, timers, marks,
                   deleting, view, phase, shown, env, leftOpen>>

\* A chunk in sequence; the handlers of a run also set the listed row's
\* streaming flag (createStreamingCommitHandler).
Chunk(g) ==
    LET m == op[g].msg
        byRun == messageState[m].handlers \in Op
    IN
    /\ server[g] = "generating" /\ HasState(m)
    /\ messageState' = [messageState EXCEPT ![m].isStreaming = TRUE]
    /\ mem' = Patch(mem, m, [streaming |-> byRun \/ mem[m].streaming,
                             content |-> "partial"])
    /\ timers' = IF byRun THEN timers
                          ELSE [timers EXCEPT ![m] = @ \ {"attached"}]
    /\ UNCHANGED <<db, created, streamingAssistantId, op, tracker, server,
                   marks, deleting, view, phase, shown, env, leftOpen>>

\* chat:messageComplete for a message that a run's handlers serve.
CompleteToRun(g) ==
    LET m == op[g].msg
        h == messageState[m].handlers
    IN
    /\ server[g] = "generating" /\ h \in Op
    /\ server' = [server EXCEPT ![g] = "over"]
    /\ mem' = Patch(mem, m, [mem[m] EXCEPT !.content = "full"])
    /\ messageState' = [messageState EXCEPT ![m] = NoState]
    /\ tracker' = [tracker EXCEPT ![h] = FALSE]
    /\ op' = [op EXCEPT ![h].pc = IF @ = "live" THEN "resolved" ELSE @]
    /\ UNCHANGED <<db, created, streamingAssistantId, timers, marks, deleting,
                   view, phase, shown, env, leftOpen>>

\* ... for one that the recovery handlers serve.
CompleteToRecovery(g) ==
    LET m == op[g].msg IN
    /\ server[g] = "generating" /\ messageState[m].handlers = Recovery
    /\ server' = [server EXCEPT ![g] = "over"]
    /\ mem' = Patch(mem, m, FinalRow)
    /\ marks' = IF IsRow(mem[m]) THEN marks \cup {m} ELSE marks
    /\ timers' = [timers EXCEPT ![m] = @ \ {"attached"}]
    /\ messageState' = [messageState EXCEPT ![m] = NoState]
    /\ leftOpen' = IF IsRow(mem[m]) THEN leftOpen ELSE leftOpen \cup {m}
    /\ UNCHANGED <<db, created, streamingAssistantId, op, tracker, deleting,
                   view, phase, shown, env>>

\* chat:chatError, served by the onError a run registered.  The state is
\* dropped by finishError and then written back, no longer streaming.
ErrorToRun(g) ==
    LET m == op[g].msg
        e == messageState[m].onError
    IN
    /\ server[g] = "generating" /\ e \in Op
    /\ server' = [server EXCEPT ![g] = "over"]
    /\ messageState' = [messageState EXCEPT ![m].isStreaming = FALSE]
    /\ tracker' = [tracker EXCEPT ![e] = FALSE]
    /\ IF op[e].pc = "live" THEN StreamFails(e)
                            ELSE Cleanup(CleanupTarget(e)) /\ UNCHANGED op
    /\ leftOpen' = leftOpen \cup Unattended(m)
    /\ UNCHANGED <<db, created, streamingAssistantId, timers, marks, view,
                   phase, shown, env>>

\* ... with no onError: recovery handlers registered on their own have none.
ErrorToRecovery(g) ==
    LET m == op[g].msg IN
    /\ server[g] = "generating" /\ HasState(m)
    /\ messageState[m].onError = None
    /\ server' = [server EXCEPT ![g] = "over"]
    /\ messageState' = [messageState EXCEPT ![m].isStreaming = FALSE]
    /\ leftOpen' = leftOpen \cup Unattended(m)
    /\ UNCHANGED <<db, created, mem, streamingAssistantId, op, tracker, timers,
                   marks, deleting, view, phase, shown, env>>

\* An answer, an error or a refusal nobody listens for any more.
Unheard(g) ==
    /\ \/ server[g] = "generating" /\ ~HasState(op[g].msg)
       \/ server[g] = "sent" /\ ~tracker[g]
    /\ server' = [server EXCEPT ![g] = "over"]
    /\ UNCHANGED <<db, created, mem, messageState, streamingAssistantId, op,
                   tracker, timers, marks, deleting, view, phase, shown, env,
                   leftOpen>>

\* Variant for checking: a timer that an abort disarms.
TimeoutOfHeard(o) ==
    /\ op[o].pc = "live" /\ HasState(op[o].msg)
    /\ StreamFails(o)
    /\ UNCHANGED <<db, created, messageState, streamingAssistantId, tracker,
                   server, timers, marks, view, phase, shown, env, leftOpen>>

\* The send timer fires: the promise is rejected, the tracker stays open and
\* the message's state stays in the store.
Timeout(o) ==
    /\ op[o].pc = "live"
    /\ StreamFails(o)
    /\ UNCHANGED <<db, created, messageState, streamingAssistantId, tracker,
                   server, timers, marks, view, phase, shown, env, leftOpen>>

-----------------------------------------------------------------------------
(* The database answers what the store awaits.                             *)

\* deleteMessage of m is over, well or not.  The runs whose own row this was
\* have failed and clean up a second time, in the error path of
\* handleSendMessage.
AwaitingDeletion(m) ==
    {o \in Op : op[o].pc = "failing" /\ op[o].kind # "rewrite" /\ op[o].msg = m}
TargetsAfter(m) == UNION {CleanupTarget(o) : o \in AwaitingDeletion(m)}

DeletionEnds(m) ==
    /\ m \in deleting
    /\ deleting' = (deleting \ {m}) \cup TargetsAfter(m)
    /\ op' = [o \in Op |-> IF o \in AwaitingDeletion(m)
                           THEN [op[o] EXCEPT !.pc = "failed"] ELSE op[o]]
    /\ UNCHANGED <<created, messageState, streamingAssistantId, tracker, server,
                   timers, marks, view, phase, shown, env>>

DeleteCommits(m) ==
    /\ DeletionEnds(m)
    /\ db' = [db EXCEPT ![m] = NoRow]
    /\ mem' = [n \in Msg |->
                 IF n = m /\ IsRow(db[m]) THEN NoRow
                 ELSE IF n \in TargetsAfter(m) THEN Quiet(mem[n]) ELSE mem[n]]
    /\ UNCHANGED leftOpen

\* The failure is logged and the row stays as it is.
DeleteFails(m) ==
    /\ DeletionEnds(m)
    /\ mem' = [n \in Msg |-> IF n \in TargetsAfter(m) THEN Quiet(mem[n])
                                                      ELSE mem[n]]
    /\ leftOpen' = leftOpen \cup {m}
    /\ UNCHANGED db

\* Variant for checking: SettleRewrite that only refreshes.
SettleRewriteInList(o) ==
    /\ op[o].pc = "failing" /\ op[o].kind = "rewrite"
    /\ ReadBack(db, op[o].msg)
    /\ op' = [op EXCEPT ![o].pc = "failed"]
    /\ UNCHANGED <<db, created, messageState, streamingAssistantId, tracker,
                   server, timers, marks, deleting, view, phase, shown, env,
                   leftOpen>>

\* A failed rewrite keeps its row: markMessageStreamingComplete, and the
\* refresh at the end of rewriteWithModel.
SettleRewrite(o) ==
    LET m == op[o].msg IN
    /\ op[o].pc = "failing" /\ op[o].kind = "rewrite"
    /\ db' = Patch(db, m, Quiet(db[m]))
    /\ ReadBack(db', m)
    /\ op' = [op EXCEPT ![o].pc = "failed"]
    /\ UNCHANGED <<created, messageState, streamingAssistantId, tracker, server,
                   timers, marks, deleting, view, phase, shown, env, leftOpen>>

\* The write of markMessageStreamingComplete fails, which is only logged.
SettleFails(o) ==
    /\ op[o].pc = "failing" /\ op[o].kind = "rewrite"
    /\ ReadBack(db, op[o].msg)
    /\ op' = [op EXCEPT ![o].pc = "failed"]
    /\ leftOpen' = leftOpen \cup {op[o].msg}
    /\ UNCHANGED <<db, created, messageState, streamingAssistantId, tracker,
                   server, timers, marks, deleting, view, phase, shown, env>>

\* Variant for checking: Finalize that stores the row with put instead of
\* update.
FinalizePuts(o) ==
    LET m == op[o].msg IN
    /\ op[o].pc = "resolved"
    /\ db' = [db EXCEPT ![m] = FinalRow]
    /\ mem' = Patch(mem, m, FinalRow)
    /\ streamingAssistantId' =
           IF op[o].kind = "send"
           THEN [streamingAssistantId EXCEPT ![op[o].view] = m]
           ELSE streamingAssistantId
    /\ op' = [op EXCEPT ![o].pc = IF op[o].kind = "send" THEN "done"
                                                         ELSE "refreshing"]
    /\ UNCHANGED <<created, messageState, tracker, server, timers, marks,
                   deleting, view, phase, shown, env, leftOpen>>

\* Variant for checking: Finalize that forgets the streaming flag.
FinalizeContent(o) ==
    LET m == op[o].msg IN
    /\ op[o].pc = "resolved"
    /\ db' = Patch(db, m, [db[m] EXCEPT !.content = "full"])
    /\ mem' = Patch(mem, m, FinalRow)
    /\ streamingAssistantId' =
           IF op[o].kind = "send"
           THEN [streamingAssistantId EXCEPT ![op[o].view] = m]
           ELSE streamingAssistantId
    /\ op' = [op EXCEPT ![o].pc = IF op[o].kind = "send" THEN "done"
                                                         ELSE "refreshing"]
    /\ UNCHANGED <<created, messageState, tracker, server, timers, marks,
                   deleting, view, phase, shown, env, leftOpen>>

\* finalizeAssistantMessage of a resolved run and, for handleSendMessage,
\* the onComplete that remembers the id (its second identical write is
\* queued behind the first).
Finalize(o) ==
    LET m == op[o].msg IN
    /\ op[o].pc = "resolved"
    /\ db' = Patch(db, m, FinalRow)
    /\ mem' = Patch(mem, m, FinalRow)
    /\ streamingAssistantId' =
           IF op[o].kind = "send"
           THEN [streamingAssistantId EXCEPT ![op[o].view] = m]
           ELSE streamingAssistantId
    /\ op' = [op EXCEPT ![o].pc = IF op[o].kind = "send" THEN "done"
                                                         ELSE "refreshing"]
    /\ UNCHANGED <<created, messageState, tracker, server, timers, marks,
                   deleting, view, phase, shown, env, leftOpen>>

\* The write of finalizeAssistantMessage fails: sendWithHistory returns an
\* error without deleting or closing the row.  handleSendMessage cleans up
\* what streamingAssistantId names, a rewrite refreshes.
FinalizeFails(o) ==
    /\ op[o].pc = "resolved"
    /\ op' = [op EXCEPT ![o].pc = "failed"]
    /\ leftOpen' = leftOpen \cup {op[o].msg}
    /\ IF op[o].kind = "rewrite"
       THEN ReadBack(db, op[o].msg) /\ UNCHANGED deleting
       ELSE Cleanup(CleanupTarget(o))
    /\ UNCHANGED <<db, created, messageState, streamingAssistantId, tracker,
                   server, timers, marks, view, phase, shown, env>>

\* refreshMessageById at the end of a resend or a rewrite.
Refresh(o) ==
    /\ op[o].pc = "refreshing"
    /\ ReadBack(db, op[o].msg)
    /\ op' = [op EXCEPT ![o].pc = "done"]
    /\ UNCHANGED <<db, created, messageState, streamingAssistantId, tracker,
                   server, timers, marks, deleting, view, phase, shown, env,
                   leftOpen>>

\* markMessageStreamingComplete: the flag is cleared in the database and the
\* listed row is read back from there.
MarkCommits(m) ==
    /\ m \in marks
    /\ marks' = marks \ {m}
    /\ db' = Patch(db, m, Quiet(db[m]))
    /\ ReadBack(db', m)
    /\ UNCHANGED <<created, messageState, streamingAssistantId, op, tracker,
                   server, timers, deleting, view, phase, shown, env,
                   leftOpen>>

\* ... or its write fails, which is only logged.
MarkFails(m) ==
    /\ m \in marks
    /\ marks' = marks \ {m}
    /\ leftOpen' = leftOpen \cup {m}
    /\ UNCHANGED <<db, created, mem, messageState, streamingAssistantId, op,
                   tracker, server, timers, deleting, view, phase, shown, env>>

\* One second after a resume without a chunk the message `appears complete'.
RecoveryTimer(m, t) ==
    /\ t \in timers[m]
    /\ timers' = [timers EXCEPT ![m] = @ \ {t}]
    /\ marks' = marks \cup {m}
    /\ UNCHANGED <<db, created, mem, messageState, streamingAssistantId, op,
                   tracker, server, deleting, view, phase, shown, env,
                   leftOpen>>

-----------------------------------------------------------------------------
(* The user and the page.                                                  *)

\* resumeInterruptedStreams: every stored streaming row gets the recovery
\* handlers (an onError of before is kept) and a timer.
Resume ==
    LET rows == {m \in Msg : db[m].streaming} IN
    /\ messageState' = [m \in Msg |->
           IF m \in rows THEN [messageState[m] EXCEPT !.handlers = Recovery,
                                                      !.isStreaming = TRUE]
                         ELSE messageState[m]]
    /\ timers' = [m \in Msg |->
           IF m \notin rows THEN timers[m]
           ELSE {"attached"} \cup (IF timers[m] = {} THEN {} ELSE {"detached"})]
    /\ leftOpen' = {}

\* The streaming rows cannot be read: resumeInterruptedStreams gives up.
ResumeFails == UNCHANGED <<messageState, timers, leftOpen>>

\* loadMessages: the rows of this conversation, or of another one; nothing
\* when the read fails.
Load(own) == mem' \in {NoRows} \cup (IF own THEN {db} ELSE {})

\* A ChatView is mounted, after a start or on the way back from another
\* view: its closure is new, initializeChat resumes what it finds.
OpenChat ==
    /\ phase \in {"off", "history"} /\ view < MaxEnv
    /\ phase' = "mounted"
    /\ view' = view + 1
    /\ Resume \/ ResumeFails
    /\ UNCHANGED <<db, created, mem, streamingAssistantId, op, tracker, server,
                   marks, deleting, shown, env>>

\* ... and then loads the messages of the current conversation.
FirstLoad(s) ==
    /\ phase = "mounted"
    /\ phase' = "chat"
    /\ shown' = s
    /\ Load(s)
    /\ UNCHANGED <<db, created, messageState, streamingAssistantId, op, tracker,
                   server, timers, marks, deleting, view, env, leftOpen>>

\* HistoryView is mounted: the store's initialize resumes as well.
OpenHistory ==
    /\ ChatMounted /\ Event
    /\ phase' = "history"
    /\ Resume \/ ResumeFails
    /\ UNCHANGED <<db, created, mem, streamingAssistantId, op, tracker, server,
                   marks, deleting, view, shown>>

\* loadMessages of another conversation, or of this one again.
SwitchConversation ==
    /\ phase \in {"chat", "history"} /\ Event
    /\ shown' = ~shown
    /\ Load(shown')
    /\ UNCHANGED <<db, created, messageState, streamingAssistantId, op, tracker,
                   server, timers, marks, deleting, view, phase, leftOpen>>

\* A new chat: markAllStreamingCompleteInCurrentConversation closes the listed
\* rows one by one, and passes over those whose write fails.
NewChat(rows) ==
    /\ ChatMounted /\ shown /\ Event
    /\ rows \subseteq {m \in Msg : mem[m].streaming}
    /\ db' = [m \in Msg |-> IF m \in rows THEN Quiet(db[m]) ELSE db[m]]
    /\ mem' = [m \in Msg |-> IF m \in rows THEN Quiet(mem[m]) ELSE mem[m]]
    /\ UNCHANGED <<created, messageState, streamingAssistantId, op, tracker,
                   server, timers, marks, deleting, view, phase, shown,
                   leftOpen>>

\* handleAbortMessage: the state of a streaming message is dropped; the
\* promise of its run stays pending.
Abort(m) ==
    /\ ChatMounted /\ Event
    /\ m \in StreamingMessageIds
    /\ messageState' = [messageState EXCEPT ![m] = NoState]
    /\ leftOpen' = leftOpen \cup Unattended(m)
    /\ UNCHANGED <<db, created, mem, streamingAssistantId, op, tracker, server,
                   timers, marks, deleting, view, phase, shown>>

\* chat:messageDeleted from the server.
ServerDeletes(m) ==
    /\ HasState(m) /\ Event
    /\ messageState' = [messageState EXCEPT ![m] = NoState]
    /\ leftOpen' = leftOpen \cup Unattended(m)
    /\ UNCHANGED <<db, created, mem, streamingAssistantId, op, tracker, server,
                   timers, marks, deleting, view, phase, shown>>

\* handleDeleteMessage: the row goes, a stream that fills it does not.
UserDeletes(m) ==
    /\ ChatMounted /\ IsRow(mem[m]) /\ IsRow(db[m]) /\ Event
    /\ db' = [db EXCEPT ![m] = NoRow]
    /\ mem' = [mem EXCEPT ![m] = NoRow]
    /\ UNCHANGED <<created, messageState, streamingAssistantId, op, tracker,
                   server, timers, marks, deleting, view, phase, shown,
                   leftOpen>>

\* The page goes away: the editor closes, the tab is reloaded.
Crash ==
    /\ phase # "off" /\ Event
    /\ phase' = "off"
    /\ shown' = FALSE
    /\ mem' = NoRows
    /\ messageState' = [m \in Msg |-> NoState]
    /\ op' = [o \in Op |-> IF op[o].pc \in Ended \cup {"idle"} THEN op[o]
                           ELSE [op[o] EXCEPT !.pc = "lost"]]
    /\ tracker' = [o \in Op |-> FALSE]
    /\ timers' = [m \in Msg |-> {}]
    /\ marks' = {}
    /\ deleting' = {}
    /\ leftOpen' = {m \in Msg : db[m].streaming}
    /\ UNCHANGED <<db, created, streamingAssistantId, server, view>>

-----------------------------------------------------------------------------
DeletionOver(m) == DeleteCommits(m) \/ DeleteFails(m)
MarkOver(m) == MarkCommits(m) \/ MarkFails(m)

\* What the code does on its own to bring a run to its end.
Advance(o) ==
    \/ SendPrepared(o) \/ (\E m \in Msg : CreateRow(o, m)) \/ CreateFails(o)
    \/ ResetRow(o) \/ ResetFails(o) \/ Connect(o) \/ ConnectFails(o)
    \/ EmitFails(o) \/ Timeout(o) \/ SettleRewrite(o) \/ SettleFails(o)
    \/ Finalize(o) \/ FinalizeFails(o) \/ Refresh(o)
    \/ op[o].pc = "failing" /\ DeletionOver(op[o].msg)

Start(o) == SendStart(o) \/ ResendStart(o) \/ \E m \in Msg : RewriteStart(o, m)

ServerStep(o) ==
    \/ Accept(o) \/ Reject(o) \/ RateLimit(o) \/ Chunk(o) \/ CompleteToRun(o)
    \/ CompleteToRecovery(o) \/ ErrorToRun(o) \/ ErrorToRecovery(o)
    \/ Unheard(o)

PageStep ==
    \/ OpenChat \/ (\E s \in BOOLEAN : FirstLoad(s)) \/ OpenHistory
    \/ SwitchConversation \/ Crash
    \/ \E rows \in SUBSET Msg : NewChat(rows)

RowStep(m) ==
    \/ DeletionOver(m) \/ MarkOver(m)
    \/ (\E t \in {"attached", "detached"} : RecoveryTimer(m, t))
    \/ Abort(m) \/ ServerDeletes(m) \/ UserDeletes(m)

Next ==
    \/ \E o \in Op : Start(o) \/ Advance(o) \/ ServerStep(o)
    \/ \E m \in Msg : RowStep(m)
    \/ PageStep

Spec == Init /\ [][Next]_vars

-----------------------------------------------------------------------------
(* Safety.                                                                 *)

\* A run of handleSendMessage that is still under way.
SendPending(o) ==
    /\ op[o].kind = "send"
    /\ op[o].pc \in {"creating", "connecting", "live", "resolved", "failing"}

\* Two sends can be in flight at once (one was aborted, or waits in
\* retryWithBackoff), and they share streamingAssistantId, which the error
\* path deletes.  Whatever fails, an answer completed before this send was
\* prepared is not what its cleanup would delete.
CleanupSparesEarlierAnswers ==
    \A o \in Op : SendPending(o) => CleanupTarget(o) \cap op[o].before = {}

\* A run of this page that has emptied or created the row and will close or
\* delete it.
Fills(o, m) ==
    op[o].msg = m /\ op[o].pc \in {"connecting", "live", "resolved", "failing"}

\* The recovery still has a step ahead for the row: a timer, a write, or
\* handlers that wait for the rest of the stream.
Recovers(m) ==
    \/ timers[m] # {} \/ m \in marks
    \/ messageState[m].handlers = Recovery /\ messageState[m].isStreaming

\* No row is left `streaming' by the way: while the database says so, a run
\* of this page fills the row or the recovery is at work on it.  The only
\* ways out are those that leftOpen names (the page died, a write failed, a
\* rewrite lost its listed row, a recovered stream was aborted, refused,
\* failed or completed unseen), and only until the next resume that can read
\* the table: it takes care of every row.  In particular a run that fails,
\* times out, is aborted, retried or overtaken by a resume leaves none.
OpenRowsAttended ==
    \A m \in Msg : db[m].streaming =>
        (\E o \in Op : Fills(o, m)) \/ Recovers(m) \/ m \in leftOpen

\* When a run reports success its answer is stored, whole and closed, and
\* stays so through every resume, failure and late commit, unless the row is
\* deleted or a run empties it again: one that has got past its reset and has
\* not reported success since.
CompletedIsDurable ==
    \A o \in Op :
        LET m == op[o].msg IN
        /\ op[o].pc = "done"
        /\ \A p \in Op : op[p].msg = m
                        => op[p].pc \in {"creating", "refreshing", "done"}
        => db[m] \in {NoRow, FinalRow}

\* The message table as AnswerRow sees it.
RowStateOf(m) ==
    IF db[m] = NewRow THEN "open"
    ELSE IF db[m] = FinalRow THEN "answered"
    ELSE IF db[m] = Quiet(NewRow) THEN "abandoned"
    ELSE IF db[m] # NoRow THEN "torn"       \* no state of AnswerRow
    ELSE IF m \in created THEN "deleted" ELSE "unborn"

AnswerTable == INSTANCE AnswerRow WITH row <- [m \in Msg |-> RowStateOf(m)]

\* Every write of every path (creation, reset, finalisation, release,
\* deletion, however late it commits) keeps to the life cycle of AnswerRow.
RowLifeCycle == AnswerTable!Spec

\* An answer that the store has put before the user stays readable in the
\* list, unless a rewrite empties it: it does not turn into an empty row.
DeliveredAnswerKept ==
    [][\A m \in Msg :
           mem[m].content = "full" /\ mem'[m].content = "empty"
           => \E o \in Op : op[o].msg = m /\ ResetRow(o)]_vars

-----------------------------------------------------------------------------
(* Liveness.  The timers of the page fire, IndexedDB answers, the page's   *)
(* own continuations run; nothing is assumed of the server, of the network *)
(* or of the user.                                                         *)

Fairness ==
    /\ \A o \in Op : WF_vars(Advance(o))
    /\ \A m \in Msg :
         /\ WF_vars(DeletionOver(m))
         /\ WF_vars(MarkOver(m))
         /\ WF_vars(\E t \in {"attached", "detached"} : RecoveryTimer(m, t))
    /\ WF_vars(\E s \in BOOLEAN : FirstLoad(s))

FairSpec == Spec /\ Fairness

\* Every run comes to an end, which gives the user the draft back or the
\* answer: an abort, a resume that takes the handlers over, a refusal after
\* the time-out, a server that goes silent cannot leave it waiting.
SendSettles ==
    \A o \in Op : (op[o].pc # "idle") ~> (op[o].pc \in Ended)

=============================================================================
