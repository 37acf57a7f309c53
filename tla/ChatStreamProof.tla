-------------------------- MODULE ChatStreamProof --------------------------
(***************************************************************************)
(* Proofs about ChatStream, for every set of messages and runs and every   *)
(* bound: type correctness, which earlier answers a failing send can       *)
(* delete, who attends to a row that is marked streaming, that the message table *)
(* implements AnswerRow, that a run makes a bounded number of moves and is *)
(* released from the deletion it awaits, and that a reported answer stays. *)
(***************************************************************************)
EXTENDS ChatStream, TLAPS

-----------------------------------------------------------------------------
(* The inductive invariant behind type correctness.                        *)

\* Which runs have a message, and how many attempts they have left.
RunsOK ==
    \A o \in Op :
        /\ op[o].pc \in {"connecting", "live", "resolved", "refreshing",
                         "failing", "done"} => op[o].msg \in Msg
        /\ op[o].pc \in {"idle", "preparing"} => op[o].msg = None
        /\ op[o].pc = "preparing" => op[o].kind = "send"
        /\ op[o].pc = "creating" =>
               IF op[o].kind = "rewrite" THEN op[o].msg \in Msg
                                         ELSE op[o].msg = None
        /\ op[o].pc \in {"idle", "preparing", "creating"} => op[o].attempt = 0
        /\ op[o].pc = "connecting" => op[o].attempt < MaxAttempts
        /\ server[o] \in {"sent", "generating"} => op[o].msg \in Msg

IndInv == TypeOK /\ RunsOK

\* op' is op with another pc for one run.
PcChange(o, pc) ==
    /\ op' \in [Op -> Run]
    /\ \A p \in Op :
         /\ op'[p].pc = IF p = o THEN pc ELSE op[p].pc
         /\ op'[p].kind = op[p].kind
         /\ op'[p].msg = op[p].msg
         /\ op'[p].attempt = op[p].attempt
         /\ op'[p].view = op[p].view
         /\ op'[p].before = op[p].before

-----------------------------------------------------------------------------
(* Lemmas about the helpers.                                               *)

\* The named rows and the empty socket state have their types.
LEMMA RowTypes ==
    /\ NoRow \in Row /\ NewRow \in Row /\ FinalRow \in Row
    /\ \A r \in Row : Quiet(r) \in Row
    /\ NoState \in MessageState
BY DEF NoRow, NewRow, FinalRow, Row, Contents, Quiet, NoState, MessageState

\* The program counters of the steps are program counters.
LEMMA PcTypes ==
    /\ \A pc \in {"idle", "preparing", "creating", "connecting", "live",
                  "resolved", "refreshing", "failing", "done", "failed",
                  "lost"} : pc \in Pcs
BY DEF Pcs, Ended

\* An update of one message's streaming flag keeps the socket store's type.
LEMMA FlagUpdate ==
    ASSUME TypeOK, NEW m \in Msg, NEW b \in BOOLEAN
    PROVE  [messageState EXCEPT ![m].isStreaming = b] \in [Msg -> MessageState]
<1>1. messageState[m] \in MessageState
  BY DEF TypeOK
<1>2. [messageState[m] EXCEPT !.isStreaming = b] \in MessageState
  BY <1>1 DEF MessageState
<1>3. QED
  BY <1>2 DEF TypeOK

\* Patch and Refreshed return a list of rows when they are given one.
LEMMA PatchType ==
    ASSUME NEW rows \in [Msg -> Row], NEW m \in Msg, NEW row \in Row
    PROVE  Patch(rows, m, row) \in [Msg -> Row]
BY DEF Patch

\* Reading a row back into the list keeps the list a list of rows.
LEMMA RefreshedType ==
    ASSUME NEW list \in [Msg -> Row], NEW table \in [Msg -> Row], NEW m \in Msg
    PROVE  Refreshed(list, table, m) \in [Msg -> Row]
BY PatchType DEF Refreshed

\* So it is when the read may fail.
LEMMA ReadBackType ==
    ASSUME TypeOK, NEW table \in [Msg -> Row], NEW m \in Msg, ReadBack(table, m)
    PROVE  mem' \in [Msg -> Row]
<1>1. mem \in [Msg -> Row]
  BY DEF TypeOK
<1>2. Refreshed(mem, table, m) \in [Msg -> Row]
  BY <1>1, RefreshedType
<1>3. QED BY <1>1, <1>2 DEF ReadBack

\* The rows a step gives up are messages.
LEMMA UnattendedType ==
    ASSUME NEW m \in Msg
    PROVE  Unattended(m) \subseteq Msg
BY DEF Unattended

\* A run with another pc is still a run.
LEMMA PcRecord ==
    ASSUME TypeOK, NEW o \in Op, NEW pc \in Pcs
    PROVE  op[o] \in Run /\ [op[o] EXCEPT !.pc = pc] \in Run
<1>1. op[o] \in Run
  BY DEF TypeOK
<1>2. QED
  BY <1>1 DEF Run

\* An update of one run's pc changes nothing else of the runs.
LEMMA PcUpdate ==
    ASSUME TypeOK, NEW o \in Op, NEW pc \in Pcs, op' = [op EXCEPT ![o].pc = pc]
    PROVE  PcChange(o, pc)
<1>1. op[o] \in Run
  BY DEF TypeOK
<1>2. [op[o] EXCEPT !.pc = pc] \in Run
  BY <1>1 DEF Run
<1>3. op' = [op EXCEPT ![o] = [op[o] EXCEPT !.pc = pc]]
  OBVIOUS
<1>4. op' \in [Op -> Run]
  BY <1>2, <1>3 DEF TypeOK
<1>5. ASSUME NEW p \in Op, p # o PROVE op'[p] = op[p]
  BY <1>5 DEF TypeOK
<1>6. op'[o] = [op[o] EXCEPT !.pc = pc]
  BY <1>3 DEF TypeOK
<1>7. QED
  BY <1>1, <1>4, <1>5, <1>6 DEF PcChange, Run

\* The row a cleanup deletes is a message.
LEMMA TargetType ==
    ASSUME TypeOK, NEW o \in Op
    PROVE  CleanupTarget(o) \in SUBSET Msg
<1>1. op[o].view \in 0..MaxEnv
  BY DEF TypeOK, Run
<1>2. QED
  BY <1>1 DEF CleanupTarget, TypeOK

\* A cleanup keeps the types of the list and of the deletions.
LEMMA QuietedType ==
    ASSUME TypeOK, NEW T \in SUBSET Msg
    PROVE  [m \in Msg |-> IF m \in T THEN Quiet(mem[m]) ELSE mem[m]]
               \in [Msg -> Row]
BY RowTypes DEF TypeOK

\* A deletion is one of a message.
LEMMA DeletionOfMessage ==
    ASSUME TypeOK, NEW m, DeletionOver(m)
    PROVE  m \in Msg
BY DEF DeletionOver, DeleteCommits, DeleteFails, DeletionEnds, TypeOK

\* A rejected promise changes the runs, the list and the pending deletions
\* within their types.
LEMMA StreamFailsType ==
    ASSUME TypeOK, NEW o \in Op, op[o].msg \in Msg, StreamFails(o)
    PROVE  /\ PcChange(o, "failing")
           /\ mem' \in [Msg -> Row]
           /\ deleting' \subseteq Msg
<1>1. PcChange(o, "failing")
  BY PcUpdate, PcTypes DEF StreamFails
<1>2. mem' \in [Msg -> Row]
  BY QuietedType, TargetType DEF StreamFails
<1>3. deleting' \subseteq Msg
  BY TargetType DEF StreamFails, TypeOK
<1>4. QED
  BY <1>1, <1>2, <1>3

\* A resume keeps the types of the socket store and of the timers.
LEMMA ResumeType ==
    ASSUME TypeOK, Resume \/ ResumeFails
    PROVE  /\ messageState' \in [Msg -> MessageState]
           /\ timers' \in [Msg -> SUBSET {"attached", "detached"}]
           /\ leftOpen' \subseteq Msg
<1>1. CASE Resume
  <2>1. messageState' \in [Msg -> MessageState]
    BY <1>1 DEF Resume, TypeOK, MessageState
  <2>2. timers' \in [Msg -> SUBSET {"attached", "detached"}]
    BY <1>1 DEF Resume, TypeOK
  <2>3. QED BY <1>1, <2>1, <2>2 DEF Resume
<1>2. CASE ResumeFails
  BY <1>2 DEF ResumeFails, TypeOK
<1>3. QED BY <1>1, <1>2

\* The messages of a conversation, or none, are a list of rows.
LEMMA LoadType ==
    ASSUME TypeOK, NEW own \in BOOLEAN, Load(own)
    PROVE  mem' \in [Msg -> Row]
BY RowTypes DEF Load, NoRows, TypeOK

-----------------------------------------------------------------------------
(* Every step keeps the invariant.                                         *)

\* The page starts in the invariant.
LEMMA InitInd == ASSUME Init PROVE IndInv
BY ConstantsAssumption, RowTypes
   DEF Init, IndInv, TypeOK, RunsOK, IdleRun, Run, Pcs, Ended, NoRows

\* The steps of the composer and of the store that start a run.
LEMMA StartInd ==
    ASSUME IndInv, NEW o \in Op, Start(o)
    PROVE  IndInv'
<1> USE DEF IndInv
<1>1. op[o] \in Run /\ view \in 0..MaxEnv
  BY DEF TypeOK
<1>2. CASE SendStart(o)
  <2>1. op' = [op EXCEPT ![o] = [op[o] EXCEPT !.pc = "preparing",
                                   !.kind = "send", !.view = view]]
    BY <1>2 DEF SendStart
  <2>2. [op[o] EXCEPT !.pc = "preparing", !.kind = "send", !.view = view] \in Run
    BY <1>1, PcTypes DEF Run
  <2>3. TypeOK'
    BY <1>2, <2>1, <2>2 DEF SendStart, TypeOK
  <2>4. RunsOK'
    BY <1>1, <1>2, <2>1 DEF SendStart, TypeOK, RunsOK, Run
  <2>5. QED BY <2>3, <2>4
<1>3. CASE ResendStart(o)
  <2>1. op' = [op EXCEPT ![o] = [op[o] EXCEPT !.pc = "creating",
                                   !.kind = "resend", !.view = view]]
    BY <1>3 DEF ResendStart
  <2>2. [op[o] EXCEPT !.pc = "creating", !.kind = "resend", !.view = view] \in Run
    BY <1>1, PcTypes DEF Run
  <2>3. TypeOK'
    BY <1>3, <2>1, <2>2 DEF ResendStart, TypeOK
  <2>4. RunsOK'
    BY <1>1, <1>3, <2>1 DEF ResendStart, TypeOK, RunsOK, Run
  <2>5. QED BY <2>3, <2>4
<1>4. ASSUME NEW m \in Msg, RewriteStart(o, m) PROVE IndInv'
  <2>1. op' = [op EXCEPT ![o] = [op[o] EXCEPT !.pc = "creating",
                          !.kind = "rewrite", !.msg = m, !.view = view]]
    BY <1>4 DEF RewriteStart
  <2>2. [op[o] EXCEPT !.pc = "creating", !.kind = "rewrite", !.msg = m,
                      !.view = view] \in Run
    BY <1>1, PcTypes DEF Run
  <2>3. TypeOK'
    BY <1>4, <2>1, <2>2 DEF RewriteStart, TypeOK
  <2>4. RunsOK'
    BY <1>1, <1>4, <2>1 DEF RewriteStart, TypeOK, RunsOK, Run
  <2>5. QED BY <2>3, <2>4
<1>5. QED
  BY <1>2, <1>3, <1>4 DEF Start

\* A step that only moves one run to a pc which needs no more than what the
\* run has, and touches at most server[o] otherwise.
LEMMA RunsAfterPcChange ==
    ASSUME IndInv, NEW o \in Op, NEW pc \in Pcs, PcChange(o, pc),
           pc \in {"lost", "failed"} \/ op[o].msg \in Msg,
           pc \notin {"idle", "preparing", "creating"},
           pc = "connecting" => op[o].attempt < MaxAttempts,
           \A p \in Op : server'[p] \in {server[p], "none", "over"}
    PROVE  RunsOK'
<1>1. ASSUME NEW p \in Op
      PROVE  /\ op'[p].pc \in {"connecting", "live", "resolved", "refreshing",
                               "failing", "done"} => op'[p].msg \in Msg
             /\ op'[p].pc \in {"idle", "preparing"} => op'[p].msg = None
             /\ op'[p].pc = "preparing" => op'[p].kind = "send"
             /\ op'[p].pc = "creating" =>
                    IF op'[p].kind = "rewrite" THEN op'[p].msg \in Msg
                                               ELSE op'[p].msg = None
             /\ op'[p].pc \in {"idle", "preparing", "creating"}
                    => op'[p].attempt = 0
             /\ op'[p].pc = "connecting" => op'[p].attempt < MaxAttempts
             /\ server'[p] \in {"sent", "generating"} => op'[p].msg \in Msg
  <2>1. CASE p = o
    BY <2>1 DEF PcChange, IndInv, RunsOK
  <2>2. CASE p # o
    BY <2>2 DEF PcChange, IndInv, RunsOK
  <2>3. QED BY <2>1, <2>2
<1>2. QED
  BY <1>1 DEF RunsOK

\* The steps of the runs themselves.
LEMMA AdvanceInd ==
    ASSUME IndInv, NEW o \in Op, Advance(o), ~DeletionOver(op[o].msg)
    PROVE  IndInv'
<1>1. TypeOK /\ RunsOK
  BY DEF IndInv
<1>2. op[o] \in Run
  BY <1>1 DEF TypeOK
<1>3. CASE SendPrepared(o)
  <2>1. AnswersCompleted \in SUBSET Msg
    BY <1>1 DEF AnswersCompleted, RunsOK
  <2>2. op' = [op EXCEPT ![o] = [op[o] EXCEPT !.pc = "creating",
                                              !.before = AnswersCompleted]]
    BY <1>3 DEF SendPrepared
  <2>3. [op[o] EXCEPT !.pc = "creating", !.before = AnswersCompleted] \in Run
    BY <1>2, <2>1, PcTypes DEF Run
  <2>4. TypeOK'
    BY <1>1, <1>3, <2>2, <2>3 DEF SendPrepared, TypeOK
  <2>5. RunsOK'
    BY <1>1, <1>2, <1>3, <2>2 DEF SendPrepared, TypeOK, RunsOK, Run
  <2>6. QED BY <2>4, <2>5 DEF IndInv
<1>4. ASSUME NEW m \in Msg, CreateRow(o, m) PROVE IndInv'
  <2>1. op' = [op EXCEPT ![o] = [op[o] EXCEPT !.pc = "connecting", !.msg = m]]
    BY <1>4 DEF CreateRow
  <2>2. [op[o] EXCEPT !.pc = "connecting", !.msg = m] \in Run
    BY <1>2, PcTypes DEF Run
  <2>3. TypeOK'
    BY <1>1, <1>4, <2>1, <2>2, RowTypes DEF CreateRow, TypeOK
  <2>4. RunsOK'
    BY <1>1, <1>2, <1>4, <2>1, ConstantsAssumption
       DEF CreateRow, TypeOK, RunsOK, Run
  <2>5. QED BY <2>3, <2>4 DEF IndInv
<1>5. CASE CreateFails(o)
  <2>1. PcChange(o, "failed")
    BY <1>1, <1>5, PcUpdate, PcTypes DEF CreateFails
  <2>2. mem' \in [Msg -> Row] /\ deleting' \subseteq Msg
    BY <1>1, <1>5, QuietedType, TargetType DEF CreateFails, Cleanup, TypeOK
  <2>3. TypeOK'
    BY <1>1, <1>5, <2>1, <2>2 DEF CreateFails, TypeOK, PcChange
  <2>4. RunsOK'
    BY <1>5, <2>1, PcTypes, RunsAfterPcChange DEF CreateFails
  <2>5. QED BY <2>3, <2>4 DEF IndInv
<1>6. CASE ResetRow(o)
  <2>1. op[o].msg \in Msg
    BY <1>1, <1>6 DEF ResetRow, RunsOK
  <2>2. op' = [op EXCEPT ![o].pc =
                 IF IsRow(mem[op[o].msg]) THEN "connecting" ELSE "failed"]
    BY <1>6 DEF ResetRow
  <2>3. PICK pc \in {"connecting", "failed"} : PcChange(o, pc)
    BY <1>1, <2>2, PcUpdate, PcTypes
  <2>4. db' \in [Msg -> Row] /\ mem' \in [Msg -> Row]
    BY <1>1, <1>6, <2>1, PatchType, RowTypes DEF ResetRow, TypeOK
  <2>5. TypeOK'
    <3>1. leftOpen' \subseteq Msg
      BY <1>1, <1>6, <2>1 DEF ResetRow, TypeOK
    <3>2. QED
      BY <1>1, <1>6, <2>3, <2>4, <3>1 DEF ResetRow, TypeOK, PcChange
  <2>6. RunsOK'
    <3>1. op[o].attempt < MaxAttempts
      BY <1>1, <1>6, ConstantsAssumption DEF ResetRow, RunsOK
    <3>2. QED
      BY <1>6, <2>1, <2>3, <3>1, PcTypes, RunsAfterPcChange DEF ResetRow
  <2>7. QED BY <2>5, <2>6 DEF IndInv
<1>7. CASE Connect(o)
  <2>1. op[o].msg \in Msg /\ op[o].attempt + 1 \in 0..MaxAttempts
    BY <1>1, <1>2, <1>7, ConstantsAssumption DEF Connect, RunsOK, Run
  <2>2. op' = [op EXCEPT ![o] = [op[o] EXCEPT !.pc = "live",
                                   !.attempt = op[o].attempt + 1]]
    BY <1>7 DEF Connect
  <2>3. [op[o] EXCEPT !.pc = "live", !.attempt = op[o].attempt + 1] \in Run
    BY <1>2, <2>1, PcTypes DEF Run
  <2>4. [handlers |-> o, onError |-> o, isStreaming |-> TRUE] \in MessageState
    BY DEF MessageState
  <2>5. TypeOK'
    BY <1>1, <1>7, <2>2, <2>3, <2>4 DEF Connect, TypeOK
  <2>6. RunsOK'
    BY <1>1, <1>2, <1>7, <2>1, <2>2 DEF Connect, TypeOK, RunsOK, Run
  <2>7. QED BY <2>5, <2>6 DEF IndInv
<1>8. CASE ConnectFails(o) \/ EmitFails(o) \/ Timeout(o)
  <2>1. op[o].msg \in Msg
    BY <1>1, <1>8 DEF ConnectFails, EmitFails, Timeout, RunsOK
  <2>2. /\ PcChange(o, "failing")
        /\ mem' \in [Msg -> Row]
        /\ deleting' \subseteq Msg
    BY <1>1, <1>8, <2>1, StreamFailsType DEF ConnectFails, EmitFails, Timeout
  <2>3. TypeOK'
    BY <1>1, <1>8, <2>2, RowTypes
       DEF ConnectFails, EmitFails, Timeout, TypeOK, PcChange
  <2>4. RunsOK'
    BY <1>8, <2>1, <2>2, PcTypes, RunsAfterPcChange
       DEF ConnectFails, EmitFails, Timeout
  <2>5. QED BY <2>3, <2>4 DEF IndInv
<1>9. CASE SettleRewrite(o)
  <2>1. op[o].msg \in Msg
    BY <1>1, <1>9 DEF SettleRewrite, RunsOK
  <2>2. db' \in [Msg -> Row] /\ mem' \in [Msg -> Row]
    <3>1. db' \in [Msg -> Row]
      BY <1>1, <1>9, <2>1, PatchType, RowTypes DEF SettleRewrite, TypeOK
    <3>2. QED
      BY <1>1, <1>9, <2>1, <3>1, ReadBackType DEF SettleRewrite
  <2>3. PcChange(o, "failed")
    BY <1>1, <1>9, PcUpdate, PcTypes DEF SettleRewrite
  <2>4. TypeOK'
    BY <1>1, <1>9, <2>2, <2>3 DEF SettleRewrite, TypeOK, PcChange
  <2>5. RunsOK'
    BY <1>9, <2>1, <2>3, PcTypes, RunsAfterPcChange DEF SettleRewrite
  <2>6. QED BY <2>4, <2>5 DEF IndInv
<1>10. CASE Finalize(o)
  <2>1. op[o].msg \in Msg
    BY <1>1, <1>10 DEF Finalize, RunsOK
  <2>2. db' \in [Msg -> Row] /\ mem' \in [Msg -> Row]
    BY <1>1, <1>10, <2>1, PatchType, RowTypes DEF Finalize, TypeOK
  <2>3. op' = [op EXCEPT ![o].pc =
                 IF op[o].kind = "send" THEN "done" ELSE "refreshing"]
    BY <1>10 DEF Finalize
  <2>4. PICK pc \in {"done", "refreshing"} : PcChange(o, pc)
    BY <1>1, <2>3, PcUpdate, PcTypes
  <2>5. TypeOK'
    BY <1>1, <1>10, <2>1, <2>2, <2>4 DEF Finalize, TypeOK, PcChange
  <2>6. RunsOK'
    BY <1>10, <2>1, <2>4, PcTypes, RunsAfterPcChange DEF Finalize
  <2>7. QED BY <2>5, <2>6 DEF IndInv
<1>11. CASE Refresh(o)
  <2>1. op[o].msg \in Msg
    BY <1>1, <1>11 DEF Refresh, RunsOK
  <2>2. mem' \in [Msg -> Row]
    BY <1>1, <1>11, <2>1, ReadBackType DEF Refresh, TypeOK
  <2>3. PcChange(o, "done")
    BY <1>1, <1>11, PcUpdate, PcTypes DEF Refresh
  <2>4. TypeOK'
    BY <1>1, <1>11, <2>2, <2>3 DEF Refresh, TypeOK, PcChange
  <2>5. RunsOK'
    BY <1>11, <2>1, <2>3, PcTypes, RunsAfterPcChange DEF Refresh
  <2>6. QED BY <2>4, <2>5 DEF IndInv
<1>12. CASE ResetFails(o) \/ SettleFails(o) \/ FinalizeFails(o)
  <2>1. op[o].msg \in Msg
    BY <1>1, <1>12 DEF ResetFails, SettleFails, FinalizeFails, RunsOK
  <2>2. PcChange(o, "failed")
    BY <1>1, <1>12, PcUpdate, PcTypes DEF ResetFails, SettleFails, FinalizeFails
  <2>3. mem' \in [Msg -> Row] /\ deleting' \subseteq Msg
    <3>1. CASE ReadBack(db, op[o].msg) /\ UNCHANGED deleting
      BY <1>1, <2>1, <3>1, ReadBackType DEF TypeOK
    <3>2. CASE Cleanup(CleanupTarget(o))
      BY <1>1, <3>2, QuietedType, TargetType DEF Cleanup, TypeOK
    <3>3. QED
      BY <1>12, <3>1, <3>2 DEF ResetFails, SettleFails, FinalizeFails
  <2>4. TypeOK'
    BY <1>1, <1>12, <2>1, <2>2, <2>3
       DEF ResetFails, SettleFails, FinalizeFails, TypeOK, PcChange
  <2>5. RunsOK'
    BY <1>12, <2>1, <2>2, PcTypes, RunsAfterPcChange
       DEF ResetFails, SettleFails, FinalizeFails
  <2>6. QED BY <2>4, <2>5 DEF IndInv
<1>13. QED
  BY <1>3, <1>4, <1>5, <1>6, <1>7, <1>8, <1>9, <1>10, <1>11, <1>12 DEF Advance

\* A step that leaves the runs alone.
LEMMA RunsUnchanged ==
    ASSUME IndInv, UNCHANGED op,
           \A p \in Op : \/ server'[p] \in {server[p], "none", "over"}
                         \/ server[p] = "sent"
    PROVE  RunsOK'
BY DEF IndInv, RunsOK

\* The server's answers.
LEMMA ServerInd ==
    ASSUME IndInv, NEW g \in Op, ServerStep(g)
    PROVE  IndInv'
<1>1. TypeOK /\ RunsOK
  BY DEF IndInv
<1>2. server[g] \in {"sent", "generating"} => op[g].msg \in Msg
  BY <1>1 DEF RunsOK
<1>3. CASE Accept(g)
  <2>1. TypeOK'
    BY <1>1, <1>3 DEF Accept, TypeOK
  <2>2. RunsOK'
    BY <1>1, <1>3, RunsUnchanged DEF Accept, TypeOK
  <2>3. QED BY <2>1, <2>2 DEF IndInv
<1>4. CASE Reject(g)
  <2>1. op[g].msg \in Msg
    BY <1>2, <1>4 DEF Reject
  <2>2. \A p \in Op : server'[p] \in {server[p], "over"}
    BY <1>1, <1>4 DEF Reject, TypeOK
  <2>3. CASE op[g].pc = "live"
    <3>1. /\ PcChange(g, "failing")
          /\ mem' \in [Msg -> Row]
          /\ deleting' \subseteq Msg
      BY <1>1, <1>4, <2>1, <2>3, StreamFailsType DEF Reject
    <3>2. TypeOK'
      BY <1>1, <1>4, <2>1, <3>1, RowTypes, UnattendedType
         DEF Reject, TypeOK, PcChange
    <3>3. RunsOK'
      BY <2>1, <2>2, <3>1, PcTypes, RunsAfterPcChange
    <3>4. QED BY <3>2, <3>3 DEF IndInv
  <2>4. CASE op[g].pc # "live"
    <3>1. TypeOK'
      BY <1>1, <1>4, <2>1, <2>4, RowTypes, UnattendedType DEF Reject, TypeOK
    <3>2. RunsOK'
      BY <1>4, <2>2, <2>4, RunsUnchanged DEF Reject
    <3>3. QED BY <3>1, <3>2 DEF IndInv
  <2>5. QED BY <2>3, <2>4
<1>5. CASE RateLimit(g)
  <2>1. op[g].msg \in Msg /\ op[g].attempt < MaxAttempts
    BY <1>2, <1>5 DEF RateLimit
  <2>2. \A p \in Op : server'[p] \in {server[p], "over"}
    BY <1>1, <1>5 DEF RateLimit, TypeOK
  <2>3. PcChange(g, "connecting")
    BY <1>1, <1>5, PcUpdate, PcTypes DEF RateLimit
  <2>4. TypeOK'
    BY <1>1, <1>5, <2>3, RowTypes DEF RateLimit, TypeOK, PcChange
  <2>5. RunsOK'
    BY <2>1, <2>2, <2>3, PcTypes, RunsAfterPcChange
  <2>6. QED BY <2>4, <2>5 DEF IndInv
<1>6. CASE Chunk(g)
  <2>1. op[g].msg \in Msg /\ mem[op[g].msg] \in Row
    BY <1>1, <1>2, <1>6 DEF Chunk, TypeOK
  <2>2. \A b \in BOOLEAN : [streaming |-> b \/ mem[op[g].msg].streaming,
                            content |-> "partial"] \in Row
    BY <2>1 DEF Row, Contents
  <2>3. mem' \in [Msg -> Row]
    BY <1>1, <1>6, <2>1, <2>2, PatchType DEF Chunk, TypeOK
  <2>4. messageState' \in [Msg -> MessageState]
    BY <1>1, <1>6, <2>1, FlagUpdate DEF Chunk
  <2>5. TypeOK'
    BY <1>1, <1>6, <2>3, <2>4 DEF Chunk, TypeOK
  <2>6. RunsOK'
    BY <1>6, RunsUnchanged DEF Chunk
  <2>7. QED BY <2>5, <2>6 DEF IndInv
<1>7. CASE CompleteToRun(g)
  <2>1. op[g].msg \in Msg
    BY <1>2, <1>7 DEF CompleteToRun
  <2>2. PICK h \in Op : h = messageState[op[g].msg].handlers
    BY <1>7 DEF CompleteToRun
  <2>3. PICK pc \in Pcs : pc = IF op[h].pc = "live" THEN "resolved" ELSE op[h].pc
    BY <1>1, PcTypes DEF TypeOK, Run
  <2>4. PcChange(h, pc)
    <3>1. op' = [op EXCEPT ![h].pc = pc]
      BY <1>7, <2>2, <2>3 DEF CompleteToRun
    <3>2. QED BY <1>1, <3>1, PcUpdate
  <2>5. [mem[op[g].msg] EXCEPT !.content = "full"] \in Row
    BY <1>1, <2>1 DEF TypeOK, Row, Contents
  <2>6. mem' \in [Msg -> Row]
    BY <1>1, <1>7, <2>1, <2>5, PatchType DEF CompleteToRun, TypeOK
  <2>7. TypeOK'
    BY <1>1, <1>7, <2>4, <2>6, RowTypes DEF CompleteToRun, TypeOK, PcChange
  <2>8. RunsOK'
    <3>1. ASSUME NEW p \in Op
          PROVE  op'[p].pc = op[p].pc \/ (op[p].pc = "live" /\ op'[p].pc = "resolved")
      BY <2>3, <2>4 DEF PcChange
    <3>2. \A p \in Op : server'[p] \in {server[p], "over"}
      BY <1>1, <1>7 DEF CompleteToRun, TypeOK
    <3>3. QED BY <1>1, <2>4, <3>1, <3>2 DEF RunsOK, PcChange
  <2>9. QED BY <2>7, <2>8 DEF IndInv
<1>8. CASE CompleteToRecovery(g)
  <2>1. op[g].msg \in Msg
    BY <1>2, <1>8 DEF CompleteToRecovery
  <2>2. mem' \in [Msg -> Row]
    BY <1>1, <1>8, <2>1, PatchType, RowTypes DEF CompleteToRecovery, TypeOK
  <2>3. TypeOK'
    BY <1>1, <1>8, <2>1, <2>2, RowTypes DEF CompleteToRecovery, TypeOK
  <2>4. RunsOK'
    BY <1>1, <1>8, RunsUnchanged DEF CompleteToRecovery, TypeOK
  <2>5. QED BY <2>3, <2>4 DEF IndInv
<1>9. CASE ErrorToRun(g)
  <2>1. op[g].msg \in Msg
    BY <1>2, <1>9 DEF ErrorToRun
  <2>2. PICK e \in Op : e = messageState[op[g].msg].onError
    BY <1>9 DEF ErrorToRun
  <2>3. \A p \in Op : server'[p] \in {server[p], "over"}
    BY <1>1, <1>9 DEF ErrorToRun, TypeOK
  <2>4. messageState' \in [Msg -> MessageState]
    BY <1>1, <1>9, <2>1, FlagUpdate DEF ErrorToRun
  <2>5. tracker' \in [Op -> BOOLEAN]
    BY <1>1, <1>9 DEF ErrorToRun, TypeOK
  <2>6. CASE op[e].pc = "live"
    <3>1. op[e].msg \in Msg /\ StreamFails(e)
      BY <1>1, <1>9, <2>2, <2>6 DEF ErrorToRun, RunsOK
    <3>2. /\ PcChange(e, "failing")
          /\ mem' \in [Msg -> Row]
          /\ deleting' \subseteq Msg
      BY <1>1, <3>1, StreamFailsType
    <3>3. TypeOK'
      BY <1>1, <1>9, <2>1, <2>4, <2>5, <3>2, UnattendedType
         DEF ErrorToRun, TypeOK, PcChange
    <3>4. RunsOK'
      BY <2>3, <3>1, <3>2, PcTypes, RunsAfterPcChange
    <3>5. QED BY <3>3, <3>4 DEF IndInv
  <2>7. CASE op[e].pc # "live"
    <3>1. Cleanup(CleanupTarget(e)) /\ UNCHANGED op
      BY <1>9, <2>2, <2>7 DEF ErrorToRun
    <3>2. mem' \in [Msg -> Row] /\ deleting' \subseteq Msg
      BY <1>1, <3>1, QuietedType, TargetType DEF Cleanup, TypeOK
    <3>3. TypeOK'
      BY <1>1, <1>9, <2>1, <2>4, <2>5, <3>1, <3>2, UnattendedType
         DEF ErrorToRun, TypeOK
    <3>4. RunsOK'
      BY <2>3, <3>1, RunsUnchanged
    <3>5. QED BY <3>3, <3>4 DEF IndInv
  <2>8. QED BY <2>6, <2>7
<1>10. CASE ErrorToRecovery(g)
  <2>1. op[g].msg \in Msg
    BY <1>2, <1>10 DEF ErrorToRecovery
  <2>2. messageState' \in [Msg -> MessageState]
    BY <1>1, <1>10, <2>1, FlagUpdate DEF ErrorToRecovery
  <2>3. TypeOK'
    BY <1>1, <1>10, <2>1, <2>2, UnattendedType DEF ErrorToRecovery, TypeOK
  <2>4. RunsOK'
    BY <1>1, <1>10, RunsUnchanged DEF ErrorToRecovery, TypeOK
  <2>5. QED BY <2>3, <2>4 DEF IndInv
<1>11. CASE Unheard(g)
  <2>1. TypeOK'
    BY <1>1, <1>11 DEF Unheard, TypeOK
  <2>2. RunsOK'
    BY <1>1, <1>11, RunsUnchanged DEF Unheard, TypeOK
  <2>3. QED BY <2>1, <2>2 DEF IndInv
<1>12. QED
  BY <1>3, <1>4, <1>5, <1>6, <1>7, <1>8, <1>9, <1>10, <1>11 DEF ServerStep

\* Steps of a row: commits of the database, timers, the user.
LEMMA RowInd ==
    ASSUME IndInv, NEW m \in Msg, RowStep(m)
    PROVE  IndInv'
<1>1. TypeOK /\ RunsOK
  BY DEF IndInv
<1>2. CASE DeletionOver(m)
  <2>0. DeletionEnds(m)
    BY <1>2 DEF DeletionOver, DeleteCommits, DeleteFails
  <2>1. TargetsAfter(m) \in SUBSET Msg
    BY <1>1, TargetType DEF TargetsAfter, AwaitingDeletion
  <2>2. deleting' \subseteq Msg
    BY <1>1, <2>0, <2>1 DEF DeletionEnds, TypeOK
  <2>3. mem' \in [Msg -> Row] /\ db' \in [Msg -> Row] /\ leftOpen' \subseteq Msg
    BY <1>1, <1>2, RowTypes DEF DeletionOver, DeleteCommits, DeleteFails, TypeOK
  <2>4. op' = [o \in Op |-> IF o \in AwaitingDeletion(m)
                            THEN [op[o] EXCEPT !.pc = "failed"] ELSE op[o]]
    BY <2>0 DEF DeletionEnds
  <2>5. \A o \in Op : op[o] \in Run /\ [op[o] EXCEPT !.pc = "failed"] \in Run
    BY <1>1, PcTypes, PcRecord
  <2>6. op' \in [Op -> Run]
    BY <2>4, <2>5
  <2>7. TypeOK'
    BY <1>1, <2>0, <2>2, <2>3, <2>6 DEF DeletionEnds, TypeOK
  <2>8. RunsOK'
    <3>1. \A o \in Op : /\ op'[o].pc \in {op[o].pc, "failed"}
                        /\ op'[o].kind = op[o].kind
                        /\ op'[o].msg = op[o].msg
                        /\ op'[o].attempt = op[o].attempt
      BY <2>4, <2>5 DEF Run
    <3>2. UNCHANGED server
      BY <2>0 DEF DeletionEnds
    <3>3. QED BY <1>1, <3>1, <3>2 DEF RunsOK
  <2>9. QED BY <2>7, <2>8 DEF IndInv
<1>3. CASE MarkCommits(m)
  <2>1. db' \in [Msg -> Row] /\ mem' \in [Msg -> Row]
    <3>1. db' \in [Msg -> Row]
      BY <1>1, <1>3, PatchType, RowTypes DEF MarkCommits, TypeOK
    <3>2. QED
      BY <1>1, <1>3, <3>1, ReadBackType DEF MarkCommits
  <2>2. TypeOK'
    BY <1>1, <1>3, <2>1 DEF MarkCommits, TypeOK
  <2>3. RunsOK'
    BY <1>3, RunsUnchanged DEF MarkCommits
  <2>4. QED BY <2>2, <2>3 DEF IndInv
<1>4. ASSUME NEW t \in {"attached", "detached"}, RecoveryTimer(m, t)
      PROVE  IndInv'
  <2>1. TypeOK'
    BY <1>1, <1>4 DEF RecoveryTimer, TypeOK
  <2>2. RunsOK'
    BY <1>4, RunsUnchanged DEF RecoveryTimer
  <2>3. QED BY <2>1, <2>2 DEF IndInv
<1>5. CASE Abort(m) \/ ServerDeletes(m) \/ UserDeletes(m)
  <2>1. env' \in 0..MaxEnv
    BY <1>1, <1>5, ConstantsAssumption
       DEF Abort, ServerDeletes, UserDeletes, Event, TypeOK
  <2>2. TypeOK'
    BY <1>1, <1>5, <2>1, RowTypes, UnattendedType
       DEF Abort, ServerDeletes, UserDeletes, TypeOK
  <2>3. RunsOK'
    BY <1>5, RunsUnchanged DEF Abort, ServerDeletes, UserDeletes
  <2>4. QED BY <2>2, <2>3 DEF IndInv
<1>6. CASE MarkFails(m)
  <2>1. TypeOK'
    BY <1>1, <1>6 DEF MarkFails, TypeOK
  <2>2. RunsOK'
    BY <1>6, RunsUnchanged DEF MarkFails
  <2>3. QED BY <2>1, <2>2 DEF IndInv
<1>7. QED
  BY <1>2, <1>3, <1>4, <1>5, <1>6 DEF RowStep, MarkOver

\* Steps of the page.
LEMMA PageInd ==
    ASSUME IndInv, PageStep
    PROVE  IndInv'
<1>1. TypeOK /\ RunsOK
  BY DEF IndInv
<1>2. NoRows \in [Msg -> Row]
  BY RowTypes DEF NoRows
<1>3. CASE OpenChat
  <2>1. TypeOK'
    BY <1>1, <1>3, ResumeType, ConstantsAssumption DEF OpenChat, TypeOK
  <2>2. RunsOK'
    BY <1>3, RunsUnchanged DEF OpenChat
  <2>3. QED BY <2>1, <2>2 DEF IndInv
<1>4. ASSUME NEW s \in BOOLEAN, FirstLoad(s) PROVE IndInv'
  <2>1. TypeOK'
    BY <1>1, <1>4, LoadType DEF FirstLoad, TypeOK
  <2>2. RunsOK'
    BY <1>4, RunsUnchanged DEF FirstLoad
  <2>3. QED BY <2>1, <2>2 DEF IndInv
<1>5. CASE OpenHistory
  <2>1. TypeOK'
    BY <1>1, <1>5, ResumeType, ConstantsAssumption DEF OpenHistory, Event, TypeOK
  <2>2. RunsOK'
    BY <1>5, RunsUnchanged DEF OpenHistory
  <2>3. QED BY <2>1, <2>2 DEF IndInv
<1>6. CASE SwitchConversation
  <2>1. TypeOK'
    <3>1. shown' \in BOOLEAN /\ mem' \in [Msg -> Row]
      BY <1>1, <1>6, LoadType DEF SwitchConversation, TypeOK
    <3>2. QED
      BY <1>1, <1>6, <3>1, ConstantsAssumption
         DEF SwitchConversation, Event, TypeOK
  <2>2. RunsOK'
    BY <1>6, RunsUnchanged DEF SwitchConversation
  <2>3. QED BY <2>1, <2>2 DEF IndInv
<1>7. ASSUME NEW rows \in SUBSET Msg, NewChat(rows) PROVE IndInv'
  <2>1. TypeOK'
    BY <1>1, <1>7, RowTypes, ConstantsAssumption DEF NewChat, Event, TypeOK
  <2>2. RunsOK'
    BY <1>7, RunsUnchanged DEF NewChat
  <2>3. QED BY <2>1, <2>2 DEF IndInv
<1>8. CASE Crash
  <2>1. \A o \in Op : op[o] \in Run /\ [op[o] EXCEPT !.pc = "lost"] \in Run
    BY <1>1, PcTypes, PcRecord
  <2>2. op' \in [Op -> Run]
    BY <1>8, <2>1 DEF Crash
  <2>3. TypeOK'
    <3>1. /\ messageState' \in [Msg -> MessageState]
          /\ tracker' \in [Op -> BOOLEAN]
          /\ timers' \in [Msg -> SUBSET {"attached", "detached"}]
          /\ marks' \subseteq Msg /\ deleting' \subseteq Msg
          /\ leftOpen' \subseteq Msg
      BY <1>8, RowTypes DEF Crash
    <3>2. env' \in 0..MaxEnv
      BY <1>1, <1>8, ConstantsAssumption DEF Crash, Event, TypeOK
    <3>3. QED
      BY <1>1, <1>2, <1>8, <2>2, <3>1, <3>2 DEF Crash, TypeOK
  <2>4. RunsOK'
    <3>1. \A o \in Op : /\ op'[o].pc \in {op[o].pc, "lost"}
                        /\ op'[o].kind = op[o].kind
                        /\ op'[o].msg = op[o].msg
                        /\ op'[o].attempt = op[o].attempt
      BY <1>8, <2>1 DEF Crash, Run
    <3>2. UNCHANGED server
      BY <1>8 DEF Crash
    <3>3. QED BY <1>1, <3>1, <3>2 DEF RunsOK
  <2>5. QED BY <2>3, <2>4 DEF IndInv
<1>9. QED
  BY <1>3, <1>4, <1>5, <1>6, <1>7, <1>8 DEF PageStep

\* Every step of every handler keeps it.
LEMMA NextInd ==
    ASSUME IndInv, [Next]_vars
    PROVE  IndInv'
<1>1. CASE UNCHANGED vars
  BY <1>1 DEF vars, IndInv, TypeOK, RunsOK
<1>2. ASSUME NEW o \in Op, Advance(o) PROVE IndInv'
  <2>1. CASE DeletionOver(op[o].msg)
    <3>1. op[o].msg \in Msg
      BY <2>1, DeletionOfMessage DEF IndInv
    <3>2. QED
      BY <2>1, <3>1, RowInd DEF RowStep
  <2>2. QED
    BY <1>2, <2>1, AdvanceInd
<1>3. QED
  BY <1>1, <1>2, StartInd, ServerInd, RowInd, PageInd DEF Next

\* The variables of the composer, the store, the socket layer and the
\* database keep their types, through every step of every handler.
THEOREM TypeCorrect == Spec => []TypeOK
<1>1. Init => IndInv
  BY InitInd
<1>2. IndInv /\ [Next]_vars => IndInv'
  BY NextInd
<1>3. IndInv => TypeOK
  BY DEF IndInv
<1>4. QED
  BY <1>1, <1>2, <1>3, PTL DEF Spec

-----------------------------------------------------------------------------
(* Which answers a failing send can delete.                                *)

\* A new row has one creator; what a pending send counts as completed before
\* it was; and its cleanup spares that.
OneCreator ==
    \A p, q \in Op :
        /\ p # q /\ op[p].kind # "rewrite" /\ op[q].kind # "rewrite"
        /\ op[p].msg = op[q].msg
        => op[p].msg = None

CreatedByRuns ==
    \A p \in Op : op[p].kind # "rewrite" /\ op[p].msg # None
                  => op[p].msg \in created

BeforeIsDone ==
    \A p \in Op : SendPending(p) => op[p].before \subseteq AnswersCompleted

CleanupInv ==
    /\ OneCreator /\ CreatedByRuns /\ BeforeIsDone
    /\ CleanupSparesEarlierAnswers

\* Most steps move a run to a later pc at most.
Forward(p) ==
    /\ op'[p].kind = op[p].kind
    /\ op'[p].msg = op[p].msg
    /\ op'[p].view = op[p].view
    /\ op'[p].before = op[p].before
    /\ op[p].pc = "done" => op'[p].pc = "done"
    /\ SendPending(p)' => SendPending(p)

\* Moving the pc of one run to a later one moves all runs forward.
LEMMA ForwardPc ==
    ASSUME NEW o \in Op, NEW pc, PcChange(o, pc), op[o].pc # "done",
           pc \in {"failed", "lost", "done", "refreshing"}
             \/ op[o].pc \in {"creating", "connecting", "live", "resolved",
                              "failing"}
    PROVE  \A p \in Op : Forward(p)
BY DEF PcChange, Forward, SendPending

\* A step whose runs only move forward keeps the invariant, as long as it
\* changes neither the ids handed out nor those remembered.
LEMMA ForwardKeepsCleanup ==
    ASSUME IndInv, CleanupInv, \A p \in Op : Forward(p),
           UNCHANGED <<created, streamingAssistantId>>
    PROVE  CleanupInv'
<1>1. OneCreator' /\ CreatedByRuns'
  BY DEF CleanupInv, OneCreator, CreatedByRuns, Forward
<1>2. AnswersCompleted \subseteq AnswersCompleted'
  BY DEF AnswersCompleted, Forward
<1>3. BeforeIsDone'
  BY <1>2 DEF CleanupInv, BeforeIsDone, Forward
<1>4. \A p \in Op : CleanupTarget(p)' = CleanupTarget(p)
  BY DEF CleanupTarget, Forward
<1>5. CleanupSparesEarlierAnswers'
  BY <1>4 DEF CleanupInv, CleanupSparesEarlierAnswers, Forward
<1>6. QED
  BY <1>1, <1>3, <1>5 DEF CleanupInv

\* The steps of the runs that only move forward.
LEMMA ForwardSteps ==
    ASSUME IndInv, NEW o \in Op,
           \/ CreateFails(o) \/ ResetRow(o) \/ Connect(o) \/ ConnectFails(o)
           \/ EmitFails(o) \/ Timeout(o) \/ SettleRewrite(o) \/ Refresh(o)
           \/ ResetFails(o) \/ SettleFails(o) \/ FinalizeFails(o)
           \/ ServerStep(o)
    PROVE  /\ \A p \in Op : Forward(p)
           /\ UNCHANGED <<created, streamingAssistantId>>
<1>1. TypeOK /\ op[o] \in Run
  BY DEF IndInv, TypeOK
<1>2. CASE UNCHANGED op /\ UNCHANGED <<created, streamingAssistantId>>
  BY <1>2 DEF Forward, SendPending
<1>3. CASE CreateFails(o)
  <2>1. PcChange(o, "failed")
    BY <1>1, <1>3, PcUpdate, PcTypes DEF CreateFails
  <2>2. QED
    BY <1>3, <2>1, ForwardPc DEF CreateFails
<1>4. CASE ResetRow(o)
  <2>1. PICK pc \in {"connecting", "failed"} : op' = [op EXCEPT ![o].pc = pc]
    BY <1>4 DEF ResetRow
  <2>2. PcChange(o, pc)
    BY <1>1, <2>1, PcUpdate, PcTypes
  <2>3. QED
    BY <1>4, <2>2, ForwardPc DEF ResetRow
<1>5. CASE Connect(o)
  <2>1. /\ op'[o] = [op[o] EXCEPT !.pc = "live", !.attempt = op[o].attempt + 1]
        /\ \A p \in Op \ {o} : op'[p] = op[p]
    BY <1>1, <1>5 DEF Connect, TypeOK
  <2>2. Forward(o)
    BY <1>1, <1>5, <2>1 DEF Connect, Forward, SendPending, Run
  <2>3. \A p \in Op \ {o} : Forward(p)
    BY <2>1 DEF Forward, SendPending
  <2>4. QED
    BY <1>5, <2>2, <2>3 DEF Connect
<1>6. CASE ConnectFails(o) \/ EmitFails(o) \/ Timeout(o)
  <2>1. PcChange(o, "failing")
    BY <1>1, <1>6, PcUpdate, PcTypes
       DEF ConnectFails, EmitFails, Timeout, StreamFails
  <2>2. QED
    BY <1>6, <2>1, ForwardPc DEF ConnectFails, EmitFails, Timeout
<1>7. CASE \/ SettleRewrite(o) \/ ResetFails(o) \/ SettleFails(o)
           \/ FinalizeFails(o)
  <2>1. PcChange(o, "failed")
    BY <1>1, <1>7, PcUpdate, PcTypes
       DEF SettleRewrite, ResetFails, SettleFails, FinalizeFails
  <2>2. QED
    BY <1>7, <2>1, ForwardPc
       DEF SettleRewrite, ResetFails, SettleFails, FinalizeFails
<1>8. CASE Refresh(o)
  <2>1. PcChange(o, "done")
    BY <1>1, <1>8, PcUpdate, PcTypes DEF Refresh
  <2>2. QED
    BY <1>8, <2>1, ForwardPc DEF Refresh
<1>9. CASE Reject(o)
  <2>1. CASE op[o].pc = "live"
    <3>1. PcChange(o, "failing")
      BY <1>1, <1>9, <2>1, PcUpdate, PcTypes DEF Reject, StreamFails
    <3>2. QED
      BY <1>9, <2>1, <3>1, ForwardPc DEF Reject
  <2>2. QED
    BY <1>2, <1>9, <2>1 DEF Reject
<1>10. CASE RateLimit(o)
  <2>1. PcChange(o, "connecting")
    BY <1>1, <1>10, PcUpdate, PcTypes DEF RateLimit
  <2>2. QED
    BY <1>10, <2>1, ForwardPc DEF RateLimit
<1>11. CASE CompleteToRun(o)
  <2>1. PICK h \in Op : /\ h = messageState[op[o].msg].handlers
                        /\ op' = [op EXCEPT ![h].pc =
                                    IF @ = "live" THEN "resolved" ELSE @]
    BY <1>11 DEF CompleteToRun
  <2>2. CASE op[h].pc = "live"
    <3>1. PcChange(h, "resolved")
      BY <1>1, <2>1, <2>2, PcUpdate, PcTypes
    <3>2. QED
      BY <1>11, <2>2, <3>1, ForwardPc DEF CompleteToRun
  <2>3. CASE op[h].pc # "live"
    <3>1. op[h].pc \in Pcs
      BY <1>1 DEF TypeOK, Run
    <3>2. PcChange(h, op[h].pc)
      BY <1>1, <2>1, <2>3, <3>1, PcUpdate
    <3>3. QED
      BY <1>11, <3>2 DEF CompleteToRun, Forward, PcChange, SendPending
  <2>4. QED BY <2>2, <2>3
<1>12. CASE ErrorToRun(o)
  <2>1. PICK e \in Op : e = messageState[op[o].msg].onError
    BY <1>12 DEF ErrorToRun
  <2>2. CASE op[e].pc = "live"
    <3>1. PcChange(e, "failing")
      BY <1>1, <1>12, <2>1, <2>2, PcUpdate, PcTypes DEF ErrorToRun, StreamFails
    <3>2. QED
      BY <1>12, <2>2, <3>1, ForwardPc DEF ErrorToRun
  <2>3. QED
    BY <1>2, <1>12, <2>1, <2>2 DEF ErrorToRun
<1>13. QED
  BY <1>2, <1>3, <1>4, <1>5, <1>6, <1>7, <1>8, <1>9, <1>10, <1>11, <1>12
     DEF ServerStep, Accept, Chunk, CompleteToRecovery, ErrorToRecovery, Unheard

\* Database commits, timers, the user and the page move runs forward, too.
LEMMA ForwardRowSteps ==
    ASSUME IndInv, PageStep \/ \E m \in Msg : RowStep(m)
    PROVE  /\ \A p \in Op : Forward(p)
           /\ UNCHANGED <<created, streamingAssistantId>>
<1>1. TypeOK
  BY DEF IndInv
<1>2. \A p \in Op : \A pc \in {"failed", "lost"} :
          op[p] \in Run /\ [op[p] EXCEPT !.pc = pc] \in Run
  BY <1>1, PcTypes, PcRecord
<1>3. ASSUME NEW m \in Msg, DeletionOver(m)
      PROVE  /\ \A p \in Op : Forward(p)
             /\ UNCHANGED <<created, streamingAssistantId>>
  <2>0. DeletionEnds(m)
    BY <1>3 DEF DeletionOver, DeleteCommits, DeleteFails
  <2>1. ASSUME NEW p \in Op
        PROVE  \/ op'[p] = op[p]
               \/ op[p].pc = "failing" /\ op'[p] = [op[p] EXCEPT !.pc = "failed"]
    BY <2>0 DEF DeletionEnds, AwaitingDeletion
  <2>2. QED
    BY <1>2, <2>0, <2>1 DEF DeletionEnds, Forward, SendPending, Run
<1>4. CASE Crash
  <2>1. ASSUME NEW p \in Op
        PROVE  \/ op'[p] = op[p]
               \/ op[p].pc # "done" /\ op'[p] = [op[p] EXCEPT !.pc = "lost"]
    BY <1>4 DEF Crash, Ended
  <2>2. QED
    BY <1>2, <1>4, <2>1 DEF Crash, Forward, SendPending, Run
<1>5. CASE UNCHANGED op /\ UNCHANGED <<created, streamingAssistantId>>
  BY <1>5 DEF Forward, SendPending
<1>6. QED
  BY <1>3, <1>4, <1>5
     DEF PageStep, RowStep, MarkOver, OpenChat, FirstLoad, OpenHistory,
         SwitchConversation, NewChat, MarkCommits, MarkFails, RecoveryTimer,
         Abort, ServerDeletes, UserDeletes

\* Every step keeps the cleanup invariant: only SendPrepared, CreateRow and
\* Finalize touch what it speaks of otherwise than by moving a run forward.
LEMMA NextCleanup ==
    ASSUME IndInv, CleanupInv, [Next]_vars
    PROVE  CleanupInv'
<1>1. TypeOK /\ RunsOK
  BY DEF IndInv
<1>2. CASE UNCHANGED vars
  BY <1>2 DEF vars, CleanupInv, OneCreator, CreatedByRuns, BeforeIsDone,
              CleanupSparesEarlierAnswers, CleanupTarget, SendPending,
              AnswersCompleted
<1>3. ASSUME NEW o \in Op, Start(o) PROVE CleanupInv'
  <2>1. /\ op[o].pc = "idle" /\ op[o].msg = None
        /\ \A p \in Op \ {o} : op'[p] = op[p]
        /\ UNCHANGED <<created, streamingAssistantId>>
    BY <1>1, <1>3 DEF Start, SendStart, ResendStart, RewriteStart, TypeOK, RunsOK
  <2>2. /\ op'[o].kind # "rewrite" => op'[o].msg = None
        /\ op'[o].kind = "send" => op'[o].pc = "preparing"
        /\ op'[o].pc # "done"
    <3>1. op[o] \in Run
      BY <1>1 DEF TypeOK
    <3>2. CASE SendStart(o)
      BY <1>1, <2>1, <3>1, <3>2 DEF SendStart, TypeOK, Run
    <3>3. CASE ResendStart(o)
      BY <1>1, <2>1, <3>1, <3>3 DEF ResendStart, TypeOK, Run
    <3>4. CASE \E m \in Msg : RewriteStart(o, m)
      BY <1>1, <2>1, <3>1, <3>4 DEF RewriteStart, TypeOK, Run
    <3>5. QED
      BY <1>3, <3>2, <3>3, <3>4 DEF Start
  <2>3. OneCreator' /\ CreatedByRuns'
    BY <2>1, <2>2 DEF CleanupInv, OneCreator, CreatedByRuns
  <2>4. AnswersCompleted \subseteq AnswersCompleted'
    BY <2>1 DEF AnswersCompleted
  <2>5. BeforeIsDone'
    BY <2>1, <2>2, <2>4 DEF CleanupInv, BeforeIsDone, SendPending
  <2>6. CleanupSparesEarlierAnswers'
    BY <2>1, <2>2
       DEF CleanupInv, CleanupSparesEarlierAnswers, CleanupTarget, SendPending
  <2>7. QED BY <2>3, <2>5, <2>6 DEF CleanupInv
<1>4. ASSUME NEW o \in Op, SendPrepared(o) PROVE CleanupInv'
  <2>1. op[o] \in Run /\ op[o].view \in 0..MaxEnv
    BY <1>1 DEF TypeOK, Run
  <2>2. /\ op'[o] = [op[o] EXCEPT !.pc = "creating", !.before = AnswersCompleted]
        /\ \A p \in Op \ {o} : op'[p] = op[p]
        /\ op[o].pc = "preparing" /\ created' = created
    BY <1>1, <1>4 DEF SendPrepared, TypeOK
  <2>3. \A p \in Op :
          /\ op'[p].kind = op[p].kind /\ op'[p].msg = op[p].msg
          /\ op'[p].view = op[p].view
          /\ op'[p].pc = IF p = o THEN "creating" ELSE op[p].pc
          /\ op'[p].before = IF p = o THEN AnswersCompleted ELSE op[p].before
    BY <2>1, <2>2 DEF Run
  <2>4. \A v \in 0..MaxEnv : streamingAssistantId'[v] =
            IF v = op[o].view THEN None ELSE streamingAssistantId[v]
    BY <1>1, <1>4 DEF SendPrepared, TypeOK
  <2>5. OneCreator' /\ CreatedByRuns'
    BY <2>2, <2>3 DEF CleanupInv, OneCreator, CreatedByRuns
  <2>6. AnswersCompleted \subseteq AnswersCompleted'
    BY <2>2, <2>3 DEF AnswersCompleted
  <2>7. BeforeIsDone'
    BY <2>2, <2>3, <2>6 DEF CleanupInv, BeforeIsDone, SendPending
  <2>8. \A p \in Op : CleanupTarget(p)' \subseteq CleanupTarget(p)
    <3>1. \A p \in Op : op[p].view \in 0..MaxEnv
      BY <1>1 DEF TypeOK, Run
    <3>2. QED
      BY <2>3, <2>4, <3>1 DEF CleanupTarget
  <2>9. CleanupTarget(o)' = {}
    BY <2>1, <2>3, <2>4 DEF CleanupTarget
  <2>10. CleanupSparesEarlierAnswers'
    BY <2>2, <2>8, <2>9 DEF CleanupInv, CleanupSparesEarlierAnswers, SendPending
  <2>11. QED BY <2>5, <2>7, <2>10 DEF CleanupInv
<1>5. ASSUME NEW o \in Op, NEW m \in Msg, CreateRow(o, m) PROVE CleanupInv'
  <2>1. op[o] \in Run
    BY <1>1 DEF TypeOK
  <2>2. /\ op'[o] = [op[o] EXCEPT !.pc = "connecting", !.msg = m]
        /\ \A p \in Op \ {o} : op'[p] = op[p]
        /\ op[o].pc = "creating" /\ created' = created \cup {m}
        /\ m \notin created /\ UNCHANGED streamingAssistantId
    BY <1>1, <1>5 DEF CreateRow, TypeOK
  <2>3. \A p \in Op :
          /\ op'[p].kind = op[p].kind /\ op'[p].view = op[p].view
          /\ op'[p].before = op[p].before
          /\ op'[p].msg = IF p = o THEN m ELSE op[p].msg
          /\ op'[p].pc = IF p = o THEN "connecting" ELSE op[p].pc
    BY <2>1, <2>2 DEF Run
  <2>4. m # None
    BY ConstantsAssumption
  <2>5. OneCreator' /\ CreatedByRuns'
    BY <2>2, <2>3, <2>4 DEF CleanupInv, OneCreator, CreatedByRuns
  <2>6. AnswersCompleted \subseteq AnswersCompleted'
    BY <2>2, <2>3 DEF AnswersCompleted
  <2>7. BeforeIsDone'
    BY <2>2, <2>3, <2>6 DEF CleanupInv, BeforeIsDone, SendPending
  <2>8. CleanupSparesEarlierAnswers'
    BY <2>2, <2>3
       DEF CleanupInv, CleanupSparesEarlierAnswers, CleanupTarget, SendPending
  <2>9. QED BY <2>5, <2>7, <2>8 DEF CleanupInv
<1>6. ASSUME NEW o \in Op, Finalize(o) PROVE CleanupInv'
  <2>1. PICK pc \in {"done", "refreshing"} : op' = [op EXCEPT ![o].pc = pc]
    BY <1>6 DEF Finalize
  <2>2. PcChange(o, pc)
    BY <1>1, <2>1, PcUpdate, PcTypes
  <2>3. \A p \in Op : Forward(p)
    BY <1>6, <2>2, ForwardPc DEF Finalize
  <2>4. OneCreator' /\ CreatedByRuns'
    BY <1>6, <2>3 DEF CleanupInv, OneCreator, CreatedByRuns, Forward, Finalize
  <2>5. AnswersCompleted \subseteq AnswersCompleted'
    BY <2>3 DEF AnswersCompleted, Forward
  <2>6. BeforeIsDone'
    BY <2>3, <2>5 DEF CleanupInv, BeforeIsDone, Forward
  <2>7. op[o].msg \in Msg /\ op[o].msg # None /\ op[o].pc = "resolved"
    BY <1>1, <1>6, ConstantsAssumption DEF Finalize, RunsOK
  <2>8. op[o].kind = "send" => op[o].msg \notin AnswersCompleted
    BY <2>7 DEF AnswersCompleted, CleanupInv, OneCreator
  <2>9. ASSUME NEW p \in Op
        PROVE  \/ CleanupTarget(p)' = CleanupTarget(p)
               \/ op[o].kind = "send" /\ CleanupTarget(p)' = {op[o].msg}
    <3>1. op'[p].kind = op[p].kind /\ op'[p].view = op[p].view
          /\ op[p].view \in 0..MaxEnv
      BY <1>1, <2>3 DEF Forward, TypeOK, Run
    <3>2. \A v \in 0..MaxEnv : streamingAssistantId'[v] =
              IF op[o].kind = "send" /\ v = op[o].view
              THEN op[o].msg ELSE streamingAssistantId[v]
      BY <1>1, <1>6 DEF Finalize, TypeOK
    <3>3. QED
      BY <2>7, <3>1, <3>2 DEF CleanupTarget
  <2>10. CleanupSparesEarlierAnswers'
    BY <2>3, <2>8, <2>9
       DEF CleanupInv, CleanupSparesEarlierAnswers, BeforeIsDone, Forward
  <2>11. QED BY <2>4, <2>6, <2>10 DEF CleanupInv
<1>7. ASSUME NEW o \in Op, Advance(o) PROVE CleanupInv'
  <2>1. CASE DeletionOver(op[o].msg)
    <3>1. op[o].msg \in Msg
      BY <1>1, <2>1, DeletionOfMessage
    <3>2. QED
      BY <2>1, <3>1, ForwardRowSteps, ForwardKeepsCleanup DEF RowStep
  <2>2. CASE \/ CreateFails(o) \/ ResetRow(o) \/ Connect(o) \/ ConnectFails(o)
             \/ EmitFails(o) \/ Timeout(o) \/ SettleRewrite(o) \/ Refresh(o)
             \/ ResetFails(o) \/ SettleFails(o) \/ FinalizeFails(o)
    BY <2>2, ForwardSteps, ForwardKeepsCleanup
  <2>3. QED
    BY <1>4, <1>5, <1>6, <1>7, <2>1, <2>2 DEF Advance
<1>8. ASSUME NEW o \in Op, ServerStep(o) PROVE CleanupInv'
  BY <1>8, ForwardSteps, ForwardKeepsCleanup
<1>9. CASE PageStep \/ \E m \in Msg : RowStep(m)
  BY <1>9, ForwardRowSteps, ForwardKeepsCleanup
<1>10. QED
  BY <1>2, <1>3, <1>7, <1>8, <1>9 DEF Next

\* However many sends are in flight and however they fail, the row that the
\* error path of handleSendMessage would delete through streamingAssistantId
\* is never an answer that was complete when that send was prepared.
THEOREM CleanupSafe == Spec => []CleanupSparesEarlierAnswers
<1>1. Init => IndInv /\ CleanupInv
  <2>1. Init => CleanupInv
    BY DEF Init, IdleRun, CleanupInv, OneCreator, CreatedByRuns, BeforeIsDone,
           CleanupSparesEarlierAnswers, SendPending
  <2>2. QED BY <2>1, InitInd
<1>2. IndInv /\ CleanupInv /\ [Next]_vars => (IndInv /\ CleanupInv)'
  BY NextInd, NextCleanup
<1>3. IndInv /\ CleanupInv => CleanupSparesEarlierAnswers
  BY DEF CleanupInv
<1>4. QED
  BY <1>1, <1>2, <1>3, PTL DEF Spec

-----------------------------------------------------------------------------
(* What the table holds, and the steps of one row.                         *)

\* A row is absent, open, answered or abandoned; one that was never created
\* is absent.
RowsShaped ==
    \A m \in Msg :
        /\ db[m] \in {NoRow, NewRow, FinalRow, Quiet(NewRow)}
        /\ m \notin created => db[m] = NoRow

DbMove(m) ==
    \/ db'[m] = db[m] /\ (m \in created' <=> m \in created)
    \/ /\ IsRow(db[m]) /\ created' = created
       /\ db'[m] \in {Quiet(db[m]), NewRow, FinalRow}
    \/ db'[m] = NoRow /\ created' = created
    \/ m \notin created /\ db'[m] = NewRow /\ m \in created'

\* Rows move one at a time, but for those a new chat closes.
Alone ==
    \A m, n \in Msg :
        m # n /\ db'[m] # db[m] /\ db'[n] # db[n]
        => db'[m] = Quiet(db[m]) /\ db'[n] = Quiet(db[n])

DbMoves == Alone /\ \A m \in Msg : DbMove(m)

\* Clearing the flag of a closed or absent row changes nothing.
LEMMA QuietRows ==
    /\ Quiet(NoRow) = NoRow /\ Quiet(FinalRow) = FinalRow
    /\ Quiet(Quiet(NewRow)) = Quiet(NewRow)
    /\ Quiet(NewRow) = [streaming |-> FALSE, content |-> "empty"]
<1>1. ASSUME NEW r \in Row
      PROVE  Quiet(r) = [streaming |-> FALSE, content |-> r.content]
  <2>1. /\ Quiet(r) \in Row
        /\ Quiet(r).streaming = FALSE /\ Quiet(r).content = r.content
    BY <1>1 DEF Quiet, Row
  <2>2. [streaming |-> FALSE, content |-> r.content] \in Row
    BY <1>1 DEF Row
  <2>3. \A s, t \in Row : s.streaming = t.streaming /\ s.content = t.content
                          => s = t
    BY DEF Row
  <2>4. QED BY <2>1, <2>2, <2>3
<1>2. NoRow \in Row /\ FinalRow \in Row /\ NewRow \in Row
  BY DEF Row, NoRow, FinalRow, NewRow, Contents
<1>3. Quiet(NoRow) = NoRow /\ Quiet(FinalRow) = FinalRow
  BY <1>1, <1>2 DEF NoRow, FinalRow
<1>4. Quiet(NewRow) = [streaming |-> FALSE, content |-> "empty"]
  BY <1>1, <1>2 DEF NewRow
<1>5. Quiet(NewRow) \in Row /\ Quiet(NewRow).content = "empty"
  BY <1>4 DEF Row, Contents
<1>6. Quiet(Quiet(NewRow)) = [streaming |-> FALSE, content |-> "empty"]
  BY <1>1, <1>5
<1>7. QED BY <1>3, <1>4, <1>6

\* A patch moves the row it names, if that exists, and no other.
LEMMA PatchMoves ==
    ASSUME TypeOK, NEW n \in Msg, NEW row \in {Quiet(db[n]), NewRow, FinalRow},
           db' = Patch(db, n, row), created' = created
    PROVE  DbMoves
BY DEF DbMoves, DbMove, Alone, Patch, TypeOK

\* Every step moves the table as DbMoves says.
LEMMA StepMoves ==
    ASSUME IndInv, RowsShaped, [Next]_vars
    PROVE  DbMoves
<1>1. TypeOK /\ RunsOK
  BY DEF IndInv
<1>2. CASE UNCHANGED <<db, created>>
  BY <1>2 DEF DbMoves, DbMove, Alone
<1>3. ASSUME NEW o \in Op, NEW m \in Msg, CreateRow(o, m) PROVE DbMoves
  BY <1>1, <1>3 DEF CreateRow, DbMoves, DbMove, Alone, TypeOK
<1>4. ASSUME NEW o \in Op, ResetRow(o) \/ SettleRewrite(o) \/ Finalize(o)
      PROVE  DbMoves
  <2>1. op[o].msg \in Msg
    BY <1>1, <1>4 DEF ResetRow, SettleRewrite, Finalize, RunsOK
  <2>2. QED
    BY <1>1, <1>4, <2>1, PatchMoves DEF ResetRow, SettleRewrite, Finalize
<1>5. ASSUME NEW m \in Msg, DeletionOver(m) \/ UserDeletes(m)
      PROVE  DbMoves
  <2>1. CASE DeleteCommits(m) \/ UserDeletes(m)
    BY <1>1, <2>1
       DEF DeleteCommits, DeletionEnds, UserDeletes, DbMoves, DbMove, Alone,
           TypeOK
  <2>2. CASE DeleteFails(m)
    BY <1>2, <2>2 DEF DeleteFails, DeletionEnds
  <2>3. QED BY <1>5, <2>1, <2>2 DEF DeletionOver
<1>6. ASSUME NEW m \in Msg, MarkOver(m) PROVE DbMoves
  BY <1>1, <1>2, <1>6, PatchMoves DEF MarkOver, MarkCommits, MarkFails
<1>7. ASSUME NEW rows \in SUBSET Msg, NewChat(rows) PROVE DbMoves
  <2>1. \A m \in Msg : db'[m] \in {db[m], Quiet(db[m])}
    BY <1>7 DEF NewChat
  <2>2. \A m \in Msg : ~IsRow(db[m]) => Quiet(db[m]) = db[m]
    <3>1. ASSUME NEW m \in Msg, ~IsRow(db[m]) PROVE db[m] = NoRow
      BY <3>1, QuietRows DEF RowsShaped, IsRow, NewRow, FinalRow
    <3>2. QED BY <3>1, QuietRows
  <2>3. Alone
    BY <2>1 DEF Alone
  <2>4. ASSUME NEW m \in Msg PROVE DbMove(m)
    BY <1>7, <2>1, <2>2 DEF NewChat, DbMove
  <2>5. QED BY <2>3, <2>4 DEF DbMoves
<1>8. QED
  <2>1. ASSUME NEW o \in Op, Start(o) \/ ServerStep(o) PROVE DbMoves
    BY <1>2, <2>1
       DEF Start, SendStart, ResendStart, RewriteStart, ServerStep, Accept,
           Reject, RateLimit, Chunk, CompleteToRun, CompleteToRecovery,
           ErrorToRun, ErrorToRecovery, Unheard
  <2>2. ASSUME NEW o \in Op, Advance(o) PROVE DbMoves
    <3>1. CASE DeletionOver(op[o].msg)
      BY <1>1, <1>5, <3>1, DeletionOfMessage
    <3>2. CASE \/ SendPrepared(o) \/ CreateFails(o) \/ Connect(o)
               \/ ConnectFails(o) \/ EmitFails(o) \/ Timeout(o) \/ Refresh(o)
               \/ ResetFails(o) \/ SettleFails(o) \/ FinalizeFails(o)
      BY <1>2, <3>2
         DEF SendPrepared, CreateFails, Connect, ConnectFails, EmitFails,
             Timeout, Refresh, ResetFails, SettleFails, FinalizeFails
    <3>3. QED
      BY <1>3, <1>4, <2>2, <3>1, <3>2 DEF Advance
  <2>3. ASSUME NEW m \in Msg, RowStep(m) PROVE DbMoves
    BY <1>2, <1>5, <1>6, <2>3 DEF RowStep, RecoveryTimer, Abort, ServerDeletes
  <2>4. CASE PageStep
    BY <1>2, <1>7, <2>4
       DEF PageStep, OpenChat, FirstLoad, OpenHistory, SwitchConversation, Crash
  <2>5. CASE UNCHANGED vars
    BY <1>2, <2>5 DEF vars
  <2>6. QED
    BY <2>1, <2>2, <2>3, <2>4, <2>5 DEF Next

\* Such moves keep the rows in shape.
LEMMA NextShaped ==
    ASSUME RowsShaped, DbMoves
    PROVE  RowsShaped'
<1>1. ASSUME NEW m \in Msg
      PROVE  /\ db'[m] \in {NoRow, NewRow, FinalRow, Quiet(NewRow)}
             /\ m \notin created' => db'[m] = NoRow
  <2>1. CASE db'[m] = db[m] /\ (m \in created' <=> m \in created)
    BY <2>1 DEF RowsShaped
  <2>2. CASE /\ IsRow(db[m]) /\ created' = created
             /\ db'[m] \in {Quiet(db[m]), NewRow, FinalRow}
    <3>1. db[m] # NoRow
      BY <2>2 DEF IsRow, NoRow
    <3>2. db[m] \in {NewRow, FinalRow, Quiet(NewRow)} /\ m \in created
      BY <3>1 DEF RowsShaped
    <3>3. Quiet(db[m]) \in {FinalRow, Quiet(NewRow)}
      BY <3>2, QuietRows
    <3>4. QED BY <2>2, <3>2, <3>3
  <2>3. CASE db'[m] = NoRow /\ created' = created
    BY <2>3
  <2>4. CASE m \notin created /\ db'[m] = NewRow /\ m \in created'
    BY <2>4
  <2>5. QED
    BY <2>1, <2>2, <2>3, <2>4 DEF DbMoves, DbMove
<1>2. QED
  BY <1>1 DEF RowsShaped

-----------------------------------------------------------------------------
(* Who attends to a row that is marked streaming.                          *)

Filling == {"connecting", "live", "resolved", "failing"}

\* A run fills the row, the recovery is at work on it, or it was given up.
Attended(m) ==
    (\E o \in Op : Fills(o, m)) \/ Recovers(m) \/ m \in leftOpen

\* Who stops attending to a row has closed it, and who opens one attends to it.
KeepsAttention ==
    \A m \in Msg : db'[m].streaming /\ ~Attended(m)'
                   => db[m].streaming /\ ~Attended(m)

\* Such a step keeps every open row attended.
LEMMA KeepsAttended ==
    ASSUME OpenRowsAttended, KeepsAttention
    PROVE  OpenRowsAttended'
BY DEF OpenRowsAttended, KeepsAttention, Attended

\* So do the steps that open no row, end no run before the end of its work on
\* the row, and leave the recovery its work or the row to the next resume.
LEMMA KeepsByParts ==
    ASSUME OpenRowsAttended,
           \A m \in Msg : db'[m].streaming => db[m].streaming,
           \A o \in Op, m \in Msg : db'[m].streaming /\ Fills(o, m)
                                    => Attended(m)',
           \A m \in Msg : db'[m].streaming /\ Recovers(m) => Attended(m)',
           leftOpen \subseteq leftOpen'
    PROVE  OpenRowsAttended'
<1>1. KeepsAttention
  BY DEF KeepsAttention, Attended
<1>2. QED BY <1>1, KeepsAttended

\* A run whose pc changes goes on with its row, or does not.
LEMMA FillsByPc ==
    ASSUME NEW o \in Op, NEW pc, PcChange(o, pc)
    PROVE  /\ \A p \in Op \ {o}, m \in Msg : Fills(p, m) => Fills(p, m)'
           /\ \A m \in Msg : pc \in Filling /\ op[o].msg = m => Fills(o, m)'
           /\ \A m \in Msg : Fills(o, m) => op[o].msg = m
BY DEF PcChange, Fills, Filling

\* The recovery keeps its work where nothing of its own changes.
LEMMA RecoversStays ==
    ASSUME UNCHANGED <<messageState, timers, marks>>
    PROVE  \A m \in Msg : Recovers(m) => Attended(m)'
BY DEF Recovers, Attended

\* Quieting rows opens none.
LEMMA QuietPatch ==
    ASSUME TypeOK, NEW n \in Msg, db' = Patch(db, n, Quiet(db[n]))
    PROVE  \A m \in Msg : /\ db'[m].streaming => db[m].streaming
                          /\ m = n /\ IsRow(db[n]) => ~db'[m].streaming
BY DEF Patch, Quiet, TypeOK, Row

\* A row that is not there is not streaming.
LEMMA AbsentIsQuiet ==
    ASSUME RowsShaped, NEW m \in Msg, ~IsRow(db[m])
    PROVE  ~db[m].streaming
BY QuietRows DEF RowsShaped, IsRow, NoRow, NewRow, FinalRow

\* A run that fails its stream has its row in its hands until the end.
LEMMA AttendedWhenStreamFails ==
    ASSUME IndInv, OpenRowsAttended, NEW o \in Op, StreamFails(o),
           UNCHANGED <<db, timers, marks>>, leftOpen \subseteq leftOpen',
           \A m \in Msg : Recovers(m) /\ m # op[o].msg => Attended(m)'
    PROVE  OpenRowsAttended'
<1>1. PcChange(o, "failing")
  BY PcUpdate, PcTypes DEF StreamFails, IndInv
<1>2. \A p \in Op, m \in Msg : Fills(p, m) => Attended(m)'
  BY <1>1, FillsByPc DEF Attended, Filling
<1>3. \A m \in Msg : Recovers(m) => Attended(m)'
  BY <1>1, FillsByPc DEF Attended, Filling
<1>4. QED BY <1>2, <1>3, KeepsByParts

\* Creation, reset, connection and the writes that end a run.
LEMMA AttendedByAdvance ==
    ASSUME IndInv, RowsShaped, OpenRowsAttended, NEW o \in Op, Advance(o),
           ~DeletionOver(op[o].msg)
    PROVE  OpenRowsAttended'
<1>1. TypeOK /\ RunsOK /\ op[o] \in Run /\ None \notin Msg
  BY ConstantsAssumption DEF IndInv, TypeOK
<1>2. ASSUME NEW pc \in Pcs, op' = [op EXCEPT ![o].pc = pc],
             UNCHANGED <<db, messageState, timers, marks>>,
             leftOpen \subseteq leftOpen',
             op[o].msg \in Msg /\ op[o].pc \in Filling
               => pc \in Filling \/ op[o].msg \in leftOpen'
      PROVE  OpenRowsAttended'
  <2>1. PcChange(o, pc)
    BY <1>1, <1>2, PcUpdate
  <2>2. \A p \in Op, m \in Msg : Fills(p, m) => Attended(m)'
    BY <1>2, <2>1, FillsByPc DEF Attended, Fills, Filling
  <2>3. QED BY <1>2, <2>2, RecoversStays, KeepsByParts
<1>3. CASE SendPrepared(o)
  <2>1. \A p \in Op \ {o} : op'[p] = op[p]
    BY <1>1, <1>3 DEF SendPrepared, TypeOK
  <2>2. \A p \in Op, m \in Msg : Fills(p, m) => Fills(p, m)'
    BY <1>1, <1>3, <2>1 DEF SendPrepared, Fills
  <2>3. UNCHANGED <<db, messageState, timers, marks, leftOpen>>
    BY <1>3 DEF SendPrepared
  <2>4. QED BY <2>2, <2>3, RecoversStays, KeepsByParts DEF Attended
<1>4. ASSUME NEW m \in Msg, CreateRow(o, m) PROVE OpenRowsAttended'
  <2>1. /\ op'[o] = [op[o] EXCEPT !.pc = "connecting", !.msg = m]
        /\ \A p \in Op \ {o} : op'[p] = op[p]
        /\ \A n \in Msg \ {m} : db'[n] = db[n]
        /\ op[o].pc = "creating"
        /\ UNCHANGED <<messageState, timers, marks, leftOpen>>
    BY <1>1, <1>4 DEF CreateRow, TypeOK
  <2>2. Fills(o, m)'
    BY <1>1, <2>1 DEF Run, Fills
  <2>3. \A p \in Op, n \in Msg : Fills(p, n) => Fills(p, n)'
    BY <2>1 DEF Fills
  <2>4. \A n \in Msg : Attended(n) => Attended(n)'
    BY <2>1, <2>3, RecoversStays DEF Attended
  <2>5. KeepsAttention
    BY <2>1, <2>2, <2>4 DEF KeepsAttention, Attended
  <2>6. QED BY <2>5, KeepsAttended
<1>5. CASE CreateFails(o)
  BY <1>2, <1>5, PcTypes DEF CreateFails, Filling
<1>6. CASE ResetRow(o)
  <2>1. PICK pc \in {"connecting", "failed"} :
            /\ op' = [op EXCEPT ![o].pc = pc]
            /\ leftOpen' = IF pc = "connecting" THEN leftOpen \ {op[o].msg}
                                                ELSE leftOpen \cup {op[o].msg}
    BY <1>6 DEF ResetRow
  <2>2. PcChange(o, pc)
    BY <1>1, <2>1, PcUpdate, PcTypes
  <2>3. op[o].msg \in Msg /\ op[o].pc = "creating"
    BY <1>1, <1>6 DEF ResetRow, RunsOK
  <2>4. \A n \in Msg : n = op[o].msg \/ db'[n] = db[n]
    BY <1>1, <1>6, <2>3 DEF ResetRow, Patch, TypeOK
  <2>5. \A n \in Msg : n = op[o].msg => Attended(n)'
    BY <2>1, <2>2, <2>3, FillsByPc DEF Attended, Filling
  <2>6. \A p \in Op, n \in Msg : Fills(p, n) => Fills(p, n)'
    BY <2>2, <2>3, FillsByPc DEF Fills
  <2>7. UNCHANGED <<messageState, timers, marks>>
    BY <1>6 DEF ResetRow
  <2>8. \A n \in Msg : n # op[o].msg /\ Attended(n) => Attended(n)'
    BY <2>1, <2>6, <2>7, RecoversStays DEF Attended
  <2>9. KeepsAttention
    <3>1. ASSUME NEW n \in Msg, db'[n].streaming, ~Attended(n)'
          PROVE  db[n].streaming /\ ~Attended(n)
      <4>1. n # op[o].msg
        BY <2>5, <3>1
      <4>2. QED BY <2>4, <2>8, <3>1, <4>1
    <3>2. QED BY <3>1 DEF KeepsAttention
  <2>10. QED BY <2>9, KeepsAttended
<1>7. CASE Connect(o)
  <2>1. /\ op'[o] = [op[o] EXCEPT !.pc = "live", !.attempt = op[o].attempt + 1]
        /\ \A p \in Op \ {o} : op'[p] = op[p]
    BY <1>1, <1>7 DEF Connect, TypeOK
  <2>2. \A p \in Op, n \in Msg : Fills(p, n) => Fills(p, n)'
    BY <1>1, <2>1 DEF Run, Fills
  <2>3. \A n \in Msg : op[o].msg = n => Fills(o, n)'
    BY <1>1, <2>1 DEF Run, Fills
  <2>4. \A n \in Msg : n # op[o].msg => messageState'[n] = messageState[n]
    BY <1>1, <1>7 DEF Connect, TypeOK
  <2>5. \A n \in Msg : Recovers(n) => Attended(n)'
    BY <1>7, <2>3, <2>4 DEF Connect, Recovers, Attended
  <2>6. QED BY <1>7, <2>2, <2>5, KeepsByParts DEF Connect, Attended
<1>8. CASE ConnectFails(o) \/ EmitFails(o) \/ Timeout(o)
  <2>1. \A n \in Msg : n # op[o].msg => messageState'[n] = messageState[n]
    BY <1>1, <1>8 DEF ConnectFails, EmitFails, Timeout, TypeOK
  <2>2. StreamFails(o) /\ UNCHANGED <<db, timers, marks, leftOpen>>
    BY <1>8 DEF ConnectFails, EmitFails, Timeout
  <2>3. \A n \in Msg : Recovers(n) /\ n # op[o].msg => Attended(n)'
    BY <2>1, <2>2 DEF Recovers, Attended
  <2>4. QED BY <2>2, <2>3, AttendedWhenStreamFails
<1>9. CASE SettleRewrite(o) \/ Finalize(o)
  <2>1. PICK pc \in {"failed", "done", "refreshing"} :
            op' = [op EXCEPT ![o].pc = pc]
    BY <1>9 DEF SettleRewrite, Finalize
  <2>2. PcChange(o, pc)
    BY <1>1, <2>1, PcUpdate, PcTypes
  <2>3. op[o].msg \in Msg
    BY <1>1, <1>9 DEF SettleRewrite, Finalize, RunsOK
  <2>4. PICK row \in {Quiet(db[op[o].msg]), FinalRow} :
            db' = Patch(db, op[o].msg, row)
    BY <1>9 DEF SettleRewrite, Finalize
  <2>5. ~Quiet(db[op[o].msg]).streaming /\ ~FinalRow.streaming
    BY <1>1, <2>3 DEF Quiet, FinalRow, TypeOK, Row
  <2>6. /\ \A n \in Msg : db'[n].streaming => db[n].streaming
        /\ ~db'[op[o].msg].streaming
    BY <1>1, <2>3, <2>4, <2>5, AbsentIsQuiet DEF Patch, TypeOK
  <2>7. \A p \in Op, n \in Msg : db'[n].streaming /\ Fills(p, n) => Fills(p, n)'
    BY <2>2, <2>6, FillsByPc
  <2>8. UNCHANGED <<messageState, timers, marks, leftOpen>>
    BY <1>9 DEF SettleRewrite, Finalize
  <2>9. QED
    BY <2>6, <2>7, <2>8, RecoversStays, KeepsByParts DEF Attended
<1>10. CASE Refresh(o) \/ ResetFails(o)
  BY <1>2, <1>10, PcTypes DEF Refresh, ResetFails, Filling
<1>11. CASE SettleFails(o) \/ FinalizeFails(o)
  BY <1>2, <1>11, PcTypes DEF SettleFails, FinalizeFails
<1>12. QED
  BY <1>3, <1>4, <1>5, <1>6, <1>7, <1>8, <1>9, <1>10, <1>11 DEF Advance

\* A run that starts had no row in its hands, and opens none.
LEMMA AttendedByStart ==
    ASSUME IndInv, OpenRowsAttended, NEW o \in Op, Start(o)
    PROVE  OpenRowsAttended'
<1>1. TypeOK
  BY DEF IndInv
<1>2. /\ op[o].pc = "idle" /\ \A p \in Op \ {o} : op'[p] = op[p]
      /\ UNCHANGED <<db, messageState, timers, marks, leftOpen>>
  BY <1>1 DEF Start, SendStart, ResendStart, RewriteStart, TypeOK
<1>3. \A p \in Op, m \in Msg : Fills(p, m) => Fills(p, m)'
  BY <1>2 DEF Fills
<1>4. QED BY <1>2, <1>3, RecoversStays, KeepsByParts DEF Attended

\* The server's answers: who loses the handlers of a row fills it, has
\* started to close it, or leaves it to the next resume.
LEMMA AttendedByServer ==
    ASSUME IndInv, OpenRowsAttended, NEW o \in Op, ServerStep(o)
    PROVE  OpenRowsAttended'
<1>1. TypeOK /\ RunsOK /\ Recovery \notin Op \cup {None}
  BY ConstantsAssumption DEF IndInv
<1>2. CASE /\ UNCHANGED <<db, op>> /\ leftOpen \subseteq leftOpen'
           /\ \A m \in Msg : Recovers(m) => Attended(m)'
  <2>1. \A p \in Op, m \in Msg : Fills(p, m) => Attended(m)'
    BY <1>2 DEF Fills, Attended
  <2>2. QED BY <1>2, <2>1, KeepsByParts
<1>3. CASE Accept(o) \/ Unheard(o)
  BY <1>2, <1>3, RecoversStays DEF Accept, Unheard
<1>4. CASE Reject(o)
  <2>1. \A m \in Msg : m # op[o].msg => messageState'[m] = messageState[m]
    BY <1>1, <1>4 DEF Reject, TypeOK
  <2>2. \A m \in Msg : Recovers(m) /\ m # op[o].msg => Attended(m)'
    BY <1>4, <2>1 DEF Reject, Recovers, Attended
  <2>3. CASE op[o].pc = "live"
    BY <1>4, <2>2, <2>3, AttendedWhenStreamFails DEF Reject
  <2>4. CASE op[o].pc # "live"
    <3>1. \A m \in Msg : Recovers(m) => Attended(m)'
      BY <1>4, <2>2 DEF Reject, Recovers, Attended, Unattended
    <3>2. QED BY <1>2, <1>4, <2>4, <3>1 DEF Reject
  <2>5. QED BY <2>3, <2>4
<1>5. CASE RateLimit(o)
  <2>1. PcChange(o, "connecting")
    BY <1>1, <1>5, PcUpdate, PcTypes DEF RateLimit
  <2>2. \A p \in Op, m \in Msg : Fills(p, m) => Attended(m)'
    BY <2>1, FillsByPc DEF Attended, Filling
  <2>3. \A m \in Msg : m # op[o].msg => messageState'[m] = messageState[m]
    BY <1>1, <1>5 DEF RateLimit, TypeOK
  <2>4. \A m \in Msg : Recovers(m) => Attended(m)'
    BY <1>5, <2>1, <2>3, FillsByPc DEF RateLimit, Recovers, Attended, Filling
  <2>5. QED BY <1>5, <2>2, <2>4, KeepsByParts DEF RateLimit
<1>6. CASE Chunk(o)
  <2>1. op[o].msg \in Msg
    BY <1>1, <1>6 DEF Chunk, RunsOK
  <2>2. ASSUME NEW m \in Msg, Recovers(m) PROVE Recovers(m)'
    <3>1. CASE m # op[o].msg
      BY <1>1, <1>6, <2>1, <2>2, <3>1 DEF Chunk, Recovers, TypeOK
    <3>2. CASE m = op[o].msg /\ messageState[m].handlers \in Op
      <4>1. messageState'[m].handlers # Recovery
            /\ messageState[m].handlers # Recovery
        BY <1>1, <1>6, <2>1, <3>2 DEF Chunk, TypeOK, MessageState
      <4>2. QED BY <1>6, <2>2, <3>2, <4>1 DEF Chunk, Recovers
    <3>3. CASE m = op[o].msg /\ messageState[m].handlers \notin Op
      <4>1. messageState[m].handlers = Recovery
        BY <1>1, <1>6, <3>3 DEF Chunk, HasState, TypeOK, MessageState
      <4>2. messageState'[m].handlers = Recovery /\ messageState'[m].isStreaming
        BY <1>1, <1>6, <2>1, <3>3, <4>1 DEF Chunk, TypeOK, MessageState
      <4>3. QED BY <4>2 DEF Recovers
    <3>4. QED BY <3>1, <3>2, <3>3
  <2>3. QED BY <1>2, <1>6, <2>2 DEF Chunk, Attended
<1>7. CASE CompleteToRun(o)
  <2>1. op[o].msg \in Msg
    BY <1>1, <1>7 DEF CompleteToRun, RunsOK
  <2>2. PICK h \in Op : /\ h = messageState[op[o].msg].handlers
                        /\ op' = [op EXCEPT ![h].pc =
                                    IF @ = "live" THEN "resolved" ELSE @]
    BY <1>7 DEF CompleteToRun
  <2>3. \A p \in Op, m \in Msg : Fills(p, m) => Fills(p, m)'
    <3>1. ASSUME NEW p \in Op
          PROVE  op'[p].msg = op[p].msg /\ (\/ op'[p].pc = op[p].pc
                                            \/ op'[p].pc = "resolved")
      BY <1>1, <2>2 DEF TypeOK, Run
    <3>2. QED BY <3>1 DEF Fills
  <2>4. \A m \in Msg : m # op[o].msg => messageState'[m] = messageState[m]
    BY <1>1, <1>7 DEF CompleteToRun, TypeOK
  <2>5. \A m \in Msg : Recovers(m) => Recovers(m)'
    BY <1>1, <1>7, <2>2, <2>4 DEF CompleteToRun, Recovers
  <2>6. QED BY <1>7, <2>3, <2>5, KeepsByParts DEF CompleteToRun, Attended
<1>8. CASE CompleteToRecovery(o)
  <2>1. op[o].msg \in Msg
    BY <1>1, <1>8 DEF CompleteToRecovery, RunsOK
  <2>2. \A n \in Msg : n = op[o].msg => Attended(n)'
    BY <1>8 DEF CompleteToRecovery, Attended, Recovers
  <2>3. \A m \in Msg : m # op[o].msg => /\ messageState'[m] = messageState[m]
                                        /\ timers'[m] = timers[m]
    BY <1>1, <1>8 DEF CompleteToRecovery, TypeOK
  <2>4. marks \subseteq marks' /\ leftOpen \subseteq leftOpen'
    BY <1>8 DEF CompleteToRecovery
  <2>5. ASSUME NEW m \in Msg, Recovers(m) PROVE Attended(m)'
    <3>1. CASE m = op[o].msg
      BY <2>2, <3>1
    <3>2. CASE m # op[o].msg
      BY <2>3, <2>4, <2>5, <3>2 DEF Recovers, Attended
    <3>3. QED BY <3>1, <3>2
  <2>6. QED BY <1>2, <1>8, <2>4, <2>5 DEF CompleteToRecovery
<1>9. CASE ErrorToRun(o)
  <2>1. op[o].msg \in Msg
    BY <1>1, <1>9 DEF ErrorToRun, RunsOK
  <2>2. PICK e \in Op : e = messageState[op[o].msg].onError
    BY <1>9 DEF ErrorToRun
  <2>3. \A m \in Msg : m # op[o].msg => messageState'[m] = messageState[m]
    BY <1>1, <1>9 DEF ErrorToRun, TypeOK
  <2>4. \A m \in Msg : Recovers(m) => Attended(m)'
    BY <1>9, <2>3 DEF ErrorToRun, Recovers, Attended, Unattended
  <2>5. CASE op[e].pc = "live"
    BY <1>9, <2>2, <2>4, <2>5, AttendedWhenStreamFails DEF ErrorToRun
  <2>6. CASE op[e].pc # "live"
    BY <1>2, <1>9, <2>2, <2>4, <2>6 DEF ErrorToRun
  <2>7. QED BY <2>5, <2>6
<1>10. CASE ErrorToRecovery(o)
  <2>1. \A m \in Msg : m # op[o].msg => messageState'[m] = messageState[m]
    BY <1>1, <1>10 DEF ErrorToRecovery, TypeOK
  <2>2. \A m \in Msg : Recovers(m) => Attended(m)'
    BY <1>10, <2>1 DEF ErrorToRecovery, Recovers, Attended, Unattended
  <2>3. QED BY <1>2, <1>10, <2>2 DEF ErrorToRecovery
<1>11. QED
  BY <1>3, <1>4, <1>5, <1>6, <1>7, <1>8, <1>9, <1>10 DEF ServerStep

\* A deletion settles the runs of the row it removes, or gives the row up
\* with them; timers hand over to writes, and writes close or give up.
LEMMA AttendedByRow ==
    ASSUME IndInv, RowsShaped, OpenRowsAttended, NEW m \in Msg, RowStep(m)
    PROVE  OpenRowsAttended'
<1>1. TypeOK
  BY DEF IndInv
<1>2. CASE DeletionOver(m)
  <2>1. DeletionEnds(m) /\ leftOpen \subseteq leftOpen'
    BY <1>2 DEF DeletionOver, DeleteCommits, DeleteFails
  <2>2. \A n \in Msg \ {m} : db'[n] = db[n]
    BY <1>1, <1>2 DEF DeletionOver, DeleteCommits, DeleteFails, TypeOK
  <2>3. db'[m].streaming => db[m].streaming /\ m \in leftOpen'
    BY <1>1, <1>2 DEF DeletionOver, DeleteCommits, DeleteFails, TypeOK, NoRow
  <2>4. \A p \in Op : op[p].msg = m \/ op'[p] = op[p]
    BY <2>1 DEF DeletionEnds, AwaitingDeletion
  <2>5. \A p \in Op, n \in Msg : Fills(p, n) /\ n # m => Fills(p, n)'
    BY <2>4 DEF Fills
  <2>6. \A n \in Msg : Recovers(n) => Attended(n)'
    BY <2>1, RecoversStays DEF DeletionEnds
  <2>7. QED
    BY <2>1, <2>2, <2>3, <2>5, <2>6, KeepsByParts DEF Attended
<1>3. CASE MarkOver(m) \/ UserDeletes(m)
  <2>1. /\ \A n \in Msg : db'[n].streaming => db[n].streaming
        /\ db'[m].streaming => m \in leftOpen'
    <3>1. CASE MarkCommits(m)
      <4>1. ~Quiet(db[m]).streaming
        BY <1>1 DEF Quiet, TypeOK, Row
      <4>2. QED
        BY <1>1, <3>1, <4>1, AbsentIsQuiet DEF MarkCommits, Patch, TypeOK
    <3>2. CASE MarkFails(m)
      BY <3>2 DEF MarkFails
    <3>3. CASE UserDeletes(m)
      BY <1>1, <3>3 DEF UserDeletes, TypeOK, NoRow
    <3>4. QED BY <1>3, <3>1, <3>2, <3>3 DEF MarkOver
  <2>2. /\ UNCHANGED <<op, messageState, timers>> /\ leftOpen \subseteq leftOpen'
        /\ \A n \in Msg : n # m /\ n \in marks => n \in marks'
    BY <1>3 DEF MarkOver, MarkCommits, MarkFails, UserDeletes
  <2>3. \A n \in Msg : db'[n].streaming /\ Recovers(n) => Attended(n)'
    BY <2>1, <2>2 DEF Recovers, Attended
  <2>4. \A p \in Op, n \in Msg : Fills(p, n) => Attended(n)'
    BY <2>2 DEF Fills, Attended
  <2>5. QED BY <2>1, <2>2, <2>3, <2>4, KeepsByParts
<1>4. ASSUME NEW t \in {"attached", "detached"}, RecoveryTimer(m, t)
      PROVE  OpenRowsAttended'
  <2>1. \A n \in Msg : n # m => timers'[n] = timers[n]
    BY <1>1, <1>4 DEF RecoveryTimer, TypeOK
  <2>2. \A n \in Msg : Recovers(n) => Attended(n)'
    BY <1>4, <2>1 DEF RecoveryTimer, Recovers, Attended
  <2>3. \A p \in Op, n \in Msg : Fills(p, n) => Attended(n)'
    BY <1>4 DEF RecoveryTimer, Fills, Attended
  <2>4. QED BY <1>4, <2>2, <2>3, KeepsByParts DEF RecoveryTimer
<1>5. CASE Abort(m) \/ ServerDeletes(m)
  <2>1. \A n \in Msg : n # m => messageState'[n] = messageState[n]
    BY <1>1, <1>5 DEF Abort, ServerDeletes, TypeOK
  <2>2. \A n \in Msg : Recovers(n) => Attended(n)'
    BY <1>5, <2>1 DEF Abort, ServerDeletes, Recovers, Attended, Unattended
  <2>3. \A p \in Op, n \in Msg : Fills(p, n) => Attended(n)'
    BY <1>5 DEF Abort, ServerDeletes, Fills, Attended
  <2>4. QED BY <1>5, <2>2, <2>3, KeepsByParts DEF Abort, ServerDeletes
<1>6. QED
  BY <1>2, <1>3, <1>4, <1>5 DEF RowStep

\* A resume attends to every open row, a crash gives every open row up, and
\* the other events of the page change nothing.
LEMMA AttendedByPage ==
    ASSUME IndInv, OpenRowsAttended, PageStep
    PROVE  OpenRowsAttended'
<1>1. TypeOK
  BY DEF IndInv
<1>2. CASE OpenChat \/ OpenHistory
  <2>1. UNCHANGED <<db, op, marks>>
    BY <1>2 DEF OpenChat, OpenHistory
  <2>2. CASE Resume
    <3>1. ASSUME NEW m \in Msg, db[m].streaming PROVE Recovers(m)'
      <4>1. messageState'[m].handlers = Recovery /\ messageState'[m].isStreaming
        BY <1>1, <2>2, <3>1 DEF Resume, TypeOK, MessageState
      <4>2. QED BY <4>1 DEF Recovers
    <3>2. QED BY <2>1, <3>1 DEF OpenRowsAttended
  <2>3. CASE ResumeFails
    <3>1. UNCHANGED <<db, op, marks, messageState, timers, leftOpen>>
      BY <2>1, <2>3 DEF ResumeFails
    <3>2. QED
      BY <3>1 DEF OpenRowsAttended, Fills, Recovers
  <2>4. QED BY <1>2, <2>2, <2>3 DEF OpenChat, OpenHistory
<1>3. ASSUME NEW rows \in SUBSET Msg, NewChat(rows) PROVE OpenRowsAttended'
  <2>1. ASSUME NEW n \in Msg, db'[n].streaming PROVE db[n].streaming
    <3>1. db'[n] = db[n] \/ db'[n] = Quiet(db[n])
      BY <1>3 DEF NewChat
    <3>2. ~Quiet(db[n]).streaming
      BY <1>1 DEF Quiet, TypeOK, Row
    <3>3. QED BY <2>1, <3>1, <3>2
  <2>2. UNCHANGED <<op, marks, messageState, timers, leftOpen>>
    BY <1>3 DEF NewChat
  <2>3. QED BY <2>1, <2>2 DEF OpenRowsAttended, Fills, Recovers
<1>4. CASE Crash
  BY <1>4 DEF Crash, OpenRowsAttended
<1>5. CASE UNCHANGED <<db, op, marks, messageState, timers, leftOpen>>
  BY <1>5 DEF OpenRowsAttended, Fills, Recovers
<1>6. QED
  BY <1>2, <1>3, <1>4, <1>5 DEF PageStep, FirstLoad, SwitchConversation

\* Every step keeps every open row attended.
LEMMA NextAttended ==
    ASSUME IndInv, RowsShaped, OpenRowsAttended, [Next]_vars
    PROVE  OpenRowsAttended'
<1>1. CASE UNCHANGED vars
  BY <1>1 DEF vars, OpenRowsAttended, Fills, Recovers
<1>2. ASSUME NEW o \in Op, Advance(o) PROVE OpenRowsAttended'
  <2>1. CASE DeletionOver(op[o].msg)
    <3>1. op[o].msg \in Msg
      BY <2>1, DeletionOfMessage DEF IndInv
    <3>2. QED
      BY <2>1, <3>1, AttendedByRow DEF RowStep
  <2>2. QED
    BY <1>2, <2>1, AttendedByAdvance
<1>3. QED
  BY <1>1, <1>2, AttendedByStart, AttendedByServer, AttendedByRow,
     AttendedByPage DEF Next

\* The table starts empty.
LEMMA InitRows ==
    ASSUME Init
    PROVE  RowsShaped /\ OpenRowsAttended
BY DEF Init, RowsShaped, OpenRowsAttended, NoRow, NoRows

\* A row the database calls streaming has a run of this page that fills it or
\* the recovery at work on it, unless it was given up in one of the ways the
\* code leaves to the next resume: no failing stream, abort, time-out, retry
\* or resume over a live stream forgets one, whatever the number of runs.
THEOREM OpenRowsAreAttended == Spec => []OpenRowsAttended
<1>1. Init => IndInv /\ RowsShaped /\ OpenRowsAttended
  BY InitInd, InitRows
<1>2. IndInv /\ RowsShaped /\ OpenRowsAttended /\ [Next]_vars
      => (IndInv /\ RowsShaped /\ OpenRowsAttended)'
  BY NextInd, StepMoves, NextShaped, NextAttended
<1>3. QED
  BY <1>1, <1>2, PTL DEF Spec

-----------------------------------------------------------------------------
(* The table implements AnswerRow.                                         *)

\* What db[m] turns into tells the move of the row.
LEMMA RowMoves ==
    ASSUME RowsShaped, RowsShaped', NEW m \in Msg, DbMove(m),
           RowStateOf(m)' # RowStateOf(m)
    PROVE  RowStateOf(m)' \in AnswerTable!Moves[RowStateOf(m)]
<1>1. /\ NoRow # NewRow /\ NoRow # FinalRow /\ NewRow # FinalRow
      /\ Quiet(NewRow) \notin {NoRow, NewRow, FinalRow}
  BY QuietRows DEF NoRow, NewRow, FinalRow
<1>2. db[m] \in {NoRow, NewRow, FinalRow, Quiet(NewRow)}
      /\ (m \notin created => db[m] = NoRow)
  BY DEF RowsShaped
<1>3. CASE db'[m] = db[m] /\ (m \in created' <=> m \in created)
  BY <1>3 DEF RowStateOf
<1>4. CASE /\ IsRow(db[m]) /\ created' = created
           /\ db'[m] \in {Quiet(db[m]), NewRow, FinalRow}
  <2>1. db[m] \in {NewRow, FinalRow, Quiet(NewRow)} /\ m \in created
    BY <1>2, <1>4 DEF IsRow, NoRow
  <2>2. CASE db[m] = NewRow
    <3>1. RowStateOf(m) = "open" /\ RowStateOf(m)' \in {"open", "answered", "abandoned"}
      BY <1>1, <1>4, <2>2 DEF RowStateOf
    <3>2. QED BY <3>1 DEF AnswerTable!Moves
  <2>3. CASE db[m] = FinalRow
    <3>1. RowStateOf(m) = "answered" /\ RowStateOf(m)' \in {"open", "answered"}
      BY <1>1, <1>4, <2>3, QuietRows DEF RowStateOf
    <3>2. QED BY <3>1 DEF AnswerTable!Moves
  <2>4. CASE db[m] = Quiet(NewRow)
    <3>1. /\ RowStateOf(m) = "abandoned"
          /\ RowStateOf(m)' \in {"open", "answered", "abandoned"}
      BY <1>1, <1>4, <2>4, QuietRows DEF RowStateOf
    <3>2. QED BY <3>1 DEF AnswerTable!Moves
  <2>5. QED BY <2>1, <2>2, <2>3, <2>4
<1>5. CASE db'[m] = NoRow /\ created' = created
  <2>1. RowStateOf(m)' = IF m \in created THEN "deleted" ELSE "unborn"
    BY <1>1, <1>5 DEF RowStateOf
  <2>2. m \in created
    BY <1>1, <1>2, <2>1 DEF RowStateOf
  <2>3. RowStateOf(m) \in {"open", "answered", "abandoned"}
    BY <1>1, <1>2, <2>1, <2>2 DEF RowStateOf
  <2>4. QED BY <2>1, <2>2, <2>3 DEF AnswerTable!Moves
<1>6. CASE m \notin created /\ db'[m] = NewRow /\ m \in created'
  <2>1. RowStateOf(m) = "unborn" /\ RowStateOf(m)' = "open"
    BY <1>1, <1>2, <1>6 DEF RowStateOf
  <2>2. QED BY <2>1 DEF AnswerTable!Moves
<1>7. QED
  BY <1>3, <1>4, <1>5, <1>6 DEF DbMove

\* Two rows that change at once were both closed by a new chat.
LEMMA RowsTogether ==
    ASSUME RowsShaped, RowsShaped', DbMoves, NEW m \in Msg, NEW n \in Msg, m # n,
           RowStateOf(m)' # RowStateOf(m), RowStateOf(n)' # RowStateOf(n)
    PROVE  RowStateOf(m)' = "abandoned"
<1>1. db'[m] # db[m] /\ db'[n] # db[n]
  BY DEF DbMoves, DbMove, RowStateOf
<1>2. db'[m] = Quiet(db[m])
  BY <1>1 DEF DbMoves, Alone
<1>3. db'[m] = Quiet(NewRow)
  BY <1>1, <1>2, QuietRows DEF RowsShaped
<1>4. QED
  BY <1>3, QuietRows DEF RowStateOf, NewRow, FinalRow

\* However late a write of the store, the socket handlers, the recovery or
\* the user commits, each stored answer goes through the life cycle of
\* AnswerRow: nothing partial is stored, a deleted row does not come back,
\* and a whole answer is lost only to a rewrite or to a deletion.
THEOREM ImplementsAnswerRow == Spec => RowLifeCycle
<1>1. Init => IndInv /\ RowsShaped
  BY InitInd, InitRows
<1>2. IndInv /\ RowsShaped /\ [Next]_vars => (IndInv /\ RowsShaped)'
  BY NextInd, StepMoves, NextShaped
<1>3. Init => AnswerTable!Init
  <2>1. ASSUME Init PROVE \A m \in Msg : RowStateOf(m) = "unborn"
    <3>1. NoRow # NewRow /\ NoRow # FinalRow /\ NoRow # Quiet(NewRow)
      BY QuietRows DEF NoRow, NewRow, FinalRow
    <3>2. QED BY <2>1, <3>1 DEF Init, NoRows, RowStateOf
  <2>2. QED BY <2>1 DEF AnswerTable!Init
<1>4. IndInv /\ RowsShaped /\ RowsShaped' /\ [Next]_vars
      => [AnswerTable!Next]_[m \in Msg |-> RowStateOf(m)]
  <2>1. SUFFICES ASSUME IndInv, RowsShaped, RowsShaped', [Next]_vars
                 PROVE  AnswerTable!Next
    OBVIOUS
  <2>2. DbMoves
    BY <2>1, StepMoves
  <2>3. \A m \in Msg : RowStateOf(m)' \in AnswerTable!RowState
    BY <2>1 DEF RowsShaped, RowStateOf, AnswerTable!RowState
  <2>4. \A m \in Msg : RowStateOf(m)' # RowStateOf(m)
                       => RowStateOf(m)' \in AnswerTable!Moves[RowStateOf(m)]
    BY <2>1, <2>2, RowMoves DEF DbMoves
  <2>5. \A m, n \in Msg :
            m # n /\ RowStateOf(m)' # RowStateOf(m)
                  /\ RowStateOf(n)' # RowStateOf(n)
            => RowStateOf(m)' = "abandoned" /\ RowStateOf(n)' = "abandoned"
    BY <2>1, <2>2, RowsTogether
  <2>6. QED
    BY <2>3, <2>4, <2>5 DEF AnswerTable!Next
<1>5. QED
  BY <1>1, <1>2, <1>3, <1>4, PTL DEF Spec, RowLifeCycle, AnswerTable!Spec
-----------------------------------------------------------------------------
(* How a run moves, and that it comes to its end.                          *)

\* The points a run can go to from another in one step.
MovesOn(from, to) ==
    \/ from = "idle" /\ to \in {"preparing", "creating"}
    \/ from = "preparing" /\ to = "creating"
    \/ from = "creating" /\ to \in {"connecting", "failed"}
    \/ from = "connecting" /\ to \in {"live", "failing"}
    \/ from = "live" /\ to \in {"connecting", "resolved", "failing"}
    \/ from = "resolved" /\ to \in {"refreshing", "done", "failed"}
    \/ from = "refreshing" /\ to = "done"
    \/ from = "failing" /\ to = "failed"
    \/ from \notin Ended \cup {"idle"} /\ to = "lost"

\* What any step may do to one run: a run that has a message keeps it, only
\* an attempt is counted, and a run reports success in the step that stores
\* its answer, or after it.
RunMove(p) ==
    \/ op'[p] = op[p]
    \/ /\ MovesOn(op[p].pc, op'[p].pc)
       /\ op[p].msg # None => op'[p].msg = op[p].msg
       /\ op'[p].attempt = op[p].attempt + (IF op'[p].pc = "live" THEN 1 ELSE 0)
       /\ op[p].pc = "resolved" /\ op'[p].pc \notin {"failed", "lost"}
          => db' = Patch(db, op[p].msg, FinalRow)

\* Moving the pc of one run.
LEMMA MoveByPc ==
    ASSUME TypeOK, NEW o \in Op, NEW pc, PcChange(o, pc),
           MovesOn(op[o].pc, pc), pc # "live",
           op[o].pc = "resolved" /\ pc \notin {"failed", "lost"}
           => db' = Patch(db, op[o].msg, FinalRow)
    PROVE  \A p \in Op : RunMove(p)
<1>1. ASSUME NEW p \in Op, p # o PROVE op'[p] = op[p]
  <2>1. op[p] \in Run /\ op'[p] \in Run
    BY DEF TypeOK, PcChange
  <2>2. \A r, t \in Run :
            /\ r.pc = t.pc /\ r.kind = t.kind /\ r.msg = t.msg
            /\ r.attempt = t.attempt /\ r.view = t.view /\ r.before = t.before
            => r = t
    BY DEF Run
  <2>3. QED BY <1>1, <2>1, <2>2 DEF PcChange
<1>2. op[o].attempt \in Nat
  BY ConstantsAssumption DEF TypeOK, Run
<1>3. RunMove(o)
  BY <1>2 DEF RunMove, PcChange
<1>4. QED BY <1>1, <1>3 DEF RunMove

\* Every step of every handler moves each run so.
LEMMA RunMoves ==
    ASSUME IndInv, [Next]_vars
    PROVE  \A p \in Op : RunMove(p)
<1>1. TypeOK /\ RunsOK /\ \A p \in Op : op[p] \in Run
  BY DEF IndInv, TypeOK
<1>a. \A p \in Op : op[p].attempt \in Nat
  BY <1>1, ConstantsAssumption DEF Run
<1>2. CASE UNCHANGED op
  BY <1>2 DEF RunMove
<1>3. ASSUME NEW o \in Op, Start(o) PROVE \A p \in Op : RunMove(p)
  <2>1. \A p \in Op \ {o} : op'[p] = op[p]
    BY <1>1, <1>3 DEF Start, SendStart, ResendStart, RewriteStart, TypeOK
  <2>2. /\ op[o].pc = "idle" /\ op[o].msg = None
        /\ op'[o].pc \in {"preparing", "creating"}
        /\ op'[o].attempt = op[o].attempt
    <3>1. CASE SendStart(o)
      <4>1. op' = [op EXCEPT ![o] = [op[o] EXCEPT !.pc = "preparing",
                                       !.kind = "send", !.view = view]]
        BY <3>1 DEF SendStart
      <4>2. QED BY <1>1, <3>1, <4>1 DEF SendStart, TypeOK, RunsOK, Run
    <3>2. CASE ResendStart(o)
      <4>1. op' = [op EXCEPT ![o] = [op[o] EXCEPT !.pc = "creating",
                                       !.kind = "resend", !.view = view]]
        BY <3>2 DEF ResendStart
      <4>2. QED BY <1>1, <3>2, <4>1 DEF ResendStart, TypeOK, RunsOK, Run
    <3>3. ASSUME NEW m \in Msg, RewriteStart(o, m)
          PROVE  /\ op[o].pc = "idle" /\ op[o].msg = None
                 /\ op'[o].pc \in {"preparing", "creating"}
                 /\ op'[o].attempt = op[o].attempt
      <4>1. op' = [op EXCEPT ![o] = [op[o] EXCEPT !.pc = "creating",
                              !.kind = "rewrite", !.msg = m, !.view = view]]
        BY <3>3 DEF RewriteStart
      <4>2. QED BY <1>1, <3>3, <4>1 DEF RewriteStart, TypeOK, RunsOK, Run
    <3>4. QED BY <1>3, <3>1, <3>2, <3>3 DEF Start
  <2>3. QED BY <1>a, <2>1, <2>2 DEF RunMove, MovesOn
<1>4. ASSUME NEW o \in Op, SendPrepared(o) PROVE \A p \in Op : RunMove(p)
  <2>1. /\ op'[o] = [op[o] EXCEPT !.pc = "creating", !.before = AnswersCompleted]
        /\ op[o].pc = "preparing"
        /\ \A p \in Op \ {o} : op'[p] = op[p]
    BY <1>1, <1>4 DEF SendPrepared, TypeOK
  <2>2. /\ op'[o].pc = "creating" /\ op'[o].msg = op[o].msg
        /\ op'[o].attempt = op[o].attempt
    BY <1>1, <2>1 DEF Run
  <2>3. RunMove(o)
    BY <1>a, <2>1, <2>2 DEF RunMove, MovesOn
  <2>4. QED BY <2>1, <2>3 DEF RunMove
<1>5. ASSUME NEW o \in Op, NEW m \in Msg, CreateRow(o, m)
      PROVE  \A p \in Op : RunMove(p)
  <2>1. /\ op'[o] = [op[o] EXCEPT !.pc = "connecting", !.msg = m]
        /\ op[o].pc = "creating" /\ op[o].msg = None
        /\ \A p \in Op \ {o} : op'[p] = op[p]
    BY <1>1, <1>5 DEF CreateRow, TypeOK, RunsOK
  <2>2. op'[o].pc = "connecting" /\ op'[o].attempt = op[o].attempt
    BY <1>1, <2>1 DEF Run
  <2>3. RunMove(o)
    BY <1>a, <2>1, <2>2 DEF RunMove, MovesOn
  <2>4. QED BY <2>1, <2>3 DEF RunMove
<1>6. ASSUME NEW o \in Op, Connect(o) PROVE \A p \in Op : RunMove(p)
  <2>1. /\ op'[o] = [op[o] EXCEPT !.pc = "live", !.attempt = op[o].attempt + 1]
        /\ op[o].pc = "connecting"
        /\ \A p \in Op \ {o} : op'[p] = op[p]
    BY <1>1, <1>6 DEF Connect, TypeOK
  <2>2. /\ op'[o].pc = "live" /\ op'[o].msg = op[o].msg
        /\ op'[o].attempt = op[o].attempt + 1
    BY <1>1, <2>1 DEF Run
  <2>3. QED BY <1>a, <2>1, <2>2 DEF RunMove, MovesOn
<1>7. ASSUME NEW o \in Op,
             \/ CreateFails(o) \/ SettleRewrite(o) \/ ResetFails(o)
             \/ SettleFails(o) \/ FinalizeFails(o)
      PROVE  \A p \in Op : RunMove(p)
  <2>1. PcChange(o, "failed")
    BY <1>1, <1>7, PcUpdate, PcTypes
       DEF CreateFails, SettleRewrite, ResetFails, SettleFails, FinalizeFails
  <2>2. QED
    BY <1>1, <1>7, <2>1, MoveByPc
       DEF CreateFails, SettleRewrite, ResetFails, SettleFails, FinalizeFails,
           MovesOn
<1>8. ASSUME NEW o \in Op, ResetRow(o) PROVE \A p \in Op : RunMove(p)
  <2>1. PICK pc \in {"connecting", "failed"} : op' = [op EXCEPT ![o].pc = pc]
    BY <1>8 DEF ResetRow
  <2>2. PcChange(o, pc)
    BY <1>1, <2>1, PcUpdate, PcTypes
  <2>3. QED
    BY <1>1, <1>8, <2>2, MoveByPc DEF ResetRow, MovesOn, Ended
<1>9. ASSUME NEW o \in Op, StreamFails(o), op[o].pc \in {"connecting", "live"}
      PROVE  \A p \in Op : RunMove(p)
  <2>1. PcChange(o, "failing")
    BY <1>1, <1>9, PcUpdate, PcTypes DEF StreamFails
  <2>2. QED
    BY <1>1, <1>9, <2>1, MoveByPc DEF MovesOn
<1>10. ASSUME NEW o \in Op, Finalize(o) PROVE \A p \in Op : RunMove(p)
  <2>1. PICK pc \in {"done", "refreshing"} : op' = [op EXCEPT ![o].pc = pc]
    BY <1>10 DEF Finalize
  <2>2. PcChange(o, pc)
    BY <1>1, <2>1, PcUpdate, PcTypes
  <2>3. QED
    BY <1>1, <1>10, <2>2, MoveByPc DEF Finalize, MovesOn
<1>11. ASSUME NEW o \in Op, Refresh(o) PROVE \A p \in Op : RunMove(p)
  <2>1. PcChange(o, "done")
    BY <1>1, <1>11, PcUpdate, PcTypes DEF Refresh
  <2>2. QED
    BY <1>1, <1>11, <2>1, MoveByPc DEF Refresh, MovesOn
<1>12. ASSUME NEW o \in Op, RateLimit(o) PROVE \A p \in Op : RunMove(p)
  <2>1. PcChange(o, "connecting")
    BY <1>1, <1>12, PcUpdate, PcTypes DEF RateLimit
  <2>2. QED
    BY <1>1, <1>12, <2>1, MoveByPc DEF RateLimit, MovesOn
<1>13. ASSUME NEW o \in Op, CompleteToRun(o) PROVE \A p \in Op : RunMove(p)
  <2>1. PICK h \in Op : op' = [op EXCEPT ![h].pc =
                                  IF @ = "live" THEN "resolved" ELSE @]
    BY <1>13 DEF CompleteToRun
  <2>2. CASE op[h].pc = "live"
    <3>1. PcChange(h, "resolved")
      BY <1>1, <2>1, <2>2, PcUpdate, PcTypes
    <3>2. QED
      BY <1>1, <2>2, <3>1, MoveByPc DEF MovesOn
  <2>3. CASE op[h].pc # "live"
    <3>1. [op[h] EXCEPT !.pc = op[h].pc] = op[h]
      BY <1>1 DEF Run
    <3>2. op' = op
      BY <1>1, <2>1, <2>3, <3>1 DEF TypeOK
    <3>3. QED BY <1>2, <3>2
  <2>4. QED BY <2>2, <2>3
<1>14. ASSUME NEW m \in Msg, DeletionOver(m) PROVE \A p \in Op : RunMove(p)
  <2>1. ASSUME NEW p \in Op
        PROVE  \/ op'[p] = op[p]
               \/ op[p].pc = "failing" /\ op'[p] = [op[p] EXCEPT !.pc = "failed"]
    BY <1>14 DEF DeletionOver, DeleteCommits, DeleteFails, DeletionEnds,
                 AwaitingDeletion
  <2>2. ASSUME NEW p \in Op, op[p].pc = "failing",
               op'[p] = [op[p] EXCEPT !.pc = "failed"]
        PROVE  RunMove(p)
    <3>1. op'[p].pc = "failed" /\ op'[p].msg = op[p].msg
          /\ op'[p].attempt = op[p].attempt
      BY <1>1, <2>2 DEF Run
    <3>2. QED BY <1>a, <2>2, <3>1 DEF RunMove, MovesOn
  <2>3. QED BY <2>1, <2>2 DEF RunMove
<1>15. CASE Crash
  <2>1. ASSUME NEW p \in Op, op[p].pc \notin Ended \cup {"idle"},
               op'[p] = [op[p] EXCEPT !.pc = "lost"]
        PROVE  RunMove(p)
    <3>1. op'[p].pc = "lost" /\ op'[p].msg = op[p].msg
          /\ op'[p].attempt = op[p].attempt
      BY <1>1, <2>1 DEF Run
    <3>2. QED BY <1>a, <2>1, <3>1 DEF RunMove, MovesOn
  <2>2. \A p \in Op : \/ op'[p] = op[p]
                      \/ /\ op[p].pc \notin Ended \cup {"idle"}
                         /\ op'[p] = [op[p] EXCEPT !.pc = "lost"]
    BY <1>15 DEF Crash
  <2>3. QED BY <2>1, <2>2 DEF RunMove
<1>16. ASSUME NEW o \in Op, Advance(o) PROVE \A p \in Op : RunMove(p)
  <2>1. CASE DeletionOver(op[o].msg)
    <3>1. op[o].msg \in Msg
      BY <1>1, <2>1, DeletionOfMessage
    <3>2. QED BY <1>14, <2>1, <3>1
  <2>2. CASE ConnectFails(o) \/ EmitFails(o) \/ Timeout(o)
    BY <1>9, <2>2 DEF ConnectFails, EmitFails, Timeout
  <2>3. QED
    BY <1>4, <1>5, <1>6, <1>7, <1>8, <1>10, <1>11, <1>16, <2>1, <2>2 DEF Advance
<1>17. ASSUME NEW o \in Op, ServerStep(o) PROVE \A p \in Op : RunMove(p)
  <2>1. CASE Reject(o)
    BY <1>2, <1>9, <2>1 DEF Reject
  <2>2. CASE ErrorToRun(o)
    <3>1. PICK e \in Op : e = messageState[op[o].msg].onError
      BY <2>2 DEF ErrorToRun
    <3>2. QED
      BY <1>2, <1>9, <2>2, <3>1 DEF ErrorToRun
  <2>3. QED
    BY <1>2, <1>12, <1>13, <1>17, <2>1, <2>2
       DEF ServerStep, Accept, Chunk, CompleteToRecovery, ErrorToRecovery, Unheard
<1>18. CASE PageStep
  BY <1>2, <1>15, <1>18
     DEF PageStep, OpenChat, FirstLoad, OpenHistory, SwitchConversation, NewChat
<1>19. ASSUME NEW m \in Msg, RowStep(m) PROVE \A p \in Op : RunMove(p)
  BY <1>2, <1>14, <1>19
     DEF RowStep, MarkOver, MarkCommits, MarkFails, RecoveryTimer, Abort,
         ServerDeletes, UserDeletes
<1>20. CASE UNCHANGED vars
  BY <1>2, <1>20 DEF vars
<1>21. QED
  BY <1>3, <1>16, <1>17, <1>18, <1>19, <1>20 DEF Next

\* How far a run has got: the point it is at, and the attempts it has made.
Progress(o) ==
    IF op[o].pc = "idle" THEN 0
    ELSE IF op[o].pc = "preparing" THEN 1
    ELSE IF op[o].pc = "creating" THEN 2
    ELSE IF op[o].pc = "connecting" THEN 2 * op[o].attempt + 3
    ELSE IF op[o].pc = "live" THEN 2 * op[o].attempt + 2
    ELSE IF op[o].pc \in {"resolved", "failing"} THEN 2 * MaxAttempts + 3
    ELSE IF op[o].pc = "refreshing" THEN 2 * MaxAttempts + 4
    ELSE 2 * MaxAttempts + 5

\* A live run has made an attempt.
LiveHasAttempt == \A o \in Op : op[o].pc = "live" => op[o].attempt >= 1

\* No run goes round: each move takes it nearer to its end.
RunsProgress ==
    [][\A o \in Op : op'[o].pc # op[o].pc => Progress(o)' > Progress(o)]_vars

\* It is never more than 2 * MaxAttempts + 5 moves away from it.
ProgressBounded == \A o \in Op : Progress(o) \in 0 .. 2 * MaxAttempts + 5

\* The progress of a run is within its bounds.
LEMMA ProgressType ==
    ASSUME IndInv, LiveHasAttempt
    PROVE  ProgressBounded
<1> SUFFICES ASSUME NEW o \in Op PROVE Progress(o) \in 0 .. 2 * MaxAttempts + 5
  BY DEF ProgressBounded
<1>1. op[o].pc \in Pcs /\ op[o].attempt \in 0..MaxAttempts /\ MaxAttempts \in Nat
  BY ConstantsAssumption DEF IndInv, TypeOK, Run
<1>2. op[o].pc = "connecting" => op[o].attempt < MaxAttempts
  BY DEF IndInv, RunsOK
<1>3. CASE op[o].pc \in Ended
  BY <1>1, <1>3 DEF Progress, Ended
<1>4. CASE op[o].pc \notin Ended
  BY <1>1, <1>2, <1>4 DEF Progress, Pcs
<1>5. QED BY <1>3, <1>4

\* A live run keeps its count until it has left, and enters with a new one.
LEMMA NextLive ==
    ASSUME IndInv, LiveHasAttempt, [Next]_vars
    PROVE  LiveHasAttempt'
<1> SUFFICES ASSUME NEW o \in Op, op'[o].pc = "live" PROVE op'[o].attempt >= 1
  BY DEF LiveHasAttempt
<1>1. RunMove(o) /\ op[o].attempt \in Nat
  BY RunMoves, ConstantsAssumption DEF IndInv, TypeOK, Run
<1>2. QED BY <1>1 DEF RunMove, LiveHasAttempt

\* Every move of a run takes it further.
LEMMA MoveProgress ==
    ASSUME IndInv, LiveHasAttempt, NEW o \in Op, RunMove(o), IndInv',
           op'[o].pc # op[o].pc
    PROVE  Progress(o)' > Progress(o)
<1>1. /\ op[o].attempt \in 0..MaxAttempts /\ op'[o].attempt \in 0..MaxAttempts
      /\ MaxAttempts \in Nat /\ MaxAttempts >= 1
  BY ConstantsAssumption DEF IndInv, TypeOK, Run
<1>2. op[o].pc = "connecting" => op[o].attempt < MaxAttempts
  BY DEF IndInv, RunsOK
<1>3. op'[o].pc = "connecting" => op'[o].attempt < MaxAttempts
  BY DEF IndInv, RunsOK
<1>4. op[o].pc \in {"idle", "preparing", "creating"} => op[o].attempt = 0
  BY DEF IndInv, RunsOK
<1>5. /\ MovesOn(op[o].pc, op'[o].pc)
      /\ op'[o].attempt = op[o].attempt + (IF op'[o].pc = "live" THEN 1 ELSE 0)
  BY DEF RunMove
<1> DEFINE from == op[o].pc
           to == op'[o].pc
           top == 2 * MaxAttempts
<1>6. CASE to \in Ended
  <2>1. Progress(o)' = top + 5
    BY <1>6 DEF Progress, Ended
  <2>2. from \notin Ended
    BY <1>5 DEF MovesOn, Ended
  <2>3. from \in Pcs
    BY DEF IndInv, TypeOK, Run
  <2>4. Progress(o) <= top + 4
    BY <1>1, <1>2, <2>2, <2>3 DEF Progress, Pcs, Ended
  <2>5. Progress(o) \in Nat
    BY <1>1, <2>2, <2>3 DEF Progress, Pcs, Ended
  <2>6. QED BY <1>1, <2>1, <2>4, <2>5
<1>a. /\ from = "idle" => Progress(o) = 0
      /\ from = "preparing" => Progress(o) = 1
      /\ from = "creating" => Progress(o) = 2
      /\ from = "connecting" => Progress(o) = 2 * op[o].attempt + 3
      /\ from = "live" => Progress(o) = 2 * op[o].attempt + 2
      /\ from = "resolved" => Progress(o) = top + 3
  BY DEF Progress
<1>b. /\ to = "preparing" => Progress(o)' = 1
      /\ to = "creating" => Progress(o)' = 2
      /\ to = "connecting" => Progress(o)' = 2 * op'[o].attempt + 3
      /\ to = "live" => Progress(o)' = 2 * op'[o].attempt + 2
      /\ to \in {"resolved", "failing"} => Progress(o)' = top + 3
      /\ to = "refreshing" => Progress(o)' = top + 4
  BY DEF Progress
<1>7. CASE from = "idle" \/ from = "preparing"
  BY <1>5, <1>6, <1>7, <1>a, <1>b DEF MovesOn, Ended
<1>8. CASE from = "creating" /\ to = "connecting"
  BY <1>1, <1>4, <1>5, <1>8, <1>a, <1>b
<1>9. CASE from = "connecting" /\ to = "live"
  BY <1>1, <1>5, <1>9, <1>a, <1>b
<1>10. CASE from \in {"connecting", "live"} /\ to \in {"resolved", "failing"}
  BY <1>1, <1>2, <1>10, <1>a, <1>b
<1>11. CASE from = "live" /\ to = "connecting"
  BY <1>1, <1>3, <1>5, <1>11, <1>a, <1>b
<1>12. CASE from = "resolved" /\ to = "refreshing"
  BY <1>1, <1>12, <1>a, <1>b
<1>13. QED
  BY <1>5, <1>6, <1>7, <1>8, <1>9, <1>10, <1>11, <1>12 DEF MovesOn, Ended

\* A run makes a bounded number of moves, whatever the server, the network,
\* the user and the other runs do: it cannot retry for ever.
THEOREM RunsEndBounded == Spec => []ProgressBounded /\ RunsProgress
<1>1. Init => IndInv /\ LiveHasAttempt
  <2>1. Init => LiveHasAttempt
    BY DEF Init, IdleRun, LiveHasAttempt
  <2>2. QED BY <2>1, InitInd
<1>2. IndInv /\ LiveHasAttempt /\ [Next]_vars => (IndInv /\ LiveHasAttempt)'
  BY NextInd, NextLive
<1>3. IndInv /\ LiveHasAttempt => ProgressBounded
  BY ProgressType
<1>4. IndInv /\ LiveHasAttempt /\ [Next]_vars
      => [\A o \in Op : op'[o].pc # op[o].pc => Progress(o)' > Progress(o)]_vars
  BY NextInd, RunMoves, MoveProgress
<1>5. QED
  BY <1>1, <1>2, <1>3, <1>4, PTL DEF Spec, RunsProgress

\* A run that fails waits for the deletion of its own row; a rewrite, which
\* keeps its row, does not.
FailingHasDeletion ==
    \A o \in Op : op[o].pc = "failing" /\ op[o].kind # "rewrite"
                  => op[o].msg \in deleting

\* Where no deletion ends and no run begins to fail, the waits stand.
LEMMA KeepsWaits ==
    ASSUME FailingHasDeletion, deleting \subseteq deleting',
           \A p \in Op : \/ op'[p] = op[p]
                         \/ op'[p].pc # "failing" \/ op'[p].kind = "rewrite"
                         \/ op'[p].msg \in deleting'
    PROVE  FailingHasDeletion'
BY DEF FailingHasDeletion

\* A rejected promise starts the deletion that its run waits for.
LEMMA FailsWithDeletion ==
    ASSUME IndInv, FailingHasDeletion, NEW o \in Op, StreamFails(o)
    PROVE  FailingHasDeletion'
<1>1. PcChange(o, "failing")
  BY PcUpdate, PcTypes DEF StreamFails, IndInv
<1>2. \A p \in Op \ {o} : op'[p] = op[p]
  BY DEF StreamFails, IndInv, TypeOK
<1>3. deleting \subseteq deleting'
  BY DEF StreamFails
<1>4. op'[o].kind # "rewrite" => op'[o].msg \in deleting'
  BY <1>1 DEF StreamFails, PcChange
<1>5. QED
  BY <1>2, <1>3, <1>4, KeepsWaits

\* The end of a deletion, good or bad, releases every run that waits for it.
LEMMA CommitReleases ==
    ASSUME IndInv, FailingHasDeletion, NEW m \in Msg, DeletionOver(m)
    PROVE  FailingHasDeletion'
<1> SUFFICES ASSUME NEW o \in Op, op'[o].pc = "failing", op'[o].kind # "rewrite"
             PROVE  op'[o].msg \in deleting'
  BY DEF FailingHasDeletion
<1>0. DeletionEnds(m)
  BY DEF DeletionOver, DeleteCommits, DeleteFails
<1>1. \/ op'[o] = op[o] /\ ~(op[o].pc = "failing" /\ op[o].kind # "rewrite"
                             /\ op[o].msg = m)
      \/ op'[o] = [op[o] EXCEPT !.pc = "failed"]
  BY <1>0 DEF DeletionEnds, AwaitingDeletion
<1>2. op[o] \in Run
  BY DEF IndInv, TypeOK
<1>3. op'[o] # [op[o] EXCEPT !.pc = "failed"]
  BY <1>2 DEF Run
<1>4. op[o].msg \in deleting /\ op[o].msg # m
  BY <1>1, <1>3 DEF FailingHasDeletion
<1>5. QED BY <1>0, <1>1, <1>3, <1>4 DEF DeletionEnds

\* Every step keeps the waits.
LEMMA NextWaits ==
    ASSUME IndInv, FailingHasDeletion, [Next]_vars
    PROVE  FailingHasDeletion'
<1>1. TypeOK /\ RunsOK /\ \A p \in Op : RunMove(p)
  BY RunMoves DEF IndInv
<1>2. CASE /\ deleting \subseteq deleting'
           /\ \A p \in Op : op[p].pc \notin {"connecting", "live"}
                            \/ op'[p].pc # "failing"
  <2>1. \A p \in Op : op'[p] = op[p] \/ op'[p].pc # "failing"
    BY <1>1, <1>2 DEF RunMove, MovesOn
  <2>2. QED BY <1>2, <2>1, KeepsWaits
<1>3. CASE UNCHANGED <<op, deleting>>
  BY <1>3 DEF FailingHasDeletion
<1>4. ASSUME NEW o \in Op, Start(o) PROVE FailingHasDeletion'
  <2>1. op[o].pc = "idle" /\ \A p \in Op \ {o} : op'[p] = op[p]
    BY <1>1, <1>4 DEF Start, SendStart, ResendStart, RewriteStart, TypeOK
  <2>2. UNCHANGED deleting
    BY <1>4 DEF Start, SendStart, ResendStart, RewriteStart
  <2>3. QED BY <1>2, <2>1, <2>2
<1>5. ASSUME NEW o \in Op, PcChange(o, "failed") \/ PcChange(o, "connecting")
               \/ PcChange(o, "lost") \/ PcChange(o, "done")
               \/ PcChange(o, "refreshing") \/ PcChange(o, "resolved"),
             deleting \subseteq deleting'
      PROVE  FailingHasDeletion'
  BY <1>2, <1>5 DEF PcChange
<1>6. ASSUME NEW o \in Op, SendPrepared(o) \/ (\E m \in Msg : CreateRow(o, m))
                           \/ Connect(o)
      PROVE  FailingHasDeletion'
  <2>1. /\ op[o].pc \in {"preparing", "creating", "connecting"}
        /\ \A p \in Op \ {o} : op'[p] = op[p]
        /\ UNCHANGED deleting
    BY <1>1, <1>6 DEF SendPrepared, CreateRow, Connect, TypeOK
  <2>2. op'[o].pc # "failing"
    BY <1>1, <1>6 DEF SendPrepared, CreateRow, Connect, TypeOK, Run
  <2>3. QED BY <1>2, <2>1, <2>2
<1>7. ASSUME NEW o \in Op,
             \/ CreateFails(o) \/ SettleRewrite(o) \/ ResetFails(o)
             \/ SettleFails(o) \/ FinalizeFails(o)
      PROVE  FailingHasDeletion'
  <2>1. PcChange(o, "failed")
    BY <1>1, <1>7, PcUpdate, PcTypes
       DEF CreateFails, SettleRewrite, ResetFails, SettleFails, FinalizeFails
  <2>2. deleting \subseteq deleting'
    BY <1>7 DEF CreateFails, SettleRewrite, ResetFails, SettleFails,
                FinalizeFails, Cleanup
  <2>3. QED BY <1>5, <2>1, <2>2
<1>8. ASSUME NEW o \in Op, ResetRow(o) \/ Finalize(o) \/ Refresh(o)
      PROVE  FailingHasDeletion'
  <2>1. PICK pc \in {"connecting", "failed", "done", "refreshing"} :
            op' = [op EXCEPT ![o].pc = pc]
    BY <1>8 DEF ResetRow, Finalize, Refresh
  <2>2. PcChange(o, pc)
    BY <1>1, <2>1, PcUpdate, PcTypes
  <2>3. QED BY <1>5, <1>8, <2>2 DEF ResetRow, Finalize, Refresh
<1>9. ASSUME NEW o \in Op, Advance(o) PROVE FailingHasDeletion'
  <2>1. CASE DeletionOver(op[o].msg)
    <3>1. op[o].msg \in Msg
      BY <1>1, <2>1, DeletionOfMessage
    <3>2. QED BY <2>1, <3>1, CommitReleases
  <2>2. CASE ConnectFails(o) \/ EmitFails(o) \/ Timeout(o)
    BY <2>2, FailsWithDeletion DEF ConnectFails, EmitFails, Timeout
  <2>3. QED BY <1>6, <1>7, <1>8, <1>9, <2>1, <2>2 DEF Advance
<1>10. ASSUME NEW o \in Op, ServerStep(o) PROVE FailingHasDeletion'
  <2>1. CASE Reject(o)
    BY <1>3, <2>1, FailsWithDeletion DEF Reject
  <2>2. CASE RateLimit(o)
    <3>1. PcChange(o, "connecting")
      BY <1>1, <2>2, PcUpdate, PcTypes DEF RateLimit
    <3>2. QED BY <1>5, <2>2, <3>1 DEF RateLimit
  <2>3. CASE CompleteToRun(o)
    <3>1. PICK h \in Op : op' = [op EXCEPT ![h].pc =
                                    IF @ = "live" THEN "resolved" ELSE @]
      BY <2>3 DEF CompleteToRun
    <3>2. CASE op[h].pc = "live"
      <4>1. PcChange(h, "resolved")
        BY <1>1, <3>1, <3>2, PcUpdate, PcTypes
      <4>2. QED BY <1>5, <2>3, <4>1 DEF CompleteToRun
    <3>3. CASE op[h].pc # "live"
      <4>1. [op[h] EXCEPT !.pc = op[h].pc] = op[h]
        BY <1>1 DEF TypeOK, Run
      <4>2. op' = op
        BY <1>1, <3>1, <3>3, <4>1 DEF TypeOK
      <4>3. QED BY <1>3, <2>3, <4>2 DEF CompleteToRun
    <3>4. QED BY <3>2, <3>3
  <2>4. CASE ErrorToRun(o)
    <3>1. PICK e \in Op : e = messageState[op[o].msg].onError
      BY <2>4 DEF ErrorToRun
    <3>2. CASE op[e].pc = "live"
      BY <2>4, <3>1, <3>2, FailsWithDeletion DEF ErrorToRun
    <3>3. CASE op[e].pc # "live"
      <4>1. UNCHANGED op /\ deleting \subseteq deleting'
        BY <2>4, <3>1, <3>3 DEF ErrorToRun, Cleanup
      <4>2. QED BY <4>1 DEF FailingHasDeletion
    <3>4. QED BY <3>2, <3>3
  <2>5. QED
    BY <1>3, <1>10, <2>1, <2>2, <2>3, <2>4
       DEF ServerStep, Accept, Chunk, CompleteToRecovery, ErrorToRecovery, Unheard
<1>11. CASE Crash
  <2>1. \A p \in Op : op'[p].pc # "failing"
    <3>1. \A p \in Op : op[p] \in Run
      BY <1>1 DEF TypeOK
    <3>2. QED BY <1>11, <3>1 DEF Crash, Ended, Run
  <2>2. QED BY <2>1 DEF FailingHasDeletion
<1>12. CASE PageStep
  BY <1>3, <1>11, <1>12
     DEF PageStep, OpenChat, FirstLoad, OpenHistory, SwitchConversation, NewChat
<1>13. ASSUME NEW m \in Msg, RowStep(m) PROVE FailingHasDeletion'
  BY <1>3, <1>13, CommitReleases
     DEF RowStep, MarkOver, MarkCommits, MarkFails, RecoveryTimer, Abort,
         ServerDeletes, UserDeletes
<1>14. CASE UNCHANGED vars
  BY <1>3, <1>14 DEF vars
<1>15. QED
  BY <1>4, <1>9, <1>10, <1>12, <1>13, <1>14 DEF Next

\* A failed send or resend is never left behind by the deletion it awaits:
\* the deletion is still under way, however many cleanups, commits and
\* crashes have crossed, so that its draft comes back.
THEOREM FailingIsReleased == Spec => []FailingHasDeletion
<1>1. Init => IndInv /\ FailingHasDeletion
  <2>1. Init => FailingHasDeletion
    BY DEF Init, IdleRun, FailingHasDeletion
  <2>2. QED BY <2>1, InitInd
<1>2. IndInv /\ FailingHasDeletion /\ [Next]_vars => (IndInv /\ FailingHasDeletion)'
  BY NextInd, NextWaits
<1>3. QED
  BY <1>1, <1>2, PTL DEF Spec

-----------------------------------------------------------------------------
(* A reported answer is in the table.                                      *)

Kept == {"creating", "refreshing", "done"}
Reported == {"refreshing", "done"}

\* The answer is stored from the step that ends the stream, before the list
\* is refreshed and the run is done.
AnswersDurable ==
    \A o \in Op :
        /\ op[o].pc \in Reported
        /\ \A p \in Op : op[p].msg = op[o].msg => op[p].pc \in Kept
        => db[op[o].msg] \in {NoRow, FinalRow}

\* Whoever opens a row has it in its hands.
OpensOwn ==
    \A m \in Msg : \/ db'[m] \in {db[m], Quiet(db[m]), NoRow, FinalRow}
                   \/ \E p \in Op : op'[p].msg = m /\ op'[p].pc \notin Kept

\* A patch with another row than a new one opens none.
LEMMA PatchOpensNone ==
    ASSUME TypeOK, NEW n \in Msg, NEW row \in {Quiet(db[n]), FinalRow},
           db' = Patch(db, n, row)
    PROVE  OpensOwn
BY DEF OpensOwn, Patch, TypeOK

\* Every step that opens a row is one of a run that holds it from then on.
LEMMA StepOpensOwn ==
    ASSUME IndInv, [Next]_vars
    PROVE  OpensOwn
<1>1. TypeOK /\ RunsOK /\ \A p \in Op : op[p] \in Run
  BY DEF IndInv, TypeOK
<1>2. CASE UNCHANGED db
  BY <1>2 DEF OpensOwn
<1>3. ASSUME NEW o \in Op, NEW m \in Msg, CreateRow(o, m) PROVE OpensOwn
  <2>1. op'[o] = [op[o] EXCEPT !.pc = "connecting", !.msg = m]
    BY <1>1, <1>3 DEF CreateRow, TypeOK
  <2>2. op'[o].msg = m /\ op'[o].pc \notin Kept
    BY <1>1, <2>1 DEF Run, Kept
  <2>3. \A n \in Msg \ {m} : db'[n] = db[n]
    BY <1>1, <1>3 DEF CreateRow, TypeOK
  <2>4. QED BY <2>2, <2>3 DEF OpensOwn
<1>4. ASSUME NEW o \in Op, ResetRow(o) PROVE OpensOwn
  <2>1. PICK pc \in {"connecting", "failed"} : op' = [op EXCEPT ![o].pc = pc]
    BY <1>4 DEF ResetRow
  <2>2. PcChange(o, pc)
    BY <1>1, <2>1, PcUpdate, PcTypes
  <2>3. \A n \in Msg : n = op[o].msg \/ db'[n] = db[n]
    BY <1>1, <1>4 DEF ResetRow, Patch, TypeOK
  <2>4. QED BY <2>2, <2>3 DEF OpensOwn, PcChange, Kept
<1>5. ASSUME NEW o \in Op, SettleRewrite(o) \/ Finalize(o) PROVE OpensOwn
  <2>1. op[o].msg \in Msg
    BY <1>1, <1>5 DEF SettleRewrite, Finalize, RunsOK
  <2>2. QED
    BY <1>1, <1>5, <2>1, PatchOpensNone DEF SettleRewrite, Finalize
<1>6. ASSUME NEW m \in Msg, DeletionOver(m) \/ UserDeletes(m) PROVE OpensOwn
  BY <1>1, <1>6
     DEF DeletionOver, DeleteCommits, DeleteFails, UserDeletes, OpensOwn, TypeOK
<1>7. ASSUME NEW m \in Msg, MarkOver(m) PROVE OpensOwn
  BY <1>1, <1>2, <1>7, PatchOpensNone DEF MarkOver, MarkCommits, MarkFails
<1>8. ASSUME NEW rows \in SUBSET Msg, NewChat(rows) PROVE OpensOwn
  BY <1>8 DEF NewChat, OpensOwn
<1>9. ASSUME NEW o \in Op, Advance(o) PROVE OpensOwn
  <2>1. CASE DeletionOver(op[o].msg)
    BY <1>1, <1>6, <2>1, DeletionOfMessage
  <2>2. CASE \/ SendPrepared(o) \/ CreateFails(o) \/ Connect(o)
             \/ ConnectFails(o) \/ EmitFails(o) \/ Timeout(o) \/ Refresh(o)
             \/ ResetFails(o) \/ SettleFails(o) \/ FinalizeFails(o)
    BY <1>2, <2>2
       DEF SendPrepared, CreateFails, Connect, ConnectFails, EmitFails,
           Timeout, Refresh, ResetFails, SettleFails, FinalizeFails
  <2>3. QED BY <1>3, <1>4, <1>5, <1>9, <2>1, <2>2 DEF Advance
<1>10. ASSUME NEW o \in Op, Start(o) \/ ServerStep(o) PROVE OpensOwn
  BY <1>2, <1>10
     DEF Start, SendStart, ResendStart, RewriteStart, ServerStep, Accept,
         Reject, RateLimit, Chunk, CompleteToRun, CompleteToRecovery,
         ErrorToRun, ErrorToRecovery, Unheard
<1>11. ASSUME NEW m \in Msg, RowStep(m) PROVE OpensOwn
  BY <1>2, <1>6, <1>7, <1>11 DEF RowStep, RecoveryTimer, Abort, ServerDeletes
<1>12. CASE PageStep
  BY <1>2, <1>8, <1>12
     DEF PageStep, OpenChat, FirstLoad, OpenHistory, SwitchConversation, Crash
<1>13. CASE UNCHANGED vars
  BY <1>2, <1>13 DEF vars
<1>14. QED
  BY <1>9, <1>10, <1>11, <1>12, <1>13 DEF Next

\* A stored answer outlasts every step: a run that has opened the row holds
\* it until it stores its own answer, and any other write closes or deletes.
LEMMA NextDurable ==
    ASSUME IndInv, RowsShaped, AnswersDurable, [Next]_vars
    PROVE  AnswersDurable'
<1>1. TypeOK /\ RunsOK /\ IndInv' /\ OpensOwn
      /\ (\A p \in Op : RunMove(p)) /\ None \notin Msg
  BY NextInd, StepOpensOwn, RunMoves, ConstantsAssumption DEF IndInv
<1> SUFFICES ASSUME NEW o \in Op, op'[o].pc \in Reported,
                    \A p \in Op : op'[p].msg = op'[o].msg => op'[p].pc \in Kept
             PROVE  db'[op'[o].msg] \in {NoRow, FinalRow}
  BY DEF AnswersDurable
<1> DEFINE m == op'[o].msg
<1>2. m \in Msg
  BY <1>1 DEF IndInv, RunsOK, Reported
<1>3. CASE \E p \in Op : /\ op[p].pc = "resolved" /\ op[p].msg = m
                         /\ op'[p].pc # "resolved"
  <2>1. PICK p \in Op : /\ op[p].pc = "resolved" /\ op[p].msg = m
                        /\ op'[p].pc # "resolved"
    BY <1>3
  <2>2. op'[p].msg = m /\ op'[p] # op[p]
    BY <1>1, <1>2, <2>1 DEF RunMove
  <2>3. op'[p].pc \notin {"failed", "lost"}
    BY <2>2 DEF Kept
  <2>4. db' = Patch(db, m, FinalRow)
    BY <1>1, <2>1, <2>2, <2>3 DEF RunMove
  <2>5. ~IsRow(db[m]) => db[m] = NoRow
    BY <1>2, QuietRows DEF RowsShaped, IsRow, NewRow, FinalRow
  <2>6. QED BY <1>1, <1>2, <2>4, <2>5 DEF Patch, TypeOK
<1>4. CASE ~\E p \in Op : /\ op[p].pc = "resolved" /\ op[p].msg = m
                          /\ op'[p].pc # "resolved"
  <2>1. op[o].msg = m /\ op[o].pc \in Reported
    <3>1. CASE op'[o] = op[o]
      BY <3>1
    <3>2. CASE op'[o] # op[o]
      <4>1. MovesOn(op[o].pc, op'[o].pc)
        BY <1>1, <3>2 DEF RunMove
      <4>2. op[o].pc \in {"resolved", "refreshing"}
        BY <4>1 DEF MovesOn, Reported
      <4>3. op[o].msg \in Msg
        BY <1>1, <4>2 DEF RunsOK
      <4>4. op[o].msg = m
        BY <1>1, <3>2, <4>3 DEF RunMove
      <4>5. op[o].pc # "resolved"
        BY <1>4, <4>4 DEF Reported
      <4>6. QED BY <4>2, <4>4, <4>5 DEF Reported
    <3>3. QED BY <3>1, <3>2
  <2>2. ASSUME NEW p \in Op, op[p].msg = m PROVE op[p].pc \in Kept
    <3>1. op'[p].msg = m /\ op'[p].pc \in Kept
      BY <1>1, <1>2, <2>2 DEF RunMove
    <3>2. CASE op'[p] = op[p]
      BY <3>1, <3>2
    <3>3. CASE op'[p] # op[p]
      <4>1. MovesOn(op[p].pc, op'[p].pc)
        BY <1>1, <3>3 DEF RunMove
      <4>2. op[p].pc \notin {"idle", "preparing"}
        BY <1>1, <1>2, <2>2 DEF RunsOK
      <4>3. op[p].pc \in {"resolved", "refreshing"}
        BY <3>1, <4>1, <4>2 DEF MovesOn, Kept
      <4>4. op[p].pc # "resolved"
        BY <1>4, <2>2, <3>1 DEF Kept
      <4>5. QED BY <4>3, <4>4 DEF Kept
    <3>4. QED BY <3>2, <3>3
  <2>3. db[m] \in {NoRow, FinalRow}
    BY <2>1, <2>2 DEF AnswersDurable
  <2>4. db'[m] \in {db[m], Quiet(db[m]), NoRow, FinalRow}
    BY <1>1, <1>2 DEF OpensOwn
  <2>5. QED BY <2>3, <2>4, QuietRows
<1>5. QED BY <1>3, <1>4

\* What a run has reported as its answer is in the table, whole and closed,
\* or deleted, until a run empties the row: no resume, late commit, failure
\* or new chat takes anything from it, for any number of runs and rows.
THEOREM CompletedDurable == Spec => []CompletedIsDurable
<1>1. Init => IndInv /\ RowsShaped /\ AnswersDurable
  <2>1. Init => AnswersDurable
    BY DEF Init, IdleRun, AnswersDurable, Reported
  <2>2. QED BY <2>1, InitInd, InitRows
<1>2. IndInv /\ RowsShaped /\ AnswersDurable /\ [Next]_vars
      => (IndInv /\ RowsShaped /\ AnswersDurable)'
  BY NextInd, StepMoves, NextShaped, NextDurable
<1>3. AnswersDurable => CompletedIsDurable
  BY DEF AnswersDurable, CompletedIsDurable, Reported, Kept
<1>4. QED
  BY <1>1, <1>2, <1>3, PTL DEF Spec
=============================================================================
