-------------------------- MODULE PromptLibraryProof --------------------------
(***************************************************************************)
(* Proofs about the prompts view, for any number of prompts and of changes *)
(* of the server's library.                                                *)
(***************************************************************************)
EXTENDS PromptLibrary, TLAPS

\* Pushes are not ahead of the commits, the lost ones are behind, a prompt that
\* is gone does not come back, and a commit writes one prompt, as its own.
ServerInOrder ==
    /\ 1 <= heard /\ heard <= commits
    /\ \A n \in lost : n <= heard
    /\ \A i \in Id : \A m \in Commit, n \in Commit, p \in Commit :
          /\ 1 <= m /\ m < n /\ n < p /\ p <= commits
          /\ history[m][i] # 0 /\ history[n][i] = 0
          => history[p][i] = 0
    /\ \A n \in Commit : 1 <= n /\ n < commits =>
          \E i \in Id : /\ history[n + 1][i] \in {0, n + 1}
                        /\ \A j \in Id \ {i} : history[n + 1][j] = history[n][j]
    /\ \A n \in Commit, i \in Id : history[n][i] <= n

IndInv ==
    /\ TypeOK
    /\ ServerInOrder
    /\ ListIsAsTold
    /\ DraftFollowsList
    /\ FailureIsTold

-----------------------------------------------------------------------------
LEMMA InitKeeps == Init => IndInv
<1> SUFFICES ASSUME Init PROVE IndInv
    OBVIOUS
<1> USE PromptAssumption DEF Init, Commit
<1>1. history \in [Commit -> Library] /\ commits \in Commit /\ heard \in Commit
    BY DEF Library
<1>2. list \in Library /\ draft \in Draft
    BY DEF Library, Draft, NoDraft
<1>3. TypeOK
    BY <1>1, <1>2 DEF TypeOK
<1>4. DraftFollowsList /\ FailureIsTold
    BY DEF DraftFollowsList, FailureIsTold, EditorOpen, Shown, NoDraft
<1>5. ListIsAsTold
    <2>1. \A i \in Id : Told(i) = {}
        <3>1. 2..heard = {}
            OBVIOUS
        <3> QED
            BY <3>1 DEF Told
    <2>2. \A i \in Id : list[i] = 0
        OBVIOUS
    <2> QED
        BY <2>1, <2>2 DEF ListIsAsTold
<1>6. commits = 1 /\ heard = 1 /\ lost = {}
    OBVIOUS
<1>8. ASSUME NEW n \in Commit, NEW i \in Id PROVE history[n][i] <= n
    <2>1. history[n][i] = IF n = 1 /\ i \in Initially THEN 1 ELSE 0
        BY DEF Init
    <2> QED
        BY ONLY <2>1, n \in Commit, PromptAssumption DEF Commit
<1> HIDE DEF Init
<1>7. ServerInOrder
    <2>1. \A m \in Commit, n \in Commit, p \in Commit :
             ~(1 <= m /\ m < n /\ n < p /\ p <= commits)
        BY <1>6
    <2>2. \A n \in Commit : ~(1 <= n /\ n < commits)
        BY <1>6
    <2> QED
        BY <1>6, <1>8, <2>1, <2>2 DEF ServerInOrder
<1> QED
    BY <1>3, <1>4, <1>5, <1>7 DEF IndInv

-----------------------------------------------------------------------------
(* Commits and pushes                                                      *)

\* A commit writes one prompt, and only one that is alive or was never there.
LEMMA WritesKeepOrder ==
    ASSUME IndInv, NEW i \in Id, NEW content, Writes(i, content),
           content = commits + 1 \/ content = 0,
           Unborn(i) \/ Alive(i)
    PROVE  /\ history' \in [Commit -> Library] /\ commits' \in Commit
           /\ commits' = commits + 1
           /\ \A n \in Commit : n <= commits => history'[n] = history[n]
           /\ \A k \in Id : \A m \in Commit, n \in Commit, p \in Commit :
                 /\ 1 <= m /\ m < n /\ n < p /\ p <= commits'
                 /\ history'[m][k] # 0 /\ history'[n][k] = 0
                 => history'[p][k] = 0
           /\ \A n \in Commit : 1 <= n /\ n < commits' =>
                 \E k \in Id : /\ history'[n + 1][k] \in {0, n + 1}
                               /\ \A j \in Id \ {k} : history'[n + 1][j] = history'[n][j]
           /\ \A n \in Commit, k \in Id : history'[n][k] <= n
<1> USE PromptAssumption DEF Commit
<1>1. TypeOK /\ ServerInOrder
    BY DEF IndInv
<1>2. /\ commits < MaxCommits /\ commits' = commits + 1
      /\ history' = [history EXCEPT ![commits + 1] = [history[commits] EXCEPT ![i] = content]]
    BY DEF Writes
<1>3. /\ commits \in Nat /\ commits + 1 \in Commit /\ content \in Commit
    BY <1>1, <1>2 DEF TypeOK
<1>4. [history[commits] EXCEPT ![i] = content] \in Library
    BY <1>1, <1>3 DEF TypeOK, Library
<1>5. history' \in [Commit -> Library]
    BY <1>1, <1>2, <1>4 DEF TypeOK
<1>6. /\ history'[commits + 1] = [history[commits] EXCEPT ![i] = content]
      /\ \A n \in Commit : n # commits + 1 => history'[n] = history[n]
    BY <1>1, <1>2, <1>3 DEF TypeOK
<1>7. \A n \in Commit : n <= commits => history'[n] = history[n]
    BY <1>3, <1>6
<1>8. /\ history[commits] \in Library
      /\ \A k \in Id \ {i} : history'[commits + 1][k] = history[commits][k]
      /\ history'[commits + 1][i] = content
    BY <1>1, <1>6 DEF TypeOK, Library
<1>9. ASSUME NEW k \in Id, NEW m \in Commit, NEW n \in Commit, NEW p \in Commit,
             1 <= m, m < n, n < p, p <= commits',
             history'[m][k] # 0, history'[n][k] = 0
      PROVE  history'[p][k] = 0
    <2>1. m <= commits /\ n <= commits /\ 1 <= n
        BY <1>2, <1>3, <1>9
    <2>2. history[m][k] # 0 /\ history[n][k] = 0
        BY <1>7, <1>9, <2>1
    <2>3. CASE p <= commits
        <3>1. history[p][k] = 0
            BY <1>1, <1>9, <2>2, <2>3 DEF ServerInOrder
        <3> QED
            BY <1>7, <2>3, <3>1
    <2>4. CASE p = commits + 1
        <3>1. history[commits][k] = 0
            <4>1. CASE n = commits
                BY <2>2, <4>1
            <4>2. CASE n < commits
                BY <1>1, <1>3, <1>9, <2>2, <4>2 DEF ServerInOrder
            <4> QED
                BY <1>3, <2>1, <4>1, <4>2
        <3>2. ~Unborn(k) /\ ~Alive(k)
            BY <2>2, <3>1 DEF Unborn, Alive
        <3>3. k # i
            BY <3>2
        <3> QED
            BY <1>8, <2>4, <3>1, <3>3
    <2> QED
        BY <1>2, <1>3, <1>9, <2>3, <2>4
<1>10. ASSUME NEW n \in Commit, 1 <= n, n < commits'
       PROVE  \E k \in Id : /\ history'[n + 1][k] \in {0, n + 1}
                            /\ \A j \in Id \ {k} : history'[n + 1][j] = history'[n][j]
    <2>1. CASE n = commits
        <3>1. /\ history'[n + 1][i] \in {0, n + 1}
              /\ \A j \in Id \ {i} : history'[n + 1][j] = history'[n][j]
            BY <2>1, <1>7, <1>8, <1>3
        <3> QED
            BY <3>1
    <2>2. CASE n < commits
        <3>1. history'[n + 1] = history[n + 1] /\ history'[n] = history[n]
            BY <2>2, <1>1, <1>7 DEF TypeOK
        <3> QED
            BY <1>10, <2>2, <3>1, <1>1 DEF ServerInOrder
    <2> QED
        BY <1>2, <1>3, <1>10, <2>1, <2>2
<1>11. ASSUME NEW n \in Commit, NEW k \in Id PROVE history'[n][k] <= n
    <2>1. CASE n = commits + 1
        <3>1. CASE k = i
            BY <1>3, <1>8, <2>1, <3>1
        <3>2. CASE k # i
            <4>1. history'[n][k] = history[commits][k] /\ history[commits][k] <= commits
                BY <1>1, <1>8, <2>1, <3>2 DEF ServerInOrder, TypeOK
            <4>2. history[commits][k] \in Nat
                BY <1>8 DEF Library
            <4> QED
                BY <1>3, <2>1, <4>1, <4>2
        <3> QED
            BY <3>1, <3>2
    <2>2. CASE n # commits + 1
        BY <1>1, <1>6, <2>2 DEF ServerInOrder
    <2> QED
        BY <2>1, <2>2
<1> QED
    BY <1>2, <1>3, <1>5, <1>7, <1>9, <1>10, <1>11

LEMMA SomethingWritten ==
    ASSUME OtherDevice
    PROVE  \E i \in Id, content \in {commits + 1, 0} :
              Writes(i, content) /\ (Unborn(i) \/ Alive(i))
BY DEF OtherDevice

\* The next push tells of one prompt.
LEMMA PushTyped ==
    ASSUME IndInv, NextIsPush
    PROVE  /\ heard + 1 \in Commit /\ heard + 1 <= commits
           /\ heard' = heard + 1 /\ lost' = lost /\ heard + 1 \notin lost
           /\ Before \in Library /\ After \in Library
           /\ \A i \in Id : Before[i] # After[i] =>
                 /\ After[i] \in {0, heard + 1}
                 /\ \A j \in Id \ {i} : After[j] = Before[j]
<1> USE PromptAssumption DEF Commit
<1>1. TypeOK /\ ServerInOrder
    BY DEF IndInv
<1>2. heard < commits /\ heard + 1 \in Commit /\ heard' = heard + 1 /\ lost' = lost
    BY <1>1 DEF NextIsPush, TypeOK
<1>3. Before \in Library /\ After \in Library
    BY <1>1, <1>2 DEF Before, After, TypeOK
<1>4. PICK k \in Id : /\ After[k] \in {0, heard + 1}
                      /\ \A j \in Id \ {k} : After[j] = Before[j]
    BY <1>1, <1>2 DEF ServerInOrder, Before, After, TypeOK
<1>5. heard + 1 \notin lost
    BY <1>1 DEF ServerInOrder, TypeOK
<1> QED
    BY <1>1, <1>2, <1>3, <1>4, <1>5 DEF TypeOK

Hears == HearCreated \/ HearUpdated \/ HearUpdatedUnknown \/ HearDeleted

LEMMA HearsPush == ASSUME Hears PROVE NextIsPush /\ UNCHANGED server
BY DEF Hears, HearCreated, HearUpdated, HearUpdatedUnknown, HearDeleted

\* What a step does to the server's prompts and the pushes.
LEMMA ServerSteps ==
    ASSUME [Next]_vars
    PROVE  \/ OtherDevice
           \/ Hears
           \/ MissPushes
           \/ Drops
           \/ UNCHANGED <<server, pushes>>
BY DEF Next, vars, server, pushes, Hears, Attach, MountHook, MountHookTooEarly, FetchFails,
   Reconnects, Select, NewPrompt, Edit, Save, SaveFails, Delete, DeleteFails

LEMMA ServerKept ==
    ASSUME IndInv, [Next]_vars
    PROVE  /\ history' \in [Commit -> Library] /\ commits' \in Commit
           /\ heard' \in Commit /\ lost' \subseteq Commit
           /\ ServerInOrder'
<1> USE PromptAssumption
<1>a. TypeOK /\ ServerInOrder
    BY DEF IndInv
<1>1. CASE OtherDevice
    <2>1. PICK i \in Id, content \in {commits + 1, 0} :
             Writes(i, content) /\ (Unborn(i) \/ Alive(i))
        BY <1>1, SomethingWritten
    <2>2. heard' = heard /\ lost' = lost
        BY <1>1 DEF OtherDevice, pushes
    <2>3. /\ history' \in [Commit -> Library] /\ commits' \in Commit
          /\ commits' = commits + 1
          /\ \A k \in Id : \A m \in Commit, n \in Commit, p \in Commit :
                /\ 1 <= m /\ m < n /\ n < p /\ p <= commits'
                /\ history'[m][k] # 0 /\ history'[n][k] = 0
                => history'[p][k] = 0
          /\ \A n \in Commit : 1 <= n /\ n < commits' =>
                \E k \in Id : /\ history'[n + 1][k] \in {0, n + 1}
                              /\ \A j \in Id \ {k} : history'[n + 1][j] = history'[n][j]
          /\ \A n \in Commit, k \in Id : history'[n][k] <= n
        BY <2>1, WritesKeepOrder
    <2>4. heard' <= commits' /\ 1 <= heard' /\ \A n \in lost' : n <= heard'
        BY <1>a, <2>2, <2>3 DEF ServerInOrder, TypeOK, Commit
    <2>5. ServerInOrder'
        BY <2>3, <2>4 DEF ServerInOrder
    <2> QED
        BY <1>a, <2>2, <2>3, <2>5 DEF TypeOK
<1>2. CASE Hears
    <2>1. NextIsPush /\ history' = history /\ commits' = commits
        BY <1>2, HearsPush DEF server
    <2>2. heard + 1 \in Commit /\ heard + 1 <= commits /\ heard' = heard + 1 /\ lost' = lost
        BY <2>1, PushTyped
    <2>3. 1 <= heard' /\ heard' <= commits' /\ \A n \in lost' : n <= heard'
        BY <1>a, <2>1, <2>2 DEF ServerInOrder, TypeOK, Commit
    <2>4. ServerInOrder'
        BY <1>a, <2>1, <2>3 DEF ServerInOrder
    <2> QED
        BY <1>a, <2>1, <2>2, <2>4 DEF TypeOK
<1>3. CASE MissPushes \/ Drops
    <2>1. /\ history' = history /\ commits' = commits
          /\ heard' = commits /\ lost' = lost \cup (heard + 1)..commits
        BY <1>3 DEF MissPushes, Drops, server
    <2>2. /\ lost' \subseteq Commit
          /\ 1 <= heard' /\ heard' <= commits' /\ \A n \in lost' : n <= heard'
        BY <1>a, <2>1 DEF ServerInOrder, TypeOK, Commit
    <2>3. ServerInOrder'
        BY <1>a, <2>1, <2>2 DEF ServerInOrder
    <2> QED
        BY <1>a, <2>1, <2>2, <2>3 DEF TypeOK
<1>4. CASE UNCHANGED <<server, pushes>>
    BY <1>a, <1>4 DEF TypeOK, ServerInOrder, server, pushes
<1> QED
    BY <1>1, <1>2, <1>3, <1>4, ServerSteps

-----------------------------------------------------------------------------
(* The list                                                                *)

\* A push adds its commit to what was told of the prompt it is about.
LEMMA PushTold ==
    ASSUME IndInv, NextIsPush, UNCHANGED server, NEW i \in Id
    PROVE  Told(i)' = IF Before[i] # After[i] THEN Told(i) \cup {heard + 1} ELSE Told(i)
<1>1. TypeOK /\ ServerInOrder
    BY DEF IndInv
<1>2. heard' = heard + 1 /\ lost' = lost /\ heard + 1 \notin lost /\ history' = history
    BY PushTyped DEF server
<1>3. heard \in Nat /\ 1 <= heard
    BY <1>1, PromptAssumption DEF TypeOK, ServerInOrder, Commit
<1>4. Told(i)' = {n \in 2..(heard + 1) : n \notin lost /\ history[n][i] # history[n - 1][i]}
    BY <1>2 DEF Told
<1>5. 2..(heard + 1) = 2..heard \cup {heard + 1}
    BY <1>3
<1>6. (heard + 1) - 1 = heard
    BY <1>3
<1> QED
    BY <1>2, <1>4, <1>5, <1>6 DEF Told, Before, After

\* What has been told of a prompt, whatever is told next: a listed prompt is
\* alive or its deletion was lost, an unlisted one was not created since or is
\* gone for good.
LEMMA ToldLists ==
    ASSUME IndInv, NextIsPush, NEW i \in Id, Before[i] # After[i]
    PROVE  /\ Before[i] = 0 => Told(i) = {} /\ list[i] = 0
           /\ Before[i] # 0 /\ list[i] = 0 => ~\E n \in Told(i) : history[n - 1][i] = 0
           /\ list[i] # 0 => \E n \in Told(i) : history[n - 1][i] = 0
<1> USE PromptAssumption DEF Commit
<1>1. TypeOK /\ ServerInOrder /\ ListIsAsTold
    BY DEF IndInv
<1>2. /\ heard + 1 \in Commit /\ heard + 1 <= commits
      /\ heard \in Nat /\ 1 <= heard /\ heard \in Commit
    BY <1>1, PushTyped DEF TypeOK, ServerInOrder
<1>3. \A n \in Told(i) : /\ n \in Commit /\ n - 1 \in Commit /\ 2 <= n /\ n <= heard
                         /\ history[n][i] # history[n - 1][i]
    BY <1>2 DEF Told
<1>4. \A m \in Commit, n \in Commit, p \in Commit :
         /\ 1 <= m /\ m < n /\ n < p /\ p <= commits
         /\ history[m][i] # 0 /\ history[n][i] = 0
         => history[p][i] = 0
    BY <1>1 DEF ServerInOrder
<1>5. IF \E n \in Told(i) : history[n - 1][i] = 0
      THEN \E n \in Told(i) : /\ \A m \in Told(i) : m <= n
                              /\ list[i] = history[n][i]
      ELSE list[i] = 0
    BY <1>1 DEF ListIsAsTold
<1>6. ASSUME Before[i] = 0 PROVE Told(i) = {} /\ list[i] = 0
    <2>1. After[i] # 0 /\ history[heard][i] = 0 /\ history[heard + 1][i] # 0
        BY <1>6 DEF Before, After
    <2>2. ASSUME NEW m \in Commit, 1 <= m, m <= heard PROVE history[m][i] = 0
        <3>1. CASE m = heard
            BY <2>1, <3>1
        <3>2. CASE m < heard
            BY <1>2, <1>4, <2>1, <2>2, <3>2
        <3> QED
            BY <1>2, <2>2, <3>1, <3>2
    <2>3. ASSUME NEW n \in Told(i) PROVE FALSE
        <3>1. n \in Commit /\ n - 1 \in Commit /\ 1 <= n - 1 /\ n - 1 <= heard /\ 1 <= n /\ n <= heard
            BY <1>2, <1>3
        <3>2. history[n][i] = 0 /\ history[n - 1][i] = 0
            BY <2>2, <3>1
        <3> QED
            BY <1>3, <3>2
    <2> QED
        BY <1>5, <2>3
<1>7. ASSUME Before[i] # 0, list[i] = 0, NEW n \in Told(i), history[n - 1][i] = 0
      PROVE  FALSE
    <2>1. PICK l \in Told(i) : (\A m \in Told(i) : m <= l) /\ list[i] = history[l][i]
        BY <1>5, <1>7
    <2>2. history[l][i] = 0 /\ history[l - 1][i] # 0
        BY <1>3, <1>7, <2>1
    <2>3. l \in Commit /\ l - 1 \in Commit /\ 1 <= l - 1 /\ l - 1 < l /\ l <= heard
        BY <1>3
    <2>4. history[heard][i] # 0
        BY <1>7 DEF Before
    <2>5. l < heard
        BY <1>2, <2>2, <2>3, <2>4
    <2>6. heard \in Commit /\ heard <= commits
        BY <1>1, <1>2 DEF ServerInOrder
    <2>7. history[heard][i] = 0
        BY ONLY <1>4, <2>2, <2>3, <2>5, <2>6
    <2> QED
        BY <2>4, <2>7
<1> QED
    BY <1>5, <1>6, <1>7

\* An update never tells what is listed already.
LEMMA TellsNews ==
    ASSUME IndInv, NextIsPush, NEW i \in Id, Before[i] # After[i], After[i] # 0, list[i] # 0
    PROVE  After[i] # list[i]
<1>1. TypeOK /\ ServerInOrder /\ ListIsAsTold
    BY DEF IndInv
<1>2. After[i] = heard + 1
    BY PushTyped
<1>3. PICK n \in Told(i) : list[i] = history[n][i]
    BY <1>1 DEF ListIsAsTold
<1>4. n \in Commit /\ n <= heard /\ heard \in Nat
    BY <1>1, PromptAssumption DEF Told, TypeOK, Commit
<1>5. history[n][i] <= n /\ history[n][i] \in Nat
    <2>1. history[n][i] \in Commit
        BY <1>1, <1>4 DEF TypeOK, Library
    <2> QED
        BY <1>1, <1>4, <2>1, PromptAssumption DEF ServerInOrder, Commit
<1> QED
    BY <1>2, <1>3, <1>4, <1>5, PromptAssumption DEF Commit

\* A push that lists the content of its prompt, or leaves an unlisted one out.
LEMMA PushListed ==
    ASSUME IndInv, NextIsPush, UNCHANGED server,
           NEW i \in Id, Before[i] # After[i],
           \/ /\ Before[i] = 0 \/ list[i] # 0
              /\ list' = [list EXCEPT ![i] = After[i]]
           \/ /\ Before[i] # 0 /\ list[i] = 0
              /\ list' = list
    PROVE  ListIsAsTold' /\ list' \in Library
<1> USE PromptAssumption
<1>1. TypeOK /\ ServerInOrder /\ ListIsAsTold
    BY DEF IndInv
<1>2. /\ heard + 1 \in Commit
      /\ After \in Library
      /\ \A j \in Id \ {i} : After[j] = Before[j]
      /\ history' = history
    BY PushTyped DEF server
<1>3. list' \in Library
    BY <1>1, <1>2 DEF TypeOK, Library
<1>4. heard \in Nat /\ \A n \in Told(i) : n \in Nat /\ n <= heard
    BY <1>1 DEF TypeOK, Commit, Told
<1>5. /\ \A j \in Id \ {i} : Told(j)' = Told(j)
      /\ Told(i)' = Told(i) \cup {heard + 1}
    BY <1>2, PushTold
<1>6. ASSUME NEW j \in Id \ {i}
      PROVE  IF \E n \in Told(j)' : history'[n - 1][j] = 0
             THEN \E n \in Told(j)' : /\ \A m \in Told(j)' : m <= n
                                      /\ list'[j] = history'[n][j]
             ELSE list'[j] = 0
    <2>1. list'[j] = list[j]
        BY <1>1 DEF TypeOK, Library
    <2> QED
        BY <1>1, <1>2, <1>5, <2>1 DEF ListIsAsTold
<1>7. IF \E n \in Told(i)' : history'[n - 1][i] = 0
      THEN \E n \in Told(i)' : /\ \A m \in Told(i)' : m <= n
                               /\ list'[i] = history'[n][i]
      ELSE list'[i] = 0
    <2>1. CASE (Before[i] = 0 \/ list[i] # 0) /\ list' = [list EXCEPT ![i] = After[i]]
        <3>1. list'[i] = history'[heard + 1][i]
            BY <1>1, <1>2, <2>1 DEF TypeOK, Library, After
        <3>2. \A m \in Told(i)' : m <= heard + 1
            BY <1>4, <1>5
        <3>3. \E n \in Told(i)' : history'[n - 1][i] = 0
            <4>1. CASE Before[i] = 0
                <5>1. heard + 1 \in Told(i)' /\ history'[(heard + 1) - 1][i] = 0
                    BY <1>2, <1>4, <1>5, <4>1 DEF Before
                <5> QED
                    BY <5>1
            <4>2. CASE list[i] # 0
                BY <1>2, <1>5, <4>2, ToldLists
            <4> QED
                BY <2>1, <4>1, <4>2
        <3> QED
            BY <1>5, <3>1, <3>2, <3>3
    <2>2. CASE Before[i] # 0 /\ list[i] = 0 /\ list' = list
        <3>1. ~\E n \in Told(i) : history[n - 1][i] = 0
            BY <2>2, ToldLists
        <3>2. history'[(heard + 1) - 1][i] # 0
            BY <1>2, <1>4, <2>2 DEF Before
        <3>3. ~\E n \in Told(i)' : history'[n - 1][i] = 0
            BY <1>2, <1>5, <3>1, <3>2
        <3> QED
            BY <2>2, <3>3
    <2> QED
        BY <2>1, <2>2
<1>8. \A j \in Id :
         IF \E n \in Told(j)' : history'[n - 1][j] = 0
         THEN \E n \in Told(j)' : /\ \A m \in Told(j)' : m <= n
                                  /\ list'[j] = history'[n][j]
         ELSE list'[j] = 0
    BY <1>6, <1>7
<1> QED
    BY <1>3, <1>8 DEF ListIsAsTold

\* Commits that no push has told yet, and pushes that are lost, tell nothing.
LEMMA ToldKept ==
    ASSUME IndInv, [Next]_vars, ~Hears, NEW i \in Id
    PROVE  /\ Told(i)' = Told(i)
           /\ \A n \in Told(i) : history'[n] = history[n] /\ history'[n - 1] = history[n - 1]
<1> USE PromptAssumption DEF Commit
<1>1. TypeOK /\ ServerInOrder
    BY DEF IndInv
<1>2. /\ heard \in Nat /\ heard <= commits /\ heard \in Commit /\ commits \in Commit
      /\ \A n \in 2..heard : n \in Commit /\ n - 1 \in Commit /\ n <= commits /\ n - 1 <= commits
    BY <1>1 DEF TypeOK, ServerInOrder
<1>3. CASE OtherDevice
    <2>1. PICK k \in Id, content \in {commits + 1, 0} :
             Writes(k, content) /\ (Unborn(k) \/ Alive(k))
        BY <1>3, SomethingWritten
    <2>2. \A n \in Commit : n <= commits => history'[n] = history[n]
        BY <2>1, WritesKeepOrder
    <2>3. heard' = heard /\ lost' = lost
        BY <1>3 DEF OtherDevice, pushes
    <2>4. \A n \in 2..heard : history'[n] = history[n] /\ history'[n - 1] = history[n - 1]
        BY <1>2, <2>2
    <2>5. Told(i)' = {n \in 2..heard : n \notin lost /\ history'[n][i] # history'[n - 1][i]}
        BY <2>3 DEF Told
    <2> QED
        BY <2>4, <2>5 DEF Told
<1>4. CASE MissPushes \/ Drops
    <2>1. /\ history' = history
          /\ heard' = commits /\ lost' = lost \cup (heard + 1)..commits
        BY <1>4 DEF MissPushes, Drops, server
    <2>2. \A n \in 2..commits : n \in 2..heard \/ n \in (heard + 1)..commits
        BY <1>2
    <2>3. \A n \in 2..heard : n \in 2..commits /\ n \notin (heard + 1)..commits
        BY <1>2
    <2>4. Told(i)' = {n \in 2..commits : n \notin (lost \cup (heard + 1)..commits)
                                         /\ history[n][i] # history[n - 1][i]}
        BY <2>1 DEF Told
    <2> QED
        BY <2>1, <2>2, <2>3, <2>4 DEF Told
<1>5. CASE UNCHANGED <<server, pushes>>
    BY <1>5 DEF Told, server, pushes
<1> QED
    BY <1>3, <1>4, <1>5, ServerSteps

LEMMA ListUntouched ==
    ASSUME [Next]_vars, ~Hears
    PROVE  list' = list
BY DEF Next, vars, Hears, Attach, MountHook, MountHookTooEarly, FetchFails, MissPushes, Drops,
   Reconnects, OtherDevice, Select, NewPrompt, Edit, Save, SaveFails, Delete, DeleteFails

LEMMA ListKept ==
    ASSUME IndInv, [Next]_vars
    PROVE  ListIsAsTold' /\ list' \in Library
<1>1. TypeOK /\ ListIsAsTold
    BY DEF IndInv
<1>2. CASE Hears
    <2>0. NextIsPush /\ UNCHANGED server
        BY <1>2, HearsPush
    <2>1. CASE HearCreated
        <3>1. PICK i \in Id :
                 /\ Before[i] = 0 /\ After[i] # 0
                 /\ list' = IF list[i] # 0 THEN list ELSE [list EXCEPT ![i] = After[i]]
            BY <2>1 DEF HearCreated
        <3>2. list[i] = 0
            BY <2>0, <3>1, ToldLists
        <3> QED
            BY <2>0, <3>1, <3>2, PushListed
    <2>2. CASE HearUpdated
        <3>1. PICK i \in Id :
                 /\ Before[i] # 0 /\ After[i] \notin {0, Before[i]}
                 /\ list[i] # 0
                 /\ list' = [list EXCEPT ![i] = After[i]]
            BY <2>2 DEF HearUpdated
        <3> QED
            BY <2>0, <3>1, PushListed
    <2>3. CASE HearUpdatedUnknown
        <3>1. PICK i \in Id : Before[i] # 0 /\ After[i] \notin {0, Before[i]} /\ list[i] = 0
            BY <2>3 DEF HearUpdatedUnknown
        <3>2. list' = list
            BY <2>3 DEF HearUpdatedUnknown
        <3> QED
            BY <2>0, <3>1, <3>2, PushListed
    <2>4. CASE HearDeleted
        <3>1. PICK i \in Id : /\ Before[i] # 0 /\ After[i] = 0
                              /\ list' = [list EXCEPT ![i] = 0]
            BY <2>4 DEF HearDeleted
        <3>2. list[i] = 0 => list' = list
            BY <1>1, <3>1 DEF TypeOK, Library
        <3> QED
            BY <2>0, <3>1, <3>2, PushListed
    <2> QED
        BY <1>2, <2>1, <2>2, <2>3, <2>4 DEF Hears
<1>3. CASE ~Hears
    <2>1. list' = list
        BY <1>3, ListUntouched
    <2>2. ASSUME NEW i \in Id
          PROVE  IF \E n \in Told(i)' : history'[n - 1][i] = 0
                 THEN \E n \in Told(i)' : /\ \A m \in Told(i)' : m <= n
                                          /\ list'[i] = history'[n][i]
                 ELSE list'[i] = 0
        <3>1. /\ Told(i)' = Told(i)
              /\ \A n \in Told(i) : history'[n] = history[n] /\ history'[n - 1] = history[n - 1]
            BY <1>3, ToldKept
        <3> QED
            BY <1>1, <2>1, <3>1 DEF ListIsAsTold
    <2> QED
        BY <1>1, <2>1, <2>2 DEF TypeOK, ListIsAsTold
<1> QED
    BY <1>2, <1>3

-----------------------------------------------------------------------------
(* The fetches, the editor and the rest of the types                       *)

LEMMA FailureKept ==
    ASSUME IndInv, [Next]_vars
    PROVE  FailureIsTold' /\ fetches' \in Nat
<1>1. TypeOK /\ FailureIsTold
    BY DEF IndInv
<1>2. CASE Attach \/ MountHook \/ HearUpdatedUnknown
    BY <1>1, <1>2 DEF Attach, MountHook, HearUpdatedUnknown, Begin, TypeOK, FailureIsTold
<1>3. CASE FetchFails
    BY <1>1, <1>3 DEF FetchFails, TypeOK, FailureIsTold
<1>4. CASE MountHookTooEarly
    BY <1>1, <1>4 DEF MountHookTooEarly, TypeOK, FailureIsTold
<1>5. CASE UNCHANGED <<fetches, isLoading, error, attached, hooked>>
    BY <1>1, <1>5 DEF TypeOK, FailureIsTold
<1>6. \/ Attach \/ MountHook \/ HearUpdatedUnknown \/ FetchFails \/ MountHookTooEarly
      \/ UNCHANGED <<fetches, isLoading, error, attached, hooked>>
    BY DEF Next, vars, feed, wire, HearCreated, HearUpdated, HearDeleted, MissPushes, Drops,
       Reconnects, OtherDevice, Select, NewPrompt, Edit, Save, SaveFails, Delete, DeleteFails
<1> QED
    BY <1>2, <1>3, <1>4, <1>5, <1>6

LEMMA DraftMade ==
    ASSUME NEW R, WatchDraft(R), DraftFollowsList, draft \in Draft,
           \A i \in Id \ R : list'[i] = list[i] \/ 0 \in {list[i], list'[i]},
           list \in Library, list' \in Library,
           selected \in Id \cup {None}, selected' \in Id \cup {None},
           isCreating' => selected' = None
    PROVE  DraftFollowsList' /\ draft' \in Draft
<1>1. DraftFollowsList'
    BY PromptAssumption
       DEF WatchDraft, DraftFollowsList, EditorOpen, Shown, NoDraft, view, Library
<1>2. 0 \in Commit
    BY PromptAssumption DEF Commit
<1>3. NoDraft \in Draft
    BY <1>2 DEF NoDraft, Draft
<1>4. Shown' => [of |-> selected', base |-> list'[selected'], dirty |-> FALSE] \in Draft
    BY DEF Shown, Draft, Library
<1> QED
    BY <1>1, <1>3, <1>4 DEF WatchDraft

LEMMA DraftKept ==
    ASSUME IndInv, [Next]_vars
    PROVE  DraftFollowsList' /\ draft' \in Draft /\ selected' \in Id \cup {None}
<1> USE PromptAssumption
<1>a. /\ TypeOK /\ DraftFollowsList
      /\ list' \in Library
    BY ListKept DEF IndInv
<1>b. ASSUME NEW R, WatchDraft(R), selected' \in Id \cup {None},
             \A i \in Id \ R : list'[i] = list[i] \/ 0 \in {list[i], list'[i]},
             isCreating' => selected' = None
      PROVE  DraftFollowsList' /\ draft' \in Draft
    BY <1>a, <1>b, DraftMade DEF TypeOK
<1>1. CASE Attach \/ MountHook \/ FetchFails \/ HearUpdatedUnknown
    <2>1. WatchDraft({}) /\ UNCHANGED view /\ list' = list
        BY <1>1 DEF Attach, MountHook, FetchFails, HearUpdatedUnknown
    <2>2. selected' \in Id \cup {None} /\ (isCreating' => selected' = None)
        BY <1>a, <2>1 DEF view, DraftFollowsList, TypeOK
    <2> QED
        BY <1>b, <2>1, <2>2
<1>2. CASE HearCreated \/ HearDeleted
    <2>1. WatchDraft({}) /\ UNCHANGED view
        BY <1>2 DEF HearCreated, HearDeleted
    <2>2. \A i \in Id : list'[i] = list[i] \/ 0 \in {list[i], list'[i]}
        BY <1>a, <1>2 DEF HearCreated, HearDeleted, TypeOK, Library
    <2>3. selected' \in Id \cup {None} /\ (isCreating' => selected' = None)
        BY <1>a, <2>1 DEF view, DraftFollowsList, TypeOK
    <2> QED
        BY <1>b, <2>1, <2>2, <2>3
<1>3. CASE HearUpdated
    <2>1. WatchDraft({i \in Id : Before[i] # After[i]}) /\ UNCHANGED view
        BY <1>3 DEF HearUpdated
    <2>2. \A i \in Id \ {j \in Id : Before[j] # After[j]} :
             list'[i] = list[i] \/ 0 \in {list[i], list'[i]}
        BY <1>a, <1>3 DEF HearUpdated, TypeOK, Library
    <2>3. selected' \in Id \cup {None} /\ (isCreating' => selected' = None)
        BY <1>a, <2>1 DEF view, DraftFollowsList, TypeOK
    <2> QED
        BY <1>b, <2>1, <2>2, <2>3
<1>4. CASE NewPrompt \/ \E i \in Id : Select(i)
    <2>1. /\ WatchDraft({}) /\ list' = list
          /\ selected' \in Id \cup {None} /\ (isCreating' => selected' = None)
        BY <1>4 DEF NewPrompt, Select
    <2> QED
        BY <1>b, <2>1
<1>5. CASE Edit
    BY <1>a, <1>5 DEF Edit, DraftFollowsList, EditorOpen, Shown, Draft, TypeOK, feed, view
<1>6. CASE UNCHANGED <<list, isLoading, view, draft>>
    BY <1>a, <1>6 DEF DraftFollowsList, EditorOpen, Shown, TypeOK, view
<1>7. \/ Attach \/ MountHook \/ FetchFails \/ HearUpdatedUnknown
      \/ HearCreated \/ HearDeleted \/ HearUpdated
      \/ NewPrompt \/ (\E i \in Id : Select(i)) \/ Edit
      \/ UNCHANGED <<list, isLoading, view, draft>>
    BY DEF Next, vars, feed, view, MountHookTooEarly, MissPushes, Drops, Reconnects,
       OtherDevice, Save, SaveFails, Delete, DeleteFails
<1> QED
    BY <1>1, <1>2, <1>3, <1>4, <1>5, <1>6, <1>7

LEMMA FlagsTyped ==
    ASSUME IndInv, [Next]_vars
    PROVE  /\ online' \in BOOLEAN /\ attached' \in BOOLEAN /\ hooked' \in BOOLEAN
           /\ isLoading' \in BOOLEAN /\ error' \in BOOLEAN /\ isCreating' \in BOOLEAN
           /\ isSaving' \in BOOLEAN /\ isDeleting' \in BOOLEAN
<1>1. TypeOK
    BY DEF IndInv
<1>2. CASE Attach \/ MountHook \/ HearUpdatedUnknown
    BY <1>1, <1>2 DEF TypeOK, Attach, MountHook, HearUpdatedUnknown, Begin, wire, view, busy
<1>3. CASE FetchFails \/ MountHookTooEarly
    BY <1>1, <1>3 DEF TypeOK, FetchFails, MountHookTooEarly, wire, view, busy
<1>4. CASE HearCreated \/ HearUpdated \/ HearDeleted \/ MissPushes \/ OtherDevice
    BY <1>1, <1>4 DEF TypeOK, HearCreated, HearUpdated, HearDeleted, MissPushes, OtherDevice,
       wire, view, busy, feed
<1>5. CASE Drops \/ Reconnects
    BY <1>1, <1>5 DEF TypeOK, Drops, Reconnects, view, busy, feed
<1>6. CASE NewPrompt \/ (\E i \in Id : Select(i)) \/ Edit
    BY <1>1, <1>6 DEF TypeOK, NewPrompt, Select, Edit, wire, busy, feed, view
<1>7. CASE Save \/ SaveFails \/ Delete \/ DeleteFails
    BY <1>1, <1>7 DEF TypeOK, Save, SaveFails, Delete, DeleteFails, wire, view, feed
<1>8. CASE UNCHANGED vars
    BY <1>1, <1>8 DEF TypeOK, vars
<1> QED
    BY <1>2, <1>3, <1>4, <1>5, <1>6, <1>7, <1>8 DEF Next

-----------------------------------------------------------------------------
(* The theorems                                                            *)

LEMMA Invariance == Spec => []IndInv
<1>1. Init => IndInv
    BY InitKeeps
<1>2. IndInv /\ [Next]_vars => IndInv'
    BY ServerKept, ListKept, FailureKept, DraftKept, FlagsTyped DEF IndInv, TypeOK
<1> QED
    BY <1>1, <1>2, PTL DEF Spec

\* The variables keep their types.
THEOREM PromptsTypeCorrect == Spec => []TypeOK
<1>1. IndInv => TypeOK
    BY DEF IndInv
<1> QED
    BY <1>1, Invariance, PTL

\* The list is what the delivered pushes tell, through any losses.
THEOREM ListTracksPushes == Spec => []ListIsAsTold
<1>1. IndInv => ListIsAsTold
    BY DEF IndInv
<1> QED
    BY <1>1, Invariance, PTL

\* The open editor always holds the list's version of the selected prompt.
THEOREM DraftTracksList == Spec => []DraftFollowsList
<1>1. IndInv => DraftFollowsList
    BY DEF IndInv
<1> QED
    BY <1>1, Invariance, PTL

\* The failure of the fetches is told when all have ended.
THEOREM FailureTold == Spec => []FailureIsTold
<1>1. IndInv => FailureIsTold
    BY DEF IndInv
<1> QED
    BY <1>1, Invariance, PTL

\* Nothing but the user, the edited prompt's own change and a fetch takes
\* unsaved edits away.
THEOREM EditsSafe == Spec => EditsAreKept
<1> DEFINE Stays == /\ EditorOpen /\ draft.dirty
                    /\ view' = view /\ ~isLoading'
                    /\ Shown => list'[selected] = list[selected]
<1>1. ASSUME IndInv, [Next]_vars, Stays PROVE draft' = draft
    <2>1. TypeOK /\ DraftFollowsList /\ None \notin Id
        BY <1>1, PromptAssumption DEF IndInv
    <2>2. ASSUME NEW R, WatchDraft(R), Shown' = Shown, Shown => selected \notin R
          PROVE  draft' = draft
        BY <1>1, <2>2 DEF WatchDraft, EditorOpen, view
    <2>3. CASE Attach \/ MountHook \/ HearUpdatedUnknown
        BY <1>1, <2>3 DEF Attach, MountHook, HearUpdatedUnknown, Begin
    <2>4. CASE FetchFails \/ NewPrompt \/ \E i \in Id : Select(i)
        <3>1. WatchDraft({}) /\ list' = list
            BY <2>4 DEF FetchFails, NewPrompt, Select
        <3>2. Shown' = Shown
            BY <1>1, <3>1 DEF Shown, view
        <3> QED
            BY <2>2, <3>1, <3>2
    <2>5. CASE HearCreated
        <3>1. WatchDraft({})
            BY <2>5 DEF HearCreated
        <3>2. Shown' = Shown
            BY <1>1, <2>1, <2>5 DEF HearCreated, Shown, EditorOpen, DraftFollowsList, view,
               TypeOK, Library
        <3> QED
            BY <2>2, <3>1, <3>2
    <2>6. CASE HearUpdated
        <3>1. PICK i \in Id : /\ Before[i] # 0 /\ After[i] \notin {0, Before[i]}
                              /\ list[i] # 0
                              /\ list' = [list EXCEPT ![i] = After[i]]
            BY <2>6 DEF HearUpdated
        <3>2. WatchDraft({j \in Id : Before[j] # After[j]})
            BY <2>6 DEF HearUpdated
        <3>3. NextIsPush
            BY <2>6 DEF HearUpdated
        <3>4. \A j \in Id \ {i} : After[j] = Before[j]
            BY <1>1, <3>1, <3>3, PushTyped
        <3>5. Shown' = Shown
            BY <1>1, <2>1, <3>1 DEF Shown, view, TypeOK, Library
        <3>6. draft.base = list[selected] \/ ~Shown
            BY <1>1, <2>1 DEF DraftFollowsList
        <3>7. CASE selected = i /\ Shown
            <4>1. list'[i] = After[i]
                BY <2>1, <3>1 DEF TypeOK, Library
            <4>2. After[i] = list[i]
                BY <1>1, <3>7, <4>1
            <4> QED
                BY <1>1, <2>1, <3>1, <3>3, <3>7, <4>2, TellsNews
        <3>8. CASE selected # i \/ ~Shown
            BY <2>1, <2>2, <3>2, <3>4, <3>5, <3>8 DEF Shown, TypeOK
        <3> QED
            BY <3>7, <3>8
    <2>7. CASE HearDeleted
        <3>1. WatchDraft({})
            BY <2>7 DEF HearDeleted
        <3>2. Shown' = Shown
            BY <1>1, <2>1, <2>7 DEF HearDeleted, Shown, view, TypeOK, Library
        <3> QED
            BY <2>2, <3>1, <3>2
    <2>8. CASE Edit
        BY <1>1, <2>1, <2>8 DEF Edit, TypeOK, Draft
    <2>9. CASE UNCHANGED draft
        BY <2>9
    <2>10. \/ Attach \/ MountHook \/ HearUpdatedUnknown \/ FetchFails \/ NewPrompt
           \/ (\E i \in Id : Select(i)) \/ HearCreated \/ HearUpdated \/ HearDeleted
           \/ Edit \/ UNCHANGED draft
        BY <1>1 DEF Next, vars, MountHookTooEarly, MissPushes, Drops, Reconnects,
           OtherDevice, Save, SaveFails, Delete, DeleteFails
    <2> QED
        BY <2>3, <2>4, <2>5, <2>6, <2>7, <2>8, <2>9, <2>10
<1>2. IndInv /\ [Next]_vars => [Stays => draft' = draft]_vars
    BY <1>1
<1> QED
    BY <1>2, Invariance, PTL DEF Spec, EditsAreKept
=============================================================================
